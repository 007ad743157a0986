SPECIFICATION VoiceSpec
CONSTANTS
  Header = 2
  Sizes = {3}
  Block = 2
  Words <- Heard
  FirstResult = {"absent"}
  MaxFds = 3
  MaxCalls = 3
  Feed = 1
INVARIANTS SavedAsMany WavIsPrefix AnswerIsResult VoiceTypeOK WholeFileFed SessionsEnded
PROPERTIES CallReturns ImplementsLink
CHECK_DEADLOCK FALSE

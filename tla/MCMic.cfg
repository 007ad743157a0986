SPECIFICATION MicSpec
CONSTANT Chunks = {0, 1, 2}
INVARIANTS MicTypeOK NoUseAfterFree SessionsEnded LastAfterStop
PROPERTY DemoReturns
CHECK_DEADLOCK FALSE

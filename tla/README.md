# Verification of the ArmTouch entertainment terminal

The repository holds an entertainment terminal for a GEC210 ARM board: a touch
screen program (`armTouch`) with a picture album, a music and a video player
and a voice page, and a host that recognises the voice commands. This
directory holds TLA+ modules of its own C code, TLC runs and TLAPS proofs.

## 1. Inventory

### Parts, their state, their operations

| part | source | state | operations |
|---|---|---|---|
| main thread M | `src/codes/ubuntu-project/src/main.c` `main`, `proc_main`, `proc_pic`, `proc_music`, `proc_video`, `proc_voice`, `proc_end` | where it is, the listed file names of the page | draw the page `ui_status` names, serve that page's status variable until `ui_status` changes |
| touch thread T | `main.c` `ts_pthread`, `proc_ts_main/pic/music/video/voice`, `ts.c` | last position and pressure | read samples, pair press and release, store into the status variables |
| shared globals | `main.c:26-88` | `ui_status`, `pic_status`, `music_status`, `video_status`, `indexPic`, `indexMusic`, `indexVideo` | plain loads and stores, no lock |
| players | `musichandler.c`, `videohandler.c` | processes called `madplay` and `mplayer` | `system("... &")` to start, `killall -9`, `killall -STOP &`, `killall -CONT &` |
| file lists | `main.c` `getDir` | the directories on the card | count and names of the media files |
| voice connection | `socketCommunication.c` | one TCP connection per call | connect, record, send header and recording, receive one answer |
| voice server | `src/codes/server/voiceServer.c` | the saved recording, `result.txt` | accept, receive, run the recogniser, answer |
| offline recogniser | `src/codes/xunfei/samples/asr_sample/asr_sample.c` | the SDK's session | read the saved recording, write `result.txt` |
| drawing | `pichandler.c` | the frame buffer | bitmaps with six animations |
| microphone sample | `src/codes/xunfei/samples/asr_record_sample` | recorder, its thread, the session | record or read a file, feed the engine, deliver results |

Not the product's own logic: `touch.c` (commented out), the vendored
`jpeg-9a` (called by nothing here), the SDK's headers and libraries, and the
binaries under `src/codes/arm-project`.

### Interaction

M and T share the globals. T stores `ui_status` to change the page and a
*trigger* (`START`, `HOLD`, `NEXT`, ...) to ask the page for something; M
carries the trigger out and stores the *resting* status that follows
(`PLAY`, `PAUSE`, `NULL`). M also stores `ui_status`, when the voice server
has answered. The players are separate processes that the program only
influences by name. The board and the server share one connection per call,
and the server and the recogniser share two files. The engine calls the
recogniser back on a thread of its own; in the microphone sample the
recorder's thread and the main thread share the recorder and the session.

### What is hard

* Two threads with blind stores: a decision T made from a status it read
  earlier, a store of M over something T stored meanwhile, a page left between
  a command and its service.
* Processes found by name, and background `killall`s without an order.
* Lists that are counted again on each visit while the indices survive.
* A stream that `recv` cuts where it likes, a header without a length of its
  own, files used before they are flushed or after they are stale, a server
  that may die or hang.
* A touch thread that may lag many samples behind the finger.
* A frame buffer that is copied onto itself, in four directions.
* File names that point into the buffers of directory streams.
* A recorder's thread that is cancelled while it may be ending the session
  that the main thread ends too.

`PROJECT.json` lists each hazard with its line and the properties about it.

### What makes each part correct

* players and pages: one player at most, none while the status says `NULL`,
  the one of the index; commands carried out only when they make sense; no
  toggle lost; every trigger served that was not stored between the calls of a
  case and its store.
* album: the index in range, the picture on the screen the index's, a chosen
  slide show not lost.
* pages: M follows what `ui_status` asks for; shutdown ends the program.
* sampler: one touch per stroke, in order, with the right offset.
* voice link: the recording saved whole, or up to where its connection broke;
  the right answer; every call ends.
* recogniser: the whole file fed, the session ended before the program logs
  out, the result file changed at most once.
* file listing: a page sees a fixed list of existing files.
* drawing: no line lost or misplaced, no access outside the buffers, nothing
  kept by a call that succeeds.
* microphone sample: the thread gone before its recorder is freed, the session
  ended by whichever thread gets there, the demo returns.

## 2. Modules

| module | models |
|---|---|
| `TouchTargets` | hit regions and the gesture classifier: pure operators on a touch `[a, b, dx, dy]` |
| `Players` | process table and pending signals, one operator per function of the two handlers |
| `UiState` | the globals, the control state of M and T, initial values |
| `PlayerPages` | music and video page, both threads; parameter `m` is the medium |
| `AlbumPage` | the album, both threads |
| `ArmTouch` | `main`, `ts_pthread`'s dispatch, main menu, voice page; composes all of the above into `Spec` and `FairSpec` |
| `ArmTouchProps` | properties and the inductive invariant of `ArmTouch` |
| `ArmTouchClaims` | what the report says and the code does not do |
| `Remote` | abstract specification of a media page, implemented by `ArmTouch` |
| `TouchSampler` | samples to touches, the loop of `ts_pthread` with `getPos` |
| `VoiceLink` | board and server around one connection per call; recognising is one step |
| `AsrSample` | `asr_sample.c` step by step with the engine's callback, in place of that step; implements `VoiceLink` |
| `Listing` | `getDir`, its directory streams, and the uses the pages make of the names |
| `Catalogue` | abstract specification of a page's list, implemented by `Listing` |
| `Drawing` | `showThePic`: every mode line by line, its failures and descriptors |
| `Recorder` | `linuxrec.c`: the recorder's operations and its thread, on an ALSA device |
| `SpeechRecognizer` | `speech_recognizer.c`: the session, fed by either thread |
| `MicSample` | `demo_mic` and `demo_file` of `asr_record_sample.c`; composes the two into `MicSpec` |
| `ArmTouchProofs`, `VoiceLinkProofs`, `TouchProofs`, `AsrSampleProofs`, `DrawingProofs`, `ListingProofs`, `MicSampleProofs` | theorems |
| `MCArmTouch`, `MCSampler`, `MCVoiceLink`, `MCAsrSample`, `MCListing`, `MCDrawing`, `MCMicSample` | constants for TLC |

Definitions marked *faulty* are variants of the definition that follows them,
each with one plausible mistake. The specifications do not use them; they
exist to show that each property can fail.

### State and actions against the code

*Granularity.* The program is built without optimisation (no `-O` in the
Makefile) for a single-core ARM: each load or store of a global is one
instruction, and the threads may be switched between any two. Every action
therefore contains at most one access the other thread can observe or
disturb. `ToggleHit`/`ToggleMiss` are one evaluation of one `else if` of
`proc_ts_music`; `StoreMedia` is its store; `Take` is the read in M's
`switch` together with the calls of the case, since T reads neither index nor
players, and what the kernel does meanwhile commutes with them; `Settle` is
the store that ends the case.

*M's control.* `mpc` is `dispatch` (the switch of `main`), `enter` (the head
of a `proc_` function), `loop` (the test of its `while`), `switch`, `store`
(between a case's calls and its store), `request` and `apply` (the voice
page), `exited`. *T's control.* `tpc` is `idle`, `goto`/`open_album` (the two
stores of `proc_ts_main`), `read`/`read2`/`read3`/`none` (the tests of a
handler in order), `write`, `leave` (the store of `UI_MAIN`).

*History.* `mode[m]` is what the last command carried out left the player
in; `procs[p].missed` marks a process that a `killall -9` came too early for;
`strokes` and `heard` record what the user did. No guard reads them, except
that `MaxStrokes` bounds `strokes`.

*Touches.* A touch is handled when the finger is lifted. `Touched` picks any
of `Taps`; `TouchSampler` shows that touches are what the finger did.

*Voice link.* A place in the stream identifies its contents, so the stream
and the saved file are counters: `wire[c]` says how long the recording of call
`c` is, how many units of its stream have been sent (or, once it is lost, can
still be received), and whether it is lost; `head` units were taken for the
header, `read` in all, the saved file is places `head+1..read`, and `OnDisk` is
the last of them that stdio has written out. `Lose` breaks a connection at any
place; from then on the server gets what had arrived, and after that `recv`
returns 0 or -1: `BodyCut` is the exit of the receiving loop on that, and a
header that never came leaves the size at 0. A board without a recording uses a
null stream and dies (`NoRecording`), as it may from SIGPIPE; `Reboot` is the
user starting the program again, with a new call, while the server may still
serve the old one.

*Recogniser.* `apc` is the place of `asr_sample` while the server's `system()`
waits for it, `callback` the last store of the engine's thread. A step that
decides what `result.txt` will say (`Conclude`) is the step `Recognise` of
`VoiceLink`; every other step is a stutter, with the server taken to be at
"answer" as soon as the file cannot change any more.

*Drawing.* A call opens the file, then the screen, then reads, and may fail at
each of the three (`OpenScreenFails` and `ReadFails` are the two error paths
after the file is open); `held` counts descriptors and buffers that no call has
given back. `screen` is what each line of the frame buffer shows, as a picture
and a line of it. `Fly` is one turn of the outer copying loop of a flying
mode, whose inner loop treats all cells of the line alike; `Still` and `Shade`
are one line of the others.

*Listing.* `names` holds what `getDir` stored: a stream and a place in its
buffer. `Name` reads through that pointer, and is `"wild"` when the stream is
closed or its buffer was filled again. `AddFile` is the user copying files at
any time.

*Microphone sample.* `pc[t]` is the place of each thread and `stack[t]` the
frames of its calls, with one label to return to on success and one on an
error, since both threads run the same procedures (`stop_record`,
`end_sr_on_error`, `end_sr_on_vad`, `sr_write_audio_data`).

## 3. Runs

| run | question | bounds |
|---|---|---|
| `music` | do starts, holds, continues and skips of one page survive the race | 2 files, 2 processes (symmetric), every button |
| `voice` | do the pages' invariants survive answers that arrive late, and do two media with players left running disturb each other | 2 processes, answers for every page, shutdown, other |
| `album` | index, picture and slide shows under every gesture | directory grows from 1 to 3 files |
| `pages` | liveness of dispatch, service and shutdown | tiles, back and play, no processes, no voice page |
| `strokes` | one touch per stroke, none dropped, the right gesture (against a definition without division) | 2 strokes, 4 places, 4 queued samples |
| `link` | what is saved, recognised and answered under any division into reads, lost connections, crashes, hangs and failures of the engine | 3 calls, recordings of 3 units, 3 descriptors, no result file at first, a chunk of 1 unit |
| `listing` | are the leaked streams and the pointers into them a list | 2 pages, 3 visits, 2 descriptors, directories of 0 to 3 entries, one missing |
| `drawing` | what any sequence of drawings leaves on the screen | 6 lines, 3 frames of 2 lines, 3 strips, 3 pictures, 2 failures |
| `mic` | do recorder, session and demos end properly whatever fails when | both demos, one thread each, a file of 0 to 2 chunks |

Three more runs each show one statement of a comment or of the report
(`src/documents`) violated; `PROJECT.json` quotes it under "findings":
`back_lost` (a stop that M's store replaces), `header_in_file` (a header
delivered in two segments) and `stale_result` (the answer of an earlier call).
`VoiceLink` by itself is run by the last two.

*Why the bounds are enough.* Two processes are the least number with which
`OnePlayer` can fail; two files distinguish neighbours from wrap-around, and
three distinguish forwards from backwards in the album. A list may grow
between visits, which is the case the equality test of the wrap-around is
exposed to. `MaxSignals = 1` lets one killall of each kind wait: one STOP and
one CONT already give both orders, and one more of a kind that is waiting is
merged with it. Places in a stroke only matter by being equal or different. Two
units to a buffer distinguish a short read from a full one. In `link` the
first call has no result file to fall back on and the second has; with three
descriptors the third call is the one that finds none left. A call may be the
one after one that was lost or cut short, with the server still busy with it. A
recording of three units takes two reads or more, and lost connections deliver
every shorter one, down to nothing. In `drawing` two failures may take
the same error path or one each, and a
line is taken from the screen twice before it comes from the file, one picture
is transparent and one has a height the strips do not divide. In `listing` the
third visit is the one that finds no descriptor. In `mic` the recorder's
thread may deliver any number of periods. `CHECK_DEADLOCK` is `FALSE` because
`armTouch` and the demos end, and because the bounded user of `TouchSampler`,
`VoiceLink` and `Listing` stops.

*Fairness.* M and T are runnable threads under the kernel's scheduler and M
blocks only in the voice request, so each gets weak fairness. The user, the
server's answer, the players and the killalls get none. `TriggerServed` is
about triggers that T stores while M is not between the calls of a case and its
store: for one stored in between, M's store may come last, which is what
`TogglesNotLost` bounds and the run `back_lost` shows. In `TouchSampler` the
driver has a sample and T reads it. In `VoiceLink` both programs run, alsa
recording ends after five seconds, and TCP delivers: weak fairness for each
side; nothing makes a connection break or the user start a program again. A
failed `accept` is left out of `CallReturns` by name, since the code
loops there for ever. `AsrSample` adds that the program runs, that the engine
calls back, and that it completes a result some time: without this the code's
result loop has no end. `Drawing` is one thread that runs. In `MicSpec` both
threads run, the engine completes a result of an open session some time, and a
cancelled thread ends at the next place where it sleeps or waits. `DemoReturns`
leaves out a device that does not stop when told to.

## 4. Proofs

`ArmTouchProofs` proves for every set of touches and answers, every process
table and every bound on the directories:

* `Invariance`: `Spec => []IInv`, by `Initially` and one lemma per action.
* `TypeCorrect`, `TogglesSafe`, `PlayersSafe`, `SilenceSafe`, `TrackSafe`,
  `IndicesSafe`, `SlideShowSafe`.
* `PagesAreRemotes`: `Spec => RemoteControl`, the refinement of `Remote`.
* `AlbumShowsIndex`, under a condition on the voice server's answers (below).

None of the safety properties is inductive. `IInv` adds why the race is
harmless where it is: outside M's `store`, the status tells what the player
was left in, directly when it rests and through what T decided on when a
toggle waits (`StatusInv`); what T decided on is still there when T stores,
because M changes a status only when a trigger is in it (`DecisionInv`); at
M's `store`, T can have stored only a skip, since it decides on a toggle only
over a resting status. `ProcessInv` carries the process table along, `AlbumInv`
says the same of the menu, and `ReplyInv` types the voice answer.

`AlbumShowsIndex` rests on `DrawnInv`: the album draws the first file on entry
whatever the index is, but until M has drawn the indexed picture there is a
command in `pic_status` that makes it draw, and T stores `NULL` over that
command only on the way out or after M has drawn. The theorem needs
`"PIC" \notin Replies`: a voice answer opens the album without storing
`PIC_PLAY`, and then the first picture stays on the screen while `indexPic` is
another one. The condition is that of the run `album`; without it TLC finds
the behaviour just described.

`VoiceLinkProofs` proves the type invariant, `SavedAsMany`, `AnswerIsResult`
and `WavIsPrefix` for every division of the stream into reads and every header,
recording and block length, and connections lost at any place. Its invariant
`LinkInv` ties the two programs' places together: a board that has its answer
on a connection that is not lost finds the server through with it, and one that
was killed has lost its connection or the server is gone; so a board that was
started again may be several connections ahead, but only lost ones wait for the
server. What a recv can return never exceeds header and recording, and a server
that is through with its loop has what was announced or all there was.

`TouchProofs` proves, for every place on the screen where TLC tries four, that
the gesture classifier is the sector `InSector` (`GesturesAreSectors`). The
sampler's part is that it only hands out touches between points of the screen
(`SamplerTyped`), the arithmetic is `Quotient` and `SectorOfStroke`.
`StrokesAreTouches` says that T hands out exactly the strokes of the finger, in
order, although it may be any number of samples behind: for any sampling of any
strokes and any points. A queue of samples says nothing about touches before T
has taken it, so the invariant `ReplayInv` replays it: there are numbers `n[k]`
and points `from[k]` such that after its k-th waiting sample T will have handed
out `n[k]` touches and will remember `from[k]` as the start of the last stroke,
each one following from the one before by the comparison the loop makes, and
the last ones agree with the finger now. Taking a sample drops the first pair,
adding one appends a pair (`SampleReplays`, `QueuedReplays`). A read that fails
repeats the last pressure, which is harmless once T has compared that pressure
before: `ReadBefore` says so, and is needed only for the first read of all,
whose `press` is uninitialised. `StrokesAreTouchesFromUp` drops it for a `press`
that happens to be 0, as in the run `strokes`.

`MainTargetUnique` and
`ButtonsDisjoint` justify modelling the else-ifs of the menu and of the
player pages as a choice without an order.

`VoiceBackDead` says that the voice page's handler takes no touch on the back
button the page draws for back: `showBackButton` puts it at x = 740, the
handler asks for a < 60. The report (section 3.2.2) says that the user can
leave with it.

`AsrSampleProofs` carries `LinkInv` over to the detailed recogniser: `VoiceInv`
is `LinkInv` and `AsrInv`, which ties `apc` to the server's place and the
counts of the feeding loop to the size of the file. From it follow
`VoiceTypeCorrect`, `FileSafe`, `SessionsSafe` (no session is open at logout,
and only the parser's crash leaves one open after it) and the refinement
`AsrImplementsLink`; `LinkStillSafe` concludes that the link's safety holds of
the composition, for every length of recording, header, block and chunk.

`DrawingProofs` proves all safety properties of `Drawing` for every screen,
bitmap and number of strips. Its invariant says what the screen shows in the
middle of a frame: lines already copied show the tape one frame further, lines
to come show it as it was, which is why the order of copying matters; and for
the other modes which lines have been painted. `Descriptors` counts what is held
at each place of a call, and what the calls that failed have kept.

`ListingProofs` proves, for every set of directories, size of the array and
number of descriptors, that although `getDir` keeps pointers into streams it
never closes, the pages see a fixed list of existing files: `ListTypeCorrect`,
`DescriptorsSuffice` and `ListingIsCatalogue`, the refinement of `Catalogue`.
Its invariant `ListInv` says that every stored name points to an entry the last
stream has handed out, that the streams opened are exactly those still open,
and that there are no more of them than visits. A page's index outlives the
visit, so it also says that every index lies inside what its directory holds
now, hence inside the next list, since directories only grow (`Grown`,
`InsertCounts`: an inserted entry lowers no count of media files).

`MicSampleProofs` proves all safety properties of the microphone sample, for
any length of the file and any choices of engine, device and scheduler:
`MicTypeCorrect`, `RecorderJoined`, `MicSessionsEnded`, `LastBlockAfterStop`.
Both threads run the same procedures, called from many places, so the model
keeps a stack of return places per thread and the invariant `MicInv` begins
with control: `ControlInv` says for each place which stacks a thread can have
there, in other words who may have called the procedure. Every action is then
either a step inside a procedure, a call or a return (`Moved`, `PushPop`), and
what remains is data: a file is fed without a recorder (`UserInv`); before the
device has started the recorder's thread can only wait (`QuietInv`); the buffer
is freed after the join (`FreedInv`); nobody starts the device again
(`StoppedInv`); and an open session belongs to main while it starts or ends it,
to no one once main is past stopping it (`SessionInv`; a device that cannot be
dropped is the exception, `dropFailed`).

Assumptions are those of the modules that declare the constants: a directory
holds between 1 and 99 files (`ArmTouch`), answers are page names or "other",
`MaxSignals` is at least one, units and chunks are positive, bitmaps fit the
screen and those that fly have its size, a frame's lines divide it; a
directory fits the array and one read of the directory (`Listing`).

Only model-checked: the liveness properties (`PageFollows`, `TriggerServed`,
`ShutdownEnds`, `StrokesHandled`, `CallReturns`, `DrawingEnds`, `DemoReturns`),
which are out of the prover's reach, as are `ENABLED`, induction over data and
RECURSIVE operators, of which there are none. Every safety property of a
passing run is stated by a theorem. The claims of the violation runs
(`SavedIsRecording`, `NothingHeardNothingDone`, `BackStops`) do not hold.

## 5. Abstractions and what is not modelled

* The icons T draws after its store while M may be drawing too, and the texts
  printed. `Drawing` has one thread.
* The album and the players are modelled with directories of 1 to 99 files
  that only grow; `Listing` has the missing and empty ones. A directory with
  more files than the array of 99 entries would be written beyond it:
  `FitsAssumption` leaves that out, and also a second fetch by `readdir`, which
  a directory of 99 names does not need.
* A failing `lseek` (pichandler.c:72 tests the wrong variable): seeking in a
  regular file does not fail, the read that follows may.
* A `killall` that comes before its player has its name, and a STOP and a CONT
  delivered in the other order, are in the model; the properties leave the
  players they concern out by name, since nothing in the code handles them.
* A still touch on the line a = 400 or in the strip beside the album's back
  button matches no branch of `proc_ts_pic` (main.c:202); the model has it do
  nothing, like the code.
* `system()` failing to fork; signals other than the three used.
* More background killalls of one kind waiting than `MaxSignals`.
* The engine: in `AsrSample` any call may fail, and it may hear any word or
  nothing in audio that is not empty. In the microphone sample a call on a
  session that is not open fails, any other may.
* ALSA: a device that was dropped reports an error, one that overran is
  prepared and waits for a start; parameters and device lists are left out.
  Cancellation acts where the thread sleeps or waits.
* The microphone sample's `main` (login, grammar, lexicon), the parsing of the
  audio format in `sr_init_ex`. `demo_file` with a file it cannot read releases
  a structure it never initialised (asr_record_sample.c:316): it returns or is
  the end of the program. A null handle or buffer is the end of the program.
* Several boards calling one server: the sources have one.
* A half-open connection: when a board disappears and nothing tells the server
  so, its `recv` waits for ever (no keep-alive is set). A connection that is
  lost is noticed in the model. A lost connection never delivers again: the board
  opens a new one for each call.
* A session begun with a grammar that was refused (asr_sample.c:54) can happen
  in the model, as in the code, and no property forbids it. Nor does one forbid
  that a late voice answer replaces what the user chose meanwhile (main.c:655).
* The padding of bitmap rows, and `biSizeImage` differing from the rows: the
  buffer holds the rows of the picture.
* An empty recording: a size of 0 would leave the server waiting for a body
  that never comes. `Sizes` starts at 1: a WAV file has at least its header.
* What the uninitialised `press` of `ts_pthread` may hold: the run `strokes`
  takes 0. With another value the first turn of the loop, if its read fails,
  would hand out a touch nobody made; `FirstPress` admits that.
* Contact pressure other than 200 (`main.c:694`): what the board's screen reports.

## 6. Not modelled

* `jpeg-9a`, about 50000 of the repository's 57000 lines of C: libjpeg as it is
  distributed, called by nothing in `src/codes/ubuntu-project/src`, so no
  behaviour of the terminal depends on it. Its headers in
  `ubuntu-project/include` are not used either. This is why the modelled lines
  are a small share of all lines although every source file of the project's own with
  code in it is modelled.
* `touch.c`: commented out as a whole.
* The speech SDK, tslib, `madplay`, `mplayer`, `alsa_record`: binaries and
  headers; the modules say what the code relies on.

## 7. Open work

1. `ArmTouch` with the lists of `Listing` in place of their lengths, and the
   voice page with `AsrSample` in place of an arbitrary answer.
2. Icons against the status after a lost trigger.

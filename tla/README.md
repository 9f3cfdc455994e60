# Nexen: a TLA+ verification of the emulator's core

Nexen is a multi-system emulator. Its core (`src/Core/Shared`, `src/Utilities`)
runs a console on an *emulation thread*, while a frontend, a shortcut-key
thread, a video decoder, a renderer, netplay threads and debugger windows call
it, pause it, load games and states into it, and rewind it. The console cores
are deterministic machines; what is hard, and what this project is about, is
everything around them: the locks, the life of the emulation thread, the
broadcast of notifications, and the recording that rewinding replays.

Paths and line numbers are those of the repository.

## 1. The system and its parts

| Part | State it keeps | Operations | Talks to | What makes it correct | Module |
|---|---|---|---|---|---|
| `SimpleLock` (`Utilities/SimpleLock.cpp`) | atomic flag, holder, count | Acquire, TryAcquire, Release, IsLockedByCurrentThread | every lock of the core | mutual exclusion, re-entrance, although two of its three members are read without synchronisation | `SimpleLock`, `ReentrantLock` |
| Emulation loop (`Shared/Emulator.cpp`, `EmulatorLock.cpp`, `SystemActionManager.h`) | run lock, lock counter, stop / pause / thread-paused flags, console, thread, buttons | Run, WaitForLock, WaitForPauseEnd, Lock, Unlock, Pause, Resume, PauseOnNextFrame, LoadRom, PowerCycle, Reset, Stop | all threads | users exclude frames, nobody is kept out, the console outlives the thread, pauses and stops take effect | `EmulatorLoop` |
| Notifications (`NotificationManager.cpp`) | weak list of listeners, shared snapshot vector | register, send | all threads; callbacks run outside the lock and may send again | every live listener is called, and lives during its callback | `NotificationManager` |
| Rewinding (`RewindManager.cpp`, `RewindData.cpp`) | three containers of blocks, rewind state, queue of frames, memory total | end of frame, notification, frame delivery, start, stop, go back by seconds, trim | emulation thread, decoder, shortcut thread, save states | stored states can be decoded, the replay is frame-perfect, the screen goes back frame by frame | `RewindManager` |
| Debugger: stopping (`Debugger.cpp`, `DebugBreakHelper.h`, `EmulatorLock.cpp`) | break and suspend counts, the step, stopped flags | break request, suspend, step, run, the hook between instructions, the sleep | the emulation thread and debugger windows, resets | the requests are balanced, who is let in sees the emulation stand still, nobody waits for ever | `DebuggerBreak` |
| Debugger: coming and going (`Emulator.cpp`, `DebuggerRequest.cpp`) | the debugger, request and block counts, debugger lock | GetDebugger, InitDebugger, StopDebugger, BlockDebuggerRequests, LoadRom, Stop | every caller of the tools, loads of games | no one uses a debugger that is gone; counts return; no deadlock | `DebuggerRequests` |
| Video (`VideoDecoder.cpp`, `AutoResetEvent.cpp`) | a frame slot with a changed flag, the decode thread | update, decode, stop / start | emulation thread, rewinding, state loads | no frame is decoded while it is drawn or gone; threads end | `VideoDecoder` |
| Netplay (`Core/Netplay`) | connection, per-port queues of input | handshake, input, state transfer, shutdown | sockets, input providers | the client replays the host's inputs, and neither of its threads is stuck | `GameClientConnection` |
| Movies (`Shared/Movies`, `BaseControlManager.cpp`) | player and recorder, rows of input, poll counter, saved settings | record, play, stop, poll | input providers and recorders of the console, loads, power cycles, resets, state loads; rewinding (not modelled) | playback leads through the recorded states; the user's settings come back | `Movies` |
| Save states, history viewer, TAS editor data | slots, copies of blocks, greenzone | save, load, seek, edit | emulator lock, rewinding | no stale state is loaded | planned |
| Sound, cheats, battery files, settings, CDL, shortcut keys, movie converter | options, buffers, files | | emulator lock | data conversion, little control | not planned |
| Console cores, frontend, platform code | | | | out of a model checker's reach | not modelled |

`PROJECT.json` has every component with its sources, and under `hazards` the
places where a test would hardly find an error, each at its line.

### How the parts interact

* The **run lock** (a `SimpleLock`) is held by the emulation thread while it
  runs frames. `EmulatorLock` raises `_lockCounter` and then waits for the
  run lock; between two frames `WaitForLock` sees the counter, releases the
  lock and spins until the counter is 0. Save states, cheats, netplay, rewinding
  and loading all get at the console this way.
* **Stop and load**: `LoadRom` takes the run lock, calls `Stop` (flag, join,
  destroy), installs a new console and starts a new thread; `Stop` alone does
  it without the lock. A power cycle runs the same function on the emulation
  thread itself.
* **Notifications** are sent by any thread; `PpuFrameDone` counts the frames of
  `RewindManager`, `StateLoaded` makes it begin a new block.
* **Rewinding** is started and stopped by the shortcut thread under the emulator
  lock and advanced by the emulation thread at the end of each frame.
* **The debugger** stops the emulation thread inside a frame, while it holds
  the run lock. A tool raises `_breakRequestCount` and spins; an `EmulatorLock`
  does the same if there is a debugger, and otherwise suspends the debugger (so
  that the frame can end) and takes the run lock. Loads and stops first block
  and drain the requests, then replace the debugger.
* **Frames** go from the emulation thread through one place to the decode
  thread, and from there to `RewindManager::ProcessFrame`; those of a rewind
  are decoded by the emulation thread itself.
* **Netplay's client** is an input provider: the emulation thread waits inside
  its poll for what the network thread brings, and the network thread takes the
  emulator lock to load the host's state.
* **Movies** are input providers and recorders of one console's control manager. Loading
  a game makes a new console with empty lists; `GameLoaded`, sent when it is ready, makes
  a movie or its recorder register again.

## 2. The modules

### `ReentrantLock` and `SimpleLock`

`ReentrantLock` is the promise: `depth[t]`, an acquisition when nobody else
holds the lock, a release by a holder. `SimpleLock` is the code: `flag`,
`holder` and `count` are `_lock`, `_holderThreadID` and `_lockCount`, and one
action is one access to one of them. The flag is atomic. The other two are plain
members, read by threads that do not own the lock, which is a data race: a
thread that reads the holder while it is not the holder reads any value that is
not its own identity (`HolderSeenBy`), and reads of the count give any value
(`CountSeenBy`). (A read of its own identity is excluded because only the thread
itself writes it, and it has since written something else; a word is not torn on
the targets of the build.) `taken` is what a thread's caller knows. Callers pair
their calls, as `LockHandler` and `EmulatorLock` do.

`ImplementsReentrantLock` is the refinement `depth <- taken`. The definitions that
other modules also have begin with `Lock` here (`LockInit`, `LockNext`, `LockSpec`,
`LockTypeOK`), because one module of proofs extends this one and
`NotificationManager`; both take their threads from `ThreadIds`. The other
modules then use `ReentrantLock` for their locks, so one abstract step stands
for the many of `SimpleLock`.

### `EmulatorLoop`

One program counter per thread. The emulation thread's steps are the accesses
of `Run`, `WaitForLock`, `WaitForPauseEnd` and `ProcessSystemActions` to shared
members, in order; a user's steps are those of `Lock`, `Unlock`, `Pause`,
`Resume`, `PauseOnNextFrame`, `SystemActionManager::Reset` / `PowerCycle`,
`LoadRom` and `Stop`. Only the thread `Frontend` loads and stops: the frontend does so from
one thread at a time. `depth` is the run lock, `lockCounter`, `stopFlag`,
`paused`, `pauseOnNextFrame`, `threadPaused`, `emuThread` and `console` are the
members of these names; `pending` and `pressed` are the requests and the polled
buttons of `SystemActionManager`. `overrun` is a history variable that counts
the frames that begin while a user waits for the lock, less the emulation threads that loads have started meanwhile (`Run` begins
its first frame without a look at the lock counter); no guard reads it.

`Init` is the state before the first game. `RunningInit` is the state that a
successful `LoadRom` leaves behind, for the run on liveness.

### `NotificationManager`

`storage` and `size` are the vector `_snapshot`: `clear()` sets the size to 0 and
keeps the allocated elements, so that a loop of another thread that has already
tested its index reads an old element or a new one. (In the code this is a race on
a vector; only its orderly outcomes are modelled, which is enough to show the
violation and does not matter for what is claimed of lone broadcasts.) `frames[t]` is
the stack of broadcasts a thread is in: a callback may send, register or drop
listeners. The pruning of expired listeners (`Unexpired`) is a recursive function, so that
it can be proved about. `kept` and `called` of a broadcast are history: whom it found alive
under the lock, and whom it called. The other fields are its position.

### `RewindManager`

`machine` is the emulated machine. It is deterministic, so its state is the
sequence of inputs it was given; every live input is a fresh number. `InitHistory`, and `Init`, are a load with the poll that follows it
(`Emulator.cpp:578`, `:590`): the manager is registered by then, so the poll is recorded into the first block, which has one input more than
frames (`boot`). When that block is replayed, its first frame gets the input of that poll, the next one the first frame's, and so on; an input
that is given to the machine in another place than it was recorded in is written 0 (`Misplaced`). A frame of
the emulation thread is three steps: `RunFrame*` (poll, frame,
`PpuFrameDone`), `SendFrame*` (the picture reaches `ProcessFrame`),
`EndOf*` (`ProcessEndOfFrame`). A block (`RewindData`) has its state, its frame
count, its input log, whether it is full, and in `xor` the full state its data was XORed with:
`LoadState` gives the machine of the block if the full state found in the
deque is that one, and a corrupt machine otherwise.

Three more fields exist only for the properties. `exact` is true while nothing wrong was
loaded (a state that decoded wrongly, a block begun by a load, a fast-forward that leaves the block, a
user's state loaded in the middle of a replayed block, which the code ignores).
`orphan` marks the block being recorded when trimming removed everything before it. `torn`
says that a block was ended while it was being replayed. Each
names a case in which the code goes wrong, so that the other properties can be
stated of everything else; the configurations of section 4 show these cases. `FastFactor` is how many
frames run for one picture at the highest speed. Sums over blocks (`SumTo`) are recursive functions, so that
the module can be proved about.

### `DebuggerBreak`

The emulation thread's frames have `FrameSize` instructions. Its steps are the hook
`ProcessInstruction` (with `StepRequest::ProcessCpuExec`), the breaks inside an instruction
(`Break` for the scanline stepped to, `BreakAgain` for a memory access),
`SleepUntilResume` test by test, and, between frames, the reset and `WaitForLock`. `site`
is what called `SleepUntilResume`. A user is in a call `"tool"` (`DebugBreakHelper`), `"state"` (an
`EmulatorLock` that breaks between instructions, with its inner `Step` and its retry), `"lock"`
(one that does not allow the debugger lock), `"pause"`, `"frame"` (`Step`), `"run"` or
`"reset"`. `++` and `--` of the atomic counters are single steps; the test of
`SuspendDebugger` before its `--` is one of its own.

Five variables are history: `overrun` (instructions begun since a user was let in),
`suspended` (stopping was refused since), `erased` (a reset took the user's
suspension away), `late` (a reset request that suspended after its reset) and `asked`. No guard reads
them. `NapEnd` uses a timing of the code: the nap of 15 ms of the retry is longer than the 10 ms
after which `SleepUntilResume` tests its loop again, so the emulation thread has moved on when
the nap ends, if it may.

### `DebuggerRequests`

Here the calls nest in each other on any thread, so a thread has a program: `todo[t]`, a sequence of
steps; the operators `Block`, `ResetDebugger`, `GetDebugger`, `LoadRom`, `Stop` ... are the bodies of the functions
of these names as sequences of steps, and one action executes the first step. `held[t]` is what
the destructors will give back. `debugger` numbers the debuggers, so that a reference to an old one can be
told from the new one. The emulation thread is coarse: one instruction, the end of the frame, `WaitForLock` in four
steps (it reads `_debugger` between its two loops). A load succeeds, fails (its early return) or
throws (the `catch` of `LoadRom`); `thrown` counts the latter, for the block count that they leave
raised. `Unlock` tests the suspend count and lowers it in two steps (`Release`, `Lower`): `BlockDebuggerRequests` resets it without
the run lock and may come in between. The count is unsigned; below zero stands for that number modulo 2^32, so that
its `> 0` is `# 0` here. `Init` has a game that runs, with a debugger or without.

### `VideoDecoder`

Three threads: the emulation (`Draw*`, `UpdateFrame` by branches, `NextBuffer`), the decode thread (`DecodeThread`
with its two tests of the stop flag and the event), and the user's thread, which works between two frames under the run lock. A frame is a
number and the buffer it was drawn into; `content` says which frame was last begun in each buffer and
`"freed"` is a buffer that does not exist any more. `skipped` and `gap` are history.

### `GameClientConnection`

Both of the client's threads, step by step: `GameClient::Exec` and `ProcessMessage` on the network
thread, `SetInput` for each port on the emulation thread. The socket is the sequence `net`; the
host appends states (`GameInformation`) and inputs (`MovieData`), and may close or break the connection, which
loses what was not read. The user disconnects, or loads a game under the run lock (`UserLoads`, `Notify`, `Forward`):
`GameClient::ProcessNotification` then joins the network thread and registers the connection again. The machine is abstracted to the inputs it was given: `<<e, n>>` after
the n-th poll of the host's e-th stretch, `Off` after any other input. `RunAhead` adds
the second frame of `RunFrameWithRunAhead`.

### `Movies`

The machine is again the sequence of its inputs since power on; the input of one poll, the reset and power buttons
included, is one value, as it is one row of a movie. `provider` and `recorded` are the registrations in the
console's lists, `player` and `recorder` the two pointers of `MovieManager`, which are set after `Play` and `Record`
have let go of the run lock, and `ref` the references that keep a movie alive in between. `movie.controls` is
`_controlManager`: null, the console's, or one that is gone. `Stop` has no lock of its own; it is five steps on any of three threads (the
interface, the shortcuts, and the emulation thread when a movie ends in a poll). `movie.backup` is the stream
`_emuSettingsBackup`, into which `ApplySettings` writes twice and from which each stop reads once.

`strays` collects what went wrong: four named cases, each a defect of the code (a second stop, a stop before the
player is set, a failed power cycle or state, a stopped movie that is
asked for input). The properties are stated of all behaviours without them, and configurations
show that exceptions are needed (section 4). Rewinding is not in this module: it breaks several of its properties, as section 6 says one by one.

## 3. What is checked

| Run | Instance | Shows |
|---|---|---|
| `simple_lock` | 3 threads, 3 levels | `ReleaseNeverAsserts`; `AnswersTruly`; `ImplementsReentrantLock` |
| `emulator_loop` | a frontend and one more user, all calls, from the constructor's state | `UsersExcludeFrames`, `ReleasesHeldLock`, `FrameHasConsole`, `FramesOverrun` |
| `emulator_live` | the same, with a game running, without load and stop | `LockGranted`, `PauseTakesEffect`, `ResumeTakesEffect` |
| `notifications` | 2 threads, 2 listeners, broadcasts nested twice | `RegistrationKept`, `LoneSendDelivers`, `LoneCallbackAlive`, `TypeOK` (a listener is registered once) |
| `rewind` | blocks of 1 frame, or 2 at the high speed, every second state full, 7 live inputs, all calls | `Decodable`, `FramePerfect`, `MemoryCovered`, `RewindsOneFrame`, `StopsAtShown`, `TypeOK` |
| `debugger_break` | 2 users, frames of 2 instructions, 3 calls | `RequestsCounted`, `OneInstructionOverrun`, `LockGranted`, `ToolsLetIn` |
| `debugger_requests` | 2 users and power cycles, 3 calls, nothing started while a game loads | `RequestsKeepDebugger`, `DebuggerChangedParked`, `CountsReturn`, `CallsEnd`, `TypeOK` |
| `video_decoder` | all calls | `WholeFrames`, `RewindGapless`, `CallsEnd` |
| `netplay` | 1 game, 2 ports, 3 polls, 1 change by the host | `InSync`, `HoldReleased`, `MessageHandled` |
| `movies` | 2 inputs and 2 buttons, movies of 2 rows, 3 polls, 4 calls, with failures | `RecordsAll`, `PlaysBack`, `SettingsRestored`, `MovieEnds`, `TypeOK` |

The type invariants of `DebuggerBreak`, `VideoDecoder` and `GameClientConnection` and the inductive invariants `LockInv` and `EmuInv`
(which contain the types) are proved and not listed again in these runs.

**Bounds.** `MaxDepth` bounds the nesting of `SimpleLock`: one level beyond re-entering
twice shows nothing new, and three threads let two contend while one holds. In
`EmulatorLoop` no counter needs a bound (the lock counter is at most the users
plus one); two users are the smallest number with a user waiting for another and a
frontend that stops meanwhile; the proofs cover any number. `MaxNesting` bounds broadcasts
inside callbacks. In `RewindManager`, `BufferSize` and
`FullEvery` are 30 in the code. Two states are the shortest distance with a delta, and two frames the shortest block
with an inside; at normal speed a block has one frame in the run. A rewind that reaches the block of a load is no longer `exact`, so what is said of
replays and of the screen takes three blocks after it, and short ones leave room for them. (All six properties also hold of
blocks of 2 frames, or 4, with 6 live inputs, `BufferSize = 2`: there a rewind runs through more than one block before the first picture is shown, but few of them.)
`MaxInputs` bounds
the live inputs (so the frames of a recording; the first one is the load's). `MaxBytes` lets a history
of two blocks be trimmed, `MaxTotal` bounds how far the memory total
may grow by user calls; above it the user calls nothing. `Seconds` counts blocks. `FastFactor` is 2; the interface allows speeds of
5000 % (`EmulationConfig.cs:13`), so 50 in the code; up to 10 the proofs cover, and beyond 10 the code goes wrong (section 4).

`MaxCalls` bounds the calls of `DebuggerBreak` and `DebuggerRequests`: three calls let one thread work, another get in its way and
a third come while both are half done (every hazard listed for them shows with two or three).
`MCCalls` gives one thread the calls of a user interface and the other one those of a save state, an emulator lock or a reset;
In `DebuggerRequests` the game that runs at first has a debugger or none; a load, an emulator lock and a stop are enough to take the suspend count below zero.
`Overlap = FALSE` keeps the debugger from being started or stopped while a game is loaded, because TLC finds
real deadlocks otherwise (section 4). In `VideoDecoder` three calls allow a rewind to begin, something to
happen, and the rewind to end; five frames are more than the two buffers twice. In `GameClientConnection` `FirstQueue` and `QueueLimit` are
3 and 10 in the code; with 1 and 2 both the growth and its limit happen. Three polls fill a queue beyond
what is asked for, so that the client speeds up, and one change by the host comes before, between or after
them (two games instead of one take two minutes and show the same). The user disconnects or loads a game once.

In `Movies` four calls let a movie be recorded, stopped, played and stopped again, or something get in its way; the buttons
are not counted, as the polls bound them (`MaxPolls`, `MaxRows`: a row before and a row after a reset or power cycle). `BootKeys` is a single input: see section 4.

**Fairness.** Where a run has a liveness property: weak fairness of the
emulation thread's next step and of the next step of a user that is inside a call (of the decode thread and the
network thread, too). The
operating system schedules runnable threads, and no step needs another thread
to be inactive for good. `SimpleLock` is not fair, so no more is claimed of the lock than that
*somebody* gets it, and nothing is assumed of whether a user calls again.
The two pause properties speak of what happens when the users have gone quiet. In `GameClientConnection` the network
thread's `Unregister` and `Register` are strongly fair: they spin for `_deviceLock`, which the emulation thread
holds for a small part of each frame; nothing is assumed of the host. In `Movies` each thread has weak
fairness for the call it is in; `MovieEnds` needs no user. In `DebuggerBreak`, `ToolsLetIn` leaves out two threads whose emulator locks
retry at the same time, which may keep the emulation in the middle of an instruction for each other.

**Deadlock.** Checked in the runs on the lock, on notifications and on liveness.
It is off where the system may stop: when `EmulatorLoop` reaches
the lost stop of section 4, and when `RewindManager` has used up its
live inputs or reads the front of an empty deque (the model ends there), and in the runs with bounded calls: when
the calls are used up and the emulation is paused, stopped, unloaded or out of frames, nothing is left to do. What must not
hang there is stated by `CallsEnd`, `LockGranted`, `ToolsLetIn` and `MessageHandled`.

**Mutants.** Every property of a passing run has a mutated definition in its module
(each preceded by a comment that starts with "Mutant") that breaks it.

## 4. Where code and documentation differ

Each of these runs ends in a counterexample; `findings` in `PROJECT.json` quote the lines.

* `emulator_stop`: `Run` clears `_stopFlag` after it was started, and so can
  erase a stop; the caller's `join` then never returns.
* `debugger_nested`: a thread with an emulator lock that takes another one (as
  `SendGameInformation` does for `SaveStateMessage`) waits for ever when a load blocks
  debugger requests in between: `BlockDebuggerRequests` waits for the first one, and the second one is refused.

Further disagreements have a configuration and a property, but are not among the listed runs; to see the
counterexample call `tlc -config X.cfg M`:

| Configuration, module | Property | What the code does |
|---|---|---|
| `MCEmulatorPaused.cfg`, `MCEmulatorLoop` | `ThreadPausedTruly` (`Emulator.h:288`) | a power cycle that fails leaves `_threadPaused` true for a thread that runs |
| `MCEmulatorConsole.cfg`, `MCEmulatorLoop` | `ConsoleStaysInside` (`Emulator.h:276`) | `Stop` destroys the console outside the run lock |
| `MCNotificationRace.cfg`, `MCNotificationManager` | `SendDelivers` (`NotificationManager.h:67`) | the snapshot of listeners is shared between broadcasts |
| `MCRewindTrim.cfg`, `MCRewindManager` | `BasesKept` (`RewindManager.cpp:121`) | trimming can take away the full state of the block being recorded; the memory total counts each block twice and only grows, so in a long session the history is emptied at every block |
| `MCRewindBoot.cfg`, `MCRewindManager` | `ReplayLeadsHere` (`RewindData.h:10`) | the poll of a load (`Emulator.cpp:590`) is recorded as the first input of the first block: replayed, each frame of the block gets the input of the one before |
| `MCRewindReplay.cfg`, `MCRewindManager` | `LaterReplayLeadsHere` (`RewindData.h:10`) | the same without the block of a load, trimmed away: at the start of the history the fast-forward is computed from frames counted twice |
| `MCRewindSpeed.cfg`, `MCRewindManager` | `FramePerfect` (`RewindData.h:10`) | a block recorded above 1000 % has more than `10 * BufferSize` frames; `Stop` replays it at maximum speed (`RewindManager.cpp:293`), where blocks of that length are ended (`:335`), so its replay is cut in the middle (`:340`) |
| `MCRewindStop.cfg`, `MCRewindManager` | `OnlyStartedStops` (`RewindManager.cpp:279`) | `Stop` tests the rewind state before it has the lock |
| `MCDebuggerAsked.cfg`, `MCDebuggerBreak` | `CodeBreakAsked` (`Debugger.cpp:735`) | a break request that goes away between `ProcessBreakConditions` and line 723 becomes a break of the user's |
| `MCDebuggerSuspend.cfg`, `MCDebuggerBreak` | `SuspensionEnds` (`Debugger.h:92`) | `SystemActionManager::Reset` may suspend after the reset it asked for has reset the counter; nothing takes this suspension back |
| `MCDebuggerWrap.cfg`, `MCDebuggerRequests` | `NotWrapped` (`Debugger.cpp:1038`) | `SuspendDebugger(true)` tests the count and then lowers it; `BlockDebuggerRequests` resets it in between (`Emulator.cpp:1094`), and it wraps below zero, until it is reset again or the debugger replaced |
| `MCDebuggerSerialized.cfg`, `MCDebuggerRequests` | `LocksSerialized` (`EmulatorLock.h:33`) | with a debugger two emulator locks are held at once |
| `MCVideoLoad.cfg`, `MCVideoDecoder` | `LoadedFrameShown` (`SaveStateManager.cpp:414`) | at high speed the frame of a loaded state is dropped when the decoder is busy |
| `MCNetplayRunAhead.cfg`, `MCGameClientConnection` | `InSync` (`GameServer.h:28`) | with run-ahead each iteration polls twice; the host records and sends only the frame that is shown, the client plays an input in both, and their machines part |
| `MCNetplayLoad.cfg`, `MCGameClientConnection` | `ForgottenByLoad` (`GameClient.cpp:72`: "Disconnect if the client tried to manually load a game") | a recent game or a reload ends the connection; then lines 77-78 forward the notification to it, and it is a provider of the new console's input |
| `MCNetplayJoin.cfg`, `MCGameClientConnection` | `LoadReturns` (`GameClient.cpp:73`) | the load joins the network thread under the run lock, which that thread may be waiting for: both hang, though the load is not on the emulation thread |
| `MCMoviesPower.cfg`, `MCMovies` | `PlaysThroughPowerCycle` (`Emulator.cpp:569,575`) | a power cycle "preserves" the poll counter of the new console, which is 0; the movie reads its row through the control manager of the console that is gone |
| `MCMoviesTwice.cfg`, `MCMovies` | `RestoredOnce` (`MovieManager.h:61`) | two threads that stop a movie both restore its settings; the second reads the second backup, which holds the movie's |

With `Overlap = TRUE`, `CallsEnd` of `DebuggerRequests` is violated, by deadlocks between the debugger lock and
the run lock or the emulation thread: a power cycle on the emulation thread against `InitDebugger` of a tool (it waits for the
emulation thread to park, which waits for the debugger lock); `LoadRom` between its lines 463 and 466
against `StopDebugger` or `InitDebugger`; a listener of `GameLoaded` that uses the debugger against a
tool that starts it. The comment at `Emulator.cpp:594` knows of the last one.

At high speed the emulation draws into the buffer that is being decoded once a frame was dropped (`skipped` in `WholeFrames`): a torn picture.

Of movies, also: keys held while a game is loaded are polled once (`Emulator.cpp:590`) before anybody records or plays, so that a movie
recorded or played with a key held starts from another state (`BootKeys` with two inputs violates `PlaysBack`, and `RecordsAll` after a power cycle); a `Play` whose state
does not load returns with the movie's settings in force (`PlayFails`); a `Stop` between `Play` and `_player.reset` misses the movie (`early`).

Two comments of `SimpleLock.h` differ from the code without a run: a timeout of 0 is
"try once and return" (line 97) but waits for ever, and `WaitForRelease` "Does NOT acquire
lock" (line 117) but does.

## 5. What is proved

All theorems hold for every value of the constants that satisfies the module's assumptions.

* `LockingProof`, about `SimpleLock`. Assumptions: the null thread is no thread, `MaxDepth` is positive. The
  invariant `LockInv` says which thread may own the flag at each step
  (`FlagOwned`), that the holder and the count are those of the owner
  (`HolderRecorded`, `CountRecorded`), and what a thread has found out
  (`StepKnows`). Mutual exclusion alone is not inductive: the thread between
  `test_and_set` and the write of the holder owns the lock without being recorded. From it:
  `ReleaseSafe`, `AnswersSafe`, and `Implements`, where only the three steps that
  change `taken` are steps of the abstract lock.
* `LockingProof`, about `NotificationManager`. Assumptions: finitely many listeners, `NoListener` is none of
  them, `MaxNesting` is positive, the null thread is no thread; any number of threads. The invariant `SendInv` says that a
  thread inside a nested broadcast is in a callback of the outer one and that an index a broadcast is about to read is
  that of an element once written (`FramesInOrder`, `SnapshotWritten`), what whoever fills the shared vector has done so far (`Filling`:
  it has the lock, and has kept every listener it has passed that is alive), and that the vector belongs to a lone
  broadcast until it ends (`Lone`: no other thread is in one, the elements are what it kept, and it has called the first of them, up
  to its index). `LoneSendDelivers` speaks only of the end, when the vector is about to be cleared, and `LoneCallbackAlive` only of the
  element being called; neither says what the next element is. Why all of this is about a lone
  broadcast: `MCNotificationRace.cfg`. That a listener is registered once (part of `TypeOK`) needs what pruning
  returns: `Unexpired` keeps the listeners that are alive, each once, and nothing else, which is proved by induction on a set of numbers. From it:
  `SendInvariant`, `RegisteredOnce`, `DeliverySafe`, `CallbackSafe`, and the action property `RegistrationSafe`.
* `EmulatorLoopProof`. Assumptions: finitely many users, `Frontend` is one of them, `Emu` is none.
  The invariant `EmuInv` gives the emulation thread's depth of the run lock at each
  step (`EmuDepth`: it is open only where a stop may have let it go on without), that of
  the users, the life cycle of thread and console, the count of callers
  (`LockCounted`, by facts on cardinalities), and what holds of a user that was
  overrun once (`OverrunOnce`). From it: `ExclusionSafe`,
  `ReleaseSafe`, `ConsoleSafe`, `OverrunSafe`, `CounterSafe`.

* `DebuggerBreakProof`. Assumptions: finitely many users, which are neither the emulation thread nor
  "free", any calls of theirs, at least one instruction in a frame. The invariant `BreakInv` says which steps belong
  to which call (`CallSteps`), who has the run lock (`LockOwned`), that the three counters are the sizes of
  the sets of callers they stand for (`Balanced`), and where the emulation thread cannot be once an
  instruction has begun (`Overrun`). `RequestsCounted` alone is not inductive: a second user could
  take back the suspension that the first one relies on; `Balanced` bounds the counter from below by the
  suspensions that no reset has erased, and the run lock keeps a reset, which erases them all, from
  coming between the test and the decrement of `SuspendDebugger` (loads, which reset the count without it, are in `DebuggerRequests`). A step of a user changes each of the sets by
  itself at most (`DifferInOne`), so a step is right when its change of a counter is that of
  the set (`Accounted`). From it: `TypeCorrect` (no counter falls below zero), `RequestsBalanced`, `StoppedForTools`.
* `DebuggerRequestsProof`. Assumptions: the emulation thread is no user, nobody is called "free", the calls are those of the module; any number of threads, with
  or without `Overlap`. What a thread still has to do is a sequence put together at run time, with whole calls put in front of it, so the
  invariant `RequestsInv` reads it from the end: `Expect`, a recursive function of the steps, says how many entries of `held`, levels of the debugger lock and
  blocks they give back, whether requests must be drained, whether the last entry has asked for its break, and which entries are the
  run lock's. `Fit` says that every thread is in such a state, `Counts` that each count is the size of the set of what all threads together
  hold or expect, `RunLocked` whose the run lock is, `Lowered` when the suspend count is not below zero, `Drained` that no request is counted between `Drain` and the
  assignment of `_debugger`. A call put in front expects what the steps after it did (the lemmas `...Expects`, one for each function), and a step changes each
  counted set in one element (`OnePoint`). `CountsReturn` is about the end of all calls, where nothing says what an unfinished call
  will give back, and `RequestsKeepDebugger` needs to know that whoever replaces the debugger has drained the requests and still blocks new ones. That the suspend count comes back although it may fall below zero is
the work of `suspends` in `Expect`: a thread that has reset the count will suspend the debugger and replace it (`"will"`, `"yes"`). While one is under way,
nothing is said of the count from below; while none is, a thread that has found the count above zero and is about to lower it still finds it so, as it
has the run lock and nobody else lowers it (`Lowered`).
  From it: `TypeCorrect`, `RequestsSafe`, `CountsSafe`, `ParkedSafe`.
* `VideoDecoderProof`. Assumptions: any calls, any bounds. The invariant `PlaceInv` says whose turn
  the three threads leave to each other (`Turns`), who may be decoding which frame (`Decoding`), and that a frame in
  the place is in the buffer the emulation does not draw into (`Waiting`). `WholeFrames` alone is not inductive:
  it speaks of a frame that is being decoded, and a frame that waits to be would be spoiled unseen. From it: `TypeCorrect`, `DecodesWholeFrames`, `NoGapInRewind`.
* `GameClientConnectionProof`. Assumptions: at least one port, a first queue of at least one poll and no longer than the limit.
  The invariant `ConnInv` relates the steps of the two threads to the connection's flags, says that a load by the user is
  over only when the connection has been shut down (`Reloading`), and gives `ShutdownReleases`. `SyncInv` follows the inputs on their way from the host to the machine:
  consecutive messages in the socket continue each other (`InOrder`), the last one
  is what the host did last (`LastSent`), and what the connection loads, queues and has taken out of a queue is where the
  machine will need it (`Loading`, `Queued`, `OnItsWay`). `InSync` compares only the machine with what it was last given, so
  without the stream in between nothing says that the next input is the right one. `StaysInSync` assumes that run-ahead is off: with it
  the property is false (`MCNetplayRunAhead.cfg`).

* `RewindManagerProof`. Assumptions: sizes and bounds are positive, the calls are those of the module. The inductive invariant has four layers,
  and each needs the ones before it. `Safe` has the types, which steps and states of the manager go together (`StateInv`), and that
  the memory total is at least the sum of the blocks' sizes (`MemoryInv`). `DecodeInv` follows each
  full state and the differences that were made with it through the deque, from which trimming takes the front, rewinding the back and stopping both; `Decodable` alone
  does not say what the next block to be stored will be compared with. `FrameInv` says that the blocks join: each has as many inputs as frames and one more for the poll of a load (`LoadPolls`), begins where the inputs of the one before
  lead, from the front of the history through the block on the way back to the one being recorded, and that a
  replay under way is within its block. It speaks of behaviours in which nothing wrong was loaded (`exact`), so that no block on the way back was begun by a load (`Later`). `ScreenInv` is about pictures.
  The blocks in the backup are a way to the end of the last one: each is a part of it, as many frames behind the first as there are
  in between (`Way`). While the manager rewinds, the collected pictures, those of the block under way and the one on the screen are consecutive pictures of that way, and
  how many there are fits how far the replay is (`RewoundInv`); between frames, when it is stopped, the screen shows where the recording leads
  (`StoppedInv`). `RewindsOneFrame` compares two pictures and knows nothing of those still to come; `StopsAtShown` compares
  a number of frames, counted over blocks, with what is on the screen.
  From these: `SafeInvariant`, `TypeCorrect`, `MemorySafe`, `DecodesSafe`,
  `FramesPerfect`, and the action properties `RewindsSafe` and `StopsSafe`. The last three assume `FastFactor <= 10`;
  `MCRewindSpeed.cfg` shows that `FramesPerfect` must. Sums are recursive functions:
  what they return is proved by induction on a set of numbers, which the well-foundedness of the natural numbers gives
  (`NatMin`, `NatInd`), so no theorem with an operator as parameter is needed.

* `MoviesProof`. Assumption: no input of the user is a button, and games can be loaded with something held. The
  invariant `MovieInv` says at each step of `Record`, `Play` and `Stop` who refers to the movie and who has the run lock (`Control`), that
  what is registered or pointed to exists (`Existence`), and whose settings are in
  force and who will bring them back (`Restoring`). `SettingsRestored` speaks only of the moment when the movie is gone; inductive
  is that a movie is played exactly while its settings are in force, that whoever is past the restoring step has ended it, and that no
  thread between the test of `_player` and its reset can miss a player (the run lock keeps `Play` out, `Unannounced` is the case that remains).
  From it: `TypeCorrect`, `SettingsSafe`.
  The second layer, `Recorded`, is about inputs. `FileInv`: a file recorded from power on starts with what is held then, and the poll that a reset adds is no button.
  `RecordInv`: at every step, where the recording leads (`Continues`: to the machine, or to a power cycle about to happen), who still
  points to it, and that the shortcuts' stop, once they loaded a state, ends it. `PlayInv`: while nothing is about to end the movie, the machine is the
  movie's start and its rows up to the counter (`Follows`), with no power cycle among them. `RecordsAll` and `PlaysBack` are about the time between two frames only; these parts say what
  holds inside a poll, a stop or a load. From it: `RecordsSafe` and `PlaysSafe`. They assume that the same is held at every power on
  (`SameBoot`), without which both are false (section 4), and use that `Replay`, a recursive function, obeys its equations (`ReplayDef`).

Each invariant was first checked by TLC on the instance of the component's run.

Only model-checked: liveness (fairness and `ENABLED` are out of the prover's reach), and the two findings of section 4
with the configurations listed there. Every invariant and every action property of the passing runs is also proved.

## 6. What is not modelled, and why

* In `EmulatorLoop`: the debugger's half of each function (see `DebuggerBreak` and `DebuggerRequests`), run-ahead (a frame
  is then several frames of the console, with a state saved and restored), the exception path of `LoadRom`, auto
  save states (taken by the emulation thread inside its own lock), the end of a pause because rewinding starts.
* In `DebuggerBreak`: breakpoints (they stop like the scanline stepped to), exceptions, steps by cycles or calls,
  stepping back, more than one CPU, scripts. In `DebuggerRequests`: the load that throws on the emulation thread (it would
  join itself), CDL recording, step `Debugger::Step` after a load of a paused game.
* In `VideoDecoder`: the renderer's thread, filters, run-ahead frames (they return at once), what the
  debugger draws in a pause.
* In `GameClientConnection`: the host's list of connections and its table of ports. By reading: the list is
  walked over by the emulation and UI threads while the server's thread appends to it (`GameServer.cpp:31`, against `GameServer.h:45`);
  `SelectControllerPort` compares with the table of clients only, so a client can take the host's port;
  `RegisterNetPlayDevice` is called with the spectators' port (`GameServerConnection.cpp:101`); the server does not wait for
  the clients' inputs (against `GameServer.h:26`) but uses the last it knows. Also left out: input polls of a reset or a power
  cycle on the client, a `GameLoaded` that its emulation thread sends, devices that share a port, a state that does not load.
* In `Movies`: cheats and battery files (restored next to the settings), file formats, the user who overwrites the file
  that is played, `CreateMovie` of the history viewer, the pause at the end of a movie, run-ahead (by reading: only the shown frame is recorded and both are
  played, as for netplay), a load that fails after it stopped the movie, other providers in front of the movie.
* Rewinding is not in `Movies`, and what is claimed there is claimed of uses of the program without it. By reading, a rewind breaks the three main properties:
  * `RecordsAll`: while a rewind is under way a recording from the current state may begin (`MovieRecorder.cpp:57-61`; the interface does not ask). It records the inputs
    of the replay while `PopHistory` loads earlier and earlier states, which are not in the movie.
  * `PlaysBack`: a block's state brings back the poll counter of its time. The state a movie starts from is loaded, and begins a block (`RewindManager.cpp:95-100`), before
    the counter is set to 0 (`NexenMovie.cpp:194`), so a rewind to there continues the movie at another row. The first block of a movie that starts from power on has the
    input of the load's poll in front (`Emulator.cpp:578`, `:590`), so a rewind that ends inside it has replayed the rows one frame late.
  * `SettingsRestored`: a block's state has the settings of its time (`RewindData.cpp:60`, `:65`; `Emulator.cpp:988`, `:1007`). A rewind to when a movie was played, after it
    has ended, brings its settings back, with nobody to restore the user's (`EmuSettings.cpp:44-47` says that they should only be loaded for movies and netplay).
* In `RewindManager`: the `Debugging` state, the audio ring, the history viewer's
  flag, a `RewindBufferSize` of 0, the `Rewind` flag (only a speed). It is assumed that
  each picture arrives and that each frame has one poll of the input, before it. Resets are not modelled here. By reading, they break what is said of the
  recording: the poll of a reset (`Emulator.cpp:401`) is recorded, too, so that the block has one input more than frames (as the block of a load, which is modelled), while
  the reset itself is no input of the log; and `ProcessEndOfFrame` comes before `ProcessSystemActions` (`Emulator.cpp:193`, `:195`), so that a reset after the last
  frame of a block leaves its poll at the front of the next one.
* `HistoryViewer`: it counts polls up to 30 and moves on at `FrameCount` (`HistoryViewer.cpp:176`), which differ for blocks
  recorded at a higher speed.
* The console cores (CPUs, video and sound chips, mappers), the frontend, filters, audio, file formats, movie
  formats and settings: more than nine tenths of the repository's lines. A core is a deterministic function of
  state and input with millions of states; its correctness is agreement with hardware, for which there is
  no reference short of the hardware's documents, and model checking would restate it instruction by instruction. Here
  a frame or an instruction is one step of an unspecified deterministic machine. So the share of lines
  that the modules cover is small; it is high only in the files named in section 1.

## 7. What could come next

1. `RewindManager`: resets, the `Debugging` state with `StepBackManager`, and `HistoryViewer` as a reader of the
   blocks; its composition with `VideoDecoder` for the frames dropped when a rewind starts.
2. The server's side of netplay: list of connections, port table, several clients.
3. `Movies` with rewinding: the counter and the settings in the state of a block, rewinds that end inside one, recordings begun during one. Then netplay as
   one more provider of the same poll.
4. `SaveStateManager`'s slots and the greenzone of the TAS editor.

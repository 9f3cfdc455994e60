------------------------------- MODULE Movies -------------------------------
(***************************************************************************)
(* Core/Shared/Movies: MovieManager with its recorder and its player       *)
(* (NexenMovie), as an input recorder and an input provider of the         *)
(* console's control manager (BaseControlManager), together with what      *)
(* loads, power cycles and resets do to them (Emulator::InternalLoadRom,   *)
(* Reset) and with the loading of states behind their back.                *)
(*                                                                         *)
(* The machine is deterministic, so it is the sequence of inputs it was    *)
(* given since power on, the first one held while the game was loaded.  An *)
(* input is all devices of one poll, the reset and power buttons included. *)
(* Record, Play and loads work between two frames, with the run lock       *)
(* (module EmulatorLoop); MovieManager::Stop does without it.              *)
(*                                                                         *)
(* Left out: cheats, battery files, file formats, run-ahead, the pause at  *)
(* the end of a movie, and rewinding: what is said here is said of uses of *)
(* the program without a rewind, which breaks some of it (README.md,       *)
(* section 6).                                                             *)
(***************************************************************************)
EXTENDS Integers, Sequences

CONSTANTS
  Keys,     (* What the user may hold down at a poll.                       *)
  BootKeys, (* What the user may hold down while a game is loaded.          *)
  Ops,      (* What the user calls, the two buttons included.               *)
  Failures, (* Whether a power cycle or the loading of a state may fail.    *)
  MaxPolls, (* Bounds the polls of live input since a game was loaded.      *)
  MaxRows,  (* Bounds the rows of a movie.                                  *)
  MaxOps    (* Bounds the calls.                                            *)

Buttons == {"reset", "power"}
AllOps == Buttons \cup {"record", "recordState", "play", "stop", "loadRom",
           "loadState"}

ASSUME ConstantsAssumption ==
  /\ BootKeys \subseteq Keys /\ BootKeys # {}
  /\ Ops \subseteq AllOps /\ Keys \cap Buttons = {} /\ Failures \in BOOLEAN
  /\ {MaxPolls, MaxRows} \subseteq Nat /\ MaxOps \in Nat

VARIABLES
  machine, counter, (* the console, and _pollCounter of its control manager *)
  movie,            (* the NexenMovie, or NoMovie                           *)
  provider,         (* it is in _inputProviders of the console              *)
  player,           (* _player of the MovieManager points to it             *)
  recording,        (* the MovieRecorder's file so far, or NoFile           *)
  recorded,         (* it is in _inputRecorders of the console              *)
  recorder,         (* _recorder of the MovieManager points to it           *)
  file,             (* a file that was written, for Play                    *)
  settings,         (* the EmuSettings: the user's or a movie's             *)
  pc,               (* where each thread is                                 *)
  op,               (* the call the interface is in                         *)
  ref,              (* the threads that hold a reference to the movie       *)
  owner,            (* who holds the run lock between two frames            *)
  ops,              (* the calls so far                                     *)
  strays            (* what went wrong so far, see below                    *)

console   == <<machine, counter>>
playing   == <<movie, provider, player, ref>>
recordingVars == <<recording, recorded, recorder, file>>
calls     == <<op, owner, ops>>
vars == <<console, playing, recordingVars, settings, pc, calls, strays>>

(* "emu" is the emulation thread, "ui" the user interface, "keys" the      *)
(* thread of the shortcuts.                                                *)
Threads == {"emu", "ui", "keys"}

(* Each kind of stray names a defect of the code, so that the properties   *)
(* can be stated of everything else:                                       *)
(*   "twice"    two threads restored the settings of one movie             *)
(*   "early"    a movie was stopped, or a state loaded, after the movie    *)
(*              had begun and before the MovieManager knew of it           *)
(*   "failed"   a power cycle or a state that a movie needs did not load   *)
(*   "crashed"  a stopped movie was asked for input                        *)
StrayKinds == {"twice", "early", "failed", "crashed"}

NoFile  == [start |-> <<>>, counter |-> 0, state |-> FALSE, rows |-> <<>>]
NoMovie == [file |-> NoFile, controls |-> "none", last |-> 0, playing |-> FALSE,
            backup |-> <<>>]

InStop == {"test", "restore", "unregister", "clear", "drop"}

(* The emulation thread holds _deviceLock during a poll; the end of a      *)
(* movie is inside one.                                                    *)
DeviceLockFree(t) == t = "emu" \/ pc["emu"] \notin InStop \cup {"ended"}

(* Between two frames, for a thread that has or gets the run lock.         *)
RunLockFree  == pc["emu"] = "frame" /\ owner = "none"
HasRunLock(t) == t = "emu" \/ owner = t \/ RunLockFree

(* A movie has begun, and the MovieManager does not know of it yet.        *)
Unannounced == pc["ui"] \in {"setPlayer", "setRecorder"}

Goto(t, step) == pc' = [pc EXCEPT ![t] = step]

Init ==
  \E boot \in BootKeys :
    /\ machine = <<boot>> /\ counter = 1
    /\ movie = NoMovie /\ provider = FALSE /\ player = FALSE /\ ref = {}
    /\ recording = NoFile /\ recorded = FALSE /\ recorder = FALSE /\ file = NoFile
    /\ settings = "user"
    /\ pc = [t \in Threads |-> IF t = "emu" THEN "frame" ELSE "idle"]
    /\ op = "none" /\ owner = "none" /\ ops = 0
    /\ strays = {}

(* (A behaviour that went astray gets no more calls: a bound.)             *)
Called(c) == c \in Ops /\ ops < MaxOps /\ strays = {} /\ ops' = ops + 1

-----------------------------------------------------------------------------
(***************************************************************************)
(* The emulation thread: UpdateInputState in a frame or in a reset.        *)
(***************************************************************************)
(* The row NexenMovie::SetInput finds.  After a power cycle its            *)
(* _controlManager is an object that was freed, and any number is read.    *)
Rows == movie.file.rows
RowIndex == IF movie.controls = "current" THEN {counter} ELSE 0 .. MaxPolls

(* A poll that gives this input, from the movie or from the user.          *)
Poll(input) ==
  /\ \/ /\ provider /\ movie.controls # "none"
        /\ \E row \in RowIndex :
             /\ row < Len(Rows) /\ input = Rows[row + 1]
             /\ movie' = [movie EXCEPT !.last = row]
     \/ ~provider /\ UNCHANGED movie
  /\ machine' = Append(machine, input) /\ counter' = counter + 1
  /\ recording' = IF recorded THEN [recording EXCEPT !.rows = Append(@, input)]
                              ELSE recording

(* (A bound, which lets a movie go on to its end.)                         *)
MayPoll ==
  /\ strays = {}
  /\ \/ Len(machine) < MaxPolls /\ Len(recording.rows) < MaxRows
     \/ provider /\ movie.controls = "current"

(* A frame, to the test of the buttons in ProcessSystemActions.            *)
Frame ==
  /\ pc["emu"] = "frame" /\ owner = "none" /\ MayPoll
  /\ \E input \in Keys \cup Buttons :
       /\ Poll(input)
       /\ input \in Keys \cup Ops \/ provider
       /\ Goto("emu", IF input \in Buttons THEN input ELSE "frame")
  /\ UNCHANGED <<provider, player, ref, recorded, recorder, file, settings,
                 calls, strays>>

(* Emulator::Reset clears the requests and polls once more.                *)
ResetPoll ==
  /\ pc["emu"] = "reset"
  /\ \E input \in Keys \cup Buttons :
       Poll(input) /\ (input \in Keys \/ provider)
  /\ Goto("emu", "frame")
  /\ UNCHANGED <<provider, player, ref, recorded, recorder, file, settings,
                 calls, strays>>

(* Mutant: a movie whose rows are used up is not stopped.                  *)
MovieEndIgnored ==
  /\ pc["emu"] \in {"frame", "reset"} /\ owner = "none" /\ MayPoll
  /\ provider /\ movie.controls # "none"
  /\ \E row \in RowIndex :
       row >= Len(Rows) /\ movie' = [movie EXCEPT !.last = row]
  /\ Goto("emu", "frame")
  /\ UNCHANGED <<console, provider, player, ref, recordingVars, settings, calls, strays>>

(* No row is left: SetInput calls MovieManager::Stop ...                   *)
MovieEnd ==
  /\ pc["emu"] \in {"frame", "reset"} /\ owner = "none" /\ MayPoll
  /\ provider /\ movie.controls # "none"
  /\ \E row \in RowIndex :
       row >= Len(Rows) /\ movie' = [movie EXCEPT !.last = row]
  /\ Goto("emu", "test")
  /\ UNCHANGED <<console, provider, player, ref, recordingVars, settings, calls, strays>>

(* ... and the poll goes on with the user's input.  (The buttons are       *)
(* refused while a movie plays.)                                           *)
MovieEnded ==
  /\ pc["emu"] = "ended"
  /\ \E input \in Keys :
       /\ machine' = Append(machine, input) /\ counter' = counter + 1
       /\ recording' = IF recorded THEN [recording EXCEPT !.rows = Append(@, input)]
                                   ELSE recording
  /\ Goto("emu", "frame")
  /\ UNCHANGED <<playing, recorded, recorder, file, settings, calls, strays>>

(* _controlManager is a null pointer.                                      *)
Crash ==
  /\ pc["emu"] \in {"frame", "reset"} /\ owner = "none"
  /\ provider /\ movie.controls = "none"
  /\ Goto("emu", "crashed") /\ strays' = strays \cup {"crashed"}
  /\ UNCHANGED <<console, playing, recordingVars, settings, calls>>

(***************************************************************************)
(* A game is loaded, by whichever thread: a new console, which nobody      *)
(* provides for nor records, is polled once; then GameLoaded is sent.      *)
(***************************************************************************)
NewConsole ==
  \E boot \in BootKeys :
    machine' = <<boot>> /\ counter' = 1

Orphaned(m) == IF m.controls = "current" THEN [m EXCEPT !.controls = "gone"] ELSE m

(* A power cycle by the button, with its two steps.  It does not stop      *)
(* movies, and may fail.                                                   *)
PowerCycle ==
  /\ pc["emu"] = "power"
  /\ \/ /\ NewConsole /\ Goto("emu", "loaded")
        /\ provider' = FALSE /\ recorded' = FALSE /\ movie' = Orphaned(movie)
        /\ UNCHANGED strays
     \/ /\ Failures /\ Goto("emu", "frame") /\ strays' = strays \cup {"failed"}
        /\ UNCHANGED <<console, movie, provider, recorded>>
  /\ UNCHANGED <<player, ref, recording, recorder, file, settings, calls>>

(* Mutant: the recorder does not follow to the new console.                *)
GameLoadedForgets ==
  /\ pc["emu"] = "loaded" /\ Goto("emu", "frame")
  /\ UNCHANGED <<console, playing, recordingVars, settings, calls, strays>>

GameLoaded ==
  /\ pc["emu"] = "loaded" /\ Goto("emu", "frame")
  /\ provider' = (movie # NoMovie)
  /\ counter'  = IF movie # NoMovie THEN movie.last ELSE counter
  /\ recorded' = (recording # NoFile)
  /\ UNCHANGED <<machine, movie, player, ref, recording, recorder, file,
                 settings, calls, strays>>

-----------------------------------------------------------------------------
(***************************************************************************)
(* MovieManager::Stop, on any thread.                                      *)
(***************************************************************************)
StopTest(t) ==
  /\ pc[t] = "test"
  /\ ref' = IF player THEN ref \cup {t} ELSE ref
  /\ Goto(t, IF ~player THEN "clear"
             ELSE IF movie.playing THEN "restore" ELSE "unregister")
  /\ strays' = IF Unannounced THEN strays \cup {"early"} ELSE strays
  /\ UNCHANGED <<console, movie, provider, player, recordingVars, settings, calls>>

(* NexenMovie::Stop restores cheats, for which it waits for the run lock,  *)
(* and then reads the next backup and restores the settings from it.       *)
Restored(t) ==
  /\ settings' = IF movie.backup = <<>> THEN settings ELSE Head(movie.backup)
  /\ movie' = [movie EXCEPT !.playing = FALSE,
                            !.backup = IF @ = <<>> THEN @ ELSE Tail(@)]
  /\ strays' = IF movie.playing THEN strays ELSE strays \cup {"twice"}

StopRestore(t) ==
  /\ pc[t] = "restore" /\ HasRunLock(t)
  /\ Restored(t) /\ Goto(t, "unregister")
  /\ UNCHANGED <<console, provider, player, ref, recordingVars, calls>>

StopUnregister(t) ==
  /\ pc[t] = "unregister" /\ DeviceLockFree(t)
  /\ provider' = FALSE /\ movie' = [movie EXCEPT !.controls = "none"]
  /\ Goto(t, "clear")
  /\ UNCHANGED <<console, player, ref, recordingVars, settings, calls, strays>>

(* _player.reset() and _recorder.reset(); the recorder's destructor writes *)
(* the file (Play has read its own by then).  A player that came after the *)
(* test loses its last reference.                                          *)
Reading == op = "play" /\ pc["ui"] # "idle"

StopClear(t) ==
  /\ pc[t] = "clear" /\ DeviceLockFree(t)
  /\ player' = FALSE /\ recorder' = FALSE
  /\ file'      = IF recorder /\ ~Reading THEN recording ELSE file
  /\ recording' = IF recorder THEN NoFile ELSE recording
  /\ recorded'  = (recorded /\ ~recorder)
  /\ IF player /\ ref = {}
     THEN movie' = NoMovie /\ provider' = FALSE /\ strays' = strays \cup {"early"}
     ELSE UNCHANGED <<movie, provider, strays>>
  /\ Goto(t, "drop")
  /\ UNCHANGED <<console, ref, settings, calls>>

(* The reference goes, the last one with ~NexenMovie, and the caller goes  *)
(* on.                                                                     *)
AfterStop(t) ==
  CASE t = "emu"  -> "ended"
    [] t = "keys" -> "idle"
    [] t = "ui"   -> IF op = "stop" THEN "idle" ELSE op

(* Mutant: the destructor does not unregister the movie.                   *)
StopDropKeepsProvider(t) ==
  /\ pc[t] = "drop" /\ DeviceLockFree(t)
  /\ ref' = ref \ {t}
  /\ movie' = IF t \in ref /\ ref' = {} /\ ~player THEN NoMovie ELSE movie
  /\ Goto(t, AfterStop(t))
  /\ owner' = IF t = "keys" THEN "none" ELSE owner
  /\ UNCHANGED <<console, provider, player, recordingVars, settings, op, ops, strays>>

StopDrop(t) ==
  /\ pc[t] = "drop" /\ DeviceLockFree(t)
  /\ ref' = ref \ {t}
  /\ IF t \in ref /\ ref' = {} /\ ~player
     THEN movie' = NoMovie /\ provider' = FALSE
     ELSE UNCHANGED <<movie, provider>>
  /\ Goto(t, AfterStop(t))
  /\ owner' = IF t = "keys" THEN "none" ELSE owner
  /\ UNCHANGED <<console, player, recordingVars, settings, op, ops, strays>>

MovieManagerStop(t) ==
  StopTest(t) \/ StopRestore(t) \/ StopUnregister(t) \/ StopClear(t) \/ StopDrop(t)

-----------------------------------------------------------------------------
(***************************************************************************)
(* The user interface.                                                     *)
(***************************************************************************)
(* Stop, Play and Record begin with MovieManager::Stop; a load has the run *)
(* lock by then.                                                           *)
CallStop ==
  /\ pc["ui"] = "idle" /\ Called("stop") /\ op' = "stop"
  /\ player \/ recorder
  /\ Goto("ui", "test")
  /\ UNCHANGED <<console, playing, recordingVars, settings, owner, strays>>

CallMovie ==
  /\ pc["ui"] = "idle"
  /\ \E c \in {"play", "record", "recordState"} :
       Called(c) /\ op' = c /\ (c = "play" => file # NoFile)
  /\ Goto("ui", "test")
  /\ UNCHANGED <<console, playing, recordingVars, settings, owner, strays>>

CallLoadRom ==
  /\ pc["ui"] = "idle" /\ Called("loadRom") /\ op' = "loadRom"
  /\ RunLockFree /\ owner' = "ui"
  /\ Goto("ui", "test")
  /\ UNCHANGED <<console, playing, recordingVars, settings, strays>>

(* The rest of InternalLoadRom: no movie is left to hear GameLoaded.       *)
LoadRom ==
  /\ pc["ui"] = "loadRom" /\ NewConsole
  /\ provider' = FALSE /\ recorded' = FALSE
  /\ owner' = "none" /\ Goto("ui", "idle")
  /\ UNCHANGED <<movie, player, ref, recording, recorder, file, settings, op, ops, strays>>

(* MovieRecorder::Record, under the run lock.                              *)
NewFile(state) ==
  [start |-> machine', counter |-> counter', state |-> state, rows |-> <<>>]

Record ==
  /\ pc["ui"] = "record" /\ RunLockFree
  /\ \/ /\ NewConsole /\ provider' = FALSE /\ movie' = Orphaned(movie)
        /\ recorded' = TRUE /\ UNCHANGED strays
     \/ /\ Failures /\ strays' = strays \cup {"failed"}
        /\ UNCHANGED <<console, movie, provider, recorded>>
  /\ recording' = NewFile(FALSE)
  /\ Goto("ui", "setRecorder")
  /\ UNCHANGED <<player, ref, recorder, file, settings, calls>>

RecordState ==
  /\ pc["ui"] = "recordState" /\ RunLockFree
  /\ UNCHANGED <<console, movie, provider, strays>>
  /\ recorded' = TRUE /\ recording' = NewFile(TRUE)
  /\ Goto("ui", "setRecorder")
  /\ UNCHANGED <<player, ref, recorder, file, settings, calls>>

SetRecorder ==
  /\ pc["ui"] = "setRecorder" /\ recorder' = TRUE /\ Goto("ui", "idle")
  /\ UNCHANGED <<console, playing, recording, recorded, file, settings, calls, strays>>

(* Mutant: the settings are saved only after the power cycle.              *)
BackupLate == <<"movie">>

(* The first backup is the user's; the second ApplySettings saves the      *)
(* movie's own.                                                            *)
Backup == <<settings, "movie">>

(* Mutant: the poll counter is not set back after the state was loaded.    *)
FirstRowOfState == IF file.state THEN file.counter ELSE 0

(* Where playing begins.                                                   *)
FirstRow == 0

(* NexenMovie::Play, under the run lock: the settings are saved and        *)
(* replaced twice, around a power cycle; the state, if there is one, is    *)
(* loaded, with its poll counter, before that is set to 0.                 *)
Play ==
  /\ pc["ui"] = "play" /\ RunLockFree
  /\ settings' = "movie"
  /\ movie' = [file |-> file, controls |-> "current", last |-> 0, playing |-> TRUE,
               backup |-> Backup]
  /\ \/ /\ provider' = TRUE /\ recorded' = FALSE /\ UNCHANGED strays
     \/ /\ Failures /\ strays' = strays \cup {"failed"}
        /\ UNCHANGED <<provider, recorded>>
  /\ \E boot \in BootKeys :
       machine' = IF file.state THEN file.start
                  ELSE IF strays' = strays THEN <<boot>> ELSE machine
  /\ counter' = FirstRow
  /\ ref' = ref \cup {"ui"} /\ Goto("ui", "setPlayer")
  /\ UNCHANGED <<player, recording, recorder, file, calls>>

(* Play's early return after its settings were applied: the state does not *)
(* load.                                                                   *)
PlayFails ==
  /\ pc["ui"] = "play" /\ RunLockFree /\ Failures /\ file.state
  /\ settings' = "movie" /\ strays' = strays \cup {"failed"}
  /\ NewConsole /\ movie' = NoMovie /\ provider' = FALSE /\ recorded' = FALSE
  /\ Goto("ui", "idle")
  /\ UNCHANGED <<player, ref, recording, recorder, file, calls>>

SetPlayer ==
  /\ pc["ui"] = "setPlayer"
  /\ player' = TRUE /\ ref' = ref \ {"ui"} /\ Goto("ui", "idle")
  /\ UNCHANGED <<console, movie, provider, recordingVars, settings, calls, strays>>

-----------------------------------------------------------------------------
(***************************************************************************)
(* The shortcuts, which test first whether a movie is played or recorded.  *)
(***************************************************************************)
CallLoadState ==
  /\ pc["keys"] = "idle" /\ Called("loadState")
  /\ ~player /\ ~recorder
  /\ Goto("keys", "loadState")
  /\ UNCHANGED <<console, playing, recordingVars, settings, op, owner, strays>>

(* A state saved one frame after power on.                                 *)
LoadState ==
  /\ pc["keys"] = "loadState" /\ RunLockFree /\ owner' = "keys"
  /\ \E boot \in BootKeys, key \in Keys : machine' = <<boot, key>>
  /\ counter' = 2
  /\ strays' = IF Unannounced THEN strays \cup {"early"} ELSE strays
  /\ Goto("keys", "test")
  /\ UNCHANGED <<playing, recordingVars, settings, op, ops>>

-----------------------------------------------------------------------------
EmuStep ==
  \/ Frame \/ ResetPoll \/ MovieEnd \/ MovieEnded \/ Crash
  \/ PowerCycle \/ GameLoaded \/ MovieManagerStop("emu")

CallUI == CallStop \/ CallMovie \/ CallLoadRom
UIStep ==
  \/ MovieManagerStop("ui") \/ LoadRom
  \/ Record \/ RecordState \/ SetRecorder \/ Play \/ PlayFails \/ SetPlayer

KeysStep == MovieManagerStop("keys") \/ LoadState

Next == EmuStep \/ CallUI \/ UIStep \/ CallLoadState \/ KeysStep

Spec == Init /\ [][Next]_vars

(* The operating system schedules the threads.                             *)
FairSpec == Spec /\ WF_vars(EmuStep) /\ WF_vars(UIStep) /\ WF_vars(KeysStep)

-----------------------------------------------------------------------------
(***************************************************************************)
(* Properties                                                              *)
(***************************************************************************)
(* What the first n rows of a file make of its start: each is an input,    *)
(* and a power cycle makes a new console.                                  *)
Replay(f, n) ==
  LET After[i \in 0 .. n] ==
        IF i = 0 THEN f.start
        ELSE IF f.rows[i] = "power" THEN <<CHOOSE boot \in BootKeys : TRUE>>
        ELSE Append(After[i - 1], f.rows[i])
  IN  After[n]

Inputs == Seq(Keys \cup Buttons)
Files  == [start : Inputs, counter : Nat, state : BOOLEAN, rows : Inputs]

(* Types, and: what the console may ask for input or give inputs to        *)
(* exists, and a movie exists only as long as somebody refers to it.       *)
TypeOK ==
  /\ machine \in Inputs /\ counter \in Nat
  /\ recording \in Files /\ file \in Files /\ movie.file \in Files
  /\ settings \in {"user", "movie"}
  /\ movie.controls \in {"none", "current", "gone"} /\ movie.last \in Nat
  /\ ref \subseteq Threads /\ owner \in {"none", "ui", "keys"}
  /\ strays \subseteq StrayKinds
  /\ provider \/ player \/ ref # {} => movie # NoMovie
  /\ movie # NoMovie => player \/ ref # {}
  /\ recorded \/ recorder => recording # NoFile

(* A movie that is being recorded leads from its start to where the        *)
(* machine is: no input is missing from it and none is in it twice, also   *)
(* after resets, whose extra poll is a row, and power cycles, after which  *)
(* GameLoaded registers the recorder with the new console.                 *)
RecordsAll ==
  recording # NoFile /\ RunLockFree /\ strays = {}
    => machine = Replay(recording, Len(recording.rows))

(* While a movie plays, the machine is what its rows up to the poll        *)
(* counter make of its start, whatever was recorded, loaded or played      *)
(* before.  (Of what follows a power cycle in a movie nothing is claimed.) *)
Playing == movie.playing /\ provider /\ RunLockFree
InPlace == counter <= Len(Rows) /\ machine = Replay(movie.file, counter)

PlaysBack ==
  Playing /\ movie.controls = "current" /\ strays = {} => InPlace

(* When there is no movie, the user has his settings back, whichever       *)
(* thread stopped the last one (NexenMovie::Stop), and however many were   *)
(* played.                                                                 *)
SettingsRestored ==
  movie = NoMovie /\ strays = {} => settings = "user"

(* A movie ends, although its end is found by the emulation thread inside  *)
(* a poll and the user may stop it meanwhile.                              *)
MovieEnds ==
  movie.playing ~> (~movie.playing \/ strays # {} \/ movie.controls = "gone")

(* The same without the exceptions, which the code violates.               *)
(* "Restore pollcounter (used by movies when a power cycle is in the       *)
(* movie)", Emulator.cpp:575.                                              *)
PlaysThroughPowerCycle ==
  Playing /\ strays = {} => InPlace

(* MovieManager is used by several threads: "Thread safety: Uses safe_ptr  *)
(* for thread-safe access to player/recorder", MovieManager.h:61.          *)
RestoredOnce ==
  movie = NoMovie /\ strays \subseteq {"twice"} => settings = "user"

(* A stopped movie is not asked for input.                                 *)
NeverCrashes == "crashed" \notin strays
=============================================================================

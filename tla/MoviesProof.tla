---------------------------- MODULE MoviesProof ----------------------------
(***************************************************************************)
(* Proofs about Movies, for any inputs, calls, failures and bounds: its    *)
(* type invariant, with who keeps a movie alive (TypeCorrect), that the    *)
(* user gets his settings back (SettingsSafe), and, when the same is held  *)
(* at every power on, that a recording holds every input (RecordsSafe) and *)
(* that a movie plays back what it holds (PlaysSafe).  The inductive       *)
(* invariant has two layers: MovieInv, and Recorded, which needs it.       *)
(***************************************************************************)
EXTENDS Movies, SequenceTheorems, TLAPS, WellFoundedInduction

Movie == [file : Files, controls : {"none", "current", "gone"}, last : Nat,
          playing : BOOLEAN, backup : Seq({"user", "movie"})]

(* The types of the state TypeOK does not mention, or only in part.        *)
Typed ==
  /\ machine \in Inputs /\ counter \in Nat
  /\ movie \in Movie
  /\ provider \in BOOLEAN /\ player \in BOOLEAN
  /\ recording \in Files /\ file \in Files
  /\ recorded \in BOOLEAN /\ recorder \in BOOLEAN
  /\ settings \in {"user", "movie"}
  /\ strays \subseteq StrayKinds

(* Inside MovieManager::Stop, after its test.                              *)
PastTest == {"restore", "unregister", "clear", "drop"}

(* The interface has stopped what there was, and the MovieManager does not *)
(* know of anything new yet.                                               *)
Between == {"drop", "play", "record", "recordState", "loadRom", "setRecorder",
            "setPlayer"}

UICalls == {"none", "stop", "play", "record", "recordState", "loadRom"}
Steps ==
  {"frame", "reset", "power", "loaded", "ended", "crashed", "test", "restore",
   "unregister", "clear", "drop", "idle", "none", "stop", "play", "record",
   "recordState", "loadRom", "setRecorder", "setPlayer", "loadState"}

(* Who refers to the movie, and who has the run lock, at each step.        *)
Control ==
  /\ pc \in [Threads -> Steps] /\ ref \subseteq Threads
  /\ owner \in {"none", "ui", "keys"} /\ op \in UICalls
  /\ \A t \in ref : pc[t] \in PastTest \/ (t = "ui" /\ pc[t] = "setPlayer")
  /\ \A t \in Threads : pc[t] \in {"restore", "unregister"} => t \in ref
  /\ pc["ui"] = "setPlayer" => "ui" \in ref
  /\ pc["ui"] \in Between => ~player /\ ~recorder
  /\ pc["ui"] = "play" => op = "play"
  /\ pc["ui"] = "loadRom" => op = "loadRom"
  /\ op = "loadRom" /\ pc["ui"] # "idle" => owner = "ui"
  /\ pc["keys"] \in InStop => owner = "keys"
  /\ owner # "none" => pc["emu"] = "frame"

Started(f) == f.start # <<>>

(* What there is: a movie is there exactly as long as somebody refers to   *)
(* it, and what the console asks exists.                                   *)
Existence ==
  /\ machine # <<>>
  /\ recording = NoFile \/ Started(recording)
  /\ file = NoFile \/ Started(file)
  /\ movie = NoMovie \/ Started(movie.file)
  /\ provider \/ player \/ ref # {} => movie # NoMovie
  /\ movie # NoMovie => player \/ ref # {}
  /\ recorded \/ recorder \/ pc["ui"] = "setRecorder" => recording # NoFile
  /\ op = "play" /\ pc["ui"] # "idle" => file # NoFile

(* Whose settings are in force, and who is to bring them back.             *)
Restoring ==
  strays = {} =>
    /\ IF movie.playing THEN settings = "movie" /\ movie.backup = <<"user", "movie">>
                        ELSE settings = "user"
    /\ movie.playing => player \/ pc["ui"] = "setPlayer"
    /\ \A t \in ref : pc[t] \in {"unregister", "clear", "drop"} => ~movie.playing
    /\ \A t \in Threads : pc[t] = "clear" /\ t \notin ref => ~player
    /\ \A t \in {"emu", "keys"} : pc[t] \in PastTest => pc["ui"] # "setPlayer"

MovieInv == Typed /\ Control /\ Existence /\ Restoring

-----------------------------------------------------------------------------
(***************************************************************************)
(* The data: sequences of inputs, files and movies.                        *)
(***************************************************************************)
(* Sequences of inputs of length one and two, as a new console or a saved  *)
(* state have them.                                                        *)
LEMMA ShortInputs ==
  ASSUME NEW x \in Keys \cup Buttons, NEW y \in Keys \cup Buttons
  PROVE  /\ <<x>> \in Inputs /\ <<x>> # <<>> /\ Len(<<x>>) = 1
         /\ <<x, y>> \in Inputs /\ <<x, y>> # <<>> /\ Len(<<x, y>>) = 2
  BY DEF Inputs

(* One more input.                                                         *)
LEMMA AppendInput ==
  ASSUME NEW s \in Inputs, NEW x \in Keys \cup Buttons
  PROVE  /\ Append(s, x) \in Inputs /\ Append(s, x) # <<>>
         /\ Len(Append(s, x)) = Len(s) + 1 /\ Len(s) \in Nat
  BY DEF Inputs

(* No file and no movie.                                                   *)
LEMMA NothingTyped == NoFile \in Files /\ NoMovie \in Movie /\ ~NoMovie.playing
<1>1. NoFile \in Files
  BY DEF NoFile, Files, Inputs
<1>2. <<>> \in Seq({"user", "movie"})
  OBVIOUS
<1> QED
  BY <1>1, <1>2 DEF NoMovie, Movie

(* A file with a start is not NoFile, a movie of such a file not NoMovie.  *)
LEMMA StartedExists ==
  /\ \A f : Started(f) => f # NoFile
  /\ \A m : Started(m.file) => m # NoMovie
  BY DEF Started, NoFile, NoMovie

(* Changes of a movie that keep its file, its settings and whether it is   *)
(* played.                                                                 *)
LEMMA MovieChanges ==
  ASSUME NEW m \in Movie, NEW n \in Nat, NEW c \in {"none", "current", "gone"},
         NEW k \in {[m EXCEPT !.last = n], [m EXCEPT !.controls = c], Orphaned(m), m}
  PROVE  k \in Movie /\ k.file = m.file /\ k.playing = m.playing /\ k.backup = m.backup
  BY DEF Movie, Orphaned

(* A row more of a file.                                                   *)
LEMMA RowAdded ==
  ASSUME NEW f \in Files, NEW x \in Keys \cup Buttons
  PROVE  LET g == [f EXCEPT !.rows = Append(@, x)] IN g \in Files /\ g.start = f.start
<1>1. Append(f.rows, x) \in Inputs
  BY AppendInput DEF Files
<1> QED
  BY <1>1 DEF Files

(* What NexenMovie::SetInput finds is a number of a row.                   *)
LEMMA RowNumber ==
  ASSUME Typed PROVE RowIndex \subseteq Nat
  BY ConstantsAssumption DEF RowIndex, Typed

(* A new console.                                                          *)
LEMMA ConsoleTyped ==
  ASSUME NewConsole
  PROVE  /\ machine' \in Inputs /\ machine' # <<>> /\ Len(machine') = 1
         /\ counter' = 1
<1>1. PICK boot \in BootKeys : machine' = <<boot>> /\ counter' = 1
  BY DEF NewConsole
<1>2. boot \in Keys \cup Buttons
  BY ConstantsAssumption
<1> QED
  BY <1>1, <1>2, ShortInputs

(* A poll, by whoever.                                                     *)
LEMMA PollTyped ==
  ASSUME Typed, NEW input \in Keys \cup Buttons, Poll(input)
  PROVE  /\ machine' \in Inputs /\ machine' # <<>> /\ Len(machine') = Len(machine) + 1
         /\ Len(machine) \in Nat /\ counter' = counter + 1
         /\ movie' \in Movie /\ movie'.file = movie.file
         /\ movie'.playing = movie.playing /\ movie'.backup = movie.backup
         /\ ~provider => movie' = movie
         /\ recording' \in Files /\ recording'.start = recording.start
         /\ ~recorded => recording' = recording
<1>1. /\ machine' \in Inputs /\ machine' # <<>> /\ Len(machine') = Len(machine) + 1
      /\ Len(machine) \in Nat /\ counter' = counter + 1
  BY AppendInput DEF Poll, Typed
<1>2. recording' \in Files /\ recording'.start = recording.start
  BY RowAdded DEF Poll, Typed
<1>3. ~recorded => recording' = recording
  BY DEF Poll
<1>4. CASE ~provider
  BY <1>1, <1>2, <1>3, <1>4 DEF Poll, Typed
<1>5. CASE provider
  <2>1. PICK row \in RowIndex : movie' = [movie EXCEPT !.last = row]
    BY <1>5 DEF Poll
  <2>2. /\ movie' \in Movie /\ movie'.file = movie.file
        /\ movie'.playing = movie.playing /\ movie'.backup = movie.backup
    BY <2>1, RowNumber, MovieChanges DEF Typed
  <2> QED
    BY <1>1, <1>2, <1>3, <1>5, <2>2
<1> QED
  BY <1>4, <1>5

(* MovieManager::Stop, at the step that restores.                          *)
LEMMA RestoredTyped ==
  ASSUME Typed, NEW t, Restored(t)
  PROVE  /\ settings' \in {"user", "movie"} /\ movie' \in Movie
         /\ movie'.file = movie.file /\ strays' \subseteq StrayKinds
<1>1. movie.backup \in Seq({"user", "movie"})
  BY DEF Typed, Movie
<1>2. IF movie.backup = <<>> THEN movie.backup \in Seq({"user", "movie"})
      ELSE Head(movie.backup) \in {"user", "movie"} /\ Tail(movie.backup) \in Seq({"user", "movie"})
  BY <1>1
<1>3. settings' \in {"user", "movie"}
  BY <1>2 DEF Restored, Typed
<1>4. PICK b \in Seq({"user", "movie"}) : movie' = [movie EXCEPT !.playing = FALSE, !.backup = b]
  BY <1>2 DEF Restored
<1>5. movie' \in Movie /\ movie'.file = movie.file
  BY <1>4 DEF Typed, Movie
<1>6. strays' \subseteq StrayKinds
  BY DEF Restored, Typed, StrayKinds
<1> QED
  BY <1>3, <1>5, <1>6

(* MovieRecorder::Record starts a file where the machine is.               *)
LEMMA NewFileTyped ==
  ASSUME machine' \in Inputs, machine' # <<>>, counter' \in Nat, NEW state \in BOOLEAN
  PROVE  NewFile(state) \in Files /\ Started(NewFile(state))
<1>1. <<>> \in Inputs
  BY DEF Inputs
<1> QED
  BY <1>1 DEF NewFile, Files, Started

-----------------------------------------------------------------------------
(***************************************************************************)
(* Each part of the invariant is kept by every step.                       *)
(***************************************************************************)
(* The types.                                                              *)
LEMMA TypedStep ==
  ASSUME MovieInv, [Next]_vars
  PROVE  Typed'
<1> USE DEF MovieInv, Typed, Goto, console, playing, recordingVars, calls
<1>1. CASE Frame
  <2>1. PICK input \in Keys \cup Buttons : Poll(input)
    BY <1>1 DEF Frame
  <2>2. counter' \in Nat
    BY <2>1, PollTyped
  <2> QED
    BY <1>1, <2>1, <2>2, PollTyped DEF Frame
<1>2. CASE ResetPoll
  <2>1. PICK input \in Keys \cup Buttons : Poll(input)
    BY <1>2 DEF ResetPoll
  <2>2. counter' \in Nat
    BY <2>1, PollTyped
  <2> QED
    BY <1>2, <2>1, <2>2, PollTyped DEF ResetPoll
<1>3. CASE MovieEnd
  BY <1>3, RowNumber, MovieChanges DEF MovieEnd
<1>4. CASE MovieEnded
  <2>1. PICK input \in Keys :
          /\ machine' = Append(machine, input) /\ counter' = counter + 1
          /\ recording' = IF recorded THEN [recording EXCEPT !.rows = Append(@, input)]
                                      ELSE recording
    BY <1>4 DEF MovieEnded
  <2>2. machine' \in Inputs /\ recording' \in Files
    BY <2>1, AppendInput, RowAdded
  <2> QED
    BY <1>4, <2>1, <2>2 DEF MovieEnded
<1>5. CASE Crash
  BY <1>5 DEF Crash, StrayKinds
<1>6. CASE PowerCycle
  <2>1. movie' \in Movie
    BY <1>6, MovieChanges DEF PowerCycle
  <2>2. machine' \in Inputs /\ counter' \in Nat
    BY <1>6, ConsoleTyped DEF PowerCycle
  <2> QED
    BY <1>6, <2>1, <2>2 DEF PowerCycle, StrayKinds
<1>7. CASE GameLoaded
  BY <1>7 DEF GameLoaded, Movie
<1>8. ASSUME NEW t \in Threads, StopTest(t) PROVE Typed'
  BY <1>8 DEF StopTest, StrayKinds
<1>9. ASSUME NEW t \in Threads, StopRestore(t) PROVE Typed'
  BY <1>9, RestoredTyped DEF StopRestore
<1>10. ASSUME NEW t \in Threads, StopUnregister(t) PROVE Typed'
  BY <1>10, MovieChanges DEF StopUnregister
<1>11. ASSUME NEW t \in Threads, StopClear(t) PROVE Typed'
  BY <1>11, NothingTyped DEF StopClear, StrayKinds
<1>12. ASSUME NEW t \in Threads, StopDrop(t) PROVE Typed'
  BY <1>12, NothingTyped DEF StopDrop
<1>13. CASE CallStop
  BY <1>13 DEF CallStop, Called
<1>14. CASE CallMovie
  BY <1>14 DEF CallMovie, Called
<1>15. CASE CallLoadRom
  BY <1>15 DEF CallLoadRom, Called, RunLockFree
<1>16. CASE LoadRom
  <2>1. machine' \in Inputs /\ counter' \in Nat
    BY <1>16, ConsoleTyped DEF LoadRom
  <2> QED
    BY <1>16, <2>1 DEF LoadRom
<1>17. CASE Record
  <2>1. movie' \in Movie
    BY <1>17, MovieChanges DEF Record
  <2>2. machine' \in Inputs /\ counter' \in Nat
    BY <1>17, ConsoleTyped DEF Record
  <2>3. machine' # <<>>
    BY <1>17, ConsoleTyped DEF Record, Existence
  <2>4. recording' \in Files
    BY <1>17, <2>2, <2>3, NewFileTyped DEF Record
  <2> QED
    BY <1>17, <2>1, <2>2, <2>4 DEF Record, StrayKinds
<1>18. CASE RecordState
  <2>1. machine' \in Inputs /\ counter' \in Nat /\ machine' # <<>>
    BY <1>18 DEF RecordState, Existence
  <2>2. recording' \in Files
    BY <1>18, <2>1, NewFileTyped DEF RecordState
  <2> QED
    BY <1>18, <2>1, <2>2 DEF RecordState
<1>19. CASE SetRecorder
  BY <1>19 DEF SetRecorder
<1>20. CASE Play
  <2>1. movie' \in Movie /\ settings' = "movie"
    <3>1. Backup \in Seq({"user", "movie"})
      BY DEF Backup
    <3> QED
      BY <1>20, <3>1 DEF Play, Movie
  <2>2. counter' \in Nat
    BY <1>20 DEF Play, FirstRow
  <2>3. file.start \in Inputs /\ file.counter \in Nat /\ file.start # <<>>
    BY <1>20 DEF Play, Files, Existence, Control, Started, Threads
  <2>4. PICK boot \in BootKeys :
          machine' = IF file.state THEN file.start
                     ELSE IF strays' = strays THEN <<boot>> ELSE machine
    BY <1>20 DEF Play
  <2>5. <<boot>> \in Inputs
    BY ConstantsAssumption, ShortInputs
  <2>6. machine' \in Inputs
    BY <2>3, <2>4, <2>5
  <2> QED
    BY <1>20, <2>1, <2>2, <2>6 DEF Play, StrayKinds
<1>21. CASE PlayFails
  <2>1. machine' \in Inputs /\ counter' \in Nat
    BY <1>21, ConsoleTyped DEF PlayFails
  <2> QED
    BY <1>21, <2>1, NothingTyped DEF PlayFails, StrayKinds
<1>22. CASE SetPlayer
  BY <1>22 DEF SetPlayer
<1>23. CASE CallLoadState
  BY <1>23 DEF CallLoadState, Called
<1>24. CASE LoadState
  <2>1. PICK boot \in BootKeys, key \in Keys : machine' = <<boot, key>>
    BY <1>24 DEF LoadState
  <2>2. machine' \in Inputs /\ machine' # <<>>
    BY <2>1, ConstantsAssumption, ShortInputs
  <2> QED
    BY <1>24, <2>2 DEF LoadState, StrayKinds
<1>25. CASE UNCHANGED vars
  BY <1>25 DEF vars
<1>26. QED
  BY <1>1, <1>2, <1>3, <1>4, <1>5, <1>6, <1>7, <1>8, <1>9, <1>10,
     <1>11, <1>12, <1>13, <1>14, <1>15, <1>16, <1>17, <1>18, <1>19,
     <1>20, <1>21, <1>22, <1>23, <1>24, <1>25
  DEF Next, EmuStep, CallUI, UIStep, KeysStep, MovieManagerStop, Threads

(* Each step leaves references, the run lock and the player as its next    *)
(* step expects them.                                                      *)
LEMMA ControlStep ==
  ASSUME MovieInv, [Next]_vars
  PROVE  Control'
<1> USE DEF MovieInv, Control, Threads, Goto, InStop, PastTest, Between,
            UICalls, Steps, Buttons, console, playing, recordingVars, calls
<1>1. CASE Frame
  BY <1>1 DEF Frame, Poll
<1>2. CASE ResetPoll
  BY <1>2 DEF ResetPoll, Poll
<1>3. CASE MovieEnd
  BY <1>3 DEF MovieEnd
<1>4. CASE MovieEnded
  BY <1>4 DEF MovieEnded
<1>5. CASE Crash
  BY <1>5 DEF Crash
<1>6. CASE PowerCycle
  BY <1>6 DEF PowerCycle, NewConsole, Orphaned
<1>7. CASE GameLoaded
  BY <1>7 DEF GameLoaded
<1>8. ASSUME NEW t \in Threads, StopTest(t) PROVE Control'
  BY <1>8 DEF StopTest, Unannounced
<1>9. ASSUME NEW t \in Threads, StopRestore(t) PROVE Control'
  BY <1>9 DEF StopRestore, Restored
<1>10. ASSUME NEW t \in Threads, StopUnregister(t) PROVE Control'
  BY <1>10 DEF StopUnregister
<1>11. ASSUME NEW t \in Threads, StopClear(t) PROVE Control'
  BY <1>11 DEF StopClear
<1>12. ASSUME NEW t \in Threads, StopDrop(t) PROVE Control'
  BY <1>12 DEF StopDrop, AfterStop
<1>13. CASE CallStop
  BY <1>13 DEF CallStop, Called
<1>14. CASE CallMovie
  BY <1>14 DEF CallMovie, Called
<1>15. CASE CallLoadRom
  BY <1>15 DEF CallLoadRom, Called, RunLockFree
<1>16. CASE LoadRom
  BY <1>16 DEF LoadRom, NewConsole
<1>17. CASE Record
  BY <1>17 DEF Record, RunLockFree, NewConsole, Orphaned
<1>18. CASE RecordState
  BY <1>18 DEF RecordState, RunLockFree
<1>19. CASE SetRecorder
  BY <1>19 DEF SetRecorder
<1>20. CASE Play
  BY <1>20 DEF Play, RunLockFree
<1>21. CASE PlayFails
  BY <1>21 DEF PlayFails, RunLockFree
<1>22. CASE SetPlayer
  BY <1>22 DEF SetPlayer
<1>23. CASE CallLoadState
  BY <1>23 DEF CallLoadState, Called
<1>24. CASE LoadState
  BY <1>24 DEF LoadState, RunLockFree
<1>25. CASE UNCHANGED vars
  BY <1>25 DEF vars
<1>26. QED
  BY <1>1, <1>2, <1>3, <1>4, <1>5, <1>6, <1>7, <1>8, <1>9, <1>10,
     <1>11, <1>12, <1>13, <1>14, <1>15, <1>16, <1>17, <1>18, <1>19,
     <1>20, <1>21, <1>22, <1>23, <1>24, <1>25
  DEF Next, EmuStep, CallUI, UIStep, KeysStep, MovieManagerStop, Threads

(* What is referred to exists.                                             *)
LEMMA ExistenceStep ==
  ASSUME MovieInv, [Next]_vars
  PROVE  Existence'
<1> USE DEF MovieInv, Control, Existence, Threads, Goto, InStop, PastTest,
            Between, UICalls, Steps, Buttons, console, playing,
            recordingVars, calls
<1>1. CASE Frame
  <2>1. PICK input \in Keys \cup Buttons : Poll(input)
    BY <1>1 DEF Frame
  <2>2. machine' # <<>> /\ movie'.file = movie.file /\ recording'.start = recording.start
    BY <2>1, PollTyped
  <2>3. movie # NoMovie => movie' # NoMovie /\ Started(movie'.file)
    BY <2>2, StartedExists DEF Started
  <2>4. movie = NoMovie => movie' = NoMovie
    BY <2>1, PollTyped
  <2>5. recording # NoFile => recording' # NoFile /\ Started(recording')
    BY <2>2, StartedExists DEF Started
  <2>6. recording = NoFile => recording' = NoFile
    BY <2>1, PollTyped
  <2>7. /\ UNCHANGED <<provider, player, ref, recorded, recorder, file, op>>
        /\ pc'["ui"] = pc["ui"]
    BY <1>1 DEF Frame
  <2> QED
    BY <2>2, <2>3, <2>4, <2>5, <2>6, <2>7
<1>2. CASE ResetPoll
  <2>1. PICK input \in Keys \cup Buttons : Poll(input)
    BY <1>2 DEF ResetPoll
  <2>2. machine' # <<>> /\ movie'.file = movie.file /\ recording'.start = recording.start
    BY <2>1, PollTyped
  <2>3. movie # NoMovie => movie' # NoMovie /\ Started(movie'.file)
    BY <2>2, StartedExists DEF Started
  <2>4. movie = NoMovie => movie' = NoMovie
    BY <2>1, PollTyped
  <2>5. recording # NoFile => recording' # NoFile /\ Started(recording')
    BY <2>2, StartedExists DEF Started
  <2>6. recording = NoFile => recording' = NoFile
    BY <2>1, PollTyped
  <2>7. /\ UNCHANGED <<provider, player, ref, recorded, recorder, file, op>>
        /\ pc'["ui"] = pc["ui"]
    BY <1>2 DEF ResetPoll
  <2> QED
    BY <2>2, <2>3, <2>4, <2>5, <2>6, <2>7
<1>3. CASE MovieEnd
  <2>1. movie'.file = movie.file
    BY <1>3, RowNumber, MovieChanges DEF MovieEnd, Typed
  <2>2. movie # NoMovie => movie' # NoMovie /\ Started(movie'.file)
    BY <2>1, StartedExists DEF Started
  <2>3. movie # NoMovie
    BY <1>3 DEF MovieEnd
  <2> QED
    BY <1>3, <2>2, <2>3 DEF MovieEnd
<1>4. CASE MovieEnded
  <2>1. PICK input \in Keys :
          /\ machine' = Append(machine, input)
          /\ recording' = IF recorded THEN [recording EXCEPT !.rows = Append(@, input)]
                                      ELSE recording
    BY <1>4 DEF MovieEnded
  <2>2. machine' # <<>> /\ recording'.start = recording.start
    BY <2>1, AppendInput, RowAdded DEF Typed
  <2>3. recording # NoFile => recording' # NoFile /\ Started(recording')
    BY <2>2, StartedExists DEF Started
  <2>4. recording = NoFile => recording' = NoFile
    BY <2>1
  <2> QED
    BY <1>4, <2>2, <2>3, <2>4 DEF MovieEnded
<1>5. CASE Crash
  BY <1>5 DEF Crash
<1>6. CASE PowerCycle
  <2>1. movie'.file = movie.file /\ machine' # <<>>
    <3>1. movie' \in {movie, Orphaned(movie)}
      BY <1>6 DEF PowerCycle
    <3>2. machine' # <<>>
      BY <1>6, ConsoleTyped DEF PowerCycle
    <3> QED
      BY <3>1, <3>2, MovieChanges DEF Typed
  <2>2. movie # NoMovie => movie' # NoMovie /\ Started(movie'.file)
    BY <2>1, StartedExists DEF Started
  <2>3. movie = NoMovie => movie' = NoMovie
    BY <1>6 DEF PowerCycle, Orphaned, NoMovie
  <2>4. provider' => provider
    BY <1>6 DEF PowerCycle
  <2>5. recorded' => recorded
    BY <1>6 DEF PowerCycle
  <2> QED
    BY <1>6, <2>1, <2>2, <2>3, <2>4, <2>5 DEF PowerCycle
<1>7. CASE GameLoaded
  BY <1>7 DEF GameLoaded
<1>8. ASSUME NEW t \in Threads, StopTest(t) PROVE Existence'
  BY <1>8 DEF StopTest, Unannounced
<1>9. ASSUME NEW t \in Threads, StopRestore(t) PROVE Existence'
  <2>1. movie'.file = movie.file
    BY <1>9, RestoredTyped DEF StopRestore
  <2>2. movie # NoMovie /\ movie' # NoMovie /\ Started(movie'.file)
    BY <1>9, <2>1, StartedExists DEF StopRestore, Started
  <2> QED
    BY <1>9, <2>2 DEF StopRestore
<1>10. ASSUME NEW t \in Threads, StopUnregister(t) PROVE Existence'
  <2>1. movie'.file = movie.file
    BY <1>10, MovieChanges DEF StopUnregister, Typed
  <2>2. movie # NoMovie => movie' # NoMovie /\ Started(movie'.file)
    BY <2>1, StartedExists DEF Started
  <2>3. movie # NoMovie
    BY <1>10 DEF StopUnregister
  <2> QED
    BY <1>10, <2>2, <2>3 DEF StopUnregister
<1>11. ASSUME NEW t \in Threads, StopClear(t) PROVE Existence'
  BY <1>11 DEF StopClear
<1>12. ASSUME NEW t \in Threads, StopDrop(t) PROVE Existence'
  BY <1>12 DEF StopDrop, AfterStop
<1>13. CASE CallStop
  BY <1>13 DEF CallStop, Called
<1>14. CASE CallMovie
  BY <1>14 DEF CallMovie, Called
<1>15. CASE CallLoadRom
  BY <1>15 DEF CallLoadRom, Called, RunLockFree
<1>16. CASE LoadRom
  BY <1>16 DEF LoadRom, NewConsole
<1>17. CASE Record
  <2>1. /\ pc["keys"] \notin InStop /\ pc["emu"] = "frame" /\ pc["ui"] = "record"
        /\ ~player /\ ~recorder
    BY <1>17 DEF Record, RunLockFree
  <2>2. ref = {}
    BY <2>1
  <2>3. movie = NoMovie /\ ~provider
    BY <2>1, <2>2
  <2>4. movie' = NoMovie /\ ~provider'
    BY <1>17, <2>3 DEF Record, Orphaned, NoMovie
  <2>5. machine' # <<>> /\ machine' \in Inputs /\ counter' \in Nat
    BY <1>17, ConsoleTyped DEF Record, Typed
  <2>6. recording' # NoFile /\ Started(recording')
    BY <1>17, <2>5, NewFileTyped, StartedExists DEF Record
  <2> QED
    BY <1>17, <2>1, <2>2, <2>4, <2>5, <2>6 DEF Record
<1>18. CASE RecordState
  <2>1. machine' # <<>> /\ machine' \in Inputs /\ counter' \in Nat
    BY <1>18 DEF RecordState, Typed
  <2>2. recording' # NoFile /\ Started(recording')
    BY <1>18, <2>1, NewFileTyped, StartedExists DEF RecordState
  <2> QED
    BY <1>18, <2>1, <2>2 DEF RecordState
<1>19. CASE SetRecorder
  BY <1>19 DEF SetRecorder
<1>20. CASE Play
  <2>1. pc["ui"] = "play" /\ op = "play" /\ file # NoFile
    BY <1>20 DEF Play
  <2>2. movie'.file = file
    BY <1>20 DEF Play
  <2>3. Started(movie'.file) /\ movie' # NoMovie
    BY <2>1, <2>2, StartedExists
  <2>4. machine' # <<>>
    <3>1. PICK boot \in BootKeys :
            machine' = IF file.state THEN file.start
                       ELSE IF strays' = strays THEN <<boot>> ELSE machine
      BY <1>20 DEF Play
    <3>2. <<boot>> # <<>>
      OBVIOUS
    <3> QED
      BY <2>1, <3>1, <3>2 DEF Started
  <2>5. /\ ref' = ref \cup {"ui"} /\ Goto("ui", "setPlayer")
        /\ UNCHANGED <<player, recording, recorder, file, op>>
    BY <1>20 DEF Play
  <2>6. recorded' => recorded
    BY <1>20 DEF Play
  <2> QED
    BY <2>1, <2>3, <2>4, <2>5, <2>6
<1>21. CASE PlayFails
  <2>1. /\ pc["keys"] \notin InStop /\ pc["emu"] = "frame" /\ pc["ui"] = "play"
        /\ ~player /\ ~recorder
    BY <1>21 DEF PlayFails, RunLockFree
  <2>2. ref = {}
    BY <2>1
  <2>3. machine' # <<>>
    BY <1>21, ConsoleTyped DEF PlayFails
  <2> QED
    BY <1>21, <2>1, <2>2, <2>3 DEF PlayFails
<1>22. CASE SetPlayer
  BY <1>22 DEF SetPlayer
<1>23. CASE CallLoadState
  BY <1>23 DEF CallLoadState, Called
<1>24. CASE LoadState
  BY <1>24 DEF LoadState, RunLockFree
<1>25. CASE UNCHANGED vars
  BY <1>25 DEF vars
<1>26. QED
  BY <1>1, <1>2, <1>3, <1>4, <1>5, <1>6, <1>7, <1>8, <1>9, <1>10,
     <1>11, <1>12, <1>13, <1>14, <1>15, <1>16, <1>17, <1>18, <1>19,
     <1>20, <1>21, <1>22, <1>23, <1>24, <1>25
  DEF Next, EmuStep, CallUI, UIStep, KeysStep, MovieManagerStop, Threads

(* Settings and backups change hands together.                             *)
LEMMA RestoringStep ==
  ASSUME MovieInv, [Next]_vars
  PROVE  Restoring'
<1> USE DEF MovieInv, Control, Existence, Restoring, Threads, Goto, InStop,
            PastTest, Between, UICalls, Steps, Buttons, console, playing,
            recordingVars, calls
<1>1. CASE Frame
  <2>1. PICK input \in Keys \cup Buttons :
          Poll(input) /\ Goto("emu", IF input \in Buttons THEN input ELSE "frame")
    BY <1>1 DEF Frame
  <2>2. movie'.playing = movie.playing /\ movie'.backup = movie.backup
    BY <2>1, PollTyped
  <2> QED
    BY <1>1, <2>1, <2>2 DEF Frame
<1>2. CASE ResetPoll
  <2>1. movie'.playing = movie.playing /\ movie'.backup = movie.backup
    BY <1>2, PollTyped DEF ResetPoll
  <2> QED
    BY <1>2, <2>1 DEF ResetPoll
<1>3. CASE MovieEnd
  <2>1. movie'.playing = movie.playing /\ movie'.backup = movie.backup
    BY <1>3, RowNumber, MovieChanges DEF MovieEnd, Typed
  <2> QED
    BY <1>3, <2>1 DEF MovieEnd
<1>4. CASE MovieEnded
  BY <1>4 DEF MovieEnded
<1>5. CASE Crash
  BY <1>5 DEF Crash
<1>6. CASE PowerCycle
  <2>1. movie'.playing = movie.playing /\ movie'.backup = movie.backup
    <3>1. movie' \in {movie, Orphaned(movie)}
      BY <1>6 DEF PowerCycle
    <3> QED
      BY <3>1, MovieChanges DEF Typed
  <2> QED
    BY <1>6, <2>1 DEF PowerCycle
<1>7. CASE GameLoaded
  BY <1>7 DEF GameLoaded
<1>8. ASSUME NEW t \in Threads, StopTest(t) PROVE Restoring'
  BY <1>8 DEF StopTest, Unannounced
<1>9. ASSUME NEW t \in Threads, StopRestore(t) PROVE Restoring'
  <2> SUFFICES ASSUME strays' = {} PROVE Restoring'
    OBVIOUS
  <2>1. strays = {} /\ movie.playing
    BY <1>9 DEF StopRestore, Restored
  <2>2. settings = "movie" /\ movie.backup = <<"user", "movie">>
    BY <2>1
  <2>3. settings' = "user"
    BY <1>9, <2>2 DEF StopRestore, Restored
  <2>4. movie'.playing = FALSE
    BY <1>9, Zenon DEF StopRestore, Restored, Typed, Movie
  <2> QED
    BY <1>9, <2>1, <2>3, <2>4 DEF StopRestore
<1>10. ASSUME NEW t \in Threads, StopUnregister(t) PROVE Restoring'
  <2>1. movie'.playing = movie.playing /\ movie'.backup = movie.backup
    BY <1>10, MovieChanges DEF StopUnregister, Typed
  <2> QED
    BY <1>10, <2>1 DEF StopUnregister
<1>11. ASSUME NEW t \in Threads, StopClear(t) PROVE Restoring'
  BY <1>11 DEF StopClear
<1>12. ASSUME NEW t \in Threads, StopDrop(t) PROVE Restoring'
  <2> SUFFICES ASSUME strays' = {} PROVE Restoring'
    OBVIOUS
  <2>1. strays = {}
    BY <1>12 DEF StopDrop
  <2>2. movie' = NoMovie \/ movie' = movie
    BY <1>12 DEF StopDrop
  <2>3. movie' = NoMovie => t \in ref \/ movie' = movie
    BY <1>12 DEF StopDrop
  <2>4. movie'.playing = movie.playing
    BY <1>12, <2>1, <2>2, <2>3, NothingTyped DEF StopDrop, Typed, Movie
  <2>5. movie'.playing => movie' = movie
    BY <2>2, NothingTyped
  <2>6. UNCHANGED <<player, settings>> /\ ref' = ref \ {t} /\ Goto(t, AfterStop(t))
    BY <1>12 DEF StopDrop
  <2>7. pc[t] = "drop" /\ AfterStop(t) \in UICalls \cup {"ended", "idle"}
    BY <1>12 DEF StopDrop, AfterStop
  <2>8. /\ pc'[t] \in UICalls \cup {"ended", "idle"}
        /\ \A u \in Threads \ {t} : pc'[u] = pc[u]
    BY <2>6, <2>7
  <2>9. IF movie'.playing THEN settings' = "movie" /\ movie'.backup = <<"user", "movie">>
                         ELSE settings' = "user"
    BY <2>1, <2>4, <2>5, <2>6
  <2> QED
    BY <2>1, <2>4, <2>6, <2>7, <2>8, <2>9
<1>13. CASE CallStop
  BY <1>13 DEF CallStop, Called
<1>14. CASE CallMovie
  BY <1>14 DEF CallMovie, Called
<1>15. CASE CallLoadRom
  BY <1>15 DEF CallLoadRom, Called, RunLockFree
<1>16. CASE LoadRom
  BY <1>16 DEF LoadRom, NewConsole
<1>17. CASE Record
  <2>1. movie'.playing = movie.playing /\ movie'.backup = movie.backup
    BY <1>17, MovieChanges DEF Record, Typed
  <2> QED
    BY <1>17, <2>1 DEF Record
<1>18. CASE RecordState
  BY <1>18 DEF RecordState, RunLockFree
<1>19. CASE SetRecorder
  BY <1>19 DEF SetRecorder
<1>20. CASE Play
  <2> SUFFICES ASSUME strays' = {} PROVE Restoring'
    OBVIOUS
  <2>1. strays = {}
    BY <1>20 DEF Play
  <2>2. ~movie.playing /\ settings = "user"
    BY <1>20, <2>1 DEF Play
  <2>3. settings' = "movie" /\ movie'.playing /\ movie'.backup = <<"user", "movie">>
    BY <1>20, <2>2 DEF Play, Backup
  <2>4. /\ Goto("ui", "setPlayer") /\ ref' = ref \cup {"ui"} /\ UNCHANGED player
        /\ pc["emu"] = "frame" /\ owner = "none"
    BY <1>20 DEF Play, RunLockFree
  <2> QED
    BY <2>1, <2>3, <2>4
<1>21. CASE PlayFails
  BY <1>21 DEF PlayFails, RunLockFree
<1>22. CASE SetPlayer
  BY <1>22 DEF SetPlayer
<1>23. CASE CallLoadState
  BY <1>23 DEF CallLoadState, Called
<1>24. CASE LoadState
  BY <1>24 DEF LoadState, RunLockFree
<1>25. CASE UNCHANGED vars
  BY <1>25 DEF vars
<1>26. QED
  BY <1>1, <1>2, <1>3, <1>4, <1>5, <1>6, <1>7, <1>8, <1>9, <1>10,
     <1>11, <1>12, <1>13, <1>14, <1>15, <1>16, <1>17, <1>18, <1>19,
     <1>20, <1>21, <1>22, <1>23, <1>24, <1>25
  DEF Next, EmuStep, CallUI, UIStep, KeysStep, MovieManagerStop, Threads

-----------------------------------------------------------------------------
(***************************************************************************)
(* What the rows of a file make of its start.  Replay is a recursive       *)
(* function; what it returns is proved by induction on a set of numbers    *)
(* (NatInd), from the well-foundedness of the natural numbers.             *)
(***************************************************************************)
(* The natural numbers are well ordered.                                   *)
LEMMA NatMin ==
  ASSUME NEW S \in SUBSET Nat, S # {}
  PROVE  \E m \in S : \A n \in S : m <= n
<1>1. PICK m \in S : \A n \in S : <<n, m>> \notin OpToRel(<, Nat)
  BY NatLessThanWellFounded, WFMin
<1>2. \A n \in S : ~ (n < m)
  BY <1>1 DEF OpToRel
<1> QED
  BY <1>2

(* Induction, for a set of numbers.                                        *)
LEMMA NatInd ==
  ASSUME NEW S \in SUBSET Nat, 0 \in S, \A n \in S : n + 1 \in S
  PROVE  S = Nat
<1>1. SUFFICES ASSUME Nat \ S # {} PROVE FALSE
  OBVIOUS
<1>2. PICK m \in Nat \ S : \A n \in Nat \ S : m <= n
  BY <1>1, NatMin
<1>3. m # 0 /\ m - 1 \in Nat /\ m - 1 \in S
  BY <1>2
<1> QED
  BY <1>2, <1>3

(* What the console is given at power on, when that is always the same.    *)
Boot == CHOOSE boot \in BootKeys : TRUE

RowAfter(s, x) == IF x = "power" THEN <<Boot>> ELSE Append(s, x)

(* The table of Replay up to row n.                                        *)
IsReplay(g, f, n) ==
  g = [i \in 0 .. n |-> IF i = 0 THEN f.start ELSE RowAfter(g[i - 1], f.rows[i])]

(* There is one,                                                           *)
LEMMA ReplayExists ==
  ASSUME NEW f, NEW n \in Nat
  PROVE  \E g : IsReplay(g, f, n)
<1> DEFINE S == {m \in Nat : \E g : IsReplay(g, f, m)}
<1>1. 0 \in S
  <2>1. IsReplay([i \in 0 .. 0 |-> f.start], f, 0)
    BY DEF IsReplay
  <2> QED
    BY <2>1
<1>2. ASSUME NEW m \in S PROVE m + 1 \in S
  <2>1. PICK g : IsReplay(g, f, m)
    OBVIOUS
  <2> DEFINE h == [i \in 0 .. (m + 1) |->
                     IF i = 0 THEN f.start ELSE RowAfter(g[i - 1], f.rows[i])]
  <2>2. \A i \in 0 .. m : h[i] = g[i]
    BY <2>1 DEF IsReplay
  <2>3. \A i \in 1 .. (m + 1) : i - 1 \in 0 .. m
    OBVIOUS
  <2>4. ASSUME NEW i \in 0 .. (m + 1)
        PROVE  h[i] = IF i = 0 THEN f.start ELSE RowAfter(h[i - 1], f.rows[i])
    <3>1. CASE i = 0
      BY <3>1
    <3>2. CASE i # 0
      <4>1. i - 1 \in 0 .. m /\ h[i] = RowAfter(g[i - 1], f.rows[i])
        BY <3>2
      <4>2. h[i - 1] = g[i - 1]
        BY <2>2, <4>1
      <4> HIDE DEF h
      <4> QED
        BY <3>2, <4>1, <4>2
    <3> QED
      BY <3>1, <3>2
  <2>5. DOMAIN h = 0 .. (m + 1) /\ h = [i \in DOMAIN h |-> h[i]]
    OBVIOUS
  <2> HIDE DEF h
  <2>6. IsReplay(h, f, m + 1)
    BY <2>4, <2>5 DEF IsReplay
  <2> QED
    BY <2>6
<1> QED
  BY <1>1, <1>2, NatInd

(* Replay is the last entry of its table.                                  *)
LEMMA ReplayTable ==
  ASSUME NEW f, NEW n \in Nat
  PROVE  \E g : IsReplay(g, f, n) /\ Replay(f, n) = g[n]
<1> DEFINE G == CHOOSE g : IsReplay(g, f, n)
<1>1. IsReplay(G, f, n)
  BY ReplayExists
<1>2. Replay(f, n) = G[n]
  BY DEF Replay, IsReplay, RowAfter, Boot
<1> QED
  BY <1>1, <1>2

(* Tables of files that begin alike agree.                                 *)
LEMMA ReplayUnique ==
  ASSUME NEW f, NEW e, NEW m \in Nat, NEW n \in Nat, NEW g, NEW h,
         IsReplay(g, f, m), IsReplay(h, e, n), m <= n,
         f.start = e.start, \A i \in 1 .. m : f.rows[i] = e.rows[i]
  PROVE  g[m] = h[m]
<1> DEFINE S == {i \in Nat : i <= m => g[i] = h[i]}
<1>1. 0 \in S
  BY DEF IsReplay
<1>2. ASSUME NEW i \in S PROVE i + 1 \in S
  <2>1. SUFFICES ASSUME i + 1 <= m PROVE g[i + 1] = h[i + 1]
    OBVIOUS
  <2>2. /\ g[i + 1] = RowAfter(g[i], f.rows[i + 1])
        /\ h[i + 1] = RowAfter(h[i], e.rows[i + 1])
    BY <2>1 DEF IsReplay
  <2>3. f.rows[i + 1] = e.rows[i + 1] /\ g[i] = h[i]
    BY <2>1
  <2> QED
    BY <2>2, <2>3
<1>3. S = Nat
  BY <1>1, <1>2, NatInd
<1>4. m \in S
  BY <1>3
<1> QED
  BY <1>4

(* The equations that define Replay.                                       *)
LEMMA ReplayDef ==
  ASSUME NEW f, NEW n \in Nat
  PROVE  /\ Replay(f, 0) = f.start
         /\ Replay(f, n + 1) = RowAfter(Replay(f, n), f.rows[n + 1])
<1>1. PICK k \in Nat : k = n + 1 /\ n <= k
  OBVIOUS
<1>2. PICK g : IsReplay(g, f, n) /\ Replay(f, n) = g[n]
  BY ReplayTable
<1>3. PICK h : IsReplay(h, f, k) /\ Replay(f, k) = h[k]
  BY ReplayTable
<1>4. PICK z : IsReplay(z, f, 0) /\ Replay(f, 0) = z[0]
  BY ReplayTable
<1>5. g[n] = h[n]
  BY <1>1, <1>2, <1>3, ReplayUnique
<1>6. h[k] = RowAfter(h[n], f.rows[k])
  BY <1>1, <1>3 DEF IsReplay
<1>7. z[0] = f.start
  BY <1>4 DEF IsReplay
<1> QED
  BY <1>1, <1>2, <1>3, <1>4, <1>5, <1>6, <1>7

(* Later rows change nothing about the first ones.                         *)
LEMMA ReplaySame ==
  ASSUME NEW f, NEW e, NEW n \in Nat,
         f.start = e.start, \A i \in 1 .. n : f.rows[i] = e.rows[i]
  PROVE  Replay(f, n) = Replay(e, n)
<1>1. PICK g : IsReplay(g, f, n) /\ Replay(f, n) = g[n]
  BY ReplayTable
<1>2. PICK h : IsReplay(h, e, n) /\ Replay(e, n) = h[n]
  BY ReplayTable
<1> QED
  BY <1>1, <1>2, ReplayUnique

(* The inputs of a machine that has been given the first n rows of a file, *)
(* with s and r for the start and the rows:                                *)
LEMMA Given ==
  ASSUME NEW s \in Inputs, NEW r \in Inputs, NEW n \in Nat, n <= Len(r)
  PROVE  /\ s \o SubSeq(r, 1, n) \in Inputs
         /\ Len(s) \in Nat /\ Len(r) \in Nat /\ Len(s \o SubSeq(r, 1, n)) = Len(s) + n
         /\ \A i \in 1 .. Len(s) + n :
              (s \o SubSeq(r, 1, n))[i] = IF i <= Len(s) THEN s[i] ELSE r[i - Len(s)]
<1> USE DEF Inputs
<1>1. Len(s) \in Nat /\ Len(r) \in Nat
  BY LenProperties
<1>2. \A i \in 1 .. n : r[i] \in Keys \cup Buttons
  BY <1>1, ElementOfSeq
<1>3. PICK p : p = SubSeq(r, 1, n)
  OBVIOUS
<1>4. p \in Seq(Keys \cup Buttons) /\ Len(p) = n /\ \A i \in 1 .. n : p[i] = r[i]
  BY <1>2, <1>3, SubSeqProperties
<1>5. /\ s \o p \in Seq(Keys \cup Buttons) /\ Len(s \o p) = Len(s) + n
      /\ \A i \in 1 .. Len(s) + n : (s \o p)[i] = IF i <= Len(s) THEN s[i] ELSE p[i - Len(s)]
  BY <1>4, ConcatProperties
<1>6. \A i \in 1 .. Len(s) + n : (s \o p)[i] = IF i <= Len(s) THEN s[i] ELSE r[i - Len(s)]
  BY <1>1, <1>4, <1>5
<1> QED
  BY <1>1, <1>3, <1>5, <1>6

(* one input more,                                                         *)
LEMMA OneMore ==
  ASSUME NEW s \in Inputs, NEW r \in Inputs, NEW n \in Nat, n < Len(r)
  PROVE  /\ Append(s \o SubSeq(r, 1, n), r[n + 1]) = s \o SubSeq(r, 1, n + 1)
         /\ r[n + 1] \in Keys \cup Buttons
<1>1. Len(s) \in Nat /\ Len(r) \in Nat /\ r[n + 1] \in Keys \cup Buttons
  BY ElementOfSeq, LenProperties DEF Inputs
<1>2. PICK p : p = s \o SubSeq(r, 1, n)
  OBVIOUS
<1>3. PICK q : q = s \o SubSeq(r, 1, n + 1)
  OBVIOUS
<1>4. n + 1 \in Nat /\ n <= Len(r) /\ n + 1 <= Len(r)
  BY <1>1
<1>5. /\ p \in Inputs /\ Len(p) = Len(s) + n
      /\ \A i \in 1 .. Len(s) + n : p[i] = IF i <= Len(s) THEN s[i] ELSE r[i - Len(s)]
  BY <1>2, <1>4, Given
<1>6. /\ q \in Inputs /\ Len(q) = Len(s) + (n + 1)
      /\ \A i \in 1 .. Len(s) + (n + 1) : q[i] = IF i <= Len(s) THEN s[i] ELSE r[i - Len(s)]
  BY <1>3, <1>4, Given
<1>7. Append(p, r[n + 1]) = q
  <2>1. PICK a : a = Append(p, r[n + 1])
    OBVIOUS
  <2>2. a \in Inputs /\ Len(a) = Len(p) + 1
    BY <1>1, <1>5, <2>1, AppendInput
  <2>3. \A i \in 1 .. Len(p) : a[i] = p[i]
    BY <1>5, <2>1 DEF Inputs
  <2>4. a[Len(p) + 1] = r[n + 1]
    BY <1>5, <2>1 DEF Inputs
  <2>5. \A i \in 1 .. Len(a) : a[i] = q[i]
    BY <1>1, <1>5, <1>6, <2>2, <2>3, <2>4, SMTT(30)
  <2>6. Len(a) = Len(q)
    BY <1>1, <1>5, <1>6, <2>2
  <2> QED
    BY <1>6, <2>1, <2>2, <2>5, <2>6, SeqEqual DEF Inputs
<1> QED
  BY <1>1, <1>2, <1>3, <1>7

(* none yet,                                                               *)
LEMMA NoneYet ==
  ASSUME NEW s \in Inputs, NEW r \in Inputs
  PROVE  s \o SubSeq(r, 1, 0) = s
  BY SubSeqEmpty, ConcatEmptySeq DEF Inputs

(* Without a power cycle the rows are inputs, one after the other.         *)
LEMMA ReplayPlain ==
  ASSUME NEW f \in Files, NEW n \in Nat, n <= Len(f.rows),
         \A i \in 1 .. n : f.rows[i] # "power"
  PROVE  Replay(f, n) = f.start \o SubSeq(f.rows, 1, n)
<1> DEFINE P(i) == Replay(f, i) = f.start \o SubSeq(f.rows, 1, i)
           S == {i \in Nat : i <= n => P(i)}
<1>1. f.start \in Inputs /\ f.rows \in Inputs /\ Len(f.rows) \in Nat
  BY LenProperties DEF Files, Inputs
<1>2. P(0)
  BY <1>1, NoneYet, ReplayDef
<1>3. ASSUME NEW i \in Nat, i + 1 <= n, P(i) PROVE P(i + 1)
  <2>1. Replay(f, i + 1) = Append(Replay(f, i), f.rows[i + 1])
    <3>1. Replay(f, i + 1) = RowAfter(Replay(f, i), f.rows[i + 1])
      BY ReplayDef
    <3>2. f.rows[i + 1] # "power"
      BY <1>3
    <3> QED
      BY <3>1, <3>2 DEF RowAfter
  <2>2. i < Len(f.rows)
    BY <1>1, <1>3
  <2>3. Append(f.start \o SubSeq(f.rows, 1, i), f.rows[i + 1])
          = f.start \o SubSeq(f.rows, 1, i + 1)
    BY <1>1, <2>2, OneMore
  <2> QED
    BY <1>3, <2>1, <2>3
<1> HIDE DEF P
<1>4. 0 \in S /\ \A i \in S : i + 1 \in S
  BY <1>2, <1>3
<1>5. S = Nat
  BY <1>4, NatInd
<1>6. n \in S
  BY <1>5
<1>7. P(n)
  BY <1>6
<1> QED
  BY <1>7 DEF P

(* A row more of a file that is being recorded.                            *)
LEMMA RowMore ==
  ASSUME NEW f \in Files, NEW x \in Keys \cup Buttons, NEW g,
         g = [f EXCEPT !.rows = Append(@, x)]
  PROVE  /\ g \in Files /\ g.start = f.start /\ g.state = f.state
         /\ Len(f.rows) \in Nat /\ Len(g.rows) = Len(f.rows) + 1
         /\ g.rows[Len(g.rows)] = x
         /\ \A i \in 1 .. Len(f.rows) : g.rows[i] = f.rows[i]
         /\ Replay(g, Len(g.rows)) = RowAfter(Replay(f, Len(f.rows)), x)
<1>1. g \in Files /\ g.start = f.start /\ g.state = f.state /\ g.rows = Append(f.rows, x)
  BY RowAdded DEF Files
<1>2. /\ Len(f.rows) \in Nat /\ Len(g.rows) = Len(f.rows) + 1
      /\ g.rows[Len(g.rows)] = x
      /\ \A i \in 1 .. Len(f.rows) : g.rows[i] = f.rows[i]
  BY <1>1 DEF Files, Inputs
<1>3. PICK n \in Nat : n = Len(f.rows)
  BY <1>2
<1>4. Replay(f, n) = Replay(g, n)
  BY <1>1, <1>2, <1>3, ReplaySame
<1>5. Replay(g, n + 1) = RowAfter(Replay(g, n), g.rows[n + 1])
  BY ReplayDef
<1> QED
  BY <1>1, <1>2, <1>3, <1>4, <1>5

-----------------------------------------------------------------------------
(***************************************************************************)
(* What is recorded and what is played: the second layer of the invariant. *)
(***************************************************************************)
(* A file that was recorded from power on starts with the one input that  *)
(* is held then, and the poll after a reset is not a button.               *)
GoodFile(f) ==
  /\ f # NoFile /\ ~f.state => f.start = <<Boot>>
  /\ \A i \in 1 .. Len(f.rows) - 1 : f.rows[i] = "reset" => f.rows[i + 1] \in Keys

(* Every file there is.                                                    *)
FileInv == strays = {} => GoodFile(recording) /\ GoodFile(file) /\ GoodFile(movie.file)

(* The recording leads to where the machine is, or to a power cycle that   *)
(* is about to happen.                                                     *)
Continues ==
  LET all == Replay(recording, Len(recording.rows))
  IN  IF pc["emu"] = "power" THEN all = <<Boot>> ELSE machine = all

(* While a recording is made, no movie is there and the console records,    *)
(* but between a power cycle and its GameLoaded; a Stop by the shortcuts,  *)
(* after they loaded a state, will end it.                                 *)
RecordInv ==
  recording # NoFile =>
    /\ recorder \/ pc["ui"] = "setRecorder"
    /\ movie = NoMovie
    /\ strays = {} =>
         /\ pc["emu"] # "loaded" => recorded
         /\ pc["keys"] \in InStop => pc["ui"] # "setRecorder"
         /\ pc["keys"] # "drop"
         /\ pc["keys"] \notin InStop => Continues
         /\ \/ pc["emu"] = "reset" \/ recording.rows = <<>>
            \/ recording.rows[Len(recording.rows)] # "reset"

(* A movie gives the console its input, and nothing is about to end it.    *)
InPlay ==
  /\ movie.playing /\ provider /\ movie.controls = "current"
  /\ pc["emu"] # "power" /\ pc["keys"] \notin InStop

(* Then the machine was given its start and its rows so far, and no row    *)
(* was a power cycle.                                                      *)
Follows ==
  LET f == movie.file
  IN  /\ counter <= Len(f.rows) /\ machine = f.start \o SubSeq(f.rows, 1, counter)
      /\ \A i \in 1 .. counter : f.rows[i] # "power"
      /\ pc["emu"] = "reset" => counter > 0 /\ f.rows[counter] = "reset"

(* How a movie ends: it is not played any more when its player is gone.     *)
Ends ==
  /\ pc["emu"] = "loaded" => movie.controls # "current"
  /\ strays = {} => /\ \A t \in {"emu", "keys"} : pc[t] = "drop" => ~player
                    /\ pc["emu"] = "ended" => ~movie.playing

PlayInv == Ends /\ (strays = {} /\ InPlay => Follows)

Recorded == FileInv /\ RecordInv /\ PlayInv

(* The same is held at every power on.                                     *)
SameBoot == \A x, y \in BootKeys : x = y

LEMMA BootIs ==
  ASSUME SameBoot, NEW boot \in BootKeys
  PROVE  boot = Boot
<1>1. Boot \in BootKeys
  BY DEF Boot
<1> QED
  BY <1>1 DEF SameBoot

LEMMA ConsoleBoot ==
  ASSUME SameBoot, NewConsole
  PROVE  machine' = <<Boot>>
  BY BootIs DEF NewConsole

(* What went wrong stays.                                                  *)
LEMMA StraysGrow ==
  ASSUME [Next]_vars PROVE strays \subseteq strays'
  BY DEF Next, EmuStep, CallUI, UIStep, KeysStep, MovieManagerStop, vars,
         Frame, ResetPoll, MovieEnd, MovieEnded, Crash, PowerCycle, GameLoaded,
         StopTest, StopRestore, Restored, StopUnregister, StopClear, StopDrop,
         CallStop, CallMovie, CallLoadRom, LoadRom, Record, RecordState, SetRecorder,
         Play, PlayFails, SetPlayer, CallLoadState, LoadState, Called,
         console, playing, recordingVars, calls

(* A poll, by whoever: the row that a movie gives, and the row that is     *)
(* recorded.                                                               *)
LEMMA PollGives ==
  ASSUME Typed, NEW input \in Keys \cup Buttons, Poll(input)
  PROVE  /\ machine' = Append(machine, input) /\ counter' = counter + 1
         /\ movie'.controls = movie.controls
         /\ provider /\ movie.controls = "current"
              => counter < Len(movie.file.rows) /\ input = movie.file.rows[counter + 1]
         /\ recorded => recording' = [recording EXCEPT !.rows = Append(@, input)]
<1>1. CASE ~provider
  BY <1>1 DEF Poll
<1>2. CASE provider
  <2>1. PICK row \in RowIndex :
          /\ row < Len(Rows) /\ input = Rows[row + 1]
          /\ movie' = [movie EXCEPT !.last = row]
    BY <1>2 DEF Poll
  <2>2. movie'.controls = movie.controls
    BY <2>1 DEF Typed, Movie
  <2>3. movie.controls = "current" => row = counter
    BY <2>1 DEF RowIndex
  <2> QED
    BY <2>1, <2>2, <2>3 DEF Poll, Rows
<1> QED
  BY <1>1, <1>2

(* A recording that gets a row.                                            *)
LEMMA GoodMore ==
  ASSUME NEW f \in Files, f # NoFile, GoodFile(f), NEW x \in Keys \cup Buttons, NEW g,
         g = [f EXCEPT !.rows = Append(@, x)],
         x \in Keys \/ f.rows = <<>> \/ f.rows[Len(f.rows)] # "reset"
  PROVE  GoodFile(g)
<1>1. /\ g.start = f.start /\ g.state = f.state
      /\ Len(f.rows) \in Nat /\ Len(g.rows) = Len(f.rows) + 1
      /\ g.rows[Len(g.rows)] = x
      /\ \A i \in 1 .. Len(f.rows) : g.rows[i] = f.rows[i]
  BY RowMore
<1>2. ASSUME NEW i \in 1 .. Len(g.rows) - 1, g.rows[i] = "reset"
      PROVE  g.rows[i + 1] \in Keys
  <2>1. i \in 1 .. Len(f.rows) /\ f.rows[i] = "reset"
    BY <1>1, <1>2
  <2>2. CASE i < Len(f.rows)
    <3>1. i \in 1 .. Len(f.rows) - 1 /\ i + 1 \in 1 .. Len(f.rows)
      BY <1>1, <2>1, <2>2
    <3> QED
      BY <1>1, <2>1, <3>1 DEF GoodFile
  <2>3. CASE i = Len(f.rows)
    <3>1. f.rows # <<>>
      BY <1>1, <2>1, <2>3
    <3>2. x \in Keys /\ g.rows[i + 1] = x
      BY <1>1, <2>1, <2>3, <3>1
    <3> QED
      BY <3>2
  <2> QED
    BY <1>1, <2>1, <2>2, <2>3
<1> QED
  BY <1>1, <1>2 DEF GoodFile

LEMMA GoodNone == GoodFile(NoFile) /\ NoMovie.file = NoFile
  BY DEF GoodFile, NoFile, NoMovie

(* The files: what is written was recorded, what is played was written.    *)
LEMMA FileStep ==
  ASSUME SameBoot, MovieInv, Recorded, [Next]_vars
  PROVE  FileInv'
<1> SUFFICES ASSUME strays' = {}
             PROVE  GoodFile(recording') /\ GoodFile(file') /\ GoodFile(movie'.file)
  BY DEF FileInv
<1> DEFINE Good == GoodFile(recording') /\ GoodFile(file') /\ GoodFile(movie'.file)
<1>a. strays = {}
  BY StraysGrow
<1>b. GoodFile(recording) /\ GoodFile(file) /\ GoodFile(movie.file)
  BY <1>a DEF Recorded, FileInv
<1> USE <1>a, <1>b DEF MovieInv, Typed, console, playing, recordingVars, calls
<1>1. CASE Frame
  <2>1. PICK input \in Keys \cup Buttons : Poll(input) /\ pc["emu"] = "frame"
    BY <1>1 DEF Frame
  <2>2. movie'.file = movie.file /\ UNCHANGED file
    BY <1>1, <2>1, PollTyped DEF Frame
  <2>3. CASE recorded
    <3>1. recording # NoFile /\ recording \in Files
      BY <2>3 DEF Existence
    <3>2. recording' = [recording EXCEPT !.rows = Append(@, input)]
      BY <2>1, <2>3, PollGives
    <3>3. input \in Keys \/ recording.rows = <<>> \/ recording.rows[Len(recording.rows)] # "reset"
      BY <2>1, <3>1 DEF Recorded, RecordInv, Existence
    <3>4. GoodFile(recording')
      BY <3>1, <3>2, <3>3, GoodMore
    <3> QED
      BY <2>2, <3>4
  <2>4. CASE ~recorded
    BY <2>1, <2>2, <2>4, PollTyped
  <2> QED
    BY <2>3, <2>4
<1>2. CASE ResetPoll
  <2>1. PICK input \in Keys \cup Buttons : Poll(input) /\ (input \in Keys \/ provider)
    BY <1>2 DEF ResetPoll
  <2>2. movie'.file = movie.file /\ UNCHANGED file
    BY <1>2, <2>1, PollTyped DEF ResetPoll
  <2>3. CASE recorded
    <3>1. recording # NoFile /\ recording \in Files
      BY <2>3 DEF Existence
    <3>2. recording' = [recording EXCEPT !.rows = Append(@, input)]
      BY <2>1, <2>3, PollGives
    <3>3. input \in Keys \/ recording.rows = <<>> \/ recording.rows[Len(recording.rows)] # "reset"
      BY <2>1, <3>1 DEF Recorded, RecordInv, Existence
    <3>4. GoodFile(recording')
      BY <3>1, <3>2, <3>3, GoodMore
    <3> QED
      BY <2>2, <3>4
  <2>4. CASE ~recorded
    BY <2>1, <2>2, <2>4, PollTyped
  <2> QED
    BY <2>3, <2>4
<1>3. CASE MovieEnd
  <2>1. movie'.file = movie.file
    BY <1>3 DEF MovieEnd, Movie
  <2> QED
    BY <1>3, <2>1 DEF MovieEnd
<1>4. CASE MovieEnded
  <2>1. PICK input \in Keys :
          recording' = IF recorded THEN [recording EXCEPT !.rows = Append(@, input)]
                                   ELSE recording
    BY <1>4 DEF MovieEnded
  <2>2. UNCHANGED <<file, movie>>
    BY <1>4 DEF MovieEnded
  <2>3. recorded => recording # NoFile /\ recording \in Files
    BY DEF Existence
  <2>4. GoodFile(recording')
    BY <2>1, <2>3, GoodMore
  <2> QED
    BY <2>2, <2>4
<1>5. CASE Crash
  BY <1>5 DEF Crash
<1>6. CASE PowerCycle
  <2>1. movie'.file = movie.file /\ UNCHANGED <<recording, file>>
    BY <1>6, MovieChanges DEF PowerCycle
  <2> QED
    BY <2>1
<1>7. CASE GameLoaded
  BY <1>7 DEF GameLoaded
<1>8. ASSUME NEW t \in Threads, StopTest(t) PROVE Good
  BY <1>8 DEF StopTest
<1>9. ASSUME NEW t \in Threads, StopRestore(t) PROVE Good
  <2>1. movie'.file = movie.file /\ UNCHANGED <<recording, file>>
    BY <1>9, RestoredTyped DEF StopRestore
  <2> QED
    BY <2>1
<1>10. ASSUME NEW t \in Threads, StopUnregister(t) PROVE Good
  <2>1. movie'.file = movie.file /\ UNCHANGED <<recording, file>>
    BY <1>10, MovieChanges DEF StopUnregister
  <2> QED
    BY <2>1
<1>11. ASSUME NEW t \in Threads, StopClear(t) PROVE Good
  BY <1>11, GoodNone DEF StopClear
<1>12. ASSUME NEW t \in Threads, StopDrop(t) PROVE Good
  BY <1>12, GoodNone DEF StopDrop
<1>13. CASE CallStop
  BY <1>13 DEF CallStop, Called
<1>14. CASE CallMovie
  BY <1>14 DEF CallMovie, Called
<1>15. CASE CallLoadRom
  BY <1>15 DEF CallLoadRom, Called
<1>16. CASE LoadRom
  BY <1>16 DEF LoadRom
<1>17. CASE Record
  <2>1. movie'.file = movie.file /\ UNCHANGED file
    BY <1>17, MovieChanges DEF Record
  <2>2. machine' = <<Boot>>
    BY <1>17, ConsoleBoot DEF Record
  <2>3. recording'.start = <<Boot>> /\ recording'.rows = <<>>
    BY <1>17, <2>2 DEF Record, NewFile
  <2>4. GoodFile(recording')
    BY <2>3 DEF GoodFile
  <2> QED
    BY <2>1, <2>4
<1>18. CASE RecordState
  <2>1. UNCHANGED <<movie, file>>
    BY <1>18 DEF RecordState
  <2>2. recording'.state /\ recording'.rows = <<>>
    BY <1>18 DEF RecordState, NewFile
  <2>3. GoodFile(recording')
    BY <2>2 DEF GoodFile
  <2> QED
    BY <2>1, <2>3
<1>19. CASE SetRecorder
  BY <1>19 DEF SetRecorder
<1>20. CASE Play
  <2>1. movie'.file = file /\ UNCHANGED <<recording, file>>
    BY <1>20 DEF Play
  <2> QED
    BY <2>1
<1>21. CASE PlayFails
  BY <1>21, GoodNone DEF PlayFails
<1>22. CASE SetPlayer
  BY <1>22 DEF SetPlayer
<1>23. CASE CallLoadState
  BY <1>23 DEF CallLoadState, Called
<1>24. CASE LoadState
  BY <1>24 DEF LoadState
<1>25. CASE UNCHANGED vars
  BY <1>25 DEF vars
<1>26. QED
  BY <1>1, <1>2, <1>3, <1>4, <1>5, <1>6, <1>7, <1>8, <1>9, <1>10,
     <1>11, <1>12, <1>13, <1>14, <1>15, <1>16, <1>17, <1>18, <1>19,
     <1>20, <1>21, <1>22, <1>23, <1>24, <1>25
  DEF Next, EmuStep, CallUI, UIStep, KeysStep, MovieManagerStop, Threads

(* The recording, with whoever begins it, ends it or takes the machine     *)
(* elsewhere.                                                              *)
LEMMA RecordStep ==
  ASSUME SameBoot, MovieInv, Recorded, [Next]_vars
  PROVE  RecordInv'
<1> SUFFICES ASSUME recording' # NoFile PROVE RecordInv'
  BY DEF RecordInv
<1>a. strays' = {} => strays = {}
  BY StraysGrow
<1> USE <1>a DEF MovieInv, Control, Existence, Recorded, RecordInv, Continues, Threads,
            Goto, InStop, PastTest, Between, UICalls, Steps, Buttons, console, playing,
            recordingVars, calls, RunLockFree
<1>1. CASE Frame
  <2>1. PICK input \in Keys \cup Buttons :
          /\ Poll(input)
          /\ pc["emu"] = "frame" /\ owner = "none"
          /\ Goto("emu", IF input \in Buttons THEN input ELSE "frame")
    BY <1>1 DEF Frame
  <2>2. recording # NoFile /\ movie' = movie
    <3>1. CASE recorded
      BY <3>1, <2>1, PollTyped
    <3>2. CASE ~recorded
      BY <3>2, <2>1, PollTyped
    <3> QED
      BY <3>1, <3>2 DEF Typed
  <2>3. /\ movie' = NoMovie /\ ~provider
        /\ UNCHANGED <<recorder, recorded, strays, pc["ui"], pc["keys"]>>
    BY <1>1, <2>2 DEF Frame
  <2>4. CASE strays = {}
    <3>1. recorded
      BY <2>1, <2>2, <2>4
    <3>2. recording' = [recording EXCEPT !.rows = Append(@, input)]
      BY <2>1, <3>1, PollGives
    <3>3. /\ Len(recording'.rows) = Len(recording.rows) + 1 /\ Len(recording.rows) \in Nat
          /\ recording'.rows[Len(recording'.rows)] = input
          /\ Replay(recording', Len(recording'.rows))
               = RowAfter(Replay(recording, Len(recording.rows)), input)
      <4> recording \in Files
        BY DEF Typed
      <4> HIDE DEF Buttons
      <4> QED
        BY <2>1, <3>2, RowMore
    <3>4. machine' = Append(machine, input)
      BY <2>1, PollGives
    <3>5. pc["keys"] \notin InStop => Continues'
      BY <2>1, <2>2, <2>3, <2>4, <3>3, <3>4, ConstantsAssumption DEF RowAfter
    <3>6. pc'["emu"] = "reset" \/ recording'.rows[Len(recording'.rows)] # "reset"
      BY <2>1, <2>3, <3>3, ConstantsAssumption
    <3>7. pc'["emu"] # "loaded" => recorded'
      BY <2>3, <3>1
    <3>8. pc'["keys"] # "drop" /\ (pc'["keys"] \in InStop => pc'["ui"] # "setRecorder")
      BY <2>2, <2>3, <2>4
    <3>9. recorder' \/ pc'["ui"] = "setRecorder"
      BY <2>2, <2>3
    <3>10. pc'["keys"] \notin InStop => Continues'
      BY <2>3, <3>5
    <3> HIDE DEF Continues
    <3> QED
      BY <2>3, <3>6, <3>7, <3>8, <3>9, <3>10
  <2>5. CASE strays # {}
    BY <2>2, <2>3, <2>5
  <2> QED
    BY <2>4, <2>5
<1>2. CASE ResetPoll
  <2>1. PICK input \in Keys \cup Buttons :
          /\ Poll(input)
          /\ pc["emu"] = "reset" /\ (input \in Keys \/ provider)
          /\ Goto("emu", "frame")
    BY <1>2 DEF ResetPoll
  <2>2. recording # NoFile /\ movie' = movie
    <3>1. CASE recorded
      BY <3>1, <2>1, PollTyped
    <3>2. CASE ~recorded
      BY <3>2, <2>1, PollTyped
    <3> QED
      BY <3>1, <3>2 DEF Typed
  <2>3. /\ movie' = NoMovie /\ ~provider
        /\ UNCHANGED <<recorder, recorded, strays, pc["ui"], pc["keys"]>>
    BY <1>2, <2>2 DEF ResetPoll
  <2>4. CASE strays = {}
    <3>1. recorded
      BY <2>1, <2>2, <2>4
    <3>2. recording' = [recording EXCEPT !.rows = Append(@, input)]
      BY <2>1, <3>1, PollGives
    <3>3. /\ Len(recording'.rows) = Len(recording.rows) + 1 /\ Len(recording.rows) \in Nat
          /\ recording'.rows[Len(recording'.rows)] = input
          /\ Replay(recording', Len(recording'.rows))
               = RowAfter(Replay(recording, Len(recording.rows)), input)
      <4> recording \in Files
        BY DEF Typed
      <4> HIDE DEF Buttons
      <4> QED
        BY <2>1, <3>2, RowMore
    <3>4. machine' = Append(machine, input)
      BY <2>1, PollGives
    <3>5. pc["keys"] \notin InStop => Continues'
      BY <2>1, <2>2, <2>3, <2>4, <3>3, <3>4, ConstantsAssumption DEF RowAfter
    <3>6. pc'["emu"] = "reset" \/ recording'.rows[Len(recording'.rows)] # "reset"
      BY <2>1, <2>3, <3>3, ConstantsAssumption
    <3>7. pc'["emu"] # "loaded" => recorded'
      BY <2>3, <3>1
    <3>8. pc'["keys"] # "drop" /\ (pc'["keys"] \in InStop => pc'["ui"] # "setRecorder")
      BY <2>2, <2>3, <2>4
    <3>9. recorder' \/ pc'["ui"] = "setRecorder"
      BY <2>2, <2>3
    <3>10. pc'["keys"] \notin InStop => Continues'
      BY <2>3, <3>5
    <3> HIDE DEF Continues
    <3> QED
      BY <2>3, <3>6, <3>7, <3>8, <3>9, <3>10
  <2>5. CASE strays # {}
    BY <2>2, <2>3, <2>5
  <2> QED
    BY <2>4, <2>5
<1>3. CASE MovieEnd
  BY <1>3 DEF MovieEnd
<1>4. CASE MovieEnded
  <2>1. PICK input \in Keys :
          /\ machine' = Append(machine, input)
          /\ recording' = IF recorded THEN [recording EXCEPT !.rows = Append(@, input)]
                                      ELSE recording
    BY <1>4 DEF MovieEnded
  <2>2. /\ pc["emu"] = "ended" /\ Goto("emu", "frame")
        /\ UNCHANGED <<movie, recorder, recorded, strays>>
    BY <1>4 DEF MovieEnded
  <2>3. recording # NoFile
    BY <2>1
  <2>4. CASE strays = {}
    <3>1. recorded
      BY <2>2, <2>3, <2>4
    <3>2. /\ Len(recording'.rows) = Len(recording.rows) + 1 /\ Len(recording.rows) \in Nat
          /\ recording'.rows[Len(recording'.rows)] = input
          /\ Replay(recording', Len(recording'.rows))
               = RowAfter(Replay(recording, Len(recording.rows)), input)
      BY <2>1, <3>1, RowMore DEF Typed
    <3>3. input \notin Buttons
      BY ConstantsAssumption
    <3>4. pc["keys"] \notin InStop => Continues'
      BY <2>1, <2>2, <2>3, <2>4, <3>2, <3>3 DEF RowAfter
    <3>5. recording'.rows[Len(recording'.rows)] # "reset"
      BY <3>2, <3>3
    <3>6. pc'["keys"] # "drop" /\ (pc'["keys"] \in InStop => pc'["ui"] # "setRecorder")
      BY <2>2, <2>3, <2>4
    <3>7. pc'["keys"] \notin InStop => Continues'
      BY <2>2, <3>4
    <3> HIDE DEF Continues
    <3> QED
      BY <2>2, <2>3, <3>1, <3>5, <3>6, <3>7
  <2>5. CASE strays # {}
    BY <2>2, <2>3, <2>5
  <2> QED
    BY <2>4, <2>5
<1>5. CASE Crash
  BY <1>5 DEF Crash
<1>6. CASE PowerCycle
  <2>1. /\ pc["emu"] = "power" /\ UNCHANGED <<recording, recorder, pc["ui"], pc["keys"]>>
        /\ movie' \in {movie, Orphaned(movie)} /\ pc'["emu"] \in {"loaded", "frame"}
    BY <1>6 DEF PowerCycle, Typed
  <2>2. movie' = NoMovie
    BY <2>1 DEF Orphaned, NoMovie
  <2>3. ASSUME strays' = {} PROVE NewConsole /\ pc'["emu"] = "loaded"
    BY <1>6, <2>3 DEF PowerCycle
  <2>4. ASSUME strays' = {}, pc["keys"] \notin InStop PROVE Continues'
    <3>1. machine' = <<Boot>>
      BY <2>3, <2>4, ConsoleBoot
    <3> QED
      BY <2>1, <2>3, <2>4, <3>1
  <2>5. recording # NoFile
    BY <2>1
  <2>6. pc'["keys"] # "drop" \/ strays' # {}
    BY <2>1, <2>5
  <2>7. strays' = {} => pc'["keys"] \notin InStop \/ pc'["ui"] # "setRecorder"
    BY <2>1, <2>5
  <2>8. strays' = {} /\ pc'["keys"] \notin InStop => Continues'
    BY <2>1, <2>4
  <2>9. strays' = {} => recording'.rows = <<>> \/ recording'.rows[Len(recording'.rows)] # "reset"
    BY <2>1, <2>5
  <2> HIDE DEF Continues
  <2> QED
    BY <2>1, <2>2, <2>3, <2>5, <2>6, <2>7, <2>8, <2>9
<1>7. CASE GameLoaded
  BY <1>7 DEF GameLoaded
<1>8. ASSUME NEW t \in Threads, StopTest(t) PROVE RecordInv'
  BY <1>8 DEF StopTest, Unannounced
<1>9. ASSUME NEW t \in Threads, StopRestore(t) PROVE RecordInv'
  BY <1>9 DEF StopRestore
<1>10. ASSUME NEW t \in Threads, StopUnregister(t) PROVE RecordInv'
  BY <1>10 DEF StopUnregister
<1>11. ASSUME NEW t \in Threads, StopClear(t) PROVE RecordInv'
  BY <1>11 DEF StopClear
<1>12. ASSUME NEW t \in Threads, StopDrop(t) PROVE RecordInv'
  BY <1>12 DEF StopDrop, AfterStop
<1>13. CASE CallStop
  BY <1>13 DEF CallStop, Called
<1>14. CASE CallMovie
  BY <1>14 DEF CallMovie, Called
<1>15. CASE CallLoadRom
  BY <1>15 DEF CallLoadRom, Called
<1>16. CASE LoadRom
  <2>1. pc["ui"] = "loadRom" /\ UNCHANGED recording
    BY <1>16 DEF LoadRom
  <2> QED
    BY <2>1
<1>17. CASE Record
  <2>1. /\ pc["ui"] = "record" /\ pc["emu"] = "frame" /\ owner = "none"
        /\ Goto("ui", "setRecorder") /\ recording' = NewFile(FALSE)
        /\ movie' \in {movie, Orphaned(movie)}
    BY <1>17 DEF Record
  <2>2. movie = NoMovie
    BY <2>1
  <2>3. movie' = NoMovie
    BY <2>1, <2>2 DEF Orphaned, NoMovie
  <2>4. strays' = {} => recorded'
    BY <1>17 DEF Record
  <2>5. recording'.start = machine' /\ recording'.rows = <<>> /\ Len(<<>>) = 0
    BY <2>1 DEF NewFile
  <2>6. Replay(recording', 0) = machine'
    BY <2>5, ReplayDef
  <2> QED
    BY <2>1, <2>3, <2>4, <2>5, <2>6
<1>18. CASE RecordState
  <2>1. /\ pc["ui"] = "recordState" /\ pc["emu"] = "frame" /\ owner = "none"
        /\ Goto("ui", "setRecorder") /\ recording' = NewFile(TRUE)
        /\ movie' = movie /\ recorded'
    BY <1>18 DEF RecordState
  <2>2. movie = NoMovie
    BY <2>1
  <2>4. recording'.start = machine' /\ recording'.rows = <<>> /\ Len(<<>>) = 0
    BY <2>1 DEF NewFile
  <2>5. Replay(recording', 0) = machine'
    BY <2>4, ReplayDef
  <2> QED
    BY <2>1, <2>2, <2>4, <2>5
<1>19. CASE SetRecorder
  BY <1>19 DEF SetRecorder
<1>20. CASE Play
  <2>1. pc["ui"] = "play" /\ UNCHANGED recording
    BY <1>20 DEF Play
  <2> QED
    BY <2>1
<1>21. CASE PlayFails
  <2>1. pc["ui"] = "play" /\ UNCHANGED recording
    BY <1>21 DEF PlayFails
  <2> QED
    BY <2>1
<1>22. CASE SetPlayer
  BY <1>22 DEF SetPlayer
<1>23. CASE CallLoadState
  BY <1>23 DEF CallLoadState, Called
<1>24. CASE LoadState
  BY <1>24 DEF LoadState, Unannounced
<1>25. CASE UNCHANGED vars
  BY <1>25 DEF vars
<1>26. QED
  BY <1>1, <1>2, <1>3, <1>4, <1>5, <1>6, <1>7, <1>8, <1>9, <1>10,
     <1>11, <1>12, <1>13, <1>14, <1>15, <1>16, <1>17, <1>18, <1>19,
     <1>20, <1>21, <1>22, <1>23, <1>24, <1>25
  DEF Next, EmuStep, CallUI, UIStep, KeysStep, MovieManagerStop, Threads

(* How a movie ends, on any thread.                                        *)
LEMMA EndsStep ==
  ASSUME MovieInv, Recorded, [Next]_vars
  PROVE  Ends'
<1>a. strays' = {} => strays = {}
  BY StraysGrow
<1> USE <1>a DEF MovieInv, Control, Existence, Restoring, Recorded, PlayInv, Ends, Threads,
            Goto, InStop, PastTest, Between, UICalls, Steps, Buttons, console, playing,
            recordingVars, calls, RunLockFree
<1>1. CASE Frame
  <2>1. PICK input \in Keys \cup Buttons : Poll(input)
    BY <1>1 DEF Frame
  <2>2. movie'.controls = movie.controls /\ movie'.playing = movie.playing
    BY <2>1, PollTyped, PollGives
  <2>3. /\ pc'["emu"] \in Buttons \cup {"frame"}
        /\ UNCHANGED <<player, strays, pc["ui"], pc["keys"]>>
    BY <1>1 DEF Frame
  <2> QED
    BY <2>2, <2>3
<1>2. CASE ResetPoll
  <2>1. PICK input \in Keys \cup Buttons : Poll(input)
    BY <1>2 DEF ResetPoll
  <2>2. movie'.controls = movie.controls /\ movie'.playing = movie.playing
    BY <2>1, PollTyped, PollGives
  <2>3. /\ pc'["emu"] \in Buttons \cup {"frame"}
        /\ UNCHANGED <<player, strays, pc["ui"], pc["keys"]>>
    BY <1>2 DEF ResetPoll
  <2> QED
    BY <2>2, <2>3
<1>3. CASE MovieEnd
  <2>1. movie'.controls = movie.controls /\ movie'.playing = movie.playing
    BY <1>3 DEF MovieEnd, Typed, Movie
  <2> QED
    BY <1>3, <2>1 DEF MovieEnd
<1>4. CASE MovieEnded
  BY <1>4 DEF MovieEnded
<1>5. CASE Crash
  BY <1>5 DEF Crash
<1>6. CASE PowerCycle
  <2>1. /\ pc["emu"] = "power" /\ UNCHANGED <<player, pc["ui"], pc["keys"]>>
        /\ pc'["emu"] = "frame" \/ (pc'["emu"] = "loaded" /\ movie' = Orphaned(movie))
    BY <1>6 DEF PowerCycle
  <2>2. Orphaned(movie).controls # "current"
    BY DEF Orphaned, Typed, Movie
  <2> QED
    BY <2>1, <2>2
<1>7. CASE GameLoaded
  BY <1>7 DEF GameLoaded
<1>8. ASSUME NEW t \in Threads, StopTest(t) PROVE Ends'
  BY <1>8 DEF StopTest, Unannounced
<1>9. ASSUME NEW t \in Threads, StopRestore(t) PROVE Ends'
  <2>1. movie'.controls = movie.controls /\ pc'[t] = "unregister"
        /\ UNCHANGED player /\ \A u \in Threads \ {t} : pc'[u] = pc[u]
    BY <1>9 DEF StopRestore, Restored, Typed, Movie
  <2>2. movie'.playing = FALSE
    BY <1>9, Zenon DEF StopRestore, Restored, Typed, Movie
  <2> QED
    BY <2>1, <2>2
<1>10. ASSUME NEW t \in Threads, StopUnregister(t) PROVE Ends'
  <2>1. movie'.controls = "none" /\ movie'.playing = movie.playing /\ pc'[t] = "clear"
        /\ UNCHANGED player /\ \A u \in Threads \ {t} : pc'[u] = pc[u]
    BY <1>10 DEF StopUnregister, Typed, Movie
  <2> QED
    BY <2>1
<1>11. ASSUME NEW t \in Threads, StopClear(t) PROVE Ends'
  <2>1. movie' = NoMovie \/ movie' = movie
    BY <1>11 DEF StopClear
  <2>2. NoMovie.controls # "current" /\ ~NoMovie.playing
    BY DEF NoMovie
  <2>3. pc'[t] = "drop" /\ ~player' /\ \A u \in Threads \ {t} : pc'[u] = pc[u]
    BY <1>11 DEF StopClear
  <2>4. ~movie.playing => ~movie'.playing
    BY <2>1, <2>2
  <2>5. movie.controls # "current" => movie'.controls # "current"
    BY <2>1, <2>2
  <2> QED
    BY <2>3, <2>4, <2>5
<1>12. ASSUME NEW t \in Threads, StopDrop(t) PROVE Ends'
  <2>1. movie' = NoMovie \/ movie' = movie
    BY <1>12 DEF StopDrop
  <2>2. NoMovie.controls # "current" /\ ~NoMovie.playing
    BY DEF NoMovie
  <2>3. /\ pc[t] = "drop" /\ UNCHANGED <<player, strays>>
        /\ pc'[t] \in UICalls \cup {"ended", "idle"}
        /\ \A u \in Threads \ {t} : pc'[u] = pc[u]
    BY <1>12 DEF StopDrop, AfterStop
  <2>4. strays' = {} => ~movie.playing
    BY <2>3
  <2>5. strays' = {} => ~movie'.playing
    BY <2>1, <2>2, <2>4
  <2>6. movie.controls # "current" => movie'.controls # "current"
    BY <2>1, <2>2
  <2> QED
    BY <2>3, <2>5, <2>6
<1>13. CASE CallStop
  BY <1>13 DEF CallStop, Called
<1>14. CASE CallMovie
  BY <1>14 DEF CallMovie, Called
<1>15. CASE CallLoadRom
  BY <1>15 DEF CallLoadRom, Called
<1>16. CASE LoadRom
  BY <1>16 DEF LoadRom
<1>17. CASE Record
  <2>1. pc["emu"] = "frame" /\ Goto("ui", "setRecorder") /\ UNCHANGED player
    BY <1>17 DEF Record
  <2> QED
    BY <2>1
<1>18. CASE RecordState
  BY <1>18 DEF RecordState
<1>19. CASE SetRecorder
  BY <1>19 DEF SetRecorder
<1>20. CASE Play
  <2>1. pc["emu"] = "frame" /\ Goto("ui", "setPlayer") /\ UNCHANGED player
    BY <1>20 DEF Play
  <2> QED
    BY <2>1
<1>21. CASE PlayFails
  BY <1>21 DEF PlayFails
<1>22. CASE SetPlayer
  BY <1>22 DEF SetPlayer
<1>23. CASE CallLoadState
  BY <1>23 DEF CallLoadState, Called
<1>24. CASE LoadState
  BY <1>24 DEF LoadState, Unannounced
<1>25. CASE UNCHANGED vars
  BY <1>25 DEF vars
<1>26. QED
  BY <1>1, <1>2, <1>3, <1>4, <1>5, <1>6, <1>7, <1>8, <1>9, <1>10,
     <1>11, <1>12, <1>13, <1>14, <1>15, <1>16, <1>17, <1>18, <1>19,
     <1>20, <1>21, <1>22, <1>23, <1>24, <1>25
  DEF Next, EmuStep, CallUI, UIStep, KeysStep, MovieManagerStop, Threads

(* What a movie plays, until it ends or somebody takes the machine         *)
(* elsewhere.                                                              *)
LEMMA FollowsStep ==
  ASSUME SameBoot, MovieInv, Recorded, [Next]_vars, strays' = {}, InPlay'
  PROVE  Follows'
<1>a. strays = {}
  BY StraysGrow
<1>b. movie.file \in Files /\ GoodFile(movie.file) /\ (InPlay => Follows)
  BY <1>a DEF MovieInv, Typed, Movie, Recorded, FileInv, PlayInv
<1> USE <1>a, <1>b DEF MovieInv, Control, Threads, Goto, InStop, PastTest, Between,
            UICalls, Steps, console, playing, recordingVars, calls, RunLockFree
<1>1. CASE Frame
  <2>1. PICK input \in Keys \cup Buttons :
          Poll(input) /\ Goto("emu", IF input \in Buttons THEN input ELSE "frame")
    BY <1>1 DEF Frame
  <2>2. /\ pc["emu"] = "frame" /\ owner = "none" /\ provider
        /\ pc'["emu"] # "power" /\ pc["keys"] \notin InStop
    BY <1>1 DEF Frame, InPlay
  <2>3. /\ movie'.file = movie.file /\ movie'.playing = movie.playing
        /\ movie'.controls = movie.controls
    BY <2>1, PollTyped, PollGives
  <2>4. InPlay /\ movie.controls = "current"
    BY <2>2, <2>3 DEF InPlay
  <2>5. PICK f \in Files : f = movie.file
    OBVIOUS
  <2>6. /\ counter \in Nat /\ counter < Len(f.rows) /\ input = f.rows[counter + 1]
        /\ machine' = Append(machine, input) /\ counter' = counter + 1
    BY <2>1, <2>2, <2>4, <2>5, PollGives DEF Typed
  <2>7. /\ machine = f.start \o SubSeq(f.rows, 1, counter)
        /\ \A i \in 1 .. counter : f.rows[i] # "power"
    BY <2>4, <2>5 DEF Follows
  <2>8. machine' = f.start \o SubSeq(f.rows, 1, counter') /\ counter' <= Len(f.rows)
    <3>1. f.start \in Inputs /\ f.rows \in Inputs /\ Len(f.rows) \in Nat
      BY LenProperties DEF Files, Inputs
    <3>2. Append(f.start \o SubSeq(f.rows, 1, counter), f.rows[counter + 1])
            = f.start \o SubSeq(f.rows, 1, counter + 1)
      BY <2>6, <3>1, OneMore
    <3>3. counter' <= Len(f.rows)
      BY <2>6, <3>1
    <3> QED
      BY <2>6, <2>7, <3>2, <3>3
  <2>9. input # "power" /\ (pc'["emu"] = "reset" => input = "reset")
    BY <2>1, <2>2 DEF Buttons
  <2>10. \A i \in 1 .. counter' : f.rows[i] # "power"
    BY <2>6, <2>7, <2>9
  <2>11. pc'["emu"] = "reset" => counter' > 0 /\ f.rows[counter'] = "reset"
    BY <2>2, <2>6, <2>9
  <2> QED
    BY <2>2, <2>3, <2>5, <2>7, <2>8, <2>10, <2>11 DEF Follows
<1>2. CASE ResetPoll
  <2>1. PICK input \in Keys \cup Buttons : Poll(input)
    BY <1>2 DEF ResetPoll
  <2>2. /\ pc["emu"] = "reset" /\ owner = "none" /\ provider
        /\ pc'["emu"] # "power" /\ pc["keys"] \notin InStop
        /\ pc'["emu"] = "frame"
    BY <1>2 DEF ResetPoll, InPlay, Buttons
  <2>3. /\ movie'.file = movie.file /\ movie'.playing = movie.playing
        /\ movie'.controls = movie.controls
    BY <2>1, PollTyped, PollGives
  <2>4. InPlay /\ movie.controls = "current"
    BY <2>2, <2>3 DEF InPlay
  <2>5. PICK f \in Files : f = movie.file
    OBVIOUS
  <2>6. /\ counter \in Nat /\ counter < Len(f.rows) /\ input = f.rows[counter + 1]
        /\ machine' = Append(machine, input) /\ counter' = counter + 1
    BY <2>1, <2>2, <2>4, <2>5, PollGives DEF Typed
  <2>7. /\ machine = f.start \o SubSeq(f.rows, 1, counter)
        /\ \A i \in 1 .. counter : f.rows[i] # "power"
    BY <2>4, <2>5 DEF Follows
  <2>8. machine' = f.start \o SubSeq(f.rows, 1, counter') /\ counter' <= Len(f.rows)
    <3>1. f.start \in Inputs /\ f.rows \in Inputs /\ Len(f.rows) \in Nat
      BY LenProperties DEF Files, Inputs
    <3>2. Append(f.start \o SubSeq(f.rows, 1, counter), f.rows[counter + 1])
            = f.start \o SubSeq(f.rows, 1, counter + 1)
      BY <2>6, <3>1, OneMore
    <3>3. counter' <= Len(f.rows)
      BY <2>6, <3>1
    <3> QED
      BY <2>6, <2>7, <3>2, <3>3
  <2>9. input # "power"
    <3>1. counter > 0 /\ f.rows[counter] = "reset"
      BY <2>2, <2>4, <2>5 DEF Follows
    <3>2. Len(f.rows) \in Nat
      BY LenProperties DEF Files, Inputs
    <3>3. counter \in 1 .. Len(f.rows) - 1
      BY <2>6, <3>1, <3>2
    <3>4. f.rows[counter + 1] \in Keys
      BY <2>5, <3>1, <3>3 DEF GoodFile
    <3> QED
      BY <2>6, <3>4, ConstantsAssumption DEF Buttons
  <2>10. \A i \in 1 .. counter' : f.rows[i] # "power"
    BY <2>6, <2>7, <2>9
  <2>11. pc'["emu"] = "reset" => counter' > 0 /\ f.rows[counter'] = "reset"
    BY <2>2, <2>6, <2>9
  <2> QED
    BY <2>2, <2>3, <2>5, <2>7, <2>8, <2>10, <2>11 DEF Follows
<1>3. CASE MovieEnd
  <2>1. /\ movie'.file = movie.file /\ movie'.playing = movie.playing
        /\ movie'.controls = movie.controls
    BY <1>3 DEF MovieEnd, Typed, Movie
  <2>2. /\ pc["emu"] \in {"frame", "reset"} /\ pc'["emu"] = "test"
        /\ UNCHANGED <<machine, counter, provider, pc["keys"]>>
    BY <1>3 DEF MovieEnd
  <2>3. InPlay
    BY <2>1, <2>2 DEF InPlay
  <2> QED
    BY <2>1, <2>2, <2>3 DEF Follows
<1>4. CASE MovieEnded
  <2>1. pc["emu"] = "ended" /\ UNCHANGED movie
    BY <1>4 DEF MovieEnded
  <2> QED
    BY <2>1 DEF InPlay, Recorded, PlayInv, Ends
<1>5. CASE Crash
  BY <1>5 DEF Crash
<1>6. CASE PowerCycle
  BY <1>6 DEF PowerCycle, InPlay
<1>7. CASE GameLoaded
  <2>1. pc["emu"] = "loaded" /\ UNCHANGED movie
    BY <1>7 DEF GameLoaded
  <2> QED
    BY <2>1 DEF InPlay, Recorded, PlayInv, Ends
<1>8. ASSUME NEW t \in Threads, StopTest(t) PROVE Follows'
  BY <1>8 DEF InPlay, Follows, StopTest
<1>9. ASSUME NEW t \in Threads, StopRestore(t) PROVE Follows'
  <2>1. movie'.playing = FALSE
    BY <1>9, Zenon DEF StopRestore, Restored, Typed, Movie
  <2> QED
    BY <2>1 DEF InPlay
<1>10. ASSUME NEW t \in Threads, StopUnregister(t) PROVE Follows'
  BY <1>10 DEF StopUnregister, InPlay
<1>11. ASSUME NEW t \in Threads, StopClear(t) PROVE Follows'
  <2>1. ~NoMovie.playing
    BY NothingTyped
  <2>2. UNCHANGED movie /\ UNCHANGED provider
    BY <1>11, <2>1 DEF StopClear, InPlay
  <2>3. UNCHANGED console /\ pc[t] = "clear" /\ Goto(t, "drop")
    BY <1>11 DEF StopClear
  <2>4. InPlay /\ (pc'["emu"] = "reset" => pc["emu"] = "reset")
    BY <2>2, <2>3 DEF InPlay
  <2> QED
    BY <2>2, <2>3, <2>4 DEF Follows
<1>12. ASSUME NEW t \in Threads, StopDrop(t) PROVE Follows'
  <2>1. movie' = NoMovie \/ movie' = movie
    BY <1>12 DEF StopDrop
  <2>2. ~NoMovie.playing
    BY NothingTyped
  <2>3. pc[t] = "drop"
    BY <1>12 DEF StopDrop
  <2>4. ~movie.playing
    BY <2>3 DEF Restoring, Recorded, PlayInv, Ends
  <2> QED
    BY <2>1, <2>2, <2>4 DEF InPlay
<1>13. CASE CallStop
  BY <1>13 DEF InPlay, Follows, CallStop, Called
<1>14. CASE CallMovie
  BY <1>14 DEF InPlay, Follows, CallMovie, Called
<1>15. CASE CallLoadRom
  BY <1>15 DEF InPlay, Follows, CallLoadRom, Called
<1>16. CASE LoadRom
  BY <1>16 DEF LoadRom, InPlay
<1>17. CASE Record
  BY <1>17 DEF Record, InPlay
<1>18. CASE RecordState
  BY <1>18 DEF InPlay, Follows, RecordState
<1>19. CASE SetRecorder
  BY <1>19 DEF InPlay, Follows, SetRecorder
<1>20. CASE Play
  <2>1. /\ movie'.file = file /\ counter' = 0 /\ pc["ui"] = "play"
        /\ pc'["emu"] = "frame"
    BY <1>20 DEF Play, FirstRow
  <2>2. file \in Files /\ file # NoFile /\ GoodFile(file)
    BY <2>1 DEF Typed, Existence, Recorded, FileInv
  <2>3. file.start \in Inputs /\ file.rows \in Inputs /\ Len(file.rows) \in Nat
    BY <2>2, LenProperties DEF Files, Inputs
  <2>4. machine' = file.start
    <3>1. CASE file.state
      BY <1>20, <3>1 DEF Play
    <3>2. CASE ~file.state
      <4>1. PICK boot \in BootKeys : machine' = <<boot>>
        BY <1>20, <3>2 DEF Play
      <4>2. machine' = <<Boot>>
        BY <4>1, BootIs
      <4>3. file.start = <<Boot>>
        BY <2>2, <3>2 DEF GoodFile
      <4> QED
        BY <4>2, <4>3
    <3> QED
      BY <2>2, <3>1, <3>2 DEF Files
  <2>5. machine' = file.start \o SubSeq(file.rows, 1, 0)
    BY <2>3, <2>4, NoneYet
  <2> QED
    BY <2>1, <2>3, <2>4, <2>5 DEF Follows
<1>21. CASE PlayFails
  BY <1>21 DEF PlayFails
<1>22. CASE SetPlayer
  BY <1>22 DEF InPlay, Follows, SetPlayer
<1>23. CASE CallLoadState
  BY <1>23 DEF InPlay, Follows, CallLoadState, Called
<1>24. CASE LoadState
  BY <1>24 DEF LoadState, InPlay
<1>25. CASE UNCHANGED vars
  BY <1>25 DEF vars, InPlay, Follows
<1>26. QED
  BY <1>1, <1>2, <1>3, <1>4, <1>5, <1>6, <1>7, <1>8, <1>9, <1>10,
     <1>11, <1>12, <1>13, <1>14, <1>15, <1>16, <1>17, <1>18, <1>19,
     <1>20, <1>21, <1>22, <1>23, <1>24, <1>25
  DEF Next, EmuStep, CallUI, UIStep, KeysStep, MovieManagerStop, Threads

-----------------------------------------------------------------------------
(***************************************************************************)
(* The theorems.                                                           *)
(***************************************************************************)
(* Before a movie was recorded or played.                                  *)
LEMMA InitInv == ASSUME Init PROVE MovieInv
<1>1. PICK boot \in BootKeys : machine = <<boot>>
  BY DEF Init
<1>2. machine \in Inputs /\ machine # <<>> /\ Len(machine) = 1
  BY <1>1, ConstantsAssumption, ShortInputs
<1>3. Typed
  <2>1. {provider, player, recorded, recorder} \subseteq BOOLEAN
    BY Zenon DEF Init
  <2>2. strays \subseteq StrayKinds /\ settings \in {"user", "movie"} /\ counter \in Nat
    BY DEF Init
  <2>3. recording \in Files /\ file \in Files /\ movie \in Movie
    BY NothingTyped DEF Init
  <2> QED
    BY <1>2, <2>1, <2>2, <2>3 DEF Typed
<1>4. Control
  BY DEF Init, Control, Threads, Steps, UICalls, Between, InStop
<1>5. Existence
  BY <1>2 DEF Init, Existence, Threads
<1>6. Restoring
  BY NothingTyped DEF Init, Restoring, Threads, PastTest
<1> QED
  BY <1>3, <1>4, <1>5, <1>6 DEF MovieInv

(* The invariant of MovieManager, its player and its recorder: at each     *)
(* step of Record, Play and Stop, on whichever thread, who refers to the   *)
(* movie, who has the run lock and whose settings are in force.            *)
THEOREM MovieInvariant == Spec => []MovieInv
<1>1. Init => MovieInv
  BY InitInv
<1>2. MovieInv /\ [Next]_vars => MovieInv'
  BY TypedStep, ControlStep, ExistenceStep, RestoringStep DEF MovieInv
<1> QED
  BY <1>1, <1>2, PTL DEF Spec

(* TypeOK always holds: in particular the control manager never asks a     *)
(* movie that is gone, and a movie is gone as soon as nobody refers to it  *)
(* (~NexenMovie, MovieManager::Stop).                                      *)
THEOREM TypeCorrect == Spec => []TypeOK
<1>1. MovieInv => TypeOK
  <2> SUFFICES ASSUME MovieInv PROVE TypeOK
    OBVIOUS
  <2>1. movie.file \in Files /\ movie.controls \in {"none", "current", "gone"} /\ movie.last \in Nat
    BY DEF MovieInv, Typed, Movie
  <2> QED
    BY <2>1 DEF MovieInv, Typed, Control, Existence, TypeOK
<1> QED
  BY <1>1, MovieInvariant, PTL

(* SettingsRestored always holds: without a movie the user has his         *)
(* settings, unless one of the named defects was met (NexenMovie::Stop,    *)
(* ApplySettings).                                                         *)
THEOREM SettingsSafe == Spec => []SettingsRestored
<1>1. MovieInv => SettingsRestored
  BY NothingTyped DEF MovieInv, Restoring, SettingsRestored
<1> QED
  BY <1>1, MovieInvariant, PTL
(* Before a movie was recorded or played.                                  *)
LEMMA InitRecorded == ASSUME Init PROVE Recorded
<1>1. ~NoMovie.playing
  BY NothingTyped
<1>2. FileInv
  BY GoodNone DEF Init, FileInv
<1>3. RecordInv
  BY DEF Init, RecordInv
<1>4. PlayInv
  BY <1>1 DEF Init, PlayInv, Ends, InPlay, Threads
<1> QED
  BY <1>2, <1>3, <1>4 DEF Recorded

(* The second layer: what the files hold, where the recording leads, and   *)
(* what the machine was given by the movie that plays, at every step of    *)
(* the threads.                                                            *)
THEOREM RecordedInvariant ==
  ASSUME SameBoot PROVE Spec => []Recorded
<1>1. Init => Recorded
  BY InitRecorded
<1>2. MovieInv /\ Recorded /\ [Next]_vars => Recorded'
  <2> SUFFICES ASSUME MovieInv, Recorded, [Next]_vars PROVE Recorded'
    OBVIOUS
  <2>1. FileInv' /\ RecordInv' /\ Ends'
    BY FileStep, RecordStep, EndsStep
  <2>2. (strays = {} /\ InPlay => Follows)'
    BY FollowsStep
  <2> QED
    BY <2>1, <2>2 DEF Recorded, PlayInv
<1> QED
  BY <1>1, <1>2, MovieInvariant, PTL DEF Spec

(* RecordsAll always holds, when the same is held at every power on: a     *)
(* recording holds every input since it was begun, once, the polls of      *)
(* resets and what follows power cycles included (MovieRecorder).          *)
THEOREM RecordsSafe ==
  ASSUME SameBoot PROVE Spec => []RecordsAll
<1>1. MovieInv /\ Recorded => RecordsAll
  BY DEF MovieInv, Control, Recorded, RecordInv, Continues, RecordsAll, RunLockFree
<1> QED
  BY <1>1, MovieInvariant, RecordedInvariant, PTL

(* PlaysBack always holds, when the same is held at every power on: the    *)
(* machine is where the movie's rows up to the poll counter lead, whatever *)
(* was recorded, loaded or played before (NexenMovie::Play, SetInput).     *)
THEOREM PlaysSafe ==
  ASSUME SameBoot PROVE Spec => []PlaysBack
<1>1. MovieInv /\ Recorded => PlaysBack
  <2> SUFFICES ASSUME MovieInv, Recorded, Playing, movie.controls = "current", strays = {}
               PROVE  InPlace
    BY DEF PlaysBack
  <2>1. InPlay
    BY DEF MovieInv, Control, Playing, RunLockFree, InPlay
  <2>2. Follows
    BY <2>1 DEF Recorded, PlayInv
  <2>3. movie.file \in Files /\ counter \in Nat
    BY DEF MovieInv, Typed, Movie
  <2>4. Replay(movie.file, counter)
          = movie.file.start \o SubSeq(movie.file.rows, 1, counter)
    BY <2>2, <2>3, ReplayPlain DEF Follows
  <2> QED
    BY <2>2, <2>4 DEF Follows, InPlace, Rows
<1> QED
  BY <1>1, MovieInvariant, RecordedInvariant, PTL
=============================================================================

---------------------- MODULE GameClientConnectionProof ----------------------
(***************************************************************************)
(* Proofs about GameClientConnection, for any games, any number of ports,  *)
(* any sizes of the queues and any number of polls and changes.            *)
(***************************************************************************)
EXTENDS GameClientConnection, SequenceTheorems, TLAPS

USE ConnectionAssumption

-----------------------------------------------------------------------------
(* The inductive invariant.  First types.                                  *)

Polls == Nat \X Nat

Messages ==
       [type : {"ServerInformation"}]
  \cup [type : {"GameInformation"}, game : Games \cup {NoGame}, paused : BOOLEAN]
  \cup [type : {"SaveState"}, state : Polls]
  \cup [type : {"MovieData"}, port : Ports, poll : Polls]

Hosts == [game : Games \cup {NoGame}, epoch : Nat, polls : Nat, paused : BOOLEAN]

Typed ==
  /\ TypeOK
  /\ host \in Hosts
  /\ handshaken \in BOOLEAN /\ net \in Seq(Messages)
  /\ gameLoaded \in BOOLEAN /\ enabled \in BOOLEAN /\ shutdown \in BOOLEAN
  /\ queue \in [Ports -> Seq(Polls)] /\ signaled \in [Ports -> BOOLEAN]
  /\ maxSpeed \in BOOLEAN /\ provider \in BOOLEAN /\ preview \in BOOLEAN
  /\ state \in Polls \cup {Off} /\ got \in [Ports -> Polls \cup {Off}]

(* What the network thread knows at each of its steps.                     *)
StepsKnow ==
  /\ shutdown <=> cpc = "done" \/ (cpc # "idle" /\ msg.type = "Shutdown")
  /\ cpc \in {"disable", "clear", "signal"}
       => msg \in Messages \cup {[type |-> "Shutdown"]}
            /\ msg.type \in {"GameInformation", "SaveState", "Shutdown"}
  /\ cpc = "lock" => msg \in Messages /\ msg.type \in {"GameInformation", "SaveState"}
  /\ cpc \in {"load", "stop", "register"} => msg \in Messages /\ msg.type = "GameInformation"
  /\ cpc = "unregister" => \/ msg \in Messages /\ msg.type = "GameInformation"
                           \/ msg.type = "Shutdown"
  /\ cpc = "speed" => msg.type = "Shutdown"

(* The controllers are enabled only with a game whose provider the         *)
(* connection is, and only between two GameInformation messages.           *)
Provides ==
  /\ cpc \notin {"idle", "disable"} => ~enabled
  /\ enabled \/ (cpc # "idle" /\ msg.type = "SaveState") => gameLoaded
  /\ gameLoaded => game # NoGame
  /\ cpc = "stop" => ~gameLoaded
  /\ gameLoaded /\ upc = "idle" /\ cpc \in {"idle", "disable", "clear", "signal", "lock"}
       => provider

(* A load by the user is over when the connection has been shut down.      *)
Reloading ==
  /\ upc = "notify" /\ stop => cpc = "done"
  /\ upc \in {"over", "forwarded"} => shutdown
  /\ upc = "forwarded" => cpc = "done"

(* At the end the connection no longer takes part in a frame, unless a     *)
(* load has registered it again.                                           *)
Leaving ==
  /\ cpc = "speed" => Parked /\ ~provider
  /\ cpc = "done" => ~maxSpeed /\ (upc = "forwarded" \/ (Parked /\ ~provider))

(* Between two polls the emulation thread is at the first port.            *)
AtFirstPort == Parked => port = 0

ConnInv == Typed /\ StepsKnow /\ Provides /\ Reloading /\ Leaving /\ AtFirstPort

(* m comes right after l in what the host sends.                           *)
Continues(l, m) ==
  IF m.port = 0
    THEN \/ l.type = "SaveState" /\ m.poll = NextPoll(l.state)
         \/ l.type = "MovieData" /\ l.port = NumPorts - 1 /\ m.poll = NextPoll(l.poll)
    ELSE l.type = "MovieData" /\ l.port = m.port - 1 /\ l.poll = m.poll

InOrder ==
  \A i \in 1 .. Len(net) - 1 :
    net[i + 1].type = "MovieData" => Continues(net[i], net[i + 1])

(* While the client is up to date, the host's next poll continues m.       *)
Sends == handshaken /\ host.game # NoGame
Latest(m) ==
  \/ m.type = "SaveState" /\ m.state = <<host.epoch, host.polls>>
  \/ m.type = "MovieData" /\ m.port = NumPorts - 1 /\ m.poll = <<host.epoch, host.polls>>

LastSent == Sends /\ net # <<>> => Latest(net[Len(net)])

(* A state that is being loaded is what the next message continues.        *)
Loading ==
  cpc # "idle" /\ msg.type = "SaveState" =>
    IF net = <<>> THEN Sends => Latest(msg)
    ELSE net[1].type = "MovieData" => Continues(msg, net[1])

(* The last poll port p has had or will find in its queue.                 *)
Taken(p) == IF p < port THEN 1 ELSE 0
Delivered(p) == <<state[1], state[2] + Taken(p) + Len(queue[p])>>

(* While the controllers are enabled: what each port has had and finds in  *)
(* its queue continues the state, ...                                      *)
Queued ==
  enabled /\ ~shutdown /\ RunLockFree =>
    /\ state # Off
    /\ \A p \in Ports :
         /\ p < port => got[p] = NextPoll(state)
         /\ \A i \in 1 .. Len(queue[p]) :
              queue[p][i] = <<state[1], state[2] + Taken(p) + i>>
    /\ epc = "pop" => queue[port] # <<>>

(* ... and what is on its way continues the queues.                        *)
OnItsWay ==
  enabled /\ cpc = "idle" /\ RunLockFree =>
    IF net = <<>> THEN Sends => \A p \in Ports : Delivered(p) = <<host.epoch, host.polls>>
    ELSE net[1].type = "MovieData" =>
           \A p \in Ports : net[1].poll = IF p < net[1].port THEN Delivered(p)
                                                          ELSE NextPoll(Delivered(p))

SyncInv == ConnInv /\ ~preview /\ InOrder /\ LastSent /\ Loading /\ Queued /\ OnItsWay

-----------------------------------------------------------------------------
(* A poll is a pair, and what follows it is another.                       *)
LEMMA PollParts ==
  /\ \A q \in Polls : q # Off /\ q = <<q[1], q[2]>> /\ q[1] \in Nat /\ q[2] \in Nat
  /\ \A q \in Polls : NextPoll(q) \in Polls
<1>1. \A q \in Polls : q = <<q[1], q[2]>> /\ q[1] \in Nat /\ q[2] \in Nat
  BY DEF Polls
<1>2. ASSUME NEW q \in Polls PROVE q # Off
  <2>1. Len(<<q[1], q[2]>>) = 2 /\ Len(<< >>) = 0
    OBVIOUS
  <2> QED
    BY <1>1, <2>1 DEF Off
<1>3. \A q \in Polls : NextPoll(q) \in Polls
  BY <1>1, <1>2 DEF NextPoll, Polls
<1> QED
  BY <1>1, <1>2, <1>3

(* What a message has, by its type.                                        *)
LEMMA MessageParts ==
  ASSUME NEW m \in Messages
  PROVE  /\ m.type \in {"ServerInformation", "GameInformation", "SaveState", "MovieData"}
         /\ m.type = "GameInformation" => m.game \in Games \cup {NoGame} /\ m.paused \in BOOLEAN
         /\ m.type = "SaveState" => m.state \in Polls
         /\ m.type = "MovieData" => m.port \in Ports /\ m.poll \in Polls
BY DEF Messages

(* What the host sends, by the sequence.                                   *)
LEMMA SentMessages ==
  ASSUME NEW h \in Hosts
  PROVE  /\ GameInformation(h) \in Seq(Messages) /\ Len(GameInformation(h)) = 2
         /\ MovieData(h) \in Seq(Messages) /\ Len(MovieData(h)) = NumPorts
<1>1. GameInformation(h) \in Seq(Messages) /\ Len(GameInformation(h)) = 2
  BY DEF GameInformation, Messages, Polls, Hosts
<1>2. \A i \in 1 .. NumPorts : MovieData(h)[i] \in Messages
  BY DEF MovieData, Messages, Polls, Ports, Hosts
<1> QED
  BY <1>1, <1>2 DEF MovieData

(* The host's changes of its own record.                                   *)
LEMMA HostChanges ==
  ASSUME NEW h \in Hosts
  PROVE  /\ [h EXCEPT !.epoch = @ + 1] \in Hosts
         /\ [h EXCEPT !.polls = @ + 1] \in Hosts
         /\ [h EXCEPT !.paused = ~@] \in Hosts
         /\ [h EXCEPT !.game = NoGame, !.paused = FALSE] \in Hosts
         /\ \A g \in Games : [h EXCEPT !.game = g, !.epoch = @ + 1] \in Hosts
<1>1. ASSUME NEW k \in Hosts
      PROVE  [k EXCEPT !.epoch = @ + 1] \in Hosts /\ [k EXCEPT !.polls = @ + 1] \in Hosts
  BY DEF Hosts
<1>2. ASSUME NEW k \in Hosts, NEW b \in BOOLEAN
      PROVE  [k EXCEPT !.paused = b] \in Hosts
  BY DEF Hosts
<1>3. [h EXCEPT !.paused = ~@] \in Hosts
  BY DEF Hosts
<1>4. ASSUME NEW g \in Games \cup {NoGame}
      PROVE  [h EXCEPT !.game = g] \in Hosts
  BY DEF Hosts
<1>5. [h EXCEPT !.game = NoGame, !.paused = FALSE]
        = [[h EXCEPT !.game = NoGame] EXCEPT !.paused = FALSE]
  BY DEF Hosts
<1>6. \A g \in Games : [h EXCEPT !.game = g, !.epoch = @ + 1]
                        = [[h EXCEPT !.game = g] EXCEPT !.epoch = @ + 1]
  BY DEF Hosts
<1> QED
  BY <1>1, <1>2, <1>3, <1>4, <1>5, <1>6

(* What was sent and not read yet is a sequence of messages.               *)
LEMMA SendTyped ==
  ASSUME net \in Seq(Messages), NEW ms \in Seq(Messages), Send(ms)
  PROVE  net' \in Seq(Messages)
BY DEF Send

(* The host writes messages.                                               *)
LEMMA HostTyped ==
  ASSUME Typed, Host
  PROVE  Typed'
<1> USE DEF Typed, hostVars, userVars, connVars, emuVars
<1>1. ASSUME host' \in Hosts, handshaken' \in BOOLEAN, net' \in Seq(Messages),
             UNCHANGED <<userVars, cpc, msg, connVars, emuVars>>
      PROVE  Typed'
  BY <1>1 DEF TypeOK
<1>2. ASSUME NEW h \in Hosts, Announce(h)
      PROVE  Typed'
  <2>1. GameInformation(h) \in Seq(Messages)
    BY SentMessages
  <2>2. net' \in Seq(Messages)
    BY <1>2, <2>1, SendTyped DEF Announce
  <2> QED
    BY <1>1, <1>2, <2>2 DEF Announce
<1>3. CASE HostFrame
  <2>1. host' \in Hosts
    BY <1>3, HostChanges DEF HostFrame
  <2>2. MovieData(host') \in Seq(Messages)
    BY <2>1, SentMessages
  <2>3. net' \in Seq(Messages)
    BY <1>3, <2>2, SendTyped DEF HostFrame
  <2> QED
    BY <1>1, <1>3, <2>1, <2>3 DEF HostFrame
<1>4. CASE HostLoadsState
  BY <1>2, <1>4, HostChanges DEF HostLoadsState
<1>5. CASE HostLoadsGame
  <2> PICK g \in Games : Announce([host EXCEPT !.game = g, !.epoch = @ + 1])
    BY <1>5 DEF HostLoadsGame
  <2> QED
    BY <1>2, HostChanges
<1>6. CASE HostPausesOrResumes
  BY <1>2, <1>6, HostChanges DEF HostPausesOrResumes
<1>7. CASE HostStops
  <2>1. host' \in Hosts
    BY <1>7, HostChanges DEF HostStops
  <2>2. <<[type |-> "GameInformation", game |-> NoGame, paused |-> TRUE]>> \in Seq(Messages)
    BY DEF Messages
  <2>3. net' \in Seq(Messages)
    BY <1>7, <2>2, SendTyped DEF HostStops
  <2> QED
    BY <1>1, <1>7, <2>1, <2>3 DEF HostStops
<1>8. CASE Handshake
  <2>1. net' \in Seq(Messages)
    BY <1>8, SendTyped, SentMessages DEF Handshake
  <2> QED
    BY <1>1, <1>8, <2>1 DEF Handshake
<1>9. CASE Close
  BY <1>1, <1>9 DEF Close
<1> QED
  BY <1>3, <1>4, <1>5, <1>6, <1>7, <1>8, <1>9 DEF Host

(* The queues keep their types whatever the network thread does, ...       *)
LEMMA DisableTyped ==
  ASSUME Typed, Disable
  PROVE  Typed'
<1>1. TypeOK'
  BY DEF Disable, Typed, TypeOK, hostVars, userVars, emuVars
<1> QED
  BY <1>1 DEF Disable, Typed, hostVars, emuVars

LEMMA ReadMovieDataTyped ==
  ASSUME Typed, ReadMovieData
  PROVE  Typed'
<1> USE DEF Typed, ReadMovieData, hostVars, userVars, emuVars
<1> DEFINE m == Head(net)
<1>1. m \in Messages /\ net' \in Seq(Messages)
  OBVIOUS
<1>2. m.port \in Ports /\ m.poll \in Polls
  BY <1>1, MessageParts
<1>3. queue' \in [Ports -> Seq(Polls)]
  <2>1. CASE gameLoaded
    <3>1. Append(queue[m.port], m.poll) \in Seq(Polls)
      BY <1>2
    <3>2. queue' = [queue EXCEPT ![m.port] = Append(@, m.poll)]
      BY <2>1 DEF PushControllerState
    <3> QED
      BY <1>2, <3>1, <3>2
  <2> QED
    BY <2>1
<1>4. signaled' \in [Ports -> BOOLEAN]
  BY <1>2 DEF PushControllerState
<1>5. TypeOK'
  BY <1>3 DEF TypeOK, Polls
<1> QED
  BY <1>1, <1>3, <1>4, <1>5

(* ... and whatever the emulation thread takes from them.                  *)
LEMMA EmulationTyped ==
  ASSUME Typed, EmulationThread
  PROVE  Typed'
<1> USE DEF Typed, emuOnly, hostVars, userVars
<1>1. ASSUME UNCHANGED emuOnly, port' \in Ports, got' \in [Ports -> Polls \cup {Off}],
             epc' \in {"parked", "enabled", "size", "wait", "check", "pop"}, epc # "off",
             state' \in Polls \cup {Off}, preview' \in BOOLEAN,
             queue' \in [Ports -> Seq(Polls)], signaled' \in [Ports -> BOOLEAN],
             maxSpeed' \in BOOLEAN, minQueue' \in FirstQueue .. QueueLimit
      PROVE  Typed'
  <2>1. TypeOK'
    BY <1>1 DEF TypeOK, Polls
  <2> QED
    BY <1>1, <2>1
<1>2. ASSUME NEW g \in [Ports -> Polls \cup {Off}], NextPort(g)
      PROVE  /\ port' \in Ports /\ got' \in [Ports -> Polls \cup {Off}]
             /\ epc' \in {"parked", "enabled"}
             /\ state' \in Polls \cup {Off} /\ preview' \in BOOLEAN
  <2>1. port' \in Ports
    BY <1>2 DEF NextPort, TypeOK, Ports
  <2>2. got' \in [Ports -> Polls \cup {Off}]
    BY <1>2 DEF NextPort, Nothing
  <2>3. epc' \in {"parked", "enabled"} /\ preview' \in BOOLEAN
    BY <1>2 DEF NextPort
  <2>4. NextPoll(state) \in Polls \cup {Off}
    BY PollParts DEF NextPoll
  <2>5. state' \in Polls \cup {Off}
    BY <1>2, <2>4 DEF NextPort
  <2> QED
    BY <2>1, <2>2, <2>3, <2>5
<1>3. ASSUME Leave, UNCHANGED emuOnly, epc # "off"
      PROVE  Typed'
  BY <1>1, <1>2, <1>3 DEF Leave, TypeOK
<1>4. CASE StartFrame
  BY <1>1, <1>4 DEF StartFrame, Nothing, Ports, TypeOK
<1>5. CASE ReadEnabled
  BY <1>1, <1>3, <1>5 DEF ReadEnabled, TypeOK
<1>6. CASE ReadSize
  BY <1>1, <1>6 DEF ReadSize, TypeOK
<1>7. CASE WaitForInput
  BY <1>1, <1>7 DEF WaitForInput, TypeOK
<1>8. CASE CheckAfterWait
  BY <1>1, <1>3, <1>8 DEF CheckAfterWait, TypeOK
<1>9. CASE Pop
  <2>1. CASE shutdown \/ ~enabled \/ queue[port] = <<>>
    BY <1>3, <1>9, <2>1 DEF Pop
  <2>2. CASE ~(shutdown \/ ~enabled \/ queue[port] = <<>>)
    <3>1. port \in Ports /\ minQueue \in FirstQueue .. QueueLimit
      BY DEF TypeOK
    <3>2. queue[port] \in Seq(Polls) /\ queue[port] # <<>>
      BY <2>2, <3>1
    <3>3. Head(queue[port]) \in Polls /\ Tail(queue[port]) \in Seq(Polls)
      BY <3>2
    <3>4. queue' \in [Ports -> Seq(Polls)]
      BY <1>9, <2>2, <3>1, <3>3 DEF Pop
    <3>6. maxSpeed' \in BOOLEAN
      BY <1>9, <2>2 DEF Pop
    <3>5. [got EXCEPT ![port] = Head(queue[port])] \in [Ports -> Polls \cup {Off}]
      BY <3>3
    <3> QED
      BY <1>1, <1>2, <1>9, <2>2, <3>1, <3>4, <3>5, <3>6 DEF Pop
  <2> QED
    BY <2>1, <2>2
<1> QED
  BY <1>4, <1>5, <1>6, <1>7, <1>8, <1>9 DEF EmulationThread

-----------------------------------------------------------------------------
(* A step of the host leaves the client alone.                             *)
LEMMA HostConnInv ==
  ASSUME ConnInv, Host
  PROVE  ConnInv'
<1> USE DEF ConnInv, hostVars, userVars, connVars, emuVars
<1>1. Typed'
  BY HostTyped
<1>2. UNCHANGED <<userVars, cpc, msg, connVars, emuVars>>
  BY DEF Host, HostFrame, HostLoadsState, HostLoadsGame, HostPausesOrResumes,
         Announce, HostStops, Handshake, Close
<1> QED
  BY <1>1, <1>2 DEF StepsKnow, Provides, Reloading, Leaving, AtFirstPort, Parked

(* A load by the user gives the client a game, and takes its provider.     *)
LEMMA UserConnInv ==
  ASSUME ConnInv, User
  PROVE  ConnInv'
<1> USE DEF ConnInv, hostVars, connVars
<1>1. CASE Disconnect
  BY <1>1 DEF Disconnect, emuVars, Typed, TypeOK, StepsKnow, Provides, Reloading, Leaving,
              AtFirstPort, Parked
<1>2. CASE UserLoads
  <2> USE DEF UserLoads
  <2>1. game' # NoGame
    BY <1>2
  <2>2. Typed'
    BY <1>2, <2>1 DEF Typed, TypeOK, Off
  <2>3. StepsKnow' /\ Provides'
    BY <1>2, <2>1 DEF StepsKnow, Provides
  <2>4. Reloading' /\ Leaving' /\ AtFirstPort'
    BY <1>2 DEF Reloading, Leaving, AtFirstPort, Parked
  <2> QED
    BY <2>2, <2>3, <2>4
<1>3. CASE Notify
  BY <1>3 DEF Notify, Connected, emuVars, Typed, TypeOK, StepsKnow, Provides, Reloading,
              Leaving, AtFirstPort, Parked
<1>4. CASE Forward
  BY <1>4 DEF Forward, Typed, TypeOK, StepsKnow, Provides, Reloading, Leaving, AtFirstPort, Parked
<1> QED
  BY <1>1, <1>2, <1>3, <1>4 DEF User

(* The network thread, step by step.                                       *)
LEMMA NetworkConnInv ==
  ASSUME ConnInv, NetworkThread
  PROVE  ConnInv'
<1> USE DEF ConnInv, hostVars, connVars, emuVars
<1>1. CASE ReadServerInformation
  <2>1. Typed'
    BY <1>1, MessageParts, PollParts DEF Typed, TypeOK, StepsKnow, Provides, Polls, userVars,
                                     Ports, Parked, ReadServerInformation
  <2>2. StepsKnow'
    BY <1>1, MessageParts DEF Typed, TypeOK, StepsKnow, ReadServerInformation
  <2>3. Provides'
    BY <1>1, MessageParts DEF Typed, TypeOK, StepsKnow, Provides, userVars, ReadServerInformation
  <2>4. Reloading' /\ Leaving' /\ AtFirstPort'
    BY <1>1 DEF Typed, TypeOK, StepsKnow, Reloading, Leaving, AtFirstPort, Parked, userVars,
                 ReadServerInformation
  <2> QED
    BY <2>1, <2>2, <2>3, <2>4
<1>2. CASE ReadMovieData
  <2>1. Typed'
    BY <1>2, ReadMovieDataTyped
  <2>2. StepsKnow'
    BY <1>2, MessageParts DEF Typed, TypeOK, StepsKnow, ReadMovieData, PushControllerState
  <2>3. Provides'
    BY <1>2, MessageParts DEF Typed, TypeOK, StepsKnow, Provides, userVars, ReadMovieData, PushControllerState
  <2>4. Reloading' /\ Leaving' /\ AtFirstPort'
    BY <1>2 DEF Typed, TypeOK, StepsKnow, Reloading, Leaving, AtFirstPort, Parked, userVars,
                 ReadMovieData,
                PushControllerState
  <2> QED
    BY <2>1, <2>2, <2>3, <2>4
<1>3. CASE ReadState
  <2>1. Typed'
    BY <1>3, MessageParts, PollParts DEF Typed, TypeOK, StepsKnow, Provides, Polls, userVars,
                                     Ports, Parked, ReadState
  <2>2. StepsKnow'
    BY <1>3, MessageParts DEF Typed, TypeOK, StepsKnow, ReadState
  <2>3. Provides'
    BY <1>3, MessageParts DEF Typed, TypeOK, StepsKnow, Provides, userVars, ReadState
  <2>4. Reloading' /\ Leaving' /\ AtFirstPort'
    BY <1>3 DEF Typed, TypeOK, StepsKnow, Reloading, Leaving, AtFirstPort, Parked, userVars,
                 ReadState
  <2> QED
    BY <2>1, <2>2, <2>3, <2>4
<1>4. CASE ExecEnds
  <2>1. Typed'
    BY <1>4, MessageParts, PollParts DEF Typed, TypeOK, StepsKnow, Provides, Polls, userVars,
                                     Ports, Parked, ExecEnds
  <2>2. StepsKnow'
    BY <1>4, MessageParts DEF Typed, TypeOK, StepsKnow, ExecEnds
  <2>3. Provides'
    BY <1>4, MessageParts DEF Typed, TypeOK, StepsKnow, Provides, userVars, ExecEnds
  <2>4. Reloading' /\ Leaving' /\ AtFirstPort'
    BY <1>4 DEF Typed, TypeOK, StepsKnow, Reloading, Leaving, AtFirstPort, Parked, userVars,
                 ExecEnds
  <2> QED
    BY <2>1, <2>2, <2>3, <2>4
<1>5. CASE Disable
  <2>1. Typed'
    BY <1>5, DisableTyped
  <2>2. StepsKnow'
    BY <1>5, MessageParts DEF Typed, TypeOK, StepsKnow, Disable
  <2>3. Provides'
    BY <1>5, MessageParts DEF Typed, TypeOK, StepsKnow, Provides, userVars, Disable
  <2>4. Reloading' /\ Leaving' /\ AtFirstPort'
    BY <1>5 DEF Typed, TypeOK, StepsKnow, Reloading, Leaving, AtFirstPort, Parked, userVars,
                 Disable
  <2> QED
    BY <2>1, <2>2, <2>3, <2>4
<1>6. CASE ClearInputData
  <2>1. Typed'
    BY <1>6, MessageParts, PollParts DEF Typed, TypeOK, StepsKnow, Provides, Polls, userVars,
                                     Ports, Parked, ClearInputData, Empty
  <2>2. StepsKnow'
    BY <1>6, MessageParts DEF Typed, TypeOK, StepsKnow, ClearInputData, Empty
  <2>3. Provides'
    BY <1>6, MessageParts DEF Typed, TypeOK, StepsKnow, Provides, userVars, ClearInputData, Empty
  <2>4. Reloading' /\ Leaving' /\ AtFirstPort'
    BY <1>6 DEF Typed, TypeOK, StepsKnow, Reloading, Leaving, AtFirstPort, Parked, userVars,
                 ClearInputData, Empty
  <2> QED
    BY <2>1, <2>2, <2>3, <2>4
<1>7. CASE SignalAll
  <2>1. Typed'
    BY <1>7, MessageParts, PollParts DEF Typed, TypeOK, StepsKnow, Provides, Polls, userVars,
                                     Ports, Parked, SignalAll, AfterDisable
  <2>2. StepsKnow'
    BY <1>7, MessageParts DEF Typed, TypeOK, StepsKnow, SignalAll, AfterDisable
  <2>3. Provides'
    BY <1>7, MessageParts DEF Typed, TypeOK, StepsKnow, Provides, userVars, SignalAll, AfterDisable
  <2>4. Reloading' /\ Leaving' /\ AtFirstPort'
    BY <1>7 DEF Typed, TypeOK, StepsKnow, Reloading, Leaving, AtFirstPort, Parked, userVars,
                 SignalAll, AfterDisable
  <2> QED
    BY <2>1, <2>2, <2>3, <2>4
<1>8. CASE LoadState
  <2>1. Typed'
    BY <1>8, MessageParts, PollParts DEF Typed, TypeOK, StepsKnow, Provides, Polls, userVars,
                                     Ports, Parked, LoadState, Empty, NoMessage
  <2>2. StepsKnow'
    BY <1>8, MessageParts DEF Typed, TypeOK, StepsKnow, LoadState, Empty, NoMessage
  <2>3. Provides'
    BY <1>8, MessageParts DEF Typed, TypeOK, StepsKnow, Provides, userVars, LoadState, Empty, NoMessage
  <2>4. Reloading' /\ Leaving' /\ AtFirstPort'
    BY <1>8 DEF Typed, TypeOK, StepsKnow, Reloading, Leaving, AtFirstPort, Parked, userVars,
                 LoadState, Empty, NoMessage
  <2> QED
    BY <2>1, <2>2, <2>3, <2>4
<1>9. CASE SetControllerPort
  <2>1. Typed'
    BY <1>9, MessageParts, PollParts DEF Typed, TypeOK, StepsKnow, Provides, Polls, userVars,
                                     Ports, Parked, SetControllerPort, Empty
  <2>2. StepsKnow'
    BY <1>9, MessageParts DEF Typed, TypeOK, StepsKnow, SetControllerPort, Empty
  <2>3. Provides'
    BY <1>9, MessageParts DEF Typed, TypeOK, StepsKnow, Provides, userVars, SetControllerPort, Empty
  <2>4. Reloading' /\ Leaving' /\ AtFirstPort'
    BY <1>9 DEF Typed, TypeOK, StepsKnow, Reloading, Leaving, AtFirstPort, Parked, userVars,
                 SetControllerPort, Empty
  <2> QED
    BY <2>1, <2>2, <2>3, <2>4
<1>10. CASE SameGame
  <2>1. Typed'
    BY <1>10, MessageParts, PollParts DEF Typed, TypeOK, StepsKnow, Provides, Polls, userVars,
                                     Ports, Parked, SameGame
  <2>2. StepsKnow'
    BY <1>10, MessageParts DEF Typed, TypeOK, StepsKnow, SameGame
  <2>3. Provides'
    BY <1>10, MessageParts DEF Typed, TypeOK, StepsKnow, Provides, userVars, SameGame
  <2>4. Reloading' /\ Leaving' /\ AtFirstPort'
    BY <1>10 DEF Typed, TypeOK, StepsKnow, Reloading, Leaving, AtFirstPort, Parked, userVars,
                 SameGame
  <2> QED
    BY <2>1, <2>2, <2>3, <2>4
<1>11. CASE LoadGame
  <2>1. Typed'
    BY <1>11, MessageParts, PollParts DEF Typed, TypeOK, StepsKnow, Provides, Polls, userVars,
                                     Ports, Parked, LoadGame
  <2>2. StepsKnow'
    BY <1>11, MessageParts DEF Typed, TypeOK, StepsKnow, LoadGame
  <2>3. Provides'
    BY <1>11, MessageParts DEF Typed, TypeOK, StepsKnow, Provides, userVars, LoadGame
  <2>4. Reloading' /\ Leaving' /\ AtFirstPort'
    BY <1>11 DEF Typed, TypeOK, StepsKnow, Reloading, Leaving, AtFirstPort, Parked, userVars,
                 LoadGame
  <2> QED
    BY <2>1, <2>2, <2>3, <2>4
<1>12. CASE NoSuchGame
  <2>1. Typed'
    BY <1>12, MessageParts, PollParts DEF Typed, TypeOK, StepsKnow, Provides, Polls, userVars,
                                     Ports, Parked, NoSuchGame
  <2>2. StepsKnow'
    BY <1>12, MessageParts DEF Typed, TypeOK, StepsKnow, NoSuchGame
  <2>3. Provides'
    BY <1>12, MessageParts DEF Typed, TypeOK, StepsKnow, Provides, userVars, NoSuchGame
  <2>4. Reloading' /\ Leaving' /\ AtFirstPort'
    BY <1>12 DEF Typed, TypeOK, StepsKnow, Reloading, Leaving, AtFirstPort, Parked, userVars,
                 NoSuchGame
  <2> QED
    BY <2>1, <2>2, <2>3, <2>4
<1>13. CASE StopGame
  <2>1. Typed'
    BY <1>13, MessageParts, PollParts DEF Typed, TypeOK, StepsKnow, Provides, Polls, userVars,
                                     Ports, Parked, StopGame, NoMessage
  <2>2. StepsKnow'
    BY <1>13, MessageParts DEF Typed, TypeOK, StepsKnow, StopGame, NoMessage
  <2>3. Provides'
    BY <1>13, MessageParts DEF Typed, TypeOK, StepsKnow, Provides, userVars, StopGame, NoMessage
  <2>4. Reloading' /\ Leaving' /\ AtFirstPort'
    BY <1>13 DEF Typed, TypeOK, StepsKnow, Reloading, Leaving, AtFirstPort, Parked, userVars,
                 StopGame, NoMessage
  <2> QED
    BY <2>1, <2>2, <2>3, <2>4
<1>14. CASE Unregister
  <2>1. Typed'
    BY <1>14, MessageParts, PollParts DEF Typed, TypeOK, StepsKnow, Provides, Polls, userVars,
                                     Ports, Parked, Unregister
  <2>2. StepsKnow'
    BY <1>14, MessageParts DEF Typed, TypeOK, StepsKnow, Unregister
  <2>3. Provides'
    BY <1>14, MessageParts DEF Typed, TypeOK, StepsKnow, Provides, userVars, Unregister
  <2>4. Reloading' /\ Leaving' /\ AtFirstPort'
    BY <1>14 DEF Typed, TypeOK, StepsKnow, Reloading, Leaving, AtFirstPort, Parked, userVars,
                 Unregister
  <2> QED
    BY <2>1, <2>2, <2>3, <2>4
<1>15. CASE Register
  <2>1. Typed'
    BY <1>15, MessageParts, PollParts DEF Typed, TypeOK, StepsKnow, Provides, Polls, userVars,
                                     Ports, Parked, Register, NoMessage
  <2>2. StepsKnow'
    BY <1>15, MessageParts DEF Typed, TypeOK, StepsKnow, Register, NoMessage
  <2>3. Provides'
    BY <1>15, MessageParts DEF Typed, TypeOK, StepsKnow, Provides, userVars, Register, NoMessage
  <2>4. Reloading' /\ Leaving' /\ AtFirstPort'
    BY <1>15 DEF Typed, TypeOK, StepsKnow, Reloading, Leaving, AtFirstPort, Parked, userVars,
                 Register, NoMessage
  <2> QED
    BY <2>1, <2>2, <2>3, <2>4
<1>16. CASE ClearSpeed
  <2>1. Typed'
    BY <1>16, MessageParts, PollParts DEF Typed, TypeOK, StepsKnow, Provides, Polls, userVars,
                                     Ports, Parked, ClearSpeed
  <2>2. StepsKnow'
    BY <1>16, MessageParts DEF Typed, TypeOK, StepsKnow, ClearSpeed
  <2>3. Provides'
    BY <1>16, MessageParts DEF Typed, TypeOK, StepsKnow, Provides, userVars, ClearSpeed
  <2>4. Reloading' /\ Leaving' /\ AtFirstPort'
    BY <1>16 DEF Typed, TypeOK, StepsKnow, Reloading, Leaving, AtFirstPort, Parked, userVars,
                 ClearSpeed
  <2> QED
    BY <2>1, <2>2, <2>3, <2>4
<1> QED
  BY <1>1, <1>2, <1>3, <1>4, <1>5, <1>6, <1>7, <1>8, <1>9, <1>10, <1>11, <1>12, <1>13,
     <1>14, <1>15, <1>16 DEF NetworkThread

(* A frame of the client: once the connection has left the game, the       *)
(* emulation thread has no business with it.                               *)
LEMMA EmulationConnInv ==
  ASSUME ConnInv, EmulationThread
  PROVE  ConnInv'
<1> USE DEF ConnInv
<1>1. Typed'
  BY EmulationTyped
<1>2. UNCHANGED emuOnly
  BY DEF EmulationThread, StartFrame, ReadEnabled, ReadSize, WaitForInput, CheckAfterWait, Pop
<1>3. StepsKnow' /\ Provides' /\ Reloading'
  BY <1>2 DEF StepsKnow, Provides, Reloading, emuOnly, hostVars, userVars
<1>4. AtFirstPort'
  <2>1. ASSUME NEW g, NextPort(g) PROVE AtFirstPort'
    BY <2>1 DEF NextPort, AtFirstPort, Parked
  <2> QED
    BY <2>1 DEF EmulationThread, StartFrame, ReadEnabled, ReadSize, WaitForInput,
                CheckAfterWait, Pop, Leave, AtFirstPort, Parked
<1>5. CASE cpc \in {"speed", "done"} /\ Parked /\ ~provider
  <2>1. StartFrame
    BY <1>5 DEF Parked, EmulationThread, StartFrame, ReadEnabled, ReadSize, WaitForInput,
                CheckAfterWait, Pop
  <2> QED
    BY <1>1, <1>2, <1>3, <1>4, <1>5, <2>1 DEF StartFrame, Leaving, Parked, emuOnly, userVars
<1>6. CASE cpc = "done" /\ upc = "forwarded"
  <2>1. shutdown
    BY <1>6 DEF StepsKnow
  <2>2. maxSpeed' = maxSpeed
    BY <2>1 DEF EmulationThread, StartFrame, ReadEnabled, ReadSize, WaitForInput,
                CheckAfterWait, Pop, Leave
  <2> QED
    BY <1>1, <1>2, <1>3, <1>4, <1>6, <2>2 DEF Leaving, emuOnly, userVars
<1>7. CASE cpc \notin {"speed", "done"}
  BY <1>1, <1>2, <1>3, <1>4, <1>7 DEF Leaving, emuOnly
<1> QED
  BY <1>5, <1>6, <1>7 DEF Leaving

(* The client has no connection yet.                                      *)
LEMMA InitConnInv == Init => ConnInv
<1> SUFFICES ASSUME Init PROVE ConnInv
  OBVIOUS
<1> USE DEF Init, Empty, Nothing, Ports
<1>1. host \in Hosts
  BY DEF Hosts
<1>2. net \in Seq(Messages)
  BY DEF Messages
<1>3. TypeOK
  BY DEF TypeOK
<1>4. queue \in [Ports -> Seq(Polls)] /\ signaled \in [Ports -> BOOLEAN]
  OBVIOUS
<1>5. state \in Polls \cup {Off} /\ got \in [Ports -> Polls \cup {Off}]
  OBVIOUS
<1>6. Typed
  BY <1>1, <1>2, <1>3, <1>4, <1>5 DEF Typed
<1>7. StepsKnow /\ Provides /\ Reloading /\ Leaving /\ AtFirstPort
  BY DEF StepsKnow, Provides, Reloading, Leaving, AtFirstPort, Parked, NoMessage
<1> QED
  BY <1>6, <1>7 DEF ConnInv

(* Every step preserves the invariant.                                     *)
LEMMA NextConnInv == ConnInv /\ [Next]_vars => ConnInv'
<1> SUFFICES ASSUME ConnInv, [Next]_vars PROVE ConnInv'
  OBVIOUS
<1>1. CASE UNCHANGED vars
  BY <1>1 DEF vars, hostVars, userVars, connVars, emuVars, ConnInv, Typed, TypeOK, StepsKnow,
              Provides, Reloading, Leaving, AtFirstPort, Parked
<1> QED
  BY <1>1, HostConnInv, UserConnInv, NetworkConnInv, EmulationConnInv DEF Next

(* The inductive invariant that needs no assumption on run-ahead.          *)
THEOREM ConnInvariant == Spec => []ConnInv
  BY InitConnInv, NextConnInv, PTL DEF Spec

(* Type correctness: the queue a client asks for stays within its limit,   *)
(* and it emulates exactly while it has a game.                            *)
THEOREM TypeCorrect == Spec => []TypeOK
<1>1. ConnInv => TypeOK
  BY DEF ConnInv, Typed
<1> QED
  BY <1>1, ConnInvariant, PTL

(* GameClientConnection.cpp:34-45: Shutdown leaves neither the raised      *)
(* speed nor an input provider behind, whatever the emulation was doing,   *)
(* unless a load by the user has ended the connection.                     *)
THEOREM ShutdownReleases == Spec => []HoldReleased
<1>1. ConnInv => HoldReleased
  BY DEF ConnInv, Leaving, HoldReleased
<1> QED
  BY <1>1, ConnInvariant, PTL

-----------------------------------------------------------------------------
(***************************************************************************)
(* The stream of inputs.                                                   *)
(***************************************************************************)
(* Messages in order, written after messages in order.                     *)
LEMMA SendInOrder ==
  ASSUME net \in Seq(Messages), InOrder, NEW ms \in Seq(Messages), ms # <<>>, Send(ms),
         \A i \in 1 .. Len(ms) - 1 : ms[i + 1].type = "MovieData" => Continues(ms[i], ms[i + 1]),
         net # <<>> /\ ms[1].type = "MovieData" => Continues(net[Len(net)], ms[1])
  PROVE  /\ InOrder' /\ net' # <<>>
         /\ net'[Len(net')] = ms[Len(ms)]
         /\ net'[1] = IF net = <<>> THEN ms[1] ELSE net[1]
<1>1. /\ net' \in Seq(Messages) /\ Len(net') = Len(net) + Len(ms)
      /\ \A i \in 1 .. Len(net) + Len(ms) :
           net'[i] = IF i <= Len(net) THEN net[i] ELSE ms[i - Len(net)]
  BY ConcatProperties DEF Send
<1>2. Len(net) \in Nat /\ Len(ms) \in Nat \ {0} /\ (net = <<>> <=> Len(net) = 0)
  BY EmptySeq, LenProperties
<1>3. ASSUME NEW i \in 1 .. Len(net') - 1, net'[i + 1].type = "MovieData"
      PROVE  Continues(net'[i], net'[i + 1])
  <2>1. CASE i < Len(net)
    <3>1. net'[i] = net[i] /\ net'[i + 1] = net[i + 1] /\ i \in 1 .. Len(net) - 1
      BY <1>1, <1>2, <2>1
    <3> QED
      BY <1>3, <3>1 DEF InOrder
  <2>2. CASE i = Len(net)
    <3>1. i + 1 \in 1 .. Len(net) + Len(ms) /\ i + 1 - Len(net) = 1 /\ ~(i + 1 <= Len(net))
      BY <1>2, <2>2
    <3>2. net'[i] = net[Len(net)] /\ net # <<>>
      BY <1>1, <1>2, <2>2
    <3>3. net'[i + 1] = ms[1]
      BY <1>1, <3>1
    <3> QED
      BY <1>3, <3>2, <3>3
  <2>3. CASE i > Len(net)
    <3> DEFINE j == i - Len(net)
    <3>1. net'[i] = ms[j] /\ net'[i + 1] = ms[j + 1] /\ j \in 1 .. Len(ms) - 1
      BY <1>1, <1>2, <2>3
    <3> QED
      BY <1>3, <3>1
  <2> QED
    BY <1>2, <2>1, <2>2, <2>3
<1>4. InOrder'
  BY <1>3 DEF InOrder
<1> QED
  BY <1>1, <1>2, <1>4, SMTT(30)

(* What is left when a message was read.                                   *)
LEMMA ReadInOrder ==
  ASSUME net \in Seq(Messages), net # <<>>, InOrder, LastSent, net' = Tail(net),
         UNCHANGED <<host, handshaken>>
  PROVE  /\ InOrder' /\ LastSent' /\ Head(net) = net[1] /\ net[1] \in Messages
         /\ net' = <<>> => (Sends => Latest(net[1]))
         /\ net' # <<>> => (net'[1].type = "MovieData" => Continues(net[1], net'[1]))
         /\ net' # <<>> => net'[1] \in Messages
<1>1. /\ net' \in Seq(Messages) /\ Len(net') = Len(net) - 1
      /\ \A i \in 1 .. Len(net') : net'[i] = net[i + 1]
  BY HeadTailProperties
<1>2. Len(net) \in Nat \ {0} /\ (net' = <<>> <=> Len(net') = 0)
  BY <1>1, EmptySeq
<1>3. Head(net) = net[1] /\ net[1] \in Messages
  BY <1>2, ElementOfSeq
<1>4. InOrder'
  BY <1>1, <1>2 DEF InOrder
<1>5. LastSent'
  BY <1>1, <1>2 DEF LastSent, Sends, Latest
<1>6. net' = <<>> => (Sends => Latest(net[1]))
  BY <1>1, <1>2 DEF LastSent
<1>7. ASSUME net' # <<>>
      PROVE  /\ net'[1].type = "MovieData" => Continues(net[1], net'[1])
             /\ net'[1] \in Messages
  <2>1. net'[1] = net[1 + 1] /\ 1 \in 1 .. Len(net) - 1
    BY <1>1, <1>2, <1>7
  <2> QED
    BY <1>1, <1>2, <1>7, <2>1, ElementOfSeq DEF InOrder
<1> QED
  BY <1>3, <1>4, <1>5, <1>6, <1>7

(* The input of one poll, as it is sent.                                   *)
LEMMA SentInputs ==
  ASSUME NEW h \in Hosts, ~RunAhead
  PROVE  /\ MovieData(h) \in Seq(Messages) /\ MovieData(h) # <<>>
         /\ Len(MovieData(h)) = NumPorts
         /\ \A i \in 1 .. NumPorts :
              /\ MovieData(h)[i].type = "MovieData" /\ MovieData(h)[i].port = i - 1
              /\ MovieData(h)[i].poll = <<h.epoch, h.polls>>
<1>1. MovieData(h) \in Seq(Messages) /\ Len(MovieData(h)) = NumPorts
  BY SentMessages
<1>2. MovieData(h) # <<>>
  BY <1>1, EmptySeq
<1>3. \A i \in 1 .. NumPorts :
        MovieData(h)[i] = [type |-> "MovieData", port |-> i - 1, poll |-> <<h.epoch, h.polls>>]
  BY DEF MovieData
<1> QED
  BY <1>1, <1>2, <1>3

(* What the host writes continues what it wrote.                           *)
LEMMA HostSync ==
  ASSUME SyncInv, ~RunAhead, Host
  PROVE  SyncInv'
<1> USE DEF SyncInv, RunLockFree, userVars
<1>1. ConnInv'
  BY HostConnInv
<1>2. net \in Seq(Messages) /\ host \in Hosts /\ host' \in Hosts
  BY <1>1 DEF ConnInv, Typed
<1>3. UNCHANGED <<userVars, cpc, msg, connVars, emuVars>>
  BY DEF Host, HostFrame, HostLoadsState, HostLoadsGame, HostPausesOrResumes, Announce,
         HostStops, Handshake, Close
<1>4. Queued' /\ ~preview'
  BY <1>3 DEF Queued, Taken, connVars, emuVars
(* After a message that is not an input.                                   *)
<1>5. ASSUME net' # <<>>, net'[1].type = "GameInformation" \/ (net # <<>> /\ net'[1] = net[1])
      PROVE  Loading' /\ OnItsWay'
  BY <1>3, <1>5 DEF Loading, OnItsWay, Delivered, Taken, connVars, emuVars
<1>6. ASSUME NEW h \in Hosts, Send(GameInformation(h)), host' = h
      PROVE  SyncInv'
  <2> DEFINE ms == GameInformation(h)
  <2>1. /\ ms \in Seq(Messages) /\ ms # <<>> /\ Len(ms) = 2
        /\ ms[1].type = "GameInformation"
        /\ ms[2].type = "SaveState" /\ ms[2].state = <<h.epoch, h.polls>>
    BY SentMessages DEF GameInformation
  <2>2. \A i \in 1 .. Len(ms) - 1 : ms[i + 1].type # "MovieData"
    BY <2>1
  <2> HIDE DEF ms
  <2>3. /\ InOrder' /\ net' # <<>> /\ net'[Len(net')] = ms[2]
        /\ net'[1] = IF net = <<>> THEN ms[1] ELSE net[1]
    BY <1>2, <1>6, <2>2, <2>1, SendInOrder DEF ms
  <2>4. LastSent'
    BY <1>6, <2>1, <2>3 DEF LastSent, Latest
  <2>5. Loading' /\ OnItsWay'
    <3>1. net'[1].type = "GameInformation" \/ (net # <<>> /\ net'[1] = net[1])
      BY <2>1, <2>3
    <3> QED
      BY <1>5, <2>3, <3>1
  <2> QED
    BY <1>1, <1>4, <2>3, <2>4, <2>5
<1>7. ASSUME NEW h \in Hosts, Announce(h)
      PROVE  SyncInv'
  BY <1>6, <1>7 DEF Announce
<1>8. ASSUME UNCHANGED net, ~Sends' \/ UNCHANGED hostVars
      PROVE  SyncInv'
  BY <1>1, <1>3, <1>4, <1>8
     DEF InOrder, LastSent, Latest, Sends, Loading, OnItsWay, Delivered, Taken, hostVars,
         connVars, emuVars
<1>9. CASE HostFrame /\ ~handshaken
  BY <1>8, <1>9 DEF HostFrame, Sends
<1>10. CASE HostFrame /\ handshaken
  <2> DEFINE ms == MovieData(host')
             now == <<host.epoch, host.polls>>
  <2>1. /\ host'.epoch = host.epoch /\ host'.polls = host.polls + 1 /\ host'.game = host.game
        /\ Send(ms) /\ Sends
    BY <1>2, <1>10 DEF HostFrame, Hosts, Sends
  <2>2. now \in Polls /\ <<host'.epoch, host'.polls>> = NextPoll(now)
    BY <1>2, <2>1, PollParts DEF Hosts, Polls, NextPoll
  <2>3. /\ ms \in Seq(Messages) /\ ms # <<>> /\ Len(ms) = NumPorts
        /\ \A i \in 1 .. NumPorts :
             ms[i].type = "MovieData" /\ ms[i].port = i - 1 /\ ms[i].poll = NextPoll(now)
    BY <1>2, <2>2, SentInputs
  <2>4. \A i \in 1 .. Len(ms) - 1 : Continues(ms[i], ms[i + 1])
    BY <2>3 DEF Continues
  <2> DEFINE first == ms[1]
  <2>5. first.type = "MovieData" /\ first.port = 0 /\ first.poll = NextPoll(now)
    BY <2>3
  <2> HIDE DEF first
  <2>6. ASSUME NEW m, Latest(m) PROVE Continues(m, first)
    BY <2>5, <2>6 DEF Continues, Latest
  <2>7. /\ InOrder' /\ net' # <<>> /\ net'[Len(net')] = ms[Len(ms)]
        /\ net'[1] = IF net = <<>> THEN first ELSE net[1]
    BY <1>2, <2>1, <2>3, <2>4, <2>6, SendInOrder DEF LastSent, first
  <2>8. LastSent'
    BY <2>2, <2>3, <2>7, SMTT(30) DEF LastSent, Latest
  <2>9. CASE net = <<>>
    <3>1. Loading'
      BY <1>3, <2>1, <2>6, <2>7, <2>9 DEF Loading
    <3>2. OnItsWay'
      BY <1>3, <2>5, <2>1, <2>7, <2>9 DEF OnItsWay, Delivered, Taken, Ports, connVars, emuVars
    <3> QED
      BY <1>1, <1>4, <2>7, <2>8, <3>1, <3>2
  <2>10. CASE net # <<>>
    BY <1>1, <1>4, <1>5, <2>7, <2>8, <2>10
  <2> QED
    BY <2>9, <2>10
<1>11. CASE HostLoadsState
  BY <1>2, <1>7, <1>11, HostChanges DEF HostLoadsState
<1>12. CASE HostLoadsGame
  BY <1>2, <1>7, <1>12, HostChanges DEF HostLoadsGame
<1>13. CASE HostPausesOrResumes
  BY <1>2, <1>7, <1>13, HostChanges DEF HostPausesOrResumes
<1>14. CASE HostStops
  <2> DEFINE m == [type |-> "GameInformation", game |-> NoGame, paused |-> TRUE]
  <2>2. <<m>> \in Seq(Messages) /\ <<m>> # <<>> /\ Len(<<m>>) = 1 /\ Send(<<m>>)
    BY <1>14 DEF HostStops, Messages
  <2>1. <<m>>[1] = m /\ m.type = "GameInformation"
    OBVIOUS
  <2>3. InOrder' /\ net' # <<>> /\ net'[1] = IF net = <<>> THEN <<m>>[1] ELSE net[1]
    <3> DEFINE ms == <<m>>
    <3>1. \A i \in 1 .. Len(ms) - 1 : ms[i + 1].type # "MovieData"
      BY <2>2
    <3>2. ms[1].type # "MovieData"
      BY <2>1
    <3> HIDE DEF ms
    <3> QED
      BY <1>2, <2>2, <3>1, <3>2, SendInOrder DEF ms
  <2>4. LastSent'
    BY <1>2, <1>14 DEF LastSent, Sends, HostStops, Hosts
  <2>5. Loading' /\ OnItsWay'
    <3>1. net'[1].type = "GameInformation" \/ (net # <<>> /\ net'[1] = net[1])
      BY <2>1, <2>3
    <3> QED
      BY <1>5, <2>3, <3>1
  <2> QED
    BY <1>1, <1>4, <2>3, <2>4, <2>5
<1>15. CASE Handshake
  BY <1>2, <1>6, <1>8, <1>15 DEF Handshake, Sends
<1>16. CASE Close
  BY <1>8, <1>16 DEF Close
<1> QED
  BY <1>9, <1>10, <1>11, <1>12, <1>13, <1>14, <1>15, <1>16 DEF Host

(* The last poll a port has had or will have is a poll.                    *)
LEMMA DeliveredPoll ==
  ASSUME ConnInv, state # Off, NEW p \in Ports
  PROVE  /\ state[1] \in Nat /\ state[2] \in Nat /\ Taken(p) \in {0, 1}
         /\ queue[p] \in Seq(Polls) /\ Len(queue[p]) \in Nat
         /\ NextPoll(Delivered(p)) = <<state[1], state[2] + Taken(p) + Len(queue[p]) + 1>>
<1>1. state[1] \in Nat /\ state[2] \in Nat
  BY PollParts DEF ConnInv, Typed
<1>2. Taken(p) \in {0, 1}
  BY DEF Taken
<1>3. queue[p] \in Seq(Polls) /\ Len(queue[p]) \in Nat
  BY DEF ConnInv, Typed
<1>4. state[2] + Taken(p) + Len(queue[p]) \in Nat
  BY <1>1, <1>2, <1>3
<1>5. Delivered(p) # Off
  <2>1. Delivered(p) \in Polls
    BY <1>1, <1>4 DEF Delivered, Polls
  <2> QED
    BY <2>1, PollParts
<1> QED
  BY <1>1, <1>2, <1>3, <1>4, <1>5 DEF NextPoll, Delivered

(* What the network thread reads continues the queues, and what it loads   *)
(* is what the next input continues.                                       *)
LEMMA NetworkSync ==
  ASSUME SyncInv, ~RunAhead, NetworkThread
  PROVE  SyncInv'
<1> USE DEF SyncInv, RunLockFree, userVars
<1>1. ConnInv'
  BY NetworkConnInv
<1>2. /\ net \in Seq(Messages) /\ queue \in [Ports -> Seq(Polls)] /\ port \in Ports
      /\ state \in Polls \cup {Off}
      /\ cpc = "idle" => ~shutdown
      /\ cpc \notin {"idle", "disable"} => ~enabled
  BY DEF ConnInv, Typed, TypeOK, StepsKnow, Provides
<1>3. ASSUME UNCHANGED <<host, handshaken, net>>
      PROVE  InOrder' /\ LastSent'
  BY <1>3 DEF InOrder, LastSent, Sends, Latest
<1>4. ASSUME UNCHANGED <<hostVars, net, preview>>, ~enabled',
             cpc' = "idle" \/ msg'.type # "SaveState"
               \/ (cpc # "idle" /\ UNCHANGED msg)
      PROVE  SyncInv'
  BY <1>1, <1>3, <1>4 DEF Loading, Queued, OnItsWay, Sends, Latest, hostVars
<1>5. CASE ReadServerInformation
  <2>1. /\ InOrder' /\ LastSent' /\ net[1].type = "ServerInformation"
        /\ net' = <<>> => ~Sends
        /\ net' # <<>> => net'[1].type # "MovieData"
    BY <1>2, <1>5, ReadInOrder DEF ReadServerInformation, Latest, Continues
  <2>2. UNCHANGED <<host, handshaken, userVars, cpc, msg, connVars, emuVars>>
    BY <1>5 DEF ReadServerInformation
  <2> QED
    BY <1>1, <1>5, <2>1, <2>2 DEF ReadServerInformation, Loading, Queued, OnItsWay, Taken,
                                  Sends, connVars, emuVars
<1>6. CASE ReadMovieData
  <2> DEFINE m == net[1]
  <2>1. /\ InOrder' /\ LastSent' /\ Head(net) = m /\ m \in Messages /\ m.type = "MovieData"
        /\ net' = <<>> => (Sends => Latest(m))
        /\ net' # <<>> => (net'[1].type = "MovieData" => Continues(m, net'[1]))
        /\ net' # <<>> => net'[1] \in Messages
    BY <1>2, <1>6, ReadInOrder DEF ReadMovieData, hostVars
  <2>2. m.port \in Ports /\ m.poll \in Polls
    BY <2>1, MessageParts
  <2> HIDE DEF m
  <2>3. Loading' /\ ~preview'
    BY <1>6 DEF ReadMovieData, Loading, emuVars
  <2>4. CASE ~enabled \/ ~RunLockFree
    BY <1>1, <1>6, <2>1, <2>3, <2>4 DEF ReadMovieData, Queued, OnItsWay
  <2>5. CASE enabled /\ RunLockFree
    <3>1. /\ queue' = [queue EXCEPT ![m.port] = Append(@, m.poll)]
          /\ UNCHANGED <<hostVars, userVars, cpc, enabled, shutdown, emuVars>>
      BY <1>6, <2>1, <2>5 DEF ReadMovieData, PushControllerState, ConnInv, Provides
    <3>2. \A p \in Ports : m.poll = IF p < m.port THEN Delivered(p) ELSE NextPoll(Delivered(p))
      BY <1>6, <2>1, <2>5 DEF ReadMovieData, OnItsWay, m
    <3>3. state \in Polls /\ state # Off /\ cpc = "idle" /\ ~shutdown
      BY <1>2, <1>6, <2>5 DEF ReadMovieData, Queued
    <3>4. \A p \in Ports : Taken(p)' = Taken(p)
      BY <3>1 DEF Taken, emuVars
    <3>5. \A p \in Ports :
            /\ Taken(p) \in {0, 1} /\ Len(queue[p]) \in Nat /\ queue[p] \in Seq(Polls)
            /\ NextPoll(Delivered(p)) = <<state[1], state[2] + Taken(p) + Len(queue[p]) + 1>>
      BY <3>3, DeliveredPoll
    <3>6. /\ queue'[m.port] = Append(queue[m.port], m.poll)
          /\ Len(queue'[m.port]) = Len(queue[m.port]) + 1
          /\ \A p \in Ports : p # m.port => queue'[p] = queue[p]
      BY <1>2, <2>2, <3>1
    <3>7. \A p \in Ports :
            Delivered(p)' = IF p = m.port THEN NextPoll(Delivered(p)) ELSE Delivered(p)
      <4>1. ASSUME NEW p \in Ports
            PROVE  Delivered(p)' = <<state[1], state[2] + Taken(p) + Len(queue'[p])>>
        BY <3>1, <3>4 DEF Delivered, emuVars
      <4>2. ASSUME NEW p \in Ports, p = m.port PROVE Delivered(p)' = NextPoll(Delivered(p))
        <5>1. state[2] \in Nat /\ Taken(p) \in {0, 1} /\ Len(queue[p]) \in Nat
          BY <3>3, <3>5, PollParts
        <5>2. Len(queue'[p]) = Len(queue[p]) + 1
          BY <3>6, <4>2
        <5>3. state[2] + Taken(p) + Len(queue'[p])
                = state[2] + Taken(p) + Len(queue[p]) + 1
          BY <5>1, <5>2, SMTT(30)
        <5> QED
          BY <3>5, <4>1, <5>3
      <4>3. ASSUME NEW p \in Ports, p # m.port PROVE Delivered(p)' = Delivered(p)
        BY <3>6, <4>1, <4>3 DEF Delivered
      <4> QED
        BY <4>2, <4>3
    <3>8. Queued'
      <4>1. ASSUME NEW p \in Ports, NEW i \in 1 .. Len(queue'[p])
            PROVE  queue'[p][i] = <<state[1], state[2] + Taken(p) + i>>
        <5>1. CASE p = m.port /\ i = Len(queue[p]) + 1
          <6>1. queue'[p][i] = m.poll
            BY <2>2, <3>5, <3>6, <5>1
          <6>2. m.poll = NextPoll(Delivered(p))
            BY <2>2, <3>2, <5>1 DEF Ports
          <6> QED
            <7>1. state[2] \in Nat /\ Taken(p) \in {0, 1} /\ Len(queue[p]) \in Nat
              BY <3>3, <3>5, PollParts
            <7>2. state[2] + Taken(p) + Len(queue[p]) + 1 = state[2] + Taken(p) + i
              BY <5>1, <7>1, SMTT(30)
            <7> QED
              BY <3>5, <6>1, <6>2, <7>2
        <5>2. CASE ~(p = m.port /\ i = Len(queue[p]) + 1)
          <6>1. i \in 1 .. Len(queue[p]) /\ queue'[p][i] = queue[p][i]
            <7>1. CASE p # m.port
              BY <3>6, <7>1
            <7>2. CASE p = m.port
              <8>1. /\ Len(queue[p]) \in Nat /\ queue[p] \in Seq(Polls)
                    /\ Len(queue'[p]) = Len(queue[p]) + 1
                    /\ queue'[p] = Append(queue[p], m.poll)
                BY <3>5, <3>6, <7>2
              <8>2. i \in 1 .. Len(queue[p])
                BY <5>2, <7>2, <8>1
              <8> QED
                BY <2>2, <8>1, <8>2
            <7> QED
              BY <7>1, <7>2
          <6> QED
            BY <2>5, <3>3, <6>1 DEF Queued
        <5> QED
          BY <5>1, <5>2
      <4>2. epc = "pop" => queue'[port] # <<>>
        BY <1>2, <2>2, <2>5, <3>3, <3>6 DEF Queued
      <4> QED
        BY <2>5, <3>1, <3>3, <3>4, <4>1, <4>2 DEF Queued, emuVars
    <3>9. OnItsWay'
      <4>1. ASSUME NEW p \in Ports
            PROVE  /\ p <= m.port => Delivered(p)' = m.poll
                   /\ p > m.port => m.poll = NextPoll(Delivered(p)')
        BY <2>2, <3>2, <3>7 DEF Ports
      <4>2. CASE net' = <<>>
        <5>1. Sends => m.port = NumPorts - 1 /\ m.poll = <<host.epoch, host.polls>>
          BY <2>1, <4>2 DEF Latest
        <5>2. ASSUME Sends, NEW p \in Ports
              PROVE  Delivered(p)' = <<host.epoch, host.polls>>
          <6>1. p <= NumPorts - 1
            BY <5>2 DEF Ports
          <6>2. Delivered(p)' = m.poll
            BY <4>1, <5>1, <5>2, <6>1
          <6> QED
            BY <5>1, <5>2, <6>2
        <5> QED
          BY <3>1, <4>2, <5>2 DEF OnItsWay, Sends, hostVars
      <4>3. ASSUME net' # <<>>, net'[1].type = "MovieData", NEW p \in Ports
            PROVE  net'[1].poll = IF p < net'[1].port THEN Delivered(p)'
                                                      ELSE NextPoll(Delivered(p)')
        <5>1. Continues(m, net'[1]) /\ net'[1].port \in Ports
          BY <2>1, <4>3, MessageParts
        <5> QED
          BY <2>1, <2>2, <4>1, <5>1 DEF Continues, Ports
      <4> QED
        BY <4>2, <4>3 DEF OnItsWay
    <3> QED
      BY <1>1, <2>1, <2>3, <3>8, <3>9
  <2> QED
    BY <2>4, <2>5
<1>7. CASE ReadState
  <2>1. /\ InOrder' /\ LastSent' /\ Head(net) = net[1] /\ net[1] \in Messages
        /\ net' = <<>> => (Sends => Latest(net[1]))
        /\ net' # <<>> => (net'[1].type = "MovieData" => Continues(net[1], net'[1]))
    BY <1>2, <1>7, ReadInOrder DEF ReadState, hostVars
  <2>2. UNCHANGED <<host, handshaken, userVars, connVars, emuVars>>
    BY <1>7 DEF ReadState, hostVars
  <2>3. Queued'
    BY <2>2 DEF Queued, Taken, connVars, emuVars
  <2>4. CASE net[1].type = "SaveState" /\ ~gameLoaded
    <3>1. ~enabled
      BY <2>4 DEF ConnInv, Provides
    <3> QED
      BY <1>1, <1>7, <2>1, <2>2, <2>3, <2>4, <3>1
         DEF ReadState, Loading, OnItsWay, connVars, emuVars
  <2>5. CASE ~(net[1].type = "SaveState" /\ ~gameLoaded)
    <3>1. cpc' = "disable" /\ msg' = net[1]
      BY <1>7, <2>1, <2>5 DEF ReadState
    <3>2. Loading'
      BY <2>1, <2>2, <3>1 DEF Loading, Sends, Latest
    <3> QED
      BY <1>1, <2>1, <2>2, <2>3, <3>1, <3>2 DEF OnItsWay, emuVars
  <2> QED
    BY <2>4, <2>5
<1>8. CASE ExecEnds
  BY <1>1, <1>3, <1>8 DEF ExecEnds, Loading, Queued, OnItsWay, hostVars, emuVars
<1>9. CASE Disable
  BY <1>4, <1>9 DEF Disable, emuVars
<1>10. CASE ClearInputData
  BY <1>2, <1>4, <1>10 DEF ClearInputData, emuVars
<1>11. CASE SignalAll
  BY <1>2, <1>4, <1>11 DEF SignalAll, emuVars
<1>12. CASE LoadState
  <2>1. msg.state \in Polls /\ msg.state # Off /\ msg.state = <<msg.state[1], msg.state[2]>>
        /\ msg.state[2] \in Nat
    BY <1>12, MessageParts, PollParts DEF LoadState, ConnInv, StepsKnow
  <2>2. port = 0 /\ epc # "pop"
    BY <1>12 DEF LoadState, Parked, ConnInv, AtFirstPort
  <2>3. /\ queue' = Empty /\ state' = msg.state /\ cpc' = "idle"
        /\ UNCHANGED <<host, handshaken, net, port, epc, got, preview>>
    BY <1>12 DEF LoadState, hostVars
  <2>4. \A p \in Ports : ~(p < 0) /\ queue'[p] = <<>> /\ Len(queue'[p]) = 0
    BY <2>3 DEF Ports, Empty
  <2>5. Queued'
    BY <2>1, <2>2, <2>3, <2>4 DEF Queued
  <2>6. \A p \in Ports : Delivered(p)' = msg.state
    BY <2>1, <2>2, <2>3, <2>4 DEF Delivered, Taken
  <2>7. ASSUME net # <<>>, net[1].type = "MovieData"
        PROVE  net[1].port = 0 /\ net[1].poll = NextPoll(msg.state)
    <3>1. net[1] \in Messages
      BY <1>2, <2>7, EmptySeq, ElementOfSeq
    <3>2. net[1].port \in Ports /\ Continues(msg, net[1])
      BY <1>12, <2>7, <3>1, MessageParts DEF Loading, LoadState
    <3> QED
      BY <1>12, <3>2 DEF Continues, LoadState
  <2>8. net = <<>> => (Sends => msg.state = <<host.epoch, host.polls>>)
    BY <1>12 DEF Loading, LoadState, Latest
  <2>9. OnItsWay'
    BY <2>3, <2>4, <2>6, <2>7, <2>8 DEF OnItsWay, Sends
  <2> QED
    BY <1>1, <1>3, <2>3, <2>5, <2>9 DEF Loading
<1>13. CASE SetControllerPort
  BY <1>2, <1>4, <1>13 DEF SetControllerPort, emuVars
<1>14. CASE SameGame \/ LoadGame \/ NoSuchGame
  BY <1>2, <1>4, <1>14 DEF SameGame, LoadGame, NoSuchGame, emuVars
<1>15. CASE StopGame \/ Unregister \/ Register \/ ClearSpeed
  BY <1>2, <1>4, <1>15 DEF StopGame, Unregister, Register, ClearSpeed, connVars, emuVars
<1> QED
  BY <1>5, <1>6, <1>7, <1>8, <1>9, <1>10, <1>11, <1>12, <1>13, <1>14, <1>15 DEF NetworkThread

(* The emulation thread takes the next input of each port in turn.         *)
LEMMA EmulationSync ==
  ASSUME SyncInv, ~RunAhead, EmulationThread
  PROVE  SyncInv'
<1> USE DEF SyncInv, RunLockFree, userVars
<1>1. ConnInv'
  BY EmulationConnInv
<1>2. UNCHANGED emuOnly
  BY DEF EmulationThread, StartFrame, ReadEnabled, ReadSize, WaitForInput, CheckAfterWait, Pop
<1>3. InOrder' /\ LastSent' /\ Loading'
  BY <1>2 DEF InOrder, LastSent, Loading, Sends, Latest, emuOnly, hostVars
<1>4. ~preview'
  BY DEF EmulationThread, StartFrame, ReadEnabled, ReadSize, WaitForInput, CheckAfterWait, Pop,
         Leave, NextPort
<1>5. /\ queue \in [Ports -> Seq(Polls)] /\ port \in Ports
      /\ got \in [Ports -> Polls \cup {Off}]
      /\ enabled /\ cpc = "idle" => ~shutdown
  BY DEF ConnInv, Typed, TypeOK, StepsKnow
<1>6. ASSUME Queued', \A p \in Ports : Delivered(p)' = Delivered(p), enabled, ~shutdown, RunLockFree
      PROVE  SyncInv'
  <2>1. OnItsWay'
    BY <1>2, <1>6 DEF OnItsWay, Sends, emuOnly, hostVars
  <2> QED
    BY <1>1, <1>3, <1>4, <1>6, <2>1
<1>7. CASE ~enabled \/ shutdown \/ ~RunLockFree
  BY <1>1, <1>2, <1>3, <1>4, <1>5, <1>7 DEF Queued, OnItsWay, emuOnly
<1>8. CASE enabled /\ ~shutdown /\ RunLockFree
  <2>1. state # Off /\ (epc = "pop" => queue[port] # <<>>)
    BY <1>8 DEF Queued
  <2>2. ASSUME UNCHANGED <<queue, port, got, state>>, epc' = "pop" => queue[port] # <<>>
        PROVE  SyncInv'
    <3>1. Queued'
      BY <1>8, <2>2 DEF Queued, Taken
    <3> QED
      BY <1>6, <1>8, <2>2, <3>1 DEF Delivered, Taken
  <2>3. CASE StartFrame
    <3>1. provider
      BY <1>5, <1>8, <2>3 DEF StartFrame, Parked, ConnInv, Typed, TypeOK, StepsKnow, Provides, Reloading
    <3>2. port = 0
      BY <2>3 DEF StartFrame, ConnInv, AtFirstPort, Parked
    <3>3. UNCHANGED <<queue, port, state>> /\ epc' = "enabled"
      BY <2>3, <3>1, <3>2 DEF StartFrame
    <3>4. Queued'
      BY <1>8, <3>2, <3>3 DEF Queued, Taken, Ports
    <3> QED
      BY <1>6, <1>8, <3>3, <3>4 DEF Delivered, Taken
  <2>4. CASE ReadEnabled
    BY <1>8, <2>2, <2>4 DEF ReadEnabled
  <2>5. CASE ReadSize
    BY <2>2, <2>5 DEF ReadSize
  <2>6. CASE WaitForInput
    BY <2>2, <2>6 DEF WaitForInput
  <2>7. CASE CheckAfterWait
    BY <1>8, <2>2, <2>7 DEF CheckAfterWait
  <2>8. CASE Pop
    <3> DEFINE g == [got EXCEPT ![port] = Head(queue[port])]
    <3>1. queue' = [queue EXCEPT ![port] = Tail(@)] /\ NextPort(g)
      BY <1>8, <2>1, <2>8 DEF Pop
    <3>2. /\ state \in Polls /\ state[1] \in Nat /\ state[2] \in Nat
          /\ NextPoll(state) = <<state[1], state[2] + 1>>
          /\ NextPoll(state) # Off
      BY <2>1, PollParts DEF ConnInv, Typed, NextPoll
    <3>3. Taken(port) = 0 /\ \A p \in Ports : p # port => Taken(p) = IF p < port THEN 1 ELSE 0
      BY <1>5 DEF Taken, Ports
    <3>4. /\ queue[port] \in Seq(Polls) /\ queue[port] # <<>>
          /\ Len(queue[port]) \in Nat \ {0}
      BY <1>5, <2>1, <2>8, EmptySeq DEF Pop
    <3>5. /\ Len(Tail(queue[port])) = Len(queue[port]) - 1
          /\ \A i \in 1 .. Len(queue[port]) - 1 : Tail(queue[port])[i] = queue[port][i + 1]
      BY <3>4, HeadTailProperties
    <3>6. Head(queue[port]) = NextPoll(state)
      <4>1. queue[port][1] = <<state[1], state[2] + Taken(port) + 1>>
        BY <1>5, <1>8, <3>4 DEF Queued
      <4> QED
        BY <3>2, <3>3, <3>4, <4>1
    <3>7. \A p \in Ports : p <= port => g[p] = NextPoll(state)
      <4>1. \A p \in Ports : p < port => got[p] = NextPoll(state)
        BY <1>8 DEF Queued
      <4> QED
        BY <1>5, <3>6, <4>1 DEF Ports
    <3> HIDE DEF g
    <3>8. /\ state' # Off /\ state'[1] = state[1] /\ epc' # "pop"
          /\ \A p \in Ports : p < port' => got'[p] = NextPoll(state')
          /\ \A p \in Ports : state'[2] + Taken(p)'
                                = state[2] + Taken(p) + (IF p = port THEN 1 ELSE 0)
      <4>1. CASE port < NumPorts - 1
        <5>1. port' = port + 1 /\ state' = state /\ got' = g /\ epc' = "enabled"
          BY <3>1, <4>1 DEF NextPort
        <5>2. \A p \in Ports : p < port' => got'[p] = NextPoll(state')
          BY <1>5, <3>7, <5>1 DEF Ports
        <5>3. ASSUME NEW p \in Ports
              PROVE  state'[2] + Taken(p)' = state[2] + Taken(p) + (IF p = port THEN 1 ELSE 0)
          BY <1>5, <3>2, <5>1 DEF Taken, Ports
        <5> QED
          BY <2>1, <5>1, <5>2, <5>3
      <4>2. CASE ~(port < NumPorts - 1)
        <5>1. \A p \in Ports : p <= port
          BY <1>5, <4>2 DEF Ports
        <5>2. port' = 0 /\ state' = NextPoll(state) /\ epc' = "parked"
          BY <3>1, <3>7, <4>2, <5>1 DEF NextPort
        <5> QED
          BY <1>5, <3>2, <3>3, <5>1, <5>2, SMTT(30) DEF Taken, Ports
      <4> QED
        BY <4>1, <4>2
    <3>9. ASSUME NEW p \in Ports
          PROVE  /\ Delivered(p)' = Delivered(p)
                 /\ \A i \in 1 .. Len(queue'[p]) :
                      queue'[p][i] = <<state'[1], state'[2] + Taken(p)' + i>>
      <4>1. /\ Taken(p) \in {0, 1} /\ Len(queue[p]) \in Nat
            /\ state'[2] + Taken(p)' = state[2] + Taken(p) + (IF p = port THEN 1 ELSE 0)
            /\ \A i \in 1 .. Len(queue[p]) :
                 queue[p][i] = <<state[1], state[2] + Taken(p) + i>>
        BY <1>8, <2>1, <3>8, DeliveredPoll DEF Queued
      <4>2. CASE p = port
        <5>1. queue'[p] = Tail(queue[port])
          BY <1>5, <3>1, <4>2
        <5>2. Taken(p) = 0 /\ Len(queue'[p]) = Len(queue[p]) - 1
          BY <3>3, <3>5, <4>2, <5>1
        <5>3. state'[2] + Taken(p)' = state[2] + Taken(p) + 1
          BY <4>1, <4>2
        <5>4. state[2] \in Nat /\ Len(queue[p]) \in Nat
          BY <3>2, <4>1
        <5>5. Delivered(p)' = Delivered(p)
          <6>1. state'[2] + Taken(p)' + Len(queue'[p]) = state[2] + Taken(p) + Len(queue[p])
            BY <5>2, <5>3, <5>4
          <6> QED
            BY <3>8, <6>1 DEF Delivered
        <5>6. ASSUME NEW i \in 1 .. Len(queue'[p])
              PROVE  queue'[p][i] = <<state'[1], state'[2] + Taken(p)' + i>>
          <6>1. queue'[p][i] = queue[p][i + 1] /\ i + 1 \in 1 .. Len(queue[p])
            BY <3>5, <4>1, <4>2, <5>1, <5>2
          <6>2. state'[2] + Taken(p)' + i = state[2] + Taken(p) + (i + 1)
            BY <5>2, <5>3, <5>4
          <6> QED
            BY <3>8, <4>1, <6>1, <6>2
        <5> QED
          BY <5>5, <5>6
      <4>3. CASE p # port
        <5>1. queue'[p] = queue[p]
          BY <1>5, <3>1, <4>3
        <5> QED
          BY <3>2, <3>8, <4>1, <4>3, <5>1 DEF Delivered
      <4> QED
        BY <4>2, <4>3
    <3>10. Queued'
      BY <3>8, <3>9 DEF Queued
    <3> QED
      BY <1>6, <1>8, <3>9, <3>10
  <2> QED
    BY <2>3, <2>4, <2>5, <2>6, <2>7, <2>8 DEF EmulationThread
<1> QED
  BY <1>7, <1>8

(* A load by the user ends the connection.                                 *)
LEMMA UserSync ==
  ASSUME SyncInv, User
  PROVE  SyncInv'
<1> USE DEF SyncInv, hostVars, connVars
<1>1. ConnInv' /\ ~preview'
  <2>1. preview' = preview
    BY DEF User, Disconnect, UserLoads, Notify, Forward, emuVars
  <2> QED
    BY <2>1, UserConnInv
<1>2. UNCHANGED <<hostVars, net, cpc, msg, connVars>>
  BY DEF User, Disconnect, UserLoads, Notify, Forward
<1>3. InOrder' /\ LastSent' /\ Loading'
  BY <1>2 DEF InOrder, LastSent, Sends, Latest, Loading
<1>4. CASE Disconnect
  BY <1>1, <1>3, <1>4 DEF Disconnect, RunLockFree, Queued, OnItsWay, Delivered, Taken, Sends,
                          emuVars
<1>5. CASE UserLoads
  BY <1>1, <1>3, <1>5 DEF UserLoads, RunLockFree, Queued, OnItsWay
<1>6. CASE Notify \/ Forward
  <2>1. RunLockFree' => shutdown
    BY <1>6 DEF Notify, Forward, Connected, RunLockFree, ConnInv, Reloading, StepsKnow
  <2>2. shutdown => cpc # "idle"
    BY DEF ConnInv, StepsKnow
  <2> QED
    BY <1>1, <1>2, <1>3, <2>1, <2>2 DEF Queued, OnItsWay
<1> QED
  BY <1>4, <1>5, <1>6 DEF User

(* The client has nothing yet.                                             *)
LEMMA InitSync == Init => SyncInv
<1> SUFFICES ASSUME Init PROVE SyncInv
  OBVIOUS
<1>1. ConnInv
  BY InitConnInv
<1>2. Len(net) = 1 /\ net[1].type = "ServerInformation"
  BY DEF Init
<1>3. InOrder
  BY <1>2 DEF InOrder
<1> QED
  BY <1>1, <1>2, <1>3 DEF Init, SyncInv, LastSent, Sends, Loading, Queued, OnItsWay

(* GameClientConnection.cpp:74-84, 162-197: without run-ahead, for any     *)
(* number of ports and any sizes of the queues, a client whose controllers *)
(* are enabled is at the end of its frame where the host was after the     *)
(* same polls: no input is lost, repeated, left over or replaced.          *)
THEOREM StaysInSync ==
  ASSUME ~RunAhead
  PROVE  Spec => []InSync
<1>1. Init => SyncInv
  BY InitSync
<1>2. SyncInv /\ [Next]_vars => SyncInv'
  <2> SUFFICES ASSUME SyncInv, [Next]_vars PROVE SyncInv'
    OBVIOUS
  <2>1. CASE Host
    BY <2>1, HostSync
  <2>2. CASE NetworkThread
    BY <2>2, NetworkSync
  <2>3. CASE EmulationThread
    BY <2>3, EmulationSync
  <2>4. CASE User
    BY <2>4, UserSync
  <2>5. CASE UNCHANGED vars
    BY <2>5, NextConnInv DEF vars, userVars, RunLockFree, SyncInv, InOrder, LastSent, Sends, Latest, Loading, Queued,
                             OnItsWay, Delivered, Taken, hostVars, connVars, emuVars
  <2> QED
    BY <2>1, <2>2, <2>3, <2>4, <2>5 DEF Next
<1>3. SyncInv => InSync
  BY DEF SyncInv, Queued, InSync
<1> QED
  BY <1>1, <1>2, <1>3, PTL DEF Spec
=============================================================================

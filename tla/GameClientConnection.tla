------------------------ MODULE GameClientConnection ------------------------
(***************************************************************************)
(* A netplay client against its host (src/Core/Netplay).  The host plays   *)
(* the game and sends, over one ordered connection, the whole state of the *)
(* machine whenever something other than input changed it, and after that  *)
(* the input of every port each time the game polls it.  On the client the *)
(* network thread (GameClient::Exec) fills a queue per port, and the       *)
(* emulation thread, inside SetInput, empties it or waits for it.          *)
(*                                                                         *)
(* The machine is abstracted to the inputs it was given: its state is      *)
(* <<e, n>> after the n-th poll in the e-th stretch of the host's game (a  *)
(* state loaded, a reset or another game begins a stretch), and Off when   *)
(* it is given anything else.  The host's emulator lock, and the parking   *)
(* of an emulation thread at the end of its frame, are those of            *)
(* EmulatorLoop; no debugger is attached on either side.                   *)
(***************************************************************************)
EXTENDS Naturals, Sequences

CONSTANTS Games,      \* the games host and client may have
          NumPorts,   \* input ports, numbered from 0
          FirstQueue, \* _minimumQueueSize at first (3 in the code)
          QueueLimit, \* what it may grow to (10 in the code)
          RunAhead,   \* TRUE: RunAheadFrames is 1 on the host, and so on the client
          MaxPolls,   \* bound on the host's polls
          MaxChanges  \* bound on the host's loads, resets, pauses and stops

NoGame == "no game"

ASSUME ConnectionAssumption ==
  /\ NumPorts \in Nat \ {0}
  /\ FirstQueue \in Nat \ {0} /\ QueueLimit \in Nat /\ FirstQueue <= QueueLimit
  /\ RunAhead \in BOOLEAN
  /\ NoGame \notin Games

Off == << >>
Ports == 0 .. NumPorts - 1

VARIABLES
  host,       \* [game, epoch, polls, paused] of the host's emulator
  changes,    \* changes the host has made
  hello,      \* the client has answered with its handshake
  handshaken, \* _handshakeCompleted
  net,        \* what was sent and not read yet
  closed,     \* the connection is broken or closed
  stop,       \* GameClient::_stop
  upc,        \* the user's thread in a load, with the run lock until it is over
  cpc, msg,   \* the network thread, and the message it works on
  gameLoaded, enabled, shutdown, \* _gameLoaded, _enableControllers, _shutdown
  queue,      \* _inputData; _inputSize is its length
  signaled,   \* _waitForInput
  minQueue,   \* _minimumQueueSize
  maxSpeed,   \* EmulationFlags::MaximumSpeed
  game,       \* the client's game
  provider,   \* the connection is among the input providers of its console
  paused,     \* the client's _paused
  epc, port, got, \* the emulation thread, its port and what that poll got
  preview,    \* it is in the frame that run-ahead throws away
  state       \* the state of the client's machine

hostVars == <<host, changes, hello, handshaken>>
connVars == <<gameLoaded, enabled, shutdown, queue, signaled, minQueue, maxSpeed>>
emuVars == <<game, provider, paused, epc, port, got, preview, state>>
userVars == <<stop, upc>>
vars == <<hostVars, net, closed, userVars, cpc, msg, connVars, emuVars>>

Empty == [p \in Ports |-> <<>>]
Nothing == [p \in Ports |-> Off]
NoMessage == [type |-> "None"]

(* The host has a game when the client connects; it may stop it before the *)
(* handshake.  The client may have one, this one or another.               *)
Init ==
  /\ host \in {[game |-> g, epoch |-> 0, polls |-> 0, paused |-> FALSE] : g \in Games}
  /\ changes = 0 /\ hello = FALSE /\ handshaken = FALSE
  /\ net = <<[type |-> "ServerInformation"]>> /\ closed = FALSE
  /\ stop = FALSE /\ upc = "idle"
  /\ cpc = "idle" /\ msg = NoMessage
  /\ gameLoaded = FALSE /\ enabled = FALSE /\ shutdown = FALSE
  /\ queue = Empty /\ signaled = [p \in Ports |-> FALSE]
  /\ minQueue = FirstQueue /\ maxSpeed = FALSE
  /\ game \in Games \union {NoGame}
  /\ epc = IF game = NoGame THEN "off" ELSE "parked"
  /\ provider = FALSE /\ paused = FALSE
  /\ port = 0 /\ got = Nothing /\ preview = FALSE /\ state = Off

-----------------------------------------------------------------------------
(* The host.                                                               *)

(* Once the connection is closed the host's game is no concern of this one. *)
Send(messages) == net' = net \o messages

(* SendGameInformation: both messages are written while the host's         *)
(* emulation thread is parked by the lock.                                 *)
GameInformation(h) ==
  <<[type |-> "GameInformation", game |-> h.game, paused |-> h.paused],
    [type |-> "SaveState", state |-> <<h.epoch, h.polls>>]>>

(* The input one poll was given, device by device.  With run-ahead only    *)
(* the frame that is shown is recorded, and it is the one after the frame  *)
(* that counts.                                                            *)
MovieData(h) ==
  [i \in 1 .. NumPorts |->
     [type |-> "MovieData", port |-> i - 1,
      poll |-> <<h.epoch, IF RunAhead THEN h.polls + 1 ELSE h.polls>>]]

(* A frame of the host: UpdateInputState polls and records, SendMovieData  *)
(* sends when the handshake is complete.                                   *)
HostFrame ==
  /\ ~closed /\ host.game # NoGame /\ ~host.paused /\ host.polls < MaxPolls
  /\ host' = [host EXCEPT !.polls = @ + 1]
  /\ IF handshaken THEN Send(MovieData(host')) ELSE UNCHANGED net
  /\ UNCHANGED <<changes, hello, handshaken, closed, userVars, cpc, msg, connVars, emuVars>>

(* ProcessNotification on the host's side of the connection, for each      *)
(* change that is announced: whether or not the handshake is complete.     *)
Announce(h) ==
  /\ ~closed /\ changes < MaxChanges /\ changes' = changes + 1
  /\ host' = h
  /\ Send(GameInformation(h))
  /\ UNCHANGED <<hello, handshaken, closed, userVars, cpc, msg, connVars, emuVars>>

(* A state is loaded, or the game is reset.                                *)
HostLoadsState ==
  host.game # NoGame /\ Announce([host EXCEPT !.epoch = @ + 1])

HostLoadsGame ==
  \E g \in Games : Announce([host EXCEPT !.game = g, !.epoch = @ + 1])

HostPausesOrResumes ==
  host.game # NoGame /\ Announce([host EXCEPT !.paused = ~@])

(* BeforeEmulationStop makes the clients unload the game.                  *)
HostStops ==
  /\ ~closed /\ host.game # NoGame /\ changes < MaxChanges /\ changes' = changes + 1
  /\ host' = [host EXCEPT !.game = NoGame, !.paused = FALSE]
  /\ Send(<<[type |-> "GameInformation", game |-> NoGame, paused |-> TRUE]>>)
  /\ UNCHANGED <<hello, handshaken, closed, userVars, cpc, msg, connVars, emuVars>>

(* ProcessHandshakeResponse, under the host's lock.                        *)
Handshake ==
  /\ hello /\ ~handshaken /\ ~closed
  /\ handshaken' = TRUE
  /\ IF host.game # NoGame THEN Send(GameInformation(host)) ELSE UNCHANGED net
  /\ UNCHANGED <<host, changes, hello, closed, userVars, cpc, msg, connVars, emuVars>>

(* The host closes the connection, or it breaks.                           *)
Close ==
  /\ ~closed /\ closed' = TRUE
  /\ UNCHANGED <<hostVars, net, userVars, cpc, msg, connVars, emuVars>>

Host == HostFrame \/ HostLoadsState \/ HostLoadsGame \/ HostPausesOrResumes
          \/ HostStops \/ Handshake \/ Close

-----------------------------------------------------------------------------
(* The client's user.                                                      *)

(* Where the emulation thread gives the run lock to a thread that asks,    *)
(* and where it does not hold the lock on the control devices.             *)
Parked == epc \in {"parked", "off"}

(* A load by the user holds the run lock to the end of its notifications.  *)
RunLockFree == upc \notin {"notify", "join"}

(* Exec clears _connected before Shutdown.                                 *)
Connected == ~stop /\ ~shutdown

(* Disconnect, as the user asks for it, or before the game is stopped or   *)
(* another is opened.  It returns when the network thread has ended.       *)
Disconnect ==
  /\ upc = "idle" /\ ~stop /\ stop' = TRUE
  /\ UNCHANGED <<hostVars, net, closed, upc, cpc, msg, connVars, emuVars>>

(* The user loads a game without Disconnect: a recent game, or a reload.   *)
(* The new console has no providers.                                       *)
UserLoads ==
  /\ upc = "idle" /\ (stop => cpc = "done") /\ Parked
  /\ upc' = "notify"
  /\ \E g \in Games : game' = g
  /\ state' = Off /\ provider' = FALSE /\ epc' = "parked"
  /\ UNCHANGED <<hostVars, net, closed, stop, cpc, msg, connVars, paused, port, got, preview>>

(* GameClient::ProcessNotification of GameLoaded: Disconnect, ...          *)
Notify ==
  /\ upc = "notify"
  /\ IF Connected THEN stop' = TRUE /\ upc' = "join"
                  ELSE upc' = "over" /\ UNCHANGED stop
  /\ UNCHANGED <<hostVars, net, closed, cpc, msg, connVars, emuVars>>

(* ... and when the network thread has ended, the connection is told of    *)
(* the game and registers itself again.                                    *)
Forward ==
  /\ upc = "join" /\ cpc = "done"
  /\ upc' = "forwarded" /\ provider' = (game # NoGame)
  /\ UNCHANGED <<hostVars, net, closed, stop, cpc, msg, connVars, game, paused, epc, port, got,
                 preview, state>>

User == Disconnect \/ UserLoads \/ Notify \/ Forward

-----------------------------------------------------------------------------
(* The client's network thread: Exec, ProcessMessages, ProcessMessage.     *)

(* PushControllerState, under _writeLock.                                  *)
PushControllerState(p, poll) ==
  /\ queue' = [queue EXCEPT ![p] = Append(@, poll)]
  /\ signaled' = IF Len(queue'[p]) >= minQueue THEN [signaled EXCEPT ![p] = TRUE] ELSE signaled

ReadServerInformation ==
  /\ cpc = "idle" /\ net # <<>> /\ Head(net).type = "ServerInformation"
  /\ net' = Tail(net) /\ hello' = TRUE
  /\ UNCHANGED <<host, changes, handshaken, closed, userVars, cpc, msg, connVars, emuVars>>

(* The inputs for a game that is not loaded are dropped.                   *)
ReadMovieData ==
  /\ cpc = "idle" /\ net # <<>> /\ Head(net).type = "MovieData"
  /\ net' = Tail(net)
  /\ IF gameLoaded THEN PushControllerState(Head(net).port, Head(net).poll)
                   ELSE UNCHANGED <<queue, signaled>>
  /\ UNCHANGED <<hostVars, closed, userVars, cpc, msg, gameLoaded, enabled, shutdown, minQueue,
                 maxSpeed, emuVars>>

(* Both begin with DisableControllers; a state without a game is dropped.  *)
ReadState ==
  /\ cpc = "idle" /\ net # <<>> /\ Head(net).type \in {"SaveState", "GameInformation"}
  /\ net' = Tail(net)
  /\ IF Head(net).type = "SaveState" /\ ~gameLoaded THEN UNCHANGED <<cpc, msg>>
                                                    ELSE cpc' = "disable" /\ msg' = Head(net)
  /\ UNCHANGED <<hostVars, closed, userVars, connVars, emuVars>>

(* The loop of Exec ends.  A broken connection may lose what was not read. *)
ExecEnds ==
  /\ cpc = "idle" /\ \/ closed
                     \/ stop /\ net = <<>>
  /\ cpc' = "disable" /\ msg' = [type |-> "Shutdown"]
  /\ shutdown' = TRUE
  /\ UNCHANGED <<hostVars, net, closed, userVars, gameLoaded, enabled, queue, signaled, minQueue,
                 maxSpeed, emuVars>>

(* Mutant: the controllers stay enabled.                                   *)
DisableNot ==
  /\ cpc = "disable" /\ cpc' = "clear"
  /\ UNCHANGED <<hostVars, net, closed, userVars, msg, connVars, emuVars>>

(* DisableControllers: _enableControllers, ClearInputData and the signals. *)
Disable ==
  /\ cpc = "disable" /\ cpc' = "clear" /\ enabled' = FALSE
  /\ UNCHANGED <<hostVars, net, closed, userVars, msg, gameLoaded, shutdown, queue, signaled, minQueue,
                 maxSpeed, emuVars>>

ClearInputData ==
  /\ cpc = "clear" /\ cpc' = "signal" /\ queue' = Empty
  /\ UNCHANGED <<hostVars, net, closed, userVars, msg, gameLoaded, enabled, shutdown, signaled, minQueue,
                 maxSpeed, emuVars>>

AfterDisable == IF msg.type = "Shutdown" THEN "unregister" ELSE "lock"

(* Mutant: nobody is woken.                                                *)
SignalNobody ==
  /\ cpc = "signal" /\ cpc' = AfterDisable
  /\ UNCHANGED <<hostVars, net, closed, userVars, msg, connVars, emuVars>>

SignalAll ==
  /\ cpc = "signal" /\ cpc' = AfterDisable
  /\ signaled' = [p \in Ports |-> TRUE]
  /\ UNCHANGED <<hostVars, net, closed, userVars, msg, gameLoaded, enabled, shutdown, queue, minQueue,
                 maxSpeed, emuVars>>

(* The rest of the SaveState message, inside the emulator lock.            *)
LoadState ==
  /\ cpc = "lock" /\ msg.type = "SaveState" /\ Parked /\ RunLockFree
  /\ queue' = Empty /\ state' = msg.state /\ enabled' = TRUE
  /\ cpc' = "idle" /\ msg' = NoMessage
  /\ UNCHANGED <<hostVars, net, closed, userVars, gameLoaded, shutdown, signaled, minQueue, maxSpeed,
                 game, provider, paused, epc, port, got, preview>>

(* The GameInformation message inside the emulator lock.                   *)
SetControllerPort ==
  /\ cpc = "lock" /\ msg.type = "GameInformation" /\ Parked /\ RunLockFree
  /\ queue' = Empty /\ cpc' = "load"
  /\ UNCHANGED <<hostVars, net, closed, userVars, msg, gameLoaded, enabled, shutdown, signaled, minQueue,
                 maxSpeed, emuVars>>

(* AttemptLoadGame: the game runs already, ...                             *)
SameGame ==
  /\ cpc = "load" /\ msg.game # NoGame /\ msg.game = game
  /\ gameLoaded' = TRUE /\ cpc' = "unregister"
  /\ UNCHANGED <<hostVars, net, closed, userVars, msg, enabled, shutdown, queue, signaled, minQueue,
                 maxSpeed, emuVars>>

(* ... or LoadRom replaces what runs; the GameLoaded notification makes    *)
(* the connection a provider of the new console's input; ...               *)
LoadGame ==
  /\ cpc = "load" /\ msg.game # NoGame /\ msg.game # game /\ Parked /\ RunLockFree
  /\ game' = msg.game /\ state' = Off /\ provider' = TRUE /\ epc' = "parked"
  /\ gameLoaded' = TRUE /\ cpc' = "unregister"
  /\ UNCHANGED <<hostVars, net, closed, userVars, msg, enabled, shutdown, queue, signaled, minQueue,
                 maxSpeed, paused, port, got, preview>>

(* ... or there is no such game here, or none at all: Stop.                *)
NoSuchGame ==
  /\ cpc = "load" /\ (msg.game = NoGame \/ msg.game # game)
  /\ gameLoaded' = FALSE /\ cpc' = "stop"
  /\ UNCHANGED <<hostVars, net, closed, userVars, msg, enabled, shutdown, queue, signaled, minQueue,
                 maxSpeed, emuVars>>

(* The last state of a game that runs is saved under the run lock.         *)
StopGame ==
  /\ cpc = "stop" /\ Parked /\ (game = NoGame \/ RunLockFree)
  /\ epc' = "off" /\ game' = NoGame /\ provider' = FALSE /\ state' = Off
  /\ cpc' = "idle" /\ msg' = NoMessage
  /\ UNCHANGED <<hostVars, net, closed, userVars, connVars, paused, port, got, preview>>

(* UnregisterInputProvider waits for the poll that is under way.           *)
Unregister ==
  /\ cpc = "unregister" /\ Parked /\ provider' = FALSE
  /\ cpc' = IF msg.type = "Shutdown" THEN "speed" ELSE "register"
  /\ UNCHANGED <<hostVars, net, closed, userVars, msg, connVars, game, paused, epc, port, got, preview, state>>

Register ==
  /\ cpc = "register" /\ Parked /\ provider' = (game # NoGame)
  /\ paused' = msg.paused
  /\ cpc' = "idle" /\ msg' = NoMessage
  /\ UNCHANGED <<hostVars, net, closed, userVars, connVars, game, epc, port, got, preview, state>>

(* Mutant: the speed is left as it is.                                     *)
KeepSpeed ==
  /\ cpc = "speed" /\ cpc' = "done" /\ closed' = TRUE
  /\ UNCHANGED <<hostVars, net, userVars, msg, connVars, emuVars>>

(* The end of Shutdown.                                                    *)
ClearSpeed ==
  /\ cpc = "speed" /\ cpc' = "done" /\ maxSpeed' = FALSE /\ closed' = TRUE
  /\ UNCHANGED <<hostVars, net, userVars, msg, gameLoaded, enabled, shutdown, queue, signaled, minQueue,
                 emuVars>>

NetworkThread ==
  \/ ReadServerInformation \/ ReadMovieData \/ ReadState \/ ExecEnds
  \/ Disable \/ ClearInputData \/ SignalAll \/ LoadState \/ SetControllerPort
  \/ SameGame \/ LoadGame \/ NoSuchGame \/ StopGame \/ Unregister \/ Register \/ ClearSpeed

-----------------------------------------------------------------------------
(* The client's emulation thread: one poll in every frame, holding         *)
(* _deviceLock, with SetInput for the device of every port.                *)

emuOnly == <<hostVars, net, closed, userVars, cpc, msg, gameLoaded, enabled, shutdown, game, provider, paused>>

(* Another thread asks for the run lock, or waits for this one to end.     *)
LockWanted == \/ cpc \in {"lock", "stop"}
              \/ cpc = "load" /\ msg.game # game

NextPoll(s) == IF s = Off THEN Off ELSE <<s[1], s[2] + 1>>

(* A frame of which no port is the connection's has the user's input.      *)
StartFrame ==
  /\ epc = "parked" /\ RunLockFree /\ ~LockWanted /\ ~paused
  /\ got' = Nothing /\ port' = 0
  /\ IF provider THEN epc' = "enabled" /\ UNCHANGED state
                 ELSE state' = Off /\ UNCHANGED epc
  /\ UNCHANGED <<emuOnly, queue, signaled, minQueue, maxSpeed, preview>>

(* The next port, or the end of the poll.  With run-ahead a second frame   *)
(* follows, whose state is thrown away.                                    *)
NextPort(g) ==
  /\ got' = IF port < NumPorts - 1 THEN g ELSE Nothing
  /\ port' = IF port < NumPorts - 1 THEN port + 1 ELSE 0
  /\ IF port < NumPorts - 1
       THEN epc' = "enabled" /\ UNCHANGED <<preview, state>>
       ELSE /\ epc' = IF RunAhead /\ ~preview THEN "enabled" ELSE "parked"
            /\ preview' = (RunAhead /\ ~preview)
            /\ state' = IF preview THEN state
                        ELSE IF \A p \in Ports : g[p] = NextPoll(state) THEN NextPoll(state)
                        ELSE Off

(* SetInput returns with the device as it is.                              *)
Leave == NextPort(got) /\ UNCHANGED <<queue, signaled, minQueue, maxSpeed>>

ReadEnabled ==
  /\ epc = "enabled"
  /\ IF enabled THEN epc' = "size" /\ UNCHANGED <<port, got, preview, state, queue, signaled, minQueue, maxSpeed>>
                ELSE Leave
  /\ UNCHANGED emuOnly

ReadSize ==
  /\ epc = "size" /\ epc' = IF queue[port] = <<>> THEN "wait" ELSE "pop"
  /\ UNCHANGED <<emuOnly, port, got, preview, state, queue, signaled, minQueue, maxSpeed>>

WaitForInput ==
  /\ epc = "wait" /\ signaled[port] /\ epc' = "check"
  /\ signaled' = [signaled EXCEPT ![port] = FALSE]
  /\ minQueue' = IF port = 0 /\ minQueue < QueueLimit THEN minQueue + 1 ELSE minQueue
  /\ UNCHANGED <<emuOnly, port, got, preview, state, queue, maxSpeed>>

CheckAfterWait ==
  /\ epc = "check"
  /\ IF shutdown \/ ~enabled THEN Leave
     ELSE epc' = "size" /\ UNCHANGED <<port, got, preview, state, queue, signaled, minQueue, maxSpeed>>
  /\ UNCHANGED emuOnly

(* The rest of SetInput, under _writeLock.                                 *)
Pop ==
  /\ epc = "pop"
  /\ IF shutdown \/ ~enabled \/ queue[port] = <<>> THEN Leave
     ELSE /\ queue' = [queue EXCEPT ![port] = Tail(@)]
          /\ maxSpeed' = (Len(queue[port]) - 1 > minQueue)
          /\ NextPort([got EXCEPT ![port] = Head(queue[port])])
          /\ UNCHANGED <<signaled, minQueue>>
  /\ UNCHANGED emuOnly

EmulationThread == StartFrame \/ ReadEnabled \/ ReadSize \/ WaitForInput \/ CheckAfterWait \/ Pop

Next == Host \/ User \/ NetworkThread \/ EmulationThread

Spec == Init /\ [][Next]_vars

(* Both threads of the client are scheduled, and the network thread, which *)
(* spins for _deviceLock, gets it between two polls: the poll is a small   *)
(* part of a frame.  Nothing is assumed of the host: it need not send      *)
(* anything, nor close.  A load by the user goes on.                       *)
FairSpec ==
  /\ Spec /\ WF_vars(NetworkThread) /\ WF_vars(EmulationThread)
  /\ WF_vars(Notify \/ Forward)
  /\ SF_vars(Unregister) /\ SF_vars(Register)

-----------------------------------------------------------------------------
(* Safety.                                                                 *)

Busy == cpc \notin {"idle", "done"}

(* Types; the emulation thread runs exactly when there is a game, and the  *)
(* queue that is asked for stays within its limit.                         *)
TypeOK ==
  /\ cpc \in {"idle", "disable", "clear", "signal", "lock", "load", "stop", "unregister",
              "register", "speed", "done"}
  /\ epc \in {"off", "parked", "enabled", "size", "wait", "check", "pop"}
  /\ upc \in {"idle", "notify", "join", "forwarded", "over"}
  /\ port \in Ports /\ minQueue \in FirstQueue .. QueueLimit
  /\ epc = "off" <=> game = NoGame
  /\ \A p \in Ports : \A i \in DOMAIN queue[p] : queue[p][i] \in Nat \X Nat
  /\ state = Off \/ state \in Nat \X Nat

(* GameClientConnection.cpp:74-84, 162-197: while the controllers are      *)
(* enabled, the client's machine has, at the end of its frame, had exactly *)
(* the inputs of the host's since the state that was sent: none is lost,   *)
(* repeated, left over from before that state or replaced by the user's.   *)
(* No frame begins while a load by the user holds the run lock, and after  *)
(* it the connection has been shut down.                                   *)
InSync == enabled /\ ~shutdown /\ epc = "parked" /\ RunLockFree => state # Off

(* GameClientConnection.cpp:34-45: when the connection is gone, so is its  *)
(* hold on the emulator: the speed it raised to catch up is back, and it   *)
(* is no input provider, whatever the emulation thread was doing in        *)
(* SetInput at the time.  The exception is the connection that a load by   *)
(* the user has ended (GameClient.cpp:77-78).                              *)
HoldReleased == cpc = "done" => ~maxSpeed /\ (provider => upc = "forwarded")

-----------------------------------------------------------------------------
(* Liveness.                                                               *)

(* A load by the user waits for the network thread, which waits for the    *)
(* run lock of that load (GameClient.cpp:69-75).                           *)
JoinsWaiter ==
  upc = "join" /\ \/ cpc = "lock"
                  \/ cpc = "load" /\ msg.game \notin {NoGame, game}
                  \/ cpc = "stop" /\ game # NoGame

(* GameClientConnection.cpp:153-160 ("prevent deadlocks when client is     *)
(* trying to fill its buffer while the host changes the current game"):    *)
(* the network thread ends what it does, although it waits for an          *)
(* emulation thread that waits for input only the network thread brings;   *)
(* but for JoinsWaiter.                                                    *)
MessageHandled == Busy ~> ~Busy \/ JoinsWaiter

-----------------------------------------------------------------------------
(* What the code does not keep: a connection that is shut down is no       *)
(* provider of the new game's input (GameClient.cpp:77-78), and a game     *)
(* that the user loads is loaded (GameClient.cpp:72-74).                   *)
ForgottenByLoad == upc = "forwarded" => ~provider
LoadReturns == upc = "notify" ~> RunLockFree

=============================================================================

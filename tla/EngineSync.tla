----------------------------- MODULE EngineSync -----------------------------
(* The engines of two nodes: in each the manager with its HA state          *)
(* (engine/core.go, engine/ha.go), the synchronisation client that the      *)
(* manager starts and stops, and the sessions of the synchronisation server *)
(* (engine/sync.go). The channels between manager and client are            *)
(* unbuffered. A call of the client is one step with what the server does   *)
(* on it; a call that fails, times out or is abandoned leaves a session     *)
(* that nobody polls any more and which is left out from then on.           *)
EXTENDS Naturals, Sequences

CONSTANTS
    Nodes,          \* two
    HAStates,       \* what the HA component may tell the engine
    QueueSize,      \* sessionNotesQueueSize, 100 in the code
    MaxInputs,      \* HA states told and timeouts, overrides by operators,
                    \* configurations, shutdowns and crashes, in all
    Nil

ASSUME SyncAssumption ==
    /\ \E n, m \in Nodes : n # m /\ Nodes = {n, m}
    /\ HAStates \subseteq {"BACKUP", "LEADER", "SHUTDOWN"}
    /\ QueueSize \in Nat \ {0}
    /\ MaxInputs \in Nat

VARIABLES
    ha,          \* haManager.status.State, or DOWN without a process
    manager,     \* what Engine.manager is doing, and the state it sets
    enabled,     \* syncClient.enabled
    stopped,     \* there is a token in syncClient.stopped
    client,      \* where syncClient.run is, and the notes it dispatches
    session,     \* by client: its session at the peer, or Nil
    ipc,         \* an override an operator waits to hand over, or Nil
    inputs,      \* the inputs so far
    \* history, by client, of the notes since its last desynchronisation
    sent,        \* the last one for it
    applied      \* the last one it has dealt with

vars == <<ha, manager, enabled, stopped, client, session, ipc, inputs, sent, applied>>

Peer(n) == CHOOSE m \in Nodes : m # n

States == {"UNKNOWN", "BACKUP", "LEADER", "SHUTDOWN", "DISABLED"}
Following == {"poll", "waiting", "dispatch", "override"}

Doing(pc, s) == [pc |-> pc, state |-> s]
Select == Doing("select", Nil)
Holding(pc, notes) == [pc |-> pc, notes |-> notes]
At(pc) == Holding(pc, <<>>)
Session(desync, notes) == [desync |-> desync, notes |-> notes]
Note(type, id) == [type |-> type, id |-> id]

(* A session starts, or starts over. *)
Forget(n) == sent' = [sent EXCEPT ![n] = Nil] /\ applied' = [applied EXCEPT ![n] = Nil]

Init ==
    /\ ha = [n \in Nodes |-> "UNKNOWN"]
    /\ manager = [n \in Nodes |-> Select]
    /\ enabled = [n \in Nodes |-> FALSE]
    /\ stopped = [n \in Nodes |-> TRUE]
    /\ client = [n \in Nodes |-> At("loop")]
    /\ session = [n \in Nodes |-> Nil]
    /\ ipc = [n \in Nodes |-> Nil]
    /\ inputs = 0
    /\ sent = [n \in Nodes |-> Nil] /\ applied = [n \in Nodes |-> Nil]

Goto(n, pc) == client' = [client EXCEPT ![n] = At(pc)]

-----------------------------------------------------------------------------
(* The manager. haManager.setState, up to where becomeMaster waits for the  *)
(* client to take the token from quit, or becomeBackup for the one from     *)
(* start.                                                                   *)
Stays(n, s) == ha[n] = s \/ (ha[n] = "DISABLED" /\ s \notin {"UNKNOWN", "DOWN"})
DisablesOnExit(n, s) == s = "DOWN" /\ enabled[n]    \* for mutation
Disables(n, s) == s \in {"LEADER", "DOWN"} /\ enabled[n]
Enables(n, s) ==
    s \notin {"LEADER", "DOWN"} /\ (ha[n] = "LEADER" \/ s = "BACKUP") /\ ~enabled[n]

Continue(n, pc, s) == manager' = [manager EXCEPT ![n] = Doing(pc, s)]

SetState(n, s) ==
    \/ Stays(n, s) /\ Continue(n, "select", Nil) /\ UNCHANGED enabled
    \/ /\ ~Stays(n, s) /\ Disables(n, s)
       /\ Continue(n, "quit", s) /\ enabled' = [enabled EXCEPT ![n] = FALSE]
    \/ /\ ~Stays(n, s) /\ Enables(n, s)
       /\ Continue(n, "start", s) /\ enabled' = [enabled EXCEPT ![n] = TRUE]
    \/ /\ ~Stays(n, s) /\ ~Disables(n, s) /\ ~Enables(n, s)
       /\ Continue(n, "finish", s) /\ UNCHANGED enabled

(* A state or a status from the HA component. *)
ManagerState(n, s) ==
    /\ ha[n] # "DOWN" /\ manager[n].pc = "select" /\ inputs < MaxInputs
    /\ SetState(n, s)
    /\ inputs' = inputs + 1
    /\ UNCHANGED <<ha, stopped, client, session, ipc, sent, applied>>

(* haManager.timer *)
ManagerTimeout(n) ==
    /\ ha[n] \notin {"DOWN", "DISABLED", "UNKNOWN"} /\ manager[n].pc = "select"
    /\ inputs < MaxInputs
    /\ SetState(n, "UNKNOWN")
    /\ inputs' = inputs + 1
    /\ UNCHANGED <<ha, stopped, client, session, ipc, sent, applied>>

(* The engine shuts down, and with it the client. *)
ManagerShutdown(n) ==
    /\ ha[n] # "DOWN" /\ manager[n].pc = "select" /\ inputs < MaxInputs
    /\ SetState(n, "DOWN")
    /\ inputs' = inputs + 1
    /\ UNCHANGED <<ha, stopped, client, session, ipc, sent, applied>>

(* For mutation: no token for stopped after a quit in the cooldown. *)
ManagerQuitUnstopped(n) ==
    /\ manager[n].pc = "quit"
    /\ \/ client[n].pc \in {"poll", "waiting"} /\ Goto(n, "quitted")
       \/ client[n].pc = "cooldown" /\ Goto(n, "loop")
    /\ manager' = [manager EXCEPT ![n] = Doing("finish", @.state)]
    /\ UNCHANGED <<ha, enabled, stopped, session, ipc, inputs, sent, applied>>

(* syncClient.disable: the client takes the token while it polls or cools   *)
(* down.                                                                    *)
ManagerQuit(n) ==
    /\ manager[n].pc = "quit"
    /\ \/ client[n].pc \in {"poll", "waiting"} /\ Goto(n, "quitted")
       \/ client[n].pc = "cooldown" /\ Goto(n, "stopping")
    /\ manager' = [manager EXCEPT ![n] = Doing("finish", @.state)]
    /\ UNCHANGED <<ha, enabled, stopped, session, ipc, inputs, sent, applied>>

(* syncClient.enable *)
ManagerStart(n) ==
    /\ manager[n].pc = "start" /\ client[n].pc = "start"
    /\ Goto(n, "loop")
    /\ manager' = [manager EXCEPT ![n] = Doing("finish", @.state)]
    /\ UNCHANGED <<ha, enabled, stopped, session, ipc, inputs, sent, applied>>

(* The process is gone, with the session that its peer had, and its own     *)
(* session is polled no more.                                               *)
Gone(n) ==
    /\ ha' = [ha EXCEPT ![n] = "DOWN"]
    /\ manager' = [manager EXCEPT ![n] = Select]
    /\ enabled' = [enabled EXCEPT ![n] = FALSE]
    /\ stopped' = [stopped EXCEPT ![n] = TRUE]
    /\ Goto(n, "loop")
    /\ session' = [m \in Nodes |-> Nil]
    /\ sent' = [m \in Nodes |-> Nil] /\ applied' = [m \in Nodes |-> Nil]
    /\ ipc' = [ipc EXCEPT ![n] = Nil]

(* The rest of becomeMaster or becomeBackup, and of setState. *)
ManagerFinish(n) ==
    /\ manager[n].pc = "finish"
    /\ UNCHANGED inputs
    /\ IF manager[n].state = "DOWN" THEN Gone(n)
       ELSE /\ ha' = [ha EXCEPT ![n] = manager[n].state]
            /\ manager' = [manager EXCEPT ![n] = Select]
            /\ UNCHANGED <<enabled, stopped, client, session, ipc, sent, applied>>

(* syncServer.notify and syncSession.addNote, on the session of the peer.   *)
(* With a full queue the note is discarded; the session is marked in a step *)
(* of its own, under the lock of the session. Then the manager goes on.     *)
Notify(n, note, next) ==
    LET p == Peer(n)
        full == session[p] # Nil /\ Len(session[p].notes) >= QueueSize
    IN  /\ session' = IF session[p] = Nil \/ full THEN session
                      ELSE [session EXCEPT ![p] = Session(@.desync, Append(@.notes, note))]
        /\ sent' = [sent EXCEPT ![p] = IF session[p] = Nil THEN Nil ELSE note]
        /\ manager' = [manager EXCEPT ![n] = IF full THEN Doing("desync", next)
                                             ELSE Doing(next, Nil)]

(* For mutation: the note is discarded and the session not marked. *)
ManagerDesyncUnmarked(n) ==
    /\ manager[n].pc = "desync"
    /\ manager' = [manager EXCEPT ![n] = Doing(manager[n].state, Nil)]
    /\ UNCHANGED <<ha, enabled, stopped, client, session, ipc, inputs, sent, applied>>

ManagerDesync(n) ==
    /\ manager[n].pc = "desync"
    /\ session' = IF session[Peer(n)] = Nil THEN session
                  ELSE [session EXCEPT ![Peer(n)] = Session(TRUE, @.notes)]
    /\ manager' = [manager EXCEPT ![n] = Doing(manager[n].state, Nil)]
    /\ UNCHANGED <<ha, enabled, stopped, client, ipc, inputs, sent, applied>>

(* An override, from an operator or from the client of this node. *)
ManagerOverride(n) ==
    /\ ha[n] # "DOWN" /\ manager[n].pc = "select"
    /\ \/ /\ ipc[n] # Nil /\ ipc' = [ipc EXCEPT ![n] = Nil]
          /\ Notify(n, Note("Override", ipc[n]), "select")
          /\ UNCHANGED <<client, applied>>
       \/ /\ client[n].pc = "override"
          /\ client' = [client EXCEPT ![n] = Holding("dispatch", Tail(@.notes))]
          /\ Notify(n, Head(client[n].notes), "select")
          /\ applied' = [applied EXCEPT ![n] = Head(client[n].notes)]
          /\ UNCHANGED ipc
    /\ UNCHANGED <<ha, enabled, stopped, inputs>>

(* A configuration, *)
ManagerConfig(n) ==
    /\ ha[n] # "DOWN" /\ manager[n].pc = "select" /\ inputs < MaxInputs
    /\ inputs' = inputs + 1
    /\ Notify(n, Note("Config", inputs'), "config")
    /\ UNCHANGED <<ha, enabled, stopped, client, ipc, applied>>

(* which enables or disables HA peering. *)
ManagerPeering(n, on) ==
    /\ manager[n].pc = "config"
    /\ SetState(n, IF ~on THEN "DISABLED" ELSE IF ha[n] = "DISABLED" THEN "UNKNOWN" ELSE ha[n])
    /\ UNCHANGED <<ha, stopped, client, session, ipc, inputs, sent, applied>>

-----------------------------------------------------------------------------
(* syncClient.run *)
ClientLoop(n) ==
    /\ ha[n] # "DOWN" /\ client[n].pc = "loop"
    /\ Goto(n, IF stopped[n] THEN "start" ELSE "register")
    /\ stopped' = [stopped EXCEPT ![n] = FALSE]
    /\ UNCHANGED <<ha, manager, enabled, session, ipc, inputs, sent, applied>>

ClientCooldown(n) ==
    /\ client[n].pc = "cooldown"
    /\ Goto(n, "loop")
    /\ UNCHANGED <<ha, manager, enabled, stopped, session, ipc, inputs, sent, applied>>

ClientStopped(n) ==
    /\ client[n].pc = "stopping" /\ ~stopped[n]
    /\ Goto(n, "loop")
    /\ stopped' = [stopped EXCEPT ![n] = TRUE]
    /\ UNCHANGED <<ha, manager, enabled, session, ipc, inputs, sent, applied>>

(* SeesawSync.Register, by which only a leader makes sessions, and          *)
(* SeesawSync.Deregister                                                    *)
newSession == Session(TRUE, <<>>)
Register(n) ==
    /\ ha[Peer(n)] = "LEADER"
    /\ session' = [session EXCEPT ![n] = newSession]
    /\ Forget(n)
Deregister(n) == session' = [session EXCEPT ![n] = Nil] /\ Forget(n)

(* runOnce: dial and register *)
ClientRegister(n) ==
    /\ client[n].pc = "register"
    /\ Register(n)
    /\ Goto(n, "poll")
    /\ UNCHANGED <<ha, manager, enabled, stopped, ipc, inputs>>

(* The peer cannot be reached, refuses, or does not answer in time. *)
ClientUnregistered(n) ==
    /\ client[n].pc = "register"
    /\ Goto(n, "cooldown")
    /\ UNCHANGED <<ha, manager, enabled, stopped, session, ipc, inputs, sent, applied>>

(* SeesawSync.Poll: the check for desynchronisation, and the notes. *)
ClientPoll(n) ==
    /\ client[n].pc = "poll" /\ session[n] # Nil
    /\ IF session[n].desync
       THEN /\ session' = [session EXCEPT ![n] = Session(FALSE, <<>>)]
            /\ client' = [client EXCEPT ![n] = Holding("dispatch", <<Note("Desync", Nil)>>)]
            /\ Forget(n)
       ELSE Goto(n, "waiting") /\ UNCHANGED <<session, sent, applied>>
    /\ UNCHANGED <<ha, manager, enabled, stopped, ipc, inputs>>

ClientNotes(n) ==
    /\ client[n].pc = "waiting" /\ session[n] # Nil /\ session[n].notes # <<>>
    /\ client' = [client EXCEPT ![n] = Holding("dispatch", session[n].notes)]
    /\ session' = [session EXCEPT ![n] = Session(@.desync, <<>>)]
    /\ UNCHANGED <<ha, manager, enabled, stopped, ipc, inputs, sent, applied>>

(* The poll fails or times out, on either side. *)
ClientPollFails(n) ==
    /\ client[n].pc \in {"poll", "waiting"}
    /\ Goto(n, "deregister")
    /\ UNCHANGED <<ha, manager, enabled, stopped, session, ipc, inputs, sent, applied>>

(* handleNote. A desynchronisation and a configuration make the notifier    *)
(* reload, for which the client does not wait; an override waits for the    *)
(* manager.                                                                 *)
ClientDispatch(n) ==
    /\ client[n].pc = "dispatch"
    /\ LET notes == client[n].notes IN
       IF notes = <<>> THEN Goto(n, "poll") /\ UNCHANGED applied
       ELSE IF notes[1].type = "Override"
       THEN client' = [client EXCEPT ![n] = Holding("override", notes)] /\ UNCHANGED applied
       ELSE /\ client' = [client EXCEPT ![n] = Holding("dispatch", Tail(notes))]
            /\ applied' = IF notes[1].type = "Config" THEN [applied EXCEPT ![n] = notes[1]]
                          ELSE applied
    /\ UNCHANGED <<ha, manager, enabled, stopped, session, ipc, inputs, sent>>

(* After a failure, or after the token from quit, the client deregisters    *)
(* and closes the connection.                                               *)
ClientDeregister(n) ==
    /\ client[n].pc \in {"deregister", "quitted"}
    /\ Goto(n, IF client[n].pc = "quitted" THEN "stopping" ELSE "cooldown")
    /\ Deregister(n)
    /\ UNCHANGED <<ha, manager, enabled, stopped, ipc, inputs>>

-----------------------------------------------------------------------------
(* syncServer.run: a heartbeat for the session of a client, which is marked *)
(* when its queue is full, or the end of a session that was not polled for  *)
(* long.                                                                    *)
Heartbeat(n) ==
    /\ session[n] # Nil
    /\ session' = IF Len(session[n].notes) < QueueSize
                  THEN [session EXCEPT ![n] =
                          Session(@.desync, Append(@.notes, Note("Heartbeat", Nil)))]
                  ELSE [session EXCEPT ![n] = Session(TRUE, @.notes)]
    /\ UNCHANGED <<ha, manager, enabled, stopped, client, ipc, inputs, sent, applied>>

Expire(n) ==
    /\ session[n] # Nil /\ client[n].pc \notin {"poll", "waiting"}
    /\ session' = [session EXCEPT ![n] = Nil]
    /\ Forget(n)
    /\ UNCHANGED <<ha, manager, enabled, stopped, client, ipc, inputs>>

(* An operator's override *)
Operator(n) ==
    /\ ha[n] # "DOWN" /\ ipc[n] = Nil /\ inputs < MaxInputs
    /\ inputs' = inputs + 1
    /\ ipc' = [ipc EXCEPT ![n] = inputs']
    /\ UNCHANGED <<ha, manager, enabled, stopped, client, session, sent, applied>>

Crash(n) ==
    /\ ha[n] # "DOWN" /\ inputs < MaxInputs
    /\ Gone(n)
    /\ inputs' = inputs + 1

Restart(n) ==
    /\ ha[n] = "DOWN"
    /\ ha' = [ha EXCEPT ![n] = "UNKNOWN"]
    /\ UNCHANGED <<manager, enabled, stopped, client, session, ipc, inputs, sent, applied>>

Manager(n) ==
    \/ \E s \in HAStates : ManagerState(n, s)
    \/ ManagerTimeout(n) \/ ManagerShutdown(n)
    \/ ManagerQuit(n) \/ ManagerStart(n) \/ ManagerFinish(n)
    \/ ManagerOverride(n) \/ ManagerDesync(n)
    \/ ManagerConfig(n) \/ \E on \in BOOLEAN : ManagerPeering(n, on)

Client(n) ==
    \/ ClientLoop(n) \/ ClientCooldown(n) \/ ClientStopped(n)
    \/ ClientRegister(n) \/ ClientUnregistered(n)
    \/ ClientPoll(n) \/ ClientNotes(n) \/ ClientPollFails(n)
    \/ ClientDispatch(n) \/ ClientDeregister(n)

Server(n) == Heartbeat(n) \/ Expire(n)

Next ==
    \E n \in Nodes : Manager(n) \/ Client(n) \/ Server(n) \/ Operator(n) \/ Crash(n) \/ Restart(n)

Spec == Init /\ [][Next]_vars

(* The scheduler runs the manager and the client; every call has a timeout; *)
(* select is fair to quit when a poll is ready as well.                     *)
Fairness == \A n \in Nodes :
    /\ WF_vars(ManagerFinish(n)) /\ WF_vars(ManagerDesync(n))
    /\ WF_vars(\E on \in BOOLEAN : ManagerPeering(n, on))
    /\ SF_vars(ManagerQuit(n)) /\ SF_vars(ManagerStart(n)) /\ SF_vars(ManagerOverride(n))
    /\ WF_vars(Client(n))
-----------------------------------------------------------------------------
Pending == [pc : {"select", "desync", "config", "quit", "start", "finish"},
            state : {Nil, "select", "config", "DOWN"} \cup States]
ClientPCs == Following \cup {"loop", "start", "register", "cooldown", "deregister",
                             "quitted", "stopping"}
Notes == [type : {"Desync", "Heartbeat", "Config", "Override"}, id : {Nil} \cup 0..MaxInputs]

(* Manager and client are at one of their places, and a session never       *)
(* queues more than sessionNotesQueueSize notes (syncSession.addNote).      *)
TypeOK ==
    /\ ha \in [Nodes -> States \cup {"DOWN"}]
    /\ manager \in [Nodes -> Pending]
    /\ enabled \in [Nodes -> BOOLEAN] /\ stopped \in [Nodes -> BOOLEAN]
    /\ client \in [Nodes -> [pc : ClientPCs, notes : Seq(Notes)]]
    /\ session \in [Nodes -> {Nil} \cup [desync : BOOLEAN, notes : Seq(Notes)]]
    /\ ipc \in [Nodes -> {Nil} \cup 0..MaxInputs]
    /\ inputs \in 0..MaxInputs
    /\ \A n \in Nodes : session[n] # Nil => Len(session[n].notes) <= QueueSize

(* A leader follows nobody: when its manager has made the engine the leader *)
(* its client neither polls nor dispatches, so that overrides do not come   *)
(* back to it.                                                              *)
LeaderIsAlone ==
    \A n \in Nodes : ha[n] = "LEADER" /\ manager[n].pc = "select" =>
        client[n].pc \notin Following

(* The client has the token of its stop, or will have it. *)
Parked(n) == stopped[n] \/ client[n].pc \in {"start", "stopping", "quitted"}

(* No token of enable or disable is lost or taken twice: the client is      *)
(* parked exactly when the manager has disabled it, and in the two waits    *)
(* for the client the token has yet to be taken.                            *)
TokensAgree ==
    \A n \in Nodes :
        Parked(n) <=> manager[n].pc = "start" \/ (~enabled[n] /\ manager[n].pc # "quit")

(* A client that waits for more has dealt with every override and every     *)
(* configuration its peer sent since the client was last told of a          *)
(* desynchronisation, the last of them last, unless its session is marked,  *)
(* or about to be marked, as desynchronised.                                *)
InSync ==
    \A n \in Nodes :
        /\ client[n].pc = "waiting" /\ session[n] # Nil
        /\ session[n].notes = <<>> /\ ~session[n].desync
        /\ manager[Peer(n)].pc # "desync"
        => applied[n] = sent[n]

(* becomeMaster disables the client and goes on: the wait for the client to *)
(* take the token from quit ends.                                           *)
BecomesMaster ==
    \A n \in Nodes : manager[n] = Doing("quit", "LEADER") ~> manager[n].pc # "quit"
=============================================================================

-------------------------- MODULE EngineSyncProofs --------------------------
(* The handshake between an engine's manager and its synchronisation client *)
(* holds for any queue size and any number of inputs, and the client has    *)
(* dealt with all that its peer sent when nothing is left to poll.          *)
EXTENDS EngineSync, TLAPS

(* The inductive invariant of the handshake between manager and client. *)
HandshakeAt(n) ==
    /\ Parked(n) <=> manager[n].pc = "start" \/ (~enabled[n] /\ manager[n].pc # "quit")
    /\ stopped[n] => client[n].pc = "loop"
    /\ client[n].pc = "override" => client[n].notes # <<>>
    /\ manager[n].pc = "start" => enabled[n] /\ manager[n].state # "LEADER"
    /\ manager[n].pc = "quit" => ~enabled[n]
    /\ manager[n].pc = "finish" /\ manager[n].state = "LEADER" => ~enabled[n]
    /\ ha[n] = "LEADER" /\ manager[n].pc \notin {"start", "finish"} => ~enabled[n]
    /\ manager[n].pc \in {"start", "quit", "finish"} =>
           manager[n].state \in States \cup {"DOWN"}
    /\ manager[n].pc = "desync" => manager[n].state \in {"select", "config"}
Handshake == \A n \in Nodes : HandshakeAt(n)

(* The invariant that every step preserves. *)
Inv == TypeOK /\ Handshake

(* newHAManager, newSyncClient: the client is parked and not enabled. *)
LEMMA InitInv == Init => Inv
BY SyncAssumption DEF Init, Inv, TypeOK, Handshake, HandshakeAt, Parked, Select, Doing, At,
   Holding, Pending, ClientPCs, Following, States

(* haManager.setState, from the manager's loop: enable and disable leave one *)
(* token to be taken, and none when there is nothing to change.             *)
LEMMA SetStateStep ==
    ASSUME Inv, NEW n \in Nodes, NEW s \in States \cup {"DOWN"},
           manager[n].pc \in {"select", "config"}, SetState(n, s),
           UNCHANGED <<ha, stopped, client>>
    PROVE  /\ manager' \in [Nodes -> Pending] /\ enabled' \in [Nodes -> BOOLEAN]
           /\ Handshake'
<1> USE DEF Inv, TypeOK, SetState, Continue, Doing, Pending
<1>1. manager' \in [Nodes -> Pending] /\ enabled' \in [Nodes -> BOOLEAN]
  <2>1. PICK pc \in {"select", "quit", "start", "finish"}, t \in {Nil} \cup States \cup {"DOWN"} :
          manager' = [manager EXCEPT ![n] = Doing(pc, t)]
    BY Zenon
  <2>2. manager' \in [Nodes -> Pending]
    BY <2>1, Zenon
  <2>3. enabled' \in [Nodes -> BOOLEAN]
    BY Zenon
  <2> QED BY <2>2, <2>3, Zenon
<1>2. ASSUME NEW m \in Nodes, m # n
      PROVE  manager'[m] = manager[m] /\ enabled'[m] = enabled[m]
  BY <1>2, Zenon
<1>3. \/ Stays(n, s) /\ manager'[n] = Doing("select", Nil) /\ enabled'[n] = enabled[n]
      \/ Disables(n, s) /\ manager'[n] = Doing("quit", s) /\ enabled'[n] = FALSE
      \/ Enables(n, s) /\ manager'[n] = Doing("start", s) /\ enabled'[n] = TRUE
      \/ /\ ~Stays(n, s) /\ ~Disables(n, s) /\ ~Enables(n, s)
         /\ manager'[n] = Doing("finish", s) /\ enabled'[n] = enabled[n]
  BY Zenon
<1> HIDE DEF SetState, Continue
<1>4. ASSUME NEW m \in Nodes PROVE HandshakeAt(m)'
  <2>1. CASE m # n
    BY <1>2, <2>1 DEF Handshake, HandshakeAt, Parked
  <2>2. CASE m = n
    BY <1>3, <2>2 DEF Handshake, HandshakeAt, Parked, Stays, Disables, Enables
  <2> QED BY <2>1, <2>2, Zenon
<1> QED BY <1>1, <1>4, Zenon DEF Handshake

(* syncServer.notify: the queue of a session never grows past its size. *)
LEMMA NotifyStep ==
    ASSUME Inv, NEW n \in Nodes, Peer(n) \in Nodes, NEW note \in Notes,
           NEW next \in {"select", "config"}, Notify(n, note, next)
    PROVE  /\ manager' \in [Nodes -> Pending]
           /\ session' \in [Nodes -> {Nil} \cup [desync : BOOLEAN, notes : Seq(Notes)]]
           /\ \A m \in Nodes : session'[m] # Nil => Len(session'[m].notes) <= QueueSize
           /\ \A m \in Nodes : m # n => manager'[m] = manager[m]
           /\ manager'[n].pc \in {"select", "config", "desync"}
           /\ manager'[n].pc = "desync" => manager'[n].state \in {"select", "config"}
<1>1. session' \in [Nodes -> {Nil} \cup [desync : BOOLEAN, notes : Seq(Notes)]]
  BY DEF Inv, TypeOK, Notify, Session
<1>2. \A m \in Nodes : session'[m] # Nil => Len(session'[m].notes) <= QueueSize
  BY <1>1, SyncAssumption DEF Inv, TypeOK, Notify, Session
<1> QED BY <1>1, <1>2, Zenon DEF Inv, TypeOK, Notify, Doing, Pending

(* The peer is the other node. *)
LEMMA PeerIsNode == ASSUME NEW n \in Nodes PROVE Peer(n) \in Nodes /\ Peer(n) # n
<1>1. \E m \in Nodes : m # n
  BY SyncAssumption, Zenon
<1> QED BY <1>1, Zenon DEF Peer

(* What is known of a node goes on when nothing of it changes. *)
LEMMA Elsewhere ==
    ASSUME Handshake, NEW m \in Nodes,
           ha'[m] = ha[m], manager'[m] = manager[m], enabled'[m] = enabled[m],
           stopped'[m] = stopped[m], client'[m] = client[m]
    PROVE  HandshakeAt(m)'
<1>1. HandshakeAt(m)
  BY Zenon DEF Handshake
<1> QED BY <1>1, Zenon DEF HandshakeAt, Parked

(* A step that touches no sync client, and none of the flags the client and
   the manager hand over by, keeps the handshake. *)
LEMMA NobodyMoves ==
    ASSUME Handshake, UNCHANGED <<ha, manager, enabled, stopped, client>>
    PROVE  Handshake'
BY Elsewhere, Zenon DEF Handshake

ClientType == [Nodes -> [pc : ClientPCs, notes : Seq(Notes)]]
SessionsOK ==
    /\ session \in [Nodes -> {Nil} \cup [desync : BOOLEAN, notes : Seq(Notes)]]
    /\ \A n \in Nodes : session[n] # Nil => Len(session[n].notes) <= QueueSize

(* A client that goes on, parked as before, keeps the handshake. *)
LEMMA ClientStep ==
    ASSUME Inv, NEW n \in Nodes, NEW pc \in ClientPCs, NEW notes \in Seq(Notes),
           client' = [client EXCEPT ![n] = Holding(pc, notes)],
           pc = "override" => notes # <<>>,
           UNCHANGED <<ha, manager, enabled>>,
           \A m \in Nodes : m # n => stopped'[m] = stopped[m],
           stopped'[n] => pc = "loop",
           Parked(n) <=> stopped'[n] \/ pc \in {"start", "stopping", "quitted"}
    PROVE  client' \in ClientType /\ Handshake'
<1>1. client \in ClientType /\ Handshake
  BY Zenon DEF Inv, TypeOK, ClientType
<1>2. Holding(pc, notes) \in [pc : ClientPCs, notes : Seq(Notes)]
  BY Zenon DEF Holding
<1>3. client' \in ClientType
  BY <1>1, <1>2, Zenon DEF ClientType
<1>4. client'[n] = Holding(pc, notes) /\ \A m \in Nodes : m # n => client'[m] = client[m]
  BY <1>1, <1>2, Zenon DEF ClientType
<1>5. client'[n].pc = pc /\ client'[n].notes = notes
  BY <1>4 DEF Holding
<1>6. HandshakeAt(n)'
  <2>1. HandshakeAt(n)
    BY <1>1, Zenon DEF Handshake
  <2>2. Parked(n)' <=> Parked(n)
    BY <1>5, Zenon DEF Parked
  <2> QED BY <1>5, <2>1, <2>2, Zenon DEF HandshakeAt
<1>7. ASSUME NEW m \in Nodes, m # n PROVE HandshakeAt(m)'
  BY <1>1, <1>4, <1>7, Elsewhere, Zenon
<1> QED BY <1>3, <1>6, <1>7, Zenon DEF Handshake

(* The same for a client that goes on to a place without notes. *)
LEMMA ClientGoto ==
    ASSUME Inv, NEW n \in Nodes, NEW pc \in ClientPCs \ {"override"}, Goto(n, pc),
           UNCHANGED <<ha, manager, enabled>>,
           \A m \in Nodes : m # n => stopped'[m] = stopped[m],
           stopped'[n] => pc = "loop",
           Parked(n) <=> stopped'[n] \/ pc \in {"start", "stopping", "quitted"}
    PROVE  client' \in ClientType /\ Handshake'
<1>1. client' = [client EXCEPT ![n] = Holding(pc, <<>>)] /\ <<>> \in Seq(Notes)
  BY DEF Goto, At
<1> QED BY <1>1, ClientStep, Zenon

(* The process starts afresh. *)
LEMMA GoneStep ==
    ASSUME Inv, NEW n \in Nodes, Gone(n), inputs' \in 0..MaxInputs
    PROVE  Inv'
<1> USE DEF Inv, TypeOK
<1>1. /\ ha' \in [Nodes -> States \cup {"DOWN"}]
      /\ enabled' \in [Nodes -> BOOLEAN] /\ stopped' \in [Nodes -> BOOLEAN]
      /\ ipc' \in [Nodes -> {Nil} \cup 0..MaxInputs]
  BY Zenon DEF Gone
<1>2. Select \in Pending /\ At("loop") \in [pc : ClientPCs, notes : Seq(Notes)]
  BY DEF Select, Doing, Pending, At, Holding, ClientPCs
<1>3. manager' \in [Nodes -> Pending] /\ client' \in [Nodes -> [pc : ClientPCs, notes : Seq(Notes)]]
  BY <1>2, Zenon DEF Gone, Goto
<1>4. /\ session' \in [Nodes -> {Nil} \cup [desync : BOOLEAN, notes : Seq(Notes)]]
      /\ \A m \in Nodes : session'[m] = Nil
  BY Zenon DEF Gone
<1>5. TypeOK'
  BY <1>1, <1>3, <1>4, Zenon
<1>6. /\ ha'[n] = "DOWN" /\ manager'[n] = Select /\ enabled'[n] = FALSE /\ stopped'[n] = TRUE
      /\ client'[n] = At("loop")
      /\ \A m \in Nodes : m # n =>
            /\ ha'[m] = ha[m] /\ manager'[m] = manager[m] /\ enabled'[m] = enabled[m]
            /\ stopped'[m] = stopped[m] /\ client'[m] = client[m]
  BY Zenon DEF Gone, Goto
<1>7. HandshakeAt(n)'
  BY <1>6 DEF HandshakeAt, Parked, Select, Doing, At, Holding
<1>8. ASSUME NEW m \in Nodes, m # n PROVE HandshakeAt(m)'
  BY <1>6, <1>8, Elsewhere, Zenon
<1> QED BY <1>5, <1>7, <1>8, Zenon DEF Handshake

(* A session replaced by one within the limit, emptied, or ended. *)
LEMMA SessionSet ==
    ASSUME Inv, NEW n \in Nodes, NEW desync \in BOOLEAN, NEW notes \in Seq(Notes),
           Len(notes) <= QueueSize, session' = [session EXCEPT ![n] = Session(desync, notes)]
    PROVE  SessionsOK'
<1>1. Session(desync, notes) \in [desync : BOOLEAN, notes : Seq(Notes)] /\ Session(desync, notes).notes = notes
  BY Zenon DEF Session
<1>2. session'[n] = Session(desync, notes) /\ \A m \in Nodes : m # n => session'[m] = session[m]
  BY Zenon DEF Inv, TypeOK
<1>3. session' \in [Nodes -> {Nil} \cup [desync : BOOLEAN, notes : Seq(Notes)]]
  BY <1>1, Zenon DEF Inv, TypeOK
<1> QED BY <1>1, <1>2, <1>3, Zenon DEF Inv, TypeOK, SessionsOK

(* A session that is new, or whose queue has just been drained, is sound. *)
LEMMA SessionEmptied ==
    ASSUME Inv, NEW n \in Nodes, NEW desync \in BOOLEAN,
           session' = [session EXCEPT ![n] = Session(desync, <<>>)]
    PROVE  SessionsOK'
<1>1. <<>> \in Seq(Notes) /\ Len(<<>>) <= QueueSize
  BY SyncAssumption
<1> QED BY <1>1, SessionSet, Zenon

(* The end of one node's session leaves the other's as it was. *)
LEMMA SessionEnded ==
    ASSUME Inv, NEW n \in Nodes, session' = [session EXCEPT ![n] = Nil]
    PROVE  SessionsOK'
<1>1. session'[n] = Nil /\ \A m \in Nodes : m # n => session'[m] = session[m]
  BY Zenon DEF Inv, TypeOK
<1> QED BY <1>1, Zenon DEF Inv, TypeOK, SessionsOK

-----------------------------------------------------------------------------
(* Each step preserves the invariant. *)

(* The manager is told a state by the HA component. *)
LEMMA ManagerStateInv == ASSUME Inv, NEW n \in Nodes, NEW s \in HAStates, ManagerState(n, s) PROVE Inv'
<1>1. s \in States \cup {"DOWN"}
  BY SyncAssumption, Zenon DEF States
<1>2. Handshake' /\ manager' \in [Nodes -> Pending] /\ enabled' \in [Nodes -> BOOLEAN]
  BY <1>1, SetStateStep, Zenon DEF ManagerState
<1> QED BY <1>2, SyncAssumption DEF ManagerState, Inv, TypeOK

(* The HA component is not heard any more. *)
LEMMA ManagerTimeoutInv == ASSUME Inv, NEW n \in Nodes, ManagerTimeout(n) PROVE Inv'
<1>1. "UNKNOWN" \in States \cup {"DOWN"}
  BY SyncAssumption, Zenon DEF ManagerTimeout, Inv, TypeOK, States
<1>2. Handshake' /\ manager' \in [Nodes -> Pending] /\ enabled' \in [Nodes -> BOOLEAN]
  BY <1>1, SetStateStep, Zenon DEF ManagerTimeout
<1> QED BY <1>2, SyncAssumption DEF ManagerTimeout, Inv, TypeOK

(* The engine begins to shut down. *)
LEMMA ManagerShutdownInv == ASSUME Inv, NEW n \in Nodes, ManagerShutdown(n) PROVE Inv'
<1>1. "DOWN" \in States \cup {"DOWN"}
  BY SyncAssumption, Zenon DEF ManagerShutdown, Inv, TypeOK, States
<1>2. Handshake' /\ manager' \in [Nodes -> Pending] /\ enabled' \in [Nodes -> BOOLEAN]
  BY <1>1, SetStateStep, Zenon DEF ManagerShutdown
<1> QED BY <1>2, SyncAssumption DEF ManagerShutdown, Inv, TypeOK

(* A configuration turns HA peering on or off. *)
LEMMA ManagerPeeringInv == ASSUME Inv, NEW n \in Nodes, NEW on \in BOOLEAN, ManagerPeering(n, on) PROVE Inv'
<1> DEFINE s == IF ~on THEN "DISABLED" ELSE IF ha[n] = "DISABLED" THEN "UNKNOWN" ELSE ha[n]
<1>1. s \in States \cup {"DOWN"}
  BY Zenon DEF Inv, TypeOK, States
<1>2. SetState(n, s) /\ manager[n].pc = "config" /\ UNCHANGED <<ha, stopped, client>>
  BY Zenon DEF ManagerPeering
<1>3. Handshake' /\ manager' \in [Nodes -> Pending] /\ enabled' \in [Nodes -> BOOLEAN]
  <2> HIDE DEF s
  <2> QED BY <1>1, <1>2, SetStateStep, Zenon
<1> QED BY <1>3, Zenon DEF ManagerPeering, Inv, TypeOK

(* disable: the client takes the token from quit. *)
LEMMA ManagerQuitInv == ASSUME Inv, NEW n \in Nodes, ManagerQuit(n) PROVE Inv'
<1> USE DEF Inv
<1>1. PICK pc \in {"quitted", "stopping"} : Goto(n, pc)
  BY Zenon DEF ManagerQuit
<1>2. /\ manager[n].pc = "quit" /\ UNCHANGED <<ha, enabled, stopped, session, ipc, inputs>>
      /\ manager' = [manager EXCEPT ![n] = Doing("finish", manager[n].state)]
      /\ client[n].pc \in {"poll", "waiting", "cooldown"}
  BY Zenon DEF ManagerQuit
<1>3. Doing("finish", manager[n].state) \in Pending
  BY Zenon DEF Doing, Pending, TypeOK
<1>4. At(pc) \in [pc : ClientPCs, notes : Seq(Notes)]
  BY DEF At, Holding, ClientPCs
<1>5. TypeOK'
  <2>1. manager' \in [Nodes -> Pending]
    BY <1>2, <1>3, Zenon DEF TypeOK
  <2>2. client' \in [Nodes -> [pc : ClientPCs, notes : Seq(Notes)]]
    BY <1>1, <1>4, Zenon DEF TypeOK, Goto
  <2> QED BY <1>2, <2>1, <2>2, Zenon DEF TypeOK
<1>6. /\ manager'[n] = Doing("finish", manager[n].state) /\ client'[n] = At(pc)
      /\ \A m \in Nodes : m # n => manager'[m] = manager[m] /\ client'[m] = client[m]
  BY <1>1, <1>2, Zenon DEF TypeOK, Goto
<1>7. HandshakeAt(n)'
  BY <1>2, <1>6 DEF Handshake, HandshakeAt, Parked, Doing, At, Holding
<1>8. ASSUME NEW m \in Nodes, m # n PROVE HandshakeAt(m)'
  BY <1>2, <1>6, <1>8, Elsewhere, Zenon
<1> QED BY <1>5, <1>7, <1>8, Zenon DEF Handshake

(* enable: the client takes the token from start. *)
LEMMA ManagerStartInv == ASSUME Inv, NEW n \in Nodes, ManagerStart(n) PROVE Inv'
<1> USE DEF Inv
<1>1. /\ manager[n].pc = "start" /\ UNCHANGED <<ha, enabled, stopped, session, ipc, inputs>>
      /\ manager' = [manager EXCEPT ![n] = Doing("finish", manager[n].state)]
      /\ client[n].pc = "start" /\ Goto(n, "loop")
  BY Zenon DEF ManagerStart
<1>2. Doing("finish", manager[n].state) \in Pending
  BY Zenon DEF Doing, Pending, TypeOK
<1>3. At("loop") \in [pc : ClientPCs, notes : Seq(Notes)]
  BY DEF At, Holding, ClientPCs
<1>4. TypeOK'
  <2>1. manager' \in [Nodes -> Pending]
    BY <1>1, <1>2, Zenon DEF TypeOK
  <2>2. client' \in [Nodes -> [pc : ClientPCs, notes : Seq(Notes)]]
    BY <1>1, <1>3, Zenon DEF TypeOK, Goto
  <2> QED BY <1>1, <2>1, <2>2, Zenon DEF TypeOK
<1>5. /\ manager'[n] = Doing("finish", manager[n].state) /\ client'[n] = At("loop")
      /\ \A m \in Nodes : m # n => manager'[m] = manager[m] /\ client'[m] = client[m]
  BY <1>1, Zenon DEF TypeOK, Goto
<1>6. HandshakeAt(n)'
  BY <1>1, <1>5 DEF Handshake, HandshakeAt, Parked, Doing, At, Holding
<1>7. ASSUME NEW m \in Nodes, m # n PROVE HandshakeAt(m)'
  BY <1>1, <1>5, <1>7, Elsewhere, Zenon
<1> QED BY <1>4, <1>6, <1>7, Zenon DEF Handshake

(* The manager sets the state, or the process ends. *)
LEMMA ManagerFinishInv == ASSUME Inv, NEW n \in Nodes, ManagerFinish(n) PROVE Inv'
<1> USE DEF Inv
<1>1. CASE Gone(n) /\ UNCHANGED inputs
  <2>1. inputs' \in 0..MaxInputs
    BY <1>1, Zenon DEF TypeOK
  <2> QED BY <1>1, <2>1, GoneStep, Zenon
<1>2. ASSUME manager[n].state # "DOWN" PROVE Inv'
  <2>1. manager[n].state \in States
    BY <1>2, Zenon DEF ManagerFinish, Handshake, HandshakeAt
  <2>2. /\ manager[n].pc = "finish"
        /\ ha' = [ha EXCEPT ![n] = manager[n].state]
        /\ manager' = [manager EXCEPT ![n] = Doing("select", Nil)]
        /\ UNCHANGED <<enabled, stopped, client, session, ipc, inputs>>
    BY <1>2, Zenon DEF ManagerFinish, Select
  <2>3. Doing("select", Nil) \in Pending
    BY Zenon DEF Doing, Pending
  <2>4. ha' \in [Nodes -> States \cup {"DOWN"}]
    BY <2>1, <2>2, Zenon DEF TypeOK
  <2>5. manager' \in [Nodes -> Pending]
    BY <2>2, <2>3, Zenon DEF TypeOK
  <2>6. TypeOK'
    BY <2>2, <2>4, <2>5, Zenon DEF TypeOK
  <2>7. /\ ha'[n] = manager[n].state /\ manager'[n] = Doing("select", Nil)
        /\ \A m \in Nodes : m # n => ha'[m] = ha[m] /\ manager'[m] = manager[m]
    BY <2>2, Zenon DEF TypeOK
  <2>8. HandshakeAt(n)'
    <3>1. HandshakeAt(n)
      BY Zenon DEF Handshake
    <3>2. manager'[n].pc = "select"
      BY <2>7 DEF Doing
    <3>3. Parked(n)' <=> Parked(n)
      BY <2>2, Zenon DEF Parked
    <3> QED BY <2>2, <2>7, <3>1, <3>2, <3>3, Zenon DEF HandshakeAt
  <2>9. ASSUME NEW m \in Nodes, m # n PROVE HandshakeAt(m)'
    BY <2>2, <2>7, <2>9, Elsewhere, Zenon
  <2> QED BY <2>6, <2>8, <2>9, Zenon DEF Handshake
<1> QED BY <1>1, <1>2, Zenon DEF ManagerFinish

(* addNote marks the session of the peer. *)
LEMMA ManagerDesyncInv == ASSUME Inv, NEW n \in Nodes, ManagerDesync(n) PROVE Inv'
<1> USE DEF Inv
<1>1. /\ manager[n].pc = "desync"
      /\ manager' = [manager EXCEPT ![n] = Doing(manager[n].state, Nil)]
      /\ UNCHANGED <<ha, enabled, stopped, client, ipc, inputs>>
  BY Zenon DEF ManagerDesync
<1>2. manager[n].state \in {"select", "config"}
  BY <1>1, Zenon DEF Handshake, HandshakeAt
<1>3. manager' \in [Nodes -> Pending]
  <2>1. Doing(manager[n].state, Nil) \in Pending
    BY <1>2, Zenon DEF Doing, Pending
  <2> QED BY <1>1, <2>1, Zenon DEF TypeOK
<1>4. SessionsOK'
  BY PeerIsNode, Zenon DEF ManagerDesync, Session, SessionsOK, TypeOK
<1>5. TypeOK'
  BY <1>1, <1>3, <1>4, Zenon DEF TypeOK, SessionsOK
<1>6. /\ manager'[n] = Doing(manager[n].state, Nil)
      /\ \A m \in Nodes : m # n => manager'[m] = manager[m]
  BY <1>1, Zenon DEF TypeOK
<1>7. HandshakeAt(n)'
  BY <1>1, <1>2, <1>6 DEF Handshake, HandshakeAt, Parked, Doing
<1>8. ASSUME NEW m \in Nodes, m # n PROVE HandshakeAt(m)'
  BY <1>1, <1>6, <1>8, Elsewhere, Zenon
<1> QED BY <1>5, <1>7, <1>8, Zenon DEF Handshake

(* The manager passes an override on to its peer. *)
LEMMA ManagerOverrideInv == ASSUME Inv, NEW n \in Nodes, ManagerOverride(n) PROVE Inv'
<1> USE DEF Inv
<1>1. PICK note \in Notes : Notify(n, note, "select")
  <2>1. CASE ipc[n] # Nil /\ Notify(n, Note("Override", ipc[n]), "select")
    BY <2>1, Zenon DEF Note, Notes, TypeOK
  <2>2. CASE client[n].pc = "override" /\ Notify(n, Head(client[n].notes), "select")
    <3>1. client[n].notes # <<>> /\ client[n].notes \in Seq(Notes)
      BY <2>2, Zenon DEF Handshake, HandshakeAt, TypeOK
    <3>2. Head(client[n].notes) \in Notes
      BY <3>1
    <3> QED BY <2>2, <3>2, Zenon
  <2> QED BY <2>1, <2>2, Zenon DEF ManagerOverride
<1>2. /\ manager' \in [Nodes -> Pending] /\ SessionsOK'
      /\ \A m \in Nodes : m # n => manager'[m] = manager[m]
      /\ manager'[n].pc \in {"select", "config", "desync"}
      /\ manager'[n].pc = "desync" => manager'[n].state \in {"select", "config"}
  BY PeerIsNode, <1>1, NotifyStep, Zenon DEF SessionsOK
<1>3. UNCHANGED <<ha, enabled, stopped, inputs>> /\ manager[n].pc = "select"
  BY Zenon DEF ManagerOverride
<1>4. /\ client' \in [Nodes -> [pc : ClientPCs, notes : Seq(Notes)]]
      /\ \A m \in Nodes : m # n => client'[m] = client[m]
      /\ client'[n] = client[n] \/ (client[n].pc = "override" /\ client'[n].pc = "dispatch")
  <2>1. CASE UNCHANGED client
    BY <2>1, Zenon DEF TypeOK
  <2>2. ASSUME client[n].pc = "override",
               client' = [client EXCEPT ![n] = Holding("dispatch", Tail(client[n].notes))]
        PROVE  <1>4!1 /\ <1>4!2 /\ <1>4!3
    <3>1. client[n].notes # <<>> /\ client[n].notes \in Seq(Notes)
      BY <2>2, Zenon DEF Handshake, HandshakeAt, TypeOK
    <3>2. Tail(client[n].notes) \in Seq(Notes)
      BY <3>1
    <3>3. Holding("dispatch", Tail(client[n].notes)) \in [pc : ClientPCs, notes : Seq(Notes)]
      BY <3>2, Zenon DEF Holding, ClientPCs, Following
    <3>4. Holding("dispatch", Tail(client[n].notes)).pc = "dispatch"
      BY Zenon DEF Holding
    <3> QED BY <2>2, <3>3, <3>4, Zenon DEF TypeOK
  <2> QED BY <2>1, <2>2, Zenon DEF ManagerOverride
<1>5. ipc' \in [Nodes -> {Nil} \cup 0..MaxInputs]
  BY Zenon DEF ManagerOverride, TypeOK
<1>6. TypeOK'
  BY <1>2, <1>3, <1>4, <1>5, Zenon DEF TypeOK, SessionsOK
<1>7. HandshakeAt(n)'
  BY <1>2, <1>3, <1>4, Zenon DEF Handshake, HandshakeAt, Parked
<1>8. ASSUME NEW m \in Nodes, m # n PROVE HandshakeAt(m)'
  BY <1>2, <1>3, <1>4, <1>8, Elsewhere, Zenon
<1> QED BY <1>6, <1>7, <1>8, Zenon DEF Handshake

(* The manager passes a configuration on to its peer. *)
LEMMA ManagerConfigInv == ASSUME Inv, NEW n \in Nodes, ManagerConfig(n) PROVE Inv'
<1> USE DEF Inv
<1>1. inputs' \in 0..MaxInputs /\ Note("Config", inputs') \in Notes
  BY SyncAssumption DEF ManagerConfig, Note, Notes, TypeOK
<1>2. UNCHANGED <<ha, enabled, stopped, client, ipc>> /\ manager[n].pc = "select"
  BY Zenon DEF ManagerConfig
<1>3. /\ manager' \in [Nodes -> Pending] /\ SessionsOK'
      /\ \A m \in Nodes : m # n => manager'[m] = manager[m]
      /\ manager'[n].pc \in {"select", "config", "desync"}
      /\ manager'[n].pc = "desync" => manager'[n].state \in {"select", "config"}
  BY PeerIsNode, <1>1, NotifyStep, Zenon DEF ManagerConfig, SessionsOK
<1>4. TypeOK'
  BY <1>1, <1>2, <1>3, Zenon DEF TypeOK, SessionsOK
<1>5. HandshakeAt(n)'
  BY <1>2, <1>3, Zenon DEF Handshake, HandshakeAt, Parked
<1>6. ASSUME NEW m \in Nodes, m # n PROVE HandshakeAt(m)'
  BY <1>2, <1>3, <1>6, Elsewhere, Zenon
<1> QED BY <1>4, <1>5, <1>6, Zenon DEF Handshake

(* The client parks if it finds the token of its stop, and registers otherwise. *)
LEMMA ClientLoopInv == ASSUME Inv, NEW n \in Nodes, ClientLoop(n) PROVE Inv'
<1> USE DEF Inv
<1>1. /\ client[n].pc = "loop" /\ UNCHANGED <<ha, manager, enabled, session, ipc, inputs>>
      /\ Goto(n, IF stopped[n] THEN "start" ELSE "register")
      /\ stopped' = [stopped EXCEPT ![n] = FALSE]
  BY Zenon DEF ClientLoop
<1>2. stopped' \in [Nodes -> BOOLEAN] /\ ~stopped'[n] /\ \A m \in Nodes : m # n => stopped'[m] = stopped[m]
  BY <1>1, Zenon DEF TypeOK
<1>3. PICK pc \in {"start", "register"} : Goto(n, pc) /\ (pc = "start" <=> stopped[n])
  BY <1>1, Zenon
<1>4. Parked(n) <=> pc = "start"
  BY <1>1, <1>3, Zenon DEF Parked
<1>5. client' \in ClientType /\ Handshake'
  BY <1>1, <1>2, <1>3, <1>4, ClientGoto, Zenon DEF ClientPCs
<1> QED BY <1>1, <1>2, <1>5, Zenon DEF TypeOK, ClientType

(* The cooldown passes. *)
LEMMA ClientCooldownInv == ASSUME Inv, NEW n \in Nodes, ClientCooldown(n) PROVE Inv'
<1> USE DEF Inv
<1>1. /\ client[n].pc = "cooldown" /\ Goto(n, "loop")
      /\ UNCHANGED <<ha, manager, enabled, stopped, session, ipc, inputs>>
  BY Zenon DEF ClientCooldown
<1>2. Parked(n) <=> stopped[n]
  BY <1>1, Zenon DEF Parked
<1>3. client' \in ClientType /\ Handshake'
  BY <1>1, <1>2, ClientGoto, Zenon DEF ClientPCs
<1> QED BY <1>1, <1>3, Zenon DEF TypeOK, ClientType

(* A client that was stopped leaves the token for its loop. *)
LEMMA ClientStoppedInv == ASSUME Inv, NEW n \in Nodes, ClientStopped(n) PROVE Inv'
<1> USE DEF Inv
<1>1. /\ client[n].pc = "stopping" /\ Goto(n, "loop")
      /\ stopped' = [stopped EXCEPT ![n] = TRUE]
      /\ UNCHANGED <<ha, manager, enabled, session, ipc, inputs>>
  BY Zenon DEF ClientStopped
<1>2. stopped' \in [Nodes -> BOOLEAN] /\ stopped'[n] /\ \A m \in Nodes : m # n => stopped'[m] = stopped[m]
  BY <1>1, Zenon DEF TypeOK
<1>3. Parked(n)
  BY <1>1, Zenon DEF Parked
<1>4. client' \in ClientType /\ Handshake'
  BY <1>1, <1>2, <1>3, ClientGoto, Zenon DEF ClientPCs
<1> QED BY <1>1, <1>2, <1>4, Zenon DEF TypeOK, ClientType

(* The client gets a session. *)
LEMMA ClientRegisterInv == ASSUME Inv, NEW n \in Nodes, ClientRegister(n) PROVE Inv'
<1> USE DEF Inv
<1>1. /\ client[n].pc = "register" /\ Goto(n, "poll")
      /\ session' = [session EXCEPT ![n] = Session(TRUE, <<>>)]
      /\ UNCHANGED <<ha, manager, enabled, stopped, ipc, inputs>>
  BY Zenon DEF ClientRegister, Register, newSession
<1>2. ~stopped[n]
  BY <1>1, Zenon DEF Handshake, HandshakeAt
<1>3. ~Parked(n)
  BY <1>1, <1>2, Zenon DEF Parked
<1>4. client' \in ClientType /\ Handshake'
  BY <1>1, <1>2, <1>3, ClientGoto, Zenon DEF ClientPCs, Following
<1>5. SessionsOK'
  BY <1>1, SessionEmptied, Zenon
<1> QED BY <1>1, <1>4, <1>5, Zenon DEF TypeOK, ClientType, SessionsOK

(* The client gets no session. *)
LEMMA ClientUnregisteredInv == ASSUME Inv, NEW n \in Nodes, ClientUnregistered(n) PROVE Inv'
<1> USE DEF Inv
<1>1. /\ client[n].pc = "register" /\ Goto(n, "cooldown")
      /\ UNCHANGED <<ha, manager, enabled, stopped, session, ipc, inputs>>
  BY Zenon DEF ClientUnregistered
<1>2. ~stopped[n]
  BY <1>1, Zenon DEF Handshake, HandshakeAt
<1>3. ~Parked(n)
  BY <1>1, <1>2, Zenon DEF Parked
<1>4. client' \in ClientType /\ Handshake'
  BY <1>1, <1>2, <1>3, ClientGoto, Zenon DEF ClientPCs
<1> QED BY <1>1, <1>4, Zenon DEF TypeOK, ClientType

(* A poll learns of a desynchronisation or waits. *)
LEMMA ClientPollInv == ASSUME Inv, NEW n \in Nodes, ClientPoll(n) PROVE Inv'
<1> USE DEF Inv
<1>1. <<Note("Desync", Nil)>> \in Seq(Notes) /\ <<>> \in Seq(Notes)
  BY DEF Note, Notes
<1>2. PICK pc \in {"dispatch", "waiting"}, notes \in Seq(Notes) :
        client' = [client EXCEPT ![n] = Holding(pc, notes)]
  <2>1. CASE client' = [client EXCEPT ![n] = Holding("dispatch", <<Note("Desync", Nil)>>)]
    BY <1>1, <2>1, Zenon
  <2>2. CASE client' = [client EXCEPT ![n] = Holding("waiting", <<>>)]
    BY <1>1, <2>2, Zenon
  <2> QED BY <2>1, <2>2, Zenon DEF ClientPoll, Goto, At
<1>3. UNCHANGED <<ha, manager, enabled, stopped, ipc, inputs>> /\ client[n].pc = "poll"
  BY Zenon DEF ClientPoll
<1>4. SessionsOK'
  <2>1. CASE UNCHANGED session
    BY <2>1, Zenon DEF SessionsOK, TypeOK
  <2>2. CASE session' = [session EXCEPT ![n] = Session(FALSE, <<>>)]
    BY <2>2, SessionEmptied, Zenon
  <2> QED BY <2>1, <2>2, Zenon DEF ClientPoll
<1>5. ~stopped[n]
  BY <1>3, Zenon DEF Handshake, HandshakeAt
<1>6. ~Parked(n)
  BY <1>3, <1>5, Zenon DEF Parked
<1>7. client' \in ClientType /\ Handshake'
  BY <1>2, <1>3, <1>5, <1>6, ClientStep, Zenon DEF ClientPCs, Following
<1> QED BY <1>3, <1>4, <1>7, Zenon DEF TypeOK, ClientType, SessionsOK

(* A poll returns the notes of the session. *)
LEMMA ClientNotesInv == ASSUME Inv, NEW n \in Nodes, ClientNotes(n) PROVE Inv'
<1> USE DEF Inv
<1>1. /\ client[n].pc = "waiting" /\ session[n] # Nil
      /\ client' = [client EXCEPT ![n] = Holding("dispatch", session[n].notes)]
      /\ session' = [session EXCEPT ![n] = Session(session[n].desync, <<>>)]
      /\ UNCHANGED <<ha, manager, enabled, stopped, ipc, inputs>>
  BY Zenon DEF ClientNotes
<1>2. session[n].desync \in BOOLEAN /\ session[n].notes \in Seq(Notes)
  BY <1>1, Zenon DEF TypeOK
<1>3. SessionsOK'
  BY <1>1, <1>2, SessionEmptied, Zenon
<1>4. ~stopped[n]
  BY <1>1, Zenon DEF Handshake, HandshakeAt
<1>5. ~Parked(n)
  BY <1>1, <1>4, Zenon DEF Parked
<1>6. client' \in ClientType /\ Handshake'
  BY <1>1, <1>2, <1>4, <1>5, ClientStep, Zenon DEF ClientPCs, Following
<1> QED BY <1>1, <1>3, <1>6, Zenon DEF TypeOK, ClientType, SessionsOK

(* A poll fails. *)
LEMMA ClientPollFailsInv == ASSUME Inv, NEW n \in Nodes, ClientPollFails(n) PROVE Inv'
<1> USE DEF Inv
<1>1. /\ client[n].pc \in {"poll", "waiting"} /\ Goto(n, "deregister")
      /\ UNCHANGED <<ha, manager, enabled, stopped, session, ipc, inputs>>
  BY Zenon DEF ClientPollFails
<1>2. ~stopped[n]
  BY <1>1, Zenon DEF Handshake, HandshakeAt
<1>3. ~Parked(n)
  BY <1>1, <1>2, Zenon DEF Parked
<1>4. client' \in ClientType /\ Handshake'
  BY <1>1, <1>2, <1>3, ClientGoto, Zenon DEF ClientPCs
<1> QED BY <1>1, <1>4, Zenon DEF TypeOK, ClientType

(* The client deals with a note, or has none left. *)
LEMMA ClientDispatchInv == ASSUME Inv, NEW n \in Nodes, ClientDispatch(n) PROVE Inv'
<1> USE DEF Inv
<1>1. client[n].pc = "dispatch" /\ UNCHANGED <<ha, manager, enabled, stopped, session, ipc, inputs>>
  BY Zenon DEF ClientDispatch
<1>2. client[n].notes \in Seq(Notes)
  BY Zenon DEF TypeOK
<1>3. PICK pc \in {"override", "dispatch", "poll"}, rest \in Seq(Notes) :
        /\ client' = [client EXCEPT ![n] = Holding(pc, rest)]
        /\ pc = "override" => rest # <<>>
  <2>1. CASE client[n].notes = <<>> /\ Goto(n, "poll")
    BY <1>2, <2>1, Zenon DEF Goto, At
  <2>2. CASE client[n].notes # <<>> /\ client' = [client EXCEPT ![n] = Holding("override", client[n].notes)]
    BY <1>2, <2>2, Zenon
  <2>3. CASE client[n].notes # <<>> /\ client' = [client EXCEPT ![n] = Holding("dispatch", Tail(client[n].notes))]
    <3>1. Tail(client[n].notes) \in Seq(Notes)
      BY <1>2, <2>3
    <3> QED BY <2>3, <3>1, Zenon
  <2> QED BY <2>1, <2>2, <2>3, Zenon DEF ClientDispatch
<1>4. ~stopped[n]
  BY <1>1, Zenon DEF Handshake, HandshakeAt
<1>5. ~Parked(n)
  BY <1>1, <1>4, Zenon DEF Parked
<1>6. client' \in ClientType /\ Handshake'
  BY <1>1, <1>3, <1>4, <1>5, ClientStep, Zenon DEF ClientPCs, Following
<1> QED BY <1>1, <1>6, Zenon DEF TypeOK, ClientType

(* The client gives its session up. *)
LEMMA ClientDeregisterInv == ASSUME Inv, NEW n \in Nodes, ClientDeregister(n) PROVE Inv'
<1> USE DEF Inv
<1>1. /\ client[n].pc \in {"deregister", "quitted"}
      /\ Goto(n, IF client[n].pc = "quitted" THEN "stopping" ELSE "cooldown")
      /\ session' = [session EXCEPT ![n] = Nil]
      /\ UNCHANGED <<ha, manager, enabled, stopped, ipc, inputs>>
  BY Zenon DEF ClientDeregister, Deregister
<1>2. ~stopped[n]
  BY <1>1, Zenon DEF Handshake, HandshakeAt
<1>3. PICK pc \in {"stopping", "cooldown"} : Goto(n, pc) /\ (pc = "stopping" <=> client[n].pc = "quitted")
  BY <1>1, Zenon
<1>4. Parked(n) <=> pc = "stopping"
  BY <1>1, <1>2, <1>3, Zenon DEF Parked
<1>5. client' \in ClientType /\ Handshake'
  BY <1>1, <1>2, <1>3, <1>4, ClientGoto, Zenon DEF ClientPCs
<1>6. SessionsOK'
  BY <1>1, SessionEnded, Zenon
<1> QED BY <1>1, <1>5, <1>6, Zenon DEF TypeOK, ClientType, SessionsOK

(* The server queues a heartbeat. *)
LEMMA HeartbeatInv == ASSUME Inv, NEW n \in Nodes, Heartbeat(n) PROVE Inv'
<1> USE DEF Inv
<1>1. Note("Heartbeat", Nil) \in Notes
  BY Zenon DEF Note, Notes
<1>2. UNCHANGED <<ha, manager, enabled, stopped, client, ipc, inputs>>
  BY Zenon DEF Heartbeat
<1>3. SessionsOK'
  <2>1. session[n] # Nil /\ session[n].desync \in BOOLEAN /\ session[n].notes \in Seq(Notes)
    BY Zenon DEF Heartbeat, TypeOK
  <2>2. CASE Len(session[n].notes) < QueueSize
    <3>1. /\ Append(session[n].notes, Note("Heartbeat", Nil)) \in Seq(Notes)
          /\ Len(Append(session[n].notes, Note("Heartbeat", Nil))) <= QueueSize
      BY <1>1, <2>1, <2>2, SyncAssumption
    <3> QED BY <2>1, <2>2, <3>1, SessionSet, Zenon DEF Heartbeat
  <2>3. CASE ~(Len(session[n].notes) < QueueSize)
    <3>1. Len(session[n].notes) <= QueueSize
      BY <2>1, Zenon DEF TypeOK
    <3> QED BY <2>1, <2>3, <3>1, SessionSet, Zenon DEF Heartbeat
  <2> QED BY <2>2, <2>3, Zenon
<1> QED BY <1>2, <1>3, NobodyMoves, Zenon DEF TypeOK, SessionsOK

(* The server ends a session. *)
LEMMA ExpireInv == ASSUME Inv, NEW n \in Nodes, Expire(n) PROVE Inv'
<1> USE DEF Inv
<1>1. session' = [session EXCEPT ![n] = Nil] /\ UNCHANGED <<ha, manager, enabled, stopped, client, ipc, inputs>>
  BY Zenon DEF Expire
<1>2. SessionsOK'
  BY <1>1, SessionEnded, Zenon
<1> QED BY <1>1, <1>2, NobodyMoves, Zenon DEF TypeOK, SessionsOK

(* An operator issues an override. *)
LEMMA OperatorInv == ASSUME Inv, NEW n \in Nodes, Operator(n) PROVE Inv'
<1> USE DEF Inv
<1>1. UNCHANGED <<ha, manager, enabled, stopped, client, session>>
  BY Zenon DEF Operator
<1>2. inputs' \in 0..MaxInputs /\ ipc' \in [Nodes -> {Nil} \cup 0..MaxInputs]
  BY SyncAssumption DEF Operator, TypeOK
<1> QED BY <1>1, <1>2, NobodyMoves, Zenon DEF TypeOK

(* The process ends at once. *)
LEMMA CrashInv == ASSUME Inv, NEW n \in Nodes, Crash(n) PROVE Inv'
<1> USE DEF Inv
<1>1. inputs' \in 0..MaxInputs
  BY SyncAssumption DEF Crash, TypeOK
<1> QED BY <1>1, GoneStep, Zenon DEF Crash

(* The process starts again. *)
LEMMA RestartInv == ASSUME Inv, NEW n \in Nodes, Restart(n) PROVE Inv'
<1> USE DEF Inv
<1>1. ha' = [ha EXCEPT ![n] = "UNKNOWN"] /\ UNCHANGED <<manager, enabled, stopped, client, session, ipc, inputs>>
  BY Zenon DEF Restart
<1>2. ha' \in [Nodes -> States \cup {"DOWN"}]
  BY <1>1, Zenon DEF TypeOK, States
<1>3. ha'[n] = "UNKNOWN" /\ \A m \in Nodes : m # n => ha'[m] = ha[m]
  BY <1>1, Zenon DEF TypeOK
<1>4. HandshakeAt(n)'
  BY <1>1, <1>3, Zenon DEF Handshake, HandshakeAt, Parked
<1>5. ASSUME NEW m \in Nodes, m # n PROVE HandshakeAt(m)'
  BY <1>1, <1>3, <1>5, Elsewhere, Zenon
<1> QED BY <1>1, <1>2, <1>4, <1>5, Zenon DEF TypeOK, Handshake

(* Every step of an engine preserves the invariant. *)
LEMMA NextInv == Inv /\ [Next]_vars => Inv'
<1> SUFFICES ASSUME Inv, [Next]_vars PROVE Inv'
  BY Zenon
<1>1. CASE UNCHANGED vars
  BY <1>1, NobodyMoves, Zenon DEF vars, Inv, TypeOK
<1>2. ASSUME NEW n \in Nodes, Manager(n) PROVE Inv'
  BY <1>2, ManagerStateInv, ManagerTimeoutInv, ManagerShutdownInv, ManagerPeeringInv,
     ManagerQuitInv, ManagerStartInv, ManagerFinishInv, ManagerDesyncInv, ManagerOverrideInv,
     ManagerConfigInv, Zenon DEF Manager
<1>3. ASSUME NEW n \in Nodes, Client(n) PROVE Inv'
  BY <1>3, ClientLoopInv, ClientCooldownInv, ClientStoppedInv, ClientRegisterInv,
     ClientUnregisteredInv, ClientPollInv, ClientNotesInv, ClientPollFailsInv, ClientDispatchInv,
     ClientDeregisterInv, Zenon DEF Client
<1>4. ASSUME NEW n \in Nodes, Server(n) \/ Operator(n) \/ Crash(n) \/ Restart(n) PROVE Inv'
  BY <1>4, HeartbeatInv, ExpireInv, OperatorInv, CrashInv, RestartInv, Zenon DEF Server
<1> QED BY <1>1, <1>2, <1>3, <1>4, Zenon DEF Next

(* For any size of the queues and however many states, overrides,           *)
(* configurations, shutdowns and crashes: no token of syncClient.enable and *)
(* disable is lost or taken twice.                                          *)
THEOREM TokensCorrect == Spec => []TokensAgree
<1>1. Inv => TokensAgree
  BY Zenon DEF Inv, Handshake, HandshakeAt, TokensAgree
<1> QED BY <1>1, InitInv, NextInv, PTL DEF Spec

(* becomeMaster stops the client before the engine is the leader, and none  *)
(* of the steps that start it leaves the engine one.                        *)
THEOREM LeaderFollowsNobody == Spec => []LeaderIsAlone
<1>1. Inv => LeaderIsAlone
  <2> SUFFICES ASSUME Inv, NEW n \in Nodes, ha[n] = "LEADER", manager[n].pc = "select"
               PROVE  client[n].pc \notin Following
    BY Zenon DEF LeaderIsAlone
  <2>1. Parked(n) /\ (stopped[n] => client[n].pc = "loop")
    BY Zenon DEF Inv, Handshake, HandshakeAt
  <2> QED BY <2>1, Zenon DEF Parked, Following
<1> QED BY <1>1, InitInv, NextInv, PTL DEF Spec

(* The variables have their types, and the queue of a session (addNote)     *)
(* never holds more than QueueSize notes.                                   *)
THEOREM TypesCorrect == Spec => []TypeOK
<1>1. Inv => TypeOK
  BY Zenon DEF Inv
<1> QED BY <1>1, InitInv, NextInv, PTL DEF Spec

-----------------------------------------------------------------------------
(* What a client still has to deal with: the last note that counts, of the  *)
(* queue of its session and of the notes it dispatches, is the last one     *)
(* sent; and with none of them left it has dealt with that one.             *)
Counts(note) == note.type \in {"Config", "Override"}
Quiet(s) == \A i \in 1..Len(s) : ~Counts(s[i])
EndsWith(s, note) ==
    \E i \in 1..Len(s) : s[i] = note /\ Counts(note) /\ \A j \in (i + 1)..Len(s) : ~Counts(s[j])
CatchesUp(queue, notes, last, done) ==
    \/ EndsWith(queue, last)
    \/ Quiet(queue) /\ EndsWith(notes, last)
    \/ Quiet(queue) /\ Quiet(notes) /\ done = last

Marked(n) == session[n].desync \/ manager[Peer(n)].pc = "desync"
FollowsAt(n) ==
    /\ client[n].pc \in {"poll", "waiting"} => client[n].notes = <<>>
    /\ client[n].pc = "override" => client[n].notes[1].type = "Override"
    /\ session[n] # Nil /\ client[n].pc \in Following /\ ~Marked(n) =>
           CatchesUp(session[n].notes, client[n].notes, sent[n], applied[n])
Follows ==
    /\ sent \in [Nodes -> {Nil} \cup Notes] /\ applied \in [Nodes -> {Nil} \cup Notes]
    /\ \A n \in Nodes : FollowsAt(n)

(* A note that counts becomes the last one; any other changes nothing. *)
LEMMA QueueNote ==
    ASSUME NEW s \in Seq(Notes), NEW note \in Notes
    PROVE  /\ Counts(note) => EndsWith(Append(s, note), note)
           /\ ~Counts(note) => \A x : EndsWith(s, x) => EndsWith(Append(s, note), x)
           /\ ~Counts(note) /\ Quiet(s) => Quiet(Append(s, note))
<1>1. /\ Len(Append(s, note)) = Len(s) + 1 /\ Append(s, note)[Len(s) + 1] = note
      /\ \A i \in 1..Len(s) : Append(s, note)[i] = s[i]
      /\ Len(s) \in Nat
  OBVIOUS
<1>2. Counts(note) => EndsWith(Append(s, note), note)
  BY <1>1 DEF EndsWith
<1>3. ASSUME ~Counts(note), NEW x, EndsWith(s, x) PROVE EndsWith(Append(s, note), x)
  <2>1. PICK i \in 1..Len(s) : s[i] = x /\ Counts(x) /\ \A j \in (i + 1)..Len(s) : ~Counts(s[j])
    BY <1>3, Zenon DEF EndsWith
  <2>2. \A j \in (i + 1)..(Len(s) + 1) : ~Counts(Append(s, note)[j])
    BY <1>1, <1>3, <2>1
  <2> QED BY <1>1, <2>1, <2>2 DEF EndsWith
<1>4. ~Counts(note) /\ Quiet(s) => Quiet(Append(s, note))
  BY <1>1 DEF Quiet
<1> QED BY <1>2, <1>3, <1>4, Zenon

(* The first note is the last that counts, or the rest holds it. *)
LEMMA TakeNote ==
    ASSUME NEW s \in Seq(Notes), s # <<>>
    PROVE  /\ \A x : EndsWith(s, x) => EndsWith(Tail(s), x) \/ (s[1] = x /\ Counts(x) /\ Quiet(Tail(s)))
           /\ Quiet(s) => Quiet(Tail(s)) /\ ~Counts(s[1])
<1>1. /\ Len(Tail(s)) = Len(s) - 1 /\ Len(s) \in Nat \ {0}
      /\ \A i \in 1..Len(Tail(s)) : Tail(s)[i] = s[i + 1]
  OBVIOUS
<1>2. ASSUME NEW x, EndsWith(s, x)
      PROVE  EndsWith(Tail(s), x) \/ (s[1] = x /\ Counts(x) /\ Quiet(Tail(s)))
  <2>1. PICK i \in 1..Len(s) : s[i] = x /\ Counts(x) /\ \A j \in (i + 1)..Len(s) : ~Counts(s[j])
    BY <1>2, Zenon DEF EndsWith
  <2>2. CASE i = 1
    BY <1>1, <2>1, <2>2 DEF Quiet
  <2>3. CASE i # 1
    <3>1. i - 1 \in 1..Len(Tail(s)) /\ Tail(s)[i - 1] = x
      BY <1>1, <2>1, <2>3
    <3>2. \A j \in i..Len(Tail(s)) : ~Counts(Tail(s)[j])
      BY <1>1, <2>1
    <3>3. (i - 1) + 1 = i
      BY <2>1
    <3> QED BY <2>1, <3>1, <3>2, <3>3, Zenon DEF EndsWith
  <2> QED BY <2>2, <2>3, Zenon
<1>3. Quiet(s) => Quiet(Tail(s)) /\ ~Counts(s[1])
  BY <1>1 DEF Quiet
<1> QED BY <1>2, <1>3, Zenon

(* There is nothing in an empty queue. *)
LEMMA EmptyQuiet == Quiet(<<>>) /\ \A x : ~EndsWith(<<>>, x)
BY DEF Quiet, EndsWith

(* The peer of the peer is the node itself. *)
LEMMA PeersPeer == ASSUME NEW n \in Nodes PROVE Peer(Peer(n)) = n /\ \A m \in Nodes : m = n \/ m = Peer(n)
BY PeerIsNode, SyncAssumption, Zenon

(* The variables have an entry for every node. *)
LEMMA Domains == Inv => DOMAIN manager = Nodes /\ DOMAIN session = Nodes /\ DOMAIN client = Nodes
BY Zenon DEF Inv, TypeOK

(* A client of which nothing changes, with no mark taken back, follows on. *)
LEMMA FollowsKept ==
    ASSUME NEW m \in Nodes, FollowsAt(m), client'[m] = client[m],
           session'[m] = session[m], sent'[m] = sent[m], applied'[m] = applied[m],
           manager[Peer(m)].pc = "desync" => manager'[Peer(m)].pc = "desync"
    PROVE  FollowsAt(m)'
BY Zenon DEF FollowsAt, Marked

(* Nobody is told anything, and the managers take no mark back. *)
LEMMA NobodyTold ==
    ASSUME Follows, UNCHANGED <<client, session, sent, applied>>,
           \A m \in Nodes : manager[m].pc = "desync" => manager'[m].pc = "desync"
    PROVE  Follows'
<1>1. ASSUME NEW m \in Nodes PROVE FollowsAt(m)'
  <2>1. FollowsAt(m)
    BY Zenon DEF Follows
  <2> QED BY <2>1, PeerIsNode, FollowsKept, Zenon
<1> QED BY <1>1, Zenon DEF Follows

(* A client that follows nobody any more has nothing to catch up with. *)
LEMMA GivesUp ==
    ASSUME Inv, Follows, NEW n \in Nodes, NEW pc \in ClientPCs \ Following, Goto(n, pc),
           UNCHANGED <<session, sent, applied>>,
           \A m \in Nodes : manager[m].pc = "desync" => manager'[m].pc = "desync"
    PROVE  Follows'
<1>1. client'[n].pc = pc /\ \A m \in Nodes : m # n => client'[m] = client[m]
  BY Zenon DEF Goto, At, Holding, Inv, TypeOK
<1>2. FollowsAt(n)'
  BY <1>1, Zenon DEF FollowsAt, Following
<1>3. ASSUME NEW m \in Nodes, m # n PROVE FollowsAt(m)'
  <2>1. FollowsAt(m)
    BY Zenon DEF Follows
  <2> QED BY <1>1, <1>3, <2>1, PeerIsNode, FollowsKept, Zenon
<1> QED BY <1>2, <1>3, Zenon DEF Follows

(* The sessions are ended with a process. *)
LEMMA GoneFollows == ASSUME Inv, Follows, NEW n \in Nodes, Gone(n) PROVE Follows'
<1>1. /\ \A m \in Nodes : session'[m] = Nil
      /\ sent' \in [Nodes -> {Nil} \cup Notes] /\ applied' \in [Nodes -> {Nil} \cup Notes]
      /\ client'[n].pc = "loop" /\ \A m \in Nodes : m # n => client'[m] = client[m]
  BY Zenon DEF Gone, Goto, At, Holding, Inv, TypeOK
<1>2. ASSUME NEW m \in Nodes PROVE FollowsAt(m)'
  BY <1>1, Zenon DEF Follows, FollowsAt
<1> QED BY <1>1, <1>2, Zenon DEF Follows

(* syncServer.notify: the note is the last in the queue of the peer, or the *)
(* peer's session is about to be marked.                                    *)
LEMMA NotifyFollows ==
    ASSUME Inv, Follows, NEW n \in Nodes, NEW note \in Notes, Counts(note),
           NEW next \in {"select", "config"}, Notify(n, note, next),
           client'[Peer(n)] = client[Peer(n)], applied'[Peer(n)] = applied[Peer(n)]
    PROVE  /\ sent' \in [Nodes -> {Nil} \cup Notes] /\ sent'[n] = sent[n]
           /\ session'[n] = session[n]
           /\ manager'[Peer(n)] = manager[Peer(n)]
           /\ FollowsAt(Peer(n))'
<1> DEFINE p == Peer(n)
<1>1. p \in Nodes /\ p # n /\ Peer(p) = n /\ FollowsAt(p)
  BY PeerIsNode, PeersPeer, Zenon DEF Follows
<1>2. session[p] # Nil => session[p].desync \in BOOLEAN /\ session[p].notes \in Seq(Notes)
  BY <1>1, Zenon DEF Inv, TypeOK
<1>3. sent' = [sent EXCEPT ![p] = IF session[p] = Nil THEN Nil ELSE note]
  BY Zenon DEF Notify
<1>4. sent' \in [Nodes -> {Nil} \cup Notes] /\ sent'[n] = sent[n]
  BY <1>1, <1>3, Zenon DEF Follows
<1>5. session'[n] = session[n] /\ manager'[p] = manager[p]
  BY <1>1, Domains, Zenon DEF Notify
<1>6. CASE session[p] = Nil
  <2>1. session'[p] = Nil
    BY <1>6, Zenon DEF Notify
  <2> QED BY <1>1, <1>4, <1>5, <2>1, Zenon DEF FollowsAt
<1>7. CASE session[p] # Nil /\ Len(session[p].notes) >= QueueSize
  <2>1. manager'[n].pc = "desync"
    BY <1>7, Domains, Zenon DEF Notify, Doing
  <2> QED BY <1>1, <1>4, <1>5, <2>1, Zenon DEF FollowsAt, Marked
<1>8. CASE session[p] # Nil /\ ~(Len(session[p].notes) >= QueueSize)
  <2>1. session' = [session EXCEPT ![p] = Session(session[p].desync, Append(session[p].notes, note))]
    BY <1>8, Zenon DEF Notify
  <2>2. session'[p].notes = Append(session[p].notes, note)
    BY <1>1, <2>1, Zenon DEF Session, Inv, TypeOK
  <2>3. sent'[p] = note
    BY <1>1, <1>3, <1>8, Zenon DEF Follows
  <2>4. EndsWith(session'[p].notes, sent'[p])
    BY <1>2, <1>8, <2>2, <2>3, QueueNote, Zenon
  <2>5. CatchesUp(session'[p].notes, client'[p].notes, sent'[p], applied'[p])
    BY <2>4, Zenon DEF CatchesUp
  <2> QED BY <1>1, <1>4, <1>5, <2>5, Zenon DEF FollowsAt
<1> QED BY <1>6, <1>7, <1>8, Zenon

(* The manager's other steps tell nobody anything. *)
LEMMA ManagerTells ==
    ASSUME Inv, Follows, NEW n \in Nodes,
           \/ \E s \in HAStates : ManagerState(n, s)
           \/ ManagerTimeout(n) \/ ManagerShutdown(n) \/ ManagerQuit(n) \/ ManagerStart(n)
           \/ ManagerFinish(n) \/ \E on \in BOOLEAN : ManagerPeering(n, on)
    PROVE  Follows'
<1>1. CASE (\E s \in HAStates : ManagerState(n, s)) \/ ManagerTimeout(n) \/ ManagerShutdown(n)
           \/ \E on \in BOOLEAN : ManagerPeering(n, on)
  <2>1. UNCHANGED <<client, session, sent, applied>>
    BY <1>1, Zenon DEF ManagerState, ManagerTimeout, ManagerShutdown, ManagerPeering
  <2>2. manager[n].pc # "desync" /\ \E s : SetState(n, s)
    BY <1>1, Zenon DEF ManagerState, ManagerTimeout, ManagerShutdown, ManagerPeering
  <2>3. \E x : manager' = [manager EXCEPT ![n] = x]
    BY <2>2, Zenon DEF SetState, Continue
  <2> QED BY <2>1, <2>2, <2>3, Domains, NobodyTold, Zenon
<1>2. CASE ManagerQuit(n) \/ ManagerStart(n)
  <2>1. PICK pc \in {"quitted", "stopping", "loop"} : Goto(n, pc)
    BY <1>2, Zenon DEF ManagerQuit, ManagerStart
  <2>2. manager[n].pc # "desync" /\ \A m \in Nodes : m # n => manager'[m] = manager[m]
    BY <1>2, Zenon DEF ManagerQuit, ManagerStart, Inv, TypeOK
  <2>3. UNCHANGED <<session, sent, applied>> /\ pc \in ClientPCs \ Following
    BY <1>2, <2>1, Zenon DEF ManagerQuit, ManagerStart, ClientPCs, Following
  <2> QED BY <2>1, <2>2, <2>3, GivesUp, Zenon
<1>3. CASE ManagerFinish(n)
  <2>1. CASE Gone(n)
    BY <2>1, GoneFollows, Zenon
  <2>2. CASE UNCHANGED <<client, session, sent, applied>>
    <3>1. manager[n].pc # "desync" /\ \A m \in Nodes : m # n => manager'[m] = manager[m]
      BY <1>3, Zenon DEF ManagerFinish, Gone, Inv, TypeOK
    <3> QED BY <2>2, <3>1, NobodyTold, Zenon
  <2> QED BY <1>3, <2>1, <2>2, Zenon DEF ManagerFinish
<1> QED BY <1>1, <1>2, <1>3, Zenon

(* The session of the peer is marked. *)
LEMMA ManagerDesyncFollows == ASSUME Inv, Follows, NEW n \in Nodes, ManagerDesync(n) PROVE Follows'
<1>1. Peer(n) \in Nodes /\ Peer(n) # n /\ UNCHANGED <<client, sent, applied>>
  BY PeerIsNode, Zenon DEF ManagerDesync
<1>2. session'[n] = session[n] /\ manager'[Peer(n)] = manager[Peer(n)]
  BY <1>1, Domains, Zenon DEF ManagerDesync
<1>3. session'[Peer(n)] = Nil \/ session'[Peer(n)].desync
  BY <1>1, Domains, Zenon DEF ManagerDesync, Session
<1>4. FollowsAt(n)'
  BY <1>1, <1>2, FollowsKept, Zenon DEF Follows
<1>5. FollowsAt(Peer(n))'
  BY <1>1, <1>3, Zenon DEF Follows, FollowsAt, Marked
<1> QED BY <1>1, <1>4, <1>5, PeersPeer, Zenon DEF Follows

(* A configuration is the last note for the peer. *)
LEMMA ManagerConfigFollows == ASSUME Inv, Follows, NEW n \in Nodes, ManagerConfig(n) PROVE Follows'
<1>1. Note("Config", inputs') \in Notes /\ Counts(Note("Config", inputs'))
  BY SyncAssumption DEF ManagerConfig, Note, Notes, Counts, Inv, TypeOK
<1>2. Notify(n, Note("Config", inputs'), "config") /\ UNCHANGED <<client, applied>>
  BY Zenon DEF ManagerConfig
<1>3. /\ sent' \in [Nodes -> {Nil} \cup Notes] /\ sent'[n] = sent[n] /\ session'[n] = session[n]
      /\ manager'[Peer(n)] = manager[Peer(n)] /\ FollowsAt(Peer(n))'
  BY <1>1, <1>2, NotifyFollows, Zenon
<1>4. FollowsAt(n)'
  BY <1>2, <1>3, FollowsKept, Zenon DEF Follows
<1> QED BY <1>2, <1>3, <1>4, PeersPeer, Zenon DEF Follows

(* An override is the last note for the peer, and when it came from the     *)
(* leader the client has dealt with it.                                     *)
LEMMA ManagerOverrideFollows == ASSUME Inv, Follows, NEW n \in Nodes, ManagerOverride(n) PROVE Follows'
<1>0. FollowsAt(n) /\ Peer(n) \in Nodes /\ Peer(n) # n
  BY PeerIsNode, Zenon DEF Follows
<1>1. CASE /\ ipc[n] # Nil /\ Notify(n, Note("Override", ipc[n]), "select")
           /\ UNCHANGED <<client, applied>>
  <2>1. Note("Override", ipc[n]) \in Notes /\ Counts(Note("Override", ipc[n]))
    BY <1>1, Zenon DEF Note, Notes, Counts, Inv, TypeOK
  <2>2. /\ sent' \in [Nodes -> {Nil} \cup Notes] /\ sent'[n] = sent[n] /\ session'[n] = session[n]
        /\ manager'[Peer(n)] = manager[Peer(n)] /\ FollowsAt(Peer(n))'
    BY <1>1, <2>1, NotifyFollows, Zenon
  <2>3. FollowsAt(n)'
    BY <1>0, <1>1, <2>2, FollowsKept, Zenon
  <2> QED BY <1>1, <2>2, <2>3, PeersPeer, Zenon DEF Follows
<1>2. CASE /\ client[n].pc = "override"
           /\ client' = [client EXCEPT ![n] = Holding("dispatch", Tail(client[n].notes))]
           /\ Notify(n, Head(client[n].notes), "select")
           /\ applied' = [applied EXCEPT ![n] = Head(client[n].notes)]
  <2>1. client[n].notes \in Seq(Notes) /\ client[n].notes # <<>>
    BY <1>2, Zenon DEF Inv, TypeOK, Handshake, HandshakeAt
  <2>2. Head(client[n].notes) = client[n].notes[1] /\ Head(client[n].notes) \in Notes
    BY <2>1
  <2>3. Counts(Head(client[n].notes))
    BY <1>0, <1>2, <2>2, Zenon DEF FollowsAt, Counts
  <2>4. /\ client'[n].pc = "dispatch" /\ client'[n].notes = Tail(client[n].notes)
        /\ client'[Peer(n)] = client[Peer(n)]
    BY <1>0, <1>2, Zenon DEF Holding, Inv, TypeOK
  <2>5. /\ applied'[n] = client[n].notes[1] /\ applied'[Peer(n)] = applied[Peer(n)]
        /\ applied' \in [Nodes -> {Nil} \cup Notes]
    BY <1>0, <1>2, <2>2, Zenon DEF Follows
  <2>6. /\ sent' \in [Nodes -> {Nil} \cup Notes] /\ sent'[n] = sent[n] /\ session'[n] = session[n]
        /\ manager'[Peer(n)] = manager[Peer(n)] /\ FollowsAt(Peer(n))'
    BY <1>2, <2>2, <2>3, <2>4, <2>5, NotifyFollows, Zenon
  <2>7. FollowsAt(n)'
    <3> SUFFICES ASSUME session[n] # Nil, ~Marked(n)
                 PROVE  CatchesUp(session[n].notes, Tail(client[n].notes), sent[n], client[n].notes[1])
      BY <2>4, <2>5, <2>6, Zenon DEF FollowsAt, Marked
    <3>1. CatchesUp(session[n].notes, client[n].notes, sent[n], applied[n])
      BY <1>0, <1>2, Zenon DEF FollowsAt, Following
    <3>2. ~Quiet(client[n].notes)
      BY <2>1, <2>2, <2>3, TakeNote, Zenon
    <3> QED BY <2>1, <3>1, <3>2, TakeNote, Zenon DEF CatchesUp
  <2> QED BY <2>5, <2>6, <2>7, PeersPeer, Zenon DEF Follows
<1> QED BY <1>1, <1>2, Zenon DEF ManagerOverride

(* The client goes to a place where it follows nobody. *)
LEMMA ClientGivesUp ==
    ASSUME Inv, Follows, NEW n \in Nodes,
           \/ ClientLoop(n) \/ ClientCooldown(n) \/ ClientStopped(n) \/ ClientUnregistered(n)
           \/ ClientPollFails(n)
    PROVE  Follows'
<1>1. PICK pc \in {"start", "register", "loop", "cooldown", "deregister"} : Goto(n, pc)
  BY Zenon DEF ClientLoop, ClientCooldown, ClientStopped, ClientUnregistered, ClientPollFails
<1>2. UNCHANGED <<manager, session, sent, applied>> /\ pc \in ClientPCs \ Following
  BY <1>1, Zenon DEF ClientLoop, ClientCooldown, ClientStopped, ClientUnregistered,
     ClientPollFails, ClientPCs, Following
<1> QED BY <1>1, <1>2, GivesUp, Zenon

(* What a step of a client's own session and notes leaves of its peer. *)
LEMMA OwnStep ==
    ASSUME Inv, Follows, NEW n \in Nodes, UNCHANGED manager, NEW c, NEW s, NEW x, NEW y,
           client' = [client EXCEPT ![n] = c], session' = [session EXCEPT ![n] = s],
           sent' = [sent EXCEPT ![n] = x], applied' = [applied EXCEPT ![n] = y],
           x \in {Nil} \cup Notes, y \in {Nil} \cup Notes, FollowsAt(n)'
    PROVE  Follows'
<1>1. ASSUME NEW m \in Nodes, m # n PROVE FollowsAt(m)'
  <2>1. /\ client'[m] = client[m] /\ session'[m] = session[m]
        /\ sent'[m] = sent[m] /\ applied'[m] = applied[m]
    BY <1>1, Zenon DEF Inv, TypeOK, Follows
  <2> QED BY <2>1, FollowsKept, Zenon DEF Follows
<1>2. sent' \in [Nodes -> {Nil} \cup Notes] /\ applied' \in [Nodes -> {Nil} \cup Notes]
  BY Zenon DEF Follows
<1> QED BY <1>1, <1>2, Zenon DEF Follows

(* What a client's own fields are after a step of its own. *)
LEMMA OwnFields ==
    ASSUME Inv, Follows, NEW n \in Nodes, NEW pc, NEW notes, NEW s, NEW x, NEW y,
           client' = [client EXCEPT ![n] = Holding(pc, notes)],
           session' = [session EXCEPT ![n] = s],
           sent' = [sent EXCEPT ![n] = x], applied' = [applied EXCEPT ![n] = y]
    PROVE  /\ client'[n].pc = pc /\ client'[n].notes = notes /\ session'[n] = s
           /\ sent'[n] = x /\ applied'[n] = y
BY Zenon DEF Inv, TypeOK, Follows, Holding

(* A new session is marked. *)
LEMMA ClientRegisterFollows == ASSUME Inv, Follows, NEW n \in Nodes, ClientRegister(n) PROVE Follows'
<1>1. /\ client' = [client EXCEPT ![n] = Holding("poll", <<>>)]
      /\ session' = [session EXCEPT ![n] = Session(TRUE, <<>>)]
      /\ sent' = [sent EXCEPT ![n] = Nil] /\ applied' = [applied EXCEPT ![n] = Nil]
      /\ UNCHANGED manager
  BY Zenon DEF ClientRegister, Register, newSession, Goto, At, Forget
<1>2. client'[n].pc = "poll" /\ client'[n].notes = <<>> /\ session'[n] = Session(TRUE, <<>>)
  BY <1>1, OwnFields, Zenon
<1>3. FollowsAt(n)'
  BY <1>2 DEF FollowsAt, Marked, Session
<1>4. Nil \in {Nil} \cup Notes
  BY Zenon
<1> QED BY <1>1, <1>3, <1>4, OwnStep, Zenon

(* A desynchronisation starts the session over; otherwise the client waits. *)
LEMMA ClientPollFollows == ASSUME Inv, Follows, NEW n \in Nodes, ClientPoll(n) PROVE Follows'
<1>1. client[n].pc = "poll" /\ UNCHANGED manager /\ FollowsAt(n)
  BY Zenon DEF ClientPoll, Follows
<1>2. CASE session[n].desync
  <2> DEFINE notes == <<Note("Desync", Nil)>>
  <2>1. /\ client' = [client EXCEPT ![n] = Holding("dispatch", notes)]
        /\ session' = [session EXCEPT ![n] = Session(FALSE, <<>>)]
        /\ sent' = [sent EXCEPT ![n] = Nil] /\ applied' = [applied EXCEPT ![n] = Nil]
    BY <1>2, Zenon DEF ClientPoll, Forget
  <2>2. Quiet(notes)
    BY DEF Quiet, Counts, Note
  <2> HIDE DEF notes
  <2>3. /\ client'[n].pc = "dispatch" /\ client'[n].notes = notes
        /\ session'[n] = Session(FALSE, <<>>) /\ sent'[n] = Nil /\ applied'[n] = Nil
    BY <2>1, OwnFields, ZenonT(30)
  <2>4. FollowsAt(n)'
    BY <2>2, <2>3, EmptyQuiet DEF FollowsAt, CatchesUp, Session
  <2>5. Nil \in {Nil} \cup Notes
    BY Zenon
  <2> QED BY <1>1, <2>1, <2>4, <2>5, OwnStep, Zenon
<1>3. CASE ~session[n].desync
  <2>1. client' = [client EXCEPT ![n] = Holding("waiting", <<>>)] /\ UNCHANGED <<session, sent, applied>>
    BY <1>3, Zenon DEF ClientPoll, Goto, At
  <2>2. client'[n].pc = "waiting" /\ client'[n].notes = <<>> /\ \A m \in Nodes : m # n => client'[m] = client[m]
    BY <2>1, Zenon DEF Holding, Inv, TypeOK
  <2>3. FollowsAt(n)'
    BY <1>1, <2>1, <2>2, Zenon DEF FollowsAt, Marked, Following
  <2>4. ASSUME NEW m \in Nodes, m # n PROVE FollowsAt(m)'
    BY <1>1, <2>1, <2>2, <2>4, FollowsKept, Zenon DEF Follows
  <2> QED BY <2>1, <2>3, <2>4, Zenon DEF Follows
<1> QED BY <1>2, <1>3, Zenon

(* The notes go from the queue to the client. *)
LEMMA ClientNotesFollows == ASSUME Inv, Follows, NEW n \in Nodes, ClientNotes(n) PROVE Follows'
<1>1. /\ client[n].pc = "waiting" /\ UNCHANGED <<manager, sent, applied>> /\ FollowsAt(n)
      /\ client' = [client EXCEPT ![n] = Holding("dispatch", session[n].notes)]
      /\ session' = [session EXCEPT ![n] = Session(session[n].desync, <<>>)]
      /\ session[n] # Nil
  BY Zenon DEF ClientNotes, Follows
<1>2. /\ client'[n].pc = "dispatch" /\ client'[n].notes = session[n].notes
      /\ session'[n].desync = session[n].desync /\ session'[n].notes = <<>>
      /\ \A m \in Nodes : m # n => client'[m] = client[m] /\ session'[m] = session[m]
  BY <1>1, Zenon DEF Holding, Session, Inv, TypeOK
<1>3. ~Marked(n) => CatchesUp(session[n].notes, <<>>, sent[n], applied[n])
  BY <1>1, Zenon DEF FollowsAt, Following
<1>4. ~Marked(n) => CatchesUp(<<>>, session[n].notes, sent[n], applied[n])
  BY <1>3, EmptyQuiet, Zenon DEF CatchesUp
<1>5. FollowsAt(n)'
  BY <1>1, <1>2, <1>4, Zenon DEF FollowsAt, Marked
<1>6. ASSUME NEW m \in Nodes, m # n PROVE FollowsAt(m)'
  BY <1>1, <1>2, <1>6, FollowsKept, Zenon DEF Follows
<1> QED BY <1>1, <1>5, <1>6, Zenon DEF Follows

(* The client deals with a note, hands an override over, or has none left. *)
LEMMA ClientDispatchFollows == ASSUME Inv, Follows, NEW n \in Nodes, ClientDispatch(n) PROVE Follows'
<1> DEFINE notes == client[n].notes
<1>1. /\ client[n].pc = "dispatch" /\ UNCHANGED <<manager, session, sent>> /\ FollowsAt(n)
      /\ notes \in Seq(Notes)
  BY Zenon DEF ClientDispatch, Follows, Inv, TypeOK
<1>2. session[n] # Nil /\ ~Marked(n) => CatchesUp(session[n].notes, notes, sent[n], applied[n])
  BY <1>1, Zenon DEF FollowsAt, Following
<1>3. ASSUME NEW pc \in Following, NEW rest, NEW y \in {Nil} \cup Notes,
             client' = [client EXCEPT ![n] = Holding(pc, rest)],
             applied' = [applied EXCEPT ![n] = y],
             pc = "poll" => rest = <<>>, pc = "override" => rest[1].type = "Override", pc # "waiting",
             CatchesUp(session[n].notes, notes, sent[n], applied[n]) =>
                 CatchesUp(session[n].notes, rest, sent[n], y)
      PROVE  Follows'
  <2>1. /\ client'[n].pc = pc /\ client'[n].notes = rest /\ applied'[n] = y
        /\ applied' \in [Nodes -> {Nil} \cup Notes]
        /\ \A m \in Nodes : m # n => client'[m] = client[m] /\ applied'[m] = applied[m]
    BY <1>3, Zenon DEF Holding, Inv, TypeOK, Follows
  <2>2. FollowsAt(n)'
    BY <1>1, <1>2, <1>3, <2>1, Zenon DEF FollowsAt, Marked
  <2>3. ASSUME NEW m \in Nodes, m # n PROVE FollowsAt(m)'
    BY <1>1, <2>1, <2>3, FollowsKept, Zenon DEF Follows
  <2> QED BY <1>1, <2>1, <2>2, <2>3, Zenon DEF Follows
<1>4. applied[n] \in {Nil} \cup Notes /\ applied = [applied EXCEPT ![n] = applied[n]]
  BY Zenon DEF Follows
<1>5. CASE notes = <<>>
  <2>1. client' = [client EXCEPT ![n] = Holding("poll", <<>>)] /\ UNCHANGED applied
    BY <1>5, Zenon DEF ClientDispatch, Goto, At
  <2> QED BY <1>3, <1>4, <1>5, <2>1, Zenon DEF Following
<1>6. CASE notes # <<>> /\ notes[1].type = "Override"
  <2>1. client' = [client EXCEPT ![n] = Holding("override", notes)] /\ UNCHANGED applied
    BY <1>6, Zenon DEF ClientDispatch
  <2> QED BY <1>3, <1>4, <1>6, <2>1, Zenon DEF Following
<1>7. CASE notes # <<>> /\ notes[1].type = "Config"
  <2>1. /\ client' = [client EXCEPT ![n] = Holding("dispatch", Tail(notes))]
        /\ applied' = [applied EXCEPT ![n] = notes[1]]
    BY <1>7, Zenon DEF ClientDispatch
  <2>2. notes[1] \in Notes /\ Counts(notes[1])
    BY <1>1, <1>7 DEF Counts
  <2>3. CatchesUp(session[n].notes, notes, sent[n], applied[n]) =>
            CatchesUp(session[n].notes, Tail(notes), sent[n], notes[1])
    BY <1>1, <1>7, <2>2, TakeNote, Zenon DEF CatchesUp
  <2> HIDE DEF notes
  <2> QED BY <1>3, <2>1, <2>2, <2>3, Zenon DEF Following
<1>8. CASE notes # <<>> /\ notes[1].type \notin {"Override", "Config"}
  <2>1. client' = [client EXCEPT ![n] = Holding("dispatch", Tail(notes))] /\ UNCHANGED applied
    BY <1>8, Zenon DEF ClientDispatch
  <2>2. ~Counts(notes[1])
    BY <1>8, Zenon DEF Counts
  <2>3. CatchesUp(session[n].notes, notes, sent[n], applied[n]) =>
            CatchesUp(session[n].notes, Tail(notes), sent[n], applied[n])
    BY <1>1, <1>8, <2>2, TakeNote, Zenon DEF CatchesUp
  <2> HIDE DEF notes
  <2> QED BY <1>3, <1>4, <2>1, <2>3, Zenon DEF Following
<1> QED BY <1>5, <1>6, <1>7, <1>8, Zenon

(* The session is given up. *)
LEMMA SessionEnds ==
    ASSUME Inv, Follows, NEW n \in Nodes, ClientDeregister(n) \/ Expire(n)
    PROVE  Follows'
<1>1. /\ session' = [session EXCEPT ![n] = Nil] /\ UNCHANGED manager
      /\ sent' = [sent EXCEPT ![n] = Nil] /\ applied' = [applied EXCEPT ![n] = Nil]
  BY Zenon DEF ClientDeregister, Deregister, Expire, Forget
<1>2. client'[n] = client[n] \/ client'[n].pc \in {"stopping", "cooldown"}
  <2>1. CASE UNCHANGED client
    BY <2>1, Zenon
  <2>2. CASE Goto(n, IF client[n].pc = "quitted" THEN "stopping" ELSE "cooldown")
    BY <2>2, Domains, Zenon DEF Goto, At, Holding
  <2> QED BY <2>1, <2>2, Zenon DEF ClientDeregister, Expire
<1>3. \A m \in Nodes : m # n => client'[m] = client[m]
  BY Domains, Zenon DEF ClientDeregister, Expire, Goto
<1>4. session'[n] = Nil /\ \A m \in Nodes : m # n =>
          session'[m] = session[m] /\ sent'[m] = sent[m] /\ applied'[m] = applied[m]
  BY <1>1, Zenon DEF Inv, TypeOK, Follows
<1>5. FollowsAt(n)'
  BY <1>2, <1>4, Zenon DEF Follows, FollowsAt
<1>6. ASSUME NEW m \in Nodes, m # n PROVE FollowsAt(m)'
  BY <1>1, <1>3, <1>4, <1>6, FollowsKept, Zenon DEF Follows
<1>7. sent' \in [Nodes -> {Nil} \cup Notes] /\ applied' \in [Nodes -> {Nil} \cup Notes]
  BY <1>1, Zenon DEF Follows
<1> QED BY <1>5, <1>6, <1>7, Zenon DEF Follows

(* A heartbeat does not count, and one that finds no room marks the session. *)
LEMMA HeartbeatFollows == ASSUME Inv, Follows, NEW n \in Nodes, Heartbeat(n) PROVE Follows'
<1>1. /\ session[n] # Nil /\ session[n].notes \in Seq(Notes) /\ FollowsAt(n)
      /\ UNCHANGED <<manager, client, sent, applied>>
  BY Zenon DEF Heartbeat, Follows, Inv, TypeOK
<1>2. Note("Heartbeat", Nil) \in Notes /\ ~Counts(Note("Heartbeat", Nil))
  BY Zenon DEF Note, Notes, Counts
<1>3. \A m \in Nodes : m # n => session'[m] = session[m]
  BY Domains, Zenon DEF Heartbeat
<1>4. \/ session'[n].desync
      \/ /\ session'[n].desync = session[n].desync
         /\ session'[n].notes = Append(session[n].notes, Note("Heartbeat", Nil))
  BY Domains, Zenon DEF Heartbeat, Session
<1>5. \A last, notes, done : CatchesUp(session[n].notes, notes, last, done) =>
          CatchesUp(Append(session[n].notes, Note("Heartbeat", Nil)), notes, last, done)
  BY <1>1, <1>2, QueueNote, Zenon DEF CatchesUp
<1>6. FollowsAt(n)'
  BY <1>1, <1>4, <1>5, Zenon DEF FollowsAt, Marked
<1>7. ASSUME NEW m \in Nodes, m # n PROVE FollowsAt(m)'
  BY <1>1, <1>3, <1>7, FollowsKept, Zenon DEF Follows
<1> QED BY <1>1, <1>6, <1>7, Zenon DEF Follows

(* Every step keeps the clients following. *)
LEMMA NextFollows == Inv /\ Follows /\ [Next]_vars => Follows'
<1> SUFFICES ASSUME Inv, Follows, [Next]_vars PROVE Follows'
  BY Zenon
<1>1. CASE UNCHANGED vars
  BY <1>1, NobodyTold, Zenon DEF vars
<1>2. ASSUME NEW n \in Nodes, Manager(n) PROVE Follows'
  BY <1>2, ManagerTells, ManagerDesyncFollows, ManagerOverrideFollows, ManagerConfigFollows, Zenon
     DEF Manager
<1>3. ASSUME NEW n \in Nodes, Client(n) PROVE Follows'
  BY <1>3, ClientGivesUp, ClientRegisterFollows, ClientPollFollows, ClientNotesFollows,
     ClientDispatchFollows, SessionEnds, Zenon DEF Client
<1>4. ASSUME NEW n \in Nodes, Server(n) PROVE Follows'
  BY <1>4, HeartbeatFollows, SessionEnds, Zenon DEF Server
<1>5. ASSUME NEW n \in Nodes, Operator(n) \/ Restart(n) PROVE Follows'
  <2>1. UNCHANGED <<manager, client, session, sent, applied>>
    BY <1>5, Zenon DEF Operator, Restart
  <2> QED BY <2>1, NobodyTold, Zenon
<1>6. ASSUME NEW n \in Nodes, Crash(n) PROVE Follows'
  BY <1>6, GoneFollows, Zenon DEF Crash
<1> QED BY <1>1, <1>2, <1>3, <1>4, <1>5, <1>6, Zenon DEF Next

(* However many notes a session holds and whatever fails meanwhile: a       *)
(* client that waits has dealt with the last override or configuration its  *)
(* peer sent (syncServer.notify), or its session is marked (addNote).       *)
THEOREM ClientsInSync == Spec => []InSync
<1>1. Init => Follows
  BY DEF Init, Follows, FollowsAt, At, Holding
<1>2. Inv /\ Follows => InSync
  <2> SUFFICES ASSUME Inv, Follows, NEW n \in Nodes,
                      client[n].pc = "waiting", session[n] # Nil, session[n].notes = <<>>,
                      ~session[n].desync, manager[Peer(n)].pc # "desync"
               PROVE  applied[n] = sent[n]
    BY Zenon DEF InSync
  <2>1. CatchesUp(<<>>, <<>>, sent[n], applied[n])
    BY Zenon DEF Follows, FollowsAt, Marked, Following
  <2> QED BY <2>1, EmptyQuiet, Zenon DEF CatchesUp
<1> QED BY <1>1, <1>2, InitInv, NextInv, NextFollows, PTL DEF Spec
=============================================================================

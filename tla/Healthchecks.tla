---------------------------- MODULE Healthchecks ----------------------------
(* The engine's healthcheck manager and the healthcheck server, which       *)
(* fetches the configurations from the engine and reports to it over RPC,   *)
(* with the backends they probe. Either process may end and start again on  *)
(* its own, and a call may fail before or after the engine has handled it.  *)
EXTENDS HCManager, HealthServer

CONSTANT Backends

VARIABLE health    \* the backends that answer

vars == <<hcmVars, hsVars, health>>

Init ==
    /\ HcmInit /\ HsInit
    /\ health = Backends

Engine(A) == A /\ UNCHANGED <<hsVars, health>>
Server(A) == A /\ UNCHANGED <<hcmVars, health>>

Flip(b) ==
    /\ Event
    /\ health' = IF b \in health THEN health \ {b} ELSE health \cup {b}
    /\ UNCHANGED <<hsVars, own, vcc, vserverChecks, ids, cfgs, checks, next, marks, pool, ipvs, up,
                   status>>

(* A probe goes to the backend itself, or with its mark to where IPVS sends *)
(* it, which may be nowhere.                                                *)
Reached(cfg) ==
    IF cfg.mark = None THEN cfg.key.backend
    ELSE IF cfg.mark \in DOMAIN ipvs THEN ipvs[cfg.mark].backend ELSE Nobody
Probe(s) ==
    /\ hc[s].pc \in {"start", "idle"}
    /\ \E b \in {Reached(hc[s].cfg)} : healthcheck(s, b, b \in health)

FetchConfigs == up /\ Fetch(cfgs)
SendBatch == up /\ Sent /\ HealthState(batch) /\ UNCHANGED events /\ UNCHANGED health
SendRefused == ~up /\ SendFailed
ReplyLost ==
    /\ up /\ Event
    /\ SendFailed /\ HealthState(batch)
    /\ UNCHANGED health

Next ==
    \/ \E v \in Vservers : Engine(VserverUpdate(v))
    \/ Engine(Update)
    \/ Engine(EngineCrash) \/ Engine(Shutdown) \/ Engine(EngineStart)
    \/ \E b \in Backends : Flip(b)
    \/ \E s \in Slots : \/ Server(Configure(s)) \/ Server(Quit(s))
                        \/ Server(Probe(s)) \/ Server(Notify(s)) \/ Server(ManagerRead(s))
    \/ Server(FetchConfigs) \/ Server(Manage) \/ Server(NotifyTick) \/ Server(ManagerSend)
    \/ Server(Receive) \/ Server(BatchDelay)
    \/ SendBatch \/ Server(SendRefused) \/ ReplyLost
    \/ Server(ServerStart)

(* Every goroutine goes on. A sender that waits for room in the channel has *)
(* its turn, for Go's channels serve waiting senders in order, and select   *)
(* takes each ready case with the same probability.                         *)
Fairness ==
    /\ WF_vars(Engine(Update) \/ Engine(EngineStart))
    /\ \A s \in Slots : /\ WF_vars(Server(Configure(s)) \/ Server(Quit(s)) \/ Server(Probe(s)))
                        /\ SF_vars(Server(Notify(s)))
    /\ WF_vars(Server(FetchConfigs) \/ Server(ServerStart))
    /\ WF_vars(Server(NotifyTick) \/ \E s \in Slots : Server(ManagerRead(s)))
    /\ SF_vars(Server(Manage)) /\ SF_vars(Server(ManagerSend))
    /\ WF_vars(Server(Receive) \/ Server(BatchDelay) \/ SendBatch)

Spec == Init /\ [][Next]_vars /\ Fairness

-----------------------------------------------------------------------------
(* What a vserver knows of a check comes from probes of that check's own    *)
(* backend, although marks are given to other backends and ids start anew   *)
(* with the engine, while the server still runs the old checks. A check     *)
(* that runs has the configuration that the engine gives out under its id,  *)
(* if it still does.                                                        *)
ProbedOwn ==
    /\ \A c \in DOMAIN status : status[c].probed \in {None, c.backend}
    /\ up => \A s \in Slots : hc[s].pc \in {"start", "idle", "notify"} /\ hc[s].id \in DOMAIN cfgs
                               => hc[s].cfg = cfgs[hc[s].id]

(* The marks: a configuration with a mark is routed to its own backend for  *)
(* as long as the engine gives it out, no mark is lost or in the pool       *)
(* while it is in use, and IPVS has no other services with marks.           *)
MarksRoute ==
    up => /\ \A id \in DOMAIN cfgs : cfgs[id].mark # None =>
               /\ cfgs[id].mark \in DOMAIN ipvs
               /\ ipvs[cfgs[id].mark] = MarkKey(cfgs[id].key)
          /\ Len(pool) + Cardinality(DOMAIN marks) = Len(Marks)
          /\ Range(pool) \cup Range(marks) = Range(Marks)
          /\ ipvs = [m \in Range(marks) |-> CHOOSE k \in DOMAIN marks : marks[k] = m]

(* A valid check of a vserver ends up with the state its backend is in,     *)
(* however its notifications were delayed, overtaken by a status read       *)
(* before them, sent twice, or lost with a process.                         *)
EngineLearns ==
    <>[](\A c \in DOMAIN status : Valid(c) =>
           status[c].state = IF c.backend \in health THEN "Healthy" ELSE "Unhealthy")
=============================================================================

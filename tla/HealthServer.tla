---------------------------- MODULE HealthServer ----------------------------
(* The healthcheck server (healthcheck/core.go): the goroutines updater,    *)
(* manager and notifier, and one for each check that was ever spawned and   *)
(* has not yet ended, also after the manager has stopped it. Actions that   *)
(* meet the engine take what it answers or the backend a probe reaches as a *)
(* parameter. The configuration of an id never changes (ProbedOwn in        *)
(* Healthchecks), so only the first update of a check is kept: a later one, *)
(* taken or dropped, makes no difference. Dry runs are left out.            *)
EXTENDS Naturals, Sequences, FiniteSets, SequencesExt, Functions

CONSTANTS
    Slots,         \* room for the goroutines of checks
    Retries,       \* Config.Retries, of all checks
    ChannelSize,   \* ServerConfig.ChannelSize, 1000 in the code
    BatchSize,     \* 100
    MaxFailures,   \* 10
    Nobody         \* no backend

VARIABLES
    hc,            \* by slot: a Check and where its goroutine is
    healthchecks,  \* Server.healthchecks: id -> slot
    updater,       \* where the updater is, and the configurations it holds
    manager,       \* where the manager is: the slots it has to notify for
    notify,        \* Server.notify
    batch,         \* Server.batch
    notifier,      \* where the notifier is
    alive          \* the process

hsVars == <<hc, healthchecks, updater, manager, notify, batch, notifier, alive>>

NoMap == [x \in {} |-> Nobody]
Free == [pc |-> "free"]
NewCheck(id) ==
    [pc |-> "config", id |-> id, cfg |-> Nobody, quit |-> FALSE,
     state |-> "Unknown", failed |-> 0, probed |-> Nobody]
(* Check.Update: an update that finds another one waiting is dropped. *)
UpdateCheck(c, config) == [c EXCEPT !.cfg = IF @ = Nobody THEN config ELSE @]
(* The id of a check is part of its configuration, and 0 before. *)
Notification(c) == [id |-> IF c.pc = "config" THEN Nobody ELSE c.id,
                    state |-> c.state, probed |-> c.probed]
Live == {s \in Slots : hc[s].pc # "free"}

HsInit ==
    /\ hc = [s \in Slots |-> Free]
    /\ healthchecks = NoMap
    /\ updater = [pc |-> "fetch", configs |-> NoMap]
    /\ manager = [todo |-> {}, note |-> Nobody]
    /\ notify = <<>> /\ batch = <<>>
    /\ notifier = [pc |-> "receive", timer |-> FALSE, failures |-> 0]
    /\ alive = TRUE

-----------------------------------------------------------------------------
(* A check: Check.Run, Check.healthcheck and Check.Notify. *)
At(s, pc) == alive /\ hc[s].pc = pc
Only(x) == UNCHANGED <<healthchecks, updater, manager, notify, batch, notifier, alive>> /\ x

(* The first configuration, then a tick of the manager's ticker. *)
Configure(s) ==
    /\ At(s, "config")
    /\ Only(hc' = [hc EXCEPT ![s] = [@ EXCEPT !.pc = "start"]])

(* A check that waits ends when it was stopped. *)
Quit(s) ==
    /\ hc[s].pc \in {"config", "idle"} /\ alive /\ hc[s].quit
    /\ Only(hc' = [hc EXCEPT ![s] = Free])

(* One execution, that reached backend b, or none, and succeeds or not, a   *)
(* timeout being a failure. Only a check that is healthy is retried: its    *)
(* failures in a row do not matter otherwise, and are not kept.             *)
Retried(c) == c.state = "Healthy" /\ c.failed + 1 <= Retries
Checked(c, b, ok) ==
    LET state == IF ok \/ Retried(c) THEN "Healthy" ELSE "Unhealthy"
        d == [c EXCEPT !.state = state, !.probed = b,
                       !.failed = IF ~ok /\ state = "Healthy" THEN @ + 1 ELSE 0]
    IN  [d EXCEPT !.pc = IF state = c.state THEN "idle" ELSE "notify"]
healthcheck(s, b, ok) ==
    /\ hc[s].pc \in {"start", "idle"} /\ alive
    /\ Only(hc' = [hc EXCEPT ![s] = Checked(@, b, ok)])

(* The notification goes into the channel when there is room. *)
Notify(s) ==
    /\ At(s, "notify") /\ Len(notify) < ChannelSize
    /\ notify' = Append(notify, Notification(hc[s]))
    /\ hc' = [hc EXCEPT ![s] = [@ EXCEPT !.pc = "idle"]]
    /\ UNCHANGED <<healthchecks, updater, manager, batch, notifier, alive>>

-----------------------------------------------------------------------------
(* The updater. *)
Fetch(configs) ==
    /\ alive /\ updater.pc = "fetch"
    /\ updater' = [pc |-> "offer", configs |-> configs]
    /\ UNCHANGED <<hc, healthchecks, manager, notify, batch, notifier, alive>>

(* The manager, when it is not sending, takes the configurations: it stops  *)
(* checks, spawns checks and passes the configurations on.                  *)
Idle == manager.todo = {} /\ manager.note = Nobody
Stopped(configs) ==
    [s \in Slots |-> IF \E id \in DOMAIN healthchecks \ DOMAIN configs : healthchecks[id] = s
                     THEN [hc[s] EXCEPT !.quit = TRUE] ELSE hc[s]]
Place(new) == CHOOSE place \in [new -> Slots \ Live] :
                 \A i, j \in new : place[i] = place[j] => i = j
Manage ==
    /\ alive /\ updater.pc = "offer" /\ Idle
    /\ \E new \in {DOMAIN updater.configs \ DOMAIN healthchecks} :
         /\ Cardinality(new) <= Cardinality(Slots \ Live)
         /\ \E place \in {Place(new)}, stopped \in {Stopped(updater.configs)} :
              /\ healthchecks' = place @@ Restrict(healthchecks, DOMAIN healthchecks \cap
                                                              DOMAIN updater.configs)
              /\ hc' = [s \in Slots |->
                          IF s \in Range(place)
                          THEN LET id == CHOOSE id \in new : place[id] = s
                               IN  UpdateCheck(NewCheck(id), updater.configs[id])
                          ELSE stopped[s]]
    /\ updater' = [pc |-> "fetch", configs |-> NoMap]
    /\ UNCHANGED <<manager, notify, batch, notifier, alive>>

(* At its interval the manager notifies for every check: it reads a status, *)
(* and sends it, one after the other.                                       *)
NoTick == FALSE      \* for mutation
NotifyTick ==
    /\ alive /\ Idle
    /\ manager' = [manager EXCEPT !.todo = Range(healthchecks)]
    /\ UNCHANGED <<hc, healthchecks, updater, notify, batch, notifier, alive>>

ManagerRead(s) ==
    /\ alive /\ manager.note = Nobody /\ s \in manager.todo
    /\ manager' = [todo |-> manager.todo \ {s}, note |-> Notification(hc[s])]
    /\ UNCHANGED <<hc, healthchecks, updater, notify, batch, notifier, alive>>

ManagerSend ==
    /\ alive /\ manager.note # Nobody /\ Len(notify) < ChannelSize
    /\ notify' = Append(notify, manager.note)
    /\ manager' = [manager EXCEPT !.note = Nobody]
    /\ UNCHANGED <<hc, healthchecks, updater, batch, notifier, alive>>

-----------------------------------------------------------------------------
(* The notifier collects a batch until it is full or the delay is over. *)
Receive ==
    /\ alive /\ notifier.pc = "receive" /\ notify # <<>>
    /\ notify' = Tail(notify)
    /\ batch' = Append(batch, Head(notify))
    /\ notifier' = [notifier EXCEPT
                      !.timer = IF Len(batch') = 1 THEN TRUE
                                ELSE @ /\ Len(batch') # BatchSize,
                      !.pc = IF Len(batch') # 1 /\ Len(batch') = BatchSize THEN "send" ELSE @]
    /\ UNCHANGED <<hc, healthchecks, updater, manager, alive>>

BatchDelay ==
    /\ alive /\ notifier.pc = "receive" /\ notifier.timer
    /\ notifier' = [notifier EXCEPT !.pc = "send", !.timer = FALSE]
    /\ UNCHANGED <<hc, healthchecks, updater, manager, notify, batch, alive>>

(* A call of HealthState with the batch returns, or fails; too many         *)
(* failures in a row end the process.                                       *)
Sent ==
    /\ alive /\ notifier.pc = "send"
    /\ batch' = <<>>
    /\ notifier' = [notifier EXCEPT !.pc = "receive", !.failures = 0]
    /\ UNCHANGED <<hc, healthchecks, updater, manager, notify, alive>>

SendFailed ==
    /\ alive /\ notifier.pc = "send"
    /\ notifier' = [notifier EXCEPT !.failures = @ + 1]
    /\ alive' = (notifier.failures + 1 < MaxFailures)
    /\ UNCHANGED <<hc, healthchecks, updater, manager, notify, batch>>

(* The watchdog starts the server again. *)
ServerStart ==
    /\ ~alive /\ alive' = TRUE
    /\ hc' = [s \in Slots |-> Free] /\ healthchecks' = NoMap
    /\ updater' = [pc |-> "fetch", configs |-> NoMap]
    /\ manager' = [todo |-> {}, note |-> Nobody]
    /\ notify' = <<>> /\ batch' = <<>>
    /\ notifier' = [pc |-> "receive", timer |-> FALSE, failures |-> 0]
=============================================================================

------------------------------ MODULE Watchdog ------------------------------
(* The watchdog (watchdog/core.go, watchdog/service.go): Walk, and for each *)
(* service the goroutine run, which starts its process again and again, and *)
(* after a shutdown the goroutine stop. They speak through the channels     *)
(* started, stopped and shutdown, with room for one token each, and done,   *)
(* which has none. Who waits for another service takes its token and puts   *)
(* it back. main gives a service one dependency at most.                    *)
EXTENDS Naturals, FiniteSets

CONSTANTS
    Services,
    Dependency,    \* Service.dependencies: by service, a service or None
    MaxExits,      \* processes that end, or cannot be started, by themselves
    None

ASSUME DependencyAssumption ==
    None \notin Services /\ Dependency \in [Services -> Services \cup {None}]

VARIABLES
    run,           \* where the goroutine run of a service is
    stop,          \* where its goroutine stop is
    todo,          \* the dependents that stop still has to wait for
    held,          \* the one whose token it holds
    walk,          \* where Walk is: [pc, todo, held]
    proc,          \* the process: "none", "up", or how it ended
    signalled,     \* it has been sent a SIGTERM
    begun,         \* Service.process is set
    failures,      \* Service.failures > 0
    started, stopped, shutdown,  \* the tokens
    exits

vars == <<run, stop, todo, held, walk, proc, signalled, begun, failures, started, stopped,
          shutdown, exits>>

Dependents(s) == {d \in Services : Dependency[d] = s}

RunPCs == {"wait", "hold", "loop", "start", "started", "running", "rest", "done", "ended"}
StopPCs == {"none", "spawned", "skipped", "dependents", "term", "waiting", "killed", "finish",
            "ended"}

Init ==
    /\ run = [s \in Services |-> IF Dependency[s] = None THEN "loop" ELSE "wait"]
    /\ stop = [s \in Services |-> "none"]
    /\ todo = [s \in Services |-> {}]
    /\ held = [s \in Services |-> None]
    /\ walk = [pc |-> "walking", todo |-> {}, held |-> None]
    /\ proc = [s \in Services |-> "none"]
    /\ signalled = [s \in Services |-> FALSE]
    /\ begun = [s \in Services |-> FALSE]
    /\ failures = [s \in Services |-> FALSE]
    /\ started = [s \in Services |-> FALSE]
    /\ stopped = [s \in Services |-> FALSE]
    /\ shutdown = [s \in Services |-> FALSE]
    /\ exits = 0

-----------------------------------------------------------------------------
(* run: the dependency's token, taken and put back. *)
TakeStarted(s) ==
    /\ run[s] = "wait" /\ started[Dependency[s]]
    /\ started' = [started EXCEPT ![Dependency[s]] = FALSE]
    /\ run' = [run EXCEPT ![s] = "hold"]
    /\ UNCHANGED <<stop, todo, held, walk, proc, signalled, begun, failures, stopped, shutdown,
                   exits>>

PutStarted(s) ==
    /\ run[s] = "hold" /\ ~started[Dependency[s]]
    /\ started' = [started EXCEPT ![Dependency[s]] = TRUE]
    /\ run' = [run EXCEPT ![s] = "loop"]
    /\ UNCHANGED <<stop, todo, held, walk, proc, signalled, begun, failures, stopped, shutdown,
                   exits>>

(* A shutdown ends the waits for the dependency, for the backoff and after  *)
(* the process has ended.                                                   *)
TakeShutdown(s) ==
    /\ run[s] \in {"wait", "rest"} \/ (run[s] = "loop" /\ failures[s])
    /\ shutdown[s]
    /\ shutdown' = [shutdown EXCEPT ![s] = FALSE]
    /\ run' = [run EXCEPT ![s] = "done"]
    /\ UNCHANGED <<stop, todo, held, walk, proc, signalled, begun, failures, started, stopped,
                   exits>>

(* The loop: a delay after failures, runOnce, and a delay. A delay does not *)
(* end when a shutdown has come before.                                     *)
Loop(s) ==
    /\ run[s] = "loop" /\ (failures[s] => ~shutdown[s])
    /\ run' = [run EXCEPT ![s] = "start"]
    /\ UNCHANGED <<stop, todo, held, walk, proc, signalled, begun, failures, started, stopped,
                   shutdown, exits>>

RestUnlessFailed(s) ==      \* for mutation
    /\ run[s] = "rest" /\ ~shutdown[s] /\ ~failures[s]
    /\ run' = [run EXCEPT ![s] = "loop"]
    /\ UNCHANGED <<stop, todo, held, walk, proc, signalled, begun, failures, started, stopped,
                   shutdown, exits>>
Rest(s) ==
    /\ run[s] = "rest" /\ ~shutdown[s]
    /\ run' = [run EXCEPT ![s] = "loop"]
    /\ UNCHANGED <<stop, todo, held, walk, proc, signalled, begun, failures, started, stopped,
                   shutdown, exits>>

(* runOnce: the start, which may fail, with or without being counted, ...   *)
Start(s) ==
    /\ run[s] = "start"
    /\ run' = [run EXCEPT ![s] = "started"]
    /\ proc' = [proc EXCEPT ![s] = "up"]
    /\ signalled' = [signalled EXCEPT ![s] = FALSE]
    /\ begun' = [begun EXCEPT ![s] = TRUE]
    /\ UNCHANGED <<stop, todo, held, walk, failures, started, stopped, shutdown, exits>>

StartFails(s) ==
    /\ run[s] = "start" /\ exits < MaxExits
    /\ run' = [run EXCEPT ![s] = "rest"]
    /\ \E counted \in BOOLEAN : failures' = [failures EXCEPT ![s] = @ \/ counted]
    /\ exits' = exits + 1
    /\ UNCHANGED <<stop, todo, held, walk, proc, signalled, begun, started, stopped, shutdown>>

(* ... the token, if there is none, and the wait for the process.           *)
Announce(s) ==
    /\ run[s] = "started"
    /\ started' = [started EXCEPT ![s] = TRUE]
    /\ run' = [run EXCEPT ![s] = "running"]
    /\ UNCHANGED <<stop, todo, held, walk, proc, signalled, begun, failures, stopped, shutdown,
                   exits>>

Wait(s) ==
    /\ run[s] = "running" /\ proc[s] # "up"
    /\ failures' = [failures EXCEPT ![s] = proc[s] = "failed"]
    /\ run' = [run EXCEPT ![s] = "rest"]
    /\ UNCHANGED <<stop, todo, held, walk, proc, signalled, begun, started, stopped, shutdown,
                   exits>>

(* The process ends by itself, or because of the SIGTERM. *)
Exit(s, how) ==
    /\ proc[s] = "up"
    /\ proc' = [proc EXCEPT ![s] = how]
    /\ IF signalled[s] THEN UNCHANGED exits ELSE exits < MaxExits /\ exits' = exits + 1
    /\ UNCHANGED <<run, stop, todo, held, walk, signalled, begun, failures, started, stopped,
                   shutdown>>

-----------------------------------------------------------------------------
(* The signal handler calls Shutdown, Walk is waiting and spawns stop for   *)
(* every service. A later call has no effect.                               *)
Shutdown ==
    /\ walk.pc = "walking"
    /\ walk' = [walk EXCEPT !.pc = "collect", !.todo = Services]
    /\ stop' = [s \in Services |-> "spawned"]
    /\ UNCHANGED <<run, todo, held, proc, signalled, begun, failures, started, stopped, shutdown,
                   exits>>

WalkTake(s) ==
    /\ walk.held = None /\ s \in walk.todo /\ stopped[s]
    /\ stopped' = [stopped EXCEPT ![s] = FALSE]
    /\ walk' = [walk EXCEPT !.todo = @ \ {s}, !.held = s]
    /\ UNCHANGED <<run, stop, todo, held, proc, signalled, begun, failures, started, shutdown,
                   exits>>

WalkPut ==
    /\ walk.held # None
    /\ stopped' = [stopped EXCEPT ![walk.held] = TRUE]
    /\ walk' = [walk EXCEPT !.held = None]
    /\ UNCHANGED <<run, stop, todo, held, proc, signalled, begun, failures, started, shutdown,
                   exits>>

WalkEnds ==
    /\ walk.pc = "collect" /\ walk.todo = {} /\ walk.held = None
    /\ walk' = [walk EXCEPT !.pc = "exit"]
    /\ UNCHANGED <<run, stop, todo, held, proc, signalled, begun, failures, started, stopped,
                   shutdown, exits>>

-----------------------------------------------------------------------------
(* stop: nothing is done for a service that has not been started yet. *)
StopNow(s) ==      \* for mutation
    /\ stop[s] = "spawned"
    /\ stop' = [stop EXCEPT ![s] = IF begun[s] THEN "dependents" ELSE "skipped"]
    /\ UNCHANGED <<run, todo, held, walk, proc, signalled, begun, failures, started, stopped,
                   shutdown, exits>>
StopBegin(s) ==
    /\ stop[s] = "spawned"
    /\ stop' = [stop EXCEPT ![s] = IF begun[s] THEN "dependents" ELSE "skipped"]
    /\ todo' = [todo EXCEPT ![s] = Dependents(s)]
    /\ UNCHANGED <<run, held, walk, proc, signalled, begun, failures, started, stopped, shutdown,
                   exits>>

StopTake(s, d) ==
    /\ stop[s] = "dependents" /\ held[s] = None /\ d \in todo[s] /\ stopped[d]
    /\ stopped' = [stopped EXCEPT ![d] = FALSE]
    /\ todo' = [todo EXCEPT ![s] = @ \ {d}]
    /\ held' = [held EXCEPT ![s] = d]
    /\ UNCHANGED <<run, stop, walk, proc, signalled, begun, failures, started, shutdown, exits>>

KeepToken(s) ==    \* for mutation
    /\ held[s] # None
    /\ held' = [held EXCEPT ![s] = None]
    /\ UNCHANGED <<run, stop, todo, walk, proc, signalled, begun, failures, started, stopped,
                   shutdown, exits>>
StopPut(s) ==
    /\ held[s] # None
    /\ stopped' = [stopped EXCEPT ![held[s]] = TRUE]
    /\ held' = [held EXCEPT ![s] = None]
    /\ UNCHANGED <<run, stop, todo, walk, proc, signalled, begun, failures, started, shutdown,
                   exits>>

StopShutdown(s) ==
    /\ stop[s] = "dependents" /\ todo[s] = {} /\ held[s] = None
    /\ shutdown' = [shutdown EXCEPT ![s] = TRUE]
    /\ stop' = [stop EXCEPT ![s] = "term"]
    /\ UNCHANGED <<run, todo, held, walk, proc, signalled, begun, failures, started, stopped,
                   exits>>

StopTerm(s) ==
    /\ stop[s] = "term"
    /\ signalled' = [signalled EXCEPT ![s] = @ \/ proc[s] = "up"]
    /\ stop' = [stop EXCEPT ![s] = "waiting"]
    /\ UNCHANGED <<run, todo, held, walk, proc, begun, failures, started, stopped, shutdown,
                   exits>>

(* The timeout, and SIGKILL. A process is not in the middle of being        *)
(* started: this does not take as long as termTimeout.                      *)
StopKill(s) ==
    /\ stop[s] = "waiting" /\ run[s] \notin {"loop", "start"}
    /\ proc' = [proc EXCEPT ![s] = IF @ = "up" THEN "failed" ELSE @]
    /\ stop' = [stop EXCEPT ![s] = "killed"]
    /\ UNCHANGED <<run, todo, held, walk, signalled, begun, failures, started, stopped, shutdown,
                   exits>>

(* run gives stop its token of done. *)
Done(s) ==
    /\ run[s] = "done" /\ stop[s] \in {"waiting", "killed"}
    /\ run' = [run EXCEPT ![s] = "ended"]
    /\ stop' = [stop EXCEPT ![s] = "finish"]
    /\ UNCHANGED <<todo, held, walk, proc, signalled, begun, failures, started, stopped, shutdown,
                   exits>>

StopEnds(s) ==
    /\ stop[s] = "finish"
    /\ stopped' = [stopped EXCEPT ![s] = TRUE]
    /\ stop' = [stop EXCEPT ![s] = "ended"]
    /\ UNCHANGED <<run, todo, held, walk, proc, signalled, begun, failures, started, shutdown,
                   exits>>

-----------------------------------------------------------------------------
Run(s) ==
    \/ TakeStarted(s) \/ PutStarted(s) \/ TakeShutdown(s) \/ Loop(s) \/ Rest(s)
    \/ Start(s) \/ StartFails(s) \/ Announce(s) \/ Wait(s)
Stop(s) ==
    \/ StopBegin(s) \/ (\E d \in Services : StopTake(s, d)) \/ StopPut(s)
    \/ StopShutdown(s) \/ StopTerm(s) \/ StopKill(s) \/ Done(s) \/ StopEnds(s)
Walk == (\E s \in Services : WalkTake(s)) \/ WalkPut \/ WalkEnds

Next ==
    \/ \E s \in Services : Run(s) \/ Stop(s) \/ \E how \in {"ok", "failed"} : Exit(s, how)
    \/ Walk \/ Shutdown

(* The goroutines go on; a process, and the one who shuts the watchdog      *)
(* down, need not do anything. A token may be away when one looks for it,   *)
(* but everyone takes it once only.                                         *)
Fairness == WF_vars(Walk) /\ \A s \in Services : WF_vars(Run(s)) /\ WF_vars(Stop(s))

Spec == Init /\ [][Next]_vars /\ Fairness

-----------------------------------------------------------------------------
TypeOK ==
    /\ run \in [Services -> RunPCs] /\ stop \in [Services -> StopPCs]
    /\ todo \in [Services -> SUBSET Services]
    /\ held \in [Services -> Services \cup {None}]
    /\ walk \in [pc : {"walking", "collect", "exit"}, todo : SUBSET Services,
                 held : Services \cup {None}]
    /\ proc \in [Services -> {"none", "up", "ok", "failed"}]
    /\ signalled \in [Services -> BOOLEAN] /\ begun \in [Services -> BOOLEAN]
    /\ failures \in [Services -> BOOLEAN]
    /\ started \in [Services -> BOOLEAN] /\ stopped \in [Services -> BOOLEAN]
    /\ shutdown \in [Services -> BOOLEAN]
    /\ exits \in Nat

(* What the order rests on: tokens are proof of a start or of an end.       *)
Behind == {"hold", "loop", "start", "started", "running", "rest"}
Stopping == {"term", "waiting", "killed"}
Tokens ==
    /\ \A s \in Services :
         /\ proc[s] = "up" => run[s] \in {"started", "running"}
         /\ started[s] \/ run[s] = "started" => begun[s]
         /\ run[s] \in {"wait", "hold"} => Dependency[s] # None
         /\ run[s] \in Behind => Dependency[s] = None \/ begun[Dependency[s]]
         /\ stopped[s] => run[s] = "ended"
         /\ held[s] # None => run[held[s]] = "ended"
         /\ stop[s] = "finish" => run[s] = "ended"
         /\ stop[s] \in Stopping => todo[s] = {}
         /\ stop[s] \in Stopping \cup {"dependents"} =>
              \A d \in Dependents(s) \ todo[s] : run[d] = "ended"
    /\ walk.held # None => run[walk.held] = "ended"

(* The watchdog keeps the order of the services: it implements              *)
(* ServiceOrder, where a service is up while its process is, and is given   *)
(* up when its goroutine run has ended.                                     *)
Order == INSTANCE ServiceOrder WITH
    up <- {s \in Services : proc[s] = "up"},
    begun <- {s \in Services : begun[s]},
    gone <- {s \in Services : run[s] = "ended"}
KeepsOrder == Order!OrderSpec

(* A service whose process has ended is started again, unless the watchdog  *)
(* is shut down.                                                            *)
StartedAgain ==
    \A s \in Services : begun[s] /\ proc[s] # "up" ~> proc[s] = "up" \/ walk.pc # "walking"

(* After a shutdown the watchdog ends, even if processes ignore SIGTERM, if *)
(* every service had been started when its stop looked.                     *)
ShutdownEnds ==
    walk.pc = "collect" ~> walk.pc = "exit" \/ \E s \in Services : stop[s] = "skipped"
=============================================================================

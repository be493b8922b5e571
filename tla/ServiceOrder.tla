---------------------------- MODULE ServiceOrder ----------------------------
(* What the watchdog promises about the processes it looks after: one is    *)
(* started only when the service it depends on has been started before, and *)
(* a service is given up, never to run again, only when its dependents are. *)
EXTENDS FiniteSets

CONSTANTS Services, Dependency, None

VARIABLES
    up,      \* the services with a running process
    begun,   \* the services that have been started at least once
    gone     \* the services that have been given up

Dependents(s) == {d \in Services : Dependency[d] = s}

OrderInit == up = {} /\ begun = {} /\ gone = {}

Start(s) ==
    /\ s \notin up \cup gone
    /\ Dependency[s] \in begun \cup {None}
    /\ up' = up \cup {s} /\ begun' = begun \cup {s}
    /\ UNCHANGED gone

Exit(s) ==
    /\ s \in up
    /\ up' = up \ {s}
    /\ UNCHANGED <<begun, gone>>

GiveUp(s) ==
    /\ s \notin up /\ Dependents(s) \subseteq gone
    /\ gone' = gone \cup {s}
    /\ UNCHANGED <<up, begun>>

OrderNext == \E s \in Services : Start(s) \/ Exit(s) \/ GiveUp(s)

OrderSpec == OrderInit /\ [][OrderNext]_<<up, begun, gone>>
=============================================================================

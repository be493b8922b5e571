------------------------------ MODULE MCHANode ------------------------------
(* A node of priority 100 whose peer has the higher address. One thing      *)
(* befalls it: a signal, the removal of the engine's socket or another      *)
(* configuration. In the first case it also hears advertisements, the one   *)
(* at shutdown and those of a higher priority; in the others the engine may *)
(* ask for a failover.                                                      *)
EXTENDS HANode

VARIABLE trouble

MCPriorities == {0, 255}
AllTroubles == {"signal", "socket", "config"}

MCInit == Init /\ trouble \in Troubles
MCNext ==
    /\ Next /\ UNCHANGED trouble
    /\ trouble = "signal" \/ (sig' = sig /\ recv' = "receive" /\ queue' = <<>>)
    /\ trouble # "signal" \/ ~failoverPending'
    /\ trouble = "socket" \/ watch' = watch
    /\ trouble = "config" \/ check' = check
MCSpec == MCInit /\ [][MCNext]_<<vars, trouble>> /\ Fairness
=============================================================================

------------------------------ MODULE MCHAPair ------------------------------
(* Two nodes as the engine configures them (priorities 255 and 1), with and *)
(* without preemption, and two of the same priority; addresses as numbers   *)
(* in their order, with the multicast group above all of them.              *)
EXTENDS HAPair, TLC

CONSTANTS n1, n2

Engine == n1 :> 255 @@ n2 :> 1
Same == n1 :> 100 @@ n2 :> 100
MCSettings == {[priority |-> Engine, preempt |-> FALSE],
               [priority |-> Engine, preempt |-> TRUE],
               [priority |-> Same, preempt |-> FALSE]}
SameSettings == {[priority |-> Same, preempt |-> FALSE]}
MCLocalAddr == n1 :> 1 @@ n2 :> 2
Multicast == n1 :> 224 @@ n2 :> 224
Unicast == n1 :> 2 @@ n2 :> 1
=============================================================================

--------------------------- MODULE WatchdogProofs ---------------------------
(* The watchdog implements ServiceOrder, for any services and dependencies. *)
EXTENDS Watchdog, TLAPS

Inv == TypeOK /\ Tokens

(* At the start no process is up and there are no tokens. *)
LEMMA InitInv == Init => Inv
BY DependencyAssumption DEF Init, Inv, TypeOK, Tokens, RunPCs, StopPCs, Behind, Stopping, Dependents

(* TakeStarted keeps the invariant. *)
LEMMA TakeStartedInv == ASSUME Inv, NEW s \in Services, TakeStarted(s) PROVE Inv'
<1> DEFINE e == Dependency[s]
<1>b. e \in Services BY DependencyAssumption DEF Inv, Tokens, TakeStarted
<1>0. e \in Services /\ begun[e] BY <1>b DEF Inv, Tokens, TakeStarted
<1>a. /\ started' = [started EXCEPT ![e] = FALSE]
      /\ run' = [run EXCEPT ![s] = "hold"]
      /\ UNCHANGED <<stop, todo, held, walk, proc, signalled, begun, failures, stopped, shutdown,
                     exits>>
      /\ run[s] = "wait"
  BY DEF TakeStarted
<1> HIDE DEF e
<1>1. TypeOK' BY <1>0, <1>a DEF Inv, TypeOK, RunPCs
<1>2. Tokens' BY <1>0, <1>a DEF Inv, TypeOK, Tokens, Behind, Stopping, Dependents, e
<1> QED BY <1>1, <1>2 DEF Inv

(* PutStarted keeps the invariant. *)
LEMMA PutStartedInv == ASSUME Inv, NEW s \in Services, PutStarted(s) PROVE Inv'
<1> DEFINE e == Dependency[s]
<1>b. e \in Services BY DependencyAssumption DEF Inv, Tokens, PutStarted
<1>0. e \in Services /\ begun[e] BY <1>b DEF Inv, Tokens, PutStarted, Behind
<1>a. /\ started' = [started EXCEPT ![e] = TRUE]
      /\ run' = [run EXCEPT ![s] = "loop"]
      /\ UNCHANGED <<stop, todo, held, walk, proc, signalled, begun, failures, stopped, shutdown,
                     exits>>
      /\ run[s] = "hold"
  BY DEF PutStarted
<1> HIDE DEF e
<1>1. TypeOK' BY <1>0, <1>a DEF Inv, TypeOK, RunPCs
<1>2. Tokens' BY <1>0, <1>a DEF Inv, TypeOK, Tokens, Behind, Stopping, Dependents, e
<1> QED BY <1>1, <1>2 DEF Inv

(* TakeShutdown keeps the invariant. *)
LEMMA TakeShutdownInv == ASSUME Inv, NEW s \in Services, TakeShutdown(s) PROVE Inv'
<1>1. TypeOK' BY DependencyAssumption DEF Inv, TypeOK, RunPCs, StopPCs, TakeShutdown, Dependents
<1>2. Tokens' BY DependencyAssumption DEF Inv, TypeOK, Tokens, Behind, Stopping, TakeShutdown, Dependents
<1> QED BY <1>1, <1>2 DEF Inv

(* Loop keeps the invariant. *)
LEMMA LoopInv == ASSUME Inv, NEW s \in Services, Loop(s) PROVE Inv'
<1>1. TypeOK' BY DependencyAssumption DEF Inv, TypeOK, RunPCs, StopPCs, Loop, Dependents
<1>2. Tokens' BY DependencyAssumption DEF Inv, TypeOK, Tokens, Behind, Stopping, Loop, Dependents
<1> QED BY <1>1, <1>2 DEF Inv

(* Rest keeps the invariant. *)
LEMMA RestInv == ASSUME Inv, NEW s \in Services, Rest(s) PROVE Inv'
<1>1. TypeOK' BY DependencyAssumption DEF Inv, TypeOK, RunPCs, StopPCs, Rest, Dependents
<1>2. Tokens' BY DependencyAssumption DEF Inv, TypeOK, Tokens, Behind, Stopping, Rest, Dependents
<1> QED BY <1>1, <1>2 DEF Inv

(* Start keeps the invariant. *)
LEMMA StartInv == ASSUME Inv, NEW s \in Services, Start(s) PROVE Inv'
<1>1. TypeOK' BY DependencyAssumption DEF Inv, TypeOK, RunPCs, StopPCs, Start, Dependents
<1>2. Tokens' BY DependencyAssumption DEF Inv, TypeOK, Tokens, Behind, Stopping, Start, Dependents
<1> QED BY <1>1, <1>2 DEF Inv

(* StartFails keeps the invariant. *)
LEMMA StartFailsInv == ASSUME Inv, NEW s \in Services, StartFails(s) PROVE Inv'
<1>1. TypeOK' BY DependencyAssumption DEF Inv, TypeOK, RunPCs, StopPCs, StartFails, Dependents
<1>2. Tokens' BY DependencyAssumption DEF Inv, TypeOK, Tokens, Behind, Stopping, StartFails, Dependents
<1> QED BY <1>1, <1>2 DEF Inv

(* Announce keeps the invariant. *)
LEMMA AnnounceInv == ASSUME Inv, NEW s \in Services, Announce(s) PROVE Inv'
<1>1. TypeOK' BY DependencyAssumption DEF Inv, TypeOK, RunPCs, StopPCs, Announce, Dependents
<1>2. Tokens' BY DependencyAssumption DEF Inv, TypeOK, Tokens, Behind, Stopping, Announce, Dependents
<1> QED BY <1>1, <1>2 DEF Inv

(* Wait keeps the invariant. *)
LEMMA WaitInv == ASSUME Inv, NEW s \in Services, Wait(s) PROVE Inv'
<1>1. TypeOK' BY DependencyAssumption DEF Inv, TypeOK, RunPCs, StopPCs, Wait, Dependents
<1>2. Tokens' BY DependencyAssumption DEF Inv, TypeOK, Tokens, Behind, Stopping, Wait, Dependents
<1> QED BY <1>1, <1>2 DEF Inv

(* WalkTake keeps the invariant. *)
LEMMA WalkTakeInv == ASSUME Inv, NEW s \in Services, WalkTake(s) PROVE Inv'
<1>1. TypeOK' BY DependencyAssumption, Zenon DEF Inv, TypeOK, RunPCs, StopPCs, WalkTake, Dependents
<1>2. Tokens' BY DependencyAssumption DEF Inv, TypeOK, Tokens, Behind, Stopping, WalkTake, Dependents
<1> QED BY <1>1, <1>2 DEF Inv

(* StopBegin keeps the invariant. *)
LEMMA StopBeginInv == ASSUME Inv, NEW s \in Services, StopBegin(s) PROVE Inv'
<1>1. TypeOK' BY DependencyAssumption DEF Inv, TypeOK, RunPCs, StopPCs, StopBegin, Dependents
<1>2. Tokens' BY DependencyAssumption DEF Inv, TypeOK, Tokens, Behind, Stopping, StopBegin, Dependents
<1> QED BY <1>1, <1>2 DEF Inv

(* StopPut keeps the invariant. *)
LEMMA StopPutInv == ASSUME Inv, NEW s \in Services, StopPut(s) PROVE Inv'
<1>1. TypeOK' BY DependencyAssumption DEF Inv, TypeOK, RunPCs, StopPCs, StopPut, Dependents
<1>2. Tokens' BY DependencyAssumption DEF Inv, TypeOK, Tokens, Behind, Stopping, StopPut, Dependents
<1> QED BY <1>1, <1>2 DEF Inv

(* StopShutdown keeps the invariant. *)
LEMMA StopShutdownInv == ASSUME Inv, NEW s \in Services, StopShutdown(s) PROVE Inv'
<1>1. TypeOK' BY DependencyAssumption DEF Inv, TypeOK, RunPCs, StopPCs, StopShutdown, Dependents
<1>2. Tokens' BY DependencyAssumption DEF Inv, TypeOK, Tokens, Behind, Stopping, StopShutdown, Dependents
<1> QED BY <1>1, <1>2 DEF Inv

(* StopTerm keeps the invariant. *)
LEMMA StopTermInv == ASSUME Inv, NEW s \in Services, StopTerm(s) PROVE Inv'
<1>1. TypeOK' BY DependencyAssumption DEF Inv, TypeOK, RunPCs, StopPCs, StopTerm, Dependents
<1>2. Tokens' BY DependencyAssumption DEF Inv, TypeOK, Tokens, Behind, Stopping, StopTerm, Dependents
<1> QED BY <1>1, <1>2 DEF Inv

(* StopKill keeps the invariant. *)
LEMMA StopKillInv == ASSUME Inv, NEW s \in Services, StopKill(s) PROVE Inv'
<1>1. TypeOK' BY DependencyAssumption DEF Inv, TypeOK, RunPCs, StopPCs, StopKill, Dependents
<1>2. Tokens' BY DependencyAssumption DEF Inv, TypeOK, Tokens, Behind, Stopping, StopKill, Dependents
<1> QED BY <1>1, <1>2 DEF Inv

(* Done keeps the invariant. *)
LEMMA DoneInv == ASSUME Inv, NEW s \in Services, Done(s) PROVE Inv'
<1>1. TypeOK' BY DependencyAssumption DEF Inv, TypeOK, RunPCs, StopPCs, Done, Dependents
<1>2. Tokens' BY DependencyAssumption DEF Inv, TypeOK, Tokens, Behind, Stopping, Done, Dependents
<1> QED BY <1>1, <1>2 DEF Inv

(* StopEnds keeps the invariant. *)
LEMMA StopEndsInv == ASSUME Inv, NEW s \in Services, StopEnds(s) PROVE Inv'
<1>1. TypeOK' BY DependencyAssumption DEF Inv, TypeOK, RunPCs, StopPCs, StopEnds, Dependents
<1>2. Tokens' BY DependencyAssumption DEF Inv, TypeOK, Tokens, Behind, Stopping, StopEnds, Dependents
<1> QED BY <1>1, <1>2 DEF Inv

(* Exit keeps the invariant. *)
LEMMA ExitInv == ASSUME Inv, NEW s \in Services, NEW how \in {"ok", "failed"}, Exit(s, how) PROVE Inv'
<1>1. TypeOK' BY DependencyAssumption DEF Inv, TypeOK, RunPCs, StopPCs, Exit, Dependents
<1>2. Tokens' BY DependencyAssumption DEF Inv, TypeOK, Tokens, Behind, Stopping, Exit, Dependents
<1> QED BY <1>1, <1>2 DEF Inv

(* StopTake keeps the invariant. *)
LEMMA StopTakeInv == ASSUME Inv, NEW s \in Services, NEW d \in Services, StopTake(s, d) PROVE Inv'
<1>1. TypeOK' BY DependencyAssumption DEF Inv, TypeOK, RunPCs, StopPCs, StopTake, Dependents
<1>2. Tokens' BY DependencyAssumption DEF Inv, TypeOK, Tokens, Behind, Stopping, StopTake, Dependents
<1> QED BY <1>1, <1>2 DEF Inv

(* Shutdown keeps the invariant. *)
LEMMA ShutdownInv == ASSUME Inv, Shutdown PROVE Inv'
<1>1. TypeOK' BY DependencyAssumption, Zenon DEF Inv, TypeOK, RunPCs, StopPCs, Shutdown, Dependents
<1>2. Tokens' BY DependencyAssumption DEF Inv, TypeOK, Tokens, Behind, Stopping, Shutdown, Dependents
<1> QED BY <1>1, <1>2 DEF Inv

(* WalkPut keeps the invariant. *)
LEMMA WalkPutInv == ASSUME Inv, WalkPut PROVE Inv'
<1>1. TypeOK' BY DependencyAssumption DEF Inv, TypeOK, RunPCs, StopPCs, WalkPut, Dependents
<1>2. Tokens' BY DependencyAssumption DEF Inv, TypeOK, Tokens, Behind, Stopping, WalkPut, Dependents
<1> QED BY <1>1, <1>2 DEF Inv

(* WalkEnds keeps the invariant. *)
LEMMA WalkEndsInv == ASSUME Inv, WalkEnds PROVE Inv'
<1>1. TypeOK' BY DependencyAssumption DEF Inv, TypeOK, RunPCs, StopPCs, WalkEnds, Dependents
<1>2. Tokens' BY DependencyAssumption DEF Inv, TypeOK, Tokens, Behind, Stopping, WalkEnds, Dependents
<1> QED BY <1>1, <1>2 DEF Inv

(* Every step keeps the invariant. *)
LEMMA NextInv == Inv /\ [Next]_vars => Inv'
<1> SUFFICES ASSUME Inv, [Next]_vars PROVE Inv' OBVIOUS
<1>1. CASE UNCHANGED vars
  BY <1>1 DEF vars, Inv, TypeOK, Tokens, Dependents
<1>2. ASSUME NEW s \in Services, Run(s) PROVE Inv'
  BY <1>2, TakeStartedInv, PutStartedInv, TakeShutdownInv, LoopInv, RestInv, StartInv,
     StartFailsInv, AnnounceInv, WaitInv DEF Run
<1>3. ASSUME NEW s \in Services, Stop(s) PROVE Inv'
  BY <1>3, StopBeginInv, StopTakeInv, StopPutInv, StopShutdownInv, StopTermInv, StopKillInv,
     DoneInv, StopEndsInv DEF Stop
<1>4. CASE Walk BY <1>4, WalkTakeInv, WalkPutInv, WalkEndsInv DEF Walk
<1> QED BY <1>1, <1>2, <1>3, <1>4, ExitInv, ShutdownInv DEF Next

-----------------------------------------------------------------------------
(* What ServiceOrder sees of a state. *)
Up == {s \in Services : proc[s] = "up"}
Begun == {s \in Services : begun[s]}
Gone == {s \in Services : run[s] = "ended"}
Seen == <<Up, Begun, Gone>>

(* The steps of run, other than a start, are not seen.                      *)
LEMMA RunUnseen ==
  ASSUME Inv, NEW s \in Services,
         \/ TakeStarted(s) \/ PutStarted(s) \/ TakeShutdown(s) \/ Loop(s) \/ Rest(s)
         \/ StartFails(s) \/ Announce(s) \/ Wait(s)
  PROVE  UNCHANGED Seen
<1>1. UNCHANGED <<proc, begun>>
  BY DEF TakeStarted, PutStarted, TakeShutdown, Loop, Rest, StartFails, Announce, Wait
<1>2. \E pc \in RunPCs \ {"ended"} : run' = [run EXCEPT ![s] = pc]
  BY DEF TakeStarted, PutStarted, TakeShutdown, Loop, Rest, StartFails, Announce, Wait, RunPCs
<1>3. run[s] # "ended"
  BY DEF TakeStarted, PutStarted, TakeShutdown, Loop, Rest, StartFails, Announce, Wait
<1>4. Gone' = Gone BY <1>2, <1>3 DEF Gone, Inv, TypeOK
<1> QED BY <1>1, <1>4 DEF Seen, Up, Begun

(* A start comes after one of the dependency.                               *)
LEMMA StartSeen == ASSUME Inv, NEW s \in Services, Start(s) PROVE Order!Start(s)
<1>1. s \notin Up \cup Gone BY DEF Inv, TypeOK, Tokens, Start, Up, Gone
<1>2. Dependency[s] \in Begun \cup {None}
  <2>1. Dependency[s] = None \/ begun[Dependency[s]]
    BY Zenon DEF Inv, Tokens, Start, Behind
  <2> QED BY <2>1, DependencyAssumption, Zenon DEF Begun
<1>3. Up' = Up \cup {s} BY DEF Inv, TypeOK, Start, Up
<1>4. Begun' = Begun \cup {s} BY DEF Inv, TypeOK, Start, Begun
<1>5. Gone' = Gone BY DEF Inv, TypeOK, Start, Gone
<1> QED BY <1>1, <1>2, <1>3, <1>4, <1>5 DEF Order!Start, Up, Begun, Gone

(* A process that ends.                                                     *)
LEMMA ExitSeen ==
  ASSUME Inv, NEW s \in Services, NEW how \in {"ok", "failed"}, Exit(s, how) PROVE Order!Exit(s)
<1>1. s \in Up BY DEF Exit, Up
<1>2. Up' = Up \ {s} BY DEF Inv, TypeOK, Exit, Up
<1>3. UNCHANGED <<Begun, Gone>> BY DEF Exit, Begun, Gone
<1> QED BY <1>1, <1>2, <1>3 DEF Order!Exit, Up, Begun, Gone

(* SIGKILL ends the process if there is one.                                *)
LEMMA KillSeen ==
  ASSUME Inv, NEW s \in Services, StopKill(s) PROVE Order!Exit(s) \/ UNCHANGED Seen
<1>1. UNCHANGED <<Begun, Gone>> BY DEF StopKill, Begun, Gone
<1>2. CASE s \in Up
  <2>1. Up' = Up \ {s} BY <1>2 DEF Inv, TypeOK, StopKill, Up
  <2> QED BY <1>1, <1>2, <2>1 DEF Order!Exit, Up, Begun, Gone
<1>3. CASE s \notin Up
  <2>1. Up' = Up BY <1>3 DEF Inv, TypeOK, StopKill, Up
  <2> QED BY <1>1, <2>1 DEF Seen
<1> QED BY <1>2, <1>3

(* run ends after the dependents have.                                      *)
LEMMA DoneSeen == ASSUME Inv, NEW s \in Services, Done(s) PROVE Order!GiveUp(s)
<1>1. s \notin Up BY DEF Inv, Tokens, Done, Up
<1>2. Dependents(s) \subseteq Gone
  BY DEF Inv, Tokens, Done, Gone, Dependents, Stopping
<1>3. Gone' = Gone \cup {s} BY DEF Inv, TypeOK, Done, Gone
<1>4. UNCHANGED <<Up, Begun>> BY DEF Done, Up, Begun
<1> QED BY <1>1, <1>2, <1>3, <1>4
      DEF Order!GiveUp, Order!Dependents, Dependents, Up, Begun, Gone

(* The other steps of stop, and Walk's, are not seen.                       *)
LEMMA StopUnseen ==
  ASSUME Inv, NEW s \in Services,
         \/ StopBegin(s) \/ (\E d \in Services : StopTake(s, d)) \/ StopPut(s)
         \/ StopShutdown(s) \/ StopTerm(s) \/ StopEnds(s)
  PROVE  UNCHANGED Seen
<1>1. UNCHANGED <<proc, begun, run>>
  BY DEF StopBegin, StopTake, StopPut, StopShutdown, StopTerm, StopEnds
<1> QED BY <1>1 DEF Seen, Up, Begun, Gone

(* Every step is one of ServiceOrder, or is not seen there.                 *)
LEMMA NextSeen == Inv /\ [Next]_vars => [Order!OrderNext]_Seen
<1> SUFFICES ASSUME Inv, [Next]_vars PROVE Order!OrderNext \/ UNCHANGED Seen OBVIOUS
<1>1. CASE UNCHANGED vars BY <1>1 DEF vars, Seen, Up, Begun, Gone
<1>2. ASSUME NEW s \in Services, Run(s) PROVE Order!OrderNext \/ UNCHANGED Seen
  BY <1>2, RunUnseen, StartSeen DEF Run, Order!OrderNext
<1>3. ASSUME NEW s \in Services, Stop(s) PROVE Order!OrderNext \/ UNCHANGED Seen
  BY <1>3, StopUnseen, KillSeen, DoneSeen DEF Stop, Order!OrderNext
<1>4. CASE Walk \/ Shutdown
  <2>1. UNCHANGED <<proc, begun, run>> BY <1>4, Zenon DEF Walk, WalkTake, WalkPut, WalkEnds, Shutdown
  <2> QED BY <2>1, Zenon DEF Seen, Up, Begun, Gone
<1>5. ASSUME NEW s \in Services, NEW how \in {"ok", "failed"}, Exit(s, how)
      PROVE  Order!OrderNext
  BY <1>5, ExitSeen DEF Order!OrderNext
<1> QED BY <1>1, <1>2, <1>3, <1>4, <1>5 DEF Next

(* The types are right for any services.                                    *)
THEOREM TypeCorrect == Spec => []TypeOK
<1>1. Inv => TypeOK BY DEF Inv
<1> QED BY <1>1, InitInv, NextInv, PTL DEF Spec

(* The watchdog implements ServiceOrder: processes start after the services *)
(* they depend on, are given up after their dependents, and never come back.*)
THEOREM Implements == Spec => KeepsOrder
<1>1. Init => Order!OrderInit
  BY DEF Init, Order!OrderInit
<1>2. Inv /\ [Next]_vars => [Order!OrderNext]_Seen BY NextSeen
<1>3. QED BY <1>1, <1>2, InitInv, NextInv, PTL
      DEF Spec, KeepsOrder, Order!OrderSpec, Seen, Up, Begun, Gone
=============================================================================

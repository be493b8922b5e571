--------------------------- MODULE VserverProofs ----------------------------
(* The theorems about a vserver. The contracts that the other modules take *)
(* as hypotheses hold, from the NCC calls up to the actions, so every step *)
(* preserves the invariants.                                               *)
EXTENDS VserverCascade, VserverUpdates, VserverActions

(* The contracts on the NCC calls and on the cascade below a VIP.          *)
LEMMA EffectsHold ==
    /\ IdsDiffer /\ IdsOf /\ UpdateServiceNode /\ UpdateDestinationNode
    /\ RulesTyped /\ AddVIPNode /\ DeleteVIPNode /\ BGPNode /\ SameNames
    /\ SameTransitive /\ DestinationUpEffect /\ UpdateDestsEffect
    /\ ServiceUpEffect /\ ServiceDownEffect /\ CascadeRepairable
    /\ UpdateServicesEffect /\ SameInstalled /\ SameRepairable /\ ActiveFrame
    /\ SameActiveWellFormed
<1>1. IdsDiffer BY IdsDifferHolds, Zenon DEF IdsDiffer
<1>2. IdsOf BY IdsOfHolds, Zenon DEF IdsOf
<1>3. UpdateServiceNode BY UpdateServiceNodeHolds, Zenon DEF UpdateServiceNode
<1>4. UpdateDestinationNode BY UpdateDestinationNodeHolds, Zenon DEF UpdateDestinationNode
<1>5. RulesTyped BY RulesTypedHolds, Zenon DEF RulesTyped
<1>6. AddVIPNode BY AddVIPNodeHolds, Zenon DEF AddVIPNode
<1>7. DeleteVIPNode BY DeleteVIPNodeHolds, Zenon DEF DeleteVIPNode
<1>8. BGPNode BY BGPNodeHolds, Zenon DEF BGPNode
<1>9. SameNames BY SameNamesHolds, Zenon DEF SameNames
<1>10. SameTransitive BY SameTransitiveHolds, Zenon DEF SameTransitive
<1>11. DestinationUpEffect BY DestinationUpEffectHolds, Zenon DEF DestinationUpEffect
<1>12. UpdateDestsEffect BY UpdateDestsEffectHolds, Zenon DEF UpdateDestsEffect
<1>13. ServiceUpEffect BY ServiceUpEffectHolds, Zenon DEF ServiceUpEffect
<1>14. ServiceDownEffect BY ServiceDownEffectHolds, Zenon DEF ServiceDownEffect
<1>15. CascadeRepairable BY CascadeRepairableHolds, Zenon DEF CascadeRepairable
<1>16. UpdateServicesEffect BY UpdateServicesEffectHolds, Zenon DEF UpdateServicesEffect
<1>17. SameInstalled BY SameInstalledHolds, Zenon DEF SameInstalled
<1>18. SameRepairable BY SameRepairableHolds, Zenon DEF SameRepairable
<1>19. ActiveFrame BY ActiveFrameHolds, Zenon DEF ActiveFrame
<1>20. SameActiveWellFormed BY SameActiveWellFormedHolds, Zenon DEF SameActiveWellFormed
<1> QED
  BY <1>1, <1>2, <1>3, <1>4, <1>5, <1>6, <1>7, <1>8, <1>9, <1>10, <1>11, <1>12, <1>13, <1>14,
     <1>15, <1>16, <1>17, <1>18, <1>19, <1>20, Zenon

(* The contracts on the cascade above a service.                           *)
LEMMA CascadesHold ==
    /\ SameGuarded /\ DeleteVIPGuarded /\ AddVIPGuarded /\ SameAnnounced
    /\ VserverDownEffect /\ VserverUpdateStateEffect /\ KeptTransitive
    /\ SameHealth /\ HealthElsewhere /\ VIPSettled /\ ShapeNames
    /\ HealthySvcsFrame /\ HealthyDestsFrame /\ VIPTyped
    /\ ServiceUpdateStateEffect /\ SettleDest
<1>1. SameGuarded BY SameGuardedHolds, Zenon DEF SameGuarded
<1>2. DeleteVIPGuarded BY EffectsHold, DeleteVIPGuardedHolds, Zenon DEF DeleteVIPGuarded
<1>3. AddVIPGuarded BY EffectsHold, AddVIPGuardedHolds, Zenon DEF AddVIPGuarded
<1>4. SameAnnounced BY SameAnnouncedHolds, Zenon DEF SameAnnounced
<1>5. VserverDownEffect BY EffectsHold, VserverDownEffectHolds, Zenon DEF VserverDownEffect
<1>6. VserverUpdateStateEffect
  BY EffectsHold, VserverUpdateStateEffectHolds, Zenon DEF VserverUpdateStateEffect
<1>7. KeptTransitive BY KeptTransitiveHolds, Zenon DEF KeptTransitive
<1>8. SameHealth BY SameHealthHolds, Zenon DEF SameHealth
<1>9. HealthElsewhere BY HealthElsewhereHolds, Zenon DEF HealthElsewhere
<1>10. VIPSettled BY VIPSettledHolds, Zenon DEF VIPSettled
<1>11. ShapeNames BY ShapeNamesHolds, Zenon DEF ShapeNames
<1>12. HealthySvcsFrame BY HealthySvcsFrameHolds, Zenon DEF HealthySvcsFrame
<1>13. HealthyDestsFrame BY HealthyDestsFrameHolds, Zenon DEF HealthyDestsFrame
<1>14. VIPTyped BY VIPTypedHolds, Zenon DEF VIPTyped
<1>15. ServiceUpdateStateEffect
  BY EffectsHold, ServiceUpdateStateEffectHolds, Zenon DEF ServiceUpdateStateEffect
<1>16. SettleDest BY EffectsHold, SettleDestHolds, Zenon DEF SettleDest
<1> QED
  BY <1>1, <1>2, <1>3, <1>4, <1>5, <1>6, <1>7, <1>8, <1>9, <1>10, <1>11, <1>12, <1>13, <1>14,
     <1>15, <1>16, Zenon

(* The contracts on the steps of a configuration update.                   *)
LEMMA UpdatesHold ==
    /\ ConfigTypes /\ SameEntries /\ HealthAt /\ DeleteServiceGood
    /\ AddServiceGood
<1>1. ConfigTypes BY ConfigTypesHolds, Zenon DEF ConfigTypes
<1>2. SameEntries BY SameEntriesHolds, Zenon DEF SameEntries
<1>3. HealthAt BY HealthAtHolds, Zenon DEF HealthAt
<1>4. DeleteServiceGood
  BY EffectsHold, CascadesHold, DeleteServiceGoodHolds, ZenonT(60) DEF DeleteServiceGood
<1>5. AddServiceGood BY EffectsHold, CascadesHold, AddServiceGoodHolds, Zenon DEF AddServiceGood
<1> QED BY <1>1, <1>2, <1>3, <1>4, <1>5, ZenonT(60)

(* The contracts that the actions rely on.                                 *)
LEMMA HandlersHold == Handlers
<1>1. ConfigTypes BY UpdatesHold, Zenon
<1>2. ShapeNames BY CascadesHold, Zenon
<1>3. SameAnnounced BY CascadesHold, Zenon
<1>4. GoodFrame BY GoodFrameHolds, Zenon DEF GoodFrame
<1>5. HealthFrame BY HealthFrameHolds, Zenon DEF HealthFrame
<1>6. ChecksFrame BY ChecksFrameHolds, Zenon DEF ChecksFrame
<1>7. ConfigFrame BY ConfigFrameHolds, Zenon DEF ConfigFrame
<1>8. OverrideFrame BY OverrideFrameHolds, Zenon DEF OverrideFrame
<1>9. PartsTransitive BY PartsTransitiveHolds, Zenon DEF PartsTransitive
<1>10. AllocateMarksFrame BY AllocateMarksFrameHolds, Zenon DEF AllocateMarksFrame
<1>11. DestinationUpdateStateGood
  BY EffectsHold, DestinationUpdateStateGoodHolds, Zenon DEF DestinationUpdateStateGood
<1>12. OverrideDestGood BY EffectsHold, OverrideDestGoodHolds, Zenon DEF OverrideDestGood
<1>13. DownAllGood BY EffectsHold, CascadesHold, DownAllGoodHolds, Zenon DEF DownAllGood
<1>14. UnconfigureVIPsGood
  BY EffectsHold, CascadesHold, UnconfigureVIPsGoodHolds, Zenon DEF UnconfigureVIPsGood
<1>15. EndConfigUpdateGood
  BY EffectsHold, CascadesHold, EndConfigUpdateGoodHolds, Zenon DEF EndConfigUpdateGood
<1>16. RestartGood BY EffectsHold, CascadesHold, RestartGoodHolds, Zenon DEF RestartGood
<1>17. DeleteServiceGood BY UpdatesHold, Zenon
<1>18. UpdateServiceKeyGood
  BY EffectsHold, CascadesHold, UpdatesHold, UpdateServiceKeyGoodHolds, Zenon DEF UpdateServiceKeyGood
<1>19. DestinationUpdateGood
  BY EffectsHold, CascadesHold, UpdatesHold, DestinationUpdateGoodHolds, Zenon DEF DestinationUpdateGood
<1>20. AddDestinationGood
  BY EffectsHold, CascadesHold, UpdatesHold, AddDestinationGoodHolds, Zenon DEF AddDestinationGood
<1>21. DeleteDestinationGood
  BY EffectsHold, CascadesHold, UpdatesHold, DeleteDestinationGoodHolds, Zenon DEF DeleteDestinationGood
<1> QED
  BY <1>1, <1>2, <1>3, <1>4, <1>5, <1>6, <1>7, <1>8, <1>9, <1>10, <1>11, <1>12, <1>13, <1>14,
     <1>15, <1>16, <1>17, <1>18, <1>19, <1>20, <1>21, Zenon DEF Handlers

(* Every step preserves the first invariant, and the second one under the  *)
(* hypotheses on operators and configurations.                             *)
LEMMA StepInv ==
    ASSUME IInv, [Next]_vars
    PROVE  IInv' /\ (SInv /\ NotForced /\ SameTypes => SInv')
BY HandlersHold, NextInv, Zenon

(* The handlers of vserver.run keep the vserver struct well typed, with    *)
(* services, destinations and loops that refer to what is there, for any   *)
(* configurations, backends, checks and overrides.                         *)
THEOREM TypeCorrect == Spec => []TypeOK
<1>1. IInv => TypeOK BY DEF IInv
<1> QED BY <1>1, InitInv, StepInv, PTL DEF Spec

(* The updateState functions leave no level of the cascade behind: in      *)
(* every state a destination is active exactly when it is healthy and its  *)
(* service is active, and a service exactly when it is healthy and its VIP *)
(* is up.                                                                  *)
THEOREM CascadeCorrect == Spec => []ActivationCascade
<1>1. IInv => ActivationCascade BY DEF IInv
<1> QED BY <1>1, InitInv, StepInv, PTL DEF Spec

(* What the vserver believes active is in the kernel's IPVS table with its *)
(* current parameters, whatever updates, checks and overrides it has been  *)
(* through.                                                                *)
THEOREM ActiveInstalled == Spec => []ActiveIsInstalled
<1>1. IInv => ActiveIsInstalled BY DEF IInv
<1> QED BY <1>1, InitInv, StepInv, PTL DEF Spec

(* The second invariant holds as long as no operator enables a backend of  *)
(* a disabled vserver and no update turns an address held from unicast to  *)
(* dedicated or back.                                                      *)
LEMMA BothInv == Spec /\ []NotForced /\ []SameTypes => [](IInv /\ SInv)
<1>1. IInv /\ SInv /\ NotForced /\ SameTypes /\ [Next]_vars => (IInv /\ SInv)' BY StepInv, Zenon
<1>2. Init => IInv /\ SInv BY InitInv, Zenon
<1> QED BY <1>1, <1>2, PTL DEF Spec

(* The IPVS table holds nothing but active services and destinations, with *)
(* their current parameters: no path through vserver.go forgets one.       *)
THEOREM TableCorrect == Spec /\ []NotForced /\ []SameTypes => []InstalledIsActive
<1>1. IInv /\ SInv => InstalledIsActive BY InstalledFollows
<1> QED BY <1>1, BothInv, PTL

(* No call of the vserver to the NCC fails, so that none of its log.Fatalf *)
(* takes the engine down: nothing is added twice, and nothing is updated   *)
(* or deleted that is not there.                                           *)
THEOREM CallsAccepted == Spec /\ []NotForced /\ []SameTypes => []NeverFatal
<1>1. IInv /\ SInv => NeverFatal BY NoneFatal
<1> QED BY <1>1, BothInv, PTL

(* Between events updateState has left every VIP up exactly when it has    *)
(* the healthy services it needs.                                          *)
THEOREM VIPsCorrect == Spec /\ []NotForced /\ []SameTypes => []VIPFollowsServices
<1>1. IInv /\ SInv => VIPFollowsServices BY VIPsFollow
<1> QED BY <1>1, BothInv, PTL

(* up, down, configureVIPs and unconfigureVIPs keep the routes and anycast *)
(* addresses those of the VIPs that are up, and the firewall rules those   *)
(* of the addresses.                                                       *)
THEOREM RoutesCorrect == Spec /\ []NotForced /\ []SameTypes => []RoutesFollowVIPs
<1>1. IInv /\ SInv => RoutesFollowVIPs BY RoutesFollow
<1> QED BY <1>1, BothInv, PTL

(* Between events an enabled vserver holds the addresses of its            *)
(* configuration, and a disabled or stopped one has nothing up, holds no   *)
(* address and asks for no check.                                          *)
THEOREM VIPsHeldCorrect == Spec /\ []NotForced /\ []SameTypes => []EnabledHoldsVIPs
<1>1. IInv /\ SInv => EnabledHoldsVIPs BY VIPsHeld
<1> QED BY <1>1, BothInv, PTL
=============================================================================

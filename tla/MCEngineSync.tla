---------------------------- MODULE MCEngineSync ----------------------------
(* Two engines *)
EXTENDS EngineSync, TLC

CONSTANTS n1, n2

MCHAStates == {"BACKUP", "LEADER"}
AllHAStates == MCHAStates \cup {"SHUTDOWN"}
Symmetric == Permutations(Nodes)

(* Engines that do not end, time out or get a configuration: HA states and  *)
(* overrides are enough for becomeMaster to wait for ever.                  *)
HANext == \E n \in Nodes :
    \/ \E s \in HAStates : ManagerState(n, s)
    \/ ManagerQuit(n) \/ ManagerStart(n) \/ ManagerFinish(n)
    \/ ManagerOverride(n) \/ ManagerDesync(n)
    \/ Client(n) \/ Server(n) \/ Operator(n)
HAFairSpec == Init /\ [][HANext]_vars /\ Fairness
=============================================================================

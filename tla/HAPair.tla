------------------------------- MODULE HAPair -------------------------------
(* The two HA nodes of a cluster (ha/core.go), with time in milliseconds    *)
(* that passes in steps of Quantum: the master down interval, the ticker of *)
(* the sender, advertisements that are delayed or lost, calls to the engine *)
(* that keep the state machine busy, crashes, shutdowns and restarts. A     *)
(* node has a sender exactly while it is the leader (HANode).               *)
EXTENDS VRRP, FiniteSets

CONSTANTS
    Nodes,                 \* two
    LocalAddr, RemoteAddr, \* HAConfig, by node
    Settings,              \* priorities by node, and the preempt flag
    MasterAdvertInterval,
    Quantum,
    MaxDelay,              \* of an advertisement
    MaxCall,               \* of a call to the engine
    MaxLosses,             \* advertisements lost in all
    MaxExits,              \* crashes and shutdowns in all
    MaxClock               \* where both and none stop counting

ASSUME PairAssumption ==
    /\ IsFiniteSet(Nodes) /\ Cardinality(Nodes) = 2
    /\ Settings \subseteq [priority: [Nodes -> 1..255], preempt: BOOLEAN]
    /\ LocalAddr \in [Nodes -> Nat] /\ RemoteAddr \in [Nodes -> Nat]
    /\ {MasterAdvertInterval, Quantum} \subseteq Nat \ {0}
    /\ {MaxDelay, MaxCall, MaxLosses, MaxExits, MaxClock} \subseteq Nat

VARIABLES
    setting,      \* the one of this cluster
    state,        \* haStatus.State, or DOWN without a process
    main,         \* what Run is doing
    call,         \* for how long it has been calling the engine
    since,        \* since lastMasterAdvertTime, or the start
    masterDownInterval,
    ticker,       \* since the sender's ticker fired
    queue,        \* recvChannel
    wire,         \* the advertisements on the way to a node, with their age
    losses, exits,
    \* history
    lost,         \* advertisements to a node lost in a row
    silent,       \* a leader of which the peer has not heard yet
    both, none    \* for how long there have been two leaders, or no leader

Priority == setting.priority
Preempt == setting.preempt

nodeVars == <<setting, state, main, call, since, masterDownInterval, ticker, queue>>
vars == <<nodeVars, wire, losses, exits, lost, silent, both, none>>

Peer(n) == CHOOSE m \in Nodes : m # n
Leaders == {n \in Nodes : state[n] = "LEADER"}
Up == {n \in Nodes : state[n] # "DOWN"}

Init ==
    /\ setting \in Settings
    /\ state = [n \in Nodes |-> "BACKUP"]
    /\ main = [n \in Nodes |-> "select"]
    /\ call = [n \in Nodes |-> 0]
    /\ since = [n \in Nodes |-> 0]
    /\ masterDownInterval =
         [n \in Nodes |-> MasterDownInterval(Priority[n], MasterAdvertInterval)]
    /\ ticker = [n \in Nodes |-> 0]
    /\ queue = [n \in Nodes |-> <<>>]
    /\ wire = [n \in Nodes |-> <<>>]
    /\ losses = 0 /\ exits = 0
    /\ lost = [n \in Nodes |-> 0]
    /\ silent = [n \in Nodes |-> FALSE]
    /\ both = 0 /\ none = 0

-----------------------------------------------------------------------------
(* doBackupTasks: the timeout, with nothing in the queue *)
TimedOut(n) == state[n] = "BACKUP" /\ main[n] = "select" /\ since[n] >= masterDownInterval[n]

Timeout(n) ==
    /\ TimedOut(n) /\ queue[n] = <<>>
    /\ main' = [main EXCEPT ![n] = "becomeMaster"]
    /\ UNCHANGED <<setting, state, call, since, masterDownInterval, ticker, queue,
                   wire, losses, exits, lost, silent, both, none>>

(* doBackupTasks: backupHandleAdvertisement. Durations are in centiseconds  *)
(* on the wire.                                                             *)
BackupAdvertUnheard(n) ==                      \* mutant: the timer goes on
    /\ state[n] = "BACKUP" /\ main[n] = "select" /\ queue[n] # <<>>
    /\ queue' = [queue EXCEPT ![n] = Tail(@)]
    /\ main' = IF TakesOver(Priority[n], Preempt, Head(queue[n]).Priority)
               THEN [main EXCEPT ![n] = "becomeMaster"] ELSE main
    /\ UNCHANGED <<setting, state, call, since, masterDownInterval, ticker,
                   wire, losses, exits, lost, silent, both, none>>

BackupAdvert(n) ==
    /\ state[n] = "BACKUP" /\ main[n] = "select" /\ queue[n] # <<>>
    /\ queue' = [queue EXCEPT ![n] = Tail(@)]
    /\ LET advert == Head(queue[n]) IN
       IF TakesOver(Priority[n], Preempt, advert.Priority)
       THEN /\ main' = [main EXCEPT ![n] = "becomeMaster"]
            /\ UNCHANGED <<since, masterDownInterval>>
       ELSE /\ masterDownInterval' =
                 [masterDownInterval EXCEPT ![n] =
                    MasterDownInterval(Priority[n], AdvertInterval(advert.AdvertInt))]
            /\ since' = [since EXCEPT ![n] = 0]
            /\ UNCHANGED main
    /\ UNCHANGED <<setting, state, call, ticker, wire, losses, exits, lost, silent, both, none>>

(* doMasterTasks *)
MasterAdvert(n) ==
    /\ state[n] = "LEADER" /\ main[n] = "select" /\ queue[n] # <<>>
    /\ queue' = [queue EXCEPT ![n] = Tail(@)]
    /\ IF GivesWay(Priority[n], LocalAddr[n], RemoteAddr[n], Head(queue[n]).Priority)
       THEN /\ main' = [main EXCEPT ![n] = "becomeBackup"]
            /\ since' = [since EXCEPT ![n] = 0]
       ELSE UNCHANGED <<main, since>>
    /\ UNCHANGED <<setting, state, call, masterDownInterval, ticker,
                   wire, losses, exits, lost, silent, both, none>>

(* Shutdown is called, for a failover or a signal. *)
Shutdown(n) ==
    /\ state[n] # "DOWN" /\ main[n] = "select" /\ exits < MaxExits
    /\ main' = [main EXCEPT ![n] = "becomeShutdown"]
    /\ exits' = exits + 1
    /\ UNCHANGED <<setting, state, call, since, masterDownInterval, ticker, queue,
                   wire, losses, lost, silent, both, none>>

(* IPHAConn.send, to the peer. The nodes share a VRID. *)
Advertise(n, priority) ==
    wire' = [wire EXCEPT ![Peer(n)] =
               Append(@, [advert |-> newAdvertisement(1, priority, MasterAdvertInterval),
                          age |-> 0])]

(* becomeMaster, when the engine has answered: the sender starts. *)
BecomeMaster(n) ==
    /\ main[n] = "becomeMaster"
    /\ state' = [state EXCEPT ![n] = "LEADER"]
    /\ main' = [main EXCEPT ![n] = "select"] /\ call' = [call EXCEPT ![n] = 0]
    /\ ticker' = [ticker EXCEPT ![n] = 0] /\ since' = [since EXCEPT ![n] = 0]
    /\ silent' = [silent EXCEPT ![n] = TRUE] /\ none' = 0
    /\ UNCHANGED <<setting, masterDownInterval, queue, wire, losses, exits, lost, both>>

(* becomeBackup: the sender, which went on during the call, stops. *)

BecomeBackup(n) ==
    /\ main[n] = "becomeBackup"
    /\ state' = [state EXCEPT ![n] = "BACKUP"]
    /\ main' = [main EXCEPT ![n] = "select"] /\ call' = [call EXCEPT ![n] = 0]
    /\ ticker' = [ticker EXCEPT ![n] = 0]
    /\ silent' = [silent EXCEPT ![n] = FALSE] /\ both' = 0
    /\ UNCHANGED <<setting, since, masterDownInterval, queue, wire, losses, exits, lost, none>>

(* The process is gone, and what its connection had not read with it. *)
Gone(n) ==
    /\ state' = [state EXCEPT ![n] = "DOWN"]
    /\ main' = [main EXCEPT ![n] = "select"] /\ call' = [call EXCEPT ![n] = 0]
    /\ ticker' = [ticker EXCEPT ![n] = 0] /\ since' = [since EXCEPT ![n] = 0]
    /\ queue' = [queue EXCEPT ![n] = <<>>]
    /\ masterDownInterval' = [masterDownInterval EXCEPT ![n] =
                                MasterDownInterval(Priority[n], MasterAdvertInterval)]
    /\ silent' = [silent EXCEPT ![n] = FALSE] /\ both' = 0

(* becomeShutdown: a leader sends the shutdown advertisement. *)
BecomeShutdown(n) ==
    /\ main[n] = "becomeShutdown"
    /\ Gone(n)
    /\ IF state[n] = "LEADER" THEN Advertise(n, 0) ELSE UNCHANGED wire
    /\ UNCHANGED <<setting, losses, exits, lost, none>>

(* A crash, or log.Fatalf *)
Crash(n) ==
    /\ state[n] # "DOWN" /\ exits < MaxExits
    /\ Gone(n)
    /\ exits' = exits + 1
    /\ UNCHANGED <<setting, wire, losses, lost, none>>

(* The watchdog starts the process again. *)
Restart(n) ==
    /\ state[n] = "DOWN"
    /\ state' = [state EXCEPT ![n] = "BACKUP"]
    /\ UNCHANGED <<setting, main, call, since, masterDownInterval, ticker, queue,
                   wire, losses, exits, lost, silent, both, none>>

(* sendAdvertisements *)
Send(n) ==
    /\ state[n] = "LEADER" /\ ticker[n] >= MasterAdvertInterval
    /\ ticker' = [ticker EXCEPT ![n] = 0]
    /\ Advertise(n, Priority[n])
    /\ UNCHANGED <<setting, state, main, call, since, masterDownInterval, queue,
                   losses, exits, lost, silent, both, none>>

(* receiveAdvertisements *)
Deliver(n) ==
    \E i \in 1..Len(wire[n]) :
        /\ queue' = IF state[n] = "DOWN" THEN queue
                    ELSE [queue EXCEPT ![n] = Append(@, wire[n][i].advert)]
        /\ wire' = [wire EXCEPT ![n] = SubSeq(@, 1, i - 1) \o SubSeq(@, i + 1, Len(@))]
        /\ lost' = [lost EXCEPT ![n] = 0]
        /\ silent' = [silent EXCEPT ![Peer(n)] = FALSE]
        /\ UNCHANGED <<setting, state, main, call, since, masterDownInterval, ticker,
                       losses, exits, both, none>>

Lose(n) ==
    /\ losses < MaxLosses /\ losses' = losses + 1
    /\ \E i \in 1..Len(wire[n]) :
        wire' = [wire EXCEPT ![n] = SubSeq(@, 1, i - 1) \o SubSeq(@, i + 1, Len(@))]
    /\ lost' = [lost EXCEPT ![n] = @ + 1]
    /\ UNCHANGED <<nodeVars, exits, silent, both, none>>

-----------------------------------------------------------------------------
(* Time passes when nothing is due: timers fire and messages are handled on *)
(* time, calls and advertisements take at most so long.                     *)
Due(n) ==
    \/ main[n] = "select" /\ queue[n] # <<>>
    \/ TimedOut(n)
    \/ state[n] = "LEADER" /\ ticker[n] >= MasterAdvertInterval
    \/ main[n] # "select" /\ call[n] + Quantum > MaxCall
    \/ \E i \in 1..Len(wire[n]) : wire[n][i].age + Quantum > MaxDelay

Longer(clock) == IF clock < MaxClock THEN clock + Quantum ELSE clock

Tick ==
    /\ \A n \in Nodes : ~Due(n)
    /\ call' = [n \in Nodes |-> IF main[n] # "select" THEN call[n] + Quantum ELSE 0]
    /\ since' = [n \in Nodes |-> IF state[n] = "BACKUP" \/ main[n] = "becomeBackup"
                                 THEN since[n] + Quantum ELSE 0]
    /\ ticker' = [n \in Nodes |-> IF state[n] = "LEADER" THEN ticker[n] + Quantum ELSE 0]
    /\ wire' = [n \in Nodes |-> [i \in DOMAIN wire[n] |->
                                   [wire[n][i] EXCEPT !.age = @ + Quantum]]]
    /\ both' = IF Cardinality(Leaders) = 2 THEN Longer(both) ELSE 0
    /\ none' = IF Leaders = {} /\ Up # {} THEN Longer(none) ELSE 0
    /\ UNCHANGED <<setting, state, main, masterDownInterval, queue, losses, exits, lost, silent>>

Step(n) ==
    \/ Timeout(n) \/ BackupAdvert(n) \/ MasterAdvert(n)
    \/ BecomeMaster(n) \/ BecomeBackup(n) \/ BecomeShutdown(n)
    \/ Send(n) \/ Deliver(n)

Next == \/ \E n \in Nodes : Step(n) \/ Shutdown(n) \/ Crash(n) \/ Restart(n) \/ Lose(n)
        \/ Tick

Spec == Init /\ [][Next]_vars

(* Timers, goroutines and the network do what they do on time. *)
Fairness == WF_vars(Tick) /\ \A n \in Nodes : WF_vars(Step(n))
FairSpec == Spec /\ Fairness
-----------------------------------------------------------------------------
(* Two leaders do not last: when the higher priority's advertisement comes  *)
(* through, the other steps down, and each lost one costs an interval more. *)
(* Nor is the cluster without a leader for longer than the master down      *)
(* interval, which is less than four intervals, the advertisement that may  *)
(* still come and the call to the engine; every node that stops may cost    *)
(* that time once more.                                                     *)
OneLeaderSoon ==
    /\ both <= (1 + MaxLosses) * MasterAdvertInterval + MaxDelay + MaxCall
    /\ none <= (1 + MaxExits) * (4 * MasterAdvertInterval + MaxDelay + MaxCall)

(* The leader that lets go leaves one behind: two leaders that hear each    *)
(* other do not both step down.                                             *)
OneStepsDown == \E n \in Nodes : main[n] # "becomeBackup"

(* A backup does not take over from a leader whose advertisements reach it, *)
(* even if one of them is lost: only after two in a row, or before it hears *)
(* of a new leader, can the timeout come too early.                         *)
NoNeedlessTakeover ==
    [][\A n \in Nodes :
         Timeout(n) /\ state[Peer(n)] = "LEADER" => lost[n] >= 2 \/ silent[Peer(n)]]_vars

(* When nothing more is lost and nothing stops, one node leads for good;    *)
(* with preemption it is the one of the highest priority.                   *)
Highest == CHOOSE n \in Nodes : \A m \in Nodes : Priority[m] <= Priority[n]
Settles ==
    <>[](/\ Up # {} => Cardinality(Leaders) = 1
         /\ Preempt /\ Highest \in Up => Leaders = {Highest})

(* What doMasterTasks says of equal priorities: the node with the higher    *)
(* address remains the master.                                              *)
HigherAddressStays ==
    \A n \in Nodes :
        Priority[n] = Priority[Peer(n)] /\ LocalAddr[n] > LocalAddr[Peer(n)] =>
            main[n] # "becomeBackup"
=============================================================================

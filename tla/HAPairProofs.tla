---------------------------- MODULE HAPairProofs ----------------------------
(* Two leaders never both let go, for any two nodes, priorities and         *)
(* intervals. A node lets go only for an advertisement that its peer sent,  *)
(* and of two nodes that break ties the same way one never gives way.       *)
EXTENDS HAPair, SequenceTheorems, FiniteSetTheorems, TLAPS

(* The advertisements a node can have sent: its own, or the shutdown one.   *)
From(m) == {newAdvertisement(1, 0, MasterAdvertInterval),
            newAdvertisement(1, Priority[m], MasterAdvertInterval)}

(* What is on the way to a node and in its queue comes from its peer.       *)
HeardFromPeer ==
    /\ setting \in Settings
    /\ DOMAIN main = Nodes /\ main = [n \in Nodes |-> main[n]]
    /\ DOMAIN queue = Nodes /\ queue = [n \in Nodes |-> queue[n]]
    /\ DOMAIN wire = Nodes /\ wire = [n \in Nodes |-> wire[n]]
    /\ \A n \in Nodes : /\ queue[n] \in Seq(From(Peer(n)))
                        /\ wire[n] \in Seq([advert: From(Peer(n)), age: Nat])

(* A leader that lets go has heard of a peer it gives way to.               *)
LetsGoForPeer ==
    \A n \in Nodes :
        main[n] = "becomeBackup" =>
            GivesWay(Priority[n], LocalAddr[n], RemoteAddr[n], Priority[Peer(n)])

PInv == HeardFromPeer /\ LetsGoForPeer

(* A tie is broken the same way on both sides: the nodes know each other's  *)
(* addresses, or there is no tie.                                           *)
TieBroken ==
    \/ \A n \in Nodes : RemoteAddr[n] = LocalAddr[Peer(n)]
    \/ \A s \in Settings, n \in Nodes : s.priority[n] # s.priority[Peer(n)]

(* The peer of a node is the other one. *)
LEMMA PeerOther ==
    /\ \A n \in Nodes : Peer(n) \in Nodes /\ Peer(n) # n /\ Peer(Peer(n)) = n
    /\ Nodes # {}
<1>1. IsFiniteSet(Nodes) /\ Cardinality(Nodes) = 2 BY PairAssumption, Zenon
<1>2. ASSUME NEW n \in Nodes PROVE \E m : Nodes \ {n} = {m}
  <2>1. IsFiniteSet(Nodes \ {n}) /\ Cardinality(Nodes \ {n}) = 1
    BY <1>1, FS_RemoveElement
  <2> QED BY <2>1, FS_Singleton, Zenon
<1>3. ASSUME NEW n \in Nodes PROVE Peer(n) \in Nodes /\ Peer(n) # n BY <1>2, Zenon DEF Peer
<1>4. ASSUME NEW n \in Nodes PROVE Peer(Peer(n)) = n
  <2>1. PICK m : Nodes \ {n} = {m} BY <1>2, Zenon
  <2>2. Nodes = {n, m} /\ m # n BY <2>1, Zenon
  <2>3. Peer(n) \in Nodes /\ Peer(n) # n BY <1>3, Zenon
  <2>4. Peer(n) = m BY <2>2, <2>3, Zenon
  <2>5. Peer(m) \in Nodes /\ Peer(m) # m BY <1>3, <2>2, Zenon
  <2> QED BY <2>2, <2>4, <2>5, Zenon
<1>5. Nodes # {} BY <1>1, FS_EmptySet
<1> QED BY <1>3, <1>4, <1>5, Zenon

(* Taking an element out of a sequence leaves the others. *)
LEMMA WithoutTyped ==
    ASSUME NEW S, NEW s \in Seq(S), NEW i \in 1..Len(s)
    PROVE  SubSeq(s, 1, i - 1) \o SubSeq(s, i + 1, Len(s)) \in Seq(S) /\ s[i] \in S
<1>1. Len(s) \in Nat /\ \A j \in 1..Len(s) : s[j] \in S BY LenProperties, ElementOfSeq, Zenon
<1>2. SubSeq(s, 1, i - 1) \in Seq(S)
  <2>1. 1 \in Int /\ i - 1 \in Int /\ \A j \in 1..(i - 1) : s[j] \in S BY <1>1
  <2> QED BY <2>1, SubSeqProperties, Zenon
<1>3. SubSeq(s, i + 1, Len(s)) \in Seq(S)
  <2>1. i + 1 \in Int /\ Len(s) \in Int /\ \A j \in (i + 1)..Len(s) : s[j] \in S BY <1>1
  <2> QED BY <2>1, SubSeqProperties, Zenon
<1> QED BY <1>1, <1>2, <1>3, ConcatProperties, Zenon

(* An advertisement on the way gets older. *)
LEMMA OlderTyped ==
    ASSUME NEW A, NEW m \in [advert: A, age: Nat], NEW q \in Nat
    PROVE  [m EXCEPT !.age = @ + q] \in [advert: A, age: Nat]
OBVIOUS

(* Of two leaders that do not tie, or know each other's address, one does   *)
(* not give way to the other.                                               *)
LEMMA OneStays ==
    ASSUME NEW p \in Nat, NEW q \in Nat, NEW a \in Nat, NEW b \in Nat, NEW ra, NEW rb,
           (ra = b /\ rb = a) \/ p # q
    PROVE  ~(GivesWay(p, a, ra, q) /\ GivesWay(q, b, rb, p))
BY DEF GivesWay

(* Both nodes start as backups that have heard nothing. *)
LEMMA PairInit == Init => PInv
<1> SUFFICES ASSUME Init PROVE PInv BY Zenon
<1>1. \A S : <<>> \in Seq(S) BY EmptySeq, Zenon
<1> QED BY <1>1, Zenon DEF Init, PInv, HeardFromPeer, LetsGoForPeer

(* A step that sends nothing and lets nobody go keeps the invariant. *)
LEMMA PairFrame ==
    ASSUME PInv, setting' = setting,
           DOMAIN main' = Nodes, main' = [n \in Nodes |-> main'[n]],
           DOMAIN queue' = Nodes, queue' = [n \in Nodes |-> queue'[n]],
           DOMAIN wire' = Nodes, wire' = [n \in Nodes |-> wire'[n]],
           \A n \in Nodes :
               /\ main'[n] = "becomeBackup" =>
                     \/ main[n] = "becomeBackup"
                     \/ GivesWay(Priority[n], LocalAddr[n], RemoteAddr[n], Priority[Peer(n)])
               /\ queue'[n] \in Seq(From(Peer(n)))
               /\ wire'[n] \in Seq([advert: From(Peer(n)), age: Nat])
    PROVE  PInv'
<1>1. \A m : Priority'[m] = Priority[m] /\ From(m)' = From(m) BY Zenon DEF Priority, From
<1>2. HeardFromPeer' BY <1>1, Zenon DEF PInv, HeardFromPeer
<1>3. LetsGoForPeer' BY <1>1, Zenon DEF PInv, LetsGoForPeer
<1> QED BY <1>2, <1>3, Zenon DEF PInv

(* A leader gives way only to what its peer sent of itself. *)
LEMMA GivesWayToPeer ==
    ASSUME PInv, NEW n \in Nodes, NEW a \in From(Peer(n)),
           GivesWay(Priority[n], LocalAddr[n], RemoteAddr[n], a.Priority)
    PROVE  GivesWay(Priority[n], LocalAddr[n], RemoteAddr[n], Priority[Peer(n)])
<1>1. a.Priority \in {0, Priority[Peer(n)]} BY DEF From, newAdvertisement
<1>2. Priority[n] \in 1..255
  <2>1. setting \in [priority: [Nodes -> 1..255], preempt: BOOLEAN]
    BY PairAssumption, Zenon DEF PInv, HeardFromPeer
  <2> QED BY <2>1, Zenon DEF Priority
<1> QED BY <1>1, <1>2 DEF GivesWay

(* An advertisement is on the way to the peer, and its peer is the sender. *)
LEMMA AdvertiseTyped ==
    ASSUME PInv, NEW n \in Nodes, NEW p \in {0, Priority[n]}, Advertise(n, p)
    PROVE  /\ DOMAIN wire' = Nodes /\ wire' = [m \in Nodes |-> wire'[m]]
           /\ \A m \in Nodes : wire'[m] \in Seq([advert: From(Peer(m)), age: Nat])
<1> DEFINE msg == [advert |-> newAdvertisement(1, p, MasterAdvertInterval), age |-> 0]
<1>1. Peer(n) \in Nodes /\ Peer(Peer(n)) = n BY PeerOther, Zenon
<1>2. msg \in [advert: From(n), age: Nat] BY Zenon DEF From
<1>3. wire' = [wire EXCEPT ![Peer(n)] = Append(@, msg)] BY Zenon DEF Advertise
<1>4. wire = [m \in Nodes |-> wire[m]] /\ DOMAIN wire = Nodes
      /\ \A m \in Nodes : wire[m] \in Seq([advert: From(Peer(m)), age: Nat])
  BY Zenon DEF PInv, HeardFromPeer
<1> HIDE DEF msg
<1>5. Append(wire[Peer(n)], msg) \in Seq([advert: From(n), age: Nat])
  <2>1. wire[Peer(n)] \in Seq([advert: From(n), age: Nat]) BY <1>1, <1>4, Zenon
  <2> QED BY <1>2, <2>1, AppendProperties, Zenon
<1> QED BY <1>1, <1>3, <1>4, <1>5, Zenon

(* Every step of the pair preserves the invariant. *)
LEMMA PairNext == PInv /\ [Next]_vars => PInv'
<1> SUFFICES ASSUME PInv, [Next]_vars PROVE PInv' BY Zenon
<1>0. /\ DOMAIN main = Nodes /\ main = [n \in Nodes |-> main[n]]
      /\ DOMAIN queue = Nodes /\ queue = [n \in Nodes |-> queue[n]]
      /\ DOMAIN wire = Nodes /\ wire = [n \in Nodes |-> wire[n]]
      /\ \A n \in Nodes : /\ queue[n] \in Seq(From(Peer(n)))
                          /\ wire[n] \in Seq([advert: From(Peer(n)), age: Nat])
  BY Zenon DEF PInv, HeardFromPeer
<1>e. \A S : <<>> \in Seq(S) BY EmptySeq, Zenon
<1>1. ASSUME NEW n \in Nodes, setting' = setting, wire' = wire, queue' = queue,
             \E p \in {"select", "becomeMaster", "becomeShutdown"} :
                main' = [main EXCEPT ![n] = p]
      PROVE  PInv'
  BY <1>0, <1>1, PairFrame, Zenon
<1>2. ASSUME setting' = setting, wire' = wire, queue' = queue, main' = main PROVE PInv'
  BY <1>0, <1>2, PairFrame, Zenon
<1>3. ASSUME NEW n \in Nodes, Timeout(n) \/ Shutdown(n) \/ BecomeMaster(n) \/ BecomeBackup(n)
      PROVE  PInv'
  BY <1>1, <1>3, Zenon DEF Timeout, Shutdown, BecomeMaster, BecomeBackup
<1>4. ASSUME NEW n \in Nodes, BackupAdvert(n) \/ MasterAdvert(n) PROVE PInv'
  <2>1. /\ queue[n] # <<>> /\ queue' = [queue EXCEPT ![n] = Tail(@)]
        /\ setting' = setting /\ wire' = wire
    BY <1>4, Zenon DEF BackupAdvert, MasterAdvert
  <2>2. Head(queue[n]) \in From(Peer(n)) /\ Tail(queue[n]) \in Seq(From(Peer(n)))
    BY <1>0, <2>1, HeadTailProperties, Zenon
  <2>3. \/ main' = main \/ main' = [main EXCEPT ![n] = "becomeMaster"]
        \/ /\ main' = [main EXCEPT ![n] = "becomeBackup"]
           /\ GivesWay(Priority[n], LocalAddr[n], RemoteAddr[n], Head(queue[n]).Priority)
    BY <1>4, Zenon DEF BackupAdvert, MasterAdvert
  <2>4. GivesWay(Priority[n], LocalAddr[n], RemoteAddr[n], Head(queue[n]).Priority) =>
          GivesWay(Priority[n], LocalAddr[n], RemoteAddr[n], Priority[Peer(n)])
    BY <2>2, GivesWayToPeer, Zenon
  <2> QED BY <1>0, <2>1, <2>2, <2>3, <2>4, PairFrame, Zenon
<1>5. ASSUME NEW n \in Nodes, BecomeShutdown(n) \/ Crash(n) PROVE PInv'
  <2>1. /\ main' = [main EXCEPT ![n] = "select"] /\ queue' = [queue EXCEPT ![n] = <<>>]
        /\ setting' = setting
    BY <1>5, Zenon DEF BecomeShutdown, Crash, Gone
  <2>2. wire' = wire \/ Advertise(n, 0) BY <1>5, Zenon DEF BecomeShutdown, Crash
  <2>3. /\ DOMAIN wire' = Nodes /\ wire' = [m \in Nodes |-> wire'[m]]
        /\ \A m \in Nodes : wire'[m] \in Seq([advert: From(Peer(m)), age: Nat])
    BY <1>0, <2>2, AdvertiseTyped, Zenon
  <2> QED BY <1>0, <1>e, <2>1, <2>3, PairFrame, Zenon
<1>6. ASSUME NEW n \in Nodes, Restart(n) PROVE PInv' BY <1>2, <1>6, Zenon DEF Restart
<1>7. ASSUME NEW n \in Nodes, Send(n) PROVE PInv'
  <2>1. setting' = setting /\ main' = main /\ queue' = queue /\ Advertise(n, Priority[n])
    BY <1>7, Zenon DEF Send
  <2>2. /\ DOMAIN wire' = Nodes /\ wire' = [m \in Nodes |-> wire'[m]]
        /\ \A m \in Nodes : wire'[m] \in Seq([advert: From(Peer(m)), age: Nat])
    BY <2>1, AdvertiseTyped, Zenon
  <2> QED BY <1>0, <2>1, <2>2, PairFrame, Zenon
<1>8. ASSUME NEW n \in Nodes, Deliver(n) \/ Lose(n) PROVE PInv'
  <2>1. PICK i \in 1..Len(wire[n]) :
          /\ wire' = [wire EXCEPT ![n] = SubSeq(@, 1, i - 1) \o SubSeq(@, i + 1, Len(@))]
          /\ queue' = queue \/ queue' = [queue EXCEPT ![n] = Append(@, wire[n][i].advert)]
    BY <1>8, Zenon DEF Deliver, Lose, nodeVars
  <2>2. setting' = setting /\ main' = main BY <1>8, Zenon DEF Deliver, Lose, nodeVars
  <2>3. /\ SubSeq(wire[n], 1, i - 1) \o SubSeq(wire[n], i + 1, Len(wire[n])) \in
              Seq([advert: From(Peer(n)), age: Nat])
        /\ wire[n][i] \in [advert: From(Peer(n)), age: Nat]
    BY <1>0, WithoutTyped, Zenon
  <2>4. Append(queue[n], wire[n][i].advert) \in Seq(From(Peer(n)))
    BY <1>0, <2>3, AppendProperties, Zenon
  <2> QED BY <1>0, <2>1, <2>2, <2>3, <2>4, PairFrame, Zenon
<1>9. CASE Tick
  <2>1. setting' = setting /\ main' = main /\ queue' = queue BY <1>9, Zenon DEF Tick
  <2>2. wire' = [n \in Nodes |-> [i \in DOMAIN wire[n] |->
                                   [wire[n][i] EXCEPT !.age = @ + Quantum]]]
    BY <1>9, Zenon DEF Tick
  <2>3. ASSUME NEW n \in Nodes
        PROVE  wire'[n] \in Seq([advert: From(Peer(n)), age: Nat])
    <3> DEFINE T == [advert: From(Peer(n)), age: Nat]
    <3>1. /\ wire[n] \in Seq(T) /\ DOMAIN wire[n] = 1..Len(wire[n]) /\ Len(wire[n]) \in Nat
          /\ \A i \in 1..Len(wire[n]) : wire[n][i] \in T
      BY <1>0, LenProperties, ElementOfSeq, Zenon
    <3>2. Quantum \in Nat BY PairAssumption, Zenon
    <3>3. \A i \in 1..Len(wire[n]) : [wire[n][i] EXCEPT !.age = @ + Quantum] \in T
      BY <3>1, <3>2, OlderTyped, Zenon
    <3>4. wire'[n] = [i \in 1..Len(wire[n]) |-> [wire[n][i] EXCEPT !.age = @ + Quantum]]
      BY <2>2, <3>1, Zenon
    <3> HIDE DEF T
    <3>5. wire'[n] \in Seq(T) BY <3>1, <3>3, <3>4, IsASeq
    <3> QED BY <3>5, Zenon DEF T
  <2>4. DOMAIN wire' = Nodes /\ wire' = [m \in Nodes |-> wire'[m]] BY <2>2, Zenon
  <2> QED BY <1>0, <2>1, <2>3, <2>4, PairFrame, Zenon
<1>10. CASE UNCHANGED vars BY <1>2, <1>10, Zenon DEF vars, nodeVars
<1> QED BY <1>3, <1>4, <1>5, <1>6, <1>7, <1>8, <1>9, <1>10, Zenon DEF Next, Step

(* Not both of two nodes have a reason to give way. *)
LEMMA OneGivesWay ==
    ASSUME TieBroken, PInv
    PROVE  OneStepsDown
<1>1. PICK n \in Nodes : TRUE BY PeerOther, Zenon
<1>2. Peer(n) \in Nodes /\ Peer(n) # n /\ Peer(Peer(n)) = n BY PeerOther, Zenon
<1>3. /\ Priority[n] \in 1..255 /\ Priority[Peer(n)] \in 1..255
      /\ LocalAddr[n] \in Nat /\ LocalAddr[Peer(n)] \in Nat
  <2>1. setting \in [priority: [Nodes -> 1..255], preempt: BOOLEAN]
    BY PairAssumption, Zenon DEF PInv, HeardFromPeer
  <2>2. Priority \in [Nodes -> 1..255] BY <2>1, Zenon DEF Priority
  <2>3. LocalAddr \in [Nodes -> Nat] BY PairAssumption, Zenon
  <2> QED BY <1>2, <2>2, <2>3, Zenon
<1>4. \/ RemoteAddr[n] = LocalAddr[Peer(n)] /\ RemoteAddr[Peer(n)] = LocalAddr[n]
      \/ Priority[n] # Priority[Peer(n)]
  BY <1>2, Zenon DEF TieBroken, PInv, HeardFromPeer, Priority
<1>5. ~ (/\ GivesWay(Priority[n], LocalAddr[n], RemoteAddr[n], Priority[Peer(n)])
         /\ GivesWay(Priority[Peer(n)], LocalAddr[Peer(n)], RemoteAddr[Peer(n)], Priority[n]))
  <2>1. Priority[n] \in Nat /\ Priority[Peer(n)] \in Nat BY <1>3
  <2> QED BY <1>3, <1>4, <2>1, OneStays, Zenon
<1> QED BY <1>2, <1>5, Zenon DEF PInv, LetsGoForPeer, OneStepsDown

(* Two leaders that hear each other do not both step down. *)
THEOREM StaysLed ==
    ASSUME TieBroken
    PROVE  Spec => []OneStepsDown
<1>1. PInv => OneStepsDown BY OneGivesWay, Zenon
<1> QED BY PairInit, PairNext, <1>1, PTL DEF Spec
=============================================================================

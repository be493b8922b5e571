--------------------------- MODULE VserverCascade ---------------------------
(* What the NCC calls do to the tables of the node, and how up, down and   *)
(* updateState, which call each other between a vserver, its services and  *)
(* their destinations, repair a cascade that is broken in one place. The   *)
(* first half goes up to the services of a VIP, the second one from the    *)
(* VIP to a check result or an override of a destination; it takes what it *)
(* needs of the first as hypotheses, which VserverProofs discharges.       *)
EXTENDS VserverFrames, TLAPS

(* ipvsService and ipvsDestination name table entries of the right type.   *)
LEMMA IdTypes ==
    ASSUME NEW x, WellFormed(x)
    PROVE  /\ \A k \in Services(x) : IpvsId(x, k) \in IpvsIds /\ x.svc[k].ventry.sched \in Nat
           /\ \A d \in Destinations(x) : IpvsDestId(x, d) \in IpvsDestIds /\ x.backend[d].weight \in Nat
BY ZenonT(30) DEF WellFormed, VType, Services, ServiceType, EntryType, IpvsId, IpvsIds,
   Destinations, Dests, BackendType, IpvsDestId, IpvsDestIds

(* Distinct services, and distinct destinations, have distinct entries.    *)
LEMMA IdsDifferHolds ==
    ASSUME NEW x
    PROVE  /\ \A j, k : IpvsId(x, j) = IpvsId(x, k) => j = k
           /\ \A d, e \in Dests : IpvsDestId(x, d) = IpvsDestId(x, e) => d = e
           /\ \A d : IpvsDestId(x, d)[1] = IpvsId(x, d[1])
<1>1. \A j, k : IpvsId(x, j) = IpvsId(x, k) => j = k BY Zenon DEF IpvsId
<1> QED BY <1>1 DEF IpvsDestId, Dests

(* Every entry of a table has its identity among those of the table.       *)
LEMMA IdsOfHolds ==
    ASSUME NEW S
    PROVE  /\ \A i, w : <<i, w>> \in S => i \in Ids(S)
           /\ \A e \in S : e[1] \in Ids(S)
           /\ \A i \in Ids(S) : \E e \in S : i = e[1]
BY DEF Ids

(* A call on the IPVS table leaves the rest of the vserver alone. *)
LEMMA IPVSFrame ==
    ASSUME NEW x, WellFormed(x), NEW s \in SUBSET (IpvsIds \X Nat),
           NEW t \in SUBSET (IpvsDestIds \X Nat), NEW f \in SUBSET IPVSFaults,
           NEW y, y = SetIPVS(x, s, t, f)
    PROVE  /\ SameVserver(x, y) /\ SameActive(x, y) /\ SameNet(x, y)
           /\ y.node.services = s /\ y.node.dests = t
           /\ IPVSCallsOK(x) /\ f = {} => IPVSCallsOK(y)
<1> DEFINE n == [x.node EXCEPT !.services = s, !.dests = t, !.fatal = @ \cup f]
<1>1. f \in SUBSET Faults /\ f \cap VIPFaults = {} BY Zenon DEF Faults, IPVSFaults, VIPFaults
<1>2. x \in VType /\ x.node \in NodeType BY Zenon DEF WellFormed, VType
<1>3. /\ n \in NodeType /\ n.services = s /\ n.dests = t /\ n.fatal = x.node.fatal \cup f
      /\ n.addrs = x.node.addrs /\ n.rules = x.node.rules /\ n.routes = x.node.routes
  BY <1>1, <1>2, Zenon DEF NodeType
<1>3a. y = [x EXCEPT !.node = n] BY Zenon DEF SetIPVS
<1> HIDE DEF n
<1>4. SameVserver(x, y) /\ SameActive(x, y) /\ y.node = n /\ y.lbVservers = x.lbVservers
  BY <1>2, <1>3, <1>3a, ZenonT(30) DEF VType, SameVserver, SameActive
<1>5. SameNet(x, y) /\ (IPVSCallsOK(x) /\ f = {} => IPVSCallsOK(y))
  BY <1>1, <1>3, <1>4, Zenon DEF SameNet, IPVSCallsOK
<1> QED BY <1>3, <1>4, <1>5, Zenon

(* What each NCC call does to the IPVS table, and that it does no more. *)
LEMMA AddServiceNode ==
    ASSUME NEW x, WellFormed(x), NEW K \in SUBSET Services(x)
    PROVE  LET y == IPVSAddService(x, K) IN
           /\ SameVserver(x, y) /\ SameActive(x, y) /\ SameNet(x, y)
           /\ y.node.dests = x.node.dests
           /\ y.node.services = x.node.services
                \cup {<<IpvsId(x, k), x.svc[k].ventry.sched>> : k \in K}
           /\ IPVSCallsOK(x) /\ {IpvsId(x, k) : k \in K} \cap Ids(x.node.services) = {} => IPVSCallsOK(y)
<1> DEFINE c == {IpvsId(x, k) : k \in K} \cap Ids(x.node.services) # {}
           s == x.node.services \cup {<<IpvsId(x, k), x.svc[k].ventry.sched>> : k \in K}
           t == x.node.dests
           f == Fault("AddService", c)
           y == IPVSAddService(x, K)
<1>1. x.node \in NodeType BY Zenon DEF WellFormed, VType
<1>2. s \in SUBSET (IpvsIds \X Nat) /\ t \in SUBSET (IpvsDestIds \X Nat)
  BY <1>1, IdTypes DEF NodeType
<1>3. y = SetIPVS(x, s, t, f)
  BY <1>1, Zenon DEF SetIPVS, IPVSAddService, NodeType
<1>4. f \in SUBSET IPVSFaults /\ (~c => f = {}) BY Zenon DEF Fault, IPVSFaults
<1> HIDE DEF c, s, t, f, y
<1>5. /\ SameVserver(x, y) /\ SameActive(x, y) /\ SameNet(x, y)
      /\ y.node.services = s /\ y.node.dests = t
      /\ IPVSCallsOK(x) /\ f = {} => IPVSCallsOK(y)
  BY <1>2, <1>3, <1>4, IPVSFrame
<1> QED BY <1>4, <1>5, Zenon DEF c, s, t, y

(* IPVSDeleteService removes the services K, with the destinations under   *)
(* them.                                                                   *)
LEMMA DeleteServiceNode ==
    ASSUME NEW x, WellFormed(x), NEW K \in SUBSET Services(x)
    PROVE  LET y == IPVSDeleteService(x, K)
               ids == {IpvsId(x, k) : k \in K} IN
           /\ SameVserver(x, y) /\ SameActive(x, y) /\ SameNet(x, y)
           /\ y.node.services = {e \in x.node.services : e[1] \notin ids}
           /\ y.node.dests = {e \in x.node.dests : e[1][1] \notin ids}
           /\ IPVSCallsOK(x) /\ ids \subseteq Ids(x.node.services) => IPVSCallsOK(y)
<1> DEFINE ids == {IpvsId(x, k) : k \in K}
           c == ~(ids \subseteq Ids(x.node.services))
           s == {e \in x.node.services : e[1] \notin ids}
           t == {e \in x.node.dests : e[1][1] \notin ids}
           f == Fault("DeleteService", c)
           y == IPVSDeleteService(x, K)
<1>1. x.node \in NodeType BY Zenon DEF WellFormed, VType
<1>2. s \in SUBSET (IpvsIds \X Nat) /\ t \in SUBSET (IpvsDestIds \X Nat)
  BY <1>1, Zenon DEF NodeType
<1>3. y = SetIPVS(x, s, t, f)
  BY Zenon DEF SetIPVS, IPVSDeleteService
<1>4. f \in SUBSET IPVSFaults /\ (~c => f = {}) BY Zenon DEF Fault, IPVSFaults
<1> HIDE DEF c, s, t, f, y
<1>5. /\ SameVserver(x, y) /\ SameActive(x, y) /\ SameNet(x, y)
      /\ y.node.services = s /\ y.node.dests = t
      /\ IPVSCallsOK(x) /\ f = {} => IPVSCallsOK(y)
  BY <1>2, <1>3, <1>4, IPVSFrame
<1> QED BY <1>4, <1>5, Zenon DEF c, s, t, y

(* IPVSUpdateService replaces the entry of the service k.                  *)
LEMMA UpdateServiceNodeHolds ==
    ASSUME NEW x, WellFormed(x), NEW k \in Services(x)
    PROVE  LET y == IPVSUpdateService(x, k) IN
           /\ SameVserver(x, y) /\ SameActive(x, y) /\ SameNet(x, y)
           /\ y.node.dests = x.node.dests
           /\ y.node.services = {e \in x.node.services : e[1] # IpvsId(x, k)}
                                   \cup {<<IpvsId(x, k), x.svc[k].ventry.sched>>}
           /\ IPVSCallsOK(x) /\ IpvsId(x, k) \in Ids(x.node.services) => IPVSCallsOK(y)
<1> DEFINE c == IpvsId(x, k) \notin Ids(x.node.services)
           s == {e \in x.node.services : e[1] # IpvsId(x, k)}
                   \cup {<<IpvsId(x, k), x.svc[k].ventry.sched>>}
           t == x.node.dests
           f == Fault("UpdateService", c)
           y == IPVSUpdateService(x, k)
<1>1. x.node \in NodeType BY Zenon DEF WellFormed, VType
<1>2. s \in SUBSET (IpvsIds \X Nat) /\ t \in SUBSET (IpvsDestIds \X Nat)
  BY <1>1, IdTypes DEF NodeType
<1>3. y = SetIPVS(x, s, t, f)
  BY <1>1, Zenon DEF SetIPVS, IPVSUpdateService, NodeType
<1>4. f \in SUBSET IPVSFaults /\ (~c => f = {}) BY Zenon DEF Fault, IPVSFaults
<1> HIDE DEF c, s, t, f, y
<1>5. /\ SameVserver(x, y) /\ SameActive(x, y) /\ SameNet(x, y)
      /\ y.node.services = s /\ y.node.dests = t
      /\ IPVSCallsOK(x) /\ f = {} => IPVSCallsOK(y)
  BY <1>2, <1>3, <1>4, IPVSFrame
<1> QED BY <1>4, <1>5, Zenon DEF c, s, t, y

(* IPVSAddDestination enters the destinations D.                           *)
LEMMA AddDestinationNode ==
    ASSUME NEW x, WellFormed(x), NEW D \in SUBSET Destinations(x)
    PROVE  LET y == IPVSAddDestination(x, D)
               ids == {IpvsDestId(x, d) : d \in D} IN
           /\ SameVserver(x, y) /\ SameActive(x, y) /\ SameNet(x, y)
           /\ y.node.services = x.node.services
           /\ y.node.dests = x.node.dests
                \cup {<<IpvsDestId(x, d), x.backend[d].weight>> : d \in D}
           /\ /\ IPVSCallsOK(x) /\ ids \cap Ids(x.node.dests) = {}
              /\ Ids(ids) \subseteq Ids(x.node.services)
              => IPVSCallsOK(y)
<1> DEFINE ids == {IpvsDestId(x, d) : d \in D}
           c == \/ ids \cap Ids(x.node.dests) # {}
                \/ ~(Ids(ids) \subseteq Ids(x.node.services))
           s == x.node.services
           t == x.node.dests \cup {<<IpvsDestId(x, d), x.backend[d].weight>> : d \in D}
           f == Fault("AddDestination", c)
           y == IPVSAddDestination(x, D)
<1>1. x.node \in NodeType BY Zenon DEF WellFormed, VType
<1>2. s \in SUBSET (IpvsIds \X Nat) /\ t \in SUBSET (IpvsDestIds \X Nat)
  BY <1>1, IdTypes DEF NodeType
<1>3. y = SetIPVS(x, s, t, f)
  BY <1>1, Zenon DEF SetIPVS, IPVSAddDestination, NodeType
<1>4. f \in SUBSET IPVSFaults /\ (~c => f = {}) BY Zenon DEF Fault, IPVSFaults
<1> HIDE DEF c, s, t, f, y
<1>5. /\ SameVserver(x, y) /\ SameActive(x, y) /\ SameNet(x, y)
      /\ y.node.services = s /\ y.node.dests = t
      /\ IPVSCallsOK(x) /\ f = {} => IPVSCallsOK(y)
  BY <1>2, <1>3, <1>4, IPVSFrame
<1> QED BY <1>4, <1>5, Zenon DEF c, s, t, y

(* IPVSDeleteDestination removes the destinations D.                       *)
LEMMA DeleteDestinationNode ==
    ASSUME NEW x, WellFormed(x), NEW D \in SUBSET Destinations(x)
    PROVE  LET y == IPVSDeleteDestination(x, D)
               ids == {IpvsDestId(x, d) : d \in D} IN
           /\ SameVserver(x, y) /\ SameActive(x, y) /\ SameNet(x, y)
           /\ y.node.services = x.node.services
           /\ y.node.dests = {e \in x.node.dests : e[1] \notin ids}
           /\ IPVSCallsOK(x) /\ ids \subseteq Ids(x.node.dests) => IPVSCallsOK(y)
<1> DEFINE ids == {IpvsDestId(x, d) : d \in D}
           c == ~(ids \subseteq Ids(x.node.dests))
           s == x.node.services
           t == {e \in x.node.dests : e[1] \notin ids}
           f == Fault("DeleteDestination", c)
           y == IPVSDeleteDestination(x, D)
<1>1. x.node \in NodeType BY Zenon DEF WellFormed, VType
<1>2. s \in SUBSET (IpvsIds \X Nat) /\ t \in SUBSET (IpvsDestIds \X Nat)
  BY <1>1, Zenon DEF NodeType
<1>3. y = SetIPVS(x, s, t, f)
  BY <1>1, Zenon DEF SetIPVS, IPVSDeleteDestination, NodeType
<1>4. f \in SUBSET IPVSFaults /\ (~c => f = {}) BY Zenon DEF Fault, IPVSFaults
<1> HIDE DEF c, s, t, f, y
<1>5. /\ SameVserver(x, y) /\ SameActive(x, y) /\ SameNet(x, y)
      /\ y.node.services = s /\ y.node.dests = t
      /\ IPVSCallsOK(x) /\ f = {} => IPVSCallsOK(y)
  BY <1>2, <1>3, <1>4, IPVSFrame
<1> QED BY <1>4, <1>5, Zenon DEF c, s, t, y

(* IPVSUpdateDestination replaces the entry of the destination d.          *)
LEMMA UpdateDestinationNodeHolds ==
    ASSUME NEW x, WellFormed(x), NEW d \in Destinations(x)
    PROVE  LET y == IPVSUpdateDestination(x, d) IN
           /\ SameVserver(x, y) /\ SameActive(x, y) /\ SameNet(x, y)
           /\ y.node.services = x.node.services
           /\ y.node.dests = {e \in x.node.dests : e[1] # IpvsDestId(x, d)}
                                \cup {<<IpvsDestId(x, d), x.backend[d].weight>>}
           /\ IPVSCallsOK(x) /\ IpvsDestId(x, d) \in Ids(x.node.dests) => IPVSCallsOK(y)
<1> DEFINE c == IpvsDestId(x, d) \notin Ids(x.node.dests)
           s == x.node.services
           t == {e \in x.node.dests : e[1] # IpvsDestId(x, d)}
                   \cup {<<IpvsDestId(x, d), x.backend[d].weight>>}
           f == Fault("UpdateDestination", c)
           y == IPVSUpdateDestination(x, d)
<1>1. x.node \in NodeType BY Zenon DEF WellFormed, VType
<1>2. s \in SUBSET (IpvsIds \X Nat) /\ t \in SUBSET (IpvsDestIds \X Nat)
  BY <1>1, IdTypes DEF NodeType
<1>3. y = SetIPVS(x, s, t, f)
  BY <1>1, Zenon DEF SetIPVS, IPVSUpdateDestination, NodeType
<1>4. f \in SUBSET IPVSFaults /\ (~c => f = {}) BY Zenon DEF Fault, IPVSFaults
<1> HIDE DEF c, s, t, f, y
<1>5. /\ SameVserver(x, y) /\ SameActive(x, y) /\ SameNet(x, y)
      /\ y.node.services = s /\ y.node.dests = t
      /\ IPVSCallsOK(x) /\ f = {} => IPVSCallsOK(y)
  BY <1>2, <1>3, <1>4, IPVSFrame
<1> QED BY <1>4, <1>5, Zenon DEF c, s, t, y

(* The snapshot sent with AddVserver is a set of iptables rules.           *)
LEMMA RulesTypedHolds ==
    ASSUME NEW c \in Configs, NEW fwm, NEW af \in AFs
    PROVE  Rules(c, fwm, af) \in RulesType /\ Rules(c, fwm, af).ip = IPOf(c, af)
<1>1. c \in ConfigType BY ConstantsAssumption, Zenon
<1>2. IPOf(c, af) \in AFs \X (Addrs \cup {Nil}) BY <1>1, Zenon DEF ConfigType, IPOf
<1>3. (af \in fwm) \in BOOLEAN OBVIOUS
<1>4. [p \in Ports |-> IF p \in EntryPorts(c) THEN c.entries[p].mode ELSE Nil]
        \in [Ports -> Modes \cup {Nil}]
  BY <1>1, Zenon DEF ConfigType, EntryPorts, EntryType
<1> QED BY <1>2, <1>3, <1>4, Zenon DEF Rules, RulesType

(* A call on the addresses leaves the vserver and its IPVS table alone. *)
LEMMA VIPFrame ==
    ASSUME NEW x, WellFormed(x), NEW l \in [IPs -> RulesType \cup {NoRules}],
           NEW r \in SUBSET (RulesType \cup {NoRules}), NEW a \in SUBSET (IPs \X VIPTypes),
           NEW f \in SUBSET VIPFaults,
           NEW y, y = SetVIPs(x, l, r, a, f)
    PROVE  /\ SameVserver(x, y) /\ SameActive(x, y) /\ SameIPVS(x, y)
           /\ y.lbVservers = l /\ y.node.rules = r /\ y.node.addrs = a
           /\ y.node.routes = x.node.routes
           /\ VIPCallsOK(x) /\ f = {} => VIPCallsOK(y)
<1> DEFINE n == [x.node EXCEPT !.rules = r, !.addrs = a, !.fatal = @ \cup f]
<1>1. f \in SUBSET Faults /\ f \cap IPVSFaults = {} BY Zenon DEF Faults, IPVSFaults, VIPFaults
<1>2. x \in VType /\ x.node \in NodeType BY Zenon DEF WellFormed, VType
<1>3. /\ n \in NodeType /\ n.rules = r /\ n.addrs = a /\ n.fatal = x.node.fatal \cup f
      /\ n.services = x.node.services /\ n.dests = x.node.dests /\ n.routes = x.node.routes
  BY <1>1, <1>2, Zenon DEF NodeType
<1>3a. y = [x EXCEPT !.lbVservers = l, !.node = n] BY Zenon DEF SetVIPs
<1> HIDE DEF n
<1>4. SameVserver(x, y) /\ SameActive(x, y) /\ y.node = n /\ y.lbVservers = l
  BY <1>2, <1>3, <1>3a, ZenonT(30) DEF VType, SameVserver, SameActive
<1> QED BY <1>1, <1>3, <1>4, Zenon DEF SameIPVS, VIPCallsOK

(* configureVIPs' AddVserver and AddVIP, for the VIPs S.                   *)
LEMMA AddVIPNodeHolds ==
    ASSUME NEW x, WellFormed(x), x.config # Nil, NEW S \in SUBSET (IPs \X VIPTypes)
    PROVE  LET y == AddVIP(x, S)
               snapshot(ip) == Rules(x.config, x.fwm, ip[1]) IN
           /\ SameVserver(x, y) /\ SameActive(x, y) /\ SameIPVS(x, y)
           /\ y.lbVservers = [ip \in IPs |->
                                IF ip \in Ids(S) THEN snapshot(ip) ELSE x.lbVservers[ip]]
           /\ y.node.rules = x.node.rules \cup {snapshot(ip) : ip \in Ids(S)}
           /\ y.node.addrs = x.node.addrs \cup S /\ y.node.routes = x.node.routes
           /\ VIPCallsOK(x) /\ S \cap x.node.addrs = {} => VIPCallsOK(y)
<1> DEFINE snapshot(ip) == Rules(x.config, x.fwm, ip[1])
           c == S \cap x.node.addrs # {}
           l == [ip \in IPs |-> IF ip \in Ids(S) THEN snapshot(ip) ELSE x.lbVservers[ip]]
           r == x.node.rules \cup {snapshot(ip) : ip \in Ids(S)}
           a == x.node.addrs \cup S
           f == Fault("AddVIP", c)
           y == AddVIP(x, S)
<1>4. l \in [IPs -> RulesType \cup {NoRules}] BY RulesTypedHolds, Zenon DEF WellFormed, VType, IPs
<1>5. r \in SUBSET (RulesType \cup {NoRules}) /\ a \in SUBSET (IPs \X VIPTypes)
  BY RulesTypedHolds DEF NodeType, Ids, WellFormed, VType, IPs
<1>6. y = SetVIPs(x, l, r, a, f)
  BY Zenon DEF SetVIPs, AddVIP
<1>7. f \in SUBSET VIPFaults /\ (~c => f = {}) BY Zenon DEF Fault, VIPFaults
<1> HIDE DEF c, l, r, a, f, y
<1>8. /\ SameVserver(x, y) /\ SameActive(x, y) /\ SameIPVS(x, y)
      /\ y.lbVservers = l /\ y.node.rules = r /\ y.node.addrs = a
      /\ y.node.routes = x.node.routes
      /\ VIPCallsOK(x) /\ f = {} => VIPCallsOK(y)
  BY <1>4, <1>5, <1>6, <1>7, VIPFrame
<1> QED BY <1>7, <1>8, Zenon DEF c, l, r, a, y

(* unconfigureVIP's DeleteVIP and DeleteVserver, for the VIPs S.           *)
LEMMA DeleteVIPNodeHolds ==
    ASSUME NEW x, WellFormed(x), NEW S
    PROVE  LET y == DeleteVIP(x, S)
               kept == {x.lbVservers[ip] : ip \in Ids(S)} IN
           /\ SameVserver(x, y) /\ SameActive(x, y) /\ SameIPVS(x, y)
           /\ y.lbVservers = [ip \in IPs |-> IF ip \in Ids(S) THEN NoRules ELSE x.lbVservers[ip]]
           /\ y.node.rules = x.node.rules \ kept
           /\ y.node.addrs = x.node.addrs \ S /\ y.node.routes = x.node.routes
           /\ /\ VIPCallsOK(x) /\ S \subseteq x.node.addrs /\ kept \subseteq x.node.rules
              /\ \A s1, s2 \in S : s1[1] = s2[1] => s1 = s2
              => VIPCallsOK(y)
<1> DEFINE kept == {x.lbVservers[ip] : ip \in Ids(S)}
           c == \/ ~(S \subseteq x.node.addrs /\ kept \subseteq x.node.rules)
                \/ \E s1, s2 \in S : s1 # s2 /\ s1[1] = s2[1]
           l == [ip \in IPs |-> IF ip \in Ids(S) THEN NoRules ELSE x.lbVservers[ip]]
           r == x.node.rules \ kept
           a == x.node.addrs \ S
           f == Fault("DeleteVIP", c)
           y == DeleteVIP(x, S)
<1>1. x.node \in NodeType BY Zenon DEF WellFormed, VType
<1>2. l \in [IPs -> RulesType \cup {NoRules}] BY Zenon DEF WellFormed, VType
<1>3. r \in SUBSET (RulesType \cup {NoRules}) /\ a \in SUBSET (IPs \X VIPTypes)
  BY <1>1, Zenon DEF NodeType
<1>4. y = SetVIPs(x, l, r, a, f)
  BY <1>1, Zenon DEF SetVIPs, DeleteVIP, NodeType
<1>5. f \in SUBSET VIPFaults /\ (~c => f = {}) BY Zenon DEF Fault, VIPFaults
<1> HIDE DEF c, l, r, a, f, y
<1>6. /\ SameVserver(x, y) /\ SameActive(x, y) /\ SameIPVS(x, y)
      /\ y.lbVservers = l /\ y.node.rules = r /\ y.node.addrs = a
      /\ y.node.routes = x.node.routes
      /\ VIPCallsOK(x) /\ f = {} => VIPCallsOK(y)
  BY <1>2, <1>3, <1>4, <1>5, VIPFrame
<1> QED BY <1>5, <1>6, Zenon DEF c, l, r, a, y

(* A call on the routes leaves everything else alone. *)
LEMMA RoutesFrame ==
    ASSUME NEW x, WellFormed(x), NEW r \in SUBSET IPs, NEW y, y = SetRoutes(x, r)
    PROVE  /\ SameVserver(x, y) /\ SameActive(x, y) /\ SameIPVS(x, y)
           /\ y.lbVservers = x.lbVservers /\ y.node.rules = x.node.rules
           /\ y.node.addrs = x.node.addrs /\ y.node.fatal = x.node.fatal
           /\ y.node.routes = r
<1> DEFINE n == [x.node EXCEPT !.routes = r]
<1>1. x \in VType /\ x.node \in NodeType BY Zenon DEF WellFormed, VType
<1>2. /\ n \in NodeType /\ n.services = x.node.services /\ n.dests = x.node.dests
      /\ n.fatal = x.node.fatal /\ n.rules = x.node.rules /\ n.addrs = x.node.addrs
      /\ n.routes = r
  BY <1>1, Zenon DEF NodeType
<1>3. y = [x EXCEPT !.node = n] BY Zenon DEF SetRoutes
<1> HIDE DEF n
<1> QED BY <1>1, <1>2, <1>3, ZenonT(30) DEF SameIPVS, VType, SameVserver, SameActive

(* Advertising or withdrawing a VIP changes the routes when anycast is on. *)
LEMMA BGPNodeHolds ==
    ASSUME NEW x, WellFormed(x), NEW S \in SUBSET IPs
    PROVE  /\ \A y \in {BGPAdvertiseVIP(x, S), BGPWithdrawVIP(x, S)} :
                /\ SameVserver(x, y) /\ SameActive(x, y) /\ SameIPVS(x, y)
                /\ y.lbVservers = x.lbVservers /\ y.node.rules = x.node.rules
                /\ y.node.addrs = x.node.addrs /\ y.node.fatal = x.node.fatal
           /\ BGPAdvertiseVIP(x, S).node.routes =
                IF AnycastEnabled THEN x.node.routes \cup S ELSE x.node.routes
           /\ BGPWithdrawVIP(x, S).node.routes =
                IF AnycastEnabled THEN x.node.routes \ S ELSE x.node.routes
<1> DEFINE r1 == IF AnycastEnabled THEN x.node.routes \cup S ELSE x.node.routes
           r2 == IF AnycastEnabled THEN x.node.routes \ S ELSE x.node.routes
           p == BGPAdvertiseVIP(x, S)
           q == BGPWithdrawVIP(x, S)
<1>1. r1 \in SUBSET IPs /\ r2 \in SUBSET IPs BY Zenon DEF WellFormed, VType, NodeType
<1>2. p = SetRoutes(x, r1) /\ q = SetRoutes(x, r2)
  BY Zenon DEF BGPAdvertiseVIP, BGPWithdrawVIP, SetRoutes
<1> HIDE DEF r1, r2, p, q
<1>3. /\ \A y \in {p, q} :
           /\ SameVserver(x, y) /\ SameActive(x, y) /\ SameIPVS(x, y)
           /\ y.lbVservers = x.lbVservers /\ y.node.rules = x.node.rules
           /\ y.node.addrs = x.node.addrs /\ y.node.fatal = x.node.fatal
      /\ p.node.routes = r1 /\ q.node.routes = r2
  BY <1>1, <1>2, RoutesFrame
<1> QED BY <1>3, Zenon DEF p, q, r1, r2

(* Vservers with the same parts name the same IPVS entries.                *)
LEMMA SameNamesHolds ==
    ASSUME NEW x, NEW y, SameVserver(x, y)
    PROVE  /\ Services(y) = Services(x) /\ Destinations(y) = Destinations(x)
           /\ \A k : IpvsId(y, k) = IpvsId(x, k)
           /\ \A d : IpvsDestId(y, d) = IpvsDestId(x, d)
BY Zenon DEF SameVserver, Services, Destinations, IpvsId, IpvsDestId

(* The frames compose.                                                     *)
LEMMA SameTransitiveHolds ==
    ASSUME NEW x, NEW y, NEW z, SameVserver(x, y), SameVserver(y, z)
    PROVE  /\ SameVserver(x, z)
           /\ SameActive(x, y) /\ SameActive(y, z) => SameActive(x, z)
           /\ SameIPVS(x, y) /\ SameIPVS(y, z) => SameIPVS(x, z)
           /\ SameNet(x, y) /\ SameNet(y, z) => SameNet(x, z)
BY Zenon DEF SameVserver, SameActive, SameIPVS, SameNet

(* The type of a vserver survives a change of its active parts.            *)
LEMMA SameWellFormed ==
    ASSUME NEW x, NEW y, WellFormed(x), SameVserver(x, y),
           y.activeSvcs \subseteq Services(x), y.activeDests \subseteq Destinations(x)
    PROVE  WellFormed(y)
BY SameNamesHolds, Zenon DEF WellFormed, SameVserver

(* Setting destination.active changes only that.                           *)
LEMMA ActiveDestsFrame ==
    ASSUME NEW x, WellFormed(x), NEW D \in SUBSET Destinations(x)
    PROVE  LET y == [x EXCEPT !.activeDests = D] IN
           /\ WellFormed(y) /\ SameVserver(x, y) /\ y.node = x.node /\ SameNet(x, y)
           /\ y.active = x.active /\ y.activeSvcs = x.activeSvcs /\ y.activeDests = D
<1> DEFINE y == [x EXCEPT !.activeDests = D]
<1>2. /\ SameVserver(x, y) /\ y.node = x.node /\ y.lbVservers = x.lbVservers
      /\ y.active = x.active /\ y.activeSvcs = x.activeSvcs /\ y.activeDests = D
  BY Zenon DEF VType, SameVserver, WellFormed, Destinations
<1> HIDE DEF y
<1>3. WellFormed(y) BY <1>2, SameWellFormed, Zenon DEF WellFormed
<1> QED BY <1>2, <1>3, Zenon DEF SameNet, y

(* Setting service.active changes only that.                               *)
LEMMA ActiveSvcsFrame ==
    ASSUME NEW x, WellFormed(x), NEW K \in SUBSET Services(x)
    PROVE  LET y == [x EXCEPT !.activeSvcs = K] IN
           /\ WellFormed(y) /\ SameVserver(x, y) /\ y.node = x.node /\ SameNet(x, y)
           /\ y.active = x.active /\ y.activeSvcs = K /\ y.activeDests = x.activeDests
<1> DEFINE y == [x EXCEPT !.activeSvcs = K]
<1>1. x \in VType /\ K \in SUBSET Keys BY Zenon DEF WellFormed, Services
<1>2. /\ SameVserver(x, y) /\ y.node = x.node /\ y.lbVservers = x.lbVservers
      /\ y.active = x.active /\ y.activeSvcs = K /\ y.activeDests = x.activeDests
  BY <1>1, Zenon DEF VType, SameVserver
<1> HIDE DEF y
<1>3. WellFormed(y) BY <1>2, SameWellFormed, Zenon DEF WellFormed
<1> QED BY <1>2, <1>3, Zenon DEF SameNet, y

(* destination.down takes active destinations out of the table, and keeps  *)
(* the others installed.                                                   *)
LEMMA DestinationDownEffect ==
    ASSUME NEW x, WellFormed(x), NEW D \in SUBSET Destinations(x)
    PROVE  LET y == DestinationDown(x, D) IN
           /\ WellFormed(y) /\ SameVserver(x, y) /\ SameNet(x, y)
           /\ y.active = x.active /\ y.activeSvcs = x.activeSvcs
           /\ y.activeDests = x.activeDests \ D
           /\ y.node.services = x.node.services
           /\ InstalledDests(x) => InstalledDests(y)
           /\ ExactDests(x) /\ D \subseteq x.activeDests => ExactDests(y)
<1> DEFINE z == [x EXCEPT !.activeDests = @ \ D]
           y == DestinationDown(x, D)
           ids == {IpvsDestId(x, d) : d \in D}
<1>1. x.activeDests \ D \in SUBSET Destinations(x) BY Zenon DEF WellFormed
<1>2. /\ WellFormed(z) /\ SameVserver(x, z) /\ z.node = x.node /\ SameNet(x, z)
      /\ z.active = x.active /\ z.activeSvcs = x.activeSvcs
      /\ z.activeDests = x.activeDests \ D
  BY <1>1, ActiveDestsFrame, Zenon
<1>3. y = IPVSDeleteDestination(z, D) BY Zenon DEF DestinationDown
<1> HIDE DEF z, y
<1> HIDE DEF ids
<1>5. /\ SameVserver(z, y) /\ SameActive(z, y) /\ SameNet(z, y)
      /\ y.node.services = x.node.services
      /\ y.node.dests = {e \in x.node.dests : e[1] \notin ids}
      /\ IPVSCallsOK(x) /\ ids \subseteq Ids(x.node.dests) => IPVSCallsOK(y)
  BY <1>2, <1>3, SameNamesHolds, DeleteDestinationNode DEF IPVSCallsOK, ids
<1>6. SameVserver(x, y) /\ SameNet(x, y) BY <1>2, <1>5, SameTransitiveHolds, Zenon
<1>7. WellFormed(y) BY <1>1, <1>2, <1>5, <1>6, SameWellFormed, Zenon DEF SameActive, WellFormed
<1>8. /\ y.activeDests = x.activeDests \ D /\ y.healthyDests = x.healthyDests
      /\ y.backend = x.backend /\ \A d : IpvsDestId(y, d) = IpvsDestId(x, d)
  BY <1>2, <1>5, <1>6, SameNamesHolds, Zenon DEF SameActive, SameVserver
<1>9. \A d \in x.activeDests : d \in D <=> IpvsDestId(x, d) \in ids
  BY IdsDifferHolds, ZenonT(30) DEF ids, WellFormed, Destinations
<1>10. InstalledDests(x) => InstalledDests(y)
  BY <1>5, <1>8, <1>9, Zenon DEF InstalledDests
<1>11. ASSUME ExactDests(x), D \subseteq x.activeDests PROVE ExactDests(y)
  BY <1>5, <1>8, <1>9, <1>11 DEF ExactDests, ids, Ids
<1> QED BY <1>2, <1>5, <1>6, <1>7, <1>8, <1>10, <1>11, Zenon DEF SameActive, y

(* destination.up installs inactive destinations of active services.       *)
LEMMA DestinationUpEffectHolds ==
    ASSUME NEW x, WellFormed(x), NEW D \in SUBSET Destinations(x)
    PROVE  LET y == DestinationUp(x, D) IN
           /\ WellFormed(y) /\ SameVserver(x, y) /\ SameNet(x, y)
           /\ y.active = x.active /\ y.activeSvcs = x.activeSvcs
           /\ y.activeDests = x.activeDests \cup D
           /\ y.node.services = x.node.services
           /\ InstalledDests(x) => InstalledDests(y)
           /\ /\ InstalledSvcs(x) /\ ExactDests(x)
              /\ \A d \in D : d \notin x.activeDests /\ d[1] \in x.activeSvcs
              => ExactDests(y)
<1> DEFINE z == [x EXCEPT !.activeDests = @ \cup D]
           y == DestinationUp(x, D)
           ids == {IpvsDestId(x, d) : d \in D}
           new == {<<IpvsDestId(x, d), x.backend[d].weight>> : d \in D}
<1>1. x.activeDests \cup D \in SUBSET Destinations(x) BY Zenon DEF WellFormed
<1>2. /\ WellFormed(z) /\ SameVserver(x, z) /\ z.node = x.node /\ SameNet(x, z)
      /\ z.active = x.active /\ z.activeSvcs = x.activeSvcs
      /\ z.activeDests = x.activeDests \cup D
  BY <1>1, ActiveDestsFrame, Zenon
<1>3. y = IPVSAddDestination(z, D) BY Zenon DEF DestinationUp
<1> HIDE DEF z, y
<1>4. /\ Destinations(z) = Destinations(x)
      /\ {IpvsDestId(z, d) : d \in D} = ids
      /\ {<<IpvsDestId(z, d), z.backend[d].weight>> : d \in D} = new
  BY <1>2, SameNamesHolds DEF SameVserver
<1> HIDE DEF ids, new
<1>5. /\ SameVserver(z, y) /\ SameActive(z, y) /\ SameNet(z, y)
      /\ y.node.services = x.node.services
      /\ y.node.dests = x.node.dests \cup new
      /\ /\ IPVSCallsOK(z) /\ ids \cap Ids(x.node.dests) = {}
         /\ Ids(ids) \subseteq Ids(x.node.services)
         => IPVSCallsOK(y)
  <2>1. D \in SUBSET Destinations(z) BY <1>4, Zenon
  <2> QED BY <1>2, <1>3, <1>4, <2>1, AddDestinationNode, ZenonT(30)
<1>6. SameVserver(x, y) /\ SameNet(x, y) BY <1>2, <1>5, SameTransitiveHolds, Zenon
<1>7. WellFormed(y) BY <1>1, <1>2, <1>5, <1>6, SameWellFormed, Zenon DEF SameActive, WellFormed
<1>8. /\ y.activeDests = x.activeDests \cup D /\ y.healthyDests = x.healthyDests
      /\ y.backend = x.backend /\ \A d : IpvsDestId(y, d) = IpvsDestId(x, d)
  BY <1>2, <1>5, <1>6, SameNamesHolds, Zenon DEF SameActive, SameVserver
<1>9. InstalledDests(x) => InstalledDests(y)
  BY <1>5, <1>8 DEF InstalledDests, new
<1>10. ASSUME InstalledSvcs(x), ExactDests(x),
              \A d \in D : d \notin x.activeDests /\ d[1] \in x.activeSvcs
       PROVE  ExactDests(y)
  <2>1. ids \cap Ids(x.node.dests) = {}
    BY <1>10, IdsDifferHolds DEF ids, Ids, ExactDests, WellFormed, Destinations
  <2>2. Ids(ids) \subseteq Ids(x.node.services)
    <3>2. \A k \in x.activeSvcs : IpvsId(x, k) \in Ids(x.node.services)
      BY <1>10, IdsOfHolds, Zenon DEF InstalledSvcs
    <3> QED BY <1>10, <3>2, IdsDifferHolds DEF Ids, ids
  <2>5. \A d \in y.activeDests : IpvsDestId(y, d) \in Ids(y.node.dests)
    <3>1. \A d \in D : IpvsDestId(x, d) \in Ids(y.node.dests)
      <4>1. \A d \in D : <<IpvsDestId(x, d), x.backend[d].weight>> \in y.node.dests
        BY <1>5, Zenon DEF new
      <4> QED BY <4>1, IdsOfHolds, Zenon
    <3> QED BY <1>5, <1>8, <1>10, <3>1, IdsOfHolds DEF ExactDests
  <2>6. IPVSCallsOK(y) BY <1>2, <1>5, <1>10, <2>1, <2>2, Zenon DEF ExactDests, IPVSCallsOK
  <2> QED BY <1>5, <1>8, <1>10, <2>5, <2>6 DEF ExactDests, new
<1> QED BY <1>2, <1>5, <1>6, <1>7, <1>8, <1>9, <1>10, Zenon DEF SameActive, y

(* service.updateDests settles the destinations of the services K. *)
LEMMA UpdateDestsEffectHolds ==
    ASSUME NEW x, WellFormed(x), NEW K \in SUBSET Services(x)
    PROVE  LET y == UpdateDests(x, K) IN
           /\ WellFormed(y) /\ SameVserver(x, y) /\ SameNet(x, y)
           /\ y.active = x.active /\ y.activeSvcs = x.activeSvcs
           /\ \A d \in Destinations(x) : d \in y.activeDests <=>
                IF d[1] \in K THEN d[1] \in x.activeSvcs /\ d \in x.healthyDests
                              ELSE d \in x.activeDests
           /\ y.node.services = x.node.services
           /\ InstalledDests(x) => InstalledDests(y)
           /\ InstalledSvcs(x) /\ ExactDests(x) => ExactDests(y)
<1> DEFINE wanted == {d \in DestsOf(x, K) : d[1] \in x.activeSvcs /\ d \in x.healthyDests}
           down == (DestsOf(x, K) \cap x.activeDests) \ wanted
           up == wanted \ x.activeDests
           z == DestinationDown(x, down)
           y == UpdateDests(x, K)
<1>1. y = DestinationUp(z, up) BY Zenon DEF UpdateDests
<1>2. /\ down \in SUBSET Destinations(x) /\ up \in SUBSET Destinations(x)
      /\ down \subseteq x.activeDests
      /\ \A d \in up : d \notin x.activeDests /\ d[1] \in x.activeSvcs
  BY Zenon DEF DestsOf
<1>3. \A d \in Destinations(x) : d \in (x.activeDests \ down) \cup up <=>
                IF d[1] \in K THEN d[1] \in x.activeSvcs /\ d \in x.healthyDests
                              ELSE d \in x.activeDests
  BY Zenon DEF DestsOf
<1> HIDE DEF up, down, wanted, y
<1>4. /\ WellFormed(z) /\ SameVserver(x, z) /\ SameNet(x, z)
      /\ z.active = x.active /\ z.activeSvcs = x.activeSvcs
      /\ z.activeDests = x.activeDests \ down
      /\ z.node.services = x.node.services
      /\ InstalledDests(x) => InstalledDests(z)
      /\ ExactDests(x) => ExactDests(z)
  BY <1>2, DestinationDownEffect, Zenon
<1> HIDE DEF z
<1>5. Destinations(z) = Destinations(x) BY <1>4, SameNamesHolds, Zenon
<1>6. InstalledSvcs(x) => InstalledSvcs(z)
  BY <1>4, SameNamesHolds, Zenon DEF InstalledSvcs, SameVserver
<1>7. /\ WellFormed(y) /\ SameVserver(z, y) /\ SameNet(z, y)
      /\ y.active = z.active /\ y.activeSvcs = z.activeSvcs
      /\ y.activeDests = z.activeDests \cup up
      /\ y.node.services = z.node.services
      /\ InstalledDests(z) => InstalledDests(y)
      /\ InstalledSvcs(z) /\ ExactDests(z) => ExactDests(y)
  BY <1>1, <1>2, <1>4, <1>5, DestinationUpEffectHolds, Zenon
<1> QED BY <1>3, <1>4, <1>6, <1>7, SameTransitiveHolds, Zenon DEF y

(* service.up installs a service, then settles its destinations.           *)
LEMMA ServiceUpEffectHolds ==
    ASSUME NEW x, WellFormed(x), NEW K \in SUBSET Services(x)
    PROVE  LET y == ServiceUp(x, K) IN
           /\ WellFormed(y) /\ SameVserver(x, y) /\ SameNet(x, y)
           /\ y.active = x.active /\ y.activeSvcs = x.activeSvcs \cup K
           /\ \A d \in Destinations(x) : d \in y.activeDests <=>
                IF d[1] \in K THEN d \in x.healthyDests ELSE d \in x.activeDests
           /\ Installed(x) => Installed(y)
           /\ Installed(x) /\ Exact(x) /\ K \cap x.activeSvcs = {} => Exact(y)
<1> DEFINE a == [x EXCEPT !.activeSvcs = @ \cup K]
           z == IPVSAddService(a, K)
           y == ServiceUp(x, K)
           new == {<<IpvsId(x, k), x.svc[k].ventry.sched>> : k \in K}
           ids == {IpvsId(x, k) : k \in K}
<1>1. y = UpdateDests(z, K) BY Zenon DEF ServiceUp
<1>2. x.activeSvcs \cup K \in SUBSET Services(x) BY Zenon DEF WellFormed
<1>3. /\ WellFormed(a) /\ SameVserver(x, a) /\ a.node = x.node /\ SameNet(x, a)
      /\ a.active = x.active /\ a.activeSvcs = x.activeSvcs \cup K
      /\ a.activeDests = x.activeDests
  BY <1>2, ActiveSvcsFrame, Zenon
<1> HIDE DEF a, y
<1>4. /\ Services(a) = Services(x)
      /\ {<<IpvsId(a, k), a.svc[k].ventry.sched>> : k \in K} = new
      /\ {IpvsId(a, k) : k \in K} = ids
  BY <1>3, SameNamesHolds DEF SameVserver
<1> HIDE DEF new, ids
<1>5. /\ SameVserver(a, z) /\ SameActive(a, z) /\ SameNet(a, z)
      /\ z.node.dests = x.node.dests
      /\ z.node.services = x.node.services \cup new
      /\ IPVSCallsOK(x) /\ ids \cap Ids(x.node.services) = {} => IPVSCallsOK(z)
  BY <1>3, <1>4, AddServiceNode, SMTT(30) DEF IPVSCallsOK
<1> HIDE DEF z
<1>6. WellFormed(z) BY <1>3, <1>5, SameWellFormed, Zenon DEF WellFormed, SameActive
<1>7. SameVserver(x, z) /\ SameNet(x, z) BY <1>3, <1>5, SameTransitiveHolds, Zenon
<1>8. /\ Services(z) = Services(x) /\ Destinations(z) = Destinations(x)
      /\ \A k : IpvsId(z, k) = IpvsId(x, k)
      /\ \A d : IpvsDestId(z, d) = IpvsDestId(x, d)
      /\ z.svc = x.svc /\ z.backend = x.backend /\ z.healthyDests = x.healthyDests
      /\ z.active = x.active /\ z.activeSvcs = x.activeSvcs \cup K /\ z.activeDests = x.activeDests
  BY <1>3, <1>5, <1>7, SameNamesHolds, Zenon DEF SameVserver, SameActive
<1>9. /\ WellFormed(y) /\ SameVserver(z, y) /\ SameNet(z, y)
      /\ y.active = z.active /\ y.activeSvcs = z.activeSvcs
      /\ \A d \in Destinations(x) : d \in y.activeDests <=>
                IF d[1] \in K THEN d[1] \in z.activeSvcs /\ d \in z.healthyDests
                              ELSE d \in z.activeDests
      /\ y.node.services = z.node.services
      /\ InstalledDests(z) => InstalledDests(y)
      /\ InstalledSvcs(z) /\ ExactDests(z) => ExactDests(y)
  BY <1>1, <1>6, <1>8, UpdateDestsEffectHolds, Zenon
<1>10. SameVserver(x, y) /\ SameNet(x, y) BY <1>7, <1>9, SameTransitiveHolds, Zenon
<1>11. InstalledDests(x) => InstalledDests(z)
  BY <1>5, <1>8, Zenon DEF InstalledDests
<1>12. InstalledSvcs(x) => InstalledSvcs(z)
  BY <1>5, <1>8 DEF InstalledSvcs, new
<1>13. (InstalledSvcs(z) => InstalledSvcs(y)) /\ (ExactSvcs(z) => ExactSvcs(y))
  BY <1>9, SameNamesHolds DEF InstalledSvcs, ExactSvcs, SameVserver
<1>14. Installed(x) => Installed(y)
  BY <1>9, <1>11, <1>12, <1>13, Zenon DEF Installed, InstalledSvcs, InstalledDests
<1>15. ASSUME Installed(x), Exact(x), K \cap x.activeSvcs = {}
       PROVE  Exact(y)
  <2>2. ExactSvcs(z) BY <1>5, <1>8, <1>15, ZenonT(30) DEF Exact, ExactSvcs, new
  <2>3. ExactDests(z)
    BY <1>5, <1>8, <1>15, IdsDifferHolds DEF Exact, ExactDests, ExactSvcs, ids, Ids
  <2>4. InstalledSvcs(z) BY <1>12, <1>15, Zenon DEF Installed, InstalledSvcs
  <2> QED BY <1>9, <1>13, <2>2, <2>3, <2>4, Zenon DEF Exact
<1> QED BY <1>8, <1>9, <1>10, <1>14, <1>15, Zenon DEF y

(* service.down takes a service out with every destination under it.       *)
LEMMA ServiceDownEffectHolds ==
    ASSUME NEW x, WellFormed(x), NEW K \in SUBSET Services(x)
    PROVE  LET y == ServiceDown(x, K) IN
           /\ WellFormed(y) /\ SameVserver(x, y) /\ SameNet(x, y)
           /\ y.active = x.active /\ y.activeSvcs = x.activeSvcs \ K
           /\ \A d \in Destinations(x) : d \in y.activeDests <=>
                d[1] \notin K /\ d \in x.activeDests
           /\ Installed(x) => Installed(y)
           /\ Installed(x) /\ Exact(x) /\ K \subseteq x.activeSvcs => Exact(y)
<1> DEFINE a == [x EXCEPT !.activeSvcs = @ \ K]
           z == UpdateDests(a, K)
           y == ServiceDown(x, K)
           ids == {IpvsId(x, k) : k \in K}
<1>1. y = IPVSDeleteService(z, K) BY Zenon DEF ServiceDown
<1>2. x.activeSvcs \ K \in SUBSET Services(x) BY Zenon DEF WellFormed
<1>3. /\ WellFormed(a) /\ SameVserver(x, a) /\ a.node = x.node /\ SameNet(x, a)
      /\ a.active = x.active /\ a.activeSvcs = x.activeSvcs \ K
      /\ a.activeDests = x.activeDests
  BY <1>2, ActiveSvcsFrame, Zenon
<1> HIDE DEF a, y
<1>5. /\ WellFormed(z) /\ SameVserver(a, z) /\ SameNet(a, z)
      /\ z.active = a.active /\ z.activeSvcs = a.activeSvcs
      /\ \A d \in Destinations(x) : d \in z.activeDests <=>
                IF d[1] \in K THEN d[1] \in a.activeSvcs /\ d \in a.healthyDests
                              ELSE d \in a.activeDests
      /\ z.node.services = x.node.services
      /\ InstalledDests(a) => InstalledDests(z)
      /\ InstalledSvcs(a) /\ ExactDests(a) => ExactDests(z)
  BY <1>3, SameNamesHolds, UpdateDestsEffectHolds
<1> HIDE DEF z
<1>6. SameVserver(x, z) /\ SameNet(x, z) BY <1>3, <1>5, SameTransitiveHolds, Zenon
<1> HIDE DEF ids
<1>8. /\ SameVserver(z, y) /\ SameActive(z, y) /\ SameNet(z, y)
      /\ y.node.services = {e \in x.node.services : e[1] \notin ids}
      /\ y.node.dests = {e \in z.node.dests : e[1][1] \notin ids}
      /\ IPVSCallsOK(z) /\ ids \subseteq Ids(x.node.services) => IPVSCallsOK(y)
  BY <1>1, <1>5, <1>6, SameNamesHolds, DeleteServiceNode DEF ids
<1>9. SameVserver(x, y) /\ SameNet(x, y) BY <1>6, <1>8, SameTransitiveHolds, Zenon
<1>10. /\ y.active = x.active /\ y.activeSvcs = x.activeSvcs \ K
       /\ z.activeDests = y.activeDests
       /\ \A d \in Destinations(x) : d \in y.activeDests <=> d[1] \notin K /\ d \in x.activeDests
  BY <1>3, <1>5, <1>8, Zenon DEF SameActive
<1>11. WellFormed(y)
  BY <1>5, <1>8, SameNamesHolds, SameWellFormed, Zenon DEF SameActive, WellFormed
<1>12. /\ \A k : IpvsId(y, k) = IpvsId(x, k)
       /\ \A d : IpvsDestId(y, d) = IpvsDestId(z, d) /\ IpvsDestId(y, d)[1] = IpvsId(x, d[1])
       /\ y.svc = x.svc /\ y.backend = z.backend /\ y.healthyDests = z.healthyDests
  <2>1. /\ \A k : IpvsId(y, k) = IpvsId(x, k)
        /\ \A d : IpvsDestId(y, d) = IpvsDestId(z, d) /\ IpvsDestId(y, d) = IpvsDestId(x, d)
    BY <1>8, <1>9, SameNamesHolds, ZenonT(30)
  <2> QED BY <1>8, <1>9, <2>1, IdsDifferHolds DEF SameVserver
<1>13. \A k : IpvsId(x, k) \in ids <=> k \in K BY IdsDifferHolds, Zenon DEF ids
<1>14. InstalledSvcs(x) => InstalledSvcs(y) /\ InstalledSvcs(a)
  BY <1>3, <1>8, <1>10, <1>12, <1>13, SameNamesHolds, SMTT(30) DEF InstalledSvcs, SameVserver
<1>15. (InstalledDests(x) => InstalledDests(a)) /\ (ExactDests(x) => ExactDests(a))
  BY <1>3, SameNamesHolds, SMTT(30) DEF InstalledDests, ExactDests, IPVSCallsOK, SameVserver
<1>16. \A d \in y.activeDests : d[1] \notin K
  BY <1>9, <1>10, <1>11, SameNamesHolds, Zenon DEF WellFormed
<1>17. InstalledDests(z) => InstalledDests(y)
  BY <1>8, <1>10, <1>12, <1>13, <1>16, ZenonT(30) DEF InstalledDests
<1>18. Installed(x) => Installed(y)
  BY <1>5, <1>14, <1>15, <1>17, Zenon DEF Installed, InstalledSvcs, InstalledDests
<1>19. ASSUME Installed(x), Exact(x), K \subseteq x.activeSvcs
       PROVE  Exact(y)
  <2>1. ExactDests(z) BY <1>5, <1>14, <1>15, <1>19, Zenon DEF Exact, Installed, InstalledSvcs
  <2>2. ids \subseteq Ids(x.node.services)
    <3>1. \A k \in K : <<IpvsId(x, k), x.svc[k].ventry.sched>> \in x.node.services
      BY <1>19, Zenon DEF Installed
    <3>2. \A k \in K : IpvsId(x, k) \in Ids(x.node.services) BY <3>1, IdsOfHolds, Zenon
    <3> QED BY <3>2, Zenon DEF ids
  <2>4. \A e \in y.node.dests : \E d \in y.activeDests :
           e[1] = IpvsDestId(y, d) /\ (d \in y.healthyDests => e[2] = y.backend[d].weight)
    BY <1>8, <1>10, <1>12, <2>1, SMTT(30) DEF ExactDests
  <2>5. \A d \in y.activeDests : IpvsDestId(y, d) \in Ids(y.node.dests)
    BY <1>8, <1>10, <1>12, <1>13, <1>16, <2>1, SMTT(30) DEF ExactDests, Ids
  <2>6. ExactSvcs(y)
    BY <1>8, <1>10, <1>12, <1>13, <1>19, SMTT(30) DEF Exact, ExactSvcs
  <2> QED BY <1>8, <2>1, <2>2, <2>4, <2>5, <2>6, Zenon DEF Exact, ExactDests
<1> QED BY <1>9, <1>10, <1>11, <1>18, <1>19, Zenon DEF y

(* A vserver whose cascade holds is repairable, with nothing left to       *)
(* repair.                                                                 *)
LEMMA CascadeRepairableHolds ==
    ASSUME NEW x, Cascade(x), NEW S
    PROVE  Repairable(x, S)
BY Zenon DEF Cascade, Repairable

(* vserver.updateServices restores the cascade over the services of the    *)
(* VIPs S.                                                                 *)
LEMMA UpdateServicesEffectHolds ==
    ASSUME NEW x, WellFormed(x), NEW S, Repairable(x, S)
    PROVE  LET y == UpdateServices(x, S) IN
           /\ WellFormed(y) /\ SameVserver(x, y) /\ SameNet(x, y)
           /\ y.active = x.active /\ Cascade(y)
           /\ Installed(x) => Installed(y)
           /\ Installed(x) /\ Exact(x) => Exact(y)
<1> DEFINE wanted == {k \in ServicesOf(x, S) :
                         x.svc[k].vip \in x.active /\ k \in x.healthySvcs}
           down == (ServicesOf(x, S) \cap x.activeSvcs) \ wanted
           up == wanted \ x.activeSvcs
           z == ServiceDown(x, down)
           y == UpdateServices(x, S)
<1>1. y = ServiceUp(z, up) BY Zenon DEF UpdateServices
<1>2. /\ down \in SUBSET Services(x) /\ up \in SUBSET Services(x)
      /\ down \subseteq x.activeSvcs /\ up \cap (x.activeSvcs \ down) = {}
  BY Zenon DEF ServicesOf
<1>3. \A k \in Services(x) : k \in (x.activeSvcs \ down) \cup up <=>
         k \in x.healthySvcs /\ x.svc[k].vip \in x.active
  BY Zenon DEF ServicesOf, Repairable
<1>4. \A d \in Destinations(x) :
         IF d[1] \in up THEN d \in x.healthyDests <=> (d \in x.healthyDests /\ d[1] \in (x.activeSvcs \ down) \cup up)
         ELSE (d[1] \notin down /\ d \in x.activeDests) <=>
                 (d \in x.healthyDests /\ d[1] \in (x.activeSvcs \ down) \cup up)
  <2> SUFFICES ASSUME NEW d \in Destinations(x), d[1] \notin up
               PROVE  (d[1] \notin down /\ d \in x.activeDests) <=>
                        (d \in x.healthyDests /\ d[1] \in x.activeSvcs \ down)
    BY Zenon
  <2>1. CASE d \in x.activeDests <=> d \in x.healthyDests /\ d[1] \in x.activeSvcs
    BY <2>1, Zenon
  <2>2. CASE /\ x.svc[d[1]].vip \in S
             /\ d[1] \in x.activeSvcs /\ d[1] \notin x.healthySvcs
    <3>2. d[1] \in down BY <2>2, Zenon DEF ServicesOf, WellFormed
    <3> QED BY <3>2, Zenon
  <2> QED BY <2>1, <2>2, Zenon DEF Repairable
<1> HIDE DEF up, down, wanted, y
<1>5. /\ WellFormed(z) /\ SameVserver(x, z) /\ SameNet(x, z)
      /\ z.active = x.active /\ z.activeSvcs = x.activeSvcs \ down
      /\ \A d \in Destinations(x) : d \in z.activeDests <=>
             d[1] \notin down /\ d \in x.activeDests
      /\ Installed(x) => Installed(z)
      /\ Installed(x) /\ Exact(x) => Exact(z)
  BY <1>2, ServiceDownEffectHolds, Zenon
<1> HIDE DEF z
<1>7. /\ WellFormed(y) /\ SameVserver(z, y) /\ SameNet(z, y)
      /\ y.active = z.active /\ y.activeSvcs = z.activeSvcs \cup up
      /\ \A d \in Destinations(x) : d \in y.activeDests <=>
             IF d[1] \in up THEN d \in z.healthyDests ELSE d \in z.activeDests
      /\ Installed(z) => Installed(y)
      /\ Installed(z) /\ Exact(z) => Exact(y)
  BY <1>1, <1>2, <1>5, SameNamesHolds, ServiceUpEffectHolds
<1>8. SameVserver(x, y) /\ SameNet(x, y) BY <1>5, <1>7, SameTransitiveHolds, Zenon
<1>9. Services(y) = Services(x) /\ Destinations(y) = Destinations(x)
  BY <1>8, SameNamesHolds, Zenon
<1>10. \A k \in Services(y) :
         k \in y.activeSvcs <=> k \in y.healthySvcs /\ y.svc[k].vip \in y.active
  BY <1>3, <1>5, <1>7, <1>8, <1>9, ZenonT(30) DEF SameVserver
<1>11. \A d \in Destinations(y) :
         d \in y.activeDests <=> d \in y.healthyDests /\ d[1] \in y.activeSvcs
  BY <1>4, <1>5, <1>7, <1>8, <1>9, Zenon DEF SameVserver
<1>12. Cascade(y) BY <1>10, <1>11, Zenon DEF Cascade
<1> QED BY <1>5, <1>7, <1>8, <1>12, Zenon DEF y

(* The services in the IPVS table are judged by their names, schedulers    *)
(* and activity.                                                           *)
LEMMA SameServiceTable ==
    ASSUME NEW x, NEW y, \A k : IpvsId(y, k) = IpvsId(x, k), y.svc = x.svc,
           y.activeSvcs = x.activeSvcs, y.node.services = x.node.services
    PROVE  (InstalledSvcs(x) => InstalledSvcs(y)) /\ (ExactSvcs(x) => ExactSvcs(y))
<1>1. InstalledSvcs(x) => InstalledSvcs(y) BY Zenon DEF InstalledSvcs
<1>2. ASSUME ExactSvcs(x), NEW e \in y.node.services
      PROVE  \E k \in y.activeSvcs : e = <<IpvsId(y, k), y.svc[k].ventry.sched>>
  <2>1. PICK k \in x.activeSvcs : e = <<IpvsId(x, k), x.svc[k].ventry.sched>>
    BY <1>2, Zenon DEF ExactSvcs
  <2>2. <<IpvsId(y, k), y.svc[k].ventry.sched>> = <<IpvsId(x, k), x.svc[k].ventry.sched>> BY Zenon
  <2> QED BY <2>1, <2>2, Zenon
<1> QED BY <1>1, <1>2, Zenon DEF ExactSvcs

(* The destinations are judged by their names, weights and activity, and   *)
(* a weight matters only while the destination is healthy.                 *)
LEMMA SameDestTable ==
    ASSUME NEW x, NEW y, \A d : IpvsDestId(y, d) = IpvsDestId(x, d), y.backend = x.backend,
           y.activeDests = x.activeDests, y.node.dests = x.node.dests,
           y.node.fatal \cap IPVSFaults = x.node.fatal \cap IPVSFaults,
           \A d \in x.activeDests : d \in y.healthyDests => d \in x.healthyDests
    PROVE  (InstalledDests(x) => InstalledDests(y)) /\ (ExactDests(x) => ExactDests(y))
<1>0. ASSUME InstalledDests(x), NEW d \in y.activeDests \cap y.healthyDests
      PROVE  <<IpvsDestId(y, d), y.backend[d].weight>> \in y.node.dests
  <2>1. <<IpvsDestId(x, d), x.backend[d].weight>> \in x.node.dests
    BY <1>0, Zenon DEF InstalledDests
  <2>2. <<IpvsDestId(y, d), y.backend[d].weight>> = <<IpvsDestId(x, d), x.backend[d].weight>> BY Zenon
  <2> QED BY <2>1, <2>2, Zenon
<1>1. ASSUME ExactDests(x), NEW e \in y.node.dests
      PROVE  \E d \in y.activeDests :
               e[1] = IpvsDestId(y, d) /\ (d \in y.healthyDests => e[2] = y.backend[d].weight)
  <2>1. PICK d \in x.activeDests :
          e[1] = IpvsDestId(x, d) /\ (d \in x.healthyDests => e[2] = x.backend[d].weight)
    BY <1>1, Zenon DEF ExactDests
  <2> QED BY <2>1, Zenon
<1>2. ASSUME ExactDests(x), NEW d \in y.activeDests PROVE IpvsDestId(y, d) \in Ids(y.node.dests)
  <2>1. IpvsDestId(x, d) \in Ids(x.node.dests) BY <1>2, Zenon DEF ExactDests
  <2> QED BY <2>1, Zenon
<1>3. IPVSCallsOK(x) => IPVSCallsOK(y) BY Zenon DEF IPVSCallsOK
<1> QED BY <1>0, <1>1, <1>2, <1>3, Zenon DEF ExactDests, InstalledDests

(* Installed and Exact survive what leaves the IPVS table and the active   *)
(* parts alone.                                                            *)
LEMMA SameInstalledHolds ==
    ASSUME NEW x, NEW y, SameVserver(x, y), SameIPVS(x, y),
           y.activeSvcs = x.activeSvcs, y.activeDests = x.activeDests
    PROVE  (Installed(y) <=> Installed(x)) /\ (Exact(y) <=> Exact(x))
<1>1. /\ \A k : IpvsId(y, k) = IpvsId(x, k)
      /\ \A d : IpvsDestId(y, d) = IpvsDestId(x, d)
      /\ y.svc = x.svc /\ y.backend = x.backend /\ y.healthyDests = x.healthyDests
  BY SameNamesHolds, Zenon DEF SameVserver
<1>3. ExactSvcs(y) <=> ExactSvcs(x) BY <1>1, SameServiceTable, Zenon DEF SameIPVS
<1>4. ExactDests(y) <=> ExactDests(x) BY <1>1, SameDestTable, Zenon DEF SameIPVS
<1> QED BY <1>1, <1>3, <1>4, Zenon DEF Exact, Installed, SameIPVS

(* So does Repairable.                                                     *)
LEMMA SameRepairableHolds ==
    ASSUME NEW x, NEW y, NEW S, SameVserver(x, y), Repairable(x, S),
           y.activeSvcs = x.activeSvcs, y.activeDests = x.activeDests,
           \A ip : ip \notin S => (ip \in y.active <=> ip \in x.active)
    PROVE  Repairable(y, S)
BY SameNamesHolds, Zenon DEF Repairable, SameVserver

(* Setting vserver.active changes only that.                               *)
LEMMA ActiveFrameHolds ==
    ASSUME NEW x, WellFormed(x), NEW A \in SUBSET IPs
    PROVE  LET y == [x EXCEPT !.active = A] IN
           /\ WellFormed(y) /\ SameVserver(x, y) /\ SameIPVS(x, y) /\ SameNet(x, y)
           /\ y.active = A /\ y.activeSvcs = x.activeSvcs /\ y.activeDests = x.activeDests
<1> DEFINE y == [x EXCEPT !.active = A]
<1>2. /\ SameVserver(x, y) /\ y.node = x.node /\ y.lbVservers = x.lbVservers /\ y.active = A
      /\ y.activeSvcs = x.activeSvcs /\ y.activeDests = x.activeDests
  BY Zenon DEF VType, SameVserver, WellFormed
<1> HIDE DEF y
<1>3. WellFormed(y) BY <1>2, SameWellFormed, Zenon DEF WellFormed
<1> QED BY <1>2, <1>3, Zenon DEF SameIPVS, SameNet, y

(* The type of a vserver survives a change of the node's tables.           *)
LEMMA SameActiveWellFormedHolds ==
    ASSUME NEW x, NEW y, WellFormed(x), SameVserver(x, y), SameActive(x, y)
    PROVE  WellFormed(y)
BY SameWellFormed, Zenon DEF WellFormed, SameActive

-----------------------------------------------------------------------------
(* The snapshot sent with AddVserver is a set of iptables rules.           *)
RulesTyped ==
    \A c \in Configs : \A fwm : \A af \in AFs :
           Rules(c, fwm, af) \in RulesType /\ Rules(c, fwm, af).ip = IPOf(c, af)

(* Advertising or withdrawing a VIP changes the routes when anycast is on. *)
BGPNode ==
    \A x : \A S \in SUBSET IPs :
        WellFormed(x) =>
           /\ \A y \in {BGPAdvertiseVIP(x, S), BGPWithdrawVIP(x, S)} :
                /\ SameVserver(x, y) /\ SameActive(x, y) /\ SameIPVS(x, y)
                /\ y.lbVservers = x.lbVservers /\ y.node.rules = x.node.rules
                /\ y.node.addrs = x.node.addrs /\ y.node.fatal = x.node.fatal
           /\ BGPAdvertiseVIP(x, S).node.routes =
                IF AnycastEnabled THEN x.node.routes \cup S ELSE x.node.routes
           /\ BGPWithdrawVIP(x, S).node.routes =
                IF AnycastEnabled THEN x.node.routes \ S ELSE x.node.routes

(* destination.up installs inactive destinations of active services.       *)
DestinationUpEffect ==
    \A x : \A D \in SUBSET Destinations(x) :
        WellFormed(x) =>
           LET y == DestinationUp(x, D) IN
           /\ WellFormed(y) /\ SameVserver(x, y) /\ SameNet(x, y)
           /\ y.active = x.active /\ y.activeSvcs = x.activeSvcs
           /\ y.activeDests = x.activeDests \cup D
           /\ y.node.services = x.node.services
           /\ InstalledDests(x) => InstalledDests(y)
           /\ /\ InstalledSvcs(x) /\ ExactDests(x)
              /\ \A d \in D : d \notin x.activeDests /\ d[1] \in x.activeSvcs
              => ExactDests(y)

(* service.updateDests settles the destinations of the services K. *)
UpdateDestsEffect ==
    \A x : \A K \in SUBSET Services(x) :
        WellFormed(x) =>
           LET y == UpdateDests(x, K) IN
           /\ WellFormed(y) /\ SameVserver(x, y) /\ SameNet(x, y)
           /\ y.active = x.active /\ y.activeSvcs = x.activeSvcs
           /\ \A d \in Destinations(x) : d \in y.activeDests <=>
                IF d[1] \in K THEN d[1] \in x.activeSvcs /\ d \in x.healthyDests
                              ELSE d \in x.activeDests
           /\ y.node.services = x.node.services
           /\ InstalledDests(x) => InstalledDests(y)
           /\ InstalledSvcs(x) /\ ExactDests(x) => ExactDests(y)

(* service.up installs a service, then settles its destinations.           *)
ServiceUpEffect ==
    \A x : \A K \in SUBSET Services(x) :
        WellFormed(x) =>
           LET y == ServiceUp(x, K) IN
           /\ WellFormed(y) /\ SameVserver(x, y) /\ SameNet(x, y)
           /\ y.active = x.active /\ y.activeSvcs = x.activeSvcs \cup K
           /\ \A d \in Destinations(x) : d \in y.activeDests <=>
                IF d[1] \in K THEN d \in x.healthyDests ELSE d \in x.activeDests
           /\ Installed(x) => Installed(y)
           /\ Installed(x) /\ Exact(x) /\ K \cap x.activeSvcs = {} => Exact(y)

(* vserver.updateServices restores the cascade over the services of the    *)
(* VIPs S.                                                                 *)
UpdateServicesEffect ==
    \A x, S :
        WellFormed(x) /\ Repairable(x, S) =>
           LET y == UpdateServices(x, S) IN
           /\ WellFormed(y) /\ SameVserver(x, y) /\ SameNet(x, y)
           /\ y.active = x.active /\ Cascade(y)
           /\ Installed(x) => Installed(y)
           /\ Installed(x) /\ Exact(x) => Exact(y)

(* Installed and Exact survive what leaves the IPVS table and the active   *)
(* parts alone.                                                            *)
SameInstalled ==
    \A x, y :
        SameVserver(x, y) /\ SameIPVS(x, y) /\ y.activeSvcs = x.activeSvcs /\
        y.activeDests = x.activeDests =>
           ((Installed(y) <=> Installed(x)) /\ (Exact(y) <=> Exact(x)))

(* So does Repairable.                                                     *)
SameRepairable ==
    \A x, y, S :
        SameVserver(x, y) /\ Repairable(x, S) /\ y.activeSvcs = x.activeSvcs /\
        y.activeDests = x.activeDests /\
        (\A ip : ip \notin S => (ip \in y.active <=> ip \in x.active)) =>
           Repairable(y, S)

(* Setting vserver.active changes only that.                               *)
ActiveFrame ==
    \A x : \A A \in SUBSET IPs :
        WellFormed(x) =>
           LET y == [x EXCEPT !.active = A] IN
           /\ WellFormed(y) /\ SameVserver(x, y) /\ SameIPVS(x, y) /\ SameNet(x, y)
           /\ y.active = A /\ y.activeSvcs = x.activeSvcs /\ y.activeDests = x.activeDests

(* Being guarded is about the addresses, the rules and the snapshots, and  *)
(* the calls on them.                                                      *)
LEMMA SameGuardedHolds ==
    ASSUME NEW x, NEW y, Guarded(x), y.lbVservers = x.lbVservers,
           y.node.addrs = x.node.addrs, y.node.rules = x.node.rules,
           y.node.fatal \cap VIPFaults = x.node.fatal \cap VIPFaults
    PROVE  Guarded(y)
<1>1. y.node.rules = RulesOf(y.lbVservers, Ids(y.node.addrs)) BY Zenon DEF Guarded
<1> QED BY <1>1, Zenon DEF Guarded, VIPCallsOK

(* Deleting configured addresses keeps the others guarded.                 *)
LEMMA DeleteVIPGuardedHolds ==
    ASSUME IdsOf, DeleteVIPNode,
           NEW x, WellFormed(x), Guarded(x), NEW S \in SUBSET x.node.addrs
    PROVE  Guarded(DeleteVIP(x, S))
<1> DEFINE y == DeleteVIP(x, S)
           kept == {x.lbVservers[ip] : ip \in Ids(S)}
<1>1. x.node.addrs \in SUBSET (IPs \X VIPTypes) BY Zenon DEF WellFormed, VType, NodeType
<1>2. Ids(S) \subseteq Ids(x.node.addrs) /\ Ids(x.node.addrs) \subseteq IPs
  BY <1>1, Zenon DEF Ids
<1>3. kept \subseteq x.node.rules BY <1>2, Zenon DEF Guarded, RulesOf
<1>4. \A s1, s2 \in S : s1[1] = s2[1] => s1 = s2 BY Zenon DEF Guarded
<1>5. /\ y.lbVservers = [ip \in IPs |-> IF ip \in Ids(S) THEN NoRules ELSE x.lbVservers[ip]]
      /\ y.node.rules = x.node.rules \ kept /\ y.node.addrs = x.node.addrs \ S
      /\ VIPCallsOK(x) /\ S \subseteq x.node.addrs /\ kept \subseteq x.node.rules => VIPCallsOK(y)
  BY <1>4 DEF DeleteVIPNode
<1> HIDE DEF y
<1>6. Ids(y.node.addrs) = Ids(x.node.addrs) \ Ids(S)
  <2>1. \A e \in y.node.addrs : e[1] \in Ids(x.node.addrs) \ Ids(S)
    BY <1>5 DEF IdsOf, Guarded
  <2>2. \A i \in Ids(x.node.addrs) \ Ids(S) : i \in Ids(y.node.addrs)
    BY <1>5 DEF IdsOf
  <2> QED BY <2>1, <2>2 DEF IdsOf
<1>7. \A ip \in Ids(y.node.addrs) : y.lbVservers[ip] = x.lbVservers[ip]
  BY <1>2, <1>5, <1>6, Zenon
<1>8. y.node.rules = RulesOf(y.lbVservers, Ids(y.node.addrs))
  <2>1. \A i \in Ids(x.node.addrs) : x.lbVservers[i] \in kept => i \in Ids(S)
    BY <1>2 DEF Guarded
  <2>2. \A r \in x.node.rules : \E ip \in Ids(x.node.addrs) : r = x.lbVservers[ip]
    BY Zenon DEF Guarded, RulesOf
  <2>3. \A ip \in Ids(S) : x.lbVservers[ip] \in kept BY Zenon
  <2>4. \A r \in y.node.rules : \E ip \in Ids(y.node.addrs) : r = y.lbVservers[ip]
    <3> HIDE DEF kept
    <3> TAKE r \in y.node.rules
    <3>1. r \in x.node.rules /\ r \notin kept BY <1>5, Zenon
    <3>2. PICK ip \in Ids(x.node.addrs) : r = x.lbVservers[ip] BY <2>2, <3>1, Zenon
    <3>3. ip \in Ids(y.node.addrs) BY <1>6, <2>3, <3>1, <3>2, Zenon
    <3> QED BY <1>7, <3>2, <3>3, Zenon
  <2>5. \A ip \in Ids(x.node.addrs) : x.lbVservers[ip] \in x.node.rules
    BY Zenon DEF Guarded, RulesOf
  <2>6. \A ip \in Ids(y.node.addrs) : y.lbVservers[ip] \in y.node.rules
    <3> HIDE DEF kept
    <3> QED BY <1>5, <1>6, <1>7, <2>1, <2>5, Zenon
  <2> QED BY <2>4, <2>6, Zenon DEF RulesOf
<1> QED BY <1>3, <1>5, <1>6, <1>7, <1>8, Zenon DEF Guarded, y

(* Adding addresses of the configuration, not configured before, keeps     *)
(* every address guarded.                                                  *)
LEMMA AddVIPGuardedHolds ==
    ASSUME IdsOf, RulesTyped, AddVIPNode,
           NEW x, WellFormed(x), x.config # Nil, Guarded(x),
           NEW S \in SUBSET (IPs \X VIPTypes), Ids(S) \cap Ids(x.node.addrs) = {},
           \A s, t \in S : s[1] = t[1] => s = t,
           \A ip \in Ids(S) : ip = IPOf(x.config, ip[1])
    PROVE  Guarded(AddVIP(x, S))
<1> DEFINE y == AddVIP(x, S)
           snapshot(ip) == Rules(x.config, x.fwm, ip[1])
<1>1. /\ x.node.addrs \in SUBSET (IPs \X VIPTypes) /\ x.config \in Configs
  BY Zenon DEF WellFormed, VType, NodeType
<1>2. Ids(S) \subseteq IPs /\ Ids(x.node.addrs) \subseteq IPs BY <1>1 DEF Ids
<1>3. S \cap x.node.addrs = {} BY ZenonT(30) DEF IdsOf
<1>4. \A ip \in Ids(S) : snapshot(ip).ip = ip
  BY <1>1, <1>2, Zenon DEF RulesTyped, IPs
<1> HIDE DEF snapshot
<1>5. /\ y.lbVservers = [ip \in IPs |-> IF ip \in Ids(S) THEN snapshot(ip) ELSE x.lbVservers[ip]]
      /\ y.node.rules = x.node.rules \cup {snapshot(ip) : ip \in Ids(S)}
      /\ y.node.addrs = x.node.addrs \cup S
      /\ VIPCallsOK(x) /\ S \cap x.node.addrs = {} => VIPCallsOK(y)
  BY DEF AddVIPNode, snapshot
<1> HIDE DEF y
<1>6. Ids(y.node.addrs) = Ids(x.node.addrs) \cup Ids(S) BY <1>5 DEF Ids
<1>7. /\ \A ip \in Ids(S) : y.lbVservers[ip] = snapshot(ip)
      /\ \A ip \in Ids(x.node.addrs) : y.lbVservers[ip] = x.lbVservers[ip]
  BY <1>2, <1>5, Zenon
<1>8. y.node.rules = RulesOf(y.lbVservers, Ids(y.node.addrs))
  <2>1. x.node.rules = RulesOf(x.lbVservers, Ids(x.node.addrs)) BY Zenon DEF Guarded
  <2>2. \A r : r \in y.node.rules <=>
            r \in RulesOf(x.lbVservers, Ids(x.node.addrs)) \/ \E ip \in Ids(S) : r = snapshot(ip)
    BY <1>5, <2>1, Zenon
  <2>3. \A r : r \in RulesOf(y.lbVservers, Ids(y.node.addrs)) <=>
            \E ip \in Ids(x.node.addrs) \cup Ids(S) : r = y.lbVservers[ip]
    BY <1>6, Zenon DEF RulesOf
  <2>4. \A r : r \in RulesOf(x.lbVservers, Ids(x.node.addrs)) <=>
            \E ip \in Ids(x.node.addrs) : r = x.lbVservers[ip]
    BY Zenon DEF RulesOf
  <2>5. ASSUME NEW r PROVE r \in y.node.rules <=> r \in RulesOf(y.lbVservers, Ids(y.node.addrs))
    <3>1. r \in RulesOf(y.lbVservers, Ids(y.node.addrs)) <=>
            \/ \E ip \in Ids(x.node.addrs) : r = y.lbVservers[ip]
            \/ \E ip \in Ids(S) : r = y.lbVservers[ip]
      BY <2>3, Zenon
    <3> QED BY <1>7, <2>2, <2>4, <3>1
  <2>6. y.node.rules \subseteq RulesOf(y.lbVservers, Ids(y.node.addrs)) BY <2>5, Zenon
  <2>7. RulesOf(y.lbVservers, Ids(y.node.addrs)) \subseteq y.node.rules BY <2>5, Zenon
  <2> QED BY <2>6, <2>7, Zenon
<1>9. \A ip \in Ids(y.node.addrs) : y.lbVservers[ip].ip = ip
  BY <1>4, <1>6, <1>7, Zenon DEF Guarded
<1>10. \A s, t \in y.node.addrs : s[1] = t[1] => s = t
  BY <1>5 DEF IdsOf, Guarded
<1> QED BY <1>3, <1>5, <1>8, <1>9, <1>10, Zenon DEF Guarded, y

(* Announced is about the addresses, the routes, the VIPs held and the     *)
(* VIPs that are up.                                                       *)
LEMMA SameAnnouncedHolds ==
    ASSUME NEW x, NEW y, SameNet(x, y), y.vips = x.vips, y.active = x.active
    PROVE  Announced(x) => Announced(y)
<1>1. Guarded(x) => Guarded(y) BY SameGuardedHolds, Zenon DEF SameNet
<1> QED BY <1>1, Zenon DEF Announced, SameNet

(* The addresses of anycast VIPs are addresses.                            *)
LEMMA AnycastVIPsType ==
    ASSUME IdsOf,
           NEW S
    PROVE  /\ AnycastVIPs(S) \in SUBSET (IPs \X VIPTypes) /\ S \cap Anycast \in SUBSET IPs
           /\ Ids(AnycastVIPs(S)) = S \cap Anycast
           /\ \A s, t \in AnycastVIPs(S) : s[1] = t[1] => s = t
<1>1. \A s \in AnycastVIPs(S) : s[1] \in S \cap Anycast /\ s = <<s[1], "Anycast">>
  BY DEF AnycastVIPs
<1>2. \A ip \in S \cap Anycast : <<ip, "Anycast">> \in AnycastVIPs(S) BY Zenon DEF AnycastVIPs
<1>3. \A i \in Ids(AnycastVIPs(S)) : i \in S \cap Anycast BY <1>1 DEF IdsOf
<1>4. \A ip \in S \cap Anycast : ip \in Ids(AnycastVIPs(S)) BY <1>2, Zenon DEF IdsOf
<1>5. Ids(AnycastVIPs(S)) = S \cap Anycast BY <1>3, <1>4, Zenon
<1>6. AnycastVIPs(S) \in SUBSET (IPs \X VIPTypes) BY ConstantsAssumption DEF AnycastVIPs, VIPTypes
<1> QED BY <1>1, <1>5, <1>6, ConstantsAssumption, Zenon

(* vserver.down withdraws a VIP and takes its services down.               *)
LEMMA VserverDownEffectHolds ==
    ASSUME IdsOf, DeleteVIPNode, BGPNode, SameTransitive, UpdateServicesEffect,
           SameInstalled, SameRepairable, ActiveFrame, SameActiveWellFormed,
           NEW x, WellFormed(x), NEW S, Repairable(x, S)
    PROVE  LET y == VserverDown(x, S) IN
           /\ WellFormed(y) /\ SameVserver(x, y) /\ y.active = x.active \ S
           /\ Cascade(y)
           /\ Installed(x) => Installed(y)
           /\ Installed(x) /\ Exact(x) => Exact(y)
           /\ Announced(x) /\ S \subseteq x.active => Announced(y)
<1> DEFINE T == AnycastVIPs(S)
           a == BGPWithdrawVIP(x, S \cap Anycast)
           b == DeleteVIP(a, T)
           c == [b EXCEPT !.active = @ \ S]
           y == VserverDown(x, S)
<1>1. y = UpdateServices(c, S) BY Zenon DEF VserverDown
<1>2. /\ SameVserver(x, a) /\ SameActive(x, a) /\ SameIPVS(x, a)
      /\ a.lbVservers = x.lbVservers /\ a.node.rules = x.node.rules
      /\ a.node.addrs = x.node.addrs /\ a.node.fatal = x.node.fatal
      /\ a.node.routes = IF AnycastEnabled THEN x.node.routes \ (S \cap Anycast) ELSE x.node.routes
  BY AnycastVIPsType, Zenon DEF BGPNode
<1> HIDE DEF a
<1>3. WellFormed(a) BY <1>2, Zenon DEF SameActiveWellFormed
<1>4. /\ SameVserver(a, b) /\ SameActive(a, b) /\ SameIPVS(a, b)
      /\ b.node.addrs = x.node.addrs \ T /\ b.node.routes = a.node.routes
  <2> HIDE DEF T
  <2>1. /\ SameVserver(a, b) /\ SameActive(a, b) /\ SameIPVS(a, b)
        /\ b.node.addrs = a.node.addrs \ T /\ b.node.routes = a.node.routes
    BY <1>3, Zenon DEF DeleteVIPNode
  <2> QED BY <1>2, <2>1, Zenon
<1>5. ASSUME Announced(x), S \subseteq x.active PROVE Guarded(b)
  <2>1. Guarded(a) BY <1>2, <1>5, SameGuardedHolds, Zenon DEF Announced
  <2>2. T \subseteq a.node.addrs BY <1>2, <1>5, Zenon DEF Announced, AnycastVIPs
  <2> QED BY <1>3, <2>1, <2>2, DeleteVIPGuardedHolds, Zenon
<1> HIDE DEF b, y
<1>6. SameVserver(x, b) /\ SameActive(x, b) /\ SameIPVS(x, b) /\ WellFormed(b)
  BY <1>2, <1>3, <1>4, Zenon DEF SameTransitive, SameActiveWellFormed
<1>7. b.active \ S \in SUBSET IPs BY <1>6, Zenon DEF WellFormed, VType
<1>8. /\ WellFormed(c) /\ SameVserver(b, c) /\ SameIPVS(b, c) /\ SameNet(b, c)
      /\ c.active = b.active \ S
      /\ c.activeSvcs = b.activeSvcs /\ c.activeDests = b.activeDests
  BY <1>6, <1>7, Zenon DEF ActiveFrame
<1> HIDE DEF c
<1>9. SameVserver(x, c) /\ SameIPVS(x, c) BY <1>6, <1>8, Zenon DEF SameTransitive
<1>10. /\ c.activeSvcs = x.activeSvcs /\ c.activeDests = x.activeDests
       /\ c.active = x.active \ S
  BY <1>6, <1>8, Zenon DEF SameActive
<1>11. Repairable(c, S) BY <1>9, <1>10, Zenon DEF SameRepairable
<1>12. (Installed(c) <=> Installed(x)) /\ (Exact(c) <=> Exact(x))
  BY <1>9, <1>10, Zenon DEF SameInstalled
<1>13. ASSUME Announced(x), S \subseteq x.active PROVE Announced(c)
  <2>1. Guarded(c) BY <1>5, <1>8, <1>13, SameGuardedHolds, Zenon DEF SameNet
  <2>2. c.node.routes = IF AnycastEnabled THEN c.active \cap Anycast ELSE {}
    BY <1>2, <1>4, <1>8, <1>10, <1>13, Zenon DEF Announced, SameNet
  <2>3. /\ c.vips = x.vips /\ \A vip \in c.vips : vip[1] \notin Anycast
    BY <1>9, <1>13, Zenon DEF SameVserver, Announced
  <2>4. c.node.addrs = c.vips \cup AnycastVIPs(c.active)
    <3>1. AnycastVIPs(c.active) = AnycastVIPs(x.active) \ T
      BY <1>10 DEF AnycastVIPs
    <3>2. c.vips \cap T = {} BY <2>3 DEF AnycastVIPs
    <3>3. c.node.addrs = x.node.addrs \ T BY <1>4, <1>8, Zenon DEF SameNet
    <3> QED BY <1>13, <2>3, <3>1, <3>2, <3>3, Zenon DEF Announced
  <2> QED BY <2>1, <2>2, <2>3, <2>4, Zenon DEF Announced
<1>14. /\ WellFormed(y) /\ SameVserver(c, y) /\ SameNet(c, y) /\ y.active = c.active
       /\ Cascade(y) /\ (Installed(c) => Installed(y))
       /\ Installed(c) /\ Exact(c) => Exact(y)
  BY <1>1, <1>8, <1>11, Zenon DEF UpdateServicesEffect
<1>15. SameVserver(x, y) BY <1>9, <1>14, Zenon DEF SameTransitive
<1>16. Announced(c) => Announced(y) BY <1>14, SameAnnouncedHolds, Zenon DEF SameVserver
<1> QED BY <1>10, <1>12, <1>13, <1>14, <1>15, <1>16, Zenon DEF y

(* vserver.up brings the services of a VIP up and advertises it.           *)
LEMMA VserverUpEffect ==
    ASSUME IdsOf, RulesTyped, AddVIPNode, BGPNode, SameNames, SameTransitive,
           UpdateServicesEffect, SameInstalled, SameRepairable, ActiveFrame,
           SameActiveWellFormed,
           NEW x, WellFormed(x), x.config # Nil, NEW ip \in IPs, Repairable(x, {ip})
    PROVE  LET y == VserverUp(x, ip) IN
           /\ WellFormed(y) /\ SameVserver(x, y) /\ y.active = x.active \cup {ip}
           /\ Cascade(y)
           /\ Installed(x) => Installed(y)
           /\ Installed(x) /\ Exact(x) => Exact(y)
           /\ Announced(x) /\ ip \notin x.active /\ ip = IPOf(x.config, ip[1]) => Announced(y)
<1> DEFINE T == AnycastVIPs({ip})
           a == [x EXCEPT !.active = @ \cup {ip}]
           b == UpdateServices(a, {ip})
           c == AddVIP(b, T)
           d == BGPAdvertiseVIP(c, {ip})
           y == VserverUp(x, ip)
<1>1. y = IF ip \in Anycast THEN d ELSE b BY Zenon DEF VserverUp
<1>2. x.active \cup {ip} \in SUBSET IPs BY Zenon DEF WellFormed, VType
<1>3. /\ WellFormed(a) /\ SameVserver(x, a) /\ SameIPVS(x, a) /\ SameNet(x, a)
      /\ a.active = x.active \cup {ip}
      /\ a.activeSvcs = x.activeSvcs /\ a.activeDests = x.activeDests
  BY <1>2, Zenon DEF ActiveFrame
<1> HIDE DEF a
<1>4. Repairable(a, {ip}) BY <1>3, Zenon DEF SameRepairable
<1>5. (Installed(a) <=> Installed(x)) /\ (Exact(a) <=> Exact(x)) BY <1>3, Zenon DEF SameInstalled
<1>6. /\ WellFormed(b) /\ SameVserver(a, b) /\ SameNet(a, b) /\ b.active = a.active
      /\ Cascade(b) /\ (Installed(a) => Installed(b))
      /\ Installed(a) /\ Exact(a) => Exact(b)
  BY <1>3, <1>4, Zenon DEF UpdateServicesEffect
<1>7. SameVserver(x, b) /\ SameNet(x, b) BY <1>3, <1>6, Zenon DEF SameTransitive
<1> HIDE DEF b, y
<1>8. b.config # Nil /\ b.config = x.config /\ b.vips = x.vips /\ b.active = x.active \cup {ip}
  BY <1>3, <1>6, <1>7, Zenon DEF SameVserver
<1>9. /\ SameVserver(b, c) /\ SameActive(b, c) /\ SameIPVS(b, c)
      /\ c.node.addrs = b.node.addrs \cup T /\ c.node.routes = b.node.routes
  <2>1. T \in SUBSET (IPs \X VIPTypes) BY AnycastVIPsType, Zenon
  <2> HIDE DEF T
  <2> QED BY <1>6, <1>8, <2>1, Zenon DEF AddVIPNode
<1>10. WellFormed(c) BY <1>6, <1>9, Zenon DEF SameActiveWellFormed
<1>11. ASSUME Announced(x), ip \notin x.active, ip = IPOf(x.config, ip[1]) PROVE Guarded(c)
  <2>1. Guarded(b) BY <1>7, <1>11, SameGuardedHolds, Zenon DEF Announced, SameNet
  <2>2. Ids(T) \subseteq {ip} /\ Ids(T) \subseteq Anycast BY AnycastVIPsType
  <2>3. ip \in Anycast => ip \notin Ids(x.node.addrs)
    <3>1. Ids(AnycastVIPs(x.active)) = x.active \cap Anycast BY AnycastVIPsType, Zenon
    <3>2. \A e \in x.node.addrs : e \in x.vips \/ e[1] \in Ids(AnycastVIPs(x.active))
      BY <1>11, Zenon DEF IdsOf, Announced
    <3> QED BY <1>11, <3>1, <3>2 DEF IdsOf, Announced
  <2>4. Ids(T) \cap Ids(b.node.addrs) = {} BY <1>7, <2>2, <2>3, Zenon DEF SameNet
  <2>5. \A i \in Ids(T) : i = IPOf(b.config, i[1]) BY <1>8, <1>11, <2>2, Zenon
  <2> QED BY <1>6, <1>8, <2>1, <2>4, <2>5, AnycastVIPsType, AddVIPGuardedHolds, Zenon
<1> HIDE DEF c
<1>12. /\ SameVserver(c, d) /\ SameActive(c, d) /\ SameIPVS(c, d)
       /\ d.lbVservers = c.lbVservers /\ d.node.rules = c.node.rules
       /\ d.node.addrs = c.node.addrs /\ d.node.fatal = c.node.fatal
       /\ d.node.routes = IF AnycastEnabled THEN c.node.routes \cup {ip} ELSE c.node.routes
  BY <1>10, Zenon DEF BGPNode
<1> HIDE DEF d
<1>13. SameVserver(b, d) /\ SameActive(b, d) /\ SameIPVS(b, d)
  BY <1>9, <1>12, Zenon DEF SameTransitive
<1>14. WellFormed(d) BY <1>6, <1>13, Zenon DEF SameActiveWellFormed
<1>15. (Installed(d) <=> Installed(b)) /\ (Exact(d) <=> Exact(b))
  BY <1>13, Zenon DEF SameInstalled, SameActive
<1>16. Cascade(d)
  <2>1. Services(d) = Services(b) /\ Destinations(d) = Destinations(b)
    BY <1>13, Zenon DEF SameNames
  <2> QED BY <1>6, <1>13, <2>1, Zenon DEF Cascade, SameActive, SameVserver
<1>17. SameVserver(x, d) BY <1>7, <1>13, Zenon DEF SameTransitive
<1>18. d.active = b.active /\ d.vips = x.vips BY <1>8, <1>13, Zenon DEF SameActive, SameVserver
<1>19. ASSUME Announced(x), ip \notin x.active, ip = IPOf(x.config, ip[1])
       PROVE  (ip \in Anycast => Announced(d)) /\ (ip \notin Anycast => Announced(b))
  <2>1. Guarded(b) BY <1>7, <1>19, SameGuardedHolds, Zenon DEF Announced, SameNet
  <2>2. ip \notin Anycast => Announced(b)
    <3>1. ip \notin Anycast => b.active \cap Anycast = x.active \cap Anycast BY <1>8, Zenon
    <3>2. ip \notin Anycast => AnycastVIPs(b.active) = AnycastVIPs(x.active)
      BY <3>1, Zenon DEF AnycastVIPs
    <3> QED BY <1>7, <1>8, <1>19, <2>1, <3>1, <3>2, Zenon DEF Announced, SameNet
  <2>3. Guarded(d) BY <1>11, <1>12, <1>19, SameGuardedHolds, Zenon
  <2>4. d.node.addrs = d.vips \cup AnycastVIPs(d.active)
    <3>1. AnycastVIPs(d.active) = AnycastVIPs(x.active) \cup T
      BY <1>8, <1>18, Zenon DEF AnycastVIPs
    <3> QED BY <1>7, <1>9, <1>12, <1>18, <1>19, <3>1, Zenon DEF Announced, SameNet
  <2>5. ip \in Anycast => d.node.routes = IF AnycastEnabled THEN d.active \cap Anycast ELSE {}
    BY <1>7, <1>8, <1>9, <1>12, <1>18, <1>19, Zenon DEF Announced, SameNet
  <2> QED BY <1>18, <1>19, <2>2, <2>3, <2>4, <2>5, Zenon DEF Announced
<1> QED BY <1>1, <1>5, <1>6, <1>7, <1>8, <1>14, <1>15, <1>16, <1>17, <1>18, <1>19, Zenon DEF y

(* vserver.updateState restores a cascade broken only at its VIP, and      *)
(* leaves that VIP up exactly when it has the healthy services it needs.   *)
LEMMA VserverUpdateStateEffectHolds ==
    ASSUME IdsOf, RulesTyped, AddVIPNode, DeleteVIPNode, BGPNode, SameNames,
           SameTransitive, UpdateServicesEffect, SameInstalled, SameRepairable,
           ActiveFrame, SameActiveWellFormed,
           NEW x, WellFormed(x), NEW ip \in IPs, Repairable(x, {ip})
    PROVE  LET y == VserverUpdateState(x, ip) IN
           /\ WellFormed(y) /\ SameVserver(x, y) /\ Cascade(y)
           /\ y.active = IF AddressHealthy(x, ip) THEN x.active \cup {ip} ELSE x.active \ {ip}
           /\ Installed(x) => Installed(y)
           /\ Installed(x) /\ Exact(x) => Exact(y)
           /\ Announced(x) /\ (ip \in x.active \/ ip = IPOf(x.config, ip[1])) => Announced(y)
<1> DEFINE healthy == AddressHealthy(x, ip)
           y == VserverUpdateState(x, ip)
<1>1. healthy \in BOOLEAN BY Zenon DEF AddressHealthy
<1>2. y = IF healthy = (ip \in x.active) THEN UpdateServices(x, {ip})
          ELSE IF ip \in x.active THEN VserverDown(x, {ip}) ELSE VserverUp(x, ip)
  BY Zenon DEF VserverUpdateState
<1>3. healthy => x.config # Nil
  BY Zenon DEF AddressHealthy, ServicesOf, WellFormed
<1> HIDE DEF healthy, y
<1>4. CASE healthy = (ip \in x.active)
  <2>1. y = UpdateServices(x, {ip}) BY <1>2, <1>4, Zenon
  <2>2. /\ WellFormed(y) /\ SameVserver(x, y) /\ SameNet(x, y)
        /\ y.active = x.active /\ Cascade(y)
        /\ Installed(x) => Installed(y)
        /\ Installed(x) /\ Exact(x) => Exact(y)
    BY <2>1, Zenon DEF UpdateServicesEffect
  <2>3. Announced(x) => Announced(y) BY <2>2, SameAnnouncedHolds, Zenon DEF SameVserver
  <2>4. y.active = IF healthy THEN x.active \cup {ip} ELSE x.active \ {ip}
    BY <1>1, <1>4, <2>2, Zenon
  <2> QED BY <2>2, <2>3, <2>4, Zenon DEF healthy, y
<1>5. CASE ~healthy /\ ip \in x.active
  <2>1. y = VserverDown(x, {ip}) BY <1>2, <1>5, Zenon
  <2>2. {ip} \subseteq x.active BY <1>5, Zenon
  <2>3. /\ WellFormed(y) /\ SameVserver(x, y) /\ y.active = x.active \ {ip} /\ Cascade(y)
        /\ Installed(x) => Installed(y)
        /\ Installed(x) /\ Exact(x) => Exact(y)
        /\ Announced(x) => Announced(y)
    BY <2>1, <2>2, VserverDownEffectHolds, Zenon
  <2> QED BY <1>5, <2>3, Zenon DEF healthy, y
<1>6. CASE healthy /\ ip \notin x.active
  <2>1. y = VserverUp(x, ip) BY <1>2, <1>6, Zenon
  <2> QED BY <1>3, <1>6, <2>1, VserverUpEffect DEF healthy, y
<1> QED BY <1>1, <1>4, <1>5, <1>6

(* What is kept by two steps is kept by both together.                     *)
LEMMA KeptTransitiveHolds ==
    ASSUME NEW x, NEW y, NEW z, Kept(x, y), Kept(y, z)
    PROVE  Kept(x, z)
BY Zenon DEF Kept

(* The health of a VIP is about the health of its services.                *)
LEMMA SameHealthHolds ==
    ASSUME NEW x, NEW y, y.config = x.config, y.svc = x.svc,
           y.healthySvcs = x.healthySvcs
    PROVE  /\ \A ip : AddressHealthy(y, ip) <=> AddressHealthy(x, ip)
           /\ y.active = x.active => (Upheld(x) => Upheld(y)) /\ (Raised(x) => Raised(y))
<1>1. \A S : ServicesOf(y, S) = ServicesOf(x, S) BY Zenon DEF ServicesOf, Services
<1>2. \A ip : AddressHealthy(y, ip) <=> AddressHealthy(x, ip) BY <1>1 DEF AddressHealthy
<1> QED BY <1>2, Zenon DEF Upheld, Raised

(* A change of one service's health is seen by its VIP only, and improving *)
(* the health of services does not make a VIP unhealthy.                   *)
LEMMA HealthElsewhereHolds ==
    ASSUME NEW x, NEW y, y.svc = x.svc, NEW k \in Services(x),
           \A j \in Services(x) : j # k => (j \in y.healthySvcs <=> j \in x.healthySvcs)
    PROVE  \A ip : ip # x.svc[k].vip => (AddressHealthy(y, ip) <=> AddressHealthy(x, ip))
<1>1. \A S : ServicesOf(y, S) = ServicesOf(x, S) BY Zenon DEF ServicesOf, Services
<1> SUFFICES ASSUME NEW ip, ip # x.svc[k].vip
             PROVE  AddressHealthy(y, ip) <=> AddressHealthy(x, ip)
  BY Zenon
<1>2. k \notin ServicesOf(x, {ip}) BY Zenon DEF ServicesOf
<1>3. ServicesOf(x, {ip}) \subseteq Services(x) BY Zenon DEF ServicesOf
<1> QED BY <1>1, <1>2, <1>3, Zenon DEF AddressHealthy

(* Improving the health of services does not make a VIP unhealthy.         *)
LEMMA HealthMonotone ==
    ASSUME NEW x, NEW y, y.svc = x.svc, x.healthySvcs \subseteq y.healthySvcs, NEW ip
    PROVE  AddressHealthy(x, ip) => AddressHealthy(y, ip)
<1>1. ServicesOf(y, {ip}) = ServicesOf(x, {ip}) BY Zenon DEF ServicesOf, Services
<1> QED BY <1>1, Zenon DEF AddressHealthy

(* A change seen by one VIP, which is then up exactly when it is healthy.  *)
LEMMA VIPSettledHolds ==
    ASSUME NEW x, NEW y, NEW ip, y.config = x.config,
           \A j : j # ip => (AddressHealthy(y, j) <=> AddressHealthy(x, j)),
           \A j : j # ip => (j \in y.active <=> j \in x.active),
           ip \in y.active <=> AddressHealthy(y, ip)
    PROVE  (Upheld(x) => Upheld(y)) /\ (Raised(x) => Raised(y))
BY Zenon DEF Upheld, Raised

(* Vservers of the same shape name the same IPVS entries.                  *)
LEMMA ShapeNamesHolds ==
    ASSUME NEW x, NEW y, SameShape(x, y)
    PROVE  /\ Services(y) = Services(x) /\ Destinations(y) = Destinations(x)
           /\ \A k : IpvsId(y, k) = IpvsId(x, k)
           /\ \A d : IpvsDestId(y, d) = IpvsDestId(x, d)
BY Zenon DEF SameShape, Services, Destinations, IpvsId, IpvsDestId

(* The frames compose.                                                     *)
LEMMA ShapeTransitive ==
    ASSUME NEW x, NEW y, NEW z, SameShape(x, y), SameShape(y, z) \/ SameVserver(y, z)
    PROVE  SameShape(x, z)
BY Zenon DEF SameShape, SameVserver

(* Setting service.healthy changes only that.                              *)
LEMMA HealthySvcsFrameHolds ==
    ASSUME NEW x, WellFormed(x), NEW K \in SUBSET Services(x)
    PROVE  LET y == [x EXCEPT !.healthySvcs = K] IN
           /\ WellFormed(y) /\ SameShape(x, y) /\ SameActive(x, y) /\ SameNet(x, y)
           /\ y.healthySvcs = K /\ y.healthyDests = x.healthyDests
           /\ (Installed(y) <=> Installed(x)) /\ (Exact(y) <=> Exact(x))
<1> DEFINE y == [x EXCEPT !.healthySvcs = K]
<1>1. x \in VType /\ K \in SUBSET Keys BY Zenon DEF WellFormed, Services
<1>2. /\ SameShape(x, y) /\ SameActive(x, y) /\ y.node = x.node /\ y.lbVservers = x.lbVservers
      /\ y.healthySvcs = K /\ y.healthyDests = x.healthyDests
  BY <1>1, Zenon DEF VType, SameShape, SameActive
<1> HIDE DEF y
<1>3. WellFormed(y)
  BY <1>2, ShapeNamesHolds, Zenon DEF WellFormed, SameShape, SameActive
<1>3a. /\ \A k : IpvsId(y, k) = IpvsId(x, k)
       /\ \A d : IpvsDestId(y, d) = IpvsDestId(x, d)
       /\ y.svc = x.svc /\ y.activeSvcs = x.activeSvcs /\ y.node.services = x.node.services
       /\ y.backend = x.backend /\ y.activeDests = x.activeDests /\ y.node.dests = x.node.dests
       /\ y.node.fatal \cap IPVSFaults = x.node.fatal \cap IPVSFaults
  BY <1>2, ShapeNamesHolds, Zenon DEF SameShape, SameActive
<1>4. Installed(y) <=> Installed(x)
  <2>1. InstalledSvcs(y) <=> InstalledSvcs(x) BY <1>3a, SameServiceTable, Zenon
  <2>2. InstalledDests(x) <=> InstalledDests(y) BY <1>2, <1>3a, SameDestTable, Zenon
  <2> QED BY <2>1, <2>2, Zenon DEF Installed, InstalledSvcs, InstalledDests
<1>5. ExactSvcs(y) <=> ExactSvcs(x) BY <1>3a, SameServiceTable, Zenon
<1>6. ExactDests(y) <=> ExactDests(x)
  BY <1>2, <1>3a, SameDestTable, Zenon
<1> QED BY <1>2, <1>3, <1>4, <1>5, <1>6, Zenon DEF Exact, SameNet, y

(* Setting destination.healthy changes only that.                          *)
LEMMA HealthyDestsFrameHolds ==
    ASSUME NEW x, WellFormed(x), NEW D \in SUBSET Destinations(x)
    PROVE  LET y == [x EXCEPT !.healthyDests = D] IN
           /\ WellFormed(y) /\ SameShape(x, y) /\ SameActive(x, y) /\ SameNet(x, y)
           /\ y.node = x.node /\ y.healthySvcs = x.healthySvcs /\ y.healthyDests = D
<1> DEFINE y == [x EXCEPT !.healthyDests = D]
<1>1. x \in VType /\ D \in SUBSET Dests BY Zenon DEF WellFormed, Destinations
<1>2. /\ SameShape(x, y) /\ SameActive(x, y) /\ y.node = x.node /\ y.lbVservers = x.lbVservers
      /\ y.healthySvcs = x.healthySvcs /\ y.healthyDests = D
  BY <1>1, Zenon DEF VType, SameShape, SameActive
<1> HIDE DEF y
<1>3. WellFormed(y)
  BY <1>2, ShapeNamesHolds, Zenon DEF WellFormed, SameShape, SameActive
<1> QED BY <1>2, <1>3, Zenon DEF SameNet, y

(* A service's VIP is an address.                                          *)
LEMMA VIPTypedHolds ==
    ASSUME NEW x, WellFormed(x), NEW k \in Services(x)
    PROVE  x.svc[k].vip \in IPs /\ x.svc[k].ventry \in EntryType
<1>1. x.svc[k] \in ServiceType BY DEF WellFormed, VType, Services
<1> QED BY <1>1, Zenon DEF ServiceType

(* service.updateState settles a service whose destinations' health has    *)
(* changed, through its VIP when the service's own health changes.         *)
LEMMA ServiceUpdateStateEffectHolds ==
    ASSUME IdsOf, RulesTyped, AddVIPNode, DeleteVIPNode, BGPNode, SameNames,
           SameTransitive, UpdateDestsEffect, ServiceUpEffect, UpdateServicesEffect,
           SameInstalled, SameRepairable, ActiveFrame, SameActiveWellFormed,
           NEW x, WellFormed(x), NEW k \in Services(x), Unsettled(x, k)
    PROVE  LET y == ServiceUpdateState(x, k) IN
           /\ WellFormed(y) /\ SameShape(x, y) /\ y.healthyDests = x.healthyDests
           /\ Cascade(y)
           /\ Installed(x) => Installed(y)
           /\ Installed(x) /\ Known(x, x.svc[k].vip) => Kept(x, y)
<1> DEFINE healthy == ServiceHealthy(x, k)
           K == IF healthy THEN x.healthySvcs \cup {k} ELSE x.healthySvcs \ {k}
           z == [x EXCEPT !.healthySvcs = IF healthy THEN @ \cup {k} ELSE @ \ {k}]
           ip == x.svc[k].vip
           y == ServiceUpdateState(x, k)
<1>0. healthy \in BOOLEAN BY Zenon DEF ServiceHealthy
<1>1. y = IF healthy = (k \in x.healthySvcs) THEN UpdateDests(x, {k})
          ELSE IF healthy /\ ip \in x.active THEN ServiceUp(z, {k})
          ELSE IF healthy # (ip \in x.active) THEN VserverUpdateState(z, ip)
          ELSE z
  BY Zenon DEF ServiceUpdateState
<1> HIDE DEF healthy, y
<1>2. K \in SUBSET Services(x) BY Zenon DEF WellFormed
<1>3. z = [x EXCEPT !.healthySvcs = K] BY Zenon
<1> HIDE DEF K, z
<1>4. /\ WellFormed(z) /\ SameShape(x, z) /\ SameActive(x, z) /\ SameNet(x, z)
      /\ z.healthySvcs = K /\ z.healthyDests = x.healthyDests
      /\ (Installed(z) <=> Installed(x)) /\ (Exact(z) <=> Exact(x))
  BY <1>2, <1>3, HealthySvcsFrameHolds, Zenon
<1>5. /\ Services(z) = Services(x) /\ Destinations(z) = Destinations(x) /\ z.svc = x.svc
      /\ z.config = x.config /\ z.vips = x.vips /\ z.active = x.active
      /\ z.activeSvcs = x.activeSvcs /\ z.activeDests = x.activeDests
  BY <1>4, ShapeNamesHolds, Zenon DEF SameShape, SameActive
<1>6. Announced(x) => Announced(z) BY <1>4, <1>5, SameAnnouncedHolds, Zenon
<1>7. \A j \in Services(x) : j # k => (j \in K <=> j \in x.healthySvcs)
  BY Zenon DEF K
<1>8. k \in K <=> healthy BY <1>0, Zenon DEF K
<1>9. ip \in IPs BY VIPTypedHolds, Zenon
<1>10. SameShape(x, x) /\ \A w : SameVserver(x, w) => SameShape(x, w)
  BY Zenon DEF SameShape, SameVserver, WellFormed
<1>10a. \A i : i # ip => (AddressHealthy(z, i) <=> AddressHealthy(x, i))
  BY <1>4, <1>5, <1>7, HealthElsewhereHolds, Zenon
<1>11. CASE healthy = (k \in x.healthySvcs)
  <2>1. y = UpdateDests(x, {k}) BY <1>1, <1>11, Zenon
  <2>2. /\ WellFormed(y) /\ SameVserver(x, y) /\ SameNet(x, y)
        /\ y.active = x.active /\ y.activeSvcs = x.activeSvcs
        /\ \A d \in Destinations(x) : d \in y.activeDests <=>
                IF d[1] \in {k} THEN d[1] \in x.activeSvcs /\ d \in x.healthyDests
                                ELSE d \in x.activeDests
        /\ y.node.services = x.node.services
        /\ InstalledDests(x) => InstalledDests(y)
        /\ InstalledSvcs(x) /\ ExactDests(x) => ExactDests(y)
    <3>1. {k} \in SUBSET Services(x) BY Zenon
    <3> QED BY <2>1, <3>1, Zenon DEF UpdateDestsEffect
  <2>3. Cascade(y) BY <2>2, Zenon DEF SameNames, Cascade, Unsettled, SameVserver
  <2>4. (InstalledSvcs(x) => InstalledSvcs(y)) /\ (ExactSvcs(x) => ExactSvcs(y))
    <3>1. /\ \A j : IpvsId(y, j) = IpvsId(x, j)
          /\ y.svc = x.svc /\ y.activeSvcs = x.activeSvcs /\ y.node.services = x.node.services
      BY <2>2, ZenonT(30) DEF SameNames, SameVserver
    <3> QED BY <3>1, SameServiceTable, Zenon
  <2>5. Installed(x) => Installed(y) /\ (Exact(x) => Exact(y))
    BY <2>2, <2>4, Zenon DEF Installed, InstalledSvcs, InstalledDests, Exact
  <2>6. Announced(x) => Announced(y) BY <2>2, SameAnnouncedHolds, Zenon DEF SameVserver
  <2>7. (Upheld(x) => Upheld(y)) /\ (Raised(x) => Raised(y))
    BY <2>2, SameHealthHolds, Zenon DEF SameVserver
  <2>8. Installed(x) => Kept(x, y) BY <2>5, <2>6, <2>7, Zenon DEF Kept
  <2>9. y.healthyDests = x.healthyDests /\ SameShape(x, y) BY <2>2, <1>10, Zenon DEF SameVserver
  <2> QED BY <2>2, <2>3, <2>5, <2>8, <2>9, Zenon DEF y
<1>12. CASE healthy # (k \in x.healthySvcs) /\ healthy /\ ip \in x.active
  <2>1. y = ServiceUp(z, {k}) BY <1>1, <1>12, Zenon
  <2>2. /\ WellFormed(y) /\ SameVserver(z, y) /\ SameNet(z, y)
        /\ y.active = z.active /\ y.activeSvcs = z.activeSvcs \cup {k}
        /\ \A d \in Destinations(z) : d \in y.activeDests <=>
                IF d[1] \in {k} THEN d \in z.healthyDests ELSE d \in z.activeDests
        /\ Installed(z) => Installed(y)
        /\ Installed(z) /\ Exact(z) /\ {k} \cap z.activeSvcs = {} => Exact(y)
    <3>1. {k} \in SUBSET Services(z) BY <1>5, Zenon
    <3>2. WellFormed(z) BY <1>4, Zenon
    <3> QED BY <2>1, <3>1, <3>2, Zenon DEF ServiceUpEffect
  <2>3. Services(y) = Services(x) /\ Destinations(y) = Destinations(x)
        /\ y.svc = x.svc /\ y.config = x.config /\ y.vips = x.vips /\ y.active = x.active
        /\ y.healthySvcs = K /\ y.healthyDests = x.healthyDests
    BY <2>2, <1>4, <1>5, Zenon DEF SameNames, SameVserver
  <2>4. \A j \in Services(y) :
          j \in y.activeSvcs <=> j \in y.healthySvcs /\ y.svc[j].vip \in y.active
    BY <2>2, <2>3, <1>5, <1>7, <1>8, <1>12, Zenon DEF Unsettled
  <2>5. \A d \in Destinations(y) :
          d \in y.activeDests <=> d \in y.healthyDests /\ d[1] \in y.activeSvcs
    BY <2>2, <2>3, <1>4, <1>5, Zenon DEF Unsettled
  <2>6. Cascade(y) BY <2>4, <2>5, Zenon DEF Cascade
  <2>7. k \notin x.activeSvcs BY <1>0, <1>12, Zenon DEF Unsettled
  <2>8. {k} \cap z.activeSvcs = {} BY <2>7, <1>5, Zenon
  <2>9. Installed(x) => (Exact(x) => Exact(y)) BY <2>2, <2>8, <1>4, Zenon
  <2>10. Announced(x) => Announced(y) BY <1>5, <1>6, <2>2, <2>3, SameAnnouncedHolds, Zenon
  <2>11. \A i : i # ip => (AddressHealthy(y, i) <=> AddressHealthy(x, i))
    BY <2>3, <1>7, HealthElsewhereHolds, Zenon
  <2>12. AddressHealthy(x, ip) => AddressHealthy(y, ip)
    <3>1. x.healthySvcs \subseteq y.healthySvcs BY <2>3, <1>12, Zenon DEF K
    <3> QED BY <2>3, <3>1, HealthMonotone, ZenonT(30)
  <2>13. Upheld(x) => Upheld(y) BY <2>3, <2>11, <2>12, Zenon DEF Upheld
  <2>14. Raised(x) => Raised(y) BY <1>12, <2>3, <2>11, Zenon DEF Raised
  <2>15. Installed(x) => Kept(x, y) BY <2>9, <2>10, <2>13, <2>14, Zenon DEF Kept
  <2>16. SameShape(x, y) BY <2>2, <1>4, ShapeTransitive, Zenon
  <2> QED BY <2>2, <2>3, <2>6, <2>15, <2>16, <1>4, Zenon DEF y
<1>13. CASE healthy # (k \in x.healthySvcs) /\ healthy # (ip \in x.active)
  <2>1. y = VserverUpdateState(z, ip) BY <1>0, <1>1, <1>13, Zenon
  <2>2. Repairable(z, {ip})
    <3>1. \A j \in Services(z) : z.svc[j].vip \notin {ip} =>
            (j \in z.activeSvcs <=> j \in z.healthySvcs /\ z.svc[j].vip \in z.active)
      <4> SUFFICES ASSUME NEW j \in Services(x), x.svc[j].vip # ip
                   PROVE  j \in x.activeSvcs <=> j \in K /\ x.svc[j].vip \in x.active
        BY <1>4, <1>5, Zenon
      <4>1. j # k BY Zenon
      <4> QED BY <1>7, <4>1, Zenon DEF Unsettled
    <3>2. ASSUME NEW d \in Destinations(z)
          PROVE  /\ d \in z.activeDests => d[1] \in z.activeSvcs
                 /\ \/ d \in z.activeDests <=> d \in z.healthyDests /\ d[1] \in z.activeSvcs
                    \/ /\ z.svc[d[1]].vip \in {ip}
                       /\ d[1] \in z.activeSvcs /\ d[1] \notin z.healthySvcs
      <4>1. CASE d[1] # k BY <4>1, <1>4, <1>5, Zenon DEF Unsettled
      <4>2. CASE d[1] = k /\ healthy
        <5>1. k \notin x.activeSvcs BY <4>2, <1>13, Zenon DEF Unsettled
        <5> QED BY <5>1, <4>2, <1>4, <1>5, Zenon DEF Unsettled
      <4>3. CASE d[1] = k /\ ~healthy
        BY <4>3, <1>4, <1>5, <1>8, Zenon DEF Unsettled
      <4> QED BY <4>1, <4>2, <4>3, Zenon
    <3> QED BY <3>1, <3>2, Zenon DEF Repairable
  <2>3. /\ WellFormed(y) /\ SameVserver(z, y) /\ Cascade(y)
        /\ y.active = IF AddressHealthy(z, ip) THEN z.active \cup {ip} ELSE z.active \ {ip}
        /\ Installed(z) => Installed(y)
        /\ Installed(z) /\ Exact(z) => Exact(y)
        /\ Announced(z) /\ (ip \in z.active \/ ip = IPOf(z.config, ip[1])) => Announced(y)
    BY <2>1, <2>2, <1>4, <1>9, VserverUpdateStateEffectHolds, Zenon
  <2>4. \A i : AddressHealthy(y, i) <=> AddressHealthy(z, i)
    BY <2>3, SameHealthHolds, Zenon DEF SameVserver
  <2>5. y.config = x.config BY <2>3, <1>5, Zenon DEF SameVserver
  <2>6. /\ \A i : i # ip => (i \in y.active <=> i \in x.active)
        /\ ip \in y.active <=> AddressHealthy(y, ip)
    BY <2>3, <2>4, <1>5, Zenon
  <2>7. (Upheld(x) => Upheld(y)) /\ (Raised(x) => Raised(y))
    BY <2>4, <2>5, <2>6, <1>10a, VIPSettledHolds, Zenon
  <2>8. Known(x, ip) => (Announced(x) => Announced(y)) BY <2>3, <1>5, <1>6, Zenon DEF Known
  <2>9. Installed(x) => Installed(y) /\ (Exact(x) => Exact(y)) BY <2>3, <1>4, Zenon
  <2>10. Installed(x) /\ Known(x, ip) => Kept(x, y) BY <2>7, <2>8, <2>9, Zenon DEF Kept
  <2>11. SameShape(x, y) /\ y.healthyDests = x.healthyDests
    BY <2>3, <1>4, ShapeTransitive, Zenon DEF SameVserver
  <2> QED BY <2>3, <2>9, <2>10, <2>11, Zenon DEF y
<1>14. CASE healthy # (k \in x.healthySvcs) /\ ~healthy /\ ip \notin x.active
  <2>1. y = z BY <1>0, <1>1, <1>14
  <2>2. k \notin x.activeSvcs BY <1>14, Zenon DEF Unsettled
  <2>3. Cascade(z)
    <3>1. \A j \in Services(z) :
            j \in z.activeSvcs <=> j \in z.healthySvcs /\ z.svc[j].vip \in z.active
      BY <2>2, <1>4, <1>5, <1>7, <1>8, <1>14, Zenon DEF Unsettled
    <3>2. \A d \in Destinations(z) :
            d \in z.activeDests <=> d \in z.healthyDests /\ d[1] \in z.activeSvcs
      BY <2>2, <1>4, <1>5, Zenon DEF Unsettled
    <3> QED BY <3>1, <3>2, Zenon DEF Cascade
  <2>4. AddressHealthy(z, ip) => AddressHealthy(x, ip)
    <3>1. z.healthySvcs \subseteq x.healthySvcs BY <1>4, <1>14, Zenon DEF K
    <3> QED BY <1>5, <3>1, HealthMonotone
  <2>5. Upheld(x) => Upheld(z) BY <1>5, <1>10a, <1>14, Zenon DEF Upheld
  <2>6. Raised(x) => Raised(z) BY <1>5, <1>10a, <2>4, Zenon DEF Raised
  <2>7. Kept(x, z) BY <1>4, <1>6, <2>5, <2>6, Zenon DEF Kept
  <2> QED BY <2>1, <2>3, <2>7, <1>4, Zenon DEF y
<1> QED BY <1>0, <1>11, <1>12, <1>13, <1>14, Zenon

(* A change of a destination's health leaves only its own service          *)
(* unsettled.                                                              *)
LEMMA UnsettledDest ==
    ASSUME NEW x, Good(x), NEW d \in Destinations(x), NEW D \in SUBSET Destinations(x),
           \A e \in Destinations(x) : e # d => (e \in D <=> e \in x.healthyDests),
           d \in D => d \notin x.activeDests
    PROVE  LET y == [x EXCEPT !.healthyDests = D] IN
           /\ WellFormed(y) /\ SameShape(x, y) /\ SameActive(x, y) /\ SameNet(x, y)
           /\ y.healthyDests = D /\ y.healthySvcs = x.healthySvcs
           /\ Unsettled(y, d[1]) /\ Installed(y) /\ Kept(x, y)
           /\ d[1] \in Services(y) /\ d \in Destinations(y)
<1> DEFINE y == [x EXCEPT !.healthyDests = D]
<1>1. /\ WellFormed(y) /\ SameShape(x, y) /\ SameActive(x, y) /\ SameNet(x, y)
      /\ y.node = x.node /\ y.healthySvcs = x.healthySvcs /\ y.healthyDests = D
  BY HealthyDestsFrameHolds, Zenon DEF Good
<1> HIDE DEF y
<1>2. /\ Services(y) = Services(x) /\ Destinations(y) = Destinations(x)
      /\ y.svc = x.svc /\ y.config = x.config /\ y.vips = x.vips /\ y.backend = x.backend
      /\ y.active = x.active /\ y.activeSvcs = x.activeSvcs /\ y.activeDests = x.activeDests
  BY <1>1, ShapeNamesHolds, Zenon DEF SameShape, SameActive
<1>3. Unsettled(y, d[1])
  BY <1>1, <1>2, Zenon DEF Unsettled, Good, Cascade
<1>4. \A e \in y.activeDests : e \in y.healthyDests => e \in x.healthyDests
  BY <1>1, <1>2, Zenon DEF Good, WellFormed
<1>5. Installed(y)
  <2>1. InstalledSvcs(y)
    BY <1>1, <1>2, ShapeNamesHolds, Zenon DEF InstalledSvcs, Installed, Good
  <2>2. InstalledDests(y)
    BY <1>1, <1>2, <1>4, ShapeNamesHolds, Zenon DEF InstalledDests, Installed, Good
  <2> QED BY <2>1, <2>2, Zenon DEF Installed, InstalledSvcs, InstalledDests
<1>5a. /\ \A k : IpvsId(y, k) = IpvsId(x, k)
       /\ \A e : IpvsDestId(y, e) = IpvsDestId(x, e)
       /\ y.svc = x.svc /\ y.activeSvcs = x.activeSvcs /\ y.node.services = x.node.services
       /\ y.backend = x.backend /\ y.activeDests = x.activeDests /\ y.node.dests = x.node.dests
       /\ y.node.fatal \cap IPVSFaults = x.node.fatal \cap IPVSFaults
  BY <1>1, <1>2, ShapeNamesHolds, Zenon
<1>5b. \A e \in x.activeDests : e \in y.healthyDests => e \in x.healthyDests BY <1>2, <1>4, Zenon
<1>6. Exact(x) => Exact(y)
  <2>1. ExactSvcs(x) => ExactSvcs(y)
    BY <1>5a, SameServiceTable, Zenon
  <2>2. ExactDests(x) => ExactDests(y)
    BY <1>5a, <1>5b, SameDestTable, ZenonT(30)
  <2> QED BY <2>1, <2>2, Zenon DEF Exact
<1>7. Kept(x, y)
  <2>1. Announced(x) => Announced(y) BY <1>1, <1>2, SameAnnouncedHolds, Zenon
  <2>2. (Upheld(x) => Upheld(y)) /\ (Raised(x) => Raised(y)) BY <1>1, <1>2, SameHealthHolds, Zenon
  <2> QED BY <1>6, <2>1, <2>2, Zenon DEF Kept
<1>8. d[1] \in Services(x) BY Zenon DEF Good, WellFormed
<1> QED BY <1>1, <1>2, <1>3, <1>5, <1>7, <1>8, Zenon DEF y

(* service.updateState then makes the vserver good again.                  *)
LEMMA SettleDestHolds ==
    ASSUME IdsOf, RulesTyped, AddVIPNode, DeleteVIPNode, BGPNode, SameNames,
           SameTransitive, UpdateDestsEffect, ServiceUpEffect, UpdateServicesEffect,
           SameInstalled, SameRepairable, ActiveFrame, SameActiveWellFormed,
           NEW x, Good(x), NEW d \in Destinations(x), NEW D \in SUBSET Destinations(x),
           \A e \in Destinations(x) : e # d => (e \in D <=> e \in x.healthyDests),
           d \in D => d \notin x.activeDests
    PROVE  LET y == ServiceUpdateState([x EXCEPT !.healthyDests = D], d[1]) IN
           /\ Good(y) /\ SameShape(x, y) /\ y.healthyDests = D
           /\ Known(x, x.svc[d[1]].vip) => Kept(x, y)
<1> DEFINE z == [x EXCEPT !.healthyDests = D]
           y == ServiceUpdateState(z, d[1])
<1>1. /\ WellFormed(z) /\ SameShape(x, z) /\ SameActive(x, z) /\ z.healthyDests = D
      /\ Unsettled(z, d[1]) /\ Installed(z) /\ Kept(x, z) /\ d[1] \in Services(z)
  BY UnsettledDest, ZenonT(30)
<1> HIDE DEF z
<1>2. /\ WellFormed(y) /\ SameShape(z, y) /\ y.healthyDests = z.healthyDests
      /\ Cascade(y) /\ Installed(y)
      /\ Known(z, z.svc[d[1]].vip) => Kept(z, y)
  BY <1>1, ServiceUpdateStateEffectHolds, Zenon
<1> HIDE DEF y
<1>3. SameShape(x, y) BY <1>1, <1>2, ShapeTransitive, Zenon
<1>4. z.svc = x.svc /\ z.config = x.config /\ z.active = x.active
  BY <1>1, Zenon DEF SameShape, SameActive
<1>5. Known(x, x.svc[d[1]].vip) => Kept(x, y)
  BY <1>1, <1>2, <1>4, KeptTransitiveHolds, Zenon DEF Known
<1> QED BY <1>1, <1>2, <1>3, <1>5, Zenon DEF Good, y, z

(* Nothing changed is everything kept.                                     *)
LEMMA KeptReflexive ==
    ASSUME NEW x, Good(x)
    PROVE  Kept(x, x) /\ SameShape(x, x)
BY Zenon DEF Kept, SameShape, Good, WellFormed

(* destination.updateState, with every call it makes, preserves Good.      *)
LEMMA DestinationUpdateStateGoodHolds ==
    ASSUME IdsOf, RulesTyped, AddVIPNode, DeleteVIPNode, BGPNode, SameNames,
           SameTransitive, DestinationUpEffect, UpdateDestsEffect, ServiceUpEffect,
           UpdateServicesEffect, SameInstalled, SameRepairable, ActiveFrame,
           SameActiveWellFormed,
           NEW x, Good(x), NEW d \in Destinations(x)
    PROVE  LET y == DestinationUpdateState(x, d) IN
           /\ Good(y) /\ SameShape(x, y)
           /\ Known(x, x.svc[d[1]].vip) => Kept(x, y)
<1> DEFINE healthy == DestinationHealthy(x, d)
           k == d[1]
           D == IF healthy THEN x.healthyDests \cup {d} ELSE x.healthyDests \ {d}
           z == [x EXCEPT !.healthyDests = D]
           y == DestinationUpdateState(x, d)
<1>0. healthy \in BOOLEAN BY Zenon DEF DestinationHealthy
<1>1. y = IF healthy = (d \in x.healthyDests) THEN x
          ELSE IF healthy /\ k \in x.activeSvcs THEN DestinationUp(z, {d})
          ELSE IF healthy # (k \in x.activeSvcs) \/ healthy # (k \in x.healthySvcs)
               THEN ServiceUpdateState(z, k)
          ELSE z
  BY Zenon DEF DestinationUpdateState
<1> HIDE DEF healthy, y
<1>2. /\ D \in SUBSET Destinations(x)
      /\ \A e \in Destinations(x) : e # d => (e \in D <=> e \in x.healthyDests)
  BY Zenon DEF Good, WellFormed
<1>3. d \in D <=> healthy BY <1>0, Zenon
<1> HIDE DEF D
<1>4. CASE healthy = (d \in x.healthyDests) BY <1>1, <1>4, KeptReflexive, Zenon DEF y
<1>5. CASE healthy # (d \in x.healthyDests)
  <2>1. d \in D => d \notin x.activeDests BY <1>0, <1>3, <1>5, Zenon DEF Good, Cascade
  <2>2. /\ WellFormed(z) /\ SameShape(x, z) /\ SameActive(x, z)
        /\ z.healthyDests = D /\ z.healthySvcs = x.healthySvcs
        /\ Unsettled(z, d[1]) /\ Installed(z) /\ Kept(x, z) /\ d \in Destinations(z)
    BY <1>2, <2>1, UnsettledDest
  <2>3. /\ Good(ServiceUpdateState(z, k)) /\ SameShape(x, ServiceUpdateState(z, k))
        /\ Known(x, x.svc[k].vip) => Kept(x, ServiceUpdateState(z, k))
    BY <1>2, <2>1, SettleDestHolds, Zenon
  <2> HIDE DEF z
  <2>4. CASE healthy /\ k \in x.activeSvcs
    <3>1. y = DestinationUp(z, {d}) BY <1>1, <1>5, <2>4, Zenon
    <3>2. /\ WellFormed(y) /\ SameVserver(z, y) /\ SameNet(z, y)
          /\ y.active = z.active /\ y.activeSvcs = z.activeSvcs
          /\ y.activeDests = z.activeDests \cup {d}
          /\ y.node.services = z.node.services
          /\ InstalledDests(z) => InstalledDests(y)
          /\ /\ InstalledSvcs(z) /\ ExactDests(z)
             /\ \A e \in {d} : e \notin z.activeDests /\ e[1] \in z.activeSvcs
             => ExactDests(y)
      BY <2>2, <3>1, Zenon DEF DestinationUpEffect
    <3>3. Services(y) = Services(z) /\ Destinations(y) = Destinations(z)
          /\ Destinations(z) = Destinations(x)
      BY <2>2, <3>2, ShapeNamesHolds, Zenon DEF SameNames
    <3>4. \A e \in Destinations(x) : e # d =>
            (e \in z.activeDests <=> e \in z.healthyDests /\ e[1] \in z.activeSvcs)
      BY <1>2, <2>2, Zenon DEF SameActive, Good, Cascade
    <3>5. d \in z.healthyDests /\ d[1] \in z.activeSvcs /\ d \notin z.activeDests
      BY <2>1, <2>2, <2>4, <1>3, Zenon DEF SameActive
    <3>6. Cascade(y)
      BY <2>2, <3>2, <3>3, <3>4, <3>5, Zenon DEF Cascade, Unsettled, SameVserver
    <3>7. (InstalledSvcs(z) => InstalledSvcs(y)) /\ (ExactSvcs(z) => ExactSvcs(y))
      BY <3>2, SameServiceTable, Zenon DEF SameNames, SameVserver
    <3>8. InstalledSvcs(z) /\ InstalledDests(z)
      BY <2>2, Zenon DEF Installed, InstalledSvcs, InstalledDests
    <3>9. Installed(y) BY <3>2, <3>7, <3>8, Zenon DEF Installed, InstalledSvcs, InstalledDests
    <3>10. Exact(z) => Exact(y) BY <3>2, <3>5, <3>7, <3>8, Zenon DEF Exact
    <3>11. Announced(z) => Announced(y) BY <3>2, SameAnnouncedHolds, Zenon DEF SameVserver
    <3>12. (Upheld(z) => Upheld(y)) /\ (Raised(z) => Raised(y))
      BY <3>2, SameHealthHolds, Zenon DEF SameVserver
    <3>13. Kept(x, y) BY <2>2, <3>10, <3>11, <3>12, KeptTransitiveHolds, Zenon DEF Kept
    <3>14. SameShape(x, y) BY <2>2, <3>2, ShapeTransitive, Zenon
    <3> QED BY <3>2, <3>6, <3>9, <3>13, <3>14, Zenon DEF Good, y
  <2>5. CASE /\ ~(healthy /\ k \in x.activeSvcs)
             /\ healthy # (k \in x.activeSvcs) \/ healthy # (k \in x.healthySvcs)
    <3>1. y = ServiceUpdateState(z, k) BY <1>1, <1>5, <2>5, Zenon
    <3> QED BY <2>3, <3>1, Zenon DEF y
  <2>6. CASE ~healthy /\ k \notin x.activeSvcs /\ k \notin x.healthySvcs
    <3>1. y = z BY <1>0, <1>1, <1>5, <2>6
    <3>2. Destinations(z) = Destinations(x) BY <2>2, ShapeNamesHolds, Zenon
    <3>3. Cascade(z)
      BY <1>2, <2>2, <2>6, <3>2, Zenon DEF Cascade, Unsettled, SameActive, Good
    <3> QED BY <2>2, <3>1, <3>3, Zenon DEF Good, y
  <2> QED BY <1>0, <2>4, <2>5, <2>6, Zenon
<1> QED BY <1>0, <1>4, <1>5, Zenon

(* So does the override of a destination by handleOverride.                *)
LEMMA OverrideDestGoodHolds ==
    ASSUME IdsOf, RulesTyped, AddVIPNode, DeleteVIPNode, BGPNode, SameNames,
           SameTransitive, UpdateDestsEffect, ServiceUpEffect, UpdateServicesEffect,
           SameInstalled, SameRepairable, ActiveFrame, SameActiveWellFormed,
           NEW x, Good(x), NEW d \in Destinations(x), NEW state
    PROVE  LET y == OverrideDest(x, d, state) IN
           /\ Good(y) /\ SameShape(x, y)
           /\ Known(x, x.svc[d[1]].vip) => Kept(x, y)
<1> DEFINE D1 == x.healthyDests \ {d}
           D2 == x.healthyDests \cup {d}
           y1 == ServiceUpdateState([x EXCEPT !.healthyDests = D1], d[1])
           y2 == ServiceUpdateState([x EXCEPT !.healthyDests = D2], d[1])
<1>1. D1 \in SUBSET Destinations(x) /\ D2 \in SUBSET Destinations(x)
  BY Zenon DEF Good, WellFormed
<1>2. \/ OverrideDest(x, d, state) \in {x, y1}
      \/ OverrideDest(x, d, state) = y2 /\ d \notin x.activeDests
  BY Zenon DEF OverrideDest
<1>3. Good(y1) /\ SameShape(x, y1) /\ (Known(x, x.svc[d[1]].vip) => Kept(x, y1))
  BY <1>1, SettleDestHolds, Zenon
<1>4. d \notin x.activeDests =>
        Good(y2) /\ SameShape(x, y2) /\ (Known(x, x.svc[d[1]].vip) => Kept(x, y2))
  <2> SUFFICES ASSUME d \notin x.activeDests
               PROVE  Good(y2) /\ SameShape(x, y2) /\ (Known(x, x.svc[d[1]].vip) => Kept(x, y2))
    BY Zenon
  <2>1. \A e \in Destinations(x) : e # d => (e \in D2 <=> e \in x.healthyDests) BY Zenon
  <2> QED BY <1>1, <2>1, SettleDestHolds, Zenon
<1> HIDE DEF y1, y2
<1> QED BY <1>2, <1>3, <1>4, KeptReflexive, Zenon
=============================================================================

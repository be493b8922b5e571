--------------------------- MODULE VserverUpdates ---------------------------
(* The functions of a configuration update preserve Good and the rest of   *)
(* what Kept keeps: downAll, configureVIPs and unconfigureVIPs, configInit *)
(* and the restart first, then what configUpdate does to one service and   *)
(* to one destination. What they need of the cascade is a hypothesis,      *)
(* which VserverProofs discharges.                                         *)
EXTENDS VserverFrames, TLAPS

(* service.down takes a service out with every destination under it.       *)
ServiceDownEffect ==
    \A x : \A K \in SUBSET Services(x) :
        WellFormed(x) =>
           LET y == ServiceDown(x, K) IN
           /\ WellFormed(y) /\ SameVserver(x, y) /\ SameNet(x, y)
           /\ y.active = x.active /\ y.activeSvcs = x.activeSvcs \ K
           /\ \A d \in Destinations(x) : d \in y.activeDests <=>
                d[1] \notin K /\ d \in x.activeDests
           /\ Installed(x) => Installed(y)
           /\ Installed(x) /\ Exact(x) /\ K \subseteq x.activeSvcs => Exact(y)

(* A vserver whose cascade holds is repairable, with nothing left to       *)
(* repair.                                                                 *)
CascadeRepairable ==
    \A x, S :
        Cascade(x) =>
           Repairable(x, S)

(* Being guarded is about the addresses, the rules and the snapshots, and  *)
(* the calls on them.                                                      *)
SameGuarded ==
    \A x, y :
        Guarded(x) /\ y.lbVservers = x.lbVservers /\ y.node.addrs = x.node.addrs /\
        y.node.rules = x.node.rules /\
        y.node.fatal \cap VIPFaults = x.node.fatal \cap VIPFaults =>
           Guarded(y)

(* Deleting configured addresses keeps the others guarded.                 *)
DeleteVIPGuarded ==
    \A x : \A S \in SUBSET x.node.addrs :
        WellFormed(x) /\ Guarded(x) =>
           Guarded(DeleteVIP(x, S))

(* Adding addresses of the configuration, not configured before, keeps     *)
(* every address guarded.                                                  *)
AddVIPGuarded ==
    \A x : \A S \in SUBSET (IPs \X VIPTypes) :
        WellFormed(x) /\ x.config # Nil /\ Guarded(x) /\
        Ids(S) \cap Ids(x.node.addrs) = {} /\ (\A s, t \in S : s[1] = t[1] => s = t) /\
        (\A ip \in Ids(S) : ip = IPOf(x.config, ip[1])) =>
           Guarded(AddVIP(x, S))

(* vserver.down withdraws a VIP and takes its services down.               *)
VserverDownEffect ==
    \A x, S :
        WellFormed(x) /\ Repairable(x, S) =>
           LET y == VserverDown(x, S) IN
           /\ WellFormed(y) /\ SameVserver(x, y) /\ y.active = x.active \ S
           /\ Cascade(y)
           /\ Installed(x) => Installed(y)
           /\ Installed(x) /\ Exact(x) => Exact(y)
           /\ Announced(x) /\ S \subseteq x.active => Announced(y)

(* vserver.updateState restores a cascade broken only at its VIP, and      *)
(* leaves that VIP up exactly when it has the healthy services it needs.   *)
VserverUpdateStateEffect ==
    \A x : \A ip \in IPs :
        WellFormed(x) /\ Repairable(x, {ip}) =>
           LET y == VserverUpdateState(x, ip) IN
           /\ WellFormed(y) /\ SameVserver(x, y) /\ Cascade(y)
           /\ y.active = IF AddressHealthy(x, ip) THEN x.active \cup {ip} ELSE x.active \ {ip}
           /\ Installed(x) => Installed(y)
           /\ Installed(x) /\ Exact(x) => Exact(y)
           /\ Announced(x) /\ (ip \in x.active \/ ip = IPOf(x.config, ip[1])) => Announced(y)

(* A change of one service's health is seen by its VIP only, and improving *)
(* the health of services does not make a VIP unhealthy.                   *)
HealthElsewhere ==
    \A x, y : \A k \in Services(x) :
        y.svc = x.svc /\
        (\A j \in Services(x) : j # k => (j \in y.healthySvcs <=> j \in x.healthySvcs)) =>
           \A ip : ip # x.svc[k].vip => (AddressHealthy(y, ip) <=> AddressHealthy(x, ip))

(* A change seen by one VIP, which is then up exactly when it is healthy.  *)
VIPSettled ==
    \A x, y, ip :
        y.config = x.config /\
        (\A j : j # ip => (AddressHealthy(y, j) <=> AddressHealthy(x, j))) /\
        (\A j : j # ip => (j \in y.active <=> j \in x.active)) /\
        (ip \in y.active <=> AddressHealthy(y, ip)) =>
           ((Upheld(x) => Upheld(y)) /\ (Raised(x) => Raised(y)))

(* Setting service.healthy changes only that.                              *)
HealthySvcsFrame ==
    \A x : \A K \in SUBSET Services(x) :
        WellFormed(x) =>
           LET y == [x EXCEPT !.healthySvcs = K] IN
           /\ WellFormed(y) /\ SameShape(x, y) /\ SameActive(x, y) /\ SameNet(x, y)
           /\ y.healthySvcs = K /\ y.healthyDests = x.healthyDests
           /\ (Installed(y) <=> Installed(x)) /\ (Exact(y) <=> Exact(x))

(* A service's VIP is an address.                                          *)
VIPTyped ==
    \A x : \A k \in Services(x) :
        WellFormed(x) =>
           x.svc[k].vip \in IPs /\ x.svc[k].ventry \in EntryType

(* Good survives what leaves the parts, the active parts and the IPVS      *)
(* table alone.                                                            *)
LEMMA GoodFrameHolds ==
    ASSUME NEW x, Good(x), NEW y \in VType, SameParts(x, y),
           x.config # Nil => y.config # Nil
    PROVE  /\ Good(y)
           /\ Services(y) = Services(x) /\ Destinations(y) = Destinations(x)
           /\ Exact(x) => Exact(y)
<1>1. Services(y) = Services(x) /\ Destinations(y) = Destinations(x)
  BY Zenon DEF SameParts, Services, Destinations
<1>2. /\ \A k : IpvsId(y, k) = IpvsId(x, k)
      /\ \A d : IpvsDestId(y, d) = IpvsDestId(x, d)
  BY Zenon DEF SameParts, IpvsId, IpvsDestId
<1>3. WellFormed(y) BY <1>1, Zenon DEF Good, WellFormed, SameParts, SameActive
<1>4. Cascade(y) BY <1>1, Zenon DEF Good, Cascade, SameParts, SameActive
<1>5. Installed(y) BY <1>2, Zenon DEF Good, Installed, SameParts, SameActive, SameIPVS
<1>6. ExactSvcs(x) => ExactSvcs(y) BY <1>2 DEF ExactSvcs, SameParts, SameActive, SameIPVS
<1>7. ExactDests(x) => ExactDests(y)
  BY <1>2 DEF ExactDests, IPVSCallsOK, SameParts, SameActive, SameIPVS
<1> QED BY <1>1, <1>3, <1>4, <1>5, <1>6, <1>7, Zenon DEF Good, Exact

(* So does the health of the VIPs.                                         *)
LEMMA HealthFrameHolds ==
    ASSUME NEW x, NEW y, SameParts(x, y)
    PROVE  /\ \A ip : AddressHealthy(y, ip) <=> AddressHealthy(x, ip)
           /\ Upheld(x) => Upheld(y)
           /\ Raised(x) /\ y.config = x.config => Raised(y)
<1>1. \A S : ServicesOf(y, S) = ServicesOf(x, S) BY Zenon DEF SameParts, ServicesOf, Services
<1>2. \A ip : AddressHealthy(y, ip) <=> AddressHealthy(x, ip)
  BY <1>1 DEF AddressHealthy, SameParts
<1> QED BY <1>2, Zenon DEF Upheld, Raised, SameParts, SameActive

(* Setting vips changes nothing Good is about.                             *)
LEMMA VipsFrame ==
    ASSUME NEW x \in VType, NEW S \in SUBSET (IPs \X VIPTypes)
    PROVE  LET y == [x EXCEPT !.vips = S] IN
           /\ y \in VType /\ SameParts(x, y) /\ y.config = x.config /\ y.nilDests = x.nilDests
           /\ SameNet(x, y) /\ y.vips = S
BY Zenon DEF VType, SameParts, SameActive, SameIPVS, SameNet

(* Setting checks changes nothing Good is about.                           *)
LEMMA ChecksFrameHolds ==
    ASSUME NEW x \in VType, NEW C \in [CheckKeys -> States \cup {Nil}]
    PROVE  LET y == [x EXCEPT !.checks = C] IN
           /\ y \in VType /\ SameParts(x, y) /\ y.config = x.config
           /\ SameNet(x, y) /\ y.vips = x.vips
BY DEF VType, SameParts, SameActive, SameIPVS, SameNet

(* Allocating firewall marks changes nothing Good is about.                *)
LEMMA MarksFrame ==
    ASSUME NEW x \in VType, NEW F \in SUBSET AFs
    PROVE  LET y == [x EXCEPT !.fwm = F] IN
           /\ y \in VType /\ SameParts(x, y) /\ y.config = x.config
           /\ SameNet(x, y) /\ y.vips = x.vips /\ y.override = x.override
BY Zenon DEF VType, SameParts, SameActive, SameIPVS, SameNet

(* Setting the configuration changes nothing Good is about.                *)
LEMMA ConfigFrameHolds ==
    ASSUME NEW x \in VType, NEW c \in Configs
    PROVE  LET y == [x EXCEPT !.config = c] IN
           /\ y \in VType /\ SameParts(x, y) /\ y.config = c
           /\ SameNet(x, y) /\ y.vips = x.vips
BY Zenon DEF VType, SameParts, SameActive, SameIPVS, SameNet

(* Setting the vserver's override changes nothing Good is about.           *)
LEMMA OverrideFrameHolds ==
    ASSUME NEW x \in VType, NEW s \in OverrideStates
    PROVE  LET y == [x EXCEPT !.override = s] IN
           /\ y \in VType /\ SameParts(x, y) /\ y.config = x.config
           /\ SameNet(x, y) /\ y.vips = x.vips
BY Zenon DEF VType, SameParts, SameActive, SameIPVS, SameNet

(* The frames compose.                                                     *)
LEMMA PartsTransitiveHolds ==
    ASSUME NEW x, NEW y, NEW z, SameParts(x, y), SameParts(y, z)
    PROVE  SameParts(x, z)
BY Zenon DEF SameParts, SameActive, SameIPVS

(* What leaves the vserver alone leaves its parts alone.                   *)
LEMMA SameVserverParts ==
    ASSUME NEW x, NEW y, SameVserver(x, y), SameActive(x, y), SameIPVS(x, y)
    PROVE  y \in VType /\ SameParts(x, y) /\ y.config = x.config /\ y.vips = x.vips
BY Zenon DEF SameVserver, SameParts

(* With nothing active, Exact says that the IPVS table is empty.           *)
LEMMA ExactEmpty ==
    ASSUME NEW x, x.activeSvcs = {}, x.activeDests = {}
    PROVE  Exact(x) <=> x.node.services = {} /\ x.node.dests = {} /\ IPVSCallsOK(x)
BY Zenon DEF Exact, ExactSvcs, ExactDests

(* vserver.downAll preserves Good, and leaves no service and no VIP that   *)
(* was held up by one active.                                              *)
LEMMA DownAllGoodHolds ==
    ASSUME SameNames, SameTransitive, ServiceDownEffect, CascadeRepairable,
           SameAnnounced, VserverDownEffect,
           NEW x, Good(x)
    PROVE  LET y == DownAll(x) IN
           /\ Good(y) /\ SameVserver(x, y) /\ y.activeSvcs = {} /\ y.activeDests = {}
           /\ Exact(x) => Exact(y)
           /\ Announced(x) => Announced(y)
           /\ Upheld(x) => y.active = {}
<1> DEFINE S == {x.svc[k].vip : k \in Services(x)} \cap x.active
           z == VserverDown(x, S)
           y == DownAll(x)
<1>1. y = ServiceDown(z, z.activeSvcs) BY Zenon DEF DownAll
<1>2. Repairable(x, S) BY Zenon DEF CascadeRepairable, Good
<1>3. S \subseteq x.active BY Zenon
<1>4. \A k \in Services(x) : x.svc[k].vip \in x.active => x.svc[k].vip \in S BY Zenon
<1>5. Upheld(x) => x.active \subseteq S
  <2>1. \A ip : AddressHealthy(x, ip) => \E k \in Services(x) : x.svc[k].vip = ip
    BY Zenon DEF AddressHealthy, ServicesOf
  <2> QED BY <2>1, Zenon DEF Upheld
<1> HIDE DEF S, y
<1>6. /\ WellFormed(z) /\ SameVserver(x, z) /\ z.active = x.active \ S /\ Cascade(z)
      /\ Installed(x) => Installed(z)
      /\ Installed(x) /\ Exact(x) => Exact(z)
      /\ Announced(x) /\ S \subseteq x.active => Announced(z)
  BY <1>2, Zenon DEF VserverDownEffect, Good
<1>7. Installed(z) /\ (Exact(x) => Exact(z)) /\ (Announced(x) => Announced(z))
  BY <1>3, <1>6, Zenon DEF Good
<1> HIDE DEF z
<1>8. z.activeSvcs \in SUBSET Services(z) BY <1>6, Zenon DEF WellFormed
<1>9. /\ WellFormed(y) /\ SameVserver(z, y) /\ SameNet(z, y)
      /\ y.active = z.active /\ y.activeSvcs = z.activeSvcs \ z.activeSvcs
      /\ \A d \in Destinations(z) : d \in y.activeDests <=>
                d[1] \notin z.activeSvcs /\ d \in z.activeDests
      /\ Installed(z) => Installed(y)
      /\ Installed(z) /\ Exact(z) /\ z.activeSvcs \subseteq z.activeSvcs => Exact(y)
  BY <1>1, <1>6, <1>8 DEF ServiceDownEffect
<1>10. Services(y) = Services(x) /\ Services(z) = Services(x)
      /\ Destinations(y) = Destinations(z) /\ y.svc = x.svc
  BY <1>6, <1>9 DEF SameNames, SameVserver
<1>11. \A k \in Services(y) : y.svc[k].vip \notin y.active
  BY <1>4, <1>6, <1>9, <1>10, Zenon
<1>12. y.activeSvcs = {} BY <1>9, Zenon
<1>13. \A d \in Destinations(y) : d \notin y.activeDests
  BY <1>6, <1>9, <1>10, Zenon DEF Cascade
<1>14. Cascade(y) BY <1>11, <1>12, <1>13, Zenon DEF Cascade
<1>15. y.activeDests = {} BY <1>9, <1>13, Zenon DEF WellFormed
<1>16. SameVserver(x, y) BY <1>6, <1>9, Zenon DEF SameTransitive
<1>17. Announced(z) => Announced(y) BY <1>9, Zenon DEF SameAnnounced, SameVserver
<1>18. Upheld(x) => y.active = {} BY <1>5, <1>6, <1>9, Zenon
<1> QED BY <1>7, <1>9, <1>12, <1>14, <1>15, <1>16, <1>17, <1>18, Zenon DEF Good, y

(* vserver.unconfigureVIPs preserves Good, and deletes the VIPs it is      *)
(* given.                                                                  *)
LEMMA UnconfigureVIPsGoodHolds ==
    ASSUME DeleteVIPNode, SameGuarded, DeleteVIPGuarded,
           NEW x, Good(x), NEW S
    PROVE  LET y == UnconfigureVIPs(x, S) IN
           /\ Good(y) /\ SameParts(x, y) /\ y.config = x.config
           /\ y.vips = x.vips \ S
           /\ Announced(x) /\ S \subseteq x.vips => Announced(y)
<1> DEFINE z == DeleteVIP(x, S)
           y == UnconfigureVIPs(x, S)
<1>1. /\ SameVserver(x, z) /\ SameActive(x, z) /\ SameIPVS(x, z)
      /\ z.node.addrs = x.node.addrs \ S /\ z.node.routes = x.node.routes
  BY Zenon DEF DeleteVIPNode, Good
<1>2. y = [z EXCEPT !.vips = z.vips \ S] BY Zenon DEF UnconfigureVIPs
<1>3. ASSUME Announced(x), S \subseteq x.vips PROVE Guarded(z)
  <2>1. S \subseteq x.node.addrs BY <1>3, Zenon DEF Announced
  <2> QED BY <1>3, <2>1, Zenon DEF DeleteVIPGuarded, Good, Announced
<1> HIDE DEF z, y
<1>4. z \in VType /\ SameParts(x, z) /\ z.config = x.config /\ z.vips = x.vips
  BY <1>1, SameVserverParts, Zenon
<1>5. z.vips \ S \in SUBSET (IPs \X VIPTypes) BY <1>4, Zenon DEF VType
<1>6. /\ y \in VType /\ SameParts(z, y) /\ y.config = z.config
      /\ SameNet(z, y) /\ y.vips = z.vips \ S
  BY <1>2, <1>4, <1>5, VipsFrame, Zenon
<1>7. SameParts(x, y) /\ y.config = x.config BY <1>4, <1>6, PartsTransitiveHolds, Zenon
<1>8. Good(y) BY <1>6, <1>7, GoodFrameHolds, Zenon
<1>9. ASSUME Announced(x), S \subseteq x.vips PROVE Announced(y)
  <2>1. Guarded(y) BY <1>3, <1>6, <1>9, Zenon DEF SameGuarded, SameNet
  <2>2. y.active = x.active BY <1>7, Zenon DEF SameParts, SameActive
  <2>3. y.node.routes = IF AnycastEnabled THEN y.active \cap Anycast ELSE {}
    BY <1>1, <1>6, <1>9, <2>2, Zenon DEF Announced, SameNet
  <2>4. y.node.addrs = y.vips \cup AnycastVIPs(y.active)
    <3>1. S \cap AnycastVIPs(x.active) = {} BY <1>9 DEF Announced, AnycastVIPs
    <3>2. y.node.addrs = x.node.addrs \ S /\ y.vips = x.vips \ S
      BY <1>1, <1>4, <1>6, Zenon DEF SameNet
    <3> QED BY <1>9, <2>2, <3>1, <3>2, Zenon DEF Announced
  <2> QED BY <1>4, <1>6, <1>9, <2>1, <2>3, <2>4, Zenon DEF Announced
<1> QED BY <1>4, <1>6, <1>7, <1>8, <1>9, Zenon DEF y

(* The VIPs of a configuration are typed addresses of it.                  *)
LEMMA VIPsTyped ==
    ASSUME NEW c \in Configs
    PROVE  /\ VIPs(c) \in SUBSET (IPs \X VIPTypes)
           /\ \A vip \in VIPs(c) : /\ vip[1] = IPOf(c, vip[1][1])
                                   /\ vip[2] = VIPType(c, vip[1])
                                   /\ vip = <<vip[1], vip[2]>>
<1>1. c.addr \in [AFs -> Addrs \cup {Nil}] BY ConstantsAssumption, Zenon DEF ConfigType
<1>2. \A af \in AFs : c.addr[af] # Nil => IPOf(c, af) \in IPs BY <1>1, Zenon DEF IPOf, IPs
<1>3. \A ip : VIPType(c, ip) \in VIPTypes BY Zenon DEF VIPType, VIPTypes
<1>4. \A vip \in VIPs(c) : \E af \in AFs :
        c.addr[af] # Nil /\ vip = <<IPOf(c, af), VIPType(c, IPOf(c, af))>>
  BY Zenon DEF VIPs
<1>5. \A af \in AFs : IPOf(c, af)[1] = af BY Zenon DEF IPOf
<1> QED BY <1>2, <1>3, <1>4, <1>5

(* vserver.configureVIPs preserves Good, and adds the VIPs not yet held.   *)
LEMMA ConfigureVIPsGood ==
    ASSUME IdsOf, AddVIPNode, SameGuarded, AddVIPGuarded,
           NEW x, Good(x), x.config # Nil
    PROVE  LET y == ConfigureVIPs(x) IN
           /\ Good(y) /\ SameParts(x, y) /\ y.config = x.config
           /\ y.vips = x.vips \cup OwnVIPs(x.config)
           /\ Announced(x) /\ TypesCurrent(x) => Announced(y)
<1> DEFINE S == {vip \in VIPs(x.config) : vip \notin x.vips /\ vip[2] # "Anycast"}
           z == AddVIP(x, S)
           y == ConfigureVIPs(x)
<1>1. x.config \in Configs BY Zenon DEF Good, WellFormed, VType
<1>2. S \in SUBSET (IPs \X VIPTypes) BY <1>1, VIPsTyped, Zenon
<1>3. y = [z EXCEPT !.vips = z.vips \cup S] BY Zenon DEF ConfigureVIPs
<1>4. x.vips \cup S = x.vips \cup OwnVIPs(x.config) BY Zenon DEF OwnVIPs
<1>5. \A s \in S : /\ s \notin x.vips /\ s[1] \notin Anycast
                   /\ s[1] = IPOf(x.config, s[1][1]) /\ s[2] = VIPType(x.config, s[1])
                   /\ s = <<s[1], s[2]>>
  <2>1. \A s \in S : s \in VIPs(x.config) /\ s \notin x.vips /\ s[2] # "Anycast" BY Zenon
  <2>2. \A s \in S : /\ s[1] = IPOf(x.config, s[1][1]) /\ s[2] = VIPType(x.config, s[1])
                     /\ s = <<s[1], s[2]>>
    BY <1>1, <2>1, VIPsTyped, Zenon
  <2> QED BY <2>1, <2>2, Zenon DEF VIPType
<1> HIDE DEF S, y
<1>6. /\ SameVserver(x, z) /\ SameActive(x, z) /\ SameIPVS(x, z)
      /\ z.node.addrs = x.node.addrs \cup S /\ z.node.routes = x.node.routes
  BY <1>2, Zenon DEF AddVIPNode, Good
<1>7. ASSUME Announced(x), TypesCurrent(x) PROVE Guarded(z)
  <2>1. \A s, t \in S : s[1] = t[1] => s = t BY <1>5
  <2>2. \A ip \in Ids(S) : ip = IPOf(x.config, ip[1]) BY <1>5 DEF IdsOf
  <2>3. Ids(S) \cap Ids(x.node.addrs) = {}
    <3> SUFFICES ASSUME NEW s \in S, NEW e \in x.node.addrs, s[1] = e[1] PROVE FALSE
      BY DEF IdsOf
    <3>1. CASE e \in AnycastVIPs(x.active) BY <1>5, <3>1 DEF AnycastVIPs
    <3>2. CASE e \in x.vips
      <4>1. e = <<e[1], e[2]>> BY <3>2 DEF Good, WellFormed, VType
      <4>2. e[2] = s[2] BY <1>5, <1>7, <3>2, Zenon DEF TypesCurrent
      <4> QED BY <1>5, <3>2, <4>1, <4>2, Zenon
    <3> QED BY <1>7, <3>1, <3>2, Zenon DEF Announced
  <2>4. WellFormed(x) /\ Guarded(x) BY <1>7, Zenon DEF Good, Announced
  <2> QED BY <1>2, <2>1, <2>2, <2>3, <2>4, Zenon DEF AddVIPGuarded
<1> HIDE DEF z
<1>8. z \in VType /\ SameParts(x, z) /\ z.config = x.config /\ z.vips = x.vips
  BY <1>6, SameVserverParts, Zenon
<1>9. z.vips \cup S \in SUBSET (IPs \X VIPTypes) BY <1>2, <1>8, Zenon DEF VType
<1>10. /\ y \in VType /\ SameParts(z, y) /\ y.config = z.config
       /\ SameNet(z, y) /\ y.vips = z.vips \cup S
  BY <1>3, <1>8, <1>9, VipsFrame, Zenon
<1>11. SameParts(x, y) /\ y.config = x.config BY <1>8, <1>10, PartsTransitiveHolds, Zenon
<1>12. Good(y) BY <1>10, <1>11, GoodFrameHolds, Zenon
<1>13. ASSUME Announced(x), TypesCurrent(x) PROVE Announced(y)
  <2>1. Guarded(y) BY <1>7, <1>10, <1>13, Zenon DEF SameGuarded, SameNet
  <2>2. y.active = x.active BY <1>11, Zenon DEF SameParts, SameActive
  <2>3. y.node.routes = IF AnycastEnabled THEN y.active \cap Anycast ELSE {}
    BY <1>6, <1>10, <1>13, <2>2, Zenon DEF Announced, SameNet
  <2>4. y.node.addrs = y.vips \cup AnycastVIPs(y.active)
    BY <1>6, <1>8, <1>10, <1>13, <2>2, Zenon DEF Announced, SameNet
  <2>5. \A vip \in y.vips : vip[1] \notin Anycast
    BY <1>5, <1>8, <1>10, <1>13, Zenon DEF Announced
  <2> QED BY <2>1, <2>3, <2>4, <2>5, Zenon DEF Announced
<1> QED BY <1>4, <1>8, <1>10, <1>11, <1>12, <1>13, Zenon DEF y

(* expandChecks preserves Good.                                            *)
LEMMA ExpandChecksGood ==
    ASSUME NEW x, Good(x)
    PROVE  LET y == ExpandChecks(x) IN
           /\ Good(y) /\ SameParts(x, y) /\ y.config = x.config
           /\ SameNet(x, y) /\ y.vips = x.vips
<1> DEFINE C == [c \in CheckKeys |->
            IF \E d \in Destinations(x) : c \in ChecksOf(x, d)
            THEN IF x.checks[c] = Nil THEN "Unknown" ELSE x.checks[c]
            ELSE Nil]
<1>1. ExpandChecks(x) = [x EXCEPT !.checks = C] BY Zenon DEF ExpandChecks
<1>2. x \in VType BY Zenon DEF Good, WellFormed
<1>3. x.checks \in [CheckKeys -> States \cup {Nil}] BY <1>2, Zenon DEF VType
<1>4. C \in [CheckKeys -> States \cup {Nil}] BY <1>3, Zenon DEF States
<1> HIDE DEF C
<1> DEFINE y == [x EXCEPT !.checks = C]
<1>5. /\ y \in VType /\ SameParts(x, y) /\ y.config = x.config
      /\ SameNet(x, y) /\ y.vips = x.vips
  BY <1>2, <1>4, ChecksFrameHolds, Zenon
<1> HIDE DEF y
<1>6. Good(y) BY <1>5, GoodFrameHolds, Zenon
<1> QED BY <1>1, <1>5, <1>6, Zenon DEF y

(* What expandServices and expandDests build from a configuration is       *)
(* typed.                                                                  *)
LEMMA ConfigTypesHolds ==
    ASSUME NEW c \in Configs
    PROVE  /\ c # Nil /\ c.enabled \in BOOLEAN
           /\ ServiceKeys(c) \subseteq Keys
           /\ \A k \in ServiceKeys(c) : IPOf(c, k[1]) \in IPs /\ EntryOf(c, k) \in EntryType
           /\ \A k \in Keys : \A b \in BackendsFor(c, k) : b \in Backends /\ c.backends[b] \in BackendType
<1>1. c \in ConfigType BY ConstantsAssumption, Zenon
<1>2. c # Nil BY <1>1, ConstantsAssumption, Zenon
<1>3. c.enabled \in BOOLEAN BY <1>1, Zenon DEF ConfigType
<1>4. ServiceKeys(c) \subseteq Keys BY Zenon DEF ServiceKeys, Keys, EntryPorts
<1>5. c.addr \in [AFs -> Addrs \cup {Nil}] /\ c.entries \in [Ports -> EntryType \cup {Nil}]
      /\ c.backends \in [Backends -> BackendType \cup {Nil}]
  BY <1>1, Zenon DEF ConfigType
<1>6. \A k \in ServiceKeys(c) : IPOf(c, k[1]) \in IPs BY <1>5, Zenon DEF ServiceKeys, IPOf, IPs
<1>7. \A p \in EntryPorts(c) : c.entries[p] \in EntryType BY <1>5, Zenon DEF EntryPorts
<1>8. ASSUME NEW k \in ServiceKeys(c) PROVE EntryOf(c, k) \in EntryType
  <2>1. CASE c.useFWM
    <3>1. EntryPorts(c) # {} BY <2>1, ConstantsAssumption, Zenon
    <3>2. (CHOOSE p \in EntryPorts(c) : TRUE) \in EntryPorts(c) BY <3>1, Zenon
    <3> QED BY <2>1, <3>2, <1>7, Zenon DEF EntryOf
  <2>2. CASE ~c.useFWM
    <3>1. k[2] \in EntryPorts(c) BY <2>2, Zenon DEF ServiceKeys
    <3> QED BY <2>2, <3>1, <1>7, Zenon DEF EntryOf
  <2> QED BY <2>1, <2>2, Zenon
<1>9. \A k \in Keys : \A b \in BackendsFor(c, k) : b \in Backends /\ c.backends[b] \in BackendType
  BY <1>5, Zenon DEF BackendsFor, BackendNames
<1> QED BY <1>2, <1>3, <1>4, <1>6, <1>8, <1>9, Zenon

(* The end of handleConfigUpdate preserves Good, and leaves an enabled     *)
(* vserver with the VIPs of its configuration.                             *)
LEMMA EndConfigUpdateGoodHolds ==
    ASSUME IdsOf, AddVIPNode, DeleteVIPNode, SameGuarded, DeleteVIPGuarded,
           AddVIPGuarded, SameAnnounced,
           NEW x, Good(x)
    PROVE  LET y == EndConfigUpdate(x) IN
           /\ Good(y) /\ SameParts(x, y) /\ y.config = x.config
           /\ Announced(x) /\ TypesCurrent(x) => Announced(y)
           /\ Announced(x) /\ TypesCurrent(x) /\ Current(x) /\ x.enabled
                => y.vips = OwnVIPs(y.config)
<1> DEFINE needed == {x.svc[k].vip : k \in Services(x)}
           S == {vip \in x.vips : vip[1] \notin needed}
           z == UnconfigureVIPs(x, S)
           u == ExpandChecks(z)
           y == EndConfigUpdate(x)
<1>1. y = IF u.enabled THEN ConfigureVIPs(u) ELSE u BY Zenon DEF EndConfigUpdate
<1>2. S \subseteq x.vips BY Zenon
<1>3. ASSUME Announced(x), TypesCurrent(x), Current(x), x.config # Nil
      PROVE  x.vips \ S \subseteq OwnVIPs(x.config)
  <2> SUFFICES ASSUME NEW vip \in x.vips, vip[1] \in needed PROVE vip \in OwnVIPs(x.config)
    BY Zenon
  <2>1. PICK k \in Services(x) : vip[1] = x.svc[k].vip BY Zenon
  <2>2. k \in ServiceKeys(x.config) /\ vip[1] = IPOf(x.config, k[1])
    BY <1>3, <2>1, Zenon DEF Current
  <2>3. k[1] \in AFs /\ x.config.addr[k[1]] # Nil BY <2>2, Zenon DEF ServiceKeys
  <2>4. vip = <<vip[1], vip[2]>> BY DEF Good, WellFormed, VType
  <2>5. vip[2] = VIPType(x.config, vip[1]) /\ vip[1] \notin Anycast
    BY <1>3, Zenon DEF TypesCurrent, Announced
  <2>6. vip \in VIPs(x.config) BY <2>2, <2>3, <2>4, <2>5, Zenon DEF VIPs
  <2>7. vip[2] # "Anycast" BY <2>5, Zenon DEF VIPType
  <2> QED BY <2>6, <2>7, Zenon DEF OwnVIPs
<1> HIDE DEF S, y
<1>4. /\ Good(z) /\ SameParts(x, z) /\ z.config = x.config /\ z.vips = x.vips \ S
      /\ Announced(x) => Announced(z)
  BY <1>2, UnconfigureVIPsGoodHolds, Zenon
<1> HIDE DEF z
<1>5. /\ Good(u) /\ SameParts(z, u) /\ u.config = z.config
      /\ SameNet(z, u) /\ u.vips = z.vips
  BY <1>4, ExpandChecksGood, Zenon
<1> HIDE DEF u
<1>6. SameParts(x, u) /\ u.config = x.config /\ u.vips = x.vips \ S
  BY <1>4, <1>5, PartsTransitiveHolds, Zenon
<1>7. Announced(x) => Announced(u)
  BY <1>4, <1>5, Zenon DEF SameAnnounced, SameParts, SameActive
<1>8. TypesCurrent(x) => TypesCurrent(u) BY <1>6, Zenon DEF TypesCurrent
<1>9. u.enabled = x.enabled BY <1>6, Zenon DEF SameParts
<1>10. CASE u.enabled
  <2>1. u.config # Nil BY <1>5, <1>10, Zenon DEF Good, WellFormed
  <2>2. y = ConfigureVIPs(u) BY <1>1, <1>10, Zenon
  <2>3. /\ Good(y) /\ SameParts(u, y) /\ y.config = u.config
        /\ y.vips = u.vips \cup OwnVIPs(u.config)
        /\ Announced(u) /\ TypesCurrent(u) => Announced(y)
    BY <1>5, <2>1, <2>2, ConfigureVIPsGood, Zenon
  <2>4. SameParts(x, y) BY <1>6, <2>3, PartsTransitiveHolds, Zenon
  <2>5. ASSUME Announced(x), TypesCurrent(x), Current(x) PROVE y.vips = OwnVIPs(y.config)
    BY <1>3, <1>6, <2>1, <2>3, <2>5, Zenon
  <2> QED BY <1>6, <1>7, <1>8, <2>3, <2>4, <2>5, Zenon DEF y
<1>11. CASE ~u.enabled
  <2>1. y = u BY <1>1, <1>11, Zenon
  <2> QED BY <1>5, <1>6, <1>7, <1>9, <1>11, <2>1, Zenon DEF y
<1> QED BY <1>10, <1>11, Zenon

(* expandFWMServices' calls of the mark allocator change only fwm.         *)
LEMMA AllocateMarksFrameHolds ==
    ASSUME NEW x \in VType, NEW c
    PROVE  LET y == AllocateMarks(x, c) IN
           /\ y \in VType /\ SameParts(x, y) /\ y.config = x.config
           /\ SameNet(x, y) /\ y.vips = x.vips /\ y.override = x.override
<1> DEFINE F == IF c.useFWM THEN x.fwm \cup {af \in AFs : c.addr[af] # Nil} ELSE x.fwm
<1>1. AllocateMarks(x, c) = [x EXCEPT !.fwm = F] BY Zenon DEF AllocateMarks
<1>2. F \in SUBSET AFs BY Zenon DEF VType
<1> HIDE DEF F
<1> QED BY <1>1, <1>2, MarksFrame

(* A service that just started is not healthy, so no VIP is either.        *)
LEMMA NothingHealthy ==
    ASSUME NEW x, x.healthySvcs = {}
    PROVE  /\ \A ip : ~AddressHealthy(x, ip)
           /\ Raised(x)
           /\ x.active = {} => Upheld(x)
BY Zenon DEF AddressHealthy, Raised, Upheld

(* configInit establishes a good vserver: nothing of it is active.         *)
LEMMA ConfigInitGood ==
    ASSUME IdsOf, AddVIPNode, SameGuarded, AddVIPGuarded, SameAnnounced,
           NEW x \in VType, NEW c \in Configs
    PROVE  LET y == ConfigInit(x, c) IN
           /\ Good(y) /\ y.config = c /\ Current(y) /\ y.active = x.active
           /\ y.activeSvcs = {} /\ y.activeDests = {} /\ y.healthySvcs = {}
           /\ y.enabled = VserverEnabled(c, x.override)
           /\ x.node.services = {} /\ x.node.dests = {} /\ IPVSCallsOK(x) => Exact(y)
           /\ Announced(x) /\ x.vips = {} =>
                Announced(y) /\ y.vips = IF y.enabled THEN OwnVIPs(c) ELSE {}
<1> DEFINE K == ServiceKeys(c)
           e == VserverEnabled(c, x.override)
           s == [k \in Keys |-> IF k \in K THEN [vip |-> IPOf(c, k[1]), ventry |-> EntryOf(c, k)] ELSE Nil]
           b == [d \in Dests |-> IF d[1] \in K /\ d[2] \in BackendsFor(c, d[1])
                                 THEN c.backends[d[2]] ELSE Nil]
           i == [ck \in CheckKeys |-> Nil]
           m == AllocateMarks(x, c)
           y == [m EXCEPT
                !.config = c, !.enabled = e, !.svc = s,
                !.nilDests = {}, !.healthySvcs = {}, !.activeSvcs = {},
                !.backend = b, !.healthyDests = {}, !.activeDests = {},
                !.checks = i]
           z == ExpandChecks(y)
           u == ConfigInit(x, c)
<1>1. u = IF y.enabled THEN ConfigureVIPs(z) ELSE z BY Zenon DEF ConfigInit
<1> HIDE DEF u
<1>2. m \in VType /\ SameParts(x, m) /\ SameNet(x, m) /\ m.vips = x.vips
  BY AllocateMarksFrameHolds, Zenon
<1>3. e \in BOOLEAN BY ConfigTypesHolds, Zenon DEF VserverEnabled
<1>4. /\ s \in [Keys -> ServiceType \cup {Nil}] /\ \A k \in Keys : s[k] # Nil <=> k \in K
      /\ \A k \in Keys : k \in K => s[k].vip = IPOf(c, k[1])
  BY ConfigTypesHolds, ConstantsAssumption DEF ServiceType
<1>5. /\ b \in [Dests -> BackendType \cup {Nil}]
      /\ \A d \in Dests : b[d] # Nil => d[1] \in K
  BY ConfigTypesHolds, Zenon DEF Dests
<1>6. i \in [CheckKeys -> States \cup {Nil}] BY Zenon
<1> HIDE DEF e, s, b, i, m
<1>7. y \in VType BY <1>2, <1>3, <1>4, <1>5, <1>6, ZenonT(30) DEF VType
<1>8. /\ y.config = c /\ y.enabled = e /\ y.svc = s /\ y.backend = b
      /\ y.healthySvcs = {} /\ y.activeSvcs = {} /\ y.healthyDests = {} /\ y.activeDests = {}
      /\ y.active = m.active /\ y.vips = m.vips /\ y.node = m.node /\ y.lbVservers = m.lbVservers
  BY <1>2, Zenon DEF VType
<1> HIDE DEF y
<1>9. c # Nil /\ K \subseteq Keys BY ConfigTypesHolds, Zenon
<1>10. Services(y) = K BY <1>4, <1>8, <1>9, Zenon DEF Services
<1>11. Good(y)
  <2>1. \A d \in Destinations(y) : d[1] \in Services(y)
    BY <1>5, <1>8, <1>10, Zenon DEF Destinations
  <2>2. WellFormed(y) BY <1>7, <1>8, <1>9, <2>1, Zenon DEF WellFormed
  <2> QED BY <1>8, <2>2, Zenon DEF Good, Cascade, Installed
<1>12. /\ y.active = x.active /\ y.vips = x.vips
       /\ y.node.services = x.node.services /\ y.node.dests = x.node.dests
       /\ IPVSCallsOK(x) => IPVSCallsOK(y)
  BY <1>2, <1>8, Zenon DEF SameParts, SameActive, SameIPVS, IPVSCallsOK
<1>13. SameNet(x, y) BY <1>2, <1>8, Zenon DEF SameNet
<1>14. Announced(x) => Announced(y) BY <1>12, <1>13, Zenon DEF SameAnnounced
<1>15. x.node.services = {} /\ x.node.dests = {} /\ IPVSCallsOK(x) => Exact(y)
  BY <1>8, <1>12, ExactEmpty, Zenon
<1>16. /\ Good(z) /\ SameParts(y, z) /\ z.config = y.config
       /\ SameNet(y, z) /\ z.vips = y.vips
  BY <1>11, ExpandChecksGood, Zenon
<1> HIDE DEF z
<1>17. Announced(y) => Announced(z) BY <1>16, Zenon DEF SameAnnounced, SameParts, SameActive
<1>18. /\ Good(u) /\ SameParts(y, u) /\ u.config = c
       /\ Announced(y) /\ y.vips = {} =>
            Announced(u) /\ u.vips = IF u.enabled THEN OwnVIPs(c) ELSE {}
  <2>1. CASE y.enabled
    <3>1. z.config # Nil BY <1>8, <1>9, <1>16, Zenon
    <3>2. u = ConfigureVIPs(z) BY <1>1, <2>1, Zenon
    <3>3. /\ Good(u) /\ SameParts(z, u) /\ u.config = z.config
          /\ u.vips = z.vips \cup OwnVIPs(z.config)
          /\ Announced(z) /\ TypesCurrent(z) => Announced(u)
      BY <1>16, <3>1, <3>2, ConfigureVIPsGood, Zenon
    <3>4. SameParts(y, u) BY <1>16, <3>3, PartsTransitiveHolds, Zenon
    <3>5. u.enabled BY <2>1, <3>4, Zenon DEF SameParts
    <3>6. y.vips = {} => TypesCurrent(z) BY <1>16, Zenon DEF TypesCurrent
    <3> QED BY <1>8, <1>16, <1>17, <3>3, <3>4, <3>5, <3>6, Zenon
  <2>2. CASE ~y.enabled
    <3>1. u = z BY <1>1, <2>2, Zenon
    <3>2. ~u.enabled BY <1>16, <2>2, <3>1, Zenon DEF SameParts
    <3> QED BY <1>8, <1>16, <1>17, <3>1, <3>2, Zenon
  <2> QED BY <2>1, <2>2, Zenon
<1>19. Exact(y) => Exact(u)
  <2>1. u \in VType BY <1>18, Zenon DEF Good, WellFormed
  <2> QED BY <1>8, <1>11, <1>9, <1>18, <2>1, GoodFrameHolds, Zenon
<1>20. /\ u.svc = s /\ Services(u) = K /\ u.active = x.active
       /\ u.activeSvcs = {} /\ u.activeDests = {} /\ u.healthySvcs = {} /\ u.enabled = e
  BY <1>8, <1>10, <1>12, <1>18, Zenon DEF SameParts, SameActive, Services
<1>21. Current(u) BY <1>4, <1>9, <1>18, <1>20, Zenon DEF Current
<1> QED BY <1>12, <1>14, <1>15, <1>18, <1>19, <1>20, <1>21, Zenon DEF u, e

(* The restart in handleConfigUpdate (downAll, unconfigureVIPs,            *)
(* configInit) preserves Good, and takes down what was up.                 *)
LEMMA RestartGoodHolds ==
    ASSUME IdsOf, AddVIPNode, DeleteVIPNode, SameNames, SameTransitive,
           ServiceDownEffect, CascadeRepairable, SameGuarded, DeleteVIPGuarded,
           AddVIPGuarded, SameAnnounced, VserverDownEffect,
           NEW x, Good(x), NEW c \in Configs
    PROVE  LET y == Restart(x, c) IN
           /\ Good(y) /\ y.config = c /\ Current(y) /\ Raised(y)
           /\ Upheld(x) /\ Quiet(x) => Upheld(y) /\ y.active = {} /\ (Exact(x) => Exact(y))
           /\ Announced(x) /\ Quiet(x) =>
                Announced(y) /\ y.vips = IF y.enabled THEN OwnVIPs(c) ELSE {}
<1> DEFINE w == DownAll(x)
           z == UnconfigureVIPs(w, w.vips)
           u == IF x.enabled THEN z ELSE x
           y == Restart(x, c)
<1>1. y = ConfigInit(u, c) BY Zenon DEF Restart, Good, WellFormed
<1>2. /\ Good(w) /\ SameVserver(x, w) /\ w.activeSvcs = {} /\ w.activeDests = {}
      /\ Exact(x) => Exact(w)
      /\ Announced(x) => Announced(w)
      /\ Upheld(x) => w.active = {}
  BY DownAllGoodHolds, Zenon
<1> HIDE DEF w, y
<1>3. /\ Good(z) /\ SameParts(w, z) /\ z.config = w.config
      /\ z.vips = w.vips \ w.vips
      /\ Announced(w) /\ w.vips \subseteq w.vips => Announced(z)
  BY <1>2, UnconfigureVIPsGoodHolds, Zenon
<1> HIDE DEF z
<1>4. u \in VType BY <1>3, Zenon DEF Good, WellFormed
<1>5. Upheld(x) /\ Quiet(x) => u.active = {}
  BY <1>2, <1>3, Zenon DEF Quiet, SameParts, SameActive
<1>6. Announced(x) /\ Quiet(x) => Announced(u) /\ u.vips = {}
  BY <1>2, <1>3, Zenon DEF Quiet
<1>7. Exact(x) /\ Upheld(x) /\ Quiet(x) =>
        u.node.services = {} /\ u.node.dests = {} /\ IPVSCallsOK(u)
  <2>1. ASSUME Exact(x), Quiet(x), ~x.enabled PROVE x.activeSvcs = {} /\ x.activeDests = {}
    BY <2>1, Zenon DEF Quiet, Good, Cascade, WellFormed
  <2>2. CASE ~x.enabled BY <2>1, <2>2, ExactEmpty, Zenon
  <2>3. CASE x.enabled
    <3>1. Exact(x) => w.node.services = {} /\ w.node.dests = {} /\ IPVSCallsOK(w)
      BY <1>2, ExactEmpty, Zenon
    <3> QED BY <1>3, <2>3, <3>1, Zenon DEF SameParts, SameIPVS, IPVSCallsOK
  <2> QED BY <2>2, <2>3, Zenon
<1> HIDE DEF u
<1>8. /\ Good(y) /\ y.config = c /\ Current(y) /\ y.active = u.active
      /\ y.activeSvcs = {} /\ y.activeDests = {} /\ y.healthySvcs = {}
      /\ u.node.services = {} /\ u.node.dests = {} /\ IPVSCallsOK(u) => Exact(y)
      /\ Announced(u) /\ u.vips = {} =>
           Announced(y) /\ y.vips = IF y.enabled THEN OwnVIPs(c) ELSE {}
  BY <1>1, <1>4, ConfigInitGood, Zenon
<1>9. Raised(y) /\ (y.active = {} => Upheld(y)) BY <1>8, NothingHealthy, Zenon
<1> QED BY <1>5, <1>6, <1>7, <1>8, <1>9, Zenon DEF y

(* What is active, under the same names and parameters, stays installed as *)
(* it was.                                                                 *)
LEMMA SameEntriesHolds ==
    ASSUME NEW x, NEW y, SameIPVS(x, y),
           y.activeSvcs = x.activeSvcs, y.activeDests = x.activeDests,
           \A j \in x.activeSvcs : /\ IpvsId(y, j) = IpvsId(x, j)
                                   /\ y.svc[j].ventry.sched = x.svc[j].ventry.sched,
           \A d \in x.activeDests : IpvsDestId(y, d) = IpvsDestId(x, d),
           \A d \in x.activeDests : d \in y.healthyDests =>
                d \in x.healthyDests /\ y.backend[d].weight = x.backend[d].weight
    PROVE  (Installed(x) => Installed(y)) /\ (Exact(x) => Exact(y))
<1>1. Installed(x) => Installed(y) BY Zenon DEF Installed, SameIPVS
<1>2. ExactSvcs(x) => ExactSvcs(y) BY DEF ExactSvcs, SameIPVS
<1>3. ExactDests(x) => ExactDests(y) BY DEF ExactDests, IPVSCallsOK, SameIPVS
<1> QED BY <1>1, <1>2, <1>3, Zenon DEF Exact

(* A VIP is as healthy as before if it has the services it had, as healthy *)
(* as they were.                                                           *)
LEMMA HealthAtHolds ==
    ASSUME NEW x, NEW y, NEW ip, ServicesOf(y, {ip}) = ServicesOf(x, {ip}),
           \A j \in ServicesOf(x, {ip}) : j \in y.healthySvcs <=> j \in x.healthySvcs
    PROVE  AddressHealthy(y, ip) <=> AddressHealthy(x, ip)
BY Zenon DEF AddressHealthy

(* Dropping an inactive service with its destinations preserves Good, and  *)
(* loses nothing else if its VIP is abandoned.                             *)
LEMMA ForgetServiceGood ==
    ASSUME SameAnnounced,
           NEW x, Good(x), NEW k \in Services(x), k \notin x.activeSvcs
    PROVE  LET y == ForgetService(x, k) IN
           /\ Good(y) /\ SameConfig(x, y)
           /\ Services(y) = Services(x) \ {k}
           /\ \A j \in Services(y) : y.svc[j] = x.svc[j]
           /\ Abandoned(x, x.svc[k].vip) => Kept(x, y)
<1> DEFINE s == [x.svc EXCEPT ![k] = Nil]
           b == [d \in Dests |-> IF d[1] = k THEN Nil ELSE x.backend[d]]
           D == {k} \X Backends
           y == [x EXCEPT !.svc = s, !.nilDests = x.nilDests \ {k},
                          !.healthySvcs = x.healthySvcs \ {k}, !.activeSvcs = x.activeSvcs \ {k},
                          !.backend = b, !.healthyDests = x.healthyDests \ D,
                          !.activeDests = x.activeDests \ D]
<1>1. ForgetService(x, k) = y BY Zenon DEF ForgetService
<1>2. x \in VType /\ k \in Keys BY Zenon DEF Good, WellFormed, Services
<1>3. /\ s \in [Keys -> ServiceType \cup {Nil}]
      /\ \A j \in Keys : s[j] = IF j = k THEN Nil ELSE x.svc[j]
  BY <1>2, Zenon DEF VType
<1>4. b \in [Dests -> BackendType \cup {Nil}] BY <1>2, Zenon DEF VType
<1>5. \A d \in Dests : b[d] = IF d[1] = k THEN Nil ELSE x.backend[d] BY Zenon
<1>6. \A d \in Dests : d \in D <=> d[1] = k BY Zenon DEF Dests
<1> HIDE DEF s, b, D
<1>7. /\ y \in VType /\ SameConfig(x, y) /\ y.svc = s /\ y.backend = b
      /\ y.healthySvcs = x.healthySvcs \ {k} /\ y.activeSvcs = x.activeSvcs \ {k}
      /\ y.healthyDests = x.healthyDests \ D /\ y.activeDests = x.activeDests \ D
      /\ y.active = x.active /\ y.node = x.node /\ y.lbVservers = x.lbVservers
  BY <1>2, <1>3, <1>4, ZenonT(30) DEF VType, SameConfig
<1> HIDE DEF y
<1>8. Services(y) = Services(x) \ {k} BY <1>3, <1>7, Zenon DEF Services
<1>9. Destinations(y) = {d \in Destinations(x) : d[1] # k} BY <1>5, <1>7, Zenon DEF Destinations
<1>10. x.activeDests \subseteq Dests /\ x.healthyDests \subseteq Dests BY <1>2, Zenon DEF VType
<1>11. WellFormed(y)
  <2>1. y.enabled \/ Services(y) # {} => y.config # Nil
    BY <1>7, <1>8, Zenon DEF Good, WellFormed, SameConfig
  <2>2. \A d \in Destinations(y) : d[1] \in Services(y)
    BY <1>8, <1>9, Zenon DEF Good, WellFormed
  <2>3. y.healthySvcs \cup y.activeSvcs \subseteq Services(y)
    BY <1>7, <1>8, Zenon DEF Good, WellFormed
  <2>4. y.healthyDests \cup y.activeDests \subseteq Destinations(y)
    BY <1>6, <1>7, <1>9, <1>10, Zenon DEF Good, WellFormed
  <2> QED BY <1>7, <2>1, <2>2, <2>3, <2>4, Zenon DEF WellFormed
<1>12. \A j \in Services(y) : j \in Keys /\ j # k /\ j \in Services(x) /\ y.svc[j] = x.svc[j]
  BY <1>3, <1>7, <1>8, Zenon DEF Services
<1>13. \A d \in x.activeDests : d \in Dests /\ d[1] # k /\ d[1] \in Services(y)
  BY <1>8, <1>10, Zenon DEF Good, Cascade, WellFormed
<1>14. y.activeSvcs = x.activeSvcs /\ y.activeDests = x.activeDests
  BY <1>6, <1>7, <1>13
<1>15. Cascade(y)
  <2>1. \A d \in Destinations(y) : d \in Destinations(x) /\ d \in Dests /\ d[1] # k
    BY <1>9, Zenon DEF Destinations
  <2>2. \A d \in Destinations(y) : d \in y.healthyDests <=> d \in x.healthyDests
    BY <1>6, <1>7, <2>1, Zenon
  <2>3. \A d \in Destinations(y) :
          d \in y.activeDests <=> d \in y.healthyDests /\ d[1] \in y.activeSvcs
    BY <1>14, <2>1, <2>2, Zenon DEF Good, Cascade
  <2>4. \A j \in Services(y) :
          j \in y.activeSvcs <=> j \in y.healthySvcs /\ y.svc[j].vip \in y.active
    BY <1>7, <1>12, <1>14, Zenon DEF Good, Cascade
  <2> QED BY <2>3, <2>4, Zenon DEF Cascade
<1>16. \A j \in Services(y) : IpvsId(y, j) = IpvsId(x, j) BY <1>12, Zenon DEF IpvsId
<1>17. \A d \in x.activeDests : IpvsDestId(y, d) = IpvsDestId(x, d)
  BY <1>13, <1>16, Zenon DEF IpvsDestId
<1>18. \A j \in x.activeSvcs : j \in Services(y) BY <1>11, <1>14, Zenon DEF WellFormed
<1>19. \A d \in x.activeDests : d \in y.healthyDests =>
          d \in x.healthyDests /\ y.backend[d].weight = x.backend[d].weight
  BY <1>5, <1>7, <1>13, Zenon
<1>20. (Installed(x) => Installed(y)) /\ (Exact(x) => Exact(y))
  BY <1>7, <1>12, <1>14, <1>16, <1>17, <1>18, <1>19, SameEntriesHolds, Zenon DEF SameIPVS
<1>21. Announced(x) => Announced(y)
  BY <1>7, Zenon DEF SameAnnounced, SameNet, SameConfig
<1>22. ASSUME NEW ip, ip # x.svc[k].vip PROVE AddressHealthy(y, ip) <=> AddressHealthy(x, ip)
  <2>1. ServicesOf(y, {ip}) = ServicesOf(x, {ip}) BY <1>8, <1>12, <1>22, Zenon DEF ServicesOf
  <2>2. k \notin ServicesOf(x, {ip}) BY <1>22, Zenon DEF ServicesOf
  <2> QED BY <1>7, <2>1, <2>2, HealthAtHolds, Zenon
<1>23. Upheld(x) => Upheld(y)
  <2> SUFFICES ASSUME Upheld(x), NEW ip \in x.active PROVE AddressHealthy(y, ip)
    BY <1>7, Zenon DEF Upheld
  <2>1. AddressHealthy(x, ip) BY Zenon DEF Upheld
  <2>2. CASE ip # x.svc[k].vip BY <1>22, <2>1, <2>2, Zenon
  <2>3. CASE ip = x.svc[k].vip
    <3>1. k \notin x.healthySvcs BY <2>3, Zenon DEF Good, Cascade
    <3>2. k \in ServicesOf(x, {ip}) BY <2>3, Zenon DEF ServicesOf
    <3>3. ip \notin Anycast /\ ServicesOf(x, {ip}) \cap x.healthySvcs # {}
      BY <2>1, <3>1, <3>2, Zenon DEF AddressHealthy
    <3>4. ServicesOf(x, {ip}) \cap x.healthySvcs \subseteq ServicesOf(y, {ip}) \cap y.healthySvcs
      BY <1>7, <1>8, <1>12, <3>1, Zenon DEF ServicesOf
    <3> QED BY <3>3, <3>4, Zenon DEF AddressHealthy
  <2> QED BY <2>2, <2>3, Zenon
<1>24. Abandoned(x, x.svc[k].vip) /\ Raised(x) => Raised(y)
  BY <1>7, <1>22, Zenon DEF Raised, Abandoned, SameConfig
<1> QED BY <1>1, <1>7, <1>8, <1>11, <1>12, <1>15, <1>20, <1>21, <1>23, <1>24, Zenon DEF Good, Kept

(* vserver.deleteService preserves Good, and loses nothing else if the     *)
(* service's VIP is abandoned.                                             *)
LEMMA DeleteServiceGoodHolds ==
    ASSUME SameNames, SameAnnounced, VserverUpdateStateEffect, KeptTransitive,
           SameHealth, HealthElsewhere, VIPSettled, ShapeNames, HealthySvcsFrame,
           VIPTyped,
           NEW x, Good(x), NEW k \in Services(x)
    PROVE  LET y == DeleteService(x, k) IN
           /\ Good(y) /\ SameConfig(x, y)
           /\ Services(y) = Services(x) \ {k}
           /\ \A j \in Services(y) : y.svc[j] = x.svc[j]
           /\ Abandoned(x, x.svc[k].vip) => Kept(x, y)
<1>1. CASE k \notin x.activeSvcs
  BY <1>1, ForgetServiceGood, Zenon DEF DeleteService
<1>2. CASE k \in x.activeSvcs
  <2> DEFINE K == x.healthySvcs \ {k}
             ip == x.svc[k].vip
             z == [x EXCEPT !.healthySvcs = K]
             w == VserverUpdateState(z, ip)
             y == DeleteService(x, k)
  <2>1. y = ForgetService(w, k) BY <1>2, Zenon DEF DeleteService
  <2>2. K \in SUBSET Services(x) BY Zenon DEF Good, WellFormed
  <2>3. /\ WellFormed(z) /\ SameShape(x, z) /\ SameActive(x, z) /\ SameNet(x, z)
        /\ z.healthySvcs = K /\ z.healthyDests = x.healthyDests
        /\ (Installed(z) <=> Installed(x)) /\ (Exact(z) <=> Exact(x))
    BY <2>2, Zenon DEF HealthySvcsFrame, Good
  <2> HIDE DEF K, z, y
  <2>4. ip \in IPs BY Zenon DEF VIPTyped, Good
  <2>5. /\ Services(z) = Services(x) /\ Destinations(z) = Destinations(x) /\ z.svc = x.svc
        /\ z.config = x.config /\ z.vips = x.vips /\ z.enabled = x.enabled
        /\ z.active = x.active /\ z.activeSvcs = x.activeSvcs /\ z.activeDests = x.activeDests
    BY <2>3, Zenon DEF ShapeNames, SameShape, SameActive
  <2>6. Repairable(z, {ip})
    <3>1. \A j \in Services(z) : z.svc[j].vip \notin {ip} =>
            (j \in z.activeSvcs <=> j \in z.healthySvcs /\ z.svc[j].vip \in z.active)
      BY <2>3, <2>5, Zenon DEF Good, Cascade, K
    <3>2. \A d \in Destinations(z) :
            d \in z.activeDests <=> d \in z.healthyDests /\ d[1] \in z.activeSvcs
      BY <2>3, <2>5, Zenon DEF Good, Cascade
    <3> QED BY <3>1, <3>2, Zenon DEF Repairable
  <2>7. ip \in x.active BY <1>2, Zenon DEF Good, Cascade
  <2>8. Announced(x) => Announced(z) BY <2>3, <2>5, Zenon DEF SameAnnounced
  <2>9. /\ WellFormed(w) /\ SameVserver(z, w) /\ Cascade(w)
        /\ w.active = IF AddressHealthy(z, ip) THEN z.active \cup {ip} ELSE z.active \ {ip}
        /\ Installed(z) => Installed(w)
        /\ Installed(z) /\ Exact(z) => Exact(w)
        /\ Announced(z) /\ (ip \in z.active \/ ip = IPOf(z.config, ip[1])) => Announced(w)
    BY <2>3, <2>4, <2>6, Zenon DEF VserverUpdateStateEffect
  <2> HIDE DEF w
  <2>9a. /\ Services(w) = Services(z) /\ w.healthySvcs = z.healthySvcs /\ w.svc = z.svc
         /\ w.config = z.config /\ w.vips = z.vips /\ w.enabled = z.enabled
    BY <2>9, Zenon DEF SameNames, SameVserver
  <2>10. /\ Services(w) = Services(x) /\ w.healthySvcs = K /\ w.svc = x.svc
         /\ w.config = x.config /\ w.vips = x.vips /\ w.enabled = x.enabled
    BY <2>3, <2>5, <2>9a, Zenon
  <2>11. k \notin w.activeSvcs /\ Good(w) BY <2>3, <2>9, <2>10, Zenon DEF Cascade, Good, K
  <2>12. \A i : i # ip => (AddressHealthy(w, i) <=> AddressHealthy(x, i))
    BY <2>10, Zenon DEF HealthElsewhere, K
  <2>13. AddressHealthy(w, ip) <=> AddressHealthy(z, ip)
    BY <2>9, Zenon DEF SameHealth, SameVserver
  <2>14. (Upheld(x) => Upheld(w)) /\ (Raised(x) => Raised(w))
    BY <2>5, <2>9, <2>10, <2>12, <2>13, Zenon DEF VIPSettled
  <2>15. Kept(x, w) BY <2>3, <2>5, <2>7, <2>8, <2>9, <2>14, Zenon DEF Kept, Good
  <2>16. /\ Good(y) /\ SameConfig(w, y) /\ Services(y) = Services(w) \ {k}
         /\ \A j \in Services(y) : y.svc[j] = w.svc[j]
         /\ Abandoned(w, w.svc[k].vip) => Kept(w, y)
    BY <2>1, <2>10, <2>11, ForgetServiceGood
  <2>17. Abandoned(x, ip) => Kept(x, y)
    BY <2>10, <2>15, <2>16, Zenon DEF KeptTransitive, Abandoned
  <2> QED BY <2>10, <2>16, <2>17, Zenon DEF SameConfig, y
<1> QED BY <1>1, <1>2, Zenon

(* configUpdate's adoption of a new service, inactive until the            *)
(* updateState that follows, preserves Good and the rest.                  *)
LEMMA AddServiceGoodHolds ==
    ASSUME SameNames, CascadeRepairable, SameAnnounced, VserverUpdateStateEffect,
           SameHealth, VIPSettled,
           NEW x, Good(x), x.config # Nil, NEW k \in ServiceKeys(x.config), k \notin Services(x)
    PROVE  LET y == AddService(x, k) IN
           /\ Good(y) /\ SameConfig(x, y) /\ Kept(x, y)
           /\ Services(y) = Services(x) \cup {k}
           /\ \A j \in Services(x) : y.svc[j] = x.svc[j]
           /\ y.svc[k].vip = IPOf(x.config, k[1])
<1> DEFINE ip == IPOf(x.config, k[1])
           new == [vip |-> ip, ventry |-> EntryOf(x.config, k)]
           s == [x.svc EXCEPT ![k] = new]
           n == IF x.config.useFWM THEN x.nilDests \cup {k} ELSE x.nilDests
           z == [x EXCEPT !.svc = s, !.nilDests = n]
           y == VserverUpdateState(z, ip)
<1>1. AddService(x, k) = y BY Zenon DEF AddService
<1>2. x \in VType /\ x.config \in Configs BY Zenon DEF Good, WellFormed, VType
<1>3. k \in Keys /\ ip \in IPs /\ new \in ServiceType
  BY <1>2, ConfigTypesHolds, Zenon DEF ServiceType
<1>4. new # Nil /\ new.vip = ip BY <1>3, ConstantsAssumption, Zenon
<1>4a. ip = IPOf(x.config, ip[1]) BY Zenon DEF IPOf
<1> HIDE DEF new, ip
<1>5. /\ s \in [Keys -> ServiceType \cup {Nil}]
      /\ \A j \in Keys : s[j] = IF j = k THEN new ELSE x.svc[j]
  BY <1>2, <1>3, Zenon DEF VType
<1>6. n \in SUBSET Keys BY <1>2, <1>3, Zenon DEF VType
<1> HIDE DEF s, n
<1>7. /\ z \in VType /\ SameConfig(x, z) /\ z.svc = s /\ z.backend = x.backend
      /\ z.healthySvcs = x.healthySvcs /\ z.healthyDests = x.healthyDests
      /\ SameActive(x, z) /\ z.node = x.node /\ z.lbVservers = x.lbVservers
  BY <1>2, <1>5, <1>6, ZenonT(30) DEF VType, SameConfig, SameActive
<1> HIDE DEF z
<1>8. Services(z) = Services(x) \cup {k} BY <1>3, <1>4, <1>5, <1>7, Zenon DEF Services
<1>9. Destinations(z) = Destinations(x) BY <1>7, Zenon DEF Destinations
<1>10. WellFormed(z)
  BY <1>7, <1>8, <1>9, Zenon DEF Good, WellFormed, SameConfig, SameActive
<1>11. k \notin x.activeSvcs /\ k \notin x.healthySvcs BY Zenon DEF Good, WellFormed
<1>12. \A j \in Services(x) : j \in Keys /\ j # k /\ z.svc[j] = x.svc[j]
  BY <1>5, <1>7, Zenon DEF Services
<1>13. Cascade(z)
  BY <1>7, <1>8, <1>9, <1>11, <1>12, Zenon DEF Good, Cascade, SameActive
<1>14. \A j \in Services(x) : IpvsId(z, j) = IpvsId(x, j) BY <1>12, Zenon DEF IpvsId
<1>15. \A d \in Destinations(x) : IpvsDestId(z, d) = IpvsDestId(x, d)
  BY <1>14, Zenon DEF IpvsDestId, Good, WellFormed
<1>16. x.activeSvcs \subseteq Services(x) /\ x.activeDests \subseteq Destinations(x)
  BY Zenon DEF Good, WellFormed
<1>17. Installed(z) /\ (Exact(x) => Exact(z))
  <2>1. SameIPVS(x, z) BY <1>7, Zenon DEF SameIPVS
  <2> QED BY <1>7, <1>12, <1>14, <1>15, <1>16, <2>1, SameEntriesHolds, Zenon DEF Good, SameActive
<1>18. Repairable(z, {ip}) BY <1>13, Zenon DEF CascadeRepairable
<1>19. Announced(x) => Announced(z)
  BY <1>7, Zenon DEF SameAnnounced, SameNet, SameConfig, SameActive
<1>20. /\ WellFormed(y) /\ SameVserver(z, y) /\ Cascade(y)
       /\ y.active = IF AddressHealthy(z, ip) THEN z.active \cup {ip} ELSE z.active \ {ip}
       /\ Installed(z) => Installed(y)
       /\ Installed(z) /\ Exact(z) => Exact(y)
       /\ Announced(z) /\ (ip \in z.active \/ ip = IPOf(z.config, ip[1])) => Announced(y)
  BY <1>3, <1>10, <1>18, Zenon DEF VserverUpdateStateEffect
<1> HIDE DEF y
<1>21. y.svc = z.svc /\ Services(y) = Services(z) /\ SameConfig(x, y)
  BY <1>7, <1>20, Zenon DEF SameNames, SameVserver, SameConfig
<1>22. ASSUME NEW i, i # ip PROVE AddressHealthy(y, i) <=> AddressHealthy(x, i)
  <2>1. \A j \in Services(y) : j \in Services(x) \/ (j = k /\ y.svc[j].vip = ip)
    BY <1>3, <1>4, <1>5, <1>7, <1>8, <1>21, Zenon
  <2>2. ServicesOf(y, {i}) = ServicesOf(x, {i})
    BY <1>8, <1>12, <1>21, <1>22, <2>1, Zenon DEF ServicesOf
  <2>3. y.healthySvcs = x.healthySvcs BY <1>7, <1>20, Zenon DEF SameVserver
  <2> QED BY <2>2, <2>3, HealthAtHolds, Zenon
<1>23. AddressHealthy(y, ip) <=> AddressHealthy(z, ip)
  BY <1>20, Zenon DEF SameHealth, SameVserver
<1>24. (Upheld(x) => Upheld(y)) /\ (Raised(x) => Raised(y))
  <2>1. z.active = x.active /\ y.config = x.config
    BY <1>7, <1>21, Zenon DEF SameActive, SameConfig
  <2> QED BY <1>20, <1>22, <1>23, <2>1, Zenon DEF VIPSettled
<1>25. Kept(x, y)
  BY <1>4a, <1>7, <1>17, <1>19, <1>20, <1>24, Zenon DEF Kept, SameConfig
<1>26. y.svc[k].vip = ip BY <1>3, <1>4, <1>5, <1>7, <1>21, Zenon
<1>27. Good(y) BY <1>17, <1>20, Zenon DEF Good
<1> QED BY <1>1, <1>8, <1>12, <1>21, <1>25, <1>26, <1>27, Zenon DEF ip

-----------------------------------------------------------------------------
(* Distinct services, and distinct destinations, have distinct entries.    *)
IdsDiffer ==
    \A x :
           /\ \A j, k : IpvsId(x, j) = IpvsId(x, k) => j = k
           /\ \A d, e \in Dests : IpvsDestId(x, d) = IpvsDestId(x, e) => d = e
           /\ \A d : IpvsDestId(x, d)[1] = IpvsId(x, d[1])

(* IPVSUpdateService replaces the entry of the service k.                  *)
UpdateServiceNode ==
    \A x : \A k \in Services(x) :
        WellFormed(x) =>
           LET y == IPVSUpdateService(x, k) IN
           /\ SameVserver(x, y) /\ SameActive(x, y) /\ SameNet(x, y)
           /\ y.node.dests = x.node.dests
           /\ y.node.services = {e \in x.node.services : e[1] # IpvsId(x, k)}
                                   \cup {<<IpvsId(x, k), x.svc[k].ventry.sched>>}
           /\ IPVSCallsOK(x) /\ IpvsId(x, k) \in Ids(x.node.services) => IPVSCallsOK(y)

(* IPVSUpdateDestination replaces the entry of the destination d.          *)
UpdateDestinationNode ==
    \A x : \A d \in Destinations(x) :
        WellFormed(x) =>
           LET y == IPVSUpdateDestination(x, d) IN
           /\ SameVserver(x, y) /\ SameActive(x, y) /\ SameNet(x, y)
           /\ y.node.services = x.node.services
           /\ y.node.dests = {e \in x.node.dests : e[1] # IpvsDestId(x, d)}
                                \cup {<<IpvsDestId(x, d), x.backend[d].weight>>}
           /\ IPVSCallsOK(x) /\ IpvsDestId(x, d) \in Ids(x.node.dests) => IPVSCallsOK(y)

(* Setting destination.healthy changes only that.                          *)
HealthyDestsFrame ==
    \A x : \A D \in SUBSET Destinations(x) :
        WellFormed(x) =>
           LET y == [x EXCEPT !.healthyDests = D] IN
           /\ WellFormed(y) /\ SameShape(x, y) /\ SameActive(x, y) /\ SameNet(x, y)
           /\ y.node = x.node /\ y.healthySvcs = x.healthySvcs /\ y.healthyDests = D

(* service.updateState settles a service whose destinations' health has    *)
(* changed, through its VIP when the service's own health changes.         *)
ServiceUpdateStateEffect ==
    \A x : \A k \in Services(x) :
        WellFormed(x) /\ Unsettled(x, k) =>
           LET y == ServiceUpdateState(x, k) IN
           /\ WellFormed(y) /\ SameShape(x, y) /\ y.healthyDests = x.healthyDests
           /\ Cascade(y)
           /\ Installed(x) => Installed(y)
           /\ Installed(x) /\ Known(x, x.svc[k].vip) => Kept(x, y)

(* A destination whose health has changed is settled by service.updateState,*)
(* with its service and VIP.                                               *)
SettleDest ==
    \A x : \A d \in Destinations(x) : \A D \in SUBSET Destinations(x) :
        Good(x) /\
        (\A e \in Destinations(x) : e # d => (e \in D <=> e \in x.healthyDests)) /\
        (d \in D => d \notin x.activeDests) =>
           LET y == ServiceUpdateState([x EXCEPT !.healthyDests = D], d[1]) IN
           /\ Good(y) /\ SameShape(x, y) /\ y.healthyDests = D
           /\ Known(x, x.svc[d[1]].vip) => Kept(x, y)

(* What is active, under the same names and parameters, stays installed as *)
(* it was.                                                                 *)
SameEntries ==
    \A x, y :
        SameIPVS(x, y) /\ y.activeSvcs = x.activeSvcs /\ y.activeDests = x.activeDests /\
        (\A j \in x.activeSvcs : IpvsId(y, j) = IpvsId(x, j) /\ y.svc[j].ventry.sched = x.svc[j].ventry.sched) /\
        (\A d \in x.activeDests : IpvsDestId(y, d) = IpvsDestId(x, d)) /\
        (\A d \in x.activeDests : d \in y.healthyDests => d \in x.healthyDests /\ y.backend[d].weight = x.backend[d].weight) =>
           ((Installed(x) => Installed(y)) /\ (Exact(x) => Exact(y)))

(* A VIP is as healthy as before if it has the services it had, as healthy *)
(* as they were.                                                           *)
HealthAt ==
    \A x, y, ip :
        ServicesOf(y, {ip}) = ServicesOf(x, {ip}) /\
        (\A j \in ServicesOf(x, {ip}) : j \in y.healthySvcs <=> j \in x.healthySvcs) =>
           (AddressHealthy(y, ip) <=> AddressHealthy(x, ip))

(* configUpdate's adoption of a new service, inactive until the            *)
(* updateState that follows, preserves Good and the rest.                  *)
AddServiceGood ==
    \A x : \A k \in ServiceKeys(x.config) :
        Good(x) /\ x.config # Nil /\ k \notin Services(x) =>
           LET y == AddService(x, k) IN
           /\ Good(y) /\ SameConfig(x, y) /\ Kept(x, y)
           /\ Services(y) = Services(x) \cup {k}
           /\ \A j \in Services(x) : y.svc[j] = x.svc[j]
           /\ y.svc[k].vip = IPOf(x.config, k[1])

(* service.update preserves Good and the rest, whether or not the IPVS     *)
(* service must be replaced.                                               *)
LEMMA ServiceUpdateGood ==
    ASSUME IdsDiffer, IdsOf, UpdateServiceNode, SameNames, SameActiveWellFormed,
           SameAnnounced, SameHealth, ConfigTypes, SameEntries, HealthAt,
           NEW x, Good(x), x.config # Nil,
           NEW k \in ServiceKeys(x.config), k \in Services(x)
    PROVE  LET y == ServiceUpdate(x, k) IN
           /\ Good(y) /\ SameConfig(x, y) /\ Kept(x, y)
           /\ Services(y) = Services(x)
           /\ \A j \in Services(x) : y.svc[j].vip = x.svc[j].vip
<1> DEFINE e == EntryOf(x.config, k)
           new == [x.svc[k] EXCEPT !.ventry = e]
           s == [x.svc EXCEPT ![k] = new]
           z == [x EXCEPT !.svc = s]
           y == ServiceUpdate(x, k)
           changed == k \in x.activeSvcs /\ z.svc[k].ventry.sched # x.svc[k].ventry.sched
<1>1. y = IF changed THEN IPVSUpdateService(z, k) ELSE z
  BY Zenon DEF ServiceUpdate
<1>2. x \in VType /\ x.config \in Configs BY Zenon DEF Good, WellFormed, VType
<1>3. k \in Keys /\ e \in EntryType BY <1>2, Zenon DEF ConfigTypes
<1>4. x.svc[k] \in ServiceType BY <1>2, Zenon DEF VType, Services
<1> HIDE DEF e, y
<1>5. new \in ServiceType /\ new.vip = x.svc[k].vip /\ new.ventry = e
  BY <1>3, <1>4, Zenon DEF ServiceType
<1>6. new # Nil BY <1>5, ConstantsAssumption, Zenon
<1> HIDE DEF new
<1>7. /\ s \in [Keys -> ServiceType \cup {Nil}]
      /\ \A j \in Keys : s[j] = IF j = k THEN new ELSE x.svc[j]
  BY <1>2, <1>3, <1>5, Zenon DEF VType
<1> HIDE DEF s
<1>8. /\ z \in VType /\ SameConfig(x, z) /\ z.svc = s /\ z.backend = x.backend
      /\ z.healthySvcs = x.healthySvcs /\ z.healthyDests = x.healthyDests
      /\ SameActive(x, z) /\ z.node = x.node /\ z.lbVservers = x.lbVservers
  BY <1>2, <1>7, Zenon DEF VType, SameConfig, SameActive
<1> HIDE DEF z, changed
<1>9. Services(z) = Services(x) /\ Destinations(z) = Destinations(x)
  BY <1>3, <1>6, <1>7, <1>8, Zenon DEF Services, Destinations
<1>10. WellFormed(z) BY <1>8, <1>9, Zenon DEF Good, WellFormed, SameConfig, SameActive
<1>11. \A j \in Services(x) : j \in Keys /\ z.svc[j].vip = x.svc[j].vip
         /\ (j # k => z.svc[j] = x.svc[j])
  BY <1>5, <1>7, <1>8, Zenon DEF Services
<1>12. Cascade(z) BY <1>8, <1>9, <1>11, Zenon DEF Good, Cascade, SameActive
<1>13. \A j \in Services(x) : IpvsId(z, j) = IpvsId(x, j) BY <1>11, Zenon DEF IpvsId
<1>14. \A d \in Destinations(x) : IpvsDestId(z, d) = IpvsDestId(x, d)
  BY <1>13, Zenon DEF IpvsDestId, Good, WellFormed
<1>15. x.activeSvcs \subseteq Services(x) /\ x.activeDests \subseteq Destinations(x)
  BY Zenon DEF Good, WellFormed
<1>16. SameNet(x, z) /\ SameIPVS(x, z) BY <1>8, Zenon DEF SameNet, SameIPVS
<1>17. \A ip : AddressHealthy(z, ip) <=> AddressHealthy(x, ip)
  <2>1. \A ip : ServicesOf(z, {ip}) = ServicesOf(x, {ip}) BY <1>9, <1>11, Zenon DEF ServicesOf
  <2> QED BY <1>8, <2>1, Zenon DEF HealthAt
<1>18. CASE ~changed
  <2>1. y = z BY <1>1, <1>18, Zenon
  <2>2. \A j \in x.activeSvcs : z.svc[j].ventry.sched = x.svc[j].ventry.sched
    BY <1>11, <1>15, <1>18, Zenon DEF changed
  <2>3. \A d \in x.activeDests : d \in z.healthyDests =>
          d \in x.healthyDests /\ z.backend[d].weight = x.backend[d].weight
    BY <1>8, Zenon
  <2>4. Installed(z) /\ (Exact(x) => Exact(z))
    BY <1>8, <1>13, <1>14, <1>15, <1>16, <2>2, <2>3, Zenon DEF SameEntries, Good, SameActive
  <2>5. Announced(x) => Announced(z)
    BY <1>8, <1>16, Zenon DEF SameAnnounced, SameConfig, SameActive
  <2>6. (Upheld(x) => Upheld(z)) /\ (Raised(x) => Raised(z))
    BY <1>8, <1>17, Zenon DEF Upheld, Raised, SameConfig, SameActive
  <2> QED BY <1>8, <1>9, <1>10, <1>11, <1>12, <2>1, <2>4, <2>5, <2>6, Zenon DEF Good, Kept, y
<1>19. CASE changed
  <2>1. y = IPVSUpdateService(z, k) BY <1>1, <1>19, Zenon
  <2>2. /\ SameVserver(z, y) /\ SameActive(z, y) /\ SameNet(z, y)
        /\ y.node.dests = z.node.dests
        /\ y.node.services = {i \in z.node.services : i[1] # IpvsId(z, k)}
                                   \cup {<<IpvsId(z, k), z.svc[k].ventry.sched>>}
        /\ IPVSCallsOK(z) /\ IpvsId(z, k) \in Ids(z.node.services) => IPVSCallsOK(y)
    BY <1>9, <1>10, <2>1, Zenon DEF UpdateServiceNode
  <2>3. /\ Services(y) = Services(x) /\ Destinations(y) = Destinations(x)
        /\ \A j : IpvsId(y, j) = IpvsId(z, j)
        /\ \A d : IpvsDestId(y, d) = IpvsDestId(z, d)
    BY <1>9, <2>2, Zenon DEF SameNames
  <2>4. /\ y.svc = z.svc /\ y.backend = z.backend
        /\ y.healthySvcs = z.healthySvcs /\ y.healthyDests = z.healthyDests
        /\ y.active = z.active /\ y.activeSvcs = z.activeSvcs /\ y.activeDests = z.activeDests
        /\ SameConfig(z, y)
    BY <2>2, Zenon DEF SameVserver, SameActive, SameConfig
  <2>5. /\ y.active = x.active /\ y.activeSvcs = x.activeSvcs /\ y.activeDests = x.activeDests
        /\ y.backend = x.backend /\ y.healthySvcs = x.healthySvcs
        /\ y.healthyDests = x.healthyDests /\ SameConfig(x, y)
    BY <1>8, <2>4, Zenon DEF SameActive, SameConfig
  <2>6. WellFormed(y) BY <1>10, <2>2, Zenon DEF SameActiveWellFormed
  <2>7. Cascade(y) BY <1>9, <1>12, <2>3, <2>4, Zenon DEF Cascade
  <2>8. \A j \in x.activeSvcs : j # k =>
          IpvsId(y, j) = IpvsId(x, j) /\ y.svc[j] = x.svc[j] /\ IpvsId(x, j) # IpvsId(z, k)
    BY <1>11, <1>13, <1>15, <2>3, <2>4 DEF IdsDiffer
  <2>9. InstalledSvcs(y)
    <3> SUFFICES ASSUME NEW j \in y.activeSvcs
                 PROVE  <<IpvsId(y, j), y.svc[j].ventry.sched>> \in y.node.services
      BY Zenon DEF InstalledSvcs
    <3>1. CASE j = k BY <2>2, <2>3, <2>4, <3>1, Zenon
    <3>2. CASE j # k
      <4>1. <<IpvsId(x, j), x.svc[j].ventry.sched>> \in z.node.services
        BY <1>8, <2>5, Zenon DEF Good, Installed
      <4> QED BY <2>2, <2>5, <2>8, <3>2, <4>1
    <3> QED BY <3>1, <3>2, Zenon
  <2>10. \A d \in x.activeDests : IpvsDestId(y, d) = IpvsDestId(x, d)
    BY <1>14, <1>15, <2>3, Zenon
  <2>11. InstalledDests(y)
    BY <1>8, <2>2, <2>5, <2>10, Zenon DEF InstalledDests, Good, Installed
  <2>12. ASSUME ExactSvcs(x) PROVE ExactSvcs(y)
    <3> SUFFICES ASSUME NEW i \in y.node.services
                 PROVE  \E j \in y.activeSvcs : i = <<IpvsId(y, j), y.svc[j].ventry.sched>>
      BY Zenon DEF ExactSvcs
    <3>1. CASE i = <<IpvsId(z, k), z.svc[k].ventry.sched>>
      BY <1>19, <2>3, <2>4, <2>5, <3>1, Zenon DEF changed
    <3>2. CASE i \in x.node.services /\ i[1] # IpvsId(z, k)
      <4>1. PICK j \in x.activeSvcs : i = <<IpvsId(x, j), x.svc[j].ventry.sched>>
        BY <2>12, <3>2, Zenon DEF ExactSvcs
      <4>2. j # k BY <1>13, <1>15, <3>2, <4>1, Zenon
      <4> QED BY <2>5, <2>8, <4>1, <4>2, Zenon
    <3> QED BY <1>8, <2>2, <3>1, <3>2, Zenon
  <2>13. ASSUME ExactDests(x) PROVE ExactDests(y)
    <3>1. IpvsId(z, k) \in Ids(z.node.services)
      <4>1. <<IpvsId(x, k), x.svc[k].ventry.sched>> \in z.node.services
        BY <1>8, <1>19, Zenon DEF Good, Installed, changed
      <4> QED BY <1>13, <4>1, Zenon DEF IdsOf
    <3>2. IPVSCallsOK(y) BY <1>8, <2>2, <2>13, <3>1, Zenon DEF ExactDests, IPVSCallsOK
    <3> QED BY <1>8, <2>2, <2>5, <2>10, <2>13, <3>2 DEF ExactDests
  <2>14. Announced(x) => Announced(y)
    <3>1. SameNet(x, y) BY <1>16, <2>2, Zenon DEF SameNet
    <3> QED BY <2>5, <3>1, Zenon DEF SameAnnounced, SameConfig
  <2>15. (Upheld(x) => Upheld(y)) /\ (Raised(x) => Raised(y))
    <3>1. \A ip : AddressHealthy(y, ip) <=> AddressHealthy(z, ip)
      BY <2>2, Zenon DEF SameHealth, SameVserver
    <3> QED BY <1>17, <2>5, <3>1, Zenon DEF Upheld, Raised, SameConfig
  <2>16. Kept(x, y) BY <2>12, <2>13, <2>14, <2>15, Zenon DEF Kept, Exact
  <2>17. Good(y)
    BY <2>6, <2>7, <2>9, <2>11, Zenon DEF Good, Installed, InstalledSvcs, InstalledDests
  <2> QED BY <1>11, <2>3, <2>4, <2>5, <2>16, <2>17, Zenon DEF y
<1> QED BY <1>18, <1>19, Zenon

(* One iteration of configUpdate's loop over the services preserves Good   *)
(* and the rest, and leaves the service at the configured address.         *)
LEMMA UpdateServiceKeyGoodHolds ==
    ASSUME IdsDiffer, IdsOf, UpdateServiceNode, SameNames, SameActiveWellFormed,
           SameAnnounced, KeptTransitive, SameHealth, ConfigTypes, SameEntries,
           HealthAt, DeleteServiceGood, AddServiceGood,
           NEW x, Good(x), x.config # Nil, NEW k \in ServiceKeys(x.config)
    PROVE  LET y == UpdateServiceKey(x, k) IN
           /\ Good(y) /\ SameConfig(x, y)
           /\ Services(y) = Services(x) \cup {k}
           /\ \A j \in Services(x) : j # k => y.svc[j].vip = x.svc[j].vip
           /\ y.svc[k].vip = IPOf(x.config, k[1])
           /\ (k \in Services(x) => x.svc[k].vip[1] = k[1]) => Kept(x, y)
<1>1. CASE k \notin Services(x) BY <1>1, Zenon DEF AddServiceGood, UpdateServiceKey
<1>2. CASE k \in Services(x) /\ x.svc[k].vip = IPOf(x.config, k[1])
  BY <1>2, ServiceUpdateGood, Zenon DEF UpdateServiceKey
<1>3. CASE k \in Services(x) /\ x.svc[k].vip # IPOf(x.config, k[1])
  <2> DEFINE z == DeleteService(x, k)
             y == UpdateServiceKey(x, k)
  <2>1. y = AddService(z, k) BY <1>3, Zenon DEF UpdateServiceKey
  <2>2. /\ Good(z) /\ SameConfig(x, z) /\ Services(z) = Services(x) \ {k}
        /\ \A j \in Services(z) : z.svc[j] = x.svc[j]
        /\ Abandoned(x, x.svc[k].vip) => Kept(x, z)
    BY <1>3, Zenon DEF DeleteServiceGood
  <2> HIDE DEF z, y
  <2>3. z.config = x.config BY <2>2, Zenon DEF SameConfig
  <2>4. /\ Good(y) /\ SameConfig(z, y) /\ Kept(z, y)
        /\ Services(y) = Services(z) \cup {k}
        /\ \A j \in Services(z) : y.svc[j] = z.svc[j]
        /\ y.svc[k].vip = IPOf(z.config, k[1])
    BY <2>1, <2>2, <2>3, Zenon DEF AddServiceGood
  <2>5. x.svc[k].vip[1] = k[1] => Kept(x, y)
    BY <1>3, <2>2, <2>4, Zenon DEF KeptTransitive, Abandoned
  <2>6. SameConfig(x, y) BY <2>2, <2>4, Zenon DEF SameConfig
  <2> QED BY <1>3, <2>2, <2>3, <2>4, <2>5, <2>6, Zenon DEF y
<1> QED BY <1>1, <1>2, <1>3, Zenon

(* Replacing a destination's backend changes only that.                    *)
LEMMA BackendFrame ==
    ASSUME NEW x \in VType, NEW d \in Dests, NEW new \in BackendType \cup {Nil}
    PROVE  LET y == [x EXCEPT !.backend[d] = new] IN
           /\ y \in VType /\ SameConfig(x, y) /\ y.svc = x.svc
           /\ \A e \in Dests : y.backend[e] = IF e = d THEN new ELSE x.backend[e]
           /\ y.healthySvcs = x.healthySvcs /\ y.healthyDests = x.healthyDests
           /\ SameActive(x, y) /\ y.node = x.node /\ y.lbVservers = x.lbVservers
<1> DEFINE b == [x.backend EXCEPT ![d] = new]
           y == [x EXCEPT !.backend[d] = new]
<1>1. y = [x EXCEPT !.backend = b] BY Zenon
<1>2. /\ b \in [Dests -> BackendType \cup {Nil}]
      /\ \A e \in Dests : b[e] = IF e = d THEN new ELSE x.backend[e]
  BY Zenon DEF VType
<1> HIDE DEF b, y
<1> QED BY <1>1, <1>2, Zenon DEF VType, SameConfig, SameActive, y

(* The backend of a destination, which may be new, is replaced. *)
LEMMA BackendReplaced ==
    ASSUME SameAnnounced, SameHealth, SameEntries,
           NEW x, Good(x), NEW d \in Dests, d[1] \in Services(x), NEW new \in BackendType
    PROVE  LET y == [x EXCEPT !.backend[d] = new] IN
           /\ WellFormed(y) /\ Cascade(y) /\ SameConfig(x, y)
           /\ Services(y) = Services(x) /\ Destinations(y) = Destinations(x) \cup {d}
           /\ y.svc = x.svc /\ y.healthySvcs = x.healthySvcs /\ y.healthyDests = x.healthyDests
           /\ \A e \in Dests : y.backend[e] = IF e = d THEN new ELSE x.backend[e]
           /\ SameActive(x, y) /\ SameNet(x, y) /\ y.node = x.node
           /\ d \notin x.activeDests \cap x.healthyDests \/ new.weight = x.backend[d].weight
                => Good(y) /\ Kept(x, y)
<1> DEFINE y == [x EXCEPT !.backend[d] = new]
<1>1. x \in VType BY Zenon DEF Good, WellFormed
<1>2. /\ y \in VType /\ SameConfig(x, y) /\ y.svc = x.svc
      /\ \A e \in Dests : y.backend[e] = IF e = d THEN new ELSE x.backend[e]
      /\ y.healthySvcs = x.healthySvcs /\ y.healthyDests = x.healthyDests
      /\ SameActive(x, y) /\ y.node = x.node /\ y.lbVservers = x.lbVservers
  BY <1>1, BackendFrame
<1> HIDE DEF y
<1>3. new # Nil BY ConstantsAssumption, Zenon
<1>4. Services(y) = Services(x) BY <1>2, Zenon DEF Services
<1>5. Destinations(y) = Destinations(x) \cup {d} BY <1>2, <1>3, Zenon DEF Destinations
<1>6. WellFormed(y)
  <2>1. /\ y.healthySvcs \cup y.activeSvcs \subseteq Services(y)
        /\ y.healthyDests \cup y.activeDests \subseteq Destinations(y)
    BY <1>2, <1>4, <1>5, Zenon DEF Good, WellFormed, SameActive
  <2>2. y.enabled \/ Services(y) # {} => y.config # Nil
    BY <1>2, <1>4, Zenon DEF Good, WellFormed, SameConfig
  <2>3. \A e \in Destinations(y) : e[1] \in Services(y)
    BY <1>4, <1>5, Zenon DEF Good, WellFormed
  <2> QED BY <1>2, <2>1, <2>2, <2>3, Zenon DEF WellFormed
<1>7. Cascade(y)
  <2>1. ASSUME NEW e \in Destinations(y)
        PROVE  e \in y.activeDests <=> e \in y.healthyDests /\ e[1] \in y.activeSvcs
    <3>1. CASE e \in Destinations(x) BY <1>2, <3>1, Zenon DEF Good, Cascade, SameActive
    <3>2. CASE e \notin Destinations(x)
      BY <1>2, <3>2, Zenon DEF Good, WellFormed, SameActive
    <3> QED BY <3>1, <3>2, Zenon
  <2>2. \A k \in Services(y) : k \in y.activeSvcs <=> k \in y.healthySvcs /\ y.svc[k].vip \in y.active
    BY <1>2, <1>4, Zenon DEF Good, Cascade, SameActive
  <2> QED BY <2>1, <2>2, Zenon DEF Cascade
<1>8. (\A k : IpvsId(y, k) = IpvsId(x, k)) /\ (\A e : IpvsDestId(y, e) = IpvsDestId(x, e))
  BY <1>2, Zenon DEF IpvsId, IpvsDestId
<1>9. SameNet(x, y) /\ SameIPVS(x, y) BY <1>2, Zenon DEF SameNet, SameIPVS
<1>10. ASSUME d \notin x.activeDests \cap x.healthyDests \/ new.weight = x.backend[d].weight
       PROVE  Good(y) /\ Kept(x, y)
  <2>1. \A e \in x.activeDests : e \in y.healthyDests =>
          e \in x.healthyDests /\ y.backend[e].weight = x.backend[e].weight
    <3> SUFFICES ASSUME NEW e \in x.activeDests, e \in x.healthyDests
                 PROVE  y.backend[e].weight = x.backend[e].weight
      BY <1>2, Zenon
    <3>1. e \in Dests BY <1>1, Zenon DEF VType
    <3> QED BY <1>2, <1>10, <3>1, Zenon
  <2>2. (Installed(x) => Installed(y)) /\ (Exact(x) => Exact(y))
    BY <1>2, <1>8, <1>9, <2>1, Zenon DEF SameEntries, SameActive
  <2>3. Announced(x) => Announced(y)
    BY <1>2, <1>9, Zenon DEF SameAnnounced, SameConfig, SameActive
  <2>4. (Upheld(x) => Upheld(y)) /\ (Raised(x) => Raised(y))
    BY <1>2, Zenon DEF SameHealth, SameConfig, SameActive
  <2> QED BY <1>6, <1>7, <2>2, <2>3, <2>4, Zenon DEF Good, Kept
<1> QED BY <1>2, <1>4, <1>5, <1>6, <1>7, <1>9, <1>10, Zenon DEF y

(* destination.update preserves Good.                                      *)
LEMMA DestinationUpdateGoodHolds ==
    ASSUME IdsDiffer, IdsOf, UpdateDestinationNode, SameNames, SameActiveWellFormed,
           SameAnnounced, KeptTransitive, SameHealth, ShapeNames, HealthyDestsFrame,
           ServiceUpdateStateEffect, ConfigTypes, SameEntries,
           NEW x, Good(x), x.config # Nil, NEW d \in Destinations(x),
           d[2] \in BackendsFor(x.config, d[1])
    PROVE  LET y == DestinationUpdate(x, d) IN
           /\ Good(y) /\ SameConfig(x, y) /\ y.svc = x.svc
           /\ Services(y) = Services(x) /\ Destinations(y) = Destinations(x)
           /\ Known(x, x.svc[d[1]].vip) => Kept(x, y)
<1> DEFINE new == x.config.backends[d[2]]
           y == [x EXCEPT !.backend[d] = new]
           D == y.healthyDests \ {d}
           z == [y EXCEPT !.healthyDests = D]
           u == DestinationUpdate(x, d)
<1>1. u = IF d \notin x.healthyDests THEN y
          ELSE IF ~new.enabled THEN ServiceUpdateState(z, d[1])
          ELSE IF d \in x.activeDests /\ new.weight # x.backend[d].weight
               THEN IPVSUpdateDestination(y, d) ELSE y
  BY Zenon DEF DestinationUpdate
<1>2. d \in Dests /\ d[1] \in Services(x) /\ d[1] \in Keys
  BY Zenon DEF Good, WellFormed, Destinations, Dests
<1>3. x.config \in Configs BY Zenon DEF Good, WellFormed, VType
<1>4. new \in BackendType BY <1>2, <1>3, Zenon DEF ConfigTypes
<1> HIDE DEF new, u
<1>5. /\ WellFormed(y) /\ Cascade(y) /\ SameConfig(x, y)
      /\ Services(y) = Services(x) /\ Destinations(y) = Destinations(x) \cup {d}
      /\ y.svc = x.svc /\ y.healthySvcs = x.healthySvcs /\ y.healthyDests = x.healthyDests
      /\ \A e \in Dests : y.backend[e] = IF e = d THEN new ELSE x.backend[e]
      /\ SameActive(x, y) /\ SameNet(x, y) /\ y.node = x.node
      /\ d \notin x.activeDests \cap x.healthyDests \/ new.weight = x.backend[d].weight
           => Good(y) /\ Kept(x, y)
  BY <1>2, <1>4, BackendReplaced, Zenon
<1> HIDE DEF y
<1>6. /\ Destinations(y) = Destinations(x)
      /\ y.active = x.active /\ y.activeSvcs = x.activeSvcs /\ y.activeDests = x.activeDests
      /\ y.config = x.config /\ y.vips = x.vips
  BY <1>5, Zenon DEF SameActive, SameConfig
<1>7. (\A k : IpvsId(y, k) = IpvsId(x, k)) /\ (\A e : IpvsDestId(y, e) = IpvsDestId(x, e))
  BY <1>5, Zenon DEF IpvsId, IpvsDestId
<1>8. CASE /\ d \notin x.activeDests \cap x.healthyDests \/ new.weight = x.backend[d].weight
           /\ ~(d \in x.healthyDests /\ ~new.enabled)
  <2>1. u = y BY <1>1, <1>8, Zenon
  <2> QED BY <1>5, <1>6, <1>8, <2>1, Zenon DEF u
<1>9. CASE d \in x.healthyDests /\ ~new.enabled
  <2>1. u = ServiceUpdateState(z, d[1]) BY <1>1, <1>9, Zenon
  <2>2. D \in SUBSET Destinations(y) BY <1>5, Zenon DEF WellFormed
  <2>3. /\ WellFormed(z) /\ SameShape(y, z) /\ SameActive(y, z) /\ SameNet(y, z)
        /\ z.node = y.node /\ z.healthySvcs = y.healthySvcs /\ z.healthyDests = D
    BY <1>5, <2>2 DEF HealthyDestsFrame
  <2> HIDE DEF z, D
  <2>4. /\ Services(z) = Services(x) /\ Destinations(z) = Destinations(x)
        /\ (\A k : IpvsId(z, k) = IpvsId(x, k)) /\ (\A e : IpvsDestId(z, e) = IpvsDestId(x, e))
    BY <1>5, <1>6, <1>7, <2>3 DEF ShapeNames
  <2>5. /\ z.svc = x.svc /\ z.config = x.config /\ z.vips = x.vips /\ z.enabled = x.enabled
        /\ z.active = x.active /\ z.activeSvcs = x.activeSvcs /\ z.activeDests = x.activeDests
        /\ z.healthySvcs = x.healthySvcs /\ z.backend = y.backend /\ z.node = x.node
    BY <1>5, <1>6, <2>3, Zenon DEF SameShape, SameActive, SameConfig
  <2>6. Unsettled(z, d[1])
    BY <1>5, <2>3, <2>4, <2>5, Zenon DEF Unsettled, Good, Cascade, D
  <2>7. \A e \in x.activeDests : e \in z.healthyDests =>
          e \in x.healthyDests /\ z.backend[e].weight = x.backend[e].weight
    <3> SUFFICES ASSUME NEW e \in x.activeDests, e \in D
                 PROVE  e \in x.healthyDests /\ y.backend[e].weight = x.backend[e].weight
      BY <2>3, <2>5, Zenon
    <3>1. e \in x.healthyDests /\ e # d BY <1>5, Zenon DEF D
    <3>2. e \in Dests BY Zenon DEF Good, WellFormed, VType
    <3> QED BY <1>5, <3>1, <3>2, Zenon
  <2>8. Installed(z) /\ (Exact(x) => Exact(z))
    <3>1. SameIPVS(x, z) BY <2>5, Zenon DEF SameIPVS
    <3> QED BY <2>4, <2>5, <2>7, <3>1, Zenon DEF SameEntries, Good
  <2>9. Announced(x) => Announced(z)
    <3>1. SameNet(x, z) BY <1>5, <2>3, Zenon DEF SameNet
    <3> QED BY <2>5, <3>1, Zenon DEF SameAnnounced
  <2>10. Kept(x, z) BY <2>5, <2>8, <2>9, Zenon DEF SameHealth, Kept
  <2>11. /\ WellFormed(u) /\ SameShape(z, u) /\ Cascade(u) /\ Installed(u)
         /\ Known(z, z.svc[d[1]].vip) => Kept(z, u)
    BY <1>2, <2>1, <2>3, <2>4, <2>6, <2>8, Zenon DEF ServiceUpdateStateEffect
  <2>12. Known(x, x.svc[d[1]].vip) => Kept(x, u)
    BY <2>5, <2>10, <2>11, Zenon DEF KeptTransitive, Known
  <2>13. Services(u) = Services(x) /\ Destinations(u) = Destinations(x)
    BY <2>4, <2>11, Zenon DEF ShapeNames
  <2>14. SameConfig(x, u) /\ u.svc = x.svc BY <2>5, <2>11, Zenon DEF SameShape, SameConfig
  <2> QED BY <2>11, <2>12, <2>13, <2>14, Zenon DEF Good, u
<1>10. CASE /\ d \in x.activeDests \cap x.healthyDests
            /\ new.weight # x.backend[d].weight /\ new.enabled
  <2>1. u = IPVSUpdateDestination(y, d) BY <1>1, <1>10, Zenon
  <2>2. /\ SameVserver(y, u) /\ SameActive(y, u) /\ SameNet(y, u)
        /\ u.node.services = y.node.services
        /\ u.node.dests = {e \in y.node.dests : e[1] # IpvsDestId(y, d)}
                             \cup {<<IpvsDestId(y, d), y.backend[d].weight>>}
        /\ IPVSCallsOK(y) /\ IpvsDestId(y, d) \in Ids(y.node.dests) => IPVSCallsOK(u)
    BY <1>5, <1>6, <2>1, Zenon DEF UpdateDestinationNode
  <2>3. WellFormed(u) BY <1>5, <2>2, Zenon DEF SameActiveWellFormed
  <2>4. /\ Services(u) = Services(x) /\ Destinations(u) = Destinations(x)
        /\ (\A k : IpvsId(u, k) = IpvsId(x, k)) /\ (\A e : IpvsDestId(u, e) = IpvsDestId(x, e))
    BY <1>5, <1>6, <1>7, <2>2 DEF SameNames
  <2>5. /\ u.svc = x.svc /\ u.config = x.config /\ u.vips = x.vips /\ u.enabled = x.enabled
        /\ u.active = x.active /\ u.activeSvcs = x.activeSvcs /\ u.activeDests = x.activeDests
        /\ u.healthySvcs = x.healthySvcs /\ u.healthyDests = x.healthyDests
        /\ u.backend = y.backend
    BY <1>5, <1>6, <2>2, Zenon DEF SameVserver, SameActive, SameConfig
  <2>6. Cascade(u) BY <2>4, <2>5, Zenon DEF Good, Cascade
  <2>7. InstalledSvcs(u)
    BY <1>5, <2>2, <2>4, <2>5, Zenon DEF InstalledSvcs, Good, Installed
  <2>8. ASSUME NEW e \in x.activeDests, e # d
        PROVE  e \in Dests /\ u.backend[e] = x.backend[e] /\ IpvsDestId(x, e) # IpvsDestId(x, d)
    <3>1. e \in Dests BY Zenon DEF Good, WellFormed, VType
    <3> QED BY <1>2, <1>5, <2>5, <2>8, <3>1, Zenon DEF IdsDiffer
  <2>9. u.node.dests = {e \in x.node.dests : e[1] # IpvsDestId(x, d)}
                             \cup {<<IpvsDestId(x, d), u.backend[d].weight>>}
    BY <1>5, <1>7, <2>2, <2>5
  <2>10. InstalledDests(u)
    <3> SUFFICES ASSUME NEW e \in x.activeDests, e \in x.healthyDests
                 PROVE  <<IpvsDestId(x, e), u.backend[e].weight>> \in u.node.dests
      BY <2>4, <2>5, Zenon DEF InstalledDests
    <3>1. CASE e = d BY <2>9, <3>1, Zenon
    <3>2. CASE e # d
      <4>1. <<IpvsDestId(x, e), x.backend[e].weight>> \in x.node.dests
        BY Zenon DEF Good, Installed
      <4> QED BY <2>8, <2>9, <3>2, <4>1, Zenon
    <3> QED BY <3>1, <3>2, Zenon
  <2>11. ExactSvcs(x) => ExactSvcs(u) BY <1>5, <2>2, <2>4, <2>5 DEF ExactSvcs
  <2>12. ASSUME ExactDests(x) PROVE ExactDests(u)
    <3>1. ASSUME NEW i \in u.node.dests
          PROVE  \E e \in u.activeDests :
                   i[1] = IpvsDestId(u, e) /\ (e \in u.healthyDests => i[2] = u.backend[e].weight)
      <4>1. CASE i = <<IpvsDestId(x, d), u.backend[d].weight>> BY <1>10, <2>4, <2>5, <4>1, Zenon
      <4>2. CASE i \in x.node.dests /\ i[1] # IpvsDestId(x, d)
        <5>1. PICK e \in x.activeDests : /\ i[1] = IpvsDestId(x, e)
                                         /\ e \in x.healthyDests => i[2] = x.backend[e].weight
          BY <2>12, <4>2, Zenon DEF ExactDests
        <5> QED BY <2>4, <2>5, <2>8, <4>2, <5>1, Zenon
      <4> QED BY <2>9, <4>1, <4>2, Zenon
    <3>2. \A e \in x.activeDests : IpvsDestId(x, e) \in Ids(x.node.dests)
      BY <2>12, Zenon DEF ExactDests
    <3>3. \A e \in x.activeDests : IpvsDestId(x, e) \in Ids(u.node.dests)
      <4> SUFFICES ASSUME NEW e \in x.activeDests PROVE IpvsDestId(x, e) \in Ids(u.node.dests)
        BY Zenon
      <4>1. CASE e = d BY <2>9, <4>1, Zenon DEF IdsOf
      <4>2. CASE e # d
        <5>1. PICK i \in x.node.dests : IpvsDestId(x, e) = i[1] BY <3>2, Zenon DEF IdsOf
        <5>2. i \in u.node.dests BY <2>8, <2>9, <4>2, <5>1, Zenon
        <5> QED BY <5>1, <5>2, Zenon DEF IdsOf
      <4> QED BY <4>1, <4>2, Zenon
    <3>4. IPVSCallsOK(u)
      BY <1>5, <1>7, <1>10, <2>2, <2>12, <3>2, Zenon DEF ExactDests, IPVSCallsOK
    <3> QED BY <2>4, <2>5, <3>1, <3>3, <3>4, Zenon DEF ExactDests
  <2>13. Announced(x) => Announced(u)
    <3>1. SameNet(x, u) BY <1>5, <2>2, Zenon DEF SameNet
    <3> QED BY <2>5, <3>1, Zenon DEF SameAnnounced
  <2>14. Kept(x, u) BY <2>5, <2>11, <2>12, <2>13, Zenon DEF SameHealth, Kept, Exact
  <2>15. Good(u)
    BY <2>3, <2>6, <2>7, <2>10, Zenon DEF Good, Installed, InstalledSvcs, InstalledDests
  <2> QED BY <2>4, <2>5, <2>14, <2>15, Zenon DEF SameConfig, u
<1> QED BY <1>8, <1>9, <1>10, Zenon

(* configUpdate's adoption of a new, inactive destination preserves Good   *)
(* and the rest.                                                           *)
LEMMA AddDestinationGoodHolds ==
    ASSUME SameAnnounced, SameHealth, SameEntries, ConfigTypes,
           NEW x, Good(x), x.config # Nil, NEW d \in Dests \ Destinations(x),
           d[1] \in Services(x), d[2] \in BackendsFor(x.config, d[1])
    PROVE  LET y == AddDestination(x, d) IN
           /\ Good(y) /\ SameConfig(x, y) /\ y.svc = x.svc /\ Kept(x, y)
           /\ Services(y) = Services(x) /\ Destinations(y) = Destinations(x) \cup {d}
<1> DEFINE new == x.config.backends[d[2]]
           y == [x EXCEPT !.backend[d] = new]
<1>1. x.config \in Configs /\ d[1] \in Keys BY Zenon DEF Good, WellFormed, VType, Services
<1>2. new \in BackendType BY <1>1, Zenon DEF ConfigTypes
<1>3. d \notin x.activeDests \cap x.healthyDests BY Zenon DEF Good, WellFormed
<1>4. AddDestination(x, d) = y BY Zenon DEF AddDestination
<1> HIDE DEF new
<1>5. /\ SameConfig(x, y) /\ y.svc = x.svc
      /\ Services(y) = Services(x) /\ Destinations(y) = Destinations(x) \cup {d}
      /\ Good(y) /\ Kept(x, y)
  BY <1>2, <1>3, BackendReplaced
<1> HIDE DEF y
<1> QED BY <1>4, <1>5, Zenon

(* The last step of destination.down's caller: the destination is deleted. *)
ForgetDestination(x, d) ==
    [x EXCEPT !.backend[d] = Nil, !.healthyDests = @ \ {d}, !.activeDests = @ \ {d}]

(* Forgetting a destination that is not active changes only that.          *)
LEMMA ForgetDestinationGood ==
    ASSUME SameAnnounced, SameHealth, SameEntries,
           NEW x, Good(x), NEW d \in Destinations(x), d \notin x.activeDests
    PROVE  LET y == ForgetDestination(x, d) IN
           /\ Good(y) /\ SameConfig(x, y) /\ y.svc = x.svc /\ Kept(x, y)
           /\ Services(y) = Services(x) /\ Destinations(y) = Destinations(x) \ {d}
<1> DEFINE b == [x.backend EXCEPT ![d] = Nil]
           H == x.healthyDests \ {d}
           A == x.activeDests \ {d}
           y == [x EXCEPT !.backend = b, !.healthyDests = H, !.activeDests = A]
<1>1. ForgetDestination(x, d) = y BY Zenon DEF ForgetDestination
<1>2. x \in VType /\ d \in Dests BY Zenon DEF Good, WellFormed, Destinations
<1>3. /\ b \in [Dests -> BackendType \cup {Nil}]
      /\ \A e \in Dests : b[e] = IF e = d THEN Nil ELSE x.backend[e]
  BY <1>2, Zenon DEF VType
<1>4. A = x.activeDests /\ A \in SUBSET Dests BY <1>2 DEF VType
<1>5. H \in SUBSET Dests BY <1>2, Zenon DEF VType
<1> HIDE DEF b, A
<1>6. /\ y \in VType /\ SameConfig(x, y) /\ y.svc = x.svc /\ y.backend = b
      /\ y.healthySvcs = x.healthySvcs /\ y.healthyDests = H
      /\ y.active = x.active /\ y.activeSvcs = x.activeSvcs /\ y.activeDests = A
      /\ y.node = x.node /\ y.lbVservers = x.lbVservers
  BY <1>2, <1>3, <1>4, <1>5, Zenon DEF VType, SameConfig
<1> HIDE DEF y
<1>7. Services(y) = Services(x) BY <1>6, Zenon DEF Services
<1>8. Destinations(y) = Destinations(x) \ {d} BY <1>3, <1>6, Zenon DEF Destinations
<1>9. WellFormed(y)
  <2>1. y.enabled \/ Services(y) # {} => y.config # Nil
    BY <1>6, <1>7, Zenon DEF Good, WellFormed, SameConfig
  <2>2. \A e \in Destinations(y) : e[1] \in Services(y) BY <1>7, <1>8, Zenon DEF Good, WellFormed
  <2>3. y.healthySvcs \cup y.activeSvcs \subseteq Services(y)
    BY <1>6, <1>7, Zenon DEF Good, WellFormed
  <2>4. y.healthyDests \cup y.activeDests \subseteq Destinations(y)
    BY <1>4, <1>6, <1>8, Zenon DEF Good, WellFormed
  <2> QED BY <1>6, <2>1, <2>2, <2>3, <2>4, Zenon DEF WellFormed
<1>10. Cascade(y) BY <1>4, <1>6, <1>7, <1>8, Zenon DEF Good, Cascade
<1>11. (\A k : IpvsId(y, k) = IpvsId(x, k)) /\ (\A e : IpvsDestId(y, e) = IpvsDestId(x, e))
  BY <1>6, Zenon DEF IpvsId, IpvsDestId
<1>12. \A e \in x.activeDests : e \in y.healthyDests =>
         e \in x.healthyDests /\ y.backend[e].weight = x.backend[e].weight
  <2> SUFFICES ASSUME NEW e \in x.activeDests, e \in H
               PROVE  e \in x.healthyDests /\ b[e].weight = x.backend[e].weight
    BY <1>6, Zenon
  <2>1. e \in Dests /\ e # d BY <1>2, Zenon DEF VType
  <2> QED BY <1>3, <2>1, Zenon
<1>13. (Installed(x) => Installed(y)) /\ (Exact(x) => Exact(y))
  BY <1>4, <1>6, <1>11, <1>12, Zenon DEF SameEntries, SameIPVS
<1>14. Announced(x) => Announced(y) BY <1>6, Zenon DEF SameAnnounced, SameNet, SameConfig
<1>15. (Upheld(x) => Upheld(y)) /\ (Raised(x) => Raised(y))
  BY <1>6, Zenon DEF SameHealth, SameConfig
<1>16. Good(y) /\ Kept(x, y) BY <1>9, <1>10, <1>13, <1>14, <1>15, Zenon DEF Good, Kept
<1> QED BY <1>1, <1>6, <1>7, <1>8, <1>16, Zenon

(* Removing a destination that left the configuration, after taking it     *)
(* down if it is active, preserves Good, and loses nothing else if the     *)
(* service's VIP is known.                                                 *)
LEMMA DeleteDestinationGoodHolds ==
    ASSUME SameAnnounced, SameHealth, SameEntries, KeptTransitive, ShapeNames, SettleDest,
           NEW x, Good(x), NEW d \in Destinations(x)
    PROVE  LET y == DeleteDestination(x, d) IN
           /\ Good(y) /\ SameConfig(x, y) /\ y.svc = x.svc
           /\ Services(y) = Services(x) /\ Destinations(y) = Destinations(x) \ {d}
           /\ Known(x, x.svc[d[1]].vip) => Kept(x, y)
<1>1. CASE d \notin x.activeDests
  <2>1. DeleteDestination(x, d) = ForgetDestination(x, d)
    BY <1>1, Zenon DEF DeleteDestination, ForgetDestination
  <2> QED BY <1>1, <2>1, ForgetDestinationGood
<1>2. CASE d \in x.activeDests
  <2> DEFINE D == x.healthyDests \ {d}
             w == ServiceUpdateState([x EXCEPT !.healthyDests = D], d[1])
             y == ForgetDestination(w, d)
  <2>1. DeleteDestination(x, d) = y BY <1>2, Zenon DEF DeleteDestination, ForgetDestination
  <2>2. /\ D \in SUBSET Destinations(x) /\ d \notin D
        /\ \A e \in Destinations(x) : e # d => (e \in D <=> e \in x.healthyDests)
    BY Zenon DEF Good, WellFormed
  <2> HIDE DEF D
  <2>3. /\ Good(w) /\ SameShape(x, w) /\ w.healthyDests = D
        /\ Known(x, x.svc[d[1]].vip) => Kept(x, w)
    BY <2>2, Zenon DEF SettleDest
  <2> HIDE DEF w
  <2>4. Services(w) = Services(x) /\ Destinations(w) = Destinations(x)
    BY <2>3, Zenon DEF ShapeNames
  <2>5. d \notin w.activeDests BY <2>2, <2>3, <2>4, Zenon DEF Good, Cascade
  <2>6. SameConfig(x, w) /\ w.svc = x.svc BY <2>3, Zenon DEF SameShape, SameConfig
  <2>7. /\ Good(y) /\ SameConfig(w, y) /\ y.svc = w.svc /\ Kept(w, y)
        /\ Services(y) = Services(w) /\ Destinations(y) = Destinations(w) \ {d}
    BY <2>3, <2>4, <2>5, ForgetDestinationGood, Zenon
  <2> HIDE DEF y
  <2>8. SameConfig(x, y) BY <2>6, <2>7, Zenon DEF SameConfig
  <2>9. Known(x, x.svc[d[1]].vip) => Kept(x, y) BY <2>3, <2>7, Zenon DEF KeptTransitive
  <2> QED BY <2>1, <2>4, <2>6, <2>7, <2>8, <2>9, Zenon
<1> QED BY <1>1, <1>2, Zenon
=============================================================================

--------------------------- MODULE VserverFrames ----------------------------
EXTENDS VserverParts

(* What more than one of the proof modules needs: what the functions of a  *)
(* vserver preserve (Good, Kept), the contracts that one module proves and *)
(* another one uses (AddVIPNode to DeleteServiceGood), and the inductive   *)
(* invariants that they add up to (IInv and SInv).                         *)

(* The firewall rules of the snapshots kept of some VIPs. *)
RulesOf(lbVservers, ips) == {lbVservers[ip] : ip \in ips}

(* Every configured address is configured once, with the rules of the      *)
(* snapshot kept of it and no other rules, and no call on the addresses    *)
(* has failed.                                                             *)
Guarded(x) ==
    /\ x.node.rules = RulesOf(x.lbVservers, Ids(x.node.addrs))
    /\ \A ip \in Ids(x.node.addrs) : x.lbVservers[ip].ip = ip
    /\ \A s, t \in x.node.addrs : s[1] = t[1] => s = t
    /\ VIPCallsOK(x)

(* The routes, addresses and rules on the node are those of the VIPs held  *)
(* and of the anycast VIPs that are up.                                    *)
Announced(x) ==
    /\ Guarded(x)
    /\ x.node.routes = IF AnycastEnabled THEN x.active \cap Anycast ELSE {}
    /\ x.node.addrs = x.vips \cup AnycastVIPs(x.active)
    /\ \A vip \in x.vips : vip[1] \notin Anycast

(* Every VIP that is up has the healthy services it needs; every VIP of    *)
(* the configuration that has them is up.                                  *)
Upheld(x) == \A ip \in x.active : AddressHealthy(x, ip)
Raised(x) ==
    \A ip \in IPs : AddressHealthy(x, ip) /\ ip = IPOf(x.config, ip[1]) => ip \in x.active

(* A VIP that is up, or may go up because it is of the configuration. *)
Known(x, ip) == ip \in x.active \/ ip = IPOf(x.config, ip[1])

(* What the functions below keep, whatever else they change. *)
Kept(x, y) ==
    /\ Exact(x) => Exact(y)
    /\ Announced(x) => Announced(y)
    /\ Upheld(x) => Upheld(y)
    /\ Raised(x) => Raised(y)

(* x and y differ at most in what is healthy, active and installed. *)
SameShape(x, y) ==
    /\ y \in VType
    /\ y.config = x.config /\ y.enabled = x.enabled /\ y.override = x.override
    /\ y.fwm = x.fwm /\ y.svc = x.svc /\ y.nilDests = x.nilDests
    /\ y.backend = x.backend /\ y.checks = x.checks /\ y.vips = x.vips

(* The state in which service.updateState is called: only the destinations *)
(* of k may not be as their health says.                                   *)
Unsettled(x, k) ==
    /\ \A j \in Services(x) :
         j \in x.activeSvcs <=> j \in x.healthySvcs /\ x.svc[j].vip \in x.active
    /\ \A d \in Destinations(x) :
         /\ d \in x.activeDests => d[1] \in x.activeSvcs
         /\ d[1] # k =>
              (d \in x.activeDests <=> d \in x.healthyDests /\ d[1] \in x.activeSvcs)

(* The handlers' operators keep a vserver well formed, its cascade settled *)
(* and its active parts installed.                                         *)
Good(x) == WellFormed(x) /\ Cascade(x) /\ Installed(x)

(* Fields on which none of this depends. *)
SameParts(x, y) ==
    /\ y.enabled = x.enabled /\ y.svc = x.svc /\ y.backend = x.backend
    /\ y.healthySvcs = x.healthySvcs /\ y.healthyDests = x.healthyDests
    /\ SameActive(x, y) /\ SameIPVS(x, y)

(* The VIPs configureVIPs configures: those of the configuration that are  *)
(* not announced.                                                          *)
OwnVIPs(c) == {vip \in VIPs(c) : vip[2] # "Anycast"}

(* The VIPs held are of the type that the configuration gives them. *)
TypesCurrent(x) == \A vip \in x.vips : vip[2] = VIPType(x.config, vip[1])

(* The services are those of the configuration, at the addresses that it   *)
(* gives them.                                                             *)
Current(x) ==
    /\ Services(x) = ServiceKeys(x.config)
    /\ \A k \in Services(x) : x.svc[k].vip = IPOf(x.config, k[1])

(* What a restart needs: with nothing enabled, nothing is up or held.      *)
Quiet(x) == ~x.enabled => x.active = {} /\ x.vips = {}

(* The configuration, whether the vserver is enabled and the VIPs it holds *)
(* stay as they are. *)
SameConfig(x, y) == y.config = x.config /\ y.enabled = x.enabled /\ y.vips = x.vips

(* A VIP that a service has and the configuration does not. *)
Abandoned(x, ip) == ip # IPOf(x.config, ip[1])

(* Every entry of a table has its identity among those of the table.       *)
IdsOf ==
    \A S :
           /\ \A i, w : <<i, w>> \in S => i \in Ids(S)
           /\ \A e \in S : e[1] \in Ids(S)
           /\ \A i \in Ids(S) : \E e \in S : i = e[1]

(* configureVIPs' AddVserver and AddVIP, for the VIPs S.                   *)
AddVIPNode ==
    \A x : \A S \in SUBSET (IPs \X VIPTypes) :
        WellFormed(x) /\ x.config # Nil =>
           LET y == AddVIP(x, S)
               snapshot(ip) == Rules(x.config, x.fwm, ip[1]) IN
           /\ SameVserver(x, y) /\ SameActive(x, y) /\ SameIPVS(x, y)
           /\ y.lbVservers = [ip \in IPs |->
                                IF ip \in Ids(S) THEN snapshot(ip) ELSE x.lbVservers[ip]]
           /\ y.node.rules = x.node.rules \cup {snapshot(ip) : ip \in Ids(S)}
           /\ y.node.addrs = x.node.addrs \cup S /\ y.node.routes = x.node.routes
           /\ VIPCallsOK(x) /\ S \cap x.node.addrs = {} => VIPCallsOK(y)

(* unconfigureVIP's DeleteVIP and DeleteVserver, for the VIPs S.           *)
DeleteVIPNode ==
    \A x, S :
        WellFormed(x) =>
           LET y == DeleteVIP(x, S)
               kept == {x.lbVservers[ip] : ip \in Ids(S)} IN
           /\ SameVserver(x, y) /\ SameActive(x, y) /\ SameIPVS(x, y)
           /\ y.lbVservers = [ip \in IPs |-> IF ip \in Ids(S) THEN NoRules ELSE x.lbVservers[ip]]
           /\ y.node.rules = x.node.rules \ kept
           /\ y.node.addrs = x.node.addrs \ S /\ y.node.routes = x.node.routes
           /\ /\ VIPCallsOK(x) /\ S \subseteq x.node.addrs /\ kept \subseteq x.node.rules
              /\ \A s1, s2 \in S : s1[1] = s2[1] => s1 = s2
              => VIPCallsOK(y)

(* Vservers with the same parts name the same IPVS entries.                *)
SameNames ==
    \A x, y :
        SameVserver(x, y) =>
           /\ Services(y) = Services(x) /\ Destinations(y) = Destinations(x)
           /\ \A k : IpvsId(y, k) = IpvsId(x, k)
           /\ \A d : IpvsDestId(y, d) = IpvsDestId(x, d)

(* The frames compose.                                                     *)
SameTransitive ==
    \A x, y, z :
        SameVserver(x, y) /\ SameVserver(y, z) =>
           /\ SameVserver(x, z)
           /\ SameActive(x, y) /\ SameActive(y, z) => SameActive(x, z)
           /\ SameIPVS(x, y) /\ SameIPVS(y, z) => SameIPVS(x, z)
           /\ SameNet(x, y) /\ SameNet(y, z) => SameNet(x, z)

(* The type of a vserver survives a change of the node's tables.           *)
SameActiveWellFormed ==
    \A x, y :
        WellFormed(x) /\ SameVserver(x, y) /\ SameActive(x, y) =>
           WellFormed(y)

(* Announced is about the addresses, the routes, the VIPs held and the     *)
(* VIPs that are up.                                                       *)
SameAnnounced ==
    \A x, y :
        SameNet(x, y) /\ y.vips = x.vips /\ y.active = x.active =>
           (Announced(x) => Announced(y))

(* What is kept by two steps is kept by both together.                     *)
KeptTransitive ==
    \A x, y, z :
        Kept(x, y) /\ Kept(y, z) =>
           Kept(x, z)

(* The health of a VIP is about the health of its services.                *)
SameHealth ==
    \A x, y :
        y.config = x.config /\ y.svc = x.svc /\ y.healthySvcs = x.healthySvcs =>
           /\ \A ip : AddressHealthy(y, ip) <=> AddressHealthy(x, ip)
           /\ y.active = x.active => (Upheld(x) => Upheld(y)) /\ (Raised(x) => Raised(y))

(* Vservers of the same shape name the same IPVS entries.                  *)
ShapeNames ==
    \A x, y :
        SameShape(x, y) =>
           /\ Services(y) = Services(x) /\ Destinations(y) = Destinations(x)
           /\ \A k : IpvsId(y, k) = IpvsId(x, k)
           /\ \A d : IpvsDestId(y, d) = IpvsDestId(x, d)

(* What expandServices and expandDests build from a configuration is       *)
(* typed.                                                                  *)
ConfigTypes ==
    \A c \in Configs :
           /\ c # Nil /\ c.enabled \in BOOLEAN
           /\ ServiceKeys(c) \subseteq Keys
           /\ \A k \in ServiceKeys(c) : IPOf(c, k[1]) \in IPs /\ EntryOf(c, k) \in EntryType
           /\ \A k \in Keys : \A b \in BackendsFor(c, k) : b \in Backends /\ c.backends[b] \in BackendType

(* vserver.deleteService preserves Good, and loses nothing else if the     *)
(* service's VIP is abandoned.                                             *)
DeleteServiceGood ==
    \A x : \A k \in Services(x) :
        Good(x) =>
           LET y == DeleteService(x, k) IN
           /\ Good(y) /\ SameConfig(x, y)
           /\ Services(y) = Services(x) \ {k}
           /\ \A j \in Services(y) : y.svc[j] = x.svc[j]
           /\ Abandoned(x, x.svc[k].vip) => Kept(x, y)

(* The inductive invariant: every handler, and every iteration of its loop *)
(* starts and ends in a good vserver, and its loop refers to what is there. *)
IInv == TypeOK /\ ActivationCascade /\ ActiveIsInstalled

(* Whole is what Kept keeps. *)
Whole(x) == Exact(x) /\ Announced(x) /\ Upheld(x) /\ Raised(x)

(* The service k is there, at the address the configuration gives it. *)
AtAddress(x, k) == k \in Services(x) /\ x.svc[k].vip = IPOf(x.config, k[1])

(* Also while a configuration update goes on, the services have the        *)
(* address family of their keys, and the ports of the configuration.       *)
Placed(x) ==
    \A k \in Services(x) :
        /\ x.svc[k].vip[1] = k[1]
        /\ k[2] \in IF x.config.useFWM THEN {Nil} ELSE EntryPorts(x.config)

(* Between events the services and the addresses held are those of the     *)
(* configuration, and nothing is up or held while the vserver is disabled. *)
Settled(x) ==
    /\ x.config # Nil => Current(x)
    /\ IF x.enabled THEN x.vips = OwnVIPs(x.config) ELSE x.active = {} /\ x.vips = {}

(* What a handler has done and has yet to do, at each iteration of its     *)
(* loop.                                                                   *)
LoopInv ==
    /\ v.config # Nil => Placed(v)
    /\ loop.op \in {"idle", "checks", "override"} => Settled(v)
    /\ loop.op \in {"checks", "services", "dests"} => v.enabled
    /\ loop.op = "services" => \A k \in ServiceKeys(v.config) \ loop.left : AtAddress(v, k)
    /\ loop.op = "dests" =>
         /\ \A k \in ServiceKeys(v.config) : AtAddress(v, k)
         /\ Services(v) \ ServiceKeys(v.config) \subseteq loop.left
         /\ loop.upd \cup loop.del # {} => loop.cur \in ServiceKeys(v.config)
    /\ ~v.enabled => vcc = {}

(* The second inductive invariant, under IInv and the hypotheses below.    *)
SInv ==
    IF mode = "stopped"
    THEN /\ Exact(v) /\ Announced(v) /\ v.active = {} /\ v.vips = {}
         /\ vcc = {} /\ loop = Idle
    ELSE Whole(v) /\ LoopInv

(* No operator enables a backend of a vserver that is disabled.            *)
NotForced == loop.op = "override" /\ ~v.enabled => loop.state # "Enable"

(* No address held turns from unicast to dedicated, or back, in an update. *)
SameTypes == v.config # Nil => TypesCurrent(v)
=============================================================================

---------------------------- MODULE VserverParts ----------------------------
EXTENDS Vserver

(* What the proofs about a vserver say of its parts: which of them a call  *)
(* leaves alone (Same...), what it sets (Set...), that the IPVS table is   *)
(* exactly what is active (Exact), and where a cascade may be broken when  *)
(* up, down and updateState are called to repair it (Repairable).          *)

(* x and y differ only in what the NCC keeps and what is known of it. *)
SameVserver(x, y) ==
    /\ y \in VType
    /\ y.config = x.config /\ y.enabled = x.enabled /\ y.override = x.override
    /\ y.fwm = x.fwm /\ y.svc = x.svc /\ y.nilDests = x.nilDests
    /\ y.healthySvcs = x.healthySvcs /\ y.backend = x.backend
    /\ y.healthyDests = x.healthyDests /\ y.checks = x.checks
    /\ y.vips = x.vips
SameActive(x, y) ==
    y.active = x.active /\ y.activeSvcs = x.activeSvcs /\ y.activeDests = x.activeDests

(* The NCC calls on the IPVS table, and those on the addresses. *)
IPVSFaults == {"AddService", "UpdateService", "DeleteService", "AddDestination",
               "UpdateDestination", "DeleteDestination"}
VIPFaults == {"AddVIP", "DeleteVIP"}

(* No call on the IPVS table has failed; no call on the addresses has. *)
IPVSCallsOK(x) == x.node.fatal \cap IPVSFaults = {}
VIPCallsOK(x) == x.node.fatal \cap VIPFaults = {}

(* Calls on the load balancing interface and to the BGP daemon leave the   *)
(* IPVS table alone, and the calls on it leave the rest alone.             *)
SameIPVS(x, y) ==
    /\ y.node.services = x.node.services /\ y.node.dests = x.node.dests
    /\ y.node.fatal \cap IPVSFaults = x.node.fatal \cap IPVSFaults
SameNet(x, y) ==
    /\ y.lbVservers = x.lbVservers /\ y.node.addrs = x.node.addrs
    /\ y.node.rules = x.node.rules /\ y.node.routes = x.node.routes
    /\ y.node.fatal \cap VIPFaults = x.node.fatal \cap VIPFaults

(* A call on the IPVS table changes the two parts of the table, and records *)
(* its fault if it is refused.                                             *)
SetIPVS(x, s, t, f) ==
    [x EXCEPT !.node = [x.node EXCEPT !.services = s, !.dests = t, !.fatal = @ \cup f]]

(* A call on the addresses changes the addresses, their rules and the      *)
(* snapshots kept of them, and records its fault if it is refused.         *)
SetVIPs(x, l, r, a, f) ==
    [x EXCEPT !.lbVservers = l,
              !.node = [x.node EXCEPT !.rules = r, !.addrs = a, !.fatal = @ \cup f]]

(* Advertising and withdrawing routes change only the routes.              *)
SetRoutes(x, r) == [x EXCEPT !.node = [x.node EXCEPT !.routes = r]]

(* The two halves of Installed. *)
InstalledSvcs(x) ==
    \A k \in x.activeSvcs : <<IpvsId(x, k), x.svc[k].ventry.sched>> \in x.node.services
InstalledDests(x) ==
    \A d \in x.activeDests \cap x.healthyDests :
        <<IpvsDestId(x, d), x.backend[d].weight>> \in x.node.dests

(* The IPVS table holds the active services and no other. *)
ExactSvcs(x) ==
    \A e \in x.node.services : \E k \in x.activeSvcs :
        e = <<IpvsId(x, k), x.svc[k].ventry.sched>>

(* It holds the active destinations and no other, under their weights      *)
(* unless they are about to be taken down, and no call on it has failed.   *)
ExactDests(x) ==
    /\ \A e \in x.node.dests : \E d \in x.activeDests :
         e[1] = IpvsDestId(x, d) /\ (d \in x.healthyDests => e[2] = x.backend[d].weight)
    /\ \A d \in x.activeDests : IpvsDestId(x, d) \in Ids(x.node.dests)
    /\ IPVSCallsOK(x)

Exact(x) == ExactSvcs(x) /\ ExactDests(x)

(* What vserver.updateServices needs of the state it repairs: the services *)
(* of the addresses S may be active or not, but no destination is active   *)
(* under an inactive service, and one that is not as its health says       *)
(* belongs to an active service that is about to be taken down.            *)
Repairable(x, S) ==
    /\ \A k \in Services(x) : x.svc[k].vip \notin S =>
         (k \in x.activeSvcs <=> k \in x.healthySvcs /\ x.svc[k].vip \in x.active)
    /\ \A d \in Destinations(x) :
         /\ d \in x.activeDests => d[1] \in x.activeSvcs
         /\ \/ d \in x.activeDests <=> d \in x.healthyDests /\ d[1] \in x.activeSvcs
            \/ /\ x.svc[d[1]].vip \in S
               /\ d[1] \in x.activeSvcs /\ d[1] \notin x.healthySvcs
=============================================================================

---------------------------- MODULE ClusterConfig ----------------------------
(* From a configuration file to the engine's tables: protoToCluster and its *)
(* helpers (engine/config/config.go, types.go) turn the protobuf into a     *)
(* Cluster whose parts are maps by key; the engine's manager (engine/       *)
(* core.go) then takes its VLANs over and builds the map gratuitousARP      *)
(* announces from.                                                          *)
EXTENDS Integers, Sequences, FiniteSets, SequencesExt

CONSTANTS
    Files,        \* the protobufs, records as protoToCluster reads them
    Anycast,      \* the addresses of the anycast range
    IPv6,         \* the addresses that are IPv6
    ClusterVIP,   \* the address of the cluster
    IPv4Addr,     \* the addresses of this node
    IPv6Addr,
    ByteSpace,    \* the numbers of a uint8, 2^8
    Lb,           \* the load balancing interface
    None

VARIABLES
    file,         \* the protobuf of the cluster, or None
    cluster,      \* e.cluster, or None
    vlans,        \* e.vlans: the VLAN of an id
    arpMap,       \* e.arpMap, as pairs of interface and address
    leader,       \* haManager.state is LEADER
    pc,           \* what the manager does next
    arps          \* what gratuitousARP announced last

vars == <<file, cluster, vlans, arpMap, leader, pc, arps>>

(* A map filled with Add...: the first of two entries with one key stays. *)
Added(entries, key) ==
    FoldLeft(LAMBDA m, e : m @@ (e[key] :> e), <<>>, entries)

AddVserver(vservers) == Added(vservers, "name")
AddVserverEntry(entries) == Added(entries, "port")
AddBackend(backends) == Added(backends, "name")
AddHealthcheck(checks) == Added(checks, "name")

(* AddNode and AddVLAN give no error. *)
Distinct(entries, key) ==
    \A i, j \in DOMAIN entries : entries[i][key] = entries[j][key] => i = j
-----------------------------------------------------------------------------
(* protoToHealthcheck: HTTPS and TCP_TLS are HTTP and TCP over TLS. *)
protoToHealthcheck(p, defaultPort) ==
    [type |-> IF p.type = "HTTPS" THEN "HTTP" ELSE IF p.type = "TCP_TLS" THEN "TCP" ELSE p.type,
     secure |-> p.type \in {"HTTPS", "TCP_TLS"},
     port |-> IF p.port = 0 THEN defaultPort ELSE p.port,
     send |-> p.send]

TypeRank(t) == CHOOSE i \in 1..6 : <<"DNS", "HTTP", "ICMP", "RADIUS", "TCP", "UDP">>[i] = t

(* Healthchecks.Less: send stands for the fields it compares after type and *)
(* port; the mode, TLS and the retries are not among them.                  *)
Less(a, b) ==
    \/ TypeRank(a.type) < TypeRank(b.type)
    \/ a.type = b.type /\ a.port < b.port
    \/ a.type = b.type /\ a.port = b.port /\ a.send < b.send

(* sort.Sort, which is not stable: any order that Less agrees with. *)
SortedUnsorted(checks) == {checks}             \* mutant: the list is not sorted
Sorted(checks) ==
    LET n == Len(checks)
    IN  {s \in {[i \in 1..n |-> checks[f[i]]] :
                  f \in {g \in [1..n -> 1..n] : \A i, j \in 1..n : g[i] = g[j] => i = j}} :
           \A i, j \in 1..n : i < j => ~Less(s[j], s[i])}

(* protosToHealthchecks: the counter of the name starts again with every    *)
(* type and port.                                                           *)
Named(s) ==
    LET counter[i \in 1..Len(s)] ==
            IF i > 1 /\ s[i].type = s[i - 1].type /\ s[i].port = s[i - 1].port
            THEN counter[i - 1] + 1 ELSE 0
    IN  [i \in 1..Len(s) |-> [name |-> <<s[i].type, s[i].port, counter[i]>>, check |-> s[i]]]

protosToHealthchecks(ps, defaultPort) ==
    {AddHealthcheck(Named(s)) :
       s \in Sorted([i \in DOMAIN ps |-> protoToHealthcheck(ps[i], defaultPort)])}

(* addNodes *)
Serving == {"PRODUCTION", "TESTING"}

nodeOf(p, n) ==
    [name |-> n.name, addr |-> n.addr, addr6 |-> n.addr6,
     haEnabled |-> p.vipStatus \in Serving \cup {"BUILDING"} /\ n.status = p.vipStatus,
     vservers |-> n.status \in Serving]

(* The nodes by IPv4 address: the first has priority 255, the others count  *)
(* down to 1, in a uint8.                                                   *)
Priority(i, n) == IF i = 1 THEN ByteSpace - 1 ELSE (n - i + 1) % ByteSpace

addNodes(p) ==
    LET m == Added(p.nodes, "name")
        rank(k) == Cardinality({o \in DOMAIN m : m[o].addr <= m[k].addr})
    IN  [k \in DOMAIN m |->
           [priority |-> Priority(rank(k), Cardinality(DOMAIN m))] @@ nodeOf(p, m[k])]

(* addVLANs, without the counters, which no comparison looks at. *)
addVLANs(p) == Added(p.vlans, "id")

(* What a choice for every key makes a map of. *)
Selections(S) ==
    {f \in [DOMAIN S -> UNION {S[k] : k \in DOMAIN S}] : \A k \in DOMAIN S : f[k] \in S[k]}

(* addVservers: an entry with an unknown protocol, scheduler or mode is     *)
(* skipped, the high watermark is at least the low one, duplicates are      *)
(* ignored with a warning.                                                  *)
entryOf(e, checks) ==
    [port |-> e.port, low |-> e.low, high |-> IF e.high < e.low THEN e.low ELSE e.high,
     checks |-> checks]

addEntries(vs) ==
    LET m == AddVserverEntry(SelectSeq(vs.entries, LAMBDA e : e.supported))
    IN  Selections([k \in DOMAIN m |->
                   {entryOf(m[k], c) : c \in protosToHealthchecks(m[k].checks, m[k].port)}])

addBackends(vs) ==
    LET m == AddBackend(vs.backends)
    IN  [k \in DOMAIN m |-> [enabled |-> m[k].status \in Serving,
                            inService |-> m[k].status \notin {"PROPOSED", "BUILDING"}]]

vserversOf(vs) ==
    {[enabled |-> vs.status \in Serving, vips |-> vs.vips, entries |-> e,
      backends |-> addBackends(vs), checks |-> c] :
        e \in addEntries(vs), c \in protosToHealthchecks(vs.checks, 0)}

addVservers(p) ==
    LET m == AddVserver(p.vservers)
    IN  Selections([k \in DOMAIN m |-> vserversOf(m[k])])

(* protoToCluster: two nodes of one name or two VLANs of one id are errors. *)
protoToCluster(p) ==
    IF Distinct(p.nodes, "name") /\ Distinct(p.vlans, "id")
    THEN {[nodes |-> addNodes(p), vlans |-> addVLANs(p), vservers |-> vs] : vs \in addVservers(p)}
    ELSE {}
-----------------------------------------------------------------------------
Init ==
    /\ file = None /\ cluster = None /\ vlans = <<>> /\ arpMap = {}
    /\ leader \in BOOLEAN /\ pc = "idle" /\ arps = {}

(* Engine.thisNode: a node with the IPv4 address of this one, otherwise one *)
(* with its IPv6 address.                                                   *)
thisNode(c) ==
    LET v4 == {k \in DOMAIN c.nodes : c.nodes[k].addr = IPv4Addr}
        v6 == {k \in DOMAIN c.nodes : c.nodes[k].addr6 = IPv6Addr}
    IN  IF v4 # {} THEN v4 ELSE v6

(* ReadConfig, and the notification the manager gets; a file that is in     *)
(* error changes nothing.                                                   *)
ReadConfig(p) ==
    /\ pc = "idle"
    /\ cluster' \in protoToCluster(p)
    /\ file' = p
    /\ pc' \in IF thisNode(cluster') = {} THEN {"idle"}
               ELSE {IF cluster'.nodes[k].vservers THEN "vlans" ELSE "stop" : k \in thisNode(cluster')}
    /\ UNCHANGED <<vlans, arpMap, leader, arps>>

(* shutdownVservers and deleteVLANs: the ARP map stays. *)
deleteVLANs ==
    /\ pc = "stop"
    /\ vlans' = <<>> /\ pc' = "idle"
    /\ UNCHANGED <<file, cluster, arpMap, leader, arps>>

updateVLANs ==
    /\ pc = "vlans"
    /\ vlans' = cluster.vlans /\ pc' = "arp"
    /\ UNCHANGED <<file, cluster, arpMap, leader, arps>>

(* updateARPMap: an address is announced on the first VLAN, in the order of *)
(* a Go map, that holds it, and otherwise on the load balancing interface.  *)
Announced(c) == UNION {c.vservers[k].vips : k \in DOMAIN c.vservers} \ (Anycast \cup IPv6)

Interfaces(ip) ==
    LET ids == {i \in DOMAIN vlans : ip \in vlans[i].net}
    IN  IF ids = {} THEN {Lb} ELSE ids

updateARPMap ==
    /\ pc = "arp"
    /\ \E f \in Selections([ip \in Announced(cluster) |-> Interfaces(ip)]) :
          arpMap' = {<<Lb, ClusterVIP>>} \cup {<<f[ip], ip>> : ip \in Announced(cluster)}
    /\ pc' = "idle"
    /\ UNCHANGED <<file, cluster, vlans, leader, arps>>

(* gratuitousARP, at any time: the leader announces the map that it finds;  *)
(* the NCC passes over an interface that is gone.                           *)
ARPSendGratuitous(map) == {a \in map : a[1] \in DOMAIN vlans \cup {Lb}}

gratuitousARP ==
    /\ arps' = IF leader THEN ARPSendGratuitous(arpMap) ELSE {}
    /\ UNCHANGED <<file, cluster, vlans, arpMap, leader, pc>>

setState ==
    /\ leader' = ~leader
    /\ UNCHANGED <<file, cluster, vlans, arpMap, pc, arps>>

Next ==
    \/ \E p \in Files : ReadConfig(p)
    \/ deleteVLANs
    \/ updateVLANs
    \/ updateARPMap
    \/ gratuitousARP
    \/ setState

Spec == Init /\ [][Next]_vars
-----------------------------------------------------------------------------
(* protosToHealthchecks names the checks so that AddHealthcheck, which      *)
(* ignores a second check of one name, loses none of them: every check of   *)
(* the file is in the map of its vserver or entry, under a name with its    *)
(* type and port.                                                           *)
NoCheckLost ==
    (pc # "idle") =>
      \A i \in DOMAIN file.vservers :
        LET vs == file.vservers[i]
            v == cluster.vservers[vs.name]
            kept(m, ps, port) ==
              /\ Cardinality(DOMAIN m) = Len(ps)
              /\ \A j \in DOMAIN ps :
                   \E k \in DOMAIN m : /\ m[k].check = protoToHealthcheck(ps[j], port)
                                       /\ k[1] = m[k].check.type /\ k[2] = m[k].check.port
        IN  Distinct(file.vservers, "name") =>
              /\ kept(v.checks, vs.checks, 0)
              /\ Distinct(vs.entries, "port") =>
                   \A j \in DOMAIN vs.entries :
                     LET e == vs.entries[j]
                     IN  e.supported => kept(v.entries[e.port].checks, e.checks, e.port)

(* The same lists in another order. *)
SameChecks(s, t) ==
    /\ Len(s) = Len(t)
    /\ \A c \in Range(s) \cup Range(t) :
         Cardinality({i \in DOMAIN s : s[i] = c}) = Cardinality({i \in DOMAIN t : t[i] = c})

(* Less tells the checks of a list apart. *)
Told(ps, port) ==
    LET hc(i) == protoToHealthcheck(ps[i], port)
    IN  \A i, j \in DOMAIN ps : hc(i) = hc(j) \/ Less(hc(i), hc(j)) \/ Less(hc(j), hc(i))


=============================================================================

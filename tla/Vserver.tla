------------------------------ MODULE Vserver ------------------------------
(***************************************************************************)
(* One virtual server of the Seesaw engine: the goroutine vserver.run of   *)
(* engine/vserver.go, which owns the services, destinations and checks of  *)
(* one vserver, carries healthcheck results up from destination to service *)
(* to VIP, and keeps the IPVS table, the load balancing interface, the     *)
(* firewall rules and the BGP routes of the node in step with them.        *)
(*                                                                         *)
(* The goroutine handles one event at a time, so a handler is one step.    *)
(* The handlers that loop over a Go map while the state of the vserver     *)
(* changes under them take one step per iteration: "loop" holds what is    *)
(* left of the loop, in no particular order, and no other event is taken   *)
(* until it is finished.                                                   *)
(***************************************************************************)
EXTENDS Integers, FiniteSets

CONSTANTS
    AFs,            \* address families
    Addrs,          \* host addresses within a family
    Anycast,        \* the addresses <<af, addr>> in the anycast ranges
    Ports,          \* the (port, protocol) pairs that key the vserver entries
    Backends,       \* backend host names
    Healthchecks,   \* healthcheck names
    Configs,        \* the vserver configurations the node may be given
    Overrides,      \* the overrides operators may issue
    AnycastEnabled, \* engine.config.AnycastEnabled
    Nil             \* no configuration, no address, no port

VARIABLES
    v,      \* the vserver struct, and the state its NCC calls maintain
    loop,   \* what is left of the running handler's loop, or Idle
    vcc,    \* the checks last published to the healthcheck manager
    mode    \* "running", "stopped" (quit) or "panicked" (nil dereference)

vars == <<v, loop, vcc, mode>>

-----------------------------------------------------------------------------
(* Data.                                                                   *)

IPs == AFs \X Addrs
Keys == AFs \X (Ports \cup {Nil})     \* <<af, Nil>> is the key of a mark
Dests == Keys \X Backends
CheckKeys == IPs \X Backends \X (Ports \cup {Nil}) \X Healthchecks

Modes == {"DSR", "NAT", "TUN"}
VIPTypes == {"Anycast", "Dedicated", "Unicast"}
States == {"Unknown", "Unhealthy", "Healthy"}
OverrideStates == {"Default", "Disable", "Enable"}

(* A vserver entry; watermarks are percentages of the backends in service. *)
EntryType == [mode: Modes, sched: Nat, low: Nat, high: Nat,
              hcs: SUBSET Healthchecks]
ServiceType == [vip: IPs, ventry: EntryType]
BackendType == [enabled: BOOLEAN, inService: BOOLEAN, weight: Nat,
                afs: SUBSET AFs]
ConfigType == [enabled: BOOLEAN, useFWM: BOOLEAN,
               addr: [AFs -> Addrs \cup {Nil}], dedicated: SUBSET IPs,
               entries: [Ports -> EntryType \cup {Nil}],
               backends: [Backends -> BackendType \cup {Nil}],
               hcs: SUBSET Healthchecks]

EntryPorts(c) == {p \in Ports : c.entries[p] # Nil}
BackendNames(c) == {b \in Backends : c.backends[b] # Nil}

(* An override of the vserver, or of one backend (a DestinationOverride is *)
(* matched against the backend's host name too, and handled alike).        *)
OverrideType == [target: Backends \cup {Nil}, state: OverrideStates]

ASSUME ConstantsAssumption ==
    /\ Nil \notin Ports \cup Addrs \cup Backends \cup IPs \cup States \cup Modes
    /\ Nil \notin EntryType /\ Nil \notin ServiceType /\ Nil \notin BackendType /\ Nil \notin ConfigType
    /\ Anycast \subseteq IPs
    /\ Configs \subseteq ConfigType
    /\ Overrides \subseteq OverrideType
    /\ \A c \in Configs : c.useFWM =>
          /\ EntryPorts(c) # {}
          /\ \A p, q \in EntryPorts(c) : \A f \in {"mode", "sched", "low", "high"} :
                c.entries[p][f] = c.entries[q][f]
    /\ AnycastEnabled \in BOOLEAN

(* The services, destinations, VIPs and checks a configuration expands to. *)
IPOf(c, af) == <<af, c.addr[af]>>
ServiceKeys(c) ==
    {af \in AFs : c.addr[af] # Nil}
        \X (IF c.useFWM THEN {Nil} ELSE EntryPorts(c))
EntryOf(c, k) ==
    IF c.useFWM THEN c.entries[CHOOSE p \in EntryPorts(c) : TRUE]
                ELSE c.entries[k[2]]
BackendsFor(c, k) == {b \in BackendNames(c) : k[1] \in c.backends[b].afs}
VIPType(c, ip) == IF ip \in Anycast THEN "Anycast"
                  ELSE IF ip \in c.dedicated THEN "Dedicated" ELSE "Unicast"
VIPs(c) == {<<IPOf(c, af), VIPType(c, IPOf(c, af))>> :
                af \in {a \in AFs : c.addr[a] # Nil}}

VserverEnabled(c, state) ==
    /\ c # Nil
    /\ state # "Disable"
    /\ state = "Enable" \/ c.enabled

(* The firewall rules NCC installs for an address of the vserver: the      *)
(* ports let through, their modes, and whether packets are marked.         *)
Rules(c, fwm, af) ==
    [ip |-> IPOf(c, af), marked |-> af \in fwm,
     modes |-> [p \in Ports |-> IF p \in EntryPorts(c) THEN c.entries[p].mode ELSE Nil]]
NoRules == [ip |-> Nil]
RulesType == [ip: AFs \X (Addrs \cup {Nil}), marked: BOOLEAN,
              modes: [Ports -> Modes \cup {Nil}]]

-----------------------------------------------------------------------------
(* What the NCC does for the vserver. A call that fails is fatal to the    *)
(* engine: adding what is there, deleting or updating what is not. "fatal" *)
(* collects the calls that failed.                                         *)

Faults == {"AddService", "UpdateService", "DeleteService", "AddDestination",
           "UpdateDestination", "DeleteDestination", "AddVIP", "DeleteVIP"}
Fault(name, happens) == IF happens THEN {name} ELSE {}

(* The identity of a service in the IPVS table: a firewall mark service is *)
(* found by its mark alone, any other by its address and port.             *)
IpvsIds == Keys \X (IPs \cup {Nil})
IpvsDestIds == IpvsIds \X Backends
IpvsId(x, k) == <<k, IF k[2] = Nil THEN Nil ELSE x.svc[k].vip>>
IpvsDestId(x, d) == <<IpvsId(x, d[1]), d[2]>>
Ids(table) == {e[1] : e \in table}

IPVSAddService(x, K) ==
    LET ids == {IpvsId(x, k) : k \in K} IN
    [x EXCEPT !.node = [x.node EXCEPT
        !.services = @ \cup {<<IpvsId(x, k), x.svc[k].ventry.sched>> : k \in K},
        !.fatal = @ \cup Fault("AddService", ids \cap Ids(x.node.services) # {})]]

IPVSDeleteService(x, K) ==
    LET ids == {IpvsId(x, k) : k \in K} IN
    [x EXCEPT !.node = [x.node EXCEPT
        !.services = {e \in @ : e[1] \notin ids},
        !.dests = {e \in @ : e[1][1] \notin ids},
        !.fatal = @ \cup Fault("DeleteService", ~(ids \subseteq Ids(x.node.services)))]]

IPVSUpdateService(x, k) ==
    [x EXCEPT !.node = [x.node EXCEPT
        !.services = {e \in @ : e[1] # IpvsId(x, k)}
                        \cup {<<IpvsId(x, k), x.svc[k].ventry.sched>>},
        !.fatal = @ \cup Fault("UpdateService", IpvsId(x, k) \notin Ids(x.node.services))]]

IPVSAddDestination(x, D) ==
    LET ids == {IpvsDestId(x, d) : d \in D} IN
    [x EXCEPT !.node = [x.node EXCEPT
        !.dests = @ \cup {<<IpvsDestId(x, d), x.backend[d].weight>> : d \in D},
        !.fatal = @ \cup Fault("AddDestination",
                               \/ ids \cap Ids(x.node.dests) # {}
                               \/ ~(Ids(ids) \subseteq Ids(x.node.services)))]]

IPVSDeleteDestination(x, D) ==
    LET ids == {IpvsDestId(x, d) : d \in D} IN
    [x EXCEPT !.node = [x.node EXCEPT
        !.dests = {e \in @ : e[1] \notin ids},
        !.fatal = @ \cup Fault("DeleteDestination", ~(ids \subseteq Ids(x.node.dests)))]]

IPVSUpdateDestination(x, d) ==
    [x EXCEPT !.node = [x.node EXCEPT
        !.dests = {e \in @ : e[1] # IpvsDestId(x, d)}
                        \cup {<<IpvsDestId(x, d), x.backend[d].weight>>},
        !.fatal = @ \cup Fault("UpdateDestination",
                               IpvsDestId(x, d) \notin Ids(x.node.dests))]]

(* AddVserver with a snapshot of the vserver, which is kept in lbVservers, *)
(* then AddVIP; DeleteVIP, then DeleteVserver with the kept snapshot.      *)
AddVIP(x, S) ==
    LET snapshot(ip) == Rules(x.config, x.fwm, ip[1]) IN
    [x EXCEPT
        !.lbVservers = [ip \in IPs |-> IF ip \in Ids(S) THEN snapshot(ip) ELSE @[ip]],
        !.node = [x.node EXCEPT
            !.rules = @ \cup {snapshot(ip) : ip \in Ids(S)},
            !.addrs = @ \cup S,
            !.fatal = @ \cup Fault("AddVIP", S \cap x.node.addrs # {})]]

DeleteVIP(x, S) ==
    LET kept == {x.lbVservers[ip] : ip \in Ids(S)} IN
    [x EXCEPT
        !.lbVservers = [ip \in IPs |-> IF ip \in Ids(S) THEN NoRules ELSE @[ip]],
        !.node = [x.node EXCEPT
            !.addrs = @ \ S,
            !.rules = @ \ kept,
            !.fatal = @ \cup Fault("DeleteVIP",
                          \/ ~(S \subseteq x.node.addrs /\ kept \subseteq x.node.rules)
                          \/ \E s1, s2 \in S : s1 # s2 /\ s1[1] = s2[1])]]

BGPAdvertiseVIP(x, S) ==
    [x EXCEPT !.node.routes = IF AnycastEnabled THEN @ \cup S ELSE @]
BGPWithdrawVIP(x, S) ==
    [x EXCEPT !.node.routes = IF AnycastEnabled THEN @ \ S ELSE @]

-----------------------------------------------------------------------------
(* The cascade: destination to service to VIP, and back down. A loop over  *)
(* a map whose iterations do not affect one another is a set operation.    *)

Services(x) == {k \in Keys : x.svc[k] # Nil}
Destinations(x) == {d \in Dests : x.backend[d] # Nil}
DestsOf(x, K) == {d \in Destinations(x) : d[1] \in K}
ServicesOf(x, S) == {k \in Services(x) : x.svc[k].vip \in S}

DestinationUp(x, D) == IPVSAddDestination([x EXCEPT !.activeDests = @ \cup D], D)
DestinationDown(x, D) == IPVSDeleteDestination([x EXCEPT !.activeDests = @ \ D], D)

(* service.updateDests, for each service of K. *)
UpdateDests(x, K) ==
    LET wanted == {d \in DestsOf(x, K) : d[1] \in x.activeSvcs /\ d \in x.healthyDests}
        down == (DestsOf(x, K) \cap x.activeDests) \ wanted
        up == wanted \ x.activeDests
    IN DestinationUp(DestinationDown(x, down), up)

(* service.up and service.down, for each service of K. *)
ServiceUp(x, K) ==
    UpdateDests(IPVSAddService([x EXCEPT !.activeSvcs = @ \cup K], K), K)
ServiceDown(x, K) ==
    IPVSDeleteService(UpdateDests([x EXCEPT !.activeSvcs = @ \ K], K), K)

(* vserver.updateServices, for each address of S. *)
UpdateServices(x, S) ==
    LET wanted == {k \in ServicesOf(x, S) : x.svc[k].vip \in x.active /\ k \in x.healthySvcs}
        down == (ServicesOf(x, S) \cap x.activeSvcs) \ wanted
        up == wanted \ x.activeSvcs
    IN ServiceUp(ServiceDown(x, down), up)

(* vserver.up for one address; vserver.down for each address of S. *)
AnycastVIPs(S) == {<<ip, "Anycast">> : ip \in S \cap Anycast}
VserverUp(x, ip) ==
    LET y == UpdateServices([x EXCEPT !.active = @ \cup {ip}], {ip})
    IN IF ip \in Anycast
       THEN BGPAdvertiseVIP(AddVIP(y, AnycastVIPs({ip})), {ip})
       ELSE y
VserverDownAlone(x, S) ==            \* mutant: no updateServices
    [DeleteVIP(BGPWithdrawVIP(x, S \cap Anycast), AnycastVIPs(S)) EXCEPT !.active = @ \ S]
VserverDownAdvertised(x, S) ==       \* mutant: no BGPWithdrawVIP
    UpdateServices([DeleteVIP(x, AnycastVIPs(S)) EXCEPT !.active = @ \ S], S)
VserverDown(x, S) ==
    LET y == DeleteVIP(BGPWithdrawVIP(x, S \cap Anycast), AnycastVIPs(S))
    IN UpdateServices([y EXCEPT !.active = @ \ S], S)

(* vserver.updateState: an anycast address is healthy if all its services  *)
(* are, a unicast one if any of them is.                                   *)
AddressHealthy(x, ip) ==
    IF ip \in Anycast
    THEN ServicesOf(x, {ip}) # {} /\ ServicesOf(x, {ip}) \subseteq x.healthySvcs
    ELSE ServicesOf(x, {ip}) \cap x.healthySvcs # {}
VserverUpdateState(x, ip) ==
    IF AddressHealthy(x, ip) = (ip \in x.active) THEN UpdateServices(x, {ip})
    ELSE IF ip \in x.active THEN VserverDown(x, {ip})
    ELSE VserverUp(x, ip)

(* service.updateState: a healthy service stays so down to the low         *)
(* watermark, an unhealthy one becomes healthy at the high watermark.      *)
ServiceHealthy(x, k) ==
    LET inService == {d \in DestsOf(x, {k}) : x.backend[d].inService}
        healthy == DestsOf(x, {k}) \cap x.healthyDests
        threshold == IF k \in x.healthySvcs THEN x.svc[k].ventry.low ELSE x.svc[k].ventry.high
    IN /\ inService # {}
       /\ healthy # {}
       /\ Cardinality(healthy) * 100 >= threshold * Cardinality(inService)
ServiceUpdateStateLocal(x, k) ==     \* mutant: vserver.updateState is not called
    LET healthy == ServiceHealthy(x, k)
        y == [x EXCEPT !.healthySvcs = IF healthy THEN @ \cup {k} ELSE @ \ {k}]
    IN IF healthy = (k \in x.healthySvcs) THEN UpdateDests(x, {k})
       ELSE IF healthy /\ x.svc[k].vip \in x.active THEN ServiceUp(y, {k})
       ELSE IF healthy THEN VserverUpdateState(y, x.svc[k].vip)
       ELSE IF k \in x.activeSvcs THEN ServiceDown(y, {k})
       ELSE y
ServiceUpdateState(x, k) ==
    LET healthy == ServiceHealthy(x, k)
        y == [x EXCEPT !.healthySvcs = IF healthy THEN @ \cup {k} ELSE @ \ {k}]
    IN IF healthy = (k \in x.healthySvcs) THEN UpdateDests(x, {k})
       ELSE IF healthy /\ x.svc[k].vip \in x.active THEN ServiceUp(y, {k})
       ELSE IF healthy # (x.svc[k].vip \in x.active) THEN VserverUpdateState(y, x.svc[k].vip)
       ELSE y

(* destination.updateState *)
ChecksOf(x, d) ==
    LET key(p, h) == <<x.svc[d[1]].vip, d[2], p, h>>
        ports == IF x.config.useFWM THEN EntryPorts(x.config) ELSE {d[1][2]}
        hcs(p) == IF x.config.useFWM THEN x.config.entries[p].hcs ELSE x.svc[d[1]].ventry.hcs
    IN IF x.backend[d].enabled
       THEN {key(Nil, h) : h \in x.config.hcs}
            \cup UNION {{key(p, h) : h \in hcs(p)} : p \in ports}
       ELSE {}
KnownChecks(x) == {c \in CheckKeys : x.checks[c] # Nil}
DestinationHealthyByAny(x, d) ==     \* mutant: one healthy check is enough
    x.backend[d].enabled /\ \E c \in ChecksOf(x, d) : x.checks[c] = "Healthy"
DestinationHealthy(x, d) ==
    x.backend[d].enabled /\ \A c \in ChecksOf(x, d) : x.checks[c] = "Healthy"
DestinationUpdateState(x, d) ==
    LET healthy == DestinationHealthy(x, d)
        k == d[1]
        y == [x EXCEPT !.healthyDests = IF healthy THEN @ \cup {d} ELSE @ \ {d}]
    IN IF healthy = (d \in x.healthyDests) THEN x
       ELSE IF healthy /\ k \in x.activeSvcs THEN DestinationUp(y, {d})
       ELSE IF healthy # (k \in x.activeSvcs) \/ healthy # (k \in x.healthySvcs)
            THEN ServiceUpdateState(y, k)
       ELSE y

-----------------------------------------------------------------------------
(* Configuration.                                                          *)

DownAllTwice(x) ==                   \* mutant: services are listed before the VIPs go down
    ServiceDown(VserverDown(x, {x.svc[k].vip : k \in Services(x)} \cap x.active), x.activeSvcs)
(* vserver.downAll *)
DownAll(x) ==
    LET y == VserverDown(x, {x.svc[k].vip : k \in Services(x)} \cap x.active)
    IN ServiceDown(y, y.activeSvcs)

UnconfigureVIPs(x, S) == [DeleteVIP(x, S) EXCEPT !.vips = @ \ S]
ConfigureVIPs(x) ==
    LET S == {vip \in VIPs(x.config) : vip \notin x.vips /\ vip[2] # "Anycast"}
    IN [AddVIP(x, S) EXCEPT !.vips = @ \cup S]

(* expandChecks, for the services and destinations at hand: a check that   *)
(* stays keeps its status.                                                 *)
ExpandChecks(x) ==
    [x EXCEPT !.checks =
        [c \in CheckKeys |->
            IF \E d \in Destinations(x) : c \in ChecksOf(x, d)
            THEN IF @[c] = Nil THEN "Unknown" ELSE @[c]
            ELSE Nil]]

AllocateMarks(x, c) ==
    [x EXCEPT !.fwm = IF c.useFWM THEN @ \cup {af \in AFs : c.addr[af] # Nil} ELSE @]

(* vserver.configInit: every service starts again, unhealthy and inactive. *)
ConfigInit(x, c) ==
    LET K == ServiceKeys(c)
        service(k) == [vip |-> IPOf(c, k[1]), ventry |-> EntryOf(c, k)]
        dest(d) == d[1] \in K /\ d[2] \in BackendsFor(c, d[1])
        y == [AllocateMarks(x, c) EXCEPT
                !.config = c,
                !.enabled = VserverEnabled(c, x.override),
                !.svc = [k \in Keys |-> IF k \in K THEN service(k) ELSE Nil],
                !.nilDests = {}, !.healthySvcs = {}, !.activeSvcs = {},
                !.backend = [d \in Dests |-> IF dest(d) THEN c.backends[d[2]] ELSE Nil],
                !.healthyDests = {}, !.activeDests = {},
                !.checks = [i \in CheckKeys |-> Nil]]
    IN IF y.enabled THEN ConfigureVIPs(ExpandChecks(y)) ELSE ExpandChecks(y)

(* The changes that handleConfigUpdate answers with a re-initialisation. *)
NeedsReInit(old, new) ==
    \/ new.useFWM # old.useFWM
    \/ EntryPorts(new) # EntryPorts(old)
    \/ \E p \in EntryPorts(new) : new.entries[p].mode # old.entries[p].mode

(* The cases of handleConfigUpdate that end in configInit. *)
Restarts(x, c) ==
    \/ x.config = Nil
    \/ ~x.enabled
    \/ ~VserverEnabled(c, x.override)
    \/ NeedsReInit(x.config, c)
Restart(x, c) ==
    IF x.config # Nil /\ x.enabled
    THEN LET y == DownAll(x) IN ConfigInit(UnconfigureVIPs(y, y.vips), c)
    ELSE ConfigInit(x, c)

(* delete(v.services, key), which drops the destinations of k with it. *)
ForgetService(x, k) ==
    [x EXCEPT
        !.svc[k] = Nil, !.nilDests = @ \ {k},
        !.healthySvcs = @ \ {k}, !.activeSvcs = @ \ {k},
        !.backend = [d \in Dests |-> IF d[1] = k THEN Nil ELSE @[d]],
        !.healthyDests = @ \ ({k} \X Backends),
        !.activeDests = @ \ ({k} \X Backends)]
DeleteService(x, k) ==
    ForgetService(
        IF k \in x.activeSvcs
        THEN VserverUpdateState([x EXCEPT !.healthySvcs = @ \ {k}], x.svc[k].vip)
        ELSE x, k)

(* A new service of configUpdate. The map of destinations of a firewall    *)
(* mark service is left nil.                                               *)
AddService(x, k) ==
    LET ip == IPOf(x.config, k[1]) IN
    VserverUpdateState(
        [x EXCEPT
            !.svc[k] = [vip |-> ip, ventry |-> EntryOf(x.config, k)],
            !.nilDests = IF x.config.useFWM THEN @ \cup {k} ELSE @],
        ip)

ServiceUpdateUnsent(x, k) ==         \* mutant: no IPVSUpdateService
    [x EXCEPT !.svc[k].ventry = EntryOf(x.config, k)]
(* service.update; the first loop of configUpdate for one service key. *)
ServiceUpdate(x, k) ==
    LET y == [x EXCEPT !.svc[k].ventry = EntryOf(x.config, k)]
    IN IF k \in x.activeSvcs /\ y.svc[k].ventry.sched # x.svc[k].ventry.sched
       THEN IPVSUpdateService(y, k)
       ELSE y
ReplaceServiceKey(x, k) ==           \* mutant: a service is always replaced
    AddService(IF k \in Services(x) THEN DeleteService(x, k) ELSE x, k)
UpdateServiceKey(x, k) ==
    IF k \notin Services(x) THEN AddService(x, k)
    ELSE IF x.svc[k].vip = IPOf(x.config, k[1]) THEN ServiceUpdate(x, k)
    ELSE AddService(DeleteService(x, k), k)

(* destination.update, or a new destination. *)
DestinationUpdate(x, d) ==
    LET new == x.config.backends[d[2]]
        y == [x EXCEPT !.backend[d] = new]
    IN IF d \notin x.healthyDests THEN y
       ELSE IF ~new.enabled
            THEN ServiceUpdateState([y EXCEPT !.healthyDests = @ \ {d}], d[1])
       ELSE IF d \in x.activeDests /\ new.weight # x.backend[d].weight
            THEN IPVSUpdateDestination(y, d)
       ELSE y
AddDestination(x, d) ==
    [x EXCEPT !.backend[d] = x.config.backends[d[2]]]

DeleteDestinationActive(x, d) ==     \* mutant: it is not taken down
    [x EXCEPT !.backend[d] = Nil, !.healthyDests = @ \ {d}, !.activeDests = @ \ {d}]
DeleteDestination(x, d) ==
    LET y == IF d \in x.activeDests
             THEN ServiceUpdateState([x EXCEPT !.healthyDests = @ \ {d}], d[1])
             ELSE x
    IN [y EXCEPT !.backend[d] = Nil,
                 !.healthyDests = @ \ {d}, !.activeDests = @ \ {d}]

EndConfigUpdateKeepingVIPs(x) ==     \* mutant: old VIPs stay configured
    IF x.enabled THEN ConfigureVIPs(ExpandChecks(x)) ELSE ExpandChecks(x)
(* The end of configUpdate: VIPs no service needs any more, checks, VIPs. *)
EndConfigUpdate(x) ==
    LET needed == {x.svc[k].vip : k \in Services(x)}
        y == ExpandChecks(UnconfigureVIPs(x, {vip \in x.vips : vip[1] \notin needed}))
    IN IF y.enabled THEN ConfigureVIPs(y) ELSE y

Published(x) == IF x.enabled THEN KnownChecks(x) ELSE {}

-----------------------------------------------------------------------------
(* The events of vserver.run. An event that its handler ignores (a         *)
(* notification for an unknown check or without a transition, or any       *)
(* notification while disabled) is not a step.                             *)

Idle == [op |-> "idle"]
Running == mode = "running" /\ v.node.fatal = {}

Panic == mode' = "panicked" /\ UNCHANGED <<v, loop, vcc>>

HandleCheckNotification(c, state) ==
    /\ Running /\ loop = Idle
    /\ v.enabled
    /\ v.checks[c] \notin {Nil, state}
    /\ v' = [v EXCEPT !.checks[c] = state]
    /\ loop' = [op |-> "checks", left |-> {d \in Destinations(v) : c \in ChecksOf(v, d)}]
    /\ UNCHANGED <<vcc, mode>>

(* The loop of handleCheckNotification, for one destination. *)
CheckDestination(d) ==
    /\ Running /\ loop.op = "checks" /\ d \in loop.left
    /\ v' = DestinationUpdateState(v, d)
    /\ loop' = [loop EXCEPT !.left = @ \ {d}]
    /\ UNCHANGED <<vcc, mode>>

EndCheckNotification ==
    /\ Running /\ loop.op = "checks" /\ loop.left = {}
    /\ loop' = Idle
    /\ UNCHANGED <<v, vcc, mode>>

(* The end of an override or update event: healthchecks() is published. *)
Publish(x) ==
    /\ v' = x
    /\ loop' = Idle
    /\ vcc' = Published(x)
    /\ UNCHANGED mode

HandleConfigUpdate(x, c) ==
    IF Restarts(x, c) THEN Publish(Restart(x, c))
    ELSE /\ v' = [AllocateMarks(x, c) EXCEPT !.config = c]
         /\ loop' = [op |-> "services", left |-> ServiceKeys(c)]
         /\ UNCHANGED <<vcc, mode>>

UpdateConfig(c) ==
    /\ Running /\ loop = Idle
    /\ HandleConfigUpdate(v, c)

(* handleOverride, for the vserver. healthchecks() reads the configuration *)
(* that a vserver may not have been given yet.                             *)
VserverOverride(state) ==
    /\ Running /\ loop = Idle
    /\ LET x == [v EXCEPT !.override = state] IN
       IF v.config = Nil THEN Panic
       ELSE IF VserverEnabled(v.config, state) = v.enabled THEN Publish(x)
       ELSE HandleConfigUpdate(x, v.config)

(* handleOverride, for a backend: its loop over the destinations. *)
BackendOverride(b, state) ==
    /\ Running /\ loop = Idle
    /\ IF v.config = Nil THEN Panic
       ELSE /\ loop' = [op |-> "override", state |-> state,
                        left |-> {d \in Destinations(v) : d[2] = b}]
            /\ UNCHANGED <<v, vcc, mode>>

OverrideDest(x, d, state) ==
    IF state = "Disable" /\ d \in x.activeDests
    THEN ServiceUpdateState([x EXCEPT !.healthyDests = @ \ {d}], d[1])
    ELSE IF state = "Enable" /\ d \notin x.activeDests \cup x.healthyDests
    THEN ServiceUpdateState([x EXCEPT !.healthyDests = @ \cup {d}], d[1])
    ELSE x

OverrideDestination(d) ==
    /\ Running /\ loop.op = "override" /\ d \in loop.left
    /\ v' = OverrideDest(v, d, loop.state)
    /\ loop' = [loop EXCEPT !.left = @ \ {d}]
    /\ UNCHANGED <<vcc, mode>>

EndOverride ==
    /\ Running /\ loop.op = "override" /\ loop.left = {}
    /\ Publish(v)

(* configUpdate: the loop over the new services, the loop over the         *)
(* services there are now, with one over the destinations of each.         *)
UpdateService(k) ==
    /\ Running /\ loop.op = "services" /\ k \in loop.left
    /\ v' = UpdateServiceKey(v, k)
    /\ loop' = [loop EXCEPT !.left = @ \ {k}]
    /\ UNCHANGED <<vcc, mode>>

DestsLoop(left, cur, upd, del) ==
    [op |-> "dests", left |-> left, cur |-> cur, upd |-> upd, del |-> del]

EndServices ==
    /\ Running /\ loop.op = "services" /\ loop.left = {}
    /\ loop' = DestsLoop(Services(v), Nil, {}, {})
    /\ UNCHANGED <<v, vcc, mode>>

NextService(k) ==
    /\ Running /\ loop.op = "dests" /\ loop.upd = {} /\ loop.del = {}
    /\ k \in loop.left
    /\ LET left == loop.left \ {k}
           new == BackendsFor(v.config, k)
           old == {d[2] : d \in DestsOf(v, {k})}
       IN IF k \in ServiceKeys(v.config)
          THEN loop' = DestsLoop(left, k, new, old \ new) /\ v' = v
          ELSE loop' = DestsLoop(left, Nil, {}, {}) /\ v' = DeleteService(v, k)
    /\ UNCHANGED <<vcc, mode>>

UpdateDestination(b) ==
    /\ Running /\ loop.op = "dests" /\ b \in loop.upd
    /\ LET d == <<loop.cur, b>> IN
       IF d \notin Destinations(v) /\ loop.cur \in v.nilDests THEN Panic
       ELSE /\ v' = IF d \in Destinations(v) THEN DestinationUpdate(v, d) ELSE AddDestination(v, d)
            /\ loop' = [loop EXCEPT !.upd = @ \ {b}]
            /\ UNCHANGED <<vcc, mode>>

RemoveDestination(b) ==
    /\ Running /\ loop.op = "dests" /\ loop.upd = {} /\ b \in loop.del
    /\ v' = DeleteDestination(v, <<loop.cur, b>>)
    /\ loop' = [loop EXCEPT !.del = @ \ {b}]
    /\ UNCHANGED <<vcc, mode>>

FinishConfigUpdate ==
    /\ Running /\ loop.op = "dests" /\ loop.left \cup loop.upd \cup loop.del = {}
    /\ Publish(EndConfigUpdate(v))

(* run, on quit. *)
Stop ==
    /\ Running /\ loop = Idle
    /\ IF v.config = Nil THEN Panic
       ELSE /\ LET x == DownAll(v) IN v' = UnconfigureVIPs(x, x.vips)
            /\ vcc' = {}
            /\ mode' = "stopped"
            /\ UNCHANGED loop

Init ==
    /\ v = [config |-> Nil, enabled |-> FALSE, override |-> "Default", fwm |-> {},
            svc |-> [k \in Keys |-> Nil], nilDests |-> {},
            healthySvcs |-> {}, activeSvcs |-> {},
            backend |-> [d \in Dests |-> Nil],
            healthyDests |-> {}, activeDests |-> {},
            checks |-> [c \in CheckKeys |-> Nil],
            active |-> {}, vips |-> {}, lbVservers |-> [ip \in IPs |-> NoRules],
            node |-> [services |-> {}, dests |-> {}, addrs |-> {}, rules |-> {},
                      routes |-> {}, fatal |-> {}]]
    /\ loop = Idle
    /\ vcc = {}
    /\ mode = "running"

(* An iteration or the end of a loop that a handler is in. *)
LoopStep ==
    \/ \E d \in Dests : CheckDestination(d) \/ OverrideDestination(d)
    \/ EndCheckNotification \/ EndOverride
    \/ \E k \in Keys : UpdateService(k) \/ NextService(k)
    \/ EndServices
    \/ \E b \in Backends : UpdateDestination(b) \/ RemoveDestination(b)
    \/ FinishConfigUpdate

Next ==
    \/ \E c \in CheckKeys, state \in States : HandleCheckNotification(c, state)
    \/ \E c \in Configs : UpdateConfig(c)
    \/ \E o \in Overrides : IF o.target = Nil THEN VserverOverride(o.state)
                            ELSE BackendOverride(o.target, o.state)
    \/ LoopStep
    \/ Stop

Spec == Init /\ [][Next]_vars

-----------------------------------------------------------------------------
(* Properties.                                                             *)

NodeType ==
    [services: SUBSET (IpvsIds \X Nat), dests: SUBSET (IpvsDestIds \X Nat),
     addrs: SUBSET (IPs \X VIPTypes), rules: SUBSET (RulesType \cup {NoRules}),
     routes: SUBSET IPs, fatal: SUBSET Faults]
VType ==
    [config: Configs \cup {Nil}, enabled: BOOLEAN, override: OverrideStates,
     fwm: SUBSET AFs, svc: [Keys -> ServiceType \cup {Nil}], nilDests: SUBSET Keys,
     healthySvcs: SUBSET Keys, activeSvcs: SUBSET Keys,
     backend: [Dests -> BackendType \cup {Nil}],
     healthyDests: SUBSET Dests, activeDests: SUBSET Dests,
     checks: [CheckKeys -> States \cup {Nil}],
     active: SUBSET IPs, vips: SUBSET (IPs \X VIPTypes),
     lbVservers: [IPs -> RulesType \cup {NoRules}], node: NodeType]

WellFormed(x) ==
    /\ x \in VType
    /\ x.enabled \/ Services(x) # {} => x.config # Nil
    /\ \A d \in Destinations(x) : d[1] \in Services(x)
    /\ x.healthySvcs \cup x.activeSvcs \subseteq Services(x)
    /\ x.healthyDests \cup x.activeDests \subseteq Destinations(x)

LoopOK ==
    \/ loop = Idle
    \/ loop \in [op: {"checks"}, left: SUBSET Destinations(v)]
    \/ loop \in [op: {"override"}, state: OverrideStates, left: SUBSET Destinations(v)]
    \/ /\ v.config # Nil
       /\ loop \in [op: {"services"}, left: SUBSET ServiceKeys(v.config)]
    \/ /\ v.config # Nil
       /\ loop \in [op: {"dests"}, left: SUBSET Services(v), cur: Keys \cup {Nil},
                    upd: SUBSET Backends, del: SUBSET Backends]
       /\ loop.upd \cup loop.del # {} =>
            /\ loop.cur \in Services(v) \ loop.left
            /\ loop.upd \subseteq BackendsFor(v.config, loop.cur)
            /\ {loop.cur} \X loop.del \subseteq Destinations(v)

(* The vserver struct is well typed, and every service, destination or     *)
(* loop refers to what is there: the sub-services of a handler's loop are  *)
(* not deleted under it, and none lacks its VIP, entry or backend.         *)
TypeOK ==
    /\ WellFormed(v)
    /\ LoopOK
    /\ vcc \subseteq CheckKeys
    /\ mode \in {"running", "stopped", "panicked"}

Cascade(x) ==
    /\ \A d \in Destinations(x) :
         d \in x.activeDests <=> d \in x.healthyDests /\ d[1] \in x.activeSvcs
    /\ \A k \in Services(x) :
         k \in x.activeSvcs <=> k \in x.healthySvcs /\ x.svc[k].vip \in x.active

(* In every state, also in the middle of a handler, a destination is       *)
(* active exactly when it is healthy and its service is active, and a      *)
(* service is active exactly when it is healthy and its VIP is up: no      *)
(* path through the updateState functions leaves one level behind.         *)
ActivationCascade == Cascade(v)

Installed(x) ==
    /\ \A k \in x.activeSvcs : <<IpvsId(x, k), x.svc[k].ventry.sched>> \in x.node.services
    /\ \A d \in x.activeDests \cap x.healthyDests :
         <<IpvsDestId(x, d), x.backend[d].weight>> \in x.node.dests

(* Every active service and every active, healthy destination is in the    *)
(* kernel's IPVS table with its current scheduler or weight, whatever      *)
(* updates it has been through, also in the middle of one.                 *)
ActiveIsInstalled == Installed(v)

(* The IPVS table holds nothing else: no service that was forgotten, no    *)
(* destination that is down or was deleted, no stale parameters.           *)
InstalledIsActive ==
    /\ \A e \in v.node.services : \E k \in v.activeSvcs :
         e = <<IpvsId(v, k), v.svc[k].ventry.sched>>
    /\ \A e \in v.node.dests : \E d \in v.activeDests :
         e = <<IpvsDestId(v, d), v.backend[d].weight>>

(* No call to the NCC ever fails, so that no log.Fatalf of the vserver     *)
(* takes the engine down.                                                  *)
NeverFatal == v.node.fatal = {}

(* Between events a VIP is up exactly when it has the healthy services it  *)
(* needs, all of them for anycast and any of them otherwise; addresses     *)
(* that were given up are down.                                            *)
VIPFollowsServices ==
    loop = Idle /\ mode = "running" =>
        \A ip \in IPs : ip \in v.active <=> AddressHealthy(v, ip)

(* A route is announced, and an anycast address configured, exactly while  *)
(* that VIP is up; every configured address has its firewall rules, and    *)
(* there are no rules for any other.                                       *)
RoutesFollowVIPs ==
    /\ v.node.routes = IF AnycastEnabled THEN v.active \cap Anycast ELSE {}
    /\ \A ip \in Anycast : <<ip, "Anycast">> \in v.node.addrs <=> ip \in v.active
    /\ {vip[1] : vip \in v.node.addrs} = {r.ip : r \in v.node.rules}

(* Between events an enabled vserver holds exactly the unicast and         *)
(* dedicated addresses of its configuration, and a disabled or stopped one *)
(* has nothing up, holds no address and has no check running.              *)
EnabledHoldsVIPs ==
    loop = Idle => IF v.enabled /\ mode # "stopped"
                   THEN v.vips = {vip \in VIPs(v.config) : vip[2] # "Anycast"}
                   ELSE /\ v.active = {} /\ v.activeSvcs = {} /\ v.activeDests = {}
                        /\ v.node.addrs = {} /\ v.node.services = {} /\ vcc = {}

(* Between events no destination in use has a check that last reported it  *)
(* unhealthy, unless an operator may have enabled its backend.             *)
NoTrafficToFailing ==
    loop = Idle => \A d \in v.activeDests : \A c \in ChecksOf(v, d) :
        v.checks[c] # "Unhealthy" \/ [target |-> d[2], state |-> "Enable"] \in Overrides

(* A configuration update that keeps the address of a unicast service      *)
(* without watermarks does not interrupt a destination that stays enabled  *)
(* and in service, in any of its steps.                                    *)
Stays(d) ==
    /\ d[1] \in ServiceKeys(v.config)
    /\ v.svc[d[1]].vip = IPOf(v.config, d[1][1])
    /\ v.svc[d[1]].vip \notin Anycast
    /\ v.svc[d[1]].ventry.low = 0 /\ EntryOf(v.config, d[1]).low = 0
    /\ d[2] \in BackendsFor(v.config, d[1])
    /\ \A b \in {v.backend[d], v.config.backends[d[2]]} : b.enabled /\ b.inService
UpdateKeepsServing ==
    [][loop.op \in {"services", "dests"} =>
         \A d \in v.activeDests : Stays(d) => d \in v'.activeDests]_vars

-----------------------------------------------------------------------------
(* Statements of the repository's documentation and comments.              *)

(* docs/user-guide.md: if healthy backends drop below the low watermark    *)
(* the vserver becomes unhealthy.                                          *)
Fraction(k, percent) ==
    Cardinality(DestsOf(v, {k}) \cap v.healthyDests) * 100
        >= percent * Cardinality({d \in DestsOf(v, {k}) : v.backend[d].inService})

(* engine/vserver.go, handleOverride, on OverrideDefault: "Revert to       *)
(* actual healthcheck state", for each destination of the backend.         *)
DefaultReverts ==
    [][loop.op = "override" /\ loop.state = "Default" =>
         \A d \in loop.left : d \in loop'.left \/
            (d \in v'.healthyDests <=> DestinationHealthy(v, d))]_vars
=============================================================================

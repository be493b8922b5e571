--------------------------- MODULE VserverActions ---------------------------
(* Every action of the vserver preserves the two invariants of             *)
(* VserverFrames: IInv always, SInv as long as NotForced and SameTypes     *)
(* hold. Last come the properties that they imply. What the actions need   *)
(* of the functions they call is Handlers, which VserverProofs discharges. *)
EXTENDS VserverFrames, TLAPS

(* Good survives what leaves the parts, the active parts and the IPVS      *)
(* table alone.                                                            *)
GoodFrame ==
    \A x : \A y \in VType :
        Good(x) /\ SameParts(x, y) /\ (x.config # Nil => y.config # Nil) =>
           /\ Good(y)
           /\ Services(y) = Services(x) /\ Destinations(y) = Destinations(x)
           /\ Exact(x) => Exact(y)

(* So does the health of the VIPs.                                         *)
HealthFrame ==
    \A x, y :
        SameParts(x, y) =>
           /\ \A ip : AddressHealthy(y, ip) <=> AddressHealthy(x, ip)
           /\ Upheld(x) => Upheld(y)
           /\ Raised(x) /\ y.config = x.config => Raised(y)

(* Setting checks changes nothing Good is about.                           *)
ChecksFrame ==
    \A x \in VType : \A C \in [CheckKeys -> States \cup {Nil}] :
           LET y == [x EXCEPT !.checks = C] IN
           /\ y \in VType /\ SameParts(x, y) /\ y.config = x.config
           /\ SameNet(x, y) /\ y.vips = x.vips

(* Setting the configuration changes nothing Good is about.                *)
ConfigFrame ==
    \A x \in VType : \A c \in Configs :
           LET y == [x EXCEPT !.config = c] IN
           /\ y \in VType /\ SameParts(x, y) /\ y.config = c
           /\ SameNet(x, y) /\ y.vips = x.vips

(* Setting the vserver's override changes nothing Good is about.           *)
OverrideFrame ==
    \A x \in VType : \A s \in OverrideStates :
           LET y == [x EXCEPT !.override = s] IN
           /\ y \in VType /\ SameParts(x, y) /\ y.config = x.config
           /\ SameNet(x, y) /\ y.vips = x.vips

(* The frames compose.                                                     *)
PartsTransitive ==
    \A x, y, z :
        SameParts(x, y) /\ SameParts(y, z) =>
           SameParts(x, z)

(* expandFWMServices' calls of the mark allocator change only fwm.         *)
AllocateMarksFrame ==
    \A x \in VType : \A c :
           LET y == AllocateMarks(x, c) IN
           /\ y \in VType /\ SameParts(x, y) /\ y.config = x.config
           /\ SameNet(x, y) /\ y.vips = x.vips /\ y.override = x.override

(* destination.updateState, with every call it makes, preserves Good.      *)
DestinationUpdateStateGood ==
    \A x : \A d \in Destinations(x) :
        Good(x) =>
           LET y == DestinationUpdateState(x, d) IN
           /\ Good(y) /\ SameShape(x, y)
           /\ Known(x, x.svc[d[1]].vip) => Kept(x, y)

(* So does the override of a destination by handleOverride.                *)
OverrideDestGood ==
    \A x : \A d \in Destinations(x) : \A state :
        Good(x) =>
           LET y == OverrideDest(x, d, state) IN
           /\ Good(y) /\ SameShape(x, y)
           /\ Known(x, x.svc[d[1]].vip) => Kept(x, y)

(* vserver.downAll preserves Good, and leaves no service and no VIP that   *)
(* was held up by one active.                                              *)
DownAllGood ==
    \A x :
        Good(x) =>
           LET y == DownAll(x) IN
           /\ Good(y) /\ SameVserver(x, y) /\ y.activeSvcs = {} /\ y.activeDests = {}
           /\ Exact(x) => Exact(y)
           /\ Announced(x) => Announced(y)
           /\ Upheld(x) => y.active = {}

(* vserver.unconfigureVIPs preserves Good, and deletes the VIPs it is      *)
(* given.                                                                  *)
UnconfigureVIPsGood ==
    \A x, S :
        Good(x) =>
           LET y == UnconfigureVIPs(x, S) IN
           /\ Good(y) /\ SameParts(x, y) /\ y.config = x.config
           /\ y.vips = x.vips \ S
           /\ Announced(x) /\ S \subseteq x.vips => Announced(y)

(* The end of handleConfigUpdate preserves Good, and leaves an enabled     *)
(* vserver with the VIPs of its configuration.                             *)
EndConfigUpdateGood ==
    \A x :
        Good(x) =>
           LET y == EndConfigUpdate(x) IN
           /\ Good(y) /\ SameParts(x, y) /\ y.config = x.config
           /\ Announced(x) /\ TypesCurrent(x) => Announced(y)
           /\ Announced(x) /\ TypesCurrent(x) /\ Current(x) /\ x.enabled
                => y.vips = OwnVIPs(y.config)

(* The restart in handleConfigUpdate (downAll, unconfigureVIPs,            *)
(* configInit) preserves Good, and takes down what was up.                 *)
RestartGood ==
    \A x : \A c \in Configs :
        Good(x) =>
           LET y == Restart(x, c) IN
           /\ Good(y) /\ y.config = c /\ Current(y) /\ Raised(y)
           /\ Upheld(x) /\ Quiet(x) => Upheld(y) /\ y.active = {} /\ (Exact(x) => Exact(y))
           /\ Announced(x) /\ Quiet(x) =>
                Announced(y) /\ y.vips = IF y.enabled THEN OwnVIPs(c) ELSE {}

(* One iteration of configUpdate's loop over the services preserves Good   *)
(* and the rest, and leaves the service at the configured address.         *)
UpdateServiceKeyGood ==
    \A x : \A k \in ServiceKeys(x.config) :
        Good(x) /\ x.config # Nil =>
           LET y == UpdateServiceKey(x, k) IN
           /\ Good(y) /\ SameConfig(x, y)
           /\ Services(y) = Services(x) \cup {k}
           /\ \A j \in Services(x) : j # k => y.svc[j].vip = x.svc[j].vip
           /\ y.svc[k].vip = IPOf(x.config, k[1])
           /\ (k \in Services(x) => x.svc[k].vip[1] = k[1]) => Kept(x, y)

(* destination.update preserves Good.                                      *)
DestinationUpdateGood ==
    \A x : \A d \in Destinations(x) :
        Good(x) /\ x.config # Nil /\ d[2] \in BackendsFor(x.config, d[1]) =>
           LET y == DestinationUpdate(x, d) IN
           /\ Good(y) /\ SameConfig(x, y) /\ y.svc = x.svc
           /\ Services(y) = Services(x) /\ Destinations(y) = Destinations(x)
           /\ Known(x, x.svc[d[1]].vip) => Kept(x, y)

(* configUpdate's adoption of a new, inactive destination preserves Good   *)
(* and the rest.                                                           *)
AddDestinationGood ==
    \A x : \A d \in Dests \ Destinations(x) :
        Good(x) /\ x.config # Nil /\ d[1] \in Services(x) /\
        d[2] \in BackendsFor(x.config, d[1]) =>
           LET y == AddDestination(x, d) IN
           /\ Good(y) /\ SameConfig(x, y) /\ y.svc = x.svc /\ Kept(x, y)
           /\ Services(y) = Services(x) /\ Destinations(y) = Destinations(x) \cup {d}

(* Removing a destination that left the configuration, after taking it     *)
(* down if it is active, preserves Good, and loses nothing else if the     *)
(* service's VIP is known.                                                 *)
DeleteDestinationGood ==
    \A x : \A d \in Destinations(x) :
        Good(x) =>
           LET y == DeleteDestination(x, d) IN
           /\ Good(y) /\ SameConfig(x, y) /\ y.svc = x.svc
           /\ Services(y) = Services(x) /\ Destinations(y) = Destinations(x) \ {d}
           /\ Known(x, x.svc[d[1]].vip) => Kept(x, y)

(* The contracts that the actions rely on.                                 *)
Handlers ==
    /\ ConfigTypes /\ ShapeNames /\ SameAnnounced /\ GoodFrame /\ HealthFrame
    /\ ChecksFrame /\ ConfigFrame /\ OverrideFrame /\ PartsTransitive /\ AllocateMarksFrame
    /\ DestinationUpdateStateGood /\ OverrideDestGood /\ DownAllGood /\ UnconfigureVIPsGood
    /\ EndConfigUpdateGood /\ RestartGood /\ DeleteServiceGood /\ UpdateServiceKeyGood
    /\ DestinationUpdateGood /\ AddDestinationGood /\ DeleteDestinationGood

(* The invariant, seen as Good on the vserver and the typing of the rest.  *)
LEMMA IInvGood ==
    IInv <=> /\ Good(v) /\ LoopOK /\ vcc \subseteq CheckKeys
             /\ mode \in {"running", "stopped", "panicked"}
BY Zenon DEF IInv, TypeOK, ActivationCascade, ActiveIsInstalled, Good

(* The same in the next state.                                             *)
LEMMA IInvGoodNext ==
    IInv' <=> /\ Good(v') /\ LoopOK' /\ vcc' \subseteq CheckKeys
              /\ mode' \in {"running", "stopped", "panicked"}
BY Zenon DEF IInv, TypeOK, ActivationCascade, ActiveIsInstalled, Good

(* A loop in progress is over services or over destinations that exist.    *)
LEMMA LoopCases ==
    ASSUME LoopOK
    PROVE  /\ loop.op = "checks" => loop \in [op: {"checks"}, left: SUBSET Destinations(v)]
           /\ loop.op = "override" =>
                loop \in [op: {"override"}, state: OverrideStates, left: SUBSET Destinations(v)]
           /\ loop.op = "services" =>
                v.config # Nil /\ loop \in [op: {"services"}, left: SUBSET ServiceKeys(v.config)]
           /\ loop.op = "dests" =>
                /\ v.config # Nil
                /\ loop \in [op: {"dests"}, left: SUBSET Services(v), cur: Keys \cup {Nil},
                             upd: SUBSET Backends, del: SUBSET Backends]
                /\ loop.upd \cup loop.del # {} =>
                     /\ loop.cur \in Services(v) \ loop.left
                     /\ loop.upd \subseteq BackendsFor(v.config, loop.cur)
                     /\ {loop.cur} \X loop.del \subseteq Destinations(v)
BY DEF LoopOK, Idle

(* What is kept is whole.                                                  *)
LEMMA KeptWhole ==
    ASSUME NEW x, NEW y, Kept(x, y), Whole(x)
    PROVE  Whole(y)
BY Zenon DEF Kept, Whole

(* A service at its configured address has a VIP that may go up.           *)
LEMMA KnownAt ==
    ASSUME NEW x, NEW k, AtAddress(x, k)
    PROVE  Known(x, x.svc[k].vip)
BY DEF AtAddress, Known, IPOf

(* Services that are those of the configuration have their family and      *)
(* ports.                                                                  *)
LEMMA CurrentPlaced ==
    ASSUME NEW x, Current(x)
    PROVE  Placed(x) /\ \A k \in Services(x) : AtAddress(x, k)
BY DEF Current, Placed, AtAddress, ServiceKeys, IPOf

(* What is whole stays whole where only checks, marks, the override or the *)
(* VIPs held change.                                                       *)
LEMMA FrameWhole ==
    ASSUME Handlers, NEW x, Good(x), Whole(x), NEW y \in VType, SameParts(x, y),
           y.config = x.config, Announced(y)
    PROVE  Whole(y)
<1>1. Exact(y) BY Zenon DEF Handlers, GoodFrame, Whole
<1>2. Upheld(y) /\ Raised(y) BY Zenon DEF Handlers, HealthFrame, Whole
<1> QED BY <1>1, <1>2, Zenon DEF Whole

(* A vserver stays settled where its services, its VIPs and what is up do  *)
(* not change.                                                             *)
LEMMA FrameSettled ==
    ASSUME NEW x, Settled(x), NEW y, Services(y) = Services(x), y.svc = x.svc,
           y.config = x.config, y.enabled = x.enabled, y.vips = x.vips,
           x.enabled \/ y.active = x.active
    PROVE  Settled(y)
<1>1. x.config # Nil => Current(y) BY Zenon DEF Settled, Current
<1> QED BY <1>1, Zenon DEF Settled

(* The invariant while the vserver runs.                                   *)
LEMMA RunningSInv ==
    ASSUME SInv, mode = "running"
    PROVE  Whole(v) /\ LoopInv
BY Zenon DEF SInv

(* The invariant after a step that leaves no loop over services or         *)
(* destinations to be updated.                                             *)
LEMMA SettledSInv ==
    ASSUME mode' # "stopped", Whole(v'), Settled(v'), v'.enabled \/ vcc' = {},
           WellFormed(v'),
           loop'.op \in {"idle", "override"} \/ (loop'.op = "checks" /\ v'.enabled)
    PROVE  SInv'
<1>1. v'.config # Nil => Placed(v') BY CurrentPlaced, Zenon DEF Settled
<1> QED BY <1>1, Zenon DEF SInv, LoopInv

(* A new vserver (newVserver) satisfies both invariants.                   *)
LEMMA InitInv == Init => IInv /\ SInv
<1> SUFFICES ASSUME Init PROVE IInv /\ SInv BY Zenon
<1>1. v.node \in NodeType BY Zenon DEF Init, NodeType
<1>2. v.svc \in [Keys -> ServiceType \cup {Nil}] /\ v.backend \in [Dests -> BackendType \cup {Nil}]
      /\ v.checks \in [CheckKeys -> States \cup {Nil}]
      /\ v.lbVservers \in [IPs -> RulesType \cup {NoRules}]
  BY Zenon DEF Init
<1>3. v \in VType BY <1>1, <1>2, Zenon DEF Init, VType, OverrideStates
<1>4. Services(v) = {} /\ Destinations(v) = {} /\ ~v.enabled /\ v.config = Nil
      /\ v.healthySvcs = {} /\ v.activeSvcs = {} /\ v.healthyDests = {} /\ v.activeDests = {}
      /\ v.active = {} /\ v.vips = {}
  BY Zenon DEF Init, Services, Destinations
<1>5. v.node.services = {} /\ v.node.dests = {} /\ v.node.addrs = {} /\ v.node.rules = {}
      /\ v.node.routes = {} /\ v.node.fatal = {}
  BY Zenon DEF Init
<1>6. loop = Idle /\ vcc = {} /\ mode = "running" BY Zenon DEF Init
<1>7. Good(v) BY <1>3, <1>4, Zenon DEF Good, WellFormed, Cascade, Installed
<1>8. IInv BY <1>6, <1>7, IInvGood, Zenon DEF LoopOK
<1>9. Exact(v) BY <1>4, <1>5, Zenon DEF Exact, ExactSvcs, ExactDests, IPVSCallsOK
<1>10. Announced(v)
  BY <1>4, <1>5, Zenon DEF Announced, Guarded, RulesOf, Ids, VIPCallsOK, AnycastVIPs
<1>11. \A ip : ~AddressHealthy(v, ip) BY <1>4, Zenon DEF AddressHealthy, ServicesOf
<1>12. Whole(v) BY <1>4, <1>9, <1>10, <1>11, Zenon DEF Whole, Upheld, Raised
<1>13. Settled(v) BY <1>4, Zenon DEF Settled
<1>14. LoopInv BY <1>4, <1>6, <1>13, Zenon DEF LoopInv, Idle
<1> QED BY <1>6, <1>8, <1>12, <1>14, Zenon DEF SInv

(* The tail of run's iteration (vserverChan, vcc) preserves the            *)
(* invariants.                                                             *)
LEMMA PublishInv ==
    ASSUME NEW x, Good(x), IInv, mode = "running", Publish(x)
    PROVE  IInv' /\ (Whole(x) /\ Settled(x) => SInv')
<1>1. v' = x /\ loop' = Idle /\ vcc' = Published(x) /\ mode' = mode BY Zenon DEF Publish
<1>2. Published(x) \subseteq CheckKeys BY Zenon DEF Published, KnownChecks
<1>3. IInv' BY <1>1, <1>2, IInvGood, IInvGoodNext, Zenon DEF LoopOK
<1>4. v'.enabled \/ vcc' = {} BY <1>1, Zenon DEF Published
<1>5. loop'.op = "idle" /\ mode' # "stopped" /\ WellFormed(v') BY <1>1, Zenon DEF Idle, Good
<1>6. Whole(x) /\ Settled(x) => SInv' BY <1>1, <1>4, <1>5, SettledSInv, Zenon
<1> QED BY <1>3, <1>6, Zenon

(* A panic of the vserver's goroutine preserves the invariants.            *)
LEMMA PanicInv ==
    ASSUME IInv, mode = "running", Panic
    PROVE  IInv' /\ (SInv => SInv')
<1>1. v' = v /\ loop' = loop /\ vcc' = vcc /\ mode' = "panicked" BY Zenon DEF Panic
<1>2. LoopOK' BY <1>1, IInvGood, Zenon DEF LoopOK
<1>3. IInv' BY <1>1, <1>2, IInvGood, IInvGoodNext, Zenon
<1>4. SInv => SInv' BY <1>1, Zenon DEF SInv, LoopInv
<1> QED BY <1>3, <1>4, Zenon

(* A vserver that goes on under another configuration: its VIPs are up as  *)
(* their services were under the old one.                                  *)
LEMMA ReconfiguredWhole ==
    ASSUME Handlers, NEW x, Good(x), Whole(x), Current(x), NEW y \in VType, SameParts(x, y),
           SameNet(x, y), y.vips = x.vips, y.config # Nil
    PROVE  Whole(y)
<1>1. Exact(y) BY Zenon DEF Handlers, GoodFrame, Whole
<1>2. y.active = x.active BY Zenon DEF SameParts, SameActive
<1>3. Announced(y) BY <1>2, Zenon DEF Handlers, SameAnnounced, Whole
<1>4. \A ip : AddressHealthy(y, ip) <=> AddressHealthy(x, ip) BY Zenon DEF Handlers, HealthFrame
<1>5. Upheld(y) BY Zenon DEF Handlers, HealthFrame, Whole
<1>6. ASSUME NEW ip \in IPs, AddressHealthy(x, ip) PROVE ip \in x.active
  <2>1. ServicesOf(x, {ip}) # {} BY <1>6, Zenon DEF AddressHealthy
  <2>2. PICK k \in Services(x) : x.svc[k].vip = ip BY <2>1, Zenon DEF ServicesOf
  <2>3. ip = IPOf(x.config, ip[1])
    <3>1. ip = IPOf(x.config, k[1]) BY <2>2, Zenon DEF Current
    <3>2. IPOf(x.config, k[1])[1] = k[1] BY Zenon DEF IPOf
    <3> QED BY <3>1, <3>2, Zenon
  <2> QED BY <1>6, <2>3, Zenon DEF Whole, Raised
<1>7. Raised(y) BY <1>2, <1>4, <1>6, Zenon DEF Raised
<1> QED BY <1>1, <1>3, <1>5, <1>7, Zenon DEF Whole

(* handleConfigUpdate preserves the invariants.                            *)
LEMMA HandleConfigUpdateInv ==
    ASSUME Handlers, IInv, mode = "running", NEW x, Good(x), NEW c \in Configs,
           HandleConfigUpdate(x, c)
    PROVE  IInv' /\ (Whole(x) /\ Settled(x) => SInv')
<1>1. CASE Restarts(x, c)
  <2> DEFINE y == Restart(x, c)
  <2>1. Publish(y) BY <1>1, Zenon DEF HandleConfigUpdate
  <2>2. Good(y) BY Zenon DEF Handlers, RestartGood
  <2>3. ASSUME Whole(x), Settled(x) PROVE Whole(y) /\ Settled(y)
    <3>1. Quiet(x) BY <2>3, Zenon DEF Settled, Quiet
    <3>2. Exact(x) /\ Announced(x) /\ Upheld(x) BY <2>3, Zenon DEF Whole
    <3>3. y.config = c /\ Current(y) /\ Raised(y) BY Zenon DEF Handlers, RestartGood
    <3>4. Upheld(y) /\ y.active = {} /\ Exact(y) BY <3>1, <3>2, Zenon DEF Handlers, RestartGood
    <3>5. Announced(y) /\ y.vips = IF y.enabled THEN OwnVIPs(c) ELSE {}
      BY <3>1, <3>2, Zenon DEF Handlers, RestartGood
    <3> HIDE DEF y
    <3> QED BY <3>3, <3>4, <3>5, Zenon DEF Whole, Settled
  <2> HIDE DEF y
  <2> QED BY <2>1, <2>2, <2>3, PublishInv, Zenon
<1>2. CASE ~Restarts(x, c)
  <2> DEFINE m == AllocateMarks(x, c)
             y == [m EXCEPT !.config = c]
  <2>1. v' = y /\ loop' = [op |-> "services", left |-> ServiceKeys(c)]
        /\ vcc' = vcc /\ mode' = mode
    BY <1>2, Zenon DEF HandleConfigUpdate
  <2>2. m \in VType /\ SameParts(x, m) /\ SameNet(x, m) /\ m.vips = x.vips
    BY Zenon DEF Good, WellFormed, Handlers, AllocateMarksFrame
  <2> HIDE DEF m
  <2>3. y \in VType /\ SameParts(m, y) /\ y.config = c /\ SameNet(m, y) /\ y.vips = m.vips
    BY <2>2, Zenon DEF Handlers, ConfigFrame
  <2> HIDE DEF y
  <2>4. c # Nil BY Zenon DEF Handlers, ConfigTypes
  <2>5. SameParts(x, y) BY <2>2, <2>3, Zenon DEF Handlers, PartsTransitive
  <2>6. Good(y) /\ Services(y) = Services(x) BY <2>3, <2>4, <2>5, Zenon DEF Handlers, GoodFrame
  <2>7. LoopOK' BY <2>1, <2>3, <2>4, Zenon DEF LoopOK
  <2>8. IInv' BY <2>1, <2>6, <2>7, IInvGood, IInvGoodNext, Zenon
  <2>9. ASSUME Whole(x), Settled(x) PROVE SInv'
    <3>1. x.config # Nil /\ x.enabled /\ ~NeedsReInit(x.config, c) BY <1>2, Zenon DEF Restarts
    <3>2. Current(x) BY <2>9, <3>1, Zenon DEF Settled
    <3>3. SameNet(x, y) /\ y.vips = x.vips BY <2>2, <2>3, Zenon DEF SameNet
    <3>4. Whole(y) BY <2>3, <2>4, <2>5, <2>9, <3>2, <3>3, ReconfiguredWhole, Zenon
    <3>5. y.svc = x.svc /\ y.enabled BY <2>5, <3>1, Zenon DEF SameParts
    <3>6. c.useFWM = x.config.useFWM /\ EntryPorts(c) = EntryPorts(x.config)
      BY <3>1, Zenon DEF NeedsReInit
    <3>7. Placed(y) BY <2>3, <2>6, <3>2, <3>5, <3>6, CurrentPlaced DEF Placed
    <3>8. LoopInv' BY <2>1, <2>3, <3>5, <3>7, Zenon DEF LoopInv
    <3> QED BY <2>1, <3>4, <3>8, Zenon DEF SInv
  <2> QED BY <2>8, <2>9, Zenon
<1> QED BY <1>1, <1>2, Zenon

(* handleCheckNotification preserves the invariants.                       *)
LEMMA HandleCheckNotificationInv ==
    ASSUME Handlers, IInv, NEW c \in CheckKeys, NEW state \in States,
           HandleCheckNotification(c, state)
    PROVE  IInv' /\ (SInv => SInv')
<1> DEFINE C == [v.checks EXCEPT ![c] = state]
           D == {d \in Destinations(v) : c \in ChecksOf(v, d)}
<1>1. /\ v' = [v EXCEPT !.checks = C] /\ v.enabled /\ loop = Idle /\ mode = "running"
      /\ loop' = [op |-> "checks", left |-> D] /\ vcc' = vcc /\ mode' = mode
  BY Zenon DEF HandleCheckNotification, Running
<1>2. Good(v) /\ v \in VType BY IInvGood, Zenon DEF Good, WellFormed
<1>3. C \in [CheckKeys -> States \cup {Nil}] BY <1>2, Zenon DEF VType
<1>4. D \subseteq Destinations(v) BY Zenon
<1> HIDE DEF C, D
<1>5. /\ v' \in VType /\ SameParts(v, v') /\ v'.config = v.config
      /\ SameNet(v, v') /\ v'.vips = v.vips
  BY <1>1, <1>2, <1>3, Zenon DEF Handlers, ChecksFrame
<1>6. Good(v') /\ Destinations(v') = Destinations(v) /\ Services(v') = Services(v)
  BY <1>2, <1>5, Zenon DEF Handlers, GoodFrame
<1>7. LoopOK' BY <1>1, <1>4, <1>6, Zenon DEF LoopOK
<1>8. IInv' BY <1>1, <1>6, <1>7, IInvGood, IInvGoodNext, Zenon
<1>9. ASSUME SInv PROVE SInv'
  <2>1. Whole(v) /\ Settled(v) BY <1>1, <1>9, RunningSInv, Zenon DEF LoopInv, Idle
  <2>2. v'.active = v.active /\ v'.svc = v.svc /\ v'.enabled = v.enabled
    BY <1>5, Zenon DEF SameParts, SameActive
  <2>3. Announced(v') BY <1>5, <2>1, <2>2, Zenon DEF Handlers, SameAnnounced, Whole
  <2>4. Whole(v') BY <1>2, <1>5, <2>1, <2>3, FrameWhole, Zenon
  <2>5. Settled(v') BY <1>5, <1>6, <2>1, <2>2, FrameSettled, Zenon
  <2> QED BY <1>1, <1>6, <2>2, <2>4, <2>5, SettledSInv, Zenon DEF Good
<1> QED BY <1>8, <1>9, Zenon

(* The start of handleOverride preserves the invariants.                   *)
LEMMA OverrideInv ==
    ASSUME Handlers, IInv, NEW o \in Overrides,
           IF o.target = Nil THEN VserverOverride(o.state) ELSE BackendOverride(o.target, o.state)
    PROVE  IInv' /\ (SInv => SInv')
<1>1. o.state \in OverrideStates BY ConstantsAssumption, Zenon DEF OverrideType
<1>2. Good(v) /\ v \in VType BY IInvGood, Zenon DEF Good, WellFormed
<1>3. mode = "running" /\ loop = Idle BY Zenon DEF VserverOverride, BackendOverride, Running
<1>4. SInv => Whole(v) /\ Settled(v) BY <1>3, RunningSInv, Zenon DEF LoopInv, Idle
<1>5. CASE v.config = Nil
  BY <1>3, <1>5, PanicInv, Zenon DEF VserverOverride, BackendOverride
<1>6. CASE v.config # Nil /\ o.target = Nil
  <2> DEFINE x == [v EXCEPT !.override = o.state]
  <2>1. IF VserverEnabled(v.config, o.state) = v.enabled THEN Publish(x)
        ELSE HandleConfigUpdate(x, v.config)
    BY <1>6, Zenon DEF VserverOverride
  <2>2. /\ x \in VType /\ SameParts(v, x) /\ x.config = v.config
        /\ SameNet(v, x) /\ x.vips = v.vips
    BY <1>1, <1>2, Zenon DEF Handlers, OverrideFrame
  <2> HIDE DEF x
  <2>3. Good(x) /\ Services(x) = Services(v) BY <1>2, <2>2, Zenon DEF Handlers, GoodFrame
  <2>4. v.config \in Configs BY <1>2, <1>6, Zenon DEF VType
  <2>5. x.active = v.active /\ x.svc = v.svc /\ x.enabled = v.enabled
    BY <2>2, Zenon DEF SameParts, SameActive
  <2>6. ASSUME Whole(v), Settled(v) PROVE Whole(x) /\ Settled(x)
    <3>1. Announced(x) BY <2>2, <2>5, <2>6, Zenon DEF Handlers, SameAnnounced, Whole
    <3>2. Whole(x) BY <1>2, <2>2, <2>6, <3>1, FrameWhole, Zenon
    <3>3. Settled(x) BY <2>2, <2>3, <2>5, <2>6, FrameSettled, Zenon
    <3> QED BY <3>2, <3>3, Zenon
  <2>7. CASE Publish(x) BY <1>3, <1>4, <2>3, <2>6, <2>7, PublishInv, Zenon
  <2>8. CASE HandleConfigUpdate(x, v.config)
    BY <1>3, <1>4, <2>3, <2>4, <2>6, <2>8, HandleConfigUpdateInv, Zenon
  <2> QED BY <2>1, <2>7, <2>8, Zenon
<1>7. CASE v.config # Nil /\ o.target # Nil
  <2>1. /\ loop' = [op |-> "override", state |-> o.state,
                    left |-> {d \in Destinations(v) : d[2] = o.target}]
        /\ v' = v /\ vcc' = vcc /\ mode' = mode
    BY <1>7, Zenon DEF BackendOverride
  <2>2. LoopOK' BY <1>1, <2>1, Zenon DEF LoopOK
  <2>3. IInv' BY <2>1, <2>2, IInvGood, IInvGoodNext, Zenon
  <2>4. ASSUME SInv PROVE SInv'
    <3>1. v.enabled \/ vcc = {} BY <1>3, <2>4, RunningSInv, Zenon DEF LoopInv
    <3> QED BY <1>2, <1>3, <1>4, <2>1, <2>4, <3>1, SettledSInv, Zenon DEF Good
  <2> QED BY <2>3, <2>4, Zenon
<1> QED BY <1>5, <1>6, <1>7, Zenon

(* What a step on a destination of a settled vserver leaves settled.       *)
LEMMA DestinationStep ==
    ASSUME Handlers, NEW x, Good(x), Whole(x), Settled(x), x.enabled, NEW d \in Destinations(x),
           NEW y, SameShape(x, y), Known(x, x.svc[d[1]].vip) => Kept(x, y)
    PROVE  Whole(y) /\ Settled(y)
<1>1. x.config # Nil /\ d[1] \in Services(x) BY Zenon DEF Good, WellFormed
<1>2. AtAddress(x, d[1]) BY <1>1, CurrentPlaced, Zenon DEF Settled
<1>3. Whole(y) BY <1>2, KnownAt, KeptWhole, Zenon
<1>4. Services(y) = Services(x) BY Zenon DEF Handlers, ShapeNames
<1>5. Settled(y) BY <1>4, FrameSettled, Zenon DEF SameShape
<1> QED BY <1>3, <1>5, Zenon

(* The iteration of handleCheckNotification preserves the invariants.      *)
LEMMA CheckDestinationInv ==
    ASSUME Handlers, IInv, NEW d, CheckDestination(d)
    PROVE  IInv' /\ (SInv => SInv')
<1>1. Good(v) /\ LoopOK BY IInvGood, Zenon
<1>2. /\ v' = DestinationUpdateState(v, d) /\ loop' = [loop EXCEPT !.left = loop.left \ {d}]
      /\ d \in loop.left /\ loop.op = "checks" /\ vcc' = vcc /\ mode' = mode /\ mode = "running"
  BY Zenon DEF CheckDestination, Running
<1>3. loop \in [op: {"checks"}, left: SUBSET Destinations(v)] BY <1>1, <1>2, LoopCases, Zenon
<1>4. d \in Destinations(v) BY <1>2, <1>3, Zenon
<1>5. Good(v') /\ SameShape(v, v') /\ (Known(v, v.svc[d[1]].vip) => Kept(v, v'))
  BY <1>1, <1>2, <1>4, Zenon DEF Handlers, DestinationUpdateStateGood
<1>6. Destinations(v') = Destinations(v) BY <1>5, Zenon DEF Handlers, ShapeNames
<1>7. loop' \in [op: {"checks"}, left: SUBSET Destinations(v)] BY <1>2, <1>3, Zenon
<1>8. LoopOK' BY <1>6, <1>7, Zenon DEF LoopOK
<1>9. IInv' BY <1>2, <1>5, <1>8, IInvGood, IInvGoodNext, Zenon
<1>10. ASSUME SInv PROVE SInv'
  <2>1. Whole(v) /\ Settled(v) /\ v.enabled BY <1>2, <1>10, RunningSInv, Zenon DEF LoopInv
  <2>2. Whole(v') /\ Settled(v') BY <1>1, <1>4, <1>5, <2>1, DestinationStep, Zenon
  <2>3. v'.enabled BY <1>5, <2>1, Zenon DEF SameShape
  <2> QED BY <1>2, <1>5, <1>7, <2>2, <2>3, SettledSInv, Zenon DEF Good
<1> QED BY <1>9, <1>10, Zenon

(* With no VIP up nothing is active.                                       *)
LEMMA NothingActive ==
    ASSUME NEW x, Good(x), x.active = {}
    PROVE  x.activeSvcs = {} /\ x.activeDests = {}
BY Zenon DEF Good, WellFormed, Cascade

(* The iteration of handleOverride preserves the invariants.               *)
LEMMA OverrideDestinationInv ==
    ASSUME Handlers, IInv, NEW d, OverrideDestination(d)
    PROVE  IInv' /\ (SInv /\ NotForced => SInv')
<1>1. Good(v) /\ LoopOK BY IInvGood, Zenon
<1>2. /\ v' = OverrideDest(v, d, loop.state) /\ loop' = [loop EXCEPT !.left = loop.left \ {d}]
      /\ d \in loop.left /\ loop.op = "override" /\ vcc' = vcc /\ mode' = mode /\ mode = "running"
  BY Zenon DEF OverrideDestination, Running
<1>3. loop \in [op: {"override"}, state: OverrideStates, left: SUBSET Destinations(v)]
  BY <1>1, <1>2, LoopCases, Zenon
<1>4. d \in Destinations(v) BY <1>2, <1>3, Zenon
<1>5. Good(v') /\ SameShape(v, v') /\ (Known(v, v.svc[d[1]].vip) => Kept(v, v'))
  BY <1>1, <1>2, <1>4, Zenon DEF Handlers, OverrideDestGood
<1>6. Destinations(v') = Destinations(v) BY <1>5, Zenon DEF Handlers, ShapeNames
<1>7. loop' \in [op: {"override"}, state: OverrideStates, left: SUBSET Destinations(v)]
  BY <1>2, <1>3, Zenon
<1>8. LoopOK' BY <1>6, <1>7, Zenon DEF LoopOK
<1>9. IInv' BY <1>2, <1>5, <1>8, IInvGood, IInvGoodNext, Zenon
<1>10. ASSUME SInv, NotForced PROVE SInv'
  <2>1. Whole(v) /\ Settled(v) /\ (v.enabled \/ vcc = {})
    BY <1>2, <1>10, RunningSInv, Zenon DEF LoopInv
  <2>2. CASE v.enabled
    <3>1. Whole(v') /\ Settled(v') BY <1>1, <1>4, <1>5, <2>1, <2>2, DestinationStep, Zenon
    <3>2. v'.enabled BY <1>5, <2>2, Zenon DEF SameShape
    <3> QED BY <1>2, <1>5, <1>7, <3>1, <3>2, SettledSInv, Zenon DEF Good
  <2>3. CASE ~v.enabled
    <3>1. v.activeDests = {} BY <1>1, <2>1, <2>3, NothingActive, Zenon DEF Settled
    <3>2. loop.state # "Enable" BY <1>2, <1>10, <2>3, Zenon DEF NotForced
    <3>3. v' = v BY <1>2, <3>1, <3>2, Zenon DEF OverrideDest
    <3> QED BY <1>2, <1>5, <1>7, <2>1, <2>3, <3>3, SettledSInv, Zenon DEF Good
  <2> QED BY <2>2, <2>3, Zenon
<1> QED BY <1>9, <1>10, Zenon

(* The ends of the two loops preserve the invariants.                      *)
LEMMA EndLoopInv ==
    ASSUME IInv, EndCheckNotification \/ EndOverride
    PROVE  IInv' /\ (SInv => SInv')
<1>1. Good(v) /\ LoopOK /\ mode = "running"
  BY IInvGood, Zenon DEF EndCheckNotification, EndOverride, Running
<1>2. loop.op \in {"checks", "override"} BY Zenon DEF EndCheckNotification, EndOverride
<1>3. SInv => Whole(v) /\ Settled(v) /\ (v.enabled \/ vcc = {})
  BY <1>1, <1>2, RunningSInv, Zenon DEF LoopInv
<1>4. CASE EndOverride BY <1>1, <1>3, <1>4, PublishInv, Zenon DEF EndOverride
<1>5. CASE EndCheckNotification
  <2>1. loop' = Idle /\ v' = v /\ vcc' = vcc /\ mode' = mode
    BY <1>5, Zenon DEF EndCheckNotification
  <2>2. IInv' BY <2>1, IInvGood, IInvGoodNext, Zenon DEF LoopOK
  <2>3. loop'.op = "idle" BY <2>1, Zenon DEF Idle
  <2>4. SInv => SInv' BY <1>1, <1>3, <2>1, <2>3, SettledSInv, Zenon DEF Good
  <2> QED BY <2>2, <2>4, Zenon
<1> QED BY <1>4, <1>5, Zenon

(* configUpdate's iteration on a configured service preserves the          *)
(* invariants.                                                             *)
LEMMA UpdateServiceInv ==
    ASSUME Handlers, IInv, NEW k \in Keys, UpdateService(k)
    PROVE  IInv' /\ (SInv => SInv')
<1>1. Good(v) /\ LoopOK BY IInvGood, Zenon
<1>2. /\ v' = UpdateServiceKey(v, k) /\ loop' = [loop EXCEPT !.left = loop.left \ {k}]
      /\ k \in loop.left /\ loop.op = "services" /\ vcc' = vcc /\ mode' = mode /\ mode = "running"
  BY Zenon DEF UpdateService, Running
<1>3. v.config # Nil /\ loop \in [op: {"services"}, left: SUBSET ServiceKeys(v.config)]
  BY <1>1, <1>2, LoopCases, Zenon
<1>4. k \in ServiceKeys(v.config) BY <1>2, <1>3, Zenon
<1>5. /\ Good(v') /\ SameConfig(v, v') /\ Services(v') = Services(v) \cup {k}
      /\ \A j \in Services(v) : j # k => v'.svc[j].vip = v.svc[j].vip
      /\ v'.svc[k].vip = IPOf(v.config, k[1])
      /\ (k \in Services(v) => v.svc[k].vip[1] = k[1]) => Kept(v, v')
  BY <1>1, <1>2, <1>3, <1>4 DEF Handlers, UpdateServiceKeyGood
<1>6. v'.config = v.config /\ v'.enabled = v.enabled BY <1>5, Zenon DEF SameConfig
<1>7. /\ loop' \in [op: {"services"}, left: SUBSET ServiceKeys(v.config)]
      /\ loop'.left = loop.left \ {k} /\ loop'.op = "services"
  BY <1>2, <1>3, Zenon
<1>8. LoopOK' BY <1>3, <1>6, <1>7, Zenon DEF LoopOK
<1>9. IInv' BY <1>2, <1>5, <1>8, IInvGood, IInvGoodNext, Zenon
<1>10. ASSUME SInv PROVE SInv'
  <2>1. /\ Whole(v) /\ Placed(v) /\ v.enabled
        /\ \A j \in ServiceKeys(v.config) \ loop.left : AtAddress(v, j)
    BY <1>2, <1>3, <1>10, RunningSInv, Zenon DEF LoopInv
  <2>2. Whole(v') BY <1>5, <2>1, KeptWhole, Zenon DEF Placed
  <2>3. IPOf(v.config, k[1])[1] = k[1] BY Zenon DEF IPOf
  <2>4. k[2] \in IF v.config.useFWM THEN {Nil} ELSE EntryPorts(v.config)
    BY <1>4, Zenon DEF ServiceKeys
  <2>5. Placed(v') BY <1>5, <1>6, <2>1, <2>3, <2>4 DEF Placed
  <2>6. ASSUME NEW j \in ServiceKeys(v.config) \ loop'.left PROVE AtAddress(v', j)
    BY <1>5, <1>6, <1>7, <2>1, <2>6, Zenon DEF AtAddress
  <2>7. LoopInv' BY <1>6, <1>7, <2>1, <2>5, <2>6, Zenon DEF LoopInv
  <2> QED BY <1>2, <2>2, <2>7, Zenon DEF SInv
<1> QED BY <1>9, <1>10, Zenon

(* The end of configUpdate's loop over the configured services preserves   *)
(* the invariants.                                                         *)
LEMMA EndServicesInv ==
    ASSUME IInv, EndServices
    PROVE  IInv' /\ (SInv => SInv')
<1>1. Good(v) /\ LoopOK BY IInvGood, Zenon
<1>2. /\ loop' = [op |-> "dests", left |-> Services(v), cur |-> Nil, upd |-> {}, del |-> {}]
      /\ loop.op = "services" /\ loop.left = {} /\ v' = v /\ vcc' = vcc /\ mode' = mode
      /\ mode = "running"
  BY Zenon DEF EndServices, DestsLoop, Running
<1>3. v.config # Nil BY <1>1, <1>2, LoopCases, Zenon
<1>4. LoopOK' BY <1>2, <1>3, Zenon DEF LoopOK
<1>5. IInv' BY <1>2, <1>4, IInvGood, IInvGoodNext, Zenon
<1>6. ASSUME SInv PROVE SInv'
  <2>1. /\ Whole(v) /\ Placed(v) /\ v.enabled
        /\ \A j \in ServiceKeys(v.config) : AtAddress(v, j)
    BY <1>2, <1>3, <1>6, RunningSInv, Zenon DEF LoopInv
  <2>2. LoopInv' BY <1>2, <2>1, Zenon DEF LoopInv
  <2> QED BY <1>2, <2>1, <2>2, Zenon DEF SInv
<1> QED BY <1>5, <1>6, Zenon

(* A service that is not configured any more, though its ports are, is of  *)
(* an address family that the configuration has given up.                  *)
LEMMA AbandonedService ==
    ASSUME Handlers, NEW x, Good(x), Placed(x), NEW k \in Services(x),
           k \notin ServiceKeys(x.config)
    PROVE  Abandoned(x, x.svc[k].vip)
<1>1. x \in VType /\ k \in Keys BY Zenon DEF Good, WellFormed, Services
<1>2. x.svc[k] \in ServiceType BY <1>1, Zenon DEF VType, Services
<1>3. x.svc[k].vip \in IPs /\ x.svc[k].vip[1] = k[1] BY <1>2, Zenon DEF ServiceType, Placed
<1>4. k[2] \in IF x.config.useFWM THEN {Nil} ELSE EntryPorts(x.config) BY Zenon DEF Placed
<1>5. k[1] \in AFs /\ k = <<k[1], k[2]>> BY <1>1 DEF Keys
<1>6. x.config.addr[k[1]] = Nil BY <1>4, <1>5, Zenon DEF ServiceKeys
<1>7. x.svc[k].vip[2] # Nil BY <1>3, ConstantsAssumption, Zenon DEF IPs
<1>8. IPOf(x.config, k[1])[2] = Nil BY <1>6, Zenon DEF IPOf
<1> QED BY <1>3, <1>7, <1>8, Zenon DEF Abandoned

(* configUpdate's step to the next service preserves the invariants.       *)
LEMMA NextServiceInv ==
    ASSUME Handlers, IInv, NEW k \in Keys, NextService(k)
    PROVE  IInv' /\ (SInv => SInv')
<1> DEFINE left == loop.left \ {k}
           new == BackendsFor(v.config, k)
           old == {d[2] : d \in DestsOf(v, {k})}
<1>1. Good(v) /\ LoopOK BY IInvGood, Zenon
<1>2. /\ IF k \in ServiceKeys(v.config)
         THEN loop' = DestsLoop(left, k, new, old \ new) /\ v' = v
         ELSE loop' = DestsLoop(left, Nil, {}, {}) /\ v' = DeleteService(v, k)
      /\ k \in loop.left /\ loop.op = "dests" /\ vcc' = vcc /\ mode' = mode /\ mode = "running"
  BY Zenon DEF NextService, Running
<1>3. /\ v.config # Nil
      /\ loop \in [op: {"dests"}, left: SUBSET Services(v), cur: Keys \cup {Nil},
                   upd: SUBSET Backends, del: SUBSET Backends]
  BY <1>1, <1>2, LoopCases, Zenon
<1>4. k \in Services(v) /\ left \subseteq Services(v) \ {k} BY <1>2, <1>3, Zenon
<1>5. ASSUME SInv
      PROVE  /\ Whole(v) /\ Placed(v) /\ v.enabled
             /\ \A j \in ServiceKeys(v.config) : AtAddress(v, j)
             /\ Services(v) \ ServiceKeys(v.config) \subseteq loop.left
  BY <1>2, <1>3, <1>5, RunningSInv, Zenon DEF LoopInv
<1>6. CASE k \in ServiceKeys(v.config)
  <2>1. new \subseteq Backends /\ old \subseteq Backends
    BY Zenon DEF BackendsFor, BackendNames, DestsOf, Destinations, Dests
  <2>2. {k} \X old \subseteq Destinations(v) BY DEF DestsOf, Destinations, Dests
  <2>3. v' = v /\ loop' = [op |-> "dests", left |-> left, cur |-> k, upd |-> new, del |-> old \ new]
    BY <1>2, <1>6, ZenonT(30) DEF DestsLoop
  <2>4. k \in Services(v) \ left BY <1>4, Zenon
  <2>5. Services(v) \ ServiceKeys(v.config) \subseteq loop.left
          => Services(v) \ ServiceKeys(v.config) \subseteq left
    BY <1>6, Zenon
  <2> HIDE DEF left, old
  <2>6. LoopOK' BY <1>3, <1>4, <2>1, <2>2, <2>3, <2>4, Zenon DEF LoopOK
  <2>7. IInv' BY <1>1, <1>2, <2>3, <2>6, IInvGood, IInvGoodNext, Zenon
  <2>8. ASSUME SInv PROVE SInv'
    <3>1. LoopInv' BY <1>5, <1>6, <2>3, <2>5, <2>8, Zenon DEF LoopInv
    <3> QED BY <1>2, <1>5, <2>3, <2>8, <3>1, Zenon DEF SInv
  <2> QED BY <2>7, <2>8, Zenon
<1>7. CASE k \notin ServiceKeys(v.config)
  <2>1. v' = DeleteService(v, k)
        /\ loop' = [op |-> "dests", left |-> left, cur |-> Nil, upd |-> {}, del |-> {}]
    BY <1>2, <1>7, Zenon DEF DestsLoop
  <2>2. /\ Good(v') /\ SameConfig(v, v') /\ Services(v') = Services(v) \ {k}
        /\ \A j \in Services(v') : v'.svc[j] = v.svc[j]
        /\ Abandoned(v, v.svc[k].vip) => Kept(v, v')
    BY <1>1, <1>4, <2>1 DEF Handlers, DeleteServiceGood
  <2>3. v'.config = v.config /\ v'.enabled = v.enabled BY <2>2, Zenon DEF SameConfig
  <2>4. Services(v) \ ServiceKeys(v.config) \subseteq loop.left
          => (Services(v) \ {k}) \ ServiceKeys(v.config) \subseteq left
    BY Zenon
  <2> HIDE DEF left
  <2>5. LoopOK' BY <1>3, <1>4, <2>1, <2>2, <2>3, Zenon DEF LoopOK
  <2>6. IInv' BY <1>2, <2>2, <2>5, IInvGood, IInvGoodNext, Zenon
  <2>7. ASSUME SInv PROVE SInv'
    <3>1. Abandoned(v, v.svc[k].vip) BY <1>1, <1>4, <1>5, <1>7, <2>7, AbandonedService, Zenon
    <3>2. Whole(v') BY <1>5, <2>2, <2>7, <3>1, KeptWhole, Zenon
    <3>3. Placed(v') BY <1>5, <2>2, <2>3, <2>7 DEF Placed
    <3>4. \A j \in ServiceKeys(v.config) : AtAddress(v', j)
      BY <1>5, <1>7, <2>2, <2>3, <2>7, Zenon DEF AtAddress
    <3>5. Services(v') \ ServiceKeys(v.config) \subseteq left BY <1>5, <2>2, <2>4, <2>7, Zenon
    <3>6. v'.enabled BY <1>5, <2>3, <2>7, Zenon
    <3>7. LoopInv' BY <2>1, <2>3, <3>3, <3>4, <3>5, <3>6, Zenon DEF LoopInv
    <3> QED BY <1>2, <3>2, <3>7, Zenon DEF SInv
  <2> QED BY <2>6, <2>7, Zenon
<1> QED BY <1>6, <1>7, Zenon

(* The services of the configuration, in a step that leaves the services   *)
(* alone.                                                                  *)
LEMMA DestsLoopInv ==
    ASSUME SInv, mode = "running", loop.op = "dests", v.config # Nil, v'.svc = v.svc,
           SameConfig(v, v'), Services(v') = Services(v), Whole(v'), mode' = mode, vcc' = vcc,
           loop'.op = "dests", loop'.left = loop.left, loop'.cur = loop.cur,
           loop'.upd \cup loop'.del # {} => loop.upd \cup loop.del # {}
    PROVE  SInv'
<1>1. /\ Placed(v) /\ v.enabled
      /\ \A k \in ServiceKeys(v.config) : AtAddress(v, k)
      /\ Services(v) \ ServiceKeys(v.config) \subseteq loop.left
      /\ loop.upd \cup loop.del # {} => loop.cur \in ServiceKeys(v.config)
  BY RunningSInv, Zenon DEF LoopInv
<1>2. v'.config = v.config /\ v'.enabled = v.enabled BY Zenon DEF SameConfig
<1>3. Placed(v') BY <1>1, <1>2, Zenon DEF Placed
<1>4. \A k \in ServiceKeys(v.config) : AtAddress(v', k) BY <1>1, <1>2, Zenon DEF AtAddress
<1>5. LoopInv' BY <1>1, <1>2, <1>3, <1>4, Zenon DEF LoopInv
<1> QED BY <1>5, Zenon DEF SInv

(* The service whose destinations are updated has a VIP that may go up.    *)
LEMMA CurrentKnown ==
    ASSUME SInv, mode = "running", loop.op = "dests", loop.upd \cup loop.del # {}
    PROVE  Known(v, v.svc[loop.cur].vip)
BY RunningSInv, KnownAt, Zenon DEF LoopInv

(* configUpdate's iteration on a destination preserves the invariants.     *)
LEMMA UpdateDestinationInv ==
    ASSUME Handlers, IInv, NEW b, UpdateDestination(b)
    PROVE  IInv' /\ (SInv => SInv')
<1> DEFINE d == <<loop.cur, b>>
<1>1. Good(v) /\ LoopOK BY IInvGood, Zenon
<1>2. loop.op = "dests" /\ b \in loop.upd /\ mode = "running"
  BY Zenon DEF UpdateDestination, Running
<1>3. /\ v.config # Nil
      /\ loop \in [op: {"dests"}, left: SUBSET Services(v), cur: Keys \cup {Nil},
                   upd: SUBSET Backends, del: SUBSET Backends]
      /\ loop.cur \in Services(v) \ loop.left
      /\ loop.upd \subseteq BackendsFor(v.config, loop.cur)
      /\ {loop.cur} \X loop.del \subseteq Destinations(v)
  BY <1>1, <1>2, LoopCases, Zenon
<1>4. CASE d \notin Destinations(v) /\ loop.cur \in v.nilDests
  BY <1>2, <1>4, PanicInv, Zenon DEF UpdateDestination
<1>5. CASE ~(d \notin Destinations(v) /\ loop.cur \in v.nilDests)
  <2>1. /\ v' = IF d \in Destinations(v) THEN DestinationUpdate(v, d) ELSE AddDestination(v, d)
        /\ loop' = [loop EXCEPT !.upd = loop.upd \ {b}] /\ vcc' = vcc /\ mode' = mode
    BY <1>5, Zenon DEF UpdateDestination
  <2>2. /\ d \in Dests /\ d[1] \in Services(v) /\ d[2] \in BackendsFor(v.config, d[1])
        /\ d[1] = loop.cur
    BY <1>2, <1>3, Zenon DEF Dests, Services
  <2> HIDE DEF d
  <2>3. /\ Good(v') /\ SameConfig(v, v') /\ Services(v') = Services(v) /\ v'.svc = v.svc
        /\ Destinations(v) \subseteq Destinations(v')
        /\ Known(v, v.svc[loop.cur].vip) => Kept(v, v')
    <3>1. CASE d \in Destinations(v)
      BY <1>1, <1>3, <2>1, <2>2, <3>1, Zenon DEF Handlers, DestinationUpdateGood
    <3>2. CASE d \notin Destinations(v)
      <4>1. v' = AddDestination(v, d) /\ d \in Dests \ Destinations(v) BY <2>1, <2>2, <3>2, Zenon
      <4>2. /\ Good(v') /\ SameConfig(v, v') /\ v'.svc = v.svc /\ Kept(v, v')
            /\ Services(v') = Services(v) /\ Destinations(v') = Destinations(v) \cup {d}
        BY <1>1, <1>3, <2>2, <4>1, Zenon DEF Handlers, AddDestinationGood
      <4> QED BY <4>2, Zenon
    <3> QED BY <3>1, <3>2, Zenon
  <2>4. /\ loop' \in [op: {"dests"}, left: SUBSET Services(v), cur: Keys \cup {Nil},
                      upd: SUBSET Backends, del: SUBSET Backends]
        /\ loop'.left = loop.left /\ loop'.cur = loop.cur /\ loop'.del = loop.del
        /\ loop'.upd \subseteq loop.upd /\ loop'.op = "dests"
    BY <1>3, <2>1, Zenon
  <2>5. LoopOK' BY <1>3, <2>3, <2>4, Zenon DEF LoopOK, SameConfig
  <2>6. IInv' BY <2>1, <2>3, <2>5, IInvGood, IInvGoodNext, Zenon
  <2>7. ASSUME SInv PROVE SInv'
    <3>1. Whole(v') BY <1>2, <2>3, <2>7, CurrentKnown, KeptWhole, RunningSInv, Zenon
    <3>2. loop.upd \cup loop.del # {} BY <1>2, Zenon
    <3> QED BY <1>2, <1>3, <2>1, <2>3, <2>4, <2>7, <3>1, <3>2, DestsLoopInv, Zenon
  <2> QED BY <2>6, <2>7, Zenon
<1> QED BY <1>4, <1>5, Zenon

(* configUpdate's removal of a destination preserves the invariants.       *)
LEMMA RemoveDestinationInv ==
    ASSUME Handlers, IInv, NEW b, RemoveDestination(b)
    PROVE  IInv' /\ (SInv => SInv')
<1> DEFINE d == <<loop.cur, b>>
<1>1. Good(v) /\ LoopOK BY IInvGood, Zenon
<1>2. /\ loop.op = "dests" /\ loop.upd = {} /\ b \in loop.del /\ mode = "running"
      /\ v' = DeleteDestination(v, d)
      /\ loop' = [loop EXCEPT !.del = loop.del \ {b}] /\ vcc' = vcc /\ mode' = mode
  BY Zenon DEF RemoveDestination, Running
<1>3. /\ v.config # Nil
      /\ loop \in [op: {"dests"}, left: SUBSET Services(v), cur: Keys \cup {Nil},
                   upd: SUBSET Backends, del: SUBSET Backends]
      /\ loop.cur \in Services(v) \ loop.left
      /\ {loop.cur} \X loop.del \subseteq Destinations(v)
  BY <1>1, <1>2, LoopCases, Zenon
<1>4. d \in Destinations(v) /\ d[1] = loop.cur BY <1>2, <1>3, Zenon
<1>5. \A e \in {loop.cur} \X (loop.del \ {b}) : e \in Destinations(v) \ {d} BY <1>3
<1> HIDE DEF d
<1>6. /\ Good(v') /\ SameConfig(v, v') /\ Services(v') = Services(v) /\ v'.svc = v.svc
      /\ Destinations(v') = Destinations(v) \ {d}
      /\ Known(v, v.svc[loop.cur].vip) => Kept(v, v')
  BY <1>1, <1>2, <1>4, Zenon DEF Handlers, DeleteDestinationGood
<1>7. /\ loop' \in [op: {"dests"}, left: SUBSET Services(v), cur: Keys \cup {Nil},
                    upd: SUBSET Backends, del: SUBSET Backends]
      /\ loop'.left = loop.left /\ loop'.cur = loop.cur /\ loop'.del = loop.del \ {b}
      /\ loop'.upd = {} /\ loop'.op = "dests"
  BY <1>2, <1>3, Zenon
<1>8. LoopOK' BY <1>3, <1>5, <1>6, <1>7, Zenon DEF LoopOK, SameConfig
<1>9. IInv' BY <1>2, <1>6, <1>8, IInvGood, IInvGoodNext, Zenon
<1>10. ASSUME SInv PROVE SInv'
  <2>1. loop.upd \cup loop.del # {} BY <1>2, Zenon
  <2>2. Whole(v') BY <1>2, <1>6, <1>10, <2>1, CurrentKnown, KeptWhole, RunningSInv, Zenon
  <2> QED BY <1>2, <1>3, <1>6, <1>7, <1>10, <2>1, <2>2, DestsLoopInv, Zenon
<1> QED BY <1>9, <1>10, Zenon

(* The end of handleConfigUpdate preserves the invariants.                 *)
LEMMA FinishConfigUpdateInv ==
    ASSUME Handlers, IInv, FinishConfigUpdate
    PROVE  IInv' /\ (SInv /\ SameTypes => SInv')
<1> DEFINE y == EndConfigUpdate(v)
<1>1. Good(v) /\ LoopOK BY IInvGood, Zenon
<1>2. /\ loop.op = "dests" /\ loop.left = {} /\ mode = "running" /\ Publish(y)
  BY Zenon DEF FinishConfigUpdate, Running
<1>3. v.config # Nil BY <1>1, <1>2, LoopCases, Zenon
<1>4. /\ Good(y) /\ SameParts(v, y) /\ y.config = v.config
      /\ Announced(v) /\ TypesCurrent(v) => Announced(y)
      /\ Announced(v) /\ TypesCurrent(v) /\ Current(v) /\ v.enabled => y.vips = OwnVIPs(y.config)
  BY <1>1, Zenon DEF Handlers, EndConfigUpdateGood
<1> HIDE DEF y
<1>5. ASSUME SInv, SameTypes PROVE Whole(y) /\ Settled(y)
  <2>1. /\ Whole(v) /\ v.enabled
        /\ \A k \in ServiceKeys(v.config) : AtAddress(v, k)
        /\ Services(v) \ ServiceKeys(v.config) \subseteq loop.left
    BY <1>2, <1>5, RunningSInv, Zenon DEF LoopInv
  <2>2. Current(v) BY <1>2, <2>1, Zenon DEF Current, AtAddress
  <2>3. TypesCurrent(v) BY <1>3, <1>5, Zenon DEF SameTypes
  <2>4. Announced(v) BY <2>1, Zenon DEF Whole
  <2>5. y \in VType BY <1>4, Zenon DEF Good, WellFormed
  <2>6. Whole(y) BY <1>1, <1>4, <2>1, <2>3, <2>4, <2>5, FrameWhole, Zenon
  <2>7. Services(y) = Services(v) BY <1>1, <1>3, <1>4, <2>5, Zenon DEF Handlers, GoodFrame
  <2>8. y.svc = v.svc /\ y.enabled = v.enabled BY <1>4, Zenon DEF SameParts
  <2>9. Current(y) BY <1>4, <2>2, <2>7, <2>8, Zenon DEF Current
  <2> QED BY <1>4, <2>1, <2>2, <2>3, <2>4, <2>6, <2>8, <2>9, Zenon DEF Settled
<1> QED BY <1>2, <1>4, <1>5, PublishInv, Zenon

(* run's exit (downAll, unconfigureVIPs) preserves the invariants.         *)
LEMMA StopInv ==
    ASSUME Handlers, IInv, Stop
    PROVE  IInv' /\ (SInv => SInv')
<1>1. mode = "running" /\ loop = Idle BY Zenon DEF Stop, Running
<1>2. CASE v.config = Nil BY <1>1, <1>2, PanicInv, Zenon DEF Stop
<1>3. CASE v.config # Nil
  <2> DEFINE x == DownAll(v)
  <2>1. /\ v' = UnconfigureVIPs(x, x.vips) /\ vcc' = {} /\ mode' = "stopped"
        /\ loop' = Idle
    BY <1>1, <1>3, Zenon DEF Stop
  <2>2. /\ Good(x) /\ (Exact(v) => Exact(x)) /\ (Announced(v) => Announced(x))
        /\ Upheld(v) => x.active = {}
    BY IInvGood, Zenon DEF Handlers, DownAllGood
  <2> HIDE DEF x
  <2>3. /\ Good(v') /\ SameParts(x, v') /\ v'.config = x.config /\ v'.vips = x.vips \ x.vips
        /\ Announced(x) => Announced(v')
    BY <2>1, <2>2, Zenon DEF Handlers, UnconfigureVIPsGood
  <2>4. IInv' BY <2>1, <2>3, IInvGoodNext, Zenon DEF LoopOK
  <2>5. ASSUME SInv PROVE SInv'
    <3>1. Exact(v) /\ Announced(v) /\ Upheld(v) BY <1>1, <2>5, RunningSInv, Zenon DEF Whole
    <3>2. v' \in VType BY <2>3, Zenon DEF Good, WellFormed
    <3>3. Exact(v') BY <2>2, <2>3, <3>1, <3>2, Zenon DEF Handlers, GoodFrame
    <3>4. v'.active = {} BY <2>2, <2>3, <3>1, Zenon DEF SameParts, SameActive
    <3> QED BY <2>1, <2>2, <2>3, <3>1, <3>3, <3>4, Zenon DEF SInv
  <2> QED BY <2>4, <2>5, Zenon
<1> QED BY <1>2, <1>3, Zenon

(* Every step preserves the invariants, the second one under the           *)
(* hypotheses on operators and configurations.                             *)
LEMMA NextInv ==
    ASSUME Handlers, IInv, [Next]_vars
    PROVE  IInv' /\ (SInv /\ NotForced /\ SameTypes => SInv')
<1>0. Good(v) /\ LoopOK BY IInvGood, Zenon
<1>1. CASE UNCHANGED vars
  <2>1. v' = v /\ loop' = loop /\ vcc' = vcc /\ mode' = mode BY <1>1, Zenon DEF vars
  <2>2. LoopOK' BY <1>0, <2>1, Zenon DEF LoopOK
  <2>3. IInv' BY <2>1, <2>2, IInvGood, IInvGoodNext, Zenon
  <2>4. SInv => SInv' BY <2>1, Zenon DEF SInv, LoopInv
  <2> QED BY <2>3, <2>4, Zenon
<1>2. CASE \E c \in CheckKeys, state \in States : HandleCheckNotification(c, state)
  BY <1>2, HandleCheckNotificationInv, Zenon
<1>3. CASE \E c \in Configs : UpdateConfig(c)
  <2>1. PICK c \in Configs : HandleConfigUpdate(v, c) /\ mode = "running" /\ loop = Idle
    BY <1>3, Zenon DEF UpdateConfig, Running
  <2>2. SInv => Whole(v) /\ Settled(v) BY <2>1, RunningSInv, Zenon DEF LoopInv, Idle
  <2> QED BY <1>0, <2>1, <2>2, HandleConfigUpdateInv, Zenon
<1>4. CASE \E o \in Overrides : IF o.target = Nil THEN VserverOverride(o.state)
                                ELSE BackendOverride(o.target, o.state)
  BY <1>4, OverrideInv, Zenon
<1>5. CASE \E d \in Dests : CheckDestination(d) \/ OverrideDestination(d)
  BY <1>5, CheckDestinationInv, OverrideDestinationInv, Zenon
<1>6. CASE EndCheckNotification \/ EndOverride BY <1>6, EndLoopInv, Zenon
<1>7. CASE \E k \in Keys : UpdateService(k) \/ NextService(k)
  BY <1>7, UpdateServiceInv, NextServiceInv, Zenon
<1>8. CASE EndServices BY <1>8, EndServicesInv, Zenon
<1>9. CASE \E b \in Backends : UpdateDestination(b) \/ RemoveDestination(b)
  BY <1>9, UpdateDestinationInv, RemoveDestinationInv, Zenon
<1>10. CASE FinishConfigUpdate BY <1>10, FinishConfigUpdateInv, Zenon
<1>11. CASE Stop BY <1>11, StopInv, Zenon
<1> QED
  BY <1>1, <1>2, <1>3, <1>4, <1>5, <1>6, <1>7, <1>8, <1>9, <1>10, <1>11, Zenon DEF Next, LoopStep

(* The IPVS table, the routes and the addresses of a vserver, running or   *)
(* stopped.                                                                *)
LEMMA NodeInv == SInv => Exact(v) /\ Announced(v)
BY Zenon DEF SInv, Whole

(* The vserver between events.                                             *)
LEMMA IdleInv ==
    ASSUME SInv, loop = Idle, mode # "stopped"
    PROVE  Whole(v) /\ Settled(v) /\ (~v.enabled => vcc = {})
BY Zenon DEF SInv, LoopInv, Idle

(* The IPVS table holds nothing but what is active.                        *)
LEMMA InstalledFollows ==
    ASSUME IInv, SInv
    PROVE  InstalledIsActive
<1>1. Good(v) /\ Exact(v) BY IInvGood, NodeInv, Zenon
<1>2. v.node \in NodeType BY <1>1, Zenon DEF Good, WellFormed, VType
<1>3. \A e \in v.node.dests : e = <<e[1], e[2]>> BY <1>2 DEF NodeType
<1>4. v.activeDests \subseteq v.healthyDests BY <1>1, Zenon DEF Good, WellFormed, Cascade
<1>5. ASSUME NEW e \in v.node.dests
      PROVE  \E d \in v.activeDests : e = <<IpvsDestId(v, d), v.backend[d].weight>>
  <2>1. PICK d \in v.activeDests :
          e[1] = IpvsDestId(v, d) /\ (d \in v.healthyDests => e[2] = v.backend[d].weight)
    BY <1>1, Zenon DEF Exact, ExactDests
  <2> QED BY <1>3, <1>4, <2>1, Zenon
<1> QED BY <1>1, <1>5, Zenon DEF InstalledIsActive, Exact, ExactSvcs

(* No call fails.                                                          *)
LEMMA NoneFatal ==
    ASSUME IInv, SInv
    PROVE  NeverFatal
<1>1. Good(v) /\ Exact(v) /\ Announced(v) BY IInvGood, NodeInv, Zenon
<1>2. v.node \in NodeType BY <1>1, Zenon DEF Good, WellFormed, VType
<1>3. v.node.fatal \subseteq IPVSFaults \cup VIPFaults
  BY <1>2, Zenon DEF NodeType, Faults, IPVSFaults, VIPFaults
<1>4. v.node.fatal \cap IPVSFaults = {} BY <1>1, Zenon DEF Exact, ExactDests, IPVSCallsOK
<1>5. v.node.fatal \cap VIPFaults = {} BY <1>1, Zenon DEF Announced, Guarded, VIPCallsOK
<1> QED BY <1>3, <1>4, <1>5, Zenon DEF NeverFatal

(* The VIPs that are up are those with the services they need.             *)
LEMMA VIPsFollow ==
    ASSUME IInv, SInv
    PROVE  VIPFollowsServices
<1> SUFFICES ASSUME loop = Idle, mode = "running", NEW ip \in IPs
             PROVE  ip \in v.active <=> AddressHealthy(v, ip)
  BY Zenon DEF VIPFollowsServices
<1>1. Good(v) /\ Whole(v) /\ Settled(v) BY IInvGood, IdleInv, Zenon
<1>2. ip \in v.active => AddressHealthy(v, ip) BY <1>1, Zenon DEF Whole, Upheld
<1>3. ASSUME AddressHealthy(v, ip) PROVE ip \in v.active
  <2>1. ServicesOf(v, {ip}) # {} BY <1>3, Zenon DEF AddressHealthy
  <2>2. PICK k \in Services(v) : v.svc[k].vip = ip BY <2>1, Zenon DEF ServicesOf
  <2>3. v.config # Nil BY <1>1, <2>2, Zenon DEF Good, WellFormed
  <2>4. Current(v) BY <1>1, <2>3, Zenon DEF Settled
  <2>5. ip = IPOf(v.config, ip[1])
    <3>1. ip = IPOf(v.config, k[1]) BY <2>2, <2>4, Zenon DEF Current
    <3>2. IPOf(v.config, k[1])[1] = k[1] BY Zenon DEF IPOf
    <3> QED BY <3>1, <3>2, Zenon
  <2> QED BY <1>1, <1>3, <2>5, Zenon DEF Whole, Raised
<1> QED BY <1>2, <1>3, Zenon

(* The routes, the anycast addresses and the rules are those of the VIPs.  *)
LEMMA RoutesFollow ==
    ASSUME IInv, SInv
    PROVE  RoutesFollowVIPs
<1>1. Announced(v) BY NodeInv, Zenon
<1>2. ASSUME NEW ip \in Anycast PROVE <<ip, "Anycast">> \in v.node.addrs <=> ip \in v.active
  <2>1. <<ip, "Anycast">> \notin v.vips BY <1>1, Zenon DEF Announced
  <2>2. <<ip, "Anycast">> \in AnycastVIPs(v.active) <=> ip \in v.active BY Zenon DEF AnycastVIPs
  <2> QED BY <1>1, <2>1, <2>2, Zenon DEF Announced
<1>3. /\ v.node.rules = {v.lbVservers[ip] : ip \in Ids(v.node.addrs)}
      /\ \A ip \in Ids(v.node.addrs) : v.lbVservers[ip].ip = ip
  BY <1>1, Zenon DEF Announced, Guarded, RulesOf
<1>4. {r.ip : r \in v.node.rules} = Ids(v.node.addrs)
  <2>1. \A ip \in Ids(v.node.addrs) : \E r \in v.node.rules : ip = r.ip BY <1>3, Zenon
  <2>2. \A r \in v.node.rules : r.ip \in Ids(v.node.addrs) BY <1>3, Zenon
  <2> HIDE DEF Ids
  <2> QED BY <2>1, <2>2, Zenon
<1>5. Ids(v.node.addrs) = {vip[1] : vip \in v.node.addrs} BY Zenon DEF Ids
<1> QED BY <1>1, <1>2, <1>4, <1>5, Zenon DEF RoutesFollowVIPs, Announced

(* An enabled vserver holds the addresses of its configuration, and a      *)
(* disabled or stopped one nothing.                                        *)
LEMMA VIPsHeld ==
    ASSUME IInv, SInv
    PROVE  EnabledHoldsVIPs
<1> SUFFICES ASSUME loop = Idle
             PROVE  IF v.enabled /\ mode # "stopped"
                    THEN v.vips = {vip \in VIPs(v.config) : vip[2] # "Anycast"}
                    ELSE /\ v.active = {} /\ v.activeSvcs = {} /\ v.activeDests = {}
                         /\ v.node.addrs = {} /\ v.node.services = {} /\ vcc = {}
  BY Zenon DEF EnabledHoldsVIPs
<1>1. Good(v) /\ Exact(v) /\ Announced(v) BY IInvGood, NodeInv, Zenon
<1>2. CASE v.enabled /\ mode # "stopped" BY <1>2, IdleInv, Zenon DEF Settled, OwnVIPs
<1>3. CASE ~(v.enabled /\ mode # "stopped")
  <2>1. v.active = {} /\ v.vips = {} /\ vcc = {} BY <1>3, IdleInv, Zenon DEF SInv, Settled
  <2>2. v.activeSvcs = {} /\ v.activeDests = {} BY <1>1, <2>1, NothingActive, Zenon
  <2>3. v.node.services = {} BY <1>1, <2>2, Zenon DEF Exact, ExactSvcs
  <2>4. AnycastVIPs({}) = {} BY Zenon DEF AnycastVIPs
  <2>5. v.node.addrs = {} BY <1>1, <2>1, <2>4, Zenon DEF Announced
  <2> QED BY <1>3, <2>1, <2>2, <2>3, <2>5, Zenon
<1> QED BY <1>2, <1>3, Zenon
=============================================================================

-------------------------------- MODULE NCC --------------------------------
(* The network control component (ncc/): the calls through which the engine *)
(* sets up the load balancing interface, its VLANs, the VIPs, the iptables  *)
(* rules and the BGP advertisements. A call is a sequence of commands on    *)
(* the kernel and on bgpd (both external). The calls of the engine's        *)
(* manager and of each vserver's goroutine overlap, the engine or the NCC   *)
(* may die between two commands, and an error that is returned to the       *)
(* engine ends it (log.Fatalf) and has it start again.                      *)
EXTENDS Naturals, FiniteSets, SequencesExt

CONSTANTS
    VIPs,          \* VIPs, each of a vserver of its own
    Home(_),       \* the interface with the VIP's network: Lb, a VLAN or Dummy
    IPv6(_),       \* the VIP is an IPv6 address
    FWM(_),        \* its vserver is balanced by firewall mark
    NAT(_),        \* the mode of its vserver's entry is NAT
    VLANs,
    Lb, Dummy,     \* the load balancing and the dummy interface
    MaxVIPs,       \* VIPs that are configured at a time
    MaxEvents,     \* crashes, and commands for which iptables stays busy
    None

VARIABLES
    up,            \* Lb is up
    table,         \* the routes of Lb's table are there
    links,         \* the VLAN interfaces
    addrs,         \* the addresses on the interfaces
    rules,         \* the VIPs with a routing rule for Lb's table
    ipt,           \* the iptables rules for each VIP, in their order
    bgp,           \* the VIPs that bgpd advertises
    engine,        \* "down", "init" or "run"
    leader,        \* the HA state of the engine is LEADER
    todo,          \* the commands that are left of each goroutine's calls
    saw,           \* what a goroutine's call has read: flags, addresses
    held,          \* the VIPs in vserver.vips and vserver.active
    hit,           \* VIPs that Down or DeleteVLAN got in the way of
    events

kernel == <<up, table, links, addrs, rules, ipt, bgp>>
vars == <<kernel, engine, leader, todo, saw, held, hit, events>>

Manager == None                     \* the manager's goroutine
Goroutines == VIPs \cup {Manager}
Anycast(v) == Home(v) = Dummy
Event == events < MaxEvents /\ events' = events + 1

-----------------------------------------------------------------------------
(* The calls, as sequences of commands. The entries of the kernel's local   *)
(* table (routeLocal, removeLocalRoutes, removeMainRoutes), the cluster's   *)
(* own VIPs and the sysctls are left out.                                   *)
Ipt(action, rs) == [i \in 1..Len(rs) |-> <<action, rs[i]>>]

(* The templates of an entry, and iptablesRules: those of the vserver's one *)
(* entry, then those for ICMP (here one), then REJECT.                      *)
RuleTemplates(v) ==
    <<"accept">> \o (IF FWM(v) THEN <<"mark">> ELSE <<>>)
                 \o (IF NAT(v) THEN <<"conntrack", "snat">> ELSE <<>>)
iptablesRules(v) == RuleTemplates(v) \o <<"icmp", "reject">>

LBInterfaceAddVserver(v) == Ipt("iptAdd", iptablesRules(v))
DeleteEntries(v) == Ipt("iptDelete", RuleTemplates(v))      \* for mutation
LBInterfaceDeleteVserver(v) == Ipt("iptDelete", iptablesRules(v))
LBInterfaceAddVIP(v) ==
    IF Anycast(v) THEN << <<"addrAdd">> >>
    ELSE << <<"select">>, <<"ruleAdd">>, <<"addrAdd">>, <<"arp">> >>
LBInterfaceDeleteVIP(v) ==
    IF Anycast(v) THEN << <<"addrDel">> >>
    ELSE << <<"find">>, <<"addrDel">>, <<"ruleDel">> >>
LBInterfaceUp == << <<"linkUp">>, <<"routes">> >>
LBInterfaceDown == << <<"show">>, <<"linkDown">>, <<"restore">> >>

(* initNetwork, with LBInterfaceInit.                                       *)
StaysUp == << <<"bgpWithdrawAll">>, <<"flushVLANs">>, <<"flush", Lb>>,      \* for mutation
              <<"flushIptables">>, <<"flush", Dummy>> >>
initNetwork == << <<"bgpWithdrawAll">>, <<"linkDown">>, <<"flushVLANs">>, <<"flush", Lb>>,
                  <<"flushIptables">>, <<"flush", Dummy>> >>

(* configureVIPs, or up for an anycast VIP, and unconfigureVIP, or down.    *)
AddressFirst(v) ==      \* for mutation
    LBInterfaceAddVIP(v) \o LBInterfaceAddVserver(v)
    \o IF Anycast(v) THEN << <<"bgpAdvertise">> >> ELSE <<>>
configure(v) ==
    LBInterfaceAddVserver(v) \o LBInterfaceAddVIP(v)
    \o IF Anycast(v) THEN << <<"bgpAdvertise">> >> ELSE <<>>
unconfigure(v) ==
    (IF Anycast(v) THEN << <<"bgpWithdraw">> >> ELSE <<>>)
    \o LBInterfaceDeleteVIP(v) \o LBInterfaceDeleteVserver(v)

-----------------------------------------------------------------------------
(* What each command does, and when it fails. The goroutine's call goes on  *)
(* with the next one. The IPv6 networks of the interfaces, by which an      *)
(* address finds its interface, are gone between the link's going down and  *)
(* the return of the addresses.                                             *)
Addr(v) == <<Home(v), v>>
Ifaces == {Lb, Dummy} \cup links
NetworksGone == todo[Manager] # <<>> /\ Head(todo[Manager])[1] = "restore"
Works(g, c) ==
    CASE c[1] = "iptDelete" -> c[2] \in Range(ipt[g])
      [] c[1] = "select"    -> Home(g) \in Ifaces /\ ~(IPv6(g) /\ NetworksGone)
      [] c[1] = "find"      -> Addr(g) \in addrs
      [] c[1] = "addrAdd"   -> Home(g) \in Ifaces /\ Addr(g) \notin addrs
      [] c[1] = "addrDel"   -> Addr(g) \in addrs
      [] c[1] = "arp"       -> saw[g] => up
      [] c[1] = "routes"    -> up /\ ~table
      [] c[1] = "linkAdd"   -> c[2] \notin links
      [] c[1] = "linkDel"   -> c[2] \in links
      [] c[1] = "restore"   -> saw[g] \cap addrs = {} /\ {x[1] : x \in saw[g]} \subseteq Ifaces
      [] OTHER -> TRUE

Is(g, name) == todo[g] # <<>> /\ Head(todo[g])[1] = name /\ Works(g, Head(todo[g]))
Arg(g) == Head(todo[g])[2]
Then(g, rest) ==
    /\ todo' = [todo EXCEPT ![g] = rest]
    /\ UNCHANGED <<engine, leader, held, events>>
Goes(g, name) == Is(g, name) /\ Then(g, Tail(todo[g]))

iptablesAddRules(v) ==
    /\ Goes(v, "iptAdd")
    /\ ipt' = [ipt EXCEPT ![v] = IF Arg(v) = "conntrack" THEN <<Arg(v)>> \o @ ELSE Append(@, Arg(v))]
    /\ UNCHANGED <<up, table, links, addrs, rules, bgp, saw, hit>>

iptablesDeleteRules(v) ==
    /\ Goes(v, "iptDelete")
    /\ ipt' = [ipt EXCEPT ![v] = RemoveAt(@, SelectInSeq(@, LAMBDA r : r = Arg(v)))]
    /\ UNCHANGED <<up, table, links, addrs, rules, bgp, saw, hit>>

(* The interface's flags are read here, and used in SendARP. *)
selectInterfaceNetwork(v) ==
    /\ Goes(v, "select")
    /\ saw' = [saw EXCEPT ![v] = up /\ ~IPv6(v)]
    /\ UNCHANGED <<kernel, hit>>

findInterfaceNetwork(v) == Goes(v, "find") /\ UNCHANGED <<kernel, saw, hit>>

SourceBased(v) == IF Home(v) = Lb /\ ~IPv6(v) THEN {v} ELSE {}
addSourceBasedRouting(v) ==
    /\ Goes(v, "ruleAdd")
    /\ rules' = rules \cup SourceBased(v)
    /\ UNCHANGED <<up, table, links, addrs, ipt, bgp, saw, hit>>

removeSourceBasedRouting(v) ==
    /\ Goes(v, "ruleDel")
    /\ rules' = rules \ SourceBased(v)
    /\ UNCHANGED <<up, table, links, addrs, ipt, bgp, saw, hit>>

(* Between LBInterfaceDown's look at the IPv6 addresses and its end, one    *)
(* that is added is lost, and one that is deleted comes back.               *)
GoingDown == todo[Manager] # <<>> /\ Head(todo[Manager])[1] \in {"linkDown", "restore"}
Hits(v) == hit' = IF GoingDown /\ IPv6(v) THEN hit \cup {v} ELSE hit
ifaceAddIPAddr(v) ==
    /\ Goes(v, "addrAdd")
    /\ addrs' = addrs \cup {Addr(v)}
    /\ Hits(v)
    /\ UNCHANGED <<up, table, links, rules, ipt, bgp, saw>>

ifaceDelIPAddr(v) ==
    /\ Goes(v, "addrDel")
    /\ addrs' = addrs \ {Addr(v)}
    /\ Hits(v)
    /\ UNCHANGED <<up, table, links, rules, ipt, bgp, saw>>

SendARP(v) ==
    /\ Goes(v, "arp")
    /\ saw' = [saw EXCEPT ![v] = None]
    /\ UNCHANGED <<kernel, hit>>

BGPAdvertiseVIP(v) ==
    /\ Goes(v, "bgpAdvertise")
    /\ bgp' = bgp \cup {v}
    /\ UNCHANGED <<up, table, links, addrs, rules, ipt, saw, hit>>

BGPWithdrawVIP(v) ==
    /\ Goes(v, "bgpWithdraw")
    /\ bgp' = bgp \ {v}
    /\ UNCHANGED <<up, table, links, addrs, rules, ipt, saw, hit>>

-----------------------------------------------------------------------------
(* The commands of the manager's calls. The link going down takes the IPv6  *)
(* addresses of Lb and its VLANs and the routes with it.                    *)
ifaceUp ==
    /\ Goes(Manager, "linkUp")
    /\ up' = TRUE
    /\ UNCHANGED <<table, links, addrs, rules, ipt, bgp, saw, hit>>

AddRoutes ==
    /\ Goes(Manager, "routes")
    /\ table' = TRUE
    /\ UNCHANGED <<up, links, addrs, rules, ipt, bgp, saw, hit>>

Volatile == {x \in addrs : x[1] # Dummy /\ IPv6(x[2])}
ShowAddrs ==
    /\ Is(Manager, "show")
    /\ Then(Manager, IF up THEN Tail(todo[Manager]) ELSE <<>>)
    /\ saw' = [saw EXCEPT ![Manager] = IF up THEN Volatile ELSE None]
    /\ UNCHANGED <<kernel, hit>>

ifaceFastDown ==
    /\ Goes(Manager, "linkDown")
    /\ up' = FALSE /\ table' = FALSE
    /\ addrs' = addrs \ Volatile
    /\ UNCHANGED <<links, rules, ipt, bgp, saw, hit>>

RestoreAddrs ==
    /\ Goes(Manager, "restore")
    /\ addrs' = addrs \cup saw[Manager]
    /\ saw' = [saw EXCEPT ![Manager] = None]
    /\ UNCHANGED <<up, table, links, rules, ipt, bgp, hit>>

ifaceAddVLAN ==
    /\ Goes(Manager, "linkAdd")
    /\ links' = links \cup {Arg(Manager)}
    /\ UNCHANGED <<up, table, addrs, rules, ipt, bgp, saw, hit>>

(* Its addresses go with it. *)
ifaceDelVLAN ==
    /\ Goes(Manager, "linkDel")
    /\ links' = links \ {Arg(Manager)}
    /\ addrs' = {x \in addrs : x[1] # Arg(Manager)}
    /\ hit' = hit \cup {v \in VIPs : Home(v) = Arg(Manager) /\ (v \in held \/ todo[v] # <<>>)}
    /\ UNCHANGED <<up, table, rules, ipt, bgp, saw>>

BGPWithdrawAll ==
    /\ Goes(Manager, "bgpWithdrawAll")
    /\ bgp' = {}
    /\ UNCHANGED <<up, table, links, addrs, rules, ipt, saw, hit>>

ifaceFlushVLANs ==
    /\ Goes(Manager, "flushVLANs")
    /\ links' = {} /\ addrs' = {x \in addrs : x[1] \notin links}
    /\ UNCHANGED <<up, table, rules, ipt, bgp, saw, hit>>

ifaceFlushIPAddr(i) ==
    /\ Goes(Manager, "flush") /\ Arg(Manager) = i
    /\ addrs' = {x \in addrs : x[1] # i}
    /\ UNCHANGED <<up, table, links, rules, ipt, bgp, saw, hit>>

iptablesInit ==
    /\ Goes(Manager, "flushIptables")
    /\ ipt' = [v \in VIPs |-> <<>>]
    /\ UNCHANGED <<up, table, links, addrs, rules, bgp, saw, hit>>

-----------------------------------------------------------------------------
(* The engine: it starts with initNetwork; then the manager follows the HA  *)
(* state and the VLANs of the configuration, and the vservers configure and *)
(* remove their VIPs. It is assumed to start when the calls that it left    *)
(* behind are over.                                                         *)
Idle(g) == engine = "run" /\ todo[g] = <<>>
Calls(g, prog) ==
    /\ todo' = [todo EXCEPT ![g] = prog]
    /\ UNCHANGED <<kernel, engine, saw, hit, events>>

Start ==
    /\ engine = "down" /\ \A g \in Goroutines : todo[g] = <<>>
    /\ engine' = "init"
    /\ todo' = [todo EXCEPT ![Manager] = initNetwork]
    /\ leader' = FALSE /\ held' = {} /\ saw' = [g \in Goroutines |-> None]
    /\ UNCHANGED <<kernel, hit, events>>

Started ==
    /\ engine = "init" /\ todo[Manager] = <<>>
    /\ engine' = "run" /\ hit' = {}
    /\ UNCHANGED <<kernel, leader, todo, saw, held, events>>

becomeMaster ==
    /\ Idle(Manager) /\ ~leader /\ leader' = TRUE
    /\ Calls(Manager, LBInterfaceUp)
    /\ UNCHANGED held
becomeBackup ==
    /\ Idle(Manager) /\ leader' = FALSE
    /\ Calls(Manager, LBInterfaceDown)
    /\ UNCHANGED held
updateVLANs(l) ==
    /\ Idle(Manager)
    /\ Calls(Manager, IF l \in links THEN << <<"linkDel", l>> >> ELSE << <<"linkAdd", l>> >>)
    /\ UNCHANGED <<leader, held>>

Configure(v) ==
    /\ Idle(v) /\ v \notin held /\ Home(v) \in Ifaces
    /\ Cardinality({u \in VIPs : u \in held \/ todo[u] # <<>>}) < MaxVIPs
    /\ Calls(v, configure(v))
    /\ held' = held \cup {v} /\ UNCHANGED leader
Unconfigure(v) ==
    /\ Idle(v) /\ v \in held
    /\ Calls(v, unconfigure(v))
    /\ held' = held \ {v} /\ UNCHANGED leader

(* The engine dies: the calls that the NCC has got go on, unless it is the  *)
(* NCC that dies, and the ones that come after them are never made. A call  *)
(* of which no command has run may have been made or not.                   *)
CallOf(c) ==
    CASE c[1] \in {"select", "ruleAdd", "addrAdd", "arp"}  -> "AddVIP"
      [] c[1] \in {"find", "addrDel", "ruleDel"}           -> "DeleteVIP"
      [] c[1] \in {"linkUp", "routes"}                     -> "Up"
      [] c[1] \in {"show", "restore", "linkDown", "flushVLANs", "flush", "flushIptables"} -> "Down"
      [] OTHER -> c[1]
Call(g) == SelectSeq(todo[g], LAMBDA c : CallOf(c) = CallOf(Head(todo[g])))
Whole(g) ==
    IF g = Manager
    THEN {LBInterfaceUp, LBInterfaceDown, << <<"bgpWithdrawAll">> >>, Tail(initNetwork)}
         \cup {<< <<action, l>> >> : action \in {"linkAdd", "linkDel"}, l \in VLANs}
    ELSE {LBInterfaceAddVserver(g), LBInterfaceDeleteVserver(g), LBInterfaceAddVIP(g),
          LBInterfaceDeleteVIP(g), << <<"bgpAdvertise">> >>, << <<"bgpWithdraw">> >>}
NotMade == {g \in Goroutines : Call(g) \in Whole(g)}

Dies(ended) ==
    /\ engine' = "down"
    /\ todo' = [g \in Goroutines |-> IF g \in ended THEN <<>> ELSE Call(g)]
    /\ UNCHANGED <<kernel, leader, saw, held, hit>>
Crash == engine # "down" /\ Event /\ \E gone \in SUBSET NotMade : Dies(gone)
NCCCrash == engine # "down" /\ Event /\ Dies(Goroutines)

(* A command fails, and its call with it. *)
Fails(g) ==
    /\ todo[g] # <<>> /\ ~Works(g, Head(todo[g]))
    /\ \E gone \in SUBSET NotMade : Dies(gone \cup {g})
    /\ UNCHANGED events

(* iptablesRunOutput gives up: another program had iptables at all tries. *)
IptablesBusy(g) ==
    /\ todo[g] # <<>> /\ Head(todo[g])[1] \in {"iptAdd", "iptDelete", "flushIptables"}
    /\ Event
    /\ \E gone \in SUBSET NotMade : Dies(gone \cup {g})

Command ==
    \/ \E v \in VIPs :
         \/ iptablesAddRules(v) \/ iptablesDeleteRules(v)
         \/ selectInterfaceNetwork(v) \/ findInterfaceNetwork(v)
         \/ addSourceBasedRouting(v) \/ removeSourceBasedRouting(v)
         \/ ifaceAddIPAddr(v) \/ ifaceDelIPAddr(v) \/ SendARP(v)
         \/ BGPAdvertiseVIP(v) \/ BGPWithdrawVIP(v)
    \/ ifaceUp \/ AddRoutes \/ ShowAddrs \/ ifaceFastDown \/ RestoreAddrs
    \/ ifaceAddVLAN \/ ifaceDelVLAN
    \/ BGPWithdrawAll \/ ifaceFlushVLANs \/ iptablesInit
    \/ \E i \in {Lb, Dummy} : ifaceFlushIPAddr(i)
    \/ \E g \in Goroutines : Fails(g)

Init ==
    /\ up = FALSE /\ table = FALSE /\ links = {} /\ addrs = {} /\ rules = {} /\ bgp = {}
    /\ ipt = [v \in VIPs |-> <<>>]
    /\ engine = "down" /\ leader = FALSE
    /\ todo = [g \in Goroutines |-> <<>>]
    /\ saw = [g \in Goroutines |-> None]
    /\ held = {} /\ hit = {} /\ events = 0

Next ==
    \/ Command
    \/ Start \/ Started \/ Crash \/ NCCCrash
    \/ becomeMaster \/ becomeBackup
    \/ \E l \in VLANs : updateVLANs(l)
    \/ \E v \in VIPs : Configure(v) \/ Unconfigure(v)
    \/ \E g \in Goroutines : IptablesBusy(g)

Spec == Init /\ [][Next]_vars

-----------------------------------------------------------------------------
(* A VIP that answers, on its interface or through BGP, has all of its      *)
(* vserver's rules, with REJECT as the last, whatever else is under way and *)
(* wherever the engine or the NCC has died.                                 *)
Guarded(v) ==
    /\ Range(ipt[v]) = Range(iptablesRules(v))
    /\ Last(ipt[v]) = "reject"
VIPGuarded ==
    \A v \in VIPs \ hit :
       /\ Addr(v) \in addrs /\ ~Anycast(v) => Guarded(v)
       /\ v \in bgp => Guarded(v) /\ Addr(v) \in addrs

(* When no call is under way the kernel has what the vservers hold and no   *)
(* more: addresses, routing rules (some may be left over from an engine     *)
(* that died), iptables rules once each, and advertisements; and the routes *)
(* are there when the interface is up.                                      *)
KernelFollows ==
    engine = "run" /\ (\A g \in Goroutines : todo[g] = <<>>) =>
       /\ up = leader /\ table = leader
       /\ \A v \in VIPs \ hit :
            /\ Addr(v) \in addrs <=> v \in held
            /\ v \in held => SourceBased(v) \subseteq rules
            /\ v \in held /\ Anycast(v) <=> v \in bgp
            /\ IF v \in held THEN Guarded(v) /\ Len(ipt[v]) = Len(iptablesRules(v))
               ELSE ipt[v] = <<>>

(* No call fails and ends the engine, whatever an earlier engine has left   *)
(* behind, but for one on an address that Down or the end of its VLAN got   *)
(* in the way of, and for an ARP message on an interface that went down.    *)
CallsSucceed ==
    \A g \in Goroutines : todo[g] # <<>> /\ ~Works(g, Head(todo[g])) =>
       \/ g \in hit
       \/ g \in VIPs /\ IPv6(g) /\ GoingDown
       \/ Head(todo[g])[1] = "arp"
       \/ Head(todo[g])[1] = "restore" /\ \E x \in saw[g] : x[2] \in hit
=============================================================================

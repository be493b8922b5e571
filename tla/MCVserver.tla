----------------------------- MODULE MCVserver -----------------------------
(* Vservers of several kinds, with the configurations and overrides each of *)
(* them may be given: small variations of one configuration.                *)
EXTENDS Vserver

CONSTANTS Families, ip4, ip6, a1, a2, a3, a4, p1, p2, b1, b2, b3, h1, h2

VARIABLE family

Entry(hcs) == [mode |-> "DSR", sched |-> 1, low |-> 0, high |-> 0, hcs |-> hcs]
Backend(w) == [enabled |-> TRUE, inService |-> TRUE, weight |-> w, afs |-> AFs]

(* One service with one check for each backend, at one unicast address in   *)
(* each of the families afs.                                                *)
Base(afs, bs) ==
    [enabled |-> TRUE, useFWM |-> FALSE,
     addr |-> [af \in AFs |-> IF af \in afs THEN a3 ELSE Nil], dedicated |-> {},
     entries |-> [p \in Ports |-> IF p = p1 THEN Entry({h1}) ELSE Nil],
     backends |-> [b \in Backends |-> IF b \in bs THEN Backend(1) ELSE Nil],
     hcs |-> {}]
Simple == Base({ip4}, {b1, b2})
WithoutBackend(c, b) == [c EXCEPT !.backends[b] = Nil]
VserverOverrides == [target: {Nil}, state: OverrideStates]

(* Updates of a unicast vserver with a check of its own and one per port:   *)
(* another scheduler and weight, a backend less, a backend disabled,        *)
(* another address, a port less, NAT, disabled.                             *)
Unicast == [Simple EXCEPT !.entries[p2] = Entry({}), !.hcs = {h2}]
UnicastConfigs ==
    {Unicast,
     [Unicast EXCEPT !.entries[p1].sched = 2, !.backends[b1].weight = 2],
     WithoutBackend(Unicast, b2),
     [Unicast EXCEPT !.backends[b1].enabled = FALSE],
     [Unicast EXCEPT !.addr[ip4] = a4],
     [Unicast EXCEPT !.entries[p2] = Nil],
     [Unicast EXCEPT !.entries[p1].mode = "NAT"],
     [Unicast EXCEPT !.enabled = FALSE]}

(* An anycast vserver with a check per port, which moves to another anycast *)
(* address or to a unicast one.                                             *)
MCAnycast == {<<ip4, a1>>, <<ip4, a2>>}
TwoPorts == [Simple EXCEPT !.addr[ip4] = a1, !.entries[p2] = Entry({h2})]
AnycastConfigs ==
    {TwoPorts,
     [TwoPorts EXCEPT !.backends[b1].weight = 2],
     WithoutBackend(TwoPorts, b2),
     [TwoPorts EXCEPT !.addr[ip4] = a2],
     [TwoPorts EXCEPT !.addr[ip4] = a3],
     [TwoPorts EXCEPT !.enabled = FALSE]}

(* Both address families: an address given up or taken, a backend that      *)
(* loses an address, firewall marks.                                        *)
Both == Base(AFs, {b1})
DualConfigs ==
    {Both,
     [Both EXCEPT !.addr[ip6] = Nil],
     [Both EXCEPT !.backends[b1].afs = {ip4}],
     [Both EXCEPT !.dedicated = {<<ip6, a3>>}, !.enabled = FALSE],
     [Both EXCEPT !.useFWM = TRUE, !.entries[p2] = Entry({h2})],
     [Both EXCEPT !.useFWM = TRUE, !.entries[p2] = Entry({h2}),
                  !.backends[b1].enabled = FALSE]}

(* Watermarks of 50 and 100 percent, with a backend out of service. *)
Watermarks ==
    [Base({ip4}, Backends) EXCEPT !.entries[p1].low = 50, !.entries[p1].high = 100,
                                  !.backends[b3].inService = FALSE]

MCConfigs == [unicast |-> UnicastConfigs, anycast |-> AnycastConfigs, dual |-> DualConfigs,
              watermarks |-> {Watermarks}, default |-> {Simple}]
MCOverrides == [unicast |-> VserverOverrides \cup [target: {b1}, state: {"Disable"}],
                anycast |-> VserverOverrides, dual |-> {},
                watermarks |-> [target: Backends, state: {"Disable", "Default"}]
                                 \cup [target: {b2, b3}, state: {"Enable"}],
                default |-> [target: {b1}, state: {"Disable", "Default"}]]
AllConfigs == UNION {MCConfigs[f] : f \in Families}
AllOverrides == UNION {MCOverrides[f] : f \in Families}

MCInit == Init /\ family \in Families
MCNext ==
    /\ UNCHANGED family
    /\ \/ \E c \in CheckKeys, state \in States : HandleCheckNotification(c, state)
       \/ \E c \in MCConfigs[family] : UpdateConfig(c)
       \/ \E o \in MCOverrides[family] : IF o.target = Nil THEN VserverOverride(o.state)
                                         ELSE BackendOverride(o.target, o.state)
       \/ LoopStep
       \/ Stop
MCSpec == MCInit /\ [][MCNext]_<<vars, family>>
=============================================================================

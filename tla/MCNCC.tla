------------------------------- MODULE MCNCC -------------------------------
EXTENDS NCC

(* A VIP of each kind: IPv6 and IPv4 on the interface, on a VLAN, anycast.  *)
(* The one on the VLAN has a NAT entry, the last is balanced by mark.       *)
MCVIPs == {"six", "four", "vlan", "any"}
MCHome(v) == CASE v = "six" -> Lb [] v = "four" -> Lb [] v = "vlan" -> "eth1.2" [] v = "any" -> Dummy
MCIPv6(v) == v = "six"
MCFWM(v) == v = "any"
MCNAT(v) == v = "vlan"

(* The two VIPs that are configured at a time: they meet each other only in *)
(* what the manager's calls do to both, so two of the six pairs are enough. *)
MCPairs == {{"six", "vlan"}, {"four", "any"}}
MCNext == Next /\ \E pair \in MCPairs : {v \in VIPs : v \in held' \/ todo'[v] # <<>>} \subseteq pair
MCSpec == Init /\ [][MCNext]_vars
=============================================================================

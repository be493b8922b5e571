--------------------------- MODULE MCEngineConfig ---------------------------
EXTENDS EngineConfig

MCCluster(t, vs, l, e) == [updated |-> t, vservers |-> vs, vlan |-> l, enabled |-> e]

(* Only the metadata changes; a vserver is replaced by another, one changes *)
(* and the node is taken out; then the change is taken back, the VLAN       *)
(* changes, and the node is put in again.                                   *)
MCVersions ==
    << MCCluster(1, "a" :> 1 @@ "b" :> 1, "l", TRUE),
       MCCluster(2, "a" :> 1 @@ "b" :> 1, "l", TRUE),
       MCCluster(3, "a" :> 2 @@ "c" :> 1, "l", FALSE),
       MCCluster(4, "a" :> 1 @@ "c" :> 1, "m", TRUE) >>
=============================================================================

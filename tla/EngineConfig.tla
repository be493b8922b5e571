---------------------------- MODULE EngineConfig ----------------------------
(* How a cluster configuration comes into force: the configuration notifier *)
(* (engine/config/notifier.go) with its sources and the file that it keeps, *)
(* the engine's manager (engine/core.go), which takes the configurations    *)
(* from the notifier's channel, the goroutine updateVservers that it spawns *)
(* for each of them, and the vservers' goroutines as far as they take       *)
(* configurations and overrides and stop (engine/vserver.go). A cluster is  *)
(* [updated, vservers, vlan, enabled]: the time in its metadata, a          *)
(* configuration by vserver name, a VLAN, and whether this node runs        *)
(* vservers.                                                                *)
EXTENDS Naturals, FiniteSets, SequencesExt

CONSTANTS
    Versions,      \* the clusters, as the configuration servers get them
    Backend,       \* a backend, as the target of an override
    Overridable,   \* the targets of overrides: vservers and Backend
    VsLimit,       \* vsLimit, 10 in the code
    UpdateSize,    \* the capacity of vserver.update, 20 in the code
    OverrideSize,  \* the capacity of vserver.overrideChan, 5 in the code
    MaxEvents,     \* crashes, starts from the peer and overrides
    Unreadable,    \* a file that is not a configuration
    None

VARIABLES
    server,        \* the configuration servers have Versions[1..server]
    disk,          \* the cluster file
    up,            \* the engine is running
    last,          \* Notifier.last: [cluster, proto], proto is not nil
    out,           \* Notifier.outgoing
    save,          \* what the notifier has to write to the file, or None
    cluster,       \* Engine.cluster
    vlan,          \* Engine.vlans
    shutting,      \* the manager is in shutdownVservers
    vservers,      \* Engine.vservers, with the state of their goroutines
    worker,        \* the goroutine updateVservers
    overrides,     \* Engine.overrides
    missed,        \* vservers that were not given a configuration or an override
    events

netVars == <<vlan, shutting, vservers, worker, overrides, missed>>
vars == <<server, disk, up, last, out, save, cluster, netVars, events>>

Empty == [x \in {} |-> None]
NoWorker == [pc |-> "none", cluster |-> None, waits |-> None, todo |-> {}, has |-> None]
Event == events < MaxEvents /\ events' = events + 1

-----------------------------------------------------------------------------
(* The vservers of the next configuration: some are deleted, or, if none    *)
(* has to be, some are added. Which ones is up to Go's maps.                *)
Unlimited(new, old) == {new}      \* for mutation
Some(S) == kSubset(IF Cardinality(S) <= VsLimit THEN Cardinality(S) ELSE VsLimit, S)
rateLimitVS(new, old) ==
    LET deleted == DOMAIN old \ DOMAIN new
        added == DOMAIN new \ DOMAIN old
    IN  IF deleted # {} THEN {Restrict(old, DOMAIN old \ D) : D \in Some(deleted)}
        ELSE {Restrict(new, DOMAIN old \cup A) : A \in Some(added)}

(* NewNotifier, with what bootstrap got. A notification from the peer comes *)
(* without its protobuf, and nil is what is written to the file, which never*)
(* holds an equal cluster: empty slices that come from the peer are nil. It *)
(* also comes with the peer's MetadataOnly.                                 *)
Start(c, metadataOnly, source) ==
    /\ ~up /\ up' = TRUE
    /\ \E vs \in rateLimitVS(c.vservers, Empty) :
         LET note == [c EXCEPT !.vservers = vs]
         IN  /\ last' = [cluster |-> note, proto |-> source # "peer"]
             /\ out' = <<[cluster |-> note, metadataOnly |-> metadataOnly]>>
             /\ disk' = CASE source = "peer" -> Unreadable
                          [] source = "server" /\ disk # note -> c
                          [] OTHER -> disk
    /\ UNCHANGED <<server, save, cluster, netVars>>

(* What a configuration server sends, when it does: a version, perhaps not  *)
(* the newest, or something else. fetch asks one server after the other,    *)
(* their addresses in random order, until one sends a configuration.        *)
fetchFromHost == {Versions[i] : i \in 1..server} \cup {Unreadable}
fetch == fetchFromHost \ {Unreadable}

(* SeesawSync.Config: the last notification of the peer, of any version. *)
Config == [cluster : {Versions[i] : i \in 1..server}, metadataOnly : BOOLEAN]

(* bootstrap: the peer, which may not answer, the file, or a server. *)
StartFromPeer == Event /\ \E note \in Config : Start(note.cluster, note.metadataOnly, "peer")
StartFromDisk ==
    /\ disk \notin {None, Unreadable}
    /\ Start(disk, FALSE, "disk")
    /\ UNCHANGED events
StartFromServer ==
    /\ disk \in {None, Unreadable}
    /\ \E c \in fetch : Start(c, FALSE, "server")
    /\ UNCHANGED events

(* The process ends; the kernel keeps nothing that matters here. *)
Ends ==
    /\ up' = FALSE /\ last' = None /\ out' = <<>> /\ save' = None /\ cluster' = None
    /\ vlan' = None /\ shutting' = FALSE /\ vservers' = Empty /\ worker' = NoWorker
    /\ overrides' = Empty /\ missed' = {}
    /\ UNCHANGED <<server, disk>>

Crash == up /\ Event /\ Ends

Sent(c, vs) ==
    LET old == last.cluster
        note == [c EXCEPT !.vservers = vs]
    IN  /\ out' = <<[cluster |-> note, metadataOnly |-> [c EXCEPT !.updated = old.updated] = old]>>
        /\ last' = [cluster |-> note, proto |-> TRUE]
        /\ save' = c
OutOfDate(c) == last.cluster.updated > c.updated
configCheck ==
    /\ up /\ save = None
    /\ \E c \in fetch :
         \/ ~last.proto /\ Ends
         \/ /\ last.proto /\ ~OutOfDate(c) /\ c # last.cluster /\ out = <<>>
            /\ \E vs \in rateLimitVS(c.vservers, last.cluster.vservers) : Sent(c, vs)
            /\ UNCHANGED <<server, disk, up, cluster, netVars>>
    /\ UNCHANGED events

(* The notifier writes the file, whatever became of the rest. *)
saveConfig ==
    /\ save # None
    /\ disk' = save /\ save' = None
    /\ UNCHANGED <<server, up, last, out, cluster, netVars, events>>

Publish ==
    /\ server < Len(Versions)
    /\ server' = server + 1
    /\ UNCHANGED <<disk, up, last, out, save, cluster, netVars, events>>

-----------------------------------------------------------------------------
(* The manager takes a notification. It is assumed that updateVservers has  *)
(* ended for the one before: the notifier looks at intervals of a minute.   *)
Stopping(vs) == [v \in DOMAIN vs |-> [vs[v] EXCEPT !.quit = TRUE]]
manager ==
    /\ up /\ ~shutting /\ worker.pc = "none" /\ out # <<>>
    /\ LET n == Head(out)
       IN  /\ cluster' = n.cluster
           /\ \/ n.metadataOnly /\ UNCHANGED <<vlan, shutting, vservers, worker>>
              \/ /\ ~n.metadataOnly /\ ~n.cluster.enabled
                 /\ shutting' = TRUE
                 /\ vservers' = Stopping(vservers)
                 /\ UNCHANGED <<vlan, worker>>
              \/ /\ ~n.metadataOnly /\ n.cluster.enabled
                 /\ vlan' = n.cluster.vlan
                 /\ worker' = [NoWorker EXCEPT !.pc = "read"]
                 /\ UNCHANGED <<shutting, vservers>>
    /\ out' = <<>>
    /\ UNCHANGED <<server, disk, up, last, save, overrides, missed, events>>

(* shutdownVservers waits for each, and deleteVLANs follows. *)
shutdownVservers ==
    /\ shutting
    /\ \/ \E v \in DOMAIN vservers :
            /\ vservers[v].stopped
            /\ vservers' = Restrict(vservers, DOMAIN vservers \ {v})
            /\ missed' = missed \ {v}
            /\ UNCHANGED <<vlan, shutting>>
       \/ /\ vservers = Empty
          /\ vlan' = None /\ shutting' = FALSE
          /\ UNCHANGED <<vservers, missed>>
    /\ UNCHANGED <<server, disk, up, last, out, save, cluster, worker, overrides, events>>

(* distributeOverride puts an override into the channels of the vservers    *)
(* that it is for; where one is full, the vserver misses it.                *)
Targets(v) == {v, Backend}
Fits(v) == Len(vservers[v].overrides) < OverrideSize
distributeOverride(t, state) ==
    [v \in DOMAIN vservers |->
       IF t \in Targets(v) /\ Fits(v)
       THEN [vservers[v] EXCEPT !.overrides = Append(@, <<t, state>>)] ELSE vservers[v]]
MissedBy(t) == {v \in DOMAIN vservers : t \in Targets(v) /\ ~Fits(v)}

handleOverride(t, state) ==
    /\ up /\ ~shutting /\ Event
    /\ overrides' = IF state = "default" THEN Restrict(overrides, DOMAIN overrides \ {t})
                    ELSE t :> state @@ overrides
    /\ vservers' = distributeOverride(t, state)
    /\ missed' = missed \cup IF worker.has # None /\ worker.has[1] = t
                             THEN {v \in DOMAIN vservers : t \in Targets(v)}
                             ELSE MissedBy(t)
    /\ UNCHANGED <<server, disk, up, last, out, save, cluster, vlan, shutting, worker>>

-----------------------------------------------------------------------------
(* updateVservers: it reads the cluster, stops the vservers that are not in *)
(* it one after the other, ...                                              *)
WorkerReads ==
    /\ worker.pc = "read"
    /\ worker' = [worker EXCEPT !.pc = "delete", !.cluster = cluster]
    /\ UNCHANGED <<server, disk, up, last, out, save, cluster, vlan, shutting, vservers, overrides,
                   missed, events>>

Deleted == DOMAIN vservers \ DOMAIN worker.cluster.vservers
WorkerStops(v) ==
    /\ worker.pc = "delete" /\ worker.waits = None /\ v \in Deleted
    /\ worker' = [worker EXCEPT !.waits = v]
    /\ vservers' = [vservers EXCEPT ![v].quit = TRUE]
    /\ UNCHANGED <<server, disk, up, last, out, save, cluster, vlan, shutting, overrides, missed,
                   events>>

WorkerDeletes(v) ==
    /\ worker.waits = v /\ vservers[v].stopped
    /\ worker' = [worker EXCEPT !.waits = None]
    /\ vservers' = Restrict(vservers, DOMAIN vservers \ {v})
    /\ missed' = missed \ {v}
    /\ UNCHANGED <<server, disk, up, last, out, save, cluster, vlan, shutting, overrides, events>>

(* ... spawns the new ones, hands out the overrides, one after the other,   *)
NewVserver == [config |-> None, updates |-> <<>>, overridden |-> Empty, overrides |-> <<>>,
               quit |-> FALSE, stopped |-> FALSE]
WorkerSpawns ==
    /\ worker.pc = "delete" /\ Deleted = {}
    /\ vservers' = vservers @@ [v \in DOMAIN worker.cluster.vservers |-> NewVserver]
    /\ worker' = [worker EXCEPT !.pc = "override", !.todo = DOMAIN overrides]
    /\ UNCHANGED <<server, disk, up, last, out, save, cluster, vlan, shutting, overrides, missed,
                   events>>

WorkerTakes(t) ==
    /\ worker.pc = "override" /\ worker.has = None /\ t \in worker.todo \cap DOMAIN overrides
    /\ worker' = [worker EXCEPT !.has = <<t, overrides[t]>>, !.todo = @ \ {t}]
    /\ UNCHANGED <<server, disk, up, last, out, save, cluster, vlan, shutting, vservers, overrides,
                   missed, events>>

WorkerDistributes ==
    /\ worker.has # None
    /\ vservers' = distributeOverride(worker.has[1], worker.has[2])
    /\ missed' = missed \cup MissedBy(worker.has[1])
    /\ worker' = [worker EXCEPT !.has = None]
    /\ UNCHANGED <<server, disk, up, last, out, save, cluster, vlan, shutting, overrides, events>>

(* ... and the configurations: updateConfig passes over one that is in      *)
(* force, and over any when the channel is full.                            *)
updateConfig(x, new) ==
    IF new = x.config \/ Len(x.updates) = UpdateSize THEN x
    ELSE [x EXCEPT !.updates = Append(@, new)]
InTheEnd(x) == IF x.updates = <<>> THEN x.config ELSE Last(x.updates)
WorkerEnds ==
    /\ worker.pc = "override" /\ worker.has = None /\ worker.todo \cap DOMAIN overrides = {}
    /\ LET wanted == worker.cluster.vservers
       IN  /\ vservers' = [v \in DOMAIN vservers |-> updateConfig(vservers[v], wanted[v])]
           /\ missed' = missed \cup {v \in DOMAIN vservers : InTheEnd(vservers'[v]) # wanted[v]}
    /\ worker' = NoWorker
    /\ UNCHANGED <<server, disk, up, last, out, save, cluster, vlan, shutting, overrides, events>>

(* A vserver takes a configuration or an override, or stops. An override,   *)
(* or quit, before the first configuration ends the engine in a panic: both *)
(* read the name of the vserver from its configuration.                     *)
VserverUpdate(v) ==
    /\ vservers[v].updates # <<>> /\ ~vservers[v].stopped
    /\ vservers' = [vservers EXCEPT ![v].config = Head(vservers[v].updates), ![v].updates = Tail(@)]
    /\ UNCHANGED <<server, disk, up, last, out, save, cluster, vlan, shutting, worker, overrides,
                   missed, events>>

VserverOverride(v) ==
    /\ vservers[v].overrides # <<>> /\ vservers[v].config # None /\ ~vservers[v].stopped
    /\ LET o == Head(vservers[v].overrides)
       IN  vservers' = [vservers EXCEPT ![v].overridden = o[1] :> o[2] @@ @, ![v].overrides = Tail(@)]
    /\ UNCHANGED <<server, disk, up, last, out, save, cluster, vlan, shutting, worker, overrides,
                   missed, events>>

VserverQuits(v) ==
    /\ vservers[v].quit /\ vservers[v].config # None /\ ~vservers[v].stopped
    /\ vservers' = [vservers EXCEPT ![v].stopped = TRUE]
    /\ UNCHANGED <<server, disk, up, last, out, save, cluster, vlan, shutting, worker, overrides,
                   missed, events>>

VserverPanics(v) ==
    /\ vservers[v].config = None /\ (vservers[v].quit \/ vservers[v].overrides # <<>>)
    /\ Event /\ Ends

-----------------------------------------------------------------------------
Init ==
    /\ server = 1
    /\ disk = None
    /\ up = FALSE /\ last = None /\ out = <<>> /\ save = None /\ cluster = None
    /\ vlan = None /\ shutting = FALSE /\ vservers = Empty /\ worker = NoWorker
    /\ overrides = Empty /\ missed = {}
    /\ events = 0

Names == UNION {DOMAIN Versions[i].vservers : i \in DOMAIN Versions}
Starts == StartFromPeer \/ StartFromDisk \/ StartFromServer
Vserver(v) == VserverUpdate(v) \/ VserverOverride(v) \/ VserverQuits(v)
Worker ==
    \/ WorkerReads \/ WorkerSpawns \/ WorkerDistributes \/ WorkerEnds
    \/ \E v \in DOMAIN vservers : WorkerStops(v) \/ WorkerDeletes(v)
    \/ \E t \in DOMAIN overrides : WorkerTakes(t)

Next ==
    \/ Publish \/ Starts \/ Crash \/ configCheck \/ saveConfig
    \/ manager \/ shutdownVservers
    \/ \E t \in Overridable, state \in {"default", "disable"} : handleOverride(t, state)
    \/ Worker
    \/ \E v \in DOMAIN vservers : Vserver(v) \/ VserverPanics(v)

(* The goroutines go on, the engine is started again, and configCheck       *)
(* happens again and again, now and then with an answer from a server that  *)
(* is not behind.                                                           *)
Fairness ==
    /\ WF_vars(Starts) /\ WF_vars(saveConfig) /\ WF_vars(manager \/ shutdownVservers)
    /\ WF_vars(Worker)
    /\ \A v \in Names : WF_vars(v \in DOMAIN vservers /\ Vserver(v))
    /\ SF_vars(configCheck /\ (up' => out'[1].cluster.updated = Versions[server].updated))

Spec == Init /\ [][Next]_vars /\ Fairness

-----------------------------------------------------------------------------
(* The engine's cluster loses or gains at most VsLimit vservers at a time,  *)
(* and never both, whatever versions were skipped in between.               *)
NeverAllAtOnce ==
    [][cluster # None /\ cluster' # None =>
         LET old == DOMAIN cluster.vservers
             new == DOMAIN cluster'.vservers
         IN  /\ Cardinality(old \ new) <= VsLimit /\ Cardinality(new \ old) <= VsLimit
             /\ old \subseteq new \/ new \subseteq old]_vars

(* When nothing is left to do the vservers are those of the cluster, with   *)
(* its configurations and with the overrides in force. The exceptions are   *)
(* vservers that missed one because a channel was full, because it equals   *)
(* the one in force while another was waiting, or because updateVservers    *)
(* handed out an override that was just changing; and there are none at all *)
(* after a start from a peer that last took a change of the metadata.       *)
Quiet ==
    /\ up /\ cluster # None /\ out = <<>> /\ ~shutting /\ worker.pc = "none"
    /\ \A v \in DOMAIN vservers : vservers[v].updates = <<>> /\ vservers[v].overrides = <<>>

=============================================================================

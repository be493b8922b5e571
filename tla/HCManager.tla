----------------------------- MODULE HCManager -----------------------------
(* The engine's healthcheck manager (engine/healthcheck.go) with its mark   *)
(* allocator (engine/core.go), the vservers as its clients, and the IPVS    *)
(* services by which the kernel routes marked probes. The manager turns the *)
(* checks of all vservers into healthcheck configurations under ids, one    *)
(* for all the checks that would probe the same thing, and passes what the  *)
(* healthcheck server reports under an id to these checks. A check is       *)
(* [vserver, service, backend, mode, name, hc]; enable, disable and expire  *)
(* have no callers in the engine and are left out.                          *)
EXTENDS Naturals, Sequences, FiniteSets, SequencesExt, Functions

CONSTANTS
    Vservers,
    CheckSets,     \* CheckSets[v]: the sets of checks v may come to have
    Valid(_),      \* newConfig accepts the healthcheck of this check
    Marks,         \* the pool of the mark allocator, a sequence; 16000 in the code
    MaxEvents,     \* reconfigurations, crashes and other events, in all
    None

VARIABLES
    own,           \* by vserver: the checks it has
    vcc,           \* healthcheckManager.vcc, to which the vservers send them
    vserverChecks, \* healthcheckManager.vserverChecks
    ids,           \* checker key -> id
    cfgs,          \* id -> configuration
    checks,        \* id -> the checks it stands for
    next,          \* the next id, after the process the ids are from
    marks,         \* mark key -> mark
    pool,          \* markAllocator.marks
    ipvs,          \* mark -> mark key: the IPVS services with a firewall mark
    up,            \* the engine is running
    status,        \* by check of a vserver: what it was last told
    events         \* how many there were

hcmVars == <<own, vcc, vserverChecks, ids, cfgs, checks, next, marks, pool, ipvs, up, status,
             events>>

Empty == [x \in {} |-> None]
Unknown == [state |-> "Unknown", probed |-> None]

-----------------------------------------------------------------------------
(* What identifies a check to its vserver, a probe, and a mark. *)
CheckKey(c) == [c EXCEPT !.vserver = None, !.hc = None]
dedup(c) ==
    [c EXCEPT !.vserver = None, !.name = None,
              !.service = IF c.mode = "plain" THEN None ELSE @]
MarkKey(c) == [backend |-> c.backend, mode |-> c.mode]

(* markAllocator.get and put, on the manager's state as a record. An        *)
(* allocator without marks is fatal.                                        *)
get(s) ==
    IF s.pool = <<>> THEN [s EXCEPT !.fatal = TRUE]
    ELSE [s EXCEPT !.mark = Head(s.pool), !.pool = Tail(@)]
put(s, mark) == [s EXCEPT !.pool = Append(@, mark)]

markBackend(s, k) ==
    LET t == get(s)
    IN  IF k \in DOMAIN s.marks THEN s
        ELSE IF t.fatal THEN t
        ELSE [t EXCEPT !.marks = (k :> t.mark) @@ @, !.ipvs = (t.mark :> k) @@ @]
unmarkForgets(s, k) ==      \* for mutation
    [put(s, s.marks[k]) EXCEPT !.marks = Restrict(@, DOMAIN @ \ {k})]
unmarkBackend(s, k) ==
    [put(s, s.marks[k]) EXCEPT !.marks = Restrict(@, DOMAIN @ \ {k}),
                               !.ipvs = Restrict(@, DOMAIN @ \ {s.marks[k]})]
unmarkAllBackends(s) == FoldLeft(unmarkBackend, s, SetToSeq(DOMAIN s.marks))

pruneMarks(s) ==
    LET marked == {MarkKey(c) : c \in {d \in UNION Range(s.checks) : d.mode # "plain"}}
    IN  FoldLeft(unmarkBackend, s, SetToSeq(DOMAIN s.marks \ marked))

(* newConfig: the mark is taken before the healthcheck is looked at. *)
newConfig(s, id, c) ==
    LET t == IF c.mode = "plain" THEN s ELSE markBackend(s, MarkKey(c))
    IN  IF t.fatal \/ ~Valid(c) THEN t
        ELSE [t EXCEPT !.cfgs = (id :> [key |-> dedup(c),
                                        mark |-> IF c.mode = "plain" THEN None
                                                 ELSE t.marks[MarkKey(c)]]) @@ @]

(* One turn of the loop of buildMaps: old are the maps before. Checks with  *)
(* the same new checker key get an id each, the last of which is remembered.*)
mapCheck(old, s, c) ==
    LET key == dedup(c)
        id == IF key \in DOMAIN old.ids THEN old.ids[key] ELSE s.next
        t == [s EXCEPT !.next = IF key \in DOMAIN old.ids THEN @ ELSE [@ EXCEPT ![2] = @ + 1]]
        u == IF id \in DOMAIN old.cfgs
             THEN [t EXCEPT !.cfgs = (id :> old.cfgs[id]) @@ @]
             ELSE newConfig(t, id, c)
    IN  IF s.fatal \/ id \notin DOMAIN u.cfgs THEN u
        ELSE [u EXCEPT !.ids = (key :> id) @@ @,
                       !.checks = (id :> (IF id \in DOMAIN @ THEN @[id] ELSE {}) \cup {c}) @@ @]

Maps == [ids |-> ids, cfgs |-> cfgs, checks |-> checks, next |-> next,
         marks |-> marks, pool |-> pool, ipvs |-> ipvs, mark |-> None, fatal |-> FALSE]

(* One check for each key: which one, when vservers share a key, and in     *)
(* what order they come, is up to Go's maps.                                *)
AllChecks(vc) ==
    LET all == UNION Range(vc)
    IN  {S \in SUBSET all : /\ \A c \in all : \E d \in S : CheckKey(c) = CheckKey(d)
                            /\ \A c, d \in S : CheckKey(c) = CheckKey(d) => c = d}

(* What the maps may become with the checks vc of the vservers. *)
mapChecks(old, order) ==
    FoldLeft(LAMBDA t, c : mapCheck(old, t, c),
             [old EXCEPT !.ids = Empty, !.cfgs = Empty, !.checks = Empty], order)
buildMaps(vc) ==
    {IF s.fatal THEN s ELSE pruneMarks(s) :
       s \in {mapChecks(Maps, order) : order \in UNION {SetToSeqs(S) : S \in AllChecks(vc)}}}

-----------------------------------------------------------------------------
(* A configuration gives every vserver its checks, which it first sends to  *)
(* the manager.                                                             *)
Configurations ==
    {f \in [Vservers -> UNION Range(CheckSets)] : \A v \in Vservers : f[v] \in CheckSets[v]}
FirstUpdates(f) == SetToSeq({[vserver |-> v, checks |-> f[v]] : v \in Vservers})

HcmInit ==
    /\ own \in Configurations
    /\ vcc = FirstUpdates(own)
    /\ vserverChecks = [v \in Vservers |-> {}]
    /\ ids = Empty /\ cfgs = Empty /\ checks = Empty
    /\ next = <<0, 0>>
    /\ marks = Empty /\ pool = Marks /\ ipvs = Empty
    /\ up = TRUE
    /\ status = [c \in UNION Range(own) |-> Unknown]
    /\ events = 0

Event == events < MaxEvents /\ events' = events + 1

(* A vserver has another set of checks, from a configuration or because it  *)
(* stops, and sends it to the manager. Its new checks are Unknown.          *)
VserverUpdate(v) ==
    /\ up /\ Event
    /\ \E S \in CheckSets[v] \ {own[v]} :
         /\ own' = [own EXCEPT ![v] = S]
         /\ vcc' = Append(vcc, [vserver |-> v, checks |-> S])
         /\ status' = [c \in (DOMAIN status \ own[v]) \cup S |->
                         IF c \in DOMAIN status THEN status[c] ELSE Unknown]
    /\ UNCHANGED <<vserverChecks, ids, cfgs, checks, next, marks, pool, ipvs, up>>

Down == up' = FALSE /\ own' = [v \in Vservers |-> {}] /\ status' = Empty /\ vcc' = <<>>

(* run and update: the manager takes the next set of checks. *)
Update ==
    /\ up /\ vcc # <<>>
    /\ vserverChecks' = [vserverChecks EXCEPT ![Head(vcc).vserver] = Head(vcc).checks]
    /\ \E s \in buildMaps(vserverChecks') :
         /\ ids' = s.ids /\ cfgs' = s.cfgs /\ checks' = s.checks /\ next' = s.next
         /\ marks' = s.marks /\ pool' = s.pool /\ ipvs' = s.ipvs
         /\ IF s.fatal THEN Down
            ELSE vcc' = Tail(vcc) /\ UNCHANGED <<up, own, status>>
    /\ UNCHANGED events

(* The engine ends: it crashes, or is shut down, whereby the vservers give  *)
(* up their checks and the manager its marks.                               *)
EngineCrash ==
    /\ up /\ Event
    /\ Down
    /\ UNCHANGED <<vserverChecks, ids, cfgs, checks, next, marks, pool, ipvs>>

Shutdown ==
    /\ up /\ Event
    /\ Down
    /\ LET s == unmarkAllBackends(Maps)
       IN  marks' = s.marks /\ pool' = s.pool /\ ipvs' = s.ipvs
    /\ UNCHANGED <<vserverChecks, ids, cfgs, checks, next>>

(* A new engine flushes IPVS and takes its ids from another range, made     *)
(* from its process id; two processes in a row differ in its lower 16 bits. *)
(* Its configuration may be another one.                                    *)
SameIds == <<0, 0>>      \* for mutation
FirstId == <<next[1] + 1, 0>>
EngineStart ==
    /\ ~up
    /\ up' = TRUE
    /\ vserverChecks' = [v \in Vservers |-> {}]
    /\ ids' = Empty /\ cfgs' = Empty /\ checks' = Empty
    /\ next' = FirstId
    /\ marks' = Empty /\ pool' = Marks /\ ipvs' = Empty
    /\ own' \in Configurations
    /\ vcc' = FirstUpdates(own')
    /\ status' = [c \in UNION Range(own') |-> Unknown]
    /\ UNCHANGED events

(* queueHealthState, for the notifications of one call of HealthState: what *)
(* the vservers make of the statuses they are given. Ids the manager does   *)
(* not know, and checks a vserver has dropped, are passed over.             *)
Told(st, n) ==
    IF n.id \notin DOMAIN cfgs THEN st
    ELSE [c \in DOMAIN st |-> IF c \in checks[n.id] THEN [state |-> n.state, probed |-> n.probed]
                              ELSE st[c]]
HealthState(batch) ==
    /\ status' = FoldLeft(Told, status, batch)
    /\ UNCHANGED <<own, vcc, vserverChecks, ids, cfgs, checks, next, marks, pool, ipvs, up>>
=============================================================================

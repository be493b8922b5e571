------------------------------- MODULE HANode -------------------------------
(* One HA node (ha/core.go) and the engine it reports to, without time: the *)
(* goroutines of Node.Run (the state machine, the sender, the receiver, the *)
(* status reporter, the configuration checker, the socket watcher) and the  *)
(* signal handler, their unbuffered channels, and the calls to the engine,  *)
(* which may fail before or after the engine has acted on them.             *)
EXTENDS VRRP

CONSTANTS
    Priority, Preempt,        \* of this node
    LocalAddr, RemoteAddr,    \* as numbers
    Priorities,               \* of the advertisements that arrive
    QueueCap,                 \* of recvChannel (20 in the code)
    StatusReportMaxFailures,
    ConfigCheckMaxFailures,
    Troubles,                 \* what may befall the node: see below
    Nil

ASSUME NodeAssumption ==
    /\ Priority \in 1..255 /\ Preempt \in BOOLEAN
    /\ LocalAddr \in Nat /\ RemoteAddr \in Nat
    /\ Priorities \subseteq 0..255
    /\ QueueCap \in Nat \ {0}
    /\ StatusReportMaxFailures \in Nat /\ ConfigCheckMaxFailures \in Nat
    /\ Troubles \subseteq {"signal", "socket", "config"}
    /\ Nil \notin {"BACKUP", "LEADER", "SHUTDOWN", "UNKNOWN"}

VARIABLES
    state,        \* haStatus.State
    main,         \* where Run is
    senders,      \* the number of sendAdvertisements goroutines at each place
    recv,         \* where receiveAdvertisements is
    queue,        \* recvChannel: the priorities of the advertisements
    report,       \* reportStatus: its place, the status and the answer of
                  \* the call it makes, and its failures in a row
    check,        \* checkConfig: its place and its failures in a row
    watch,        \* where watchEngine is
    sig,          \* where the signal handler is
    stateChan, statusChan, engineState, failoverPending  \* the engine

haVars == <<state, main, senders, recv, queue, report, check, watch, sig>>
engineVars == <<stateChan, statusChan, engineState, failoverPending>>
vars == <<haVars, engineVars>>

States == {"BACKUP", "LEADER", "SHUTDOWN"}
Dead == main \in {"exited", "fatal"}

Senders(idle, send, last) == [idle |-> idle, send |-> send, last |-> last]

(* The goroutines and channels of a process that starts, or has ended. *)
Fresh ==
    [senders |-> Senders(0, 0, 0),
     report |-> [pc |-> "idle", status |-> Nil, failover |-> FALSE, failures |-> 0],
     check |-> [pc |-> "idle", failures |-> 0]]

Init ==
    /\ state = "BACKUP" /\ main = "select"
    /\ senders = Fresh.senders
    /\ recv = "receive" /\ queue = <<>>
    /\ report = Fresh.report /\ check = Fresh.check
    /\ watch = "watching" /\ sig = "idle"
    /\ stateChan = Nil /\ statusChan = Nil
    /\ engineState = "UNKNOWN" /\ failoverPending = FALSE

(* The process ends, with all of its goroutines. *)
Exit(how) ==
    /\ main' = how /\ state' = "SHUTDOWN"
    /\ senders' = Fresh.senders
    /\ recv' = "receive" /\ queue' = <<>>
    /\ report' = Fresh.report /\ check' = Fresh.check
    /\ watch' = "watching" /\ sig' = "idle"
    /\ UNCHANGED engineVars

(* log.Fatalf, in any goroutine *)
Fatal == Exit("fatal")

-----------------------------------------------------------------------------
(* runOnce: doBackupTasks or doMasterTasks waits for one of its channels.   *)

(* An advertisement, also one found in the queue after the timeout. *)
MainAdvert ==
    /\ main = "select" /\ queue # <<>>
    /\ queue' = Tail(queue)
    /\ main' =
         CASE state = "LEADER" /\ GivesWay(Priority, LocalAddr, RemoteAddr, Head(queue)) ->
                "becomeBackup"
           [] state = "BACKUP" /\ TakesOver(Priority, Preempt, Head(queue)) -> "becomeMaster"
           [] OTHER -> "select"
    /\ UNCHANGED <<state, senders, recv, report, check, watch, sig, engineVars>>

(* No advertisement for the master down interval. *)
MainTimeout ==
    /\ main = "select" /\ state = "BACKUP" /\ queue = <<>>
    /\ main' = "becomeMaster"
    /\ UNCHANGED <<state, senders, recv, queue, report, check, watch, sig, engineVars>>

(* A goroutine in Shutdown hands over its token. *)
MainShutdown ==
    /\ main = "select" /\ main' = "becomeShutdown"
    /\ \/ report.pc = "shutdown" /\ report' = [report EXCEPT !.pc = "idle"]
          /\ UNCHANGED <<watch, sig>>
       \/ watch = "shutdown" /\ watch' = "done" /\ UNCHANGED <<report, sig>>
       \/ sig = "shutdown" /\ sig' = "idle" /\ UNCHANGED <<report, watch>>
    /\ UNCHANGED <<state, senders, recv, queue, check, engineVars>>

(* A goroutine hands over its error: runOnce refuses the transition to      *)
(* ERROR, Run returns and main is fatal.                                    *)
MainError ==
    /\ main = "select"
    /\ recv = "full" \/ report.pc = "giveup" \/ check.pc = "error"
    /\ Fatal

(* becomeMaster, becomeBackup and becomeShutdown first call the engine,     *)
(* which takes the state if its channel is empty. The error is ignored.     *)
Target == [becomeMaster |-> "LEADER", becomeBackup |-> "BACKUP", becomeShutdown |-> "SHUTDOWN"]
Return == [becomeMaster |-> "master", becomeBackup |-> "backup", becomeShutdown |-> "shutdown"]

(* Engine.setHAState and setHAStatus: the channels have room for one. *)
setHAState(s) == stateChan = Nil /\ stateChan' = s
setHAStatus(s) == statusChan = Nil /\ statusChan' = s

EngineHAState ==
    /\ main \in DOMAIN Target
    /\ main' = Return[main]
    /\ setHAState(Target[main]) \/ UNCHANGED stateChan
    /\ UNCHANGED <<state, senders, recv, queue, report, check, watch, sig,
                   statusChan, engineState, failoverPending>>

BecomeMasterTwice ==                           \* mutant: the state is not set
    /\ main = "master"
    /\ senders' = Senders(senders.idle + 1, senders.send, senders.last)
    /\ main' = "select"
    /\ UNCHANGED <<state, recv, queue, report, check, watch, sig, engineVars>>
BecomeMaster ==
    /\ main = "master"
    /\ senders' = Senders(senders.idle + 1, senders.send, senders.last)
    /\ state' = "LEADER" /\ main' = "select"
    /\ UNCHANGED <<recv, queue, report, check, watch, sig, engineVars>>

(* The sender takes the state from stopSenderChannel and ends. *)
BecomeBackup ==
    /\ main = "backup" /\ senders.idle > 0
    /\ senders' = Senders(senders.idle - 1, senders.send, senders.last)
    /\ state' = "BACKUP" /\ main' = "select"
    /\ UNCHANGED <<recv, queue, report, check, watch, sig, engineVars>>

(* The sender takes the state from stopSenderChannel and sends the shutdown *)
(* advertisement, while Run sleeps.                                         *)
StopSender ==
    /\ main = "shutdown" /\ state = "LEADER" /\ senders.idle > 0
    /\ senders' = Senders(senders.idle - 1, senders.send, senders.last + 1)
    /\ main' = "sleep"
    /\ UNCHANGED <<state, recv, queue, report, check, watch, sig, engineVars>>

BecomeShutdownStuck ==                         \* mutant: it always waits for a sender
    /\ main = "sleep"
    /\ Exit("exited")
BecomeShutdown ==
    /\ main = "sleep" \/ (main = "shutdown" /\ state # "LEADER")
    /\ Exit("exited")

-----------------------------------------------------------------------------
(* sendAdvertisements *)
SenderTick ==
    /\ ~Dead /\ senders.idle > 0
    /\ senders' = Senders(senders.idle - 1, senders.send + 1, senders.last)
    /\ UNCHANGED <<state, main, recv, queue, report, check, watch, sig, engineVars>>

SenderSent ==
    /\ ~Dead /\ senders.send > 0
    /\ senders' = Senders(senders.idle + 1, senders.send - 1, senders.last)
    /\ UNCHANGED <<state, main, recv, queue, report, check, watch, sig, engineVars>>

(* The error reaches Run, which ends, or is fatal at once. *)
SenderError == ~Dead /\ senders.send > 0 /\ Fatal

SenderLast ==
    /\ ~Dead /\ senders.last > 0
    /\ senders' = Senders(senders.idle, senders.send, senders.last - 1)
    /\ UNCHANGED <<state, main, recv, queue, report, check, watch, sig, engineVars>>

(* receiveAdvertisements and queueAdvertisement. Advertisements of another  *)
(* version or VRID, and those the connection ignores, change nothing.       *)
ReceiveAdvert(p) ==
    /\ ~Dead /\ recv = "receive"
    /\ IF Len(queue) < QueueCap
       THEN queue' = Append(queue, p) /\ UNCHANGED recv
       ELSE recv' = "full" /\ UNCHANGED queue
    /\ UNCHANGED <<state, main, senders, report, check, watch, sig, engineVars>>

ReceiveError == ~Dead /\ recv = "receive" /\ Fatal

-----------------------------------------------------------------------------
(* reportStatus *)
ReportCall ==
    /\ ~Dead /\ report.pc \in {"idle", "retry"}
    /\ report' = [report EXCEPT !.pc = "call", !.status = state]
    /\ UNCHANGED <<state, main, senders, recv, queue, check, watch, sig, engineVars>>

(* SeesawEngine.HAUpdate *)
HAUpdate ==
    /\ ~Dead /\ report.pc = "call"
    /\ setHAStatus(report.status)
    /\ report' = [report EXCEPT !.pc = "reply", !.status = Nil,
                                !.failover = failoverPending]
    /\ failoverPending' = FALSE
    /\ UNCHANGED <<state, main, senders, recv, queue, check, watch, sig,
                   stateChan, engineState>>

ReportReply ==
    /\ ~Dead /\ report.pc = "reply"
    /\ report' = [report EXCEPT !.pc = IF report.failover /\ state = "LEADER"
                                       THEN "shutdown" ELSE "idle",
                                !.failover = FALSE, !.failures = 0]
    /\ UNCHANGED <<state, main, senders, recv, queue, check, watch, sig, engineVars>>

(* The call fails: before it reached the engine, in the engine because its  *)
(* channel is full, or on the way back.                                     *)
ReportErrorForever ==                          \* mutant: it never gives up
    /\ ~Dead /\ report.pc \in {"call", "reply"}
    /\ report' = [report EXCEPT !.pc = "retry", !.status = Nil, !.failover = FALSE]
    /\ UNCHANGED <<state, main, senders, recv, queue, check, watch, sig, engineVars>>
ReportError ==
    /\ ~Dead /\ report.pc \in {"call", "reply"}
    /\ report' = [report EXCEPT !.pc = IF report.failures < StatusReportMaxFailures
                                       THEN "retry" ELSE "giveup",
                                !.status = Nil, !.failover = FALSE, !.failures = @ + 1]
    /\ UNCHANGED <<state, main, senders, recv, queue, check, watch, sig, engineVars>>

(* What comes of asking the engine for the HA configuration. *)
HAConfig == {"same", "changed", "error"}

CheckConfig ==
    /\ ~Dead /\ check.pc = "idle" /\ "config" \in Troubles
    /\ \E answer \in HAConfig :
         check' = [pc |-> IF answer = "changed" \/ (answer = "error" /\ check.failures >= ConfigCheckMaxFailures)
                         THEN "error" ELSE "idle",
                   failures |-> IF answer = "error" THEN check.failures + 1 ELSE 0]
    /\ UNCHANGED <<state, main, senders, recv, queue, report, watch, sig, engineVars>>

(* watchEngine: the socket of the engine cannot be watched or is removed. *)
WatchEngine ==
    /\ ~Dead /\ watch = "watching" /\ "socket" \in Troubles
    /\ watch' = "shutdown"
    /\ UNCHANGED <<state, main, senders, recv, queue, report, check, sig, engineVars>>

(* fsnotify.NewWatcher fails *)
WatchError == ~Dead /\ watch = "watching" /\ "socket" \in Troubles /\ Fatal

(* ShutdownHandler *)
Signal ==
    /\ ~Dead /\ sig = "idle" /\ "signal" \in Troubles
    /\ sig' = "shutdown"
    /\ UNCHANGED <<state, main, senders, recv, queue, report, check, watch, engineVars>>

-----------------------------------------------------------------------------
(* The engine: Engine.manager takes a state or a status, in any order when  *)
(* both are there, and gives up on an HA node it has not heard of.          *)
EngineState ==
    /\ stateChan # Nil
    /\ engineState' = stateChan /\ stateChan' = Nil
    /\ UNCHANGED <<haVars, statusChan, failoverPending>>

EngineStatus ==
    /\ statusChan # Nil
    /\ engineState' = statusChan /\ statusChan' = Nil
    /\ UNCHANGED <<haVars, stateChan, failoverPending>>

EngineTimeoutNever ==                          \* mutant: a leader never times out
    /\ engineState \notin {"UNKNOWN", "LEADER"}
    /\ engineState' = "UNKNOWN"
    /\ UNCHANGED <<haVars, stateChan, statusChan, failoverPending>>
EngineTimeout ==
    /\ engineState # "UNKNOWN"
    /\ engineState' = "UNKNOWN"
    /\ UNCHANGED <<haVars, stateChan, statusChan, failoverPending>>

(* haManager.requestFailover *)
RequestFailover ==
    /\ engineState = "LEADER" /\ ~failoverPending
    /\ failoverPending' = TRUE
    /\ UNCHANGED <<haVars, stateChan, statusChan, engineState>>

Main == MainAdvert \/ MainTimeout \/ MainShutdown \/ MainError \/ EngineHAState
        \/ BecomeMaster \/ BecomeBackup \/ StopSender \/ BecomeShutdown
Sender == SenderTick \/ SenderSent \/ SenderError \/ SenderLast
Receiver == (\E p \in Priorities : ReceiveAdvert(p)) \/ ReceiveError
Reporter == ReportCall \/ HAUpdate \/ ReportReply \/ ReportError
Others == CheckConfig \/ WatchEngine \/ WatchError \/ Signal
Engine == EngineState \/ EngineStatus \/ EngineTimeout \/ RequestFailover

Next == Main \/ Sender \/ Receiver \/ Reporter \/ Others \/ Engine

(* The Go scheduler runs every goroutine that can run, select chooses among *)
(* ready channels at random, calls to the engine have a deadline. The       *)
(* timeout of the engine is certain only when no report refreshes it.       *)
Fairness ==
    /\ WF_vars(Main) /\ SF_vars(MainShutdown) /\ SF_vars(MainError)
    /\ SF_vars(BecomeBackup) /\ SF_vars(StopSender)
    /\ WF_vars(SenderTick) /\ WF_vars(SenderSent \/ SenderError)
    /\ WF_vars(Reporter)
    /\ WF_vars(EngineState) /\ WF_vars(EngineStatus) /\ WF_vars(Dead /\ EngineTimeout)

Spec == Init /\ [][Next]_vars
FairSpec == Spec /\ Fairness
-----------------------------------------------------------------------------
(* Every channel and every goroutine is in one of its states. *)
TypeOK ==
    /\ state \in States
    /\ main \in {"select", "becomeMaster", "becomeBackup", "becomeShutdown",
                "master", "backup", "shutdown", "sleep", "exited", "fatal"}
    /\ senders \in [idle: Nat, send: Nat, last: Nat]
    /\ recv \in {"receive", "full"}
    /\ queue \in Seq(Priorities) /\ Len(queue) <= QueueCap
    /\ report \in [pc: {"idle", "call", "reply", "retry", "shutdown", "giveup"},
                   status: States \cup {Nil}, failover: BOOLEAN, failures: 0..(StatusReportMaxFailures + 1)]
    /\ check \in [pc: {"idle", "error"}, failures: 0..(ConfigCheckMaxFailures + 1)]
    /\ watch \in {"watching", "shutdown", "done"}
    /\ sig \in {"idle", "shutdown"}
    /\ stateChan \in States \cup {Nil} /\ statusChan \in States \cup {Nil}
    /\ engineState \in States \cup {"UNKNOWN"}
    /\ failoverPending \in BOOLEAN

(* A node advertises if and only if it is the leader: becomeMaster never    *)
(* starts a second sender and becomeBackup and becomeShutdown never leave   *)
(* one running, whatever the order of advertisements, timeouts, shutdowns   *)
(* and calls. Only a node that is leaving sends the shutdown advertisement. *)
SenderMatchesState ==
    /\ ~Dead => senders.idle + senders.send =
                   IF state = "LEADER" /\ main # "sleep" THEN 1 ELSE 0
    /\ senders.idle + senders.send + senders.last <= 1
    /\ senders.last > 0 => main = "sleep"

(* reportStatus tells the engine what becomeMaster and becomeBackup failed  *)
(* to tell it, or what an older report that came late undid, or dies trying.*)
EngineLearns ==
    \A s \in {"BACKUP", "LEADER"} :
        state = s ~> (engineState = s \/ state # s \/ Dead)

(* Whoever calls Shutdown, and whoever puts an error on errChannel, ends    *)
(* the node: no goroutine that Run waits for waits for Run.                 *)
Asked ==
    \/ sig = "shutdown" \/ watch = "shutdown" \/ report.pc \in {"shutdown", "giveup"}
    \/ check.pc = "error" \/ recv = "full"
AskedEnds == Asked ~> Dead

(* The engine does not lead for an HA node that is gone: whatever the node  *)
(* left in the channels of the engine, the engine times out.                *)
EngineStopsLeading == Dead ~> [](engineState # "LEADER")
=============================================================================

--------------------------- MODULE MCHealthchecks ---------------------------
(* Three instances in one, told apart by what may happen. In the first the  *)
(* engine is reconfigured, crashes or is shut down, and its check moves     *)
(* from one backend to another, both of which need the one mark. In the     *)
(* second the check is dropped before the other one comes, which is given   *)
(* its mark while the healthcheck server still runs the first. In the third *)
(* a plain check comes to be shared by two services or is replaced by a     *)
(* check with a mark, backends fail and recover, and the answer to          *)
(* HealthState is lost. In the first two the manager's ticker is slower than*)
(* the notifier: it does not tick while a batch is being collected.         *)
EXTENDS Healthchecks

CONSTANTS v1, s1, s2, b1, b2

VARIABLE family

mcVars == <<vars, family>>

MCCheck(v, s, b, m, n) ==
    [vserver |-> v, service |-> s, backend |-> b, mode |-> m, name |-> n, hc |-> "tcp"]
MCDsr(b) == MCCheck(v1, s1, b, "dsr", "1")
MCPlain == MCCheck(v1, s1, b1, "plain", "1")

MCFirst == [moves |-> {MCDsr(b1)}, reuses |-> {MCDsr(b1)},
            shares |-> {MCPlain}]
MCLater == [moves |-> {{MCDsr(b2)}},
            reuses |-> {{}, {MCDsr(b2)}},
            shares |-> {{MCPlain, MCCheck(v1, s2, b1, "plain", "2")}, {MCDsr(b2)}}]
MCSets == v1 :> Range(MCFirst) \cup UNION Range(MCLater)

MCInit ==
    /\ family \in DOMAIN MCFirst
    /\ Init /\ own[v1] = MCFirst[family]

MCNext ==
    /\ UNCHANGED family
    /\ Next
    /\ own'[v1] \in {own[v1], {}} \cup MCLater[family]
    /\ family # "shares" => health' = health /\ ~ReplyLost
    /\ family # "moves" => up'
    /\ family = "moves" /\ up' => own'[v1] # {}
    /\ family # "shares" /\ manager.todo = {} /\ manager'.todo # {} => batch = <<>>
    /\ family = "reuses" => {} \in {own[v1], own'[v1]} \/ own' = own
    /\ family # "reuses" => events' <= 1
MCSpec == MCInit /\ [][MCNext]_mcVars /\ Fairness

MCValid(c) == TRUE
MCMarks == <<1>>
=============================================================================

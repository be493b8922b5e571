------------------------------ MODULE MCInputs ------------------------------
(* What Seesaw reads from outside: advertisements of the peer (HAConn), the *)
(* answers to healthchecks (Checkers) and the configuration file            *)
(* (ClusterConfig). Each is an instance of its own, and a behaviour is one  *)
(* of a single part.                                                        *)
EXTENDS HAConn, TLC

CONSTANT None

VARIABLES
    part,
    hc, seqnum, requests, at, clock, limit, code, got, dirty, success,
    file, cluster, vlans, arpMap, leader, pc, arps

probeVars == <<hc, seqnum, requests, at, clock, limit, code, got, dirty, success>>
confVars == <<file, cluster, vlans, arpMap, leader, pc, arps>>

-----------------------------------------------------------------------------
(* An IPv4 pair over the multicast group 224.0.0.18, with advertisements    *)
(* whose words, and whose sum, sit at the edges of 16 bits.                 *)
MCAdverts ==
    {newAdvertisement(60, p, i) : p \in {0, 1, 255}, i \in {0, 500, 655350}}

(* 10.0.0.1, 10.0.0.2 and 224.0.0.18 *)
MCladdr == 10 * 256 + 1
MCpeer == 10 * 256 + 2
MCraddr == 224 * 256 + 18

MCDamage == {0, 1, 255, 256, 32768, 65534, 65535}

-----------------------------------------------------------------------------
(* One checker of every kind and variant that takes another path. *)
Checker(kind, dials, fields) == [kind |-> kind, valid |-> TRUE, dials |-> dials] @@ fields

Patterns == {<<>>, <<1>>, <<1, 2>>}

Q == [name |-> "q", type |-> "A", class |-> "IN"]

MCChecks ==
    {Checker("tcp", TRUE, [send |-> s, receive |-> r, secure |-> t]) :
        s \in {<<>>, <<1>>}, r \in Patterns, t \in BOOLEAN}
    \cup {Checker("udp", TRUE, [receive |-> r]) : r \in Patterns}
    \cup {Checker("http", d, [receive |-> r, code |-> c]) :
            d \in BOOLEAN, r \in Patterns, c \in {0, 200, 302}}
    \cup {Checker("dns", TRUE, [question |-> Q, answer |-> "1"])}
    \cup {Checker("dns", TRUE, [question |-> [Q EXCEPT !.type = t], answer |-> "a"]) :
            t \in {"CNAME", "SOA"}}
    \cup {[Checker("dns", TRUE, [question |-> Q, answer |-> "a"]) EXCEPT !.valid = FALSE]}
    \cup {Checker("radius", TRUE, [response |-> r, secret |-> "s", skip |-> k]) :
            r \in {"any", "accept"}, k \in BOOLEAN}
    \cup {Checker("ping", FALSE, <<>>)}

MCSegments == {<<>>, <<1>>, <<2>>, <<1, 2>>, <<1, 2, 1>>, <<2, 1>>}

RR == {[name |-> n, type |-> "A", class |-> "IN", data |-> "1"] : n \in {"q", "a", "b"}}
      \cup {[name |-> e[1], type |-> "CNAME", class |-> "IN", data |-> e[2]] :
              e \in {<<"q", "a">>, <<"a", "b">>, <<"a", "q">>, <<"b", "a">>}}
      \cup {[name |-> "q", type |-> "A", class |-> "CH", data |-> "1"],
            [name |-> "a", type |-> "A", class |-> "IN", data |-> "2"],
            [name |-> "q", type |-> "SOA", class |-> "IN", data |-> "a"]}

MCAnswers ==
    {[response |-> TRUE, rcode |-> 0, question |-> q, answer |-> rrs] :
        q \in {None, Q}, rrs \in UNION {[1..n -> RR] : n \in 0..3}}
    \cup {[response |-> r, rcode |-> c, question |-> q, answer |-> <<[name |-> "q", type |-> "A",
             class |-> "IN", data |-> "1"]>>] :
            r \in BOOLEAN, c \in {0, 3}, q \in {Q, [Q EXCEPT !.name = "b"]}}

(* The server sums what it sends, of which one byte may arrive changed. *)
Payloads == UNION {[1..n -> {0, 1, 2, 3}] : n \in 0..4}

Reply(c, i, l, b, s, orig) ==
    [code |-> c, id |-> i, Length |-> l, bytes |-> b,
     auth |-> [code |-> c, id |-> i, len |-> l, secret |-> s,
               attrs |-> SubSeq(orig, 1, IF l - 2 < Len(orig) THEN l - 2 ELSE Len(orig))]]
MCPackets ==
    {Reply(c, i, l, b, s, b) : c \in {"accept", "reject"}, i \in {"own", "other"}, l \in 1..7,
                               b \in Payloads, s \in {"s", "t"}}
    \cup {Reply("accept", "own", l, b, "s", [b EXCEPT ![1] = x]) :
            l \in 2..6, b \in {p \in Payloads : Len(p) > 0}, x \in 0..3}

MCEchoes ==
    {[src |-> s, type |-> t, own |-> o, probe |-> p, sum |-> m, long |-> l] :
        s \in {"target", "other"}, t \in {"reply4", "reply6", "other"}, o \in BOOLEAN,
        p \in 1..2, m \in BOOLEAN, l \in BOOLEAN}

probe == INSTANCE Checkers WITH
    pc <- at, Checks <- MCChecks, Timeout <- 2, LastTick <- 6, MaxProbes <- 2, SeqSpace <- 3,
    LenSpace <- 32, HeaderSize <- 2, MaximumSize <- 6, Segments <- MCSegments,
    Codes <- {200, 302, 500}, Redirects <- {302}, Answers <- MCAnswers, Packets <- MCPackets,
    Echoes <- MCEchoes

-----------------------------------------------------------------------------
(* Files that differ in one part each: nodes, VLANs, vservers, checks. *)
MCnode(n, a, s) == [name |-> n, addr |-> a, addr6 |-> 10 + a, status |-> s]
MCcheck(t, p, s) == [type |-> t, port |-> p, send |-> s]

MCNodes == {<<MCnode("a", 1, "PRODUCTION"), MCnode("b", 2, "PRODUCTION"), MCnode("c", 3, "TESTING")>>,
            <<MCnode("c", 3, "TESTING"), MCnode("b", 2, "PRODUCTION"), MCnode("a", 1, "PRODUCTION")>>,
            <<MCnode("a", 3, "DISABLED"), MCnode("b", 2, "PRODUCTION")>>,
            <<MCnode("a", 1, "PRODUCTION"), MCnode("a", 2, "PRODUCTION")>>,
            <<MCnode("b", 2, "PRODUCTION")>>}

MCVlans == {<<>>, <<[id |-> "v1", net |-> {"p", "q"}]>>,
            <<[id |-> "v1", net |-> {"p"}], [id |-> "v2", net |-> {"p", "q", "x"}]>>,
            <<[id |-> "v1", net |-> {"p"}], [id |-> "v1", net |-> {"q"}]>>}

MCLists ==
    LET C == {MCcheck("TCP", 0, 1), MCcheck("TCP", 0, 2), MCcheck("TCP_TLS", 0, 1), MCcheck("HTTP", 0, 1),
              MCcheck("TCP", 8, 1)}
    IN  UNION {[1..n -> C] : n \in 0..2} \cup [1..3 -> C \ {MCcheck("HTTP", 0, 1)}]

MCentry(p, c) == [port |-> p, supported |-> p # 7, low |-> 1, high |-> 0, checks |-> c]

MCvs(n, vips, es, c) ==
    [name |-> n, status |-> "PRODUCTION", vips |-> vips, entries |-> es, checks |-> c,
     backends |-> <<[name |-> "h", status |-> "PRODUCTION"], [name |-> "h", status |-> "BUILDING"]>>]

MCfile(ns, vl, vss) == [vipStatus |-> "PRODUCTION", nodes |-> ns, vlans |-> vl, vservers |-> vss]

MCTwo == <<MCvs("w", {"p", "x", "s"}, <<>>, <<>>), MCvs("z", {"q", "p"}, <<>>, <<>>)>>
MCFirst == <<MCnode("a", 1, "PRODUCTION")>>

MCFiles ==
    {MCfile(ns, vl, MCTwo) : ns \in MCNodes, vl \in MCVlans}
    \cup {MCfile(MCFirst, <<>>, <<MCvs("w", {"p"}, <<>>, c)>>) : c \in MCLists}
    \cup {MCfile(MCFirst, <<>>, <<MCvs("w", {"p"}, <<MCentry(8, c), MCentry(7, c), MCentry(8, <<>>)>>, <<>>)>>) :
            c \in {d \in MCLists : Len(d) = 2}}
conf == INSTANCE ClusterConfig WITH
    Files <- MCFiles, Anycast <- {"s"}, IPv6 <- {"x"}, ClusterVIP <- "c", IPv4Addr <- 1,
    IPv6Addr <- 13, ByteSpace <- 8, Lb <- "lb"

-----------------------------------------------------------------------------
MCInit ==
    /\ part \in {"conn", "probe", "conf"}
    /\ Init
    /\ probe!Init /\ (part # "probe" => hc = CHOOSE c \in MCChecks : TRUE)
    /\ conf!Init /\ (part # "conf" => leader)

MCNext ==
    /\ UNCHANGED part
    /\ \/ part = "conn" /\ Next /\ UNCHANGED <<probeVars, confVars>>
       \/ part = "probe" /\ probe!Next /\ UNCHANGED <<vars, confVars>>
       \/ part = "conf" /\ conf!Next /\ UNCHANGED <<vars, probeVars>>

MCSpec == MCInit /\ [][MCNext]_<<part, vars, probeVars, confVars>>

(* Of Checkers: a check of the healthcheck server ends within its timeout.  *)
EndsInTime == probe!EndsInTime

(* Of Checkers: the verdict of a check is that of the reply as a whole. *)
VerdictMatchesReply == probe!VerdictMatchesReply

(* Of ClusterConfig: every check of a configuration file is in the cluster. *)
NoCheckLost == conf!NoCheckLost


=============================================================================

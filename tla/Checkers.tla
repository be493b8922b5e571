------------------------------ MODULE Checkers ------------------------------
(* What one healthcheck does on the network (healthcheck/: dial.go, tcp.go, *)
(* udp.go, http.go, dns.go, radius.go, ping.go): a Check connects, sends    *)
(* its request, reads what the backend, or anybody else on a raw socket,    *)
(* answers, and ends with success or failure before its time is up.  Time   *)
(* is counted in ticks; bytes are small numbers.                            *)
EXTENDS Integers, Sequences, SequencesExt

CONSTANTS
    Checks,       \* the checkers, records with a field kind
    Timeout,      \* the timeout of a check, in ticks
    LastTick,     \* bound: how long an operation without deadline is followed
    MaxProbes,    \* bound: how often the checker's Check is called
    SeqSpace,     \* the numbers of a 16-bit sequence number, 2^16
    LenSpace,     \* the numbers of a 16-bit length, 2^16
    HeaderSize,   \* radiusHeaderSize
    MaximumSize,  \* radiusMaximumSize
    Segments,     \* what one read from a connection may bring
    Codes,        \* HTTP status codes
    Redirects,    \* ... of which these are redirects
    Answers,      \* DNS replies
    Packets,      \* RADIUS replies
    Echoes,       \* ICMP messages that reach the raw socket
    None

VARIABLES
    hc,           \* the checker
    seqnum,       \* PingChecker.Seqnum
    requests,     \* the sequence numbers of the requests so far
    pc,           \* where Check is
    clock,        \* ticks since Check was called
    limit,        \* when the operation in progress times out, LastTick: never
    code,         \* the status code of the HTTP response, or None
    got,          \* what was read
    dirty,        \* ping: a longer message has been in the buffer
    success       \* Result.Success

vars == <<hc, seqnum, requests, pc, clock, limit, code, got, dirty, success>>

Init ==
    /\ hc \in Checks
    /\ seqnum = 0 /\ requests = <<>> /\ pc = "idle" /\ clock = 0 /\ limit = 0
    /\ code = None /\ got = None /\ dirty = FALSE /\ success = FALSE

complete(s) == pc' = "done" /\ success' = s /\ UNCHANGED <<hc, seqnum, requests, clock>>

Fail == complete(FALSE) /\ UNCHANGED <<limit, code, got, dirty>>

(* Check is called.  A checker whose Answer or Request does not parse fails *)
(* at once; ping opens a raw socket, plain HTTP lets http.Client dial.      *)
NextSeqnum == (seqnum + 1) % SeqSpace

Check ==
    /\ pc \in {"idle", "done"} /\ Len(requests) < MaxProbes
    /\ requests' = Append(requests, seqnum)
    /\ seqnum' = NextSeqnum
    /\ pc' = IF ~hc.valid THEN "done" ELSE IF hc.dials THEN "dial" ELSE "send"
    /\ clock' = 0 /\ limit' = Timeout
    /\ code' = None /\ got' = None /\ dirty' = FALSE /\ success' = FALSE
    /\ UNCHANGED hc

(* dialTCP, dialUDP and ListenPacket fail, or a write or a read does. *)
Error == pc \in {"dial", "tls", "send", "wait", "read"} /\ Fail

(* An operation takes time, until its deadline; a write to a raw socket,    *)
(* which has none yet, does not wait.                                       *)
Tick ==
    /\ pc \in {"dial", "tls", "send", "wait", "read"} /\ clock < limit
    /\ pc = "send" => hc.kind # "ping"
    /\ clock' = clock + 1
    /\ UNCHANGED <<hc, seqnum, requests, pc, limit, code, got, dirty, success>>

Expire ==
    /\ pc \in {"dial", "tls", "send", "wait", "read"}
    /\ clock >= limit /\ limit < LastTick
    /\ Fail

(* dialTCP and dialUDP, marks included.  tls.Client's Handshake precedes    *)
(* SetDeadline, so that nothing limits it.  http.Client starts its own      *)
(* timeout once the connection it is handed exists.                         *)
LimitNever == LastTick                         \* mutant: no SetDeadline
LimitAfterDial == IF hc.kind = "http" THEN clock + Timeout ELSE Timeout

dialTCP ==
    /\ hc.kind \in {"tcp", "http", "dns"}
    /\ IF hc.kind = "tcp" /\ hc.secure
       THEN pc' = "tls" /\ limit' = LastTick
       ELSE pc' = "send" /\ limit' = LimitAfterDial
dialUDP == hc.kind \in {"udp", "dns", "radius"} /\ pc' = "send" /\ limit' = LimitAfterDial

dial ==
    /\ pc = "dial"
    /\ dialTCP \/ dialUDP
    /\ UNCHANGED <<hc, seqnum, requests, clock, code, got, dirty, success>>

Handshake ==
    /\ pc = "tls"
    /\ pc' = "send" /\ limit' = Timeout
    /\ UNCHANGED <<hc, seqnum, requests, clock, code, got, dirty, success>>

(* A TCP check that has nothing to send or to receive ends with success,    *)
(* before its deadline is looked at; one that has nothing to receive ends   *)
(* once it has sent.  An operation after the deadline fails: Expire.        *)
Connected ==
    /\ pc = "send" /\ hc.kind = "tcp" /\ hc.send = <<>> /\ hc.receive = <<>>
    /\ complete(TRUE) /\ UNCHANGED <<limit, code, got, dirty>>

Send ==
    /\ pc = "send" /\ clock <= limit
    /\ IF hc.kind = "tcp"
       THEN /\ <<hc.send, hc.receive>> # <<<<>>, <<>>>>
            /\ pc' = IF hc.receive = <<>> THEN "done" ELSE "read"
            /\ success' = (hc.receive = <<>>)
            /\ got' = <<>>
       ELSE pc' = "wait" /\ UNCHANGED <<success, got>>
    /\ UNCHANGED <<hc, seqnum, requests, clock, limit, code, dirty>>

(* io.ReadFull of as many bytes as are compared, by TCP and for the body of *)
(* an HTTP response, and the comparison that follows. A body that ends too  *)
(* early fails (Error), NUL bytes in the expected response aside.           *)
Cut(s, n) == SubSeq(s, 1, IF n < Len(s) THEN n ELSE Len(s))

CodeOk(c) == hc.kind = "http" => hc.code \in {0, c}

Read ==
    /\ pc = "read"
    /\ \E seg \in Segments :
         /\ got' = got \o seg
         /\ IF Len(got') < Len(hc.receive)
            THEN UNCHANGED <<pc, success>>
            ELSE /\ pc' = "done"
                 /\ success' = (Cut(got', Len(hc.receive)) = hc.receive /\ CodeOk(code))
    /\ UNCHANGED <<hc, seqnum, requests, clock, limit, code, dirty>>

(* client.Do returns the response.  A redirect is not followed: it comes    *)
(* with an error, which is dropped, and with its body closed.               *)
Do ==
    /\ pc = "wait" /\ hc.kind = "http"
    /\ \E c \in Codes :
         /\ code' = c /\ got' = <<>>
         /\ IF hc.receive # <<>> /\ c \notin Redirects
            THEN pc' = "read" /\ UNCHANGED success
            ELSE pc' = "done" /\ success' = (hc.receive = <<>> /\ CodeOk(c))
    /\ UNCHANGED <<hc, seqnum, requests, clock, limit, dirty>>

(* UDPChecker.Check reads one datagram into a buffer of that size. *)
ReadFrom ==
    /\ pc = "wait" /\ hc.kind = "udp"
    /\ \E d \in Segments :
         /\ got' = d
         /\ complete(Cut(d, Len(hc.receive)) = hc.receive)
    /\ UNCHANGED <<limit, code, dirty>>

(* DNSChecker.Check.  cnameMap: the last alias of a name counts. *)
cnameMap(rrs) ==
    FoldLeft(LAMBDA m, rr : IF rr.type = "CNAME" THEN (rr.name :> rr.data) @@ m ELSE m,
             <<>>, rrs)

RECURSIVE Follow(_, _, _)
Follow(m, name, seen) ==
    IF name \notin DOMAIN m \/ name \in seen THEN name
    ELSE Follow(m, m[name], seen \cup {name})

resolveOnce(m, name) == IF name \in DOMAIN m THEN m[name] ELSE name   \* mutant: one alias
resolveCNAME(m, name) == Follow(m, name, {})

MatchesRR(rrs, rr) ==
    /\ rr.class = hc.question.class /\ rr.type = hc.question.type
    /\ CASE rr.type \in {"A", "AAAA"} ->
              rr.name = resolveCNAME(cnameMap(rrs), hc.question.name) /\ rr.data = hc.answer
         [] rr.type \in {"CNAME", "NS"} ->
              rr.name = hc.question.name /\ rr.data = hc.answer
         [] rr.type = "SOA" -> rr.name = hc.question.name

ReadMsg ==
    /\ pc = "wait" /\ hc.kind = "dns"
    /\ \E r \in Answers :
         /\ got' = r
         /\ complete(/\ r.response /\ r.rcode = 0 /\ r.answer # <<>>
                     /\ r.question \in {None, hc.question}
                     /\ \E i \in DOMAIN r.answer : MatchesRR(r.answer, r.answer[i]))
    /\ UNCHANGED <<limit, code, dirty>>

(* radiusPacket.decode of the bytes behind the header: attributes are read *)
(* while two bytes of the packet's Length are left, which is a uint16.     *)
RECURSIVE Attributes(_, _)
Attributes(b, len) ==
    IF len < 2 THEN <<>>
    ELSE IF Len(b) < 2 \/ b[2] < 2 \/ Len(b) < b[2] THEN <<None>>
    ELSE <<SubSeq(b, 1, b[2])>>
           \o Attributes(SubSeq(b, b[2] + 1, Len(b)), (len - b[2]) % LenSpace)

decode(p) ==
    IF p.Length < HeaderSize \/ p.Length > MaximumSize THEN <<None>>
    ELSE Attributes(p.bytes, p.Length - HeaderSize)

(* responseAuthenticator: what the MD5 sum is taken of. *)
responseAuthenticator(p, attrs, secret) ==
    [code |-> p.code, id |-> p.id, len |-> p.Length, attrs |-> FlattenSeq(attrs),
     secret |-> secret]

Decoded ==
    /\ pc = "wait" /\ hc.kind = "radius"
    /\ \E p \in Packets :
         /\ got' = p
         /\ LET attrs == decode(p)
            IN  complete(/\ None \notin Range(attrs)
                         /\ p.id = "own"
                         /\ hc.skip \/ p.auth = responseAuthenticator(p, attrs, hc.secret)
                         /\ hc.response \in {"any", p.code})
    /\ UNCHANGED <<limit, code, dirty>>

(* exchangeICMPEcho: messages of others are skipped, the buffer is not      *)
(* cleared between two of them, and the checksum is taken of all of it.     *)
ReadsOn(e) == e.src = "other" \/ e.type = "other" \/ ~e.own
              \/ requests[e.probe] # Last(requests)

icmpChecksum(e) == e.sum /\ ~dirty
EchoOk(e) == e.type = "reply4" => icmpChecksum(e)

Echo ==
    /\ pc = "wait" /\ hc.kind = "ping"
    /\ \E e \in Echoes :
         /\ e.probe <= Len(requests)
         /\ IF ReadsOn(e)
            THEN /\ dirty' = (dirty \/ e.long)
                 /\ UNCHANGED <<hc, seqnum, requests, pc, clock, got, success>>
            ELSE got' = e /\ complete(EchoOk(e)) /\ UNCHANGED dirty
    /\ UNCHANGED <<limit, code>>

Next ==
    \/ Check
    \/ dial
    \/ Handshake
    \/ Connected
    \/ Send
    \/ Read
    \/ Do
    \/ ReadFrom
    \/ ReadMsg
    \/ Decoded
    \/ Echo
    \/ Error
    \/ Tick
    \/ Expire

Spec == Init /\ [][Next]_vars
-----------------------------------------------------------------------------
(* A check is over when its timeout is, counted from its start: Check's     *)
(* deadline covers connecting, sending and receiving.  An HTTP check of the *)
(* DSR and TUN modes, which connects before http.Client counts, has twice   *)
(* the time; a TCP check that negotiates TLS has no limit.                  *)
EndsInTime ==
    \/ clock <= (IF hc.kind = "http" /\ hc.dials THEN 2 * Timeout ELSE Timeout)
    \/ hc.kind = "tcp" /\ hc.secure

(* The names a DNS answer's aliases lead to. *)
Reachable(rrs, from) ==
    LET step == {<<rr.name, rr.data>> : rr \in {r \in Range(rrs) : r.type = "CNAME"}}
        closed(S) == from \in S /\ \A e \in step : e[1] \in S => e[2] \in S
        names == {from} \cup {e[1] : e \in step} \cup {e[2] : e \in step}
    IN  {n \in names : \A S \in SUBSET names : closed(S) => n \in S}

Answered(rrs, S) ==
    \E rr \in Range(rrs) : /\ rr.type = hc.question.type /\ rr.class = hc.question.class
                           /\ rr.name \in S /\ rr.data = hc.answer

(* Where a chain of aliases ends: a name without one. *)
Canonical(rrs, S) == {n \in S : \A rr \in Range(rrs) : rr.type = "CNAME" => rr.name # n}

(* Attributes cover the first n bytes of b without gap or overlap. *)
Tiled(b, n) ==
    \E starts \in SUBSET (1..n) :
        /\ n > 0 => 1 \in starts
        /\ \A i \in starts : /\ i < n /\ b[i + 1] >= 2
                             /\ i + b[i + 1] \in starts \cup {n + 1}
                             /\ \A j \in starts : j <= i \/ j >= i + b[i + 1]

(* The verdict is that of the reply as a whole, however it was cut into     *)
(* segments and whatever the order of its records. TCP, UDP and HTTP: what  *)
(* was received begins with what the check expects. DNS: an address counts  *)
(* for the name that was asked for or one its aliases lead to, loops        *)
(* included, and is found when each alias is given once. RADIUS: the reply  *)
(* was summed with the checker's secret over the attributes it arrived      *)
(* with, which fill its Length although an overlong one makes the remaining *)
(* length wrap around. Ping: an echo reply that comes late for one check is *)
(* never taken for the next one's, and an intact one counts unless a longer *)
(* message has been in the buffer before.                                   *)
VerdictMatchesReply ==
    pc = "done" /\ got # None =>
      CASE hc.kind \in {"tcp", "udp"} -> success => IsPrefix(hc.receive, got)
        [] hc.kind = "http" ->
             success => IsPrefix(hc.receive, got) /\ hc.code \in {0, code}
        [] hc.kind = "dns" /\ hc.question.type = "A" ->
             LET rrs == got.answer
                 S == Reachable(rrs, hc.question.name)
                 asked == got.response /\ got.rcode = 0 /\ got.question \in {None, hc.question}
                 once == \A i, j \in DOMAIN rrs :
                            rrs[i].type = "CNAME" /\ rrs[j].type = "CNAME"
                              /\ rrs[i].name = rrs[j].name => i = j
             IN  /\ success => asked /\ Answered(rrs, S)
                 /\ asked /\ once /\ Answered(rrs, Canonical(rrs, S)) => success
        [] hc.kind = "radius" ->
             LET n == got.Length - HeaderSize
             IN  success => /\ Len(got.bytes) >= n - 1
                            /\ Tiled(got.bytes, n) \/ Tiled(got.bytes, n - 1)
                            /\ ~hc.skip => /\ got.auth.secret = hc.secret
                                           /\ got.auth.attrs = Cut(got.bytes, n)
        [] hc.kind = "ping" ->
             /\ success => got.src = "target" /\ got.own /\ got.probe = Len(requests)
             /\ got.sum /\ ~dirty => success
        [] OTHER -> TRUE
=============================================================================

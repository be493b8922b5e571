------------------------------ MODULE HAProofs ------------------------------
(* The two promises of the HA connection, for all advertisements, addresses *)
(* and single-word faults. The arithmetic comes first: an Internet checksum *)
(* is a sum modulo 65535 (B16 - 1). The invariant IInv then says what is on *)
(* the wire is what send packed, with at most one word replaced. Second, of *)
(* a node: its sender runs exactly while it leads.                          *)
EXTENDS HAConn, TLAPS

(* All the proofs use of B16. *)
LEMMA Base == B16 \in Nat /\ B16 >= 256
BY DEF B16

(* A number is its high part and its low 16 bits. *)
LEMMA DivMod ==
    ASSUME NEW s \in Nat
    PROVE  /\ s \div B16 \in Nat /\ s % B16 \in 0..(B16 - 1)
           /\ s = B16 * (s \div B16) + (s % B16)
BY Base, SMT

(* ipChecksum adds the carries twice: the result fits in 16 bits, is not 0
   unless the sum is, and differs from the sum by a multiple of 65535. *)
LEMMA CarryTwice ==
    ASSUME NEW s \in Nat, s < 30 * B16
    PROVE  /\ Carry(Carry(s)) \in 0..(B16 - 1)
           /\ s > 0 => Carry(Carry(s)) > 0
           /\ \E k \in Nat : Carry(Carry(s)) = s - (B16 - 1) * k
<1> DEFINE q == s \div B16
           r == s % B16
           p == (q + r) \div B16
           o == (q + r) % B16
<1>1. q \in Nat /\ r \in 0..(B16 - 1) /\ s = B16 * q + r BY DivMod
<1>2. q + r \in Nat BY <1>1, Base, SMT
<1>3. p \in Nat /\ o \in 0..(B16 - 1) /\ q + r = B16 * p + o BY DivMod, <1>2
<1>4. Carry(Carry(s)) = o + p BY <1>1, <1>3, SMT DEF Carry
<1> HIDE DEF p, q, o, r
<1>5. q \in 0..30 BY <1>1, Base, SMT
<1>6. o + p \in 0..(B16 - 1) BY <1>1, <1>3, <1>5, Base, SMT
<1>7. s > 0 => o + p > 0 BY <1>1, <1>3, Base, SMT
<1>8. o + p = s - (B16 - 1) * (p + q) BY <1>1, <1>3, Base, SMT
<1> QED BY <1>1, <1>3, <1>4, <1>6, <1>7, <1>8

(* The only positive multiple of M up to M is M. *)
LEMMA OneMultiple ==
    ASSUME NEW M \in Nat, M > 0, NEW n \in Int, M * n \in 1..M
    PROVE  n = 1
<1>1. CASE n <= 0 BY <1>1, SMT
<1>2. CASE n >= 2
  <2>1. M * n >= M * 2 BY <1>2, SMT
  <2> QED BY <2>1, SMT
<1> QED BY <1>1, <1>2, SMT

(* The checksum that send fills in makes the sum that receive takes of the
   packet verify. *)
LEMMA Filled ==
    ASSUME NEW s \in Nat, s < 25 * B16
    PROVE  ipChecksum(s) \in 0..(B16 - 1) /\ ipChecksum(s + ipChecksum(s)) = 0
<1> DEFINE c == Carry(Carry(s))
           t == s + ((B16 - 1) - c)
<1>1. s < 30 * B16 BY Base, SMT
<1>2. c \in 0..(B16 - 1) /\ \E k \in Nat : c = s - (B16 - 1) * k BY <1>1, CarryTwice
<1>3. ipChecksum(s) = (B16 - 1) - c /\ s + ipChecksum(s) = t BY DEF ipChecksum
<1> HIDE DEF c
<1>4. PICK k \in Nat : c = s - (B16 - 1) * k BY <1>2
<1>5. t \in Nat /\ t < 30 * B16 /\ t = (B16 - 1) * (k + 1) BY <1>2, <1>4, Base, SMT
<1>6. t > 0
  <2>1. (B16 - 1) * (k + 1) >= B16 - 1 BY Base, SMT
  <2> QED BY <2>1, <1>5, Base, SMT
<1> HIDE DEF t
<1>7. PICK m \in Nat : Carry(Carry(t)) = t - (B16 - 1) * m BY <1>5, CarryTwice
<1>8. Carry(Carry(t)) \in 1..(B16 - 1)
  <2>1. Carry(Carry(t)) \in 0..(B16 - 1) /\ Carry(Carry(t)) > 0 BY <1>5, <1>6, CarryTwice
  <2> QED BY <2>1, Base, SMT
<1>9. Carry(Carry(t)) = (B16 - 1) * (k + 1 - m) BY <1>5, <1>7, Base, SMT
<1>10. k + 1 - m = 1
  <2>1. B16 - 1 \in Nat /\ B16 - 1 > 0 /\ k + 1 - m \in Int BY Base, SMT
  <2> QED BY <1>8, <1>9, <2>1, OneMultiple
<1>11. Carry(Carry(t)) = B16 - 1 BY <1>9, <1>10, Base, SMT
<1>12. ipChecksum(t) = 0 BY <1>11, Base, SMT DEF ipChecksum
<1>13. (B16 - 1) - c \in 0..(B16 - 1) BY <1>2, Base, SMT
<1> QED BY <1>3, <1>12, <1>13

(* The multiples of M between -M and M. *)
LEMMA SmallMultiple ==
    ASSUME NEW M \in Nat, M > 0, NEW n \in Int, M * n >= -M, M * n <= M
    PROVE  n \in {-1, 0, 1}
<1>1. CASE n <= -2
  <2>1. M * n <= M * (-2) BY <1>1, SMT
  <2> QED BY <2>1, SMT
<1>2. CASE n >= 2
  <2>1. M * n >= M * 2 BY <1>2, SMT
  <2> QED BY <2>1, SMT
<1> QED BY <1>1, <1>2, SMT

(* Two values of one word that both verify are the same up to the two
   zeros: one changed word is always detected, or is no change. *)
LEMMA Detects ==
    ASSUME NEW s \in Nat, s < 25 * B16, NEW u \in 0..(B16 - 1), NEW w \in 0..(B16 - 1),
           ipChecksum(s + u) = 0, ipChecksum(s + w) = 0
    PROVE  SameWord(u, w)
<1> DEFINE a == s + u
           b == s + w
           M == B16 - 1
<1>1. a \in Nat /\ a < 30 * B16 /\ b \in Nat /\ b < 30 * B16 BY Base, SMT
<1>2. a = s + u /\ b = s + w /\ ipChecksum(a) = 0 /\ ipChecksum(b) = 0 OBVIOUS
<1> HIDE DEF a, b
<1>3. PICK k \in Nat : Carry(Carry(a)) = a - M * k BY <1>1, CarryTwice
<1>4. PICK m \in Nat : Carry(Carry(b)) = b - M * m BY <1>1, CarryTwice
<1>5. Carry(Carry(a)) \in 0..M /\ Carry(Carry(b)) \in 0..M BY <1>1, CarryTwice
<1>6. Carry(Carry(a)) = M /\ Carry(Carry(b)) = M BY <1>2, <1>5, Base, SMT DEF ipChecksum
<1>7. u - w = M * (k - m) BY <1>1, <1>2, <1>3, <1>4, <1>6, Base, SMT
<1>8. M \in Nat /\ M > 0 /\ u \in 0..M /\ w \in 0..M BY Base, SMT
<1> HIDE DEF M
<1>9. u - w >= -M /\ u - w <= M BY <1>8, SMT
<1>10. k - m \in {-1, 0, 1}
  <2>1. M * (k - m) >= -M /\ M * (k - m) <= M BY <1>7, <1>9
  <2>2. k - m \in Int BY SMT
  <2> QED BY <1>8, <2>1, <2>2, SmallMultiple
<1>11. u - w = -M \/ u - w = 0 \/ u - w = M BY <1>7, <1>8, <1>10, SMT
<1>12. (u = 0 /\ w = M) \/ u = w \/ (u = M /\ w = 0) BY <1>8, <1>11, SMT
<1> QED BY <1>12 DEF SameWord, M

WordsType == [1..4 -> 0..(B16 - 1)]

(* A byte, a word, and the word two bytes make. *)
Byte == 0..255
Word == 0..(B16 - 1)
Glue(h, l) == 256 * h + l

(* Two bytes make a word. *)
LEMMA ByteWord ==
    ASSUME NEW h \in Byte, NEW l \in Byte
    PROVE  Glue(h, l) \in Word
<1>0. h \in 0..255 /\ l \in 0..255 BY DEF Byte
<1>1. B16 = 256 * 255 + 256 BY SMT DEF B16
<1>2. 256 * h <= 256 * 255 /\ 256 * h \in Nat BY <1>0, SMT
<1> DEFINE H == 256 * h
           C == 256 * 255
<1>3. H <= C /\ H \in Nat /\ C \in Nat /\ B16 = C + 256 BY <1>1, <1>2
<1> HIDE DEF H, C
<1>4. H + l \in 0..(B16 - 1) BY <1>0, <1>3, SMT
<1> QED BY <1>4 DEF H, Glue, Word

(* binary.Write of an advertisement gives four words. *)
LEMMA WordsTyped ==
    ASSUME NEW a \in Advertisement
    PROVE  Words(a) \in WordsType /\ Words(a)[4] = a.Checksum
<1>1. /\ a.VersionType \in Byte /\ a.VRID \in Byte
      /\ a.Priority \in Byte /\ a.CountIPAddrs \in Byte
      /\ a.AdvertInt \in Word /\ a.Checksum \in Word
  BY DEF Advertisement, Byte, Word
<1>2. Glue(a.VersionType, a.VRID) \in Word /\ Glue(a.Priority, a.CountIPAddrs) \in Word
  BY <1>1, ByteWord
<1>3. Words(a) = <<Glue(a.VersionType, a.VRID), Glue(a.Priority, a.CountIPAddrs),
                   a.AdvertInt, a.Checksum>>
  BY DEF Words, Glue
<1>4. WordsType = [1..4 -> Word] BY DEF WordsType, Word
<1> QED BY <1>1, <1>2, <1>3, <1>4

(* The sum the checksum is taken of is small enough for two carries. *)
LEMMA InputTyped ==
    ASSUME NEW ws \in WordsType, NEW src \in Addresses, NEW dst \in Addresses
    PROVE  ChecksumInput(ws, src, dst) \in Nat /\ ChecksumInput(ws, src, dst) < 25 * B16
<1>1. src \in 0..(8 * (B16 - 1)) /\ dst \in 0..(8 * (B16 - 1)) BY DEF Addresses
<1>2. \A i \in 1..4 : ws[i] \in 0..(B16 - 1) BY DEF WordsType
<1>3. /\ ws[1] \in 0..(B16 - 1) /\ ws[2] \in 0..(B16 - 1)
      /\ ws[3] \in 0..(B16 - 1) /\ ws[4] \in 0..(B16 - 1)
  BY <1>2
<1> QED BY <1>1, <1>3, Base, SMT DEF ChecksumInput

(* Replacing a word changes the sum by the difference. *)
LEMMA SetWord ==
    ASSUME NEW ws \in WordsType, NEW i \in 1..4, NEW c \in 0..(B16 - 1),
           NEW src \in Addresses, NEW dst \in Addresses
    PROVE  LET p == [ws EXCEPT ![i] = c] IN
           /\ p \in WordsType /\ p[i] = c
           /\ \A j \in 1..4 : j # i => p[j] = ws[j]
           /\ ChecksumInput(p, src, dst) = (ChecksumInput(ws, src, dst) - ws[i]) + c
<1> DEFINE p == [ws EXCEPT ![i] = c]
<1>1. p \in WordsType /\ p[i] = c /\ \A j \in 1..4 : j # i => p[j] = ws[j]
  BY DEF WordsType
<1> HIDE DEF p
<1>2. \A j \in 1..4 : ws[j] \in Int /\ p[j] \in Int BY <1>1, Base DEF WordsType
<1>3. src \in Int /\ dst \in Int /\ c \in Int BY Base DEF Addresses
<1>4. /\ ws[1] \in Int /\ ws[2] \in Int /\ ws[3] \in Int /\ ws[4] \in Int
      /\ p[1] \in Int /\ p[2] \in Int /\ p[3] \in Int /\ p[4] \in Int
  BY <1>2
<1>5. ChecksumInput(p, src, dst) = (ChecksumInput(ws, src, dst) - ws[i]) + c
  <2>1. CASE i = 1 BY <1>1, <1>3, <1>4, <2>1, SMT DEF ChecksumInput
  <2>2. CASE i = 2 BY <1>1, <1>3, <1>4, <2>2, SMT DEF ChecksumInput
  <2>3. CASE i = 3 BY <1>1, <1>3, <1>4, <2>3, SMT DEF ChecksumInput
  <2>4. CASE i = 4 BY <1>1, <1>3, <1>4, <2>4, SMT DEF ChecksumInput
  <2> QED BY <2>1, <2>2, <2>3, <2>4
<1> QED BY <1>1, <1>5 DEF p

(* The packet send makes verifies, and carries the fields it was given. *)
LEMMA PackedVerifies ==
    ASSUME NEW a \in Advertisement, a.Checksum = 0
    PROVE  /\ Packed(a) \in WordsType
           /\ checksum(Packed(a), laddr, raddr) = 0
           /\ \A i \in 1..3 : Packed(a)[i] = Words(a)[i]
<1> DEFINE s == ChecksumInput(Words(a), laddr, raddr)
           c == ipChecksum(s)
<1>1. Words(a) \in WordsType /\ Words(a)[4] = 0 BY WordsTyped
<1>2. laddr \in Addresses /\ raddr \in Addresses BY ConnAssumption
<1>3. s \in Nat /\ s < 25 * B16 BY <1>1, <1>2, InputTyped
<1>4. Packed(a) = [Words(a) EXCEPT ![4] = c] BY DEF Packed, checksum
<1>5. c \in 0..(B16 - 1) /\ ipChecksum(s + c) = 0 BY <1>3, Filled
<1> HIDE DEF c
<1>6. /\ Packed(a) \in WordsType
      /\ \A j \in 1..4 : j # 4 => Packed(a)[j] = Words(a)[j]
      /\ ChecksumInput(Packed(a), laddr, raddr) = (s - Words(a)[4]) + c
  <2> DEFINE W == Words(a)
  <2>1. W \in WordsType /\ c \in 0..(B16 - 1) /\ 4 \in 1..4 BY <1>1, <1>5
  <2> HIDE DEF W
  <2>2. LET p == [W EXCEPT ![4] = c] IN
        /\ p \in WordsType /\ p[4] = c
        /\ \A j \in 1..4 : j # 4 => p[j] = W[j]
        /\ ChecksumInput(p, laddr, raddr) = (ChecksumInput(W, laddr, raddr) - W[4]) + c
    BY <2>1, <1>2, SetWord
  <2> QED BY <2>2, <1>4 DEF W
<1> HIDE DEF s
<1>7. ChecksumInput(Packed(a), laddr, raddr) = s + c BY <1>1, <1>3, <1>5, <1>6, Base, SMT
<1>8. checksum(Packed(a), laddr, raddr) = 0 BY <1>5, <1>7 DEF checksum
<1> QED BY <1>6, <1>8

-----------------------------------------------------------------------------
(* What happened to the packet on the wire is what faults says. *)
WireOK ==
    wire # Nil =>
        /\ sent # Nil /\ sent.Checksum = 0
        /\ wire.src = laddr /\ wire.dst = raddr
        /\ "truncate" \notin faults => wire.whole
        /\ "forward" \notin faults => wire.ttl = 255
        /\ "corrupt" \notin faults => wire.words = Packed(sent)
        /\ \E i \in 1..4, w \in 0..(B16 - 1) : wire.words = [Packed(sent) EXCEPT ![i] = w]
        /\ received = Nil /\ outcome = "none"

IInv == TypeOK /\ WireOK /\ DeliveredIsSent /\ UntouchedIsDelivered

(* A word splits into two bytes. *)
LEMMA Bytes ==
    ASSUME NEW x \in 0..(B16 - 1)
    PROVE  x \div 256 \in 0..255 /\ x % 256 \in 0..255 /\ 256 * (x \div 256) + (x % 256) = x
<1>1. x \in Nat BY Base
<1>2. x \div 256 \in Nat /\ x % 256 \in 0..255 /\ 256 * (x \div 256) + (x % 256) = x
  BY <1>1, SMT
<1>3. x < B16 BY Base, SMT
<1>4. x < 256 * 256 BY <1>3, Zenon DEF B16
<1>5. x \div 256 <= 255 BY <1>1, <1>2, <1>4, SMT
<1> QED BY <1>2, <1>5, SMT

(* binary.Read gives an advertisement, the one that was written. *)
LEMMA UnpackedType ==
    ASSUME NEW ws \in WordsType
    PROVE  Unpacked(ws) \in Advertisement /\ \A i \in 1..4 : Words(Unpacked(ws))[i] = ws[i]
<1>1. /\ ws[1] \in 0..(B16 - 1) /\ ws[2] \in 0..(B16 - 1)
      /\ ws[3] \in 0..(B16 - 1) /\ ws[4] \in 0..(B16 - 1)
  BY DEF WordsType
<1> DEFINE u == ws[1]
           w == ws[2]
<1>2. u \in 0..(B16 - 1) /\ w \in 0..(B16 - 1) BY <1>1
<1> HIDE DEF u, w
<1>3. u \div 256 \in 0..255 /\ u % 256 \in 0..255 /\ 256 * (u \div 256) + (u % 256) = u
  BY <1>2, Bytes
<1>4. w \div 256 \in 0..255 /\ w % 256 \in 0..255 /\ 256 * (w \div 256) + (w % 256) = w
  BY <1>2, Bytes
<1>5. Unpacked(ws) = [VersionType |-> u \div 256, VRID |-> u % 256,
                      Priority |-> w \div 256, CountIPAddrs |-> w % 256,
                      AdvertInt |-> ws[3], Checksum |-> ws[4]]
  BY DEF Unpacked, u, w
<1>6. Unpacked(ws) \in Advertisement
  <2> DEFINE a == u \div 256
             b == u % 256
             c == w \div 256
             d == w % 256
  <2>1. a \in 0..255 /\ b \in 0..255 /\ c \in 0..255 /\ d \in 0..255 BY <1>3, <1>4
  <2>2. Unpacked(ws) = [VersionType |-> a, VRID |-> b, Priority |-> c, CountIPAddrs |-> d,
                        AdvertInt |-> ws[3], Checksum |-> ws[4]]
    BY <1>5
  <2> HIDE DEF a, b, c, d
  <2> QED BY <1>1, <2>1, <2>2 DEF Advertisement
<1>7. Words(Unpacked(ws)) = <<u, w, ws[3], ws[4]>> BY <1>3, <1>4, <1>5 DEF Words
<1>8. \A i \in 1..4 : Words(Unpacked(ws))[i] = ws[i] BY <1>7 DEF u, w
<1> QED BY <1>6, <1>8

(* The connection starts with nothing sent. *)
LEMMA InitIInv == Init => IInv
BY DEF Init, IInv, TypeOK, WireOK, DeliveredIsSent, UntouchedIsDelivered

(* IPHAConn.send preserves the invariant. *)
LEMMA SendIInv ==
    ASSUME IInv, NEW a \in Adverts, Send(a)
    PROVE  IInv'
<1>1. a \in Advertisement /\ a.Checksum = 0 BY ConnAssumption
<1>2. Packed(a) \in WordsType BY <1>1, PackedVerifies
<1>3. a # Nil BY <1>1, ConnAssumption
<1>4. wire' \in Packet
  <2>1. laddr \in Addresses /\ raddr \in Addresses BY ConnAssumption
  <2> QED BY <1>2, <2>1 DEF Send, Packet, WordsType
<1>5. TypeOK' BY <1>1, <1>4 DEF Send, IInv, TypeOK
<1>6. [Packed(a) EXCEPT ![1] = Packed(a)[1]] = Packed(a) /\ Packed(a)[1] \in 0..(B16 - 1)
  BY <1>2 DEF WordsType
<1>7. WireOK' BY <1>1, <1>3, <1>6 DEF Send, WireOK
<1> QED BY <1>5, <1>7 DEF Send, IInv, DeliveredIsSent, UntouchedIsDelivered

(* The faults of the network preserve the invariant. *)
LEMMA NetworkIInv ==
    ASSUME IInv, \/ \E i \in 1..4, w \in Damage : Corrupt(i, w)
                 \/ Truncate
                 \/ Forward
    PROVE  IInv'
<1>1. wire \in Packet /\ wire # Nil BY DEF IInv, TypeOK, Corrupt, Truncate, Forward
<1>2. Damage \subseteq 0..(B16 - 1) BY ConnAssumption
<1>3. sent' = sent /\ received' = received /\ outcome' = outcome
  BY DEF Corrupt, Truncate, Forward
<1>4. received = Nil /\ outcome = "none" BY <1>1 DEF IInv, WireOK
<1>5. DeliveredIsSent' /\ UntouchedIsDelivered'
  BY <1>3, <1>4 DEF DeliveredIsSent, UntouchedIsDelivered
<1>6. CASE \E i \in 1..4, w \in Damage : Corrupt(i, w)
  <2>1. PICK i \in 1..4, w \in Damage : Corrupt(i, w) BY <1>6
  <2>2. wire' \in Packet BY <1>1, <1>2, <2>1 DEF Corrupt, Packet
  <2>3. TypeOK' BY <2>1, <2>2, <1>3 DEF Corrupt, IInv, TypeOK
  <2>4. "corrupt" \notin faults /\ wire.words = Packed(sent) BY <1>1, <2>1 DEF IInv, WireOK, Corrupt
  <2>5. wire'.words = [Packed(sent) EXCEPT ![i] = w] /\ wire'.src = wire.src
        /\ wire'.dst = wire.dst /\ wire'.ttl = wire.ttl /\ wire'.whole = wire.whole
    BY <1>1, <2>1, <2>4 DEF Corrupt, Packet
  <2>6. WireOK' BY <1>1, <1>2, <1>3, <1>4, <2>1, <2>5 DEF IInv, WireOK, Corrupt
  <2> QED BY <1>5, <2>3, <2>6 DEF IInv
<1>7. CASE Truncate
  <2>1. wire' \in Packet /\ wire'.words = wire.words /\ wire'.src = wire.src
        /\ wire'.dst = wire.dst /\ wire'.ttl = wire.ttl /\ faults' = faults \cup {"truncate"}
    BY <1>1, <1>7, Zenon DEF Truncate, Packet
  <2>2. TypeOK' BY <1>3, <2>1 DEF IInv, TypeOK
  <2>3. WireOK'
    <3>1. WireOK /\ wire # Nil BY <1>1 DEF IInv
    <3>2. \E i \in 1..4, w \in 0..(B16 - 1) : wire.words = [Packed(sent) EXCEPT ![i] = w]
      BY <3>1, Zenon DEF WireOK
    <3>3. \E i \in 1..4, w \in 0..(B16 - 1) : wire'.words = [Packed(sent') EXCEPT ![i] = w]
      <4>1. PICK i \in 1..4, w \in 0..(B16 - 1) : wire.words = [Packed(sent) EXCEPT ![i] = w]
        BY <3>2, Zenon
      <4>2. wire'.words = [Packed(sent') EXCEPT ![i] = w] BY <1>3, <2>1, <4>1
      <4> QED BY <4>2, Zenon
    <3>4. "corrupt" \notin faults' => wire'.words = Packed(sent')
      <4>1. "corrupt" \notin faults' => "corrupt" \notin faults BY <2>1
      <4> QED BY <1>3, <2>1, <3>1, <4>1, Zenon DEF WireOK
    <3>5. ("truncate" \notin faults' => wire'.whole) /\ ("forward" \notin faults' => wire'.ttl = 255)
      BY <2>1, <3>1 DEF WireOK
    <3>6. /\ sent' # Nil /\ sent'.Checksum = 0 /\ wire'.src = laddr /\ wire'.dst = raddr
          /\ received' = Nil /\ outcome' = "none"
      BY <1>3, <2>1, <3>1, Zenon DEF WireOK
    <3> QED BY <3>3, <3>4, <3>5, <3>6, Zenon DEF WireOK
  <2> QED BY <1>5, <2>2, <2>3 DEF IInv
<1>8. CASE Forward
  <2>1. wire' \in Packet /\ wire'.words = wire.words /\ wire'.src = wire.src
        /\ wire'.dst = wire.dst /\ wire'.whole = wire.whole /\ faults' = faults \cup {"forward"}
    BY <1>1, <1>8 DEF Forward, Packet
  <2>2. TypeOK' BY <1>3, <2>1 DEF IInv, TypeOK
  <2>3. WireOK'
    <3>1. WireOK /\ wire # Nil BY <1>1 DEF IInv
    <3>2. \E i \in 1..4, w \in 0..(B16 - 1) : wire.words = [Packed(sent) EXCEPT ![i] = w]
      BY <3>1, Zenon DEF WireOK
    <3>3. \E i \in 1..4, w \in 0..(B16 - 1) : wire'.words = [Packed(sent') EXCEPT ![i] = w]
      <4>1. PICK i \in 1..4, w \in 0..(B16 - 1) : wire.words = [Packed(sent) EXCEPT ![i] = w]
        BY <3>2, Zenon
      <4>2. wire'.words = [Packed(sent') EXCEPT ![i] = w] BY <1>3, <2>1, <4>1
      <4> QED BY <4>2, Zenon
    <3>4. "corrupt" \notin faults' => wire'.words = Packed(sent')
      <4>1. "corrupt" \notin faults' => "corrupt" \notin faults BY <2>1
      <4> QED BY <1>3, <2>1, <3>1, <4>1, Zenon DEF WireOK
    <3>5. ("truncate" \notin faults' => wire'.whole) /\ ("forward" \notin faults' => wire'.ttl = 255)
      BY <2>1, <3>1 DEF WireOK
    <3>6. /\ sent' # Nil /\ sent'.Checksum = 0 /\ wire'.src = laddr /\ wire'.dst = raddr
          /\ received' = Nil /\ outcome' = "none"
      BY <1>3, <2>1, <3>1, Zenon DEF WireOK
    <3> QED BY <3>3, <3>4, <3>5, <3>6, Zenon DEF WireOK
  <2> QED BY <1>5, <2>2, <2>3 DEF IInv
<1> QED BY <1>6, <1>7, <1>8

(* A packet whose checksum receive accepts has the words that were sent. *)
LEMMA AcceptedIsSent ==
    ASSUME IInv, wire # Nil, checksum(wire.words, wire.src, wire.dst) = 0
    PROVE  \A i \in 1..3 : SameWord(wire.words[i], Words(sent)[i])
<1> DEFINE P == Packed(sent)
           s == ChecksumInput(P, laddr, raddr)
<1>1. sent \in Advertisement /\ sent.Checksum = 0 /\ wire.src = laddr /\ wire.dst = raddr
  BY DEF IInv, TypeOK, WireOK
<1>2. P \in WordsType /\ ipChecksum(s) = 0 /\ \A i \in 1..3 : P[i] = Words(sent)[i]
  BY <1>1, PackedVerifies DEF checksum
<1>3. PICK i \in 1..4, w \in 0..(B16 - 1) : wire.words = [P EXCEPT ![i] = w]
  BY DEF IInv, WireOK
<1>4. laddr \in Addresses /\ raddr \in Addresses BY ConnAssumption
<1>5. s \in Nat /\ s < 25 * B16 BY <1>2, <1>4, InputTyped
<1> HIDE DEF P
<1>6. /\ wire.words \in WordsType /\ wire.words[i] = w
      /\ \A j \in 1..4 : j # i => wire.words[j] = P[j]
      /\ ChecksumInput(wire.words, laddr, raddr) = (s - P[i]) + w
  BY <1>2, <1>3, <1>4, SetWord
<1>7. ipChecksum((s - P[i]) + w) = 0 BY <1>1, <1>6 DEF checksum
<1>8. P[i] \in 0..(B16 - 1) /\ P[i] <= s
  <2>1. /\ P[1] \in 0..(B16 - 1) /\ P[2] \in 0..(B16 - 1)
        /\ P[3] \in 0..(B16 - 1) /\ P[4] \in 0..(B16 - 1)
    BY <1>2 DEF WordsType
  <2>2. laddr \in Nat /\ raddr \in Nat BY <1>4, Base DEF Addresses
  <2>3. P[1] <= s /\ P[2] <= s /\ P[3] <= s /\ P[4] <= s
    BY <2>1, <2>2, Base, SMT DEF ChecksumInput
  <2> QED BY <2>1, <2>3
<1> HIDE DEF s
<1> DEFINE r == s - P[i]
<1>9. r \in Nat /\ r < 25 * B16 /\ r + P[i] = s BY <1>5, <1>8, Base, SMT
<1> HIDE DEF r
<1>10. ipChecksum(r + P[i]) = 0 /\ ipChecksum(r + w) = 0 BY <1>2, <1>7, <1>9 DEF r
<1>11. SameWord(P[i], w) BY <1>8, <1>9, <1>10, Detects
<1>12. SameWord(w, P[i]) BY <1>11 DEF SameWord
<1> QED BY <1>2, <1>6, <1>12 DEF SameWord

(* IPHAConn.receive preserves the invariant. *)
LEMMA ReceiveIInv ==
    ASSUME IInv, NEW me \in {laddr, peer}, Receive(me)
    PROVE  IInv'
<1>1. wire \in Packet /\ wire # Nil /\ wire' = Nil /\ sent' = sent
  BY DEF IInv, TypeOK, Receive
<1>2. wire.words \in WordsType BY <1>1 DEF Packet, WordsType
<1>3. WireOK' BY <1>1 DEF WireOK
<1>4. /\ Ignores(me, wire) => outcome' = "ignored" /\ received' = Nil
      /\ ~Ignores(me, wire) => outcome' = "delivered" /\ received' = Unpacked(wire.words)
  <2>1. readPacket(wire) \ {Nil} \subseteq {wire}
    BY DEF readPacket, readIPv4Packet, readIPv6Packet
  <2> QED BY <2>1 DEF Receive
<1>5. CASE Ignores(me, wire)
  <2>1. received' = Nil /\ outcome' = "ignored" BY <1>5, <1>4
  <2>2. TypeOK' /\ DeliveredIsSent' BY <1>1, <2>1 DEF IInv, TypeOK, DeliveredIsSent, Receive
  <2>3. faults' # {}
    <3>1. CASE faults # {} BY <3>1 DEF Receive
    <3>2. CASE me = laddr BY <3>2 DEF Receive
    <3>3. CASE faults = {} /\ me # laddr
      <4>1. /\ wire.whole /\ wire.ttl = 255 /\ wire.src # me
            /\ wire.words = Packed(sent) /\ wire.src = laddr /\ wire.dst = raddr
            /\ sent \in Advertisement /\ sent.Checksum = 0
        BY <1>1, <3>3 DEF IInv, TypeOK, WireOK
      <4>2. checksum(wire.words, wire.src, wire.dst) = 0 BY <4>1, PackedVerifies
      <4> QED BY <1>5, <4>1, <4>2 DEF Ignores
    <3> QED BY <3>1, <3>2, <3>3
  <2> QED BY <1>3, <2>2, <2>3 DEF IInv, UntouchedIsDelivered
<1>6. CASE ~Ignores(me, wire)
  <2>1. received' = Unpacked(wire.words) /\ outcome' = "delivered" BY <1>6, <1>4
  <2>2. checksum(wire.words, wire.src, wire.dst) = 0 BY <1>6 DEF Ignores
  <2>3. \A i \in 1..3 : SameWord(wire.words[i], Words(sent)[i]) BY <1>1, <2>2, AcceptedIsSent
  <2>4. /\ Unpacked(wire.words) \in Advertisement
        /\ \A i \in 1..4 : Words(Unpacked(wire.words))[i] = wire.words[i]
    BY <1>2, UnpackedType
  <2>5. TypeOK' BY <1>1, <2>1, <2>4 DEF IInv, TypeOK, Receive
  <2>6. DeliveredIsSent' BY <1>1, <2>1, <2>3, <2>4 DEF DeliveredIsSent, Words
  <2> QED BY <1>3, <2>1, <2>5, <2>6 DEF IInv, UntouchedIsDelivered
<1> QED BY <1>5, <1>6

(* Every step preserves the invariant. *)
LEMMA NextIInv == IInv /\ [Next]_vars => IInv'
<1> SUFFICES ASSUME IInv, [Next]_vars PROVE IInv' OBVIOUS
<1>1. CASE \E a \in Adverts : Send(a) BY <1>1, SendIInv
<1>2. CASE \/ \E i \in 1..4, w \in Damage : Corrupt(i, w)
           \/ Truncate
           \/ Forward
  BY <1>2, NetworkIInv
<1>3. CASE \E me \in {laddr, peer} : Receive(me) BY <1>3, ReceiveIInv
<1>4. CASE ReceiveError \/ SendError
  BY <1>4, Zenon DEF ReceiveError, SendError, IInv, TypeOK, WireOK, DeliveredIsSent, UntouchedIsDelivered
<1>5. CASE UNCHANGED vars
  BY <1>5 DEF vars, IInv, TypeOK, WireOK, DeliveredIsSent, UntouchedIsDelivered
<1> QED BY <1>1, <1>2, <1>3, <1>4, <1>5 DEF Next

(* The invariant holds throughout. *)
LEMMA Invariance == Spec => []IInv
BY InitIInv, NextIInv, PTL DEF Spec

(* Whatever advertisement is sent between whatever addresses, and whatever *)
(* one word of it the network damages, IPHAConn.receive returns the fields *)
(* that were sent or nothing, up to the two zeros of the checksum.         *)
THEOREM DeliveryCorrect == Spec => []DeliveredIsSent
BY Invariance, PTL DEF IInv

(* The checksum send computes is one that receive accepts, for every       *)
(* advertisement and every pair of addresses.                              *)
THEOREM UntouchedDelivered == Spec => []UntouchedIsDelivered
BY Invariance, PTL DEF IInv

-----------------------------------------------------------------------------
(* A node advertises exactly while it leads (HANode). The invariant ties    *)
(* the places of Run to the state: only a backup is on the way to become    *)
(* the master, only a leader on the way to become a backup or asleep before *)
(* it ends.                                                                 *)

CONSTANTS Priority, Preempt, LocalAddr, RemoteAddr, Priorities, QueueCap,
          StatusReportMaxFailures, ConfigCheckMaxFailures, Troubles
VARIABLES state, main, senders, recv, queue, report, check, watch, sig,
          stateChan, statusChan, engineState, failoverPending

node == INSTANCE HANode

(* The place Run is at fits the state, and the goroutines are counted. *)
MainMatchesState ==
    /\ senders \in [idle: Nat, send: Nat, last: Nat]
    /\ ~node!Dead => state \in {"BACKUP", "LEADER"}
    /\ main \in {"becomeMaster", "master"} => state = "BACKUP"
    /\ main \in {"becomeBackup", "backup", "sleep"} => state = "LEADER"

NodeInv == MainMatchesState /\ node!SenderMatchesState

(* A new node is a backup and has no sender. *)
LEMMA NodeInit == node!Init => NodeInv
BY DEF node!Init, node!Fresh, node!Senders, NodeInv, MainMatchesState,
  node!SenderMatchesState, node!Dead

(* A process that ended has no goroutines. *)
LEMMA NodeExit ==
    ASSUME NEW how \in {"exited", "fatal"}, node!Exit(how)
    PROVE  NodeInv'
BY DEF node!Exit, node!Fresh, node!Senders, NodeInv, MainMatchesState,
  node!SenderMatchesState, node!Dead

(* Every step of Run keeps the state, its place and the senders together. *)
LEMMA NodeMain ==
    ASSUME NodeInv, node!Main
    PROVE  NodeInv'
<1> USE DEF NodeInv, MainMatchesState, node!SenderMatchesState, node!Dead
<1>1. CASE node!MainAdvert BY <1>1 DEF node!MainAdvert
<1>2. CASE node!MainTimeout BY <1>2 DEF node!MainTimeout
<1>3. CASE node!MainShutdown BY <1>3 DEF node!MainShutdown
<1>4. CASE node!MainError BY <1>4, NodeExit DEF node!MainError, node!Fatal
<1>5. CASE node!EngineHAState
  <2>1. /\ main \in {"becomeMaster", "becomeBackup", "becomeShutdown"}
        /\ main' = CASE main = "becomeMaster" -> "master"
                     [] main = "becomeBackup" -> "backup"
                     [] main = "becomeShutdown" -> "shutdown"
        /\ UNCHANGED <<state, senders>>
    BY <1>5 DEF node!EngineHAState, node!Target, node!Return
  <2> QED BY <2>1
<1>6. CASE node!BecomeMaster
  <2>1. senders.idle = 0 /\ senders.send = 0 /\ senders.last = 0
    <3>1. senders.idle \in Nat /\ senders.send \in Nat /\ senders.last \in Nat OBVIOUS
    <3>2. senders.idle + senders.send = 0 /\ ~(senders.last > 0)
      BY <1>6 DEF node!BecomeMaster
    <3> QED BY <3>1, <3>2, SMT
  <2>2. senders' = node!Senders(1, 0, 0) /\ state' = "LEADER" /\ main' = "select"
    BY <1>6, <2>1 DEF node!BecomeMaster
  <2> QED BY <2>2 DEF node!Senders
<1>7. CASE node!BecomeBackup BY <1>7 DEF node!BecomeBackup, node!Senders
<1>8. CASE node!StopSender BY <1>8 DEF node!StopSender, node!Senders
<1>9. CASE node!BecomeShutdown BY <1>9, NodeExit DEF node!BecomeShutdown
<1> QED BY <1>1, <1>2, <1>3, <1>4, <1>5, <1>6, <1>7, <1>8, <1>9 DEF node!Main

(* A sender moves between its places, ends, or ends the process. *)
LEMMA NodeSender ==
    ASSUME NodeInv, node!Sender
    PROVE  NodeInv'
<1> USE DEF NodeInv, MainMatchesState, node!SenderMatchesState, node!Dead
<1>1. CASE node!SenderTick BY <1>1 DEF node!SenderTick, node!Senders
<1>2. CASE node!SenderSent BY <1>2 DEF node!SenderSent, node!Senders
<1>3. CASE node!SenderError BY <1>3, NodeExit DEF node!SenderError, node!Fatal
<1>4. CASE node!SenderLast BY <1>4 DEF node!SenderLast, node!Senders
<1> QED BY <1>1, <1>2, <1>3, <1>4 DEF node!Sender

(* The other goroutines and the engine leave all of it alone, or end the    *)
(* process.                                                                 *)
LEMMA NodeOther ==
    ASSUME NodeInv, node!Receiver \/ node!Reporter \/ node!Others \/ node!Engine
           \/ UNCHANGED node!vars
    PROVE  NodeInv'
<1>1. CASE node!ReceiveError \/ node!WatchError
  BY <1>1, NodeExit DEF node!ReceiveError, node!WatchError, node!Fatal
<1>2. CASE UNCHANGED <<main, state, senders>>
  BY <1>2 DEF NodeInv, MainMatchesState, node!SenderMatchesState, node!Dead
<1>3. CASE \E p \in Priorities : node!ReceiveAdvert(p) BY <1>2, <1>3 DEF node!ReceiveAdvert
<1>4. CASE node!Reporter
  BY <1>2, <1>4 DEF node!Reporter, node!ReportCall, node!HAUpdate, node!ReportReply,
    node!ReportError
<1>5. CASE node!CheckConfig \/ node!WatchEngine \/ node!Signal
  BY <1>2, <1>5 DEF node!CheckConfig, node!WatchEngine, node!Signal
<1>6. CASE node!Engine
  BY <1>2, <1>6 DEF node!Engine, node!EngineState, node!EngineStatus,
    node!EngineTimeout, node!RequestFailover, node!haVars
<1>7. CASE UNCHANGED node!vars BY <1>2, <1>7 DEF node!vars, node!haVars
<1> QED BY <1>1, <1>3, <1>4, <1>5, <1>6, <1>7 DEF node!Receiver, node!Others

(* The sender goroutine follows the HA state, for every configuration, any  *)
(* size of the queue and any number of failures before a goroutine gives up.*)
THEOREM SenderCorrect == node!Spec => []node!SenderMatchesState
<1>1. NodeInv /\ [node!Next]_node!vars => NodeInv'
  BY NodeMain, NodeSender, NodeOther DEF node!Next
<1> QED BY NodeInit, <1>1, PTL DEF node!Spec, NodeInv
=============================================================================

------------------------------- MODULE HAConn -------------------------------
(* The raw IP connection of the HA component (ha/net.go, IPHAConn): an      *)
(* advertisement is sent; on the way one word of it may be damaged, it may  *)
(* be cut short, forwarded by a router or come back to its sender; and the  *)
(* connection decides what reaches the node.                                *)
EXTENDS VRRP

CONSTANTS
    Adverts,      \* the advertisements newAdvertisement makes
    Damage,       \* what a damaged word may turn into
    laddr, raddr, \* the addresses of the sending connection
    peer,         \* the local address of the other node's connection
    Nil

ASSUME ConnAssumption ==
    /\ Adverts \subseteq {a \in Advertisement : a.Checksum = 0}
    /\ Damage \subseteq 0..(B16 - 1)
    /\ {laddr, raddr, peer} \subseteq Addresses
    /\ laddr # peer
    /\ Nil \notin Advertisement

VARIABLES
    sent,         \* the advertisement that was last sent, or Nil
    wire,         \* the packet on the network, or Nil
    faults,       \* what happened to it since it was sent
    received,     \* the advertisement receive returned, or Nil
    outcome       \* how receive ended

vars == <<sent, wire, faults, received, outcome>>

(* A packet: whole, or cut short in its payload or its header. *)
Packet == [src: Addresses, dst: Addresses, ttl: 0..255, whole: BOOLEAN,
           words: [1..4 -> 0..(B16 - 1)]]

Init == sent = Nil /\ wire = Nil /\ faults = {} /\ received = Nil /\ outcome = "none"

(* IPHAConn.send: an advertisement without a checksum gets one. *)
PackedUnsummed(a) == Words(a)                  \* mutant: no checksum
Packed(a) ==
    IF a.Checksum = 0 THEN [Words(a) EXCEPT ![4] = checksum(Words(a), laddr, raddr)]
    ELSE Words(a)

Send(a) ==
    /\ wire = Nil
    /\ sent' = a
    /\ wire' = [src |-> laddr, dst |-> raddr, ttl |-> 255, whole |-> TRUE,
                words |-> Packed(a)]
    /\ faults' = {} /\ received' = Nil /\ outcome' = "none"

(* The write fails, or does not end before its deadline. *)
SendError ==
    /\ wire = Nil
    /\ outcome' = "error" /\ received' = Nil
    /\ faults' = faults \cup {"write"}
    /\ UNCHANGED <<sent, wire>>

(* The network. *)
Corrupt(i, w) ==
    /\ wire # Nil /\ "corrupt" \notin faults /\ wire.words[i] # w
    /\ wire' = [wire EXCEPT !.words[i] = w]
    /\ faults' = faults \cup {"corrupt"}
    /\ UNCHANGED <<sent, received, outcome>>

Truncate ==
    /\ wire # Nil /\ wire.whole
    /\ wire' = [wire EXCEPT !.whole = FALSE]
    /\ faults' = faults \cup {"truncate"}
    /\ UNCHANGED <<sent, received, outcome>>

Forward ==
    /\ wire # Nil /\ wire.ttl = 255
    /\ wire' = [wire EXCEPT !.ttl = 254]
    /\ faults' = faults \cup {"forward"}
    /\ UNCHANGED <<sent, received, outcome>>

(* binary.Read of the payload *)
Unpacked(ws) ==
    [VersionType |-> ws[1] \div 256, VRID |-> ws[1] % 256,
     Priority |-> ws[2] \div 256, CountIPAddrs |-> ws[2] % 256,
     AdvertInt |-> ws[3], Checksum |-> ws[4]]

(* readPacket gives the packet, or Nil for an error. An IPv4 packet comes   *)
(* with its header, which may have been cut; the destination and the hop    *)
(* limit of an IPv6 packet are control messages, which may be missing. The  *)
(* sums that stand for addresses do not tell the families apart.            *)
readIPv4Packet(p) == IF p.whole THEN {p} ELSE {p, Nil}
readIPv6Packet(p) == {p, Nil}
readPacket(p) == readIPv4Packet(p) \cup readIPv6Packet(p)

(* IPHAConn.receive by the connection whose local address is `me`. *)
IgnoresUnsummed(me, p) ==                      \* mutant: the checksum is not validated
    ~p.whole \/ p.src = me \/ p.ttl # 255
Ignores(me, p) ==
    \/ ~p.whole
    \/ p.src = me
    \/ p.ttl # 255
    \/ checksum(p.words, p.src, p.dst) # 0

Receive(me) ==
    /\ wire # Nil
    /\ \E p \in readPacket(wire) \ {Nil} :
         IF Ignores(me, p)
         THEN outcome' = "ignored" /\ received' = Nil
         ELSE outcome' = "delivered" /\ received' = Unpacked(p.words)
    /\ faults' = IF me = laddr THEN faults \cup {"own"} ELSE faults
    /\ wire' = Nil
    /\ UNCHANGED sent

(* Nothing can be read: ENOPROTOOPT and EPROTO are ignored, other errors,   *)
(* and a packet that cannot be made out, returned.                          *)
ReceiveError ==
    /\ \/ wire = Nil /\ outcome' \in {"ignored", "error"}
       \/ wire # Nil /\ Nil \in readPacket(wire) /\ outcome' = "error"
    /\ received' = Nil /\ wire' = Nil
    /\ faults' = faults \cup {"read"}
    /\ UNCHANGED sent

Next ==
    \/ \E a \in Adverts : Send(a)
    \/ SendError
    \/ \E i \in 1..4, w \in Damage : Corrupt(i, w)
    \/ Truncate
    \/ Forward
    \/ \E me \in {laddr, peer} : Receive(me)
    \/ ReceiveError

Spec == Init /\ [][Next]_vars
-----------------------------------------------------------------------------
(* Every field that is received is a number of its width. *)
TypeOK ==
    /\ sent \in Advertisement \cup {Nil}
    /\ wire \in Packet \cup {Nil}
    /\ faults \subseteq {"corrupt", "truncate", "forward", "own", "read", "write"}
    /\ received \in Advertisement \cup {Nil}
    /\ outcome \in {"none", "ignored", "error", "delivered"}

(* In one's complement arithmetic 0 and 65535 are the same number. *)
SameWord(u, w) == u = w \/ {u, w} = {0, B16 - 1}

(* What receive returns is what send was given, in every field but the     *)
(* checksum, whatever single word the network damaged: the checksum that   *)
(* IPHAConn.receive validates tells all words apart except 0 from 65535.   *)
DeliveredIsSent ==
    received # Nil =>
        \A i \in 1..3 : SameWord(Words(received)[i], Words(sent)[i])

(* The checksum send computes over its own addresses is the one receive    *)
(* validates over the addresses of the packet: an advertisement nothing    *)
(* happened to is delivered to the peer.                                   *)
UntouchedIsDelivered == outcome = "ignored" => faults # {}
=============================================================================

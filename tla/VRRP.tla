-------------------------------- MODULE VRRP --------------------------------
(* What the HA component computes: the advertisement and its checksum      *)
(* (ha/net.go), the timers and the decisions on an advertisement           *)
(* (ha/core.go). Durations are in milliseconds.                            *)
EXTENDS Integers, Sequences

B16 == 256 * 256

(* VRRP version 3, type 1 *)
vrrpVersionType == 3 * 16 + 1

(* The fields of an advertisement, each an unsigned integer of its width.  *)
Advertisement == [VersionType: 0..255, VRID: 0..255, Priority: 0..255,
                  CountIPAddrs: 0..255, AdvertInt: 0..(B16 - 1), Checksum: 0..(B16 - 1)]

newAdvertisement(vrid, priority, interval) ==
    [VersionType |-> vrrpVersionType, VRID |-> vrid, Priority |-> priority,
     CountIPAddrs |-> 0, AdvertInt |-> (interval \div 10) % B16, Checksum |-> 0]

(* The interval a backup takes from an advertisement: 10*advert.AdvertInt  *)
(* is multiplied in the width of AdvertInt.                                *)

AdvertInterval(advertInt) == (10 * advertInt) % B16

(* Node.resetMasterDownInterval *)
MasterDownIntervalUnscaled(priority, advertInterval) == \* mutant: the skew is not divided
    3 * advertInterval + (256 - priority) * advertInterval

MasterDownInterval(priority, advertInterval) ==
    3 * advertInterval + ((256 - priority) * advertInterval) \div 256

(* A leader gives way to an advertisement: a higher priority, or the same  *)
(* one when the remote address is the higher. Addresses are numbers.       *)

GivesWayAny(priority, localAddr, remoteAddr, advertPriority) == \* mutant: any other priority
    \/ advertPriority \notin {0, priority}
    \/ advertPriority = priority /\ remoteAddr > localAddr


GivesWay(priority, localAddr, remoteAddr, advertPriority) ==
    \/ advertPriority > priority
    \/ advertPriority = priority /\ remoteAddr > localAddr

(* A backup takes over on an advertisement: the shutdown advertisement, or *)
(* a lower priority when it may preempt.                                   *)

TakesOverAny(priority, preempt, advertPriority) ==   \* mutant: from a higher one too
    \/ advertPriority = 0
    \/ preempt /\ advertPriority # priority

TakesOver(priority, preempt, advertPriority) ==
    \/ advertPriority = 0
    \/ preempt /\ advertPriority < priority

-----------------------------------------------------------------------------
(* The advertisement as 16 bit words in network order. An address enters   *)
(* the checksum only through the sum of its words, and is represented by   *)
(* that sum: of two words for IPv4, of eight for IPv6.                     *)
Addresses == 0..(8 * (B16 - 1))

Words(a) == <<256 * a.VersionType + a.VRID, 256 * a.Priority + a.CountIPAddrs,
              a.AdvertInt, a.Checksum>>

(* The pseudo header (addresses, protocol, length; its zeros do not count) *)
(* and the words of the advertisement.                                     *)
ChecksumInput(ws, src, dst) == src + dst + 112 + 8 + ws[1] + ws[2] + ws[3] + ws[4]

(* A sum of these few words has all of its carries added in two turns of   *)
(* the loop.                                                               *)
Carry(sum) == (sum % B16) + (sum \div B16)
ipChecksum(sum) == (B16 - 1) - Carry(Carry(sum))

checksum(ws, src, dst) == ipChecksum(ChecksumInput(ws, src, dst))
=============================================================================

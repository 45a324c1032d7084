------------------------------ MODULE NhdpTlv ------------------------------
(***************************************************************************)
(* The per-domain willingness and MPR TLVs of NHDP (nhdp_domain.c): a     *)
(* sender encodes them from its domain list, a receiver decodes them into *)
(* its own.  A domain's position in its node's _domain_list is its index: *)
(* domains are appended with index = _domain_counter++ and never removed. *)
(*                                                                         *)
(* A TLV value is a sequence of bytes; byte k of the C buffer is s[k+1].   *)
(***************************************************************************)
EXTENDS Naturals, Sequences, SequencesExt, Bitwise

CONSTANTS
    Exts,          \* TLV extension types a domain may use (uint8_t ext)
    MaxDomains,    \* NHDP_MAXIMUM_DOMAINS
    Willingness,   \* local willingness values a domain may be configured to
    WillTlvSize,   \* tlvsize of the willingness TLV buffer
    MprTlvSize,    \* tlvsize of the MPR TLV buffer
    MprTypesSize,  \* size of the mprtypes buffer
    SameDomains    \* whether receiver and sender have the same domain list

ASSUME /\ Exts \subseteq 0..255
       /\ Willingness \subseteq 0..15
       /\ {MaxDomains, WillTlvSize, MprTlvSize, MprTypesSize} \subseteq Nat \ {0}
       /\ SameDomains \in BOOLEAN

(* RFC 7181 constants used by nhdp_domain.c.                              *)
RFC7181_WILLINGNESS_MASK  == 15
RFC7181_WILLINGNESS_SHIFT == 4
RFC7181_WILLINGNESS_NEVER == 0
RFC7181_MPR_FLOODING      == 1

(* A node's domain list: distinct extension types in index order.        *)
DomainLists == {l \in SetToAllKPermutations(Exts) : Len(l) <= MaxDomains}

(* The index of the domain with extension e in list l.                    *)
IndexOf(l, e) == CHOOSE i \in 0..Len(l) - 1 : l[i + 1] = e

Zeros(n) == [k \in 1..n |-> 0]

(* Byte k (0-based) of s set to s[k] | v.                                 *)
OrByte(s, k, v) == [s EXCEPT ![k + 1] = @ | v]

(* A TLV as the reader sees it: present with a value, or absent.         *)
NoTlv == [present |-> FALSE, value |-> <<>>]

(* The TLV a writer produces from its accumulated buffer: absent when the *)
(* encoder failed, else the bytes up to the length it returned.            *)
TlvOf(acc) == IF acc.ok THEN [present |-> TRUE, value |-> SubSeq(acc.buf, 1, acc.len)]
              ELSE NoTlv

-----------------------------------------------------------------------------
(* nhdp_domain_encode_mprtypes_tlvvalue: the extension types in list      *)
(* order, cut at the buffer size.                                          *)
EncodeMprTypes(l) == SubSeq(l, 1, IF Len(l) < MprTypesSize THEN Len(l) ELSE MprTypesSize)

(* Variant of EncodeWillingness that puts domain i in byte i/2, one byte  *)
(* too low (the +1 for the flooding nibble forgotten).                     *)
EncodeWillingnessLow(flood, l, will) ==
    LET step(acc, i) ==
            LET idx == i \div 2
                v   == will[l[i + 1]] & RFC7181_WILLINGNESS_MASK
                nib == IF i % 2 = 0 THEN v * 2^RFC7181_WILLINGNESS_SHIFT ELSE v
            IN  IF ~acc.ok \/ idx >= WillTlvSize THEN [acc EXCEPT !.ok = FALSE]
                ELSE [ok  |-> TRUE,
                      buf |-> OrByte(acc.buf, idx, nib),
                      len |-> IF idx + 1 > acc.len THEN idx + 1 ELSE acc.len]
        start == [ok |-> TRUE, buf |-> [Zeros(WillTlvSize) EXCEPT ![1] = flood], len |-> 0]
    IN  TlvOf(FoldLeft(step, start, [i \in 1..Len(l) |-> i - 1]))

(* nhdp_domain_encode_willingness_tlvvalue: byte 0 is the flooding         *)
(* willingness, domain i goes to byte (i+1)/2, in the high nibble when i   *)
(* is even; an index past the buffer is an error.  Returns the bytes up to *)
(* the length written.                                                     *)
EncodeWillingness(flood, l, will) ==
    LET step(acc, i) ==
            LET idx == (i + 1) \div 2
                v   == will[l[i + 1]] & RFC7181_WILLINGNESS_MASK
                nib == IF i % 2 = 0 THEN v * 2^RFC7181_WILLINGNESS_SHIFT ELSE v
            IN  IF ~acc.ok \/ idx >= WillTlvSize THEN [acc EXCEPT !.ok = FALSE]
                ELSE [ok  |-> TRUE,
                      buf |-> OrByte(acc.buf, idx, nib),
                      len |-> IF idx + 1 > acc.len THEN idx + 1 ELSE acc.len]
        start == [ok |-> TRUE, buf |-> [Zeros(WillTlvSize) EXCEPT ![1] = flood], len |-> 0]
    IN  TlvOf(FoldLeft(step, start, [i \in 1..Len(l) |-> i - 1]))

(* Variant of EncodeMpr that puts domain i at bit i, on top of the        *)
(* flooding MPR bit.                                                       *)
EncodeMprNoOffset(floodMpr, l, mpr) ==
    LET step(acc, i) ==
            LET bit  == i % 8
                byte == i \div 8
            IN  IF ~acc.ok \/ byte >= MprTlvSize THEN [acc EXCEPT !.ok = FALSE]
                ELSE [ok  |-> TRUE,
                      buf |-> IF mpr[l[i + 1]] THEN OrByte(acc.buf, byte, 2^bit) ELSE acc.buf,
                      len |-> IF byte + 1 > acc.len THEN byte + 1 ELSE acc.len]
        start == [ok  |-> TRUE,
                  buf |-> IF floodMpr THEN [Zeros(MprTlvSize) EXCEPT ![1] = RFC7181_MPR_FLOODING]
                          ELSE Zeros(MprTlvSize),
                  len |-> 0]
    IN  TlvOf(FoldLeft(step, start, [i \in 1..Len(l) |-> i - 1]))

(* nhdp_domain_encode_mpr_tlvvalue: bit 0 of byte 0 is flooding MPR,      *)
(* domain i is bit (i+1)&7 of byte (i+1)>>3; an index past the buffer is   *)
(* an error (length 0).                                                    *)
EncodeMpr(floodMpr, l, mpr) ==
    LET step(acc, i) ==
            LET bit  == (i + 1) % 8
                byte == (i + 1) \div 8
            IN  IF ~acc.ok \/ byte >= MprTlvSize THEN [acc EXCEPT !.ok = FALSE]
                ELSE [ok  |-> TRUE,
                      buf |-> IF mpr[l[i + 1]] THEN OrByte(acc.buf, byte, 2^bit) ELSE acc.buf,
                      len |-> IF byte + 1 > acc.len THEN byte + 1 ELSE acc.len]
        start == [ok  |-> TRUE,
                  buf |-> IF floodMpr THEN [Zeros(MprTlvSize) EXCEPT ![1] = RFC7181_MPR_FLOODING]
                          ELSE Zeros(MprTlvSize),
                  len |-> 0]
    IN  TlvOf(FoldLeft(step, start, [i \in 1..Len(l) |-> i - 1]))

-----------------------------------------------------------------------------
(* nhdp_domain_process_mprtypes_tlv: with a TLV, the buffer is filled     *)
(* with the receiver's own extension types in list order, whatever the    *)
(* TLV says; without one, it holds the receiver's first domain only.      *)
ProcessMprTypes(l, tlv) == IF tlv.present THEN EncodeMprTypes(l) ELSE <<l[1]>>

(* Variant of ProcessWillingness that keeps the whole byte for an even    *)
(* index instead of shifting the high nibble down.                         *)
ProcessWillingnessNoShift(l, mprtypes, t) ==
    LET tlv == t.value
        ext(i) == mprtypes[i + 1]
        read(i) ==
            LET v == tlv[(i + 1) \div 2 + 1]
            IN  IF IndexOf(l, ext(i)) % 2 = 0 THEN v ELSE v & RFC7181_WILLINGNESS_MASK
        hit(e) == {i \in 0..Len(mprtypes) - 1 : ext(i) = e /\ (i + 1) \div 2 < Len(tlv)}
    IN  IF ~t.present
        THEN [flood |-> RFC7181_WILLINGNESS_NEVER,
              will  |-> [e \in ToSet(l) |-> RFC7181_WILLINGNESS_NEVER]]
        ELSE
        [flood |-> tlv[1] & RFC7181_WILLINGNESS_MASK,
         will  |-> [e \in ToSet(l) |->
                      IF hit(e) = {} THEN RFC7181_WILLINGNESS_NEVER
                      ELSE read(CHOOSE i \in hit(e) : TRUE)]]

(* nhdp_domain_process_willingness_tlv followed by                        *)
(* nhdp_domain_store_willingness: every domain starts at NEVER; entry i of *)
(* mprtypes reads byte (i+1)/2, taking the nibble by the parity of the     *)
(* local domain's index.                                                   *)
ProcessWillingness(l, mprtypes, t) ==
    LET tlv == t.value
        ext(i) == mprtypes[i + 1]
        read(i) ==
            LET idx == (i + 1) \div 2
                v   == tlv[idx + 1]
            IN  IF IndexOf(l, ext(i)) % 2 = 0
                THEN shiftR(v, RFC7181_WILLINGNESS_SHIFT)
                ELSE v & RFC7181_WILLINGNESS_MASK
        hit(e) == {i \in 0..Len(mprtypes) - 1 : ext(i) = e /\ (i + 1) \div 2 < Len(tlv)}
    IN  IF ~t.present
        THEN [flood |-> RFC7181_WILLINGNESS_NEVER,
              will  |-> [e \in ToSet(l) |-> RFC7181_WILLINGNESS_NEVER]]
        ELSE
        [flood |-> tlv[1] & RFC7181_WILLINGNESS_MASK,
         will  |-> [e \in ToSet(l) |->
                      IF hit(e) = {} THEN RFC7181_WILLINGNESS_NEVER
                      ELSE read(CHOOSE i \in hit(e) : TRUE)]]

(* nhdp_domain_process_mpr_tlv: all flags reset, flooding from bit 0,     *)
(* entry i of mprtypes from bit (i+1)&7 of byte (i+1)>>3.                  *)
ProcessMpr(l, mprtypes, t) ==
    LET tlv == t.value
        hit(e) == {i \in 0..Len(mprtypes) - 1 :
                     mprtypes[i + 1] = e /\ (i + 1) \div 8 < Len(tlv)}
        bitSet(i) == (shiftR(tlv[(i + 1) \div 8 + 1], (i + 1) % 8) & 1) = 1
    IN  IF ~t.present THEN [floodMpr |-> FALSE, mpr |-> [e \in ToSet(l) |-> FALSE]]
        ELSE
        [floodMpr |-> (tlv[1] & RFC7181_MPR_FLOODING) # 0,
         mpr      |-> [e \in ToSet(l) |-> \E i \in hit(e) : bitSet(i)]]
-----------------------------------------------------------------------------
(* One HELLO from a sender to a receiver.  The sender's configuration is  *)
(* its domain list, the local willingness of each domain and of flooding, *)
(* and the MPR flags it selected for the receiver.                         *)

VARIABLES sender, receiver, msg, received

vars == <<sender, receiver, msg, received>>

SenderConfigs ==
    UNION {[doms : {l}, will : [ToSet(l) -> Willingness], flood : Willingness,
            mpr : [ToSet(l) -> BOOLEAN], floodMpr : BOOLEAN]
           : l \in DomainLists \ {<<>>}}

(* The receiver's domain list: the sender's, or the same domains in any   *)
(* order when configured independently.                                    *)
ReceiverLists(l) ==
    IF SameDomains THEN {l} ELSE {r \in DomainLists : ToSet(r) = ToSet(l)}

Init ==
    /\ sender \in SenderConfigs
    /\ receiver \in ReceiverLists(sender.doms)
    /\ msg = {}
    /\ received = {}

(* The HELLO writer: MPR types, willingness and MPR TLVs.  The writer is *)
(* not in this snapshot; a node with a single domain may leave the MPR    *)
(* types TLV out, which the reader's NULL branch answers.                 *)
TypesTlvs ==
    {[present |-> TRUE, value |-> EncodeMprTypes(sender.doms)]}
      \cup (IF Len(sender.doms) = 1 THEN {NoTlv} ELSE {})

SendHello ==
    /\ \E types \in TypesTlvs :
        msg' = {[types |-> types,
                will  |-> EncodeWillingness(sender.flood, sender.doms, sender.will),
                mpr   |-> EncodeMpr(sender.floodMpr, sender.doms, sender.mpr)]}
    /\ UNCHANGED <<sender, receiver, received>>

(* The HELLO reader: the MPR types TLV first, then the willingness and    *)
(* MPR TLVs against its result.                                          *)
ReceiveHello ==
    \E m \in msg :
        LET types == ProcessMprTypes(receiver, m.types) IN
        /\ received' = {[will |-> ProcessWillingness(receiver, types, m.will),
                         mpr  |-> ProcessMpr(receiver, types, m.mpr)]}
    /\ UNCHANGED <<sender, receiver, msg>>

Next == SendHello \/ ReceiveHello

Spec == Init /\ [][Next]_vars

-----------------------------------------------------------------------------
Byte == 0..255

TypeOK ==
    /\ sender \in SenderConfigs
    /\ receiver \in DomainLists
    /\ \A m \in msg : /\ m.types \in [present : BOOLEAN, value : Seq(Exts)]
                     /\ m.will \in [present : BOOLEAN, value : Seq(Byte)]
                     /\ m.mpr \in [present : BOOLEAN, value : Seq(Byte)]
    /\ \A r \in received : /\ r.will.flood \in 0..15
                          /\ r.will.will \in [ToSet(receiver) -> 0..15]
                          /\ r.mpr.mpr \in [ToSet(receiver) -> BOOLEAN]

(* The shared domains of sender and receiver.                             *)
Shared == ToSet(sender.doms) \cap ToSet(receiver)

(* Every domain both nodes run gets the willingness the sender configured,*)
(* and so does flooding: the nibble packing of the encoder and the        *)
(* parity-based unpacking of the reader agree.                            *)
WillingnessRoundTrip ==
    \A r \in received :
        /\ r.will.flood = sender.flood
        /\ \A e \in Shared : r.will.will[e] = sender.will[e]

(* Every domain both nodes run learns whether the sender selected it as   *)
(* MPR, and flooding MPR is kept apart from domain 0's bit.               *)
MprRoundTrip ==
    \A r \in received :
        /\ r.mpr.floodMpr = sender.floodMpr
        /\ \A e \in Shared : r.mpr.mpr[e] = sender.mpr[e]

=============================================================================

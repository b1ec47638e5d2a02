------------------------------ MODULE PTDecode ------------------------------
(***************************************************************************)
(* PTDecoder::decode (proxy/PTDecoder.h): the packets of one AUX record,    *)
(* from the first PSB on, one step per packet.  The instruction pointers    *)
(* found in TIP and FUP packets go to AFLMaybeLog.                          *)
(*                                                                         *)
(* An address is four 16-bit words, the lowest first.  What other packets  *)
(* carry is not used by the code and not modelled.                         *)
(***************************************************************************)
EXTENDS Integers, Sequences, FiniteSetsExt

CONSTANTS Inputs,     \* traces, in a form of the model's choice
          Bytes(_)    \* the bytes of a trace

UINT8_MAX  == 255
UINT16_MAX == 65535

Byte == 0..UINT8_MAX
Word == 0..UINT16_MAX

ASSUME BytesAssumption == \A i \in Inputs : Bytes(i) \in Seq(Byte)

VARIABLES input,    \* ghost: the trace that is decoded
          buf,      \* map, the bytes of the record
          p,        \* bytes before the position p; end is Len(buf)
          last_ip,
          pc,       \* "search" for a PSB, "packet", or "done"
          psb,      \* ghost: where the last search has stopped, -1 before
          ips       \* the addresses given to AFLMaybeLog, in order

vars == <<input, buf, p, last_ip, pc, psb, ips>>

Zero == <<0, 0, 0, 0>>

Init ==
    /\ input \in Inputs
    /\ buf = Bytes(input)
    /\ p = 0 /\ last_ip = Zero
    /\ pc = "search" /\ psb = -1
    /\ ips = <<>>

-----------------------------------------------------------------------------
At(k)   == buf[p + k + 1]        \* p[k]
Left(n) == Len(buf) - p >= n

\* The 16 bytes of a PSB are at position i.
PSBAt(i) ==
    /\ Len(buf) - i >= 16
    /\ \A k \in 0..15 : buf[i + k + 1] = IF k % 2 = 0 THEN 2 ELSE 130

SearchFromStart ==
    LET found == {i \in 0..Len(buf) : PSBAt(i)}
    IN  /\ pc = "search"
        /\ IF p < Len(buf) /\ found # {}
           THEN p' = Min(found) /\ psb' = p' /\ pc' = "packet"
           ELSE p' = Len(buf) /\ pc' = "done" /\ UNCHANGED psb
        /\ UNCHANGED <<input, buf, last_ip, ips>>

\* memmem: the first PSB at or after p, or else the end.
Search ==
    LET found == {i \in p..Len(buf) : PSBAt(i)}
    IN  /\ pc = "search"
        /\ IF p < Len(buf) /\ found # {}
           THEN p' = Min(found) /\ psb' = p' /\ pc' = "packet"
           ELSE p' = Len(buf) /\ pc' = "done" /\ UNCHANGED psb
        /\ UNCHANGED <<input, buf, last_ip, ips>>

\* By how much a packet that begins with 2 moves p; 0: no such packet.
ExtendedLength ==
    CASE At(1) = 163 /\ Left(8)                  -> 8    \* long TNT
      [] At(1) = 67  /\ Left(8)                  -> 8    \* PIP
      [] At(1) = 3   /\ Left(4) /\ At(3) = 0     -> 4    \* CBR
      [] At(1) = 131                             -> 2    \* TraceStop
      [] At(1) = 243 /\ Left(8)                  -> 8    \* OVF
      [] At(1) = 130 /\ PSBAt(p)                 -> 16   \* PSB
      [] At(1) = 35                              -> 2    \* PSBEND
      [] At(1) = 195 /\ Left(11) /\ At(2) = 136  -> 10   \* MNT
      [] At(1) = 115 /\ Left(7)                  -> 7    \* TMA
      [] At(1) = 200 /\ Left(7)                  -> 7    \* VMCS
      [] OTHER                                   -> 0

\* By how much a packet of fixed length with an odd first byte moves p.
OddLength ==
    CASE At(0) = 153 /\ Left(2) /\ At(1) \div 32 \in {0, 1} -> 2    \* MODE
      [] At(0) = 25 /\ Left(8)                              -> 8    \* TSC
      [] At(0) = 89 /\ Left(2)                              -> 2    \* MTC
      [] OTHER                                              -> 0

IsExtended == At(0) = 2 /\ Left(2) /\ ExtendedLength # 0
IsIP       == At(0) % 32 \in {13, 17, 1, 29}    \* TIP, TIP.PGE, TIP.PGD, FUP
IsCYC      == At(0) % 4 = 3

Move(n) ==
    /\ p' = p + n
    /\ UNCHANGED <<input, buf, last_ip, pc, psb, ips>>

AtPacket == pc = "packet" /\ p < Len(buf)

Extended == AtPacket /\ IsExtended /\ Move(ExtendedLength)

\* PAD and short TNT; also a packet with first byte 2 that is cut off.
Short == AtPacket /\ ~IsExtended /\ At(0) % 2 = 0 /\ Move(1)

Odd == AtPacket /\ OddLength # 0 /\ Move(OddLength)

\* CYC: bytes follow as long as the last one read has its lowest bit set
\* (the third bit in the first byte).  The byte at the end is read, too.
CYCEnd ==
    IF (At(0) \div 4) % 2 = 0
    THEN p
    ELSE Min({i \in p + 1..Len(buf) : i = Len(buf) \/ buf[i + 1] % 2 = 0})

CYC == AtPacket /\ IsCYC /\ Move(CYCEnd + 1 - p)

-----------------------------------------------------------------------------
(* get_ip_val                                                              *)

WordAtShifted(k) == At(2 * k + 1) + 512 * At(2 * k + 2)

WordAt(k) == At(2 * k + 1) + 256 * At(2 * k + 2)    \* the k-th word

\* Bytes of payload that IPL len asks for.
Payload(len) == IF len = 0 THEN 0 ELSE IF len < 4 THEN 2 * len ELSE 8

NewIPUnsigned(len) ==
    [k \in 1..4 |-> IF 2 * k <= Payload(len) THEN WordAt(k - 1) ELSE last_ip[k]]

\* The low words of last_ip are replaced, and bit 47 is extended unless the
\* packet has all 64 bits.
NewIP(len) ==
    LET w == [k \in 1..4 |-> IF 2 * k <= Payload(len) THEN WordAt(k - 1) ELSE last_ip[k]]
    IN  IF len < 4 THEN [w EXCEPT ![4] = IF w[3] >= 32768 THEN 65535 ELSE 0] ELSE w

\* The payload of a cut off packet is skipped as if it were there.
IPUnchecked ==
    LET len == At(0) \div 32
        got == len # 0 /\ Left(1 + Payload(len))
        ip  == IF got THEN NewIP(len) ELSE Zero
    IN  /\ AtPacket /\ IsIP
        /\ p' = p + 1 + Payload(len)
        /\ last_ip' = ip
        /\ ips' = Append(ips, ip)
        /\ UNCHANGED <<input, buf, pc, psb>>

\* The header is consumed; the payload only if it is complete.  A packet
\* without payload, or with a cut off one, counts as address 0.
IP ==
    LET len == At(0) \div 32
        got == len # 0 /\ Left(1 + Payload(len))
        ip  == IF got THEN NewIP(len) ELSE Zero
    IN  /\ AtPacket /\ IsIP
        /\ p' = p + 1 + (IF got THEN Payload(len) ELSE 0)
        /\ last_ip' = ip
        /\ ips' = Append(ips, ip)
        /\ UNCHANGED <<input, buf, pc, psb>>

\* Anything else, or the end: back to the search for a PSB.
IsUnknown == At(0) % 2 = 1 /\ ~IsIP /\ ~IsCYC /\ OddLength = 0

LeaveLoop ==
    /\ pc = "packet" /\ (p < Len(buf) => IsUnknown)
    /\ pc' = "search"
    /\ UNCHANGED <<input, buf, p, last_ip, psb, ips>>

Next == Search \/ Extended \/ Short \/ Odd \/ CYC \/ IP \/ LeaveLoop

(* decode is a loop in one thread. *)
Spec == Init /\ [][Next]_vars /\ WF_vars(Next)
-----------------------------------------------------------------------------
TypeOK ==
    /\ input \in Inputs
    /\ buf \in Seq(Byte)
    /\ p \in Nat
    /\ last_ip \in [1..4 -> Word]
    /\ pc \in {"search", "packet", "done"}
    /\ psb \in Int
    /\ ips \in Seq([1..4 -> Word])

(* The position leaves the record by at most one byte, and then decode     *)
(* ends: the CYC loop looks at one byte after the record.  It is about the *)
(* position only; the message about an unknown packet shows three bytes    *)
(* more, wherever the record ends.                                         *)
InBuffer == p <= Len(buf) + 1

(* A search never stops at a PSB that was found before: an unknown packet  *)
(* is left behind, and decode cannot loop on it.                           *)
ResyncAdvances ==
    [][pc = "search" /\ pc' = "packet" => psb = -1 \/ psb' >= psb + 16]_vars

(* A packet with IPL 0 leaves the last address as it is, which later       *)
(* packets refer to (comment of get_ip_val: "IPL 0: no IP update").        *)
NoUpdateOnIPLZero ==
    [][ips' # ips /\ At(0) \div 32 = 0 => last_ip' = last_ip]_vars

(* decode ends for every record. *)
Terminates == <>(pc = "done")
=============================================================================

--------------------------- MODULE PTDecodeProofs ---------------------------
(***************************************************************************)
(* Proofs about the decoder of PTDecode, for traces of any length and any  *)
(* content: it stays in its buffer, makes words of the bytes it has, never *)
(* finds the same PSB twice, reports the addresses of the packets that the *)
(* trace has, and comes nearer to its end with every step.                 *)
(***************************************************************************)
EXTENDS PTPackets, WellFoundedInduction, TLAPS

(* The packet loop is at the PSB it was entered with, or behind it.        *)
BehindPSB ==
    /\ pc = "search" => psb = -1 \/ p >= psb + 16
    /\ pc = "packet" => \/ p = psb /\ PSBAt(p)
                        \/ p >= psb + 16

IInv == TypeOK /\ InBuffer /\ BehindPSB

-----------------------------------------------------------------------------

(* A set of natural numbers that is not empty has a least element, which   *)
(* memmem and the CYC loop stop at.                                        *)
LEMMA MinOfNats ==
    ASSUME NEW S \in SUBSET Nat, S # {}
    PROVE  Min(S) \in S /\ \A y \in S : Min(S) <= y
<1>1. PICK x \in S : \A y \in S : ~(<<y, x>> \in OpToRel(<, Nat))
  BY NatLessThanWellFounded, WFMin, Zenon
<1>2. \A y \in S : x <= y
  <2>1. ASSUME NEW y \in S, y < x PROVE FALSE
    <3>1. <<y, x>> \in OpToRel(<, Nat)
      BY <2>1, Zenon DEF OpToRel
    <3>2. QED
      BY <1>1, <3>1, Zenon
  <2>2. QED
    BY <2>1
<1>3. QED
  BY <1>2, Zenon DEF Min

(* Bytes are natural numbers.                                              *)
LEMMA ByteIsNat == \A b \in Byte : b \in Nat
<1>1. UINT8_MAX \in Int
  BY DEF UINT8_MAX
<1>2. QED
  BY <1>1 DEF Byte

(* IPL is a natural number.                                                *)
LEMMA DivIsNat == \A b \in Nat : b \div 32 \in Nat
  BY Z3

(* A byte of the record.                                                   *)
LEMMA AtIsByte ==
    ASSUME TypeOK, NEW k \in Nat, p + k < Len(buf)
    PROVE  At(k) \in Byte
<1>1. p + k + 1 \in 1..Len(buf)
  BY DEF TypeOK
<1>2. QED
  BY <1>1 DEF TypeOK, At

(* The packets of fixed length, and the ones that begin with 2, are within *)
(* the record.                                                             *)
LEMMA FixedLengths ==
    ASSUME TypeOK, AtPacket
    PROVE  /\ IsExtended => ExtendedLength \in 1..16 /\ p + ExtendedLength <= Len(buf)
           /\ OddLength # 0 => OddLength \in 1..8 /\ p + OddLength <= Len(buf)
<1>1. p \in Nat /\ Len(buf) \in Nat /\ p < Len(buf)
  BY DEF TypeOK, AtPacket
<1>2. IsExtended => ExtendedLength \in 1..16 /\ p + ExtendedLength <= Len(buf)
  <2>1. PSBAt(p) => Len(buf) - p >= 16
    BY Zenon DEF PSBAt
  <2>2. \/ ExtendedLength = 0
        \/ ExtendedLength = 2
        \/ ExtendedLength = 4 /\ Left(4)
        \/ ExtendedLength = 7 /\ Left(7)
        \/ ExtendedLength = 8 /\ Left(8)
        \/ ExtendedLength = 10 /\ Left(11)
        \/ ExtendedLength = 16 /\ PSBAt(p)
    BY DEF ExtendedLength
  <2>3. QED
    BY <1>1, <2>1, <2>2 DEF IsExtended, Left
<1>3. OddLength # 0 => OddLength \in 1..8 /\ p + OddLength <= Len(buf)
  BY <1>1 DEF OddLength, Left
<1>4. QED
  BY <1>2, <1>3, Zenon

(* CYC reads to the end at most, and one byte more.                        *)
LEMMA CYCBounds ==
    ASSUME TypeOK, AtPacket
    PROVE  CYCEnd \in p..Len(buf)
<1>1. p \in Nat /\ Len(buf) \in Nat /\ p < Len(buf)
  BY DEF TypeOK, AtPacket
<1> DEFINE S == {i \in p + 1..Len(buf) : i = Len(buf) \/ buf[i + 1] % 2 = 0}
<1>2. S \in SUBSET Nat /\ Len(buf) \in S
  BY <1>1
<1>3. Min(S) \in S
  BY <1>2, MinOfNats, Zenon
<1>4. QED
  BY <1>1, <1>3 DEF CYCEnd

(* The search stops at the first PSB from p on.                            *)
LEMMA SearchEffect ==
    ASSUME TypeOK, Search
    PROVE  \/ /\ p' \in p..Len(buf) /\ PSBAt(p') /\ psb' = p' /\ pc' = "packet"
              /\ \A i \in p..Len(buf) : PSBAt(i) => p' <= i
           \/ p' = Len(buf) /\ pc' = "done" /\ psb' = psb
<1>1. p \in Nat /\ Len(buf) \in Nat
  BY DEF TypeOK
<1> DEFINE found == {i \in p..Len(buf) : PSBAt(i)}
<1>2. CASE p < Len(buf) /\ found # {}
  <2>1. p' = Min(found) /\ psb' = p' /\ pc' = "packet"
    BY <1>2, Zenon DEF Search
  <2>2. found \in SUBSET Nat
    BY <1>1
  <2>3. Min(found) \in found /\ \A i \in found : Min(found) <= i
    BY <1>2, <2>2, MinOfNats, Zenon
  <2>4. QED
    BY <2>1, <2>3, Zenon
<1>3. CASE ~(p < Len(buf) /\ found # {})
  BY <1>3, Zenon DEF Search
<1>4. QED
  BY <1>2, <1>3, Zenon

(* Two bytes make a word.                                                  *)
LEMMA WordOfBytes ==
    ASSUME NEW a \in Byte, NEW b \in Byte
    PROVE  a + 256 * b \in Word
<1>1. /\ UINT8_MAX \in Int /\ UINT8_MAX <= 255
      /\ UINT16_MAX \in Int /\ UINT16_MAX >= 65535
  BY DEF UINT8_MAX, UINT16_MAX
<1>2. a \in Int /\ b \in Int /\ 0 <= a /\ a <= 255 /\ 0 <= b /\ b <= 255
  BY <1>1 DEF Byte
<1>3. \A i, j \in Int : 0 <= i /\ i <= 255 /\ 0 <= j /\ j <= 255
                         => 0 <= i + 256 * j /\ i + 256 * j <= 65535
  BY Z3
<1>4. a + 256 * b \in Int /\ 0 <= a + 256 * b /\ a + 256 * b <= 65535
  BY <1>2, <1>3
<1>5. QED
  BY <1>1, <1>4 DEF Word

(* The address 0.                                                          *)
LEMMA ZeroIsAddress == Zero \in [1..4 -> Word]
<1>1. UINT16_MAX \in Int /\ UINT16_MAX >= 65535
  BY DEF UINT16_MAX
<1>2. 0 \in Word
  BY <1>1 DEF Word
<1>3. QED
  BY <1>2 DEF Zero

(* The address of a packet: bytes of the record make words.                *)
LEMMA AddressIsWords ==
    ASSUME TypeOK, NEW len \in Nat, Left(1 + Payload(len))
    PROVE  NewIP(len) \in [1..4 -> Word]
<1>1. Payload(len) \in 0..8 /\ p \in Nat /\ Len(buf) \in Nat /\ p + 1 + Payload(len) <= Len(buf)
  BY DEF Payload, TypeOK, Left
<1>2. ASSUME NEW k \in 1..4, 2 * k <= Payload(len)
      PROVE  WordAt(k - 1) \in Word
  <2>1. At(2 * (k - 1) + 1) \in Byte /\ At(2 * (k - 1) + 2) \in Byte
    <3>1. /\ 2 * (k - 1) + 1 \in Nat /\ p + (2 * (k - 1) + 1) < Len(buf)
          /\ 2 * (k - 1) + 2 \in Nat /\ p + (2 * (k - 1) + 2) < Len(buf)
      BY <1>1, <1>2
    <3>2. QED
      BY <3>1, AtIsByte, Zenon
  <2>2. WordAt(k - 1) = At(2 * (k - 1) + 1) + 256 * At(2 * (k - 1) + 2)
    BY Zenon DEF WordAt
  <2>3. QED
    BY <2>1, <2>2, WordOfBytes
<1> DEFINE w == [k \in 1..4 |-> IF 2 * k <= Payload(len) THEN WordAt(k - 1) ELSE last_ip[k]]
<1>3. w \in [1..4 -> Word]
  BY <1>2 DEF TypeOK
<1>4. NewIP(len) = IF len < 4 THEN [w EXCEPT ![4] = IF w[3] >= 32768 THEN 65535 ELSE 0] ELSE w
  BY DEF NewIP
<1> HIDE DEF w
<1>5. 0 \in Word /\ 65535 \in Word
  <2>1. UINT16_MAX \in Int /\ UINT16_MAX >= 65535
    BY DEF UINT16_MAX
  <2>2. QED
    BY <2>1 DEF Word
<1>6. QED
  BY <1>3, <1>4, <1>5

(* A step of the loop at a PSB leaves its 16 bytes behind.                 *)
LEMMA PSBIsExtended ==
    ASSUME TypeOK, AtPacket, PSBAt(p)
    PROVE  /\ At(0) = 2 /\ IsExtended /\ ExtendedLength = 16
           /\ OddLength = 0 /\ ~IsCYC /\ ~IsIP /\ ~IsUnknown
<1>1. At(0) = 2 /\ At(1) = 130 /\ Left(2)
  <2>1. p \in Nat /\ Len(buf) \in Nat
    BY DEF TypeOK
  <2>2. \A k \in 0..15 : buf[p + k + 1] = IF k % 2 = 0 THEN 2 ELSE 130
    BY Zenon DEF PSBAt
  <2>3. 0 \in 0..15 /\ 1 \in 0..15 /\ 0 % 2 = 0 /\ 1 % 2 = 1
    OBVIOUS
  <2>4. buf[p + 0 + 1] = 2 /\ buf[p + 1 + 1] = 130
    BY <2>2, <2>3
  <2>5. QED
    BY <2>1, <2>4 DEF At, Left, PSBAt
<1>2. ExtendedLength = 16
  BY <1>1 DEF ExtendedLength
<1>3. OddLength = 0
  BY <1>1 DEF OddLength
<1>4. ~IsCYC /\ ~IsIP /\ ~IsUnknown
  <2>1. 2 % 4 = 2 /\ 2 % 32 = 2 /\ 2 % 2 = 0
    BY Z3
  <2>2. QED
    BY <1>1, <2>1 DEF IsCYC, IsIP, IsUnknown
<1>5. QED
  BY <1>1, <1>2, <1>3, <1>4 DEF IsExtended

(* What a step of the loop may do to the position.                         *)
LEMMA Moves ==
    ASSUME TypeOK, Extended \/ Short \/ Odd \/ CYC \/ IP
    PROVE  /\ AtPacket /\ UNCHANGED <<input, buf, pc, psb>>
           /\ p' \in Nat /\ p < p' /\ p' <= Len(buf) + 1
           /\ PSBAt(p) => p' = p + 16
<1>1. AtPacket /\ UNCHANGED <<input, buf, pc, psb>>
  BY Zenon DEF Extended, Short, Odd, CYC, IP, Move
<1>2. p \in Nat /\ Len(buf) \in Nat /\ p < Len(buf)
  BY <1>1 DEF TypeOK, AtPacket
<1>3. PSBAt(p) => Extended
  BY <1>1, PSBIsExtended, Zenon DEF Short, Odd, CYC, IP
<1>4. CASE Extended
  <2>1. p' = p + ExtendedLength /\ IsExtended
    BY <1>4, Zenon DEF Extended, Move
  <2>2. ExtendedLength \in 1..16 /\ p + ExtendedLength <= Len(buf)
    BY <1>1, <2>1, FixedLengths, Zenon
  <2>3. PSBAt(p) => ExtendedLength = 16
    BY <1>1, PSBIsExtended, Zenon
  <2>4. QED
    BY <1>1, <1>2, <2>1, <2>2, <2>3
<1>5. CASE ~Extended
  <2>1. CASE Short
    BY <1>1, <1>2, <1>3, <1>5, <2>1 DEF Short, Move
  <2>2. CASE Odd
    <3>1. p' = p + OddLength /\ OddLength # 0
      BY <2>2, Zenon DEF Odd, Move
    <3>2. OddLength \in 1..8 /\ p + OddLength <= Len(buf)
      BY <1>1, <3>1, FixedLengths, Zenon
    <3>3. QED
      BY <1>1, <1>2, <1>3, <1>5, <3>1, <3>2
  <2>3. CASE CYC
    <3>1. p' = p + (CYCEnd + 1 - p)
      BY <2>3, Zenon DEF CYC, Move
    <3>2. CYCEnd \in p..Len(buf)
      BY <1>1, CYCBounds, Zenon
    <3>3. QED
      BY <1>1, <1>2, <1>3, <1>5, <3>1, <3>2
  <2>4. CASE IP
    <3> DEFINE len == At(0) \div 32
               got == len # 0 /\ Left(1 + Payload(len))
    <3>1. p' = p + 1 + (IF got THEN Payload(len) ELSE 0)
      BY <2>4, Zenon DEF IP
    <3>2. Payload(len) \in Nat
      <4>1. At(0) \in Byte
        BY <1>2, AtIsByte
      <4>2. len \in Nat
        BY <4>1, ByteIsNat, DivIsNat, Zenon
      <4>3. QED
        BY <4>2 DEF Payload
    <3>3. got => p + 1 + Payload(len) <= Len(buf)
      BY <1>2, <3>2 DEF Left
    <3> HIDE DEF len, got
    <3>4. QED
      BY <1>1, <1>2, <1>3, <1>5, <3>1, <3>2, <3>3
  <2>5. QED
    BY <1>5, <2>1, <2>2, <2>3, <2>4, Zenon
<1>6. QED
  BY <1>4, <1>5, Zenon

-----------------------------------------------------------------------------
(* The types: what a step reports is made of words.                        *)
LEMMA TypeKept ==
    ASSUME TypeOK, [Next]_vars
    PROVE  TypeOK'
<1>1. CASE Search
  <2>1. UNCHANGED <<input, buf, last_ip, ips>>
    BY <1>1, Zenon DEF Search
  <2>2. p' \in Nat /\ pc' \in {"packet", "done"} /\ psb' \in Int
    <3>1. p \in Nat /\ Len(buf) \in Nat /\ psb \in Int
      BY DEF TypeOK
    <3>2. QED
      BY <1>1, <3>1, SearchEffect
  <2>3. QED
    BY <2>1, <2>2, Zenon DEF TypeOK
<1>2. CASE Extended \/ Short \/ Odd \/ CYC
  <2>1. UNCHANGED <<input, buf, last_ip, pc, psb, ips>>
    BY <1>2, Zenon DEF Extended, Short, Odd, CYC, Move
  <2>2. p' \in Nat
    BY <1>2, Moves, Zenon
  <2>3. QED
    BY <2>1, <2>2, Zenon DEF TypeOK
<1>3. CASE IP
  <2> DEFINE len == At(0) \div 32
             got == len # 0 /\ Left(1 + Payload(len))
             ip  == IF got THEN NewIP(len) ELSE Zero
  <2>1. last_ip' = ip /\ ips' = Append(ips, ip) /\ AtPacket
    BY <1>3, Zenon DEF IP
  <2>2. p' \in Nat /\ UNCHANGED <<input, buf, pc, psb>>
    BY <1>3, Moves, Zenon
  <2>3. len \in Nat
    <3>1. At(0) \in Byte
      <4>1. p + 0 < Len(buf)
        BY <2>1 DEF AtPacket, TypeOK
      <4>2. QED
        BY <4>1, AtIsByte, Zenon
    <3>2. QED
      BY <3>1, ByteIsNat, DivIsNat, Zenon
  <2>4. Zero \in [1..4 -> Word]
    BY ZeroIsAddress, Zenon
  <2> HIDE DEF len
  <2>5. ip \in [1..4 -> Word]
    BY <2>3, <2>4, AddressIsWords, Zenon
  <2> HIDE DEF ip
  <2>6. QED
    BY <2>1, <2>2, <2>5 DEF TypeOK
<1>4. CASE LeaveLoop
  BY <1>4, Zenon DEF LeaveLoop, TypeOK
<1>5. CASE UNCHANGED vars
  BY <1>5, Zenon DEF vars, TypeOK
<1>6. QED
  BY <1>1, <1>2, <1>3, <1>4, <1>5, Zenon DEF Next

(* The position: the search stops at a PSB or the end, the loop passes the *)
(* PSB it was entered with in one step, and only goes forward.             *)
LEMMA PositionKept ==
    ASSUME IInv, [Next]_vars
    PROVE  InBuffer' /\ BehindPSB'
<1> USE DEF IInv
<1>1. p \in Nat /\ Len(buf) \in Nat /\ psb \in Int
  BY DEF TypeOK
<1>2. CASE Search
  <2>1. buf' = buf
    BY <1>2, Zenon DEF Search
  <2>2. CASE p' \in p..Len(buf) /\ PSBAt(p') /\ psb' = p' /\ pc' = "packet"
    <3>1. PSBAt(p)'
      BY <2>1, <2>2, ZenonT(30) DEF PSBAt
    <3>2. InBuffer'
      BY <1>1, <2>1, <2>2 DEF InBuffer
    <3>3. QED
      BY <2>2, <3>1, <3>2, Zenon DEF BehindPSB
  <2>3. CASE p' = Len(buf) /\ pc' = "done"
    BY <1>1, <2>1, <2>3 DEF InBuffer, BehindPSB
  <2>4. QED
    BY <1>2, <2>2, <2>3, SearchEffect, Zenon
<1>3. CASE Extended \/ Short \/ Odd \/ CYC \/ IP
  <2>1. /\ AtPacket /\ UNCHANGED <<buf, pc, psb>>
        /\ p' \in Nat /\ p < p' /\ p' <= Len(buf) + 1
        /\ PSBAt(p) => p' = p + 16
    BY <1>3, Moves, Zenon
  <2>2. p' >= psb + 16
    BY <1>1, <2>1 DEF BehindPSB, AtPacket
  <2>3. QED
    BY <2>1, <2>2, Zenon DEF InBuffer, BehindPSB, AtPacket
<1>4. CASE LeaveLoop
  <2>1. UNCHANGED <<buf, p, psb>> /\ pc = "packet" /\ pc' = "search"
    BY <1>4, Zenon DEF LeaveLoop
  <2>2. ~PSBAt(p)
    <3>1. CASE p < Len(buf)
      <4>1. AtPacket /\ IsUnknown
        BY <1>4, <3>1, Zenon DEF LeaveLoop, AtPacket
      <4>2. QED
        BY <4>1, PSBIsExtended, Zenon
    <3>2. CASE ~(p < Len(buf))
      BY <1>1, <3>2 DEF PSBAt
    <3>3. QED
      BY <3>1, <3>2, Zenon
  <2>3. QED
    BY <2>1, <2>2, Zenon DEF InBuffer, BehindPSB
<1>5. CASE UNCHANGED vars
  BY <1>5, Zenon DEF vars, InBuffer, BehindPSB, PSBAt
<1>6. QED
  BY <1>2, <1>3, <1>4, <1>5, Zenon DEF Next

-----------------------------------------------------------------------------
(* decode keeps the invariant on every record: whatever the bytes are, the *)
(* position stays in the record or one byte behind it.                     *)
THEOREM Invariance == Spec => []IInv
<1>1. Init => IInv
  <2>1. Init => TypeOK
    <3> SUFFICES ASSUME Init
                 PROVE  TypeOK
      BY Zenon
    <3>1. input \in Inputs /\ buf \in Seq(Byte)
      BY BytesAssumption, Zenon DEF Init
    <3>2. ips \in Seq([1..4 -> Word])
      BY DEF Init
    <3>3. QED
      BY <3>1, <3>2, ZeroIsAddress DEF Init, TypeOK
  <2>2. Init => BehindPSB
    BY Zenon DEF Init, BehindPSB
  <2>3. Init /\ TypeOK => InBuffer
    BY DEF Init, InBuffer, TypeOK
  <2>4. QED
    BY <2>1, <2>2, <2>3, Zenon DEF IInv
<1>2. IInv /\ [Next]_vars => IInv'
  BY TypeKept, PositionKept, Zenon DEF IInv
<1>3. QED
  BY <1>1, <1>2, PTL DEF Spec

(* The addresses given to AFLMaybeLog are four 16-bit words, and every     *)
(* byte they are made of is one of the record.                             *)
THEOREM Typed == Spec => []TypeOK
<1>1. IInv => TypeOK
  BY Zenon DEF IInv
<1>2. QED
  BY <1>1, Invariance, PTL

(* decode never gets further than one byte behind the record (the CYC      *)
(* loop of PTDecoder.h looks at that byte).                                *)
THEOREM StaysInBuffer == Spec => []InBuffer
<1>1. IInv => InBuffer
  BY Zenon DEF IInv
<1>2. QED
  BY <1>1, Invariance, PTL

(* decode never finds the same PSB twice: each search begins at least 16   *)
(* bytes behind the PSB of the search before.                              *)
THEOREM SearchAdvances == Spec => ResyncAdvances
<1>1. IInv /\ [Next]_vars
         => [pc = "search" /\ pc' = "packet" => psb = -1 \/ psb' >= psb + 16]_vars
  <2> SUFFICES ASSUME IInv, [Next]_vars, pc = "search", pc' = "packet"
               PROVE  psb = -1 \/ psb' >= psb + 16
    BY Zenon
  <2>1. Search
    <3>1. pc' # pc
      BY Zenon
    <3>2. ~(Extended \/ Short \/ Odd \/ CYC \/ IP)
      BY <3>1, Zenon DEF Extended, Short, Odd, CYC, IP, Move
    <3>3. QED
      BY <3>1, <3>2, Zenon DEF Next, LeaveLoop, vars
  <2>2. p' >= p /\ psb' = p'
    <3>1. p \in Nat /\ Len(buf) \in Nat /\ TypeOK
      BY DEF IInv, TypeOK
    <3>2. QED
      BY <2>1, <3>1, SearchEffect
  <2>3. p \in Nat /\ p' \in Nat /\ psb \in Int
    BY TypeKept, Zenon DEF IInv, TypeOK
  <2>4. QED
    BY <2>2, <2>3 DEF IInv, BehindPSB
<1>2. QED
  BY <1>1, Invariance, PTL DEF Spec, ResyncAdvances
-----------------------------------------------------------------------------
(* The decoder of a trace follows its packets.                             *)

Total      == Len(Kinds(input))
Reading(k) == Readings(input)[k]

Addresses == [1..4 -> Word]
Entries   == [ip : Addresses, marked : BOOLEAN]

(* What is reported is what is understood of the first k packets; the last *)
(* address is the same unless a packet with IPL 0 came after it.           *)
Known(k) ==
    /\ Reading(k).ip \in Addresses /\ Reading(k).out \in Seq(Entries)
    /\ Agrees(Reading(k).out, ips) /\ Len(ips) = Len(Reading(k).out)
    /\ Reading(k).stale \/ last_ip = Reading(k).ip

(* Nothing more is understood of the first j packets than of the first k.  *)
NoNews(j, k) ==
    /\ Reading(j).ip = Reading(k).ip /\ Reading(j).stale = Reading(k).stale
    /\ Reading(j).out = Reading(k).out

(* The position is the beginning of the k-th packet.                       *)
AtStart(k) == p = Ends(input)[k - 1]

(* The search goes on from the beginning, or from a strange packet.        *)
Searching(k) ==
    /\ Reading(k).pc = "search" /\ Known(k)
    /\ \/ k = 0 /\ p = 0
       \/ k > 0 /\ Kinds(input)[k] = "strange" /\ AtStart(k)

(* The loop is behind the k-th packet, at the PSB that the search has      *)
(* found, or at the last byte of an MNT.                                   *)
InStep(k) ==
    /\ Reading(k).pc = "packet" /\ Known(k)
    /\ \/ p = Ends(input)[k]
       \/ k > 0 /\ Kinds(input)[k] = "psb" /\ AtStart(k)
       \/ p = Ends(input)[k] - 1 /\ OneByte(At(0))

(* The packets have been read, and the record goes on.                     *)
Behind ==
    /\ Ends(input)[Total] < Len(buf)
    /\ Reading(Total).out \in Seq(Entries)
    /\ Agrees(Reading(Total).out, ips)

Finished ==
    /\ Agrees(Reading(Total).out, ips)
    /\ Ends(input)[Total] = Len(buf) => Len(ips) = Len(Reading(Total).out)

OnTrack ==
    /\ buf = Bytes(input)
    /\ pc = "search" => \/ Behind
                        \/ p >= Len(buf) /\ Finished
                        \/ \E k \in 0..Total : Searching(k)
    /\ pc = "packet" => Behind \/ \E k \in 0..Total : InStep(k)
    /\ pc = "done" => Finished

-----------------------------------------------------------------------------
(* What is understood of a trace, packet by packet: the recursion of       *)
(* Readings has a solution.                                                *)
LEMMA ReadingsStep ==
    ASSUME NEW i, Len(Kinds(i)) \in Nat
    PROVE  /\ Readings(i)[0] = Blank
           /\ \A k \in 1..Len(Kinds(i)) : Readings(i)[k] = Understand(Readings(i)[k - 1], i, k)
<1> DEFINE n == Len(Kinds(i))
           Rec(f, m) == [k \in 0..m |-> IF k = 0 THEN Blank ELSE Understand(f[k - 1], i, k)]
           Good(m) == \E f : f = Rec(f, m)
           Bad == {m \in 0..n : ~Good(m)}
<1>1. Good(0)
  <2> DEFINE f == [k \in 0..0 |-> Blank]
  <2>1. f = Rec(f, 0)
    OBVIOUS
  <2>2. QED
    BY <2>1, Zenon
<1>2. ASSUME NEW m \in 1..n, Good(m - 1)
      PROVE  Good(m)
  <2>1. PICK f : f = Rec(f, m - 1)
    BY <1>2, Zenon
  <2> DEFINE g == [k \in 0..m |-> IF k = m THEN Understand(f[m - 1], i, m) ELSE f[k]]
  <2>2. ASSUME NEW k \in 0..m
        PROVE  g[k] = IF k = 0 THEN Blank ELSE Understand(g[k - 1], i, k)
    <3>1. CASE k = m
      <4>1. g[k - 1] = f[m - 1] /\ k # 0
        BY <3>1
      <4>2. QED
        BY <3>1, <4>1, Zenon
    <3>2. CASE k # m
      <4>1. k \in 0..m - 1 /\ g[k] = f[k]
        BY <3>2
      <4>2. f[k] = IF k = 0 THEN Blank ELSE Understand(f[k - 1], i, k)
        BY <2>1, <4>1, Zenon
      <4>3. k # 0 => g[k - 1] = f[k - 1]
        BY <4>1
      <4>4. QED
        BY <4>1, <4>2, <4>3, Zenon
    <3>3. QED
      BY <3>1, <3>2, Zenon
  <2>3. g = Rec(g, m)
    <3>1. g = [k \in 0..m |-> g[k]]
      BY Zenon
    <3> HIDE DEF g
    <3>2. QED
      BY <2>2, <3>1, Zenon
  <2>4. QED
    BY <2>3, Zenon
<1> HIDE DEF Good
<1>3. Bad = {}
  <2> SUFFICES ASSUME Bad # {}
               PROVE  FALSE
    BY Zenon
  <2> DEFINE m == Min(Bad)
  <2>1. Bad \in SUBSET Nat
    OBVIOUS
  <2>2. m \in Bad /\ \A y \in Bad : m <= y
    BY <2>1, MinOfNats, Zenon
  <2> HIDE DEF m
  <2>3. m \in 0..n /\ ~Good(m)
    BY <2>2, Zenon
  <2>4. m # 0
    BY <1>1, <2>3, Zenon
  <2>5. m - 1 \in 0..n /\ m - 1 < m
    BY <2>3, <2>4
  <2>6. Good(m - 1)
    BY <2>2, <2>5
  <2>7. QED
    BY <1>2, <2>3, <2>4, <2>6
<1>4. Good(n)
  BY <1>3
<1>5. Readings(i) = CHOOSE f : f = Rec(f, n)
  BY Zenon DEF Readings
<1>6. Readings(i) = Rec(Readings(i), n)
  BY <1>4, <1>5, Zenon DEF Good
<1> DEFINE r == Readings(i)
<1>7. r = [k \in 0..n |-> IF k = 0 THEN Blank ELSE Understand(r[k - 1], i, k)]
  BY <1>6, Zenon
<1> HIDE DEF r
<1>8. r[0] = Blank /\ \A k \in 1..n : r[k] = Understand(r[k - 1], i, k)
  <2>1. \A k \in 0..n : r[k] = IF k = 0 THEN Blank ELSE Understand(r[k - 1], i, k)
    BY <1>7, Zenon
  <2>2. QED
    BY <2>1
<1>9. QED
  BY <1>8, Zenon DEF r

(* What one packet adds: no address, unless it has one and is understood.  *)
LEMMA UnderstandKinds ==
    ASSUME NEW acc, NEW i, NEW k, NEW u, u = Understand(acc, i, k)
    PROVE  /\ Kinds(i)[k] = "psb" => u.pc = "packet"
           /\ Kinds(i)[k] = "strange" => u.pc = "search"
           /\ Kinds(i)[k] \in {"other", "address"} => u.pc = acc.pc
           /\ Kinds(i)[k] # "address" \/ acc.pc # "packet"
                 => u.ip = acc.ip /\ u.stale = acc.stale /\ u.out = acc.out
<1> DEFINE address == Address(i, k, acc.ip)
           n       == Words(Octet(i, k, 1) \div 32)
           reports == acc.pc = "packet" /\ Kinds(i)[k] = "address"
           entry   == [ip |-> address, marked |-> n \in {1, 2} /\ acc.stale]
<1>1. u = [pc     |-> CASE Kinds(i)[k] = "psb" -> "packet"
                        [] Kinds(i)[k] = "strange" -> "search"
                        [] OTHER -> acc.pc,
           ip     |-> IF reports /\ n # 0 THEN address ELSE acc.ip,
           stale  |-> IF reports THEN n = 0 \/ (n < 3 /\ acc.stale) ELSE acc.stale,
           out    |-> IF reports THEN Append(acc.out, entry) ELSE acc.out]
  BY Zenon DEF Understand
<1> HIDE DEF address, n, entry
<1>2. QED
  BY <1>1

(* What a packet with an address adds.                                     *)
LEMMA UnderstandAddress ==
    ASSUME NEW acc, NEW i, NEW k, NEW u, u = Understand(acc, i, k),
           Kinds(i)[k] = "address", acc.pc = "packet",
           NEW n, n = Words(Octet(i, k, 1) \div 32),
           NEW address, address = Address(i, k, acc.ip)
    PROVE  /\ n # 0 => u.ip = address
           /\ n = 0 => u.ip = acc.ip
           /\ u.stale = (n = 0 \/ (n < 3 /\ acc.stale))
           /\ u.out = Append(acc.out, [ip |-> address, marked |-> n \in {1, 2} /\ acc.stale])
<1>1. u = [pc     |-> acc.pc,
           ip     |-> IF n # 0 THEN address ELSE acc.ip,
           stale  |-> n = 0 \/ (n < 3 /\ acc.stale),
           out    |-> Append(acc.out, [ip |-> address, marked |-> n \in {1, 2} /\ acc.stale])]
  BY DEF Understand
<1>2. QED
  BY <1>1

(* Without a PSB, nothing more is understood.                              *)
LEMMA Silence ==
    ASSUME NEW i, Kinds(i) \in Seq({"psb", "other", "address", "strange"}),
           NEW k \in 0..Len(Kinds(i)), NEW j \in k..Len(Kinds(i)),
           Readings(i)[k].pc = "search",
           \A l \in k + 1..j : Kinds(i)[l] # "psb"
    PROVE  /\ Readings(i)[j].pc = "search"
           /\ Readings(i)[j].ip = Readings(i)[k].ip
           /\ Readings(i)[j].stale = Readings(i)[k].stale
           /\ Readings(i)[j].out = Readings(i)[k].out
<1> DEFINE r == Readings(i)
           Good(m) == /\ r[m].pc = "search" /\ r[m].ip = r[k].ip
                      /\ r[m].stale = r[k].stale /\ r[m].out = r[k].out
           Bad == {m \in k..j : ~Good(m)}
<1>1. Len(Kinds(i)) \in Nat /\ k \in Nat /\ j \in Nat /\ k <= j
  OBVIOUS
<1>2. ASSUME NEW m \in k + 1..j, Good(m - 1)
      PROVE  Good(m)
  <2>1. m \in 1..Len(Kinds(i))
    BY <1>1
  <2>2. r[m] = Understand(r[m - 1], i, m)
    BY <1>1, <2>1, ReadingsStep, Zenon
  <2>3. Kinds(i)[m] \in {"other", "address", "strange"}
    BY <2>1
  <2> HIDE DEF r
  <2>4. QED
    BY <1>2, <2>2, <2>3, UnderstandKinds
<1>3. Bad = {}
  <2> SUFFICES ASSUME Bad # {}
               PROVE  FALSE
    BY Zenon
  <2> DEFINE m == Min(Bad)
  <2>1. Bad \in SUBSET Nat
    BY <1>1
  <2>2. m \in Bad /\ \A y \in Bad : m <= y
    BY <2>1, MinOfNats, Zenon
  <2> HIDE DEF m
  <2>3. m \in k..j /\ ~Good(m)
    BY <2>2, Zenon
  <2>4. m # k
    BY <2>3, Zenon
  <2> HIDE DEF Good
  <2>5. m - 1 \in k..j /\ m - 1 < m /\ m \in k + 1..j
    BY <1>1, <2>3, <2>4
  <2>6. Good(m - 1)
    BY <2>2, <2>5
  <2>7. QED
    BY <1>2, <2>3, <2>5, <2>6, Zenon
<1> HIDE DEF Good
<1>4. Good(j)
  BY <1>1, <1>3
<1>5. QED
  BY <1>4, Zenon DEF Good

-----------------------------------------------------------------------------
(* The first byte decides which branch of the loop takes a packet.         *)
LEMMA FirstBytes ==
    \A b \in Nat :
        /\ b % 2 = 0 => b % 4 # 3 /\ b % 32 \notin {13, 17, 1, 29} /\ b \notin {153, 25, 89}
        /\ b % 2 # 0 => b # 2 /\ b % 2 = 1
        /\ b % 4 = 3 => b % 2 # 0 /\ b % 32 \notin {13, 17, 1, 29} /\ b \notin {153, 25, 89}
        /\ b % 32 \in {13, 17, 1, 29} => b % 2 # 0 /\ b % 4 # 3 /\ b \notin {153, 25, 89}
        /\ b \in {153, 25, 89} => b % 2 # 0 /\ b % 4 # 3 /\ b % 32 \notin {13, 17, 1, 29}
  BY Z3

(* The branches of the loop exclude each other.                            *)
LEMMA Branches ==
    ASSUME TypeOK, AtPacket, Next
    PROVE  /\ At(0) \in Nat
           /\ IsExtended => Extended
           /\ ~IsExtended /\ At(0) % 2 = 0 => Short
           /\ OddLength # 0 => Odd
           /\ IsCYC => CYC
           /\ IsIP => IP
           /\ IsUnknown => LeaveLoop
<1>1. At(0) \in Nat
  <2>1. p + 0 < Len(buf)
    BY DEF TypeOK, AtPacket
  <2>2. At(0) \in Byte
    BY <2>1, AtIsByte, Zenon
  <2>3. QED
    BY <2>2, ByteIsNat, Zenon
<1> DEFINE b == At(0)
<1>2. b \in Nat
  BY <1>1, Zenon
<1>3. IsExtended => b = 2 /\ b % 2 = 0
  BY DEF IsExtended
<1>4. OddLength # 0 => b \in {153, 25, 89}
  BY Zenon DEF OddLength
<1>5. /\ IsCYC <=> b % 4 = 3
      /\ IsIP <=> b % 32 \in {13, 17, 1, 29}
  BY Zenon DEF IsCYC, IsIP
<1>6. IsUnknown <=> b % 2 = 1 /\ ~IsIP /\ ~IsCYC /\ OddLength = 0
  BY Zenon DEF IsUnknown
<1>7. /\ Extended => IsExtended
      /\ Short => ~IsExtended /\ b % 2 = 0
      /\ Odd => OddLength # 0
      /\ CYC => IsCYC
      /\ IP => IsIP
      /\ LeaveLoop => IsUnknown
      /\ ~Search
  BY Zenon DEF Extended, Short, Odd, CYC, IP, LeaveLoop, Search, AtPacket
<1>8. Extended \/ Short \/ Odd \/ CYC \/ IP \/ LeaveLoop
  BY <1>7, Zenon DEF Next
<1> HIDE DEF b
<1>9. /\ b % 2 = 0 => ~IsCYC /\ ~IsIP /\ OddLength = 0 /\ ~IsUnknown
      /\ b % 2 # 0 => ~IsExtended
      /\ IsCYC => b % 2 # 0 /\ ~IsIP /\ OddLength = 0
      /\ IsIP => b % 2 # 0 /\ ~IsCYC /\ OddLength = 0
      /\ OddLength # 0 => b % 2 # 0 /\ ~IsCYC /\ ~IsIP
  <2>1. b % 2 = 0 => b % 4 # 3 /\ b % 32 \notin {13, 17, 1, 29} /\ b \notin {153, 25, 89} /\ b % 2 # 1
    BY <1>2, FirstBytes
  <2>2. QED
    BY <1>2, <1>3, <1>4, <1>5, <1>6, <2>1, FirstBytes, ZenonT(30)
<1>10. QED
  BY <1>1, <1>6, <1>7, <1>8, <1>9, Zenon DEF b

(* The layout of the trace that is decoded.                                *)
LEMMA Layout ==
    ASSUME TypeOK, buf = Bytes(input)
    PROVE  /\ Kinds(input) \in Seq({"psb", "other", "address", "strange"})
           /\ Total \in Nat /\ Len(buf) \in Nat /\ p \in Nat
           /\ Ends(input) \in [0..Total -> Nat] /\ Ends(input)[Total] <= Len(buf)
           /\ \A j, k \in 0..Total : j < k => Ends(input)[j] < Ends(input)[k]
           /\ \A k \in 1..Total : IsPacket(input, k)
           /\ \A q \in 0..Ends(input)[Total] - 1 :
                  PSBAt(q) => \E k \in 1..Total : /\ Kinds(input)[k] = "psb"
                                                  /\ Ends(input)[k - 1] <= q
                                                  /\ q < Ends(input)[k]
<1>1. \A q : PSBAt(q) <=> Pattern(buf, q)
  BY Zenon DEF PSBAt, Pattern
<1>2. input \in Inputs
  BY Zenon DEF TypeOK
<1>3. /\ Kinds(input) \in Seq({"psb", "other", "address", "strange"})
      /\ Ends(input) \in [0..Total -> Nat] /\ Ends(input)[Total] <= Len(buf)
      /\ \A j, k \in 0..Total : j < k => Ends(input)[j] < Ends(input)[k]
      /\ \A k \in 1..Total : IsPacket(input, k)
      /\ \A q \in 0..Ends(input)[Total] - 1 :
             Pattern(buf, q) => \E k \in 1..Total : /\ Kinds(input)[k] = "psb"
                                                      /\ Ends(input)[k - 1] <= q
                                                      /\ q < Ends(input)[k]
  BY <1>2, TracesAssumption, Zenon DEF Total
<1>4. Total \in Nat /\ Len(buf) \in Nat /\ p \in Nat
  BY <1>3 DEF Total, TypeOK
<1>5. QED
  BY <1>1, <1>3, <1>4, Zenon

(* The packet that the loop is at, byte by byte.                           *)
LEMMA AtOfPacket ==
    ASSUME TypeOK, buf = Bytes(input), NEW k \in 1..Total, AtStart(k)
    PROVE  /\ p \in Nat /\ Len(buf) \in Nat
           /\ p < Len(buf)
           /\ Size(input, k) \in Nat /\ Size(input, k) >= 1 /\ p + Size(input, k) <= Len(buf)
           /\ Ends(input)[k] = p + Size(input, k)
           /\ \A j \in Nat : Octet(input, k, j + 1) = At(j)
           /\ \A j \in Nat : j <= Size(input, k) => Left(j)
<1>1. /\ Total \in Nat /\ Len(buf) \in Nat /\ p \in Nat
      /\ Ends(input) \in [0..Total -> Nat] /\ Ends(input)[Total] <= Len(buf)
      /\ \A j, l \in 0..Total : j < l => Ends(input)[j] < Ends(input)[l]
  BY Layout, Zenon
<1>2. k \in 0..Total /\ k - 1 \in 0..Total /\ Total \in 0..Total
  BY <1>1
<1>3. Ends(input)[k - 1] < Ends(input)[k] /\ Ends(input)[k] <= Len(buf)
  BY <1>1, <1>2
<1>4. Ends(input)[k] \in Nat /\ Ends(input)[k - 1] \in Nat
  BY <1>1, <1>2, Zenon
<1>5. \A j \in Nat : Octet(input, k, j + 1) = At(j)
  <2> SUFFICES ASSUME NEW j \in Nat
               PROVE  Octet(input, k, j + 1) = At(j)
    BY Zenon
  <2>1. p + (j + 1) = p + j + 1
    BY <1>1
  <2>2. Octet(input, k, j + 1) = Bytes(input)[p + (j + 1)]
    BY Zenon DEF Octet, AtStart
  <2>3. QED
    BY <2>1, <2>2, Zenon DEF At
<1>6. /\ Size(input, k) \in Nat /\ Size(input, k) >= 1 /\ p + Size(input, k) <= Len(buf)
      /\ Ends(input)[k] = p + Size(input, k)
  BY <1>1, <1>3, <1>4 DEF Size, AtStart
<1>7. \A j \in Nat : j <= Size(input, k) => Left(j)
  BY <1>1, <1>3, <1>4, <1>6 DEF Left
<1>8. p < Len(buf)
  BY <1>1, <1>6
<1>9. QED
  BY <1>1, <1>5, <1>6, <1>7, <1>8, Zenon

-----------------------------------------------------------------------------
(* The loop takes a packet that begins with 2 as a whole, or leaves the    *)
(* last byte of an MNT.                                                    *)
LEMMA TakesTwo ==
    ASSUME TypeOK, buf = Bytes(input), NEW k \in 1..Total, AtStart(k),
           BeginsWithTwo(input, k)
    PROVE  /\ IsExtended
           /\ \/ p + ExtendedLength = Ends(input)[k]
              \/ p + ExtendedLength = Ends(input)[k] - 1 /\ OneByte(buf[p + ExtendedLength + 1])
<1> DEFINE size == Size(input, k)
<1>1. /\ size \in Nat /\ Ends(input)[k] = p + size /\ p \in Nat
      /\ \A j \in Nat : Octet(input, k, j + 1) = At(j)
      /\ \A j \in Nat : j <= size => Left(j)
  BY AtOfPacket, Zenon
<1>2. /\ Octet(input, k, 1) = At(0) /\ Octet(input, k, 2) = At(1) /\ Octet(input, k, 3) = At(2)
      /\ Octet(input, k, 4) = At(3) /\ Octet(input, k, 11) = At(10)
  <2>1. 0 + 1 = 1 /\ 1 + 1 = 2 /\ 2 + 1 = 3 /\ 3 + 1 = 4 /\ 10 + 1 = 11
    OBVIOUS
  <2>2. QED
    BY <1>1, <2>1, Zenon
<1>3. /\ At(0) = 2
      /\ \/ At(1) \in {163, 67, 243} /\ size = 8
         \/ At(1) \in {131, 35} /\ size = 2
         \/ At(1) \in {115, 200} /\ size = 7
         \/ At(1) = 3 /\ At(3) = 0 /\ size = 4
         \/ At(1) = 195 /\ At(2) = 136 /\ size = 11 /\ OneByte(At(10))
  BY <1>2 DEF BeginsWithTwo
<1>4. /\ size = 8 => Left(8) /\ Left(2)
      /\ size = 2 => Left(2)
      /\ size = 7 => Left(7) /\ Left(2)
      /\ size = 4 => Left(4) /\ Left(2)
      /\ size = 11 => Left(11) /\ Left(2)
  BY <1>1
<1> HIDE DEF size
<1>5. \/ ExtendedLength = size /\ size # 0
      \/ ExtendedLength = 10 /\ size = 11 /\ OneByte(At(10))
  BY <1>3, <1>4 DEF ExtendedLength
<1>6. IsExtended
  BY <1>3, <1>4, <1>5 DEF IsExtended
<1>7. QED
  BY <1>1, <1>5, <1>6 DEF At

(* The CYC loop stops at the first byte that no other one follows.         *)
LEMMA CYCStops ==
    ASSUME p \in Nat, Len(buf) \in Nat, NEW size \in Nat, size >= 2, p + size <= Len(buf),
           (At(0) \div 4) % 2 # 0, At(size - 1) % 2 = 0,
           \A j \in 1..size - 2 : At(j) % 2 = 1
    PROVE  CYCEnd = p + size - 1
<1> DEFINE S == {i \in p + 1..Len(buf) : i = Len(buf) \/ buf[i + 1] % 2 = 0}
           last == p + size - 1
<1>1. CYCEnd = Min(S)
  BY Zenon DEF CYCEnd
<1>2. last \in S
  <2>1. last \in p + 1..Len(buf) /\ p + (size - 1) + 1 = last + 1
    OBVIOUS
  <2>2. buf[last + 1] % 2 = 0
    BY <2>1, Zenon DEF At
  <2>3. QED
    BY <2>1, <2>2, Zenon
<1>3. ASSUME NEW i \in S, i < last
      PROVE  FALSE
  <2>1. i \in p + 1..Len(buf) /\ (i = Len(buf) \/ buf[i + 1] % 2 = 0)
    BY Zenon
  <2>2. i - p \in 1..size - 2 /\ p + (i - p) + 1 = i + 1 /\ i # Len(buf)
    BY <1>3, <2>1
  <2>3. buf[i + 1] % 2 = 1
    BY <2>2, Zenon DEF At
  <2>4. QED
    BY <2>1, <2>2, <2>3
<1>4. S \in SUBSET Nat
  OBVIOUS
<1> HIDE DEF S
<1>5. Min(S) \in S /\ \A y \in S : Min(S) <= y
  BY <1>2, <1>4, MinOfNats, Zenon
<1>6. Min(S) \in Nat /\ Min(S) <= last /\ ~(Min(S) < last)
  BY <1>2, <1>3, <1>4, <1>5, Zenon
<1>7. QED
  BY <1>1, <1>6

(* The loop takes a CYC packet as a whole.                                 *)
LEMMA TakesCycles ==
    ASSUME TypeOK, buf = Bytes(input), NEW k \in 1..Total, AtStart(k),
           Cycles(input, k)
    PROVE  IsCYC /\ CYCEnd + 1 - p = Size(input, k)
<1> DEFINE size == Size(input, k)
<1>1. /\ Ends(input)[k] = p + size
      /\ \A j \in Nat : Octet(input, k, j + 1) = At(j)
      /\ size \in Nat /\ size >= 1 /\ p \in Nat /\ Len(buf) \in Nat /\ p + size <= Len(buf)
  BY AtOfPacket, Zenon
<1>2. Octet(input, k, 1) = At(0)
  <2>1. 0 + 1 = 1
    OBVIOUS
  <2>2. QED
    BY <1>1, <2>1, Zenon
<1>3. IsCYC
  BY <1>2, Zenon DEF Cycles, IsCYC
<1>4. CASE (At(0) \div 4) % 2 = 0
  <2>1. size = 1
    BY <1>2, <1>4, Zenon DEF Cycles
  <2>2. CYCEnd = p
    BY <1>4, Zenon DEF CYCEnd
  <2>3. p + 1 - p = 1
    BY <1>1
  <2>4. QED
    BY <1>3, <2>1, <2>2, <2>3, Zenon
<1>5. CASE (At(0) \div 4) % 2 # 0
  <2>1. /\ size >= 2 /\ Octet(input, k, size) % 2 = 0
        /\ \A j \in 2..size - 1 : Octet(input, k, j) % 2 = 1
    BY <1>2, <1>5, Zenon DEF Cycles
  <2> HIDE DEF size
  <2>2. At(size - 1) % 2 = 0
    <3>1. size - 1 \in Nat /\ (size - 1) + 1 = size
      BY <1>1
    <3>2. QED
      BY <1>1, <2>1, <3>1, Zenon
  <2>3. \A j \in 1..size - 2 : At(j) % 2 = 1
    <3> SUFFICES ASSUME NEW j \in 1..size - 2
                 PROVE  At(j) % 2 = 1
      BY Zenon
    <3>1. j \in Nat /\ j + 1 \in 2..size - 1
      BY <1>1
    <3>2. QED
      BY <1>1, <2>1, <3>1, Zenon
  <2>4. CYCEnd = p + size - 1
    BY <1>1, <1>5, <2>1, <2>2, <2>3, CYCStops, Zenon
  <2>5. \A a, b \in Nat : a + b - 1 + 1 - a = b
    OBVIOUS
  <2>6. QED
    BY <1>1, <1>3, <2>4, <2>5, Zenon DEF size
<1>6. QED
  BY <1>4, <1>5, Zenon

-----------------------------------------------------------------------------
(* get_ip_val makes the address that the packet stands for.                *)
LEMMA AddressMatches ==
    ASSUME TypeOK, NEW i, NEW k, Octet(i, k, 1) = At(0),
           \A j \in Nat : Octet(i, k, j + 1) = At(j),
           NEW len \in {1, 2, 3, 4, 6}, len = At(0) \div 32, Left(1 + Payload(len))
    PROVE  NewIP(len) = Address(i, k, last_ip)
<1> DEFINE n       == Words(len)
           word(j) == Octet(i, k, 2 * j) + 256 * Octet(i, k, 2 * j + 1)
           low     == [j \in 1..3 |-> IF j <= n THEN word(j) ELSE last_ip[j]]
           high    == IF n = 4 THEN word(4) ELSE IF low[3] < 32768 THEN 0 ELSE UINT16_MAX
           w       == [j \in 1..4 |-> IF 2 * j <= Payload(len) THEN WordAt(j - 1) ELSE last_ip[j]]
<1>1. n \in {1, 2, 3, 4} /\ Payload(len) = 2 * n /\ (len < 4 <=> n # 4)
  BY DEF Words, Payload
<1>2. Address(i, k, last_ip) = [j \in 1..4 |-> IF j < 4 THEN low[j] ELSE high]
  <2>1. n # 0 /\ Words(Octet(i, k, 1) \div 32) = n
    BY <1>1
  <2> HIDE DEF n
  <2>2. QED
    BY <2>1 DEF Address
<1>3. ASSUME NEW j \in 1..4
      PROVE  WordAt(j - 1) = word(j)
  <2>1. Octet(i, k, 2 * j) = At(2 * (j - 1) + 1)
    <3>1. 2 * (j - 1) + 1 \in Nat /\ (2 * (j - 1) + 1) + 1 = 2 * j
      OBVIOUS
    <3>2. QED
      BY <3>1, Zenon
  <2>2. Octet(i, k, 2 * j + 1) = At(2 * (j - 1) + 2)
    <3>1. 2 * (j - 1) + 2 \in Nat /\ (2 * (j - 1) + 2) + 1 = 2 * j + 1
      OBVIOUS
    <3>2. QED
      BY <3>1, Zenon
  <2>3. QED
    BY <2>1, <2>2, Zenon DEF WordAt
<1> HIDE DEF n, word
<1>4. \A j \in 1..4 : w[j] = IF j <= n THEN word(j) ELSE last_ip[j]
  BY <1>1, <1>3
<1>5. \A j \in 1..3 : w[j] = low[j]
  BY <1>4
<1>6. NewIP(len) = IF len < 4 THEN [w EXCEPT ![4] = IF w[3] >= 32768 THEN 65535 ELSE 0] ELSE w
  BY DEF NewIP
<1>7. NewIP(len) \in [1..4 -> Word]
  BY AddressIsWords
<1>8. w[3] \in Int
  <2>1. NewIP(len)[3] = w[3]
    BY <1>6
  <2>2. UINT16_MAX \in Int
    BY DEF UINT16_MAX
  <2>3. QED
    BY <1>7, <2>1, <2>2 DEF Word
<1>9. NewIP(len)[4] = high
  <2>1. n = 4 => w[4] = high
    BY <1>4
  <2>2. n # 4 => high = IF w[3] >= 32768 THEN 65535 ELSE 0
    BY <1>5, <1>8 DEF UINT16_MAX
  <2> HIDE DEF high, low
  <2>3. NewIP(len)[4] = IF len < 4 THEN IF w[3] >= 32768 THEN 65535 ELSE 0 ELSE w[4]
    BY <1>6
  <2> HIDE DEF w
  <2>4. QED
    BY <1>1, <2>1, <2>2, <2>3
<1>10. \A j \in 1..3 : NewIP(len)[j] = low[j]
  <2>1. \A j \in 1..3 : NewIP(len)[j] = w[j]
    BY <1>6
  <2>2. QED
    BY <1>5, <2>1, Zenon
<1> HIDE DEF low, high, w
<1>11. NewIP(len) = [j \in 1..4 |-> IF j < 4 THEN low[j] ELSE high]
  <2>1. \A j \in 1..4 : NewIP(len)[j] = IF j < 4 THEN low[j] ELSE high
    BY <1>9, <1>10
  <2> DEFINE f == NewIP(len)
  <2>2. f = [j \in 1..4 |-> f[j]]
    BY <1>7, Zenon
  <2> HIDE DEF f
  <2>3. \A j \in 1..4 : f[j] = IF j < 4 THEN low[j] ELSE high
    BY <2>1, Zenon DEF f
  <2>4. QED
    BY <2>2, <2>3, Zenon DEF f
<1>12. QED
  BY <1>2, <1>11

(* A step at a PSB: its 16 bytes are passed.                               *)
LEMMA PSBStep ==
    ASSUME TypeOK, buf = Bytes(input), pc = "packet", Next,
           NEW k \in 1..Total, AtStart(k), IsPSB(input, k)
    PROVE  p' = Ends(input)[k] /\ UNCHANGED <<input, buf, last_ip, pc, ips>>
<1>1. Ends(input)[k] = p + Size(input, k) /\ Size(input, k) = 16 /\ AtPacket
  BY AtOfPacket, Zenon DEF IsPSB, AtPacket
<1>2. PSBAt(p)
  BY Zenon DEF IsPSB, Pattern, PSBAt, AtStart
<1>3. IsExtended /\ ExtendedLength = 16
  BY <1>1, <1>2, PSBIsExtended, Zenon
<1>4. Extended
  BY <1>1, <1>3, Branches, Zenon
<1>5. QED
  BY <1>1, <1>3, <1>4, Zenon DEF Extended, Move

(* A step at a packet without address: it is passed, up to the last byte   *)
(* of an MNT.                                                              *)
LEMMA OtherStep ==
    ASSUME TypeOK, buf = Bytes(input), pc = "packet", Next,
           NEW k \in 1..Total, AtStart(k), IsOther(input, k)
    PROVE  /\ UNCHANGED <<input, buf, last_ip, pc, ips>>
           /\ \/ p' = Ends(input)[k]
              \/ p' = Ends(input)[k] - 1 /\ OneByte(buf[p' + 1])
<1> DEFINE size == Size(input, k)
<1>1. /\ Ends(input)[k] = p + size
      /\ \A j \in Nat : Octet(input, k, j + 1) = At(j)
      /\ \A j \in Nat : j <= size => Left(j)
      /\ size \in Nat /\ size >= 1 /\ p \in Nat /\ Len(buf) \in Nat /\ p + size <= Len(buf)
  BY AtOfPacket, Zenon
<1> HIDE DEF size
<1>2. AtPacket
  BY AtOfPacket, Zenon DEF AtPacket
<1>3. Octet(input, k, 1) = At(0) /\ Octet(input, k, 2) = At(1)
  <2>1. 0 + 1 = 1 /\ 1 + 1 = 2
    OBVIOUS
  <2>2. QED
    BY <1>1, <2>1, Zenon
<1>4. At(0) \in Nat
  BY <1>2, Branches, Zenon
<1>5. CASE BeginsWithTwo(input, k)
  <2>1. /\ IsExtended
        /\ \/ p + ExtendedLength = Ends(input)[k]
           \/ p + ExtendedLength = Ends(input)[k] - 1 /\ OneByte(buf[p + ExtendedLength + 1])
    BY <1>5, TakesTwo, Zenon
  <2>2. Extended
    BY <1>2, <2>1, Branches, Zenon
  <2>3. p' = p + ExtendedLength /\ UNCHANGED <<input, buf, last_ip, pc, ips>>
    BY <2>2, Zenon DEF Extended, Move
  <2>4. QED
    BY <2>1, <2>3, Zenon
<1>6. CASE OneByte(At(0)) /\ size = 1
  <2>1. ~IsExtended /\ At(0) % 2 = 0
    BY <1>6, Zenon DEF OneByte, IsExtended
  <2>2. Short
    BY <1>2, <2>1, Branches, Zenon
  <2>3. QED
    BY <1>1, <1>6, <2>2, Zenon DEF Short, Move
<1>7. CASE \/ At(0) = 153 /\ At(1) \div 32 \in {0, 1} /\ size = 2
           \/ At(0) = 25 /\ size = 8
           \/ At(0) = 89 /\ size = 2
  <2>1. (size = 2 => 2 <= size) /\ (size = 8 => 8 <= size) /\ 2 \in Nat /\ 8 \in Nat
    OBVIOUS
  <2>a. (size = 2 => Left(2)) /\ (size = 8 => Left(8))
    BY <1>1, <2>1, Zenon
  <2>2. OddLength = size /\ OddLength # 0
    BY <1>7, <2>a DEF OddLength
  <2>3. Odd
    BY <1>2, <2>2, Branches, Zenon
  <2>4. QED
    BY <1>1, <2>2, <2>3, Zenon DEF Odd, Move
<1>8. CASE Cycles(input, k)
  <2>1. IsCYC /\ CYCEnd + 1 - p = size
    BY <1>8, TakesCycles, Zenon DEF size
  <2>2. CYC
    BY <1>2, <2>1, Branches, Zenon
  <2>3. p' = p + (CYCEnd + 1 - p) /\ UNCHANGED <<input, buf, last_ip, pc, ips>>
    BY <2>2, Zenon DEF CYC, Move
  <2>4. QED
    BY <1>1, <2>1, <2>3, Zenon
<1>9. QED
  BY <1>3, <1>5, <1>6, <1>7, <1>8, Zenon DEF IsOther, size

(* A step at an MNT's last byte, and at any packet of one byte.            *)
LEMMA OneByteStep ==
    ASSUME TypeOK, AtPacket, Next, OneByte(At(0))
    PROVE  p' = p + 1 /\ UNCHANGED <<input, buf, last_ip, pc, ips>>
<1>1. ~IsExtended /\ At(0) % 2 = 0
  BY Zenon DEF OneByte, IsExtended
<1>2. Short
  BY <1>1, Branches, Zenon
<1>3. QED
  BY <1>2, Zenon DEF Short, Move

(* A step at a packet with an address: the address is reported.            *)
LEMMA AddressStep ==
    ASSUME TypeOK, buf = Bytes(input), pc = "packet", Next,
           NEW k \in 1..Total, AtStart(k), IsAddress(input, k)
    PROVE  /\ UNCHANGED <<input, buf, pc>>
           /\ p' = Ends(input)[k]
           /\ last_ip' = Address(input, k, last_ip)
           /\ ips' = Append(ips, Address(input, k, last_ip))
<1> DEFINE size == Size(input, k)
           len  == At(0) \div 32
           got  == len # 0 /\ Left(1 + Payload(len))
           ip   == IF got THEN NewIP(len) ELSE Zero
<1>1. /\ Ends(input)[k] = p + size
      /\ \A j \in Nat : Octet(input, k, j + 1) = At(j)
      /\ \A j \in Nat : j <= size => Left(j)
      /\ size \in Nat /\ size >= 1 /\ p \in Nat /\ Len(buf) \in Nat /\ p + size <= Len(buf)
  BY AtOfPacket, Zenon
<1> HIDE DEF size
<1>2. AtPacket
  BY AtOfPacket, Zenon DEF AtPacket
<1>3. Octet(input, k, 1) = At(0)
  <2>1. 0 + 1 = 1
    OBVIOUS
  <2>2. QED
    BY <1>1, <2>1, Zenon
<1>4. HasAddress(At(0)) /\ len \in {0, 1, 2, 3, 4, 6} /\ size = 1 + 2 * Words(len)
  BY <1>3, Zenon DEF IsAddress, size
<1>5. IP
  <2>1. IsIP
    BY <1>4, Zenon DEF HasAddress, IsIP
  <2>2. QED
    BY <1>2, <2>1, Branches, Zenon
<1>6. /\ UNCHANGED <<input, buf, pc>>
      /\ p' = p + 1 + (IF got THEN Payload(len) ELSE 0)
      /\ last_ip' = ip /\ ips' = Append(ips, ip)
  BY <1>5, Zenon DEF IP
<1>7. CASE len = 0
  <2>1. size = 1 /\ Words(len) = 0
    BY <1>4, <1>7 DEF Words
  <2>2. ip = Zero /\ p' = p + 1
    BY <1>1, <1>6, <1>7
  <2>3. Address(input, k, last_ip) = Zero
    BY <1>3, <2>1 DEF Address
  <2>4. QED
    BY <1>1, <1>6, <2>1, <2>2, <2>3, Zenon
<1>8. CASE len # 0
  <2>1. len \in {1, 2, 3, 4, 6}
    BY <1>4, <1>8, Zenon
  <2>2. Payload(len) = 2 * Words(len) /\ Payload(len) \in Nat
    BY <2>1 DEF Payload, Words
  <2>3. Left(1 + Payload(len))
    BY <1>1, <1>4, <2>2
  <2>4. NewIP(len) = Address(input, k, last_ip)
    BY <1>1, <1>3, <2>1, <2>3, AddressMatches
  <2>5. p' = p + 1 + 2 * Words(len) /\ ip = Address(input, k, last_ip)
    BY <1>6, <1>8, <2>2, <2>3, <2>4, Zenon
  <2>6. p' = p + size
    <3>1. Words(len) \in Nat
      BY <2>1 DEF Words
    <3>2. \A a, b \in Nat : a + 1 + 2 * b = a + (1 + 2 * b)
      OBVIOUS
    <3>3. QED
      BY <1>1, <1>4, <2>5, <3>1, <3>2, Zenon
  <2>7. QED
    BY <1>1, <1>6, <2>5, <2>6, Zenon
<1>9. QED
  BY <1>7, <1>8, Zenon

(* The words of an address, which the packet has or the last address had.  *)
Positive(w)  == w < 32768    \* bit 47 of an address is not set

WordOf(k, j) == Octet(input, k, 2 * j) + 256 * Octet(input, k, 2 * j + 1)

LEMMA AddressWords ==
    ASSUME TypeOK, buf = Bytes(input), NEW k \in 1..Total, AtStart(k), IsAddress(input, k),
           NEW z \in Addresses,
           NEW n, n = Words(Octet(input, k, 1) \div 32),
           NEW a, a = Address(input, k, z)
    PROVE  /\ n \in 0..4 /\ a \in Addresses
           /\ n = 0 => a = Zero
           /\ \A j \in 1..4 : j <= n => a[j] = WordOf(k, j)
           /\ n # 0 /\ n # 4 /\ Positive(a[3]) => a[4] = 0
           /\ n # 0 /\ n # 4 /\ ~Positive(a[3]) => a[4] = UINT16_MAX
<1> DEFINE low  == [j \in 1..3 |-> IF j <= n THEN WordOf(k, j) ELSE z[j]]
           high == IF n = 4 THEN WordOf(k, 4) ELSE IF Positive(low[3]) THEN 0 ELSE UINT16_MAX
<1>1. n \in 0..4 /\ Size(input, k) = 1 + 2 * n
  <2>1. Octet(input, k, 1) \div 32 \in {0, 1, 2, 3, 4, 6} /\ Size(input, k) = 1 + 2 * n
    BY Zenon DEF IsAddress
  <2>2. QED
    BY <2>1 DEF Words
<1>2. /\ \A j \in Nat : Octet(input, k, j + 1) = At(j)
      /\ p \in Nat /\ Len(buf) \in Nat /\ p + Size(input, k) <= Len(buf)
  BY AtOfPacket, Zenon
<1>3. a = IF n = 0 THEN Zero ELSE [j \in 1..4 |-> IF j < 4 THEN low[j] ELSE high]
  BY DEF Address, WordOf, Positive
<1>4. ASSUME NEW j \in 1..4, j <= n
      PROVE  WordOf(k, j) \in Word
  <2>1. /\ 2 * j - 1 \in Nat /\ (2 * j - 1) + 1 = 2 * j /\ 2 * j \in Nat
        /\ p + (2 * j - 1) < Len(buf) /\ p + 2 * j < Len(buf)
    <3> DEFINE size == Size(input, k)
    <3>0. size = 1 + 2 * n /\ p + size <= Len(buf)
      BY <1>1, <1>2, Zenon
    <3> HIDE DEF size
    <3>1. size >= 1 + 2 * j /\ size \in Int /\ p + size <= Len(buf)
      BY <1>1, <1>4, <3>0
    <3>2. \A m \in 0..2 * j : p + m < Len(buf)
      BY <1>2, <3>1
    <3>3. QED
      BY <3>2
  <2>2. Octet(input, k, 2 * j) = At(2 * j - 1) /\ Octet(input, k, 2 * j + 1) = At(2 * j)
    BY <1>2, <2>1, Zenon
  <2>3. At(2 * j - 1) \in Byte /\ At(2 * j) \in Byte
    BY <2>1, AtIsByte, Zenon
  <2>4. QED
    BY <2>2, <2>3, WordOfBytes, Zenon DEF WordOf
<1>5. 0 \in Word /\ UINT16_MAX \in Word
  BY DEF Word, UINT16_MAX
<1>6. \A j \in 1..3 : (j <= n => low[j] = WordOf(k, j)) /\ low[j] \in Word
  BY <1>4 DEF Addresses
<1> HIDE DEF low
<1>7. high \in Word
  <2>1. n = 4 => WordOf(k, 4) \in Word
    BY <1>4
  <2>2. QED
    BY <1>5, <2>1
<1>8. CASE n = 0
  <2>1. a = Zero /\ ~\E j \in 1..4 : j <= n
    BY <1>3, <1>8
  <2>2. QED
    BY <1>1, <1>8, <2>1, ZeroIsAddress, Zenon DEF Addresses
<1>9. CASE n # 0
  <2>1. a = [j \in 1..4 |-> IF j < 4 THEN low[j] ELSE high]
    BY <1>3, <1>9
  <2>2. /\ n = 4 => high = WordOf(k, 4)
        /\ n # 4 /\ Positive(low[3]) => high = 0
        /\ n # 4 /\ ~Positive(low[3]) => high = UINT16_MAX
    OBVIOUS
  <2> HIDE DEF high
  <2>3. (\A j \in 1..3 : a[j] = low[j]) /\ a[3] = low[3] /\ a[4] = high
    BY <2>1
  <2>4. a \in Addresses
    BY <1>6, <1>7, <2>1 DEF Addresses
  <2>5. ASSUME NEW j \in 1..4, j <= n
        PROVE  a[j] = WordOf(k, j)
    <3>1. CASE j = 4
      BY <1>1, <2>2, <2>3, <2>5, <3>1
    <3>2. CASE j # 4
      <4>1. j \in 1..3
        BY <3>2
      <4>2. QED
        BY <1>6, <2>3, <2>5, <4>1, Zenon
    <3>3. QED
      BY <3>1, <3>2, Zenon
  <2>6. QED
    BY <1>1, <1>9, <2>2, <2>3, <2>4, <2>5, Zenon
<1>10. QED
  BY <1>8, <1>9, Zenon

(* An address of three or four words does not depend on the last one, nor  *)
(* does a packet without words.                                            *)
LEMMA AddressAlone ==
    ASSUME TypeOK, buf = Bytes(input), NEW k \in 1..Total, AtStart(k), IsAddress(input, k),
           NEW x \in Addresses, NEW y \in Addresses,
           NEW n, n = Words(Octet(input, k, 1) \div 32),
           NEW a, a = Address(input, k, x), NEW b, b = Address(input, k, y)
    PROVE  /\ n \in 0..4 /\ a \in Addresses /\ b \in Addresses
           /\ n \notin {1, 2} => a = b
<1>1. /\ n \in 0..4 /\ a \in Addresses
      /\ n = 0 => a = Zero
      /\ \A j \in 1..4 : j <= n => a[j] = WordOf(k, j)
      /\ n # 0 /\ n # 4 /\ Positive(a[3]) => a[4] = 0
      /\ n # 0 /\ n # 4 /\ ~Positive(a[3]) => a[4] = UINT16_MAX
  BY AddressWords
<1>2. /\ b \in Addresses
      /\ n = 0 => b = Zero
      /\ \A j \in 1..4 : j <= n => b[j] = WordOf(k, j)
      /\ n # 0 /\ n # 4 /\ Positive(b[3]) => b[4] = 0
      /\ n # 0 /\ n # 4 /\ ~Positive(b[3]) => b[4] = UINT16_MAX
  BY AddressWords
<1>3. n \notin {1, 2} => n = 0 \/ n >= 3
  BY <1>1
<1>4. n >= 3 => a = b
  <2> SUFFICES ASSUME n >= 3
               PROVE  a = b
    BY Zenon
  <2>1. n # 0 /\ (n = 4 => 4 <= n) /\ \A j \in 1..3 : j \in 1..4 /\ j <= n
    BY <1>1
  <2>2. \A j \in 1..3 : a[j] = b[j]
    BY <1>1, <1>2, <2>1, Zenon
  <2>3. a[3] = b[3]
    BY <2>2
  <2>4. a[4] = b[4]
    <3>1. CASE n = 4
      BY <1>1, <1>2, <3>1
    <3>2. CASE n # 4
      BY <1>1, <1>2, <2>1, <2>3, <3>2, Zenon
    <3>3. QED
      BY <3>1, <3>2, Zenon
  <2>5. \A j \in 1..4 : a[j] = b[j]
    BY <2>2, <2>4
  <2>6. QED
    BY <1>1, <1>2, <2>5 DEF Addresses
<1>5. n \notin {1, 2} => a = b
  BY <1>1, <1>2, <1>3, <1>4, Zenon
<1>6. QED
  BY <1>1, <1>2, <1>5, Zenon

(* A step at a strange packet: the loop ends.                              *)
LEMMA StrangeStep ==
    ASSUME TypeOK, buf = Bytes(input), pc = "packet", Next,
           NEW k \in 1..Total, AtStart(k), IsStrange(input, k)
    PROVE  pc' = "search" /\ UNCHANGED <<input, buf, p, last_ip, ips>>
<1> DEFINE size == Size(input, k)
<1>1. /\ \A j \in Nat : Octet(input, k, j + 1) = At(j)
      /\ size \in Nat /\ size >= 1 /\ p \in Nat /\ Len(buf) \in Nat /\ p + size <= Len(buf)
  BY AtOfPacket, Zenon
<1> HIDE DEF size
<1>2. AtPacket
  BY AtOfPacket, Zenon DEF AtPacket
<1>3. Octet(input, k, 1) = At(0) /\ Octet(input, k, 2) = At(1)
  <2>1. 0 + 1 = 1 /\ 1 + 1 = 2
    OBVIOUS
  <2>2. QED
    BY <1>1, <2>1, Zenon
<1>4. /\ At(0) % 2 = 1 /\ At(0) % 4 # 3 /\ ~HasAddress(At(0)) /\ At(0) \notin {25, 89}
      /\ At(0) = 153 => At(1) \div 32 \notin {0, 1}
  BY <1>3, Zenon DEF IsStrange
<1>5. IsUnknown
  BY <1>4, Zenon DEF IsUnknown, IsIP, IsCYC, OddLength, HasAddress
<1>6. LeaveLoop
  BY <1>2, <1>5, Branches, Zenon
<1>7. QED
  BY <1>6, Zenon DEF LeaveLoop

-----------------------------------------------------------------------------
(* What has been reported stays when more is.                              *)
LEMMA AgreementKept ==
    ASSUME NEW out \in Seq(Entries), NEW t \in Seq(Addresses), Agrees(out, t),
           NEW e \in Addresses
    PROVE  /\ Agrees(out, Append(t, e))
           /\ \A d \in Entries : Len(t) = Len(out) /\ (d.marked \/ e = d.ip)
                 => /\ Append(out, d) \in Seq(Entries)
                    /\ Agrees(Append(out, d), Append(t, e))
                    /\ Len(Append(t, e)) = Len(Append(out, d))
<1>1. /\ Len(out) \in Nat /\ Len(t) \in Nat /\ Len(out) <= Len(t)
      /\ \A j \in 1..Len(out) : out[j].marked \/ t[j] = out[j].ip
  BY DEF Agrees
<1>2. /\ Len(Append(t, e)) = Len(t) + 1 /\ Append(t, e)[Len(t) + 1] = e
      /\ \A j \in 1..Len(t) : Append(t, e)[j] = t[j]
  OBVIOUS
<1>3. Agrees(out, Append(t, e))
  BY <1>1, <1>2 DEF Agrees
<1>4. ASSUME NEW d \in Entries, Len(t) = Len(out), d.marked \/ e = d.ip
      PROVE  /\ Append(out, d) \in Seq(Entries)
             /\ Agrees(Append(out, d), Append(t, e))
             /\ Len(Append(t, e)) = Len(Append(out, d))
  <2>1. /\ Append(out, d) \in Seq(Entries)
        /\ Len(Append(out, d)) = Len(out) + 1 /\ Append(out, d)[Len(out) + 1] = d
        /\ \A j \in 1..Len(out) : Append(out, d)[j] = out[j]
    OBVIOUS
  <2>2. ASSUME NEW j \in 1..Len(out) + 1
        PROVE  Append(out, d)[j].marked \/ Append(t, e)[j] = Append(out, d)[j].ip
    <3>1. CASE j = Len(out) + 1
      BY <1>2, <1>4, <2>1, <3>1, Zenon
    <3>2. CASE j # Len(out) + 1
      <4>1. j \in 1..Len(out) /\ j \in 1..Len(t)
        BY <1>1, <1>4, <3>2
      <4>2. QED
        BY <1>1, <1>2, <2>1, <4>1, Zenon
    <3>3. QED
      BY <3>1, <3>2, Zenon
  <2>3. Len(Append(out, d)) <= Len(Append(t, e)) /\ Len(Append(t, e)) = Len(Append(out, d))
    BY <1>1, <1>2, <1>4, <2>1
  <2>4. QED
    BY <2>1, <2>2, <2>3, Zenon DEF Agrees
<1>5. QED
  BY <1>3, <1>4, Zenon

(* Once the packets have been read, what they gave is not touched.         *)
LEMMA BehindKept ==
    ASSUME TypeOK, OnTrack, Behind, Next
    PROVE  OnTrack'
<1>1. UNCHANGED <<input, buf>>
  BY Zenon DEF Next, Search, Extended, Short, Odd, CYC, IP, LeaveLoop, Move
<1>2. ips' = ips \/ \E e : ips' = Append(ips, e)
  BY Zenon DEF Next, Search, Extended, Short, Odd, CYC, IP, LeaveLoop, Move
<1>3. TypeOK'
  BY TypeKept, Zenon
<1> DEFINE out == Reading(Total).out
<1>4. /\ out \in Seq(Entries) /\ Agrees(out, ips)
      /\ ips \in Seq(Addresses) /\ ips' \in Seq(Addresses)
  BY <1>3, Zenon DEF Behind, TypeOK, Addresses
<1>5. Agrees(out, ips')
  <2>1. CASE ips' = ips
    BY <1>4, <2>1, Zenon
  <2>2. CASE \E e : ips' = Append(ips, e)
    <3>1. PICK e : ips' = Append(ips, e)
      BY <2>2, Zenon
    <3>2. e \in Addresses
      <4>1. ips'[Len(ips) + 1] = e /\ Len(ips) + 1 \in 1..Len(ips')
        BY <1>4, <3>1
      <4>2. QED
        BY <1>4, <4>1
    <3> HIDE DEF out
    <3>3. QED
      BY <1>4, <3>1, <3>2, AgreementKept, Zenon
  <2>3. QED
    BY <1>2, <2>1, <2>2, Zenon
<1>6. out' = out /\ Total' = Total
  BY <1>1, Zenon DEF Reading, Total
<1>7. Behind'
  BY <1>1, <1>4, <1>5, <1>6, Zenon DEF Behind
<1>8. Finished'
  <2>1. Ends(input)[Total] # Len(buf)
    <3>1. Ends(input)[Total] \in Nat /\ Len(buf) \in Nat
      BY Layout DEF OnTrack
    <3>2. QED
      BY <3>1 DEF Behind
  <2>2. QED
    BY <1>1, <1>5, <1>6, <2>1, Zenon DEF Finished
<1>9. buf' = Bytes(input')
  BY <1>1, Zenon DEF OnTrack
<1>10. QED
  BY <1>7, <1>8, <1>9, Zenon DEF OnTrack

(* When the search finds no PSB, no packet follows that is understood; the *)
(* PSB that it finds is the next one of the trace, or behind its packets.  *)
LEMMA SearchKept ==
    ASSUME TypeOK, OnTrack, Search
    PROVE  OnTrack'
<1>1. UNCHANGED <<input, buf, last_ip, ips>> /\ pc = "search" /\ buf = Bytes(input) /\ Next
  BY Zenon DEF Search, OnTrack, Next
<1>2. /\ Kinds(input) \in Seq({"psb", "other", "address", "strange"})
      /\ Total \in Nat /\ Len(buf) \in Nat /\ p \in Nat
      /\ Ends(input) \in [0..Total -> Nat] /\ Ends(input)[Total] <= Len(buf)
      /\ \A j, k \in 0..Total : j < k => Ends(input)[j] < Ends(input)[k]
      /\ \A k \in 1..Total : IsPacket(input, k)
  BY <1>1, Layout, Zenon
<1>3. \A q \in 0..Ends(input)[Total] - 1 :
         PSBAt(q) => \E k \in 1..Total : /\ Kinds(input)[k] = "psb"
                                         /\ Ends(input)[k - 1] <= q
                                         /\ q < Ends(input)[k]
  BY <1>1, Layout, Zenon
<1>4. Total' = Total /\ \A k : Reading(k)' = Reading(k)
  BY <1>1, Zenon DEF Total, Reading
<1>5. CASE Behind
  BY <1>1, <1>5, BehindKept, Zenon
<1>6. CASE p >= Len(buf) /\ Finished
  <2>1. pc' = "done"
    BY <1>2, <1>6 DEF Search
  <2>2. Finished'
    BY <1>1, <1>4, <1>6, Zenon DEF Finished
  <2>3. QED
    BY <1>1, <2>1, <2>2, Zenon DEF OnTrack
<1>7. ASSUME NEW k \in 0..Total, Searching(k)
      PROVE  OnTrack'
  <2>1. Reading(k).pc = "search" /\ Known(k)
    BY <1>7, Zenon DEF Searching
  <2>2. ASSUME NEW j \in 1..Total, Kinds(input)[j] = "psb"
        PROVE  PSBAt(Ends(input)[j - 1]) /\ Ends(input)[j - 1] \in Nat
               /\ Ends(input)[j - 1] < Ends(input)[Total]
    <3>1. IsPSB(input, j)
      BY <1>2, <2>2, Zenon DEF IsPacket
    <3>2. PSBAt(Ends(input)[j - 1])
      BY <1>1, <3>1, Zenon DEF IsPSB, Pattern, PSBAt
    <3>3. j - 1 \in 0..Total /\ Total \in 0..Total /\ j - 1 < Total
      BY <1>2
    <3>4. QED
      BY <1>2, <3>2, <3>3, Zenon
  <2>3. ASSUME NEW j \in k + 1..Total
        PROVE  p <= Ends(input)[j - 1]
    <3>1. j - 1 \in 0..Total /\ (k > 0 => k - 1 \in 0..Total /\ k - 1 < j - 1)
      BY <1>2
    <3>2. Ends(input)[j - 1] \in Nat /\ (k > 0 => Ends(input)[k - 1] < Ends(input)[j - 1])
      BY <1>2, <3>1, Zenon
    <3>3. CASE k = 0
      <4>1. p = 0
        BY <1>7, <3>3 DEF Searching
      <4>2. QED
        BY <3>2, <4>1
    <3>4. CASE k # 0
      <4>1. p = Ends(input)[k - 1] /\ k > 0
        BY <1>7, <3>4, Zenon DEF Searching, AtStart
      <4>2. QED
        BY <1>2, <3>2, <4>1
    <3>5. QED
      BY <3>3, <3>4, Zenon
  <2>4. ASSUME NEW j \in k..Total, \A l \in k + 1..j : Kinds(input)[l] # "psb"
        PROVE  Reading(j).pc = "search" /\ NoNews(j, k)
    <3>1. k \in 0..Len(Kinds(input)) /\ j \in k..Len(Kinds(input))
      BY Zenon DEF Total
    <3>2. QED
      BY <1>2, <2>1, <2>4, <3>1, Silence DEF Reading, NoNews
  <2>5. CASE p' = Len(buf) /\ pc' = "done" /\ ~\E i \in p..Len(buf) : PSBAt(i)
    <3>1. \A l \in k + 1..Total : Kinds(input)[l] # "psb"
      <4> SUFFICES ASSUME NEW l \in k + 1..Total, Kinds(input)[l] = "psb"
                   PROVE  FALSE
        BY Zenon
      <4>1. l \in 1..Total
        BY <1>2
      <4>2. PSBAt(Ends(input)[l - 1]) /\ Ends(input)[l - 1] \in p..Len(buf)
        <5>1. PSBAt(Ends(input)[l - 1]) /\ Ends(input)[l - 1] \in Nat
              /\ Ends(input)[l - 1] < Ends(input)[Total]
          BY <2>2, <4>1, Zenon
        <5>2. Ends(input)[Total] \in Nat
          BY <1>2
        <5>3. QED
          BY <1>2, <2>3, <5>1, <5>2
      <4>3. QED
        BY <2>5, <4>2, Zenon
    <3>2. NoNews(Total, k)
      <4>1. Total \in k..Total
        BY <1>2
      <4>2. QED
        BY <2>4, <3>1, <4>1, Zenon
    <3>3. Agrees(Reading(Total).out, ips) /\ Len(ips) = Len(Reading(Total).out)
      BY <2>1, <3>2, Zenon DEF Known, NoNews
    <3>4. Finished'
      BY <1>1, <1>4, <3>3, Zenon DEF Finished
    <3>5. QED
      BY <1>1, <2>5, <3>4, Zenon DEF OnTrack
  <2>6. CASE /\ p' \in p..Len(buf) /\ PSBAt(p') /\ pc' = "packet"
             /\ \A i \in p..Len(buf) : PSBAt(i) => p' <= i
    <3>0. p' \in Nat /\ Len(buf) - p' >= 16 /\ Ends(input)[Total] \in Nat
      BY <1>2, <2>6 DEF PSBAt
    <3>1. ASSUME NEW j \in k..Total, NEW q \in Nat, q <= p',
                 \A l \in k + 1..j : Ends(input)[l - 1] < q
          PROVE  Reading(j).pc = "search" /\ NoNews(j, k)
      <4>1. ASSUME NEW l \in k + 1..j, Kinds(input)[l] = "psb"
            PROVE  FALSE
        <5>1. l \in 1..Total /\ l \in k + 1..Total
          BY <1>2
        <5>2. /\ PSBAt(Ends(input)[l - 1]) /\ Ends(input)[l - 1] \in Nat
              /\ Ends(input)[l - 1] < Ends(input)[Total]
          BY <2>2, <4>1, <5>1, Zenon
        <5>3. p <= Ends(input)[l - 1] /\ Ends(input)[l - 1] < q
          BY <2>3, <3>1, <5>1, Zenon
        <5>4. Ends(input)[l - 1] \in p..Len(buf)
          BY <1>2, <3>0, <5>2, <5>3
        <5>5. p' <= Ends(input)[l - 1]
          BY <2>6, <5>2, <5>4, Zenon
        <5>6. QED
          BY <3>0, <3>1, <5>2, <5>3, <5>5
      <4>2. QED
        BY <2>4, <4>1, Zenon
    <3>2. CASE p' < Ends(input)[Total]
      <4>1. p' \in 0..Ends(input)[Total] - 1
        BY <3>0, <3>2
      <4>2. PICK j \in 1..Total : /\ Kinds(input)[j] = "psb"
                                  /\ Ends(input)[j - 1] <= p' /\ p' < Ends(input)[j]
        BY <1>3, <2>6, <4>1, Zenon
      <4>3. /\ PSBAt(Ends(input)[j - 1]) /\ Ends(input)[j - 1] \in Nat
            /\ Ends(input)[j - 1] < Ends(input)[Total]
        BY <2>2, <4>2, Zenon
      <4>4. j > k
        <5>1. k # 0 => k - 1 \in 0..Total /\ j \in 0..Total
          BY <1>2
        <5>2. CASE k = 0
          BY <5>2
        <5>3. CASE k # 0
          <6>1. Kinds(input)[k] = "strange" /\ p = Ends(input)[k - 1]
            BY <1>7, <5>3, Zenon DEF Searching, AtStart
          <6>2. j # k
            BY <4>2, <6>1, Zenon
          <6>3. ASSUME j < k PROVE FALSE
            <7>0. Ends(input)[j] \in Nat /\ Ends(input)[k - 1] \in Nat
              BY <1>2, <5>1, <5>3, Zenon
            <7>1. Ends(input)[j] <= Ends(input)[k - 1]
              <8>1. CASE j = k - 1
                BY <7>0, <8>1
              <8>2. CASE j # k - 1
                <9>1. j < k - 1
                  BY <6>3, <8>2
                <9>2. Ends(input)[j] < Ends(input)[k - 1]
                  BY <1>2, <5>1, <5>3, <9>1, Zenon
                <9>3. QED
                  BY <7>0, <9>2
              <8>3. QED
                BY <8>1, <8>2, Zenon
            <7>2. p <= p'
              BY <1>2, <2>6
            <7>3. QED
              BY <3>0, <4>2, <6>1, <7>0, <7>1, <7>2
          <6>4. QED
            BY <1>2, <6>2, <6>3
        <5>4. QED
          BY <5>2, <5>3, Zenon
      <4>5. p' = Ends(input)[j - 1]
        <5>1. p <= Ends(input)[j - 1]
          BY <1>2, <2>3, <4>4
        <5>2. Ends(input)[j - 1] \in p..Len(buf)
          BY <1>2, <3>0, <4>3, <5>1
        <5>3. p' <= Ends(input)[j - 1]
          BY <2>6, <4>3, <5>2, Zenon
        <5>4. QED
          BY <3>0, <4>2, <4>3, <5>3
      <4>6. NoNews(j - 1, k)
        <5>1. j - 1 \in k..Total
          BY <1>2, <4>4
        <5>2. \A l \in k + 1..j - 1 : Ends(input)[l - 1] < p'
          <6> SUFFICES ASSUME NEW l \in k + 1..j - 1
                       PROVE  Ends(input)[l - 1] < p'
            BY Zenon
          <6>1. l - 1 \in 0..Total /\ j - 1 \in 0..Total /\ l - 1 < j - 1
            BY <1>2, <4>4
          <6>2. Ends(input)[l - 1] < Ends(input)[j - 1]
            BY <1>2, <6>1, Zenon
          <6>3. QED
            BY <4>5, <6>2, Zenon
        <5>3. QED
          BY <3>0, <3>1, <5>1, <5>2
      <4>7. Reading(j) = Understand(Reading(j - 1), input, j)
        BY <1>2, ReadingsStep, Zenon DEF Reading, Total
      <4>8. Reading(j).pc = "packet" /\ NoNews(j, k)
        <5>1. Reading(j).pc = "packet" /\ NoNews(j, j - 1)
          BY <4>2, <4>7, UnderstandKinds DEF NoNews
        <5>2. QED
          BY <4>6, <5>1, Zenon DEF NoNews
      <4>9. InStep(j)'
        <5>1. Known(j)'
          BY <1>1, <1>4, <2>1, <4>8, Zenon DEF Known, NoNews
        <5>2. j > 0 /\ Reading(j)'.pc = "packet"
          BY <1>4, <4>8
        <5>3. QED
          BY <1>1, <4>2, <4>5, <5>1, <5>2, Zenon DEF InStep, AtStart
      <4>10. QED
        BY <1>1, <1>2, <1>4, <2>6, <4>9 DEF OnTrack
    <3>3. CASE ~(p' < Ends(input)[Total])
      <4>1. Ends(input)[Total] < Len(buf)
        BY <1>2, <3>0, <3>3
      <4>2. NoNews(Total, k)
        <5>1. Total \in k..Total /\ Ends(input)[Total] <= p'
          BY <1>2, <3>0, <3>3
        <5>2. \A l \in k + 1..Total : Ends(input)[l - 1] < Ends(input)[Total]
          <6> SUFFICES ASSUME NEW l \in k + 1..Total
                       PROVE  Ends(input)[l - 1] < Ends(input)[Total]
            BY Zenon
          <6>1. l - 1 \in 0..Total /\ Total \in 0..Total /\ l - 1 < Total
            BY <1>2
          <6>2. QED
            BY <1>2, <6>1, Zenon
        <5>3. QED
          BY <3>0, <3>1, <5>1, <5>2, Zenon
      <4>3. Agrees(Reading(Total).out, ips) /\ Reading(Total).out \in Seq(Entries)
        BY <2>1, <4>2, Zenon DEF Known, NoNews
      <4>4. Behind'
        BY <1>1, <1>4, <4>1, <4>3, Zenon DEF Behind
      <4>5. QED
        BY <1>1, <2>6, <4>4, Zenon DEF OnTrack
    <3>4. QED
      BY <3>2, <3>3, Zenon
  <2>7. QED
    <3>1. p < Len(buf) \/ ~\E i \in p..Len(buf) : PSBAt(i)
      BY <1>2 DEF PSBAt
    <3>2. \/ p' = Len(buf) /\ pc' = "done" /\ ~\E i \in p..Len(buf) : PSBAt(i)
          \/ pc' # "done"
      BY <3>1, Zenon DEF Search
    <3>3. QED
      BY <2>5, <2>6, <3>2, SearchEffect, Zenon
<1>8. QED
  BY <1>1, <1>5, <1>6, <1>7, Zenon DEF OnTrack

(* A step of the loop takes the next packet and reports what it stands     *)
(* for; at the end of the trace it is behind the packets.                  *)
LEMMA LoopKept ==
    ASSUME TypeOK, OnTrack, Next, pc = "packet", NEW k \in 0..Total, InStep(k)
    PROVE  OnTrack'
<1>1. buf = Bytes(input)
  BY Zenon DEF OnTrack
<1>2. /\ Kinds(input) \in Seq({"psb", "other", "address", "strange"})
      /\ Total \in Nat /\ Len(buf) \in Nat /\ p \in Nat
      /\ Ends(input) \in [0..Total -> Nat] /\ Ends(input)[Total] <= Len(buf)
      /\ \A i, j \in 0..Total : i < j => Ends(input)[i] < Ends(input)[j]
      /\ \A i \in 1..Total : IsPacket(input, i)
  BY <1>1, Layout, Zenon
<1>3. Reading(k).pc = "packet" /\ Known(k)
  BY Zenon DEF InStep
<1>4. ASSUME UNCHANGED <<input, buf>>
      PROVE  Total' = Total /\ \A j : Reading(j)' = Reading(j)
  BY <1>4, Zenon DEF Total, Reading
<1>5. ASSUME UNCHANGED <<input, buf, last_ip, pc, ips>>, p' = Ends(input)[k]
      PROVE  OnTrack'
  <2>1. InStep(k)'
    BY <1>3, <1>4, <1>5, Zenon DEF InStep, Known
  <2>2. QED
    BY <1>1, <1>4, <1>5, <2>1, Zenon DEF OnTrack
<1>6. CASE k > 0 /\ Kinds(input)[k] = "psb" /\ AtStart(k)
  <2>1. k \in 1..Total
    BY <1>2, <1>6
  <2>2. IsPSB(input, k)
    BY <1>2, <1>6, <2>1, Zenon DEF IsPacket
  <2>3. QED
    BY <1>1, <1>5, <1>6, <2>1, <2>2, PSBStep, Zenon
<1>7. CASE p = Ends(input)[k] - 1 /\ OneByte(At(0))
  <2>1. Ends(input)[k] <= Len(buf) /\ Ends(input)[k] \in Nat
    BY <1>2
  <2>2. AtPacket
    BY <1>2, <1>7, <2>1 DEF AtPacket
  <2>3. p' = p + 1 /\ UNCHANGED <<input, buf, last_ip, pc, ips>>
    BY <1>7, <2>2, OneByteStep, Zenon
  <2>4. p' = Ends(input)[k]
    BY <1>7, <2>1, <2>3
  <2>5. QED
    BY <1>5, <2>3, <2>4, Zenon
<1>8. CASE p = Ends(input)[k] /\ k = Total
  <2>1. CASE p < Len(buf)
    <3>1. Reading(Total).out \in Seq(Entries) /\ Agrees(Reading(Total).out, ips)
      BY <1>3, <1>8, Zenon DEF Known
    <3>2. Behind
      BY <1>8, <2>1, <3>1, Zenon DEF Behind
    <3>3. QED
      BY <3>2, BehindKept, Zenon
  <2>2. CASE ~(p < Len(buf))
    <3>1. Ends(input)[Total] = Len(buf)
      BY <1>2, <1>8, <2>2
    <3>2. LeaveLoop
      BY <2>2, Zenon DEF Next, Search, Extended, Short, Odd, CYC, IP, AtPacket
    <3>3. pc' = "search" /\ UNCHANGED <<input, buf, p, ips>>
      BY <3>2, Zenon DEF LeaveLoop
    <3>4. Finished'
      BY <1>3, <1>4, <1>8, <3>1, <3>3, Zenon DEF Finished, Known
    <3>5. p' >= Len(buf')
      BY <1>2, <2>2, <3>3
    <3>6. QED
      BY <1>1, <3>3, <3>4, <3>5, Zenon DEF OnTrack
  <2>3. QED
    BY <2>1, <2>2, Zenon
<1>9. CASE p = Ends(input)[k] /\ k # Total
  <2> DEFINE j == k + 1
  <2>1. j \in 1..Total /\ j \in 0..Total /\ j - 1 = k /\ j > 0
    BY <1>2, <1>9
  <2>2. IsPacket(input, j) /\ Reading(j) = Understand(Reading(j - 1), input, j)
    BY <1>2, <2>1, ReadingsStep, Zenon DEF Reading, Total
  <2> HIDE DEF j
  <2>3. AtStart(j)
    BY <1>9, <2>1, Zenon DEF AtStart
  <2>4. Reading(j) = Understand(Reading(k), input, j)
    BY <2>1, <2>2, Zenon
  <2>a. ASSUME UNCHANGED <<input, buf, last_ip, ips>>, NoNews(j, k)
        PROVE  Known(j)'
    BY <1>3, <1>4, <2>a, Zenon DEF Known, NoNews
  <2>5. CASE Kinds(input)[j] = "psb" /\ IsPSB(input, j)
    <3>1. p' = Ends(input)[j] /\ UNCHANGED <<input, buf, last_ip, pc, ips>>
      BY <1>1, <2>1, <2>3, <2>5, PSBStep, Zenon
    <3>2. Reading(j).pc = "packet" /\ NoNews(j, k)
      BY <1>3, <2>4, <2>5, UnderstandKinds DEF NoNews
    <3>3. InStep(j)'
      BY <1>4, <2>a, <3>1, <3>2, Zenon DEF InStep
    <3>4. QED
      BY <1>1, <1>4, <2>1, <3>1, <3>3, Zenon DEF OnTrack
  <2>6. CASE Kinds(input)[j] = "other" /\ IsOther(input, j)
    <3>1. /\ UNCHANGED <<input, buf, last_ip, pc, ips>>
          /\ \/ p' = Ends(input)[j]
             \/ p' = Ends(input)[j] - 1 /\ OneByte(buf[p' + 1])
      BY <1>1, <2>1, <2>3, <2>6, OtherStep, Zenon
    <3>2. Reading(j).pc = "packet" /\ NoNews(j, k)
      BY <1>3, <2>4, <2>6, UnderstandKinds DEF NoNews
    <3>3. At(0)' = buf[p' + 1]
      <4>1. p' \in Nat
        BY TypeKept, Zenon DEF TypeOK
      <4>2. p' + 0 + 1 = p' + 1
        BY <4>1
      <4>3. QED
        BY <3>1, <4>2, Zenon DEF At
    <3>4. InStep(j)'
      BY <1>4, <2>a, <3>1, <3>2, <3>3, Zenon DEF InStep
    <3>5. QED
      BY <1>1, <1>4, <2>1, <3>1, <3>4, Zenon DEF OnTrack
  <2>7. CASE Kinds(input)[j] = "address" /\ IsAddress(input, j)
    <3>1. /\ UNCHANGED <<input, buf, pc>>
          /\ p' = Ends(input)[j]
          /\ last_ip' = Address(input, j, last_ip)
          /\ ips' = Append(ips, Address(input, j, last_ip))
      BY <1>1, <2>1, <2>3, <2>7, AddressStep, Zenon
    <3> DEFINE r     == Reading(k)
               n     == Words(Octet(input, j, 1) \div 32)
               new   == Address(input, j, r.ip)
               ip    == Address(input, j, last_ip)
               entry == [ip |-> new, marked |-> n \in {1, 2} /\ r.stale]
    <3>2. /\ Reading(j).pc = "packet"
          /\ n # 0 => Reading(j).ip = new
          /\ n = 0 => Reading(j).ip = r.ip
          /\ Reading(j).stale = (n = 0 \/ (n < 3 /\ r.stale))
          /\ Reading(j).out = Append(r.out, entry)
      BY <1>3, <2>4, <2>7, UnderstandKinds, UnderstandAddress
    <3>3. /\ r.ip \in Addresses /\ last_ip \in Addresses
          /\ r.out \in Seq(Entries) /\ ips \in Seq(Addresses)
          /\ Agrees(r.out, ips) /\ Len(ips) = Len(r.out)
          /\ r.stale \/ last_ip = r.ip
      BY <1>3, Zenon DEF Known, TypeOK, Addresses
    <3> HIDE DEF r
    <3>4. /\ n \in 0..4 /\ new \in Addresses /\ ip \in Addresses
          /\ n \notin {1, 2} => ip = new
      BY <1>1, <2>1, <2>3, <2>7, <3>3, AddressAlone
    <3>5. r.stale \/ ip = new
      BY <3>3, Zenon
    <3> HIDE DEF n, new, ip
    <3>6. entry \in Entries /\ (entry.marked \/ ip = entry.ip)
      <4>1. entry \in Entries
        BY <3>4 DEF Entries
      <4>2. entry.marked = (n \in {1, 2} /\ r.stale) /\ entry.ip = new
        BY Zenon
      <4> HIDE DEF entry
      <4>3. QED
        BY <3>4, <3>5, <4>1, <4>2, Zenon
    <3> HIDE DEF entry
    <3>7. /\ Reading(j).out \in Seq(Entries) /\ Agrees(Reading(j).out, ips')
          /\ Len(ips') = Len(Reading(j).out)
      <4>1. ips' = Append(ips, ip)
        BY <3>1, Zenon DEF ip
      <4>2. /\ Append(r.out, entry) \in Seq(Entries)
            /\ Agrees(Append(r.out, entry), Append(ips, ip))
            /\ Len(Append(ips, ip)) = Len(Append(r.out, entry))
        BY <3>3, <3>4, <3>6, AgreementKept
      <4>3. QED
        BY <3>2, <4>1, <4>2, Zenon
    <3>8. Reading(j).ip \in Addresses /\ (Reading(j).stale \/ last_ip' = Reading(j).ip)
      <4>1. last_ip' = ip
        BY <3>1, Zenon DEF ip
      <4>2. CASE n = 0
        BY <3>2, <3>3, <4>2, Zenon
      <4>3. CASE n # 0
        <5>1. Reading(j).ip = new
          BY <3>2, <4>3, Zenon
        <5>2. n \in {1, 2} => n < 3
          OBVIOUS
        <5>3. QED
          BY <3>2, <3>4, <3>5, <4>1, <5>1, <5>2, Zenon
      <4>4. QED
        BY <4>2, <4>3, Zenon
    <3>9. InStep(j)'
      BY <1>4, <3>1, <3>2, <3>7, <3>8, Zenon DEF InStep, Known
    <3>10. QED
      BY <1>1, <1>4, <2>1, <3>1, <3>9, Zenon DEF OnTrack
  <2>8. CASE Kinds(input)[j] = "strange" /\ IsStrange(input, j)
    <3>1. pc' = "search" /\ UNCHANGED <<input, buf, p, last_ip, ips>>
      BY <1>1, <2>1, <2>3, <2>8, StrangeStep, Zenon
    <3>2. Reading(j).pc = "search" /\ NoNews(j, k)
      BY <1>3, <2>4, <2>8, UnderstandKinds DEF NoNews
    <3>3. Searching(j)'
      BY <1>4, <2>1, <2>3, <2>8, <2>a, <3>1, <3>2, Zenon DEF Searching, AtStart
    <3>4. QED
      BY <1>1, <1>4, <2>1, <3>1, <3>3, Zenon DEF OnTrack
  <2>9. QED
    BY <2>2, <2>5, <2>6, <2>7, <2>8, Zenon DEF IsPacket
<1>10. QED
  BY <1>6, <1>7, <1>8, <1>9, Zenon DEF InStep

(* decode reports the addresses of every trace, each once and in order,    *)
(* wherever the record ends, with the two reservations of DecodesStream:   *)
(* an address that was completed after a packet with IPL 0 has no value to *)
(* agree with, and an MNT ends with a byte that passes for a packet.       *)
THEOREM DecodesEveryStream == Spec => []DecodesStream
<1>1. TypeOK /\ Init => OnTrack
  <2> SUFFICES ASSUME TypeOK, Init
               PROVE  OnTrack
    BY Zenon
  <2>1. buf = Bytes(input) /\ p = 0 /\ last_ip = Zero /\ pc = "search" /\ ips = <<>>
    BY Zenon DEF Init
  <2>2. Total \in Nat
    BY <2>1, Layout, Zenon
  <2>3. Reading(0) = Blank
    BY <2>2, ReadingsStep, Zenon DEF Reading, Total
  <2>4. Searching(0)
    <3>1. /\ Reading(0).pc = "search" /\ Reading(0).ip = Zero
          /\ Reading(0).out = <<>>
      BY <2>3 DEF Blank
    <3>2. Agrees(<<>>, <<>>) /\ <<>> \in Seq(Entries)
      BY DEF Agrees
    <3>3. Known(0)
      BY <2>1, <3>1, <3>2, ZeroIsAddress, Zenon DEF Known, Addresses
    <3>4. QED
      BY <2>1, <3>1, <3>3, Zenon DEF Searching
  <2>5. QED
    BY <2>1, <2>2, <2>4 DEF OnTrack
<1>2. TypeOK /\ OnTrack /\ [Next]_vars => OnTrack'
  <2> SUFFICES ASSUME TypeOK, OnTrack, [Next]_vars
               PROVE  OnTrack'
    BY Zenon
  <2>1. CASE Search
    BY <2>1, SearchKept, Zenon
  <2>2. CASE Next /\ ~Search
    <3>1. pc = "packet"
      BY <2>2, Zenon DEF Next, Extended, Short, Odd, CYC, IP, LeaveLoop, AtPacket
    <3>2. QED
      BY <2>2, <3>1, BehindKept, LoopKept, Zenon DEF OnTrack
  <2>3. CASE UNCHANGED vars
    BY <2>3, Zenon DEF vars, OnTrack, Behind, Finished, Searching, InStep, Known, AtStart, Total, Reading, At
  <2>4. QED
    BY <2>1, <2>2, <2>3, Zenon
<1>3. OnTrack => DecodesStream
  BY Zenon DEF OnTrack, Finished, DecodesStream, Total, Reading
<1>4. QED
  BY <1>1, <1>2, <1>3, Typed, PTL DEF Spec

-----------------------------------------------------------------------------
(* decode ends.                                                            *)

(* The loop is entered at a PSB, and the search after it begins elsewhere. *)
LeftBehind ==
    /\ pc = "search" => psb = -1 \/ ~PSBAt(p)
    /\ pc = "packet" => psb # -1

(* A bound on the steps that are left.  Going back to the search moves     *)
(* nothing, so it costs the one step by which the packet loop is ahead.    *)
Remaining ==
    IF pc = "done" THEN 0
    ELSE 2 * (Len(buf) + 1 - p) + (IF pc = "packet" THEN 2 ELSE IF psb = -1 THEN 3 ELSE 1)

(* Every iteration of decode, whatever the bytes of the record, brings it  *)
(* nearer to its end: the loops of PTDecoder.h cannot go round in place.   *)
EachStepCounts == [][Remaining' \in Nat /\ Remaining' < Remaining]_vars

(* Only the first search can begin at a PSB, and every step keeps this.    *)
LEMMA LeftBehindKept ==
    ASSUME TypeOK, LeftBehind, [Next]_vars
    PROVE  LeftBehind'
<1>1. p \in Nat /\ Len(buf) \in Nat /\ psb \in Int
  BY DEF TypeOK
<1>2. CASE Search
  <2>1. \/ p' \in p..Len(buf) /\ psb' = p' /\ pc' = "packet"
        \/ pc' = "done"
    BY <1>2, SearchEffect, Zenon
  <2>2. QED
    BY <1>1, <2>1 DEF LeftBehind
<1>3. CASE Extended \/ Short \/ Odd \/ CYC \/ IP
  <2>1. AtPacket /\ UNCHANGED <<pc, psb>>
    BY <1>3, Moves, Zenon
  <2>2. QED
    BY <2>1, Zenon DEF LeftBehind, AtPacket
<1>4. CASE LeaveLoop
  <2>1. UNCHANGED <<buf, p, psb>> /\ pc = "packet" /\ pc' = "search"
    BY <1>4, Zenon DEF LeaveLoop
  <2>2. ~PSBAt(p)
    <3>1. CASE p < Len(buf)
      <4>1. AtPacket /\ IsUnknown
        BY <1>4, <3>1, Zenon DEF LeaveLoop, AtPacket
      <4>2. QED
        BY <4>1, PSBIsExtended, Zenon
    <3>2. CASE ~(p < Len(buf))
      BY <1>1, <3>2 DEF PSBAt
    <3>3. QED
      BY <3>1, <3>2, Zenon
  <2>3. ~PSBAt(p)'
    BY <2>1, <2>2, ZenonT(30) DEF PSBAt
  <2>4. QED
    BY <2>1, <2>3, Zenon DEF LeftBehind
<1>5. CASE UNCHANGED vars
  <2>1. UNCHANGED <<buf, p, pc, psb>>
    BY <1>5, Zenon DEF vars
  <2>2. PSBAt(p)' = PSBAt(p)
    BY <2>1, ZenonT(30) DEF PSBAt
  <2>3. QED
    BY <2>1, <2>2, Zenon DEF LeftBehind
<1>6. QED
  BY <1>2, <1>3, <1>4, <1>5, Zenon DEF Next

(* A step makes less remain to be done.                                    *)
LEMMA StepCounts ==
    ASSUME TypeOK, InBuffer, LeftBehind, Next
    PROVE  Remaining' \in Nat /\ Remaining' < Remaining
<1>1. p \in Nat /\ Len(buf) \in Nat /\ psb \in Int /\ p <= Len(buf) + 1
  BY DEF TypeOK, InBuffer
<1>2. CASE Search
  <2>1. pc = "search" /\ buf' = buf
    BY <1>2, Zenon DEF Search
  <2>2. Remaining = 2 * (Len(buf) + 1 - p) + (IF psb = -1 THEN 3 ELSE 1)
    BY <2>1, Zenon DEF Remaining
  <2>3. CASE p' \in p..Len(buf) /\ PSBAt(p') /\ pc' = "packet"
    <3>1. Remaining' = 2 * (Len(buf) + 1 - p') + 2
      BY <2>1, <2>3, Zenon DEF Remaining
    <3>2. psb = -1 \/ p' # p
      BY <2>1, <2>3, Zenon DEF LeftBehind
    <3>3. p' \in Nat /\ p <= p' /\ p' <= Len(buf)
      BY <1>1, <2>3
    <3>4. CASE psb = -1
      <4>1. Remaining = 2 * (Len(buf) + 1 - p) + 3
        BY <2>2, <3>4, Zenon
      <4>2. QED
        BY <1>1, <3>1, <3>3, <4>1
    <3>5. CASE psb # -1
      <4>1. Remaining = 2 * (Len(buf) + 1 - p) + 1 /\ p < p'
        BY <1>1, <2>2, <3>2, <3>3, <3>5
      <4>2. QED
        BY <1>1, <3>1, <3>3, <4>1
    <3>6. QED
      BY <3>4, <3>5, Zenon
  <2>4. CASE pc' = "done"
    <3>1. Remaining' = 0
      BY <2>4, Zenon DEF Remaining
    <3>2. QED
      BY <1>1, <2>2, <3>1
  <2>5. QED
    BY <1>2, <2>3, <2>4, SearchEffect, Zenon
<1>3. CASE Extended \/ Short \/ Odd \/ CYC \/ IP
  <2>1. /\ pc = "packet" /\ UNCHANGED <<buf, pc>>
        /\ p' \in Nat /\ p < p' /\ p' <= Len(buf) + 1
    BY <1>3, Moves, Zenon DEF AtPacket
  <2>2. /\ Remaining = 2 * (Len(buf) + 1 - p) + 2
        /\ Remaining' = 2 * (Len(buf) + 1 - p') + 2
    BY <2>1, Zenon DEF Remaining
  <2>3. QED
    BY <1>1, <2>1, <2>2
<1>4. CASE LeaveLoop
  <2>1. UNCHANGED <<buf, p, psb>> /\ pc = "packet" /\ pc' = "search" /\ psb # -1
    BY <1>4, Zenon DEF LeaveLoop, LeftBehind
  <2>2. /\ Remaining = 2 * (Len(buf) + 1 - p) + 2
        /\ Remaining' = 2 * (Len(buf) + 1 - p) + 1
    BY <2>1, Zenon DEF Remaining
  <2>3. QED
    BY <1>1, <2>2
<1>5. QED
  BY <1>2, <1>3, <1>4, Zenon DEF Next

(* Until it is done, decode has a branch to take: in the loop, every byte  *)
(* is the first of a packet of some kind, or sends it back to the search.  *)
LEMMA SomeBranch ==
    ASSUME TypeOK, pc # "done"
    PROVE  \/ pc = "search"
           \/ pc = "packet" /\ ~(p < Len(buf))
           \/ /\ AtPacket
              /\ \/ IsExtended
                 \/ ~IsExtended /\ At(0) % 2 = 0
                 \/ OddLength # 0
                 \/ IsCYC
                 \/ IsIP
                 \/ IsUnknown
<1>1. CASE AtPacket
  <2>1. p + 0 < Len(buf)
    BY <1>1 DEF TypeOK, AtPacket
  <2>2. At(0) \in Nat
    BY <2>1, AtIsByte, ByteIsNat, Zenon
  <2>3. At(0) % 2 = 0 \/ At(0) % 2 = 1
    BY <2>2, FirstBytes, Zenon
  <2>4. QED
    BY <1>1, <2>3, Zenon DEF IsUnknown
<1>2. CASE ~AtPacket
  BY <1>2, Zenon DEF TypeOK, AtPacket
<1>3. QED
  BY <1>1, <1>2, Zenon

(* decode cannot go on for ever: for every record, each of its steps makes *)
(* less remain to be done, of at most 2 * length + 5 steps.                *)
THEOREM NoEndlessLoop == Spec => EachStepCounts
<1>1. Init => LeftBehind
  BY Zenon DEF Init, LeftBehind
<1>2. TypeOK /\ LeftBehind /\ [Next]_vars => LeftBehind'
  BY LeftBehindKept, Zenon
<1>3. TypeOK /\ InBuffer /\ LeftBehind /\ [Next]_vars
         => [Remaining' \in Nat /\ Remaining' < Remaining]_vars
  BY StepCounts, Zenon
<1>4. QED
  BY <1>1, <1>2, <1>3, Typed, StaysInBuffer, PTL DEF Spec, EachStepCounts
=============================================================================

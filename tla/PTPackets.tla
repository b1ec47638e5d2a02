----------------------------- MODULE PTPackets -----------------------------
(***************************************************************************)
(* What a trace means to a reader of packets: the addresses that decode is *)
(* to report.  In a record, packets of known forms lie one behind the      *)
(* other, with anything before and after them.  The forms are the ones     *)
(* that PTDecoder.h names.                                                 *)
(***************************************************************************)
EXTENDS PTDecode

CONSTANTS Kinds(_),    \* the kinds of the packets of a trace
          Ends(_)      \* where the first k of them end, for every k

Size(i, k)     == Ends(i)[k] - Ends(i)[k - 1]
Octet(i, k, j) == Bytes(i)[Ends(i)[k - 1] + j]    \* the j-th byte of the k-th packet

\* The bytes of a PSB are at position q of b.
Pattern(b, q) ==
    /\ Len(b) - q >= 16
    /\ \A j \in 0..15 : b[q + j + 1] = IF j % 2 = 0 THEN 2 ELSE 130

IsPSB(i, k) == Size(i, k) = 16 /\ Pattern(Bytes(i), Ends(i)[k - 1])

\* PAD or short TNT.
OneByte(b) == b % 2 = 0 /\ b # 2

\* The packets that begin with 2.  The loop takes only ten of the eleven bytes
\* of an MNT, and the last one for a packet of its own.
BeginsWithTwo(i, k) ==
    /\ Octet(i, k, 1) = 2
    /\ \/ Octet(i, k, 2) \in {163, 67, 243} /\ Size(i, k) = 8               \* long TNT, PIP, OVF
       \/ Octet(i, k, 2) \in {131, 35} /\ Size(i, k) = 2                    \* TraceStop, PSBEND
       \/ Octet(i, k, 2) \in {115, 200} /\ Size(i, k) = 7                   \* TMA, VMCS
       \/ Octet(i, k, 2) = 3 /\ Octet(i, k, 4) = 0 /\ Size(i, k) = 4        \* CBR
       \/ /\ Octet(i, k, 2) = 195 /\ Octet(i, k, 3) = 136                   \* MNT
          /\ Size(i, k) = 11 /\ OneByte(Octet(i, k, 11))

\* CYC: each byte but the last one says that another one follows.
Cycles(i, k) ==
    /\ Octet(i, k, 1) % 4 = 3
    /\ IF (Octet(i, k, 1) \div 4) % 2 = 0
       THEN Size(i, k) = 1
       ELSE /\ Size(i, k) >= 2 /\ Octet(i, k, Size(i, k)) % 2 = 0
            /\ \A j \in 2..Size(i, k) - 1 : Octet(i, k, j) % 2 = 1

\* The packets that tell nothing of addresses.
IsOther(i, k) ==
    \/ BeginsWithTwo(i, k)
    \/ OneByte(Octet(i, k, 1)) /\ Size(i, k) = 1
    \/ Octet(i, k, 1) = 153 /\ Octet(i, k, 2) \div 32 \in {0, 1} /\ Size(i, k) = 2    \* MODE
    \/ Octet(i, k, 1) = 25 /\ Size(i, k) = 8                                          \* TSC
    \/ Octet(i, k, 1) = 89 /\ Size(i, k) = 2                                          \* MTC
    \/ Cycles(i, k)

HasAddress(b) == b % 32 \in {13, 17, 1, 29}

\* TIP, TIP.PGE, TIP.PGD and FUP, by the words that IPL stands for.
Words(ipl) == IF ipl < 4 THEN ipl ELSE 4

IsAddress(i, k) ==
    LET ipl == Octet(i, k, 1) \div 32
    IN  /\ HasAddress(Octet(i, k, 1))
        /\ ipl \in {0, 1, 2, 3, 4, 6}
        /\ Size(i, k) = 1 + 2 * Words(ipl)

\* No packet that is known, of any size.
IsStrange(i, k) ==
    LET b == Octet(i, k, 1)
    IN  /\ b % 2 = 1 /\ b % 4 # 3 /\ ~HasAddress(b) /\ b \notin {25, 89}
        /\ b = 153 => Size(i, k) >= 2 /\ Octet(i, k, 2) \div 32 \notin {0, 1}

IsPacket(i, k) ==
    \/ Kinds(i)[k] = "psb" /\ IsPSB(i, k)
    \/ Kinds(i)[k] = "other" /\ IsOther(i, k)
    \/ Kinds(i)[k] = "address" /\ IsAddress(i, k)
    \/ Kinds(i)[k] = "strange" /\ IsStrange(i, k)

-----------------------------------------------------------------------------
\* Only a PSB looks like one.
ASSUME TracesAssumption ==
    \A i \in Inputs :
        LET n == Len(Kinds(i))
            b == Bytes(i)
            e == Ends(i)
        IN  /\ Kinds(i) \in Seq({"psb", "other", "address", "strange"})
            /\ e \in [0..n -> Nat] /\ e[n] <= Len(b)
            /\ \A j, k \in 0..n : j < k => e[j] < e[k]
            /\ \A k \in 1..n : IsPacket(i, k)
            /\ \A q \in 0..e[n] - 1 :
                   Pattern(b, q) => \E k \in 1..n : /\ Kinds(i)[k] = "psb"
                                                   /\ e[k - 1] <= q /\ q < e[k]

\* The address that a packet stands for, after the address last: the low
\* words are replaced, and the highest follows the sign unless it is there, too.
\* A packet without words is out of context.
Address(i, k, last) ==
    LET n       == Words(Octet(i, k, 1) \div 32)
        word(j) == Octet(i, k, 2 * j) + 256 * Octet(i, k, 2 * j + 1)
        low     == [j \in 1..3 |-> IF j <= n THEN word(j) ELSE last[j]]
        high    == IF n = 4 THEN word(4) ELSE IF low[3] < 32768 THEN 0 ELSE UINT16_MAX
    IN  IF n = 0 THEN Zero ELSE [j \in 1..4 |-> IF j < 4 THEN low[j] ELSE high]

\* What is understood after one more packet: from a strange one to the next
\* PSB, nothing.  A packet without words does not update the last address; an
\* address that is completed from one that such a packet came after is marked.
Understand(acc, i, k) ==
    LET reports == acc.pc = "packet" /\ Kinds(i)[k] = "address"
        n       == Words(Octet(i, k, 1) \div 32)
        address == Address(i, k, acc.ip)
    IN  [pc     |-> CASE Kinds(i)[k] = "psb" -> "packet"
                      [] Kinds(i)[k] = "strange" -> "search"
                      [] OTHER -> acc.pc,
         ip     |-> IF reports /\ n # 0 THEN address ELSE acc.ip,
         stale  |-> IF reports THEN n = 0 \/ (n < 3 /\ acc.stale) ELSE acc.stale,
         out    |-> IF reports
                    THEN Append(acc.out, [ip |-> address, marked |-> n \in {1, 2} /\ acc.stale])
                    ELSE acc.out]

Blank == [pc |-> "search", ip |-> Zero, stale |-> FALSE, out |-> <<>>]

\* What is understood of the first k packets, for every k.
Readings(i) ==
    LET r[k \in 0..Len(Kinds(i))] == IF k = 0 THEN Blank ELSE Understand(r[k - 1], i, k)
    IN  r

\* The addresses s begin with the ones that were understood.
Agrees(out, s) ==
    /\ Len(out) <= Len(s)
    /\ \A j \in 1..Len(out) : out[j].marked \/ s[j] = out[j].ip

(* decode reports the addresses of the packets of a trace, each once and   *)
(* in order, whatever the packets between them; after an unknown packet it *)
(* goes on at the next PSB.  What follows the packets, such as one that is *)
(* cut off at the end of the record, does not change what they gave.  The  *)
(* value of one kind of address is left open: it has one or two words, and *)
(* since the last one with three or more there was a packet with IPL 0     *)
(* (see NoUpdateOnIPLZero).  Every MNT ends with a byte that can pass for  *)
(* a packet, for the loop takes only ten of its eleven bytes.              *)
DecodesStream ==
    pc = "done" =>
        LET n   == Len(Kinds(input))
            out == Readings(input)[n].out
        IN  /\ Agrees(out, ips)
            /\ Ends(input)[n] = Len(buf) => Len(ips) = Len(out)
=============================================================================

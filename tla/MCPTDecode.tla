----------------------------- MODULE MCPTDecode -----------------------------
(***************************************************************************)
(* Bounded traces for PTDecode.  Payloads are made of bytes that look like *)
(* TIP packets (45), so that a decoder that loses its place reports        *)
(* addresses that are not there.                                           *)
(***************************************************************************)
EXTENDS PTPackets, SequencesExt

CONSTANTS MaxPackets,     \* packets after the PSB, if none is cut off
          MaxCutPackets   \* packets after the PSB, if a cut off one follows

Fill(n) == [i \in 1..n |-> 45]

\* A packet with an address.
IPPacket(header, len) == <<header>> \o SubSeq(<<52, 18, 120, 86, 188, 154, 240, 222>>, 1, len)

PacketBytes ==
    [psb       |-> [i \in 1..16 |-> IF i % 2 = 1 THEN 2 ELSE 130],
     tnt64     |-> <<2, 163>> \o Fill(6),
     pip       |-> <<2, 67>> \o Fill(6),
     cbr       |-> <<2, 3, 45, 0>>,
     stop      |-> <<2, 131>>,
     ovf       |-> <<2, 243>> \o Fill(6),
     psbend    |-> <<2, 35>>,
     mnt       |-> <<2, 195, 136>> \o Fill(7) \o <<0>>,
     tma       |-> <<2, 115>> \o Fill(5),
     vmcs      |-> <<2, 200>> \o Fill(5),
     pad       |-> <<0>>,
     tnt8      |-> <<6>>,
     exec      |-> <<153, 1>>,
     badmode   |-> <<153, 64>>,
     tsc       |-> <<25>> \o Fill(7),
     mtc       |-> <<89, 45>>,
     cyc       |-> <<3>>,
     longcyc   |-> <<7, 45, 44>>,
     unknown   |-> <<5>>,
     tip0      |-> <<13>>,
     tip1      |-> IPPacket(45, 2),
     pge2      |-> IPPacket(81, 4),
     fup3      |-> IPPacket(125, 6),
     low3      |-> <<97, 1, 0, 2, 0, 3, 0>>,
     tip6      |-> IPPacket(205, 8)]

Packets == DOMAIN PacketBytes

Kind(pkt) ==
    CASE pkt = "psb" -> "psb"
      [] pkt \in {"unknown", "badmode"} -> "strange"
      [] pkt \in {"tip0", "tip1", "pge2", "fup3", "low3", "tip6"} -> "address"
      [] OTHER -> "other"

\* A trace is some bytes that are no packet, packets, and what is left of
\* another one.
Stream(i) == <<"psb">> \o i.stream

TraceKinds(i) == [k \in DOMAIN Stream(i) |-> Kind(Stream(i)[k])]

TraceEnds(i) ==
    LET ends[k \in 0..Len(Stream(i))] ==
            IF k = 0 THEN i.junk ELSE ends[k - 1] + Len(PacketBytes[Stream(i)[k]])
    IN  ends

TraceBytes(i) ==
    Fill(i.junk) \o FlattenSeq([k \in DOMAIN Stream(i) |-> PacketBytes[Stream(i)[k]]]) \o i.rest

Streams(n) == UNION {[1..k -> Packets] : k \in 0..n}
CutOff     == UNION {{SubSeq(PacketBytes[pkt], 1, k) : k \in 1..Len(PacketBytes[pkt]) - 1} :
                         pkt \in Packets}

MCInputs ==
    [junk : {0}, stream : Streams(MaxPackets), rest : {<<>>}]
    \cup [junk : {3}, stream : Streams(1), rest : {<<>>}]
    \cup [junk : {0}, stream : Streams(MaxCutPackets), rest : CutOff]
=============================================================================

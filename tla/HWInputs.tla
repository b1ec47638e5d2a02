------------------------------ MODULE HWInputs ------------------------------
(***************************************************************************)
(* The life of the model of one hardware input (a register, or a field of  *)
(* a DMA or USB buffer).  The static analysis turns every branch of the    *)
(* driver that tests the input into special values                         *)
(* (stage2/src/hw_input_model.h) and prints them as initialisers; the      *)
(* class HWInput of the running device model (aplib/HWModel.h) makes a     *)
(* dictionary of them, which is fed to the driver.                         *)
(*                                                                         *)
(* A byte has ByteBits bits and uint64_t has WordBytes bytes.              *)
(***************************************************************************)
EXTENDS Sequences, FiniteSetsExt, Bits

CONSTANTS ByteBits, WordBytes,
          Sizes,           \* sizes of inputs in bytes (1, 2, 4 and 8)
          FewBits,         \* as many bits are combined in all ways (4)
          Exprs,           \* branch conditions
          MaxConstraints,  \* bound: conditions on one input
          Offsets,         \* offsets of the input in a USB buffer
          Lengths,         \* lengths of reads, of USB buffers and of the input data
          powerSet(_)      \* powerSet(n): the selections from 1..n, as sequences

ASSUME SizesAssumption ==
    /\ ByteBits \in Nat \ {0} /\ WordBytes \in Nat \ {0} /\ FewBits \in Nat
    /\ Sizes \subseteq 1..WordBytes
    /\ Offsets \subseteq Nat /\ Lengths \subseteq Nat

(* powerSet makes the selections of at least one element, in any order. *)
ASSUME PowerSetAssumption ==
    \A n \in 1..FewBits : {Range(c) : c \in Range(powerSet(n))} = (SUBSET (1..n)) \ {{}}

Word       == Pow2[ByteBits * WordBytes]
ByteOf(v, k) == (v \div Pow2[ByteBits * k]) % Pow2[ByteBits]
Trunc(v, n)  == v % Pow2[ByteBits * n]     \* the n bytes that memcpy takes of v
MaxValue(n)  == Pow2[ByteBits * n] - 1
TopBit(n)    == Pow2[ByteBits * n - 1]
Complement(v) == Word - 1 - v

(* A condition compares an operand with a constant; left says that the     *)
(* constant is on the left.  The operand is an inner operand, taken as it  *)
(* is ("value"), under a mask ("and"), or shifted, with or without a mask. *)
(* direct says that the inner operand is the input itself; if not, it is   *)
(* computed from it (a sum, a difference, a shift of a shift...).  "none"  *)
(* is an expression that is a value, has no constant or compares nothing.  *)
ASSUME ExprsAssumption ==
    /\ Exprs \subseteq [op : {"EQ", "NE", "LT", "LE", "GT", "GE", "none"}, left : BOOLEAN,
                       shape : {"value", "and", "shl", "shr"}, direct : BOOLEAN,
                       masked : BOOLEAN, mask : 0..Word - 1,
                       shift : 0..ByteBits * WordBytes - 1, c : 0..Word - 1]
    /\ \A e \in Exprs : /\ e.shape = "value" => ~e.masked
                        /\ e.shape = "and" => e.masked
                        /\ ~e.masked => e.mask = Word - 1

VARIABLES phase,       \* "analysis", "printed", "device", "usb"
          n_bytes,     \* size of the input
          exprs,       \* ghost: the conditions seen
          bits_set, value_set, ranges, range_special_vals,
          bits_combinations, dict,
          dest, feed   \* the caller's buffer; ghost: the call that filled it

analysis == <<n_bytes, exprs, bits_set, value_set, ranges, range_special_vals>>
device   == <<bits_combinations, dict>>
vars     == <<phase, analysis, device, dest, feed>>

NoFeed == [kind |-> "none", size |-> 0, afl_len |-> 0, offset |-> 0]
Old    == [j \in 0..Max(Lengths) |-> -1]   \* a buffer before the call

Init ==
    /\ phase = "analysis"
    /\ n_bytes \in Sizes /\ exprs = {}
    /\ bits_set = {} /\ value_set = {} /\ ranges = {} /\ range_special_vals = {}
    /\ bits_combinations = <<>> /\ dict = <<>>
    /\ dest = Old /\ feed = NoFeed

-----------------------------------------------------------------------------
(* genHWInputConstraint, which does not distinguish the sides.             *)

\* The lowest bytes are all ones and the next is zero: its highest one bit.
checkAllOneValue(v) ==
    LET ones == {k \in 0..WordBytes : \A j \in 0..k - 1 : ByteOf(v, j) = Pow2[ByteBits] - 1}
        i    == Max(ones)
    IN  IF i = WordBytes THEN TopBit(WordBytes)
        ELSE IF i = 0 \/ ByteOf(v, i) # 0 THEN 0 ELSE TopBit(i)

Unshift(e, v) ==
    CASE e.shape = "shl" -> v \div Pow2[e.shift]
      [] e.shape = "shr" -> (v * Pow2[e.shift]) % Word
      [] OTHER           -> v

\* Bits for a test under a mask: the constant, or the mask for zero.
NewBits(e) ==
    LET c == Unshift(e, e.c)
    IN  {IF c = 0 THEN Unshift(e, e.mask) ELSE c}

\* An equation is noted for the input itself and for an operand under a mask,
\* and is dropped for any other; the other comparisons ignore the operand.
Constraint(e) ==
    /\ phase = "analysis" /\ Cardinality(exprs) < MaxConstraints
    /\ exprs' = exprs \cup {e}
    /\ LET eq      == e.op \in {"EQ", "NE"}
           less    == e.op \in {"LT", "LE"}
           greater == e.op \in {"GT", "GE"}
           isValue == e.shape = "value" /\ e.direct
           sign    == e.op = "LT" /\ e.c = 0
           ones    == greater /\ checkAllOneValue(e.c) # 0
       IN  /\ value_set' = value_set \cup (IF eq /\ isValue THEN {e.c} ELSE {})
           /\ bits_set' = bits_set \cup
                CASE eq /\ e.masked -> NewBits(e)
                  [] sign           -> {TopBit(n_bytes)}
                  [] ones           -> {checkAllOneValue(e.c)}
                  [] OTHER          -> {}
           /\ ranges' = ranges \cup
                CASE less /\ ~sign    -> {<<0, e.c>>}
                  [] greater /\ ~ones -> {<<e.c, MaxValue(n_bytes)>>}
                  [] OTHER            -> {}
    /\ UNCHANGED <<phase, n_bytes, range_special_vals, device, dest, feed>>

\* As genSpecial, with both ends and nothing beside them.
genSpecialEnds(start, end) == {start, end}

genSpecial(start, end) == {start + 1, start, start - 1, end, end + 1}

\* process and genModelInitCode; an input without constraints is left out.
Emit ==
    /\ phase = "analysis"
    /\ bits_set \cup value_set # {} \/ ranges # {}
    /\ range_special_vals' = {v % Word : v \in UNION {genSpecial(r[1], r[2]) : r \in ranges}}
    /\ phase' = "printed"
    /\ UNCHANGED <<n_bytes, exprs, bits_set, value_set, ranges, device, dest, feed>>

-----------------------------------------------------------------------------
(* HWInput of the device model.                                            *)

\* A std::set in the order of its iterator.
Sorted(S) == [k \in 1..Cardinality(S) |->
                CHOOSE x \in S : Cardinality({y \in S : y < x}) = k - 1]

OrAll(S)  == FoldSet(BitOr, 0, S)

\* The values that one call of generateBitCombs adds to bits_combinations.
generateBitCombs ==
    LET vec == Sorted(bits_set)
        all == OrAll(bits_set)
    IN  IF vec = <<>> THEN <<>>
        ELSE IF Len(vec) > FewBits THEN <<all>> \o vec \o <<0, Complement(all)>>
        ELSE Sorted({OrAll({vec[i] : i \in Range(comb)}) : comb \in Range(powerSet(Len(vec)))}
                    \cup {0, Complement(all)})

\* As genDict, with the dictionary started anew and the combinations kept.
genDictOnce ==
    /\ bits_combinations' = bits_combinations \o generateBitCombs
    /\ dict' = IF dict = <<>> THEN Sorted(value_set) \o bits_combinations'
                                   \o Sorted(range_special_vals)
                              ELSE bits_combinations'

\* Both bits_combinations and dict are appended to.
genDict ==
    /\ bits_combinations' = bits_combinations \o generateBitCombs
    /\ dict' = dict \o Sorted(value_set) \o bits_combinations' \o Sorted(range_special_vals)

\* The constructor.
Construct ==
    /\ phase = "printed"
    /\ genDict
    /\ phase' = "device"
    /\ UNCHANGED <<analysis, dest, feed>>

\* setUSBModel makes the dictionary of each input a second time; the input of a
\* register is not one of these.
setUSBModel ==
    /\ phase = "device" /\ feed = NoFeed
    /\ genDict
    /\ phase' = "usb"
    /\ UNCHANGED <<analysis, dest, feed>>

\* feedData in RANDOM_MODE, the only mode in use: a value of the dictionary,
\* the original with bits set in it, or the original.
feedData(original) ==
    Range(dict) \cup {original} \cup {BitOr(original, v) : v \in Range(bits_combinations)}

afl_data(j)     == (j + 1) % Pow2[ByteBits]           \* some input data
WordOf(j, n)    == FoldSet(LAMBDA x, y : x + y, 0,
                           {afl_data(j + k) * Pow2[ByteBits * k] : k \in 0..n - 1})

\* A read of sz bytes of the register: one value, cut to the size of the read,
\* whatever the size of the input.
feedFuzzMMIOData(sz) ==
    /\ phase = "device" /\ feed = NoFeed
    /\ feed' = [kind |-> "mmio", size |-> sz, afl_len |-> sz, offset |-> 0]
    /\ \E v \in feedData(WordOf(0, sz)) :
          dest' = [j \in DOMAIN Old |-> IF j < sz THEN ByteOf(v, j) ELSE Old[j]]
    /\ UNCHANGED <<phase, analysis, device>>

\* The bytes a field takes, whatever the length of the buffer.
FieldWhole(offset, size) == n_bytes

\* The bytes a field takes in the buffer.
Field(offset, size) == IF offset + n_bytes > size THEN size - offset ELSE n_bytes

\* The buffer is copied from the input and the field is laid over it.  Bytes
\* behind the input are whatever follows it in memory.
feedFuzzUSBData(size, afl_len, offset) ==
    /\ phase = "usb" /\ feed = NoFeed
    /\ feed' = [kind |-> "usb", size |-> size, afl_len |-> afl_len, offset |-> offset]
    /\ LET raw == [j \in DOMAIN Old |-> IF j < size /\ j < afl_len THEN afl_data(j) ELSE Old[j]]
           n   == Field(offset, size)
           original == IF offset < afl_len THEN {WordOf(offset, n)} ELSE {0}
       IN  \/ offset >= size /\ dest' = raw
           \/ /\ offset < size
              /\ \E o \in original : \E v \in feedData(o) :
                    dest' = [j \in DOMAIN Old |-> IF j \in offset..offset + n - 1
                                                  THEN ByteOf(v, j - offset) ELSE raw[j]]
    /\ UNCHANGED <<phase, analysis, device>>

-----------------------------------------------------------------------------
Next == \/ \E e \in Exprs : Constraint(e)
        \/ Emit \/ Construct \/ setUSBModel
        \/ \E sz \in Lengths : feedFuzzMMIOData(sz)
        \/ \E size, afl_len \in Lengths, offset \in Offsets :
              feedFuzzUSBData(size, afl_len, offset)

Spec == Init /\ [][Next]_vars

-----------------------------------------------------------------------------
(* What the driver compares with the constant, x being the inner operand. *)
Tested(e, x) ==
    CASE e.shape = "value" -> x
      [] e.shape = "and"   -> BitAnd(x, e.mask)
      [] e.shape = "shl"   -> BitAnd((x * Pow2[e.shift]) % Word, e.mask)
      [] e.shape = "shr"   -> BitAnd(x \div Pow2[e.shift], e.mask)

(* What the driver's condition says of an input of n bytes.  Comparisons   *)
(* are unsigned, but x < 0 and x > -1 are tests of the sign.               *)
Holds(e, n, x) ==
    LET l == IF e.left THEN e.c ELSE Tested(e, x)
        r == IF e.left THEN Tested(e, x) ELSE e.c
        sign == e.shape = "value" /\ ~e.left
    IN  CASE e.op = "EQ" -> l = r
          [] e.op = "NE" -> l # r
          [] e.op = "LT" -> IF sign /\ r = 0 THEN l >= TopBit(n) ELSE l < r
          [] e.op = "LE" -> l <= r
          [] e.op = "GT" -> IF sign /\ r = MaxValue(n) THEN l < TopBit(n) ELSE l > r
          [] e.op = "GE" -> l >= r

(* The conditions that the analysis can do justice to: comparisons of the  *)
(* input itself, masked or shifted, but no equation of a shift alone.      *)
Understood == {e \in Exprs : /\ e.op # "none" /\ e.direct
                             /\ e.op \in {"EQ", "NE"} => e.shape = "value" \/ e.masked}

Outcomes(e, n) == {Holds(e, n, x) : x \in 0..MaxValue(n)}
Possible == [e \in Understood |-> [n \in Sizes |-> Outcomes(e, n)]]

(* The point of the model: for every condition on the input itself that    *)
(* the analysis understands, however many there are and whatever other     *)
(* conditions it meets, the dictionary has a value for each outcome that   *)
(* is possible.  Nothing is said of a condition on a value computed from   *)
(* the input, nor of an equation of the shifted input without a mask, as a *)
(* switch on x >> 24: genHWInputConstraint notes nothing of such equations *)
(* and takes no account of the computation in the other comparisons.  Two  *)
(* cases are weaker.  For x = c and x # c only c itself is in the          *)
(* dictionary.  x > c is taken for a test of one bit when the lowest bytes *)
(* of c are ones and the next is zero.  Both outcomes are then found if c  *)
(* has no other ones, as 0xff, but not always for 0xff00ff nor for         *)
(* x >= 0xff and 0xff > x.                                                 *)
BranchesCovered ==
    phase \in {"device", "usb"} => \A e \in exprs \cap Understood :
        LET seen == {Holds(e, n_bytes, Trunc(v, n_bytes)) : v \in Range(dict)}
            ones == checkAllOneValue(e.c) # 0
            inexact == \/ e.op = (IF e.left THEN "GT" ELSE "GE")
                       \/ e.op \in {"GT", "GE"} /\ \A i \in 1..WordBytes : e.c # MaxValue(i)
        IN  CASE e.op = "EQ" /\ e.shape = "value" -> TRUE \in Possible[e][n_bytes] => TRUE \in seen
              [] e.op = "NE" /\ e.shape = "value" -> FALSE \in Possible[e][n_bytes] => FALSE \in seen
              [] ones /\ inexact -> TRUE
              [] OTHER -> seen = Possible[e][n_bytes]

(* Making the dictionary a second time in setUSBModel repeats values but   *)
(* neither adds nor loses one, and every value can still be drawn.         *)
SecondDictSame == [][phase = "device" => Range(dict') = Range(dict)]_vars

(* The feeds never write behind the buffer of the caller; what is outside  *)
(* the field of a USB buffer is the input byte of the same position, or is *)
(* left alone behind the end of the input; the field, or all of a register *)
(* read, is one value of the dictionary, or the input with bits of a       *)
(* combination, cut to the buffer.                                         *)
FeedOverlay ==
    feed # NoFeed =>
        LET length == IF feed.kind = "mmio" THEN feed.size ELSE n_bytes
            inField(j) == j >= feed.offset /\ j < feed.offset + length /\ j < feed.size
            orig == IF feed.offset < feed.afl_len
                    THEN WordOf(feed.offset, Min({length, feed.size - feed.offset})) ELSE 0
        IN  /\ \A j \in DOMAIN dest : ~inField(j) =>
                  dest[j] = IF j < Min({feed.size, feed.afl_len}) THEN afl_data(j) ELSE -1
            /\ \E v \in Range(dict) \cup {orig} \cup {BitOr(orig, w) : w \in Range(dict)} :
                  \A j \in DOMAIN dest : inField(j) => dest[j] = ByteOf(v, j - feed.offset)
=============================================================================

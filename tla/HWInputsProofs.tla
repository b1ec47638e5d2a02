--------------------------- MODULE HWInputsProofs ---------------------------
(***************************************************************************)
(* Proofs about the dictionary of one hardware input and the feeds that    *)
(* draw from it, for inputs and buffers of any size and any set of         *)
(* conditions of the forms that Exprs has.                                 *)
(***************************************************************************)
EXTENDS HWValuesProofs

(* A sequence, of whatever elements.                                       *)
IsSeq(s) == s \in Seq(Range(s))

(* What the analysis has found is finite.                                  *)
Finite ==
    /\ IsFiniteSet(bits_set) /\ IsFiniteSet(value_set)
    /\ IsFiniteSet(ranges) /\ IsFiniteSet(range_special_vals)

(* The values that genDict collects.                                       *)
Values ==
    Range(Sorted(value_set)) \cup Range(generateBitCombs)
        \cup Range(Sorted(range_special_vals))

(* The dictionary is made of the results of the analysis, once or twice.   *)
Dictionary ==
    /\ IsSeq(dict) /\ IsSeq(bits_combinations)
    /\ phase \in {"analysis", "printed"} => bits_combinations = <<>> /\ dict = <<>>
    /\ phase \in {"device", "usb"} =>
          /\ Range(bits_combinations) = Range(generateBitCombs)
          /\ Range(dict) = Values

(* What genHWInputConstraint has noted of a condition.                     *)
Noted(e) ==
    /\ e.op \in {"EQ", "NE"} =>
          /\ e.shape = "value" /\ e.direct => e.c \in value_set
          /\ e.masked => NewBits(e) \subseteq bits_set
    /\ e.op \in {"LT", "LE"} =>
          IF e.op = "LT" /\ e.c = 0 THEN TopBit(n_bytes) \in bits_set ELSE <<0, e.c>> \in ranges
    /\ e.op \in {"GT", "GE"} =>
          IF checkAllOneValue(e.c) # 0 THEN checkAllOneValue(e.c) \in bits_set
          ELSE <<e.c, MaxValue(n_bytes)>> \in ranges

(* The analysis has words, and has noted every condition.                  *)
Collected ==
    /\ exprs \subseteq Exprs /\ \A e \in exprs : Noted(e)
    /\ bits_set \subseteq 0..Word - 1 /\ value_set \subseteq 0..Word - 1
    /\ ranges \subseteq Nat \X Nat
    /\ phase # "analysis" =>
          range_special_vals = {v % Word : v \in UNION {genSpecial(r[1], r[2]) : r \in ranges}}

Stages ==
    /\ phase \in {"analysis", "printed", "device", "usb"}
    /\ n_bytes \in Sizes
    /\ feed # NoFeed => phase \in {"device", "usb"}

IInv == Finite /\ Collected /\ Dictionary /\ Stages /\ FeedOverlay

-----------------------------------------------------------------------------
(* A function on 1..n is a sequence.                                       *)
LEMMA FunctionIsSeq ==
    ASSUME NEW n \in Nat, NEW f, DOMAIN f = 1..n, f = [i \in 1..n |-> f[i]]
    PROVE  IsSeq(f)
<1>1. f \in [1..n -> Range(f)]
  BY Zenon DEF Range
<1>2. QED
  BY <1>1 DEF IsSeq

(* Appending one sequence to another collects the elements of both.        *)
LEMMA ConcatSet ==
    ASSUME NEW s, NEW t, IsSeq(s), IsSeq(t)
    PROVE  IsSeq(s \o t) /\ Range(s \o t) = Range(s) \cup Range(t)
<1> DEFINE U == Range(s) \cup Range(t)
<1>1. s \in Seq(U) /\ t \in Seq(U)
  BY SMT DEF IsSeq
<1> HIDE DEF U
<1>2. /\ s \o t \in Seq(U) /\ Len(s \o t) = Len(s) + Len(t)
      /\ \A i \in 1..Len(s) + Len(t) :
            (s \o t)[i] = IF i <= Len(s) THEN s[i] ELSE t[i - Len(s)]
  BY <1>1
<1>3. /\ Len(s) \in Nat /\ Len(t) \in Nat
      /\ DOMAIN s = 1..Len(s) /\ DOMAIN t = 1..Len(t)
      /\ DOMAIN (s \o t) = 1..Len(s \o t)
  BY <1>1, <1>2
<1>4. Range(s \o t) = Range(s) \cup Range(t)
  <2>1. ASSUME NEW i \in DOMAIN s
        PROVE  s[i] \in Range(s \o t)
    <3>1. i \in DOMAIN (s \o t) /\ (s \o t)[i] = s[i]
      BY <1>2, <1>3
    <3>2. QED
      BY <3>1, Zenon DEF Range
  <2>2. ASSUME NEW i \in DOMAIN t
        PROVE  t[i] \in Range(s \o t)
    <3>1. Len(s) + i \in DOMAIN (s \o t) /\ (s \o t)[Len(s) + i] = t[i]
      BY <1>2, <1>3
    <3>2. QED
      BY <3>1, Zenon DEF Range
  <2>3. ASSUME NEW i \in DOMAIN (s \o t)
        PROVE  (s \o t)[i] \in Range(s) \cup Range(t)
    <3>1. CASE i <= Len(s)
      <4>1. i \in DOMAIN s /\ (s \o t)[i] = s[i]
        BY <1>2, <1>3, <3>1
      <4>2. QED
        BY <4>1, Zenon DEF Range
    <3>2. CASE ~(i <= Len(s))
      <4>1. i - Len(s) \in DOMAIN t /\ (s \o t)[i] = t[i - Len(s)]
        BY <1>2, <1>3, <3>2
      <4>2. QED
        BY <4>1, Zenon DEF Range
    <3>3. QED
      BY <3>1, <3>2, Zenon
  <2>4. QED
    BY <2>1, <2>2, <2>3, Zenon DEF Range
<1>5. IsSeq(s \o t)
  BY <1>2, <1>4, Zenon DEF IsSeq, U
<1>6. QED
  BY <1>4, <1>5

(* The image of a finite set under a function is finite.                   *)
LEMMA ImageFinite ==
    ASSUME NEW f, IsFiniteSet(DOMAIN f)
    PROVE  IsFiniteSet({f[x] : x \in DOMAIN f})
<1> DEFINE T == {f[x] : x \in DOMAIN f}
           g == [x \in DOMAIN f |-> f[x]]
<1>1. g \in [DOMAIN f -> T] /\ \A y \in T : \E x \in DOMAIN f : g[x] = y
  BY Zenon
<1>2. g \in Surjection(DOMAIN f, T)
  BY <1>1, Zenon DEF Surjection
<1> HIDE DEF T, g
<1>3. QED
  BY <1>2, FS_Surjection DEF T

(* Two values are finitely many.                                            *)
LEMMA PairFinite == \A a, b : IsFiniteSet({a, b})
<1> SUFFICES ASSUME NEW a, NEW b
             PROVE  IsFiniteSet({a, b})
  BY Zenon
<1>1. IsFiniteSet({a}) /\ IsFiniteSet({b})
  BY FS_Singleton
<1>2. IsFiniteSet({a} \cup {b})
  BY <1>1, FS_Union, Zenon
<1>3. {a, b} = {a} \cup {b}
  BY Zenon
<1>4. QED
  BY <1>2, <1>3, Zenon

(* The iteration over a finite std::set is a sequence.                     *)
LEMMA SortedIsSeq ==
    ASSUME NEW S, IsFiniteSet(S)
    PROVE  IsSeq(Sorted(S))
<1>1. Cardinality(S) \in Nat
  BY FS_CardinalityType, Zenon
<1> DEFINE n == Cardinality(S)
           e(k) == CHOOSE x \in S : Cardinality({y \in S : y < x}) = k - 1
<1>2. Sorted(S) = [k \in 1..n |-> e(k)]
  BY Zenon DEF Sorted
<1> HIDE DEF n, e
<1>3. DOMAIN Sorted(S) = 1..n /\ Sorted(S) = [k \in 1..n |-> Sorted(S)[k]]
  BY <1>2, Zenon
<1>4. n \in Nat
  BY <1>1, Zenon DEF n
<1>5. QED
  BY <1>3, <1>4, FunctionIsSeq

(* The short sequences that are written out.                               *)
LEMMA ShortSeqs ==
    ASSUME NEW a, NEW b
    PROVE  IsSeq(<<>>) /\ IsSeq(<<a>>) /\ IsSeq(<<a, b>>)
<1>1. IsSeq(<<>>)
  BY DEF IsSeq
<1>2. IsSeq(<<a>>)
  <2>1. DOMAIN <<a>> = 1..1 /\ <<a>> = [i \in 1..1 |-> <<a>>[i]]
    OBVIOUS
  <2>2. QED
    BY <2>1, FunctionIsSeq, Zenon
<1>3. IsSeq(<<a, b>>)
  <2>1. DOMAIN <<a, b>> = 1..2 /\ <<a, b>> = [i \in 1..2 |-> <<a, b>>[i]]
    OBVIOUS
  <2>2. QED
    BY <2>1, FunctionIsSeq, Zenon
<1>4. QED
  BY <1>1, <1>2, <1>3

(* The values of the combinations of a few bits are finitely many.         *)
LEMMA FewCombinations ==
    ASSUME NEW vec, NEW n \in 1..FewBits
    PROVE  IsFiniteSet({OrAll({vec[i] : i \in Range(comb)}) : comb \in Range(powerSet(n))})
<1> DEFINE P == (SUBSET (1..n)) \ {{}}
           val == [I \in P |-> OrAll({vec[i] : i \in I})]
           C == {OrAll({vec[i] : i \in Range(comb)}) : comb \in Range(powerSet(n))}
<1>1. IsFiniteSet(P)
  <2>1. IsFiniteSet(1..n)
    <3>1. 1 \in Int /\ n \in Int
      BY SizesAssumption
    <3>2. QED
      BY <3>1, FS_Interval
  <2>2. IsFiniteSet(SUBSET (1..n))
    BY <2>1, FS_SUBSET, Zenon
  <2>3. QED
    BY <2>2, FS_Difference, Zenon
<1>2. {Range(c) : c \in Range(powerSet(n))} = P
  BY PowerSetAssumption
<1>3. IsFiniteSet({val[I] : I \in DOMAIN val})
  <2>1. DOMAIN val = P
    BY Zenon
  <2> HIDE DEF val
  <2>2. QED
    BY <1>1, <2>1, ImageFinite
<1>4. C \subseteq {val[I] : I \in DOMAIN val}
  <2> SUFFICES ASSUME NEW comb \in Range(powerSet(n))
               PROVE  OrAll({vec[i] : i \in Range(comb)}) \in {val[I] : I \in DOMAIN val}
    BY Zenon
  <2>1. Range(comb) \in P
    BY <1>2, Zenon
  <2> HIDE DEF P
  <2>2. val[Range(comb)] = OrAll({vec[i] : i \in Range(comb)})
    BY <2>1, Zenon
  <2>3. QED
    BY <2>1, <2>2, Zenon
<1> HIDE DEF C, val
<1>5. QED
  BY <1>3, <1>4, FS_Subset, ZenonT(20) DEF C

(* generateBitCombs adds a sequence of values.                             *)
LEMMA BitCombsIsSeq ==
    ASSUME IsFiniteSet(bits_set)
    PROVE  IsSeq(generateBitCombs)
<1> DEFINE vec == Sorted(bits_set)
           all == OrAll(bits_set)
           C   == {OrAll({vec[i] : i \in Range(comb)}) : comb \in Range(powerSet(Len(vec)))}
<1>1. IsSeq(vec)
  BY SortedIsSeq, Zenon
<1>2. generateBitCombs =
        IF vec = <<>> THEN <<>>
        ELSE IF Len(vec) > FewBits THEN <<all>> \o vec \o <<0, Complement(all)>>
        ELSE Sorted(C \cup {0, Complement(all)})
  BY Zenon DEF generateBitCombs
<1> HIDE DEF vec, all
<1>3. Len(vec) \in Nat /\ (vec # <<>> => Len(vec) # 0)
  BY <1>1 DEF IsSeq
<1>4. CASE vec = <<>>
  BY <1>2, <1>4, ShortSeqs, Zenon
<1>5. CASE vec # <<>> /\ Len(vec) > FewBits
  <2>1. IsSeq(<<all>> \o vec)
    BY <1>1, ShortSeqs, ConcatSet, Zenon
  <2>2. IsSeq(<<all>> \o vec \o <<0, Complement(all)>>)
    BY <2>1, ShortSeqs, ConcatSet, ZenonT(20)
  <2>3. QED
    BY <1>2, <1>5, <2>2
<1>6. CASE vec # <<>> /\ ~(Len(vec) > FewBits)
  <2>1. Len(vec) \in 1..FewBits
    BY <1>3, <1>6, SizesAssumption
  <2>2. IsFiniteSet(C)
    BY <2>1, FewCombinations, Zenon
  <2> HIDE DEF C
  <2>3. IsFiniteSet({0, Complement(all)})
    BY PairFinite, Zenon
  <2>4. IsFiniteSet(C \cup {0, Complement(all)})
    BY <2>2, <2>3, FS_Union, Zenon
  <2>5. QED
    BY <1>2, <1>6, <2>4, SortedIsSeq
<1>7. QED
  BY <1>4, <1>5, <1>6

(* genDict adds the values to bits_combinations and to dict.               *)
LEMMA GenDictAdds ==
    ASSUME Finite, IsSeq(dict), IsSeq(bits_combinations), genDict
    PROVE  /\ IsSeq(bits_combinations') /\ IsSeq(dict')
           /\ Range(bits_combinations') = Range(bits_combinations) \cup Range(generateBitCombs)
           /\ Range(dict') = Range(dict) \cup Range(bits_combinations) \cup Values
<1> DEFINE bc == bits_combinations'
           g  == generateBitCombs
           vs == Sorted(value_set)
           rs == Sorted(range_special_vals)
<1>1. IsSeq(g) /\ IsSeq(vs) /\ IsSeq(rs)
  BY BitCombsIsSeq, SortedIsSeq, Zenon DEF Finite
<1>2. bc = bits_combinations \o g /\ dict' = dict \o vs \o bc \o rs
  BY Zenon DEF genDict
<1>3. Values = Range(vs) \cup Range(g) \cup Range(rs)
  BY Zenon DEF Values
<1> HIDE DEF g, vs, rs, bc
<1>4. IsSeq(bc) /\ Range(bc) = Range(bits_combinations) \cup Range(g)
  BY <1>1, <1>2, ConcatSet
<1>5. IsSeq(dict \o vs) /\ Range(dict \o vs) = Range(dict) \cup Range(vs)
  BY <1>1, ConcatSet, Zenon
<1>6. IsSeq(dict \o vs \o bc) /\ Range(dict \o vs \o bc) = Range(dict \o vs) \cup Range(bc)
  BY <1>4, <1>5, ConcatSet
<1>7. /\ IsSeq(dict \o vs \o bc \o rs)
      /\ Range(dict \o vs \o bc \o rs) = Range(dict \o vs \o bc) \cup Range(rs)
  BY <1>1, <1>6, ConcatSet
<1>8. Range(dict') = Range(dict) \cup Range(bits_combinations) \cup Values
  BY <1>2, <1>3, <1>4, <1>5, <1>6, <1>7, Zenon
<1>9. IsSeq(dict')
  BY <1>2, <1>7, Zenon
<1>10. QED
  BY <1>4, <1>8, <1>9 DEF bc, g

(* generateBitCombs reads nothing but the bits.                            *)
CombsOf(bits) ==
    LET vec == Sorted(bits)
        all == OrAll(bits)
    IN  IF vec = <<>> THEN <<>>
        ELSE IF Len(vec) > FewBits THEN <<all>> \o vec \o <<0, Complement(all)>>
        ELSE Sorted({OrAll({vec[i] : i \in Range(comb)}) : comb \in Range(powerSet(Len(vec)))}
                    \cup {0, Complement(all)})

(* What genDict reads of the analysis does not change later.               *)
LEMMA SameValues ==
    ASSUME UNCHANGED analysis
    PROVE  generateBitCombs' = generateBitCombs /\ Values' = Values
<1>1. bits_set' = bits_set /\ value_set' = value_set /\ range_special_vals' = range_special_vals
  BY Zenon DEF analysis
<1>2. generateBitCombs' = CombsOf(bits_set')
  BY Zenon DEF generateBitCombs, CombsOf
<1>3. generateBitCombs = CombsOf(bits_set)
  BY Zenon DEF generateBitCombs, CombsOf
<1>4. generateBitCombs' = generateBitCombs
  BY <1>1, <1>2, <1>3, Zenon
<1>5. QED
  BY <1>1, <1>4 DEF Values

-----------------------------------------------------------------------------
(* The analysis adds finitely many values at a time.                       *)
LEMMA ConstraintAdds ==
    ASSUME Finite, NEW e \in Exprs, Constraint(e)
    PROVE  Finite'
<1> DEFINE eq   == e.op \in {"EQ", "NE"}
           less == e.op \in {"LT", "LE"}
           greater == e.op \in {"GT", "GE"}
           isValue == e.shape = "value" /\ e.direct
           sign == e.op = "LT" /\ e.c = 0
           ones == greater /\ checkAllOneValue(e.c) # 0
           v == IF eq /\ isValue THEN {e.c} ELSE {}
           b == CASE eq /\ e.masked -> NewBits(e)
                  [] sign           -> {TopBit(n_bytes)}
                  [] ones           -> {checkAllOneValue(e.c)}
                  [] OTHER          -> {}
           r == CASE less /\ ~sign    -> {<<0, e.c>>}
                  [] greater /\ ~ones -> {<<e.c, MaxValue(n_bytes)>>}
                  [] OTHER            -> {}
<1>1. /\ value_set' = value_set \cup v /\ bits_set' = bits_set \cup b
      /\ ranges' = ranges \cup r /\ range_special_vals' = range_special_vals
  BY Zenon DEF Constraint
<1>2. IsFiniteSet({}) /\ \A x : IsFiniteSet({x})
  BY FS_EmptySet, FS_Singleton, ZenonT(20)
<1>3. NewBits(e) = {IF Unshift(e, e.c) = 0 THEN Unshift(e, e.mask) ELSE Unshift(e, e.c)}
  BY Zenon DEF NewBits
<1>4. IsFiniteSet(NewBits(e))
  BY <1>2, <1>3, Zenon
<1> HIDE DEF eq, less, greater, isValue, sign, ones
<1>5. IsFiniteSet(v)
  BY <1>2, Zenon
<1>6. IsFiniteSet(b)
  <2>1. b \in {NewBits(e), {}, {TopBit(n_bytes)}, {checkAllOneValue(e.c)}}
    BY Zenon
  <2> HIDE DEF b
  <2>2. QED
    BY <1>2, <1>4, <2>1, Zenon
<1>7. IsFiniteSet(r)
  <2>1. r = {} \/ r = {<<0, e.c>>} \/ r = {<<e.c, MaxValue(n_bytes)>>}
    OBVIOUS
  <2> HIDE DEF r
  <2>2. QED
    BY <1>2, <2>1, Zenon
<1> HIDE DEF v, b, r
<1>8. QED
  BY <1>1, <1>5, <1>6, <1>7, FS_Union, ZenonT(20) DEF Finite

(* The values beside the ends of finitely many ranges are finitely many.   *)
LEMMA EmitAdds ==
    ASSUME Finite, Emit
    PROVE  Finite'
<1> DEFINE sp  == [r \in ranges |-> genSpecial(r[1], r[2])]
           All == UNION {genSpecial(r[1], r[2]) : r \in ranges}
           m   == [v \in All |-> v % Word]
<1>1. /\ UNCHANGED <<bits_set, value_set, ranges>>
      /\ range_special_vals' = {v % Word : v \in All}
  BY Zenon DEF Emit
<1>2. IsFiniteSet({genSpecial(r[1], r[2]) : r \in ranges})
  <2>1. DOMAIN sp = ranges /\ {sp[r] : r \in DOMAIN sp} = {genSpecial(r[1], r[2]) : r \in ranges}
    BY Zenon
  <2> HIDE DEF sp
  <2>2. QED
    BY <2>1, ImageFinite, Zenon DEF Finite
<1>3. ASSUME NEW r \in ranges
      PROVE  IsFiniteSet(genSpecial(r[1], r[2]))
  <2> DEFINE s == r[1]
             t == r[2]
  <2>1. genSpecial(s, t) = ({s + 1, s} \cup {s - 1, t}) \cup {t + 1}
    BY Zenon DEF genSpecial
  <2> HIDE DEF s, t
  <2>2. IsFiniteSet({s + 1, s}) /\ IsFiniteSet({s - 1, t}) /\ IsFiniteSet({t + 1})
    BY PairFinite, FS_Singleton, ZenonT(20)
  <2>3. IsFiniteSet({s + 1, s} \cup {s - 1, t})
    BY <2>2, FS_Union, Zenon
  <2>4. IsFiniteSet(({s + 1, s} \cup {s - 1, t}) \cup {t + 1})
    BY <2>2, <2>3, FS_Union, ZenonT(20)
  <2>5. QED
    BY <2>1, <2>4, Zenon DEF s, t
<1>4. IsFiniteSet(All)
  BY <1>2, <1>3, FS_UNION, Zenon
<1>5. DOMAIN m = All /\ {m[v] : v \in DOMAIN m} = {v % Word : v \in All}
  <2> HIDE DEF All
  <2>1. QED
    OBVIOUS
<1> HIDE DEF All, m
<1>6. IsFiniteSet({m[v] : v \in DOMAIN m})
  BY <1>4, <1>5, ImageFinite, Zenon
<1>7. QED
  BY <1>1, <1>5, <1>6, ZenonT(20) DEF Finite

(* What the analysis adds for one condition.                               *)
LEMMA ConstraintNotes ==
    ASSUME Collected, n_bytes \in Sizes, NEW e \in Exprs, Constraint(e)
    PROVE  Collected'
<1> DEFINE eq   == e.op \in {"EQ", "NE"}
           less == e.op \in {"LT", "LE"}
           greater == e.op \in {"GT", "GE"}
           isValue == e.shape = "value" /\ e.direct
           sign == e.op = "LT" /\ e.c = 0
           ones == greater /\ checkAllOneValue(e.c) # 0
           v == IF eq /\ isValue THEN {e.c} ELSE {}
           b == CASE eq /\ e.masked -> NewBits(e)
                  [] sign           -> {TopBit(n_bytes)}
                  [] ones           -> {checkAllOneValue(e.c)}
                  [] OTHER          -> {}
           r == CASE less /\ ~sign    -> {<<0, e.c>>}
                  [] greater /\ ~ones -> {<<e.c, MaxValue(n_bytes)>>}
                  [] OTHER            -> {}
<1>1. /\ value_set' = value_set \cup v /\ bits_set' = bits_set \cup b
      /\ ranges' = ranges \cup r /\ UNCHANGED <<phase, n_bytes, range_special_vals>>
      /\ phase = "analysis" /\ exprs' = exprs \cup {e}
  BY Zenon DEF Constraint
<1>2. /\ e.c \in Nat /\ e.c < Word /\ e.mask \in Nat /\ e.mask < Word
  BY ExprFields
<1>3. n_bytes \in 1..WordBytes /\ Word \in Nat
  BY SizesAssumption, SizeOfWord, Zenon
<1>4. v \subseteq 0..Word - 1
  BY <1>2, <1>3
<1>5. b \subseteq 0..Word - 1
  <2>1. NewBits(e) \subseteq 0..Word - 1
    <3>1. /\ Unshift(e, e.c) \in Nat /\ Unshift(e, e.c) < Word
          /\ Unshift(e, e.mask) \in Nat /\ Unshift(e, e.mask) < Word
      BY <1>2, UnshiftBits
    <3>2. QED
      BY <1>3, <3>1 DEF NewBits
  <2>2. {TopBit(n_bytes)} \subseteq 0..Word - 1
    <3>1. TopBit(n_bytes) \in Nat /\ TopBit(n_bytes) < Word
      BY <1>3, TopBitInput, Zenon
    <3>2. QED
      BY <1>3, <3>1
  <2>3. ones => {checkAllOneValue(e.c)} \subseteq 0..Word - 1
    <3>1. checkAllOneValue(e.c) = 0 \/ \E i \in 1..WordBytes : checkAllOneValue(e.c) = TopBit(i)
      BY AllOneValue, Zenon
    <3>2. \A i \in 1..WordBytes : TopBit(i) \in Nat /\ TopBit(i) < Word
      BY TopBitInput, Zenon
    <3>3. QED
      BY <1>3, <3>1, <3>2
  <2> HIDE DEF eq, greater, sign, ones
  <2>4. QED
    BY <2>1, <2>2, <2>3
<1>6. r \subseteq Nat \X Nat
  <2>1. MaxValue(n_bytes) \in Nat
    BY <1>3, SizeOfWord, Zenon
  <2>2. <<0, e.c>> \in Nat \X Nat /\ <<e.c, MaxValue(n_bytes)>> \in Nat \X Nat
    BY <1>2, <2>1
  <2> HIDE DEF eq, less, greater, sign, ones
  <2>3. QED
    BY <2>2, Zenon
<1>7. /\ eq => /\ e.shape = "value" /\ e.direct => e.c \in v
               /\ e.masked => NewBits(e) \subseteq b
      /\ less => IF e.op = "LT" /\ e.c = 0 THEN TopBit(n_bytes) \in b ELSE <<0, e.c>> \in r
      /\ e.op \in {"GT", "GE"} =>
            IF checkAllOneValue(e.c) # 0 THEN checkAllOneValue(e.c) \in b
            ELSE <<e.c, MaxValue(n_bytes)>> \in r
  BY Zenon
<1> HIDE DEF v, b, r
<1>8. Noted(e)'
  BY <1>1, <1>7 DEF Noted
<1>9. ASSUME NEW f \in exprs
      PROVE  Noted(f)'
  <2>1. Noted(f)
    BY Zenon DEF Collected
  <2>2. QED
    BY <1>1, <2>1, Zenon DEF Noted
<1>10. QED
  BY <1>1, <1>4, <1>5, <1>6, <1>8, <1>9 DEF Collected

(* Emit makes the values of the ranges.                                    *)
LEMMA EmitNotes ==
    ASSUME Collected, Emit
    PROVE  Collected'
<1>1. /\ UNCHANGED <<n_bytes, exprs, bits_set, value_set, ranges>>
      /\ range_special_vals' = {v % Word : v \in UNION {genSpecial(r[1], r[2]) : r \in ranges}}
  BY Zenon DEF Emit
<1>2. \A e : Noted(e)' <=> Noted(e)
  BY <1>1, Zenon DEF Noted
<1>3. QED
  BY <1>1, <1>2 DEF Collected

(* The device model leaves the results of the analysis as they are.        *)
LEMMA SameNotes ==
    ASSUME Collected, UNCHANGED analysis, phase # "analysis"
    PROVE  Collected'
<1>1. UNCHANGED <<n_bytes, exprs, bits_set, value_set, ranges, range_special_vals>>
  BY Zenon DEF analysis
<1>2. \A e : Noted(e)' <=> Noted(e)
  BY <1>1, Zenon DEF Noted
<1>3. QED
  BY <1>1, <1>2 DEF Collected

-----------------------------------------------------------------------------
(* The smaller of two numbers.                                             *)
LEMMA MinOfTwo ==
    ASSUME NEW a \in Int, NEW b \in Int
    PROVE  Min({a, b}) = IF a <= b THEN a ELSE b
<1>1. \E x \in {a, b} : \A y \in {a, b} : x <= y
  OBVIOUS
<1>2. Min({a, b}) \in {a, b} /\ \A y \in {a, b} : Min({a, b}) <= y
  BY <1>1, Zenon DEF Min
<1>3. QED
  BY <1>2

(* What is drawn is in the dictionary, or is the input with bits set.      *)
LEMMA Drawn ==
    ASSUME IInv, phase \in {"device", "usb"}, NEW o, NEW v \in feedData(o)
    PROVE  v \in Range(dict) \cup {o} \cup {BitOr(o, w) : w \in Range(dict)}
<1>1. Range(bits_combinations) \subseteq Range(dict)
  <2>1. Range(bits_combinations) = Range(generateBitCombs) /\ Range(dict) = Values
    BY Zenon DEF IInv, Dictionary
  <2>2. QED
    BY <2>1, Zenon DEF Values
<1>2. QED
  BY <1>1, Zenon DEF feedData

(* A register read is one value in all of its bytes.                       *)
LEMMA RegisterFed ==
    ASSUME IInv, NEW sz \in Lengths, feedFuzzMMIOData(sz)
    PROVE  FeedOverlay'
<1>1. /\ phase = "device"
      /\ feed' = [kind |-> "mmio", size |-> sz, afl_len |-> sz, offset |-> 0]
      /\ n_bytes' = n_bytes /\ dict' = dict
  BY Zenon DEF feedFuzzMMIOData, analysis, device
<1>2. PICK v \in feedData(WordOf(0, sz)) :
        dest' = [j \in DOMAIN Old |-> IF j < sz THEN ByteOf(v, j) ELSE Old[j]]
  BY Zenon DEF feedFuzzMMIOData
<1>3. sz \in Nat
  BY SizesAssumption, Zenon
<1>4. DOMAIN Old \subseteq Nat /\ \A j \in DOMAIN Old : Old[j] = -1
  BY DEF Old
<1> DEFINE length == sz
           inField(j) == j >= 0 /\ j < 0 + length /\ j < sz
           orig == IF 0 < sz THEN WordOf(0, Min({length, sz - 0})) ELSE 0
<1>5. \A j \in DOMAIN dest' : ~inField(j) =>
          dest'[j] = IF j < Min({sz, sz}) THEN afl_data(j) ELSE -1
  <2>1. Min({sz, sz}) = sz
    BY <1>3, MinOfTwo
  <2>2. QED
    BY <1>2, <1>3, <1>4, <2>1
<1>6. \E x \in Range(dict) \cup {orig} \cup {BitOr(orig, w) : w \in Range(dict)} :
          \A j \in DOMAIN dest' : inField(j) => dest'[j] = ByteOf(x, j - 0)
  <2>1. CASE sz = 0
    <3>1. \A j \in DOMAIN dest' : ~inField(j)
      BY <1>2, <1>4, <2>1
    <3>2. QED
      BY <3>1, Zenon
  <2>2. CASE sz # 0
    <3>1. orig = WordOf(0, sz)
      <4>1. Min({sz, sz - 0}) = sz /\ 0 < sz
        BY <1>3, <2>2, MinOfTwo
      <4>2. QED
        BY <4>1, Zenon
    <3>2. v \in Range(dict) \cup {orig} \cup {BitOr(orig, w) : w \in Range(dict)}
      BY <1>1, <3>1, Drawn
    <3>3. \A j \in DOMAIN dest' : inField(j) => dest'[j] = ByteOf(v, j - 0)
      <4>1. \A j \in DOMAIN Old : j - 0 = j
        BY <1>4
      <4>2. QED
        BY <1>2, <4>1
    <3>4. QED
      BY <3>2, <3>3, Zenon
  <2>3. QED
    BY <2>1, <2>2, Zenon
<1>7. /\ feed'.kind = "mmio" /\ feed'.size = sz
      /\ feed'.afl_len = sz /\ feed'.offset = 0
  BY <1>1, Zenon
<1>8. QED
  BY <1>1, <1>5, <1>6, <1>7 DEF FeedOverlay

(* FeedOverlay for a USB read.                                             *)
LEMMA OverlayOfUSB ==
    ASSUME NEW size, NEW afl_len, NEW offset,
           feed' = [kind |-> "usb", size |-> size, afl_len |-> afl_len, offset |-> offset],
           n_bytes' = n_bytes, dict' = dict,
           \A j \in DOMAIN dest' : ~(j >= offset /\ j < offset + n_bytes /\ j < size) =>
              dest'[j] = IF j < Min({size, afl_len}) THEN afl_data(j) ELSE -1,
           LET orig == IF offset < afl_len
                       THEN WordOf(offset, Min({n_bytes, size - offset})) ELSE 0
           IN  \E x \in Range(dict) \cup {orig} \cup {BitOr(orig, w) : w \in Range(dict)} :
                  \A j \in DOMAIN dest' :
                     j >= offset /\ j < offset + n_bytes /\ j < size
                        => dest'[j] = ByteOf(x, j - offset)
    PROVE  FeedOverlay'
<1>1. /\ feed'.kind = "usb" /\ feed'.size = size
      /\ feed'.afl_len = afl_len /\ feed'.offset = offset
  BY Zenon
<1>2. QED
  BY <1>1 DEF FeedOverlay

(* A USB read is the input with one value in the bytes of the field.       *)
LEMMA BufferFed ==
    ASSUME IInv, NEW size \in Lengths, NEW afl_len \in Lengths, NEW offset \in Offsets,
           feedFuzzUSBData(size, afl_len, offset)
    PROVE  FeedOverlay'
<1>1. /\ phase = "usb"
      /\ feed' = [kind |-> "usb", size |-> size, afl_len |-> afl_len, offset |-> offset]
      /\ n_bytes' = n_bytes /\ dict' = dict
  BY DEF feedFuzzUSBData, analysis, device
<1>2. size \in Nat /\ afl_len \in Nat /\ offset \in Nat /\ n_bytes \in Nat \ {0}
  BY SizesAssumption DEF IInv, Stages
<1>3. DOMAIN Old \subseteq Nat /\ \A j \in DOMAIN Old : Old[j] = -1
  BY DEF Old
<1> DEFINE raw == [j \in DOMAIN Old |-> IF j < size /\ j < afl_len THEN afl_data(j) ELSE Old[j]]
           n   == Field(offset, size)
           o   == IF offset < afl_len THEN WordOf(offset, n) ELSE 0
           inField(j) == j >= offset /\ j < offset + n_bytes /\ j < size
           orig == IF offset < afl_len
                   THEN WordOf(offset, Min({n_bytes, size - offset})) ELSE 0
           Out(d) == \A j \in DOMAIN d : ~inField(j) =>
                        d[j] = IF j < Min({size, afl_len}) THEN afl_data(j) ELSE -1
           In(d)  == \E x \in Range(dict) \cup {orig} \cup {BitOr(orig, w) : w \in Range(dict)} :
                        \A j \in DOMAIN d : inField(j) => d[j] = ByteOf(x, j - offset)
<1>4. Min({size, afl_len}) = IF size <= afl_len THEN size ELSE afl_len
  BY <1>2, MinOfTwo
<1>5. \A j \in DOMAIN Old : raw[j] = IF j < Min({size, afl_len}) THEN afl_data(j) ELSE -1
  BY <1>2, <1>3, <1>4
<1>6. CASE offset >= size /\ dest' = raw
  <2>1. \A j \in DOMAIN dest' : ~inField(j)
    BY <1>2, <1>3, <1>6
  <2>2. Out(dest')
    BY <1>5, <1>6, Zenon
  <2>3. In(dest')
    <3> HIDE DEF inField, orig
    <3>1. QED
      BY <2>1, Zenon
  <2>4. QED
    BY <1>1, <2>2, <2>3, OverlayOfUSB, Zenon
<1>7. CASE offset < size /\ \E v \in feedData(o) :
               dest' = [j \in DOMAIN Old |-> IF j \in offset..offset + n - 1
                                             THEN ByteOf(v, j - offset) ELSE raw[j]]
  <2>1. PICK v \in feedData(o) :
               dest' = [j \in DOMAIN Old |-> IF j \in offset..offset + n - 1
                                             THEN ByteOf(v, j - offset) ELSE raw[j]]
    BY <1>7
  <2>2. n = Min({n_bytes, size - offset}) /\ n \in Nat
    <3>1. Min({n_bytes, size - offset}) = IF n_bytes <= size - offset THEN n_bytes ELSE size - offset
      BY <1>2, MinOfTwo
    <3>2. QED
      BY <1>2, <1>7, <3>1 DEF Field
  <2>3. o = orig
    BY <2>2, Zenon
  <2>4. \A j \in DOMAIN Old : j \in offset..offset + n - 1 <=> inField(j)
    BY <1>2, <1>3, <1>7 DEF Field
  <2>5. v \in Range(dict) \cup {orig} \cup {BitOr(orig, w) : w \in Range(dict)}
    BY <1>1, <2>3, Drawn
  <2> HIDE DEF raw, n, o, inField, orig
  <2>6. Out(dest')
    BY <1>5, <2>1, <2>4, Zenon
  <2>7. In(dest')
    <3>1. \A j \in DOMAIN dest' : inField(j) => dest'[j] = ByteOf(v, j - offset)
      BY <2>1, <2>4, Zenon
    <3>2. QED
      BY <2>5, <3>1, Zenon
  <2>8. QED
    BY <1>1, <2>6, <2>7, OverlayOfUSB, Zenon DEF inField, orig
<1>8. QED
  <2>1. {0} = {0}
    BY Zenon
  <2>2. QED
    BY <1>6, <1>7 DEF feedFuzzUSBData

-----------------------------------------------------------------------------
(* The first steps of a life: nothing has been fed, and there is no        *)
(* dictionary.                                                             *)
LEMMA AnalysisStep ==
    ASSUME IInv, \/ \E e \in Exprs : Constraint(e)
                 \/ Emit
    PROVE  IInv'
<1>1. /\ phase = "analysis" /\ phase' \in {"analysis", "printed"}
      /\ UNCHANGED <<n_bytes, bits_combinations, dict, dest, feed>>
  BY Zenon DEF Constraint, Emit, device
<1>2. Finite'
  BY ConstraintAdds, EmitAdds DEF IInv
<1>3. feed' = NoFeed
  BY <1>1, Zenon DEF IInv, Stages
<1>4. Dictionary'
  <2>1. bits_combinations' = <<>> /\ dict' = <<>>
    BY <1>1, Zenon DEF IInv, Dictionary
  <2>2. QED
    BY <1>1, <2>1, ShortSeqs, ZenonT(20) DEF Dictionary
<1>5. Stages'
  BY <1>1, <1>3 DEF IInv, Stages
<1>6. FeedOverlay'
  BY <1>3, Zenon DEF FeedOverlay, NoFeed
<1>7. Collected'
  BY ConstraintNotes, EmitNotes, Zenon DEF IInv, Stages
<1>8. QED
  BY <1>2, <1>4, <1>5, <1>6, <1>7 DEF IInv

(* The dictionary is made, or made again; nothing has been fed.            *)
LEMMA DictionaryStep ==
    ASSUME IInv, Construct \/ setUSBModel
    PROVE  IInv' /\ (phase = "device" => Range(dict') = Range(dict))
<1>1. /\ genDict /\ UNCHANGED analysis /\ UNCHANGED feed
      /\ phase \in {"printed", "device"} /\ phase' \in {"device", "usb"}
  BY Zenon DEF Construct, setUSBModel
<1>2. feed = NoFeed
  BY DEF Construct, setUSBModel, IInv, Stages
<1>3. /\ IsSeq(bits_combinations') /\ IsSeq(dict')
      /\ Range(bits_combinations') = Range(bits_combinations) \cup Range(generateBitCombs)
      /\ Range(dict') = Range(dict) \cup Range(bits_combinations) \cup Values
  BY <1>1, GenDictAdds, Zenon DEF IInv, Dictionary
<1>4. generateBitCombs' = generateBitCombs /\ Values' = Values
  BY <1>1, SameValues
<1>5. /\ Range(bits_combinations') = Range(generateBitCombs)
      /\ Range(dict') = Values
      /\ phase = "device" => Range(dict) = Values
  <2>1. CASE phase = "printed"
    <3>1. bits_combinations = <<>> /\ dict = <<>>
      BY <2>1, Zenon DEF IInv, Dictionary
    <3>2. Range(<<>>) = {}
      BY DEF Range
    <3>3. QED
      BY <1>3, <2>1, <3>1, <3>2
  <2>2. CASE phase = "device"
    <3>1. Range(bits_combinations) = Range(generateBitCombs) /\ Range(dict) = Values
      BY <2>2, Zenon DEF IInv, Dictionary
    <3>2. Range(generateBitCombs) \subseteq Values
      BY Zenon DEF Values
    <3>3. QED
      BY <1>3, <3>1, <3>2
  <2>3. QED
    BY <1>1, <2>1, <2>2
<1>6. Finite'
  BY <1>1, Zenon DEF IInv, Finite, analysis
<1>7. Dictionary'
  BY <1>1, <1>3, <1>4, <1>5 DEF Dictionary
<1>8. Stages'
  BY <1>1, Zenon DEF IInv, Stages, analysis
<1>9. FeedOverlay'
  BY <1>1, <1>2 DEF FeedOverlay, NoFeed
<1>10. Collected'
  BY <1>1, SameNotes, Zenon DEF IInv
<1>11. QED
  BY <1>5, <1>6, <1>7, <1>8, <1>9, <1>10 DEF IInv

(* A feed leaves the model of the input as it is.                          *)
LEMMA FeedStep ==
    ASSUME IInv, \/ \E sz \in Lengths : feedFuzzMMIOData(sz)
                 \/ \E size, afl_len \in Lengths, offset \in Offsets :
                       feedFuzzUSBData(size, afl_len, offset)
    PROVE  IInv'
<1>1. UNCHANGED <<phase, analysis, device>> /\ phase \in {"device", "usb"}
  BY DEF feedFuzzMMIOData, feedFuzzUSBData
<1>2. FeedOverlay'
  BY RegisterFed, BufferFed, Zenon
<1>3. Finite'
  BY <1>1 DEF IInv, Finite, analysis
<1>4. generateBitCombs' = generateBitCombs /\ Values' = Values
  BY <1>1, SameValues, Zenon
<1>5. Dictionary'
  BY <1>1, <1>4 DEF IInv, Dictionary, device
<1>6. Stages'
  BY <1>1, Zenon DEF IInv, Stages, analysis
<1>7. Collected'
  BY <1>1, SameNotes, Zenon DEF IInv
<1>8. QED
  BY <1>2, <1>3, <1>5, <1>6, <1>7 DEF IInv

-----------------------------------------------------------------------------
(* The life of an input keeps the invariant.                               *)
THEOREM Invariance == Spec => []IInv
<1>1. Init => IInv
  <2> SUFFICES ASSUME Init
               PROVE  IInv
    OBVIOUS
  <2>1. Finite
    BY FS_EmptySet, Zenon DEF Init, Finite
  <2>2. Dictionary
    BY ShortSeqs, ZenonT(20) DEF Init, Dictionary
  <2>3. Stages /\ FeedOverlay /\ Collected
    BY Zenon DEF Init, Stages, FeedOverlay, Collected
  <2>4. QED
    BY <2>1, <2>2, <2>3 DEF IInv
<1>2. IInv /\ [Next]_vars => IInv'
  <2> SUFFICES ASSUME IInv, [Next]_vars
               PROVE  IInv'
    BY Zenon
  <2>1. CASE UNCHANGED vars
    <3>1. UNCHANGED <<phase, analysis, device, dest, feed>>
      BY <2>1, Zenon DEF vars
    <3>2. generateBitCombs' = generateBitCombs /\ Values' = Values
      BY <3>1, SameValues
    <3>3. Finite' /\ Stages'
      BY <3>1, Zenon DEF IInv, Finite, Stages, analysis
    <3>4. Dictionary'
      BY <3>1, <3>2 DEF IInv, Dictionary, device
    <3>5. FeedOverlay'
      BY <3>1 DEF IInv, FeedOverlay, analysis, device
    <3>6. Collected'
      BY <3>1, Zenon DEF IInv, Collected, Noted, analysis
    <3>7. QED
      BY <3>3, <3>4, <3>5, <3>6 DEF IInv
  <2>2. QED
    BY <2>1, AnalysisStep, DictionaryStep, FeedStep DEF Next
<1>3. QED
  BY <1>1, <1>2, PTL DEF Spec

(* Every feed lays one value of the dictionary over the input, within the  *)
(* buffer of the caller, for every size of input, buffer and offset.       *)
THEOREM FeedsOverlay == Spec => []FeedOverlay
<1>1. IInv => FeedOverlay
  BY Zenon DEF IInv
<1>2. QED
  BY <1>1, Invariance, PTL

(* setUSBModel, which makes every dictionary a second time, leaves the set *)
(* of values in it as it was.                                              *)
THEOREM SecondDictionary == Spec => SecondDictSame
<1>1. IInv /\ [Next]_vars => [phase = "device" => Range(dict') = Range(dict)]_vars
  <2> SUFFICES ASSUME IInv, Next, phase = "device"
               PROVE  Range(dict') = Range(dict)
    OBVIOUS
  <2>1. CASE Construct \/ setUSBModel
    BY <2>1, DictionaryStep, Zenon
  <2>2. CASE ~(Construct \/ setUSBModel)
    <3>1. dict' = dict
      BY <2>2, Zenon DEF Next, Constraint, Emit, feedFuzzMMIOData, feedFuzzUSBData, device
    <3>2. QED
      BY <3>1
  <2>3. QED
    BY <2>1, <2>2, Zenon
<1>2. QED
  BY <1>1, Invariance, PTL DEF Spec, SecondDictSame

-----------------------------------------------------------------------------
(* The combinations of the bits are words; the bits themselves, zero and   *)
(* some value with its complement are among them.                          *)
LEMMA CombsRange ==
    ASSUME bits_set \subseteq 0..Word - 1, IsFiniteSet(bits_set)
    PROVE  /\ Range(generateBitCombs) \subseteq 0..Word - 1
           /\ bits_set # {} =>
                 /\ bits_set \subseteq Range(generateBitCombs) /\ 0 \in Range(generateBitCombs)
                 /\ \E v \in Range(generateBitCombs) : Complement(v) \in Range(generateBitCombs)
<1> DEFINE vec == Sorted(bits_set)
           all == OrAll(bits_set)
           n   == Cardinality(bits_set)
           Com == {OrAll({vec[i] : i \in Range(comb)}) : comb \in Range(powerSet(Len(vec)))}
<1>1. bits_set \in SUBSET Nat /\ Word \in Nat \ {0} /\ \A x \in bits_set : x < Word
  BY SizesAssumption, SizeOfWord
<1>2. /\ IsSeq(vec) /\ Range(vec) = bits_set /\ DOMAIN vec = 1..n /\ n \in Nat
      /\ n = 0 <=> bits_set = {}
  BY <1>1, SortedIsSeq, SortedRange, FS_CardinalityType, FS_EmptySet, ZenonT(20)
<1>3. all \in Nat /\ all < Word
  BY <1>1, OrAllWord
<1>4. all \in 0..Word - 1 /\ Complement(all) \in 0..Word - 1 /\ 0 \in 0..Word - 1
  BY <1>1, <1>3 DEF Complement
<1>5. generateBitCombs =
        IF vec = <<>> THEN <<>>
        ELSE IF Len(vec) > FewBits THEN <<all>> \o vec \o <<0, Complement(all)>>
        ELSE Sorted(Com \cup {0, Complement(all)})
  BY Zenon DEF generateBitCombs
<1> HIDE DEF vec, all, n
<1>6. Len(vec) = n /\ (vec = <<>> <=> n = 0)
  BY <1>2 DEF IsSeq
<1>7. CASE bits_set = {}
  <2>1. generateBitCombs = <<>> /\ Range(<<>>) = {}
    BY <1>2, <1>5, <1>6, <1>7 DEF Range
  <2>2. QED
    BY <1>7, <2>1, Zenon
<1>8. CASE bits_set # {} /\ Len(vec) > FewBits
  <2>1. Range(<<all>>) = {all} /\ Range(<<0, Complement(all)>>) = {0, Complement(all)}
    <3>1. DOMAIN <<all>> = {1} /\ DOMAIN <<0, Complement(all)>> = {1, 2}
      OBVIOUS
    <3>2. QED
      BY <3>1 DEF Range
  <2>2. IsSeq(<<all>> \o vec) /\ Range(<<all>> \o vec) = {all} \cup bits_set
    BY <1>2, <2>1, ShortSeqs, ConcatSet, ZenonT(20)
  <2>3. Range(<<all>> \o vec \o <<0, Complement(all)>>)
           = ({all} \cup bits_set) \cup {0, Complement(all)}
    BY <2>1, <2>2, ShortSeqs, ConcatSet, ZenonT(40)
  <2>4. generateBitCombs = <<all>> \o vec \o <<0, Complement(all)>>
    BY <1>2, <1>5, <1>6, <1>8, Zenon
  <2> DEFINE G == Range(generateBitCombs)
  <2>5. G = ({all} \cup bits_set) \cup {0, Complement(all)}
    BY <2>3, <2>4, Zenon
  <2> HIDE DEF G
  <2>6. /\ G \subseteq 0..Word - 1 /\ bits_set \subseteq G /\ 0 \in G
        /\ all \in G /\ Complement(all) \in G
    BY <1>4, <2>5, Zenon
  <2>7. QED
    BY <2>6 DEF G
<1>9. CASE bits_set # {} /\ ~(Len(vec) > FewBits)
  <2>1. n \in 1..FewBits
    <3>1. n # 0 /\ ~(n > FewBits)
      BY <1>2, <1>6, <1>9, ZenonT(20)
    <3>2. QED
      BY <1>2, <3>1, SizesAssumption
  <2> DEFINE Vals(I) == {vec[i] : i \in I}
             P == (SUBSET (1..n)) \ {{}}
  <2>2. \A I \in P : Vals(I) \subseteq bits_set
    BY <1>2, Zenon DEF Range
  <2>3. {Range(c) : c \in Range(powerSet(n))} = P
    BY <2>1, PowerSetAssumption
  <2>4. Com = {OrAll(Vals(I)) : I \in P}
    <3>1. Com = {OrAll(Vals(I)) : I \in {Range(c) : c \in Range(powerSet(n))}}
      BY <1>6, ZenonT(20)
    <3>2. QED
      BY <2>3, <3>1, Zenon
  <2>5. IsFiniteSet(Com)
    <3>1. Len(vec) \in 1..FewBits
      BY <1>6, <2>1
    <3>2. QED
      BY <3>1, FewCombinations, Zenon
  <2>6. ASSUME NEW I \in P
        PROVE  OrAll(Vals(I)) \in 0..Word - 1
    <3> DEFINE V == Vals(I)
    <3>1. V \in SUBSET bits_set
      BY <2>2, Zenon
    <3> HIDE DEF V
    <3>2. V \in SUBSET Nat /\ IsFiniteSet(V) /\ \A x \in V : x < Word
      BY <1>1, <3>1, FS_Subset, ZenonT(20)
    <3>3. OrAll(V) \in Nat /\ OrAll(V) < Word
      BY <3>2, OrAllWord, Zenon
    <3>4. QED
      BY <1>1, <3>3 DEF V
  <2>7. bits_set \subseteq Com
    <3> SUFFICES ASSUME NEW x \in bits_set
                 PROVE  x \in Com
      BY Zenon
    <3>1. PICK i \in 1..n : vec[i] = x
      BY <1>2, Zenon DEF Range
    <3>2. {i} \in P /\ Vals({i}) = {x}
      BY <3>1, Zenon
    <3>3. OrAll({x}) = x
      BY <1>1, FS_Singleton, OrAllWord
    <3> HIDE DEF Com, Vals, P
    <3>4. QED
      BY <2>4, <3>2, <3>3
  <2>8. all \in Com
    <3>1. 1..n \in P
      BY <1>2, <2>1
    <3>2. Vals(1..n) = bits_set
      BY <1>2, Zenon DEF Range
    <3> HIDE DEF Com, Vals, P
    <3>3. QED
      BY <2>4, <3>1, <3>2 DEF all
  <2>9. Com \subseteq 0..Word - 1
    <3> HIDE DEF Com, Vals, P
    <3>1. QED
      BY <2>4, <2>6
  <2> HIDE DEF Com
  <2> DEFINE G == Range(generateBitCombs)
  <2>10. G = Com \cup {0, Complement(all)}
    <3> DEFINE T == Com \cup {0, Complement(all)}
    <3>1. generateBitCombs = Sorted(T)
      BY <1>2, <1>5, <1>6, <1>9, ZenonT(20)
    <3>2. T \in SUBSET Nat
      <4>1. 0..Word - 1 \subseteq Nat
        OBVIOUS
      <4>2. QED
        BY <1>4, <2>9, <4>1, Zenon
    <3>3. IsFiniteSet({0, Complement(all)})
      BY PairFinite, Zenon
    <3>4. IsFiniteSet(T)
      BY <2>5, <3>3, FS_Union, ZenonT(20)
    <3> HIDE DEF T
    <3>5. Range(Sorted(T)) = T
      BY <3>2, <3>4, SortedRange, Zenon
    <3>6. QED
      BY <3>1, <3>5 DEF T
  <2> HIDE DEF G
  <2>11. /\ G \subseteq 0..Word - 1 /\ bits_set \subseteq G /\ 0 \in G
         /\ all \in G /\ Complement(all) \in G
    BY <1>4, <2>7, <2>8, <2>9, <2>10, ZenonT(20)
  <2>12. QED
    BY <2>11, Zenon DEF G
<1>10. QED
  BY <1>7, <1>8, <1>9

(* The values of the dictionary: those of the comparisons with a constant, *)
(* the combinations of the bits, and the values beside the ranges.         *)
LEMMA DictionaryOf ==
    ASSUME Finite, Collected, Dictionary, Stages, phase \in {"device", "usb"}
    PROVE  /\ Range(dict) \in SUBSET Nat /\ value_set \subseteq Range(dict)
           /\ bits_set # {} =>
                 /\ bits_set \subseteq Range(dict) /\ 0 \in Range(dict)
                 /\ \E v \in Range(dict) : v < Word /\ Complement(v) \in Range(dict)
           /\ \A r \in ranges : \A v \in genSpecial(r[1], r[2]) : v % Word \in Range(dict)
<1> DEFINE Com == Range(generateBitCombs)
           Spe == {v % Word : v \in UNION {genSpecial(r[1], r[2]) : r \in ranges}}
<1>1. /\ Word \in Nat \ {0}
  BY SizesAssumption, SizeOfWord
<1>2. /\ Com \subseteq 0..Word - 1
      /\ bits_set # {} =>
            /\ bits_set \subseteq Com /\ 0 \in Com /\ \E v \in Com : Complement(v) \in Com
  BY CombsRange, Zenon DEF Finite, Collected
<1>3. Range(Sorted(value_set)) = value_set
  <2>1. value_set \in SUBSET Nat
    BY DEF Collected
  <2>2. QED
    BY <2>1, SortedRange DEF Finite
<1>4. Range(Sorted(range_special_vals)) = Spe /\ Spe \subseteq 0..Word - 1
  <2>1. range_special_vals = Spe
    BY Zenon DEF Collected
  <2>2. Spe \subseteq 0..Word - 1
    <3> SUFFICES ASSUME NEW r \in ranges, NEW v \in genSpecial(r[1], r[2])
                 PROVE  v % Word \in 0..Word - 1
      BY Zenon
    <3>1. r[1] \in Nat /\ r[2] \in Nat
      BY Zenon DEF Collected
    <3>2. v \in Int
      BY <3>1 DEF genSpecial
    <3>3. QED
      BY <1>1, <3>2
  <2> HIDE DEF Spe
  <2>3. range_special_vals \in SUBSET Nat
    BY <2>1, <2>2
  <2>4. QED
    BY <2>1, <2>2, <2>3, SortedRange DEF Finite
<1>5. Range(dict) = value_set \cup Com \cup Spe
  BY <1>3, <1>4, Zenon DEF Dictionary, Values
<1>6. ASSUME NEW r \in ranges, NEW v \in genSpecial(r[1], r[2])
      PROVE  v % Word \in Spe
  BY Zenon
<1> HIDE DEF Com, Spe
<1>7. value_set \subseteq 0..Word - 1
  BY Zenon DEF Collected
<1>8. \A x \in 0..Word - 1 : x \in Nat /\ x < Word
  BY <1>1
<1>9. Range(dict) \in SUBSET Nat
  BY <1>2, <1>4, <1>5, <1>7, <1>8, Zenon
<1>10. bits_set # {} =>
         /\ bits_set \subseteq Range(dict) /\ 0 \in Range(dict)
         /\ \E v \in Range(dict) : v < Word /\ Complement(v) \in Range(dict)
  BY <1>2, <1>5, <1>8, Zenon
<1>11. QED
  BY <1>5, <1>6, <1>9, <1>10

(* The ends of the ranges, cut to the size of the input.                   *)
LEMMA EndsCut ==
    ASSUME NEW n \in 1..WordBytes
    PROVE  /\ Trunc(0 % Word, n) = 0 /\ Trunc((0 - 1) % Word, n) = MaxValue(n)
           /\ Trunc(MaxValue(n) % Word, n) = MaxValue(n)
           /\ Trunc((MaxValue(n) + 1) % Word, n) = 0
<1> DEFINE T == BitsOf(n)
           W == BitsOf(WordBytes)
           p == Pow2[T]
<1>1. /\ T \in Nat /\ W \in Nat /\ T <= W /\ Word = Pow2[W] /\ MaxValue(n) = p - 1
      /\ \A v : Trunc(v, n) = v % p
  BY SizeOfWord, Zenon
<1>2. p \in Nat \ {0} /\ Word \in Nat \ {0} /\ MaxValue(n) < Word
  BY <1>1, Pow2Pos, InputBits, Zenon
<1> HIDE DEF T, W
<1>3. (0 - 1) % Word = Word - 1
  BY <1>2
<1>4. (Word - 1) % p = p - 1
  <2>1. Word - 1 \in Nat /\ \A k \in Nat : Bit(Word - 1, k) <=> k < W
    BY <1>1, BitOnes
  <2>2. /\ (Word - 1) % p \in Nat
        /\ \A k \in Nat : Bit((Word - 1) % p, k) <=> k < T /\ Bit(Word - 1, k)
    BY <1>1, <2>1, BitMod, ZenonT(20)
  <2>3. p - 1 \in Nat /\ \A k \in Nat : Bit(p - 1, k) <=> k < T
    BY <1>1, BitOnes
  <2> DEFINE z == (Word - 1) % p
  <2>4. \A k \in Nat : Bit(z, k) <=> Bit(p - 1, k)
    BY <1>1, <2>1, <2>2, <2>3
  <2> HIDE DEF z
  <2>5. z = p - 1
    BY <2>2, <2>3, <2>4, BitsEqual DEF z
  <2>6. QED
    BY <2>5, Zenon DEF z
<1> HIDE DEF p
<1>5. 0 % Word = 0 /\ 0 % p = 0 /\ (p - 1) % Word = p - 1 /\ (p - 1) % p = p - 1
  BY <1>1, <1>2
<1>6. (p % Word) % p = 0
  <2>1. CASE p < Word
    <3>1. p % Word = p /\ p % p = 0
      BY <1>2, <2>1
    <3>2. QED
      BY <3>1
  <2>2. CASE p = Word
    <3>1. p % Word = 0
      BY <1>2, <2>2
    <3>2. QED
      BY <1>5, <3>1, Zenon
  <2>3. p <= Word
    BY <1>1, <1>2
  <2>4. QED
    BY <1>2, <2>1, <2>2, <2>3
<1>7. MaxValue(n) + 1 = p
  BY <1>1, <1>2
<1>8. QED
  BY <1>1, <1>3, <1>4, <1>5, <1>6, <1>7

(* What is noted of a comparison covers both its outcomes.                 *)
LEMMA ComparisonCovered ==
    ASSUME Finite, Collected, Dictionary, Stages, phase \in {"device", "usb"},
           NEW e \in exprs, e.op \in {"LT", "LE", "GT", "GE"},
           \/ e.op \in {"LT", "LE"} \/ checkAllOneValue(e.c) = 0
           \/ e.op = (IF e.left THEN "GE" ELSE "GT") /\ \E i \in 1..WordBytes : e.c = MaxValue(i)
    PROVE  Seen(e, n_bytes, Range(dict)) = Outcomes(e, n_bytes)
<1> DEFINE D == Range(dict)
           n == n_bytes
           ones == e.op \in {"GT", "GE"} /\ checkAllOneValue(e.c) # 0
           sign == e.op = "LT" /\ e.c = 0
<1>1. e \in Exprs /\ Noted(e) /\ n \in 1..WordBytes
  BY SizesAssumption, Zenon DEF Collected, Stages
<1>2. e.c \in Nat /\ e.c < Word /\ e.left \in BOOLEAN
      /\ e.shape \in {"value", "and", "shl", "shr"}
  BY <1>1, ExprFields
<1>3. D \in SUBSET Nat
  BY DictionaryOf, Zenon
<1>4. \A x \in 0..MaxValue(n) : Tested(e, x) \in Nat
  BY <1>1, TestedMonotone
<1>5. CASE sign
  <2>1. TopBit(n) \in bits_set
    BY <1>1, <1>5 DEF Noted
  <2>2. TopBit(n) \in D /\ 0 \in D /\ \E v \in D : v < Word /\ Complement(v) \in D
    BY <2>1, DictionaryOf, Zenon
  <2>3. CASE e.shape = "value" /\ ~e.left
    <3>1. e.op = "LT" /\ e.c = 0
      BY <1>5, Zenon
    <3> HIDE DEF D, n
    <3>2. Seen(e, n, D) = Outcomes(e, n)
      BY <1>1, <1>3, <2>2, <2>3, <3>1, SignCovered
    <3>3. QED
      BY <3>2 DEF D, n
  <2>4. CASE e.left
    <3>1. \A x \in 0..MaxValue(n) : Holds(e, n, x) = (TRUE = (Tested(e, x) >= Pow2[0]))
      <4>1. \A x : Holds(e, n, x) = (0 < Tested(e, x))
        BY <1>5, <2>4, Zenon DEF Holds
      <4>2. Pow2[0] = 1
        BY Pow2Def
      <4>3. \A t \in Nat : (0 < t) = (TRUE = (t >= 1))
        OBVIOUS
      <4>4. QED
        BY <1>4, <4>1, <4>2, <4>3
    <3>2. 0 \in Nat /\ TRUE \in BOOLEAN
      BY Zenon
    <3>3. QED
      BY <1>1, <1>3, <2>2, <3>1, <3>2, SomeBitCovered, ZenonT(20)
  <2>5. CASE e.shape # "value" /\ ~e.left
    <3>1. \A x : Holds(e, n, x) = (Tested(e, x) < 0)
      BY <1>5, <2>5, Zenon DEF Holds
    <3>2. \A t \in Nat : (t < 0) = FALSE
      OBVIOUS
    <3>3. \A v \in D : Trunc(v, n) \in Nat /\ Trunc(v, n) < Word
      BY <1>1, <1>3, TruncBits
    <3>4. Tested(e, Trunc(0, n)) \in Nat
      BY <1>1, <2>2, <3>3, TestedBits
    <3>5. \A x \in 0..MaxValue(n) : \E v \in D : Holds(e, n, x) = Holds(e, n, Trunc(v, n))
      BY <1>4, <2>2, <3>1, <3>2, <3>4
    <3>6. QED
      BY <1>1, <1>3, <3>5, SeenPossible
  <2>6. QED
    BY <1>2, <2>3, <2>4, <2>5
<1>6. CASE ones
  <2>1. PICK i \in 1..WordBytes : e.c = MaxValue(i)
    BY <1>6, Zenon
  <2>2. e.op = IF e.left THEN "GE" ELSE "GT"
    BY <1>6, Zenon
  <2>3. checkAllOneValue(e.c) \in bits_set
    BY <1>1, <1>6 DEF Noted
  <2>4. checkAllOneValue(e.c) \in D /\ 0 \in D /\ \E v \in D : v < Word /\ Complement(v) \in D
    BY <2>3, DictionaryOf, Zenon
  <2>5. CASE e.shape = "value" /\ ~e.left /\ e.c = MaxValue(n)
    <3>1. checkAllOneValue(e.c) = TopBit(n)
      BY <1>1, <2>5, AllOneValue, Zenon
    <3>2. QED
      BY <1>1, <1>3, <2>2, <2>4, <2>5, <3>1, SignCovered
  <2>6. CASE ~(e.shape = "value" /\ ~e.left /\ e.c = MaxValue(n))
    <3> DEFINE p == Pow2[BitsOf(i)]
               high == ~e.left
    <3>1. BitsOf(i) \in Nat /\ p \in Nat \ {0} /\ e.c = p - 1
      BY <2>1, SizeOfWord, Pow2Pos, Zenon
    <3>2. \A x : Holds(e, n, x) = IF e.left THEN e.c >= Tested(e, x) ELSE Tested(e, x) > e.c
      BY <1>2, <2>2, <2>6, Zenon DEF Holds
    <3> HIDE DEF p
    <3>3. \A t \in Nat : ((p - 1) >= t) = (FALSE = (t >= p)) /\ (t > (p - 1)) = (TRUE = (t >= p))
      BY <3>1
    <3>4. \A x \in 0..MaxValue(n) : Holds(e, n, x) = (high = (Tested(e, x) >= p))
      <4>1. CASE e.left
        <5>1. \A x \in 0..MaxValue(n) : Holds(e, n, x) = (FALSE = (Tested(e, x) >= p))
          BY <1>4, <3>1, <3>2, <3>3, <4>1
        <5>2. QED
          BY <4>1, <5>1
      <4>2. CASE ~e.left
        <5>1. \A x \in 0..MaxValue(n) : Holds(e, n, x) = (TRUE = (Tested(e, x) >= p))
          BY <1>4, <3>1, <3>2, <3>3, <4>2
        <5>2. QED
          BY <4>2, <5>1
      <4>3. QED
        BY <4>1, <4>2, Zenon
    <3>5. high \in BOOLEAN
      BY Zenon
    <3> HIDE DEF high
    <3>6. QED
      BY <1>1, <1>3, <2>4, <3>1, <3>4, <3>5, SomeBitCovered DEF p
  <2>7. QED
    BY <2>5, <2>6, Zenon
<1>7. CASE ~sign /\ ~ones
  <2>1. \E v0, v1 \in D : Trunc(v0, n) = 0 /\ Trunc(v1, n) = MaxValue(n)
    <3>1. CASE e.op \in {"LT", "LE"}
      <4> DEFINE r == <<0, e.c>>
      <4>1. r \in ranges
        BY <1>1, <1>7, <3>1, Zenon DEF Noted
      <4>2. 0 \in genSpecial(r[1], r[2]) /\ 0 - 1 \in genSpecial(r[1], r[2])
        BY Zenon DEF genSpecial
      <4>3. 0 % Word \in D /\ (0 - 1) % Word \in D
        BY <4>1, <4>2, DictionaryOf
      <4>4. QED
        BY <1>1, <4>3, EndsCut, Zenon
    <3>2. CASE e.op \in {"GT", "GE"}
      <4> DEFINE r == <<e.c, MaxValue(n)>>
      <4>1. r \in ranges
        BY <1>1, <1>7, <3>2 DEF Noted
      <4>2. MaxValue(n) \in genSpecial(r[1], r[2]) /\ MaxValue(n) + 1 \in genSpecial(r[1], r[2])
        BY Zenon DEF genSpecial
      <4>3. MaxValue(n) % Word \in D /\ (MaxValue(n) + 1) % Word \in D
        BY <4>1, <4>2, DictionaryOf
      <4>4. QED
        BY <1>1, <4>3, EndsCut, Zenon
    <3>3. QED
      BY <3>1, <3>2, Zenon
  <2>2. ~(e.op = "GT" /\ e.c = MaxValue(n))
    <3>1. checkAllOneValue(MaxValue(n)) = TopBit(n) /\ TopBit(n) > 0 /\ TopBit(n) \in Nat
      BY <1>1, AllOneValue, TopBitInput, Zenon
    <3>2. QED
      BY <1>7, <3>1
  <2>3. QED
    BY <1>1, <1>3, <1>7, <2>1, <2>2, RangeCovered, Zenon
<1>8. QED
  BY <1>5, <1>6, <1>7

(* The dictionary covers every condition that is understood.               *)
LEMMA Covered ==
    ASSUME IInv
    PROVE  BranchesCovered
<1> SUFFICES ASSUME phase \in {"device", "usb"}, NEW e \in exprs \cap Understood
             PROVE  LET seen == {Holds(e, n_bytes, Trunc(v, n_bytes)) : v \in Range(dict)}
                        ones == checkAllOneValue(e.c) # 0
                        inexact == \/ e.op = (IF e.left THEN "GT" ELSE "GE")
                                   \/ /\ e.op \in {"GT", "GE"}
                                      /\ \A i \in 1..WordBytes : e.c # MaxValue(i)
                    IN  CASE e.op = "EQ" /\ e.shape = "value" ->
                               TRUE \in Possible[e][n_bytes] => TRUE \in seen
                          [] e.op = "NE" /\ e.shape = "value" ->
                               FALSE \in Possible[e][n_bytes] => FALSE \in seen
                          [] ones /\ inexact -> TRUE
                          [] OTHER -> seen = Possible[e][n_bytes]
  BY Zenon DEF BranchesCovered
<1> DEFINE D == Range(dict)
           n == n_bytes
           ones == checkAllOneValue(e.c) # 0
           inexact == \/ e.op = (IF e.left THEN "GT" ELSE "GE")
                      \/ e.op \in {"GT", "GE"} /\ \A i \in 1..WordBytes : e.c # MaxValue(i)
<1>1. Finite /\ Collected /\ Dictionary /\ Stages
  BY DEF IInv
<1>2. e \in Exprs /\ Noted(e) /\ n \in Sizes /\ n \in 1..WordBytes
  BY <1>1, SizesAssumption, Zenon DEF Collected, Stages
<1>3. /\ e.op \in {"EQ", "NE", "LT", "LE", "GT", "GE"} /\ e.left \in BOOLEAN
      /\ e.shape \in {"value", "and", "shl", "shr"} /\ e.c \in Nat
      /\ e.direct /\ (e.op \in {"EQ", "NE"} /\ e.shape # "value" => e.masked)
  BY <1>2, ExprFields DEF Understood
<1>4. Possible[e][n] = Outcomes(e, n)
  BY <1>2, Zenon DEF Possible
<1>5. /\ D \in SUBSET Nat /\ value_set \subseteq D
      /\ bits_set # {} => bits_set \subseteq D /\ 0 \in D
  BY <1>1, DictionaryOf
<1>6. {Holds(e, n_bytes, Trunc(v, n_bytes)) : v \in Range(dict)} = Seen(e, n, D)
  BY Zenon DEF Seen
<1>7. CASE e.op \in {"EQ", "NE"} /\ e.shape = "value"
  <2>1. e.c \in D
    BY <1>2, <1>3, <1>5, <1>7 DEF Noted
  <2>2. \A x : Holds(e, n, x) = IF e.op = "EQ" THEN e.c = x ELSE e.c # x
    BY <1>3, <1>7 DEF Holds, Tested
  <2>3. ASSUME NEW x \in 0..MaxValue(n), e.c = x
        PROVE  Trunc(e.c, n) = x
    <3>1. /\ Pow2[BitsOf(n)] \in Nat \ {0} /\ MaxValue(n) = Pow2[BitsOf(n)] - 1
          /\ Trunc(e.c, n) = e.c % Pow2[BitsOf(n)]
      BY <1>2, SizeOfWord, Pow2Pos, Zenon
    <3>2. QED
      BY <1>3, <2>3, <3>1
  <2>4. ASSUME e.op = "EQ", TRUE \in Outcomes(e, n)
        PROVE  TRUE \in Seen(e, n, D)
    <3>1. PICK x \in 0..MaxValue(n) : Holds(e, n, x) = TRUE
      BY <2>4, Zenon DEF Outcomes
    <3>2. e.c = x
      BY <2>2, <2>4, <3>1, ZenonT(20)
    <3>3. Holds(e, n, Trunc(e.c, n)) = TRUE
      BY <2>3, <3>1, <3>2
    <3>4. QED
      BY <2>1, <3>3, Zenon DEF Seen
  <2>5. ASSUME e.op = "NE", FALSE \in Outcomes(e, n)
        PROVE  FALSE \in Seen(e, n, D)
    <3>1. PICK x \in 0..MaxValue(n) : Holds(e, n, x) = FALSE
      BY <2>5, Zenon DEF Outcomes
    <3>2. e.c = x
      BY <2>2, <2>5, <3>1, ZenonT(20)
    <3>3. Holds(e, n, Trunc(e.c, n)) = FALSE
      BY <2>3, <3>1, <3>2, Zenon
    <3>4. QED
      BY <2>1, <3>3, Zenon DEF Seen
  <2>6. QED
    BY <1>4, <1>6, <1>7, <2>4, <2>5, ZenonT(20)
<1>8. CASE e.op \in {"EQ", "NE"} /\ e.shape # "value"
  <2>1. NewBits(e) \subseteq bits_set /\ NewBits(e) # {}
    BY <1>2, <1>3, <1>8, Zenon DEF Noted, NewBits
  <2>2. NewBits(e) \subseteq D /\ 0 \in D
    BY <1>5, <2>1
  <2>3. Seen(e, n, D) = Outcomes(e, n)
    BY <1>2, <1>5, <1>8, <2>2, MaskCovered
  <2>4. QED
    BY <1>4, <1>6, <1>8, <2>3
<1>9. CASE e.op \notin {"EQ", "NE"} /\ ~(ones /\ inexact)
  <2>1. \/ e.op \in {"LT", "LE"} \/ checkAllOneValue(e.c) = 0
        \/ e.op = (IF e.left THEN "GE" ELSE "GT") /\ \E i \in 1..WordBytes : e.c = MaxValue(i)
    BY <1>3, <1>9, Zenon
  <2>2. Seen(e, n, D) = Outcomes(e, n)
    BY <1>1, <1>3, <1>9, <2>1, ComparisonCovered
  <2>3. QED
    BY <1>4, <1>6, <1>9, <2>2, ZenonT(20)
<1>10. CASE e.op \notin {"EQ", "NE"} /\ ones /\ inexact
  BY <1>10, Zenon
<1>11. QED
  BY <1>7, <1>8, <1>9, <1>10, ZenonT(20)

(* Whatever conditions the driver has on an input, of any size, and in     *)
(* whatever order the analysis meets them, the dictionary that the device  *)
(* model makes of them has a value for each outcome that is possible of    *)
(* each comparison of the input itself, masked or shifted, with the        *)
(* exceptions of BranchesCovered: nothing is claimed of an equation of a   *)
(* shift without a mask, of a condition on a value computed from the       *)
(* input, of the outcome x # c of an equation, nor where a comparison is   *)
(* wrongly taken for a test of one bit.                                    *)
THEOREM EveryBranchCovered == Spec => []BranchesCovered
<1>1. IInv => BranchesCovered
  BY Covered, Zenon
<1>2. QED
  BY <1>1, Invariance, PTL
=============================================================================

---------------------------- MODULE MCHWInputs ----------------------------
(* Bytes of two bits and words of four bytes; constants at the borders of  *)
(* bytes, masks of one and of several bits, shifts within and across bytes.*)
EXTENDS HWInputs, SequencesExt

RECURSIVE selectN(_, _, _, _)
selectN(start, total, path, n) ==
    IF Len(path) = n THEN <<path>>
    ELSE IF total - start + Len(path) < n THEN <<>>
    ELSE FlattenSeq([k \in 1..total - start |->
                        selectN(start + k, total, Append(path, start + k), n)])

PowerSet(n) == FlattenSeq([k \in 1..n |-> selectN(0, n, <<>>, k)])

(* powerSet on the sizes that generateBitCombs uses it for, 1 to 4: every  *)
(* selection is made, and none is made twice.                              *)
ASSUME EachSelectionOnce ==
    \A n \in 1..4 :
        /\ {ToSet(c) : c \in ToSet(PowerSet(n))} = (SUBSET (1..n)) \ {{}}
        /\ Len(PowerSet(n)) = 2 ^ n - 1

Expr(op, left, shape, mask, shift, c) ==
    [op |-> op, left |-> left, shape |-> shape, direct |-> TRUE,
     masked |-> shape = "and" \/ (shape # "value" /\ mask # Word - 1),
     mask |-> IF shape = "value" THEN Word - 1 ELSE mask, shift |-> shift, c |-> c]

(* The same of a value computed from the input.                            *)
Computed(e) == [e EXCEPT !.direct = FALSE]

MCExprs ==
    {Expr(op, FALSE, "value", 0, 0, 5) : op \in {"EQ", "NE"}} \cup
    {Expr(op, left, "value", 0, 0, c) : op \in {"LT", "GE"}, left \in BOOLEAN,
                                        c \in {0, 15}} \cup
    {Expr(op, left, "value", 0, 0, c) : op \in {"LE", "GT"}, left \in BOOLEAN,
                                        c \in {3, 19}} \cup
    {Expr("NE", FALSE, "and", m, 0, c) : m \in {2, 12}, c \in {0, 4}} \cup
    {Expr("GT", FALSE, "and", 12, 0, 4)} \cup
    {Expr("EQ", FALSE, sh, 6, s[1], s[2]) : sh \in {"shl", "shr"},
                                            s \in {<<1, 0>>, <<3, 4>>}} \cup
    {Expr(op, FALSE, "shr", Word - 1, 3, 4) : op \in {"EQ", "LT"}} \cup
    {Computed(Expr(op, FALSE, "value", 0, 0, 9)) : op \in {"EQ", "LE"}} \cup
    {Computed(Expr("NE", FALSE, "and", 6, 0, 2))} \cup
    {Expr("none", FALSE, "value", 0, 0, 0)}
=============================================================================

---------------------------- MODULE MCProbeModel ----------------------------
(* A device with two recorded registers and two that are not recorded.    *)
EXTENDS ProbeModel

MCOrder == <<0, 1>>
MCRecorded == [c \in {0, 1} |-> IF c = 0 THEN <<1, 0>> ELSE <<1>>]

\* HWModel_de2104x, HWModel_nosy and HWModel_sunhme.
MCStyles == {[resets |-> TRUE, breaks |-> TRUE, default |-> TRUE],
             [resets |-> FALSE, breaks |-> TRUE, default |-> FALSE],
             [resets |-> FALSE, breaks |-> FALSE, default |-> FALSE]}

MCInputs == {<<>>, <<1, 0>>}
MCWrites == {<<2, 1>>}
=============================================================================

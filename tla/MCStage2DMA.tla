---------------------------- MODULE MCStage2DMA ----------------------------
(* Two vcpu threads; two registers with buffers of 4 bytes (a multiple of  *)
(* the struct) and 3; the input has room for none, or for one of each but  *)
(* not for two of 4, or is missing.                                        *)
EXTENDS Stage2DMA

MCRegs   == [reg \in {"rx", "tx"} |-> IF reg = "rx" THEN 0 ELSE 3]
MCModels == {[struct_len |-> 2, offset |-> 1, size |-> 1],
             [struct_len |-> 3, offset |-> 0, size |-> 2]}
MCSizes  == {-1, 0, 3, 8}
=============================================================================

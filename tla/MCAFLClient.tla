---------------------------- MODULE MCAFLClient ----------------------------
(* The exclusive or of AFLMaybeLog for AFLClient.                          *)
EXTENDS AFLClient, Bitwise

MCLocXor(a, b) == a ^^ b
=============================================================================

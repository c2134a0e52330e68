--------------------------- MODULE MCLlcpEndpoint ---------------------------
(***************************************************************************)
(* Instances of LlcpEndpoint for TLC: `in' is a link of the emulated SNEP   *)
(* server (local SAP 4), which the operator uses too, and `lm' the link of *)
(* the SAPs 0, which has no handler.                                       *)
(***************************************************************************)
EXTENDS LlcpEndpoint, TLC

CONSTANTS in, lm, m1, m2

MCSymmetry == Permutations(Msg)
====

---------------------------- MODULE MCLlcpSession ----------------------------
(***************************************************************************)
(* Instances of LlcpSession for TLC: `in' is the link of the host's SNEP   *)
(* client to the emulated SNEP server, `to' the operator's link to the     *)
(* host's SNEP server, `lm' the link of the SAPs 0, which nobody uses.     *)
(***************************************************************************)
EXTENDS LlcpSession

CONSTANTS in, to, lm, m1, m2
====

---------------------------- MODULE MCEmuSession ----------------------------
(***************************************************************************)
(* Instances of EmuSession for TLC: nfc_res[0], an NFC-DEP endpoint, and   *)
(* nfc_res[2], a tag; one link to the emulated SNEP server and the link of *)
(* the SAPs 0.                                                             *)
(***************************************************************************)
EXTENDS EmuSession, TLC

CONSTANTS t1t, in, lm, m1

MCRE == {p2p, t1t}
MCProto == (p2p :> "NFC_DEP" @@ t1t :> "T1T")
MCMode  == (p2p :> "F_LISTEN" @@ t1t :> "A_LISTEN")
====

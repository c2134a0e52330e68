---------------------------- MODULE MCNciSession ----------------------------
(***************************************************************************)
(* Instances of NciSession for TLC: the endpoints of nfc_res[0],           *)
(* nfc_res[2] and nfc_res[5], an operator who may force RF interface 4,    *)
(* and three ids, so that a discovery of all endpoints wraps the counter.  *)
(***************************************************************************)
EXTENDS NciSession, TLC

CONSTANTS p2p, t1t, t4t

MCRE == {p2p, t1t, t4t}
MCProto == (p2p :> "NFC_DEP" @@ t1t :> "T1T" @@ t4t :> "ISO_DEP")
MCMode  == (p2p :> "F_LISTEN" @@ t1t :> "A_LISTEN" @@ t4t :> "A_LISTEN")
====

---------------------------- MODULE MCNfcDevice ----------------------------
(***************************************************************************)
(* Instances of NfcDevice for TLC: three endpoints with the protocols and  *)
(* modes of nfc_res[0], nfc_res[2] and nfc_res[5], and a counter of three  *)
(* or four ids, so that ids wrap around while others are still live.       *)
(***************************************************************************)
EXTENDS NfcDevice, TLC

CONSTANTS p2p, t1t, t4t

MCRE == {p2p, t1t, t4t}
MCProto == (p2p :> "NFC_DEP" @@ t1t :> "T1T" @@ t4t :> "ISO_DEP")
MCMode  == (p2p :> "F_LISTEN" @@ t1t :> "A_LISTEN" @@ t4t :> "A_LISTEN")
====

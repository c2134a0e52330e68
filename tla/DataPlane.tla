------------------------------ MODULE DataPlane ------------------------------
(***************************************************************************)
(* The parts of the emulator that hold bytes for the host or the operator: *)
(* a tag, the SNEP server, the configuration parameters.  They share no    *)
(* state, so a behaviour has one of them; the others stay as they begin.   *)
(***************************************************************************)
EXTENDS SnepServer, NfcTag, NciConfig

VARIABLE part

dataVars == <<part, snepVars, tagVars, configVars>>

Parts == {"tag", "snep", "config"}

DataInit ==
  /\ part \in Parts
  /\ part # "tag" => tag_type = "T1T"
  /\ SnepInit /\ TagInit /\ ConfigInit

OnTag    == part = "tag"    /\ TagNext    /\ UNCHANGED <<part, snepVars, configVars>>
OnSnep   == part = "snep"   /\ SnepNext   /\ UNCHANGED <<part, tagVars, configVars>>
OnConfig == part = "config" /\ ConfigNext /\ UNCHANGED <<part, snepVars, tagVars>>

DataNext == OnTag \/ OnSnep \/ OnConfig

DataSpec == DataInit /\ [][DataNext]_dataVars

------------------------------------------------------------------------------
(* Memory keeps its size and holds bytes, or bytes of NDEF messages; what  *)
(* encode_base64 puts out is of the alphabet.                              *)
DataTypeOK ==
  /\ part \in Parts
  /\ rbuf \in [0..RbufSize-1 -> Byte] /\ rlen \in Byte
  /\ response \in Responses
  /\ sent.end \in {"none", "error", "abort", "overrun"}
  /\ \A i \in DOMAIN sent.bytes : sent.bytes[i] \in Byte
  /\ LET recs == Shown(rbuf, rlen).recs
     IN  \A i \in DOMAIN recs :
           Range(recs[i].type \o recs[i].id \o recs[i].payload) \subseteq Sextet \cup {Pad}
  /\ tag_type \in TagTypes
  /\ DOMAIN mem = 0..TagSize[tag_type]-1 /\ \A a \in DOMAIN mem : mem[a] \in Nat
  /\ t4t_file_sel \in Files
  /\ tag_end \in {"none", "assert", "overrun", "read"}
  /\ config_id_value \in [0..StoreSize-1 -> Byte]
  /\ config_end \in {"none", "assert"}
==============================================================================

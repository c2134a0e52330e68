--------------------------------- MODULE Ndef ---------------------------------
(***************************************************************************)
(* NDEF records: creation and access (src/src/ndef.c) and the messages the *)
(* console builds of them (build_ndef_msg, src/src/cmdline.c).             *)
(*                                                                         *)
(* A record an operator means is [flags, tnf, type, id, payload], with     *)
(* flags a set of flag bits and the fields sequences of bytes; he types    *)
(* its fields in Base64.  Memory is a function of addresses from 0.        *)
(***************************************************************************)
EXTENDS Base64

MB == 128
ME == 64
CF == 32
SR == 16
IL == 8
FlagBits == {MB, ME, CF, SR, IL}
Tnfs == 0..7

Flags(byte) == {f \in FlagBits : (byte \div f) % 2 = 1}
Tnf(byte)   == byte % 8

------------------------------------------------------------------------------
(* The records of m, whose first bytes lie at o.  These accessors know the *)
(* order type, payload, id.                                                *)

HdrLen(flags) == 3 + (IF SR \in flags THEN 0 ELSE 3) + (IF IL \in flags THEN 1 ELSE 0)
TypeOff(m, o) == o + 7 - (IF SR \in Flags(m[o]) THEN 3 ELSE 0)
                       - (IF IL \in Flags(m[o]) THEN 0 ELSE 1)
TypeLen(m, o) == m[o + 1]
PayloadLen(m, o) ==
  IF SR \in Flags(m[o]) THEN m[o + 2]
  ELSE m[o + 5] + 256 * (m[o + 4] + 256 * (m[o + 3] + 256 * m[o + 2]))
IdLen(m, o) ==
  IF IL \notin Flags(m[o]) THEN 0
  ELSE IF SR \in Flags(m[o]) THEN m[o + 3] ELSE m[o + 6]
PayloadOff(m, o) == TypeOff(m, o) + TypeLen(m, o)
IdOff(m, o)      == PayloadOff(m, o) + PayloadLen(m, o)
RecLen(m, o)     == HdrLen(Flags(m[o])) + TypeLen(m, o) + PayloadLen(m, o) + IdLen(m, o)

------------------------------------------------------------------------------
(* build_ndef_msg: the header of a record is written with lengths of zero, *)
(* which are set after the fields are decoded; each length is cut to the 8 *)
(* bits of its parameter.                                                  *)

Bit(f, flags)   == IF f \in flags THEN f ELSE 0
FlagByte(flags) == Bit(MB, flags) + Bit(ME, flags) + Bit(CF, flags) + Bit(SR, flags) + Bit(IL, flags)

Header(flags, tnf, tlen, plen, ilen) ==
  <<FlagByte(flags) + tnf, tlen % 256>>
    \o (IF SR \in flags THEN <<plen % 256>> ELSE <<0, 0, 0, plen % 256>>)
    \o (IF IL \in flags THEN <<ilen % 256>> ELSE <<>>)

(* The flags of record i of the typed message msg *)
RecFlags(msg, i) ==
  msg[i].flags \cup (IF i = 1 THEN {MB} ELSE {})
               \cup (IF i = Len(msg) THEN {ME} ELSE {})
               \cup (IF msg[i].id # <<>> THEN {IL} ELSE {})

(* A mutant of BuildRec: the id goes where the accessors expect it *)
BuildRec_IdLast(msg, room, b, i) ==
  LET r       == msg[i]
      flags   == RecFlags(msg, i)
      type    == DecodeBase64(r.type, room)
      id      == DecodeBase64(r.id, room)
      payload == DecodeBase64(r.payload, room)
  IN  [b EXCEPT !.bytes = @ \o Header(flags, r.tnf, Len(type.bytes),
                                      Len(payload.bytes), Len(id.bytes))
                            \o type.bytes \o payload.bytes \o id.bytes]

(* Record i goes behind what is built.  A field that is not Base64, or a   *)
(* long payload in a short record, fails; a field the buffer has no room   *)
(* for fails an assertion.                                                 *)
BuildRec(msg, room, b, i) ==
  LET r       == msg[i]
      flags   == RecFlags(msg, i)
      left    == room - Len(b.bytes) - HdrLen(flags)
      type    == DecodeBase64(r.type, left)
      id      == DecodeBase64(IF IL \in flags THEN r.id ELSE <<>>, left - Len(type.bytes))
      payload == DecodeBase64(r.payload, left - Len(type.bytes) - Len(id.bytes))
      Fails(d) == d.end \in {"error", "abort"}
  IN  IF Fails(type) THEN [b EXCEPT !.end = type.end]
      ELSE IF Fails(id) THEN [b EXCEPT !.end = id.end]
      ELSE IF Fails(payload) THEN [b EXCEPT !.end = payload.end]
      ELSE IF SR \in flags /\ Len(payload.bytes) > 255 THEN [b EXCEPT !.end = "error"]
      ELSE [b EXCEPT !.bytes = @ \o Header(flags, r.tnf, Len(type.bytes),
                                           Len(payload.bytes), Len(id.bytes))
                                 \o type.bytes \o id.bytes \o payload.bytes]

BuildNdefMsg(msg, room) ==
  LET b[i \in 0..Len(msg)] ==
        IF i = 0 THEN [bytes |-> <<>>, end |-> "none"]
        ELSE IF b[i - 1].end = "none" THEN BuildRec(msg, room, b[i - 1], i) ELSE b[i - 1]
  IN  b[Len(msg)]

------------------------------------------------------------------------------
(* [NDEF] 2.6 and 3: the bytes of a message of records meant, of which the *)
(* payloads are shorter than 256 bytes.  Length fields follow the flags,   *)
(* the fields come in the order type, id, payload.                         *)

Field      == {bytes \in Seq(Byte) : Len(bytes) < 256}
NdefRecord == [flags : SUBSET FlagBits, tnf : Tnfs, type : Field, id : Field, payload : Field]

RecBytes(r, flags) ==
  <<FlagByte(flags) + r.tnf, Len(r.type)>>
    \o (IF SR \in flags THEN <<>> ELSE <<0, 0, 0>>) \o <<Len(r.payload)>>
    \o (IF IL \in flags THEN <<Len(r.id)>> ELSE <<>>)
    \o r.type \o r.id \o r.payload
NdefBytes(recs) == FlattenSeq([i \in 1..Len(recs) |-> RecBytes(recs[i], RecFlags(recs, i))])

(* What the operator types for records he means *)
Typed(recs) == [i \in 1..Len(recs) |->
                  [recs[i] EXCEPT !.type    = RfcEncode(@),
                                  !.id      = RfcEncode(@),
                                  !.payload = RfcEncode(@)]]
===============================================================================

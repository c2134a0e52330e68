------------------------------ MODULE SnepServer ------------------------------
(***************************************************************************)
(* The SNEP server of an emulated endpoint (src/src/llcp-snep.c, snep.c)   *)
(* with the receive buffer of its data link (src/src/llcp.c), and the      *)
(* console's `snep put' and `snep put -1 -1' (src/src/cmdline.c), which    *)
(* build the messages that go out and show the one received last.          *)
(*                                                                         *)
(* LlcpEndpoint has the links and the PDUs; here the link is connected and *)
(* the contents of the messages count.                                     *)
(***************************************************************************)
EXTENDS Ndef

CONSTANTS HostMsgs,   \* the NDEF messages the host puts, as records meant
          Meant,      \* the NDEF messages the operator puts
          Room        \* what create_i_pdu leaves for a SNEP message

ASSUME SnepAssumption ==
  /\ HostMsgs \subseteq Seq(NdefRecord)
  /\ Meant \subseteq {recs \in Seq(NdefRecord) : Len(recs) \in 1..4}
  /\ Room \in Nat

VARIABLES rbuf,       \* dl->rbuf
          rlen,       \* dl->rlen
          response,   \* what the server answered last
          stored,     \* the message of the PUT acknowledged last on this link
          meant,      \* what the operator put last
          sent        \* the SNEP message made of it

snepVars == <<rbuf, rlen, response, stored, meant, sent>>

SNEP_REQ_GET                 == 1
SNEP_REQ_PUT                 == 2
SNEP_RSP_SUCCESS             == 129
SNEP_RSP_EXCESS_DATA         == 193
SNEP_RSP_NOT_IMPLEMENTED     == 224
SNEP_RSP_UNSUPPORTED_VERSION == 225
SNEP_VERSION                 == 16
RbufSize                     == 256
PduRoom                      == 246   \* of 255 bytes: the length of a PDU has 8 bits

NoResponse == 0
Responses  == {NoResponse, SNEP_RSP_SUCCESS, SNEP_RSP_EXCESS_DATA,
               SNEP_RSP_NOT_IMPLEMENTED, SNEP_RSP_UNSUPPORTED_VERSION}

(* The bytes of a SNEP message *)
SnepCreateMsg(msg, len) == <<SNEP_VERSION, msg, 0, 0, len \div 256, len % 256>>

SnepInit ==
  /\ rbuf = [a \in 0..RbufSize-1 |-> 0]
  /\ rlen = 0
  /\ response = NoResponse
  /\ stored = <<>>
  /\ meant = <<>>
  /\ sent = [bytes |-> <<>>, end |-> "none"]

------------------------------------------------------------------------------
(* A mutant of WriteRbuf: the length stays that of the longest message     *)
WriteRbuf_KeepsLen(info) ==
  /\ rlen' = IF rlen > Len(info) THEN rlen ELSE Len(info)
  /\ rbuf' = [a \in 0..RbufSize-1 |-> IF a < Len(info) THEN info[a + 1] ELSE rbuf[a]]

(* llcp_dl_write_rbuf leaves what the message does not cover *)
WriteRbuf(info) ==
  /\ rlen' = Len(info)
  /\ rbuf' = [a \in 0..RbufSize-1 |-> IF a < Len(info) THEN info[a + 1] ELSE rbuf[a]]

(* The request's declared length must be that of its information field; a  *)
(* version up to 1.0 is supported.                                         *)
Answer(version, msg, declared, info) ==
  IF declared # Len(info) THEN SNEP_RSP_EXCESS_DATA
  ELSE IF version > SNEP_VERSION THEN SNEP_RSP_UNSUPPORTED_VERSION
  ELSE IF msg \notin {SNEP_REQ_PUT, SNEP_RSP_SUCCESS} THEN SNEP_RSP_NOT_IMPLEMENTED
  ELSE IF msg = SNEP_RSP_SUCCESS THEN NoResponse
  ELSE IF declared < RbufSize THEN SNEP_RSP_SUCCESS
  ELSE SNEP_RSP_EXCESS_DATA

(* llcp_sap_snep: a message of the host that holds the records recs.  The  *)
(* declared length is wrong for a fragment of a longer message.            *)
HostInfo == [recs \in HostMsgs |-> NdefBytes(recs)]
LlcpSapSnep(version, msg, wrong, recs) ==
  LET info   == HostInfo[recs]
      answer == Answer(version, msg, Len(info) + wrong, info)
  IN  /\ response' = answer
      /\ IF answer = SNEP_RSP_SUCCESS
         THEN WriteRbuf(info) /\ stored' = recs
         ELSE UNCHANGED <<rbuf, rlen, stored>>
      /\ UNCHANGED <<meant, sent>>

HostSendsSnep ==
  \E version \in {16, 17}, msg \in {SNEP_REQ_GET, SNEP_REQ_PUT, SNEP_RSP_SUCCESS},
     wrong \in {0, 1}, recs \in HostMsgs : LlcpSapSnep(version, msg, wrong, recs)

(* llcp_clear_data_link, when the link is connected anew *)
ClearRbuf ==
  /\ rlen' = 0
  /\ stored' = <<>>
  /\ response' = NoResponse
  /\ UNCHANGED <<rbuf, meant, sent>>

------------------------------------------------------------------------------
(* nfc_recv_process_ndef_cb: what the console shows of the first len bytes *)
(* of m.  Records must end with the message: past it is "too short".       *)

ShownRec(m, o) ==
  LET field(off, len) == EncodeBase64([i \in 1..len |-> m[off + i - 1]])
  IN  [tnf     |-> Tnf(m[o]),
       type    |-> field(TypeOff(m, o), TypeLen(m, o)),
       id      |-> field(IdOff(m, o), IdLen(m, o)),
       payload |-> field(PayloadOff(m, o), PayloadLen(m, o))]

Shown(m, len) ==
  LET walk[n \in 0..len] ==
        IF n = 0 THEN [recs |-> <<>>, off |-> 0]
        ELSE LET w == walk[n - 1]
             IN  IF w.off < len
                 THEN [recs |-> Append(w.recs, ShownRec(m, w.off)), off |-> w.off + RecLen(m, w.off)]
                 ELSE w
  IN  [recs |-> walk[len].recs, ok |-> walk[len].off = len]

(* create_snep_cp: a PUT of the records the operator typed, of which one   *)
(* field may be spoilt.  A message that cannot be built leaves nothing.    *)
(* The header of a record is written without a look at the room; of the    *)
(* room behind a header that exceeds it, len-off makes a very large one.   *)
(* A message that is too long for a PDU for this is undefined.             *)
CreateSnepCp(typed) ==
  LET built == BuildNdefMsg(typed, Room)
  IN  IF built.end # "none" THEN [built EXCEPT !.bytes = <<>>]
      ELSE IF Len(built.bytes) > PduRoom THEN [bytes |-> <<>>, end |-> "overrun"]
      ELSE [built EXCEPT !.bytes = SnepCreateMsg(SNEP_REQ_PUT, Len(@)) \o @]

Spoilt(typed) == [typed EXCEPT ![Len(typed)].payload = <<Other>> \o @]
Puts == [recs \in Meant |-> {CreateSnepCp(Typed(recs)), CreateSnepCp(Spoilt(Typed(recs)))}]

OperatorPutsSnep ==
  \E recs \in Meant :
    /\ meant' = recs
    /\ sent' \in Puts[recs]
    /\ UNCHANGED <<rbuf, rlen, response, stored>>

SnepNext == HostSendsSnep \/ ClearRbuf \/ OperatorPutsSnep

------------------------------------------------------------------------------
(* The text an operator sees for a field: its Base64, but encode_base64    *)
(* leaves out a last character whose bits are all zero, and with it the    *)
(* field's last byte.                                                      *)
TextOf(bytes) ==
  LET chars == RfcChars(bytes)
      kept  == IF chars # <<>> /\ chars[Len(chars)] = 0 THEN Front(chars) ELSE chars
  IN  kept \o Padding(kept)

(* Whatever requests the server turned down or answered since, the console *)
(* shows the message of the PUT it acknowledged last on the link, record   *)
(* for record and not a byte of an earlier, longer one that is still in    *)
(* rbuf.  It looks for the payload of a record before the id, so it shows  *)
(* what is behind the type cut at the wrong place if there is an id.       *)
LastPutShown ==
  LET shown == Shown(rbuf, rlen)
  IN  /\ shown.ok
      /\ Len(shown.recs) = Len(stored)
      /\ \A i \in 1..Len(stored) :
           LET behind == stored[i].id \o stored[i].payload
               plen   == Len(stored[i].payload)
           IN  shown.recs[i] = [tnf     |-> stored[i].tnf,
                                type    |-> TextOf(stored[i].type),
                                id      |-> TextOf(SubSeq(behind, plen + 1, Len(behind))),
                                payload |-> TextOf(SubSeq(behind, 1, plen))]

(* What goes out for a PUT of the operator is the SNEP request for exactly *)
(* the records he meant, laid out as [NDEF] has it, though build_ndef_msg  *)
(* writes headers before it knows lengths and decode_base64 writes a byte  *)
(* before it has all its bits; and the server at the other end, if it is   *)
(* this one, stores it.                                                    *)
BuiltIsMeant ==
  sent.end = "none" /\ meant # <<>> =>
    LET info == NdefBytes(meant)
    IN  /\ sent.bytes = SnepCreateMsg(SNEP_REQ_PUT, Len(info)) \o info
        /\ Answer(sent.bytes[1], sent.bytes[2], sent.bytes[5] * 256 + sent.bytes[6], info)
             = SNEP_RSP_SUCCESS
===============================================================================

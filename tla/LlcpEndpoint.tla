----------------------------- MODULE LlcpEndpoint -----------------------------
(***************************************************************************)
(* One emulated NFC-DEP endpoint: its LLCP data links, its transmit queue, *)
(* the right to transmit and the timeout that uses it, and the SNEP        *)
(* messages the operator puts (src/src/nfc-re.c, llcp.c, llcp-snep.c and   *)
(* the console operations of src/src/cmdline.c).                           *)
(*                                                                         *)
(* The host may send any PDU at any time.  A data link is identified by    *)
(* its remote and local SAP, the indices of nfc_re.llcp_dl, seen as one    *)
(* value.  Of a data link the module keeps the status, V(S), the pending   *)
(* PDUs and the receive buffer; V(R), V(SA), V(RA), MIU and RW are written *)
(* by the code but decide nothing.                                         *)
(***************************************************************************)
EXTENDS Integers, Sequences, SeqImages

CONSTANTS
  Link,     \* the data links
  NoSaps,   \* the link <<LLCP_SAP_LM, LLCP_SAP_LM>> the endpoint starts with
  Served,   \* links whose local SAP has a handler in llcp_sap_cb[]: SNEP's
  Named,    \* links the operator names; he may also leave it to the last one
  Msg,      \* SNEP messages the operator puts, each at most once
  SeqMod,   \* sequence numbers are counted modulo SeqMod: 16
  MaxQueue  \* bound on the transmit queue for console operations

ASSUME LinkAssumption == NoSaps \in Link /\ Served \subseteq Link
                          /\ Named \subseteq Link
ASSUME SeqModAssumption == SeqMod \in Nat \ {0}
ASSUME MaxQueueAssumption == MaxQueue \in Nat

Status == {"DISCONNECTED", "CONNECTING", "CONNECTED"}

SnepRsp == "snep response"
ASSUME MsgAssumption == SnepRsp \notin Msg

Seqno == 0..(SeqMod - 1)

(* The number after n; mutant: it does not wrap around *)
NextSeq_Unbounded(n) == n + 1
NextSeq(n) == (n + 1) % SeqMod

Nothing    == [ptype |-> "none"]
Symm       == [ptype |-> "SYMM"]
Pdu(t, l)  == [ptype |-> t, link |-> l]
I(l, m, n) == [ptype |-> "I", link |-> l, msg |-> m, ns |-> n]

MsgPdus    == {I(l, m, n) : l \in Link, m \in Msg, n \in Seqno}
QueuedPdus == {Pdu("CONNECT", l) : l \in Link} \cup MsgPdus
Responses  == {Pdu(t, l) : t \in {"CC", "DM"}, l \in Link}
              \cup {I(l, SnepRsp, n) : l \in Link, n \in Seqno}
Pdus       == {Symm} \cup QueuedPdus \cup Responses

------------------------------------------------------------------------------
VARIABLES
  status,     \* dl->status
  v_s,        \* dl->v_s
  pending,    \* dl->xmit_q, I PDUs that wait for the link to be connected
  rbuf,       \* dl->rbuf: "empty", or the status the link had on reception
  last,       \* re->last_dsap, re->last_ssap
  xmit_next,  \* re->xmit_next: it is the endpoint's turn
  timeout,    \* re->xmit_timeout is pending
  xmit_q,     \* re->xmit_q
  cleared,    \* nfc_clear_re has set up the links' queues
  out,        \* the PDU the step before handed to the host
  since,      \* number of PDUs handed over since the host's last PDU
  sent,       \* the operator's messages handed to the host
  put,        \* the messages the operator has put
  aborted     \* the handler whose assert() failed

dl   == <<status, v_s, pending, rbuf>>
turn == <<xmit_next, timeout, xmit_q>>
wire == <<out, since, sent>>
vars == <<dl, last, turn, cleared, wire, put, aborted>>

Aborts == {"none", "no handler", "cc", "connect", "snep length", "snep get",
           "no queue"}

(* The statically initialised endpoint: status 0 is DISCONNECTED, and the  *)
(* links' queues are not set up before nfc_clear_re runs                   *)
Init ==
  /\ status = [l \in Link |-> "DISCONNECTED"]
  /\ v_s = [l \in Link |-> 0]
  /\ pending = [l \in Link |-> <<>>]
  /\ rbuf = [l \in Link |-> "empty"]
  /\ last = NoSaps
  /\ xmit_next = FALSE /\ timeout = FALSE /\ xmit_q = <<>>
  /\ cleared = FALSE
  /\ out = Nothing /\ since = 0 /\ sent = {}
  /\ put = {}
  /\ aborted = "none"

Running == aborted = "none"

(* A failed assert(), or a crash, in handler a *)
Abort(a) == aborted' = a /\ UNCHANGED <<dl, last, turn, cleared, wire, put>>

MsgsOf(p) == IF p \in MsgPdus THEN {p.msg} ELSE {}

(* PDU p is handed to the host outside of a response *)
Transmit(p) == out' = p /\ since' = since + 1 /\ sent' = sent \cup MsgsOf(p)

(* Mutants of SendPdu: the timeout, or the turn, outlives the PDU *)
SendPdu_KeepsTimeout(p) ==
  \/ xmit_next /\ Transmit(p) /\ xmit_next' = FALSE /\ UNCHANGED <<timeout, xmit_q>>
  \/ /\ ~xmit_next /\ Len(xmit_q) < MaxQueue
     /\ xmit_q' = Append(xmit_q, p) /\ out' = Nothing
     /\ UNCHANGED <<xmit_next, timeout, since, sent>>
SendPdu_KeepsTurn(p) ==
  \/ xmit_next /\ Transmit(p) /\ timeout' = FALSE /\ UNCHANGED <<xmit_next, xmit_q>>
  \/ /\ ~xmit_next /\ Len(xmit_q) < MaxQueue
     /\ xmit_q' = Append(xmit_q, p) /\ out' = Nothing
     /\ UNCHANGED <<xmit_next, timeout, since, sent>>

(* send_pdu_from_re: transmit p if it is the endpoint's turn, which also   *)
(* cancels the timeout; else queue it                                      *)
SendPdu(p) ==
  \/ /\ xmit_next
     /\ Transmit(p)
     /\ xmit_next' = FALSE /\ timeout' = FALSE
     /\ UNCHANGED xmit_q
  \/ /\ ~xmit_next /\ Len(xmit_q) < MaxQueue
     /\ xmit_q' = Append(xmit_q, p)
     /\ out' = Nothing
     /\ UNCHANGED <<xmit_next, timeout, since, sent>>

(* Mutant of ClearDataLinks: the receive buffer keeps what it holds *)
ClearDataLinks_KeepsBuffer(L) ==
  v_s' = [l \in Link |-> IF l \in L THEN 0 ELSE v_s[l]] /\ UNCHANGED rbuf

(* llcp_clear_data_link and llcp_init_data_link on the links of L *)
ClearDataLinks(L) ==
  /\ v_s' = [l \in Link |-> IF l \in L THEN 0 ELSE v_s[l]]
  /\ rbuf' = [l \in Link |-> IF l \in L THEN "empty" ELSE rbuf[l]]

(* Mutant of InitDataLinks: the queue is kept *)
InitDataLinks_KeepsQueue(L) == ClearDataLinks(L) /\ UNCHANGED pending

InitDataLinks(L) ==
  /\ ClearDataLinks(L)
  /\ pending' = [l \in Link |-> IF l \in L THEN <<>> ELSE pending[l]]

(* Mutant of Received: no timeout is armed *)
Received_ArmsNothing(rsp) ==
  /\ xmit_next' = TRUE /\ out' = rsp
  /\ since' = IF rsp = Nothing THEN 0 ELSE 1
  /\ UNCHANGED <<timeout, sent, cleared, put, aborted>>

(* The end of process_llcp, after a handler that answers with rsp: send    *)
(* permission is implied, and a timeout is armed unless one is pending     *)
Received(rsp) ==
  /\ xmit_next' = TRUE /\ timeout' = TRUE
  /\ out' = rsp
  /\ since' = IF rsp = Nothing THEN 0 ELSE 1
  /\ UNCHANGED <<sent, cleared, put, aborted>>

------------------------------------------------------------------------------
(* PDUs from the host, one action per handler of process_llcp.  PDUs reach *)
(* an endpoint only while it is active, so after nfc_clear_re.             *)

SetStatus(l, s) == status' = [status EXCEPT ![l] = s]

(* The link is given up, by DISC or DM; mutant: it keeps its status *)
Disconnect_KeepsStatus(l) == UNCHANGED status
Disconnect(l) == SetStatus(l, "DISCONNECTED")

(* The pending PDUs of the link move to the endpoint's transmit queue;     *)
(* mutants: they are copied, they are dropped, or they overtake those there *)
MovePending_Copies(l) == xmit_q' = xmit_q \o pending[l] /\ UNCHANGED pending
MovePending_Drops(l)  == pending' = [pending EXCEPT ![l] = <<>>] /\ UNCHANGED xmit_q
MovePending_InFront(l) ==
  xmit_q' = pending[l] \o xmit_q /\ pending' = [pending EXCEPT ![l] = <<>>]
MovePending(l) ==
  /\ xmit_q' = xmit_q \o pending[l]
  /\ pending' = [pending EXCEPT ![l] = <<>>]

RecvSymm ==
  /\ Running /\ cleared
  /\ Received(Nothing)
  /\ UNCHANGED <<dl, last, xmit_q>>

RecvConnect(l) ==
  /\ Running /\ cleared
  /\ InitDataLinks({l}) /\ SetStatus(l, "CONNECTED")
  /\ last' = l
  /\ Received(Pdu("CC", l))
  /\ UNCHANGED xmit_q

RecvDisc(l) ==
  /\ Running /\ cleared
  /\ Disconnect(l)
  /\ last' = l
  /\ Received(Pdu("DM", l))
  /\ UNCHANGED <<v_s, pending, rbuf, xmit_q>>

RecvCc(l) ==
  /\ Running /\ cleared
  /\ \/ /\ status[l] = "CONNECTING"
        /\ ClearDataLinks({l}) /\ SetStatus(l, "CONNECTED")
        /\ MovePending(l)
        /\ last' = l
        /\ Received(Nothing)
     \/ status[l] # "CONNECTING" /\ Abort("cc")

RecvDm(l) ==
  /\ Running /\ cleared
  /\ Disconnect(l)
  /\ last' = l
  /\ Received(Nothing)
  /\ UNCHANGED <<v_s, pending, rbuf, xmit_q>>

(* FRMR, RR and RNR: of what they change only the last SAPs are modelled *)
RecvSupervisory(l) ==
  /\ Running /\ cleared
  /\ last' = l
  /\ Received(Nothing)
  /\ UNCHANGED <<dl, xmit_q>>

(* What an I PDU can carry: a SNEP PUT, a SNEP Success, anything llcp_sap_snep *)
(* answers with an error code, and less than a SNEP header                     *)
Info == {"put", "success", "other", "short"}

(* Only data for a SAP without a handler and a SNEP PUT are kept *)
Keeps(l, info) == l \notin Served \/ info = "put"

(* The response I PDU has number V(S), which stays as it is *)
Answer(l, info) == IF l \in Served /\ info # "success"
                   THEN I(l, SnepRsp, v_s[l]) ELSE Nothing

(* The link need not be connected *)
RecvI(l, info) ==
  /\ Running /\ cleared
  /\ \/ /\ l \in Served => info # "short"
        /\ rbuf' = [rbuf EXCEPT ![l] = IF Keeps(l, info) THEN status[l] ELSE @]
        /\ last' = l
        /\ Received(Answer(l, info))
        /\ UNCHANGED <<status, v_s, pending, xmit_q>>
     \/ l \in Served /\ info = "short" /\ Abort("snep length")

(* assert(process[ptype]): PAX, AGF, UI, SNL and the reserved types *)
RecvUnhandled == Running /\ cleared /\ Abort("no handler")

Recv ==
  \/ RecvSymm \/ RecvUnhandled
  \/ \E l \in Link : \/ RecvConnect(l) \/ RecvDisc(l) \/ RecvCc(l)
                     \/ RecvDm(l) \/ RecvSupervisory(l)
                     \/ \E info \in Info : RecvI(l, info)

------------------------------------------------------------------------------
(* The timeout: xmit_next_cb, create_dta and xmit_pdu_or_symm_from_re.     *)
(* Neither the RF state nor the active endpoint is looked at.              *)
XmitNext ==
  /\ Running /\ timeout
  /\ timeout' = FALSE /\ xmit_next' = FALSE
  /\ \/ xmit_q = <<>> /\ Transmit(Symm) /\ UNCHANGED xmit_q
     \/ xmit_q # <<>> /\ Transmit(Head(xmit_q)) /\ xmit_q' = Tail(xmit_q)
  /\ UNCHANGED <<dl, last, cleared, put, aborted>>

------------------------------------------------------------------------------
(* Console operations.  A link that is not named is the last one used. *)

Target == Named \cup {last}

(* create_connect_dta, at the moment the PDU is sent or queued; mutant:    *)
(* the link's status stays as it is                                        *)
Connect_KeepsStatus(l) == UNCHANGED status /\ SendPdu(Pdu("CONNECT", l))
Connect(l) == SetStatus(l, "CONNECTING") /\ SendPdu(Pdu("CONNECT", l))

(* nfc_llcp_connect_cb; SAP 0 is refused *)
LlcpConnect(l) ==
  /\ Running /\ l # NoSaps
  /\ \/ /\ status[l] = "DISCONNECTED"
        /\ Connect(l)
        /\ UNCHANGED <<v_s, pending, rbuf, last, cleared, put, aborted>>
     \/ status[l] # "DISCONNECTED" /\ Abort("connect")

(* create_i_pdu numbers the message when it is created; mutant: with the   *)
(* number V(S) has afterwards                                              *)
CreateIPdu_After(l, m) == I(l, m, NextSeq(v_s[l]))
CreateIPdu(l, m) == I(l, m, v_s[l])

(* nfc_snep_put_cb and send_snep_over_llcp *)
SnepPut(l, m) ==
  LET p == CreateIPdu(l, m) IN
  /\ Running /\ m \notin put
  /\ \/ /\ status[l] = "DISCONNECTED" /\ cleared
        /\ pending' = [pending EXCEPT ![l] = Append(@, p)]
        /\ Connect(l)
     \/ /\ status[l] = "CONNECTING" /\ cleared
        /\ pending' = [pending EXCEPT ![l] = Append(@, p)]
        /\ out' = Nothing /\ UNCHANGED <<status, turn, since, sent>>
     \/ /\ status[l] = "CONNECTED"
        /\ SendPdu(p)
        /\ UNCHANGED <<status, pending>>
  /\ v_s' = [v_s EXCEPT ![l] = NextSeq(@)]
  /\ put' = put \cup {m}
  /\ UNCHANGED <<rbuf, last, cleared, aborted>>

(* An insertion into a queue that nfc_clear_re has not set up *)
SnepPutUncleared(l) ==
  Running /\ ~cleared /\ status[l] # "CONNECTED" /\ Abort("no queue")

(* "snep put" without records shows what the link received last *)
SnepShow(l) ==
  /\ Running
  /\ \/ /\ status[l] = "CONNECTED" /\ out' = Nothing
        /\ UNCHANGED <<dl, last, turn, cleared, since, sent, put, aborted>>
     \/ status[l] # "CONNECTED" /\ Abort("snep get")

(* nfc_clear_re, when the endpoint is activated; the transmit queue, the   *)
(* turn and the timeout are left as they are                               *)
Clear ==
  /\ Running
  /\ InitDataLinks(Link) /\ status' = [l \in Link |-> "DISCONNECTED"]
  /\ last' = NoSaps /\ cleared' = TRUE
  /\ out' = Nothing
  /\ UNCHANGED <<turn, since, sent, put, aborted>>

Console ==
  \/ Clear
  \/ \E l \in Target : \/ LlcpConnect(l) \/ SnepShow(l) \/ SnepPutUncleared(l)
                       \/ \E m \in Msg : SnepPut(l, m)

Next == Recv \/ XmitNext \/ Console

Spec == Init /\ [][Next]_vars

------------------------------------------------------------------------------
(* Properties *)

(* Every variable has the type of its C declaration, at its use. *)
TypeOK ==
  /\ status \in [Link -> Status]
  /\ v_s \in [Link -> Seqno]
  /\ pending \in [Link -> Seq(MsgPdus)]
  /\ rbuf \in [Link -> Status \cup {"empty"}]
  /\ last \in Link
  /\ xmit_next \in BOOLEAN /\ timeout \in BOOLEAN
  /\ xmit_q \in Seq(QueuedPdus)
  /\ cleared \in BOOLEAN
  /\ out \in Pdus \cup {Nothing} /\ since \in Nat /\ sent \subseteq Msg
  /\ put \subseteq Msg
  /\ aborted \in Aborts

(* The endpoint has the turn exactly while a timeout is pending that will  *)
(* use it: otherwise the link would go silent, or transmit out of turn.    *)
TurnIffTimeout == xmit_next = timeout

(* "on connecting successfully, pending packets will be delivered": no     *)
(* message is stranded in the queue of a link that is connected, where     *)
(* nothing would take it out again.                                        *)
NoneStranded == \A l \in Link : status[l] = "CONNECTED" => pending[l] = <<>>

(* No message is in two places, or twice in one: a message moves from a    *)
(* link's queue to the transmit queue to the host and is handed over at    *)
(* most once, whatever the host answers and how often it reactivates.      *)
AtMostOnce ==
  LET Waits(l, i) == pending[l][i].msg
      InXmitQ(i)  == xmit_q[i] \in MsgPdus
  IN  /\ \A l \in Link, i \in DOMAIN xmit_q : InXmitQ(i) =>
           /\ xmit_q[i].msg \notin sent
           /\ \A j \in DOMAIN pending[l] : Waits(l, j) # xmit_q[i].msg
           /\ \A j \in DOMAIN xmit_q : InXmitQ(j) /\ j # i =>
                xmit_q[j].msg # xmit_q[i].msg
      /\ \A l1, l2 \in Link : \A i \in DOMAIN pending[l1], j \in DOMAIN pending[l2] :
           /\ Waits(l1, i) \notin sent
           /\ Waits(l1, i) = Waits(l2, j) => l1 = l2 /\ i = j

(* The messages that wait on a link bear consecutive numbers that end just *)
(* before V(S), so that they are in sequence with the next message put.    *)
PendingInSequence ==
  \A l \in Link : \A i \in DOMAIN pending[l] :
    (pending[l][i].ns + Len(pending[l]) + 1 - i) % SeqMod = v_s[l]

(* What the console shows of a connected link was received while the link  *)
(* was connected, and not before: I PDUs are taken in any status.          *)
ReceivedWhileConnected ==
  \A l \in Link : status[l] = "CONNECTED" => rbuf[l] \in {"empty", "CONNECTED"}

(* Between two PDUs of the host the endpoint hands over at most two: the   *)
(* response, and one PDU for the turn that is implied, by the operator or  *)
(* by the timeout and never by both.                                       *)
TurnBounded == since <= IF xmit_next THEN 1 ELSE 2

(* No message gets lost: one that waits is handed over, or waits on, or is *)
(* given up with its data link, which the host connects anew or nfc_clear_re *)
(* resets.  From the transmit queue none is given up at all.               *)
MsgsIn(q) == UNION {MsgsOf(q[i]) : i \in DOMAIN q}

NothingLost ==
  [][/\ MsgsIn(xmit_q) \subseteq MsgsIn(xmit_q') \cup sent'
     /\ \A l \in Link :
          \/ MsgsIn(pending[l]) \subseteq
               MsgsIn(pending'[l]) \cup MsgsIn(xmit_q') \cup sent'
          \/ out' = Pdu("CC", l)
          \/ last' = NoSaps /\ status'[l] = "DISCONNECTED"]_vars

(* The turn is always used: the timeout fires even if the host keeps       *)
(* sending, because a pending one is not put off.                          *)
TurnUsed == xmit_next ~> ~xmit_next \/ ~Running

(* The endpoint implements a mailbox: the messages of a link wait in the   *)
(* endpoint's transmit queue and, behind them, in the link's own queue.    *)
(* They leave in the order they were put, at most once, although they move *)
(* between queues and share the transmit queue with CONNECTs and with      *)
(* other links.  The turn makes one message overtake those that wait.      *)
OfLink(l) == {p \in MsgPdus : p.link = l}
OnLink(l) == Images(xmit_q \o pending[l], OfLink(l), [p \in OfLink(l) |-> p.msg])

Box == INSTANCE Mailbox WITH
  box <- [l \in Link |-> OnLink(l)], handed <- sent, accepted <- put

ImplementsMailbox == Box!Spec
===============================================================================

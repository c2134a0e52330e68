-------------------------- MODULE LlcpEndpointProofs --------------------------
(***************************************************************************)
(* Proofs about LlcpEndpoint, for any data links, any messages, any modulus *)
(* of the sequence numbers and any bound on the transmit queue.            *)
(*                                                                         *)
(* TurnBounded is not inductive: the timeout could hand over a PDU that    *)
(* the turn does not cover.  With TurnIffTimeout it is: each PDU that is   *)
(* handed over outside of a response takes the turn away.                  *)
(***************************************************************************)
EXTENDS LlcpEndpoint, SeqImagesProofs

TurnInv == TurnIffTimeout /\ TurnBounded
LinkInv == NoneStranded /\ ReceivedWhileConnected
IInv == TypeOK /\ TurnInv /\ LinkInv

------------------------------------------------------------------------------
(* Lemmas about the operators *)

(* Sequence numbers stay in their range. *)
LEMMA NextSeqType == \A n \in Seqno : NextSeq(n) \in Seqno
  BY SeqModAssumption DEF Seqno, NextSeq

(* Counting starts within the range. *)
LEMMA ZeroSeqno == 0 \in Seqno
  BY SeqModAssumption DEF Seqno

(* I PDUs are what the queues hold. *)
LEMMA MsgPduType ==
  ASSUME NEW l \in Link, NEW m \in Msg, NEW n \in Seqno
  PROVE  I(l, m, n) \in MsgPdus
  BY DEF MsgPdus

(* A PDU holds messages of the operator, if any. *)
LEMMA MsgsOfType == \A p : MsgsOf(p) \subseteq Msg
<1> SUFFICES ASSUME NEW p \in MsgPdus PROVE p.msg \in Msg
  BY DEF MsgsOf
<1> QED
  BY DEF MsgPdus, I

(* send_pdu_from_re keeps the types and uses up the turn with the PDU. *)
LEMMA SendPduInv ==
  ASSUME TypeOK, TurnInv, NEW p \in QueuedPdus, SendPdu(p)
  PROVE  /\ xmit_next' \in BOOLEAN /\ timeout' \in BOOLEAN
         /\ xmit_q' \in Seq(QueuedPdus)
         /\ out' \in Pdus \cup {Nothing} /\ since' \in Nat /\ sent' \subseteq Msg
         /\ TurnInv'
<1>1. CASE xmit_next /\ Transmit(p) /\ xmit_next' = FALSE /\ timeout' = FALSE
           /\ UNCHANGED xmit_q
  <2>1. out' = p /\ since' = since + 1 /\ sent' \subseteq Msg
    BY <1>1, MsgsOfType DEF TypeOK, Transmit
  <2>2. p \in Pdus
    BY DEF Pdus
  <2>3. since \in Nat /\ since <= 1
    BY <1>1 DEF TypeOK, TurnInv, TurnBounded
  <2>4. TurnInv'
    <3>1. TurnIffTimeout'
      BY <1>1, Zenon DEF TurnIffTimeout
    <3>2. TurnBounded'
      BY <1>1, <2>1, <2>3 DEF TurnBounded
    <3> QED
      BY <3>1, <3>2 DEF TurnInv
  <2>5. xmit_next' \in BOOLEAN /\ timeout' \in BOOLEAN
    BY <1>1, Zenon
  <2>6. xmit_q' \in Seq(QueuedPdus)
    BY <1>1, Zenon DEF TypeOK
  <2> QED
    BY <2>1, <2>2, <2>3, <2>4, <2>5, <2>6
<1>2. CASE /\ xmit_q' = Append(xmit_q, p) /\ out' = Nothing
           /\ UNCHANGED <<xmit_next, timeout, since, sent>>
  BY <1>2 DEF TypeOK, TurnInv, TurnIffTimeout, TurnBounded
<1> QED
  BY <1>1, <1>2 DEF SendPdu

(* A PDU from the host gives the endpoint the turn and arms the timeout,   *)
(* whatever it had before.                                                 *)
LEMMA ReceivedInv ==
  ASSUME TypeOK, NEW rsp \in Pdus \cup {Nothing}, Received(rsp)
  PROVE  /\ xmit_next' \in BOOLEAN /\ timeout' \in BOOLEAN
         /\ out' \in Pdus \cup {Nothing} /\ since' \in Nat
         /\ UNCHANGED <<sent, cleared, put, aborted>>
         /\ TurnInv'
  BY DEF TypeOK, Received, TurnInv, TurnIffTimeout, TurnBounded

(* Initialised data links are empty and have no received data. *)
LEMMA InitDataLinksInv ==
  ASSUME TypeOK, NEW L \in SUBSET Link, InitDataLinks(L)
  PROVE  /\ v_s' \in [Link -> Seqno]
         /\ rbuf' \in [Link -> Status \cup {"empty"}]
         /\ pending' \in [Link -> Seq(MsgPdus)]
         /\ \A l \in Link : IF l \in L THEN rbuf'[l] = "empty" /\ pending'[l] = <<>>
                            ELSE rbuf'[l] = rbuf[l] /\ pending'[l] = pending[l]
  BY ZeroSeqno DEF TypeOK, InitDataLinks, ClearDataLinks

------------------------------------------------------------------------------
(* The steps *)

(* The initial states satisfy the invariant. *)
LEMMA InitIInv == Init => IInv
<1> SUFFICES ASSUME Init PROVE IInv
  OBVIOUS
<1>1. /\ status \in [Link -> Status] /\ v_s \in [Link -> Seqno]
      /\ rbuf \in [Link -> Status \cup {"empty"}]
  BY ZeroSeqno DEF Init, Status
<1>2. pending \in [Link -> Seq(MsgPdus)] /\ xmit_q \in Seq(QueuedPdus)
  BY DEF Init
<1>3. TypeOK
  BY <1>1, <1>2, LinkAssumption DEF Init, TypeOK, Aborts
<1>4. TurnInv
  <2>1. TurnIffTimeout
    BY Zenon DEF Init, TurnIffTimeout
  <2>2. TurnBounded
    BY DEF Init, TurnBounded
  <2> QED
    BY <2>1, <2>2 DEF TurnInv
<1>5. LinkInv
  BY DEF Init, LinkInv, NoneStranded, ReceivedWhileConnected
<1> QED
  BY <1>3, <1>4, <1>5 DEF IInv

(* A failed assertion changes nothing else. *)
LEMMA AbortIInv ==
  ASSUME IInv, NEW a \in Aborts, Abort(a) PROVE IInv'
  BY DEF IInv, TypeOK, TurnInv, LinkInv, TurnIffTimeout, TurnBounded,
         NoneStranded, ReceivedWhileConnected, Abort, dl, turn, wire

(* A PDU from the host whose handler changes at most the last SAPs *)
LEMMA QuietRecvIInv ==
  ASSUME IInv, NEW rsp \in Pdus \cup {Nothing}, Received(rsp),
         last' \in Link, UNCHANGED <<dl, xmit_q>>
  PROVE  IInv'
  BY ReceivedInv DEF IInv, TypeOK, LinkInv, NoneStranded,
                     ReceivedWhileConnected, dl

(* A CONNECT finds a link, or makes it, empty and connected. *)
LEMMA RecvConnectIInv ==
  ASSUME IInv, NEW l \in Link, RecvConnect(l) PROVE IInv'
<1>1. Pdu("CC", l) \in Pdus
  BY DEF Pdus, Responses
<1>2. status' = [status EXCEPT ![l] = "CONNECTED"]
  BY DEF RecvConnect, SetStatus
<1>3. /\ v_s' \in [Link -> Seqno]
      /\ rbuf' \in [Link -> Status \cup {"empty"}]
      /\ pending' \in [Link -> Seq(MsgPdus)]
      /\ \A k \in Link : IF k \in {l} THEN rbuf'[k] = "empty" /\ pending'[k] = <<>>
                         ELSE rbuf'[k] = rbuf[k] /\ pending'[k] = pending[k]
  BY InitDataLinksInv DEF RecvConnect, IInv
<1>4. status' \in [Link -> Status]
  BY <1>2 DEF IInv, TypeOK, Status
<1>5. LinkInv'
  BY <1>2, <1>3 DEF IInv, TypeOK, LinkInv, NoneStranded, ReceivedWhileConnected
<1>6. last' = l /\ Received(Pdu("CC", l)) /\ UNCHANGED xmit_q
  BY DEF RecvConnect
<1> QED
  BY <1>1, <1>3, <1>4, <1>5, <1>6, ReceivedInv DEF IInv, TypeOK

(* A link that is given up is not connected. *)
LEMMA RecvDiscDmIInv ==
  ASSUME IInv, NEW l \in Link, RecvDisc(l) \/ RecvDm(l) PROVE IInv'
<1>1. Pdu("DM", l) \in Pdus
  BY DEF Pdus, Responses
<1>2. PICK rsp \in Pdus \cup {Nothing} : Received(rsp)
  BY <1>1 DEF RecvDisc, RecvDm
<1>3. /\ status' = [status EXCEPT ![l] = "DISCONNECTED"]
      /\ last' = l /\ UNCHANGED <<v_s, pending, rbuf, xmit_q>>
  BY DEF RecvDisc, RecvDm, Disconnect, SetStatus
<1> QED
  BY <1>2, <1>3, ReceivedInv DEF IInv, TypeOK, LinkInv, NoneStranded,
                                 ReceivedWhileConnected, Status

(* The CC empties the link's queue into the endpoint's. *)
LEMMA RecvCcIInv ==
  ASSUME IInv, NEW l \in Link, RecvCc(l) PROVE IInv'
<1>1. CASE Abort("cc")
  BY <1>1, AbortIInv DEF Aborts
<1>2. CASE /\ ClearDataLinks({l}) /\ SetStatus(l, "CONNECTED")
           /\ MovePending(l) /\ last' = l /\ Received(Nothing)
  <2>1. /\ v_s' \in [Link -> Seqno]
        /\ rbuf' \in [Link -> Status \cup {"empty"}]
        /\ rbuf'[l] = "empty" /\ \A k \in Link \ {l} : rbuf'[k] = rbuf[k]
    BY <1>2, ZeroSeqno DEF IInv, TypeOK, ClearDataLinks
  <2>2. /\ pending' = [pending EXCEPT ![l] = <<>>]
        /\ xmit_q' = xmit_q \o pending[l]
    BY <1>2 DEF MovePending
  <2>3. pending' \in [Link -> Seq(MsgPdus)]
    BY <2>2 DEF IInv, TypeOK
  <2>4. xmit_q' \in Seq(QueuedPdus)
    <3>1. pending[l] \in Seq(QueuedPdus)
      BY DEF IInv, TypeOK, QueuedPdus
    <3> QED
      BY <2>2, <3>1 DEF IInv, TypeOK
  <2>5. status' = [status EXCEPT ![l] = "CONNECTED"]
    BY <1>2 DEF SetStatus
  <2> QED
    BY <1>2, <2>1, <2>2, <2>3, <2>4, <2>5, ReceivedInv
       DEF IInv, TypeOK, LinkInv, NoneStranded, ReceivedWhileConnected, Status
<1> QED
  BY <1>1, <1>2 DEF RecvCc

(* What is kept of an I PDU is marked with the link's status. *)
LEMMA RecvIIInv ==
  ASSUME IInv, NEW l \in Link, NEW info \in Info, RecvI(l, info) PROVE IInv'
<1>1. CASE Abort("snep length")
  BY <1>1, AbortIInv DEF Aborts
<1>2. CASE /\ rbuf' = [rbuf EXCEPT ![l] = IF Keeps(l, info) THEN status[l] ELSE @]
           /\ last' = l /\ Received(Answer(l, info))
           /\ UNCHANGED <<status, v_s, pending, xmit_q>>
  <2>1. Answer(l, info) \in Pdus \cup {Nothing}
    BY DEF Answer, Pdus, Responses, IInv, TypeOK
  <2>2. rbuf' \in [Link -> Status \cup {"empty"}]
    BY <1>2 DEF IInv, TypeOK
  <2>3. ReceivedWhileConnected'
    BY <1>2 DEF IInv, TypeOK, LinkInv, ReceivedWhileConnected
  <2> QED
    BY <1>2, <2>1, <2>2, <2>3, ReceivedInv
       DEF IInv, TypeOK, LinkInv, NoneStranded
<1> QED
  BY <1>1, <1>2 DEF RecvI

(* The timeout takes the turn with it. *)
LEMMA XmitNextIInv ==
  ASSUME IInv, XmitNext PROVE IInv'
<1>1. PICK p \in Pdus : Transmit(p) /\ xmit_q' \in Seq(QueuedPdus)
  <2>1. CASE xmit_q = <<>> /\ Transmit(Symm) /\ UNCHANGED xmit_q
    BY <2>1 DEF Pdus, IInv, TypeOK
  <2>2. CASE xmit_q # <<>> /\ Transmit(Head(xmit_q)) /\ xmit_q' = Tail(xmit_q)
    <3>1. Head(xmit_q) \in QueuedPdus /\ xmit_q' \in Seq(QueuedPdus)
      BY <2>2 DEF IInv, TypeOK
    <3> QED
      BY <2>2, <3>1 DEF Pdus
  <2> QED
    BY <2>1, <2>2 DEF XmitNext
<1>2. /\ timeout' = FALSE /\ xmit_next' = FALSE
      /\ UNCHANGED <<dl, last, cleared, put, aborted>> /\ timeout
  BY DEF XmitNext
<1>3. /\ out' \in Pdus /\ since' \in Nat /\ sent' \subseteq Msg /\ since' <= 2
  BY <1>1, <1>2, MsgsOfType DEF Transmit, IInv, TypeOK, TurnInv,
                                TurnIffTimeout, TurnBounded
<1> QED
  BY <1>1, <1>2, <1>3
     DEF IInv, TypeOK, TurnInv, LinkInv, TurnIffTimeout, TurnBounded,
         NoneStranded, ReceivedWhileConnected, dl

(* A link that is asked for is not connected yet. *)
LEMMA LlcpConnectIInv ==
  ASSUME IInv, NEW l \in Link, LlcpConnect(l) PROVE IInv'
<1>1. CASE Abort("connect")
  BY <1>1, AbortIInv DEF Aborts
<1>2. CASE Connect(l) /\ UNCHANGED <<v_s, pending, rbuf, last, cleared, put, aborted>>
  <2>1. Pdu("CONNECT", l) \in QueuedPdus
    BY DEF QueuedPdus
  <2>2. SendPdu(Pdu("CONNECT", l)) /\ status' = [status EXCEPT ![l] = "CONNECTING"]
    BY <1>2 DEF Connect, SetStatus
  <2> QED
    BY <1>2, <2>1, <2>2, SendPduInv
       DEF IInv, TypeOK, LinkInv, NoneStranded, ReceivedWhileConnected, Status
<1> QED
  BY <1>1, <1>2 DEF LlcpConnect

(* A message goes to the queue of its link only while the link is not      *)
(* connected.                                                              *)
LEMMA SnepPutIInv ==
  ASSUME IInv, NEW l \in Link, NEW m \in Msg, SnepPut(l, m) PROVE IInv'
<1> DEFINE p == CreateIPdu(l, m)
<1>1. p \in MsgPdus /\ p \in QueuedPdus /\ Pdu("CONNECT", l) \in QueuedPdus
  BY MsgPduType DEF CreateIPdu, QueuedPdus, IInv, TypeOK
<1>2. /\ v_s' = [v_s EXCEPT ![l] = NextSeq(@)]
      /\ put' = put \cup {m}
      /\ UNCHANGED <<rbuf, last, cleared, aborted>>
  BY DEF SnepPut
<1>3. v_s' \in [Link -> Seqno] /\ put' \subseteq Msg
  BY <1>2, NextSeqType DEF IInv, TypeOK
<1> HIDE DEF p
<1>4. CASE /\ status[l] = "DISCONNECTED"
           /\ pending' = [pending EXCEPT ![l] = Append(@, p)]
           /\ Connect(l)
  <2>1. SendPdu(Pdu("CONNECT", l)) /\ status' = [status EXCEPT ![l] = "CONNECTING"]
    BY <1>4 DEF Connect, SetStatus
  <2>2. pending' \in [Link -> Seq(MsgPdus)]
    BY <1>1, <1>4 DEF IInv, TypeOK
  <2> QED
    BY <1>1, <1>2, <1>3, <1>4, <2>1, <2>2, SendPduInv
       DEF IInv, TypeOK, LinkInv, NoneStranded, ReceivedWhileConnected, Status
<1>5. CASE /\ status[l] = "CONNECTING"
           /\ pending' = [pending EXCEPT ![l] = Append(@, p)]
           /\ out' = Nothing /\ UNCHANGED <<status, turn, since, sent>>
  <2>1. pending' \in [Link -> Seq(MsgPdus)]
    BY <1>1, <1>5 DEF IInv, TypeOK
  <2> QED
    BY <1>2, <1>3, <1>5, <2>1
       DEF IInv, TypeOK, TurnInv, TurnIffTimeout, TurnBounded, LinkInv,
           NoneStranded, ReceivedWhileConnected, turn
<1>6. CASE SendPdu(p) /\ UNCHANGED <<status, pending>>
  BY <1>1, <1>2, <1>3, <1>6, SendPduInv
     DEF IInv, TypeOK, LinkInv, NoneStranded, ReceivedWhileConnected
<1> QED
  BY <1>4, <1>5, <1>6 DEF SnepPut, p

(* nfc_clear_re leaves no link connected. *)
LEMMA ClearIInv ==
  ASSUME IInv, Clear PROVE IInv'
<1>1. InitDataLinks(Link) /\ Link \in SUBSET Link
  BY DEF Clear
<1> QED
  BY <1>1, InitDataLinksInv, LinkAssumption
     DEF Clear, IInv, TypeOK, TurnInv, TurnIffTimeout, TurnBounded, LinkInv,
         NoneStranded, ReceivedWhileConnected, Status, turn

(* Every step preserves the invariant. *)
LEMMA NextIInv == IInv /\ [Next]_vars => IInv'
<1> SUFFICES ASSUME IInv, [Next]_vars PROVE IInv'
  OBVIOUS
<1>1. CASE Recv
  <2>1. CASE RecvSymm
    BY <2>1, QuietRecvIInv DEF RecvSymm, IInv, TypeOK
  <2>2. CASE RecvUnhandled
    BY <2>2, AbortIInv DEF RecvUnhandled, Aborts
  <2>3. ASSUME NEW l \in Link, RecvSupervisory(l) PROVE IInv'
    BY <2>3, QuietRecvIInv DEF RecvSupervisory
  <2> QED
    BY <1>1, <2>1, <2>2, <2>3, RecvConnectIInv, RecvDiscDmIInv, RecvCcIInv,
       RecvIIInv DEF Recv
<1>2. CASE XmitNext
  BY <1>2, XmitNextIInv
<1>3. CASE Console
  <2>1. Target \subseteq Link
    BY LinkAssumption DEF Target, IInv, TypeOK
  <2>2. ASSUME NEW l \in Link, SnepShow(l) PROVE IInv'
    <3>1. CASE Abort("snep get")
      BY <3>1, AbortIInv DEF Aborts
    <3>2. CASE out' = Nothing
               /\ UNCHANGED <<dl, last, turn, cleared, since, sent, put, aborted>>
      BY <3>2 DEF IInv, TypeOK, TurnInv, TurnIffTimeout, TurnBounded, LinkInv,
                  NoneStranded, ReceivedWhileConnected, dl, turn
    <3> QED
      BY <2>2, <3>1, <3>2 DEF SnepShow
  <2>3. ASSUME NEW l \in Link, SnepPutUncleared(l) PROVE IInv'
    BY <2>3, AbortIInv DEF SnepPutUncleared, Aborts
  <2> QED
    BY <1>3, <2>1, <2>2, <2>3, ClearIInv, LlcpConnectIInv, SnepPutIInv
       DEF Console
<1>4. CASE UNCHANGED vars
  BY <1>4 DEF vars, dl, turn, wire, IInv, TypeOK, TurnInv, TurnIffTimeout,
              TurnBounded, LinkInv, NoneStranded, ReceivedWhileConnected
<1> QED
  BY <1>1, <1>2, <1>3, <1>4 DEF Next

------------------------------------------------------------------------------
(* Theorems *)

(* The inductive invariant holds of every behaviour of the endpoint. *)
THEOREM EndpointInvariant == Spec => []IInv
  BY InitIInv, NextIInv, PTL DEF Spec

(* Every variable keeps its type; queues hold PDUs of the endpoint only. *)
THEOREM EndpointTypeOK == Spec => []TypeOK
<1>1. IInv => TypeOK
  BY DEF IInv
<1> QED
  BY <1>1, EndpointInvariant, PTL

(* The endpoint has the turn exactly while a timeout is pending that will  *)
(* use it, whatever the host sends and the operator enters.                *)
THEOREM EndpointTurnIffTimeout == Spec => []TurnIffTimeout
<1>1. IInv => TurnIffTimeout
  BY DEF IInv, TurnInv
<1> QED
  BY <1>1, EndpointInvariant, PTL

(* Between two PDUs of the host the endpoint hands over two at most, a     *)
(* response and the PDU of the turn.                                       *)
THEOREM EndpointTurnBounded == Spec => []TurnBounded
<1>1. IInv => TurnBounded
  BY DEF IInv, TurnInv
<1> QED
  BY <1>1, EndpointInvariant, PTL

(* No message is stranded in the queue of a connected link. *)
THEOREM EndpointNoneStranded == Spec => []NoneStranded
<1>1. IInv => NoneStranded
  BY DEF IInv, LinkInv
<1> QED
  BY <1>1, EndpointInvariant, PTL

(* What the console shows of a connected link was received while it was    *)
(* connected.                                                              *)
THEOREM EndpointReceivedWhileConnected == Spec => []ReceivedWhileConnected
<1>1. IInv => ReceivedWhileConnected
  BY DEF IInv, LinkInv
<1> QED
  BY <1>1, EndpointInvariant, PTL

-------------------------------------------------------------------------------
(***************************************************************************)
(* What becomes of the messages of LlcpEndpoint, for any data links, any   *)
(* messages and any modulus: each is in one place, waits under the number  *)
(* that is its turn, and does not get lost.                                *)
(*                                                                         *)
(* The argument is about what a step can do to the queues.  There are five *)
(* ways, whatever PDU or command the step is: QueueSteps.  The invariant   *)
(* adds to AtMostOnce that every message in a queue, and every one handed  *)
(* over, was put: so the message put next is in none of them.              *)
(*                                                                         *)
(* The last part shows that the links are the mailboxes of Mailbox.  Each  *)
(* of the five ways is a step of them, or moves nothing that a link sees.  *)
(***************************************************************************)

(* All messages in the queues, or handed over, were put. *)
Accounted ==
  /\ sent \subseteq put
  /\ \A i \in 1..Len(xmit_q) : xmit_q[i] \in MsgPdus => xmit_q[i].msg \in put
  /\ \A l \in Link : \A i \in 1..Len(pending[l]) : pending[l][i].msg \in put

(* The queue of a link holds PDUs of the link. *)
OnTheirLink ==
  \A l \in Link : \A i \in 1..Len(pending[l]) : pending[l][i].link = l

------------------------------------------------------------------------------
(* What a step can do to the queues *)

(* Link l is connected anew by the host, or reset by nfc_clear_re. *)
GivenUp(l) ==
  \/ out' = Pdu("CC", l)
  \/ last' = NoSaps /\ status'[l] = "DISCONNECTED"

(* At most the queues of links that are given up are emptied. *)
Rest ==
  /\ UNCHANGED <<xmit_q, sent, put>>
  /\ pending' \in [Link -> Seq(MsgPdus)]
  /\ \A l \in Link : \/ pending'[l] = pending[l]
                     \/ pending'[l] = <<>> /\ GivenUp(l)

(* The head of the transmit queue is handed over. *)
HeadLeaves ==
  /\ xmit_q # <<>> /\ xmit_q' = Tail(xmit_q)
  /\ sent' = sent \cup MsgsOf(Head(xmit_q))
  /\ UNCHANGED <<pending, put>>

LinkMoves(l) == MovePending(l) /\ UNCHANGED <<sent, put>>

ConnectQueued(l) ==
  xmit_q' = Append(xmit_q, Pdu("CONNECT", l)) /\ UNCHANGED <<pending, sent, put>>

(* A message is put: behind the queue of its link, behind the transmit     *)
(* queue, or through to the host.                                          *)
Arrives(l, m) ==
  LET p == CreateIPdu(l, m) IN
  /\ m \notin put /\ put' = put \cup {m}
  /\ \/ /\ status[l] # "CONNECTED"
        /\ pending' = [pending EXCEPT ![l] = Append(@, p)]
        /\ xmit_q' \in {xmit_q} \cup {Append(xmit_q, Pdu("CONNECT", l))}
        /\ UNCHANGED sent
     \/ /\ status[l] = "CONNECTED"
        /\ \/ xmit_q' = Append(xmit_q, p) /\ UNCHANGED sent
           \/ UNCHANGED xmit_q /\ sent' = sent \cup {m}
        /\ UNCHANGED pending

(* Only I PDUs hold messages. *)
LEMMA PduKinds ==
  /\ \A t, l : t # "I" => Pdu(t, l) \notin MsgPdus /\ MsgsOf(Pdu(t, l)) = {}
  /\ Symm \notin MsgPdus /\ MsgsOf(Symm) = {}
  /\ \A p \in MsgPdus : MsgsOf(p) = {p.msg} /\ p.msg \in Msg
<1>1. \A p \in MsgPdus : p.ptype = "I" /\ p.msg \in Msg
  BY DEF MsgPdus, I
<1>2. \A t, l : Pdu(t, l).ptype = t
  BY DEF Pdu
<1>3. Symm.ptype = "SYMM"
  BY DEF Symm
<1> QED
  BY <1>1, <1>2, <1>3 DEF MsgsOf

(* send_pdu_from_re hands the PDU over or queues it. *)
LEMMA SendPduQueues ==
  ASSUME NEW p, SendPdu(p)
  PROVE  \/ UNCHANGED xmit_q /\ sent' = sent \cup MsgsOf(p)
         \/ xmit_q' = Append(xmit_q, p) /\ UNCHANGED sent
  BY DEF SendPdu, Transmit

(* A failed assertion moves nothing. *)
LEMMA AbortRests ==
  ASSUME IInv, NEW a, Abort(a) PROVE Rest
  BY DEF Abort, Rest, IInv, TypeOK, dl, turn, wire

(* Links that are set up lose what waits on them, and no other. *)
LEMMA InitDataLinksRests ==
  ASSUME IInv, NEW L \in SUBSET Link, InitDataLinks(L),
         UNCHANGED <<xmit_q, sent, put>>, \A l \in L : GivenUp(l)
  PROVE  Rest
  BY InitDataLinksInv DEF IInv, Rest

(* A PDU of the host moves what waits on a link, or nothing. *)
LEMMA RecvSteps ==
  ASSUME IInv, Recv PROVE Rest \/ \E l \in Link : LinkMoves(l)
<1>1. CASE RecvSymm \/ RecvUnhandled
  BY <1>1, AbortRests DEF RecvSymm, RecvUnhandled, Received, Rest, dl, IInv, TypeOK
<1>2. ASSUME NEW l \in Link, RecvConnect(l) PROVE Rest
  <2>1. /\ InitDataLinks({l}) /\ UNCHANGED <<xmit_q, sent, put>>
        /\ out' = Pdu("CC", l)
    BY <1>2 DEF RecvConnect, Received
  <2> QED
    BY <2>1, InitDataLinksRests DEF GivenUp
<1>3. ASSUME NEW l \in Link, RecvDisc(l) \/ RecvDm(l) \/ RecvSupervisory(l)
      PROVE  Rest
  BY <1>3 DEF RecvDisc, RecvDm, RecvSupervisory, Received, Rest, dl, IInv, TypeOK
<1>4. ASSUME NEW l \in Link, RecvCc(l) PROVE Rest \/ LinkMoves(l)
  BY <1>4, AbortRests DEF RecvCc, Received, LinkMoves
<1>5. ASSUME NEW l \in Link, NEW info \in Info, RecvI(l, info) PROVE Rest
  BY <1>5, AbortRests DEF RecvI, Received, Rest, IInv, TypeOK
<1> QED
  BY <1>1, <1>2, <1>3, <1>4, <1>5 DEF Recv

(* The timeout takes the head of the transmit queue, if there is one. *)
LEMMA XmitNextSteps ==
  ASSUME IInv, XmitNext PROVE Rest \/ HeadLeaves
<1>1. CASE xmit_q = <<>> /\ Transmit(Symm) /\ UNCHANGED xmit_q
  <2>1. UNCHANGED <<sent, put, pending>>
    BY <1>1, PduKinds DEF XmitNext, Transmit, dl
  <2> QED
    BY <1>1, <2>1 DEF Rest, IInv, TypeOK
<1>2. CASE xmit_q # <<>> /\ Transmit(Head(xmit_q)) /\ xmit_q' = Tail(xmit_q)
  BY <1>2 DEF XmitNext, HeadLeaves, Transmit, dl
<1> QED
  BY <1>1, <1>2 DEF XmitNext

(* A command puts a message or a CONNECT, or nothing. *)
LEMMA ConsoleSteps ==
  ASSUME IInv, Console
  PROVE  \/ Rest
         \/ \E l \in Link : ConnectQueued(l) \/ \E m \in Msg : Arrives(l, m)
<1>1. Target \subseteq Link
  BY LinkAssumption DEF Target, IInv, TypeOK
<1>2. CASE Clear
  BY <1>2, InitDataLinksRests DEF Clear, GivenUp, turn
<1>3. ASSUME NEW l \in Link, LlcpConnect(l) PROVE Rest \/ ConnectQueued(l)
  <2>1. CASE Abort("connect")
    BY <2>1, AbortRests
  <2>2. CASE Connect(l) /\ UNCHANGED <<pending, put>>
    <3>1. \/ UNCHANGED xmit_q /\ sent' = sent \cup MsgsOf(Pdu("CONNECT", l))
          \/ xmit_q' = Append(xmit_q, Pdu("CONNECT", l)) /\ UNCHANGED sent
      BY <2>2, SendPduQueues DEF Connect
    <3>2. MsgsOf(Pdu("CONNECT", l)) = {}
      BY PduKinds
    <3> QED
      BY <2>2, <3>1, <3>2 DEF Rest, ConnectQueued, IInv, TypeOK
  <2> QED
    BY <1>3, <2>1, <2>2 DEF LlcpConnect
<1>4. ASSUME NEW l \in Link, SnepShow(l) \/ SnepPutUncleared(l) PROVE Rest
  BY <1>4, AbortRests DEF SnepShow, SnepPutUncleared, Rest, IInv, TypeOK, dl, turn
<1>5. ASSUME NEW l \in Link, NEW m \in Msg, SnepPut(l, m) PROVE Arrives(l, m)
  <2> DEFINE p == CreateIPdu(l, m)
  <2>1. m \notin put /\ put' = put \cup {m}
    BY <1>5 DEF SnepPut
  <2>2. p \in MsgPdus /\ p.msg = m
    BY MsgPduType DEF CreateIPdu, IInv, TypeOK, I
  <2> HIDE DEF p
  <2>3. CASE /\ status[l] = "DISCONNECTED"
             /\ pending' = [pending EXCEPT ![l] = Append(@, p)]
             /\ Connect(l)
    <3>1. \/ UNCHANGED xmit_q /\ sent' = sent \cup MsgsOf(Pdu("CONNECT", l))
          \/ xmit_q' = Append(xmit_q, Pdu("CONNECT", l)) /\ UNCHANGED sent
      BY <2>3, SendPduQueues DEF Connect
    <3>2. MsgsOf(Pdu("CONNECT", l)) = {}
      BY PduKinds
    <3> QED
      BY <2>1, <2>3, <3>1, <3>2 DEF Arrives, p
  <2>4. CASE /\ status[l] = "CONNECTING"
             /\ pending' = [pending EXCEPT ![l] = Append(@, p)]
             /\ UNCHANGED <<turn, sent>>
    BY <2>1, <2>4 DEF Arrives, p, turn
  <2>5. CASE status[l] = "CONNECTED" /\ SendPdu(p) /\ UNCHANGED pending
    <3>1. \/ UNCHANGED xmit_q /\ sent' = sent \cup {m}
          \/ xmit_q' = Append(xmit_q, p) /\ UNCHANGED sent
      BY <2>2, <2>5, SendPduQueues, PduKinds
    <3> QED
      BY <2>1, <2>5, <3>1 DEF Arrives, p
  <2> QED
    BY <1>5, <2>3, <2>4, <2>5 DEF SnepPut, p
<1> QED
  BY <1>1, <1>2, <1>3, <1>4, <1>5 DEF Console

(* The five ways together. *)
LEMMA QueueSteps ==
  ASSUME IInv, [Next]_vars
  PROVE  \/ Rest \/ HeadLeaves
         \/ \E l \in Link : \/ LinkMoves(l) \/ ConnectQueued(l)
                            \/ \E m \in Msg : Arrives(l, m)
<1>1. CASE UNCHANGED vars
  BY <1>1 DEF vars, dl, turn, wire, Rest, IInv, TypeOK
<1> QED
  BY <1>1, RecvSteps, XmitNextSteps, ConsoleSteps DEF Next

------------------------------------------------------------------------------
(* Each message is in one place *)

(* AtMostOnce, place by place *)
WaitsOnce ==
  \A l1, l2 \in Link :
    \A i \in 1..Len(pending[l1]), j \in 1..Len(pending[l2]) :
      /\ pending[l1][i].msg \notin sent
      /\ pending[l1][i].msg = pending[l2][j].msg => l1 = l2 /\ i = j
QueuedOnce ==
  \A i \in 1..Len(xmit_q) : xmit_q[i] \in MsgPdus =>
    /\ xmit_q[i].msg \notin sent
    /\ \A j \in 1..Len(xmit_q) : xmit_q[j] \in MsgPdus /\ j # i =>
         xmit_q[j].msg # xmit_q[i].msg
QueuedOrWaits ==
  \A i \in 1..Len(xmit_q) : xmit_q[i] \in MsgPdus =>
    \A l \in Link : \A j \in 1..Len(pending[l]) : pending[l][j].msg # xmit_q[i].msg

(* AtMostOnce is the conjunction of the places. *)
LEMMA OncePerPlace ==
  ASSUME TypeOK PROVE AtMostOnce <=> WaitsOnce /\ QueuedOnce /\ QueuedOrWaits
<1>1. \A l \in Link : DOMAIN pending[l] = 1..Len(pending[l])
  BY DEF TypeOK
<1>2. DOMAIN xmit_q = 1..Len(xmit_q)
  BY DEF TypeOK
<1>3. AtMostOnce => WaitsOnce
  BY <1>1 DEF AtMostOnce, WaitsOnce
<1>4. AtMostOnce => QueuedOnce
  BY <1>2, LinkAssumption DEF AtMostOnce, QueuedOnce
<1>5. AtMostOnce => QueuedOrWaits
  BY <1>1, <1>2 DEF AtMostOnce, QueuedOrWaits
<1>6. WaitsOnce /\ QueuedOnce /\ QueuedOrWaits => AtMostOnce
  BY <1>1, <1>2 DEF AtMostOnce, WaitsOnce, QueuedOnce, QueuedOrWaits
<1> QED
  BY <1>3, <1>4, <1>5, <1>6

(* The invariant in terms of the queues' elements *)
Placed == WaitsOnce /\ QueuedOnce /\ QueuedOrWaits /\ Accounted /\ OnTheirLink

(* What is not moved stays in one place. *)
LEMMA RestPlaced ==
  ASSUME Placed, Rest PROVE Placed'
<1>1. ASSUME NEW l \in Link, NEW i \in 1..Len(pending'[l])
      PROVE  pending'[l] = pending[l] /\ i \in 1..Len(pending[l])
  BY DEF Rest
<1>2. UNCHANGED <<xmit_q, sent, put>>
  BY DEF Rest
<1>3. WaitsOnce'
  BY <1>1, <1>2 DEF Placed, WaitsOnce
<1>4. QueuedOnce' /\ QueuedOrWaits'
  BY <1>1, <1>2 DEF Placed, QueuedOnce, QueuedOrWaits
<1>5. Accounted' /\ OnTheirLink'
  BY <1>1, <1>2 DEF Placed, Accounted, OnTheirLink
<1> QED
  BY <1>3, <1>4, <1>5 DEF Placed

(* What is handed over leaves the queue. *)
LEMMA HeadLeavesPlaced ==
  ASSUME TypeOK, Placed, HeadLeaves PROVE Placed'
<1>1. /\ Len(xmit_q) \in Nat /\ Len(xmit_q) >= 1
      /\ Len(xmit_q') = Len(xmit_q) - 1
      /\ \A i \in 1..Len(xmit_q') : xmit_q'[i] = xmit_q[i + 1] /\ i + 1 \in 2..Len(xmit_q)
      /\ Head(xmit_q) = xmit_q[1]
  BY DEF TypeOK, HeadLeaves
<1>2. sent' = sent \cup MsgsOf(xmit_q[1])
  BY <1>1 DEF HeadLeaves
<1>3. \/ xmit_q[1] \in MsgPdus /\ sent' = sent \cup {xmit_q[1].msg}
      \/ sent' = sent
  BY <1>2, PduKinds DEF MsgsOf
<1>4. UNCHANGED <<pending, put>>
  BY DEF HeadLeaves
<1>5. ASSUME NEW i \in 1..Len(xmit_q')
      PROVE  /\ xmit_q'[i] = xmit_q[i + 1] /\ i + 1 \in 1..Len(xmit_q) /\ i + 1 # 1
             /\ \A j \in 1..Len(xmit_q') : j # i => i + 1 # j + 1
  BY <1>1
<1>6. WaitsOnce'
  BY <1>1, <1>3, <1>4 DEF Placed, WaitsOnce, QueuedOrWaits
<1>7. QueuedOnce'
  <2>1. ASSUME NEW i \in 1..Len(xmit_q'), xmit_q'[i] \in MsgPdus
        PROVE  xmit_q'[i].msg \notin sent'
    BY <1>1, <1>3, <1>5, <2>1 DEF Placed, QueuedOnce
  <2>2. ASSUME NEW i \in 1..Len(xmit_q'), NEW j \in 1..Len(xmit_q'), j # i,
               xmit_q'[i] \in MsgPdus, xmit_q'[j] \in MsgPdus
        PROVE  xmit_q'[j].msg # xmit_q'[i].msg
    BY <1>5, <2>2 DEF Placed, QueuedOnce
  <2> QED
    BY <2>1, <2>2 DEF QueuedOnce
<1>8. QueuedOrWaits'
  BY <1>4, <1>5 DEF Placed, QueuedOrWaits
<1>9. Accounted' /\ OnTheirLink'
  BY <1>1, <1>3, <1>4, <1>5 DEF Placed, Accounted, OnTheirLink
<1> QED
  BY <1>6, <1>7, <1>8, <1>9 DEF Placed

(* What moves from queue to queue leaves the one for the other. *)
LEMMA LinkMovesPlaced ==
  ASSUME TypeOK, Placed, NEW l \in Link, LinkMoves(l) PROVE Placed'
<1> DEFINE n == Len(xmit_q)
           k == Len(pending[l])
<1>1. /\ n \in Nat /\ k \in Nat /\ Len(xmit_q') = n + k
      /\ \A i \in 1..n : xmit_q'[i] = xmit_q[i]
      /\ \A i \in (n + 1)..(n + k) : /\ xmit_q'[i] = pending[l][i - n]
                                     /\ i - n \in 1..k
  <2>1. pending[l] \in Seq(MsgPdus \cup QueuedPdus) /\ xmit_q \in Seq(MsgPdus \cup QueuedPdus)
    BY DEF TypeOK
  <2> QED
    BY <2>1, ConcatProperties DEF LinkMoves, MovePending
<1>2. /\ Len(pending'[l]) = 0
      /\ \A j \in Link \ {l} : pending'[j] = pending[j]
  BY DEF LinkMoves, MovePending, TypeOK
<1>3. UNCHANGED <<sent, put>>
  BY DEF LinkMoves
<1>4. ASSUME NEW i \in 1..Len(xmit_q')
      PROVE  \/ i \in 1..n /\ xmit_q'[i] = xmit_q[i]
             \/ i - n \in 1..k /\ xmit_q'[i] = pending[l][i - n] /\ i \notin 1..n
  BY <1>1
<1>5. ASSUME NEW j \in Link, NEW i \in 1..Len(pending'[j])
      PROVE  j # l /\ pending'[j] = pending[j] /\ i \in 1..Len(pending[j])
  BY <1>2
<1> HIDE DEF n, k
<1>6. WaitsOnce'
  BY <1>3, <1>5 DEF Placed, WaitsOnce
<1>7. OnTheirLink'
  BY <1>5 DEF Placed, OnTheirLink
<1>8. Accounted'
  BY <1>3, <1>4, <1>5 DEF Placed, Accounted, n, k
<1>9. QueuedOnce'
  <2>1. ASSUME NEW i \in 1..Len(xmit_q'), xmit_q'[i] \in MsgPdus
        PROVE  xmit_q'[i].msg \notin sent'
    BY <1>3, <1>4, <2>1 DEF Placed, QueuedOnce, WaitsOnce, n, k
  <2>2. ASSUME NEW i \in 1..Len(xmit_q'), NEW j \in 1..Len(xmit_q'), j # i,
               xmit_q'[i] \in MsgPdus, xmit_q'[j] \in MsgPdus
        PROVE  xmit_q'[j].msg # xmit_q'[i].msg
    <3>1. i - n = j - n => i = j
      BY <1>1
    <3>2. CASE i \in 1..n /\ xmit_q'[i] = xmit_q[i]
      BY <1>4, <2>2, <3>2 DEF Placed, QueuedOnce, QueuedOrWaits, n, k
    <3>3. CASE i - n \in 1..k /\ xmit_q'[i] = pending[l][i - n]
      <4>1. CASE j \in 1..n /\ xmit_q'[j] = xmit_q[j]
        BY <2>2, <3>3, <4>1 DEF Placed, QueuedOrWaits, n, k
      <4>2. CASE j - n \in 1..k /\ xmit_q'[j] = pending[l][j - n]
        <5> DEFINE a == i - n
                   b == j - n
        <5>1. a \in 1..Len(pending[l]) /\ b \in 1..Len(pending[l]) /\ a # b
          BY <2>2, <3>1, <3>3, <4>2 DEF k
        <5> HIDE DEF a, b
        <5>2. pending[l][b].msg # pending[l][a].msg
          BY <5>1 DEF Placed, WaitsOnce
        <5> QED
          BY <3>3, <4>2, <5>2 DEF a, b
      <4> QED
        BY <1>4, <4>1, <4>2
    <3> QED
      BY <1>4, <3>2, <3>3
  <2> QED
    BY <2>1, <2>2 DEF QueuedOnce
<1>10. QueuedOrWaits'
  <2>1. ASSUME NEW i \in 1..Len(xmit_q'), xmit_q'[i] \in MsgPdus,
               NEW j \in Link, NEW h \in 1..Len(pending'[j])
        PROVE  pending'[j][h].msg # xmit_q'[i].msg
    <3>1. j # l /\ pending'[j] = pending[j] /\ h \in 1..Len(pending[j])
      BY <1>5
    <3>2. CASE i \in 1..n /\ xmit_q'[i] = xmit_q[i]
      BY <2>1, <3>1, <3>2 DEF Placed, QueuedOrWaits, n
    <3>3. CASE i - n \in 1..k /\ xmit_q'[i] = pending[l][i - n]
      BY <3>1, <3>3 DEF Placed, WaitsOnce, k
    <3> QED
      BY <1>4, <3>2, <3>3
  <2> QED
    BY <2>1 DEF QueuedOrWaits
<1> QED
  BY <1>6, <1>7, <1>8, <1>9, <1>10 DEF Placed

(* Of a queue with a PDU more at its end *)
LEMMA Appended ==
  ASSUME NEW S, NEW q \in Seq(S), NEW p \in S
  PROVE  /\ Len(q) \in Nat /\ Len(Append(q, p)) = Len(q) + 1
         /\ \A i \in 1..Len(q) : Append(q, p)[i] = q[i]
         /\ Append(q, p)[Len(q) + 1] = p
         /\ \A i \in 1..Len(Append(q, p)) : i \in 1..Len(q) \/ i = Len(q) + 1
  OBVIOUS

(* A CONNECT is no message. *)
LEMMA ConnectQueuedPlaced ==
  ASSUME TypeOK, Placed, NEW l \in Link, xmit_q' = Append(xmit_q, Pdu("CONNECT", l)),
         UNCHANGED <<pending, sent, put>>
  PROVE  Placed'
<1>1. Pdu("CONNECT", l) \in QueuedPdus /\ Pdu("CONNECT", l) \notin MsgPdus
  BY PduKinds DEF QueuedPdus
<1>2. /\ Len(xmit_q) \in Nat /\ Len(xmit_q') = Len(xmit_q) + 1
      /\ \A i \in 1..Len(xmit_q) : xmit_q'[i] = xmit_q[i]
      /\ xmit_q'[Len(xmit_q) + 1] \notin MsgPdus
      /\ \A i \in 1..Len(xmit_q') : i \in 1..Len(xmit_q) \/ i = Len(xmit_q) + 1
  BY <1>1, Appended DEF TypeOK
<1> QED
  BY <1>2 DEF Placed, WaitsOnce, QueuedOnce, QueuedOrWaits, Accounted, OnTheirLink

(* A new message is in no queue and was not handed over. *)
LEMMA ArrivesPlaced ==
  ASSUME TypeOK, Placed, NEW l \in Link, NEW m \in Msg, Arrives(l, m)
  PROVE  Placed'
<1> DEFINE p == CreateIPdu(l, m)
<1>1. p \in MsgPdus /\ p \in QueuedPdus /\ p.msg = m /\ p.link = l
  BY MsgPduType DEF CreateIPdu, TypeOK, I, QueuedPdus
<1>2. m \notin put /\ put' = put \cup {m}
  BY DEF Arrives
<1>3. /\ m \notin sent
      /\ \A i \in 1..Len(xmit_q) : xmit_q[i] \in MsgPdus => xmit_q[i].msg # m
      /\ \A k \in Link : \A i \in 1..Len(pending[k]) : pending[k][i].msg # m
  BY <1>2 DEF Placed, Accounted
<1> HIDE DEF p
<1>4. CASE /\ pending' = [pending EXCEPT ![l] = Append(@, p)]
           /\ xmit_q' \in {xmit_q} \cup {Append(xmit_q, Pdu("CONNECT", l))}
           /\ UNCHANGED sent
  <2> DEFINE n == Len(pending[l])
  <2>1. /\ n \in Nat /\ Len(pending'[l]) = n + 1
        /\ \A i \in 1..n : pending'[l][i] = pending[l][i]
        /\ pending'[l][n + 1] = p
        /\ \A k \in Link \ {l} : pending'[k] = pending[k]
    BY <1>1, <1>4, Appended DEF TypeOK
  <2>2. ASSUME NEW k \in Link, NEW i \in 1..Len(pending'[k])
        PROVE  \/ i \in 1..Len(pending[k]) /\ pending'[k][i] = pending[k][i]
               \/ k = l /\ i = n + 1 /\ i \notin 1..Len(pending[k]) /\ pending'[k][i] = p
    BY <2>1
  <2>3. Pdu("CONNECT", l) \in QueuedPdus /\ Pdu("CONNECT", l) \notin MsgPdus
    BY PduKinds DEF QueuedPdus
  <2>4. ASSUME NEW i \in 1..Len(xmit_q'), xmit_q'[i] \in MsgPdus
        PROVE  i \in 1..Len(xmit_q) /\ xmit_q'[i] = xmit_q[i]
    <3>1. CASE xmit_q' = xmit_q
      BY <2>4, <3>1
    <3>2. CASE xmit_q' = Append(xmit_q, Pdu("CONNECT", l))
      <4>1. xmit_q \in Seq(QueuedPdus)
        BY DEF TypeOK
      <4> QED
        BY <2>3, <2>4, <3>2, <4>1, Appended
    <3> QED
      BY <1>4, <3>1, <3>2
  <2> HIDE DEF n
  <2>5. WaitsOnce'
    <3>1. ASSUME NEW k \in Link, NEW i \in 1..Len(pending'[k])
          PROVE  pending'[k][i].msg \notin sent'
      BY <1>1, <1>3, <1>4, <2>2 DEF Placed, WaitsOnce
    <3>2. ASSUME NEW k1 \in Link, NEW k2 \in Link,
                 NEW i \in 1..Len(pending'[k1]), NEW j \in 1..Len(pending'[k2]),
                 pending'[k1][i].msg = pending'[k2][j].msg
          PROVE  k1 = k2 /\ i = j
      <4>1. CASE i \in 1..Len(pending[k1]) /\ pending'[k1][i] = pending[k1][i]
        <5>1. CASE j \in 1..Len(pending[k2]) /\ pending'[k2][j] = pending[k2][j]
          BY <3>2, <4>1, <5>1 DEF Placed, WaitsOnce
        <5>2. CASE pending'[k2][j] = p
          BY <1>1, <1>3, <3>2, <4>1, <5>2
        <5> QED
          BY <2>2, <5>1, <5>2
      <4>2. CASE k1 = l /\ i = n + 1 /\ pending'[k1][i] = p
        BY <1>1, <1>3, <2>2, <3>2, <4>2
      <4> QED
        BY <2>2, <4>1, <4>2
    <3> QED
      BY <3>1, <3>2 DEF WaitsOnce
  <2>6. QueuedOnce'
    BY <1>4, <2>4 DEF Placed, QueuedOnce
  <2>7. QueuedOrWaits'
    <3>1. ASSUME NEW i \in 1..Len(xmit_q'), xmit_q'[i] \in MsgPdus,
                 NEW k \in Link, NEW j \in 1..Len(pending'[k])
          PROVE  pending'[k][j].msg # xmit_q'[i].msg
      <4>1. i \in 1..Len(xmit_q) /\ xmit_q[i] \in MsgPdus /\ xmit_q'[i] = xmit_q[i]
        BY <2>4, <3>1
      <4> QED
        <5>1. CASE j \in 1..Len(pending[k]) /\ pending'[k][j] = pending[k][j]
          BY <4>1, <5>1 DEF Placed, QueuedOrWaits
        <5>2. CASE pending'[k][j] = p
          BY <1>1, <1>3, <4>1, <5>2
        <5> QED
          BY <2>2, <5>1, <5>2
    <3> QED
      BY <3>1 DEF QueuedOrWaits
  <2>8. Accounted' /\ OnTheirLink'
    BY <1>1, <1>2, <1>4, <2>2, <2>4 DEF Placed, Accounted, OnTheirLink
  <2> QED
    BY <2>5, <2>6, <2>7, <2>8 DEF Placed
<1>5. CASE xmit_q' = Append(xmit_q, p) /\ UNCHANGED <<sent, pending>>
  <2> DEFINE n == Len(xmit_q)
  <2>1. ASSUME NEW i \in 1..Len(xmit_q')
        PROVE  \/ i \in 1..n /\ xmit_q'[i] = xmit_q[i]
               \/ i = n + 1 /\ i \notin 1..n /\ xmit_q'[i] = p
    BY <1>1, <1>5, Appended DEF TypeOK
  <2> HIDE DEF n
  <2>2. WaitsOnce'
    BY <1>5 DEF Placed, WaitsOnce
  <2>3. QueuedOnce'
    <3>1. ASSUME NEW i \in 1..Len(xmit_q'), xmit_q'[i] \in MsgPdus
          PROVE  xmit_q'[i].msg \notin sent'
      BY <1>1, <1>3, <1>5, <2>1, <3>1 DEF Placed, QueuedOnce, n
    <3>2. ASSUME NEW i \in 1..Len(xmit_q'), NEW j \in 1..Len(xmit_q'), j # i,
                 xmit_q'[i] \in MsgPdus, xmit_q'[j] \in MsgPdus
          PROVE  xmit_q'[j].msg # xmit_q'[i].msg
      BY <1>1, <1>3, <2>1, <3>2 DEF Placed, QueuedOnce, n
    <3> QED
      BY <3>1, <3>2 DEF QueuedOnce
  <2>4. QueuedOrWaits'
    BY <1>1, <1>3, <1>5, <2>1 DEF Placed, QueuedOrWaits, n
  <2>5. Accounted' /\ OnTheirLink'
    BY <1>1, <1>2, <1>5, <2>1 DEF Placed, Accounted, OnTheirLink, n
  <2> QED
    BY <2>2, <2>3, <2>4, <2>5 DEF Placed
<1>6. CASE UNCHANGED <<xmit_q, pending>> /\ sent' = sent \cup {m}
  BY <1>2, <1>3, <1>6
     DEF Placed, WaitsOnce, QueuedOnce, QueuedOrWaits, Accounted, OnTheirLink
<1> QED
  BY <1>4, <1>5, <1>6 DEF Arrives, p

(* Every step preserves the invariant. *)
LEMMA NextPlaced ==
  ASSUME IInv, Placed, [Next]_vars PROVE Placed'
<1>1. TypeOK
  BY DEF IInv
<1> QED
  BY <1>1, QueueSteps, RestPlaced, HeadLeavesPlaced, LinkMovesPlaced,
     ConnectQueuedPlaced, ArrivesPlaced DEF ConnectQueued

(* No message is in two places, or twice in one: it is handed over at most *)
(* once, whatever the host answers and however often it reactivates.       *)
THEOREM EndpointAtMostOnce == Spec => []AtMostOnce
<1>1. Init => Placed
  BY DEF Init, Placed, WaitsOnce, QueuedOnce, QueuedOrWaits, Accounted, OnTheirLink
<1>2. IInv /\ Placed => AtMostOnce
  BY OncePerPlace DEF IInv, Placed
<1> QED
  BY <1>1, <1>2, NextPlaced, EndpointInvariant, PTL DEF Spec

------------------------------------------------------------------------------
(* No message gets lost *)

(* The messages of a queue, element by element. *)
LEMMA MsgsInElements ==
  ASSUME NEW S, NEW q \in Seq(S), NEW m
  PROVE  m \in MsgsIn(q) <=> \E i \in 1..Len(q) : q[i] \in MsgPdus /\ m = q[i].msg
<1>1. DOMAIN q = 1..Len(q)
  OBVIOUS
<1> QED
  BY <1>1 DEF MsgsIn, MsgsOf

(* Those of a queue with a PDU more. *)
LEMMA AppendMsgs ==
  ASSUME NEW S, NEW q \in Seq(S), NEW p \in S
  PROVE  MsgsIn(Append(q, p)) = MsgsIn(q) \cup MsgsOf(p)
<1> DEFINE r == Append(q, p)
<1>1. /\ r \in Seq(S) /\ Len(q) \in Nat
      /\ \A i \in 1..Len(q) : i \in 1..Len(r) /\ r[i] = q[i]
      /\ Len(q) + 1 \in 1..Len(r) /\ r[Len(q) + 1] = p
      /\ \A i \in 1..Len(r) : i \in 1..Len(q) \/ i = Len(q) + 1
  BY Appended
<1> HIDE DEF r
<1>2. ASSUME NEW m PROVE m \in MsgsIn(r) <=> m \in MsgsIn(q) \/ m \in MsgsOf(p)
  BY <1>1, MsgsInElements DEF MsgsOf
<1> QED
  BY <1>2 DEF r

(* Those of a queue with a PDU less. *)
LEMMA TailMsgs ==
  ASSUME NEW S, NEW q \in Seq(S), q # <<>>
  PROVE  MsgsIn(q) = MsgsOf(Head(q)) \cup MsgsIn(Tail(q))
<1> DEFINE r == Tail(q)
<1>1. /\ r \in Seq(S) /\ Len(q) \in Nat /\ 1 \in 1..Len(q) /\ Head(q) = q[1]
      /\ \A i \in 1..Len(r) : i + 1 \in 1..Len(q) /\ r[i] = q[i + 1]
      /\ \A i \in 1..Len(q) : i # 1 => i - 1 \in 1..Len(r) /\ q[i] = r[i - 1]
  BY HeadTailProperties
<1> HIDE DEF r
<1>2. ASSUME NEW m PROVE m \in MsgsIn(q) <=> m \in MsgsOf(q[1]) \/ m \in MsgsIn(r)
  <2>1. ASSUME m \in MsgsIn(q) PROVE m \in MsgsOf(q[1]) \/ m \in MsgsIn(r)
    <3>1. PICK i \in 1..Len(q) : q[i] \in MsgPdus /\ m = q[i].msg
      BY <2>1, MsgsInElements
    <3>2. CASE i = 1
      BY <3>1, <3>2 DEF MsgsOf
    <3>3. CASE i # 1
      <4> DEFINE j == i - 1
      <4>1. j \in 1..Len(r) /\ q[i] = r[j]
        BY <1>1, <3>3
      <4> HIDE DEF j
      <4> QED
        BY <1>1, <3>1, <4>1, MsgsInElements
    <3> QED
      BY <3>2, <3>3
  <2>2. m \in MsgsOf(q[1]) => m \in MsgsIn(q)
    BY <1>1, MsgsInElements DEF MsgsOf
  <2>3. m \in MsgsIn(r) => m \in MsgsIn(q)
    BY <1>1, MsgsInElements
  <2> QED
    BY <2>1, <2>2, <2>3
<1> QED
  BY <1>1, <1>2 DEF r

(* Those of two queues. *)
LEMMA ConcatMsgs ==
  ASSUME NEW S, NEW q \in Seq(S), NEW r \in Seq(S)
  PROVE  MsgsIn(q \o r) = MsgsIn(q) \cup MsgsIn(r)
<1> DEFINE s == q \o r
<1>1. /\ s \in Seq(S) /\ Len(q) \in Nat /\ Len(r) \in Nat
      /\ \A i \in 1..Len(q) : i \in 1..Len(s) /\ s[i] = q[i]
      /\ \A i \in 1..Len(r) : i + Len(q) \in 1..Len(s) /\ s[i + Len(q)] = r[i]
      /\ \A i \in 1..Len(s) : i \in 1..Len(q) \/ i - Len(q) \in 1..Len(r)
      /\ \A i \in 1..Len(s) : i \notin 1..Len(q) => s[i] = r[i - Len(q)]
  BY ConcatProperties
<1> HIDE DEF s
<1>2. ASSUME NEW m PROVE m \in MsgsIn(s) <=> m \in MsgsIn(q) \/ m \in MsgsIn(r)
  <2>1. m \in MsgsIn(q) => m \in MsgsIn(s)
    BY <1>1, MsgsInElements
  <2>2. m \in MsgsIn(r) => m \in MsgsIn(s)
    BY <1>1, MsgsInElements
  <2>3. m \in MsgsIn(s) => m \in MsgsIn(q) \/ m \in MsgsIn(r)
    BY <1>1, MsgsInElements
  <2> QED
    BY <2>1, <2>2, <2>3
<1> QED
  BY <1>2 DEF s

(* A message in a queue moves on, is handed over, or is given up with its  *)
(* data link, which the host connects anew or nfc_clear_re resets; none is *)
(* given up in the transmit queue.                                         *)
THEOREM EndpointNothingLost == Spec => NothingLost
<1> DEFINE A == /\ MsgsIn(xmit_q) \subseteq MsgsIn(xmit_q') \cup sent'
                /\ \A l \in Link :
                     \/ MsgsIn(pending[l]) \subseteq
                          MsgsIn(pending'[l]) \cup MsgsIn(xmit_q') \cup sent'
                     \/ out' = Pdu("CC", l)
                     \/ last' = NoSaps /\ status'[l] = "DISCONNECTED"
<1>1. ASSUME IInv, [Next]_vars PROVE A
  <2>1. xmit_q \in Seq(QueuedPdus) /\ \A l \in Link : pending[l] \in Seq(QueuedPdus)
    BY <1>1 DEF IInv, TypeOK, QueuedPdus
  <2>2. CASE Rest
    BY <2>2 DEF Rest, GivenUp
  <2>3. CASE HeadLeaves
    BY <2>1, <2>3, TailMsgs DEF HeadLeaves
  <2>4. ASSUME NEW l \in Link, LinkMoves(l) PROVE A
    <3>1. MsgsIn(xmit_q') = MsgsIn(xmit_q) \cup MsgsIn(pending[l])
      BY <2>1, <2>4, ConcatMsgs DEF LinkMoves, MovePending
    <3>2. \A k \in Link \ {l} : pending'[k] = pending[k]
      BY <1>1, <2>4 DEF LinkMoves, MovePending, IInv, TypeOK
    <3> QED
      BY <3>1, <3>2
  <2>5. ASSUME NEW l \in Link, NEW m \in Msg, Arrives(l, m) PROVE A
    <3> DEFINE p == CreateIPdu(l, m)
    <3>1. p \in QueuedPdus /\ Pdu("CONNECT", l) \in QueuedPdus
      BY <1>1, MsgPduType DEF QueuedPdus, CreateIPdu, IInv, TypeOK
    <3> HIDE DEF p
    <3>2. MsgsIn(xmit_q) \subseteq MsgsIn(xmit_q')
      BY <2>1, <2>5, <3>1, AppendMsgs DEF Arrives, p
    <3>3. \A k \in Link : MsgsIn(pending[k]) \subseteq MsgsIn(pending'[k])
      <4>1. CASE UNCHANGED pending
        BY <4>1
      <4>2. CASE pending' = [pending EXCEPT ![l] = Append(@, p)]
        <5>1. /\ pending'[l] = Append(pending[l], p)
              /\ \A k \in Link \ {l} : pending'[k] = pending[k]
          BY <1>1, <4>2 DEF IInv, TypeOK
        <5>2. MsgsIn(Append(pending[l], p)) = MsgsIn(pending[l]) \cup MsgsOf(p)
          BY <2>1, <3>1, AppendMsgs
        <5>3. ASSUME NEW k \in Link
              PROVE  MsgsIn(pending[k]) \subseteq MsgsIn(pending'[k])
          <6>1. CASE k = l
            BY <5>1, <5>2, <6>1
          <6>2. CASE k # l
            BY <5>1, <6>2
          <6> QED
            BY <6>1, <6>2
        <5> QED
          BY <5>3
      <4> QED
        BY <2>5, <4>1, <4>2 DEF Arrives, p
    <3> QED
      BY <3>2, <3>3
  <2>6. ASSUME NEW l \in Link, ConnectQueued(l) PROVE A
    <3>1. Pdu("CONNECT", l) \in QueuedPdus
      BY DEF QueuedPdus
    <3> QED
      BY <2>1, <2>6, <3>1, AppendMsgs DEF ConnectQueued
  <2> QED
    BY <1>1, <2>2, <2>3, <2>4, <2>5, <2>6, QueueSteps
<1> QED
  BY <1>1, EndpointInvariant, PTL DEF Spec, NothingLost

------------------------------------------------------------------------------
(* Messages wait in sequence *)

(* The number after n, modulo M *)
LEMMA ModNext ==
  ASSUME NEW M \in Nat \ {0}, NEW n \in Int
  PROVE  (n + 1) % M = ((n % M) + 1) % M
<1> DEFINE q == n \div M
           r == n % M
<1>1. n = M * q + r /\ q \in Int /\ r \in 0..(M - 1)
  OBVIOUS
<1> HIDE DEF q, r
<1>2. CASE r + 1 < M
  <2>1. (q * M + (r + 1)) % M = r + 1 /\ (0 * M + (r + 1)) % M = r + 1
    BY <1>1, <1>2
  <2> QED
    BY <1>1, <2>1 DEF r
<1>3. CASE r + 1 = M
  <2>1. ((q + 1) * M + 0) % M = 0 /\ (1 * M + 0) % M = 0
    BY <1>1
  <2>2. n + 1 = (q + 1) * M + 0 /\ r + 1 = 1 * M + 0
    BY <1>1, <1>3
  <2> QED
    BY <2>1, <2>2 DEF r
<1> QED
  BY <1>1, <1>2, <1>3

(* On each link a step starts over, does nothing, or puts one message with *)
(* the number V(S) has.                                                    *)
NumberStep(l) ==
  \/ pending'[l] = <<>>
  \/ pending'[l] = pending[l] /\ v_s'[l] = v_s[l]
  \/ \E m \in Msg : /\ pending'[l] = Append(pending[l], CreateIPdu(l, m))
                    /\ v_s'[l] = NextSeq(v_s[l])

(* What a step does to V(S) and to what waits under its numbers. *)
LEMMA NumberSteps ==
  ASSUME IInv, [Next]_vars PROVE \A l \in Link : NumberStep(l)
<1>1. CASE UNCHANGED <<v_s, pending>>
  BY <1>1 DEF NumberStep
<1>2. ASSUME NEW L \in SUBSET Link, InitDataLinks(L)
      PROVE  \A l \in Link : NumberStep(l)
  BY <1>2 DEF InitDataLinks, ClearDataLinks, NumberStep, IInv, TypeOK
<1>3. ASSUME NEW a, Abort(a) PROVE UNCHANGED <<v_s, pending>>
  BY <1>3 DEF Abort, dl
<1>4. CASE Recv
  <2>1. CASE RecvSymm \/ RecvUnhandled
    BY <1>1, <1>3, <2>1 DEF RecvSymm, RecvUnhandled, dl
  <2>2. ASSUME NEW l \in Link,
               RecvDisc(l) \/ RecvDm(l) \/ RecvSupervisory(l)
                 \/ \E info \in Info : RecvI(l, info)
        PROVE  UNCHANGED <<v_s, pending>>
    BY <1>3, <2>2 DEF RecvDisc, RecvDm, RecvSupervisory, RecvI, dl
  <2>3. ASSUME NEW l \in Link, RecvConnect(l)
        PROVE  \A k \in Link : NumberStep(k)
    BY <1>2, <2>3 DEF RecvConnect
  <2>4. ASSUME NEW l \in Link, RecvCc(l)
        PROVE  \A k \in Link : NumberStep(k)
    <3>1. CASE ClearDataLinks({l}) /\ MovePending(l)
      BY <3>1 DEF ClearDataLinks, MovePending, NumberStep, IInv, TypeOK
    <3> QED
      BY <1>1, <1>3, <2>4, <3>1 DEF RecvCc
  <2> QED
    BY <1>1, <1>4, <2>1, <2>2, <2>3, <2>4 DEF Recv
<1>5. CASE XmitNext
  BY <1>1, <1>5 DEF XmitNext, dl
<1>6. CASE Console
  <2>1. Target \subseteq Link
    BY LinkAssumption DEF Target, IInv, TypeOK
  <2>2. CASE Clear
    BY <1>2, <2>2 DEF Clear
  <2>3. ASSUME NEW l \in Link, LlcpConnect(l) \/ SnepShow(l) \/ SnepPutUncleared(l)
        PROVE  UNCHANGED <<v_s, pending>>
    BY <1>3, <2>3 DEF LlcpConnect, SnepShow, SnepPutUncleared, dl
  <2>4. ASSUME NEW l \in Link, NEW m \in Msg, SnepPut(l, m)
        PROVE  \A k \in Link : NumberStep(k)
    <3>1. v_s' = [v_s EXCEPT ![l] = NextSeq(@)]
      BY <2>4 DEF SnepPut
    <3>2. CASE pending' = [pending EXCEPT ![l] = Append(@, CreateIPdu(l, m))]
      BY <3>1, <3>2 DEF NumberStep, IInv, TypeOK
    <3>3. CASE status[l] = "CONNECTED" /\ UNCHANGED pending
      <4>1. pending'[l] = <<>>
        BY <3>3 DEF IInv, LinkInv, NoneStranded
      <4> QED
        BY <3>1, <3>3, <4>1 DEF NumberStep, IInv, TypeOK
    <3> QED
      BY <2>4, <3>2, <3>3 DEF SnepPut
  <2> QED
    BY <1>1, <1>6, <2>1, <2>2, <2>3, <2>4 DEF Console
<1>7. CASE UNCHANGED vars
  BY <1>1, <1>7 DEF vars, dl
<1> QED
  BY <1>4, <1>5, <1>6, <1>7 DEF Next

(* Each of these keeps the numbers consecutive. *)
LEMMA InSequenceStep ==
  ASSUME IInv, PendingInSequence, NEW l \in Link, NumberStep(l)
  PROVE  \A i \in 1..Len(pending'[l]) :
           (pending'[l][i].ns + Len(pending'[l]) + 1 - i) % SeqMod = v_s'[l]
<1> DEFINE q == pending[l]
           n == Len(q)
<1>1. /\ q \in Seq(MsgPdus) /\ n \in Nat /\ DOMAIN q = 1..n
      /\ v_s[l] \in Int /\ \A i \in 1..n : q[i].ns \in Int
  <2>1. \A p \in MsgPdus : p.ns \in Int
    BY SeqModAssumption DEF MsgPdus, I, Seqno
  <2>2. q \in Seq(MsgPdus) /\ v_s[l] \in Seqno
    BY DEF IInv, TypeOK
  <2> QED
    BY <2>1, <2>2, SeqModAssumption DEF Seqno
<1>2. \A i \in 1..n : (q[i].ns + n + 1 - i) % SeqMod = v_s[l]
  BY <1>1 DEF PendingInSequence
<1>3. ASSUME NEW m \in Msg, pending'[l] = Append(q, CreateIPdu(l, m)),
             v_s'[l] = NextSeq(v_s[l]), NEW i \in 1..Len(pending'[l])
      PROVE  (pending'[l][i].ns + Len(pending'[l]) + 1 - i) % SeqMod = v_s'[l]
  <2> DEFINE p == CreateIPdu(l, m)
  <2>1. p.ns = v_s[l] /\ p \in MsgPdus
    BY MsgPduType DEF CreateIPdu, I, IInv, TypeOK
  <2> HIDE DEF p
  <2>2. /\ Len(pending'[l]) = n + 1 /\ pending'[l][n + 1] = p
        /\ \A j \in 1..n : pending'[l][j] = q[j]
        /\ i \in 1..n \/ i = n + 1
    BY <1>1, <1>3, <2>1, Appended DEF p
  <2> HIDE DEF n, q
  <2>3. v_s'[l] = (v_s[l] + 1) % SeqMod
    BY <1>3 DEF NextSeq
  <2>4. CASE i = n + 1
    <3>1. p.ns + (n + 1) + 1 - i = v_s[l] + 1
      BY <1>1, <2>1, <2>4
    <3> QED
      BY <2>2, <2>3, <2>4, <3>1
  <2>5. CASE i \in 1..n
    <3> DEFINE a == q[i].ns + n + 1 - i
    <3>1. a \in Int /\ a % SeqMod = v_s[l] /\ q[i].ns + (n + 1) + 1 - i = a + 1
      BY <1>1, <1>2, <2>5
    <3> HIDE DEF a
    <3>2. (a + 1) % SeqMod = (v_s[l] + 1) % SeqMod
      BY <3>1, ModNext, SeqModAssumption
    <3> QED
      BY <2>2, <2>3, <2>5, <3>1, <3>2
  <2> QED
    BY <2>2, <2>4, <2>5
<1> QED
  BY <1>2, <1>3 DEF NumberStep

(* The messages that wait on a link bear consecutive numbers up to the one *)
(* before V(S), however often the numbers wrap around.                     *)
THEOREM EndpointPendingInSequence == Spec => []PendingInSequence
<1>1. Init => PendingInSequence
  BY DEF Init, PendingInSequence
<1>2. ASSUME IInv, PendingInSequence, [Next]_vars PROVE PendingInSequence'
  <2>1. TypeOK'
    BY <1>2, NextIInv DEF IInv
  <2>2. \A l \in Link : DOMAIN (pending'[l]) = 1..Len(pending'[l])
    BY <2>1 DEF TypeOK
  <2> QED
    BY <1>2, <2>2, NumberSteps, InSequenceStep DEF PendingInSequence
<1> QED
  BY <1>1, <1>2, EndpointInvariant, PTL DEF Spec
------------------------------------------------------------------------------
(* The links are the mailboxes of Mailbox: of the PDUs that wait, link l   *)
(* sees its own.                                                           *)

Seen(q, l) == Images(q, OfLink(l), [p \in OfLink(l) |-> p.msg])
Queue(l) == xmit_q \o pending[l]

AbstractStep == [Box!Next]_(Box!mailVars)

(* What a link sees of the endpoint's queue and its own are PDUs. *)
LEMMA QueueType ==
  ASSUME TypeOK, NEW l \in Link
  PROVE  /\ xmit_q \in Seq(QueuedPdus) /\ pending[l] \in Seq(QueuedPdus)
         /\ Queue(l) \in Seq(QueuedPdus)
<1>1. MsgPdus \subseteq QueuedPdus
  BY DEF QueuedPdus
<1>2. xmit_q \in Seq(QueuedPdus) /\ pending[l] \in Seq(MsgPdus)
  BY DEF TypeOK
<1>3. Seq(MsgPdus) \subseteq Seq(QueuedPdus)
  BY <1>1
<1> QED
  BY <1>2, <1>3 DEF Queue

(* What a link sees of its queue, or of the two queues in turn. *)
LEMMA SeenType ==
  ASSUME NEW l \in Link, NEW q \in Seq(QueuedPdus)
  PROVE  Seen(q, l) \in Seq(Msg)
<1> DEFINE f == [p \in OfLink(l) |-> p.msg]
<1>1. Seen(q, l) \in Seq(ValuesOn(OfLink(l), f))
  BY ImagesType DEF Seen
<1>2. ValuesOn(OfLink(l), f) \subseteq Msg
  BY PduKinds DEF ValuesOn, OfLink
<1>3. Seq(ValuesOn(OfLink(l), f)) \subseteq Seq(Msg)
  <2> HIDE DEF f
  <2> QED
    BY <1>2
<1> QED
  BY <1>1, <1>3

(* Of a queue behind a queue it sees one behind the other. *)
LEMMA SeenConcat ==
  ASSUME NEW l \in Link, NEW q \in Seq(QueuedPdus), NEW r \in Seq(QueuedPdus)
  PROVE  Seen(q \o r, l) = Seen(q, l) \o Seen(r, l)
<1> DEFINE f == [p \in OfLink(l) |-> p.msg]
<1> HIDE DEF f
<1>1. Images(q \o r, OfLink(l), f) = Images(q, OfLink(l), f) \o Images(r, OfLink(l), f)
  BY ImagesConcat
<1> QED
  BY <1>1 DEF Seen, f

(* A PDU at the end is seen at the end, if it is the link's. *)
LEMMA SeenAppend ==
  ASSUME NEW l \in Link, NEW q \in Seq(QueuedPdus), NEW p \in QueuedPdus
  PROVE  Seen(Append(q, p), l) =
           IF p \in OfLink(l) THEN Append(Seen(q, l), p.msg) ELSE Seen(q, l)
<1> DEFINE f == [c \in OfLink(l) |-> c.msg]
<1>1. p \in OfLink(l) => f[p] = p.msg
  OBVIOUS
<1> HIDE DEF f
<1>2. Images(Append(q, p), OfLink(l), f) =
        IF p \in OfLink(l) THEN Append(Images(q, OfLink(l), f), f[p])
        ELSE Images(q, OfLink(l), f)
  BY ImagesAppend
<1> QED
  BY <1>1, <1>2 DEF Seen, f

(* A step is one of the mailboxes if it takes the link's queues so. *)
LEMMA SameBoxes ==
  ASSUME \A l \in Link : OnLink(l)' = OnLink(l), UNCHANGED <<sent, put>>
  PROVE  AbstractStep
BY DEF AbstractStep, Box!mailVars

(* A message that comes last on its link is put in the mailbox. *)
LEMMA PutBox ==
  ASSUME NEW l \in Link, NEW m \in Msg, m \notin put, put' = put \cup {m},
         UNCHANGED sent,
         OnLink(l)' = Append(OnLink(l), m),
         \A k \in Link \ {l} : OnLink(k)' = OnLink(k)
  PROVE  AbstractStep
<1>1. Box!Put(l, m)
  BY DEF Box!Put, Box!Accept
<1> QED
  BY <1>1 DEF AbstractStep, Box!Next

(* One that was first on its link is handed over from it. *)
LEMMA HandOverBox ==
  ASSUME NEW l \in Link, UNCHANGED put, OnLink(l) # <<>>,
         sent' = sent \cup {Head(OnLink(l))},
         OnLink(l)' = Tail(OnLink(l)),
         \A k \in Link \ {l} : OnLink(k)' = OnLink(k)
  PROVE  AbstractStep
<1>1. Box!HandOver(l)
  BY DEF Box!HandOver
<1> QED
  BY <1>1 DEF AbstractStep, Box!Next

(* A link that is emptied gives up its own queue, the younger messages. *)
LEMMA RestBoxes ==
  ASSUME TypeOK, Rest PROVE AbstractStep
<1> DEFINE Kept(l) == Box!Prefixes(OnLink(l))
<1>1. ASSUME NEW l \in Link PROVE OnLink(l)' \in Kept(l)
  <2> DEFINE x == Seen(xmit_q, l)
             y == Seen(pending[l], l)
  <2>1. x \in Seq(Msg) /\ y \in Seq(Msg) /\ OnLink(l) = x \o y
    BY QueueType, SeenType, SeenConcat DEF OnLink, Seen
  <2>2. OnLink(l)' = x \o y \/ OnLink(l)' = x
    <3>1. CASE pending'[l] = pending[l]
      BY <2>1, <3>1 DEF Rest, OnLink, Seen
    <3>2. CASE pending'[l] = <<>>
      <4>1. OnLink(l)' = Seen(xmit_q \o <<>>, l)
        BY <3>2 DEF Rest, OnLink, Seen
      <4>2. xmit_q \o <<>> = xmit_q
        BY QueueType, ConcatEmptySeq
      <4> QED
        BY <4>1, <4>2
    <3> QED
      BY <3>1, <3>2 DEF Rest
  <2> HIDE DEF x, y
  <2>3. /\ Len(x \o y) \in 0..Len(x \o y) /\ Len(x) \in 0..Len(x \o y)
        /\ SubSeq(x \o y, 1, Len(x \o y)) = x \o y
        /\ SubSeq(x \o y, 1, Len(x)) = x
    BY <2>1
  <2> QED
    BY <2>1, <2>2, <2>3 DEF Box!Prefixes
<1>2. Box!GiveUp
  <2> DEFINE b == [l \in Link |-> OnLink(l)]
  <2>1. b' = [l \in Link |-> OnLink(l)'] /\ \A l \in Link : b[l] = OnLink(l)
    OBVIOUS
  <2>2. \A l \in Link : b'[l] \in Box!Prefixes(b[l])
    BY <1>1, <2>1
  <2>3. b' \in [Link -> UNION {Box!Prefixes(b[l]) : l \in Link}]
    BY <2>1, <2>2
  <2>4. UNCHANGED <<sent, put>>
    BY DEF Rest
  <2> QED
    BY <2>2, <2>3, <2>4 DEF Box!GiveUp
<1> QED
  BY <1>2 DEF AbstractStep, Box!Next

(* The head of the transmit queue is the oldest message of its link. *)
LEMMA HeadLeavesBox ==
  ASSUME TypeOK, TypeOK', HeadLeaves PROVE AbstractStep
<1> DEFINE h == Head(xmit_q)
<1>1. /\ xmit_q # <<>> /\ xmit_q' = Tail(xmit_q) /\ UNCHANGED <<pending, put>>
      /\ sent' = sent \cup MsgsOf(h)
  BY DEF HeadLeaves
<1>2. ASSUME NEW l \in Link
      PROVE  IF h \in OfLink(l)
             THEN /\ OnLink(l) # <<>> /\ Head(OnLink(l)) = h.msg
                  /\ OnLink(l)' = Tail(OnLink(l))
             ELSE OnLink(l)' = OnLink(l)
  <2> DEFINE q == xmit_q \o pending[l]
             f == [p \in OfLink(l) |-> p.msg]
  <2>1. /\ q \in Seq(QueuedPdus) /\ q # <<>> /\ Head(q) = h
        /\ Tail(q) = xmit_q' \o pending'[l]
    BY <1>1, QueueType
  <2>2. h \in OfLink(l) => f[h] = h.msg
    OBVIOUS
  <2>3. OnLink(l) = Images(q, OfLink(l), f) /\ OnLink(l)' = Images(Tail(q), OfLink(l), f)
    BY <2>1 DEF OnLink, OfLink
  <2> HIDE DEF q, f, h
  <2> QED
    BY <2>1, <2>2, <2>3, ImagesTail
<1>3. CASE h \in MsgPdus
  <2> HIDE DEF h
  <2>1. h.link \in Link /\ h \in OfLink(h.link) /\ MsgsOf(h) = {h.msg}
    <3>1. \A p \in MsgPdus : p.link \in Link
      BY DEF MsgPdus, I
    <3> QED
      BY <1>3, <3>1 DEF OfLink, MsgsOf
  <2>2. \A k \in Link \ {h.link} : h \notin OfLink(k)
    BY DEF OfLink
  <2> QED
    BY <1>1, <1>2, <2>1, <2>2, HandOverBox DEF h
<1>4. CASE h \notin MsgPdus
  <2>1. MsgsOf(h) = {} /\ \A k \in Link : h \notin OfLink(k)
    BY <1>4 DEF MsgsOf, OfLink
  <2> HIDE DEF h
  <2> QED
    BY <1>1, <1>2, <2>1, SameBoxes
<1> QED
  BY <1>3, <1>4

(* The messages of a link are seen by no other. *)
LEMMA LinkMovesBox ==
  ASSUME TypeOK, OnTheirLink, NEW l \in Link, LinkMoves(l) PROVE AbstractStep
<1>1. /\ xmit_q' = xmit_q \o pending[l] /\ pending'[l] = <<>>
      /\ \A k \in Link \ {l} : pending'[k] = pending[k]
      /\ UNCHANGED <<sent, put>>
  BY DEF LinkMoves, MovePending, TypeOK
<1>2. OnLink(l)' = OnLink(l)
  <2>1. xmit_q' \o pending'[l] = xmit_q \o pending[l]
    BY <1>1, QueueType, ConcatEmptySeq DEF Queue
  <2> QED
    BY <2>1 DEF OnLink, OfLink
<1>3. ASSUME NEW k \in Link \ {l} PROVE OnLink(k)' = OnLink(k)
  <2>1. /\ xmit_q \in Seq(QueuedPdus) /\ pending[l] \in Seq(QueuedPdus)
        /\ pending[k] \in Seq(QueuedPdus) /\ xmit_q \o pending[l] \in Seq(QueuedPdus)
    BY QueueType DEF Queue
  <2>2. OnLink(k)' = Seen((xmit_q \o pending[l]) \o pending[k], k)
    BY <1>1 DEF OnLink, Seen, OfLink
  <2>3. @ = (Seen(xmit_q, k) \o Seen(pending[l], k)) \o Seen(pending[k], k)
    <3> DEFINE q == xmit_q \o pending[l]
    <3>1. Seen(q, k) = Seen(xmit_q, k) \o Seen(pending[l], k)
      BY <2>1, SeenConcat
    <3>2. q \in Seq(QueuedPdus)
      BY <2>1
    <3> HIDE DEF q
    <3>3. Seen(q \o pending[k], k) = Seen(q, k) \o Seen(pending[k], k)
      BY <2>1, <3>2, SeenConcat
    <3> QED
      BY <3>1, <3>3 DEF q
  <2>4. Seen(pending[l], k) = <<>>
    <3>1. \A i \in 1..Len(pending[l]) : pending[l][i] \notin OfLink(k)
      BY DEF OnTheirLink, OfLink
    <3> QED
      BY <2>1, <3>1, ImagesNone DEF Seen
  <2>5. Seen(xmit_q, k) \o <<>> = Seen(xmit_q, k)
    BY <2>1, SeenType, ConcatEmptySeq
  <2>6. OnLink(k) = Seen(xmit_q, k) \o Seen(pending[k], k)
    BY <2>1, SeenConcat DEF OnLink, Seen
  <2> QED
    BY <2>2, <2>3, <2>4, <2>5, <2>6
<1> QED
  BY <1>1, <1>2, <1>3, SameBoxes

(* A CONNECT is a message of no link. *)
LEMMA ConnectUnseen ==
  ASSUME TypeOK, NEW l \in Link, NEW k \in Link, NEW q \in Seq(QueuedPdus)
  PROVE  Seen(Append(xmit_q, Pdu("CONNECT", l)) \o q, k) = Seen(xmit_q \o q, k)
<1> DEFINE c == Pdu("CONNECT", l)
<1>1. c \in QueuedPdus /\ c \notin OfLink(k)
  BY PduKinds DEF QueuedPdus, OfLink
<1> HIDE DEF c
<1>2. xmit_q \in Seq(QueuedPdus) /\ Append(xmit_q, c) \in Seq(QueuedPdus)
  BY <1>1 DEF TypeOK
<1> DEFINE r == Append(xmit_q, c)
<1>3. Seen(r, k) = Seen(xmit_q, k)
  BY <1>1, <1>2, SeenAppend
<1> HIDE DEF r
<1>4. /\ Seen(r \o q, k) = Seen(r, k) \o Seen(q, k)
      /\ Seen(xmit_q \o q, k) = Seen(xmit_q, k) \o Seen(q, k)
  BY <1>2, SeenConcat DEF r
<1> QED
  BY <1>3, <1>4 DEF c, r

(* A CONNECT in the transmit queue is in no mailbox. *)
LEMMA ConnectQueuedBox ==
  ASSUME TypeOK, NEW l \in Link, ConnectQueued(l) PROVE AbstractStep
<1>1. \A k \in Link : OnLink(k)' = OnLink(k)
  BY QueueType, ConnectUnseen DEF ConnectQueued, OnLink, OfLink, Seen
<1> QED
  BY <1>1, SameBoxes DEF ConnectQueued

(* The message put last is the last of its link, wherever it waits: on a   *)
(* connected link no older one waits in the link's own queue.              *)
LEMMA ArrivesBox ==
  ASSUME TypeOK, NoneStranded, NEW l \in Link, NEW m \in Msg, Arrives(l, m)
  PROVE  AbstractStep
<1> DEFINE p == CreateIPdu(l, m)
<1>1. /\ p \in QueuedPdus /\ p \in OfLink(l) /\ p.msg = m
      /\ \A k \in Link \ {l} : p \notin OfLink(k)
  BY MsgPduType DEF CreateIPdu, TypeOK, I, QueuedPdus, OfLink
<1>2. m \notin put /\ put' = put \cup {m}
  BY DEF Arrives
<1> HIDE DEF p
<1>3. CASE /\ pending' = [pending EXCEPT ![l] = Append(@, p)]
           /\ xmit_q' \in {xmit_q} \cup {Append(xmit_q, Pdu("CONNECT", l))}
           /\ UNCHANGED sent
  <2>1. /\ pending'[l] = Append(pending[l], p)
        /\ \A k \in Link \ {l} : pending'[k] = pending[k]
    BY <1>3 DEF TypeOK
  <2>2. \A k \in Link : pending[k] \in Seq(QueuedPdus)
    BY QueueType
  <2>3. pending'[l] \in Seq(QueuedPdus)
    BY <1>1, <2>1, <2>2
  <2>4. \A k \in Link : pending'[k] \in Seq(QueuedPdus)
    BY <2>1, <2>2, <2>3
  <2>5. ASSUME NEW k \in Link PROVE OnLink(k)' = Seen(xmit_q \o pending'[k], k)
    <3>1. OnLink(k)' = Seen(xmit_q' \o pending'[k], k)
      BY DEF OnLink, Seen, OfLink
    <3> QED
      BY <1>3, <2>4, <3>1, ConnectUnseen
  <2>6. OnLink(l)' = Append(OnLink(l), m)
    <3>1. Queue(l) \in Seq(QueuedPdus) /\ xmit_q \in Seq(QueuedPdus)
      BY QueueType
    <3>2. xmit_q \o Append(pending[l], p) = Append(Queue(l), p)
      BY <1>1, <2>2, <3>1 DEF Queue
    <3>3. Seen(Append(Queue(l), p), l) = Append(Seen(Queue(l), l), m)
      BY <1>1, <3>1, SeenAppend
    <3> QED
      BY <2>1, <2>5, <3>2, <3>3 DEF OnLink, Seen, Queue
  <2>7. \A k \in Link \ {l} : OnLink(k)' = OnLink(k)
    BY <2>1, <2>5 DEF OnLink, Seen
  <2> QED
    BY <1>2, <1>3, <2>6, <2>7, PutBox
<1>4. CASE status[l] = "CONNECTED" /\ xmit_q' = Append(xmit_q, p) /\ UNCHANGED <<sent, pending>>
  <2>1. pending[l] = <<>> /\ xmit_q \in Seq(QueuedPdus) /\ xmit_q' \in Seq(QueuedPdus)
    BY <1>1, <1>4 DEF NoneStranded, TypeOK
  <2>2. OnLink(l)' = Append(OnLink(l), m)
    <3>1. xmit_q' \o <<>> = xmit_q' /\ xmit_q \o <<>> = xmit_q
      BY <2>1, ConcatEmptySeq
    <3>2. OnLink(l)' = Seen(xmit_q', l) /\ OnLink(l) = Seen(xmit_q, l)
      BY <1>4, <2>1, <3>1 DEF OnLink, Seen, OfLink
    <3> QED
      BY <1>1, <1>4, <2>1, <3>2, SeenAppend
  <2>3. ASSUME NEW k \in Link \ {l} PROVE OnLink(k)' = OnLink(k)
    <3>1. Seen(xmit_q', k) = Seen(xmit_q, k)
      BY <1>1, <1>4, <2>1, SeenAppend
    <3>2. pending[k] \in Seq(QueuedPdus)
      BY QueueType
    <3>3. Seen(xmit_q' \o pending[k], k) = Seen(xmit_q \o pending[k], k)
      <4>1. Seen(xmit_q' \o pending[k], k) = Seen(xmit_q', k) \o Seen(pending[k], k)
        BY <2>1, <3>2, SeenConcat
      <4>2. Seen(xmit_q \o pending[k], k) = Seen(xmit_q, k) \o Seen(pending[k], k)
        BY <2>1, <3>2, SeenConcat
      <4> QED
        BY <3>1, <4>1, <4>2
    <3> QED
      BY <1>4, <3>3 DEF OnLink, Seen, OfLink
  <2> QED
    BY <1>2, <1>4, <2>2, <2>3, PutBox
<1>5. CASE UNCHANGED <<xmit_q, pending>> /\ sent' = sent \cup {m}
  <2>1. \A k \in Link : OnLink(k)' = OnLink(k)
    BY <1>5 DEF OnLink, OfLink
  <2>2. Box!PutThrough(m)
    BY <1>2, <1>5, <2>1 DEF Box!PutThrough, Box!Accept
  <2> QED
    BY <2>2 DEF AbstractStep, Box!Next
<1> QED
  BY <1>3, <1>4, <1>5 DEF Arrives, p

(* Every step is one of the mailboxes, or none. *)
LEMMA NextBox ==
  ASSUME IInv, Placed, [Next]_vars PROVE AbstractStep
<1>1. TypeOK /\ NoneStranded /\ OnTheirLink
  BY DEF IInv, LinkInv, Placed
<1>2. TypeOK'
  BY NextIInv DEF IInv
<1> QED
  BY <1>1, <1>2, QueueSteps, RestBoxes, HeadLeavesBox, LinkMovesBox, ConnectQueuedBox,
     ArrivesBox

(* The messages that wait on a data link leave in the order they were put, *)
(* at most once each, although they move between two queues and share the  *)
(* transmit queue with CONNECTs and with other links; only the message     *)
(* that is put in the endpoint's turn overtakes them.                      *)
THEOREM EndpointImplementsMailbox == Spec => ImplementsMailbox
<1>1. Init => Box!Init
  <2> SUFFICES ASSUME Init PROVE Box!Init
    OBVIOUS
  <2>1. \A l \in Link : OnLink(l) = <<>>
    <3>1. \A l \in Link : xmit_q \o pending[l] = <<>>
      BY DEF Init
    <3> QED
      BY <3>1, ImagesEmpty DEF OnLink
  <2> QED
    BY <2>1 DEF Init, Box!Init
<1>2. Init => Placed
  BY DEF Init, Placed, WaitsOnce, QueuedOnce, QueuedOrWaits, Accounted, OnTheirLink
<1>3. IInv /\ Placed /\ [Next]_vars => [Box!Next]_(Box!mailVars)
  BY NextBox DEF AbstractStep
<1> QED
  BY <1>1, <1>2, <1>3, NextPlaced, EndpointInvariant, PTL
     DEF Spec, ImplementsMailbox, Box!Spec

===============================================================================

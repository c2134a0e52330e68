--------------------------- MODULE LlcpSessionProofs ---------------------------
(***************************************************************************)
(* Proofs about LlcpSession, for any data links, messages, moduli and      *)
(* bounds, and for hosts that refuse and close connections or do not.      *)
(***************************************************************************)
EXTENDS LlcpSession, LlcpEndpointProofs, FiniteSetTheorems

(* What is on the way to the host, and what the host keeps *)
WireInv ==
  /\ to_host \in Seq(Pdus) /\ Len(to_host) <= MaxWire + since
  /\ \A i \in 1..Len(to_host) : MsgsOf(to_host[i]) \subseteq sent
  /\ host_turn \in BOOLEAN /\ link \in [Link -> HostLink]
  /\ v_r \in [Link -> Seqno] /\ taken \subseteq sent /\ in_seq \in BOOLEAN

LinkedInv == IInv /\ WireInv /\ LinksAgree

------------------------------------------------------------------------------
(* The steps of the session *)

(* Every step of the session is one of the endpoint, or none of its own. *)
LEMMA SessionStepIsEndpoint ==
  ASSUME [SessionNext]_sessionVars PROVE [Next]_vars
<1>1. CASE HostTransmits
  <2>1. Recv
    BY <1>1 DEF HostTransmits, HostAnswers, HostConnects, HostPuts, HostDisconnects,
                HostIdles, Recv, Info
  <2> QED
    BY <2>1 DEF Next
<1>2. CASE HostTakes \/ UNCHANGED sessionVars
  BY <1>2 DEF HostTakes, sessionVars
<1>3. CASE Timeout
  BY <1>3 DEF Timeout, Next
<1>4. CASE OperatorConnects \/ OperatorPuts \/ Activation
  <2>1. Console
    BY <1>4 DEF OperatorConnects, OperatorPuts, Activation, Usable, Console
  <2> QED
    BY <2>1 DEF Next
<1> QED
  BY <1>1, <1>2, <1>3, <1>4 DEF SessionNext

(* No message is in a response. *)
LEMMA RecvAnswers ==
  ASSUME IInv, Recv
  PROVE  UNCHANGED sent /\ (Running' => MsgsOf(out') = {})
<1>1. ASSUME NEW rsp, Received(rsp), MsgsOf(rsp) = {}
      PROVE  UNCHANGED sent /\ MsgsOf(out') = {}
  BY <1>1 DEF Received
<1>2. ASSUME NEW a, a # "none", Abort(a) PROVE UNCHANGED sent /\ ~Running'
  BY <1>2 DEF Abort, wire, Running
<1>3. MsgsOf(Nothing) = {}
  <2>1. Nothing.ptype = "none" /\ \A p \in MsgPdus : p.ptype = "I"
    BY DEF Nothing, MsgPdus, I
  <2> QED
    BY <2>1 DEF MsgsOf
<1>4. \A l \in Link, info \in Info : MsgsOf(Answer(l, info)) = {}
  <2>1. \A l, n : I(l, SnepRsp, n) \notin MsgPdus
    BY PduKinds, MsgAssumption DEF I
  <2> QED
    BY <1>3, <2>1 DEF Answer, MsgsOf
<1>5. \A t, l : t # "I" => MsgsOf(Pdu(t, l)) = {}
  BY PduKinds
<1>6. CASE RecvSymm \/ RecvUnhandled
  BY <1>1, <1>2, <1>3, <1>6 DEF RecvSymm, RecvUnhandled
<1>7. ASSUME NEW l \in Link,
             RecvConnect(l) \/ RecvDisc(l) \/ RecvDm(l) \/ RecvSupervisory(l)
      PROVE  UNCHANGED sent /\ MsgsOf(out') = {}
  BY <1>1, <1>3, <1>5, <1>7 DEF RecvConnect, RecvDisc, RecvDm, RecvSupervisory
<1>8. ASSUME NEW l \in Link, RecvCc(l)
      PROVE  UNCHANGED sent /\ (Running' => MsgsOf(out') = {})
  BY <1>1, <1>2, <1>3, <1>8 DEF RecvCc
<1>9. ASSUME NEW l \in Link, NEW info \in Info, RecvI(l, info)
      PROVE  UNCHANGED sent /\ (Running' => MsgsOf(out') = {})
  BY <1>1, <1>2, <1>4, <1>9 DEF RecvI
<1> QED
  BY <1>6, <1>7, <1>8, <1>9 DEF Recv

(* Outside of a response, a PDU is handed over and counted, or none is. *)
Hands ==
  \/ \E p : Transmit(p)
  \/ (out' = Nothing \/ ~Running') /\ UNCHANGED <<since, sent>>

(* The endpoint's own steps are of this kind. *)
LEMMA OwnStepsHand ==
  /\ XmitNext => Hands
  /\ \A l \in Link : LlcpConnect(l) => Hands
  /\ \A l \in Link, m \in Msg : SnepPut(l, m) => Hands
<1>1. ASSUME NEW p, SendPdu(p) PROVE Hands
  BY <1>1 DEF SendPdu, Hands
<1>2. XmitNext => Hands
  BY DEF XmitNext, Hands
<1>3. ASSUME NEW l \in Link, LlcpConnect(l) PROVE Hands
  BY <1>1, <1>3 DEF LlcpConnect, Connect, Abort, wire, Running, Hands
<1>4. ASSUME NEW l \in Link, NEW m \in Msg, SnepPut(l, m) PROVE Hands
  BY <1>1, <1>4 DEF SnepPut, Connect, Hands
<1> QED
  BY <1>2, <1>3, <1>4

------------------------------------------------------------------------------
(* The wire *)

(* What is appended to the wire is a PDU, and its message was handed over. *)
LEMMA CarryWire ==
  ASSUME IInv, IInv', WireInv, Carry, sent \subseteq sent',
         Running' => MsgsOf(out') \subseteq sent'
  PROVE  /\ to_host' \in Seq(Pdus) /\ Len(to_host') <= Len(to_host) + 1
         /\ out' = Nothing \/ ~Running' => Len(to_host') = Len(to_host)
         /\ \A i \in 1..Len(to_host') : MsgsOf(to_host'[i]) \subseteq sent'
<1>1. to_host \in Seq(Pdus) /\ \A i \in 1..Len(to_host) : MsgsOf(to_host[i]) \subseteq sent'
  BY DEF WireInv
<1>2. out' \in Pdus \cup {Nothing}
  BY DEF IInv, TypeOK
<1>3. CASE to_host' = to_host
  BY <1>1, <1>3
<1>4. CASE Running' /\ out' # Nothing /\ to_host' = Append(to_host, out')
  BY <1>1, <1>2, <1>4, Appended
<1> QED
  BY <1>3, <1>4 DEF Carry

(* The host transmits while there is room for what it brings about. *)
LEMMA HostTransmitsWire ==
  ASSUME IInv, IInv', WireInv, HostTransmits PROVE WireInv'
<1>1. Recv
  BY DEF HostTransmits, HostAnswers, HostConnects, HostPuts, HostDisconnects,
         HostIdles, Recv, Info
<1>2. Turn /\ Carry /\ UNCHANGED <<taken, in_seq>>
  BY DEF HostTransmits, HostAnswers, HostConnects, HostPuts, HostDisconnects, HostIdles
<1>3. link' \in [Link -> HostLink] /\ v_r' \in [Link -> Seqno]
  BY ZeroSeqno DEF HostTransmits, HostAnswers, HostConnects, HostPuts,
     HostDisconnects, HostIdles, WireInv, HostLink
<1>4. UNCHANGED sent /\ (Running' => MsgsOf(out') \subseteq sent')
  BY <1>1, RecvAnswers
<1>5. /\ to_host' \in Seq(Pdus) /\ Len(to_host') <= Len(to_host) + 1
      /\ \A i \in 1..Len(to_host') : MsgsOf(to_host'[i]) \subseteq sent'
  BY <1>2, <1>4, CarryWire
<1>6. Len(to_host') <= MaxWire + since'
  <2>1. since' \in Nat /\ Len(to_host) \in Nat /\ Len(to_host') \in Nat
    BY <1>5 DEF IInv, TypeOK, WireInv
  <2> QED
    BY <1>2, <1>5, <2>1, MaxWireAssumption DEF Turn
<1> QED
  BY <1>2, <1>3, <1>4, <1>5, <1>6 DEF WireInv, Turn

(* The endpoint's own PDUs are counted by `since'. *)
LEMMA OwnStepWire ==
  ASSUME IInv, IInv', WireInv, Hands, Carry, UNCHANGED hostVars PROVE WireInv'
<1>1. sent \subseteq sent' /\ (Running' => MsgsOf(out') \subseteq sent')
  <2>1. MsgsOf(Nothing) = {}
    <3>1. Nothing.ptype = "none" /\ \A p \in MsgPdus : p.ptype = "I"
      BY DEF Nothing, MsgPdus, I
    <3> QED
      BY <3>1 DEF MsgsOf
  <2> QED
    BY <2>1 DEF Hands, Transmit
<1>2. since' \in Nat /\ since \in Nat /\ Len(to_host) \in Nat
  BY DEF IInv, TypeOK, WireInv
<1>3. /\ to_host' \in Seq(Pdus) /\ Len(to_host') <= Len(to_host) + 1
      /\ out' = Nothing \/ ~Running' => Len(to_host') = Len(to_host)
      /\ \A i \in 1..Len(to_host') : MsgsOf(to_host'[i]) \subseteq sent'
  BY <1>1, CarryWire
<1>4. \/ since' = since + 1
      \/ (out' = Nothing \/ ~Running') /\ since' = since
  BY DEF Hands, Transmit
<1>5. Len(to_host') \in Nat /\ Len(to_host) <= MaxWire + since
  BY <1>3 DEF WireInv
<1>6. Len(to_host') <= MaxWire + since'
  BY <1>2, <1>3, <1>4, <1>5, MaxWireAssumption
<1> QED
  BY <1>1, <1>3, <1>6 DEF WireInv, hostVars

(* What the host takes was handed over. *)
LEMMA HostTakesWire ==
  ASSUME IInv, WireInv, HostTakes PROVE WireInv'
<1> DEFINE p == Head(to_host)
<1>1. /\ to_host # <<>> /\ to_host' = Tail(to_host) /\ host_turn' = TRUE
      /\ UNCHANGED vars
      /\ link' = IF p = Symm THEN link ELSE [link EXCEPT ![p.link] = View(p)]
      /\ \/ /\ in_seq' = (in_seq /\ p.ns = v_r[p.link])
            /\ v_r' = [v_r EXCEPT ![p.link] = (@ + 1) % SeqMod]
            /\ taken' = taken \cup MsgsOf(p)
         \/ v_r' = [v_r EXCEPT ![p.link] = 0] /\ UNCHANGED <<taken, in_seq>>
         \/ UNCHANGED <<v_r, taken, in_seq>>
  BY Zenon DEF HostTakes
<1>2. /\ to_host \in Seq(Pdus) /\ Len(to_host) \in Nat /\ p = to_host[1] /\ 1 \in 1..Len(to_host)
      /\ to_host' \in Seq(Pdus) /\ Len(to_host') = Len(to_host) - 1
      /\ \A i \in 1..Len(to_host') : to_host'[i] = to_host[i + 1] /\ i + 1 \in 1..Len(to_host)
  BY <1>1 DEF WireInv
<1>3. p \in Pdus
  BY <1>2
<1>4. UNCHANGED <<sent, since>>
  BY <1>1 DEF vars, wire
<1> HIDE DEF p
<1>5. link' \in [Link -> HostLink]
  <2>1. View(p) \in HostLink \/ View(p) = link[p.link]
    BY DEF View, HostLink
  <2>2. \A k \in Link : link[k] \in HostLink
    BY DEF WireInv
  <2> QED
    BY <1>1, <2>1, <2>2 DEF WireInv
<1>6. v_r' \in [Link -> Seqno]
  <2>1. \A n \in Seqno : (n + 1) % SeqMod \in Seqno
    BY NextSeqType DEF NextSeq
  <2> QED
    BY <1>1, <2>1, ZeroSeqno DEF WireInv
<1>7. taken' \subseteq sent' /\ in_seq' \in BOOLEAN
  BY <1>1, <1>2, <1>4 DEF WireInv
<1>8. Len(to_host') <= MaxWire + since'
  <2>1. Len(to_host) <= MaxWire + since /\ since \in Nat
    BY DEF WireInv, IInv, TypeOK
  <2> QED
    BY <1>2, <1>4, <2>1, MaxWireAssumption
<1>9. \A i \in 1..Len(to_host') : MsgsOf(to_host'[i]) \subseteq sent'
  <2>1. \A i \in 1..Len(to_host) : MsgsOf(to_host[i]) \subseteq sent
    BY DEF WireInv
  <2> QED
    BY <1>2, <1>4, <2>1
<1> QED
  BY <1>1, <1>2, <1>5, <1>6, <1>7, <1>8, <1>9 DEF WireInv

(* An activation empties the wire. *)
LEMMA ActivationWire ==
  ASSUME IInv, WireInv, Activation PROVE WireInv'
<1>1. UNCHANGED <<sent, since, taken, in_seq>> /\ to_host' = <<>> /\ host_turn' = TRUE
  BY DEF Activation, Clear
<1>2. since \in Nat
  BY DEF IInv, TypeOK
<1>3. link' \in [Link -> HostLink] /\ v_r' \in [Link -> Seqno]
  BY ZeroSeqno DEF Activation, HostLink
<1> QED
  BY <1>1, <1>2, <1>3, MaxWireAssumption DEF WireInv

(* Every step keeps the wire's invariant. *)
LEMMA NextWireInv ==
  ASSUME IInv, IInv', WireInv, [SessionNext]_sessionVars PROVE WireInv'
<1>1. Target \subseteq Link
  BY LinkAssumption DEF Target, IInv, TypeOK
<1>2. CASE Timeout
  BY <1>2, OwnStepsHand, OwnStepWire DEF Timeout
<1>3. CASE OperatorConnects
  BY <1>1, <1>3, OwnStepsHand, OwnStepWire DEF OperatorConnects, Usable
<1>4. CASE OperatorPuts
  BY <1>1, <1>4, OwnStepsHand, OwnStepWire DEF OperatorPuts, Usable
<1>5. CASE UNCHANGED sessionVars
  BY <1>5 DEF sessionVars, vars, wire, hostVars, WireInv
<1> QED
  BY <1>2, <1>3, <1>4, <1>5, HostTransmitsWire, HostTakesWire, ActivationWire
     DEF SessionNext

------------------------------------------------------------------------------
(* Host and endpoint agree on the connections *)

(* The host opens a link when it answers, or closes it with a DM. *)
LEMMA HostAnswersAgrees ==
  ASSUME IInv, WireInv, LinksAgree, NEW l \in Link, HostAnswers(l) PROVE LinksAgree'
<1>1. Running
  BY DEF HostAnswers, RecvCc, RecvDm
<1>2. CASE RecvCc(l) /\ link' = [link EXCEPT ![l] = "open"]
  BY <1>1, <1>2 DEF RecvCc, SetStatus, Abort, Running, LinksAgree, IInv, TypeOK, WireInv
<1>3. CASE RecvDm(l) /\ link' = [link EXCEPT ![l] = "closed"]
  BY <1>1, <1>3 DEF RecvDm, Disconnect, SetStatus, LinksAgree, IInv, TypeOK, WireInv
<1> QED
  BY <1>2, <1>3 DEF HostAnswers

(* The host asks on a link that is then connected, and ends one that was. *)
LEMMA HostConnectsAgrees ==
  ASSUME IInv, WireInv, LinksAgree, NEW l \in Link,
         HostConnects(l) \/ HostDisconnects(l)
  PROVE  LinksAgree'
BY DEF HostConnects, HostDisconnects, RecvConnect, RecvDisc, Disconnect, SetStatus,
       LinksAgree, IInv, TypeOK, WireInv

(* A PDU the host takes brings no connection about that the endpoint does  *)
(* not know of, and ends none: a CC answers what the host asked for.       *)
LEMMA HostTakesAgrees ==
  ASSUME IInv, WireInv, LinksAgree, HostTakes PROVE LinksAgree'
<1> DEFINE p == Head(to_host)
<1>1. /\ UNCHANGED <<status, aborted>>
      /\ link' = IF p = Symm THEN link ELSE [link EXCEPT ![p.link] = View(p)]
  BY Zenon DEF HostTakes, vars, dl
<1> HIDE DEF p
<1>2. \A l \in Link : link'[l] = link[l] \/ (l = p.link /\ link'[l] = View(p))
  BY <1>1 DEF WireInv
<1>3. \/ View(p) = "wanted"
      \/ View(p) = "open" /\ link[p.link] = "asked"
      \/ View(p) = "stray" /\ link[p.link] = "closed"
      \/ View(p) = link[p.link]
  BY DEF View
<1> QED
  BY <1>1, <1>2, <1>3 DEF LinksAgree, Running

(* The endpoint's own steps connect nothing, and only ask for a connection *)
(* on a link that has none.                                                *)
LEMMA OwnStepAgrees ==
  ASSUME IInv, WireInv, LinksAgree, UNCHANGED link,
         NEW l \in Link, Running,
         \/ UNCHANGED status
         \/ status[l] = "DISCONNECTED" /\ SetStatus(l, "CONNECTING")
  PROVE  LinksAgree'
BY DEF SetStatus, LinksAgree, IInv, TypeOK, WireInv

(* Every step keeps the agreement. *)
LEMMA NextAgrees ==
  ASSUME IInv, WireInv, LinksAgree, [SessionNext]_sessionVars PROVE LinksAgree'
<1>1. CASE HostTransmits
  <2>1. ASSUME NEW l \in Link, HostPuts(l) PROVE LinksAgree'
    BY <2>1 DEF HostPuts, RecvI, Abort, Running, LinksAgree, dl
  <2>2. CASE HostIdles
    BY <2>2 DEF HostIdles, RecvSymm, RecvSupervisory, dl, LinksAgree
  <2> QED
    BY <1>1, <2>1, <2>2, HostAnswersAgrees, HostConnectsAgrees DEF HostTransmits
<1>2. CASE Timeout
  BY <1>2 DEF Timeout, XmitNext, dl, hostVars, LinksAgree
<1>3. CASE OperatorConnects
  BY <1>3, LinkAssumption, OwnStepAgrees
     DEF OperatorConnects, Usable, Target, IInv, TypeOK, LlcpConnect, Connect, hostVars
<1>4. CASE OperatorPuts
  <2>1. PICK l \in Link, m \in Msg : SnepPut(l, m)
    BY <1>4, LinkAssumption DEF OperatorPuts, Usable, Target, IInv, TypeOK
  <2>2. /\ Running
        /\ \/ UNCHANGED status
           \/ status[l] = "DISCONNECTED" /\ SetStatus(l, "CONNECTING")
    BY <2>1 DEF SnepPut, Connect
  <2> QED
    BY <1>4, <2>2, OwnStepAgrees DEF OperatorPuts, hostVars
<1>5. CASE Activation
  BY <1>5 DEF Activation, Clear, LinksAgree
<1>6. CASE UNCHANGED sessionVars
  BY <1>6 DEF sessionVars, vars, dl, hostVars, LinksAgree, Running
<1> QED
  BY <1>1, <1>2, <1>3, <1>4, <1>5, <1>6, HostTakesAgrees DEF SessionNext

------------------------------------------------------------------------------
(* Theorems, for every host *)

(* The initial states satisfy the invariant. *)
LEMMA InitLinkedInv == SessionInit => LinkedInv
<1> SUFFICES ASSUME SessionInit PROVE LinkedInv
  OBVIOUS
<1>1. IInv
  BY InitIInv DEF SessionInit
<1>2. WireInv
  BY ZeroSeqno, MaxWireAssumption DEF SessionInit, Init, WireInv, HostLink
<1>3. LinksAgree
  BY DEF SessionInit, Init, LinksAgree
<1> QED
  BY <1>1, <1>2, <1>3 DEF LinkedInv

(* Every step preserves it. *)
LEMMA NextLinkedInv == LinkedInv /\ [SessionNext]_sessionVars => LinkedInv'
<1> SUFFICES ASSUME LinkedInv, [SessionNext]_sessionVars PROVE LinkedInv'
  OBVIOUS
<1>1. IInv /\ WireInv /\ LinksAgree
  BY DEF LinkedInv
<1>2. IInv'
  BY <1>1, SessionStepIsEndpoint, NextIInv
<1> QED
  BY <1>1, <1>2, NextWireInv, NextAgrees DEF LinkedInv

(* The endpoint's invariant, the wire's and the agreement hold together of *)
(* every session, whatever the host refuses and closes.                    *)
THEOREM LinkedInvariant == SessionSpec => []LinkedInv
  BY InitLinkedInv, NextLinkedInv, PTL DEF SessionSpec

(* The endpoint behaves in a session as LlcpEndpoint says, so that what is *)
(* proved of the one holds of the other.                                   *)
THEOREM LinkedEndpoint == SessionSpec => Spec
<1>1. SessionInit => Init
  BY DEF SessionInit
<1>2. [SessionNext]_sessionVars => [Next]_vars
  BY SessionStepIsEndpoint
<1> QED
  BY <1>1, <1>2, PTL DEF SessionSpec, Spec

(* Every variable of the session keeps its type; above all, the wire holds *)
(* no more than the bound and two PDUs, and the host takes only messages   *)
(* that were handed over.                                                  *)
THEOREM LinkedTypeCorrect == SessionSpec => []SessionTypeOK
<1>1. LinkedInv => SessionTypeOK
  <2> SUFFICES ASSUME LinkedInv PROVE SessionTypeOK
    OBVIOUS
  <2>1. IInv /\ WireInv /\ Len(to_host) \in Nat /\ since \in Nat /\ since <= 2
    BY DEF LinkedInv, WireInv, IInv, TypeOK, TurnInv, TurnBounded
  <2>2. Len(to_host) <= MaxWire + 2
    BY <2>1, MaxWireAssumption DEF WireInv
  <2> QED
    BY <2>1, <2>2 DEF SessionTypeOK, WireInv, IInv
<1> QED
  BY <1>1, LinkedInvariant, PTL

(* Host and endpoint agree on which connections are open, with refusals,   *)
(* crossing CONNECTs, closed links and repeated activations.               *)
THEOREM LinkedAgree == SessionSpec => []LinksAgree
<1>1. LinkedInv => LinksAgree
  BY DEF LinkedInv
<1> QED
  BY <1>1, LinkedInvariant, PTL

------------------------------------------------------------------------------
(* How many CONNECTs are on their way *)

Places(q, c) == {i \in DOMAIN q : q[i] = c}
Times(q, c) == Cardinality(Places(q, c))

(* The places of an element in a queue are finitely many. *)
LEMMA PlacesFinite ==
  ASSUME NEW S, NEW q \in Seq(S), NEW c
  PROVE  /\ IsFiniteSet(Places(q, c)) /\ Times(q, c) \in Nat
         /\ Places(q, c) = {i \in 1..Len(q) : q[i] = c}
<1>1. DOMAIN q = 1..Len(q) /\ Len(q) \in Nat
  OBVIOUS
<1>2. IsFiniteSet(1..Len(q))
  BY <1>1, FS_Interval
<1>3. Places(q, c) = {i \in 1..Len(q) : q[i] = c}
  BY <1>1 DEF Places
<1>4. IsFiniteSet(Places(q, c))
  BY <1>2, <1>3, FS_Subset
<1> QED
  BY <1>3, <1>4, FS_CardinalityType DEF Times

(* It is not in an empty queue. *)
LEMMA TimesEmpty == \A c : Times(<<>>, c) = 0
<1>1. \A c : Places(<<>>, c) = {}
  BY DEF Places
<1> QED
  BY <1>1, FS_EmptySet DEF Times

(* It is once more in a queue it was put in. *)
LEMMA TimesAppend ==
  ASSUME NEW S, NEW q \in Seq(S), NEW p \in S, NEW c
  PROVE  Times(Append(q, p), c) = Times(q, c) + IF p = c THEN 1 ELSE 0
<1> DEFINE r == Append(q, p)
           n == Len(q)
<1>1. /\ r \in Seq(S) /\ n \in Nat /\ Len(r) = n + 1
      /\ r[n + 1] = p /\ \A i \in 1..n : r[i] = q[i]
      /\ \A i \in 1..Len(r) : i \in 1..n \/ i = n + 1
  BY Appended
<1>2. /\ Places(r, c) = {i \in 1..Len(r) : r[i] = c}
      /\ Places(q, c) = {i \in 1..n : q[i] = c}
      /\ IsFiniteSet(Places(q, c)) /\ Times(q, c) \in Nat
  <2> HIDE DEF r
  <2> QED
    BY <1>1, PlacesFinite
<1> HIDE DEF r, n
<1>3. CASE p = c
  <2>1. Places(r, c) = Places(q, c) \cup {n + 1} /\ n + 1 \notin Places(q, c)
    BY <1>1, <1>2, <1>3
  <2>2. Times(r, c) = Times(q, c) + 1
    BY <1>2, <2>1, FS_AddElement DEF Times
  <2> QED
    BY <1>3, <2>2 DEF r
<1>4. CASE p # c
  <2>1. Places(r, c) = Places(q, c)
    BY <1>1, <1>2, <1>4
  <2>2. Times(r, c) = Times(q, c)
    BY <2>1 DEF Times
  <2> QED
    BY <1>2, <1>4, <2>2 DEF r
<1> QED
  BY <1>3, <1>4

(* It is once less in a queue it was taken from. *)
LEMMA TimesTail ==
  ASSUME NEW S, NEW q \in Seq(S), q # <<>>, NEW c
  PROVE  Times(q, c) = Times(Tail(q), c) + IF Head(q) = c THEN 1 ELSE 0
<1> DEFINE t == Tail(q)
           P == Places(t, c)
           Q == {i \in Places(q, c) : i # 1}
           f == [i \in P |-> i + 1]
<1>1. /\ t \in Seq(S) /\ Len(q) \in Nat /\ Len(q) >= 1 /\ Len(t) = Len(q) - 1
      /\ Head(q) = q[1] /\ \A i \in 1..Len(t) : t[i] = q[i + 1]
  BY HeadTailProperties
<1>2. /\ Places(q, c) = {i \in 1..Len(q) : q[i] = c} /\ IsFiniteSet(Places(q, c))
      /\ P = {i \in 1..Len(t) : t[i] = c} /\ IsFiniteSet(P) /\ Times(t, c) \in Nat
  <2> HIDE DEF t
  <2> QED
    BY <1>1, PlacesFinite
<1> HIDE DEF t
<1>3. f \in Bijection(P, Q)
  <2> HIDE DEF P
  <2>1. \A i \in P : i + 1 \in Q
    BY <1>1, <1>2
  <2>2. f \in [P -> Q]
    BY <2>1
  <2>3. \A i \in P, j \in P : f[i] = f[j] => i = j
    BY <1>2
  <2>4. ASSUME NEW j \in Q PROVE \E i \in P : f[i] = j
    <3>1. j - 1 \in P /\ (j - 1) + 1 = j
      BY <1>1, <1>2
    <3>2. f[j - 1] = j
      BY <3>1
    <3> QED
      BY <3>1, <3>2
  <2> HIDE DEF f, Q
  <2> QED
    BY <2>2, <2>3, <2>4 DEF Bijection, Injection, Surjection, IsInjective
<1> HIDE DEF f
<1>4. Cardinality(Q) = Times(t, c)
  <2>1. ExistsBijection(P, Q)
    BY <1>3 DEF ExistsBijection
  <2> HIDE DEF P, Q
  <2>2. Cardinality(Q) = Cardinality(P)
    BY <1>2, <2>1, FS_Bijection
  <2> QED
    BY <2>2 DEF Times, P
<1>5. CASE Head(q) = c
  <2>1. Places(q, c) = Q \cup {1} /\ 1 \notin Q /\ IsFiniteSet(Q)
    BY <1>1, <1>2, <1>5, FS_Subset
  <2> HIDE DEF Q
  <2>2. Cardinality(Q \cup {1}) = Cardinality(Q) + 1
    BY <2>1, FS_AddElement
  <2> QED
    BY <1>4, <1>5, <2>1, <2>2 DEF Times, t
<1>6. CASE Head(q) # c
  <2>1. Places(q, c) = Q
    BY <1>1, <1>2, <1>6
  <2>2. Times(q, c) = Times(t, c)
    BY <1>4, <2>1 DEF Times
  <2> QED
    BY <1>2, <1>6, <2>2 DEF t
<1> QED
  BY <1>5, <1>6

(* A queue without it adds none. *)
LEMMA TimesConcat ==
  ASSUME NEW S, NEW q \in Seq(S), NEW r \in Seq(S), NEW c,
         \A i \in 1..Len(r) : r[i] # c
  PROVE  Times(q \o r, c) = Times(q, c)
<1> DEFINE s == q \o r
           n == Len(q)
<1>1. /\ s \in Seq(S) /\ n \in Nat /\ Len(r) \in Nat /\ Len(s) = n + Len(r)
      /\ \A i \in 1..n : s[i] = q[i]
      /\ \A i \in (n + 1)..(n + Len(r)) : s[i] = r[i - n] /\ i - n \in 1..Len(r)
  BY ConcatProperties
<1>2. /\ Places(s, c) = {i \in 1..Len(s) : s[i] = c}
      /\ Places(q, c) = {i \in 1..n : q[i] = c}
  <2> HIDE DEF s
  <2> QED
    BY <1>1, PlacesFinite
<1> HIDE DEF s, n
<1>3. Places(s, c) = Places(q, c)
  BY <1>1, <1>2
<1> QED
  BY <1>3 DEF Times, s

------------------------------------------------------------------------------
(* A host that accepts every link and closes none, one activation, and an  *)
(* operator who names no link of the emulated server: its assertions hold. *)

Calm == ~HostCloses /\ ~Reactivates /\ Named \cap Served \subseteq {NoSaps}

IsData(p, l) == p.ptype = "I" /\ p.link = l
Data(q, l) == \E i \in 1..Len(q) : IsData(q[i], l)

Connects(l) == Times(xmit_q, Pdu("CONNECT", l)) + Times(to_host, Pdu("CONNECT", l))
Unanswered(l) == IF link[l] = "wanted" THEN 1 ELSE 0
Busy(l) == Data(xmit_q, l) \/ Data(to_host, l)

OnTheWay ==
  \A l \in Link :
    Connects(l) + Unanswered(l) = IF status[l] = "CONNECTING" THEN 1 ELSE 0

(* An I PDU meets a link the host has heard of, so that no DM is called    *)
(* for; the host's own links are asked for by the host alone; the last     *)
(* link, which the operator may use, is connected; and before the          *)
(* activation nothing happens.                                             *)
Orderly ==
  /\ Running
  /\ OnTheWay
  /\ \A l \in Link : link[l] = "closed" => ~Busy(l)
  /\ \A l \in Link : link[l] # "stray"
  /\ \A l \in Served : status[l] # "CONNECTING"
  /\ last # NoSaps => status[last] = "CONNECTED"
  /\ cleared \/ /\ ~timeout /\ xmit_q = <<>> /\ to_host = <<>>
                /\ \A l \in Link : status[l] = "DISCONNECTED" /\ link[l] = "closed"

OrderlyInv == LinkedInv /\ Placed /\ Orderly

------------------------------------------------------------------------------
(* The traffic *)

(* A PDU enters a queue at its end. *)
Enters(p) ==
  \/ xmit_q' = Append(xmit_q, p) /\ UNCHANGED to_host
  \/ to_host' = Append(to_host, p) /\ UNCHANGED xmit_q

(* All queues hold PDUs. *)
LEMMA QueueTypes ==
  ASSUME LinkedInv
  PROVE  /\ xmit_q \in Seq(Pdus) /\ to_host \in Seq(Pdus)
         /\ \A l \in Link : pending[l] \in Seq(Pdus)
         /\ \A c : Times(xmit_q, c) \in Nat /\ Times(to_host, c) \in Nat
<1>1. QueuedPdus \subseteq Pdus /\ MsgPdus \subseteq Pdus
  BY DEF Pdus, QueuedPdus
<1>2. xmit_q \in Seq(QueuedPdus) /\ \A l \in Link : pending[l] \in Seq(MsgPdus)
  BY DEF LinkedInv, IInv, TypeOK
<1>3. Seq(QueuedPdus) \subseteq Seq(Pdus) /\ Seq(MsgPdus) \subseteq Seq(Pdus)
  BY <1>1
<1>4. to_host \in Seq(Pdus)
  BY DEF LinkedInv, WireInv
<1> QED
  BY <1>2, <1>3, <1>4, PlacesFinite

(* PDUs are told apart by their type. *)
LEMMA PduShapes ==
  /\ \A t, l : Pdu(t, l).ptype = t /\ Pdu(t, l).link = l
  /\ \A l, m, n : I(l, m, n).ptype = "I" /\ I(l, m, n).link = l
  /\ Symm.ptype = "SYMM" /\ Nothing.ptype = "none"
  /\ \A p \in Pdus : /\ p.ptype # "none" /\ (p # Symm => p.link \in Link)
                     /\ p.ptype = "CONNECT" => p = Pdu("CONNECT", p.link)
  /\ \A p \in MsgPdus : p.ptype = "I"
BY DEF Pdu, I, Symm, Nothing, Pdus, QueuedPdus, Responses, MsgPdus

(* One PDU more adds a CONNECT, or data, of its own link. *)
LEMMA EntersTraffic ==
  ASSUME LinkedInv, NEW p \in Pdus, Enters(p), NEW l \in Link
  PROVE  /\ Connects(l)' = Connects(l) + IF p = Pdu("CONNECT", l) THEN 1 ELSE 0
         /\ Busy(l)' => Busy(l) \/ IsData(p, l)
<1> DEFINE c == Pdu("CONNECT", l)
<1>1. /\ xmit_q \in Seq(Pdus) /\ to_host \in Seq(Pdus)
      /\ Times(xmit_q, c) \in Nat /\ Times(to_host, c) \in Nat
  BY QueueTypes
<1>2. ASSUME NEW q \in Seq(Pdus)
      PROVE  /\ Times(Append(q, p), c) = Times(q, c) + IF p = c THEN 1 ELSE 0
             /\ Data(Append(q, p), l) => Data(q, l) \/ IsData(p, l)
  <2>1. Times(Append(q, p), c) = Times(q, c) + IF p = c THEN 1 ELSE 0
    BY TimesAppend
  <2>2. Data(Append(q, p), l) => Data(q, l) \/ IsData(p, l)
    BY Appended DEF Data
  <2> QED
    BY <2>1, <2>2
<1> HIDE DEF c
<1>3. CASE xmit_q' = Append(xmit_q, p) /\ UNCHANGED to_host
  BY <1>1, <1>2, <1>3 DEF Connects, Busy, c
<1>4. CASE to_host' = Append(to_host, p) /\ UNCHANGED xmit_q
  BY <1>1, <1>2, <1>4 DEF Connects, Busy, c
<1> QED
  BY <1>3, <1>4 DEF Enters, c

(* One PDU less brings no data. *)
LEMMA TailTraffic ==
  ASSUME NEW q \in Seq(Pdus), q # <<>>, NEW l \in Link
  PROVE  /\ Tail(q) \in Seq(Pdus) /\ Head(q) \in Pdus
         /\ Data(Tail(q), l) => Data(q, l)
         /\ IsData(Head(q), l) => Data(q, l)
<1>1. /\ Tail(q) \in Seq(Pdus) /\ Head(q) \in Pdus /\ Len(q) \in Nat
      /\ Head(q) = q[1] /\ 1 \in 1..Len(q)
      /\ \A i \in 1..Len(Tail(q)) : Tail(q)[i] = q[i + 1] /\ i + 1 \in 1..Len(q)
  BY HeadTailProperties
<1> QED
  BY <1>1 DEF Data

(* The head of the transmit queue goes to the host. *)
LEMMA HandedTraffic ==
  ASSUME LinkedInv, xmit_q # <<>>, xmit_q' = Tail(xmit_q),
         to_host' = Append(to_host, Head(xmit_q)), NEW l \in Link
  PROVE  Connects(l)' = Connects(l) /\ (Busy(l)' => Busy(l))
<1> DEFINE c == Pdu("CONNECT", l)
           h == Head(xmit_q)
           t == Tail(xmit_q)
<1>1. /\ xmit_q \in Seq(Pdus) /\ to_host \in Seq(Pdus)
      /\ Times(xmit_q, c) \in Nat /\ Times(to_host, c) \in Nat
  BY QueueTypes
<1>2. /\ t \in Seq(Pdus) /\ h \in Pdus
      /\ Data(t, l) => Data(xmit_q, l)
      /\ IsData(h, l) => Data(xmit_q, l)
  BY <1>1, TailTraffic
<1>3. Times(xmit_q, c) = Times(t, c) + IF h = c THEN 1 ELSE 0
  BY <1>1, TimesTail
<1> HIDE DEF c, h, t
<1>4. Times(Append(to_host, h), c) = Times(to_host, c) + IF h = c THEN 1 ELSE 0
  BY <1>1, <1>2, TimesAppend
<1>5. Data(Append(to_host, h), l) => Data(to_host, l) \/ IsData(h, l)
  BY <1>1, <1>2, Appended DEF Data
<1>6. Times(t, c) \in Nat
  BY <1>2, PlacesFinite
<1> QED
  BY <1>1, <1>2, <1>3, <1>4, <1>5, <1>6 DEF Connects, Busy, c, h, t

(* Only messages of a link wait on it. *)
LEMMA MoveTraffic ==
  ASSUME LinkedInv, OnTheirLink, NEW k \in Link,
         xmit_q' = xmit_q \o pending[k], UNCHANGED to_host, NEW l \in Link
  PROVE  Connects(l)' = Connects(l) /\ (Busy(l)' => Busy(l) \/ l = k)
<1> DEFINE c == Pdu("CONNECT", l)
           r == pending[k]
<1>1. xmit_q \in Seq(Pdus) /\ r \in Seq(Pdus) /\ r \in Seq(MsgPdus)
  BY QueueTypes DEF LinkedInv, IInv, TypeOK
<1>2. \A i \in 1..Len(r) : r[i] \in MsgPdus /\ r[i].link = k
  BY <1>1 DEF OnTheirLink
<1>3. \A i \in 1..Len(r) : r[i] # c
  BY <1>2, PduShapes
<1> HIDE DEF c, r
<1>4. Times(xmit_q \o r, c) = Times(xmit_q, c)
  BY <1>1, <1>3, TimesConcat
<1>5. Data(xmit_q \o r, l) => Data(xmit_q, l) \/ l = k
  <2> SUFFICES ASSUME NEW i \in 1..Len(xmit_q \o r), IsData((xmit_q \o r)[i], l), l # k
               PROVE  Data(xmit_q, l)
    BY DEF Data
  <2>1. /\ Len(xmit_q) \in Nat /\ Len(r) \in Nat /\ Len(xmit_q \o r) = Len(xmit_q) + Len(r)
        /\ \A j \in 1..Len(xmit_q) : (xmit_q \o r)[j] = xmit_q[j]
        /\ \A j \in (Len(xmit_q) + 1)..(Len(xmit_q) + Len(r)) :
             (xmit_q \o r)[j] = r[j - Len(xmit_q)] /\ j - Len(xmit_q) \in 1..Len(r)
    BY <1>1, ConcatProperties
  <2>2. CASE i \in 1..Len(xmit_q)
    BY <2>1, <2>2 DEF Data
  <2>3. CASE i \in (Len(xmit_q) + 1)..(Len(xmit_q) + Len(r))
    BY <1>2, <2>1, <2>3 DEF IsData
  <2> QED
    BY <2>1, <2>2, <2>3
<1> QED
  BY <1>4, <1>5 DEF Connects, Busy, c, r

------------------------------------------------------------------------------
(* The steps of a calm session *)

(* A step that leaves the connections as they are, and sends no CONNECT. *)
LEMMA QuietOrderly ==
  ASSUME LinkedInv, Orderly, cleared, UNCHANGED <<status, link, cleared, aborted>>,
         last' = last \/ status[last'] = "CONNECTED",
         \/ UNCHANGED <<xmit_q, to_host>>
         \/ \E p \in Pdus : /\ Enters(p) /\ p.ptype # "CONNECT"
                            /\ p.ptype = "I" => link[p.link] # "closed"
  PROVE  Orderly'
<1>1. ASSUME NEW l \in Link
      PROVE  /\ Connects(l)' = Connects(l)
             /\ Busy(l)' => Busy(l) \/ link[l] # "closed"
  <2>1. CASE UNCHANGED <<xmit_q, to_host>>
    BY <2>1 DEF Connects, Busy
  <2>2. ASSUME NEW p \in Pdus, Enters(p), p.ptype # "CONNECT",
               p.ptype = "I" => link[p.link] # "closed"
        PROVE  /\ Connects(l)' = Connects(l)
               /\ Busy(l)' => Busy(l) \/ link[l] # "closed"
    <3>1. p # Pdu("CONNECT", l)
      BY <2>2, PduShapes
    <3>2. Connects(l) \in Nat
      BY QueueTypes DEF Connects
    <3> QED
      BY <2>2, <3>1, <3>2, EntersTraffic DEF IsData
  <2> QED
    BY <2>1, <2>2
<1>2. OnTheWay'
  BY <1>1 DEF Orderly, OnTheWay, Unanswered
<1> QED
  BY <1>1, <1>2 DEF Orderly, Running

(* The endpoint asks for a connection: once, until it is answered. *)
LEMMA AskOrderly ==
  ASSUME Calm, LinkedInv, Orderly, cleared, NEW l \in Usable,
         status[l] = "DISCONNECTED", SetStatus(l, "CONNECTING"),
         Enters(Pdu("CONNECT", l)), UNCHANGED <<link, last, cleared, aborted>>
  PROVE  Orderly'
<1>1. l \in Link /\ l # NoSaps /\ l \in Named \cup {last}
  BY LinkAssumption DEF Usable, Target, LinkedInv, IInv, TypeOK
<1>2. l # last /\ l \notin Served
  BY <1>1 DEF Calm, Orderly
<1>3. /\ status'[l] = "CONNECTING"
      /\ \A k \in Link \ {l} : status'[k] = status[k]
  BY <1>1 DEF SetStatus, LinkedInv, IInv, TypeOK
<1>4. Pdu("CONNECT", l) \in Pdus
  BY <1>1 DEF Pdus, QueuedPdus
<1>5. ASSUME NEW k \in Link
      PROVE  /\ Connects(k)' = Connects(k) + IF k = l THEN 1 ELSE 0
             /\ Busy(k)' => Busy(k)
  BY <1>4, EntersTraffic, PduShapes DEF IsData
<1>6. \A k \in Link : Connects(k) \in Nat
  BY QueueTypes DEF Connects
<1>7. OnTheWay'
  BY <1>1, <1>3, <1>5, <1>6 DEF Orderly, OnTheWay, Unanswered
<1>8. last # NoSaps => status'[last] = "CONNECTED"
  BY <1>2, <1>3 DEF Orderly, LinkedInv, IInv, TypeOK
<1>9. \A k \in Served : status'[k] # "CONNECTING"
  BY <1>2, <1>3, LinkAssumption DEF Orderly
<1> QED
  BY <1>5, <1>7, <1>8, <1>9 DEF Orderly, Running

(* A connection comes about: the endpoint's CONNECT is answered, or the    *)
(* host's is, on a link for which the endpoint has none on the way.        *)
LEMMA ConnectedOrderly ==
  ASSUME LinkedInv, Orderly, cleared, NEW l \in Link, NEW s \in {"open", "asked"},
         Connects(l) = 0, SetStatus(l, "CONNECTED"), link' = [link EXCEPT ![l] = s],
         last' = l, UNCHANGED <<cleared, aborted>>,
         \A k \in Link : Connects(k)' = Connects(k) /\ (Busy(k)' => Busy(k) \/ k = l)
  PROVE  Orderly'
<1>1. /\ status'[l] = "CONNECTED" /\ link'[l] = s
      /\ \A k \in Link \ {l} : status'[k] = status[k] /\ link'[k] = link[k]
  BY DEF SetStatus, LinkedInv, IInv, TypeOK, WireInv
<1>2. OnTheWay'
  BY <1>1 DEF Orderly, OnTheWay, Unanswered
<1>3. \A k \in Served : status'[k] # "CONNECTING"
  BY <1>1, LinkAssumption DEF Orderly
<1> QED
  BY <1>1, <1>2, <1>3 DEF Orderly, Running

(* The host accepts what it was asked for. *)
LEMMA HostAnswersOrderly ==
  ASSUME Calm, LinkedInv, OnTheirLink, Orderly, NEW l \in Link, HostAnswers(l)
  PROVE  Orderly'
<1>1. /\ link[l] = "wanted" /\ RecvCc(l) /\ link' = [link EXCEPT ![l] = "open"] /\ Carry
  BY DEF HostAnswers, Calm, Orderly
<1>2. Connects(l) \in Nat
  BY QueueTypes DEF Connects
<1>3. status[l] = "CONNECTING" /\ Connects(l) = 0
  BY <1>1, <1>2 DEF Orderly, OnTheWay, Unanswered
<1>4. /\ SetStatus(l, "CONNECTED") /\ MovePending(l) /\ last' = l
      /\ Received(Nothing) /\ cleared
  BY <1>1, <1>3 DEF RecvCc
<1>5. UNCHANGED <<to_host, cleared, aborted>> /\ xmit_q' = xmit_q \o pending[l]
  BY <1>1, <1>4 DEF Received, Carry, MovePending
<1>6. \A k \in Link : Connects(k)' = Connects(k) /\ (Busy(k)' => Busy(k) \/ k = l)
  BY <1>5, MoveTraffic
<1> QED
  BY <1>1, <1>3, <1>4, <1>5, <1>6, ConnectedOrderly

(* The host asks on links of the emulated server only. *)
LEMMA HostConnectsOrderly ==
  ASSUME Calm, LinkedInv, Orderly, NEW l \in Link, HostConnects(l) PROVE Orderly'
<1> DEFINE c == Pdu("CC", l)
<1>1. /\ l \in Served /\ link[l] = "closed" /\ RecvConnect(l)
      /\ link' = [link EXCEPT ![l] = "asked"] /\ Carry
  BY DEF HostConnects
<1>2. Connects(l) \in Nat
  BY QueueTypes DEF Connects
<1>3. Connects(l) = 0
  BY <1>1, <1>2 DEF Orderly, OnTheWay, Unanswered
<1>4. /\ SetStatus(l, "CONNECTED") /\ last' = l /\ Received(c) /\ cleared
      /\ UNCHANGED xmit_q
  BY <1>1 DEF RecvConnect
<1>5. c \in Pdus /\ c # Nothing /\ c.ptype = "CC"
  BY PduShapes DEF Pdus, Responses
<1> HIDE DEF c
<1>6. Running' /\ UNCHANGED <<cleared, aborted>> /\ Enters(c)
  BY <1>1, <1>4, <1>5 DEF Received, Carry, Enters, Orderly, Running
<1>7. \A k \in Link : Connects(k)' = Connects(k) /\ (Busy(k)' => Busy(k) \/ k = l)
  <2> SUFFICES ASSUME NEW k \in Link
               PROVE  Connects(k)' = Connects(k) /\ (Busy(k)' => Busy(k))
    OBVIOUS
  <2>1. c # Pdu("CONNECT", k) /\ ~IsData(c, k)
    BY <1>5, PduShapes DEF IsData
  <2>2. Connects(k) \in Nat
    BY QueueTypes DEF Connects
  <2> QED
    BY <1>5, <1>6, <2>1, <2>2, EntersTraffic
<1> QED
  BY <1>1, <1>3, <1>4, <1>6, <1>7, ConnectedOrderly

(* A put of the host is answered on an open link. *)
LEMMA HostPutsOrderly ==
  ASSUME LinkedInv, Orderly, NEW l \in Link, HostPuts(l) PROVE Orderly'
<1> DEFINE p == Answer(l, "put")
<1>1. /\ l \in Served /\ link[l] = "open" /\ RecvI(l, "put")
      /\ UNCHANGED link /\ Carry
  BY DEF HostPuts
<1>2. status[l] = "CONNECTED"
  BY <1>1 DEF LinkedInv, LinksAgree, Orderly
<1>3. /\ last' = l /\ Received(p) /\ cleared /\ UNCHANGED <<status, xmit_q>>
  BY <1>1 DEF RecvI
<1>4. p \in Pdus /\ p.ptype = "I" /\ p.link = l
  <2>1. p = I(l, SnepRsp, v_s[l]) /\ v_s[l] \in Seqno
    BY <1>1 DEF Answer, LinkedInv, IInv, TypeOK
  <2> QED
    BY <2>1, PduShapes DEF Pdus, Responses
<1> HIDE DEF p
<1>5. p # Nothing /\ UNCHANGED <<cleared, aborted>> /\ Enters(p)
  BY <1>1, <1>3, <1>4, PduShapes DEF Received, Carry, Enters, Orderly, Running
<1> QED
  BY <1>1, <1>2, <1>3, <1>4, <1>5, QuietOrderly

(* Other PDUs of the host bring nothing about. *)
LEMMA HostIdlesOrderly ==
  ASSUME LinkedInv, Orderly, HostIdles PROVE Orderly'
<1>1. /\ Received(Nothing) /\ cleared /\ Carry /\ UNCHANGED <<status, link, xmit_q>>
      /\ last' = last \/ \E l \in Link : link[l] = "open" /\ last' = l
  BY DEF HostIdles, RecvSymm, RecvSupervisory, dl
<1>2. last' = last \/ status[last'] = "CONNECTED"
  BY <1>1 DEF LinkedInv, LinksAgree, Orderly
<1>3. UNCHANGED <<cleared, aborted, to_host>>
  BY <1>1 DEF Received, Carry
<1> QED
  BY <1>1, <1>2, <1>3, QuietOrderly

(* A CONNECT on the wire is the one its link has, and is not yet answered; *)
(* data on the wire meets no closed link.                                  *)
LEMMA HostTakesOrderly ==
  ASSUME LinkedInv, Orderly, HostTakes PROVE Orderly'
<1> DEFINE p == Head(to_host)
<1>1. /\ to_host # <<>> /\ to_host' = Tail(to_host)
      /\ UNCHANGED <<status, xmit_q, last, cleared, aborted>>
      /\ link' = IF p = Symm THEN link ELSE [link EXCEPT ![p.link] = View(p)]
  BY Zenon DEF HostTakes, vars, dl, turn
<1>2. to_host \in Seq(Pdus) /\ cleared
  BY <1>1, QueueTypes DEF Orderly
<1>3. p \in Pdus
  BY <1>1, <1>2
<1>4. ASSUME NEW l \in Link
      PROVE  /\ Connects(l) = Connects(l)' + IF p = Pdu("CONNECT", l) THEN 1 ELSE 0
             /\ Connects(l)' \in Nat
             /\ Busy(l)' => Busy(l)
             /\ IsData(p, l) => Busy(l)
  <2> DEFINE c == Pdu("CONNECT", l)
             t == Tail(to_host)
  <2>1. /\ t \in Seq(Pdus) /\ (Data(t, l) => Data(to_host, l))
        /\ IsData(p, l) => Data(to_host, l)
    BY <1>1, <1>2, TailTraffic
  <2>2. Times(to_host, c) = Times(t, c) + IF p = c THEN 1 ELSE 0
    BY <1>1, <1>2, TimesTail
  <2> HIDE DEF c, t, p
  <2>3. Times(t, c) \in Nat /\ Times(xmit_q, c) \in Nat
    BY <2>1, PlacesFinite, QueueTypes
  <2>4. /\ Connects(l)' = Times(xmit_q, c) + Times(t, c)
        /\ Connects(l) = Times(xmit_q, c) + Times(to_host, c)
    BY <1>1 DEF Connects, c, t
  <2> QED
    BY <1>1, <2>1, <2>2, <2>3, <2>4 DEF Busy, c, t
<1> HIDE DEF p
<1>5. ASSUME NEW l \in Link
      PROVE  \/ p = Pdu("CONNECT", l) /\ link'[l] = "wanted"
             \/ /\ p # Pdu("CONNECT", l)
                /\ \/ link'[l] = link[l]
                   \/ link[l] = "asked" /\ link'[l] = "open"
  <2>1. p # Symm => p.link \in Link
    BY <1>3, PduShapes
  <2>2. CASE p.ptype = "CONNECT" /\ p.link = l
    <3>1. p = Pdu("CONNECT", l) /\ p # Symm /\ View(p) = "wanted"
      BY <1>3, <2>2, PduShapes DEF View
    <3> QED
      BY <1>1, <2>2, <3>1 DEF LinkedInv, WireInv
  <2>3. CASE ~(p.ptype = "CONNECT" /\ p.link = l)
    <3>1. p # Pdu("CONNECT", l)
      BY <2>3, PduShapes
    <3>2. CASE p = Symm \/ p.link # l
      BY <1>1, <2>1, <3>1, <3>2 DEF LinkedInv, WireInv
    <3>3. CASE p # Symm /\ p.link = l
      <4>1. link'[l] = View(p)
        BY <1>1, <3>3 DEF LinkedInv, WireInv
      <4>2. p.ptype = "I" => link[l] # "closed"
        BY <1>4, <3>3 DEF IsData, Orderly
      <4>3. View(p) = link[l] \/ (link[l] = "asked" /\ View(p) = "open")
        BY <2>3, <3>3, <4>2 DEF View
      <4> QED
        BY <3>1, <4>1, <4>3
    <3> QED
      BY <3>2, <3>3
  <2> QED
    BY <2>2, <2>3
<1>6. OnTheWay'
  <2> SUFFICES ASSUME NEW l \in Link
               PROVE  (Connects(l) + Unanswered(l))' =
                        IF status'[l] = "CONNECTING" THEN 1 ELSE 0
    BY DEF OnTheWay
  <2>1. Connects(l) + Unanswered(l) = IF status[l] = "CONNECTING" THEN 1 ELSE 0
    BY DEF Orderly, OnTheWay
  <2>2. CASE p = Pdu("CONNECT", l) /\ link'[l] = "wanted"
    <3>1. Connects(l) = Connects(l)' + 1 /\ Connects(l)' \in Nat /\ Unanswered(l)' = 1
      BY <1>4, <2>2 DEF Unanswered
    <3>2. Unanswered(l) \in {0, 1}
      BY DEF Unanswered
    <3> QED
      BY <1>1, <2>1, <3>1, <3>2
  <2>3. CASE p # Pdu("CONNECT", l) /\ (link'[l] = "wanted" <=> link[l] = "wanted")
    <3>1. Connects(l) = Connects(l)' /\ Unanswered(l)' = Unanswered(l)
      BY <1>4, <2>3 DEF Unanswered
    <3> QED
      BY <1>1, <2>1, <3>1
  <2> QED
    BY <1>5, <2>2, <2>3
<1>7. \A l \in Link : /\ link'[l] = "closed" => link[l] = "closed"
                      /\ link[l] # "stray" => link'[l] # "stray"
  BY <1>5
<1> QED
  BY <1>1, <1>2, <1>4, <1>6, <1>7 DEF Orderly, Running

(* The timeout moves a PDU from the queue to the wire, or adds a SYMM. *)
LEMMA TimeoutOrderly ==
  ASSUME LinkedInv, Orderly, Timeout PROVE Orderly'
<1>1. /\ XmitNext /\ Carry /\ UNCHANGED link
      /\ UNCHANGED <<status, last, cleared, aborted>> /\ cleared /\ Running'
  BY DEF Timeout, XmitNext, hostVars, dl, Orderly, Running
<1>2. CASE Transmit(Symm) /\ UNCHANGED xmit_q
  <2>1. Symm \in Pdus /\ Symm # Nothing /\ Symm.ptype = "SYMM"
    BY PduShapes DEF Pdus
  <2>2. Enters(Symm)
    BY <1>1, <1>2, <2>1 DEF Transmit, Carry, Enters
  <2> QED
    BY <1>1, <2>1, <2>2, QuietOrderly
<1>3. CASE xmit_q # <<>> /\ Transmit(Head(xmit_q)) /\ xmit_q' = Tail(xmit_q)
  <2>1. Head(xmit_q) # Nothing
    BY <1>3, QueueTypes, PduShapes
  <2>2. to_host' = Append(to_host, Head(xmit_q))
    BY <1>1, <1>3, <2>1 DEF Transmit, Carry
  <2>3. \A l \in Link : Connects(l)' = Connects(l) /\ (Busy(l)' => Busy(l))
    BY <1>3, <2>2, HandedTraffic
  <2>4. OnTheWay'
    BY <1>1, <2>3 DEF Orderly, OnTheWay, Unanswered
  <2> QED
    BY <1>1, <2>3, <2>4 DEF Orderly, Running
<1> QED
  BY <1>1, <1>2, <1>3 DEF XmitNext

(* send_pdu_from_re puts the PDU in the queue or on the wire. *)
LEMMA SendPduEnters ==
  ASSUME Running', NEW p \in Pdus, SendPdu(p), Carry PROVE Enters(p)
<1>1. p # Nothing
  BY PduShapes
<1> QED
  BY <1>1 DEF SendPdu, Transmit, Carry, Enters

(* The operator asks where there is no connection, or puts a message. *)
LEMMA OperatorOrderly ==
  ASSUME Calm, LinkedInv, Orderly, OperatorConnects \/ OperatorPuts PROVE Orderly'
<1>1. Usable \subseteq Link
  BY LinkAssumption DEF Usable, Target, LinkedInv, IInv, TypeOK
<1>2. cleared /\ Carry /\ UNCHANGED link
  BY DEF OperatorConnects, OperatorPuts, hostVars
<1>3. \A l \in Link : Pdu("CONNECT", l) \in Pdus
  BY DEF Pdus, QueuedPdus
<1>4. ASSUME NEW l \in Usable, status[l] = "DISCONNECTED", Connect(l),
             UNCHANGED <<last, cleared, aborted>>
      PROVE  Orderly'
  <2>1. Running'
    BY <1>4 DEF Orderly, Running
  <2>2. SetStatus(l, "CONNECTING") /\ Enters(Pdu("CONNECT", l))
    BY <1>1, <1>2, <1>3, <1>4, <2>1, SendPduEnters DEF Connect
  <2> QED
    BY <1>2, <1>4, <2>2, AskOrderly
<1>5. CASE OperatorConnects
  BY <1>4, <1>5 DEF OperatorConnects, LlcpConnect
<1>6. ASSUME NEW l \in Usable, NEW m \in Msg, SnepPut(l, m) PROVE Orderly'
  <2> DEFINE p == CreateIPdu(l, m)
  <2>1. p \in Pdus /\ p.ptype = "I" /\ p.link = l
    <3>1. v_s[l] \in Seqno
      BY <1>1 DEF LinkedInv, IInv, TypeOK
    <3> QED
      BY <1>1, <3>1, MsgPduType, PduShapes DEF CreateIPdu, Pdus, QueuedPdus
  <2> HIDE DEF p
  <2>2. UNCHANGED <<last, cleared, aborted>> /\ Running'
    BY <1>6 DEF SnepPut, Running
  <2>3. CASE status[l] = "DISCONNECTED" /\ Connect(l)
    BY <1>4, <2>2, <2>3
  <2>4. CASE status[l] = "CONNECTING" /\ out' = Nothing /\ UNCHANGED <<status, turn>>
    <3>1. UNCHANGED <<xmit_q, to_host>>
      BY <1>2, <2>4 DEF turn, Carry
    <3> QED
      BY <1>2, <2>2, <2>4, <3>1, QuietOrderly
  <2>5. CASE status[l] = "CONNECTED" /\ SendPdu(p) /\ UNCHANGED status
    <3>1. Enters(p)
      BY <1>2, <2>1, <2>2, <2>5, SendPduEnters
    <3>2. link[l] # "closed"
      BY <1>1, <2>5 DEF LinkedInv, LinksAgree, Orderly
    <3> QED
      BY <1>2, <2>1, <2>2, <2>5, <3>1, <3>2, QuietOrderly
  <2> QED
    BY <1>6, <2>3, <2>4, <2>5 DEF SnepPut, p
<1> QED
  BY <1>5, <1>6 DEF OperatorPuts

(* The one activation comes before everything else. *)
LEMMA ActivationOrderly ==
  ASSUME Calm, LinkedInv, Orderly, Activation PROVE Orderly'
<1>1. /\ ~cleared /\ Clear /\ to_host' = <<>>
      /\ link' = [l \in Link |-> "closed"]
  BY DEF Activation, Calm
<1>2. xmit_q' = <<>> /\ Running' /\ cleared' /\ last' = NoSaps
      /\ status' = [l \in Link |-> "DISCONNECTED"]
  BY <1>1 DEF Clear, turn, Orderly, Running
<1>3. \A l \in Link : ~Busy(l)' /\ Connects(l)' = 0
  BY <1>1, <1>2, TimesEmpty DEF Busy, Data, Connects
<1>4. OnTheWay'
  BY <1>1, <1>2, <1>3 DEF OnTheWay, Unanswered
<1>5. \A l \in Served : status'[l] # "CONNECTING"
  BY <1>2, LinkAssumption
<1> QED
  BY <1>1, <1>2, <1>3, <1>4, <1>5 DEF Orderly

(* Every step preserves the invariant. *)
LEMMA NextOrderlyInv ==
  ASSUME Calm, OrderlyInv, [SessionNext]_sessionVars PROVE OrderlyInv'
<1>1. LinkedInv /\ Placed /\ Orderly /\ IInv /\ OnTheirLink
  BY DEF OrderlyInv, LinkedInv, Placed
<1>2. LinkedInv' /\ Placed'
  BY <1>1, NextLinkedInv, NextPlaced, SessionStepIsEndpoint
<1>3. ASSUME HostTransmits PROVE Orderly'
  <2>1. \A l \in Link : ~HostDisconnects(l)
    BY DEF HostDisconnects, Calm
  <2> QED
    BY <1>1, <1>3, <2>1, HostAnswersOrderly, HostConnectsOrderly, HostPutsOrderly,
       HostIdlesOrderly DEF HostTransmits
<1>4. ASSUME UNCHANGED sessionVars PROVE Orderly'
  BY <1>1, <1>4 DEF sessionVars, vars, dl, turn, hostVars, Orderly, OnTheWay, Running,
                    Connects, Unanswered, Busy
<1>5. Orderly'
  BY <1>1, <1>3, <1>4, HostTakesOrderly, TimeoutOrderly, OperatorOrderly,
     ActivationOrderly DEF SessionNext
<1> QED
  BY <1>2, <1>5 DEF OrderlyInv

(* The initial states satisfy it. *)
LEMMA InitOrderlyInv == SessionInit => OrderlyInv
<1> SUFFICES ASSUME SessionInit PROVE OrderlyInv
  OBVIOUS
<1>1. Placed
  BY DEF SessionInit, Init, Placed, WaitsOnce, QueuedOnce, QueuedOrWaits,
         Accounted, OnTheirLink
<1>2. \A l \in Link : ~Busy(l) /\ Connects(l) = 0
  BY TimesEmpty DEF SessionInit, Init, Busy, Data, Connects
<1>3. OnTheWay
  BY <1>2 DEF SessionInit, Init, OnTheWay, Unanswered
<1>4. Orderly
  BY <1>2, <1>3, LinkAssumption DEF SessionInit, Init, Orderly, Running
<1> QED
  BY <1>1, <1>4, InitLinkedInv DEF OrderlyInv

(* The invariant holds of every calm session. *)
THEOREM OrderlyInvariant ==
  ASSUME Calm PROVE SessionSpec => []OrderlyInv
<1>1. OrderlyInv /\ [SessionNext]_sessionVars => OrderlyInv'
  BY NextOrderlyInv
<1> QED
  BY <1>1, InitOrderlyInv, PTL DEF SessionSpec

(* No assertion of the LLCP layer fails: above all, a CC comes only while  *)
(* its link is connecting.                                                 *)
THEOREM OrderlyNoAbort ==
  ASSUME Calm PROVE SessionSpec => []SessionNoAbort
<1>1. OrderlyInv => SessionNoAbort
  BY DEF OrderlyInv, Orderly, Running, SessionNoAbort
<1> QED
  BY <1>1, OrderlyInvariant, PTL

(* A link that is connecting has one CONNECT on the way, or one that has   *)
(* to be answered, and any other link has none.                            *)
THEOREM OrderlyConnectOnTheWay ==
  ASSUME Calm PROVE SessionSpec => []ConnectOnTheWay
<1>1. OrderlyInv => ConnectOnTheWay
  BY DEF OrderlyInv, Orderly, OnTheWay, Connects, Times, Places, Unanswered,
         ConnectOnTheWay
<1> QED
  BY <1>1, OrderlyInvariant, PTL
================================================================================

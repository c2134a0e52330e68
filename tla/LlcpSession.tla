------------------------------ MODULE LlcpSession ------------------------------
(***************************************************************************)
(* An emulated endpoint (LlcpEndpoint) and the LLCP layer of the host it   *)
(* talks to, over the NCI data packets the emulator carries in order from  *)
(* the endpoint to the host.  The host is external: it takes its turn when *)
(* a PDU has come in, opens links to the emulated SNEP server, answers     *)
(* each CONNECT, and answers an I PDU for a link that is not open with DM. *)
(* The operator uses links the endpoint has and none of SAP 0.             *)
(***************************************************************************)
EXTENDS LlcpEndpoint, FiniteSets

CONSTANTS
  HostCloses,   \* the host may refuse and close links
  Reactivates,  \* the endpoint may be activated again
  MaxWire       \* bound on the PDUs the host has yet to take

ASSUME MaxWireAssumption == MaxWire \in Nat

VARIABLES
  to_host,    \* PDUs on their way to the host
  host_turn,  \* it is the host's turn to transmit
  link,       \* the host's view of a link
  v_r,        \* the host's V(R): number of I PDUs taken on a link
  taken,      \* messages the host has taken
  in_seq      \* every I PDU so far had the number the host expected

hostVars == <<host_turn, link, v_r, taken, in_seq>>
sessionVars == <<vars, to_host, hostVars>>

(* asked: the host's CONNECT is out; wanted: a CONNECT has to be answered; *)
(* stray: a DM has to be sent                                              *)
HostLink == {"closed", "asked", "wanted", "open", "stray"}

SessionInit ==
  /\ Init
  /\ to_host = <<>> /\ host_turn = TRUE
  /\ link = [l \in Link |-> "closed"] /\ v_r = [l \in Link |-> 0]
  /\ taken = {} /\ in_seq = TRUE

(* What the endpoint's step hands over goes on the wire; a failed assert() *)
(* hands over nothing                                                      *)
Carry ==
  to_host' = IF Running' /\ out' # Nothing THEN Append(to_host, out') ELSE to_host

------------------------------------------------------------------------------
(* The host transmits: first what it owes, then what it likes *)

Owes == \E l \in Link : link[l] \in {"wanted", "stray"}

Turn == host_turn /\ host_turn' = FALSE /\ Len(to_host) + 2 <= MaxWire

HostAnswers(l) ==
  /\ Turn
  /\ \/ /\ link[l] = "wanted" /\ RecvCc(l)
        /\ link' = [link EXCEPT ![l] = "open"]
        /\ v_r' = [v_r EXCEPT ![l] = 0]
     \/ /\ \/ link[l] = "wanted" /\ HostCloses
           \/ link[l] = "stray"
        /\ RecvDm(l)
        /\ link' = [link EXCEPT ![l] = "closed"] /\ UNCHANGED v_r
  /\ Carry /\ UNCHANGED <<taken, in_seq>>

HostConnects(l) ==
  /\ Turn /\ ~Owes
  /\ l \in Served /\ link[l] = "closed"
  /\ RecvConnect(l)
  /\ link' = [link EXCEPT ![l] = "asked"]
  /\ Carry /\ UNCHANGED <<v_r, taken, in_seq>>

HostPuts(l) ==
  /\ Turn /\ ~Owes
  /\ l \in Served /\ link[l] = "open"
  /\ RecvI(l, "put")
  /\ Carry /\ UNCHANGED <<link, v_r, taken, in_seq>>

HostDisconnects(l) ==
  /\ Turn /\ ~Owes
  /\ HostCloses /\ link[l] = "open"
  /\ RecvDisc(l)
  /\ link' = [link EXCEPT ![l] = "closed"]
  /\ Carry /\ UNCHANGED <<v_r, taken, in_seq>>

HostIdles ==
  /\ Turn /\ ~Owes
  /\ \/ RecvSymm
     \/ \E l \in Link : link[l] = "open" /\ RecvSupervisory(l)
  /\ Carry /\ UNCHANGED <<link, v_r, taken, in_seq>>

HostTransmits ==
  \/ \E l \in Link : \/ HostAnswers(l) \/ HostConnects(l) \/ HostPuts(l)
                     \/ HostDisconnects(l)
  \/ HostIdles

------------------------------------------------------------------------------
(* The host takes a PDU *)

(* The host's view of p's link once it has taken p *)
View(p) ==
  CASE p.ptype = "CONNECT" -> "wanted"
    [] p.ptype = "CC" /\ link[p.link] = "asked" -> "open"
    [] p.ptype = "I" /\ link[p.link] = "closed" -> "stray"
    [] OTHER -> link[p.link]

HostTakes ==
  /\ to_host # <<>>
  /\ LET p == Head(to_host) IN
       /\ link' = IF p = Symm THEN link ELSE [link EXCEPT ![p.link] = View(p)]
       /\ IF p.ptype = "I" /\ link[p.link] = "open"
          THEN /\ in_seq' = (in_seq /\ p.ns = v_r[p.link])
               /\ v_r' = [v_r EXCEPT ![p.link] = (@ + 1) % SeqMod]
               /\ taken' = taken \cup MsgsOf(p)
          ELSE IF p.ptype = "CC" /\ link[p.link] = "asked"
          THEN v_r' = [v_r EXCEPT ![p.link] = 0] /\ UNCHANGED <<taken, in_seq>>
          ELSE UNCHANGED <<v_r, taken, in_seq>>
  /\ to_host' = Tail(to_host) /\ host_turn' = TRUE
  /\ UNCHANGED vars

------------------------------------------------------------------------------
(* The endpoint and its operator *)

Timeout == XmitNext /\ Carry /\ UNCHANGED hostVars

Usable == Target \ {NoSaps}

OperatorConnects ==
  /\ cleared
  /\ \E l \in Usable : status[l] = "DISCONNECTED" /\ LlcpConnect(l)
  /\ Carry /\ UNCHANGED hostVars

OperatorPuts ==
  /\ cleared
  /\ \E l \in Usable, m \in Msg : SnepPut(l, m)
  /\ Carry /\ UNCHANGED hostVars

(* A new activation ends the host's LLCP link and all its connections *)
Activation ==
  /\ Reactivates \/ ~cleared
  /\ Clear
  /\ to_host' = <<>> /\ host_turn' = TRUE
  /\ link' = [l \in Link |-> "closed"] /\ v_r' = [l \in Link |-> 0]
  /\ UNCHANGED <<taken, in_seq>>

SessionNext ==
  \/ HostTransmits \/ HostTakes
  \/ Timeout
  \/ OperatorConnects \/ OperatorPuts \/ Activation

(* The timer fires, the emulator delivers, and the host uses its turn *)
SessionSpec ==
  /\ SessionInit /\ [][SessionNext]_sessionVars
  /\ WF_sessionVars(Timeout)
  /\ WF_sessionVars(HostTakes) /\ WF_sessionVars(HostTransmits)

------------------------------------------------------------------------------
(* Properties *)

SessionTypeOK ==
  /\ TypeOK
  /\ to_host \in Seq(Pdus) /\ Len(to_host) <= MaxWire + 2
  /\ host_turn \in BOOLEAN /\ link \in [Link -> HostLink]
  /\ v_r \in [Link -> Seqno] /\ taken \subseteq sent /\ in_seq \in BOOLEAN

(* A host that keeps to the protocol makes no assertion of the LLCP layer  *)
(* fail; above all, a CC comes only while the link is connecting.          *)
SessionNoAbort == aborted = "none"

(* A link that is connecting has its CONNECT on the way, once, or before   *)
(* the host to be answered; any other link has none.                       *)
ConnectOnTheWay ==
  LET InQueue(l, q) == {i \in DOMAIN q : q[i] = Pdu("CONNECT", l)}
      Unanswered(l) == IF link[l] = "wanted" THEN 1 ELSE 0
  IN  \A l \in Link :
        Cardinality(InQueue(l, xmit_q)) + Cardinality(InQueue(l, to_host))
          + Unanswered(l) = IF status[l] = "CONNECTING" THEN 1 ELSE 0

(* Host and endpoint agree on the connections, refusals, crossing CONNECTs *)
(* and new activations included: what the host sends on an open link meets *)
(* a connected one, and the operator's messages on a connected link meet a *)
(* host that opened it, asked for it or is asked to open it at that moment. *)
LinksAgree ==
  Running => \A l \in Link :
    /\ link[l] \in {"open", "asked"} => status[l] = "CONNECTED"
    /\ status[l] = "CONNECTED" => link[l] \in {"open", "asked", "wanted"}

(* "on connecting successfully, pending packets will be delivered": every  *)
(* message the operator puts reaches the host, on a link that exists or is *)
(* opened for it, whatever the order of turns, timeouts and connections.   *)
PutIsTaken == \A m \in Msg : m \in put ~> m \in taken

(* assert(dl->status == LLCP_DATA_LINK_CONNECTING) of process_ptype_cc.    *)
CcAnswersConnect == aborted # "cc"

(* "data-link connection state variables; [LLCP], Sec 5.6.1": V(S) numbers *)
(* the I PDUs of a connection, each with the number its peer expects next. *)
InSequence == in_seq
====

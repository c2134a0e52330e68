-------------------------- MODULE EmuSessionProofs --------------------------
(***************************************************************************)
(* Proofs about EmuSession, for any endpoints, links, messages and bounds, *)
(* and with any resets and lost links.                                     *)
(*                                                                         *)
(* The composition adds nothing to its components: its steps are steps of  *)
(* NciSession and of LlcpEndpoint, so the invariants of both hold in it.   *)
(* What only holds of the two together has its own invariant, EmuInv.      *)
(***************************************************************************)
EXTENDS EmuSession, NciSessionProofs

(* The link variables are functions on the links. *)
OnLinks(f) == f = [l \in Link |-> f[l]]
LinkFunctions == OnLinks(status) /\ OnLinks(v_s) /\ OnLinks(waits) /\ OnLinks(rbuf)

(* The turn is there exactly while a timeout will use it. *)
Turn ==
  /\ xmit_next \in BOOLEAN /\ timeout = xmit_next
  /\ since \in Nat /\ late \in Nat

(* Nothing is late while the endpoint talks. *)
InTime == Talks => late = 0

EmuInv == /\ SessionInv /\ LinkFunctions /\ Turn /\ InTime
          /\ DataFindsLinks /\ LateAtMostOnce /\ FreshLinks

Fresh(l) == status[l] = "DISCONNECTED" /\ v_s[l] = 0
            /\ waits[l] = <<>> /\ rbuf[l] = "empty"

------------------------------------------------------------------------------
(* The components take the steps of the composition. *)

(* Every step is one of the controller's session, or none of its own. *)
LEMMA EmuStepIsSession ==
  [EmuNext]_emuVars => [SessionNext]_sessionVars
  BY DEF EmuNext, Controller, Activates, HostSends, TimerFires, OperatorTalks,
         SessionNext, emuVars

(* Every step is one of the endpoint, or none of its own. *)
LEMMA EmuStepIsEndpoint ==
  [EmuNext]_emuVars => [P2p!Next]_(P2p!vars)
<1> SUFFICES ASSUME [EmuNext]_emuVars PROVE [P2p!Next]_(P2p!vars)
  OBVIOUS
<1>1. UNCHANGED p2pVars => UNCHANGED P2p!vars
  BY DEF p2pVars, P2p!vars, P2p!dl, P2p!turn, P2p!wire
<1>2. CASE Controller \/ UNCHANGED emuVars
  BY <1>1, <1>2 DEF Controller, emuVars
<1>3. CASE Activates
  BY <1>1, <1>3 DEF Activates, P2p!Next, P2p!Console
<1>4. CASE HostSends
  BY <1>4 DEF HostSends, P2p!Next, P2p!Recv
<1>5. CASE TimerFires
  BY <1>5 DEF TimerFires, P2p!Next
<1>6. CASE OperatorTalks
  BY <1>6 DEF OperatorTalks, P2p!Next, P2p!Console
<1> QED
  BY <1>2, <1>3, <1>4, <1>5, <1>6 DEF EmuNext

(* The controller becomes active by an activation only, and keeps its      *)
(* endpoint while it is.                                                   *)
LEMMA ActiveBefore ==
  ASSUME SessionInv, rf_state' = "POLL_ACTIVE",
         \/ HostReset \/ HostSetup \/ HostDiscover \/ HostSelect \/ HostDeactivate
         \/ HostData \/ EmulatorDelivers
         \/ OperatorDiscovers \/ OperatorLosesLink
  PROVE  rf_state = "POLL_ACTIVE" /\ active_re' = active_re
<1>1. CASE HostReset \/ HostSetup \/ HostData \/ EmulatorDelivers
           \/ OperatorLosesLink
  BY <1>1 DEF HostReset, IdleCoreReset, InitCoreReset, CoreReset, HostSetup,
              ResetCoreInit, StatusOnly, HostData, NciData, EmulatorDelivers,
              Deliver, OperatorLosesLink, ConsoleDeactivateNtf, NoHistory,
              Abort, dev
<1>2. CASE HostDiscover
  BY <1>2 DEF HostDiscover, RfDiscover, RfTransition, Abort, dev
<1>3. CASE HostSelect
  <2>1. PICK r \in RE : RfDiscoverSelect(known[r], TRUE)
    BY <1>3 DEF HostSelect
  <2> QED
    BY <2>1 DEF RfDiscoverSelect, RfTransition, Abort, dev
<1>4. CASE HostDeactivate
  <2>1. PICK t \in DeactTypes : RfDeactivate(t)
    BY <1>4 DEF HostDeactivate
  <2>2. \/ rf_state \in DeactivateFrom(t) /\ rf_state' = DeactivateTo(t)
        \/ UNCHANGED dev
    BY <2>1 DEF RfDeactivate, RfTransition, Abort
  <2> QED
    BY <2>2, DeactivateToType DEF SessionInv, IInv, dev
<1>5. CASE OperatorDiscovers
  <2>1. PICK r \in RE, type \in NtfTypes : DiscoveryNtf(r, type)
    BY <1>5 DEF OperatorDiscovers
  <2>2. UNCHANGED dev \/ rf_state' \in {"W4_ALL_DISCOVERIES", "W4_HOST_SELECT"}
    BY <2>1, Zenon DEF DiscoveryNtf, RfTransition, Abort
  <2> QED
    BY <2>2 DEF dev
<1> QED
  BY <1>1, <1>2, <1>3, <1>4, <1>5

------------------------------------------------------------------------------
(* What the endpoint's steps do to its links and its turn *)

(* Only the link a PDU or a command names is no longer fresh. *)
Touches(l) == \A k \in Link \ {l} : Fresh(k)' = Fresh(k)

(* What the end of process_llcp does to the turn. *)
LEMMA ReceivedTurn ==
  ASSUME Turn, NEW rsp, P2p!Received(rsp), late' = late
  PROVE  Turn' /\ UNCHANGED cleared
  BY DEF Turn, P2p!Received

(* A failed assertion changes nothing else. *)
LEMMA AbortKeeps ==
  ASSUME Turn, LinkFunctions, NEW a, P2p!Abort(a), late' = late
  PROVE  /\ Turn' /\ LinkFunctions' /\ UNCHANGED <<cleared, since, xmit_next>>
         /\ \A l \in Link : Fresh(l)' = Fresh(l)
  BY DEF Turn, LinkFunctions, OnLinks, Fresh, P2p!Abort, P2p!dl, P2p!turn,
         P2p!wire

(* What a PDU of the host does to the links and the turn. *)
LEMMA PduSteps ==
  ASSUME Turn, LinkFunctions, late' = late, NEW l \in Link,
         \/ P2p!RecvConnect(l) \/ P2p!RecvDisc(l) \/ P2p!RecvCc(l)
         \/ P2p!RecvDm(l) \/ P2p!RecvSupervisory(l)
         \/ \E info \in P2p!Info : P2p!RecvI(l, info)
  PROVE  Turn' /\ LinkFunctions' /\ UNCHANGED cleared /\ Touches(l)
<1>1. CASE P2p!RecvConnect(l)
  <2>1. Turn' /\ UNCHANGED cleared
    BY <1>1, ReceivedTurn DEF P2p!RecvConnect
  <2> QED
    BY <1>1, <2>1 DEF P2p!RecvConnect, P2p!InitDataLinks, P2p!ClearDataLinks,
       P2p!SetStatus, LinkFunctions, OnLinks, Touches, Fresh
<1>2. CASE P2p!RecvDisc(l) \/ P2p!RecvDm(l)
  <2>1. Turn' /\ UNCHANGED cleared
    BY <1>2, ReceivedTurn DEF P2p!RecvDisc, P2p!RecvDm
  <2> QED
    BY <1>2, <2>1 DEF P2p!RecvDisc, P2p!RecvDm, P2p!Disconnect, P2p!SetStatus,
       LinkFunctions, OnLinks, Touches, Fresh
<1>3. CASE P2p!RecvCc(l)
  <2>1. CASE P2p!Abort("cc")
    BY <2>1, AbortKeeps DEF Touches
  <2>2. CASE /\ P2p!ClearDataLinks({l}) /\ P2p!SetStatus(l, "CONNECTED")
             /\ P2p!MovePending(l) /\ P2p!Received(P2p!Nothing)
    <3>1. Turn' /\ UNCHANGED cleared
      BY <2>2, ReceivedTurn
    <3> QED
      BY <2>2, <3>1 DEF P2p!ClearDataLinks, P2p!SetStatus, P2p!MovePending,
         LinkFunctions, OnLinks, Touches, Fresh
  <2> QED
    BY <1>3, <2>1, <2>2 DEF P2p!RecvCc
<1>4. CASE P2p!RecvSupervisory(l)
  <2>1. Turn' /\ UNCHANGED cleared
    BY <1>4, ReceivedTurn DEF P2p!RecvSupervisory
  <2> QED
    BY <1>4, <2>1 DEF P2p!RecvSupervisory, P2p!dl, LinkFunctions, OnLinks,
       Touches, Fresh
<1>5. ASSUME NEW info, P2p!RecvI(l, info)
      PROVE  Turn' /\ LinkFunctions' /\ UNCHANGED cleared /\ Touches(l)
  <2>1. CASE P2p!Abort("snep length")
    BY <2>1, AbortKeeps DEF Touches
  <2>2. CASE /\ \E b : rbuf' = [rbuf EXCEPT ![l] = b]
             /\ P2p!Received(P2p!Answer(l, info))
             /\ UNCHANGED <<status, v_s, waits>>
    <3>1. Turn' /\ UNCHANGED cleared
      BY <2>2, ReceivedTurn
    <3> QED
      BY <2>2, <3>1 DEF LinkFunctions, OnLinks, Touches, Fresh
  <2> QED
    BY <1>5, <2>1, <2>2 DEF P2p!RecvI
<1> QED
  BY <1>1, <1>2, <1>3, <1>4, <1>5

(* A command uses the turn for one PDU, or hands nothing over. *)
UsesTurn ==
  /\ xmit_next' \in BOOLEAN /\ timeout' = xmit_next'
  /\ \/ since' = since /\ xmit_next' = xmit_next
     \/ since' = since + 1 /\ xmit_next /\ ~xmit_next'

(* A PDU of the operator takes the turn, or waits without it. *)
LEMMA SendPduTurn ==
  ASSUME Turn, NEW p, P2p!SendPdu(p) PROVE UsesTurn
<1>1. CASE /\ xmit_next /\ P2p!Transmit(p)
           /\ xmit_next' = FALSE /\ timeout' = FALSE
  BY <1>1 DEF P2p!Transmit, UsesTurn
<1>2. CASE UNCHANGED <<xmit_next, timeout, since>>
  BY <1>2 DEF Turn, UsesTurn
<1> QED
  BY <1>1, <1>2 DEF P2p!SendPdu

(* What a command of the operator does to the links and the turn. *)
LEMMA CommandSteps ==
  ASSUME Turn, LinkFunctions, NEW l,
         \/ P2p!LlcpConnect(l) \/ P2p!SnepShow(l) \/ P2p!SnepPutUncleared(l)
         \/ \E m \in Msg : P2p!SnepPut(l, m)
  PROVE  UsesTurn /\ LinkFunctions' /\ UNCHANGED cleared /\ Touches(l)
<1> DEFINE Goal == UsesTurn /\ LinkFunctions' /\ UNCHANGED cleared /\ Touches(l)
<1>1. ASSUME NEW a, P2p!Abort(a) PROVE Goal
  BY <1>1 DEF Turn, UsesTurn, LinkFunctions, OnLinks, Fresh, Touches,
     P2p!Abort, P2p!dl, P2p!turn, P2p!wire
<1>2. CASE P2p!LlcpConnect(l)
  <2>1. CASE P2p!Connect(l) /\ UNCHANGED <<v_s, waits, rbuf, cleared>>
    <3>1. UsesTurn
      BY <2>1, SendPduTurn DEF P2p!Connect
    <3> QED
      BY <2>1, <3>1 DEF P2p!Connect, P2p!SetStatus, LinkFunctions, OnLinks,
         Touches, Fresh
  <2> QED
    BY <1>1, <1>2, <2>1 DEF P2p!LlcpConnect
<1>3. CASE P2p!SnepShow(l)
  <2>1. CASE UNCHANGED <<P2p!dl, P2p!turn, cleared, since>>
    BY <2>1 DEF P2p!dl, P2p!turn, Turn, UsesTurn, LinkFunctions, OnLinks,
       Touches, Fresh
  <2> QED
    BY <1>1, <1>3, <2>1 DEF P2p!SnepShow
<1>4. CASE P2p!SnepPutUncleared(l)
  BY <1>1, <1>4 DEF P2p!SnepPutUncleared
<1>5. ASSUME NEW m \in Msg, P2p!SnepPut(l, m) PROVE Goal
  <2> DEFINE p == P2p!CreateIPdu(l, m)
  <2>1. UsesTurn
    <3>1. \/ P2p!Connect(l) \/ P2p!SendPdu(p)
          \/ UNCHANGED <<P2p!turn, since>>
      BY <1>5 DEF P2p!SnepPut
    <3>2. CASE UNCHANGED <<P2p!turn, since>>
      BY <3>2 DEF P2p!turn, Turn, UsesTurn
    <3> QED
      BY <3>1, <3>2, SendPduTurn DEF P2p!Connect
  <2>2. /\ \E n : v_s' = [v_s EXCEPT ![l] = n]
        /\ UNCHANGED <<rbuf, cleared>>
        /\ UNCHANGED status \/ status' = [status EXCEPT ![l] = "CONNECTING"]
        /\ UNCHANGED waits \/ \E q : waits' = [waits EXCEPT ![l] = q]
    BY <1>5 DEF P2p!SnepPut, P2p!Connect, P2p!SetStatus
  <2>3. LinkFunctions'
    BY <2>2 DEF LinkFunctions, OnLinks
  <2>4. Touches(l)
    BY <2>2 DEF LinkFunctions, OnLinks, Touches, Fresh
  <2> QED
    BY <2>1, <2>2, <2>3, <2>4
<1> QED
  BY <1>2, <1>3, <1>4, <1>5

------------------------------------------------------------------------------
(* The steps of the composition *)

(* A deactivation, a reset or a selection takes the RF interface away and  *)
(* gives it to no endpoint; the endpoint keeps its turn.                   *)
LEMMA ControllerEmuInv ==
  ASSUME EmuInv, SessionInv', Controller PROVE EmuInv'
<1>1. UNCHANGED <<p2pVars, late, touched>>
  BY DEF Controller
<1>2. Talks' => Talks
  BY ActiveBefore DEF Controller, EmuInv, Talks
<1>3. LinkFunctions' /\ Turn' /\ UNCHANGED <<cleared, status, v_s, waits, rbuf>>
  BY <1>1 DEF EmuInv, LinkFunctions, OnLinks, Turn, p2pVars
<1>4. InTime' /\ DataFindsLinks' /\ FreshLinks'
  BY <1>1, <1>2, <1>3 DEF EmuInv, InTime, DataFindsLinks, FreshLinks
<1>5. LateAtMostOnce'
  <2>1. UNCHANGED <<late, xmit_next>>
    BY <1>1 DEF p2pVars
  <2> QED
    BY <1>2, <2>1 DEF EmuInv, InTime, LateAtMostOnce, Turn
<1> QED
  BY <1>3, <1>4, <1>5 DEF EmuInv

(* The activation of the endpoint clears its links; that of another one    *)
(* takes the RF interface for the other.                                   *)
LEMMA ActivatesEmuInv ==
  ASSUME EmuInv, SessionInv', Activates PROVE EmuInv'
<1>1. PICK r \in RE, rf \in ConsoleRf \cup {-1} :
        ActivatedNtf(r, rf) /\ selected' = r
  BY DEF Activates, OperatorActivates
<1>2. active_re' = r \/ UNCHANGED dev
  BY <1>1, ActivationSteps DEF EmuInv, SessionInv
<1>3. CASE r = p2p
  <2>1. P2p!Clear /\ late' = 0 /\ touched' = {}
    BY <1>1, <1>3 DEF Activates, ClearsLinks
  <2>2. \A l \in Link : Fresh(l)'
    BY <2>1 DEF P2p!Clear, P2p!InitDataLinks, P2p!ClearDataLinks, Fresh
  <2>3. LinkFunctions'
    BY <2>1 DEF P2p!Clear, P2p!InitDataLinks, P2p!ClearDataLinks,
                LinkFunctions, OnLinks
  <2>4. cleared' /\ UNCHANGED <<xmit_next, timeout, since>>
    BY <2>1 DEF P2p!Clear, P2p!turn
  <2>5. Turn' /\ LateAtMostOnce'
    BY <2>1, <2>4 DEF EmuInv, Turn, LateAtMostOnce
  <2>6. InTime' /\ DataFindsLinks' /\ FreshLinks'
    BY <2>1, <2>2, <2>4 DEF InTime, DataFindsLinks, FreshLinks, Fresh
  <2> QED
    BY <2>3, <2>5, <2>6 DEF EmuInv
<1>4. CASE r # p2p
  <2>1. UNCHANGED <<p2pVars, late, touched>>
    BY <1>1, <1>4 DEF Activates, ClearsLinks
  <2>2. Talks' => Talks
    BY <1>2, <1>4 DEF Talks, dev
  <2>3. LinkFunctions' /\ Turn' /\ UNCHANGED <<cleared, status, v_s, waits, rbuf>>
    BY <2>1 DEF EmuInv, LinkFunctions, OnLinks, Turn, p2pVars
  <2>4. InTime' /\ DataFindsLinks' /\ FreshLinks'
    BY <2>1, <2>2, <2>3 DEF EmuInv, InTime, DataFindsLinks, FreshLinks
  <2>5. LateAtMostOnce'
    <3>1. UNCHANGED <<late, xmit_next>>
      BY <2>1 DEF p2pVars
    <3> QED
      BY <2>2, <3>1 DEF EmuInv, InTime, LateAtMostOnce, Turn
  <2> QED
    BY <2>3, <2>4, <2>5 DEF EmuInv
<1> QED
  BY <1>3, <1>4

(* The host sends while its view and the controller agree that the         *)
(* interface is active.                                                    *)
LEMMA HostSendsEmuInv ==
  ASSUME EmuInv, SessionInv', HostSends PROVE EmuInv'
<1>1. Talks /\ late' = late
  BY DEF HostSends, HostData, Alive, EmuInv, SessionInv, HostActiveIsActive, Talks
<1>2. Talks'
  BY <1>1 DEF HostSends, HostData, NciData, Talks, Abort, dev
<1>3. Turn' /\ LinkFunctions' /\ UNCHANGED cleared
      /\ touched \subseteq touched'
      /\ \A l \in Link \ touched' : Fresh(l)' = Fresh(l)
  <2>1. CASE P2p!RecvSymm /\ UNCHANGED touched
    <3>1. Turn' /\ UNCHANGED <<cleared, P2p!dl>>
      BY <1>1, <2>1, ReceivedTurn DEF P2p!RecvSymm, EmuInv
    <3> QED
      BY <2>1, <3>1 DEF P2p!dl, EmuInv, LinkFunctions, OnLinks, Fresh
  <2>2. CASE P2p!RecvUnhandled /\ UNCHANGED touched
    BY <1>1, <2>2, AbortKeeps DEF P2p!RecvUnhandled, EmuInv
  <2>3. ASSUME NEW l \in Link,
               \/ P2p!RecvConnect(l) \/ P2p!RecvDisc(l) \/ P2p!RecvCc(l)
               \/ P2p!RecvDm(l) \/ P2p!RecvSupervisory(l)
               \/ \E info \in P2p!Info : P2p!RecvI(l, info),
               touched' = touched \cup {l}
        PROVE  Turn' /\ LinkFunctions' /\ UNCHANGED cleared
               /\ touched \subseteq touched'
               /\ \A k \in Link \ touched' : Fresh(k)' = Fresh(k)
    <3>1. Turn' /\ LinkFunctions' /\ UNCHANGED cleared /\ Touches(l)
      BY <1>1, <2>3, PduSteps DEF EmuInv
    <3> QED
      BY <2>3, <3>1 DEF Touches
  <2> QED
    BY <2>1, <2>2, <2>3 DEF HostSends
<1>4. InTime' /\ LateAtMostOnce'
  BY <1>1, <1>2 DEF EmuInv, InTime, LateAtMostOnce
<1>5. DataFindsLinks' /\ FreshLinks'
  BY <1>1, <1>3 DEF EmuInv, DataFindsLinks, FreshLinks, Fresh
<1> QED
  BY <1>3, <1>4, <1>5 DEF EmuInv

(* A PDU that is late takes the turn with it, and only the host, which     *)
(* sends nothing to an endpoint that is not active, gives it back.         *)
LEMMA LateTurn ==
  ASSUME EmuInv, UsesTurn, CountLate, UNCHANGED sessionVars
  PROVE  Turn' /\ InTime' /\ LateAtMostOnce'
<1>1. Talks' = Talks
  BY DEF Talks, sessionVars, vars, dev
<1>2. late \in Nat /\ since \in Nat /\ xmit_next \in BOOLEAN
  BY DEF EmuInv, Turn
<1>3. CASE since' = since /\ xmit_next' = xmit_next
  <2>1. late' = late
    BY <1>2, <1>3 DEF CountLate
  <2> QED
    BY <1>1, <1>2, <1>3, <2>1
       DEF EmuInv, UsesTurn, Turn, InTime, LateAtMostOnce
<1>4. CASE since' = since + 1 /\ xmit_next /\ ~xmit_next'
  <2>1. late' = IF Talks THEN late ELSE late + 1
    BY <1>2, <1>4 DEF CountLate
  <2>2. ~Talks => late = 0
    BY <1>2, <1>4 DEF EmuInv, LateAtMostOnce
  <2> QED
    BY <1>1, <1>2, <1>4, <2>1, <2>2
       DEF EmuInv, UsesTurn, Turn, InTime, LateAtMostOnce
<1> QED
  BY <1>3, <1>4 DEF UsesTurn

(* The timeout takes the turn, once. *)
LEMMA TimerEmuInv ==
  ASSUME EmuInv, SessionInv', TimerFires PROVE EmuInv'
<1>1. UsesTurn
  BY DEF TimerFires, P2p!XmitNext, P2p!Transmit, EmuInv, Turn, UsesTurn
<1>2. Turn' /\ InTime' /\ LateAtMostOnce'
  BY <1>1, LateTurn DEF TimerFires
<1>3. UNCHANGED <<status, v_s, waits, rbuf, cleared, touched>> /\ Talks' = Talks
  BY DEF TimerFires, P2p!XmitNext, P2p!dl, Talks, sessionVars, vars, dev
<1>4. LinkFunctions' /\ DataFindsLinks' /\ FreshLinks'
  BY <1>3 DEF EmuInv, LinkFunctions, OnLinks, DataFindsLinks, FreshLinks
<1> QED
  BY <1>2, <1>4 DEF EmuInv

(* A command names a link, or uses up the turn. *)
LEMMA OperatorEmuInv ==
  ASSUME EmuInv, SessionInv', OperatorTalks PROVE EmuInv'
<1>1. PICK l \in P2p!Target :
        /\ \/ P2p!LlcpConnect(l) \/ P2p!SnepShow(l) \/ P2p!SnepPutUncleared(l)
           \/ \E m \in Msg : P2p!SnepPut(l, m)
        /\ touched' = touched \cup {l}
  BY DEF OperatorTalks
<1>2. UsesTurn /\ LinkFunctions' /\ UNCHANGED cleared /\ Touches(l)
  BY <1>1, CommandSteps DEF EmuInv
<1>3. Turn' /\ InTime' /\ LateAtMostOnce'
  BY <1>2, LateTurn DEF OperatorTalks
<1>4. Talks' = Talks
  BY DEF OperatorTalks, Talks, sessionVars, vars, dev
<1>5. DataFindsLinks' /\ FreshLinks'
  BY <1>1, <1>2, <1>4
     DEF EmuInv, DataFindsLinks, FreshLinks, Fresh, Touches
<1> QED
  BY <1>2, <1>3, <1>5 DEF EmuInv

(* Every step preserves the invariant. *)
LEMMA NextEmuInv == EmuInv /\ [EmuNext]_emuVars => EmuInv'
<1> SUFFICES ASSUME EmuInv, [EmuNext]_emuVars PROVE EmuInv'
  OBVIOUS
<1>1. SessionInv'
  BY EmuStepIsSession, NextSessionInv DEF EmuInv
<1>2. CASE UNCHANGED emuVars
  <2>1. UNCHANGED <<p2pVars, late, touched>> /\ Talks' = Talks
    BY <1>2 DEF emuVars, sessionVars, vars, dev, Talks
  <2> QED
    BY <1>1, <2>1 DEF p2pVars, EmuInv, LinkFunctions, OnLinks, Turn, InTime,
       DataFindsLinks, LateAtMostOnce, FreshLinks
<1> QED
  BY <1>1, <1>2, ControllerEmuInv, ActivatesEmuInv, HostSendsEmuInv,
     TimerEmuInv, OperatorEmuInv DEF EmuNext

(* The initial states satisfy it. *)
LEMMA InitEmuInv == EmuInit => EmuInv
<1> SUFFICES ASSUME EmuInit PROVE EmuInv
  OBVIOUS
<1>1. SessionInv
  BY InitSessionInv DEF EmuInit
<1>2. ~Talks
  BY DEF EmuInit, SessionInit, Init, Talks
<1>3. LinkFunctions /\ Turn
  BY DEF EmuInit, P2p!Init, LinkFunctions, OnLinks, Turn
<1>4. InTime /\ DataFindsLinks /\ FreshLinks /\ LateAtMostOnce
  BY <1>2 DEF EmuInit, P2p!Init, InTime, DataFindsLinks, FreshLinks,
              LateAtMostOnce
<1> QED
  BY <1>1, <1>3, <1>4 DEF EmuInv

------------------------------------------------------------------------------
(* Theorems *)

(* The invariant holds of every behaviour of the two together. *)
THEOREM EmuInvariant == EmuSpec => []EmuInv
  BY InitEmuInv, NextEmuInv, PTL DEF EmuSpec

(* The endpoint of the composition is one of LlcpEndpoint: all that is     *)
(* proved of that module holds of it, although the controller decides when *)
(* it hears from the host and when its links are cleared.                  *)
THEOREM EmuEndpoint == EmuSpec => P2p!Spec
<1>1. EmuInit => P2p!Init
  BY DEF EmuInit
<1> QED
  BY <1>1, EmuStepIsEndpoint, PTL DEF EmuSpec, P2p!Spec

(* The controller of the composition is one of NfcDevice. *)
THEOREM EmuDevice == EmuSpec => Spec
<1>1. EmuInit => Init
  BY DEF EmuInit, SessionInit
<1>2. EmuInv /\ [EmuNext]_emuVars => [Next]_vars
  BY EmuStepIsSession, SessionStepIsNext DEF EmuInv, SessionInv
<1> QED
  BY <1>1, <1>2, EmuInvariant, PTL DEF EmuSpec, Spec

(* Data reaches an endpoint only behind nfc_clear_re: each way to an       *)
(* active interface is an activation of the endpoint that is active then.  *)
THEOREM EmuDataFindsLinks == EmuSpec => []DataFindsLinks
<1>1. EmuInv => DataFindsLinks
  BY DEF EmuInv
<1> QED
  BY <1>1, EmuInvariant, PTL

(* An endpoint without the RF interface hands over at most one more PDU,   *)
(* whatever took the interface away and whatever the operator commands.    *)
THEOREM EmuLateAtMostOnce == EmuSpec => []LateAtMostOnce
<1>1. EmuInv => LateAtMostOnce
  BY DEF EmuInv
<1> QED
  BY <1>1, EmuInvariant, PTL

(* Nothing of an earlier activation is left on a link not used in this one. *)
THEOREM EmuFreshLinks == EmuSpec => []FreshLinks
<1>1. EmuInv => FreshLinks
  BY DEF EmuInv
<1> QED
  BY <1>1, EmuInvariant, PTL
==============================================================================

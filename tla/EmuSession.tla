------------------------------ MODULE EmuSession ------------------------------
(***************************************************************************)
(* The controller and one of its NFC-DEP endpoints together: a session of  *)
(* module NciSession in which the host's data and the operator's LLCP and  *)
(* SNEP commands go to nfc->active_re, an activation clears the data links *)
(* of the endpoint, and the endpoint's timer fires whenever it is due.     *)
(*                                                                         *)
(* Here the two components discharge what each assumes of the other.       *)
(* NciSession treats an endpoint as something data is handed to;           *)
(* LlcpEndpoint takes PDUs only after nfc_clear_re.                        *)
(***************************************************************************)
EXTENDS NciSession

CONSTANTS
  p2p,                                              \* the NFC-DEP endpoint
  Link, NoSaps, Served, Named, Msg, SeqMod, MaxQueue  \* see LlcpEndpoint

ASSUME P2pAssumption == p2p \in RE /\ rfproto[p2p] = "NFC_DEP"

VARIABLES
  status, v_s, waits, rbuf, last, xmit_next, timeout, xmit_q, cleared,
  pdu, since, sent, put, llcp_aborted,   \* the endpoint, see LlcpEndpoint
  late,      \* PDUs handed over since the endpoint was active last
  touched    \* links named by a PDU or a command since the last activation

P2p == INSTANCE LlcpEndpoint
         WITH pending <- waits, out <- pdu, aborted <- llcp_aborted

p2pVars == <<status, v_s, waits, rbuf, last, xmit_next, timeout, xmit_q,
             cleared, pdu, since, sent, put, llcp_aborted>>
emuVars == <<sessionVars, p2pVars, late, touched>>

EmuInit == SessionInit /\ P2p!Init /\ late = 0 /\ touched = {}

Alive == aborted = "none" /\ llcp_aborted = "none"

(* The endpoint has the RF interface *)
Talks == rf_state = "POLL_ACTIVE" /\ active_re = p2p

(* What the endpoint hands over while it has no RF interface is counted *)
CountLate == late' = IF Talks \/ since' <= since THEN late ELSE late + 1

(* What the controller does without the endpoint's links.  Data for        *)
(* another endpoint does not come near them either.  T3T polls and HCI     *)
(* commands, which change neither RF state nor endpoint, are left out.     *)
Controller ==
  /\ Alive
  /\ \/ HostReset \/ HostSetup \/ HostDiscover \/ HostSelect \/ HostDeactivate
     \/ EmulatorDelivers
     \/ OperatorDiscovers \/ OperatorLosesLink
     \/ active_re # p2p /\ HostData
  /\ UNCHANGED <<p2pVars, late, touched>>

(* Mutant of ClearsLinks: only a new active endpoint's links are cleared *)
ClearsLinks_New(r) == r = p2p /\ active_re # p2p

(* nfc_rf_intf_activated_ntf_cb clears the endpoint it activates *)
ClearsLinks(r) == r = p2p

Activates ==
  /\ Alive
  /\ OperatorActivates
  /\ IF ClearsLinks(selected')
     THEN P2p!Clear /\ late' = 0 /\ touched' = {}
     ELSE UNCHANGED <<p2pVars, late, touched>>

(* process_nci_dta and nfc_re_process_data: a PDU of the host *)
HostSends ==
  /\ Alive /\ active_re = p2p /\ HostData
  /\ \/ (P2p!RecvSymm \/ P2p!RecvUnhandled) /\ UNCHANGED touched
     \/ \E l \in Link \ {NoSaps} :
          /\ \/ P2p!RecvConnect(l) \/ P2p!RecvDisc(l) \/ P2p!RecvCc(l)
             \/ P2p!RecvDm(l) \/ P2p!RecvSupervisory(l)
             \/ \E info \in P2p!Info : P2p!RecvI(l, info)
          /\ touched' = touched \cup {l}
  /\ UNCHANGED late

(* xmit_next_cb, which asks for no RF state and no active endpoint *)
TimerFires ==
  /\ Alive /\ P2p!XmitNext
  /\ CountLate
  /\ UNCHANGED <<sessionVars, touched>>

(* The console's LLCP and SNEP commands ask for an active endpoint and not *)
(* for an RF interface                                                     *)
OperatorTalks ==
  /\ Alive /\ active_re = p2p
  /\ \E l \in P2p!Target :
       /\ \/ P2p!LlcpConnect(l) \/ P2p!SnepShow(l) \/ P2p!SnepPutUncleared(l)
          \/ \E m \in Msg : P2p!SnepPut(l, m)
       /\ touched' = touched \cup {l}
  /\ CountLate
  /\ UNCHANGED sessionVars

EmuNext == Controller \/ Activates \/ HostSends \/ TimerFires \/ OperatorTalks

EmuSpec == EmuInit /\ [][EmuNext]_emuVars

------------------------------------------------------------------------------
(* Properties *)

(* The controller passes data only to an endpoint whose links and queues   *)
(* nfc_clear_re has set up, although it asks for the RF state alone: every *)
(* way to an active interface leads through an activation of the endpoint  *)
(* that is active then.                                                    *)
DataFindsLinks == Talks => cleared

(* An endpoint that lost the RF interface, by a deactivation or a reset,   *)
(* hands over at most one more PDU until it is activated again: the turn   *)
(* it had is used by the timer or by an operator's command, not by both.   *)
LateAtMostOnce == ~Talks => late + (IF xmit_next THEN 1 ELSE 0) <= 1

(* An endpoint that is active shows and sends nothing of the activation    *)
(* before on a link that was not used in this one: what it received, what  *)
(* waited for a connection, and the state of the connection are gone.      *)
FreshLinks ==
  Talks => \A l \in Link \ touched :
    /\ status[l] = "DISCONNECTED" /\ v_s[l] = 0
    /\ waits[l] = <<>> /\ rbuf[l] = "empty"
===============================================================================

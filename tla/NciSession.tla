------------------------------ MODULE NciSession ------------------------------
(***************************************************************************)
(* The NFC controller driven by a host that follows the RF state machine   *)
(* of [NCI] Figure 10, as the comments of the code cite it, and by an      *)
(* operator who raises only the notifications that state machine allows.   *)
(* The host knows the controller by its responses and notifications alone: *)
(* host_rf is the RF state it concludes from them.                         *)
(*                                                                         *)
(* Host and operator are external to the library; the controller's steps   *)
(* are the actions of NfcDevice.                                           *)
(***************************************************************************)
EXTENDS NfcDevice

CONSTANTS
  ResetWhileActive,  \* the host may reset a controller that is not idle
  LinkLoss           \* the operator may announce the loss of the RF link

VARIABLES
  host_rf,    \* the RF state the host concludes
  waiting,    \* the deactivation the host awaits the notification of
  selected,   \* the endpoint the host selected last, NULL if none
  known       \* the ids announced since the last reset or deactivation

hostVars == <<host_rf, waiting, selected, known>>
sessionVars == <<vars, hostVars>>

SessionInit ==
  /\ Init
  /\ host_rf = "IDLE" /\ waiting = "none" /\ selected = NULL
  /\ known = [r \in RE |-> 0]

(* Where [NCI] Figure 10 takes a controller deactivated with type t *)
Deactivated(t) == CASE t = "IDLE_MODE" -> "IDLE"
                    [] t = "DISCOVERY" -> "DISCOVERY"
                    [] OTHER           -> "W4_HOST_SELECT"

Forgets(rf) ==
  /\ host_rf' = rf /\ waiting' = "none" /\ selected' = NULL
  /\ known' = [r \in RE |-> 0]

(* The host waits for the notification of a deactivation it asked for *)
Ready == waiting = "none"

HostReset ==
  /\ Ready /\ (host_rf = "IDLE" \/ ResetWhileActive)
  /\ \E reset \in BOOLEAN : IdleCoreReset(reset) \/ InitCoreReset(reset)
  /\ Forgets("IDLE")

HostSetup == Ready /\ (ResetCoreInit \/ StatusOnly) /\ UNCHANGED hostVars

HostDiscover ==
  /\ Ready /\ state = "INITIALIZED" /\ host_rf = "IDLE"
  /\ RfDiscover
  /\ host_rf' = "DISCOVERY" /\ UNCHANGED <<waiting, selected, known>>

HostSelect ==
  /\ Ready /\ host_rf = "W4_HOST_SELECT"
  /\ \E r \in RE :
       /\ known[r] # 0
       /\ RfDiscoverSelect(known[r], TRUE)
       /\ selected' = IF out' = Rsp("OK") THEN r ELSE selected
  /\ UNCHANGED <<host_rf, waiting, known>>

HostDeactivate ==
  /\ Ready /\ host_rf # "IDLE"
  /\ \E t \in DeactTypes :
       /\ t = "IDLE_MODE" \/ host_rf = "POLL_ACTIVE"
       /\ RfDeactivate(t)
       /\ IF host_rf = "POLL_ACTIVE"
          THEN waiting' = t /\ UNCHANGED <<host_rf, selected, known>>
          ELSE Forgets("IDLE")

HostPolls == Ready /\ host_rf = "POLL_ACTIVE" /\ T3tPolling /\ UNCHANGED hostVars

HostData == Ready /\ host_rf = "POLL_ACTIVE" /\ NciData /\ UNCHANGED hostVars

(* HCI commands come at any time but between CORE_RESET and CORE_INIT *)
HostHci ==
  /\ state # "RESET"
  /\ \E c \in HciMsgs : HciCmd(c)
  /\ UNCHANGED hostVars

(* A deactivation notification ends the activation in the host's view too *)
EmulatorDelivers ==
  /\ Deliver
  /\ IF Head(pending).func = "deactivate"
     THEN Forgets(Deactivated(Head(pending).type)) ELSE UNCHANGED hostVars

OperatorDiscovers ==
  /\ Ready
  /\ \E r \in RE, type \in NtfTypes :
       /\ \/ host_rf = "DISCOVERY" /\ type = "MORE"
          \/ host_rf = "W4_ALL_DISCOVERIES"
       /\ DiscoveryNtf(r, type)
       /\ IF out' = Nothing THEN UNCHANGED hostVars
          ELSE /\ host_rf' = IF type = "MORE" THEN "W4_ALL_DISCOVERIES"
                                              ELSE "W4_HOST_SELECT"
               /\ known' = [known EXCEPT ![r] = id'[r]]
               /\ UNCHANGED <<waiting, selected>>

(* In discovery the operator names the endpoint to activate; after a       *)
(* selection the selected one is activated.                                *)
OperatorActivates ==
  /\ Ready
  /\ \E r \in RE :
       /\ \/ host_rf = "DISCOVERY" /\ selected = NULL
          \/ host_rf = "W4_HOST_SELECT" /\ selected = r
       /\ \E rf \in ConsoleRf \cup {-1} : ActivatedNtf(r, rf)
       /\ host_rf' = "POLL_ACTIVE" /\ selected' = r
       /\ known' = [known EXCEPT ![r] = id'[r]] /\ UNCHANGED waiting

(* "nci rf_intf_deactivate_ntf" with its default type and reason *)
OperatorLosesLink ==
  /\ LinkLoss /\ Ready /\ host_rf = "POLL_ACTIVE"
  /\ ConsoleDeactivateNtf
  /\ Forgets(Deactivated("DISCOVERY"))

SessionNext ==
  \/ HostReset \/ HostSetup \/ HostDiscover \/ HostSelect \/ HostDeactivate
  \/ HostPolls \/ HostData \/ HostHci
  \/ EmulatorDelivers
  \/ OperatorDiscovers \/ OperatorActivates \/ OperatorLosesLink

SessionSpec == SessionInit /\ [][SessionNext]_sessionVars
                           /\ WF_sessionVars(EmulatorDelivers)

------------------------------------------------------------------------------
(* Properties *)

SessionTypeOK ==
  /\ TypeOK
  /\ host_rf \in RfStates /\ waiting \in DeactTypes \cup {"none"}
  /\ selected \in RE \cup {NULL} /\ known \in [RE -> Ids]

(* A host and an operator that keep to the RF state machine, the host      *)
(* deactivating before it resets, never make an assert() of the NCI layer  *)
(* fail: not those on the RF state, and not assert(nfc->active_re == re).  *)
NoAbort == aborted = "none"

(* What the host concludes from responses and notifications is the state   *)
(* the controller is in, or will be told once a deferred notification that *)
(* is already queued arrives; at no other time do the two differ.          *)
HostViewAgrees ==
  IF Ready THEN host_rf = rf_state
  ELSE /\ host_rf = "POLL_ACTIVE" /\ rf_state = Deactivated(waiting)
       /\ \E i \in DOMAIN pending : pending[i] = DeactivateCb(waiting)

(* The ids the host may select are exactly those of the discovered         *)
(* endpoints, so that each endpoint it was told of can be selected and a   *)
(* "RE already discovered" (nfc_create_rf_discovery_ntf) is one it knows.  *)
KnownIsDiscovered == Ready => known = id

(* A selection of an endpoint the host was told of is accepted. *)
SelectionAccepted ==
  [][HostSelect => out' = Rsp("OK") /\ active_re' = selected']_sessionVars

(* A host that deactivated an active interface is told so in the end: the  *)
(* notification comes from a delivery callback behind other callbacks.     *)
DeactivationArrives == waiting # "none" ~> waiting = "none"

(* The host never takes an RF interface for active that is not, so that    *)
(* its data and its T3T polls always find an endpoint: even if it resets   *)
(* an active controller, if the link is reported lost behind the           *)
(* controller's back, or if the notification of a deactivation comes late. *)
HostActiveIsActive ==
  /\ aborted = "none" /\ Ready /\ host_rf = "POLL_ACTIVE" =>
       rf_state = "POLL_ACTIVE"
  /\ aborted \notin {"data", "t3t_polling_ntf"}

(* assert(nfc->active_re == re) of nfc_create_rf_intf_activated_ntf, for   *)
(* an activation during a new discovery.                                   *)
ActivatedIsActive == aborted # "activated ntf, active_re"

(* assert(rfst != NUMBER_OF_NFC_RFSTS) of nfc_create_rf_intf_activated_ntf,*)
(* for an endpoint activated after the link was reported lost.             *)
ActivatedAfterLinkLoss == aborted # "activated ntf"
====

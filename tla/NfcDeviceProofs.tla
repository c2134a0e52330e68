--------------------------- MODULE NfcDeviceProofs ---------------------------
(***************************************************************************)
(* Proofs about NfcDevice, for every set of endpoints, every number of ids *)
(* and every bound on the deferred notifications.                          *)
(*                                                                         *)
(* TypeOK is not inductive: that data goes to an endpoint at all depends   *)
(* on what an active RF interface implies.  IInv adds this, and the fact   *)
(* that the RF table has poll modes only.                                  *)
(***************************************************************************)
EXTENDS NfcDevice, SeqImagesProofs, FiniteSetTheorems

(* What an active RF interface implies; the conjunction of the invariants  *)
(* ActiveHasEndpoint and HostTalksToActive                                 *)
ActiveKnown ==
  rf_state = "POLL_ACTIVE" =>
    /\ active_re \in RE /\ active_rf \in RF
    /\ id[active_re] # 0 /\ id[active_re] = told

IInv == TypeOK /\ NoListenState /\ ActiveKnown

------------------------------------------------------------------------------
(* Lemmas about the operators *)

(* The interfaces nfc_device_init enters are all in poll modes. *)
LEMMA RfTableModes == \A i \in RF : RfTable[i].mode \in PollModes
  BY DEF RF, RfTable, PollModes

(* A set of table indices that is not empty has a first element. *)
LEMMA FirstRf ==
  ASSUME NEW S \in SUBSET RF, S # {}
  PROVE  \E i \in S : \A j \in S : i <= j
<1>1. PICK k \in S : TRUE
  OBVIOUS
<1>2. CASE 1 \in S
  BY <1>2 DEF RF
<1>3. CASE 1 \notin S /\ 2 \in S
  BY <1>3 DEF RF
<1>4. CASE 1 \notin S /\ 2 \notin S /\ 3 \in S
  BY <1>4 DEF RF
<1>5. CASE S \subseteq 4..8
  <2>1. CASE 4 \in S
    BY <1>5, <2>1
  <2>2. CASE 4 \notin S /\ 5 \in S
    BY <1>5, <2>2
  <2>3. CASE 4 \notin S /\ 5 \notin S /\ 6 \in S
    BY <1>5, <2>3
  <2>4. CASE S \subseteq 7..8
    BY <1>1, <2>4
  <2> QED
    BY <1>5, <2>1, <2>2, <2>3, <2>4
<1> QED
  BY <1>2, <1>3, <1>4, <1>5 DEF RF

(* Every endpoint has an RF interface, the one that a selection or an      *)
(* activation without a given interface uses.                              *)
LEMMA FindRfType == \A r \in RE : FindRf(r) \in RF
<1> SUFFICES ASSUME NEW r \in RE PROVE FindRf(r) \in RF
  OBVIOUS
<1> DEFINE Fits == {i \in RF : /\ RfTable[i].iface = Iface(rfproto[r])
                               /\ RfTable[i].mode = PollMode(mode[r])}
<1>1. /\ Iface(rfproto[r]) \in {"FRAME", "ISO_DEP", "NFC_DEP"}
      /\ Iface(rfproto[r]) = "NFC_DEP" => rfproto[r] = "NFC_DEP"
  BY ProtocolAssumption DEF Iface, Protocols
<1>2. PollMode(mode[r]) \in PollModes
  BY DEF PollMode, PollModes
<1>3. Iface(rfproto[r]) = "NFC_DEP" => PollMode(mode[r]) # "B_POLL"
  BY <1>1, InterfaceAssumption
<1>4. \E i \in 1..8 : /\ RfTable[i].iface = Iface(rfproto[r])
                      /\ RfTable[i].mode = PollMode(mode[r])
  <2>1. CASE Iface(rfproto[r]) = "NFC_DEP"
    BY <1>2, <1>3, <2>1 DEF RfTable, PollModes
  <2>2. CASE Iface(rfproto[r]) = "FRAME"
    BY <1>2, <2>2 DEF RfTable, PollModes
  <2>3. CASE Iface(rfproto[r]) = "ISO_DEP"
    BY <1>2, <2>3 DEF RfTable, PollModes
  <2> QED
    BY <1>1, <2>1, <2>2, <2>3
<1>5. Fits # {} /\ Fits \in SUBSET RF
  BY <1>4 DEF RF
<1>6. \E i \in Fits : \A j \in Fits : i <= j
  <2> HIDE DEF Fits
  <2> QED BY <1>5, FirstRf
<1>7. FindRf(r) = CHOOSE i \in Fits : \A j \in Fits : i <= j
  BY <1>5 DEF FindRf
<1>8. (CHOOSE i \in Fits : \A j \in Fits : i <= j) \in Fits
  <2> HIDE DEF Fits
  <2> QED BY <1>6
<1> QED
  BY <1>5, <1>7, <1>8

(* The id handed out is never the undefined id 0. *)
LEMMA NextIdType == nfcid \in Ids => NextId \in Ids /\ NextId # 0
  BY MaxIdAssumption DEF NextId, Ids

(* A legal deactivation leaves every active state. *)
LEMMA DeactivateToType ==
  ASSUME NEW t, NoListenState, rf_state \in DeactivateFrom(t)
  PROVE  DeactivateTo(t) \in {"IDLE", "DISCOVERY", "W4_HOST_SELECT"}
<1>1. CASE t = "IDLE_MODE"
  BY <1>1, Zenon DEF DeactivateTo
<1>2. CASE t # "IDLE_MODE"
  <2>1. rf_state = "POLL_ACTIVE"
    BY <1>2, ZenonT(30) DEF DeactivateFrom, DeactTypes, NoListenState
  <2> QED
    BY <1>2, <2>1, Zenon DEF DeactivateTo
<1> QED
  BY <1>1, <1>2

(* An activation on an interface of the table leads to POLL_ACTIVE. *)
LEMMA ActivateToPoll ==
  ASSUME NEW r, NEW i \in RF
  PROVE  ActivateTo(ActivationMode(r, i)) = "POLL_ACTIVE"
  BY RfTableModes DEF ActivateTo, ActivationMode

(* The interface an activation uses, if any, is one of the table. *)
LEMMA ActivationRfType ==
  ASSUME TypeOK, NEW r \in RE \cup {NULL}, NEW rf \in ConsoleRf \cup {-1},
         ActivationRf(r, rf) # NULL
  PROVE  r \in RE /\ ActivationRf(r, rf) \in RF
  BY FindRfType, ConsoleRfAssumption DEF TypeOK, ActivationRf

------------------------------------------------------------------------------
(* The steps.  Each lemma is about the steps of one handler. *)

(* The initial state *)
LEMMA InitIInv == Init => IInv
  BY MaxIdAssumption, MaxPendingAssumption
     DEF Init, IInv, TypeOK, NoListenState, ActiveKnown, States, RfStates,
         Ids, Packets, Aborts

(* A failed assertion, and a step that changes nothing but the answer *)
LEMMA AbortIInv ==
  ASSUME IInv, NEW a \in Aborts, Abort(a) PROVE IInv'
  BY DEF IInv, TypeOK, NoListenState, ActiveKnown, Abort, dev

(* A command that is only answered changes nothing else. *)
LEMMA AnswerIInv ==
  ASSUME IInv, out' \in Packets, UNCHANGED dev, UNCHANGED <<told, aborted>>,
         pending' \in Seq(Callbacks), Len(pending') <= MaxPending
  PROVE  IInv'
  BY DEF IInv, TypeOK, NoListenState, ActiveKnown, dev

(* CORE_RESET keeps what an active interface needs. *)
LEMMA CoreResetIInv ==
  ASSUME IInv, NEW reset \in BOOLEAN, CoreReset(reset) PROVE IInv'
  BY DEF IInv, TypeOK, NoListenState, ActiveKnown, CoreReset, States,
         RfStates, Packets

(* CORE_INIT changes the NCI state only. *)
LEMMA CoreInitIInv ==
  ASSUME IInv, ResetCoreInit PROVE IInv'
  BY DEF IInv, TypeOK, NoListenState, ActiveKnown, ResetCoreInit, NoHistory,
         States, Packets

(* RF_DISCOVER starts without an active interface. *)
LEMMA RfDiscoverIInv ==
  ASSUME IInv, RfDiscover PROVE IInv'
<1>1. CASE Abort("RF_DISCOVER")
  BY <1>1, AbortIInv DEF Aborts
<1>2. CASE /\ RfTransition({"IDLE"}, "DISCOVERY") /\ out' = Rsp("OK")
           /\ UNCHANGED <<state, nfcid, active_re, active_rf, id>>
           /\ NoHistory
  BY <1>2 DEF IInv, TypeOK, NoListenState, ActiveKnown, RfTransition,
              NoHistory, RfStates, Packets
<1> QED
  BY <1>1, <1>2 DEF RfDiscover

(* A rejected selection may clear the active interface, but only of an     *)
(* endpoint that no interface fits, and there is none.                     *)
LEMMA RfDiscoverSelectIInv ==
  ASSUME IInv, NEW n \in 0..(MaxId + 1), NEW protoOk \in BOOLEAN,
         RfDiscoverSelect(n, protoOk)
  PROVE  IInv'
<1> DEFINE Found == IF n \in {0, MaxId + 1} \/ ~protoOk THEN {} ELSE GetReById(n)
           Usable == {r \in Found : FindRf(r) # NULL}
<1>1. Usable = Found /\ Found \subseteq RE
  BY FindRfType, REAssumption DEF GetReById
<1>2. CASE /\ Usable = {}
           /\ active_rf' = IF Found = {} THEN active_rf ELSE NULL
           /\ out' = Rsp("REJECTED")
           /\ UNCHANGED <<state, rf_state, nfcid, active_re, id>>
           /\ NoHistory
  BY <1>1, <1>2 DEF IInv, TypeOK, NoListenState, ActiveKnown, NoHistory,
                    Packets, Rejections
<1>3. ASSUME NEW r \in Usable,
             active_rf' = FindRf(r),
             RfTransition(SelectFrom, "W4_HOST_SELECT"),
             active_re' = r, out' = Rsp("OK"),
             UNCHANGED <<state, nfcid, id>>, NoHistory
      PROVE  IInv'
  <2>1. r \in RE /\ FindRf(r) \in RF
    BY <1>1, FindRfType
  <2> HIDE DEF Usable
  <2> QED
    BY <1>3, <2>1 DEF IInv, TypeOK, NoListenState, ActiveKnown, NoHistory,
                      RfTransition, SelectFrom, RfStates, Packets
<1>4. CASE Abort("RF_DISCOVER_SELECT")
  BY <1>4, AbortIInv DEF Aborts
<1> QED
  BY <1>2, <1>3, <1>4 DEF RfDiscoverSelect

(* A deactivation leaves no active interface. *)
LEMMA RfDeactivateIInv ==
  ASSUME IInv, NEW t \in DeactTypes \cup {"unassigned"}, RfDeactivate(t)
  PROVE  IInv'
<1>1. CASE Abort("RF_DEACTIVATE")
  BY <1>1, AbortIInv DEF Aborts
<1>2. CASE /\ RfTransition(DeactivateFrom(t), DeactivateTo(t))
           /\ Len(pending) < MaxPending
           /\ ResetState
           /\ pending' = IF DeactivateNotifies(t)
                         THEN Append(pending, DeactivateCb(t)) ELSE pending
           /\ out' = Rsp("OK")
           /\ UNCHANGED <<state, nfcid, told, aborted>>
  <2>1. rf_state \in DeactivateFrom(t) /\ rf_state' = DeactivateTo(t)
    BY <1>2 DEF RfTransition
  <2>2. rf_state' \in {"IDLE", "DISCOVERY", "W4_HOST_SELECT"}
    BY <2>1, DeactivateToType DEF IInv
  <2>3. t \in DeactTypes
    BY <2>1, Zenon DEF DeactivateFrom
  <2>4. DeactivateCb(t) \in Callbacks
    BY <2>3 DEF Callbacks
  <2>5. pending' \in Seq(Callbacks) /\ Len(pending') <= MaxPending
    BY <1>2, <2>4, MaxPendingAssumption DEF IInv, TypeOK
  <2> QED
    BY <1>2, <2>2, <2>5, MaxIdAssumption
       DEF IInv, TypeOK, NoListenState, ActiveKnown, ResetState, RfStates,
           Ids, Packets
<1> QED
  BY <1>1, <1>2 DEF RfDeactivate

(* A poll leaves a notification and no more. *)
LEMMA T3tPollingIInv ==
  ASSUME IInv, T3tPolling PROVE IInv'
<1>1. PollingCb(active_re) \in Callbacks
  BY DEF IInv, TypeOK, Callbacks
<1>2. pending' \in Seq(Callbacks) /\ Len(pending') <= MaxPending
  BY <1>1, MaxPendingAssumption DEF IInv, TypeOK, T3tPolling
<1> QED
  BY <1>2, AnswerIInv DEF T3tPolling, Packets

(* Data goes to an endpoint: no interface is active without one. *)
LEMMA NciDataIInv ==
  ASSUME IInv, NciData PROVE IInv'
<1>1. CASE Abort("data")
  BY <1>1, AbortIInv DEF Aborts
<1>2. CASE /\ rf_state \in {"POLL_ACTIVE", "LISTEN_ACTIVE"}
           /\ out' = Dta(active_re) /\ UNCHANGED dev /\ NoHistory
  <2>1. active_re \in RE
    BY <1>2 DEF IInv, NoListenState, ActiveKnown
  <2> QED
    BY <1>2, <2>1, AnswerIInv DEF IInv, TypeOK, NoHistory, Packets
<1> QED
  BY <1>1, <1>2 DEF NciData

(* An HCI command leaves the controller as it is. *)
LEMMA HciCmdIInv ==
  ASSUME IInv, NEW c \in HciMsgs, HciCmd(c) PROVE IInv'
<1>1. CASE Abort("hci")
  BY <1>1, AbortIInv DEF Aborts
<1>2. CASE out' \in {HciEvt, Nothing} /\ UNCHANGED dev /\ NoHistory
  BY <1>2, AnswerIInv DEF IInv, TypeOK, NoHistory, Packets
<1> QED
  BY <1>1, <1>2 DEF HciCmd

(* A notification that is delivered is the oldest one. *)
LEMMA DeliverIInv ==
  ASSUME IInv, Deliver PROVE IInv'
<1>1. CASE Abort("t3t_polling_ntf")
  BY <1>1, AbortIInv DEF Aborts
<1>2. CASE /\ out' \in {Ntf("RF_DEACTIVATED"), Ntf("RF_T3T_POLLING")}
           /\ pending' = Tail(pending) /\ UNCHANGED <<dev, told, aborted>>
  <2>1. pending' \in Seq(Callbacks) /\ Len(pending') <= MaxPending
    BY <1>2, MaxPendingAssumption DEF IInv, TypeOK, Deliver
  <2>2. out' \in Packets
    BY <1>2 DEF Packets
  <2> QED
    BY <1>2, <2>1, <2>2, AnswerIInv
<1> QED
  BY <1>1, <1>2 DEF Deliver

(* A discovered endpoint is another one than the active one, which has an  *)
(* id: the id of the active endpoint stays what the host was told.         *)
LEMMA DiscoveryNtfIInv ==
  ASSUME IInv, NEW r \in RE, NEW type \in NtfTypes, DiscoveryNtf(r, type)
  PROVE  IInv'
<1> DEFINE To == IF rf_state = "DISCOVERY" \/ type = "MORE"
                 THEN "W4_ALL_DISCOVERIES" ELSE "W4_HOST_SELECT"
<1>1. CASE Abort("discovery ntf")
  BY <1>1, AbortIInv DEF Aborts
<1>2. CASE out' = Nothing /\ UNCHANGED dev /\ NoHistory
  BY <1>2, AnswerIInv DEF IInv, TypeOK, NoHistory, Packets
<1>3. CASE /\ RfTransition({"DISCOVERY", "W4_ALL_DISCOVERIES"}, To)
           /\ nfcid' = NextId /\ id' = [id EXCEPT ![r] = NextId]
           /\ out' = Ntf("RF_DISCOVER")
           /\ UNCHANGED <<state, active_re, active_rf, pending, told, aborted>>
  <2>1. NextId \in Ids
    BY NextIdType DEF IInv, TypeOK
  <2>2. rf_state' \in {"W4_ALL_DISCOVERIES", "W4_HOST_SELECT"}
    BY <1>3 DEF RfTransition
  <2> QED
    BY <1>3, <2>1, <2>2 DEF IInv, TypeOK, NoListenState, ActiveKnown,
                            RfStates, Packets
<1> QED
  BY <1>1, <1>2, <1>3, Zenon DEF DiscoveryNtf

(* An activation establishes what ActiveKnown says: the assertion on the   *)
(* active endpoint makes the activated endpoint the one data goes to.      *)
LEMMA ActivatedNtfIInv ==
  ASSUME IInv, NEW arg \in RE \cup {NULL}, NEW rf \in ConsoleRf \cup {-1},
         ActivatedNtf(arg, rf)
  PROVE  IInv'
<1> DEFINE r     == IF arg = NULL THEN active_re ELSE arg
           newRf == ActivationRf(r, rf)
           newId == IF id[r] = 0 THEN NextId ELSE id[r]
           m     == ActivationMode(r, newRf)
<1>1. CASE Abort("activated ntf") \/ Abort("activated ntf, active_re")
  BY <1>1, AbortIInv DEF Aborts
<1>2. CASE out' = Nothing /\ UNCHANGED dev /\ NoHistory
  BY <1>2, AnswerIInv DEF IInv, TypeOK, NoHistory, Packets
<1>3. CASE /\ newRf # NULL
           /\ RfTransition(ActivateFrom(m), ActivateTo(m))
           /\ MayActivate(r)
           /\ active_re' = IF active_re = NULL THEN r ELSE active_re
           /\ active_rf' = newRf
           /\ id' = [id EXCEPT ![r] = newId]
           /\ nfcid' = IF id[r] = 0 THEN NextId ELSE nfcid
           /\ told' = newId
           /\ out' = Ntf("RF_INTF_ACTIVATED")
           /\ UNCHANGED <<state, pending, aborted>>
  <2>1. r \in RE \cup {NULL}
    BY DEF IInv, TypeOK
  <2>2. r \in RE /\ newRf \in RF
    <3> HIDE DEF r
    <3> QED
      BY <1>3, <2>1, ActivationRfType DEF IInv
  <2>3. rf_state' = "POLL_ACTIVE"
    BY <1>3, <2>2, ActivateToPoll DEF RfTransition
  <2>4. active_re' = r
    BY <1>3 DEF MayActivate
  <2>5. newId \in Ids /\ newId # 0 /\ nfcid' \in Ids
    <3> HIDE DEF r
    <3> QED
      BY <1>3, <2>2, NextIdType DEF IInv, TypeOK
  <2> HIDE DEF r, newRf, newId, m
  <2>6. id' \in [RE -> Ids] /\ id'[r] = newId
    BY <1>3, <2>2, <2>5 DEF IInv, TypeOK
  <2>7. ActiveKnown'
    BY <1>3, <2>2, <2>4, <2>5, <2>6 DEF ActiveKnown
  <2> QED
    BY <1>3, <2>2, <2>3, <2>4, <2>5, <2>6, <2>7
       DEF IInv, TypeOK, NoListenState, RfStates, Packets
<1> QED
  BY <1>1, <1>2, <1>3, Zenon DEF ActivatedNtf

(* Every step preserves the invariant. *)
LEMMA NextIInv == IInv /\ [Next]_vars => IInv'
<1> SUFFICES ASSUME IInv, [Next]_vars PROVE IInv'
  OBVIOUS
<1>1. CASE NciCmd
  <2>1. CASE SemanticError \/ StatusOnly
    BY <2>1, AnswerIInv DEF IInv, TypeOK, SemanticError, StatusOnly,
                            NoHistory, Packets, Rejections
  <2>2. ASSUME NEW c, UnknownCmd(c) PROVE IInv'
    BY <2>2, AbortIInv DEF UnknownCmd, Aborts
  <2>3. ASSUME NEW reset \in BOOLEAN,
               IdleCoreReset(reset) \/ InitCoreReset(reset)
        PROVE  IInv'
    BY <2>3, CoreResetIInv DEF IdleCoreReset, InitCoreReset
  <2> QED
    BY <1>1, <2>1, <2>2, <2>3, CoreInitIInv, RfDiscoverIInv,
       RfDiscoverSelectIInv, RfDeactivateIInv, T3tPollingIInv DEF NciCmd
<1>2. CASE NciData
  BY <1>2, NciDataIInv
<1>3. CASE Deliver \/ \E c \in HciMsgs : HciCmd(c)
  BY <1>3, DeliverIInv, HciCmdIInv
<1>4. CASE Console
  <2>1. CASE ConsoleDeactivateNtf
    BY <2>1, AnswerIInv DEF IInv, TypeOK, ConsoleDeactivateNtf, NoHistory,
                            Packets
  <2> QED
    BY <1>4, <2>1, DiscoveryNtfIInv, ActivatedNtfIInv DEF Console
<1>5. CASE UNCHANGED vars
  BY <1>5 DEF vars, dev, IInv, TypeOK, NoListenState, ActiveKnown
<1> QED
  BY <1>1, <1>2, <1>3, <1>4, <1>5 DEF Next

------------------------------------------------------------------------------
(* Theorems *)

(* The inductive invariant holds of every behaviour of the controller.     *)
THEOREM DeviceInvariant == Spec => []IInv
  BY InitIInv, NextIInv, PTL DEF Spec

(* Every variable keeps its type, data packets their endpoint included:    *)
(* process_nci_dta never passes a missing endpoint on.                     *)
THEOREM DeviceTypeOK == Spec => []TypeOK
<1>1. IInv => TypeOK
  BY DEF IInv
<1> QED
  BY <1>1, DeviceInvariant, PTL

(* While an RF interface is active there is an active endpoint with an     *)
(* interface and an id, for any endpoints and any number of ids.           *)
THEOREM DeviceActiveHasEndpoint == Spec => []ActiveHasEndpoint
<1>1. IInv => ActiveHasEndpoint
  BY REAssumption DEF IInv, ActiveKnown, ActiveHasEndpoint
<1> QED
  BY <1>1, DeviceInvariant, PTL

(* The endpoint that gets the host's data is the one the last              *)
(* RF_INTF_ACTIVATED_NTF named, after any commands and console operations. *)
THEOREM DeviceHostTalksToActive == Spec => []HostTalksToActive
<1>1. IInv => HostTalksToActive
  BY REAssumption DEF IInv, ActiveKnown, HostTalksToActive
<1> QED
  BY <1>1, DeviceInvariant, PTL

(* No listen state is ever entered, whatever modes the endpoints have.     *)
THEOREM DeviceNoListenState == Spec => []NoListenState
<1>1. IInv => NoListenState
  BY DEF IInv
<1> QED
  BY <1>1, DeviceInvariant, PTL

(* The active endpoint is replaced only by a selection of the host: an     *)
(* activation of another one fails the assertion instead.                  *)
THEOREM DeviceEndpointReplaced == Spec => EndpointReplacedBySelection
<1> DEFINE A == active_re # NULL /\ active_re' \notin {active_re, NULL} =>
                  rf_state = "W4_HOST_SELECT" /\ rf_state' = "W4_HOST_SELECT"
<1>1. ASSUME IInv, [Next]_vars PROVE A \/ UNCHANGED vars
  <2>1. CASE NciCmd
    BY <2>1 DEF NciCmd, SemanticError, StatusOnly, UnknownCmd, IdleCoreReset,
                InitCoreReset, CoreReset, ResetCoreInit, RfDiscover,
                RfDiscoverSelect, RfTransition, SelectFrom, RfDeactivate,
                ResetState, T3tPolling, Abort, NoHistory, dev
  <2>2. CASE NciData \/ Deliver \/ \E c \in HciMsgs : HciCmd(c)
    BY <2>2 DEF NciData, Deliver, HciCmd, Abort, NoHistory, dev
  <2>3. ASSUME NEW r \in RE, NEW type \in NtfTypes, DiscoveryNtf(r, type)
        PROVE  active_re' = active_re
    BY <2>3, Zenon DEF DiscoveryNtf, Abort, NoHistory, dev
  <2>4. ASSUME NEW r \in RE \cup {NULL}, NEW rf \in ConsoleRf \cup {-1},
               ActivatedNtf(r, rf), active_re # NULL
        PROVE  active_re' = active_re
    BY <2>4, Zenon DEF ActivatedNtf, Abort, NoHistory, dev
  <2> QED
    BY <1>1, <2>1, <2>2, <2>3, <2>4
       DEF Next, Console, ConsoleDeactivateNtf, dev
<1> QED
  BY <1>1, DeviceInvariant, PTL DEF Spec, EndpointReplacedBySelection

(* A command that is answered with an error has changed nothing: the       *)
(* interface a selection assigns before it can fail is always the one of   *)
(* an endpoint, so the selection does not fail any more.                   *)
THEOREM DeviceRejectedChangesNothing == Spec => RejectedChangesNothing
<1> DEFINE A == out' \in Rejections => UNCHANGED <<dev, pending>>
<1>1. ASSUME IInv, [Next]_vars PROVE A \/ UNCHANGED vars
  <2>1. ASSUME NEW n \in 0..(MaxId + 1), NEW protoOk \in BOOLEAN,
               RfDiscoverSelect(n, protoOk)
        PROVE  A
    <3> DEFINE Found == IF n \in {0, MaxId + 1} \/ ~protoOk THEN {}
                        ELSE GetReById(n)
               Usable == {r \in Found : FindRf(r) # NULL}
    <3>1. Usable = Found
      BY FindRfType, REAssumption DEF GetReById
    <3>2. \/ Usable = {} /\ active_rf' = (IF Found = {} THEN active_rf ELSE NULL)
             /\ UNCHANGED <<state, rf_state, nfcid, active_re, id>> /\ NoHistory
          \/ out' = Rsp("OK")
          \/ Abort("RF_DISCOVER_SELECT")
      BY <2>1 DEF RfDiscoverSelect
    <3> HIDE DEF Found, Usable
    <3> QED
      BY <3>1, <3>2 DEF Rejections, Rsp, Abort, NoHistory, dev
  <2>2. CASE NciCmd
    <3>1. CASE SemanticError \/ StatusOnly
      BY <3>1 DEF SemanticError, StatusOnly, NoHistory, dev
    <3>2. ASSUME NEW c, UnknownCmd(c) PROVE UNCHANGED <<dev, pending>>
      BY <3>2 DEF UnknownCmd, Abort, dev
    <3>3. ASSUME NEW reset \in BOOLEAN,
                 IdleCoreReset(reset) \/ InitCoreReset(reset)
          PROVE  out' = Rsp("OK")
      BY <3>3 DEF IdleCoreReset, InitCoreReset, CoreReset
    <3>4. CASE ResetCoreInit \/ T3tPolling
      BY <3>4 DEF ResetCoreInit, T3tPolling, Rejections, Rsp
    <3>5. CASE RfDiscover
      BY <3>5 DEF RfDiscover, Abort, Rejections, Rsp, dev
    <3>6. ASSUME NEW t, RfDeactivate(t)
          PROVE  out' = Rsp("OK") \/ UNCHANGED <<dev, pending>>
      BY <3>6 DEF RfDeactivate, Abort, dev
    <3>7. Rsp("OK") \notin Rejections
      BY DEF Rejections, Rsp
    <3> QED
      BY <2>1, <2>2, <3>1, <3>2, <3>3, <3>4, <3>5, <3>6, <3>7 DEF NciCmd
  <2>3. CASE NciData \/ Deliver
    BY <2>3 DEF NciData, Deliver, Abort, NoHistory, Rejections, Rsp, Dta, Ntf
  <2>6. ASSUME NEW c \in HciMsgs, HciCmd(c) PROVE UNCHANGED <<dev, pending>>
    BY <2>6 DEF HciCmd, Abort, NoHistory, dev
  <2>4. ASSUME NEW r \in RE, NEW type \in NtfTypes, DiscoveryNtf(r, type)
        PROVE  \/ out' \in {Nothing, Ntf("RF_DISCOVER")}
               \/ UNCHANGED <<dev, pending>>
    BY <2>4, Zenon DEF DiscoveryNtf, Abort, NoHistory
  <2>5. ASSUME NEW r \in RE \cup {NULL}, NEW rf \in ConsoleRf \cup {-1},
               ActivatedNtf(r, rf)
        PROVE  \/ out' \in {Nothing, Ntf("RF_INTF_ACTIVATED")}
               \/ UNCHANGED <<dev, pending>>
    BY <2>5, Zenon DEF ActivatedNtf, Abort, NoHistory
  <2> QED
    BY <1>1, <2>2, <2>3, <2>4, <2>5, <2>6
       DEF Next, Console, ConsoleDeactivateNtf, NoHistory, Rejections, Rsp,
           Nothing, Ntf
<1> QED
  BY <1>1, DeviceInvariant, PTL DEF Spec, RejectedChangesNothing

(* Adding a callback changes the queue, and tells which one was added. *)
LEMMA AppendTells ==
  ASSUME pending \in Seq(Callbacks), NEW a \in Callbacks, NEW b \in Callbacks
  PROVE  /\ Append(pending, a) # pending
         /\ Append(pending, a) = Append(pending, b) => a = b
<1>1. /\ Len(Append(pending, a)) = Len(pending) + 1
      /\ Append(pending, a)[Len(pending) + 1] = a
      /\ Append(pending, b)[Len(pending) + 1] = b
      /\ Len(pending) \in Nat
  OBVIOUS
<1> QED
  BY <1>1

(* A deactivation notification is left to a delivery callback exactly when *)
(* the command ended an activation: only RF_DEACTIVATE takes an active     *)
(* interface away without a reset, and only it leaves such a callback.     *)
THEOREM DeviceDeactivationNotified == Spec => DeactivationNotified
<1> DEFINE Notifies == \E t \in DeactTypes : pending' = Append(pending, DeactivateCb(t))
           A == /\ (rf_state = "POLL_ACTIVE" /\ rf_state' # "POLL_ACTIVE"
                      /\ state' # "RESET") => Notifies
                /\ Notifies => rf_state \in {"POLL_ACTIVE", "LISTEN_ACTIVE"}
                               /\ rf_state' # rf_state
<1>1. ASSUME IInv, [Next]_vars PROVE A \/ UNCHANGED vars
  <2>1. pending \in Seq(Callbacks) /\ \A t \in DeactTypes : DeactivateCb(t) \in Callbacks
    BY <1>1 DEF IInv, TypeOK, Callbacks
  <2>2. ~Notifies \/ pending' # pending
    BY <2>1, AppendTells
  <2>3. ASSUME UNCHANGED pending,
               rf_state = "POLL_ACTIVE" => rf_state' = "POLL_ACTIVE" \/ state' = "RESET"
        PROVE  A
    BY <2>2, <2>3
  <2>4. ASSUME NEW t \in DeactTypes \cup {"unassigned"}, RfDeactivate(t) PROVE A
    <3>1. CASE Abort("RF_DEACTIVATE")
      BY <2>3, <3>1 DEF Abort, dev
    <3>2. CASE /\ RfTransition(DeactivateFrom(t), DeactivateTo(t))
               /\ pending' = IF DeactivateNotifies(t)
                             THEN Append(pending, DeactivateCb(t)) ELSE pending
      <4>1. rf_state \in DeactivateFrom(t) /\ rf_state' = DeactivateTo(t)
        BY <3>2 DEF RfTransition
      <4>2. rf_state' \in {"IDLE", "DISCOVERY", "W4_HOST_SELECT"}
        BY <1>1, <4>1, DeactivateToType DEF IInv
      <4>3. t \in DeactTypes
        BY <4>1, Zenon DEF DeactivateFrom
      <4>4. rf_state = "POLL_ACTIVE" => DeactivateNotifies(t)
        BY DEF DeactivateNotifies
      <4>5. rf_state # "POLL_ACTIVE" => ~DeactivateNotifies(t)
        <5>1. CASE t = "IDLE_MODE"
          BY <1>1, <4>1, <5>1 DEF DeactivateNotifies, DeactivateFrom, RfStates,
                                  IInv, NoListenState
        <5>2. CASE t # "IDLE_MODE"
          BY <1>1, <4>1, <4>3, <5>2, ZenonT(30)
             DEF DeactivateFrom, DeactTypes, IInv, NoListenState
        <5> QED
          BY <5>1, <5>2
      <4> QED
        BY <2>2, <3>2, <4>2, <4>3, <4>4, <4>5
    <3> QED
      BY <2>4, <3>1, <3>2 DEF RfDeactivate
  <2>5. CASE T3tPolling
    <3>1. PollingCb(active_re) \in Callbacks
      BY <1>1 DEF IInv, TypeOK, Callbacks
    <3>2. \A t \in DeactTypes : DeactivateCb(t) # PollingCb(active_re)
      BY DEF DeactivateCb, PollingCb
    <3>3. ~Notifies
      BY <2>1, <2>5, <3>1, <3>2, AppendTells DEF T3tPolling
    <3> QED
      BY <2>5, <3>3 DEF T3tPolling, dev
  <2>6. CASE Deliver
    <3>1. pending' = pending \/ Len(pending') < Len(pending)
      BY <2>1, <2>6 DEF Deliver, Abort
    <3>2. ~Notifies
      <4> SUFFICES ASSUME NEW t \in DeactTypes,
                          pending' = Append(pending, DeactivateCb(t))
                   PROVE  FALSE
        OBVIOUS
      <4>1. Len(pending') = Len(pending) + 1 /\ Len(pending) \in Nat
        BY <2>1
      <4> QED
        BY <2>2, <3>1, <4>1
    <3> QED
      BY <2>6, <3>2 DEF Deliver, Abort, dev
  <2>7. CASE NciCmd
    <3>1. CASE SemanticError \/ StatusOnly \/ ResetCoreInit \/ RfDiscover
      BY <2>3, <3>1 DEF SemanticError, StatusOnly, ResetCoreInit, RfDiscover,
                        RfTransition, Abort, NoHistory, dev
    <3>2. ASSUME NEW c, UnknownCmd(c) PROVE A
      BY <2>3, <3>2 DEF UnknownCmd, Abort, dev
    <3>3. ASSUME NEW reset \in BOOLEAN,
                 IdleCoreReset(reset) \/ InitCoreReset(reset)
          PROVE  A
      BY <2>3, <3>3 DEF IdleCoreReset, InitCoreReset, CoreReset
    <3>4. ASSUME NEW n \in 0..(MaxId + 1), NEW protoOk \in BOOLEAN,
                 RfDiscoverSelect(n, protoOk)
          PROVE  A
      <4>1. /\ UNCHANGED pending
            /\ rf_state = "POLL_ACTIVE" => rf_state' = "POLL_ACTIVE"
        BY <3>4 DEF RfDiscoverSelect, SelectFrom, RfTransition, Abort, NoHistory, dev
      <4> QED
        BY <2>3, <4>1
    <3> QED
      BY <2>4, <2>5, <2>7, <3>1, <3>2, <3>3, <3>4 DEF NciCmd
  <2>8. CASE NciData \/ \E c \in HciMsgs : HciCmd(c)
    BY <2>3, <2>8 DEF NciData, HciCmd, Abort, NoHistory, dev
  <2>9. CASE Console
    <3>1. CASE ConsoleDeactivateNtf
      BY <2>3, <3>1 DEF ConsoleDeactivateNtf, NoHistory, dev
    <3>2. ASSUME NEW r \in RE, NEW type \in NtfTypes, DiscoveryNtf(r, type)
          PROVE  A
      <4>1. UNCHANGED pending /\ (rf_state = "POLL_ACTIVE" => rf_state' = "POLL_ACTIVE")
        BY <3>2, Zenon DEF DiscoveryNtf, RfTransition, Abort, NoHistory, dev
      <4> QED
        BY <2>3, <4>1
    <3>3. ASSUME NEW arg \in RE \cup {NULL}, NEW rf \in ConsoleRf \cup {-1},
                 ActivatedNtf(arg, rf)
          PROVE  A
      <4>1. /\ UNCHANGED pending
            /\ UNCHANGED rf_state \/ \E m : rf_state \in ActivateFrom(m)
        BY <3>3, Zenon DEF ActivatedNtf, RfTransition, Abort, NoHistory, dev
      <4>2. rf_state = "POLL_ACTIVE" => \A m : rf_state \notin ActivateFrom(m)
        BY DEF ActivateFrom
      <4> QED
        BY <2>3, <4>1, <4>2
    <3> QED
      BY <2>9, <3>1, <3>2, <3>3 DEF Console
  <2> QED
    BY <1>1, <2>4, <2>6, <2>7, <2>8, <2>9 DEF Next
<1> QED
  BY <1>1, DeviceInvariant, PTL DEF Spec, DeactivationNotified

------------------------------------------------------------------------------
(* The controller implements the activations a host is promised.           *)

(* The refinement mapping *)
Active == IF rf_state = "POLL_ACTIVE" THEN id[active_re] ELSE 0
TypeOf == [c \in Deactivations |-> c.type]
Owed   == Images(pending, Deactivations, TypeOf)

(* What a step does to the abstract state *)
Unseen == Active' = Active /\ Owed' = Owed
Starts == Active = 0 /\ Active' \in 1..MaxId /\ Owed' = Owed
EndsBy(t) == Active # 0 /\ Active' = 0 /\ Owed' = Append(Owed, t)
Reports == Owed # <<>> /\ Owed' = Tail(Owed) /\ Active' = Active
Resets == Active' = 0 /\ Owed' = Owed

(* The steps of Activation, by what they do to the active endpoint. *)
LEMMA AbstractSteps ==
  ASSUME \/ Unseen \/ Starts \/ Reports \/ Resets
         \/ \E t \in DeactTypes : EndsBy(t)
  PROVE  [Promise!Next]_(Promise!actVars)
  BY DEF Unseen, Starts, Reports, Resets, EndsBy, Active, Owed, TypeOf,
         Promise!Next, Promise!Activate, Promise!End, Promise!Report,
         Promise!Reset, Promise!actVars

(* The host is owed what a deactivation defers, and not what a poll does. *)
LEMMA OwedAppend ==
  ASSUME TypeOK, NEW c \in Callbacks, pending' = Append(pending, c)
  PROVE  Owed' = IF c.func = "deactivate" THEN Append(Owed, c.type) ELSE Owed
<1>1. c \in Deactivations <=> c.func = "deactivate"
  BY DEF Callbacks, Deactivations, DeactivateCb, PollingCb
<1>2. c \in Deactivations => TypeOf[c] = c.type
  BY DEF TypeOf
<1>3. pending \in Seq(Callbacks)
  BY DEF TypeOK
<1>4. Images(Append(pending, c), Deactivations, TypeOf) =
        IF c \in Deactivations THEN Append(Owed, TypeOf[c]) ELSE Owed
  BY <1>3, ImagesAppend DEF Owed
<1>5. Owed' = Images(Append(pending, c), Deactivations, TypeOf)
  BY DEF Owed, TypeOf, Deactivations, DeactivateCb
<1> QED
  BY <1>1, <1>2, <1>4, <1>5

(* A report that is delivered is owed no longer. *)
LEMMA OwedTail ==
  ASSUME TypeOK, pending # <<>>, pending' = Tail(pending)
  PROVE  \/ Owed' = Owed
         \/ Owed # <<>> /\ Owed' = Tail(Owed)
<1>1. pending \in Seq(Callbacks)
  BY DEF TypeOK
<1>2. IF Head(pending) \in Deactivations
      THEN /\ Images(pending, Deactivations, TypeOf) # <<>>
           /\ Tail(Images(pending, Deactivations, TypeOf)) =
                Images(Tail(pending), Deactivations, TypeOf)
      ELSE Images(Tail(pending), Deactivations, TypeOf) =
             Images(pending, Deactivations, TypeOf)
  BY <1>1, ImagesTail
<1>3. Owed' = Images(Tail(pending), Deactivations, TypeOf)
  BY DEF Owed, TypeOf, Deactivations, DeactivateCb
<1> QED
  BY <1>2, <1>3 DEF Owed

(* Without a report put in or taken out, the same are owed. *)
LEMMA OwedSame ==
  ASSUME UNCHANGED pending PROVE Owed' = Owed
  BY DEF Owed, TypeOf, Deactivations, DeactivateCb

(* No interface is active before and after: what else changes is not seen. *)
LEMMA InactiveUnseen ==
  ASSUME rf_state # "POLL_ACTIVE", rf_state' # "POLL_ACTIVE", UNCHANGED pending
  PROVE  Unseen
  BY OwedSame DEF Unseen, Active

(* What leaves the device alone changes nothing of Activation. *)
LEMMA SameUnseen ==
  ASSUME UNCHANGED <<rf_state, active_re, id, pending>> PROVE Unseen
  BY OwedSame DEF Unseen, Active

Abstract == Unseen \/ Starts \/ Reports \/ Resets
            \/ \E t \in DeactTypes : EndsBy(t)

(* A deactivation ends an activation and owes its report. *)
LEMMA DeactivateAbstract ==
  ASSUME IInv, NEW t \in DeactTypes \cup {"unassigned"}, RfDeactivate(t)
  PROVE  Abstract
<1>1. CASE Abort("RF_DEACTIVATE")
  BY <1>1, SameUnseen DEF Abort, dev, Abstract
<1>2. CASE /\ RfTransition(DeactivateFrom(t), DeactivateTo(t))
           /\ pending' = IF DeactivateNotifies(t)
                         THEN Append(pending, DeactivateCb(t)) ELSE pending
  <2>1. rf_state \in DeactivateFrom(t) /\ rf_state' = DeactivateTo(t)
    BY <1>2 DEF RfTransition
  <2>2. rf_state' # "POLL_ACTIVE"
    BY <2>1, DeactivateToType DEF IInv
  <2>3. t \in DeactTypes
    BY <2>1, Zenon DEF DeactivateFrom
  <2>4. CASE rf_state = "POLL_ACTIVE"
    <3>1. pending' = Append(pending, DeactivateCb(t))
      BY <1>2, <2>4 DEF DeactivateNotifies
    <3>2. DeactivateCb(t) \in Callbacks /\ DeactivateCb(t).func = "deactivate"
          /\ DeactivateCb(t).type = t
      BY <2>3 DEF Callbacks, DeactivateCb
    <3>3. Owed' = Append(Owed, t)
      BY <3>1, <3>2, OwedAppend DEF IInv
    <3>4. Active # 0 /\ Active' = 0
      BY <2>2, <2>4 DEF Active, IInv, ActiveKnown
    <3> QED
      BY <2>3, <3>3, <3>4 DEF EndsBy, Abstract
  <2>5. CASE rf_state # "POLL_ACTIVE"
    <3>1. t = "IDLE_MODE"
      BY <2>1, <2>3, <2>5, ZenonT(30)
         DEF DeactivateFrom, DeactTypes, IInv, NoListenState
    <3>2. ~DeactivateNotifies(t)
      BY <2>1, <2>5, <3>1 DEF DeactivateNotifies, DeactivateFrom, RfStates,
                              IInv, NoListenState
    <3> QED
      BY <1>2, <2>2, <2>5, <3>2, InactiveUnseen DEF Abstract
  <2> QED
    BY <2>4, <2>5
<1> QED
  BY <1>1, <1>2 DEF RfDeactivate

(* Of the commands, the resets and the deactivation are seen. *)
LEMMA CmdAbstract ==
  ASSUME IInv, NciCmd PROVE Abstract
<1>1. CASE SemanticError \/ StatusOnly \/ ResetCoreInit
           \/ \E c \in Cmds \cup {"unassigned"} : UnknownCmd(c)
  BY <1>1, SameUnseen DEF SemanticError, StatusOnly, ResetCoreInit, UnknownCmd,
     Abort, NoHistory, dev, Abstract
<1>2. ASSUME NEW reset \in BOOLEAN, CoreReset(reset) PROVE Abstract
  <2>1. CASE rf_state' = rf_state
    BY <1>2, <2>1, SameUnseen DEF CoreReset, Abstract
  <2>2. CASE rf_state' = "IDLE"
    BY <1>2, <2>2, OwedSame DEF CoreReset, Abstract, Resets, Active
  <2> QED
    BY <1>2, <2>1, <2>2 DEF CoreReset
<1>3. CASE RfDiscover
  BY <1>3, SameUnseen, InactiveUnseen DEF RfDiscover, RfTransition, Abort,
     NoHistory, dev, Abstract
<1>4. ASSUME NEW n, NEW protoOk, RfDiscoverSelect(n, protoOk) PROVE Abstract
  <2>1. \/ UNCHANGED <<rf_state, active_re, id, pending>>
        \/ UNCHANGED pending /\ rf_state = "W4_HOST_SELECT"
           /\ rf_state' = "W4_HOST_SELECT"
    BY <1>4 DEF RfDiscoverSelect, RfTransition, SelectFrom, Abort, NoHistory, dev
  <2> QED
    BY <2>1, SameUnseen, InactiveUnseen DEF Abstract
<1>5. CASE T3tPolling
  <2>1. PollingCb(active_re) \in Callbacks
        /\ PollingCb(active_re).func # "deactivate"
    BY DEF Callbacks, PollingCb, IInv, TypeOK
  <2>2. Owed' = Owed
    BY <1>5, <2>1, OwedAppend DEF T3tPolling, IInv
  <2> QED
    BY <1>5, <2>2 DEF T3tPolling, dev, Unseen, Active, Abstract
<1> QED
  BY <1>1, <1>2, <1>3, <1>4, <1>5, DeactivateAbstract
     DEF NciCmd, IdleCoreReset, InitCoreReset

(* The reports are delivered in the order they became due. *)
LEMMA DeliverAbstract ==
  ASSUME IInv, Deliver PROVE Abstract
<1>1. CASE Abort("t3t_polling_ntf")
  BY <1>1, SameUnseen DEF Abort, dev, Abstract
<1>2. CASE pending' = Tail(pending) /\ UNCHANGED dev
  <2>1. Active' = Active
    BY <1>2 DEF Active, dev
  <2> QED
    BY <1>2, <2>1, OwedTail DEF Deliver, IInv, Abstract, Unseen, Reports
<1> QED
  BY <1>1, <1>2 DEF Deliver

(* An activation begins where there is none. *)
LEMMA ActivatedAbstract ==
  ASSUME IInv, NEW arg \in RE \cup {NULL}, NEW rf \in ConsoleRf \cup {-1},
         ActivatedNtf(arg, rf)
  PROVE  Abstract
<1>1. \/ UNCHANGED dev
      \/ \E m : rf_state \in ActivateFrom(m) /\ rf_state' = ActivateTo(m)
  BY Zenon DEF ActivatedNtf, RfTransition, Abort
<1>2. UNCHANGED pending
  BY Zenon DEF ActivatedNtf, NoHistory, Abort
<1>3. IInv'
  BY ActivatedNtfIInv
<1>4. CASE UNCHANGED dev
  BY <1>2, <1>4, SameUnseen DEF dev, Abstract
<1>5. CASE rf_state # "POLL_ACTIVE" /\ rf_state' = "POLL_ACTIVE"
  <2>1. Active = 0
    BY <1>5 DEF Active
  <2>2. Active' \in 1..MaxId
    BY <1>3, <1>5 DEF Active, IInv, TypeOK, ActiveKnown, Ids
  <2> QED
    BY <1>2, <2>1, <2>2, OwedSame DEF Starts, Abstract
<1>6. CASE rf_state # "POLL_ACTIVE" /\ rf_state' # "POLL_ACTIVE"
  BY <1>2, <1>6, InactiveUnseen DEF Abstract
<1>7. \A m : "POLL_ACTIVE" \notin ActivateFrom(m)
  BY DEF ActivateFrom
<1> QED
  BY <1>1, <1>4, <1>5, <1>6, <1>7

(* Every step is one of Activation, or none. *)
LEMMA NextAbstract ==
  ASSUME IInv, [Next]_vars PROVE Abstract
<1>1. CASE NciData \/ \E c \in HciMsgs : HciCmd(c)
  BY <1>1, SameUnseen DEF NciData, HciCmd, Abort, NoHistory, dev, Abstract
<1>2. CASE ConsoleDeactivateNtf \/ UNCHANGED vars
  BY <1>2, SameUnseen DEF ConsoleDeactivateNtf, NoHistory, vars, dev, Abstract
<1>3. ASSUME NEW r \in RE, NEW type \in NtfTypes, DiscoveryNtf(r, type)
      PROVE  Abstract
  <2>1. UNCHANGED pending
        /\ \/ UNCHANGED dev
           \/ rf_state \in {"DISCOVERY", "W4_ALL_DISCOVERIES"}
              /\ rf_state' \in {"W4_ALL_DISCOVERIES", "W4_HOST_SELECT"}
    BY <1>3, Zenon DEF DiscoveryNtf, RfTransition, NoHistory, Abort
  <2> QED
    BY <2>1, SameUnseen, InactiveUnseen DEF dev, Abstract
<1> QED
  BY <1>1, <1>2, <1>3, CmdAbstract, DeliverAbstract, ActivatedAbstract
     DEF Next, Console

(* For every behaviour of the controller the ends of its activations are   *)
(* reported to the host once each, in order, and no other endpoint is      *)
(* active before the one before it has ended.                              *)
THEOREM DeviceImplementsActivation == Spec => ImplementsActivation
<1>1. Init => Promise!Init
  <2> SUFFICES ASSUME Init PROVE Promise!Init
    OBVIOUS
  <2>1. Images(<<>>, Deactivations, TypeOf) = <<>>
    BY ImagesEmpty
  <2> QED
    BY <2>1 DEF Init, Promise!Init, TypeOf
<1>2. IInv /\ [Next]_vars => [Promise!Next]_(Promise!actVars)
  BY NextAbstract, AbstractSteps DEF Abstract
<1> QED
  BY <1>1, <1>2, DeviceInvariant, PTL
     DEF Spec, ImplementsActivation, Promise!Spec

------------------------------------------------------------------------------
(***************************************************************************)
(* The discovery ids of NfcDevice are unique, for every set of endpoints   *)
(* and every number of ids that gives each endpoint one.                   *)
(*                                                                         *)
(* Uniqueness is not inductive: the counter wraps around, and an endpoint  *)
(* could still hold the id that comes next.  The argument counts how many  *)
(* ids were handed out after an endpoint's: at most one for each other     *)
(* live endpoint, since an endpoint gets an id once and all lose it        *)
(* together.  So the next id is that of no live endpoint.                  *)
(***************************************************************************)

(* The endpoints that have an id *)
Live == {r \in RE : id[r] # 0}

(* The number of ids handed out since id i, if n was the last one *)
AgeOf(i, n) == IF i <= n THEN n - i ELSE n - i + MaxId

AgesBounded == \A r \in Live : AgeOf(id[r], nfcid) < Cardinality(Live)

IdInv == AgesBounded /\ IdsUnique

------------------------------------------------------------------------------
(* The id after the last one is the first. *)
LEMMA NextIdWraps ==
  ASSUME nfcid \in Ids
  PROVE  NextId = IF nfcid = MaxId THEN 1 ELSE nfcid + 1
<1>1. nfcid % MaxId = IF nfcid = MaxId THEN 0 ELSE nfcid
  BY MaxIdAssumption DEF Ids
<1> QED
  BY <1>1, MaxIdAssumption DEF NextId, Ids

(* An id that is not the oldest possible is not handed out next, and ages  *)
(* by one.                                                                 *)
LEMMA Ageing ==
  ASSUME nfcid \in Ids, NEW i \in 1..MaxId, AgeOf(i, nfcid) < MaxId - 1
  PROVE  i # NextId /\ AgeOf(i, NextId) = AgeOf(i, nfcid) + 1
  BY NextIdWraps, MaxIdAssumption DEF Ids, AgeOf

(* The endpoints that have an id are fewer than the ids, unless all have   *)
(* one.                                                                    *)
LEMMA LiveBounded ==
  ASSUME NEW r \in RE, id[r] = 0
  PROVE  /\ IsFiniteSet(Live) /\ Cardinality(Live) \in Nat
         /\ Cardinality(Live) <= MaxId - 1
         /\ Cardinality(Live \cup {r}) = Cardinality(Live) + 1
<1>1. IsFiniteSet(Live) /\ Live \cup {r} \subseteq RE /\ r \notin Live
  BY REAssumption, FS_Subset DEF Live
<1>2. /\ Cardinality(Live) \in Nat
      /\ Cardinality(Live \cup {r}) = Cardinality(Live) + 1
  BY <1>1, FS_CardinalityType, FS_AddElement
<1>3. Cardinality(Live \cup {r}) <= Cardinality(RE) /\ Cardinality(RE) \in Nat
  BY <1>1, REAssumption, FS_Subset, FS_CardinalityType
<1> QED
  BY <1>1, <1>2, <1>3, MaxIdAssumption

------------------------------------------------------------------------------
(* A step gives an id to one endpoint that has none, or takes all ids away, *)
(* or does nothing to them.                                                *)
HandsOut(r) ==
  id[r] = 0 /\ nfcid' = NextId /\ id' = [id EXCEPT ![r] = NextId]
TakesAway == nfcid' = nfcid /\ id' = [r \in RE |-> 0]

(* What a step can do to the ids. *)
LEMMA IdSteps ==
  ASSUME IInv, [Next]_vars
  PROVE  UNCHANGED <<nfcid, id>> \/ TakesAway \/ \E r \in RE : HandsOut(r)
<1>1. CASE NciCmd
  BY <1>1 DEF NciCmd, SemanticError, StatusOnly, UnknownCmd, IdleCoreReset,
              InitCoreReset, CoreReset, ResetCoreInit, RfDiscover,
              RfDiscoverSelect, RfDeactivate, ResetState, T3tPolling, Abort,
              NoHistory, dev, TakesAway
<1>2. CASE NciData \/ Deliver \/ \E c \in HciMsgs : HciCmd(c)
  BY <1>2 DEF NciData, Deliver, HciCmd, Abort, NoHistory, dev
<1>3. ASSUME NEW r \in RE, NEW type \in NtfTypes, DiscoveryNtf(r, type)
      PROVE  UNCHANGED <<nfcid, id>> \/ HandsOut(r)
  BY <1>3, Zenon DEF DiscoveryNtf, Abort, NoHistory, dev, HandsOut
<1>4. ASSUME NEW arg \in RE \cup {NULL}, NEW rf \in ConsoleRf \cup {-1},
             ActivatedNtf(arg, rf)
      PROVE  UNCHANGED <<nfcid, id>> \/ \E r \in RE : HandsOut(r)
  <2> DEFINE r == IF arg = NULL THEN active_re ELSE arg
             newId == IF id[r] = 0 THEN NextId ELSE id[r]
  <2>1. \/ UNCHANGED <<nfcid, id>>
        \/ /\ ActivationRf(r, rf) # NULL
           /\ id' = [id EXCEPT ![r] = newId]
           /\ nfcid' = IF id[r] = 0 THEN NextId ELSE nfcid
    BY <1>4, Zenon DEF ActivatedNtf, Abort, NoHistory, dev
  <2>2. r \in RE \cup {NULL} /\ id \in [RE -> Ids]
    BY DEF IInv, TypeOK
  <2> HIDE DEF r
  <2>3. ActivationRf(r, rf) # NULL => r \in RE
    BY <2>2, ActivationRfType DEF IInv
  <2> QED
    BY <2>1, <2>2, <2>3 DEF HandsOut
<1>5. CASE ConsoleDeactivateNtf \/ UNCHANGED vars
  BY <1>5 DEF ConsoleDeactivateNtf, NoHistory, vars, dev
<1> QED
  BY <1>1, <1>2, <1>3, <1>4, <1>5 DEF Next, Console

(* The new id is that of no live endpoint, and the others age by one. *)
LEMMA HandsOutIdInv ==
  ASSUME TypeOK, IdInv, NEW r \in RE, HandsOut(r)
  PROVE  IdInv'
<1>1. /\ Cardinality(Live) \in Nat /\ Cardinality(Live) <= MaxId - 1
      /\ Cardinality(Live \cup {r}) = Cardinality(Live) + 1
  BY LiveBounded DEF HandsOut
<1>2. NextId \in 1..MaxId /\ nfcid \in Ids
  BY NextIdType DEF TypeOK, Ids
<1>3. /\ id'[r] = NextId
      /\ \A s \in RE \ {r} : id'[s] = id[s]
      /\ \A s \in RE : id[s] \in Ids
  BY DEF HandsOut, TypeOK
<1>4. Live' = Live \cup {r}
  BY <1>2, <1>3, MaxIdAssumption DEF Live, Ids
<1>5. ASSUME NEW s \in Live
      PROVE  /\ s \in RE \ {r} /\ id'[s] = id[s] /\ id[s] # NextId
             /\ AgeOf(id[s], NextId) < Cardinality(Live) + 1
  <2>1. s \in RE \ {r} /\ id[s] \in 1..MaxId
    BY <1>3 DEF Live, HandsOut, Ids
  <2>2. AgeOf(id[s], nfcid) < Cardinality(Live) /\ AgeOf(id[s], nfcid) \in Int
    BY <1>2, <2>1, MaxIdAssumption DEF IdInv, AgesBounded, AgeOf, Ids
  <2> QED
    BY <1>1, <1>2, <1>3, <2>1, <2>2, Ageing, MaxIdAssumption
<1>6. AgesBounded'
  <2>1. AgeOf(NextId, NextId) = 0
    BY <1>2 DEF AgeOf
  <2>2. ASSUME NEW s \in Live'
        PROVE  AgeOf(id'[s], nfcid') < Cardinality(Live')
    BY <1>1, <1>3, <1>4, <1>5, <2>1, <2>2 DEF HandsOut
  <2> QED
    BY <2>2 DEF AgesBounded, AgeOf
<1>7. IdsUnique'
  BY <1>3, <1>5 DEF IdInv, IdsUnique, Live
<1> QED
  BY <1>6, <1>7 DEF IdInv

(* Every step keeps the ages of the ids in order. *)
LEMMA NextIdInv == IInv /\ IdInv /\ [Next]_vars => IdInv'
<1> SUFFICES ASSUME IInv, IdInv, [Next]_vars PROVE IdInv'
  OBVIOUS
<1>1. CASE UNCHANGED <<nfcid, id>>
  BY <1>1 DEF IdInv, AgesBounded, IdsUnique, Live, AgeOf
<1>2. CASE TakesAway
  BY <1>2 DEF TakesAway, IdInv, AgesBounded, IdsUnique, Live
<1>3. ASSUME NEW r \in RE, HandsOut(r) PROVE IdInv'
  BY <1>3, HandsOutIdInv DEF IInv
<1> QED
  BY <1>1, <1>2, <1>3, IdSteps

------------------------------------------------------------------------------
(* No two endpoints ever share a discovery id: nfc_get_re_by_id, which     *)
(* returns the first match, returns the endpoint the host was told of,     *)
(* however often the ids wrap around.                                      *)
THEOREM DeviceIdsUnique == Spec => []IdsUnique
<1>1. Init => IdInv
  BY DEF Init, IdInv, AgesBounded, IdsUnique, Live
<1>2. IdInv => IdsUnique
  BY DEF IdInv
<1> QED
  BY <1>1, <1>2, NextIdInv, DeviceInvariant, PTL DEF Spec

==============================================================================

-------------------------- MODULE NciSessionProofs --------------------------
(***************************************************************************)
(* Proofs about NciSession: the controller, its host and its operator, for *)
(* every set of endpoints, every number of ids, every bound on the         *)
(* deferred notifications, and with and without the two kinds of           *)
(* disorder, ResetWhileActive and LinkLoss.                                *)
(*                                                                         *)
(* Every step of the session is one of the controller, so what             *)
(* NfcDeviceProofs shows holds here too.  What the    *)
(* host concludes adds two invariants: with any disorder, the polls that   *)
(* wait name an endpoint (PollsHaveEndpoint); without, the host is in step *)
(* with the controller but for one deactivation it awaits (InStep).        *)
(***************************************************************************)
EXTENDS NciSession, NfcDeviceProofs

HostTypeOK ==
  /\ host_rf \in RfStates /\ waiting \in DeactTypes \cup {"none"}
  /\ selected \in RE \cup {NULL} /\ known \in [RE -> Ids]

(* A poll is deferred with the endpoint that was active then. *)
PollsHaveEndpoint ==
  \A i \in 1..Len(pending) :
    pending[i].func = "t3t_polling" => pending[i].re \in RE

SessionInv == IInv /\ IdInv /\ HostTypeOK /\ PollsHaveEndpoint
              /\ HostActiveIsActive

(* The deactivations the host is yet to be told of *)
Ends == {i \in 1..Len(pending) : pending[i].func = "deactivate"}

NoIds == [r \in RE |-> 0]

(* The host agrees with the controller, or awaits the one deactivation     *)
(* that is on its way to it and has reset the controller's endpoints       *)
InStep ==
  /\ aborted = "none"
  /\ rf_state = "IDLE" => active_re = NULL /\ id = NoIds
  /\ IF Ready
     THEN host_rf = rf_state /\ known = id /\ selected = active_re
          /\ Ends = {}
     ELSE /\ host_rf = "POLL_ACTIVE" /\ rf_state = Deactivated(waiting)
          /\ active_re = NULL /\ id = NoIds
          /\ \E i \in Ends : Ends = {i} /\ pending[i] = DeactivateCb(waiting)

------------------------------------------------------------------------------
(* The steps of the session are steps of the controller.                   *)
LEMMA SessionStepIsNext ==
  ASSUME HostTypeOK, [SessionNext]_sessionVars
  PROVE  [Next]_vars
<1>1. CASE HostReset \/ HostSetup \/ HostDiscover \/ HostPolls
  BY <1>1 DEF HostReset, HostSetup, HostDiscover, HostPolls, Next, NciCmd
<1>2. CASE HostSelect
  <2>1. PICK r \in RE : RfDiscoverSelect(known[r], TRUE)
    BY <1>2 DEF HostSelect
  <2>2. known[r] \in 0..(MaxId + 1)
    BY MaxIdAssumption DEF HostTypeOK, Ids
  <2> QED
    BY <2>1, <2>2 DEF Next, NciCmd
<1>3. CASE HostDeactivate
  BY <1>3 DEF HostDeactivate, Next, NciCmd
<1>4. CASE HostData \/ HostHci \/ EmulatorDelivers
  BY <1>4 DEF HostData, HostHci, EmulatorDelivers, Next
<1>5. CASE OperatorDiscovers
  BY <1>5 DEF OperatorDiscovers, Next, Console
<1>6. CASE OperatorActivates
  <2>1. PICK r \in RE, rf \in ConsoleRf \cup {-1} : ActivatedNtf(r, rf)
    BY <1>6 DEF OperatorActivates
  <2> QED
    BY <2>1 DEF Next, Console
<1>7. CASE OperatorLosesLink \/ UNCHANGED sessionVars
  BY <1>7 DEF OperatorLosesLink, Next, Console, sessionVars
<1> QED
  BY <1>1, <1>2, <1>3, <1>4, <1>5, <1>6, <1>7 DEF SessionNext

(* A deactivation leads the controller out of every active state. *)
LEMMA DeactivatedType ==
  \A t : Deactivated(t) \in {"IDLE", "DISCOVERY", "W4_HOST_SELECT"}
  BY Zenon DEF Deactivated

(* A reset, a deactivation or a lost link: the host forgets, and takes no  *)
(* interface for active                                                    *)
LEMMA ForgetsTypes ==
  ASSUME NEW rf \in {"IDLE", "DISCOVERY", "W4_HOST_SELECT"}, Forgets(rf)
  PROVE  HostTypeOK' /\ host_rf' # "POLL_ACTIVE"
  BY MaxIdAssumption DEF HostTypeOK, Forgets, RfStates, Ids

(* An activation always finds an interface: its step activates the         *)
(* endpoint or fails an assertion.                                         *)
LEMMA ActivationSteps ==
  ASSUME IInv, NEW r \in RE, NEW rf \in ConsoleRf \cup {-1},
         ActivatedNtf(r, rf)
  PROVE  \/ /\ rf_state \in {"DISCOVERY", "W4_HOST_SELECT"} /\ MayActivate(r)
            /\ rf_state' = "POLL_ACTIVE" /\ active_re' = r
            /\ id' = [id EXCEPT ![r] = id'[r]]
            /\ UNCHANGED <<pending, aborted>>
         \/ /\ \/ rf_state \notin {"DISCOVERY", "W4_HOST_SELECT"}
                  /\ aborted' = "activated ntf"
               \/ ~MayActivate(r) /\ aborted' = "activated ntf, active_re"
            /\ UNCHANGED <<dev, pending>>
<1> DEFINE newRf == ActivationRf(r, rf)
           newId == IF id[r] = 0 THEN NextId ELSE id[r]
           m     == ActivationMode(r, newRf)
<1>1. r # NULL
  BY REAssumption
<1>2. newRf \in RF /\ newRf # NULL
  <2>1. newRf # NULL
    BY <1>1, FindRfType, REAssumption, ConsoleRfAssumption DEF ActivationRf
  <2> QED
    BY <2>1, ActivationRfType DEF IInv
<1>3. m \in PollModes /\ ActivateTo(m) = "POLL_ACTIVE"
  BY <1>2, RfTableModes, ActivateToPoll DEF ActivationMode
<1>4. ActivateFrom(m) = {"DISCOVERY", "W4_HOST_SELECT"}
  BY <1>3 DEF ActivateFrom
<1>5. \/ /\ RfTransition(ActivateFrom(m), ActivateTo(m))
         /\ MayActivate(r)
         /\ active_re' = IF active_re = NULL THEN r ELSE active_re
         /\ id' = [id EXCEPT ![r] = newId]
         /\ UNCHANGED <<pending, aborted>>
      \/ rf_state \notin ActivateFrom(m) /\ Abort("activated ntf")
      \/ ~MayActivate(r) /\ Abort("activated ntf, active_re")
  BY <1>1, <1>2, Zenon DEF ActivatedNtf
<1>6. id \in [RE -> Ids]
  BY DEF IInv, TypeOK
<1> HIDE DEF m, newRf, newId
<1> QED
  BY <1>3, <1>4, <1>5, <1>6 DEF RfTransition, MayActivate, Abort

------------------------------------------------------------------------------
(* With any disorder *)

(* The initial states satisfy the invariant. *)
LEMMA InitSessionInv == SessionInit => SessionInv
<1> SUFFICES ASSUME SessionInit PROVE SessionInv
  OBVIOUS
<1>1. IInv /\ IdInv
  BY InitIInv DEF SessionInit, Init, IdInv, AgesBounded, IdsUnique, Live
<1>2. HostTypeOK /\ PollsHaveEndpoint /\ HostActiveIsActive
  BY MaxIdAssumption DEF SessionInit, Init, HostTypeOK, PollsHaveEndpoint,
     HostActiveIsActive, RfStates, Ids
<1> QED
  BY <1>1, <1>2 DEF SessionInv

(* The host's view keeps its type. *)
LEMMA SessionTypes ==
  ASSUME HostTypeOK, IInv', [SessionNext]_sessionVars
  PROVE  HostTypeOK'
<1>1. id' \in [RE -> Ids]
  BY DEF IInv, TypeOK
<1>2. CASE HostReset \/ HostDeactivate \/ EmulatorDelivers \/ OperatorLosesLink
  <2>1. \/ \E rf \in {"IDLE", "DISCOVERY", "W4_HOST_SELECT"} : Forgets(rf)
        \/ UNCHANGED hostVars
        \/ UNCHANGED <<host_rf, selected, known>> /\ waiting' \in DeactTypes
    BY <1>2, DeactivatedType
       DEF HostReset, HostDeactivate, EmulatorDelivers, OperatorLosesLink
  <2> QED
    BY <2>1, ForgetsTypes DEF HostTypeOK, hostVars
<1>3. CASE HostSetup \/ HostPolls \/ HostData \/ HostHci \/ UNCHANGED sessionVars
  BY <1>3 DEF HostSetup, HostPolls, HostData, HostHci, sessionVars, hostVars,
              HostTypeOK
<1>4. CASE HostDiscover \/ HostSelect
  BY <1>4 DEF HostDiscover, HostSelect, HostTypeOK, RfStates
<1>5. CASE OperatorDiscovers
  BY <1>1, <1>5 DEF OperatorDiscovers, hostVars, HostTypeOK, RfStates
<1>6. CASE OperatorActivates
  BY <1>1, <1>6 DEF OperatorActivates, HostTypeOK, RfStates
<1> QED
  BY <1>2, <1>3, <1>4, <1>5, <1>6 DEF SessionNext

(* Only the host's polls and deactivations add to what is deferred. *)
LEMMA QueueSteps ==
  ASSUME IInv, [SessionNext]_sessionVars
  PROVE  \/ UNCHANGED pending
         \/ HostPolls /\ pending' = Append(pending, PollingCb(active_re))
         \/ HostDeactivate /\ \E t \in DeactTypes : 
               pending' = Append(pending, DeactivateCb(t))
         \/ EmulatorDelivers /\ pending # <<>> /\ pending' = Tail(pending)
<1>1. CASE HostReset \/ HostSetup \/ HostDiscover
  BY <1>1 DEF HostReset, IdleCoreReset, InitCoreReset, CoreReset, HostSetup,
              ResetCoreInit, StatusOnly, HostDiscover, RfDiscover, NoHistory,
              Abort
<1>2. CASE HostSelect
  <2>1. PICK r \in RE : RfDiscoverSelect(known[r], TRUE)
    BY <1>2 DEF HostSelect
  <2> QED
    BY <2>1 DEF RfDiscoverSelect, NoHistory, Abort
<1>3. CASE HostDeactivate
  <2>1. PICK t \in DeactTypes : RfDeactivate(t)
    BY <1>3 DEF HostDeactivate
  <2> QED
    BY <1>3, <2>1, Zenon DEF RfDeactivate, Abort
<1>4. CASE HostPolls \/ HostData \/ HostHci \/ EmulatorDelivers
  BY <1>4 DEF HostPolls, T3tPolling, HostData, NciData, HostHci, HciCmd,
              EmulatorDelivers, Deliver, NoHistory, Abort
<1>5. CASE OperatorDiscovers
  <2>1. PICK r \in RE, type \in NtfTypes : DiscoveryNtf(r, type)
    BY <1>5 DEF OperatorDiscovers
  <2> QED
    BY <2>1, Zenon DEF DiscoveryNtf, NoHistory, Abort
<1>6. CASE OperatorActivates
  <2>1. PICK r \in RE, rf \in ConsoleRf \cup {-1} : ActivatedNtf(r, rf)
    BY <1>6 DEF OperatorActivates
  <2> QED
    BY <2>1, ActivationSteps
<1>7. CASE OperatorLosesLink \/ UNCHANGED sessionVars
  BY <1>7 DEF OperatorLosesLink, ConsoleDeactivateNtf, NoHistory, sessionVars,
              vars
<1> QED
  BY <1>1, <1>2, <1>3, <1>4, <1>5, <1>6, <1>7 DEF SessionNext

(* Appending and taking from the front, position by position *)
LEMMA AppendPositions ==
  ASSUME pending \in Seq(Callbacks), NEW c \in Callbacks,
         pending' = Append(pending, c)
  PROVE  /\ Len(pending) \in Nat /\ Len(pending') = Len(pending) + 1
         /\ \A i \in 1..Len(pending) : pending'[i] = pending[i]
         /\ pending'[Len(pending) + 1] = c
  OBVIOUS

(* Where the elements of a queue are once its head is gone. *)
LEMMA TailPositions ==
  ASSUME pending \in Seq(Callbacks), pending # <<>>, pending' = Tail(pending)
  PROVE  /\ Len(pending) \in Nat \ {0} /\ Len(pending') = Len(pending) - 1
         /\ \A i \in 1..Len(pending') : pending'[i] = pending[i + 1]
         /\ Head(pending) = pending[1]
  OBVIOUS

(* A host that takes an interface for active polls while one is. *)
LEMMA NextPolls ==
  ASSUME SessionInv, [SessionNext]_sessionVars
  PROVE  PollsHaveEndpoint'
<1>0. pending \in Seq(Callbacks) /\ IInv
  BY DEF SessionInv, IInv, TypeOK
<1>1. CASE UNCHANGED pending
  BY <1>1 DEF SessionInv, PollsHaveEndpoint
<1>2. CASE HostPolls /\ pending' = Append(pending, PollingCb(active_re))
  <2>1. active_re \in RE
    BY <1>2 DEF HostPolls, T3tPolling, In, SessionInv, HostActiveIsActive,
                IInv, ActiveKnown
  <2>2. PollingCb(active_re) \in Callbacks /\ PollingCb(active_re).re \in RE
    BY <2>1 DEF Callbacks, PollingCb
  <2> QED
    BY <1>0, <1>2, <2>2, AppendPositions DEF SessionInv, PollsHaveEndpoint
<1>3. ASSUME NEW t \in DeactTypes, pending' = Append(pending, DeactivateCb(t))
      PROVE  PollsHaveEndpoint'
  <2>1. DeactivateCb(t) \in Callbacks /\ DeactivateCb(t).func # "t3t_polling"
    BY DEF Callbacks, DeactivateCb
  <2> QED
    BY <1>0, <1>3, <2>1, AppendPositions DEF SessionInv, PollsHaveEndpoint
<1>4. CASE pending # <<>> /\ pending' = Tail(pending)
  BY <1>0, <1>4, TailPositions DEF SessionInv, PollsHaveEndpoint
<1> QED
  BY <1>0, <1>1, <1>2, <1>3, <1>4, QueueSteps

(* Data and polls fail for want of an active interface or endpoint only,   *)
(* and no other step of the session does so.                               *)
LEMMA SessionAborts ==
  ASSUME SessionInv, [SessionNext]_sessionVars
  PROVE  aborted' \notin {"data", "t3t_polling_ntf"}
<1>1. CASE HostReset \/ HostSetup \/ HostDiscover \/ HostPolls \/ HostHci
           \/ OperatorLosesLink \/ UNCHANGED sessionVars
  BY <1>1 DEF HostReset, IdleCoreReset, InitCoreReset, CoreReset, HostSetup,
              ResetCoreInit, StatusOnly, HostDiscover, RfDiscover, HostPolls,
              T3tPolling, HostHci, HciCmd, OperatorLosesLink,
              ConsoleDeactivateNtf, NoHistory, Abort, sessionVars, vars,
              SessionInv, HostActiveIsActive
<1>2. CASE HostSelect
  <2>1. PICK r \in RE : RfDiscoverSelect(known[r], TRUE)
    BY <1>2 DEF HostSelect
  <2> QED
    BY <2>1 DEF RfDiscoverSelect, NoHistory, Abort, SessionInv,
                HostActiveIsActive
<1>3. CASE HostDeactivate
  <2>1. PICK t \in DeactTypes : RfDeactivate(t)
    BY <1>3 DEF HostDeactivate
  <2> QED
    BY <2>1 DEF RfDeactivate, Abort, SessionInv, HostActiveIsActive
<1>4. CASE HostData
  BY <1>4 DEF HostData, NciData, NoHistory, Abort, SessionInv,
              HostActiveIsActive
<1>5. CASE EmulatorDelivers
  <2>1. Head(pending).func = "t3t_polling" => Head(pending).re # NULL
    BY <1>5, REAssumption, TailPositions
       DEF SessionInv, PollsHaveEndpoint, IInv, TypeOK, EmulatorDelivers,
           Deliver
  <2> QED
    BY <1>5, <2>1 DEF EmulatorDelivers, Deliver, Abort, SessionInv,
                      HostActiveIsActive
<1>6. CASE OperatorDiscovers
  <2>1. PICK r \in RE, type \in NtfTypes : DiscoveryNtf(r, type)
    BY <1>6 DEF OperatorDiscovers
  <2>2. aborted' \in {aborted, "discovery ntf"}
    BY <2>1, Zenon DEF DiscoveryNtf, NoHistory, Abort
  <2> QED
    BY <2>2 DEF SessionInv, HostActiveIsActive
<1>7. CASE OperatorActivates
  <2>1. PICK r \in RE, rf \in ConsoleRf \cup {-1} : ActivatedNtf(r, rf)
    BY <1>7 DEF OperatorActivates
  <2> QED
    BY <2>1, ActivationSteps DEF SessionInv, HostActiveIsActive
<1> QED
  BY <1>1, <1>2, <1>3, <1>4, <1>5, <1>6, <1>7 DEF SessionNext

(* The host takes an interface for active from its activation on, and no   *)
(* longer once it has asked for the end of it.                             *)
LEMMA NextHostActive ==
  ASSUME SessionInv, [SessionNext]_sessionVars,
         aborted' = "none", Ready', host_rf' = "POLL_ACTIVE"
  PROVE  rf_state' = "POLL_ACTIVE"
<1>0. aborted = "none" /\ Ready /\ host_rf = "POLL_ACTIVE" =>
        rf_state = "POLL_ACTIVE"
  BY DEF SessionInv, HostActiveIsActive
<1>1. CASE HostReset \/ HostDeactivate \/ OperatorLosesLink
  <2>1. \/ \E rf \in {"IDLE", "DISCOVERY", "W4_HOST_SELECT"} : Forgets(rf)
        \/ waiting' \in DeactTypes
    BY <1>1, DeactivatedType DEF HostReset, HostDeactivate, OperatorLosesLink
  <2> QED
    BY <2>1, ForgetsTypes DEF Ready, DeactTypes
<1>2. CASE HostSetup \/ HostPolls \/ HostData \/ HostHci \/ UNCHANGED sessionVars
  <2>1. UNCHANGED <<rf_state, host_rf, waiting>> /\ aborted = "none"
    BY <1>2 DEF HostSetup, ResetCoreInit, StatusOnly, HostPolls, T3tPolling,
                HostData, NciData, HostHci, HciCmd, NoHistory, Abort,
                sessionVars, hostVars, vars, dev
  <2> QED
    BY <1>0, <2>1 DEF Ready
<1>3. CASE HostDiscover \/ HostSelect
  BY <1>3 DEF HostDiscover, HostSelect
<1>4. CASE EmulatorDelivers
  <2>1. UNCHANGED rf_state /\ aborted = "none"
    BY <1>4 DEF EmulatorDelivers, Deliver, Abort, dev
  <2>2. UNCHANGED hostVars
          \/ \E rf \in {"IDLE", "DISCOVERY", "W4_HOST_SELECT"} : Forgets(rf)
    BY <1>4, DeactivatedType DEF EmulatorDelivers
  <2> QED
    BY <1>0, <2>1, <2>2, ForgetsTypes DEF Ready, hostVars
<1>5. CASE OperatorDiscovers
  <2>1. PICK r \in RE, type \in NtfTypes :
          DiscoveryNtf(r, type) /\ (out' # Nothing => host_rf' # "POLL_ACTIVE")
          /\ (out' = Nothing => UNCHANGED hostVars)
    BY <1>5 DEF OperatorDiscovers
  <2>2. UNCHANGED rf_state \/ out' = Ntf("RF_DISCOVER")
    BY <2>1, Zenon DEF DiscoveryNtf, Abort, dev
  <2>3. aborted = "none" /\ Ntf("RF_DISCOVER") # Nothing
    BY <2>1 DEF DiscoveryNtf, Ntf, Nothing
  <2> QED
    BY <1>0, <2>1, <2>2, <2>3 DEF Ready, hostVars
<1>6. CASE OperatorActivates
  <2>1. PICK r \in RE, rf \in ConsoleRf \cup {-1} : ActivatedNtf(r, rf)
    BY <1>6 DEF OperatorActivates
  <2> QED
    BY <2>1, ActivationSteps DEF SessionInv
<1> QED
  BY <1>1, <1>2, <1>3, <1>4, <1>5, <1>6 DEF SessionNext

(* Every step preserves the invariant. *)
LEMMA NextSessionInv ==
  SessionInv /\ [SessionNext]_sessionVars => SessionInv'
<1> SUFFICES ASSUME SessionInv, [SessionNext]_sessionVars PROVE SessionInv'
  OBVIOUS
<1>1. IInv /\ IdInv /\ HostTypeOK
  BY DEF SessionInv
<1>2. [Next]_vars
  BY <1>1, SessionStepIsNext
<1>3. IInv' /\ IdInv'
  BY <1>1, <1>2, NextIInv, NextIdInv
<1>4. HostTypeOK' /\ PollsHaveEndpoint'
  BY <1>1, <1>3, SessionTypes, NextPolls
<1>5. HostActiveIsActive'
  BY SessionAborts, NextHostActive DEF HostActiveIsActive
<1> QED
  BY <1>3, <1>4, <1>5 DEF SessionInv

(* The invariant of the session, whatever the host resets and the operator *)
(* announces.                                                              *)
THEOREM SessionInvariant == SessionSpec => []SessionInv
  BY InitSessionInv, NextSessionInv, PTL DEF SessionSpec

(* The variables of controller, host and operator keep their types.        *)
THEOREM SessionTypeCorrect == SessionSpec => []SessionTypeOK
<1>1. SessionInv => SessionTypeOK
  BY DEF SessionInv, IInv, HostTypeOK, SessionTypeOK
<1> QED
  BY <1>1, SessionInvariant, PTL

(* A host that follows the RF state machine never sends data to, nor has   *)
(* polled, an interface that is not active: whatever resets, lost links    *)
(* and late notifications come, process_nci_dta's and the polling          *)
(* callback's assertions do not fail.                                      *)
THEOREM SessionHostActive == SessionSpec => []HostActiveIsActive
<1>1. SessionInv => HostActiveIsActive
  BY DEF SessionInv
<1> QED
  BY <1>1, SessionInvariant, PTL

------------------------------------------------------------------------------
(* Without disorder *)

(* How the deactivations that wait move with the queue *)
LEMMA EndsAppend ==
  ASSUME pending \in Seq(Callbacks), NEW c \in Callbacks,
         pending' = Append(pending, c)
  PROVE  /\ c.func = "deactivate" => Ends' = Ends \cup {Len(pending) + 1}
         /\ c.func # "deactivate" => Ends' = Ends
         /\ \A i \in Ends : pending'[i] = pending[i]
         /\ pending'[Len(pending) + 1] = c
  BY AppendPositions DEF Ends

(* The ends under way, without the first. *)
LEMMA EndsTail ==
  ASSUME pending \in Seq(Callbacks), pending # <<>>, pending' = Tail(pending),
         NEW i \in Ends, Ends = {i}
  PROVE  /\ Head(pending).func = "deactivate" =>
              Ends' = {} /\ Head(pending) = pending[i]
         /\ Head(pending).func # "deactivate" =>
              Ends' = {i - 1} /\ pending'[i - 1] = pending[i]
<1>1. /\ Len(pending) \in Nat \ {0} /\ Len(pending') = Len(pending) - 1
      /\ \A j \in 1..Len(pending') : pending'[j] = pending[j + 1]
      /\ Head(pending) = pending[1]
  BY TailPositions
<1>2. \A j \in 1..Len(pending') : j \in Ends' <=> j + 1 \in Ends
  BY <1>1 DEF Ends
<1>3. Ends' \subseteq 1..Len(pending') /\ i \in 1..Len(pending)
  BY DEF Ends
<1>4. CASE Head(pending).func = "deactivate"
  <2>1. 1 \in Ends
    BY <1>1, <1>4 DEF Ends
  <2>2. i = 1
    BY <2>1
  <2> HIDE DEF Ends
  <2> QED
    BY <1>1, <1>2, <1>3, <1>4, <2>2
<1>5. CASE Head(pending).func # "deactivate"
  <2>1. i # 1
    BY <1>1, <1>5 DEF Ends
  <2>2. i - 1 \in 1..Len(pending') /\ pending'[i - 1] = pending[i]
    BY <1>1, <1>3, <2>1
  <2>3. i - 1 \in Ends'
    BY <1>2, <1>3, <2>2
  <2>4. \A j \in Ends' : j = i - 1
    BY <1>1, <1>2, <1>3
  <2> QED
    BY <1>5, <2>2, <2>3, <2>4
<1> QED
  BY <1>4, <1>5

(* A queue that reports no end reports none without its head. *)
LEMMA EndsEmptyTail ==
  ASSUME pending \in Seq(Callbacks), pending # <<>>, pending' = Tail(pending),
         Ends = {}
  PROVE  Head(pending).func # "deactivate" /\ Ends' = {}
  BY TailPositions DEF Ends

(* The steps of the session, one by one.  A host in step with the          *)
(* controller gives its commands in the states they are legal in.          *)

(* A reset starts the session anew. *)
LEMMA ResetInStep ==
  ASSUME SessionInv, InStep, ~ResetWhileActive, HostReset PROVE InStep'
<1>1. Ready /\ rf_state = "IDLE"
  BY DEF HostReset, InStep
<1>2. PICK reset \in BOOLEAN : CoreReset(reset)
  BY DEF HostReset, IdleCoreReset, InitCoreReset
<1>3. /\ UNCHANGED <<active_re, id, pending, aborted>> /\ rf_state' = "IDLE"
      /\ Ready' /\ host_rf' = "IDLE" /\ selected' = NULL /\ known' = NoIds
  BY <1>1, <1>2 DEF CoreReset, HostReset, Forgets, Ready, NoIds
<1> QED
  BY <1>1, <1>3 DEF InStep, Ends, NoIds

(* Neither the RF state nor the ids change. *)
LEMMA SameInStep ==
  ASSUME SessionInv, InStep, UNCHANGED <<dev, pending, aborted, hostVars>>
  PROVE  InStep'
  BY DEF InStep, Ready, Ends, Deactivated, NoIds, dev, hostVars

(* Host and controller start to discover together. *)
LEMMA DiscoverInStep ==
  ASSUME SessionInv, InStep, HostDiscover PROVE InStep'
<1>1. Ready /\ rf_state = "IDLE"
  BY DEF HostDiscover, InStep
<1>2. /\ UNCHANGED <<active_re, id, pending, aborted>>
      /\ rf_state' = "DISCOVERY"
  BY <1>1 DEF HostDiscover, RfDiscover, RfTransition, NoHistory
<1> QED
  BY <1>1, <1>2 DEF InStep, HostDiscover, Ready, Ends, NoIds

(* The id the host was told of is that of one endpoint, which is selected. *)
LEMMA SelectTakes ==
  ASSUME SessionInv, InStep, HostSelect
  PROVE  /\ rf_state' = "W4_HOST_SELECT" /\ out' = Rsp("OK")
         /\ active_re' = selected'
         /\ UNCHANGED <<id, pending, aborted>>
<1>1. PICK r \in RE : /\ known[r] # 0 /\ RfDiscoverSelect(known[r], TRUE)
                      /\ selected' = IF out' = Rsp("OK") THEN r ELSE selected
  BY DEF HostSelect
<1>2. known[r] = id[r] /\ rf_state = "W4_HOST_SELECT"
  BY DEF HostSelect, InStep
<1>3. id[r] \in 1..MaxId
  BY <1>1, <1>2 DEF SessionInv, IInv, TypeOK, Ids
<1>4. GetReById(known[r]) = {r}
  BY <1>2, <1>3 DEF SessionInv, IdInv, IdsUnique, GetReById
<1> DEFINE Found == IF known[r] \in {0, MaxId + 1} \/ ~TRUE THEN {}
                    ELSE GetReById(known[r])
           Usable == {s \in Found : FindRf(s) # NULL}
<1>5. Found = {r}
  BY <1>2, <1>3, <1>4, MaxIdAssumption
<1>6. Usable = {r}
  <2> HIDE DEF Found
  <2> QED
    BY <1>5, FindRfType, REAssumption
<1>7. \/ \E s \in Usable :
           /\ RfTransition(SelectFrom, "W4_HOST_SELECT") /\ active_re' = s
           /\ out' = Rsp("OK") /\ UNCHANGED <<state, nfcid, id>> /\ NoHistory
      \/ Usable = {} \/ rf_state \notin SelectFrom
  BY <1>1, Zenon DEF RfDiscoverSelect
<1> HIDE DEF Usable
<1> QED
  BY <1>1, <1>2, <1>6, <1>7 DEF RfTransition, SelectFrom, NoHistory

(* The host selects what it was told of. *)
LEMMA SelectInStep ==
  ASSUME SessionInv, InStep, HostSelect PROVE InStep'
  BY SelectTakes DEF InStep, HostSelect, Ready, Ends, NoIds

(* The end of an activation is deferred, the end of a discovery is not. *)
LEMMA DeactivateInStep ==
  ASSUME SessionInv, InStep, HostDeactivate PROVE InStep'
<1>1. PICK t \in DeactTypes :
        /\ t = "IDLE_MODE" \/ host_rf = "POLL_ACTIVE"
        /\ RfDeactivate(t)
        /\ IF host_rf = "POLL_ACTIVE"
           THEN waiting' = t /\ UNCHANGED <<host_rf, selected, known>>
           ELSE Forgets("IDLE")
  BY DEF HostDeactivate
<1>2. Ready /\ host_rf = rf_state /\ rf_state # "IDLE" /\ Ends = {}
      /\ aborted = "none"
  BY DEF HostDeactivate, InStep
<1>3. pending \in Seq(Callbacks) /\ rf_state \in RfStates /\ NoListenState
  BY DEF SessionInv, IInv, TypeOK
<1>4. rf_state \in DeactivateFrom(t)
  <2>1. CASE t = "IDLE_MODE"
    BY <1>2, <1>3, <2>1 DEF DeactivateFrom
  <2>2. CASE t # "IDLE_MODE"
    <3>1. DeactivateFrom(t) = {"POLL_ACTIVE", "LISTEN_ACTIVE"}
      BY <2>2, ZenonT(30) DEF DeactivateFrom
    <3> QED
      BY <1>1, <1>2, <2>2, <3>1
  <2> QED
    BY <2>1, <2>2
<1>5. /\ rf_state' = DeactivateTo(t)
      /\ active_re' = NULL /\ id' = NoIds
      /\ pending' = IF DeactivateNotifies(t)
                    THEN Append(pending, DeactivateCb(t)) ELSE pending
      /\ aborted' = "none"
  BY <1>1, <1>2, <1>4 DEF RfDeactivate, RfTransition, ResetState, NoIds
<1>6. CASE rf_state = "POLL_ACTIVE"
  <2>1. DeactivateNotifies(t)
    BY <1>6 DEF DeactivateNotifies
  <2>2. DeactivateTo(t) = Deactivated(t)
    BY <1>6, Zenon DEF DeactivateTo, Deactivated
  <2>3. DeactivateCb(t) \in Callbacks /\ DeactivateCb(t).func = "deactivate"
    BY DEF Callbacks, DeactivateCb
  <2>4. Ends' = {Len(pending) + 1}
        /\ pending'[Len(pending) + 1] = DeactivateCb(t)
    BY <1>2, <1>3, <1>5, <2>1, <2>3, EndsAppend
  <2>5. waiting' = t /\ t # "none" /\ host_rf' = "POLL_ACTIVE"
    BY <1>1, <1>2, <1>6 DEF DeactTypes
  <2>6. (\E i \in Ends : Ends = {i} /\ pending[i] = DeactivateCb(waiting))'
    BY <2>4, <2>5 DEF DeactivateCb
  <2>7. Deactivated(waiting)' = Deactivated(t)
    BY <2>5 DEF Deactivated
  <2> HIDE DEF Deactivated
  <2> QED
    BY <1>5, <2>2, <2>5, <2>6, <2>7 DEF InStep, Ready, NoIds
<1>7. CASE rf_state # "POLL_ACTIVE"
  <2>1. t = "IDLE_MODE" /\ Forgets("IDLE")
    BY <1>1, <1>2, <1>7
  <2>2. ~DeactivateNotifies(t)
    BY <1>2, <1>3, <1>7, <2>1 DEF DeactivateNotifies, RfStates, NoListenState
  <2>3. rf_state' = "IDLE" /\ UNCHANGED pending
    BY <1>5, <2>1, <2>2, Zenon DEF DeactivateTo
  <2> QED
    BY <1>2, <1>5, <2>1, <2>3 DEF InStep, Forgets, Ready, Ends, NoIds
<1> QED
  BY <1>6, <1>7

(* A poll changes no state the host follows. *)
LEMMA PollsInStep ==
  ASSUME SessionInv, InStep, HostPolls PROVE InStep'
<1>1. PollingCb(active_re) \in Callbacks
      /\ PollingCb(active_re).func # "deactivate"
  BY DEF Callbacks, PollingCb, SessionInv, IInv, TypeOK
<1>2. Ends' = Ends
  BY <1>1, EndsAppend DEF HostPolls, T3tPolling, SessionInv, IInv, TypeOK
<1> QED
  BY <1>2 DEF InStep, HostPolls, T3tPolling, Ready, NoIds, dev, hostVars

(* The commands, data and HCI messages that change nothing *)
LEMMA OtherInStep ==
  ASSUME SessionInv, InStep, HostSetup \/ HostData \/ HostHci PROVE InStep'
<1>1. CASE HostSetup
  <2>1. UNCHANGED <<rf_state, active_re, id, pending, aborted, hostVars>>
    BY <1>1 DEF HostSetup, ResetCoreInit, StatusOnly, NoHistory, dev
  <2> QED
    BY <2>1 DEF InStep, Ready, Ends, Deactivated, NoIds, hostVars
<1>2. CASE HostData
  <2>1. rf_state = "POLL_ACTIVE"
    BY <1>2 DEF HostData, InStep
  <2> QED
    BY <1>2, <2>1, SameInStep DEF HostData, NciData, NoHistory
<1>3. CASE HostHci
  BY <1>3, SameInStep DEF HostHci, HciCmd, NoHistory
<1> QED
  BY <1>1, <1>2, <1>3

(* The notification takes the host to where the controller is. *)
LEMMA DeliverInStep ==
  ASSUME SessionInv, InStep, EmulatorDelivers PROVE InStep'
<1>0. pending \in Seq(Callbacks) /\ pending # <<>>
  BY DEF SessionInv, IInv, TypeOK, EmulatorDelivers, Deliver
<1>1. aborted' = "none" /\ pending' = Tail(pending)
      /\ UNCHANGED <<rf_state, active_re, id>>
  <2>1. aborted' # "t3t_polling_ntf"
    BY SessionAborts DEF SessionNext
  <2> QED
    BY <2>1 DEF EmulatorDelivers, Deliver, Abort, InStep, dev
<1>2. CASE Ready
  <2>1. Head(pending).func # "deactivate" /\ Ends' = {}
    BY <1>0, <1>1, <1>2, EndsEmptyTail DEF InStep
  <2>2. UNCHANGED hostVars
    BY <2>1 DEF EmulatorDelivers
  <2> QED
    BY <1>1, <1>2, <2>1, <2>2 DEF InStep, Ready, NoIds, hostVars
<1>3. CASE ~Ready
  <2>1. PICK i \in Ends : Ends = {i} /\ pending[i] = DeactivateCb(waiting)
    BY <1>3 DEF InStep
  <2>2. CASE Head(pending).func = "deactivate"
    <3>1. Ends' = {} /\ Head(pending).type = waiting
      BY <1>0, <1>1, <2>1, <2>2, EndsTail DEF DeactivateCb
    <3>2. Forgets(Deactivated(waiting))
      BY <2>2, <3>1 DEF EmulatorDelivers
    <3>3. rf_state = Deactivated(waiting) /\ active_re = NULL /\ id = NoIds
      BY <1>3 DEF InStep
    <3> HIDE DEF Deactivated
    <3> QED
      BY <1>1, <3>1, <3>2, <3>3 DEF InStep, Forgets, Ready, NoIds
  <2>3. CASE Head(pending).func # "deactivate"
    <3>1. Ends' = {i - 1} /\ pending'[i - 1] = DeactivateCb(waiting)
      BY <1>0, <1>1, <2>1, <2>3, EndsTail
    <3>2. UNCHANGED hostVars
      BY <2>3 DEF EmulatorDelivers
    <3>3. (\E j \in Ends : Ends = {j} /\ pending[j] = DeactivateCb(waiting))'
      BY <3>1, <3>2 DEF hostVars, DeactivateCb
    <3>4. Deactivated(waiting)' = Deactivated(waiting)
      BY <3>2 DEF hostVars, Deactivated
    <3> QED
      BY <1>1, <1>3, <3>2, <3>3, <3>4 DEF InStep, Ready, NoIds, hostVars
  <2> QED
    BY <2>2, <2>3
<1> QED
  BY <1>2, <1>3

(* An endpoint is discovered where a notification is legal, and the host   *)
(* learns its id; one that has an id already is one the host knows.        *)
LEMMA DiscoveredInStep ==
  ASSUME SessionInv, InStep, OperatorDiscovers PROVE InStep'
<1>1. PICK r \in RE, type \in NtfTypes :
        /\ \/ host_rf = "DISCOVERY" /\ type = "MORE"
           \/ host_rf = "W4_ALL_DISCOVERIES"
        /\ DiscoveryNtf(r, type)
        /\ IF out' = Nothing THEN UNCHANGED hostVars
           ELSE /\ host_rf' = IF type = "MORE" THEN "W4_ALL_DISCOVERIES"
                                               ELSE "W4_HOST_SELECT"
                /\ known' = [known EXCEPT ![r] = id'[r]]
                /\ UNCHANGED <<waiting, selected>>
  BY DEF OperatorDiscovers
<1>2. /\ Ready /\ host_rf = rf_state /\ known = id /\ id \in [RE -> Ids]
      /\ selected = active_re /\ Ends = {}
  BY DEF OperatorDiscovers, InStep, SessionInv, IInv, TypeOK
<1> DEFINE To == IF rf_state = "DISCOVERY" \/ type = "MORE"
                 THEN "W4_ALL_DISCOVERIES" ELSE "W4_HOST_SELECT"
<1>3. \/ out' = Nothing /\ UNCHANGED dev /\ NoHistory
      \/ /\ rf_state' = To /\ id' = [id EXCEPT ![r] = NextId]
         /\ out' = Ntf("RF_DISCOVER")
         /\ UNCHANGED <<active_re, pending, aborted>>
  BY <1>1, <1>2, Zenon DEF DiscoveryNtf, RfTransition
<1>4. CASE out' = Nothing /\ UNCHANGED dev /\ NoHistory
  BY <1>1, <1>4, SameInStep DEF NoHistory
<1>5. CASE /\ rf_state' = To /\ id' = [id EXCEPT ![r] = NextId]
           /\ out' = Ntf("RF_DISCOVER")
           /\ UNCHANGED <<active_re, pending, aborted>>
  <2>1. out' # Nothing
    BY <1>5 DEF Ntf, Nothing
  <2>2. host_rf' = rf_state' /\ rf_state' # "IDLE"
    BY <1>1, <1>2, <1>5, <2>1
  <2>3. known' = id'
    BY <1>1, <1>2, <1>5, <2>1
  <2>4. UNCHANGED <<waiting, selected>>
    BY <1>1, <2>1
  <2> HIDE DEF To
  <2> QED
    BY <1>2, <1>5, <2>2, <2>3, <2>4 DEF InStep, Ready, Ends
<1> QED
  BY <1>3, <1>4, <1>5

(* The selected endpoint, or in discovery any, is activated: the active    *)
(* endpoint is the selected one or none.                                   *)
LEMMA ActivatedInStep ==
  ASSUME SessionInv, InStep, OperatorActivates PROVE InStep'
<1>1. PICK r \in RE, rf \in ConsoleRf \cup {-1} :
        /\ \/ host_rf = "DISCOVERY" /\ selected = NULL
           \/ host_rf = "W4_HOST_SELECT" /\ selected = r
        /\ ActivatedNtf(r, rf)
        /\ host_rf' = "POLL_ACTIVE" /\ selected' = r
        /\ known' = [known EXCEPT ![r] = id'[r]] /\ UNCHANGED waiting
  BY DEF OperatorActivates
<1>2. /\ Ready /\ host_rf = rf_state /\ known = id /\ Ends = {}
      /\ selected = active_re
  BY DEF OperatorActivates, InStep
<1>3. MayActivate(r) /\ rf_state \in {"DISCOVERY", "W4_HOST_SELECT"}
  BY <1>1, <1>2 DEF MayActivate
<1>4. /\ rf_state' = "POLL_ACTIVE" /\ active_re' = r
      /\ id' = [id EXCEPT ![r] = id'[r]] /\ UNCHANGED <<pending, aborted>>
  BY <1>1, <1>3, ActivationSteps DEF SessionInv
<1>5. known' = id'
  BY <1>1, <1>2, <1>4
<1> QED
  BY <1>1, <1>2, <1>4, <1>5 DEF InStep, Ready, Ends

(* Every step keeps host and controller in step. *)
LEMMA NextInStep ==
  ASSUME ~ResetWhileActive, ~LinkLoss, SessionInv, InStep,
         [SessionNext]_sessionVars
  PROVE  InStep'
<1>1. CASE UNCHANGED sessionVars
  BY <1>1, SameInStep DEF sessionVars, vars
<1>2. ~OperatorLosesLink
  BY DEF OperatorLosesLink
<1> QED
  BY <1>1, <1>2, ResetInStep, OtherInStep, DiscoverInStep, SelectInStep,
     DeactivateInStep, PollsInStep, DeliverInStep, DiscoveredInStep,
     ActivatedInStep DEF SessionNext

(* They begin in step. *)
LEMMA InitInStep == SessionInit => InStep
  BY DEF SessionInit, Init, InStep, Ready, Ends, NoIds

(* The host that deactivates before it resets, and is not cut off, is in   *)
(* step with the controller.                                               *)
THEOREM SessionInStep ==
  ASSUME ~ResetWhileActive, ~LinkLoss
  PROVE  SessionSpec => []InStep
  BY InitInStep, NextInStep, SessionInvariant, PTL DEF SessionSpec

(* No assertion of the NCI layer fails for such a host, however many       *)
(* endpoints are discovered, selected and activated in whatever order.     *)
THEOREM SessionNeverAborts ==
  ASSUME ~ResetWhileActive, ~LinkLoss
  PROVE  SessionSpec => []NoAbort
<1>1. InStep => NoAbort
  BY DEF InStep, NoAbort
<1> QED
  BY <1>1, SessionInStep, PTL

(* What the host concludes from responses and notifications is the RF      *)
(* state, but while a deactivation notification is on its way.             *)
THEOREM SessionViewAgrees ==
  ASSUME ~ResetWhileActive, ~LinkLoss
  PROVE  SessionSpec => []HostViewAgrees
<1>1. SessionInv /\ InStep => HostViewAgrees
  <2> SUFFICES ASSUME SessionInv, InStep PROVE HostViewAgrees
    OBVIOUS
  <2>1. pending \in Seq(Callbacks)
    BY DEF SessionInv, IInv, TypeOK
  <2>2. Ends \subseteq DOMAIN pending
    BY <2>1 DEF Ends
  <2> HIDE DEF Ends
  <2> QED
    BY <2>2 DEF InStep, HostViewAgrees
<1> QED
  BY <1>1, SessionInStep, SessionInvariant, PTL

(* The ids the host may select are those of the discovered endpoints.      *)
THEOREM SessionKnownDiscovered ==
  ASSUME ~ResetWhileActive, ~LinkLoss
  PROVE  SessionSpec => []KnownIsDiscovered
<1>1. InStep => KnownIsDiscovered
  BY DEF InStep, KnownIsDiscovered
<1> QED
  BY <1>1, SessionInStep, PTL

(* Every selection of an endpoint the host was told of takes that endpoint: *)
(* ids are unique, and each endpoint has an interface.                     *)
THEOREM SessionSelects ==
  ASSUME ~ResetWhileActive, ~LinkLoss
  PROVE  SessionSpec => SelectionAccepted
<1>1. SessionInv /\ InStep /\ [SessionNext]_sessionVars =>
        [HostSelect => out' = Rsp("OK") /\ active_re' = selected']_sessionVars
  BY SelectTakes
<1> QED
  BY <1>1, SessionInStep, SessionInvariant, PTL
     DEF SessionSpec, SelectionAccepted
==============================================================================

------------------------------ MODULE NfcDevice ------------------------------
(***************************************************************************)
(* The emulated NFC controller of libnfcemu: the NCI command state machine *)
(* (nfc->state), the RF state machine (nfc->rf_state), the discovery ids   *)
(* of the remote endpoints and the active endpoint and RF interface        *)
(* (src/src/nfc-nci.c, nfc-rf.c, nfc.c), with the console operations that  *)
(* raise NCI notifications (src/src/cmdline.c).                            *)
(*                                                                         *)
(* Every entry point of the library runs to completion on the emulator's   *)
(* main loop, so one handler is one action.  A failed assert() ends the    *)
(* emulator: `aborted' then names the handler it failed in, nothing else   *)
(* changes and no action is enabled afterwards.                            *)
(*                                                                         *)
(* CORE_SET_CONFIG, which works on nfc->config_id_value and on no other    *)
(* state, is not part of this module.                                      *)
(***************************************************************************)
EXTENDS Integers, Sequences, FiniteSets, SeqImages

CONSTANTS
  RE,          \* the remote endpoints: the elements of nfc_res[]
  rfproto,     \* their RF protocols
  mode,        \* their RF technology modes
  NULL,        \* the null pointer, for endpoints and for RF interfaces
  MaxId,       \* the largest discovery id handed out: 254 in nfc.c
  ConsoleRf,   \* RF indices the operator enters, next to -1 for "automatic"
  MaxPending   \* bound on the notifications the emulator has yet to fetch

PollModes   == {"A_POLL", "B_POLL", "F_POLL"}
ListenModes == {"A_LISTEN", "B_LISTEN", "F_LISTEN"}
Protocols   == {"T1T", "T2T", "T3T", "ISO_DEP", "NFC_DEP"}

(* nfc->rf[], as nfc_device_init fills it *)
RfTable == << [iface |-> "NFC_DEP", mode |-> "A_POLL"],
              [iface |-> "NFC_DEP", mode |-> "F_POLL"],
              [iface |-> "FRAME",   mode |-> "A_POLL"],
              [iface |-> "FRAME",   mode |-> "B_POLL"],
              [iface |-> "FRAME",   mode |-> "F_POLL"],
              [iface |-> "ISO_DEP", mode |-> "A_POLL"],
              [iface |-> "ISO_DEP", mode |-> "B_POLL"],
              [iface |-> "ISO_DEP", mode |-> "F_POLL"] >>
RF == 1..8

ASSUME REAssumption == IsFiniteSet(RE) /\ NULL \notin RE /\ NULL \notin RF
ASSUME ProtocolAssumption ==
  rfproto \in [RE -> Protocols] /\ mode \in [RE -> PollModes \cup ListenModes]
PollMode(m) == CASE m \in {"A_POLL", "A_LISTEN"} -> "A_POLL"
                 [] m \in {"B_POLL", "B_LISTEN"} -> "B_POLL"
                 [] OTHER                        -> "F_POLL"

(* nfc_res[] holds no NFC-DEP endpoint in an NFC-B mode: no RF interface   *)
(* would fit it                                                            *)
ASSUME InterfaceAssumption ==
  \A r \in RE : rfproto[r] = "NFC_DEP" => PollMode(mode[r]) # "B_POLL"
ASSUME MaxIdAssumption ==
  MaxId \in Nat /\ MaxId > 0 /\ Cardinality(RE) <= MaxId
ASSUME ConsoleRfAssumption == ConsoleRf \subseteq RF
ASSUME MaxPendingAssumption == MaxPending \in Nat

Iface(proto) == IF proto \in {"T1T", "T2T", "T3T"} THEN "FRAME" ELSE proto

(* Mutant of FindRf: listen modes are not turned into poll modes *)
FindRf_ExactMode(r) ==
  LET Fits == {i \in RF : /\ RfTable[i].iface = Iface(rfproto[r])
                          /\ RfTable[i].mode = mode[r]}
  IN  IF Fits = {} THEN NULL ELSE CHOOSE i \in Fits : \A j \in Fits : i <= j

(* nfc_find_rf_by_protocol_and_mode: the first interface that fits *)
FindRf(r) ==
  LET Fits == {i \in RF : /\ RfTable[i].iface = Iface(rfproto[r])
                          /\ RfTable[i].mode = PollMode(mode[r])}
  IN  IF Fits = {} THEN NULL
      ELSE CHOOSE i \in Fits : \A j \in Fits : i <= j

------------------------------------------------------------------------------
VARIABLES
  state,       \* nfc->state
  rf_state,    \* nfc->rf_state
  nfcid,       \* nfc->id, the last discovery id handed out
  active_re,   \* nfc->active_re
  active_rf,   \* nfc->active_rf, an index of RfTable
  id,          \* id[r] is nfc_res[r].id; 0 while r is undiscovered
  pending,     \* delivery callbacks the emulator has yet to call
  out,         \* what the step before handed over: packet, data or nothing
  told,        \* the id the last RF_INTF_ACTIVATED_NTF named; 0 before it
  aborted      \* the handler whose assert() failed

dev  == <<state, rf_state, nfcid, active_re, active_rf, id>>
vars == <<dev, pending, out, told, aborted>>

States   == {"IDLE", "RESET", "INITIALIZED"}
RfStates == {"IDLE", "DISCOVERY", "W4_ALL_DISCOVERIES", "W4_HOST_SELECT",
             "POLL_ACTIVE", "LISTEN_ACTIVE", "LISTEN_SLEEP"}
Ids      == 0..MaxId

CoreCmds  == {"CORE_RESET", "CORE_INIT", "CORE_SET_CONFIG",
              "CORE_GET_CONFIG", "CORE_CONN_CREATE", "CORE_CONN_CLOSE"}
RfCmds    == {"RF_DISCOVER_MAP", "RF_SET_LISTEN_MODE_ROUTING",
              "RF_GET_LISTEN_MODE_ROUTING", "RF_DISCOVER",
              "RF_DISCOVER_SELECT", "RF_DEACTIVATE", "RF_T3T_POLLING",
              "RF_PARAMETER_UPDATE"}
NfceeCmds == {"NFCEE_DISCOVER", "NFCEE_MODE_SET"}
PropCmds  == {"GET_BUILD_INFO", "HCI_NETWK", "SET_FWFSM",
              "GET_PATCH_VERSION"}
Cmds      == CoreCmds \cup RfCmds \cup NfceeCmds \cup PropCmds

DeactTypes == {"IDLE_MODE", "SLEEP_MODE", "SLEEP_AF_MODE", "DISCOVERY"}
NtfTypes   == {"LAST", "LIMIT", "MORE"}

Nothing   == [kind |-> "none"]
Rsp(s)    == [kind |-> "rsp", status |-> s]
Ntf(n)    == [kind |-> "ntf", name |-> n]
Dta(r)    == [kind |-> "dta", re |-> r]
HciEvt    == [kind |-> "hci evt"]
Rejections == {Rsp("SEMANTIC_ERROR"), Rsp("REJECTED")}

Packets == {Nothing, Rsp("OK"), HciEvt} \cup Rejections \cup {Dta(r) : r \in RE}
           \cup {Ntf(n) : n \in {"RF_DISCOVER", "RF_INTF_ACTIVATED",
                                 "RF_DEACTIVATED", "RF_T3T_POLLING"}}

(* An nfc_delivery_cb: the function to call and the data it was given *)
DeactivateCb(t) == [func |-> "deactivate", type |-> t]
PollingCb(r)    == [func |-> "t3t_polling", re |-> r]
Callbacks == {DeactivateCb(t) : t \in DeactTypes}
             \cup {PollingCb(r) : r \in RE \cup {NULL}}

Aborts == {"none", "unknown command", "RF_DISCOVER", "RF_DISCOVER_SELECT",
           "RF_DEACTIVATE", "data", "hci", "t3t_polling_ntf",
           "discovery ntf", "activated ntf", "activated ntf, active_re"}

Init ==
  /\ state = "IDLE" /\ rf_state = "IDLE"
  /\ nfcid = 0 /\ active_re = NULL /\ active_rf = NULL
  /\ id = [r \in RE |-> 0]
  /\ pending = <<>>
  /\ out = Nothing /\ told = 0
  /\ aborted = "none"

(* A failed assert() in handler a *)
Abort(a) == aborted' = a /\ UNCHANGED <<dev, pending, out, told>>

(* nfc_rf_state_transition to `to', allowed from the states of bits only *)
RfTransition(bits, to) == rf_state \in bits /\ rf_state' = to

(* Mutants of NextId: no wrap-around; the last id is never handed out *)
NextId_Unbounded == nfcid + 1
NextId_Short     == (nfcid % (MaxId - 1)) + 1

(* The id nfc_device_incr_id hands out *)
NextId == (nfcid % MaxId) + 1

NoHistory == UNCHANGED <<pending, told, aborted>>

------------------------------------------------------------------------------
(* NCI commands.  `In(s)' holds while commands go to the table of state s. *)

In(s) == aborted = "none" /\ state = s

(* Commands a state's table sends to create_semantic_error_rsp *)
SemanticErrorCmds ==
  [IDLE        |-> Cmds \ {"CORE_RESET", "GET_BUILD_INFO",
                           "GET_PATCH_VERSION"},
   RESET       |-> Cmds \ {"CORE_INIT"},
   INITIALIZED |-> {"CORE_INIT"}]

(* Commands whose handler only writes an OK response *)
StatusOnlyCmds ==
  [IDLE        |-> {"GET_BUILD_INFO", "GET_PATCH_VERSION"},
   RESET       |-> {},
   INITIALIZED |-> {"RF_DISCOVER_MAP", "NFCEE_DISCOVER"} \cup PropCmds]

(* Commands of the tables that have no handler *)
UnhandledCmds ==
  [IDLE        |-> {},
   RESET       |-> {},
   INITIALIZED |-> {"CORE_GET_CONFIG", "CORE_CONN_CREATE",
                    "CORE_CONN_CLOSE", "RF_SET_LISTEN_MODE_ROUTING",
                    "RF_GET_LISTEN_MODE_ROUTING", "RF_PARAMETER_UPDATE",
                    "NFCEE_MODE_SET"}]

SemanticError ==
  /\ aborted = "none" /\ SemanticErrorCmds[state] # {}
  /\ out' = Rsp("SEMANTIC_ERROR")
  /\ UNCHANGED dev /\ NoHistory

StatusOnly ==
  /\ aborted = "none" /\ StatusOnlyCmds[state] # {}
  /\ out' = Rsp("OK")
  /\ UNCHANGED dev /\ NoHistory

(* assert(process): for c in no table, in every state, and for the NULL    *)
(* entries of the INITIALIZED state's tables                               *)
UnknownCmd(c) ==
  /\ aborted = "none"
  /\ c \notin Cmds \/ c \in UnhandledCmds[state]
  /\ Abort("unknown command")

(* Mutant of CoreReset: the active endpoint is forgotten in any case *)
CoreReset_ForgetsEndpoint(reset) ==
  /\ state' = "RESET"
  /\ rf_state' = IF reset THEN "IDLE" ELSE rf_state
  /\ active_re' = NULL /\ active_rf' = NULL
  /\ out' = Rsp("OK")
  /\ UNCHANGED <<nfcid, id, pending, told, aborted>>

(* What CORE_RESET does in the IDLE and in the INITIALIZED state; reset is *)
(* the command's "reset configuration" byte                                *)
CoreReset(reset) ==
  /\ state' = "RESET"
  /\ rf_state' = IF reset THEN "IDLE" ELSE rf_state
  /\ out' = Rsp("OK")
  /\ UNCHANGED <<nfcid, active_re, active_rf, id, pending, told, aborted>>

IdleCoreReset(reset) == In("IDLE") /\ CoreReset(reset)
InitCoreReset(reset) == In("INITIALIZED") /\ CoreReset(reset)

ResetCoreInit ==
  /\ In("RESET")
  /\ state' = "INITIALIZED"
  /\ out' = Rsp("OK")
  /\ UNCHANGED <<rf_state, nfcid, active_re, active_rf, id>> /\ NoHistory

RfDiscover ==
  /\ In("INITIALIZED")
  /\ \/ /\ RfTransition({"IDLE"}, "DISCOVERY")
        /\ out' = Rsp("OK")
        /\ UNCHANGED <<state, nfcid, active_re, active_rf, id>> /\ NoHistory
     \/ rf_state # "IDLE" /\ Abort("RF_DISCOVER")

(* nfc_get_re_by_id: the endpoints with id n.  Ids are unique (IdsUnique), *)
(* so the first one in nfc_res[] is the only one.                          *)
GetReById(n) == {r \in RE : id[r] = n}

(* RF states a selection is legal in; mutant: an active one is, too *)
SelectFrom_Active == {"W4_HOST_SELECT", "POLL_ACTIVE"}
SelectFrom == {"W4_HOST_SELECT"}

(* The host selects id n; protoOk tells whether it named the endpoint's    *)
(* own RF protocol.  0 and MaxId + 1 (255) are reserved ids.               *)
RfDiscoverSelect(n, protoOk) ==
  LET Found == IF n \in {0, MaxId + 1} \/ ~protoOk THEN {} ELSE GetReById(n)
      Usable == {r \in Found : FindRf(r) # NULL}
  IN  /\ In("INITIALIZED")
      /\ \/ /\ Usable = {}
            /\ active_rf' = IF Found = {} THEN active_rf ELSE NULL
            /\ out' = Rsp("REJECTED")
            /\ UNCHANGED <<state, rf_state, nfcid, active_re, id>> /\ NoHistory
         \/ \E r \in Usable :
              /\ active_rf' = FindRf(r)
              /\ RfTransition(SelectFrom, "W4_HOST_SELECT")
              /\ active_re' = r
              /\ out' = Rsp("OK")
              /\ UNCHANGED <<state, nfcid, id>> /\ NoHistory
         \/ /\ Usable # {} /\ rf_state \notin SelectFrom
            /\ Abort("RF_DISCOVER_SELECT")

(* RF states a deactivation of type t is legal in, and where it leads *)
DeactivateFrom(t) ==
  CASE t = "IDLE_MODE" -> RfStates \ {"IDLE"}
    [] t \in DeactTypes \ {"IDLE_MODE"} -> {"POLL_ACTIVE", "LISTEN_ACTIVE"}
    [] OTHER -> {}

(* Mutant of DeactivateTo: every active interface returns to discovery *)
DeactivateTo_Discovery(t) == IF t = "IDLE_MODE" THEN "IDLE" ELSE "DISCOVERY"

DeactivateTo(t) ==
  CASE t = "IDLE_MODE" -> "IDLE"
    [] t = "DISCOVERY" -> "DISCOVERY"
    [] OTHER -> IF rf_state = "POLL_ACTIVE" THEN "W4_HOST_SELECT"
                                            ELSE "LISTEN_SLEEP"

(* Mutants of DeactivateNotifies: tested on the state after the transition; *)
(* no notification at all                                                  *)
DeactivateNotifies_After(t) ==
  ~ (t = "IDLE_MODE" /\ DeactivateTo(t) \in {"DISCOVERY", "W4_HOST_SELECT"})
DeactivateNotifies_Never(t) == FALSE

(* The response alone ends a discovery nothing is active in *)
DeactivateNotifies(t) ==
  ~ /\ t = "IDLE_MODE"
    /\ rf_state \in {"DISCOVERY", "W4_ALL_DISCOVERIES", "W4_HOST_SELECT",
                     "LISTEN_SLEEP"}

(* Mutants of ResetState: it misses the active endpoint; it misses the ids *)
ResetState_KeepsEndpoint ==
  active_rf' = NULL /\ id' = [r \in RE |-> 0] /\ UNCHANGED active_re
ResetState_KeepsIds == active_re' = NULL /\ active_rf' = NULL /\ UNCHANGED id

(* "reset state" at the end of an activation or a discovery *)
ResetState ==
  active_re' = NULL /\ active_rf' = NULL /\ id' = [r \in RE |-> 0]

(* The notification follows the response in a delivery callback *)
RfDeactivate(t) ==
  /\ In("INITIALIZED")
  /\ \/ /\ RfTransition(DeactivateFrom(t), DeactivateTo(t))
        /\ Len(pending) < MaxPending
        /\ ResetState
        /\ pending' = IF DeactivateNotifies(t)
                      THEN Append(pending, DeactivateCb(t)) ELSE pending
        /\ out' = Rsp("OK")
        /\ UNCHANGED <<state, nfcid, told, aborted>>
     \/ rf_state \notin DeactivateFrom(t) /\ Abort("RF_DEACTIVATE")

(* The callback is given the endpoint active now, none included *)
T3tPolling ==
  /\ In("INITIALIZED") /\ Len(pending) < MaxPending
  /\ pending' = Append(pending, PollingCb(active_re))
  /\ out' = Rsp("OK")
  /\ UNCHANGED <<dev, told, aborted>>

NciCmd ==
  \/ SemanticError \/ StatusOnly
  \/ \E c \in Cmds \cup {"unassigned"} : UnknownCmd(c)
  \/ \E reset \in BOOLEAN : IdleCoreReset(reset) \/ InitCoreReset(reset)
  \/ ResetCoreInit
  \/ RfDiscover
  \/ \E n \in 0..(MaxId + 1), protoOk \in BOOLEAN : RfDiscoverSelect(n, protoOk)
  \/ \E t \in DeactTypes \cup {"unassigned"} : RfDeactivate(t)
  \/ T3tPolling

------------------------------------------------------------------------------
(* NCI data, HCI commands and deferred notifications *)

(* process_nci_dta, whatever nfc->state is: data goes to the active endpoint *)
NciData ==
  /\ aborted = "none"
  /\ \/ /\ rf_state \in {"POLL_ACTIVE", "LISTEN_ACTIVE"}
        /\ out' = Dta(active_re)
        /\ UNCHANGED dev /\ NoHistory
     \/ rf_state \notin {"POLL_ACTIVE", "LISTEN_ACTIVE"} /\ Abort("data")

(* HCI messages, by their first two bytes: the BCM2079x command            *)
(* WRITE_SLEEP_MODE with the two upper bits set, with any other upper      *)
(* bits, or a message of another command or service                        *)
HciMsgs == {"SLEEP_MODE|RFU", "SLEEP_MODE", "other"}

(* Messages a state's handler answers; the others get no answer.  The IDLE *)
(* state's compares all bits of the command.                               *)
HciAnswered ==
  [IDLE        |-> {"SLEEP_MODE|RFU"},
   INITIALIZED |-> {"SLEEP_MODE|RFU", "SLEEP_MODE"}]

(* nfc_process_hci_cmd: the RESET state's handler is assert(0) *)
HciCmd(c) ==
  /\ aborted = "none"
  /\ \/ /\ state # "RESET"
        /\ out' = IF c \in HciAnswered[state] THEN HciEvt ELSE Nothing
        /\ UNCHANGED dev /\ NoHistory
     \/ state = "RESET" /\ Abort("hci")

(* The emulator calls the oldest delivery callback.  The notification of   *)
(* T3T polling reads the NFCID2 of the endpoint captured by the command.   *)
Deliver ==
  /\ aborted = "none" /\ pending # <<>>
  /\ LET cb == Head(pending) IN
       \/ /\ cb.func = "deactivate"
          /\ out' = Ntf("RF_DEACTIVATED")
          /\ pending' = Tail(pending)
          /\ UNCHANGED <<dev, told, aborted>>
       \/ /\ cb.func = "t3t_polling" /\ cb.re # NULL
          /\ out' = Ntf("RF_T3T_POLLING")
          /\ pending' = Tail(pending)
          /\ UNCHANGED <<dev, told, aborted>>
       \/ cb.func = "t3t_polling" /\ cb.re = NULL /\ Abort("t3t_polling_ntf")

------------------------------------------------------------------------------
(* Console operations *)

(* nfc_create_rf_discovery_ntf for endpoint r *)
DiscoveryNtf(r, type) ==
  LET To == IF rf_state = "DISCOVERY" \/ type = "MORE"
            THEN "W4_ALL_DISCOVERIES" ELSE "W4_HOST_SELECT"
  IN  /\ aborted = "none"
      /\ \/ /\ id[r] # 0        \* already discovered, nothing is sent
            /\ out' = Nothing /\ UNCHANGED dev /\ NoHistory
         \/ /\ id[r] = 0
            /\ rf_state = "DISCOVERY" => type = "MORE"
            /\ RfTransition({"DISCOVERY", "W4_ALL_DISCOVERIES"}, To)
            /\ nfcid' = NextId
            /\ id' = [id EXCEPT ![r] = NextId]
            /\ out' = Ntf("RF_DISCOVER")
            /\ UNCHANGED <<state, active_re, active_rf, pending, told, aborted>>
         \/ /\ id[r] = 0
            /\ \/ rf_state = "DISCOVERY" /\ type # "MORE"
               \/ rf_state \notin {"DISCOVERY", "W4_ALL_DISCOVERIES"}
            /\ Abort("discovery ntf")

(* The RF states an activation in mode m is legal in, and where it leads *)
ActivateFrom(m) ==
  {"DISCOVERY", IF m \in PollModes THEN "W4_HOST_SELECT" ELSE "LISTEN_SLEEP"}
ActivateTo(m) == IF m \in PollModes THEN "POLL_ACTIVE" ELSE "LISTEN_ACTIVE"

(* The interface to activate r on: the one already active, the one that    *)
(* fits r, or the one the operator gives; -1 asks for that.  NULL if there *)
(* is no endpoint or nothing fits.                                         *)
ActivationRf(r, rf) ==
  IF r = NULL THEN NULL
  ELSE IF active_rf # NULL THEN active_rf
  ELSE IF rf = -1 THEN FindRf(r) ELSE rf

(* The RF transition is chosen by the interface's mode; mutant: by the     *)
(* endpoint's                                                              *)
ActivationMode_Endpoint(r, rf) == mode[r]
ActivationMode(r, rf) == RfTable[rf].mode

(* assert(nfc->active_re == re), once a missing active endpoint is set to  *)
(* r; mutant: no such assertion                                            *)
MayActivate_Any(r) == TRUE
MayActivate(r) == active_re \in {NULL, r}

(* nfc_rf_intf_activated_ntf_cb and nfc_create_rf_intf_activated_ntf for   *)
(* arg, NULL standing for the active endpoint.  The endpoint's LLCP links, *)
(* which nfc_clear_re resets, are the state of module LlcpEndpoint.        *)
ActivatedNtf(arg, rf) ==
  LET r     == IF arg = NULL THEN active_re ELSE arg
      newRf == ActivationRf(r, rf)
      newId == IF id[r] = 0 THEN NextId ELSE id[r]
      m     == ActivationMode(r, newRf)
  IN  /\ aborted = "none"
      /\ arg = NULL => rf = -1
      /\ \/ /\ newRf = NULL          \* KO on the console
            /\ out' = Nothing /\ UNCHANGED dev /\ NoHistory
         \/ /\ newRf # NULL
            /\ RfTransition(ActivateFrom(m), ActivateTo(m))
            /\ MayActivate(r)
            /\ active_re' = IF active_re = NULL THEN r ELSE active_re
            /\ active_rf' = newRf
            /\ id' = [id EXCEPT ![r] = newId]
            /\ nfcid' = IF id[r] = 0 THEN NextId ELSE nfcid
            /\ told' = newId
            /\ out' = Ntf("RF_INTF_ACTIVATED")
            /\ UNCHANGED <<state, pending, aborted>>
         \/ /\ newRf # NULL
            /\ rf_state \notin ActivateFrom(m)
            /\ Abort("activated ntf")
         \/ /\ newRf # NULL
            /\ rf_state \in ActivateFrom(m) /\ ~MayActivate(r)
            /\ Abort("activated ntf, active_re")

(* nfc_rf_intf_deactivate_ntf_cb tells the host and changes nothing *)
ConsoleDeactivateNtf ==
  /\ aborted = "none"
  /\ out' = Ntf("RF_DEACTIVATED")
  /\ UNCHANGED dev /\ NoHistory

Console ==
  \/ \E r \in RE, type \in NtfTypes : DiscoveryNtf(r, type)
  \/ \E r \in RE \cup {NULL}, rf \in ConsoleRf \cup {-1} : ActivatedNtf(r, rf)
  \/ ConsoleDeactivateNtf

Next == NciCmd \/ NciData \/ (\E c \in HciMsgs : HciCmd(c)) \/ Deliver \/ Console

Spec == Init /\ [][Next]_vars

------------------------------------------------------------------------------
(* Properties *)

(* Every variable has the type its C declaration and its uses give it. *)
TypeOK ==
  /\ state \in States /\ rf_state \in RfStates
  /\ nfcid \in Ids
  /\ active_re \in RE \cup {NULL} /\ active_rf \in RF \cup {NULL}
  /\ id \in [RE -> Ids]
  /\ pending \in Seq(Callbacks) /\ Len(pending) <= MaxPending
  /\ out \in Packets
  /\ told \in Ids
  /\ aborted \in Aborts

(* While an RF interface is active there is an active endpoint to take the *)
(* host's data, with an interface and an id: process_nci_dta checks the RF *)
(* state only and passes nfc->active_re on, whatever resets came before.   *)
ActiveHasEndpoint ==
  rf_state = "POLL_ACTIVE" =>
    active_re # NULL /\ active_rf # NULL /\ id[active_re] # 0

(* While an RF interface is active, the endpoint that gets the host's data *)
(* is the one the last RF_INTF_ACTIVATED_NTF named to the host: no         *)
(* selection, reset or repeated console command redirects it silently.     *)
HostTalksToActive ==
  rf_state = "POLL_ACTIVE" => active_re # NULL /\ id[active_re] = told

(* No two endpoints share a discovery id although the ids wrap around and  *)
(* are kept over resets: nfc_get_re_by_id returns the first match.         *)
IdsUnique ==
  \A r1, r2 \in RE : r1 # r2 /\ id[r1] = id[r2] => id[r1] = 0

(* The listen states are never entered, although every endpoint is in a    *)
(* listen mode: the RF transition is taken from the interface's mode, and  *)
(* nfc->rf[] holds poll modes only ("maybe tail->mode?", nfc-nci.c).       *)
NoListenState == rf_state \notin {"LISTEN_ACTIVE", "LISTEN_SLEEP"}

(* The active endpoint is replaced by another only by a host selection;    *)
(* every other change goes through a deactivation.                         *)
EndpointReplacedBySelection ==
  [][active_re # NULL /\ active_re' \notin {active_re, NULL} =>
       rf_state = "W4_HOST_SELECT" /\ rf_state' = "W4_HOST_SELECT"]_vars

(* The host is sent an RF_DEACTIVATE_NTF for a deactivation command exactly *)
(* when the command ended an activation: the test is made on the RF state   *)
(* before the transition.  A reset ends an activation without one.          *)
DeactivationNotified ==
  [][/\ (rf_state = "POLL_ACTIVE" /\ rf_state' # "POLL_ACTIVE"
           /\ state' # "RESET") =>
          \E t \in DeactTypes : pending' = Append(pending, DeactivateCb(t))
     /\ (\E t \in DeactTypes : pending' = Append(pending, DeactivateCb(t))) =>
          rf_state \in {"POLL_ACTIVE", "LISTEN_ACTIVE"}
          /\ rf_state' # rf_state]_vars

(* A command answered with an error changes nothing but the answer.  The   *)
(* selection assigns nfc->active_rf before it is known to succeed.         *)
RejectedChangesNothing ==
  [][out' \in Rejections => UNCHANGED <<dev, pending>>]_vars

(* The controller implements the activations a host is promised: the       *)
(* active endpoint is the one with the RF interface, the reports the host  *)
(* is owed are the deactivations among the delivery callbacks, whatever    *)
(* commands and polling notifications come between.                        *)
Deactivations == {DeactivateCb(t) : t \in DeactTypes}

Promise == INSTANCE Activation WITH
  ActiveId <- 1..MaxId, Reason <- DeactTypes,
  active <- IF rf_state = "POLL_ACTIVE" THEN id[active_re] ELSE 0,
  owed <- Images(pending, Deactivations, [c \in Deactivations |-> c.type])

ImplementsActivation == Promise!Spec
==============================================================================

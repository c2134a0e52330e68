# A TLA+ verification of libnfcemu

libnfcemu emulates an NFC controller and the NFC devices in its reach for a
phone emulator. The *host* (the guest's NFC driver) talks NCI to it; an
*operator* at the emulator's console makes remote endpoints appear and sends
messages from them. This directory holds TLA+ models of the library's protocol
machines and of the parts that hold bytes for host and operator, their TLC
instances, and machine-checked proofs. Paths below are relative to the
repository, whose code is under `src/`.

Check a model with `tlc -config NfcDevice.cfg MCNfcDevice` and a proof with
`tlapm NfcDeviceProofs.tla`. `PROJECT.json` lists runs, mutants, the source
lines of every definition, findings, hazards and theorems.

## The system

The library has no threads: the emulator's main loop calls it with a packet of
the host, a console command or an expired timer, and each call runs to its end.
What makes it hard is what happens *between* calls: notifications left to
callbacks, a timer, queues, and a host and an operator who act in any order.

| Part | Source | State | Operations | Behaves correctly if |
|---|---|---|---|---|
| NCI controller | `nfc-nci.c`, `nfc.c` | `state`, `active_re`, `active_rf`, `id` | one handler per command and per state; data; three notifications | data reaches the endpoint the host was told of; rejected commands leave no trace; each ended activation is notified |
| RF state machine | `nfc-rf.c` | `rf_state` | `nfc_rf_state_transition` | no legal session takes a transition that is not there |
| Discovery ids | `nfc.c`, `nfc-re.c` | `nfc->id`, `nfc_res[].id` | `nfc_device_incr_id`, `nfc_get_re_by_id` | ids are unique while they live |
| LLCP endpoint | `nfc-re.c`, `llcp.c` | per data link: status, V(S), queue, receive buffer; per endpoint: queue, turn, timer, last SAPs | one handler per PDU type; the timer; connect; `nfc_clear_re` | messages are neither lost, doubled nor stranded; turns are used; both ends agree on connections |
| SNEP server | `llcp-snep.c`, `snep.c` | the link's receive buffer | PUT, Success, error responses | a complete PUT and nothing else is stored and acknowledged |
| Console | `cmdline.c` | none | `nci`, `llcp`, `snep`, `tag` commands | each does what its handler does |
| Configuration | `nfc-nci.c` 27-84, 511-544 | `config_id_value[]` | CORE_SET_CONFIG | a parameter keeps what was set, whatever is set beside it |
| Tags, types 1 to 4 | `nfc-tag.c` | tag memory, T4T's selected file | read, select; set, clear and format from the console | a reader finds the message set last |
| NDEF, base64 | `ndef.c`, `base64.c`, `cmdline.c` 49-225 | none | build, access, encode, decode | what goes out is what was meant, what is shown is what came in |
| HCI | `nfc-hci.c` | none (reads `state`) | one command | no command meets the RESET state |
| Entry points | `nfcemu.c`, `cb.c` | callback table | | |

Interaction: the host's packets enter at `nfc_device_process_nci_msg`. Commands
go to the table of the current state. A handler answers at once and may leave an
`nfc_delivery_cb`, which the emulator calls later to fetch a notification. Data
goes to `active_re`, for an NFC-DEP endpoint to its LLCP layer, which may answer
in the same call, gets the right to transmit, and arms a two-second timer. A
console command either raises a notification through the controller (and, for
an activation, resets the endpoint's links) or makes the active endpoint send a
PDU, at once if it has the turn, else through its queue.

## Modules

| Module | Models | Composes |
|---|---|---|
| `NfcDevice` | controller, RF states, discovery ids, HCI, the console's notifications | |
| `NciSession` | controller with a host that follows the RF state machine | `NfcDevice` |
| `LlcpEndpoint` | one NFC-DEP endpoint against any host | |
| `LlcpSession` | endpoint with an LLCP host over packets in order | `LlcpEndpoint` |
| `EmuSession` | controller and endpoint together | `NciSession`, `LlcpEndpoint` |
| `Activation` | abstract: activations as a host is promised them; implemented by `NfcDevice` | |
| `Mailbox` | abstract: the links as message queues; implemented by `LlcpEndpoint` | |
| `Base64` | `encode_base64`, `decode_base64` | |
| `Ndef` | records, their accessors, `build_ndef_msg` | `Base64` |
| `SnepServer` | SNEP server, receive buffer, `snep put` and its display | `Ndef` |
| `NfcTag` | the four tag types and a host that reads them | |
| `NciConfig` | CORE_SET_CONFIG and the parameter store | |
| `DataPlane` | the last three side by side | `SnepServer`, `NfcTag`, `NciConfig` |
| `SeqImages` | a queue seen through the elements that count, for the two refinements | |
| `NfcDeviceProofs` | theorems about `NfcDevice` | |
| `LlcpEndpointProofs` | theorems about `LlcpEndpoint` | |
| `NciSessionProofs`, `LlcpSessionProofs`, `EmuSessionProofs` | theorems about the sessions | the two above |
| `TagConfigProofs` | theorems about the tags and the configuration parameters of `DataPlane` | |
| `SnepServerProofs` | theorems about the SNEP server, NDEF messages and Base64 | |
| `SeqImagesProofs` | induction, recursive functions, `SeqImages` | |
| `MC...` | instances for TLC | |

**Conventions.** Every call into the library is one action, everything it calls
included. A failed `assert()` is modelled as a stop: `aborted` names the
handler, nothing else changes and no action is enabled after it. Where C
would go on into undefined behaviour (inserting into an uninitialised list) the
model stops likewise. Because the program may stop, runs set
`CHECK_DEADLOCK FALSE`. `out` is what the step handed to the emulator. Mutated
forms of definitions (named `Definition_Mutation`) stand before the definition
they mutate; they document which bug each property is able to see and are used
nowhere else.

**`NfcDevice`.** `state`, `rf_state`, `active_re`, `active_rf`, `id` and `nfcid`
are the fields of `struct nfc_device` and of the endpoints; `pending` are the
delivery callbacks not called yet, with the data captured for them; `told` is a
history variable, the id in the last activation notification. Commands whose
handlers differ only in the bytes of the response are one action (`StatusOnly`,
`SemanticError`). The endpoints, their protocols and modes are constants;
`InterfaceAssumption` says of `nfc_res[]` what makes
`nfc_find_rf_by_protocol_and_mode` succeed. An activation also resets the
endpoint's links, which are the state of `LlcpEndpoint`. CORE_SET_CONFIG in the
INITIALIZED state is left to `NciConfig`: it touches a state of its own. `HciCmd`
is the HCI dispatcher, an entry of its own that reads `state` only.

**`NciSession`.** The host knows responses and notifications only. `host_rf` is
the RF state it concludes, `known` the ids it was told, `waiting` the
deactivation it awaits the notification of. It sends commands that are legal in
`host_rf`, the operator raises the notifications legal there. Two switches add
what a real session may do: `ResetWhileActive` and `LinkLoss`.

**`LlcpEndpoint`.** The host may send any PDU at any time once the endpoint is
active. A link stands for a pair of SAPs. V(R), V(SA), V(RA), MIU and RW are
written by the code but decide nothing and are left out, as is `re->sbuf`,
whose size stays 0 so that `write_buf` refuses every write of at least a byte.
PDUs are at least as long as their headers. `rbuf[l]` is
not the content of the buffer but the status the link had when it was received.
`since` counts the PDUs handed over since the host's last one. A timeout is
armed and cancelled, never early or late: the module has no clock. Operator
commands happen while the endpoint is the active one.

**`LlcpSession`.** The host transmits when it has the turn, first the answers it
owes (CC or DM), then what it likes; it takes packets in order. It accepts I
PDUs whatever their number and records in `in_seq` whether it was the expected
one. The code departs from strict alternation: a PDU of the host is answered
and grants the turn as well, so up to two PDUs come back (`TurnBounded`).
A call in which an assertion fails puts nothing on the wire. `HostCloses` lets
the host refuse and close links, `Reactivates` lets the operator activate the
endpoint again.

**`EmuSession`.** The session of `NciSession` with the state of one endpoint:
`OperatorActivates` clears the endpoint's links if it is the one activated, the
host's data is a PDU for it, the timer fires whatever the RF state is, and the
console's LLCP and SNEP commands need an active endpoint and no RF interface.
The modules' variables of one name are told apart in the instance (`out` is `pdu`
there, `pending` is `waits`). `late` counts what is handed over while the
endpoint has no RF interface, `touched` holds the links used since the
activation.

**`SnepServer`, `Ndef`, `Base64`.** Bytes as they are. A loop of the code is a
recursive function over the number of its rounds: the base64 loops over
characters, with the partial byte in a field; `build_ndef_msg` over records; the
console's walk over the receive buffer, with the accessors' offsets, old bytes
behind `rlen` included. References are written from RFC 4648 (`RfcEncode`) and
[NDEF] (`RecBytes`, `NdefBytes`). The host sends requests, answers, wrong lengths
and versions; the operator types records, of which one may not be Base64.
The length of a PDU is an `unsigned char` (`llcp.h:203`) and nothing checks it:
`create_snep_cp` is handed a room, but `build_ndef_msg` writes the header of a
record without looking at it, and then has a very large room left. A message of
more than `PduRoom` bytes is therefore not modelled further; `sent.end` is
"overrun".

**`NfcTag`.** A function of addresses per tag; a byte of a message is a number
that tells message and place, so that no two are mixed up. The host reads as the
tag types' operation specifications have it, one command a step, and may give
up anywhere; the operator sets, clears and formats in between, which ends the
reading. Setting a message that overruns the data area stops the model.

**`NciConfig`.** The table is copied from the source. A command is built as a
packet of fields and walked as the code walks it, 8-bit offset included.
`known` holds what the host set. The payload of a packet has at most 255 bytes.

**`Activation` and `Mailbox`** name no detail of the code. `NfcDevice` maps the id
of the endpoint with the RF interface to `active` and the deactivations among
the delivery callbacks to `owed`. `LlcpEndpoint` maps the I PDUs of a link,
first those in the transmit queue and then those waiting for the connection, to
the link's box: the step that moves them from one queue to the other is a
stutter, which is what makes the order it must keep visible. Both mappings pick
elements of queues and look at a part of each: `Images` of `SeqImages`.

## Runs

| Run | States | Question |
|---|---|---|
| `NfcDevice` | 1,119,193 | anything in any order: does data go where the host was told, are ids unique, are errors without effect, are ended activations notified, can listen states be reached; refinement of `Activation` |
| `NciSession` | 6,916 | a well-behaved session: no assertion fails, host and controller agree, known endpoints can be selected |
| `NciSessionFaults` | 659,120 | with resets while active and link losses: what survives of it, and whether a deactivation is always notified in the end |
| `LlcpEndpoint` | 986,936 | any host: turns and timers, the fate of messages, what the console shows; refinement of `Mailbox` |
| `LlcpSession` | 18,321 | a host that closes nothing: every message arrives, the turn is used, each CONNECT is answered once |
| `LlcpSessionFaults` | 436,424 | refusals, closings, crossing CONNECTs, new activations: both ends agree on the open links |
| `EmuSession` | 3,944,304 | controller and endpoint: data finds links that are set up, nothing but one late PDU leaves an endpoint without RF interface, an activation starts fresh |
| `DataPlane` | 13,070 | a reader finds the message set last; the console shows the message acknowledged last; what goes out is what was meant; parameters are separate |
| `ActivatedIsActive` | - | fails: finding 1 |
| `ActivatedAfterLinkLoss` | - | fails: finding 2 |
| `CcAnswersConnect` | - | fails: finding 3 |
| `InSequence` | - | fails: finding 4 |

**Bounds.** Three endpoints of three protocols and three ids: a discovery of all
of them uses every id, and the counter wraps while two are alive. `MaxPending`
is 1 or 2: two is the least in which a notification waits behind another.
`ConsoleRf` has one interface that does not fit every endpoint; all others
behave as it or as the automatic choice. Two messages let one overtake, follow
or double the other. Sequence numbers count modulo 2 or 3 instead of 16, so that
they wrap within a run. `MaxQueue` bounds the endpoint's queue for console
operations only, and 2 or 3 leave room for a CONNECT with both messages;
`MaxWire` bounds what the host has not taken. Two links suffice in
`LlcpEndpoint` (one with a SAP handler, one without); three in `LlcpSession`,
one for each direction and the unused one.
`LlcpEndpoint` uses symmetry over messages; its temporal properties are an
action property and a refinement without fairness, neither of which tells
messages apart.

`EmuSession` has the NFC-DEP endpoint and a tag, two ids, one message, one link
with a SAP handler and the link of the SAPs 0, one place in the queue for
console commands; resets of an active controller and link losses are on. The
hazards are in the order of the two machines' steps, which these bounds leave
alone. T3T polls and HCI commands, data and console commands for the tag, and
names with one SAP of 0 are left out.

`DataPlane` takes one of its three parts per behaviour. Message lengths of a tag
lie at, just below and just above what its data area and its assertion allow,
and across a block or a READ BINARY; two messages of a length are told apart.
The seven and eight NDEF messages either way have short and long records, fields
of every length modulo 3, zero bits at the end, an id, an IL flag without id, no
record at all, one that fills the room and one that does not fit; `Room` is what
`create_i_pdu` leaves. The ten configuration fields are neighbours in the store,
of one, two, three and twenty bytes, without value, too short and unknown, at most
two in a command.

**Fairness.** `NciSession`: the emulator calls delivery callbacks it was given
(`EmulatorDelivers`). `LlcpSession`: the timer fires once armed (`Timeout`), the
emulator passes on packets (`HostTakes`), and the host uses its turn, which
[LLCP] demands of it (`HostTransmits`). All are weak: each stays enabled until
taken. Nothing is assumed of the operator.

**Refinements.** `ImplementsActivation` and `ImplementsMailbox` are checked as
properties of the runs of the detailed modules, and proved. The first says that what a host
is told of ends of activations is what happened, once each, in order, with
polling notifications and console commands in between. The second says that
messages on a link are handed over in the order they were put and at most once;
one put while it is the endpoint's turn may go first, and closing a link may give
up the newest but none older than one it keeps.

### Findings

1. CORE_RESET keeps `active_re`, `active_rf` and the ids (`nfc-nci.c:487-508`).
   After the reset of an active controller, an activation of another endpoint in
   the next discovery fails `assert(nfc->active_re == re)`.
2. `nci rf_intf_deactivate_ntf` tells the host of a lost link and leaves the RF
   state active (`cmdline.c:626-642`). The next activation fails the assertion on
   its RF transition.
3. `nfc_clear_re` keeps `re->xmit_q` (`nfc-re.c:193-207`): a CONNECT of the
   activation before is sent in the new one and its CC fails
   `assert(dl->status == LLCP_DATA_LINK_CONNECTING)`.
4. V(S) does not number I PDUs in sequence (`nfc-re.c:505`, `416`): the SNEP
   response does not advance it and CC clears it after pending PDUs got numbers.

The first three have a switch in the session modules (`ResetWhileActive`,
`LinkLoss`, `Reactivates`): with it off, `NoAbort` and `SessionNoAbort` hold, with
it on they cannot. The fourth needs two messages and nothing else. With `HostCloses` the assertion of
`process_ptype_cc` can fail too: when CONNECTs cross, the host's CC for the
endpoint's CONNECT meets a link the host's own CONNECT has connected already.

### Departures without a run

Met while translating; modelled as the code has it unless the item says
otherwise. What they break is small, or asks for a caller that does not exist.

- Tags. The assertions on the length count the message but not the bytes written
  about it: 90 to 95 bytes on a Type 1 Tag and 46 or 47 on a Type 2 Tag pass and
  overrun `data` (`nfc-tag.c:94`, `120`). `process_t4t` compares
  `t4t_ndef_apdu` with itself (522), so any unknown command is taken for a
  selection of a file. UPDATE is answered with what is in the buffer (404).
  `tag clear` and `tag format` use `re->tag` without a test (`cmdline.c:871`,
  `884`). A tag may change between two commands of a reading,
  and nothing tells the host.
- Configuration. A field without value sets as many zeros as the parameter's
  *offset* (`nfc-nci.c:532`; the table's comment at 27 has the length second).
- Base64. `encode_base64` is to "append remaining bits" (`base64.c:76`) but does so
  only if they are not all zero (77), also where three bytes made up four
  characters: of a field that ends in such bits the console's text lacks the last
  byte. `TextOf` says what is shown instead, and the theorem `EncodeIsTextOf` that
  this is all that is wrong. The comment at `cmdline.c:350` says base64url, the
  alphabet is the standard one.
- NDEF. `build_ndef_msg` writes the id before the payload, the accessors look for
  it behind, so a record with an id is shown wrong (`LastPutShown` says how). The
  length of a payload passes through a `uint8_t` (`ndef.c:133`). The branches of
  `ndef_create_rec` are swapped, without effect
  as `build_ndef_msg` creates with lengths of 0 and sets them later.
- SNEP. The response is written one SNEP header past the information field
  (`nfc-re.c:502`); not modelled. A message of less than six bytes fails an
  assertion that the test after it was to handle (`llcp-snep.c:94`, `97`);
  `Info` of `LlcpEndpoint` has it. The limit of 256 bytes (36) is never reached
  by a packet.
- LLCP. An I PDU whose content cannot be built is queued with -1 for its length
  (`nfc-re.c:101`); lengths of PDUs are not modelled.
- HCI. A command between CORE_RESET and CORE_INIT fails `assert(0)`
  (`nfc-hci.c:96`).

## Proofs

TLAPS proves the following for all values of the constants that satisfy the named
assumptions of the modules: any number of endpoints, links and messages, any
modulus of the sequence numbers, any bounds. Each invariant below is inductive
and held in a run of TLC before it was proved.

**Controller** (`NfcDeviceProofs`). `TypeOK` is not inductive: data is handed to
`active_re`, and that this is an endpoint follows from what an active interface
implies. `IInv == TypeOK /\ NoListenState /\ ActiveKnown` adds that an active
interface comes with an endpoint, an interface and an id, the one the host was
told; and that listen states are not entered, because every mode in the RF table
is a poll mode. One lemma per action shows that it is preserved. From
it: `TypeOK`, `ActiveHasEndpoint`, `HostTalksToActive`, `NoListenState`,
`EndpointReplacedBySelection`, `RejectedChangesNothing` and
`DeactivationNotified`. `RejectedChangesNothing` needs a lemma on `FindRf`: every
endpoint fits an interface, so a selection cannot be rejected after it assigned
`active_rf`. `DeactivationNotified` rests on `NoListenState`: from the listen
states a deactivation would be notified or not by other rules.

**Ids** (`NfcDeviceProofs`). `IdsUnique` for every `MaxId` not less than the
number of endpoints. Uniqueness is not inductive: the counter wraps. `AgesBounded`
says that fewer ids were handed out after a live endpoint's id than there are
live endpoints; hence the next id belongs to no live endpoint.

**Endpoint** (`LlcpEndpointProofs`). With
`IInv == TypeOK /\ TurnInv /\ LinkInv`: `TypeOK`, `TurnIffTimeout`,
`TurnBounded`, `NoneStranded` and `ReceivedWhileConnected`. The last two need
that a link becomes connected by CONNECT, which initialises it, or by CC, which
moves its queue away and clears its buffer.

**Messages** (`LlcpEndpointProofs`). Whatever PDU or command a step is, it does one
of five things to the queues (`QueueSteps`): it moves nothing but may empty links
(`Rest`), takes the head of the transmit queue, moves a link's queue behind the
transmit queue, puts a message somewhere, or queues a CONNECT. `AtMostOnce` is not
inductive: a message put must not be in a queue already. `Placed` says it place by
place, with `Accounted` (what is anywhere was put) and `OnTheirLink` (a link's
queue holds PDUs of the link). `NothingLost` is an action property of the same
five ways. `PendingInSequence` is inductive with `IInv`; on
each link a step empties the queue, does nothing to queue and V(S), or appends one
message with the number V(S) has (`NumberSteps`). It needs that numbers are
counted modulo any `SeqMod`.

**Sessions of the controller** (`NciSessionProofs`). Every step of the session is
a step of `NfcDevice`, so its invariants carry over. With any disorder,
`SessionInv` adds that a deferred poll names an endpoint, which makes
`HostActiveIsActive` inductive. For the orderly session, `InStep` says that host
and controller agree on everything, or that the host awaits exactly one
deactivation, it is among the callbacks, and the controller has dropped the
endpoint and the ids. From it `NoAbort`, `HostViewAgrees`, `KnownIsDiscovered` and
`SelectionAccepted`. Hypotheses: `~ResetWhileActive` and `~LinkLoss`. They are
needed: findings 1 and 2 are what happens without them.

**Sessions of the endpoint** (`LlcpSessionProofs`). For every host, `LinkedInv`
(the endpoint's invariant, the wire's bound and content, and `LinksAgree`) is
inductive: a PDU of the host is processed in the call that sends it, so what the
host does to its side of a link is done to the endpoint's at once, while CONNECT,
DISC and DM of the endpoint meet a host that has heard of the link. From it
`SessionTypeOK` and `LinksAgree`. That no assertion fails needs `Calm`: the host
closes nothing, there is one activation, and the operator names no link on which
the host asks. Each is needed: finding 3, and the crossing CONNECTs named under
it. `Orderly` then counts: the CONNECTs of a link in the transmit queue, on the
wire and waiting at the host are one if the link is connecting, and none if it is
not. The counting rests on lemmas about how often an element is in a queue
(`TimesAppend`, `TimesTail`, `TimesConcat`). From it `SessionNoAbort` and
`ConnectOnTheWay`.

**Controller and endpoint together** (`EmuSessionProofs`). `EmuDevice` and
`EmuEndpoint` say that the composition implements each of its parts:
`EmuSpec => Spec` and `EmuSpec => P2p!Spec`. `DataFindsLinks`, `LateAtMostOnce` and
`FreshLinks` belong to neither part. `EmuInv` makes them inductive: the turn and
the timeout exist together, nothing is late while the endpoint has the
interface, and the controller becomes active by an activation only.
`LinkedEndpoint` of `LlcpSessionProofs` is the like for `LlcpSession`.

**Refinements.** `DeviceImplementsActivation`: the steps of the controller, by
what they do to the active endpoint and to the deactivations among the callbacks,
are those of `Activation`; needs `ActiveKnown` (the id mapped to `active` is not
0) and `NoListenState`. `EndpointImplementsMailbox`: four of the five ways are
steps of the mailboxes and queueing a CONNECT is none; that a link's queue moves
behind the transmit queue is a stutter because of `OnTheirLink`, and a message may
go behind the transmit queue past no older one of its link because of
`NoneStranded`. Both need to know how `Images` follows a queue. It is
recursive, and the prover can use no induction rule with a predicate for a
parameter. `SeqImagesProofs` states the induction for a *set* of numbers
(`NatInductionSet`, from the library's theorem that `<` on the naturals is
well-founded) and with it proves that the recursion has a solution and what
it does at either end of a queue (`ImagesAppend`, `ImagesTail`, `ImagesConcat`).

**Recursive functions.** The remaining theorems are about loops over bytes. What a
`RECURSIVE` operator or a fold computes cannot be proved, so each loop is a
recursive function, `f[i]` being the state after `i` rounds, and the proofs follow
one scheme. `RecursionExists` and `RecursionUnique` of `SeqImagesProofs` say that
such a function exists and is the only one; the first takes a family of sets
`D[i]` that a round does not leave. With the loop invariant for `D[i]` it gives
the invariant for all `i`; and with a function that is the known answer, the
second gives that this is what the loop computes. `FlattenSeq` is treated alike
(`FlattenPrefixes`: what the first `i` elements are, one behind the other).

**Configuration parameters** (`TagConfigProofs`). `ParamsSeparate` is not
inductive: that a field does not disturb another parameter depends on the places
of both in the store. `ConfigInv` says that the store has, for each parameter the
host set, its bytes at its place, as long as no assertion failed, and no more
bytes than the table gives it. The walk over a command meets the fields where the
host laid them out, whatever their lengths, and no two places of the table
overlap. Of a field without value nothing is known any more (`Know`), and one that
would set more bytes than its parameter has fails the assertion. Two bounds come
from the packet: its payload has at most 255 bytes, the number of fields among
them (`Len(Packet(fields)) < 255`), so that the 8-bit offset of the walk does not
wrap. Assumption: `ConfigAssumption`, ids and values are bytes.

**Tags** (`TagConfigProofs`). `TagInv` holds three things together, for each of
the four types: what the memory has (`HeldT1t` to `HeldT4t`: no message, or the
message set last at its place with its length, and on Type 3 a checksum that is
right), what the host has of it so far (`GotT1t` to `GotT4t`: the responses one
behind the other are the memory from its start), and on Type 4 which file is
selected at that point of the reading. `ReadsWhatWasSet` speaks only of readings
that are complete; the second and third are what makes it inductive. The steps
are reads at any place of the reading, and settings, which end it. Assumption:
`TagAssumption`, lengths and keys are naturals. The limits of length follow from
the handlers' assertions and from the stop at an overrun.

**SNEP, NDEF and Base64** (`SnepServerProofs`), bottom up:

- `EncodeIsTextOf`: for every sequence of bytes, `encode_base64` computes the
  Base64 of RFC 4648 but for a last character of zero bits. The loop invariant
  says that the text so far and the bits in `rest` are the first characters of
  the Base64; `GroupCut` is the arithmetic of three bytes and four characters.
- `DecodeBack`: for every sequence of bytes and any room, `decode_base64` of its
  Base64 gives it back, unless the room ends. `DecodeSpoilt`: it fails for what
  begins with a character that is not of the alphabet.
- `RecHas`, `MessageHas`: where in its bytes the fields of a record and the
  records of a message are. `RecordShown`, `MessageShown`: of a message anywhere
  in memory the accessors find each record's fields and its end, a short record
  or not, and cut what is behind the type as `ShownAs` says.
- `RbufInv`: the first `rlen` bytes of the buffer are the message acknowledged
  last. It is inductive, as every step writes a message with its length or
  clears both. From it `LastPutShown`.
- `BuildRecGood`, `BuildMsgGood`: `build_ndef_msg` of what the operator types
  yields the bytes of the message he means, or an error, for every room, small
  ones included in which a header overruns it. `SentInv`: what went out last is
  the request for what was meant last, or nothing. From it `BuiltIsMeant`.
- `DataTypeOK` needs all four invariants: the last two for the bytes and texts.

Assumption: `SnepAssumption`, messages are sequences of records whose fields are
shorter than 256 bytes (their length fields have 8 bits but for a long payload),
up to four when the operator puts them, which is what the console has room for
(`cmdline.c:117`); the room is any natural number.

**Model-checked only.** Liveness, which is out of the prover's reach:
`DeactivationArrives`, `PutIsTaken`, `TurnUsed`. Every other property of a passing
run is proved, those of the orderly sessions under the hypotheses named above.

## Not modelled, and the plan

All components with state of their own are modelled, and every safety property
checked is proved. What a next step would be:

1. Long NDEF records with payloads of 256 bytes and more, whose length
   `build_ndef_msg` cuts to 8 bits; none fits the receive buffer or a PDU.
2. The memory of a PDU: where in it a SNEP response lands and what becomes of
   content that cannot be built.

Left out for good: the token parsers of the console (input validation without
state) and `nfcemu.c`, which stores the emulator's callbacks, creates the device
and passes on calls; logging, byte order, the build; lengths and layout of LLCP
PDUs, their parameters, and the fields of NCI responses, which no decision of
the code depends on; the memory of a PDU, hence where in it a response lands.

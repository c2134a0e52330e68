------------------------------ MODULE NciConfig ------------------------------
(***************************************************************************)
(* The controller's configuration parameters: CORE_SET_CONFIG              *)
(* (src/src/nfc-nci.c), which walks the fields of a command, and the flat  *)
(* store config_id_value[128] (src/src/nfc.c) all parameters share.        *)
(***************************************************************************)
EXTENDS Integers, SequencesExt

CONSTANTS ConfigFields,   \* the fields of commands: [id, val]
          MaxParams       \* the most fields of a command

ConfigByte == 0..255

ASSUME ConfigAssumption ==
  /\ MaxParams \in Nat
  /\ ConfigFields \subseteq [id : ConfigByte, val : Seq(ConfigByte)]

VARIABLES config_id_value,  \* of struct nfc_device
          known,            \* of each parameter, the bytes the host set
          config_out,       \* the messages the last command led to, in order
          config_end        \* "assert" if the command failed one

configVars == <<config_id_value, known, config_out, config_end>>

(* config_id_value of nfc-nci.c: offset and number of bytes; none for the  *)
(* parameters the controller does not know                                 *)
Param(off, len) == [off |-> off, len |-> len]
ConfigTable == [id \in 0..255 |->
  CASE id =   0 -> Param(0, 2)    [] id =  40 -> Param(2, 1)    [] id =  41 -> Param(3, 20)
    [] id =  48 -> Param(23, 1)   [] id =  49 -> Param(24, 1)   [] id =  50 -> Param(25, 1)
    [] id =  56 -> Param(26, 1)   [] id =  80 -> Param(27, 1)   [] id =  81 -> Param(28, 8)
    [] id =  88 -> Param(36, 1)   [] id =  96 -> Param(37, 1)   [] id =  97 -> Param(38, 20)
    [] id = 128 -> Param(58, 1)   [] id = 165 -> Param(59, 1)   [] id = 183 -> Param(60, 3)
    [] id = 185 -> Param(63, 33)  [] id = 197 -> Param(96, 1)   [] id = 202 -> Param(97, 20)
    [] id = 203 -> Param(117, 1)  [] OTHER -> Param(0, 0)]
Params == {id \in 0..255 : ConfigTable[id].len > 0}
I93_DATARATE == 183
StoreSize    == 128

ConfigInit ==
  /\ config_id_value = [a \in 0..StoreSize-1 |-> 0]
  /\ known = [id \in Params |-> <<>>]
  /\ config_out = <<>>
  /\ config_end = "none"

------------------------------------------------------------------------------
(* nfc_nci_device_set and nfc_device_set.  `third' is value[2], which the  *)
(* notification of I93_DATARATE depends on.                                *)
DeviceSet(d, id, bytes, third) ==
  LET p == ConfigTable[id]
  IN  IF \/ p.len = 0 \/ p.len < Len(bytes)
         \/ p.off + Len(bytes) >= StoreSize
      THEN [d EXCEPT !.end = "assert"]
      ELSE [d EXCEPT
              !.store = [a \in DOMAIN @ |-> IF a \in p.off..(p.off + Len(bytes) - 1)
                                            THEN bytes[a - p.off + 1] ELSE @[a]],
              !.out = IF id = I93_DATARATE /\ third % 2 = 1
                      THEN Append(@, "RF_FIELD_INFO_NTF") ELSE @]

(* A mutant of NextField: the walk forgets the two bytes before a value    *)
NextField_ValueOnly(off, len) == (off + len) % 256
NextField(off, len) == (off + 2 + len) % 256

(* The field at d.off of the packet p.  A field without value stands for   *)
(* the default, all zero, of which the table's offset is taken for the     *)
(* length.  What lies behind the packet is whatever the buffer had.        *)
SetField(p, stale, d) ==
  LET id    == p[d.off + 1]
      len   == p[d.off + 2]
      third == IF d.off + 5 <= Len(p) THEN p[d.off + 5] ELSE stale
      set   == IF len > 0 THEN DeviceSet(d, id, SubSeq(p, d.off + 3, d.off + 2 + len), third)
               ELSE DeviceSet(d, id, [i \in 1..ConfigTable[id].off |-> 0], 0)
  IN  [set EXCEPT !.off = NextField(d.off, len)]

(* What the host knows of a parameter: what it set; of a default, nothing  *)
Know(k, f) ==
  [k EXCEPT ![f.id] = [i \in 1..(IF Len(f.val) > Len(@) \/ f.val = <<>> THEN Len(f.val) ELSE Len(@)) |->
                         IF i <= Len(f.val) THEN f.val[i] ELSE @[i]]]

(* The fields of a command one behind the other *)
FieldBytes(f)  == <<f.id, Len(f.val)>> \o f.val
Packet(fields) == FlattenSeq([i \in 1..Len(fields) |-> FieldBytes(fields[i])])

(* The walk over the n fields of a packet *)
Walked(p, n, stale) ==
  LET d[i \in 0..n] ==
        IF i = 0 THEN [off |-> 0, store |-> config_id_value, out |-> <<>>, end |-> "none"]
        ELSE IF d[i - 1].end = "none" THEN SetField(p, stale, d[i - 1]) ELSE d[i - 1]
  IN  d[n]

Knowledge(fields) ==
  LET k[i \in 0..Len(fields)] == IF i = 0 THEN known ELSE Know(k[i - 1], fields[i])
  IN  k[Len(fields)]

CoreSetConfig(fields, stale) ==
  LET d == Walked(Packet(fields), Len(fields), stale)
  IN  /\ config_end' = d.end
      /\ config_id_value' = d.store
      /\ config_out' = IF d.end = "none" THEN Append(d.out, "CORE_SET_CONFIG_RSP") ELSE d.out
      /\ known' = IF d.end = "none" THEN Knowledge(fields) ELSE known

ReadsBehind(fields) ==
  LET last == fields[Len(fields)] IN last.id = I93_DATARATE /\ Len(last.val) \in 1..2

(* The payload of a command has at most 255 bytes, one of which is the     *)
(* number of fields.                                                       *)
ConfigNext ==
  /\ config_end = "none"
  /\ \E n \in 1..MaxParams : \E fields \in [1..n -> ConfigFields] :
       /\ Len(Packet(fields)) < 255
       /\ \E stale \in IF ReadsBehind(fields) THEN {0, 1} ELSE {0} : CoreSetConfig(fields, stale)

------------------------------------------------------------------------------
(* Parameters do not disturb one another: each keeps the bytes the host    *)
(* gave it last, a shorter value over the first bytes of a longer one,     *)
(* though all of them are set by walking a packet of fields of different   *)
(* lengths and by copying over a store without bounds between them.        *)
ParamsSeparate ==
  config_end = "none" =>
    \A id \in Params : \A i \in DOMAIN known[id] :
      config_id_value[ConfigTable[id].off + i - 1] = known[id][i]
==============================================================================

-------------------------------- MODULE NfcTag --------------------------------
(***************************************************************************)
(* An emulated tag (src/src/nfc-tag.c): its memory, which the console's    *)
(* `tag set', `tag clear' and `tag format' write, and the commands of a    *)
(* host that reads it.  Tags share nothing but t4t_file_sel, which only    *)
(* the Type 4 Tag has a use for, so one tag of a type chosen in TagInit    *)
(* stands for the four of nfc_tags.                                        *)
(*                                                                         *)
(* Memory is a function of addresses; a byte of an NDEF message is a       *)
(* number of 256 or more that tells the message and the place in it.       *)
(***************************************************************************)
EXTENDS Integers, Sequences, SequencesExt, FiniteSetsExt

CONSTANTS MsgLens,      \* of a tag type: the lengths of the messages set on it
          MsgKeys       \* what tells messages of a length apart

VARIABLES tag_type, mem,
          t4t_file_sel, \* the file selected, of a Type 4 Tag
          content,      \* what the tag holds: an NDEF message, or none
          got,          \* the responses to the host's commands, in order
          tag_end       \* how the program ended, if it did

TagTypes == {"T1T", "T2T", "T3T", "T4T"}
Files    == {"NONE", "CC", "NDEF"}

ASSUME TagAssumption ==
  /\ MsgLens \in [TagTypes -> SUBSET Nat]
  /\ MsgKeys \subseteq Nat

tagVars == <<tag_type, mem, t4t_file_sel, content, got, tag_end>>

NdefMsg(key, len) == [i \in 1..len |-> 1000 * key + 256 + i]
NoNdef     == [ndef |-> FALSE, msg |-> <<>>]
Holds(msg) == [ndef |-> TRUE, msg |-> msg]

(* Where the data of a tag lie, and their room *)
DataAt   == [T1T |-> 8,  T2T |-> 16, T3T |-> 16,   T4T |-> 15]
DataSize == [T1T |-> 96, T2T |-> 48, T3T |-> 1008, T4T |-> 1024]
TagSize  == [T1T |-> 120, T2T |-> 64, T3T |-> 1024, T4T |-> 1039]

Zeros(n) == [i \in 1..n |-> 0]
Bytes16(n) == <<n \div 256, n % 256>>
(* memcpy and its counterpart *)
Copy(m, at, bytes) == [a \in DOMAIN m |-> IF a \in at..(at + Len(bytes) - 1)
                                          THEN bytes[a - at + 1] ELSE m[a]]
Read(m, at, n) == [i \in 1..n |-> m[at + i - 1]]

------------------------------------------------------------------------------
T1tCc == <<225, 16, 14, 0>>
T4tCc(tlv) == <<0, 15, 32, 0, 59, 0, 52, tlv, 6, 225, 4, 4, 0, 0, 0>>
Proprietary == 5
NdefFile    == 4
TlvNdef     == 3
TlvEnd      == 254
AttrSize    == 14   \* of an attribute block, before its checksum

(* What stands in front of a formatted tag's data *)
Preamble == [T1T |-> <<1, 2, 3, 4, 5, 6, 7, 8>>,
             T2T |-> <<4, 130, 47, 33, 90, 83, 40, 128, 161, 72, 0, 0, 225, 16, 18, 0>>,
             T3T |-> <<16, 4, 1, 0, 13, 0, 0, 0, 0, 0, 1, 0, 0, 0, 0, 35>>,
             T4T |-> T4tCc(Proprietary)]
(* INIT_NFC_T*T and FORMAT_NFC_T*T; a Type 3 Tag's attributes say length 0 *)
Formatted(type) == Copy([a \in 0..TagSize[type]-1 |-> 0], 0, Preamble[type])
FormattedContent(type) == IF type = "T3T" THEN Holds(<<>>) ELSE NoNdef

(* nfc_tag_set_data, per type *)

Tlv(msg) == <<TlvNdef, Len(msg)>> \o msg \o <<TlvEnd>>
(* The message's TLV fills the data area with what precedes it, then zeros *)
Filled(m, type, bytes) ==
  Copy(m, DataAt[type], bytes \o Zeros(DataSize[type] - Len(bytes)))

SetT1t(m, msg) == Filled(m, "T1T", T1tCc \o Tlv(msg))
SetT2t(m, msg) == Filled(m, "T2T", Tlv(msg))

Checksum(bytes) ==
  LET sum[i \in 0..Len(bytes)] == IF i = 0 THEN 0 ELSE sum[i - 1] + bytes[i]
  IN  sum[Len(bytes)]

(* The length, the checksum over it and the message; the rest stays *)
SetT3t(m, msg) ==
  LET ln  == Copy(m, 11, <<Len(msg) \div 65536, (Len(msg) \div 256) % 256, Len(msg) % 256>>)
  IN  Copy(Copy(ln, AttrSize, Bytes16(Checksum(Read(ln, 0, AttrSize)))), 16, msg)

(* The capability container names an NDEF file from now on *)
SetT4t(m, msg) ==
  Copy(Copy(m, 0, T4tCc(NdefFile)), 15, Bytes16(Len(msg)) \o msg)

SetData(m, type, msg) ==
  CASE type = "T1T" -> SetT1t(m, msg) [] type = "T2T" -> SetT2t(m, msg)
    [] type = "T3T" -> SetT3t(m, msg) [] type = "T4T" -> SetT4t(m, msg)

(* The assertion on the length counts the message but not the bytes about  *)
(* it, but for the length of a Type 4 Tag                                  *)
Accepts(type, n) == n + (IF type = "T4T" THEN 2 ELSE 0) < DataSize[type]
(* Writing past the data area, and clearing "the rest" of it, is undefined *)
Fits(type, n) ==
  n + [T1T |-> 7, T2T |-> 3, T3T |-> 0, T4T |-> 2][type] <= DataSize[type]

------------------------------------------------------------------------------
TagInit ==
  /\ tag_type \in TagTypes
  /\ mem = Formatted(tag_type)
  /\ t4t_file_sel = "NONE"
  /\ content = FormattedContent(tag_type)
  /\ got = <<>>
  /\ tag_end = "none"

(* A change of the tag ends the reading the host is at: of what it would   *)
(* read across the change nothing is said.                                 *)
Changed(m, c) == mem' = m /\ content' = c /\ got' = <<>>

TagStops(how) == tag_end' = how /\ UNCHANGED <<mem, content, got>>

(* `tag set', and `tag clear' with no message *)
OperatorSetsTag ==
  \E key \in MsgKeys, len \in MsgLens[tag_type] \cup {0} :
    LET msg == NdefMsg(key, len)
    IN  /\ CASE ~Accepts(tag_type, len) -> TagStops("assert")
             [] Accepts(tag_type, len) /\ ~Fits(tag_type, len) -> TagStops("overrun")
             [] OTHER -> Changed(SetData(mem, tag_type, msg), Holds(msg)) /\ UNCHANGED tag_end
        /\ UNCHANGED <<tag_type, t4t_file_sel>>

OperatorFormatsTag ==
  /\ Changed(Formatted(tag_type), FormattedContent(tag_type))
  /\ UNCHANGED <<tag_type, t4t_file_sel, tag_end>>

------------------------------------------------------------------------------
(* The commands, each with its response.  Commands without a handler and   *)
(* UPDATE, which is answered with whatever the buffer holds, are not sent. *)

Answers(bytes) == got' = Append(got, bytes) /\ UNCHANGED tag_end

HR == <<17, 0>>
T1tRid  == Answers(HR \o Read(mem, 0, 4) \o <<0>>)
T1tRall == Answers(HR \o Read(mem, 0, TagSize["T1T"]) \o <<0>>)

(* 16 bytes from the block on; past the end the buffer stays as it is *)
T2tRead(bno) == /\ 4 * bno + 16 <= TagSize["T2T"]
                /\ Answers(Read(mem, 4 * bno, 16) \o <<0>>)

T3tBlock == 16
T3tCheck(bl) ==
  Answers(FlattenSeq([i \in 1..Len(bl) |-> Read(mem, T3tBlock * bl[i], T3tBlock)]) \o <<0>>)

Sw(sw1, sw2) == <<sw1, sw2>>
T4tAppSelect == Answers(Sw(144, 0)) /\ UNCHANGED t4t_file_sel
T4tCcSelect  == Answers(Sw(144, 0)) /\ t4t_file_sel' = "CC"

(* A mutant of T4tNdefSelect: the capability container stays selected      *)
T4tNdefSelect_Stays(exists) ==
  /\ Answers(IF exists THEN Sw(144, 0) ELSE Sw(106, 130))
  /\ UNCHANGED t4t_file_sel

(* Any command that is none of the others ends here as well *)
T4tNdefSelect(exists) ==
  /\ Answers(IF exists THEN Sw(144, 0) ELSE Sw(106, 130))
  /\ t4t_file_sel' = IF exists THEN "NDEF" ELSE t4t_file_sel

(* The selected file: where it lies, and its size *)
FileAt   == [CC |-> 0,  NDEF |-> DataAt["T4T"]]
FileSize == [CC |-> 15, NDEF |-> DataSize["T4T"]]

T4tReadBinary(off, le) ==
  /\ IF t4t_file_sel # "NONE" /\ off + le <= FileSize[t4t_file_sel]
     THEN Answers(Read(mem, FileAt[t4t_file_sel] + off, le) \o Sw(144, 0))
     ELSE tag_end' = "read" /\ UNCHANGED got
  /\ UNCHANGED t4t_file_sel

------------------------------------------------------------------------------
(* A host that reads the NDEF message: which commands it sends, and what   *)
(* it takes from the responses, is in the operation specifications of the  *)
(* tag types.  Some hosts try a file before they select the application.   *)

MLe == 59   \* T4tCc: the most a READ BINARY may ask for
T3tMax == 4 \* blocks of one CHECK, as the attributes say

Without(bytes, n) == SubSeq(bytes, 1, Len(bytes) - n)
(* The message bytes a reader has: all responses from the first-th on, of  *)
(* which the last n bytes are status                                       *)
Gathered(first, n) ==
  FlattenSeq([i \in 1..(Len(got) - first + 1) |-> Without(got[first + i - 1], n)])

T3tLn == got[1][12] * 65536 + got[1][13] * 256 + got[1][14]
T3tSum == got[1][15] * 256 + got[1][16]
T4tNlen == got[5][1] * 256 + got[5][2]

ReadDone ==
  CASE tag_type = "T1T" -> Len(got) = 2
    [] tag_type = "T2T" -> Len(got) = 4
    [] tag_type = "T3T" -> got # <<>> /\ Len(Gathered(2, 1)) >= T3tLn
    [] tag_type = "T4T" -> \/ Len(got) = 3 /\ got[3][8] # NdefFile
                           \/ Len(got) >= 5 /\ Len(Gathered(6, 2)) >= T4tNlen

HostReadsT1t == tag_type = "T1T" /\ IF got = <<>> THEN T1tRid ELSE T1tRall
HostReadsT2t == tag_type = "T2T" /\ T2tRead(4 * Len(got))
HostReadsT3t ==
  /\ tag_type = "T3T"
  /\ IF got = <<>> THEN T3tCheck(<<0>>)
     ELSE LET next == Len(Gathered(2, 1)) \div T3tBlock + 1
              last == (T3tLn + T3tBlock - 1) \div T3tBlock
              n    == IF last - next + 1 < T3tMax THEN last - next + 1 ELSE T3tMax
          IN  T3tCheck([i \in 1..n |-> next + i - 1])
HostReadsT4t ==
  /\ tag_type = "T4T"
  /\ CASE Len(got) = 0 -> T4tAppSelect \/ \E exists \in BOOLEAN : T4tNdefSelect(exists)
       [] Len(got) = 1 -> T4tCcSelect
       [] Len(got) = 2 -> T4tReadBinary(0, FileSize["CC"])
       [] Len(got) = 3 -> T4tNdefSelect(TRUE)
       [] Len(got) = 4 -> T4tReadBinary(0, 2)
       [] OTHER -> LET have == Len(Gathered(6, 2))
                       left == T4tNlen - have
                   IN  T4tReadBinary(2 + have, IF left < MLe THEN left ELSE MLe)

HostReadsTag ==
  /\ ~ReadDone
  /\ HostReadsT1t \/ HostReadsT2t \/ HostReadsT3t \/ HostReadsT4t
  /\ tag_type # "T4T" => UNCHANGED t4t_file_sel
  /\ UNCHANGED <<tag_type, mem, content>>

(* The host gives a reading up, loses the tag, or has a new look at it *)
HostStartsOver ==
  /\ got # <<>>
  /\ got' = <<>>
  /\ UNCHANGED <<tag_type, mem, t4t_file_sel, content, tag_end>>
TagNext ==
  /\ tag_end = "none"
  /\ \/ OperatorSetsTag \/ OperatorFormatsTag
     \/ HostReadsTag \/ HostStartsOver

------------------------------------------------------------------------------
(* What the host takes from a finished reading *)
ContentRead ==
  LET tlv(bytes) == IF bytes[1] # TlvNdef THEN NoNdef
                    ELSE Holds(SubSeq(bytes, 3, 2 + bytes[2]))
  IN  CASE tag_type = "T1T" -> IF SubSeq(got[2], 11, 14) # T1tCc THEN NoNdef
                               ELSE tlv(SubSeq(got[2], 15, 122))
        [] tag_type = "T2T" -> tlv(SubSeq(Gathered(1, 1), 17, 64))
        [] tag_type = "T3T" -> IF Checksum(SubSeq(got[1], 1, AttrSize)) # T3tSum
                               THEN NoNdef
                               ELSE Holds(SubSeq(Gathered(2, 1), 1, T3tLn))
        [] tag_type = "T4T" -> IF Len(got) = 3 THEN NoNdef
                               ELSE Holds(SubSeq(Gathered(6, 2), 1, T4tNlen))

(* A host that reads a tag to the end, command by command, finds exactly   *)
(* the message set last, whatever longer messages, formats and readings    *)
(* given up went before: set_t3t_data and set_t4t_data leave old bytes in  *)
(* place and t4t_file_sel outlives a reading.  And none of the commands    *)
(* such a host sends fails an assertion of process_t4t_read_binary.        *)
ReadsWhatWasSet ==
  /\ tag_end # "read"
  /\ ReadDone => ContentRead = content
===============================================================================

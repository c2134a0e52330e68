-------------------------------- MODULE Base64 --------------------------------
(***************************************************************************)
(* encode_base64 and decode_base64 of src/src/base64.c, by which records   *)
(* come from and go to the console, and the encoding of RFC 4648 that they *)
(* are compared with.                                                      *)
(*                                                                         *)
(* A character of the alphabet stands for its value, 0..63; Pad is '=',    *)
(* and Other is any character value[] does not have, '-' and '_' included. *)
(* The partial byte in *out is kept in a field of its own.                 *)
(***************************************************************************)
EXTENDS Integers, SequencesExt

Sextet == 0..63
Pad    == 64
Other  == 65
Byte   == 0..255
Char   == 0..65

(* The '=' that fill up text to a multiple of four characters *)
Padding(text) == [i \in 1..((-Len(text)) % 4) |-> Pad]

------------------------------------------------------------------------------
(* A mutant of Encoded: bits that are encoded already stay in rest         *)
Encoded_KeepsBits(e, c) ==
  [text |-> Append(e.text, e.rest + c \div 2^e.shift),
   rest |-> c * 2^(6 - e.shift), shift |-> (e.shift + 2) % 8]

(* Byte c joins the bits in rest: its upper bits complete a character, the *)
(* lower `shift' many become the rest                                      *)
Encoded(e, c) ==
  [text  |-> Append(e.text, e.rest + c \div 2^e.shift),
   rest  |-> (c % 2^e.shift) * 2^(6 - e.shift),
   shift |-> (e.shift + 2) % 8]

(* After three bytes the rest is a character of its own, put out when the  *)
(* next byte comes                                                         *)
Flushed(e) == IF e.shift # 0 THEN e
              ELSE [text |-> Append(e.text, e.rest), rest |-> 0, shift |-> 2]

(* "append remaining bits": not if they are zero *)
EncodeBase64(bytes) ==
  LET e[i \in 0..Len(bytes)] ==
        IF i = 0 THEN [text |-> <<>>, rest |-> 0, shift |-> 2]
        ELSE Encoded(Flushed(e[i - 1]), bytes[i])
      last == e[Len(bytes)]
      text == IF last.rest # 0 THEN Append(last.text, last.rest) ELSE last.text
  IN  text \o Padding(text)

------------------------------------------------------------------------------
(* d.room is what is left of olen, a size_t: less than zero is more than    *)
(* any text needs.  A failed assert(olen) and non-base64 input end the     *)
(* loop, as padding does.                                                  *)
Decoded(d, c) ==
  IF d.end # "none" THEN d
  ELSE IF c = Pad   THEN [d EXCEPT !.end = "padding"]
  ELSE IF c = Other THEN [d EXCEPT !.end = "error"]
  ELSE IF d.room = 0 THEN [d EXCEPT !.end = "abort"]
  ELSE IF d.shift = 0 THEN [d EXCEPT !.part = c * 4, !.shift = 2]
  ELSE IF d.shift = 6
  THEN [d EXCEPT !.bytes = Append(@, d.part + c), !.room = @ - 1, !.shift = 0]
  ELSE [d EXCEPT !.bytes = Append(@, d.part + c \div 2^(6 - d.shift)),
                 !.room = @ - 1, !.shift = @ + 2,
                 !.part = (c * 2^(d.shift + 2)) % 256,
                 !.end = IF d.room = 1 THEN "abort" ELSE "none"]

DecodeBase64(text, room) ==
  LET d[i \in 0..Len(text)] ==
        IF i = 0 THEN [bytes |-> <<>>, part |-> 0, shift |-> 0, room |-> room, end |-> "none"]
        ELSE Decoded(d[i - 1], text[i])
  IN  d[Len(text)]

------------------------------------------------------------------------------
(* RFC 4648, 4: groups of 24 bits are three bytes or four characters, the  *)
(* first the highest; what a last group lacks counts as zero.              *)

ByteAt(bytes, i) == IF i \in 1..Len(bytes) THEN bytes[i] ELSE 0
Group(bytes, k)  == (ByteAt(bytes, 3 * k + 1) * 256 + ByteAt(bytes, 3 * k + 2)) * 256
                      + ByteAt(bytes, 3 * k + 3)
RfcChars(bytes)  == [g \in 1..((8 * Len(bytes) + 5) \div 6) |->
                       (Group(bytes, (g - 1) \div 4) \div 64^(3 - ((g - 1) % 4))) % 64]
RfcEncode(bytes) == RfcChars(bytes) \o Padding(RfcChars(bytes))
==============================================================================

----------------------------- MODULE Imu040Parser ----------------------------
(***************************************************************************)
(* The byte-wise parser of framework/fog_imu040b/imu040b.c for the frames  *)
(* of the fibre-optic inertial unit:                                       *)
(*                                                                         *)
(*   header1 header2 state payload index checksum tail                     *)
(*                                                                         *)
(* One action per state of the parser and byte.  The state byte is stored  *)
(* with the payload and is not part of the sum.  SerialPort has the        *)
(* assumptions on the constants.                                           *)
(***************************************************************************)
EXTENDS ByteSums

CONSTANTS
  ByteRange,           \* number of values of a char, 256 in the code
  HeadChar1, HeadChar2, TailChar,  \* 0x5A, 0xA5 and 0x55
  NavLength,           \* bytes of imu040b_nav_payload_t, 45 in the code
  Decode(_)            \* the sample publish_msg makes of a buffer

Char == 0 .. ByteRange - 1

VARIABLES
  parse_state, ck_sum, payload_index,
  buf_raw,         \* imu040b_nav_buf.buf_raw
  imu040_sample,   \* the last sample, or NoSample
  \* What follows is not in the code.
  heard,           \* the bytes since the parser was last at rest
  fresh            \* whether the last byte completed a sample

vars == <<parse_state, ck_sum, payload_index, buf_raw, imu040_sample, heard, fresh>>

NoSample == <<>>

\* _checksum
Checksum(ch) == ck_sum' = (ck_sum + ch) % ByteRange

\* Slip: the index is left at the end of the payload.
ParseCharResetKeepsIndex ==
  /\ parse_state' = "HEADER1"
  /\ ck_sum' = 0
  /\ UNCHANGED payload_index

\* Slip: the sum is left.
ParseCharResetKeepsSum ==
  /\ parse_state' = "HEADER1"
  /\ payload_index' = 0
  /\ UNCHANGED ck_sum

\* _parse_char_reset
ParseCharReset ==
  /\ parse_state' = "HEADER1"
  /\ ck_sum' = 0
  /\ payload_index' = 0

\* buf_raw[payload_index++] = ch
Store(ch) ==
  /\ buf_raw' = [buf_raw EXCEPT ![payload_index + 1] = ch]
  /\ payload_index' = payload_index + 1

\* publish_msg
PublishMsg == imu040_sample' = Decode(buf_raw) /\ fresh' = TRUE

\* The byte is taken; nothing is published.
Hear(ch) ==
  /\ heard' = Append(heard, ch)
  /\ fresh' = FALSE
  /\ UNCHANGED imu040_sample

Header1(ch) ==
  /\ parse_state = "HEADER1"
  /\ parse_state' = IF ch = HeadChar1 THEN "HEADER2" ELSE "HEADER1"
  /\ heard' = IF ch = HeadChar1 THEN <<ch>> ELSE <<>>
  /\ fresh' = FALSE
  /\ UNCHANGED <<ck_sum, payload_index, buf_raw, imu040_sample>>

Header2(ch) ==
  /\ parse_state = "HEADER2"
  /\ IF ch = HeadChar2
       THEN parse_state' = "STATE" /\ UNCHANGED <<ck_sum, payload_index>>
       ELSE ParseCharReset
  /\ UNCHANGED buf_raw
  /\ Hear(ch)

State(ch) ==
  /\ parse_state = "STATE"
  /\ Store(ch)
  /\ parse_state' = "PAYLOAD"
  /\ UNCHANGED ck_sum
  /\ Hear(ch)

\* Slip: the payload ends one byte early.
PayloadShort(ch) ==
  /\ parse_state = "PAYLOAD"
  /\ Checksum(ch)
  /\ Store(ch)
  /\ parse_state' = IF payload_index' >= NavLength - 1 THEN "IDX" ELSE "PAYLOAD"
  /\ Hear(ch)

Payload(ch) ==
  /\ parse_state = "PAYLOAD"
  /\ Checksum(ch)
  /\ Store(ch)
  /\ parse_state' = IF payload_index' >= NavLength THEN "IDX" ELSE "PAYLOAD"
  /\ Hear(ch)

Idx(ch) ==
  /\ parse_state = "IDX"
  /\ parse_state' = "CHECK_SUM"
  /\ UNCHANGED <<ck_sum, payload_index, buf_raw>>
  /\ Hear(ch)

CheckSum(ch) ==
  /\ parse_state = "CHECK_SUM"
  /\ IF ck_sum = ch
       THEN parse_state' = "TAIL" /\ UNCHANGED <<ck_sum, payload_index>>
       ELSE ParseCharReset
  /\ UNCHANGED buf_raw
  /\ Hear(ch)

\* The last byte: publish_msg when it is the tail, and the parser starts again.
TailByte(ch) ==
  /\ parse_state = "TAIL"
  /\ IF ch = TailChar THEN PublishMsg ELSE fresh' = FALSE /\ UNCHANGED imu040_sample
  /\ heard' = Append(heard, ch)
  /\ ParseCharReset
  /\ UNCHANGED buf_raw

------------------------------------------------------------------------------
Init ==
  /\ parse_state = "HEADER1" /\ ck_sum = 0 /\ payload_index = 0
  /\ buf_raw = [k \in 1 .. NavLength |-> 0]
  /\ imu040_sample = NoSample
  /\ heard = <<>> /\ fresh = FALSE

\* imu040_parse_char
ParseChar(ch) ==
  \/ Header1(ch) \/ Header2(ch) \/ State(ch) \/ Payload(ch)
  \/ Idx(ch) \/ CheckSum(ch) \/ TailByte(ch)

Next == \E ch \in Char : ParseChar(ch)

Spec == Init /\ [][Next]_vars

------------------------------------------------------------------------------
(* Properties                                                               *)

\* The type of every variable; what is stored stays inside the buffer.
TypeOK ==
  /\ parse_state \in {"HEADER1", "HEADER2", "STATE", "PAYLOAD", "IDX",
                      "CHECK_SUM", "TAIL"}
  /\ ck_sum \in Char
  /\ payload_index \in 0 .. NavLength
  /\ buf_raw \in [1 .. NavLength -> Char]
  /\ heard \in Seq(Char)
  /\ fresh \in BOOLEAN

\* A frame: the sum is that of the payload after the state byte.
FrameLength == NavLength + 5
BufferOf(s) == SubSeq(s, 3, NavLength + 2)

Sum(s) == Total(SubSeq(s, 4, NavLength + 2)) % ByteRange

\* What may still become a frame.
Begins(s) ==
  /\ Len(s) \in 1 .. FrameLength
  /\ s[1] = HeadChar1
  /\ Len(s) >= 2 => s[2] = HeadChar2
  /\ Len(s) >= NavLength + 4 => s[NavLength + 4] = Sum(s)
  /\ Len(s) = FrameLength => s[FrameLength] = TailChar

IsFrame(s) == Begins(s) /\ Len(s) = FrameLength

\* A sample is published only for the bytes of a frame, one after another, and
\* is decoded from that frame.
PublishedIsFramed ==
  fresh => IsFrame(heard) /\ imu040_sample = Decode(BufferOf(heard))

\* A frame that starts when the parser is at rest is published, whatever it
\* parsed and gave up before: it gives up nothing that may become a frame.
FrameIsPublished ==
  parse_state = "HEADER1" /\ Begins(heard) => fresh
==============================================================================

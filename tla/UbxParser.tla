------------------------------ MODULE UbxParser ------------------------------
(***************************************************************************)
(* The byte-wise parser of framework/ublox/ublox.c, which looks for        *)
(* NAV-PVT frames in what the receiver sends:                              *)
(*                                                                         *)
(*   sync1 sync2 class id length1 length2 payload checksum_a checksum_b    *)
(*                                                                         *)
(* One action per state of the parser and byte.  All its variables are     *)
(* static, so it does not matter how the bytes are cut into reads.         *)
(* SerialPort has the assumptions on the constants.                        *)
(***************************************************************************)
EXTENDS ByteSums, SequencesExt

CONSTANTS
  ByteRange,           \* number of values of a char, 256 in the code
  SyncChar1, SyncChar2, UbxNav, UbxNavPvt,
  PvtLength,           \* bytes of a NAV-PVT payload, 92 in the code
  Decode(_)            \* the sample _publish_gps_msg makes of a payload

Char == 0 .. ByteRange - 1

VARIABLES
  parse_state, ck_a, ck_b, payload_length, payload_index,
  ubx_buf,          \* ubx_buf.gps_buffer_raw
  gps_sample_new,   \* the last sample, or NoSample
  \* What follows is not in the code.
  kept,             \* the bytes of the frame that moved the parser on
  fresh             \* whether the last byte completed a sample

sums    == <<ck_a, ck_b>>
parser  == <<parse_state, sums, payload_length, payload_index>>
vars    == <<parser, ubx_buf, gps_sample_new, kept, fresh>>

NoSample  == <<>>
States == {"HEADER1", "HEADER2", "CLASS", "ID", "LENGTH1", "LENGTH2",
           "PAYLOAD", "CK_A", "CK_B"}

------------------------------------------------------------------------------
\* _ubx_checksum
Checksum(ch) ==
  /\ ck_a' = (ck_a + ch) % ByteRange
  /\ ck_b' = (ck_b + ck_a') % ByteRange

\* Slip: the sums survive.
ParseCharResetKeepsSums ==
  /\ parse_state' = "HEADER1"
  /\ payload_length' = 0 /\ payload_index' = 0
  /\ UNCHANGED sums

\* _parse_char_reset
ParseCharReset ==
  /\ parse_state' = "HEADER1"
  /\ ck_a' = 0 /\ ck_b' = 0
  /\ payload_length' = 0 /\ payload_index' = 0

\* _publish_gps_msg
PublishGpsMsg == gps_sample_new' = Decode(ubx_buf) /\ fresh' = TRUE

\* The byte belongs to the frame; nothing is published.
Keep(ch) ==
  /\ kept' = Append(kept, ch)
  /\ fresh' = FALSE
  /\ UNCHANGED gps_sample_new

Header1(ch) ==
  /\ parse_state = "HEADER1"
  /\ parse_state' = IF ch = SyncChar1 THEN "HEADER2" ELSE "HEADER1"
  /\ kept' = IF ch = SyncChar1 THEN <<ch>> ELSE <<>>
  /\ fresh' = FALSE
  /\ UNCHANGED <<sums, payload_length, payload_index, ubx_buf, gps_sample_new>>

Header2(ch) ==
  /\ parse_state = "HEADER2"
  /\ IF ch = SyncChar2
       THEN parse_state' = "CLASS" /\ UNCHANGED sums
       ELSE parse_state' = "HEADER1" /\ ck_a' = 0 /\ ck_b' = 0
  /\ UNCHANGED <<payload_length, payload_index, ubx_buf>>
  /\ Keep(ch)

\* In the states CLASS and ID another byte than the one waited for changes
\* nothing: the parser goes on waiting.
PassOver(ch) ==
  /\ \/ parse_state = "CLASS" /\ ch # UbxNav
     \/ parse_state = "ID"    /\ ch # UbxNavPvt
  /\ fresh' = FALSE
  /\ UNCHANGED <<parser, ubx_buf, gps_sample_new, kept>>

Class(ch) ==
  /\ parse_state = "CLASS" /\ ch = UbxNav
  /\ Checksum(ch)
  /\ parse_state' = "ID"
  /\ UNCHANGED <<payload_length, payload_index, ubx_buf>>
  /\ Keep(ch)

Id(ch) ==
  /\ parse_state = "ID" /\ ch = UbxNavPvt
  /\ Checksum(ch)
  /\ parse_state' = "LENGTH1"
  /\ UNCHANGED <<payload_length, payload_index, ubx_buf>>
  /\ Keep(ch)

Length1(ch) ==
  /\ parse_state = "LENGTH1"
  /\ Checksum(ch)
  /\ payload_length' = ch
  /\ parse_state' = "LENGTH2"
  /\ UNCHANGED <<payload_index, ubx_buf>>
  /\ Keep(ch)

\* The length must be that of NAV-PVT.
Length2(ch) ==
  /\ parse_state = "LENGTH2"
  /\ IF payload_length + ch * ByteRange = PvtLength
       THEN /\ Checksum(ch)
            /\ payload_length' = PvtLength
            /\ parse_state' = "PAYLOAD"
            /\ UNCHANGED payload_index
       ELSE ParseCharReset
  /\ UNCHANGED ubx_buf
  /\ Keep(ch)

\* Slip: one byte more than the buffer has.
PayloadLate(ch) ==
  /\ parse_state = "PAYLOAD"
  /\ Checksum(ch)
  /\ ubx_buf' = Append(SubSeq(ubx_buf, 1, payload_index), ch)
  /\ payload_index' = payload_index + 1
  /\ parse_state' = IF payload_index' > payload_length THEN "CK_A" ELSE "PAYLOAD"
  /\ UNCHANGED payload_length
  /\ Keep(ch)

Payload(ch) ==
  /\ parse_state = "PAYLOAD"
  /\ Checksum(ch)
  /\ ubx_buf' = [ubx_buf EXCEPT ![payload_index + 1] = ch]
  /\ payload_index' = payload_index + 1
  /\ parse_state' = IF payload_index' = payload_length THEN "CK_A" ELSE "PAYLOAD"
  /\ UNCHANGED payload_length
  /\ Keep(ch)

CkA(ch) ==
  /\ parse_state = "CK_A"
  /\ IF ck_a # ch
       THEN ParseCharReset
       ELSE parse_state' = "CK_B" /\ UNCHANGED <<sums, payload_length, payload_index>>
  /\ UNCHANGED ubx_buf
  /\ Keep(ch)

\* Slip: the second sum is not looked at.
CkBUnchecked(ch) ==
  /\ parse_state = "CK_B"
  /\ PublishGpsMsg
  /\ kept' = Append(kept, ch)
  /\ ParseCharReset
  /\ UNCHANGED ubx_buf

\* The last byte: _publish_gps_msg when the sum agrees, and the parser starts
\* again.
CkB(ch) ==
  /\ parse_state = "CK_B"
  /\ IF ck_b = ch THEN PublishGpsMsg ELSE fresh' = FALSE /\ UNCHANGED gps_sample_new
  /\ kept' = Append(kept, ch)
  /\ ParseCharReset
  /\ UNCHANGED ubx_buf

------------------------------------------------------------------------------
Init ==
  /\ parse_state = "HEADER1"
  /\ ck_a = 0 /\ ck_b = 0 /\ payload_length = 0 /\ payload_index = 0
  /\ ubx_buf = [k \in 1 .. PvtLength |-> 0]
  /\ gps_sample_new = NoSample
  /\ kept = <<>> /\ fresh = FALSE

\* _ubx_parse_char handles one byte.
ParseChar(ch) ==
  \/ Header1(ch) \/ Header2(ch) \/ PassOver(ch) \/ Class(ch) \/ Id(ch)
  \/ Length1(ch) \/ Length2(ch) \/ Payload(ch) \/ CkA(ch) \/ CkB(ch)

Next == \E ch \in Char : ParseChar(ch)

Spec == Init /\ [][Next]_vars

------------------------------------------------------------------------------
(* Properties                                                               *)

\* The type of every variable; the payload stays inside its buffer.
TypeOK ==
  /\ parse_state \in States
  /\ ck_a \in Char /\ ck_b \in Char
  /\ payload_length \in 0 .. ByteRange - 1 \/ payload_length = PvtLength
  /\ payload_index \in 0 .. PvtLength
  /\ ubx_buf \in [1 .. PvtLength -> Char]
  /\ kept \in Seq(Char)
  /\ fresh \in BOOLEAN

\* A frame, by the protocol: the sums are those of the bytes from the class to
\* the end of the payload, each byte counting once in the first and once more
\* for every byte that follows it in the second.
FrameLength == PvtLength + 8
Summed(s)   == SubSeq(s, 3, PvtLength + 6)
PayloadOf(s) == SubSeq(s, 7, PvtLength + 6)

Lesser(m, n) == IF m < n THEN m ELSE n
SumA(body) == Total(body) % ByteRange
SumB(body) == Total(Weighted(body)) % ByteRange

\* What may still become a frame.
Begins(s) ==
  /\ Len(s) \in 1 .. FrameLength
  /\ IsPrefix(SubSeq(s, 1, Lesser(Len(s), 4)),
              <<SyncChar1, SyncChar2, UbxNav, UbxNavPvt>>)
  /\ Len(s) >= 6 => s[5] + ByteRange * s[6] = PvtLength
  /\ Len(s) >= FrameLength - 1 => s[FrameLength - 1] = SumA(Summed(s))
  /\ Len(s) = FrameLength => s[FrameLength] = SumB(Summed(s))

IsFrame(s) == Begins(s) /\ Len(s) = FrameLength

\* A sample is published only for bytes that make up a frame, and is decoded
\* from that frame's payload, whatever was in the buffer before.
PublishedIsFramed ==
  fresh => IsFrame(kept) /\ gps_sample_new = Decode(PayloadOf(kept))

\* A frame that starts when the parser is at rest is published, whatever it
\* parsed and gave up before: it gives up nothing that may become a frame.
FrameIsPublished ==
  parse_state = "HEADER1" /\ Begins(kept) => fresh
==============================================================================

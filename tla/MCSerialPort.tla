----------------------------- MODULE MCSerialPort -----------------------------
(* Both readers, with payloads of a few bytes of a few values.              *)
EXTENDS SerialPort, SequencesExt

\* A sample that keeps the order of the payload's bytes and one value for each.
Reversed(payload) == <<"sample", Reverse(payload)>>
==============================================================================

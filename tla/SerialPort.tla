------------------------------ MODULE SerialPort ------------------------------
(***************************************************************************)
(* The two readers of a serial port and what they do with the bytes:       *)
(*                                                                         *)
(*   port = "gps"   ublox_analys of framework/ublox/ublox.c, which the     *)
(*                  sensor thread calls and which feeds UbxParser          *)
(*   port = "imu"   user_test_func of application/test.c, which main could *)
(*                  start as a thread and which feeds Imu040Parser         *)
(*                                                                         *)
(* Both read with uart_recv of driver/uart/uart.c, from a descriptor that  *)
(* does not block.  Signals come at any time and end its select early.     *)
(* Which byte comes is chosen when it is parsed.                           *)
(***************************************************************************)
EXTENDS Integers

CONSTANTS
  MaxRead,                 \* bytes of the buffer, 512 or 1024 in the code
  MaxBuffers,              \* bound of the model: buffers are counted up to this
  GpsRange, SyncChar1, SyncChar2, UbxNav, UbxNavPvt, PvtLength, GpsSample(_),
  ImuRange, HeadChar1, HeadChar2, TailChar, NavLength, ImuSample(_)

ASSUME Given ==
  /\ MaxRead \in Nat \ {0} /\ MaxBuffers \in Nat \ {0}
  /\ GpsRange \in Nat \ {0} /\ ImuRange \in Nat \ {0}
  /\ {SyncChar1, SyncChar2, UbxNav, UbxNavPvt} \subseteq 0 .. GpsRange - 1
  /\ PvtLength \in 1 .. GpsRange * GpsRange - 1
  /\ {HeadChar1, HeadChar2, TailChar} \subseteq 0 .. ImuRange - 1
  /\ NavLength \in Nat /\ NavLength >= 2

VARIABLES
  port,        \* which of the two readers this is
  at,          \* where it stands
  left,        \* bytes read and not yet parsed
  buffers,     \* buffers that were allocated and not freed
  failed,      \* a call of uart_recv failed; not in the code
  \* of UbxParser
  gps_state, ck_a, ck_b, payload_length, gps_index, ubx_buf, gps_sample_new,
  kept, gps_fresh,
  \* of Imu040Parser
  imu_state, ck_sum, imu_index, buf_raw, imu040_sample, heard, imu_fresh

Gps == INSTANCE UbxParser WITH
  ByteRange <- GpsRange, Decode <- GpsSample, parse_state <- gps_state,
  payload_index <- gps_index, fresh <- gps_fresh

Imu == INSTANCE Imu040Parser WITH
  ByteRange <- ImuRange, Decode <- ImuSample, parse_state <- imu_state,
  payload_index <- imu_index, fresh <- imu_fresh

gps == <<gps_state, ck_a, ck_b, payload_length, gps_index, ubx_buf, gps_sample_new,
         kept, gps_fresh>>
imu == <<imu_state, ck_sum, imu_index, buf_raw, imu040_sample, heard, imu_fresh>>
parsers == <<gps, imu>>
reader  == <<port, at, left, buffers, failed>>
vars    == <<reader, parsers>>

Step(from, to) == at = from /\ at' = to

Lesser(m, n) == IF m < n THEN m ELSE n

------------------------------------------------------------------------------
(* user_test_func, up to its loop                                           *)

\* uart_open returns the descriptor or -1; anything but 0 is taken for a
\* failure, and so is every descriptor but the one of a closed standard input.
TestOpen ==
  /\ \E res \in {-1, 0, 3} : Step("open", IF res # 0 THEN "returned" ELSE "set")
  /\ UNCHANGED <<port, left, buffers, failed, parsers>>

\* uart_set, with settings that it knows: it reads the terminal's attributes,
\* changes them and writes them back, and reading or writing may fail.
UartSet(ok, fails) == Step("set", ok) \/ Step("set", fails)

TestSet ==
  /\ UartSet("idle", "returned")
  /\ UNCHANGED <<port, left, buffers, failed, parsers>>

------------------------------------------------------------------------------
(* uart_recv                                                                *)

\* The reader calls uart_recv; ublox_analys allocates a buffer for each call.
Begin ==
  /\ Step("idle", "select")
  /\ buffers' = IF port = "gps" THEN Lesser(buffers + 1, MaxBuffers) ELSE buffers
  /\ UNCHANGED <<port, left, failed, parsers>>

\* select finds bytes, or the other end hung up.
SelectReady ==
  /\ Step("select", "read")
  /\ UNCHANGED <<port, left, buffers, failed, parsers>>

\* Slip: after a signal select is called again, with a new timeout.
SelectAgain ==
  /\ Step("select", "selectAgain") \/ Step("selectAgain", "select")
  /\ UNCHANGED <<port, left, buffers, failed, parsers>>

\* SIGUSR1 ends select with -1, which is taken for readiness.
SelectInterrupted ==
  /\ Step("select", "read")
  /\ UNCHANGED <<port, left, buffers, failed, parsers>>

\* Five seconds have passed.
SelectTimeout ==
  /\ Step("select", "failed")
  /\ UNCHANGED <<port, left, buffers, failed, parsers>>

\* read brings as many bytes as there are, none, or fails, as it does when
\* nothing has come.
Read ==
  /\ \/ \E n \in 0 .. MaxRead : Step("read", "parse") /\ left' = n
     \/ Step("read", "failed") /\ UNCHANGED left
  /\ UNCHANGED <<port, buffers, failed, parsers>>

\* ublox_analys returns without freeing its buffer.
Fail ==
  /\ Step("failed", "idle")
  /\ failed' = TRUE
  /\ UNCHANGED <<port, left, buffers, parsers>>

------------------------------------------------------------------------------
(* What is done with the bytes.                                             *)

Parse ==
  /\ at = "parse" /\ left > 0
  /\ left' = left - 1
  /\ \/ port = "gps" /\ (\E ch \in Gps!Char : Gps!ParseChar(ch)) /\ UNCHANGED imu
     \/ port = "imu" /\ (\E ch \in Imu!Char : Imu!ParseChar(ch)) /\ UNCHANGED gps
  /\ UNCHANGED <<port, at, buffers, failed>>

\* Slip: the buffer is freed when its first byte has been parsed.
DoneEarly ==
  /\ at = "parse"
  /\ at' = IF left = 0 THEN "idle" ELSE "parse"
  /\ buffers' = IF port = "gps" THEN buffers - 1 ELSE buffers
  /\ UNCHANGED <<port, left, failed, parsers>>

Done ==
  /\ left = 0
  /\ Step("parse", "idle")
  /\ buffers' = IF port = "gps" THEN buffers - 1 ELSE buffers
  /\ UNCHANGED <<port, left, failed, parsers>>

------------------------------------------------------------------------------
Init ==
  /\ \/ port = "gps" /\ at = "idle"
     \/ port = "imu" /\ at = "open"
  /\ left = 0 /\ buffers = 0 /\ failed = FALSE
  /\ Gps!Init /\ Imu!Init

Call ==
  \/ SelectReady \/ SelectInterrupted \/ SelectTimeout \/ Read \/ Fail
  \/ Parse \/ Done

Next == TestOpen \/ TestSet \/ Begin \/ Call

\* A reader that has begun a call is scheduled in the end, and the kernel's
\* select returns after five seconds if not earlier.
Spec == Init /\ [][Next]_vars /\ WF_vars(Call)

------------------------------------------------------------------------------
(* Properties                                                               *)

\* Every variable holds a value of its kind; both parsers stay inside their
\* buffers.
TypeOK ==
  /\ port \in {"gps", "imu"}
  /\ at \in {"open", "set", "returned", "idle", "select", "read", "failed", "parse"}
  /\ left \in 0 .. MaxRead
  /\ buffers \in 0 .. MaxBuffers
  /\ failed \in BOOLEAN
  /\ Gps!TypeOK /\ Imu!TypeOK

\* However the bytes are cut into reads, and whatever failed between them, a
\* sample is published only for the bytes of a frame.
PublishedIsFramed == Gps!PublishedIsFramed /\ Imu!PublishedIsFramed

\* And a frame that starts when the parser is at rest is published, also when a
\* timeout or a signal falls between two of its bytes.
FrameIsPublished == Gps!FrameIsPublished /\ Imu!FrameIsPublished

\* ublox_analys has its buffer as long as it may write to it or parse it, and
\* gives it back unless a call failed.
BufferHeld ==
  /\ port = "gps" /\ at # "idle" => buffers > 0
  /\ buffers > 0 /\ at \in {"open", "set", "idle"} => failed
  /\ ~failed => buffers <= 1

\* A call returns, with bytes or without, even when signals keep coming.
Returns == at \in {"select", "read", "failed", "parse"} ~> at = "idle"
==============================================================================

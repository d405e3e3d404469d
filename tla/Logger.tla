-------------------------------- MODULE Logger -------------------------------
(***************************************************************************)
(* The logger of framework/log/loop_logger.c.  One thread (buffer_log)     *)
(* puts records into a ring buffer, another (logger_entry) moves them to a *)
(* file and changes files from time to time, and shell commands start and  *)
(* stop the logging.                                                       *)
(*                                                                         *)
(* A call of the ring (its init, put, get or data_len) is one step here,   *)
(* as RingBuffer has it, and so is every other access to what the threads  *)
(* share.  Of the bytes only their number is kept.                         *)
(***************************************************************************)
EXTENDS Integers

CONSTANTS
  RING_BUF_MAX_LEN, BLOCK_LEN,
  HeaderPuts,    \* how many puts, of one byte here, write the file header
  IdLen,         \* bytes of a record's id, 7 in the code
  TextLens,      \* how many bytes a record's text may have
  SavePeriod,    \* writes to a file before the next is opened, 300 in the code
  ByteRange,     \* values of an unsigned char, 256 in the code
  Commands       \* the shell commands that are given

ASSUME Given ==
  /\ {RING_BUF_MAX_LEN, BLOCK_LEN, HeaderPuts, SavePeriod} \subseteq Nat \ {0}
  /\ BLOCK_LEN < RING_BUF_MAX_LEN
  /\ IdLen \in Nat /\ TextLens \subseteq Nat
  /\ ByteRange \in Nat /\ ByteRange > 1
  /\ Commands \subseteq {"start", "stop"}

VARIABLES
  fid,             \* _log_fid_t: NULL, an open file, or one that was closed
  is_logging, can_be_stopped, lost_msg,   \* _log_status
  buffer_size, held, read_index,          \* logger_buf
  pc,              \* where the logger thread and a shell command stand
  header,          \* how many puts of the header each still has to do
  count,           \* local variable of logger_entry
  rp, wp, len,     \* local variables of sd_log_write
  stage, msg,      \* where buffer_log stands, and with which message
  word,            \* what the counting of a loss has read
  \* What follows is not in the code.
  seen, got,       \* bytes in the ring at the snapshot, bytes last taken
  due,             \* bytes seen at the snapshot and not yet taken
  restarted        \* the shell was starting to log since read_index was copied

file     == <<fid, is_logging, can_be_stopped, lost_msg>>
ring     == <<buffer_size, held, read_index>>
locals   == <<rp, wp, len, seen, got>>
producer == <<stage, msg, word>>
history  == <<due, restarted>>
vars == <<file, ring, pc, header, count, locals, producer, history>>

Msgs     == {"IMU", "MAG", "GPS"}
Starters == {"logger", "shell"}

Lesser(m, n) == IF m < n THEN m ELSE n

write_index == IF buffer_size = 0 THEN 0 ELSE (read_index + held) % buffer_size

\* ringbuffer_put of n bytes
RingPut(n) ==
  /\ held' = held + Lesser(n, buffer_size - held)
  /\ UNCHANGED <<buffer_size, read_index>>

\* Slip: the bytes are copied and stay in the ring.
RingGetPeek(n) ==
  /\ got' = Lesser(n, held)
  /\ UNCHANGED <<ring, due>>

\* ringbuffer_get of n bytes
RingGet(n) ==
  /\ got' = Lesser(n, held)
  /\ held' = held - got'
  /\ read_index' = (read_index + got') % buffer_size
  /\ due' = IF due < got' THEN 0 ELSE due - got'
  /\ UNCHANGED buffer_size

At(t, from)   == pc[t] = from
Go(t, to)     == pc' = [pc EXCEPT ![t] = to]

\* sd_log_start returns to logger_entry or to handle_log_shell_cmd.
Back(t) == Go(t, IF t = "logger" THEN "write" ELSE "idle")

------------------------------------------------------------------------------
(* sd_log_start, called by the logger thread or by a shell command.         *)

\* fopen
StartOpen(t) ==
  /\ At(t, "open")
  /\ fid' = "open" /\ Go(t, "flag")
  /\ UNCHANGED <<is_logging, can_be_stopped, lost_msg, ring, header, count,
                 locals, producer, history>>

\* fopen gives NULL, and sd_log_start -1.
StartNoFile(t) ==
  /\ At(t, "open")
  /\ fid' = "NULL" /\ Back(t)
  /\ UNCHANGED <<is_logging, can_be_stopped, lost_msg, ring, header, count,
                 locals, producer, history>>

StartFlag(t) ==
  /\ At(t, "flag")
  /\ is_logging' = 1
  /\ Go(t, "init")
  /\ UNCHANGED <<fid, can_be_stopped, lost_msg, ring, header, count, locals,
                 producer, history>>

\* ringbuffer_init, whatever the ring holds.
StartRing(t) ==
  /\ At(t, "init")
  /\ buffer_size' = RING_BUF_MAX_LEN
  /\ held' = 0 /\ read_index' = 0 /\ due' = 0
  /\ header' = [header EXCEPT ![t] = HeaderPuts]
  /\ Go(t, "header")
  /\ UNCHANGED <<file, count, locals, producer, restarted>>

StartHeader(t) ==
  /\ At(t, "header")
  /\ RingPut(1)
  /\ header' = [header EXCEPT ![t] = @ - 1]
  /\ IF header'[t] = 0 THEN Back(t) ELSE UNCHANGED pc
  /\ UNCHANGED <<file, count, locals, producer, history>>

Start(t) ==
  \/ StartOpen(t) \/ StartNoFile(t) \/ StartFlag(t) \/ StartRing(t)
  \/ StartHeader(t)

------------------------------------------------------------------------------
(* sd_log_write and the loop of logger_entry.                               *)

\* The two indices are copied under a mutex that neither buffer_log nor the
\* shell takes.
WriteCopyRead ==
  /\ At("logger", "write")
  /\ rp' = read_index
  /\ restarted' = ~At("shell", "idle")
  /\ Go("logger", "copy")
  /\ UNCHANGED <<file, ring, header, count, wp, len, seen, got, producer, due>>

WriteCopyWrite ==
  /\ At("logger", "copy")
  /\ wp' = write_index
  /\ seen' = held /\ due' = held
  /\ Go("logger", "file")
  /\ UNCHANGED <<file, ring, header, count, rp, len, got, producer, restarted>>

\* sd_log_write returns, and its local variables are gone.
Returned == rp' = 0 /\ wp' = 0 /\ len' = 0 /\ seen' = 0 /\ got' = 0

\* A call without a file ends here.
WriteFile ==
  /\ At("logger", "file")
  /\ IF fid = "NULL" THEN Go("logger", "sleep") /\ Returned
                     ELSE Go("logger", "loop") /\ UNCHANGED locals
  /\ UNCHANGED <<file, ring, header, count, producer, history>>

\* ringbuffer_data_len says whether there is data.
WriteTest ==
  /\ At("logger", "loop")
  /\ held > 0
  /\ Go("logger", "take")
  /\ UNCHANGED <<file, ring, header, count, locals, producer, history>>

\* A block is taken, of whatever is in the ring by now.
WriteTake ==
  /\ At("logger", "take")
  /\ RingGet(BLOCK_LEN)
  /\ IF got' < BLOCK_LEN THEN Go("logger", "short") /\ UNCHANGED len
                         ELSE Go("logger", "fwrite") /\ len' = BLOCK_LEN
  /\ UNCHANGED <<file, header, count, rp, wp, seen, producer, restarted>>

\* Slip: no test which of the two indices is ahead.
WriteShortUnwrapped ==
  /\ At("logger", "short")
  /\ len' = wp - rp
  /\ can_be_stopped' = 1
  /\ Go("logger", "fwrite")
  /\ UNCHANGED <<fid, is_logging, lost_msg, ring, header, count, rp, wp, seen, got,
                 producer, history>>

\* The length of a short block is worked out from the copied indices.
WriteShort ==
  /\ At("logger", "short")
  /\ len' = IF wp > rp THEN wp - rp ELSE buffer_size - (rp - wp)
  /\ can_be_stopped' = 1
  /\ Go("logger", "fwrite")
  /\ UNCHANGED <<fid, is_logging, lost_msg, ring, header, count, rp, wp, seen, got,
                 producer, history>>

\* Slip: one block for each call.
WriteBlockOnce ==
  /\ At("logger", "fwrite")
  /\ Go("logger", IF fid = "open" THEN "stop" ELSE "undefined")
  /\ len' = 0 /\ got' = 0
  /\ UNCHANGED <<file, ring, header, count, rp, wp, seen, producer, history>>

\* fwrite; on a file that was closed nothing can be said of what follows.
WriteBlock ==
  /\ At("logger", "fwrite")
  /\ Go("logger", IF fid = "open" THEN "loop" ELSE "undefined")
  /\ len' = 0 /\ got' = 0
  /\ UNCHANGED <<file, ring, header, count, rp, wp, seen, producer, history>>

\* No data is left.
WriteDone ==
  /\ At("logger", "loop") /\ held = 0
  /\ Go("logger", "stop")
  /\ UNCHANGED <<file, ring, header, count, locals, producer, history>>

\* fclose.  The pointer stays as it is.
Close(next) ==
  IF fid = "open" THEN fid' = "closed" /\ Go("logger", next)
                  ELSE UNCHANGED fid /\ Go("logger", "undefined")

\* The file is closed when logging was stopped and a short block was seen.
WriteStop ==
  /\ At("logger", "stop")
  /\ Go("logger", IF is_logging = 0 THEN "stopped" ELSE "sleep")
  /\ Returned
  /\ UNCHANGED <<file, ring, header, count, producer, history>>

WriteStopped ==
  /\ At("logger", "stopped")
  /\ Go("logger", IF can_be_stopped # 0 THEN "close" ELSE "sleep")
  /\ UNCHANGED <<file, ring, header, count, locals, producer, history>>

WriteClose ==
  /\ At("logger", "close")
  /\ Close("sleep")
  /\ UNCHANGED <<is_logging, can_be_stopped, lost_msg, ring, header, count, locals,
                 producer, history>>

\* Slip: the next file is opened and the last not closed.
LoopNextUnclosed ==
  /\ At("logger", "sleep")
  /\ IF count + 1 = SavePeriod
       THEN count' = 0 /\ Go("logger", "open")
       ELSE count' = count + 1 /\ Go("logger", "write")
  /\ UNCHANGED <<file, ring, header, locals, producer, history>>

\* The logger thread counts, sleeps and goes on; after SavePeriod writes it
\* closes the file and opens the next.
LoopNext ==
  /\ At("logger", "sleep")
  /\ IF count + 1 = SavePeriod
       THEN count' = 0 /\ Close("open")
       ELSE count' = count + 1 /\ Go("logger", "write") /\ UNCHANGED fid
  /\ UNCHANGED <<is_logging, can_be_stopped, lost_msg, ring, header, locals,
                 producer, history>>

Write ==
  \/ WriteCopyRead \/ WriteCopyWrite \/ WriteFile \/ WriteTest \/ WriteTake
  \/ WriteShort \/ WriteBlock \/ WriteDone \/ WriteStop \/ WriteStopped \/ WriteClose
  \/ LoopNext

------------------------------------------------------------------------------
(* buffer_log.                                                              *)

\* A file is open, as far as the pointer tells, and then as far as the flag does,
\* and deu_poll_sync brings a sample of the IMU.
LogBegin ==
  /\ stage = "idle"
  /\ fid # "NULL"
  /\ stage' = "flag"
  /\ UNCHANGED <<file, ring, pc, header, count, locals, msg, word, history>>

LogFlag ==
  /\ stage = "flag"
  /\ \/ is_logging # 0 /\ stage' = "id"
     \/ stage' = "idle"
  /\ UNCHANGED <<file, ring, pc, header, count, locals, msg, word, history>>

LogId ==
  /\ stage = "id"
  /\ RingPut(IdLen)
  /\ stage' = "text"
  /\ UNCHANGED <<file, pc, header, count, locals, msg, word, history>>

\* After one message comes another, of a topic with news, or the end of line.
Later(m) == CASE m = "IMU" -> {"MAG", "GPS"} [] m = "MAG" -> {"GPS"} [] OTHER -> {}
LogNextMsg ==
  \/ stage' = "id" /\ msg' \in Later(msg)
  \/ stage' = "newline" /\ UNCHANGED msg

\* _find_filed_index searches the ids 1, 2, 3 for the first letter of the
\* record's id ('I', 'M' or 'G').
FieldIndex(letter) == IF letter \in 1 .. 3 THEN letter - 1 ELSE -1
Letter == [IMU |-> 73, MAG |-> 77, GPS |-> 71]

LogText ==
  /\ stage = "text"
  /\ \E n \in TextLens :
       /\ RingPut(n)
       /\ IF held' - held < n THEN stage' = "lost" /\ UNCHANGED msg ELSE LogNextMsg
  /\ UNCHANGED <<file, pc, header, count, locals, word, history>>

\* field_status[index].lost_msg += 1 reads, adds and stores.  Index -1 is the word
\* of _log_status that holds is_logging in its first byte and can_be_stopped in
\* its second.
LogLost ==
  /\ stage = "lost"
  /\ stage' = "count"
  /\ word' = <<is_logging, can_be_stopped>>
  /\ UNCHANGED <<file, ring, pc, header, count, locals, msg, history>>

CountLoss(index) ==
  IF index >= 0
    THEN /\ lost_msg' = [lost_msg EXCEPT ![index] = @ + 1]
         /\ UNCHANGED <<is_logging, can_be_stopped>>
    ELSE /\ is_logging' = (word[1] + 1) % ByteRange
         /\ can_be_stopped' = IF is_logging' = 0 THEN (word[2] + 1) % ByteRange
                                                 ELSE word[2]
         /\ UNCHANGED lost_msg

LogCount ==
  /\ stage = "count"
  /\ CountLoss(FieldIndex(Letter[msg]))
  /\ LogNextMsg
  /\ word' = <<0, 0>>
  /\ UNCHANGED <<fid, ring, pc, header, count, locals, history>>

LogNewline ==
  /\ stage = "newline"
  /\ RingPut(1)
  /\ stage' = "idle" /\ msg' = "IMU"
  /\ UNCHANGED <<file, pc, header, count, locals, word, history>>

Log ==
  \/ LogBegin \/ LogFlag \/ LogId \/ LogText \/ LogLost \/ LogCount \/ LogNewline

------------------------------------------------------------------------------
(* handle_log_shell_cmd.                                                    *)

\* log_stop
CmdStop ==
  /\ "stop" \in Commands
  /\ is_logging' = 0
  /\ UNCHANGED <<fid, can_be_stopped, lost_msg, ring, pc, header, count, locals,
                 producer, history>>

\* A command to start calls sd_log_start, and another may follow when it has
\* returned.
CmdStart ==
  /\ "start" \in Commands
  /\ At("shell", "idle")
  /\ Go("shell", "open")
  /\ restarted' = TRUE
  /\ UNCHANGED <<file, ring, header, count, locals, producer, due>>

------------------------------------------------------------------------------
Init ==
  /\ fid = "NULL"
  /\ is_logging = 0 /\ can_be_stopped = 0
  /\ lost_msg = [i \in 0 .. 2 |-> 0]
  /\ buffer_size = 0 /\ held = 0 /\ read_index = 0
  /\ pc = [logger |-> "open", shell |-> "idle"]
  /\ header = [t \in Starters |-> 0]
  /\ count = 0
  /\ rp = 0 /\ wp = 0 /\ len = 0
  /\ stage = "idle" /\ msg = "IMU" /\ word = <<0, 0>>
  /\ seen = 0 /\ got = 0 /\ due = 0 /\ restarted = FALSE

\* Nothing is said of what follows a step the C standard leaves undefined.
Next ==
  /\ ~ At("logger", "undefined")
  /\ \/ Write \/ Log
     \/ \E t \in Starters : Start(t)
     \/ CmdStop \/ CmdStart

Spec == Init /\ [][Next]_vars

\* The logger thread and buffer_log are scheduled in the end; nothing is
\* assumed of the shell, and of buffer_log only that it finishes a record.
Fairness ==
  /\ WF_vars(Write \/ Start("logger"))
  /\ WF_vars(stage # "idle" /\ Log)

FairSpec == Spec /\ Fairness

------------------------------------------------------------------------------
(* Properties                                                               *)

\* The type of every variable.
TypeOK ==
  /\ fid \in {"NULL", "open", "closed"}
  /\ is_logging \in 0 .. ByteRange - 1 /\ can_be_stopped \in 0 .. ByteRange - 1
  /\ lost_msg \in [0 .. 2 -> Nat]
  /\ buffer_size \in {0, RING_BUF_MAX_LEN} /\ held \in 0 .. buffer_size
  /\ read_index \in 0 .. RING_BUF_MAX_LEN - 1
  /\ pc \in [Starters -> {"idle", "open", "flag", "init", "header", "write", "copy",
                          "file", "loop", "take", "short", "fwrite", "stop",
                          "stopped", "close", "sleep", "undefined"}]
  /\ header \in [Starters -> 0 .. HeaderPuts]
  /\ count \in 0 .. SavePeriod - 1
  /\ rp \in 0 .. RING_BUF_MAX_LEN - 1 /\ wp \in 0 .. RING_BUF_MAX_LEN - 1
  /\ len \in 0 .. RING_BUF_MAX_LEN
  /\ stage \in {"idle", "flag", "id", "text", "lost", "count", "newline"}
  /\ msg \in Msgs /\ word \in (0 .. ByteRange - 1) \X (0 .. ByteRange - 1)
  /\ restarted \in BOOLEAN

\* Unless the shell starts logging meanwhile, and with it empties the ring, the
\* length worked out from the copied indices is right when the block is all that
\* the copies saw, also when the bytes lie across the end of the pool.
LengthRightWhenQuiet ==
  At("logger", "fwrite") /\ got = seen /\ ~restarted => len = got

\* Before a file is closed because logging was stopped, all that was in the
\* ring when that write began has been taken out of it.
DrainedBeforeClose == pc["logger"] \in {"stop", "stopped", "close"} => due = 0

\* To the rest of the process the logger is a LogFile: whatever the two threads
\* and the shell do, a file is opened and closed in turn, and what is done to
\* one that is not open ends the logger.
Turn ==
  CASE At("logger", "undefined") -> "lost"
    [] At("logger", "open")      -> "open"
    [] OTHER                     -> "write"

File == INSTANCE LogFile WITH turn <- Turn
IsLogFile == File!Spec

\* What a write finds in the ring leaves the ring in the end, however fast
\* records follow, while the file is open.
Drains == due > 0 ~> (due = 0 \/ fid # "open")

------------------------------------------------------------------------------
(* A property the code's own words promise and the code does not keep.       *)

\* For a short block the length of what is left is obtained (loop_logger.c:285):
\* what is written to the file is what was taken from the ring.
LengthRight == At("logger", "fwrite") => len = got
==============================================================================

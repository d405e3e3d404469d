----------------------------- MODULE LoggerProofs -----------------------------
(***************************************************************************)
(* Proofs about Logger, for any sizes, periods, texts and commands: the    *)
(* length of a quiet block is right unless the shell starts logging        *)
(* meanwhile (LengthRightWhenQuiet), what a write found is taken before a  *)
(* stop closes the file (DrainedBeforeClose), and the two threads and the  *)
(* shell implement LogFile (IsLogFile).                                    *)
(***************************************************************************)
EXTENDS Logger, TLAPS

\* The header is written as long as there is some of it to write.
HeaderInv == \A t \in Starters : pc[t] = "header" => header[t] > 0

\* The shell opens a file only when it was told to, and a write that is under
\* way knows of it.
ShellInv == pc["shell"] # "idle" => "start" \in Commands /\ restarted

\* What was counted of the ring is in it.
Counted ==
  /\ seen \in 0 .. RING_BUF_MAX_LEN /\ got \in 0 .. RING_BUF_MAX_LEN
  /\ due \in 0 .. held

\* A block is taken from a ring that was initialised, and, unless the shell
\* empties it after the test, from one that holds something.
Taken ==
  /\ pc["logger"] \in {"take", "short"} => buffer_size # 0
  /\ pc["logger"] = "take" /\ ~restarted => held > 0
  /\ pc["logger"] = "short" => got < BLOCK_LEN
  /\ pc["logger"] = "short" /\ ~restarted => got > 0

\* The copied indices are as far apart as what was seen, around the end of the
\* pool.
Apart ==
  \/ rp + seen < RING_BUF_MAX_LEN /\ wp = rp + seen
  \/ rp + seen >= RING_BUF_MAX_LEN /\ wp = rp + seen - RING_BUF_MAX_LEN

\* While no start of the shell comes in between, the first copy stays true until
\* the second is made, and then the two are a snapshot.
Snapshot ==
  ~restarted =>
    /\ pc["logger"] = "copy" => rp = read_index
    /\ pc["logger"] \in {"file", "loop", "take", "short", "fwrite"} /\ seen > 0 => Apart

LoggerInv ==
  /\ TypeOK /\ HeaderInv /\ ShellInv /\ Counted /\ Taken /\ Snapshot
  /\ LengthRightWhenQuiet /\ DrainedBeforeClose

------------------------------------------------------------------------------
(* Numbers                                                                  *)

LEMMA Sizes ==
  /\ RING_BUF_MAX_LEN \in Nat /\ BLOCK_LEN \in Nat /\ HeaderPuts \in Nat
  /\ SavePeriod \in Nat /\ IdLen \in Nat /\ ByteRange \in Nat
  /\ 0 < BLOCK_LEN /\ BLOCK_LEN < RING_BUF_MAX_LEN
  /\ 0 < HeaderPuts /\ 0 < SavePeriod /\ 1 < ByteRange
  BY Given

\* An index runs over the end of the pool at most once.
LEMMA Wraps ==
  ASSUME NEW m \in Nat, NEW a \in Nat, NEW b \in Nat, a < m, b <= m
  PROVE  /\ (a + b) % m \in 0 .. m - 1
         /\ a + b < m => (a + b) % m = a + b
         /\ a + b >= m => (a + b) % m = a + b - m
  OBVIOUS

LEMMA LesserIs ==
  ASSUME NEW m \in Int, NEW n \in Int
  PROVE  Lesser(m, n) \in {m, n} /\ Lesser(m, n) <= m /\ Lesser(m, n) <= n
  BY DEF Lesser

\* A put leaves no more in the ring than its room, and no less than before.
LEMMA PutKeeps ==
  ASSUME LoggerInv, NEW n \in Nat, RingPut(n)
  PROVE  /\ held' \in 0 .. buffer_size' /\ held <= held' /\ due \in 0 .. held'
         /\ UNCHANGED <<buffer_size, read_index>>
<1>1. /\ held \in Nat /\ buffer_size \in Nat /\ held <= buffer_size
      /\ due \in Nat /\ due <= held
  BY Sizes DEF LoggerInv, TypeOK, Counted
<1>2. /\ held' = held + Lesser(n, buffer_size - held)
      /\ UNCHANGED <<buffer_size, read_index>>
  BY DEF RingPut
<1>3. Lesser(n, buffer_size - held) \in Nat /\ Lesser(n, buffer_size - held) <= buffer_size - held
  BY <1>1, LesserIs
<1> QED
  BY <1>1, <1>2, <1>3

\* A get takes what it says out of the ring.
LEMMA GetKeeps ==
  ASSUME LoggerInv, buffer_size # 0, RingGet(BLOCK_LEN)
  PROVE  /\ buffer_size = RING_BUF_MAX_LEN /\ buffer_size' = buffer_size
         /\ got' \in 0 .. BLOCK_LEN /\ got' <= held /\ held' = held - got'
         /\ held > 0 => got' > 0
         /\ held' \in 0 .. buffer_size /\ read_index' \in 0 .. RING_BUF_MAX_LEN - 1
         /\ due' \in 0 .. held'
<1>1. /\ held \in Nat /\ held <= buffer_size /\ buffer_size = RING_BUF_MAX_LEN
      /\ read_index \in 0 .. RING_BUF_MAX_LEN - 1 /\ due \in Nat /\ due <= held
  BY Sizes DEF LoggerInv, TypeOK, Counted
<1>2. /\ got' = Lesser(BLOCK_LEN, held) /\ held' = held - got'
      /\ read_index' = (read_index + got') % buffer_size
      /\ (due < got' /\ due' = 0) \/ (due >= got' /\ due' = due - got')
      /\ buffer_size' = buffer_size
  <2>1. got' \in Int
    BY <1>1, Sizes, LesserIs DEF RingGet
  <2> QED
    BY <2>1, <1>1 DEF RingGet
<1>3. got' \in 0 .. BLOCK_LEN /\ got' <= held /\ (held > 0 => got' > 0)
  BY <1>1, <1>2, Sizes, LesserIs
<1>4. held' \in 0 .. buffer_size /\ due' \in 0 .. held'
  <2>1. got' \in Nat /\ buffer_size \in Nat
    BY <1>1, <1>3, Sizes
  <2> QED
    BY ONLY <1>1, <1>2, <1>3, <2>1
<1>5. /\ got' \in Nat /\ got' < RING_BUF_MAX_LEN /\ RING_BUF_MAX_LEN \in Nat
      /\ read_index \in Nat /\ read_index < RING_BUF_MAX_LEN /\ RING_BUF_MAX_LEN > 0
  BY <1>1, <1>3, Sizes
<1>6. read_index' \in 0 .. RING_BUF_MAX_LEN - 1
  <2>1. PICK g \in Nat : g = got' /\ g < RING_BUF_MAX_LEN
    BY <1>5
  <2>2. /\ g \in Nat /\ g <= RING_BUF_MAX_LEN /\ RING_BUF_MAX_LEN \in Nat
        /\ read_index \in Nat /\ read_index < RING_BUF_MAX_LEN
    BY <1>5, <2>1
  <2>3. (read_index + g) % RING_BUF_MAX_LEN \in 0 .. RING_BUF_MAX_LEN - 1
    BY ONLY <2>2, Wraps
  <2> QED
    BY <1>1, <1>2, <2>1, <2>3
<1> QED
  BY <1>1, <1>2, <1>3, <1>4, <1>6

------------------------------------------------------------------------------
(* Steps                                                                    *)

LEMMA Initially == Init => LoggerInv
<1> SUFFICES ASSUME Init PROVE LoggerInv
  OBVIOUS
<1> USE Sizes DEF Init
<1>1. TypeOK
  <2>1. /\ pc \in [Starters -> {"idle", "open"}]
        /\ header \in [Starters -> 0 .. HeaderPuts] /\ lost_msg \in [0 .. 2 -> Nat]
    BY DEF Starters
  <2>2. pc \in [Starters -> {"idle", "open", "flag", "init", "header", "write", "copy",
                            "file", "loop", "take", "short", "fwrite", "stop",
                            "stopped", "close", "sleep", "undefined"}]
    BY <2>1
  <2>3. read_index \in 0 .. RING_BUF_MAX_LEN - 1 /\ count \in 0 .. SavePeriod - 1
        /\ len \in 0 .. RING_BUF_MAX_LEN
    OBVIOUS
  <2>4. restarted \in BOOLEAN
    OBVIOUS
  <2> QED
    BY <2>1, <2>2, <2>3, <2>4 DEF TypeOK, Msgs
<1>2. HeaderInv /\ ShellInv /\ Counted /\ Taken /\ Snapshot
  BY DEF HeaderInv, ShellInv, Counted, Taken, Snapshot, Starters
<1>3. LengthRightWhenQuiet /\ DrainedBeforeClose
  BY DEF LengthRightWhenQuiet, DrainedBeforeClose, At
<1> QED
  BY <1>1, <1>2, <1>3 DEF LoggerInv

\* What a step leaves alone of the logger thread's reckoning.
Untouched ==
  /\ UNCHANGED <<locals, due, buffer_size, read_index>>
  /\ held <= held' /\ (restarted => restarted')
  /\ pc'["logger"] = pc["logger"]

\* Then it stays right: the ring may fill, but not lose.
LEMMA UntouchedKeeps ==
  ASSUME LoggerInv, Untouched, held' \in Nat, restarted' \in BOOLEAN
  PROVE  Counted' /\ Taken' /\ Snapshot' /\ LengthRightWhenQuiet' /\ DrainedBeforeClose'
<1>1. UNCHANGED <<rp, wp, len, seen, got, due, buffer_size, read_index>>
  BY DEF Untouched, locals
<1>2. held \in Nat /\ held <= held' /\ (restarted => restarted')
  BY Sizes DEF Untouched, LoggerInv, TypeOK
<1>3. Counted'
  BY <1>1, <1>2 DEF LoggerInv, Counted
<1>4. Taken'
  BY <1>1, <1>2 DEF Untouched, LoggerInv, Taken
<1>5. Snapshot'
  BY <1>1, <1>2 DEF Untouched, LoggerInv, Snapshot, Apart
<1>6. LengthRightWhenQuiet' /\ DrainedBeforeClose'
  BY <1>1, <1>2 DEF Untouched, LoggerInv, LengthRightWhenQuiet, DrainedBeforeClose, At
<1> QED
  BY <1>3, <1>4, <1>5, <1>6

\* After a message comes another, or the end of the line.
LEMMA NextMsgIs ==
  ASSUME msg \in Msgs, LogNextMsg
  PROVE  stage' \in {"id", "newline"} /\ msg' \in Msgs
<1>1. Later(msg) \subseteq Msgs
  BY DEF Later, Msgs
<1> QED
  BY <1>1 DEF LogNextMsg

\* buffer_log
LEMMA LogKeeps ==
  ASSUME LoggerInv, Log
  PROVE  LoggerInv'
<1> DEFINE Stages == {"idle", "flag", "id", "text", "lost", "count", "newline"}
           Bytes  == 0 .. ByteRange - 1
<1>1. /\ stage \in Stages /\ msg \in Msgs /\ word \in Bytes \X Bytes
      /\ is_logging \in Bytes /\ can_be_stopped \in Bytes
      /\ lost_msg \in [0 .. 2 -> Nat]
  BY DEF LoggerInv, TypeOK
\* What every step of buffer_log leaves alone, and the types of what it sets.
<1>2. ASSUME UNCHANGED <<fid, buffer_size, read_index, pc, header, count, locals, history>>,
             held' \in 0 .. buffer_size, held <= held',
             stage' \in Stages, msg' \in Msgs, word' \in Bytes \X Bytes,
             is_logging' \in Bytes, can_be_stopped' \in Bytes,
             lost_msg' \in [0 .. 2 -> Nat]
      PROVE  LoggerInv'
  <2>1. TypeOK'
    BY <1>2 DEF LoggerInv, TypeOK, locals, history
  <2>2. Untouched /\ held' \in Nat
    BY <1>2, Sizes DEF Untouched, LoggerInv, TypeOK, history
  <2>3. HeaderInv' /\ ShellInv'
    BY <1>2 DEF LoggerInv, HeaderInv, ShellInv, history
  <2> QED
    BY <2>1, <2>2, <2>3, UntouchedKeeps DEF LoggerInv, TypeOK
\* A put
<1>3. ASSUME NEW n \in Nat, RingPut(n)
      PROVE  /\ held' \in 0 .. buffer_size /\ held <= held'
             /\ UNCHANGED <<buffer_size, read_index>>
  <2>1. /\ held' \in 0 .. buffer_size' /\ held <= held'
        /\ UNCHANGED <<buffer_size, read_index>>
    BY <1>3, PutKeeps
  <2> QED
    BY <2>1
\* No put
<1>4. ASSUME UNCHANGED ring
      PROVE  /\ held' \in 0 .. buffer_size /\ held <= held'
             /\ UNCHANGED <<buffer_size, read_index>>
  BY <1>4, Sizes DEF ring, LoggerInv, TypeOK
<1>5. CASE LogBegin
  BY <1>1, <1>2, <1>4, <1>5 DEF LogBegin, file
<1>6. CASE LogFlag
  BY <1>1, <1>2, <1>4, <1>6 DEF LogFlag, file
<1>7. CASE LogId
  <2>1. IdLen \in Nat
    BY Given
  <2> QED
    BY <1>1, <1>2, <1>3, <1>7, <2>1 DEF LogId, file
<1>8. CASE LogText
  <2>1. PICK n \in TextLens : RingPut(n)
    BY <1>8 DEF LogText
  <2>2. n \in Nat
    BY Given
  <2>3. stage' \in Stages /\ msg' \in Msgs
    BY <1>1, <1>8, NextMsgIs DEF LogText
  <2> QED
    BY <1>1, <1>2, <1>3, <1>8, <2>1, <2>2, <2>3 DEF LogText, file
<1>9. CASE LogLost
  BY <1>1, <1>2, <1>4, <1>9 DEF LogLost, file
<1>10. CASE LogCount
  <2>1. stage' \in Stages /\ msg' \in Msgs
    BY <1>1, <1>10, NextMsgIs DEF LogCount
  <2>2. FieldIndex(Letter[msg]) = -1
    BY <1>1 DEF FieldIndex, Letter, Msgs
  <2>3. word[1] \in Bytes /\ word[2] \in Bytes
    BY <1>1
  <2>4. (word[1] + 1) % ByteRange \in Bytes /\ (word[2] + 1) % ByteRange \in Bytes
    BY <2>3, Sizes
  <2>5. is_logging' \in Bytes /\ can_be_stopped' \in Bytes /\ lost_msg' = lost_msg
    BY <1>10, <2>2, <2>3, <2>4 DEF LogCount, CountLoss
  <2>6. word' \in Bytes \X Bytes
    BY <1>10, Sizes DEF LogCount
  <2> QED
    BY <1>1, <1>2, <1>4, <1>10, <2>1, <2>5, <2>6 DEF LogCount
<1>11. CASE LogNewline
  <2>1. 1 \in Nat /\ "IMU" \in Msgs
    BY DEF Msgs
  <2> QED
    BY <1>1, <1>2, <1>3, <1>11, <2>1 DEF LogNewline, file
<1> QED
  BY <1>5, <1>6, <1>7, <1>8, <1>9, <1>10, <1>11 DEF Log

\* sd_log_start, in either thread.  When the ring is emptied the logger thread
\* has either called it or loses what is due.
LEMMA StartKeeps ==
  ASSUME LoggerInv, NEW t \in Starters, Start(t), ~At("logger", "undefined")
  PROVE  LoggerInv'
<1> USE DEF At, Go, Back
<1> DEFINE Stands == {"idle", "open", "flag", "init", "header", "write", "copy",
                      "file", "loop", "take", "short", "fwrite", "stop",
                      "stopped", "close", "sleep", "undefined"}
<1>1. /\ TypeOK /\ HeaderInv /\ ShellInv /\ Counted /\ Taken /\ Snapshot
      /\ LengthRightWhenQuiet /\ DrainedBeforeClose
      /\ t \in {"logger", "shell"} /\ pc \in [Starters -> Stands]
  BY DEF LoggerInv, Starters, TypeOK
\* Only t moves, and to no place where the reckoning matters.
<1>2. ASSUME NEW to \in {"flag", "init", "write", "idle", "header"},
             pc' = [pc EXCEPT ![t] = to],
             pc[t] \in {"open", "flag", "init", "header"}, t = "shell" \/ to # "idle",
             to = "header" => header'[t] > 0,
             \A u \in Starters \ {t} : header'[u] = header[u],
             UNCHANGED <<locals, restarted>>, due' \in {due, 0}, due' \in 0 .. held',
             buffer_size' \in {buffer_size, RING_BUF_MAX_LEN},
             t = "shell" => restarted
      PROVE  /\ pc' \in [Starters -> Stands]
             /\ HeaderInv' /\ ShellInv' /\ Counted' /\ Taken' /\ Snapshot'
             /\ LengthRightWhenQuiet' /\ DrainedBeforeClose'
  <2>1. /\ pc'[t] = to /\ \A u \in Starters \ {t} : pc'[u] = pc[u]
        /\ pc' \in [Starters -> Stands]
    BY <1>1, <1>2
  <2>2. HeaderInv'
    BY <1>1, <1>2, <2>1 DEF HeaderInv
  <2>3. ShellInv'
    BY <1>1, <1>2, <2>1 DEF ShellInv, Starters
  <2>4. Counted'
    BY <1>1, <1>2 DEF Counted, locals
  <2>5. \/ pc'["logger"] = pc["logger"]
        \/ pc'["logger"] \in {"flag", "init", "write", "header", "idle"}
    BY <1>1, <1>2, <2>1 DEF Starters
  <2>6. Snapshot' /\ LengthRightWhenQuiet' /\ DrainedBeforeClose'
    BY <1>1, <1>2, <2>1, <2>5 DEF Snapshot, LengthRightWhenQuiet, DrainedBeforeClose, locals
  <2>7. Taken'
    BY <1>1, <1>2, <2>1, <2>5, Sizes DEF Taken, locals
  <2> QED
    BY <2>1, <2>2, <2>3, <2>4, <2>6, <2>7
<1>3. /\ due \in 0 .. held
      /\ pc[t] # "idle" /\ t = "shell" => restarted
  BY <1>1 DEF Counted, ShellInv
<1>4. CASE StartOpen(t) \/ StartNoFile(t)
  <2>1. /\ \/ fid' = "open" /\ pc' = [pc EXCEPT ![t] = "flag"]
           \/ fid' = "NULL" /\ t = "logger" /\ pc' = [pc EXCEPT ![t] = "write"]
           \/ fid' = "NULL" /\ t = "shell" /\ pc' = [pc EXCEPT ![t] = "idle"]
        /\ pc[t] = "open"
        /\ UNCHANGED <<is_logging, can_be_stopped, lost_msg, ring, header, count, locals,
                       producer, history>>
    BY <1>1, <1>4 DEF StartOpen, StartNoFile
  <2>2. /\ pc' \in [Starters -> Stands]
        /\ HeaderInv' /\ ShellInv' /\ Counted' /\ Taken' /\ Snapshot'
        /\ LengthRightWhenQuiet' /\ DrainedBeforeClose'
    BY <1>2, <1>3, <2>1 DEF ring, history
  <2>3. TypeOK'
    BY <1>1, <2>1, <2>2 DEF TypeOK, ring, locals, producer, history
  <2> QED
    BY <2>2, <2>3 DEF LoggerInv
<1>5. CASE StartFlag(t)
  <2>1. /\ pc[t] = "flag" /\ pc' = [pc EXCEPT ![t] = "init"] /\ is_logging' = 1
        /\ UNCHANGED <<fid, can_be_stopped, lost_msg, ring, header, count, locals,
                       producer, history>>
    BY <1>5 DEF StartFlag
  <2>2. /\ pc' \in [Starters -> Stands]
        /\ HeaderInv' /\ ShellInv' /\ Counted' /\ Taken' /\ Snapshot'
        /\ LengthRightWhenQuiet' /\ DrainedBeforeClose'
    BY <1>2, <1>3, <2>1 DEF ring, history
  <2>3. is_logging' \in 0 .. ByteRange - 1
    BY <2>1, Sizes
  <2>4. TypeOK'
    BY <1>1, <2>1, <2>2, <2>3 DEF TypeOK, ring, locals, producer, history
  <2> QED
    BY <2>2, <2>4 DEF LoggerInv
<1>6. CASE StartRing(t)
  <2>1. /\ pc[t] = "init" /\ pc' = [pc EXCEPT ![t] = "header"]
        /\ buffer_size' = RING_BUF_MAX_LEN /\ held' = 0 /\ read_index' = 0 /\ due' = 0
        /\ header' = [header EXCEPT ![t] = HeaderPuts]
        /\ UNCHANGED <<file, count, locals, producer, restarted>>
    BY <1>6 DEF StartRing
  <2>2. /\ header'[t] > 0 /\ \A u \in Starters \ {t} : header'[u] = header[u]
        /\ header' \in [Starters -> 0 .. HeaderPuts]
    BY <1>1, <2>1, Sizes DEF TypeOK
  <2>3. /\ pc' \in [Starters -> Stands]
        /\ HeaderInv' /\ ShellInv' /\ Counted' /\ Taken' /\ Snapshot'
        /\ LengthRightWhenQuiet' /\ DrainedBeforeClose'
    <3>1. due' \in 0 .. held' /\ UNCHANGED <<locals, restarted>>
      BY <2>1
    <3> QED
      BY <1>2, <1>3, <2>1, <2>2, <3>1
  <2>4. TypeOK'
    BY <1>1, <2>1, <2>2, <2>3, Sizes DEF TypeOK, file, locals, producer, history
  <2> QED
    BY <2>3, <2>4 DEF LoggerInv
<1>7. CASE StartHeader(t)
  <2>1. /\ pc[t] = "header" /\ RingPut(1) /\ header' = [header EXCEPT ![t] = header[t] - 1]
        /\ \/ header'[t] = 0 /\ t = "logger" /\ pc' = [pc EXCEPT ![t] = "write"]
           \/ header'[t] = 0 /\ t = "shell" /\ pc' = [pc EXCEPT ![t] = "idle"]
           \/ header'[t] # 0 /\ pc' = pc
        /\ UNCHANGED <<file, count, locals, producer, history>>
    BY <1>1, <1>7 DEF StartHeader
  <2>2. /\ header[t] \in 1 .. HeaderPuts /\ header'[t] = header[t] - 1
        /\ \A u \in Starters \ {t} : header'[u] = header[u]
        /\ header' \in [Starters -> 0 .. HeaderPuts]
    <3>1. header[t] \in 1 .. HeaderPuts
      BY <1>1, <2>1, Sizes DEF TypeOK, HeaderInv
    <3>2. header[t] - 1 \in 0 .. HeaderPuts
      BY <3>1, Sizes
    <3> QED
      BY <1>1, <2>1, <3>1, <3>2 DEF TypeOK
  <2>3. /\ held' \in 0 .. buffer_size' /\ due' \in 0 .. held'
        /\ UNCHANGED <<buffer_size, read_index>>
    BY <2>1, PutKeeps DEF history
  <2>4. pc' = [pc EXCEPT ![t] = pc'[t]]
    BY <1>1, <2>1
  <2>5. /\ pc' \in [Starters -> Stands]
        /\ HeaderInv' /\ ShellInv' /\ Counted' /\ Taken' /\ Snapshot'
        /\ LengthRightWhenQuiet' /\ DrainedBeforeClose'
    <3>1. CASE header'[t] = 0
      BY <1>2, <1>3, <2>1, <2>2, <2>3, <3>1 DEF history
    <3>2. CASE header'[t] # 0
      <4>1. header'[t] > 0 /\ pc' = [pc EXCEPT ![t] = "header"]
        BY <1>1, <2>1, <2>2, <3>2
      <4> QED
        BY <1>2, <1>3, <2>1, <2>2, <2>3, <4>1 DEF history
    <3> QED
      BY <3>1, <3>2
  <2>6. TypeOK'
    BY <1>1, <2>1, <2>2, <2>3, <2>5 DEF TypeOK, file, locals, producer, history
  <2> QED
    BY <2>5, <2>6 DEF LoggerInv
<1> QED
  BY <1>4, <1>5, <1>6, <1>7 DEF Start

\* The shell's commands
LEMMA CommandKeeps ==
  ASSUME LoggerInv, CmdStop \/ CmdStart
  PROVE  LoggerInv'
<1>1. /\ UNCHANGED <<fid, can_be_stopped, lost_msg, ring, header, count, locals, producer, due>>
      /\ is_logging' \in {is_logging, 0} /\ pc'["logger"] = pc["logger"]
      /\ \/ pc' = pc /\ restarted' = restarted
         \/ /\ pc' = [pc EXCEPT !["shell"] = "open"] /\ restarted' = TRUE
            /\ "start" \in Commands
  BY DEF CmdStop, CmdStart, Go, file, history, LoggerInv, TypeOK, Starters
<1>2. TypeOK'
  <2>1. is_logging' \in 0 .. ByteRange - 1
    BY <1>1, Sizes DEF LoggerInv, TypeOK
  <2>2. restarted' \in BOOLEAN
    BY <1>1 DEF LoggerInv, TypeOK
  <2>3. pc' \in [Starters -> {"idle", "open", "flag", "init", "header", "write", "copy",
                             "file", "loop", "take", "short", "fwrite", "stop",
                             "stopped", "close", "sleep", "undefined"}]
    BY <1>1 DEF LoggerInv, TypeOK
  <2> QED
    BY <1>1, <2>1, <2>2, <2>3 DEF LoggerInv, TypeOK, ring, locals, producer
<1>3. HeaderInv' /\ ShellInv'
  BY <1>1 DEF LoggerInv, HeaderInv, ShellInv, TypeOK, Starters
<1>4. Untouched /\ held' \in Nat
  BY <1>1, Sizes DEF Untouched, ring, LoggerInv, TypeOK
<1> QED
  BY <1>2, <1>3, <1>4, UntouchedKeeps DEF LoggerInv, TypeOK

\* sd_log_write and the loop around it
LEMMA WriteKeeps ==
  ASSUME LoggerInv, Write
  PROVE  LoggerInv'
<1> USE DEF At, Go
<1> DEFINE Stands == {"idle", "open", "flag", "init", "header", "write", "copy",
                      "file", "loop", "take", "short", "fwrite", "stop",
                      "stopped", "close", "sleep", "undefined"}
<1>1. /\ TypeOK /\ HeaderInv /\ ShellInv /\ Counted /\ Taken /\ Snapshot
      /\ LengthRightWhenQuiet /\ DrainedBeforeClose
      /\ pc \in [Starters -> Stands] /\ "logger" \in Starters /\ "shell" \in Starters
  BY DEF LoggerInv, Starters, TypeOK
\* The shell stays where it is.
<1>2. ASSUME NEW to \in Stands \ {"header", "idle"},
             pc' = [pc EXCEPT !["logger"] = to], UNCHANGED header,
             restarted' = restarted \/ pc["shell"] = "idle"
      PROVE  /\ pc' \in [Starters -> Stands] /\ HeaderInv' /\ ShellInv'
             /\ pc'["logger"] = to
  BY <1>1, <1>2 DEF HeaderInv, ShellInv, Starters
<1>3. CASE WriteCopyRead
  <2>1. /\ pc' = [pc EXCEPT !["logger"] = "copy"]
        /\ rp' = read_index /\ restarted' = (pc["shell"] # "idle")
        /\ UNCHANGED <<file, ring, header, count, wp, len, seen, got, producer, due>>
    BY <1>3 DEF WriteCopyRead
  <2>2. /\ pc' \in [Starters -> Stands] /\ HeaderInv' /\ ShellInv'
        /\ pc'["logger"] = "copy"
    BY <1>1, <1>2, <2>1 DEF ShellInv, TypeOK
  <2>3. TypeOK'
    BY <1>1, <2>1, <2>2 DEF TypeOK, file, ring, producer
  <2>4. Counted' /\ Taken' /\ Snapshot' /\ LengthRightWhenQuiet' /\ DrainedBeforeClose'
    BY <1>1, <2>1, <2>2
       DEF Counted, Taken, Snapshot, LengthRightWhenQuiet, DrainedBeforeClose, ring
  <2> QED
    BY <2>2, <2>3, <2>4 DEF LoggerInv
<1>4. CASE WriteCopyWrite
  <2>1. /\ pc["logger"] = "copy" /\ pc' = [pc EXCEPT !["logger"] = "file"]
        /\ wp' = write_index /\ seen' = held /\ due' = held
        /\ UNCHANGED <<file, ring, header, count, rp, len, got, producer, restarted>>
    BY <1>4 DEF WriteCopyWrite
  <2>2. /\ pc' \in [Starters -> Stands] /\ HeaderInv' /\ ShellInv'
        /\ pc'["logger"] = "file"
    BY <1>2, <2>1
  <2>3. /\ held \in Nat /\ held <= buffer_size /\ buffer_size \in {0, RING_BUF_MAX_LEN}
        /\ read_index \in Nat /\ read_index < RING_BUF_MAX_LEN
        /\ RING_BUF_MAX_LEN \in Nat
    BY <1>1, Sizes DEF TypeOK
  <2>4. /\ buffer_size = 0 => write_index = 0
        /\ buffer_size # 0 => write_index = (read_index + held) % RING_BUF_MAX_LEN
    BY <2>3 DEF write_index
  <2>5. /\ (read_index + held) % RING_BUF_MAX_LEN \in 0 .. RING_BUF_MAX_LEN - 1
        /\ read_index + held < RING_BUF_MAX_LEN
             => (read_index + held) % RING_BUF_MAX_LEN = read_index + held
        /\ read_index + held >= RING_BUF_MAX_LEN
             => (read_index + held) % RING_BUF_MAX_LEN = read_index + held - RING_BUF_MAX_LEN
    <3>1. held <= RING_BUF_MAX_LEN
      BY <2>3
    <3> QED
      BY ONLY <2>3, <3>1, Wraps
  <2>6. write_index \in 0 .. RING_BUF_MAX_LEN - 1
    BY <2>3, <2>4, <2>5, Sizes
  <2>7. /\ seen' \in 0 .. RING_BUF_MAX_LEN /\ due' \in 0 .. held'
        /\ wp' \in 0 .. RING_BUF_MAX_LEN - 1
    BY <2>1, <2>3, <2>6 DEF ring
  <2>8. TypeOK'
    BY <1>1, <2>1, <2>2, <2>7 DEF TypeOK, file, ring, producer
  <2>9. Counted'
    BY <1>1, <2>1, <2>7 DEF Counted
  <2>10. Snapshot'
    <3>1. SUFFICES ASSUME held > 0, ~restarted PROVE Apart'
      BY <2>1, <2>2 DEF Snapshot
    <3>2. write_index = (read_index + held) % RING_BUF_MAX_LEN
      BY <3>1, <2>3, <2>4
    <3>3. rp = read_index
      BY <1>1, <2>1, <3>1 DEF Snapshot
    <3> QED
      BY <2>1, <3>2, <3>3, <2>3, <2>5 DEF Apart
  <2>11. Taken' /\ LengthRightWhenQuiet' /\ DrainedBeforeClose'
    BY <2>2 DEF Taken, LengthRightWhenQuiet, DrainedBeforeClose
  <2> QED
    BY <2>2, <2>8, <2>9, <2>10, <2>11 DEF LoggerInv
<1>5. CASE WriteFile
  <2>1. /\ pc["logger"] = "file"
        /\ \/ /\ pc' = [pc EXCEPT !["logger"] = "sleep"]
              /\ rp' = 0 /\ wp' = 0 /\ len' = 0 /\ seen' = 0 /\ got' = 0
           \/ /\ pc' = [pc EXCEPT !["logger"] = "loop"]
              /\ UNCHANGED <<rp, wp, len, seen, got>>
        /\ UNCHANGED <<file, ring, header, count, producer, due, restarted>>
    BY <1>5 DEF WriteFile, Returned, locals, history
  <2>2. /\ pc' \in [Starters -> Stands] /\ HeaderInv' /\ ShellInv'
        /\ pc'["logger"] \in {"sleep", "loop"}
        /\ pc'["logger"] = "loop" => UNCHANGED <<rp, wp, len, seen, got>>
    BY <1>2, <2>1
  <2>3. TypeOK'
    BY <1>1, <2>1, <2>2, Sizes DEF TypeOK, file, ring, producer
  <2>4. Counted'
    BY <1>1, <2>1, Sizes DEF Counted, ring
  <2>5. Snapshot' /\ Taken' /\ LengthRightWhenQuiet' /\ DrainedBeforeClose'
    BY <1>1, <2>1, <2>2
       DEF Snapshot, Apart, Taken, LengthRightWhenQuiet, DrainedBeforeClose
  <2> QED
    BY <2>2, <2>3, <2>4, <2>5 DEF LoggerInv
<1>6. CASE WriteTest
  <2>1. /\ pc["logger"] = "loop" /\ held > 0 /\ pc' = [pc EXCEPT !["logger"] = "take"]
        /\ UNCHANGED <<file, ring, header, count, locals, producer, due, restarted>>
    BY <1>6 DEF WriteTest, history
  <2>2. /\ pc' \in [Starters -> Stands] /\ HeaderInv' /\ ShellInv'
        /\ pc'["logger"] = "take"
    BY <1>2, <2>1
  <2>3. buffer_size # 0
    BY <1>1, <2>1, Sizes DEF TypeOK
  <2>4. TypeOK'
    BY <1>1, <2>1, <2>2 DEF TypeOK, file, ring, locals, producer
  <2>5. Counted'
    BY <1>1, <2>1 DEF Counted, ring, locals
  <2>6. Snapshot' /\ Taken' /\ LengthRightWhenQuiet' /\ DrainedBeforeClose'
    BY <1>1, <2>1, <2>2, <2>3
       DEF Snapshot, Apart, Taken, LengthRightWhenQuiet, DrainedBeforeClose, ring, locals
  <2> QED
    BY <2>2, <2>4, <2>5, <2>6 DEF LoggerInv
<1>7. CASE WriteTake
  <2>1. /\ pc["logger"] = "take" /\ RingGet(BLOCK_LEN)
        /\ \/ got' < BLOCK_LEN /\ len' = len /\ pc' = [pc EXCEPT !["logger"] = "short"]
           \/ /\ ~(got' < BLOCK_LEN) /\ len' = BLOCK_LEN
              /\ pc' = [pc EXCEPT !["logger"] = "fwrite"]
        /\ UNCHANGED <<file, header, count, rp, wp, seen, producer, restarted>>
    BY <1>7 DEF WriteTake
  <2>2. /\ buffer_size = RING_BUF_MAX_LEN /\ buffer_size' = buffer_size
        /\ got' \in 0 .. BLOCK_LEN /\ held' \in 0 .. buffer_size
        /\ read_index' \in 0 .. RING_BUF_MAX_LEN - 1 /\ due' \in 0 .. held'
        /\ held > 0 => got' > 0
    <3>1. buffer_size # 0
      BY <1>1, <2>1 DEF Taken
    <3> QED
      BY <2>1, <3>1, GetKeeps
  <2>3. /\ pc' \in [Starters -> Stands] /\ HeaderInv' /\ ShellInv'
        /\ \/ pc'["logger"] = "short" /\ got' < BLOCK_LEN
           \/ pc'["logger"] = "fwrite" /\ ~(got' < BLOCK_LEN) /\ len' = BLOCK_LEN
    BY <1>2, <2>1
  <2>4. len' \in 0 .. RING_BUF_MAX_LEN
    BY <1>1, <2>1, Sizes DEF TypeOK
  <2>5. TypeOK'
    BY <1>1, <2>1, <2>2, <2>3, <2>4 DEF TypeOK, file, producer
  <2>6. Counted'
    <3>1. got' \in 0 .. RING_BUF_MAX_LEN
      BY <2>2, Sizes
    <3> QED
      BY <1>1, <2>1, <2>2, <3>1 DEF Counted
  <2>7. Taken'
    <3>1. ~restarted => held > 0
      BY <1>1, <2>1 DEF Taken
    <3>2. buffer_size' # 0
      BY <2>2, Sizes
    <3> QED
      BY <2>1, <2>2, <2>3, <3>1, <3>2 DEF Taken
  <2>8. LengthRightWhenQuiet'
    BY <2>2, <2>3, Sizes DEF LengthRightWhenQuiet
  <2>9. Snapshot' /\ DrainedBeforeClose'
    BY <1>1, <2>1, <2>3 DEF Snapshot, Apart, DrainedBeforeClose
  <2> QED
    BY <2>3, <2>5, <2>6, <2>7, <2>8, <2>9 DEF LoggerInv
<1>8. CASE WriteShort
  <2>1. /\ pc["logger"] = "short" /\ pc' = [pc EXCEPT !["logger"] = "fwrite"]
        /\ can_be_stopped' = 1
        /\ \/ wp > rp /\ len' = wp - rp
           \/ ~(wp > rp) /\ len' = buffer_size - (rp - wp)
        /\ UNCHANGED <<fid, is_logging, lost_msg, ring, header, count, rp, wp, seen, got,
                       producer, due, restarted>>
    BY <1>8 DEF WriteShort, history
  <2>2. /\ pc' \in [Starters -> Stands] /\ HeaderInv' /\ ShellInv'
        /\ pc'["logger"] = "fwrite"
    BY <1>2, <2>1
  <2>3. /\ rp \in 0 .. RING_BUF_MAX_LEN - 1 /\ wp \in 0 .. RING_BUF_MAX_LEN - 1
        /\ seen \in 0 .. RING_BUF_MAX_LEN /\ buffer_size = RING_BUF_MAX_LEN
        /\ got < BLOCK_LEN /\ (~restarted => got > 0)
    BY <1>1, <2>1 DEF TypeOK, Counted, Taken
  <2>4. len' \in 0 .. RING_BUF_MAX_LEN /\ can_be_stopped' \in 0 .. ByteRange - 1
    <3>1. PICK l : l = len'
      OBVIOUS
    <3>2. \/ l = wp - rp /\ wp > rp
          \/ l = RING_BUF_MAX_LEN - (rp - wp) /\ ~(wp > rp)
      BY <2>1, <2>3, <3>1
    <3>3. l \in 0 .. RING_BUF_MAX_LEN
      BY ONLY <3>2, <2>3, Sizes
    <3> QED
      BY <3>1, <3>3, <2>1, Sizes
  <2>5. TypeOK'
    BY <1>1, <2>1, <2>2, <2>4 DEF TypeOK, ring, producer
  <2>6. Counted'
    BY <1>1, <2>1 DEF Counted, ring
  <2>7. LengthRightWhenQuiet'
    <3> SUFFICES ASSUME got = seen, ~restarted PROVE len' = got
      BY <2>1 DEF LengthRightWhenQuiet
    <3>1. seen > 0
      BY <2>3
    <3>2. Apart
      BY <1>1, <2>1, <3>1 DEF Snapshot
    <3>3. /\ wp > rp => wp - rp = seen
          /\ ~(wp > rp) => RING_BUF_MAX_LEN - (rp - wp) = seen
      BY <3>1, <3>2, <2>3, Sizes DEF Apart
    <3> QED
      BY <2>1, <2>3, <3>3
  <2>8. Snapshot' /\ Taken' /\ DrainedBeforeClose'
    BY <1>1, <2>1, <2>2 DEF Snapshot, Apart, Taken, DrainedBeforeClose
  <2> QED
    BY <2>2, <2>5, <2>6, <2>7, <2>8 DEF LoggerInv
<1>9. CASE WriteBlock
  <2>1. /\ \/ pc' = [pc EXCEPT !["logger"] = "loop"]
           \/ pc' = [pc EXCEPT !["logger"] = "undefined"]
        /\ len' = 0 /\ got' = 0
        /\ UNCHANGED <<file, ring, header, count, rp, wp, seen, producer, due, restarted>>
    BY <1>9 DEF WriteBlock, history
  <2>2. /\ pc' \in [Starters -> Stands] /\ HeaderInv' /\ ShellInv'
        /\ pc'["logger"] \in {"loop", "undefined"} /\ pc["logger"] = "fwrite"
    BY <1>2, <1>9, <2>1 DEF WriteBlock
  <2>3. TypeOK'
    BY <1>1, <2>1, <2>2, Sizes DEF TypeOK, file, ring, producer
  <2>4. Counted'
    BY <1>1, <2>1, Sizes DEF Counted, ring
  <2>5. Snapshot' /\ Taken' /\ LengthRightWhenQuiet' /\ DrainedBeforeClose'
    BY <1>1, <2>1, <2>2 DEF Snapshot, Apart, Taken, LengthRightWhenQuiet, DrainedBeforeClose
  <2> QED
    BY <2>2, <2>3, <2>4, <2>5 DEF LoggerInv
<1>10. CASE WriteDone
  <2>1. /\ held = 0 /\ pc' = [pc EXCEPT !["logger"] = "stop"]
        /\ UNCHANGED <<file, ring, header, count, locals, producer, due, restarted>>
    BY <1>10 DEF WriteDone, history
  <2>2. /\ pc' \in [Starters -> Stands] /\ HeaderInv' /\ ShellInv'
        /\ pc'["logger"] = "stop"
    BY <1>2, <2>1
  <2>3. due = 0 /\ due' = due
    BY <1>1, <2>1 DEF Counted
  <2>4. TypeOK'
    BY <1>1, <2>1, <2>2 DEF TypeOK, file, ring, locals, producer
  <2>5. Counted'
    BY <1>1, <2>1 DEF Counted, ring, locals
  <2>6. Snapshot' /\ Taken' /\ LengthRightWhenQuiet' /\ DrainedBeforeClose'
    BY <2>2, <2>3 DEF Snapshot, Apart, Taken, LengthRightWhenQuiet, DrainedBeforeClose
  <2> QED
    BY <2>2, <2>4, <2>5, <2>6 DEF LoggerInv
<1>11. CASE WriteStop
  <2>1. /\ \/ pc' = [pc EXCEPT !["logger"] = "sleep"]
           \/ pc' = [pc EXCEPT !["logger"] = "stopped"]
        /\ rp' = 0 /\ wp' = 0 /\ len' = 0 /\ seen' = 0 /\ got' = 0
        /\ UNCHANGED <<file, ring, header, count, producer, due, restarted>>
    BY <1>11 DEF WriteStop, Returned, history
  <2>2. /\ pc' \in [Starters -> Stands] /\ HeaderInv' /\ ShellInv'
        /\ pc'["logger"] \in {"sleep", "stopped"} /\ pc["logger"] = "stop"
    BY <1>2, <1>11, <2>1 DEF WriteStop
  <2>3. TypeOK'
    BY <1>1, <2>1, <2>2, Sizes DEF TypeOK, file, ring, producer
  <2>4. Counted'
    BY <1>1, <2>1, Sizes DEF Counted, ring
  <2>5. Snapshot' /\ Taken' /\ LengthRightWhenQuiet' /\ DrainedBeforeClose'
    BY <1>1, <2>1, <2>2
       DEF Snapshot, Apart, Taken, LengthRightWhenQuiet, DrainedBeforeClose
  <2> QED
    BY <2>2, <2>3, <2>4, <2>5 DEF LoggerInv
<1>12. CASE WriteStopped \/ WriteClose
  <2>1. /\ fid' \in {fid, "closed"}
        /\ \/ pc' = [pc EXCEPT !["logger"] = "sleep"]
           \/ pc' = [pc EXCEPT !["logger"] = "close"]
           \/ pc' = [pc EXCEPT !["logger"] = "undefined"]
        /\ UNCHANGED <<is_logging, can_be_stopped, lost_msg, ring, header, count,
                       locals, producer, due, restarted>>
    BY <1>12 DEF WriteStopped, WriteClose, Close, file, history
  <2>2. /\ pc' \in [Starters -> Stands] /\ HeaderInv' /\ ShellInv'
        /\ pc'["logger"] \in {"sleep", "close", "undefined"}
        /\ pc["logger"] \in {"stopped", "close"}
    BY <1>2, <1>12, <2>1 DEF WriteStopped, WriteClose
  <2>3. TypeOK'
    BY <1>1, <2>1, <2>2 DEF TypeOK, ring, locals, producer
  <2>4. Counted'
    BY <1>1, <2>1 DEF Counted, ring, locals
  <2>5. Snapshot' /\ Taken' /\ LengthRightWhenQuiet' /\ DrainedBeforeClose'
    BY <1>1, <2>1, <2>2
       DEF Snapshot, Apart, Taken, LengthRightWhenQuiet, DrainedBeforeClose
  <2> QED
    BY <2>2, <2>3, <2>4, <2>5 DEF LoggerInv
<1>13. CASE LoopNext
  <2>1. /\ fid' \in {fid, "closed"}
        /\ \/ pc' = [pc EXCEPT !["logger"] = "open"]
           \/ pc' = [pc EXCEPT !["logger"] = "undefined"]
           \/ pc' = [pc EXCEPT !["logger"] = "write"]
        /\ \/ count' = 0
           \/ count + 1 # SavePeriod /\ count' = count + 1
        /\ UNCHANGED <<is_logging, can_be_stopped, lost_msg, ring, header, locals,
                       producer, due, restarted>>
    BY <1>13 DEF LoopNext, Close, history
  <2>2. /\ pc' \in [Starters -> Stands] /\ HeaderInv' /\ ShellInv'
        /\ pc'["logger"] \in {"open", "undefined", "write"}
    BY <1>2, <2>1
  <2>3. count' \in 0 .. SavePeriod - 1
    <3>1. count \in 0 .. SavePeriod - 1
      BY <1>1 DEF TypeOK
    <3> QED
      BY <2>1, <3>1, Sizes
  <2>4. TypeOK'
    BY <1>1, <2>1, <2>2, <2>3 DEF TypeOK, ring, locals, producer
  <2>5. Counted'
    BY <1>1, <2>1 DEF Counted, ring, locals
  <2>6. Snapshot' /\ Taken' /\ LengthRightWhenQuiet' /\ DrainedBeforeClose'
    BY <2>2 DEF Snapshot, Apart, Taken, LengthRightWhenQuiet, DrainedBeforeClose
  <2> QED
    BY <2>2, <2>4, <2>5, <2>6 DEF LoggerInv
<1> QED
  BY <1>3, <1>4, <1>5, <1>6, <1>7, <1>8, <1>9, <1>10, <1>11, <1>12, <1>13 DEF Write

LEMMA Invariant == Spec => []LoggerInv
<1>1. LoggerInv /\ [Next]_vars => LoggerInv'
  <2> SUFFICES ASSUME LoggerInv, [Next]_vars PROVE LoggerInv'
    OBVIOUS
  <2>1. CASE Next
    BY <2>1, WriteKeeps, LogKeeps, StartKeeps, CommandKeeps DEF Next
  <2>2. CASE UNCHANGED vars
    <3>1. UNCHANGED <<fid, is_logging, can_be_stopped, lost_msg, buffer_size, held, read_index,
                      pc, header, count, rp, wp, len, stage, msg, word, seen, got, due, restarted>>
      BY <2>2 DEF vars, file, ring, locals, producer, history
    <3> QED
      BY <3>1 DEF LoggerInv, TypeOK, HeaderInv, ShellInv, Counted, Taken, Snapshot, Apart,
                  LengthRightWhenQuiet, DrainedBeforeClose, At
  <2> QED
    BY <2>1, <2>2
<1> QED
  BY Initially, <1>1, PTL DEF Spec

------------------------------------------------------------------------------
(* What it says                                                             *)

\* The type of every variable.
THEOREM TypeCorrect == Spec => []TypeOK
<1>1. LoggerInv => TypeOK
  BY DEF LoggerInv
<1> QED
  BY <1>1, Invariant, PTL

\* Unless the shell starts logging meanwhile, and with it empties the ring, the
\* length worked out from the copied indices is right when the block is all that
\* the copies saw, also when the bytes lie across the end of the pool.
THEOREM QuietLengthIsRight == Spec => []LengthRightWhenQuiet
<1>1. LoggerInv => LengthRightWhenQuiet
  BY DEF LoggerInv
<1> QED
  BY <1>1, Invariant, PTL

\* Before a file is closed because logging was stopped, all that was in the
\* ring when that write began has been taken out of it.
THEOREM StopComesAfterDraining == Spec => []DrainedBeforeClose
<1>1. LoggerInv => DrainedBeforeClose
  BY DEF LoggerInv
<1> QED
  BY <1>1, Invariant, PTL

------------------------------------------------------------------------------
(* The file                                                                 *)

LEMMA TurnIs ==
  /\ pc["logger"] = "undefined" => Turn = "lost"
  /\ pc["logger"] = "open" => Turn = "open"
  /\ pc["logger"] \notin {"undefined", "open"} => Turn = "write"
  BY DEF Turn, At

LEMMA NextTurnIs ==
  /\ pc'["logger"] = "undefined" => Turn' = "lost"
  /\ pc'["logger"] = "open" => Turn' = "open"
  /\ pc'["logger"] \notin {"undefined", "open"} => Turn' = "write"
  BY DEF Turn, At

\* Every step opens or closes the file, loses it, or leaves it alone.
LEMMA FileStep ==
  ASSUME LoggerInv, [Next]_vars
  PROVE  [File!Next]_<<fid, Turn>>
<1> USE DEF At, Go
<1>1. pc \in [Starters -> {"idle", "open", "flag", "init", "header", "write", "copy",
                           "file", "loop", "take", "short", "fwrite", "stop",
                           "stopped", "close", "sleep", "undefined"}]
      /\ Starters = {"logger", "shell"} /\ (pc["shell"] # "idle" => "start" \in Commands)
  BY DEF LoggerInv, TypeOK, Starters, ShellInv
<1>2. ASSUME UNCHANGED fid,
             pc'["logger"] = pc["logger"]
               \/ {pc["logger"], pc'["logger"]} \cap {"undefined", "open"} = {}
      PROVE  UNCHANGED <<fid, Turn>>
  BY <1>2, TurnIs, NextTurnIs
<1>3. CASE UNCHANGED vars
  BY <1>2, <1>3 DEF vars, file
<1>4. ASSUME NEW t \in Starters, Start(t), pc["logger"] # "undefined"
      PROVE  [File!Next]_<<fid, Turn>>
  <2>1. CASE StartOpen(t) \/ StartNoFile(t)
    <3>1. /\ pc[t] = "open" /\ fid' \in {"open", "NULL"}
          /\ t = "logger" => pc'["logger"] \in {"flag", "write"}
          /\ t = "shell" => pc'["logger"] = pc["logger"]
      BY <2>1, <1>1 DEF StartOpen, StartNoFile, Back
    <3>2. CASE t = "logger"
      <4>1. Turn = "open" /\ Turn' = "write"
        BY <3>1, <3>2, TurnIs, NextTurnIs
      <4> QED
        BY <3>1, <4>1 DEF File!Next, File!Open
    <3>3. CASE t = "shell"
      <4>1. Turn # "lost" /\ Turn' = Turn
        BY <3>1, <3>3, <1>4, TurnIs, NextTurnIs
      <4>2. "start" \in Commands
        BY <1>1, <3>1, <3>3
      <4> QED
        BY <3>1, <4>1, <4>2 DEF File!Next, File!ShellOpen
    <3> QED
      BY <1>1, <3>2, <3>3
  <2>2. CASE StartFlag(t) \/ StartRing(t) \/ StartHeader(t)
    <3>1. /\ UNCHANGED fid
          /\ \/ pc'["logger"] = pc["logger"]
             \/ /\ pc["logger"] \in {"flag", "init", "header"}
                /\ pc'["logger"] \in {"init", "header", "write"}
      BY <2>2, <1>1 DEF StartFlag, StartRing, StartHeader, Back, file
    <3> QED
      BY <3>1, <1>2
  <2> QED
    BY <1>4, <2>1, <2>2 DEF Start
<1>5. CASE Log
  <2>1. UNCHANGED <<fid, pc>>
    BY <1>5 DEF Log, LogBegin, LogFlag, LogId, LogText, LogLost, LogCount, LogNewline, file
  <2> QED
    BY <2>1, <1>2
<1>6. CASE CmdStop \/ CmdStart
  <2>1. UNCHANGED fid /\ pc'["logger"] = pc["logger"]
    BY <1>1, <1>6 DEF CmdStop, CmdStart, file
  <2> QED
    BY <2>1, <1>2
<1>7. ASSUME NEW next, Close(next), next \in {"sleep", "open"},
             pc["logger"] \in {"close", "sleep"}
      PROVE  File!Next
  <2>1. Turn = "write"
    BY <1>7, TurnIs
  <2>2. CASE fid = "open" /\ next = "sleep"
    <3>1. fid' = "closed" /\ Turn' = Turn
      BY <1>1, <1>7, <2>1, <2>2, NextTurnIs DEF Close
    <3> QED
      BY <2>1, <2>2, <3>1 DEF File!Next, File!Stop
  <2>3. CASE fid = "open" /\ next = "open"
    <3>1. fid' = "closed" /\ Turn' = "open"
      BY <1>1, <1>7, <2>3, NextTurnIs DEF Close
    <3> QED
      BY <2>1, <2>3, <3>1 DEF File!Next, File!Rotate
  <2>4. CASE fid # "open"
    <3>1. UNCHANGED fid /\ Turn' = "lost"
      BY <1>1, <1>7, <2>4, NextTurnIs DEF Close
    <3> QED
      BY <2>1, <2>4, <3>1 DEF File!Next, File!Misuse
  <2> QED
    BY <1>7, <2>2, <2>3, <2>4
<1>8. CASE Write
  <2>1. CASE \/ WriteCopyRead \/ WriteCopyWrite \/ WriteFile \/ WriteTest
             \/ WriteTake \/ WriteShort \/ WriteDone \/ WriteStop \/ WriteStopped
    <3>1. /\ UNCHANGED fid
          /\ pc["logger"] \in {"write", "copy", "file", "loop", "take", "short",
                             "stop", "stopped"}
          /\ pc'["logger"] \in {"copy", "file", "sleep", "loop", "take", "short", "fwrite",
                              "stop", "stopped", "close"}
      BY <1>1, <2>1 DEF WriteCopyRead, WriteCopyWrite, WriteFile, WriteTest, WriteTake,
                        WriteShort, WriteDone, WriteStop, WriteStopped, file
    <3> QED
      BY <3>1, <1>2
  <2>2. CASE WriteBlock
    <3>1. CASE fid = "open"
      BY <1>1, <1>2, <2>2, <3>1 DEF WriteBlock, file
    <3>2. CASE fid # "open"
      <4>1. /\ UNCHANGED fid /\ pc["logger"] = "fwrite" /\ pc'["logger"] = "undefined"
        BY <1>1, <2>2, <3>2 DEF WriteBlock, file
      <4>2. Turn = "write" /\ Turn' = "lost"
        BY <4>1, TurnIs, NextTurnIs
      <4> QED
        BY <3>2, <4>1, <4>2 DEF File!Next, File!Misuse
    <3> QED
      BY <3>1, <3>2
  <2>3. CASE WriteClose
    BY <1>7, <2>3 DEF WriteClose
  <2>4. CASE LoopNext
    <3>1. CASE count + 1 = SavePeriod
      BY <1>7, <2>4, <3>1 DEF LoopNext
    <3>2. CASE count + 1 # SavePeriod
      BY <1>1, <1>2, <2>4, <3>2 DEF LoopNext
    <3> QED
      BY <3>1, <3>2
  <2> QED
    BY <1>8, <2>1, <2>2, <2>3, <2>4 DEF Write
<1> QED
  BY <1>3, <1>4, <1>5, <1>6, <1>8 DEF Next

\* To the rest of the process the logger is a LogFile.
THEOREM ImplementsLogFile == Spec => IsLogFile
<1>1. Init => File!Init
  <2>1. Init => pc["logger"] = "open"
    BY DEF Init
  <2> QED
    BY <2>1, TurnIs DEF Init, File!Init
<1>2. LoggerInv /\ [Next]_vars => [File!Next]_<<fid, Turn>>
  BY FileStep
<1> QED
  BY <1>1, <1>2, Invariant, PTL DEF Spec, IsLogFile, File!Spec
=============================================================================

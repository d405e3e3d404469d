---------------------------- MODULE PlatformProofs ----------------------------
(***************************************************************************)
(* Proofs about Platform, for any periods, any number of signals and       *)
(* clients and any size of the descriptor table: signals add up and topics *)
(* keep their rates (RoundsKept), nothing is published before all is       *)
(* advertised (PublishedIsAdvertised), and the logger loses its file only  *)
(* to clients (FileOutlastsOthers).                                        *)
(*                                                                         *)
(* The first two are about the sensor thread, whose variables the others   *)
(* touch in one way only: they may end the process (ViewKeeps).           *)
(***************************************************************************)
EXTENDS Platform, TLAPS, FiniteSetTheorems

------------------------------------------------------------------------------
(* The sensor thread's part of the invariant                                *)

LoopStages  == {"wait", "loopImu", "loopMag", "loopGps", "end"}
SetupStages == Stages \ LoopStages

\* The stages of a round at which a topic has had its turn.
TurnOver(tpc) ==
  \/ pc = "loopMag" /\ tpc = "imu"
  \/ pc = "loopGps" /\ tpc \in {"imu", "mag"}
  \/ pc = "end"

\* Rounds of the loop are counted from zero, which the set-up does not touch.
NotBegun ==
  pc \in SetupStages => loops = 0 /\ \A tpc \in Topics : sent[tpc] = 0

\* A counter is what the rounds since the last publication make it, and has
\* not passed the period; it is reset in the turn of its topic.
Counted(tpc) ==
  /\ cnt[tpc] + sent[tpc] * Period[tpc] = loops + Period[tpc]
  /\ TurnOver(tpc)  => cnt[tpc] < Period[tpc] /\ sent[tpc] <= loops + 1
  /\ ~TurnOver(tpc) => cnt[tpc] > 0 /\ cnt[tpc] <= Period[tpc] /\ sent[tpc] <= loops

CountersInv == \A tpc \in Topics : Counted(tpc)

\* What the set-up has done by each of its stages.
SetupInv ==
  /\ pc \in LoopStages \cup {"magdev", "uart", "imu", "mag", "gps", "settime"}
       => "mems" \in opened
  /\ pc \in LoopStages \cup {"uart", "imu", "mag", "gps", "settime"} => "mag" \in opened
  /\ pc \in LoopStages \cup {"mag", "gps", "settime"} => "imu" \in advertised
  /\ pc \in LoopStages \cup {"gps", "settime"} => "mag" \in advertised
  /\ pc \in LoopStages \cup {"settime"} => "gps" \in advertised

SensorInv == TypeOK /\ TicksKept /\ NotBegun /\ CountersInv /\ SetupInv

\* A file is opened only when the last was closed, and fails to open only in a
\* table that is full; the server never has fewer clients than before.
FileInv == (turn = "open" => fid # "open") /\ FileOutlastsOthers

PlatformInv == PlatformTypeOK /\ SensorInv /\ FileInv

------------------------------------------------------------------------------
(* The sensor thread                                                        *)

\* Periods are positive, and no longer than the bound TypeOK gives the counters.
LEMMA Periods ==
  \A tpc \in Topics :
    /\ Period[tpc] \in Nat \ {0}
    /\ Period[tpc] <= INS_PERIOD + MAG_PERIOD + GPS_PERIOD
  BY Given DEF Topics, Period

\* The numbers the invariant is about.
LEMMA Numbers ==
  ASSUME SensorInv
  PROVE  /\ sem \in Nat /\ ticks \in Nat /\ loops \in Nat /\ MaxTicks \in Nat
         /\ sem <= ticks /\ loops <= ticks /\ ticks <= MaxTicks
         /\ InRound => ticks = sem + loops + 1
         /\ ~InRound => ticks = sem + loops
<1>1. /\ sem \in Nat /\ ticks \in Nat /\ loops \in Nat /\ MaxTicks \in Nat
      /\ ticks <= MaxTicks
  BY Given DEF SensorInv, TypeOK
<1>2. ticks = sem + loops + (IF InRound THEN 1 ELSE 0)
  BY DEF SensorInv, TicksKept
<1> QED
  BY ONLY <1>1, <1>2

LEMMA TopicNumbers ==
  ASSUME SensorInv, NEW tpc \in Topics
  PROVE  /\ cnt[tpc] \in Nat /\ sent[tpc] \in Nat
         /\ Period[tpc] \in Nat /\ Period[tpc] > 0
         /\ sent[tpc] * Period[tpc] \in Nat
         /\ Period[tpc] <= INS_PERIOD + MAG_PERIOD + GPS_PERIOD
         /\ INS_PERIOD + MAG_PERIOD + GPS_PERIOD \in Nat
<1>1. cnt[tpc] \in Nat /\ sent[tpc] \in Nat
  BY Given DEF SensorInv, TypeOK
<1>2. /\ Period[tpc] \in Nat /\ Period[tpc] > 0
      /\ Period[tpc] <= INS_PERIOD + MAG_PERIOD + GPS_PERIOD
  BY Periods
<1>3. sent[tpc] * Period[tpc] \in Nat
  BY ONLY <1>1, <1>2
<1>4. INS_PERIOD + MAG_PERIOD + GPS_PERIOD \in Nat
  BY Given
<1> QED
  BY <1>1, <1>2, <1>3, <1>4

\* What the sensor thread's part of the invariant depends on.
sensorView == <<pc, opened, advertised, sem, cnt, ticks, loops, sent>>

\* A step that leaves those alone keeps it.
LEMMA ViewKeeps ==
  ASSUME SensorInv, UNCHANGED sensorView,
         down' \in BOOLEAN, running' \subseteq created', created' \subseteq Threads,
         handler' \in BOOLEAN, armed' \in BOOLEAN
  PROVE  SensorInv'
<1> USE DEF sensorView
<1>1. TypeOK'
  BY DEF SensorInv, TypeOK
<1>2. TicksKept' /\ NotBegun'
  BY DEF SensorInv, TicksKept, InRound, NotBegun
<1>3. CountersInv'
  BY DEF SensorInv, CountersInv, Counted, TurnOver
<1>4. SetupInv'
  BY DEF SensorInv, SetupInv
<1> QED
  BY <1>1, <1>2, <1>3, <1>4 DEF SensorInv

\* main creates the threads, and they begin.
LEMMA MainKeeps ==
  ASSUME SensorInv, NEW t \in Threads, CreateThread(t) \/ Begin(t)
  PROVE  SensorInv'
<1>1. /\ down' \in BOOLEAN /\ running' \subseteq created' /\ created' \subseteq Threads
      /\ handler' \in BOOLEAN /\ armed' \in BOOLEAN
  BY DEF SensorInv, TypeOK, CreateThread, Begin, devices
<1>2. UNCHANGED sensorView
  BY DEF CreateThread, Begin, devices, sensorView
<1> QED
  BY <1>1, <1>2, ViewKeeps

\* So does the death of the process.
LEMMA CrashKeeps ==
  ASSUME SensorInv, NEW from, Crash(from)
  PROVE  SensorInv'
<1>1. UNCHANGED <<sensorView, created, running, handler, armed>> /\ down' \in BOOLEAN
  BY DEF Crash, devices, sensorView
<1> QED
  BY <1>1, ViewKeeps DEF SensorInv, TypeOK

\* The set-up counts nothing but moves on, or gives up.
LEMMA StartupKeeps ==
  ASSUME SensorInv, Startup
  PROVE  SensorInv'
<1> USE DEF Step, At, devices, startup, Stages
<1>1. CASE Crash("uart")
  BY <1>1, CrashKeeps
<1>2. CASE ~Crash("uart")
  <2>1. /\ pc \in SetupStages \ {"returned"} /\ pc' \in SetupStages \cup {"wait"}
        /\ UNCHANGED <<down, created, running, loops, sent, cnt>>
        /\ (sem' = sem /\ ticks' = ticks) \/ (sem' = 0 /\ ticks' = 0)
        /\ opened \subseteq opened' /\ opened' \subseteq opened \cup Devices \cup {"ublox"}
        /\ advertised \subseteq advertised' /\ advertised' \subseteq advertised \cup Topics
        /\ handler' \in {handler, TRUE} /\ armed' \in {armed, FALSE}
    <3> USE DEF SetupStages, LoopStages, Topics, Devices
    <3>1. CASE Install
      BY <3>1 DEF Install
    <3>2. CASE InitSem
      BY <3>2 DEF InitSem
    <3>3. CASE OpenDevice("mems", "mems", "magdev") \/ OpenDevice("magdev", "mag", "uart")
      BY <3>3 DEF OpenDevice
    <3>4. CASE InitUart
      BY <3>4, <1>2 DEF InitUart
    <3>5. CASE Advertise("imu", "mag") \/ Advertise("mag", "gps") \/ Advertise("gps", "settime")
      BY <3>5 DEF Advertise
    <3>6. CASE SetTimer
      BY <3>6 DEF SetTimer
    <3> QED
      BY <3>1, <3>2, <3>3, <3>4, <3>5, <3>6 DEF Startup
  <2>2. /\ sem' \in 0 .. MaxTicks /\ ticks' \in 0 .. MaxTicks
        /\ TicksKept'
    <3>1. loops = 0 /\ ~InRound /\ ~InRound'
      BY <2>1 DEF SensorInv, NotBegun, InRound, SetupStages, LoopStages
    <3>2. CASE sem' = sem /\ ticks' = ticks
      BY <2>1, <3>1, <3>2 DEF SensorInv, TypeOK, TicksKept
    <3>3. CASE sem' = 0 /\ ticks' = 0
      BY <2>1, <3>1, <3>3, Given DEF TicksKept
    <3> QED
      BY <2>1, <3>2, <3>3
  <2>3. opened' \subseteq Devices \cup {"ublox"} /\ advertised' \subseteq Topics
    BY <2>1 DEF SensorInv, TypeOK
  <2>4. TypeOK'
    BY <2>1, <2>2, <2>3 DEF SensorInv, TypeOK, SetupStages
  <2>6. NotBegun'
    BY <2>1 DEF SensorInv, NotBegun
  <2>7. CountersInv'
    <3>1. \A tpc \in Topics : ~TurnOver(tpc) /\ ~TurnOver(tpc)'
      BY <2>1 DEF TurnOver, SetupStages, LoopStages
    <3> QED
      BY <2>1, <3>1 DEF SensorInv, CountersInv, Counted
  <2>8. SetupInv'
    BY <1>2 DEF SensorInv, SetupInv, Startup, Install, InitSem, OpenDevice, InitUart,
                Advertise, SetTimer, LoopStages
  <2> QED
    BY <2>2, <2>4, <2>6, <2>7, <2>8 DEF SensorInv
<1> QED
  BY <1>1, <1>2

\* A signal is counted where it is posted.
LEMMA SignalKeeps ==
  ASSUME SensorInv, Signal
  PROVE  SensorInv'
<1> USE DEF Signal, startup, devices
<1>1. sem' \in 0 .. MaxTicks /\ ticks' \in 0 .. MaxTicks
  BY Numbers
<1>2. TypeOK'
  BY <1>1 DEF SensorInv, TypeOK
<1>3. TicksKept'
  <2>1. InRound' <=> InRound
    BY DEF InRound
  <2> QED
    BY <2>1, Numbers DEF TicksKept
<1>4. NotBegun' /\ SetupInv'
  BY DEF SensorInv, NotBegun, SetupInv
<1>5. CountersInv'
  BY DEF SensorInv, CountersInv, Counted, TurnOver
<1> QED
  BY <1>2, <1>3, <1>4, <1>5 DEF SensorInv

\* A round begins when a signal is taken.
LEMMA WakeKeeps ==
  ASSUME SensorInv, Wake
  PROVE  SensorInv'
<1>1. /\ pc = "wait" /\ pc' = "loopImu" /\ sem > 0 /\ sem' = sem - 1
      /\ UNCHANGED <<down, created, running, opened, advertised, handler, armed, cnt,
                     ticks, loops, sent>>
  BY DEF Wake, Step, At, startup, devices
<1>2. ~InRound /\ InRound'
  BY <1>1 DEF InRound
<1>3. sem' \in 0 .. MaxTicks
  <2>1. sem \in Nat /\ sem <= ticks /\ ticks <= MaxTicks /\ ticks \in Nat /\ MaxTicks \in Nat
    BY Numbers
  <2> QED
    BY ONLY <2>1, <1>1
<1>4. TypeOK'
  BY <1>1, <1>3 DEF SensorInv, TypeOK, Stages
<1>5. TicksKept'
  <2>1. sem \in Nat /\ loops \in Nat /\ ticks = sem + loops
    BY <1>2, Numbers
  <2> QED
    BY ONLY <2>1, <1>1, <1>2 DEF TicksKept
<1>6. NotBegun' /\ SetupInv'
  BY <1>1 DEF SensorInv, NotBegun, SetupInv, SetupStages, LoopStages
<1>7. CountersInv'
  <2>1. \A tpc \in Topics : ~TurnOver(tpc) /\ ~TurnOver(tpc)'
    BY <1>1 DEF TurnOver, Topics
  <2> QED
    BY <2>1, <1>1 DEF SensorInv, CountersInv, Counted
<1> QED
  BY <1>4, <1>5, <1>6, <1>7 DEF SensorInv

\* The turn of a topic, at its place in the round.
LEMMA SampleKeeps ==
  ASSUME SensorInv, NEW tpc \in Topics, NEW from, NEW to, Sample(tpc, from, to),
         \/ (tpc = "imu" /\ from = "loopImu" /\ to = "loopMag")
         \/ (tpc = "mag" /\ from = "loopMag" /\ to = "loopGps")
         \/ (tpc = "gps" /\ from = "loopGps" /\ to = "end")
  PROVE  SensorInv'
<1>1. /\ pc = from /\ pc' = to
      /\ UNCHANGED <<down, created, running, opened, advertised, handler, armed, sem,
                     ticks, loops>>
  BY DEF Sample, Step, At, startup, devices
<1>2. /\ ~TurnOver(tpc) /\ TurnOver(tpc)'
      /\ pc \in LoopStages /\ pc' \in LoopStages /\ InRound /\ InRound'
  BY <1>1 DEF TurnOver, LoopStages, InRound
<1>3. ASSUME NEW k \in Topics \ {tpc} PROVE TurnOver(k)' <=> TurnOver(k)
  <2>1. k # tpc /\ k \in {"imu", "mag", "gps"}
    BY DEF Topics
  <2> QED
    BY <2>1, <1>1 DEF TurnOver
<1>4. \A k \in Topics \ {tpc} : cnt'[k] = cnt[k] /\ sent'[k] = sent[k]
  BY DEF Sample, SensorInv, TypeOK
<1>5. IF cnt[tpc] >= Period[tpc]
        THEN cnt'[tpc] = 0 /\ sent'[tpc] = sent[tpc] + 1
        ELSE cnt'[tpc] = cnt[tpc] /\ sent'[tpc] = sent[tpc]
  BY DEF Sample, Due, SensorInv, TypeOK
<1>6. ASSUME NEW k \in Topics \ {tpc} PROVE Counted(k)'
  BY <1>1, <1>3, <1>4 DEF SensorInv, CountersInv, Counted, Period
<1>7. Counted(tpc)'
  <2> DEFINE p == Period[tpc]
             s == sent[tpc]
             c == cnt[tpc]
  <2>1. /\ p \in Nat \ {0} /\ s \in Nat /\ c \in Nat /\ loops \in Nat
        /\ c + s * p = loops + p /\ c > 0 /\ c <= p /\ s <= loops
    BY <1>2, Numbers, TopicNumbers DEF SensorInv, CountersInv, Counted
  <2>2. SUFFICES /\ cnt'[tpc] + sent'[tpc] * p = loops + p
                 /\ cnt'[tpc] < p /\ sent'[tpc] <= loops + 1
    BY <1>1, <1>2 DEF Counted, Period
  <2>3. CASE c >= p
    <3>1. c = p /\ cnt'[tpc] = 0 /\ sent'[tpc] = s + 1
      BY ONLY <2>1, <2>3, <1>5
    <3> HIDE DEF p, s, c
    <3>2. (s + 1) * p = s * p + p /\ s * p \in Nat
      BY ONLY <2>1
    <3> QED
      BY ONLY <3>1, <3>2, <2>1
  <2>4. CASE ~(c >= p)
    <3>1. cnt'[tpc] = c /\ sent'[tpc] = s
      BY <2>4, <1>5
    <3> HIDE DEF p, s, c
    <3> QED
      BY ONLY <3>1, <2>4, <2>1
  <2> QED
    BY <2>3, <2>4
<1>8. TypeOK'
  <2>1. ASSUME NEW k \in Topics
        PROVE  /\ cnt'[k] \in 0 .. INS_PERIOD + MAG_PERIOD + GPS_PERIOD
               /\ sent'[k] \in 0 .. MaxTicks
    <3>1. cnt'[k] \in Nat /\ sent'[k] \in Nat
      <4>1. CASE k = tpc
        BY <4>1, <1>5, TopicNumbers
      <4>2. CASE k # tpc
        BY <4>2, <1>4, TopicNumbers
      <4> QED
        BY <4>1, <4>2
    <3>2. Counted(k)' /\ loops' = loops
      BY <1>1, <1>6, <1>7
    <3>3. /\ Period[k] \in Nat /\ loops \in Nat
          /\ Period[k] <= INS_PERIOD + MAG_PERIOD + GPS_PERIOD
          /\ INS_PERIOD + MAG_PERIOD + GPS_PERIOD \in Nat
      BY TopicNumbers, Numbers
    <3>4. cnt'[k] <= Period[k] /\ sent'[k] <= loops + 1
      BY <3>1, <3>2, <3>3 DEF Counted, Period
    <3>5. loops + 1 <= MaxTicks /\ MaxTicks \in Nat
      BY <1>2, Numbers
    <3> QED
      BY ONLY <3>1, <3>3, <3>4, <3>5
  <2>2. /\ cnt' \in [Topics -> 0 .. INS_PERIOD + MAG_PERIOD + GPS_PERIOD]
        /\ sent' \in [Topics -> 0 .. MaxTicks]
    <3>1. /\ cnt' = [k \in Topics |-> cnt'[k]]
          /\ sent' = [k \in Topics |-> sent'[k]]
      BY DEF Sample, SensorInv, TypeOK
    <3> QED
      BY <2>1, <3>1
  <2> QED
    BY <1>1, <1>2, <2>2 DEF SensorInv, TypeOK, LoopStages, Stages
<1>9. TicksKept' /\ NotBegun' /\ SetupInv'
  BY <1>1, <1>2 DEF SensorInv, TicksKept, NotBegun, SetupInv, SetupStages, LoopStages
<1> QED
  BY <1>6, <1>7, <1>8, <1>9 DEF SensorInv, CountersInv

\* A round ends.
LEMMA CountKeeps ==
  ASSUME SensorInv, Count
  PROVE  SensorInv'
<1>1. /\ pc = "end" /\ pc' = "wait" /\ loops' = loops + 1
      /\ cnt' = [k \in Topics |-> cnt[k] + 1]
      /\ UNCHANGED <<down, created, running, opened, advertised, handler, armed, sem,
                     ticks, sent>>
  BY DEF Count, Step, At, startup, devices
<1>2. InRound /\ ~InRound' /\ \A k \in Topics : TurnOver(k) /\ ~TurnOver(k)'
  BY <1>1 DEF InRound, TurnOver, Topics
<1>3. \A k \in Topics : cnt[k] < Period[k]
  BY <1>2 DEF SensorInv, CountersInv, Counted
<1>4. CountersInv'
  <2> SUFFICES ASSUME NEW k \in Topics PROVE Counted(k)'
    BY DEF CountersInv
  <2> DEFINE sp == sent[k] * Period[k]
  <2>1. /\ cnt[k] + sp = loops + Period[k]
        /\ cnt[k] < Period[k] /\ sent[k] <= loops + 1
        /\ sp \in Nat /\ cnt[k] \in Nat /\ Period[k] \in Nat /\ loops \in Nat
    BY <1>2, Numbers, TopicNumbers DEF SensorInv, CountersInv, Counted
  <2> HIDE DEF sp
  <2>2. cnt[k] + 1 + sp = loops + 1 + Period[k] /\ cnt[k] + 1 > 0 /\ cnt[k] + 1 <= Period[k]
    BY ONLY <2>1
  <2>3. cnt'[k] = cnt[k] + 1 /\ sent'[k] = sent[k]
    BY <1>1
  <2> QED
    BY <1>1, <1>2, <2>1, <2>2, <2>3 DEF Counted, Period, sp
<1>5. TypeOK'
  <2>1. cnt' \in [Topics -> 0 .. INS_PERIOD + MAG_PERIOD + GPS_PERIOD]
    <3>1. ASSUME NEW k \in Topics
          PROVE  cnt[k] + 1 \in 0 .. INS_PERIOD + MAG_PERIOD + GPS_PERIOD
      <4>1. /\ cnt[k] \in Nat /\ cnt[k] < Period[k] /\ Period[k] \in Nat
            /\ Period[k] <= INS_PERIOD + MAG_PERIOD + GPS_PERIOD
            /\ INS_PERIOD + MAG_PERIOD + GPS_PERIOD \in Nat
        BY <1>3, TopicNumbers
      <4> QED
        BY ONLY <4>1
    <3> QED
      BY <1>1, <3>1
  <2>2. loops' \in 0 .. MaxTicks
    BY <1>1, <1>2, Numbers
  <2> QED
    BY <1>1, <2>1, <2>2 DEF SensorInv, TypeOK, Stages
<1>6. TicksKept'
  BY <1>1, <1>2, Numbers DEF TicksKept
<1>7. NotBegun' /\ SetupInv'
  BY <1>1 DEF SensorInv, NotBegun, SetupInv, SetupStages, LoopStages
<1> QED
  BY <1>4, <1>5, <1>6, <1>7 DEF SensorInv

\* Every step of main and of the sensor thread keeps its part of the invariant.
LEMMA SensorKeeps ==
  ASSUME SensorInv, Next
  PROVE  SensorInv'
<1>1. ASSUME NEW t \in Threads, CreateThread(t) \/ Begin(t) PROVE SensorInv'
  BY <1>1, MainKeeps
<1>2. CASE Startup \/ Signal
  BY <1>2, StartupKeeps, SignalKeeps
<1>3. CASE Wake \/ Count
  BY <1>3, WakeKeeps, CountKeeps
<1>4. CASE \/ Sample("imu", "loopImu", "loopMag")
           \/ Sample("mag", "loopMag", "loopGps")
           \/ Sample("gps", "loopGps", "end")
  BY <1>4, SampleKeeps DEF Topics
<1>5. CASE Crash("loopGps")
  BY <1>5, CrashKeeps
<1> QED
  BY <1>1, <1>2, <1>3, <1>4, <1>5 DEF Next, Loop, SampleGps

------------------------------------------------------------------------------
(* The process                                                              *)

\* The part of the state that is not the sensor thread's.
OthersType ==
  /\ server \in {"socket", "bind", "listen", "accept", "fork", "returned"}
  /\ listening \in BOOLEAN
  /\ conn \in [Clients -> Tcp!States]
  /\ fid \in {"NULL", "open", "closed"}
  /\ turn \in {"open", "write", "lost"}

\* Most that the logger's side of the table is not: devices, ports, the socket.
LEMMA OpenedBound ==
  ASSUME opened \subseteq Devices \cup {"ublox"}
  PROVE  Cardinality(opened) \in Nat /\ Cardinality(opened) <= 3
<1> DEFINE all == {"mems", "mag", "ublox"}
<1>1. IsFiniteSet(all) /\ Cardinality(all) <= 3
  <2>1. IsFiniteSet({"mems"}) /\ Cardinality({"mems"}) = 1
    BY FS_Singleton
  <2>2. IsFiniteSet({"mems"} \cup {"mag"}) /\ Cardinality({"mems"} \cup {"mag"}) <= 2
    BY <2>1, FS_AddElement
  <2>3. /\ IsFiniteSet(({"mems"} \cup {"mag"}) \cup {"ublox"})
        /\ Cardinality(({"mems"} \cup {"mag"}) \cup {"ublox"}) <= 3
    BY <2>2, FS_AddElement, FS_CardinalityType
  <2>4. all = ({"mems"} \cup {"mag"}) \cup {"ublox"}
    OBVIOUS
  <2> QED
    BY <2>3, <2>4
<1>2. opened \in SUBSET all
  BY DEF Devices
<1>3. IsFiniteSet(opened) /\ Cardinality(opened) <= Cardinality(all)
  BY <1>1, <1>2, FS_Subset
<1>4. Cardinality(opened) \in Nat /\ Cardinality(all) \in Nat
  BY <1>1, <1>3, FS_CardinalityType
<1> QED
  BY ONLY <1>1, <1>3, <1>4

\* The clients' descriptors can be counted, and more of them are never fewer.
LEMMA HeldGrows ==
  ASSUME NEW S, NEW T, S \subseteq T, T \subseteq Clients
  PROVE  /\ Cardinality(S) \in Nat /\ Cardinality(T) \in Nat
         /\ Cardinality(S) <= Cardinality(T)
<1>1. IsFiniteSet(T)
  BY Room, FS_Subset
<1>2. IsFiniteSet(S) /\ Cardinality(S) <= Cardinality(T)
  BY <1>1, FS_Subset
<1> QED
  BY <1>1, <1>2, FS_CardinalityType

\* A table that is full while the logger has no file is full of clients.
LEMMA FullOfClients ==
  ASSUME opened \subseteq Devices \cup {"ublox"}, fid # "open", Full
  PROVE  Cardinality(Tcp!Held) + Others > Descriptors
<1>1. One(listening) \in {0, 1} /\ One(fid = "open") = 0
  BY DEF One
<1>2. Cardinality(opened) \in Nat /\ Cardinality(opened) <= 3
  BY OpenedBound
<1>3. Tcp!Held \subseteq Clients
  BY DEF Tcp!Held
<1>4. Cardinality(Tcp!Held) \in Nat
  BY <1>3, HeldGrows
<1>5. /\ Descriptors \in Nat
      /\ 3 + Cardinality(opened) + One(listening) + Cardinality(Tcp!Held)
           + One(fid = "open") >= Descriptors
  BY Room DEF Full, InUse, Standard
<1>6. Cardinality(Tcp!Held) + 8 > Descriptors
  BY ONLY <1>1, <1>2, <1>4, <1>5
<1> QED
  BY <1>6 DEF Others, Standard

\* The server's steps leave its variables in their types and lose no client.
LEMMA TcpKeeps ==
  ASSUME OthersType, NEW c \in Clients,
         Tcp!Serve \/ Tcp!Connect(c) \/ Tcp!ChildEnd(c)
  PROVE  /\ server' \in {"socket", "bind", "listen", "accept", "fork", "returned"}
         /\ listening' \in BOOLEAN
         /\ conn' \in [Clients -> Tcp!States]
         /\ Tcp!Held \subseteq Tcp!Held'
<1> USE DEF OthersType, Tcp!Held, Tcp!States
<1>1. CASE Tcp!Socket \/ Tcp!Bind \/ Tcp!Listen
  BY <1>1 DEF Tcp!Socket, Tcp!Bind, Tcp!Listen
<1>2. ASSUME NEW k \in Clients, NEW from \in Tcp!States, NEW to \in Tcp!States \ {"away", "queued"},
             Tcp!To(k, from, to)
      PROVE  conn' \in [Clients -> Tcp!States] /\ Tcp!Held \subseteq Tcp!Held'
  BY <1>2 DEF Tcp!To
<1>3. ASSUME NEW k \in Clients, Tcp!Accept(k) \/ Tcp!Fork(k)
      PROVE  /\ server' \in {"accept", "fork"} /\ UNCHANGED listening
             /\ \E from \in Tcp!States, to \in Tcp!States \ {"away", "queued"} :
                  Tcp!To(k, from, to)
  BY <1>3 DEF Tcp!Accept, Tcp!Fork
<1>4. CASE \E k \in Clients : Tcp!Accept(k) \/ Tcp!Fork(k)
  BY <1>2, <1>3, <1>4
<1>5. CASE Tcp!Connect(c)
  BY <1>5 DEF Tcp!Connect, Tcp!To
<1>6. CASE Tcp!ChildEnd(c)
  BY <1>6, <1>2 DEF Tcp!ChildEnd
<1> QED
  BY <1>1, <1>4, <1>5, <1>6 DEF Tcp!Serve

\* What a step of the process is to its parts.
PartsStep ==
  /\ SensorInv'
  /\ OthersType'
  /\ Tcp!Held \subseteq Tcp!Held'
  /\ \/ UNCHANGED <<fid, turn>>
     \/ turn = "open" /\ turn' = "write" /\ (fid' = "NULL" => Full)
     \/ turn = "write" /\ fid' = "closed"
     \/ turn = "write" /\ turn' = "lost" /\ UNCHANGED fid

LEMMA StepOfParts ==
  ASSUME SensorInv, OthersType,
         SensorStep \/ ServerStep \/ ClientStep \/ LogStep \/ LogMisuse
  PROVE  PartsStep
<1>1. ASSUME UNCHANGED vars PROVE SensorInv'
  BY <1>1, ViewKeeps DEF vars, startup, devices, sensorView, SensorInv, TypeOK
<1>2. ASSUME UNCHANGED tcp PROVE Tcp!Held' = Tcp!Held
  BY <1>2 DEF tcp, Tcp!Held
<1>3. CASE SensorStep
  <2>1. SensorInv'
    BY <1>3, SensorKeeps DEF SensorStep, Next
  <2> QED
    BY <2>1, <1>2, <1>3 DEF SensorStep, PartsStep, OthersType, tcp, file
<1>4. CASE ServerStep \/ ClientStep
  <2>1. UNCHANGED <<vars, fid, turn>>
    BY <1>4 DEF ServerStep, ClientStep, file
  <2>2. /\ server' \in {"socket", "bind", "listen", "accept", "fork", "returned"}
        /\ listening' \in BOOLEAN
        /\ conn' \in [Clients -> Tcp!States]
        /\ Tcp!Held \subseteq Tcp!Held'
    <3>1. CASE ClientStep
      BY <3>1, TcpKeeps DEF ClientStep
    <3>2. CASE ServerStep /\ Clients # {}
      BY <3>2, TcpKeeps DEF ServerStep
    <3>3. CASE ServerStep /\ Clients = {}
      BY <3>3 DEF ServerStep, OthersType, Tcp!Serve, Tcp!Socket, Tcp!Bind, Tcp!Listen, Tcp!Held
    <3> QED
      BY <1>4, <3>1, <3>2, <3>3
  <2> QED
    BY <2>1, <2>2, <1>1 DEF PartsStep, OthersType
<1>5. CASE LogStep
  <2>1. UNCHANGED <<vars, tcp>>
    BY <1>5 DEF LogStep
  <2>2. /\ fid' \in {"NULL", "open", "closed"} /\ turn' \in {"open", "write", "lost"}
        /\ \/ turn = "open" /\ turn' = "write" /\ (fid' = "NULL" => Full)
           \/ turn = "write" /\ fid' = "closed"
    BY <1>5 DEF LogStep, Log!Open, Log!Rotate, Log!Stop, OthersType
  <2>3. UNCHANGED <<server, listening, conn>>
    BY <2>1 DEF tcp
  <2> QED
    BY <2>1, <2>2, <2>3, <1>1, <1>2 DEF PartsStep, OthersType
<1>6. CASE LogMisuse
  <2>1. /\ UNCHANGED <<sensorView, created, running, handler, armed, tcp>>
        /\ down' \in BOOLEAN
    BY <1>6 DEF LogMisuse, SensorInv, TypeOK, sensorView, devices
  <2>2. SensorInv'
    BY <2>1, ViewKeeps DEF SensorInv, TypeOK
  <2>3. turn = "write" /\ turn' = "lost" /\ UNCHANGED fid
    BY <1>6 DEF LogMisuse, Log!Misuse
  <2>4. UNCHANGED <<server, listening, conn>>
    BY <2>1 DEF tcp
  <2> QED
    BY <2>1, <2>2, <2>3, <2>4, <1>2 DEF PartsStep, OthersType
<1> QED
  BY <1>3, <1>4, <1>5, <1>6

------------------------------------------------------------------------------
(* The invariant                                                            *)

LEMMA PlatformInitially == PlatformInit => PlatformInv
<1> SUFFICES ASSUME PlatformInit PROVE PlatformInv
  OBVIOUS
<1> USE DEF PlatformInit, Init
<1>1. OthersType
  BY DEF OthersType, Tcp!Init, Tcp!States, Log!Init
<1>2. InUse <= Descriptors
  <2>1. Tcp!Held = {}
    BY DEF Tcp!Init, Tcp!Held
  <2>2. Cardinality(opened) = 0 /\ Cardinality(Tcp!Held) = 0
    BY <2>1, FS_EmptySet
  <2>3. One(listening) = 0 /\ One(fid = "open") = 0
    BY DEF One, Tcp!Init, Log!Init
  <2> QED
    BY <2>2, <2>3, Room DEF InUse, Standard
<1>3. TypeOK
  <2>1. cnt \in [Topics -> 0 .. INS_PERIOD + MAG_PERIOD + GPS_PERIOD]
    <3>1. \A tpc \in Topics : Period[tpc] \in 0 .. INS_PERIOD + MAG_PERIOD + GPS_PERIOD
      BY Periods, Given
    <3> QED
      BY <3>1 DEF Period, Topics
  <2>2. 0 \in 0 .. MaxTicks
    BY Given
  <2> QED
    BY <2>1, <2>2 DEF TypeOK, Stages
<1>4. TicksKept /\ NotBegun /\ SetupInv
  BY DEF TicksKept, InRound, NotBegun, SetupInv, LoopStages
<1>5. CountersInv
  <2> SUFFICES ASSUME NEW tpc \in Topics PROVE Counted(tpc)
    BY DEF CountersInv
  <2>1. ~TurnOver(tpc) /\ cnt[tpc] = Period[tpc] /\ sent[tpc] = 0 /\ loops = 0
    BY DEF TurnOver
  <2> QED
    BY <2>1, Periods DEF Counted
<1>6. FileInv
  BY DEF FileInv, FileOutlastsOthers, Log!Init
<1> QED
  BY <1>1, <1>2, <1>3, <1>4, <1>5, <1>6 DEF PlatformInv, PlatformTypeOK, SensorInv, OthersType

LEMMA PlatformStep == PlatformInv /\ [PlatformNext]_allVars => PlatformInv'
<1> SUFFICES ASSUME PlatformInv, [PlatformNext]_allVars PROVE PlatformInv'
  OBVIOUS
<1>1. SensorInv /\ OthersType /\ FileInv
  BY DEF PlatformInv, PlatformTypeOK, OthersType
<1>2. CASE PlatformNext
  <2>1. PartsStep
    BY <1>1, <1>2, StepOfParts DEF PlatformNext
  <2>2. InUse' <= Descriptors
    BY <1>2 DEF PlatformNext
  <2>3. FileInv'
    <3>1. turn' = "open" => fid' # "open"
      BY <1>1, <2>1 DEF FileInv, PartsStep
    <3>2. ASSUME fid' = "NULL", turn' # "open"
          PROVE  Cardinality(Tcp!Held') + Others > Descriptors
      <4>1. Cardinality(Tcp!Held) + Others > Descriptors
        <5>1. CASE turn # "open"
          BY <1>1, <2>1, <3>2, <5>1 DEF PartsStep, FileInv, FileOutlastsOthers
        <5>2. CASE turn = "open"
          <6>1. Full /\ fid # "open"
            BY <1>1, <2>1, <3>2, <5>2 DEF PartsStep, FileInv
          <6> QED
            BY <6>1, <1>1, FullOfClients DEF SensorInv, TypeOK
        <5> QED
          BY <5>1, <5>2
      <4>2. Tcp!Held \subseteq Tcp!Held' /\ Tcp!Held' \subseteq Clients
        BY <2>1 DEF PartsStep, Tcp!Held
      <4>3. /\ Cardinality(Tcp!Held) \in Nat /\ Cardinality(Tcp!Held') \in Nat
            /\ Cardinality(Tcp!Held) <= Cardinality(Tcp!Held')
        BY <4>2, HeldGrows
      <4> QED
        BY <4>1, <4>3, Room DEF Others, Standard
    <3> QED
      BY <3>1, <3>2 DEF FileInv, FileOutlastsOthers
  <2> QED
    BY <2>1, <2>2, <2>3 DEF PartsStep, OthersType, PlatformInv, PlatformTypeOK, SensorInv
<1>3. CASE UNCHANGED allVars
  <2>1. UNCHANGED <<vars, server, listening, conn, fid, turn>>
    BY <1>3 DEF allVars, tcp, file
  <2>2. SensorInv'
    BY <1>1, <2>1, ViewKeeps DEF vars, startup, devices, sensorView, SensorInv, TypeOK
  <2>3. opened' = opened /\ Tcp!Held' = Tcp!Held
    BY <2>1 DEF vars, devices, Tcp!Held
  <2>4. OthersType' /\ FileInv' /\ InUse' = InUse
    BY <1>1, <2>1, <2>3 DEF OthersType, FileInv, FileOutlastsOthers, InUse, One
  <2> QED
    BY <2>2, <2>4 DEF PlatformInv, PlatformTypeOK, OthersType, SensorInv
<1> QED
  BY <1>2, <1>3

\* The invariant holds in every state of the process.
THEOREM PlatformInvariant == PlatformSpec => []PlatformInv
  BY PlatformInitially, PlatformStep, PTL DEF PlatformSpec

------------------------------------------------------------------------------
(* What it says                                                             *)

\* Every variable holds a value of its kind, and the table is never exceeded.
THEOREM PlatformTyped == PlatformSpec => []PlatformTypeOK
<1>1. PlatformInv => PlatformTypeOK
  BY DEF PlatformInv
<1> QED
  BY <1>1, PlatformInvariant, PTL

\* Between rounds the counter of a topic says how far its period has come, so
\* that the publications are the rounds divided by the period, rounded up.
LEMMA Rate ==
  ASSUME NEW s \in Nat, NEW c \in Nat, NEW p \in Nat, NEW n \in Nat,
         c > 0, c <= p, c + s * p = n + p
  PROVE  s = (n + p - 1) \div p
<1>1. n + p - 1 \in Int /\ p > 0
  OBVIOUS
<1>2. PICK q \in Int, r \in Int : q = (n + p - 1) \div p /\ r = (n + p - 1) % p
  BY <1>1
<1>3. n + p - 1 = q * p + r /\ 0 <= r /\ r < p
  BY <1>1, <1>2
<1>4. s * p + (c - 1) = q * p + r /\ 0 <= c - 1 /\ c - 1 < p
  BY <1>3
<1>5. ASSUME NEW a \in Int, NEW b \in Int, NEW u \in Int, NEW v \in Int,
             a * p + u = b * p + v, 0 <= u, v < p, a > b
      PROVE  FALSE
  <2>1. (a - b) * p = v - u /\ v - u < p /\ a - b >= 1
    BY <1>5
  <2>2. (a - b) * p >= p
    BY <2>1, <1>1
  <2> QED
    BY <2>1, <2>2
<1>6. s = q
  BY <1>3, <1>4, <1>5
<1> QED
  BY <1>2, <1>6

\* Signals add up and topics keep their rates, whatever the other threads do.
THEOREM RoundsAreKept == PlatformSpec => []RoundsKept
<1>1. ASSUME PlatformInv PROVE RoundsKept
  <2>1. TicksKept
    BY <1>1 DEF PlatformInv, SensorInv
  <2>2. ASSUME pc = "wait", NEW tpc \in Topics
        PROVE  sent[tpc] = (loops + Period[tpc] - 1) \div Period[tpc]
    <3>1. /\ sent[tpc] \in Nat /\ cnt[tpc] \in Nat /\ Period[tpc] \in Nat /\ loops \in Nat
      BY <1>1, Numbers, TopicNumbers DEF PlatformInv
    <3>2. /\ cnt[tpc] > 0 /\ cnt[tpc] <= Period[tpc]
          /\ cnt[tpc] + sent[tpc] * Period[tpc] = loops + Period[tpc]
      BY <1>1, <2>2 DEF PlatformInv, SensorInv, CountersInv, Counted, TurnOver
    <3> QED
      BY <3>1, <3>2, Rate
  <2> QED
    BY <2>1, <2>2 DEF RoundsKept, RatesKept
<1>2. PlatformInv => RoundsKept
  BY <1>1
<1> QED
  BY <1>2, PlatformInvariant, PTL

\* Nothing is published before all topics were advertised and both devices
\* opened, whatever failed and whenever signals come.
THEOREM NothingBeforeAdvertised == PlatformSpec => []PublishedIsAdvertised
<1>1. PlatformInv => PublishedIsAdvertised
  <2> SUFFICES ASSUME PlatformInv, NEW tpc \in Topics, sent[tpc] > 0
               PROVE  advertised = Topics /\ Devices \subseteq opened
    BY DEF PublishedIsAdvertised
  <2>1. SensorInv
    BY DEF PlatformInv
  <2>2. pc \in LoopStages
    BY <2>1 DEF SensorInv, TypeOK, NotBegun, SetupStages
  <2> QED
    BY <2>1, <2>2 DEF SensorInv, TypeOK, SetupInv, Topics, Devices
<1> QED
  BY <1>1, PlatformInvariant, PTL

\* The logger is left without a file only by clients: all else that the threads
\* open, also when their start-up fails half way, leaves room for it.
THEOREM OnlyClientsTakeTheFile == PlatformSpec => []FileOutlastsOthers
<1>1. PlatformInv => FileOutlastsOthers
  BY DEF PlatformInv, FileInv
<1> QED
  BY <1>1, PlatformInvariant, PTL
==============================================================================

---------------------------- MODULE SensorCollect ----------------------------
(***************************************************************************)
(* The sensor thread of framework/sensor/sensor_collect.c, which main      *)
(* starts beside the TCP and logger threads: it opens the devices,         *)
(* advertises the topics, sets a timer and from then on runs sensor_loop   *)
(* once for every SIGUSR1.                                                 *)
(***************************************************************************)
EXTENDS Integers

CONSTANTS
  INS_PERIOD, MAG_PERIOD, GPS_PERIOD,   \* 1, 1 and 2 in the code
  MaxTicks      \* bound of the model: signals that are delivered

ASSUME Given ==
  /\ {INS_PERIOD, MAG_PERIOD, GPS_PERIOD} \subseteq Nat \ {0}
  /\ MaxTicks \in Nat

Topics  == {"imu", "mag", "gps"}
Devices == {"mems", "mag"}
Threads == {"sensor", "tcp", "logger"}
Period  == [imu |-> INS_PERIOD, mag |-> MAG_PERIOD, gps |-> GPS_PERIOD]

VARIABLES
  down,        \* the process has ended: main called exit, or it crashed
  created,     \* the threads main has created
  running,     \* those that have begun to run
  pc,          \* where the sensor thread stands
  opened,      \* the devices and the serial port it opened
  advertised,  \* the topics deu_advertise took
  handler,     \* sig_handler is installed
  armed,       \* the timer runs
  sem,         \* the value of sensor_sem
  cnt,         \* ins_cnt, mag_cnt, gps_cnt
  \* What follows is not in the code.
  ticks,       \* signals delivered since sem_init
  loops,       \* rounds of sensor_loop completed
  sent         \* publications of a topic

startup == <<down, created, running>>
devices == <<opened, advertised, handler, armed>>
vars    == <<startup, pc, devices, sem, cnt, ticks, loops, sent>>

Stages == {"install", "seminit", "mems", "magdev", "uart", "imu", "mag", "gps",
           "settime", "wait", "loopImu", "loopMag", "loopGps", "end", "returned"}

------------------------------------------------------------------------------
(* main                                                                     *)

\* pthread_create, in this order; when one fails main ends the process, and
\* with it the threads that run by then.
CreateThread(t) ==
  /\ ~down
  /\ t \notin created
  /\ t = "tcp" => "sensor" \in created
  /\ t = "logger" => "tcp" \in created
  /\ \/ created' = created \cup {t} /\ UNCHANGED down
     \/ down' = TRUE /\ UNCHANGED created
  /\ UNCHANGED <<running, pc, devices, sem, cnt, sent, ticks, loops>>

\* A thread that was created is scheduled for the first time.
Begin(t) ==
  /\ ~down
  /\ t \in created \ running
  /\ running' = running \cup {t}
  /\ UNCHANGED <<down, created, pc, devices, sem, cnt, sent, ticks, loops>>

------------------------------------------------------------------------------
(* sensor_collect_func, up to its loop                                      *)

At(from) == ~down /\ "sensor" \in running /\ pc = from

Step(from, to) == At(from) /\ pc' = to

\* A pointer that is no address is followed, and the process dies.
Crash(from) ==
  /\ At(from)
  /\ down' = TRUE
  /\ UNCHANGED <<created, running, pc, devices, sem, cnt, sent, ticks, loops>>

\* signal
Install ==
  /\ Step("install", "seminit")
  /\ handler' = TRUE
  /\ UNCHANGED <<startup, opened, advertised, armed, sem, cnt, sent, ticks, loops>>

\* sem_init, which forgets what was posted so far.
InitSem ==
  /\ Step("seminit", "mems")
  /\ sem' = 0 /\ ticks' = 0
  /\ UNCHANGED <<startup, devices, cnt, sent, loops>>

OpenDevice(from, dev, to) ==
  /\ \/ Step(from, to) /\ opened' = opened \cup {dev}
     \/ Step(from, "returned") /\ UNCHANGED opened
  /\ UNCHANGED <<startup, advertised, handler, armed, sem, cnt, sent, ticks, loops>>

\* Slip: what is no terminal is opened a second time.
InitUartRetry ==
  \/ Crash("uart")
  \/ /\ Step("uart", "imu")
     /\ opened' \in {opened, opened \cup {"ublox"}, opened \cup {"ublox", "ubloxAgain"}}
     /\ UNCHANGED <<startup, advertised, handler, armed, sem, cnt, sent, ticks, loops>>

\* uart_deviece_init is given a null pointer, reads through it and writes
\* through one it never set, which is undefined: the process dies, or goes on.
\* It opens the first port (uart_open, which keeps the descriptor of what turns
\* out to be no terminal) and always takes its setting for a failure.  The
\* pointer that comes back is not looked at.
InitUart ==
  \/ Crash("uart")
  \/ /\ Step("uart", "imu")
     /\ opened' \in {opened, opened \cup {"ublox"}}
     /\ UNCHANGED <<startup, advertised, handler, armed, sem, cnt, sent, ticks, loops>>

\* Slip: the thread goes on when deu_advertise fails.
AdvertiseAnyway(tpc, to) ==
  /\ Step(tpc, to)
  /\ advertised' \in {advertised, advertised \cup {tpc}}
  /\ UNCHANGED <<startup, opened, handler, armed, sem, cnt, sent, ticks, loops>>

\* deu_advertise, or its failure and the end of the thread.
Advertise(tpc, to) ==
  /\ \/ Step(tpc, to) /\ advertised' = advertised \cup {tpc}
     \/ Step(tpc, "returned") /\ UNCHANGED advertised
  /\ UNCHANGED <<startup, opened, handler, armed, sem, cnt, sent, ticks, loops>>

\* timer_settime with an it_value of zero, which disarms the timer.
SetTimer ==
  /\ Step("settime", "wait")
  /\ armed' = FALSE
  /\ UNCHANGED <<startup, opened, advertised, handler, sem, cnt, sent, ticks, loops>>

------------------------------------------------------------------------------
(* sensor_loop                                                              *)

\* Slip: a post while one is pending is dropped.
SignalOnce ==
  /\ ~down /\ handler
  /\ ticks < MaxTicks
  /\ ticks' = ticks + 1
  /\ sem' = 1
  /\ UNCHANGED <<startup, pc, devices, cnt, sent, loops>>

\* SIGUSR1 comes, from the timer or from outside, and sig_handler posts.
Signal ==
  /\ ~down /\ handler
  /\ ticks < MaxTicks
  /\ ticks' = ticks + 1
  /\ sem' = sem + 1
  /\ UNCHANGED <<startup, pc, devices, cnt, sent, loops>>

\* sem_wait returns 0.  (A signal that interrupts it makes it return -1, and
\* it is called again.)
Wake ==
  /\ sem > 0
  /\ Step("wait", "loopImu")
  /\ sem' = sem - 1
  /\ UNCHANGED <<startup, devices, cnt, sent, ticks, loops>>

Due(tpc) == cnt[tpc] >= Period[tpc]

\* Slip: the counter is not reset.
SampleAlways(tpc, from, to) ==
  /\ Step(from, to)
  /\ IF Due(tpc) THEN sent' = [sent EXCEPT ![tpc] = @ + 1] ELSE UNCHANGED sent
  /\ UNCHANGED <<startup, devices, sem, cnt, ticks, loops>>

\* A topic that is due is read and published.  Neither the result of read nor
\* that of ublox_analys is looked at: after a failure the leftovers of the
\* buffer or the sample of an earlier frame are published all the same, so
\* that success and failure are one step here.
Sample(tpc, from, to) ==
  /\ Step(from, to)
  /\ IF Due(tpc)
       THEN cnt' = [cnt EXCEPT ![tpc] = 0] /\ sent' = [sent EXCEPT ![tpc] = @ + 1]
       ELSE UNCHANGED <<cnt, sent>>
  /\ UNCHANGED <<startup, devices, sem, ticks, loops>>

\* The GPS is read through fd_serial, which is (int *)(-1) after
\* uart_deviece_init: the process dies, or goes on.
SampleGps ==
  \/ Due("gps") /\ Crash("loopGps")
  \/ Sample("gps", "loopGps", "end")

\* Slip: the count of the GPS is forgotten.
CountTwo ==
  /\ Step("end", "wait")
  /\ cnt' = [tpc \in Topics |-> IF tpc = "gps" THEN cnt[tpc] ELSE cnt[tpc] + 1]
  /\ loops' = loops + 1
  /\ UNCHANGED <<startup, devices, sem, sent, ticks>>

Count ==
  /\ Step("end", "wait")
  /\ cnt' = [tpc \in Topics |-> cnt[tpc] + 1]
  /\ loops' = loops + 1
  /\ UNCHANGED <<startup, devices, sem, sent, ticks>>

------------------------------------------------------------------------------
Init ==
  /\ down = FALSE /\ created = {} /\ running = {}
  /\ pc = "install"
  /\ opened = {} /\ advertised = {} /\ handler = FALSE /\ armed = FALSE
  /\ sem = 0
  /\ cnt = Period
  /\ ticks = 0 /\ loops = 0
  /\ sent = [tpc \in Topics |-> 0]

Startup ==
  \/ Install \/ InitSem
  \/ OpenDevice("mems", "mems", "magdev") \/ OpenDevice("magdev", "mag", "uart")
  \/ InitUart
  \/ Advertise("imu", "mag") \/ Advertise("mag", "gps") \/ Advertise("gps", "settime")
  \/ SetTimer

Loop ==
  \/ Wake
  \/ Sample("imu", "loopImu", "loopMag")
  \/ Sample("mag", "loopMag", "loopGps")
  \/ SampleGps
  \/ Count

Next ==
  \/ \E t \in Threads : CreateThread(t) \/ Begin(t)
  \/ Startup \/ Loop \/ Signal

Spec == Init /\ [][Next]_vars

\* The sensor thread is scheduled in the end, and its reads return: the
\* drivers' do, and uart_recv gives up after five seconds.
FairSpec == Spec /\ WF_vars(Loop)

------------------------------------------------------------------------------
(* Properties                                                               *)

\* The type of every variable.
TypeOK ==
  /\ down \in BOOLEAN
  /\ running \subseteq created /\ created \subseteq Threads
  /\ pc \in Stages
  /\ opened \subseteq Devices \cup {"ublox"} /\ advertised \subseteq Topics
  /\ handler \in BOOLEAN /\ armed \in BOOLEAN
  /\ sem \in 0 .. MaxTicks /\ ticks \in 0 .. MaxTicks /\ loops \in 0 .. MaxTicks
  /\ cnt \in [Topics -> 0 .. INS_PERIOD + MAG_PERIOD + GPS_PERIOD]
  /\ sent \in [Topics -> 0 .. MaxTicks]

\* No signal after sem_init is lost or served twice, whether it comes while the thread waits
\* or in the middle of a round.
InRound == pc \in {"loopImu", "loopMag", "loopGps", "end"}
TicksKept == ticks = sem + loops + (IF InRound THEN 1 ELSE 0)

\* In the first n rounds a topic of period p is published in the rounds 1, p+1,
\* 2p+1, and so on.
RatesKept ==
  pc = "wait" => \A tpc \in Topics :
    sent[tpc] = (loops + Period[tpc] - 1) \div Period[tpc]

\* Nothing is published before all topics were advertised and both devices
\* opened, whatever failed and whenever signals come.
PublishedIsAdvertised ==
  (\E tpc \in Topics : sent[tpc] > 0) => advertised = Topics /\ Devices \subseteq opened

\* Every signal is served in the end once the thread has reached its loop,
\* unless the process ends.
TicksServed ==
  \A n \in 1 .. MaxTicks : pc = "wait" /\ ticks = n ~> loops >= n \/ down

------------------------------------------------------------------------------
(* A property the code's own words promise and the code does not keep.       *)

\* Setting the timer starts it (sensor_collect.c:157).
TimerRuns == pc = "wait" => armed
==============================================================================

# Verification of the USV platform

TLA+ models, model-checking runs and machine-checked proofs for the software of
the unmanned surface vehicle in this repository: the user-space program under
`src/project` and the kernel drivers under `src/sensor_device`.

Contents: [the system](#the-system), [modules and code](#modules-and-code),
[runs](#runs), [fairness](#fairness), [proofs](#proofs),
[where code and words part](#where-code-and-words-part),
[abstractions](#abstractions), [not modelled](#not-modelled), [plan](#plan).

## The system

One process with three threads that `main` starts, and two more that are exported
and not started: `log_ringbuf_entry`, which takes samples from the exchange to
the logger's ring, and `user_test_func`, which reads the optical IMU. Below it two
kernel drivers; beside it the children the TCP server forks.

| part | state | operations | talks to |
| --- | --- | --- | --- |
| Data exchange `framework/uDEU` | `deu_mutex`, the topic list, per topic: data block, `published`, list of nodes; per node: `renewal`, semaphore, callback | `deu_advertise`, `deu_publish`, `deu_subscribe`, `deu_poll_sync`, `deu_poll` | called by every thread; runs callbacks in the publisher's and the subscriber's thread |
| Ring buffer `framework/ringbuffer` | pool, two 15-bit indices, two mirror bits | create, init, put, get, reset, destroy, status, lengths | used by the logger, from two threads, without a lock |
| Logger `framework/log` | file pointer, `_log_status` (flags and loss counters), ring, static write counter | `buffer_log`, `sd_log_start`, `sd_log_write`, `logger_entry`, `log_stop`, shell commands | reads the exchange, writes files |
| GPS parser `framework/ublox` | parser state, two sums, lengths, buffer, `gps_sample_new` | `ublox_analys`, `_ubx_parse_char`, `_publish_gps_msg` | called by the sensor thread, calls `uart_recv`, allocates a buffer for each call |
| Optical IMU parser `framework/fog_imu040b` | parser state, sum, index, buffer, `imu040_sample` | `imu040_parse_char`, `publish_msg` | called by the test thread, which `main` does not start |
| Sensor thread `framework/sensor` | semaphore, timer, three counters, file descriptors | start-up, `sig_handler`, `sensor_loop` | drivers, serial port, GPS parser, exchange |
| Start-up `application/main.c` | threads created | `main` | creates sensor, TCP and logger thread |
| Serial port `driver/uart` | file descriptors, terminal settings | open, set, receive with a five-second `select` | called by the sensor thread and the test thread |
| TCP server `framework/tcp/server.c` | listening socket, one descriptor and one child process for each client | `tcp_server_func` | takes descriptors from the table that sensors and logger use too |
| TCP client `framework/tcp/client.c` | a socket | `tcp_client_func` | called by nobody |
| Kernel drivers `sensor_device` | number, cdev, class, device node, bus client, select pins; the chips' registers | probe, open, read, release, remove | the kernel; opened and read by the sensor thread and the sample programs |

What makes each part correct, and what makes that hard:

* **Exchange.** A reader gets the newest sample, whole; a publication is never
  passed over; a reader that waits in `sem_wait` is woken. Hard: publishing is a
  walk with a `sem_getvalue` and a `sem_post` that are two calls; `deu_poll` drops
  the mutex between its test and its copy; `deu_poll_sync` waits outside the
  mutex; callbacks run outside it; `link_size` and `published` are tested
  outside it; `deu_advertise` has two critical sections.
* **Ring.** A bounded queue of bytes. Hard: equal indices mean full or empty,
  and only the mirrors tell; in two threads, mirror and index are two stores.
* **Logger.** What is put in the ring reaches the file, once, and a file that is
  closed is complete. Hard: the snapshot of the indices outlives its truth,
  files change while records come, commands come at any time.
* **Parsers.** Samples come from frames, and frames become samples. Hard: resets
  of five pieces of state at six places, sums that wrap.
* **Serial port.** A call returns, what it allocated is given back, and how the
  bytes are cut into reads does not matter. Hard: a timeout, a signal or a failure may
  fall between any two bytes of a frame.
* **Sensor thread.** One round per signal, each topic at its rate, nothing
  published before it is advertised. Hard: signals come in the middle of a
  round, any step of the start-up may fail, threads begin in any order.
* **The process.** Every client is served and the logger has a file. Hard: threads
  that share no data share the descriptor table and the end of the process.
* **Kernel drivers.** What probe took remove gives back; a bound device is complete;
  a transfer reaches its chip, and a program is given what it read. Hard: any kernel
  call may fail, the driver is bound again later and then sets pins that programs are
  using, programs come while probe runs, and nothing is locked.

`PROJECT.json` lists the hazards one by one, with the line where each bites and
the properties that would catch it. Where the code itself runs into the hazard, and
nothing in the repository says otherwise, or where a property makes an exception of
it, no property is named and a note says what the model does there.

## Modules and code

| module | models | reads as |
| --- | --- | --- |
| `Mailbox` | what a topic promises its readers | abstract specification: the newest sample, published in one step, read in one step |
| `DeuExchange` | `deu_publish`, `deu_subscribe`, `deu_poll_sync`, `deu_poll` on one topic | one action per lock, word copied, node visited, semaphore call; threads as constants |
| `DeuExchangeProofs` | | invariants and refinement of `Mailbox`, proved |
| `DeuRegistry` | `deu_advertise` | the list as cells and next fields, two critical sections, failing allocations |
| `DeuRegistryProofs` | | what the list keeps, proved |
| `BoundedFifo` | what the ring promises | abstract specification: a queue of at most `Size` bytes |
| `RingBuffer` | all of `ringbuffer.c`, one thread at a time | one action per branch of put and get |
| `RingBufferProofs` | | invariants and refinement of `BoundedFifo`, proved |
| `RingBufferShared` | put in one thread, get in another | one action per access to what the other thread writes |
| `RingBufferSharedProofs` | | how long two threads keep the ring sound, proved |
| `ByteSums` | | the sums a frame must end with, as functions of its bytes |
| `UbxParser`, `UbxWatch` | `_ubx_parse_char` and what it calls; an observer of the byte stream | one action per parser state, for one byte |
| `Imu040Parser` | `imu040_parse_char` and what it calls | the same |
| `SerialPort` | `uart_recv` and its two callers, `ublox_analys` and `user_test_func` | one action per system call and outcome; the parsers are instances in it |
| `SerialPortProofs` | | the reader, both parsers and their sums, proved |
| `LogFile` | what the rest of the process sees of the logger | abstract specification: a file that is open, closed or missing |
| `Logger` | `loop_logger.c` | a program counter for the logger thread and for the shell, a stage for `buffer_log`; one action per call of the ring and per access to what the three share |
| `LoggerProofs` | | length, draining and refinement of `LogFile`, proved |
| `SensorCollect` | `main`, `sensor_collect_func`, `sensor_loop`, `sig_handler` | a program counter for the thread; signals at any moment |
| `TcpServer` | `tcp_server_func`, its clients and children | one action per system call; a connection has a stage of its own |
| `Platform` | the process | `SensorCollect`, `TcpServer` and `LogFile` with one descriptor table and one end |
| `PlatformProofs` | | rounds, start-up and descriptors, proved |
| `CharDevice` | probe, open, release and remove of both drivers | one action per kernel call that may fail or that programs can see, the look-up and the setting of each select pin among them |
| `SensorDriver` | the drivers in full: set-up of the chips, SPI transfers, both reads | extends `CharDevice`; one action per pin or message; the set-up is a set of transfers, each with its name, chip and successors; the HMC5883 measures by itself once it has heard a trigger |
| `SensorDriverProofs` | | registration and release, the bus, the set-up and what is read, proved |
| `MC...` | | constants for TLC |

Definitions marked `Slip:` are plausible mistakes. No specification uses them;
each is put in the place of the definition after it to see that a property
notices.

How state corresponds: variables carry the names of the code (`renewal`,
`parse_state`, `is_logging`, `can_be_stopped`, ...). Where they do not: `link` in
`DeuExchange` is the list from `tpc->link_head`, `cur` the local variable `node`;
`held`/`next` in `DeuRegistry` are the fields of a `TopicList` cell; `ri, rm, wi,
wm` are the four bit fields of the ring; `held` in `Logger` is the number of
bytes in the ring. History variables are declared under "not in the code".

How parts compose: `Logger` uses the ring as `BoundedFifo` describes it, which
`RingBufferProofs` shows the ring to be for one thread, and `RingBufferShared`
shows up to what point it is for two. `Logger` in turn implements `LogFile`
(`IsLogFile`), and `Platform` runs `LogFile` beside the sensor thread and the
server: what they do to one another they do through the descriptor table and by
ending the process. `SensorCollect` and `Logger` take `deu_publish` and
`deu_poll_sync` as single steps; `DeuExchange` says what they are worth. `SerialPort`
runs each parser behind the calls that feed it; in `SensorCollect` all this is
one step, since its variables belong to the sensor thread, and `Returns` shows
that the step ends. A `read` of a driver is one step of `SensorCollect` too, and
`SensorDriver` says what it delivers.

## Runs

| run | asks | bounds, and why they are enough |
| --- | --- | --- |
| `deu_exchange` | `SemBinary`, `NoLostWakeup`, `NoMissedSample`, `NoTornSample`, `CallbacksCaughtUp`, `PollBringsNews`, refinement `IsMailbox`, `Delivered` | two publishers and one node of each kind, so that every pair of operations meets; two samples, since a reader tells only "new" from "seen"; a link limit of two for three nodes, so that one is refused, or comes in by the race; `next` either NULL or not. The safety part is proved for any number |
| `deu_registry` | `ListWhole`, `LeakMeansError`, `ClashesAreNeighbours`, `FirstTopicStays` | two threads, four calls, three topics of which two share a name: a walk can be overtaken by three appends. Proved for any number |
| `deu_lost_topic` | `AppendsOnly`, violated | two threads, three calls |
| `ring_buffer` | `MirrorInv`, refinement `IsFifo` | three bytes, every block and request up to four, two byte values; the indices have room for four values, one more than the pool uses. Proved for any size |
| `ring_shared` | `SoundUntilCaught` | four bytes; lengths 1, 2 and 4 reach both branches, full, empty and part-full at every index; byte numbers repeat after five, so a slot never holds the right number by luck of a lap. Proved for any size |
| `serial` | `PublishedIsFramed`, `FrameIsPublished`, `BufferHeld`, `Returns` | for the GPS four byte values and payloads of two bytes, for the IMU three and three: the header and sync bytes differ, can all occur in a payload and as sums, and the sums wrap; reads of up to two bytes, so that a frame is cut everywhere; buffers are counted up to three, two more than are ever in use without a leak. Proved, but for `Returns`, for any byte range and payload |
| `ubx_resync` | `NewestFramePublished`, violated | the bytes of the GPS, with an observer |
| `logger` | `LengthRightWhenQuiet`, `DrainedBeforeClose`, `Drains`, refinement `IsLogFile` | a ring of three bytes and blocks of two, so that a write takes a full block, a short one, or one after the other, while more may be put, and the data lies across the end of the pool (a ring of four passed too, but takes longer than a run should); every access of the three threads to what they share is a step; a new file every second write; start and stop at any time; bytes of two values, so that the miscounted losses reach the flags |
| `logger_length` | `LengthRight`, violated | a ring of five bytes, blocks of three, no commands |
| `platform` | `RoundsKept`, `PublishedIsAdvertised`, `FileOutlastsOthers`, `TicksServed`, `ClientsServed` | three signals: the GPS, read every second round, is read in the first and the third; periods as in the code; a table of ten, in which two clients find room beside all the threads open and a third does not, so that the table is full or is not, by the order of things |
| `sensor_timer` | `TimerRuns`, violated | |
| `drivers` | `BoundIsLive`, `GivesBack`, `AloneReachesOwn`, `ReadyWhenBound`, `FetchIsOwn` | two programs, which are alike, hence the symmetry; three bindings, so that the second finds what the first left and the third what came of that; the registers' measurements are numbered modulo three, so that what two programs hold and what the registers hold can all differ |

Every passing run also checks its `TypeOK` where there is one. Deadlock is not
checked where a thread really stops: a bounded number of samples, calls or
signals, a subscription refused, the sensor thread returned, undefined behaviour
reached. The two rings never stop, and there it is checked
(`ring_shared` stops at an unsound length, which is what it looks for).

What the properties say, the less obvious ones:

* `SemBinary`, `NoLostWakeup`: the two-step "post if zero" is safe without a lock
  around the waiter: between the steps only a waiter can change the semaphore,
  and it only lowers it, so the count stays at most one, while a node that is
  marked always has a post, or a publisher about to post. The price is that
  a waiter may be woken once for a sample it already read.
* `NoMissedSample`: with the mutex free, a clear `renewal` means the node has the
  newest sample, although nodes are appended while a walk is between two
  publications and readers clear flags between two walks.
* `CallbacksCaughtUp`: when no publication is under way every callback node has
  been called with the newest sample, although `published` is tested and the
  callbacks are walked without the mutex. (During a publication a callback may
  be handed a half-copied sample.)
* `FirstTopicStays`: the test of `cp->tpc_t` that the author questions at
  `uDEU.c:41` is needed.
* `ClashesAreNeighbours`: the loop that compares names ends one cell early;
  duplicates can be registered, but only next to each other.
* `SoundUntilCaught`: the unlocked ring is right until one thread reads the
  other's mirror between the turn of the mirror and the store of the index, or
  re-reads the indices in `ringbuffer_data_len` around such a store.
* `FrameIsPublished`: nothing a given-up frame leaves behind can spoil the next.
* `DrainedBeforeClose`, `Drains`: a write takes all it found before it
  can close the file, and reaches that point however fast records come.
* `LengthRightWhenQuiet`: the two indices are copied one after the other while records are
  put, and the short block is taken later still; the length worked out from the
  copies is right when the block is all they saw, also across the end of the pool. A
  start by the shell is excepted, from before the first copy to the write: its
  `ringbuffer_init` takes no mutex, and in between it does make the length wrong.
* `IsLogFile`: however writes, stops and new files interleave, the file goes
  through open, closed and open again as a file does, except by a shell
  command; and a thread that writes to a file that is not open is lost for good.
* `BufferHeld`: `ublox_analys` never parses a buffer it has given back, and keeps one
  only after a call that failed. (It does keep that one: see below.)
* `FrameIsPublished` in `SerialPort`: the parser is not disturbed by a call that times
  out between two bytes of a frame, nor by a signal that ends `select`.
* `RoundsKept`: signals sum up, whenever they come, and the counters give every
  topic its exact rate from the first round on.
* `FileOutlastsOthers`: what the threads open among themselves never costs the
  logger its file, whatever failed half way; clients, whose descriptors the
  server keeps, do.
* `ClientsServed`: with the table not full, a client waits for no other client.
* `BoundIsLive`: a null pointer can be followed only by a program that comes while
  probe runs, or after a probe that failed. `GivesBack` has the same two cases
  the other way round: what is left over, and who unregisters whose number.
* `AloneReachesOwn`: the pins have no lock, but a transfer that meets no other finds
  them as it needs them, whatever went before; a disturbance does not outlast the
  transfers that met. It is about a driver that found both pins and made them outputs
  (`Wired`), and a pin that a probe sets high under a transfer counts as a disturbance:
  a later binding does that to the programs that still read.
* `ReadyWhenBound`: each reset of a chip comes before the settings it would undo, at the
  first binding and at every later one, of a driver that is `Wired`.
* `FetchIsOwn`: the magnetometer's values go from the bus to the program through a global
  that all programs share, axis by axis; a read that meets no other hands out, in all
  axes, the values it took from the registers. It promises no more: those
  may be of an old measurement, since nobody waits for the one that was triggered, and
  a program whose transfer failed is given what the global held.

## Fairness

* `DeuExchange`: a thread that is inside `deu_publish` or `deu_subscribe`, and a
  reader that is able to go on, is scheduled in the end (weak fairness per
  thread). Nobody has to publish or subscribe. Waiting for the mutex needs
  no strong fairness here: the number of samples is bounded, so the mutex is
  free for good in the end.
* `Logger`: the logger thread runs, and `buffer_log` finishes a record it began.
  It need not begin one, the shell need not give commands, and no fairness
  is asked of `fopen`.
* `SerialPort`: a reader inside a call is scheduled, and `select` returns, after five
  seconds if not earlier: weak fairness of the steps of a call together. Nobody has to
  begin a call, and which outcome a system call has is left open.
* `Platform`: the sensor thread runs and its reads return: the drivers do not block,
  and `uart_recv` gives up after five seconds (`Returns`). The server runs and is
  never held up by a child. Signals need not come, clients need not connect,
  children need not end, and nothing is asked of the logger. `TicksServed` and
  `ClientsServed` are claimed only as long as the process lives: main ends it when it
  cannot create a thread, and the serial port's pointers or the logger's file may
  (below).
* `SensorDriver` has no liveness property: nothing in it waits.

## Proofs

Every safety property that a run checks is a theorem, checked by TLAPS for all values
of the constants that meet the named assumptions. Eight modules hold the proofs, one
for each component. Hardly any property is inductive as it stands; below is what each needs
beside itself.

**Exchange.** Assumed: `NodeKinds` (a node has a semaphore, a callback or neither,
`NULL` is no thread) and `Bounds` (the bounds are numbers). The properties are not
inductive. `IInv` adds what the actions need of one another:

* `LockInv`: who holds the mutex is inside the critical section, so two walks
  never mark at the same time;
* `CursorInv`, `ListInv`: the walk stands on a node of the list, nodes are on the
  list once, unlinked ones are untouched;
* `SemInv`: the 0 that `sem_getvalue` returned is still 0 when it is acted on;
* `DataInv`: the block is whole unless a copy is in progress, and holds the
  newest sample;
* `SeenInv`: no reader is ahead, and a marked node has not seen the newest sample;
* `FreshInv`: a node with a clear flag is up to date *or has still to be marked by
  the walk in progress*, which is what carries `NoMissedSample` through a walk.

There is one lemma per action and in it one step per conjunct. From `Inductive`
follow `TypeCorrect`, `SemaphoreIsBinary`, `NoWakeupLost`, `NoSampleTorn`,
`NoSampleMissed`, `PollIsFresh`, and `MailboxImplemented`: `PubUnlock` is the
abstract publication, `SubLink` the joining, `PollCopy` the reading, every other
step is invisible.

`CallbacksCatchUp` has an invariant of its own on top of `IInv`. `CalledInv`: a callback node
whose subscription has returned was called with the newest sample, or a publisher has
its walk of the callbacks, as far as this node, still to do. `UnpublishedInv`: as long as
`published` is clear nobody was called, and at most the publisher that has the mutex has
begun. So a subscriber that tests `published` without the mutex and finds it clear does
not call back, and the publisher he was too early for will.

**Topic list.** Assumed: `Given` (`NULL` is no thread, topic or cell). The list is
defined as the least set of cells that a walk from the head cannot leave, which is
what makes it reasoned about without an induction over its length: to bound it one
shows a set that cannot be left, to find a cell on it one shows the cell in all of
them. `ListInv` adds to `ListWhole` that successors have larger numbers and skip no
cell of the list (`Ordered`), which survives a cut at any place, and what a thread knows
when it comes back to append: it has compared all cells before the one it
ended at, and nothing is ever put among them (`Walked`). From these follow
`ClashesOnlyBetweenNeighbours` and `ListStaysWhole`; `FirstTopicIsKept` is an
action property under the same invariant; so is `LeaksAreErrors`. That `AppendsOnly` fails is
no obstacle: the lost cell is not on the list. When it fails is a theorem too:
`LostOnlyWhenOvertaken` says that a topic leaves the list only while some thread
is about to link after a cell that has a successor by now, and `OneThreadLosesNone` that
it therefore holds where one thread advertises. In this program one does
(`sensor_collect.c:125-145`), so the lost topic is a defect of the function and not of
its present use.

**Ring.** Assumed: `SizeFits` (the size is positive and fits the index bit
fields; `ringbuffer_init` asserts only the first, the one caller passes 16384)
and `Inputs`. `MirrorInv` ties the mirrors to the wraps, and `QueueImplemented`
shows, branch by branch, that the bytes between the indices are the queue, also
where a put or get crosses the end of the pool.

**Ring between two threads.** Assumed: `Given` (a positive size, positive lengths). `Sound`
is about two lengths and the bytes taken so far, and whether the next length is
right depends on much else. `SharedInv` reads the mirrors as they will be when the index
that goes with them is stored (`RdM`, `WrM`); then the indices are always as far apart as
what is unread (`Between`), also in the middle of a wrap. It knows the bytes copied and not
yet counted (`Pending`), and what remains true of what either thread has read of the
other's index while that goes on moving (`PutKnows`, `GetKnows`). All this holds only until a
thread reads a mirror in the middle of a wrap, so the inductive formula is `~caught => SharedInv`, and
`caught` never becomes false again.

**Serial port.** Assumed: `Given` (ranges and lengths are positive, the header's bytes
are bytes, the payload's length fits the two bytes that carry it). It is proved in two layers.
`SerialInv` has the reader's bookkeeping, and for each parser how many bytes of a frame
each state stands for, and that these are the header and, in its place, the buffer's content
(`GpsFollows`, `ImuFollows`): from it `SerialTyped` (no store outside a buffer) and
`BufferIsHeld`. On it rests `FramedInvariant`: the running sums are the sums of the bytes
kept from the class on, as `ByteSums` defines them, and in the last state the first of
them has been compared. One lemma carries it (`SumsGoOn`): a byte more, and both sums
modulo the range become what `_ubx_checksum` computes from the sums before. It rests on an
induction over the length of a sequence (`Induction` states the principle with a set in the
place of a predicate and derives it from the well-foundedness of `<`) and on the
remainder of a sum being the remainder of the remainders' sum. `PublishedSamplesAreFramed`
and `FramesArePublished` follow: a parser returns to rest with a frame that it publishes,
or with bytes that no more bytes can make one.

**Logger.** Assumed: `Given` (sizes are positive, a block fits the ring, a byte has
more than one value). `LoggerInv` adds that the bytes counted when a write began are still in the
ring while it runs (`Counted`; `buffer_log` only adds, and only a start empties it), what
was tested of the ring and is still so when a block is taken (`Taken`), and that
the two copies of the indices are as far apart as what the second saw, around the end of the
pool or not (`Snapshot`, `Apart`): between the copies the read index stands still, since no
one else takes. All of it but the counts has an exception for a start by the shell since the first
copy, which `restarted` records and `ShellInv` keeps true as long as the start is under way. The
length of a block that is all the copies saw follows. With it
`ImplementsLogFile` goes action by action: every step opens the file, closes it, loses it or
leaves `LogFile` as it is.

**Process.** Assumed: `Given` (periods are positive), `Room` (clients are finitely many, the
table has room for the three standard streams) and `NoShell`. `RoundsAreKept` needs the exact
relation between a counter, its period, the rounds and the publications (`Counted`, from which
the quotient in the property follows), and whose turn in a round is over;
`NothingBeforeAdvertised` what each stage of the start-up has behind it (`SetupInv`);
`OnlyClientsTakeTheFile` that a file is opened only when the last was closed (`FileInv`), a bound on
what the sensor thread has open, and that the server gives no descriptor of a client back.
What the threads do to each other's variables is shown once (`ViewKeeps`, `PartsStep`): the
server and the logger may end the process and no more.

**Drivers.** Assumed: `ProbesCounted`, `MeasuresExist` (there is a measurement) and
`ProbeIsNoUser`. `SensorDriverProofs` first shows that what programs
read and what probe does to the chips leaves the variables of `CharDevice` alone,
but for the fault of a program that finds no client (`StepOfBinding`). `BindingInv`
then lists what is held at each stage (`Holds`), what is not held as long as no
probe failed (`Lacks`), and that the cdev goes before its number (`CdevFirst`); neither
`BoundIsLive` nor `GivesBack` says anything of the stages between, which is why they
need it. From it follow `BoundDriverIsLive` and `UnboundDriverHoldsNothing`.

`BusInv` is the second half. `GpioInv`: once both numbers were found they stay known, as
long as no look-up fails, from the test on that follows. `PinsInv`: a
pin that is low is driven and belongs to somebody inside a
transfer, and who was not disturbed, by a transfer or by a probe that set his pin, is
alone and has his own pin low; this is `LoneTransferReachesItsChip`. `SetUpInv` and
`DeafInv`: from its transfer on each command lasts, unless a
transfer of the probe failed or a program's came between; the order of the table enters by one
lemma (`TableOrder`), and it gives `BoundDriverIsReady`. `SampleInv`: an undisturbed reader of
the magnetometer is the only one, and as far as he has stored it the global holds what he
read; this is `LoneReaderIsGivenWhatItRead`.

**Only model-checked**: `Delivered`, `Drains`, `TicksServed`, `ClientsServed`,
`Returns`: they are liveness properties, which need fairness and `ENABLED` and are beyond this
prover. Of the four runs with a counterexample nothing is proved.

## Where code and words part

Four runs end in a counterexample to something the repository says:

* `deu_lost_topic` (`uDEU.c:38`): two threads end their walks at the same cell, and the
  second append cuts off the first.
* `ubx_resync` (`ublox.c:260`): a stray first sync byte in front of a frame costs the
  frame, because the byte that fails the test for the second sync byte is
  dropped without a test for the first.
* `logger_length` (`loop_logger.c:285`): the length of the last block comes from the
  snapshot, so that records put meanwhile, or full blocks taken before,
  make the file end in stale bytes or lack new ones.
* `sensor_timer` (`sensor_collect.c:157`): the timer is set to zero, which disarms it;
  without signals from outside no sensor is read. The other properties of
  `SensorCollect` hold for whatever signals come.

Met while modelling, described under the hazards and without a run of their own:
`link_size` is tested outside the mutex (one node too many); `node->next` is never
initialised (the walk may leave the list; `DeuExchange` has this behaviour, and
`Delivered` makes an exception for it); callbacks may see half a sample;
`deu_advertise` returns with the mutex locked at lines 25 and 46; the closed file
pointer is used again after a stop; bytes still in the ring are thrown away
when a file is opened; losses are counted at index -1, which is the word of the
flags, with a read and a store that may undo a stop in between; a start by the shell empties the
ring in the middle of a write, after which a block has the length of what was thrown
away; `gps_sample_new` and unread driver buffers are published after failures;
`uart_deviece_init` is given a null pointer and fills an array through a pointer
it never set (`uart.c:273`), and as its tests assign instead of compare
(`res = FALSE`, line 279) it returns `(int *)(-1)`, through which the GPS is then
read (`sensor_collect.c:66`): as built, the process can hardly come past these two
places. `SensorCollect` lets it die or go on at each, and what the `platform` run
shows of the loop is about the second case;
the UBX parser accepts foreign bytes inside a header, and the format of the
optical IMU's frame is not the one its comment gives.

In the serial port: `ublox_analys` leaves its buffer behind whenever `uart_recv` fails
(`ublox.c:272`), which a `select` ended by a signal makes likely, as it counts as
ready (`uart.c:237`); `user_test_func` takes the descriptor that `uart_open` returns
for an error (`test.c:38`); `uart_set` leaves the translation of input bytes as it
finds it, so that some byte values of a binary stream may arrive changed.

In the server: no descriptor of a client is closed in the parent (`server.c:67`), so that
after about a thousand connections the table is full, the next file of the
logger cannot be opened and `fclose` of the null pointer ends the process; a child
that exits writes its copy of the logger's unwritten output once more
(`server.c:81`); when `fork` fails the client is left connected to nobody.

In the drivers: a probe that fails half way leaves its cdev and number behind, and
the next one, failing on that number, unregisters it (`hmc5883.c:254`); the probe
of the BMI088 returns what the last pin's call returned, not how the set-up went
(`bmi088.c:553`); `_bmi088a_set_power_mode` returns before its own read-back, and
`_bmi088g_set_power_mode` returns -1 where it succeeds; three bytes are read into an array of two
(`bmi088.c:320`); `hmc5883_read` copies three `int`s where `sensor_loop` reads three
`short`s (`hmc5883.c:221`), and copies them also when the bus failed, so that a
program is given what another read before; whether the chip heard the trigger is not looked
at (`hmc5883.c:194`), and the registers are read at once, whatever they hold. A later
binding of the BMI088 sets both select pins high (`bmi088.c:531`, `535`) while programs that
still have the device open may be in a transfer, whose chip then hears no more of it; and a
look-up that fails has lost the pin's number for them too.

## Abstractions

* Memory is sequentially consistent, and every access of the source to what threads
  share is one of memory: the makefile gives no optimisation option. A `memcpy` is one step in
  the ring, two in the exchange, where a reader could see it half done. In `Logger` a
  call of the ring is one step: what two such calls do to each other is the subject of
  `RingBufferShared`, except that there nobody empties the ring; a `ringbuffer_init`
  in the middle of a put or a get is in neither.
* A sample is a number, and two words where tearing matters. A byte has few
  values; sums and flags wrap at that number. `char` is unsigned, as on the ARM
  target.
* The topic is advertised before it is used, as the sensor thread does;
  a second `deu_advertise` of it replaces the data block, which is a hazard
  without a property.
* `field_status[-1].lost_msg` lies on the word of `_log_status` with `is_logging` and
  `can_be_stopped`, by the layout of the structure on the little-endian target.
* What follows `fwrite` or `fclose` of a closed file is undefined: the model stops.
* Whether a read succeeds is not told apart where the code does not either.
* `SerialPort` chooses a byte when it is parsed, not when it is read: between the two
  nobody looks at it. The descriptor is taken to be valid and stays open.
* `Platform` takes the file system to be there: `fopen` fails only when the table is
  full. Shell commands are absent, since nothing calls `handle_log_shell_cmd`
  (`NoShell`); the `logger` run has them. The length of the listening socket's
  backlog, what clients send, and the C library's buffers are left out.
* `SensorDriver`: the messages of one SPI transfer are one step. An overlap is
  noted when a transfer begins inside another, or when a probe sets the pin of one. A pin
  that was not found, or could not be made an output, is one that setting does not reach.
  Allocations of buffers succeed. The
  chips are modelled as far as the order of reset, wake-up and settings
  matters; the register values written are not told apart. The HMC5883 measures at any
  time after a trigger that it heard (`HmcMeasure`, external); one measurement is all three
  axes, of which the first and the last are kept. The kernel's lock
  around probe and remove, and its refusal to release a file that is being read, are
  assumed.

Bounds of the model, all in guards or constants: `MaxPublish`, `MaxCalls`,
`MaxTicks`, `MaxProbes`, `MaxBuffers`, `Measures` (numbers wrap), `MaxRead`,
`Clients`, `Descriptors`; lengths, periods and byte ranges by the constants.

## Not modelled

The TCP client, `uart_send` and `uart_close`, which nothing calls; the bits that
`uart_set` sets, of which only success or failure is modelled; conversions of readings
(floating point, no state); the sample programs, which print what a device
delivers; device trees and makefiles. The shared ring being emptied by
`ringbuffer_init` while the other thread uses it is in `Logger` on counts of bytes and
not in `RingBufferShared`.

## Plan

Done: every module and run above, and a theorem for every safety property of a run.

Next:

1. The hazards without a property: a node whose subscription failed
   (`loop_logger.c:197`), the ring emptied under the other thread
   (`loop_logger.c:339`).
2. The conditions under which refuted claims do hold, as theorems: done for `AppendsOnly`
   (`OneThreadLosesNone`), left for `NewestFramePublished` when no first sync byte
   precedes the frame.
3. What liveness rests on and can be proved: that a thread which can go on is enabled by
   what the invariants say, as implications between states.

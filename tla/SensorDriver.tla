----------------------------- MODULE SensorDriver -----------------------------
(***************************************************************************)
(* The drivers bmi088.c and hmc5883.c in full: CharDevice, and how probe   *)
(* and the programs that read the device use the sensor's bus.  Nothing is *)
(* locked: several programs read at the same time, and the device can be   *)
(* read while the probe of bmi088.c still sets up the chip.                *)
(*                                                                         *)
(* The BMI088 is two chips on one SPI bus.  Each transfer pulls down the   *)
(* select pin of its chip, sends one message or more, and lets it go.  Two *)
(* messages of a transfer are one step.  The HMC5883 is on an I2C bus that *)
(* serialises the messages; what it measured goes through a global.        *)
(***************************************************************************)
EXTENDS CharDevice

CONSTANT Measures   \* bound of the model: measurements are numbered modulo this

ASSUME MeasuresExist == Measures \in Nat \ {0}

\* The probe is none of the programs.
ASSUME ProbeIsNoUser == "probe" \notin Users

Agents == Users \cup {"probe"}

VARIABLES
  step,        \* where the probe is in setting up the chips
  low,         \* the chips whose select pin is low
  at,          \* where each agent is in its transfer
  job,         \* where each program is in read
  buffer,      \* what _hmc5883_get_mag_raw has read for each program
  mag_test,    \* hmc5883.c: the global, its first and its last axis
  \* The chips.
  acc, accSet, gyrSet,   \* mode of the first, and whether each is configured
  measuring, measured,   \* the HMC5883 measures; number of what its registers hold
  \* What follows is not in the code.
  overlapped,  \* agents whose transfer or read another's overlapped
  botched      \* a transfer of the probe failed or was overlapped

chips == <<acc, accSet, gyrSet, botched>>
bus   == <<low, at>>
mag   == <<buffer, mag_test, measuring, measured>>
vars  == <<binding, step, bus, job, mag, chips, overlapped>>

------------------------------------------------------------------------------
(* _bmi088_read_regs and _bmi088_write_regs                                 *)

\* An agent begins while those in others are inside.
Overlap(a, others) ==
  overlapped' = IF others = {} THEN overlapped \ {a} ELSE overlapped \cup others \cup {a}

Inside(a) == {b \in Agents \ {a} : at[b] # "rest"}

\* The pins that gpio_set_value reaches.
Driven == cs_gpio \cap output

\* gpio_set_value(cs_gpio[chip], 0)
Select(a, chip) ==
  /\ at[a] = "rest"
  /\ low' = low \cup ({chip} \cap Driven)
  /\ at' = [at EXCEPT ![a] = "selected"]
  /\ Overlap(a, Inside(a))

\* spi_sync, and what it returns
Send(a, outcome) ==
  /\ at[a] = "selected"
  /\ at' = [at EXCEPT ![a] = outcome]
  /\ UNCHANGED <<low, overlapped>>

\* Slip: the other pin is let go.
DeselectOther(a, chip) ==
  /\ at[a] \in {"sent", "failed"}
  /\ low' = low \ ((Chips \ {chip}) \cap Driven)
  /\ at' = [at EXCEPT ![a] = "rest"]
  /\ UNCHANGED overlapped

\* gpio_set_value(cs_gpio[chip], 1), and the functions return
Deselect(a, chip) ==
  /\ at[a] \in {"sent", "failed"}
  /\ low' = low \ ({chip} \cap Driven)
  /\ at' = [at EXCEPT ![a] = "rest"]
  /\ UNCHANGED overlapped

------------------------------------------------------------------------------
(* The probe of bmi088.c sets up the chips.                                 *)

\* A transfer: its name, its chip, what it does to it, and the transfer that
\* follows when it succeeds and when it fails or reads another value than the
\* one expected.
Op(name, chip, effect, ok, fails) ==
  [name |-> name, chip |-> chip, effect |-> effect, ok |-> ok, fails |-> fails]

\* _bmi088a_init.  The first and the last are no transfers but make the pin fall
\* and rise.
AccInit(next) ==
  {Op("accEdge", "acc", "none", "accId", "accId"),
   Op("accId", "acc", "none", "accReset", next),
   Op("accReset", "acc", "reset", "accSpi", next),
   Op("accSpi", "acc", "none", next, next)}

Edges == {"accEdge", "accSpi"}

\* _bmi088a_set_power_mode; it returns before it reads the registers back.
AccPower(next) ==
  {Op("accConf", "acc", "none", "accCtrl", next),
   Op("accCtrl", "acc", "wake", next, next)}

\* _bmi088a_set_meas_conf
AccMeas(next) ==
  {Op("accOld", "acc", "none", "accOdr", next),
   Op("accOdr", "acc", "none", "accRange", "accRange"),
   Op("accRange", "acc", "set", "accNew", "accNew"),
   Op("accNew", "acc", "none", next, next)}

\* _bmi088g_init
GyrInit(next) ==
  {Op("gyrId", "gyr", "none", "gyrReset", next),
   Op("gyrReset", "gyr", "reset", next, next)}

\* _bmi088g_set_power_mode: nothing is written when the mode is the one wanted.
GyrPower(next) ==
  {Op("gyrMode", "gyr", "none", next, "gyrLpm1"),
   Op("gyrLpm1", "gyr", "none", "gyrNew", next),
   Op("gyrNew", "gyr", "none", next, next)}

\* _bmi088g_set_meas_conf
GyrMeas(next) ==
  {Op("gyrBand", "gyr", "none", "gyrRange", next),
   Op("gyrRange", "gyr", "set", "gyrMeas", next),
   Op("gyrMeas", "gyr", "none", next, next)}

\* Slip: the second chip is configured and reset then.
SetupMeasFirst ==
  AccInit("accConf") \cup AccPower("accOld") \cup AccMeas("gyrBand")
  \cup GyrMeas("gyrId") \cup GyrInit("gyrMode") \cup GyrPower("done")

\* The six functions one after the other; what they return is not looked at.
Setup ==
  AccInit("accConf") \cup AccPower("accOld") \cup AccMeas("gyrId")
  \cup GyrInit("gyrMode") \cup GyrPower("gyrBand") \cup GyrMeas("done")

\* The transfer the probe is at.
Current == {op \in Setup : op.name = step}

\* The BMI088, when it is selected.  Its first chip takes no commands until the
\* pin has risen, and again after a reset; then it sleeps until it is woken.
\* After a reset both have to be configured again.
Reacts(chip, effect) ==
  /\ acc' = CASE chip = "acc" /\ effect = "reset" -> "deaf"
              [] chip = "acc" /\ effect = "wake" -> "awake"
              [] OTHER -> acc
  /\ accSet' = IF chip = "acc" THEN (accSet \/ effect = "set") /\ effect # "reset"
                               ELSE accSet
  /\ gyrSet' = IF chip = "gyr" THEN (gyrSet \/ effect = "set") /\ effect # "reset"
                               ELSE gyrSet

Hears(chip) == chip \in low /\ (chip = "acc" => acc # "deaf")

\* The edge of the pin that wakes the interface of the first chip.
Edge == acc' = IF "acc" \in low \ low' /\ acc = "deaf" THEN "asleep" ELSE acc

SetupSelect ==
  /\ At("chip")
  /\ \E op \in Current : Select("probe", op.chip)
  /\ UNCHANGED <<binding, step, job, mag, chips>>

SetupSend ==
  /\ At("chip")
  /\ \E op \in Current :
       \/ /\ Send("probe", "sent")
          /\ IF Hears(op.chip) THEN Reacts(op.chip, op.effect)
                              ELSE UNCHANGED <<acc, accSet, gyrSet>>
       \/ /\ step \notin Edges
          /\ Send("probe", "failed")
          /\ UNCHANGED <<acc, accSet, gyrSet>>
  /\ UNCHANGED <<binding, step, job, mag, botched>>

SetupDeselect ==
  /\ At("chip")
  /\ \E op \in Current :
       /\ Deselect("probe", op.chip)
       /\ step' = IF at["probe"] = "sent" THEN op.ok ELSE op.fails
  /\ Edge
  /\ botched' = (botched \/ at["probe"] = "failed" \/ "probe" \in overlapped)
  /\ UNCHANGED <<binding, job, mag, accSet, gyrSet>>

\* Then probe returns.
SetupEnd ==
  /\ step = "done"
  /\ ProbeReturn
  /\ step' = "accEdge"
  /\ UNCHANGED <<bus, job, mag, chips, overlapped>>

------------------------------------------------------------------------------
(* bmi088_read: the first chip, the second, and the copy to the program,    *)
(* which is told of no failure.                                             *)

Job(u, to) == job' = [job EXCEPT ![u] = to]
Reads(u, driver, from) == ~undefined /\ u \in file /\ kind = driver /\ job[u] = from

\* Without a client to send to there is no transfer.
BmiSelect(u, chip) ==
  /\ Reads(u, "bmi088", chip)
  /\ IF private_data
       THEN Select(u, chip) /\ UNCHANGED undefined
       ELSE undefined' = TRUE /\ UNCHANGED <<bus, overlapped>>
  /\ UNCHANGED <<kind, stage, ret, bound, major, objects, private_data, pins, file, history,
                 step, job, mag, chips>>

BmiSend(u, chip) ==
  /\ Reads(u, "bmi088", chip)
  /\ \E outcome \in {"sent", "failed"} : Send(u, outcome)
  /\ UNCHANGED <<binding, step, job, mag, chips>>

BmiDeselect(u, chip, to) ==
  /\ Reads(u, "bmi088", chip)
  /\ Deselect(u, chip)
  /\ Job(u, to)
  /\ Edge
  /\ UNCHANGED <<binding, step, mag, accSet, gyrSet, botched>>

BmiBegin(u) ==
  /\ Reads(u, "bmi088", "idle")
  /\ Job(u, "acc")
  /\ UNCHANGED <<binding, step, bus, mag, chips, overlapped>>

BmiRead(u) ==
  \/ BmiBegin(u)
  \/ BmiSelect(u, "acc") \/ BmiSend(u, "acc") \/ BmiDeselect(u, "acc", "gyr")
  \/ BmiSelect(u, "gyr") \/ BmiSend(u, "gyr") \/ BmiDeselect(u, "gyr", "idle")

------------------------------------------------------------------------------
(* hmc5883_read                                                             *)

Reading(u) == {v \in Users \ {u} : job[v] # "idle"}

\* What an array on the stack holds before it is written.
Garbage == Measures

\* The chip is told to measure; whether it heard is not looked at.
HmcTrigger(u) ==
  /\ Reads(u, "hmc5883", "idle")
  /\ Job(u, "fetch")
  /\ measuring' \in {TRUE, measuring}
  /\ buffer' = [buffer EXCEPT ![u] = Garbage]
  /\ Overlap(u, Reading(u))
  /\ UNCHANGED <<binding, step, bus, mag_test, measured, chips>>

\* The HMC5883 has measured, some time after it was told to.
HmcMeasure ==
  /\ measuring
  /\ measuring' = FALSE
  /\ measured' = (measured + 1) % Measures
  /\ UNCHANGED <<binding, step, bus, job, buffer, mag_test, chips, overlapped>>

\* Slip: what the bus says is not looked at either.
HmcFetchAnyway(u) ==
  /\ Reads(u, "hmc5883", "fetch")
  /\ \/ buffer' = [buffer EXCEPT ![u] = measured]
     \/ UNCHANGED buffer
  /\ Job(u, "first")
  /\ UNCHANGED <<binding, step, bus, mag_test, measuring, measured, chips, overlapped>>

\* The registers are read at once, whatever they hold; or, when the bus fails,
\* the global is left.
HmcFetch(u) ==
  /\ Reads(u, "hmc5883", "fetch")
  /\ \/ buffer' = [buffer EXCEPT ![u] = measured] /\ Job(u, "first")
     \/ Job(u, "old") /\ UNCHANGED buffer
  /\ UNCHANGED <<binding, step, bus, mag_test, measuring, measured, chips, overlapped>>

\* Slip: one axis is forgotten.
HmcStoreOne(u) ==
  /\ Reads(u, "hmc5883", "first")
  /\ mag_test' = [mag_test EXCEPT !.first = buffer[u]]
  /\ Job(u, "copy")
  /\ UNCHANGED <<binding, step, bus, buffer, measuring, measured, chips, overlapped>>

HmcStoreFirst(u) ==
  /\ Reads(u, "hmc5883", "first")
  /\ mag_test' = [mag_test EXCEPT !.first = buffer[u]]
  /\ Job(u, "last")
  /\ UNCHANGED <<binding, step, bus, buffer, measuring, measured, chips, overlapped>>

HmcStoreLast(u) ==
  /\ Reads(u, "hmc5883", "last")
  /\ mag_test' = [mag_test EXCEPT !.last = buffer[u]]
  /\ Job(u, "copy")
  /\ UNCHANGED <<binding, step, bus, buffer, measuring, measured, chips, overlapped>>

\* copy_to_user, whatever became of the measurement
HmcCopy(u) ==
  /\ Reads(u, "hmc5883", "copy") \/ Reads(u, "hmc5883", "old")
  /\ Job(u, "idle")
  /\ UNCHANGED <<binding, step, bus, mag, chips, overlapped>>

HmcRead(u) ==
  HmcTrigger(u) \/ HmcFetch(u) \/ HmcStoreFirst(u) \/ HmcStoreLast(u) \/ HmcCopy(u)

------------------------------------------------------------------------------
Others == <<step, bus, job, mag, overlapped>>

\* A pin that becomes an output is set high, under whoever pulled it down.
DriverOutput(chip) ==
  /\ ProbeOutput(chip)
  /\ IF ret' = 0
       THEN /\ low' = low \ {chip}
            /\ overlapped' = overlapped \cup {u \in Users : at[u] # "rest" /\ job[u] = chip}
       ELSE UNCHANGED <<low, overlapped>>
  /\ Edge
  /\ UNCHANGED <<step, at, job, mag, accSet, gyrSet, botched>>

DriverOpen(u) == Open(u) /\ UNCHANGED <<Others, chips>>

\* The kernel lets no program release the device while it reads.
DriverRelease(u) == job[u] = "idle" /\ Release(u) /\ UNCHANGED <<Others, chips>>

DriverProbe ==
  /\ Probe
  /\ botched' = (botched /\ stage # "private")
  /\ UNCHANGED <<Others, acc, accSet, gyrSet>>

DriverRemove == Remove /\ UNCHANGED <<Others, chips>>

Init ==
  /\ BindingInit
  /\ step = "accEdge"
  /\ low = {} /\ at = [a \in Agents |-> "rest"]
  /\ job = [u \in Users |-> "idle"]
  /\ buffer = [u \in Users |-> Garbage]
  /\ mag_test = [first |-> 0, last |-> 0]
  /\ acc = "deaf" /\ accSet = FALSE /\ gyrSet = FALSE
  /\ measuring = FALSE /\ measured = 0
  /\ overlapped = {}
  /\ botched = FALSE

Next ==
  \/ DriverProbe \/ DriverRemove \/ HmcMeasure
  \/ \E chip \in Chips : DriverOutput(chip)
  \/ SetupSelect \/ SetupSend \/ SetupDeselect \/ SetupEnd
  \/ \E u \in Users : DriverOpen(u) \/ DriverRelease(u) \/ BmiRead(u) \/ HmcRead(u)

Spec == Init /\ [][Next]_vars

------------------------------------------------------------------------------
(* Properties                                                               *)

\* Every variable holds a value of its kind.  No garbage from the stack reaches
\* the global, not even when the bus fails.
TypeOK ==
  /\ BindingTypeOK
  /\ step \in {op.name : op \in Setup} \cup {"done"}
  /\ low \subseteq Chips
  /\ at \in [Agents -> {"rest", "selected", "sent", "failed"}]
  /\ job \in [Users -> Chips \cup {"idle", "fetch", "first", "last", "copy", "old"}]
  /\ buffer \in [Users -> (0 .. Measures - 1) \cup {Garbage}]
  /\ mag_test \in [{"first", "last"} -> 0 .. Measures - 1]
  /\ measured \in 0 .. Measures - 1
  /\ acc \in {"deaf", "asleep", "awake"}
  /\ {accSet, gyrSet, botched, measuring} \subseteq BOOLEAN
  /\ overlapped \subseteq Agents

ChipsOf(a) == IF a = "probe" THEN {op.chip : op \in Current} ELSE {job[a]}

\* Every lookup found its pin, and both pins are outputs.
Wired == ~unfound /\ output = Chips

\* In a driver that found its pins and made them outputs, a transfer that no other
\* overlapped, and whose pin no probe set meanwhile, finds the pin of its own chip
\* low, and no other pin, whatever transfers, failed or overlapped, went before it.
AloneReachesOwn ==
  Wired =>
    \A a \in Agents :
      at[a] = "selected" /\ a \notin overlapped => low = ChipsOf(a)

\* Unless a transfer of the probe itself failed or a program's read came between,
\* a bound BMI088 that is wired is awake and both its chips are configured,
\* however often it was bound before: each reset comes before what it would undo.
ReadyWhenBound ==
  Wired /\ bound /\ kind = "bmi088" /\ ~botched => acc = "awake" /\ accSet /\ gyrSet

\* What a program read from the registers of the magnetometer is what it is given,
\* in all axes, though it goes through a global, when no other's read overlapped
\* its own.  Nothing is said of how old the registers' measurement is, nor of a
\* program whose transfer failed and which is given what the global held.
FetchIsOwn ==
  \A u \in Users :
    job[u] = "copy" /\ u \notin overlapped =>
      mag_test.first = buffer[u] /\ mag_test.last = buffer[u]
==============================================================================

-------------------------- MODULE SensorDriverProofs --------------------------
(***************************************************************************)
(* Proofs about SensorDriver, for any number of programs, of bindings and  *)
(* of measurements.                                                        *)
(*                                                                         *)
(* First what a bound driver has (BoundIsLive) and what one that is not    *)
(* bound has given back (GivesBack).  Both follow from what the driver     *)
(* holds at each stage of probe and remove.  Programs and the set-up of    *)
(* the chips do not touch this, which is shown first (StepOfBinding); what *)
(* is left is an argument about CharDevice alone.                          *)
(*                                                                         *)
(* Then the bus: who meets no other on the SPI bus is alone with his chip  *)
(* (AloneReachesOwn), a bound BMI088 is awake and configured               *)
(* (ReadyWhenBound), and a program alone with the HMC5883 is given what it *)
(* read from it (FetchIsOwn).  The first two are about a driver that found *)
(* its pins, and rest on what it knows of them at each stage (GpioInv).    *)
(* The order of the set-up is read off the table of transfers once         *)
(* (TableOrder); the rest of the proof knows a transfer by its name, its   *)
(* chip and its effect.                                                    *)
(***************************************************************************)
EXTENDS SensorDriver, TLAPS

\* A program reads a device whose client is not stored.
Fault ==
  /\ ~undefined /\ ~private_data
  /\ undefined' = TRUE
  /\ UNCHANGED <<kind, stage, ret, bound, major, objects, private_data, pins, file, history>>

\* What can happen to the variables of CharDevice.
BindingNext ==
  \/ Probe \/ ProbeReturn \/ Remove \/ Fault
  \/ \E chip \in Chips : ProbeOutput(chip)
  \/ \E u \in Users : Open(u) \/ Release(u)

\* A step of the driver is one of CharDevice, or a fault, or leaves the
\* variables of CharDevice alone.
LEMMA StepOfBinding ==
  ASSUME [Next]_vars
  PROVE  [BindingNext]_binding
<1>1. CASE DriverProbe
  BY <1>1 DEF DriverProbe, BindingNext
<1>2. CASE DriverRemove
  BY <1>2 DEF DriverRemove, BindingNext
<1>3. CASE SetupSelect \/ SetupSend \/ SetupDeselect
  BY <1>3 DEF SetupSelect, SetupSend, SetupDeselect
<1>4. CASE SetupEnd
  BY <1>4 DEF SetupEnd, BindingNext
<1>5. ASSUME NEW u \in Users, DriverOpen(u) \/ DriverRelease(u)
      PROVE  BindingNext
  BY <1>5 DEF DriverOpen, DriverRelease, BindingNext
<1>6. ASSUME NEW u \in Users, HmcRead(u)
      PROVE  UNCHANGED binding
  BY <1>6 DEF HmcRead, HmcTrigger, HmcFetch, HmcStoreFirst, HmcStoreLast, HmcCopy
<1>7. ASSUME NEW u \in Users, BmiRead(u)
      PROVE  [BindingNext]_binding
  <2>1. ASSUME NEW chip, BmiSelect(u, chip)
        PROVE  [BindingNext]_binding
    BY <2>1 DEF BmiSelect, Reads, BindingNext, Fault, binding
  <2>2. ASSUME NEW chip, NEW to, BmiSend(u, chip) \/ BmiDeselect(u, chip, to) \/ BmiBegin(u)
        PROVE  UNCHANGED binding
    BY <2>2 DEF BmiSend, BmiDeselect, BmiBegin
  <2> QED BY <1>7, <2>1, <2>2 DEF BmiRead
<1>8. CASE UNCHANGED vars
  BY <1>8 DEF vars
<1>9. ASSUME NEW chip \in Chips, DriverOutput(chip)
      PROVE  BindingNext
  BY <1>9 DEF DriverOutput, BindingNext
<1>10. CASE HmcMeasure
  BY <1>10 DEF HmcMeasure
<1> QED
  BY <1>1, <1>2, <1>3, <1>4, <1>5, <1>6, <1>7, <1>8, <1>9, <1>10 DEF Next

------------------------------------------------------------------------------
(* What probe and remove hold                                               *)

\* The stages at which each object is held, however earlier probes ended.
AtPins    == {"node", "findAcc", "findGyr", "outAcc", "outGyr"}
HasDevice == AtPins \cup {"private", "chip", "removeCdev", "removeNumber", "removeDevice"}
HasClass  == HasDevice \cup {"device", "removeClass"}
HasCdev   == AtPins \cup {"class", "device", "private", "chip", "removeCdev"}
HasNumber == HasCdev \cup {"cdev", "removeNumber"}

\* What is held at a stage, or by a bound driver.
Holds ==
  /\ stage \in HasNumber \/ bound => region
  /\ stage \in HasCdev \/ bound => cdev
  /\ stage \in HasClass \/ bound => class
  /\ stage \in HasDevice \/ bound => device
  /\ stage = "chip" \/ bound => private_data

\* What is not held, as long as no probe has failed.
Lacks ==
  ~failed =>
    /\ region => stage \in HasNumber \/ bound
    /\ cdev => stage \in HasCdev \/ bound
    /\ class => stage \in HasClass \/ bound
    /\ device => stage \in HasDevice \/ bound

\* remove takes the cdev away before its number.
CdevFirst == stage \in {"removeNumber", "removeDevice", "removeClass"} => ~cdev

BoundOk == bound => stage = "idle" /\ ~undefined

BindingInv == Holds /\ Lacks /\ CdevFirst /\ BoundOk /\ NumberHeld

\* A driver that was never bound holds nothing.
LEMMA BindingInitially == Init => BindingInv
  BY DEF Init, BindingInit, BindingInv, Holds, Lacks, CdevFirst, BoundOk, NumberHeld, HasNumber,
         HasCdev, HasClass, HasDevice, AtPins

\* Each kernel call of probe and remove keeps the invariant, and so does what
\* programs do.
LEMMA BindingPreserved ==
  ASSUME BindingInv, [BindingNext]_binding
  PROVE  BindingInv'
<1> USE DEF BindingInv, Holds, Lacks, CdevFirst, BoundOk, NumberHeld, HasNumber, HasCdev,
            HasClass, HasDevice, AtPins, At, Go, Succeeds, objects, history
<1>1. CASE ProbeNumber
  <2>1. CASE Fails
    BY <1>1, <2>1 DEF ProbeNumber, Fails
  <2>2. CASE Go("cdev") /\ ~Fails
    <3>1. UNCHANGED <<failed, bound, undefined, cdev, private_data>>
      BY <1>1, <2>2 DEF ProbeNumber, Fails
    <3>2. Holds' /\ NumberHeld'
      BY <1>1, <2>2, <3>1 DEF ProbeNumber, Fails
    <3>3. Lacks'
      BY <1>1, <2>2, <3>1 DEF ProbeNumber, Fails
    <3>4. CdevFirst' /\ BoundOk'
      BY <1>1, <2>2, <3>1 DEF ProbeNumber, Fails
    <3> QED BY <3>2, <3>3, <3>4
  <2> QED BY <1>1, <2>1, <2>2 DEF ProbeNumber
<1>2. CASE ProbeCdev
  BY <1>2 DEF ProbeCdev, Fails
<1>3. CASE ProbeClass
  <2>1. CASE Fails
    BY <1>3, <2>1 DEF ProbeClass, Fails
  <2>2. CASE Go("device") /\ ~Fails
    <3>1. UNCHANGED <<failed, bound, undefined, cdev, private_data>>
      BY <1>3, <2>2 DEF ProbeClass, Fails
    <3>2. Holds' /\ NumberHeld'
      BY <1>3, <2>2, <3>1 DEF ProbeClass, Fails
    <3>3. Lacks'
      BY <1>3, <2>2, <3>1 DEF ProbeClass, Fails
    <3>4. CdevFirst' /\ BoundOk'
      BY <1>3, <2>2, <3>1 DEF ProbeClass, Fails
    <3> QED BY <3>2, <3>3, <3>4
  <2> QED BY <1>3, <2>1, <2>2 DEF ProbeClass
<1>4. CASE ProbeDevice
  <2>1. CASE Fails
    BY <1>4, <2>1 DEF ProbeDevice, AfterDevice, Fails
  <2>2. CASE Go(AfterDevice) /\ ~Fails
    <3>1. UNCHANGED <<failed, bound, undefined, cdev, private_data>>
      BY <1>4, <2>2 DEF ProbeDevice, AfterDevice, Fails
    <3>2. Holds' /\ NumberHeld'
      BY <1>4, <2>2, <3>1 DEF ProbeDevice, AfterDevice, Fails
    <3>3. Lacks'
      BY <1>4, <2>2, <3>1 DEF ProbeDevice, AfterDevice, Fails
    <3>4. CdevFirst' /\ BoundOk'
      BY <1>4, <2>2, <3>1 DEF ProbeDevice, AfterDevice, Fails
    <3> QED BY <3>2, <3>3, <3>4
  <2> QED BY <1>4, <2>1, <2>2 DEF ProbeDevice
<1>5. ASSUME stage \in AtPins,
             stage' \in AtPins \cup {"private"} \/ Fails,
             UNCHANGED <<bound, region, cdev, class, device, private_data, undefined, met>>,
             failed => failed'
      PROVE  BindingInv'
  BY <1>5 DEF Fails
<1>6. CASE ProbePrivate
  BY <1>6 DEF ProbePrivate, Fails
<1>7. CASE ProbeReturn
  BY <1>7 DEF ProbeReturn, Fails
<1>8. CASE RemoveBegin
  BY <1>8 DEF RemoveBegin, Fails
<1>9. CASE RemoveCdev
  BY <1>9 DEF RemoveCdev, Fails
<1>10. CASE RemoveNumber
  BY <1>10 DEF RemoveNumber, Fails
<1>11. CASE RemoveDevice
  BY <1>11 DEF RemoveDevice, Fails
<1>12. CASE RemoveClass
  BY <1>12 DEF RemoveClass, Fails
<1>13. CASE Fault
  BY <1>13 DEF Fault, Fails
<1>14. ASSUME NEW u \in Users, Open(u) \/ Release(u)
       PROVE  BindingInv'
  <2>1. UNCHANGED <<stage, bound, objects, private_data, failed, met>>
    BY <1>14 DEF Open, Release
  <2>2. bound => UNCHANGED undefined
    BY <1>14 DEF Open, Release
  <2>3. BoundOk'
    BY <2>1, <2>2
  <2> QED BY <2>1, <2>3
<1>15. CASE UNCHANGED binding
  BY <1>15 DEF binding
<1>16. CASE ProbeNode
  BY <1>5, <1>16 DEF ProbeNode, Fails
<1>17. CASE ProbeFindAcc \/ ProbeFindGyr
  BY <1>5, <1>17 DEF ProbeFindAcc, ProbeFindGyr, LookUp, Fails
<1>18. ASSUME NEW chip \in Chips, ProbeOutput(chip)
       PROVE  BindingInv'
  BY <1>5, <1>18 DEF ProbeOutput, MakeOutput
<1> QED
  BY <1>1, <1>2, <1>3, <1>4, <1>6, <1>7, <1>8, <1>9, <1>10, <1>11, <1>12, <1>13,
     <1>14, <1>15, <1>16, <1>17, <1>18 DEF BindingNext, Probe, Remove

LEMMA BindingInvariant == Spec => []BindingInv
<1>1. BindingInv /\ [Next]_vars => BindingInv'
  BY StepOfBinding, BindingPreserved
<1> QED
  BY BindingInitially, <1>1, PTL DEF Spec

\* A bound driver is complete and has met no null pointer, however many
\* programs open and read it, however often it was bound before, and whatever failed.
THEOREM BoundDriverIsLive == Spec => []BoundIsLive
<1>1. BindingInv => BoundIsLive
  BY DEF BindingInv, Holds, BoundOk, BoundIsLive
<1> QED
  BY BindingInvariant, <1>1, PTL

\* As long as no probe failed an unbound driver holds nothing, and at no moment
\* does its cdev answer to a number that is no longer its own, unless a
\* probe met what an earlier one had left.
THEOREM UnboundDriverHoldsNothing == Spec => []GivesBack
<1>1. BindingInv => GivesBack
  BY DEF BindingInv, Lacks, NumberHeld, GivesBack, ReleasesAll, HasNumber, HasCdev,
         HasClass, HasDevice, AtPins, At
<1> QED
  BY BindingInvariant, <1>1, PTL

------------------------------------------------------------------------------
(* The invariant of the bus                                                 *)

HmcJobs == {"fetch", "first", "last", "copy", "old"}

\* Only the driver of the BMI088 has transfers and a set-up; a program is in a
\* transfer only when it reads a chip.
KindInv ==
  /\ stage = "chip" => kind = "bmi088"
  /\ \A a \in Agents : at[a] # "rest" => kind = "bmi088"
  /\ \A u \in Users : job[u] \in HmcJobs => kind = "hmc5883"
  /\ \A u \in Users : job[u] \in Chips => kind = "bmi088"
  /\ \A u \in Users : at[u] # "rest" => job[u] \in Chips

\* The set-up begins at the beginning, and ends with no transfer left open.
StepInv ==
  /\ stage # "chip" => step = "accEdge" /\ at["probe"] = "rest"
  /\ step = "done" => at["probe"] = "rest"

\* If no pin was ever missing, the driver of the BMI088 has the numbers of both
\* from the time it looked them up.  Nobody is in a transfer without the client,
\* and so not without the numbers either.
GpioInv ==
  /\ ~unfound =>
       /\ kind = "bmi088" /\ (private_data \/ stage \in {"outAcc", "outGyr", "private"}) =>
            cs_gpio = Chips
       /\ stage = "findGyr" => "acc" \in cs_gpio
  /\ \A a \in Agents : at[a] # "rest" => private_data

\* A pin that is low is an output, pulled down by someone who is still inside, and
\* who is inside without having been disturbed is alone and holds his own, if it
\* is an output.
PinsInv ==
  ~unfound =>
    /\ low \subseteq output
    /\ \A c \in low : \E a \in Agents : at[a] # "rest" /\ c \in ChipsOf(a)
    /\ \A a \in Agents : at[a] # "rest" /\ a \notin overlapped =>
         Inside(a) = {} /\ (ChipsOf(a) \cap output) \subseteq low

\* A read of the magnetometer that met no other is the only one, and what it
\* has stored so far is what it read.
SampleInv ==
  \A u \in Users : job[u] \in HmcJobs /\ u \notin overlapped =>
    /\ Reading(u) = {}
    /\ job[u] \in {"last", "copy"} => mag_test.first = buffer[u]
    /\ job[u] = "copy" => mag_test.last = buffer[u]

\* What is stored, or about to be, was measured.
BufferInv ==
  \A u \in Users : job[u] \in {"first", "last", "copy"} => buffer[u] \in 0 .. Measures - 1

\* The first chip takes no commands only before its first edge and between its
\* reset and the edge that ends this transfer, which is to come.
DeafInv ==
  Wired /\ acc = "deaf" =>
    \/ step = "accEdge" /\ (at["probe"] # "rest" => "acc" \in low)
    \/ step = "accReset" /\ at["probe"] = "sent" /\ "acc" \in low

\* The steps before the one that wakes the first chip, or up to it, and so on.
ToWake   == {"accEdge", "accId", "accReset", "accSpi", "accConf", "accCtrl"}
ToAccSet == ToWake \cup {"accOld", "accOdr", "accRange"}
ToGyrSet == ToAccSet \cup {"accNew", "gyrId", "gyrReset", "gyrMode", "gyrLpm1", "gyrNew",
                           "gyrBand", "gyrRange"}

\* The transfer of this name has been heard.
Done(name) == step = name /\ at["probe"] = "sent" /\ "probe" \notin overlapped

\* Unless something went wrong, each command lasts from its transfer on.
SetUpInv ==
  Wired /\ stage = "chip" /\ ~botched =>
    /\ step \notin ToWake \/ Done("accCtrl") => acc = "awake"
    /\ step \notin ToAccSet \/ Done("accRange") => accSet
    /\ step \notin ToGyrSet \/ Done("gyrRange") => gyrSet

BusInv ==
  /\ TypeOK /\ KindInv /\ StepInv /\ GpioInv /\ PinsInv /\ SampleInv /\ BufferInv
  /\ DeafInv /\ SetUpInv /\ ReadyWhenBound

------------------------------------------------------------------------------
(* The table of transfers                                                   *)

AccSteps == {"accEdge", "accId", "accReset", "accSpi", "accConf", "accCtrl", "accOld",
             "accOdr", "accRange", "accNew"}
GyrSteps == {"gyrId", "gyrReset", "gyrMode", "gyrLpm1", "gyrNew", "gyrBand", "gyrRange",
             "gyrMeas"}

\* The transfers are these, and each belongs to the chip of its name.
LEMMA TableNames ==
  /\ {op.name : op \in Setup} = AccSteps \cup GyrSteps
  /\ \A op \in Setup : /\ op.name \in AccSteps <=> op.chip = "acc"
                       /\ op.name \in GyrSteps <=> op.chip = "gyr"
                       /\ op.ok \in AccSteps \cup GyrSteps \cup {"done"}
                       /\ op.fails \in AccSteps \cup GyrSteps \cup {"done"}
<1>1. \A op \in AccInit("accConf") \cup AccPower("accOld") \cup AccMeas("gyrId") :
        /\ op.name \in AccSteps /\ op.chip = "acc"
        /\ op.ok \in AccSteps \cup GyrSteps \cup {"done"}
        /\ op.fails \in AccSteps \cup GyrSteps \cup {"done"}
  BY DEF AccInit, AccPower, AccMeas, Op, AccSteps, GyrSteps
<1>2. \A op \in GyrInit("gyrMode") \cup GyrPower("gyrBand") \cup GyrMeas("done") :
        /\ op.name \in GyrSteps /\ op.chip = "gyr"
        /\ op.ok \in AccSteps \cup GyrSteps \cup {"done"}
        /\ op.fails \in AccSteps \cup GyrSteps \cup {"done"}
  BY DEF GyrInit, GyrPower, GyrMeas, Op, AccSteps, GyrSteps
<1>3. AccSteps \cap GyrSteps = {}
  BY DEF AccSteps, GyrSteps
<1>4. \A s \in {"accEdge", "accId", "accReset", "accSpi"} : \E op \in AccInit("accConf") : op.name = s
  BY DEF AccInit, Op
<1>5. \A s \in {"accConf", "accCtrl"} : \E op \in AccPower("accOld") : op.name = s
  BY DEF AccPower, Op
<1>6. \A s \in {"accOld", "accOdr", "accRange", "accNew"} : \E op \in AccMeas("gyrId") : op.name = s
  BY DEF AccMeas, Op
<1>7. \A s \in {"gyrId", "gyrReset"} : \E op \in GyrInit("gyrMode") : op.name = s
  BY DEF GyrInit, Op
<1>8. \A s \in {"gyrMode", "gyrLpm1", "gyrNew"} : \E op \in GyrPower("gyrBand") : op.name = s
  BY DEF GyrPower, Op
<1>9. \A s \in {"gyrBand", "gyrRange", "gyrMeas"} : \E op \in GyrMeas("done") : op.name = s
  BY DEF GyrMeas, Op
<1>10. \A s \in AccSteps \cup GyrSteps : \E op \in Setup : op.name = s
  <2> TAKE s \in AccSteps \cup GyrSteps
  <2>1. \/ s \in {"accEdge", "accId", "accReset", "accSpi"}
        \/ s \in {"accConf", "accCtrl"}
        \/ s \in {"accOld", "accOdr", "accRange", "accNew"}
        \/ s \in {"gyrId", "gyrReset"}
        \/ s \in {"gyrMode", "gyrLpm1", "gyrNew"}
        \/ s \in {"gyrBand", "gyrRange", "gyrMeas"}
    BY DEF AccSteps, GyrSteps
  <2> QED BY <2>1, <1>4, <1>5, <1>6, <1>7, <1>8, <1>9 DEF Setup
<1> QED
  BY <1>1, <1>2, <1>3, <1>10 DEF Setup

\* The order of the table: nothing but its own transfer leads past the one that
\* wakes the first chip or configures either, and each reset comes before.
LEMMA TableOrder ==
  \A op \in Setup :
    /\ op.ok \notin ToWake => op.name \notin ToWake \/ op.name = "accCtrl"
    /\ op.ok \notin ToAccSet => op.name \notin ToAccSet \/ op.name = "accRange"
    /\ op.ok \notin ToGyrSet => op.name \notin ToGyrSet \/ op.name = "gyrRange"
    /\ op.name = "accCtrl" => op.effect = "wake"
    /\ op.name \in {"accRange", "gyrRange"} => op.effect = "set"
    /\ op.chip = "acc" /\ op.effect = "reset" => op.name = "accReset"
    /\ op.chip = "gyr" /\ op.effect = "reset" => op.name = "gyrReset"
<1> USE DEF ToWake, ToAccSet, ToGyrSet, Op
<1> DEFINE Ordered(op) ==
      /\ op.ok \notin ToWake => op.name \notin ToWake \/ op.name = "accCtrl"
      /\ op.ok \notin ToAccSet => op.name \notin ToAccSet \/ op.name = "accRange"
      /\ op.ok \notin ToGyrSet => op.name \notin ToGyrSet \/ op.name = "gyrRange"
      /\ op.name = "accCtrl" => op.effect = "wake"
      /\ op.name \in {"accRange", "gyrRange"} => op.effect = "set"
      /\ op.chip = "acc" /\ op.effect = "reset" => op.name = "accReset"
      /\ op.chip = "gyr" /\ op.effect = "reset" => op.name = "gyrReset"
<1>1. \A op \in AccInit("accConf") : Ordered(op)
  BY DEF AccInit
<1>2. \A op \in AccPower("accOld") : Ordered(op)
  BY DEF AccPower
<1>3. \A op \in AccMeas("gyrId") : Ordered(op)
  BY DEF AccMeas
<1>4. \A op \in GyrInit("gyrMode") : Ordered(op)
  BY DEF GyrInit
<1>5. \A op \in GyrPower("gyrBand") : Ordered(op)
  BY DEF GyrPower
<1>6. \A op \in GyrMeas("done") : Ordered(op)
  BY DEF GyrMeas
<1> HIDE DEF Ordered, ToWake, ToAccSet, ToGyrSet
<1>7. \A op \in Setup : Ordered(op)
  BY <1>1, <1>2, <1>3, <1>4, <1>5, <1>6 DEF Setup
<1> QED
  BY <1>7 DEF Ordered

\* Where the probe is in the set-up there is one transfer.
LEMMA CurrentChip ==
  \A op \in Current : op \in Setup /\ op.name = step /\ ChipsOf("probe") = {op.chip}
                      /\ op.chip \in Chips
  BY TableNames DEF Current, ChipsOf, Chips

------------------------------------------------------------------------------
(* The pins                                                                 *)

LEMMA AgentsAre ==
  Users \subseteq Agents /\ "probe" \in Agents /\ "probe" \notin Users
  BY ProbeIsNoUser DEF Agents

\* Who has the numbers of both pins reaches those that are outputs.
LEMMA DrivenAre ==
  ASSUME TypeOK, cs_gpio = Chips
  PROVE  Driven = output
  BY DEF TypeOK, BindingTypeOK, Driven

\* Who selects is inside now, and alone or overlapped with all the others.
LEMMA PinsSelect ==
  ASSUME TypeOK, PinsInv, NEW a \in Agents, NEW c, Select(a, c), ChipsOf(a) = {c},
         ~unfound => cs_gpio = Chips, UNCHANGED <<output, unfound>>,
         \A b \in Agents : ChipsOf(b)' = ChipsOf(b)
  PROVE  PinsInv'
<1> SUFFICES ASSUME ~unfound
             PROVE  /\ low' \subseteq output
                    /\ \A d \in low' : \E b \in Agents : at'[b] # "rest" /\ d \in ChipsOf(b)'
                    /\ \A b \in Agents : at'[b] # "rest" /\ b \notin overlapped' =>
                         Inside(b)' = {} /\ (ChipsOf(b)' \cap output) \subseteq low'
  BY DEF PinsInv
<1>1. at \in [Agents -> {"rest", "selected", "sent", "failed"}]
  BY DEF TypeOK
<1>2. low' = low \cup ({c} \cap output) /\ at[a] = "rest" /\ at'[a] = "selected"
      /\ \A b \in Agents \ {a} : at'[b] = at[b]
  BY <1>1, DrivenAre DEF Select
<1>3. low' \subseteq output /\ \A d \in low' : \E b \in Agents : at'[b] # "rest" /\ d \in ChipsOf(b)'
  BY <1>2 DEF PinsInv
<1>4. ASSUME NEW b \in Agents, at'[b] # "rest", b \notin overlapped'
      PROVE  Inside(b)' = {} /\ (ChipsOf(b)' \cap output) \subseteq low'
  <2>1. CASE Inside(a) = {}
    <3>1. \A x \in Agents \ {a} : at'[x] = "rest"
      BY <1>2, <2>1 DEF Inside
    <3> QED BY <3>1, <1>4, <1>2 DEF Inside
  <2>2. CASE Inside(a) # {}
    <3>1. b = a \/ b \in Inside(a)
      BY <1>4, <1>2 DEF Inside
    <3> QED BY <3>1, <2>2, <1>4 DEF Select, Overlap
  <2> QED BY <2>1, <2>2
<1> QED BY <1>3, <1>4

\* A message changes nothing of this.
LEMMA PinsSend ==
  ASSUME TypeOK, PinsInv, NEW a \in Agents, NEW outcome \in {"sent", "failed"},
         Send(a, outcome), UNCHANGED <<output, unfound>>,
         \A b \in Agents : ChipsOf(b)' = ChipsOf(b)
  PROVE  PinsInv'
<1>1. at \in [Agents -> {"rest", "selected", "sent", "failed"}]
  BY DEF TypeOK
<1>2. low' = low /\ overlapped' = overlapped
      /\ \A b \in Agents : at'[b] # "rest" <=> at[b] # "rest"
  BY <1>1 DEF Send
<1>3. \A b \in Agents : Inside(b)' = Inside(b)
  BY <1>2 DEF Inside
<1> QED BY <1>2, <1>3 DEF PinsInv

\* Who deselects while others are inside leaves them with what they hold, and
\* those are all overlapped.
LEMMA PinsDeselect ==
  ASSUME TypeOK, PinsInv, NEW a \in Agents, NEW c, Deselect(a, c), ChipsOf(a) = {c},
         ~unfound => cs_gpio = Chips, UNCHANGED <<output, unfound>>,
         \A b \in Agents \ {a} : ChipsOf(b)' = ChipsOf(b)
  PROVE  PinsInv'
<1> SUFFICES ASSUME ~unfound
             PROVE  /\ low' \subseteq output
                    /\ \A d \in low' : \E b \in Agents : at'[b] # "rest" /\ d \in ChipsOf(b)'
                    /\ \A b \in Agents : at'[b] # "rest" /\ b \notin overlapped' => FALSE
  BY DEF PinsInv
<1>1. at \in [Agents -> {"rest", "selected", "sent", "failed"}] /\ low \subseteq output
  BY DEF TypeOK, PinsInv
<1>2. low' = low \ {c} /\ overlapped' = overlapped /\ at[a] # "rest" /\ at'[a] = "rest"
      /\ \A b \in Agents \ {a} : at'[b] = at[b]
  BY <1>1, DrivenAre DEF Deselect
<1>3. \A d \in low' : \E b \in Agents : at'[b] # "rest" /\ d \in ChipsOf(b)'
  <2> TAKE d \in low'
  <2>1. PICK b \in Agents : at[b] # "rest" /\ d \in ChipsOf(b)
    BY <1>2 DEF PinsInv
  <2>2. b # a
    BY <1>2, <2>1
  <2> QED BY <2>1, <2>2, <1>2
<1>4. ASSUME NEW b \in Agents, at'[b] # "rest", b \notin overlapped'
      PROVE  FALSE
  <2>1. b # a /\ at[b] # "rest" /\ b \notin overlapped
    BY <1>4, <1>2
  <2>2. a \in Inside(b)
    BY <2>1, <1>2 DEF Inside
  <2> QED BY <2>1, <2>2 DEF PinsInv
<1> QED BY <1>1, <1>2, <1>3, <1>4

\* Who is inside and was not overlapped has the bus as he needs it.
LEMMA PinsAlone ==
  ASSUME PinsInv, Wired, NEW a \in Agents, at[a] # "rest", a \notin overlapped,
         ChipsOf(a) \subseteq Chips
  PROVE  low = ChipsOf(a)
<1>1. Inside(a) = {} /\ ChipsOf(a) \subseteq low
  BY DEF PinsInv, Wired
<1>2. \A c \in low : c \in ChipsOf(a)
  <2> TAKE c \in low
  <2>1. PICK b \in Agents : at[b] # "rest" /\ c \in ChipsOf(b)
    BY DEF PinsInv, Wired
  <2>2. b = a
    BY <1>1, <2>1 DEF Inside
  <2> QED BY <2>1, <2>2
<1> QED BY <1>1, <1>2

------------------------------------------------------------------------------
(* The steps of CharDevice                                                  *)

\* The variables of CharDevice keep their types, and the driver its kind.
LEMMA BindingTyped ==
  ASSUME BindingTypeOK, [BindingNext]_binding
  PROVE  BindingTypeOK' /\ kind' = kind
<1> USE DEF BindingTypeOK, At, Go, objects, pins, history, Stages
<1>1. CASE ProbeNumber
  <2>1. probes' \in 0 .. MaxProbes
    <3>1. probes \in 0 .. MaxProbes /\ probes < MaxProbes /\ probes' = probes + 1
      BY <1>1 DEF ProbeNumber
    <3> QED BY ONLY <3>1, ProbesCounted
  <2>2. UNCHANGED <<kind, bound, cdev, class, device, private_data, cs_gpio, output, file,
                    undefined, unfound>> /\ ret' = 0
    BY <1>1 DEF ProbeNumber, pins
  <2>3. stage' \in {"cdev", "idle"} /\ region' \in BOOLEAN /\ major' \in BOOLEAN
        /\ failed' \in BOOLEAN /\ met' \in BOOLEAN
    BY <1>1 DEF ProbeNumber, Fails
  <2> QED BY ONLY <2>1, <2>2, <2>3, BindingTypeOK DEF BindingTypeOK, Stages
<1>2. CASE ProbeCdev
  BY <1>2 DEF ProbeCdev, Fails
<1>3. CASE ProbeClass
  BY <1>3 DEF ProbeClass, Fails
<1>4. CASE ProbeDevice
  BY <1>4 DEF ProbeDevice, AfterDevice, Fails
<1>5. CASE ProbeNode
  BY <1>5 DEF ProbeNode, Fails
<1>6. CASE ProbePrivate
  BY <1>6 DEF ProbePrivate, Succeeds
<1>7. CASE ProbeReturn
  BY <1>7 DEF ProbeReturn, Succeeds, Fails
<1>8. CASE RemoveBegin
  BY <1>8 DEF RemoveBegin
<1>9. CASE RemoveCdev \/ RemoveNumber \/ RemoveDevice \/ RemoveClass
  BY <1>9 DEF RemoveCdev, RemoveNumber, RemoveDevice, RemoveClass
<1>10. CASE Fault
  BY <1>10 DEF Fault
<1>11. ASSUME NEW u \in Users, Open(u) \/ Release(u)
       PROVE  BindingTypeOK' /\ kind' = kind
  BY <1>11 DEF Open, Release
<1>12. CASE UNCHANGED binding
  BY <1>12 DEF binding
<1>13. ASSUME NEW chip \in Chips, LookUp(chip)
       PROVE  /\ cs_gpio' \subseteq Chips /\ unfound' \in BOOLEAN
              /\ UNCHANGED <<kind, ret, bound, major, region, cdev, class, device,
                             private_data, output, file, undefined, probes, met>>
  BY <1>13 DEF LookUp
<1>14. CASE ProbeFindAcc
  <2>1. /\ LookUp("acc") /\ stage' = "findGyr" /\ failed' = failed /\ "acc" \in Chips
    BY <1>14 DEF ProbeFindAcc, Chips
  <2> QED BY <1>13, <2>1
<1>15. CASE ProbeFindGyr
  <2>1. /\ LookUp("gyr") /\ stage' \in {"outAcc", "idle"} /\ failed' \in BOOLEAN
        /\ "gyr" \in Chips
    BY <1>15 DEF ProbeFindGyr, Fails, Chips
  <2> QED BY <1>13, <2>1
<1>16. ASSUME NEW chip \in Chips, ProbeOutput(chip)
       PROVE  BindingTypeOK' /\ kind' = kind
  BY <1>16 DEF ProbeOutput, MakeOutput, Chips
<1> QED
  BY <1>1, <1>2, <1>3, <1>4, <1>5, <1>6, <1>7, <1>8, <1>9, <1>10, <1>11, <1>12, <1>14,
     <1>15, <1>16
     DEF BindingNext, Probe, Remove

Binds ==
  DriverProbe \/ DriverRemove \/ \E u \in Users : DriverOpen(u) \/ DriverRelease(u)

\* What those steps are to the chips: the set-up begins with nothing gone wrong,
\* and no driver of the BMI088 becomes bound in them.
LEMMA BindingStep ==
  ASSUME TypeOK, BindingInv, Binds
  PROVE  /\ UNCHANGED <<step, low, at, job, buffer, mag_test, measuring, measured, overlapped>>
         /\ UNCHANGED <<acc, accSet, gyrSet, output>>
         /\ (unfound => unfound') /\ (private_data => private_data')
         /\ botched' \in BOOLEAN
         /\ stage = "chip" => stage' = "chip" /\ botched' = botched
         /\ stage # "chip" /\ stage' = "chip" => kind = "bmi088"
         /\ bound' /\ kind = "bmi088" => bound /\ botched' = botched
<1> USE DEF At, Go, objects, pins, history, Others, chips, bus, mag
<1>0. botched \in BOOLEAN /\ (bound => stage = "idle")
  BY DEF TypeOK, BindingInv, BoundOk
<1>1. ASSUME DriverProbe
      PROVE  /\ stage # "chip"
             /\ stage' = "chip" => kind = "bmi088"
             /\ bound' /\ kind = "bmi088" => bound
             /\ output' = output
             /\ (unfound => unfound') /\ (private_data => private_data')
  <2>1. CASE ProbeNumber \/ ProbeCdev \/ ProbeClass
    BY <2>1 DEF ProbeNumber, ProbeCdev, ProbeClass, Fails
  <2>2. CASE ProbeDevice \/ ProbeNode
    BY <2>2 DEF ProbeDevice, AfterDevice, ProbeNode, Fails
  <2>3. CASE ProbePrivate
    BY <2>3 DEF ProbePrivate, Succeeds
  <2>4. CASE ProbeFindAcc \/ ProbeFindGyr
    <3>1. \E chip \in Chips : LookUp(chip)
      BY <2>4 DEF ProbeFindAcc, ProbeFindGyr, Chips
    <3>2. UNCHANGED <<bound, output, private_data>> /\ (unfound => unfound')
      BY <3>1 DEF LookUp
    <3>3. stage # "chip" /\ stage' # "chip"
      BY <2>4 DEF ProbeFindAcc, ProbeFindGyr, Fails
    <3> QED BY ONLY <3>2, <3>3
  <2> QED BY <1>1, <2>1, <2>2, <2>3, <2>4 DEF DriverProbe, Probe
<1>2. ASSUME DriverProbe
      PROVE  /\ UNCHANGED <<step, low, at, job, buffer, mag_test, measuring, measured, overlapped>>
             /\ UNCHANGED <<acc, accSet, gyrSet>>
             /\ botched' = (botched /\ stage # "private")
  BY <1>2 DEF DriverProbe
<1>3. ASSUME DriverRemove
      PROVE  /\ stage # "chip" /\ stage' # "chip" /\ (bound' => bound)
             /\ UNCHANGED <<step, low, at, job, buffer, mag_test, measuring, measured, overlapped>>
             /\ UNCHANGED <<acc, accSet, gyrSet, botched, output, unfound, private_data>>
  BY <1>3 DEF DriverRemove, Remove, RemoveBegin, RemoveCdev, RemoveNumber, RemoveDevice,
              RemoveClass
<1>4. ASSUME NEW u \in Users, DriverOpen(u) \/ DriverRelease(u)
      PROVE  /\ UNCHANGED <<stage, bound>>
             /\ UNCHANGED <<step, low, at, job, buffer, mag_test, measuring, measured, overlapped>>
             /\ UNCHANGED <<acc, accSet, gyrSet, botched, output, unfound, private_data>>
  BY <1>4 DEF DriverOpen, DriverRelease, Open, Release
<1>5. CASE DriverProbe
  BY <1>0, <1>1, <1>2, <1>5
<1> QED
  BY <1>0, <1>3, <1>4, <1>5 DEF Binds

\* What the driver knows of the pins follows from the stages of probe.
LEMMA GpioUnderBinding ==
  ASSUME BindingTypeOK, GpioInv, [BindingNext]_binding, at' = at
  PROVE  GpioInv'
<1> USE DEF At, Go, objects, pins, history, GpioInv
<1>1. ASSUME UNCHANGED <<kind, private_data, pins, unfound>>,
             stage' \in {"outAcc", "outGyr", "private", "findGyr"} => stage' = stage
      PROVE  GpioInv'
  BY <1>1
<1>2. CASE ProbeNumber \/ ProbeCdev \/ ProbeClass
  BY <1>1, <1>2 DEF ProbeNumber, ProbeCdev, ProbeClass, Fails
<1>3. CASE ProbeDevice
  <2>1. UNCHANGED <<kind, private_data, cs_gpio, unfound>>
        /\ (kind = "bmi088" => stage' \notin {"outAcc", "outGyr", "private", "findGyr"})
        /\ stage' # "findGyr"
    BY <1>3 DEF ProbeDevice, AfterDevice, Fails
  <2> QED BY <2>1
<1>4. CASE ProbeNode
  BY <1>4, <1>1 DEF ProbeNode, Fails
<1>5. CASE ProbeFindAcc \/ ProbeFindGyr
  <2>1. PICK chip \in Chips : /\ LookUp(chip)
                              /\ \/ chip = "acc" /\ stage' = "findGyr"
                                 \/ /\ chip = "gyr"
                                    /\ \/ stage' = "outAcc" /\ cs_gpio' = Chips
                                       \/ stage' = "idle"
                              /\ stage = (IF chip = "acc" THEN "findAcc" ELSE "findGyr")
    BY <1>5 DEF ProbeFindAcc, ProbeFindGyr, Fails, Chips
  <2>2. /\ UNCHANGED <<kind, private_data>> /\ (~unfound' => ~unfound /\ chip \in cs_gpio')
        /\ chip \in cs_gpio' => cs_gpio' = cs_gpio \cup {chip}
    BY <2>1 DEF LookUp
  <2>3. cs_gpio = Chips => cs_gpio \cup {chip} = Chips
    OBVIOUS
  <2>4. stage' = "findGyr" => chip = "acc"
    BY ONLY <2>1
  <2>5. stage' \in {"outAcc", "outGyr", "private"} => cs_gpio' = Chips
    BY ONLY <2>1
  <2> QED BY <2>2, <2>3, <2>4, <2>5
<1>6. ASSUME NEW chip \in Chips, ProbeOutput(chip)
      PROVE  GpioInv'
  BY <1>6 DEF ProbeOutput, MakeOutput
<1>7. CASE ProbePrivate
  BY <1>7 DEF ProbePrivate, Succeeds
<1>8. CASE ProbeReturn
  BY <1>8, <1>1 DEF ProbeReturn, Succeeds, Fails
<1>9. CASE Remove
  BY <1>9, <1>1 DEF Remove, RemoveBegin, RemoveCdev, RemoveNumber, RemoveDevice, RemoveClass
<1>10. CASE Fault
  BY <1>10, <1>1 DEF Fault
<1>11. ASSUME NEW u \in Users, Open(u) \/ Release(u)
       PROVE  GpioInv'
  BY <1>11, <1>1 DEF Open, Release
<1>12. CASE UNCHANGED binding
  BY <1>12, <1>1 DEF binding
<1> QED
  BY <1>2, <1>3, <1>4, <1>5, <1>6, <1>7, <1>8, <1>9, <1>10, <1>11, <1>12
     DEF BindingNext, Probe

LEMMA PinsSame ==
  ASSUME PinsInv, UNCHANGED <<step, low, at, job, overlapped, output>>, unfound => unfound'
  PROVE  PinsInv'
  BY DEF PinsInv, ChipsOf, Current, Inside

LEMMA SampleSame ==
  ASSUME SampleInv, BufferInv, UNCHANGED <<job, buffer, mag_test, overlapped>>
  PROVE  SampleInv' /\ BufferInv'
  BY DEF SampleInv, BufferInv, Reading

LEMMA BusUnderBinding ==
  ASSUME BusInv, BindingInv, Binds, [BindingNext]_binding
  PROVE  BusInv'
<1>0. /\ TypeOK /\ KindInv /\ StepInv /\ GpioInv /\ PinsInv /\ SampleInv /\ BufferInv
      /\ DeafInv /\ SetUpInv /\ ReadyWhenBound
  BY DEF BusInv
<1>1. BindingTypeOK' /\ kind' = kind
  BY <1>0, BindingTyped DEF TypeOK
<1>2. /\ UNCHANGED <<step, low, at, job, buffer, mag_test, measuring, measured, overlapped>>
      /\ UNCHANGED <<acc, accSet, gyrSet, output>>
      /\ (unfound => unfound') /\ (private_data => private_data')
      /\ botched' \in BOOLEAN
      /\ stage = "chip" => stage' = "chip" /\ botched' = botched
      /\ stage # "chip" /\ stage' = "chip" => kind = "bmi088"
      /\ bound' /\ kind = "bmi088" => bound /\ botched' = botched
  BY <1>0, BindingStep
<1>3. TypeOK'
  BY ONLY <1>0, <1>1, <1>2 DEF TypeOK
<1>4. KindInv'
  BY ONLY <1>0, <1>1, <1>2 DEF KindInv
<1>5. StepInv'
  BY ONLY <1>0, <1>2 DEF StepInv
<1>6. PinsInv' /\ SampleInv' /\ BufferInv'
  BY <1>0, <1>2, PinsSame, SampleSame
<1>7. DeafInv'
  BY ONLY <1>0, <1>2 DEF DeafInv, Wired
<1>8. SetUpInv'
  <2>1. CASE stage = "chip"
    BY ONLY <2>1, <1>0, <1>2 DEF SetUpInv, Done, Wired
  <2>2. CASE stage # "chip"
    <3>1. step' = "accEdge"
      BY <2>2, <1>0, <1>2 DEF StepInv
    <3> QED BY ONLY <3>1 DEF SetUpInv, Done, ToWake, ToAccSet, ToGyrSet
  <2> QED BY <2>1, <2>2
<1>9. ReadyWhenBound'
  BY ONLY <1>0, <1>1, <1>2 DEF ReadyWhenBound, Wired
<1>10. GpioInv'
  BY <1>0, <1>2, GpioUnderBinding DEF TypeOK
<1> QED
  BY ONLY <1>3, <1>4, <1>5, <1>6, <1>7, <1>8, <1>9, <1>10 DEF BusInv

\* A pin becomes an output while no transfer of the probe is open; who had pulled it
\* down is disturbed.
LEMMA BusUnderOutput ==
  ASSUME BusInv, BindingInv, NEW chip \in Chips, DriverOutput(chip)
  PROVE  BusInv'
<1>0. /\ TypeOK /\ KindInv /\ StepInv /\ GpioInv /\ PinsInv /\ SampleInv /\ BufferInv
      /\ DeafInv /\ SetUpInv /\ ReadyWhenBound
  BY DEF BusInv
<1>1. [BindingNext]_binding /\ ProbeOutput(chip)
  BY DEF DriverOutput, BindingNext
<1>2. BindingTypeOK' /\ kind' = kind
  BY <1>0, <1>1, BindingTyped DEF TypeOK
<1>3. /\ stage # "chip" /\ stage # "idle" /\ stage' # "chip"
      /\ UNCHANGED <<bound, unfound>>
      /\ \/ ret' = 0 /\ output' = output \cup {chip}
         \/ ret' = -1 /\ UNCHANGED output
  BY <1>1 DEF ProbeOutput, MakeOutput, At, Go, history
<1>4. ~bound /\ ~bound'
  BY <1>3 DEF BindingInv, BoundOk
<1>5. UNCHANGED <<step, at, job, buffer, mag_test, measuring, measured, accSet, gyrSet, botched>>
  BY DEF DriverOutput, mag
<1>6. /\ low' \subseteq low /\ (acc' = acc \/ acc' = "asleep")
      /\ overlapped \subseteq overlapped' /\ overlapped' \subseteq overlapped \cup Users
  BY DEF DriverOutput, Edge
<1>7. step = "accEdge" /\ at["probe"] = "rest"
  BY <1>0, <1>3 DEF StepInv
<1>8. TypeOK'
  <2>1. low' \subseteq Chips /\ overlapped' \subseteq Agents
        /\ acc' \in {"deaf", "asleep", "awake"}
    BY <1>0, <1>6, AgentsAre DEF TypeOK
  <2> QED BY ONLY <1>0, <1>2, <1>5, <2>1 DEF TypeOK
<1>9. KindInv' /\ StepInv' /\ SetUpInv' /\ ReadyWhenBound' /\ DeafInv'
  BY ONLY <1>0, <1>2, <1>3, <1>4, <1>5, <1>7
     DEF KindInv, StepInv, SetUpInv, ReadyWhenBound, DeafInv
<1>10. GpioInv'
  BY <1>0, <1>1, <1>5, GpioUnderBinding DEF TypeOK
<1>11. SampleInv' /\ BufferInv'
  BY <1>0, <1>5, <1>6 DEF SampleInv, BufferInv, Reading
<1>12. PinsInv'
  <2> SUFFICES ASSUME ~unfound
               PROVE  /\ low' \subseteq output'
                      /\ \A c \in low' : \E a \in Agents : at[a] # "rest" /\ c \in ChipsOf(a)
                      /\ \A a \in Agents : at[a] # "rest" /\ a \notin overlapped' =>
                           Inside(a) = {} /\ (ChipsOf(a) \cap output') \subseteq low'
    BY <1>3, <1>5 DEF PinsInv, ChipsOf, Current, Inside
  <2>1. /\ low \subseteq output
        /\ \A c \in low : \E a \in Agents : at[a] # "rest" /\ c \in ChipsOf(a)
        /\ \A a \in Agents : at[a] # "rest" /\ a \notin overlapped =>
             Inside(a) = {} /\ (ChipsOf(a) \cap output) \subseteq low
    BY <1>0 DEF PinsInv
  <2>2. ASSUME NEW a \in Agents, at[a] # "rest", a \notin overlapped'
        PROVE  (ChipsOf(a) \cap output') \subseteq low'
    <3>1. CASE ret' = 0
      <4>1. /\ low' = low \ {chip} /\ output' = output \cup {chip}
            /\ overlapped' = overlapped \cup {u \in Users : at[u] # "rest" /\ job[u] = chip}
        BY <1>3, <3>1 DEF DriverOutput
      <4>2. a \in Users /\ job[a] # chip /\ ChipsOf(a) = {job[a]}
        BY <1>7, <2>2, <4>1, AgentsAre DEF Agents, ChipsOf
      <4> QED BY <2>1, <2>2, <4>1, <4>2
    <3>2. CASE ret' # 0
      BY <1>3, <2>1, <2>2, <3>2 DEF DriverOutput
    <3> QED BY <3>1, <3>2
  <2> QED BY <1>3, <1>6, <2>1, <2>2
<1> QED
  BY ONLY <1>8, <1>9, <1>10, <1>11, <1>12 DEF BusInv

------------------------------------------------------------------------------
(* The set-up of the chips                                                  *)

\* A step of the set-up belongs to the BMI088, which is not bound yet, and no
\* program reads a magnetometer.
LEMMA SetupFrame ==
  ASSUME BusInv, BindingInv, At("chip"), UNCHANGED <<binding, job, mag>>
  PROVE  /\ BindingTypeOK' /\ kind = "bmi088" /\ ~bound
         /\ UNCHANGED <<kind, stage, bound, job, buffer, mag_test, measuring, measured>>
         /\ UNCHANGED <<private_data, output, unfound>>
         /\ private_data /\ (~unfound => cs_gpio = Chips)
         /\ SampleInv' /\ BufferInv' /\ ReadyWhenBound' /\ (Wired' <=> Wired)
         /\ (\A u \in Users : at'[u] = at[u]) => GpioInv'
<1>1. kind = "bmi088" /\ BindingTypeOK /\ \A u \in Users : job[u] \notin HmcJobs
  BY DEF BusInv, KindInv, TypeOK, At
<1>2. ~bound
  BY DEF BindingInv, BoundOk, At
<1>3. UNCHANGED <<kind, stage, bound, job, buffer, mag_test, measuring, measured>>
  BY DEF binding, mag
<1>4. BindingTypeOK'
  BY <1>1, BindingTyped
<1>5. \A u \in Users : buffer'[u] \in 0 .. Measures - 1 \/ job'[u] \notin {"first", "last", "copy"}
  BY <1>1, <1>3 DEF HmcJobs
<1>6. SampleInv' /\ BufferInv'
  BY <1>1, <1>3, <1>5 DEF SampleInv, BufferInv
<1>7. /\ UNCHANGED <<private_data, cs_gpio, output, unfound>>
      /\ private_data /\ (~unfound => cs_gpio = Chips)
  BY <1>1 DEF binding, pins, history, BindingInv, Holds, BusInv, GpioInv, At
<1>8. ASSUME \A u \in Users : at'[u] = at[u]
      PROVE  GpioInv'
  BY <1>3, <1>7, <1>8 DEF BusInv, GpioInv
<1> QED
  BY <1>1, <1>2, <1>3, <1>4, <1>6, <1>7, <1>8 DEF ReadyWhenBound, Wired

LEMMA BusUnderSelect ==
  ASSUME BusInv, BindingInv, SetupSelect
  PROVE  BusInv'
<1>0. /\ TypeOK /\ KindInv /\ StepInv /\ GpioInv /\ PinsInv /\ SampleInv /\ BufferInv
      /\ DeafInv /\ SetUpInv /\ ReadyWhenBound
  BY DEF BusInv
<1>1. stage = "chip" /\ UNCHANGED <<step, acc, accSet, gyrSet, botched>>
  BY DEF SetupSelect, At, chips
<1>2. /\ BindingTypeOK' /\ kind = "bmi088" /\ ~bound
      /\ UNCHANGED <<kind, stage, bound, job, buffer, mag_test, measuring, measured>>
      /\ UNCHANGED <<private_data, output, unfound>>
      /\ private_data /\ (~unfound => cs_gpio = Chips)
      /\ SampleInv' /\ BufferInv' /\ ReadyWhenBound' /\ (Wired' <=> Wired)
      /\ (\A u \in Users : at'[u] = at[u]) => GpioInv'
  BY SetupFrame DEF SetupSelect
<1>3. PICK op \in Current : Select("probe", op.chip)
  BY DEF SetupSelect
<1>4. /\ op \in Setup /\ op.name = step /\ op.chip \in Chips /\ ChipsOf("probe") = {op.chip}
      /\ step # "done"
  BY CurrentChip, TableNames DEF AccSteps, GyrSteps
<1>5. /\ at' = [at EXCEPT !["probe"] = "selected"]
      /\ low' = low \cup ({op.chip} \cap Driven)
      /\ overlapped' \subseteq overlapped \cup Inside("probe") \cup {"probe"}
  BY <1>3 DEF Select, Overlap
<1>6. at'["probe"] = "selected" /\ at["probe"] = "rest" /\ \A u \in Users : at'[u] = at[u]
  BY <1>0, <1>5, <1>3, AgentsAre DEF TypeOK, Select
<1>7. TypeOK'
  <2>1. low' \subseteq Chips /\ overlapped' \subseteq Agents
    BY <1>0, <1>4, <1>5, AgentsAre DEF TypeOK, Inside
  <2>2. at' \in [Agents -> {"rest", "selected", "sent", "failed"}]
    BY <1>0, <1>5 DEF TypeOK
  <2> QED BY ONLY <1>0, <1>1, <1>2, <2>1, <2>2 DEF TypeOK
<1>8. KindInv'
  BY ONLY <1>0, <1>2, <1>6 DEF KindInv
<1>9. StepInv'
  BY ONLY <1>0, <1>1, <1>2, <1>4 DEF StepInv
<1>10. PinsInv'
  <2>1. \A b \in Agents : ChipsOf(b)' = ChipsOf(b)
    BY <1>1, <1>2 DEF ChipsOf, Current
  <2> QED BY <2>1, <1>0, <1>2, <1>3, <1>4, AgentsAre, PinsSelect
<1>11. DeafInv'
  <2>1. Wired /\ step = "accEdge" => "acc" \in low'
    BY <1>0, <1>2, <1>4, <1>5, TableNames, DrivenAre DEF Wired, AccSteps, Chips
  <2> QED BY ONLY <1>0, <1>1, <1>2, <1>6, <2>1 DEF DeafInv
<1>12. SetUpInv'
  BY ONLY <1>0, <1>1, <1>2, <1>6 DEF SetUpInv, Done
<1> QED
  BY ONLY <1>2, <1>6, <1>7, <1>8, <1>9, <1>10, <1>11, <1>12 DEF BusInv

LEMMA BusUnderSend ==
  ASSUME BusInv, BindingInv, SetupSend
  PROVE  BusInv'
<1>0. /\ TypeOK /\ KindInv /\ StepInv /\ GpioInv /\ PinsInv /\ SampleInv /\ BufferInv
      /\ DeafInv /\ SetUpInv /\ ReadyWhenBound
  BY DEF BusInv
<1>1. stage = "chip" /\ UNCHANGED <<step, botched>>
  BY DEF SetupSend, At
<1>2. /\ BindingTypeOK' /\ kind = "bmi088" /\ ~bound
      /\ UNCHANGED <<kind, stage, bound, job, buffer, mag_test, measuring, measured>>
      /\ UNCHANGED <<private_data, output, unfound>>
      /\ private_data /\ (~unfound => cs_gpio = Chips)
      /\ SampleInv' /\ BufferInv' /\ ReadyWhenBound' /\ (Wired' <=> Wired)
      /\ (\A u \in Users : at'[u] = at[u]) => GpioInv'
  BY SetupFrame DEF SetupSend
<1>3. PICK op \in Current :
        \/ /\ Send("probe", "sent")
           /\ IF Hears(op.chip) THEN Reacts(op.chip, op.effect)
                               ELSE UNCHANGED <<acc, accSet, gyrSet>>
        \/ Send("probe", "failed") /\ UNCHANGED <<acc, accSet, gyrSet>>
  BY DEF SetupSend
<1>4. /\ op \in Setup /\ op.name = step /\ op.chip \in Chips /\ ChipsOf("probe") = {op.chip}
      /\ step # "done"
  BY CurrentChip, TableNames DEF AccSteps, GyrSteps
<1>5. PICK outcome \in {"sent", "failed"} : Send("probe", outcome)
  BY <1>3
<1>6. /\ at["probe"] = "selected" /\ at'["probe"] = outcome /\ \A u \in Users : at'[u] = at[u]
      /\ at' \in [Agents -> {"rest", "selected", "sent", "failed"}]
      /\ UNCHANGED <<low, overlapped>>
  BY <1>0, <1>5, AgentsAre DEF TypeOK, Send
\* What the chips do.
<1>7. /\ acc' \in {"deaf", "asleep", "awake"}
      /\ accSet' \in BOOLEAN /\ gyrSet' \in BOOLEAN
      /\ acc' = acc \/ acc' = "awake"
         \/ (acc' = "deaf" /\ outcome = "sent" /\ op.chip = "acc" /\ op.effect = "reset")
      /\ accSet => accSet' \/ (op.chip = "acc" /\ op.effect = "reset")
      /\ gyrSet => gyrSet' \/ (op.chip = "gyr" /\ op.effect = "reset")
  <2>1. acc \in {"deaf", "asleep", "awake"} /\ accSet \in BOOLEAN /\ gyrSet \in BOOLEAN
    BY <1>0 DEF TypeOK
  <2>2. CASE UNCHANGED <<acc, accSet, gyrSet>>
    <3>1. accSet' \in BOOLEAN /\ gyrSet' \in BOOLEAN
      BY <2>1, <2>2
    <3>2. (accSet => accSet') /\ (gyrSet => gyrSet')
      BY <2>2
    <3> QED BY <2>1, <2>2, <3>1, <3>2
  <2>3. CASE Reacts(op.chip, op.effect) /\ Send("probe", "sent")
    <3>1. outcome = "sent"
      BY <2>3, <1>6, <1>0, AgentsAre DEF Send, TypeOK
    <3>2. acc' = acc \/ acc' = "awake"
          \/ (acc' = "deaf" /\ op.chip = "acc" /\ op.effect = "reset")
      BY <2>3 DEF Reacts
    <3>3. accSet' \in BOOLEAN /\ (accSet => accSet' \/ (op.chip = "acc" /\ op.effect = "reset"))
      BY <2>1, <2>3 DEF Reacts
    <3>4. gyrSet' \in BOOLEAN /\ (gyrSet => gyrSet' \/ (op.chip = "gyr" /\ op.effect = "reset"))
      BY <2>1, <2>3 DEF Reacts
    <3> QED BY <2>1, <3>1, <3>2, <3>3, <3>4
  <2> QED BY <1>3, <2>2, <2>3
<1>8. /\ op.chip = "acc" /\ op.effect = "reset" => step = "accReset"
      /\ op.chip = "gyr" /\ op.effect = "reset" => step = "gyrReset"
  BY <1>4, TableOrder
\* A transfer that nobody overlaps is heard.
<1>9. ASSUME Wired, outcome = "sent", "probe" \notin overlapped, step # "accEdge"
      PROVE  Reacts(op.chip, op.effect)
  <2>1. low = {op.chip}
    BY <1>0, <1>4, <1>6, <1>9, AgentsAre, PinsAlone
  <2>2. acc # "deaf"
    BY <1>0, <1>6, <1>9 DEF DeafInv
  <2>3. ~Send("probe", "failed")
    BY <1>0, <1>6, <1>9, AgentsAre DEF Send, TypeOK
  <2> QED BY <1>3, <2>1, <2>2, <2>3 DEF Hears
<1>10. TypeOK'
  BY ONLY <1>0, <1>1, <1>2, <1>6, <1>7 DEF TypeOK
<1>11. KindInv'
  BY ONLY <1>0, <1>2, <1>6 DEF KindInv
<1>12. StepInv'
  BY ONLY <1>0, <1>1, <1>2, <1>4 DEF StepInv
<1>13. PinsInv'
  <2>1. \A b \in Agents : ChipsOf(b)' = ChipsOf(b)
    BY <1>1, <1>2 DEF ChipsOf, Current
  <2> QED BY <2>1, <1>0, <1>2, <1>5, AgentsAre, PinsSend
<1>14. DeafInv'
  <2>1. ASSUME acc' = "deaf", acc # "deaf"
        PROVE  step = "accReset" /\ outcome = "sent" /\ "acc" \in low
    <3>1. step = "accReset" /\ outcome = "sent" /\ op.chip = "acc"
      BY <1>7, <1>8, <2>1
    <3> QED BY <1>3, <2>1, <3>1 DEF Hears
  <2> QED BY ONLY <1>0, <1>1, <1>2, <1>6, <2>1 DEF DeafInv
<1>15. SetUpInv'
  <2> SUFFICES ASSUME Wired, ~botched
               PROVE  /\ step \notin ToWake \/ Done("accCtrl")' => acc' = "awake"
                      /\ step \notin ToAccSet \/ Done("accRange")' => accSet'
                      /\ step \notin ToGyrSet \/ Done("gyrRange")' => gyrSet'
    BY <1>1, <1>2 DEF SetUpInv
  <2>1. /\ step \notin ToWake => acc = "awake"
        /\ step \notin ToAccSet => accSet
        /\ step \notin ToGyrSet => gyrSet
    BY <1>0, <1>1 DEF SetUpInv
  <2>2. /\ step \notin ToWake => acc' = "awake"
        /\ step \notin ToAccSet => accSet'
        /\ step \notin ToGyrSet => gyrSet'
    BY ONLY <2>1, <1>7, <1>8 DEF ToWake, ToAccSet, ToGyrSet
  <2>3. ASSUME NEW name \in {"accCtrl", "accRange", "gyrRange"}, Done(name)'
        PROVE  /\ step = name /\ Reacts(op.chip, op.effect)
    <3>1. step = name /\ outcome = "sent" /\ "probe" \notin overlapped
      BY <2>3, <1>1, <1>6 DEF Done
    <3> QED BY <3>1, <1>9
  <2>4. Done("accCtrl")' => acc' = "awake"
    <3>1. step = "accCtrl" => op.chip = "acc" /\ op.effect = "wake"
      BY <1>4, TableNames, TableOrder DEF AccSteps
    <3> QED BY <2>3, <3>1 DEF Reacts
  <2>5. Done("accRange")' => accSet'
    <3>1. step = "accRange" => op.chip = "acc" /\ op.effect = "set"
      BY <1>4, TableNames, TableOrder DEF AccSteps
    <3> QED BY <2>3, <3>1 DEF Reacts
  <2>6. Done("gyrRange")' => gyrSet'
    <3>1. step = "gyrRange" => op.chip = "gyr" /\ op.effect = "set"
      BY <1>4, TableNames, TableOrder DEF GyrSteps
    <3> QED BY <2>3, <3>1 DEF Reacts
  <2> QED BY <2>2, <2>4, <2>5, <2>6
<1> QED
  BY ONLY <1>2, <1>6, <1>10, <1>11, <1>12, <1>13, <1>14, <1>15 DEF BusInv

\* The transfer ends; the one that comes next has its predecessors behind it.
LEMMA BusUnderDeselect ==
  ASSUME BusInv, BindingInv, SetupDeselect
  PROVE  BusInv'
<1>0. /\ TypeOK /\ KindInv /\ StepInv /\ GpioInv /\ PinsInv /\ SampleInv /\ BufferInv
      /\ DeafInv /\ SetUpInv /\ ReadyWhenBound
  BY DEF BusInv
<1>1. stage = "chip" /\ UNCHANGED <<accSet, gyrSet>>
  BY DEF SetupDeselect, At
<1>2. /\ BindingTypeOK' /\ kind = "bmi088" /\ ~bound
      /\ UNCHANGED <<kind, stage, bound, job, buffer, mag_test, measuring, measured>>
      /\ UNCHANGED <<private_data, output, unfound>>
      /\ private_data /\ (~unfound => cs_gpio = Chips)
      /\ SampleInv' /\ BufferInv' /\ ReadyWhenBound' /\ (Wired' <=> Wired)
      /\ (\A u \in Users : at'[u] = at[u]) => GpioInv'
  BY SetupFrame DEF SetupDeselect
<1>3. PICK op \in Current :
        /\ Deselect("probe", op.chip)
        /\ step' = IF at["probe"] = "sent" THEN op.ok ELSE op.fails
        /\ acc' = IF "acc" \in low \ low' /\ acc = "deaf" THEN "asleep" ELSE acc
  BY DEF SetupDeselect, Edge
<1>4. /\ op \in Setup /\ op.name = step /\ op.chip \in Chips /\ ChipsOf("probe") = {op.chip}
      /\ step' \in AccSteps \cup GyrSteps \cup {"done"}
  BY <1>3, CurrentChip, TableNames
<1>5. /\ at["probe"] \in {"sent", "failed"} /\ at'["probe"] = "rest"
      /\ \A u \in Users : at'[u] = at[u]
      /\ at' \in [Agents -> {"rest", "selected", "sent", "failed"}]
      /\ low' \subseteq low /\ overlapped' = overlapped
  BY <1>0, <1>3, AgentsAre DEF TypeOK, Deselect
<1>6. /\ botched' \in BOOLEAN
      /\ ~botched' => ~botched /\ at["probe"] = "sent" /\ "probe" \notin overlapped
  BY <1>5 DEF SetupDeselect
<1>7. /\ acc \in {"deaf", "asleep", "awake"} /\ acc' \in {"deaf", "asleep", "awake"}
      /\ acc = "awake" => acc' = "awake"
      /\ Wired => acc' # "deaf"
  <2>1. ASSUME Wired, acc = "deaf"
        PROVE  "acc" \in low /\ op.chip = "acc"
    BY <1>0, <1>4, <1>5, <2>1, TableNames DEF DeafInv, AccSteps
  <2>2. ASSUME Wired, op.chip = "acc"
        PROVE  "acc" \notin low'
    BY <1>0, <1>2, <1>3, <2>2, DrivenAre DEF Deselect, Wired, Chips
  <2> QED BY <2>1, <2>2, <1>0, <1>3 DEF TypeOK
<1>8. TypeOK'
  <2>1. step' \in {o.name : o \in Setup} \cup {"done"}
    BY <1>4, TableNames
  <2> QED BY ONLY <1>0, <1>1, <1>2, <1>5, <1>6, <1>7, <2>1 DEF TypeOK
<1>9. KindInv'
  BY ONLY <1>0, <1>2, <1>5 DEF KindInv
<1>10. StepInv'
  BY ONLY <1>1, <1>2, <1>5 DEF StepInv
<1>11. PinsInv'
  <2>1. \A b \in Agents \ {"probe"} : ChipsOf(b)' = ChipsOf(b)
    BY <1>2 DEF ChipsOf
  <2> QED BY <2>1, <1>0, <1>2, <1>3, <1>4, AgentsAre, PinsDeselect
<1>12. DeafInv'
  BY ONLY <1>2, <1>7 DEF DeafInv
<1>13. SetUpInv'
  <2> SUFFICES ASSUME Wired, ~botched'
               PROVE  /\ step' \notin ToWake => acc' = "awake"
                      /\ step' \notin ToAccSet => accSet'
                      /\ step' \notin ToGyrSet => gyrSet'
    BY <1>2, <1>5 DEF SetUpInv, Done
  <2>1. ~botched /\ at["probe"] = "sent" /\ "probe" \notin overlapped /\ step' = op.ok
    BY <1>3, <1>6
  <2>2. \A name : step = name => Done(name)
    BY <2>1 DEF Done
  <2>3. /\ step' \notin ToWake => step \notin ToWake \/ Done("accCtrl")
        /\ step' \notin ToAccSet => step \notin ToAccSet \/ Done("accRange")
        /\ step' \notin ToGyrSet => step \notin ToGyrSet \/ Done("gyrRange")
    BY <1>4, <2>1, <2>2, TableOrder
  <2>4. /\ step \notin ToWake \/ Done("accCtrl") => acc = "awake"
        /\ step \notin ToAccSet \/ Done("accRange") => accSet
        /\ step \notin ToGyrSet \/ Done("gyrRange") => gyrSet
    BY <1>0, <1>1, <2>1 DEF SetUpInv
  <2> QED BY <1>1, <1>7, <2>3, <2>4
<1> QED
  BY ONLY <1>2, <1>5, <1>8, <1>9, <1>10, <1>11, <1>12, <1>13 DEF BusInv

\* probe returns with all commands given, or with something gone wrong.
LEMMA BusUnderEnd ==
  ASSUME BusInv, BindingInv, SetupEnd
  PROVE  BusInv'
<1>0. /\ TypeOK /\ KindInv /\ StepInv /\ GpioInv /\ PinsInv /\ SampleInv /\ BufferInv
      /\ DeafInv /\ SetUpInv /\ ReadyWhenBound
  BY DEF BusInv
<1>1. /\ step = "done" /\ step' = "accEdge" /\ stage = "chip" /\ stage' = "idle"
      /\ at["probe"] = "rest"
      /\ UNCHANGED <<low, at, job, buffer, mag_test, measuring, measured, acc, accSet, gyrSet, botched,
                     overlapped, output, unfound>>
  BY <1>0 DEF SetupEnd, ProbeReturn, At, Succeeds, Fails, StepInv, bus, mag, chips, pins
<1>2. BindingTypeOK' /\ kind' = kind /\ kind = "bmi088" /\ GpioInv'
  <2>1. [BindingNext]_binding
    BY DEF SetupEnd, BindingNext
  <2> QED BY <1>0, <1>1, <2>1, BindingTyped, GpioUnderBinding DEF TypeOK, KindInv
<1>3. TypeOK'
  <2>1. step' \in {o.name : o \in Setup} \cup {"done"}
    BY <1>1, TableNames DEF AccSteps
  <2> QED BY ONLY <1>0, <1>1, <1>2, <2>1 DEF TypeOK
<1>4. KindInv' /\ StepInv' /\ DeafInv'
  BY ONLY <1>0, <1>1, <1>2 DEF KindInv, StepInv, DeafInv, Wired
<1>5. PinsInv'
  <2>1. \A b \in Agents : at[b] # "rest" => ChipsOf(b)' = ChipsOf(b)
    BY <1>1 DEF ChipsOf
  <2>2. \A b \in Agents : Inside(b)' = Inside(b)
    BY <1>1 DEF Inside
  <2> QED BY ONLY <1>0, <1>1, <2>1, <2>2 DEF PinsInv
<1>6. SampleInv' /\ BufferInv'
  BY <1>0, <1>1, SampleSame
<1>7. SetUpInv'
  BY ONLY <1>1 DEF SetUpInv
<1>8. ReadyWhenBound'
  <2>1. Wired /\ ~botched => acc = "awake" /\ accSet /\ gyrSet
    BY ONLY <1>0, <1>1 DEF SetUpInv, ToWake, ToAccSet, ToGyrSet
  <2> QED BY ONLY <1>1, <2>1 DEF ReadyWhenBound, Wired
<1> QED
  BY ONLY <1>2, <1>3, <1>4, <1>5, <1>6, <1>7, <1>8 DEF BusInv

------------------------------------------------------------------------------
(* bmi088_read                                                              *)

\* What a read of the BMI088 leaves alone; it makes the chip deaf no more, and
\* undoes nothing of the set-up.
LEMMA BmiFrame ==
  ASSUME BusInv, NEW u \in Users, BmiRead(u)
  PROVE  /\ kind = "bmi088" /\ UNCHANGED <<kind, stage, bound, step, buffer, mag_test, measuring,
                                            measured>>
         /\ UNCHANGED <<accSet, gyrSet, botched, private_data, cs_gpio, output, unfound>>
         /\ acc' = acc \/ (acc = "deaf" /\ acc' = "asleep")
         /\ acc' = "deaf" /\ "acc" \in low => "acc" \in low'
         /\ at'[u] # "rest" => at[u] # "rest" \/ private_data
         /\ at'["probe"] = at["probe"] /\ overlapped' \subseteq Agents
         /\ at["probe"] = "rest" \/ ("probe" \in overlapped => "probe" \in overlapped')
         /\ at' \in [Agents -> {"rest", "selected", "sent", "failed"}]
         /\ \A v \in Users \ {u} : at'[v] = at[v] /\ job'[v] = job[v]
         /\ low' \subseteq Chips
<1> USE AgentsAre DEF mag, bus, chips, pins, history, binding
<1>0. /\ at \in [Agents -> {"rest", "selected", "sent", "failed"}] /\ low \subseteq Chips
      /\ job \in [Users -> Chips \cup {"idle", "fetch", "first", "last", "copy", "old"}]
      /\ overlapped \subseteq Agents /\ u \in Agents /\ u # "probe"
  BY DEF BusInv, TypeOK
<1>1. CASE BmiBegin(u)
  BY <1>0, <1>1 DEF BmiBegin, Reads, Job
<1>2. ASSUME NEW chip \in Chips, BmiSelect(u, chip), private_data
      PROVE  /\ kind = "bmi088"
             /\ UNCHANGED <<kind, stage, bound, step, buffer, mag_test, measuring,
                                            measured>>
             /\ UNCHANGED <<acc, accSet, gyrSet, botched, private_data, cs_gpio, output,
                            unfound, job>>
             /\ at' = [at EXCEPT ![u] = "selected"] /\ low' = low \cup ({chip} \cap Driven)
             /\ Overlap(u, Inside(u))
  BY <1>2 DEF BmiSelect, Reads, Select
<1>3. ASSUME NEW chip \in Chips, BmiSelect(u, chip), ~private_data
      PROVE  /\ kind = "bmi088"
             /\ UNCHANGED <<kind, stage, bound, step, buffer, mag_test, measuring,
                                            measured>>
             /\ UNCHANGED <<acc, accSet, gyrSet, botched, private_data, cs_gpio, output,
                            unfound, job, at, low, overlapped>>
  BY <1>3 DEF BmiSelect, Reads
<1>4. ASSUME NEW chip \in Chips, BmiSend(u, chip)
      PROVE  /\ kind = "bmi088"
             /\ UNCHANGED <<kind, stage, bound, step, buffer, mag_test, measuring,
                                            measured>>
             /\ UNCHANGED <<acc, accSet, gyrSet, botched, private_data, cs_gpio, output,
                            unfound, job, low, overlapped>>
             /\ at[u] # "rest"
             /\ \E outcome \in {"sent", "failed"} : at' = [at EXCEPT ![u] = outcome]
  BY <1>4 DEF BmiSend, Reads, Send
<1>5. ASSUME NEW chip \in Chips, NEW to, BmiDeselect(u, chip, to)
      PROVE  /\ kind = "bmi088"
             /\ UNCHANGED <<kind, stage, bound, step, buffer, mag_test, measuring,
                                            measured>>
             /\ UNCHANGED <<accSet, gyrSet, botched, private_data, cs_gpio, output,
                            unfound, overlapped>>
             /\ acc' = "deaf" /\ "acc" \in low => "acc" \in low'
             /\ acc' = acc \/ (acc = "deaf" /\ acc' = "asleep")
             /\ at' = [at EXCEPT ![u] = "rest"] /\ low' \subseteq low
             /\ job' = [job EXCEPT ![u] = to]
  BY <1>5 DEF BmiDeselect, Reads, Deselect, Edge, Job
<1>6. ASSUME Overlap(u, Inside(u))
      PROVE  /\ overlapped' \subseteq Agents
             /\ at["probe"] = "rest" \/ ("probe" \in overlapped => "probe" \in overlapped')
  BY <1>0, <1>6 DEF Overlap, Inside
<1>7. ASSUME NEW chip \in Chips, BmiSelect(u, chip)
      PROVE  /\ kind = "bmi088"
             /\ UNCHANGED <<kind, stage, bound, step, buffer, mag_test, measuring,
                                            measured>>
             /\ UNCHANGED <<acc, accSet, gyrSet, botched, private_data, cs_gpio, output,
                            unfound, job>>
             /\ \E x \in {"selected", at[u]} : at' = [at EXCEPT ![u] = x]
             /\ low \subseteq low' /\ low' \subseteq Chips /\ overlapped' \subseteq Agents
             /\ at'[u] # "rest" => at[u] # "rest" \/ private_data
             /\ at["probe"] = "rest" \/ ("probe" \in overlapped => "probe" \in overlapped')
  <2>1. CASE private_data
    BY <1>0, <1>2, <1>6, <1>7, <2>1
  <2>2. CASE ~private_data
    <3>1. at' = [at EXCEPT ![u] = at[u]]
      BY <1>0, <1>3, <1>7, <2>2
    <3> QED BY <1>0, <1>3, <1>7, <2>2, <3>1
  <2> QED BY <2>1, <2>2
<1> QED
  BY <1>0, <1>1, <1>4, <1>5, <1>7 DEF BmiRead, Chips

\* The program's own place in the read, and the pins.
LEMMA BmiPins ==
  ASSUME BusInv, NEW u \in Users, BmiRead(u)
  PROVE  /\ PinsInv' /\ job' \in [Users -> Chips \cup HmcJobs \cup {"idle"}]
         /\ job'[u] \in Chips \cup {"idle"} /\ (at'[u] # "rest" => job'[u] \in Chips)
<1> USE AgentsAre
<1>0. /\ TypeOK /\ PinsInv /\ step' = step /\ u \in Agents /\ u # "probe"
      /\ job \in [Users -> Chips \cup HmcJobs \cup {"idle"}]
      /\ at \in [Agents -> {"rest", "selected", "sent", "failed"}]
      /\ at[u] # "rest" => job[u] \in Chips
      /\ UNCHANGED <<output, unfound>>
      /\ (at[u] # "rest" \/ private_data) /\ ~unfound => cs_gpio = Chips
  BY BmiFrame DEF BusInv, TypeOK, KindInv, GpioInv, HmcJobs
<1>1. ASSUME job' = job
      PROVE  \A b \in Agents : ChipsOf(b)' = ChipsOf(b)
  BY <1>0, <1>1 DEF ChipsOf, Current
<1>2. CASE BmiBegin(u)
  <2>1. /\ job[u] = "idle" /\ job' = [job EXCEPT ![u] = "acc"]
        /\ UNCHANGED <<low, at, overlapped>>
    BY <1>2 DEF BmiBegin, Reads, Job, bus
  <2>2. at[u] = "rest"
    BY <1>0, <2>1 DEF Chips
  <2>3. \A b \in Agents : at[b] # "rest" => ChipsOf(b)' = ChipsOf(b)
    BY <1>0, <2>1, <2>2 DEF ChipsOf, Current, Agents
  <2>4. \A b \in Agents : Inside(b)' = Inside(b)
    BY <2>1 DEF Inside
  <2>5. PinsInv'
    BY ONLY <1>0, <2>1, <2>3, <2>4 DEF PinsInv
  <2> QED BY <1>0, <2>1, <2>5 DEF Chips
<1>3. ASSUME NEW chip \in Chips, BmiSelect(u, chip)
      PROVE  PinsInv' /\ job' = job /\ job[u] = chip
  <2>1. job' = job /\ job[u] = chip /\ ChipsOf(u) = {chip}
    BY <1>0, <1>3 DEF BmiSelect, Reads, ChipsOf
  <2>2. CASE private_data
    <3>1. Select(u, chip)
      BY <1>3, <2>2 DEF BmiSelect
    <3> QED BY <3>1, <1>0, <1>1, <2>1, <2>2, PinsSelect
  <2>3. CASE ~private_data
    BY <1>0, <1>3, <2>1, <2>3, PinsSame DEF BmiSelect, bus
  <2> QED BY <2>1, <2>2, <2>3
<1>4. ASSUME NEW chip \in Chips, BmiSend(u, chip)
      PROVE  PinsInv' /\ job' = job /\ job[u] = chip
  <2>1. job' = job /\ job[u] = chip
    BY <1>4 DEF BmiSend, Reads
  <2>2. PICK outcome \in {"sent", "failed"} : Send(u, outcome)
    BY <1>4 DEF BmiSend
  <2> QED BY <1>0, <1>1, <2>1, <2>2, PinsSend
<1>5. ASSUME NEW chip \in Chips, NEW to \in Chips \cup {"idle"}, BmiDeselect(u, chip, to)
      PROVE  PinsInv' /\ job' = [job EXCEPT ![u] = to] /\ at'[u] = "rest"
  <2>1. /\ job[u] = chip /\ job' = [job EXCEPT ![u] = to] /\ Deselect(u, chip)
        /\ ChipsOf(u) = {chip}
    BY <1>0, <1>5 DEF BmiDeselect, Reads, Job, ChipsOf
  <2>2. \A b \in Agents \ {u} : ChipsOf(b)' = ChipsOf(b)
    BY <1>0, <2>1 DEF ChipsOf, Current, Agents
  <2>3. at[u] # "rest" /\ at'[u] = "rest"
    BY <1>0, <2>1 DEF Deselect
  <2> QED BY <1>0, <2>1, <2>2, <2>3, PinsDeselect
<1>6. ASSUME NEW chip \in Chips, BmiSelect(u, chip) \/ BmiSend(u, chip)
      PROVE  /\ PinsInv' /\ job' \in [Users -> Chips \cup HmcJobs \cup {"idle"}]
             /\ job'[u] \in Chips
  BY <1>0, <1>3, <1>4, <1>6
<1>7. ASSUME NEW chip \in Chips, NEW to \in Chips \cup {"idle"}, BmiDeselect(u, chip, to)
      PROVE  /\ PinsInv' /\ job' \in [Users -> Chips \cup HmcJobs \cup {"idle"}]
             /\ job'[u] \in Chips \cup {"idle"} /\ at'[u] = "rest"
  BY <1>0, <1>5, <1>7
<1> QED
  BY <1>2, <1>6, <1>7 DEF BmiRead, Chips

LEMMA BusUnderBmi ==
  ASSUME BusInv, NEW u \in Users, BmiRead(u), [BindingNext]_binding
  PROVE  BusInv'
<1>0. /\ TypeOK /\ KindInv /\ StepInv /\ GpioInv /\ PinsInv /\ SampleInv /\ BufferInv
      /\ DeafInv /\ SetUpInv /\ ReadyWhenBound
  BY DEF BusInv
<1>1. /\ kind = "bmi088" /\ UNCHANGED <<kind, stage, bound, step, buffer, mag_test, measuring,
                                         measured>>
      /\ UNCHANGED <<accSet, gyrSet, botched, private_data, cs_gpio, output, unfound>>
      /\ acc' = acc \/ (acc = "deaf" /\ acc' = "asleep")
      /\ acc' = "deaf" /\ "acc" \in low => "acc" \in low'
      /\ at'[u] # "rest" => at[u] # "rest" \/ private_data
      /\ at'["probe"] = at["probe"] /\ overlapped' \subseteq Agents
      /\ at["probe"] = "rest" \/ ("probe" \in overlapped => "probe" \in overlapped')
      /\ at' \in [Agents -> {"rest", "selected", "sent", "failed"}]
      /\ \A v \in Users \ {u} : at'[v] = at[v] /\ job'[v] = job[v]
      /\ low' \subseteq Chips
  BY BmiFrame
<1>2. /\ PinsInv' /\ job' \in [Users -> Chips \cup HmcJobs \cup {"idle"}]
      /\ job'[u] \in Chips \cup {"idle"} /\ (at'[u] # "rest" => job'[u] \in Chips)
  BY BmiPins
<1>3. BindingTypeOK'
  BY <1>0, BindingTyped DEF TypeOK
<1>4. TypeOK'
  <2>1. job' \in [Users -> Chips \cup {"idle", "fetch", "first", "last", "copy", "old"}]
    BY <1>2 DEF HmcJobs
  <2>2. acc' \in {"deaf", "asleep", "awake"}
    BY <1>0, <1>1 DEF TypeOK
  <2>3. step' \in {op.name : op \in Setup} \cup {"done"}
    BY <1>0, <1>1 DEF TypeOK
  <2> QED BY ONLY <1>0, <1>1, <1>3, <2>1, <2>2, <2>3 DEF TypeOK
<1>5. \A v \in Users : job'[v] \notin HmcJobs /\ (at'[v] # "rest" => job'[v] \in Chips)
  BY <1>0, <1>1, <1>2 DEF KindInv, HmcJobs, Chips
<1>6. KindInv'
  BY ONLY <1>0, <1>1, <1>5 DEF KindInv
<1>7. StepInv' /\ DeafInv'
  BY ONLY <1>0, <1>1 DEF StepInv, DeafInv, Wired
<1>8. SampleInv' /\ BufferInv'
  BY ONLY <1>5 DEF SampleInv, BufferInv, HmcJobs
<1>9. SetUpInv'
  <2>1. \A name : Done(name)' => Done(name)
    BY ONLY <1>1 DEF Done
  <2>2. acc = "awake" => acc' = "awake"
    BY ONLY <1>1
  <2> QED BY ONLY <1>0, <1>1, <2>1, <2>2 DEF SetUpInv, Wired
<1>10. ReadyWhenBound'
  BY ONLY <1>0, <1>1 DEF ReadyWhenBound, Wired
<1>11. GpioInv'
  <2>1. ASSUME NEW a \in Agents, at'[a] # "rest"
        PROVE  private_data'
    BY <1>0, <1>1, <2>1 DEF GpioInv, Agents
  <2> QED BY ONLY <1>0, <1>1, <2>1 DEF GpioInv
<1> QED
  BY ONLY <1>11, <1>2, <1>4, <1>6, <1>7, <1>8, <1>9, <1>10 DEF BusInv

------------------------------------------------------------------------------
(* hmc5883_read                                                             *)

\* A program that was not overlapped reads alone.
LEMMA HmcAlone ==
  ASSUME SampleInv, NEW u \in Users, NEW v \in Users, job[u] \in HmcJobs, job[v] \in HmcJobs,
         v \notin overlapped
  PROVE  u = v
<1>1. u \notin Reading(v)
  BY DEF SampleInv
<1>2. job[u] # "idle"
  BY DEF HmcJobs
<1> QED BY <1>1, <1>2 DEF Reading

LEMMA NextMeasure ==
  /\ 0 \in 0 .. Measures - 1
  /\ \A m \in 0 .. Measures - 1 : (m + 1) % Measures \in 0 .. Measures - 1
  BY MeasuresExist

\* What a read of the HMC5883 leaves alone.
LEMMA HmcFrame ==
  ASSUME BusInv, NEW u \in Users, HmcRead(u)
  PROVE  /\ kind = "hmc5883" /\ UNCHANGED <<kind, stage, bound, step, low, at>>
         /\ UNCHANGED <<acc, accSet, gyrSet, botched>> /\ UNCHANGED binding
         /\ \E j \in HmcJobs \cup {"idle"} : job' = [job EXCEPT ![u] = j]
         /\ overlapped' \subseteq Agents /\ measured' = measured
         /\ measuring' \in BOOLEAN
  <1>1. measuring \in BOOLEAN /\ overlapped \subseteq Agents /\ Users \subseteq Agents
    BY AgentsAre DEF BusInv, TypeOK
  <1>2. CASE HmcTrigger(u)
    BY <1>1, <1>2 DEF HmcTrigger, Reads, Job, HmcJobs, Overlap, Reading, bus, chips, binding
  <1>3. CASE HmcFetch(u) \/ HmcStoreFirst(u) \/ HmcStoreLast(u) \/ HmcCopy(u)
    BY <1>1, <1>3 DEF HmcFetch, HmcStoreFirst, HmcStoreLast, HmcCopy, Reads, Job, HmcJobs, bus,
                      mag, chips, binding
  <1> QED BY <1>2, <1>3 DEF HmcRead

LEMMA HmcSample ==
  ASSUME BusInv, NEW u \in Users, HmcRead(u)
  PROVE  /\ SampleInv' /\ BufferInv'
         /\ buffer' \in [Users -> (0 .. Measures - 1) \cup {Garbage}]
         /\ mag_test' \in [{"first", "last"} -> 0 .. Measures - 1]
<1>0. /\ SampleInv /\ BufferInv
      /\ job \in [Users -> Chips \cup HmcJobs \cup {"idle"}]
      /\ buffer \in [Users -> (0 .. Measures - 1) \cup {Garbage}]
      /\ mag_test \in [{"first", "last"} -> 0 .. Measures - 1]
      /\ measured \in 0 .. Measures - 1
  BY DEF BusInv, TypeOK, HmcJobs
<1> HIDE DEF Garbage
<1>1. CASE HmcTrigger(u)
  <2>1. /\ job[u] = "idle" /\ job' = [job EXCEPT ![u] = "fetch"]
        /\ buffer' = [buffer EXCEPT ![u] = Garbage] /\ Overlap(u, Reading(u))
        /\ UNCHANGED mag_test
    BY <1>1 DEF HmcTrigger, Reads, Job
  <2>2. /\ job'[u] = "fetch" /\ \A v \in Users \ {u} : job'[v] = job[v] /\ buffer'[v] = buffer[v]
        /\ buffer' \in [Users -> (0 .. Measures - 1) \cup {Garbage}]
    BY <1>0, <2>1
  <2>3. BufferInv'
    BY <1>0, <2>2 DEF BufferInv
  <2>4. ASSUME NEW v \in Users, job'[v] \in HmcJobs, v \notin overlapped'
        PROVE  v = u /\ Reading(u)' = {}
    <3>1. CASE Reading(u) = {}
      <4>1. \A w \in Users \ {u} : job'[w] = "idle"
        BY <2>2, <3>1 DEF Reading
      <4> QED BY <4>1, <2>4 DEF Reading, HmcJobs
    <3>2. CASE Reading(u) # {}
      <4>1. v = u \/ v \in Reading(u)
        BY <2>2, <2>4 DEF Reading, HmcJobs
      <4> QED BY <4>1, <3>2, <2>1, <2>4 DEF Overlap
    <3> QED BY <3>1, <3>2
  <2>5. SampleInv'
    BY <2>2, <2>4 DEF SampleInv
  <2> QED BY <1>0, <2>1, <2>2, <2>3, <2>5
<1>2. CASE ~HmcTrigger(u)
  \* The program was reading already.
  <2>1. job[u] \in HmcJobs /\ UNCHANGED overlapped
    BY <1>2 DEF HmcRead, HmcFetch, HmcStoreFirst, HmcStoreLast, HmcCopy, Reads, HmcJobs
  <2>2. PICK j \in HmcJobs \cup {"idle"} : job' = [job EXCEPT ![u] = j]
    BY HmcFrame
  <2>3. job'[u] = j /\ \A v \in Users \ {u} : job'[v] = job[v]
    BY <1>0, <2>2
  <2>4. ASSUME NEW v \in Users, job'[v] \in HmcJobs, v \notin overlapped'
        PROVE  v = u /\ Reading(v)' = {}
    <3>1. job[v] \in HmcJobs
      BY <2>1, <2>3, <2>4
    <3>2. v = u
      BY <1>0, <2>1, <2>4, <3>1, HmcAlone
    <3>3. Reading(v) = {}
      BY <1>0, <2>1, <2>4, <3>1 DEF SampleInv
    <3> QED BY <2>3, <3>2, <3>3 DEF Reading
  <2>5. SUFFICES /\ BufferInv'
                 /\ u \notin overlapped =>
                      /\ job'[u] \in {"last", "copy"} => mag_test'.first = buffer'[u]
                      /\ job'[u] = "copy" => mag_test'.last = buffer'[u]
                 /\ buffer' \in [Users -> (0 .. Measures - 1) \cup {Garbage}]
                 /\ mag_test' \in [{"first", "last"} -> 0 .. Measures - 1]
    <3>1. SampleInv'
      BY <2>1, <2>4, <2>5 DEF SampleInv
    <3> QED BY <2>5, <3>1
  <2>6. CASE HmcFetch(u)
    <3>1. CASE UNCHANGED buffer /\ job' = [job EXCEPT ![u] = "old"]
      <4>1. UNCHANGED mag_test /\ job'[u] = "old"
        BY <1>0, <2>6, <3>1 DEF HmcFetch
      <4> QED BY <1>0, <2>3, <3>1, <4>1 DEF BufferInv
    <3>2. CASE /\ buffer' = [buffer EXCEPT ![u] = measured]
               /\ job' = [job EXCEPT ![u] = "first"]
      <4>1. UNCHANGED mag_test /\ job'[u] = "first"
        BY <1>0, <2>6, <3>2 DEF HmcFetch
      <4>2. buffer' \in [Users -> (0 .. Measures - 1) \cup {Garbage}]
        BY <1>0, <3>2
      <4>3. buffer'[u] = measured /\ \A v \in Users \ {u} : buffer'[v] = buffer[v]
        BY <1>0, <3>2
      <4>4. BufferInv'
        BY <1>0, <2>3, <4>3 DEF BufferInv
      <4> QED BY <1>0, <4>1, <4>2, <4>4
    <3> QED BY <2>6, <3>1, <3>2 DEF HmcFetch, Job
  <2>7. CASE HmcStoreFirst(u)
    <3>1. /\ job[u] = "first" /\ mag_test' = [mag_test EXCEPT !.first = buffer[u]]
          /\ job' = [job EXCEPT ![u] = "last"] /\ UNCHANGED buffer
      BY <2>7 DEF HmcStoreFirst, Reads, Job
    <3>2. job'[u] = "last" /\ buffer[u] \in 0 .. Measures - 1
      BY <1>0, <3>1 DEF BufferInv
    <3>3. BufferInv'
      BY <1>0, <2>3, <3>1, <3>2 DEF BufferInv
    <3>4. mag_test'.first = buffer'[u] /\ mag_test' \in [{"first", "last"} -> 0 .. Measures - 1]
      BY <1>0, <3>1, <3>2
    <3> QED BY <1>0, <3>1, <3>2, <3>3, <3>4
  <2>8. CASE HmcStoreLast(u)
    <3>1. /\ job[u] = "last" /\ mag_test' = [mag_test EXCEPT !.last = buffer[u]]
          /\ job' = [job EXCEPT ![u] = "copy"] /\ UNCHANGED buffer
      BY <2>8 DEF HmcStoreLast, Reads, Job
    <3>2. job'[u] = "copy" /\ buffer[u] \in 0 .. Measures - 1
      BY <1>0, <3>1 DEF BufferInv
    <3>3. BufferInv'
      BY <1>0, <2>3, <3>1, <3>2 DEF BufferInv
    <3>4. /\ mag_test'.last = buffer'[u] /\ mag_test'.first = mag_test.first
          /\ mag_test' \in [{"first", "last"} -> 0 .. Measures - 1]
      BY <1>0, <3>1, <3>2
    <3>5. u \notin overlapped => mag_test.first = buffer[u]
      BY <1>0, <2>1, <3>1 DEF SampleInv
    <3> QED BY <1>0, <3>1, <3>2, <3>3, <3>4, <3>5
  <2>9. CASE HmcCopy(u)
    <3>1. job' = [job EXCEPT ![u] = "idle"] /\ UNCHANGED <<buffer, mag_test>>
      BY <2>9 DEF HmcCopy, Job, mag
    <3>2. job'[u] = "idle"
      BY <1>0, <3>1
    <3> QED BY <1>0, <2>3, <3>1, <3>2 DEF BufferInv
  <2> QED BY <1>2, <2>6, <2>7, <2>8, <2>9 DEF HmcRead
<1> QED BY <1>1, <1>2

LEMMA BusUnderHmc ==
  ASSUME BusInv, NEW u \in Users, HmcRead(u)
  PROVE  BusInv'
<1>0. /\ TypeOK /\ KindInv /\ StepInv /\ GpioInv /\ PinsInv /\ SampleInv /\ BufferInv
      /\ DeafInv /\ SetUpInv /\ ReadyWhenBound
  BY DEF BusInv
<1>1. /\ kind = "hmc5883" /\ UNCHANGED <<kind, stage, bound, step, low, at>>
      /\ UNCHANGED <<acc, accSet, gyrSet, botched>> /\ UNCHANGED binding
      /\ overlapped' \subseteq Agents /\ measured' = measured /\ measuring' \in BOOLEAN
  BY HmcFrame
<1>2. PICK j \in HmcJobs \cup {"idle"} : job' = [job EXCEPT ![u] = j]
  BY HmcFrame
<1>3. /\ SampleInv' /\ BufferInv'
      /\ buffer' \in [Users -> (0 .. Measures - 1) \cup {Garbage}]
      /\ mag_test' \in [{"first", "last"} -> 0 .. Measures - 1]
  BY HmcSample
<1>4. \A a \in Agents : at[a] = "rest"
  BY <1>0, <1>1 DEF KindInv
<1>5. \A v \in Users : job'[v] \in HmcJobs \cup {"idle"}
  <2>1. \A v \in Users : job[v] \in HmcJobs \cup {"idle"}
    BY <1>0, <1>1 DEF KindInv, TypeOK, HmcJobs, Chips
  <2> QED BY <1>0, <1>2, <2>1 DEF TypeOK
<1>6. TypeOK'
  <2>1. job' \in [Users -> Chips \cup {"idle", "fetch", "first", "last", "copy", "old"}]
    BY <1>0, <1>2 DEF TypeOK, HmcJobs
  <2>2. BindingTypeOK'
    BY <1>0, <1>1, BindingTyped DEF TypeOK
  <2>3. Garbage' = Garbage
    BY DEF Garbage
  <2> QED BY ONLY <1>0, <1>1, <1>3, <2>1, <2>2, <2>3 DEF TypeOK
<1>7. KindInv'
  <2>1. \A v \in Users : job'[v] \notin Chips
    BY <1>5 DEF HmcJobs, Chips
  <2>2. \A v \in Users : at'[v] = "rest"
    BY <1>1, <1>4, AgentsAre
  <2>3. stage' # "chip" \/ kind' = "bmi088"
    BY <1>0, <1>1 DEF KindInv
  <2> QED BY ONLY <1>1, <1>4, <2>1, <2>2, <2>3 DEF KindInv
<1>8. UNCHANGED <<private_data, cs_gpio, output, unfound>>
  BY <1>1 DEF binding, pins, history
<1>9. PinsInv'
  <2>1. ~unfound => low = {} /\ low \subseteq output
    BY <1>0, <1>4 DEF PinsInv
  <2> QED BY <1>1, <1>4, <1>8, <2>1 DEF PinsInv
<1>10. StepInv' /\ GpioInv' /\ DeafInv' /\ SetUpInv' /\ ReadyWhenBound'
  <2>1. stage # "chip"
    BY <1>0, <1>1 DEF KindInv
  <2> QED BY ONLY <1>0, <1>1, <1>4, <1>8, <2>1
            DEF StepInv, GpioInv, DeafInv, SetUpInv, ReadyWhenBound, Wired
<1> QED
  BY ONLY <1>3, <1>6, <1>7, <1>9, <1>10 DEF BusInv

\* The chip measures between the steps of the programs.
LEMMA BusUnderMeasure ==
  ASSUME BusInv, HmcMeasure
  PROVE  BusInv'
<1>0. /\ TypeOK /\ KindInv /\ StepInv /\ GpioInv /\ PinsInv /\ SampleInv /\ BufferInv
      /\ DeafInv /\ SetUpInv /\ ReadyWhenBound
  BY DEF BusInv
<1>1. /\ UNCHANGED <<kind, stage, bound, private_data, cs_gpio, output, unfound, step, low, at,
                     job, buffer, mag_test, acc, accSet, gyrSet, botched, overlapped>>
      /\ UNCHANGED binding /\ measuring' = FALSE /\ measured' = (measured + 1) % Measures
  BY DEF HmcMeasure, binding, pins, history, bus, chips
<1>2. TypeOK'
  <2>1. measured' \in 0 .. Measures - 1
    BY <1>0, <1>1, NextMeasure DEF TypeOK
  <2>2. BindingTypeOK'
    BY <1>0, <1>1, BindingTyped DEF TypeOK
  <2> QED BY ONLY <1>0, <1>1, <2>1, <2>2 DEF TypeOK, Garbage
<1>3. PinsInv' /\ SampleInv' /\ BufferInv'
  BY <1>0, <1>1, PinsSame, SampleSame
<1>4. KindInv' /\ StepInv' /\ GpioInv' /\ DeafInv' /\ SetUpInv' /\ ReadyWhenBound'
  BY ONLY <1>0, <1>1
     DEF KindInv, StepInv, GpioInv, DeafInv, SetUpInv, ReadyWhenBound, Done, Wired
<1> QED
  BY ONLY <1>2, <1>3, <1>4 DEF BusInv

------------------------------------------------------------------------------
(* The invariant holds                                                      *)

LEMMA BusInitially ==
  ASSUME Init
  PROVE  BusInv
<1> USE DEF Init
<1>1. BindingTypeOK /\ stage = "idle" /\ ~bound
  <2>1. probes \in 0 .. MaxProbes /\ ret \in {0, -1}
    BY ProbesCounted DEF BindingInit
  <2>2. /\ kind \in Kinds /\ stage = "idle" /\ ~bound /\ file \subseteq Users
        /\ {bound, major, region, cdev, class, device, private_data, undefined, failed, met,
            unfound} \subseteq BOOLEAN
        /\ cs_gpio \subseteq Chips /\ output \subseteq Chips
    BY DEF BindingInit
  <2> QED BY ONLY <2>1, <2>2 DEF BindingTypeOK, Stages
<1>2. TypeOK
  <2>1. buffer \in [Users -> (0 .. Measures - 1) \cup {Garbage}]
    OBVIOUS
  <2>2. mag_test \in [{"first", "last"} -> 0 .. Measures - 1] /\ measured \in 0 .. Measures - 1
    BY NextMeasure
  <2>3. step \in {op.name : op \in Setup} \cup {"done"}
    BY TableNames DEF AccSteps
  <2>4. /\ at \in [Agents -> {"rest", "selected", "sent", "failed"}]
        /\ job \in [Users -> Chips \cup {"idle", "fetch", "first", "last", "copy", "old"}]
        /\ low \subseteq Chips /\ overlapped \subseteq Agents
        /\ acc \in {"deaf", "asleep", "awake"}
    OBVIOUS
  <2>5. {accSet, gyrSet, botched, measuring} \subseteq BOOLEAN
    OBVIOUS
  <2> QED BY ONLY <1>1, <2>1, <2>2, <2>3, <2>4, <2>5 DEF TypeOK
<1>3. (\A a \in Agents : at[a] = "rest") /\ (\A u \in Users : job[u] = "idle")
  OBVIOUS
<1>4. KindInv /\ SampleInv /\ BufferInv
  BY <1>1, <1>3, AgentsAre DEF KindInv, SampleInv, BufferInv, HmcJobs, Chips
<1>5. StepInv /\ GpioInv /\ PinsInv /\ DeafInv
  BY <1>1, <1>3, AgentsAre DEF StepInv, GpioInv, PinsInv, DeafInv, BindingInit
<1>6. SetUpInv /\ ReadyWhenBound
  BY <1>1 DEF SetUpInv, ReadyWhenBound
<1> QED BY <1>2, <1>4, <1>5, <1>6 DEF BusInv

LEMMA BusStep ==
  ASSUME BusInv, BindingInv, [Next]_vars
  PROVE  BusInv'
<1>0. [BindingNext]_binding
  BY StepOfBinding
<1>1. CASE Binds
  BY <1>0, <1>1, BusUnderBinding
<1>2. CASE SetupSelect \/ SetupSend \/ SetupDeselect \/ SetupEnd
  BY <1>2, BusUnderSelect, BusUnderSend, BusUnderDeselect, BusUnderEnd
<1>3. ASSUME NEW u \in Users, BmiRead(u) \/ HmcRead(u)
      PROVE  BusInv'
  BY <1>0, <1>3, BusUnderBmi, BusUnderHmc
<1>4. ASSUME NEW chip \in Chips, DriverOutput(chip)
      PROVE  BusInv'
  BY <1>4, BusUnderOutput
<1>5. CASE HmcMeasure
  BY <1>5, BusUnderMeasure
<1>6. CASE UNCHANGED vars
  <2>0. /\ TypeOK /\ KindInv /\ StepInv /\ GpioInv /\ PinsInv /\ SampleInv /\ BufferInv
        /\ DeafInv /\ SetUpInv /\ ReadyWhenBound
    BY DEF BusInv
  <2>1. /\ UNCHANGED <<kind, stage, bound, private_data, cs_gpio, output, unfound, step, low, at,
                       job, buffer, mag_test, measuring, measured, acc, accSet, gyrSet, botched,
                       overlapped>>
        /\ UNCHANGED binding
    BY <1>6 DEF vars, bus, mag, chips, binding, pins, history
  <2>2. BindingTypeOK'
    BY <1>0, <2>0, BindingTyped DEF TypeOK
  <2>3. TypeOK'
    BY ONLY <2>0, <2>1, <2>2 DEF TypeOK, Garbage
  <2>4. PinsInv' /\ SampleInv' /\ BufferInv'
    BY <2>0, <2>1, PinsSame, SampleSame
  <2>5. KindInv' /\ StepInv' /\ GpioInv' /\ DeafInv' /\ SetUpInv' /\ ReadyWhenBound'
    BY ONLY <2>0, <2>1
       DEF KindInv, StepInv, GpioInv, DeafInv, SetUpInv, ReadyWhenBound, Done, Wired
  <2> QED BY ONLY <2>0, <2>3, <2>4, <2>5 DEF BusInv
<1> QED
  BY <1>1, <1>2, <1>3, <1>4, <1>5, <1>6 DEF Next, Binds

\* The invariant holds of every driver.
LEMMA BusInvariant == Spec => []BusInv
<1>1. Init => BusInv
  BY BusInitially
<1>2. BusInv /\ BindingInv /\ [Next]_vars => BusInv'
  BY BusStep
<1> QED
  BY <1>1, <1>2, BindingInvariant, PTL DEF Spec

------------------------------------------------------------------------------
(* What it says                                                             *)

\* Every variable holds a value of its kind; no garbage reaches mag_test.
THEOREM DriverTyped == Spec => []TypeOK
<1>1. BusInv => TypeOK
  BY DEF BusInv
<1> QED
  BY <1>1, BusInvariant, PTL

\* Nothing locks the select pins, yet in a driver that found its pins and made them
\* outputs a transfer that meets no other, and no probe that sets its pin, finds
\* its own chip selected and no other.
THEOREM LoneTransferReachesItsChip == Spec => []AloneReachesOwn
<1>1. BusInv => AloneReachesOwn
  <2> SUFFICES ASSUME BusInv, Wired, NEW a \in Agents, at[a] = "selected", a \notin overlapped
               PROVE  low = ChipsOf(a)
    BY DEF AloneReachesOwn
  <2>1. ChipsOf(a) \subseteq Chips
    BY CurrentChip, AgentsAre DEF BusInv, KindInv, ChipsOf, Agents
  <2> QED BY <2>1, PinsAlone DEF BusInv
<1> QED
  BY <1>1, BusInvariant, PTL

\* A bound BMI088 that found its pins and made them outputs is awake and both its
\* chips are configured, unless a transfer of its own probe failed or a program's
\* read came between.
THEOREM BoundDriverIsReady == Spec => []ReadyWhenBound
<1>1. BusInv => ReadyWhenBound
  BY DEF BusInv
<1> QED
  BY <1>1, BusInvariant, PTL

\* Who reads the magnetometer's registers without meeting another reader is given
\* what he read, though it goes through a global.  This is not to say that it was
\* measured for him, nor what he is given when the bus failed.
THEOREM LoneReaderIsGivenWhatItRead == Spec => []FetchIsOwn
<1>1. BusInv => FetchIsOwn
  BY DEF BusInv, SampleInv, FetchIsOwn, HmcJobs
<1> QED
  BY <1>1, BusInvariant, PTL
==============================================================================

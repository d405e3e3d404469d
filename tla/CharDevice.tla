------------------------------ MODULE CharDevice ------------------------------
(***************************************************************************)
(* How the kernel drivers of sensor_device, bmi088.c and hmc5883.c, make   *)
(* their sensor a character device when the kernel binds them to it        *)
(* (probe), and take it back (remove).  Both do it in the same way; the    *)
(* probe of bmi088.c goes on to the select pins of its two chips, which it *)
(* finds and makes outputs, and to setting up the chips, which is the      *)
(* subject of SensorDriver.                                                *)
(*                                                                         *)
(* The kernel holds a lock around probe and remove; programs open the      *)
(* device at any time the kernel lets them.                                *)
(***************************************************************************)
EXTENDS Integers

CONSTANTS
  Users,       \* programs that open the device
  MaxProbes    \* bound of the model: how often the driver is bound

ASSUME ProbesCounted == MaxProbes \in Nat

Kinds == {"bmi088", "hmc5883"}
Chips == {"acc", "gyr"}        \* of the BMI088, in the order of cs_gpio

VARIABLES
  kind,      \* which driver this is
  stage,     \* where probe or remove stands
  ret,       \* local variable of the probe of bmi088.c
  bound,     \* probe has returned 0
  major,     \* a major number was given to the static structure
  region, cdev, class, device,   \* what the kernel holds for the driver
  private_data,                  \* the bus client is stored
  cs_gpio,   \* the chips the number of whose select pin is stored
  output,    \* the chips whose pin has been made an output
  file,      \* the programs that have the device open
  undefined, \* a null pointer was followed, or a cdev in use initialised again
  \* What follows is not in the code.
  probes, failed, \* how many probes began, and whether one failed
  met,            \* a probe found the number that an earlier one had left
  unfound         \* a probe did not find one of the pins

objects == <<region, cdev, class, device>>
pins    == <<cs_gpio, output>>
history == <<probes, failed, met, unfound>>
binding == <<kind, stage, ret, bound, major, objects, private_data, pins, file,
             undefined, history>>

Stages == {"idle", "cdev", "class", "device", "node", "findAcc", "findGyr",
           "outAcc", "outGyr", "private", "chip",
           "removeCdev", "removeNumber", "removeDevice", "removeClass"}

At(s)    == ~undefined /\ stage = s
Go(s)    == stage' = s
Fails    == stage' = "idle" /\ failed' = TRUE
Succeeds == stage' = "idle" /\ bound' = TRUE

------------------------------------------------------------------------------
(* probe                                                                    *)

\* The first binding is given a major number, the later ones ask for the same
\* again.  On an error the region of that number is unregistered, whoever
\* registered it.
ProbeNumber ==
  /\ At("idle") /\ ~bound
  /\ probes < MaxProbes
  /\ probes' = probes + 1
  /\ ret' = 0
  /\ met' = (met \/ region)
  /\ \/ /\ ~region
        /\ region' = TRUE /\ major' = TRUE
        /\ Go("cdev") /\ UNCHANGED failed
     \/ /\ region' = FALSE /\ UNCHANGED major
        /\ Fails
  /\ UNCHANGED <<kind, bound, cdev, class, device, private_data, pins, file, undefined,
                 unfound>>

\* cdev_init clears the structure, and what follows is undefined when it is
\* still registered or open.  Then cdev_add, and after a failure cdev_del.
ProbeCdev ==
  /\ At("cdev")
  /\ IF cdev \/ file # {}
       THEN undefined' = TRUE /\ UNCHANGED <<stage, cdev, failed>>
       ELSE /\ \/ cdev' = TRUE /\ Go("class") /\ UNCHANGED failed
               \/ UNCHANGED cdev /\ Fails
            /\ UNCHANGED undefined
  /\ UNCHANGED <<kind, ret, bound, major, region, class, device, private_data, pins, file,
                 probes, met, unfound>>

\* class_create
ProbeClass ==
  /\ At("class")
  /\ \/ class' = TRUE /\ Go("device") /\ UNCHANGED failed
     \/ UNCHANGED class /\ Fails
  /\ UNCHANGED <<kind, ret, bound, major, region, cdev, device, private_data, pins, file,
                 undefined, probes, met, unfound>>

AfterDevice == IF kind = "bmi088" THEN "node" ELSE "private"

\* Slip: what device_create returns is not tested.
ProbeDeviceUntested ==
  /\ At("device")
  /\ device' \in BOOLEAN
  /\ Go(AfterDevice)
  /\ UNCHANGED <<kind, ret, bound, major, region, cdev, class, private_data, pins, file,
                 undefined, history>>

\* device_create; programs can open the device from here on.
ProbeDevice ==
  /\ At("device")
  /\ \/ device' = TRUE /\ Go(AfterDevice) /\ UNCHANGED <<class, failed>>
     \/ class' = FALSE /\ UNCHANGED device /\ Fails
  /\ UNCHANGED <<kind, ret, bound, major, region, cdev, private_data, pins, file, undefined,
                 probes, met, unfound>>

\* bmi088.c goes on with the node of the device tree.
ProbeNode ==
  /\ At("node")
  /\ \/ Go("findAcc") /\ UNCHANGED failed
     \/ Fails
  /\ UNCHANGED <<kind, ret, bound, major, objects, private_data, pins, file, undefined,
                 probes, met, unfound>>

\* Both pins are looked up, and then tested.  One that is not found has lost the
\* number an earlier probe stored.
LookUp(chip) ==
  /\ cs_gpio' \in {cs_gpio \cup {chip}, cs_gpio \ {chip}}
  /\ unfound' = (unfound \/ chip \notin cs_gpio')
  /\ UNCHANGED <<kind, ret, bound, major, objects, private_data, output, file,
                 undefined, probes, met>>

ProbeFindAcc == At("findAcc") /\ LookUp("acc") /\ Go("findGyr") /\ UNCHANGED failed

ProbeFindGyr ==
  /\ At("findGyr")
  /\ LookUp("gyr")
  /\ IF cs_gpio' = Chips THEN Go("outAcc") /\ UNCHANGED failed ELSE Fails

\* gpio_direction_output(cs_gpio[chip], 1).  Of the two results only the second
\* outlives, to the end.
MakeOutput(chip) ==
  /\ \/ ret' = 0 /\ output' = output \cup {chip}
     \/ ret' = -1 /\ UNCHANGED output
  /\ UNCHANGED <<kind, bound, major, objects, private_data, cs_gpio, file, undefined,
                 history>>

ProbeOutput(chip) ==
  \/ chip = "acc" /\ At("outAcc") /\ MakeOutput("acc") /\ Go("outGyr")
  \/ chip = "gyr" /\ At("outGyr") /\ MakeOutput("gyr") /\ Go("private")

\* The client is stored.  This is the end for hmc5883.c.
ProbePrivate ==
  /\ At("private")
  /\ private_data' = TRUE
  /\ IF kind = "bmi088" THEN Go("chip") /\ UNCHANGED bound ELSE Succeeds
  /\ UNCHANGED <<kind, ret, major, objects, pins, file, undefined, history>>

\* The probe of bmi088.c returns ret, when the chip has been set up.
ProbeReturn ==
  /\ At("chip")
  /\ IF ret = 0 THEN Succeeds /\ UNCHANGED failed ELSE Fails /\ UNCHANGED bound
  /\ UNCHANGED <<kind, ret, major, objects, private_data, pins, file, undefined, probes, met, unfound>>

------------------------------------------------------------------------------
(* remove                                                                   *)

RemoveBegin ==
  /\ At("idle") /\ bound
  /\ bound' = FALSE
  /\ Go("removeCdev")
  /\ UNCHANGED <<kind, ret, major, objects, private_data, pins, file, undefined, history>>

\* Slip: the number is given back first.
RemoveNumberFirst ==
  /\ At("removeCdev")
  /\ region' = FALSE
  /\ Go("removeNumber")
  /\ UNCHANGED <<kind, ret, bound, major, cdev, class, device, private_data, pins, file,
                 undefined, history>>

RemoveCdev ==
  /\ At("removeCdev")
  /\ cdev' = FALSE
  /\ Go("removeNumber")
  /\ UNCHANGED <<kind, ret, bound, major, region, class, device, private_data, pins, file,
                 undefined, history>>

RemoveNumber ==
  /\ At("removeNumber")
  /\ region' = FALSE
  /\ Go("removeDevice")
  /\ UNCHANGED <<kind, ret, bound, major, cdev, class, device, private_data, pins, file,
                 undefined, history>>

RemoveDevice ==
  /\ At("removeDevice")
  /\ device' = FALSE
  /\ Go("removeClass")
  /\ UNCHANGED <<kind, ret, bound, major, region, cdev, class, private_data, pins, file,
                 undefined, history>>

\* Slip: the class is left.
RemoveClassNot ==
  /\ At("removeClass")
  /\ Go("idle")
  /\ UNCHANGED <<kind, ret, bound, major, objects, private_data, pins, file, undefined, history>>

RemoveClass ==
  /\ At("removeClass")
  /\ class' = FALSE
  /\ Go("idle")
  /\ UNCHANGED <<kind, ret, bound, major, region, cdev, device, private_data, pins, file,
                 undefined, history>>

------------------------------------------------------------------------------
(* open and release                                                         *)

\* The kernel finds the driver by the device node and the cdev.  The open of
\* hmc5883.c sets the chip's registers and so follows private_data.
Open(u) ==
  /\ ~undefined
  /\ u \notin file
  /\ device /\ cdev
  /\ IF kind = "hmc5883" /\ ~private_data
       THEN undefined' = TRUE /\ UNCHANGED file
       ELSE file' = file \cup {u} /\ UNCHANGED undefined
  /\ UNCHANGED <<kind, stage, ret, bound, major, objects, private_data, pins, history>>

Release(u) ==
  /\ ~undefined
  /\ u \in file
  /\ file' = file \ {u}
  /\ UNCHANGED <<kind, stage, ret, bound, major, objects, private_data, pins, undefined,
                 history>>

------------------------------------------------------------------------------
BindingInit ==
  /\ kind \in Kinds
  /\ stage = "idle" /\ ret = 0 /\ bound = FALSE /\ major = FALSE
  /\ region = FALSE /\ cdev = FALSE /\ class = FALSE /\ device = FALSE
  /\ private_data = FALSE /\ cs_gpio = {} /\ output = {}
  /\ file = {}
  /\ undefined = FALSE
  /\ probes = 0 /\ failed = FALSE /\ met = FALSE /\ unfound = FALSE

\* The probe but for the steps that set a pin.
Probe ==
  \/ ProbeNumber \/ ProbeCdev \/ ProbeClass \/ ProbeDevice
  \/ ProbeNode \/ ProbeFindAcc \/ ProbeFindGyr \/ ProbePrivate

Remove ==
  RemoveBegin \/ RemoveCdev \/ RemoveNumber \/ RemoveDevice \/ RemoveClass

------------------------------------------------------------------------------
(* Properties                                                               *)

BindingTypeOK ==
  /\ kind \in Kinds /\ stage \in Stages /\ ret \in {0, -1}
  /\ {bound, major, region, cdev, class, device, private_data, undefined, failed, met,
      unfound} \subseteq BOOLEAN
  /\ cs_gpio \subseteq Chips /\ output \subseteq Chips
  /\ file \subseteq Users
  /\ probes \in 0 .. MaxProbes

\* Once probe has returned 0 the device is complete, and whatever programs do,
\* no null pointer is followed: this can only happen to a program that comes
\* while probe runs, or after one that failed.
BoundIsLive ==
  bound => region /\ cdev /\ class /\ device /\ private_data /\ ~undefined

\* As long as every probe succeeded, a driver that is not bound holds nothing.
ReleasesAll ==
  At("idle") /\ ~bound /\ ~failed => ~region /\ ~cdev /\ ~class /\ ~device

\* As long as the cdev answers, its number belongs to the driver; unless an
\* earlier probe failed half way and a later one, in cleaning up after its
\* own failure, gave that probe's number away.
NumberHeld == cdev => region \/ met

\* What a driver was given by the kernel it gives back, all of it and in an order
\* in which no other driver's number can be opened through its cdev.
GivesBack == ReleasesAll /\ NumberHeld
==============================================================================

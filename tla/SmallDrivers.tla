----------------------------- MODULE SmallDrivers -----------------------------
(***************************************************************************)
(* The small drivers side by side: module init and exit (ModuleInit), the  *)
(* GPIO driver (GpioSysfs) and the Arduino's character device              *)
(* (ArduinoChar). They share no state and no bus, so a behaviour is one of *)
(* any of them: which one is chosen at the start, and the others rest.     *)
(***************************************************************************)
EXTENDS Integers, Sequences

CONSTANTS
  Drivers, NO_OF_DEVICES,    \* of ModuleInit
  Nodes, MayFail, None,      \* of GpioSysfs
  WriteCounts, ReadCounts, Files, Displays  \* of ArduinoChar

VARIABLES
  active,  \* the part that runs
  driver, state, todo, held, ret,
  node, module, at, child, i, total_devices, dev, gpio_held, line, registered,
  abandoned,
  pos, sent, printed, got, char_ret

modules == INSTANCE ModuleInit
gpio == INSTANCE GpioSysfs WITH held <- gpio_held
arduino == INSTANCE ArduinoChar WITH ret <- char_ret

ASSUME ConstantsAssumption ==
  /\ modules!ConstantsType
  /\ gpio!NodesType /\ gpio!MayFailType /\ None \notin Nat
  /\ arduino!ConstantsType

initVars == <<driver, state, todo, held, ret>>
gpioVars == <<node, module, at, child, i, total_devices, dev, gpio_held, line,
              registered, abandoned>>
charVars == <<pos, sent, printed, got, char_ret>>
vars == <<active, initVars, gpioVars, charVars>>

TypeOK ==
  /\ active \in {"modules", "gpio", "arduino"}
  /\ modules!TypeOK /\ gpio!TypeOK /\ arduino!TypeOK

(* What rests is not told apart.                                           *)
Init ==
  /\ active \in {"modules", "gpio", "arduino"}
  /\ modules!Init /\ gpio!Init /\ arduino!Init
  /\ active # "modules" => driver = CHOOSE d \in Drivers : TRUE
  /\ active # "gpio" => node = CHOOSE n \in Nodes : TRUE

ModulesStep ==
  /\ active = "modules"
  /\ modules!Next
  /\ UNCHANGED <<active, gpioVars, charVars>>

GpioStep ==
  /\ active = "gpio"
  /\ gpio!Next
  /\ UNCHANGED <<active, initVars, charVars>>

ArduinoStep ==
  /\ active = "arduino"
  /\ arduino!Next
  /\ UNCHANGED <<active, initVars, gpioVars>>

Next == ModulesStep \/ GpioStep \/ ArduinoStep

Spec == Init /\ [][Next]_vars

-----------------------------------------------------------------------------
(* Properties: those of the parts, where they are explained in full        *)

(* An init that failed, or an exit that got through, leaves nothing        *)
(* registered; only the I2C drivers' remove oopses, at its first call.     *)
HoldsNothing == modules!HoldsNothing

(* No device file outlives its class, no cdev its number or its memory.    *)
Nested == modules!Nested

(* The GPIO attributes reach data and lines that are held.                 *)
AttributesWork == gpio!AttributesWork

(* The GPIO driver makes a device for each enabled child and gives all     *)
(* back.                                                                   *)
GivesAllBack == gpio!GivesAllBack

(* A short message to the Arduino arrives in its full length, and is       *)
(* printed so if it has no NUL byte.                                       *)
ArrivesWhole == arduino!ArrivesWhole

(* Reads of the character devices return nothing of the kernel's stack.    *)
NothingOfStack == arduino!NothingOfStack

=============================================================================

-------------------------- MODULE SmallDriversProofs --------------------------
(***************************************************************************)
(* Proofs about the small drivers, for any device tree nodes, byte counts, *)
(* files and numbers of devices: what the GPIO driver's attributes reach   *)
(* and what its remove gives back, what the Arduino gets and user space    *)
(* reads, and what module init and exit leave registered.                  *)
(***************************************************************************)
EXTENDS SmallDrivers, SequenceTheorems, TLAPS

-----------------------------------------------------------------------------
(* The Arduino's character device                                          *)

CharInv == arduino!TypeOK /\ ArrivesWhole /\ NothingOfStack

LEMMA ByteCounts == WriteCounts \subseteq Nat /\ ReadCounts \subseteq Nat
BY ConstantsAssumption DEF arduino!ConstantsType

(* A message loses a byte to the command, and its length is cut twice.     *)
LEMMA BlockLength ==
  ASSUME NEW count \in 1 .. 1000
  PROVE  LET n == arduino!Least(1 + arduino!BlockAfterCommand(count),
                                arduino!BUFFER_LENGTH)
         IN /\ n \in 0 .. 32 /\ n <= count
            /\ count <= 32 => n = count
BY DEF arduino!Least, arduino!BlockAfterCommand, arduino!Block,
       arduino!BUFFER_LENGTH, arduino!I2C_SMBUS_BLOCK_MAX

(* A read ends at the end of the buffer, wherever its file stands.         *)
LEMMA ReadEnds ==
  ASSUME NEW f \in Files, pos[f] \in 0 .. 32, NEW count \in Nat
  PROVE  /\ arduino!Cut(f, count) \in 0 .. 32
         /\ pos[f] + arduino!Cut(f, count) \in 0 .. 32
BY DEF arduino!Cut, arduino!max_size

(* What a call on the character devices does to the fields a write leaves  *)
(* alone, and the ones a read does.                                        *)
LEMMA WriteArrives ==
  ASSUME CharInv, NEW count \in WriteCounts,
         arduino!arduino_i2c_write(count) \/ arduino!WriteFails(count)
  PROVE  CharInv'
<1>1. count \in Nat /\ UNCHANGED <<pos, got>>
  BY ByteCounts DEF arduino!arduino_i2c_write, arduino!WriteFails
<1>2. char_ret' \in {arduino!EFAULT, arduino!EINVAL} \union Nat
  BY <1>1 DEF arduino!arduino_i2c_write, arduino!WriteFails
<1>3. NothingOfStack'
  BY <1>1 DEF CharInv, NothingOfStack, arduino!NothingOfStack
<1>4. ASSUME UNCHANGED <<sent, printed>> PROVE CharInv'
  BY <1>1, <1>2, <1>3, <1>4
  DEF CharInv, arduino!TypeOK, ArrivesWhole, arduino!ArrivesWhole
<1>5. ASSUME count <= 1000, sent' = count,
             arduino!receiveEvent(IF count = 0 THEN "stack" ELSE "message",
                                  1 + arduino!BlockAfterCommand(count))
      PROVE  CharInv'
  <2> DEFINE n == arduino!Least(1 + arduino!BlockAfterCommand(count),
                                arduino!BUFFER_LENGTH)
  <2>1. printed' = [of |-> IF count = 0 THEN "stack" ELSE "message", len |-> n]
    BY <1>5 DEF arduino!receiveEvent
  <2>2. n \in 0 .. 32
    BY <1>1, <1>5
    DEF arduino!Least, arduino!BlockAfterCommand, arduino!Block,
        arduino!BUFFER_LENGTH, arduino!I2C_SMBUS_BLOCK_MAX
  <2>3. count # 0 => n <= count /\ (count <= 32 => n = count)
    <3>1. count # 0 => count \in 1 .. 1000
      BY <1>1, <1>5
    <3> QED BY <3>1, BlockLength
  <2> HIDE DEF n
  <2>4. ArrivesWhole'
    BY <1>5, <2>1, <2>3
    DEF ArrivesWhole, arduino!ArrivesWhole, arduino!BUFFER_LENGTH
  <2>5. arduino!TypeOK'
    BY <1>1, <1>2, <1>5, <2>1, <2>2
    DEF CharInv, arduino!TypeOK, arduino!BUFFER_LENGTH
  <2> QED BY <1>3, <2>4, <2>5 DEF CharInv
<1> QED BY <1>4, <1>5 DEF arduino!arduino_i2c_write, arduino!WriteFails

(* What a read hands over starts at the file's position and ends at the    *)
(* end of the buffer at the latest, which is where the stack begins.       *)
LEMMA CopyStays ==
  ASSUME CharInv, NEW f \in Files, NEW count \in Nat, NEW filled \in Nat,
         arduino!CopyToUser(f, arduino!Cut(f, count), arduino!tBuffer(filled))
  PROVE  /\ pos' \in [Files -> 0 .. 32] /\ NothingOfStack'
         /\ \E k \in 0 .. 32 : got' \in [0 .. k - 1 -> arduino!Origins]
         /\ char_ret' \in {arduino!EFAULT} \union Nat
<1> DEFINE n == arduino!Cut(f, count)
           buffer == arduino!tBuffer(filled)
<1>1. pos \in [Files -> 0 .. 32] /\ pos[f] \in 0 .. 32
  BY DEF CharInv, arduino!TypeOK, arduino!max_size
<1>2. n \in 0 .. 32 /\ pos[f] + n \in 0 .. 32
  BY <1>1, ReadEnds
<1>3. \A j \in Nat : buffer[j] \in arduino!Origins /\ (j < 32 => buffer[j] # "stack")
  BY DEF arduino!tBuffer, arduino!Origins, arduino!max_size
<1> HIDE DEF n, buffer
<1>4. CASE /\ got' = [k \in 0 .. n - 1 |-> buffer[pos[f] + k]]
           /\ pos' = [pos EXCEPT ![f] = @ + n] /\ char_ret' = n
  <2>1. \A k \in 0 .. n - 1 : pos[f] + k \in Nat /\ pos[f] + k < 32
    BY <1>1, <1>2
  <2>2. \A k \in 0 .. n - 1 :
          buffer[pos[f] + k] \in arduino!Origins /\ buffer[pos[f] + k] # "stack"
    BY <1>3, <2>1
  <2>3. got' \in [0 .. n - 1 -> arduino!Origins]
    BY <1>4, <2>2
  <2>4. NothingOfStack'
    BY <1>4, <2>2 DEF NothingOfStack, arduino!NothingOfStack
  <2>5. pos' \in [Files -> 0 .. 32]
    BY <1>1, <1>2, <1>4
  <2>6. n \in Nat /\ char_ret' = n
    BY <1>2, <1>4
  <2> QED BY <1>2, <2>3, <2>4, <2>5, <2>6
<1>5. CASE char_ret' = arduino!EFAULT /\ UNCHANGED <<pos, got>>
  BY <1>1, <1>5
  DEF CharInv, arduino!TypeOK, arduino!max_size, NothingOfStack,
      arduino!NothingOfStack
<1> QED BY <1>4, <1>5 DEF arduino!CopyToUser, n, buffer

LEMMA ReadArrives ==
  ASSUME CharInv, NEW f \in Files, NEW count \in ReadCounts,
         arduino!arduino_i2c_read(f, count) \/ arduino!display_read(f, count)
  PROVE  CharInv'
<1> DEFINE n == arduino!Cut(f, count)
<1>1. count \in Nat /\ n \in Nat
  <2>1. pos[f] \in 0 .. 32
    BY DEF CharInv, arduino!TypeOK, arduino!max_size
  <2> QED BY <2>1, ByteCounts, ReadEnds
<1>2. /\ \/ arduino!CopyToUser(f, n, arduino!tBuffer(n))
         \/ arduino!CopyToUser(f, n, arduino!tBuffer(0))
      /\ sent' = sent
      /\ printed' = printed \/ arduino!receiveEvent("command", 1)
  BY DEF arduino!arduino_i2c_read, arduino!display_read
<1>3. /\ pos' \in [Files -> 0 .. 32] /\ NothingOfStack'
      /\ \E k \in 0 .. 32 : got' \in [0 .. k - 1 -> arduino!Origins]
      /\ char_ret' \in {arduino!EFAULT} \union Nat
  BY <1>1, <1>2, CopyStays
<1>4. ArrivesWhole' /\ printed' \in [of : {"nothing", "message", "command", "stack"},
                                     len : 0 .. 32]
  <2>1. CASE printed' = printed
    BY <1>2, <2>1
    DEF CharInv, arduino!TypeOK, arduino!BUFFER_LENGTH, ArrivesWhole,
        arduino!ArrivesWhole
  <2>2. CASE arduino!receiveEvent("command", 1)
    BY <1>2, <2>2
    DEF arduino!receiveEvent, arduino!Least, arduino!BUFFER_LENGTH, ArrivesWhole,
        arduino!ArrivesWhole
  <2> QED BY <1>2, <2>1, <2>2
<1> QED BY <1>2, <1>3, <1>4
    DEF CharInv, arduino!TypeOK, arduino!max_size, arduino!BUFFER_LENGTH

LEMMA InitChar == Init => CharInv
<1> SUFFICES ASSUME Init PROVE CharInv
  OBVIOUS
<1>1. arduino!Init
  BY DEF Init
<1>2. got = [k \in {} |-> "stack"] /\ 0 .. 0 - 1 = {}
  BY <1>1 DEF arduino!Init, arduino!Nothing
<1>3. got \in [0 .. 0 - 1 -> arduino!Origins]
  BY <1>2
<1>4. NothingOfStack
  BY <1>2 DEF NothingOfStack, arduino!NothingOfStack
<1>5. ArrivesWhole
  BY <1>1 DEF arduino!Init, ArrivesWhole, arduino!ArrivesWhole
<1>6. arduino!TypeOK
  BY <1>1, <1>3 DEF arduino!Init, arduino!TypeOK, arduino!max_size, arduino!BUFFER_LENGTH
<1> QED BY <1>4, <1>5, <1>6 DEF CharInv

LEMMA NextChar == CharInv /\ [Next]_vars => CharInv'
<1>1. ASSUME CharInv, UNCHANGED charVars PROVE CharInv'
  BY <1>1 DEF CharInv, charVars, arduino!TypeOK, ArrivesWhole, arduino!ArrivesWhole,
              NothingOfStack, arduino!NothingOfStack
<1>2. ASSUME CharInv, ArduinoStep PROVE CharInv'
  BY <1>2, WriteArrives, ReadArrives DEF ArduinoStep, arduino!Next
<1> QED BY <1>1, <1>2 DEF Next, ModulesStep, GpioStep, vars

(* A message of up to 32 bytes arrives at the firmware in its full length, *)
(* whatever is written and read before (arduino_Char.c:60-67,              *)
(* arduino_Firmware.ino:34-37).                                            *)
THEOREM Arriving == Spec => []ArrivesWhole
<1>1. CharInv => ArrivesWhole
  BY DEF CharInv
<1> QED BY <1>1, InitChar, NextChar, PTL DEF Spec

(* However reads of any count follow each other on any files, none returns *)
(* what is on the stack beyond tBuffer (arduino_Char.c:76-103).            *)
THEOREM Unleaked == Spec => []NothingOfStack
<1>1. CharInv => NothingOfStack
  BY DEF CharInv
<1> QED BY <1>1, InitChar, NextChar, PTL DEF Spec

-----------------------------------------------------------------------------
(* The GPIO driver                                                         *)

All == 0 .. node.children - 1
Before(c) == {e \in node.enabled : e < c}

(* Without an array, with one in which every child has its own place, or   *)
(* with one that a disabled child leaves short: the last place is empty.   *)
ArrayFits ==
  \/ dev = gpio!NoArray
  \/ /\ dev \in [All -> All \union {None}]
     /\ node.enabled = All => \A k \in All : k < child => dev[k] = k
     /\ node.enabled # All => dev[node.children - 1] = None

(* No probe has failed half-way: what is registered is what probe has come *)
(* past, or what remove has not.                                           *)
GpioFits ==
  /\ at = "unbound" => registered = {} /\ gpio_held = {}
  /\ at = "probing" => registered = Before(child) /\ gpio_held = registered
  /\ at = "bound" => registered = node.enabled /\ gpio_held = registered
  /\ at = "removing" => /\ gpio_held = node.enabled /\ registered \subseteq gpio_held
                        /\ node.enabled = All => registered = All \ {k \in All : k < i}
  /\ at = "oops" => registered \subseteq gpio_held
                    /\ (node.enabled # All \/ dev = gpio!NoArray)

(* A probe has: its devices are those of the first enabled children, and   *)
(* no further probe gets past them.                                        *)
GpioStuck ==
  /\ registered # {} /\ registered \subseteq node.enabled
  /\ \A c \in registered : Before(c) \subseteq registered
  /\ at \in {"unbound", "probing", "oops"}
  /\ at = "probing" => Before(child) = {}

(* Where probe and remove are in the array.                                *)
IndexFits ==
  /\ at \in {"probing", "bound", "removing"} =>
       total_devices = node.children /\ ArrayFits
  /\ at = "probing" => i <= child
       /\ (node.enabled = All /\ dev # gpio!NoArray => i = child)
       /\ (i = child => All \ node.enabled \subseteq {c \in All : c >= child})
       /\ (dev # gpio!NoArray => \A k \in All : k >= i => dev[k] = None)
       /\ (dev = gpio!NoArray => i = 0)
  /\ at \in {"bound", "removing"} => child = node.children
  /\ at = "removing" /\ dev = gpio!NoArray => i = 0
  /\ at = "removing" /\ dev # gpio!NoArray /\ node.enabled # All =>
       i < node.children

GInv ==
  /\ gpio!TypeOK /\ IndexFits
  /\ at \in {"probing", "bound", "removing"} => node.children > 0
  /\ IF abandoned THEN GpioStuck ELSE GpioFits

(* The types of what the lemmas compute with.                              *)
LEMMA GpioTypes ==
  ASSUME GInv
  PROVE  /\ node \in Nodes /\ node.children \in Nat /\ node.enabled \subseteq All
         /\ module \in {"absent", "loaded", "ineffective"}
         /\ at \in {"unbound", "probing", "bound", "removing", "oops"}
         /\ child \in 0 .. node.children /\ total_devices \in 0 .. node.children
         /\ i \in 0 .. total_devices
         /\ dev = gpio!NoArray \/ dev \in [0 .. total_devices - 1 -> All \union {None}]
         /\ gpio_held \subseteq All /\ registered \subseteq All
         /\ line \in [All -> [dir : {"in", "out"}, level : 0 .. 1]]
         /\ abandoned \in BOOLEAN
<1>1. gpio!TypeOK /\ gpio!Children = All
  BY DEF GInv, gpio!Children, All
<1>2. node \in Nodes /\ node.children \in Nat /\ node.enabled \subseteq All
  BY <1>1, ConstantsAssumption DEF gpio!TypeOK, gpio!NodesType, gpio!Node, All
<1> QED BY <1>1, <1>2 DEF gpio!TypeOK

LEMMA NotNoArray ==
  ASSUME NEW a, a \in [All -> All \union {None}], node.children \in Nat,
         node.children > 0
  PROVE  a # gpio!NoArray
<1>1. 0 \in All
  BY DEF All
<1>2. DOMAIN a = All /\ DOMAIN gpio!NoArray = {}
  BY DEF gpio!NoArray
<1> QED BY <1>1, <1>2

LEMMA NoneApart == \A k \in Nat : k # None
BY ConstantsAssumption

(* Loading and unloading touch nothing of a device.                        *)
LEMMA ModuleGpio ==
  ASSUME GInv, gpio!Load \/ gpio!Unload
  PROVE  GInv'
<1>1. /\ UNCHANGED <<node, at, child, i, total_devices, dev, gpio_held, line,
                      registered, abandoned>>
      /\ module' \in {"absent", "loaded", "ineffective"}
  BY DEF gpio!Load, gpio!Unload, gpio!probed
<1>2. gpio!TypeOK'
  BY <1>1 DEF GInv, gpio!TypeOK, gpio!Children
<1> QED BY <1>1, <1>2
    DEF GInv, IndexFits, ArrayFits, GpioStuck, GpioFits, Before, All

LEMMA BeginProbeGpio ==
  ASSUME GInv, gpio!BeginProbe
  PROVE  GInv'
<1>1. /\ at = "unbound" /\ node.children > 0
      /\ at' = "probing" /\ child' = 0 /\ i' = 0 /\ total_devices' = node.children
      /\ dev' = [k \in All |-> None] \/ dev' = gpio!NoArray
      /\ UNCHANGED <<node, module, gpio_held, line, registered, abandoned>>
  BY DEF gpio!BeginProbe, gpio!Children, All
<1>2. dev' = gpio!NoArray \/ dev' \in [All -> All \union {None}]
  BY <1>1
<1>3. gpio!TypeOK'
  BY <1>1, <1>2, GpioTypes DEF GInv, gpio!TypeOK, gpio!Children, All
<1>4. Before(0) = {} /\ \A k \in All : ~(k < 0)
  BY GpioTypes DEF Before, All
<1>5. ArrayFits'
  <2>1. node.children - 1 \in All
    BY <1>1, GpioTypes DEF All
  <2> QED BY <1>1, <1>2, <1>4, <2>1 DEF ArrayFits, All
<1>6. \A k \in All : k >= 0
  BY DEF All
<1>7. IndexFits'
  <2>1. All' = All /\ node.children' = node.children
    BY <1>1 DEF All
  <2>2. All \ node.enabled \subseteq {c \in All : c >= 0}
    BY <1>6
  <2>3. dev' # gpio!NoArray => \A k \in All : dev'[k] = None
    BY <1>1
  <2>4. i' <= child' /\ i' = child'
    BY <1>1
  <2>5. at' = "probing" /\ total_devices' = node.children /\ node' = node
    BY <1>1
  <2>6. All' \ node'.enabled \subseteq {c \in All' : c >= child'}
    BY <1>1, <2>1, <2>2
  <2>7. i' = 0
    BY <1>1
  <2>8. dev' # gpio!NoArray => \A k \in All' : k >= i' => dev'[k] = None
    BY <2>1, <2>3
  <2> QED BY <1>5, <2>4, <2>5, <2>6, <2>7, <2>8 DEF IndexFits
<1>8. IF abandoned' THEN GpioStuck' ELSE GpioFits'
  BY <1>1, <1>4 DEF GInv, GpioStuck, GpioFits, Before, All
<1> QED BY <1>1, <1>3, <1>7, <1>8 DEF GInv

LEMMA SkipChildGpio ==
  ASSUME GInv, gpio!SkipChild
  PROVE  GInv'
<1>1. /\ at = "probing" /\ child \in All \ node.enabled /\ child' = child + 1
      /\ UNCHANGED <<node, module, at, i, total_devices, dev, gpio_held, line,
                     registered, abandoned>>
  BY DEF gpio!SkipChild, gpio!Children, All
<1>2. gpio!TypeOK'
  BY <1>1, GpioTypes DEF GInv, gpio!TypeOK, gpio!Children, All
<1>3. Before(child') = Before(child)
  BY <1>1, GpioTypes DEF Before, All
<1>4. ArrayFits'
  BY <1>1 DEF GInv, IndexFits, ArrayFits, All
<1>5. node.enabled # All /\ i <= child /\ i # child + 1
  BY <1>1, GpioTypes DEF GInv, IndexFits, All
<1>6. IndexFits'
  BY <1>1, <1>4, <1>5, GpioTypes DEF GInv, IndexFits, All
<1>7. IF abandoned' THEN GpioStuck' ELSE GpioFits'
  BY <1>1, <1>3 DEF GInv, GpioStuck, GpioFits, Before, All
<1> QED BY <1>1, <1>2, <1>6, <1>7 DEF GInv

LEMMA AddChildGpio ==
  ASSUME GInv, gpio!AddChild
  PROVE  GInv'
<1>1. /\ at = "probing" /\ child \in node.enabled \ registered /\ dev # gpio!NoArray
      /\ gpio_held' = gpio_held \union {child}
      /\ line' = [line EXCEPT ![child] = [dir |-> "out", level |-> 0]]
      /\ registered' = registered \union {child}
      /\ dev' = [dev EXCEPT ![i] = child] /\ i' = i + 1 /\ child' = child + 1
      /\ UNCHANGED <<node, module, at, total_devices, abandoned>>
  BY DEF gpio!AddChild
<1>2. /\ total_devices = node.children /\ node.children > 0 /\ i <= child
      /\ dev \in [All -> All \union {None}]
      /\ child \in All /\ i \in All
  BY <1>1, GpioTypes DEF GInv, IndexFits, ArrayFits, All
<1>3. /\ dev' \in [All -> All \union {None}] /\ dev'[i] = child
      /\ \A k \in All : k # i => dev'[k] = dev[k]
  BY <1>1, <1>2
<1>4. dev' # gpio!NoArray
  BY <1>2, <1>3, GpioTypes, NotNoArray
<1>5. line' \in [All -> [dir : {"in", "out"}, level : 0 .. 1]]
  <2>1. [dir |-> "out", level |-> 0] \in [dir : {"in", "out"}, level : 0 .. 1]
    OBVIOUS
  <2> QED BY <1>1, <1>2, <2>1, GpioTypes
<1>6. gpio!TypeOK'
  <2>1. /\ child' \in 0 .. node.children /\ i' \in 0 .. node.children
        /\ gpio_held' \subseteq All /\ registered' \subseteq All
    BY <1>1, <1>2, GpioTypes DEF All
  <2> QED BY <1>1, <1>2, <1>3, <1>5, <2>1, GpioTypes
      DEF gpio!TypeOK, gpio!Children, All
<1>7. i = child => \A k \in All : k < child => k \in node.enabled
  <2> SUFFICES ASSUME i = child, NEW k \in All, k < child, k \notin node.enabled
               PROVE  FALSE
    OBVIOUS
  <2>1. All \ node.enabled \subseteq {c \in All : c >= child}
    BY <1>1 DEF GInv, IndexFits
  <2>2. k >= child
    BY <2>1
  <2> QED BY <1>2, <2>2 DEF All
<1>8. node.enabled # All => i # node.children - 1
  <2> SUFFICES ASSUME i = node.children - 1 PROVE node.enabled = All
    OBVIOUS
  <2>1. i = child /\ \A k \in All : k < child \/ k = child
    BY <1>2, GpioTypes DEF All
  <2> QED BY <1>1, <1>7, <2>1, GpioTypes
<1>9. ArrayFits'
  <2>1. ASSUME node.enabled = All, NEW k \in All, k < child + 1 PROVE dev'[k] = k
    <3>1. i = child /\ (k < child => dev[k] = k)
      BY <1>1, <1>2, <2>1, GpioTypes, NotNoArray DEF GInv, IndexFits, ArrayFits
    <3>2. k < child \/ k = child
      BY <1>2, <2>1 DEF All
    <3> QED BY <1>3, <3>1, <3>2, <2>1
  <2>2. ASSUME node.enabled # All PROVE dev'[node.children - 1] = None
    <3>1. node.children - 1 \in All
      BY <1>2, GpioTypes DEF All
    <3> QED BY <1>1, <1>2, <1>3, <1>8, <2>2, <3>1, NotNoArray
        DEF GInv, IndexFits, ArrayFits
  <2> QED BY <1>1, <1>3, <2>1, <2>2 DEF ArrayFits, All
<1>10. IndexFits'
  <2>1. i' <= child' /\ (node.enabled = All => i' = child')
    BY <1>1, <1>2, GpioTypes DEF GInv, IndexFits, All
  <2>2. i' = child' => All \ node.enabled \subseteq {c \in All : c >= child'}
    <3> SUFFICES ASSUME i' = child', NEW c \in All, c \notin node.enabled
                 PROVE  c >= child'
      OBVIOUS
    <3>1. i = child
      <4>1. i + 1 = child + 1 /\ i \in Int /\ child \in Int
        <5>1. i' = child' /\ i' = i + 1 /\ child' = child + 1
          BY <1>1
        <5>2. i \in Int /\ child \in Int
          BY <1>2 DEF All
        <5> QED BY <5>1, <5>2
      <4> QED BY <4>1
    <3>2. ~(c < child) /\ c # child
      BY <1>1, <1>7, <3>1
    <3> QED BY <1>1, <1>2, <3>2 DEF All
  <2>3. \A k \in All : k >= i' => dev'[k] = None
    <3> SUFFICES ASSUME NEW k \in All, k >= i' PROVE dev'[k] = None
      OBVIOUS
    <3>1. k >= i /\ k # i
      BY <1>1, <1>2 DEF All
    <3> QED BY <1>1, <1>3, <3>1 DEF GInv, IndexFits
  <2> QED BY <1>1, <1>2, <1>4, <1>9, <2>1, <2>2, <2>3 DEF IndexFits, All
<1>11. ~abandoned
  <2> SUFFICES ASSUME abandoned PROVE FALSE
    OBVIOUS
  <2>1. /\ registered # {} /\ registered \subseteq node.enabled
        /\ \A c \in registered : Before(c) \subseteq registered
        /\ Before(child) = {}
    BY <1>1 DEF GInv, GpioStuck
  <2>2. PICK c \in registered : TRUE
    BY <2>1
  <2>3. c \in All /\ ~(c < child) /\ c # child
    BY <1>1, <2>1, <2>2, GpioTypes DEF Before
  <2>4. child \in Before(c)
    BY <1>1, <1>2, <2>3 DEF Before, All
  <2> QED BY <1>1, <2>1, <2>2, <2>4
<1>12. GpioFits'
  <2>1. registered = Before(child) /\ gpio_held = registered
    BY <1>1, <1>11 DEF GInv, GpioFits
  <2>2. Before(child + 1) = Before(child) \union {child}
    BY <1>1, <1>2, GpioTypes DEF Before, All
  <2> QED BY <1>1, <2>1, <2>2 DEF GpioFits, Before, All
<1> QED BY <1>1, <1>2, <1>6, <1>10, <1>11, <1>12 DEF GInv

(* A failure leaves what the children before it had registered.            *)
LEMMA ChildFailsGpio ==
  ASSUME GInv, gpio!ChildFails
  PROVE  GInv'
<1>1. /\ at = "probing" /\ child \in node.enabled
      /\ at' = "unbound" /\ gpio_held' = {} /\ dev' = gpio!NoArray
      /\ abandoned' = (registered # {})
      /\ UNCHANGED <<node, module, child, i, total_devices, registered>>
      /\ \/ line' = line
         \/ line' = [line EXCEPT ![child] = [dir |-> "out", level |-> 0]]
  BY DEF gpio!ChildFails
<1>2. line' \in [All -> [dir : {"in", "out"}, level : 0 .. 1]]
  <2>1. [dir |-> "out", level |-> 0] \in [dir : {"in", "out"}, level : 0 .. 1]
    OBVIOUS
  <2> QED BY <1>1, <2>1, GpioTypes
<1>3. gpio!TypeOK'
  <2>1. abandoned' \in BOOLEAN
    BY <1>1
  <2> QED BY <1>1, <1>2, <2>1, GpioTypes DEF gpio!TypeOK, gpio!Children, All
<1>4. IndexFits'
  BY <1>1 DEF IndexFits
<1>5. IF abandoned' THEN GpioStuck' ELSE GpioFits'
  <2>1. CASE registered = {}
    <3>1. ~abandoned' /\ GpioFits'
      BY <1>1, <2>1 DEF GpioFits
    <3> QED BY <3>1
  <2>2. CASE registered # {}
    <3>1. abandoned'
      BY <1>1, <2>2
    <3>2. registered \subseteq node.enabled
          /\ \A c \in registered : Before(c) \subseteq registered
      <4>1. CASE abandoned
        BY <4>1 DEF GInv, GpioStuck
      <4>2. CASE ~abandoned
        <5>1. registered = Before(child)
          BY <1>1, <4>2 DEF GInv, GpioFits
        <5>2. ASSUME NEW c \in Before(child), NEW e \in Before(c)
              PROVE  e \in Before(child)
          <6>1. c \in Int /\ e \in Int /\ child \in Int /\ e < c /\ c < child
                /\ e \in node.enabled
            BY <1>1, <5>2, GpioTypes DEF Before, All
          <6>2. e < child
            BY <6>1
          <6> QED BY <6>1, <6>2 DEF Before
        <5> QED BY <5>1, <5>2 DEF Before
      <4> QED BY <4>1, <4>2
    <3>3. GpioStuck'
      BY <1>1, <2>2, <3>2 DEF GpioStuck, Before
    <3> QED BY <3>1, <3>3
  <2> QED BY <2>1, <2>2
<1> QED BY <1>1, <1>3, <1>4, <1>5 DEF GInv

LEMMA AddToNoArrayGpio ==
  ASSUME GInv, gpio!AddToNoArray
  PROVE  GInv'
<1>1. /\ at = "probing" /\ dev = gpio!NoArray /\ at' = "oops"
      /\ UNCHANGED <<node, module, child, i, total_devices, dev, gpio_held, line,
                     registered, abandoned>>
  BY DEF gpio!AddToNoArray, gpio!probed
<1>2. gpio!TypeOK'
  BY <1>1, GpioTypes DEF gpio!TypeOK, gpio!Children, All
<1>3. IndexFits'
  BY <1>1 DEF IndexFits
<1>4. IF abandoned' THEN GpioStuck' ELSE GpioFits'
  BY <1>1 DEF GInv, GpioStuck, GpioFits, Before, All
<1> QED BY <1>1, <1>2, <1>3, <1>4 DEF GInv

(* Past the last child every enabled one is registered.                    *)
LEMMA EndProbeGpio ==
  ASSUME GInv, gpio!EndProbe
  PROVE  GInv'
<1>1. /\ at = "probing" /\ child = node.children /\ at' = "bound"
      /\ UNCHANGED <<node, module, child, i, total_devices, dev, gpio_held, line,
                     registered, abandoned>>
  BY DEF gpio!EndProbe, gpio!probed
<1>2. gpio!TypeOK'
  BY <1>1, GpioTypes DEF gpio!TypeOK, gpio!Children, All
<1>3. IndexFits'
  BY <1>1 DEF GInv, IndexFits, ArrayFits, All
<1>4. Before(child) = node.enabled
  BY <1>1, GpioTypes DEF Before, All
<1>5. ~abandoned
  BY <1>1, <1>4 DEF GInv, GpioStuck
<1>6. GpioFits'
  BY <1>1, <1>4, <1>5 DEF GInv, GpioFits
<1> QED BY <1>1, <1>2, <1>3, <1>5, <1>6 DEF GInv

LEMMA BeginRemoveGpio ==
  ASSUME GInv, gpio!BeginRemove
  PROVE  GInv'
<1>1. /\ at = "bound" /\ at' = "removing" /\ i' = 0
      /\ UNCHANGED <<node, module, child, total_devices, dev, gpio_held, line,
                     registered, abandoned>>
  BY DEF gpio!BeginRemove
<1>2. gpio!TypeOK'
  <2>1. i' \in 0 .. total_devices
    BY <1>1, GpioTypes
  <2> QED BY <1>1, <2>1, GpioTypes DEF gpio!TypeOK, gpio!Children, All
<1>3. node.children > 0 /\ ~abandoned
  BY <1>1 DEF GInv, GpioStuck
<1>4. IndexFits'
  BY <1>1, <1>3 DEF GInv, IndexFits, ArrayFits, All
<1>5. GpioFits'
  <2>1. {k \in All : k < 0} = {}
    BY DEF All
  <2>2. registered = node.enabled /\ gpio_held = registered
    BY <1>1, <1>3 DEF GInv, GpioFits
  <2> QED BY <1>1, <2>1, <2>2 DEF GpioFits, All
<1> QED BY <1>1, <1>2, <1>3, <1>4, <1>5 DEF GInv

(* With all children enabled, each place holds the device of its index;    *)
(* otherwise the walk ends at the empty last place at the latest.          *)
LEMMA UnregisterGpio ==
  ASSUME GInv, gpio!Unregister
  PROVE  GInv'
<1>1. /\ at = "removing" /\ i < total_devices
      /\ UNCHANGED <<node, module, child, total_devices, dev, gpio_held, line,
                     abandoned>>
  BY DEF gpio!Unregister
<1>2. /\ ~abandoned /\ total_devices = node.children /\ child = node.children
      /\ node.children > 0 /\ i \in All
      /\ gpio_held = node.enabled /\ registered \subseteq gpio_held
  BY <1>1, GpioTypes DEF GInv, GpioStuck, GpioFits, IndexFits, All
<1>3. CASE dev # gpio!NoArray /\ dev[i] # None
  <2>1. registered' = registered \ {dev[i]} /\ i' = i + 1 /\ at' = at
    BY <1>3 DEF gpio!Unregister
  <2>2. /\ dev \in [All -> All \union {None}]
        /\ node.enabled = All => \A k \in All : k < child => dev[k] = k
        /\ node.enabled # All => dev[node.children - 1] = None
    BY <1>1, <1>3 DEF GInv, IndexFits, ArrayFits
  <2>3. i' \in 0 .. total_devices
    <3>1. i \in Nat /\ total_devices \in Nat /\ i < total_devices
      BY <1>1, GpioTypes
    <3>2. i + 1 \in 0 .. total_devices
      BY <3>1
    <3> QED BY <2>1, <3>2
  <2>4. registered' \subseteq All
    BY <2>1, GpioTypes
  <2>5. gpio!TypeOK'
    BY <1>1, <2>1, <2>3, <2>4, GpioTypes DEF gpio!TypeOK, gpio!Children, All
  <2>6. node.enabled # All => i + 1 < node.children
    <3> SUFFICES ASSUME node.enabled # All PROVE i + 1 < node.children
      OBVIOUS
    <3>1. i # node.children - 1
      BY <1>3, <2>2
    <3> QED BY <1>2, <3>1, GpioTypes DEF All
  <2>7. ArrayFits'
    BY <1>1, <2>2 DEF ArrayFits, All
  <2>8. IndexFits'
    <3>1. at' = "removing" /\ dev' # gpio!NoArray
      BY <1>1, <1>3, <2>1
    <3>2. total_devices' = node'.children /\ child' = node'.children
      BY <1>1, <1>2
    <3>3. node'.enabled # All' => i' < node'.children
      BY <1>1, <2>1, <2>6 DEF All
    <3> QED BY <2>7, <3>1, <3>2, <3>3 DEF IndexFits
  <2>9. GpioFits'
    <3>1. gpio_held' = node'.enabled /\ registered' \subseteq gpio_held'
      BY <1>1, <1>2, <2>1
    <3>2. ASSUME node.enabled = All
          PROVE  registered' = All \ {k \in All : k < i + 1}
      <4>1. registered = All \ {k \in All : k < i}
        BY <1>1, <1>2, <3>2 DEF GInv, GpioFits
      <4>2. i < child
        BY <1>1, <1>2
      <4>3. dev[i] = i
        BY <1>2, <2>2, <3>2, <4>2
      <4>4. \A k \in All : k < i + 1 <=> k < i \/ k = i
        BY <1>2 DEF All
      <4> QED BY <2>1, <4>1, <4>3, <4>4
    <3>3. node'.enabled = All' => registered' = All' \ {k \in All' : k < i'}
      BY <1>1, <2>1, <3>2 DEF All
    <3>4. at' = "removing"
      BY <1>1, <2>1
    <3> QED BY <3>1, <3>3, <3>4 DEF GpioFits
  <2> QED BY <1>1, <1>2, <2>1, <2>5, <2>8, <2>9 DEF GInv
<1>4. CASE ~(dev # gpio!NoArray /\ dev[i] # None)
  <2>1. at' = "oops" /\ UNCHANGED <<registered, i>>
    BY <1>4 DEF gpio!Unregister
  <2>2. gpio!TypeOK'
    BY <1>1, <2>1, GpioTypes DEF gpio!TypeOK, gpio!Children, All
  <2>3. node.enabled # All \/ dev = gpio!NoArray
    <3> SUFFICES ASSUME node.enabled = All, dev # gpio!NoArray PROVE FALSE
      OBVIOUS
    <3>1. \A k \in All : k < child => dev[k] = k
      BY <1>1 DEF GInv, IndexFits, ArrayFits
    <3>2. i < child
      BY <1>1, <1>2
    <3>3. dev[i] = i /\ i \in Nat
      BY <1>2, <3>1, <3>2 DEF All
    <3> QED BY <1>4, <3>3, NoneApart
  <2>4. IndexFits'
    BY <2>1 DEF IndexFits
  <2>5. GpioFits'
    BY <1>1, <1>2, <2>1, <2>3 DEF GpioFits, All
  <2> QED BY <1>1, <1>2, <2>1, <2>2, <2>4, <2>5 DEF GInv
<1> QED BY <1>3, <1>4

(* Whoever comes to the end of the array has had an array, and a device in *)
(* every place.                                                            *)
LEMMA EndRemoveGpio ==
  ASSUME GInv, gpio!EndRemove
  PROVE  GInv'
<1>1. /\ at = "removing" /\ i = total_devices
      /\ at' = "unbound" /\ gpio_held' = {} /\ dev' = gpio!NoArray
      /\ UNCHANGED <<node, module, child, i, total_devices, line, registered,
                     abandoned>>
  BY DEF gpio!EndRemove
<1>2. ~abandoned /\ i = node.children /\ node.children > 0
  BY <1>1 DEF GInv, GpioStuck, IndexFits
<1>3. dev # gpio!NoArray /\ node.enabled = All
  <2>1. i \in Nat /\ i # 0 /\ ~(i < node.children)
    BY <1>2, GpioTypes
  <2>2. dev # gpio!NoArray
    BY <1>1, <2>1 DEF GInv, IndexFits
  <2> QED BY <1>1, <2>1, <2>2 DEF GInv, IndexFits
<1>4. registered = All \ {k \in All : k < i}
  BY <1>1, <1>2, <1>3 DEF GInv, GpioFits
<1>5. registered = {}
  <2>1. \A k \in All : k < i
    BY <1>2, GpioTypes DEF All
  <2> QED BY <1>4, <2>1
<1>6. gpio!TypeOK'
  BY <1>1, GpioTypes DEF gpio!TypeOK, gpio!Children, All
<1>7. IndexFits' /\ GpioFits'
  BY <1>1, <1>5 DEF IndexFits, GpioFits
<1> QED BY <1>1, <1>2, <1>6, <1>7 DEF GInv

(* A store finds the line held, unless a probe has failed half-way.        *)
LEMMA StoreGpio ==
  ASSUME GInv, at # "oops", NEW c \in registered,
         NEW to \in [dir : {"in", "out"}, level : 0 .. 1], gpio!Store(c, to)
  PROVE  GInv'
<1>1. UNCHANGED <<node, module, child, i, total_devices, dev, gpio_held,
                  registered, abandoned>>
  BY DEF gpio!Store
<1>2. CASE c \in gpio_held
  <2>1. line' = [line EXCEPT ![c] = to] /\ at' = at
    BY <1>2 DEF gpio!Store
  <2>2. line' \in [All -> [dir : {"in", "out"}, level : 0 .. 1]]
    BY <2>1, GpioTypes
  <2>3. gpio!TypeOK'
    BY <1>1, <2>1, <2>2, GpioTypes DEF gpio!TypeOK, gpio!Children, All
  <2> QED BY <1>1, <2>1, <2>3
      DEF GInv, IndexFits, ArrayFits, GpioStuck, GpioFits, Before, All
<1>3. CASE c \notin gpio_held
  <2>1. at' = "oops" /\ line' = line
    BY <1>3 DEF gpio!Store
  <2>2. gpio!TypeOK'
    BY <1>1, <2>1, GpioTypes DEF gpio!TypeOK, gpio!Children, All
  <2>3. abandoned
    <3> SUFFICES ASSUME ~abandoned PROVE c \in gpio_held
      BY <1>3
    <3>1. GpioFits
      BY DEF GInv
    <3>2. at \in {"unbound", "probing", "bound", "removing"}
      BY GpioTypes
    <3> QED BY <3>1, <3>2 DEF GpioFits
  <2>4. IndexFits'
    BY <2>1 DEF IndexFits
  <2>5. GpioStuck'
    BY <1>1, <2>1, <2>3 DEF GInv, GpioStuck, Before
  <2> QED BY <1>1, <2>1, <2>2, <2>3, <2>4, <2>5 DEF GInv
<1> QED BY <1>2, <1>3

LEMMA AttributeGpio ==
  ASSUME GInv, at # "oops", NEW c \in registered,
         gpio!direction_store(c) \/ gpio!value_store(c)
  PROVE  GInv'
<1>1. line[c] \in [dir : {"in", "out"}, level : 0 .. 1]
  BY GpioTypes
<1>2. CASE gpio!Store(c, [line[c] EXCEPT !.dir = "in"])
  BY <1>1, <1>2, StoreGpio
<1>3. CASE gpio!Store(c, [dir |-> "out", level |-> 0])
  BY <1>3, StoreGpio
<1>4. ASSUME NEW value \in 0 .. 1, gpio!Store(c, [line[c] EXCEPT !.level = value])
      PROVE  GInv'
  BY <1>1, <1>4, StoreGpio
<1> QED BY <1>2, <1>3, <1>4 DEF gpio!direction_store, gpio!value_store

LEMMA InitGpio == Init => GInv
<1> SUFFICES ASSUME Init PROVE GInv
  OBVIOUS
<1>1. /\ node \in Nodes /\ module = "absent" /\ at = "unbound"
      /\ child = 0 /\ i = 0 /\ total_devices = 0 /\ dev = gpio!NoArray
      /\ gpio_held = {} /\ registered = {} /\ abandoned = FALSE
      /\ line = [c \in All |-> [dir |-> "in", level |-> 0]]
  BY DEF Init, gpio!Init, gpio!Children, All
<1>2. node.children \in Nat
  BY <1>1, ConstantsAssumption DEF gpio!NodesType, gpio!Node
<1>3. line \in [All -> [dir : {"in", "out"}, level : 0 .. 1]]
  <2>1. [dir |-> "in", level |-> 0] \in [dir : {"in", "out"}, level : 0 .. 1]
    OBVIOUS
  <2> QED BY <1>1, <2>1
<1>4. gpio!TypeOK
  <2>1. 0 \in 0 .. node.children /\ 0 \in 0 .. 0 /\ FALSE \in BOOLEAN
    BY <1>2
  <2>2. /\ child \in 0 .. node.children /\ total_devices \in 0 .. node.children
        /\ i \in 0 .. total_devices /\ abandoned \in BOOLEAN
    BY <1>1, <2>1
  <2> QED BY <1>1, <1>3, <2>2 DEF gpio!TypeOK, gpio!Children, All
<1>5. IndexFits /\ GpioFits
  BY <1>1 DEF IndexFits, GpioFits
<1> QED BY <1>1, <1>4, <1>5 DEF GInv

LEMMA NextGpio == GInv /\ [Next]_vars => GInv'
<1>1. ASSUME GInv, UNCHANGED gpioVars PROVE GInv'
  <2>1. gpio!TypeOK'
    BY <1>1 DEF gpioVars, GInv, gpio!TypeOK, gpio!Children
  <2> QED BY <1>1, <2>1
      DEF gpioVars, GInv, IndexFits, ArrayFits, GpioStuck, GpioFits, Before, All
<1>2. ASSUME GInv, gpio!Next PROVE GInv'
  BY <1>2, ModuleGpio, BeginProbeGpio, SkipChildGpio, AddChildGpio,
     ChildFailsGpio, AddToNoArrayGpio, EndProbeGpio, BeginRemoveGpio,
     UnregisterGpio, EndRemoveGpio, AttributeGpio
  DEF gpio!Next
<1> QED BY <1>1, <1>2 DEF Next, ModulesStep, GpioStep, ArduinoStep, vars

(* For any device tree node, whichever of its children are enabled and     *)
(* whatever fails, a store through an attribute finds data and line held,  *)
(* while probe and remove still run, as long as no probe fails half-way    *)
(* (gpio-sysfs.c:64-101, 160-203).                                         *)
THEOREM AttributesReach == Spec => []AttributesWork
<1>1. GInv => AttributesWork
  <2> SUFFICES ASSUME GInv, ~abandoned PROVE registered \subseteq gpio_held
    BY DEF AttributesWork, gpio!AttributesWork
  <2> QED BY GpioTypes DEF GInv, GpioFits
<1> QED BY <1>1, InitGpio, NextGpio, PTL DEF Spec

(* The driver, once bound, has a device for each enabled child, and gives  *)
(* all of them back; it stops on the way only where a child is disabled or *)
(* the array was not there (gpio-sysfs.c:116-126, 150-203).                *)
THEOREM GivenBack == Spec => []GivesAllBack
<1>1. GInv => GivesAllBack
  <2>1. gpio!Children = All
    BY DEF gpio!Children, All
  <2> QED BY <2>1 DEF GInv, GpioFits, GpioStuck, GivesAllBack, gpio!GivesAllBack
<1> QED BY <1>1, InitGpio, NextGpio, PTL DEF Spec

-----------------------------------------------------------------------------
(* Module init and exit                                                    *)

Step == [res : modules!Kinds, noticed : BOOLEAN, undo : Seq(modules!Kinds),
         ret : {"zero", "error"}]
Given(s) == {s[k] : k \in 1 .. Len(s)}

(* What a cdev stands on, as a device file does on its class.              *)
Base(d) == {modules!Region} \union (IF d \in {"arduino", "lcd"} THEN {modules!Memory} ELSE {})

(* What stands on something is given back before it.                       *)
GoodOrder(s) ==
  \A k \in 1 .. Len(s) : \A j \in 1 .. k - 1 :
    /\ s[k].kind = "device" => s[j] # modules!Class
    /\ s[k].kind = "cdev" => s[j] # modules!Region /\ s[j] # modules!Memory

(* What a row of calls has to be like, given what is held before it: each  *)
(* call undoes what the calls before it took, exit gives back what any of  *)
(* them takes, and a cdev comes after what it stands on.                   *)
GoodCall(row, k, exit, before, d) ==
  /\ row[k].noticed => /\ before \subseteq Given(row[k].undo)
                       /\ \A j \in 1 .. k - 1 : row[j].res \in Given(row[k].undo)
  /\ GoodOrder(row[k].undo)
  /\ row[k].res \in Given(exit)
  /\ row[k].res.kind = "cdev" =>
       \A r \in Base(d) :
         r \in before \/ \E j \in 1 .. k - 1 : row[j].noticed /\ row[j].res = r

GoodRow(row, exit, before, d) ==
  /\ before \subseteq Given(exit)
  /\ \A k \in 1 .. Len(row) : GoodCall(row, k, exit, before, d)

(* What a held resource stands on is held.                                 *)
Stands(r) ==
  /\ r.kind = "device" => modules!Class \in held
  /\ r.kind = "cdev" => Base(driver) \subseteq held

(* The drivers that look at what class_create and kzalloc returned, and    *)
(* those that take an error for a class.                                   *)
Careful == {"pcd", "pcd_n"}
Careless == {"arduino", "lcd"}

NoDevice(s) == \A k \in 1 .. Len(s) : s[k].kind # "device"

(* The class is held before the k-th call of a row is made.                *)
ClassBy(row, k, before) ==
  \/ modules!Class \in before
  \/ \E j \in 1 .. k - 1 : row[j].noticed /\ row[j].res = modules!Class

(* What a row has to be like for no device_destroy to meet an error in     *)
(* place of its class: an undoing gives back devices only where the class  *)
(* was taken, and an init that succeeds took it.                           *)
SafeRow(row, before, d) ==
  /\ \A k \in 1 .. Len(row) :
       row[k].noticed => /\ NoDevice(row[k].undo) \/ ClassBy(row, k, before)
                         /\ d \in Careful => row[k].ret = "error"
  /\ d \in Careful => ClassBy(row, Len(row) + 1, before)

(* The only device_destroy that may meet an error is the first call of the *)
(* remove of a driver that did not look.                                   *)
SafeToGive ==
  \/ NoDevice(todo)
  \/ modules!Class \in held
  \/ state = "leaving" /\ driver \in Careless /\ todo = modules!Giving(driver)

(* The inductive invariant: an init under way can still undo whatever it   *)
(* holds, what undoes or leaves still gives back all that is held, and in  *)
(* an order that never pulls anything away from under something else.      *)
InitInv ==
  /\ modules!TypeOK
  /\ \A r \in held : Stands(r)
  /\ state = "absent" => held = {}
  /\ state = "starting" => /\ GoodRow(todo, modules!Giving(driver), held, driver)
                           /\ SafeRow(todo, held, driver)
  /\ state \in {"undoing", "leaving"} =>
       held \subseteq Given(todo) /\ GoodOrder(todo) /\ SafeToGive
  /\ state = "undoing" /\ driver \in Careful => ret = "error"
  /\ state = "there" => /\ held \subseteq Given(modules!Giving(driver))
                        /\ driver \in Careful => modules!Class \in held
  /\ state = "oops" => driver \in Careless /\ todo = modules!Giving(driver)

(* The rest of a good row is one for what is held after its first call.    *)
LEMMA RestOfRow ==
  ASSUME NEW row \in Seq(Step), row # <<>>, NEW exit, NEW before, NEW d,
         GoodRow(row, exit, before, d)
  PROVE  /\ Head(row) = row[1] /\ 1 \in 1 .. Len(row) /\ Tail(row) \in Seq(Step)
         /\ GoodRow(Tail(row), exit, before \union {Head(row).res}, d)
         /\ ~Head(row).noticed => GoodRow(Tail(row), exit, before, d)
<1> DEFINE rest == Tail(row)
<1>1. /\ Len(row) \in Nat /\ Len(row) > 0 /\ Head(row) = row[1]
      /\ rest \in Seq(Step) /\ Len(rest) = Len(row) - 1
      /\ \A k \in 1 .. Len(rest) : rest[k] = row[k + 1]
  BY HeadTailProperties, LenProperties, EmptySeq
<1> HIDE DEF rest
<1>2. ASSUME NEW k \in 1 .. Len(rest)
      PROVE  /\ k + 1 \in 1 .. Len(row) /\ rest[k] = row[k + 1]
             /\ 1 \in 1 .. (k + 1) - 1
             /\ \A j \in 1 .. k - 1 :
                  j + 1 \in 1 .. (k + 1) - 1 /\ j \in 1 .. Len(rest) /\ rest[j] = row[j + 1]
  BY <1>1
<1>3. row[1].res \in Given(exit) /\ before \subseteq Given(exit)
  BY <1>1 DEF GoodRow, GoodCall
<1>4. ASSUME NEW k \in 1 .. Len(rest)
      PROVE  /\ rest[k].noticed =>
                  /\ before \union {row[1].res} \subseteq Given(rest[k].undo)
                  /\ \A j \in 1 .. k - 1 : rest[j].res \in Given(rest[k].undo)
             /\ GoodOrder(rest[k].undo)
             /\ rest[k].res \in Given(exit)
  <2> DEFINE m == k + 1
  <2>1. /\ m \in 1 .. Len(row) /\ rest[k] = row[m] /\ 1 \in 1 .. m - 1
        /\ \A j \in 1 .. k - 1 : j + 1 \in 1 .. m - 1 /\ rest[j] = row[j + 1]
    BY <1>2
  <2> HIDE DEF m
  <2>2. /\ row[m].noticed => /\ before \subseteq Given(row[m].undo)
                             /\ \A j \in 1 .. m - 1 : row[j].res \in Given(row[m].undo)
        /\ GoodOrder(row[m].undo)
        /\ row[m].res \in Given(exit)
    BY <2>1 DEF GoodRow, GoodCall
  <2> QED BY <2>1, <2>2
<1>5. ASSUME NEW k \in 1 .. Len(rest), rest[k].res.kind = "cdev", NEW r \in Base(d),
             r \notin before
      PROVE  \/ row[1].noticed /\ row[1].res = r
             \/ \E j \in 1 .. k - 1 : rest[j].noticed /\ rest[j].res = r
  <2>1. PICK j \in 1 .. (k + 1) - 1 : row[j].noticed /\ row[j].res = r
    BY <1>2, <1>5 DEF GoodRow, GoodCall
  <2>2. CASE j = 1
    BY <2>1, <2>2
  <2>3. CASE j # 1
    <3>1. j - 1 \in 1 .. k - 1 /\ j - 1 \in 1 .. Len(rest) /\ (j - 1) + 1 = j
      BY <1>1, <2>3
    <3>2. rest[j - 1] = row[j]
      BY <1>1, <3>1
    <3> QED BY <2>1, <3>1, <3>2
  <2> QED BY <2>2, <2>3
<1>6. GoodRow(rest, exit, before \union {row[1].res}, d)
  BY <1>3, <1>4, <1>5 DEF GoodRow, GoodCall
<1>7. ASSUME ~row[1].noticed PROVE GoodRow(rest, exit, before, d)
  BY <1>3, <1>4, <1>5, <1>7 DEF GoodRow, GoodCall
<1>8. Tail(row) = rest
  BY DEF rest
<1>9. Head(row) = row[1] /\ 1 \in 1 .. Len(row) /\ rest \in Seq(Step)
  BY <1>1
<1>10. ~Head(row).noticed => GoodRow(rest, exit, before, d)
  BY <1>7, <1>9
<1>11. GoodRow(rest, exit, before \union {Head(row).res}, d)
  BY <1>6, <1>9
<1> QED BY <1>8, <1>9, <1>10, <1>11

LEMMA RestOfSafeRow ==
  ASSUME NEW row \in Seq(Step), row # <<>>, NEW before, NEW d, SafeRow(row, before, d)
  PROVE  /\ SafeRow(Tail(row), before \union {Head(row).res}, d)
         /\ ~Head(row).noticed => SafeRow(Tail(row), before, d)
<1> DEFINE rest == Tail(row)
           after == before \union {Head(row).res}
<1>1. /\ Len(row) \in Nat /\ Len(row) > 0 /\ Head(row) = row[1]
      /\ Len(rest) = Len(row) - 1 /\ \A k \in 1 .. Len(rest) : rest[k] = row[k + 1]
  BY HeadTailProperties, LenProperties, EmptySeq
<1> HIDE DEF rest
<1>2. ASSUME NEW k \in 1 .. Len(rest) + 1, ClassBy(row, k + 1, before)
      PROVE  ClassBy(rest, k, after) /\ (~row[1].noticed => ClassBy(rest, k, before))
  <2>1. CASE modules!Class \in before
    BY <2>1 DEF ClassBy
  <2>2. CASE modules!Class \notin before
    <3>1. PICK j \in 1 .. (k + 1) - 1 : row[j].noticed /\ row[j].res = modules!Class
      BY <1>2, <2>2 DEF ClassBy
    <3>2. CASE j = 1
      BY <1>1, <3>1, <3>2 DEF ClassBy
    <3>3. CASE j # 1
      <4>1. j - 1 \in 1 .. k - 1 /\ j - 1 \in 1 .. Len(rest) /\ (j - 1) + 1 = j
        BY <1>1, <3>3
      <4>2. rest[j - 1] = row[j]
        BY <1>1, <4>1
      <4> QED BY <3>1, <4>1, <4>2 DEF ClassBy
    <3> QED BY <3>2, <3>3
  <2> QED BY <2>1, <2>2
<1>3. ASSUME NEW k \in 1 .. Len(rest), rest[k].noticed
      PROVE  /\ NoDevice(rest[k].undo) \/ ClassBy(row, k + 1, before)
             /\ d \in Careful => rest[k].ret = "error"
             /\ k \in 1 .. Len(rest) + 1
  <2>1. k + 1 \in 1 .. Len(row) /\ k \in 1 .. Len(rest) + 1
    BY <1>1
  <2> QED BY <1>1, <1>3, <2>1 DEF SafeRow
<1>4. ASSUME d \in Careful
      PROVE  ClassBy(row, (Len(rest) + 1) + 1, before) /\ Len(rest) + 1 \in 1 .. Len(rest) + 1
  <2>1. Len(row) + 1 = (Len(rest) + 1) + 1 /\ Len(rest) + 1 \in 1 .. Len(rest) + 1
    BY <1>1
  <2> QED BY <1>4, <2>1 DEF SafeRow
<1>5. SafeRow(rest, after, d)
  BY <1>2, <1>3, <1>4 DEF SafeRow
<1>6. ASSUME ~row[1].noticed PROVE SafeRow(rest, before, d)
  BY <1>2, <1>3, <1>4, <1>6 DEF SafeRow
<1> QED BY <1>1, <1>5, <1>6 DEF rest

(* What is left to give back of what is held.                              *)
LEMMA RestToGive ==
  ASSUME NEW s \in Seq(modules!Kinds), s # <<>>, GoodOrder(s), NEW h, h \subseteq Given(s)
  PROVE  /\ Head(s) = s[1] /\ Tail(s) \in Seq(modules!Kinds) /\ GoodOrder(Tail(s))
         /\ h \ {Head(s)} \subseteq Given(Tail(s))
         /\ \A r \in Given(Tail(s)) :
              /\ r.kind = "device" => Head(s) # modules!Class
              /\ r.kind = "cdev" => Head(s) # modules!Region /\ Head(s) # modules!Memory
<1> DEFINE rest == Tail(s)
<1>1. /\ Len(s) \in Nat /\ Len(s) > 0 /\ Head(s) = s[1]
      /\ rest \in Seq(modules!Kinds) /\ Len(rest) = Len(s) - 1
      /\ \A k \in 1 .. Len(rest) : rest[k] = s[k + 1]
  BY HeadTailProperties, LenProperties, EmptySeq
<1> HIDE DEF rest
<1>2. ASSUME NEW k \in 1 .. Len(rest)
      PROVE  /\ k + 1 \in 1 .. Len(s) /\ rest[k] = s[k + 1] /\ 1 \in 1 .. (k + 1) - 1
             /\ \A j \in 1 .. k - 1 : j + 1 \in 1 .. (k + 1) - 1 /\ rest[j] = s[j + 1]
  BY <1>1
<1>3. GoodOrder(rest)
  BY <1>2 DEF GoodOrder
<1>4. ASSUME NEW r \in h, r # s[1] PROVE r \in Given(rest)
  <2>1. PICK k \in 1 .. Len(s) : r = s[k]
    BY <1>4 DEF Given
  <2>2. k - 1 \in 1 .. Len(rest) /\ (k - 1) + 1 = k
    BY <1>1, <1>4, <2>1
  <2> QED BY <1>1, <2>1, <2>2 DEF Given
<1>5. ASSUME NEW r \in Given(rest)
      PROVE  /\ r.kind = "device" => s[1] # modules!Class
             /\ r.kind = "cdev" => s[1] # modules!Region /\ s[1] # modules!Memory
  <2>1. PICK k \in 1 .. Len(rest) : r = rest[k]
    BY DEF Given
  <2> QED BY <1>2, <2>1 DEF GoodOrder
<1> QED BY <1>1, <1>3, <1>4, <1>5 DEF rest

(* The kinds of resource, apart from each other.                           *)
LEMMA KindsApart ==
  /\ modules!Region \in modules!Kinds /\ modules!Class \in modules!Kinds
  /\ modules!Memory \in modules!Kinds
  /\ modules!Region.kind = "region" /\ modules!Class.kind = "class"
  /\ modules!Memory.kind = "memory"
  /\ modules!Region # modules!Class /\ modules!Region # modules!Memory
  /\ modules!Class # modules!Memory
  /\ \A n \in 0 .. NO_OF_DEVICES - 1 :
       /\ modules!Device(n) \in modules!Kinds /\ modules!Cdev(n) \in modules!Kinds
       /\ modules!Device(n).kind = "device" /\ modules!Cdev(n).kind = "cdev"
       /\ modules!Device(n) \notin {modules!Region, modules!Class, modules!Memory}
       /\ modules!Cdev(n) \notin {modules!Region, modules!Class, modules!Memory}
  /\ 0 \in 0 .. NO_OF_DEVICES - 1
BY ConstantsAssumption
DEF modules!ConstantsType, modules!Kinds, modules!Res, modules!Region, modules!Class,
    modules!Memory, modules!Device, modules!Cdev

(* 002: one device.                                                        *)
LEMMA RowOfPcd ==
  /\ modules!pcd_init \in Seq(Step) /\ modules!pcd_exit \in Seq(modules!Kinds)
  /\ GoodRow(modules!pcd_init, modules!pcd_exit, {}, "pcd")
  /\ SafeRow(modules!pcd_init, {}, "pcd")
  /\ GoodOrder(modules!pcd_exit)
<1> DEFINE R == modules!Region
           C == modules!Class
           D == modules!Device(0)
           V == modules!Cdev(0)
<1>1. /\ R \in modules!Kinds /\ C \in modules!Kinds
      /\ D \in modules!Kinds /\ V \in modules!Kinds
      /\ R.kind = "region" /\ C.kind = "class" /\ D.kind = "device" /\ V.kind = "cdev"
      /\ V # R /\ V # C /\ V # modules!Memory /\ R # modules!Memory
      /\ D # R /\ D # C /\ D # modules!Memory /\ C # modules!Memory /\ C # R
  BY KindsApart
<1> HIDE DEF R, C, D, V
<1>2. modules!pcd_exit = <<D, C, V, R>>
  BY DEF modules!pcd_exit, R, C, D, V
<1>3. modules!pcd_init =
        <<modules!Checked(R, <<>>), modules!Checked(V, <<R>>),
          modules!Checked(C, <<V, R>>), modules!Checked(D, <<C, V, R>>)>>
  BY DEF modules!pcd_init, R, C, D, V
<1>9. C = modules!Class /\ R = modules!Region
  BY DEF C, R
<1>4. /\ GoodOrder(<<>>) /\ GoodOrder(<<R>>) /\ GoodOrder(<<V, R>>)
      /\ GoodOrder(<<C, V, R>>) /\ GoodOrder(<<D, C, V, R>>)
  BY <1>1, <1>9 DEF GoodOrder
<1>5. /\ <<>> \in Seq(modules!Kinds) /\ <<R>> \in Seq(modules!Kinds)
      /\ <<V, R>> \in Seq(modules!Kinds) /\ <<C, V, R>> \in Seq(modules!Kinds)
      /\ <<D, C, V, R>> \in Seq(modules!Kinds)
  BY <1>1
<1>6. /\ Given(<<R>>) = {R} /\ Given(<<V, R>>) = {V, R}
      /\ Given(<<C, V, R>>) = {C, V, R} /\ Given(<<D, C, V, R>>) = {D, C, V, R}
  BY DEF Given
<1>7. modules!pcd_init \in Seq(Step)
  BY <1>1, <1>3, <1>5 DEF Step, modules!Checked
<1>8. GoodRow(modules!pcd_init, modules!pcd_exit, {}, "pcd")
  <2>1. Base("pcd") = {R}
    BY DEF Base, R
  <2> DEFINE row == modules!pcd_init
  <2>2. /\ Len(row) = 4
        /\ row[1].res = R /\ row[1].noticed /\ row[1].undo = <<>>
        /\ row[2].res = V /\ row[2].noticed /\ row[2].undo = <<R>>
        /\ row[3].res = C /\ row[3].noticed /\ row[3].undo = <<V, R>>
        /\ row[4].res = D /\ row[4].noticed /\ row[4].undo = <<C, V, R>>
    BY <1>3 DEF modules!Checked
  <2> HIDE DEF row
  <2>3. ASSUME NEW k \in 1 .. 4 PROVE GoodCall(row, k, <<D, C, V, R>>, {}, "pcd")
    <3>1. CASE k = 1
      BY <3>1, <1>1, <1>4, <1>6, <2>1, <2>2 DEF GoodCall
    <3>2. CASE k = 2
      BY <3>2, <1>1, <1>4, <1>6, <2>1, <2>2 DEF GoodCall
    <3>3. CASE k = 3
      BY <3>3, <1>1, <1>4, <1>6, <2>1, <2>2 DEF GoodCall
    <3>4. CASE k = 4
      BY <3>4, <1>1, <1>4, <1>6, <2>1, <2>2 DEF GoodCall
    <3> QED BY <3>1, <3>2, <3>3, <3>4
  <2> QED BY <1>2, <2>2, <2>3 DEF GoodRow, row
<1>10. SafeRow(modules!pcd_init, {}, "pcd")
  <2> DEFINE row == modules!pcd_init
  <2>1. /\ Len(row) = 4
        /\ row[1].undo = <<>> /\ row[2].undo = <<R>> /\ row[3].undo = <<V, R>>
        /\ row[4].undo = <<C, V, R>>
        /\ row[3].noticed /\ row[3].res = C
        /\ \A k \in 1 .. 4 : row[k].ret = "error"
    BY <1>3 DEF modules!Checked
  <2> HIDE DEF row
  <2>2. /\ NoDevice(<<>>) /\ NoDevice(<<R>>) /\ NoDevice(<<V, R>>)
        /\ NoDevice(<<C, V, R>>)
    BY <1>1 DEF NoDevice
  <2>3. ClassBy(row, 5, {})
    BY <1>9, <2>1 DEF ClassBy
  <2>4. \A k \in 1 .. 4 : NoDevice(row[k].undo)
    BY <2>1, <2>2
  <2> QED BY <2>1, <2>3, <2>4 DEF SafeRow, row
<1> QED BY <1>2, <1>4, <1>5, <1>7, <1>8, <1>10

(* The probes and removes of the I2C drivers.                              *)
LEMMA RowOfProbe ==
  ASSUME NEW d \in {"arduino", "lcd"}
  PROVE  /\ modules!arduino_probe \in Seq(Step)
         /\ modules!arduino_remove \in Seq(modules!Kinds)
         /\ GoodRow(modules!arduino_probe, modules!arduino_remove, {}, d)
         /\ SafeRow(modules!arduino_probe, {}, d)
         /\ GoodOrder(modules!arduino_remove) /\ NoDevice(Tail(modules!arduino_remove))
<1> DEFINE R == modules!Region
           C == modules!Class
           M == modules!Memory
           D == modules!Device(0)
           V == modules!Cdev(0)
<1>1. /\ R \in modules!Kinds /\ C \in modules!Kinds /\ M \in modules!Kinds
      /\ D \in modules!Kinds /\ V \in modules!Kinds
      /\ R.kind = "region" /\ C.kind = "class" /\ D.kind = "device" /\ V.kind = "cdev"
      /\ M.kind = "memory"
      /\ V # R /\ V # C /\ V # M /\ R # M /\ D # R /\ D # C /\ D # M /\ C # M /\ C # R
  BY KindsApart
<1>2. M = modules!Memory /\ C = modules!Class /\ R = modules!Region
  OBVIOUS
<1>3. modules!arduino_remove = <<D, V, M, C, R>>
  BY DEF modules!arduino_remove
<1>4. modules!arduino_probe =
        <<modules!Checked(R, <<>>), modules!Unnoticed(C),
          modules!Unreported(M, <<C, R>>),
          modules!Checked(V, <<M, C, R>>), modules!Unnoticed(D)>>
  BY DEF modules!arduino_probe
<1> HIDE DEF R, C, M, D, V
<1>5. /\ GoodOrder(<<>>) /\ GoodOrder(<<C, R>>) /\ GoodOrder(<<M, C, R>>)
      /\ GoodOrder(<<D, V, M, C, R>>)
  BY <1>1, <1>2 DEF GoodOrder
<1>6. /\ <<>> \in Seq(modules!Kinds) /\ <<C, R>> \in Seq(modules!Kinds)
      /\ <<M, C, R>> \in Seq(modules!Kinds) /\ <<D, V, M, C, R>> \in Seq(modules!Kinds)
  BY <1>1
<1>7. /\ Given(<<C, R>>) = {C, R} /\ Given(<<M, C, R>>) = {M, C, R}
      /\ Given(<<D, V, M, C, R>>) = {D, V, M, C, R}
  BY DEF Given
<1>8. modules!arduino_probe \in Seq(Step)
  BY <1>1, <1>4, <1>6 DEF Step, modules!Checked, modules!Unnoticed, modules!Unreported
<1>9. GoodRow(modules!arduino_probe, modules!arduino_remove, {}, d)
  <2>1. Base(d) = {R, M}
    BY <1>2 DEF Base
  <2> DEFINE row == modules!arduino_probe
  <2>2. /\ Len(row) = 5
        /\ row[1].res = R /\ row[1].noticed /\ row[1].undo = <<>>
        /\ row[2].res = C /\ ~row[2].noticed /\ row[2].undo = <<>>
        /\ row[3].res = M /\ row[3].noticed /\ row[3].undo = <<C, R>>
        /\ row[4].res = V /\ row[4].noticed /\ row[4].undo = <<M, C, R>>
        /\ row[5].res = D /\ ~row[5].noticed /\ row[5].undo = <<>>
    BY <1>4 DEF modules!Checked, modules!Unnoticed, modules!Unreported
  <2> HIDE DEF row
  <2>3. ASSUME NEW k \in 1 .. 5 PROVE GoodCall(row, k, <<D, V, M, C, R>>, {}, d)
    <3>1. CASE k = 1
      BY <3>1, <1>1, <1>5, <1>7, <2>1, <2>2 DEF GoodCall
    <3>2. CASE k = 2
      BY <3>2, <1>1, <1>5, <1>7, <2>1, <2>2 DEF GoodCall
    <3>3. CASE k = 3
      BY <3>3, <1>1, <1>5, <1>7, <2>1, <2>2 DEF GoodCall
    <3>4. CASE k = 4
      BY <3>4, <1>1, <1>5, <1>7, <2>1, <2>2 DEF GoodCall
    <3>5. CASE k = 5
      BY <3>5, <1>1, <1>5, <1>7, <2>1, <2>2 DEF GoodCall
    <3> QED BY <3>1, <3>2, <3>3, <3>4, <3>5
  <2> QED BY <1>3, <2>2, <2>3 DEF GoodRow, row
<1>10. /\ NoDevice(<<>>) /\ NoDevice(<<C, R>>) /\ NoDevice(<<M, C, R>>)
       /\ NoDevice(<<V, M, C, R>>)
  BY <1>1 DEF NoDevice
<1>11. SafeRow(modules!arduino_probe, {}, d)
  <2> DEFINE row == modules!arduino_probe
  <2>1. /\ Len(row) = 5
        /\ row[1].undo = <<>> /\ row[2].undo = <<>> /\ row[3].undo = <<C, R>>
        /\ row[4].undo = <<M, C, R>> /\ row[5].undo = <<>>
    BY <1>4 DEF modules!Checked, modules!Unnoticed, modules!Unreported
  <2> HIDE DEF row
  <2>2. \A k \in 1 .. 5 : NoDevice(row[k].undo)
    BY <1>10, <2>1
  <2> QED BY <2>1, <2>2 DEF SafeRow, Careful, row
<1>12. Tail(modules!arduino_remove) = <<V, M, C, R>>
  BY <1>3
<1> QED BY <1>3, <1>5, <1>6, <1>8, <1>9, <1>10, <1>11, <1>12

(* A function on 1 .. n is a sequence of length n.                         *)
LEMMA FunctionIsSeq ==
  ASSUME NEW S, NEW n \in Nat, NEW f \in [1 .. n -> S]
  PROVE  f \in Seq(S) /\ Len(f) = n
<1>1. f \in Seq(S)
  BY SeqDef
<1>2. Len(f) \in Nat /\ 1 .. n = 1 .. Len(f)
  BY <1>1, LenProperties
<1> QED BY <1>1, <1>2

(* 003: what a row of pairs of devices and cdevs with the class and the    *)
(* region behind it gives back.                                            *)
LEMMA PairsBefore ==
  ASSUME NEW p \in Seq(modules!Kinds),
         \A k \in 1 .. Len(p) : p[k].kind \in {"device", "cdev"}
  PROVE  LET s == p \o <<modules!Class, modules!Region>>
         IN /\ s \in Seq(modules!Kinds) /\ GoodOrder(s)
            /\ Given(p) \union {modules!Class, modules!Region} \subseteq Given(s)
<1> DEFINE C == modules!Class
           R == modules!Region
           s == p \o <<C, R>>
<1>1. C \in modules!Kinds /\ R \in modules!Kinds /\ C.kind = "class" /\ R.kind = "region"
      /\ modules!Memory.kind = "memory"
  BY KindsApart
<1>2. C = modules!Class /\ R = modules!Region
  OBVIOUS
<1> HIDE DEF C, R
<1>3. /\ s \in Seq(modules!Kinds) /\ Len(s) = Len(p) + 2 /\ Len(p) \in Nat
      /\ \A k \in 1 .. Len(p) : s[k] = p[k]
      /\ s[Len(p) + 1] = C /\ s[Len(p) + 2] = R
  BY <1>1
<1> HIDE DEF s
<1>4. GoodOrder(s)
  <2>1. ASSUME NEW k \in 1 .. Len(s), NEW j \in 1 .. k - 1, s[k].kind \in {"device", "cdev"}
        PROVE  s[j].kind \in {"device", "cdev"}
    <3>1. k <= Len(p)
      BY <1>1, <1>3, <2>1
    <3>2. j \in 1 .. Len(p)
      BY <1>3, <3>1
    <3> QED BY <1>3, <3>2
  <2> QED BY <1>1, <1>2, <2>1 DEF GoodOrder
<1>5. ASSUME NEW k \in 1 .. Len(p) PROVE p[k] \in Given(s)
  BY <1>3 DEF Given
<1>6. C \in Given(s) /\ R \in Given(s)
  <2>1. Len(p) + 1 \in 1 .. Len(s) /\ Len(p) + 2 \in 1 .. Len(s)
    BY <1>3
  <2> QED BY <1>3, <2>1 DEF Given
<1>7. Given(p) \subseteq Given(s)
  BY <1>5 DEF Given
<1> QED BY <1>2, <1>3, <1>4, <1>6, <1>7 DEF s

(* Device and cdev of any number in the row are among the resources.       *)
LEMMA PairKinds ==
  ASSUME NEW k \in Nat, NEW n \in 0 .. NO_OF_DEVICES - 1
  PROVE  modules!Pair(k, n) \in modules!Kinds /\ modules!Pair(k, n).kind \in {"device", "cdev"}
BY KindsApart DEF modules!Pair

(* The pairs undone hold those of all devices up to the last one.          *)
LEMMA DownToFirst ==
  ASSUME NEW last \in 0 .. NO_OF_DEVICES - 1
  PROVE  /\ modules!Downto(last) \in Seq(modules!Kinds) /\ GoodOrder(modules!Downto(last))
         /\ {modules!Class, modules!Region} \subseteq Given(modules!Downto(last))
         /\ \A j \in 0 .. last : {modules!Device(j), modules!Cdev(j)} \subseteq Given(modules!Downto(last))
<1> DEFINE N == NO_OF_DEVICES
           len == 2 * (last + 1)
           p == [k \in 1 .. len |-> modules!Pair(k, last - (k - 1) \div 2)]
<1>1. N \in Nat
  BY ConstantsAssumption DEF modules!ConstantsType
<1>2. last \in Nat /\ len \in Nat /\ len = 2 * last + 2
  BY <1>1
<1> HIDE DEF len
<1>3. ASSUME NEW k \in 1 .. len PROVE k \in Nat /\ last - (k - 1) \div 2 \in 0 .. N - 1
  BY <1>1, <1>2
<1>4. \A k \in 1 .. len : p[k] \in modules!Kinds /\ p[k].kind \in {"device", "cdev"}
  BY <1>3, PairKinds
<1>5. p \in Seq(modules!Kinds) /\ Len(p) = len
  <2>1. p \in [1 .. len -> modules!Kinds]
    BY <1>4
  <2> HIDE DEF p
  <2> QED BY <1>2, <2>1, FunctionIsSeq
<1>6. modules!Downto(last) = p \o <<modules!Class, modules!Region>>
  BY DEF modules!Downto, len
<1>7. ASSUME NEW j \in 0 .. last PROVE {modules!Device(j), modules!Cdev(j)} \subseteq Given(p)
  <2> DEFINE a == 2 * (last - j) + 1
             b == 2 * (last - j) + 2
  <2>1. /\ a \in 1 .. len /\ a % 2 = 1 /\ (a - 1) \div 2 = last - j
        /\ b \in 1 .. len /\ b % 2 = 0 /\ (b - 1) \div 2 = last - j
        /\ last - (last - j) = j
    BY <1>2
  <2> HIDE DEF a, b
  <2>2. p[a] = modules!Device(j) /\ p[b] = modules!Cdev(j)
    BY <2>1 DEF modules!Pair
  <2> HIDE DEF p
  <2> QED BY <1>5, <2>1, <2>2 DEF Given
<1> HIDE DEF p
<1> QED BY <1>4, <1>5, <1>6, <1>7, PairsBefore

(* And exit gives back those of every device.                              *)
LEMMA UpToLast ==
  /\ modules!pcd_n_exit \in Seq(modules!Kinds) /\ GoodOrder(modules!pcd_n_exit)
  /\ {modules!Class, modules!Region} \subseteq Given(modules!pcd_n_exit)
  /\ \A j \in 0 .. NO_OF_DEVICES - 1 :
       {modules!Device(j), modules!Cdev(j)} \subseteq Given(modules!pcd_n_exit)
<1> DEFINE N == NO_OF_DEVICES
           p == modules!Upto
<1>1. N \in Nat /\ 2 * N \in Nat
  BY ConstantsAssumption DEF modules!ConstantsType
<1>2. p = [k \in 1 .. 2 * N |-> modules!Pair(k, (k - 1) \div 2)]
  BY DEF modules!Upto
<1> HIDE DEF p
<1>3. ASSUME NEW k \in 1 .. 2 * N PROVE k \in Nat /\ (k - 1) \div 2 \in 0 .. N - 1
  BY <1>1
<1>4. \A k \in 1 .. 2 * N : p[k] \in modules!Kinds /\ p[k].kind \in {"device", "cdev"}
  BY <1>2, <1>3, PairKinds
<1>5. p \in Seq(modules!Kinds) /\ Len(p) = 2 * N
  <2>1. p \in [1 .. 2 * N -> modules!Kinds]
    BY <1>2, <1>4
  <2> QED BY <1>1, <2>1, FunctionIsSeq
<1>6. modules!pcd_n_exit = p \o <<modules!Class, modules!Region>>
  BY DEF modules!pcd_n_exit, p
<1>7. ASSUME NEW j \in 0 .. N - 1 PROVE {modules!Device(j), modules!Cdev(j)} \subseteq Given(p)
  <2> DEFINE a == 2 * j + 1
             b == 2 * j + 2
  <2>1. /\ a \in 1 .. 2 * N /\ a % 2 = 1 /\ (a - 1) \div 2 = j
        /\ b \in 1 .. 2 * N /\ b % 2 = 0 /\ (b - 1) \div 2 = j
    BY <1>1
  <2> HIDE DEF a, b
  <2>2. p[a] = modules!Device(j) /\ p[b] = modules!Cdev(j)
    BY <1>2, <2>1 DEF modules!Pair
  <2> QED BY <1>5, <2>1, <2>2 DEF Given
<1> QED BY <1>4, <1>5, <1>6, <1>7, PairsBefore

(* So an init of 003 may fail at any call.                                 *)
LEMMA RowOfPcdN ==
  /\ modules!pcd_n_init \in Seq(Step)
  /\ GoodRow(modules!pcd_n_init, modules!pcd_n_exit, {}, "pcd_n")
  /\ SafeRow(modules!pcd_n_init, {}, "pcd_n")
<1> DEFINE N == NO_OF_DEVICES
           C == modules!Class
           R == modules!Region
           row == modules!pcd_n_init
           two == <<modules!Checked(R, <<>>), modules!Checked(C, <<R>>)>>
           exit == modules!pcd_n_exit
           each == modules!Each
<1>1. N \in Nat /\ 2 * N \in Nat
  BY ConstantsAssumption DEF modules!ConstantsType
<1>2. /\ C \in modules!Kinds /\ R \in modules!Kinds /\ C.kind = "class" /\ R.kind = "region"
      /\ Base("pcd_n") = {R}
  BY KindsApart DEF Base
<1>3. ASSUME NEW k \in 1 .. 2 * N
      PROVE  /\ (k - 1) \div 2 \in 0 .. N - 1 /\ k \in Nat
             /\ \A j \in 1 .. k - 1 : (j - 1) \div 2 \in 0 .. (k - 1) \div 2
             /\ k % 2 # 1 => k % 2 = 0
  BY <1>1
<1>4. each = [k \in 1 .. 2 * N |->
                IF k % 2 = 1
                THEN modules!Checked(modules!Cdev((k - 1) \div 2), modules!Downto((k - 1) \div 2))
                ELSE modules!Unnoticed(modules!Device((k - 1) \div 2))]
  BY DEF modules!Each
<1>5. ASSUME NEW k \in 1 .. 2 * N
      PROVE  each[k] \in Step
  <2> DEFINE n == (k - 1) \div 2
  <2>1. n \in 0 .. N - 1
    BY <1>3
  <2>2. each[k] = IF k % 2 = 1 THEN modules!Checked(modules!Cdev(n), modules!Downto(n))
                               ELSE modules!Unnoticed(modules!Device(n))
    BY <1>4
  <2> HIDE DEF n, each
  <2>3. modules!Cdev(n) \in modules!Kinds /\ modules!Device(n) \in modules!Kinds
    BY <2>1, KindsApart
  <2>4. modules!Downto(n) \in Seq(modules!Kinds)
    BY <2>1, DownToFirst
  <2>5. <<>> \in Seq(modules!Kinds)
    BY EmptySeq
  <2>6. /\ modules!Checked(modules!Cdev(n), modules!Downto(n)) \in Step
        /\ modules!Unnoticed(modules!Device(n)) \in Step
    BY <2>3, <2>4, <2>5 DEF Step, modules!Checked, modules!Unnoticed
  <2> QED BY <2>2, <2>6
<1>6. each \in Seq(Step) /\ Len(each) = 2 * N
  <2>1. each \in [1 .. 2 * N -> Step]
    BY <1>4, <1>5
  <2> HIDE DEF each
  <2> QED BY <1>1, <2>1, FunctionIsSeq
<1>7. two \in Seq(Step) /\ Len(two) = 2
  <2>1. <<>> \in Seq(modules!Kinds) /\ <<R>> \in Seq(modules!Kinds)
    BY <1>2
  <2>2. modules!Checked(R, <<>>) \in Step /\ modules!Checked(C, <<R>>) \in Step
    BY <1>2, <2>1 DEF Step, modules!Checked
  <2> QED BY <2>2
<1>8. row = two \o each
  BY DEF modules!pcd_n_init
<1> HIDE DEF row, each, exit
<1>9. /\ row \in Seq(Step) /\ Len(row) = 2 + 2 * N
      /\ \A k \in 1 .. 2 * N : row[k + 2] = each[k]
      /\ row[1] = modules!Checked(R, <<>>) /\ row[2] = modules!Checked(C, <<R>>)
  <2> DEFINE a == modules!Checked(R, <<>>)
             b == modules!Checked(C, <<R>>)
  <2>1. two[1] = a /\ two[2] = b
    OBVIOUS
  <2> HIDE DEF two, a, b
  <2>2. /\ row \in Seq(Step) /\ Len(row) = 2 + 2 * N
        /\ \A k \in 1 .. 2 + 2 * N : row[k] = IF k <= 2 THEN two[k] ELSE each[k - 2]
    <3> HIDE DEF N
    <3>1. /\ two \o each \in Seq(Step) /\ Len(two \o each) = Len(two) + Len(each)
          /\ \A k \in 1 .. Len(two) + Len(each) :
               (two \o each)[k] = IF k <= Len(two) THEN two[k] ELSE each[k - Len(two)]
      BY <1>6, <1>7, ConcatProperties
    <3> QED BY <1>6, <1>7, <1>8, <3>1
  <2>3. ASSUME NEW k \in 1 .. 2 * N PROVE row[k + 2] = each[k]
    <3>1. k + 2 \in 1 .. 2 + 2 * N /\ ~(k + 2 <= 2) /\ (k + 2) - 2 = k
      BY <1>1
    <3> QED BY <2>2, <3>1
  <2>4. row[1] = a /\ row[2] = b
    <3>1. 1 \in 1 .. 2 + 2 * N /\ 2 \in 1 .. 2 + 2 * N
      BY <1>1
    <3> QED BY <2>1, <2>2, <3>1
  <2> QED BY <2>2, <2>3, <2>4 DEF a, b
<1>10. /\ {C, R} \subseteq Given(exit)
       /\ \A j \in 0 .. N - 1 : {modules!Device(j), modules!Cdev(j)} \subseteq Given(exit)
  BY UpToLast DEF exit
<1>11. GoodOrder(<<>>) /\ GoodOrder(<<R>>) /\ Given(<<R>>) = {R}
  BY DEF GoodOrder, Given
<1>12. /\ row[1].res = R /\ row[1].noticed /\ row[1].undo = <<>>
       /\ row[2].res = C /\ row[2].noticed /\ row[2].undo = <<R>>
  BY <1>9 DEF modules!Checked
<1>13. GoodCall(row, 1, exit, {}, "pcd_n") /\ GoodCall(row, 2, exit, {}, "pcd_n")
  BY <1>2, <1>10, <1>11, <1>12 DEF GoodCall
<1>14. ASSUME NEW k \in 1 .. 2 * N PROVE GoodCall(row, k + 2, exit, {}, "pcd_n")
  <2> DEFINE n == (k - 1) \div 2
             V == modules!Cdev(n)
             D == modules!Device(n)
             undo == modules!Downto(n)
  <2>1. n \in 0 .. N - 1
    BY <1>3
  <2>2. row[k + 2] = IF k % 2 = 1 THEN modules!Checked(V, undo) ELSE modules!Unnoticed(D)
    BY <1>4, <1>9
  <2>3. /\ GoodOrder(undo) /\ {C, R} \subseteq Given(undo)
        /\ \A j \in 0 .. n : {modules!Device(j), modules!Cdev(j)} \subseteq Given(undo)
    BY <2>1, DownToFirst
  <2>4. V \in Given(exit) /\ D \in Given(exit) /\ D.kind = "device"
    BY <1>10, <2>1, KindsApart
  <2>5. ASSUME NEW j \in 1 .. (k + 2) - 1 PROVE row[j].res \in Given(undo)
    <3>1. CASE j <= 2
      BY <1>12, <2>3, <3>1
    <3>2. CASE j > 2
      <4> DEFINE m == j - 2
                 l == (m - 1) \div 2
      <4>1. m \in 1 .. k - 1 /\ m \in 1 .. 2 * N /\ m + 2 = j
        BY <1>1, <3>2
      <4>2. l \in 0 .. n
        BY <1>3, <4>1
      <4>3. row[j] = IF m % 2 = 1 THEN modules!Checked(modules!Cdev(l), modules!Downto(l))
                     ELSE modules!Unnoticed(modules!Device(l))
        BY <1>4, <1>9, <4>1
      <4>4. row[j].res \in {modules!Cdev(l), modules!Device(l)}
        BY <4>3 DEF modules!Checked, modules!Unnoticed
      <4> HIDE DEF l, n
      <4> QED BY <2>3, <4>2, <4>4
    <3> QED BY <3>1, <3>2
  <2>6. 1 \in 1 .. (k + 2) - 1
    OBVIOUS
  <2> HIDE DEF V, D, undo, n
  <2>7. \/ /\ row[k + 2].res = V /\ row[k + 2].undo = undo
        \/ row[k + 2].res = D /\ ~row[k + 2].noticed /\ row[k + 2].undo = <<>>
    BY <2>2 DEF modules!Checked, modules!Unnoticed
  <2> QED BY <1>2, <1>11, <1>12, <2>3, <2>4, <2>5, <2>6, <2>7 DEF GoodCall
<1>15. ASSUME NEW k \in 1 .. Len(row) PROVE GoodCall(row, k, exit, {}, "pcd_n")
  <2>1. CASE k <= 2
    BY <1>13, <2>1
  <2>2. CASE k > 2
    <3>1. k - 2 \in 1 .. 2 * N /\ (k - 2) + 2 = k
      BY <1>1, <1>9, <2>2
    <3> QED BY <1>14, <3>1
  <2> QED BY <1>9, <2>1, <2>2
<1>16. SafeRow(row, {}, "pcd_n")
  <2>1. NoDevice(<<>>) /\ NoDevice(<<R>>)
    BY <1>2 DEF NoDevice
  <2>2. ASSUME NEW k \in 1 .. Len(row), row[k].noticed
        PROVE  /\ NoDevice(row[k].undo) \/ ClassBy(row, k, {})
               /\ row[k].ret = "error"
    <3>1. CASE k <= 2
      <4>1. k = 1 \/ k = 2
        BY <3>1
      <4> QED BY <1>9, <2>1, <4>1 DEF modules!Checked
    <3>2. CASE k > 2
      <4> DEFINE m == k - 2
      <4>1. m \in 1 .. 2 * N /\ m + 2 = k /\ 2 \in 1 .. k - 1
        BY <1>1, <1>9, <3>2
      <4> HIDE DEF m
      <4>2. row[k] = IF m % 2 = 1
                     THEN modules!Checked(modules!Cdev((m - 1) \div 2),
                                          modules!Downto((m - 1) \div 2))
                     ELSE modules!Unnoticed(modules!Device((m - 1) \div 2))
        BY <1>4, <1>9, <4>1
      <4>3. row[k].ret = "error"
        BY <2>2, <4>2 DEF modules!Checked, modules!Unnoticed
      <4>4. ClassBy(row, k, {})
        BY <1>12, <4>1 DEF ClassBy
      <4> QED BY <4>3, <4>4
    <3> QED BY <1>9, <3>1, <3>2
  <2>3. ClassBy(row, Len(row) + 1, {})
    <3>1. 2 \in 1 .. (Len(row) + 1) - 1
      BY <1>1, <1>9
    <3> QED BY <1>12, <3>1 DEF ClassBy
  <2> QED BY <2>2, <2>3 DEF SafeRow
<1> QED BY <1>9, <1>15, <1>16 DEF GoodRow, exit, row

(* All four rows are good ones, with nothing held before them.             *)
LEMMA Rows ==
  ASSUME NEW d \in Drivers
  PROVE  /\ modules!Taking(d) \in Seq(Step) /\ modules!Giving(d) \in Seq(modules!Kinds)
         /\ GoodRow(modules!Taking(d), modules!Giving(d), {}, d)
         /\ SafeRow(modules!Taking(d), {}, d)
         /\ GoodOrder(modules!Giving(d))
         /\ d \in Careful \/ d \in Careless
         /\ d \in Careless => NoDevice(Tail(modules!Giving(d)))
<1>1. d \in {"pcd", "pcd_n", "arduino", "lcd"}
  BY ConstantsAssumption DEF modules!ConstantsType
<1> USE DEF Careful, Careless
<1>2. CASE d = "pcd"
  <2>1. modules!Taking(d) = modules!pcd_init /\ modules!Giving(d) = modules!pcd_exit
    BY <1>2 DEF modules!Taking, modules!Giving
  <2> QED BY <1>2, <2>1, RowOfPcd
<1>3. CASE d = "pcd_n"
  <2>1. modules!Taking(d) = modules!pcd_n_init /\ modules!Giving(d) = modules!pcd_n_exit
    BY <1>3 DEF modules!Taking, modules!Giving
  <2> QED BY <1>3, <2>1, RowOfPcdN, UpToLast
<1>4. CASE d \in {"arduino", "lcd"}
  <2>1. modules!Taking(d) = modules!arduino_probe /\ modules!Giving(d) = modules!arduino_remove
    BY <1>4 DEF modules!Taking, modules!Giving, modules!char_probe, modules!char_remove
  <2> QED BY <1>4, <2>1, RowOfProbe
<1> QED BY <1>1, <1>2, <1>3, <1>4

-----------------------------------------------------------------------------
(* One lemma for each step: it keeps the invariant.                        *)
LEMMA StartModules == ASSUME InitInv, modules!Start PROVE InitInv'
<1>1. /\ state = "absent" /\ held = {} /\ held' = {} /\ driver' \in Drivers
      /\ state' = "starting" /\ todo' = modules!Taking(driver') /\ ret' = "zero"
  BY DEF InitInv, modules!Start
<1>2. /\ todo' \in Seq(Step) /\ GoodRow(todo', modules!Giving(driver'), {}, driver')
      /\ SafeRow(todo', {}, driver')
  BY <1>1, Rows
<1>3. modules!TypeOK'
  BY <1>1, <1>2 DEF modules!TypeOK, Step
<1>4. (GoodRow(todo, modules!Giving(driver), held, driver) /\ SafeRow(todo, held, driver))'
  BY <1>1, <1>2
<1> QED BY <1>1, <1>3, <1>4 DEF InitInv

(* What holds of the calls left of an init that goes on.                   *)
LEMMA Starting ==
  ASSUME InitInv, state = "starting"
  PROVE  /\ driver \in Drivers /\ held \subseteq modules!Kinds /\ todo \in Seq(Step)
         /\ GoodRow(todo, modules!Giving(driver), held, driver)
         /\ SafeRow(todo, held, driver)
         /\ ret \in {"zero", "error"}
         /\ todo # <<>> => /\ Head(todo) \in Step
                          /\ Head(todo) = todo[1] /\ 1 \in 1 .. Len(todo)
                          /\ GoodCall(todo, 1, modules!Giving(driver), held, driver)
<1>1. /\ driver \in Drivers /\ held \subseteq modules!Kinds /\ todo \in Seq(Step)
      /\ GoodRow(todo, modules!Giving(driver), held, driver) /\ ret \in {"zero", "error"}
      /\ SafeRow(todo, held, driver)
  BY DEF InitInv, modules!TypeOK, Step
<1>2. ASSUME todo # <<>>
      PROVE  Head(todo) \in Step /\ Head(todo) = todo[1] /\ 1 \in 1 .. Len(todo)
  BY <1>1, <1>2
<1> QED BY <1>1, <1>2 DEF GoodRow

LEMMA SucceedModules == ASSUME InitInv, modules!Succeed PROVE InitInv'
<1> DEFINE call == todo[1]
           exit == modules!Giving(driver)
<1>1. state = "starting" /\ todo # <<>> /\ UNCHANGED <<driver, state, ret>>
  BY DEF modules!Succeed
<1>2. /\ driver \in Drivers /\ held \subseteq modules!Kinds /\ todo \in Seq(Step)
      /\ GoodRow(todo, exit, held, driver) /\ ret \in {"zero", "error"}
      /\ SafeRow(todo, held, driver)
      /\ call \in Step /\ Head(todo) = call /\ GoodCall(todo, 1, exit, held, driver)
  BY <1>1, Starting
<1>3. /\ call.res.kind = "device" => modules!Class \in held
      /\ held' = held \union {call.res} /\ todo' = Tail(todo)
  BY <1>2 DEF modules!Succeed
<1>4. /\ todo' \in Seq(Step) /\ GoodRow(todo', exit, held', driver)
      /\ SafeRow(todo', held', driver)
  BY <1>1, <1>2, <1>3, RestOfRow, RestOfSafeRow
<1>5. call.res \in modules!Kinds
  BY <1>2 DEF Step
<1>6. call.res.kind = "cdev" => Base(driver) \subseteq held
  BY <1>2 DEF GoodCall
<1>7. ASSUME NEW r \in held' PROVE Stands(r)'
  BY <1>1, <1>3, <1>6, <1>7 DEF InitInv, Stands
<1>8. modules!TypeOK'
  BY <1>1, <1>2, <1>3, <1>4, <1>5 DEF modules!TypeOK, Step
<1>9. (GoodRow(todo, modules!Giving(driver), held, driver) /\ SafeRow(todo, held, driver))'
  BY <1>1, <1>4
<1> QED BY <1>1, <1>7, <1>8, <1>9 DEF InitInv

LEMMA FailModules == ASSUME InitInv, modules!Fail PROVE InitInv'
<1> DEFINE call == todo[1]
           exit == modules!Giving(driver)
<1>1. state = "starting" /\ todo # <<>> /\ UNCHANGED <<driver, held>>
  BY DEF modules!Fail
<1>2. /\ driver \in Drivers /\ held \subseteq modules!Kinds /\ todo \in Seq(Step)
      /\ GoodRow(todo, exit, held, driver) /\ ret \in {"zero", "error"}
      /\ SafeRow(todo, held, driver)
      /\ call \in Step /\ Head(todo) = call /\ GoodCall(todo, 1, exit, held, driver)
  BY <1>1, Starting
<1>3. ASSUME NEW r \in held' PROVE Stands(r)'
  BY <1>1, <1>3 DEF InitInv, Stands
<1>4. CASE call.noticed
  <2>1. state' = "undoing" /\ todo' = call.undo /\ ret' = call.ret
    BY <1>2, <1>4 DEF modules!Fail
  <2>2. /\ call.undo \in Seq(modules!Kinds) /\ call.ret \in {"zero", "error"}
        /\ GoodOrder(call.undo) /\ held \subseteq Given(call.undo)
    BY <1>2, <1>4 DEF GoodCall, Step
  <2>3. modules!TypeOK'
    BY <1>1, <1>2, <2>1, <2>2 DEF modules!TypeOK
  <2>4. (held \subseteq Given(todo) /\ GoodOrder(todo))'
    BY <1>1, <2>1, <2>2
  <2>5. /\ NoDevice(call.undo) \/ ClassBy(todo, 1, held)
        /\ driver \in Careful => call.ret = "error"
    BY <1>1, <1>2, <1>4, Starting DEF SafeRow
  <2>6. ClassBy(todo, 1, held) => modules!Class \in held
    BY DEF ClassBy
  <2>7. SafeToGive'
    BY <1>1, <2>1, <2>5, <2>6 DEF SafeToGive
  <2> QED BY <1>1, <1>3, <2>1, <2>3, <2>4, <2>5, <2>7 DEF InitInv
<1>5. CASE ~call.noticed
  <2>1. todo' = Tail(todo) /\ UNCHANGED <<state, ret>>
    BY <1>2, <1>5 DEF modules!Fail
  <2>2. /\ todo' \in Seq(Step) /\ GoodRow(todo', exit, held, driver)
        /\ SafeRow(todo', held, driver)
    BY <1>1, <1>2, <1>5, <2>1, RestOfRow, RestOfSafeRow
  <2>3. modules!TypeOK'
    BY <1>1, <1>2, <2>1, <2>2 DEF modules!TypeOK, Step
  <2>4. (GoodRow(todo, modules!Giving(driver), held, driver) /\ SafeRow(todo, held, driver))'
    BY <1>1, <2>2
  <2> QED BY <1>1, <1>3, <2>1, <2>3, <2>4 DEF InitInv
<1> QED BY <1>4, <1>5

LEMMA StartedModules == ASSUME InitInv, modules!Started PROVE InitInv'
<1>1. /\ state = "starting" /\ todo = <<>> /\ state' = "there"
      /\ UNCHANGED <<driver, todo, held, ret>>
  BY DEF modules!Started
<1>2. held \subseteq Given(modules!Giving(driver))
  BY <1>1 DEF InitInv, GoodRow
<1>6. driver \in Careful => modules!Class \in held
  <2>1. Len(todo) = 0
    BY <1>1
  <2> QED BY <1>1, <2>1 DEF InitInv, SafeRow, ClassBy
<1>3. modules!TypeOK'
  <2>1. <<>> \in Seq(modules!Kinds)
    BY EmptySeq
  <2> QED BY <1>1, <2>1 DEF InitInv, modules!TypeOK
<1>4. (/\ held \subseteq Given(modules!Giving(driver))
       /\ driver \in Careful => modules!Class \in held)'
  BY <1>1, <1>2, <1>6
<1>5. ASSUME NEW r \in held' PROVE Stands(r)'
  BY <1>1, <1>5 DEF InitInv, Stands
<1> QED BY <1>1, <1>3, <1>4, <1>5 DEF InitInv

LEMMA TailNoDevice ==
  ASSUME NEW s \in Seq(modules!Kinds), s # <<>>, NoDevice(s)
  PROVE  NoDevice(Tail(s))
<1>1. /\ Len(s) \in Nat /\ Len(Tail(s)) = Len(s) - 1
      /\ \A k \in 1 .. Len(Tail(s)) : Tail(s)[k] = s[k + 1]
  BY HeadTailProperties, LenProperties, EmptySeq
<1>2. \A k \in 1 .. Len(Tail(s)) : k + 1 \in 1 .. Len(s)
  BY <1>1
<1> QED BY <1>1, <1>2 DEF NoDevice

LEMMA UndoModules == ASSUME InitInv, modules!Undo PROVE InitInv'
<1>1. /\ state \in {"undoing", "leaving"} /\ todo # <<>> /\ UNCHANGED <<driver, ret>>
  BY DEF modules!Undo
<1>2. /\ driver \in Drivers /\ held \subseteq modules!Kinds /\ todo \in Seq(modules!Kinds)
      /\ ret \in {"zero", "error"}
      /\ held \subseteq Given(todo) /\ GoodOrder(todo) /\ SafeToGive
      /\ state = "undoing" /\ driver \in Careful => ret = "error"
  BY <1>1 DEF InitInv, modules!TypeOK
<1>3. CASE held' = held \ {Head(todo)} /\ todo' = Tail(todo) /\ UNCHANGED state
  <2>1. /\ todo' \in Seq(modules!Kinds) /\ GoodOrder(todo') /\ held' \subseteq Given(todo')
        /\ \A r \in Given(todo') :
             /\ r.kind = "device" => Head(todo) # modules!Class
             /\ r.kind = "cdev" => Head(todo) # modules!Region /\ Head(todo) # modules!Memory
    BY <1>1, <1>2, <1>3, RestToGive
  <2>2. ASSUME NEW r \in held' PROVE Stands(r)'
    BY <1>1, <1>3, <2>1, <2>2 DEF InitInv, Stands, Base
  <2>3. modules!TypeOK'
    BY <1>1, <1>2, <1>3, <2>1 DEF modules!TypeOK
  <2>4. (held \subseteq Given(todo) /\ GoodOrder(todo))'
    BY <2>1
  <2>5. SafeToGive'
    <3>1. CASE NoDevice(todo)
      BY <1>1, <1>2, <1>3, <3>1, TailNoDevice DEF SafeToGive
    <3>2. CASE modules!Class \in held /\ Head(todo) # modules!Class
      BY <1>3, <3>2 DEF SafeToGive
    <3>3. CASE Head(todo) = modules!Class
      BY <2>1, <3>3 DEF SafeToGive, NoDevice, Given
    <3>4. CASE driver \in Careless /\ todo = modules!Giving(driver)
      BY <1>2, <1>3, <3>4, Rows DEF SafeToGive
    <3> QED BY <1>2, <3>1, <3>2, <3>3, <3>4 DEF SafeToGive
  <2> QED BY <1>1, <1>2, <1>3, <2>2, <2>3, <2>4, <2>5 DEF InitInv
<1>4. CASE ~modules!Harmless(Head(todo)) /\ state' = "oops" /\ UNCHANGED <<todo, held>>
  <2>1. Head(todo).kind = "device" /\ modules!Class \notin held
    BY <1>4 DEF modules!Harmless
  <2>2. Head(todo) = todo[1] /\ 1 \in 1 .. Len(todo)
    BY <1>1, <1>2
  <2>3. driver \in Careless /\ todo = modules!Giving(driver)
    BY <1>2, <2>1, <2>2 DEF SafeToGive, NoDevice
  <2>4. modules!TypeOK'
    BY <1>1, <1>2, <1>4 DEF modules!TypeOK
  <2>5. ASSUME NEW r \in held' PROVE Stands(r)'
    BY <1>1, <1>4, <2>5 DEF InitInv, Stands
  <2>6. (driver \in Careless /\ todo = modules!Giving(driver))'
    BY <1>1, <1>4, <2>3
  <2> QED BY <1>4, <2>4, <2>5, <2>6 DEF InitInv
<1> QED BY <1>3, <1>4 DEF modules!Undo

(* A row with nothing left gives back nothing.                             *)
LEMMA GivenNone == Given(<<>>) = {}
BY DEF Given

LEMMA UndoneModules == ASSUME InitInv, modules!Undone PROVE InitInv'
<1>1. /\ state = "undoing" /\ todo = <<>> /\ state' \in {"there", "absent"}
      /\ state' = "there" => ret = "zero"
      /\ UNCHANGED <<driver, todo, held, ret>>
  BY DEF modules!Undone
<1>2. held = {}
  BY <1>1, GivenNone DEF InitInv
<1>3. modules!TypeOK'
  BY <1>1 DEF InitInv, modules!TypeOK
<1>4. held' = {}
  BY <1>1, <1>2
<1>5. state' = "there" => driver' \notin Careful
  BY <1>1 DEF InitInv
<1> QED BY <1>1, <1>3, <1>4, <1>5 DEF InitInv

LEMMA LeaveModules == ASSUME InitInv, modules!Leave PROVE InitInv'
<1>1. /\ state = "there" /\ state' = "leaving" /\ todo' = modules!Giving(driver)
      /\ UNCHANGED <<driver, held, ret>>
  BY DEF modules!Leave
<1>2. /\ driver \in Drivers /\ held \subseteq Given(modules!Giving(driver))
      /\ driver \in Careful => modules!Class \in held
  BY <1>1 DEF InitInv, modules!TypeOK
<1>3. modules!Giving(driver) \in Seq(modules!Kinds) /\ GoodOrder(modules!Giving(driver))
  BY <1>2, Rows
<1>4. modules!TypeOK'
  BY <1>1, <1>3 DEF InitInv, modules!TypeOK
<1>5. (held \subseteq Given(todo) /\ GoodOrder(todo))'
  BY <1>1, <1>2, <1>3
<1>6. ASSUME NEW r \in held' PROVE Stands(r)'
  BY <1>1, <1>6 DEF InitInv, Stands
<1>7. SafeToGive'
  BY <1>1, <1>2, Rows DEF SafeToGive
<1> QED BY <1>1, <1>4, <1>5, <1>6, <1>7 DEF InitInv

LEMMA LeftModules == ASSUME InitInv, modules!Left PROVE InitInv'
<1>1. /\ state = "leaving" /\ todo = <<>> /\ state' = "absent"
      /\ UNCHANGED <<driver, todo, held, ret>>
  BY DEF modules!Left
<1>2. held = {}
  BY <1>1, GivenNone DEF InitInv
<1>3. modules!TypeOK'
  BY <1>1 DEF InitInv, modules!TypeOK
<1> QED BY <1>1, <1>2, <1>3 DEF InitInv

LEMMA InitModules == Init => InitInv
<1> SUFFICES ASSUME Init PROVE InitInv
  OBVIOUS
<1>1. driver \in Drivers /\ state = "absent" /\ todo = <<>> /\ held = {} /\ ret = "zero"
  BY DEF Init, modules!Init
<1>2. <<>> \in Seq(modules!Kinds)
  BY EmptySeq
<1> QED BY <1>1, <1>2 DEF InitInv, modules!TypeOK

LEMMA NextModules == InitInv /\ [Next]_vars => InitInv'
<1> SUFFICES ASSUME InitInv, [Next]_vars PROVE InitInv'
  OBVIOUS
<1>1. CASE ModulesStep
  <2>1. modules!Next
    BY <1>1 DEF ModulesStep
  <2> QED BY <2>1, StartModules, SucceedModules, FailModules, StartedModules, UndoModules,
             UndoneModules, LeaveModules, LeftModules DEF modules!Next
<1>2. CASE UNCHANGED initVars
  BY <1>2 DEF InitInv, initVars, modules!TypeOK, Stands, SafeToGive
<1> QED BY <1>1, <1>2 DEF Next, vars, GpioStep, ArduinoStep

(* HoldsNothing: an init that failed, at whatever call, or an exit that    *)
(* got through leaves nothing registered or allocated; no undoing and no   *)
(* exit of 002 or 003 oopses, and the remove of the I2C drivers only at    *)
(* its first call; for any number of devices in 003's row.                 *)
THEOREM NothingHeld == Spec => []HoldsNothing
<1>1. InitInv => HoldsNothing
  BY DEF InitInv, HoldsNothing, modules!HoldsNothing, Careless
<1> QED BY InitModules, NextModules, <1>1, PTL DEF Spec

(* Nested: no device file is held without its class, no cdev without the   *)
(* range of its number or the memory it is in, at any step of going back.  *)
THEOREM Nesting == Spec => []Nested
<1>1. InitInv => Nested
  <2> SUFFICES ASSUME InitInv PROVE modules!Nested
    BY DEF Nested
  <2>1. ASSUME NEW n \in 0 .. NO_OF_DEVICES - 1
        PROVE  /\ modules!Device(n) \in held => modules!Class \in held
               /\ modules!Cdev(n) \in held => modules!Region \in held
    BY <2>1, KindsApart DEF InitInv, Stands, Base
  <2>2. driver \in {"arduino", "lcd"} /\ modules!Cdev(0) \in held => modules!Memory \in held
    BY KindsApart DEF InitInv, Stands, Base
  <2> QED BY <2>1, <2>2 DEF modules!Nested
<1> QED BY InitModules, NextModules, <1>1, PTL DEF Spec
-----------------------------------------------------------------------------
(* TypeOK: the types of all three drivers, from their invariants.          *)
THEOREM Typing == Spec => []TypeOK
<1> DEFINE Inv == active \in {"modules", "gpio", "arduino"} /\ InitInv /\ GInv /\ CharInv
<1>1. Init => Inv
  BY InitModules, InitGpio, InitChar DEF Init
<1>2. Inv /\ [Next]_vars => Inv'
  <2>1. active \in {"modules", "gpio", "arduino"} /\ [Next]_vars =>
          active' \in {"modules", "gpio", "arduino"}
    BY DEF Next, vars, ModulesStep, GpioStep, ArduinoStep
  <2> QED BY <2>1, NextModules, NextGpio, NextChar
<1>3. Inv => TypeOK
  BY DEF InitInv, GInv, CharInv, TypeOK
<1> QED BY <1>1, <1>2, <1>3, PTL DEF Spec

=============================================================================

------------------------------ MODULE GpioSysfs ------------------------------
(***************************************************************************)
(* The GPIO driver (007_gpio_sysfs/gpio-sysfs.c): a platform device with a *)
(* device in sysfs for each enabled child of its device tree node, through *)
(* whose attributes user space drives a line.                              *)
(*                                                                         *)
(* What probe allocates, the data of a child and its line, the driver core *)
(* takes back when the probe fails or the device is unbound. What it       *)
(* registers is only given back by remove, which goes by the array dev.    *)
(* The show callbacks change nothing.                                      *)
(*                                                                         *)
(* Definitions marked "mutant" are wrong on purpose: they show that the    *)
(* property named there depends on the code of the definition that follows.*)
(***************************************************************************)
EXTENDS Integers

CONSTANTS
  Nodes,    \* the device tree nodes: children, and those that are enabled
  MayFail,  \* what may fail: the driver's registration, the array, a child
  None      \* no child

Node == [children : Nat, enabled : SUBSET Nat]

NodesType == \A n \in Nodes : n \in Node /\ n.enabled \subseteq 0 .. n.children - 1
MayFailType == MayFail \subseteq {"driver", "array", "child"}

VARIABLES
  node,       \* the device's node; it never changes
  module,     \* the driver is absent, loaded, or loaded without effect
  at,         \* where the device is; oops ends the model
  child,      \* the child probe looks at next
  i,          \* probe's and remove's index
  total_devices,
  dev,        \* the array: dev[k] is a child or None; empty for no array
  held,       \* the children whose data and line are held
  line,       \* line[c]: direction and level of the line of child c
  registered, \* the children with a device in sysfs
  abandoned   \* a probe has failed after it had registered devices

vars == <<node, module, at, child, i, total_devices, dev, held, line,
          registered, abandoned>>
probed == <<child, i, total_devices, dev, held, line, registered, abandoned>>

Children == 0 .. node.children - 1
NoArray == [k \in {} |-> None]

TypeOK ==
  /\ node \in Nodes
  /\ module \in {"absent", "loaded", "ineffective"}
  /\ at \in {"unbound", "probing", "bound", "removing", "oops"}
  /\ child \in 0 .. node.children
  /\ total_devices \in 0 .. node.children
  /\ i \in 0 .. total_devices
  /\ dev = NoArray \/ dev \in [0 .. total_devices - 1 -> Children \union {None}]
  /\ held \subseteq Children /\ registered \subseteq Children
  /\ line \in [Children -> [dir : {"in", "out"}, level : 0 .. 1]]
  /\ abandoned \in BOOLEAN

Init ==
  /\ node \in Nodes
  /\ module = "absent" /\ at = "unbound"
  /\ child = 0 /\ i = 0 /\ total_devices = 0 /\ dev = NoArray
  /\ held = {} /\ registered = {} /\ abandoned = FALSE
  /\ line = [c \in Children |-> [dir |-> "in", level |-> 0]]

-----------------------------------------------------------------------------
(* Loading fails without a class; the driver's registration goes unchecked.*)
Load ==
  /\ module = "absent"
  /\ module' \in {"loaded"} \union
                 (IF "driver" \in MayFail THEN {"ineffective"} ELSE {})
  /\ UNCHANGED <<node, at, probed>>

(* Once the device is unbound. A class that still has devices is not       *)
(* followed any further.                                                   *)
Unload ==
  /\ module # "absent" /\ at = "unbound" /\ registered = {}
  /\ module' = "absent"
  /\ UNCHANGED <<node, at, probed>>

-----------------------------------------------------------------------------
(* probe. The array has room for every child, enabled or not; whether it   *)
(* was allocated is not looked at.                                         *)
BeginProbe ==
  /\ module = "loaded" /\ at = "unbound" /\ node.children > 0
  /\ at' = "probing" /\ child' = 0 /\ i' = 0
  /\ total_devices' = node.children
  /\ dev' \in {[k \in Children |-> None]} \union
              (IF "array" \in MayFail THEN {NoArray} ELSE {})
  /\ UNCHANGED <<node, module, held, line, registered, abandoned>>

SkipChild ==
  /\ at = "probing" /\ child \in Children \ node.enabled
  /\ child' = child + 1
  /\ UNCHANGED <<node, module, at, i, total_devices, dev, held, line,
                 registered, abandoned>>

(* mutant for GivesAllBack *)
AddAtStart ==
  /\ at = "probing" /\ child \in node.enabled \ registered /\ dev # NoArray
  /\ held' = held \union {child}
  /\ line' = [line EXCEPT ![child] = [dir |-> "out", level |-> 0]]
  /\ registered' = registered \union {child}
  /\ dev' = [dev EXCEPT ![0] = child]
  /\ child' = child + 1
  /\ UNCHANGED <<node, module, at, i, total_devices, abandoned>>

AddChild ==
  /\ at = "probing" /\ child \in node.enabled \ registered /\ dev # NoArray
  /\ held' = held \union {child}
  /\ line' = [line EXCEPT ![child] = [dir |-> "out", level |-> 0]]
  /\ registered' = registered \union {child}
  /\ dev' = [dev EXCEPT ![i] = child]
  /\ i' = i + 1 /\ child' = child + 1
  /\ UNCHANGED <<node, module, at, total_devices, abandoned>>

(* A child without memory or line, or, once its line is driven, whose name *)
(* a device has already: the devices made before it stay.                  *)
ChildFails ==
  /\ at = "probing" /\ child \in node.enabled
  /\ \/ "child" \in MayFail /\ UNCHANGED line
     \/ /\ dev # NoArray
        /\ "child" \in MayFail \/ child \in registered
        /\ line' = [line EXCEPT ![child] = [dir |-> "out", level |-> 0]]
  /\ at' = "unbound" /\ held' = {} /\ dev' = NoArray
  /\ abandoned' = (registered # {})
  /\ UNCHANGED <<node, module, child, i, total_devices, registered>>

(* What device_create returned is stored before it is looked at.           *)
AddToNoArray ==
  /\ at = "probing" /\ child \in node.enabled /\ dev = NoArray
  /\ at' = "oops"
  /\ UNCHANGED <<node, module, probed>>

EndProbe ==
  /\ at = "probing" /\ child = node.children
  /\ at' = "bound"
  /\ UNCHANGED <<node, module, probed>>

-----------------------------------------------------------------------------
BeginRemove ==
  /\ at = "bound"
  /\ at' = "removing" /\ i' = 0
  /\ UNCHANGED <<node, module, child, total_devices, dev, held, line,
                 registered, abandoned>>

(* device_unregister(NULL) is no harmless call.                            *)
Unregister ==
  /\ at = "removing" /\ i < total_devices
  /\ IF dev # NoArray /\ dev[i] # None
     THEN registered' = registered \ {dev[i]} /\ i' = i + 1 /\ UNCHANGED at
     ELSE at' = "oops" /\ UNCHANGED <<registered, i>>
  /\ UNCHANGED <<node, module, child, total_devices, dev, held, line, abandoned>>

(* mutant for AttributesWork *)
FreeBeforeUnregister ==
  /\ at = "removing"
  /\ at' = IF i = total_devices THEN "unbound" ELSE at
  /\ held' = {} /\ dev' = IF i = total_devices THEN NoArray ELSE dev
  /\ UNCHANGED <<node, module, child, i, total_devices, line, registered,
                 abandoned>>

EndRemove ==
  /\ at = "removing" /\ i = total_devices
  /\ at' = "unbound" /\ held' = {} /\ dev' = NoArray
  /\ UNCHANGED <<node, module, child, i, total_devices, line, registered,
                 abandoned>>

-----------------------------------------------------------------------------
(* direction_store and value_store. The level stored for an input line is  *)
(* what it would drive.                                                    *)
Store(c, to) ==
  /\ c \in registered
  /\ IF c \in held
     THEN line' = [line EXCEPT ![c] = to] /\ UNCHANGED at
     ELSE at' = "oops" /\ UNCHANGED line
  /\ UNCHANGED <<node, module, child, i, total_devices, dev, held,
                 registered, abandoned>>

direction_store(c) ==
  \/ Store(c, [line[c] EXCEPT !.dir = "in"])
  \/ Store(c, [dir |-> "out", level |-> 0])

value_store(c) == \E value \in 0 .. 1 : Store(c, [line[c] EXCEPT !.level = value])

Next ==
  \/ Load \/ Unload
  \/ BeginProbe \/ SkipChild \/ AddChild \/ ChildFails \/ AddToNoArray \/ EndProbe
  \/ BeginRemove \/ Unregister \/ EndRemove
  \/ \E c \in registered : at # "oops" /\ (direction_store(c) \/ value_store(c))

Spec == Init /\ [][Next]_vars

-----------------------------------------------------------------------------
(* Properties                                                              *)

(* The attributes of a device in sysfs reach data and a line that are held *)
(* for it, while probe still adds devices and while remove takes them away *)
(* (gpio-sysfs.c:50-103, 116-126, 203); only a probe that failed half-way  *)
(* leaves devices whose memory is gone (line 188).                         *)
AttributesWork == registered \subseteq held \/ abandoned

(* A bound driver has a device for each enabled child, and remove gives    *)
(* all of them back, unless a child is disabled, for which the array holds *)
(* no device (line 156), or memory for the array was not there (line 165). *)
GivesAllBack ==
  /\ at = "bound" => registered = node.enabled
  /\ at = "unbound" /\ ~abandoned => registered = {}
  /\ at = "oops" /\ ~abandoned => node.enabled # Children \/ dev = NoArray
=============================================================================

----------------------------- MODULE PcdPlatform -----------------------------
(***************************************************************************)
(* How the pseudo character drivers for platform devices come and go:      *)
(* 004_pcd_platform_driver (device numbers from the device's id),          *)
(* 005_pcd_platform_driver_dt and 006_pcd_sysfs (numbers from a count of   *)
(* the devices bound so far; 006 adds attributes to the device file). The  *)
(* driver of 005_pcd_platform_driver_Device_Tree_Overlays is that of 005   *)
(* in all of this.                                                         *)
(*                                                                         *)
(* The driver core locks each device while the driver probes or removes    *)
(* it, but not the driver: through the bind files of sysfs two devices can *)
(* be probed at once, over the shared pcdrv_data. A probe is one step per  *)
(* access to shared state. What it returns before it has changed any of    *)
(* it, without platform data or memory, leaves no trace and is left out.   *)
(*                                                                         *)
(* Definitions marked "mutant" are wrong on purpose: they show that the    *)
(* property named there depends on the code of the definition that follows.*)
(***************************************************************************)
EXTENDS Integers, FiniteSets

CONSTANTS
  Devices,     \* the platform devices
  Id,          \* Id[d]: the id of the platform device d
  Variants,    \* which of the drivers: "004", "005", "006"
  Concurrent,  \* two devices may be probed or removed at once
  MAX_DEVICES, \* the size of the range of device numbers
  MayFail,     \* the kernel calls that may fail for want of memory
  NoDevice     \* an error pointer in device_pcd

ASSUME DevicesAssumption == IsFiniteSet(Devices) /\ MAX_DEVICES \in Nat
ASSUME IdAssumption == Id \in [Devices -> 0 .. MAX_DEVICES - 1]
ASSUME IdsDiffer == \A d, e \in Devices : Id[d] = Id[e] => d = e
ASSUME VariantsAssumption == Variants \subseteq {"004", "005", "006"}
ASSUME NoDeviceAssumption == NoDevice \notin Devices

VARIABLES
  variant,  \* the driver; it never changes
  reg,      \* what the module has registered: region, class, driver
  module,   \* unloaded, loaded or exiting
  present,  \* the platform devices that are registered
  at,       \* at[d]: where the probe of device d is
  num,      \* num[d]: dev_data->dev_num, less device_num_base
  cdevs,    \* the devices whose cdev the kernel knows
  nodes,    \* the device files, with their attributes
  device_pcd,    \* whose device file pcdrv_data.device_pcd is
  total_devices, \* pcdrv_data.total_devices
  excused   \* the devices whose last probe met a failed call

vars == <<variant, reg, module, present, at, num, cdevs, nodes, device_pcd,
          total_devices, excused>>
core == <<variant, reg, module, present>>
probed == <<at, num, cdevs, nodes, device_pcd, total_devices, excused>>

Steps == {"unbound", "add", "create", "check", "count", "sysfs", "bound"}
Node == [num : Nat, name : Nat, of : Devices, attrs : BOOLEAN]

TypeOK ==
  /\ variant \in Variants
  /\ reg \subseteq {"region", "class", "driver"}
  /\ module \in {"unloaded", "loaded", "exiting"}
  /\ present \subseteq Devices
  /\ at \in [Devices -> Steps]
  /\ num \in [Devices -> Nat]
  /\ cdevs \subseteq Devices
  /\ nodes \subseteq Node
  /\ device_pcd \in Devices \union {NoDevice}
  /\ total_devices \in Nat
  /\ excused \subseteq Devices

Init ==
  /\ variant \in Variants
  /\ reg = {} /\ module = "unloaded"
  /\ present = {}
  /\ at = [d \in Devices |-> "unbound"]
  /\ num = [d \in Devices |-> 0]
  /\ cdevs = {} /\ nodes = {} /\ excused = {}
  /\ device_pcd = NoDevice
  /\ total_devices = 0

-----------------------------------------------------------------------------
(* Loading and unloading the driver's module                               *)

(* mutant for UnloadedClean *)
LoadKeepsRegion ==
  /\ module = "unloaded"
  /\ reg' = {"region"}
  /\ UNCHANGED <<variant, module, present, probed>>

(* Without a class the region is given back, and init fails.               *)
LoadWithoutClass ==
  /\ module = "unloaded"
  /\ reg' = {}
  /\ UNCHANGED <<variant, module, present, probed>>

(* The result of platform_driver_register is not looked at.                *)
Load ==
  /\ module = "unloaded"
  /\ module' = "loaded"
  /\ total_devices' = 0 /\ device_pcd' = NoDevice
  /\ \/ reg' = {"region", "class", "driver"}
     \/ "driver" \in MayFail /\ reg' = {"region", "class"}
  /\ UNCHANGED <<variant, present, at, num, cdevs, nodes, excused>>

(* platform_driver_unregister removes the devices that are bound.          *)
BeginExit ==
  /\ module = "loaded" /\ \A d \in Devices : at[d] \in {"unbound", "bound"}
  /\ module' = "exiting"
  /\ UNCHANGED <<variant, reg, present, probed>>

EndExit ==
  /\ module = "exiting" /\ \A d \in Devices : at[d] = "unbound"
  /\ module' = "unloaded" /\ reg' = {}
  /\ UNCHANGED <<variant, present, probed>>

(* The setup module or the device tree adds and takes away devices.        *)
AddDevice(d) ==
  /\ d \notin present
  /\ present' = present \union {d}
  /\ UNCHANGED <<variant, reg, module, probed>>

TakeDevice(d) ==
  /\ d \in present /\ at[d] = "unbound"
  /\ present' = present \ {d}
  /\ UNCHANGED <<variant, reg, module, probed>>

-----------------------------------------------------------------------------
(* probe                                                                   *)

(* The device numbers: from the id in 004, from the count in 005 and 006.  *)
Number(d) == IF variant = "004" THEN Id[d] ELSE total_devices

MayStart == Concurrent \/ \A e \in Devices : at[e] \in {"unbound", "bound"}

(* A number past the range has no bound of the code's; the model stops     *)
(* there.                                                                  *)
BeginProbe(d) ==
  /\ "driver" \in reg /\ module = "loaded"
  /\ d \in present /\ at[d] = "unbound" /\ Number(d) < MAX_DEVICES
  /\ MayStart
  /\ num' = [num EXCEPT ![d] = Number(d)]
  /\ at' = [at EXCEPT ![d] = "add"]
  /\ excused' = excused \ {d}
  /\ UNCHANGED <<core, cdevs, nodes, device_pcd, total_devices>>

CdevAdd(d) ==
  /\ at[d] = "add"
  /\ \/ /\ cdevs' = cdevs \union {d}
        /\ at' = [at EXCEPT ![d] = "create"]
        /\ UNCHANGED excused
     \/ /\ "cdev_add" \in MayFail
        /\ at' = [at EXCEPT ![d] = "unbound"]
        /\ excused' = excused \union {d}
        /\ UNCHANGED cdevs
  /\ UNCHANGED <<core, num, nodes, device_pcd, total_devices>>

(* No two device files have the same number or the same name.              *)
DeviceCreate(d) ==
  LET new == [num |-> num[d], name |-> Number(d), of |-> d, attrs |-> FALSE]
      clash == \E n \in nodes : n.num = new.num \/ n.name = new.name
  IN /\ at[d] = "create"
     /\ at' = [at EXCEPT ![d] = "check"]
     /\ \/ /\ ~clash
           /\ nodes' = nodes \union {new}
           /\ device_pcd' = d
           /\ UNCHANGED excused
        \/ /\ clash \/ "device_create" \in MayFail
           /\ device_pcd' = NoDevice
           /\ excused' = IF clash THEN excused ELSE excused \union {d}
           /\ UNCHANGED nodes
     /\ UNCHANGED <<core, num, cdevs, total_devices>>

(* mutant for OwnFile *)
CheckNothing(d) ==
  /\ at[d] = "check"
  /\ at' = [at EXCEPT ![d] = "count"]
  /\ UNCHANGED <<core, num, cdevs, nodes, device_pcd,
                 total_devices, excused>>

(* mutant for NothingLeft *)
CheckKeepsCdev(d) ==
  /\ at[d] = "check"
  /\ at' = [at EXCEPT ![d] = IF device_pcd = NoDevice THEN "unbound" ELSE "count"]
  /\ UNCHANGED <<core, num, cdevs, nodes, device_pcd,
                 total_devices, excused>>

CheckDevice(d) ==
  /\ at[d] = "check"
  /\ IF device_pcd = NoDevice
     THEN /\ cdevs' = cdevs \ {d}
          /\ at' = [at EXCEPT ![d] = "unbound"]
     ELSE /\ at' = [at EXCEPT ![d] = "count"]
          /\ UNCHANGED cdevs
  /\ UNCHANGED <<core, num, nodes, device_pcd, total_devices,
                 excused>>

(* mutant for TypeOK *)
CountNothing(d) ==
  /\ at[d] = "count"
  /\ at' = [at EXCEPT ![d] = IF variant = "006" THEN "sysfs" ELSE "bound"]
  /\ UNCHANGED <<core, num, cdevs, nodes, device_pcd,
                 total_devices, excused>>

Count(d) ==
  /\ at[d] = "count"
  /\ total_devices' = total_devices + 1
  /\ at' = [at EXCEPT ![d] = IF variant = "006" THEN "sysfs" ELSE "bound"]
  /\ UNCHANGED <<core, num, cdevs, nodes, device_pcd, excused>>

Without(number) == {n \in nodes : n.num # number}

(* pcd_sysfs_create_files. When it fails the device file goes, but the     *)
(* cdev and the count stay.                                                *)
CreateFiles(d) ==
  /\ at[d] = "sysfs"
  /\ \/ /\ at' = [at EXCEPT ![d] = "bound"]
        /\ nodes' = {[n EXCEPT !.attrs = @ \/ n.of = device_pcd] : n \in nodes}
        /\ UNCHANGED excused
     \/ /\ "sysfs" \in MayFail
        /\ at' = [at EXCEPT ![d] = "unbound"]
        /\ nodes' = Without(num[d])
        /\ excused' = excused \union {d}
  /\ UNCHANGED <<core, num, cdevs, device_pcd, total_devices>>

-----------------------------------------------------------------------------
(* mutant for Counted *)
RemoveUncounted(d) ==
  /\ at[d] = "bound" /\ MayStart
  /\ at' = [at EXCEPT ![d] = "unbound"]
  /\ nodes' = Without(num[d])
  /\ cdevs' = cdevs \ {d}
  /\ UNCHANGED <<core, num, device_pcd, total_devices, excused>>

(* remove, when the device or the driver goes or a user unbinds them.      *)
Remove(d) ==
  /\ at[d] = "bound" /\ MayStart
  /\ at' = [at EXCEPT ![d] = "unbound"]
  /\ nodes' = Without(num[d])
  /\ cdevs' = cdevs \ {d}
  /\ total_devices' = total_devices - 1
  /\ UNCHANGED <<core, num, device_pcd, excused>>

Next ==
  \/ LoadWithoutClass \/ Load \/ BeginExit \/ EndExit
  \/ \E d \in Devices :
       \/ AddDevice(d) \/ TakeDevice(d)
       \/ BeginProbe(d) \/ CdevAdd(d) \/ DeviceCreate(d) \/ CheckDevice(d)
       \/ Count(d) \/ CreateFiles(d) \/ Remove(d)

Spec == Init /\ [][Next]_vars

-----------------------------------------------------------------------------
(* Properties                                                              *)

(* A device that is bound has a device file of its own, with its number,   *)
(* and no other file has that number.                                      *)
OwnFile ==
  \A d \in Devices : at[d] = "bound" =>
    /\ d \in cdevs
    /\ \E n \in nodes : n.of = d /\ n.num = num[d]
    /\ \A n \in nodes : n.num = num[d] => n.of = d

(* The devices 006 has left after it could not create their attributes.    *)
LeftBehind(d) == variant = "006" /\ d \in excused

(* A probe that failed, and a remove, leave neither cdev nor file behind:  *)
(* the memory of both is freed with the binding. Only a failure to create  *)
(* attributes does leave the cdev, which is no longer told from that of a  *)
(* later probe of the device, and is forgotten when that one is removed.   *)
NothingLeft ==
  \A d \in Devices : at[d] = "unbound" =>
    /\ d \in cdevs => LeftBehind(d)
    /\ \A n \in nodes : n.of # d

(* total_devices counts the devices that are bound, through failed probes  *)
(* and removes in any order. Nothing is claimed of 006, whose count stays  *)
(* raised once it could not create attributes.                             *)
Counted ==
  module # "unloaded" /\ variant # "006" =>
    total_devices = Cardinality({d \in Devices : at[d] = "bound"})

(* An unloaded module has given back its region, class and devices.        *)
UnloadedClean ==
  module = "unloaded" =>
    reg = {} /\ nodes = {} /\ \A d \in cdevs : LeftBehind(d)

(* "Create device file for the detected platform device"                   *)
(* (pcd_platform_driver_dt.c:375): probing a device fails only if a kernel *)
(* call does.                                                              *)
DetectedGetsFile ==
  [][\A d \in Devices :
       at[d] = "check" /\ at'[d] = "unbound" => d \in excused]_vars
=============================================================================

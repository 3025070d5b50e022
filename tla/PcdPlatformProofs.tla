-------------------------- MODULE PcdPlatformProofs --------------------------
(***************************************************************************)
(* Proofs about PcdPlatform, for any number of devices, any ids and any    *)
(* kernel calls that fail, as long as the driver core probes and removes   *)
(* one device at a time (~Concurrent). The argument is one of ownership:   *)
(* a device file belongs to one device, which is bound or on its way, and  *)
(* nobody else has its number.                                             *)
(***************************************************************************)
EXTENDS PcdPlatform, FiniteSetTheorems, TLAPS

USE DevicesAssumption, IdAssumption, IdsDiffer, VariantsAssumption,
    NoDeviceAssumption

Quiet(d) == at[d] \in {"unbound", "bound"}

(* One probe at a time, of a loaded driver.                                *)
GoodModule ==
  /\ \A d, e \in Devices : ~Quiet(d) /\ ~Quiet(e) => d = e
  /\ \A d \in Devices : ~Quiet(d) => module = "loaded"
  /\ module = "unloaded" => reg = {} /\ \A d \in Devices : at[d] = "unbound"

(* The probe of d has created its device file, and has not undone that.    *)
HasFile(d) ==
  at[d] \in {"count", "sysfs", "bound"} \/ (at[d] = "check" /\ device_pcd # NoDevice)

(* The devices with a file are those whose probe has created it; no two of *)
(* them have the same number.                                              *)
GoodNodes ==
  /\ \A n \in nodes : HasFile(n.of) /\ n.num = num[n.of]
  /\ \A d \in Devices : HasFile(d) => \E n \in nodes : n.of = d
  /\ \A m, n \in nodes : m.num = n.num => m.of = n.of

(* The cdev of a device lives from cdev_add to the end of its binding.     *)
GoodCdevs ==
  \A d \in Devices :
    /\ at[d] \notin {"unbound", "add"} => d \in cdevs
    /\ at[d] = "unbound" /\ d \in cdevs => LeftBehind(d)
    /\ at[d] = "add" /\ d \in cdevs => variant = "006"

(* The devices the count covers; only 006 may count some that failed.      *)
Covered == {d \in Devices : at[d] \in {"sysfs", "bound"}}
GoodCount ==
  /\ \A d \in Devices : at[d] = "sysfs" => variant = "006"
  /\ total_devices >= Cardinality(Covered)
  /\ module # "unloaded" /\ variant # "006" => total_devices = Cardinality(Covered)

(* In 004 the number and the name of a device come from its id, and so no  *)
(* file is in the way of another.                                          *)
GoodIds ==
  variant = "004" =>
    /\ \A d \in Devices : at[d] # "unbound" => num[d] = Id[d]
    /\ \A n \in nodes : n.num = Id[n.of] /\ n.name = Id[n.of]
    /\ \A d \in Devices :
         at[d] = "check" /\ device_pcd = NoDevice => d \in excused

IInv ==
  /\ TypeOK
  /\ GoodModule
  /\ GoodNodes
  /\ GoodCdevs
  /\ GoodCount
  /\ GoodIds

-----------------------------------------------------------------------------
(* A device moves to its next step, the others stay where they are.        *)
LEMMA Advanced ==
  ASSUME TypeOK, NEW d \in Devices, NEW s \in Steps, at' = [at EXCEPT ![d] = s]
  PROVE  /\ at' \in [Devices -> Steps] /\ at'[d] = s
         /\ \A e \in Devices : e # d => at'[e] = at[e]
BY DEF TypeOK

(* The devices that are counted are finitely many, one more or less after  *)
(* one of them was counted or removed.                                     *)
LEMMA CoveredFinite == IsFiniteSet(Covered) /\ Cardinality(Covered) \in Nat
<1>1. Covered \in SUBSET Devices
  BY DEF Covered
<1>2. IsFiniteSet(Covered)
  BY <1>1, FS_Subset
<1> QED BY <1>2, FS_CardinalityType

LEMMA CoveredSame ==
  ASSUME \A d \in Devices :
           at'[d] \in {"sysfs", "bound"} <=> at[d] \in {"sysfs", "bound"}
  PROVE  Covered' = Covered
BY DEF Covered

LEMMA CoveredMore ==
  ASSUME NEW d \in Devices, at[d] \notin {"sysfs", "bound"},
         at'[d] \in {"sysfs", "bound"},
         \A e \in Devices : e # d => at'[e] = at[e]
  PROVE  Cardinality(Covered)' = Cardinality(Covered) + 1
<1>1. Covered' = Covered \union {d} /\ d \notin Covered
  BY DEF Covered
<1> QED BY <1>1, CoveredFinite, FS_AddElement

LEMMA CoveredLess ==
  ASSUME NEW d \in Devices, at[d] \in {"sysfs", "bound"},
         at'[d] \notin {"sysfs", "bound"},
         \A e \in Devices : e # d => at'[e] = at[e]
  PROVE  /\ Cardinality(Covered)' = Cardinality(Covered) - 1
         /\ Cardinality(Covered) >= 1
<1>1. Covered' = Covered \ {d} /\ d \in Covered
  BY DEF Covered
<1>2. Cardinality(Covered)' = Cardinality(Covered) - 1
  BY <1>1, CoveredFinite, FS_RemoveElement
<1>3. Cardinality(Covered) # 0
  BY <1>1, CoveredFinite, FS_EmptySet
<1> QED BY <1>2, <1>3, CoveredFinite

(* While d is being probed, every other device is bound or unbound.        *)
LEMMA Alone ==
  ASSUME IInv, NEW d \in Devices, ~Quiet(d)
  PROVE  module = "loaded" /\ \A e \in Devices : e # d => Quiet(e)
BY DEF IInv, GoodModule

(* The files that are left when those of d's number are gone are those of  *)
(* the other devices.                                                      *)
LEMMA OthersKeepFiles ==
  ASSUME IInv, NEW d \in Devices, HasFile(d)
  PROVE  Without(num[d]) = {n \in nodes : n.of # d}
<1>1. PICK m \in nodes : m.of = d /\ m.num = num[d]
  BY DEF IInv, GoodNodes
<1>2. \A n \in nodes : n.num = num[d] <=> n.of = d
  BY <1>1 DEF IInv, GoodNodes
<1> QED BY <1>2 DEF Without

-----------------------------------------------------------------------------
(* Loading and unloading.                                                  *)

LEMMA InitGood == Init => IInv
<1> SUFFICES ASSUME Init PROVE IInv
  OBVIOUS
<1>1. TypeOK
  BY DEF Init, TypeOK, Steps
<1>2. GoodModule /\ GoodNodes /\ GoodCdevs /\ GoodIds
  BY DEF Init, GoodModule, GoodNodes, GoodCdevs, GoodIds, Quiet, HasFile
<1>3. Covered = {}
  BY DEF Init, Covered
<1>4. GoodCount
  BY <1>3, FS_EmptySet DEF Init, GoodCount
<1> QED BY <1>1, <1>2, <1>4 DEF IInv

LEMMA LoadWithoutClassGood == IInv /\ LoadWithoutClass => IInv'
<1> SUFFICES ASSUME IInv, LoadWithoutClass PROVE IInv'
  OBVIOUS
<1>1. TypeOK'
  BY DEF IInv, TypeOK, LoadWithoutClass, probed
<1>2. GoodModule' /\ GoodNodes' /\ GoodCdevs' /\ GoodCount' /\ GoodIds'
  BY DEF IInv, GoodModule, GoodNodes, GoodCdevs, GoodCount, GoodIds, Covered, Quiet,
         HasFile, LeftBehind, LoadWithoutClass, probed
<1> QED BY <1>1, <1>2 DEF IInv

(* No device is bound to a driver that is not loaded, and so the count     *)
(* starts at 0 rightly.                                                    *)
LEMMA LoadGood == IInv /\ Load => IInv'
<1> SUFFICES ASSUME IInv, Load PROVE IInv'
  OBVIOUS
<1>1. \A d \in Devices : at[d] = "unbound"
  BY DEF IInv, GoodModule, Load
<1>2. TypeOK'
  BY DEF IInv, TypeOK, Load
<1>3. GoodModule' /\ GoodCdevs'
  BY <1>1 DEF IInv, GoodModule, GoodCdevs, Quiet, LeftBehind, Load
<1>4. nodes = {}
  BY <1>1 DEF IInv, TypeOK, GoodNodes, HasFile, Node
<1>5. GoodNodes'
  BY <1>1, <1>4 DEF GoodNodes, HasFile, Load
<1>6. GoodIds'
  BY <1>1 DEF IInv, GoodIds, Load
<1>7. Covered' = {}
  BY <1>1 DEF Covered, Load
<1>8. GoodCount'
  BY <1>1, <1>7, FS_EmptySet DEF GoodCount, Load
<1> QED BY <1>2, <1>3, <1>5, <1>6, <1>8 DEF IInv

LEMMA ExitGood == IInv /\ (BeginExit \/ EndExit) => IInv'
<1> SUFFICES ASSUME IInv, BeginExit \/ EndExit PROVE IInv'
  OBVIOUS
<1>1. TypeOK'
  BY DEF IInv, TypeOK, BeginExit, EndExit, probed
<1>2. GoodModule'
  BY DEF IInv, GoodModule, Quiet, BeginExit, EndExit, probed
<1>3. GoodNodes' /\ GoodCdevs' /\ GoodIds'
  BY DEF IInv, GoodNodes, GoodCdevs, GoodIds, HasFile, LeftBehind, BeginExit, EndExit,
         probed
<1>4. GoodCount'
  BY DEF IInv, GoodCount, Covered, BeginExit, EndExit, probed
<1> QED BY <1>1, <1>2, <1>3, <1>4 DEF IInv

LEMMA PresentGood ==
  ASSUME IInv, NEW d \in Devices, AddDevice(d) \/ TakeDevice(d)
  PROVE  IInv'
<1>1. TypeOK'
  BY DEF IInv, TypeOK, AddDevice, TakeDevice, probed
<1>2. UNCHANGED <<variant, reg, module, probed>>
  BY DEF AddDevice, TakeDevice
<1>3. GoodModule' /\ GoodNodes' /\ GoodIds'
  BY <1>2 DEF IInv, GoodModule, GoodNodes, GoodIds, Quiet, HasFile, probed
<1>4. GoodCdevs' /\ GoodCount'
  BY <1>2 DEF IInv, GoodCdevs, GoodCount, Covered, LeftBehind, probed
<1> QED BY <1>1, <1>3, <1>4 DEF IInv

-----------------------------------------------------------------------------
(* A probe, step by step.                                                  *)

LEMMA BeginProbeGood ==
  ASSUME IInv, ~Concurrent, NEW d \in Devices, BeginProbe(d)
  PROVE  IInv'
<1>1. /\ at' \in [Devices -> Steps] /\ at'[d] = "add"
      /\ \A e \in Devices : e # d => at'[e] = at[e]
  BY Advanced DEF IInv, BeginProbe, Steps
<1>2. Number(d) \in Nat /\ (variant = "004" => Number(d) = Id[d])
  BY DEF IInv, TypeOK, Number
<1>3. /\ num' \in [Devices -> Nat] /\ num'[d] = Number(d)
      /\ \A e \in Devices : e # d => num'[e] = num[e]
  BY <1>2 DEF IInv, TypeOK, BeginProbe
<1>4. \A e \in Devices : Quiet(e)
  BY DEF BeginProbe, MayStart, Quiet
<1>5. ~HasFile(d) /\ ~HasFile(d)'
  BY <1>1 DEF BeginProbe, HasFile
<1>6. TypeOK'
  BY <1>1, <1>3 DEF IInv, TypeOK, BeginProbe, core
<1>7. GoodModule'
  BY <1>1, <1>4 DEF IInv, GoodModule, Quiet, BeginProbe, core
<1>8. \A e \in Devices : HasFile(e)' <=> HasFile(e)
  BY <1>1, <1>5 DEF HasFile, BeginProbe
<1>9. \A n \in nodes : n.of \in Devices /\ n.of # d
  BY <1>5 DEF IInv, TypeOK, GoodNodes, Node
<1>10. GoodNodes'
  BY <1>3, <1>8, <1>9 DEF IInv, GoodNodes, BeginProbe
<1>11. GoodCdevs'
  BY <1>1 DEF IInv, GoodCdevs, LeftBehind, BeginProbe, core
<1>12. Covered' = Covered
  BY <1>1, CoveredSame DEF BeginProbe
<1>13. GoodCount'
  BY <1>1, <1>12 DEF IInv, GoodCount, BeginProbe, core
<1>14. GoodIds'
  BY <1>1, <1>2, <1>3 DEF IInv, GoodIds, BeginProbe, core
<1> QED BY <1>6, <1>7, <1>10, <1>11, <1>13, <1>14 DEF IInv

LEMMA CdevAddGood ==
  ASSUME IInv, NEW d \in Devices, CdevAdd(d)
  PROVE  IInv'
<1>1. /\ at' \in [Devices -> Steps] /\ at'[d] \in {"create", "unbound"}
      /\ \A e \in Devices : e # d => at'[e] = at[e]
  BY Advanced DEF IInv, CdevAdd, Steps
<1>2. module = "loaded" /\ \A e \in Devices : e # d => Quiet(e)
  BY Alone DEF CdevAdd, Quiet
<1>3. TypeOK'
  BY <1>1 DEF IInv, TypeOK, CdevAdd, core
<1>4. GoodModule'
  BY <1>1, <1>2 DEF GoodModule, Quiet, CdevAdd, core
<1>5. \A e \in Devices : HasFile(e)' <=> HasFile(e)
  BY <1>1 DEF HasFile, CdevAdd
<1>6. \A n \in nodes : n.of \in Devices
  BY DEF IInv, TypeOK, Node
<1>7. GoodNodes'
  BY <1>5, <1>6 DEF IInv, GoodNodes, CdevAdd
<1>8. GoodCdevs'
  <2> SUFFICES ASSUME NEW e \in Devices
               PROVE  /\ at'[e] \notin {"unbound", "add"} => e \in cdevs'
                      /\ at'[e] = "unbound" /\ e \in cdevs' => LeftBehind(e)'
                      /\ at'[e] = "add" /\ e \in cdevs' => variant' = "006"
    BY DEF GoodCdevs
  <2>1. CASE e # d
    BY <1>1, <2>1 DEF IInv, GoodCdevs, LeftBehind, CdevAdd, core
  <2>2. CASE e = d /\ at'[d] = "create"
    BY <2>2, <1>1 DEF IInv, TypeOK, CdevAdd
  <2>3. CASE e = d /\ at'[d] = "unbound"
    <3>1. cdevs' = cdevs /\ d \in excused' /\ variant' = variant
      BY <2>3 DEF IInv, TypeOK, CdevAdd, core
    <3> QED BY <2>3, <3>1 DEF IInv, GoodCdevs, LeftBehind, CdevAdd
  <2> QED BY <1>1, <2>1, <2>2, <2>3
<1>9. Covered' = Covered
  BY <1>1, CoveredSame DEF CdevAdd
<1>10. GoodCount'
  BY <1>1, <1>9 DEF IInv, GoodCount, CdevAdd, core
<1>11. GoodIds'
  BY <1>1 DEF IInv, GoodIds, CdevAdd, core
<1> QED BY <1>3, <1>4, <1>7, <1>8, <1>10, <1>11 DEF IInv

(* A file that was created has a number nobody else has: device_create     *)
(* refuses one that is taken.                                              *)
LEMMA DeviceCreateGood ==
  ASSUME IInv, ~Concurrent, NEW d \in Devices, DeviceCreate(d)
  PROVE  IInv'
<1> DEFINE new == [num |-> num[d], name |-> Number(d), of |-> d, attrs |-> FALSE]
           clash == \E n \in nodes : n.num = new.num \/ n.name = new.name
<1>1. /\ at' \in [Devices -> Steps] /\ at'[d] = "check"
      /\ \A e \in Devices : e # d => at'[e] = at[e]
  BY Advanced DEF IInv, DeviceCreate, Steps
<1>2. module = "loaded" /\ \A e \in Devices : e # d => Quiet(e)
  BY Alone DEF DeviceCreate, Quiet
<1>3. new \in Node /\ new.num = num[d] /\ new.name = Number(d) /\ new.of = d
  <2>1. num[d] \in Nat /\ Number(d) \in Nat
    BY DEF IInv, TypeOK, Number
  <2> QED BY <2>1 DEF Node
<1>4. \/ ~clash /\ nodes' = nodes \union {new} /\ device_pcd' = d /\ excused' = excused
      \/ /\ clash \/ "device_create" \in MayFail
         /\ nodes' = nodes /\ device_pcd' = NoDevice
         /\ excused' = IF clash THEN excused ELSE excused \union {d}
  BY DEF DeviceCreate
<1>5. at[d] = "create" /\ ~HasFile(d)
  BY DEF DeviceCreate, HasFile
<1>6. \A n \in nodes : n.of \in Devices /\ n.of # d
  BY <1>5 DEF IInv, TypeOK, GoodNodes, Node
<1>7. UNCHANGED <<variant, reg, module, present, num, cdevs, total_devices>>
  BY DEF DeviceCreate, core
<1> HIDE DEF new, clash
<1>8. TypeOK'
  BY <1>1, <1>3, <1>4, <1>7 DEF IInv, TypeOK
<1>9. GoodModule'
  BY <1>1, <1>2, <1>7 DEF GoodModule, Quiet
<1>10. \A e \in Devices : e # d => (HasFile(e)' <=> HasFile(e))
  BY <1>1, <1>2 DEF HasFile, Quiet
<1>11. GoodNodes'
  <2>1. CASE ~clash /\ nodes' = nodes \union {new} /\ device_pcd' = d
    <3>1. HasFile(d)'
      BY <1>1, <2>1, NoDeviceAssumption DEF HasFile
    <3>2. \A n \in nodes : n.num # new.num
      BY <2>1 DEF clash
    <3>3. \A n \in nodes' : HasFile(n.of)' /\ n.num = num'[n.of]
      BY <1>3, <1>6, <1>7, <1>10, <2>1, <3>1 DEF IInv, GoodNodes
    <3>4. \A e \in Devices : HasFile(e)' => \E n \in nodes' : n.of = e
      BY <1>3, <1>10, <2>1 DEF IInv, GoodNodes
    <3>5. \A m, n \in nodes' : m.num = n.num => m.of = n.of
      BY <2>1, <3>2 DEF IInv, GoodNodes
    <3> QED BY <3>3, <3>4, <3>5 DEF GoodNodes
  <2>2. CASE nodes' = nodes /\ device_pcd' = NoDevice
    <3>1. ~HasFile(d)'
      BY <1>1, <2>2 DEF HasFile
    <3> QED BY <1>6, <1>7, <1>10, <2>2, <3>1 DEF IInv, GoodNodes
  <2> QED BY <1>4, <2>1, <2>2
<1>12. GoodCdevs'
  BY <1>1, <1>4, <1>5, <1>7 DEF IInv, GoodCdevs, LeftBehind
<1>13. Covered' = Covered
  BY <1>1, <1>5, CoveredSame
<1>14. GoodCount'
  BY <1>1, <1>7, <1>13 DEF IInv, GoodCount
<1>15. GoodIds'
  <2> SUFFICES ASSUME variant = "004" PROVE GoodIds'
    BY <1>7 DEF GoodIds
  <2>1. num[d] = Id[d] /\ Number(d) = Id[d]
    BY <1>5 DEF IInv, GoodIds, Number
  <2>2. ~clash
    <3>1. \A n \in nodes : n.num # Id[d] /\ n.name # Id[d]
      BY <1>6, IdsDiffer DEF IInv, GoodIds
    <3> QED BY <1>3, <2>1, <3>1 DEF clash
  <2>3. \A n \in nodes' : n.num = Id[n.of] /\ n.name = Id[n.of]
    BY <1>3, <1>4, <2>1 DEF IInv, GoodIds
  <2>4. \A e \in Devices : at'[e] # "unbound" => num'[e] = Id[e]
    BY <1>1, <1>5, <1>7 DEF IInv, GoodIds
  <2>5. \A e \in Devices : at'[e] = "check" /\ device_pcd' = NoDevice => e \in excused'
    BY <1>1, <1>2, <1>4, <2>2, NoDeviceAssumption DEF Quiet
  <2> QED BY <2>3, <2>4, <2>5 DEF GoodIds
<1> QED BY <1>8, <1>9, <1>11, <1>12, <1>14, <1>15 DEF IInv

(* A probe that has no file takes its cdev back.                           *)
LEMMA CheckDeviceGood ==
  ASSUME IInv, NEW d \in Devices, CheckDevice(d)
  PROVE  IInv'
<1>1. /\ at' \in [Devices -> Steps]
      /\ at'[d] = IF device_pcd = NoDevice THEN "unbound" ELSE "count"
      /\ \A e \in Devices : e # d => at'[e] = at[e]
  BY Advanced DEF IInv, CheckDevice, Steps
<1>2. module = "loaded" /\ \A e \in Devices : e # d => Quiet(e)
  BY Alone DEF CheckDevice, Quiet
<1>3. at[d] = "check" /\ cdevs' = IF device_pcd = NoDevice THEN cdevs \ {d} ELSE cdevs
  BY DEF CheckDevice
<1>4. TypeOK'
  BY <1>1, <1>3 DEF IInv, TypeOK, CheckDevice, core
<1>5. GoodModule'
  BY <1>1, <1>2 DEF GoodModule, Quiet, CheckDevice, core
<1>6. \A e \in Devices : HasFile(e)' <=> HasFile(e)
  BY <1>1, <1>3 DEF HasFile, CheckDevice
<1>7. \A n \in nodes : n.of \in Devices
  BY DEF IInv, TypeOK, Node
<1>8. GoodNodes'
  BY <1>6, <1>7 DEF IInv, GoodNodes, CheckDevice
<1>9. GoodCdevs'
  BY <1>1, <1>3 DEF IInv, GoodCdevs, LeftBehind, CheckDevice, core
<1>10. Covered' = Covered
  BY <1>1, <1>3, CoveredSame
<1>11. GoodCount'
  BY <1>1, <1>10 DEF IInv, GoodCount, CheckDevice, core
<1>12. GoodIds'
  BY <1>1, <1>3 DEF IInv, GoodIds, CheckDevice, core
<1> QED BY <1>4, <1>5, <1>8, <1>9, <1>11, <1>12 DEF IInv

LEMMA CountGood ==
  ASSUME IInv, NEW d \in Devices, Count(d)
  PROVE  IInv'
<1>1. /\ at' \in [Devices -> Steps]
      /\ at'[d] = IF variant = "006" THEN "sysfs" ELSE "bound"
      /\ \A e \in Devices : e # d => at'[e] = at[e]
  BY Advanced DEF IInv, Count, Steps
<1>2. module = "loaded" /\ \A e \in Devices : e # d => Quiet(e)
  BY Alone DEF Count, Quiet
<1>3. at[d] = "count" /\ total_devices \in Nat /\ total_devices' = total_devices + 1
  BY DEF IInv, TypeOK, Count
<1>4. TypeOK'
  BY <1>1, <1>3 DEF IInv, TypeOK, Count, core
<1>5. GoodModule'
  BY <1>1, <1>2 DEF GoodModule, Quiet, Count, core
<1>6. \A e \in Devices : HasFile(e)' <=> HasFile(e)
  BY <1>1, <1>3 DEF HasFile, Count
<1>7. \A n \in nodes : n.of \in Devices
  BY DEF IInv, TypeOK, Node
<1>8. GoodNodes'
  BY <1>6, <1>7 DEF IInv, GoodNodes, Count
<1>9. GoodCdevs'
  BY <1>1, <1>3 DEF IInv, GoodCdevs, LeftBehind, Count, core
<1>10. Cardinality(Covered)' = Cardinality(Covered) + 1
  BY <1>1, <1>3, CoveredMore
<1>11. GoodCount'
  BY <1>1, <1>3, <1>10, CoveredFinite DEF IInv, GoodCount, Count, core
<1>12. GoodIds'
  BY <1>1, <1>3 DEF IInv, GoodIds, Count, core
<1> QED BY <1>4, <1>5, <1>8, <1>9, <1>11, <1>12 DEF IInv

(* Device d and its file are gone, and the files of the others stay.       *)
LEMMA FileGone ==
  ASSUME IInv, NEW d \in Devices, HasFile(d), nodes' = Without(num[d]),
         at'[d] = "unbound", \A e \in Devices : e # d => at'[e] = at[e],
         UNCHANGED <<num, device_pcd>>
  PROVE  GoodNodes'
<1>1. nodes' = {n \in nodes : n.of # d}
  BY OthersKeepFiles
<1>2. ~HasFile(d)' /\ \A e \in Devices : e # d => (HasFile(e)' <=> HasFile(e))
  BY DEF HasFile
<1>3. \A n \in nodes : n.of \in Devices
  BY DEF IInv, TypeOK, Node
<1>4. \A n \in nodes' : HasFile(n.of)' /\ n.num = num'[n.of]
  BY <1>1, <1>2, <1>3 DEF IInv, GoodNodes
<1>5. \A e \in Devices : HasFile(e)' => \E n \in nodes' : n.of = e
  BY <1>1, <1>2 DEF IInv, GoodNodes
<1>6. \A m, n \in nodes' : m.num = n.num => m.of = n.of
  BY <1>1 DEF IInv, GoodNodes
<1> QED BY <1>4, <1>5, <1>6 DEF GoodNodes

(* A file that gets its attributes is otherwise the same.                  *)
LEMMA FileMarked ==
  ASSUME NEW n \in Node, NEW b \in BOOLEAN
  PROVE  LET m == [n EXCEPT !.attrs = b]
         IN  m \in Node /\ m.of = n.of /\ m.num = n.num
BY DEF Node

(* Without its attributes the probe of 006 fails: the file goes, the cdev  *)
(* and the count stay.                                                     *)
LEMMA CreateFilesGood ==
  ASSUME IInv, NEW d \in Devices, CreateFiles(d)
  PROVE  IInv'
<1>1. /\ at' \in [Devices -> Steps] /\ at'[d] \in {"bound", "unbound"}
      /\ \A e \in Devices : e # d => at'[e] = at[e]
  BY Advanced DEF IInv, CreateFiles, Steps
<1>2. module = "loaded" /\ \A e \in Devices : e # d => Quiet(e)
  BY Alone DEF CreateFiles, Quiet
<1>3. at[d] = "sysfs" /\ variant = "006" /\ HasFile(d)
  BY DEF IInv, GoodCount, CreateFiles, HasFile
<1>4. UNCHANGED <<variant, reg, module, present, num, cdevs, device_pcd, total_devices>>
  BY DEF CreateFiles, core
<1>5. GoodModule'
  BY <1>1, <1>2, <1>4 DEF GoodModule, Quiet
<1>6. GoodIds'
  BY <1>3, <1>4 DEF GoodIds
<1>7. total_devices \in Nat /\ total_devices >= Cardinality(Covered)
  BY DEF IInv, TypeOK, GoodCount
<1>8. \A e \in Devices : at'[e] = "sysfs" => variant' = "006"
  BY <1>3, <1>4
<1>9. \A n \in nodes : n.of \in Devices
  BY DEF IInv, TypeOK, Node
<1>10. CASE /\ at'[d] = "bound" /\ excused' = excused
           /\ nodes' = {[n EXCEPT !.attrs = @ \/ n.of = device_pcd] : n \in nodes}
  <2> DEFINE marked(n) == [n EXCEPT !.attrs = @ \/ n.of = device_pcd]
  <2>1. ASSUME NEW n \in nodes
        PROVE  marked(n) \in Node /\ marked(n).of = n.of /\ marked(n).num = n.num
    <3>1. n \in Node /\ (n.attrs \/ n.of = device_pcd) \in BOOLEAN
      BY DEF IInv, TypeOK
    <3> QED BY <3>1, FileMarked
  <2>2. nodes' = {marked(n) : n \in nodes}
    BY <1>10
  <2> HIDE DEF marked
  <2>3. \A m \in nodes' : /\ m \in Node
                         /\ \E n \in nodes : n.of = m.of /\ n.num = m.num
    BY <2>1, <2>2
  <2>4. \A n \in nodes : \E m \in nodes' : m.of = n.of
    BY <2>1, <2>2
  <2>5. TypeOK'
    BY <1>1, <1>4, <1>10, <2>3 DEF IInv, TypeOK
  <2>6. \A e \in Devices : HasFile(e)' <=> HasFile(e)
    BY <1>1, <1>3, <1>4, <1>10 DEF HasFile
  <2>7. GoodNodes'
    BY <1>4, <1>9, <2>3, <2>4, <2>6 DEF IInv, GoodNodes
  <2>8. GoodCdevs'
    BY <1>1, <1>3, <1>4, <1>10 DEF IInv, GoodCdevs, LeftBehind
  <2>9. Covered' = Covered
    BY <1>1, <1>3, <1>10, CoveredSame
  <2>10. GoodCount'
    BY <1>3, <1>4, <1>7, <1>8, <2>9 DEF GoodCount
  <2> QED BY <1>5, <1>6, <2>5, <2>7, <2>8, <2>10 DEF IInv
<1>11. CASE /\ at'[d] = "unbound" /\ excused' = excused \union {d}
           /\ nodes' = Without(num[d])
  <2>1. TypeOK'
    BY <1>1, <1>4, <1>11 DEF IInv, TypeOK, Without
  <2>2. GoodNodes'
    BY <1>1, <1>3, <1>4, <1>11, FileGone
  <2>3. GoodCdevs'
    BY <1>1, <1>3, <1>4, <1>11 DEF IInv, GoodCdevs, LeftBehind
  <2>4. Cardinality(Covered)' = Cardinality(Covered) - 1
    BY <1>1, <1>3, <1>11, CoveredLess
  <2>5. GoodCount'
    BY <1>3, <1>4, <1>7, <1>8, <2>4, CoveredFinite DEF GoodCount
  <2> QED BY <1>5, <1>6, <2>1, <2>2, <2>3, <2>5 DEF IInv
<1>12. at \in [Devices -> Steps]
  BY DEF IInv, TypeOK
<1> QED BY <1>10, <1>11, <1>12 DEF CreateFiles

(* Remove undoes what probe did, and nothing else.                         *)
LEMMA RemoveGood ==
  ASSUME IInv, ~Concurrent, NEW d \in Devices, Remove(d)
  PROVE  IInv'
<1>1. /\ at' \in [Devices -> Steps] /\ at'[d] = "unbound"
      /\ \A e \in Devices : e # d => at'[e] = at[e]
  BY Advanced DEF IInv, Remove, Steps
<1>2. at[d] = "bound" /\ HasFile(d) /\ \A e \in Devices : Quiet(e)
  BY DEF Remove, MayStart, HasFile, Quiet
<1>3. /\ Cardinality(Covered)' = Cardinality(Covered) - 1
      /\ Cardinality(Covered) >= 1
  BY <1>1, <1>2, CoveredLess
<1>4. /\ total_devices \in Nat /\ total_devices >= Cardinality(Covered)
      /\ total_devices' = total_devices - 1
  BY DEF IInv, TypeOK, GoodCount, Remove
<1>5. total_devices' \in Nat
  BY <1>3, <1>4, CoveredFinite
<1>6. TypeOK'
  BY <1>1, <1>5 DEF IInv, TypeOK, Remove, Without, core
<1>7. GoodModule'
  BY <1>1, <1>2 DEF IInv, GoodModule, Quiet, Remove, core
<1>8. GoodNodes'
  BY <1>1, <1>2, FileGone DEF Remove
<1>9. GoodCdevs'
  BY <1>1, <1>2 DEF IInv, GoodCdevs, LeftBehind, Remove, core
<1>10. GoodCount'
  BY <1>1, <1>3, <1>4, CoveredFinite DEF IInv, GoodCount, Remove, core
<1>11. GoodIds'
  BY <1>1 DEF IInv, GoodIds, Remove, Without, core
<1> QED BY <1>6, <1>7, <1>8, <1>9, <1>10, <1>11 DEF IInv

-----------------------------------------------------------------------------
(* The results.                                                            *)

LEMMA NextGood == ~Concurrent /\ IInv /\ [Next]_vars => IInv'
<1> SUFFICES ASSUME ~Concurrent, IInv, [Next]_vars PROVE IInv'
  OBVIOUS
<1>1. CASE LoadWithoutClass \/ Load \/ BeginExit \/ EndExit
  BY <1>1, LoadWithoutClassGood, LoadGood, ExitGood
<1>2. ASSUME NEW d \in Devices,
             \/ AddDevice(d) \/ TakeDevice(d)
             \/ BeginProbe(d) \/ CdevAdd(d) \/ DeviceCreate(d) \/ CheckDevice(d)
             \/ Count(d) \/ CreateFiles(d) \/ Remove(d)
      PROVE  IInv'
  BY <1>2, PresentGood, BeginProbeGood, CdevAddGood, DeviceCreateGood, CheckDeviceGood,
     CountGood, CreateFilesGood, RemoveGood
<1>3. CASE UNCHANGED vars
  <2>1. TypeOK' /\ GoodModule' /\ GoodNodes' /\ GoodCdevs'
    BY <1>3 DEF IInv, TypeOK, GoodModule, GoodNodes, GoodCdevs, Quiet, HasFile,
                LeftBehind, vars
  <2>2. GoodCount' /\ GoodIds'
    BY <1>3 DEF IInv, GoodCount, GoodIds, Covered, vars
  <2> QED BY <2>1, <2>2 DEF IInv
<1> QED BY <1>1, <1>2, <1>3 DEF Next

(* The inductive invariant holds of drivers probed one device at a time.   *)
THEOREM Invariant == ASSUME ~Concurrent PROVE Spec => []IInv
<1>1. Init => IInv
  BY InitGood
<1>2. IInv /\ [Next]_vars => IInv'
  BY NextGood
<1> QED BY <1>1, <1>2, PTL DEF Spec

(* Every variable keeps its type; the count of devices never goes below 0. *)
THEOREM Typing == ASSUME ~Concurrent PROVE Spec => []TypeOK
<1>1. IInv => TypeOK
  BY DEF IInv
<1> QED BY <1>1, Invariant, PTL

(* A bound device has a device file and a number of its own                *)
(* (pcd_platform_driver.c:311-321, pcd_platform_driver_dt.c:366-383).      *)
THEOREM Ownership == ASSUME ~Concurrent PROVE Spec => []OwnFile
<1>1. IInv => OwnFile
  BY DEF IInv, TypeOK, GoodNodes, GoodCdevs, HasFile, OwnFile
<1> QED BY <1>1, Invariant, PTL

(* A failed probe and a remove leave nothing behind, except a cdev in 006  *)
(* (pcd_platform_driver.c:226-247).                                        *)
THEOREM Cleanup == ASSUME ~Concurrent PROVE Spec => []NothingLeft
<1>1. IInv => NothingLeft
  BY DEF IInv, TypeOK, Node, GoodNodes, GoodCdevs, HasFile, NothingLeft
<1> QED BY <1>1, Invariant, PTL

(* The count is that of the bound devices (pcd_platform_driver_dt.c:385).  *)
THEOREM Counting == ASSUME ~Concurrent PROVE Spec => []Counted
<1>1. ASSUME IInv PROVE Counted
  <2> SUFFICES ASSUME module # "unloaded", variant # "006"
               PROVE  total_devices = Cardinality({d \in Devices : at[d] = "bound"})
    BY DEF Counted
  <2>1. Covered = {d \in Devices : at[d] = "bound"}
    BY <1>1 DEF IInv, GoodCount, Covered
  <2> QED BY <1>1, <2>1 DEF IInv, GoodCount
<1> QED BY <1>1, Invariant, PTL

(* An unloaded module has no device file, and no cdev but those that 006   *)
(* left (pcd_platform_driver.c:384-393).                                   *)
THEOREM Unloading == ASSUME ~Concurrent PROVE Spec => []UnloadedClean
<1>1. ASSUME IInv PROVE UnloadedClean
  <2> SUFFICES ASSUME module = "unloaded" PROVE UnloadedClean
    BY DEF UnloadedClean
  <2>1. reg = {} /\ \A d \in Devices : at[d] = "unbound"
    BY <1>1 DEF IInv, GoodModule
  <2>2. nodes = {}
    BY <1>1, <2>1 DEF IInv, TypeOK, Node, GoodNodes, HasFile
  <2>3. \A d \in cdevs : LeftBehind(d)
    BY <1>1, <2>1 DEF IInv, TypeOK, GoodCdevs
  <2> QED BY <2>1, <2>2, <2>3 DEF UnloadedClean
<1> QED BY <1>1, Invariant, PTL

(* In 004, where the number comes from the device's id, a probe fails only *)
(* when a kernel call does (pcd_platform_driver.c:294-321): what 005 and   *)
(* 006, which number by the count, do not keep.                            *)
THEOREM IdsGiveFiles ==
  ASSUME ~Concurrent, Variants = {"004"} PROVE Spec => DetectedGetsFile
<1>1. ASSUME IInv, [Next]_vars
      PROVE  [\A d \in Devices :
                at[d] = "check" /\ at'[d] = "unbound" => d \in excused]_vars
  <2> SUFFICES ASSUME NEW d \in Devices, at[d] = "check", at'[d] = "unbound"
               PROVE  d \in excused
    OBVIOUS
  <2>1. variant = "004"
    BY <1>1 DEF IInv, TypeOK
  <2>2. at \in [Devices -> Steps]
    BY <1>1 DEF IInv, TypeOK
  <2>3. ASSUME NEW e \in Devices,
               \/ BeginProbe(e) \/ CdevAdd(e) \/ DeviceCreate(e) \/ Count(e)
               \/ CreateFiles(e) \/ Remove(e) \/ AddDevice(e) \/ TakeDevice(e)
        PROVE  FALSE
    BY <2>2, <2>3 DEF BeginProbe, CdevAdd, DeviceCreate, Count, CreateFiles, Remove,
                      AddDevice, TakeDevice, probed
  <2>4. ASSUME NEW e \in Devices, CheckDevice(e)
        PROVE  e = d /\ device_pcd = NoDevice
    BY <2>2, <2>4 DEF CheckDevice
  <2>5. ~(LoadWithoutClass \/ Load \/ BeginExit \/ EndExit)
    BY DEF LoadWithoutClass, Load, BeginExit, EndExit, probed
  <2>6. Next
    BY <1>1, <2>2 DEF vars
  <2>7. \E e \in Devices : CheckDevice(e)
    BY <2>3, <2>5, <2>6 DEF Next
  <2>8. device_pcd = NoDevice
    BY <2>4, <2>7
  <2> QED BY <1>1, <2>1, <2>8 DEF IInv, GoodIds
<1> QED BY <1>1, Invariant, PTL DEF Spec, DetectedGetsFile

=============================================================================

------------------------------ MODULE MCPcdFile ------------------------------
(* Instances of PcdFile for TLC.                                           *)
EXTENDS PcdFile, TLC

CONSTANTS dro, dwo, drw, f1, f2, t1, t2

(* One device of each permission, of unequal sizes.                        *)
MCSize == [d \in Devices |-> IF d = drw THEN 2 ELSE 1]
MCPerm == [d \in Devices |-> CASE d = drw -> "RDWR"
                                [] d = dro -> "RDONLY"
                                [] d = dwo -> "WRONLY"]

(* Two tasks that share one file, as after fork or between threads.        *)
SharedUsers == f1 :> {t1, t2}

(* Every file has one user: two files, opened on the same device or not.   *)
PrivateUsers == (f1 :> {t1}) @@ (f2 :> {t2})

(* Seeks by one either way: below the start and beyond the end are reached. *)
MCOffsets == -1 .. 1
=============================================================================

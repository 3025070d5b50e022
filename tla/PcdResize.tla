------------------------------ MODULE PcdResize ------------------------------
(***************************************************************************)
(* The file operations of the pseudo character drivers for platform        *)
(* devices (004, 005_pcd_platform_driver_dt, 006_pcd_sysfs) on one bound   *)
(* device, and the attribute max_size of 006, through which its memory is  *)
(* replaced by memory of another size while files are open on it.          *)
(*                                                                         *)
(* Nothing is locked. A read or a write loads the size, then the buffer,   *)
(* and copies; a store writes the size, frees the buffer and allocates the *)
(* next. One process stores at a time. Every task has a file of its own    *)
(* (PcdFile has the shared ones). What a copy does to memory that was      *)
(* freed under it is not followed.                                         *)
(*                                                                         *)
(* Definitions marked "mutant" are wrong on purpose: they show that the    *)
(* property named there depends on the code of the definition that follows.*)
(***************************************************************************)
EXTENDS Integers

CONSTANTS
  Descriptions, \* the platform data or device tree nodes of the device
  Tasks,        \* the processes with a file of the device
  Sizes,        \* the sizes stored in max_size
  Counts,       \* the byte counts user space asks for
  Offsets       \* the offsets user space seeks to

RDONLY == 1
WRONLY == 16
RDWR == 17

Description == [tree : BOOLEAN, size : Nat, perm : {RDONLY, WRONLY, RDWR}]

ASSUME DescriptionAssumption == \A x \in Descriptions : x \in Description
ASSUME InputAssumption ==
  Sizes \subseteq Int /\ Counts \subseteq Nat /\ Offsets \subseteq Int

VARIABLES
  dev,    \* pdata.size and pdata.perm; the buffer and its length
  store,  \* how far store_max_size is, and what it stores
  file,   \* file[t]: the file of task t: f_mode and f_pos
  call,   \* call[t]: its read or write, with the handler's locals, and
          \* whether no store has been under way since it began
  ret     \* ret[t]: what its last call returned

vars == <<dev, store, file, call, ret>>

EPERM == -1
ENOMEM == -12
EFAULT == -14
EINVAL == -22

FMODE_READ == "r"
FMODE_WRITE == "w"
AccModes == {{FMODE_READ}, {FMODE_WRITE}, {FMODE_READ, FMODE_WRITE}}

Closed == [mode |-> {}, pos |-> 0]
Buffers == {"live", "freed", "null"}
Idle == [op |-> "idle", at |-> "done", pos |-> 0, max_size |-> 0, count |-> 0,
         buffer |-> "null", clean |-> TRUE]

TypeOK ==
  /\ dev \in [size : Int, perm : Nat, len : Nat, buffer : Buffers]
  /\ store \in [at : {"idle", "free", "alloc"}, size : Int]
  /\ file \in [Tasks -> [mode : AccModes \union {{}}, pos : Nat]]
  /\ call \in [Tasks -> [op : {"idle", "read", "write"},
                         at : {"done", "load", "copy"}, pos : Nat,
                         max_size : Int, count : Int, buffer : Buffers,
                         clean : BOOLEAN]]
  /\ ret \in [Tasks -> Int]

(* A device tree node's permission is read from its property org,size.     *)
Permission(x) == IF x.tree THEN x.size ELSE x.perm

Init ==
  /\ \E x \in Descriptions :
       dev = [size |-> x.size, perm |-> Permission(x), len |-> x.size,
              buffer |-> "live"]
  /\ store = [at |-> "idle", size |-> 0]
  /\ file = [t \in Tasks |-> Closed]
  /\ call = [t \in Tasks |-> Idle]
  /\ ret = [t \in Tasks |-> 0]

IsOpen(t) == file[t].mode # {}

Return(t, r) ==
  /\ call' = [call EXCEPT ![t] = Idle]
  /\ ret' = [ret EXCEPT ![t] = r]

-----------------------------------------------------------------------------
(* open, release and lseek                                                 *)

check_permission(dev_perm, acc_mode) ==
  \/ dev_perm = RDWR
  \/ dev_perm = RDONLY /\ FMODE_READ \in acc_mode /\ FMODE_WRITE \notin acc_mode
  \/ dev_perm = WRONLY /\ FMODE_WRITE \in acc_mode /\ FMODE_READ \notin acc_mode

Open(t, m) ==
  /\ ~IsOpen(t)
  /\ IF check_permission(dev.perm, m)
     THEN file' = [file EXCEPT ![t] = [mode |-> m, pos |-> 0]] /\ Return(t, 0)
     ELSE Return(t, EPERM) /\ UNCHANGED file
  /\ UNCHANGED <<dev, store>>

Release(t) ==
  /\ IsOpen(t) /\ call[t] = Idle
  /\ file' = [file EXCEPT ![t] = Closed]
  /\ Return(t, 0)
  /\ UNCHANGED <<dev, store>>

(* mutant for DevReadTypeOK *)
SeekBefore(temp) == temp <= dev.size
SeekAllowed(temp) == temp <= dev.size /\ temp >= 0

(* The position is the task's own, so a seek is one step.                  *)
Seek(t, base, offset) ==
  LET temp == base + offset
  IN /\ IsOpen(t) /\ call[t] = Idle
     /\ IF SeekAllowed(temp)
        THEN file' = [file EXCEPT ![t].pos = temp] /\ Return(t, temp)
        ELSE Return(t, EINVAL) /\ UNCHANGED file
     /\ UNCHANGED <<dev, store>>

-----------------------------------------------------------------------------
(* read and write                                                          *)

LoadSize(t, op, mode, count) ==
  /\ call[t] = Idle /\ mode \in file[t].mode
  /\ call' = [call EXCEPT ![t] =
       [op |-> op, at |-> "load", pos |-> file[t].pos, max_size |-> dev.size,
        count |-> count, buffer |-> "null", clean |-> store.at = "idle"]]
  /\ UNCHANGED <<dev, store, file, ret>>

BeginRead(t, count) == LoadSize(t, "read", FMODE_READ, count)
BeginWrite(t, count) == LoadSize(t, "write", FMODE_WRITE, count)

(* mutant for BufferHolds *)
Uncut(pos, count, max_size) == count

(* Past the end, where a smaller size may leave a file, the count becomes  *)
(* negative: as a size_t, more than anybody can copy.                      *)
Cut(pos, count, max_size) ==
  IF pos + count > max_size THEN max_size - pos ELSE count

(* The buffer that is copied is the one the device has at this step.       *)
LoadBuffer(t) ==
  LET count == Cut(call[t].pos, call[t].count, call[t].max_size)
  IN /\ call[t].at = "load"
     /\ IF call[t].op = "write" /\ count = 0
        THEN Return(t, ENOMEM)
        ELSE /\ call' = [call EXCEPT ![t].at = "copy", ![t].count = count,
                                   ![t].buffer = dev.buffer]
             /\ UNCHANGED ret
     /\ UNCHANGED <<dev, store, file>>

(* A copy through a null pointer ends the task, inside the call.           *)
Mapped(t) == call[t].buffer # "null" \/ call[t].count = 0

EndTransfer(t) ==
  /\ call[t].at = "copy" /\ call[t].count >= 0 /\ Mapped(t)
  /\ file' = [file EXCEPT ![t].pos = call[t].pos + call[t].count]
  /\ Return(t, call[t].count)
  /\ UNCHANGED <<dev, store>>

(* The copy meets a fault in user space, or was of a negative count.       *)
Fault(t) ==
  /\ call[t].at = "copy" /\ call[t].count # 0
  /\ call[t].count < 0 \/ Mapped(t)
  /\ Return(t, EFAULT)
  /\ UNCHANGED <<dev, store, file>>

-----------------------------------------------------------------------------
(* store_max_size                                                          *)

Disturbed == [t \in Tasks |-> [call[t] EXCEPT !.clean = call[t] = Idle]]

StoreSize(result) ==
  /\ store.at = "idle"
  /\ store' = [at |-> "free", size |-> result]
  /\ dev' = [dev EXCEPT !.size = result]
  /\ call' = Disturbed
  /\ UNCHANGED <<file, ret>>

FreeBuffer ==
  /\ store.at = "free"
  /\ store' = [store EXCEPT !.at = "alloc"]
  /\ dev' = [dev EXCEPT !.buffer = IF @ = "null" THEN "null" ELSE "freed"]
  /\ call' = Disturbed
  /\ UNCHANGED <<file, ret>>

(* mutant for CopiesInBuffer *)
AllocateAsBefore ==
  /\ store.at = "alloc"
  /\ store' = [at |-> "idle", size |-> 0]
  /\ dev' = [dev EXCEPT !.buffer = "live"]
  /\ call' = Disturbed
  /\ UNCHANGED <<file, ret>>

(* Without memory, or for a negative size, devm_kzalloc returns NULL, which *)
(* the code takes for a buffer: NULL is no error pointer.                  *)
AllocateBuffer ==
  /\ store.at = "alloc"
  /\ store' = [at |-> "idle", size |-> 0]
  /\ \/ /\ store.size >= 0
        /\ dev' = [dev EXCEPT !.buffer = "live", !.len = store.size]
     \/ /\ store.size # 0
        /\ dev' = [dev EXCEPT !.buffer = "null", !.len = 0]
  /\ call' = Disturbed
  /\ UNCHANGED <<file, ret>>

-----------------------------------------------------------------------------
Issue(t) ==
  \/ \E m \in AccModes : Open(t, m)
  \/ Release(t)
  \/ \E offset \in Offsets, base \in {0, file[t].pos, dev.size} :
       Seek(t, base, offset)
  \/ \E count \in Counts : BeginRead(t, count) \/ BeginWrite(t, count)

Proceed(t) == LoadBuffer(t) \/ EndTransfer(t) \/ Fault(t)

StoreProceeds == FreeBuffer \/ AllocateBuffer

Next ==
  \/ \E t \in Tasks : Issue(t) \/ Proceed(t)
  \/ \E result \in Sizes : StoreSize(result)
  \/ StoreProceeds

Spec == Init /\ [][Next]_vars

-----------------------------------------------------------------------------
(* Properties                                                              *)

(* A read or write that no store overlaps copies inside the device's       *)
(* buffer, however stores, seeks and calls followed each other before: it  *)
(* was cut against the size the buffer has, and behind the end of a device *)
(* that shrank it is refused (pcd_syscalls.c:51-56, 83-95;                 *)
(* pcd_platform_driver_dt_sysfs.c:64-67). The exception is a store that    *)
(* found no memory: the code goes on with a null pointer (line 69).        *)
CopiesInBuffer ==
  \A t \in Tasks :
    call[t].at = "copy" /\ call[t].clean /\ call[t].count > 0 =>
      \/ call[t].buffer = "live" /\ call[t].pos + call[t].count <= dev.len
      \/ call[t].buffer = "null" /\ dev.size > 0
=============================================================================

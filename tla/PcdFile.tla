------------------------------- MODULE PcdFile -------------------------------
(***************************************************************************)
(* The file operations of the pseudo character driver for several devices  *)
(* (003_pseudo_char_driver_multiple/pcd_n.c): open with its permission     *)
(* check, lseek, read, write and release, called by concurrent tasks on    *)
(* struct files they may share.                                            *)
(*                                                                         *)
(* The kernel takes no lock around the operations of a character device.   *)
(* It hands read and write a private copy of the file position and stores  *)
(* the copy back when the call succeeds, so a call is several steps here:  *)
(* it begins (the position is copied, the count is cut at the end of the   *)
(* device), moves its bytes one by one, and returns.                       *)
(*                                                                         *)
(* Definitions marked "mutant" are wrong on purpose: they show that the    *)
(* property named there depends on the code of the definition that follows.*)
(***************************************************************************)
EXTENDS Integers

CONSTANTS
  Devices,   \* the devices of pcdrv_data.pcdev_data
  Size,      \* Size[d]: the bytes of memory of device d
  Perm,      \* Perm[d]: the permission configured for device d
  Files,     \* the struct files processes may have open
  Tasks,     \* the threads that issue system calls
  Users,     \* Users[f]: the tasks that hold a descriptor of file f
  Byte,      \* the values of a byte
  Zero,      \* the byte the memory starts with and faults leave behind
  Counts,    \* the byte counts user space asks for
  Offsets,   \* the offsets user space seeks to
  None       \* no device, no file

ASSUME SizeAssumption == Size \in [Devices -> Nat]
ASSUME PermAssumption == Perm \in [Devices -> {"RDONLY", "WRONLY", "RDWR"}]
ASSUME UsersAssumption == Users \in [Files -> SUBSET Tasks]
ASSUME ByteAssumption == Zero \in Byte
ASSUME InputAssumption == Counts \subseteq Nat /\ Offsets \subseteq Int
ASSUME NoneAssumption == None \notin Devices /\ None \notin Files

VARIABLES
  mem,    \* mem[d][i]: byte i of the memory of device d
  file,   \* file[f]: private_data, f_mode and f_pos of a struct file
  call,   \* call[t]: the call task t is in, with the locals of the handler
  ret     \* ret[t]: what the last call of task t returned

vars == <<mem, file, call, ret>>

(* What the handlers return when they refuse: the kernel's error numbers.  *)
EPERM == -1
ENOMEM == -12
EFAULT == -14
EINVAL == -22

(* f_mode of a file opened O_RDONLY, O_WRONLY and O_RDWR.                  *)
FMODE_READ == "r"
FMODE_WRITE == "w"
AccModes == {{FMODE_READ}, {FMODE_WRITE}, {FMODE_READ, FMODE_WRITE}}

Closed == [dev |-> None, mode |-> {}, pos |-> 0]
Idle == [op |-> "idle", file |-> None, pos |-> 0, count |-> 0, done |-> 0]

FileType ==
  [dev : Devices \union {None}, mode : AccModes \union {{}}, pos : Nat]

CallType ==
  [op : {"idle", "read", "write", "seek", "sought"},
   file : Files \union {None}, pos : Nat, count : Nat, done : Nat]

TypeOK ==
  /\ DOMAIN mem = Devices
  /\ \A d \in Devices : mem[d] \in [0 .. Size[d] - 1 -> Byte]
  /\ file \in [Files -> FileType]
  /\ call \in [Tasks -> CallType]
  /\ ret \in [Tasks -> Int]

Init ==
  /\ mem = [d \in Devices |-> [i \in 0 .. Size[d] - 1 |-> Zero]]
  /\ file = [f \in Files |-> Closed]
  /\ call = [t \in Tasks |-> Idle]
  /\ ret = [t \in Tasks |-> 0]

IsOpen(f) == file[f].dev # None
Busy(f) == \E t \in Tasks : call[t].file = f

(* A call returns r to user space.                                         *)
Return(t, r) ==
  /\ call' = [call EXCEPT ![t] = Idle]
  /\ ret' = [ret EXCEPT ![t] = r]

-----------------------------------------------------------------------------
(* Opening and closing *)

(* mutant for ReadOnlyUnchanged *)
ReadOnlyWritable(dev_perm, acc_mode) ==
  \/ dev_perm # "WRONLY"
  \/ FMODE_WRITE \in acc_mode /\ FMODE_READ \notin acc_mode

(* mutant for WriteOnlyUnread *)
WriteOnlyReadable(dev_perm, acc_mode) ==
  \/ dev_perm # "RDONLY"
  \/ FMODE_READ \in acc_mode /\ FMODE_WRITE \notin acc_mode

check_permission(dev_perm, acc_mode) ==
  \/ dev_perm = "RDWR"
  \/ /\ dev_perm = "RDONLY"
     /\ FMODE_READ \in acc_mode /\ FMODE_WRITE \notin acc_mode
  \/ /\ dev_perm = "WRONLY"
     /\ FMODE_WRITE \in acc_mode /\ FMODE_READ \notin acc_mode

(* The kernel keeps the file, at position 0, only when pcd_open returns 0. *)
Open(t, f, d, m) ==
  /\ t \in Users[f] /\ call[t] = Idle /\ ~IsOpen(f)
  /\ IF check_permission(Perm[d], m)
     THEN /\ file' = [file EXCEPT ![f] = [dev |-> d, mode |-> m, pos |-> 0]]
          /\ Return(t, 0)
     ELSE /\ Return(t, EPERM)
          /\ UNCHANGED file
  /\ UNCHANGED mem

(* A running call holds a reference: release waits for the last one.       *)
Release(t, f) ==
  /\ t \in Users[f] /\ call[t] = Idle /\ IsOpen(f) /\ ~Busy(f)
  /\ file' = [file EXCEPT ![f] = Closed]
  /\ Return(t, 0)
  /\ UNCHANGED mem

-----------------------------------------------------------------------------
(* lseek reads f_pos, checks the new position and stores it; what it       *)
(* returns it reads from the file again.                                   *)

SeekBase(f, whence) ==
  CASE whence = "SEEK_SET" -> 0
    [] whence = "SEEK_CUR" -> file[f].pos
    [] whence = "SEEK_END" -> Size[file[f].dev]

(* mutant for PositionInRange *)
SeekBeyond(d, temp) == temp >= 0
(* mutant for TypeOK *)
SeekBefore(d, temp) == temp <= Size[d]
SeekAllowed(d, temp) == temp <= Size[d] /\ temp >= 0

BeginSeek(t, f, offset, whence) ==
  /\ t \in Users[f] /\ call[t] = Idle /\ IsOpen(f)
  /\ LET temp == SeekBase(f, whence) + offset
     IN IF SeekAllowed(file[f].dev, temp)
        THEN /\ call' = [call EXCEPT ![t] = [op |-> "seek", file |-> f,
                                   pos |-> temp, count |-> 0, done |-> 0]]
             /\ UNCHANGED ret
        ELSE Return(t, EINVAL)
  /\ UNCHANGED <<mem, file>>

StoreSeek(t) ==
  /\ call[t].op = "seek"
  /\ file' = [file EXCEPT ![call[t].file].pos = call[t].pos]
  /\ call' = [call EXCEPT ![t].op = "sought"]
  /\ UNCHANGED <<mem, ret>>

ReturnSeek(t) ==
  /\ call[t].op = "sought"
  /\ Return(t, file[call[t].file].pos)
  /\ UNCHANGED <<mem, file>>

-----------------------------------------------------------------------------
(* read and write *)

(* mutant for TransferInBounds *)
Uncut(d, pos, count) == count

(* The count the handlers go on with: what is left of the device.          *)
Cut(d, pos, count) ==
  IF pos + count > Size[d] THEN Size[d] - pos ELSE count

Enter(t, f, op, c) ==
  /\ call' = [call EXCEPT ![t] = [op |-> op, file |-> f,
                                  pos |-> file[f].pos, count |-> c, done |-> 0]]
  /\ UNCHANGED ret

BeginRead(t, f, count) ==
  /\ t \in Users[f] /\ call[t] = Idle /\ IsOpen(f)
  /\ FMODE_READ \in file[f].mode
  /\ Enter(t, f, "read", Cut(file[f].dev, file[f].pos, count))
  /\ UNCHANGED <<mem, file>>

BeginWrite(t, f, count) ==
  /\ t \in Users[f] /\ call[t] = Idle /\ IsOpen(f)
  /\ FMODE_WRITE \in file[f].mode
  /\ LET c == Cut(file[f].dev, file[f].pos, count)
     IN IF c = 0 THEN Return(t, ENOMEM) ELSE Enter(t, f, "write", c)
  /\ UNCHANGED <<mem, file>>

(* The copies to and from user space, byte by byte: they may sleep.        *)
CopyToUser(t) ==
  /\ call[t].op = "read" /\ call[t].done < call[t].count
  /\ call' = [call EXCEPT ![t].done = @ + 1]
  /\ UNCHANGED <<mem, file, ret>>

CopyFromUser(t) ==
  LET d == file[call[t].file].dev
      i == call[t].pos + call[t].done
  IN /\ call[t].op = "write" /\ call[t].done < call[t].count
     /\ \E b \in Byte : mem' = [mem EXCEPT ![d][i] = b]
     /\ call' = [call EXCEPT ![t].done = @ + 1]
     /\ UNCHANGED <<file, ret>>

(* A fault in user space ends the call with the position where it was. The *)
(* kernel fills what copy_from_user could not copy with zeroes.            *)
ReadFault(t) ==
  /\ call[t].op = "read" /\ call[t].done < call[t].count
  /\ Return(t, EFAULT)
  /\ UNCHANGED <<mem, file>>

WriteFault(t) ==
  LET d == file[call[t].file].dev
      lost == call[t].pos + call[t].done .. call[t].pos + call[t].count - 1
  IN /\ call[t].op = "write" /\ call[t].done < call[t].count
     /\ mem' = [mem EXCEPT ![d] = [i \in DOMAIN @ |->
                                     IF i \in lost THEN Zero ELSE @[i]]]
     /\ Return(t, EFAULT)
     /\ UNCHANGED file

(* mutant for ImplementsCursor *)
EndTransferInPlace(t) ==
  /\ call[t].op \in {"read", "write"} /\ call[t].done = call[t].count
  /\ Return(t, call[t].count)
  /\ UNCHANGED <<mem, file>>

(* All bytes moved: *f_pos += count, which the kernel stores in the file.  *)
EndTransfer(t) ==
  /\ call[t].op \in {"read", "write"} /\ call[t].done = call[t].count
  /\ file' = [file EXCEPT ![call[t].file].pos = call[t].pos + call[t].count]
  /\ Return(t, call[t].count)
  /\ UNCHANGED mem

-----------------------------------------------------------------------------
Issue(t) ==
  \E f \in Files :
    \/ \E d \in Devices, m \in AccModes : Open(t, f, d, m)
    \/ Release(t, f)
    \/ \E o \in Offsets, w \in {"SEEK_SET", "SEEK_CUR", "SEEK_END"} :
         BeginSeek(t, f, o, w)
    \/ \E n \in Counts : BeginRead(t, f, n)
    \/ \E n \in Counts : BeginWrite(t, f, n)

Proceed(t) ==
  \/ StoreSeek(t)
  \/ ReturnSeek(t)
  \/ CopyToUser(t)
  \/ CopyFromUser(t)
  \/ ReadFault(t)
  \/ WriteFault(t)
  \/ EndTransfer(t)

Next == \E t \in Tasks : Issue(t) \/ Proceed(t)

Spec == Init /\ [][Next]_vars

-----------------------------------------------------------------------------
(* Properties *)

Transferring(t) == call[t].op \in {"read", "write"}

(* The bytes a read or write still has to move lie inside the memory of    *)
(* the device its file is open on, whatever other tasks do to the file     *)
(* position or the file meanwhile: the count was cut against a position    *)
(* that was itself in range (pcd_n.c:138-140, 171-173, 85-125).            *)
TransferInBounds ==
  \A t \in Tasks : Transferring(t) =>
    LET d == file[call[t].file].dev
    IN /\ d \in Devices
       /\ 0 <= call[t].pos
       /\ call[t].done <= call[t].count
       /\ call[t].pos + call[t].count <= Size[d]

(* Every open file stands inside its device or at its end, so the next     *)
(* read or write has a count that cannot go negative.                      *)
PositionInRange ==
  \A f \in Files : IsOpen(f) => file[f].pos \in 0 .. Size[file[f].dev]

(* The memory of a device configured RDONLY never changes: check_permission *)
(* at open time is enough, for as long as the file stays open.             *)
ReadOnlyUnchanged ==
  [][\A d \in Devices : Perm[d] = "RDONLY" => mem'[d] = mem[d]]_vars

(* A device configured WRONLY is never being read (pcd_n.c:207).           *)
WriteOnlyUnread ==
  \A t \in Tasks :
    call[t].op = "read" => Perm[file[call[t].file].dev] # "WRONLY"

-----------------------------------------------------------------------------
(* A file that one task uses is a cursor over the bytes of its device.     *)

CallsOn(f) == {t \in Tasks : call[t].file = f /\ Transferring(t)}

CursorOf(f) ==
  [dev |-> file[f].dev, mode |-> file[f].mode, start |-> file[f].pos,
   next |-> IF CallsOn(f) = {} THEN file[f].pos
            ELSE LET t == CHOOSE u \in CallsOn(f) : TRUE
                 IN call[t].pos + call[t].done]

(* What the last call of the file's one user returned, errors alike.       *)
ResultOf(f) ==
  LET t == CHOOSE u \in Users[f] : TRUE IN IF ret[t] < 0 THEN -1 ELSE ret[t]

Cursor == INSTANCE PcdCursor WITH cursor <- [f \in Files |-> CursorOf(f)],
                                  result <- [f \in Files |-> ResultOf(f)]

(* With one user per file, the driver implements PcdCursor: calls move     *)
(* consecutive bytes from where the file stands, a call that returns moves *)
(* the file by what it transferred, a call that faults does not move it.   *)
ImplementsCursor == Cursor!Spec
=============================================================================

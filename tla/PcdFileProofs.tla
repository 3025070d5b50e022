---------------------------- MODULE PcdFileProofs ----------------------------
(***************************************************************************)
(* Proofs about PcdFile, for any devices, sizes, permissions, files and    *)
(* tasks: the typing, the bounds of every transfer, what the permission    *)
(* check at open time buys for the rest of a file's life, and that a file  *)
(* with one user is the cursor of PcdCursor.                               *)
(***************************************************************************)
EXTENDS PcdFile, TLAPS

USE SizeAssumption, PermAssumption, UsersAssumption, ByteAssumption,
    InputAssumption, NoneAssumption

(* An open file passed the permission check and stands inside its device.  *)
GoodFile(f) ==
  IsOpen(f) =>
    /\ file[f].mode \in AccModes
    /\ check_permission(Perm[file[f].dev], file[f].mode)
    /\ file[f].pos <= Size[file[f].dev]

(* A running call holds an open file of the right mode, and what it works  *)
(* on was in range when it began.                                          *)
GoodCall(t) ==
  call[t].op # "idle" =>
    /\ call[t].file \in Files /\ IsOpen(call[t].file)
    /\ call[t].op \in {"read", "write"} =>
         /\ call[t].done <= call[t].count
         /\ call[t].pos + call[t].count <= Size[file[call[t].file].dev]
    /\ call[t].op = "read" => FMODE_READ \in file[call[t].file].mode
    /\ call[t].op = "write" => FMODE_WRITE \in file[call[t].file].mode
    /\ call[t].op = "seek" => call[t].pos <= Size[file[call[t].file].dev]

(* The inductive invariant. The typing alone is not inductive: that the    *)
(* count of a call is a natural number rests on the position being in      *)
(* range, and that on what the running seeks and transfers will store.     *)
IInv ==
  /\ TypeOK
  /\ \A f \in Files : GoodFile(f)
  /\ \A t \in Tasks : GoodCall(t)

-----------------------------------------------------------------------------
(* Initially no file is open and no call runs.                             *)
LEMMA InitGood == Init => IInv
<1> SUFFICES ASSUME Init PROVE IInv
  OBVIOUS
<1>1. Closed \in FileType /\ Idle \in CallType
  BY DEF Closed, Idle, FileType, CallType
<1>2. TypeOK
  BY <1>1 DEF Init, TypeOK
<1>3. \A f \in Files : GoodFile(f)
  BY DEF Init, GoodFile, IsOpen, Closed
<1>4. \A t \in Tasks : GoodCall(t)
  BY DEF Init, GoodCall, Idle
<1> QED BY <1>2, <1>3, <1>4 DEF IInv

(* A step of task t keeps the invariant when it keeps the typing, leaves   *)
(* files in range and its own call good, touches no other call, and leaves *)
(* running calls of other tasks the device and the mode of their files.    *)
LEMMA StepGood ==
  ASSUME IInv, NEW t \in Tasks,
         TypeOK', \A g \in Files : GoodFile(g)', GoodCall(t)',
         \A u \in Tasks : u # t => call'[u] = call[u],
         \A u \in Tasks : u # t /\ call[u].op # "idle" =>
           /\ file'[call[u].file].dev = file[call[u].file].dev
           /\ file'[call[u].file].mode = file[call[u].file].mode
  PROVE  IInv'
<1>1. ASSUME NEW u \in Tasks, u # t PROVE GoodCall(u)'
  BY <1>1 DEF IInv, GoodCall, IsOpen
<1> QED BY <1>1 DEF IInv

(* Return leaves the task idle and every other call alone.                 *)
LEMMA ReturnIdle ==
  ASSUME IInv, NEW t \in Tasks, NEW r \in Int, Return(t, r)
  PROVE  /\ call' \in [Tasks -> CallType] /\ ret' \in [Tasks -> Int]
         /\ GoodCall(t)'
         /\ \A u \in Tasks : u # t => call'[u] = call[u]
<1>1. Idle \in CallType
  BY DEF Idle, CallType
<1>2. call' \in [Tasks -> CallType]
  BY <1>1 DEF IInv, TypeOK, Return
<1>3. ret' \in [Tasks -> Int]
  BY DEF IInv, TypeOK, Return
<1>4. call'[t] = Idle /\ \A u \in Tasks : u # t => call'[u] = call[u]
  BY DEF IInv, TypeOK, Return
<1>5. GoodCall(t)'
  BY <1>4 DEF GoodCall, Idle
<1> QED BY <1>2, <1>3, <1>4, <1>5

(* A call of task t replaced by c leaves every other call alone.           *)
LEMMA CallReplaced ==
  ASSUME IInv, NEW t \in Tasks, NEW c \in CallType,
         call' = [call EXCEPT ![t] = c], ret' = ret
  PROVE  /\ call' \in [Tasks -> CallType] /\ ret' \in [Tasks -> Int]
         /\ call'[t] = c
         /\ \A u \in Tasks : u # t => call'[u] = call[u]
BY DEF IInv, TypeOK

(* A file of which only the position moves, within the device.             *)
LEMMA PositionMoved ==
  ASSUME IInv, NEW f \in Files, IsOpen(f), NEW p \in Nat,
         p <= Size[file[f].dev], file' = [file EXCEPT ![f].pos = p]
  PROVE  /\ file' \in [Files -> FileType]
         /\ \A g \in Files : GoodFile(g)'
         /\ \A g \in Files : /\ file'[g].dev = file[g].dev
                             /\ file'[g].mode = file[g].mode
<1>1. file \in [Files -> FileType]
  BY DEF IInv, TypeOK
<1>2. file' \in [Files -> FileType]
  BY <1>1 DEF FileType
<1>3. ASSUME NEW g \in Files
      PROVE  /\ file'[g].dev = file[g].dev /\ file'[g].mode = file[g].mode
             /\ file'[g].pos = IF g = f THEN p ELSE file[g].pos
  BY <1>1 DEF FileType
<1>4. \A g \in Files : GoodFile(g)'
  BY <1>3 DEF IInv, GoodFile, IsOpen
<1> QED BY <1>2, <1>3, <1>4

(* Cut leaves a count that fits behind a position in range.                *)
LEMMA CutFits ==
  ASSUME NEW d \in Devices, NEW pos \in Nat, NEW count \in Nat, pos <= Size[d]
  PROVE  /\ Cut(d, pos, count) \in Nat
         /\ pos + Cut(d, pos, count) <= Size[d]
BY DEF Cut

(* What the invariant says of an open file.                                *)
LEMMA OpenFile ==
  ASSUME IInv, NEW f \in Files, IsOpen(f)
  PROVE  /\ file[f].dev \in Devices /\ Size[file[f].dev] \in Nat
         /\ file[f].pos \in Nat /\ file[f].pos <= Size[file[f].dev]
         /\ file[f].mode \in AccModes
BY DEF IInv, TypeOK, FileType, GoodFile, IsOpen

(* What the invariant says of a running call.                              *)
LEMMA RunningCall ==
  ASSUME IInv, NEW t \in Tasks, call[t].op # "idle"
  PROVE  /\ call[t].file \in Files /\ IsOpen(call[t].file)
         /\ call[t].pos \in Nat /\ call[t].count \in Nat /\ call[t].done \in Nat
BY DEF IInv, TypeOK, CallType, GoodCall

-----------------------------------------------------------------------------
(* Open keeps the invariant: a file appears only past check_permission.    *)
LEMMA OpenGood ==
  ASSUME IInv, NEW t \in Tasks, NEW f \in Files, NEW d \in Devices,
         NEW m \in AccModes, Open(t, f, d, m)
  PROVE  IInv'
<1> DEFINE opened == [dev |-> d, mode |-> m, pos |-> 0]
<1>0. /\ TypeOK /\ opened \in FileType /\ ~IsOpen(f)
      /\ \A g \in Files : GoodFile(g)
  BY DEF IInv, FileType, Open
<1>1. PICK r \in Int : Return(t, r)
  BY DEF Open, EPERM
<1>2. \A g \in Files : g # f => file'[g] = file[g]
  BY <1>0 DEF TypeOK, Open
<1>3. TypeOK'
  <2>1. file' \in [Files -> FileType]
    BY <1>0 DEF TypeOK, Open
  <2> QED BY <2>1, <1>0, <1>1, ReturnIdle DEF TypeOK, Open
<1>4. ASSUME NEW g \in Files PROVE GoodFile(g)'
  <2>1. CASE check_permission(Perm[d], m) /\ g = f
    <3>1. file'[g] = opened
      BY <2>1, <1>0 DEF TypeOK, Open
    <3> QED BY <3>1, <2>1 DEF GoodFile
  <2>2. CASE ~check_permission(Perm[d], m) \/ g # f
    BY <2>2, <1>0, <1>2 DEF Open, GoodFile, IsOpen
  <2> QED BY <2>1, <2>2
<1>5. ASSUME NEW u \in Tasks, call[u].op # "idle"
      PROVE  file'[call[u].file] = file[call[u].file]
  BY <1>5, <1>0, <1>2, RunningCall
<1> QED BY <1>1, <1>3, <1>4, <1>5, ReturnIdle, StepGood

(* Release keeps it: no call runs on the file it closes.                   *)
LEMMA ReleaseGood ==
  ASSUME IInv, NEW t \in Tasks, NEW f \in Files, Release(t, f)
  PROVE  IInv'
<1>0. TypeOK /\ Closed \in FileType /\ Return(t, 0) /\ 0 \in Int
  BY DEF IInv, Closed, FileType, Release
<1>1. /\ file' = [file EXCEPT ![f] = Closed]
      /\ \A u \in Tasks : call[u].file # f
  BY DEF Release, Busy
<1>2. \A g \in Files : file'[g] = IF g = f THEN Closed ELSE file[g]
  BY <1>0, <1>1 DEF TypeOK
<1>3. TypeOK'
  <2>1. file' \in [Files -> FileType]
    BY <1>0, <1>1 DEF TypeOK
  <2> QED BY <2>1, <1>0, ReturnIdle DEF TypeOK, Release
<1>4. \A g \in Files : GoodFile(g)'
  BY <1>2 DEF IInv, GoodFile, IsOpen, Closed
<1>5. ASSUME NEW u \in Tasks, call[u].op # "idle"
      PROVE  file'[call[u].file] = file[call[u].file]
  BY <1>5, <1>1, <1>2, RunningCall
<1> QED BY <1>0, <1>3, <1>4, <1>5, ReturnIdle, StepGood

(* A step that stores nothing in a file and nothing in memory keeps the    *)
(* invariant when the call it leaves behind is good.                       *)
LEMMA CallStepGood ==
  ASSUME IInv, NEW t \in Tasks, UNCHANGED <<mem, file>>,
         call' \in [Tasks -> CallType], ret' \in [Tasks -> Int],
         \A u \in Tasks : u # t => call'[u] = call[u], GoodCall(t)'
  PROVE  IInv'
<1>1. TypeOK'
  BY DEF IInv, TypeOK
<1>2. \A g \in Files : GoodFile(g)'
  BY DEF IInv, GoodFile, IsOpen
<1> QED BY <1>1, <1>2, StepGood

(* A call that is refused changes nothing.                                 *)
LEMMA RefusedGood ==
  ASSUME IInv, NEW t \in Tasks, NEW r \in Int, Return(t, r),
         UNCHANGED <<mem, file>>
  PROVE  IInv'
BY ReturnIdle, CallStepGood

(* lseek keeps the invariant: what it will store was checked.              *)
LEMMA BeginSeekGood ==
  ASSUME IInv, NEW t \in Tasks, NEW f \in Files, NEW o \in Offsets,
         NEW w \in {"SEEK_SET", "SEEK_CUR", "SEEK_END"}, BeginSeek(t, f, o, w)
  PROVE  IInv'
<1> DEFINE d == file[f].dev
           temp == SeekBase(f, w) + o
           c == [op |-> "seek", file |-> f, pos |-> temp, count |-> 0, done |-> 0]
<1>1. IsOpen(f) /\ UNCHANGED <<mem, file>>
  BY DEF BeginSeek
<1>2. d \in Devices /\ Size[d] \in Nat /\ file[f].pos \in Nat
  BY <1>1, OpenFile
<1>3. temp \in Int
  BY <1>2 DEF SeekBase
<1>4. CASE SeekAllowed(d, temp)
  <2>1. temp \in Nat /\ temp <= Size[d]
    BY <1>3, <1>4 DEF SeekAllowed
  <2>2. c \in CallType
    BY <2>1 DEF CallType
  <2>3. call' = [call EXCEPT ![t] = c] /\ ret' = ret
    BY <1>4 DEF BeginSeek
  <2>4. call'[t] = c
    BY <2>2, <2>3, CallReplaced
  <2>5. GoodCall(t)'
    BY <2>1, <2>4, <1>1 DEF GoodCall, IsOpen
  <2> QED BY <2>2, <2>3, <2>5, <1>1, CallReplaced, CallStepGood
<1>5. CASE ~SeekAllowed(d, temp)
  <2>1. Return(t, EINVAL) /\ EINVAL \in Int
    BY <1>5 DEF BeginSeek, EINVAL
  <2> QED BY <2>1, <1>1, RefusedGood
<1> QED BY <1>4, <1>5

LEMMA StoreSeekGood ==
  ASSUME IInv, NEW t \in Tasks, StoreSeek(t)
  PROVE  IInv'
<1> DEFINE f == call[t].file
           p == call[t].pos
           c == [call[t] EXCEPT !.op = "sought"]
<1>1. /\ f \in Files /\ IsOpen(f) /\ p \in Nat /\ p <= Size[file[f].dev]
      /\ call[t] \in CallType
  BY DEF StoreSeek, IInv, TypeOK, CallType, GoodCall
<1>2. file' = [file EXCEPT ![f].pos = p]
  BY DEF StoreSeek
<1>3. /\ file' \in [Files -> FileType]
      /\ \A g \in Files : GoodFile(g)'
      /\ \A g \in Files : /\ file'[g].dev = file[g].dev
                          /\ file'[g].mode = file[g].mode
  BY <1>1, <1>2, PositionMoved
<1>4. c \in CallType
  BY <1>1 DEF CallType
<1>5. call' = [call EXCEPT ![t] = c] /\ ret' = ret
  BY DEF StoreSeek
<1>6. /\ call' \in [Tasks -> CallType] /\ ret' \in [Tasks -> Int]
      /\ call'[t] = c /\ \A u \in Tasks : u # t => call'[u] = call[u]
  BY <1>4, <1>5, CallReplaced
<1>7. GoodCall(t)'
  BY <1>1, <1>3, <1>6 DEF GoodCall, IsOpen, CallType
<1>8. TypeOK'
  BY <1>3, <1>6 DEF IInv, TypeOK, StoreSeek
<1> QED BY <1>3, <1>6, <1>7, <1>8, RunningCall, StepGood

LEMMA ReturnSeekGood ==
  ASSUME IInv, NEW t \in Tasks, ReturnSeek(t)
  PROVE  IInv'
<1>1. IsOpen(call[t].file) /\ call[t].file \in Files
  BY RunningCall DEF ReturnSeek
<1>2. file[call[t].file].pos \in Int
  BY <1>1, OpenFile
<1> QED BY <1>2, RefusedGood DEF ReturnSeek

(* A transfer that enters behind a position in range with a cut count.     *)
LEMMA EnterGood ==
  ASSUME IInv, NEW t \in Tasks, NEW f \in Files, IsOpen(f),
         NEW op \in {"read", "write"}, NEW n \in Counts,
         op = "read" => FMODE_READ \in file[f].mode,
         op = "write" => FMODE_WRITE \in file[f].mode,
         Enter(t, f, op, Cut(file[f].dev, file[f].pos, n)),
         UNCHANGED <<mem, file>>
  PROVE  IInv'
<1> DEFINE k == Cut(file[f].dev, file[f].pos, n)
           c == [op |-> op, file |-> f, pos |-> file[f].pos, count |-> k,
                 done |-> 0]
<1>1. /\ file[f].dev \in Devices /\ file[f].pos \in Nat /\ n \in Nat
      /\ file[f].pos <= Size[file[f].dev]
  BY OpenFile
<1>2. k \in Nat /\ file[f].pos + k <= Size[file[f].dev]
  BY <1>1, CutFits
<1> HIDE DEF k
<1>3. c \in CallType
  BY <1>1, <1>2 DEF CallType
<1>4. call' = [call EXCEPT ![t] = c] /\ ret' = ret
  BY DEF Enter, k
<1>5. /\ call' \in [Tasks -> CallType] /\ ret' \in [Tasks -> Int]
      /\ call'[t] = c /\ \A u \in Tasks : u # t => call'[u] = call[u]
  BY <1>3, <1>4, CallReplaced
<1>6. GoodCall(t)'
  BY <1>2, <1>5 DEF GoodCall, IsOpen
<1> QED BY <1>5, <1>6, CallStepGood

LEMMA BeginReadGood ==
  ASSUME IInv, NEW t \in Tasks, NEW f \in Files, NEW n \in Counts,
         BeginRead(t, f, n)
  PROVE  IInv'
BY EnterGood DEF BeginRead

LEMMA BeginWriteGood ==
  ASSUME IInv, NEW t \in Tasks, NEW f \in Files, NEW n \in Counts,
         BeginWrite(t, f, n)
  PROVE  IInv'
<1>1. CASE Cut(file[f].dev, file[f].pos, n) = 0
  BY <1>1, RefusedGood DEF BeginWrite, ENOMEM
<1>2. CASE Cut(file[f].dev, file[f].pos, n) # 0
  BY <1>2, EnterGood DEF BeginWrite
<1> QED BY <1>1, <1>2

(* A transfer of one more byte stays within its count.                     *)
LEMMA OneMoreByte ==
  ASSUME IInv, NEW t \in Tasks, call[t].op \in {"read", "write"},
         call[t].done < call[t].count,
         call' = [call EXCEPT ![t].done = @ + 1], UNCHANGED <<file, ret>>
  PROVE  /\ call' \in [Tasks -> CallType]
         /\ \A u \in Tasks : u # t => call'[u] = call[u]
         /\ GoodCall(t)'
<1> DEFINE c == [call[t] EXCEPT !.done = @ + 1]
<1>1. c \in CallType /\ call[t] \in CallType
  <2>1. call[t] \in CallType
    BY DEF IInv, TypeOK
  <2> QED BY <2>1 DEF CallType
<1>2. call' = [call EXCEPT ![t] = c]
  OBVIOUS
<1>3. /\ call' \in [Tasks -> CallType]
      /\ call'[t] = c /\ \A u \in Tasks : u # t => call'[u] = call[u]
  BY <1>1, <1>2, CallReplaced
<1>4. GoodCall(t)
  BY DEF IInv
<1>5. GoodCall(t)'
  BY <1>1, <1>3, <1>4 DEF GoodCall, IsOpen, CallType
<1> QED BY <1>3, <1>5

LEMMA CopyToUserGood ==
  ASSUME IInv, NEW t \in Tasks, CopyToUser(t)
  PROVE  IInv'
<1>1. ret' \in [Tasks -> Int]
  BY DEF IInv, TypeOK, CopyToUser
<1> QED BY <1>1, OneMoreByte, CallStepGood DEF CopyToUser

LEMMA CopyFromUserGood ==
  ASSUME IInv, NEW t \in Tasks, CopyFromUser(t)
  PROVE  IInv'
<1>1. /\ call' \in [Tasks -> CallType]
      /\ \A u \in Tasks : u # t => call'[u] = call[u]
      /\ GoodCall(t)' /\ UNCHANGED <<file, ret>>
  BY OneMoreByte DEF CopyFromUser
<1>2. DOMAIN mem' = Devices
      /\ \A d \in Devices : mem'[d] \in [0 .. Size[d] - 1 -> Byte]
  <2> DEFINE e == file[call[t].file].dev
             i == call[t].pos + call[t].done
  <2>1. PICK b \in Byte : mem' = [mem EXCEPT ![e] = [mem[e] EXCEPT ![i] = b]]
    BY DEF CopyFromUser
  <2>2. DOMAIN mem' = Devices
    BY <2>1 DEF IInv, TypeOK
  <2> HIDE DEF e, i
  <2>3. ASSUME NEW d \in Devices PROVE mem'[d] \in [0 .. Size[d] - 1 -> Byte]
    <3>1. mem[d] \in [0 .. Size[d] - 1 -> Byte]
      BY DEF IInv, TypeOK
    <3>2. [mem[d] EXCEPT ![i] = b] \in [0 .. Size[d] - 1 -> Byte]
      BY <3>1
    <3>3. mem'[d] = IF d = e THEN [mem[d] EXCEPT ![i] = b] ELSE mem[d]
      BY <2>1 DEF IInv, TypeOK
    <3> QED BY <3>1, <3>2, <3>3
  <2> QED BY <2>2, <2>3
<1>3. TypeOK'
  BY <1>1, <1>2 DEF IInv, TypeOK
<1>4. \A g \in Files : GoodFile(g)'
  BY <1>1 DEF IInv, GoodFile, IsOpen
<1> QED BY <1>1, <1>3, <1>4, StepGood

LEMMA ReadFaultGood ==
  ASSUME IInv, NEW t \in Tasks, ReadFault(t)
  PROVE  IInv'
BY RefusedGood DEF ReadFault, EFAULT

LEMMA WriteFaultGood ==
  ASSUME IInv, NEW t \in Tasks, WriteFault(t)
  PROVE  IInv'
<1>1. Return(t, EFAULT) /\ EFAULT \in Int /\ file' = file
  BY DEF WriteFault, EFAULT
<1>2. /\ call' \in [Tasks -> CallType] /\ ret' \in [Tasks -> Int]
      /\ GoodCall(t)'
      /\ \A u \in Tasks : u # t => call'[u] = call[u]
  BY <1>1, ReturnIdle
<1>3. DOMAIN mem' = Devices
      /\ \A d \in Devices : mem'[d] \in [0 .. Size[d] - 1 -> Byte]
  <2> DEFINE e == file[call[t].file].dev
             lost == call[t].pos + call[t].done
                       .. call[t].pos + call[t].count - 1
  <2>1. mem' = [mem EXCEPT ![e] = [i \in DOMAIN mem[e] |->
                                     IF i \in lost THEN Zero ELSE mem[e][i]]]
    BY DEF WriteFault
  <2>2. DOMAIN mem' = Devices
    BY <2>1 DEF IInv, TypeOK
  <2> HIDE DEF e, lost
  <2>3. ASSUME NEW d \in Devices PROVE mem'[d] \in [0 .. Size[d] - 1 -> Byte]
    <3>1. mem[d] \in [0 .. Size[d] - 1 -> Byte]
      BY DEF IInv, TypeOK
    <3>2. [i \in DOMAIN mem[d] |-> IF i \in lost THEN Zero ELSE mem[d][i]]
             \in [0 .. Size[d] - 1 -> Byte]
      BY <3>1
    <3>3. mem'[d] = IF d = e
                    THEN [i \in DOMAIN mem[d] |->
                            IF i \in lost THEN Zero ELSE mem[d][i]]
                    ELSE mem[d]
      BY <2>1 DEF IInv, TypeOK
    <3> QED BY <3>1, <3>2, <3>3
  <2> QED BY <2>2, <2>3
<1>4. TypeOK'
  BY <1>1, <1>2, <1>3 DEF IInv, TypeOK
<1>5. \A g \in Files : GoodFile(g)'
  BY <1>1 DEF IInv, GoodFile, IsOpen
<1> QED BY <1>1, <1>2, <1>4, <1>5, StepGood

LEMMA EndTransferGood ==
  ASSUME IInv, NEW t \in Tasks, EndTransfer(t)
  PROVE  IInv'
<1> DEFINE f == call[t].file
           p == call[t].pos + call[t].count
<1>1. /\ f \in Files /\ IsOpen(f) /\ p \in Nat /\ p <= Size[file[f].dev]
      /\ call[t].count \in Int
  BY DEF EndTransfer, IInv, TypeOK, CallType, GoodCall
<1>2. file' = [file EXCEPT ![f].pos = p] /\ Return(t, call[t].count)
  BY DEF EndTransfer
<1>3. /\ file' \in [Files -> FileType]
      /\ \A g \in Files : GoodFile(g)'
      /\ \A g \in Files : /\ file'[g].dev = file[g].dev
                          /\ file'[g].mode = file[g].mode
  BY <1>1, <1>2, PositionMoved
<1>4. /\ call' \in [Tasks -> CallType] /\ ret' \in [Tasks -> Int]
      /\ GoodCall(t)'
      /\ \A u \in Tasks : u # t => call'[u] = call[u]
  BY <1>1, <1>2, ReturnIdle
<1>5. TypeOK'
  BY <1>3, <1>4 DEF IInv, TypeOK, EndTransfer
<1> QED BY <1>3, <1>4, <1>5, RunningCall, StepGood

-----------------------------------------------------------------------------
(* Every step keeps the invariant.                                         *)
LEMMA NextGood == IInv /\ [Next]_vars => IInv'
<1> SUFFICES ASSUME IInv, [Next]_vars PROVE IInv'
  OBVIOUS
<1>1. CASE UNCHANGED vars
  BY <1>1 DEF vars, IInv, TypeOK, GoodFile, GoodCall, IsOpen
<1>2. ASSUME NEW t \in Tasks, Issue(t) PROVE IInv'
  <2>1. PICK f \in Files :
          \/ \E d \in Devices, m \in AccModes : Open(t, f, d, m)
          \/ Release(t, f)
          \/ \E o \in Offsets, w \in {"SEEK_SET", "SEEK_CUR", "SEEK_END"} :
               BeginSeek(t, f, o, w)
          \/ \E n \in Counts : BeginRead(t, f, n)
          \/ \E n \in Counts : BeginWrite(t, f, n)
    BY <1>2 DEF Issue
  <2> QED BY <2>1, OpenGood, ReleaseGood, BeginSeekGood, BeginReadGood,
             BeginWriteGood
<1>3. ASSUME NEW t \in Tasks, Proceed(t) PROVE IInv'
  BY <1>3, StoreSeekGood, ReturnSeekGood, CopyToUserGood, CopyFromUserGood,
     ReadFaultGood, WriteFaultGood, EndTransferGood DEF Proceed
<1> QED BY <1>1, <1>2, <1>3 DEF Next

(* The invariant holds in every reachable state.                           *)
THEOREM Invariant == Spec => []IInv
BY InitGood, NextGood, PTL DEF Spec

(* The state keeps its types: in particular no position and no count of a  *)
(* call ever goes negative.                                                *)
THEOREM Typing == Spec => []TypeOK
<1>1. IInv => TypeOK
  BY DEF IInv
<1> QED BY <1>1, Invariant, PTL

(* Every byte a read or write still has to move lies inside its device,    *)
(* for any number of tasks sharing any files (pcd_n.c:138-140, 171-173).   *)
THEOREM Bounds == Spec => []TransferInBounds
<1>1. IInv => TransferInBounds
  <2> SUFFICES ASSUME IInv, NEW t \in Tasks, Transferring(t)
               PROVE  LET d == file[call[t].file].dev
                      IN /\ d \in Devices
                         /\ 0 <= call[t].pos
                         /\ call[t].done <= call[t].count
                         /\ call[t].pos + call[t].count <= Size[d]
    BY DEF TransferInBounds
  <2>1. call[t].op # "idle" /\ GoodCall(t)
    BY DEF Transferring, IInv
  <2> QED BY <2>1, RunningCall, OpenFile DEF GoodCall, Transferring
<1> QED BY <1>1, Invariant, PTL

(* Every open file stands in its device or at its end.                     *)
THEOREM Position == Spec => []PositionInRange
<1>1. IInv => PositionInRange
  BY OpenFile DEF PositionInRange
<1> QED BY <1>1, Invariant, PTL

(* A device configured WRONLY is never being read.                         *)
THEOREM Unread == Spec => []WriteOnlyUnread
<1>1. IInv => WriteOnlyUnread
  <2> SUFFICES ASSUME IInv, NEW t \in Tasks, call[t].op = "read"
               PROVE  Perm[file[call[t].file].dev] # "WRONLY"
    BY DEF WriteOnlyUnread
  <2>1. /\ call[t].file \in Files /\ IsOpen(call[t].file)
        /\ FMODE_READ \in file[call[t].file].mode
    BY DEF IInv, GoodCall
  <2> QED BY <2>1 DEF IInv, GoodFile, check_permission
<1> QED BY <1>1, Invariant, PTL

(* The memory of a device configured RDONLY never changes.                 *)
THEOREM ReadOnly == Spec => ReadOnlyUnchanged
<1>1. IInv /\ [Next]_vars =>
        [\A d \in Devices : Perm[d] = "RDONLY" => mem'[d] = mem[d]]_vars
  <2> SUFFICES ASSUME IInv, Next, NEW d \in Devices, Perm[d] = "RDONLY"
               PROVE  mem'[d] = mem[d]
    OBVIOUS
  <2>1. ASSUME NEW t \in Tasks, call[t].op = "write"
        PROVE  file[call[t].file].dev # d
    <3>1. /\ call[t].file \in Files /\ IsOpen(call[t].file)
          /\ FMODE_WRITE \in file[call[t].file].mode
      BY <2>1 DEF IInv, GoodCall
    <3> QED BY <3>1 DEF IInv, GoodFile, check_permission
  <2>2. ASSUME NEW t \in Tasks, CopyFromUser(t) \/ WriteFault(t)
        PROVE  mem'[d] = mem[d]
    BY <2>1, <2>2 DEF IInv, TypeOK, CopyFromUser, WriteFault
  <2>3. ASSUME NEW t \in Tasks, Issue(t) PROVE mem' = mem
    BY <2>3 DEF Issue, Open, Release, BeginSeek, BeginRead, BeginWrite
  <2>4. ASSUME NEW t \in Tasks, Proceed(t),
               ~CopyFromUser(t), ~WriteFault(t)
        PROVE  mem' = mem
    BY <2>4 DEF Proceed, StoreSeek, ReturnSeek, CopyToUser, ReadFault,
                EndTransfer
  <2> QED BY <2>2, <2>3, <2>4 DEF Next
<1> QED BY <1>1, Invariant, PTL DEF Spec, ReadOnlyUnchanged

-----------------------------------------------------------------------------
(* The driver implements PcdCursor when nobody shares a file: each has one *)
(* user, and nobody uses two, whose results the mapping could not tell     *)
(* apart.                                                                  *)
Private ==
  /\ \A f \in Files : \E t \in Tasks : Users[f] = {t}
  /\ \A f, g \in Files : f # g => Users[f] \intersect Users[g] = {}

(* Only its user is in a file, and it stays where the user's transfer began.*)
Owned(t) ==
  call[t].op # "idle" =>
    /\ t \in Users[call[t].file]
    /\ Transferring(t) => file[call[t].file].pos = call[t].pos

PrivateInv == IInv /\ \A t \in Tasks : Owned(t)

(* What PcdCursor sees: the state of f, with its user t.                   *)
cursors == [f \in Files |-> CursorOf(f)]
results == [f \in Files |-> ResultOf(f)]

Seen(f, t) ==
  [dev |-> file[f].dev, mode |-> file[f].mode, start |-> file[f].pos,
   next |-> IF Transferring(t) THEN call[t].pos + call[t].done ELSE file[f].pos]
Heard(t) == IF ret[t] < 0 THEN -1 ELSE ret[t]

LEMMA TheUser ==
  ASSUME Private, NEW f \in Files, NEW t \in Users[f]
  PROVE  t \in Tasks /\ Users[f] = {t} /\ (CHOOSE u \in Users[f] : TRUE) = t
BY DEF Private

Views ==
  \A f \in Files : \A t \in Users[f] :
    CursorOf(f) = Seen(f, t) /\ ResultOf(f) = Heard(t)

LEMMA View == Private => (PrivateInv => Views)
<1> SUFFICES ASSUME Private, PrivateInv, NEW f \in Files, NEW t \in Users[f]
             PROVE  CursorOf(f) = Seen(f, t) /\ ResultOf(f) = Heard(t)
  BY DEF Views
<1>1. t \in Tasks /\ Users[f] = {t} /\ (CHOOSE u \in Users[f] : TRUE) = t
  BY TheUser
<1>2. ASSUME NEW u \in Tasks, Transferring(u) PROVE call[u].file = f <=> u = t
  <2>1. call[u].file \in Files /\ u \in Users[call[u].file]
    BY <1>2 DEF PrivateInv, Owned, IInv, GoodCall, Transferring
  <2> QED BY <1>1, <2>1 DEF Private
<1>3. CallsOn(f) = IF Transferring(t) THEN {t} ELSE {}
  BY <1>1, <1>2 DEF CallsOn
<1>4. Transferring(t) =>
        CallsOn(f) # {} /\ (CHOOSE u \in CallsOn(f) : TRUE) = t
  BY <1>3
<1>5. CursorOf(f) = Seen(f, t)
  BY <1>3, <1>4 DEF CursorOf, Seen
<1>6. ResultOf(f) = Heard(t)
  BY <1>1 DEF ResultOf, Heard
<1> QED BY <1>5, <1>6

(* What a step of a file's user changes, and keeps.                        *)
LEMMA Mapped ==
  ASSUME Private, PrivateInv, IInv', NEW f \in Files, NEW t \in Users[f],
         \A u \in Tasks : u # t => call'[u] = call[u] /\ ret'[u] = ret[u],
         \A g \in Files : g # f => file'[g] = file[g],
         call'[t].op # "idle" => call'[t].file = f,
         Transferring(t)' => file'[f].pos = call'[t].pos
  PROVE  /\ PrivateInv'
         /\ cursors[f] = Seen(f, t) /\ results[f] = Heard(t)
         /\ cursors' = [cursors EXCEPT ![f] = Seen(f, t)']
         /\ results' = [results EXCEPT ![f] = Heard(t)']
<1>1. t \in Tasks /\ Users[f] = {t}
  BY TheUser
<1>2. ASSUME NEW u \in Tasks PROVE Owned(u)'
  <2>1. CASE u = t
    BY <2>1 DEF Owned
  <2>2. CASE u # t
    <3>1. call'[u] = call[u] /\ Owned(u)
      BY <2>2 DEF PrivateInv
    <3>2. ASSUME call[u].op # "idle" PROVE file'[call[u].file] = file[call[u].file]
      <4>1. call[u].file \in Files /\ u \in Users[call[u].file]
        BY <3>1, <3>2 DEF PrivateInv, Owned, IInv, GoodCall
      <4>2. call[u].file # f
        BY <1>1, <2>2, <4>1
      <4> QED BY <4>1, <4>2
    <3> QED BY <3>1, <3>2 DEF Owned, Transferring
  <2> QED BY <2>1, <2>2
<1>3. PrivateInv'
  BY <1>2 DEF PrivateInv
<1>4. \A g \in Files : \A u \in Users[g] :
        CursorOf(g) = Seen(g, u) /\ ResultOf(g) = Heard(u)
  BY View DEF Views
<1>5. \A g \in Files : \A u \in Users[g] :
        CursorOf(g)' = Seen(g, u)' /\ ResultOf(g)' = Heard(u)'
  <2>1. Views'
    BY <1>3, View, PTL
  <2> QED BY <2>1 DEF Views
<1>6. ASSUME NEW g \in Files, g # f
      PROVE  CursorOf(g)' = CursorOf(g) /\ ResultOf(g)' = ResultOf(g)
  <2>1. PICK u \in Users[g] : u \in Tasks /\ u # t
    BY <1>1, <1>6 DEF Private
  <2>2. Seen(g, u)' = Seen(g, u) /\ Heard(u)' = Heard(u)
    BY <1>6, <2>1 DEF Seen, Heard, Transferring
  <2> QED BY <1>4, <1>5, <2>1, <2>2
<1>7. cursors[f] = Seen(f, t) /\ results[f] = Heard(t)
  BY <1>4 DEF cursors, results
<1>8. cursors' = [cursors EXCEPT ![f] = Seen(f, t)']
  BY <1>5, <1>6 DEF cursors
<1>9. results' = [results EXCEPT ![f] = Heard(t)']
  BY <1>5, <1>6 DEF results
<1> QED BY <1>3, <1>7, <1>8, <1>9

LEMMA Returned ==
  ASSUME IInv, NEW t \in Tasks, NEW r \in Int, Return(t, r)
  PROVE  /\ call'[t].op = "idle" /\ ret'[t] = r /\ ~Transferring(t)'
         /\ \A u \in Tasks : u # t => call'[u] = call[u] /\ ret'[u] = ret[u]
<1>1. call'[t] = Idle /\ ret'[t] = r
  BY DEF IInv, TypeOK, Return
<1> QED BY <1>1 DEF IInv, TypeOK, Return, Transferring, Idle

(* A call that is refused is one to the cursor.                            *)
LEMMA RefuseMaps ==
  ASSUME Private, PrivateInv, IInv', NEW f \in Files, NEW t \in Users[f],
         call[t] = Idle, NEW r \in Int, r < 0, Return(t, r),
         UNCHANGED <<mem, file>>
  PROVE  PrivateInv' /\ Cursor!Refuse(f)
<1>1. t \in Tasks /\ IInv
  BY TheUser DEF PrivateInv
<1>2. /\ call'[t].op = "idle" /\ ret'[t] = r /\ ~Transferring(t)'
      /\ \A u \in Tasks : u # t => call'[u] = call[u] /\ ret'[u] = ret[u]
  BY <1>1, Returned
<1>3. /\ PrivateInv'
      /\ cursors[f] = Seen(f, t) /\ results[f] = Heard(t)
      /\ cursors' = [cursors EXCEPT ![f] = Seen(f, t)']
      /\ results' = [results EXCEPT ![f] = Heard(t)']
  BY <1>2, Mapped
<1>4. ~Transferring(t)
  BY DEF Transferring, Idle
<1>5. Seen(f, t)' = Seen(f, t) /\ Heard(t)' = -1
  BY <1>2, <1>4 DEF Seen, Heard
<1>6. cursors' = cursors
  BY <1>3, <1>5 DEF cursors
<1>7. cursors[f].next = cursors[f].start
  BY <1>3, <1>4 DEF Seen
<1>8. results' = [results EXCEPT ![f] = -1]
  BY <1>3, <1>5
<1> QED BY <1>3, <1>6, <1>7, <1>8
    DEF Cursor!Refuse, Cursor!Settled, Cursor!Returns, Cursor!Error, cursors,
        results

(* Opening follows the permission, which is what PcdCursor grants.         *)
LEMMA OpenMaps ==
  ASSUME Private, PrivateInv, IInv', NEW f \in Files, NEW t \in Users[f],
         NEW d \in Devices, NEW m \in AccModes, Open(t, f, d, m)
  PROVE  PrivateInv' /\ (Cursor!Open(f, d, m) \/ Cursor!Refuse(f))
<1>1. t \in Tasks /\ IInv /\ call[t] = Idle
  BY TheUser DEF PrivateInv, Open
<1>2. CASE ~check_permission(Perm[d], m)
  <2>1. Return(t, EPERM) /\ UNCHANGED <<mem, file>>
    BY <1>2 DEF Open
  <2>2. EPERM \in Int /\ EPERM < 0
    BY DEF EPERM
  <2> QED BY <1>1, <2>1, <2>2, RefuseMaps
<1>3. CASE check_permission(Perm[d], m)
  <2>1. /\ Return(t, 0) /\ ~IsOpen(f) /\ mem' = mem
        /\ file' = [file EXCEPT ![f] = [dev |-> d, mode |-> m, pos |-> 0]]
    BY <1>3 DEF Open
  <2>2. /\ file'[f] = [dev |-> d, mode |-> m, pos |-> 0]
        /\ \A g \in Files : g # f => file'[g] = file[g]
    BY <1>1, <2>1 DEF IInv, TypeOK
  <2>3. /\ call'[t].op = "idle" /\ ret'[t] = 0 /\ ~Transferring(t)'
        /\ \A u \in Tasks : u # t => call'[u] = call[u] /\ ret'[u] = ret[u]
    BY <1>1, <2>1, Returned
  <2>4. /\ PrivateInv'
        /\ cursors[f] = Seen(f, t)
        /\ cursors' = [cursors EXCEPT ![f] = Seen(f, t)']
        /\ results' = [results EXCEPT ![f] = Heard(t)']
    BY <2>2, <2>3, Mapped
  <2>5. /\ Seen(f, t)' = [dev |-> d, mode |-> m, start |-> 0, next |-> 0]
        /\ Heard(t)' = 0
    BY <2>2, <2>3 DEF Seen, Heard
  <2>6. cursors[f].dev = None
    BY <2>1, <2>4 DEF Seen, IsOpen
  <2>7. Cursor!Granted(Perm[d], m)
    BY <1>3 DEF Cursor!Granted, check_permission, AccModes, FMODE_READ,
                FMODE_WRITE
  <2> QED BY <2>1, <2>4, <2>5, <2>6, <2>7
      DEF Cursor!Open, Cursor!Returns, cursors, results
<1> QED BY <1>2, <1>3

LEMMA ReleaseMaps ==
  ASSUME Private, PrivateInv, IInv', NEW f \in Files, NEW t \in Users[f],
         Release(t, f)
  PROVE  PrivateInv' /\ Cursor!Close(f)
<1>1. /\ t \in Tasks /\ IInv /\ call[t] = Idle /\ IsOpen(f) /\ mem' = mem
      /\ Return(t, 0) /\ file' = [file EXCEPT ![f] = Closed]
  BY TheUser DEF PrivateInv, Release
<1>2. /\ file'[f] = [dev |-> None, mode |-> {}, pos |-> 0]
      /\ \A g \in Files : g # f => file'[g] = file[g]
  BY <1>1 DEF IInv, TypeOK, Closed
<1>3. /\ call'[t].op = "idle" /\ ret'[t] = 0 /\ ~Transferring(t)'
      /\ \A u \in Tasks : u # t => call'[u] = call[u] /\ ret'[u] = ret[u]
  BY <1>1, Returned
<1>4. /\ PrivateInv'
      /\ cursors[f] = Seen(f, t)
      /\ cursors' = [cursors EXCEPT ![f] = Seen(f, t)']
      /\ results' = [results EXCEPT ![f] = Heard(t)']
  BY <1>2, <1>3, Mapped
<1>5. /\ Seen(f, t)' = [dev |-> None, mode |-> {}, start |-> 0, next |-> 0]
      /\ Heard(t)' = 0
  BY <1>2, <1>3 DEF Seen, Heard
<1>6. ~Transferring(t)
  BY <1>1 DEF Transferring, Idle
<1>7. cursors[f].dev # None /\ cursors[f].next = cursors[f].start
  BY <1>1, <1>4, <1>6 DEF Seen, IsOpen
<1> QED BY <1>1, <1>4, <1>5, <1>7
    DEF Cursor!Close, Cursor!Settled, Cursor!Returns, cursors, results

(* A call that begins moves nothing yet.                                   *)
LEMMA EnterMaps ==
  ASSUME Private, PrivateInv, IInv', NEW f \in Files, NEW t \in Users[f],
         call[t] = Idle, NEW c \in CallType, call' = [call EXCEPT ![t] = c],
         c.file = f, c.done = 0,
         c.op \in {"read", "write"} => c.pos = file[f].pos,
         UNCHANGED <<mem, file, ret>>
  PROVE  PrivateInv' /\ UNCHANGED Cursor!vars
<1>1. t \in Tasks /\ IInv
  BY TheUser DEF PrivateInv
<1>2. /\ call'[t] = c
      /\ \A u \in Tasks : u # t => call'[u] = call[u] /\ ret'[u] = ret[u]
  BY <1>1, CallReplaced
<1>3. Transferring(t)' => c.pos = file[f].pos
  BY <1>2 DEF Transferring
<1>4. /\ PrivateInv'
      /\ cursors[f] = Seen(f, t) /\ results[f] = Heard(t)
      /\ cursors' = [cursors EXCEPT ![f] = Seen(f, t)']
      /\ results' = [results EXCEPT ![f] = Heard(t)']
  BY <1>2, <1>3, Mapped
<1>5. ~Transferring(t)
  BY DEF Transferring, Idle
<1>6. c.pos \in Nat /\ c.pos + c.done = c.pos
  BY DEF CallType
<1>7. Seen(f, t)' = Seen(f, t)
  BY <1>2, <1>3, <1>5, <1>6 DEF Seen
<1>8. Heard(t)' = Heard(t)
  BY DEF Heard
<1>9. cursors' = cursors
  BY <1>4, <1>7 DEF cursors
<1>10. results' = results
  BY <1>4, <1>8 DEF results
<1> QED BY <1>4, <1>9, <1>10 DEF Cursor!vars, cursors, results

LEMMA BeginSeekMaps ==
  ASSUME Private, PrivateInv, IInv', NEW f \in Files, NEW t \in Users[f],
         NEW o \in Offsets, NEW w \in {"SEEK_SET", "SEEK_CUR", "SEEK_END"},
         BeginSeek(t, f, o, w)
  PROVE  PrivateInv' /\ (Cursor!Refuse(f) \/ UNCHANGED Cursor!vars)
<1> DEFINE temp == SeekBase(f, w) + o
           c == [op |-> "seek", file |-> f, pos |-> temp, count |-> 0, done |-> 0]
<1>1. IInv /\ call[t] = Idle /\ IsOpen(f) /\ UNCHANGED <<mem, file>>
  BY DEF PrivateInv, BeginSeek
<1>2. CASE ~SeekAllowed(file[f].dev, temp)
  <2>1. Return(t, EINVAL)
    BY <1>2 DEF BeginSeek
  <2> QED BY <1>1, <2>1, RefuseMaps DEF EINVAL
<1>3. CASE SeekAllowed(file[f].dev, temp)
  <2>1. temp \in Nat
    <3>1. SeekBase(f, w) \in Int
      BY <1>1, OpenFile DEF SeekBase
    <3>2. temp \in Int
      <4>1. o \in Int
        BY InputAssumption
      <4> QED BY <3>1, <4>1
    <3> HIDE DEF temp
    <3>3. temp >= 0
      BY <1>3 DEF SeekAllowed
    <3> QED BY <3>2, <3>3
  <2>2. call' = [call EXCEPT ![t] = c] /\ ret' = ret
    BY <1>3 DEF BeginSeek
  <2> HIDE DEF temp
  <2>3. c \in CallType
    BY <2>1 DEF CallType
  <2> QED BY <1>1, <2>2, <2>3, EnterMaps
<1> QED BY <1>2, <1>3

LEMMA BeginReadMaps ==
  ASSUME Private, PrivateInv, IInv', NEW f \in Files, NEW t \in Users[f],
         NEW n \in Counts, BeginRead(t, f, n)
  PROVE  PrivateInv' /\ UNCHANGED Cursor!vars
<1> DEFINE k == Cut(file[f].dev, file[f].pos, n)
           c == [op |-> "read", file |-> f, pos |-> file[f].pos, count |-> k,
                 done |-> 0]
<1>1. /\ IInv /\ call[t] = Idle /\ IsOpen(f) /\ UNCHANGED <<mem, file, ret>>
      /\ call' = [call EXCEPT ![t] = c]
  BY DEF PrivateInv, BeginRead, Enter
<1>2. k \in Nat /\ file[f].pos \in Nat
  BY <1>1, OpenFile, CutFits
<1> HIDE DEF k
<1>3. c \in CallType
  BY <1>2 DEF CallType
<1> QED BY <1>1, <1>3, EnterMaps

LEMMA BeginWriteMaps ==
  ASSUME Private, PrivateInv, IInv', NEW f \in Files, NEW t \in Users[f],
         NEW n \in Counts, BeginWrite(t, f, n)
  PROVE  PrivateInv' /\ (Cursor!Refuse(f) \/ UNCHANGED Cursor!vars)
<1> DEFINE k == Cut(file[f].dev, file[f].pos, n)
           c == [op |-> "write", file |-> f, pos |-> file[f].pos, count |-> k,
                 done |-> 0]
<1>1. /\ IInv /\ call[t] = Idle /\ IsOpen(f) /\ UNCHANGED <<mem, file>>
      /\ IF k = 0 THEN Return(t, ENOMEM)
                  ELSE call' = [call EXCEPT ![t] = c] /\ ret' = ret
  BY DEF PrivateInv, BeginWrite, Enter
<1>2. k \in Nat /\ file[f].pos \in Nat
  BY <1>1, OpenFile, CutFits
<1> HIDE DEF k
<1>3. c \in CallType
  BY <1>2 DEF CallType
<1>4. CASE k = 0
  BY <1>1, <1>4, RefuseMaps DEF ENOMEM
<1>5. CASE k # 0
  BY <1>1, <1>3, <1>5, EnterMaps
<1> QED BY <1>4, <1>5

-----------------------------------------------------------------------------
(* A call that runs is the one of its file's user.                         *)
LEMMA Runner ==
  ASSUME PrivateInv, NEW t \in Tasks, call[t].op # "idle"
  PROVE  /\ IInv /\ call[t].file \in Files /\ t \in Users[call[t].file]
         /\ IsOpen(call[t].file) /\ call[t] \in CallType
         /\ Transferring(t) => file[call[t].file].pos = call[t].pos
BY DEF PrivateInv, Owned, IInv, GoodCall, TypeOK

(* Updates of a cursor, field by field.                                    *)
LEMMA Advanced ==
  ASSUME NEW d, NEW m, NEW s, NEW n, NEW p
  PROVE  [[dev |-> d, mode |-> m, start |-> s, next |-> n] EXCEPT !.next = p]
           = [dev |-> d, mode |-> m, start |-> s, next |-> p]
OBVIOUS

LEMMA Started ==
  ASSUME NEW d, NEW m, NEW s, NEW n, NEW p
  PROVE  [[dev |-> d, mode |-> m, start |-> s, next |-> n] EXCEPT !.start = p]
           = [dev |-> d, mode |-> m, start |-> p, next |-> n]
OBVIOUS

LEMMA StoreSeekMaps ==
  ASSUME Private, PrivateInv, IInv', NEW t \in Tasks, NEW f \in Files,
         call[t].file = f, StoreSeek(t)
  PROVE  PrivateInv' /\ Cursor!Next
<1> DEFINE p == call[t].pos
<1>1. call[t].op = "seek"
  BY DEF StoreSeek
<1>2. /\ IInv /\ f \in Files /\ t \in Users[f] /\ IsOpen(f) /\ p \in Nat
      /\ call[t] \in CallType /\ file[f] \in FileType
  BY <1>1, Runner DEF CallType, IInv, TypeOK
<1>3. /\ p \in 0 .. Size[file[f].dev] /\ Size[file[f].dev] \in Nat
  BY <1>1, <1>2, OpenFile DEF IInv, GoodCall
<1>4. /\ file'[f].pos = p /\ file'[f].dev = file[f].dev
      /\ file'[f].mode = file[f].mode
      /\ \A g \in Files : g # f => file'[g] = file[g]
      /\ UNCHANGED <<mem, ret>>
  BY <1>2 DEF StoreSeek, IInv, TypeOK, FileType
<1>5. /\ call'[t].op = "sought" /\ call'[t].file = f
      /\ \A u \in Tasks : u # t => call'[u] = call[u] /\ ret'[u] = ret[u]
  BY <1>2 DEF StoreSeek, IInv, TypeOK, CallType
<1>6. ~Transferring(t) /\ ~Transferring(t)'
  BY <1>1, <1>5 DEF Transferring
<1>7. /\ PrivateInv'
      /\ cursors[f] = Seen(f, t) /\ results[f] = Heard(t)
      /\ cursors' = [cursors EXCEPT ![f] = Seen(f, t)']
      /\ results' = [results EXCEPT ![f] = Heard(t)']
  BY <1>2, <1>4, <1>5, <1>6, Mapped
<1>8. /\ Seen(f, t)' = [dev |-> file[f].dev, mode |-> file[f].mode,
                        start |-> p, next |-> p]
      /\ Heard(t)' = Heard(t)
  BY <1>4, <1>6 DEF Seen, Heard
<1>9. cursors[f].dev = file[f].dev /\ cursors[f].mode = file[f].mode
      /\ cursors[f].next = cursors[f].start
  BY <1>6, <1>7 DEF Seen
<1>10. results' = results
  BY <1>7, <1>8 DEF results
<1>11. cursors' = [cursors EXCEPT ![f] = [dev |-> cursors[f].dev,
                     mode |-> cursors[f].mode, start |-> p, next |-> p]]
  BY <1>7, <1>8, <1>9
<1>12. Cursor!Seek(f, p) /\ cursors[f].dev # None
  BY <1>2, <1>4, <1>9, <1>10, <1>11
  DEF Cursor!Seek, Cursor!Settled, cursors, results, IsOpen
<1> QED BY <1>2, <1>3, <1>7, <1>9, <1>12 DEF Cursor!Next, cursors

LEMMA ReturnSeekMaps ==
  ASSUME Private, PrivateInv, IInv', NEW t \in Tasks, NEW f \in Files,
         call[t].file = f, ReturnSeek(t)
  PROVE  PrivateInv' /\ Cursor!Next
<1> DEFINE r == file[f].pos
<1>1. call[t].op = "sought" /\ Return(t, r) /\ UNCHANGED <<mem, file>>
  BY DEF ReturnSeek
<1>2. IInv /\ f \in Files /\ t \in Users[f] /\ IsOpen(f)
  BY <1>1, Runner
<1>3. r \in Nat
  BY <1>2, OpenFile
<1>4. /\ call'[t].op = "idle" /\ ret'[t] = r /\ ~Transferring(t)'
      /\ \A u \in Tasks : u # t => call'[u] = call[u] /\ ret'[u] = ret[u]
  BY <1>1, <1>2, <1>3, Returned
<1>5. /\ PrivateInv'
      /\ cursors[f] = Seen(f, t)
      /\ cursors' = [cursors EXCEPT ![f] = Seen(f, t)']
      /\ results' = [results EXCEPT ![f] = Heard(t)']
  BY <1>1, <1>2, <1>4, Mapped
<1>6. ~Transferring(t)
  BY <1>1 DEF Transferring
<1>7. Seen(f, t)' = Seen(f, t) /\ Heard(t)' = r
  BY <1>1, <1>3, <1>4, <1>6 DEF Seen, Heard
<1>8. cursors' = cursors
  BY <1>5, <1>7 DEF cursors
<1>9. /\ cursors[f].dev # None /\ cursors[f].next = cursors[f].start
      /\ cursors[f].start = r
  BY <1>2, <1>5, <1>6 DEF Seen, IsOpen
<1>10. Cursor!Tell(f)
  BY <1>1, <1>5, <1>7, <1>8, <1>9
  DEF Cursor!Tell, Cursor!Settled, Cursor!Returns, cursors, results
<1> QED BY <1>2, <1>5, <1>10 DEF Cursor!Next

(* What a running transfer is seen as: the bytes moved so far lie between  *)
(* start and next.                                                         *)
LEMMA Transfer ==
  ASSUME PrivateInv, NEW t \in Tasks, NEW f \in Files, call[t].file = f,
         Transferring(t)
  PROVE  /\ IInv /\ t \in Users[f] /\ IsOpen(f)
         /\ call[t].pos \in Nat /\ call[t].done \in Nat /\ call[t].count \in Nat
         /\ call[t].done <= call[t].count
         /\ file[f].dev \in Devices /\ Size[file[f].dev] \in Nat
         /\ call[t].pos + call[t].count <= Size[file[f].dev]
         /\ Seen(f, t) = [dev |-> file[f].dev, mode |-> file[f].mode,
                          start |-> call[t].pos,
                          next |-> call[t].pos + call[t].done]
         /\ call[t].op = "read" => "r" \in file[f].mode
         /\ call[t].op = "write" => "w" \in file[f].mode
<1>1. call[t].op # "idle" /\ call[t].op \in {"read", "write"}
  BY DEF Transferring
<1>2. /\ IInv /\ t \in Users[f] /\ IsOpen(f) /\ call[t] \in CallType
      /\ file[f].pos = call[t].pos
  BY <1>1, Runner
<1>3. GoodCall(t) /\ file[f].dev \in Devices /\ Size[file[f].dev] \in Nat
  BY <1>2, OpenFile DEF IInv
<1>4. Seen(f, t) = [dev |-> file[f].dev, mode |-> file[f].mode,
                    start |-> call[t].pos,
                    next |-> call[t].pos + call[t].done]
  BY <1>2 DEF Seen
<1> QED BY <1>1, <1>2, <1>3, <1>4 DEF GoodCall, CallType, FMODE_READ, FMODE_WRITE

(* A byte more has been copied: the cursor moves on by one.                *)
LEMMA AdvanceMaps ==
  ASSUME Private, PrivateInv, IInv', NEW t \in Tasks, NEW f \in Files,
         call[t].file = f, Transferring(t), call[t].done < call[t].count,
         call' = [call EXCEPT ![t].done = @ + 1], UNCHANGED <<file, ret>>
  PROVE  PrivateInv' /\ Cursor!Advance(f) /\ cursors[f] = Seen(f, t)
<1> DEFINE k == call[t].done + 1
           n == call[t].pos + call[t].done
<1>1. /\ IInv /\ t \in Users[f] /\ IsOpen(f)
      /\ call[t].pos \in Nat /\ call[t].done \in Nat /\ call[t].count \in Nat
      /\ Size[file[f].dev] \in Nat
      /\ call[t].pos + call[t].count <= Size[file[f].dev]
      /\ Seen(f, t) = [dev |-> file[f].dev, mode |-> file[f].mode,
                       start |-> call[t].pos, next |-> n]
  BY Transfer
<1>2. n \in Nat /\ n < Size[file[f].dev] /\ call[t].pos + k = n + 1
  BY <1>1
<1>3. call' = [call EXCEPT ![t].done = k]
  OBVIOUS
<1> HIDE DEF k, n
<1>4. /\ call'[t].op = call[t].op /\ call'[t].file = f
      /\ call'[t].pos = call[t].pos /\ call'[t].done = k
      /\ \A u \in Tasks : u # t => call'[u] = call[u] /\ ret'[u] = ret[u]
  BY <1>1, <1>3 DEF IInv, TypeOK, CallType
<1>5. Transferring(t)' /\ file'[f] = file[f] /\ file[f].pos = call[t].pos
  BY <1>1, <1>4 DEF Transferring, PrivateInv, Owned
<1>6. /\ PrivateInv'
      /\ cursors[f] = Seen(f, t) /\ results[f] = Heard(t)
      /\ cursors' = [cursors EXCEPT ![f] = Seen(f, t)']
      /\ results' = [results EXCEPT ![f] = Heard(t)']
  BY <1>1, <1>4, <1>5, Mapped
<1>7. Seen(f, t)' = [dev |-> file[f].dev, mode |-> file[f].mode,
                     start |-> call[t].pos, next |-> n + 1]
  BY <1>2, <1>4, <1>5 DEF Seen
<1>8. Seen(f, t)' = [Seen(f, t) EXCEPT !.next = n + 1]
  BY <1>1, <1>7, Advanced
<1>9. cursors[f].next = n /\ cursors[f].dev = file[f].dev
  BY <1>1, <1>6
<1>10. cursors' = [cursors EXCEPT ![f].next = @ + 1]
  BY <1>6, <1>8, <1>9 DEF cursors
<1>11. Heard(t)' = Heard(t)
  BY DEF Heard
<1>12. results' = results
  BY <1>6, <1>11 DEF results
<1> QED BY <1>2, <1>6, <1>9, <1>10, <1>12 DEF Cursor!Advance, cursors, results

LEMMA CopyToUserMaps ==
  ASSUME Private, PrivateInv, IInv', NEW t \in Tasks, NEW f \in Files,
         call[t].file = f, CopyToUser(t)
  PROVE  PrivateInv' /\ Cursor!ReadByte(f)
<1>1. /\ Transferring(t) /\ call[t].op = "read" /\ call[t].done < call[t].count
      /\ call' = [call EXCEPT ![t].done = @ + 1] /\ UNCHANGED <<mem, file, ret>>
  BY DEF CopyToUser, Transferring
<1>2. PrivateInv' /\ Cursor!Advance(f) /\ cursors[f] = Seen(f, t)
  BY <1>1, AdvanceMaps
<1>3. "r" \in cursors[f].mode
  BY <1>1, <1>2, Transfer
<1> QED BY <1>1, <1>2, <1>3 DEF Cursor!ReadByte, cursors

LEMMA CopyFromUserMaps ==
  ASSUME Private, PrivateInv, IInv', NEW t \in Tasks, NEW f \in Files,
         call[t].file = f, CopyFromUser(t)
  PROVE  PrivateInv' /\ \E b \in Byte : Cursor!WriteByte(f, b)
<1>1. /\ Transferring(t) /\ call[t].op = "write" /\ call[t].done < call[t].count
      /\ call' = [call EXCEPT ![t].done = @ + 1] /\ UNCHANGED <<file, ret>>
  BY DEF CopyFromUser, Transferring
<1>2. PICK b \in Byte :
        mem' = [mem EXCEPT ![file[f].dev][call[t].pos + call[t].done] = b]
  BY DEF CopyFromUser
<1>3. PrivateInv' /\ Cursor!Advance(f) /\ cursors[f] = Seen(f, t)
  BY <1>1, AdvanceMaps
<1>4. /\ "w" \in cursors[f].mode /\ cursors[f].dev = file[f].dev
      /\ cursors[f].next = call[t].pos + call[t].done
  BY <1>1, <1>3, Transfer
<1>5. Cursor!WriteByte(f, b)
  BY <1>2, <1>3, <1>4 DEF Cursor!WriteByte, cursors
<1> QED BY <1>3, <1>5

(* A fault leaves the file where it stood.                                 *)
LEMMA FaultMaps ==
  ASSUME Private, PrivateInv, IInv', NEW t \in Tasks, NEW f \in Files,
         call[t].file = f, Transferring(t), Return(t, EFAULT), file' = file
  PROVE  /\ PrivateInv' /\ cursors[f] = Seen(f, t) /\ cursors[f].dev # None
         /\ cursors' = [cursors EXCEPT ![f].next = cursors[f].start]
         /\ Cursor!Returns(f, Cursor!Error)
<1> DEFINE n == call[t].pos + call[t].done
<1>1. /\ IInv /\ t \in Users[f] /\ IsOpen(f)
      /\ Seen(f, t) = [dev |-> file[f].dev, mode |-> file[f].mode,
                       start |-> call[t].pos, next |-> n]
  BY Transfer
<1> HIDE DEF n
<1>2. EFAULT \in Int /\ EFAULT < 0
  BY DEF EFAULT
<1>3. /\ call'[t].op = "idle" /\ ret'[t] = EFAULT /\ ~Transferring(t)'
      /\ \A u \in Tasks : u # t => call'[u] = call[u] /\ ret'[u] = ret[u]
  BY <1>1, <1>2, Returned
<1>4. /\ PrivateInv'
      /\ cursors[f] = Seen(f, t)
      /\ cursors' = [cursors EXCEPT ![f] = Seen(f, t)']
      /\ results' = [results EXCEPT ![f] = Heard(t)']
  BY <1>1, <1>3, Mapped
<1>5. file[f].pos = call[t].pos
  BY <1>1 DEF Seen
<1>6. Seen(f, t)' = [dev |-> file[f].dev, mode |-> file[f].mode,
                     start |-> call[t].pos, next |-> call[t].pos]
  BY <1>3, <1>5 DEF Seen
<1>7. Seen(f, t)' = [Seen(f, t) EXCEPT !.next = call[t].pos]
  BY <1>1, <1>6, Advanced
<1>8. cursors[f].start = call[t].pos /\ cursors[f].dev = file[f].dev
  BY <1>1, <1>4
<1>9. cursors' = [cursors EXCEPT ![f].next = cursors[f].start]
  BY <1>4, <1>7, <1>8 DEF cursors
<1>10. Heard(t)' = -1
  BY <1>2, <1>3 DEF Heard
<1>11. results' = [results EXCEPT ![f] = -1]
  BY <1>4, <1>10
<1> QED BY <1>1, <1>4, <1>8, <1>9, <1>11
    DEF Cursor!Returns, Cursor!Error, results, IsOpen

LEMMA ReadFaultMaps ==
  ASSUME Private, PrivateInv, IInv', NEW t \in Tasks, NEW f \in Files,
         call[t].file = f, ReadFault(t)
  PROVE  PrivateInv' /\ Cursor!Rollback(f)
<1>1. Transferring(t) /\ Return(t, EFAULT) /\ UNCHANGED <<mem, file>>
  BY DEF ReadFault, Transferring
<1> QED BY <1>1, FaultMaps DEF Cursor!Rollback, cursors

LEMMA WriteFaultMaps ==
  ASSUME Private, PrivateInv, IInv', NEW t \in Tasks, NEW f \in Files,
         call[t].file = f, WriteFault(t)
  PROVE  PrivateInv' /\ Cursor!Rollback(f)
<1> DEFINE d == file[f].dev
           first == call[t].pos + call[t].done
           last == call[t].pos + call[t].count - 1
<1>1. /\ Transferring(t) /\ call[t].op = "write" /\ call[t].done < call[t].count
      /\ Return(t, EFAULT) /\ file' = file
      /\ mem' = [mem EXCEPT ![d] = [i \in DOMAIN @ |->
                                      IF i \in first .. last THEN Zero ELSE @[i]]]
  BY DEF WriteFault, Transferring
<1>2. /\ PrivateInv' /\ cursors[f] = Seen(f, t) /\ cursors[f].dev # None
      /\ cursors' = [cursors EXCEPT ![f].next = cursors[f].start]
      /\ Cursor!Returns(f, Cursor!Error)
  BY <1>1, FaultMaps
<1>3. "w" \in cursors[f].mode /\ cursors[f].dev = d /\ cursors[f].next = first
  BY <1>1, <1>2, Transfer
<1>4. last \in first .. Size[d] - 1
  BY <1>1, Transfer
<1> HIDE DEF d, first, last
<1>5. \E end \in cursors[f].next .. Size[cursors[f].dev] - 1 :
        mem' = [mem EXCEPT ![cursors[f].dev] = [i \in DOMAIN @ |->
                  IF i \in cursors[f].next .. end THEN Zero ELSE @[i]]]
  BY <1>1, <1>3, <1>4
<1> QED BY <1>2, <1>3, <1>5 DEF Cursor!Rollback, cursors

(* A call that returns has moved the file by what it returns.              *)
LEMMA EndTransferMaps ==
  ASSUME Private, PrivateInv, IInv', NEW t \in Tasks, NEW f \in Files,
         call[t].file = f, EndTransfer(t)
  PROVE  PrivateInv' /\ Cursor!Settle(f)
<1> DEFINE p == call[t].pos
           c == call[t].count
           n == p + c
<1>1. /\ Transferring(t) /\ call[t].done = c /\ Return(t, c) /\ mem' = mem
      /\ file' = [file EXCEPT ![f].pos = n]
  BY DEF EndTransfer, Transferring
<1>2. /\ IInv /\ t \in Users[f] /\ IsOpen(f) /\ p \in Nat /\ c \in Nat
      /\ Seen(f, t) = [dev |-> file[f].dev, mode |-> file[f].mode,
                       start |-> p, next |-> n]
  BY <1>1, Transfer
<1>3. n - p = c /\ ~(c < 0) /\ c \in Int
  BY <1>2
<1> HIDE DEF n
<1>4. /\ call'[t].op = "idle" /\ ret'[t] = c /\ ~Transferring(t)'
      /\ \A u \in Tasks : u # t => call'[u] = call[u] /\ ret'[u] = ret[u]
  BY <1>1, <1>2, <1>3, Returned
<1>5. /\ file'[f].pos = n /\ file'[f].dev = file[f].dev
      /\ file'[f].mode = file[f].mode
      /\ \A g \in Files : g # f => file'[g] = file[g]
  BY <1>1, <1>2 DEF IInv, TypeOK, FileType
<1>6. /\ PrivateInv'
      /\ cursors[f] = Seen(f, t)
      /\ cursors' = [cursors EXCEPT ![f] = Seen(f, t)']
      /\ results' = [results EXCEPT ![f] = Heard(t)']
  BY <1>2, <1>4, <1>5, Mapped
<1>7. Seen(f, t)' = [dev |-> file[f].dev, mode |-> file[f].mode,
                     start |-> n, next |-> n]
  BY <1>4, <1>5 DEF Seen
<1>8. Seen(f, t)' = [Seen(f, t) EXCEPT !.start = n]
  BY <1>2, <1>7, Started
<1>9. /\ cursors[f].next = n /\ cursors[f].start = p
      /\ cursors[f].dev = file[f].dev
  BY <1>2, <1>6
<1>10. cursors' = [cursors EXCEPT ![f].start = cursors[f].next]
  BY <1>6, <1>8, <1>9 DEF cursors
<1>11. Heard(t)' = c
  BY <1>3, <1>4 DEF Heard
<1>12. results' = [results EXCEPT ![f] = cursors[f].next - cursors[f].start]
  BY <1>3, <1>6, <1>9, <1>11
<1> QED BY <1>1, <1>2, <1>6, <1>9, <1>10, <1>12
    DEF Cursor!Settle, Cursor!Returns, cursors, results, IsOpen

-----------------------------------------------------------------------------
LEMMA InitMaps == ASSUME Private PROVE Init => PrivateInv /\ Cursor!Init
<1> SUFFICES ASSUME Init PROVE PrivateInv /\ Cursor!Init
  OBVIOUS
<1>1. \A t \in Tasks : call[t].op = "idle" /\ ret[t] = 0 /\ ~Transferring(t)
  BY DEF Init, Idle, Transferring
<1>2. PrivateInv
  BY <1>1, InitGood DEF PrivateInv, Owned
<1>3. ASSUME NEW f \in Files
      PROVE  /\ CursorOf(f) = [dev |-> None, mode |-> {}, start |-> 0, next |-> 0]
             /\ ResultOf(f) = 0
  <2>1. PICK t \in Users[f] : t \in Tasks
    BY DEF Private
  <2>2. CursorOf(f) = Seen(f, t) /\ ResultOf(f) = Heard(t)
    BY <1>2, View DEF Views
  <2>3. file[f].dev = None /\ file[f].mode = {} /\ file[f].pos = 0
    BY DEF Init, Closed
  <2>4. Seen(f, t) = [dev |-> None, mode |-> {}, start |-> 0, next |-> 0]
    <3>1. ~Transferring(t)
      BY <1>1, <2>1
    <3>2. Seen(f, t) = [dev |-> file[f].dev, mode |-> file[f].mode,
                        start |-> file[f].pos, next |-> file[f].pos]
      BY <3>1 DEF Seen
    <3> QED BY <2>3, <3>2
  <2>5. ret[t] = 0 /\ ~(0 < 0)
    BY <1>1, <2>1
  <2>6. Heard(t) = 0
    BY <2>5 DEF Heard
  <2> QED BY <2>2, <2>4, <2>6
<1>4. mem = [d \in Devices |-> [i \in 0 .. Size[d] - 1 |-> Zero]]
  BY DEF Init
<1> QED BY <1>2, <1>3, <1>4 DEF Cursor!Init

(* Every step is one of the cursor or none.                                *)
LEMMA NextMaps ==
  ASSUME Private
  PROVE  PrivateInv /\ [Next]_vars => PrivateInv' /\ [Cursor!Next]_(Cursor!vars)
<1> SUFFICES ASSUME PrivateInv, [Next]_vars
             PROVE  PrivateInv' /\ [Cursor!Next]_(Cursor!vars)
  OBVIOUS
<1>1. IInv'
  BY NextGood DEF PrivateInv
<1>2. CASE UNCHANGED vars
  <2>1. PrivateInv'
    BY <1>1, <1>2 DEF vars, PrivateInv, Owned, Transferring
  <2>2. \A f \in Files : CursorOf(f)' = CursorOf(f) /\ ResultOf(f)' = ResultOf(f)
    BY <1>2 DEF vars, CursorOf, ResultOf, CallsOn, Transferring
  <2>3. UNCHANGED Cursor!vars
    BY <1>2, <2>2 DEF vars, Cursor!vars
  <2> QED BY <2>1, <2>3
<1>3. ASSUME NEW t \in Tasks, Issue(t)
      PROVE  PrivateInv' /\ [Cursor!Next]_(Cursor!vars)
  <2>1. PICK f \in Files :
          \/ \E d \in Devices, m \in AccModes : Open(t, f, d, m)
          \/ Release(t, f)
          \/ \E o \in Offsets, w \in {"SEEK_SET", "SEEK_CUR", "SEEK_END"} :
               BeginSeek(t, f, o, w)
          \/ \E n \in Counts : BeginRead(t, f, n)
          \/ \E n \in Counts : BeginWrite(t, f, n)
    BY <1>3 DEF Issue
  <2>2. t \in Users[f]
    BY <2>1 DEF Open, Release, BeginSeek, BeginRead, BeginWrite
  <2>3. ASSUME NEW d \in Devices, NEW m \in AccModes, Open(t, f, d, m)
        PROVE  PrivateInv' /\ [Cursor!Next]_(Cursor!vars)
    <3>1. m \in {{"r"}, {"w"}, {"r", "w"}}
      BY DEF AccModes, FMODE_READ, FMODE_WRITE
    <3> QED BY <1>1, <2>2, <2>3, <3>1, OpenMaps DEF Cursor!Next
  <2>4. CASE Release(t, f)
    BY <1>1, <2>2, <2>4, ReleaseMaps DEF Cursor!Next
  <2>5. ASSUME NEW o \in Offsets, NEW w \in {"SEEK_SET", "SEEK_CUR", "SEEK_END"},
               BeginSeek(t, f, o, w)
        PROVE  PrivateInv' /\ [Cursor!Next]_(Cursor!vars)
    BY <1>1, <2>2, <2>5, BeginSeekMaps DEF Cursor!Next
  <2>6. ASSUME NEW n \in Counts, BeginRead(t, f, n)
        PROVE  PrivateInv' /\ [Cursor!Next]_(Cursor!vars)
    BY <1>1, <2>2, <2>6, BeginReadMaps
  <2>7. ASSUME NEW n \in Counts, BeginWrite(t, f, n)
        PROVE  PrivateInv' /\ [Cursor!Next]_(Cursor!vars)
    BY <1>1, <2>2, <2>7, BeginWriteMaps DEF Cursor!Next
  <2> QED BY <2>1, <2>3, <2>4, <2>5, <2>6, <2>7
<1>4. ASSUME NEW t \in Tasks, Proceed(t)
      PROVE  PrivateInv' /\ [Cursor!Next]_(Cursor!vars)
  <2>1. call[t].op # "idle"
    BY <1>4 DEF Proceed, StoreSeek, ReturnSeek, CopyToUser, CopyFromUser,
                ReadFault, WriteFault, EndTransfer
  <2>2. PICK f \in Files : call[t].file = f
    BY <2>1, Runner
  <2>3. CASE StoreSeek(t) \/ ReturnSeek(t)
    BY <1>1, <2>2, <2>3, StoreSeekMaps, ReturnSeekMaps
  <2>4. CASE CopyToUser(t)
    BY <1>1, <2>2, <2>4, CopyToUserMaps DEF Cursor!Next
  <2>5. CASE CopyFromUser(t)
    BY <1>1, <2>2, <2>5, CopyFromUserMaps DEF Cursor!Next
  <2>6. CASE ReadFault(t) \/ WriteFault(t)
    BY <1>1, <2>2, <2>6, ReadFaultMaps, WriteFaultMaps DEF Cursor!Next
  <2>7. CASE EndTransfer(t)
    BY <1>1, <2>2, <2>7, EndTransferMaps DEF Cursor!Next
  <2> QED BY <1>4, <2>3, <2>4, <2>5, <2>6, <2>7 DEF Proceed
<1> QED BY <1>2, <1>3, <1>4 DEF Next

(* For its only user an open file is a cursor over the bytes of its        *)
(* device: reads, writes and seeks of any number of files on the same      *)
(* devices, with faults in the middle of copies, move and return what      *)
(* PcdCursor says (pcd_n.c:85-203).                                        *)
THEOREM Refinement == ASSUME Private PROVE Spec => ImplementsCursor
<1>1. Init => PrivateInv /\ Cursor!Init
  BY InitMaps
<1>2. PrivateInv /\ [Next]_vars => PrivateInv' /\ [Cursor!Next]_(Cursor!vars)
  BY NextMaps
<1> QED BY <1>1, <1>2, PTL DEF Spec, ImplementsCursor, Cursor!Spec
=============================================================================

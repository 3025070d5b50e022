--------------------------- MODULE PcdResizeProofs ---------------------------
(***************************************************************************)
(* Proofs about PcdResize, for any descriptions, sizes, counts, offsets    *)
(* and tasks: the typing, and that a transfer no store overlaps stays in   *)
(* the device's buffer. The lemmas take any count, for programs that       *)
(* compute theirs (DevReadProofs).                                         *)
(***************************************************************************)
EXTENDS PcdResize, TLAPS

USE DescriptionAssumption, InputAssumption

CallType == [op : {"idle", "read", "write"}, at : {"done", "load", "copy"},
             pos : Nat, max_size : Int, count : Int, buffer : Buffers,
             clean : BOOLEAN]

(* Between two stores the buffer has the device's size, or a store found   *)
(* no memory for it; during one the size is the one that is stored.        *)
GoodDevice ==
  IF store.at = "idle"
  THEN \/ dev.buffer = "live" /\ dev.len = dev.size
       \/ dev.buffer = "null" /\ dev.size # 0
  ELSE dev.size = store.size

(* A call that no store has overlapped works with the device's size, and   *)
(* copies from or to its buffer, as far as the size it loaded allows.      *)
GoodCall(t) ==
  /\ call[t].at # "done" /\ call[t].clean =>
       store.at = "idle" /\ call[t].max_size = dev.size
  /\ call[t].at = "copy" => call[t].pos + call[t].count <= call[t].max_size
  /\ call[t].at = "copy" /\ call[t].clean => call[t].buffer = dev.buffer

DriverInv == TypeOK /\ GoodDevice /\ \A t \in Tasks : GoodCall(t)

-----------------------------------------------------------------------------
(* What the steps of a task have in common.                                *)

(* A call that returns leaves the task idle and every other call alone.    *)
LEMMA Returns ==
  ASSUME TypeOK, NEW t \in Tasks, NEW r \in Int, Return(t, r)
  PROVE  /\ call' \in [Tasks -> CallType] /\ ret' \in [Tasks -> Int]
         /\ call'[t] = Idle /\ call'[t].at = "done" /\ ret'[t] = r
         /\ \A u \in Tasks : u # t => call'[u] = call[u] /\ ret'[u] = ret[u]
<1>1. Idle \in CallType /\ Idle.at = "done"
  BY DEF Idle, CallType, Buffers
<1>2. call \in [Tasks -> CallType] /\ ret \in [Tasks -> Int]
  BY DEF TypeOK, CallType
<1> QED BY <1>1, <1>2 DEF Return

(* A step of task t that leaves device and store alone.                    *)
LEMMA TaskStep ==
  ASSUME DriverInv, NEW t \in Tasks, TypeOK', GoodCall(t)', UNCHANGED <<dev, store>>,
         \A u \in Tasks : u # t => call'[u] = call[u]
  PROVE  DriverInv'
<1>1. GoodDevice'
  BY DEF DriverInv, GoodDevice
<1>2. ASSUME NEW u \in Tasks, u # t PROVE GoodCall(u)'
  BY <1>2 DEF DriverInv, GoodCall
<1> QED BY <1>1, <1>2 DEF DriverInv

LEMMA OpenGood ==
  ASSUME DriverInv, NEW t \in Tasks, NEW m \in AccModes, Open(t, m)
  PROVE  DriverInv'
<1>1. PICK r \in {0, EPERM} : Return(t, r)
  BY DEF Open
<1>2. r \in Int
  BY DEF EPERM
<1>3. /\ call' \in [Tasks -> CallType] /\ ret' \in [Tasks -> Int]
      /\ call'[t].at = "done" /\ \A u \in Tasks : u # t => call'[u] = call[u]
  BY <1>1, <1>2, Returns DEF DriverInv
<1>4. file' \in [Tasks -> [mode : AccModes \union {{}}, pos : Nat]]
  BY DEF DriverInv, TypeOK, Open
<1>5. TypeOK'
  BY <1>3, <1>4 DEF DriverInv, TypeOK, CallType, Open
<1> QED BY <1>3, <1>5, TaskStep DEF GoodCall, Open

LEMMA ReleaseGood ==
  ASSUME DriverInv, NEW t \in Tasks, Release(t)
  PROVE  DriverInv'
<1>1. /\ call' \in [Tasks -> CallType] /\ ret' \in [Tasks -> Int]
      /\ call'[t].at = "done" /\ \A u \in Tasks : u # t => call'[u] = call[u]
  BY Returns DEF DriverInv, Release
<1>2. Closed \in [mode : AccModes \union {{}}, pos : Nat]
  BY DEF Closed
<1>3. TypeOK'
  BY <1>1, <1>2 DEF DriverInv, TypeOK, CallType, Release
<1> QED BY <1>1, <1>3, TaskStep DEF GoodCall, Release

LEMMA SeekGood ==
  ASSUME DriverInv, NEW t \in Tasks, NEW base \in Int, NEW offset \in Int,
         Seek(t, base, offset)
  PROVE  DriverInv'
<1>1. PICK r \in Int : Return(t, r)
  BY DEF Seek, EINVAL
<1>2. /\ call' \in [Tasks -> CallType] /\ ret' \in [Tasks -> Int]
      /\ call'[t].at = "done" /\ \A u \in Tasks : u # t => call'[u] = call[u]
  BY <1>1, Returns DEF DriverInv
<1>3. file' \in [Tasks -> [mode : AccModes \union {{}}, pos : Nat]]
  <2>1. file \in [Tasks -> [mode : AccModes \union {{}}, pos : Nat]]
    BY DEF DriverInv, TypeOK
  <2>2. CASE SeekAllowed(base + offset)
    <3>1. base + offset \in Nat /\ file' = [file EXCEPT ![t].pos = base + offset]
      BY <2>2 DEF Seek, SeekAllowed
    <3> QED BY <2>1, <3>1
  <2>3. CASE ~SeekAllowed(base + offset)
    BY <2>1, <2>3 DEF Seek
  <2> QED BY <2>2, <2>3
<1>4. TypeOK'
  BY <1>2, <1>3 DEF DriverInv, TypeOK, CallType, Seek
<1> QED BY <1>2, <1>4, TaskStep DEF GoodCall, Seek

(* The size a transfer works with is the device's when it begins.          *)
LEMMA LoadSizeGood ==
  ASSUME DriverInv, NEW t \in Tasks, NEW op \in {"read", "write"}, NEW mode,
         NEW count \in Nat, LoadSize(t, op, mode, count)
  PROVE  DriverInv'
<1> DEFINE c == [op |-> op, at |-> "load", pos |-> file[t].pos,
                 max_size |-> dev.size, count |-> count, buffer |-> "null",
                 clean |-> store.at = "idle"]
<1>1. call' = [call EXCEPT ![t] = c] /\ call \in [Tasks -> CallType]
  BY DEF DriverInv, TypeOK, CallType, LoadSize
<1>2. c \in CallType
  BY DEF DriverInv, TypeOK, CallType, Buffers
<1>3. c.at = "load" /\ c.max_size = dev.size /\ (c.clean => store.at = "idle")
  OBVIOUS
<1> HIDE DEF c
<1>4. /\ call' \in [Tasks -> CallType] /\ call'[t] = c
      /\ \A u \in Tasks : u # t => call'[u] = call[u]
  BY <1>1, <1>2
<1>5. TypeOK'
  BY <1>4 DEF DriverInv, TypeOK, CallType, LoadSize
<1>6. GoodCall(t)'
  BY <1>3, <1>4 DEF GoodCall, LoadSize
<1> QED BY <1>4, <1>5, <1>6, TaskStep DEF LoadSize

(* What is left of a count after it was cut ends inside the size.          *)
LEMMA CutEnds ==
  ASSUME NEW pos \in Int, NEW count \in Int, NEW max_size \in Int
  PROVE  /\ Cut(pos, count, max_size) \in Int
         /\ pos + Cut(pos, count, max_size) <= max_size
BY DEF Cut

LEMMA LoadBufferGood ==
  ASSUME DriverInv, NEW t \in Tasks, LoadBuffer(t)
  PROVE  DriverInv'
<1> DEFINE count == Cut(call[t].pos, call[t].count, call[t].max_size)
           c == [call[t] EXCEPT !.at = "copy", !.count = count,
                                !.buffer = dev.buffer]
<1>1. /\ call \in [Tasks -> CallType] /\ call[t] \in CallType
      /\ dev.buffer \in Buffers
  BY DEF DriverInv, TypeOK, CallType
<1>2. count \in Int /\ call[t].pos + count <= call[t].max_size
  BY <1>1, CutEnds DEF CallType
<1>3. CASE Return(t, ENOMEM)
  <2>1. ENOMEM \in Int
    BY DEF ENOMEM
  <2>2. /\ call' \in [Tasks -> CallType] /\ ret' \in [Tasks -> Int]
        /\ call'[t].at = "done" /\ \A u \in Tasks : u # t => call'[u] = call[u]
    BY <1>3, <2>1, Returns DEF DriverInv
  <2>3. TypeOK'
    BY <2>2 DEF DriverInv, TypeOK, CallType, LoadBuffer
  <2> QED BY <2>2, <2>3, TaskStep DEF GoodCall, LoadBuffer
<1>4. CASE call' = [call EXCEPT ![t].at = "copy", ![t].count = count,
                                ![t].buffer = dev.buffer] /\ UNCHANGED ret
  <2>1. c \in CallType
    BY <1>1, <1>2 DEF CallType
  <2>2. /\ c.at = "copy" /\ c.pos = call[t].pos /\ c.count = count
        /\ c.max_size = call[t].max_size /\ c.buffer = dev.buffer
        /\ c.clean = call[t].clean
    BY <1>1 DEF CallType
  <2>3. call' = [call EXCEPT ![t] = c]
    BY <1>1, <1>4
  <2> HIDE DEF c
  <2>4. /\ call' \in [Tasks -> CallType] /\ call'[t] = c
        /\ \A u \in Tasks : u # t => call'[u] = call[u]
    BY <1>1, <2>1, <2>3
  <2>5. TypeOK'
    BY <1>4, <2>4 DEF DriverInv, TypeOK, CallType, LoadBuffer
  <2>6. call[t].at = "load"
    BY DEF LoadBuffer
  <2>7. GoodCall(t)'
    BY <1>2, <2>2, <2>4, <2>6 DEF DriverInv, GoodCall, LoadBuffer
  <2> QED BY <2>4, <2>5, <2>7, TaskStep DEF LoadBuffer
<1> QED BY <1>3, <1>4 DEF LoadBuffer

LEMMA EndTransferGood ==
  ASSUME DriverInv, NEW t \in Tasks, EndTransfer(t)
  PROVE  DriverInv'
<1>1. /\ call[t].pos \in Nat /\ call[t].count \in Nat
      /\ file \in [Tasks -> [mode : AccModes \union {{}}, pos : Nat]]
  BY DEF DriverInv, TypeOK, EndTransfer
<1>2. /\ call' \in [Tasks -> CallType] /\ ret' \in [Tasks -> Int]
      /\ call'[t].at = "done" /\ \A u \in Tasks : u # t => call'[u] = call[u]
  BY <1>1, Returns DEF DriverInv, EndTransfer
<1>3. file' \in [Tasks -> [mode : AccModes \union {{}}, pos : Nat]]
  BY <1>1 DEF EndTransfer
<1>4. TypeOK'
  BY <1>2, <1>3 DEF DriverInv, TypeOK, CallType, EndTransfer
<1> QED BY <1>2, <1>4, TaskStep DEF GoodCall, EndTransfer

LEMMA FaultGood ==
  ASSUME DriverInv, NEW t \in Tasks, Fault(t)
  PROVE  DriverInv'
<1>1. EFAULT \in Int
  BY DEF EFAULT
<1>2. /\ call' \in [Tasks -> CallType] /\ ret' \in [Tasks -> Int]
      /\ call'[t].at = "done" /\ \A u \in Tasks : u # t => call'[u] = call[u]
  BY <1>1, Returns DEF DriverInv, Fault
<1>3. TypeOK'
  BY <1>2 DEF DriverInv, TypeOK, CallType, Fault
<1> QED BY <1>2, <1>3, TaskStep DEF GoodCall, Fault

-----------------------------------------------------------------------------
(* A step of a store marks every running call as overlapped, and nothing   *)
(* else of it.                                                             *)
LEMMA StoreDisturbs ==
  ASSUME DriverInv, call' = Disturbed
  PROVE  /\ call' \in [Tasks -> CallType]
         /\ \A t \in Tasks : GoodCall(t)'
         /\ \A t \in Tasks : /\ call'[t].at = call[t].at
                             /\ call'[t].pos = call[t].pos
                             /\ call'[t].count = call[t].count
                             /\ call'[t].max_size = call[t].max_size
<1> DEFINE c(t) == [call[t] EXCEPT !.clean = call[t] = Idle]
<1>1. ASSUME NEW t \in Tasks
      PROVE  /\ c(t) \in CallType /\ c(t).at = call[t].at /\ c(t).pos = call[t].pos
             /\ c(t).count = call[t].count /\ c(t).max_size = call[t].max_size
             /\ c(t).clean = (call[t] = Idle)
  BY DEF DriverInv, TypeOK, CallType
<1>2. call' = [t \in Tasks |-> c(t)]
  BY DEF Disturbed
<1> HIDE DEF c
<1>3. call' \in [Tasks -> CallType] /\ \A t \in Tasks : call'[t] = c(t)
  BY <1>1, <1>2
<1>4. ASSUME NEW t \in Tasks PROVE GoodCall(t)'
  <2>1. call'[t].at # "done" => ~call'[t].clean
    <3>1. Idle.at = "done" /\ call'[t] = c(t)
      BY <1>3 DEF Idle
    <3>2. c(t).clean = (call[t] = Idle) /\ c(t).at = call[t].at
      BY <1>1
    <3> QED BY <3>1, <3>2
  <2>2. call'[t].at = "copy" => call'[t].pos + call'[t].count <= call'[t].max_size
    BY <1>1, <1>3 DEF DriverInv, GoodCall
  <2> QED BY <2>1, <2>2 DEF GoodCall
<1> QED BY <1>1, <1>3, <1>4

LEMMA StoreSizeGood ==
  ASSUME DriverInv, NEW result \in Int, StoreSize(result)
  PROVE  DriverInv'
<1>1. call' \in [Tasks -> CallType] /\ \A t \in Tasks : GoodCall(t)'
  BY StoreDisturbs DEF StoreSize
<1>2. TypeOK'
  BY <1>1 DEF DriverInv, TypeOK, CallType, StoreSize
<1>3. GoodDevice'
  BY DEF DriverInv, TypeOK, GoodDevice, StoreSize
<1> QED BY <1>1, <1>2, <1>3 DEF DriverInv

LEMMA FreeBufferGood ==
  ASSUME DriverInv, FreeBuffer
  PROVE  DriverInv'
<1>1. call' \in [Tasks -> CallType] /\ \A t \in Tasks : GoodCall(t)'
  BY StoreDisturbs DEF FreeBuffer
<1>2. TypeOK'
  BY <1>1 DEF DriverInv, TypeOK, CallType, Buffers, FreeBuffer
<1>3. GoodDevice'
  BY DEF DriverInv, TypeOK, GoodDevice, FreeBuffer
<1> QED BY <1>1, <1>2, <1>3 DEF DriverInv

LEMMA AllocateBufferGood ==
  ASSUME DriverInv, AllocateBuffer
  PROVE  DriverInv'
<1>1. call' \in [Tasks -> CallType] /\ \A t \in Tasks : GoodCall(t)'
  BY StoreDisturbs DEF AllocateBuffer
<1>2. dev' \in [size : Int, perm : Nat, len : Nat, buffer : Buffers]
  <2>1. dev \in [size : Int, perm : Nat, len : Nat, buffer : Buffers]
    BY DEF DriverInv, TypeOK
  <2>2. CASE store.size >= 0 /\ dev' = [dev EXCEPT !.buffer = "live", !.len = store.size]
    <3>1. store.size \in Nat
      BY <2>2 DEF DriverInv, TypeOK
    <3> QED BY <2>1, <2>2, <3>1 DEF Buffers
  <2>3. CASE dev' = [dev EXCEPT !.buffer = "null", !.len = 0]
    BY <2>1, <2>3 DEF Buffers
  <2> QED BY <2>2, <2>3 DEF AllocateBuffer
<1>3. TypeOK'
  BY <1>1, <1>2 DEF DriverInv, TypeOK, CallType, AllocateBuffer
<1>4. GoodDevice'
  BY DEF DriverInv, TypeOK, GoodDevice, AllocateBuffer
<1> QED BY <1>1, <1>3, <1>4 DEF DriverInv

-----------------------------------------------------------------------------
(* The steps of a task that issues calls with counts of its own, and the   *)
(* steps of the store.                                                     *)
LEMMA IssueGood ==
  ASSUME DriverInv, NEW t \in Tasks, Issue(t)
  PROVE  DriverInv'
<1>1. file[t].pos \in Int /\ dev.size \in Int
  BY DEF DriverInv, TypeOK
<1>2. ASSUME NEW offset \in Offsets, NEW base \in {0, file[t].pos, dev.size},
             Seek(t, base, offset)
      PROVE  DriverInv'
  BY <1>1, <1>2, SeekGood
<1>3. ASSUME NEW count \in Counts, BeginRead(t, count) \/ BeginWrite(t, count)
      PROVE  DriverInv'
  BY <1>3, LoadSizeGood DEF BeginRead, BeginWrite
<1> QED BY <1>2, <1>3, OpenGood, ReleaseGood DEF Issue

LEMMA ProceedGood ==
  ASSUME DriverInv, NEW t \in Tasks, Proceed(t)
  PROVE  DriverInv'
BY LoadBufferGood, EndTransferGood, FaultGood DEF Proceed

LEMMA StoreGood ==
  ASSUME DriverInv, (\E result \in Sizes : StoreSize(result)) \/ StoreProceeds
  PROVE  DriverInv'
BY StoreSizeGood, FreeBufferGood, AllocateBufferGood DEF StoreProceeds

LEMMA StutterGood ==
  ASSUME DriverInv, UNCHANGED vars
  PROVE  DriverInv'
BY DEF DriverInv, TypeOK, GoodDevice, GoodCall, vars

LEMMA InitDriver == Init => DriverInv
<1> SUFFICES ASSUME Init PROVE DriverInv
  OBVIOUS
<1>1. Idle \in CallType /\ Idle.at = "done"
  BY DEF Idle, CallType, Buffers
<1>2. Closed \in [mode : AccModes \union {{}}, pos : Nat]
  BY DEF Closed
<1>3. PICK x \in Descriptions :
        dev = [size |-> x.size, perm |-> Permission(x), len |-> x.size,
               buffer |-> "live"]
  BY DEF Init
<1>4. x.size \in Nat /\ Permission(x) \in Nat
  BY DEF Description, Permission, RDONLY, WRONLY, RDWR
<1>5. TypeOK
  BY <1>1, <1>2, <1>3, <1>4 DEF Init, TypeOK, CallType, Buffers
<1>6. GoodDevice /\ \A t \in Tasks : GoodCall(t)
  BY <1>1, <1>3 DEF Init, GoodDevice, GoodCall
<1> QED BY <1>5, <1>6 DEF DriverInv

LEMMA NextDriver == DriverInv /\ [Next]_vars => DriverInv'
BY IssueGood, ProceedGood, StoreGood, StutterGood DEF Next

(* A transfer that is good copies inside the buffer.                       *)
LEMMA GoodCopies == DriverInv => CopiesInBuffer
<1> SUFFICES ASSUME DriverInv, NEW t \in Tasks,
                    call[t].at = "copy", call[t].clean, call[t].count > 0
             PROVE  \/ call[t].buffer = "live" /\ call[t].pos + call[t].count <= dev.len
                    \/ call[t].buffer = "null" /\ dev.size > 0
  BY DEF CopiesInBuffer
<1>1. /\ store.at = "idle" /\ call[t].buffer = dev.buffer
      /\ call[t].pos + call[t].count <= dev.size
  BY DEF DriverInv, GoodCall
<1>2. call[t].pos \in Nat /\ call[t].count \in Int /\ dev.size \in Int
  BY DEF DriverInv, TypeOK
<1> QED BY <1>1, <1>2 DEF DriverInv, GoodDevice

(* Whatever is stored in max_size and whenever, a read or write that no    *)
(* store overlaps copies inside the device's buffer                        *)
(* (pcd_syscalls.c:51-56, 83-95; pcd_platform_driver_dt_sysfs.c:64-74).    *)
THEOREM Copies == Spec => [](TypeOK /\ CopiesInBuffer)
<1>1. DriverInv => TypeOK /\ CopiesInBuffer
  BY GoodCopies DEF DriverInv
<1> QED BY <1>1, InitDriver, NextDriver, PTL DEF Spec
=============================================================================

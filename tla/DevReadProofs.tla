---------------------------- MODULE DevReadProofs ----------------------------
(***************************************************************************)
(* Proofs about DevRead, for any devices that fit in the program's buffer, *)
(* any requests and any other processes: the driver's guarantee goes on    *)
(* under the program, the program's reads stay in its buffer, and without  *)
(* a resize it reads what is there.                                        *)
(***************************************************************************)
EXTENDS DevRead, PcdResizeProofs

USE ReaderAssumption, RequestAssumption, FitsAssumption

ProgType == [pc : {"idle", "loop", "reading", "end"}, n : 0 .. 2,
             remaining : Int, total_read : Int, requested : Int,
             failed : BOOLEAN, resized : BOOLEAN]

(* The program is in a read with arguments, or has its answer.             *)
InRead(at) == prog.pc = "reading" /\ call[reader].at = at

ProgInv == prog \in ProgType /\ (prog.pc = "reading" => prog.n # 2)

(* The sizes the device has, and the program's read works with, fit.       *)
Fits ==
  /\ dev.size <= BufSize
  /\ InRead("load") \/ InRead("copy") => call[reader].max_size <= BufSize

(* Unless a read has failed, the file is at the bytes read so far.         *)
InPlace ==
  ~prog.failed =>
    /\ prog.pc = "loop" => file[reader].pos = prog.total_read
    /\ InRead("load") \/ InRead("copy") => call[reader].pos = prog.total_read
    /\ InRead("done") /\ ret[reader] >= 0 =>
         file[reader].pos = prog.total_read + ret[reader]

(* What ReadsWhatIsThere is about.                                         *)
Undisturbed ==
  /\ prog.pc # "idle" /\ ~prog.failed /\ ~prog.resized
  /\ prog.requested >= 0 /\ dev.size >= 0

HasAll ==
  prog.total_read = IF prog.requested > dev.size THEN dev.size ELSE prog.requested

(* The first read brings all there is, and a second one nothing.           *)
Obtains ==
  Undisturbed =>
    /\ prog.remaining = prog.requested - prog.total_read
    /\ (prog.n = 0 /\ prog.total_read = 0) \/ HasAll
    /\ prog.pc = "reading" => prog.remaining > 0
    /\ InRead("load") => /\ call[reader].count = prog.remaining
                         /\ call[reader].max_size = dev.size
    /\ InRead("copy") =>
         call[reader].count = Cut(prog.total_read, prog.remaining, dev.size)
    /\ InRead("done") =>
         \/ ret[reader] < 0
         \/ ret[reader] = Cut(prog.total_read, prog.remaining, dev.size)
    /\ prog.pc = "end" /\ IsOpen(reader) => HasAll

ReaderInv == DriverInv /\ ProgInv /\ Fits /\ InPlace /\ Obtains

-----------------------------------------------------------------------------
(* The types of what the lemmas compute with.                              *)
LEMMA ReaderTypes ==
  ASSUME ReaderInv
  PROVE  /\ prog.n \in 0 .. 2 /\ prog.remaining \in Int
         /\ prog.total_read \in Int /\ prog.requested \in Int
         /\ dev.size \in Int /\ file[reader].pos \in Nat /\ ret[reader] \in Int
         /\ call[reader].pos \in Nat /\ call[reader].count \in Int
         /\ call[reader].max_size \in Int
         /\ call[reader].at \in {"done", "load", "copy"}
BY DEF ReaderInv, DriverInv, TypeOK, ProgInv, ProgType

(* An open leaves the file at its start, or not open at all.               *)
LEMMA Opened ==
  ASSUME DriverInv, NEW m \in AccModes, Open(reader, m)
  PROVE  /\ \/ ret'[reader] = 0 /\ file'[reader].pos = 0
            \/ ret'[reader] # 0 /\ ~IsOpen(reader)'
         /\ dev' = dev
<1>1. EPERM \in Int /\ EPERM # 0
  BY DEF EPERM
<1>2. CASE check_permission(dev.perm, m)
  <2>1. ret'[reader] = 0
    BY <1>2, Returns DEF Open, DriverInv
  <2>2. file'[reader].pos = 0
    BY <1>2 DEF Open, DriverInv, TypeOK
  <2> QED BY <2>1, <2>2 DEF Open
<1>3. CASE ~check_permission(dev.perm, m)
  <2>1. ret'[reader] = EPERM
    BY <1>1, <1>3, Returns DEF Open, DriverInv
  <2>2. ~IsOpen(reader)'
    BY <1>3 DEF Open, IsOpen
  <2> QED BY <1>1, <2>1, <2>2 DEF Open
<1> QED BY <1>2, <1>3

LEMMA LaunchGood ==
  ASSUME ReaderInv, Launch
  PROVE  ReaderInv'
<1>1. {FMODE_READ} \in AccModes /\ DriverInv /\ Open(reader, {FMODE_READ})
  BY DEF AccModes, ReaderInv, Launch
<1>2. DriverInv'
  BY <1>1, OpenGood
<1>3. PICK request \in Requests :
        prog' = Start(request, IF ret'[reader] = 0 THEN "loop" ELSE "end")
  BY DEF Launch
<1>4. /\ prog'.pc = (IF ret'[reader] = 0 THEN "loop" ELSE "end")
      /\ prog'.n = 0 /\ prog'.total_read = 0
      /\ prog'.remaining = request /\ prog'.requested = request
  BY <1>3 DEF Start
<1>5. prog' \in ProgType
  BY <1>3 DEF Start, ProgType
<1>6. ProgInv'
  BY <1>4, <1>5 DEF ProgInv
<1>7. Fits' /\ InPlace' /\ Obtains'
  BY <1>1, <1>4, Opened DEF ReaderInv, Fits, InPlace, Obtains, InRead
<1> QED BY <1>2, <1>6, <1>7 DEF ReaderInv

LEMMA ReadGood ==
  ASSUME ReaderInv, Read
  PROVE  ReaderInv'
<1>1. prog' \in ProgType /\ prog' = [prog EXCEPT !.pc = "reading"]
  BY DEF ReaderInv, ProgInv, ProgType, Read
<1>2. /\ prog'.pc = "reading" /\ prog'.n = prog.n /\ prog'.remaining = prog.remaining
      /\ prog'.total_read = prog.total_read /\ prog'.requested = prog.requested
      /\ prog'.failed = prog.failed /\ prog'.resized = prog.resized
  BY <1>1 DEF ReaderInv, ProgInv, ProgType
<1>3. ProgInv'
  BY <1>1, <1>2 DEF ProgInv, Read
<1>4. CASE prog.remaining > 0
  <2>1. prog.remaining \in Nat /\ BeginRead(reader, prog.remaining)
    BY <1>4, ReaderTypes DEF Read
  <2>2. DriverInv'
    BY <2>1, LoadSizeGood DEF BeginRead, ReaderInv
  <2>3. /\ call'[reader].at = "load" /\ call'[reader].pos = file[reader].pos
        /\ call'[reader].max_size = dev.size /\ call'[reader].count = prog.remaining
        /\ dev' = dev
    BY <2>1 DEF BeginRead, LoadSize, ReaderInv, DriverInv, TypeOK
  <2>4. Fits' /\ InPlace' /\ Obtains'
    BY <1>2, <1>4, <2>3
    DEF Read, ReaderInv, Fits, InPlace, Obtains, Undisturbed, HasAll, InRead
  <2> QED BY <1>3, <2>2, <2>4 DEF ReaderInv
<1>5. CASE ~(prog.remaining > 0)
  <2>1. Return(reader, EINVAL) /\ UNCHANGED <<dev, store, file>> /\ EINVAL \in Int
    BY <1>5 DEF Read, EINVAL
  <2>2. /\ call' \in [Tasks -> CallType] /\ ret' \in [Tasks -> Int]
        /\ call'[reader].at = "done" /\ ret'[reader] = EINVAL
        /\ \A u \in Tasks : u # reader => call'[u] = call[u]
    BY <2>1, Returns DEF ReaderInv, DriverInv
  <2>3. TypeOK'
    BY <2>1, <2>2 DEF ReaderInv, DriverInv, TypeOK, CallType
  <2>4. GoodCall(reader)'
    BY <2>2 DEF GoodCall
  <2>5. DriverInv'
    BY <2>1, <2>2, <2>3, <2>4, TaskStep DEF ReaderInv
  <2>6. ~Undisturbed
    BY <1>5, ReaderTypes DEF Read, ReaderInv, Obtains, Undisturbed, HasAll
  <2>7. Fits' /\ InPlace' /\ Obtains'
    BY <1>2, <2>1, <2>2, <2>6
    DEF Read, ReaderInv, Fits, InPlace, Obtains, Undisturbed, InRead, EINVAL
  <2> QED BY <1>3, <2>5, <2>7 DEF ReaderInv
<1> QED BY <1>4, <1>5

(* The program's record between two runs.                                  *)
LEMMA Restarted ==
  LET q == [Start(0, "idle") EXCEPT !.resized = FALSE]
  IN q \in ProgType /\ q.pc = "idle"
<1> DEFINE p == Start(0, "idle")
<1>1. p \in ProgType /\ p.pc = "idle"
  BY DEF Start, ProgType
<1> HIDE DEF p
<1>2. [p EXCEPT !.resized = FALSE] \in ProgType /\ [p EXCEPT !.resized = FALSE].pc = "idle"
  BY <1>1 DEF ProgType
<1> QED BY <1>2 DEF p

LEMMA ReturnedGood ==
  ASSUME ReaderInv, Returned
  PROVE  ReaderInv'
<1>1. UNCHANGED vars /\ DriverInv'
  BY StutterGood DEF Returned, ReaderInv
<1>2. InRead("done") /\ prog.n \in 0 .. 1 /\ ret[reader] \in Int /\ Result \in Int
  BY ReaderTypes DEF Returned, InRead, Idle, ReaderInv, ProgInv, Result
<1>3. UNCHANGED <<dev, file, call, ret>>
  BY <1>1 DEF vars
<1>4. CASE Result # 0 /\ AtMostRemaining(Result)
  <2> DEFINE n == prog.n + 1
             total == prog.total_read + Result
             left == prog.remaining - Result
             f == prog.failed \/ Result < 0
             p == [prog EXCEPT !.pc = "loop", !.n = n, !.total_read = total,
                               !.remaining = left, !.failed = f]
  <2>1. prog' = p
    BY <1>4 DEF Returned
  <2>2. prog \in ProgType /\ f \in BOOLEAN /\ (~f => ~prog.failed /\ Result >= 0)
    BY <1>2 DEF ReaderInv, ProgInv
  <2> HIDE DEF f
  <2>3. /\ p \in ProgType /\ p.pc = "loop" /\ p.n = prog.n + 1
        /\ p.total_read = prog.total_read + Result
        /\ p.remaining = prog.remaining - Result /\ p.requested = prog.requested
        /\ p.failed = f /\ p.resized = prog.resized
    <3>1. n \in 0 .. 2 /\ total \in Int /\ left \in Int
      BY <1>2, ReaderTypes
    <3> HIDE DEF n, total, left
    <3>2. /\ p \in ProgType /\ p.pc = "loop" /\ p.n = n /\ p.total_read = total
          /\ p.remaining = left /\ p.requested = prog.requested
          /\ p.failed = f /\ p.resized = prog.resized
      BY <2>2, <3>1 DEF ProgType
    <3> QED BY <3>2 DEF n, total, left
  <2> HIDE DEF p
  <2>4. ProgInv' /\ Fits' /\ InPlace'
    BY <1>2, <1>3, <2>1, <2>2, <2>3, ReaderTypes
    DEF ReaderInv, ProgInv, Fits, InPlace, InRead, Result
  <2>5. Obtains'
    <3>1. SUFFICES ASSUME Undisturbed'
                   PROVE  HasAll' /\ p.remaining = p.requested - p.total_read
      BY <2>1, <2>3 DEF Obtains, InRead
    <3>2. Undisturbed /\ Result >= 0
      BY <1>2, <1>3, <2>1, <2>2, <2>3, <3>1 DEF Undisturbed, InRead
    <3>3. Result = Cut(prog.total_read, prog.remaining, dev.size)
      BY <1>2, <3>2, ReaderTypes DEF ReaderInv, Obtains, Result
    <3>4. (prog.n = 0 /\ prog.total_read = 0) \/ HasAll
      BY <3>2 DEF ReaderInv, Obtains
    <3>5. prog.remaining = prog.requested - prog.total_read /\ prog.remaining > 0
      BY <1>2, <3>2 DEF ReaderInv, Obtains, InRead
    <3>6. prog.total_read + Result =
            IF prog.requested > dev.size THEN dev.size ELSE prog.requested
      BY <1>4, <3>2, <3>3, <3>4, <3>5, ReaderTypes DEF Cut, HasAll, Undisturbed
    <3> QED BY <1>2, <1>3, <2>1, <2>3, <3>5, <3>6, ReaderTypes DEF HasAll
  <2> QED BY <1>1, <2>4, <2>5 DEF ReaderInv
<1>5. CASE ~(Result # 0 /\ AtMostRemaining(Result))
  <2> DEFINE f == prog.failed \/ Result < 0
             p == [prog EXCEPT !.pc = "end", !.failed = f]
  <2>1. prog' = p
    BY <1>5 DEF Returned
  <2>2. prog \in ProgType /\ f \in BOOLEAN /\ (~f => ~prog.failed /\ Result >= 0)
    BY <1>2 DEF ReaderInv, ProgInv
  <2> HIDE DEF f
  <2>3. /\ p \in ProgType /\ p.pc = "end" /\ p.n = prog.n
        /\ p.total_read = prog.total_read
        /\ p.remaining = prog.remaining /\ p.requested = prog.requested
        /\ p.failed = f /\ p.resized = prog.resized
    BY <2>2 DEF ProgType
  <2> HIDE DEF p
  <2>4. ProgInv' /\ Fits' /\ InPlace'
    BY <1>3, <2>1, <2>3 DEF ReaderInv, ProgInv, Fits, InPlace, InRead
  <2>5. Obtains'
    <3>1. SUFFICES ASSUME Undisturbed'
                   PROVE  HasAll' /\ p.remaining = p.requested - p.total_read
      BY <2>1, <2>3 DEF Obtains, InRead
    <3>2. Undisturbed /\ Result >= 0
      BY <1>2, <1>3, <2>1, <2>2, <2>3, <3>1 DEF Undisturbed, InRead
    <3>3. Result = Cut(prog.total_read, prog.remaining, dev.size)
      BY <1>2, <3>2, ReaderTypes DEF ReaderInv, Obtains, Result
    <3>4. (prog.n = 0 /\ prog.total_read = 0) \/ HasAll
      BY <3>2 DEF ReaderInv, Obtains
    <3>5. prog.remaining = prog.requested - prog.total_read /\ prog.remaining > 0
      BY <1>2, <3>2 DEF ReaderInv, Obtains, InRead
    <3>6. Result <= prog.remaining
      BY <3>3, ReaderTypes DEF Cut
    <3>7. Result = 0
      BY <1>5, <3>6 DEF AtMostRemaining
    <3>8. HasAll
      BY <3>2, <3>3, <3>4, <3>5, <3>7, ReaderTypes DEF Cut, HasAll, Undisturbed
    <3> QED BY <1>3, <2>1, <2>3, <3>5, <3>8 DEF HasAll
  <2> QED BY <1>1, <2>4, <2>5 DEF ReaderInv
<1> QED BY <1>4, <1>5

LEMMA LoopEndsGood ==
  ASSUME ReaderInv, LoopEnds
  PROVE  ReaderInv'
<1>1. UNCHANGED vars /\ DriverInv'
  BY StutterGood DEF LoopEnds, ReaderInv
<1>2. UNCHANGED <<dev, file, call, ret>>
  BY <1>1 DEF vars
<1>3. /\ prog' \in ProgType /\ prog'.pc = "end" /\ prog'.n = prog.n
      /\ prog'.total_read = prog.total_read
      /\ prog'.remaining = prog.remaining /\ prog'.requested = prog.requested
      /\ prog'.failed = prog.failed /\ prog'.resized = prog.resized
  BY DEF LoopEnds, ReaderInv, ProgInv, ProgType
<1>4. ProgInv' /\ Fits' /\ InPlace'
  BY <1>2, <1>3 DEF ReaderInv, ProgInv, Fits, InPlace, InRead
<1>5. Undisturbed => HasAll
  BY ReaderTypes DEF LoopEnds, ReaderInv, Obtains, Undisturbed, HasAll
<1>6. Obtains'
  BY <1>2, <1>3, <1>5
  DEF LoopEnds, ReaderInv, Obtains, Undisturbed, HasAll, InRead
<1> QED BY <1>1, <1>4, <1>6 DEF ReaderInv

LEMMA ExitGood ==
  ASSUME ReaderInv, Exit
  PROVE  ReaderInv'
<1>1. DriverInv' /\ dev' = dev
  BY ReleaseGood, StutterGood DEF Exit, Release, ReaderInv, vars
<1>2. prog' \in ProgType /\ prog'.pc = "idle"
  BY Restarted DEF Exit
<1> QED BY <1>1, <1>2
    DEF ReaderInv, ProgInv, Fits, InPlace, Obtains, Undisturbed, InRead

-----------------------------------------------------------------------------
(* The driver's steps under a read of the program: the size cuts the       *)
(* count, and what is copied moves the file.                               *)
LEMMA ServeGood ==
  ASSUME ReaderInv, Serve
  PROVE  ReaderInv'
<1>1. DriverInv' /\ prog' = prog /\ prog.pc = "reading" /\ dev' = dev
  BY ProceedGood
  DEF Serve, ReaderInv, Proceed, LoadBuffer, EndTransfer, Fault
<1>2. ProgInv'
  BY <1>1 DEF ReaderInv, ProgInv
<1> SUFFICES Fits' /\ InPlace' /\ Obtains'
  BY <1>1, <1>2 DEF ReaderInv
<1>3. ASSUME NEW r \in Int, r < 0, Return(reader, r)
      PROVE  Fits' /\ InPlace' /\ Obtains'
  <2>1. call'[reader].at = "done" /\ ret'[reader] = r
    BY <1>3, Returns DEF ReaderInv, DriverInv
  <2> QED BY <1>1, <1>3, <2>1
      DEF ReaderInv, Fits, InPlace, Obtains, Undisturbed, HasAll, InRead
<1>4. ENOMEM \in Int /\ ENOMEM < 0 /\ EFAULT \in Int /\ EFAULT < 0
  BY DEF ENOMEM, EFAULT
<1>5. CASE LoadBuffer(reader)
  <2> DEFINE count == Cut(call[reader].pos, call[reader].count, call[reader].max_size)
  <2>1. CASE Return(reader, ENOMEM)
    BY <1>3, <1>4, <2>1
  <2>2. CASE call' = [call EXCEPT ![reader].at = "copy", ![reader].count = count,
                                  ![reader].buffer = dev.buffer]
    <3>1. /\ call'[reader].at = "copy" /\ call'[reader].count = count
          /\ call'[reader].pos = call[reader].pos
          /\ call'[reader].max_size = call[reader].max_size
      BY <2>2 DEF ReaderInv, DriverInv, TypeOK
    <3>2. InRead("load")
      BY <1>1, <1>5 DEF LoadBuffer, InRead
    <3> HIDE DEF count
    <3>3. Fits' /\ InPlace'
      BY <1>1, <3>1, <3>2 DEF ReaderInv, Fits, InPlace, InRead
    <3>4. Undisturbed => count = Cut(prog.total_read, prog.remaining, dev.size)
      BY <3>2 DEF count, ReaderInv, InPlace, Obtains, Undisturbed
    <3>5. Obtains'
      BY <1>1, <3>1, <3>4 DEF ReaderInv, Obtains, Undisturbed, HasAll, InRead
    <3> QED BY <3>3, <3>5
  <2> QED BY <1>1, <1>5, <2>1, <2>2 DEF LoadBuffer
<1>6. CASE EndTransfer(reader)
  <2>1. InRead("copy") /\ call[reader].count >= 0
    BY <1>1, <1>6 DEF EndTransfer, InRead
  <2>2. call'[reader].at = "done" /\ ret'[reader] = call[reader].count
    BY <1>6, Returns, ReaderTypes DEF EndTransfer, ReaderInv, DriverInv
  <2>3. file'[reader].pos = call[reader].pos + call[reader].count
    BY <1>6 DEF EndTransfer, ReaderInv, DriverInv, TypeOK
  <2>4. Fits' /\ InPlace' /\ Obtains'
    BY <1>1, <2>1, <2>2, <2>3
    DEF ReaderInv, Fits, InPlace, Obtains, Undisturbed, HasAll, InRead
  <2> QED BY <2>4
<1>7. CASE Fault(reader)
  BY <1>3, <1>4, <1>7 DEF Fault
<1> QED BY <1>5, <1>6, <1>7 DEF Serve, Proceed

-----------------------------------------------------------------------------
(* What another process does to its own file is nothing to the reader.     *)
LEMMA OwnCallOnly ==
  ASSUME DriverInv, NEW t \in Tasks, NEW u \in Tasks, u # t, Issue(t) \/ Proceed(t)
  PROVE  call'[u] = call[u] /\ ret'[u] = ret[u] /\ file'[u] = file[u] /\ dev' = dev
<1>1. /\ call \in [Tasks -> CallType] /\ ret \in [Tasks -> Int]
      /\ file \in [Tasks -> [mode : AccModes \union {{}}, pos : Nat]]
  BY DEF DriverInv, TypeOK, CallType
<1>2. ASSUME NEW r, Return(t, r) PROVE call'[u] = call[u] /\ ret'[u] = ret[u]
  BY <1>1, <1>2 DEF Return
<1>3. ASSUME NEW m \in AccModes, Open(t, m)
      PROVE  call'[u] = call[u] /\ ret'[u] = ret[u] /\ file'[u] = file[u] /\ dev' = dev
  BY <1>1, <1>2, <1>3 DEF Open
<1>4. ASSUME NEW base, NEW offset, Seek(t, base, offset)
      PROVE  call'[u] = call[u] /\ ret'[u] = ret[u] /\ file'[u] = file[u] /\ dev' = dev
  BY <1>1, <1>2, <1>4 DEF Seek
<1>5. ASSUME NEW op, NEW mode, NEW count, LoadSize(t, op, mode, count)
      PROVE  call'[u] = call[u] /\ ret'[u] = ret[u] /\ file'[u] = file[u] /\ dev' = dev
  BY <1>1, <1>5 DEF LoadSize
<1>6. CASE Release(t)
  BY <1>1, <1>2, <1>6 DEF Release
<1>7. CASE LoadBuffer(t)
  BY <1>1, <1>2, <1>7 DEF LoadBuffer
<1>8. CASE EndTransfer(t)
  BY <1>1, <1>2, <1>8 DEF EndTransfer
<1>9. CASE Fault(t)
  BY <1>1, <1>2, <1>9 DEF Fault
<1> QED BY <1>3, <1>4, <1>5, <1>6, <1>7, <1>8, <1>9
    DEF Issue, Proceed, BeginRead, BeginWrite

LEMMA OthersGood ==
  ASSUME ReaderInv, Others
  PROVE  ReaderInv'
<1>1. PICK t \in Tasks : (t = reader => prog.pc = "idle") /\ (Issue(t) \/ Proceed(t))
  BY DEF Others
<1>2. DriverInv' /\ ProgInv' /\ prog' = prog
  BY <1>1, IssueGood, ProceedGood DEF Others, ReaderInv, ProgInv
<1>3. dev' = dev
  BY <1>1 DEF Issue, Proceed, Open, Release, Seek, BeginRead, BeginWrite, LoadSize,
              LoadBuffer, EndTransfer, Fault
<1>4. CASE prog.pc = "idle"
  BY <1>2, <1>3, <1>4
  DEF ReaderInv, Fits, InPlace, Obtains, Undisturbed, InRead
<1>5. CASE t # reader
  <2>1. call'[reader] = call[reader] /\ ret'[reader] = ret[reader]
        /\ file'[reader] = file[reader]
    BY <1>1, <1>5, OwnCallOnly DEF ReaderInv
  <2> QED BY <1>2, <1>3, <2>1
      DEF ReaderInv, Fits, InPlace, Obtains, Undisturbed, HasAll, InRead, IsOpen
<1> QED BY <1>1, <1>4, <1>5

(* A store changes the size to one that fits, and the program's run is     *)
(* then no longer undisturbed.                                             *)
LEMMA ResizeGood ==
  ASSUME ReaderInv, Resize
  PROVE  ReaderInv'
<1>1. DriverInv'
  BY StoreGood DEF Resize, ReaderInv
<1>2. (prog.resized \/ prog.pc # "idle") \in BOOLEAN
  OBVIOUS
<1>3. /\ prog' \in ProgType /\ prog'.pc = prog.pc /\ prog'.n = prog.n
      /\ prog'.total_read = prog.total_read /\ prog'.failed = prog.failed
      /\ prog'.resized = (prog.resized \/ prog.pc # "idle")
  BY <1>2 DEF Resize, ReaderInv, ProgInv, ProgType
<1>4. call' = Disturbed /\ UNCHANGED <<file, ret>>
  BY DEF Resize, StoreSize, StoreProceeds, FreeBuffer, AllocateBuffer
<1>5. /\ call'[reader].at = call[reader].at /\ call'[reader].pos = call[reader].pos
      /\ call'[reader].max_size = call[reader].max_size
  BY <1>4, StoreDisturbs DEF ReaderInv
<1>6. dev'.size <= BufSize
  <2>1. dev.size <= BufSize /\ dev \in [size : Int, perm : Nat, len : Nat, buffer : Buffers]
    BY DEF ReaderInv, Fits, DriverInv, TypeOK
  <2>2. ASSUME NEW result \in Sizes, StoreSize(result) PROVE dev'.size <= BufSize
    BY <2>1, <2>2 DEF StoreSize
  <2>3. CASE StoreProceeds
    BY <2>1, <2>3 DEF StoreProceeds, FreeBuffer, AllocateBuffer
  <2> QED BY <2>2, <2>3 DEF Resize
<1>7. ProgInv' /\ Fits' /\ InPlace'
  BY <1>3, <1>4, <1>5, <1>6 DEF ReaderInv, ProgInv, Fits, InPlace, InRead
<1>8. ~Undisturbed'
  BY <1>3 DEF Undisturbed
<1> QED BY <1>1, <1>7, <1>8 DEF ReaderInv, Obtains

-----------------------------------------------------------------------------
LEMMA InitReader == DevReadInit => ReaderInv
<1> SUFFICES ASSUME DevReadInit PROVE ReaderInv
  OBVIOUS
<1>1. DriverInv
  BY InitDriver DEF DevReadInit
<1>2. prog \in ProgType /\ prog.pc = "idle"
  BY Restarted DEF DevReadInit
<1>3. dev.size <= BufSize
  BY DEF DevReadInit, Init
<1> QED BY <1>1, <1>2, <1>3
    DEF ReaderInv, ProgInv, Fits, InPlace, Obtains, Undisturbed, InRead

LEMMA NextReader == ReaderInv /\ [DevReadNext]_progVars => ReaderInv'
<1>1. ASSUME ReaderInv, UNCHANGED progVars PROVE ReaderInv'
  <2>1. DriverInv' /\ UNCHANGED <<dev, store, file, call, ret, prog>>
    BY <1>1, StutterGood DEF ReaderInv, progVars, vars
  <2> QED BY <1>1, <2>1
      DEF ReaderInv, ProgInv, Fits, InPlace, Obtains, Undisturbed, HasAll, InRead, IsOpen
<1> QED BY <1>1, LaunchGood, ReadGood, ReturnedGood, LoopEndsGood, ExitGood,
           ServeGood, OthersGood, ResizeGood DEF DevReadNext, Program

(* The bytes of a read that has not failed yet land in the program's       *)
(* buffer, and one that fetched no error tells the truth about the size.   *)
LEMMA ReaderHolds ==
  ASSUME ReaderInv
  PROVE  DevReadTypeOK /\ CopiesInBuffer /\ BufferHolds /\ ReadsWhatIsThere
<1>1. DevReadTypeOK /\ CopiesInBuffer
  BY GoodCopies
  DEF ReaderInv, DevReadTypeOK, DriverInv, ProgInv, ProgOK, ProgType
<1>2. BufferHolds
  <2>1. SUFFICES ASSUME prog.pc = "reading", call[reader].at = "copy", ~prog.failed
                 PROVE  prog.total_read >= 0
                        /\ prog.total_read + call[reader].count <= BufSize
    BY DEF BufferHolds
  <2>2. /\ call[reader].pos = prog.total_read /\ call[reader].max_size <= BufSize
        /\ call[reader].pos + call[reader].count <= call[reader].max_size
    BY <2>1 DEF ReaderInv, DriverInv, GoodCall, Fits, InPlace, InRead
  <2> QED BY <2>2, ReaderTypes
<1>3. ReadsWhatIsThere
  BY ReaderTypes DEF ReadsWhatIsThere, ReaderInv, Obtains, Undisturbed, HasAll
<1> QED BY <1>1, <1>2, <1>3

LEMMA ReaderInvariant == DevReadSpec => []ReaderInv
BY InitReader, NextReader, PTL DEF DevReadSpec

(* With the program and a process that resizes at work, for any requests,  *)
(* sizes and other processes, driver and program keep their types          *)
(* (dev_read.c:36-90, pcd_syscalls.c:7-127).                               *)
THEOREM ReaderTyping == DevReadSpec => []DevReadTypeOK
BY ReaderInvariant, ReaderHolds, PTL

(* The counts the program computes itself keep the driver's transfers in   *)
(* the device's buffer, too (dev_read.c:64-73, pcd_syscalls.c:51).         *)
THEOREM ReaderCopies == DevReadSpec => []CopiesInBuffer
BY ReaderInvariant, ReaderHolds, PTL

(* Any device that fits in the program's buffer may be resized at any time *)
(* to another size that fits, and be asked for any number of bytes: until  *)
(* a read fails, nothing lands outside of the buffer (dev_read.c:60, 71).  *)
THEOREM BufferNeverOverrun == DevReadSpec => []BufferHolds
BY ReaderInvariant, ReaderHolds, PTL

(* Without a resize and an error, the two reads bring all that was asked   *)
(* for, or all there is, whatever the size (dev_read.c:55, 64-73).         *)
THEOREM TwoReadsSuffice == DevReadSpec => []ReadsWhatIsThere
BY ReaderInvariant, ReaderHolds, PTL
=============================================================================

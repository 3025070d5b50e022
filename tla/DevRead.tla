------------------------------- MODULE DevRead -------------------------------
(***************************************************************************)
(* The program dev_read (003_pseudo_char_driver_multiple/dev_read.c), a    *)
(* reader of /dev/pcdev-0, over the driver that makes such a device        *)
(* (PcdResize), while others read, write and resize it.                    *)
(***************************************************************************)
EXTENDS PcdResize

CONSTANTS
  reader,    \* the process that runs the program
  Requests,  \* the numbers on its command line
  BufSize    \* the bytes of its buffer

ASSUME ReaderAssumption == reader \in Tasks
ASSUME RequestAssumption == Requests \subseteq Int

(* The devices the repository describes have 2048 bytes at most, as the    *)
(* program's buffer: what they hold fits. More than 2048 stored in         *)
(* max_size would not.                                                     *)
ASSUME FitsAssumption ==
  /\ BufSize \in Nat
  /\ \A x \in Descriptions : x.size <= BufSize
  /\ \A s \in Sizes : s <= BufSize

VARIABLE
  prog  \* the program's variables, where it is, and two facts about its
        \* run: a read has failed, a store was under way

progVars == <<vars, prog>>

Start(request, pc) ==
  [pc |-> pc, n |-> 0, remaining |-> request, total_read |-> 0,
   requested |-> request, failed |-> FALSE, resized |-> store.at # "idle"]

ProgOK ==
  prog \in [pc : {"idle", "loop", "reading", "end"}, n : 0 .. 2,
            remaining : Int, total_read : Int, requested : Int,
            failed : BOOLEAN, resized : BOOLEAN]

DevReadInit ==
  /\ Init
  /\ prog = [Start(0, "idle") EXCEPT !.resized = FALSE]

-----------------------------------------------------------------------------
Launch ==
  /\ prog.pc = "idle"
  /\ Open(reader, {FMODE_READ})
  /\ \E request \in Requests :
       prog' = Start(request, IF ret'[reader] = 0 THEN "loop" ELSE "end")

(* The kernel refuses a count that is negative as a ssize_t.               *)
Read ==
  /\ prog.pc = "loop" /\ prog.n # 2 /\ prog.remaining # 0
  /\ IF prog.remaining > 0
     THEN BeginRead(reader, prog.remaining)
     ELSE Return(reader, EINVAL) /\ UNCHANGED <<dev, store, file>>
  /\ prog' = [prog EXCEPT !.pc = "reading"]

(* What read returns: -1 for every error.                                  *)
Result == IF ret[reader] < 0 THEN -1 ELSE ret[reader]

(* mutant for ReadsWhatIsThere *)
LessThanRemaining(r) == r < prog.remaining
AtMostRemaining(r) == r <= prog.remaining

(* An error passes the test as well, unless as many bytes or fewer were    *)
(* left to read: it is added to the total.                                 *)
Returned ==
  /\ prog.pc = "reading" /\ call[reader] = Idle
  /\ prog' = IF Result # 0 /\ AtMostRemaining(Result)
             THEN [prog EXCEPT !.pc = "loop", !.n = @ + 1,
                               !.total_read = @ + Result,
                               !.remaining = @ - Result,
                               !.failed = @ \/ Result < 0]
             ELSE [prog EXCEPT !.pc = "end", !.failed = @ \/ Result < 0]
  /\ UNCHANGED vars

LoopEnds ==
  /\ prog.pc = "loop" /\ (prog.n = 2 \/ prog.remaining = 0)
  /\ prog' = [prog EXCEPT !.pc = "end"]
  /\ UNCHANGED vars

Exit ==
  /\ prog.pc = "end"
  /\ IF IsOpen(reader) THEN Release(reader) ELSE UNCHANGED vars
  /\ prog' = [Start(0, "idle") EXCEPT !.resized = FALSE]

(* The driver goes on with a read of the program.                          *)
Serve == prog.pc = "reading" /\ Proceed(reader) /\ UNCHANGED prog

(* Other processes call what they like, this one as well when it is not    *)
(* running the program.                                                    *)
Others ==
  /\ \E t \in Tasks : (t = reader => prog.pc = "idle") /\ (Issue(t) \/ Proceed(t))
  /\ UNCHANGED prog

Resize ==
  /\ (\E result \in Sizes : StoreSize(result)) \/ StoreProceeds
  /\ prog' = [prog EXCEPT !.resized = @ \/ prog.pc # "idle"]

Program == Launch \/ Read \/ Returned \/ LoopEnds \/ Exit \/ Serve

DevReadNext == Program \/ Others \/ Resize

DevReadSpec == DevReadInit /\ [][DevReadNext]_progVars

-----------------------------------------------------------------------------
(* Properties                                                              *)

(* The type invariant of the driver and the program.                       *)
DevReadTypeOK == TypeOK /\ ProgOK

(* Unless a read has failed, what the program reads lands in its buffer,   *)
(* however much was asked for and however the device is resized between    *)
(* and during its reads (dev_read.c:60, 71; pcd_syscalls.c:51).            *)
BufferHolds ==
  prog.pc = "reading" /\ call[reader].at = "copy" /\ ~prog.failed =>
    prog.total_read >= 0 /\ prog.total_read + call[reader].count <= BufSize

(* Two reads are enough: of a device that nobody resizes meanwhile, and    *)
(* that has no negative size, the program gets the bytes it was asked for, *)
(* or all there are (dev_read.c:55, 64-73).                                *)
ReadsWhatIsThere ==
  /\ prog.pc = "end" /\ IsOpen(reader) /\ ~prog.failed /\ ~prog.resized
  /\ prog.requested >= 0 /\ dev.size >= 0
  => \/ prog.total_read = prog.requested /\ prog.requested <= dev.size
     \/ prog.total_read = dev.size /\ prog.requested > dev.size
=============================================================================

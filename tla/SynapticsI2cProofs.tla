------------------------- MODULE SynapticsI2cProofs -------------------------
(***************************************************************************)
(* Proofs about SynapticsI2c, for any setups: the typing, and the safety   *)
(* invariants of a driver that polls. They rest on one argument: a driver  *)
(* that polls has no interrupt, so that only open, resume and the handler  *)
(* itself queue the work, and a cancel that waits leaves none.             *)
(***************************************************************************)
EXTENDS SynapticsI2c, TLAPS

USE SetupAssumption

task == ctx["task"]
worker == ctx["worker"]
Probing == {"probe", "info", "register"}
Closing == {"close", "cancel", "sleep"}

(* The worker is in a part of the handler while the work runs, and only a  *)
(* task that cancels the work keeps others from queueing it.               *)
WorkFits ==
  /\ task.call \in {"none", "open", "resume"} \union Probing \union Closing
  /\ worker.call \in {"none", "params", "status", "recover", "data"}
  /\ dwork.running <=> worker.call # "none"
  /\ dwork.canceling <=> task.call = "cancel"
  /\ dwork.canceling => dwork.pending = "no"
  /\ \A c \in Contexts :
       /\ ctx[c].call \in {"none", "cancel"} => ctx[c].at = "done"
       /\ ctx[c].sel => ctx[c].at # "done"

(* Which callback may run in which state of the binding and of the system. *)
CallFits ==
  /\ drv = "probing" <=> task.call \in Probing
  /\ drv = "unbound" => TaskFree
  /\ opened => drv \in {"bound", "removing"}
  /\ task.call = "open" => ~opened /\ Running /\ drv \in {"bound", "removing"}
  /\ task.call = "close" => ~polling
  /\ task.call \in Closing /\ opened => power = "suspending"
  /\ task.call = "resume" => power = "down"
  /\ power \in {"suspending", "down"} => drv = "bound"
  /\ power = "suspending" => task.call \in {"cancel", "sleep"}
  /\ power = "down" => task.call \in {"none", "resume"}

(* Without an interrupt, nothing queues the work of a device in probe, of  *)
(* one that is put to sleep or of one that is suspended.                   *)
IrqFits ==
  /\ polling \/ task.call \in {"probe", "info"} \/ drv \in {"removing", "gone"}
       => ~irq.requested
  /\ ~irq.requested /\ (drv = "probing" \/ task.call = "sleep" \/ power = "down")
       => AtRest(dwork)

(* The work of a driver that polls: none while the device is closed, some  *)
(* while it is open.                                                       *)
PollFits ==
  /\ polling /\ ~opened /\ power = "up" /\ task.call # "cancel" => AtRest(dwork)
  /\ polling /\ opened /\ power \in {"up", "resumed"} => ~AtRest(dwork)

IInv == TypeOK /\ WorkFits /\ CallFits /\ IrqFits /\ PollFits /\ PageHolds

-----------------------------------------------------------------------------
(* What the operators of the model do to the typed state.                  *)

(* Context c is replaced, the other context stays.                         *)
LEMMA Replaced ==
  ASSUME TypeOK, NEW c \in Contexts, NEW entry \in Context,
         ctx' = [ctx EXCEPT ![c] = entry]
  PROVE  /\ ctx' \in [Contexts -> Context] /\ ctx'[c] = entry
         /\ \A d \in Contexts : d # c => ctx'[d] = ctx[d]
BY DEF TypeOK

(* A context that enters a callback is at its first access, page not yet   *)
(* selected, and the other context stays where it is.                      *)
LEMMA Entered ==
  ASSUME TypeOK, NEW c \in Contexts, NEW call \in Calls,
         NEW x \in Accesses \union {"done"}, Enter(c, call, x)
  PROVE  /\ ctx' \in [Contexts -> Context]
         /\ ctx'[c].call = call /\ ctx'[c].at = x /\ ctx'[c].sel = FALSE
         /\ \A d \in Contexts : d # c => ctx'[d] = ctx[d]
<1> DEFINE entry == [Free EXCEPT !.call = call, !.at = x]
<1>1. entry \in Context
  BY DEF Free, Context
<1>2. entry.call = call /\ entry.at = x /\ entry.sel = FALSE
  BY DEF Free
<1>3. ctx' = [ctx EXCEPT ![c] = entry]
  BY DEF Enter
<1> HIDE DEF entry
<1> QED BY <1>1, <1>2, <1>3, Replaced

(* A context that leaves its callback is free, the other stays.            *)
LEMMA Left ==
  ASSUME TypeOK, NEW c \in Contexts, Leave(c)
  PROVE  /\ ctx' \in [Contexts -> Context]
         /\ ctx'[c].call = "none" /\ ctx'[c].at = "done" /\ ctx'[c].sel = FALSE
         /\ \A d \in Contexts : d # c => ctx'[d] = ctx[d]
<1>1. Free \in Context /\ Free.call = "none" /\ Free.at = "done" /\ Free.sel = FALSE
  BY DEF Free, Context, Calls
<1>2. ctx' = [ctx EXCEPT ![c] = Free]
  BY DEF Leave
<1> QED BY <1>1, <1>2, Replaced

(* Whatever becomes of the touchpad, an interrupt stays requested or not.  *)
LEMMA PadChanged ==
  ASSUME TypeOK, NEW p \in Touchpad, PadBecomes(p)
  PROVE  /\ pad' = p
         /\ irq' \in [requested : BOOLEAN, edge : BOOLEAN]
         /\ irq'.requested = irq.requested
BY DEF TypeOK, PadBecomes, Attention, Touchpad

(* The operators of the work item, one by one.                             *)
LEMMA WorkOps ==
  ASSUME NEW w \in Work, NEW when \in {"later", "now"}
  PROVE  /\ ModDelayed(w, when) \in Work
         /\ ModDelayed(w, when).running = w.running
         /\ ModDelayed(w, when).canceling = w.canceling
         /\ ModDelayed(w, when).pending = IF w.canceling THEN w.pending ELSE when
         /\ Begun(w) \in Work /\ Begun(w).pending = "no" /\ Begun(w).running
         /\ Begun(w).canceling = w.canceling
         /\ Ended(w) \in Work /\ Ended(w).pending = w.pending /\ ~Ended(w).running
         /\ Ended(w).canceling = w.canceling
         /\ Expired(w) \in Work /\ Expired(w).pending = "now"
         /\ Expired(w).running = w.running /\ Expired(w).canceling = w.canceling
         /\ CancelBegun(w) \in Work /\ CancelBegun(w).pending = "no"
         /\ CancelBegun(w).running = w.running /\ CancelBegun(w).canceling
         /\ CancelEnded(w) \in Work /\ CancelEnded(w).pending = w.pending
         /\ CancelEnded(w).running = w.running /\ ~CancelEnded(w).canceling
BY DEF Work, ModDelayed, Begun, Ended, Expired, CancelBegun, CancelEnded

(* A context that accesses nothing has no page selected, and in polling    *)
(* mode, but for the time after a resume, the task has the bus to itself.  *)
LEMMA OneOnBus ==
  ASSUME IInv, polling, power \in {"up", "down"}, task.at # "done"
  PROVE  ~dwork.running /\ ~worker.sel
<1>1. ~irq.requested
  BY DEF IInv, IrqFits
<1>2. task.call \in {"open", "resume", "sleep"} \union Probing
  BY DEF IInv, WorkFits, CallFits, Contexts, task, Closing
<1>3. AtRest(dwork)
  BY <1>1, <1>2 DEF IInv, CallFits, IrqFits, PollFits, Running
<1>4. ~dwork.running
  BY <1>3 DEF AtRest
<1> QED BY <1>4 DEF IInv, WorkFits, Contexts, worker

-----------------------------------------------------------------------------
(* The work handler.                                                       *)

(* The worker moves to another part of the handler, or ends it: whatever   *)
(* it does, it leaves the task, the binding and the page alone, and its    *)
(* work is at rest afterwards only if it was before, or under a cancel.    *)
LEMMA WorkerMoved ==
  ASSUME IInv, TypeOK', UNCHANGED <<drv, opened, power, polling, pad, irq, task>>,
         worker.call' \in {"none", "params", "status", "recover", "data"},
         worker.call' = "none" => worker.at' = "done", ~worker.sel',
         dwork'.running <=> worker.call' # "none",
         dwork'.canceling = dwork.canceling,
         dwork.canceling => dwork'.pending = "no",
         AtRest(dwork) => AtRest(dwork)',
         AtRest(dwork)' => AtRest(dwork) \/ dwork.canceling
  PROVE  IInv'
<1>1. WorkFits'
  BY DEF IInv, WorkFits, Contexts, task, worker
<1>2. CallFits' /\ IrqFits' /\ PollFits'
  BY DEF IInv, WorkFits, CallFits, IrqFits, PollFits, TaskFree, Running, Closing,
         task
<1>3. PageHolds'
  BY DEF IInv, PageHolds, NoRaceOnBus, Contexts, task, worker
<1> QED BY <1>1, <1>2, <1>3 DEF IInv

LEMMA WorkBeginsGood == IInv /\ WorkBegins => IInv'
<1> SUFFICES ASSUME IInv, WorkBegins PROVE IInv'
  OBVIOUS
<1>1. dwork' \in Work /\ dwork'.running /\ dwork'.pending = "no"
      /\ dwork'.canceling = dwork.canceling
  BY WorkOps DEF IInv, TypeOK, WorkBegins
<1>2. /\ ctx' \in [Contexts -> Context]
      /\ worker.call' \in {"params", "status"} /\ ~worker.sel' /\ UNCHANGED task
  BY Entered DEF IInv, WorkBegins, Contexts, Calls, Accesses, Gets, Sets, task, worker
<1>3. TypeOK'
  BY <1>1, <1>2 DEF IInv, TypeOK, WorkBegins, env
<1>4. ~AtRest(dwork) /\ ~AtRest(dwork)'
  BY <1>1 DEF WorkBegins, Runnable, AtRest
<1> QED BY <1>1, <1>2, <1>3, <1>4, WorkerMoved DEF IInv, WorkBegins

(* The worker enters part call of the handler while its work is running.   *)
LEMMA WorkerEnters ==
  ASSUME IInv, worker.call # "none",
         NEW call \in {"status", "recover", "data"}, NEW x \in Accesses,
         Enter("worker", call, x),
         UNCHANGED <<pad, irq, dwork, driver, opt, env>>
  PROVE  IInv'
<1>1. call \in Calls
  BY DEF Calls
<1>2. /\ ctx' \in [Contexts -> Context]
      /\ worker.call' = call /\ ~worker.sel' /\ UNCHANGED task
  BY <1>1, Entered DEF IInv, Contexts, task, worker
<1>3. TypeOK'
  BY <1>2 DEF IInv, TypeOK, driver, env
<1>4. dwork.running
  BY DEF IInv, WorkFits
<1> QED BY <1>2, <1>3, <1>4, WorkerMoved DEF IInv, WorkFits, driver

LEMMA WorkChecksStatusGood == IInv /\ WorkChecksStatus => IInv'
BY WorkerEnters DEF WorkChecksStatus, In, Accesses, Gets, worker

LEMMA WorkActsOnStatusGood == IInv /\ WorkActsOnStatus => IInv'
BY WorkerEnters DEF WorkActsOnStatus, In, Accesses, Gets, Sets, worker

LEMMA WorkReadsRecoveredGood == IInv /\ WorkReadsRecovered => IInv'
BY WorkerEnters DEF WorkReadsRecovered, In, Accesses, Gets, worker

LEMMA WorkEndsGood == IInv /\ WorkEnds => IInv'
<1> SUFFICES ASSUME IInv, WorkEnds PROVE IInv'
  OBVIOUS
<1>1. /\ dwork' \in Work /\ ~dwork'.running /\ dwork'.canceling = dwork.canceling
      /\ dwork'.pending = IF dwork.canceling THEN "no" ELSE "later"
  BY WorkOps DEF IInv, TypeOK, WorkFits, WorkEnds
<1>2. /\ ctx' \in [Contexts -> Context]
      /\ worker.call' = "none" /\ worker.at' = "done" /\ ~worker.sel'
      /\ UNCHANGED task
  BY Left DEF IInv, WorkEnds, Contexts, task, worker
<1>3. TypeOK'
  BY <1>1, <1>2 DEF IInv, TypeOK, WorkEnds, driver, env
<1>4. ~AtRest(dwork)
  BY DEF IInv, WorkFits, WorkEnds, In, AtRest, worker
<1> QED BY <1>1, <1>2, <1>3, <1>4, WorkerMoved DEF WorkEnds, driver, AtRest

-----------------------------------------------------------------------------
(* Interrupt and timer.                                                    *)

(* Work that is queued while there is an interrupt, or that was queued     *)
(* before, and that no task cancels.                                       *)
LEMMA Requeued ==
  ASSUME IInv, TypeOK',
         UNCHANGED <<drv, opened, power, polling, pad, ctx>>,
         irq'.requested = irq.requested, irq.requested \/ ~AtRest(dwork),
         dwork'.running = dwork.running, dwork'.canceling = dwork.canceling,
         dwork.canceling => dwork'.pending = "no",
         AtRest(dwork)' => AtRest(dwork)
  PROVE  IInv'
<1>1. WorkFits' /\ CallFits'
  BY DEF IInv, WorkFits, CallFits, TaskFree, Running, task, worker
<1>2. IrqFits' /\ PollFits'
  BY DEF IInv, IrqFits, PollFits, task
<1>3. PageHolds'
  BY DEF IInv, PageHolds, NoRaceOnBus
<1> QED BY <1>1, <1>2, <1>3 DEF IInv

LEMMA synaptics_i2c_irqGood == IInv /\ synaptics_i2c_irq => IInv'
<1> SUFFICES ASSUME IInv, synaptics_i2c_irq PROVE IInv'
  OBVIOUS
<1>1. /\ dwork' \in Work /\ dwork'.running = dwork.running
      /\ dwork'.canceling = dwork.canceling
      /\ dwork'.pending = IF dwork.canceling THEN dwork.pending ELSE "now"
  BY WorkOps DEF IInv, TypeOK, synaptics_i2c_irq
<1>2. irq' \in [requested : BOOLEAN, edge : BOOLEAN] /\ irq'.requested = irq.requested
  BY DEF IInv, TypeOK, synaptics_i2c_irq
<1>3. TypeOK'
  BY <1>1, <1>2 DEF IInv, TypeOK, synaptics_i2c_irq, driver, env
<1>4. (dwork.canceling => dwork'.pending = "no") /\ (AtRest(dwork)' => AtRest(dwork))
  BY <1>1 DEF IInv, WorkFits, AtRest
<1> QED BY <1>1, <1>2, <1>3, <1>4, Requeued DEF synaptics_i2c_irq, driver

LEMMA TimerExpiresGood == IInv /\ TimerExpires => IInv'
<1> SUFFICES ASSUME IInv, TimerExpires PROVE IInv'
  OBVIOUS
<1>1. /\ dwork' \in Work /\ dwork'.running = dwork.running
      /\ dwork'.canceling = dwork.canceling /\ dwork'.pending = "now"
  BY WorkOps DEF IInv, TypeOK, TimerExpires
<1>2. TypeOK'
  BY <1>1 DEF IInv, TypeOK, TimerExpires, driver, env
<1>3. ~dwork.canceling /\ ~AtRest(dwork) /\ ~AtRest(dwork)'
  BY <1>1 DEF IInv, WorkFits, TimerExpires, AtRest
<1> QED BY <1>1, <1>2, <1>3, Requeued DEF TimerExpires, driver

-----------------------------------------------------------------------------
(* The bus and the touchpad.                                               *)

(* Whatever access takes effect, it writes no page register.               *)
LEMMA EffectKeepsPage ==
  ASSUME TypeOK, NEW x, NEW control \in SUBSET Options
  PROVE  Effect(x, control) \in Touchpad /\ Effect(x, control).page = pad.page
<1>1. opt \in SUBSET Options
  BY DEF TypeOK
<1>2. AfterReset \in Touchpad /\ AfterReset.page = pad.page
  BY DEF TypeOK, AfterReset, Touchpad
<1>3. polling \in BOOLEAN
  BY DEF TypeOK
<1> QED BY <1>1, <1>2, <1>3 DEF TypeOK, Effect, Touchpad

(* The touchpad changes by itself, its page register excepted.             *)
LEMMA PadMoved ==
  ASSUME IInv, NEW p \in Touchpad, PadBecomes(p), p.page = pad.page,
         UNCHANGED <<dwork, ctx, driver, opt, env>>
  PROVE  IInv'
<1>1. /\ pad' = p /\ irq' \in [requested : BOOLEAN, edge : BOOLEAN]
      /\ irq'.requested = irq.requested
  BY PadChanged DEF IInv
<1>2. TypeOK'
  BY <1>1 DEF IInv, TypeOK, driver, env
<1>3. WorkFits' /\ CallFits' /\ IrqFits' /\ PollFits'
  BY <1>1 DEF IInv, WorkFits, CallFits, IrqFits, PollFits, AtRest, TaskFree, Running,
              driver, task, worker
<1>4. PageHolds'
  BY <1>1 DEF IInv, PageHolds, NoRaceOnBus, driver
<1> QED BY <1>2, <1>3, <1>4 DEF IInv

LEMMA MotionGood == IInv /\ Motion => IInv'
<1>1. IInv => [pad EXCEPT !.motion = TRUE] \in Touchpad
              /\ [pad EXCEPT !.motion = TRUE].page = pad.page
  BY DEF IInv, TypeOK, Touchpad
<1> QED BY <1>1, PadMoved DEF Motion

LEMMA UpsetGood == IInv /\ Upset => IInv'
<1>1. IInv => AfterReset \in Touchpad /\ AfterReset.page = pad.page
  BY DEF IInv, TypeOK, AfterReset, Touchpad
<1> QED BY <1>1, PadMoved DEF Upset

LEMMA SetParameterGood == IInv /\ SetParameter => IInv'
<1> SUFFICES ASSUME IInv, SetParameter PROVE IInv'
  OBVIOUS
<1>1. opt' \subseteq Options
  BY DEF IInv, TypeOK, Setup, SetParameter
<1>2. TypeOK'
  BY <1>1 DEF IInv, TypeOK, SetParameter, driver, env
<1>3. WorkFits' /\ CallFits' /\ IrqFits' /\ PollFits' /\ PageHolds'
  BY DEF IInv, WorkFits, CallFits, IrqFits, PollFits, PageHolds, NoRaceOnBus, AtRest,
         TaskFree, Running, SetParameter, driver, task, worker
<1> QED BY <1>2, <1>3 DEF IInv

(* Context c moves on in its callback. When it selects a page, that is the *)
(* page of its own register; in polling mode the other context then has    *)
(* none selected, for only one of them is on the bus.                      *)
LEMMA ContextMoved ==
  ASSUME IInv, NEW c \in Contexts, TypeOK',
         UNCHANGED <<dwork, drv, opened, power, polling>>,
         irq'.requested = irq.requested,
         ctx[c].at # "done", ctx'[c].call = ctx[c].call,
         \A d \in Contexts : d # c => ctx'[d] = ctx[d],
         ctx'[c].sel => ctx'[c].at # "done" /\ pad'.page = PageOf(ctx'[c].at),
         ~ctx'[c].sel => pad'.page = pad.page
  PROVE  IInv'
<1>1. /\ task.call' = task.call /\ worker.call' = worker.call
  BY DEF Contexts, task, worker
<1>2. WorkFits'
  BY <1>1 DEF IInv, WorkFits, Contexts, task, worker
<1>3. CallFits' /\ IrqFits' /\ PollFits'
  BY <1>1 DEF IInv, CallFits, IrqFits, PollFits, AtRest, TaskFree, Running, task
<1>4. PageHolds'
  <2> SUFFICES ASSUME polling, power \in {"up", "down"}, NEW d \in Contexts,
                      ctx'[d].sel
               PROVE  pad'.page = PageOf(ctx'[d].at)
    BY DEF PageHolds, NoRaceOnBus
  <2>1. CASE d = c
    BY <2>1
  <2>2. CASE d # c
    <3>1. ctx[d].sel /\ pad.page = PageOf(ctx[d].at)
      BY <2>2 DEF IInv, PageHolds, NoRaceOnBus
    <3>2. ctx[d].at # "done"
      BY <3>1 DEF IInv, WorkFits
    <3>3. CASE d = "task"
      <4>1. ~dwork.running
        BY <3>2, <3>3, OneOnBus DEF task
      <4>2. worker.at # "done"
        BY <2>2, <3>3 DEF Contexts, worker
      <4> QED BY <4>1, <4>2 DEF IInv, WorkFits, Contexts, worker
    <3>4. CASE d = "worker"
      <4>1. ~worker.sel
        BY <2>2, <3>4, OneOnBus DEF Contexts, task
      <4> QED BY <3>1, <3>4, <4>1 DEF worker
    <3> QED BY <3>3, <3>4 DEF Contexts
  <2> QED BY <2>1, <2>2
<1> QED BY <1>2, <1>3, <1>4 DEF IInv

LEMMA SelectPageGood ==
  ASSUME IInv, NEW c \in Contexts, SelectPage(c)
  PROVE  IInv'
<1> DEFINE p == [pad EXCEPT !.page = PageOf(ctx[c].at)]
<1>1. p \in Touchpad /\ p.page = PageOf(ctx[c].at)
  BY DEF IInv, TypeOK, Touchpad, SelectPage, PageOf, Accesses, Gets, Sets
<1>2. /\ pad' = p /\ irq' \in [requested : BOOLEAN, edge : BOOLEAN]
      /\ irq'.requested = irq.requested
  BY <1>1, PadChanged DEF IInv, SelectPage
<1>3. /\ ctx' \in [Contexts -> Context]
      /\ ctx'[c].call = ctx[c].call /\ ctx'[c].at = ctx[c].at /\ ctx'[c].sel
      /\ \A d \in Contexts : d # c => ctx'[d] = ctx[d]
  BY DEF IInv, TypeOK, SelectPage, Context
<1>4. TypeOK'
  BY <1>1, <1>2, <1>3 DEF IInv, TypeOK, SelectPage, driver, env
<1>5. ctx[c].at # "done"
  BY DEF SelectPage, Accesses, Gets, Sets
<1> HIDE DEF p
<1> QED BY <1>1, <1>2, <1>3, <1>4, <1>5, ContextMoved DEF SelectPage, driver

(* A transaction ends: its context keeps its callback and gets its next    *)
(* access, with no page selected, the value read and the error.            *)
LEMMA Transacted ==
  ASSUME TypeOK, NEW c \in Contexts, NEW at \in Accesses \union {"done"},
         NEW got \in SUBSET Options, NEW err \in BOOLEAN,
         ctx' = [ctx EXCEPT ![c].at = at, ![c].sel = FALSE, ![c].control = got,
                            ![c].err = err]
  PROVE  /\ ctx' \in [Contexts -> Context]
         /\ ctx'[c].call = ctx[c].call /\ ~ctx'[c].sel
         /\ \A d \in Contexts : d # c => ctx'[d] = ctx[d]
<1> DEFINE next == [ctx[c] EXCEPT !.at = at, !.sel = FALSE, !.control = got,
                                  !.err = err]
<1>1. ctx \in [Contexts -> Context] /\ ctx[c] \in Context
  BY DEF TypeOK
<1>2. next \in Context /\ next.call = ctx[c].call /\ next.sel = FALSE
  BY <1>1 DEF Context
<1>3. ctx' = [ctx EXCEPT ![c] = next]
  BY <1>1
<1> HIDE DEF next
<1> QED BY <1>2, <1>3, Replaced

LEMMA AccessGood ==
  ASSUME IInv, NEW c \in Contexts, Access(c)
  PROVE  IInv'
<1> DEFINE x == ctx[c].at
           p == IF x = "status" \/ pad.page = PageOf(x)
                  THEN Effect(x, ctx[c].control) ELSE pad
<1>1. ctx[c] \in Context /\ ctx[c].control \in SUBSET Options /\ pad \in Touchpad
  BY DEF IInv, TypeOK, Context
<1>2. p \in Touchpad /\ p.page = pad.page
  BY <1>1, EffectKeepsPage DEF IInv
<1>3. PadBecomes(p)
  BY DEF Access
<1> HIDE DEF p
<1>4. /\ pad' = p /\ irq' \in [requested : BOOLEAN, edge : BOOLEAN]
      /\ irq'.requested = irq.requested
  BY <1>2, <1>3, PadChanged DEF IInv
<1>5. x \in Accesses
  BY DEF Access, Accesses, Gets
<1>6. PICK got \in SUBSET setup.options :
        ctx' = [ctx EXCEPT ![c].at = After(x), ![c].sel = FALSE,
                           ![c].control = got,
                           ![c].err = x = "status" /\ ~pad.configured]
  BY DEF Access
<1>7. got \in SUBSET Options
  BY DEF IInv, TypeOK, Setup
<1>8. After(x) \in Accesses \union {"done"}
  BY DEF After, Accesses, Gets, Sets
<1>9. (x = "status" /\ ~pad.configured) \in BOOLEAN
  OBVIOUS
<1> HIDE DEF x
<1>10. /\ ctx' \in [Contexts -> Context]
       /\ ctx'[c].call = ctx[c].call /\ ~ctx'[c].sel
       /\ \A d \in Contexts : d # c => ctx'[d] = ctx[d]
  BY <1>6, <1>7, <1>8, <1>9, Transacted DEF IInv
<1>11. TypeOK'
  BY <1>2, <1>4, <1>10 DEF IInv, TypeOK, Access, driver, env
<1>12. ctx[c].at # "done"
  BY <1>5 DEF Accesses, Gets, Sets, x
<1> QED BY <1>2, <1>4, <1>10, <1>11, <1>12, ContextMoved DEF Access, driver

LEMMA FaultGood ==
  ASSUME IInv, NEW c \in Contexts, Fault(c)
  PROVE  IInv'
<1> DEFINE x == ctx[c].at
<1>1. PICK got \in SUBSET setup.options :
        ctx' = [ctx EXCEPT ![c].at = IF x \in Sets THEN "done" ELSE After(x),
                           ![c].sel = FALSE, ![c].control = got,
                           ![c].err = x \in Sets \union {"status"}]
  BY DEF Fault
<1>2. got \in SUBSET Options
  BY DEF IInv, TypeOK, Setup
<1>3. After(x) \in Accesses \union {"done"}
  BY DEF After, Accesses, Gets, Sets
<1>4. x \in Accesses
  BY DEF Fault
<1> HIDE DEF x
<1>5. (x \in Sets \union {"status"}) \in BOOLEAN
  OBVIOUS
<1>6. /\ ctx' \in [Contexts -> Context]
      /\ ctx'[c].call = ctx[c].call /\ ~ctx'[c].sel
      /\ \A d \in Contexts : d # c => ctx'[d] = ctx[d]
  BY <1>1, <1>2, <1>3, <1>5, Transacted DEF IInv
<1>7. faults' \in 0 .. setup'.faults
  BY DEF IInv, TypeOK, Fault, Setup
<1>8. TypeOK'
  BY <1>6, <1>7 DEF IInv, TypeOK, Fault, driver
<1>9. ctx[c].at # "done"
  BY <1>4 DEF Accesses, Gets, Sets, x
<1> QED BY <1>6, <1>8, <1>9, ContextMoved DEF Fault, driver

-----------------------------------------------------------------------------
(* The callbacks of the task.                                              *)

LEMMA TaskEnters ==
  ASSUME TypeOK, NEW call \in Calls, NEW x \in Accesses \union {"done"},
         Enter("task", call, x)
  PROVE  /\ ctx' \in [Contexts -> Context]
         /\ task.call' = call /\ task.at' = x /\ ~task.sel' /\ UNCHANGED worker
BY Entered DEF Contexts, task, worker

LEMMA TaskLeaves ==
  ASSUME TypeOK, Leave("task")
  PROVE  /\ ctx' \in [Contexts -> Context]
         /\ task.call' = "none" /\ task.at' = "done" /\ ~task.sel' /\ UNCHANGED worker
BY Left DEF Contexts, task, worker

(* A task between two accesses disturbs nobody's page, unless the driver   *)
(* starts to poll, or its polling is back in order, while the handler runs.*)
LEMMA TaskMovedPage ==
  ASSUME IInv, UNCHANGED <<pad, worker>>, ~task.sel',
         polling' /\ power' \in {"up", "down"} =>
           (polling /\ power \in {"up", "down"}) \/ AtRest(dwork)
  PROVE  PageHolds'
<1>1. AtRest(dwork) => ~worker.sel
  BY DEF IInv, WorkFits, AtRest, Contexts, worker
<1> QED BY <1>1 DEF IInv, PageHolds, NoRaceOnBus, Contexts, task, worker

LEMMA BeginProbeGood == IInv /\ BeginProbe => IInv'
<1> SUFFICES ASSUME IInv, BeginProbe PROVE IInv'
  OBVIOUS
<1>1. /\ ctx' \in [Contexts -> Context] /\ task.call' = "probe"
      /\ ~task.sel' /\ task.at' = "reset" /\ UNCHANGED worker
  BY TaskEnters DEF IInv, BeginProbe, Calls, Accesses, Sets
<1>2. dwork' = Unqueued /\ dwork' \in Work /\ AtRest(dwork) /\ AtRest(dwork)'
  BY DEF BeginProbe, Unqueued, Work, AtRest
<1>3. TypeOK'
  BY <1>1, <1>2 DEF IInv, TypeOK, BeginProbe, env
<1>4. WorkFits'
  BY <1>1, <1>2 DEF IInv, WorkFits, BeginProbe, AtRest, Unqueued, Contexts, Probing,
                    task, worker
<1>5. CallFits'
  BY <1>1 DEF IInv, CallFits, BeginProbe, TaskFree, Probing, Closing, task
<1>6. IrqFits' /\ PollFits'
  BY <1>1, <1>2 DEF IInv, CallFits, IrqFits, PollFits, BeginProbe
<1>7. PageHolds'
  BY <1>1, <1>2, TaskMovedPage DEF BeginProbe
<1> QED BY <1>3, <1>4, <1>5, <1>6, <1>7 DEF IInv

(* Polling begins here when there is no interrupt, with the work at rest.  *)
LEMMA ProbeConfiguredGood == IInv /\ ProbeConfigured => IInv'
<1> SUFFICES ASSUME IInv, ProbeConfigured PROVE IInv'
  OBVIOUS
<1>1. /\ ctx' \in [Contexts -> Context] /\ ~task.sel' /\ UNCHANGED worker
      /\ \/ drv' = "unbound" /\ task.call' = "none" /\ task.at' = "done"
         \/ drv' = "probing" /\ task.call' = "info"
  BY TaskEnters, TaskLeaves
     DEF IInv, CallFits, ProbeConfigured, ProbeFails, In, Calls, Accesses, Gets,
         Probing, task
<1>2. drv = "probing" /\ ~opened /\ power \notin {"suspending", "down"}
      /\ ~irq.requested /\ AtRest(dwork)
  BY DEF IInv, CallFits, IrqFits, ProbeConfigured, In, Probing, task
<1>3. polling' \in BOOLEAN
  BY DEF IInv, TypeOK, ProbeConfigured
<1>4. TypeOK'
  BY <1>1, <1>3 DEF IInv, TypeOK, ProbeConfigured, env
<1>5. WorkFits'
  BY <1>1, <1>2 DEF IInv, WorkFits, ProbeConfigured, In, Contexts, Probing, Closing, 
                    task, worker
<1>6. CallFits'
  BY <1>1, <1>2 DEF IInv, CallFits, ProbeConfigured, TaskFree, Probing, Closing, task
<1>7. IrqFits' /\ PollFits'
  BY <1>1, <1>2 DEF IrqFits, PollFits, AtRest, ProbeConfigured
<1>8. PageHolds'
  BY <1>1, <1>2, TaskMovedPage DEF ProbeConfigured
<1> QED BY <1>4, <1>5, <1>6, <1>7, <1>8 DEF IInv

(* An interrupt is requested only by a driver that does not poll; when     *)
(* that fails the driver polls, and the work is still at rest.             *)
LEMMA ProbeRequestsIrqGood == IInv /\ ProbeRequestsIrq => IInv'
<1> SUFFICES ASSUME IInv, ProbeRequestsIrq PROVE IInv'
  OBVIOUS
<1>1. /\ ctx' \in [Contexts -> Context] /\ task.call' = "register"
      /\ ~task.sel' /\ UNCHANGED worker
  BY TaskEnters DEF IInv, ProbeRequestsIrq, Calls, Accesses, Sets
<1>2. drv = "probing" /\ ~opened /\ power \notin {"suspending", "down"}
      /\ ~irq.requested /\ AtRest(dwork)
  BY DEF IInv, CallFits, IrqFits, ProbeRequestsIrq, In, Probing, task
<1>3. polling' \in BOOLEAN /\ irq' \in [requested : BOOLEAN, edge : BOOLEAN]
      /\ (polling' => ~irq'.requested)
  <2>1. polling \in BOOLEAN /\ irq \in [requested : BOOLEAN, edge : BOOLEAN]
    BY DEF IInv, TypeOK
  <2>2. CASE UNCHANGED irq
    BY <1>2, <2>1, <2>2 DEF ProbeRequestsIrq
  <2>3. CASE ~polling /\ UNCHANGED polling
             /\ irq' = [requested |-> TRUE, edge |-> FALSE]
    BY <2>1, <2>3
  <2> QED BY <2>2, <2>3 DEF ProbeRequestsIrq
<1>4. TypeOK'
  BY <1>1, <1>3 DEF IInv, TypeOK, ProbeRequestsIrq, env
<1>5. WorkFits'
  BY <1>1, <1>2 DEF IInv, WorkFits, ProbeRequestsIrq, In, Contexts, Probing, task, worker
<1>6. CallFits'
  BY <1>1, <1>2 DEF IInv, CallFits, ProbeRequestsIrq, TaskFree, Probing, Closing, task
<1>7. IrqFits' /\ PollFits'
  BY <1>1, <1>2, <1>3 DEF IrqFits, PollFits, AtRest, ProbeRequestsIrq
<1>8. PageHolds'
  BY <1>1, <1>2, TaskMovedPage DEF ProbeRequestsIrq
<1> QED BY <1>4, <1>5, <1>6, <1>7, <1>8 DEF IInv

LEMMA ProbeRegistersGood == IInv /\ ProbeRegisters => IInv'
<1> SUFFICES ASSUME IInv, ProbeRegisters PROVE IInv'
  OBVIOUS
<1>1. /\ ctx' \in [Contexts -> Context] /\ task.call' = "none" /\ task.at' = "done"
      /\ ~task.sel' /\ UNCHANGED worker /\ drv' \in {"bound", "unbound"}
  BY TaskLeaves DEF IInv, ProbeRegisters, ProbeFails
<1>2. drv = "probing" /\ ~opened /\ power \notin {"suspending", "down"}
  BY DEF IInv, CallFits, ProbeRegisters, In, Probing, task
<1>3. TypeOK'
  BY <1>1 DEF IInv, TypeOK, ProbeRegisters, env
<1>4. WorkFits'
  BY <1>1 DEF IInv, WorkFits, ProbeRegisters, In, Contexts, task, worker
<1>5. CallFits'
  BY <1>1, <1>2 DEF IInv, CallFits, ProbeRegisters, TaskFree, Probing, Closing, task
<1>6. IrqFits'
  BY <1>1, <1>2 DEF IInv, IrqFits, ProbeRegisters
<1>7. PollFits'
  BY <1>1, <1>2 DEF IInv, PollFits, IrqFits, AtRest, ProbeRegisters
<1>8. PageHolds'
  BY <1>1, TaskMovedPage DEF ProbeRegisters
<1> QED BY <1>3, <1>4, <1>5, <1>6, <1>7, <1>8 DEF IInv

(* free_irq is called when there is an interrupt; a driver that polls has  *)
(* none.                                                                   *)
LEMMA RemoveGood == IInv /\ Remove => IInv'
<1> SUFFICES ASSUME IInv, Remove PROVE IInv'
  OBVIOUS
<1>1. irq' \in [requested : BOOLEAN, edge : BOOLEAN] /\ ~irq'.requested
  <2>1. CASE polling
    BY <2>1 DEF IInv, TypeOK, IrqFits, Remove
  <2>2. CASE ~polling
    BY <2>2 DEF Remove
  <2> QED BY <2>1, <2>2
<1>2. TypeOK'
  BY <1>1 DEF IInv, TypeOK, Remove, env
<1>3. WorkFits' /\ CallFits'
  BY DEF IInv, WorkFits, CallFits, Remove, TaskFree, Running, Probing, Closing, task,
         worker
<1>4. IrqFits' /\ PollFits'
  BY <1>1 DEF IInv, IrqFits, PollFits, AtRest, Remove, TaskFree, Running, task
<1>5. PageHolds'
  BY DEF IInv, PageHolds, NoRaceOnBus, Remove
<1> QED BY <1>2, <1>3, <1>4, <1>5 DEF IInv

LEMMA BeginOpenGood == IInv /\ BeginOpen => IInv'
<1> SUFFICES ASSUME IInv, BeginOpen PROVE IInv'
  OBVIOUS
<1>1. /\ ctx' \in [Contexts -> Context] /\ task.call' = "open"
      /\ ~task.sel' /\ task.at' = "reset" /\ UNCHANGED worker
  BY TaskEnters DEF IInv, BeginOpen, Calls, Accesses, Sets
<1>2. TypeOK'
  BY <1>1 DEF IInv, TypeOK, BeginOpen, driver, env
<1>3. WorkFits'
  BY <1>1 DEF IInv, WorkFits, BeginOpen, Usable, TaskFree, Contexts, task, worker
<1>4. CallFits'
  BY <1>1 DEF IInv, CallFits, BeginOpen, Usable, TaskFree, Running, Probing, Closing,
              driver, task
<1>5. IrqFits' /\ PollFits'
  BY <1>1 DEF IInv, IrqFits, PollFits, AtRest, BeginOpen, Usable, TaskFree, driver, task
<1>6. PageHolds'
  BY <1>1, TaskMovedPage DEF BeginOpen, driver
<1> QED BY <1>2, <1>3, <1>4, <1>5, <1>6 DEF IInv

(* An open that succeeds starts the work of a driver that polls; one that  *)
(* fails leaves the device closed and its work at rest.                    *)
LEMMA EndOpenGood == IInv /\ EndOpen => IInv'
<1> SUFFICES ASSUME IInv, EndOpen PROVE IInv'
  OBVIOUS
<1>1. /\ ctx' \in [Contexts -> Context] /\ task.call' = "none" /\ task.at' = "done"
      /\ ~task.sel' /\ UNCHANGED worker
  BY TaskLeaves DEF IInv, EndOpen
<1>2. /\ ~opened /\ Running /\ drv \in {"bound", "removing"} /\ ~dwork.canceling
      /\ task.call = "open"
  BY DEF IInv, WorkFits, CallFits, EndOpen, In, task
<1>3. /\ dwork' \in Work /\ dwork'.running = dwork.running
      /\ dwork'.canceling = dwork.canceling
      /\ opened' /\ polling => dwork'.pending = "later"
      /\ ~(opened' /\ polling) => dwork' = dwork
  BY <1>2, WorkOps DEF IInv, TypeOK, EndOpen, Failed
<1>4. opened' \in BOOLEAN
  BY DEF IInv, TypeOK, EndOpen
<1>5. TypeOK'
  BY <1>1, <1>3, <1>4 DEF IInv, TypeOK, EndOpen, env
<1>6. WorkFits'
  BY <1>1, <1>2, <1>3 DEF IInv, WorkFits, Contexts, task, worker
<1>7. CallFits'
  BY <1>1, <1>2 DEF IInv, CallFits, EndOpen, TaskFree, Running, Probing, Closing, task
<1>8. IrqFits' /\ PollFits'
  BY <1>1, <1>2, <1>3 DEF IInv, IrqFits, PollFits, AtRest, Running, EndOpen
<1>9. PageHolds'
  BY <1>1, TaskMovedPage DEF EndOpen
<1> QED BY <1>5, <1>6, <1>7, <1>8, <1>9 DEF IInv

(* cancel_delayed_work_sync begins: nothing is pending, nothing will be,   *)
(* and the task waits.                                                     *)
LEMMA CancelStarts ==
  ASSUME TypeOK, Cancel
  PROVE  /\ dwork' \in Work /\ dwork'.pending = "no" /\ dwork'.running = dwork.running
         /\ dwork'.canceling
         /\ ctx' \in [Contexts -> Context]
         /\ task.call' = "cancel" /\ task.at' = "done" /\ ~task.sel'
         /\ UNCHANGED worker
BY WorkOps, TaskEnters DEF TypeOK, Cancel, Calls

(* A driver that polls begins with the cancel, any other with the write    *)
(* that disables the interrupt.                                            *)
LEMMA CloseStarts ==
  ASSUME IInv, TaskFree, synaptics_i2c_close
  PROVE  /\ ctx' \in [Contexts -> Context] /\ dwork' \in Work
         /\ ~task.sel' /\ UNCHANGED worker /\ dwork'.running = dwork.running
         /\ \/ /\ task.call' = "cancel" /\ task.at' = "done"
               /\ polling /\ dwork'.canceling /\ dwork'.pending = "no"
            \/ task.call' = "close" /\ ~polling /\ dwork' = dwork
<1>1. CASE polling
  BY <1>1, CancelStarts DEF IInv, synaptics_i2c_close
<1>2. CASE ~polling
  BY <1>2, TaskEnters DEF IInv, TypeOK, synaptics_i2c_close, Calls, Accesses, Sets
<1> QED BY <1>1, <1>2

LEMMA BeginCloseGood == IInv /\ BeginClose => IInv'
<1> SUFFICES ASSUME IInv, BeginClose PROVE IInv'
  OBVIOUS
<1>1. /\ ctx' \in [Contexts -> Context] /\ dwork' \in Work
      /\ ~task.sel' /\ UNCHANGED worker /\ dwork'.running = dwork.running
      /\ \/ /\ task.call' = "cancel" /\ task.at' = "done"
            /\ polling /\ dwork'.canceling /\ dwork'.pending = "no"
         \/ task.call' = "close" /\ ~polling /\ dwork' = dwork
  BY CloseStarts DEF BeginClose, Usable
<1>2. TypeOK'
  BY <1>1 DEF IInv, TypeOK, BeginClose, env
<1>3. WorkFits'
  BY <1>1 DEF IInv, WorkFits, BeginClose, Usable, TaskFree, Contexts, Closing, task,
              worker
<1>4. CallFits'
  BY <1>1 DEF IInv, CallFits, BeginClose, Usable, TaskFree, Running, Probing, Closing,
              task
<1>5. IrqFits' /\ PollFits'
  BY <1>1 DEF IInv, IrqFits, PollFits, BeginClose, Usable, Running
<1>6. PageHolds'
  BY <1>1, TaskMovedPage DEF BeginClose
<1> QED BY <1>2, <1>3, <1>4, <1>5, <1>6 DEF IInv

LEMMA CloseCancelsGood == IInv /\ CloseCancels => IInv'
<1> SUFFICES ASSUME IInv, CloseCancels PROVE IInv'
  OBVIOUS
<1>1. /\ ctx' \in [Contexts -> Context] /\ dwork' \in Work
      /\ dwork'.pending = "no" /\ dwork'.running = dwork.running /\ dwork'.canceling
      /\ task.call' = "cancel" /\ task.at' = "done" /\ ~task.sel' /\ UNCHANGED worker
  BY CancelStarts DEF IInv, CloseCancels
<1>2. task.call = "close" /\ ~polling /\ power \notin {"suspending", "down"}
  BY DEF IInv, CallFits, CloseCancels, In, task
<1>3. TypeOK'
  BY <1>1 DEF IInv, TypeOK, CloseCancels, driver, env
<1>4. WorkFits'
  BY <1>1 DEF IInv, WorkFits, Contexts, Closing, task, worker
<1>5. CallFits'
  BY <1>1, <1>2 DEF IInv, CallFits, CloseCancels, TaskFree, Running, Probing, Closing,
                    driver, task
<1>6. IrqFits' /\ PollFits'
  BY <1>1, <1>2 DEF IInv, IrqFits, PollFits, AtRest, CallFits, CloseCancels, driver, task
<1>7. PageHolds'
  BY <1>1, TaskMovedPage DEF CloseCancels, driver
<1> QED BY <1>3, <1>4, <1>5, <1>6, <1>7 DEF IInv

(* The cancel returns when the handler does not run: without an interrupt  *)
(* nothing can queue the work again.                                       *)
LEMMA CancelDoneGood == IInv /\ CancelDone => IInv'
<1> SUFFICES ASSUME IInv, CancelDone PROVE IInv'
  OBVIOUS
<1>1. /\ ctx' \in [Contexts -> Context] /\ task.call' = "sleep" /\ task.at' = "sleep"
      /\ ~task.sel' /\ UNCHANGED worker
  BY TaskEnters DEF IInv, CancelDone, Calls, Accesses, Sets
<1>2. task.call = "cancel" /\ dwork.pending = "no" /\ ~dwork.running
  BY DEF IInv, WorkFits, CancelDone, In, task
<1>3. /\ dwork' \in Work /\ dwork'.pending = "no" /\ ~dwork'.running
      /\ ~dwork'.canceling
  BY <1>2, WorkOps DEF IInv, TypeOK, CancelDone
<1>4. TypeOK'
  BY <1>1, <1>3 DEF IInv, TypeOK, CancelDone, driver, env
<1>5. WorkFits'
  BY <1>1, <1>2, <1>3 DEF IInv, WorkFits, Contexts, Closing, task, worker
<1>6. CallFits'
  BY <1>1, <1>2 DEF IInv, CallFits, CancelDone, TaskFree, Running, Probing, Closing,
                    driver, task
<1>7. IrqFits' /\ PollFits'
  BY <1>1, <1>2, <1>3 DEF IInv, IrqFits, PollFits, AtRest, CallFits, Closing,
                          CancelDone, driver, task
<1>8. PageHolds'
  BY <1>1, TaskMovedPage DEF CancelDone, driver
<1> QED BY <1>4, <1>5, <1>6, <1>7, <1>8 DEF IInv

(* The touchpad sleeps: a suspend is over, or a device is closed, and a    *)
(* driver that polls has no work left.                                     *)
LEMMA SleepDoneGood == IInv /\ SleepDone => IInv'
<1> SUFFICES ASSUME IInv, SleepDone PROVE IInv'
  OBVIOUS
<1>1. /\ ctx' \in [Contexts -> Context] /\ task.call' = "none" /\ task.at' = "done"
      /\ ~task.sel' /\ UNCHANGED worker
  BY TaskLeaves DEF IInv, SleepDone
<1>2. /\ task.call = "sleep" /\ drv # "probing" /\ (~irq.requested => AtRest(dwork))
      /\ (opened => power = "suspending") /\ (polling => ~irq.requested)
      /\ drv # "unbound"
  BY DEF IInv, CallFits, IrqFits, SleepDone, In, TaskFree, Probing, Closing, task
<1>3. TypeOK'
  BY <1>1 DEF IInv, TypeOK, SleepDone, env
<1>4. WorkFits'
  BY <1>1, <1>2 DEF IInv, WorkFits, SleepDone, Contexts, task, worker
<1>5. CallFits'
  BY <1>1, <1>2 DEF IInv, CallFits, SleepDone, TaskFree, Running, Probing, Closing, task
<1>6. IrqFits' /\ PollFits'
  BY <1>1, <1>2 DEF IInv, IrqFits, PollFits, AtRest, SleepDone
<1>7. PageHolds'
  BY <1>1, <1>2, TaskMovedPage DEF SleepDone
<1> QED BY <1>3, <1>4, <1>5, <1>6, <1>7 DEF IInv

(* Unregistering closes an open device.                                    *)
LEMMA UnregisterGood == IInv /\ Unregister => IInv'
<1> SUFFICES ASSUME IInv, Unregister PROVE IInv'
  OBVIOUS
<1>1. CASE opened
  <2>1. /\ ctx' \in [Contexts -> Context] /\ dwork' \in Work
        /\ ~task.sel' /\ UNCHANGED worker /\ dwork'.running = dwork.running
        /\ \/ /\ task.call' = "cancel" /\ task.at' = "done"
              /\ polling /\ dwork'.canceling /\ dwork'.pending = "no"
           \/ task.call' = "close" /\ ~polling /\ dwork' = dwork
    BY <1>1, CloseStarts DEF Unregister
  <2>2. TypeOK'
    BY <2>1 DEF IInv, TypeOK, Unregister, env
  <2>3. WorkFits'
    BY <2>1 DEF IInv, WorkFits, Unregister, TaskFree, Contexts, Closing, task, worker
  <2>4. CallFits'
    BY <2>1 DEF IInv, CallFits, Unregister, TaskFree, Running, Probing, Closing, task
  <2>5. IrqFits' /\ PollFits'
    BY <2>1 DEF IInv, IrqFits, PollFits, CallFits, Unregister
  <2>6. PageHolds'
    BY <2>1, TaskMovedPage DEF Unregister
  <2> QED BY <2>2, <2>3, <2>4, <2>5, <2>6 DEF IInv
<1>2. CASE ~opened
  <2>1. UNCHANGED <<ctx, dwork, irq, pad, power, polling>> /\ ~opened'
        /\ drv = "removing" /\ drv' = "gone"
    BY <1>2 DEF Unregister
  <2>2. TypeOK'
    BY <2>1 DEF IInv, TypeOK, Unregister, env
  <2>3. WorkFits' /\ CallFits'
    BY <2>1 DEF IInv, WorkFits, CallFits, Unregister, TaskFree, Running, Probing, task,
                worker
  <2>4. IrqFits' /\ PollFits'
    BY <2>1, <1>2 DEF IInv, IrqFits, PollFits, CallFits, AtRest, task
  <2>5. PageHolds'
    BY <2>1 DEF IInv, PageHolds, NoRaceOnBus
  <2> QED BY <2>2, <2>3, <2>4, <2>5 DEF IInv
<1>3. opened \in BOOLEAN
  BY DEF IInv, TypeOK
<1> QED BY <1>1, <1>2, <1>3

LEMMA FreeTouchGood == IInv /\ FreeTouch => IInv'
<1> SUFFICES ASSUME IInv, FreeTouch PROVE IInv'
  OBVIOUS
<1>1. TypeOK'
  BY DEF IInv, TypeOK, FreeTouch, env
<1>2. WorkFits' /\ CallFits'
  BY DEF IInv, WorkFits, CallFits, FreeTouch, TaskFree, Running, Probing, task, worker
<1>3. IrqFits' /\ PollFits'
  BY DEF IInv, IrqFits, PollFits, CallFits, AtRest, FreeTouch, task
<1>4. PageHolds'
  BY DEF IInv, PageHolds, NoRaceOnBus, FreeTouch
<1> QED BY <1>1, <1>2, <1>3, <1>4 DEF IInv

-----------------------------------------------------------------------------
(* Suspend and resume.                                                     *)

LEMMA BeginSuspendGood == IInv /\ BeginSuspend => IInv'
<1> SUFFICES ASSUME IInv, BeginSuspend PROVE IInv'
  OBVIOUS
<1>1. /\ ctx' \in [Contexts -> Context] /\ dwork' \in Work
      /\ dwork'.pending = "no" /\ dwork'.running = dwork.running /\ dwork'.canceling
      /\ task.call' = "cancel" /\ task.at' = "done" /\ ~task.sel' /\ UNCHANGED worker
  BY CancelStarts DEF IInv, BeginSuspend
<1>2. TypeOK'
  BY <1>1 DEF IInv, TypeOK, BeginSuspend, env
<1>3. WorkFits'
  BY <1>1 DEF IInv, WorkFits, Contexts, Closing, task, worker
<1>4. CallFits'
  BY <1>1 DEF IInv, CallFits, BeginSuspend, TaskFree, Running, Probing, Closing, task
<1>5. IrqFits' /\ PollFits'
  BY <1>1 DEF IInv, IrqFits, PollFits, BeginSuspend
<1>6. PageHolds'
  BY <1>1, TaskMovedPage DEF BeginSuspend
<1> QED BY <1>2, <1>3, <1>4, <1>5, <1>6 DEF IInv

LEMMA BeginResumeGood == IInv /\ BeginResume => IInv'
<1> SUFFICES ASSUME IInv, BeginResume PROVE IInv'
  OBVIOUS
<1>1. /\ ctx' \in [Contexts -> Context] /\ task.call' = "resume"
      /\ ~task.sel' /\ task.at' = "reset" /\ UNCHANGED worker
  BY TaskEnters DEF IInv, BeginResume, Calls, Accesses, Sets
<1>2. TypeOK'
  BY <1>1 DEF IInv, TypeOK, BeginResume, driver, env
<1>3. WorkFits'
  BY <1>1 DEF IInv, WorkFits, BeginResume, TaskFree, Contexts, task, worker
<1>4. CallFits'
  BY <1>1 DEF IInv, CallFits, BeginResume, TaskFree, Running, Probing, Closing, driver,
              task
<1>5. IrqFits' /\ PollFits'
  BY <1>1 DEF IInv, IrqFits, PollFits, AtRest, BeginResume, TaskFree, driver, task
<1>6. PageHolds'
  BY <1>1, TaskMovedPage DEF BeginResume, driver
<1> QED BY <1>2, <1>3, <1>4, <1>5, <1>6 DEF IInv

(* A resume that succeeds queues the work, of a closed device too; power   *)
(* then says so, and the promises made for a closed device are suspended.  *)
LEMMA EndResumeGood == IInv /\ EndResume => IInv'
<1> SUFFICES ASSUME IInv, EndResume PROVE IInv'
  OBVIOUS
<1>1. /\ ctx' \in [Contexts -> Context] /\ task.call' = "none" /\ task.at' = "done"
      /\ ~task.sel' /\ UNCHANGED worker
  BY TaskLeaves DEF IInv, EndResume
<1>2. task.call = "resume" /\ power = "down" /\ drv = "bound" /\ ~dwork.canceling
  BY DEF IInv, WorkFits, CallFits, EndResume, In, task
<1>3. /\ dwork' \in Work /\ dwork'.running = dwork.running
      /\ dwork'.canceling = dwork.canceling
      /\ power' = "resumed" => dwork'.pending = "later"
  BY <1>2, WorkOps DEF IInv, TypeOK, EndResume, Failed
<1>4. power' \in {"resumed", "unresumed"}
  BY DEF EndResume
<1>5. TypeOK'
  BY <1>1, <1>3, <1>4 DEF IInv, TypeOK, EndResume, env
<1>6. WorkFits'
  BY <1>1, <1>2, <1>3 DEF IInv, WorkFits, Contexts, task, worker
<1>7. CallFits'
  BY <1>1, <1>2, <1>4 DEF IInv, CallFits, EndResume, TaskFree, Running, Probing,
                          Closing, task
<1>8. IrqFits' /\ PollFits'
  BY <1>1, <1>2, <1>3, <1>4 DEF IInv, IrqFits, PollFits, AtRest, EndResume
<1>9. PageHolds'
  BY <1>4 DEF PageHolds
<1> QED BY <1>5, <1>6, <1>7, <1>8, <1>9 DEF IInv

-----------------------------------------------------------------------------
(* The results.                                                            *)

LEMMA InitGood == Init => IInv
<1> SUFFICES ASSUME Init PROVE IInv
  OBVIOUS
<1>1. Free \in Context /\ Unqueued \in Work
  BY DEF Free, Context, Calls, Unqueued, Work
<1>2. /\ setup.polling_req \in BOOLEAN /\ setup.options \subseteq Options
      /\ setup.faults \in Nat
  BY DEF Init, Setup
<1>3. TypeOK
  <2>1. pad \in Touchpad /\ irq \in [requested : BOOLEAN, edge : BOOLEAN]
    BY DEF Init, Touchpad
  <2>2. {opened, polling} \subseteq BOOLEAN /\ {opt, optParam} \subseteq SUBSET Options
    BY <1>2 DEF Init
  <2>3. faults \in 0 .. setup.faults
    BY <1>2 DEF Init
  <2>4. ctx \in [Contexts -> Context] /\ dwork \in Work
    BY <1>1 DEF Init
  <2> QED BY <2>1, <2>2, <2>3, <2>4 DEF Init, TypeOK
<1>4. WorkFits /\ CallFits
  BY DEF Init, WorkFits, CallFits, Free, Unqueued, Contexts, TaskFree, Probing, Closing,
         task, worker
<1>5. IrqFits /\ PollFits /\ PageHolds
  BY DEF Init, IrqFits, PollFits, PageHolds, NoRaceOnBus, AtRest, Unqueued, Free
<1> QED BY <1>3, <1>4, <1>5 DEF IInv

LEMMA NextGood == IInv /\ [Next]_vars => IInv'
<1> SUFFICES ASSUME IInv, [Next]_vars PROVE IInv'
  OBVIOUS
<1>1. CASE Callbacks
  BY <1>1, BeginProbeGood, RemoveGood, BeginOpenGood, BeginCloseGood, BeginSuspendGood,
     BeginResumeGood DEF Callbacks
<1>2. CASE TaskProgress
  <2>1. "task" \in Contexts
    BY DEF Contexts
  <2> QED BY <1>2, <2>1, ProbeConfiguredGood, ProbeRequestsIrqGood, ProbeRegistersGood,
             EndOpenGood, CloseCancelsGood, CancelDoneGood, SleepDoneGood,
             EndResumeGood, UnregisterGood, FreeTouchGood, SelectPageGood, AccessGood
             DEF TaskProgress
<1>3. CASE WorkProgress
  <2>1. "worker" \in Contexts
    BY DEF Contexts
  <2> QED BY <1>3, <2>1, WorkBeginsGood, WorkChecksStatusGood, WorkActsOnStatusGood,
             WorkReadsRecoveredGood, WorkEndsGood, SelectPageGood, AccessGood
             DEF WorkProgress
<1>4. CASE synaptics_i2c_irq \/ TimerExpires \/ Motion \/ Upset \/ SetParameter
  BY <1>4, synaptics_i2c_irqGood, TimerExpiresGood, MotionGood, UpsetGood,
     SetParameterGood
<1>5. CASE \E c \in Contexts : Fault(c)
  BY <1>5, FaultGood
<1>6. CASE UNCHANGED vars
  <2>1. TypeOK'
    BY <1>6 DEF IInv, TypeOK, vars
  <2>2. WorkFits' /\ CallFits' /\ IrqFits' /\ PollFits' /\ PageHolds'
    BY <1>6 DEF IInv, WorkFits, CallFits, IrqFits, PollFits, PageHolds, NoRaceOnBus,
                AtRest, TaskFree, Running, task, worker, vars
  <2> QED BY <2>1, <2>2 DEF IInv
<1> QED BY <1>1, <1>2, <1>3, <1>4, <1>5, <1>6 DEF Next

(* The inductive invariant holds on any setups.                            *)
THEOREM Invariant == Spec => []IInv
BY InitGood, NextGood, PTL DEF Spec

(* Every variable keeps its type.                                          *)
THEOREM Typing == Spec => []TypeOK
<1>1. IInv => TypeOK
  BY DEF IInv
<1> QED BY <1>1, Invariant, PTL

(* In polling mode every register access reaches the register it names,    *)
(* without a lock on its two transactions, but for the time after a resume *)
(* (synaptics_i2c.c:241).                                                  *)
THEOREM BusToOneself == Spec => []PageHolds
<1>1. IInv => PageHolds
  BY DEF IInv
<1> QED BY <1>1, Invariant, PTL

(* In polling mode a closed device has no work pending or running          *)
(* (synaptics_i2c.c:474-485).                                              *)
THEOREM ClosedIsQuiet == Spec => []QuietWhenClosed
<1>1. IInv => QuietWhenClosed
  BY DEF IInv, PollFits, QuietWhenClosed, TaskFree, task
<1> QED BY <1>1, Invariant, PTL

(* In polling mode the touch that remove frees has no work left            *)
(* (synaptics_i2c.c:599-611).                                              *)
THEOREM FreedIsQuiet == Spec => []NoUseAfterFree
<1>1. IInv => NoUseAfterFree
  BY DEF IInv, PollFits, CallFits, NoUseAfterFree, TaskFree, task
<1> QED BY <1>1, Invariant, PTL

(* In polling mode an open device is polled, whatever failed on the bus    *)
(* (synaptics_i2c.c:424-471).                                              *)
THEOREM OpenIsPolled == Spec => []PollingAlive
<1>1. IInv => PollingAlive
  BY DEF IInv, PollFits, PollingAlive
<1> QED BY <1>1, Invariant, PTL

(* In polling mode a suspended system has no work left                     *)
(* (synaptics_i2c.c:613-624).                                              *)
THEOREM SuspendedIsQuiet == Spec => []SuspendedQuiet
<1>1. IInv => SuspendedQuiet
  BY DEF IInv, IrqFits, SuspendedQuiet
<1> QED BY <1>1, Invariant, PTL

(* In either mode, when removal has closed the device neither work nor an  *)
(* interrupt is left (synaptics_i2c.c:599-611).                            *)
THEOREM RemovedIsClosed == Spec => []ClosedForGood
<1>1. IInv => ClosedForGood
  BY DEF IInv, IrqFits, ClosedForGood, task
<1> QED BY <1>1, Invariant, PTL

=============================================================================

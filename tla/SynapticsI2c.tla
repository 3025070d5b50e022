---------------------------- MODULE SynapticsI2c ----------------------------
(***************************************************************************)
(* The Synaptics touchpad driver (Synaptics_I2C_Mouse/synaptics_i2c.c).    *)
(*                                                                         *)
(* Two contexts use the I2C bus: the task that is in one of the driver's   *)
(* callbacks (probe, open, close, suspend, resume, remove exclude each     *)
(* other, by the device lock, the input device's mutex and the freezer)    *)
(* and the worker that runs the work handler. Each register access is two  *)
(* transactions, the page first. The interrupt handler and the timer queue *)
(* the work. The touchpad itself is external.                              *)
(*                                                                         *)
(* Definitions marked "mutant" are wrong on purpose: they show that the    *)
(* property named there depends on the code of the definition that follows.*)
(***************************************************************************)
EXTENDS Integers, DelayedWork

CONSTANTS
  Options,   \* the options of the General 2D Control register
  Setups     \* the boards, parameters and kernels the driver is used on

Fallible == {"input_allocate_device", "request_irq", "input_register_device"}

Setup ==
  [irq         : BOOLEAN,          \* client->irq >= 1
   polling_req : BOOLEAN,          \* the module is loaded with polling_req
   options     : SUBSET Options,   \* the parameters somebody changes
   faults      : Nat,              \* how many bus transactions may fail
   upsets      : BOOLEAN,          \* the touchpad may reset spontaneously
   pm          : BOOLEAN,          \* the kernel has CONFIG_PM_SLEEP
   fails       : SUBSET Fallible]  \* the calls of probe that may fail

ASSUME SetupAssumption == \A s \in Setups : s \in Setup

VARIABLES
  setup,    \* the setup; it never changes
  pad,      \* the touchpad: page register, state and interrupt enable
  irq,      \* the interrupt line: requested, and an edge not yet handled
  dwork,    \* touch->dwork
  ctx,      \* per context: the callback it is in and its register access
  drv,      \* how far the driver is bound to the device
  opened,   \* the input device is open
  power,    \* the system's power transition as this driver sees it; it stays
            \* "resumed" or "unresumed", after a failure, until the next close
  polling,  \* the global polling_req
  opt,      \* no_decel, reduce_report, no_filter: the parameters set
  optParam, \* touch->..._param: the parameters seen last
  faults    \* bus transactions that may still fail

vars == <<setup, pad, irq, dwork, ctx, drv, opened, power, polling, opt,
          optParam, faults>>
env == <<setup, faults>>
driver == <<drv, opened, power, polling, optParam>>

Contexts == {"task", "worker"}

-----------------------------------------------------------------------------
(* Register accesses, by what they access, in the order they follow each   *)
(* other: reset to set_2d is synaptics_i2c_reset_config, data and rel are  *)
(* the reads of synaptics_i2c_get_input.                                   *)

Gets == {"get_2d", "status", "data", "rel", "info"}
Sets == {"reset", "control", "int_en", "set_2d", "int_off", "sleep"}
Accesses == Gets \union Sets

After(x) ==
  CASE x = "reset"   -> "control"
    [] x = "control" -> "int_en"
    [] x = "int_en"  -> "get_2d"
    [] x = "get_2d"  -> "set_2d"
    [] x = "data"    -> "rel"
    [] OTHER         -> "done"

(* mutant for TypeOK *)
LowByteOf(x) ==
  CASE x = "rel" -> 6 [] x \in {"get_2d", "set_2d"} -> 65 [] OTHER -> 0

(* The page of a register's RMI address; the status register is reached by *)
(* its SMBus address from every page.                                      *)
PageOf(x) ==
  CASE x \in {"reset", "control", "int_en", "int_off", "sleep"} -> 0
    [] x = "info" -> 2
    [] x \in {"data", "rel"} -> 4
    [] x \in {"get_2d", "set_2d"} -> 16

Calls == {"none", "probe", "info", "register", "open", "close", "cancel",
          "sleep", "resume", "params", "status", "recover", "data"}

Context == [call : Calls, at : Accesses \union {"done"}, sel : BOOLEAN,
            err : BOOLEAN, control : SUBSET Options]
Free == [call |-> "none", at |-> "done", sel |-> FALSE, err |-> FALSE,
         control |-> {}]

Touchpad == [page : {0, 2, 4, 16}, configured : BOOLEAN, awake : BOOLEAN,
             int_en : BOOLEAN, options : SUBSET Options, motion : BOOLEAN]

TypeOK ==
  /\ setup \in Setups
  /\ pad \in Touchpad
  /\ irq \in [requested : BOOLEAN, edge : BOOLEAN]
  /\ dwork \in Work
  /\ ctx \in [Contexts -> Context]
  /\ drv \in {"unbound", "probing", "bound", "removing", "gone"}
  /\ power \in {"up", "suspending", "down", "resumed", "unresumed"}
  /\ {opened, polling} \subseteq BOOLEAN
  /\ {opt, optParam} \subseteq SUBSET Options
  /\ faults \in 0 .. setup.faults

Init ==
  /\ setup \in Setups
  /\ pad = [page |-> 0, configured |-> FALSE, awake |-> TRUE,
            int_en |-> FALSE, options |-> {}, motion |-> FALSE]
  /\ irq = [requested |-> FALSE, edge |-> FALSE]
  /\ dwork = Unqueued
  /\ ctx = [c \in Contexts |-> Free]
  /\ drv = "unbound" /\ opened = FALSE /\ power = "up"
  /\ polling = setup.polling_req
  /\ opt \in SUBSET setup.options /\ optParam = {}
  /\ faults = setup.faults

-----------------------------------------------------------------------------
(* The touchpad, and its attention line: a falling edge reaches the        *)
(* processor only while a handler is installed.                            *)

Attention(p) == p.int_en /\ p.motion

PadBecomes(p) ==
  /\ pad' = p
  /\ irq' = [irq EXCEPT !.edge = @ \/ (irq.requested /\ Attention(p)
                                                    /\ ~Attention(pad))]

AfterReset ==
  [pad EXCEPT !.configured = FALSE, !.awake = TRUE, !.int_en = FALSE,
              !.options = {}, !.motion = FALSE]

Motion ==
  /\ pad.awake /\ pad.configured /\ ~pad.motion
  /\ PadBecomes([pad EXCEPT !.motion = TRUE])
  /\ UNCHANGED <<dwork, ctx, driver, opt, env>>

Upset ==
  /\ setup.upsets /\ pad.configured
  /\ PadBecomes(AfterReset)
  /\ UNCHANGED <<dwork, ctx, driver, opt, env>>

(* What a transaction on register x does when the page is the right one.   *)
Effect(x, control) ==
  CASE x = "reset"   -> AfterReset
    [] x = "control" -> [pad EXCEPT !.configured = TRUE, !.awake = TRUE]
    [] x = "sleep"   -> [pad EXCEPT !.configured = TRUE, !.awake = FALSE]
    [] x = "int_en"  -> [pad EXCEPT !.int_en = ~polling]
    [] x = "int_off" -> [pad EXCEPT !.int_en = FALSE]
    [] x = "set_2d"  -> [pad EXCEPT !.options = control \union opt]
    [] x = "rel"     -> [pad EXCEPT !.motion = FALSE]
    [] OTHER         -> pad

-----------------------------------------------------------------------------
(* The bus                                                                 *)

SelectPage(c) ==
  /\ ctx[c].at \in Accesses \ {"status"} /\ ~ctx[c].sel
  /\ PadBecomes([pad EXCEPT !.page = PageOf(ctx[c].at)])
  /\ ctx' = [ctx EXCEPT ![c].sel = TRUE]
  /\ UNCHANGED <<dwork, driver, opt, env>>

(* On the wrong page the access hits a register the driver never meant:    *)
(* a write is lost, a read returns anything.                               *)
Access(c) ==
  LET x == ctx[c].at
      hit == x = "status" \/ pad.page = PageOf(x)
  IN /\ x = "status" \/ (x \in Accesses /\ ctx[c].sel)
     /\ PadBecomes(IF hit THEN Effect(x, ctx[c].control) ELSE pad)
     /\ \E got \in SUBSET setup.options :
          /\ IF x = "get_2d" THEN hit => got = pad.options
                             ELSE got = ctx[c].control
          /\ ctx' = [ctx EXCEPT ![c].at = After(x), ![c].sel = FALSE,
                                ![c].control = got,
                                ![c].err = x = "status" /\ ~pad.configured]
     /\ UNCHANGED <<dwork, driver, opt, env>>

(* A failed transaction: a set gives up with the error, a get hands its    *)
(* caller the error number as if it were the register's value.             *)
Fault(c) ==
  LET x == ctx[c].at
  IN /\ x \in Accesses /\ faults > 0
     /\ faults' = faults - 1
     /\ \E got \in SUBSET setup.options :
          /\ x # "get_2d" => got = ctx[c].control
          /\ ctx' = [ctx EXCEPT ![c].at = IF x \in Sets THEN "done" ELSE After(x),
                                ![c].sel = FALSE, ![c].control = got,
                                ![c].err = x \in Sets \union {"status"}]
     /\ UNCHANGED <<setup, pad, irq, dwork, driver, opt>>

(* Context c enters a callback, or its next part, with its first access.   *)
Enter(c, call, x) == ctx' = [ctx EXCEPT ![c] = [Free EXCEPT !.call = call,
                                                            !.at = x]]
In(c, call) == ctx[c].call = call /\ ctx[c].at = "done"
Leave(c) == ctx' = [ctx EXCEPT ![c] = Free]
Failed(c) == ctx[c].err
TaskFree == ctx["task"].call = "none"
Running == power \in {"up", "resumed", "unresumed"}

-----------------------------------------------------------------------------
(* Interrupt and work handler                                              *)

(* mutant for MotionIsRead *)
IrqUnqueued ==
  /\ irq.requested /\ irq.edge /\ drv # "unbound"
  /\ irq' = [irq EXCEPT !.edge = FALSE]
  /\ UNCHANGED <<pad, dwork, ctx, driver, opt, env>>

synaptics_i2c_irq ==
  /\ irq.requested /\ irq.edge /\ drv # "unbound"
  /\ irq' = [irq EXCEPT !.edge = FALSE]
  /\ dwork' = ModDelayed(dwork, "now")
  /\ UNCHANGED <<pad, ctx, driver, opt, env>>

TimerExpires ==
  /\ dwork.pending = "later"
  /\ dwork' = Expired(dwork)
  /\ UNCHANGED <<pad, irq, ctx, driver, opt, env>>

(* synaptics_i2c_check_params, up to the reset it asks for.                *)
WorkBegins ==
  /\ Runnable(dwork) /\ drv # "unbound"
  /\ dwork' = Begun(dwork)
  /\ optParam' = opt
  /\ IF opt # optParam THEN Enter("worker", "params", "reset")
                       ELSE Enter("worker", "status", "status")
  /\ UNCHANGED <<pad, irq, drv, opened, power, polling, opt, env>>

(* The result of the reset for new parameters is ignored.                  *)
WorkChecksStatus ==
  /\ In("worker", "params")
  /\ Enter("worker", "status", "status")
  /\ UNCHANGED <<pad, irq, dwork, driver, opt, env>>

(* mutant for RecoversOnceStarted *)
StatusIgnored ==
  /\ In("worker", "status")
  /\ Enter("worker", "data", "data")
  /\ UNCHANGED <<pad, irq, dwork, driver, opt, env>>

WorkActsOnStatus ==
  /\ In("worker", "status")
  /\ IF Failed("worker") THEN Enter("worker", "recover", "reset")
                         ELSE Enter("worker", "data", "data")
  /\ UNCHANGED <<pad, irq, dwork, driver, opt, env>>

WorkReadsRecovered ==
  /\ In("worker", "recover") /\ ~Failed("worker")
  /\ Enter("worker", "data", "data")
  /\ UNCHANGED <<pad, irq, dwork, driver, opt, env>>

(* The handler queues its next run, after a delay, whatever it met.        *)
WorkEnds ==
  /\ In("worker", "data") \/ (In("worker", "recover") /\ Failed("worker"))
  /\ dwork' = Ended(ModDelayed(dwork, "later"))
  /\ Leave("worker")
  /\ UNCHANGED <<pad, irq, driver, opt, env>>

-----------------------------------------------------------------------------
(* probe and remove                                                        *)

(* A touch that was freed under its work or its interrupt is not modelled  *)
(* any further.                                                            *)
BeginProbe ==
  /\ TaskFree /\ drv = "unbound" /\ AtRest(dwork) /\ ~irq.requested
  /\ drv' = "probing"
  /\ optParam' = opt \intersect {"no_decel"}
  /\ dwork' = Unqueued
  /\ Enter("task", "probe", "reset")
  /\ UNCHANGED <<pad, irq, opened, power, polling, opt, env>>

ProbeFails ==
  /\ drv' = "unbound"
  /\ Leave("task")

ProbeConfigured ==
  /\ In("task", "probe")
  /\ polling' = (polling \/ (~Failed("task") /\ ~setup.irq))
  /\ \/ (Failed("task") \/ "input_allocate_device" \in setup.fails) /\ ProbeFails
     \/ ~Failed("task") /\ Enter("task", "info", "info") /\ UNCHANGED drv
  /\ UNCHANGED <<pad, irq, dwork, opened, power, opt, optParam, env>>

ProbeRequestsIrq ==
  /\ In("task", "info")
  /\ \/ /\ polling
        /\ Enter("task", "register", "done")
        /\ UNCHANGED <<irq, polling>>
     \/ /\ ~polling
        /\ irq' = [requested |-> TRUE, edge |-> FALSE]
        /\ Enter("task", "register", "done")
        /\ UNCHANGED polling
     \/ /\ ~polling /\ "request_irq" \in setup.fails
        /\ polling' = TRUE
        /\ Enter("task", "register", "int_off")
        /\ UNCHANGED irq
  /\ UNCHANGED <<pad, dwork, drv, opened, power, opt, optParam, env>>

ProbeRegisters ==
  /\ In("task", "register")
  /\ \/ drv' = "bound" /\ Leave("task")
     \/ "input_register_device" \in setup.fails /\ ProbeFails
  /\ UNCHANGED <<pad, irq, dwork, opened, power, polling, opt, optParam, env>>

(* mutant for ClosedForGood *)
RemoveKeepsIrq ==
  /\ TaskFree /\ drv = "bound" /\ Running
  /\ drv' = "removing"
  /\ UNCHANGED <<pad, irq, dwork, ctx, opened, power, polling, opt, optParam,
                 env>>

Remove ==
  /\ TaskFree /\ drv = "bound" /\ Running
  /\ drv' = "removing"
  /\ irq' = IF polling THEN irq ELSE [requested |-> FALSE, edge |-> FALSE]
  /\ UNCHANGED <<pad, dwork, ctx, opened, power, polling, opt, optParam, env>>

-----------------------------------------------------------------------------
(* open and close, by the first and the last user of the input device      *)

Usable == TaskFree /\ drv \in {"bound", "removing"} /\ Running

(* mutant for PageHolds *)
OpenQueuesFirst ==
  /\ Usable /\ ~opened
  /\ dwork' = IF polling THEN ModDelayed(dwork, "later") ELSE dwork
  /\ Enter("task", "open", "reset")
  /\ UNCHANGED <<pad, irq, driver, opt, env>>

BeginOpen ==
  /\ Usable /\ ~opened
  /\ Enter("task", "open", "reset")
  /\ UNCHANGED <<pad, irq, dwork, driver, opt, env>>

EndOpen ==
  /\ In("task", "open")
  /\ opened' = ~Failed("task")
  /\ dwork' = IF ~Failed("task") /\ polling THEN ModDelayed(dwork, "later")
                                            ELSE dwork
  /\ Leave("task")
  /\ UNCHANGED <<pad, irq, drv, power, polling, opt, optParam, env>>

(* mutant for QuietWhenClosed *)
CancelAsync ==
  /\ dwork' = [dwork EXCEPT !.pending = "no"]
  /\ Enter("task", "sleep", "sleep")

(* mutant for CallbacksReturn *)
CancelOnce ==
  /\ dwork' = [dwork EXCEPT !.pending = "no"]
  /\ Enter("task", "cancel", "done")

Cancel ==
  /\ dwork' = CancelBegun(dwork)
  /\ Enter("task", "cancel", "done")

synaptics_i2c_close ==
  IF polling THEN Cancel
             ELSE Enter("task", "close", "int_off") /\ UNCHANGED dwork

BeginClose ==
  /\ Usable /\ opened
  /\ opened' = FALSE
  /\ synaptics_i2c_close
  /\ UNCHANGED <<pad, irq, drv, power, polling, opt, optParam, env>>

CloseCancels ==
  /\ In("task", "close")
  /\ Cancel
  /\ UNCHANGED <<pad, irq, driver, opt, env>>

CancelDone ==
  /\ In("task", "cancel") /\ ~dwork.running
  /\ dwork' = CancelEnded(dwork)
  /\ Enter("task", "sleep", "sleep")
  /\ UNCHANGED <<pad, irq, driver, opt, env>>

SleepDone ==
  /\ In("task", "sleep")
  /\ power' = IF power = "suspending" THEN "down" ELSE "up"
  /\ Leave("task")
  /\ UNCHANGED <<pad, irq, dwork, drv, opened, polling, opt, optParam, env>>

(* mutant for NoUseAfterFree *)
UnregisterOpen ==
  /\ TaskFree /\ drv = "removing"
  /\ drv' = "gone"
  /\ opened' = FALSE
  /\ UNCHANGED <<pad, irq, dwork, ctx, power, polling, opt, optParam, env>>

(* input_unregister_device closes an open device and admits no new user.   *)
Unregister ==
  /\ TaskFree /\ drv = "removing"
  /\ drv' = "gone"
  /\ opened' = FALSE
  /\ IF opened THEN synaptics_i2c_close ELSE UNCHANGED <<ctx, dwork>>
  /\ UNCHANGED <<pad, irq, power, polling, opt, optParam, env>>

FreeTouch ==
  /\ TaskFree /\ drv = "gone"
  /\ drv' = "unbound"
  /\ UNCHANGED <<pad, irq, dwork, ctx, opened, power, polling, opt, optParam,
                 env>>

-----------------------------------------------------------------------------
(* suspend and resume, and the module parameters in sysfs                  *)

(* mutant for SuspendedQuiet *)
SuspendUncancelled ==
  /\ setup.pm /\ TaskFree /\ drv = "bound" /\ Running
  /\ power' = "suspending"
  /\ Enter("task", "sleep", "sleep")
  /\ UNCHANGED <<pad, irq, dwork, drv, opened, polling, opt, optParam, env>>

BeginSuspend ==
  /\ setup.pm /\ TaskFree /\ drv = "bound" /\ Running
  /\ power' = "suspending"
  /\ Cancel
  /\ UNCHANGED <<pad, irq, drv, opened, polling, opt, optParam, env>>

BeginResume ==
  /\ TaskFree /\ power = "down"
  /\ Enter("task", "resume", "reset")
  /\ UNCHANGED <<pad, irq, dwork, driver, opt, env>>

(* mutant for PollingAlive *)
ResumeUnqueued ==
  /\ In("task", "resume")
  /\ power' = IF Failed("task") THEN "unresumed" ELSE "resumed"
  /\ Leave("task")
  /\ UNCHANGED <<pad, irq, dwork, drv, opened, polling, opt, optParam, env>>

EndResume ==
  /\ In("task", "resume")
  /\ power' = IF Failed("task") THEN "unresumed" ELSE "resumed"
  /\ dwork' = IF Failed("task") THEN dwork ELSE ModDelayed(dwork, "later")
  /\ Leave("task")
  /\ UNCHANGED <<pad, irq, drv, opened, polling, opt, optParam, env>>

SetParameter ==
  /\ opt' \in SUBSET setup.options /\ opt' # opt
  /\ UNCHANGED <<pad, irq, dwork, ctx, driver, env>>

-----------------------------------------------------------------------------
(* The steps a context takes once it is in a callback                      *)
WorkProgress ==
  \/ WorkBegins \/ WorkChecksStatus \/ WorkActsOnStatus
  \/ WorkReadsRecovered \/ WorkEnds
  \/ SelectPage("worker") \/ Access("worker")

TaskProgress ==
  \/ ProbeConfigured \/ ProbeRequestsIrq \/ ProbeRegisters
  \/ EndOpen \/ CloseCancels \/ CancelDone \/ SleepDone \/ EndResume
  \/ Unregister \/ FreeTouch
  \/ SelectPage("task") \/ Access("task")

Callbacks ==
  \/ BeginProbe \/ Remove
  \/ BeginOpen \/ BeginClose \/ BeginSuspend \/ BeginResume

Next ==
  \/ Callbacks \/ TaskProgress \/ WorkProgress
  \/ synaptics_i2c_irq \/ TimerExpires
  \/ Motion \/ Upset \/ SetParameter
  \/ \E c \in Contexts : Fault(c)

Spec == Init /\ [][Next]_vars

(* Callbacks that have begun, queued work, timers and interrupts make      *)
(* progress; nobody has to open, move a finger or change a parameter.      *)
FairSpec ==
  /\ Spec
  /\ WF_vars(TaskProgress) /\ WF_vars(WorkProgress)
  /\ WF_vars(synaptics_i2c_irq) /\ WF_vars(TimerExpires)

-----------------------------------------------------------------------------
(* Properties                                                              *)

(* No context changes the page under another: a register access reaches    *)
(* the register it names, with no lock on the two transactions. "Driver's  *)
(* initial design makes no race condition possible on i2c bus"             *)
(* (synaptics_i2c.c:241).                                                  *)
NoRaceOnBus ==
  \A c \in Contexts : ctx[c].sel => pad.page = PageOf(ctx[c].at)

(* In polling mode that is so up to a resume: one of a closed device       *)
(* starts its work, and opening the device races with it. After a resume   *)
(* nothing is claimed until the next close, of an open device neither.     *)
PageHolds == polling /\ power \in {"up", "down"} => NoRaceOnBus

(* In polling mode closing leaves no work behind, neither pending nor      *)
(* running, although the handler queues itself for ever                    *)
(* (synaptics_i2c.c:455, 481). A resume queues the work of a closed device *)
(* too, until it is opened and closed.                                     *)
QuietWhenClosed ==
  polling /\ TaskFree /\ ~opened /\ power = "up" => AtRest(dwork)

(* In polling mode the work handler is never left to run on a freed touch, *)
(* unless a resume started it behind a closed device.                      *)
NoUseAfterFree ==
  polling /\ drv = "unbound" /\ power = "up" => AtRest(dwork)

(* An open touchpad in polling mode is polled: its work is pending or      *)
(* running, whatever failed on the bus so far, but for a resume.           *)
PollingAlive ==
  polling /\ opened /\ power \in {"up", "resumed"} /\ TaskFree => ~AtRest(dwork)

(* In polling mode no work is left to talk to the touchpad while the       *)
(* system is suspended (synaptics_i2c.c:613-624).                          *)
SuspendedQuiet ==
  polling /\ power = "down" /\ TaskFree => AtRest(dwork)

(* Once removal has closed an open touchpad no work and no interrupt is    *)
(* left that could queue any: free_irq comes first, and the close waits    *)
(* (synaptics_i2c.c:604-608).                                              *)
ClosedForGood ==
  drv = "gone" /\ ctx["task"].call = "sleep" =>
    AtRest(dwork) /\ ~irq.requested

(* Every callback returns: close and suspend wait for a handler that       *)
(* always queues itself again.                                             *)
CallbacksReturn == ~TaskFree ~> TaskFree

(* A finger that moves on an open touchpad is read out, unless the system  *)
(* is suspended or its resume failed.                                      *)
MotionIsRead ==
  (opened /\ pad.motion)
    ~> (~pad.motion \/ ~opened \/ power \notin {"up", "resumed"})

(* A touchpad that lost its configuration while open gets it back          *)
(* (synaptics_i2c.c:452-454, "We poll the device once in                   *)
(* THREAD_IRQ_SLEEP_SECS and if error is detected, we try to reset and     *)
(* reconfigure the touchpad."), unless the system is suspended or its      *)
(* resume failed.                                                          *)
Recovered == pad.configured \/ ~opened \/ power \notin {"up", "resumed"}
Recovers == (opened /\ ~pad.configured) ~> Recovered

(* The same, once the work of the touchpad has been started, as open does  *)
(* in polling mode and the first interrupt otherwise.                      *)
RecoversOnceStarted ==
  (opened /\ ~pad.configured /\ (polling \/ ~AtRest(dwork))) ~> Recovered
=============================================================================

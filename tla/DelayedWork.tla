----------------------------- MODULE DelayedWork -----------------------------
(***************************************************************************)
(* One delayed work item of the kernel's workqueue, as the drivers use it: *)
(* mod_delayed_work, schedule_delayed_work and cancel_delayed_work_sync.   *)
(* The item is pending or not, apart from that it may be running, and it   *)
(* never runs twice at once. External code, modelled from its callers.     *)
(***************************************************************************)

Work == [pending : {"no", "later", "now"}, running : BOOLEAN,
         canceling : BOOLEAN]

Unqueued == [pending |-> "no", running |-> FALSE, canceling |-> FALSE]

(* Nothing of the item is left that could still touch its memory.          *)
AtRest(w) == w.pending = "no" /\ ~w.running

(* mod_delayed_work moves the item to its new time, also to a later one;   *)
(* it has no effect while a cancel_delayed_work_sync is under way.         *)
ModDelayed(w, when) ==
  IF w.canceling THEN w ELSE [w EXCEPT !.pending = when]

(* schedule_delayed_work leaves an item that is pending where it is.       *)
ScheduleDelayed(w) ==
  IF w.canceling \/ w.pending # "no" THEN w ELSE [w EXCEPT !.pending = "later"]

Expired(w) == [w EXCEPT !.pending = "now"]

Runnable(w) == w.pending = "now" /\ ~w.running
Begun(w) == [w EXCEPT !.pending = "no", !.running = TRUE]
Ended(w) == [w EXCEPT !.running = FALSE]

(* cancel_delayed_work_sync: dequeue, keep others from queueing, and wait  *)
(* for a running handler.                                                  *)
CancelBegun(w) == [w EXCEPT !.pending = "no", !.canceling = TRUE]
CancelEnded(w) == [w EXCEPT !.canceling = FALSE]
=============================================================================

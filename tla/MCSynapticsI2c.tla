--------------------------- MODULE MCSynapticsI2c ---------------------------
(* The setups of the touchpad driver for TLC.                              *)
EXTENDS SynapticsI2c

Bare == [irq |-> TRUE, polling_req |-> FALSE, options |-> {}, faults |-> 0,
         upsets |-> FALSE, pm |-> FALSE, fails |-> {}]

(* No interrupt; a transaction fails, a parameter changes, the system      *)
(* suspends, probe may fail.                                               *)
Polled == [Bare EXCEPT !.irq = FALSE, !.options = {"no_decel"}, !.faults = 1,
                       !.upsets = TRUE, !.pm = TRUE,
                       !.fails = Fallible \ {"request_irq"}]

(* An interrupt, and any call of probe may fail.                           *)
Interrupted == [Bare EXCEPT !.upsets = TRUE, !.fails = Fallible]

(* An interrupt, and one transaction fails.                                *)
Faulty == [Bare EXCEPT !.faults = 1]

(* An interrupt that polling_req leaves alone.                             *)
Requested == [Bare EXCEPT !.polling_req = TRUE, !.upsets = TRUE, !.pm = TRUE]

AllSetups == {Polled, Interrupted, Faulty, Requested}
BareSetup == {Bare}
UpsetSetup == {[Bare EXCEPT !.upsets = TRUE]}
=============================================================================

--------------------------- MODULE SynapticsPolling ---------------------------
(***************************************************************************)
(* How long the Synaptics driver sleeps between two runs of its work       *)
(* handler when it polls (synaptics_i2c_adjust_delay and set_scan_rate of  *)
(* Synaptics_I2C_Mouse/synaptics_i2c.c). The code counts runs; time, which *)
(* it never measures, passes in jiffies, into which it converts each delay.*)
(* A run may come late, by the time the handler and its transactions take, *)
(* and by what the timer and the workqueue add.                            *)
(*                                                                         *)
(* scan_rate is a module parameter that can be written while the driver    *)
(* runs. Rates are between 1 and 1000: with 0, or above 1000, the code     *)
(* divides by zero.                                                        *)
(*                                                                         *)
(* Definitions marked "mutant" are wrong on purpose: they show that the    *)
(* property named there depends on the code of the definition that follows.*)
(***************************************************************************)
EXTENDS Integers

CONSTANTS
  Rates,    \* the polling rates, in times per second
  Jiffy,    \* milliseconds in a jiffy, 1000 / HZ
  MaxLate   \* jiffies by which a run may come late

MSEC_PER_SEC == 1000
NO_DATA_THRES == MSEC_PER_SEC
NO_DATA_SLEEP_MSECS == MSEC_PER_SEC \div 4

ASSUME RatesAssumption == Rates \subseteq 1 .. MSEC_PER_SEC
ASSUME ClockAssumption == Jiffy \in 1 .. MSEC_PER_SEC /\ MaxLate \in Nat

VARIABLES
  scan_rate,       \* the module parameter
  scan_rate_param, \* touch->scan_rate_param, the rate seen last
  scan_ms,         \* touch->scan_ms
  no_data_count,   \* touch->no_data_count
  delay,           \* what the work was queued with last, in jiffies
  idle,            \* jiffies from the last data to the last run
  steady,          \* since there were data the rate has not changed and the
                   \* touchpad has not been closed; idle is 0 otherwise
  odd              \* the parity of the runs, so that each run is a step

vars == <<scan_rate, scan_rate_param, scan_ms, no_data_count, delay, idle,
          steady, odd>>

Period(rate) == MSEC_PER_SEC \div rate

(* Whole jiffies, never fewer than the milliseconds.                       *)
msecs_to_jiffies(m) == (m + Jiffy - 1) \div Jiffy
Msecs(jiffies) == jiffies * Jiffy

(* The runs without data after which polling slows down.                   *)
Threshold(ms) == NO_DATA_THRES \div ms

(* open, after probe has made the touch.                                   *)
Init ==
  /\ scan_rate \in Rates /\ scan_rate_param = scan_rate
  /\ scan_ms = Period(scan_rate)
  /\ no_data_count = 0
  /\ delay = msecs_to_jiffies(NO_DATA_SLEEP_MSECS)
  /\ idle = 0 /\ steady = FALSE /\ odd = FALSE

SetScanRate ==
  /\ scan_rate' \in Rates \ {scan_rate}
  /\ steady' = FALSE /\ idle' = 0
  /\ UNCHANGED <<scan_rate_param, scan_ms, no_data_count, delay, odd>>

(* Closing or suspending cancels the work, opening or resuming queues it;  *)
(* the count stays as it was.                                              *)
Reopen ==
  /\ delay' = msecs_to_jiffies(NO_DATA_SLEEP_MSECS)
  /\ steady' = FALSE /\ idle' = 0
  /\ UNCHANGED <<scan_rate, scan_rate_param, scan_ms, no_data_count, odd>>

(* mutant for SlowsEventually *)
no_data_from_zero(count, ms) ==
  IF count < Threshold(ms)
  THEN [count |-> 0, delay |-> ms]
  ELSE [count |-> count, delay |-> NO_DATA_SLEEP_MSECS]

(* mutant for SlowsInTime *)
no_data_one_late(count, ms) ==
  IF count <= Threshold(ms)
  THEN [count |-> count + 1, delay |-> ms]
  ELSE [count |-> count, delay |-> NO_DATA_SLEEP_MSECS]

(* A run without data counts up to the threshold, then slows down.         *)
no_data(count, ms) ==
  IF count < Threshold(ms)
  THEN [count |-> count + 1, delay |-> ms]
  ELSE [count |-> count, delay |-> NO_DATA_SLEEP_MSECS]

(* The longest that n runs, and the waits before them, can take.           *)
Latest(n, ms) == n * (msecs_to_jiffies(ms) + MaxLate)

(* Time is not counted past the first run that should be slow.             *)
Capped(t, ms) ==
  LET most == Latest(Threshold(ms) + 1, ms) IN IF t > most THEN most ELSE t

(* synaptics_i2c_check_params                                              *)
check_params ==
  /\ scan_rate_param' = scan_rate
  /\ scan_ms' = IF scan_rate # scan_rate_param THEN Period(scan_rate) ELSE scan_ms
  /\ odd' = ~odd
  /\ UNCHANGED scan_rate

RunWithData ==
  /\ check_params
  /\ no_data_count' = 0 /\ idle' = 0
  /\ steady' = TRUE
  /\ delay' = msecs_to_jiffies(scan_ms')

RunWithoutData(late) ==
  /\ check_params
  /\ LET next == no_data(no_data_count, scan_ms')
     IN no_data_count' = next.count /\ delay' = msecs_to_jiffies(next.delay)
  /\ idle' = IF steady THEN Capped(idle + delay + late, scan_ms') ELSE 0
  /\ UNCHANGED steady

Run == RunWithData \/ \E late \in 0 .. MaxLate : RunWithoutData(late)

Next == SetScanRate \/ Reopen \/ Run

Spec == Init /\ [][Next]_vars

(* The work item runs again whenever its delay is over.                    *)
FairSpec == Spec /\ WF_vars(Run)

-----------------------------------------------------------------------------
(* Properties                                                              *)

(* At a rate that is left alone, polling is not slow before there have     *)
(* been no data for more than NO_DATA_THRES msecs, and is slow once there  *)
(* have been none for as many periods as make up NO_DATA_THRES msecs, each *)
(* as long as it takes in jiffies, late runs included: counting runs       *)
(* measures time only as well as the runs keep to it                       *)
(* (synaptics_i2c.c:415-427). At high rates that is seconds later than the *)
(* NO_DATA_THRES msecs of the comment at synaptics_i2c.c:185.              *)
SlowsInTime ==
  steady =>
    /\ Msecs(idle) <= NO_DATA_THRES => delay = msecs_to_jiffies(scan_ms)
    /\ idle > Latest(Threshold(scan_ms), scan_ms)
         => delay = msecs_to_jiffies(NO_DATA_SLEEP_MSECS)

(* Without data polling becomes slow and stays so, also after the rate was *)
(* changed in the middle of counting, or the touchpad closed and opened.   *)
SlowsEventually ==
  \/ []<><<RunWithData \/ SetScanRate>>_vars
  \/ <>[](delay = msecs_to_jiffies(NO_DATA_SLEEP_MSECS))

=============================================================================

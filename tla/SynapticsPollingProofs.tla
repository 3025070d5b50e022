----------------------- MODULE SynapticsPollingProofs -----------------------
(***************************************************************************)
(* Proofs about SynapticsPolling, for any set of polling rates, any length *)
(* of a jiffy and any lateness of the runs: the delay is computed from a   *)
(* count of runs, and still follows the time without data, as closely as   *)
(* the runs follow their delays.                                           *)
(***************************************************************************)
EXTENDS SynapticsPolling, TLAPS

USE RatesAssumption, ClockAssumption

TypeInv ==
  /\ scan_rate \in Rates /\ scan_rate_param \in Rates
  /\ scan_ms \in 1 .. MSEC_PER_SEC
  /\ no_data_count \in Nat /\ delay \in Nat /\ idle \in Nat
  /\ steady \in BOOLEAN /\ odd \in BOOLEAN

(* Polling at the rate: each run counted, and none that was not, took a    *)
(* period and was at most MaxLate late. Or slow, since one run more.       *)
Counting ==
  /\ no_data_count \in 0 .. Threshold(scan_ms)
  /\ delay = msecs_to_jiffies(scan_ms)
  /\ no_data_count * msecs_to_jiffies(scan_ms) <= idle
  /\ idle <= Latest(no_data_count, scan_ms)
Slow ==
  /\ no_data_count = Threshold(scan_ms)
  /\ delay = msecs_to_jiffies(NO_DATA_SLEEP_MSECS)
  /\ (Threshold(scan_ms) + 1) * msecs_to_jiffies(scan_ms) <= idle

(* The inductive invariant: at a rate that is left alone the period is     *)
(* that of the rate, and count and time go together.                       *)
PInv ==
  /\ TypeInv
  /\ scan_ms = Period(scan_rate_param)
  /\ steady => scan_rate = scan_rate_param /\ (Counting \/ Slow)

-----------------------------------------------------------------------------
(* A rate between 1 and 1000 has a period of 1 to 1000 msecs.              *)
LEMMA PeriodInRange ==
  ASSUME NEW rate \in 1 .. MSEC_PER_SEC
  PROVE  Period(rate) \in 1 .. MSEC_PER_SEC
BY DEF Period, MSEC_PER_SEC

(* As many periods as fit in the threshold, and not one more.              *)
LEMMA Quotient ==
  ASSUME NEW ms \in 1 .. MSEC_PER_SEC
  PROVE  /\ Threshold(ms) \in Nat
         /\ (Threshold(ms) + 1) * ms > NO_DATA_THRES
BY DEF Threshold, NO_DATA_THRES, MSEC_PER_SEC

(* A delay lasts no less in jiffies than in milliseconds.                  *)
LEMMA Jiffies ==
  ASSUME NEW ms \in 1 .. MSEC_PER_SEC
  PROVE  msecs_to_jiffies(ms) \in Nat /\ ms <= msecs_to_jiffies(ms) * Jiffy
<1>1. /\ (ms + Jiffy - 1) \div Jiffy \in Int
      /\ ms + Jiffy - 1 < ((ms + Jiffy - 1) \div Jiffy) * Jiffy + Jiffy
      /\ (ms + Jiffy - 1) \div Jiffy >= 0
  BY SMTT(30) DEF MSEC_PER_SEC
<1> QED BY <1>1 DEF msecs_to_jiffies, MSEC_PER_SEC

LEMMA Products ==
  ASSUME NEW k \in Nat, NEW n \in Nat, NEW p \in Nat
  PROVE  /\ k * p \in Nat /\ (k + 1) * p = k * p + p
         /\ k <= n => k * p <= n * p /\ p * k <= p * n
OBVIOUS

(* What n runs take at the longest.                                        *)
LEMMA Longest ==
  ASSUME NEW k \in Nat, NEW n \in Nat, NEW ms \in 1 .. MSEC_PER_SEC
  PROVE  /\ Latest(k, ms) \in Nat
         /\ Latest(k + 1, ms) = Latest(k, ms) + msecs_to_jiffies(ms) + MaxLate
         /\ k <= n => Latest(k, ms) <= Latest(n, ms)
         /\ k * msecs_to_jiffies(ms) <= Latest(k, ms)
<1> DEFINE p == msecs_to_jiffies(ms)
           q == p + MaxLate
<1>1. p \in Nat /\ q \in Nat /\ p <= q
  BY Jiffies
<1>2. Latest(k, ms) = k * q /\ Latest(k + 1, ms) = (k + 1) * q /\ Latest(n, ms) = n * q
  BY DEF Latest
<1> HIDE DEF p
<1>3. k * q \in Nat /\ (k + 1) * q = k * q + q /\ (k <= n => k * q <= n * q)
  <2> HIDE DEF q
  <2> QED BY <1>1, Products
<1>4. k * p <= k * q
  <2> HIDE DEF q
  <2> QED BY <1>1, Products
<1> QED BY <1>1, <1>2, <1>3, <1>4 DEF p

(* Time is counted as far as it matters.                                   *)
LEMMA CappedTime ==
  ASSUME NEW t \in Nat, NEW ms \in 1 .. MSEC_PER_SEC
  PROVE  /\ Capped(t, ms) \in Nat
         /\ t <= Latest(Threshold(ms), ms) => Capped(t, ms) = t
         /\ \A p \in Nat : p <= t /\ p <= Latest(Threshold(ms) + 1, ms)
                             => p <= Capped(t, ms)
<1>1. /\ Threshold(ms) \in Nat /\ Latest(Threshold(ms), ms) \in Nat
      /\ Latest(Threshold(ms) + 1, ms) \in Nat
      /\ Latest(Threshold(ms), ms) <= Latest(Threshold(ms) + 1, ms)
  <2>1. Threshold(ms) \in Nat
    BY Quotient
  <2>2. Threshold(ms) + 1 \in Nat /\ Threshold(ms) <= Threshold(ms) + 1
    BY <2>1
  <2> QED BY <2>1, <2>2, Longest
<1> QED BY <1>1 DEF Capped

(* What every run does to the rate and the period.                         *)
LEMMA ParamsGood ==
  ASSUME PInv, check_params
  PROVE  /\ scan_rate' \in Rates /\ scan_rate_param' = scan_rate'
         /\ scan_ms' \in 1 .. MSEC_PER_SEC /\ scan_ms' = Period(scan_rate_param')
         /\ odd' \in BOOLEAN
         /\ steady => scan_ms' = scan_ms
<1>1. scan_rate' = scan_rate /\ scan_rate_param' = scan_rate /\ odd' \in BOOLEAN
  BY DEF check_params
<1>2. scan_ms' = Period(scan_rate)
  BY DEF PInv, check_params
<1>3. Period(scan_rate) \in 1 .. MSEC_PER_SEC
  BY PeriodInRange DEF PInv, TypeInv
<1>4. steady => scan_ms' = scan_ms
  BY <1>2 DEF PInv
<1> QED BY <1>1, <1>2, <1>3, <1>4 DEF PInv, TypeInv

LEMMA SleepInRange == NO_DATA_SLEEP_MSECS \in 1 .. MSEC_PER_SEC
BY DEF NO_DATA_SLEEP_MSECS, MSEC_PER_SEC

(* A run without data that nothing disturbs counts on in time, or polling  *)
(* becomes or stays slow.                                                  *)
LEMMA CountsOn ==
  ASSUME PInv, steady, NEW late \in 0 .. MaxLate, RunWithoutData(late)
  PROVE  Counting' \/ Slow'
<1> DEFINE ms == scan_ms
           T == Threshold(ms)
           p == msecs_to_jiffies(ms)
           k == no_data_count
           t == idle + delay + late
<1>1. /\ ms \in 1 .. MSEC_PER_SEC /\ k \in Nat /\ idle \in Nat /\ delay \in Nat
      /\ late \in Nat /\ t \in Nat /\ late <= MaxLate
  BY DEF PInv, TypeInv
<1>2. scan_ms' = ms /\ idle' = Capped(t, ms)
  BY ParamsGood DEF RunWithoutData
<1>3. \/ k < T /\ no_data_count' = k + 1 /\ delay' = p
      \/ /\ ~(k < T) /\ no_data_count' = k
         /\ delay' = msecs_to_jiffies(NO_DATA_SLEEP_MSECS)
  BY <1>2 DEF RunWithoutData, no_data
<1>4. /\ T \in Nat /\ p \in Nat
      /\ Latest(T, ms) \in Nat /\ Latest(T + 1, ms) \in Nat
      /\ (T + 1) * p <= Latest(T + 1, ms) /\ (T + 1) * p \in Nat
  <2>1. T \in Nat /\ p \in Nat
    BY <1>1, Quotient, Jiffies
  <2>2. T + 1 \in Nat
    BY <2>1
  <2> HIDE DEF T, p
  <2>3. Latest(T, ms) \in Nat /\ Latest(T + 1, ms) \in Nat
    BY <1>1, <2>1, <2>2, Longest
  <2>4. (T + 1) * p <= Latest(T + 1, ms)
    BY <1>1, <2>2, Longest DEF p
  <2>5. (T + 1) * p \in Nat
    BY <2>1, <2>2, Products
  <2> QED BY <2>1, <2>3, <2>4, <2>5
<1>5. /\ Counting => k <= T /\ delay = p /\ k * p <= idle /\ idle <= Latest(k, ms)
      /\ Slow => k = T /\ (T + 1) * p <= idle
      /\ Counting \/ Slow
  BY DEF Counting, Slow, PInv
<1>6. /\ no_data_count' \in 0 .. T /\ delay' = p /\ no_data_count' * p <= idle'
      /\ idle' <= Latest(no_data_count', ms)
      => Counting'
  BY <1>2 DEF Counting
<1>7. /\ no_data_count' = T /\ delay' = msecs_to_jiffies(NO_DATA_SLEEP_MSECS)
      /\ (T + 1) * p <= idle'
      => Slow'
  BY <1>2 DEF Slow
<1>8. /\ t <= Latest(T, ms) => idle' = t
      /\ (T + 1) * p <= t => (T + 1) * p <= idle'
  <2> HIDE DEF t
  <2> QED BY <1>1, <1>2, <1>4, CappedTime
<1> HIDE DEF ms, T, p, k
<1>9. CASE Counting /\ k < T
  <2>1. k * p \in Nat /\ (k + 1) * p = k * p + p
    BY <1>1, <1>4, Products
  <2>2. Latest(k + 1, ms) = Latest(k, ms) + p + MaxLate /\ Latest(k, ms) \in Nat
    BY <1>1, Longest DEF p
  <2>3. Latest(k + 1, ms) <= Latest(T, ms)
    <3>1. k + 1 \in Nat /\ k + 1 <= T
      BY <1>1, <1>4, <1>9
    <3> QED BY <1>1, <1>4, <3>1, Longest
  <2>4. delay = p /\ k * p <= idle /\ idle <= Latest(k, ms)
    BY <1>5, <1>9
  <2>5. (k + 1) * p <= t /\ t <= Latest(k + 1, ms)
    BY <1>1, <1>4, <2>1, <2>2, <2>4
  <2>6. idle' = t
    <3>1. Latest(k + 1, ms) \in Nat
      BY <1>1, <1>4, <2>2
    <3> QED BY <1>1, <1>4, <1>8, <2>3, <2>5, <3>1
  <2>7. no_data_count' = k + 1 /\ delay' = p /\ k + 1 \in 0 .. T
    BY <1>1, <1>3, <1>4, <1>9
  <2> QED BY <1>6, <2>5, <2>6, <2>7, Zenon
<1>10. CASE Counting /\ ~(k < T)
  <2>1. k = T /\ delay = p /\ k * p <= idle
    BY <1>1, <1>4, <1>5, <1>10
  <2>2. T * p \in Nat /\ (T + 1) * p = T * p + p
    BY <1>4, Products
  <2>3. (T + 1) * p <= t
    BY <1>1, <1>4, <2>1, <2>2
  <2> QED BY <1>3, <1>7, <1>8, <1>10, <2>1, <2>3, Zenon
<1>11. CASE Slow
  <2>1. k = T /\ (T + 1) * p <= idle
    BY <1>5, <1>11
  <2>2. (T + 1) * p <= t
    BY <1>1, <1>4, <2>1
  <2>3. ~(k < T)
    BY <1>4, <2>1
  <2> QED BY <1>3, <1>7, <1>8, <2>1, <2>2, <2>3, Zenon
<1> QED BY <1>5, <1>9, <1>10, <1>11

LEMMA WithoutDataGood ==
  ASSUME PInv, NEW late \in 0 .. MaxLate, RunWithoutData(late)
  PROVE  PInv'
<1>1. /\ scan_rate' \in Rates /\ scan_rate_param' = scan_rate'
      /\ scan_ms' \in 1 .. MSEC_PER_SEC /\ scan_ms' = Period(scan_rate_param')
      /\ odd' \in BOOLEAN
  BY ParamsGood DEF RunWithoutData
<1>2. steady' = steady /\ steady' \in BOOLEAN
  BY DEF RunWithoutData, PInv, TypeInv
<1>3. no_data_count' \in Nat /\ delay' \in Nat
  <2>1. \/ no_data_count' = no_data_count + 1 /\ delay' = msecs_to_jiffies(scan_ms')
        \/ no_data_count' = no_data_count /\ delay' = msecs_to_jiffies(NO_DATA_SLEEP_MSECS)
    BY DEF RunWithoutData, no_data
  <2>2. /\ msecs_to_jiffies(scan_ms') \in Nat
        /\ msecs_to_jiffies(NO_DATA_SLEEP_MSECS) \in Nat
    BY <1>1, SleepInRange, Jiffies
  <2>3. no_data_count \in Nat
    BY DEF PInv, TypeInv
  <2> QED BY <2>1, <2>2, <2>3
<1>4. idle' \in Nat
  <2>1. idle + delay + late \in Nat
    BY DEF PInv, TypeInv
  <2>2. Capped(idle + delay + late, scan_ms') \in Nat
    BY <1>1, <2>1, CappedTime
  <2> QED BY <2>2 DEF RunWithoutData
<1>5. steady => Counting' \/ Slow'
  BY CountsOn
<1> QED BY <1>1, <1>2, <1>3, <1>4, <1>5 DEF PInv, TypeInv

LEMMA WithDataGood ==
  ASSUME PInv, RunWithData
  PROVE  PInv'
<1>1. /\ scan_rate' \in Rates /\ scan_rate_param' = scan_rate'
      /\ scan_ms' \in 1 .. MSEC_PER_SEC /\ scan_ms' = Period(scan_rate_param')
      /\ odd' \in BOOLEAN
  BY ParamsGood DEF RunWithData
<1>2. /\ no_data_count' = 0 /\ idle' = 0 /\ steady' = TRUE
      /\ delay' = msecs_to_jiffies(scan_ms')
  BY DEF RunWithData
<1>3. msecs_to_jiffies(scan_ms') \in Nat /\ Threshold(scan_ms') \in Nat
      /\ Latest(0, scan_ms') \in Nat
  BY <1>1, Jiffies, Quotient, Longest
<1>4. Counting'
  <2>1. 0 * msecs_to_jiffies(scan_ms') = 0
    BY <1>3
  <2>2. 0 \in 0 .. Threshold(scan_ms') /\ 0 <= Latest(0, scan_ms')
    BY <1>3
  <2> QED BY <1>2, <2>1, <2>2 DEF Counting
<1> QED BY <1>1, <1>2, <1>3, <1>4 DEF PInv, TypeInv

LEMMA SetScanRateGood ==
  ASSUME PInv, SetScanRate
  PROVE  PInv'
BY DEF PInv, TypeInv, SetScanRate

LEMMA ReopenGood ==
  ASSUME PInv, Reopen
  PROVE  PInv'
<1>1. msecs_to_jiffies(NO_DATA_SLEEP_MSECS) \in Nat
  BY SleepInRange, Jiffies
<1> QED BY <1>1 DEF PInv, TypeInv, Reopen

LEMMA InitPolls == Init => PInv
<1> SUFFICES ASSUME Init PROVE PInv
  OBVIOUS
<1>1. Period(scan_rate) \in 1 .. MSEC_PER_SEC
  BY PeriodInRange DEF Init
<1>2. msecs_to_jiffies(NO_DATA_SLEEP_MSECS) \in Nat
  BY SleepInRange, Jiffies
<1> QED BY <1>1, <1>2 DEF Init, PInv, TypeInv

LEMMA NextPolls == PInv /\ [Next]_vars => PInv'
<1>1. ASSUME PInv, UNCHANGED vars PROVE PInv'
  BY <1>1 DEF PInv, TypeInv, Counting, Slow, vars
<1> QED BY <1>1, WithDataGood, WithoutDataGood, SetScanRateGood, ReopenGood
    DEF Next, Run

(* While polling is not slow, the time without data is no more than the    *)
(* counted runs took at the longest; when it is, one period more than fits *)
(* in the threshold has passed.                                            *)
LEMMA PolledInTime == PInv => SlowsInTime
<1> SUFFICES ASSUME PInv, steady
             PROVE  /\ Msecs(idle) <= NO_DATA_THRES => delay = msecs_to_jiffies(scan_ms)
                    /\ idle > Latest(Threshold(scan_ms), scan_ms)
                         => delay = msecs_to_jiffies(NO_DATA_SLEEP_MSECS)
  BY DEF SlowsInTime
<1>1. scan_ms \in 1 .. MSEC_PER_SEC /\ idle \in Nat /\ no_data_count \in Nat
  BY DEF PInv, TypeInv
<1>2. /\ Threshold(scan_ms) \in Nat
      /\ (Threshold(scan_ms) + 1) * scan_ms > NO_DATA_THRES
  BY <1>1, Quotient
<1>3. CASE Counting
  <2>1. no_data_count <= Threshold(scan_ms) /\ idle <= Latest(no_data_count, scan_ms)
    BY <1>3, <1>2 DEF Counting
  <2>2. /\ Latest(no_data_count, scan_ms) \in Nat
        /\ Latest(Threshold(scan_ms), scan_ms) \in Nat
        /\ Latest(no_data_count, scan_ms) <= Latest(Threshold(scan_ms), scan_ms)
    BY <1>1, <1>2, <2>1, Longest
  <2>3. ~(idle > Latest(Threshold(scan_ms), scan_ms))
    BY <1>1, <2>1, <2>2
  <2> QED BY <1>3, <2>3 DEF Counting
<1>4. CASE Slow
  <2> DEFINE n == Threshold(scan_ms) + 1
             p == msecs_to_jiffies(scan_ms)
  <2>1. n \in Nat /\ p \in Nat /\ scan_ms \in Nat /\ scan_ms <= p * Jiffy
        /\ Jiffy \in Nat /\ p * Jiffy \in Nat
    <3>1. n \in Nat
      BY <1>2
    <3>2. p \in Nat /\ scan_ms <= p * Jiffy
      BY <1>1, Jiffies
    <3>3. scan_ms \in Nat /\ Jiffy \in Nat
      BY <1>1 DEF MSEC_PER_SEC
    <3> HIDE DEF n, p
    <3> QED BY <3>1, <3>2, <3>3, Products
  <2>2. n * scan_ms > NO_DATA_THRES /\ n * p <= idle
    BY <1>2, <1>4 DEF Slow
  <2> HIDE DEF n, p
  <2>3. n * scan_ms <= n * (p * Jiffy)
    BY <2>1, Products
  <2>4. n * (p * Jiffy) = (n * p) * Jiffy /\ n * p \in Nat
    BY <2>1
  <2>5. (n * p) * Jiffy <= idle * Jiffy
    BY <1>1, <2>1, <2>2, <2>4, Products
  <2>6. Msecs(idle) > NO_DATA_THRES
    <3>1. n * scan_ms \in Nat /\ (n * p) * Jiffy \in Nat /\ idle * Jiffy \in Nat
      BY <1>1, <2>1, <2>4, Products
    <3>2. \A a, b, c \in Nat : a > NO_DATA_THRES /\ a <= b /\ b <= c => c > NO_DATA_THRES
      BY DEF NO_DATA_THRES, MSEC_PER_SEC
    <3>3. idle * Jiffy > NO_DATA_THRES
      BY <2>2, <2>3, <2>4, <2>5, <3>1, <3>2, Zenon
    <3> QED BY <3>3 DEF Msecs
  <2>7. ~(Msecs(idle) <= NO_DATA_THRES)
    <3>1. Msecs(idle) \in Nat
      BY <1>1, <2>1, Products DEF Msecs
    <3> QED BY <2>6, <3>1 DEF NO_DATA_THRES, MSEC_PER_SEC
  <2> QED BY <1>4, <2>7 DEF Slow
<1> QED BY <1>3, <1>4 DEF PInv

(* At any rate between 1 and 1000 polls per second that is left alone, on  *)
(* any kernel whose jiffies are whole milliseconds, polling slows down     *)
(* after more than NO_DATA_THRES msecs without data and no later than the  *)
(* runs that make up as much (synaptics_i2c.c:183-187, 415-438).           *)
THEOREM InTime == Spec => []SlowsInTime
<1>1. Spec => []PInv
  BY InitPolls, NextPolls, PTL DEF Spec
<1> QED BY <1>1, PolledInTime, PTL
=============================================================================

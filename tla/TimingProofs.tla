---------------------------- MODULE TimingProofs ----------------------------
(****************************************************************************)
(* Nothing happens early, nothing is late, no timer falls silent: for any   *)
(* number of threads and timers, any period, any delays, and interrupts     *)
(* that wait for less than a period.                                        *)
(****************************************************************************)
EXTENDS Timing, TLAPS

\* Most leaves are first-order: Zenon is the default, and the leaves it does
\* not find say SMT.
USE Zenon

-----------------------------------------------------------------------------
(* What the two-part times mean, the inductive invariant, the calls that    *)
(* sleep and the handler that wakes threads                                *)

Times == [sec : Nat, usec : 0..Period]
EventValues == Events \cup {"none", "alarm"}

TimingTypeOK ==
  /\ usec \in 0..(Period - 1) /\ counter \in Nat /\ Periods <= MaxPeriods
  /\ pending \subseteq {"overflow"} \cup Channels
  /\ oc \in [Channels -> 1..(Period + 1)]
  /\ mode \in [Threads -> {"run", "spin", "sleep", "pause"}]
  /\ wake \in [Threads -> Times]
  /\ spin \in [Threads -> [start : 0..(Period - 1), end : 0..Period]]
  /\ due \in [Threads -> Nat]
  /\ timer \in [Timers -> [init : BOOLEAN, value : Times, interval : Times,
                           queued : BOOLEAN, event : EventValues]]
  /\ expiry \in [Timers -> Nat]
  /\ signals \subseteq [to : Threads, event : EventValues, forward : BOOLEAN]

\* A time that the channel ch will not miss.
Ahead(tv, ch) ==
  tv.sec > counter \/ (tv.sec = counter /\ (tv.usec = Period \/ oc[ch] <= tv.usec))

\* A channel is ahead of the counter, unless its interrupt is pending in this period.
ChannelInv ==
  \A ch \in Channels : usec < oc[ch] \/ (ch \in pending /\ "overflow" \notin pending)

SleepInv ==
  \A t \in Threads :
    /\ mode[t] = "sleep" => due[t] = Real(wake[t]) /\ Ahead(wake[t], "sleep")
    /\ mode[t] = "pause" => wake[t].sec = Never

TimerInv ==
  \A x \in Timers :
    Armed(x) => expiry[x] = Real(timer[x].value) /\ Ahead(timer[x].value, "timer")

SpinInv ==
  \A t \in Threads : mode[t] = "spin" =>
    \E base \in Nat : /\ base <= Periods
                      /\ due[t] = base * Period + spin[t].end
                      /\ base = Periods => spin[t].start <= usec

TimingInv == TimingTypeOK /\ ChannelInv /\ SleepInv /\ TimerInv /\ SpinInv

-----------------------------------------------------------------------------
(* Times                                                                   *)

\* A period is at least a second.
LEMMA PeriodType == Period \in Nat \ {0} /\ Second <= Period
<1>1. Second \in Nat \ {0} /\ Seconds \in Nat \ {0} BY TimingAssumption
<1>2. (Seconds - 1) * Second >= 0 BY <1>1, SMT
<1>3. Seconds * Second = (Seconds - 1) * Second + Second BY <1>1, SMT
<1> QED BY <1>1, <1>2, <1>3, SMT DEF Period

\* What the quotient and the remainder of two natural numbers are.
LEMMA DivMod ==
  ASSUME NEW a \in Nat, NEW b \in Nat \ {0}
  PROVE  a \div b \in Nat /\ a % b \in 0..(b - 1) /\ a = b * (a \div b) + (a % b)
BY SMT

\* A bound of a quotient.
LEMMA DivBound ==
  ASSUME NEW a \in Nat, NEW b \in Nat \ {0}, NEW c \in Nat, a < c * b + b
  PROVE  a \div b <= c
<1> DEFINE q == a \div b
<1>1. a = b * q + (a % b) /\ a % b \in 0..(b - 1) /\ q \in Nat BY DivMod
<1> HIDE DEF q
<1>2. SUFFICES ASSUME q >= c + 1 PROVE FALSE BY <1>1, SMT DEF q
<1>3. b * (q - (c + 1)) >= 0 BY <1>1, <1>2, SMT
<1>4. b * q >= b * (c + 1) BY <1>1, <1>3, SMT
<1> QED BY <1>1, <1>4, SMT

\* Times are ordered by their periods first.
LEMMA Lexicographic ==
  ASSUME NEW P \in Nat \ {0}, NEW a \in Nat, NEW b \in Nat, NEW u \in 0..(P - 1), NEW v \in 0..P
  PROVE  (a * P + v <= b * P + u) <=> (a < b \/ (a = b /\ v <= u))
<1>1. CASE a < b
  <2>1. (b - a - 1) * P >= 0 BY <1>1, SMT
  <2> QED BY <1>1, <2>1, SMT
<1>2. CASE a > b
  <2>1. (a - b - 1) * P >= 0 BY <1>2, SMT
  <2> QED BY <1>2, <2>1, SMT
<1>3. CASE a = b BY <1>3, SMT
<1> QED BY <1>1, <1>2, <1>3, SMT

\* The handlers' comparison of two parts is the comparison of the times.
LEMMA HasComeIsReal ==
  ASSUME NEW tv \in Times, NEW c \in Nat, NEW u \in 0..(Period - 1)
  PROVE  HasCome(tv, c, u) <=> Real(tv) <= c * Period + u
<1>1. tv.sec \in Nat /\ tv.usec \in 0..Period BY DEF Times
<1> HIDE DEF Period
<1> QED BY <1>1, PeriodType, Lexicographic DEF HasCome, Real

\* A time is a natural number of ticks, and none only if both parts are none.
LEMMA RealType ==
  ASSUME NEW tv \in Times
  PROVE  Real(tv) \in Nat /\ (Real(tv) > 0 <=> tv.sec + tv.usec > 0)
<1>1. tv.sec \in Nat /\ tv.usec \in 0..Period BY DEF Times
<1>2. tv.sec * Period \in Nat /\ (tv.sec > 0 => tv.sec * Period > 0) BY <1>1, PeriodType, SMT
<1> HIDE DEF Period
<1> QED BY <1>1, <1>2, PeriodType, SMT DEF Real

\* The sum of two times, a whole period in the second part included.
LEMMA AddIsReal ==
  ASSUME NEW c \in Nat, NEW u \in 0..(Period - 1), NEW tv \in Times
  PROVE  LET sum == scheduler_timing_add_mcu_timeval(Time(c, u), tv)
         IN /\ sum \in Times
            /\ Real(sum) = c * Period + u + Real(tv)
            /\ sum.sec >= c
            /\ sum.sec = c => sum.usec = u + tv.usec /\ tv.sec = 0
<1> DEFINE P == Period
<1>1. tv.sec \in Nat /\ tv.usec \in 0..P /\ P \in Nat \ {0} BY PeriodType DEF Times
<1>2. (c + tv.sec) * P = c * P + tv.sec * P /\ (c + tv.sec + 1) * P = c * P + tv.sec * P + P
  BY <1>1, SMT
<1>3. c * P \in Nat /\ tv.sec * P \in Nat BY <1>1, SMT
<1> HIDE DEF P
<1> QED BY <1>1, <1>2, <1>3, SMT DEF scheduler_timing_add_mcu_timeval, Time, Times, Real, P


\* The time left until a time that is not in an earlier period.
LEMMA SubtractIsReal ==
  ASSUME NEW c \in Nat, NEW u \in 0..(Period - 1), NEW tv \in Times, tv.sec >= c
  PROVE  Real(scheduler_timing_subtract_mcu_timeval(tv, Time(c, u)))
           = IF c * Period + u < Real(tv) THEN Real(tv) - (c * Period + u) ELSE 0
<1> DEFINE P == Period
<1>1. tv.sec \in Nat /\ tv.usec \in 0..P /\ P \in Nat \ {0} BY PeriodType DEF Times
<1>2. /\ (tv.sec - c) * P = tv.sec * P - c * P
      /\ (tv.sec - c - 1) * P = tv.sec * P - c * P - P
      /\ c * P \in Nat /\ tv.sec * P \in Nat
  BY <1>1, SMT
<1>3. Real(tv) <= c * P + u <=> (tv.sec < c \/ (tv.sec = c /\ tv.usec <= u))
  BY HasComeIsReal DEF HasCome
<1>4. 0 * P = 0 BY <1>1, SMT
<1> DEFINE diff == scheduler_timing_subtract_mcu_timeval(tv, Time(c, u))
<1> HIDE DEF P
<1>5. CASE tv.sec > c /\ tv.usec >= u
  <2>1. diff = Time(tv.sec - c, tv.usec - u)
    BY <1>5, <1>1 DEF scheduler_timing_subtract_mcu_timeval, Time
  <2>2. Real(diff) = (tv.sec - c) * P + (tv.usec - u) BY <2>1, SMT DEF Time, Real, P
  <2> QED BY <1>1, <1>2, <1>3, <1>5, <2>2, SMT DEF Real, P
<1>6. CASE tv.sec > c /\ ~(tv.usec >= u)
  <2>1. diff = Time(tv.sec - c - 1, P - (u - tv.usec))
    BY <1>6, <1>1 DEF scheduler_timing_subtract_mcu_timeval, Time, P
  <2>2. Real(diff) = (tv.sec - c - 1) * P + (P - (u - tv.usec)) BY <2>1, SMT DEF Time, Real, P
  <2> QED BY <1>1, <1>2, <1>3, <1>6, <2>2, SMT DEF Real, P
<1>7. CASE tv.sec = c
  <2>1. diff = Time(0, IF tv.usec >= u THEN tv.usec - u ELSE 0)
    BY <1>7, <1>1, SMT DEF scheduler_timing_subtract_mcu_timeval, Time
  <2>2. Real(diff) = IF tv.usec >= u THEN tv.usec - u ELSE 0
    BY <1>1, <1>4, <2>1, SMT DEF Time, Real, P
  <2> QED BY <1>1, <1>2, <1>3, <1>7, <2>2, SMT DEF Real, P
<1> QED BY <1>1, <1>5, <1>6, <1>7, SMT

\* A time of seconds and nanoseconds is rounded up to the tick.
LEMMA ConvertIsReal ==
  ASSUME NEW ts \in Timespecs
  PROVE  /\ scheduler_timing_convert_timespec(ts) \in Times
         /\ Real(scheduler_timing_convert_timespec(ts)) = Ticks(ts)
<1>1. /\ ts.sec \in Nat /\ ts.nsec \in 0..(Second * Nanos - 1)
      /\ Second \in Nat \ {0} /\ Seconds \in Nat \ {0} /\ Nanos \in Nat \ {0}
  BY TimingAssumption DEF Timespecs
<1> DEFINE q == ts.sec \div Seconds
           r == ts.sec % Seconds
           n == (ts.nsec + Nanos - 1) \div Nanos
<1>2. q \in Nat /\ r \in 0..(Seconds - 1) /\ ts.sec = Seconds * q + r BY <1>1, DivMod
<1>3. n \in Nat /\ n <= Second
  <2>1. Second * Nanos \in Nat BY <1>1, SMT
  <2>2. ts.nsec + Nanos - 1 \in Nat /\ ts.nsec + Nanos - 1 < Second * Nanos + Nanos
    BY <1>1, <2>1, SMT
  <2> QED BY <1>1, <2>2, DivBound, DivMod
<1> HIDE DEF q, r, n
<1>4. (Seconds - 1 - r) * Second >= 0 BY <1>1, <1>2, SMT
<1>5. r * Second \in Nat /\ r * Second + Second <= Period BY <1>1, <1>2, <1>4, SMT DEF Period
<1>6. q * Period + r * Second = ts.sec * Second BY <1>1, <1>2, SMT DEF Period
<1>7. scheduler_timing_convert_timespec(ts) = Time(q, r * Second + n)
  BY DEF scheduler_timing_convert_timespec, q, r, n
<1>8. Time(q, r * Second + n) \in Times BY <1>1, <1>2, <1>3, <1>5, PeriodType, SMT DEF Time,
                                           Times
<1>9. Real(Time(q, r * Second + n)) = q * Period + (r * Second + n) BY DEF Real, Time
<1>10. q * Period \in Nat BY <1>2, PeriodType, SMT
<1>11. Ticks(ts) = ts.sec * Second + n BY DEF Ticks, n
<1> QED BY <1>1, <1>3, <1>5, <1>6, <1>7, <1>8, <1>9, <1>10, <1>11, SMT

-----------------------------------------------------------------------------
(* What the invariant says of the time now                                 *)

\* The time now, and the bound on the periods (sched_usecond_counter).
LEMMA NowType ==
  ASSUME TimingTypeOK
  PROVE  /\ Periods \in Nat /\ Periods * Period \in Nat /\ Now \in Nat
         /\ counter <= Periods /\ Periods <= MaxPeriods /\ Periods < Never
         /\ Now = Periods * Period + usec
<1>1. counter \in Nat /\ usec \in 0..(Period - 1) /\ Periods <= MaxPeriods BY DEF TimingTypeOK
<1>2. Periods \in Nat /\ counter <= Periods BY <1>1, SMT DEF Periods
<1>3. Periods * Period \in Nat BY <1>2, PeriodType, SMT
<1> QED BY <1>1, <1>2, <1>3, PeriodType, TimingAssumption, SMT DEF Now

\* Nothing that has come is due later.
LEMMA ComeIsDue ==
  ASSUME TimingTypeOK, NEW tv \in Times, NEW c \in Nat, c <= Periods, HasCome(tv, c, usec)
  PROVE  Real(tv) <= Now
<1>1. usec \in 0..(Period - 1) BY DEF TimingTypeOK
<1>2. HasCome(tv, Periods, usec) BY NowType, PeriodType, <1>1, SMT DEF HasCome, Times
<1> QED BY <1>1, <1>2, NowType, HasComeIsReal

\* While an overflow is pending, no time that is ahead has come in the period that is over.
LEMMA NotInOldPeriod ==
  ASSUME TimingTypeOK, ChannelInv, "overflow" \in pending,
         NEW tv \in Times, NEW ch \in Channels, Ahead(tv, ch)
  PROVE  ~HasCome(tv, counter, usec)
<1>1. usec \in 0..(Period - 1) /\ counter \in Nat /\ oc[ch] \in 1..(Period + 1)
  BY DEF TimingTypeOK
<1>2. usec < oc[ch] BY DEF ChannelInv
<1>3. tv.sec \in Nat /\ tv.usec \in 0..Period BY DEF Times
<1> QED BY <1>1, <1>2, <1>3, PeriodType, SMT DEF Ahead, HasCome

\* When no interrupt is pending, what is ahead is still to come.
LEMMA AheadIsLater ==
  ASSUME TimingTypeOK, ChannelInv, pending = {},
         NEW tv \in Times, NEW ch \in Channels, Ahead(tv, ch)
  PROVE  Now < Real(tv)
<1>1. usec \in 0..(Period - 1) /\ counter \in Nat /\ oc[ch] \in 1..(Period + 1)
  BY DEF TimingTypeOK
<1>2. usec < oc[ch] BY DEF ChannelInv
<1>3. tv.sec \in Nat /\ tv.usec \in 0..Period BY DEF Times
<1>4. ~HasCome(tv, counter, usec) BY <1>1, <1>2, <1>3, PeriodType, SMT DEF Ahead, HasCome
<1>5. Periods = counter BY DEF Periods
<1> QED BY <1>1, <1>4, <1>5, NowType, RealType, HasComeIsReal, SMT

-----------------------------------------------------------------------------
(* The steps                                                               *)

\* At the start nothing sleeps and no timer is set.
LEMMA TimingInit == Init => TimingInv /\ NothingEarly /\ TimerNotSilenced
<1> SUFFICES ASSUME Init PROVE TimingInv /\ NothingEarly /\ TimerNotSilenced OBVIOUS
<1> USE DEF Init
<1>1. NoTime \in Times /\ Time(0, 0) \in Times
  BY PeriodType, TimingAssumption, SMT DEF NoTime, Time, Times
<1>2. TimingTypeOK
  <2>1. usec \in 0..(Period - 1) /\ counter \in Nat /\ Periods <= MaxPeriods
    BY PeriodType, TimingAssumption, SMT DEF Periods
  <2>2. oc \in [Channels -> 1..(Period + 1)] BY PeriodType, SMT
  <2>3. spin \in [Threads -> [start : 0..(Period - 1), end : 0..Period]] BY PeriodType, SMT
  <2>4. timer \in [Timers -> [init : BOOLEAN, value : Times, interval : Times,
                              queued : BOOLEAN, event : EventValues]]
    BY <1>1 DEF NoTimer, EventValues
  <2> QED BY <1>1, <2>1, <2>2, <2>3, <2>4 DEF TimingTypeOK
<1>3. ChannelInv BY PeriodType, SMT DEF ChannelInv
<1>4. SleepInv BY DEF SleepInv
<1>5. TimerInv BY DEF TimerInv, Armed, NoTimer, NoTime, Time
<1>6. SpinInv BY DEF SpinInv
<1>7. NothingEarly BY DEF NothingEarly
<1>8. TimerNotSilenced BY DEF TimerNotSilenced, NoTimer
<1> QED BY <1>2, <1>3, <1>4, <1>5, <1>6, <1>7, <1>8 DEF TimingInv

\* The counter runs on, or begins a new period (Tick).
LEMMA TickStep == TimingInv /\ Tick => TimingInv'
<1> SUFFICES ASSUME TimingInv, Tick PROVE TimingInv' OBVIOUS
<1> USE DEF TimingInv, threads, timers
<1>1. /\ usec \in 0..(Period - 1) /\ counter \in Nat /\ Periods <= MaxPeriods
      /\ pending \subseteq {"overflow"} \cup Channels /\ oc \in [Channels -> 1..(Period + 1)]
  BY DEF TimingTypeOK
<1>2. /\ UNCHANGED <<counter, oc, mode, wake, spin, due, timer, signals, expiry>>
  BY DEF Tick
<1>3. /\ usec' \in 0..(Period - 1) /\ Periods' <= MaxPeriods
      /\ pending' \subseteq {"overflow"} \cup Channels
  <2>1. CASE usec + 1 < Period
    <3>1. usec' = usec + 1 /\ pending' = pending \cup {ch \in Channels : oc[ch] = usec + 1}
      BY <2>1 DEF Tick
    <3>2. "overflow" \in pending' <=> "overflow" \in pending BY <3>1 DEF Channels
    <3>3. Periods' = Periods BY <1>2, <3>2 DEF Periods
    <3>4. pending' \subseteq {"overflow"} \cup Channels BY <1>1, <3>1
    <3>5. usec' \in 0..(Period - 1) BY <1>1, <2>1, <3>1, PeriodType, SMT
    <3> QED BY <1>1, <3>3, <3>4, <3>5
  <2>2. CASE ~(usec + 1 < Period)
    <3>1. usec' = 0 /\ pending' = pending \cup {"overflow"} /\ counter < MaxPeriods
      BY <2>2 DEF Tick
    <3>2. Periods' = counter + 1 BY <1>2, <3>1 DEF Periods
    <3> QED BY <1>1, <3>1, <3>2, PeriodType, TimingAssumption, SMT
  <2> QED BY <2>1, <2>2
<1>4. TimingTypeOK' BY <1>2, <1>3 DEF TimingTypeOK, EventValues, Channels
<1>5. ChannelInv' BY <1>1, PeriodType, SMT DEF Tick, ChannelInv, Channels
<1>6. SleepInv' BY <1>2 DEF SleepInv, Ahead, Real
<1>7. TimerInv' BY <1>2 DEF TimerInv, Ahead, Real, Armed
<1>8. SpinInv'
  <2> SUFFICES ASSUME NEW t \in Threads, mode[t] = "spin"
               PROVE  \E base \in Nat : /\ base <= Periods'
                                        /\ due[t] = base * Period + spin[t].end
                                        /\ base = Periods' => spin[t].start <= usec'
    BY <1>2 DEF SpinInv
  <2>1. PICK base \in Nat : /\ base <= Periods
                            /\ due[t] = base * Period + spin[t].end
                            /\ base = Periods => spin[t].start <= usec
    BY DEF SpinInv
  <2>2. spin[t].start \in Nat BY SMT DEF TimingTypeOK
  <2>3. (Periods' = Periods /\ usec' = usec + 1) \/ Periods' = Periods + 1
    BY <1>1 DEF Tick, Periods, Channels
  <2>4. Periods \in Nat BY <1>1, SMT DEF Periods
  <2> QED BY <1>1, <2>1, <2>2, <2>3, <2>4, SMT
<1> QED BY <1>4, <1>5, <1>6, <1>7, <1>8

\* A busy wait goes on in a step in which no time passes.
LEMMA SpinStep ==
  ASSUME SpinInv, Periods' = Periods, usec' = usec,
         \A t \in Threads : mode'[t] = "spin" => /\ mode[t] = "spin"
                                                 /\ due'[t] = due[t] /\ spin'[t] = spin[t]
  PROVE  SpinInv'
BY DEF SpinInv

\* scheduler_root_assert_active wakes threads and leaves the others as they are.
LEMMA ActivateType ==
  ASSUME TimingTypeOK, NEW woken, Activate(woken)
  PROVE  /\ mode' \in [Threads -> {"run", "spin", "sleep", "pause"}]
         /\ wake' \in [Threads -> Times]
         /\ due' \in [Threads -> Nat]
         /\ spin' = spin
         /\ \A t \in Threads : mode'[t] = "spin" => mode[t] = "spin" /\ due'[t] = due[t]
         /\ \A t \in Threads : mode'[t] \in {"sleep", "pause"} =>
              t \notin woken /\ mode'[t] = mode[t] /\ wake'[t] = wake[t] /\ due'[t] = due[t]
<1>1. NoTime \in Times BY PeriodType, TimingAssumption, SMT DEF NoTime, Time, Times
<1>2. /\ mode \in [Threads -> {"run", "spin", "sleep", "pause"}] /\ wake \in [Threads -> Times]
      /\ due \in [Threads -> Nat]
  BY DEF TimingTypeOK
<1> QED BY <1>1, <1>2 DEF Activate, Asleep

-----------------------------------------------------------------------------
(* Sleeping and waking                                                     *)

\* scheduler_timing_root_timedblock, for a limit with the given meaning in ticks.
LEMMA BlocksStep ==
  ASSUME TimingInv, NEW t \in Threads, mode[t] = "run", "overflow" \notin pending,
         NEW abs \in Times, NEW when, when = Real(abs), Blocks(t, abs, when)
  PROVE  TimingInv'
<1> USE DEF TimingInv, timers
<1>1. /\ usec \in 0..(Period - 1) /\ counter \in Nat /\ oc \in [Channels -> 1..(Period + 1)]
      /\ mode \in [Threads -> {"run", "spin", "sleep", "pause"}] /\ wake \in [Threads -> Times]
      /\ due \in [Threads -> Nat] /\ pending \subseteq {"overflow"} \cup Channels
  BY DEF TimingTypeOK
<1>2. abs.sec \in Nat /\ abs.usec \in 0..Period /\ when \in Nat BY RealType DEF Times
<1>3. UNCHANGED <<usec, counter, pending, spin, timer, signals, expiry>> BY DEF Blocks
<1>4. Periods' = Periods BY <1>3 DEF Periods
<1> DEFINE ahead == abs.sec > counter \/ (abs.sec = counter /\ abs.usec > usec)
<1>5. /\ oc' \in [Channels -> 1..(Period + 1)]
      /\ oc'["timer"] = oc["timer"]
      /\ oc'["sleep"] <= oc["sleep"]
      /\ usec < oc["sleep"] => usec < oc'["sleep"]
      /\ abs.sec = counter /\ abs.usec > usec => oc'["sleep"] <= abs.usec
  <2>1. CASE abs.sec = counter /\ abs.usec > usec /\ abs.usec < oc["sleep"]
    <3>1. oc' = [oc EXCEPT !["sleep"] = abs.usec]
      BY <2>1 DEF Blocks, scheduler_timing_root_timedblock
    <3> QED BY <1>1, <1>2, <2>1, <3>1, PeriodType, SMT DEF Channels
  <2>2. CASE ~(abs.sec = counter /\ abs.usec > usec /\ abs.usec < oc["sleep"])
    <3>1. oc' = oc BY <2>2 DEF Blocks, scheduler_timing_root_timedblock
    <3> QED BY <1>1, <1>2, <2>2, <3>1, SMT DEF Channels
  <2> QED BY <2>1, <2>2
<1>6. /\ mode' = IF ahead THEN [mode EXCEPT ![t] = "sleep"] ELSE mode
      /\ wake' = IF abs.sec >= counter THEN [wake EXCEPT ![t] = abs] ELSE wake
      /\ due' = IF mode'[t] = "sleep" THEN [due EXCEPT ![t] = when] ELSE due
  BY DEF Blocks, scheduler_timing_root_timedblock
<1> HIDE DEF ahead
<1>7. TimingTypeOK'
  <2>1. mode' \in [Threads -> {"run", "spin", "sleep", "pause"}] BY <1>1, <1>6
  <2>2. wake' \in [Threads -> Times] BY <1>1, <1>6
  <2>3. due' \in [Threads -> Nat] BY <1>1, <1>2, <1>6
  <2> QED BY <1>3, <1>4, <1>5, <2>1, <2>2, <2>3 DEF TimingTypeOK, EventValues, Channels
<1>8. ChannelInv' BY <1>1, <1>3, <1>5 DEF ChannelInv, Channels
<1>9. SleepInv'
  <2> SUFFICES ASSUME NEW u \in Threads
               PROVE  /\ mode'[u] = "sleep" => due'[u] = Real(wake'[u]) /\ Ahead(wake[u], "sleep")'
                      /\ mode'[u] = "pause" => wake'[u].sec = Never
    BY DEF SleepInv, Real, Ahead
  <2>1. CASE u # t
    <3>1. mode'[u] = mode[u] /\ wake'[u] = wake[u] /\ due'[u] = due[u] BY <1>1, <1>6, <2>1
    <3>2. Ahead(wake[u], "sleep") => Ahead(wake[u], "sleep")'
      <4>1. wake[u].usec \in Int BY <1>1, SMT DEF Times
      <4> QED BY <1>1, <1>3, <1>5, <3>1, <4>1, SMT DEF Ahead, Channels
    <3> QED BY <3>1, <3>2 DEF SleepInv
  <2>2. CASE u = t /\ ahead
    <3>1. abs.sec >= counter BY <1>1, <1>2, <2>2, SMT DEF ahead
    <3>2. mode'[u] = "sleep" /\ wake'[u] = abs /\ due'[u] = when BY <1>1, <1>6, <2>2, <3>1
    <3>3. Ahead(wake[u], "sleep")' BY <1>1, <1>2, <1>3, <1>5, <2>2, <3>2 DEF Ahead, ahead
    <3> QED BY <3>2, <3>3
  <2>3. CASE u = t /\ ~ahead BY <1>1, <1>6, <2>3
  <2> QED BY <2>1, <2>2, <2>3
<1>10. TimerInv' BY <1>3, <1>5 DEF TimerInv, Armed, Ahead, Real
<1>11. SpinInv'
  <2>1. \A u \in Threads : mode'[u] = "spin" => /\ mode[u] = "spin"
                                                /\ due'[u] = due[u] /\ spin'[u] = spin[u]
    BY <1>1, <1>3, <1>6
  <2> QED BY <1>3, <1>4, <2>1, SpinStep
<1> QED BY <1>7, <1>8, <1>9, <1>10, <1>11

\* sleep, usleep and the timed waits pass timedblock the time they were asked for.
LEMMA SleepStep ==
  ASSUME TimingInv, Ops = {}, NEW t \in Threads, NEW seconds \in Sleeps, sleep(t, seconds)
  PROVE  TimingInv'
<1> DEFINE interval == IF seconds < Seconds
                       THEN Time(0, seconds * Second)
                       ELSE Time(seconds \div Seconds, seconds % Seconds)
           abs == scheduler_timing_add_mcu_timeval(scheduler_timing_root_get_realtime, interval)
<1>1. /\ seconds \in Nat \ {0} /\ Second \in Nat \ {0} /\ Seconds \in Nat \ {0}
      /\ seconds * Second \in Nat
  BY TimingAssumption, SMT
<1>2. interval \in Times /\ Real(interval) = seconds * Second
  <2>1. CASE seconds < Seconds
    <3>1. (Seconds - seconds) * Second >= 0 BY <1>1, <2>1, SMT
    <3>2. seconds * Second <= Period BY <1>1, <3>1, SMT DEF Period
    <3>3. interval = Time(0, seconds * Second) BY <2>1
    <3>4. Real(interval) = 0 * Period + seconds * Second BY <3>3 DEF Real, Time
    <3> QED BY <1>1, <3>2, <3>3, <3>4, PeriodType, SMT DEF Time, Times
  <2>2. CASE ~(seconds < Seconds)
    <3>1. seconds % Seconds = 0 BY <2>2 DEF sleep
    <3>2. seconds \div Seconds \in Nat /\ seconds = Seconds * (seconds \div Seconds) + (seconds % Seconds)
      BY <1>1, DivMod
    <3>3. interval = Time(seconds \div Seconds, 0) BY <2>2, <3>1
    <3>4. Real(interval) = (seconds \div Seconds) * Period + 0 BY <3>3 DEF Real, Time
    <3> DEFINE q == seconds \div Seconds
    <3> HIDE DEF q
    <3>5. q \in Nat /\ seconds = Seconds * q BY <1>1, <3>1, <3>2, SMT DEF q
    <3>6. q * Period = seconds * Second BY <1>1, <3>5, SMT DEF Period
    <3>7. q * Period + 0 = seconds * Second BY <1>1, <3>6, SMT
    <3> QED BY <3>2, <3>3, <3>4, <3>7, PeriodType, SMT DEF Time, Times, q
  <2> QED BY <2>1, <2>2
<1>3. mode[t] = "run" /\ "overflow" \notin pending BY DEF sleep, Calls, Runs
<1>4. counter \in Nat /\ usec \in 0..(Period - 1) BY DEF TimingInv, TimingTypeOK
<1>5. Blocks(t, abs, Now + seconds * Second) BY DEF sleep
<1> HIDE DEF interval
<1>6. abs \in Times /\ Real(abs) = counter * Period + usec + Real(interval)
  BY <1>2, <1>4, AddIsReal DEF scheduler_timing_root_get_realtime
<1>7. Now = counter * Period + usec BY <1>3 DEF Now, Periods
<1> HIDE DEF abs
<1> QED BY <1>2, <1>3, <1>5, <1>6, <1>7, BlocksStep

\* usleep() for a time that is not waited for in a loop.
LEMMA UsleepStep ==
  ASSUME TimingInv, Ops = {}, NEW t \in Threads, NEW useconds \in Naps, usleep(t, useconds)
  PROVE  TimingInv'
<1> DEFINE interval == Time(0, useconds - Fudge)
           abs == scheduler_timing_add_mcu_timeval(scheduler_timing_root_get_realtime, interval)
<1>1. useconds \in 1..Second /\ Second \in Nat /\ Fudge \in Nat /\ useconds > Fudge
  BY TimingAssumption, SMT DEF usleep
<1>2. interval \in Times /\ Real(interval) = useconds - Fudge
  <2>1. Real(interval) = 0 * Period + (useconds - Fudge) BY DEF Real, Time
  <2> QED BY <1>1, <2>1, PeriodType, SMT DEF Time, Times
<1>3. mode[t] = "run" /\ "overflow" \notin pending BY DEF usleep, Calls, Runs
<1>4. counter \in Nat /\ usec \in 0..(Period - 1) BY DEF TimingInv, TimingTypeOK
<1>5. Blocks(t, abs, Now + useconds - Fudge) BY DEF usleep
<1> HIDE DEF interval
<1>6. abs \in Times /\ Real(abs) = counter * Period + usec + Real(interval)
  BY <1>2, <1>4, AddIsReal DEF scheduler_timing_root_get_realtime
<1>7. Now = counter * Period + usec BY <1>3 DEF Now, Periods
<1>8. counter * Period \in Nat BY <1>4, PeriodType, SMT
<1>9. Real(abs) = Now + useconds - Fudge BY <1>1, <1>2, <1>4, <1>6, <1>7, <1>8, PeriodType
<1> HIDE DEF abs
<1> QED BY <1>3, <1>5, <1>6, <1>9, BlocksStep

\* A timed call of a mutex, a condition or a semaphore.
LEMMA TimedwaitStep ==
  ASSUME TimingInv, Ops = {}, NEW t \in Threads, NEW limit \in Limits, timedwait(t, limit)
  PROVE  TimingInv'
<1>1. limit \in Timespecs BY TimingAssumption
<1>2. mode[t] = "run" /\ "overflow" \notin pending BY DEF timedwait, Calls, Runs
<1>3. Blocks(t, scheduler_timing_convert_timespec(limit), Ticks(limit)) BY DEF timedwait
<1> QED BY <1>1, <1>2, <1>3, ConvertIsReal, BlocksStep

\* The steps that leave the clock and the timers alone.
LEMMA ThreadStep ==
  ASSUME TimingInv, Ops = {}, UNCHANGED <<clock, timers>>,
         \/ \E t \in Threads : \/ \E useconds \in Naps : usleep_Spin(t, useconds)
                               \/ usleep_SpinEnds(t)
                               \/ pause(t)
                               \/ Interrupt(t)
  PROVE  TimingInv'
<1> USE DEF TimingInv
<1>1. UNCHANGED <<usec, counter, pending, oc, timer, signals, expiry>> BY DEF clock, timers
<1>2. Periods' = Periods BY <1>1 DEF Periods
<1>3. /\ usec \in 0..(Period - 1) /\ counter \in Nat
      /\ mode \in [Threads -> {"run", "spin", "sleep", "pause"}] /\ wake \in [Threads -> Times]
      /\ spin \in [Threads -> [start : 0..(Period - 1), end : 0..Period]]
      /\ due \in [Threads -> Nat]
  BY DEF TimingTypeOK
<1>4. ChannelInv' /\ TimerInv' BY <1>1 DEF ChannelInv, TimerInv, Armed, Ahead, Real
<1>5. ASSUME mode' \in [Threads -> {"run", "spin", "sleep", "pause"}],
             wake' \in [Threads -> Times], due' \in [Threads -> Nat],
             spin' \in [Threads -> [start : 0..(Period - 1), end : 0..Period]],
             \A u \in Threads : mode'[u] = "sleep" =>
               mode[u] = "sleep" /\ due'[u] = due[u] /\ wake'[u] = wake[u],
             \A u \in Threads : mode'[u] = "pause" => wake'[u].sec = Never
      PROVE  TimingTypeOK' /\ SleepInv'
  <2>1. TimingTypeOK' BY <1>1, <1>2, <1>5 DEF TimingTypeOK, EventValues
  <2>2. SleepInv' BY <1>1, <1>5 DEF SleepInv, Ahead, Real
  <2> QED BY <2>1, <2>2
<1>6. ASSUME NEW t \in Threads, NEW useconds \in Naps, usleep_Spin(t, useconds) PROVE TimingInv'
  <2>1. useconds \in Nat /\ usec + useconds <= Period /\ "overflow" \notin pending
    BY <1>6, TimingAssumption, SMT DEF usleep_Spin, Calls
  <2>2. /\ mode' = [mode EXCEPT ![t] = "spin"] /\ wake' = wake
        /\ due' = [due EXCEPT ![t] = Now + useconds]
        /\ spin' = [spin EXCEPT ![t] = [start |-> usec, end |-> usec + useconds]]
    <3>1. ~(usec + useconds > Period) BY <1>3, <2>1, PeriodType, SMT
    <3> QED BY <1>6, <3>1 DEF usleep_Spin
  <2>3. Periods = counter /\ Now = counter * Period + usec /\ counter * Period \in Nat
    BY <1>3, <2>1, PeriodType, SMT DEF Periods, Now
  <2>4. TimingTypeOK' /\ SleepInv'
    <3>1. Now + useconds \in Nat BY <1>3, <2>1, <2>3, PeriodType, SMT
    <3>2. [start |-> usec, end |-> usec + useconds] \in [start : 0..(Period - 1), end : 0..Period]
      BY <1>3, <2>1, PeriodType, SMT
    <3>3. \A u \in Threads : mode'[u] = "sleep" =>
             mode[u] = "sleep" /\ due'[u] = due[u] /\ wake'[u] = wake[u]
      BY <1>3, <2>2
    <3>4. \A u \in Threads : mode'[u] = "pause" => wake'[u].sec = Never
      BY <1>3, <2>2 DEF SleepInv
    <3> QED BY <1>3, <1>5, <2>2, <3>1, <3>2, <3>3, <3>4
  <2>5. SpinInv'
    <3> SUFFICES ASSUME NEW u \in Threads, mode'[u] = "spin"
                 PROVE  \E base \in Nat : /\ base <= Periods
                                          /\ due'[u] = base * Period + spin'[u].end
                                          /\ base = Periods => spin'[u].start <= usec
      BY <1>1, <1>2 DEF SpinInv
    <3>1. CASE u = t
      <4>1. due'[u] = counter * Period + spin'[u].end /\ spin'[u].start = usec
        BY <1>3, <2>1, <2>2, <2>3, <3>1, SMT
      <4> QED BY <1>3, <2>3, <4>1, SMT
    <3>2. CASE u # t
      <4>1. mode[u] = "spin" /\ due'[u] = due[u] /\ spin'[u] = spin[u] BY <1>3, <2>2, <3>2
      <4> QED BY <4>1 DEF SpinInv
    <3> QED BY <3>1, <3>2
  <2> QED BY <1>4, <2>4, <2>5
<1>7. ASSUME NEW t \in Threads, usleep_SpinEnds(t) PROVE TimingInv'
  <2>1. /\ mode' = [mode EXCEPT ![t] = "run"] /\ wake' = wake
        /\ spin' = [spin EXCEPT ![t] = [start |-> 0, end |-> 0]] /\ due' = [due EXCEPT ![t] = 0]
    BY <1>7 DEF usleep_SpinEnds
  <2>2. TimingTypeOK' /\ SleepInv'
    <3>1. spin' \in [Threads -> [start : 0..(Period - 1), end : 0..Period]]
      BY <1>3, <2>1, PeriodType, SMT
    <3>2. \A u \in Threads : mode'[u] \in {"sleep", "pause"} =>
             mode[u] = mode'[u] /\ due'[u] = due[u] /\ wake'[u] = wake[u]
      BY <1>3, <2>1
    <3>3. \A u \in Threads : mode'[u] = "pause" => wake'[u].sec = Never
      BY <3>2 DEF SleepInv
    <3> QED BY <1>3, <1>5, <2>1, <3>1, <3>2, <3>3
  <2>3. \A u \in Threads : mode'[u] = "spin" => /\ mode[u] = "spin"
                                                /\ due'[u] = due[u] /\ spin'[u] = spin[u]
    BY <1>3, <2>1
  <2> QED BY <1>1, <1>2, <1>4, <2>2, <2>3, SpinStep
<1>8. ASSUME NEW t \in Threads, pause(t) PROVE TimingInv'
  <2>1. mode' = [mode EXCEPT ![t] = "pause"] /\ UNCHANGED <<wake, spin, due>> /\ wake[t].sec = Never
    BY <1>8 DEF pause
  <2>2. \A u \in Threads : mode'[u] = "sleep" => mode[u] = "sleep" BY <1>3, <2>1
  <2>3. \A u \in Threads : mode'[u] = "pause" => wake[u].sec = Never BY <1>3, <2>1 DEF SleepInv
  <2>4. \A u \in Threads : mode'[u] = "spin" => mode[u] = "spin" BY <1>3, <2>1
  <2>5. TimingTypeOK' /\ SleepInv' BY <1>3, <1>5, <2>1, <2>2, <2>3
  <2>6. SpinInv' BY <1>1, <1>2, <2>1, <2>4, SpinStep
  <2> QED BY <1>4, <2>5, <2>6
<1>9. ASSUME NEW t \in Threads, Interrupt(t) PROVE TimingInv'
  <2>1. Activate({t}) BY <1>9 DEF Interrupt
  <2>2. TimingTypeOK' /\ SleepInv' BY <1>3, <1>5, <2>1, ActivateType, SMT DEF SleepInv
  <2>3. SpinInv' BY <1>1, <1>2, <2>1, ActivateType, SpinStep
  <2> QED BY <1>4, <2>2, <2>3
<1> QED BY <1>6, <1>7, <1>8, <1>9

\* The next value of a channel is ahead of the counter and not behind any of the ticks.
LEMMA NextIsAhead ==
  ASSUME TimingTypeOK, NEW ticks, NEW value, IsNext(value, ticks),
         \A u \in ticks : u \in Int /\ usec < u /\ u < Period
  PROVE  /\ value \in 1..(Period + 1) /\ usec < value
         /\ \A u \in ticks : value <= u
<1>1. usec \in 0..(Period - 1) BY DEF TimingTypeOK
<1> QED BY <1>1, PeriodType, SMT DEF IsNext

\* The threads a handler leaves asleep have their time ahead in the period c.
LEMMA StillAsleep ==
  ASSUME TimingTypeOK, NEW c \in Nat, NEW value, IsNext(value, WakeTicks(c)),
         NEW t \in Threads, Asleep(t), t \notin Woken(c)
  PROVE  /\ value \in 1..(Period + 1) /\ usec < value
         /\ wake[t].sec > c \/ (wake[t].sec = c /\ (wake[t].usec = Period \/ value <= wake[t].usec))
<1>1. usec \in 0..(Period - 1) /\ wake \in [Threads -> Times] BY DEF TimingTypeOK
<1>2. \A u \in WakeTicks(c) : u \in Int /\ usec < u /\ u < Period
  BY <1>1, PeriodType, SMT DEF WakeTicks, Woken, HasCome, Times
<1>3. value \in 1..(Period + 1) /\ usec < value /\ \A u \in WakeTicks(c) : value <= u
  BY <1>2, NextIsAhead
<1>4. wake[t].sec \in Nat /\ wake[t].usec \in 0..Period BY <1>1 DEF Times
<1>5. ~HasCome(wake[t], c, usec) BY DEF Woken
<1>6. wake[t].sec = c /\ wake[t].usec < Period => wake[t].usec \in WakeTicks(c)
  BY DEF WakeTicks
<1> QED BY <1>1, <1>3, <1>4, <1>5, <1>6, PeriodType, SMT DEF HasCome

\* The sleep channel, when nobody is left asleep in the period too.
LEMMA SleepChannel ==
  ASSUME TimingTypeOK, NEW c \in Nat, NEW value, IsNext(value, WakeTicks(c))
  PROVE  value \in 1..(Period + 1) /\ usec < value
<1>1. usec \in 0..(Period - 1) /\ wake \in [Threads -> Times] BY DEF TimingTypeOK
<1>2. \A u \in WakeTicks(c) : u \in Int /\ usec < u /\ u < Period
  BY <1>1, PeriodType, SMT DEF WakeTicks, Woken, HasCome, Times
<1> QED BY <1>2, NextIsAhead

\* The interrupt of the channel of the threads (root_handle_usecond_match_event).
LEMMA MatchStep == TimingInv /\ root_handle_usecond_match_event => TimingInv'
<1> SUFFICES ASSUME TimingInv, root_handle_usecond_match_event PROVE TimingInv' OBVIOUS
<1> USE DEF TimingInv
<1>1. /\ usec \in 0..(Period - 1) /\ counter \in Nat /\ oc \in [Channels -> 1..(Period + 1)]
      /\ pending \subseteq {"overflow"} \cup Channels /\ wake \in [Threads -> Times]
  BY DEF TimingTypeOK
<1>2. /\ UNCHANGED <<usec, counter, timer, signals, expiry>>
      /\ pending' = pending \ {"sleep"} /\ Activate(Woken(counter))
  BY DEF root_handle_usecond_match_event, timers
<1>3. PICK value : IsNext(value, WakeTicks(counter)) /\ oc' = [oc EXCEPT !["sleep"] = value]
  BY DEF root_handle_usecond_match_event
<1>4. value \in 1..(Period + 1) /\ usec < value BY <1>1, <1>3, SleepChannel
<1>5. oc'["sleep"] = value /\ oc'["timer"] = oc["timer"] /\ oc' \in [Channels -> 1..(Period + 1)]
  BY <1>1, <1>3, <1>4 DEF Channels
<1>6. Periods' = Periods BY <1>2 DEF Periods
<1>7. TimingTypeOK'
  BY <1>1, <1>2, <1>5, <1>6, ActivateType, SMT DEF TimingTypeOK, EventValues, Channels
<1>8. ChannelInv' BY <1>1, <1>2, <1>4, <1>5 DEF ChannelInv, Channels
<1>9. SleepInv'
  <2> SUFFICES ASSUME NEW t \in Threads
               PROVE  /\ mode'[t] = "sleep" => due'[t] = Real(wake'[t]) /\ Ahead(wake[t], "sleep")'
                      /\ mode'[t] = "pause" => wake'[t].sec = Never
    BY DEF SleepInv, Real
  <2>1. mode'[t] \in {"sleep", "pause"} =>
          t \notin Woken(counter) /\ mode'[t] = mode[t] /\ wake'[t] = wake[t] /\ due'[t] = due[t]
    BY <1>2, ActivateType
  <2>2. mode'[t] = "sleep" => Ahead(wake[t], "sleep")'
    <3> SUFFICES ASSUME mode'[t] = "sleep" PROVE Ahead(wake[t], "sleep")' OBVIOUS
    <3>1. Asleep(t) /\ t \notin Woken(counter) /\ wake'[t] = wake[t] BY <2>1 DEF Asleep
    <3>2. wake[t].sec > counter \/ (wake[t].sec = counter
            /\ (wake[t].usec = Period \/ value <= wake[t].usec))
      BY <1>1, <1>3, <3>1, StillAsleep
    <3> QED BY <1>2, <1>5, <3>1, <3>2 DEF Ahead
  <2> QED BY <2>1, <2>2 DEF SleepInv
<1>10. TimerInv' BY <1>2, <1>5 DEF TimerInv, Armed, Ahead, Real
<1>11. SpinInv' BY <1>2, <1>6, ActivateType, SpinStep
<1> QED BY <1>7, <1>8, <1>9, <1>10, <1>11

-----------------------------------------------------------------------------
(* The handlers that let timers expire, and the calls that make, delete    *)
(* and set timers                                                          *)

\* What a handler does to the timers in the period c: either the period counts already, or
\* none has expired.
LEMMA ExpireStep ==
  ASSUME TimingTypeOK, TimerInv, NEW c \in Nat, c <= Periods, c = Periods \/ Expired(c) = {},
         NEW current, NEW refused, TimersExpire(c, current, refused)
  PROVE  /\ timer' \in [Timers -> [init : BOOLEAN, value : Times, interval : Times,
                                   queued : BOOLEAN, event : EventValues]]
         /\ expiry' \in [Timers -> Nat]
         /\ signals' \subseteq [to : Threads, event : EventValues, forward : BOOLEAN]
         /\ \A x \in Timers : Armed(x)' =>
              /\ expiry'[x] = Real(timer'[x].value)
              /\ ~HasCome(timer'[x].value, c, usec)
<1>1. /\ usec \in 0..(Period - 1) /\ expiry \in [Timers -> Nat]
      /\ timer \in [Timers -> [init : BOOLEAN, value : Times, interval : Times,
                               queued : BOOLEAN, event : EventValues]]
      /\ signals \subseteq [to : Threads, event : EventValues, forward : BOOLEAN]
  BY DEF TimingTypeOK
<1> DEFINE now == Time(c, usec)
<1>2. ASSUME NEW x \in Timers
      PROVE  /\ Reloaded(timer[x], now) \in Times
             /\ NextExpiry(timer[x]) \in Nat
             /\ Reloaded(timer[x], now).sec # Never /\ c = Periods =>
                  /\ NextExpiry(timer[x]) = Real(Reloaded(timer[x], now))
                  /\ ~HasCome(Reloaded(timer[x], now), c, usec)
  <2>1. timer[x].interval \in Times /\ timer[x].value \in Times BY <1>1
  <2>2. Real(timer[x].interval) \in Nat BY <2>1, RealType
  <2>3. NextExpiry(timer[x]) \in Nat BY <2>2, NowType, SMT DEF NextExpiry
  <2>4. CASE timer[x].interval.sec + timer[x].interval.usec > 0
    <3> DEFINE sum == scheduler_timing_add_mcu_timeval(now, timer[x].interval)
    <3>1. /\ sum \in Times /\ Real(sum) = c * Period + usec + Real(timer[x].interval)
      BY <1>1, <2>1, AddIsReal
    <3>2. Reloaded(timer[x], now) = sum BY <2>4 DEF Reloaded
    <3>3. Real(timer[x].interval) > 0 BY <2>1, <2>4, RealType
    <3>4. NextExpiry(timer[x]) = Now + Real(timer[x].interval) BY <3>3 DEF NextExpiry
    <3>5. c * Period \in Nat BY PeriodType, SMT
    <3>6. ~(Real(sum) <= c * Period + usec) BY <1>1, <2>2, <3>1, <3>3, <3>5, PeriodType, SMT
    <3> HIDE DEF sum
    <3>7. ~HasCome(sum, c, usec) BY <1>1, <3>1, <3>6, HasComeIsReal
    <3>8. c = Periods => NextExpiry(timer[x]) = Real(sum) BY <3>1, <3>4, NowType
    <3> QED BY <2>3, <3>1, <3>2, <3>7, <3>8
  <2>5. CASE ~(timer[x].interval.sec + timer[x].interval.usec > 0)
    <3>1. Reloaded(timer[x], now) = Time(Never, timer[x].value.usec) BY <2>5 DEF Reloaded
    <3> QED BY <2>1, <2>3, <3>1, TimingAssumption, SMT DEF Time, Times
  <2> QED BY <2>4, <2>5
<1>3. ASSUME NEW x \in Timers
      PROVE  /\ x \in Expired(c) =>
                  /\ timer'[x] = [timer[x] EXCEPT !.queued = @ \/ Sends(x, refused),
                                                  !.value = Reloaded(timer[x], now)]
                  /\ expiry'[x] = NextExpiry(timer[x])
             /\ x \notin Expired(c) => timer'[x] = timer[x] /\ expiry'[x] = expiry[x]
  BY DEF TimersExpire, send_and_reload_timer
<1> HIDE DEF now
<1>4. timer' \in [Timers -> [init : BOOLEAN, value : Times, interval : Times,
                             queued : BOOLEAN, event : EventValues]]
  <2>1. \A x \in Timers : timer'[x] \in [init : BOOLEAN, value : Times, interval : Times,
                                         queued : BOOLEAN, event : EventValues]
    <3> TAKE x \in Timers
    <3>1. Sends(x, refused) \in BOOLEAN BY DEF Sends
    <3> QED BY <1>1, <1>2, <1>3, <3>1
  <2>2. timer' = [x \in Timers |-> timer'[x]] BY DEF TimersExpire
  <2> QED BY <2>1, <2>2
<1>5. expiry' \in [Timers -> Nat] BY <1>1, <1>2 DEF TimersExpire
<1>6. signals' \subseteq [to : Threads, event : EventValues, forward : BOOLEAN]
  <2>1. \A x \in Timers : Signal(x, current) \in [to : Threads, event : EventValues, forward : BOOLEAN]
    BY <1>1 DEF Signal, Timers
  <2> QED BY <1>1, <2>1 DEF TimersExpire, Expired
<1>7. ASSUME NEW x \in Timers, Armed(x)'
      PROVE  expiry'[x] = Real(timer'[x].value) /\ ~HasCome(timer'[x].value, c, usec)
  <2>1. CASE x \in Expired(c)
    <3>1. timer[x] \in [init : BOOLEAN, value : Times, interval : Times,
                        queued : BOOLEAN, event : EventValues]
      BY <1>1
    <3>2. timer'[x] = [timer[x] EXCEPT !.queued = @ \/ Sends(x, refused),
                                       !.value = Reloaded(timer[x], now)]
      BY <1>3, <2>1
    <3>3. timer'[x].value = Reloaded(timer[x], now) BY ONLY <3>1, <3>2
    <3>4. timer'[x].value.sec # Never /\ c = Periods /\ expiry'[x] = NextExpiry(timer[x])
      BY <1>3, <1>7, <2>1 DEF Armed
    <3> QED BY <1>2, <3>3, <3>4
  <2>2. CASE x \notin Expired(c)
    <3>1. Armed(x) /\ timer'[x] = timer[x] /\ expiry'[x] = expiry[x] BY <1>3, <1>7, <2>2
                                                                        DEF Armed
    <3> QED BY <2>2, <3>1 DEF TimerInv, Expired, Armed
  <2> QED BY <2>1, <2>2
<1> QED BY <1>4, <1>5, <1>6, <1>7

\* The timer channel is ahead of the counter and not behind any timer that is set.
LEMMA TimerChannel ==
  ASSUME TimingTypeOK, NEW c \in Nat, NEW value, IsNext(value, TimerTicks(c)),
         timer' \in [Timers -> [init : BOOLEAN, value : Times, interval : Times,
                                queued : BOOLEAN, event : EventValues]],
         c < Never,
         \A x \in Timers : Armed(x)' => ~HasCome(timer'[x].value, c, usec)
  PROVE  /\ value \in 1..(Period + 1) /\ usec < value
         /\ \A x \in Timers : Armed(x)' =>
              \/ timer'[x].value.sec > c
              \/ /\ timer'[x].value.sec = c
                 /\ timer'[x].value.usec = Period \/ value <= timer'[x].value.usec
<1>1. usec \in 0..(Period - 1) /\ Never \in Nat BY TimingAssumption DEF TimingTypeOK
<1>2. \A u \in TimerTicks(c) : u \in Int /\ usec < u /\ u < Period
  <2> SUFFICES ASSUME NEW x \in Timers, timer'[x].init, timer'[x].value.sec = c,
                      timer'[x].value.usec < Period
               PROVE  timer'[x].value.usec \in Int /\ usec < timer'[x].value.usec
    BY DEF TimerTicks
  <2>1. Armed(x)' BY <1>1, SMT DEF Armed
  <2>2. timer'[x].value.usec \in 0..Period BY DEF Times
  <2> QED BY <1>1, <2>1, <2>2, PeriodType, SMT DEF HasCome
<1>3. value \in 1..(Period + 1) /\ usec < value /\ \A u \in TimerTicks(c) : value <= u
  BY <1>2, NextIsAhead
<1>4. ASSUME NEW x \in Timers, Armed(x)'
      PROVE  \/ timer'[x].value.sec > c
             \/ /\ timer'[x].value.sec = c
                /\ timer'[x].value.usec = Period \/ value <= timer'[x].value.usec
  <2>1. timer'[x].value.sec \in Nat /\ timer'[x].value.usec \in 0..Period BY DEF Times
  <2>2. timer'[x].value.sec = c /\ timer'[x].value.usec < Period =>
          timer'[x].value.usec \in TimerTicks(c)
    BY <1>4 DEF TimerTicks, Armed
  <2> QED BY <1>3, <1>4, <2>1, <2>2, PeriodType, SMT DEF HasCome
<1> QED BY <1>3, <1>4

\* The interrupt of the channel of the timers
\* (root_handle_usecond_process_timer_match_event).
LEMMA TimerMatchStep ==
  ASSUME TimingInv, NEW current, NEW refused,
         root_handle_usecond_process_timer_match_event(current, refused)
  PROVE  TimingInv'
<1> USE DEF TimingInv
<1>1. /\ usec \in 0..(Period - 1) /\ counter \in Nat /\ oc \in [Channels -> 1..(Period + 1)]
      /\ pending \subseteq {"overflow"} \cup Channels
      /\ timer \in [Timers -> [init : BOOLEAN, value : Times, interval : Times,
                               queued : BOOLEAN, event : EventValues]]
  BY DEF TimingTypeOK
<1>2. /\ UNCHANGED <<usec, counter>> /\ pending' = pending \ {"timer"}
      /\ TimersExpire(counter, current, refused)
      /\ Activate(Signalled(counter, current, refused))
  BY DEF root_handle_usecond_process_timer_match_event
<1>3. counter <= Periods /\ (counter = Periods \/ Expired(counter) = {})
  <2>1. CASE "overflow" \notin pending BY <1>1, <2>1, SMT DEF Periods
  <2>2. CASE "overflow" \in pending
    <3>1. ASSUME NEW x \in Timers, timer[x].init, HasCome(timer[x].value, counter, usec)
          PROVE  FALSE
      <4>1. timer[x].value \in Times /\ timer[x].value.sec \in Nat BY <1>1 DEF Times
      <4>2. Armed(x) BY <1>1, <3>1, <4>1, NowType, TimingAssumption, SMT DEF Armed, HasCome
      <4> QED BY <2>2, <3>1, <4>1, <4>2, NotInOldPeriod DEF TimerInv, Channels
    <3> QED BY <3>1, NowType DEF Expired
  <2> QED BY <2>1, <2>2
<1>4. /\ timer' \in [Timers -> [init : BOOLEAN, value : Times, interval : Times,
                                queued : BOOLEAN, event : EventValues]]
      /\ expiry' \in [Timers -> Nat]
      /\ signals' \subseteq [to : Threads, event : EventValues, forward : BOOLEAN]
      /\ \A x \in Timers : Armed(x)' => /\ expiry'[x] = Real(timer'[x].value)
                                        /\ ~HasCome(timer'[x].value, counter, usec)
  BY <1>1, <1>2, <1>3, ExpireStep
<1>5. PICK value : IsNext(value, TimerTicks(counter)) /\ oc' = [oc EXCEPT !["timer"] = value]
  BY DEF root_handle_usecond_process_timer_match_event
<1>6. counter < Never BY <1>1, NowType, TimingAssumption, SMT
<1>7. /\ value \in 1..(Period + 1) /\ usec < value
      /\ \A x \in Timers : Armed(x)' =>
              \/ timer'[x].value.sec > counter
              \/ /\ timer'[x].value.sec = counter
                 /\ timer'[x].value.usec = Period \/ value <= timer'[x].value.usec
  BY <1>1, <1>4, <1>5, <1>6, TimerChannel
<1>8. oc'["timer"] = value /\ oc'["sleep"] = oc["sleep"] /\ oc' \in [Channels -> 1..(Period + 1)]
  BY <1>1, <1>5, <1>7 DEF Channels
<1>9. Periods' = Periods BY <1>2 DEF Periods
<1>10. TimingTypeOK'
  BY <1>1, <1>2, <1>4, <1>8, <1>9, ActivateType, SMT DEF TimingTypeOK, EventValues, Channels
<1>11. ChannelInv' BY <1>1, <1>2, <1>7, <1>8 DEF ChannelInv, Channels
<1>12. SleepInv'
  <2> SUFFICES ASSUME NEW t \in Threads
               PROVE  /\ mode'[t] = "sleep" => due'[t] = Real(wake'[t]) /\ Ahead(wake[t], "sleep")'
                      /\ mode'[t] = "pause" => wake'[t].sec = Never
    BY DEF SleepInv, Real
  <2>1. mode'[t] \in {"sleep", "pause"} =>
          mode'[t] = mode[t] /\ wake'[t] = wake[t] /\ due'[t] = due[t]
    BY <1>2, ActivateType
  <2>2. mode'[t] = "sleep" => Ahead(wake[t], "sleep")'
    BY <1>2, <1>8, <2>1 DEF SleepInv, Ahead
  <2> QED BY <2>1, <2>2 DEF SleepInv
<1>13. TimerInv' BY <1>2, <1>4, <1>7, <1>8 DEF TimerInv, Ahead, Real
<1>14. SpinInv' BY <1>2, <1>9, ActivateType, SpinStep
<1> QED BY <1>10, <1>11, <1>12, <1>13, <1>14

\* The end of a period (root_handle_usecond_overflow_event).
LEMMA OverflowStep ==
  ASSUME TimingInv, NEW current, NEW refused,
         root_handle_usecond_overflow_event(current, refused)
  PROVE  TimingInv'
<1> USE DEF TimingInv
<1> DEFINE c == counter + 1
<1>1. /\ usec \in 0..(Period - 1) /\ counter \in Nat /\ c \in Nat
      /\ pending \subseteq {"overflow"} \cup Channels /\ wake \in [Threads -> Times]
  BY SMT DEF TimingTypeOK
<1>2. /\ usec' = usec /\ counter' = c /\ "overflow" \in pending /\ pending' = pending \ {"overflow"}
      /\ TimersExpire(c, current, refused)
      /\ Activate(Woken(c) \cup Signalled(c, current, refused))
  BY DEF root_handle_usecond_overflow_event
<1>3. Periods = c /\ Periods' = c BY <1>2 DEF Periods
<1>4. PICK s, v : /\ IsNext(s, WakeTicks(c)) /\ IsNext(v, TimerTicks(c))
                  /\ oc' = [ch \in Channels |-> IF ch = "sleep" THEN s ELSE v]
  BY <1>2, SMT DEF root_handle_usecond_overflow_event
<1>5. c < Never BY <1>3, NowType
<1> HIDE DEF c
<1>6. /\ timer' \in [Timers -> [init : BOOLEAN, value : Times, interval : Times,
                                queued : BOOLEAN, event : EventValues]]
      /\ expiry' \in [Timers -> Nat]
      /\ signals' \subseteq [to : Threads, event : EventValues, forward : BOOLEAN]
      /\ \A x \in Timers : Armed(x)' => /\ expiry'[x] = Real(timer'[x].value)
                                        /\ ~HasCome(timer'[x].value, c, usec)
  BY <1>1, <1>2, <1>3, ExpireStep, SMT
<1>7. /\ v \in 1..(Period + 1) /\ usec < v
      /\ \A x \in Timers : Armed(x)' =>
              \/ timer'[x].value.sec > c
              \/ /\ timer'[x].value.sec = c
                 /\ timer'[x].value.usec = Period \/ v <= timer'[x].value.usec
  BY <1>1, <1>4, <1>5, <1>6, TimerChannel
<1>8. s \in 1..(Period + 1) /\ usec < s BY <1>1, <1>4, SleepChannel
<1>9. oc'["sleep"] = s /\ oc'["timer"] = v /\ oc' \in [Channels -> 1..(Period + 1)]
  BY <1>4, <1>7, <1>8 DEF Channels
<1>10. TimingTypeOK'
  <2>1. Periods' <= MaxPeriods BY <1>3 DEF TimingTypeOK
  <2>2. pending' \subseteq {"overflow"} \cup Channels BY <1>1, <1>2
  <2> QED BY <1>1, <1>2, <1>6, <1>9, <2>1, <2>2, ActivateType DEF TimingTypeOK, EventValues,
             Channels
<1>11. ChannelInv' BY <1>2, <1>7, <1>8, <1>9 DEF ChannelInv, Channels
<1>12. SleepInv'
  <2> SUFFICES ASSUME NEW t \in Threads
               PROVE  /\ mode'[t] = "sleep" => due'[t] = Real(wake'[t]) /\ Ahead(wake[t], "sleep")'
                      /\ mode'[t] = "pause" => wake'[t].sec = Never
    BY DEF SleepInv, Real
  <2> DEFINE woken == Woken(c) \cup Signalled(c, current, refused)
  <2>1. Activate(woken) /\ TimingTypeOK /\ SleepInv BY <1>2
  <2> HIDE DEF woken
  <2>2. mode'[t] \in {"sleep", "pause"} =>
          t \notin woken /\ mode'[t] = mode[t] /\ wake'[t] = wake[t] /\ due'[t] = due[t]
    BY <2>1, ActivateType
  <2>3. ASSUME mode'[t] = "sleep" PROVE Ahead(wake[t], "sleep")'
    <3>1. Asleep(t) /\ t \notin Woken(c) /\ wake'[t] = wake[t] BY <2>2, <2>3 DEF Asleep, woken
    <3>2. IsNext(s, WakeTicks(c)) /\ oc'["sleep"] = s /\ counter' = c BY <1>2, <1>4, <1>9
    <3>3. wake[t].sec > c \/ (wake[t].sec = c /\ (wake[t].usec = Period \/ s <= wake[t].usec))
      BY <1>1, <2>1, <3>1, <3>2, StillAsleep
    <3> QED BY <3>1, <3>2, <3>3 DEF Ahead
  <2> QED BY <2>1, <2>2, <2>3 DEF SleepInv
<1>13. TimerInv' BY <1>2, <1>6, <1>7, <1>9 DEF TimerInv, Ahead, Real
<1>14. SpinInv' BY <1>2, <1>3, ActivateType, SpinStep
<1> QED BY <1>10, <1>11, <1>12, <1>13, <1>14

-----------------------------------------------------------------------------
(* Making, deleting and setting timers                                     *)

\* timer_create (scheduler_timing_process_create_timer).
LEMMA CreateStep ==
  ASSUME TimingInv, NEW t \in Threads, NEW event \in Events,
         scheduler_timing_process_create_timer(t, event)
  PROVE  TimingInv'
<1> USE DEF TimingInv
<1>1. UNCHANGED <<usec, counter, pending, oc, mode, wake, spin, due, signals, expiry>>
  BY DEF scheduler_timing_process_create_timer, clock, threads
<1>2. PICK x \in Timers :
        timer' = [timer EXCEPT ![x] = [NoTimer EXCEPT !.init = TRUE, !.value = NoTime, !.event = event]]
  BY DEF scheduler_timing_process_create_timer
<1>3. timer \in [Timers -> [init : BOOLEAN, value : Times, interval : Times,
                            queued : BOOLEAN, event : EventValues]]
  BY DEF TimingTypeOK
<1>4. NoTime \in Times /\ Time(0, 0) \in Times /\ NoTime.sec = Never
  BY PeriodType, TimingAssumption, SMT DEF NoTime, Time, Times
<1>5. timer' \in [Timers -> [init : BOOLEAN, value : Times, interval : Times,
                             queued : BOOLEAN, event : EventValues]]
  BY <1>2, <1>3, <1>4 DEF NoTimer, EventValues
<1>6. Periods' = Periods BY <1>1 DEF Periods
<1>7. TimingTypeOK' BY <1>1, <1>5, <1>6 DEF TimingTypeOK, EventValues
<1>8. ChannelInv' /\ SleepInv' /\ SpinInv' BY <1>1, <1>6 DEF ChannelInv, SleepInv, SpinInv,
                                              Ahead, Real
<1>9. TimerInv'
  <2>1. \A y \in Timers : Armed(y)' => y # x /\ timer'[y] = timer[y]
    BY <1>2, <1>3, <1>4 DEF Armed, NoTimer
  <2> QED BY <1>1, <2>1 DEF TimerInv, Armed, Ahead, Real
<1> QED BY <1>7, <1>8, <1>9

\* timer_delete (svcall_delete_timer).
LEMMA DeleteStep ==
  ASSUME TimingInv, NEW t \in Threads, NEW x \in Timers, svcall_delete_timer(t, x)
  PROVE  TimingInv'
<1> USE DEF TimingInv
<1>1. UNCHANGED <<usec, counter, pending, oc, mode, wake, spin, due, signals>>
  BY DEF svcall_delete_timer, clock, threads
<1>2. timer' = [timer EXCEPT ![x] = NoTimer] /\ expiry' = [expiry EXCEPT ![x] = 0]
  BY DEF svcall_delete_timer
<1>3. /\ timer \in [Timers -> [init : BOOLEAN, value : Times, interval : Times,
                               queued : BOOLEAN, event : EventValues]]
      /\ expiry \in [Timers -> Nat]
  BY DEF TimingTypeOK
<1>4. Time(0, 0) \in Times BY PeriodType, SMT DEF Time, Times
<1>5. timer' \in [Timers -> [init : BOOLEAN, value : Times, interval : Times,
                             queued : BOOLEAN, event : EventValues]]
  BY <1>2, <1>3, <1>4 DEF NoTimer, EventValues
<1>6. Periods' = Periods BY <1>1 DEF Periods
<1>7. expiry' \in [Timers -> Nat] BY <1>2, <1>3
<1>8. TimingTypeOK' BY <1>1, <1>5, <1>6, <1>7 DEF TimingTypeOK, EventValues
<1>9. ChannelInv' /\ SleepInv' /\ SpinInv' BY <1>1, <1>6 DEF ChannelInv, SleepInv, SpinInv,
                                              Ahead, Real
<1>10. TimerInv'
  <2>1. \A y \in Timers : Armed(y)' => timer'[y] = timer[y] /\ expiry'[y] = expiry[y]
    BY <1>2, <1>3 DEF Armed, NoTimer
  <2> QED BY <1>1, <2>1 DEF TimerInv, Armed, Ahead, Real
<1> QED BY <1>8, <1>9, <1>10

\* The channel when a timer is set to a time of this period, or to none.
LEMMA SoonerStep ==
  ASSUME TimingTypeOK, ChannelInv, NEW value \in Times, oc' = Sooner(value),
         UNCHANGED <<usec, counter, pending>>,
         value.sec = Never \/ (value.sec = counter /\ value.usec > usec)
  PROVE  /\ oc' \in [Channels -> 1..(Period + 1)] /\ oc'["sleep"] = oc["sleep"]
         /\ ChannelInv'
         /\ oc'["timer"] <= oc["timer"]
         /\ value.sec # Never => value.sec = counter /\ oc'["timer"] <= value.usec
<1>1. /\ usec \in 0..(Period - 1) /\ counter \in Nat /\ oc \in [Channels -> 1..(Period + 1)]
  BY DEF TimingTypeOK
<1>2. value.sec \in Nat /\ value.usec \in 0..Period BY DEF Times
<1>3. oc["timer"] \in 1..(Period + 1) /\ counter # Never /\ Never \in Nat
  BY <1>1, NowType, TimingAssumption, SMT DEF Channels
<1>4. CASE value.sec = counter /\ value.usec > usec /\ value.usec < oc["timer"]
  <2>1. oc' = [oc EXCEPT !["timer"] = value.usec] BY <1>4 DEF Sooner
  <2>2. value.usec \in 1..(Period + 1) BY <1>1, <1>2, <1>4, PeriodType, SMT
  <2>3. oc' \in [Channels -> 1..(Period + 1)] BY <1>1, <2>1, <2>2
  <2>4. oc'["timer"] = value.usec /\ oc'["sleep"] = oc["sleep"] BY <1>1, <2>1 DEF Channels
  <2>5. ChannelInv' BY <1>4, <2>4 DEF ChannelInv, Channels
  <2>6. value.usec <= value.usec /\ value.usec <= oc["timer"] BY <1>2, <1>3, <1>4, SMT
  <2> QED BY <1>4, <2>3, <2>4, <2>5, <2>6
<1>5. CASE ~(value.sec = counter /\ value.usec > usec /\ value.usec < oc["timer"])
  <2>1. oc' = oc BY <1>5 DEF Sooner
  <2>2. value.sec # Never => oc["timer"] <= value.usec BY <1>2, <1>3, <1>5, SMT
  <2>3. ChannelInv' BY <2>1 DEF ChannelInv
  <2> QED BY <1>1, <1>3, <2>1, <2>2, <2>3, SMT
<1> QED BY <1>4, <1>5

\* What a timer is set to.
LEMMA SettimeValue ==
  ASSUME TimingTypeOK, "overflow" \notin pending, NEW absolute \in BOOLEAN,
         NEW delay \in Timespecs, NEW interval \in Timespecs, NEW value, NEW when,
         value = (IF absolute THEN scheduler_timing_convert_timespec(delay)
                  ELSE IF scheduler_timing_convert_timespec(delay) = Time(0, 0) THEN NoTime
                  ELSE scheduler_timing_add_mcu_timeval(scheduler_timing_root_get_realtime,
                         scheduler_timing_convert_timespec(delay))),
         when = (IF absolute THEN Ticks(delay) ELSE Now + Ticks(delay))
  PROVE  /\ value \in Times
         /\ value.sec # Never => when = Real(value)
         /\ AtLeast(scheduler_timing_convert_timespec(interval)) \in Times
<1> DEFINE given == scheduler_timing_convert_timespec(delay)
           rest == scheduler_timing_convert_timespec(interval)
<1>1. given \in Times /\ Real(given) = Ticks(delay) /\ rest \in Times BY ConvertIsReal
<1>2. usec \in 0..(Period - 1) /\ counter \in Nat BY DEF TimingTypeOK
<1>3. NoTime \in Times /\ NoTime.sec = Never
  BY PeriodType, TimingAssumption, SMT DEF NoTime, Time, Times
<1>4. Now = counter * Period + usec BY DEF Now, Periods
<1>5. AtLeast(rest) \in Times
  BY <1>1, PeriodType, TimingAssumption, SMT DEF AtLeast, Time, Times
<1> HIDE DEF given, rest
<1>6. CASE absolute BY <1>1, <1>5, <1>6 DEF given, rest
<1>7. CASE ~absolute /\ given = Time(0, 0) BY <1>3, <1>5, <1>7 DEF given, rest
<1>8. CASE ~absolute /\ given # Time(0, 0)
  <2>1. value = scheduler_timing_add_mcu_timeval(Time(counter, usec), given)
    BY <1>8 DEF given, scheduler_timing_root_get_realtime
  <2>2. value \in Times /\ Real(value) = counter * Period + usec + Real(given)
    BY <1>1, <1>2, <2>1, AddIsReal, SMT
  <2>3. when = counter * Period + usec + Real(given) BY <1>1, <1>4, <1>8
  <2> QED BY <1>5, <2>2, <2>3 DEF rest
<1> QED BY <1>6, <1>7, <1>8

\* A timer that has expired, and when it expires next.
LEMMA ReloadIsReal ==
  ASSUME TimingTypeOK, NEW c \in Nat, c = Periods, NEW tm,
         tm.value \in Times, tm.interval \in Times
  PROVE  LET next == Reloaded(tm, Time(c, usec))
         IN /\ next \in Times
            /\ next.sec = Never \/ (next.sec >= c /\ NextExpiry(tm) = Real(next))
            /\ NextExpiry(tm) \in Nat
<1>1. usec \in 0..(Period - 1) BY DEF TimingTypeOK
<1>2. tm.interval.sec \in Nat /\ tm.interval.usec \in 0..Period /\ Real(tm.interval) \in Nat
      /\ (Real(tm.interval) > 0 <=> tm.interval.sec + tm.interval.usec > 0)
  BY RealType DEF Times
<1>3. Now \in Nat /\ Now = c * Period + usec /\ c * Period \in Nat BY NowType
<1> DEFINE next == Reloaded(tm, Time(c, usec))
<1>4. CASE tm.interval.sec + tm.interval.usec > 0
  <2> DEFINE sum == scheduler_timing_add_mcu_timeval(Time(c, usec), tm.interval)
  <2>1. next = sum
    BY <1>4 DEF Reloaded
  <2>2. sum \in Times /\ sum.sec >= c /\ Real(sum) = c * Period + usec + Real(tm.interval)
    BY <1>1, AddIsReal
  <2>3. next \in Times /\ next.sec >= c /\ Real(next) = c * Period + usec + Real(tm.interval)
    BY <2>1, <2>2
  <2>4. NextExpiry(tm) = Now + Real(tm.interval) BY <1>2, <1>4 DEF NextExpiry
  <2>5. NextExpiry(tm) = Real(next) /\ NextExpiry(tm) \in Nat BY <1>2, <1>3, <2>3, <2>4, SMT
  <2> QED BY <2>3, <2>5
<1>5. CASE ~(tm.interval.sec + tm.interval.usec > 0)
  <2>1. next = Time(Never, tm.value.usec) /\ NextExpiry(tm) = 0 BY <1>2, <1>5 DEF Reloaded,
                                                                   NextExpiry
  <2> QED BY <2>1, TimingAssumption, SMT DEF Time, Times
<1> QED BY <1>4, <1>5

\* One timer is set to a time that is ahead, or to none.
LEMMA SetOneTimer ==
  ASSUME TimingInv, NEW x \in Timers, NEW when \in Nat,
         NEW tm \in [init : BOOLEAN, value : Times, interval : Times,
                     queued : BOOLEAN, event : EventValues],
         tm.value.sec = Never \/ (tm.value.sec = counter /\ tm.value.usec > usec),
         tm.value.sec # Never => when = Real(tm.value),
         timer' = [timer EXCEPT ![x] = tm], expiry' = [expiry EXCEPT ![x] = when],
         oc' = Sooner(tm.value),
         signals' \subseteq [to : Threads, event : EventValues, forward : BOOLEAN],
         UNCHANGED <<usec, counter, pending, mode, wake, spin, due>>
  PROVE  TimingInv'
<1> USE DEF TimingInv
<1>1. tm.value \in Times OBVIOUS
<1>2. /\ oc' \in [Channels -> 1..(Period + 1)] /\ oc'["sleep"] = oc["sleep"]
      /\ ChannelInv'
      /\ oc'["timer"] <= oc["timer"]
      /\ tm.value.sec # Never => tm.value.sec = counter /\ oc'["timer"] <= tm.value.usec
  BY <1>1, SoonerStep
<1>3. /\ timer \in [Timers -> [init : BOOLEAN, value : Times, interval : Times,
                               queued : BOOLEAN, event : EventValues]]
      /\ expiry \in [Timers -> Nat] /\ oc \in [Channels -> 1..(Period + 1)]
  BY DEF TimingTypeOK
<1>4. /\ timer' \in [Timers -> [init : BOOLEAN, value : Times, interval : Times,
                                queued : BOOLEAN, event : EventValues]]
      /\ expiry' \in [Timers -> Nat]
  BY <1>3
<1>5. Periods' = Periods BY DEF Periods
<1>6. TimingTypeOK' BY <1>2, <1>4, <1>5 DEF TimingTypeOK, EventValues, Channels
<1>7. SleepInv' BY <1>2 DEF SleepInv, Ahead, Real
<1>8. TimerInv'
  <2> SUFFICES ASSUME NEW y \in Timers, Armed(y)'
               PROVE  expiry'[y] = Real(timer'[y].value) /\ Ahead(timer[y].value, "timer")'
    BY DEF TimerInv, Real
  <2>1. CASE y = x
    <3>1. timer'[y] = tm /\ expiry'[y] = when BY <1>3, <2>1
    <3>2. tm.value.sec # Never BY <3>1 DEF Armed
    <3> QED BY <1>2, <3>1, <3>2 DEF Ahead
  <2>2. CASE y # x
    <3>1. timer'[y] = timer[y] /\ expiry'[y] = expiry[y] BY <1>3, <2>2
    <3>2. expiry[y] = Real(timer[y].value) /\ Ahead(timer[y].value, "timer")
      BY <3>1 DEF Armed, TimerInv
    <3>3. /\ oc["timer"] \in Int /\ oc'["timer"] \in Int /\ timer[y].value.usec \in Int
      BY <1>2, <1>3, SMT DEF Channels, Times
    <3> QED BY <1>2, <3>1, <3>2, <3>3, SMT DEF Ahead
  <2> QED BY <2>1, <2>2
<1>9. SpinInv' BY <1>5 DEF SpinInv
<1> QED BY <1>2, <1>6, <1>7, <1>8, <1>9

\* timer_settime (svcall_settime): the invariant is kept, and no timer expires early.
LEMMA SettimeStep ==
  ASSUME TimingInv, Ops = {}, NEW t \in Threads, NEW x \in Timers, NEW absolute \in BOOLEAN,
         NEW delay \in Timespecs, NEW interval \in Timespecs, NEW refused,
         svcall_settime(t, x, absolute, delay, interval, refused)
  PROVE  TimingInv' /\ early' = early
<1> DEFINE given == scheduler_timing_convert_timespec(delay)
           value == IF absolute THEN given
                    ELSE IF given = Time(0, 0) THEN NoTime
                    ELSE scheduler_timing_add_mcu_timeval(scheduler_timing_root_get_realtime, given)
           set == [timer[x] EXCEPT !.value = value,
                                   !.interval = AtLeast(scheduler_timing_convert_timespec(interval))]
           when == IF absolute THEN Ticks(delay) ELSE Now + Ticks(delay)
           next == Reloaded(set, scheduler_timing_root_get_realtime)
           sends == ~set.queued /\ set.event # "none" /\ x \notin refused
<1>1. /\ "overflow" \notin pending
      /\ value.sec >= counter /\ (value.sec <= counter \/ value.sec = Never)
      /\ update_tmr_for_process_timer_match(t, x, set, refused)
      /\ expiry' = [expiry EXCEPT ![x] = IF HasComeForSet(value) THEN NextExpiry(set)
                                         ELSE IF value.sec = Never THEN 0 ELSE when]
      /\ early' = early \cup {y \in {x} : HasComeForSet(value) /\ Now < when}
      /\ UNCHANGED <<usec, counter, pending, mode, wake, spin, due>>
  BY DEF svcall_settime, Calls, threads
<1>2. /\ usec \in 0..(Period - 1) /\ counter \in Nat /\ counter = Periods
      /\ signals \subseteq [to : Threads, event : EventValues, forward : BOOLEAN]
      /\ timer[x] \in [init : BOOLEAN, value : Times, interval : Times,
                       queued : BOOLEAN, event : EventValues]
  BY <1>1 DEF TimingInv, TimingTypeOK, Periods
<1>3. /\ value \in Times
      /\ value.sec # Never => when = Real(value)
      /\ AtLeast(scheduler_timing_convert_timespec(interval)) \in Times
  BY <1>1, SettimeValue DEF TimingInv
<1>4. set \in [init : BOOLEAN, value : Times, interval : Times,
               queued : BOOLEAN, event : EventValues]
      /\ set.value = value
  BY <1>2, <1>3
<1>5. value.sec \in Nat /\ value.usec \in 0..Period BY <1>3 DEF Times
<1>6. IF HasComeForSet(value)
      THEN /\ x[1] = t
           /\ ~HasComeForSet(next)
           /\ timer' = [timer EXCEPT ![x] = [set EXCEPT !.queued = @ \/ sends, !.value = next]]
           /\ signals' = IF sends
                         THEN signals \cup {[to |-> t, event |-> set.event, forward |-> TRUE]}
                         ELSE signals
           /\ oc' = Sooner(next)
      ELSE /\ timer' = [timer EXCEPT ![x] = set]
           /\ oc' = Sooner(value)
           /\ UNCHANGED signals
  BY <1>1, <1>4 DEF update_tmr_for_process_timer_match
<1>7. next = Reloaded(set, Time(counter, usec)) BY DEF scheduler_timing_root_get_realtime
<1> HIDE DEF value, set, when, next, sends
<1>8. CASE HasComeForSet(value)
  <2>1. set.value \in Times /\ set.interval \in Times /\ set.event \in EventValues BY <1>4
  <2>2. /\ next \in Times
        /\ next.sec = Never \/ (next.sec >= counter /\ NextExpiry(set) = Real(next))
        /\ NextExpiry(set) \in Nat
    BY <1>2, <1>7, <2>1, ReloadIsReal DEF TimingInv
  <2>3. next.sec \in Nat /\ next.usec \in 0..Period BY <2>2 DEF Times
  <2>4. next.sec = Never \/ (next.sec = counter /\ next.usec > usec)
    BY <1>2, <1>6, <1>8, <2>2, <2>3 DEF HasComeForSet
  <2>5. next.sec # Never => NextExpiry(set) = Real(next) BY <2>2
  <2> DEFINE tm == [set EXCEPT !.queued = @ \/ sends, !.value = next]
  <2>6. tm \in [init : BOOLEAN, value : Times, interval : Times,
                queued : BOOLEAN, event : EventValues]
        /\ tm.value = next
    BY <1>4, <2>2 DEF sends
  <2>7. signals' \subseteq [to : Threads, event : EventValues, forward : BOOLEAN]
    <3>1. [to |-> t, event |-> set.event, forward |-> TRUE]
            \in [to : Threads, event : EventValues, forward : BOOLEAN]
      BY <2>1
    <3>2. signals' \subseteq signals \cup {[to |-> t, event |-> set.event, forward |-> TRUE]}
      BY <1>6, <1>8
    <3> QED BY <1>2, <3>1, <3>2
  <2>8. timer' = [timer EXCEPT ![x] = tm] /\ expiry' = [expiry EXCEPT ![x] = NextExpiry(set)]
        /\ oc' = Sooner(tm.value)
    BY <1>1, <1>6, <1>8, <2>6
  <2> HIDE DEF tm
  <2>9. TimingInv'
    <3>1. UNCHANGED <<usec, counter, pending, mode, wake, spin, due>> BY <1>1
    <3>2. NextExpiry(set) \in Nat BY <2>2
    <3>3. tm.value.sec = Never \/ (tm.value.sec = counter /\ tm.value.usec > usec) BY <2>4, <2>6
    <3>4. tm.value.sec # Never => NextExpiry(set) = Real(tm.value) BY <2>5, <2>6
    <3> QED BY ONLY TimingInv, <2>6, <2>7, <2>8, <3>1, <3>2, <3>3, <3>4, x \in Timers,
               SetOneTimer
  <2>10. ~(Now < when)
    <3>1. TimingTypeOK /\ counter <= Periods /\ usec \in Int
      <4>1. TimingTypeOK BY DEF TimingInv
      <4>2. usec \in 0..(Period - 1) BY <1>2
      <4>3. counter <= Periods BY ONLY <1>2, SMT
      <4> QED BY <4>1, <4>2, <4>3, SMT
    <3>2. value.sec <= counter \/ value.sec = Never BY <1>1
    <3>3. value.sec # Never /\ HasCome(value, counter, usec)
      BY <1>2, <1>5, <1>8, <3>1, <3>2, SMT DEF HasComeForSet, HasCome
    <3>4. Real(value) <= Now BY <1>2, <1>3, <3>1, <3>3, ComeIsDue
    <3>5. Now \in Nat /\ Real(value) \in Nat /\ when = Real(value)
      BY <1>3, <3>1, <3>3, NowType, RealType
    <3> QED BY <3>4, <3>5, SMT
  <2> QED BY <1>1, <2>9, <2>10
<1>9. CASE ~HasComeForSet(value)
  <2> DEFINE w == IF value.sec = Never THEN 0 ELSE when
  <2>1. value.sec = Never \/ (value.sec = counter /\ value.usec > usec)
    BY <1>1, <1>2, <1>5, <1>9, TimingAssumption DEF HasComeForSet
  <2>2. w \in Nat /\ (value.sec # Never => w = Real(value)) BY <1>3, RealType
  <2>3. timer' = [timer EXCEPT ![x] = set] /\ oc' = Sooner(set.value) /\ signals' = signals
        /\ expiry' = [expiry EXCEPT ![x] = w]
    BY <1>1, <1>4, <1>6, <1>9
  <2> HIDE DEF w
  <2>4. TimingInv'
    <3>1. UNCHANGED <<usec, counter, pending, mode, wake, spin, due>> BY <1>1
    <3>2. signals' \subseteq [to : Threads, event : EventValues, forward : BOOLEAN] BY <1>2,
                                                                                       <2>3
    <3>3. set.value.sec = Never \/ (set.value.sec = counter /\ set.value.usec > usec) BY <1>4, <2>1
    <3>4. set.value.sec # Never => w = Real(set.value) BY <1>4, <2>2
    <3> QED BY ONLY TimingInv, <1>4, <2>2, <2>3, <3>1, <3>2, <3>3, <3>4, x \in Timers,
               SetOneTimer
  <2> QED BY <1>1, <1>9, <2>4
<1> QED BY <1>8, <1>9

\* Signals sent on by task 0 and handled by their threads.
LEMMA SignalStep ==
  ASSUME TimingInv, NEW s \in signals, signal_forward_handler(s) \/ signal_handler(s)
  PROVE  TimingInv'
<1> USE DEF TimingInv, clock, threads
<1>1. /\ signals \subseteq [to : Threads, event : EventValues, forward : BOOLEAN]
      /\ timer \in [Timers -> [init : BOOLEAN, value : Times, interval : Times,
                               queued : BOOLEAN, event : EventValues]]
  BY DEF TimingTypeOK
<1>2. UNCHANGED <<usec, counter, pending, oc, expiry>>
  BY DEF signal_forward_handler, signal_handler
<1>3. Periods' = Periods BY <1>2 DEF Periods
<1>4. ChannelInv' BY <1>2 DEF ChannelInv
<1>5. CASE signal_forward_handler(s)
  <2>1. PICK room \in BOOLEAN :
          /\ signals' = (signals \ {s}) \cup {x \in {[s EXCEPT !.forward = FALSE]} : room}
          /\ Activate({x \in {s.to} : room}) /\ timer' = timer
    BY <1>5 DEF signal_forward_handler
  <2>2. signals' \subseteq [to : Threads, event : EventValues, forward : BOOLEAN] BY <1>1, <2>1
  <2>3. TimingTypeOK' BY <1>2, <1>3, <2>1, <2>2, ActivateType DEF TimingTypeOK, EventValues,
                         Channels
  <2>4. SleepInv' BY <1>2, <2>1, ActivateType, SMT DEF SleepInv, Ahead, Real
  <2>5. TimerInv' BY <1>2, <2>1 DEF TimerInv, Armed, Ahead, Real
  <2>6. SpinInv' BY <1>2, <1>3, <2>1, ActivateType, SpinStep
  <2> QED BY <1>4, <2>3, <2>4, <2>5, <2>6
<1>6. CASE signal_handler(s)
  <2>1. /\ signals' = signals \ {s} /\ UNCHANGED <<mode, wake, spin, due>>
        /\ timer' = [x \in Timers |-> IF x[1] = s.to /\ timer[x].event = s.event
                                      THEN [timer[x] EXCEPT !.queued = FALSE] ELSE timer[x]]
    BY <1>6 DEF signal_handler
  <2>2. /\ timer' \in [Timers -> [init : BOOLEAN, value : Times, interval : Times,
                                  queued : BOOLEAN, event : EventValues]]
        /\ \A x \in Timers : timer'[x].init = timer[x].init /\ timer'[x].value = timer[x].value
    BY <1>1, <2>1
  <2>3. TimingTypeOK' BY <1>1, <1>2, <1>3, <2>1, <2>2 DEF TimingTypeOK, EventValues, Channels
  <2>4. SleepInv' /\ SpinInv' BY <1>2, <1>3, <2>1 DEF SleepInv, SpinInv, Ahead, Real
  <2>5. TimerInv' BY <1>2, <2>2 DEF TimerInv, Armed, Ahead, Real
  <2> QED BY <1>4, <2>3, <2>4, <2>5
<1> QED BY <1>5, <1>6

-----------------------------------------------------------------------------
(* All steps together, and the theorems                                    *)

\* Every step keeps the invariant.
LEMMA TimingStep ==
  ASSUME TimingInv, Ops = {}, [Next]_timingVars
  PROVE  TimingInv'
<1>1. CASE UNCHANGED timingVars
  <2>1. UNCHANGED <<usec, counter, pending, oc, mode, wake, spin, due, timer, signals, expiry>>
    BY <1>1 DEF timingVars, clock, threads, timers
  <2>2. Periods' = Periods BY <2>1 DEF Periods
  <2>3. TimingTypeOK' BY <2>1, <2>2 DEF TimingInv, TimingTypeOK, EventValues
  <2>4. ChannelInv' /\ SleepInv' BY <2>1 DEF TimingInv, ChannelInv, SleepInv, Ahead, Real
  <2>5. TimerInv' BY <2>1 DEF TimingInv, TimerInv, Armed, Ahead, Real
  <2>6. SpinInv' BY <2>1, <2>2 DEF TimingInv, SpinInv
  <2> QED BY <2>3, <2>4, <2>5, <2>6 DEF TimingInv
<1>2. CASE Tick BY <1>2, TickStep
<1>3. CASE root_handle_usecond_match_event BY <1>3, MatchStep
<1>4. ASSUME NEW current, NEW refused,
             root_handle_usecond_process_timer_match_event(current, refused)
      PROVE  TimingInv'
  BY <1>4, TimerMatchStep
<1>5. ASSUME NEW current, NEW refused, root_handle_usecond_overflow_event(current, refused)
      PROVE  TimingInv'
  BY <1>5, OverflowStep
<1>6. ASSUME NEW t \in Threads, NEW seconds \in Sleeps, sleep(t, seconds) PROVE TimingInv'
  BY <1>6, SleepStep
<1>7. ASSUME NEW t \in Threads, NEW useconds \in Naps, usleep(t, useconds) PROVE TimingInv'
  BY <1>7, UsleepStep
<1>8. ASSUME NEW t \in Threads, NEW limit \in Limits, timedwait(t, limit) PROVE TimingInv'
  BY <1>8, TimedwaitStep
<1>9. ASSUME NEW t \in Threads,
             \/ \E useconds \in Naps : usleep_Spin(t, useconds)
             \/ usleep_SpinEnds(t) \/ pause(t) \/ Interrupt(t)
      PROVE  TimingInv'
  <2>1. UNCHANGED <<clock, timers>> BY <1>9 DEF usleep_Spin, usleep_SpinEnds, pause, Interrupt
  <2> QED BY <1>9, <2>1, ThreadStep
<1>10. ASSUME NEW t \in Threads, NEW event \in Events,
              scheduler_timing_process_create_timer(t, event)
       PROVE  TimingInv'
  BY <1>10, CreateStep
<1>11. ASSUME NEW t \in Threads, NEW x \in Timers, svcall_delete_timer(t, x) PROVE TimingInv'
  BY <1>11, DeleteStep
<1>12. ASSUME NEW t \in Threads, NEW x \in Timers, NEW interval \in Intervals, NEW refused,
              \/ \E delay \in Delays : svcall_settime(t, x, FALSE, delay, interval, refused)
              \/ \E limit \in Limits : svcall_settime(t, x, TRUE, limit, interval, refused)
       PROVE  TimingInv'
  <2>1. Intervals \subseteq Timespecs /\ Delays \subseteq Timespecs /\ Limits \subseteq Timespecs
    BY TimingAssumption
  <2>2. interval \in Timespecs BY <2>1
  <2>3. ASSUME NEW delay \in Delays, svcall_settime(t, x, FALSE, delay, interval, refused)
        PROVE  TimingInv'
    <3>1. delay \in Timespecs /\ FALSE \in BOOLEAN BY <2>1
    <3> QED BY <2>2, <2>3, <3>1, SettimeStep
  <2>4. ASSUME NEW limit \in Limits, svcall_settime(t, x, TRUE, limit, interval, refused)
        PROVE  TimingInv'
    <3>1. limit \in Timespecs /\ TRUE \in BOOLEAN BY <2>1
    <3> QED BY <2>2, <2>4, <3>1, SettimeStep
  <2> QED BY <1>12, <2>3, <2>4
<1>13. ASSUME NEW s \in signals, signal_forward_handler(s) \/ signal_handler(s) PROVE TimingInv'
  BY <1>13, SignalStep
<1> QED BY <1>1, <1>2, <1>3, <1>4, <1>5, <1>6, <1>7, <1>8, <1>9, <1>10, <1>11, <1>12, <1>13
     DEF Next

-----------------------------------------------------------------------------
(* Nothing early                                                           *)

\* A time that has come is not the time never.
LEMMA ComeIsNotNever ==
  ASSUME NEW tv \in Times, NEW c \in Nat, NEW u, c < Never, HasCome(tv, c, u)
  PROVE  tv.sec # Never
<1>1. tv.sec \in Nat /\ Never \in Nat BY TimingAssumption DEF Times
<1> QED BY <1>1, SMT DEF HasCome

\* No handler wakes a thread, or lets a timer expire, before its time.
LEMMA WokenInTime ==
  ASSUME TimingInv, NEW c \in Nat, c <= Periods
  PROVE  WokenEarly(c) = {} /\ {x \in Expired(c) : Now < expiry[x]} = {}
<1>1. c < Never /\ Now \in Nat
  <2>1. Periods \in Nat /\ Periods < Never /\ Now \in Nat BY NowType DEF TimingInv
  <2>2. Never \in Nat BY TimingAssumption
  <2> QED BY <2>1, <2>2, SMT
<1>2. /\ TimingTypeOK /\ SleepInv /\ TimerInv
      /\ wake \in [Threads -> Times] /\ \A x \in Timers : timer[x].value \in Times
  BY DEF TimingInv, TimingTypeOK
<1>3. ASSUME NEW t \in Threads, t \in Woken(c) PROVE ~(mode[t] = "pause" \/ Now < due[t])
  <2>1. wake[t] \in Times /\ HasCome(wake[t], c, usec) /\ Asleep(t) BY <1>2, <1>3 DEF Woken
  <2>2. wake[t].sec # Never BY <1>1, <2>1, ComeIsNotNever
  <2>3. mode[t] = "sleep" /\ due[t] = Real(wake[t]) BY <1>2, <2>1, <2>2 DEF SleepInv, Asleep
  <2>4. Real(wake[t]) <= Now /\ Real(wake[t]) \in Nat BY <1>2, <2>1, ComeIsDue, RealType
  <2> QED BY <1>1, <2>3, <2>4, SMT
<1>4. ASSUME NEW x \in Timers, x \in Expired(c) PROVE ~(Now < expiry[x])
  <2>1. timer[x].value \in Times /\ HasCome(timer[x].value, c, usec) /\ timer[x].init
    BY <1>2, <1>4 DEF Expired
  <2>2. timer[x].value.sec # Never BY <1>1, <2>1, ComeIsNotNever
  <2>3. expiry[x] = Real(timer[x].value) BY <1>2, <2>1, <2>2 DEF TimerInv, Armed
  <2>4. Real(timer[x].value) <= Now /\ Real(timer[x].value) \in Nat BY <1>2, <2>1, ComeIsDue,
                                                                       RealType
  <2> QED BY <1>1, <2>3, <2>4, SMT
<1> QED BY <1>3, <1>4 DEF WokenEarly, Woken, Expired

\* usleep's busy wait does not end before its time.
LEMMA SpinEndsInTime ==
  ASSUME TimingInv, NEW t \in Threads, usleep_SpinEnds(t)
  PROVE  ~(Now < due[t])
<1> USE DEF TimingInv
<1>1. mode[t] = "spin" /\ ~(usec <= spin[t].end /\ usec >= spin[t].start)
  BY DEF usleep_SpinEnds
<1>2. PICK base \in Nat : /\ base <= Periods
                          /\ due[t] = base * Period + spin[t].end
                          /\ base = Periods => spin[t].start <= usec
  BY <1>1 DEF SpinInv
<1>3. spin[t].start \in 0..(Period - 1) /\ spin[t].end \in 0..Period /\ usec \in 0..(Period - 1)
  BY DEF TimingTypeOK
<1> DEFINE P == Period
           e == spin[t].end
<1>4. P \in Nat \ {0} /\ Periods \in Nat /\ Now = Periods * P + usec BY PeriodType, NowType
<1> HIDE DEF P, e
<1>5. e \in 0..P /\ usec \in 0..(P - 1) /\ due[t] = base * P + e BY <1>2, <1>3 DEF P, e
<1>6. CASE base = Periods
  <2>1. e < usec BY <1>1, <1>2, <1>3, <1>5, <1>6, SMT DEF e
  <2> QED BY <1>4, <1>5, <1>6, <2>1, SMT
<1>7. CASE base < Periods
  <2>1. (Periods - base - 1) * P >= 0 BY <1>4, <1>7, SMT
  <2>2. Periods * P >= base * P + P BY <1>4, <2>1, SMT
  <2>3. base * P \in Nat /\ Periods * P \in Nat BY <1>4, SMT
  <2> QED BY <1>4, <1>5, <2>2, <2>3, SMT
<1> QED BY <1>2, <1>4, <1>6, <1>7, SMT

\* No step adds to what happened early.
LEMMA EarlyStep ==
  ASSUME TimingInv, Ops = {}, [Next]_timingVars
  PROVE  early' = early
<1> USE DEF timers, threads, clock
<1>1. Periods \in Nat /\ counter \in Nat /\ counter <= Periods
  BY NowType DEF TimingInv, TimingTypeOK
<1>2. CASE root_handle_usecond_match_event
  BY <1>1, <1>2, WokenInTime DEF root_handle_usecond_match_event
<1>3. ASSUME NEW current, NEW refused,
             root_handle_usecond_process_timer_match_event(current, refused)
      PROVE  early' = early
  BY <1>1, <1>3, WokenInTime DEF root_handle_usecond_process_timer_match_event
<1>4. ASSUME NEW current, NEW refused, root_handle_usecond_overflow_event(current, refused)
      PROVE  early' = early
  <2>1. "overflow" \in pending /\ counter' = counter + 1
        /\ early' = early \cup WokenEarly(counter') \cup {x \in Expired(counter') : Now < expiry[x]}
    BY <1>4 DEF root_handle_usecond_overflow_event
  <2>2. counter' \in Nat /\ counter' <= Periods BY <1>1, <2>1, SMT DEF Periods
  <2> QED BY <2>1, <2>2, WokenInTime
<1>5. ASSUME NEW t \in Threads, usleep_SpinEnds(t) PROVE early' = early
  BY <1>5, SpinEndsInTime DEF usleep_SpinEnds
<1>6. ASSUME NEW t \in Threads, NEW x \in Timers, NEW interval \in Intervals, NEW refused,
             \/ \E delay \in Delays : svcall_settime(t, x, FALSE, delay, interval, refused)
             \/ \E limit \in Limits : svcall_settime(t, x, TRUE, limit, interval, refused)
      PROVE  early' = early
  <2>1. Intervals \subseteq Timespecs /\ Delays \subseteq Timespecs /\ Limits \subseteq Timespecs
    BY TimingAssumption
  <2>2. interval \in Timespecs BY <2>1
  <2>3. ASSUME NEW delay \in Delays, svcall_settime(t, x, FALSE, delay, interval, refused)
        PROVE  early' = early
    <3>1. delay \in Timespecs /\ FALSE \in BOOLEAN BY <2>1
    <3> QED BY <2>2, <2>3, <3>1, SettimeStep
  <2>4. ASSUME NEW limit \in Limits, svcall_settime(t, x, TRUE, limit, interval, refused)
        PROVE  early' = early
    <3>1. limit \in Timespecs /\ TRUE \in BOOLEAN BY <2>1
    <3> QED BY <2>2, <2>4, <3>1, SettimeStep
  <2> QED BY <1>6, <2>3, <2>4
<1>7. ASSUME NEW t \in Threads,
             \/ \E seconds \in Sleeps : sleep(t, seconds)
             \/ \E useconds \in Naps : usleep(t, useconds) \/ usleep_Spin(t, useconds)
             \/ \E limit \in Limits : timedwait(t, limit)
             \/ pause(t) \/ Interrupt(t)
             \/ \E event \in Events : scheduler_timing_process_create_timer(t, event)
             \/ \E x \in Timers : svcall_delete_timer(t, x)
      PROVE  early' = early
  BY <1>7 DEF sleep, usleep, usleep_Spin, timedwait, Blocks, pause, Interrupt,
              scheduler_timing_process_create_timer, svcall_delete_timer
<1>8. ASSUME NEW s \in signals, signal_forward_handler(s) \/ signal_handler(s)
      PROVE  early' = early
  BY <1>8 DEF signal_forward_handler, signal_handler
<1>9. CASE Tick \/ UNCHANGED timingVars BY <1>9 DEF Tick, timingVars
<1> QED BY <1>2, <1>3, <1>4, <1>5, <1>6, <1>7, <1>8, <1>9 DEF Next

-----------------------------------------------------------------------------
(* No timer falls silent                                                   *)

\* A timer that a handler marks as queued has its signal sent (send_and_reload_timer).
LEMMA ExpireNotSilenced ==
  ASSUME TimingTypeOK, TimerNotSilenced, NEW c, NEW current, NEW refused,
         TimersExpire(c, current, refused)
  PROVE  TimerNotSilenced'
<1>1. timer \in [Timers -> [init : BOOLEAN, value : Times, interval : Times,
                            queued : BOOLEAN, event : EventValues]]
  BY DEF TimingTypeOK
<1> SUFFICES ASSUME NEW x \in Timers, timer'[x].queued
             PROVE  \E s \in signals' : s.to = x[1] /\ s.event = timer'[x].event
  BY DEF TimerNotSilenced
<1>2. timer'[x].event = timer[x].event /\ signals \subseteq signals'
  BY <1>1 DEF TimersExpire, send_and_reload_timer
<1>3. CASE timer[x].queued BY <1>2, <1>3 DEF TimerNotSilenced
<1>4. CASE ~timer[x].queued
  <2>1. x \in Expired(c) /\ Sends(x, refused)
    BY <1>1, <1>4 DEF TimersExpire, send_and_reload_timer
  <2>2. Signal(x, current) \in signals' BY <2>1 DEF TimersExpire
  <2>3. Signal(x, current).to = x[1] /\ Signal(x, current).event = timer[x].event BY DEF Signal
  <2> QED BY <1>2, <2>2, <2>3
<1> QED BY <1>3, <1>4

\* The same for a timer that svcall_settime finds to have come.
LEMMA SettimeNotSilenced ==
  ASSUME TimingTypeOK, Ops = {}, TimerNotSilenced, NEW t \in Threads, NEW x \in Timers,
         NEW absolute, NEW delay, NEW interval, NEW refused,
         svcall_settime(t, x, absolute, delay, interval, refused)
  PROVE  TimerNotSilenced'
<1> DEFINE given == scheduler_timing_convert_timespec(delay)
           value == IF absolute THEN given
                    ELSE IF given = Time(0, 0) THEN NoTime
                    ELSE scheduler_timing_add_mcu_timeval(scheduler_timing_root_get_realtime, given)
           set == [timer[x] EXCEPT !.value = value,
                                   !.interval = AtLeast(scheduler_timing_convert_timespec(interval))]
           next == Reloaded(set, scheduler_timing_root_get_realtime)
           sends == ~set.queued /\ set.event # "none" /\ x \notin refused
           signal == [to |-> t, event |-> set.event, forward |-> TRUE]
<1>1. timer \in [Timers -> [init : BOOLEAN, value : Times, interval : Times,
                            queued : BOOLEAN, event : EventValues]]
  BY DEF TimingTypeOK
<1>2. update_tmr_for_process_timer_match(t, x, set, refused) BY DEF svcall_settime
<1>3. set.queued = timer[x].queued /\ set.event = timer[x].event BY <1>1
<1>4. \/ /\ x[1] = t
         /\ timer' = [timer EXCEPT ![x] = [set EXCEPT !.queued = @ \/ sends, !.value = next]]
         /\ signals' = IF sends THEN signals \cup {signal} ELSE signals
      \/ timer' = [timer EXCEPT ![x] = set] /\ signals' = signals
  BY <1>2 DEF update_tmr_for_process_timer_match
<1>5. signal.to = t /\ signal.event = timer[x].event BY <1>3
<1>6. \E tm : /\ timer' = [timer EXCEPT ![x] = tm] /\ tm.event = timer[x].event
              /\ tm.queued => timer[x].queued \/ (x[1] = t /\ signal \in signals')
              /\ signals \subseteq signals'
  <2>1. CASE timer' = [timer EXCEPT ![x] = set] /\ signals' = signals
    <3> HIDE DEF set
    <3> WITNESS set
    <3> QED BY <1>3, <2>1
  <2>2. CASE /\ x[1] = t
             /\ timer' = [timer EXCEPT ![x] = [set EXCEPT !.queued = @ \/ sends, !.value = next]]
             /\ signals' = IF sends THEN signals \cup {signal} ELSE signals
    <3> DEFINE tm == [set EXCEPT !.queued = @ \/ sends, !.value = next]
    <3>1. tm.event = timer[x].event /\ tm.queued = (set.queued \/ sends) BY <1>1
    <3>2. timer' = [timer EXCEPT ![x] = tm] BY <2>2
    <3> HIDE DEF tm, set, sends, signal
    <3> WITNESS tm
    <3> QED BY <1>3, <2>2, <3>1, <3>2
  <2> QED BY <1>4, <2>1, <2>2
<1> HIDE DEF set, next, sends, signal
<1>7. PICK tm : /\ timer' = [timer EXCEPT ![x] = tm] /\ tm.event = timer[x].event
                /\ tm.queued => timer[x].queued \/ (x[1] = t /\ signal \in signals')
                /\ signals \subseteq signals'
  BY <1>6
<1> SUFFICES ASSUME NEW y \in Timers, timer'[y].queued
             PROVE  \E s \in signals' : s.to = y[1] /\ s.event = timer'[y].event
  BY DEF TimerNotSilenced
<1>8. timer'[y].event = timer[y].event BY <1>1, <1>7
<1>9. CASE timer[y].queued BY <1>7, <1>8, <1>9 DEF TimerNotSilenced
<1>10. CASE ~timer[y].queued
  <2>1. y = x /\ x[1] = t /\ signal \in signals' BY <1>1, <1>7, <1>10
  <2> QED BY <1>5, <1>8, <2>1
<1> QED BY <1>9, <1>10

\* Every step keeps the signals of queued timers under way.
LEMMA NotSilencedStep ==
  ASSUME TimingInv, Ops = {}, TimerNotSilenced, [Next]_timingVars
  PROVE  TimerNotSilenced'
<1> USE DEF TimingInv
<1>1. timer \in [Timers -> [init : BOOLEAN, value : Times, interval : Times,
                            queued : BOOLEAN, event : EventValues]]
  BY DEF TimingTypeOK
<1>2. ASSUME UNCHANGED <<timer, signals>> PROVE TimerNotSilenced'
  BY <1>2 DEF TimerNotSilenced
<1>3. ASSUME NEW current, NEW refused,
             \/ root_handle_usecond_process_timer_match_event(current, refused)
             \/ root_handle_usecond_overflow_event(current, refused)
      PROVE  TimerNotSilenced'
  BY <1>3, ExpireNotSilenced
     DEF root_handle_usecond_process_timer_match_event, root_handle_usecond_overflow_event
<1>4. ASSUME NEW t \in Threads, NEW event \in Events,
             scheduler_timing_process_create_timer(t, event)
      PROVE  TimerNotSilenced'
  <2>1. PICK x \in Timers :
          timer' = [timer EXCEPT ![x] = [NoTimer EXCEPT !.init = TRUE, !.value = NoTime, !.event = event]]
    BY <1>4 DEF scheduler_timing_process_create_timer
  <2>2. signals' = signals BY <1>4 DEF scheduler_timing_process_create_timer
  <2>3. \A y \in Timers : timer'[y].queued => timer'[y] = timer[y]
    BY <1>1, <2>1 DEF NoTimer
  <2> QED BY <2>2, <2>3, SMT DEF TimerNotSilenced
<1>5. ASSUME NEW t \in Threads, NEW x \in Timers, svcall_delete_timer(t, x)
      PROVE  TimerNotSilenced'
  <2>1. timer' = [timer EXCEPT ![x] = NoTimer] /\ signals' = signals
    BY <1>5 DEF svcall_delete_timer
  <2>2. \A y \in Timers : timer'[y].queued => timer'[y] = timer[y] BY <1>1, <2>1 DEF NoTimer
  <2> QED BY <2>1, <2>2 DEF TimerNotSilenced
<1>6. ASSUME NEW t \in Threads, NEW x \in Timers, NEW absolute, NEW delay, NEW interval,
             NEW refused, svcall_settime(t, x, absolute, delay, interval, refused)
      PROVE  TimerNotSilenced'
  BY <1>6, SettimeNotSilenced
<1>7. ASSUME NEW s \in signals, signal_forward_handler(s) PROVE TimerNotSilenced'
  <2> DEFINE f == [s EXCEPT !.forward = FALSE]
  <2>1. signals' = (signals \ {s}) \cup {x \in {f} : TRUE} /\ timer' = timer
    BY <1>7 DEF signal_forward_handler
  <2>2. f.to = s.to /\ f.event = s.event BY <1>7 DEF TimingTypeOK
  <2> HIDE DEF f
  <2>3. f \in signals' /\ \A r \in signals : r \in signals' \/ r = s BY <2>1
  <2> QED BY <2>1, <2>2, <2>3 DEF TimerNotSilenced
<1>8. ASSUME NEW s \in signals, signal_handler(s) PROVE TimerNotSilenced'
  <2>1. /\ signals' = signals \ {s}
        /\ timer' = [x \in Timers |-> IF x[1] = s.to /\ timer[x].event = s.event
                                      THEN [timer[x] EXCEPT !.queued = FALSE] ELSE timer[x]]
    BY <1>8 DEF signal_handler
  <2>2. \A x \in Timers : timer'[x].queued =>
          timer'[x] = timer[x] /\ ~(x[1] = s.to /\ timer[x].event = s.event)
    BY <1>1, <2>1
  <2> QED BY <2>1, <2>2 DEF TimerNotSilenced
<1>9. ASSUME NEW t \in Threads,
             \/ \E seconds \in Sleeps : sleep(t, seconds)
             \/ \E useconds \in Naps : usleep(t, useconds) \/ usleep_Spin(t, useconds)
             \/ usleep_SpinEnds(t)
             \/ \E limit \in Limits : timedwait(t, limit)
             \/ pause(t) \/ Interrupt(t)
      PROVE  TimerNotSilenced'
  <2>1. UNCHANGED <<timer, signals>>
    BY <1>9 DEF sleep, usleep, usleep_Spin, usleep_SpinEnds, timedwait, Blocks, pause,
       Interrupt, timers
  <2> QED BY <1>2, <2>1
<1>10. CASE Tick \/ root_handle_usecond_match_event \/ UNCHANGED timingVars
  <2>1. UNCHANGED <<timer, signals>>
    BY <1>10 DEF Tick, root_handle_usecond_match_event, timingVars, timers
  <2> QED BY <1>2, <2>1
<1> QED BY <1>3, <1>4, <1>5, <1>6, <1>7, <1>8, <1>9, <1>10 DEF Next

-----------------------------------------------------------------------------
(* The theorems                                                            *)

\* A channel is ahead of the counter unless its interrupt is pending in the same period;
\* every limit and every timer has its time in a later period, at the end of this one, or
\* not before its channel (scheduler_timing_root_timedblock, the two match handlers and the
\* overflow handler).
THEOREM TimingInvariant == ASSUME Ops = {} PROVE TimingSpec => []TimingInv
<1>1. Init => TimingInv BY TimingInit
<1>2. TimingInv /\ [Next]_timingVars => TimingInv' BY TimingStep
<1> QED BY <1>1, <1>2, PTL DEF TimingSpec

\* No sleep, timed wait or timer ends before its time, and the timer ends no wait without a
\* limit (root_handle_usecond_match_event, send_and_reload_timer).
THEOREM NeverEarly == ASSUME Ops = {} PROVE TimingSpec => []NothingEarly
<1>1. Init => NothingEarly BY TimingInit
<1>2. TimingInv /\ NothingEarly /\ [Next]_timingVars => NothingEarly'
  BY EarlyStep DEF NothingEarly
<1> QED BY <1>1, <1>2, TimingInvariant, PTL DEF TimingSpec

\* While no interrupt of the clock is pending, the times of all threads that sleep with a
\* limit and of all timers are ahead: no handler and no service call leaves a channel behind
\* one of them (scheduler_timing_root_timedblock, update_tmr_for_process_timer_match).
THEOREM NeverLate == ASSUME Ops = {} PROVE TimingSpec => []NothingLate
<1>1. TimingInv => NothingLate
  <2> SUFFICES ASSUME TimingInv, pending = {} PROVE
        /\ \A t \in Threads : mode[t] = "sleep" => Now < due[t]
        /\ \A x \in Timers : Armed(x) => Now < expiry[x]
    BY DEF NothingLate
  <2>1. wake \in [Threads -> Times] /\ \A x \in Timers : timer[x].value \in Times
    BY DEF TimingInv, TimingTypeOK
  <2>2. "sleep" \in Channels /\ "timer" \in Channels BY DEF Channels
  <2>3. ASSUME NEW t \in Threads, mode[t] = "sleep" PROVE Now < due[t]
    BY <2>1, <2>2, <2>3, AheadIsLater DEF TimingInv, SleepInv
  <2>4. ASSUME NEW x \in Timers, Armed(x) PROVE Now < expiry[x]
    BY <2>1, <2>2, <2>4, AheadIsLater DEF TimingInv, TimerInv
  <2> QED BY <2>3, <2>4
<1> QED BY <1>1, TimingInvariant, PTL

\* A timer that waits for its signal to be handled has a signal under way to its own thread,
\* so that svcall_unqueue_timer lets it send again.
THEOREM NeverSilenced == ASSUME Ops = {} PROVE TimingSpec => []TimerNotSilenced
<1>1. Init => TimerNotSilenced BY TimingInit
<1>2. TimingInv /\ TimerNotSilenced /\ [Next]_timingVars => TimerNotSilenced'
  BY NotSilencedStep
<1> QED BY <1>1, <1>2, TimingInvariant, PTL DEF TimingSpec

\* timer_gettime tells exactly the time that is left, borrowing from the periods included
\* (scheduler_timing_subtract_mcu_timeval).
THEOREM RemainingTimeExact == ASSUME Ops = {} PROVE TimingSpec => []RemainingTime
<1>1. TimingInv => RemainingTime
  <2> SUFFICES ASSUME TimingInv, "overflow" \notin pending, NEW x \in Timers, Armed(x)
               PROVE  Real(svcall_gettime(x)) = IF Now < expiry[x] THEN expiry[x] - Now ELSE 0
    BY DEF RemainingTime
  <2>1. /\ timer[x].value \in Times /\ counter \in Nat /\ usec \in 0..(Period - 1)
    BY DEF TimingInv, TimingTypeOK
  <2>2. timer[x].value.sec >= counter /\ expiry[x] = Real(timer[x].value)
    BY <2>1, SMT DEF TimingInv, TimerInv, Ahead, Times
  <2>3. svcall_gettime(x) = scheduler_timing_subtract_mcu_timeval(timer[x].value, Time(counter, usec))
    BY DEF svcall_gettime, Armed, scheduler_timing_root_get_realtime
  <2>4. Now = counter * Period + usec BY DEF Now, Periods
  <2>5. Real(svcall_gettime(x))
          = IF counter * Period + usec < Real(timer[x].value)
            THEN Real(timer[x].value) - (counter * Period + usec) ELSE 0
    BY <2>1, <2>2, <2>3, SubtractIsReal
  <2> QED BY ONLY <2>2, <2>4, <2>5
<1> QED BY <1>1, TimingInvariant, PTL
=============================================================================

------------------------------- MODULE Timing -------------------------------
(***************************************************************************)
(* Time (scheduler_timing.c, sleep.c, usleep.c, timer.c): a hardware        *)
(* counter of microseconds that starts anew after every period, a count of  *)
(* the periods, and two compare channels, one for the thread to be woken    *)
(* next and one for the process timer that expires next.                    *)
(*                                                                          *)
(* A time is a number of periods (tv_sec) and of ticks (tv_usec).  The      *)
(* counter runs on while an interrupt is pending; a service call and an     *)
(* interrupt handler, which stop the counter while they compare, are one    *)
(* step each.                                                               *)
(***************************************************************************)
EXTENDS Integers

CONSTANTS
  Threads,     \* the threads of a process, but task 0
  Offsets,     \* the numbers of the timers of a thread
  Second,      \* ticks in a second (1000000)
  Seconds,     \* seconds in a period, SOS_SCHEDULER_TIMEVAL_SECONDS
  Nanos,       \* nanoseconds in a tick (1000)
  MinInterval, \* SCHED_USECOND_TMR_MINIMUM_PROCESS_TIMER_INTERVAL
  Never,       \* SCHEDULER_TIMEVAL_SEC_INVALID
  MaxPeriods,  \* bound: how many periods pass
  SpinBelow,   \* microseconds below which usleep waits in a loop
  Fudge,       \* microseconds by which it shortens a longer sleep
  Naps,        \* the microseconds threads call usleep with
  Sleeps,      \* the seconds they call sleep with
  Limits,      \* the absolute times they wait for
  Delays,      \* the delays of timers
  Intervals,   \* the intervals of timers
  Events,      \* the signals of timers, and their values
  Alarms,      \* the timers that exist at first, those of alarm
  Programs,    \* the calls that the threads make, one function for each scenario
  Ops          \* what the programs may do that the code gets wrong: see the guards

Period == Seconds * Second        \* SOS_USECOND_PERIOD
Timers == Threads \X Offsets
Channels == {"sleep", "timer"}
Timespecs == [sec : Nat, nsec : 0..(Second * Nanos - 1)]

ASSUME TimingAssumption ==
  /\ Second \in Nat \ {0} /\ Seconds \in Nat \ {0} /\ Nanos \in Nat \ {0}
  /\ MinInterval \in Nat \ {0}
  /\ MaxPeriods \in Nat /\ Never \in Nat /\ MaxPeriods < Never
  /\ Naps \subseteq 1..Second /\ Sleeps \subseteq Nat \ {0}
  /\ SpinBelow \in Nat /\ Fudge \in Nat /\ Fudge < SpinBelow
  /\ Limits \subseteq Timespecs /\ Delays \subseteq Timespecs /\ Intervals \subseteq Timespecs
  /\ Alarms \subseteq Timers
  /\ Threads \cap Timers = {} /\ MinInterval <= Period

VARIABLES
  usec,      \* the hardware counter
  counter,   \* sched_usecond_counter
  pending,   \* the interrupts that are pending, "overflow" and those of the channels
  oc,        \* the values of the channels
  mode,      \* of a thread: "run", "spin" in usleep, "sleep" with a time limit, "pause" without
  wake,      \* sos_sched_table[t].wake
  spin,      \* the start and the end of the busy wait of a thread
  timer,     \* sos_sched_table[t].timer
  signals,   \* the timers' signals under way, those task 0 is to send first included
  due,       \* when a thread that waits with a limit is to go on, in ticks since the start
  expiry,    \* when a timer that is set is to expire
  program,   \* the calls that each thread makes
  early      \* the threads that went on, and the timers that expired, before they were due

clock == <<usec, counter, pending, oc>>
threads == <<mode, wake, spin, due>>
timers == <<timer, signals, expiry>>
timingVars == <<clock, threads, timers, program, early>>

-----------------------------------------------------------------------------
(* Times                                                                   *)

Time(sec, us) == [sec |-> sec, usec |-> us]
NoTime == Time(Never, 0)

\* A time, and the time now, in ticks since the start: the period that has ended counts,
\* whether or not sched_usecond_counter counts it yet.
Real(tv) == tv.sec * Period + tv.usec
Periods == IF "overflow" \in pending THEN counter + 1 ELSE counter
Now == Periods * Period + usec

\* The ticks in a length of time, a part of a tick counting as a tick.
Ticks(ts) == ts.sec * Second + (ts.nsec + Nanos - 1) \div Nanos

scheduler_timing_root_get_realtime == Time(counter, usec)

scheduler_timing_add_mcu_timeval_NoCarry(a, b) ==
  Time(a.sec + b.sec, (a.usec + b.usec) % Period)

\* The code's ">" leaves a sum of a whole period in the period before.
scheduler_timing_add_mcu_timeval(a, b) ==
  IF a.usec + b.usec > Period
  THEN Time(a.sec + b.sec + 1, a.usec + b.usec - Period)
  ELSE Time(a.sec + b.sec, a.usec + b.usec)

scheduler_timing_convert_timespec(ts) ==
  Time(ts.sec \div Seconds, (ts.sec % Seconds) * Second + (ts.nsec + Nanos - 1) \div Nanos)

\* What the handlers take for a time that has come, in the period c at the tick u.
HasCome(tv, c, u) == tv.sec < c \/ (tv.sec = c /\ tv.usec <= u)

scheduler_timing_subtract_mcu_timeval_NoBorrow(a, b) ==
  IF a.sec >= b.sec /\ a.usec >= b.usec
  THEN Time(a.sec - b.sec, a.usec - b.usec)
  ELSE Time(0, 0)

scheduler_timing_subtract_mcu_timeval(a, b) ==
  IF a.sec > b.sec
  THEN IF a.usec >= b.usec
       THEN Time(a.sec - b.sec, a.usec - b.usec)
       ELSE Time(a.sec - b.sec - 1, Period - (b.usec - a.usec))
  ELSE IF a.sec = b.sec /\ a.usec >= b.usec
       THEN Time(0, a.usec - b.usec)
       ELSE Time(0, 0)

-----------------------------------------------------------------------------
(* The clock                                                               *)

\* Interrupts wait less than a period: no channel is met a second time before the overflow
\* is counted.
Tick ==
  /\ IF usec + 1 < Period
     THEN /\ "overflow" \in pending => \A ch \in Channels : usec + 1 < oc[ch]
          /\ usec' = usec + 1
          /\ pending' = pending \cup {ch \in Channels : oc[ch] = usec + 1}
     ELSE /\ "overflow" \notin pending /\ counter < MaxPeriods
          /\ usec' = 0
          /\ pending' = pending \cup {"overflow"}
  /\ UNCHANGED <<counter, oc, threads, timers, program, early>>

\* The next value of a channel, of the ticks of this period at which something is to
\* happen: the first of them, or a value that the counter never has.
IsNext(value, ticks) ==
  IF ticks = {} THEN value = Period + 1
  ELSE value \in ticks /\ \A u \in ticks : value <= u

-----------------------------------------------------------------------------
(* Sleeping                                                                *)

\* The handler runs on the thread's stack first.
Runs(t) == mode[t] = "run" /\ ~\E s \in signals : s.to = t /\ ~s.forward

Asleep(t) == mode[t] \in {"sleep", "pause"}

\* scheduler_root_assert_active for a set of threads.
Activate(woken) ==
  /\ mode' = [t \in Threads |-> IF t \in woken /\ Asleep(t) THEN "run" ELSE mode[t]]
  /\ wake' = [t \in Threads |-> IF t \in woken THEN NoTime ELSE wake[t]]
  /\ due' = [t \in Threads |-> IF t \in woken /\ Asleep(t) THEN 0 ELSE due[t]]
  /\ UNCHANGED spin

scheduler_timing_root_timedblock_NoCheck(t, abs) ==
  /\ abs.sec >= counter
  /\ wake' = [wake EXCEPT ![t] = abs]
  /\ oc' = IF abs.sec = counter /\ abs.usec < oc["sleep"]
           THEN [oc EXCEPT !["sleep"] = abs.usec] ELSE oc
  /\ mode' = [mode EXCEPT ![t] = "sleep"]

\* A limit that has passed leaves the wake time of the thread behind if it is one of this
\* period.
scheduler_timing_root_timedblock(t, abs) ==
  LET ahead == abs.sec > counter \/ (abs.sec = counter /\ abs.usec > usec)
      sooner == abs.sec = counter /\ abs.usec > usec /\ abs.usec < oc["sleep"]
  IN /\ wake' = IF abs.sec >= counter THEN [wake EXCEPT ![t] = abs] ELSE wake
     /\ oc' = IF sooner THEN [oc EXCEPT !["sleep"] = abs.usec] ELSE oc
     /\ mode' = IF ahead THEN [mode EXCEPT ![t] = "sleep"] ELSE mode

\* A thread makes a call.  None begins while an overflow is pending: one that the end of a
\* period meets reads a time that is a period back ("wrap").
Calls(t, call) ==
  /\ Runs(t) /\ call \in program[t]
  /\ "wrap" \in Ops \/ "overflow" \notin pending

Blocks(t, abs, when) ==
  /\ scheduler_timing_root_timedblock(t, abs)
  /\ due' = IF mode'[t] = "sleep" THEN [due EXCEPT ![t] = when] ELSE due
  /\ UNCHANGED <<usec, counter, pending, spin, timers, program, early>>

\* The seconds beyond the whole periods are taken for microseconds ("long").
sleep(t, seconds) ==
  /\ Calls(t, "sleep")
  /\ "long" \in Ops \/ seconds < Seconds \/ seconds % Seconds = 0
  /\ LET interval == IF seconds < Seconds
                     THEN Time(0, seconds * Second)
                     ELSE Time(seconds \div Seconds, seconds % Seconds)
     IN Blocks(t, scheduler_timing_add_mcu_timeval(scheduler_timing_root_get_realtime, interval),
               Now + seconds * Second)

usleep(t, useconds) ==
  /\ Calls(t, "usleep")
  /\ useconds >= SpinBelow
  /\ Blocks(t, scheduler_timing_add_mcu_timeval(scheduler_timing_root_get_realtime,
                                                Time(0, useconds - Fudge)),
            Now + useconds - Fudge)

\* The timed calls of mutexes, semaphores and conditions.
timedwait(t, limit) ==
  /\ Calls(t, "timedwait")
  /\ Blocks(t, scheduler_timing_convert_timespec(limit), Ticks(limit))

\* The busy wait does not wait at all if its end lies in the next period ("wrap").
usleep_Spin(t, useconds) ==
  /\ Calls(t, "usleep")
  /\ useconds < SpinBelow
  /\ "wrap" \in Ops \/ usec + useconds <= Period
  /\ spin' = [spin EXCEPT ![t] = [start |-> usec,
                                  end |-> IF usec + useconds > Period
                                          THEN usec + useconds - Period
                                          ELSE usec + useconds]]
  /\ mode' = [mode EXCEPT ![t] = "spin"]
  /\ due' = [due EXCEPT ![t] = Now + useconds]
  /\ UNCHANGED <<clock, wake, timers, program, early>>

usleep_SpinEnds(t) ==
  /\ mode[t] = "spin"
  /\ ~(usec <= spin[t].end /\ usec >= spin[t].start)
  /\ mode' = [mode EXCEPT ![t] = "run"]
  /\ early' = early \cup {x \in {t} : Now < due[t]}
  /\ spin' = [spin EXCEPT ![t] = [start |-> 0, end |-> 0]]
  /\ due' = [due EXCEPT ![t] = 0]
  /\ UNCHANGED <<clock, wake, timers, program>>

\* Pauses, joins, device transfers and sem_wait sleep without a wake time of their own: one
\* that a passed limit has left behind ends them ("stale").
pause(t) ==
  /\ Calls(t, "pause")
  /\ "stale" \in Ops \/ wake[t].sec = Never
  /\ mode' = [mode EXCEPT ![t] = "pause"]
  /\ UNCHANGED <<clock, wake, spin, due, timers, program, early>>

\* Anything but the timer that wakes a thread.
Interrupt(t) ==
  /\ Asleep(t)
  /\ Activate({t})
  /\ UNCHANGED <<clock, timers, program, early>>

-----------------------------------------------------------------------------
(* The handlers, which OverflowEvent calls in the period it begins         *)

Woken(c) == {t \in Threads : Asleep(t) /\ HasCome(wake[t], c, usec)}

WakeTicks(c) ==
  {wake[t].usec : t \in {u \in Threads : /\ Asleep(u) /\ u \notin Woken(c)
                                         /\ wake[u].sec = c /\ wake[u].usec < Period}}

\* A pause is not ended by the timer.
WokenEarly(c) == {t \in Woken(c) : mode[t] = "pause" \/ Now < due[t]}

Armed(x) == timer[x].init /\ timer[x].value.sec # Never

Expired(c) == {x \in Timers : timer[x].init /\ HasCome(timer[x].value, c, usec)}

\* A timer whose signal is under way sends no other; a signal for which there is no room on
\* the stack is not sent.
Sends(x, refused) == ~timer[x].queued /\ timer[x].event # "none" /\ x \notin refused

Reloaded(tm, now) ==
  IF tm.interval.sec + tm.interval.usec > 0
  THEN scheduler_timing_add_mcu_timeval(now, tm.interval)
  ELSE Time(Never, tm.value.usec)

\* When a timer that has expired is to expire again.
NextExpiry(tm) == IF Real(tm.interval) > 0 THEN Now + Real(tm.interval) ELSE 0

send_and_reload_timer_Always(x, now, refused) ==
  [timer[x] EXCEPT !.queued = @ \/ timer[x].event # "none",
                   !.value = Reloaded(timer[x], now)]

send_and_reload_timer(x, now, refused) ==
  [timer[x] EXCEPT !.queued = @ \/ Sends(x, refused),
                   !.value = Reloaded(timer[x], now)]

\* The signal for a thread that runs is put on the stack of task 0, which sends it on.
Signal(x, current) == [to |-> x[1], event |-> timer[x].event, forward |-> x[1] = current]

TimerTicks(c) ==
  {timer'[x].value.usec : x \in {y \in Timers : /\ timer'[y].init /\ timer'[y].value.sec = c
                                                /\ timer'[y].value.usec < Period}}

TimersExpire(c, current, refused) ==
  /\ timer' = [x \in Timers |-> IF x \in Expired(c)
                                THEN send_and_reload_timer(x, Time(c, usec), refused)
                                ELSE timer[x]]
  /\ signals' = signals \cup {Signal(x, current) : x \in {y \in Expired(c) : Sends(y, refused)}}
  /\ expiry' = [x \in Timers |-> IF x \in Expired(c) THEN NextExpiry(timer[x]) ELSE expiry[x]]

\* The threads that signals sent from a handler wake.
Signalled(c, current, refused) ==
  {x[1] : x \in {y \in Expired(c) : Sends(y, refused) /\ y[1] # current}}

root_handle_usecond_match_event ==
  /\ "sleep" \in pending
  /\ pending' = pending \ {"sleep"}
  /\ Activate(Woken(counter))
  /\ early' = early \cup WokenEarly(counter)
  /\ \E value \in WakeTicks(counter) \cup {Period + 1} :
        IsNext(value, WakeTicks(counter)) /\ oc' = [oc EXCEPT !["sleep"] = value]
  /\ UNCHANGED <<usec, counter, timers, program>>

root_handle_usecond_process_timer_match_event(current, refused) ==
  /\ "timer" \in pending
  /\ pending' = pending \ {"timer"}
  /\ TimersExpire(counter, current, refused)
  /\ Activate(Signalled(counter, current, refused))
  /\ early' = early \cup {x \in Expired(counter) : Now < expiry[x]}
  /\ \E value \in TimerTicks(counter) \cup {Period + 1} :
        IsNext(value, TimerTicks(counter)) /\ oc' = [oc EXCEPT !["timer"] = value]
  /\ UNCHANGED <<usec, counter, program>>

root_handle_usecond_overflow_event(current, refused) ==
  /\ "overflow" \in pending
  /\ pending' = pending \ {"overflow"}
  /\ counter' = counter + 1
  /\ TimersExpire(counter', current, refused)
  /\ Activate(Woken(counter') \cup Signalled(counter', current, refused))
  /\ early' = early \cup WokenEarly(counter') \cup {x \in Expired(counter') : Now < expiry[x]}
  /\ \E s \in WakeTicks(counter') \cup {Period + 1}, v \in TimerTicks(counter') \cup {Period + 1} :
        /\ IsNext(s, WakeTicks(counter')) /\ IsNext(v, TimerTicks(counter'))
        /\ oc' = [ch \in Channels |-> IF ch = "sleep" THEN s ELSE v]
  /\ UNCHANGED <<usec, program>>

\* What executes when an interrupt comes: a thread, or task 0.
Current == {t \in Threads : mode[t] \in {"run", "spin"}} \cup {0}

-----------------------------------------------------------------------------
(* Process timers                                                          *)

NoTimer == [init |-> FALSE, value |-> Time(0, 0), interval |-> Time(0, 0),
            queued |-> FALSE, event |-> "none"]

\* The slots are tried one service call at a time, so that any free one may be found.
scheduler_timing_process_create_timer(t, event) ==
  /\ Calls(t, "create")
  /\ \E x \in Timers :
        /\ ~timer[x].init
        /\ timer' = [timer EXCEPT ![x] = [NoTimer EXCEPT !.init = TRUE, !.value = NoTime,
                                                         !.event = event]]
  /\ UNCHANGED <<clock, threads, signals, expiry, program, early>>

svcall_delete_timer(t, x) ==
  /\ Calls(t, "delete")
  /\ timer[x].init
  /\ timer' = [timer EXCEPT ![x] = NoTimer]
  /\ expiry' = [expiry EXCEPT ![x] = 0]
  /\ UNCHANGED <<clock, threads, signals, program, early>>

\* Nothing is done about a time in an earlier period ("past"); a time in a later one is
\* taken to have come ("far").
HasComeForSet(value) ==
  /\ value.sec # Never /\ value.sec >= counter
  /\ ~(value.sec = counter /\ value.usec > usec)

\* The channel when a timer is set to a time of this period.
Sooner(value) ==
  IF value.sec = counter /\ value.usec > usec /\ value.usec < oc["timer"]
  THEN [oc EXCEPT !["timer"] = value.usec] ELSE oc

\* The signal goes to the caller, whoever's timer it is ("foreign").  With an interval the
\* timer is looked at again; a call does not return, and is not a step of the model, if the
\* interval leads into the next period.
update_tmr_for_process_timer_match(t, x, set, refused) ==
  LET next == Reloaded(set, scheduler_timing_root_get_realtime)
      sends == ~set.queued /\ set.event # "none" /\ x \notin refused
  IN IF HasComeForSet(set.value)
     THEN /\ "foreign" \in Ops \/ x[1] = t
          /\ ~HasComeForSet(next)
          /\ timer' = [timer EXCEPT ![x] = [set EXCEPT !.queued = @ \/ sends, !.value = next]]
          /\ signals' = IF sends
                        THEN signals \cup {[to |-> t, event |-> set.event, forward |-> TRUE]}
                        ELSE signals
          /\ oc' = Sooner(next)
     ELSE /\ timer' = [timer EXCEPT ![x] = set]
          /\ oc' = Sooner(set.value)
          /\ UNCHANGED signals

AtLeast(interval) ==
  IF interval.sec = 0 /\ interval.usec > 0 /\ interval.usec < MinInterval
  THEN Time(0, MinInterval) ELSE interval

\* timer_settime, and with the timer of the first thread alarm and ualarm.
svcall_settime(t, x, absolute, delay, interval, refused) ==
  LET given == scheduler_timing_convert_timespec(delay)
      value == IF absolute THEN given
               ELSE IF given = Time(0, 0) THEN NoTime
               ELSE scheduler_timing_add_mcu_timeval(scheduler_timing_root_get_realtime, given)
      set == [timer[x] EXCEPT !.value = value,
                              !.interval = AtLeast(scheduler_timing_convert_timespec(interval))]
      when == IF absolute THEN Ticks(delay) ELSE Now + Ticks(delay)
  IN /\ Calls(t, IF absolute THEN "abstime" ELSE "settime")
     /\ timer[x].init
     /\ "past" \in Ops \/ value.sec >= counter
     /\ "far" \in Ops \/ value.sec <= counter \/ value.sec = Never
     /\ update_tmr_for_process_timer_match(t, x, set, refused)
     /\ expiry' = [expiry EXCEPT ![x] = IF HasComeForSet(value) THEN NextExpiry(set)
                                        ELSE IF value.sec = Never THEN 0 ELSE when]
     /\ early' = early \cup {y \in {x} : HasComeForSet(value) /\ Now < when}
     /\ UNCHANGED <<usec, counter, pending, threads, program>>

\* svcall_gettime: what timer_gettime tells of a timer that is set.
svcall_gettime(x) ==
  IF timer[x].value.sec = Never THEN Time(0, 0)
  ELSE scheduler_timing_subtract_mcu_timeval(timer[x].value, scheduler_timing_root_get_realtime)

\* Task 0 sends a signal on, or finds no room for it on the thread's stack ("stack").
signal_forward_handler(s) ==
  /\ s.forward
  /\ \E room \in IF "stack" \in Ops THEN BOOLEAN ELSE {TRUE} :
        /\ signals' = (signals \ {s}) \cup {x \in {[s EXCEPT !.forward = FALSE]} : room}
        /\ Activate({x \in {s.to} : room})
  /\ UNCHANGED <<clock, timer, expiry, program, early>>

\* The signal's handler begins: svcall_unqueue_timer.
signal_handler(s) ==
  /\ ~s.forward /\ mode[s.to] \in {"run", "spin"}
  /\ signals' = signals \ {s}
  /\ timer' = [x \in Timers |-> IF x[1] = s.to /\ timer[x].event = s.event
                                THEN [timer[x] EXCEPT !.queued = FALSE] ELSE timer[x]]
  /\ UNCHANGED <<clock, threads, expiry, program, early>>

-----------------------------------------------------------------------------

Init ==
  /\ usec = 0 /\ counter = 0 /\ pending = {}
  /\ oc = [ch \in Channels |-> Period + 1]
  /\ mode = [t \in Threads |-> "run"]
  /\ wake = [t \in Threads |-> NoTime]
  /\ spin = [t \in Threads |-> [start |-> 0, end |-> 0]]
  /\ timer = [x \in Timers |-> IF x \in Alarms
                               THEN [NoTimer EXCEPT !.init = TRUE, !.value = NoTime,
                                                    !.event = "alarm"]
                               ELSE NoTimer]
  /\ signals = {}
  /\ due = [t \in Threads |-> 0]
  /\ expiry = [x \in Timers |-> 0]
  /\ program \in Programs
  /\ early = {}

Next ==
  \/ Tick
  \/ root_handle_usecond_match_event
  \/ \E current \in Current : \E refused \in SUBSET Expired(counter) :
        root_handle_usecond_process_timer_match_event(current, refused)
  \/ \E current \in Current : \E refused \in SUBSET Expired(counter + 1) :
        root_handle_usecond_overflow_event(current, refused)
  \/ \E t \in Threads :
        \/ \E seconds \in Sleeps : sleep(t, seconds)
        \/ \E useconds \in Naps : usleep(t, useconds) \/ usleep_Spin(t, useconds)
        \/ usleep_SpinEnds(t)
        \/ \E limit \in Limits : timedwait(t, limit)
        \/ pause(t)
        \/ Interrupt(t)
        \/ \E event \in Events : scheduler_timing_process_create_timer(t, event)
        \/ \E x \in Timers :
              \/ svcall_delete_timer(t, x)
              \/ \E interval \in Intervals : \E refused \in SUBSET {x} :
                    \/ \E delay \in Delays : svcall_settime(t, x, FALSE, delay, interval, refused)
                    \/ \E limit \in Limits : svcall_settime(t, x, TRUE, limit, interval, refused)
  \/ \E s \in signals : signal_forward_handler(s) \/ signal_handler(s)

TimingSpec == Init /\ [][Next]_timingVars

-----------------------------------------------------------------------------
(* Properties                                                              *)

\* No thread returns from sleep, usleep or a timed wait by time, and no timer sends its
\* signal, before the time it was asked for, whatever ends of periods lie between; the
\* timer wakes no thread that waits without a limit (root_handle_usecond_match_event,
\* send_and_reload_timer).
NothingEarly == early = {}

\* Whenever no interrupt of the clock is pending, every thread that sleeps with a limit and
\* every timer that is set has its time ahead: the channels are never left behind the
\* earliest of them (scheduler_timing_root_timedblock, update_tmr_for_process_timer_match
\* and the handlers, which set a channel while the counter runs).
NothingLate ==
  pending = {} =>
    /\ \A t \in Threads : mode[t] = "sleep" => Now < due[t]
    /\ \A x \in Timers : Armed(x) => Now < expiry[x]

\* A timer marked as queued has its signal under way, to the thread whose handler takes the
\* mark away: otherwise the timer never sends a signal again (send_and_reload_timer,
\* svcall_unqueue_timer).
TimerNotSilenced ==
  \A x \in Timers : timer[x].queued =>
    \E s \in signals : s.to = x[1] /\ s.event = timer[x].event

\* timer_gettime tells exactly the time that is left (svcall_gettime,
\* scheduler_timing_subtract_mcu_timeval).
RemainingTime ==
  "overflow" \notin pending =>
    \A x \in Timers : Armed(x) =>
      Real(svcall_gettime(x)) = IF Now < expiry[x] THEN expiry[x] - Now ELSE 0
=============================================================================

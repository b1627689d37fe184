-------------------------------- MODULE Rate --------------------------------
(***************************************************************************)
(* Rate::sleep() of rate.cpp, which paces the IMU publisher.  It counts in *)
(* unsigned words; its sleep_for() takes the duration as a signed count of *)
(* milliseconds.                                                           *)
(***************************************************************************)
EXTENDS Integers, Sequences

CONSTANTS
  HalfWord,  \* half of the values of a word (2^63 in the code)
  HzValues,  \* the values of the rate (2^16 in the code)
  Second,    \* the milliseconds of a second (1000 in the code)
  Fps,       \* the rates clients ask for
  MaxTime,   \* bound: the time a run lasts
  MaxJumps,  \* bound: the times the system clock is set
  MaxSleeps  \* bound: the calls of sleep()

ASSUME RateAssumption ==
  /\ HalfWord \in Nat \ {0} /\ HzValues \in Nat \ {0}
  /\ Second \in Nat \ {0}
  /\ Fps \in SUBSET Nat
  /\ MaxTime \in Nat /\ MaxJumps \in Nat /\ MaxSleeps \in Nat
  /\ 3 * MaxTime + (MaxSleeps + 2) * Second < HalfWord

VARIABLES
  cycle,     \* expected_cycle_time_
  start_,    \* the time the current cycle is reckoned from
  clock,     \* the system clock
  now,       \* the time that has really passed
  jumps,     \* how often the clock was set
  slept,     \* how long the last sleep() slept
  returns    \* when each sleep() returned

vars == <<cycle, start_, clock, now, jumps, slept, returns>>

Word(x) == x % (2 * HalfWord)

\* Mutant: sleep_for() takes the word as it is.
Unconverted(word) == word

\* std::chrono::milliseconds(uint64_t): the word as a signed number.
Milliseconds(word) ==
  IF word >= HalfWord THEN word - 2 * HalfWord ELSE word

\* Mutant: the cycle in microseconds.
CycleTimeInMicroseconds(fps) ==
  LET hz == fps % HzValues IN IF hz = 0 THEN 0 ELSE (1000 * Second) \div hz

\* 1000 / hz of the rate as a uint16_t; the division by zero yields zero on
\* the arm64 of the build.
CycleTime(fps) ==
  LET hz == fps % HzValues IN IF hz = 0 THEN 0 ELSE Second \div hz

TypeOK ==
  /\ cycle \in 0 .. Second
  /\ start_ \in 0 .. 2 * HalfWord - 1
  /\ clock \in 0 .. 2 * HalfWord - 1
  /\ now \in Nat
  /\ jumps \in 0 .. MaxJumps
  /\ slept \in Nat
  /\ returns \in Seq(Nat)

Init ==
  /\ \E fps \in Fps : cycle = CycleTime(fps)
  /\ clock = MaxTime
  /\ start_ = clock
  /\ now = 0
  /\ jumps = 0
  /\ slept = 0
  /\ returns = <<>>

\* The publisher works, or is kept from running, for d.
Work(d) ==
  /\ now + d <= MaxTime
  /\ now' = now + d
  /\ clock' = clock + d
  /\ UNCHANGED <<cycle, start_, jumps, slept, returns>>

\* The system clock is set forward or back.
SetClock(to) ==
  /\ jumps < MaxJumps
  /\ jumps' = jumps + 1
  /\ clock' = to
  /\ UNCHANGED <<cycle, start_, now, slept, returns>>

\* sleep() returns after d.
Sleeps(d) ==
  /\ Len(returns) < MaxSleeps
  /\ slept' = d
  /\ now' = now + d
  /\ clock' = clock + d
  /\ returns' = Append(returns, now + d)
  /\ UNCHANGED <<cycle, jumps>>

End == IF clock < start_ THEN clock + cycle ELSE start_ + cycle

\* Mutant: each cycle is reckoned from the moment sleep() is called.
SleepFromNow ==
  /\ start_' = clock
  /\ LET d == start_ + cycle - clock IN Sleeps(IF d > 0 THEN d ELSE 0)

\* Rate::sleep(): the duration is unsigned, so that only a duration of zero
\* is taken for an overrun.  The clock is then at the end of the cycle, never
\* a cycle beyond it, so that start_ is never moved up to the clock and a late
\* publisher catches up with what it missed.
SleepNative ==
  /\ LET end == Word(End)
         sleep_duration == Word(end - clock)
         d == Milliseconds(sleep_duration)
     IN /\ start_' = IF sleep_duration = 0 /\ clock > Word(end + cycle)
                     THEN clock ELSE end
        /\ Sleeps(IF d > 0 THEN d ELSE 0)

Environment ==
  \/ \E d \in 1 .. MaxTime : Work(d)
  \/ \E to \in 0 .. 2 * MaxTime : SetClock(to)

Next == SleepNative \/ Environment

Spec == Init /\ [][Next]_vars

-----------------------------------------------------------------------------
\* No underflow ever makes the publisher sleep longer than one cycle, however
\* late it is and wherever the system clock is set.
SleepAtMostOneCycle == slept <= cycle

\* While the clock is not set, no sleep() returns before its turn: n returns
\* take at least n cycles, however many are made up for at once after a stall.
NeverEarly == jumps = 0 => cycle * Len(returns) <= now
=============================================================================

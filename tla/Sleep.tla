-------------------------------- MODULE Sleep --------------------------------
(***************************************************************************)
(* usleep and sleep of lib/clock.c: a process polls get_ticks until the    *)
(* time has passed that it was asked for, in the arithmetic of 32 bits.    *)
(* The clock goes on between the polls, for as long as the scheduler keeps *)
(* the process from running.                                               *)
(***************************************************************************)
EXTENDS Integers

CONSTANTS
    WORD,           \* the numbers an unsigned int has
    PerSecond,      \* milliseconds in a second, 1000
    CLOCK_HZ,
    Asked,          \* the arguments of usleep and sleep
    Start,          \* the ticks at which a call may come
    Slice,          \* the most ticks between two polls
    MaxElapsed      \* the clock is followed for so long

ASSUME SleepAssumption ==
    /\ {WORD, PerSecond, CLOCK_HZ, Slice} \subseteq Nat \ {0}
    /\ Start \subseteq 0..WORD - 1 /\ MaxElapsed \in Nat
    /\ PerSecond % CLOCK_HZ = 0 /\ WORD % 2 = 0

VARIABLES
    sleepcall,      \* [fn, n]
    ticks,          \* the counter of the kernel
    t,              \* the local variable of usleep
    sleeping,       \* "called", "polling" or "returned"
    elapsed,        \* the ticks since the call
    waited          \* the ticks since the last poll

sleepVars == <<sleepcall, ticks, t, sleeping, elapsed, waited>>

\* A number as an int and as an unsigned int.
Int32(x) == ((x + WORD \div 2) % WORD) - WORD \div 2
Unsigned(x) == x % WORD

\* sleep multiplies its seconds into an int.
millisecond == IF sleepcall.fn = "sleep" THEN Int32(sleepcall.n * PerSecond) ELSE sleepcall.n

SleepInit ==
    /\ sleepcall \in [fn : {"usleep", "sleep"}, n : Asked]
    /\ ticks \in Start
    /\ t = 0 /\ sleeping = "called" /\ elapsed = 0 /\ waited = 0

clock_handler ==
    /\ sleeping = "polling" /\ waited < Slice /\ elapsed < MaxElapsed
    /\ ticks' = (ticks + 1) % WORD
    /\ elapsed' = elapsed + 1 /\ waited' = waited + 1
    /\ UNCHANGED <<sleepcall, t, sleeping>>

SleepStarts ==
    /\ sleeping = "called"
    /\ t' = Int32(ticks) /\ sleeping' = "polling"
    /\ UNCHANGED <<sleepcall, ticks, elapsed, waited>>

\* Variant: the ticks themselves, not those since the call.
SinceStart == Unsigned(Unsigned(ticks) * PerSecond) \div CLOCK_HZ

\* get_ticks is unsigned, and so are the difference and the comparison.
Passed == Unsigned(Unsigned(ticks - t) * PerSecond) \div CLOCK_HZ

Polls ==
    /\ sleeping = "polling"
    /\ sleeping' = IF Passed < Unsigned(millisecond) THEN "polling" ELSE "returned"
    /\ waited' = 0
    /\ UNCHANGED <<sleepcall, ticks, t, elapsed>>

SleepNext == clock_handler \/ SleepStarts \/ Polls

-----------------------------------------------------------------------------
(* Properties.                                                             *)

\* The milliseconds that were asked for, and the ticks they take.
Due == IF sleepcall.fn = "sleep" THEN sleepcall.n * PerSecond ELSE sleepcall.n
DueTicks == (Due * CLOCK_HZ + PerSecond - 1) \div PerSecond

\* The times for which the product in Passed does not wrap before a poll has
\* seen that they are over (lib/clock.c:18); in the code they end at twelve
\* hours, and what is longer may sleep for ever.
InRange == Due >= 0 /\ (DueTicks + Slice) * PerSecond < WORD

\* Whatever the ticks are when it begins, at the wrap of the counter too, a
\* process sleeps as long as it asked for, and no longer than the scheduler
\* keeps it waiting (lib/clock.c:15-24).
SleepsInTime ==
    InRange =>
        /\ sleeping = "returned" => elapsed >= DueTicks
        /\ elapsed =< DueTicks + Slice
=============================================================================

------------------------------- MODULE Clock --------------------------------
(***************************************************************************)
(* The system time (arch/i386/arch/time.c) over the i8253 counter          *)
(* (arch/i386/arch/devices/i8253.c).  The counter runs in mode 2: it       *)
(* counts down, raises an interrupt at the end and starts again from the   *)
(* value loaded last.  An interrupt that is due while the kernel runs      *)
(* waits for the return to user code (c.pending).                          *)
(*                                                                         *)
(*   c.clock      clock, the time when the counter was loaded last         *)
(*   c.delay      delay, what the kernel asked for and has not passed yet  *)
(*   c.last_load  last_load                                                *)
(*   c.counter    the value of the counter                                 *)
(*   c.handler    alarm_handler # NULL                                     *)
(*                                                                         *)
(* Times are numbers of counter ticks; TimeArith is about time_t.          *)
(***************************************************************************)
EXTENDS Integers

CONSTANTS
    MIN_INTERVAL,   \* timer->min_interval (COUNT_MIN)
    MAX_INTERVAL    \* timer->max_interval (COUNT_MAX)

ASSUME ClockAssumption ==
    /\ MIN_INTERVAL \in Nat \ {0} /\ MAX_INTERVAL \in Nat
    /\ MIN_INTERVAL <= MAX_INTERVAL

threshold == MIN_INTERVAL \div 2

ClockState == [clock : Nat, delay : Int, last_load : Nat, counter : Nat,
               handler : BOOLEAN, pending : BOOLEAN]

arch_timer_init ==
    [clock |-> 0, delay |-> MAX_INTERVAL, last_load |-> MAX_INTERVAL,
     counter |-> MAX_INTERVAL, handler |-> FALSE, pending |-> FALSE]

arch_get_time(c) == c.clock + c.last_load - c.counter

\* Load the counter.
set_interval(c, n) == [c EXCEPT !.last_load = n, !.counter = n]

at_least(n, m) == IF n < m THEN m ELSE n
at_most(n, m) == IF n > m THEN m ELSE n

\* Ask for an interrupt after d: what has passed is added to clock, and the
\* counter is loaded with d or with as much of it as it can measure.
arch_timer_set(c, d) ==
    LET delay == at_least(d, MIN_INTERVAL)
        g     == [c EXCEPT !.clock = arch_get_time(c), !.delay = delay, !.handler = TRUE]
    IN  set_interval(g, at_most(delay, MAX_INTERVAL))

\* The interrupt ends the delay the kernel asked for, or nearly.
delay_passed(c) == c.delay - c.last_load <= threshold

\* The interrupt handler, up to the call of the kernel's.
arch_timer_handler(c) ==
    LET rest == c.delay - c.last_load
        g    == [c EXCEPT !.clock = @ + c.last_load, !.pending = FALSE]
    IN  IF delay_passed(c)
        THEN set_interval([g EXCEPT !.delay = MAX_INTERVAL, !.handler = FALSE], MAX_INTERVAL)
        ELSE set_interval([g EXCEPT !.delay = rest], at_most(rest, MAX_INTERVAL))

\* One tick of the counter.
count_down(c) ==
    IF c.counter > 1 THEN [c EXCEPT !.counter = @ - 1]
    ELSE [c EXCEPT !.counter = c.last_load, !.pending = TRUE]
=============================================================================

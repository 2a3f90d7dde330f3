----------------------------- MODULE TimeArith ------------------------------
(***************************************************************************)
(* Arithmetic on time_t (lib/types.h), a number of seconds and one of      *)
(* nanoseconds, against arithmetic on numbers.  Clock and Alarms compute   *)
(* with numbers: the theorems of ServicesProofs show what that leaves out. *)
(*                                                                         *)
(* time_add carries when the sum of the nanoseconds exceeds 10^9, not when *)
(* it reaches it.  A time can therefore be written in two ways, with 10^9  *)
(* nanoseconds or with one more second and none.  Addition and subtraction *)
(* are exact all the same, for both ways; time_cmp takes the two for       *)
(* different times, but never orders two times the wrong way round.        *)
(***************************************************************************)
EXTENDS Integers

Second == 1000000000

\* The times the kernel works with, and those that are written in one way only.
time_t == [sec : Int, nsec : 0 .. Second]
Normal == [sec : Int, nsec : 0 .. Second - 1]

\* The number of nanoseconds of a time.
value(a) == a.sec * Second + a.nsec

time_add(a, b) ==
    LET nsec == a.nsec + b.nsec IN
    IF nsec > Second THEN [sec |-> a.sec + b.sec + 1, nsec |-> nsec - Second]
    ELSE [sec |-> a.sec + b.sec, nsec |-> nsec]

time_sub(a, b) ==
    IF a.nsec >= b.nsec THEN [sec |-> a.sec - b.sec, nsec |-> a.nsec - b.nsec]
    ELSE [sec |-> a.sec - (b.sec + 1), nsec |-> a.nsec + (Second - b.nsec)]

time_cmp(a, b) ==
    IF a.sec # b.sec THEN (IF a.sec < b.sec THEN -1 ELSE 1)
    ELSE IF a.nsec # b.nsec THEN (IF a.nsec < b.nsec THEN -1 ELSE 1)
    ELSE 0
=============================================================================

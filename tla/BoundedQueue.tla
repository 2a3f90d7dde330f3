---------------------------- MODULE BoundedQueue ----------------------------
(***************************************************************************)
(* What a driver's buffer promises: elements leave in the order they came, *)
(* none twice, and never more than Capacity are kept.  Elements are read   *)
(* at the front and come at the end.  When the queue is full, KeepNew says *)
(* whether a new element costs exactly the oldest one, or is refused.      *)
(***************************************************************************)
EXTENDS Integers, Sequences

CONSTANTS Element, Capacity, KeepNew

VARIABLE queue

Init == queue = <<>>

\* The first n elements have left.
Without(s, n) == SubSeq(s, n + 1, Len(s))

\* Queue s after x has come.
After(s, x) ==
    IF Len(s) < Capacity THEN Append(s, x)
    ELSE IF KeepNew THEN Without(Append(s, x), 1) ELSE s

Leave == \E n \in 1..Len(queue) : queue' = Without(queue, n)

Come(x) == queue' = After(queue, x)

\* One comes, and then one leaves, in one step.
ComeAndLeave(x) == queue' = Without(After(queue, x), 1)

Next == Leave \/ \E x \in Element : Come(x) \/ ComeAndLeave(x)

Spec == Init /\ [][Next]_queue
=============================================================================

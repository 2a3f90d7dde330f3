---------------------------- MODULE SemaphoreAbs ----------------------------
(***************************************************************************)
(* What the kernel's semaphores promise, without a scheduler: each has a   *)
(* value, and the threads that wait, in the order in which they are served.*)
(***************************************************************************)
EXTENDS Integers, Sequences

CONSTANTS
    Caller,     \* the threads that may wait
    Object,     \* the semaphores
    InitValue   \* the values a semaphore may start with

VARIABLES
    exists,     \* the semaphores between sem_init and sem_destroy
    value,      \* how many waits succeed at once
    waiting     \* the blocked threads, first come first

Init ==
    /\ exists = {}
    /\ value = [o \in Object |-> 0]
    /\ waiting = [o \in Object |-> <<>>]

Create(o) ==
    /\ o \notin exists /\ exists' = exists \cup {o}
    /\ \E v \in InitValue : value' = [value EXCEPT ![o] = v]
    /\ UNCHANGED waiting

Take(o) ==
    /\ o \in exists /\ value[o] > 0
    /\ value' = [value EXCEPT ![o] = @ - 1]
    /\ UNCHANGED <<exists, waiting>>

\* A thread blocks only when nothing can be taken.
Block(o) ==
    /\ o \in exists /\ value[o] <= 0
    /\ \E t \in Caller : waiting' = [waiting EXCEPT ![o] = Append(@, t)]
    /\ UNCHANGED <<exists, value>>

\* A post counts up only when nobody waits ...
Give(o) ==
    /\ o \in exists /\ waiting[o] = <<>>
    /\ value' = [value EXCEPT ![o] = @ + 1]
    /\ UNCHANGED <<exists, waiting>>

\* ... otherwise, like a destroy, it lets the first waiting thread go on.
Release(o) ==
    /\ o \in exists /\ waiting[o] # <<>>
    /\ waiting' = [waiting EXCEPT ![o] = Tail(@)]
    /\ UNCHANGED <<exists, value>>

\* A semaphore is freed only when nobody waits any more.
Free(o) ==
    /\ o \in exists /\ waiting[o] = <<>>
    /\ exists' = exists \ {o}
    /\ UNCHANGED <<value, waiting>>

Next ==
    \E o \in Object :
        Create(o) \/ Take(o) \/ Block(o) \/ Give(o) \/ Release(o) \/ Free(o)

Spec == Init /\ [][Next]_<<exists, value, waiting>>
=============================================================================

------------------------------ MODULE Workers -------------------------------
(***************************************************************************)
(* The threads of a program that use a synchronisation mechanism of the    *)
(* kernel: a fixed set of workers at fixed priorities and the idle thread. *)
(* Only the active thread makes system calls.  Between two calls a worker  *)
(* can sleep on an alarm of its own; the timer interrupt that wakes it is  *)
(* what preempts the others, so with enough sleeping any worker can run    *)
(* after any other.                                                        *)
(***************************************************************************)
EXTENDS KThreads, FiniteSets

VARIABLE k      \* scheduling state (KThreads)

\* The queue of the alarm worker t sleeps on.
AlarmQ(t) == <<"alarm", t>>
AlarmQs == {AlarmQ(t) : t \in Worker}

ASSUME WorkersAssumption == AlarmQs \subseteq WaitQ

\* All workers sleep, at any priorities; the idle thread runs.
InitWorkers ==
    \E prio \in [Thread -> Prio] :
       /\ prio[Idle] = 0
       /\ k = [state  |-> [t \in Thread |-> IF t = Idle THEN "ACTIVE" ELSE "WAIT"],
               prio   |-> prio,
               queue  |-> [t \in Thread |-> IF t = Idle THEN NULL ELSE AlarmQ(t)],
               q      |-> [x \in Queue |-> IF x \in AlarmQs THEN <<x[2]>> ELSE <<>>],
               mask   |-> {},
               active |-> Idle]

\* Worker t calls wait_for_alarm on an alarm that has not expired ...
sleep(t) ==
    /\ k.active = t /\ t # Idle
    /\ k' = kthreads_schedule(kthread_enqueue(k, t, AlarmQ(t)))

\* ... and the timer interrupt finds it expired.
wake(t) ==
    /\ k.q[AlarmQ(t)] # <<>>
    /\ k' = kthreads_schedule(kthreadq_release(k, AlarmQ(t)))
=============================================================================

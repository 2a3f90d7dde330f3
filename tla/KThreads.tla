------------------------------ MODULE KThreads ------------------------------
(***************************************************************************)
(* The scheduling core of kernel/thread.c: thread states, the queues a     *)
(* thread descriptor can be linked in, the multi-level ready list and its  *)
(* bit mask, and the choice of the active thread.                          *)
(*                                                                         *)
(* The kernel runs on one processor with interrupts disabled, so a handler *)
(* is a composition of these functions applied to the kernel state k:      *)
(* every operator takes k and returns the k the C function leaves behind.  *)
(* The modules that model system calls write k' = kthreads_schedule(       *)
(* kthread_enqueue(k, t, q)) where the code makes those two calls.         *)
(*                                                                         *)
(*   k.state[t]   kthread->state                                           *)
(*   k.prio[t]    kthread->prio                                            *)
(*   k.queue[t]   kthread->queue, the queue t was last linked in, or NULL  *)
(*   k.q[x]       the threads linked in queue x, first to last             *)
(*   k.mask       rdy_mask, as the set of priorities whose bit is set      *)
(*   k.active     active_thread                                            *)
(*                                                                         *)
(* All threads are SCHED_FIFO here: ksched_activate_thread and             *)
(* ksched_deactivate_thread find no secondary scheduler and do nothing     *)
(* that this state shows.                                                  *)
(***************************************************************************)
EXTENDS Integers, Sequences, SequencesExt

CONSTANTS
    Thread,         \* addresses of thread descriptors
    Idle,           \* the descriptor of the idle thread
    PRIO_LEVELS,    \* number of priority levels (64 in the build)
    WaitQ,          \* the queues threads block in (join, semaphore, ...)
    NULL            \* the null pointer

Prio == 0 .. PRIO_LEVELS - 1

Worker == Thread \ {Idle}

\* ready_q[p]; the queues of blocked threads have other names.
ReadyQ(p) == <<"ready", p>>
ReadyQs == {ReadyQ(p) : p \in Prio}
Queue == ReadyQs \cup WaitQ

ThreadState == {"ACTIVE", "READY", "WAIT", "PASSIVE"}

ASSUME KThreadsAssumption ==
    /\ Idle \in Thread
    /\ PRIO_LEVELS \in Nat \ {0}
    /\ WaitQ \cap ReadyQs = {}
    /\ NULL \notin Queue
    /\ NULL \notin Thread

KState == [state : [Thread -> ThreadState], prio : [Thread -> Prio],
           queue : [Thread -> Queue \cup {NULL}], q : [Queue -> Seq(Thread)],
           mask : SUBSET Prio, active : Thread]

-----------------------------------------------------------------------------
\* The ready list

\* The highest priority whose mask bit is set, -1 when none is.
kthread_ready_list_highest(k) == IF k.mask = {} THEN -1 ELSE Max(k.mask)

\* Link t first in the ready queue of its priority, as round robin asks for.  In
\* the place of kthread_move_to_ready a mutant.
kthread_move_to_ready_first(k, t) ==
    LET r == ReadyQ(k.prio[t]) IN
    [k EXCEPT !.state[t] = "READY", !.queue[t] = r,
              !.q[r] = <<t>> \o @, !.mask = @ \cup {k.prio[t]}]

\* Link t last in the ready queue of its priority.
kthread_move_to_ready(k, t) ==
    LET r == ReadyQ(k.prio[t]) IN
    [k EXCEPT !.state[t] = "READY", !.queue[t] = r,
              !.q[r] = Append(@, t), !.mask = @ \cup {k.prio[t]}]

\* Mutant: the mask bit is never cleared.
clear_never(k, p) == k

\* Clear the mask bit of priority p when its ready queue has become empty.
clear_if_empty(k, p) ==
    IF k.q[ReadyQ(p)] = <<>> THEN [k EXCEPT !.mask = @ \ {p}] ELSE k

-----------------------------------------------------------------------------
\* Queues of blocked threads

\* Mutant: the last to block is the first in the queue.
kthread_enqueue_first(k, t, x) ==
    [k EXCEPT !.state[t] = "WAIT", !.queue[t] = x, !.q[x] = <<t>> \o @]

\* Block t in queue x.
kthread_enqueue(k, t, x) ==
    [k EXCEPT !.state[t] = "WAIT", !.queue[t] = x, !.q[x] = Append(@, t)]

\* Release the first thread of queue x, if there is one.
kthreadq_release(k, x) ==
    IF k.q[x] = <<>> THEN k
    ELSE kthread_move_to_ready([k EXCEPT !.q[x] = Tail(@)], Head(k.q[x]))

\* Unlink t from the middle of the queue it is in.
kthreadq_remove(k, t) == [k EXCEPT !.q[k.queue[t]] = RemoveFirst(@, t)]

-----------------------------------------------------------------------------
\* Choice of the active thread

\* The kernel's own assertion on entry: something can be run.
schedulable(k) ==
    k.state[k.active] = "ACTIVE" \/ kthread_ready_list_highest(k) >= 0

\* Mutant: the state of the thread that becomes active is not set.
activate_unmarked(k, p) ==
    LET next == Head(k.q[ReadyQ(p)]) IN
    [clear_if_empty([k EXCEPT !.q[ReadyQ(p)] = Tail(@)], p)
        EXCEPT !.active = next, !.queue[next] = NULL]

\* Make the first thread of the ready queue of priority p active.
activate_first(k, p) ==
    LET next == Head(k.q[ReadyQ(p)]) IN
    [clear_if_empty([k EXCEPT !.q[ReadyQ(p)] = Tail(@)], p)
        EXCEPT !.active = next, !.state[next] = "ACTIVE", !.queue[next] = NULL]

\* Mutant: the active thread is never preempted.
kthreads_schedule_cooperative(k) ==
    IF k.state[k.active] = "ACTIVE" THEN k
    ELSE activate_first(k, kthread_ready_list_highest(k))

\* Mutant: the active thread gives way to others of its priority.
kthreads_schedule_yield(k) ==
    LET highest == kthread_ready_list_highest(k)
        curr    == k.active
    IN  IF k.state[curr] = "ACTIVE" /\ highest < k.prio[curr] THEN k
        ELSE activate_first(IF k.state[curr] = "ACTIVE"
                            THEN kthread_move_to_ready(k, curr) ELSE k,
                            highest)

\* Keep the active thread unless it is no longer active or a ready thread has
\* a higher priority; a preempted thread goes last in its ready queue.
kthreads_schedule(k) ==
    LET highest == kthread_ready_list_highest(k)
        curr    == k.active
    IN  IF k.state[curr] = "ACTIVE" /\ ~(highest > k.prio[curr]) THEN k
        ELSE activate_first(IF k.state[curr] = "ACTIVE"
                            THEN kthread_move_to_ready(k, curr) ELSE k,
                            highest)

-----------------------------------------------------------------------------
\* The part of kthread_cancel that takes a thread out of scheduling.  Only the
\* active thread's state becomes PASSIVE; a ready or blocked thread is unlinked
\* and its state field is left as it was.
kthread_unlink(k, t) ==
    CASE k.state[t] = "READY" -> clear_if_empty(kthreadq_remove(k, t), k.prio[t])
      [] k.state[t] = "WAIT" -> kthreadq_remove(k, t)
      [] k.state[t] = "ACTIVE" -> [k EXCEPT !.state[t] = "PASSIVE"]
      [] OTHER -> k

-----------------------------------------------------------------------------
\* Consistency of the scheduling state, over the threads in Live (the ones that
\* exist and have not ended).

\* A thread is linked only in the queue its descriptor names, in the state that
\* belongs to that queue, and only once.
LinkedOnce(k, Live) ==
    \A x \in Queue :
        /\ \A i \in 1..Len(k.q[x]) :
              /\ k.q[x][i] \in Live
              /\ k.queue[k.q[x][i]] = x
              /\ k.state[k.q[x][i]] = IF x \in ReadyQs THEN "READY" ELSE "WAIT"
              /\ x \in ReadyQs => x = ReadyQ(k.prio[k.q[x][i]])
        /\ \A i, j \in 1..Len(k.q[x]) : k.q[x][i] = k.q[x][j] => i = j

\* No live thread is lost: it is the active one or linked in its queue.
NoneLost(k, Live) ==
    \A t \in Live :
        \/ k.state[t] = "ACTIVE" /\ t = k.active
        \/ /\ k.state[t] \in {"READY", "WAIT"}
           /\ k.queue[t] \in Queue
           /\ \E i \in 1..Len(k.q[k.queue[t]]) : k.q[k.queue[t]][i] = t

\* The mask bit of a priority is set exactly while a thread is ready there.
MaskExact(k) == \A p \in Prio : p \in k.mask <=> k.q[ReadyQ(p)] # <<>>

\* No ready thread has a higher priority than the active one.
HighestRuns(k) ==
    /\ k.state[k.active] = "ACTIVE"
    /\ \A p \in k.mask : p <= k.prio[k.active]
=============================================================================

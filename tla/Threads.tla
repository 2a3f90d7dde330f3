------------------------------ MODULE Threads -------------------------------
(***************************************************************************)
(* Life of the threads of one process (kernel/thread.c): creation, exit,   *)
(* waiting for a thread, cancelling, and the reference count that decides  *)
(* when a descriptor is freed and its address can be reused.               *)
(*                                                                         *)
(* A system call runs to completion with interrupts disabled and only the  *)
(* active thread makes calls, so a call is one step.  The one loop over    *)
(* threads, kthreadq_release_all on the join queue of an ending thread, is *)
(* one step per iteration; while it runs (releasing # NULL) nothing else   *)
(* can happen.                                                             *)
(*                                                                         *)
(* User code is present where it matters: wait_for_thread (programs/api/   *)
(* thread.c) repeats the system call while it returns -E_RETRY, so between *)
(* its wake-up and the repeated call a joiner is an ordinary ready thread  *)
(* and other threads run.                                                  *)
(***************************************************************************)
EXTENDS KThreads, FiniteSets

CONSTANTS
    Main,       \* descriptor of the first thread of the process
    PrioArgs,   \* the priorities programs pass to create_thread
    MaxId,      \* bound: identifiers handed out before the counter would wrap
    Uses        \* what programs do with handles, a subset of AllUses

\* cancel:       threads are cancelled
\* sharedJoin:   several threads wait for the same thread
\* joinAny:      a thread also waits for threads older than itself, or itself
\* cancelJoiner: a thread that waits for another is cancelled
\* cancelJoined: a thread that is waited for is cancelled ...
\* cancelStale:  ... even when its links go stale in between (goes_stale below)
\* cancelEnded:  a thread that has ended, but is still waited for, is cancelled
AllUses == {"cancel", "sharedJoin", "joinAny", "cancelJoiner", "cancelJoined",
            "cancelStale", "cancelEnded"}

\* kthread->join_queue, and the queue of the alarm a thread sleeps on.
JoinQ(t) == <<"join", t>>
AlarmQ(t) == <<"alarm", t>>

ASSUME ThreadsAssumption ==
    /\ Main \in Thread /\ Main # Idle
    /\ PrioArgs \subseteq Int
    /\ MaxId \in Nat /\ MaxId >= 2
    /\ NULL \notin Thread \X (1..MaxId)
    /\ Uses \subseteq AllUses
    /\ WaitQ = {JoinQ(t) : t \in Thread} \cup {AlarmQ(t) : t \in Thread}

VARIABLES
    k,              \* scheduling state (KThreads)
    id,             \* kthread->id, 0 while the descriptor is free
    ref_cnt,        \* kthread->ref_cnt
    last_id,        \* last identifier given by k_new_unique_id
    thr_count,      \* proc->thr_count of the user process
    handles,        \* thread_t values in user memory: <<descriptor, id>>
    waiting_for,    \* the handle a thread is inside wait_for_thread for
    releasing,      \* thread whose join queue the kernel is releasing
    again,          \* pending second kthread_cancel: <<thread, links it keeps>>
    ended           \* history: ended threads whose descriptor is not free

vars == <<k, id, ref_cnt, last_id, thr_count, handles, waiting_for,
          releasing, again, ended>>

Allocated == {t \in Thread : id[t] # 0}
Live == Allocated \ ended

\* Threads that still have to return from wait_for_thread on t.
Pending(t) == {j \in Thread : waiting_for[j] = <<t, id[t]>>}

-----------------------------------------------------------------------------
\* After kthreads_init and kthread_start_process: the idle thread at priority 0
\* and the first thread of the process, already chosen to run.
Init ==
    /\ \E p \in Prio \ {0} :
       k = [state  |-> [t \in Thread |-> CASE t = Main -> "ACTIVE"
                                           [] t = Idle -> "READY"
                                           [] OTHER -> "PASSIVE"],
            prio   |-> [t \in Thread |-> IF t = Main THEN p ELSE 0],
            queue  |-> [t \in Thread |-> IF t = Idle THEN ReadyQ(0) ELSE NULL],
            q      |-> [x \in Queue |-> IF x = ReadyQ(0) THEN <<Idle>> ELSE <<>>],
            mask   |-> {0},
            active |-> Main]
    /\ id = [t \in Thread |-> CASE t = Idle -> 1 [] t = Main -> 2 [] OTHER -> 0]
    /\ ref_cnt = [t \in Thread |-> IF t \in {Idle, Main} THEN 1 ELSE 0]
    /\ last_id = 2
    /\ thr_count = 1
    /\ handles = {}
    /\ waiting_for = [t \in Thread |-> NULL]
    /\ releasing = NULL
    /\ again = NULL
    /\ ended = {}

\* The kernel has returned to user code; thread t is about to make a system call.
InUser == releasing = NULL /\ again = NULL
Running(t) == InUser /\ k.active = t /\ t # Idle

-----------------------------------------------------------------------------
\* kthread_create: the requested priority is forced into the valid range.
clamp_prio(p) == IF p < 0 THEN 0
                 ELSE IF p >= PRIO_LEVELS THEN PRIO_LEVELS - 1 ELSE p

\* Mutant: the handle is filled in before the descriptor gets its identifier.
new_handle_early(s) == <<s, id[s]>>

\* The handle the system call stores for the program: address and identifier.
new_handle(s) == <<s, id'[s]>>

\* A new descriptor at the free address s, with one reference; it joins the
\* process and is linked ready.
kthread_create(s, p) ==
    /\ id[s] = 0 /\ last_id < MaxId
    /\ last_id' = last_id + 1
    /\ id' = [id EXCEPT ![s] = last_id + 1]
    /\ ref_cnt' = [ref_cnt EXCEPT ![s] = 1]
    /\ thr_count' = thr_count + 1
    /\ k' = kthreads_schedule(
                kthread_move_to_ready([k EXCEPT !.prio[s] = clamp_prio(p)], s))

\* The program may keep the handle, or drop it (keep = FALSE).
sys__create_thread(t, s, p, keep) ==
    /\ Running(t) /\ waiting_for[t] = NULL
    /\ kthread_create(s, p)
    /\ handles' = IF keep THEN handles \cup {new_handle(s)} ELSE handles
    /\ UNCHANGED <<waiting_for, releasing, again, ended>>

\* A thread learns its own handle.
sys__thread_self(t) ==
    /\ Running(t) /\ waiting_for[t] = NULL
    /\ handles' = handles \cup {<<t, id[t]>>}
    /\ UNCHANGED <<k, id, ref_cnt, last_id, thr_count, waiting_for,
                   releasing, again, ended>>

-----------------------------------------------------------------------------
\* Mutant: a thread somebody waits for does not leave its process.
kthread_cancel_uncounted(s) ==
    /\ ref_cnt' = [ref_cnt EXCEPT ![s] = @ - 1]
    /\ waiting_for' = [waiting_for EXCEPT ![s] = NULL]
    /\ IF ref_cnt[s] = 1
       THEN /\ thr_count' = thr_count - 1
            /\ id' = [id EXCEPT ![s] = 0]
            /\ k' = kthreads_schedule(kthread_unlink(k, s))
            /\ UNCHANGED <<releasing, ended>>
       ELSE /\ k' = kthread_unlink(k, s)
            /\ releasing' = s
            /\ ended' = ended \cup {s}
            /\ UNCHANGED <<id, thr_count>>
    /\ UNCHANGED <<last_id, handles>>

\* The end of thread s, by its own exit or by a cancel: unlink it, drop its
\* reference and its place in the process; free the descriptor if nobody waits
\* for it, otherwise start to release those who do.
kthread_cancel(s) ==
    /\ ref_cnt' = [ref_cnt EXCEPT ![s] = @ - 1]
    /\ thr_count' = thr_count - 1
    /\ waiting_for' = [waiting_for EXCEPT ![s] = NULL]
    /\ IF ref_cnt[s] = 1
       THEN /\ id' = [id EXCEPT ![s] = 0]
            /\ k' = kthreads_schedule(kthread_unlink(k, s))
            /\ ended' = ended \ {s}
            /\ UNCHANGED releasing
       ELSE /\ k' = kthread_unlink(k, s)
            /\ releasing' = s
            /\ ended' = ended \cup {s}
            /\ UNCHANGED id
    /\ UNCHANGED <<last_id, handles>>

\* One turn of kthreadq_release_all in kthread_cancel.
release_next ==
    /\ releasing # NULL /\ k.q[JoinQ(releasing)] # <<>>
    /\ k' = kthreadq_release(k, JoinQ(releasing))
    /\ UNCHANGED <<id, ref_cnt, last_id, thr_count, handles, waiting_for,
                   releasing, again, ended>>

\* Mutant: only the first of the threads that wait is released.
release_one ==
    /\ releasing # NULL
    /\ k' = kthreads_schedule(kthreadq_release(k, JoinQ(releasing)))
    /\ releasing' = NULL
    /\ UNCHANGED <<id, ref_cnt, last_id, thr_count, handles, waiting_for,
                   again, ended>>

\* Mutant: the threads that wait are not released.
release_none ==
    /\ releasing # NULL
    /\ k' = kthreads_schedule(k)
    /\ releasing' = NULL
    /\ UNCHANGED <<id, ref_cnt, last_id, thr_count, handles, waiting_for,
                   again, ended>>

\* The loop has ended; kthread_cancel calls kthreads_schedule and returns.  The
\* second kthreads_schedule, in sys__thread_exit, changes nothing any more.
release_done ==
    /\ releasing # NULL /\ k.q[JoinQ(releasing)] = <<>>
    /\ k' = kthreads_schedule(k)
    /\ releasing' = NULL
    /\ UNCHANGED <<id, ref_cnt, last_id, thr_count, handles, waiting_for,
                   again, ended>>

sys__thread_exit(t) ==
    /\ Running(t) /\ waiting_for[t] = NULL
    /\ kthread_cancel(t)
    /\ UNCHANGED again

\* sys__cancel_thread ends with EXIT ( kthread_cancel ( ... ) ).  The macro uses
\* its argument twice (SET_ERRNO and RETURN), so kthread_cancel runs twice on
\* the same descriptor; its state field still says READY or WAIT the second
\* time, even in a descriptor the first run has freed.

\* Nobody waits for s.  The second run finds s unlinked, between unchanged
\* neighbours, but counts the thread and the reference down once more.
cancel_unjoined(s) ==
    /\ k.q[JoinQ(s)] = <<>>
    /\ ref_cnt' = [ref_cnt EXCEPT ![s] = @ - 2]
    /\ thr_count' = thr_count - 2
    /\ waiting_for' = [waiting_for EXCEPT ![s] = NULL]
    /\ IF ref_cnt[s] \in {1, 2}
       THEN id' = [id EXCEPT ![s] = 0] /\ UNCHANGED ended
       ELSE ended' = ended \cup {s} /\ UNCHANGED id
    /\ k' = kthreads_schedule(kthread_unlink(k, s))
    /\ UNCHANGED <<last_id, handles, releasing, again>>

\* The thread d places behind s in its queue, NULL if there is none.
neighbour(s, d) ==
    LET q == k.q[k.queue[s]]
        i == SelectInSeq(q, LAMBDA u : u = s)
    IN  IF i + d \in DOMAIN q THEN q[i + d] ELSE NULL

\* The first run changes what stands around s: it appends threads behind the
\* neighbour of one that is last in its ready queue, and moves the neighbours of
\* one that waits for itself among others.  Elsewhere they stay neighbours.
goes_stale(s) ==
    LET q == k.q[k.queue[s]] IN
    Len(q) > 1 /\ (k.queue[s] = JoinQ(s) \/ (k.state[s] = "READY" /\ Last(q) = s))

\* s is waited for: the first run releases those who wait ...
cancel_joined(s) ==
    /\ "cancelJoined" \in Uses /\ k.q[JoinQ(s)] # <<>>
    /\ "cancelStale" \in Uses \/ ~goes_stale(s)
    /\ kthread_cancel(s)
    /\ again' = IF goes_stale(s) THEN <<s, neighbour(s, -1), neighbour(s, 1)>>
                ELSE <<s, NULL, NULL>>

\* A thread that has ended without being PASSIVE is cancelled again, in two more
\* runs.  Since it was unlinked the threads its links name have moved anywhere.
cancel_ended(s) ==
    /\ "cancelEnded" \in Uses
    /\ kthread_cancel(s)
    /\ \E v, w \in Thread \cup {NULL} : again' = <<s, v, w>>

linked(t) == k.queue[t] # NULL /\ t \in Range(k.q[k.queue[t]])
place(t) == SelectInSeq(k.q[k.queue[t]], LAMBDA u : u = t)

\* The threads met from w on; an active one still names those of its ready queue.
from(w) ==
    IF linked(w) THEN LET q == k.q[k.queue[w]] IN SubSeq(q, place(w), Len(q))
    ELSE <<w>> \o k.q[ReadyQ(k.prio[w])]

\* s taken out between v and w once more: w follows v, what was behind v is cut
\* off.  (list->last and the links back, which still name threads that were cut off,
\* and a list that becomes a ring are not modelled.)
relink(v, w) ==
    IF v = NULL \/ ~linked(v) THEN k
    ELSE [k EXCEPT !.q[k.queue[v]] = SubSeq(@, 1, place(v)) \o (IF w = NULL THEN <<>> ELSE from(w))]

\* ... and the second one unlinks s again, and frees the descriptor if the count
\* reaches 0 now.
cancel_again ==
    /\ again # NULL /\ releasing = NULL
    /\ LET s == again[1] IN
       /\ ref_cnt' = [ref_cnt EXCEPT ![s] = @ - 1]
       /\ IF ref_cnt[s] = 1
          THEN id' = [id EXCEPT ![s] = 0] /\ ended' = ended \ {s}
          ELSE UNCHANGED <<id, ended>>
       /\ k' = relink(again[2], again[3])
    /\ thr_count' = thr_count - 1
    /\ again' = NULL
    /\ UNCHANGED <<last_id, handles, waiting_for, releasing>>

\* Only a ready or blocked thread is cancelled, or one that was.
sys__cancel_thread(t, h) ==
    /\ "cancel" \in Uses
    /\ Running(t) /\ waiting_for[t] = NULL
    /\ LET s == h[1] IN
       /\ id[s] = h[2] /\ k.state[s] \in {"READY", "WAIT"}
       /\ "cancelJoiner" \in Uses \/ waiting_for[s] = NULL
       /\ IF s \in ended THEN cancel_ended(s) ELSE cancel_unjoined(s) \/ cancel_joined(s)

-----------------------------------------------------------------------------
\* The system call behind wait_for_thread.  At h[1] may now be another thread,
\* or none, or the caller does not want to block: the call returns at once.
join_return(t, h, wait) ==
    /\ id[h[1]] # h[2] \/ (k.state[h[1]] # "PASSIVE" /\ ~wait)
    /\ waiting_for' = [waiting_for EXCEPT ![t] = NULL]
    /\ UNCHANGED <<k, id, ref_cnt>>

\* Mutant: the caller blocks without taking a reference.
join_block_uncounted(t, h, wait) ==
    /\ id[h[1]] = h[2] /\ k.state[h[1]] # "PASSIVE" /\ wait
    /\ k' = kthreads_schedule(kthread_enqueue(k, t, JoinQ(h[1])))
    /\ waiting_for' = [waiting_for EXCEPT ![t] = h]
    /\ UNCHANGED <<id, ref_cnt>>

\* A thread that is not PASSIVE is waited for.
join_block(t, h, wait) ==
    /\ id[h[1]] = h[2] /\ k.state[h[1]] # "PASSIVE" /\ wait
    /\ ref_cnt' = [ref_cnt EXCEPT ![h[1]] = @ + 1]
    /\ k' = kthreads_schedule(kthread_enqueue(k, t, JoinQ(h[1])))
    /\ waiting_for' = [waiting_for EXCEPT ![t] = h]
    /\ UNCHANGED id

\* From a PASSIVE one the exit status is collected; the last reference frees the
\* descriptor.
join_collect(t, h) ==
    /\ id[h[1]] = h[2] /\ k.state[h[1]] = "PASSIVE"
    /\ ref_cnt' = [ref_cnt EXCEPT ![h[1]] = @ - 1]
    /\ id' = IF ref_cnt[h[1]] = 1 THEN [id EXCEPT ![h[1]] = 0] ELSE id
    /\ waiting_for' = [waiting_for EXCEPT ![t] = NULL]
    /\ UNCHANGED k

sys__wait_for_thread(t, h, wait) ==
    join_return(t, h, wait) \/ join_block(t, h, wait) \/ join_collect(t, h)

\* wait_for_thread makes the first call ...
wait_for_thread(t, h, wait) ==
    /\ Running(t) /\ waiting_for[t] = NULL
    /\ "sharedJoin" \in Uses \/ \A j \in Thread : waiting_for[j] # h
    /\ "joinAny" \in Uses \/ id[t] < h[2]
    /\ sys__wait_for_thread(t, h, wait)
    /\ ended' = {s \in ended : id'[s] # 0}
    /\ UNCHANGED <<last_id, thr_count, handles, releasing, again>>

\* ... and repeats it after a wake-up.
wait_for_thread_retry(t) ==
    /\ Running(t) /\ waiting_for[t] # NULL
    /\ sys__wait_for_thread(t, waiting_for[t], TRUE)
    /\ ended' = {s \in ended : id'[s] # 0}
    /\ UNCHANGED <<last_id, thr_count, handles, releasing, again>>

-----------------------------------------------------------------------------
\* Timer interrupts are what preempts a thread between two of its calls.  A
\* thread sleeps on an alarm of its own ...
sys__wait_for_alarm(t) ==
    /\ Running(t) /\ waiting_for[t] = NULL
    /\ k' = kthreads_schedule(kthread_enqueue(k, t, AlarmQ(t)))
    /\ UNCHANGED <<id, ref_cnt, last_id, thr_count, handles, waiting_for,
                   releasing, again, ended>>

\* ... until it expires, at any time while user code or the idle thread runs.
k_timer_interrupt(t) ==
    /\ InUser /\ k.q[AlarmQ(t)] # <<>>
    /\ k' = kthreads_schedule(kthreadq_release(k, AlarmQ(t)))
    /\ UNCHANGED <<id, ref_cnt, last_id, thr_count, handles, waiting_for,
                   releasing, again, ended>>

\* The idle thread stops the processor until the next interrupt.
idle_thread == InUser /\ k.active = Idle /\ UNCHANGED vars

-----------------------------------------------------------------------------
Next ==
    \/ \E t, s \in Thread, p \in PrioArgs, keep \in BOOLEAN :
            sys__create_thread(t, s, p, keep)
    \/ \E t \in Thread : sys__thread_self(t)
    \/ \E t \in Thread : sys__thread_exit(t)
    \/ \E t \in Thread, h \in handles : sys__cancel_thread(t, h)
    \/ \E t \in Thread, h \in handles, wait \in BOOLEAN : wait_for_thread(t, h, wait)
    \/ \E t \in Thread : wait_for_thread_retry(t)
    \/ release_next
    \/ release_done
    \/ cancel_again
    \/ \E t \in Thread : sys__wait_for_alarm(t)
    \/ \E t \in Thread : k_timer_interrupt(t)
    \/ idle_thread

Spec == Init /\ [][Next]_vars

\* The processor executes kernel code and the retry loop of wait_for_thread, the
\* timer fires, and a program that gets to run again and again returns from its
\* start function in the end.
Fairness ==
    /\ WF_vars(release_next \/ release_done \/ cancel_again)
    /\ \A t \in Thread : WF_vars(wait_for_thread_retry(t))
    /\ \A t \in Thread : WF_vars(k_timer_interrupt(t))
    /\ \A t \in Thread : SF_vars(sys__thread_exit(t))

FairSpec == Spec /\ Fairness

-----------------------------------------------------------------------------
\* Type invariant.
TypeOK ==
    /\ k \in KState
    /\ id \in [Thread -> 0..MaxId]
    /\ ref_cnt \in [Thread -> Int]
    /\ last_id \in 2..MaxId
    /\ thr_count \in Int
    /\ handles \subseteq Thread \X (1..MaxId)
    /\ waiting_for \in [Thread -> (Thread \X (1..MaxId)) \cup {NULL}]
    /\ releasing \in Thread \cup {NULL}
    /\ again \in (Thread \X (Thread \cup {NULL}) \X (Thread \cup {NULL})) \cup {NULL}
    /\ ended \subseteq Thread

\* Every thread that exists and has not ended is the active one or is linked in
\* exactly one queue, once, in the state its descriptor shows, and rdy_mask
\* tells which ready queues hold threads (kthread_enqueue: "thread must not be
\* in any list").
QueuesConsistent ==
    LinkedOnce(k, Live) /\ NoneLost(k, Live) /\ MaskExact(k)

\* When the kernel returns to user code no ready thread has a higher priority
\* than the one that runs; kthreads_schedule follows every wake-up.
ActiveIsHighest == InUser => HighestRuns(k) /\ k.active \in Live

\* The assertion at the top of kthreads_schedule can never stop the kernel: the
\* idle thread never blocks and never ends.
AlwaysSchedulable == schedulable(k) /\ k.state[Idle] \in {"ACTIVE", "READY"}

\* thr_count counts the threads of the process that have not ended.
ThrCountExact == thr_count = Cardinality(Live \ {Idle})

\* The process is removed with its last thread, never under a thread that still
\* runs ("last (non-kernel) thread - remove process").
ProcessKept == thr_count > 0 \/ Live = {Idle}

\* A descriptor is freed neither too early nor never: a thread that has not
\* ended holds one reference besides those who wait for it, and the descriptor
\* of one that has ended is kept only while a waiter still has to collect.
RefCntExact ==
    \A t \in Allocated :
        IF k.state[t] = "PASSIVE"
        THEN 1 <= ref_cnt[t] /\ ref_cnt[t] <= Cardinality(Pending(t))
        ELSE ref_cnt[t] = 1 + Cardinality(Pending(t))

\* Whoever waits for a thread that has ended is woken: its join queue is empty
\* when the kernel returns to user code.
NoWaitForEnded ==
    InUser => \A t \in ended : k.q[JoinQ(t)] = <<>>

\* A thread that has blocked in wait_for_thread finds the descriptor, with the
\* exit status, when it repeats the call ("some thread still must collect its
\* status").
StatusKept ==
    \A j \in Thread : waiting_for[j] # NULL =>
        id[waiting_for[j][1]] = waiting_for[j][2]

\* Queues are first in, first out: whoever is behind a thread that was already
\* in the queue came later, and a thread that leaves a queue without being
\* cancelled leaves from the front (list_append, list_remove of FIRST).
QueuesFIFO ==
    [][\A x \in Queue :
         LET old == k.q[x]
             new == k'.q[x]
         IN  /\ \A i, j \in DOMAIN new : i < j /\ new[j] \in Range(old) =>
                    \E m, n \in DOMAIN old : m < n /\ old[m] = new[i] /\ old[n] = new[j]
             /\ \A i, j \in DOMAIN old :
                    i < j /\ old[j] \notin Range(new) /\ old[j] \in Live' =>
                        old[i] \notin Range(new)]_vars

\* Every wait_for_thread returns, when programs wait only for younger threads
\* and no waiting or waited-for thread is cancelled.
JoinReturns ==
    \A t \in Thread : waiting_for[t] # NULL ~> waiting_for[t] = NULL
=============================================================================

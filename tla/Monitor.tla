------------------------------ MODULE Monitor -------------------------------
(***************************************************************************)
(* Monitors and their condition queues (kernel/monitor.c).  Programs hold  *)
(* monitor_t and monitor_q variables that point to kernel objects.  A      *)
(* thread that waits on a condition queue remembers the address of its     *)
(* monitor in kthread->qdata until it is signalled.                        *)
(*                                                                         *)
(* Every call is one step except the loops over blocked threads (broadcast *)
(* and the two destroy calls), one step per thread; while such a loop runs *)
(* (kcall # NULL) nothing else happens.  A call that fails (a variable     *)
(* without an object, a caller that is not the owner, no memory) changes   *)
(* nothing but errno, which this module leaves out.                        *)
(***************************************************************************)
EXTENDS Workers

CONSTANTS
    Mon, Cond,      \* monitor_t and monitor_q variables of the program
    KMon, KCond,    \* heap addresses of kernel monitors and condition queues
    Uses            \* what programs do, a subset of AllUses

\* destroyMonitor: a monitor is destroyed while threads wait on its conditions
\* destroyCond:    a condition queue is destroyed while threads wait in it
AllUses == {"destroyMonitor", "destroyCond"}

MonQ(o) == <<"monitor", o>>
CondQ(x) == <<"condition", x>>

\* The calls with a loop, with the thread that made them and what they work on.
Call == {"signal", "broadcast", "signalled", "destroy", "queue_destroy"}
            \X Worker \X (Mon \cup Cond)

ASSUME MonitorAssumption ==
    /\ NULL \notin KMon \cup KCond \cup Call
    /\ Uses \subseteq AllUses
    /\ WaitQ = AlarmQs \cup {MonQ(o) : o \in KMon} \cup {CondQ(x) : x \in KCond}

VARIABLES
    mptr, cptr,     \* monitor->ptr, queue->ptr
    mons, conds,    \* the kernel monitors and condition queues that exist
    lock, owner,    \* kmonitor->lock, kmonitor->owner
    qdata,          \* kthread->qdata
    kcall,          \* the call whose loop the kernel is in: <<name, thread, variable>>
    claim           \* history: monitors a thread has entered, or asked to, and not left

mvars == <<mptr, cptr, mons, conds, lock, owner, qdata, kcall, claim>>
vars == <<k, mvars>>

Init ==
    /\ InitWorkers
    /\ mptr = [m \in Mon |-> NULL] /\ cptr = [c \in Cond |-> NULL]
    /\ mons = {} /\ conds = {}
    /\ lock = [o \in KMon |-> FALSE] /\ owner = [o \in KMon |-> NULL]
    /\ qdata = [t \in Thread |-> NULL]
    /\ kcall = NULL
    /\ claim = [t \in Thread |-> {}]

InUser == kcall = NULL
Running(t) == InUser /\ k.active = t /\ t # Idle

\* Thread t waits for monitor o, on a condition or at its entrance.
on_condition(t, o) == qdata[t] = o /\ \E x \in KCond : k.queue[t] = CondQ(x)
waits_for(t, o) == k.queue[t] = MonQ(o) \/ on_condition(t, o)

-----------------------------------------------------------------------------
\* Creation

sys__monitor_init(t, m, o) ==
    /\ Running(t) /\ o \notin mons
    /\ mons' = mons \cup {o} /\ mptr' = [mptr EXCEPT ![m] = o]
    /\ lock' = [lock EXCEPT ![o] = FALSE] /\ owner' = [owner EXCEPT ![o] = NULL]
    /\ k' = [k EXCEPT !.q[MonQ(o)] = <<>>]
    /\ UNCHANGED <<cptr, conds, qdata, kcall, claim>>

sys__monitor_queue_init(t, c, x) ==
    /\ Running(t) /\ x \notin conds
    /\ conds' = conds \cup {x} /\ cptr' = [cptr EXCEPT ![c] = x]
    /\ k' = [k EXCEPT !.q[CondQ(x)] = <<>>]
    /\ UNCHANGED <<mptr, mons, lock, owner, qdata, kcall, claim>>

-----------------------------------------------------------------------------
\* Entering and leaving

\* Take an open monitor, or wait at the entrance of a locked one.
sys__monitor_lock(t, m) ==
    /\ Running(t) /\ mptr[m] # NULL
    /\ LET o == mptr[m] IN
       /\ claim' = [claim EXCEPT ![t] = @ \cup {o}]
       /\ IF ~lock[o]
          THEN /\ lock' = [lock EXCEPT ![o] = TRUE]
               /\ owner' = [owner EXCEPT ![o] = t]
               /\ UNCHANGED k
          ELSE /\ k' = kthreads_schedule(kthread_enqueue(k, t, MonQ(o)))
               /\ UNCHANGED <<lock, owner>>
    /\ UNCHANGED <<mptr, cptr, mons, conds, qdata, kcall>>

\* Mutant: the monitor is opened although the first waiting thread is let in.
pass_on_open(n, o) ==
    /\ owner' = [owner EXCEPT ![o] = IF n.q[MonQ(o)] = <<>> THEN NULL ELSE Head(n.q[MonQ(o)])]
    /\ lock' = [lock EXCEPT ![o] = FALSE]
    /\ k' = kthreads_schedule(kthreadq_release(n, MonQ(o)))

\* Mutant: the thread that is let in is not made the owner.
pass_on_unowned(n, o) ==
    /\ owner' = [owner EXCEPT ![o] = IF n.q[MonQ(o)] = <<>> THEN NULL ELSE @]
    /\ lock' = [lock EXCEPT ![o] = n.q[MonQ(o)] # <<>>]
    /\ k' = kthreads_schedule(kthreadq_release(n, MonQ(o)))

\* Monitor o is passed to the first thread at its entrance, or opened; then the
\* thread to run is chosen (no change when an unlock released nobody).
pass_on(n, o) ==
    /\ owner' = [owner EXCEPT ![o] = IF n.q[MonQ(o)] = <<>> THEN NULL ELSE Head(n.q[MonQ(o)])]
    /\ lock' = [lock EXCEPT ![o] = n.q[MonQ(o)] # <<>>]
    /\ k' = kthreads_schedule(kthreadq_release(n, MonQ(o)))

sys__monitor_unlock(t, m) ==
    /\ Running(t) /\ mptr[m] # NULL /\ owner[mptr[m]] = t
    /\ pass_on(k, mptr[m])
    /\ claim' = [claim EXCEPT ![t] = @ \ {mptr[m]}]
    /\ UNCHANGED <<mptr, cptr, mons, conds, qdata, kcall>>

\* Block on a condition and leave the monitor in the same step.
sys__monitor_wait(t, m, c) ==
    /\ Running(t) /\ mptr[m] # NULL /\ cptr[c] # NULL /\ owner[mptr[m]] = t
    /\ qdata' = [qdata EXCEPT ![t] = mptr[m]]
    /\ pass_on(kthread_enqueue(k, t, CondQ(cptr[c])), mptr[m])
    /\ UNCHANGED <<mptr, cptr, mons, conds, kcall, claim>>

-----------------------------------------------------------------------------
\* Signalling

\* Mutant: a signalled thread runs at once although the monitor is locked.
release_first_barging(x) ==
    LET o == qdata[Head(k.q[x])] IN
    /\ lock' = [lock EXCEPT ![o] = TRUE]
    /\ owner' = IF lock[o] THEN owner ELSE [owner EXCEPT ![o] = Head(k.q[x])]
    /\ k' = kthreadq_release(k, x)

\* Mutant: a thread that moves to the entrance stays linked in the condition.
release_first_linked(x) ==
    LET t == Head(k.q[x])
        o == qdata[t]
    IN  IF ~lock[o]
        THEN /\ lock' = [lock EXCEPT ![o] = TRUE]
             /\ owner' = [owner EXCEPT ![o] = t]
             /\ k' = kthreadq_release(k, x)
        ELSE /\ k' = kthread_enqueue(k, t, MonQ(o))
             /\ UNCHANGED <<lock, owner>>

\* The first thread in condition queue x becomes the owner of its monitor if
\* that is open, otherwise it moves to the entrance queue.
release_first(x) ==
    LET t == Head(k.q[x])
        o == qdata[t]
    IN  IF ~lock[o]
        THEN /\ lock' = [lock EXCEPT ![o] = TRUE]
             /\ owner' = [owner EXCEPT ![o] = t]
             /\ k' = kthreadq_release(k, x)
        ELSE /\ k' = kthread_enqueue([k EXCEPT !.q[x] = Tail(@)], t, MonQ(o))
             /\ UNCHANGED <<lock, owner>>

\* sys__monitor_signal and sys__monitor_broadcast share k_monitor_release.
sys__monitor_release(t, c, call) ==
    /\ Running(t) /\ cptr[c] # NULL
    /\ kcall' = <<call, t, c>>
    /\ UNCHANGED <<k, mptr, cptr, mons, conds, lock, owner, qdata, claim>>

\* One turn of the loop; signal makes only one.
release_next ==
    /\ kcall # NULL /\ kcall[1] \in {"signal", "broadcast"}
    /\ k.q[CondQ(cptr[kcall[3]])] # <<>>
    /\ release_first(CondQ(cptr[kcall[3]]))
    /\ kcall' = IF kcall[1] = "signal" THEN <<"signalled", kcall[2], kcall[3]>> ELSE kcall
    /\ UNCHANGED <<mptr, cptr, mons, conds, qdata, claim>>

\* The loop has ended: choose the thread to run (no change if none was released).
release_done ==
    /\ kcall # NULL
    /\ \/ kcall[1] = "signalled"
       \/ kcall[1] \in {"signal", "broadcast"} /\ k.q[CondQ(cptr[kcall[3]])] = <<>>
    /\ k' = kthreads_schedule(k)
    /\ kcall' = NULL
    /\ UNCHANGED <<mptr, cptr, mons, conds, lock, owner, qdata, claim>>

-----------------------------------------------------------------------------
\* Destruction

sys__monitor_destroy(t, m) ==
    /\ Running(t) /\ mptr[m] # NULL
    /\ "destroyMonitor" \in Uses
       \/ \A u \in Worker : ~on_condition(u, mptr[m])
    /\ kcall' = <<"destroy", t, m>>
    /\ UNCHANGED <<k, mptr, cptr, mons, conds, lock, owner, qdata, claim>>

sys__monitor_queue_destroy(t, c) ==
    /\ Running(t) /\ cptr[c] # NULL
    /\ "destroyCond" \in Uses \/ k.q[CondQ(cptr[c])] = <<>>
    /\ kcall' = <<"queue_destroy", t, c>>
    /\ UNCHANGED <<k, mptr, cptr, mons, conds, lock, owner, qdata, claim>>

\* The queue of the object that is being destroyed.
doomed == IF kcall[1] = "destroy" THEN MonQ(mptr[kcall[3]]) ELSE CondQ(cptr[kcall[3]])

\* One turn of kthreadq_release_all ...
destroy_next ==
    /\ kcall # NULL /\ kcall[1] \in {"destroy", "queue_destroy"}
    /\ k.q[doomed] # <<>>
    /\ k' = kthreadq_release(k, doomed)
    /\ UNCHANGED mvars

\* ... and what follows it.  Whoever was inside the monitor is in none now.
destroy_done ==
    /\ kcall # NULL /\ kcall[1] = "destroy" /\ k.q[doomed] = <<>>
    /\ mons' = mons \ {mptr[kcall[3]]}
    /\ mptr' = [mptr EXCEPT ![kcall[3]] = NULL]
    /\ claim' = [t \in Thread |-> claim[t] \ {mptr[kcall[3]]}]
    /\ k' = kthreads_schedule(k)
    /\ kcall' = NULL
    /\ UNCHANGED <<cptr, conds, lock, owner, qdata>>

queue_destroy_done ==
    /\ kcall # NULL /\ kcall[1] = "queue_destroy" /\ k.q[doomed] = <<>>
    /\ conds' = conds \ {cptr[kcall[3]]}
    /\ cptr' = [cptr EXCEPT ![kcall[3]] = NULL]
    /\ k' = kthreads_schedule(k)
    /\ kcall' = NULL
    /\ UNCHANGED <<mptr, mons, lock, owner, qdata, claim>>

\* Sleeping on an alarm, and the interrupt that ends it.
sys__wait_for_alarm(t) == InUser /\ sleep(t) /\ UNCHANGED mvars
k_timer_interrupt(t) == InUser /\ wake(t) /\ UNCHANGED mvars

\* The idle thread stops the processor until the next interrupt.
idle_thread == InUser /\ k.active = Idle /\ UNCHANGED vars

-----------------------------------------------------------------------------
Next ==
    \/ \E t \in Worker, m \in Mon, o \in KMon : sys__monitor_init(t, m, o)
    \/ \E t \in Worker, c \in Cond, x \in KCond : sys__monitor_queue_init(t, c, x)
    \/ \E t \in Worker, m \in Mon : sys__monitor_lock(t, m)
    \/ \E t \in Worker, m \in Mon : sys__monitor_unlock(t, m)
    \/ \E t \in Worker, m \in Mon, c \in Cond : sys__monitor_wait(t, m, c)
    \/ \E t \in Worker, c \in Cond, call \in {"signal", "broadcast"} :
            sys__monitor_release(t, c, call)
    \/ release_next
    \/ release_done
    \/ \E t \in Worker, m \in Mon : sys__monitor_destroy(t, m)
    \/ \E t \in Worker, c \in Cond : sys__monitor_queue_destroy(t, c)
    \/ destroy_next
    \/ destroy_done
    \/ queue_destroy_done
    \/ \E t \in Worker : sys__wait_for_alarm(t)
    \/ \E t \in Worker : k_timer_interrupt(t)
    \/ idle_thread

Spec == Init /\ [][Next]_vars

\* The processor finishes the system call it executes, and the timer fires.
Fairness ==
    /\ WF_vars(release_next \/ release_done)
    /\ WF_vars(destroy_next \/ destroy_done \/ queue_destroy_done)
    /\ \A t \in Worker : WF_vars(k_timer_interrupt(t))

FairSpec == Spec /\ Fairness

-----------------------------------------------------------------------------
\* Type invariant.
TypeOK ==
    /\ k \in KState
    /\ mptr \in [Mon -> KMon \cup {NULL}] /\ cptr \in [Cond -> KCond \cup {NULL}]
    /\ mons \subseteq KMon /\ conds \subseteq KCond
    /\ lock \in [KMon -> BOOLEAN] /\ owner \in [KMon -> Worker \cup {NULL}]
    /\ qdata \in [Thread -> KMon \cup {NULL}]
    /\ kcall \in Call \cup {NULL}
    /\ claim \in [Thread -> SUBSET KMon]

\* Threads moved between condition, entrance and ready queues are never lost and
\* never in two of them.
QueuesConsistent ==
    LinkedOnce(k, Thread) /\ NoneLost(k, Thread) /\ MaskExact(k)

\* After a signal, a broadcast, an unlock or a destroy the highest ready
\* priority runs.
ActiveIsHighest == InUser => HighestRuns(k)

\* The calls leave the scheduler's state well formed: types, queues, mask and
\* the choice of the active thread.
SchedulingKept == TypeOK /\ QueuesConsistent /\ ActiveIsHighest

\* Mutual exclusion: a thread whose lock or wait call has returned, and which
\* has not left the monitor since, is its owner ("unblocked thread becomes
\* monitor owner"), so there is at most one.
MutualExclusion ==
    InUser => \A o \in mons, t \in Worker :
                  o \in claim[t] /\ ~waits_for(t, o) => owner[o] = t

\* A locked monitor has an owner that can unlock it: a thread that has entered
\* and does not wait on one of its conditions.
LockedHasOwner ==
    \A o \in mons : lock[o] =>
        \E t \in Worker : owner[o] = t /\ o \in claim[t] /\ ~on_condition(t, o)

\* No thread stands at the entrance of an open monitor, or of a freed one.
NoWaitWhenOpen ==
    \A o \in KMon : k.q[MonQ(o)] # <<>> => o \in mons /\ lock[o]

\* A thread at the entrance is let in after finitely many unlocks and waits by
\* the owners before it.
EntranceServed ==
    \A m \in Mon, t \in Worker :
        []<><<\E u \in Worker : \/ sys__monitor_unlock(u, m)
                                \/ \E c \in Cond : sys__monitor_wait(u, m, c)>>_vars =>
            (mptr[m] # NULL /\ k.queue[t] = MonQ(mptr[m])
                ~> ~(mptr[m] # NULL /\ k.queue[t] = MonQ(mptr[m])))
=============================================================================

----------------------------- MODULE Semaphore ------------------------------
(***************************************************************************)
(* Semaphores (kernel/semaphore.c).  A program holds sem_t variables; each *)
(* contains the address of a kernel object with the value and the queue of *)
(* blocked threads.  Objects come from the kernel heap and their addresses *)
(* are used again after sem_destroy.                                       *)
(*                                                                         *)
(* Every call is one step except sem_destroy, whose loop over the blocked  *)
(* threads takes one step each; while it runs (destroying # NULL) nothing  *)
(* else happens.                                                           *)
(*                                                                         *)
(* k_syscall keeps the address of the caller's context and writes the      *)
(* returned value there, whichever thread is active when the handler       *)
(* returns.  errno is written to the thread that is active at the moment   *)
(* of SET_ERRNO.                                                           *)
(***************************************************************************)
EXTENDS Workers

CONSTANTS
    Sem,        \* sem_t variables of the program
    KSem,       \* heap addresses of kernel semaphores
    InitValues, \* the values programs pass to sem_init
    MaxValue    \* bound: sem_value is not counted beyond it

SemQ(o) == <<"sem", o>>

ASSUME SemaphoreAssumption ==
    /\ NULL \notin KSem
    /\ InitValues \subseteq Int /\ MaxValue \in Int
    /\ WaitQ = AlarmQs \cup {SemQ(o) : o \in KSem}

Errno == {"SUCCESS", "E_INVALID_HANDLE"}

VARIABLES
    errno,      \* kthread->errno
    ret,        \* the value the last system call of a thread returned
    ptr,        \* sem->ptr
    allocated,  \* the kernel semaphores that exist
    sem_value,  \* ksem->sem_value
    destroying  \* <<thread, sem_t>> while sem_destroy releases the queue

semvars == <<ptr, allocated, sem_value, destroying>>
vars == <<k, errno, ret, semvars>>

Init ==
    /\ InitWorkers
    /\ errno = [t \in Thread |-> "SUCCESS"] /\ ret = [t \in Thread |-> "SUCCESS"]
    /\ ptr = [s \in Sem |-> NULL]
    /\ allocated = {}
    /\ sem_value = [o \in KSem |-> 0]
    /\ destroying = NULL

InUser == destroying = NULL
Running(t) == InUser /\ k.active = t /\ t # Idle

\* SET_ERRNO in kernel state m, and the value returned to the caller t.
SET_ERRNO(m, e) == errno' = [errno EXCEPT ![m.active] = e]
RETURN(t, e) == ret' = [ret EXCEPT ![t] = e]

\* A call with a sem_t that has no kernel object fails.
invalid_handle(t, s) ==
    /\ Running(t) /\ ptr[s] = NULL
    /\ SET_ERRNO(k, "E_INVALID_HANDLE") /\ RETURN(t, "E_INVALID_HANDLE")
    /\ UNCHANGED <<k, semvars>>

-----------------------------------------------------------------------------
\* A new kernel semaphore at the free address o; whatever ptr held is forgotten.
sys__sem_init(t, s, v, o) ==
    /\ Running(t) /\ o \notin allocated
    /\ allocated' = allocated \cup {o}
    /\ sem_value' = [sem_value EXCEPT ![o] = v]
    /\ k' = [k EXCEPT !.q[SemQ(o)] = <<>>]
    /\ ptr' = [ptr EXCEPT ![s] = o]
    /\ SET_ERRNO(k, "SUCCESS") /\ RETURN(t, "SUCCESS")
    /\ UNCHANGED destroying

\* Mutant: the value is counted up even when a thread is released.
sys__sem_post_both(t, s) ==
    /\ Running(t) /\ ptr[s] # NULL /\ sem_value[ptr[s]] < MaxValue
    /\ SET_ERRNO(k, "SUCCESS") /\ RETURN(t, "SUCCESS")
    /\ sem_value' = [sem_value EXCEPT ![ptr[s]] = @ + 1]
    /\ k' = kthreads_schedule(kthreadq_release(k, SemQ(ptr[s])))
    /\ UNCHANGED <<ptr, allocated, destroying>>

\* Release the first blocked thread, or count the value up.
sys__sem_post(t, s) ==
    /\ Running(t) /\ ptr[s] # NULL
    /\ SET_ERRNO(k, "SUCCESS") /\ RETURN(t, "SUCCESS")
    /\ LET o == ptr[s] IN
       IF k.q[SemQ(o)] = <<>>
       THEN /\ sem_value[o] < MaxValue
            /\ sem_value' = [sem_value EXCEPT ![o] = @ + 1]
            /\ UNCHANGED k
       ELSE /\ k' = kthreads_schedule(kthreadq_release(k, SemQ(o)))
            /\ UNCHANGED sem_value
    /\ UNCHANGED <<ptr, allocated, destroying>>

\* Count the value down, or block.
sys__sem_wait(t, s) ==
    /\ Running(t) /\ ptr[s] # NULL
    /\ SET_ERRNO(k, "SUCCESS") /\ RETURN(t, "SUCCESS")
    /\ LET o == ptr[s] IN
       IF sem_value[o] > 0
       THEN sem_value' = [sem_value EXCEPT ![o] = @ - 1] /\ UNCHANGED k
       ELSE /\ k' = kthreads_schedule(kthread_enqueue(k, t, SemQ(o)))
            /\ UNCHANGED sem_value
    /\ UNCHANGED <<ptr, allocated, destroying>>

\* sem_destroy: release every blocked thread ...
sys__sem_destroy(t, s) ==
    /\ Running(t) /\ ptr[s] # NULL
    /\ destroying' = <<t, s>>
    /\ UNCHANGED <<k, errno, ret, ptr, allocated, sem_value>>

destroy_next ==
    /\ destroying # NULL
    /\ LET x == SemQ(ptr[destroying[2]]) IN
       k.q[x] # <<>> /\ k' = kthreadq_release(k, x)
    /\ UNCHANGED <<errno, ret, semvars>>

\* Mutant: only the first blocked thread is released.
destroy_done_early ==
    /\ destroying # NULL
    /\ k' = kthreads_schedule(k)
    /\ LET s == destroying[2] IN
       /\ allocated' = allocated \ {ptr[s]}
       /\ ptr' = [ptr EXCEPT ![s] = NULL]
    /\ SET_ERRNO(k', "SUCCESS") /\ RETURN(destroying[1], "SUCCESS")
    /\ destroying' = NULL
    /\ UNCHANGED sem_value

\* Mutant: the sem_t keeps the address of the freed object.
destroy_done_dangling ==
    /\ destroying # NULL
    /\ k.q[SemQ(ptr[destroying[2]])] = <<>>
    /\ allocated' = allocated \ {ptr[destroying[2]]}
    /\ k' = kthreads_schedule(k)
    /\ SET_ERRNO(k', "SUCCESS") /\ RETURN(destroying[1], "SUCCESS")
    /\ destroying' = NULL
    /\ UNCHANGED <<ptr, sem_value>>

\* ... then choose the thread to run (no change if none was released) and free
\* the object.  errno is set last, on the thread that is active by then.
destroy_done ==
    /\ destroying # NULL
    /\ LET s == destroying[2] IN
       /\ k.q[SemQ(ptr[s])] = <<>>
       /\ allocated' = allocated \ {ptr[s]}
       /\ ptr' = [ptr EXCEPT ![s] = NULL]
    /\ k' = kthreads_schedule(k)
    /\ SET_ERRNO(k', "SUCCESS") /\ RETURN(destroying[1], "SUCCESS")
    /\ destroying' = NULL
    /\ UNCHANGED sem_value

\* Sleeping on an alarm, and the interrupt that ends it.
sys__wait_for_alarm(t) ==
    /\ InUser /\ sleep(t)
    /\ SET_ERRNO(k, "SUCCESS") /\ RETURN(t, "SUCCESS")
    /\ UNCHANGED semvars

k_timer_interrupt(t) == InUser /\ wake(t) /\ UNCHANGED <<errno, ret, semvars>>

\* The idle thread stops the processor until the next interrupt.
idle_thread == InUser /\ k.active = Idle /\ UNCHANGED vars

-----------------------------------------------------------------------------
Next ==
    \/ \E t \in Worker, s \in Sem : invalid_handle(t, s)
    \/ \E t \in Worker, s \in Sem, v \in InitValues, o \in KSem : sys__sem_init(t, s, v, o)
    \/ \E t \in Worker, s \in Sem : sys__sem_post(t, s)
    \/ \E t \in Worker, s \in Sem : sys__sem_wait(t, s)
    \/ \E t \in Worker, s \in Sem : sys__sem_destroy(t, s)
    \/ destroy_next
    \/ destroy_done
    \/ \E t \in Worker : sys__wait_for_alarm(t)
    \/ \E t \in Worker : k_timer_interrupt(t)
    \/ idle_thread

Spec == Init /\ [][Next]_vars

\* The processor finishes the system call it executes, and the timer fires.
Fairness ==
    /\ WF_vars(destroy_next \/ destroy_done)
    /\ \A t \in Worker : WF_vars(k_timer_interrupt(t))

FairSpec == Spec /\ Fairness

-----------------------------------------------------------------------------
\* Type invariant.
TypeOK ==
    /\ k \in KState
    /\ errno \in [Thread -> Errno] /\ ret \in [Thread -> Errno]
    /\ ptr \in [Sem -> KSem \cup {NULL}]
    /\ allocated \subseteq KSem
    /\ sem_value \in [KSem -> Int]
    /\ destroying \in (Worker \X Sem) \cup {NULL}

\* Through every mixture of waits, posts, sleeps and destroyed semaphores each
\* thread is the active one or linked exactly once, where its descriptor says.
QueuesConsistent ==
    LinkedOnce(k, Thread) /\ NoneLost(k, Thread) /\ MaskExact(k)

\* The highest ready priority runs whenever the kernel returns to user code,
\* also after a post or a destroy that released somebody.
ActiveIsHighest == InUser => HighestRuns(k)

\* The calls leave the scheduler's state well formed: types, queues, mask and
\* the choice of the active thread.
SchedulingKept == TypeOK /\ QueuesConsistent /\ ActiveIsHighest

\* No thread sleeps on a semaphore that could be taken, and no thread sleeps on
\* one that has been freed, whose memory may already be another semaphore.
NoWaitWithTokens ==
    \A o \in KSem : k.q[SemQ(o)] # <<>> => o \in allocated /\ sem_value[o] <= 0

\* A sem_t never points to a freed object, unless it was copied.
HandlesValid == \A s \in Sem : ptr[s] # NULL => ptr[s] \in allocated

\* The kernel's semaphores, used through the scheduler's queues, do what
\* SemaphoreAbs promises: one wait per token, nobody blocked while tokens are
\* left, first come first served, freed only when nobody waits.
Abs == INSTANCE SemaphoreAbs WITH
        Caller <- Worker,
        Object <- KSem,
        InitValue <- InitValues,
        exists <- allocated,
        value <- sem_value,
        waiting <- [o \in KSem |-> k.q[SemQ(o)]]

ImplementsAbs == Abs!Spec

\* A failed call is not hidden from the thread that made it: when it runs, errno
\* still has the error, although destroy_done writes the errno of whoever is
\* active after it.  (The other direction fails: after sem_destroy the caller's
\* errno may be that of an older call.)
FailureReported ==
    \A t \in Worker : Running(t) /\ ret[t] # "SUCCESS" => errno[t] = ret[t]

\* Whoever is blocked on a semaphore is released after finitely many posts on
\* it: waiters are served in the order they came.
WaiterServed ==
    \A s \in Sem, t \in Worker :
        []<><<\E u \in Worker : sys__sem_post(u, s)>>_vars =>
            (ptr[s] # NULL /\ k.queue[t] = SemQ(ptr[s])
                ~> ~(ptr[s] # NULL /\ k.queue[t] = SemQ(ptr[s])))
=============================================================================

--------------------------- MODULE SemaphoreProofs --------------------------
(***************************************************************************)
(* The semaphores for any number of workers, priorities, sem_t variables   *)
(* and kernel objects: no thread is lost, no thread sleeps on a semaphore  *)
(* that could be taken or that has been freed, and the kernel's semaphores *)
(* implement SemaphoreAbs.                                                 *)
(*                                                                         *)
(* NoWaitWithTokens needs that a sem_t points to an allocated object and   *)
(* that no two sem_t share one: otherwise a destroy through one would free *)
(* what another still waits on.                                            *)
(***************************************************************************)
EXTENDS Semaphore, KThreadsProofs

\* The alarms of the workers: all asleep and the idle thread active is a consistent
\* state.
LEMMA InitAll == InitWorkers => AllLinked(k) /\ HighestRuns(k) /\ ActiveFree(k)
                                /\ \A x \in WaitQ \ AlarmQs : k.q[x] = <<>>
<1> SUFFICES ASSUME InitWorkers
             PROVE  AllLinked(k) /\ HighestRuns(k) /\ ActiveFree(k)
                    /\ \A x \in WaitQ \ AlarmQs : k.q[x] = <<>>
  OBVIOUS
<1> DEFINE a == [t \in Worker |-> AlarmQ(t)]
<1>1. PICK prio \in [Thread -> Prio] :
         k = [state  |-> [t \in Thread |-> IF t = Idle THEN "ACTIVE" ELSE "WAIT"],
              prio   |-> prio,
              queue  |-> [t \in Thread |-> IF t = Idle THEN NULL ELSE AlarmQ(t)],
              q      |-> [x \in Queue |-> IF x \in AlarmQs THEN <<x[2]>> ELSE <<>>],
              mask   |-> {}, active |-> Idle]
  BY DEF InitWorkers
<1>2. /\ \A t \in Worker : /\ t \in Thread /\ AlarmQ(t) \in WaitQ /\ AlarmQ(t) \in Queue
                           /\ AlarmQ(t) \in AlarmQs /\ AlarmQ(t)[2] = t
      /\ \A x \in AlarmQs : x[2] \in Worker /\ x = AlarmQ(x[2])
  BY WorkersAssumption, QueueNames DEF Worker, AlarmQs, AlarmQ
<1>3. \A x \in Queue : /\ x \in AlarmQs => k.q[x] = <<x[2]>>
                       /\ x \notin AlarmQs => k.q[x] = <<>>
  BY <1>1
<1>4. k \in KState
  <2>1. k.state \in [Thread -> ThreadState] /\ k.active \in Thread
    BY <1>1, KThreadsAssumption DEF ThreadState
  <2>2. k.queue \in [Thread -> Queue \cup {NULL}]
    BY <1>1, <1>2 DEF Worker
  <2>3. k.q \in [Queue -> Seq(Thread)]
    <3>1. \A x \in Queue : (IF x \in AlarmQs THEN <<x[2]>> ELSE <<>>) \in Seq(Thread)
      BY <1>2
    <3> QED
      BY <1>1, <3>1
  <2> QED
    BY <1>1, <2>1, <2>2, <2>3 DEF KState
<1>5. /\ a \in [Worker -> WaitQ] /\ \A t, u \in Worker : a[t] = a[u] => t = u
      /\ \A t \in Worker : a[t] = AlarmQ(t)
  BY <1>2
<1>6. /\ k.state = [t \in Thread |-> IF t = Idle THEN "ACTIVE" ELSE "WAIT"]
      /\ k.mask = {} /\ k.active = Idle
  BY <1>1
<1>7. k.queue = [t \in Thread |-> IF t = Idle THEN NULL ELSE a[t]]
  BY <1>1, <1>5 DEF Worker
<1> HIDE DEF a
<1>8. \A t \in Worker : k.q[a[t]] = <<t>>
  BY <1>2, <1>3, <1>5
<1>9. \A x \in Queue : (\A t \in Worker : x # a[t]) => k.q[x] = <<>>
  BY <1>2, <1>3, <1>5
<1>10. AllLinked(k) /\ HighestRuns(k) /\ ActiveFree(k)
  BY <1>4, <1>5, <1>6, <1>7, <1>8, <1>9, AsleepAll
<1> QED
  BY <1>3, <1>10, QueueNames

\* No two sem_t point to the same object.
PtrInjective == \A s, r \in Sem : ptr[s] # NULL /\ ptr[s] = ptr[r] => s = r

\* The inductive invariant.
IInv ==
    /\ TypeOK
    /\ AllLinked(k)
    /\ InUser => HighestRuns(k)
    /\ NoWaitWithTokens
    /\ HandlesValid
    /\ PtrInjective
    /\ destroying # NULL => ptr[destroying[2]] # NULL

\* Queues of semaphores are queues of blocked threads, different for different
\* objects and from those of alarms.
LEMMA SemQueues ==
    /\ \A o \in KSem : SemQ(o) \in WaitQ
    /\ \A o, u \in KSem : SemQ(o) = SemQ(u) => o = u
    /\ \A o \in KSem, t \in Worker : SemQ(o) # AlarmQ(t) /\ SemQ(o) \notin AlarmQs
    /\ \A t \in Worker : AlarmQ(t) \in WaitQ
<1>1. \A o \in KSem, t \in Worker : SemQ(o) # AlarmQ(t)
  <2> SUFFICES ASSUME NEW o \in KSem, NEW t \in Worker, <<"sem", o>> = <<"alarm", t>>
               PROVE  FALSE
    BY DEF SemQ, AlarmQ
  <2>1. <<"sem", o>>[1] = <<"alarm", t>>[1]
    OBVIOUS
  <2> QED
    BY <2>1
<1>2. \A o, u \in KSem : SemQ(o) = SemQ(u) => o = u
  BY DEF SemQ
<1> QED
  BY <1>1, <1>2, SemaphoreAssumption DEF AlarmQs

\* The initial state satisfies the invariant.
LEMMA InitIInv == Init => IInv
<1> SUFFICES ASSUME Init PROVE IInv
  OBVIOUS
<1>1. AllLinked(k) /\ HighestRuns(k) /\ \A x \in WaitQ \ AlarmQs : k.q[x] = <<>>
  BY InitAll DEF Init
<1>2. NoWaitWithTokens
  <2>1. \A o \in KSem : SemQ(o) \in WaitQ \ AlarmQs
    <3> SUFFICES ASSUME NEW o \in KSem PROVE SemQ(o) \in WaitQ /\ SemQ(o) \notin AlarmQs
      OBVIOUS
    <3>1. SemQ(o) \in WaitQ
      BY SemQueues
    <3>2. \A t \in Worker : SemQ(o) # AlarmQ(t)
      BY SemQueues
    <3> QED
      BY <3>1, <3>2 DEF AlarmQs
  <2>2. \A o \in KSem : k.q[SemQ(o)] = <<>>
    BY <1>1, <2>1
  <2> QED
    BY <2>2 DEF NoWaitWithTokens
<1>3. TypeOK
  BY <1>1, SemaphoreAssumption DEF Init, TypeOK, AllLinked, Linked, Errno
<1>4. HandlesValid /\ PtrInjective /\ destroying = NULL
  BY DEF Init, HandlesValid, PtrInjective
<1> QED
  BY <1>1, <1>2, <1>3, <1>4 DEF IInv

\* errno and ret keep their types.
LEMMA ErrnoTypes ==
    ASSUME IInv, NEW m \in Thread, NEW t \in Thread, NEW e \in Errno,
           errno' = [errno EXCEPT ![m] = e], ret' = [ret EXCEPT ![t] = e]
    PROVE  errno' \in [Thread -> Errno] /\ ret' \in [Thread -> Errno]
  BY DEF IInv, TypeOK

\* What holds when a worker makes a call.
LEMMA RunningFacts ==
    ASSUME IInv, NEW t \in Worker, Running(t)
    PROVE  /\ AllLinked(k) /\ HighestRuns(k) /\ k.active = t /\ t \in Thread
           /\ destroying = NULL /\ TypeOK
  BY DEF IInv, Running, InUser, Worker

\* A call that fails.
LEMMA InvalidKeeps ==
    ASSUME IInv, NEW t \in Worker, NEW s \in Sem, invalid_handle(t, s) PROVE IInv'
<1>1. Running(t) /\ UNCHANGED <<k, semvars>>
      /\ errno' = [errno EXCEPT ![k.active] = "E_INVALID_HANDLE"]
      /\ ret' = [ret EXCEPT ![t] = "E_INVALID_HANDLE"]
  BY DEF invalid_handle, SET_ERRNO, RETURN
<1>2. k.active \in Thread /\ t \in Thread
  BY <1>1, RunningFacts
<1>3. errno' \in [Thread -> Errno] /\ ret' \in [Thread -> Errno]
  BY <1>1, <1>2, ErrnoTypes DEF Errno
<1>4. TypeOK'
  BY <1>1, <1>3 DEF IInv, TypeOK, semvars
<1> QED
  BY <1>1, <1>4 DEF IInv, semvars, InUser, NoWaitWithTokens, HandlesValid, PtrInjective

\* A new semaphore: its queue is empty already.
LEMMA SemInitKeeps ==
    ASSUME IInv, NEW t \in Worker, NEW s \in Sem, NEW v \in InitValues, NEW o \in KSem,
           sys__sem_init(t, s, v, o)
    PROVE  IInv' /\ k' = k
<1>1. /\ Running(t) /\ o \notin allocated /\ allocated' = allocated \cup {o}
      /\ sem_value' = [sem_value EXCEPT ![o] = v] /\ ptr' = [ptr EXCEPT ![s] = o]
      /\ k' = [k EXCEPT !.q[SemQ(o)] = <<>>] /\ destroying' = destroying
      /\ errno' = [errno EXCEPT ![k.active] = "SUCCESS"] /\ ret' = [ret EXCEPT ![t] = "SUCCESS"]
  BY DEF sys__sem_init, SET_ERRNO, RETURN
<1>2. /\ AllLinked(k) /\ HighestRuns(k) /\ k.active = t /\ t \in Thread
      /\ destroying = NULL /\ TypeOK
  BY <1>1, RunningFacts
<1>3. k.q[SemQ(o)] = <<>>
  BY <1>1 DEF IInv, NoWaitWithTokens
<1>4. k' = k
  <2>1. k \in KState /\ k.q \in [Queue -> Seq(Thread)] /\ SemQ(o) \in Queue
    BY <1>2, SemQueues, QueueNames DEF TypeOK, KState
  <2>2. [k.q EXCEPT ![SemQ(o)] = <<>>] = k.q
    BY <1>3, <2>1
  <2> QED
    BY <1>1, <2>1, <2>2 DEF KState
<1>5. errno' \in [Thread -> Errno] /\ ret' \in [Thread -> Errno]
  BY <1>1, <1>2, ErrnoTypes DEF Errno
<1>6. TypeOK'
  BY <1>1, <1>2, <1>4, <1>5, SemaphoreAssumption DEF TypeOK
<1>7. NoWaitWithTokens'
  BY <1>1, <1>2, <1>3, <1>4 DEF IInv, NoWaitWithTokens, TypeOK
<1>8. HandlesValid' /\ PtrInjective'
  BY <1>1, <1>2 DEF IInv, HandlesValid, PtrInjective, TypeOK
<1> QED
  BY <1>1, <1>2, <1>4, <1>6, <1>7, <1>8 DEF IInv, InUser

\* A step of one of the calls wait and post, or of a sleep or wake-up: only the
\* scheduling state and the value of one allocated object change.
LEMMA StepKeeps ==
    ASSUME IInv, UNCHANGED <<ptr, allocated>>, destroying = NULL, destroying' = NULL,
           AllLinked(k'), HighestRuns(k'),
           errno' \in [Thread -> Errno], ret' \in [Thread -> Errno],
           sem_value' \in [KSem -> Int],
           \A o \in KSem : k'.q[SemQ(o)] # <<>> => o \in allocated /\ sem_value'[o] <= 0
    PROVE  IInv'
<1>1. TypeOK'
  BY DEF IInv, TypeOK, AllLinked, Linked
<1>2. NoWaitWithTokens' /\ HandlesValid' /\ PtrInjective'
  BY DEF IInv, NoWaitWithTokens, HandlesValid, PtrInjective
<1> QED
  BY <1>1, <1>2 DEF IInv, InUser

\* sem_post either counts up or releases the first waiting thread.
LEMMA PostKeeps ==
    ASSUME IInv, NEW t \in Worker, NEW s \in Sem, sys__sem_post(t, s)
    PROVE  LET o == ptr[s] IN
           /\ IInv' /\ o \in allocated /\ o \in KSem /\ UNCHANGED allocated
           /\ \/ /\ k.q[SemQ(o)] = <<>> /\ k' = k
                 /\ sem_value' = [sem_value EXCEPT ![o] = @ + 1]
              \/ /\ k.q[SemQ(o)] # <<>> /\ sem_value' = sem_value
                 /\ k'.q[SemQ(o)] = Tail(k.q[SemQ(o)])
                 /\ \A u \in KSem \ {o} : k'.q[SemQ(u)] = k.q[SemQ(u)]
<1> DEFINE o == ptr[s]
           n == kthreads_schedule(kthreadq_release(k, SemQ(o)))
<1>1. /\ Running(t) /\ o # NULL /\ UNCHANGED <<ptr, allocated, destroying>>
      /\ errno' = [errno EXCEPT ![k.active] = "SUCCESS"] /\ ret' = [ret EXCEPT ![t] = "SUCCESS"]
  BY DEF sys__sem_post, SET_ERRNO, RETURN
<1>2. /\ AllLinked(k) /\ HighestRuns(k) /\ k.active = t /\ t \in Thread
      /\ destroying = NULL /\ TypeOK
  BY <1>1, RunningFacts
<1>3. o \in allocated /\ o \in KSem /\ SemQ(o) \in WaitQ
      /\ sem_value \in [KSem -> Int] /\ NoWaitWithTokens
  BY <1>1, <1>2, SemQueues DEF IInv, HandlesValid, TypeOK
<1>4. errno' \in [Thread -> Errno] /\ ret' \in [Thread -> Errno]
  BY <1>1, <1>2, ErrnoTypes DEF Errno
<1>5. CASE k.q[SemQ(o)] = <<>>
  <2>1. k' = k /\ sem_value' = [sem_value EXCEPT ![o] = @ + 1]
    BY <1>5 DEF sys__sem_post
  <2>2. /\ sem_value' \in [KSem -> Int]
        /\ \A u \in KSem : k'.q[SemQ(u)] # <<>> => u \in allocated /\ sem_value'[u] <= 0
    BY <1>3, <1>5, <2>1 DEF NoWaitWithTokens
  <2>3. IInv'
    BY <1>1, <1>2, <1>4, <2>1, <2>2, StepKeeps
  <2> QED
    BY <1>1, <1>3, <1>5, <2>1, <2>3
<1>6. CASE k.q[SemQ(o)] # <<>>
  <2>1. k' = n /\ sem_value' = sem_value
    BY <1>6 DEF sys__sem_post
  <2>2. /\ AllLinked(n) /\ HighestRuns(n) /\ n.q[SemQ(o)] = Tail(k.q[SemQ(o)])
        /\ \A y \in WaitQ \ {SemQ(o)} : n.q[y] = k.q[y]
    BY <1>2, <1>3, <1>6, WakeAll
  <2> HIDE DEF n
  <2>3. \A u \in KSem \ {o} : k'.q[SemQ(u)] = k.q[SemQ(u)]
    BY <1>3, <2>1, <2>2, SemQueues
  <2>4. \A u \in KSem : k'.q[SemQ(u)] # <<>> => u \in allocated /\ sem_value'[u] <= 0
    BY <1>3, <1>6, <2>1, <2>3 DEF NoWaitWithTokens
  <2>5. IInv'
    BY <1>1, <1>2, <1>3, <1>4, <2>1, <2>2, <2>4, StepKeeps
  <2> QED
    BY <1>1, <1>3, <1>6, <2>1, <2>2, <2>3, <2>5
<1> QED
  BY <1>5, <1>6

\* sem_wait either counts down or blocks the caller.
LEMMA WaitKeeps ==
    ASSUME IInv, NEW t \in Worker, NEW s \in Sem, sys__sem_wait(t, s)
    PROVE  LET o == ptr[s] IN
           /\ IInv' /\ o \in allocated /\ o \in KSem /\ UNCHANGED allocated
           /\ \/ /\ sem_value[o] > 0 /\ k' = k
                 /\ sem_value' = [sem_value EXCEPT ![o] = @ - 1]
              \/ /\ sem_value[o] <= 0 /\ sem_value' = sem_value
                 /\ k'.q[SemQ(o)] = Append(k.q[SemQ(o)], t)
                 /\ \A u \in KSem \ {o} : k'.q[SemQ(u)] = k.q[SemQ(u)]
<1> DEFINE o == ptr[s]
           n == kthreads_schedule(kthread_enqueue(k, t, SemQ(o)))
<1>1. /\ Running(t) /\ o # NULL /\ UNCHANGED <<ptr, allocated, destroying>>
      /\ errno' = [errno EXCEPT ![k.active] = "SUCCESS"] /\ ret' = [ret EXCEPT ![t] = "SUCCESS"]
  BY DEF sys__sem_wait, SET_ERRNO, RETURN
<1>2. /\ AllLinked(k) /\ HighestRuns(k) /\ k.active = t /\ t \in Thread
      /\ destroying = NULL /\ TypeOK
  BY <1>1, RunningFacts
<1>3. o \in allocated /\ o \in KSem /\ SemQ(o) \in WaitQ
      /\ sem_value \in [KSem -> Int] /\ NoWaitWithTokens
  BY <1>1, <1>2, SemQueues DEF IInv, HandlesValid, TypeOK
<1>4. errno' \in [Thread -> Errno] /\ ret' \in [Thread -> Errno]
  BY <1>1, <1>2, ErrnoTypes DEF Errno
<1>5. CASE sem_value[o] > 0
  <2>1. k' = k /\ sem_value' = [sem_value EXCEPT ![o] = @ - 1]
    BY <1>5 DEF sys__sem_wait
  <2>2. /\ sem_value' \in [KSem -> Int]
        /\ \A u \in KSem : k'.q[SemQ(u)] # <<>> => u \in allocated /\ sem_value'[u] <= 0
    BY <1>3, <1>5, <2>1 DEF NoWaitWithTokens
  <2>3. IInv'
    BY <1>1, <1>2, <1>4, <2>1, <2>2, StepKeeps
  <2> QED
    BY <1>1, <1>3, <1>5, <2>1, <2>3
<1>6. CASE ~(sem_value[o] > 0)
  <2>1. k' = n /\ sem_value' = sem_value /\ sem_value[o] <= 0
    BY <1>3, <1>6 DEF sys__sem_wait
  <2>2. /\ AllLinked(n) /\ HighestRuns(n) /\ n.q[SemQ(o)] = Append(k.q[SemQ(o)], t)
        /\ \A y \in WaitQ \ {SemQ(o)} : n.q[y] = k.q[y]
    BY <1>2, <1>3, BlockAll
  <2> HIDE DEF n
  <2>3. \A u \in KSem \ {o} : k'.q[SemQ(u)] = k.q[SemQ(u)]
    BY <1>3, <2>1, <2>2, SemQueues
  <2>4. \A u \in KSem : k'.q[SemQ(u)] # <<>> => u \in allocated /\ sem_value'[u] <= 0
    BY <1>3, <2>1, <2>3 DEF NoWaitWithTokens
  <2>5. IInv'
    BY <1>1, <1>2, <1>3, <1>4, <2>1, <2>2, <2>4, StepKeeps
  <2> QED
    BY <1>1, <1>3, <2>1, <2>2, <2>3, <2>5
<1> QED
  BY <1>5, <1>6

\* The call of sem_destroy.
LEMMA DestroyKeeps ==
    ASSUME IInv, NEW t \in Worker, NEW s \in Sem, sys__sem_destroy(t, s)
    PROVE  IInv' /\ UNCHANGED <<k, allocated, sem_value>>
<1>1. /\ Running(t) /\ ptr[s] # NULL /\ destroying' = <<t, s>>
      /\ UNCHANGED <<k, errno, ret, ptr, allocated, sem_value>>
  BY DEF sys__sem_destroy
<1>2. TypeOK'
  BY <1>1 DEF IInv, TypeOK
<1>3. destroying' # NULL => ptr'[destroying'[2]] # NULL
  BY <1>1
<1>4. InUser' => HighestRuns(k')
  BY <1>1, RunningFacts
<1> QED
  BY <1>1, <1>2, <1>3, <1>4 DEF IInv, NoWaitWithTokens, HandlesValid, PtrInjective

\* The object a destroy is at work on.
LEMMA DestroyingFacts ==
    ASSUME IInv, destroying # NULL
    PROVE  LET o == ptr[destroying[2]] IN
           /\ destroying[1] \in Worker /\ destroying[2] \in Sem
           /\ o \in allocated /\ o \in KSem /\ SemQ(o) \in WaitQ
           /\ AllLinked(k) /\ TypeOK
<1>1. destroying[1] \in Worker /\ destroying[2] \in Sem /\ ptr[destroying[2]] # NULL
  BY DEF IInv, TypeOK
<1> QED
  BY <1>1, SemQueues DEF IInv, TypeOK, HandlesValid

\* One turn of its loop.
LEMMA DestroyNextKeeps ==
    ASSUME IInv, destroy_next
    PROVE  LET o == ptr[destroying[2]] IN
           /\ IInv' /\ o \in allocated /\ o \in KSem /\ k.q[SemQ(o)] # <<>>
           /\ k'.q[SemQ(o)] = Tail(k.q[SemQ(o)])
           /\ \A u \in KSem \ {o} : k'.q[SemQ(u)] = k.q[SemQ(u)]
           /\ UNCHANGED <<allocated, sem_value>>
<1> DEFINE o == ptr[destroying[2]]
<1>1. /\ destroying # NULL /\ k.q[SemQ(o)] # <<>> /\ k' = kthreadq_release(k, SemQ(o))
      /\ UNCHANGED <<errno, ret, ptr, allocated, sem_value, destroying>>
  BY DEF destroy_next, semvars
<1>2. o \in allocated /\ o \in KSem /\ SemQ(o) \in WaitQ /\ AllLinked(k) /\ TypeOK
  BY <1>1, DestroyingFacts
<1>3. /\ AllLinked(k') /\ k'.q[SemQ(o)] = Tail(k.q[SemQ(o)])
      /\ \A y \in WaitQ \ {SemQ(o)} : k'.q[y] = k.q[y]
  BY <1>1, <1>2, ReleaseAll
<1>4. \A u \in KSem \ {o} : k'.q[SemQ(u)] = k.q[SemQ(u)]
  BY <1>2, <1>3, SemQueues
<1>5. TypeOK'
  BY <1>1, <1>2, <1>3 DEF TypeOK, AllLinked, Linked
<1>6. NoWaitWithTokens'
  <2>1. \A u \in KSem : k'.q[SemQ(u)] # <<>> => k.q[SemQ(u)] # <<>>
    BY <1>1, <1>4
  <2> QED
    BY <1>1, <2>1 DEF IInv, NoWaitWithTokens
<1>7. IInv'
  BY <1>1, <1>3, <1>5, <1>6 DEF IInv, InUser, HandlesValid, PtrInjective
<1> QED
  BY <1>1, <1>2, <1>3, <1>4, <1>7

\* Its end.
LEMMA DestroyDoneKeeps ==
    ASSUME IInv, destroy_done
    PROVE  LET o == ptr[destroying[2]] IN
           /\ IInv' /\ o \in allocated /\ o \in KSem /\ k.q[SemQ(o)] = <<>>
           /\ allocated' = allocated \ {o} /\ UNCHANGED sem_value
           /\ \A u \in KSem : k'.q[SemQ(u)] = k.q[SemQ(u)]
<1> DEFINE s == destroying[2]
           o == ptr[s]
           n == kthreads_schedule(k)
<1>1. /\ destroying # NULL /\ k.q[SemQ(o)] = <<>> /\ k' = n
      /\ allocated' = allocated \ {o} /\ ptr' = [ptr EXCEPT ![s] = NULL]
      /\ destroying' = NULL /\ sem_value' = sem_value
      /\ errno' = [errno EXCEPT ![k'.active] = "SUCCESS"]
      /\ ret' = [ret EXCEPT ![destroying[1]] = "SUCCESS"]
  BY DEF destroy_done, SET_ERRNO, RETURN
<1>2. /\ destroying[1] \in Worker /\ s \in Sem /\ o \in allocated /\ o \in KSem
      /\ AllLinked(k) /\ TypeOK
  BY <1>1, DestroyingFacts
<1>3. AllLinked(n) /\ HighestRuns(n) /\ \A x \in WaitQ : n.q[x] = k.q[x]
  BY <1>2, ScheduleAll
<1> HIDE DEF n
<1>4. \A u \in KSem : k'.q[SemQ(u)] = k.q[SemQ(u)]
  BY <1>1, <1>3, SemQueues
<1>5. k'.active \in Thread /\ k' \in KState
  BY <1>1, <1>3 DEF AllLinked, Linked, KState
<1>6. errno' \in [Thread -> Errno] /\ ret' \in [Thread -> Errno]
  BY <1>1, <1>2, <1>5, ErrnoTypes DEF Errno, Worker
<1>7. TypeOK'
  BY <1>1, <1>2, <1>5, <1>6 DEF TypeOK
<1>8. NoWaitWithTokens'
  BY <1>1, <1>4 DEF IInv, NoWaitWithTokens
<1>9. HandlesValid' /\ PtrInjective'
  BY <1>1, <1>2 DEF IInv, HandlesValid, PtrInjective, TypeOK
<1>10. IInv'
  BY <1>1, <1>3, <1>7, <1>8, <1>9 DEF IInv
<1> QED
  BY <1>1, <1>2, <1>4, <1>10

\* Sleeping and waking leave the semaphores alone.
LEMMA SleepKeeps ==
    ASSUME IInv, NEW t \in Worker, sys__wait_for_alarm(t) \/ k_timer_interrupt(t)
    PROVE  /\ IInv' /\ UNCHANGED <<allocated, sem_value>>
           /\ \A u \in KSem : k'.q[SemQ(u)] = k.q[SemQ(u)]
<1>0. AlarmQ(t) \in WaitQ /\ t \in Thread /\ destroying = NULL
      /\ UNCHANGED <<ptr, allocated, sem_value, destroying>>
  BY SemQueues DEF sys__wait_for_alarm, k_timer_interrupt, InUser, semvars, Worker
<1>1. AllLinked(k) /\ HighestRuns(k) /\ TypeOK /\ NoWaitWithTokens
  BY <1>0 DEF IInv, InUser
<1>2. CASE sys__wait_for_alarm(t)
  <2>1. /\ k.active = t /\ k' = kthreads_schedule(kthread_enqueue(k, t, AlarmQ(t)))
        /\ errno' = [errno EXCEPT ![k.active] = "SUCCESS"] /\ ret' = [ret EXCEPT ![t] = "SUCCESS"]
    BY <1>2 DEF sys__wait_for_alarm, sleep, SET_ERRNO, RETURN
  <2>2. /\ AllLinked(k') /\ HighestRuns(k') /\ \A y \in WaitQ \ {AlarmQ(t)} : k'.q[y] = k.q[y]
    BY <1>0, <1>1, <2>1, BlockAll
  <2>3. \A u \in KSem : k'.q[SemQ(u)] = k.q[SemQ(u)]
    BY <2>2, SemQueues
  <2>4. errno' \in [Thread -> Errno] /\ ret' \in [Thread -> Errno]
    BY <1>0, <2>1, ErrnoTypes DEF Errno
  <2>5. /\ sem_value' \in [KSem -> Int]
        /\ \A u \in KSem : k'.q[SemQ(u)] # <<>> => u \in allocated /\ sem_value'[u] <= 0
    BY <1>0, <1>1, <2>3 DEF TypeOK, NoWaitWithTokens
  <2>6. IInv'
    BY <1>0, <2>2, <2>4, <2>5, StepKeeps
  <2> QED
    BY <1>0, <2>3, <2>6
<1>3. CASE k_timer_interrupt(t)
  <2>1. /\ k' = kthreads_schedule(kthreadq_release(k, AlarmQ(t)))
        /\ UNCHANGED <<errno, ret>>
    BY <1>3 DEF k_timer_interrupt, wake
  <2>2. /\ AllLinked(k') /\ HighestRuns(k') /\ \A y \in WaitQ \ {AlarmQ(t)} : k'.q[y] = k.q[y]
    BY <1>0, <1>1, <2>1, WakeAll
  <2>3. \A u \in KSem : k'.q[SemQ(u)] = k.q[SemQ(u)]
    BY <2>2, SemQueues
  <2>4. errno' \in [Thread -> Errno] /\ ret' \in [Thread -> Errno]
    BY <1>1, <2>1 DEF TypeOK
  <2>5. /\ sem_value' \in [KSem -> Int]
        /\ \A u \in KSem : k'.q[SemQ(u)] # <<>> => u \in allocated /\ sem_value'[u] <= 0
    BY <1>0, <1>1, <2>3 DEF TypeOK, NoWaitWithTokens
  <2>6. IInv'
    BY <1>0, <2>2, <2>4, <2>5, StepKeeps
  <2> QED
    BY <1>0, <2>3, <2>6
<1> QED
  BY <1>2, <1>3

\* A step that changes nothing.
LEMMA StutterKeeps == ASSUME IInv, UNCHANGED vars PROVE IInv'
<1>1. UNCHANGED <<k, errno, ret, ptr, allocated, sem_value, destroying>>
  BY DEF vars, semvars
<1>2. TypeOK'
  BY <1>1 DEF IInv, TypeOK
<1> QED
  BY <1>1, <1>2 DEF IInv, InUser, NoWaitWithTokens, HandlesValid, PtrInjective

\* Every step preserves the invariant.
LEMMA NextIInv == IInv /\ [Next]_vars => IInv'
<1> SUFFICES ASSUME IInv, [Next]_vars PROVE IInv'
  OBVIOUS
<1> QED
  BY InvalidKeeps, SemInitKeeps, PostKeeps, WaitKeeps, DestroyKeeps, DestroyNextKeeps,
     DestroyDoneKeeps, SleepKeeps, StutterKeeps DEF Next, idle_thread

-----------------------------------------------------------------------------
\* The invariant holds in every reachable state.
THEOREM SpecIInv == Spec => []IInv
  BY InitIInv, NextIInv, PTL DEF Spec

\* Types, queues and mask are consistent and the highest ready priority runs,
\* after any sequence of semaphore calls (kernel/semaphore.c): posts and
\* destroys release threads without losing one or linking one twice.
THEOREM SpecSchedulingKept == Spec => []SchedulingKept
<1>1. IInv => QueuesConsistent
  BY DEF IInv, AllLinked, Linked, QueuesConsistent
<1>2. IInv => TypeOK /\ ActiveIsHighest
  BY DEF IInv, ActiveIsHighest
<1>3. IInv => SchedulingKept
  BY <1>1, <1>2 DEF SchedulingKept
<1> QED
  BY <1>3, SpecIInv, PTL

\* No thread sleeps on a semaphore that could be taken, nor on a freed one.
THEOREM SpecNoWaitWithTokens == Spec => []NoWaitWithTokens
<1>1. IInv => NoWaitWithTokens
  BY DEF IInv
<1> QED
  BY <1>1, SpecIInv, PTL

\* A sem_t never points to a freed object: destroy clears the one it was called
\* with (and, by the invariant, no other points to the same object).
THEOREM SpecHandlesValid == Spec => []HandlesValid
<1>1. IInv => HandlesValid
  BY DEF IInv
<1> QED
  BY <1>1, SpecIInv, PTL

-----------------------------------------------------------------------------
\* What a destroy needs to know about those it can pass the processor to: errno
\* is written to one of them at its end, so none may have an error to report.
\* A blocked thread has none, for the call it is blocked in returns success; in
\* user mode nobody ready is above the active thread; and while the destroy runs
\* only threads that were blocked become ready.
Reported ==
    /\ \A t \in Thread : k.state[t] = "WAIT" => ret[t] = "SUCCESS"
    /\ \A t \in Thread : ret[t] # "SUCCESS" => errno[t] = ret[t]
    /\ destroying # NULL =>
         /\ k.active = destroying[1] /\ k.state[k.active] = "ACTIVE"
         /\ \A t \in Thread : k.state[t] = "READY" /\ k.prio[t] > k.prio[k.active]
                                 => ret[t] = "SUCCESS"

\* A call that reports the same code in errno and to its caller t, and leaves
\* only t and threads that were blocked before blocked.
LEMMA CallReports ==
    ASSUME IInv, Reported, NEW t \in Thread, NEW e \in Errno,
           errno' = [errno EXCEPT ![t] = e], ret' = [ret EXCEPT ![t] = e],
           \A u \in Thread : k'.state[u] = "WAIT" => k.state[u] = "WAIT" \/ u = t,
           k'.state[t] = "WAIT" => e = "SUCCESS",
           destroying' = NULL
    PROVE  Reported'
<1>1. errno \in [Thread -> Errno] /\ ret \in [Thread -> Errno]
  BY DEF IInv, TypeOK
<1> QED
  BY <1>1 DEF Reported

\* The calls of the running worker.
LEMMA WorkerReports ==
    ASSUME IInv, Reported, NEW t \in Worker, NEW s \in Sem,
           \/ invalid_handle(t, s)
           \/ \E v \in InitValues, o \in KSem : sys__sem_init(t, s, v, o)
           \/ sys__sem_post(t, s) \/ sys__sem_wait(t, s)
    PROVE  Reported'
<1>1. /\ AllLinked(k) /\ HighestRuns(k) /\ k.active = t /\ t \in Thread
      /\ destroying = NULL /\ TypeOK
  BY RunningFacts DEF invalid_handle, sys__sem_init, sys__sem_post, sys__sem_wait
<1>2. k.state[t] = "ACTIVE" /\ k \in KState
  BY <1>1 DEF HighestRuns, AllLinked, Linked
<1>3. CASE invalid_handle(t, s)
  <2>1. /\ errno' = [errno EXCEPT ![t] = "E_INVALID_HANDLE"]
        /\ ret' = [ret EXCEPT ![t] = "E_INVALID_HANDLE"]
        /\ k' = k /\ destroying' = NULL
    BY <1>1, <1>3 DEF invalid_handle, SET_ERRNO, RETURN, semvars
  <2> QED
    BY <1>1, <1>2, <2>1, CallReports DEF Errno
<1>4. CASE \E v \in InitValues, o \in KSem : sys__sem_init(t, s, v, o)
  <2>1. /\ errno' = [errno EXCEPT ![t] = "SUCCESS"] /\ ret' = [ret EXCEPT ![t] = "SUCCESS"]
        /\ k' = k /\ destroying' = NULL
    BY <1>1, <1>4, SemInitKeeps DEF sys__sem_init, SET_ERRNO, RETURN
  <2> QED
    BY <1>1, <2>1, CallReports DEF Errno
<1>5. CASE sys__sem_post(t, s)
  <2> DEFINE r == kthreadq_release(k, SemQ(ptr[s]))
  <2>1. /\ errno' = [errno EXCEPT ![t] = "SUCCESS"] /\ ret' = [ret EXCEPT ![t] = "SUCCESS"]
        /\ k' = k \/ k' = kthreads_schedule(r)
        /\ destroying' = NULL /\ ptr[s] # NULL
    BY <1>1, <1>5 DEF sys__sem_post, SET_ERRNO, RETURN
  <2>2. SemQ(ptr[s]) \in WaitQ
    BY <1>1, <2>1, SemQueues DEF TypeOK
  <2>3. /\ \A u \in Thread : r.state[u] = k.state[u]
                             \/ (k.state[u] = "WAIT" /\ r.state[u] = "READY")
        /\ AllLinked(r)
    BY <1>1, <2>2, ReleaseLinks, ReleaseAll DEF AllLinked
  <2> HIDE DEF r
  <2>4. \A u \in Thread : kthreads_schedule(r).state[u] = "WAIT" <=> r.state[u] = "WAIT"
    BY <2>3, SchedulePicks
  <2>5. \A u \in Thread : k'.state[u] = "WAIT" => k.state[u] = "WAIT" \/ u = t
    BY <2>1, <2>3, <2>4
  <2> QED
    BY <1>1, <2>1, <2>5, CallReports DEF Errno
<1>6. CASE sys__sem_wait(t, s)
  <2> DEFINE r == kthread_enqueue(k, t, SemQ(ptr[s]))
  <2>1. /\ errno' = [errno EXCEPT ![t] = "SUCCESS"] /\ ret' = [ret EXCEPT ![t] = "SUCCESS"]
        /\ k' = k \/ k' = kthreads_schedule(r)
        /\ destroying' = NULL /\ ptr[s] # NULL
    BY <1>1, <1>6 DEF sys__sem_wait, SET_ERRNO, RETURN
  <2>2. SemQ(ptr[s]) \in WaitQ
    BY <1>1, <2>1, SemQueues DEF TypeOK
  <2>3. AllLinked(r) /\ r.state = [k.state EXCEPT ![t] = "WAIT"]
    BY <1>1, <1>2, <2>2, EnqueueAll DEF kthread_enqueue, KState
  <2> HIDE DEF r
  <2>4. \A u \in Thread : kthreads_schedule(r).state[u] = "WAIT" <=> r.state[u] = "WAIT"
    BY <2>3, SchedulePicks
  <2>5. \A u \in Thread : k'.state[u] = "WAIT" => k.state[u] = "WAIT" \/ u = t
    BY <1>2, <2>1, <2>3, <2>4 DEF KState
  <2> QED
    BY <1>1, <2>1, <2>5, CallReports DEF Errno
<1> QED
  BY <1>3, <1>4, <1>5, <1>6

\* Sleeping and waking.
LEMMA SleepReports ==
    ASSUME IInv, Reported, NEW t \in Worker, sys__wait_for_alarm(t) \/ k_timer_interrupt(t)
    PROVE  Reported'
<1>0. AlarmQ(t) \in WaitQ /\ t \in Thread /\ destroying = NULL /\ destroying' = NULL
  BY SemQueues DEF sys__wait_for_alarm, k_timer_interrupt, InUser, semvars, Worker
<1>1. AllLinked(k) /\ HighestRuns(k) /\ TypeOK /\ k \in KState
  BY <1>0 DEF IInv, InUser, TypeOK
<1>2. CASE sys__wait_for_alarm(t)
  <2> DEFINE r == kthread_enqueue(k, t, AlarmQ(t))
  <2>1. /\ k.active = t /\ k' = kthreads_schedule(r)
        /\ errno' = [errno EXCEPT ![t] = "SUCCESS"] /\ ret' = [ret EXCEPT ![t] = "SUCCESS"]
    BY <1>2 DEF sys__wait_for_alarm, sleep, SET_ERRNO, RETURN
  <2>2. k.state[t] = "ACTIVE"
    BY <1>1, <2>1 DEF HighestRuns
  <2>3. AllLinked(r) /\ r.state = [k.state EXCEPT ![t] = "WAIT"]
    BY <1>0, <1>1, <2>1, <2>2, EnqueueAll DEF kthread_enqueue, KState
  <2> HIDE DEF r
  <2>4. \A u \in Thread : kthreads_schedule(r).state[u] = "WAIT" <=> r.state[u] = "WAIT"
    BY <2>3, SchedulePicks
  <2>5. \A u \in Thread : k'.state[u] = "WAIT" => k.state[u] = "WAIT" \/ u = t
    BY <1>1, <2>1, <2>3, <2>4 DEF KState
  <2> QED
    BY <1>0, <2>1, <2>5, CallReports DEF Errno
<1>3. CASE k_timer_interrupt(t)
  <2> DEFINE r == kthreadq_release(k, AlarmQ(t))
  <2>1. k' = kthreads_schedule(r) /\ UNCHANGED <<errno, ret>>
    BY <1>3 DEF k_timer_interrupt, wake
  <2>3. /\ \A u \in Thread : r.state[u] = k.state[u]
                             \/ (k.state[u] = "WAIT" /\ r.state[u] = "READY")
        /\ AllLinked(r)
    BY <1>0, <1>1, ReleaseLinks, ReleaseAll DEF AllLinked
  <2> HIDE DEF r
  <2>4. \A u \in Thread : kthreads_schedule(r).state[u] = "WAIT" <=> r.state[u] = "WAIT"
    BY <2>3, SchedulePicks
  <2>5. \A u \in Thread : k'.state[u] = "WAIT" => k.state[u] = "WAIT"
    BY <2>1, <2>3, <2>4
  <2> QED
    BY <1>0, <2>1, <2>5 DEF Reported
<1> QED
  BY <1>2, <1>3

\* The steps of a destroy.  It begins in user mode ...
LEMMA DestroyReports ==
    ASSUME IInv, Reported, NEW t \in Worker, NEW s \in Sem, sys__sem_destroy(t, s)
    PROVE  Reported'
<1>1. /\ Running(t) /\ destroying' = <<t, s>> /\ UNCHANGED <<k, errno, ret>>
  BY DEF sys__sem_destroy
<1>2. AllLinked(k) /\ HighestRuns(k) /\ k.active = t
  BY <1>1, RunningFacts
<1>3. \A u \in Thread : ~(k.state[u] = "READY" /\ k.prio[u] > k.prio[k.active])
  BY <1>2, NoneAbove DEF AllLinked
<1> QED
  BY <1>1, <1>2, <1>3 DEF Reported, HighestRuns

\* ... makes blocked threads ready ...
LEMMA DestroyNextReports ==
    ASSUME IInv, Reported, destroy_next PROVE Reported'
<1> DEFINE x == SemQ(ptr[destroying[2]])
<1>1. destroying # NULL /\ k' = kthreadq_release(k, x) /\ UNCHANGED <<errno, ret, destroying>>
  BY DEF destroy_next, semvars
<1>2. x \in WaitQ /\ AllLinked(k) /\ k \in KState
  BY <1>1, DestroyingFacts DEF TypeOK
<1>3. /\ k'.prio = k.prio /\ k'.active = k.active
      /\ \A u \in Thread : k'.state[u] = k.state[u]
                           \/ (k.state[u] = "WAIT" /\ k'.state[u] = "READY")
  BY <1>1, <1>2, ReleaseLinks DEF AllLinked
<1>4. k.active \in Thread
  BY <1>2 DEF KState
<1> HIDE DEF x
<1> QED
  BY <1>1, <1>3, <1>4 DEF Reported

\* ... and writes errno for its caller or for one of those above it.
LEMMA DestroyDoneReports ==
    ASSUME IInv, Reported, destroy_done PROVE Reported'
<1> DEFINE n == kthreads_schedule(k)
<1>1. /\ destroying # NULL /\ k' = n /\ destroying' = NULL
      /\ errno' = [errno EXCEPT ![n.active] = "SUCCESS"]
      /\ ret' = [ret EXCEPT ![destroying[1]] = "SUCCESS"]
  BY DEF destroy_done, SET_ERRNO, RETURN
<1>2. destroying[1] \in Thread /\ AllLinked(k)
      /\ errno \in [Thread -> Errno] /\ ret \in [Thread -> Errno]
  BY <1>1, DestroyingFacts DEF Worker, TypeOK
<1>3. k.active = destroying[1] /\ k.state[k.active] = "ACTIVE"
  BY <1>1 DEF Reported
<1>4. /\ \A u \in Thread : n.state[u] = "WAIT" <=> k.state[u] = "WAIT"
      /\ n.active = k.active
         \/ (k.state[n.active] = "READY" /\ k.prio[n.active] > k.prio[k.active])
  BY <1>2, <1>3, SchedulePicks
<1>5. n.active \in Thread
  BY <1>2, ScheduleAll DEF AllLinked, Linked, KState
<1> HIDE DEF n
<1>6. ret'[n.active] = "SUCCESS"
  BY <1>1, <1>2, <1>3, <1>4, <1>5 DEF Reported
<1> QED
  BY <1>1, <1>2, <1>4, <1>5, <1>6 DEF Reported

\* A failed call is not hidden from its caller: errno still has the error when
\* the caller runs, whatever destroys by others wrote to the errno of the thread
\* that happened to be active (sys__sem_destroy, kernel/semaphore.c).
THEOREM SpecFailureReported == Spec => []FailureReported
<1>1. Init => Reported
  BY DEF Init, Reported
<1>2. IInv /\ Reported /\ [Next]_vars => Reported'
  <2> SUFFICES ASSUME IInv, Reported, [Next]_vars PROVE Reported'
    OBVIOUS
  <2>1. ASSUME UNCHANGED vars PROVE Reported'
    BY <2>1 DEF vars, semvars, Reported
  <2> QED
    BY <2>1, WorkerReports, SleepReports, DestroyReports, DestroyNextReports,
       DestroyDoneReports DEF Next, idle_thread
<1>3. Reported => FailureReported
  BY DEF Reported, FailureReported, Worker
<1> QED
  BY <1>1, <1>2, <1>3, SpecIInv, PTL DEF Spec

-----------------------------------------------------------------------------
\* The abstract queues under the refinement mapping.
waiting == [o \in KSem |-> k.q[SemQ(o)]]

\* When the queue of one object changes, only that component of the abstract
\* queues does.
LEMMA OneQueue ==
    ASSUME NEW o \in KSem, NEW v, k'.q[SemQ(o)] = v,
           \A u \in KSem \ {o} : k'.q[SemQ(u)] = k.q[SemQ(u)]
    PROVE  waiting' = [waiting EXCEPT ![o] = v]
  BY DEF waiting

\* When no queue changes, the abstract queues do not.
LEMMA NoQueue ==
    ASSUME \A u \in KSem : k'.q[SemQ(u)] = k.q[SemQ(u)] PROVE waiting' = waiting
  BY DEF waiting

\* Every step of the kernel is a step of SemaphoreAbs or does not show there.
LEMMA StepImplements ==
    ASSUME IInv, [Next]_vars
    PROVE  [Abs!Next]_<<allocated, sem_value, waiting>>
<1>1. ASSUME NEW t \in Worker, NEW s \in Sem, NEW v \in InitValues, NEW o \in KSem,
             sys__sem_init(t, s, v, o)
      PROVE  Abs!Create(o)
  <2>1. k' = k
    BY <1>1, SemInitKeeps
  <2>2. o \notin allocated /\ allocated' = allocated \cup {o}
        /\ sem_value' = [sem_value EXCEPT ![o] = v]
    BY <1>1 DEF sys__sem_init
  <2> QED
    BY <2>1, <2>2 DEF Abs!Create
<1>2. ASSUME NEW t \in Worker, NEW s \in Sem, sys__sem_post(t, s)
      PROVE  \E o \in KSem : Abs!Give(o) \/ Abs!Release(o)
  <2> DEFINE o == ptr[s]
  <2>1. /\ o \in allocated /\ o \in KSem /\ UNCHANGED allocated
        /\ \/ /\ k.q[SemQ(o)] = <<>> /\ k' = k
              /\ sem_value' = [sem_value EXCEPT ![o] = @ + 1]
           \/ /\ k.q[SemQ(o)] # <<>> /\ sem_value' = sem_value
              /\ k'.q[SemQ(o)] = Tail(k.q[SemQ(o)])
              /\ \A u \in KSem \ {o} : k'.q[SemQ(u)] = k.q[SemQ(u)]
    BY <1>2, PostKeeps
  <2> HIDE DEF o
  <2>2. CASE k.q[SemQ(o)] = <<>>
    BY <2>1, <2>2 DEF Abs!Give
  <2>3. CASE k.q[SemQ(o)] # <<>>
    <3>1. waiting' = [waiting EXCEPT ![o] = Tail(k.q[SemQ(o)])] /\ waiting[o] = k.q[SemQ(o)]
      BY <2>1, <2>3, OneQueue DEF waiting
    <3> QED
      BY <2>1, <2>3, <3>1 DEF Abs!Release, waiting
  <2> QED
    BY <2>2, <2>3
<1>3. ASSUME NEW t \in Worker, NEW s \in Sem, sys__sem_wait(t, s)
      PROVE  \E o \in KSem : Abs!Take(o) \/ Abs!Block(o)
  <2> DEFINE o == ptr[s]
  <2>1. /\ o \in allocated /\ o \in KSem /\ UNCHANGED allocated
        /\ \/ /\ sem_value[o] > 0 /\ k' = k
              /\ sem_value' = [sem_value EXCEPT ![o] = @ - 1]
           \/ /\ sem_value[o] <= 0 /\ sem_value' = sem_value
              /\ k'.q[SemQ(o)] = Append(k.q[SemQ(o)], t)
              /\ \A u \in KSem \ {o} : k'.q[SemQ(u)] = k.q[SemQ(u)]
    BY <1>3, WaitKeeps
  <2> HIDE DEF o
  <2>2. CASE sem_value[o] > 0 /\ k' = k /\ sem_value' = [sem_value EXCEPT ![o] = @ - 1]
    BY <2>1, <2>2 DEF Abs!Take
  <2>3. CASE /\ sem_value[o] <= 0 /\ sem_value' = sem_value
             /\ k'.q[SemQ(o)] = Append(k.q[SemQ(o)], t)
             /\ \A u \in KSem \ {o} : k'.q[SemQ(u)] = k.q[SemQ(u)]
    <3>1. waiting' = [waiting EXCEPT ![o] = Append(k.q[SemQ(o)], t)]
          /\ waiting[o] = k.q[SemQ(o)]
      BY <2>1, <2>3, OneQueue DEF waiting
    <3> QED
      BY <2>1, <2>3, <3>1 DEF Abs!Block, waiting
  <2> QED
    BY <2>1, <2>2, <2>3
<1>4. ASSUME destroy_next PROVE \E o \in KSem : Abs!Release(o)
  <2> DEFINE o == ptr[destroying[2]]
  <2>1. /\ o \in allocated /\ o \in KSem /\ k.q[SemQ(o)] # <<>>
        /\ k'.q[SemQ(o)] = Tail(k.q[SemQ(o)])
        /\ \A u \in KSem \ {o} : k'.q[SemQ(u)] = k.q[SemQ(u)]
        /\ UNCHANGED <<allocated, sem_value>>
    BY <1>4, DestroyNextKeeps
  <2> HIDE DEF o
  <2>2. waiting' = [waiting EXCEPT ![o] = Tail(k.q[SemQ(o)])] /\ waiting[o] = k.q[SemQ(o)]
    BY <2>1, OneQueue DEF waiting
  <2> QED
    BY <2>1, <2>2 DEF Abs!Release, waiting
<1>5. ASSUME destroy_done PROVE \E o \in KSem : Abs!Free(o)
  <2> DEFINE o == ptr[destroying[2]]
  <2>1. /\ o \in allocated /\ o \in KSem /\ k.q[SemQ(o)] = <<>>
        /\ allocated' = allocated \ {o} /\ UNCHANGED sem_value
        /\ \A u \in KSem : k'.q[SemQ(u)] = k.q[SemQ(u)]
    BY <1>5, DestroyDoneKeeps
  <2> HIDE DEF o
  <2>2. waiting' = waiting
    BY <2>1, NoQueue
  <2> QED
    BY <2>1, <2>2 DEF Abs!Free, waiting
<1>6. ASSUME NEW t \in Worker, sys__wait_for_alarm(t) \/ k_timer_interrupt(t)
      PROVE  UNCHANGED <<allocated, sem_value, waiting>>
  BY <1>6, SleepKeeps, NoQueue
<1>7. ASSUME NEW t \in Worker, NEW s \in Sem, invalid_handle(t, s) \/ sys__sem_destroy(t, s)
      PROVE  UNCHANGED <<allocated, sem_value, waiting>>
  BY <1>7 DEF invalid_handle, sys__sem_destroy, semvars, waiting
<1>8. ASSUME UNCHANGED vars PROVE UNCHANGED <<allocated, sem_value, waiting>>
  BY <1>8 DEF vars, semvars, waiting
<1>9. (\E o \in KSem : Abs!Create(o) \/ Abs!Take(o) \/ Abs!Block(o)
                       \/ Abs!Give(o) \/ Abs!Release(o) \/ Abs!Free(o)) => Abs!Next
  BY DEF Abs!Next
<1> QED
  BY <1>1, <1>2, <1>3, <1>4, <1>5, <1>6, <1>7, <1>8, <1>9 DEF Next, idle_thread

\* The kernel's semaphores implement SemaphoreAbs, for any number of threads,
\* priorities and objects.
THEOREM SpecImplementsAbs == Spec => ImplementsAbs
<1>1. Init => Abs!Init
  <2> SUFFICES ASSUME Init PROVE Abs!Init
    OBVIOUS
  <2>1. \A o \in KSem : k.q[SemQ(o)] = <<>>
    BY InitIInv DEF IInv, NoWaitWithTokens, Init
  <2> QED
    BY <2>1 DEF Abs!Init, Init
<1>2. IInv /\ [Next]_vars => [Abs!Next]_<<allocated, sem_value, waiting>>
  BY StepImplements
<1> QED
  BY <1>1, <1>2, SpecIInv, PTL DEF Spec, ImplementsAbs, Abs!Spec, waiting
=============================================================================

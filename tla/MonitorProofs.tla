---------------------------- MODULE MonitorProofs ---------------------------
(***************************************************************************)
(* The monitors for any number of workers, priorities, monitors and        *)
(* condition queues, for programs that destroy no monitor while threads    *)
(* wait on its conditions (use "destroyMonitor"): such a destroy leaves    *)
(* them with the address of a freed monitor.                               *)
(*                                                                         *)
(* The properties are not inductive by themselves.  That a signalled       *)
(* thread finds its monitor rests on qdata naming an existing monitor the  *)
(* thread has claimed; that it may become the owner of an open one, on an  *)
(* open monitor having no owner; that a destroy takes the right object, on *)
(* no two variables sharing one.                                           *)
(***************************************************************************)
EXTENDS Monitor, KThreadsProofs

\* The alarms of the workers: all asleep and the idle thread active is a consistent
\* state.
LEMMA InitAll == InitWorkers => AllLinked(k) /\ HighestRuns(k) /\ ActiveFree(k)
                                /\ \A x \in WaitQ \ AlarmQs : k.q[x] = <<>>
<1> SUFFICES ASSUME InitWorkers
             PROVE  AllLinked(k) /\ HighestRuns(k) /\ ActiveFree(k)
                    /\ \A x \in WaitQ \ AlarmQs : k.q[x] = <<>>
  OBVIOUS
<1> DEFINE a == [t \in Worker |-> AlarmQ(t)]
<1>1. PICK prio \in [Thread -> Prio] :
         k = [state  |-> [t \in Thread |-> IF t = Idle THEN "ACTIVE" ELSE "WAIT"],
              prio   |-> prio,
              queue  |-> [t \in Thread |-> IF t = Idle THEN NULL ELSE AlarmQ(t)],
              q      |-> [x \in Queue |-> IF x \in AlarmQs THEN <<x[2]>> ELSE <<>>],
              mask   |-> {}, active |-> Idle]
  BY DEF InitWorkers
<1>2. /\ \A t \in Worker : /\ t \in Thread /\ AlarmQ(t) \in WaitQ /\ AlarmQ(t) \in Queue
                           /\ AlarmQ(t) \in AlarmQs /\ AlarmQ(t)[2] = t
      /\ \A x \in AlarmQs : x[2] \in Worker /\ x = AlarmQ(x[2])
  BY WorkersAssumption, QueueNames DEF Worker, AlarmQs, AlarmQ
<1>3. \A x \in Queue : /\ x \in AlarmQs => k.q[x] = <<x[2]>>
                       /\ x \notin AlarmQs => k.q[x] = <<>>
  BY <1>1
<1>4. k \in KState
  <2>1. k.state \in [Thread -> ThreadState] /\ k.active \in Thread
    BY <1>1, KThreadsAssumption DEF ThreadState
  <2>2. k.queue \in [Thread -> Queue \cup {NULL}]
    BY <1>1, <1>2 DEF Worker
  <2>3. k.q \in [Queue -> Seq(Thread)]
    <3>1. \A x \in Queue : (IF x \in AlarmQs THEN <<x[2]>> ELSE <<>>) \in Seq(Thread)
      BY <1>2
    <3> QED
      BY <1>1, <3>1
  <2> QED
    BY <1>1, <2>1, <2>2, <2>3 DEF KState
<1>5. /\ a \in [Worker -> WaitQ] /\ \A t, u \in Worker : a[t] = a[u] => t = u
      /\ \A t \in Worker : a[t] = AlarmQ(t)
  BY <1>2
<1>6. /\ k.state = [t \in Thread |-> IF t = Idle THEN "ACTIVE" ELSE "WAIT"]
      /\ k.mask = {} /\ k.active = Idle
  BY <1>1
<1>7. k.queue = [t \in Thread |-> IF t = Idle THEN NULL ELSE a[t]]
  BY <1>1, <1>5 DEF Worker
<1> HIDE DEF a
<1>8. \A t \in Worker : k.q[a[t]] = <<t>>
  BY <1>2, <1>3, <1>5
<1>9. \A x \in Queue : (\A t \in Worker : x # a[t]) => k.q[x] = <<>>
  BY <1>2, <1>3, <1>5
<1>10. AllLinked(k) /\ HighestRuns(k) /\ ActiveFree(k)
  BY <1>4, <1>5, <1>6, <1>7, <1>8, <1>9, AsleepAll
<1> QED
  BY <1>3, <1>10, QueueNames

\* A variable points to an object that exists, and no two share one.
Handles ==
    /\ \A m \in Mon : mptr[m] # NULL => mptr[m] \in mons
    /\ \A m, r \in Mon : mptr[m] # NULL /\ mptr[m] = mptr[r] => m = r
    /\ \A c \in Cond : cptr[c] # NULL => cptr[c] \in conds
    /\ \A c, r \in Cond : cptr[c] # NULL /\ cptr[c] = cptr[r] => c = r

\* A loop of the kernel is at work on an object that exists; a monitor that is
\* being destroyed has nobody on its conditions.
CallOK ==
    kcall # NULL =>
        \/ /\ kcall[1] \in {"signal", "broadcast", "signalled", "queue_destroy"}
           /\ kcall[3] \in Cond /\ cptr[kcall[3]] # NULL
        \/ /\ kcall[1] = "destroy" /\ kcall[3] \in Mon /\ mptr[kcall[3]] # NULL
           /\ \A t \in Worker : ~on_condition(t, mptr[kcall[3]])

\* Claims are on existing monitors.  Whoever stands at an entrance has claimed
\* that monitor, and it is locked; whoever waits on a condition has claimed the
\* monitor its qdata names.
Waiters ==
    \A t \in Thread :
        /\ claim[t] \subseteq mons
        /\ \A o \in KMon : k.queue[t] = MonQ(o) => o \in claim[t] /\ lock[o]
        /\ \A x \in KCond : k.queue[t] = CondQ(x) => x \in conds /\ qdata[t] \in claim[t]

\* A locked monitor is owned by a thread that claims it and is not on one of its
\* conditions, an open one by nobody.
Owners ==
    \A o \in mons :
        /\ lock[o] => /\ owner[o] \in Worker /\ o \in claim[owner[o]]
                      /\ ~on_condition(owner[o], o)
        /\ ~lock[o] => owner[o] = NULL

\* The inductive invariant.
IInv ==
    /\ TypeOK
    /\ AllLinked(k)
    /\ ActiveFree(k)
    /\ InUser => HighestRuns(k)
    /\ Handles
    /\ CallOK
    /\ Waiters
    /\ Owners

\* The queues of monitors, conditions and alarms are different ones.
LEMMA MonQueues ==
    /\ \A o \in KMon : MonQ(o) \in WaitQ
    /\ \A x \in KCond : CondQ(x) \in WaitQ
    /\ \A t \in Worker : AlarmQ(t) \in WaitQ
    /\ \A o, u \in KMon : MonQ(o) = MonQ(u) => o = u
    /\ \A x, y \in KCond : CondQ(x) = CondQ(y) => x = y
    /\ \A o \in KMon, x \in KCond : MonQ(o) # CondQ(x)
    /\ \A o \in KMon, t \in Worker : MonQ(o) # AlarmQ(t)
    /\ \A x \in KCond, t \in Worker : CondQ(x) # AlarmQ(t)
<1>1. ASSUME NEW o, NEW x PROVE <<"monitor", o>> # <<"condition", x>>
  <2> SUFFICES ASSUME <<"monitor", o>> = <<"condition", x>> PROVE FALSE
    OBVIOUS
  <2>1. <<"monitor", o>>[1] = <<"condition", x>>[1]
    OBVIOUS
  <2> QED
    BY <2>1
<1>2. ASSUME NEW o, NEW x PROVE <<"monitor", o>> # <<"alarm", x>>
  <2> SUFFICES ASSUME <<"monitor", o>> = <<"alarm", x>> PROVE FALSE
    OBVIOUS
  <2>1. <<"monitor", o>>[1] = <<"alarm", x>>[1]
    OBVIOUS
  <2> QED
    BY <2>1
<1>3. ASSUME NEW o, NEW x PROVE <<"condition", o>> # <<"alarm", x>>
  <2> SUFFICES ASSUME <<"condition", o>> = <<"alarm", x>> PROVE FALSE
    OBVIOUS
  <2>1. <<"condition", o>>[1] = <<"alarm", x>>[1]
    OBVIOUS
  <2> QED
    BY <2>1
<1>4. \A o, u \in KMon : MonQ(o) = MonQ(u) => o = u
  BY DEF MonQ
<1>5. \A x, y \in KCond : CondQ(x) = CondQ(y) => x = y
  BY DEF CondQ
<1>6. \A o \in KMon, x \in KCond : MonQ(o) # CondQ(x)
  BY <1>1 DEF MonQ, CondQ
<1>7. \A o \in KMon, t \in Worker : MonQ(o) # AlarmQ(t)
  BY <1>2 DEF MonQ, AlarmQ
<1>8. \A x \in KCond, t \in Worker : CondQ(x) # AlarmQ(t)
  BY <1>3 DEF CondQ, AlarmQ
<1> QED
  BY <1>4, <1>5, <1>6, <1>7, <1>8, MonitorAssumption DEF AlarmQs

\* The initial state satisfies the invariant.
LEMMA InitIInv == Init => IInv
<1> SUFFICES ASSUME Init PROVE IInv
  OBVIOUS
<1>1. AllLinked(k) /\ HighestRuns(k) /\ ActiveFree(k)
      /\ \A x \in WaitQ \ AlarmQs : k.q[x] = <<>>
  BY InitAll DEF Init
<1>2. \A t \in Thread, x \in WaitQ \ AlarmQs : k.queue[t] # x
  <2>1. \A t \in Thread, x \in WaitQ \ AlarmQs :
            k.queue[t] = x <=> \E i \in 1..Len(k.q[x]) : k.q[x][i] = t
    BY <1>1, QueueTrue
  <2>2. \A x \in WaitQ \ AlarmQs : Len(k.q[x]) = 0
    BY <1>1
  <2> QED
    BY <2>1, <2>2
<1>3. /\ \A o \in KMon : MonQ(o) \in WaitQ \ AlarmQs
      /\ \A x \in KCond : CondQ(x) \in WaitQ \ AlarmQs
  BY MonQueues DEF AlarmQs
<1>4. TypeOK
  BY <1>1 DEF Init, TypeOK, AllLinked, Linked
<1>5. Handles /\ CallOK /\ Owners
  BY DEF Init, Handles, CallOK, Owners
<1>6. Waiters
  BY <1>2, <1>3 DEF Init, Waiters
<1> QED
  BY <1>1, <1>4, <1>5, <1>6 DEF IInv

\* What holds when a worker makes a call.
LEMMA RunningFacts ==
    ASSUME IInv, NEW t \in Worker, Running(t)
    PROVE  /\ AllLinked(k) /\ HighestRuns(k) /\ ActiveFree(k) /\ k.active = t
           /\ t \in Thread /\ kcall = NULL /\ TypeOK
           /\ \A o \in KMon : k.queue[t] # MonQ(o)
           /\ \A x \in KCond : k.queue[t] # CondQ(x)
<1>1. /\ AllLinked(k) /\ HighestRuns(k) /\ ActiveFree(k) /\ k.active = t
      /\ t \in Thread /\ kcall = NULL /\ TypeOK
  BY DEF IInv, Running, InUser, Worker
<1> QED
  BY <1>1, MonQueues DEF ActiveFree

\* A step after which the objects are the same and the scheduling state is in
\* order keeps the invariant if it keeps its last three parts.
LEMMA StepKeeps ==
    ASSUME IInv, UNCHANGED <<mptr, cptr, mons, conds>>,
           AllLinked(k'), ActiveFree(k'), kcall' = NULL => HighestRuns(k'),
           lock' \in [KMon -> BOOLEAN], owner' \in [KMon -> Worker \cup {NULL}],
           qdata' \in [Thread -> KMon \cup {NULL}], claim' \in [Thread -> SUBSET KMon],
           kcall' \in Call \cup {NULL}, CallOK', Waiters', Owners'
    PROVE  IInv'
<1>1. TypeOK'
  BY DEF IInv, TypeOK, AllLinked, Linked
<1>2. Handles'
  BY DEF IInv, Handles
<1> QED
  BY <1>1, <1>2 DEF IInv, InUser

\* A new monitor: nobody claims it, so nobody stands at its entrance.
LEMMA MonitorInitKeeps ==
    ASSUME IInv, NEW t \in Worker, NEW m \in Mon, NEW o \in KMon, sys__monitor_init(t, m, o)
    PROVE  IInv' /\ k' = k
<1>1. /\ Running(t) /\ o \notin mons /\ mons' = mons \cup {o} /\ mptr' = [mptr EXCEPT ![m] = o]
      /\ lock' = [lock EXCEPT ![o] = FALSE] /\ owner' = [owner EXCEPT ![o] = NULL]
      /\ k' = [k EXCEPT !.q[MonQ(o)] = <<>>]
      /\ UNCHANGED <<cptr, conds, qdata, kcall, claim>>
  BY DEF sys__monitor_init
<1>2. /\ AllLinked(k) /\ HighestRuns(k) /\ ActiveFree(k) /\ kcall = NULL /\ TypeOK
  BY <1>1, RunningFacts
<1>3. MonQ(o) \in WaitQ /\ MonQ(o) \in Queue /\ k \in KState
      /\ k.q \in [Queue -> Seq(Thread)]
  BY <1>2, MonQueues, QueueNames DEF TypeOK, KState
<1>4. \A u \in Thread : k.queue[u] # MonQ(o)
  BY <1>1 DEF IInv, Waiters
<1>5. k.q[MonQ(o)] = <<>>
  <2> SUFFICES ASSUME k.q[MonQ(o)] # <<>> PROVE FALSE
    OBVIOUS
  <2> QED
    BY <1>2, <1>3, <1>4, HeadStands
<1>6. k' = k
  <2>1. [k.q EXCEPT ![MonQ(o)] = <<>>] = k.q
    BY <1>3, <1>5
  <2> QED
    BY <1>1, <1>3, <2>1 DEF KState
<1>7. TypeOK'
  BY <1>1, <1>2, <1>6 DEF TypeOK
<1>8. Handles'
  BY <1>1, <1>2 DEF IInv, Handles, TypeOK
<1>9. \A p \in KMon : p # o => lock'[p] = lock[p] /\ owner'[p] = owner[p]
  BY <1>1, <1>2 DEF TypeOK
<1>10. ~lock'[o] /\ owner'[o] = NULL
  BY <1>1, <1>2 DEF TypeOK
<1>11. Waiters'
  BY <1>1, <1>4, <1>6, <1>9 DEF IInv, Waiters
<1>12. Owners'
  BY <1>1, <1>2, <1>6, <1>9, <1>10 DEF IInv, Owners, on_condition, TypeOK
<1> QED
  BY <1>1, <1>2, <1>6, <1>7, <1>8, <1>11, <1>12 DEF IInv, InUser, CallOK

\* A new condition queue.
LEMMA QueueInitKeeps ==
    ASSUME IInv, NEW t \in Worker, NEW c \in Cond, NEW x \in KCond,
           sys__monitor_queue_init(t, c, x)
    PROVE  IInv' /\ k' = k
<1>1. /\ Running(t) /\ x \notin conds /\ conds' = conds \cup {x} /\ cptr' = [cptr EXCEPT ![c] = x]
      /\ k' = [k EXCEPT !.q[CondQ(x)] = <<>>]
      /\ UNCHANGED <<mptr, mons, lock, owner, qdata, kcall, claim>>
  BY DEF sys__monitor_queue_init
<1>2. /\ AllLinked(k) /\ HighestRuns(k) /\ ActiveFree(k) /\ kcall = NULL /\ TypeOK
  BY <1>1, RunningFacts
<1>3. CondQ(x) \in WaitQ /\ CondQ(x) \in Queue /\ k \in KState
      /\ k.q \in [Queue -> Seq(Thread)]
  BY <1>2, MonQueues, QueueNames DEF TypeOK, KState
<1>4. \A u \in Thread : k.queue[u] # CondQ(x)
  BY <1>1 DEF IInv, Waiters
<1>5. k.q[CondQ(x)] = <<>>
  <2> SUFFICES ASSUME k.q[CondQ(x)] # <<>> PROVE FALSE
    OBVIOUS
  <2> QED
    BY <1>2, <1>3, <1>4, HeadStands
<1>6. k' = k
  <2>1. [k.q EXCEPT ![CondQ(x)] = <<>>] = k.q
    BY <1>3, <1>5
  <2> QED
    BY <1>1, <1>3, <2>1 DEF KState
<1>7. TypeOK'
  BY <1>1, <1>2, <1>6 DEF TypeOK
<1>8. Handles'
  BY <1>1, <1>2 DEF IInv, Handles, TypeOK
<1>11. Waiters'
  BY <1>1, <1>6 DEF IInv, Waiters
<1>12. Owners'
  BY <1>1, <1>6 DEF IInv, Owners, on_condition
<1> QED
  BY <1>1, <1>2, <1>6, <1>7, <1>8, <1>11, <1>12 DEF IInv, InUser, CallOK

\* monitor_lock takes an open monitor or blocks the caller at its entrance.
LEMMA LockKeeps ==
    ASSUME IInv, NEW t \in Worker, NEW m \in Mon, sys__monitor_lock(t, m)
    PROVE  LET o == mptr[m] IN
           /\ IInv' /\ o \in mons /\ o \in KMon /\ kcall = NULL
           /\ UNCHANGED <<mons, qdata, kcall, cptr, mptr>>
           /\ claim' = [claim EXCEPT ![t] = @ \cup {o}]
           /\ \/ k' = k /\ ~lock[o] /\ owner' = [owner EXCEPT ![o] = t]
              \/ /\ owner' = owner
                 /\ \A u \in Thread, y \in WaitQ :
                        k'.queue[u] = y <=> IF u = t THEN y = MonQ(o) ELSE k.queue[u] = y
<1> DEFINE o == mptr[m]
           n == kthreads_schedule(kthread_enqueue(k, t, MonQ(o)))
<1>1. /\ Running(t) /\ o # NULL /\ UNCHANGED <<mptr, cptr, mons, conds, qdata, kcall>>
      /\ claim' = [claim EXCEPT ![t] = @ \cup {o}]
  BY DEF sys__monitor_lock
<1>2. /\ AllLinked(k) /\ HighestRuns(k) /\ ActiveFree(k) /\ k.active = t
      /\ t \in Thread /\ kcall = NULL /\ TypeOK
      /\ \A p \in KMon : k.queue[t] # MonQ(p)
      /\ \A x \in KCond : k.queue[t] # CondQ(x)
  BY <1>1, RunningFacts
<1>3. /\ o \in mons /\ o \in KMon /\ MonQ(o) \in WaitQ
      /\ lock \in [KMon -> BOOLEAN] /\ owner \in [KMon -> Worker \cup {NULL}]
      /\ qdata \in [Thread -> KMon \cup {NULL}] /\ claim \in [Thread -> SUBSET KMon]
      /\ Waiters /\ Owners /\ mons \subseteq KMon
  BY <1>1, <1>2, MonQueues DEF IInv, Handles, TypeOK
<1>4. /\ claim' \in [Thread -> SUBSET KMon] /\ qdata' \in [Thread -> KMon \cup {NULL}]
      /\ CallOK'
      /\ \A u \in Thread : claim'[u] = IF u = t THEN claim[u] \cup {o} ELSE claim[u]
  BY <1>1, <1>2, <1>3 DEF CallOK
<1> HIDE DEF o
<1>5. CASE ~lock[o]
  <2>1. lock' = [lock EXCEPT ![o] = TRUE] /\ owner' = [owner EXCEPT ![o] = t] /\ k' = k
    BY <1>5 DEF sys__monitor_lock, o
  <2>2. /\ lock' \in [KMon -> BOOLEAN] /\ owner' \in [KMon -> Worker \cup {NULL}]
        /\ lock'[o] /\ owner'[o] = t
        /\ \A p \in KMon : p # o => lock'[p] = lock[p] /\ owner'[p] = owner[p]
    BY <1>2, <1>3, <2>1
  <2>3. Waiters'
    BY <1>1, <1>2, <1>3, <1>4, <2>1, <2>2 DEF Waiters
  <2>4. Owners'
    BY <1>1, <1>2, <1>3, <1>4, <2>1, <2>2 DEF Owners, on_condition, Worker
  <2>5. IInv'
    BY <1>1, <1>2, <1>4, <2>1, <2>2, <2>3, <2>4, StepKeeps
  <2> QED
    BY <1>1, <1>2, <1>3, <1>5, <2>1, <2>5 DEF o
<1>6. CASE lock[o]
  <2>1. k' = n /\ UNCHANGED <<lock, owner>>
    BY <1>6 DEF sys__monitor_lock, o
  <2>2. /\ AllLinked(n) /\ HighestRuns(n) /\ ActiveFree(n)
        /\ \A u \in Thread, y \in WaitQ :
              n.queue[u] = y <=> IF u = t THEN y = MonQ(o) ELSE k.queue[u] = y
    BY <1>2, <1>3, BlockMoves
  <2> HIDE DEF n
  <2>3. /\ \A u \in Thread, p \in KMon :
              k'.queue[u] = MonQ(p) <=> IF u = t THEN p = o ELSE k.queue[u] = MonQ(p)
        /\ \A u \in Thread, x \in KCond :
              k'.queue[u] = CondQ(x) <=> u # t /\ k.queue[u] = CondQ(x)
    BY <1>3, <2>1, <2>2, MonQueues
  <2>4. Waiters'
    BY <1>1, <1>3, <1>4, <1>6, <2>1, <2>3 DEF Waiters
  <2>5. Owners'
    BY <1>1, <1>2, <1>3, <1>4, <2>1, <2>3 DEF Owners, on_condition, Worker
  <2>6. IInv'
    BY <1>1, <1>2, <1>3, <1>4, <2>1, <2>2, <2>4, <2>5, StepKeeps
  <2> QED
    BY <1>1, <1>2, <1>3, <2>1, <2>2, <2>6 DEF o
<1> QED
  BY <1>5, <1>6

\* Whom pass_on lets in: the first thread h at the entrance of o, which claims o
\* and then waits for nothing.  t is the thread that leaves.
LEMMA PassOnKeeps ==
    ASSUME IInv, NEW t \in Worker, NEW o \in KMon, o \in mons, owner[o] = t, k.active = t,
           UNCHANGED <<mons, conds>>,
           owner' = [owner EXCEPT ![o] = IF k.q[MonQ(o)] = <<>> THEN NULL ELSE Head(k.q[MonQ(o)])],
           lock' = [lock EXCEPT ![o] = k.q[MonQ(o)] # <<>>],
           claim' \in [Thread -> SUBSET KMon],
           \A u \in Thread : u # t => claim'[u] = claim[u] /\ qdata'[u] = qdata[u],
           claim'[t] \subseteq claim[t], claim[t] \ {o} \subseteq claim'[t],
           \A u \in Thread : u # t =>
               /\ \A p \in KMon : k'.queue[u] = MonQ(p) <=>
                    k.queue[u] = MonQ(p) /\ ~(k.q[MonQ(o)] # <<>> /\ u = Head(k.q[MonQ(o)]))
               /\ \A x \in KCond : k'.queue[u] = CondQ(x) <=> k.queue[u] = CondQ(x),
           \A p \in KMon : k'.queue[t] # MonQ(p),
           \A x \in KCond : k'.queue[t] = CondQ(x) =>
                x \in conds /\ qdata'[t] = o /\ o \in claim'[t]
    PROVE  /\ lock' \in [KMon -> BOOLEAN] /\ owner' \in [KMon -> Worker \cup {NULL}]
           /\ Waiters' /\ Owners'
<1> DEFINE h == Head(k.q[MonQ(o)])
           e == k.q[MonQ(o)] = <<>>
<1>1. /\ lock \in [KMon -> BOOLEAN] /\ owner \in [KMon -> Worker \cup {NULL}]
      /\ claim \in [Thread -> SUBSET KMon] /\ mons \subseteq KMon /\ t \in Thread
      /\ Waiters /\ Owners /\ AllLinked(k) /\ ActiveFree(k) /\ MonQ(o) \in WaitQ
  BY MonQueues DEF IInv, TypeOK, Worker
<1>2. ~e => h \in Worker /\ h \in Thread /\ k.queue[h] = MonQ(o) /\ h # t
  BY <1>1, HeadStands
<1>3. ~e => o \in claim[h] /\ \A x \in KCond : k.queue[h] # CondQ(x)
  BY <1>1, <1>2, MonQueues DEF Waiters
<1>4. e => \A u \in Thread : k.queue[u] # MonQ(o)
  <2> SUFFICES ASSUME e, NEW u \in Thread, k.queue[u] = MonQ(o) PROVE FALSE
    OBVIOUS
  <2> QED
    BY <1>1, QueueTrue
<1>5. /\ lock' \in [KMon -> BOOLEAN] /\ owner' \in [KMon -> Worker \cup {NULL}]
      /\ \A p \in KMon : p # o => lock'[p] = lock[p] /\ owner'[p] = owner[p]
      /\ lock'[o] <=> ~e
      /\ owner'[o] = IF e THEN NULL ELSE h
  BY <1>1, <1>2
<1>6. /\ \A u \in Thread : u # t =>
               /\ \A p \in KMon : k'.queue[u] = MonQ(p) <=> k.queue[u] = MonQ(p) /\ ~(~e /\ u = h)
               /\ \A x \in KCond : k'.queue[u] = CondQ(x) <=> k.queue[u] = CondQ(x)
      /\ \A u \in Thread : k'.queue[u] # MonQ(o) \/ lock'[o]
  BY <1>4, <1>5
<1> HIDE DEF e, h
<1>7. Waiters'
  <2> SUFFICES ASSUME NEW u \in Thread
               PROVE  /\ claim'[u] \subseteq mons
                      /\ \A p \in KMon : k'.queue[u] = MonQ(p) => p \in claim'[u] /\ lock'[p]
                      /\ \A x \in KCond : k'.queue[u] = CondQ(x) =>
                            x \in conds /\ qdata'[u] \in claim'[u]
    BY DEF Waiters
  <2>1. CASE u = t
    BY <1>1, <2>1 DEF Waiters
  <2>2. CASE u # t
    <3>1. \A p \in KMon : k'.queue[u] = MonQ(p) => p \in claim[u] /\ lock[p]
      BY <1>1, <1>6, <2>2 DEF Waiters
    <3>2. \A p \in KMon : k'.queue[u] = MonQ(p) => lock'[p]
      BY <1>5, <1>6, <3>1
    <3>3. claim'[u] = claim[u] /\ qdata'[u] = qdata[u]
      BY <2>2
    <3>4. claim[u] \subseteq mons /\ \A x \in KCond : k'.queue[u] = CondQ(x) =>
                            x \in conds /\ qdata[u] \in claim[u]
      BY <1>1, <1>6, <2>2 DEF Waiters
    <3> QED
      BY <3>1, <3>2, <3>3, <3>4
  <2> QED
    BY <2>1, <2>2
<1>8. Owners'
  <2> SUFFICES ASSUME NEW p \in mons
               PROVE  /\ lock'[p] => /\ owner'[p] \in Worker /\ p \in claim'[owner'[p]]
                                     /\ ~on_condition(owner[p], p)'
                      /\ ~lock'[p] => owner'[p] = NULL
    BY DEF Owners, on_condition
  <2>1. CASE p = o
    <3>1. CASE e
      BY <1>5, <2>1, <3>1
    <3>2. CASE ~e
      <4>1. owner'[p] = h /\ h \in Worker /\ h \in Thread /\ h # t /\ claim'[h] = claim[h]
        BY <1>2, <1>5, <2>1, <3>2
      <4>2. \A x \in KCond : k'.queue[h] # CondQ(x)
        BY <1>3, <1>6, <3>2, <4>1
      <4> QED
        BY <1>3, <1>5, <2>1, <3>2, <4>1, <4>2 DEF on_condition
    <3> QED
      BY <3>1, <3>2
  <2>2. CASE p # o
    <3>1. lock'[p] = lock[p] /\ owner'[p] = owner[p] /\ p \in KMon
      BY <1>1, <1>5, <2>2
    <3>2. lock[p] => owner[p] \in Worker /\ p \in claim[owner[p]] /\ ~on_condition(owner[p], p)
      BY <1>1 DEF Owners
    <3>3. ASSUME lock[p] PROVE p \in claim'[owner[p]] /\ ~on_condition(owner[p], p)'
      <4> DEFINE w == owner[p]
      <4>1. w \in Worker /\ w \in Thread /\ p \in claim[w]
            /\ ~(qdata[w] = p /\ \E x \in KCond : k.queue[w] = CondQ(x))
        BY <3>2, <3>3 DEF Worker, on_condition
      <4> HIDE DEF w
      <4>2. p \in claim'[w]
        BY <2>2, <4>1
      <4>3. ~(qdata'[w] = p /\ \E x \in KCond : k'.queue[w] = CondQ(x))
        <5>1. CASE w = t
          BY <2>2, <5>1
        <5>2. CASE w # t
          BY <1>6, <4>1, <5>2
        <5> QED
          BY <5>1, <5>2
      <4>4. ~on_condition(w, p)'
        BY <3>1, <4>3 DEF on_condition, w
      <4> QED
        BY <4>2, <4>4 DEF w
    <3>4. ~lock[p] => owner[p] = NULL
      BY <1>1 DEF Owners
    <3> QED
      BY <3>1, <3>2, <3>3, <3>4 DEF on_condition
  <2> QED
    BY <2>1, <2>2
<1> QED
  BY <1>5, <1>7, <1>8

\* monitor_unlock lets the first thread at the entrance in.
LEMMA UnlockKeeps ==
    ASSUME IInv, NEW t \in Worker, NEW m \in Mon, sys__monitor_unlock(t, m)
    PROVE  LET o == mptr[m] IN
           /\ IInv' /\ o \in mons /\ o \in KMon /\ kcall = NULL /\ owner[o] = t
           /\ UNCHANGED <<mons, qdata, kcall, cptr, mptr>>
           /\ claim' = [claim EXCEPT ![t] = @ \ {o}]
           /\ owner' = [owner EXCEPT ![o] =
                            IF k.q[MonQ(o)] = <<>> THEN NULL ELSE Head(k.q[MonQ(o)])]
           /\ \A u \in Thread, y \in WaitQ : k'.queue[u] = y <=>
                  k.queue[u] = y /\ ~(k.q[MonQ(o)] # <<>> /\ u = Head(k.q[MonQ(o)]))
<1> DEFINE o == mptr[m]
           n == kthreads_schedule(kthreadq_release(k, MonQ(o)))
<1>1. /\ Running(t) /\ o # NULL /\ owner[o] = t
      /\ UNCHANGED <<mptr, cptr, mons, conds, qdata, kcall>>
      /\ claim' = [claim EXCEPT ![t] = @ \ {o}] /\ k' = n
      /\ owner' = [owner EXCEPT ![o] = IF k.q[MonQ(o)] = <<>> THEN NULL ELSE Head(k.q[MonQ(o)])]
      /\ lock' = [lock EXCEPT ![o] = k.q[MonQ(o)] # <<>>]
  BY DEF sys__monitor_unlock, pass_on
<1>2. /\ AllLinked(k) /\ HighestRuns(k) /\ ActiveFree(k) /\ k.active = t
      /\ t \in Thread /\ kcall = NULL /\ TypeOK
      /\ \A p \in KMon : k.queue[t] # MonQ(p)
      /\ \A x \in KCond : k.queue[t] # CondQ(x)
  BY <1>1, RunningFacts
<1>3. /\ o \in mons /\ o \in KMon /\ MonQ(o) \in WaitQ
      /\ qdata \in [Thread -> KMon \cup {NULL}] /\ claim \in [Thread -> SUBSET KMon]
  BY <1>1, <1>2, MonQueues DEF IInv, Handles, TypeOK
<1>4. /\ AllLinked(n) /\ HighestRuns(n) /\ ActiveFree(n)
      /\ \A u \in Thread, y \in WaitQ : n.queue[u] = y <=>
            k.queue[u] = y /\ ~(k.q[MonQ(o)] # <<>> /\ u = Head(k.q[MonQ(o)]))
  BY <1>2, <1>3, WakeMoves
<1>5. k.q[MonQ(o)] # <<>> => \A x \in KCond : k.queue[Head(k.q[MonQ(o)])] # CondQ(x)
  BY <1>2, <1>3, HeadStands, MonQueues
<1> HIDE DEF n, o
<1>6. /\ \A u \in Thread : u # t =>
            /\ \A p \in KMon : k'.queue[u] = MonQ(p) <=>
                  k.queue[u] = MonQ(p) /\ ~(k.q[MonQ(o)] # <<>> /\ u = Head(k.q[MonQ(o)]))
            /\ \A x \in KCond : k'.queue[u] = CondQ(x) <=> k.queue[u] = CondQ(x)
      /\ \A p \in KMon : k'.queue[t] # MonQ(p)
      /\ \A x \in KCond : k'.queue[t] # CondQ(x)
  BY <1>1, <1>2, <1>4, <1>5, MonQueues
<1>7. /\ claim' \in [Thread -> SUBSET KMon] /\ qdata' \in [Thread -> KMon \cup {NULL}]
      /\ CallOK'
      /\ \A u \in Thread : u # t => claim'[u] = claim[u] /\ qdata'[u] = qdata[u]
      /\ claim'[t] \subseteq claim[t] /\ claim[t] \ {o} \subseteq claim'[t]
  BY <1>1, <1>2, <1>3 DEF CallOK
<1>8. /\ lock' \in [KMon -> BOOLEAN] /\ owner' \in [KMon -> Worker \cup {NULL}]
      /\ Waiters' /\ Owners'
  <2>1. \A x \in KCond : k'.queue[t] = CondQ(x) =>
            x \in conds /\ qdata'[t] = o /\ o \in claim'[t]
    BY <1>6
  <2>2. UNCHANGED <<mons, conds>>
    BY <1>1
  <2> QED
    BY <1>1, <1>2, <1>3, <1>6, <1>7, <2>1, <2>2, PassOnKeeps
<1>9. IInv'
  BY <1>1, <1>2, <1>4, <1>7, <1>8, StepKeeps
<1> QED
  BY <1>1, <1>2, <1>3, <1>4, <1>9 DEF o

\* monitor_wait blocks the caller on a condition and lets the first thread at
\* the entrance in.
LEMMA WaitKeeps ==
    ASSUME IInv, NEW t \in Worker, NEW m \in Mon, NEW c \in Cond, sys__monitor_wait(t, m, c)
    PROVE  LET o == mptr[m] IN
           /\ IInv' /\ o \in mons /\ o \in KMon /\ kcall = NULL /\ owner[o] = t
           /\ cptr[c] \in KCond
           /\ UNCHANGED <<mons, claim, kcall, cptr, mptr>>
           /\ qdata' = [qdata EXCEPT ![t] = o]
           /\ owner' = [owner EXCEPT ![o] =
                            IF k.q[MonQ(o)] = <<>> THEN NULL ELSE Head(k.q[MonQ(o)])]
           /\ \A u \in Thread, y \in WaitQ : k'.queue[u] = y <=>
                IF u = t THEN y = CondQ(cptr[c])
                ELSE k.queue[u] = y /\ ~(k.q[MonQ(o)] # <<>> /\ u = Head(k.q[MonQ(o)]))
<1> DEFINE o == mptr[m]
           x == cptr[c]
           e == kthread_enqueue(k, t, CondQ(x))
           n == kthreads_schedule(kthreadq_release(e, MonQ(o)))
<1>1. /\ Running(t) /\ o # NULL /\ x # NULL /\ owner[o] = t
      /\ UNCHANGED <<mptr, cptr, mons, conds, claim, kcall>>
      /\ qdata' = [qdata EXCEPT ![t] = o] /\ k' = n
      /\ owner' = [owner EXCEPT ![o] = IF e.q[MonQ(o)] = <<>> THEN NULL ELSE Head(e.q[MonQ(o)])]
      /\ lock' = [lock EXCEPT ![o] = e.q[MonQ(o)] # <<>>]
  BY DEF sys__monitor_wait, pass_on
<1>2. /\ AllLinked(k) /\ HighestRuns(k) /\ ActiveFree(k) /\ k.active = t
      /\ t \in Thread /\ kcall = NULL /\ TypeOK
      /\ \A p \in KMon : k.queue[t] # MonQ(p)
  BY <1>1, RunningFacts
<1>3. /\ o \in mons /\ o \in KMon /\ MonQ(o) \in WaitQ
      /\ x \in conds /\ x \in KCond /\ CondQ(x) \in WaitQ /\ CondQ(x) # MonQ(o)
      /\ qdata \in [Thread -> KMon \cup {NULL}] /\ claim \in [Thread -> SUBSET KMon]
  BY <1>1, <1>2, MonQueues DEF IInv, Handles, TypeOK
<1>4. /\ e.q[MonQ(o)] = k.q[MonQ(o)]
      /\ AllLinked(n) /\ HighestRuns(n) /\ ActiveFree(n)
      /\ \A u \in Thread, y \in WaitQ : n.queue[u] = y <=>
            IF u = t THEN y = CondQ(x)
            ELSE k.queue[u] = y /\ ~(k.q[MonQ(o)] # <<>> /\ u = Head(k.q[MonQ(o)]))
  BY <1>2, <1>3, BlockWakeMoves
<1>5. k.q[MonQ(o)] # <<>> => \A y \in KCond : k.queue[Head(k.q[MonQ(o)])] # CondQ(y)
  BY <1>2, <1>3, HeadStands, MonQueues
<1>6. o \in claim[t]
  <2>1. lock[o]
    BY <1>1, <1>2, <1>3, KThreadsAssumption DEF IInv, Owners
  <2> QED
    BY <1>1, <1>3, <2>1 DEF IInv, Owners
<1> HIDE DEF n, e, o, x
<1>7. /\ \A u \in Thread : u # t =>
            /\ \A p \in KMon : k'.queue[u] = MonQ(p) <=>
                  k.queue[u] = MonQ(p) /\ ~(k.q[MonQ(o)] # <<>> /\ u = Head(k.q[MonQ(o)]))
            /\ \A y \in KCond : k'.queue[u] = CondQ(y) <=> k.queue[u] = CondQ(y)
      /\ \A p \in KMon : k'.queue[t] # MonQ(p)
      /\ \A y \in KCond : k'.queue[t] = CondQ(y) => y = x
  BY <1>1, <1>2, <1>3, <1>4, <1>5, MonQueues
<1>8. /\ claim' \in [Thread -> SUBSET KMon] /\ qdata' \in [Thread -> KMon \cup {NULL}]
      /\ CallOK'
      /\ \A u \in Thread : u # t => claim'[u] = claim[u] /\ qdata'[u] = qdata[u]
      /\ claim'[t] \subseteq claim[t] /\ claim[t] \ {o} \subseteq claim'[t]
      /\ qdata'[t] = o /\ o \in claim'[t]
  BY <1>1, <1>2, <1>3, <1>6 DEF CallOK
<1>9. /\ owner' = [owner EXCEPT ![o] = IF k.q[MonQ(o)] = <<>> THEN NULL ELSE Head(k.q[MonQ(o)])]
      /\ lock' = [lock EXCEPT ![o] = k.q[MonQ(o)] # <<>>]
  BY <1>1, <1>4
<1>10. /\ lock' \in [KMon -> BOOLEAN] /\ owner' \in [KMon -> Worker \cup {NULL}]
       /\ Waiters' /\ Owners'
  BY <1>1, <1>2, <1>3, <1>7, <1>8, <1>9, PassOnKeeps
<1>11. IInv'
  BY <1>1, <1>2, <1>4, <1>8, <1>10, StepKeeps
<1> QED
  BY <1>1, <1>2, <1>3, <1>4, <1>9, <1>11 DEF o, x

\* A step that only takes threads out of the queues of monitors and conditions.
LEMMA QuietKeeps ==
    ASSUME IInv, UNCHANGED <<mons, conds, lock, owner, qdata, claim>>,
           \A u \in Thread, o \in KMon : k'.queue[u] = MonQ(o) => k.queue[u] = MonQ(o),
           \A u \in Thread, x \in KCond : k'.queue[u] = CondQ(x) => k.queue[u] = CondQ(x)
    PROVE  /\ Waiters' /\ Owners'
           /\ \A t \in Worker, o \in KMon : on_condition(t, o)' => on_condition(t, o)
<1>1. Waiters'
  BY DEF IInv, Waiters
<1>2. \A t \in Thread, o \in KMon : on_condition(t, o)' => on_condition(t, o)
  BY DEF on_condition
<1>3. mons \subseteq KMon
  BY DEF IInv, TypeOK
<1>4. Owners'
  BY <1>2, <1>3 DEF IInv, Owners, on_condition, Worker
<1> QED
  BY <1>1, <1>2, <1>4 DEF Worker

\* The beginnings of the calls with a loop.
LEMMA BeginKeeps ==
    ASSUME IInv, "destroyMonitor" \notin Uses, NEW t \in Worker,
           \/ \E c \in Cond, call \in {"signal", "broadcast"} : sys__monitor_release(t, c, call)
           \/ \E m \in Mon : sys__monitor_destroy(t, m)
           \/ \E c \in Cond : sys__monitor_queue_destroy(t, c)
    PROVE  IInv'
<1>1. /\ Running(t) /\ UNCHANGED <<k, mptr, cptr, mons, conds, lock, owner, qdata, claim>>
  BY DEF sys__monitor_release, sys__monitor_destroy, sys__monitor_queue_destroy
<1>2. AllLinked(k) /\ HighestRuns(k) /\ ActiveFree(k) /\ TypeOK
  BY <1>1, RunningFacts
<1>3. Waiters' /\ Owners'
  BY <1>1, QuietKeeps
<1>4. kcall' \in Call /\ CallOK'
  <2>1. CASE \E c \in Cond, call \in {"signal", "broadcast"} : sys__monitor_release(t, c, call)
    <3>1. PICK c \in Cond, call \in {"signal", "broadcast"} :
            kcall' = <<call, t, c>> /\ cptr[c] # NULL
      BY <2>1 DEF sys__monitor_release
    <3> QED
      BY <1>1, <3>1 DEF CallOK, Call
  <2>2. CASE \E m \in Mon : sys__monitor_destroy(t, m)
    <3>1. PICK m \in Mon : /\ kcall' = <<"destroy", t, m>> /\ mptr[m] # NULL
                           /\ \A u \in Worker : ~on_condition(u, mptr[m])
      BY <2>2 DEF sys__monitor_destroy
    <3>2. \A u \in Worker : ~on_condition(u, mptr[m])'
      BY <1>1, <3>1 DEF on_condition
    <3> QED
      BY <1>1, <3>1, <3>2 DEF CallOK, Call, on_condition
  <2>3. CASE \E c \in Cond : sys__monitor_queue_destroy(t, c)
    <3>1. PICK c \in Cond : kcall' = <<"queue_destroy", t, c>> /\ cptr[c] # NULL
      BY <2>3 DEF sys__monitor_queue_destroy
    <3> QED
      BY <1>1, <3>1 DEF CallOK, Call
  <2> QED
    BY <2>1, <2>2, <2>3
<1> QED
  BY <1>1, <1>2, <1>3, <1>4, StepKeeps DEF TypeOK

\* The condition queue a signal or a broadcast is at work on, and its first
\* thread: it claims the monitor its qdata names.
LEMMA SignalFacts ==
    ASSUME IInv, release_next
    PROVE  LET x == cptr[kcall[3]]
               t == Head(k.q[CondQ(x)])
               o == qdata[t]
           IN  /\ kcall # NULL /\ kcall[3] \in Cond /\ x \in KCond /\ CondQ(x) \in WaitQ
               /\ k.q[CondQ(x)] # <<>>
               /\ t \in Worker /\ t \in Thread /\ k.queue[t] = CondQ(x)
               /\ o \in mons /\ o \in KMon /\ o \in claim[t]
               /\ MonQ(o) \in WaitQ /\ MonQ(o) # CondQ(x)
<1> DEFINE x == cptr[kcall[3]]
           t == Head(k.q[CondQ(x)])
           o == qdata[t]
<1>1. kcall # NULL /\ kcall[1] \in {"signal", "broadcast"} /\ k.q[CondQ(x)] # <<>>
  BY DEF release_next
<1>2. kcall[3] \in Cond /\ x # NULL
  BY <1>1 DEF IInv, CallOK
<1>3. x \in KCond /\ CondQ(x) \in WaitQ
  BY <1>2, MonQueues DEF IInv, TypeOK
<1>4. t \in Worker /\ t \in Thread /\ k.queue[t] = CondQ(x)
  BY <1>1, <1>3, HeadStands DEF IInv
<1>5. o \in claim[t] /\ o \in mons
  BY <1>3, <1>4 DEF IInv, Waiters
<1>6. o \in KMon
  BY <1>5 DEF IInv, TypeOK
<1> QED
  BY <1>1, <1>2, <1>3, <1>4, <1>5, <1>6, MonQueues

\* One turn of the loop: the first thread t on the condition becomes the owner
\* of its monitor o, which was open, or goes to the entrance of o.
LEMMA SignalKeeps ==
    ASSUME IInv, release_next
    PROVE  LET x == cptr[kcall[3]]
               t == Head(k.q[CondQ(x)])
               o == qdata[t]
           IN  /\ IInv' /\ UNCHANGED <<mptr, cptr, mons, qdata, claim>>
               /\ kcall' # NULL /\ kcall'[1] \in {"signal", "broadcast", "signalled"}
               /\ \/ /\ ~lock[o] /\ owner' = [owner EXCEPT ![o] = t]
                     /\ \A u \in Thread, y \in WaitQ :
                            k'.queue[u] = y <=> k.queue[u] = y /\ u # t
                  \/ /\ owner' = owner
                     /\ \A u \in Thread, y \in WaitQ :
                            k'.queue[u] = y <=> IF u = t THEN y = MonQ(o) ELSE k.queue[u] = y
<1> DEFINE x == cptr[kcall[3]]
           t == Head(k.q[CondQ(x)])
           o == qdata[t]
           a == kthreadq_release(k, CondQ(x))
           b == kthread_enqueue(headless(k, CondQ(x)), t, MonQ(o))
<1>1. /\ kcall # NULL /\ kcall[3] \in Cond /\ x \in KCond /\ CondQ(x) \in WaitQ
      /\ k.q[CondQ(x)] # <<>>
      /\ t \in Worker /\ t \in Thread /\ k.queue[t] = CondQ(x)
      /\ o \in mons /\ o \in KMon /\ o \in claim[t]
      /\ MonQ(o) \in WaitQ /\ MonQ(o) # CondQ(x)
  BY SignalFacts
<1>2. /\ kcall[1] \in {"signal", "broadcast"} /\ UNCHANGED <<mptr, cptr, mons, conds, qdata, claim>>
      /\ kcall' = IF kcall[1] = "signal" THEN <<"signalled", kcall[2], kcall[3]>> ELSE kcall
      /\ IF ~lock[o]
         THEN /\ lock' = [lock EXCEPT ![o] = TRUE] /\ owner' = [owner EXCEPT ![o] = t]
              /\ k' = a
         ELSE k' = b /\ UNCHANGED <<lock, owner>>
  BY DEF release_next, release_first, headless
<1>3. /\ AllLinked(k) /\ ActiveFree(k) /\ Waiters /\ Owners /\ mons \subseteq KMon
      /\ kcall \in Call
      /\ lock \in [KMon -> BOOLEAN] /\ owner \in [KMon -> Worker \cup {NULL}]
      /\ qdata \in [Thread -> KMon \cup {NULL}] /\ claim \in [Thread -> SUBSET KMon]
  BY <1>1 DEF IInv, TypeOK
<1>4. /\ kcall' \in Call /\ kcall'[1] \in {"signal", "broadcast", "signalled"}
      /\ kcall'[3] = kcall[3]
  <2>1. CASE kcall[1] = "signal"
    BY <1>2, <1>3, <2>1 DEF Call
  <2>2. CASE kcall[1] # "signal"
    BY <1>2, <1>3, <2>2
  <2> QED
    BY <2>1, <2>2
<1>5. kcall' # NULL
  BY <1>4, MonitorAssumption
<1>6. CallOK'
  BY <1>1, <1>2, <1>4, MonitorAssumption DEF CallOK, IInv, TypeOK
<1>7. /\ AllLinked(a) /\ ActiveFree(a)
      /\ \A u \in Thread, y \in WaitQ : a.queue[u] = y <=> k.queue[u] = y /\ u # t
  <2>1. AllLinked(k) /\ ActiveFree(k) /\ CondQ(x) \in WaitQ /\ k.q[CondQ(x)] # <<>>
    BY <1>1, <1>3
  <2> HIDE DEF x
  <2> QED
    BY <2>1, ReleaseMoves
<1>8. /\ AllLinked(b) /\ ActiveFree(b)
      /\ \A u \in Thread, y \in WaitQ :
            b.queue[u] = y <=> IF u = t THEN y = MonQ(o) ELSE k.queue[u] = y
  <2>1. AllLinked(k) /\ ActiveFree(k) /\ CondQ(x) \in WaitQ /\ k.q[CondQ(x)] # <<>>
        /\ MonQ(o) \in WaitQ
    BY <1>1, <1>3
  <2> HIDE DEF x, o
  <2> QED
    BY <2>1, ShiftMoves
<1> HIDE DEF a, b, x, t, o
<1>9. CASE ~lock[o]
  <2>1. lock' = [lock EXCEPT ![o] = TRUE] /\ owner' = [owner EXCEPT ![o] = t] /\ k' = a
    BY <1>2, <1>9
  <2>2. /\ lock' \in [KMon -> BOOLEAN] /\ owner' \in [KMon -> Worker \cup {NULL}]
        /\ lock'[o] /\ owner'[o] = t
        /\ \A p \in KMon : p # o => lock'[p] = lock[p] /\ owner'[p] = owner[p]
    BY <1>1, <1>3, <2>1
  <2>3. /\ \A u \in Thread, p \in KMon :
              k'.queue[u] = MonQ(p) <=> k.queue[u] = MonQ(p) /\ u # t
        /\ \A u \in Thread, y \in KCond :
              k'.queue[u] = CondQ(y) <=> k.queue[u] = CondQ(y) /\ u # t
    BY <1>7, <2>1, MonQueues
  <2>4. Waiters'
    BY <1>1, <1>2, <1>3, <2>2, <2>3 DEF Waiters
  <2>5. Owners'
    BY <1>1, <1>2, <1>3, <2>2, <2>3 DEF Owners, on_condition, Worker
  <2>6. IInv'
    BY <1>2, <1>3, <1>4, <1>5, <1>6, <1>7, <2>1, <2>2, <2>4, <2>5, StepKeeps
  <2>7. \A u \in Thread, y \in WaitQ : k'.queue[u] = y <=> k.queue[u] = y /\ u # t
    BY <1>7, <2>1
  <2> QED
    BY <1>2, <1>4, <1>5, <1>9, <2>1, <2>6, <2>7 DEF x, t, o
<1>10. CASE lock[o]
  <2>1. UNCHANGED <<lock, owner>> /\ k' = b
    BY <1>2, <1>10
  <2>3. /\ \A u \in Thread, p \in KMon :
              k'.queue[u] = MonQ(p) <=> IF u = t THEN p = o ELSE k.queue[u] = MonQ(p)
        /\ \A u \in Thread, y \in KCond :
              k'.queue[u] = CondQ(y) <=> k.queue[u] = CondQ(y) /\ u # t
    BY <1>1, <1>8, <2>1, MonQueues
  <2>4. Waiters'
    BY <1>1, <1>2, <1>3, <1>10, <2>1, <2>3 DEF Waiters
  <2>5. Owners'
    BY <1>1, <1>2, <1>3, <2>1, <2>3 DEF Owners, on_condition, Worker
  <2>6. IInv'
    BY <1>2, <1>3, <1>4, <1>5, <1>6, <1>8, <2>1, <2>4, <2>5, StepKeeps
  <2>7. \A u \in Thread, y \in WaitQ :
            k'.queue[u] = y <=> IF u = t THEN y = MonQ(o) ELSE k.queue[u] = y
    BY <1>8, <2>1
  <2> QED
    BY <1>2, <1>4, <1>5, <2>1, <2>6, <2>7 DEF x, t, o
<1> QED
  BY <1>9, <1>10

\* The end of the loop, and the steps that leave the monitors alone.
LEMMA ReleaseDoneKeeps ==
    ASSUME IInv, release_done
    PROVE  /\ IInv' /\ kcall # NULL /\ kcall[1] # "destroy"
           /\ UNCHANGED <<mptr, cptr, mons, owner, qdata, claim>> /\ kcall' = NULL
           /\ \A u \in Thread, y \in WaitQ : k'.queue[u] = y <=> k.queue[u] = y
<1>1. /\ kcall # NULL /\ kcall[1] # "destroy" /\ k' = kthreads_schedule(k) /\ kcall' = NULL
      /\ UNCHANGED <<mptr, cptr, mons, conds, lock, owner, qdata, claim>>
  BY DEF release_done
<1>2. /\ AllLinked(k') /\ HighestRuns(k') /\ ActiveFree(k')
      /\ \A u \in Thread, y \in WaitQ : k'.queue[u] = y <=> k.queue[u] = y
  BY <1>1, ScheduleMoves DEF IInv
<1>3. Waiters' /\ Owners'
  BY <1>1, <1>2, QuietKeeps, MonQueues
<1>4. IInv'
  BY <1>1, <1>2, <1>3, StepKeeps DEF IInv, TypeOK, CallOK
<1> QED
  BY <1>1, <1>2, <1>4

\* Sleeping and waking.
LEMMA SleepKeeps ==
    ASSUME IInv, NEW t \in Worker, sys__wait_for_alarm(t) \/ k_timer_interrupt(t)
    PROVE  /\ IInv' /\ UNCHANGED mvars /\ kcall = NULL
           /\ \A u \in Thread, o \in KMon : k'.queue[u] = MonQ(o) <=> k.queue[u] = MonQ(o)
           /\ \A u \in Thread, x \in KCond : k'.queue[u] = CondQ(x) <=> k.queue[u] = CondQ(x)
<1>1. /\ kcall = NULL /\ AlarmQ(t) \in WaitQ
      /\ UNCHANGED <<mptr, cptr, mons, conds, lock, owner, qdata, kcall, claim>>
  BY MonQueues DEF sys__wait_for_alarm, k_timer_interrupt, InUser, mvars
<1>2. AllLinked(k) /\ HighestRuns(k) /\ ActiveFree(k)
  BY <1>1 DEF IInv, InUser
<1>3. /\ AllLinked(k') /\ HighestRuns(k') /\ ActiveFree(k')
      /\ \A u \in Thread, y \in WaitQ : y # AlarmQ(t) => (k'.queue[u] = y <=> k.queue[u] = y)
  <2>1. CASE sys__wait_for_alarm(t)
    <3>1. k.active = t /\ k' = kthreads_schedule(kthread_enqueue(k, t, AlarmQ(t)))
      BY <2>1 DEF sys__wait_for_alarm, sleep
    <3>2. k.queue[t] \notin WaitQ
      BY <1>2, <3>1 DEF ActiveFree
    <3> QED
      BY <1>1, <1>2, <3>1, <3>2, BlockMoves
  <2>2. CASE k_timer_interrupt(t)
    <3>1. k' = kthreads_schedule(kthreadq_release(k, AlarmQ(t))) /\ k.q[AlarmQ(t)] # <<>>
      BY <2>2 DEF k_timer_interrupt, wake
    <3>2. k.queue[Head(k.q[AlarmQ(t)])] = AlarmQ(t)
      BY <1>1, <1>2, <3>1, HeadStands
    <3> QED
      BY <1>1, <1>2, <3>1, <3>2, WakeMoves
  <2> QED
    BY <2>1, <2>2
<1>4. /\ \A u \in Thread, o \in KMon : k'.queue[u] = MonQ(o) <=> k.queue[u] = MonQ(o)
      /\ \A u \in Thread, x \in KCond : k'.queue[u] = CondQ(x) <=> k.queue[u] = CondQ(x)
  BY <1>3, MonQueues
<1>5. Waiters' /\ Owners'
  BY <1>1, <1>4, QuietKeeps
<1>6. IInv'
  BY <1>1, <1>3, <1>5, StepKeeps DEF IInv, TypeOK, CallOK
<1> QED
  BY <1>1, <1>4, <1>6 DEF mvars

\* The queue of the object that is being destroyed.
LEMMA DoomedFacts ==
    ASSUME IInv, kcall # NULL, kcall[1] \in {"destroy", "queue_destroy"}
    PROVE  /\ doomed \in WaitQ
           /\ kcall[1] = "destroy" =>
                /\ kcall[3] \in Mon /\ mptr[kcall[3]] \in KMon /\ mptr[kcall[3]] \in mons
                /\ doomed = MonQ(mptr[kcall[3]])
                /\ \A t \in Worker : ~on_condition(t, mptr[kcall[3]])
           /\ kcall[1] = "queue_destroy" =>
                /\ kcall[3] \in Cond /\ cptr[kcall[3]] \in KCond
                /\ doomed = CondQ(cptr[kcall[3]])
<1>1. CASE kcall[1] = "destroy"
  <2>1. /\ kcall[3] \in Mon /\ mptr[kcall[3]] # NULL
        /\ \A t \in Worker : ~on_condition(t, mptr[kcall[3]])
    BY <1>1 DEF IInv, CallOK
  <2>2. mptr[kcall[3]] \in KMon /\ mptr[kcall[3]] \in mons
    BY <2>1 DEF IInv, TypeOK, Handles
  <2> QED
    BY <1>1, <2>1, <2>2, MonQueues DEF doomed
<1>2. CASE kcall[1] = "queue_destroy"
  <2>1. kcall[3] \in Cond /\ cptr[kcall[3]] # NULL
    BY <1>2 DEF IInv, CallOK
  <2>2. cptr[kcall[3]] \in KCond
    BY <2>1 DEF IInv, TypeOK
  <2> QED
    BY <1>2, <2>1, <2>2, MonQueues DEF doomed
<1> QED
  BY <1>1, <1>2

\* One turn of the loop of a destroy.
LEMMA DestroyNextKeeps ==
    ASSUME IInv, destroy_next
    PROVE  /\ IInv' /\ UNCHANGED mvars /\ kcall # NULL
           /\ \A u \in Thread, y \in WaitQ :
                k'.queue[u] = y => k.queue[u] = y
           /\ \A u \in Thread, y \in WaitQ \ {doomed} :
                k'.queue[u] = y <=> k.queue[u] = y
<1>1. /\ kcall # NULL /\ kcall[1] \in {"destroy", "queue_destroy"} /\ k.q[doomed] # <<>>
      /\ k' = kthreadq_release(k, doomed)
      /\ UNCHANGED <<mptr, cptr, mons, conds, lock, owner, qdata, kcall, claim>>
  BY DEF destroy_next, mvars
<1>2. AllLinked(k) /\ ActiveFree(k) /\ doomed \in WaitQ
  BY <1>1, DoomedFacts DEF IInv
<1> DEFINE x == doomed
           h == Head(k.q[x])
<1>3. /\ AllLinked(k') /\ ActiveFree(k')
      /\ \A u \in Thread, y \in WaitQ : k'.queue[u] = y <=> k.queue[u] = y /\ u # h
  <2>1. k.q[x] # <<>> /\ k' = kthreadq_release(k, x) /\ x \in WaitQ
    BY <1>1, <1>2
  <2> HIDE DEF x
  <2> QED
    BY <1>2, <2>1, ReleaseMoves
<1>4. h \in Thread /\ k.queue[h] = x
  <2>1. k.q[x] # <<>> /\ x \in WaitQ
    BY <1>1, <1>2
  <2> HIDE DEF x
  <2> QED
    BY <1>2, <2>1, HeadStands
<1> HIDE DEF x, h
<1>5. /\ \A u \in Thread, y \in WaitQ : k'.queue[u] = y => k.queue[u] = y
      /\ \A u \in Thread, y \in WaitQ \ {x} : k'.queue[u] = y <=> k.queue[u] = y
  BY <1>3, <1>4
<1>6. /\ Waiters' /\ Owners'
      /\ \A t \in Worker, o \in KMon : on_condition(t, o)' => on_condition(t, o)
  BY <1>1, <1>5, QuietKeeps, MonQueues
<1>7. CallOK'
  <2>1. kcall[1] = "destroy" => /\ kcall[3] \in Mon /\ mptr[kcall[3]] \in KMon
                                /\ mptr[kcall[3]] # NULL
                                /\ \A t \in Worker : ~on_condition(t, mptr[kcall[3]])
    BY <1>1, DoomedFacts, MonitorAssumption
  <2>2. kcall[1] = "queue_destroy" => kcall[3] \in Cond /\ cptr[kcall[3]] # NULL
    BY <1>1, DoomedFacts, MonitorAssumption
  <2>3. CASE kcall[1] = "destroy"
    <3>1. \A t \in Worker : ~on_condition(t, mptr[kcall[3]])'
      BY <1>1, <1>5, <2>1, <2>3, MonQueues DEF on_condition, Worker
    <3> QED
      BY <1>1, <2>1, <2>3, <3>1 DEF CallOK, on_condition
  <2>4. CASE kcall[1] = "queue_destroy"
    BY <1>1, <2>2, <2>4 DEF CallOK
  <2> QED
    BY <1>1, <2>3, <2>4
<1>8. IInv'
  BY <1>1, <1>3, <1>6, <1>7, StepKeeps DEF IInv, TypeOK
<1> QED
  BY <1>1, <1>5, <1>8 DEF mvars, x

\* The end of a destroy: nobody is left in the queue of the object.
LEMMA DestroyDoneKeeps ==
    ASSUME IInv, destroy_done
    PROVE  LET d == mptr[kcall[3]] IN
           /\ IInv' /\ d \in KMon /\ kcall # NULL /\ kcall[1] = "destroy"
           /\ mons' = mons \ {d} /\ kcall' = NULL
           /\ claim' = [t \in Thread |-> claim[t] \ {d}]
           /\ UNCHANGED <<owner, qdata>>
           /\ \A u \in Thread, y \in WaitQ : k'.queue[u] = y <=> k.queue[u] = y
<1> DEFINE c == kcall[3]
           d == mptr[c]
<1>1. /\ kcall # NULL /\ kcall[1] = "destroy" /\ k.q[doomed] = <<>>
      /\ mons' = mons \ {d} /\ mptr' = [mptr EXCEPT ![c] = NULL]
      /\ claim' = [t \in Thread |-> claim[t] \ {d}]
      /\ k' = kthreads_schedule(k) /\ kcall' = NULL
      /\ UNCHANGED <<cptr, conds, lock, owner, qdata>>
  BY DEF destroy_done
<1>2. /\ c \in Mon /\ d \in KMon /\ d \in mons /\ doomed = MonQ(d) /\ doomed \in WaitQ
      /\ \A t \in Worker : ~on_condition(t, d)
  BY <1>1, DoomedFacts
<1>3. AllLinked(k) /\ ActiveFree(k) /\ TypeOK /\ Handles /\ Waiters /\ Owners
  BY DEF IInv
<1>4. /\ AllLinked(k') /\ HighestRuns(k') /\ ActiveFree(k')
      /\ \A u \in Thread, y \in WaitQ : k'.queue[u] = y <=> k.queue[u] = y
  BY <1>1, <1>3, ScheduleMoves
<1>5. /\ \A u \in Thread : k.queue[u] # MonQ(d)
      /\ \A x \in KCond : k.queue[Idle] # CondQ(x)
  <2>1. k.q[MonQ(d)] = <<>> /\ MonQ(d) \in WaitQ
    BY <1>1, <1>2
  <2>2. \A u : ~Stands(<<>>, u)
    BY DEF Stands
  <2>3. \A u \in Thread : k.queue[u] # MonQ(d)
    BY <1>3, <2>1, <2>2, QueueStands
  <2>4. ASSUME NEW x \in WaitQ, k.queue[Idle] = x PROVE FALSE
    <3>1. Idle \in Thread /\ x \in Queue /\ x \notin ReadyQs
      BY KThreadsAssumption, QueueNames
    <3>2. \E i \in 1..Len(k.q[x]) : k.q[x][i] = Idle
      BY <1>3, <2>4, <3>1, QueueTrue
    <3>3. k.state[Idle] = "WAIT"
      BY <1>3, <3>1, <3>2 DEF AllLinked, Linked, LinkedOnce
    <3> QED
      BY <1>3, <3>3 DEF AllLinked
  <2> QED
    BY <2>3, <2>4, MonQueues
<1> HIDE DEF c, d
<1>6. /\ \A u \in Thread, o \in KMon : k'.queue[u] = MonQ(o) <=> k.queue[u] = MonQ(o)
      /\ \A u \in Thread, x \in KCond : k'.queue[u] = CondQ(x) <=> k.queue[u] = CondQ(x)
  BY <1>4, MonQueues
<1>7. TypeOK'
  <2>1. claim' \in [Thread -> SUBSET KMon]
    BY <1>1, <1>3 DEF TypeOK
  <2> QED
    BY <1>1, <1>2, <1>3, <1>4, <2>1 DEF TypeOK, AllLinked, Linked
<1>8. Handles'
  <2>1. \A m \in Mon : mptr'[m] = IF m = c THEN NULL ELSE mptr[m]
    BY <1>1, <1>2, <1>3 DEF TypeOK
  <2>2. \A m \in Mon : mptr'[m] # NULL => m # c /\ mptr[m] # NULL /\ mptr[m] # d
    BY <1>2, <1>3, <2>1 DEF Handles, d
  <2> QED
    BY <1>1, <1>3, <2>1, <2>2 DEF Handles
<1>9. Waiters'
  <2> SUFFICES ASSUME NEW t \in Thread
               PROVE  /\ claim'[t] \subseteq mons'
                      /\ \A o \in KMon : k'.queue[t] = MonQ(o) => o \in claim'[t] /\ lock'[o]
                      /\ \A x \in KCond : k'.queue[t] = CondQ(x) =>
                            x \in conds' /\ qdata'[t] \in claim'[t]
    BY DEF Waiters
  <2>1. claim'[t] = claim[t] \ {d}
    BY <1>1
  <2>2. \A o \in KMon : k.queue[t] = MonQ(o) => o # d /\ o \in claim[t] /\ lock[o]
    BY <1>3, <1>5 DEF Waiters
  <2>3. \A x \in KCond : k.queue[t] = CondQ(x) =>
            qdata[t] # d /\ x \in conds /\ qdata[t] \in claim[t]
    BY <1>2, <1>3, <1>5 DEF Waiters, on_condition, Worker
  <2>4. claim[t] \subseteq mons
    BY <1>3 DEF Waiters
  <2> QED
    BY <1>1, <1>6, <2>1, <2>2, <2>3, <2>4
<1>10. Owners'
  <2>1. \A o \in mons' : o \in mons /\ o # d /\ o \in KMon
    BY <1>1, <1>3 DEF TypeOK
  <2>2. \A t \in Worker : claim'[t] = claim[t] \ {d} /\ t \in Thread
    BY <1>1 DEF Worker
  <2>3. \A t \in Worker, o \in KMon : qdata'[t] = qdata[t]
            /\ ((\E x \in KCond : k'.queue[t] = CondQ(x)) <=> \E x \in KCond : k.queue[t] = CondQ(x))
    BY <1>1, <1>6, <2>2
  <2> QED
    BY <1>1, <1>3, <2>1, <2>2, <2>3 DEF Owners, on_condition
<1> QED
  BY <1>1, <1>2, <1>4, <1>7, <1>8, <1>9, <1>10 DEF IInv, InUser, CallOK, c, d

\* The end of a destroy of a condition queue.
LEMMA QueueDestroyDoneKeeps ==
    ASSUME IInv, queue_destroy_done
    PROVE  /\ IInv' /\ kcall # NULL /\ kcall[1] = "queue_destroy" /\ kcall' = NULL
           /\ UNCHANGED <<mptr, mons, owner, qdata, claim>>
           /\ \A u \in Thread, y \in WaitQ : k'.queue[u] = y <=> k.queue[u] = y
<1> DEFINE c == kcall[3]
           d == cptr[c]
<1>1. /\ kcall # NULL /\ kcall[1] = "queue_destroy" /\ k.q[doomed] = <<>>
      /\ conds' = conds \ {d} /\ cptr' = [cptr EXCEPT ![c] = NULL]
      /\ k' = kthreads_schedule(k) /\ kcall' = NULL
      /\ UNCHANGED <<mptr, mons, lock, owner, qdata, claim>>
  BY DEF queue_destroy_done
<1>2. c \in Cond /\ d \in KCond /\ doomed = CondQ(d) /\ doomed \in WaitQ
  BY <1>1, DoomedFacts
<1>3. AllLinked(k) /\ ActiveFree(k) /\ TypeOK /\ Handles /\ Waiters /\ Owners
  BY DEF IInv
<1>4. /\ AllLinked(k') /\ HighestRuns(k') /\ ActiveFree(k')
      /\ \A u \in Thread, y \in WaitQ : k'.queue[u] = y <=> k.queue[u] = y
  BY <1>1, <1>3, ScheduleMoves
<1>5. \A u \in Thread : k.queue[u] # CondQ(d)
  <2>1. k.q[CondQ(d)] = <<>> /\ CondQ(d) \in WaitQ
    BY <1>1, <1>2
  <2>2. \A u : ~Stands(<<>>, u)
    BY DEF Stands
  <2> QED
    BY <1>3, <2>1, <2>2, QueueStands
<1> HIDE DEF c, d
<1>6. /\ \A u \in Thread, o \in KMon : k'.queue[u] = MonQ(o) <=> k.queue[u] = MonQ(o)
      /\ \A u \in Thread, x \in KCond : k'.queue[u] = CondQ(x) <=> k.queue[u] = CondQ(x)
  BY <1>4, MonQueues
<1>7. TypeOK'
  BY <1>1, <1>2, <1>3, <1>4 DEF TypeOK, AllLinked, Linked
<1>8. Handles'
  <2>1. \A m \in Cond : cptr'[m] = IF m = c THEN NULL ELSE cptr[m]
    BY <1>1, <1>2, <1>3 DEF TypeOK
  <2>2. \A m \in Cond : cptr'[m] # NULL => m # c /\ cptr[m] # NULL /\ cptr[m] # d
    BY <1>2, <1>3, <2>1 DEF Handles, d
  <2> QED
    BY <1>1, <1>3, <2>1, <2>2 DEF Handles
<1>9. Waiters'
  BY <1>1, <1>3, <1>5, <1>6 DEF Waiters
<1>10. Owners'
  <2>1. \A o \in mons : o \in KMon
    BY <1>3 DEF TypeOK
  <2> QED
    BY <1>1, <1>3, <1>6, <2>1 DEF Owners, on_condition, Worker
<1> QED
  BY <1>1, <1>2, <1>4, <1>7, <1>8, <1>9, <1>10 DEF IInv, InUser, CallOK, c, d

\* A step that changes nothing.
LEMMA StutterKeeps == ASSUME IInv, UNCHANGED vars PROVE IInv'
<1>1. UNCHANGED <<k, mptr, cptr, mons, conds, lock, owner, qdata, kcall, claim>>
  BY DEF vars, mvars
<1>2. TypeOK' /\ CallOK'
  BY <1>1 DEF IInv, TypeOK, CallOK, on_condition
<1>3. Waiters' /\ Owners'
  BY <1>1, QuietKeeps
<1> QED
  BY <1>1, <1>2, <1>3, StepKeeps DEF IInv, TypeOK, InUser

\* Every step preserves the invariant.
LEMMA NextIInv ==
    ASSUME "destroyMonitor" \notin Uses PROVE IInv /\ [Next]_vars => IInv'
<1> SUFFICES ASSUME IInv, [Next]_vars PROVE IInv'
  OBVIOUS
<1> QED
  BY MonitorInitKeeps, QueueInitKeeps, LockKeeps, UnlockKeeps, WaitKeeps, BeginKeeps,
     SignalKeeps, ReleaseDoneKeeps, DestroyNextKeeps, DestroyDoneKeeps,
     QueueDestroyDoneKeeps, SleepKeeps, StutterKeeps DEF Next, idle_thread

-----------------------------------------------------------------------------
\* The invariant holds in every reachable state.
THEOREM SpecIInv ==
    ASSUME "destroyMonitor" \notin Uses PROVE Spec => []IInv
  BY InitIInv, NextIInv, PTL DEF Spec

\* Signals, broadcasts, unlocks and destroys (kernel/monitor.c) move threads
\* between condition, entrance and ready queues without losing one, and the
\* highest ready priority runs after each.
THEOREM SpecSchedulingKept ==
    ASSUME "destroyMonitor" \notin Uses PROVE Spec => []SchedulingKept
<1>1. IInv => QueuesConsistent
  BY DEF IInv, AllLinked, Linked, QueuesConsistent
<1>2. IInv => TypeOK /\ ActiveIsHighest
  BY DEF IInv, ActiveIsHighest
<1>3. IInv => SchedulingKept
  BY <1>1, <1>2 DEF SchedulingKept
<1> QED
  BY <1>3, SpecIInv, PTL

\* A locked monitor has an owner that has entered it and does not wait on one of
\* its conditions, so somebody can unlock it.
THEOREM SpecLockedHasOwner ==
    ASSUME "destroyMonitor" \notin Uses PROVE Spec => []LockedHasOwner
<1>1. IInv => LockedHasOwner
  BY DEF IInv, Owners, LockedHasOwner
<1> QED
  BY <1>1, SpecIInv, PTL

\* Nobody stands at the entrance of an open monitor or of a freed one.
THEOREM SpecNoWaitWhenOpen ==
    ASSUME "destroyMonitor" \notin Uses PROVE Spec => []NoWaitWhenOpen
<1>1. IInv => NoWaitWhenOpen
  <2> SUFFICES ASSUME IInv, NEW o \in KMon, k.q[MonQ(o)] # <<>> PROVE o \in mons /\ lock[o]
    BY DEF NoWaitWhenOpen
  <2>1. AllLinked(k) /\ ActiveFree(k) /\ MonQ(o) \in WaitQ
    BY MonQueues DEF IInv
  <2>2. Head(k.q[MonQ(o)]) \in Thread /\ k.queue[Head(k.q[MonQ(o)])] = MonQ(o)
    BY <2>1, HeadStands
  <2> QED
    BY <2>2 DEF IInv, Waiters
<1> QED
  BY <1>1, SpecIInv, PTL

-----------------------------------------------------------------------------
\* Mutual exclusion, for programs that do not destroy a condition queue with
\* threads in it either: those would return from their wait without the monitor.

\* The loop that destroys monitor o is running.
Razed(o) == kcall # NULL /\ kcall[1] = "destroy" /\ mptr[kcall[3]] = o

\* Whoever claims a monitor owns it, waits for it, or is let go by its destroy.
Entered ==
    \A o \in mons, t \in Worker :
        o \in claim[t] => owner[o] = t \/ waits_for(t, o) \/ Razed(o)

\* A condition queue that is being destroyed is empty.
NoneInDoomed ==
    kcall # NULL /\ kcall[1] = "queue_destroy" => k.q[doomed] = <<>>

Inside == Entered /\ NoneInDoomed

\* A step that moves nobody into or out of the queues of the monitors, and does
\* not end the destroy of one.
LEMMA QuietEntered ==
    ASSUME IInv, Entered, UNCHANGED <<mons, owner, qdata, claim>>,
           \A u \in Worker, o \in KMon : k'.queue[u] = MonQ(o) <=> k.queue[u] = MonQ(o),
           \A u \in Worker, x \in KCond : k'.queue[u] = CondQ(x) <=> k.queue[u] = CondQ(x),
           \A o \in mons : Razed(o) => Razed(o)'
    PROVE  Entered'
<1>1. mons \subseteq KMon
  BY DEF IInv, TypeOK
<1>2. \A u \in Worker, o \in mons : waits_for(u, o) => waits_for(u, o)'
  BY <1>1 DEF waits_for, on_condition
<1> QED
  BY <1>2 DEF Entered

\* Creation: nobody claims a new monitor.
LEMMA CreateInside ==
    ASSUME IInv, Inside, NEW t \in Worker,
           \/ \E m \in Mon, o \in KMon : sys__monitor_init(t, m, o)
           \/ \E c \in Cond, x \in KCond : sys__monitor_queue_init(t, c, x)
    PROVE  Inside'
<1>1. CASE \E m \in Mon, o \in KMon : sys__monitor_init(t, m, o)
  <2>1. PICK m \in Mon, o \in KMon : sys__monitor_init(t, m, o)
    BY <1>1
  <2>2. /\ o \notin mons /\ mons' = mons \cup {o} /\ owner' = [owner EXCEPT ![o] = NULL]
        /\ kcall = NULL /\ kcall' = NULL /\ qdata' = qdata /\ claim' = claim
    BY <2>1 DEF sys__monitor_init, Running, InUser
  <2>3. k' = k
    BY <2>1, MonitorInitKeeps
  <2>4. \A p \in mons : p # o /\ owner'[p] = owner[p]
    BY <2>2 DEF IInv, TypeOK
  <2>5. \A u \in Worker : o \notin claim[u]
    BY <2>2 DEF IInv, Waiters, Worker
  <2>6. Entered'
    BY <2>2, <2>3, <2>4, <2>5 DEF Inside, Entered, waits_for, on_condition, Razed
  <2> QED
    BY <2>2, <2>6 DEF Inside, NoneInDoomed
<1>2. CASE \E c \in Cond, x \in KCond : sys__monitor_queue_init(t, c, x)
  <2>1. PICK c \in Cond, x \in KCond : sys__monitor_queue_init(t, c, x)
    BY <1>2
  <2>2. UNCHANGED <<mons, owner, qdata, claim>> /\ kcall = NULL /\ kcall' = NULL
    BY <2>1 DEF sys__monitor_queue_init, Running, InUser
  <2>3. k' = k
    BY <2>1, QueueInitKeeps
  <2>4. Entered'
    BY <2>2, <2>3, QuietEntered DEF Inside, Razed
  <2> QED
    BY <2>2, <2>4 DEF Inside, NoneInDoomed
<1> QED
  BY <1>1, <1>2

\* monitor_lock: an open monitor has no owner, so whoever claims it waits on one
\* of its conditions and stays there.
LEMMA LockInside ==
    ASSUME IInv, Inside, NEW t \in Worker, NEW m \in Mon, sys__monitor_lock(t, m)
    PROVE  Inside'
<1> DEFINE o == mptr[m]
<1>1. /\ IInv' /\ o \in mons /\ o \in KMon /\ kcall = NULL
      /\ UNCHANGED <<mons, qdata, kcall, cptr, mptr>>
      /\ claim' = [claim EXCEPT ![t] = @ \cup {o}]
      /\ \/ k' = k /\ ~lock[o] /\ owner' = [owner EXCEPT ![o] = t]
         \/ /\ owner' = owner
            /\ \A u \in Thread, y \in WaitQ :
                   k'.queue[u] = y <=> IF u = t THEN y = MonQ(o) ELSE k.queue[u] = y
  BY LockKeeps
<1>2. /\ k.active = t /\ t \in Thread
      /\ \A p \in KMon : k.queue[t] # MonQ(p)
      /\ \A x \in KCond : k.queue[t] # CondQ(x)
  BY RunningFacts DEF sys__monitor_lock
<1>3. /\ mons \subseteq KMon /\ owner \in [KMon -> Worker \cup {NULL}]
      /\ claim \in [Thread -> SUBSET KMon] /\ Owners
  BY DEF IInv, TypeOK
<1> HIDE DEF o
<1>4. /\ \A u \in Worker : u # t => claim'[u] = claim[u]
      /\ claim'[t] = claim[t] \cup {o}
  BY <1>1, <1>2, <1>3 DEF Worker
<1>5. \A p \in mons, u \in Worker : p \in claim[u] => owner[p] = u \/ waits_for(u, p)
  BY <1>1 DEF Inside, Entered, Razed
<1>6. \A p \in mons : p \in claim[t] => owner[p] = t
  BY <1>2, <1>3, <1>5 DEF waits_for, on_condition
<1>7. CASE k' = k /\ ~lock[o] /\ owner' = [owner EXCEPT ![o] = t]
  <2>1. /\ owner'[o] = t /\ \A p \in KMon : p # o => owner'[p] = owner[p]
    BY <1>1, <1>3, <1>7
  <2>2. \A u \in Worker : owner[o] # u
    BY <1>1, <1>3, <1>7, KThreadsAssumption, WorkersAssumption DEF Owners, Worker
  <2>3. \A u \in Worker, p \in mons : waits_for(u, p) => waits_for(u, p)'
    BY <1>1, <1>7 DEF waits_for, on_condition
  <2>4. Entered'
    BY <1>1, <1>3, <1>4, <1>5, <1>6, <2>1, <2>2, <2>3 DEF Entered
  <2> QED
    BY <1>1, <2>4 DEF Inside, NoneInDoomed
<1>8. CASE /\ owner' = owner
           /\ \A u \in Thread, y \in WaitQ :
                   k'.queue[u] = y <=> IF u = t THEN y = MonQ(o) ELSE k.queue[u] = y
  <2>1. \A p \in mons : p = o => waits_for(t, p)'
    BY <1>1, <1>2, <1>8, MonQueues DEF waits_for
  <2>2. \A u \in Worker, p \in mons : u # t /\ waits_for(u, p) => waits_for(u, p)'
    BY <1>1, <1>3, <1>8, MonQueues DEF waits_for, on_condition, Worker
  <2>3. Entered'
    BY <1>1, <1>3, <1>4, <1>5, <1>6, <1>8, <2>1, <2>2 DEF Entered
  <2> QED
    BY <1>1, <2>3 DEF Inside, NoneInDoomed
<1> QED
  BY <1>1, <1>7, <1>8

\* monitor_unlock and monitor_wait: the thread that leaves gives up its claim or
\* waits on the condition; the one that is let in becomes the owner.
LEMMA LeaveInside ==
    ASSUME IInv, Inside, NEW t \in Worker, NEW m \in Mon,
           sys__monitor_unlock(t, m) \/ \E c \in Cond : sys__monitor_wait(t, m, c)
    PROVE  Inside'
<1> DEFINE o == mptr[m]
           e == k.q[MonQ(o)] = <<>>
           h == Head(k.q[MonQ(o)])
<1>1. /\ o \in mons /\ o \in KMon /\ kcall = NULL /\ owner[o] = t
      /\ UNCHANGED <<mons, kcall, cptr, mptr>>
      /\ owner' = [owner EXCEPT ![o] = IF e THEN NULL ELSE h]
      /\ \A u \in Thread, y \in WaitQ : u # t =>
            (k'.queue[u] = y <=> k.queue[u] = y /\ ~(~e /\ u = h))
  <2>1. CASE sys__monitor_unlock(t, m)
    BY <2>1, UnlockKeeps
  <2>2. CASE \E c \in Cond : sys__monitor_wait(t, m, c)
    <3>1. PICK c \in Cond : sys__monitor_wait(t, m, c)
      BY <2>2
    <3> QED
      BY <3>1, WaitKeeps
  <2> QED
    BY <2>1, <2>2
<1>2. /\ k.active = t /\ t \in Thread /\ AllLinked(k) /\ ActiveFree(k)
      /\ \A p \in KMon : k.queue[t] # MonQ(p)
      /\ \A x \in KCond : k.queue[t] # CondQ(x)
  BY RunningFacts DEF sys__monitor_unlock, sys__monitor_wait
<1>3. /\ mons \subseteq KMon /\ owner \in [KMon -> Worker \cup {NULL}]
      /\ claim \in [Thread -> SUBSET KMon] /\ qdata \in [Thread -> KMon \cup {NULL}] /\ Owners
  BY DEF IInv, TypeOK
<1>4. ~e => h \in Worker /\ h \in Thread /\ k.queue[h] = MonQ(o)
  BY <1>1, <1>2, MonQueues, HeadStands
<1>5. \A u \in Worker : u # t => claim'[u] = claim[u] /\ qdata'[u] = qdata[u]
  <2>1. CASE sys__monitor_unlock(t, m)
    BY <1>2, <1>3, <2>1 DEF sys__monitor_unlock, Worker
  <2>2. CASE \E c \in Cond : sys__monitor_wait(t, m, c)
    BY <1>2, <1>3, <2>2 DEF sys__monitor_wait, Worker
  <2> QED
    BY <2>1, <2>2
<1>6. /\ claim'[t] \subseteq claim[t]
      /\ \A p \in mons : p = o /\ p \in claim'[t] => waits_for(t, p)'
  <2>1. CASE sys__monitor_unlock(t, m)
    BY <1>2, <1>3, <2>1 DEF sys__monitor_unlock
  <2>2. CASE \E c \in Cond : sys__monitor_wait(t, m, c)
    <3>1. PICK c \in Cond : sys__monitor_wait(t, m, c)
      BY <2>2
    <3>2. /\ claim' = claim /\ qdata' = [qdata EXCEPT ![t] = o] /\ cptr[c] \in KCond
          /\ \A y \in WaitQ : k'.queue[t] = y <=> y = CondQ(cptr[c])
      BY <1>2, <3>1, WaitKeeps
    <3>3. k'.queue[t] = CondQ(cptr[c]) /\ qdata'[t] = o
      BY <1>2, <1>3, <3>2, MonQueues
    <3> QED
      BY <3>2, <3>3 DEF waits_for, on_condition
  <2> QED
    BY <2>1, <2>2
<1> HIDE DEF o, h, e
<1>7. \A p \in mons, u \in Worker : p \in claim[u] => owner[p] = u \/ waits_for(u, p)
  BY <1>1 DEF Inside, Entered, Razed
<1>8. \A p \in mons : p \in claim[t] => owner[p] = t
  BY <1>2, <1>3, <1>7 DEF waits_for, on_condition
<1>9. /\ owner'[o] = IF e THEN NULL ELSE h
      /\ \A p \in KMon : p # o => owner'[p] = owner[p]
  BY <1>1, <1>3
<1>10. ASSUME NEW u \in Worker, u # t, NEW p \in mons, waits_for(u, p)
       PROVE  waits_for(u, p)' \/ owner'[p] = u
  <2>1. u \in Thread /\ p \in KMon /\ qdata'[u] = qdata[u]
    BY <1>3, <1>5, <1>10 DEF Worker
  <2>2. CASE ~e /\ u = h
    <3>1. k.queue[u] = MonQ(o) /\ p = o
      BY <1>1, <1>4, <1>10, <2>1, <2>2, MonQueues DEF waits_for, on_condition
    <3> QED
      BY <1>9, <2>2, <3>1
  <2>3. CASE ~(~e /\ u = h)
    BY <1>1, <1>10, <2>1, <2>3, MonQueues DEF waits_for, on_condition
  <2> QED
    BY <2>2, <2>3
<1>11. Entered'
  <2> SUFFICES ASSUME NEW p \in mons', NEW u \in Worker, p \in claim'[u]
               PROVE  owner'[p] = u \/ waits_for(u, p)'
    BY DEF Entered
  <2>1. p \in mons /\ p \in KMon
    BY <1>1, <1>3
  <2>2. CASE u = t
    BY <1>6, <1>8, <1>9, <2>1, <2>2
  <2>3. CASE u # t
    <3>1. owner[p] = u \/ waits_for(u, p)
      BY <1>5, <1>7, <2>1, <2>3
    <3>2. owner[p] = u => p # o
      BY <1>1, <2>3
    <3> QED
      BY <1>9, <1>10, <2>1, <2>3, <3>1, <3>2
  <2> QED
    BY <2>2, <2>3
<1> QED
  BY <1>1, <1>11 DEF Inside, NoneInDoomed

\* A turn of a signal or broadcast: the signalled thread owns its monitor or
\* stands at its entrance.
LEMMA SignalInside ==
    ASSUME IInv, Inside, release_next
    PROVE  Inside'
<1> DEFINE x == cptr[kcall[3]]
           t == Head(k.q[CondQ(x)])
           o == qdata[t]
<1>1. /\ UNCHANGED <<mptr, cptr, mons, qdata, claim>>
      /\ kcall' # NULL /\ kcall'[1] \in {"signal", "broadcast", "signalled"}
      /\ \/ /\ ~lock[o] /\ owner' = [owner EXCEPT ![o] = t]
            /\ \A u \in Thread, y \in WaitQ : k'.queue[u] = y <=> k.queue[u] = y /\ u # t
         \/ /\ owner' = owner
            /\ \A u \in Thread, y \in WaitQ :
                   k'.queue[u] = y <=> IF u = t THEN y = MonQ(o) ELSE k.queue[u] = y
  BY SignalKeeps
<1>2. /\ kcall # NULL /\ kcall[1] \in {"signal", "broadcast"} /\ k.q[CondQ(x)] # <<>>
  BY DEF release_next
<1>3. x \in KCond
  BY <1>2 DEF IInv, CallOK, TypeOK
<1>4. /\ mons \subseteq KMon /\ owner \in [KMon -> Worker \cup {NULL}]
      /\ claim \in [Thread -> SUBSET KMon] /\ Owners /\ Waiters
      /\ AllLinked(k) /\ ActiveFree(k)
  BY DEF IInv, TypeOK
<1>5. t \in Worker /\ t \in Thread /\ k.queue[t] = CondQ(x)
  BY <1>2, <1>3, <1>4, MonQueues, HeadStands
<1>6. o \in mons /\ o \in KMon
  BY <1>3, <1>4, <1>5 DEF Waiters
<1> HIDE DEF x, t, o
<1>7. \A p \in mons, u \in Worker : p \in claim[u] => owner[p] = u \/ waits_for(u, p)
  BY <1>2 DEF Inside, Entered, Razed
<1>8. \A p \in mons : waits_for(t, p) => p = o
  BY <1>3, <1>4, <1>5, MonQueues DEF waits_for, on_condition, o
<1>9. CASE /\ ~lock[o] /\ owner' = [owner EXCEPT ![o] = t]
           /\ \A u \in Thread, y \in WaitQ : k'.queue[u] = y <=> k.queue[u] = y /\ u # t
  <2>1. /\ owner'[o] = t /\ \A p \in KMon : p # o => owner'[p] = owner[p]
    BY <1>4, <1>6, <1>9
  <2>2. \A u \in Worker : owner[o] # u
    BY <1>4, <1>6, <1>9, KThreadsAssumption, WorkersAssumption DEF Owners, Worker
  <2>3. \A u \in Worker, p \in mons : u # t /\ waits_for(u, p) => waits_for(u, p)'
    BY <1>1, <1>4, <1>9, MonQueues DEF waits_for, on_condition, Worker
  <2>4. Entered'
    BY <1>1, <1>4, <1>7, <1>8, <2>1, <2>2, <2>3 DEF Entered
  <2> QED
    BY <1>1, <2>4 DEF Inside, NoneInDoomed
<1>10. CASE /\ owner' = owner
            /\ \A u \in Thread, y \in WaitQ :
                   k'.queue[u] = y <=> IF u = t THEN y = MonQ(o) ELSE k.queue[u] = y
  <2>1. \A u \in Worker, p \in mons : u = t /\ p = o => waits_for(u, p)'
    BY <1>5, <1>6, <1>10, MonQueues DEF waits_for
  <2>2. \A u \in Worker, p \in mons : u # t /\ waits_for(u, p) => waits_for(u, p)'
    BY <1>1, <1>4, <1>10, MonQueues DEF waits_for, on_condition, Worker
  <2>3. Entered'
    BY <1>1, <1>7, <1>8, <1>10, <2>1, <2>2 DEF Entered
  <2> QED
    BY <1>1, <2>3 DEF Inside, NoneInDoomed
<1> QED
  BY <1>1, <1>9, <1>10

\* The steps that move nobody: the beginnings and ends of loops, sleeping.
LEMMA QuietInside ==
    ASSUME IInv, Inside, "destroyCond" \notin Uses,
           \/ \E t \in Worker, c \in Cond, call \in {"signal", "broadcast"} :
                sys__monitor_release(t, c, call)
           \/ \E t \in Worker, m \in Mon : sys__monitor_destroy(t, m)
           \/ \E t \in Worker, c \in Cond : sys__monitor_queue_destroy(t, c)
           \/ release_done
           \/ queue_destroy_done
           \/ \E t \in Worker : sys__wait_for_alarm(t) \/ k_timer_interrupt(t)
    PROVE  Inside'
<1>1. CASE \/ \E t \in Worker, c \in Cond, call \in {"signal", "broadcast"} :
                sys__monitor_release(t, c, call)
           \/ \E t \in Worker, m \in Mon : sys__monitor_destroy(t, m)
  <2>1. /\ UNCHANGED <<k, mons, owner, qdata, claim>> /\ kcall = NULL
        /\ kcall' # NULL => kcall'[1] # "queue_destroy"
    BY <1>1 DEF sys__monitor_release, sys__monitor_destroy, Running, InUser
  <2> QED
    BY <2>1, QuietEntered DEF Inside, Razed, NoneInDoomed
<1>2. CASE \E t \in Worker, c \in Cond : sys__monitor_queue_destroy(t, c)
  <2>1. PICK t \in Worker, c \in Cond : sys__monitor_queue_destroy(t, c)
    BY <1>2
  <2>2. /\ UNCHANGED <<k, mons, owner, qdata, claim, mptr, cptr>> /\ kcall = NULL
        /\ kcall' = <<"queue_destroy", t, c>> /\ k.q[CondQ(cptr[c])] = <<>>
    BY <2>1 DEF sys__monitor_queue_destroy, Running, InUser
  <2>3. Entered'
    BY <2>2, QuietEntered DEF Inside, Razed
  <2>4. NoneInDoomed'
    BY <2>2 DEF NoneInDoomed, doomed
  <2> QED
    BY <2>3, <2>4 DEF Inside
<1>3. CASE release_done \/ queue_destroy_done
  <2>1. /\ UNCHANGED <<mons, owner, qdata, claim>> /\ kcall' = NULL
        /\ kcall[1] # "destroy"
        /\ \A u \in Thread, y \in WaitQ : k'.queue[u] = y <=> k.queue[u] = y
    BY <1>3, ReleaseDoneKeeps, QueueDestroyDoneKeeps
  <2>2. Entered'
    BY <2>1, QuietEntered, MonQueues DEF Inside, Razed, Worker
  <2> QED
    BY <2>1, <2>2 DEF Inside, NoneInDoomed
<1>4. CASE \E t \in Worker : sys__wait_for_alarm(t) \/ k_timer_interrupt(t)
  <2>1. /\ UNCHANGED <<mons, owner, qdata, claim, kcall>> /\ kcall = NULL
        /\ \A u \in Thread, o \in KMon : k'.queue[u] = MonQ(o) <=> k.queue[u] = MonQ(o)
        /\ \A u \in Thread, x \in KCond : k'.queue[u] = CondQ(x) <=> k.queue[u] = CondQ(x)
    BY <1>4, SleepKeeps DEF mvars
  <2>2. Entered'
    BY <2>1, QuietEntered DEF Inside, Razed, Worker
  <2> QED
    BY <2>1, <2>2 DEF Inside, NoneInDoomed
<1> QED
  BY <1>1, <1>2, <1>3, <1>4

\* The loop of monitor_destroy lets go the threads at the entrance of its own
\* monitor only, and its end forgets the claims on it.
LEMMA DestroyInside ==
    ASSUME IInv, Inside, destroy_next \/ destroy_done
    PROVE  Inside'
<1>1. CASE destroy_next
  <2>1. /\ UNCHANGED <<mons, owner, qdata, claim, kcall, mptr>> /\ kcall # NULL
        /\ \A u \in Thread, y \in WaitQ \ {doomed} : k'.queue[u] = y <=> k.queue[u] = y
    BY <1>1, DestroyNextKeeps DEF mvars
  <2>2. kcall[1] = "destroy"
    BY <1>1 DEF destroy_next, Inside, NoneInDoomed
  <2>3. doomed = MonQ(mptr[kcall[3]]) /\ mptr[kcall[3]] \in KMon
    BY <2>1, <2>2, DoomedFacts
  <2>4. mons \subseteq KMon
    BY DEF IInv, TypeOK
  <2>5. ASSUME NEW u \in Worker, NEW p \in mons, waits_for(u, p), p # mptr[kcall[3]]
        PROVE  waits_for(u, p)'
    BY <2>1, <2>3, <2>4, <2>5, MonQueues DEF waits_for, on_condition, Worker
  <2>6. \A p \in mons : Razed(p)' <=> p = mptr[kcall[3]]
    BY <2>1, <2>2 DEF Razed
  <2>7. Entered'
    BY <2>1, <2>5, <2>6 DEF Inside, Entered, Razed
  <2> QED
    BY <2>1, <2>2, <2>7 DEF Inside, NoneInDoomed
<1>2. CASE destroy_done
  <2> DEFINE d == mptr[kcall[3]]
  <2>1. /\ kcall' = NULL /\ mons' = mons \ {d}
        /\ claim' = [t \in Thread |-> claim[t] \ {d}] /\ UNCHANGED <<owner, qdata>>
        /\ \A u \in Thread, y \in WaitQ : k'.queue[u] = y <=> k.queue[u] = y
    BY <1>2, DestroyDoneKeeps
  <2>2. \A p \in mons : Razed(p) => p = d
    BY DEF Razed
  <2> HIDE DEF d
  <2>3. mons \subseteq KMon
    BY DEF IInv, TypeOK
  <2>4. \A u \in Worker, p \in mons : waits_for(u, p) => waits_for(u, p)'
    BY <2>1, <2>3, MonQueues DEF waits_for, on_condition, Worker
  <2>5. \A u \in Worker : claim'[u] = claim[u] \ {d}
    BY <2>1 DEF Worker
  <2>6. Entered'
    BY <2>1, <2>2, <2>4, <2>5 DEF Inside, Entered
  <2> QED
    BY <2>1, <2>6 DEF Inside, NoneInDoomed
<1> QED
  BY <1>1, <1>2

\* A thread that has entered a monitor and waits for nothing is its owner, so at
\* most one thread is inside ("unblocked thread becomes monitor owner").
THEOREM SpecMutualExclusion ==
    ASSUME "destroyMonitor" \notin Uses, "destroyCond" \notin Uses
    PROVE  Spec => []MutualExclusion
<1>1. Init => Inside
  BY DEF Init, Inside, Entered, NoneInDoomed
<1>2. ASSUME IInv, Inside, [Next]_vars PROVE Inside'
  <2>1. CASE UNCHANGED vars
    BY <1>2, <2>1 DEF vars, mvars, Inside, Entered, NoneInDoomed, waits_for, on_condition,
                      Razed, doomed
  <2>2. CASE Next
    BY <1>2, <2>1, <2>2, CreateInside, LockInside, LeaveInside, SignalInside, QuietInside,
       DestroyInside DEF Next, idle_thread
  <2> QED
    BY <1>2, <2>1, <2>2
<1>3. Inside => MutualExclusion
  BY DEF Inside, Entered, MutualExclusion, InUser, Razed
<1> QED
  BY <1>1, <1>2, <1>3, SpecIInv, PTL DEF Spec
=============================================================================

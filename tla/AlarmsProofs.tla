---------------------------- MODULE AlarmsProofs ----------------------------
(***************************************************************************)
(* Proofs about Alarms: the list of alarms is exact, no alarm is overdue   *)
(* and nobody sleeps on one that has expired, for any programs, threads,   *)
(* priorities and times.                                                   *)
(*                                                                         *)
(* The invariant Inv(s) holds at every step of the kernel, in the middle   *)
(* of its loops too:                                                       *)
(*   Runs      the mask is exact and the idle thread can run, so that the  *)
(*             scheduler always finds a thread;                            *)
(*   Listed    kalarms holds the active alarms, once each, in order;       *)
(*   Owned     what the loop reads of an alarm (creator, parameter) is     *)
(*             there for the action it has;                                *)
(*   Measures  the counter counts an interval within the delay asked for;  *)
(*   FrameOK   the time k_schedule_alarms read is still the time, as no    *)
(*             time passes inside of the kernel;                           *)
(*   InTime    the timer's interrupt comes in time for the first alarm,    *)
(*             unless k_schedule_alarms is on the stack and will set it.   *)
(* A second one, Asleep(s), follows the threads that sleep on alarms: each *)
(* alarm somebody sleeps on can still expire, or has no time, or its queue *)
(* is being released by a frame of the stack.                              *)
(* Order: queues and scheduler; stack; lists; time.c; the hooks of round   *)
(* robin; the actions; the theorems; who sleeps on alarms.                 *)
(***************************************************************************)
EXTENDS Alarms, KThreadsProofs, FiniteSetTheorems

-----------------------------------------------------------------------------
\* What alarms need of the scheduling state, whatever the programs do: the mask
\* is exact and the idle thread can run, so that the scheduler always finds a
\* thread.  The descriptor of thread t is being changed.
Runs(k, t) ==
    /\ k \in KState /\ MaskExact(k)
    /\ \A u \in Thread \ {t} : k.state[u] = "READY" => k.queue[u] = ReadyQ(k.prio[u])
    /\ \A u \in Thread \ {t} : k.state[u] = "WAIT" => k.queue[u] \in WaitQ
    /\ \/ k.active = Idle /\ k.state[Idle] = "ACTIVE"
       \/ k.state[Idle] = "READY" /\ Stands(k.q[ReadyQ(k.prio[Idle])], Idle)

\* Appending to a queue keeps who stands in it.
LEMMA AppendKeeps ==
    ASSUME NEW q \in Seq(Thread), NEW t \in Thread
    PROVE  /\ Append(q, t) \in Seq(Thread) /\ Append(q, t) # <<>>
           /\ <<t>> \o q \in Seq(Thread) /\ <<t>> \o q # <<>>
           /\ Stands(Append(q, t), t) /\ Stands(<<t>> \o q, t)
           /\ \A u : Stands(q, u) => Stands(Append(q, t), u) /\ Stands(<<t>> \o q, u)
<1>1. /\ Append(q, t) \in Seq(Thread) /\ Append(q, t) # <<>>
      /\ \A u : Stands(Append(q, t), u) <=> u = t \/ Stands(q, u)
  BY AppendMember, AppendStands
<1> DEFINE w == <<t>> \o q
<1>2. <<t>> \in Seq(Thread) /\ Len(<<t>>) = 1 /\ <<t>>[1] = t /\ Len(q) \in Nat
  BY LenProperties
<1>3. /\ w \in Seq(Thread) /\ Len(w) = 1 + Len(q)
      /\ \A i \in 1..1 + Len(q) : w[i] = IF i <= 1 THEN <<t>>[i] ELSE q[i - 1]
  BY <1>2, ConcatProperties
<1> HIDE DEF w
<1>4. 1 \in 1..Len(w) /\ w[1] = t
  BY <1>2, <1>3
<1>5. w # <<>> /\ Stands(w, t)
  BY <1>4, <1>3, <1>2 DEF Stands
<1>6. ASSUME NEW u, Stands(q, u) PROVE Stands(w, u)
  <2>1. PICK i \in 1..Len(q) : q[i] = u
    BY <1>6 DEF Stands
  <2>2. i + 1 \in 1..1 + Len(q) /\ ~(i + 1 <= 1) /\ (i + 1) - 1 = i
    BY <1>2
  <2>3. i + 1 \in 1..Len(w) /\ w[i + 1] = u
    BY <1>3, <2>1, <2>2
  <2> QED
    BY <2>3 DEF Stands
<1> QED
  BY <1>1, <1>3, <1>5, <1>6 DEF w

\* A thread that becomes ready, at either end of its queue.
LEMMA ReadyRuns ==
    ASSUME NEW k, NEW t \in Thread, Runs(k, t),
           NEW n \in {kthread_move_to_ready(k, t), kthread_move_to_ready_first(k, t)}
    PROVE  /\ Runs(n, NULL) /\ n.active = k.active /\ n.prio = k.prio
           /\ n.state = [k.state EXCEPT ![t] = "READY"]
           /\ \A p \in Prio : k.q[ReadyQ(p)] # <<>> => n.q[ReadyQ(p)] # <<>>
<1> DEFINE r == ReadyQ(k.prio[t])
<1>1. k \in KState /\ k.prio[t] \in Prio /\ r \in Queue /\ r \in ReadyQs /\ k.q[r] \in Seq(Thread)
  BY QueueNames DEF Runs, KState
<1>2. PICK w \in {Append(k.q[r], t), <<t>> \o k.q[r]} :
        n = [k EXCEPT !.state[t] = "READY", !.queue[t] = r, !.q[r] = w, !.mask = @ \cup {k.prio[t]}]
  BY DEF kthread_move_to_ready, kthread_move_to_ready_first
<1>3. /\ w \in Seq(Thread) /\ w # <<>> /\ Stands(w, t)
      /\ \A u : Stands(k.q[r], u) => Stands(w, u)
  BY <1>1, AppendKeeps
<1>4. /\ n.state = [k.state EXCEPT ![t] = "READY"] /\ n.queue = [k.queue EXCEPT ![t] = r]
      /\ n.q = [k.q EXCEPT ![r] = w] /\ n.mask = k.mask \cup {k.prio[t]}
      /\ n.active = k.active /\ n.prio = k.prio
  BY <1>1, <1>2 DEF KState
<1>5. n \in KState
  BY <1>1, <1>2, <1>3 DEF KState, ThreadState
<1> HIDE DEF r
<1>6. \A x \in Queue : n.q[x] = IF x = r THEN w ELSE k.q[x]
  BY <1>1, <1>4 DEF KState
<1>7. MaskExact(n)
  BY <1>1, <1>3, <1>4, <1>6, QueueNames DEF MaskExact, Runs, r
<1>8. \A p \in Prio : k.q[ReadyQ(p)] # <<>> => n.q[ReadyQ(p)] # <<>>
  BY <1>3, <1>6, QueueNames
<1>9. \A u \in Thread : n.state[u] = "READY" => n.queue[u] = ReadyQ(n.prio[u])
  BY <1>1, <1>4 DEF Runs, KState, r
<1>10. \A u \in Thread : n.state[u] = "WAIT" => n.queue[u] \in WaitQ
  BY <1>1, <1>4 DEF Runs, KState
<1>11. ReadyQ(k.prio[Idle]) \in Queue /\ Idle \in Thread
  BY <1>1, KThreadsAssumption, QueueNames DEF KState
<1>12. \/ n.active = Idle /\ n.state[Idle] = "ACTIVE"
       \/ n.state[Idle] = "READY" /\ Stands(n.q[ReadyQ(n.prio[Idle])], Idle)
  <2>1. CASE t = Idle
    BY <1>1, <1>3, <1>4, <1>6, <1>11, <2>1 DEF r, KState
  <2>2. CASE t # Idle
    <3>1. n.state[Idle] = k.state[Idle]
      BY <1>1, <1>4, <1>11, <2>2 DEF KState
    <3>2. Stands(k.q[ReadyQ(k.prio[Idle])], Idle) => Stands(n.q[ReadyQ(k.prio[Idle])], Idle)
      BY <1>3, <1>6, <1>11
    <3> QED
      BY <1>4, <3>1, <3>2 DEF Runs
  <2> QED
    BY <2>1, <2>2
<1> QED
  BY <1>4, <1>5, <1>7, <1>8, <1>9, <1>10, <1>12 DEF Runs

\* A thread other than the idle one is blocked.
LEMMA EnqueueRuns ==
    ASSUME NEW k, NEW t \in Thread \ {Idle}, Runs(k, t), NEW x \in WaitQ
    PROVE  LET n == kthread_enqueue(k, t, x) IN
           Runs(n, NULL) /\ n.active = k.active
<1> DEFINE n == kthread_enqueue(k, t, x)
<1>1. k \in KState /\ x \in Queue /\ x \notin ReadyQs /\ k.q[x] \in Seq(Thread)
  BY QueueNames DEF Runs, KState
<1>2. Append(k.q[x], t) \in Seq(Thread)
  BY <1>1, AppendMember
<1>3. /\ n.state = [k.state EXCEPT ![t] = "WAIT"] /\ n.queue = [k.queue EXCEPT ![t] = x]
      /\ n.q = [k.q EXCEPT ![x] = Append(k.q[x], t)] /\ n.mask = k.mask
      /\ n.active = k.active /\ n.prio = k.prio
  BY <1>1 DEF kthread_enqueue, KState
<1>4. n \in KState
  BY <1>1, <1>2 DEF kthread_enqueue, KState, ThreadState
<1> HIDE DEF n
<1>5. \A p \in Prio : n.q[ReadyQ(p)] = k.q[ReadyQ(p)]
  BY <1>1, <1>3, QueueNames DEF KState
<1>6. MaskExact(n)
  BY <1>3, <1>5 DEF MaskExact, Runs
<1>7. \A u \in Thread : n.state[u] = "READY" => n.queue[u] = ReadyQ(n.prio[u])
  BY <1>1, <1>3 DEF Runs, KState
<1>8. \A u \in Thread : n.state[u] = "WAIT" => n.queue[u] \in WaitQ
  BY <1>1, <1>3 DEF Runs, KState
<1>9. n.state[Idle] = k.state[Idle] /\ k.prio[Idle] \in Prio
  BY <1>1, <1>3, KThreadsAssumption DEF KState
<1> QED
  BY <1>3, <1>4, <1>5, <1>6, <1>7, <1>8, <1>9 DEF Runs, n

\* A change of a queue of blocked threads, and of nothing else.
LEMMA OtherQueueRuns ==
    ASSUME NEW k, NEW t, Runs(k, t), NEW x \in WaitQ, NEW w \in Seq(Thread)
    PROVE  LET n == [k EXCEPT !.q[x] = w] IN
           Runs(n, t) /\ n.active = k.active /\ n.prio = k.prio /\ n.state = k.state
<1> DEFINE n == [k EXCEPT !.q[x] = w]
<1>1. k \in KState /\ x \in Queue /\ x \notin ReadyQs
  BY QueueNames DEF Runs
<1>2. /\ n.state = k.state /\ n.queue = k.queue /\ n.q = [k.q EXCEPT ![x] = w]
      /\ n.mask = k.mask /\ n.active = k.active /\ n.prio = k.prio
  BY <1>1 DEF KState
<1>3. n \in KState
  BY <1>1 DEF KState
<1> HIDE DEF n
<1>4. \A p \in Prio : n.q[ReadyQ(p)] = k.q[ReadyQ(p)]
  BY <1>1, <1>2, QueueNames DEF KState
<1>5. k.prio[Idle] \in Prio
  BY <1>1, KThreadsAssumption DEF KState
<1> QED
  BY <1>2, <1>3, <1>4, <1>5 DEF Runs, MaskExact, n

\* One turn of the loop that releases threads.
LEMMA ReleaseRuns ==
    ASSUME NEW k, Runs(k, NULL), NEW x \in WaitQ
    PROVE  Runs(kthreadq_release(k, x), NULL)
<1>1. k.q[x] \in Seq(Thread)
  BY QueueNames DEF Runs, KState
<1>2. CASE k.q[x] = <<>>
  BY <1>2 DEF kthreadq_release
<1>3. CASE k.q[x] # <<>>
  <2> DEFINE h == Head(k.q[x])
             n == [k EXCEPT !.q[x] = Tail(@)]
  <2>1. h \in Thread /\ Tail(k.q[x]) \in Seq(Thread) /\ NULL \notin Thread
    BY <1>1, <1>3, TailMember, KThreadsAssumption
  <2>2. Runs(n, NULL)
    BY <2>1, OtherQueueRuns
  <2>3. Runs(n, h)
    BY <2>1, <2>2 DEF Runs
  <2>4. kthreadq_release(k, x) = kthread_move_to_ready(n, h)
    BY <1>3 DEF kthreadq_release
  <2> HIDE DEF n, h
  <2>5. Runs(kthread_move_to_ready(n, h), NULL)
    BY <2>1, <2>3, ReadyRuns
  <2> QED
    BY <2>4, <2>5
<1> QED
  BY <1>2, <1>3

\* Removing the first occurrence of an element leaves the other elements.
LEMMA RemoveFirstKeeps ==
    ASSUME NEW S, NEW q \in Seq(S), NEW e
    PROVE  /\ RemoveFirst(q, e) \in Seq(S)
           /\ \A u : u # e /\ Stands(q, u) => Stands(RemoveFirst(q, e), u)
           /\ ~Stands(q, e) => RemoveFirst(q, e) = q
           /\ Stands(q, e) => \E m \in 1..Len(q) :
                 /\ q[m] = e /\ Len(RemoveFirst(q, e)) = Len(q) - 1
                 /\ \A i \in 1..Len(q) - 1 :
                       RemoveFirst(q, e)[i] = IF i < m THEN q[i] ELSE q[i + 1]
<1>0. Len(q) \in Nat
  BY LenProperties
<1>1. CASE ~Stands(q, e)
  BY <1>1 DEF Stands, RemoveFirst
<1>2. CASE Stands(q, e)
  <2> DEFINE I == {i \in 1..Len(q) : q[i] = e}
             m == Min(I)
  <2>1. I \subseteq Nat /\ I # {}
    BY <1>0, <1>2 DEF Stands
  <2>2. PICK l \in I : \A i \in I : ~(<<i, l>> \in OpToRel(<, Nat))
    BY <2>1, NatLessThanWellFounded, WFMin
  <2>3. \A i \in I : l <= i
    <3>1. \A i \in Nat : i < l => <<i, l>> \in OpToRel(<, Nat)
      BY <2>1 DEF OpToRel
    <3>2. I \subseteq Nat /\ l \in Nat /\ \A i \in I : ~(i < l)
      BY <2>1, <2>2, <3>1
    <3> HIDE DEF I
    <3> QED
      BY <3>2
  <2>4. m \in I
    BY <2>2, <2>3 DEF Min
  <2>5. RemoveFirst(q, e) = RemoveAt(q, m)
    BY <1>2, <2>1 DEF RemoveFirst, SelectInSeq, Stands
  <2> HIDE DEF m
  <2>6. m \in 1..Len(q) /\ q[m] = e
    BY <2>4
  <2> DEFINE a == SubSeq(q, 1, m - 1)
             b == SubSeq(q, m + 1, Len(q))
  <2>7. a \in Seq(S) /\ Len(a) = m - 1 /\ \A i \in 1..m - 1 : a[i] = q[i]
    BY <1>0, <2>6, SubSeqProperties
  <2>8. b \in Seq(S) /\ Len(b) = Len(q) - m /\ \A i \in 1..Len(q) - m : b[i] = q[m + i]
    BY <1>0, <2>6, SubSeqProperties
  <2>9. RemoveAt(q, m) = a \o b
    BY DEF RemoveAt
  <2> DEFINE w == a \o b
  <2> HIDE DEF a, b, I
  <2>10. /\ w \in Seq(S) /\ Len(w) = Len(a) + Len(b)
         /\ \A i \in 1..Len(a) + Len(b) : w[i] = IF i <= Len(a) THEN a[i] ELSE b[i - Len(a)]
    BY <2>7, <2>8, ConcatProperties
  <2> HIDE DEF w
  <2>11. Len(w) = Len(q) - 1
    BY <1>0, <2>6, <2>7, <2>8, <2>10
  <2>12. ASSUME NEW i \in 1..Len(q) - 1 PROVE w[i] = IF i < m THEN q[i] ELSE q[i + 1]
    <3>1. CASE i < m
      BY <1>0, <2>6, <2>7, <2>8, <2>10, <3>1
    <3>2. CASE ~(i < m)
      <4>1. i - (m - 1) \in 1..Len(q) - m /\ m + (i - (m - 1)) = i + 1
        BY <1>0, <2>6, <3>2
      <4>2. w[i] = b[i - (m - 1)]
        BY <1>0, <2>6, <2>7, <2>8, <2>10, <3>2
      <4> QED
        BY <2>8, <3>2, <4>1, <4>2
    <3> QED
      BY <3>1, <3>2
  <2>13. ASSUME NEW u, u # e, Stands(q, u) PROVE Stands(w, u)
    <3>1. PICK i \in 1..Len(q) : q[i] = u
      BY <2>13 DEF Stands
    <3>2. i # m
      BY <2>6, <2>13, <3>1
    <3>3. CASE i < m
      <4>1. i \in 1..Len(q) - 1 /\ w[i] = u
        BY <1>0, <2>6, <2>12, <3>1, <3>3
      <4> QED
        BY <2>11, <4>1 DEF Stands
    <3>4. CASE ~(i < m)
      <4>1. i - 1 \in 1..Len(q) - 1 /\ ~(i - 1 < m) /\ (i - 1) + 1 = i
        BY <1>0, <2>6, <3>1, <3>2, <3>4
      <4>2. w[i - 1] = u
        BY <2>12, <3>1, <4>1
      <4> QED
        BY <2>11, <4>1, <4>2 DEF Stands
    <3> QED
      BY <3>3, <3>4
  <2>14. RemoveFirst(q, e) = w
    BY <2>5, <2>9 DEF w
  <2> QED
    BY <1>2, <2>6, <2>10, <2>11, <2>12, <2>13, <2>14
<1> QED
  BY <1>1, <1>2

\* The part of Runs that is about the idle thread, when it is not active.
IdleReady(k) == k.state[Idle] = "READY" /\ Stands(k.q[ReadyQ(k.prio[Idle])], Idle)

\* A ready queue loses threads, but not the idle one, and its bit of the mask is
\* cleared if it is empty.
LEMMA ShorterRuns ==
    ASSUME NEW k, NEW t, Runs(k, t), NEW p \in Prio, NEW w \in Seq(Thread), p \in k.mask,
           Stands(k.q[ReadyQ(p)], Idle) => Stands(w, Idle)
    PROVE  LET n == clear_if_empty([k EXCEPT !.q[ReadyQ(p)] = w], p) IN
           /\ Runs(n, t) /\ n.active = k.active /\ n.prio = k.prio /\ n.state = k.state
           /\ n.queue = k.queue /\ (IdleReady(k) => IdleReady(n))
<1> DEFINE r == ReadyQ(p)
           n == clear_if_empty([k EXCEPT !.q[r] = w], p)
<1>1. k \in KState /\ r \in Queue /\ r \in ReadyQs
  BY QueueNames DEF Runs
<1>2. /\ n.state = k.state /\ n.queue = k.queue /\ n.q = [k.q EXCEPT ![r] = w]
      /\ n.active = k.active /\ n.prio = k.prio
      /\ n.mask = IF w = <<>> THEN k.mask \ {p} ELSE k.mask
      /\ n \in KState
  BY <1>1 DEF KState, clear_if_empty
<1> HIDE DEF n
<1>3. \A x \in Queue : n.q[x] = IF x = r THEN w ELSE k.q[x]
  BY <1>1, <1>2 DEF KState
<1>4. MaskExact(n)
  BY <1>1, <1>2, <1>3, QueueNames DEF MaskExact, Runs
<1>5. k.prio[Idle] \in Prio /\ ReadyQ(k.prio[Idle]) \in Queue
  BY <1>1, KThreadsAssumption, QueueNames DEF KState
<1>6. IdleReady(k) => IdleReady(n)
  BY <1>2, <1>3, <1>5 DEF IdleReady
<1> QED
  BY <1>2, <1>4, <1>6 DEF Runs, IdleReady, n

\* A ready thread other than the idle one leaves its queue.
LEMMA RemoveReadyRuns ==
    ASSUME NEW k, Runs(k, NULL), NEW t \in Thread \ {Idle}, k.state[t] = "READY"
    PROVE  LET n == clear_if_empty(kthreadq_remove(k, t), k.prio[t]) IN
           /\ Runs(n, NULL) /\ n.active = k.active /\ n.state = k.state
<1> DEFINE p == k.prio[t]
           w == RemoveFirst(k.q[ReadyQ(p)], t)
<1>1. /\ k \in KState /\ p \in Prio /\ NULL \notin Thread
      /\ k.queue[t] = ReadyQ(p) /\ k.q[ReadyQ(p)] \in Seq(Thread)
  BY KThreadsAssumption, QueueNames DEF Runs, KState
<1>2. w \in Seq(Thread) /\ (Stands(k.q[ReadyQ(p)], Idle) => Stands(w, Idle))
  BY <1>1, RemoveFirstKeeps
<1>3. kthreadq_remove(k, t) = [k EXCEPT !.q[ReadyQ(p)] = w]
  BY <1>1 DEF kthreadq_remove
<1>4. CASE p \in k.mask
  <2> DEFINE n == clear_if_empty([k EXCEPT !.q[ReadyQ(p)] = w], p)
  <2> HIDE DEF w, p
  <2>1. Runs(n, NULL) /\ n.active = k.active /\ n.state = k.state
    BY <1>1, <1>2, <1>4, ShorterRuns
  <2> QED
    BY <1>3, <2>1 DEF p
<1>5. CASE p \notin k.mask
  <2>1. k.q[ReadyQ(p)] = <<>>
    BY <1>1, <1>5 DEF Runs, MaskExact
  <2>2. ~Stands(k.q[ReadyQ(p)], t)
    BY <2>1 DEF Stands
  <2>3. w = k.q[ReadyQ(p)]
    BY <1>1, <2>2, RemoveFirstKeeps
  <2>4. [k EXCEPT !.q[ReadyQ(p)] = w] = k
    BY <1>1, <2>3, QueueNames DEF KState
  <2>5. k.mask \ {p} = k.mask
    BY <1>5
  <2>6. clear_if_empty(kthreadq_remove(k, t), p) = k
    BY <1>1, <1>3, <2>4, <2>5 DEF clear_if_empty, KState
  <2> QED
    BY <2>6
<1> QED
  BY <1>4, <1>5

\* A thread other than the idle one ends or leaves its queue.
LEMMA UnlinkRuns ==
    ASSUME NEW k, Runs(k, NULL), NEW t \in Thread \ {Idle}
    PROVE  Runs(kthread_unlink(k, t), NULL)
<1>1. k \in KState /\ NULL \notin Thread
  BY KThreadsAssumption DEF Runs
<1>2. CASE k.state[t] = "READY"
  BY <1>2, RemoveReadyRuns DEF kthread_unlink
<1>3. CASE k.state[t] = "WAIT"
  <2>1. k.queue[t] \in WaitQ /\ k.q[k.queue[t]] \in Seq(Thread)
    BY <1>1, <1>3, QueueNames DEF Runs, KState
  <2>2. RemoveFirst(k.q[k.queue[t]], t) \in Seq(Thread)
    BY <2>1, RemoveFirstKeeps
  <2>3. kthread_unlink(k, t) = [k EXCEPT !.q[k.queue[t]] = RemoveFirst(k.q[k.queue[t]], t)]
    BY <1>3 DEF kthread_unlink, kthreadq_remove
  <2> QED
    BY <2>1, <2>2, <2>3, OtherQueueRuns
<1>4. CASE k.state[t] = "ACTIVE"
  <2> DEFINE n == [k EXCEPT !.state[t] = "PASSIVE"]
  <2>1. kthread_unlink(k, t) = n
    BY <1>4 DEF kthread_unlink
  <2>2. /\ n \in KState /\ n.state = [k.state EXCEPT ![t] = "PASSIVE"]
        /\ n.queue = k.queue /\ n.q = k.q /\ n.mask = k.mask /\ n.active = k.active
        /\ n.prio = k.prio
    BY <1>1 DEF KState, ThreadState
  <2> HIDE DEF n
  <2>3. \A u \in Thread : n.state[u] # "PASSIVE" => n.state[u] = k.state[u]
    BY <1>1, <2>2 DEF KState
  <2>4. n.state[Idle] = k.state[Idle]
    BY <1>1, <2>2, KThreadsAssumption DEF KState
  <2>5. Runs(n, NULL)
    BY <1>1, <2>2, <2>3, <2>4 DEF Runs, MaskExact
  <2> QED
    BY <2>1, <2>5
<1>5. CASE k.state[t] \notin {"READY", "WAIT", "ACTIVE"}
  BY <1>5 DEF kthread_unlink
<1> QED
  BY <1>2, <1>3, <1>4, <1>5

\* The priority of a thread other than the idle one changes.
LEMMA PrioRuns ==
    ASSUME NEW k, NEW t \in Thread \ {Idle}, Runs(k, NULL), NEW p \in Prio
    PROVE  LET n == [k EXCEPT !.prio[t] = p] IN
           /\ Runs(n, t) /\ n.active = k.active /\ n.state = k.state
           /\ k.state[t] # "READY" => Runs(n, NULL)
<1> DEFINE n == [k EXCEPT !.prio[t] = p]
<1>1. k \in KState /\ NULL \notin Thread /\ Idle \in Thread
  BY KThreadsAssumption DEF Runs
<1>2. /\ n \in KState /\ n.prio = [k.prio EXCEPT ![t] = p]
      /\ n.queue = k.queue /\ n.q = k.q /\ n.mask = k.mask /\ n.active = k.active
      /\ n.state = k.state
  BY <1>1 DEF KState
<1> HIDE DEF n
<1>3. \A u \in Thread \ {t} : n.prio[u] = k.prio[u]
  BY <1>1, <1>2 DEF KState
<1>4. MaskExact(n)
  BY <1>2 DEF Runs, MaskExact
<1> QED
  BY <1>1, <1>2, <1>3, <1>4 DEF Runs, n

\* The first thread of a ready queue becomes active.
LEMMA ActivateRuns ==
    ASSUME NEW k, Runs(k, NULL), IdleReady(k), NEW p \in Prio, k.q[ReadyQ(p)] # <<>>
    PROVE  LET n == activate_first(k, p) IN
           Runs(n, NULL) /\ n.active \in Thread
<1> DEFINE r == ReadyQ(p)
           h == Head(k.q[r])
           w == Tail(k.q[r])
           c == clear_if_empty([k EXCEPT !.q[r] = w], p)
           n == activate_first(k, p)
<1>1. k \in KState /\ k.q[r] \in Seq(Thread) /\ p \in k.mask /\ NULL \notin Thread /\ Idle \in Thread
  BY KThreadsAssumption, QueueNames DEF Runs, KState, MaskExact
<1>2. /\ w \in Seq(Thread) /\ h \in Thread /\ h = k.q[r][1] /\ Len(k.q[r]) >= 1
      /\ Len(w) = Len(k.q[r]) - 1 /\ \A i \in 1..Len(w) : w[i] = k.q[r][i + 1]
      /\ Len(k.q[r]) \in Nat
  BY <1>1, TailMember, LenProperties
<1>3. n = [c EXCEPT !.active = h, !.state[h] = "ACTIVE", !.queue[h] = NULL]
  BY DEF activate_first
<1> HIDE DEF h, w, n
<1>4. ASSUME h # Idle, Stands(k.q[r], Idle) PROVE Stands(w, Idle)
  <2>1. PICK i \in 1..Len(k.q[r]) : k.q[r][i] = Idle
    BY <1>4 DEF Stands
  <2>2. i # 1
    BY <1>2, <1>4, <2>1
  <2>3. i - 1 \in 1..Len(w) /\ (i - 1) + 1 = i
    BY <1>2, <2>2
  <2>4. w[i - 1] = Idle
    BY <1>2, <2>1, <2>3
  <2> QED
    BY <2>3, <2>4 DEF Stands
<1>5. CASE h # Idle
  <2>1. /\ Runs(c, NULL) /\ IdleReady(c)
    BY <1>1, <1>2, <1>4, <1>5, ShorterRuns
  <2> HIDE DEF c
  <2>2. /\ n.q = c.q /\ n.queue = [c.queue EXCEPT ![h] = NULL]
        /\ n.state = [c.state EXCEPT ![h] = "ACTIVE"]
        /\ n.prio = c.prio /\ n.mask = c.mask /\ n.active = h /\ n \in KState
    <3>1. c \in KState /\ h \in Thread
      BY <1>2, <2>1 DEF Runs
    <3> QED
      BY <1>3, <3>1, ActivateFields
  <2>3. \A u \in Thread : n.state[u] # "ACTIVE" => n.state[u] = c.state[u] /\ n.queue[u] = c.queue[u]
    BY <1>1, <2>1, <2>2 DEF Runs, KState
  <2>4. n.state[Idle] = c.state[Idle]
    BY <1>1, <1>5, <2>1, <2>2 DEF Runs, KState
  <2>5. Runs(n, NULL)
    BY <1>1, <2>1, <2>2, <2>3, <2>4 DEF Runs, MaskExact, IdleReady
  <2> QED
    BY <1>2, <2>2, <2>5 DEF n
<1>6. CASE h = Idle
  <2>1. /\ c.state = k.state /\ c.queue = k.queue /\ c.q = [k.q EXCEPT ![r] = w]
        /\ c.active = k.active /\ c.prio = k.prio /\ c \in KState
        /\ c.mask = IF w = <<>> THEN k.mask \ {p} ELSE k.mask
    BY <1>1, <1>2, QueueNames DEF KState, clear_if_empty
  <2> HIDE DEF c
  <2>2. \A y \in Prio : c.q[ReadyQ(y)] = IF y = p THEN w ELSE k.q[ReadyQ(y)]
    BY <1>1, <2>1, QueueNames DEF KState
  <2>3. MaskExact(c)
    BY <1>1, <2>1, <2>2 DEF MaskExact, Runs
  <2>4. /\ n.q = c.q /\ n.queue = [c.queue EXCEPT ![h] = NULL]
        /\ n.state = [c.state EXCEPT ![h] = "ACTIVE"]
        /\ n.prio = c.prio /\ n.mask = c.mask /\ n.active = h /\ n \in KState
    BY <1>2, <1>3, <2>1, ActivateFields
  <2>5. \A u \in Thread : n.state[u] # "ACTIVE" => n.state[u] = k.state[u] /\ n.queue[u] = k.queue[u]
    BY <1>1, <2>1, <2>4 DEF KState
  <2>6. n.state[Idle] = "ACTIVE"
    BY <1>1, <1>6, <2>1, <2>4 DEF KState
  <2>7. Runs(n, NULL)
    BY <1>1, <1>6, <2>1, <2>3, <2>4, <2>5, <2>6 DEF Runs, MaskExact
  <2> QED
    BY <1>2, <2>4, <2>7 DEF n
<1> QED
  BY <1>5, <1>6

-----------------------------------------------------------------------------
\* The inductive invariant, about a state x that may lie between two calls of
\* a step.

SchedData == [policy : {"FIFO", "RR"}, activated : BOOLEAN, remainder : Int, slice_end : Int]

AlarmData == [exp : Int, period : Nat, wait : BOOLEAN, action : {"none", "thread", "rr"},
              param : Thread \cup {NULL}]

KAlarm == [alarm : AlarmData, thread : Program \cup {NULL}, active : BOOLEAN, live : BOOLEAN]

Frame == [f : {"expire"}, now : Int, resched : BOOLEAN]
         \cup [f : {"added"}, alarm : Alarm, resched : BOOLEAN]
         \cup [f : {"resched"}, resched : BOOLEAN]
         \cup [f : {"release"}, alarm : Alarm]
         \cup [f : {"activated"}, thr : Thread]
         \cup [f : {"params"}, slice : Nat]
         \cup [f : {"halted"}]

State == [program : Programs, k : KState, sched : [Thread -> SchedData],
          alarm : [Alarm -> KAlarm], list : Seq(Alarm), clock : ClockState, slice : Nat,
          stack : Seq(Frame), torn : SUBSET Thread]

\* ListExact, about list l and alarms al.
Listed(l, al) ==
    /\ \A a \in Alarm : al[a].active <=> \E i \in 1..Len(l) : l[i] = a
    /\ \A i, j \in 1..Len(l) : i < j => l[i] # l[j] /\ al[l[i]].alarm.exp <= al[l[j]].alarm.exp

\* An alarm that can expire exists; the one of round robin is always there; alarms
\* of threads have a creator.
Owned(al) ==
    /\ al[RRAlarm].live
    /\ \A a \in Alarm :
          /\ al[a].active => al[a].live
          /\ al[a].alarm.action = "thread" => al[a].thread \in Program
          /\ al[a].live /\ a # RRAlarm => al[a].thread \in Program

\* The counter never measures more than what was asked for.
Measures(c) == c.counter \in 1..c.last_load /\ c.last_load <= c.delay

\* Time does not pass in the kernel: a frame that looks for expired alarms has
\* the time of the clock.
FrameOK(fr, now) == fr \in Frame /\ (fr.f = "expire" => fr.now = now)

\* Expired alarms are still to be found, or the machine has stopped.
Busy(st) == \E i \in 1..Len(st) : st[i].f \in {"expire", "halted"}

\* The timer's interrupt comes in time for an alarm that expires at e.
InTime(c, e) == c.handler /\ c.clock + c.delay <= e + MIN_INTERVAL - threshold - 1

\* What holds at every call ...
Kept(x) ==
    /\ x \in State
    /\ Runs(x.k, NULL)
    /\ Listed(x.list, x.alarm) /\ Owned(x.alarm)
    /\ Measures(x.clock)
    /\ \A i \in 1..Len(x.stack) : FrameOK(x.stack[i], Now(x))

\* ... and, in addition, when the timer has been set.
Inv(x) ==
    /\ Kept(x)
    /\ x.list # <<>> /\ ~Busy(x.stack) => InTime(x.clock, x.alarm[Head(x.list)].alarm.exp)

\* A step that leaves alarms, clock and stack alone.
LEMMA SameAlarms ==
    ASSUME NEW x, Inv(x), NEW y \in State, Runs(y.k, NULL), y.list = x.list,
           y.alarm = x.alarm, y.clock = x.clock, y.stack = x.stack
    PROVE  Inv(y)
  BY DEF Inv, Kept, Now

\* A call.
LEMMA PushKept ==
    ASSUME NEW x, Kept(x), NEW fr, FrameOK(fr, Now(x))
    PROVE  /\ Kept(push(x, fr)) /\ Head(push(x, fr).stack) = fr
           /\ fr.f \in {"expire", "halted"} => Busy(push(x, fr).stack)
           /\ Busy(x.stack) => Busy(push(x, fr).stack)
           /\ push(x, fr).list = x.list /\ push(x, fr).alarm = x.alarm
           /\ push(x, fr).clock = x.clock /\ push(x, fr).k = x.k
           /\ push(x, fr).sched = x.sched /\ push(x, fr).torn = x.torn
           /\ push(x, fr).slice = x.slice /\ push(x, fr).program = x.program
<1> DEFINE y == push(x, fr)
           st == <<fr>> \o x.stack
<1>1. x \in State /\ x.stack \in Seq(Frame) /\ fr \in Frame
  BY DEF Kept, State, FrameOK
<1>2. <<fr>> \in Seq(Frame) /\ Len(<<fr>>) = 1 /\ <<fr>>[1] = fr /\ Len(x.stack) \in Nat
  BY <1>1, LenProperties
<1>3. /\ st \in Seq(Frame) /\ Len(st) = 1 + Len(x.stack)
      /\ \A i \in 1..1 + Len(x.stack) : st[i] = IF i <= 1 THEN <<fr>>[i] ELSE x.stack[i - 1]
  BY <1>1, <1>2, ConcatProperties
<1>4. y = [x EXCEPT !.stack = st]
  BY DEF push
<1> HIDE DEF st
<1>5. /\ y.program = x.program /\ y.k = x.k /\ y.sched = x.sched /\ y.alarm = x.alarm
      /\ y.list = x.list /\ y.clock = x.clock /\ y.slice = x.slice /\ y.torn = x.torn
      /\ y.stack = st /\ y \in State
  BY <1>1, <1>3, <1>4 DEF State
<1> HIDE DEF y
<1>6. \A i \in 1..Len(st) : st[i] = fr \/ (i - 1 \in 1..Len(x.stack) /\ st[i] = x.stack[i - 1])
  BY <1>2, <1>3
<1>7. \A i \in 1..Len(x.stack) : i + 1 \in 1..Len(st) /\ st[i + 1] = x.stack[i]
  BY <1>2, <1>3
<1>8. 1 \in 1..Len(st) /\ st[1] = fr /\ st # <<>> /\ Head(st) = fr
  BY <1>2, <1>3
<1>9. Now(y) = Now(x)
  BY <1>5 DEF Now
<1>10. \A i \in 1..Len(st) : FrameOK(st[i], Now(x))
  BY <1>6 DEF Kept
<1>11. /\ fr.f \in {"expire", "halted"} => Busy(st)
       /\ Busy(x.stack) => Busy(st)
  BY <1>7, <1>8 DEF Busy
<1>12. Kept(y)
  BY <1>5, <1>9, <1>10, <1>11 DEF Kept
<1> QED
  BY <1>5, <1>8, <1>11, <1>12 DEF y

\* A call of a kernel function keeps the invariant.
LEMMA PushKeeps ==
    ASSUME NEW x, Inv(x), NEW fr, FrameOK(fr, Now(x))
    PROVE  Inv(push(x, fr))
  BY PushKept DEF Inv

\* A return.
LEMMA PopKept ==
    ASSUME NEW x, Kept(x), x.stack # <<>>
    PROVE  /\ Kept(pop(x)) /\ pop(x).list = x.list /\ pop(x).alarm = x.alarm
           /\ pop(x).clock = x.clock /\ pop(x).k = x.k /\ pop(x).sched = x.sched
           /\ pop(x).torn = x.torn
           /\ Head(x.stack).f \notin {"expire", "halted"} /\ Busy(x.stack) => Busy(pop(x).stack)
<1> DEFINE y == pop(x)
           st == Tail(x.stack)
<1>1. x \in State /\ x.stack \in Seq(Frame)
  BY DEF Kept, State
<1>2. /\ st \in Seq(Frame) /\ Head(x.stack) = x.stack[1] /\ Len(x.stack) >= 1
      /\ Len(st) = Len(x.stack) - 1 /\ \A i \in 1..Len(st) : st[i] = x.stack[i + 1]
      /\ Len(x.stack) \in Nat
  BY <1>1, TailMember, LenProperties
<1>3. y = [x EXCEPT !.stack = st]
  BY DEF pop
<1> HIDE DEF st
<1>4. /\ y.program = x.program /\ y.k = x.k /\ y.sched = x.sched /\ y.alarm = x.alarm
      /\ y.list = x.list /\ y.clock = x.clock /\ y.slice = x.slice /\ y.torn = x.torn
      /\ y.stack = st /\ y \in State
  BY <1>1, <1>2, <1>3 DEF State
<1> HIDE DEF y
<1>5. \A i \in 1..Len(st) : i + 1 \in 1..Len(x.stack) /\ st[i] = x.stack[i + 1]
  BY <1>2
<1>6. Now(y) = Now(x)
  BY <1>4 DEF Now
<1>7. \A i \in 1..Len(st) : FrameOK(st[i], Now(x))
  BY <1>5 DEF Kept
<1>8. ASSUME Busy(x.stack), Head(x.stack).f \notin {"expire", "halted"} PROVE Busy(st)
  <2>1. PICK i \in 1..Len(x.stack) : x.stack[i].f \in {"expire", "halted"}
    BY <1>8 DEF Busy
  <2>2. i # 1
    BY <1>2, <1>8, <2>1
  <2>3. i - 1 \in 1..Len(st) /\ (i - 1) + 1 = i
    BY <1>2, <2>2
  <2>4. st[i - 1] = x.stack[i]
    BY <1>2, <2>3
  <2> QED
    BY <2>1, <2>3, <2>4 DEF Busy
<1>9. Kept(y)
  BY <1>4, <1>6, <1>7 DEF Kept
<1> QED
  BY <1>4, <1>8, <1>9 DEF y

\* A return, from a function other than k_schedule_alarms.
LEMMA PopKeeps ==
    ASSUME NEW x, Inv(x), x.stack # <<>>, Head(x.stack).f \notin {"expire", "halted"}
    PROVE  /\ Inv(pop(x)) /\ pop(x).list = x.list /\ pop(x).alarm = x.alarm
           /\ pop(x).clock = x.clock /\ pop(x).k = x.k /\ pop(x).sched = x.sched
           /\ pop(x).torn = x.torn
  BY PopKept DEF Inv

\* The caller's variable in a frame changes; a frame without one stays.
Counting == {"expire", "added", "resched"}

\* Writing the variable that counts releases leaves a frame of its kind.
LEMMA MarkFrame ==
    ASSUME NEW now, NEW fr, FrameOK(fr, now), NEW v, fr.f \in Counting => v \in BOOLEAN
    PROVE  LET g == [fr EXCEPT !.resched = v] IN
           /\ FrameOK(g, now) /\ g.f = fr.f
           /\ fr.f = "release" => g.alarm = fr.alarm
<1> DEFINE g == [fr EXCEPT !.resched = v]
<1>1. CASE fr \in [f : {"expire"}, now : Int, resched : BOOLEAN]
  <2>1. g \in [f : {"expire"}, now : Int, resched : BOOLEAN] /\ g.now = fr.now /\ fr.f = "expire"
    BY <1>1 DEF Counting
  <2> QED
    BY <2>1 DEF FrameOK, Frame
<1>2. CASE fr \in [f : {"added"}, alarm : Alarm, resched : BOOLEAN]
  <2>1. g \in [f : {"added"}, alarm : Alarm, resched : BOOLEAN] /\ fr.f = "added"
    BY <1>2 DEF Counting
  <2> QED
    BY <2>1 DEF FrameOK, Frame
<1>3. CASE fr \in [f : {"resched"}, resched : BOOLEAN]
  <2>1. g \in [f : {"resched"}, resched : BOOLEAN] /\ fr.f = "resched"
    BY <1>3 DEF Counting
  <2> QED
    BY <2>1 DEF FrameOK, Frame
<1>4. CASE fr \in [f : {"release"}, alarm : Alarm]
  <2>1. g = fr
    BY <1>4
  <2> QED
    BY <2>1
<1>5. CASE fr \in [f : {"activated"}, thr : Thread]
  <2>1. g = fr
    BY <1>5
  <2> QED
    BY <1>5, <2>1
<1>6. CASE fr \in [f : {"params"}, slice : Nat]
  <2>1. g = fr
    BY <1>6
  <2> QED
    BY <1>6, <2>1
<1>7. CASE fr \in [f : {"halted"}]
  <2>1. g = fr
    BY <1>7
  <2> QED
    BY <1>7, <2>1
<1> QED
  BY <1>1, <1>2, <1>3, <1>4, <1>5, <1>6, <1>7 DEF FrameOK, Frame

\* A called function has counted something for the frame at position i.
LEMMA MarkKeeps ==
    ASSUME NEW x, Inv(x), NEW i \in Nat, NEW v,
           i \in 1..Len(x.stack) /\ x.stack[i].f \in Counting => v \in BOOLEAN
    PROVE  LET y == [x EXCEPT !.stack[i].resched = v] IN
           /\ Inv(y) /\ Len(y.stack) = Len(x.stack)
           /\ \A j \in 1..Len(x.stack) : y.stack[j].f = x.stack[j].f
           /\ y.list = x.list /\ y.alarm = x.alarm /\ y.clock = x.clock /\ y.k = x.k
<1> DEFINE y == [x EXCEPT !.stack[i].resched = v]
           st == [x.stack EXCEPT ![i].resched = v]
<1>1. x \in State /\ x.stack \in Seq(Frame) /\ Len(x.stack) \in Nat
  BY LenProperties DEF Inv, Kept, State
<1>2. \A j \in 1..Len(x.stack) : FrameOK(x.stack[j], Now(x))
  BY DEF Inv, Kept
<1>3. CASE i \in 1..Len(x.stack)
  <2> DEFINE fr == x.stack[i]
             g == [fr EXCEPT !.resched = v]
  <2>1. FrameOK(g, Now(x)) /\ g.f = fr.f
    BY <1>2, <1>3, MarkFrame
  <2>2. st = [x.stack EXCEPT ![i] = g]
    OBVIOUS
  <2> HIDE DEF g
  <2>3. g \in Frame
    BY <2>1 DEF FrameOK
  <2>4. /\ st \in Seq(Frame) /\ Len(st) = Len(x.stack)
        /\ \A j \in 1..Len(x.stack) : st[j] = IF j = i THEN g ELSE x.stack[j]
    BY <1>1, <1>3, <2>2, <2>3, ExceptSeq
  <2> HIDE DEF st
  <2>5. \A j \in 1..Len(x.stack) : st[j].f = x.stack[j].f /\ FrameOK(st[j], Now(x))
    BY <1>2, <2>1, <2>4
  <2>6. y = [x EXCEPT !.stack = st]
    BY <1>1 DEF st, State
  <2> HIDE DEF y
  <2>7. /\ y.program = x.program /\ y.k = x.k /\ y.sched = x.sched /\ y.alarm = x.alarm
        /\ y.list = x.list /\ y.clock = x.clock /\ y.slice = x.slice /\ y.torn = x.torn
        /\ y.stack = st /\ y \in State
    BY <1>1, <2>4, <2>6 DEF State
  <2>8. Now(y) = Now(x)
    BY <2>7 DEF Now
  <2>9. Busy(st) <=> Busy(x.stack)
    BY <2>4, <2>5 DEF Busy
  <2>10. Inv(y)
    BY <2>4, <2>5, <2>7, <2>8, <2>9 DEF Inv, Kept
  <2> QED
    BY <2>4, <2>5, <2>7, <2>10 DEF y
<1>4. CASE i \notin 1..Len(x.stack)
  <2>1. x.stack \in [1..Len(x.stack) -> Frame]
    BY <1>1
  <2>2. st = x.stack
    BY <1>4, <2>1
  <2>3. y = [x EXCEPT !.stack = st]
    BY <1>1 DEF State
  <2>4. y = x
    BY <1>1, <2>2, <2>3 DEF State
  <2> QED
    BY <2>4
<1> QED
  BY <1>3, <1>4

\* A return value is counted.
LEMMA CountKeeps ==
    ASSUME NEW x, Inv(x), NEW b \in BOOLEAN
    PROVE  /\ Inv(count(x, b)) /\ Len(count(x, b).stack) = Len(x.stack)
           /\ \A j \in 1..Len(x.stack) : count(x, b).stack[j].f = x.stack[j].f
           /\ count(x, b).list = x.list /\ count(x, b).alarm = x.alarm
           /\ count(x, b).clock = x.clock /\ count(x, b).k = x.k
<1> DEFINE v == x.stack[1].resched \/ b
<1>1. count(x, b) = [x EXCEPT !.stack[1].resched = v]
  BY DEF count
<1>2. v \in BOOLEAN
  OBVIOUS
<1> HIDE DEF v
<1> QED
  BY <1>1, <1>2, MarkKeeps

-----------------------------------------------------------------------------
\* The list.  It is sorted by the expiration times of alarms al.
Exp(al, a) == al[a].alarm.exp

SortedBy(l, al) ==
    \A i, j \in 1..Len(l) : i < j => l[i] # l[j] /\ Exp(al, l[i]) <= Exp(al, l[j])

\* The smallest element of a set of positions.
LEMMA FirstPosition ==
    ASSUME NEW I, I \subseteq Nat, I # {}
    PROVE  Min(I) \in I /\ \A i \in I : Min(I) <= i
<1>1. PICK l \in I : \A i \in I : ~(<<i, l>> \in OpToRel(<, Nat))
  BY NatLessThanWellFounded, WFMin
<1>2. \A i \in Nat : i < l => <<i, l>> \in OpToRel(<, Nat)
  BY DEF OpToRel
<1>3. \A i \in I : ~(i < l)
  BY <1>1, <1>2
<1>4. \A i \in I : l <= i
  BY <1>3
<1> QED
  BY <1>4 DEF Min

\* An insertion, element by element.
LEMMA InsertMember ==
    ASSUME NEW S, NEW l \in Seq(S), NEW a \in S, NEW m \in 1..Len(l) + 1
    PROVE  LET n == InsertAt(l, m, a) IN
           /\ n \in Seq(S) /\ Len(n) = Len(l) + 1
           /\ \A i \in 1..Len(l) + 1 : n[i] = IF i < m THEN l[i] ELSE IF i = m THEN a ELSE l[i - 1]
<1> DEFINE b == SubSeq(l, 1, m - 1)
           c == SubSeq(l, m, Len(l))
           d == b \o <<a>>
           n == d \o c
<1>0. Len(l) \in Nat /\ m \in Int
  BY LenProperties
<1>1. b \in Seq(S) /\ Len(b) = m - 1 /\ \A i \in 1..m - 1 : b[i] = l[i]
  BY <1>0, SubSeqProperties
<1>2. c \in Seq(S) /\ Len(c) = Len(l) - m + 1 /\ \A i \in 1..Len(l) - m + 1 : c[i] = l[m + i - 1]
  BY <1>0, SubSeqProperties
<1>3. InsertAt(l, m, a) = n
  BY DEF InsertAt
<1>4. <<a>> \in Seq(S) /\ Len(<<a>>) = 1 /\ <<a>>[1] = a
  OBVIOUS
<1> HIDE DEF b, c
<1>5. /\ d \in Seq(S) /\ Len(d) = Len(b) + 1
      /\ \A i \in 1..Len(b) + 1 : d[i] = IF i <= Len(b) THEN b[i] ELSE <<a>>[i - Len(b)]
  BY <1>1, <1>4, ConcatProperties
<1> HIDE DEF d
<1>6. /\ n \in Seq(S) /\ Len(n) = Len(d) + Len(c)
      /\ \A i \in 1..Len(d) + Len(c) : n[i] = IF i <= Len(d) THEN d[i] ELSE c[i - Len(d)]
  BY <1>2, <1>5, ConcatProperties
<1> HIDE DEF n
<1>7. Len(d) = m /\ Len(n) = Len(l) + 1
  BY <1>0, <1>1, <1>2, <1>5, <1>6
<1>8. ASSUME NEW i \in 1..Len(l) + 1
      PROVE  n[i] = IF i < m THEN l[i] ELSE IF i = m THEN a ELSE l[i - 1]
  <2>1. CASE i < m
    <3>1. i \in 1..m - 1 /\ i \in 1..Len(b) + 1 /\ i <= Len(b) /\ i <= Len(d)
          /\ i \in 1..Len(d) + Len(c)
      BY <1>0, <1>1, <1>2, <1>7, <2>1
    <3> QED
      BY <1>1, <1>5, <1>6, <2>1, <3>1
  <2>2. CASE i = m
    <3>1. i \in 1..Len(b) + 1 /\ ~(i <= Len(b)) /\ i <= Len(d) /\ i - Len(b) = 1
          /\ i \in 1..Len(d) + Len(c)
      BY <1>0, <1>1, <1>2, <1>7, <2>2
    <3> QED
      BY <1>4, <1>5, <1>6, <2>2, <3>1
  <2>3. CASE i > m
    <3>1. ~(i <= Len(d)) /\ i - Len(d) \in 1..Len(l) - m + 1 /\ m + (i - Len(d)) - 1 = i - 1
          /\ i \in 1..Len(d) + Len(c) /\ ~(i < m) /\ i # m
      BY <1>0, <1>1, <1>2, <1>7, <2>3
    <3> QED
      BY <1>2, <1>6, <3>1
  <2> QED
    BY <1>0, <2>1, <2>2, <2>3
<1> QED
  BY <1>3, <1>6, <1>7, <1>8

\* list_sort_add puts an alarm that is not in the list where it belongs.
LEMMA SortAdd ==
    ASSUME NEW x \in State, NEW a \in Alarm, SortedBy(x.list, x.alarm), ~Stands(x.list, a)
    PROVE  LET y == list_sort_add(x, a) IN
           /\ y = [x EXCEPT !.list = y.list] /\ y \in State
           /\ y.alarm = x.alarm /\ y.clock = x.clock /\ y.stack = x.stack /\ y.k = x.k
           /\ SortedBy(y.list, x.alarm) /\ y.list # <<>>
           /\ \A u : Stands(y.list, u) <=> u = a \/ Stands(x.list, u)
<1> DEFINE l == x.list
           e == Exp(x.alarm, a)
           later == {i \in 1..Len(l) : Exp(x.alarm, l[i]) > e}
           I == later \cup {Len(l) + 1}
           m == Min(I)
           n == InsertAt(l, m, a)
           y == list_sort_add(x, a)
<1>1. /\ l \in Seq(Alarm) /\ Len(l) \in Nat /\ e \in Int
      /\ \A i \in 1..Len(l) : l[i] \in Alarm /\ Exp(x.alarm, l[i]) \in Int
  BY LenProperties, ElementOfSeq DEF State, KAlarm, AlarmData, Exp
<1>2. I \subseteq Nat /\ I # {}
  BY <1>1
<1>3. m \in I /\ \A i \in I : m <= i
  BY <1>2, FirstPosition
<1>4. y = [x EXCEPT !.list = n]
  BY DEF list_sort_add, Exp
<1> HIDE DEF m, y
<1>5. m \in 1..Len(l) + 1
  BY <1>1, <1>3
<1>6. \A i \in 1..Len(l) : i < m => Exp(x.alarm, l[i]) <= e
  BY <1>1, <1>3, <1>5
<1>7. \A i \in 1..Len(l) : i >= m => e <= Exp(x.alarm, l[i])
  <2>1. CASE m = Len(l) + 1
    BY <1>1, <2>1
  <2>2. CASE m \in later
    <3>1. m \in 1..Len(l) /\ Exp(x.alarm, l[m]) > e
      BY <2>2
    <3> SUFFICES ASSUME NEW i \in 1..Len(l), i >= m PROVE e <= Exp(x.alarm, l[i])
      OBVIOUS
    <3>2. i = m \/ m < i
      BY <1>5
    <3>3. Exp(x.alarm, l[m]) <= Exp(x.alarm, l[i])
      BY <1>1, <3>1, <3>2 DEF SortedBy
    <3> QED
      BY <1>1, <3>1, <3>3
  <2> QED
    BY <1>3, <2>1, <2>2
<1>8. /\ n \in Seq(Alarm) /\ Len(n) = Len(l) + 1
      /\ \A i \in 1..Len(l) + 1 : n[i] = IF i < m THEN l[i] ELSE IF i = m THEN a ELSE l[i - 1]
  <2> HIDE DEF later, I, e, l
  <2> QED
    BY <1>1, <1>5, InsertMember
<1> HIDE DEF n, later, I, e
<1>9. SortedBy(n, x.alarm)
  <2> SUFFICES ASSUME NEW i \in 1..Len(n), NEW j \in 1..Len(n), i < j
               PROVE  n[i] # n[j] /\ Exp(x.alarm, n[i]) <= Exp(x.alarm, n[j])
    BY DEF SortedBy
  <2>1. i \in 1..Len(l) + 1 /\ j \in 1..Len(l) + 1
    BY <1>8
  <2>2. CASE j < m
    <3>1. i \in 1..Len(l) /\ j \in 1..Len(l) /\ n[i] = l[i] /\ n[j] = l[j]
      BY <1>1, <1>5, <1>8, <2>1, <2>2
    <3> QED
      BY <3>1 DEF SortedBy
  <2>3. CASE j = m
    <3>1. i \in 1..Len(l) /\ n[i] = l[i] /\ n[j] = a /\ i < m
      BY <1>1, <1>5, <1>8, <2>1, <2>3
    <3> QED
      BY <1>6, <3>1 DEF Stands, e
  <2>4. CASE i < m /\ m < j
    <3>1. i \in 1..Len(l) /\ j - 1 \in 1..Len(l) /\ n[i] = l[i] /\ n[j] = l[j - 1] /\ i < j - 1
      BY <1>1, <1>5, <1>8, <2>1, <2>4
    <3> QED
      BY <3>1 DEF SortedBy
  <2>5. CASE i = m
    <3>1. j - 1 \in 1..Len(l) /\ n[i] = a /\ n[j] = l[j - 1] /\ j - 1 >= m
      BY <1>1, <1>5, <1>8, <2>1, <2>5
    <3> QED
      BY <1>7, <3>1 DEF Stands, e
  <2>6. CASE m < i
    <3>1. i - 1 \in 1..Len(l) /\ j - 1 \in 1..Len(l) /\ n[i] = l[i - 1] /\ n[j] = l[j - 1]
          /\ i - 1 < j - 1
      BY <1>1, <1>5, <1>8, <2>1, <2>6
    <3> QED
      BY <3>1 DEF SortedBy
  <2> QED
    BY <1>1, <1>5, <2>2, <2>3, <2>4, <2>5, <2>6
<1>10. \A u : Stands(n, u) <=> u = a \/ Stands(l, u)
  <2>1. ASSUME NEW u, Stands(n, u) PROVE u = a \/ Stands(l, u)
    <3>1. PICK i \in 1..Len(l) + 1 : n[i] = u
      BY <1>8, <2>1 DEF Stands
    <3>2. \/ i \in 1..Len(l) /\ u = l[i]
          \/ u = a
          \/ i - 1 \in 1..Len(l) /\ u = l[i - 1]
      <4>1. CASE i < m
        BY <1>1, <1>5, <1>8, <3>1, <4>1
      <4>2. CASE i = m
        BY <1>1, <1>5, <1>8, <3>1, <4>2
      <4>3. CASE i > m
        <5>1. ~(i < m) /\ i # m /\ i - 1 \in 1..Len(l)
          BY <1>1, <1>5, <4>3
        <5> QED
          BY <1>8, <3>1, <5>1
      <4> QED
        BY <1>5, <4>1, <4>2, <4>3
    <3> QED
      BY <3>2 DEF Stands
  <2>2. Stands(n, a)
    BY <1>5, <1>8 DEF Stands
  <2>3. ASSUME NEW u, Stands(l, u) PROVE Stands(n, u)
    <3>1. PICK i \in 1..Len(l) : l[i] = u
      BY <2>3 DEF Stands
    <3>2. CASE i < m
      <4>1. i \in 1..Len(n) /\ n[i] = u
        BY <1>1, <1>8, <3>1, <3>2
      <4> QED
        BY <4>1 DEF Stands
    <3>3. CASE ~(i < m)
      <4>1. i + 1 \in 1..Len(l) + 1 /\ ~(i + 1 < m) /\ i + 1 # m /\ (i + 1) - 1 = i
        BY <1>1, <1>5, <3>3
      <4>2. i + 1 \in 1..Len(n) /\ n[i + 1] = u
        BY <1>8, <3>1, <4>1
      <4> QED
        BY <4>2 DEF Stands
    <3> QED
      BY <3>2, <3>3
  <2> QED
    BY <2>1, <2>2, <2>3
<1>11. n # <<>>
  BY <1>1, <1>8
<1>12. /\ y.list = n /\ y \in State /\ y.alarm = x.alarm /\ y.clock = x.clock
       /\ y.stack = x.stack /\ y.k = x.k
  BY <1>4, <1>8 DEF State
<1> QED
  BY <1>4, <1>9, <1>10, <1>11, <1>12 DEF y

\* A sorted list without the element at position m.
LEMMA WithoutSorted ==
    ASSUME NEW l \in Seq(Alarm), NEW al, SortedBy(l, al), NEW m \in 1..Len(l),
           NEW n \in Seq(Alarm), Len(n) = Len(l) - 1,
           \A i \in 1..Len(l) - 1 : n[i] = IF i < m THEN l[i] ELSE l[i + 1]
    PROVE  SortedBy(n, al) /\ \A u : Stands(n, u) <=> u # l[m] /\ Stands(l, u)
<1>0. Len(l) \in Nat
  BY LenProperties
<1>1. SortedBy(n, al)
  <2> SUFFICES ASSUME NEW i \in 1..Len(n), NEW j \in 1..Len(n), i < j
               PROVE  n[i] # n[j] /\ Exp(al, n[i]) <= Exp(al, n[j])
    BY DEF SortedBy
  <2>1. i \in 1..Len(l) - 1 /\ j \in 1..Len(l) - 1
    OBVIOUS
  <2>2. PICK v \in {i, i + 1}, w \in {j, j + 1} :
           v \in 1..Len(l) /\ w \in 1..Len(l) /\ v < w /\ n[i] = l[v] /\ n[j] = l[w]
    <3>1. CASE j < m
      BY <1>0, <2>1, <3>1
    <3>2. CASE i < m /\ ~(j < m)
      BY <1>0, <2>1, <3>2
    <3>3. CASE ~(i < m)
      BY <1>0, <2>1, <3>3
    <3> QED
      BY <1>0, <2>1, <3>1, <3>2, <3>3
  <2> QED
    BY <2>2 DEF SortedBy
<1>2. \A i \in 1..Len(l) : i # m => l[i] # l[m]
  <2> SUFFICES ASSUME NEW i \in 1..Len(l), i # m PROVE l[i] # l[m]
    OBVIOUS
  <2>1. i < m \/ m < i
    BY <1>0
  <2> QED
    BY <2>1 DEF SortedBy
<1>3. ASSUME NEW u, Stands(n, u) PROVE u # l[m] /\ Stands(l, u)
  <2>1. PICK i \in 1..Len(l) - 1 : n[i] = u
    BY <1>3 DEF Stands
  <2>2. PICK v \in 1..Len(l) : v # m /\ l[v] = u
    <3>1. CASE i < m
      <4>1. i \in 1..Len(l) /\ i # m /\ l[i] = u
        BY <1>0, <2>1, <3>1
      <4> QED
        BY <4>1
    <3>2. CASE ~(i < m)
      <4>1. i + 1 \in 1..Len(l) /\ i + 1 # m /\ l[i + 1] = u
        BY <1>0, <2>1, <3>2
      <4> QED
        BY <4>1
    <3> QED
      BY <3>1, <3>2
  <2> QED
    BY <1>2, <2>2 DEF Stands
<1>4. ASSUME NEW u, u # l[m], Stands(l, u) PROVE Stands(n, u)
  <2>1. PICK i \in 1..Len(l) : l[i] = u
    BY <1>4 DEF Stands
  <2>2. i # m
    BY <1>4, <2>1
  <2>3. CASE i < m
    <3>1. i \in 1..Len(n) /\ n[i] = u
      BY <1>0, <2>1, <2>3
    <3> QED
      BY <3>1 DEF Stands
  <2>4. CASE ~(i < m)
    <3>1. i - 1 \in 1..Len(l) - 1 /\ ~(i - 1 < m) /\ (i - 1) + 1 = i
      BY <1>0, <2>2, <2>4
    <3>2. i - 1 \in 1..Len(n) /\ n[i - 1] = u
      BY <2>1, <3>1
    <3> QED
      BY <3>2 DEF Stands
  <2> QED
    BY <2>3, <2>4
<1> QED
  BY <1>1, <1>3, <1>4

\* Taking an alarm out of the list, and taking the first.
LEMMA RemoveSorted ==
    ASSUME NEW l \in Seq(Alarm), NEW al, SortedBy(l, al), NEW a
    PROVE  LET n == RemoveFirst(l, a) IN
           /\ n \in Seq(Alarm) /\ SortedBy(n, al)
           /\ \A u : Stands(n, u) <=> u # a /\ Stands(l, u)
<1> DEFINE n == RemoveFirst(l, a)
<1>1. n \in Seq(Alarm)
  BY RemoveFirstKeeps
<1>2. CASE ~Stands(l, a)
  <2>1. n = l
    BY <1>2, RemoveFirstKeeps
  <2> QED
    BY <1>2, <2>1
<1>3. CASE Stands(l, a)
  <2>1. PICK m \in 1..Len(l) :
           /\ l[m] = a /\ Len(n) = Len(l) - 1
           /\ \A i \in 1..Len(l) - 1 : n[i] = IF i < m THEN l[i] ELSE l[i + 1]
    BY <1>3, RemoveFirstKeeps
  <2> HIDE DEF n
  <2>2. SortedBy(n, al) /\ \A u : Stands(n, u) <=> u # a /\ Stands(l, u)
    BY <1>1, <2>1, WithoutSorted
  <2> QED
    BY <1>1, <2>2 DEF n
<1> QED
  BY <1>2, <1>3

\* A sorted list without its first element is sorted and holds the others.
LEMMA TailSorted ==
    ASSUME NEW l \in Seq(Alarm), NEW al, SortedBy(l, al), l # <<>>
    PROVE  LET n == Tail(l) IN
           /\ n \in Seq(Alarm) /\ SortedBy(n, al)
           /\ \A u : Stands(n, u) <=> u # Head(l) /\ Stands(l, u)
<1> DEFINE n == Tail(l)
<1>1. /\ n \in Seq(Alarm) /\ Head(l) = l[1] /\ Len(l) >= 1 /\ Len(n) = Len(l) - 1
      /\ \A i \in 1..Len(n) : n[i] = l[i + 1]
      /\ Len(l) \in Nat
  BY TailMember, LenProperties
<1> HIDE DEF n
<1>2. 1 \in 1..Len(l) /\ \A i \in 1..Len(l) - 1 : n[i] = IF i < 1 THEN l[i] ELSE l[i + 1]
  BY <1>1
<1>3. SortedBy(n, al) /\ \A u : Stands(n, u) <=> u # l[1] /\ Stands(l, u)
  BY <1>1, <1>2, WithoutSorted
<1> QED
  BY <1>1, <1>3 DEF n

\* Only the expiration times of what is in the list matter.
LEMMA SortedSame ==
    ASSUME NEW l \in Seq(Alarm), NEW al, NEW am, SortedBy(l, al),
           \A u \in Alarm : Stands(l, u) => Exp(am, u) = Exp(al, u)
    PROVE  SortedBy(l, am)
<1>1. \A i \in 1..Len(l) : l[i] \in Alarm /\ Stands(l, l[i])
  BY ElementOfSeq DEF Stands
<1>2. \A i \in 1..Len(l) : Exp(am, l[i]) = Exp(al, l[i])
  BY <1>1
<1> QED
  BY <1>2 DEF SortedBy

\* The list is exact: sorted, and holding the active alarms and no others.
LEMMA ListedParts ==
    ASSUME NEW l, NEW al
    PROVE  Listed(l, al) <=> SortedBy(l, al) /\ \A a \in Alarm : al[a].active <=> Stands(l, a)
  BY DEF Listed, SortedBy, Stands, Exp

\* A change of one alarm.
LEMMA ChangeAlarm ==
    ASSUME NEW x \in State, NEW a \in Alarm, NEW z \in KAlarm
    PROVE  LET y == [x EXCEPT !.alarm[a] = z] IN
           /\ y \in State /\ y.list = x.list /\ y.clock = x.clock /\ y.stack = x.stack
           /\ y.k = x.k /\ y.alarm = [x.alarm EXCEPT ![a] = z]
           /\ \A b \in Alarm : y.alarm[b] = IF b = a THEN z ELSE x.alarm[b]
  BY DEF State

-----------------------------------------------------------------------------
\* The functions of kernel/time.c

\* The time can be read.
LEMMA NowType ==
    ASSUME NEW x \in State
    PROVE  Now(x) \in Int
  BY DEF State, ClockState, Now, arch_get_time

\* A look for expired alarms will set the timer.
LEMMA ScheduleAlarms ==
    ASSUME NEW x, Kept(x)
    PROVE  LET y == k_schedule_alarms(x) IN
           /\ Inv(y) /\ Busy(y.stack) /\ y.k = x.k
<1> DEFINE fr == [f |-> "expire", now |-> Now(x), resched |-> FALSE]
<1>1. Now(x) \in Int
  BY NowType DEF Kept
<1>2. fr \in Frame /\ fr.f = "expire" /\ fr.now = Now(x)
  BY <1>1 DEF Frame
<1> HIDE DEF fr
<1>3. FrameOK(fr, Now(x))
  BY <1>2 DEF FrameOK
<1>4. Kept(push(x, fr)) /\ Busy(push(x, fr).stack) /\ push(x, fr).k = x.k
  BY <1>2, <1>3, PushKept
<1> QED
  BY <1>4 DEF Inv, k_schedule_alarms, fr

\* A state in which alarm a is out of the list and is to be put there.
Adding(x, a) ==
    /\ x \in State /\ Runs(x.k, NULL) /\ Owned(x.alarm) /\ x.alarm[a].live
    /\ SortedBy(x.list, x.alarm) /\ ~Stands(x.list, a)
    /\ \A b \in Alarm \ {a} : x.alarm[b].active <=> Stands(x.list, b)
    /\ Measures(x.clock)
    /\ \A i \in 1..Len(x.stack) : FrameOK(x.stack[i], Now(x))

\* k_alarm_add puts an alarm that is in no list where it belongs, and calls
\* k_schedule_alarms, which will set the timer.
LEMMA AlarmAdd ==
    ASSUME NEW x, NEW a \in Alarm, Adding(x, a)
    PROVE  Inv(k_alarm_add(x, a)) /\ k_alarm_add(x, a).k = x.k
<1> DEFINE given == x.alarm[a].alarm.exp > 0
           z == [x.alarm[a] EXCEPT !.active = given]
           g == [x EXCEPT !.alarm[a].active = given]
           h == IF given THEN list_sort_add(g, a) ELSE g
           fr == [f |-> "added", alarm |-> a, resched |-> FALSE]
<1>1. x \in State /\ x.alarm[a] \in KAlarm
  BY DEF Adding, State
<1>0. given \in BOOLEAN
  OBVIOUS
<1> HIDE DEF given
<1>2. /\ z \in KAlarm /\ z.active = given /\ z.alarm = x.alarm[a].alarm
      /\ z.thread = x.alarm[a].thread /\ z.live = x.alarm[a].live
  BY <1>0, <1>1 DEF KAlarm
<1>3. g = [x EXCEPT !.alarm[a] = z]
  OBVIOUS
<1> HIDE DEF z, g
<1>4. /\ g \in State /\ g.list = x.list /\ g.clock = x.clock /\ g.stack = x.stack /\ g.k = x.k
      /\ \A b \in Alarm : g.alarm[b] = IF b = a THEN z ELSE x.alarm[b]
  BY <1>1, <1>2, <1>3, ChangeAlarm
<1>5. \A b \in Alarm : /\ g.alarm[b].alarm = x.alarm[b].alarm
                       /\ g.alarm[b].thread = x.alarm[b].thread
                       /\ g.alarm[b].live = x.alarm[b].live
                       /\ g.alarm[b].active = IF b = a THEN given ELSE x.alarm[b].active
  BY <1>2, <1>4
<1>6. g.list \in Seq(Alarm) /\ SortedBy(g.list, g.alarm)
  <2>1. x.list \in Seq(Alarm) /\ SortedBy(x.list, x.alarm)
    BY <1>1 DEF Adding, State
  <2>2. \A u \in Alarm : Exp(g.alarm, u) = Exp(x.alarm, u)
    BY <1>5 DEF Exp
  <2> QED
    BY <1>4, <2>1, <2>2, SortedSame
<1>7. Owned(g.alarm)
  BY <1>5, AlarmsAssumption DEF Adding, Owned
<1>8. /\ h \in State /\ h.alarm = g.alarm /\ h.clock = g.clock /\ h.stack = g.stack /\ h.k = g.k
      /\ SortedBy(h.list, g.alarm)
      /\ \A u \in Alarm : Stands(h.list, u) <=> (u = a /\ given) \/ Stands(g.list, u)
  <2>1. CASE given
    <3>1. ~Stands(g.list, a)
      BY <1>4 DEF Adding
    <3> QED
      BY <1>4, <1>6, <2>1, <3>1, SortAdd
  <2>2. CASE ~given
    BY <1>4, <1>6, <2>2
  <2> QED
    BY <2>1, <2>2
<1>9. k_alarm_add(x, a) = k_schedule_alarms(push(h, fr))
  BY DEF k_alarm_add, g, h, given
<1> HIDE DEF h
<1>10. Listed(h.list, h.alarm)
  <2>1. \A b \in Alarm : h.alarm[b].active <=> Stands(h.list, b)
    BY <1>4, <1>5, <1>8 DEF Adding
  <2> QED
    BY <1>8, <2>1, ListedParts
<1>11. Now(h) = Now(x)
  BY <1>4, <1>8 DEF Now
<1>12. Kept(h)
  BY <1>4, <1>7, <1>8, <1>10, <1>11 DEF Kept, Adding
<1>13. fr \in Frame /\ fr.f = "added"
  BY DEF Frame
<1> HIDE DEF fr
<1>14. Kept(push(h, fr)) /\ push(h, fr).k = x.k
  BY <1>4, <1>8, <1>12, <1>13, PushKept DEF FrameOK
<1> QED
  BY <1>9, <1>14, ScheduleAlarms

\* A new alarm_t for an alarm that exists.
LEMMA AlarmSet ==
    ASSUME NEW x, Inv(x), NEW a \in Alarm, x.alarm[a].live, NEW new \in AlarmData,
           new.action = "thread" => x.alarm[a].thread \in Program
    PROVE  Inv(k_alarm_set(x, a, new)) /\ k_alarm_set(x, a, new).k = x.k
<1> DEFINE z == [x.alarm[a] EXCEPT !.alarm = new]
           g == [x EXCEPT !.alarm[a].alarm = new]
<1>1. x \in State /\ x.alarm[a] \in KAlarm /\ x.list \in Seq(Alarm)
  BY DEF Inv, Kept, State
<1>2. /\ z \in KAlarm /\ z.active = x.alarm[a].active /\ z.alarm = new
      /\ z.thread = x.alarm[a].thread /\ z.live = x.alarm[a].live
  BY <1>1 DEF KAlarm
<1>3. g = [x EXCEPT !.alarm[a] = z]
  OBVIOUS
<1> HIDE DEF z, g
<1>4. /\ g \in State /\ g.list = x.list /\ g.clock = x.clock /\ g.stack = x.stack /\ g.k = x.k
      /\ \A b \in Alarm : g.alarm[b] = IF b = a THEN z ELSE x.alarm[b]
  BY <1>1, <1>2, <1>3, ChangeAlarm
<1>5. \A b \in Alarm : /\ g.alarm[b].alarm = IF b = a THEN new ELSE x.alarm[b].alarm
                       /\ g.alarm[b].thread = x.alarm[b].thread
                       /\ g.alarm[b].live = x.alarm[b].live
                       /\ g.alarm[b].active = x.alarm[b].active
  BY <1>2, <1>4
<1>6. Owned(g.alarm)
  BY <1>5, AlarmsAssumption DEF Inv, Kept, Owned
<1>7. SortedBy(x.list, x.alarm) /\ \A b \in Alarm : x.alarm[b].active <=> Stands(x.list, b)
  BY ListedParts DEF Inv, Kept
<1>8. CASE x.alarm[a].alarm.exp = new.exp
  <2>1. \A u \in Alarm : Exp(g.alarm, u) = Exp(x.alarm, u)
    BY <1>5, <1>8 DEF Exp
  <2>2. SortedBy(g.list, g.alarm) /\ \A b \in Alarm : g.alarm[b].active <=> Stands(g.list, b)
    BY <1>1, <1>4, <1>5, <1>7, <2>1, SortedSame
  <2>3. Listed(g.list, g.alarm)
    BY <2>2, ListedParts
  <2>4. Now(g) = Now(x)
    BY <1>4 DEF Now
  <2>5. Kept(g)
    BY <1>4, <1>6, <2>3, <2>4 DEF Inv, Kept
  <2>6. x.list # <<>> => Head(x.list) \in Alarm
    BY <1>1, TailMember
  <2>7. Inv(g)
    BY <1>4, <2>1, <2>5, <2>6 DEF Inv, Exp
  <2> QED
    BY <1>4, <1>8, <2>7 DEF k_alarm_set, g
<1>9. CASE x.alarm[a].alarm.exp # new.exp
  <2> DEFINE l == list_remove(x, a).list
             h == [g EXCEPT !.list = l]
  <2>1. /\ l \in Seq(Alarm) /\ SortedBy(l, x.alarm)
        /\ \A u \in Alarm : Stands(l, u) <=> u # a /\ Stands(x.list, u)
    <3>1. CASE x.alarm[a].active
      <4>1. l = RemoveFirst(x.list, a)
        BY <1>1, <3>1 DEF list_remove, State
      <4> QED
        BY <1>1, <1>7, <4>1, RemoveSorted
    <3>2. CASE ~x.alarm[a].active
      BY <1>1, <1>7, <3>2 DEF list_remove
    <3> QED
      BY <3>1, <3>2
  <2>2. k_alarm_set(x, a, new) = k_alarm_add(h, a)
    BY <1>9 DEF k_alarm_set, g
  <2> HIDE DEF l
  <2>3. /\ h \in State /\ h.list = l /\ h.alarm = g.alarm /\ h.clock = x.clock
        /\ h.stack = x.stack /\ h.k = x.k
    BY <1>4, <2>1 DEF State
  <2> HIDE DEF h
  <2>4. ~Stands(l, a) /\ \A u \in Alarm : Stands(l, u) => Exp(g.alarm, u) = Exp(x.alarm, u)
    BY <1>5, <2>1 DEF Exp
  <2>5. SortedBy(l, g.alarm)
    BY <2>1, <2>4, SortedSame
  <2>6. Now(h) = Now(x)
    BY <2>3 DEF Now
  <2>7. \A b \in Alarm \ {a} : h.alarm[b].active <=> Stands(h.list, b)
    BY <1>5, <1>7, <2>1, <2>3
  <2>8. Adding(h, a)
    BY <1>5, <1>6, <2>3, <2>4, <2>5, <2>6, <2>7 DEF Adding, Inv, Kept
  <2> QED
    BY <2>2, <2>3, <2>8, AlarmAdd
<1> QED
  BY <1>8, <1>9

-----------------------------------------------------------------------------
\* Round robin and the scheduler

\* A change of scheduling data alone keeps what is said of alarms and timer.
LEMMA SchedKeeps ==
    ASSUME NEW x, Inv(x), NEW kk, Runs(kk, NULL), NEW sc \in [Thread -> SchedData],
           NEW T \in SUBSET Thread
    PROVE  Inv([x EXCEPT !.k = kk, !.sched = sc, !.torn = T])
<1> DEFINE y == [x EXCEPT !.k = kk, !.sched = sc, !.torn = T]
<1>1. x \in State /\ kk \in KState
  BY DEF Inv, Kept, Runs
<1>2. /\ y \in State /\ y.k = kk /\ y.list = x.list
      /\ y.alarm = x.alarm /\ y.clock = x.clock /\ y.stack = x.stack
  BY <1>1 DEF State
<1> HIDE DEF y
<1>3. Inv(y)
  BY <1>2, SameAlarms
<1> QED
  BY <1>3 DEF y

\* The start of a slice.
LEMMA ActivateRR ==
    ASSUME NEW x, Inv(x), NEW t \in Thread
    PROVE  Inv(rr_thread_activate(x, t))
<1> DEFINE rest == x.sched[t].remainder
           full == IF rest <= RR_THRESHOLD THEN rest + x.slice ELSE rest
           end == Now(x) + full
           T == IF x.clock.pending THEN x.torn \cup {t} ELSE x.torn
           z == [x.sched[t] EXCEPT !.remainder = full, !.slice_end = end]
           sc == [x.sched EXCEPT ![t] = z]
           g == [x EXCEPT !.sched[t].remainder = full, !.sched[t].slice_end = end, !.torn = T]
           y == [x EXCEPT !.k = x.k, !.sched = sc, !.torn = T]
           new == alarm_t(end, 0, FALSE, "rr", t)
<1>1. /\ x \in State /\ x.sched \in [Thread -> SchedData] /\ x.torn \subseteq Thread
      /\ x.slice \in Nat /\ Now(x) \in Int /\ Runs(x.k, NULL)
  BY NowType DEF Inv, Kept, State
<1>2. full \in Int /\ end \in Int
  <2>1. rest \in Int
    BY <1>1 DEF SchedData
  <2> HIDE DEF rest
  <2> QED
    BY <1>1, <2>1
<1>3. T \in SUBSET Thread
  BY <1>1
<1>4. rr_thread_activate(x, t) = k_alarm_set(g, RRAlarm, new)
  BY DEF rr_thread_activate
<1> HIDE DEF full, end, T
<1>5. z \in SchedData /\ sc \in [Thread -> SchedData]
  BY <1>1, <1>2 DEF SchedData
<1>6. g = y
  BY <1>1 DEF State
<1> HIDE DEF g, z, sc
<1>7. Inv(y)
  BY <1>1, <1>3, <1>5, SchedKeeps
<1> HIDE DEF y
<1>8. RRAlarm \in Alarm /\ y.alarm[RRAlarm].live
  BY <1>7, AlarmsAssumption DEF Inv, Kept, Owned
<1>9. new \in AlarmData /\ new.action = "rr"
  BY <1>2 DEF alarm_t, AlarmData
<1> HIDE DEF new
<1> QED
  BY <1>4, <1>6, <1>7, <1>8, <1>9, AlarmSet

\* The thread that becomes active.
LEMMA ActivateThread ==
    ASSUME NEW x, Inv(x), NEW t \in Thread
    PROVE  Inv(ksched_activate_thread(x, t))
<1> DEFINE fr == [f |-> "activated", thr |-> t]
           z == [x.sched[t] EXCEPT !.activated = TRUE]
           sc == [x.sched EXCEPT ![t] = z]
<1>1. /\ x \in State /\ x.sched \in [Thread -> SchedData] /\ x.torn \subseteq Thread
      /\ Runs(x.k, NULL)
  BY DEF Inv, Kept, State
<1>2. Inv(rr_thread_activate(push(x, fr), t))
  <2>1. fr \in Frame /\ fr.f = "activated"
    BY DEF Frame
  <2> HIDE DEF fr
  <2>2. Inv(push(x, fr))
    BY <2>1, PushKeeps DEF FrameOK
  <2> QED
    BY <2>2, ActivateRR
<1>3. Inv([x EXCEPT !.sched[t].activated = TRUE])
  <2>1. sc \in [Thread -> SchedData]
    BY <1>1 DEF SchedData
  <2>2. [x EXCEPT !.sched[t].activated = TRUE] = [x EXCEPT !.k = x.k, !.sched = sc, !.torn = x.torn]
    BY <1>1 DEF State
  <2> HIDE DEF sc
  <2>3. Inv([x EXCEPT !.k = x.k, !.sched = sc, !.torn = x.torn])
    BY <1>1, <2>1, SchedKeeps
  <2> QED
    BY <2>2, <2>3
<1> QED
  BY <1>2, <1>3 DEF ksched_activate_thread

\* The thread that was active: at most its place among the ready ones changes.
LEMMA DeactivateThread ==
    ASSUME NEW x, Inv(x), NEW t \in Thread
    PROVE  \E kk \in {x.k, kthread_move_to_ready(x.k, t), kthread_move_to_ready_first(x.k, t)},
              sc \in [Thread -> SchedData], T \in SUBSET Thread :
                 ksched_deactivate_thread(x, t) = [x EXCEPT !.k = kk, !.sched = sc, !.torn = T]
<1> DEFINE rest == x.sched[t].slice_end - Now(x)
           z == [x.sched[t] EXCEPT !.remainder = rest, !.slice_end = rest]
           kr == IF rest <= RR_THRESHOLD THEN kthread_move_to_ready(x.k, t)
                 ELSE kthread_move_to_ready_first(x.k, t)
           g == [x EXCEPT !.sched[t].remainder = rest, !.sched[t].slice_end = rest]
           left == rr_thread_deactivate(x, t)
           T == x.torn \ {t}
           off(y) == [y EXCEPT !.sched[t].activated = FALSE, !.torn = @ \ {t}]
<1>1. /\ x \in State /\ x.sched \in [Thread -> SchedData] /\ x.torn \subseteq Thread
      /\ Now(x) \in Int /\ T \in SUBSET Thread
  BY NowType DEF Inv, Kept, State
<1>2. rest \in Int
  BY <1>1 DEF SchedData
<1> HIDE DEF rest, T
<1>3. z \in SchedData
  BY <1>1, <1>2 DEF SchedData
<1>4. g = [x EXCEPT !.sched = [x.sched EXCEPT ![t] = z]]
  BY <1>1 DEF State
<1> HIDE DEF z
<1>5. left \in {x, g, [g EXCEPT !.k = kr]}
  <2>1. g.k = x.k
    BY <1>1, <1>4 DEF State
  <2>2. left = IF x.sched[t].remainder = 0 THEN x
               ELSE IF ~still_ready(x, t) THEN g
               ELSE [g EXCEPT !.k = IF rest <= RR_THRESHOLD THEN kthread_move_to_ready(g.k, t)
                                    ELSE kthread_move_to_ready_first(g.k, t)]
    BY DEF rr_thread_deactivate, rest
  <2> HIDE DEF g
  <2> QED
    BY <2>1, <2>2
<1>6. kr \in {x.k, kthread_move_to_ready(x.k, t), kthread_move_to_ready_first(x.k, t)}
  OBVIOUS
<1> HIDE DEF kr, left
<1>7. PICK kk \in {x.k, kthread_move_to_ready(x.k, t), kthread_move_to_ready_first(x.k, t)},
           sc \in [Thread -> SchedData] :
              left = [x EXCEPT !.k = kk, !.sched = sc]
  <2>1. [x.sched EXCEPT ![t] = z] \in [Thread -> SchedData]
    BY <1>1, <1>3
  <2>2. x = [x EXCEPT !.k = x.k, !.sched = x.sched]
    BY <1>1 DEF State
  <2>3. g = [x EXCEPT !.k = x.k, !.sched = [x.sched EXCEPT ![t] = z]]
    BY <1>1, <1>4 DEF State
  <2>4. [g EXCEPT !.k = kr] = [x EXCEPT !.k = kr, !.sched = [x.sched EXCEPT ![t] = z]]
    BY <1>1, <1>4 DEF State
  <2> HIDE DEF g
  <2> QED
    BY <1>1, <1>5, <1>6, <2>1, <2>2, <2>3, <2>4
<1>8. CASE ~x.sched[t].activated
  <2>1. x = [x EXCEPT !.k = x.k, !.sched = x.sched, !.torn = x.torn]
    BY <1>1 DEF State
  <2>2. ksched_deactivate_thread(x, t) = x
    BY <1>8 DEF ksched_deactivate_thread
  <2> QED
    BY <1>1, <2>1, <2>2
<1>9. CASE x.sched[t].activated
  <2> DEFINE y == IF x.sched[t].policy = "RR" THEN left ELSE x
  <2>1. ksched_deactivate_thread(x, t) = off(y)
    BY <1>9 DEF ksched_deactivate_thread, left
  <2>2. x = [x EXCEPT !.k = x.k, !.sched = x.sched]
    BY <1>1 DEF State
  <2>3. PICK kc \in {x.k, kthread_move_to_ready(x.k, t), kthread_move_to_ready_first(x.k, t)},
             sc1 \in [Thread -> SchedData] : y = [x EXCEPT !.k = kc, !.sched = sc1]
    BY <1>1, <1>7, <2>2
  <2> HIDE DEF y, off
  <2>4. \E sc2 \in [Thread -> SchedData] : off(y) = [x EXCEPT !.k = kc, !.sched = sc2, !.torn = T]
    <3> DEFINE sc2 == [sc1 EXCEPT ![t] = [sc1[t] EXCEPT !.activated = FALSE]]
    <3>1. sc2 \in [Thread -> SchedData]
      BY DEF SchedData
    <3>2. off(y) = [x EXCEPT !.k = kc, !.sched = sc2, !.torn = T]
      BY <1>1, <2>3 DEF State, T, off
    <3> HIDE DEF sc2
    <3> QED
      BY <3>1, <3>2
  <2>5. PICK sc2 \in [Thread -> SchedData] :
                ksched_deactivate_thread(x, t) = [x EXCEPT !.k = kc, !.sched = sc2, !.torn = T]
    BY <2>1, <2>4, Zenon
  <2> QED
    BY <1>1, <2>5, Zenon
<1> QED
  BY <1>8, <1>9

\* A ready queue that is not empty has its bit in the mask.
LEMMA HighestReady ==
    ASSUME NEW k, Runs(k, NULL),
           k.state[k.active] = "ACTIVE" => kthread_ready_list_highest(k) > k.prio[k.active]
    PROVE  LET p == kthread_ready_list_highest(k) IN p \in Prio /\ k.q[ReadyQ(p)] # <<>>
<1>1. /\ k \in KState /\ k.mask \subseteq Prio /\ k.active \in Thread
      /\ k.prio[k.active] \in Prio /\ k.prio[Idle] \in Prio /\ Idle \in Thread
      /\ k.q[ReadyQ(k.prio[Idle])] \in Seq(Thread)
  BY KThreadsAssumption, QueueNames DEF Runs, KState
<1>2. k.mask # {}
  <2>1. CASE k.state[k.active] = "ACTIVE"
    <3>1. ~(-1 > k.prio[k.active])
      BY <1>1, KThreadsAssumption DEF Prio
    <3> QED
      BY <2>1, <3>1 DEF kthread_ready_list_highest
  <2>2. CASE k.state[k.active] # "ACTIVE"
    <3>1. Stands(k.q[ReadyQ(k.prio[Idle])], Idle)
      BY <2>2 DEF Runs
    <3>2. k.q[ReadyQ(k.prio[Idle])] # <<>>
      BY <3>1 DEF Stands
    <3> QED
      BY <1>1, <3>2 DEF Runs, MaskExact
  <2> QED
    BY <2>1, <2>2
<1>3. Max(k.mask) \in k.mask
  BY <1>1, <1>2, HighestExists
<1>4. kthread_ready_list_highest(k) = Max(k.mask)
  BY <1>2 DEF kthread_ready_list_highest
<1> QED
  BY <1>1, <1>3, <1>4 DEF Runs, MaskExact

\* Runs without a thread that is being changed is the stronger statement.
LEMMA RunsAny ==
    ASSUME NEW k, Runs(k, NULL), NEW t
    PROVE  Runs(k, t)
<1>1. NULL \notin Thread
  BY KThreadsAssumption
<1> QED
  BY <1>1 DEF Runs

\* ReadyRuns, about each of the two functions.
LEMMA EitherRuns ==
    ASSUME NEW k, NEW t \in Thread, Runs(k, t), NEW n,
           n = kthread_move_to_ready(k, t) \/ n = kthread_move_to_ready_first(k, t)
    PROVE  /\ Runs(n, NULL) /\ n.active = k.active /\ n.state[t] = "READY"
           /\ \A p \in Prio : k.q[ReadyQ(p)] # <<>> => n.q[ReadyQ(p)] # <<>>
<1> DEFINE Good(m) == /\ Runs(m, NULL) /\ m.active = k.active
                      /\ m.state = [k.state EXCEPT ![t] = "READY"]
                      /\ \A p \in Prio : k.q[ReadyQ(p)] # <<>> => m.q[ReadyQ(p)] # <<>>
<1>1. \A m \in {kthread_move_to_ready(k, t), kthread_move_to_ready_first(k, t)} : Good(m)
  BY ReadyRuns
<1> HIDE DEF Good
<1>2. Good(n)
  BY <1>1
<1>3. k.state \in [Thread -> ThreadState]
  BY DEF Runs, KState
<1> QED
  BY <1>2, <1>3 DEF Good

\* kthreads_schedule, with all it calls.
LEMMA Schedule ==
    ASSUME NEW x, Inv(x)
    PROVE  Inv(schedule(x))
<1> DEFINE curr == x.k.active
           highest == kthread_ready_list_highest(x.k)
           left == ksched_deactivate_thread(x, curr)
           kk == IF left.k.state[curr] = "ACTIVE" THEN kthread_move_to_ready(left.k, curr)
                 ELSE left.k
           next == activate_first(kk, highest)
           torn == IF activating(x, curr) THEN left.torn \cup {curr} ELSE left.torn
<1>1. x \in State /\ Runs(x.k, NULL) /\ x.k \in KState /\ curr \in Thread
  BY DEF Inv, Kept, Runs, KState
<1>2. CASE x.k.state[curr] = "ACTIVE" /\ ~(highest > x.k.prio[curr])
  BY <1>2 DEF schedule
<1>3. CASE ~(x.k.state[curr] = "ACTIVE" /\ ~(highest > x.k.prio[curr]))
  <2>1. highest \in Prio /\ x.k.q[ReadyQ(highest)] # <<>>
    BY <1>1, <1>3, HighestReady
  <2>2. schedule(x) = ksched_activate_thread([left EXCEPT !.k = next, !.torn = torn], next.active)
    BY <1>3 DEF schedule
  <2> HIDE DEF highest, curr
  <2>3. PICK kc \in {x.k, kthread_move_to_ready(x.k, curr), kthread_move_to_ready_first(x.k, curr)},
             sc \in [Thread -> SchedData], T \in SUBSET Thread :
                left = [x EXCEPT !.k = kc, !.sched = sc, !.torn = T]
    BY <1>1, DeactivateThread
  <2> HIDE DEF left
  <2>4. left.k = kc /\ left.torn = T
    BY <1>1, <2>3 DEF State
  <2>5. Runs(x.k, curr)
    BY <1>1, RunsAny
  <2>6. Runs(kc, NULL) /\ kc.active = curr /\ kc.q[ReadyQ(highest)] # <<>>
    <3>1. CASE kc = x.k
      BY <1>1, <2>1, <3>1 DEF curr
    <3>2. CASE kc \in {kthread_move_to_ready(x.k, curr), kthread_move_to_ready_first(x.k, curr)}
      <4>1. kc = kthread_move_to_ready(x.k, curr) \/ kc = kthread_move_to_ready_first(x.k, curr)
        BY <3>2
      <4>2. Runs(kc, NULL) /\ kc.active = x.k.active
        BY <1>1, <2>5, <4>1, EitherRuns
      <4>3. \A p \in Prio : x.k.q[ReadyQ(p)] # <<>> => kc.q[ReadyQ(p)] # <<>>
        BY <1>1, <2>5, <4>1, EitherRuns
      <4> QED
        BY <2>1, <4>2, <4>3 DEF curr
    <3> QED
      BY <3>1, <3>2
  <2>7. /\ Runs(kk, NULL) /\ kk.active = curr /\ kk.q[ReadyQ(highest)] # <<>>
        /\ kk.state[curr] # "ACTIVE"
    <3>1. CASE kc.state[curr] = "ACTIVE"
      <4>1. Runs(kc, curr) /\ kk = kthread_move_to_ready(kc, curr)
        BY <2>4, <2>6, <3>1, RunsAny
      <4> HIDE DEF kk
      <4>2. /\ Runs(kk, NULL) /\ kk.active = kc.active /\ kk.state[curr] = "READY"
            /\ \A p \in Prio : kc.q[ReadyQ(p)] # <<>> => kk.q[ReadyQ(p)] # <<>>
        BY <1>1, <4>1, EitherRuns
      <4> QED
        BY <2>1, <2>6, <4>2
    <3>2. CASE kc.state[curr] # "ACTIVE"
      BY <2>4, <2>6, <3>2
    <3> QED
      BY <3>1, <3>2
  <2> HIDE DEF kk
  <2>8. IdleReady(kk)
    BY <2>7 DEF Runs, IdleReady
  <2>9. Runs(next, NULL) /\ next.active \in Thread
    BY <2>1, <2>7, <2>8, ActivateRuns
  <2>10. torn \in SUBSET Thread
    BY <1>1, <2>4
  <2> HIDE DEF next, torn
  <2>11. [left EXCEPT !.k = next, !.torn = torn] = [x EXCEPT !.k = next, !.sched = sc, !.torn = torn]
    BY <1>1, <2>3 DEF State
  <2>12. Inv([left EXCEPT !.k = next, !.torn = torn])
    <3>1. Inv([x EXCEPT !.k = next, !.sched = sc, !.torn = torn])
      BY <2>9, <2>10, SchedKeeps
    <3> QED
      BY <2>11, <3>1
  <2> QED
    BY <2>2, <2>9, <2>12, ActivateThread
<1> QED
  BY <1>2, <1>3

\* A change of the scheduling state alone, and a choice of the active thread after it.
LEMMA ScheduleAfter ==
    ASSUME NEW x, Inv(x), NEW kk, Runs(kk, NULL)
    PROVE  Inv([x EXCEPT !.k = kk]) /\ Inv(schedule([x EXCEPT !.k = kk]))
<1> DEFINE y == [x EXCEPT !.k = kk]
<1>1. x \in State /\ kk \in KState
  BY DEF Inv, Kept, Runs
<1>2. /\ y \in State /\ y.k = kk /\ y.list = x.list
      /\ y.alarm = x.alarm /\ y.clock = x.clock /\ y.stack = x.stack
  BY <1>1 DEF State
<1> HIDE DEF y
<1>3. Inv(y)
  BY <1>2, SameAlarms
<1>4. Inv(schedule(y))
  BY <1>3, Schedule
<1> QED
  BY <1>3, <1>4 DEF y

\* The end of a time slice.
LEMMA RRTimer ==
    ASSUME NEW x, Inv(x), NEW t
    PROVE  Inv(rr_timer(x, t))
<1>1. x \in State /\ Runs(x.k, NULL) /\ x.k.active \in Thread /\ x.sched \in [Thread -> SchedData]
      /\ x.torn \in SUBSET Thread
  BY DEF Inv, Kept, Runs, KState, State
<1>2. CASE x.k.active # t
  BY <1>2 DEF rr_timer
<1>3. CASE x.k.active = t
  <2> DEFINE kk == kthread_move_to_ready(x.k, t)
             sc == [x.sched EXCEPT ![t] = [x.sched[t] EXCEPT !.remainder = 0]]
             y == [x EXCEPT !.sched[t].remainder = 0, !.k = kk]
  <2>1. t \in Thread /\ Runs(x.k, t)
    BY <1>1, <1>3, RunsAny
  <2>2. Runs(kk, NULL)
    BY <2>1, ReadyRuns
  <2>3. sc \in [Thread -> SchedData]
    BY <1>1, <2>1 DEF SchedData
  <2>4. rr_timer(x, t) = schedule(y)
    BY <1>3 DEF rr_timer
  <2> HIDE DEF kk
  <2>5. y = [x EXCEPT !.k = kk, !.sched = sc, !.torn = x.torn]
    BY <1>1 DEF State
  <2> HIDE DEF y, sc
  <2>6. Inv(y)
    BY <1>1, <2>2, <2>3, <2>5, SchedKeeps
  <2> QED
    BY <2>4, <2>6, Schedule
<1> QED
  BY <1>2, <1>3

-----------------------------------------------------------------------------
\* The loop of k_schedule_alarms

\* An expired alarm leaves the list or goes back for its next time.
LEMMA TakeFirst ==
    ASSUME NEW x, Inv(x), Busy(x.stack), x.list # <<>>
    PROVE  LET y == take_first(x) IN
           /\ Inv(y) /\ y.k = x.k /\ y.stack = x.stack /\ y.clock = x.clock
           /\ \A b \in Alarm : y.alarm[b].thread = x.alarm[b].thread
<1> DEFINE a == Head(x.list)
           l == Tail(x.list)
           g == [x EXCEPT !.list = l]
           y == take_first(x)
<1>1. x \in State /\ x.list \in Seq(Alarm) /\ x.alarm \in [Alarm -> KAlarm]
  BY DEF Inv, Kept, State
<1>2. a \in Alarm /\ x.alarm[a] \in KAlarm
  BY <1>1, TailMember
<1>3. SortedBy(x.list, x.alarm) /\ \A b \in Alarm : x.alarm[b].active <=> Stands(x.list, b)
  BY ListedParts DEF Inv, Kept
<1>4. /\ l \in Seq(Alarm) /\ SortedBy(l, x.alarm)
      /\ \A u : Stands(l, u) <=> u # a /\ Stands(x.list, u)
  BY <1>1, <1>3, TailSorted
<1>5. Stands(x.list, a)
  <2>1. Head(x.list) = x.list[1] /\ Len(x.list) >= 1 /\ Len(x.list) \in Nat
    BY <1>1, TailMember, LenProperties
  <2> QED
    BY <2>1 DEF Stands
<1> HIDE DEF a, l
<1>6. /\ g \in State /\ g.list = l /\ g.alarm = x.alarm /\ g.clock = x.clock
      /\ g.stack = x.stack /\ g.k = x.k
  BY <1>1, <1>4 DEF State
<1> HIDE DEF g
<1>7. ASSUME NEW h \in State, h.clock = x.clock, h.stack = x.stack, h.k = x.k,
             Listed(h.list, h.alarm), Owned(h.alarm)
      PROVE  Inv(h)
  <2>1. Now(h) = Now(x)
    BY <1>7 DEF Now
  <2> QED
    BY <1>7, <2>1 DEF Inv, Kept
<1>8. CASE x.alarm[a].alarm.period > 0
  <2> DEFINE e == x.alarm[a].alarm.exp + x.alarm[a].alarm.period
             z == [x.alarm[a] EXCEPT !.alarm.exp = e]
             h == [g EXCEPT !.alarm[a].alarm.exp = e]
  <2>1. /\ e \in Int /\ z \in KAlarm /\ z.active = x.alarm[a].active /\ z.live = x.alarm[a].live
        /\ z.thread = x.alarm[a].thread /\ z.alarm.action = x.alarm[a].alarm.action
    <3>1. x.alarm[a].alarm \in AlarmData
      BY <1>2 DEF KAlarm
    <3>2. e \in Int
      BY <3>1 DEF AlarmData
    <3> HIDE DEF e
    <3>3. /\ [x.alarm[a].alarm EXCEPT !.exp = e] \in AlarmData
          /\ [x.alarm[a].alarm EXCEPT !.exp = e].action = x.alarm[a].alarm.action
      BY <3>1, <3>2 DEF AlarmData
    <3>4. z = [x.alarm[a] EXCEPT !.alarm = [x.alarm[a].alarm EXCEPT !.exp = e]]
      OBVIOUS
    <3> QED
      BY <1>2, <3>2, <3>3, <3>4 DEF KAlarm
  <2>2. y = list_sort_add(h, a)
    BY <1>6, <1>8 DEF take_first, g, l, a
  <2>3. h = [g EXCEPT !.alarm[a] = z]
    BY <1>6
  <2> HIDE DEF h, z, e, y
  <2>4. /\ h \in State /\ h.list = l /\ h.clock = x.clock /\ h.stack = x.stack /\ h.k = x.k
        /\ \A b \in Alarm : h.alarm[b] = IF b = a THEN z ELSE x.alarm[b]
    BY <1>2, <1>6, <2>1, <2>3, ChangeAlarm
  <2>5. ~Stands(h.list, a) /\ \A u \in Alarm : Stands(h.list, u) => Exp(h.alarm, u) = Exp(x.alarm, u)
    BY <1>4, <2>4 DEF Exp
  <2>6. SortedBy(h.list, h.alarm)
    BY <1>4, <2>4, <2>5, SortedSame
  <2>7. /\ y \in State /\ y.alarm = h.alarm /\ y.clock = h.clock /\ y.stack = h.stack /\ y.k = h.k
        /\ SortedBy(y.list, h.alarm) /\ \A u : Stands(y.list, u) <=> u = a \/ Stands(h.list, u)
    BY <1>2, <2>2, <2>4, <2>5, <2>6, SortAdd
  <2>8. \A b \in Alarm : y.alarm[b].active <=> Stands(y.list, b)
    BY <1>3, <1>4, <1>5, <2>1, <2>4, <2>7
  <2>9. Listed(y.list, y.alarm)
    BY <2>7, <2>8, ListedParts
  <2>10. Owned(y.alarm)
    <3>1. \A b \in Alarm : /\ y.alarm[b].active <=> x.alarm[b].active
                           /\ y.alarm[b].live = x.alarm[b].live
                           /\ y.alarm[b].thread = x.alarm[b].thread
                           /\ y.alarm[b].alarm.action = x.alarm[b].alarm.action
      BY <2>1, <2>4, <2>7
    <3> QED
      BY <3>1, AlarmsAssumption DEF Inv, Kept, Owned
  <2>11. Inv(y)
    BY <1>7, <2>4, <2>7, <2>9, <2>10
  <2> QED
    BY <2>1, <2>4, <2>7, <2>11 DEF y
<1>9. CASE ~(x.alarm[a].alarm.period > 0)
  <2> DEFINE z == [x.alarm[a] EXCEPT !.active = FALSE]
  <2>1. /\ z \in KAlarm /\ z.active = FALSE /\ z.live = x.alarm[a].live
        /\ z.thread = x.alarm[a].thread /\ z.alarm = x.alarm[a].alarm
    BY <1>2 DEF KAlarm
  <2>2. y = [g EXCEPT !.alarm[a] = z]
    BY <1>6, <1>9 DEF take_first, g, l, a
  <2> HIDE DEF z, y
  <2>3. /\ y \in State /\ y.list = l /\ y.clock = x.clock /\ y.stack = x.stack /\ y.k = x.k
        /\ \A b \in Alarm : y.alarm[b] = IF b = a THEN z ELSE x.alarm[b]
    <3> DEFINE h == [g EXCEPT !.alarm[a] = z]
    <3>1. /\ h \in State /\ h.list = g.list /\ h.clock = g.clock /\ h.stack = g.stack /\ h.k = g.k
          /\ \A b \in Alarm : h.alarm[b] = IF b = a THEN z ELSE g.alarm[b]
      BY <1>2, <1>6, <2>1, ChangeAlarm
    <3> HIDE DEF h
    <3>2. y = h
      BY <2>2 DEF h
    <3> QED
      BY <1>6, <3>1, <3>2
  <2>4. \A u \in Alarm : Exp(y.alarm, u) = Exp(x.alarm, u)
    BY <2>1, <2>3 DEF Exp
  <2>5. SortedBy(y.list, y.alarm)
    BY <1>4, <2>3, <2>4, SortedSame
  <2>6. \A b \in Alarm : y.alarm[b].active <=> Stands(y.list, b)
    BY <1>3, <1>4, <2>1, <2>3
  <2>7. Listed(y.list, y.alarm)
    BY <2>5, <2>6, ListedParts
  <2>8. Owned(y.alarm)
    <3>1. \A b \in Alarm : /\ y.alarm[b].active => x.alarm[b].active
                           /\ y.alarm[b].live = x.alarm[b].live
                           /\ y.alarm[b].thread = x.alarm[b].thread
                           /\ y.alarm[b].alarm = x.alarm[b].alarm
      BY <2>1, <2>3
    <3> QED
      BY <3>1, AlarmsAssumption DEF Inv, Kept, Owned
  <2>9. Inv(y)
    BY <1>7, <2>3, <2>7, <2>8
  <2> QED
    BY <2>1, <2>3, <2>9 DEF y
<1> QED
  BY <1>8, <1>9

\* A thread is created for the action of an alarm.
LEMMA CreateKeeps ==
    ASSUME NEW x, Inv(x), NEW a \in Alarm, x.alarm[a].thread \in Program, spare(x) # {}
    PROVE  Inv(kthread_create(x, a))
<1> DEFINE t == CHOOSE u \in spare(x) : TRUE
           p == at_most(x.k.prio[x.alarm[a].thread] + 1, PRIO_LEVELS - 1)
           m == [x.k EXCEPT !.prio[t] = p]
           kk == kthread_move_to_ready(m, t)
           sc == [x.sched EXCEPT ![t] = [x.sched[t] EXCEPT !.policy = "FIFO", !.activated = FALSE]]
<1>1. /\ x \in State /\ x.k \in KState /\ Runs(x.k, NULL) /\ x.sched \in [Thread -> SchedData]
      /\ x.torn \in SUBSET Thread
  BY DEF Inv, Kept, Runs, State
<1>2. t \in spare(x)
  OBVIOUS
<1>3. t \in Thread \ {Idle}
  BY <1>1, <1>2 DEF spare, Runs
<1>4. p \in Prio
  <2>1. x.k.prio[x.alarm[a].thread] \in Prio
    BY <1>1, AlarmsAssumption DEF KState
  <2> QED
    BY <2>1, KThreadsAssumption DEF at_most, Prio
<1>5. kthread_create(x, a) = [x EXCEPT !.k = kk, !.sched[t] = [@ EXCEPT !.policy = "FIFO", !.activated = FALSE]]
  BY DEF kthread_create
<1> HIDE DEF t, p
<1>6. Runs(m, t)
  BY <1>1, <1>3, <1>4, PrioRuns
<1> HIDE DEF m
<1>7. Runs(kk, NULL)
  BY <1>3, <1>6, EitherRuns
<1> HIDE DEF kk
<1>8. sc \in [Thread -> SchedData]
  BY <1>1, <1>3 DEF SchedData
<1>9. kthread_create(x, a) = [x EXCEPT !.k = kk, !.sched = sc, !.torn = x.torn]
  BY <1>1, <1>5 DEF State
<1> HIDE DEF sc
<1>10. Inv([x EXCEPT !.k = kk, !.sched = sc, !.torn = x.torn])
  BY <1>1, <1>7, <1>8, SchedKeeps
<1> QED
  BY <1>9, <1>10

\* kthreadq_release_all is called.
LEMMA ReleaseCalled ==
    ASSUME NEW x, Inv(x), NEW a \in Alarm
    PROVE  Inv(kthreadq_release_all(x, a))
<1> DEFINE fr == [f |-> "release", alarm |-> a]
<1>1. fr \in Frame /\ fr.f = "release"
  BY DEF Frame
<1> HIDE DEF fr
<1>2. Inv(push(x, fr))
  BY <1>1, PushKeeps DEF FrameOK
<1> QED
  BY <1>2 DEF kthreadq_release_all, fr

\* What a frame on top of the stack holds.
LEMMA TopFrame ==
    ASSUME NEW x, Inv(x), x.stack # <<>>
    PROVE  /\ Head(x.stack) = x.stack[1] /\ 1 \in 1..Len(x.stack)
           /\ FrameOK(Head(x.stack), Now(x)) /\ Len(x.stack) \in Nat
           /\ Head(x.stack).f \in {"expire", "halted"} => Busy(x.stack)
<1>1. x.stack \in Seq(Frame)
  BY DEF Inv, Kept, State
<1>2. Head(x.stack) = x.stack[1] /\ 1 \in 1..Len(x.stack) /\ Len(x.stack) \in Nat
  BY <1>1, TailMember, LenProperties
<1> QED
  BY <1>2 DEF Inv, Kept, Busy

\* The fields of the frames, by the function they belong to.
LEMMA FrameFields ==
    ASSUME NEW fr, NEW now, FrameOK(fr, now)
    PROVE  /\ fr.f = "expire" => fr.now = now /\ fr.resched \in BOOLEAN
           /\ fr.f = "added" => fr.alarm \in Alarm /\ fr.resched \in BOOLEAN
           /\ fr.f = "resched" => fr.resched \in BOOLEAN
           /\ fr.f = "release" => fr.alarm \in Alarm
           /\ fr.f = "activated" => fr.thr \in Thread
           /\ fr.f = "params" => fr.slice \in Nat
  BY DEF FrameOK, Frame

\* One turn of the loop of k_schedule_alarms, for each kind of action.
LEMMA ExpireNextKeeps ==
    ASSUME Inv(s), expire_next
    PROVE  Inv(s')
<1> DEFINE a == Head(s.list)
           g == take_first(s)
           action == s.alarm[a].alarm.action
<1>1. s.stack # <<>> /\ Head(s.stack).f = "expire" /\ s.list # <<>>
  BY DEF expire_next, In, top, expired
<1>2. Busy(s.stack)
  BY <1>1, TopFrame
<1>3. Inv(g) /\ g.k = s.k /\ \A b \in Alarm : g.alarm[b].thread = s.alarm[b].thread
  BY <1>1, <1>2, TakeFirst
<1>4. a \in Alarm
  <2>1. s.list \in Seq(Alarm)
    BY DEF Inv, Kept, State
  <2> QED
    BY <1>1, <2>1, TailMember
<1>5. \/ action = "none" /\ s' = kthreadq_release_all(g, a)
      \/ action = "thread" /\ spare(s) # {} /\ s' = kthreadq_release_all(count(kthread_create(g, a), TRUE), a)
      \/ action = "thread" /\ spare(s) = {} /\ s' = push(g, [f |-> "halted"])
      \/ action = "rr" /\ s' = rr_timer(g, s.alarm[a].alarm.param)
  BY DEF expire_next
<1>6. action = "thread" => g.alarm[a].thread \in Program
  BY <1>3, <1>4 DEF Inv, Kept, Owned
<1>7. spare(g) = spare(s)
  BY <1>3 DEF spare
<1> HIDE DEF a, g, action
<1>8. CASE action = "none" /\ s' = kthreadq_release_all(g, a)
  BY <1>3, <1>4, <1>8, ReleaseCalled
<1>9. CASE action = "thread" /\ spare(s) # {} /\ s' = kthreadq_release_all(count(kthread_create(g, a), TRUE), a)
  <2>1. Inv(kthread_create(g, a))
    BY <1>3, <1>4, <1>6, <1>7, <1>9, CreateKeeps
  <2>2. Inv(count(kthread_create(g, a), TRUE))
    BY <2>1, CountKeeps
  <2> QED
    BY <1>4, <1>9, <2>2, ReleaseCalled
<1>10. CASE action = "thread" /\ spare(s) = {} /\ s' = push(g, [f |-> "halted"])
  <2> DEFINE fr == [f |-> "halted"]
  <2>1. fr \in Frame /\ fr.f = "halted"
    BY DEF Frame
  <2> HIDE DEF fr
  <2>2. Inv(push(g, fr))
    BY <1>3, <2>1, PushKeeps DEF FrameOK
  <2> QED
    BY <1>10, <2>2 DEF fr
<1>11. CASE action = "rr" /\ s' = rr_timer(g, s.alarm[a].alarm.param)
  BY <1>3, <1>11, RRTimer
<1> QED
  BY <1>5, <1>8, <1>9, <1>10, <1>11

\* One turn of the loop of kthreadq_release_all; the caller counts it.
LEMMA ReleaseNextKeeps ==
    ASSUME Inv(s), release_next
    PROVE  Inv(s')
<1> DEFINE kk == kthreadq_release(s.k, AlarmQ(top.alarm))
           v == TRUE
           h == [s EXCEPT !.k = kk]
           y == [h EXCEPT !.stack[2].resched = v]
           g == [s EXCEPT !.k = kthreadq_release(@, AlarmQ(top.alarm)), !.stack[2].resched = TRUE]
<1>1. s.stack # <<>> /\ Head(s.stack).f = "release" /\ top = Head(s.stack)
  BY DEF release_next, In, top
<1>2. /\ Head(s.stack) = s.stack[1] /\ 1 \in 1..Len(s.stack)
      /\ top.alarm \in Alarm /\ Len(s.stack) \in Nat
  BY <1>1, TopFrame, FrameFields
<1>3. AlarmQ(top.alarm) \in WaitQ
  BY <1>2, AlarmsAssumption
<1>4. Runs(kk, NULL)
  <2>1. Runs(s.k, NULL)
    BY DEF Inv, Kept
  <2> QED
    BY <1>3, <2>1, ReleaseRuns
<1>5. s' = IF g.k.q[AlarmQ(top.alarm)] = <<>> THEN pop(g) ELSE g
  BY DEF release_next
<1> HIDE DEF kk
<1>6. Inv(h)
  BY <1>4, ScheduleAfter
<1>7. h.stack = s.stack
  BY DEF Inv, Kept, State
<1>8. g = y
  BY DEF Inv, Kept, State, kk
<1>0. v \in BOOLEAN
  OBVIOUS
<1> HIDE DEF g, h, v
<1>9. /\ Inv(y) /\ Len(y.stack) = Len(h.stack)
      /\ \A j \in 1..Len(h.stack) : y.stack[j].f = h.stack[j].f
  BY <1>0, <1>6, MarkKeeps
<1> HIDE DEF y
<1>10. y.stack[1].f = "release" /\ y.stack # <<>>
  BY <1>1, <1>2, <1>7, <1>9
<1>11. Inv(pop(y))
  <2>1. Head(y.stack) = y.stack[1]
    BY <1>9, <1>10, TopFrame
  <2> QED
    BY <1>9, <1>10, <2>1, PopKeeps
<1> QED
  BY <1>5, <1>8, <1>9, <1>11

\* The timer is set for an alarm that has not expired.
LEMMA TimerSet ==
    ASSUME NEW c \in ClockState, Measures(c), NEW e \in Int, e > arch_get_time(c) + threshold
    PROVE  LET n == arch_timer_set(c, e - arch_get_time(c)) IN
           /\ n \in ClockState /\ Measures(n) /\ arch_get_time(n) = arch_get_time(c)
           /\ InTime(n, e)
<1> DEFINE now == arch_get_time(c)
           d == e - now
           delay == at_least(d, MIN_INTERVAL)
           load == at_most(delay, MAX_INTERVAL)
           n == arch_timer_set(c, d)
<1>1. now \in Nat
  BY DEF ClockState, Measures, arch_get_time
<1>2. threshold \in Nat /\ threshold <= MIN_INTERVAL - 1
  BY ClockAssumption DEF threshold
<1>3. e > now + threshold
  OBVIOUS
<1> HIDE DEF now
<1>4. /\ delay \in Nat /\ delay >= 1 /\ now + delay <= e + MIN_INTERVAL - threshold - 1
  BY <1>1, <1>2, <1>3, ClockAssumption DEF at_least
<1>5. load \in Nat /\ load >= 1 /\ load <= delay
  <2> HIDE DEF delay
  <2> QED
    BY <1>4, ClockAssumption DEF at_most
<1> DEFINE b == TRUE
           m == [c EXCEPT !.clock = now, !.delay = delay, !.handler = b]
<1>0. b \in BOOLEAN /\ b
  OBVIOUS
<1>6. n = [m EXCEPT !.last_load = load, !.counter = load]
  BY DEF arch_timer_set, set_interval, now
<1> HIDE DEF delay, load, n, b
<1>7. /\ n \in ClockState /\ n.clock = now /\ n.delay = delay /\ n.last_load = load
      /\ n.counter = load /\ n.handler = b
  <2>1. m \in ClockState /\ m.clock = now /\ m.delay = delay /\ m.handler = b
    <3>1. delay \in Int /\ now \in Nat /\ b \in BOOLEAN
      BY <1>0, <1>1, <1>4
    <3>2. m.clock = now /\ m.delay = delay /\ m.handler = b
      BY DEF ClockState
    <3>3. m \in ClockState
      BY <3>1 DEF ClockState
    <3> QED
      BY <3>2, <3>3
  <2> HIDE DEF m
  <2> QED
    BY <1>5, <1>6, <2>1 DEF ClockState
<1>8. Measures(n) /\ arch_get_time(n) = now
  BY <1>1, <1>5, <1>7, <1>4 DEF Measures, arch_get_time
<1>9. InTime(n, e)
  BY <1>0, <1>4, <1>7 DEF InTime
<1> QED
  BY <1>7, <1>8, <1>9 DEF n, now

\* The end of k_schedule_alarms: no alarm has expired, so the timer is set for the
\* first one, in time; a delay the timer cannot measure is split or raised.
LEMMA ExpireDoneKeeps ==
    ASSUME Inv(s), expire_done
    PROVE  Inv(s')
<1> DEFINE e == s.alarm[Head(s.list)].alarm.exp
           c == arch_timer_set(s.clock, e - top.now)
           g == IF s.list = <<>> THEN s ELSE [s EXCEPT !.clock = c]
<1>1. s.stack # <<>> /\ Head(s.stack).f = "expire" /\ top = Head(s.stack) /\ ~expired
  BY DEF expire_done, In, top
<1>2. top.now = Now(s) /\ top.resched \in BOOLEAN
  BY <1>1, TopFrame, FrameFields
<1>3. s' = count(pop(g), top.resched)
  BY DEF expire_done
<1>4. Kept(g) /\ g.stack = s.stack /\ (g.list # <<>> => InTime(g.clock, g.alarm[Head(g.list)].alarm.exp))
  <2>1. CASE s.list = <<>>
    BY <2>1 DEF Inv
  <2>2. CASE s.list # <<>>
    <3>1. Head(s.list) \in Alarm
      <4>1. s.list \in Seq(Alarm)
        BY DEF Inv, Kept, State
      <4> QED
        BY <2>2, <4>1, TailMember
    <3>2. e \in Int /\ s.clock \in ClockState /\ Measures(s.clock)
      BY <3>1 DEF Inv, Kept, State, KAlarm, AlarmData
    <3>3. top.now = arch_get_time(s.clock) /\ e > arch_get_time(s.clock) + threshold
      <4>1. top.now = arch_get_time(s.clock)
        BY <1>2 DEF Now
      <4>2. ~(e <= top.now + threshold)
        BY <1>1, <2>2 DEF expired
      <4>3. top.now \in Int /\ threshold \in Int
        BY <1>2, NowType, ClockAssumption DEF Inv, Kept, threshold
      <4> QED
        BY <3>2, <4>1, <4>2, <4>3
    <3> HIDE DEF e
    <3>4. /\ c \in ClockState /\ Measures(c) /\ arch_get_time(c) = arch_get_time(s.clock)
          /\ InTime(c, e)
      BY <3>2, <3>3, TimerSet
    <3> HIDE DEF c
    <3>5. /\ g \in State /\ g.list = s.list /\ g.alarm = s.alarm /\ g.clock = c
          /\ g.stack = s.stack /\ g.k = s.k
      BY <2>2, <3>4 DEF Inv, Kept, State
    <3> HIDE DEF g
    <3>6. Now(g) = Now(s)
      BY <3>4, <3>5 DEF Now
    <3>7. Kept(g)
      BY <3>4, <3>5, <3>6 DEF Inv, Kept
    <3> QED
      BY <3>4, <3>5, <3>7 DEF e
  <2> QED
    BY <2>1, <2>2
<1> HIDE DEF g
<1>5. Kept(pop(g)) /\ pop(g).list = g.list /\ pop(g).alarm = g.alarm /\ pop(g).clock = g.clock
  BY <1>1, <1>4, PopKept
<1>6. Inv(pop(g))
  BY <1>4, <1>5 DEF Inv
<1> QED
  BY <1>2, <1>3, <1>6, CountKeeps

\* A change of secondary scheduling data alone.
LEMMA DataKeeps ==
    ASSUME NEW x, Inv(x), NEW t \in Thread, NEW z \in SchedData
    PROVE  Inv([x EXCEPT !.sched[t] = z])
<1> DEFINE sc == [x.sched EXCEPT ![t] = z]
<1>1. /\ x \in State /\ Runs(x.k, NULL) /\ x.sched \in [Thread -> SchedData]
      /\ x.torn \in SUBSET Thread
  BY DEF Inv, Kept, State
<1>2. sc \in [Thread -> SchedData]
  BY <1>1
<1>3. [x EXCEPT !.sched[t] = z] = [x EXCEPT !.k = x.k, !.sched = sc, !.torn = x.torn]
  BY <1>1 DEF State
<1> HIDE DEF sc
<1>4. Inv([x EXCEPT !.k = x.k, !.sched = sc, !.torn = x.torn])
  BY <1>1, <1>2, SchedKeeps
<1> QED
  BY <1>3, <1>4

\* A change of the time slice alone.
LEMMA SliceKeeps ==
    ASSUME NEW x, Inv(x), NEW n \in Nat
    PROVE  Inv([x EXCEPT !.slice = n])
<1> DEFINE y == [x EXCEPT !.slice = n]
<1>1. x \in State /\ Runs(x.k, NULL)
  BY DEF Inv, Kept
<1>2. /\ y \in State /\ y.k = x.k /\ y.list = x.list
      /\ y.alarm = x.alarm /\ y.clock = x.clock /\ y.stack = x.stack
  BY <1>1 DEF State
<1> HIDE DEF y
<1>3. Inv(y)
  BY <1>1, <1>2, SameAlarms
<1> QED
  BY <1>3 DEF y

\* The rest of k_alarm_add keeps the invariant.
LEMMA AddedKeeps ==
    ASSUME Inv(s), added
    PROVE  Inv(s')
<1> DEFINE a == s.alarm[top.alarm]
           block == a.thread # NULL /\ a.active /\ a.alarm.wait
           kk == kthread_enqueue(s.k, a.thread, AlarmQ(top.alarm))
           y == pop(s)
           g == IF block THEN [y EXCEPT !.k = kthread_enqueue(@, a.thread, AlarmQ(top.alarm))] ELSE y
<1>1. s.stack # <<>> /\ Head(s.stack).f = "added" /\ top = Head(s.stack)
  BY DEF added, In, top
<1>2. top.alarm \in Alarm
  BY <1>1, TopFrame, FrameFields
<1>3. Inv(y) /\ y.k = s.k
  BY <1>1, PopKeeps
<1>4. s' = IF block \/ top.resched THEN schedule(g) ELSE g
  BY DEF added
<1> HIDE DEF y
<1>5. Inv(g)
  <2>1. CASE ~block
    BY <1>3, <2>1
  <2>2. CASE block
    <3>1. AlarmQ(top.alarm) \in WaitQ
      BY <1>2, AlarmsAssumption
    <3>2. a.thread \in Program
      BY <1>2, <2>2 DEF Inv, Kept, State, KAlarm
    <3>3. a.thread \in Thread \ {Idle}
      BY <3>2, AlarmsAssumption
    <3>4. Runs(s.k, a.thread)
      BY RunsAny DEF Inv, Kept
    <3> HIDE DEF a
    <3>5. Runs(kk, NULL)
      BY <3>1, <3>3, <3>4, EnqueueRuns
    <3>6. g = [y EXCEPT !.k = kk]
      BY <1>3, <2>2
    <3> HIDE DEF kk, g
    <3>7. Inv([y EXCEPT !.k = kk])
      BY <1>3, <3>5, ScheduleAfter
    <3> QED
      BY <3>6, <3>7
  <2> QED
    BY <2>1, <2>2
<1> HIDE DEF g
<1>6. Inv(schedule(g))
  BY <1>5, Schedule
<1> QED
  BY <1>4, <1>5, <1>6

\* So do the other returns.
LEMMA ReturnKeeps ==
    ASSUME Inv(s), reschedule \/ activated \/ set_parameters
    PROVE  Inv(s')
<1>1. CASE reschedule
  <2>1. s.stack # <<>> /\ Head(s.stack).f = "resched"
    BY <1>1 DEF reschedule, In, top
  <2>2. Inv(pop(s))
    BY <2>1, PopKeeps
  <2>3. Inv(schedule(pop(s)))
    BY <2>2, Schedule
  <2> QED
    BY <1>1, <2>2, <2>3 DEF reschedule
<1>2. CASE activated
  <2> DEFINE y == pop(s)
             z == [y.sched[top.thr] EXCEPT !.activated = TRUE]
  <2>1. s.stack # <<>> /\ Head(s.stack).f = "activated" /\ top = Head(s.stack)
    BY <1>2 DEF activated, In, top
  <2>2. top.thr \in Thread
    BY <2>1, TopFrame, FrameFields
  <2>3. Inv(y)
    BY <2>1, PopKeeps
  <2>4. s' = [y EXCEPT !.sched[top.thr] = z]
    BY <1>2 DEF activated
  <2> HIDE DEF y
  <2>5. y.sched[top.thr] \in SchedData
    BY <2>2, <2>3 DEF Inv, Kept, State
  <2>6. z \in SchedData
    BY <2>5 DEF SchedData
  <2> HIDE DEF z
  <2> QED
    BY <2>2, <2>3, <2>4, <2>6, DataKeeps
<1>3. CASE set_parameters
  <2>1. s.stack # <<>> /\ Head(s.stack).f = "params" /\ top = Head(s.stack)
    BY <1>3 DEF set_parameters, In, top
  <2>2. top.slice \in Nat
    BY <2>1, TopFrame, FrameFields
  <2>3. Inv(pop(s))
    BY <2>1, PopKeeps
  <2>4. Inv([pop(s) EXCEPT !.slice = top.slice])
    BY <2>2, <2>3, SliceKeeps
  <2> QED
    BY <1>3, <2>4 DEF set_parameters
<1> QED
  BY <1>1, <1>2, <1>3

-----------------------------------------------------------------------------
\* System calls

\* What programs pass for an alarm.
LEMMA RequestType ==
    ASSUME Inv(s), NEW t, NEW new \in Request(t)
    PROVE  new \in AlarmData
<1>1. s.program \in Programs /\ Now(s) \in Int
  BY NowType DEF Inv, Kept, State
<1>2. PICK r \in s.program.requests : new \in alarm_of(t, r)
  BY DEF Request
<1>3. (r[1] = NULL \/ r[1] \in Int) /\ r[2] \in Nat /\ r[3] \in {"none", "thread"}
  BY <1>1, AlarmsAssumption
<1> DEFINE e == IF r[1] = NULL THEN 0 ELSE Now(s) + r[1]
<1>4. e \in Int
  BY <1>1, <1>3
<1>5. PICK wait \in BOOLEAN : new = alarm_t(e, r[2], wait, r[3], NULL)
  BY <1>2 DEF alarm_of
<1> HIDE DEF e
<1> QED
  BY <1>3, <1>4, <1>5 DEF alarm_t, AlarmData

\* A new alarm.
LEMMA AlarmNewKeeps ==
    ASSUME Inv(s), NEW t, NEW a \in UserAlarm, NEW new \in Request(t), sys__alarm_new(t, a, new)
    PROVE  Inv(s')
<1> DEFINE z == kalarm_t(new, t, TRUE)
           x == [s EXCEPT !.alarm[a] = z]
<1>1. t \in Program /\ ~s.alarm[a].live /\ a \in Alarm /\ a # RRAlarm
  BY DEF sys__alarm_new, User, UserAlarm
<1>2. s' = k_alarm_add(x, a)
  BY DEF sys__alarm_new
<1>3. new \in AlarmData
  BY RequestType
<1>4. z \in KAlarm /\ z.live = TRUE /\ z.thread = t
  BY <1>1, <1>3 DEF kalarm_t, KAlarm
<1>5. s \in State /\ s.list \in Seq(Alarm)
  BY DEF Inv, Kept, State
<1> HIDE DEF z
<1>6. /\ x \in State /\ x.list = s.list /\ x.clock = s.clock /\ x.stack = s.stack /\ x.k = s.k
      /\ \A b \in Alarm : x.alarm[b] = IF b = a THEN z ELSE s.alarm[b]
  BY <1>1, <1>4, <1>5, ChangeAlarm
<1> HIDE DEF x
<1>7. SortedBy(s.list, s.alarm) /\ \A b \in Alarm : s.alarm[b].active <=> Stands(s.list, b)
  BY ListedParts DEF Inv, Kept
<1>8. ~Stands(x.list, a)
  BY <1>1, <1>6, <1>7 DEF Inv, Kept, Owned
<1>9. SortedBy(x.list, x.alarm)
  <2>1. \A u \in Alarm : Stands(s.list, u) => Exp(x.alarm, u) = Exp(s.alarm, u)
    BY <1>6, <1>8 DEF Exp
  <2> QED
    BY <1>5, <1>6, <1>7, <2>1, SortedSame
<1>10. Owned(x.alarm)
  <2>1. x.alarm[RRAlarm].live
    BY <1>1, <1>6, AlarmsAssumption DEF Inv, Kept, Owned
  <2>2. \A b \in Alarm : /\ x.alarm[b].active => x.alarm[b].live
                         /\ x.alarm[b].alarm.action = "thread" => x.alarm[b].thread \in Program
                         /\ x.alarm[b].live /\ b # RRAlarm => x.alarm[b].thread \in Program
    BY <1>1, <1>4, <1>6 DEF Inv, Kept, Owned
  <2> QED
    BY <2>1, <2>2 DEF Owned
<1>11. Now(x) = Now(s)
  BY <1>6 DEF Now
<1>12. x.alarm[a].live /\ \A b \in Alarm \ {a} : x.alarm[b].active <=> Stands(x.list, b)
  BY <1>1, <1>4, <1>6, <1>7
<1>13. Adding(x, a)
  BY <1>6, <1>8, <1>9, <1>10, <1>11, <1>12 DEF Adding, Inv, Kept
<1> QED
  BY <1>1, <1>2, <1>13, AlarmAdd

\* A new time for an alarm.
LEMMA AlarmSetKeeps ==
    ASSUME Inv(s), NEW t, NEW a \in UserAlarm, NEW new \in Request(t), sys__alarm_set(t, a, new)
    PROVE  Inv(s')
<1>1. s.alarm[a].live /\ a \in Alarm /\ a # RRAlarm /\ s' = k_alarm_set(s, a, new)
  BY DEF sys__alarm_set, UserAlarm
<1>2. new \in AlarmData
  BY RequestType
<1>3. s.alarm[a].thread \in Program
  BY <1>1 DEF Inv, Kept, Owned
<1> QED
  BY <1>1, <1>2, <1>3, AlarmSet

\* An alarm is removed.
LEMMA AlarmRemoveKeeps ==
    ASSUME Inv(s), NEW t, NEW a \in UserAlarm, sys__alarm_remove(t, a)
    PROVE  Inv(s')
<1> DEFINE l == list_remove(s, a).list
           z == [s.alarm[a] EXCEPT !.live = FALSE, !.active = FALSE]
           h == [s EXCEPT !.list = l]
           x == [h EXCEPT !.alarm[a] = z]
           fr == [f |-> "resched", resched |-> FALSE]
<1>1. a \in Alarm /\ a # RRAlarm
  BY DEF UserAlarm
<1>2. s \in State /\ s.list \in Seq(Alarm) /\ s.alarm \in [Alarm -> KAlarm] /\ s.alarm[a] \in KAlarm
  BY <1>1 DEF Inv, Kept, State
<1>3. list_remove(s, a) = h
  BY <1>2 DEF list_remove, State
<1>4. s' = kthreadq_release_all(k_schedule_alarms(push(x, fr)), a)
  <2>1. [list_remove(s, a) EXCEPT !.alarm[a].live = FALSE, !.alarm[a].active = FALSE] = x
    <3>1. h.alarm = s.alarm
      BY <1>2 DEF State
    <3>2. x = [h EXCEPT !.alarm[a].live = FALSE, !.alarm[a].active = FALSE]
      BY <1>1, <1>2, <3>1
    <3> QED
      BY <1>3, <3>2
  <2> QED
    BY <2>1 DEF sys__alarm_remove
<1>5. SortedBy(s.list, s.alarm) /\ \A b \in Alarm : s.alarm[b].active <=> Stands(s.list, b)
  BY ListedParts DEF Inv, Kept
<1>6. /\ l \in Seq(Alarm) /\ SortedBy(l, s.alarm)
      /\ \A u \in Alarm : Stands(l, u) <=> u # a /\ Stands(s.list, u)
  <2>1. CASE s.alarm[a].active
    <3>1. l = RemoveFirst(s.list, a)
      BY <1>2, <2>1 DEF list_remove, State
    <3> QED
      BY <1>2, <1>5, <3>1, RemoveSorted
  <2>2. CASE ~s.alarm[a].active
    BY <1>1, <1>2, <1>5, <2>2 DEF list_remove
  <2> QED
    BY <2>1, <2>2
<1>7. /\ z \in KAlarm /\ z.live = FALSE /\ z.active = FALSE /\ z.alarm = s.alarm[a].alarm
      /\ z.thread = s.alarm[a].thread
  BY <1>2 DEF KAlarm
<1> HIDE DEF l, z
<1>8. /\ h \in State /\ h.list = l /\ h.clock = s.clock /\ h.stack = s.stack /\ h.k = s.k
      /\ h.alarm = s.alarm
  BY <1>2, <1>6 DEF State
<1> HIDE DEF h
<1>9. /\ x \in State /\ x.list = h.list /\ x.clock = h.clock /\ x.stack = h.stack /\ x.k = h.k
      /\ \A b \in Alarm : x.alarm[b] = IF b = a THEN z ELSE h.alarm[b]
  BY <1>1, <1>7, <1>8, ChangeAlarm
<1> HIDE DEF x
<1>10. \A u \in Alarm : Exp(x.alarm, u) = Exp(s.alarm, u)
  BY <1>7, <1>8, <1>9 DEF Exp
<1>11. SortedBy(x.list, x.alarm)
  BY <1>6, <1>8, <1>9, <1>10, SortedSame
<1>12. \A b \in Alarm : x.alarm[b].active <=> Stands(x.list, b)
  BY <1>5, <1>6, <1>7, <1>8, <1>9
<1>13. Listed(x.list, x.alarm)
  BY <1>11, <1>12, ListedParts
<1>14. Owned(x.alarm)
  <2>1. x.alarm[RRAlarm].live
    BY <1>1, <1>8, <1>9, AlarmsAssumption DEF Inv, Kept, Owned
  <2>2. \A b \in Alarm : /\ x.alarm[b].active => x.alarm[b].live
                         /\ x.alarm[b].alarm.action = "thread" => x.alarm[b].thread \in Program
                         /\ x.alarm[b].live /\ b # RRAlarm => x.alarm[b].thread \in Program
    BY <1>7, <1>8, <1>9 DEF Inv, Kept, Owned
  <2> QED
    BY <2>1, <2>2 DEF Owned
<1>15. Now(x) = Now(s)
  BY <1>8, <1>9 DEF Now
<1>16. Kept(x)
  BY <1>8, <1>9, <1>13, <1>14, <1>15 DEF Inv, Kept
<1>17. fr \in Frame /\ fr.f = "resched"
  BY DEF Frame
<1> HIDE DEF fr
<1>18. Kept(push(x, fr))
  BY <1>16, <1>17, PushKept DEF FrameOK
<1>19. Inv(k_schedule_alarms(push(x, fr)))
  BY <1>18, ScheduleAlarms
<1> QED
  BY <1>1, <1>4, <1>19, ReleaseCalled

\* A thread blocks on an alarm.
LEMMA WaitKeeps ==
    ASSUME Inv(s), NEW t, NEW a \in UserAlarm, sys__wait_for_alarm(t, a)
    PROVE  Inv(s')
<1> DEFINE kk == kthread_enqueue(s.k, t, AlarmQ(a))
<1>1. t \in Thread \ {Idle} /\ AlarmQ(a) \in WaitQ
  BY AlarmsAssumption DEF sys__wait_for_alarm, User, UserAlarm
<1>2. Runs(s.k, t)
  BY RunsAny DEF Inv, Kept
<1>3. Runs(kk, NULL)
  BY <1>1, <1>2, EnqueueRuns
<1>4. s' = schedule([s EXCEPT !.k = kk])
  BY DEF sys__wait_for_alarm
<1> HIDE DEF kk
<1> QED
  BY <1>3, <1>4, ScheduleAfter

\* A thread of the program gets another priority.
LEMMA SetPrioKeeps ==
    ASSUME NEW x, Inv(x), NEW t \in Program, NEW p \in Prio
    PROVE  Inv(kthread_set_prio(x, t, p))
<1> DEFINE to_ready(kk) == kthread_move_to_ready([kk EXCEPT !.prio[t] = p], t)
           out == clear_if_empty(kthreadq_remove(x.k, t), x.k.prio[t])
<1>1. t \in Thread \ {Idle} /\ Runs(x.k, NULL) /\ x \in State /\ x.k \in KState
  BY AlarmsAssumption DEF Inv, Kept, Runs
<1>2. ASSUME NEW kk, Runs(kk, NULL) PROVE Runs(to_ready(kk), NULL)
  <2> DEFINE m == [kk EXCEPT !.prio[t] = p]
  <2>1. Runs(m, t)
    BY <1>1, <1>2, PrioRuns
  <2> HIDE DEF m
  <2>2. Runs(kthread_move_to_ready(m, t), NULL)
    BY <1>1, <2>1, EitherRuns
  <2> QED
    BY <2>2 DEF m
<1>3. CASE x.k.state[t] = "ACTIVE"
  <2> DEFINE kk == to_ready(x.k)
  <2>1. Runs(kk, NULL)
    BY <1>1, <1>2
  <2>2. kthread_set_prio(x, t, p) = schedule([x EXCEPT !.k = kk])
    BY <1>3 DEF kthread_set_prio
  <2> HIDE DEF kk
  <2> QED
    BY <2>1, <2>2, ScheduleAfter
<1>4. CASE x.k.state[t] = "READY"
  <2> DEFINE kk == to_ready(out)
  <2>1. Runs(out, NULL)
    BY <1>1, <1>4, RemoveReadyRuns
  <2>2. kthread_set_prio(x, t, p) = schedule([x EXCEPT !.k = kk])
    BY <1>4 DEF kthread_set_prio
  <2> HIDE DEF out
  <2>3. Runs(kk, NULL)
    BY <1>2, <2>1
  <2> HIDE DEF kk
  <2> QED
    BY <2>2, <2>3, ScheduleAfter
<1>5. CASE x.k.state[t] \notin {"ACTIVE", "READY"}
  <2> DEFINE kk == [x.k EXCEPT !.prio[t] = p]
  <2>1. Runs(kk, NULL)
    BY <1>1, <1>5, PrioRuns
  <2>2. kthread_set_prio(x, t, p) = [x EXCEPT !.k = kk]
    BY <1>5 DEF kthread_set_prio
  <2> HIDE DEF kk
  <2> QED
    BY <2>1, <2>2, ScheduleAfter
<1> QED
  BY <1>3, <1>4, <1>5

\* A thread changes scheduling parameters.
LEMMA ParamsKeeps ==
    ASSUME Inv(s), NEW t, NEW c \in s.program.changes,
           sys__set_thread_sched_params(t, c[2], c[3], c[4]) \/ sys__set_sched_params(t, c[4])
    PROVE  Inv(s')
<1>1. s.program \in Programs /\ s.slice \in Nat /\ s.sched \in [Thread -> SchedData]
  BY DEF Inv, Kept, State
<1>2. c[2] \in Program /\ c[2] \in Thread /\ c[3] \in Prio /\ c[4] \in Nat
  BY <1>1, AlarmsAssumption
<1>3. CASE sys__set_sched_params(t, c[4])
  <2>1. s' = [s EXCEPT !.slice = c[4]]
    BY <1>3 DEF sys__set_sched_params
  <2> QED
    BY <1>2, <2>1, SliceKeeps
<1>4. CASE sys__set_thread_sched_params(t, c[2], c[3], c[4])
  <2> DEFINE fr == [f |-> "params", slice |-> c[4]]
             g == push(s, fr)
             z == [g.sched[c[2]] EXCEPT !.policy = "RR", !.remainder = s.slice]
             x == [g EXCEPT !.sched[c[2]] = z]
  <2>1. fr \in Frame /\ fr.f = "params"
    BY <1>2 DEF Frame
  <2>2. s' = kthread_set_prio(x, c[2], c[3])
    <3>1. s' = kthread_set_prio([g EXCEPT !.sched[c[2]].policy = "RR", !.sched[c[2]].remainder = s.slice], c[2], c[3])
      BY <1>4 DEF sys__set_thread_sched_params
    <3>2. g \in State
      <4> HIDE DEF fr
      <4> QED
        BY <2>1, PushKeeps DEF FrameOK, Inv, Kept
    <3> HIDE DEF g
    <3>3. [g EXCEPT !.sched[c[2]].policy = "RR", !.sched[c[2]].remainder = s.slice] = x
      BY <1>2, <3>2 DEF State
    <3> QED
      BY <3>1, <3>3
  <2> HIDE DEF fr
  <2>3. Inv(g)
    BY <2>1, PushKeeps DEF FrameOK
  <2> HIDE DEF g
  <2>4. g.sched[c[2]] \in SchedData
    BY <1>2, <2>3 DEF Inv, Kept, State
  <2>5. z \in SchedData
    <3>1. s.slice \in Int
      BY <1>1
    <3> QED
      BY <2>4, <3>1 DEF SchedData
  <2> HIDE DEF z
  <2>6. Inv(x)
    BY <1>2, <2>3, <2>5, DataKeeps
  <2> HIDE DEF x
  <2> QED
    BY <1>2, <2>2, <2>6, SetPrioKeeps
<1> QED
  BY <1>3, <1>4

\* A thread that ran an action ends.
LEMMA ExitKeeps ==
    ASSUME Inv(s), NEW t, kthread_exit(t)
    PROVE  Inv(s')
<1> DEFINE kk == kthread_unlink(s.k, t)
<1>1. Runs(s.k, NULL) /\ t \in Thread \ {Idle}
  BY DEF kthread_exit, Inv, Kept, Runs, KState
<1>2. Runs(kk, NULL)
  BY <1>1, UnlinkRuns
<1>3. s' = schedule([s EXCEPT !.k = kk])
  BY DEF kthread_exit
<1> HIDE DEF kk
<1> QED
  BY <1>2, <1>3, ScheduleAfter

-----------------------------------------------------------------------------
\* Time

\* The clock changes in user code.
LEMMA ClockChange ==
    ASSUME Inv(s), s.stack = <<>>, NEW c \in ClockState, Measures(c)
    PROVE  LET g == [s EXCEPT !.clock = c] IN
           /\ Kept(g) /\ g.list = s.list /\ g.alarm = s.alarm /\ g.clock = c /\ g.stack = s.stack
           /\ ~Busy(s.stack)
<1> DEFINE g == [s EXCEPT !.clock = c]
<1>1. /\ g \in State /\ g.list = s.list /\ g.alarm = s.alarm /\ g.clock = c
      /\ g.stack = s.stack /\ g.k = s.k
  BY DEF Inv, Kept, State
<1>2. Len(s.stack) = 0
  OBVIOUS
<1> HIDE DEF g
<1>3. Kept(g)
  BY <1>1, <1>2 DEF Inv, Kept
<1>4. ~Busy(s.stack)
  BY <1>2 DEF Busy
<1> QED
  BY <1>1, <1>3, <1>4 DEF g

\* A tick brings no alarm closer to being late: the interrupt is still due in time.
LEMMA TickKeeps ==
    ASSUME Inv(s), tick
    PROVE  Inv(s')
<1> DEFINE c == count_down(s.clock)
           g == [s EXCEPT !.clock = c]
           n == s.clock.counter - 1
           b == TRUE
<1>1. s.clock \in ClockState /\ Measures(s.clock) /\ s.stack = <<>>
  BY DEF tick, Inv, Kept, State
<1>2. /\ c \in ClockState /\ Measures(c) /\ c.clock = s.clock.clock /\ c.delay = s.clock.delay
      /\ c.handler = s.clock.handler
  <2>1. s.clock.counter \in 1..s.clock.last_load /\ s.clock.last_load \in Nat /\ s.clock.last_load <= s.clock.delay
    BY <1>1 DEF Measures, ClockState
  <2>2. CASE s.clock.counter > 1
    <3>1. c = [s.clock EXCEPT !.counter = n] /\ n \in Nat /\ n \in 1..s.clock.last_load
      BY <2>1, <2>2 DEF count_down
    <3> HIDE DEF c, n
    <3>2. /\ c \in ClockState /\ c.counter = n /\ c.last_load = s.clock.last_load
          /\ c.clock = s.clock.clock /\ c.delay = s.clock.delay /\ c.handler = s.clock.handler
      BY <1>1, <3>1 DEF ClockState
    <3> QED
      BY <2>1, <3>1, <3>2 DEF Measures
  <2>3. CASE ~(s.clock.counter > 1)
    <3>1. c = [s.clock EXCEPT !.counter = s.clock.last_load, !.pending = b] /\ b \in BOOLEAN
      BY <2>3 DEF count_down
    <3> HIDE DEF c, b
    <3>2. /\ c \in ClockState /\ c.counter = s.clock.last_load /\ c.last_load = s.clock.last_load
          /\ c.clock = s.clock.clock /\ c.delay = s.clock.delay /\ c.handler = s.clock.handler
      BY <1>1, <3>1 DEF ClockState
    <3> QED
      BY <2>1, <3>2 DEF Measures
  <2> QED
    BY <2>2, <2>3
<1>3. s' = g
  BY DEF tick
<1> HIDE DEF c
<1>4. /\ Kept(g) /\ g.list = s.list /\ g.alarm = s.alarm /\ g.clock = c /\ ~Busy(s.stack)
  BY <1>1, <1>2, ClockChange
<1> HIDE DEF g
<1>5. Inv(g)
  BY <1>2, <1>4 DEF Inv, InTime
<1> QED
  BY <1>3, <1>5

\* What the interrupt handler does to the clock.
LEMMA HandlerClock ==
    ASSUME NEW c \in ClockState, Measures(c)
    PROVE  LET n == arch_timer_handler(c) IN
           /\ n \in ClockState /\ Measures(n)
           /\ ~delay_passed(c) => /\ n.handler = c.handler
                                  /\ n.clock + n.delay = c.clock + c.delay
<1> DEFINE n == arch_timer_handler(c)
           rest == c.delay - c.last_load
           now == c.clock + c.last_load
           no == FALSE
           g == [c EXCEPT !.clock = now, !.pending = no]
<1>1. /\ c.clock \in Nat /\ c.delay \in Int /\ c.last_load \in Nat /\ rest \in Nat /\ now \in Nat
      /\ no \in BOOLEAN /\ now + rest = c.clock + c.delay
  BY DEF ClockState, Measures
<1>2. n = IF delay_passed(c)
          THEN [[g EXCEPT !.delay = MAX_INTERVAL, !.handler = no]
                   EXCEPT !.last_load = MAX_INTERVAL, !.counter = MAX_INTERVAL]
          ELSE [[g EXCEPT !.delay = rest]
                   EXCEPT !.last_load = at_most(rest, MAX_INTERVAL), !.counter = at_most(rest, MAX_INTERVAL)]
  BY DEF arch_timer_handler, set_interval
<1>3. ~delay_passed(c) => rest >= 1
  BY <1>1, ClockAssumption DEF delay_passed, threshold
<1> HIDE DEF n, rest, now, no
<1>4. g \in ClockState /\ g.clock = now /\ g.handler = c.handler
  BY <1>1 DEF ClockState
<1> HIDE DEF g
<1>5. CASE delay_passed(c)
  <2> DEFINE h == [g EXCEPT !.delay = MAX_INTERVAL, !.handler = no]
  <2>0. MAX_INTERVAL \in Int /\ no \in BOOLEAN
    BY <1>1, ClockAssumption
  <2>1. h \in ClockState /\ h.delay = MAX_INTERVAL
    BY <1>4, <2>0 DEF ClockState
  <2>2. n = [h EXCEPT !.last_load = MAX_INTERVAL, !.counter = MAX_INTERVAL]
    BY <1>2, <1>5
  <2> HIDE DEF h
  <2>3. /\ n \in ClockState /\ n.delay = MAX_INTERVAL /\ n.last_load = MAX_INTERVAL
        /\ n.counter = MAX_INTERVAL
    BY <2>1, <2>2, ClockAssumption DEF ClockState
  <2> QED
    BY <1>5, <2>3, ClockAssumption DEF Measures, n
<1>6. CASE ~delay_passed(c)
  <2> DEFINE h == [g EXCEPT !.delay = rest]
             load == at_most(rest, MAX_INTERVAL)
  <2>1. /\ h \in ClockState /\ h.delay = rest /\ h.clock = now /\ h.handler = c.handler
    BY <1>1, <1>4 DEF ClockState
  <2>2. load \in Nat /\ load >= 1 /\ load <= rest
    BY <1>1, <1>3, <1>6, ClockAssumption DEF at_most
  <2>3. n = [h EXCEPT !.last_load = load, !.counter = load]
    BY <1>2, <1>6
  <2> HIDE DEF h, load
  <2>4. /\ n \in ClockState /\ n.delay = rest /\ n.last_load = load /\ n.counter = load
        /\ n.clock = now /\ n.handler = c.handler
    BY <2>1, <2>2, <2>3 DEF ClockState
  <2>5. Measures(n)
    BY <2>2, <2>4 DEF Measures
  <2> QED
    BY <1>1, <2>4, <2>5 DEF n
<1> QED
  BY <1>5, <1>6

\* The interrupt looks for expired alarms, or the delay goes on.
LEMMA InterruptKeeps ==
    ASSUME Inv(s), timer_interrupt
    PROVE  Inv(s')
<1> DEFINE c == arch_timer_handler(s.clock)
           g == [s EXCEPT !.clock = c]
           fr == [f |-> "resched", resched |-> FALSE]
<1>1. s.clock \in ClockState /\ Measures(s.clock) /\ s.stack = <<>>
  BY DEF timer_interrupt, Inv, Kept, State
<1>2. /\ c \in ClockState /\ Measures(c)
      /\ ~delay_passed(s.clock) => /\ c.handler = s.clock.handler
                                   /\ c.clock + c.delay = s.clock.clock + s.clock.delay
  BY <1>1, HandlerClock
<1>3. s' = IF delay_passed(s.clock) /\ s.clock.handler THEN k_schedule_alarms(push(g, fr)) ELSE g
  BY DEF timer_interrupt
<1>4. fr \in Frame /\ fr.f = "resched"
  BY DEF Frame
<1> HIDE DEF c, fr
<1>5. Kept(g) /\ g.list = s.list /\ g.alarm = s.alarm /\ g.clock = c /\ ~Busy(s.stack)
  BY <1>1, <1>2, ClockChange
<1> HIDE DEF g
<1>6. Kept(push(g, fr))
  BY <1>4, <1>5, PushKept DEF FrameOK
<1>7. Inv(k_schedule_alarms(push(g, fr)))
  BY <1>6, ScheduleAlarms
<1>8. ASSUME ~(delay_passed(s.clock) /\ s.clock.handler) PROVE Inv(g)
  <2>1. s.list # <<>> => InTime(s.clock, s.alarm[Head(s.list)].alarm.exp)
    BY <1>5 DEF Inv
  <2>2. s.list # <<>> => InTime(c, s.alarm[Head(s.list)].alarm.exp)
    BY <1>2, <1>8, <2>1 DEF InTime
  <2> QED
    BY <1>5, <2>2 DEF Inv
<1> QED
  BY <1>3, <1>7, <1>8

-----------------------------------------------------------------------------
\* The first state

\* The threads of one priority, in some order.
LEMMA OrderedThreads ==
    ASSUME NEW T, NEW o \in Orders(T)
    PROVE  o \in Seq(Thread) /\ (o # <<>> <=> T # {})
<1>1. o \in BoundedSeq(Program, Cardinality(Program)) /\ ToSet(o) = T
  BY DEF Orders
<1>2. PICK m \in 0..Cardinality(Program) : o \in [1..m -> Program]
  BY <1>1 DEF BoundedSeq, SeqOf
<1>3. Cardinality(Program) \in Nat
  BY AlarmsAssumption, FS_CardinalityType
<1>4. m \in Nat
  BY <1>2, <1>3
<1>5. o \in [1..m -> Thread]
  BY <1>2, AlarmsAssumption
<1>6. o \in Seq(Thread)
  BY <1>4, <1>5
<1>7. Len(o) = m
  BY <1>4, <1>5, <1>6
<1>8. T = {o[i] : i \in 1..m}
  BY <1>1, <1>2 DEF ToSet
<1>9. o = <<>> <=> m = 0
  BY <1>6, <1>7, EmptySeq
<1>10. T = {} <=> m = 0
  <2>1. m # 0 => 1 \in 1..m
    BY <1>4
  <2>2. m = 0 => 1..m = {}
    BY <1>4
  <2> QED
    BY <1>8, <2>1, <2>2
<1> QED
  BY <1>6, <1>9, <1>10

\* The scheduler finds the idle thread running and the others ready.
LEMMA InitRuns ==
    ASSUME NEW program \in Programs, NEW order,
           \A p \in Prio : order[p] \in Orders(WithPrio(program, p))
    PROVE  Runs(Created(program, order), NULL)
<1> DEFINE n == Created(program, order)
           prio == program.prio
<1>0. /\ n = [state |-> n.state, prio |-> n.prio, queue |-> n.queue, q |-> n.q, mask |-> n.mask,
              active |-> n.active]
      /\ n.state = [t \in Thread |-> IF t = Idle THEN "ACTIVE"
                                    ELSE IF t \in Program THEN "READY" ELSE "PASSIVE"]
      /\ n.prio = [t \in Thread |-> IF t \in Program THEN prio[t] ELSE 0]
      /\ n.queue = [t \in Thread |-> IF t \in Program THEN ReadyQ(prio[t]) ELSE NULL]
      /\ n.q = [x \in Queue |-> IF x \in ReadyQs THEN order[x[2]] ELSE <<>>]
      /\ n.mask = {p \in Prio : WithPrio(program, p) # {}} /\ n.active = Idle
  BY DEF Created
<1>16. prio \in [Program -> Prio]
  BY AlarmsAssumption
<1> HIDE DEF n, prio
<1>1. Idle \in Thread /\ NULL \notin Thread /\ 0 \in Prio /\ Idle \notin Program /\ Program \subseteq Thread
  BY KThreadsAssumption, AlarmsAssumption DEF Prio
<1>2. \A p \in Prio : /\ order[p] \in Seq(Thread)
                      /\ order[p] # <<>> <=> WithPrio(program, p) # {}
  BY OrderedThreads
<1>3. \A p \in Prio : ReadyQ(p)[2] = p
  BY DEF ReadyQ
<1>4. \A x \in ReadyQs : \E p \in Prio : x = ReadyQ(p) /\ x[2] = p
  BY <1>3 DEF ReadyQs
<1>5. n.q \in [Queue -> Seq(Thread)]
  <2>1. \A x \in Queue : (IF x \in ReadyQs THEN order[x[2]] ELSE <<>>) \in Seq(Thread)
    BY <1>2, <1>4
  <2> QED
    BY <1>0, <2>1
<1>6. n.state \in [Thread -> ThreadState] /\ n.prio \in [Thread -> Prio] /\ n.active \in Thread
  BY <1>0, <1>1, <1>16 DEF ThreadState
<1>7. n.queue \in [Thread -> Queue \cup {NULL}]
  BY <1>0, <1>16, QueueNames
<1>8. n.mask \subseteq Prio
  BY <1>0
<1>9. n \in KState
  BY <1>0, <1>5, <1>6, <1>7, <1>8 DEF KState
<1>10. \A p \in Prio : n.q[ReadyQ(p)] = order[p]
  BY <1>0, <1>3, QueueNames
<1>11. \A p \in Prio : p \in n.mask <=> WithPrio(program, p) # {}
  BY <1>0
<1>12. MaskExact(n)
  BY <1>2, <1>10, <1>11 DEF MaskExact
<1>13. \A t \in Thread : n.state[t] = "READY" => n.queue[t] = ReadyQ(n.prio[t])
  BY <1>0, <1>1
<1>14. \A t \in Thread : n.state[t] # "WAIT"
  BY <1>0
<1>15. n.active = Idle /\ n.state[Idle] = "ACTIVE"
  BY <1>0, <1>1
<1> QED
  BY <1>9, <1>12, <1>13, <1>14, <1>15 DEF Runs, n

\* The invariant holds at first.
LEMMA InitInv ==
    ASSUME Init
    PROVE  Inv(s)
<1> DEFINE sc == ksched_thread_add
           al == rr_init
           fr == [f |-> "resched", resched |-> TRUE]
<1>1. PICK program \in Programs :
        \E order \in [Prio -> UNION {Orders(WithPrio(program, p)) : p \in Prio}] :
           /\ \A p \in Prio : order[p] \in Orders(WithPrio(program, p))
           /\ s = [program |-> program, k |-> Created(program, order), sched |-> sc,
                   alarm |-> al, list |-> <<>>, clock |-> arch_timer_init, slice |-> TIME_SLICE,
                   stack |-> <<fr>>, torn |-> {}]
  BY DEF Init
<1> HIDE DEF sc, al, fr
<1>2. PICK order : /\ \A p \in Prio : order[p] \in Orders(WithPrio(program, p))
                   /\ s = [program |-> program, k |-> Created(program, order), sched |-> sc,
                           alarm |-> al, list |-> <<>>, clock |-> arch_timer_init,
                           slice |-> TIME_SLICE, stack |-> <<fr>>, torn |-> {}]
  BY <1>1
<1> DEFINE kk == Created(program, order)
<1>3. Runs(kk, NULL)
  BY <1>2, InitRuns
<1> HIDE DEF kk
<1>4. sc \in [Thread -> SchedData]
  <2>1. \A t \in Thread : [policy |-> IF t \in RRThreads THEN "RR" ELSE "FIFO",
                           activated |-> t = Idle,
                           remainder |-> IF t \in RRThreads THEN TIME_SLICE ELSE 0,
                           slice_end |-> 0] \in SchedData
    BY AlarmsAssumption DEF SchedData
  <2> QED
    BY <2>1 DEF sc, ksched_thread_add
<1>5. /\ al \in [Alarm -> KAlarm] /\ al[RRAlarm].live
      /\ \A a \in Alarm : /\ ~al[a].active
                          /\ al[a].alarm.action # "thread" /\ (al[a].live => a = RRAlarm)
  <2>1. ASSUME NEW a \in Alarm
        PROVE  LET z == kalarm_t(alarm_t(0, 0, FALSE, IF a = RRAlarm THEN "rr" ELSE "none", NULL),
                                 NULL, a = RRAlarm)
               IN  /\ z \in KAlarm /\ ~z.active /\ z.alarm.action # "thread"
                   /\ (z.live <=> a = RRAlarm)
    <3> DEFINE ac == IF a = RRAlarm THEN "rr" ELSE "none"
               at == alarm_t(0, 0, FALSE, ac, NULL)
               lv == a = RRAlarm
    <3>1. ac \in {"rr", "none"} /\ lv \in BOOLEAN
      OBVIOUS
    <3> HIDE DEF ac
    <3>2. at \in AlarmData /\ at.action = ac
      BY <3>1 DEF alarm_t, AlarmData
    <3> HIDE DEF at
    <3>3. kalarm_t(at, NULL, lv) \in KAlarm
      <4> HIDE DEF lv
      <4> QED
        BY <3>1, <3>2 DEF kalarm_t, KAlarm
    <3>4. ~kalarm_t(at, NULL, lv).active /\ kalarm_t(at, NULL, lv).alarm = at
      BY DEF kalarm_t
    <3>5. kalarm_t(at, NULL, lv).live <=> a = RRAlarm
      BY DEF kalarm_t
    <3> QED
      BY <3>1, <3>2, <3>3, <3>4, <3>5 DEF at, ac
  <2> QED
    BY <2>1, AlarmsAssumption DEF al, rr_init
<1>6. arch_timer_init \in ClockState /\ Measures(arch_timer_init)
  BY ClockAssumption DEF arch_timer_init, ClockState, Measures
<1>7. fr \in Frame /\ fr.f = "resched"
  BY DEF Frame, fr
<1>8. <<fr>> \in Seq(Frame) /\ Len(<<fr>>) = 1 /\ <<fr>>[1] = fr
  BY <1>7
<1>9. /\ s.program = program /\ s.k = kk /\ s.sched = sc /\ s.alarm = al /\ s.list = <<>>
      /\ s.clock = arch_timer_init /\ s.slice = TIME_SLICE /\ s.stack = <<fr>> /\ s.torn = {}
  BY <1>2 DEF kk
<1>10. s \in State
  <2>1. kk \in KState /\ TIME_SLICE \in Nat /\ <<>> \in Seq(Alarm)
    BY <1>3, AlarmsAssumption DEF Runs
  <2> QED
    BY <1>2, <1>4, <1>5, <1>6, <1>8, <2>1 DEF State, kk
<1>11. Listed(s.list, s.alarm) /\ Owned(s.alarm)
  <2>1. Len(s.list) = 0
    BY <1>9
  <2> QED
    BY <1>5, <1>9, <2>1 DEF Listed, Owned
<1>12. \A i \in 1..Len(s.stack) : FrameOK(s.stack[i], Now(s))
  BY <1>7, <1>8, <1>9 DEF FrameOK
<1> QED
  BY <1>3, <1>6, <1>9, <1>10, <1>11, <1>12 DEF Inv, Kept

-----------------------------------------------------------------------------
\* The theorems

\* Every step keeps the invariant.
LEMMA NextInv ==
    ASSUME Inv(s), [Next]_s
    PROVE  Inv(s')
<1>1. CASE s' = s
  BY <1>1
<1>2. CASE Kernel
  BY <1>2, ExpireNextKeeps, ReleaseNextKeeps, ExpireDoneKeeps, AddedKeeps, ReturnKeeps DEF Kernel
<1>3. CASE tick
  BY <1>3, TickKeeps
<1>4. CASE timer_interrupt
  BY <1>4, InterruptKeeps
<1>5. ASSUME NEW t \in Thread, Call(t) PROVE Inv(s')
  <2>1. ASSUME NEW a \in UserAlarm, NEW new \in Request(t), sys__alarm_new(t, a, new) PROVE Inv(s')
    BY <2>1, AlarmNewKeeps
  <2>2. ASSUME NEW a \in UserAlarm, NEW new \in Request(t), sys__alarm_set(t, a, new) PROVE Inv(s')
    BY <2>2, AlarmSetKeeps
  <2>3. ASSUME NEW a \in UserAlarm, sys__alarm_remove(t, a) PROVE Inv(s')
    BY <2>3, AlarmRemoveKeeps
  <2>4. ASSUME NEW a \in UserAlarm, sys__wait_for_alarm(t, a) PROVE Inv(s')
    BY <2>4, WaitKeeps
  <2>5. ASSUME NEW c \in s.program.changes,
               sys__set_thread_sched_params(t, c[2], c[3], c[4]) \/ sys__set_sched_params(t, c[4])
        PROVE  Inv(s')
    BY <2>5, ParamsKeeps
  <2>6. CASE kthread_exit(t)
    BY <2>6, ExitKeeps
  <2> QED
    BY <1>5, <2>1, <2>2, <2>3, <2>4, <2>5, <2>6 DEF Call
<1> QED
  BY <1>1, <1>2, <1>3, <1>4, <1>5 DEF Next

\* The inductive invariant: whatever programs ask for, and in whatever order alarms,
\* slices and the scheduler call each other, the list of alarms is exact, the
\* scheduler can choose a thread, and outside of k_schedule_alarms the timer is
\* set so that its interrupt comes in time for the first alarm.
THEOREM SpecInv == Spec => []Inv(s)
<1>1. Init => Inv(s)
  BY InitInv
<1>2. Inv(s) /\ [Next]_s => Inv(s)'
  BY NextInv
<1> QED
  BY <1>1, <1>2, PTL DEF Spec

\* The list of alarms holds the active ones, once each, by expiration time, at every
\* step of the kernel (list_sort_add, list_remove and the loop of k_schedule_alarms).
THEOREM SpecListExact == Spec => []ListExact
<1>1. Inv(s) => ListExact
  <2> SUFFICES ASSUME Inv(s) PROVE ListExact
    OBVIOUS
  <2>1. s.list \in Seq(Alarm) /\ Listed(s.list, s.alarm)
    BY DEF Inv, Kept, State
  <2>2. DOMAIN s.list = 1..Len(s.list) /\ \A i \in 1..Len(s.list) : s.list[i] \in Alarm
    BY <2>1, ElementOfSeq, LenProperties
  <2>3. ToSet(s.list) = {a \in Alarm : s.alarm[a].active}
    <3>1. ToSet(s.list) = {s.list[i] : i \in 1..Len(s.list)}
      BY <2>2 DEF ToSet
    <3>2. \A a \in Alarm : s.alarm[a].active <=> \E i \in 1..Len(s.list) : s.list[i] = a
      BY <2>1 DEF Listed
    <3> QED
      BY <2>2, <3>1, <3>2
  <2>4. \A i, j \in DOMAIN s.list : i < j =>
          /\ s.list[i] # s.list[j]
          /\ s.alarm[s.list[i]].alarm.exp <= s.alarm[s.list[j]].alarm.exp
    BY <2>1, <2>2 DEF Listed
  <2> QED
    BY <2>3, <2>4 DEF ListExact
<1> QED
  BY <1>1, SpecInv, PTL

\* In user code no alarm is more than the shortest interval of the timer late: the
\* timer set by k_schedule_alarms is the one for the first alarm, through all that
\* arch_timer_handler splits long delays into.
THEOREM SpecNoneOverdue == Spec => []NoneOverdue
<1>1. Inv(s) => NoneOverdue
  <2> SUFFICES ASSUME Inv(s), s.stack = <<>>, NEW a \in ToSet(s.list)
               PROVE  Now(s) < s.alarm[a].alarm.exp + MIN_INTERVAL - threshold - 1
    BY DEF NoneOverdue
  <2>1. /\ s.list \in Seq(Alarm) /\ Listed(s.list, s.alarm) /\ s.clock \in ClockState
        /\ Measures(s.clock) /\ s.alarm \in [Alarm -> KAlarm]
    BY DEF Inv, Kept, State
  <2>2. PICK j \in 1..Len(s.list) : a = s.list[j]
    BY <2>1, LenProperties DEF ToSet
  <2>3. s.list # <<>> /\ Len(s.list) \in Nat
    BY <2>1, <2>2, LenProperties
  <2>4. Head(s.list) = s.list[1] /\ 1 \in 1..Len(s.list) /\ s.list[1] \in Alarm /\ a \in Alarm
    BY <2>1, <2>2, <2>3, ElementOfSeq
  <2> DEFINE e == s.alarm[s.list[1]].alarm.exp
             f == s.alarm[a].alarm.exp
  <2>5. e \in Int /\ f \in Int
    BY <2>1, <2>4 DEF KAlarm, AlarmData
  <2>6. e <= f
    <3>1. CASE j = 1
      BY <2>2, <2>5, <3>1
    <3>2. CASE j # 1
      BY <2>1, <2>2, <2>4, <3>2 DEF Listed
    <3> QED
      BY <3>1, <3>2
  <2>7. ~Busy(s.stack)
    BY DEF Busy
  <2>8. InTime(s.clock, e)
    BY <2>3, <2>4, <2>7 DEF Inv
  <2> HIDE DEF e, f
  <2>9. threshold \in Int /\ MIN_INTERVAL \in Int
    BY ClockAssumption DEF threshold
  <2>10. Now(s) < s.clock.clock + s.clock.delay
    BY <2>1 DEF Now, arch_get_time, Measures, ClockState
  <2>11. Now(s) \in Int /\ s.clock.clock + s.clock.delay \in Int
    BY <2>1 DEF Now, arch_get_time, ClockState
  <2>12. s.clock.clock + s.clock.delay <= e + MIN_INTERVAL - threshold - 1
    BY <2>8 DEF InTime
  <2>13. Now(s) < f + MIN_INTERVAL - threshold - 1
    BY <2>5, <2>6, <2>9, <2>10, <2>11, <2>12
  <2> QED
    BY <2>13 DEF f
<1> QED
  BY <1>1, SpecInv, PTL

-----------------------------------------------------------------------------
\* Who sleeps on alarms

\* A thread may go on sleeping on the alarm: it can still expire, or it was given
\* no time and will be set again or removed.
Awaited(al) == al.live /\ (al.active \/ al.alarm.exp <= 0)

\* The threads that sleep on a are being released, or the machine has stopped.
Waking(st, a) == \E i \in 1..Len(st) : st[i].f = "halted" \/ (st[i].f = "release" /\ st[i].alarm = a)

\* Nobody blocks on the alarm of round robin, and no other ends slices.
RRFree(al) ==
    /\ al[RRAlarm].thread = NULL
    /\ \A a \in Alarm : al[a].alarm.action = "rr" => a = RRAlarm

\* NoSleepOnExpired, at every step of the kernel.
Asleep(x) ==
    /\ RRFree(x.alarm)
    /\ \A a \in Alarm : x.k.q[AlarmQ(a)] # <<>> =>
          a # RRAlarm /\ (Awaited(x.alarm[a]) \/ Waking(x.stack, a))

\* The queues of alarms have become no fuller.
Drained(k, n) == \A a \in Alarm : n.q[AlarmQ(a)] # <<>> => k.q[AlarmQ(a)] # <<>>

\* From x to y nobody has gone to sleep and no sleeper was given up.
Calm(x, y) ==
    /\ Drained(x.k, y.k)
    /\ \A a \in Alarm : Awaited(x.alarm[a]) => Awaited(y.alarm[a])
    /\ \A a \in Alarm : Waking(x.stack, a) => Waking(y.stack, a)
    /\ RRFree(x.alarm) => RRFree(y.alarm)

\* What Calm is for.
LEMMA CalmAsleep ==
    ASSUME NEW x, NEW y, Asleep(x), Calm(x, y)
    PROVE  Asleep(y)
  BY DEF Asleep, Calm, Drained

\* Calls follow each other.
LEMMA CalmTrans ==
    ASSUME NEW x, NEW y, NEW z, Calm(x, y), Calm(y, z)
    PROVE  Calm(x, z)
  BY DEF Calm, Drained

\* A step that leaves alarms and stack alone and drains queues.
LEMMA CalmSame ==
    ASSUME NEW x, NEW y, Drained(x.k, y.k), y.alarm = x.alarm, y.stack = x.stack
    PROVE  Calm(x, y)
  BY DEF Calm

\* The queue of an alarm is a queue of blocked threads, not one of ready threads.
LEMMA AlarmQueues ==
    ASSUME NEW a \in Alarm
    PROVE  AlarmQ(a) \in WaitQ /\ AlarmQ(a) \in Queue /\ \A p : ReadyQ(p) # AlarmQ(a)
<1>1. AlarmQ(a) \in WaitQ
  BY AlarmsAssumption
<1>2. \A p : ReadyQ(p)[1] = "ready" /\ AlarmQ(a)[1] = "alarm" /\ "ready" # "alarm"
  BY DEF ReadyQ, AlarmQ
<1>3. \A p : ReadyQ(p) # AlarmQ(a)
  BY <1>2
<1> QED
  BY <1>1, <1>3 DEF Queue

\* A thread that becomes ready is put in no alarm's queue.
LEMMA ReadyDrained ==
    ASSUME NEW k \in KState, NEW t, NEW n,
           n = kthread_move_to_ready(k, t) \/ n = kthread_move_to_ready_first(k, t)
    PROVE  Drained(k, n)
<1> SUFFICES ASSUME NEW a \in Alarm PROVE n.q[AlarmQ(a)] = k.q[AlarmQ(a)]
  BY DEF Drained
<1> DEFINE r == ReadyQ(k.prio[t])
<1>1. AlarmQ(a) \in Queue /\ r # AlarmQ(a)
  BY AlarmQueues
<1>2. PICK w : n = [k EXCEPT !.state[t] = "READY", !.queue[t] = r, !.q[r] = w,
                             !.mask = @ \cup {k.prio[t]}]
  BY DEF kthread_move_to_ready, kthread_move_to_ready_first
<1> HIDE DEF r
<1>3. n.q = [k.q EXCEPT ![r] = w]
  BY <1>2 DEF KState
<1> QED
  BY <1>1, <1>3 DEF KState

\* Nor does the choice of the active thread touch them.
LEMMA ActivateDrained ==
    ASSUME NEW k \in KState, NEW p
    PROVE  Drained(k, activate_first(k, p))
<1> SUFFICES ASSUME NEW a \in Alarm PROVE activate_first(k, p).q[AlarmQ(a)] = k.q[AlarmQ(a)]
  BY DEF Drained
<1> DEFINE w == Tail(k.q[ReadyQ(p)])
           c == clear_if_empty([k EXCEPT !.q[ReadyQ(p)] = w], p)
           h == Head(k.q[ReadyQ(p)])
<1>1. AlarmQ(a) \in Queue /\ ReadyQ(p) # AlarmQ(a)
  BY AlarmQueues
<1>2. activate_first(k, p) = [c EXCEPT !.active = h, !.state[h] = "ACTIVE", !.queue[h] = NULL]
  BY DEF activate_first
<1> HIDE DEF w, h
<1>3. c.q[AlarmQ(a)] = k.q[AlarmQ(a)]
  BY <1>1 DEF clear_if_empty, KState
<1> HIDE DEF c
<1> QED
  BY <1>2, <1>3

\* A queue that is empty stays empty when a thread is unlinked.
LEMMA RemoveDrained ==
    ASSUME NEW k \in KState, NEW t, NEW p
    PROVE  /\ Drained(k, kthreadq_remove(k, t))
           /\ Drained(k, clear_if_empty(kthreadq_remove(k, t), p))
<1> DEFINE n == kthreadq_remove(k, t)
           x == k.queue[t]
           w == RemoveFirst(k.q[x], t)
<1>1. n = [k EXCEPT !.q[x] = w]
  BY DEF kthreadq_remove
<1>2. k.q[x] = <<>> => w = <<>>
  <2> SUFFICES ASSUME k.q[x] = <<>> PROVE w = <<>>
    OBVIOUS
  <2>1. <<>> \in Seq(Thread) /\ ~Stands(<<>>, t)
    BY DEF Stands
  <2> QED
    BY <2>1, RemoveFirstKeeps
<1> HIDE DEF w, n
<1>3. Drained(k, n)
  <2> SUFFICES ASSUME NEW a \in Alarm, n.q[AlarmQ(a)] # <<>> PROVE k.q[AlarmQ(a)] # <<>>
    BY DEF Drained
  <2>1. AlarmQ(a) \in Queue
    BY AlarmQueues
  <2> QED
    BY <1>1, <1>2, <2>1 DEF KState
<1>4. clear_if_empty(n, p).q = n.q
  <2>1. \A m : [n EXCEPT !.mask = m].q = n.q
    BY <1>1 DEF KState
  <2> QED
    BY <2>1 DEF clear_if_empty
<1> QED
  BY <1>3, <1>4 DEF Drained, n

\* A release empties a queue further.
LEMMA ReleaseDrained ==
    ASSUME NEW k \in KState, NEW x \in WaitQ
    PROVE  Drained(k, kthreadq_release(k, x))
<1>1. CASE k.q[x] = <<>>
  BY <1>1 DEF kthreadq_release, Drained
<1>2. CASE k.q[x] # <<>>
  <2> DEFINE w == Tail(k.q[x])
             n == [k EXCEPT !.q[x] = w]
             h == Head(k.q[x])
  <2>1. k.q[x] \in Seq(Thread)
    BY QueueNames DEF KState
  <2>2. w \in Seq(Thread)
    BY <1>2, <2>1, TailMember
  <2> HIDE DEF w
  <2>3. n \in KState
    BY <2>2 DEF KState
  <2>4. Drained(k, n)
    BY <1>2, AlarmQueues DEF Drained, KState
  <2>5. kthreadq_release(k, x) = kthread_move_to_ready(n, h)
    BY <1>2 DEF kthreadq_release, w
  <2> HIDE DEF n, h
  <2>6. Drained(n, kthread_move_to_ready(n, h))
    BY <2>3, ReadyDrained
  <2> QED
    BY <2>4, <2>5, <2>6 DEF Drained
<1> QED
  BY <1>1, <1>2

\* A thread that ends sleeps no more.
LEMMA UnlinkDrained ==
    ASSUME NEW k \in KState, NEW t
    PROVE  Drained(k, kthread_unlink(k, t))
<1>1. Drained(k, k) /\ Drained(k, [k EXCEPT !.state[t] = "PASSIVE"])
  BY DEF Drained, KState
<1> QED
  BY <1>1, RemoveDrained DEF kthread_unlink

\* What a push does to the frames.
LEMMA PushFrames ==
    ASSUME NEW st \in Seq(Frame), NEW fr \in Frame
    PROVE  LET n == <<fr>> \o st IN
           /\ \A a : Waking(st, a) => Waking(n, a)
           /\ fr.f = "release" => Waking(n, fr.alarm)
           /\ fr.f = "halted" => \A a : Waking(n, a)
<1> DEFINE n == <<fr>> \o st
<1>1. <<fr>> \in Seq(Frame) /\ Len(<<fr>>) = 1 /\ <<fr>>[1] = fr /\ Len(st) \in Nat
  BY LenProperties
<1>2. /\ Len(n) = 1 + Len(st)
      /\ \A i \in 1..1 + Len(st) : n[i] = IF i <= 1 THEN <<fr>>[i] ELSE st[i - 1]
  BY <1>1, ConcatProperties
<1> HIDE DEF n
<1>3. \A i \in 1..Len(st) : i + 1 \in 1..Len(n) /\ n[i + 1] = st[i]
  BY <1>1, <1>2
<1>4. 1 \in 1..Len(n) /\ n[1] = fr
  BY <1>1, <1>2
<1>5. ASSUME NEW a, Waking(st, a) PROVE Waking(n, a)
  BY <1>3, <1>5 DEF Waking
<1>6. fr.f = "release" => Waking(n, fr.alarm)
  BY <1>4 DEF Waking
<1>7. fr.f = "halted" => \A a : Waking(n, a)
  BY <1>4 DEF Waking
<1> QED
  BY <1>5, <1>6, <1>7 DEF n

\* A call keeps the frames.
LEMMA PushCalm ==
    ASSUME NEW x \in State, NEW fr \in Frame
    PROVE  /\ Calm(x, push(x, fr)) /\ push(x, fr).alarm = x.alarm /\ push(x, fr).k = x.k
           /\ fr.f = "release" => Waking(push(x, fr).stack, fr.alarm)
           /\ fr.f = "halted" => \A a : Waking(push(x, fr).stack, a)
<1> DEFINE y == push(x, fr)
           st == <<fr>> \o x.stack
<1>1. x.stack \in Seq(Frame)
  BY DEF State
<1>2. /\ \A a : Waking(x.stack, a) => Waking(st, a)
      /\ fr.f = "release" => Waking(st, fr.alarm)
      /\ fr.f = "halted" => \A a : Waking(st, a)
  BY <1>1, PushFrames
<1>3. y = [x EXCEPT !.stack = st]
  BY DEF push
<1> HIDE DEF st
<1>4. y.stack = st /\ y.k = x.k /\ y.alarm = x.alarm
  BY <1>3 DEF State
<1> HIDE DEF y
<1> QED
  BY <1>2, <1>4 DEF Calm, Drained, y

\* A return keeps the other frames.
LEMMA PopCalm ==
    ASSUME NEW x \in State, x.stack # <<>>, Head(x.stack).f # "halted"
    PROVE  /\ pop(x).k = x.k /\ pop(x).alarm = x.alarm
           /\ Head(x.stack).f # "release" => Calm(x, pop(x))
           /\ \A a : Waking(x.stack, a) /\ (Head(x.stack).f = "release" => a # Head(x.stack).alarm)
                     => Waking(pop(x).stack, a)
<1> DEFINE y == pop(x)
           st == Tail(x.stack)
<1>1. x.stack \in Seq(Frame)
  BY DEF State
<1>2. /\ Head(x.stack) = x.stack[1] /\ Len(x.stack) >= 1
      /\ Len(st) = Len(x.stack) - 1 /\ \A i \in 1..Len(st) : st[i] = x.stack[i + 1]
      /\ Len(x.stack) \in Nat
  BY <1>1, TailMember, LenProperties
<1>3. y = [x EXCEPT !.stack = st]
  BY DEF pop
<1> HIDE DEF st
<1>4. y.stack = st /\ y.k = x.k /\ y.alarm = x.alarm
  BY <1>3 DEF State
<1> HIDE DEF y
<1>5. ASSUME NEW a, Waking(x.stack, a), Head(x.stack).f = "release" => a # Head(x.stack).alarm
      PROVE  Waking(st, a)
  <2>1. PICK i \in 1..Len(x.stack) :
          x.stack[i].f = "halted" \/ (x.stack[i].f = "release" /\ x.stack[i].alarm = a)
    BY <1>5 DEF Waking
  <2>2. i # 1
    BY <1>2, <1>5, <2>1
  <2>3. i - 1 \in 1..Len(st) /\ (i - 1) + 1 = i
    BY <1>2, <2>2
  <2>4. st[i - 1] = x.stack[i]
    BY <1>2, <2>3
  <2> QED
    BY <2>1, <2>3, <2>4 DEF Waking
<1> QED
  BY <1>4, <1>5 DEF Calm, Drained, y

\* A called function has counted something for the frame at position i.
LEMMA MarkCalm ==
    ASSUME NEW x, Inv(x), NEW i \in Nat, NEW v,
           i \in 1..Len(x.stack) /\ x.stack[i].f \in Counting => v \in BOOLEAN
    PROVE  LET y == [x EXCEPT !.stack[i].resched = v] IN
           /\ Calm(x, y) /\ y.k = x.k /\ y.alarm = x.alarm
           /\ \A j \in 1..Len(x.stack) : x.stack[j].f = "release" =>
                 y.stack[j].f = "release" /\ y.stack[j].alarm = x.stack[j].alarm
<1> DEFINE y == [x EXCEPT !.stack[i].resched = v]
<1>1. /\ Len(y.stack) = Len(x.stack) /\ y.alarm = x.alarm /\ y.k = x.k
      /\ \A j \in 1..Len(x.stack) : y.stack[j].f = x.stack[j].f
  BY MarkKeeps
<1>2. x \in State /\ x.stack \in Seq(Frame) /\ Len(x.stack) \in Nat
  BY LenProperties DEF Inv, Kept, State
<1>3. y.stack = [x.stack EXCEPT ![i].resched = v]
  BY <1>2 DEF State
<1> HIDE DEF y
<1>4. ASSUME NEW j \in 1..Len(x.stack), x.stack[j].f = "release"
      PROVE  y.stack[j].alarm = x.stack[j].alarm
  <2>1. FrameOK(x.stack[j], Now(x))
    BY DEF Inv, Kept
  <2> DEFINE g == [x.stack[j] EXCEPT !.resched = v]
  <2>2. j = i => g.alarm = x.stack[j].alarm
    BY <1>4, <2>1, MarkFrame
  <2>3. y.stack[j] = IF j = i THEN g ELSE x.stack[j]
    BY <1>2, <1>3
  <2> QED
    BY <2>2, <2>3
<1>5. ASSUME NEW a, Waking(x.stack, a) PROVE Waking(y.stack, a)
  BY <1>1, <1>4, <1>5 DEF Waking
<1> QED
  BY <1>1, <1>4, <1>5 DEF Calm, Drained, y

\* A return value is counted.
LEMMA CountCalm ==
    ASSUME NEW x, Inv(x), NEW b \in BOOLEAN
    PROVE  Calm(x, count(x, b)) /\ count(x, b).k = x.k /\ count(x, b).alarm = x.alarm
<1> DEFINE v == x.stack[1].resched \/ b
<1>1. count(x, b) = [x EXCEPT !.stack[1].resched = v]
  BY DEF count
<1>2. v \in BOOLEAN
  OBVIOUS
<1> HIDE DEF v
<1> QED
  BY <1>1, <1>2, MarkCalm

\* A change of one alarm, and of the list.
LEMMA AlarmCalm ==
    ASSUME NEW x, NEW y, NEW a \in Alarm, x \in State, y.k = x.k,
           \A b \in Alarm \ {a} : y.alarm[b] = x.alarm[b],
           Awaited(x.alarm[a]) => Awaited(y.alarm[a]),
           a = RRAlarm => y.alarm[a].thread = x.alarm[a].thread,
           a # RRAlarm => y.alarm[a].alarm.action # "rr",
           \A b \in Alarm : Waking(x.stack, b) => Waking(y.stack, b)
    PROVE  Calm(x, y)
<1>1. RRAlarm \in Alarm
  BY AlarmsAssumption
<1>2. ASSUME RRFree(x.alarm) PROVE RRFree(y.alarm)
  <2>1. y.alarm[RRAlarm].thread = NULL
    BY <1>1, <1>2 DEF RRFree
  <2>2. ASSUME NEW b \in Alarm, y.alarm[b].alarm.action = "rr" PROVE b = RRAlarm
    BY <1>2, <2>2 DEF RRFree
  <2> QED
    BY <2>1, <2>2 DEF RRFree
<1>3. \A b \in Alarm : Awaited(x.alarm[b]) => Awaited(y.alarm[b])
  OBVIOUS
<1> QED
  BY <1>2, <1>3 DEF Calm, Drained

\* k_alarm_add: the alarm is active from now on if it has an expiration time.
LEMMA AddCalm ==
    ASSUME NEW x \in State, NEW a \in Alarm
    PROVE  LET y == k_alarm_add(x, a)
               v == x.alarm[a].alarm.exp > 0 IN
           /\ y.k = x.k
           /\ \A b \in Alarm : y.alarm[b] = IF b = a THEN [x.alarm[a] EXCEPT !.active = v]
                                            ELSE x.alarm[b]
           /\ \A b : Waking(x.stack, b) => Waking(y.stack, b)
<1> DEFINE v == x.alarm[a].alarm.exp > 0
           z == [x.alarm[a] EXCEPT !.active = v]
           g == [x EXCEPT !.alarm[a].active = v]
           h == IF v THEN list_sort_add(g, a) ELSE g
           fr == [f |-> "added", alarm |-> a, resched |-> FALSE]
           m == push(h, fr)
           fe == [f |-> "expire", now |-> Now(m), resched |-> FALSE]
           s1 == <<fr>> \o x.stack
           s2 == <<fe>> \o s1
           y == k_alarm_add(x, a)
<1>1. /\ x.stack \in Seq(Frame) /\ x.alarm \in [Alarm -> KAlarm] /\ x.clock \in ClockState
      /\ fr \in Frame /\ v \in BOOLEAN
  BY DEF State, Frame
<1>2. y = push(m, fe)
  BY DEF k_alarm_add, k_schedule_alarms
<1> HIDE DEF v
<1>3. /\ g.alarm = [x.alarm EXCEPT ![a] = z] /\ g.stack = x.stack /\ g.k = x.k
      /\ g.clock = x.clock /\ g \in State
  <2>1. z \in KAlarm
    BY <1>1 DEF KAlarm
  <2>2. g = [x EXCEPT !.alarm[a] = z]
    OBVIOUS
  <2> HIDE DEF z, g
  <2> QED
    BY <2>1, <2>2 DEF State
<1> HIDE DEF g, z
<1>4. PICK l : h = [g EXCEPT !.list = l]
  <2>1. CASE v
    BY <2>1 DEF list_sort_add
  <2>2. CASE ~v
    <3>1. h = g
      BY <2>2
    <3>2. g = [g EXCEPT !.list = g.list]
      BY <1>3 DEF State
    <3> HIDE DEF h
    <3> QED
      BY <3>1, <3>2
  <2> QED
    BY <2>1, <2>2
<1> HIDE DEF h
<1>5. /\ h.alarm = g.alarm /\ h.stack = g.stack /\ h.k = g.k /\ h.clock = g.clock
      /\ \A t : LET n == [h EXCEPT !.stack = t] IN
           /\ n.alarm = g.alarm /\ n.stack = t /\ n.k = g.k /\ n.clock = g.clock
           /\ \A w : LET o == [n EXCEPT !.stack = w] IN
                        o.alarm = g.alarm /\ o.stack = w /\ o.k = g.k
  BY <1>3, <1>4 DEF State
<1>6. m = [h EXCEPT !.stack = s1]
  BY <1>3, <1>5 DEF push
<1>7. m.clock = x.clock /\ m.stack = s1
  <2> HIDE DEF m, s1, fe
  <2> QED
    BY <1>3, <1>5, <1>6
<1>8. fe \in Frame
  <2>1. Now(m) \in Int
    BY <1>1, <1>7 DEF Now, arch_get_time, ClockState
  <2> QED
    BY <2>1 DEF Frame
<1> HIDE DEF fr, fe, m
<1>9. y = [m EXCEPT !.stack = s2]
  BY <1>2, <1>7 DEF push
<1>10. y.alarm = g.alarm /\ y.stack = s2 /\ y.k = g.k
  BY <1>5, <1>6, <1>9
<1>11. s1 \in Seq(Frame) /\ \A b : Waking(x.stack, b) => Waking(s1, b)
  <2>1. <<fr>> \in Seq(Frame)
    BY <1>1
  <2> QED
    BY <1>1, <2>1, PushFrames, ConcatProperties
<1> HIDE DEF s1
<1>12. \A b : Waking(s1, b) => Waking(s2, b)
  BY <1>8, <1>11, PushFrames
<1> HIDE DEF s2, y
<1>13. \A b \in Alarm : y.alarm[b] = IF b = a THEN z ELSE x.alarm[b]
  BY <1>1, <1>3, <1>10
<1>14. y.k = x.k /\ \A b : Waking(x.stack, b) => Waking(y.stack, b)
  BY <1>3, <1>10, <1>11, <1>12
<1> QED
  BY <1>13, <1>14 DEF y, v, z

\* k_alarm_set: an alarm whose time does not change stays as it was, another one is
\* active if it has a time.
LEMMA SetCalm ==
    ASSUME NEW x \in State, NEW a \in Alarm, x.alarm[a].live, NEW new \in AlarmData,
           a # RRAlarm => new.action # "rr"
    PROVE  Calm(x, k_alarm_set(x, a, new))
<1> DEFINE z == [x.alarm[a] EXCEPT !.alarm = new]
           g == [x EXCEPT !.alarm[a].alarm = new]
           y == k_alarm_set(x, a, new)
<1>1. x.alarm[a] \in KAlarm
  BY DEF State
<1>2. /\ z \in KAlarm /\ z.active = x.alarm[a].active /\ z.alarm = new
      /\ z.thread = x.alarm[a].thread /\ z.live = x.alarm[a].live
  BY <1>1 DEF KAlarm
<1>3. g = [x EXCEPT !.alarm[a] = z]
  OBVIOUS
<1> HIDE DEF z, g
<1>4. /\ g \in State /\ g.stack = x.stack /\ g.k = x.k
      /\ \A b \in Alarm : g.alarm[b] = IF b = a THEN z ELSE x.alarm[b]
  BY <1>1, <1>2, <1>3, ChangeAlarm
<1>5. CASE x.alarm[a].alarm.exp = new.exp
  <2>1. y = g
    BY <1>5 DEF k_alarm_set, g
  <2>2. Awaited(x.alarm[a]) => Awaited(y.alarm[a])
    BY <1>2, <1>4, <1>5, <2>1 DEF Awaited
  <2> HIDE DEF y
  <2>3. y.alarm[a].thread = x.alarm[a].thread /\ y.alarm[a].alarm = new
    BY <1>2, <1>4, <2>1
  <2>4. \A b \in Alarm \ {a} : y.alarm[b] = x.alarm[b]
    BY <1>4, <2>1
  <2>5. Calm(x, y)
    BY <1>4, <2>1, <2>2, <2>3, <2>4, AlarmCalm
  <2> QED
    BY <2>5 DEF y
<1>6. CASE x.alarm[a].alarm.exp # new.exp
  <2> DEFINE l == list_remove(x, a).list
             h == [g EXCEPT !.list = l]
             v == new.exp > 0
  <2>1. y = k_alarm_add(h, a)
    BY <1>6 DEF k_alarm_set, g
  <2>2. l \in Seq(Alarm)
    <3>1. x.list \in Seq(Alarm)
      BY DEF State
    <3>2. CASE x.alarm[a].active
      <4>1. l = RemoveFirst(x.list, a)
        BY <3>2 DEF list_remove, State
      <4> QED
        BY <3>1, <4>1, RemoveFirstKeeps
    <3>3. CASE ~x.alarm[a].active
      BY <3>1, <3>3 DEF list_remove
    <3> QED
      BY <3>2, <3>3
  <2> HIDE DEF l
  <2>3. h \in State /\ h.alarm = g.alarm /\ h.stack = x.stack /\ h.k = x.k
    BY <1>4, <2>2 DEF State
  <2> HIDE DEF h, y
  <2>4. h.alarm[a] = z /\ h.alarm[a].alarm.exp = new.exp
    BY <1>2, <1>4, <2>3
  <2>5. /\ y.k = h.k
        /\ \A b \in Alarm : y.alarm[b] = IF b = a THEN [z EXCEPT !.active = v] ELSE h.alarm[b]
        /\ \A b : Waking(h.stack, b) => Waking(y.stack, b)
    BY <2>1, <2>3, <2>4, AddCalm
  <2>6. /\ y.alarm[a].active = v /\ y.alarm[a].live = x.alarm[a].live
        /\ y.alarm[a].alarm = new /\ y.alarm[a].thread = x.alarm[a].thread
    <3>1. y.alarm[a] = [z EXCEPT !.active = v]
      BY <2>5
    <3> HIDE DEF v
    <3> QED
      BY <1>2, <3>1 DEF KAlarm
  <2>7. new.exp \in Int
    BY DEF AlarmData
  <2>8. Awaited(y.alarm[a])
    <3>1. y.alarm[a].active \/ y.alarm[a].alarm.exp <= 0
      <4>1. CASE v
        BY <2>6, <4>1
      <4>2. CASE ~v
        BY <2>6, <2>7, <4>2
      <4> QED
        BY <4>1, <4>2
    <3> QED
      BY <2>6, <3>1 DEF Awaited
  <2>9. \A b \in Alarm \ {a} : y.alarm[b] = x.alarm[b]
    BY <1>4, <2>3, <2>5
  <2> HIDE DEF v
  <2>10. \A b : Waking(x.stack, b) => Waking(y.stack, b)
    BY <2>3, <2>5
  <2>11. y.k = x.k
    BY <2>3, <2>5
  <2>12. Calm(x, y)
    BY <2>6, <2>8, <2>9, <2>10, <2>11, AlarmCalm
  <2> QED
    BY <2>12 DEF y
<1> QED
  BY <1>5, <1>6

\* A change of scheduling data alone.
LEMMA SchedCalm ==
    ASSUME NEW x \in State, NEW kk, NEW sc, NEW T, Drained(x.k, kk)
    PROVE  Calm(x, [x EXCEPT !.k = kk, !.sched = sc, !.torn = T])
<1> DEFINE y == [x EXCEPT !.k = kk, !.sched = sc, !.torn = T]
<1>1. y.k = kk /\ y.alarm = x.alarm /\ y.stack = x.stack
  BY DEF State
<1> HIDE DEF y
<1>2. Calm(x, y)
  BY <1>1, CalmSame
<1> QED
  BY <1>2 DEF y

\* The start of a slice sets the alarm of round robin, on which nobody sleeps.
LEMMA ActivateRRCalm ==
    ASSUME NEW x, Inv(x), NEW t \in Thread
    PROVE  Calm(x, rr_thread_activate(x, t))
<1> DEFINE rest == x.sched[t].remainder
           full == IF rest <= RR_THRESHOLD THEN rest + x.slice ELSE rest
           end == Now(x) + full
           T == IF x.clock.pending THEN x.torn \cup {t} ELSE x.torn
           z == [x.sched[t] EXCEPT !.remainder = full, !.slice_end = end]
           sc == [x.sched EXCEPT ![t] = z]
           g == [x EXCEPT !.sched[t].remainder = full, !.sched[t].slice_end = end, !.torn = T]
           y == [x EXCEPT !.k = x.k, !.sched = sc, !.torn = T]
           new == alarm_t(end, 0, FALSE, "rr", t)
<1>1. /\ x \in State /\ x.sched \in [Thread -> SchedData] /\ x.torn \subseteq Thread
      /\ x.slice \in Nat /\ Now(x) \in Int /\ Runs(x.k, NULL)
  BY NowType DEF Inv, Kept, State
<1>2. full \in Int /\ end \in Int
  <2>1. rest \in Int
    BY <1>1 DEF SchedData
  <2> HIDE DEF rest
  <2> QED
    BY <1>1, <2>1
<1>3. T \in SUBSET Thread
  BY <1>1
<1>4. rr_thread_activate(x, t) = k_alarm_set(g, RRAlarm, new)
  BY DEF rr_thread_activate
<1> HIDE DEF full, end, T
<1>5. z \in SchedData /\ sc \in [Thread -> SchedData]
  BY <1>1, <1>2 DEF SchedData
<1>6. g = y
  BY <1>1 DEF State
<1> HIDE DEF g, z, sc
<1>7. Inv(y)
  BY <1>1, <1>3, <1>5, SchedKeeps
<1>8. Calm(x, y)
  BY <1>1, SchedCalm DEF Drained
<1> HIDE DEF y
<1>9. y \in State /\ RRAlarm \in Alarm /\ y.alarm[RRAlarm].live
  BY <1>7, AlarmsAssumption DEF Inv, Kept, Owned
<1>10. new \in AlarmData
  BY <1>2 DEF alarm_t, AlarmData
<1> HIDE DEF new
<1>11. Calm(y, k_alarm_set(y, RRAlarm, new))
  BY <1>9, <1>10, SetCalm
<1> QED
  BY <1>4, <1>6, <1>8, <1>11, CalmTrans

\* The thread that becomes active.
LEMMA ActivateThreadCalm ==
    ASSUME NEW x, Inv(x), NEW t \in Thread
    PROVE  Calm(x, ksched_activate_thread(x, t))
<1> DEFINE fr == [f |-> "activated", thr |-> t]
           sc == [x.sched EXCEPT ![t].activated = TRUE]
<1>1. x \in State
  BY DEF Inv, Kept
<1>2. Calm(x, rr_thread_activate(push(x, fr), t))
  <2>1. fr \in Frame /\ fr.f = "activated"
    BY DEF Frame
  <2> HIDE DEF fr
  <2>2. Inv(push(x, fr)) /\ Calm(x, push(x, fr))
    BY <1>1, <2>1, PushKeeps, PushCalm DEF FrameOK
  <2> QED
    BY <2>2, ActivateRRCalm, CalmTrans
<1>3. Calm(x, [x EXCEPT !.sched[t].activated = TRUE])
  <2>1. [x EXCEPT !.sched[t].activated = TRUE] = [x EXCEPT !.k = x.k, !.sched = sc, !.torn = x.torn]
    BY <1>1 DEF State
  <2> HIDE DEF sc
  <2>2. Drained(x.k, x.k)
    BY DEF Drained
  <2>3. Calm(x, [x EXCEPT !.k = x.k, !.sched = sc, !.torn = x.torn])
    BY <1>1, <2>2, SchedCalm
  <2> QED
    BY <2>1, <2>3
<1>4. Calm(x, x)
  BY DEF Calm, Drained
<1> QED
  BY <1>2, <1>3, <1>4 DEF ksched_activate_thread

\* kthreads_schedule puts nobody to sleep.
LEMMA ScheduleCalm ==
    ASSUME NEW x, Inv(x)
    PROVE  Calm(x, schedule(x))
<1> DEFINE curr == x.k.active
           highest == kthread_ready_list_highest(x.k)
           left == ksched_deactivate_thread(x, curr)
           kk == IF left.k.state[curr] = "ACTIVE" THEN kthread_move_to_ready(left.k, curr)
                 ELSE left.k
           next == activate_first(kk, highest)
           torn == IF activating(x, curr) THEN left.torn \cup {curr} ELSE left.torn
<1>1. x \in State /\ Runs(x.k, NULL) /\ x.k \in KState /\ curr \in Thread
  BY DEF Inv, Kept, Runs, KState
<1>2. CASE x.k.state[curr] = "ACTIVE" /\ ~(highest > x.k.prio[curr])
  <2>1. schedule(x) = x
    BY <1>2 DEF schedule
  <2> QED
    BY <2>1 DEF Calm, Drained
<1>3. CASE ~(x.k.state[curr] = "ACTIVE" /\ ~(highest > x.k.prio[curr]))
  <2>1. highest \in Prio /\ x.k.q[ReadyQ(highest)] # <<>>
    BY <1>1, <1>3, HighestReady
  <2>2. schedule(x) = ksched_activate_thread([left EXCEPT !.k = next, !.torn = torn], next.active)
    BY <1>3 DEF schedule
  <2> HIDE DEF highest, curr
  <2>3. PICK kc \in {x.k, kthread_move_to_ready(x.k, curr), kthread_move_to_ready_first(x.k, curr)},
             sc \in [Thread -> SchedData], T \in SUBSET Thread :
                left = [x EXCEPT !.k = kc, !.sched = sc, !.torn = T]
    BY <1>1, DeactivateThread
  <2> HIDE DEF left
  <2>4. left.k = kc /\ left.torn = T
    BY <1>1, <2>3 DEF State
  <2>5. Runs(x.k, curr)
    BY <1>1, RunsAny
  <2>6. Runs(kc, NULL) /\ kc.active = curr /\ kc.q[ReadyQ(highest)] # <<>> /\ Drained(x.k, kc)
    <3>1. CASE kc = x.k
      BY <1>1, <2>1, <3>1 DEF curr, Drained
    <3>2. CASE kc \in {kthread_move_to_ready(x.k, curr), kthread_move_to_ready_first(x.k, curr)}
      <4>1. kc = kthread_move_to_ready(x.k, curr) \/ kc = kthread_move_to_ready_first(x.k, curr)
        BY <3>2
      <4>2. Runs(kc, NULL) /\ kc.active = x.k.active
        BY <1>1, <2>5, <4>1, EitherRuns
      <4>3. \A p \in Prio : x.k.q[ReadyQ(p)] # <<>> => kc.q[ReadyQ(p)] # <<>>
        BY <1>1, <2>5, <4>1, EitherRuns
      <4>4. Drained(x.k, kc)
        BY <1>1, <4>1, ReadyDrained
      <4> QED
        BY <2>1, <4>2, <4>3, <4>4 DEF curr
    <3> QED
      BY <3>1, <3>2
  <2>7. /\ Runs(kk, NULL) /\ kk.active = curr /\ kk.q[ReadyQ(highest)] # <<>>
        /\ Drained(kc, kk)
    <3>1. CASE kc.state[curr] = "ACTIVE"
      <4>1. Runs(kc, curr) /\ kk = kthread_move_to_ready(kc, curr)
        BY <2>4, <2>6, <3>1, RunsAny
      <4>0. kc \in KState
        BY <2>6 DEF Runs
      <4> HIDE DEF kk
      <4>2. /\ Runs(kk, NULL) /\ kk.active = kc.active
            /\ \A p \in Prio : kc.q[ReadyQ(p)] # <<>> => kk.q[ReadyQ(p)] # <<>>
        BY <1>1, <4>1, EitherRuns
      <4>3. Drained(kc, kk)
        BY <4>0, <4>1, ReadyDrained
      <4> QED
        BY <2>1, <2>6, <4>2, <4>3
    <3>2. CASE kc.state[curr] # "ACTIVE"
      BY <2>4, <2>6, <3>2 DEF Drained
    <3> QED
      BY <3>1, <3>2
  <2>8. kk.state[curr] # "ACTIVE"
    <3>1. CASE kc.state[curr] = "ACTIVE"
      <4>1. Runs(kc, curr) /\ kk = kthread_move_to_ready(kc, curr)
        BY <2>4, <2>6, <3>1, RunsAny
      <4> HIDE DEF kk
      <4>2. kk.state[curr] = "READY"
        BY <1>1, <4>1, EitherRuns
      <4> QED
        BY <4>2
    <3>2. CASE kc.state[curr] # "ACTIVE"
      BY <2>4, <3>2
    <3> QED
      BY <3>1, <3>2
  <2> HIDE DEF kk
  <2>9. IdleReady(kk) /\ kk \in KState
    BY <2>7, <2>8 DEF Runs, IdleReady
  <2>10. Runs(next, NULL) /\ next.active \in Thread
    BY <2>1, <2>7, <2>9, ActivateRuns
  <2>11. Drained(kk, next)
    BY <2>9, ActivateDrained
  <2>12. torn \in SUBSET Thread
    BY <1>1, <2>4
  <2> HIDE DEF next, torn
  <2> DEFINE y == [x EXCEPT !.k = next, !.sched = sc, !.torn = torn]
  <2>13. [left EXCEPT !.k = next, !.torn = torn] = y
    BY <1>1, <2>3 DEF State
  <2>14. Drained(x.k, next)
    BY <2>6, <2>7, <2>11 DEF Drained
  <2>15. Inv(y) /\ Calm(x, y)
    BY <1>1, <2>10, <2>12, <2>14, SchedKeeps, SchedCalm
  <2> HIDE DEF y
  <2>16. Calm(y, ksched_activate_thread(y, next.active))
    BY <2>10, <2>15, ActivateThreadCalm
  <2> QED
    BY <2>2, <2>13, <2>15, <2>16, CalmTrans
<1> QED
  BY <1>2, <1>3

\* A change of the scheduling state alone, and a choice of the active thread after it.
LEMMA ScheduleAfterCalm ==
    ASSUME NEW x, Inv(x), NEW kk, Runs(kk, NULL), Drained(x.k, kk)
    PROVE  Calm(x, [x EXCEPT !.k = kk]) /\ Calm(x, schedule([x EXCEPT !.k = kk]))
<1> DEFINE y == [x EXCEPT !.k = kk]
<1>1. x \in State
  BY DEF Inv, Kept
<1>2. y.k = kk /\ y.alarm = x.alarm /\ y.stack = x.stack
  BY <1>1 DEF State
<1>3. Inv(y)
  BY ScheduleAfter
<1> HIDE DEF y
<1>4. Calm(x, y)
  BY <1>2, CalmSame
<1>5. Calm(y, schedule(y))
  BY <1>3, ScheduleCalm
<1>6. Calm(x, schedule(y))
  BY <1>4, <1>5, CalmTrans
<1> QED
  BY <1>4, <1>6 DEF y

\* The end of a time slice.
LEMMA RRTimerCalm ==
    ASSUME NEW x, Inv(x), NEW t
    PROVE  Calm(x, rr_timer(x, t))
<1>1. x \in State /\ Runs(x.k, NULL) /\ x.k.active \in Thread /\ x.sched \in [Thread -> SchedData]
      /\ x.torn \in SUBSET Thread /\ x.k \in KState
  BY DEF Inv, Kept, Runs, KState, State
<1>2. CASE x.k.active # t
  BY <1>2 DEF rr_timer, Calm, Drained
<1>3. CASE x.k.active = t
  <2> DEFINE kk == kthread_move_to_ready(x.k, t)
             sc == [x.sched EXCEPT ![t] = [x.sched[t] EXCEPT !.remainder = 0]]
             y == [x EXCEPT !.sched[t].remainder = 0, !.k = kk]
  <2>1. t \in Thread /\ Runs(x.k, t)
    BY <1>1, <1>3, RunsAny
  <2>2. Runs(kk, NULL) /\ Drained(x.k, kk)
    BY <1>1, <2>1, ReadyRuns, ReadyDrained
  <2>3. sc \in [Thread -> SchedData]
    BY <1>1, <2>1 DEF SchedData
  <2>4. rr_timer(x, t) = schedule(y)
    BY <1>3 DEF rr_timer
  <2> HIDE DEF kk
  <2>5. y = [x EXCEPT !.k = kk, !.sched = sc, !.torn = x.torn]
    BY <1>1 DEF State
  <2> HIDE DEF y, sc
  <2>6. Inv(y) /\ Calm(x, y)
    BY <1>1, <2>2, <2>3, <2>5, SchedKeeps, SchedCalm
  <2> QED
    BY <2>4, <2>6, ScheduleCalm, CalmTrans
<1> QED
  BY <1>2, <1>3

\* Asleep, but for the sleepers on alarm a, which are about to be released.
AsleepBut(x, a) ==
    /\ RRFree(x.alarm)
    /\ \A b \in Alarm : x.k.q[AlarmQ(b)] # <<>> =>
          b # RRAlarm /\ (b = a \/ Awaited(x.alarm[b]) \/ Waking(x.stack, b))

\* Other calls may come between.
LEMMA CalmBut ==
    ASSUME NEW x, NEW y, NEW a, AsleepBut(x, a), Calm(x, y)
    PROVE  AsleepBut(y, a)
  BY DEF AsleepBut, Calm, Drained

\* kthreadq_release_all leaves no sleeper without a release to come.
LEMMA ReleaseCalledAsleep ==
    ASSUME NEW x \in State, NEW a \in Alarm, AsleepBut(x, a)
    PROVE  Asleep(kthreadq_release_all(x, a))
<1>1. CASE x.k.q[AlarmQ(a)] = <<>>
  <2>1. kthreadq_release_all(x, a) = x
    BY <1>1 DEF kthreadq_release_all
  <2> QED
    BY <1>1, <2>1 DEF Asleep, AsleepBut
<1>2. CASE x.k.q[AlarmQ(a)] # <<>>
  <2> DEFINE fr == [f |-> "release", alarm |-> a]
             y == push(x, fr)
  <2>1. fr \in Frame /\ fr.f = "release" /\ fr.alarm = a
    BY DEF Frame
  <2>2. kthreadq_release_all(x, a) = y
    BY <1>2 DEF kthreadq_release_all
  <2> HIDE DEF fr
  <2>3. Calm(x, y) /\ Waking(y.stack, a)
    BY <2>1, PushCalm
  <2> HIDE DEF y
  <2>4. AsleepBut(y, a)
    BY <2>3, CalmBut
  <2> QED
    BY <2>2, <2>3, <2>4 DEF Asleep, AsleepBut
<1> QED
  BY <1>1, <1>2

\* The loop of k_schedule_alarms takes the first alarm out, or gives it a new time.
LEMMA TakeFirstAsleep ==
    ASSUME NEW x, Inv(x), Asleep(x), Busy(x.stack), x.list # <<>>
    PROVE  /\ AsleepBut(take_first(x), Head(x.list))
           /\ take_first(x).alarm[Head(x.list)].alarm.action = x.alarm[Head(x.list)].alarm.action
<1> DEFINE a == Head(x.list)
           y == take_first(x)
           g == [x EXCEPT !.list = Tail(@)]
<1>1. x \in State /\ x.list \in Seq(Alarm) /\ x.alarm \in [Alarm -> KAlarm]
  BY DEF Inv, Kept, State
<1>2. a \in Alarm /\ x.alarm[a] \in KAlarm
  BY <1>1, TailMember
<1>3. y.k = x.k /\ y.stack = x.stack /\ \A b \in Alarm : y.alarm[b].thread = x.alarm[b].thread
  BY TakeFirst
<1> HIDE DEF a
<1>4. g.alarm = x.alarm
  BY <1>1 DEF State
<1>5. \E z : /\ y.alarm = [x.alarm EXCEPT ![a] = z]
             /\ z.alarm.action = x.alarm[a].alarm.action
  <2>1. CASE x.alarm[a].alarm.period > 0
    <3> DEFINE e == x.alarm[a].alarm.exp + x.alarm[a].alarm.period
               z == [x.alarm[a] EXCEPT !.alarm.exp = e]
               h == [g EXCEPT !.alarm[a].alarm.exp = e]
    <3>1. y = list_sort_add(h, a)
      BY <1>4, <2>1 DEF take_first, a
    <3>2. z.alarm.action = x.alarm[a].alarm.action
      <4> HIDE DEF e
      <4> QED
        BY <1>2 DEF KAlarm, AlarmData
    <3>3. h.alarm = [x.alarm EXCEPT ![a] = z]
      BY <1>1, <1>2, <1>4 DEF State
    <3> HIDE DEF z
    <3>4. y.alarm = h.alarm
      <4>1. \A l : [h EXCEPT !.list = l].alarm = h.alarm
        <5>1. \A l : [[x EXCEPT !.list = Tail(@), !.alarm[a].alarm.exp = e] EXCEPT !.list = l].alarm
                     = [x EXCEPT !.list = Tail(@), !.alarm[a].alarm.exp = e].alarm
          BY <1>1 DEF State
        <5>2. h = [x EXCEPT !.list = Tail(@), !.alarm[a].alarm.exp = e]
          OBVIOUS
        <5> QED
          BY <5>1, <5>2
      <4> HIDE DEF h
      <4> QED
        BY <3>1, <4>1 DEF list_sort_add
    <3> QED
      BY <3>2, <3>3, <3>4
  <2>2. CASE ~(x.alarm[a].alarm.period > 0)
    <3> DEFINE z == [x.alarm[a] EXCEPT !.active = FALSE]
    <3>1. y = [g EXCEPT !.alarm[a].active = FALSE]
      BY <2>2 DEF take_first, a
    <3>2. z.alarm.action = x.alarm[a].alarm.action
      BY <1>2 DEF KAlarm
    <3>3. y.alarm = [x.alarm EXCEPT ![a] = z]
      BY <1>1, <1>2, <1>4, <3>1 DEF State
    <3> QED
      BY <3>2, <3>3
  <2> QED
    BY <2>1, <2>2
<1> HIDE DEF y, g
<1>6. /\ \A b \in Alarm \ {a} : y.alarm[b] = x.alarm[b]
      /\ y.alarm[a].alarm.action = x.alarm[a].alarm.action
  BY <1>1, <1>2, <1>5
<1>7. RRFree(y.alarm)
  BY <1>3, <1>6, AlarmsAssumption DEF Asleep, RRFree
<1>8. AsleepBut(y, a)
  BY <1>3, <1>6, <1>7 DEF Asleep, AsleepBut
<1> QED
  BY <1>6, <1>8 DEF y, a

\* A thread is created for the action of an alarm.
LEMMA CreateCalm ==
    ASSUME NEW x, Inv(x), NEW a \in Alarm, x.alarm[a].thread \in Program, spare(x) # {}
    PROVE  Calm(x, kthread_create(x, a))
<1> DEFINE t == CHOOSE u \in spare(x) : TRUE
           p == at_most(x.k.prio[x.alarm[a].thread] + 1, PRIO_LEVELS - 1)
           m == [x.k EXCEPT !.prio[t] = p]
           kk == kthread_move_to_ready(m, t)
           sc == [x.sched EXCEPT ![t] = [x.sched[t] EXCEPT !.policy = "FIFO", !.activated = FALSE]]
           y == kthread_create(x, a)
<1>1. x \in State /\ x.k \in KState
  BY DEF Inv, Kept, Runs
<1>2. p \in Prio
  <2>1. x.k.prio[x.alarm[a].thread] \in Prio
    BY <1>1, AlarmsAssumption DEF KState
  <2> QED
    BY <2>1, KThreadsAssumption DEF at_most, Prio
<1>3. y = [x EXCEPT !.k = kk, !.sched[t] = [@ EXCEPT !.policy = "FIFO", !.activated = FALSE]]
  BY DEF kthread_create
<1> HIDE DEF t, p
<1>4. m \in KState /\ Drained(x.k, m)
  BY <1>1, <1>2 DEF KState, Drained
<1> HIDE DEF m
<1>5. Drained(m, kk)
  BY <1>4, ReadyDrained
<1> HIDE DEF kk
<1>6. Drained(x.k, kk)
  BY <1>4, <1>5 DEF Drained
<1>7. y = [x EXCEPT !.k = kk, !.sched = sc, !.torn = x.torn]
  BY <1>1, <1>3 DEF State
<1> HIDE DEF sc, y
<1>8. Calm(x, [x EXCEPT !.k = kk, !.sched = sc, !.torn = x.torn])
  BY <1>1, <1>6, SchedCalm
<1>9. Calm(x, y)
  BY <1>7, <1>8
<1> QED
  BY <1>9 DEF y

\* One turn of the loop of k_schedule_alarms: whoever sleeps on the alarm that has
\* expired is released.
LEMMA ExpireNextAsleep ==
    ASSUME Inv(s), Asleep(s), expire_next
    PROVE  Asleep(s')
<1> DEFINE a == Head(s.list)
           g == take_first(s)
           action == s.alarm[a].alarm.action
<1>1. s.stack # <<>> /\ Head(s.stack).f = "expire" /\ s.list # <<>>
  BY DEF expire_next, In, top, expired
<1>2. Busy(s.stack)
  BY <1>1, TopFrame
<1>3. Inv(g) /\ g.k = s.k /\ \A b \in Alarm : g.alarm[b].thread = s.alarm[b].thread
  BY <1>1, <1>2, TakeFirst
<1>4. a \in Alarm
  <2>1. s.list \in Seq(Alarm)
    BY DEF Inv, Kept, State
  <2> QED
    BY <1>1, <2>1, TailMember
<1>5. \/ action = "none" /\ s' = kthreadq_release_all(g, a)
      \/ action = "thread" /\ spare(s) # {} /\ s' = kthreadq_release_all(count(kthread_create(g, a), TRUE), a)
      \/ action = "thread" /\ spare(s) = {} /\ s' = push(g, [f |-> "halted"])
      \/ action = "rr" /\ s' = rr_timer(g, s.alarm[a].alarm.param)
  BY DEF expire_next
<1>6. action = "thread" => g.alarm[a].thread \in Program
  BY <1>3, <1>4 DEF Inv, Kept, Owned
<1>7. spare(g) = spare(s)
  BY <1>3 DEF spare
<1>8. AsleepBut(g, a) /\ g \in State
  BY <1>1, <1>2, <1>3, TakeFirstAsleep DEF Inv, Kept
<1>9. action = "rr" => a = RRAlarm
  BY <1>4 DEF Asleep, RRFree
<1> HIDE DEF a, g, action
<1>10. CASE action = "none" /\ s' = kthreadq_release_all(g, a)
  BY <1>4, <1>8, <1>10, ReleaseCalledAsleep
<1>11. CASE action = "thread" /\ spare(s) # {} /\ s' = kthreadq_release_all(count(kthread_create(g, a), TRUE), a)
  <2> DEFINE c == kthread_create(g, a)
             v == TRUE
             n == count(c, v)
  <2>1. Inv(c) /\ Calm(g, c)
    BY <1>3, <1>4, <1>6, <1>7, <1>11, CreateKeeps, CreateCalm
  <2>2. v \in BOOLEAN
    OBVIOUS
  <2>3. s' = kthreadq_release_all(n, a)
    BY <1>11
  <2> HIDE DEF c, v
  <2>4. Inv(n) /\ Calm(c, n)
    BY <2>1, <2>2, CountKeeps, CountCalm
  <2> HIDE DEF n
  <2>5. AsleepBut(n, a) /\ n \in State
    BY <1>8, <2>1, <2>4, CalmBut DEF Inv, Kept
  <2> QED
    BY <1>4, <2>3, <2>5, ReleaseCalledAsleep
<1>12. CASE action = "thread" /\ spare(s) = {} /\ s' = push(g, [f |-> "halted"])
  <2> DEFINE fr == [f |-> "halted"]
             y == push(g, fr)
  <2>1. fr \in Frame /\ fr.f = "halted"
    BY DEF Frame
  <2>2. s' = y
    BY <1>12
  <2> HIDE DEF fr
  <2>3. Calm(g, y) /\ \A b : Waking(y.stack, b)
    BY <1>8, <2>1, PushCalm
  <2> HIDE DEF y
  <2>4. AsleepBut(y, a)
    BY <1>8, <2>3, CalmBut
  <2> QED
    BY <2>2, <2>3, <2>4 DEF Asleep, AsleepBut
<1>13. CASE action = "rr" /\ s' = rr_timer(g, s.alarm[a].alarm.param)
  <2>1. Asleep(g)
    BY <1>8, <1>9, <1>13 DEF Asleep, AsleepBut
  <2> QED
    BY <1>3, <1>13, <2>1, RRTimerCalm, CalmAsleep
<1> QED
  BY <1>5, <1>10, <1>11, <1>12, <1>13

\* One turn of the loop of kthreadq_release_all: it ends when nobody sleeps any more.
LEMMA ReleaseNextAsleep ==
    ASSUME Inv(s), Asleep(s), release_next
    PROVE  Asleep(s')
<1> DEFINE a == top.alarm
           kk == kthreadq_release(s.k, AlarmQ(a))
           v == TRUE
           h == [s EXCEPT !.k = kk]
           y == [h EXCEPT !.stack[2].resched = v]
           g == [s EXCEPT !.k = kthreadq_release(@, AlarmQ(a)), !.stack[2].resched = TRUE]
<1>1. s.stack # <<>> /\ Head(s.stack).f = "release" /\ top = Head(s.stack)
  BY DEF release_next, In, top
<1>2. /\ Head(s.stack) = s.stack[1] /\ 1 \in 1..Len(s.stack)
      /\ a \in Alarm /\ Len(s.stack) \in Nat
  BY <1>1, TopFrame, FrameFields
<1>3. AlarmQ(a) \in WaitQ
  BY <1>2, AlarmsAssumption
<1>4. s.k \in KState /\ Runs(s.k, NULL)
  BY DEF Inv, Kept, Runs
<1>5. Runs(kk, NULL) /\ Drained(s.k, kk)
  BY <1>3, <1>4, ReleaseRuns, ReleaseDrained
<1>6. s' = IF g.k.q[AlarmQ(a)] = <<>> THEN pop(g) ELSE g
  BY DEF release_next
<1>7. g = y /\ h.stack = s.stack
  BY DEF Inv, Kept, State
<1>0. v \in BOOLEAN /\ s.stack[1].alarm = a
  BY <1>1, <1>2
<1> HIDE DEF kk, a
<1>8. Inv(h) /\ Calm(s, h)
  BY <1>5, ScheduleAfter, ScheduleAfterCalm
<1> HIDE DEF g, h, v
<1>9. /\ Inv(y) /\ Calm(h, y) /\ Len(y.stack) = Len(h.stack)
      /\ \A j \in 1..Len(h.stack) : h.stack[j].f = "release" =>
            y.stack[j].f = "release" /\ y.stack[j].alarm = h.stack[j].alarm
  BY <1>0, <1>8, MarkKeeps, MarkCalm
<1> HIDE DEF y
<1>10. y.stack[1].f = "release" /\ y.stack[1].alarm = a /\ y.stack # <<>> /\ y \in State
  BY <1>0, <1>1, <1>2, <1>7, <1>9 DEF Inv, Kept
<1>11. Asleep(y)
  BY <1>8, <1>9, CalmTrans, CalmAsleep
<1>12. CASE y.k.q[AlarmQ(a)] = <<>>
  <2>1. Head(y.stack) = y.stack[1]
    BY <1>9, <1>10, TopFrame
  <2>2. /\ pop(y).k = y.k /\ pop(y).alarm = y.alarm
        /\ \A b : Waking(y.stack, b) /\ b # a => Waking(pop(y).stack, b)
    BY <1>10, <2>1, PopCalm
  <2>3. s' = pop(y)
    BY <1>6, <1>7, <1>12
  <2> QED
    BY <1>11, <1>12, <2>2, <2>3 DEF Asleep
<1>13. CASE y.k.q[AlarmQ(a)] # <<>>
  BY <1>6, <1>7, <1>11, <1>13
<1> QED
  BY <1>12, <1>13

\* The end of k_schedule_alarms.
LEMMA ExpireDoneAsleep ==
    ASSUME Inv(s), Asleep(s), expire_done
    PROVE  Asleep(s')
<1> DEFINE c == arch_timer_set(s.clock, s.alarm[Head(s.list)].alarm.exp - top.now)
           g == IF s.list = <<>> THEN s ELSE [s EXCEPT !.clock = c]
           y == pop(g)
           v == top.resched
           n == count(y, v)
<1>1. s.stack # <<>> /\ Head(s.stack).f = "expire" /\ top = Head(s.stack) /\ s \in State
  BY DEF expire_done, In, top, Inv, Kept
<1>2. s' = n
  BY DEF expire_done
<1> HIDE DEF c
<1>3. g.alarm = s.alarm /\ g.stack = s.stack /\ g.k = s.k
  BY <1>1 DEF State
<1>4. s.stack \in Seq(Frame) /\ v \in BOOLEAN
  BY <1>1, TopFrame, FrameFields DEF State
<1>5. Tail(s.stack) \in Seq(Frame) /\ \A b : Waking(s.stack, b) => Waking(Tail(s.stack), b)
  <2>1. Head(s.stack).f # "halted" /\ Head(s.stack).f # "release"
    BY <1>1
  <2>2. Calm(s, pop(s)) /\ pop(s).stack = Tail(s.stack)
    BY <1>1, <2>1, PopCalm DEF pop, State
  <2>3. \A b : Waking(s.stack, b) => Waking(pop(s).stack, b)
    BY <1>1, <2>1, PopCalm
  <2> QED
    BY <1>1, <1>4, <2>2, <2>3, TailMember
<1>6. /\ y.alarm = s.alarm /\ y.stack = Tail(s.stack) /\ y.k = s.k
      /\ \A st : [y EXCEPT !.stack = st].alarm = s.alarm /\ [y EXCEPT !.stack = st].k = s.k
                 /\ [y EXCEPT !.stack = st].stack = st
  <2>1. CASE s.list = <<>>
    BY <1>1, <2>1 DEF pop, State
  <2>2. CASE s.list # <<>>
    BY <1>1, <2>2 DEF pop, State
  <2> QED
    BY <2>1, <2>2
<1>7. Inv(n)
  BY <1>2, ExpireDoneKeeps
<1> HIDE DEF g, y, v
<1> DEFINE r == y.stack[1].resched \/ v
           st == [y.stack EXCEPT ![1].resched = r]
<1>8. n = [y EXCEPT !.stack = st]
  BY <1>6 DEF count
<1>9. r \in BOOLEAN
  OBVIOUS
<1> HIDE DEF r
<1>10. \A b : Waking(y.stack, b) => Waking(st, b)
  <2>1. y.stack \in Seq(Frame) /\ Len(y.stack) \in Nat
    BY <1>5, <1>6, LenProperties
  <2>2. Len(st) = Len(y.stack) /\ \A j \in 1..Len(y.stack) :
            st[j] = IF j = 1 THEN [y.stack[1] EXCEPT !.resched = r] ELSE y.stack[j]
    BY <2>1
  <2>3. ASSUME NEW j \in 1..Len(y.stack)
        PROVE  st[j].f = y.stack[j].f /\ (y.stack[j].f = "release" => st[j].alarm = y.stack[j].alarm)
    <3>1. y.stack[j] \in Frame
      BY <2>1, ElementOfSeq
    <3> DEFINE now == IF y.stack[j].f = "expire" THEN y.stack[j].now ELSE 0
               fr == [y.stack[j] EXCEPT !.resched = r]
    <3>2. FrameOK(y.stack[j], now)
      BY <3>1 DEF FrameOK
    <3> HIDE DEF now
    <3>3. fr.f = y.stack[j].f /\ (y.stack[j].f = "release" => fr.alarm = y.stack[j].alarm)
      BY <1>9, <3>2, MarkFrame
    <3> QED
      BY <2>2, <3>3
  <2> HIDE DEF st
  <2> QED
    BY <2>2, <2>3 DEF Waking
<1> HIDE DEF st, n
<1>11. n.alarm = s.alarm /\ n.k = s.k /\ n.stack = st
  BY <1>6, <1>8
<1>12. Calm(s, n)
  BY <1>5, <1>6, <1>10, <1>11 DEF Calm, Drained
<1> QED
  BY <1>2, <1>12, CalmAsleep

\* A thread blocks on an alarm that can still expire.
LEMMA EnqueueAsleep ==
    ASSUME NEW x, Inv(x), Asleep(x), NEW t \in Thread \ {Idle}, NEW a \in Alarm, a # RRAlarm,
           x.alarm[a].active
    PROVE  Asleep(schedule([x EXCEPT !.k = kthread_enqueue(x.k, t, AlarmQ(a))]))
<1> DEFINE kk == kthread_enqueue(x.k, t, AlarmQ(a))
           y == [x EXCEPT !.k = kk]
<1>1. x \in State /\ x.k \in KState /\ Runs(x.k, t) /\ AlarmQ(a) \in WaitQ /\ x.alarm[a].live
  BY RunsAny, AlarmsAssumption DEF Inv, Kept, Runs, Owned
<1>2. \A b \in Alarm \ {a} : kk.q[AlarmQ(b)] = x.k.q[AlarmQ(b)]
  <2> SUFFICES ASSUME NEW b \in Alarm \ {a} PROVE kk.q[AlarmQ(b)] = x.k.q[AlarmQ(b)]
    OBVIOUS
  <2>1. AlarmQ(b)[2] = b /\ AlarmQ(a)[2] = a
    BY DEF AlarmQ
  <2>2. AlarmQ(b) # AlarmQ(a) /\ AlarmQ(b) \in Queue
    BY <2>1, AlarmQueues
  <2> DEFINE r == AlarmQ(a)
             w == Append(x.k.q[r], t)
  <2>3. kk = [x.k EXCEPT !.state[t] = "WAIT", !.queue[t] = r, !.q[r] = w]
    BY DEF kthread_enqueue
  <2> HIDE DEF r, w, kk
  <2>4. kk.q = [x.k.q EXCEPT ![r] = w]
    BY <1>1, <2>3 DEF KState
  <2> QED
    BY <1>1, <2>2, <2>4 DEF KState, r
<1>3. Runs(kk, NULL)
  BY <1>1, EnqueueRuns
<1> HIDE DEF kk
<1>4. Inv(y)
  BY <1>3, ScheduleAfter
<1>5. y.k = kk /\ y.alarm = x.alarm /\ y.stack = x.stack
  BY <1>1 DEF State
<1> HIDE DEF y
<1>6. Asleep(y)
  <2>1. Awaited(x.alarm[a])
    BY <1>1 DEF Awaited
  <2> QED
    BY <1>2, <1>5, <2>1 DEF Asleep
<1>7. Asleep(schedule(y))
  BY <1>4, <1>6, ScheduleCalm, CalmAsleep
<1> QED
  BY <1>7 DEF y, kk

\* The rest of k_alarm_add blocks the creator only on an alarm that has not expired
\* in the meantime.
LEMMA AddedAsleep ==
    ASSUME Inv(s), Asleep(s), added
    PROVE  Asleep(s')
<1> DEFINE i == top.alarm
           a == s.alarm[i]
           block == a.thread # NULL /\ a.active /\ a.alarm.wait
           y == pop(s)
           g == IF block THEN [y EXCEPT !.k = kthread_enqueue(@, a.thread, AlarmQ(i))] ELSE y
<1>1. s.stack # <<>> /\ Head(s.stack).f = "added" /\ top = Head(s.stack) /\ s \in State
  BY DEF added, In, top, Inv, Kept
<1>2. i \in Alarm
  BY <1>1, TopFrame, FrameFields
<1>3. Inv(y) /\ y.k = s.k /\ y.alarm = s.alarm /\ Calm(s, y)
  BY <1>1, PopKeeps, PopCalm
<1>4. s' = IF block \/ top.resched THEN schedule(g) ELSE g
  BY DEF added
<1> HIDE DEF y
<1>5. Asleep(y)
  BY <1>3, CalmAsleep
<1>6. CASE ~block
  <2>1. Asleep(schedule(y))
    BY <1>3, <1>5, ScheduleCalm, CalmAsleep
  <2> QED
    BY <1>4, <1>5, <1>6, <2>1
<1>7. CASE block
  <2>1. a.thread \in Program /\ y.alarm[i].active
    BY <1>1, <1>2, <1>3, <1>7 DEF State, KAlarm
  <2>2. i # RRAlarm
    BY <1>7 DEF Asleep, RRFree
  <2>3. a.thread \in Thread \ {Idle}
    BY <2>1, AlarmsAssumption
  <2>4. s' = schedule([y EXCEPT !.k = kthread_enqueue(y.k, a.thread, AlarmQ(i))])
    BY <1>4, <1>7
  <2> HIDE DEF a, i
  <2> QED
    BY <1>2, <1>3, <1>5, <2>1, <2>2, <2>3, <2>4, EnqueueAsleep
<1> QED
  BY <1>6, <1>7

\* The other returns.
LEMMA ReturnAsleep ==
    ASSUME Inv(s), Asleep(s), reschedule \/ activated \/ set_parameters
    PROVE  Asleep(s')
<1>1. s.stack # <<>> /\ s \in State /\ Head(s.stack).f \in {"resched", "activated", "params"}
  BY DEF reschedule, activated, set_parameters, In, top, Inv, Kept
<1> DEFINE y == pop(s)
<1>2. Inv(y) /\ Calm(s, y)
  BY <1>1, PopKeeps, PopCalm
<1>3. Asleep(y) /\ y \in State
  BY <1>2, CalmAsleep DEF Inv, Kept
<1>4. CASE reschedule
  <2>1. s' = y \/ s' = schedule(y)
    BY <1>4 DEF reschedule
  <2> HIDE DEF y
  <2> QED
    BY <1>2, <1>3, <2>1, ScheduleCalm, CalmAsleep
<1>5. CASE activated \/ set_parameters
  <2>1. (\E sc : s' = [y EXCEPT !.sched = sc]) \/ \E sl : s' = [y EXCEPT !.slice = sl]
    <3>1. CASE activated
      <4>1. s' = [y EXCEPT !.sched[top.thr].activated = TRUE]
        BY <3>1 DEF activated
      <4> HIDE DEF y
      <4> QED
        BY <4>1
    <3>2. CASE set_parameters
      BY <3>2 DEF set_parameters
    <3> QED
      BY <1>5, <3>1, <3>2
  <2> HIDE DEF y
  <2>2. s'.k = y.k /\ s'.alarm = y.alarm /\ s'.stack = y.stack
    BY <1>3, <2>1 DEF State
  <2>3. Calm(y, s')
    BY <2>2 DEF Calm, Drained
  <2> QED
    BY <1>3, <2>3, CalmAsleep
<1> QED
  BY <1>4, <1>5

\* Programs cannot ask for the action of round robin.
LEMMA RequestKind ==
    ASSUME Inv(s), NEW t, NEW new \in Request(t)
    PROVE  new.action # "rr"
<1>1. s.program \in Programs
  BY DEF Inv, Kept, State
<1>2. PICK r \in s.program.requests : new \in alarm_of(t, r)
  BY DEF Request
<1>3. r[3] \in {"none", "thread"}
  BY <1>1, AlarmsAssumption
<1> DEFINE e == IF r[1] = NULL THEN 0 ELSE Now(s) + r[1]
<1>5. PICK wait : new = alarm_t(e, r[2], wait, r[3], NULL)
  BY <1>2 DEF alarm_of
<1> HIDE DEF e
<1>4. new.action = r[3]
  BY <1>5 DEF alarm_t
<1> QED
  BY <1>3, <1>4

\* A new alarm: nobody sleeps on an alarm that does not exist.
LEMMA AlarmNewAsleep ==
    ASSUME Inv(s), Asleep(s), NEW t, NEW a \in UserAlarm, NEW new \in Request(t), sys__alarm_new(t, a, new)
    PROVE  Asleep(s')
<1> DEFINE z == kalarm_t(new, t, TRUE)
           x == [s EXCEPT !.alarm[a] = z]
           v == x.alarm[a].alarm.exp > 0
<1>1. t \in Program /\ ~s.alarm[a].live /\ a \in Alarm /\ a # RRAlarm /\ s.stack = <<>>
  BY DEF sys__alarm_new, User, UserAlarm
<1>2. s' = k_alarm_add(x, a)
  BY DEF sys__alarm_new
<1>3. new \in AlarmData /\ new.action # "rr"
  BY RequestKind, RequestType
<1>4. z \in KAlarm /\ z.alarm = new /\ z.active = FALSE
  BY <1>1, <1>3 DEF kalarm_t, KAlarm
<1>5. s \in State
  BY DEF Inv, Kept
<1> HIDE DEF z
<1>6. /\ x \in State /\ x.stack = s.stack /\ x.k = s.k
      /\ \A b \in Alarm : x.alarm[b] = IF b = a THEN z ELSE s.alarm[b]
  BY <1>1, <1>4, <1>5, ChangeAlarm
<1> HIDE DEF x
<1>7. /\ s'.k = x.k
      /\ \A b \in Alarm : s'.alarm[b] = IF b = a THEN [x.alarm[a] EXCEPT !.active = v] ELSE x.alarm[b]
      /\ \A b : Waking(x.stack, b) => Waking(s'.stack, b)
  BY <1>1, <1>2, <1>6, AddCalm
<1>8. ~Awaited(s.alarm[a])
  BY <1>1 DEF Awaited
<1>9. s'.k = s.k /\ \A b \in Alarm \ {a} : s'.alarm[b] = s.alarm[b]
  BY <1>6, <1>7
<1>10. s'.alarm[a].alarm.action # "rr"
  <2>1. s'.alarm[a] = [z EXCEPT !.active = v]
    BY <1>1, <1>6, <1>7
  <2> HIDE DEF v
  <2>2. s'.alarm[a].alarm = z.alarm
    BY <1>4, <2>1 DEF KAlarm
  <2> QED
    BY <1>3, <1>4, <2>2
<1> HIDE DEF v
<1>11. \A b \in Alarm : Waking(s.stack, b) => Waking(s'.stack, b)
  BY <1>6, <1>7
<1>12. Calm(s, s')
  BY <1>1, <1>5, <1>8, <1>9, <1>10, <1>11, AlarmCalm
<1> QED
  BY <1>12, CalmAsleep

\* A new time for an alarm.
LEMMA AlarmSetAsleep ==
    ASSUME Inv(s), Asleep(s), NEW t, NEW a \in UserAlarm, NEW new \in Request(t), sys__alarm_set(t, a, new)
    PROVE  Asleep(s')
<1>1. s.alarm[a].live /\ a \in Alarm /\ a # RRAlarm /\ s' = k_alarm_set(s, a, new) /\ s \in State
  BY DEF sys__alarm_set, UserAlarm, Inv, Kept
<1>2. new \in AlarmData /\ new.action # "rr"
  BY RequestKind, RequestType
<1> QED
  BY <1>1, <1>2, SetCalm, CalmAsleep

\* An alarm is removed, and whoever sleeps on it released.
LEMMA AlarmRemoveAsleep ==
    ASSUME Inv(s), Asleep(s), NEW t, NEW a \in UserAlarm, sys__alarm_remove(t, a)
    PROVE  Asleep(s')
<1> DEFINE l == list_remove(s, a).list
           z == [s.alarm[a] EXCEPT !.live = FALSE, !.active = FALSE]
           h == [s EXCEPT !.list = l]
           x == [h EXCEPT !.alarm[a] = z]
           fr == [f |-> "resched", resched |-> FALSE]
           m == push(x, fr)
           fe == [f |-> "expire", now |-> Now(m), resched |-> FALSE]
           n == push(m, fe)
<1>1. a \in Alarm /\ a # RRAlarm
  BY DEF UserAlarm
<1>2. s \in State /\ s.list \in Seq(Alarm) /\ s.alarm \in [Alarm -> KAlarm] /\ s.alarm[a] \in KAlarm
  BY <1>1 DEF Inv, Kept, State
<1>3. list_remove(s, a) = h
  BY <1>2 DEF list_remove, State
<1>4. s' = kthreadq_release_all(n, a)
  <2>1. [list_remove(s, a) EXCEPT !.alarm[a].live = FALSE, !.alarm[a].active = FALSE] = x
    <3>1. h.alarm = s.alarm
      BY <1>2 DEF State
    <3>2. x = [h EXCEPT !.alarm[a].live = FALSE, !.alarm[a].active = FALSE]
      BY <1>1, <1>2, <3>1
    <3> QED
      BY <1>3, <3>2
  <2> QED
    BY <2>1 DEF sys__alarm_remove, k_schedule_alarms
<1>5. l \in Seq(Alarm)
  <2>1. CASE s.alarm[a].active
    <3>1. l = RemoveFirst(s.list, a)
      BY <1>2, <2>1 DEF list_remove, State
    <3> QED
      BY <1>2, <3>1, RemoveFirstKeeps
  <2>2. CASE ~s.alarm[a].active
    BY <1>2, <2>2 DEF list_remove
  <2> QED
    BY <2>1, <2>2
<1>6. z \in KAlarm /\ z.alarm = s.alarm[a].alarm /\ z.thread = s.alarm[a].thread
  BY <1>2 DEF KAlarm
<1> HIDE DEF l, z
<1>7. h \in State /\ h.stack = s.stack /\ h.k = s.k /\ h.alarm = s.alarm
  BY <1>2, <1>5 DEF State
<1> HIDE DEF h
<1>8. /\ x \in State /\ x.stack = h.stack /\ x.k = h.k
      /\ \A b \in Alarm : x.alarm[b] = IF b = a THEN z ELSE h.alarm[b]
  BY <1>1, <1>6, <1>7, ChangeAlarm
<1>9. fr \in Frame
  BY DEF Frame
<1> HIDE DEF x, fr
<1>10. RRFree(x.alarm)
  BY <1>1, <1>6, <1>7, <1>8, AlarmsAssumption DEF Asleep, RRFree
<1>11. AsleepBut(x, a)
  BY <1>7, <1>8, <1>10 DEF Asleep, AsleepBut
<1>12. m \in State
  <2>1. /\ s \in State /\ Inv(s)
    BY <1>2
  <2>2. <<fr>> \in Seq(Frame) /\ x.stack \in Seq(Frame)
    BY <1>8, <1>9 DEF State
  <2>3. <<fr>> \o x.stack \in Seq(Frame)
    BY <2>2, ConcatProperties
  <2> DEFINE st == <<fr>> \o x.stack
  <2>4. m = [x EXCEPT !.stack = st]
    BY DEF push
  <2> HIDE DEF st, m
  <2> QED
    BY <1>8, <2>3, <2>4 DEF State, st
<1>13. Calm(x, m)
  BY <1>8, <1>9, PushCalm
<1>14. fe \in Frame
  <2>1. Now(m) \in Int
    BY <1>12, NowType
  <2> QED
    BY <2>1 DEF Frame
<1> HIDE DEF m, fe
<1>15. Calm(m, n)
  BY <1>12, <1>14, PushCalm
<1>16. AsleepBut(n, a)
  BY <1>11, <1>13, <1>15, CalmBut
<1>17. n \in State
  <2>1. <<fe>> \in Seq(Frame) /\ m.stack \in Seq(Frame)
    BY <1>12, <1>14 DEF State
  <2>2. <<fe>> \o m.stack \in Seq(Frame)
    BY <2>1, ConcatProperties
  <2> DEFINE st == <<fe>> \o m.stack
  <2>3. n = [m EXCEPT !.stack = st]
    BY DEF push
  <2> HIDE DEF st, n
  <2> QED
    BY <1>12, <2>2, <2>3 DEF State, st
<1> HIDE DEF n
<1> QED
  BY <1>1, <1>4, <1>16, <1>17, ReleaseCalledAsleep

\* A thread blocks on an alarm.
LEMMA WaitAsleep ==
    ASSUME Inv(s), Asleep(s), NEW t, NEW a \in UserAlarm, sys__wait_for_alarm(t, a)
    PROVE  Asleep(s')
<1>1. /\ t \in Thread \ {Idle} /\ a \in Alarm /\ a # RRAlarm /\ s.alarm[a].active
      /\ s' = schedule([s EXCEPT !.k = kthread_enqueue(@, t, AlarmQ(a))])
  BY AlarmsAssumption DEF sys__wait_for_alarm, User, UserAlarm
<1>2. s' = schedule([s EXCEPT !.k = kthread_enqueue(s.k, t, AlarmQ(a))])
  BY <1>1
<1> QED
  BY <1>1, <1>2, EnqueueAsleep

\* A thread of the program gets another priority, awake or asleep.
LEMMA SetPrioCalm ==
    ASSUME NEW x, Inv(x), NEW t \in Program, NEW p \in Prio
    PROVE  Calm(x, kthread_set_prio(x, t, p))
<1> DEFINE to_ready(kk) == kthread_move_to_ready([kk EXCEPT !.prio[t] = p], t)
           out == clear_if_empty(kthreadq_remove(x.k, t), x.k.prio[t])
<1>1. t \in Thread \ {Idle} /\ Runs(x.k, NULL) /\ x \in State /\ x.k \in KState
  BY AlarmsAssumption DEF Inv, Kept, Runs
<1>2. ASSUME NEW kk, Runs(kk, NULL) PROVE Runs(to_ready(kk), NULL) /\ Drained(kk, to_ready(kk))
  <2> DEFINE m == [kk EXCEPT !.prio[t] = p]
  <2>1. Runs(m, t)
    BY <1>1, <1>2, PrioRuns
  <2>2. m.q = kk.q
    BY <1>2 DEF Runs, KState
  <2> HIDE DEF m
  <2>3. Runs(kthread_move_to_ready(m, t), NULL)
    BY <1>1, <2>1, EitherRuns
  <2>4. Drained(m, kthread_move_to_ready(m, t))
    BY <2>1, ReadyDrained DEF Runs
  <2> QED
    BY <2>2, <2>3, <2>4 DEF m, Drained
<1>3. CASE x.k.state[t] = "ACTIVE"
  <2> DEFINE kk == to_ready(x.k)
  <2>1. Runs(kk, NULL) /\ Drained(x.k, kk)
    BY <1>1, <1>2
  <2>2. kthread_set_prio(x, t, p) = schedule([x EXCEPT !.k = kk])
    BY <1>3 DEF kthread_set_prio
  <2> HIDE DEF kk
  <2> QED
    BY <2>1, <2>2, ScheduleAfterCalm
<1>4. CASE x.k.state[t] = "READY"
  <2> DEFINE kk == to_ready(out)
  <2>1. Runs(out, NULL) /\ Drained(x.k, out)
    BY <1>1, <1>4, RemoveReadyRuns, RemoveDrained
  <2>2. kthread_set_prio(x, t, p) = schedule([x EXCEPT !.k = kk])
    BY <1>4 DEF kthread_set_prio
  <2> HIDE DEF out
  <2>3. Runs(kk, NULL) /\ Drained(out, kk)
    BY <1>2, <2>1
  <2> HIDE DEF kk
  <2>4. Drained(x.k, kk)
    BY <2>1, <2>3 DEF Drained
  <2> QED
    BY <2>2, <2>3, <2>4, ScheduleAfterCalm
<1>5. CASE x.k.state[t] \notin {"ACTIVE", "READY"}
  <2> DEFINE kk == [x.k EXCEPT !.prio[t] = p]
  <2>1. Runs(kk, NULL)
    BY <1>1, <1>5, PrioRuns
  <2>2. kthread_set_prio(x, t, p) = [x EXCEPT !.k = kk]
    BY <1>5 DEF kthread_set_prio
  <2>3. Drained(x.k, kk)
    BY <1>1 DEF Drained, KState
  <2> HIDE DEF kk
  <2> QED
    BY <2>1, <2>2, <2>3, ScheduleAfterCalm
<1> QED
  BY <1>3, <1>4, <1>5

\* A thread changes scheduling parameters.
LEMMA ParamsAsleep ==
    ASSUME Inv(s), Asleep(s), NEW t, NEW c \in s.program.changes,
           sys__set_thread_sched_params(t, c[2], c[3], c[4]) \/ sys__set_sched_params(t, c[4])
    PROVE  Asleep(s')
<1>1. s.program \in Programs /\ s.slice \in Nat /\ s.sched \in [Thread -> SchedData] /\ s \in State
  BY DEF Inv, Kept, State
<1>2. c[2] \in Program /\ c[2] \in Thread /\ c[3] \in Prio /\ c[4] \in Nat
  BY <1>1, AlarmsAssumption
<1>3. CASE sys__set_sched_params(t, c[4])
  <2>1. s' = [s EXCEPT !.slice = c[4]]
    BY <1>3 DEF sys__set_sched_params
  <2>2. s'.k = s.k /\ s'.alarm = s.alarm /\ s'.stack = s.stack
    BY <1>1, <2>1 DEF State
  <2>3. Calm(s, s')
    BY <2>2 DEF Calm, Drained
  <2> QED
    BY <2>3, CalmAsleep
<1>4. CASE sys__set_thread_sched_params(t, c[2], c[3], c[4])
  <2> DEFINE fr == [f |-> "params", slice |-> c[4]]
             g == push(s, fr)
             z == [g.sched[c[2]] EXCEPT !.policy = "RR", !.remainder = s.slice]
             x == [g EXCEPT !.sched[c[2]] = z]
  <2>1. fr \in Frame /\ fr.f = "params"
    BY <1>2 DEF Frame
  <2>2. s' = kthread_set_prio(x, c[2], c[3])
    <3>1. s' = kthread_set_prio([g EXCEPT !.sched[c[2]].policy = "RR", !.sched[c[2]].remainder = s.slice], c[2], c[3])
      BY <1>4 DEF sys__set_thread_sched_params
    <3>2. g \in State
      <4> HIDE DEF fr
      <4> QED
        BY <2>1, PushKeeps DEF FrameOK, Inv, Kept
    <3> HIDE DEF g
    <3>3. [g EXCEPT !.sched[c[2]].policy = "RR", !.sched[c[2]].remainder = s.slice] = x
      BY <1>2, <3>2 DEF State
    <3> QED
      BY <3>1, <3>3
  <2> HIDE DEF fr
  <2>3. Inv(g) /\ Calm(s, g)
    BY <1>1, <2>1, PushKeeps, PushCalm DEF FrameOK
  <2> HIDE DEF g
  <2>4. g.sched[c[2]] \in SchedData /\ g \in State
    BY <1>2, <2>3 DEF Inv, Kept, State
  <2>5. z \in SchedData
    <3>1. s.slice \in Int
      BY <1>1
    <3> QED
      BY <2>4, <3>1 DEF SchedData
  <2> HIDE DEF z
  <2>6. Inv(x)
    BY <1>2, <2>3, <2>5, DataKeeps
  <2>7. x.k = g.k /\ x.alarm = g.alarm /\ x.stack = g.stack
    BY <2>4 DEF State
  <2> HIDE DEF x
  <2>8. Calm(g, x)
    BY <2>7 DEF Calm, Drained
  <2>9. Calm(x, s')
    BY <1>2, <2>2, <2>6, SetPrioCalm
  <2> QED
    BY <2>3, <2>8, <2>9, CalmTrans, CalmAsleep
<1> QED
  BY <1>3, <1>4

\* A thread that ran an action ends.
LEMMA ExitAsleep ==
    ASSUME Inv(s), Asleep(s), NEW t, kthread_exit(t)
    PROVE  Asleep(s')
<1> DEFINE kk == kthread_unlink(s.k, t)
<1>1. Runs(s.k, NULL) /\ s.k \in KState /\ t \in Thread \ {Idle}
  BY DEF kthread_exit, Inv, Kept, Runs, KState
<1>2. Runs(kk, NULL) /\ Drained(s.k, kk)
  BY <1>1, UnlinkRuns, UnlinkDrained
<1>3. s' = schedule([s EXCEPT !.k = kk])
  BY DEF kthread_exit
<1> HIDE DEF kk
<1> QED
  BY <1>2, <1>3, ScheduleAfterCalm, CalmAsleep

\* Time passes, and the interrupt looks for expired alarms.
LEMMA TimeAsleep ==
    ASSUME Inv(s), Asleep(s), tick \/ timer_interrupt
    PROVE  Asleep(s')
<1>1. s \in State /\ s.stack = <<>> /\ s.clock \in ClockState /\ Measures(s.clock)
  BY DEF tick, timer_interrupt, Inv, Kept, State
<1>2. ASSUME NEW c PROVE Calm(s, [s EXCEPT !.clock = c])
  <2> DEFINE g == [s EXCEPT !.clock = c]
  <2>1. g.k = s.k /\ g.alarm = s.alarm /\ g.stack = s.stack
    BY <1>1 DEF State
  <2> HIDE DEF g
  <2>2. Calm(s, g)
    BY <2>1 DEF Calm, Drained
  <2> QED
    BY <2>2 DEF g
<1>3. CASE tick
  <2>1. s' = [s EXCEPT !.clock = count_down(s.clock)]
    BY <1>3 DEF tick
  <2> QED
    BY <1>2, <2>1, CalmAsleep
<1>4. CASE timer_interrupt
  <2> DEFINE c == arch_timer_handler(s.clock)
             g == [s EXCEPT !.clock = c]
             fr == [f |-> "resched", resched |-> FALSE]
             m == push(g, fr)
             fe == [f |-> "expire", now |-> Now(m), resched |-> FALSE]
  <2>1. s' = g \/ s' = push(m, fe)
    BY <1>4 DEF timer_interrupt, k_schedule_alarms
  <2>2. c \in ClockState /\ Measures(c)
    BY <1>1, HandlerClock
  <2>3. fr \in Frame /\ fr.f = "resched"
    BY DEF Frame
  <2>4. Calm(s, g)
    BY <1>2
  <2> HIDE DEF c, fr
  <2>5. Kept(g)
    BY <1>1, <2>2, ClockChange
  <2> HIDE DEF g
  <2>6. Kept(m) /\ Calm(g, m)
    BY <2>3, <2>5, PushKept, PushCalm DEF FrameOK, Kept
  <2> HIDE DEF m
  <2>7. m \in State /\ Now(m) \in Int
    BY <2>6, NowType DEF Kept
  <2>8. fe \in Frame
    BY <2>7 DEF Frame
  <2> HIDE DEF fe
  <2>9. Calm(m, push(m, fe))
    BY <2>7, <2>8, PushCalm
  <2> QED
    BY <2>1, <2>4, <2>6, <2>9, CalmTrans, CalmAsleep
<1> QED
  BY <1>3, <1>4

\* At first nobody sleeps.
LEMMA InitAsleep ==
    ASSUME Init
    PROVE  Asleep(s)
<1> DEFINE al == rr_init
<1>1. PICK program \in Programs :
        \E order \in [Prio -> UNION {Orders(WithPrio(program, p)) : p \in Prio}] :
           s = [program |-> program, k |-> Created(program, order), sched |-> ksched_thread_add,
                alarm |-> al, list |-> <<>>, clock |-> arch_timer_init, slice |-> TIME_SLICE,
                stack |-> <<[f |-> "resched", resched |-> TRUE]>>, torn |-> {}]
  BY DEF Init
<1> HIDE DEF al
<1>2. PICK order :
           s = [program |-> program, k |-> Created(program, order), sched |-> ksched_thread_add,
                alarm |-> al, list |-> <<>>, clock |-> arch_timer_init, slice |-> TIME_SLICE,
                stack |-> <<[f |-> "resched", resched |-> TRUE]>>, torn |-> {}]
  BY <1>1
<1>3. s.alarm = al /\ s.k = Created(program, order)
  BY <1>2
<1>4. \A a \in Alarm : s.k.q[AlarmQ(a)] = <<>>
  <2> SUFFICES ASSUME NEW a \in Alarm PROVE s.k.q[AlarmQ(a)] = <<>>
    OBVIOUS
  <2>1. AlarmQ(a) \in Queue /\ AlarmQ(a) \notin ReadyQs
    BY AlarmQueues DEF ReadyQs
  <2> QED
    BY <1>3, <2>1 DEF Created
<1>5. RRFree(al)
  <2>1. ASSUME NEW a \in Alarm
        PROVE  al[a].thread = NULL /\ (al[a].alarm.action = "rr" => a = RRAlarm)
    BY DEF al, rr_init, kalarm_t, alarm_t
  <2> QED
    BY <2>1, AlarmsAssumption DEF RRFree
<1> QED
  BY <1>3, <1>4, <1>5 DEF Asleep

\* Every step keeps it.
LEMMA NextAsleep ==
    ASSUME Inv(s), Asleep(s), [Next]_s
    PROVE  Asleep(s')
<1>1. CASE s' = s
  BY <1>1
<1>2. CASE Kernel
  BY <1>2, ExpireNextAsleep, ReleaseNextAsleep, ExpireDoneAsleep, AddedAsleep, ReturnAsleep DEF Kernel
<1>3. CASE tick \/ timer_interrupt
  BY <1>3, TimeAsleep
<1>4. ASSUME NEW t \in Thread, Call(t) PROVE Asleep(s')
  <2>1. ASSUME NEW a \in UserAlarm, NEW new \in Request(t), sys__alarm_new(t, a, new) PROVE Asleep(s')
    BY <2>1, AlarmNewAsleep
  <2>2. ASSUME NEW a \in UserAlarm, NEW new \in Request(t), sys__alarm_set(t, a, new) PROVE Asleep(s')
    BY <2>2, AlarmSetAsleep
  <2>3. ASSUME NEW a \in UserAlarm, sys__alarm_remove(t, a) PROVE Asleep(s')
    BY <2>3, AlarmRemoveAsleep
  <2>4. ASSUME NEW a \in UserAlarm, sys__wait_for_alarm(t, a) PROVE Asleep(s')
    BY <2>4, WaitAsleep
  <2>5. ASSUME NEW c \in s.program.changes,
               sys__set_thread_sched_params(t, c[2], c[3], c[4]) \/ sys__set_sched_params(t, c[4])
        PROVE  Asleep(s')
    BY <2>5, ParamsAsleep
  <2>6. CASE kthread_exit(t)
    BY <2>6, ExitAsleep
  <2> QED
    BY <1>4, <2>1, <2>2, <2>3, <2>4, <2>5, <2>6 DEF Call
<1> QED
  BY <1>1, <1>2, <1>3, <1>4 DEF Next

\* In user code nobody sleeps on an alarm that has expired for good or was removed:
\* whoever makes an alarm inactive (k_schedule_alarms, sys__alarm_remove) releases
\* its queue before the kernel is left, and k_alarm_add blocks the creator only if
\* the alarm has not expired in the meantime.
THEOREM SpecNoSleepOnExpired == Spec => []NoSleepOnExpired
<1>1. Init => Asleep(s)
  BY InitAsleep
<1>2. Inv(s) /\ Asleep(s) /\ [Next]_s => Asleep(s)'
  BY NextAsleep
<1>3. Asleep(s) => NoSleepOnExpired
  <2> SUFFICES ASSUME Asleep(s), s.stack = <<>>, NEW a \in Alarm, s.k.q[AlarmQ(a)] # <<>>
               PROVE  s.alarm[a].live /\ (s.alarm[a].active \/ s.alarm[a].alarm.exp <= 0)
    BY DEF NoSleepOnExpired
  <2>1. ~Waking(s.stack, a)
    BY DEF Waking
  <2> QED
    BY <2>1 DEF Asleep, Awaited
<1> QED
  BY <1>1, <1>2, <1>3, SpecInv, PTL DEF Spec
=============================================================================

--------------------------- MODULE KThreadsProofs ---------------------------
(***************************************************************************)
(* What the functions of KThreads preserve.  Linked(k, L) says that the    *)
(* scheduling state is consistent for the threads in L; a thread a handler *)
(* has taken out of a queue and not yet put anywhere is not in L.  Every   *)
(* module of system calls cites these lemmas.                              *)
(***************************************************************************)
EXTENDS KThreads, SequenceTheorems, WellFoundedInduction, NaturalsInduction, TLAPS

Linked(k, L) ==
    /\ k \in KState
    /\ L \subseteq Thread
    /\ LinkedOnce(k, L)
    /\ NoneLost(k, L)
    /\ MaskExact(k)

\* A thread appended to a queue it is not in.
LEMMA AppendMember ==
    ASSUME NEW S, NEW s \in Seq(S), NEW e \in S
    PROVE  /\ Append(s, e) \in Seq(S)
           /\ Append(s, e) # <<>>
           /\ Len(Append(s, e)) = Len(s) + 1
           /\ \A i \in 1..Len(s) : Append(s, e)[i] = s[i]
           /\ Append(s, e)[Len(s) + 1] = e
  BY AppendProperties

\* What Tail and Head return, element by element.
LEMMA TailMember ==
    ASSUME NEW S, NEW s \in Seq(S), s # <<>>
    PROVE  /\ Tail(s) \in Seq(S) /\ Head(s) \in S /\ Head(s) = s[1]
           /\ Len(s) >= 1 /\ Len(Tail(s)) = Len(s) - 1
           /\ \A i \in 1..Len(Tail(s)) : Tail(s)[i] = s[i + 1]
  BY HeadTailProperties, LenProperties

\* The highest set bit of a non-empty mask exists.
LEMMA HighestExists ==
    ASSUME NEW M, M \subseteq Prio, M # {}
    PROVE  Max(M) \in M /\ \A p \in M : p <= Max(M)
<1> DEFINE T == {PRIO_LEVELS - p : p \in M}
<1>1. T \subseteq Nat /\ T # {}
  BY KThreadsAssumption DEF Prio
<1>2. PICK m \in T : \A n \in T : ~(<<n, m>> \in OpToRel(<, Nat))
  BY <1>1, NatLessThanWellFounded, WFMin
<1>3. PICK x \in M : m = PRIO_LEVELS - x
  BY <1>2
<1>4. \A n \in Nat : n < m => <<n, m>> \in OpToRel(<, Nat)
  BY <1>1 DEF OpToRel
<1>5. \A n \in T : ~(n < m)
  BY <1>1, <1>2, <1>4
<1>6. \A p \in M : p <= x
  BY <1>3, <1>5, KThreadsAssumption DEF Prio
<1> QED
  BY <1>6, KThreadsAssumption DEF Max, Prio

\* Different queues have different names, and NULL names none.
LEMMA QueueNames ==
    /\ \A p \in Prio : ReadyQ(p) \in Queue /\ ReadyQ(p) \in ReadyQs
    /\ \A p, r \in Prio : ReadyQ(p) = ReadyQ(r) => p = r
    /\ \A x \in WaitQ : x \in Queue /\ x \notin ReadyQs
    /\ NULL \notin Queue
  BY KThreadsAssumption DEF ReadyQ, ReadyQs, Queue


-----------------------------------------------------------------------------
\* A floating thread appended to queue x, in the state that belongs to x, is
\* linked again; nothing changes for the others.
LEMMA AppendLinks ==
    ASSUME NEW k \in KState, NEW n \in KState, NEW L, L \subseteq Thread,
           LinkedOnce(k, L), NoneLost(k, L),
           NEW t \in Thread \ L, NEW x \in Queue,
           x \in ReadyQs => x = ReadyQ(k.prio[t]),
           n.state = [k.state EXCEPT ![t] = IF x \in ReadyQs THEN "READY" ELSE "WAIT"],
           n.queue = [k.queue EXCEPT ![t] = x],
           n.q = [k.q EXCEPT ![x] = Append(k.q[x], t)],
           n.prio = k.prio, n.active = k.active
    PROVE  LinkedOnce(n, L \cup {t}) /\ NoneLost(n, L \cup {t})
<1>1. /\ k.state \in [Thread -> ThreadState] /\ k.queue \in [Thread -> Queue \cup {NULL}]
      /\ k.q \in [Queue -> Seq(Thread)]
  BY DEF KState
<1>2. /\ n.q[x] = Append(k.q[x], t) /\ Len(n.q[x]) = Len(k.q[x]) + 1
      /\ \A i \in 1..Len(k.q[x]) : n.q[x][i] = k.q[x][i]
      /\ n.q[x][Len(k.q[x]) + 1] = t /\ Len(k.q[x]) \in Nat
  BY <1>1, AppendMember, LenProperties
<1>3. \A i \in 1..Len(n.q[x]) : i \in 1..Len(k.q[x]) \/ i = Len(k.q[x]) + 1
  BY SMTT(30), <1>2
<1>4. LinkedOnce(n, L \cup {t})
  <2> SUFFICES ASSUME NEW y \in Queue
               PROVE  /\ \A i \in 1..Len(n.q[y]) :
                            /\ n.q[y][i] \in L \cup {t}
                            /\ n.queue[n.q[y][i]] = y
                            /\ n.state[n.q[y][i]] = IF y \in ReadyQs THEN "READY" ELSE "WAIT"
                            /\ y \in ReadyQs => y = ReadyQ(n.prio[n.q[y][i]])
                      /\ \A i, j \in 1..Len(n.q[y]) : n.q[y][i] = n.q[y][j] => i = j
    BY DEF LinkedOnce
  <2>1. /\ \A i \in 1..Len(k.q[y]) :
              /\ k.q[y][i] \in L /\ k.q[y][i] # t /\ k.q[y][i] \in Thread
              /\ k.queue[k.q[y][i]] = y
              /\ k.state[k.q[y][i]] = IF y \in ReadyQs THEN "READY" ELSE "WAIT"
              /\ y \in ReadyQs => y = ReadyQ(k.prio[k.q[y][i]])
        /\ \A i, j \in 1..Len(k.q[y]) : k.q[y][i] = k.q[y][j] => i = j
    BY DEF LinkedOnce
  <2>2. CASE y # x
    BY <1>1, <2>1, <2>2
  <2>3. CASE y = x
    <3>1. ASSUME NEW i \in 1..Len(n.q[y])
          PROVE  /\ n.q[y][i] \in L \cup {t}
                 /\ n.queue[n.q[y][i]] = y
                 /\ n.state[n.q[y][i]] = IF y \in ReadyQs THEN "READY" ELSE "WAIT"
                 /\ y \in ReadyQs => y = ReadyQ(n.prio[n.q[y][i]])
      <4>1. CASE i \in 1..Len(k.q[y])
        BY <1>1, <1>2, <2>1, <2>3, <4>1
      <4>2. CASE i = Len(k.q[y]) + 1
        BY <1>1, <1>2, <2>3, <4>2
      <4> QED
        BY <1>3, <2>3, <4>1, <4>2
    <3>2. \A i, j \in 1..Len(n.q[y]) : n.q[y][i] = n.q[y][j] => i = j
      BY <1>2, <1>3, <2>1, <2>3
    <3> QED
      BY <3>1, <3>2
  <2> QED
    BY <2>2, <2>3
<1>5. NoneLost(n, L \cup {t})
  <2> SUFFICES ASSUME NEW u \in L \cup {t}
               PROVE  \/ n.state[u] = "ACTIVE" /\ u = n.active
                      \/ /\ n.state[u] \in {"READY", "WAIT"} /\ n.queue[u] \in Queue
                         /\ \E i \in 1..Len(n.q[n.queue[u]]) : n.q[n.queue[u]][i] = u
    BY DEF NoneLost
  <2>1. CASE u = t
    BY <1>1, <1>2, <2>1
  <2>2. CASE u # t
    <3>1. u \in L /\ n.state[u] = k.state[u] /\ n.queue[u] = k.queue[u]
      BY <1>1, <2>2
    <3>2. \/ k.state[u] = "ACTIVE" /\ u = k.active
          \/ /\ k.state[u] \in {"READY", "WAIT"} /\ k.queue[u] \in Queue
             /\ \E i \in 1..Len(k.q[k.queue[u]]) : k.q[k.queue[u]][i] = u
      BY <3>1 DEF NoneLost
    <3> QED
      BY <1>1, <1>2, <3>1, <3>2
  <2> QED
    BY <2>1, <2>2
<1> QED
  BY <1>4, <1>5

\* The thread at position m of queue x taken out floats; the others stay linked.
LEMMA RemoveFloats ==
    ASSUME NEW k \in KState, NEW n \in KState, NEW L, L \subseteq Thread,
           LinkedOnce(k, L), NoneLost(k, L),
           NEW x \in Queue, NEW m \in 1..Len(k.q[x]), NEW s \in Seq(Thread),
           Len(s) = Len(k.q[x]) - 1,
           \A i \in 1..Len(s) : s[i] = IF i < m THEN k.q[x][i] ELSE k.q[x][i + 1],
           n.q = [k.q EXCEPT ![x] = s],
           n.queue = k.queue, n.state = k.state,
           n.prio = k.prio, n.active = k.active
    PROVE  LET t == k.q[x][m] IN
           LinkedOnce(n, L \ {t}) /\ NoneLost(n, L \ {t}) /\ t \in L
<1> DEFINE t == k.q[x][m]
<1>1. /\ k.state \in [Thread -> ThreadState] /\ k.queue \in [Thread -> Queue \cup {NULL}]
      /\ k.q \in [Queue -> Seq(Thread)] /\ n.q[x] = s /\ Len(k.q[x]) \in Nat
      /\ \A y \in Queue : y # x => n.q[y] = k.q[y]
  BY LenProperties DEF KState
<1>2. \A y \in Queue :
        /\ \A i \in 1..Len(k.q[y]) :
              /\ k.q[y][i] \in L /\ k.queue[k.q[y][i]] = y
              /\ k.state[k.q[y][i]] = IF y \in ReadyQs THEN "READY" ELSE "WAIT"
              /\ y \in ReadyQs => y = ReadyQ(k.prio[k.q[y][i]])
        /\ \A i, j \in 1..Len(k.q[y]) : k.q[y][i] = k.q[y][j] => i = j
  BY SMTT(30) DEF LinkedOnce
<1>3. \A i \in 1..Len(s) : \E j \in 1..Len(k.q[x]) :
        s[i] = k.q[x][j] /\ j # m /\ j = IF i < m THEN i ELSE i + 1
  BY <1>1
<1>4. LinkedOnce(n, L \ {t})
  <2> SUFFICES ASSUME NEW y \in Queue
               PROVE  /\ \A i \in 1..Len(n.q[y]) :
                            /\ n.q[y][i] \in L \ {t}
                            /\ n.queue[n.q[y][i]] = y
                            /\ n.state[n.q[y][i]] = IF y \in ReadyQs THEN "READY" ELSE "WAIT"
                            /\ y \in ReadyQs => y = ReadyQ(n.prio[n.q[y][i]])
                      /\ \A i, j \in 1..Len(n.q[y]) : n.q[y][i] = n.q[y][j] => i = j
    BY DEF LinkedOnce
  <2>1. CASE y # x
    BY <1>1, <1>2, <2>1
  <2>2. CASE y = x
    <3>1. ASSUME NEW i \in 1..Len(s)
          PROVE  /\ s[i] \in L \ {t} /\ k.queue[s[i]] = y
                 /\ k.state[s[i]] = IF y \in ReadyQs THEN "READY" ELSE "WAIT"
                 /\ y \in ReadyQs => y = ReadyQ(k.prio[s[i]])
      <4>1. PICK j \in 1..Len(k.q[x]) : s[i] = k.q[x][j] /\ j # m
        BY <1>3
      <4> QED
        BY <1>2, <2>2, <4>1
    <3>2. ASSUME NEW i \in 1..Len(s), NEW j \in 1..Len(s), s[i] = s[j]
          PROVE  i = j
      BY <1>1, <1>2, <1>3, <3>2
    <3>3. n.q[y] = s
      BY <1>1, <2>2
    <3>4. \A i \in 1..Len(n.q[y]) :
            /\ n.q[y][i] \in L \ {t} /\ n.queue[n.q[y][i]] = y
            /\ n.state[n.q[y][i]] = IF y \in ReadyQs THEN "READY" ELSE "WAIT"
            /\ y \in ReadyQs => y = ReadyQ(n.prio[n.q[y][i]])
      BY <3>1, <3>3
    <3>5. \A i, j \in 1..Len(n.q[y]) : n.q[y][i] = n.q[y][j] => i = j
      BY <3>2, <3>3
    <3> QED
      BY <3>4, <3>5
  <2> QED
    BY <2>1, <2>2
<1>5. NoneLost(n, L \ {t})
  <2> SUFFICES ASSUME NEW u \in L \ {t}
               PROVE  \/ n.state[u] = "ACTIVE" /\ u = n.active
                      \/ /\ n.state[u] \in {"READY", "WAIT"} /\ n.queue[u] \in Queue
                         /\ \E i \in 1..Len(n.q[n.queue[u]]) : n.q[n.queue[u]][i] = u
    BY DEF NoneLost
  <2>1. \/ k.state[u] = "ACTIVE" /\ u = k.active
        \/ /\ k.state[u] \in {"READY", "WAIT"} /\ k.queue[u] \in Queue
           /\ \E i \in 1..Len(k.q[k.queue[u]]) : k.q[k.queue[u]][i] = u
    BY DEF NoneLost
  <2>2. CASE k.queue[u] = x /\ \E i \in 1..Len(k.q[x]) : k.q[x][i] = u
    <3>1. PICK i \in 1..Len(k.q[x]) : k.q[x][i] = u
      BY <2>2
    <3>2. i # m
      BY <3>1
    <3>3. CASE i < m
      <4>1. i \in 1..Len(s) /\ s[i] = u
        BY <1>1, <3>1, <3>3
      <4> QED
        BY <1>1, <2>1, <2>2, <4>1
    <3>4. CASE i > m
      <4>1. i - 1 \in 1..Len(s) /\ s[i - 1] = u
        BY <1>1, <3>1, <3>4
      <4> QED
        BY <1>1, <2>1, <2>2, <4>1
    <3> QED
      BY <1>1, <3>2, <3>3, <3>4
  <2>3. CASE ~(k.queue[u] = x /\ \E i \in 1..Len(k.q[x]) : k.q[x][i] = u)
    BY <1>1, <2>1, <2>3
  <2> QED
    BY <2>2, <2>3
<1> QED
  BY <1>2, <1>4, <1>5

-----------------------------------------------------------------------------
\* The functions of thread.c

\* kthread_move_to_ready links a floating thread.
LEMMA MoveToReadyLinks ==
    ASSUME NEW k, NEW L, Linked(k, L), NEW t \in Thread \ L
    PROVE  LET n == kthread_move_to_ready(k, t) IN
           /\ Linked(n, L \cup {t})
           /\ n.state = [k.state EXCEPT ![t] = "READY"]
           /\ n.prio = k.prio /\ n.active = k.active
           /\ n.mask = k.mask \cup {k.prio[t]}
           /\ \A x \in WaitQ : n.q[x] = k.q[x]
<1> DEFINE r == ReadyQ(k.prio[t])
           n == kthread_move_to_ready(k, t)
<1>1. /\ k \in KState /\ k.prio[t] \in Prio /\ r \in Queue /\ r \in ReadyQs
      /\ k.q \in [Queue -> Seq(Thread)] /\ k.mask \subseteq Prio
  BY QueueNames DEF Linked, KState
<1>2. /\ n.state = [k.state EXCEPT ![t] = "READY"]
      /\ n.queue = [k.queue EXCEPT ![t] = r]
      /\ n.q = [k.q EXCEPT ![r] = Append(k.q[r], t)]
      /\ n.mask = k.mask \cup {k.prio[t]}
      /\ n.prio = k.prio /\ n.active = k.active
  BY <1>1 DEF kthread_move_to_ready, KState
<1>3. n \in KState
  BY <1>1, AppendMember DEF kthread_move_to_ready, KState, ThreadState
<1>4. LinkedOnce(n, L \cup {t}) /\ NoneLost(n, L \cup {t})
  BY <1>1, <1>2, <1>3, AppendLinks DEF Linked
<1>5. MaskExact(n)
  <2> SUFFICES ASSUME NEW p \in Prio
               PROVE  p \in n.mask <=> n.q[ReadyQ(p)] # <<>>
    BY DEF MaskExact
  <2>1. p \in k.mask <=> k.q[ReadyQ(p)] # <<>>
    BY DEF Linked, MaskExact
  <2>2. CASE p = k.prio[t]
    BY <1>1, <1>2, <2>2, AppendMember
  <2>3. CASE p # k.prio[t]
    BY <1>1, <1>2, <2>1, <2>3, QueueNames
  <2> QED
    BY <2>2, <2>3
<1>6. \A x \in WaitQ : n.q[x] = k.q[x]
  BY <1>1, <1>2, QueueNames
<1> QED
  BY <1>2, <1>3, <1>4, <1>5, <1>6 DEF Linked

\* It leaves the queues of blocked threads alone.
LEMMA MoveToReadyQueues ==
    ASSUME NEW k \in KState, NEW t \in Thread, NEW x \in WaitQ
    PROVE  kthread_move_to_ready(k, t).q[x] = k.q[x]
<1> DEFINE r == ReadyQ(k.prio[t])
<1>1. r \in Queue /\ r # x /\ x \in Queue
  BY QueueNames DEF KState
<1> QED
  BY <1>1 DEF kthread_move_to_ready, KState

\* kthread_enqueue blocks a floating thread in a wait queue.
LEMMA EnqueueLinks ==
    ASSUME NEW k, NEW L, Linked(k, L), NEW t \in Thread \ L, NEW x \in WaitQ
    PROVE  LET n == kthread_enqueue(k, t, x) IN
           /\ Linked(n, L \cup {t})
           /\ n.state = [k.state EXCEPT ![t] = "WAIT"]
           /\ n.prio = k.prio /\ n.active = k.active /\ n.mask = k.mask
           /\ \A y \in WaitQ \ {x} : n.q[y] = k.q[y]
<1> DEFINE n == kthread_enqueue(k, t, x)
<1>1. /\ k \in KState /\ x \in Queue /\ x \notin ReadyQs
      /\ k.q \in [Queue -> Seq(Thread)]
  BY QueueNames DEF Linked, KState
<1>2. /\ n.state = [k.state EXCEPT ![t] = "WAIT"]
      /\ n.queue = [k.queue EXCEPT ![t] = x]
      /\ n.q = [k.q EXCEPT ![x] = Append(k.q[x], t)]
      /\ n.mask = k.mask /\ n.prio = k.prio /\ n.active = k.active
  BY <1>1 DEF kthread_enqueue, KState
<1>3. n \in KState
  BY <1>1, AppendMember DEF kthread_enqueue, KState, ThreadState
<1>4. LinkedOnce(n, L \cup {t}) /\ NoneLost(n, L \cup {t})
  BY <1>1, <1>2, <1>3, AppendLinks DEF Linked
<1>5. MaskExact(n)
  BY <1>1, <1>2, QueueNames DEF Linked, MaskExact
<1> QED
  BY <1>1, <1>2, <1>3, <1>4, <1>5, QueueNames DEF Linked

\* The active thread is in no queue: it can be regarded as floating.
LEMMA ActiveFloats ==
    ASSUME NEW k, NEW L, Linked(k, L), NEW t, k.state[t] \notin {"READY", "WAIT"}
    PROVE  Linked(k, L \ {t})
<1>1. LinkedOnce(k, L \ {t})
  BY DEF Linked, LinkedOnce
<1>2. NoneLost(k, L \ {t})
  BY DEF Linked, NoneLost
<1> QED
  BY <1>1, <1>2 DEF Linked

\* kthreadq_release keeps every thread linked.
LEMMA ReleaseLinks ==
    ASSUME NEW k, NEW L, Linked(k, L), NEW x \in WaitQ
    PROVE  LET n == kthreadq_release(k, x) IN
           /\ Linked(n, L)
           /\ n.prio = k.prio /\ n.active = k.active
           /\ \A t \in Thread : n.state[t] = k.state[t]
                                \/ (k.state[t] = "WAIT" /\ n.state[t] = "READY")
           /\ \A y \in WaitQ \ {x} : n.q[y] = k.q[y]
<1>0. k \in KState /\ x \in Queue /\ x \notin ReadyQs /\ k.q \in [Queue -> Seq(Thread)]
      /\ k.state \in [Thread -> ThreadState]
  BY QueueNames DEF Linked, KState
<1>1. CASE k.q[x] = <<>>
  BY <1>1 DEF kthreadq_release
<1>2. CASE k.q[x] # <<>>
  <2> DEFINE m == [k EXCEPT !.q[x] = Tail(k.q[x])]
             t == Head(k.q[x])
  <2>1. /\ Tail(k.q[x]) \in Seq(Thread) /\ t = k.q[x][1] /\ 1 \in 1..Len(k.q[x])
        /\ Len(Tail(k.q[x])) = Len(k.q[x]) - 1
        /\ \A i \in 1..Len(Tail(k.q[x])) : Tail(k.q[x])[i] = k.q[x][i + 1]
    BY <1>0, <1>2, TailMember, LenProperties
  <2>2. /\ m \in KState /\ m.q = [k.q EXCEPT ![x] = Tail(k.q[x])]
        /\ m.queue = k.queue /\ m.state = k.state /\ m.prio = k.prio
        /\ m.active = k.active /\ m.mask = k.mask
    BY <1>0, <2>1 DEF KState
  <2>3. \A i \in 1..Len(Tail(k.q[x])) :
            Tail(k.q[x])[i] = IF i < 1 THEN k.q[x][i] ELSE k.q[x][i + 1]
    BY <2>1
  <2>7. kthreadq_release(k, x) = kthread_move_to_ready(m, t)
    BY <1>2 DEF kthreadq_release
  <2> HIDE DEF m, t
  <2>4. LinkedOnce(m, L \ {t}) /\ NoneLost(m, L \ {t}) /\ t \in L
    <3>1. LET u == k.q[x][1] IN
          LinkedOnce(m, L \ {u}) /\ NoneLost(m, L \ {u}) /\ u \in L
      BY <1>0, <2>1, <2>2, <2>3, RemoveFloats DEF Linked
    <3> QED
      BY <2>1, <3>1
  <2>5. MaskExact(m)
    BY <1>0, <2>2, QueueNames DEF Linked, MaskExact
  <2>6. Linked(m, L \ {t}) /\ t \in Thread /\ k.state[t] = "WAIT"
    <3>1. L \subseteq Thread /\ LinkedOnce(k, L)
      BY DEF Linked
    <3>2. k.state[k.q[x][1]] = "WAIT"
      BY <1>0, <2>1, <3>1 DEF LinkedOnce
    <3>3. Linked(m, L \ {t})
      BY <2>2, <2>4, <2>5, <3>1 DEF Linked
    <3> QED
      BY <2>1, <2>4, <3>1, <3>2, <3>3
  <2>8. (L \ {t}) \cup {t} = L
    BY <2>4
  <2> DEFINE n == kthread_move_to_ready(m, t)
  <2>9. /\ Linked(n, L) /\ n.state = [k.state EXCEPT ![t] = "READY"]
        /\ n.prio = k.prio /\ n.active = k.active
        /\ \A y \in WaitQ \ {x} : n.q[y] = k.q[y]
    <3> DEFINE F == L \ {t}
    <3>0. Linked(m, F) /\ t \in Thread \ F /\ F \cup {t} = L
      BY <2>6, <2>8
    <3> HIDE DEF F
    <3>1. Linked(n, F \cup {t})
      BY <3>0, MoveToReadyLinks
    <3>3. n.state = [m.state EXCEPT ![t] = "READY"] /\ n.prio = m.prio /\ n.active = m.active
      BY SMTT(30), <3>0, MoveToReadyLinks
    <3>4. \A y \in WaitQ : n.q[y] = m.q[y]
      <4>1. m.q \in [Queue -> Seq(Thread)] /\ m.prio[t] \in Prio
        BY <2>2, <3>0 DEF KState
      <4>2. n.q = [m.q EXCEPT ![ReadyQ(m.prio[t])] = Append(m.q[ReadyQ(m.prio[t])], t)]
        BY <2>2 DEF kthread_move_to_ready, KState
      <4> HIDE DEF n
      <4> QED
        BY <4>1, <4>2, QueueNames
    <3> HIDE DEF n
    <3>2. \A y \in WaitQ \ {x} : m.q[y] = k.q[y]
      BY <1>0, <2>2, QueueNames
    <3> QED
      BY <2>2, <3>0, <3>1, <3>2, <3>3, <3>4
  <2> HIDE DEF n
  <2> QED
    BY <1>0, <2>6, <2>7, <2>9 DEF n
<1> QED
  BY <1>1, <1>2

\* The fields of the state activate_first returns.
LEMMA ActivateFields ==
    ASSUME NEW c \in KState, NEW t \in Thread
    PROVE  LET n == [c EXCEPT !.active = t, !.state[t] = "ACTIVE", !.queue[t] = NULL] IN
           /\ n.q = c.q /\ n.queue = [c.queue EXCEPT ![t] = NULL]
           /\ n.state = [c.state EXCEPT ![t] = "ACTIVE"]
           /\ n.prio = c.prio /\ n.mask = c.mask /\ n.active = t
           /\ n \in KState
<1> DEFINE n == [c EXCEPT !.active = t, !.state[t] = "ACTIVE", !.queue[t] = NULL]
<1>1. c.state \in [Thread -> ThreadState] /\ c.queue \in [Thread -> Queue \cup {NULL}]
  BY DEF KState
<1>2. n.q = c.q /\ n.prio = c.prio /\ n.mask = c.mask
  BY DEF KState
<1>3. n.active = t
  BY DEF KState
<1>4. n.state = [c.state EXCEPT ![t] = "ACTIVE"]
  BY DEF KState
<1>5. n.queue = [c.queue EXCEPT ![t] = NULL]
  BY DEF KState
<1>6. n \in KState
  <2>1. [c.state EXCEPT ![t] = "ACTIVE"] \in [Thread -> ThreadState]
        /\ [c.queue EXCEPT ![t] = NULL] \in [Thread -> Queue \cup {NULL}]
    BY <1>1 DEF ThreadState
  <2> QED
    BY <2>1 DEF KState
<1> QED
  BY <1>2, <1>3, <1>4, <1>5, <1>6, Zenon

\* activate_first: the first ready thread becomes the active one, if no thread
\* of L is active.
LEMMA ActivateFirst ==
    ASSUME NEW k, NEW L, Linked(k, L), NEW p \in Prio, k.q[ReadyQ(p)] # <<>>,
           \A t \in L : k.state[t] # "ACTIVE"
    PROVE  LET n == activate_first(k, p) IN
           /\ Linked(n, L)
           /\ n.active \in L /\ n.state[n.active] = "ACTIVE"
           /\ n.prio = k.prio /\ n.prio[n.active] = p /\ n.mask \subseteq k.mask
           /\ k.state[n.active] = "READY"
           /\ n.state = [k.state EXCEPT ![n.active] = "ACTIVE"]
           /\ n.queue[n.active] = NULL
           /\ \A x \in WaitQ : n.q[x] = k.q[x]
<1> DEFINE r == ReadyQ(p)
           t == Head(k.q[r])
           m == [k EXCEPT !.q[r] = Tail(k.q[r])]
           c == clear_if_empty(m, p)
           n == activate_first(k, p)
<1>0. k \in KState /\ r \in Queue /\ r \in ReadyQs /\ k.q \in [Queue -> Seq(Thread)]
      /\ k.state \in [Thread -> ThreadState] /\ k.mask \subseteq Prio
      /\ k.queue \in [Thread -> Queue \cup {NULL}] /\ k.prio \in [Thread -> Prio]
  BY QueueNames DEF Linked, KState
<1>1. /\ Tail(k.q[r]) \in Seq(Thread) /\ t = k.q[r][1] /\ 1 \in 1..Len(k.q[r])
      /\ Len(Tail(k.q[r])) = Len(k.q[r]) - 1
      /\ \A i \in 1..Len(Tail(k.q[r])) : Tail(k.q[r])[i] = k.q[r][i + 1]
  BY <1>0, TailMember, LenProperties
<1>2. /\ m \in KState /\ m.q = [k.q EXCEPT ![r] = Tail(k.q[r])]
      /\ m.queue = k.queue /\ m.state = k.state /\ m.prio = k.prio
      /\ m.active = k.active /\ m.mask = k.mask
  BY <1>0, <1>1 DEF KState
<1>3. \A i \in 1..Len(Tail(k.q[r])) :
          Tail(k.q[r])[i] = IF i < 1 THEN k.q[r][i] ELSE k.q[r][i + 1]
  BY <1>1
<1>4. n = [c EXCEPT !.active = t, !.state[t] = "ACTIVE", !.queue[t] = NULL]
  BY DEF activate_first
<1> HIDE DEF t, m
<1>5. LinkedOnce(m, L \ {t}) /\ NoneLost(m, L \ {t}) /\ t \in L
  <2>1. LET u == k.q[r][1] IN
        LinkedOnce(m, L \ {u}) /\ NoneLost(m, L \ {u}) /\ u \in L
    BY <1>0, <1>1, <1>2, <1>3, RemoveFloats DEF Linked
  <2> QED
    BY <1>1, <2>1
<1>6. k.state[t] = "READY" /\ k.prio[t] = p /\ t \in Thread
  BY <1>0, <1>1, <1>5, QueueNames DEF Linked, LinkedOnce
<1>7. /\ c \in KState /\ c.q = m.q /\ c.queue = k.queue /\ c.state = k.state
      /\ c.prio = k.prio
      /\ c.mask = IF m.q[r] = <<>> THEN k.mask \ {p} ELSE k.mask
  BY <1>0, <1>2 DEF clear_if_empty, KState
<1> HIDE DEF c
<1> HIDE DEF n
<1>f. /\ n.q = c.q /\ n.queue = [c.queue EXCEPT ![t] = NULL]
      /\ n.state = [c.state EXCEPT ![t] = "ACTIVE"]
      /\ n.prio = c.prio /\ n.mask = c.mask /\ n.active = t
      /\ n \in KState
  <2>1. LET a == [c EXCEPT !.active = t, !.state[t] = "ACTIVE", !.queue[t] = NULL] IN
        /\ a.q = c.q /\ a.queue = [c.queue EXCEPT ![t] = NULL]
        /\ a.state = [c.state EXCEPT ![t] = "ACTIVE"]
        /\ a.prio = c.prio /\ a.mask = c.mask /\ a.active = t
        /\ a \in KState
    BY <1>6, <1>7, ActivateFields, Zenon
  <2> QED
    BY <1>4, <2>1, Zenon
<1>8. /\ n.q = m.q /\ n.queue = [k.queue EXCEPT ![t] = NULL]
      /\ n.state = [k.state EXCEPT ![t] = "ACTIVE"]
      /\ n.prio = k.prio /\ n.mask = c.mask /\ n.active = t
  BY <1>7, <1>f, Zenon
<1>9. n \in KState
  BY <1>f
<1>10. LinkedOnce(n, L)
  <2> SUFFICES ASSUME NEW y \in Queue
               PROVE  /\ \A i \in 1..Len(n.q[y]) :
                            /\ n.q[y][i] \in L
                            /\ n.queue[n.q[y][i]] = y
                            /\ n.state[n.q[y][i]] = IF y \in ReadyQs THEN "READY" ELSE "WAIT"
                            /\ y \in ReadyQs => y = ReadyQ(n.prio[n.q[y][i]])
                      /\ \A i, j \in 1..Len(n.q[y]) : n.q[y][i] = n.q[y][j] => i = j
    BY DEF LinkedOnce
  <2>1. /\ \A i \in 1..Len(m.q[y]) :
              /\ m.q[y][i] \in L /\ m.q[y][i] # t /\ m.q[y][i] \in Thread
              /\ m.queue[m.q[y][i]] = y
              /\ m.state[m.q[y][i]] = IF y \in ReadyQs THEN "READY" ELSE "WAIT"
              /\ y \in ReadyQs => y = ReadyQ(m.prio[m.q[y][i]])
        /\ \A i, j \in 1..Len(m.q[y]) : m.q[y][i] = m.q[y][j] => i = j
    BY <1>5 DEF LinkedOnce, Linked
  <2>2. \A u \in Thread : u # t => n.queue[u] = m.queue[u] /\ n.state[u] = m.state[u]
    BY <1>0, <1>2, <1>8
  <2>3. n.q[y] = m.q[y] /\ n.prio = m.prio
    BY <1>2, <1>8
  <2> QED
    BY <2>1, <2>2, <2>3
<1>11. NoneLost(n, L)
  <2> SUFFICES ASSUME NEW u \in L
               PROVE  \/ n.state[u] = "ACTIVE" /\ u = n.active
                      \/ /\ n.state[u] \in {"READY", "WAIT"} /\ n.queue[u] \in Queue
                         /\ \E i \in 1..Len(n.q[n.queue[u]]) : n.q[n.queue[u]][i] = u
    BY DEF NoneLost
  <2>1. CASE u = t
    BY <1>0, <1>6, <1>8, <2>1
  <2>2. CASE u # t
    <3>1. m.state[u] # "ACTIVE" /\ n.state[u] = m.state[u] /\ n.queue[u] = m.queue[u]
      BY <1>0, <1>2, <1>8, <2>2 DEF Linked
    <3>2. /\ m.state[u] \in {"READY", "WAIT"} /\ m.queue[u] \in Queue
          /\ \E i \in 1..Len(m.q[m.queue[u]]) : m.q[m.queue[u]][i] = u
      BY <1>5, <2>2, <3>1 DEF NoneLost
    <3> QED
      BY <1>8, <3>1, <3>2
  <2> QED
    BY <2>1, <2>2
<1>12. MaskExact(n)
  <2> SUFFICES ASSUME NEW o \in Prio
               PROVE  o \in n.mask <=> n.q[ReadyQ(o)] # <<>>
    BY DEF MaskExact
  <2>1. o \in k.mask <=> k.q[ReadyQ(o)] # <<>>
    BY DEF Linked, MaskExact
  <2>2. CASE o = p
    BY <1>7, <1>8, <2>1, <2>2
  <2>3. CASE o # p
    <3>1. n.q[ReadyQ(o)] = k.q[ReadyQ(o)]
      BY <1>0, <1>2, <1>8, <2>3, QueueNames
    <3> QED
      BY <1>7, <1>8, <2>1, <2>3, <3>1
  <2> QED
    BY <2>2, <2>3
<1>13. \A x \in WaitQ : n.q[x] = k.q[x]
  BY <1>0, <1>2, <1>8, QueueNames
<1>14. n.queue[n.active] = NULL
  BY <1>0, <1>6, <1>8
<1> QED
  BY <1>0, <1>5, <1>6, <1>7, <1>8, <1>9, <1>10, <1>11, <1>12, <1>13, <1>14 DEF Linked, n

\* kthreads_schedule leaves a consistent state in which the highest priority
\* thread runs; blocked and passive threads stay as they were.  An active thread
\* only gives way to a ready one of higher priority.
LEMMA ScheduleLinks ==
    ASSUME NEW k, NEW L, Linked(k, L), schedulable(k),
           k.state[k.active] = "ACTIVE" => k.active \in L
    PROVE  LET n == kthreads_schedule(k) IN
           /\ Linked(n, L) /\ HighestRuns(n) /\ n.active \in L /\ n.prio = k.prio
           /\ \A t \in Thread : \/ n.state[t] = k.state[t]
                                \/ {n.state[t], k.state[t]} \subseteq {"ACTIVE", "READY"}
           /\ (n = k /\ k.state[k.active] = "ACTIVE") \/ n.queue[n.active] = NULL
           /\ k.state[k.active] = "ACTIVE" =>
                \/ n.active = k.active
                \/ k.state[n.active] = "READY" /\ k.prio[n.active] > k.prio[k.active]
           /\ \A x \in WaitQ : n.q[x] = k.q[x]
<1> DEFINE h == kthread_ready_list_highest(k)
           a == k.active
           n == kthreads_schedule(k)
<1>0. /\ k \in KState /\ a \in Thread /\ k.prio[a] \in Prio /\ k.mask \subseteq Prio
      /\ k.state \in [Thread -> ThreadState] /\ Prio \subseteq Int /\ L \subseteq Thread
      /\ k.prio \in [Thread -> Prio]
  BY KThreadsAssumption DEF Linked, KState, Prio
<1>1. \/ k.mask = {} /\ h = -1
      \/ k.mask # {} /\ h \in k.mask /\ h >= 0 /\ \A p \in k.mask : p <= h
  BY <1>0, HighestExists, KThreadsAssumption DEF kthread_ready_list_highest, Prio
<1>5. h \in Int /\ k.prio[a] \in Int /\ k.prio[a] >= 0 /\ \A p \in k.mask : p \in Int
  BY <1>0, <1>1, KThreadsAssumption DEF Prio
<1>6. /\ (k.state[a] = "ACTIVE" /\ ~(h > k.prio[a])) => n = k
      /\ ~(k.state[a] = "ACTIVE" /\ ~(h > k.prio[a])) =>
            n = activate_first(IF k.state[a] = "ACTIVE" THEN kthread_move_to_ready(k, a) ELSE k, h)
  BY DEF kthreads_schedule
<1>7. k.state[a] = "ACTIVE" \/ h >= 0
  BY DEF schedulable
<1>8. k.state[a] = "ACTIVE" => a \in L
  OBVIOUS
<1>9. (n = k /\ k.state[a] = "ACTIVE" /\ \A p \in k.mask : p <= k.prio[a])
        => HighestRuns(n) /\ n.active = a
  BY DEF HighestRuns
<1> HIDE DEF h, a, n
<1>2. CASE k.state[a] = "ACTIVE" /\ ~(h > k.prio[a])
  <2>1. n = k
    BY <1>2, <1>6
  <2>2. \A p \in k.mask : p <= k.prio[a]
    BY <1>1, <1>2, <1>5
  <2> QED
    BY <1>2, <1>8, <1>9, <2>1, <2>2 DEF n, a
<1>3. CASE ~(k.state[a] = "ACTIVE" /\ ~(h > k.prio[a]))
  <2> DEFINE m == IF k.state[a] = "ACTIVE" THEN kthread_move_to_ready(k, a) ELSE k
  <2>1. n = activate_first(m, h)
    BY <1>3, <1>6
  <2>2. k.mask # {} /\ h \in k.mask /\ h \in Prio /\ \A p \in k.mask : p <= h
    BY <1>0, <1>1, <1>3, <1>5, <1>7
  <2>3. /\ Linked(m, L) /\ m.prio = k.prio
        /\ \A t \in Thread : IF t = a /\ k.state[a] = "ACTIVE" THEN m.state[t] = "READY"
                             ELSE m.state[t] = k.state[t]
        /\ \A x \in WaitQ : m.q[x] = k.q[x]
        /\ h \in m.mask /\ \A p \in m.mask : p <= h
    <3>1. CASE k.state[a] = "ACTIVE"
      <4> DEFINE c == kthread_move_to_ready(k, a)
      <4>1. Linked(k, L \ {a}) /\ a \in Thread \ (L \ {a}) /\ (L \ {a}) \cup {a} = L
        BY <1>0, <1>8, <3>1, ActiveFloats
      <4>2. /\ Linked(c, L) /\ c.prio = k.prio /\ c.state = [k.state EXCEPT ![a] = "READY"]
            /\ c.mask = k.mask \cup {k.prio[a]} /\ \A x \in WaitQ : c.q[x] = k.q[x]
        BY <4>1, MoveToReadyLinks
      <4>3. m = c
        BY <3>1
      <4> HIDE DEF c, m
      <4>4. k.prio[a] <= h
        BY <1>3, <1>5, <3>1
      <4> QED
        BY <1>0, <2>2, <3>1, <4>2, <4>3, <4>4
    <3>2. CASE k.state[a] # "ACTIVE"
      BY <1>0, <2>2, <3>2
    <3> QED
      BY <3>1, <3>2
  <2> HIDE DEF m
  <2>4. \A t \in L : m.state[t] # "ACTIVE"
    BY <1>0, <2>3 DEF Linked, NoneLost, a
  <2>5. m.q[ReadyQ(h)] # <<>>
    BY <2>2, <2>3 DEF Linked, MaskExact
  <2>6. /\ Linked(n, L) /\ n.active \in L /\ n.state[n.active] = "ACTIVE"
        /\ n.prio = m.prio /\ n.prio[n.active] = h /\ n.mask \subseteq m.mask
        /\ m.state[n.active] = "READY"
        /\ n.state = [m.state EXCEPT ![n.active] = "ACTIVE"]
        /\ n.queue[n.active] = NULL
        /\ \A x \in WaitQ : n.q[x] = m.q[x]
    BY <2>1, <2>2, <2>3, <2>4, <2>5, ActivateFirst
  <2>7. HighestRuns(n)
    BY <2>3, <2>6 DEF HighestRuns
  <2>8. m.state \in [Thread -> ThreadState]
    BY <2>3 DEF Linked, KState
  <2>9. \A t \in Thread : \/ n.state[t] = k.state[t]
                          \/ {n.state[t], k.state[t]} \subseteq {"ACTIVE", "READY"}
    BY <1>0, <2>3, <2>6, <2>8
  <2>10. k.state[a] = "ACTIVE" => k.state[n.active] = "READY" /\ k.prio[n.active] > k.prio[a]
    <3> SUFFICES ASSUME k.state[a] = "ACTIVE"
                 PROVE  k.state[n.active] = "READY" /\ k.prio[n.active] > k.prio[a]
      OBVIOUS
    <3>1. h > k.prio[a]
      BY <1>3
    <3>2. k.prio[n.active] = h /\ n.active \in Thread
      BY <1>0, <2>3, <2>6
    <3>3. n.active # a
      BY <1>5, <3>1, <3>2
    <3> QED
      BY <2>3, <2>6, <3>1, <3>2, <3>3
  <2> QED
    BY <2>3, <2>6, <2>7, <2>9, <2>10 DEF n, a
<1> QED
  BY <1>2, <1>3

\* Where the highest ready priority runs, no ready thread is above the active one.
LEMMA NoneAbove ==
    ASSUME NEW k, NEW L, Linked(k, L), HighestRuns(k), NEW t \in L, k.state[t] = "READY"
    PROVE  ~(k.prio[t] > k.prio[k.active])
<1>1. /\ t \in Thread /\ k.prio[t] \in Prio /\ k.prio[k.active] \in Prio /\ Prio \subseteq Int
      /\ k.q \in [Queue -> Seq(Thread)]
  BY KThreadsAssumption DEF Linked, KState, Prio
<1>2. /\ k.queue[t] \in Queue
      /\ \E i \in 1..Len(k.q[k.queue[t]]) : k.q[k.queue[t]][i] = t
  BY DEF Linked, NoneLost
<1>3. k.queue[t] \in ReadyQs /\ k.queue[t] = ReadyQ(k.prio[t])
  BY <1>2 DEF Linked, LinkedOnce
<1>4. k.q[ReadyQ(k.prio[t])] # <<>>
  BY <1>2, <1>3
<1>5. k.prio[t] \in k.mask
  BY <1>1, <1>4 DEF Linked, MaskExact
<1>6. k.prio[t] <= k.prio[k.active]
  BY <1>5 DEF HighestRuns
<1>7. k.prio[t] \in Int /\ k.prio[k.active] \in Int
  BY <1>1
<1> QED
  BY <1>6, <1>7

-----------------------------------------------------------------------------
\* RemoveFirst takes the named thread, and only it, out of a queue.
LEMMA RemoveFirstMember ==
    ASSUME NEW s \in Seq(Thread), NEW m \in 1..Len(s),
           \A i, j \in 1..Len(s) : s[i] = s[j] => i = j
    PROVE  /\ RemoveFirst(s, s[m]) \in Seq(Thread)
           /\ Len(RemoveFirst(s, s[m])) = Len(s) - 1
           /\ \A i \in 1..Len(s) - 1 :
                RemoveFirst(s, s[m])[i] = IF i < m THEN s[i] ELSE s[i + 1]
<1>0. Len(s) \in Nat
  BY LenProperties
<1>1. {i \in 1..Len(s) : s[i] = s[m]} = {m}
  OBVIOUS
<1>2. Min({m}) = m
  BY <1>0 DEF Min
<1>3. RemoveFirst(s, s[m]) = RemoveAt(s, m)
  BY <1>1, <1>2 DEF RemoveFirst, SelectInSeq
<1> DEFINE a == SubSeq(s, 1, m - 1)
           b == SubSeq(s, m + 1, Len(s))
<1>4. /\ a \in Seq(Thread) /\ Len(a) = m - 1
      /\ \A i \in 1..m - 1 : a[i] = s[i]
  BY <1>0, SubSeqProperties
<1>5. /\ b \in Seq(Thread) /\ Len(b) = Len(s) - m
      /\ \A i \in 1..Len(s) - m : b[i] = s[m + i]
  BY <1>0, SubSeqProperties
<1>6. RemoveAt(s, m) = a \o b
  BY DEF RemoveAt
<1> HIDE DEF a, b
<1>9. a \in Seq(Thread) /\ b \in Seq(Thread)
  BY <1>4, <1>5
<1>7. a \o b \in Seq(Thread) /\ Len(a \o b) = Len(a) + Len(b)
  BY <1>9, ConcatProperties
<1>10. \A i \in 1..Len(a) + Len(b) :
            (a \o b)[i] = IF i <= Len(a) THEN a[i] ELSE b[i - Len(a)]
  BY <1>9, ConcatProperties
<1>8. ASSUME NEW i \in 1..Len(s) - 1
      PROVE  (a \o b)[i] = IF i < m THEN s[i] ELSE s[i + 1]
  <2>1. CASE i < m
    BY <1>0, <1>4, <1>5, <1>10, <2>1
  <2>2. CASE ~(i < m)
    <3>1. i - (m - 1) \in 1..Len(s) - m /\ m + (i - (m - 1)) = i + 1
      BY <1>0, <2>2
    <3>2. (a \o b)[i] = b[i - (m - 1)]
      BY <1>0, <1>4, <1>5, <1>10, <2>2
    <3> QED
      BY <1>5, <2>2, <3>1, <3>2
  <2> QED
    BY <2>1, <2>2
<1> QED
  <2>1. RemoveFirst(s, s[m]) = a \o b
    BY <1>3, <1>6
  <2>2. Len(a \o b) = Len(s) - 1
    BY <1>0, <1>4, <1>5, <1>7
  <2>3. a \o b \in Seq(Thread)
    BY <1>7
  <2> QED
    BY <1>8, <2>1, <2>2, <2>3

\* A linked thread that is not active is at one position of the queue its
\* descriptor names.
LEMMA QueuedAt ==
    ASSUME NEW k, NEW L, Linked(k, L), NEW t \in L, k.state[t] # "ACTIVE"
    PROVE  /\ k.state[t] \in {"READY", "WAIT"} /\ k.queue[t] \in Queue
           /\ \E m \in 1..Len(k.q[k.queue[t]]) : k.q[k.queue[t]][m] = t
           /\ k.state[t] = IF k.queue[t] \in ReadyQs THEN "READY" ELSE "WAIT"
           /\ k.state[t] = "READY" => k.queue[t] = ReadyQ(k.prio[t])
           /\ \A i, j \in 1..Len(k.q[k.queue[t]]) :
                 k.q[k.queue[t]][i] = k.q[k.queue[t]][j] => i = j
<1>1. /\ k.state[t] \in {"READY", "WAIT"} /\ k.queue[t] \in Queue
      /\ \E m \in 1..Len(k.q[k.queue[t]]) : k.q[k.queue[t]][m] = t
  BY DEF Linked, NoneLost
<1>2. PICK m \in 1..Len(k.q[k.queue[t]]) : k.q[k.queue[t]][m] = t
  BY <1>1
<1>3. /\ k.state[t] = IF k.queue[t] \in ReadyQs THEN "READY" ELSE "WAIT"
      /\ k.queue[t] \in ReadyQs => k.queue[t] = ReadyQ(k.prio[t])
      /\ \A i, j \in 1..Len(k.q[k.queue[t]]) :
            k.q[k.queue[t]][i] = k.q[k.queue[t]][j] => i = j
  BY SMTT(30), <1>1, <1>2 DEF Linked, LinkedOnce
<1> QED
  BY <1>1, <1>3

\* kthread_unlink takes a thread out of scheduling and leaves the others linked.
LEMMA UnlinkFloats ==
    ASSUME NEW k, NEW L, Linked(k, L), NEW t \in L
    PROVE  LET n == kthread_unlink(k, t) IN
           /\ Linked(n, L \ {t})
           /\ n.prio = k.prio /\ n.active = k.active
           /\ \A u \in Thread : n.state[u] = k.state[u]
                                \/ (u = t /\ k.state[u] = "ACTIVE" /\ n.state[u] = "PASSIVE")
           /\ k.state[t] = "ACTIVE" => n.state[t] = "PASSIVE"
<1> DEFINE n == kthread_unlink(k, t)
<1>0. /\ k \in KState /\ t \in Thread /\ k.q \in [Queue -> Seq(Thread)]
      /\ k.state \in [Thread -> ThreadState] /\ k.mask \subseteq Prio
      /\ k.prio \in [Thread -> Prio] /\ L \subseteq Thread
      /\ LinkedOnce(k, L) /\ NoneLost(k, L) /\ MaskExact(k)
  BY DEF Linked, KState
<1>1. CASE k.state[t] = "ACTIVE"
  <2>1. n = [k EXCEPT !.state[t] = "PASSIVE"]
    BY <1>1 DEF kthread_unlink
  <2> HIDE DEF n
  <2>2. /\ n \in KState /\ n.q = k.q /\ n.queue = k.queue /\ n.prio = k.prio
        /\ n.state = [k.state EXCEPT ![t] = "PASSIVE"]
        /\ n.mask = k.mask /\ n.active = k.active
    BY <1>0, <2>1 DEF KState, ThreadState
  <2>3. Linked(k, L \ {t})
    BY <1>1, ActiveFloats
  <2>4. \A x \in Queue : \A i \in 1..Len(k.q[x]) :
            k.q[x][i] # t /\ n.state[k.q[x][i]] = k.state[k.q[x][i]]
    BY <1>0, <2>2, <2>3 DEF Linked, LinkedOnce
  <2>5. LinkedOnce(n, L \ {t})
    BY <2>2, <2>3, <2>4 DEF Linked, LinkedOnce
  <2>6. \A u \in L \ {t} : n.state[u] = k.state[u]
    BY <1>0, <2>2
  <2>7. NoneLost(n, L \ {t})
    BY <2>2, <2>3, <2>6 DEF Linked, NoneLost
  <2>8. MaskExact(n)
    BY <1>0, <2>2 DEF MaskExact
  <2> QED
    BY <1>0, <1>1, <2>2, <2>5, <2>7, <2>8 DEF Linked, n
<1>2. CASE k.state[t] # "ACTIVE"
  <2> DEFINE x == k.queue[t]
             s == RemoveFirst(k.q[x], t)
             r == [k EXCEPT !.q[x] = s]
  <2>1. /\ k.state[t] \in {"READY", "WAIT"} /\ x \in Queue
        /\ k.state[t] = IF x \in ReadyQs THEN "READY" ELSE "WAIT"
        /\ k.state[t] = "READY" => x = ReadyQ(k.prio[t])
        /\ \A i, j \in 1..Len(k.q[x]) : k.q[x][i] = k.q[x][j] => i = j
    BY <1>2, QueuedAt
  <2>2. PICK m \in 1..Len(k.q[x]) : k.q[x][m] = t
    BY <1>2, QueuedAt
  <2>3. /\ s \in Seq(Thread) /\ Len(s) = Len(k.q[x]) - 1
        /\ \A i \in 1..Len(k.q[x]) - 1 : s[i] = IF i < m THEN k.q[x][i] ELSE k.q[x][i + 1]
    <3> DEFINE w == k.q[x]
    <3>1. /\ w \in Seq(Thread) /\ m \in 1..Len(w) /\ t = w[m]
          /\ \A i, j \in 1..Len(w) : w[i] = w[j] => i = j
      BY <1>0, <2>1, <2>2
    <3>2. s = RemoveFirst(w, t)
      OBVIOUS
    <3> HIDE DEF w, s
    <3>3. /\ RemoveFirst(w, w[m]) \in Seq(Thread)
          /\ Len(RemoveFirst(w, w[m])) = Len(w) - 1
          /\ \A i \in 1..Len(w) - 1 :
                RemoveFirst(w, w[m])[i] = IF i < m THEN w[i] ELSE w[i + 1]
      BY <3>1, RemoveFirstMember
    <3>4. /\ s \in Seq(Thread) /\ Len(s) = Len(w) - 1
          /\ \A i \in 1..Len(w) - 1 : s[i] = IF i < m THEN w[i] ELSE w[i + 1]
      BY <3>1, <3>2, <3>3
    <3> QED
      BY <3>4 DEF w
  <2>4. n = IF k.state[t] = "READY" THEN clear_if_empty(r, k.prio[t]) ELSE r
    BY <2>1 DEF kthread_unlink, kthreadq_remove
  <2> HIDE DEF n, s
  <2>5. /\ r \in KState /\ r.q = [k.q EXCEPT ![x] = s] /\ r.queue = k.queue
        /\ r.state = k.state /\ r.prio = k.prio /\ r.active = k.active /\ r.mask = k.mask
    BY <1>0, <2>1, <2>3 DEF KState
  <2> HIDE DEF r, x
  <2>6. LinkedOnce(r, L \ {t}) /\ NoneLost(r, L \ {t})
    <3>1. LET u == k.q[x][m] IN
          LinkedOnce(r, L \ {u}) /\ NoneLost(r, L \ {u}) /\ u \in L
      BY <1>0, <2>1, <2>3, <2>5, RemoveFloats
    <3> QED
      BY <2>2, <3>1
  <2>7. CASE k.state[t] = "READY"
    <3> DEFINE p == k.prio[t]
    <3>1. p \in Prio /\ x = ReadyQ(p)
      BY <1>0, <2>1, <2>7
    <3>2. n = IF r.q[ReadyQ(p)] = <<>> THEN [r EXCEPT !.mask = r.mask \ {p}] ELSE r
      BY <2>4, <2>7 DEF clear_if_empty
    <3>3. /\ n \in KState /\ n.q = r.q /\ n.queue = r.queue /\ n.state = r.state
          /\ n.prio = r.prio /\ n.active = r.active
          /\ n.mask = IF r.q[ReadyQ(p)] = <<>> THEN r.mask \ {p} ELSE r.mask
      BY <2>5, <3>2 DEF KState
    <3> HIDE DEF p
    <3>4. LinkedOnce(n, L \ {t}) /\ NoneLost(n, L \ {t})
      <4>1. LinkedOnce(n, L \ {t})
        BY <2>6, <3>3 DEF LinkedOnce
      <4>2. NoneLost(n, L \ {t})
        BY <2>6, <3>3 DEF NoneLost
      <4> QED
        BY <4>1, <4>2
    <3>5. MaskExact(n)
      <4> SUFFICES ASSUME NEW o \in Prio
                   PROVE  o \in n.mask <=> n.q[ReadyQ(o)] # <<>>
        BY DEF MaskExact
      <4>1. o \in k.mask <=> k.q[ReadyQ(o)] # <<>>
        BY <1>0 DEF MaskExact
      <4>2. CASE o = p
        <5>1. k.q[x] # <<>>
          BY <1>0, <2>1, <2>2
        <5> QED
          BY <2>5, <3>1, <3>3, <4>1, <4>2, <5>1
      <4>3. CASE o # p
        <5>1. n.q[ReadyQ(o)] = k.q[ReadyQ(o)]
          BY <1>0, <2>5, <3>1, <3>3, <4>3, QueueNames
        <5> QED
          BY <2>5, <3>3, <4>1, <4>3, <5>1
      <4> QED
        BY <4>2, <4>3
    <3> QED
      BY <1>0, <1>2, <2>5, <3>3, <3>4, <3>5 DEF Linked, n
  <2>8. CASE k.state[t] = "WAIT"
    <3>1. n = r /\ x \notin ReadyQs
      BY <2>1, <2>4, <2>8
    <3>2. MaskExact(r)
      BY <1>0, <2>5, <3>1, QueueNames DEF MaskExact
    <3> QED
      BY <1>0, <1>2, <2>5, <2>6, <3>1, <3>2 DEF Linked, n
  <2> QED
    BY <2>1, <2>7, <2>8
<1> QED
  BY <1>1, <1>2

\* The priority of a floating descriptor can be set.
LEMMA SetPrioFloats ==
    ASSUME NEW k, NEW L, Linked(k, L), NEW t \in Thread \ L, NEW p \in Prio
    PROVE  LET n == [k EXCEPT !.prio[t] = p] IN
           /\ Linked(n, L)
           /\ n.state = k.state /\ n.active = k.active /\ n.q = k.q
           /\ n.prio = [k.prio EXCEPT ![t] = p]
<1> DEFINE n == [k EXCEPT !.prio[t] = p]
<1>1. /\ n \in KState /\ n.q = k.q /\ n.queue = k.queue /\ n.state = k.state
      /\ n.mask = k.mask /\ n.active = k.active /\ n.prio = [k.prio EXCEPT ![t] = p]
      /\ k.prio \in [Thread -> Prio] /\ k.q \in [Queue -> Seq(Thread)]
  BY DEF Linked, KState
<1> HIDE DEF n
<1>2. LinkedOnce(k, L) /\ NoneLost(k, L) /\ MaskExact(k) /\ L \subseteq Thread
  BY DEF Linked
<1>3. \A x \in Queue : \A i \in 1..Len(k.q[x]) :
          k.q[x][i] \in L /\ n.prio[k.q[x][i]] = k.prio[k.q[x][i]]
  BY <1>1, <1>2 DEF LinkedOnce
<1>4. LinkedOnce(n, L)
  BY <1>1, <1>2, <1>3 DEF LinkedOnce
<1>5. NoneLost(n, L) /\ MaskExact(n)
  BY <1>1, <1>2 DEF NoneLost, MaskExact
<1> QED
  BY <1>1, <1>2, <1>4, <1>5 DEF Linked, n

\* While the idle thread is linked and neither blocked nor ended, there is
\* something to run.
LEMMA IdleSchedulable ==
    ASSUME NEW k, NEW L, Linked(k, L), Idle \in L, k.state[Idle] \in {"ACTIVE", "READY"}
    PROVE  schedulable(k)
<1>1. CASE k.state[Idle] = "ACTIVE"
  BY <1>1 DEF Linked, NoneLost, schedulable
<1>2. CASE k.state[Idle] = "READY"
  <2>1. k.queue[Idle] = ReadyQ(k.prio[Idle]) /\ k.queue[Idle] \in Queue
    BY <1>2, QueuedAt
  <2>2. k.prio[Idle] \in Prio /\ k.mask \subseteq Prio /\ k.q \in [Queue -> Seq(Thread)]
    BY KThreadsAssumption DEF Linked, KState
  <2>3. k.q[ReadyQ(k.prio[Idle])] # <<>>
    <3>1. PICK m \in 1..Len(k.q[k.queue[Idle]]) : TRUE
      BY <1>2, QueuedAt
    <3> QED
      BY <2>1, <2>2, <3>1
  <2>4. k.prio[Idle] \in k.mask
    BY <2>2, <2>3 DEF Linked, MaskExact
  <2>5. Max(k.mask) \in k.mask
    BY <2>2, <2>4, HighestExists
  <2>6. kthread_ready_list_highest(k) \in Prio
    BY <2>2, <2>4, <2>5 DEF kthread_ready_list_highest
  <2> QED
    BY <2>6, KThreadsAssumption DEF schedulable, Prio
<1> QED
  BY <1>1, <1>2

-----------------------------------------------------------------------------
\* Who stands in which queue.
Stands(s, u) == \E i \in 1..Len(s) : s[i] = u

\* Removing the first element of a queue without repetitions removes its head
\* and nobody else.
LEMMA TailStands ==
    ASSUME NEW s \in Seq(Thread), s # <<>>,
           \A i, j \in 1..Len(s) : s[i] = s[j] => i = j
    PROVE  \A u : Stands(Tail(s), u) <=> u # Head(s) /\ Stands(s, u)
<1> SUFFICES ASSUME NEW u
             PROVE  (\E i \in 1..Len(Tail(s)) : Tail(s)[i] = u)
                        <=> u # Head(s) /\ \E i \in 1..Len(s) : s[i] = u
  BY DEF Stands
<1>0. /\ Tail(s) \in Seq(Thread) /\ Head(s) = s[1] /\ Len(s) \in Nat
      /\ Len(s) >= 1 /\ Len(Tail(s)) = Len(s) - 1
      /\ \A i \in 1..Len(Tail(s)) : Tail(s)[i] = s[i + 1]
  BY TailMember
<1>1. ASSUME NEW i \in 1..Len(Tail(s)), Tail(s)[i] = u
      PROVE  u # Head(s) /\ \E j \in 1..Len(s) : s[j] = u
  <2>1. i + 1 \in 1..Len(s) /\ 1 \in 1..Len(s) /\ i + 1 # 1 /\ s[i + 1] = u
    BY <1>0, <1>1
  <2> QED
    BY <1>0, <2>1
<1>2. ASSUME u # Head(s), NEW i \in 1..Len(s), s[i] = u
      PROVE  \E j \in 1..Len(Tail(s)) : Tail(s)[j] = u
  <2>1. i # 1
    BY <1>0, <1>2
  <2>2. i - 1 \in 1..Len(Tail(s)) /\ Tail(s)[i - 1] = s[(i - 1) + 1] /\ (i - 1) + 1 = i
    BY <1>0, <2>1
  <2> QED
    BY <1>2, <2>2
<1> QED
  BY <1>1, <1>2

\* Appending t adds t and nobody else.
LEMMA AppendStands ==
    ASSUME NEW s \in Seq(Thread), NEW t \in Thread
    PROVE  \A u : Stands(Append(s, t), u) <=> u = t \/ Stands(s, u)
<1> SUFFICES ASSUME NEW u
             PROVE  (\E i \in 1..Len(Append(s, t)) : Append(s, t)[i] = u)
                        <=> u = t \/ \E i \in 1..Len(s) : s[i] = u
  BY DEF Stands
<1>0. /\ Len(s) \in Nat /\ Len(Append(s, t)) = Len(s) + 1
      /\ \A i \in 1..Len(s) : Append(s, t)[i] = s[i]
      /\ Append(s, t)[Len(s) + 1] = t
  BY AppendMember
<1> QED
  BY <1>0

\* A thread stands in a queue of blocked threads exactly when its descriptor says
\* that it is blocked there.
LEMMA StandsIff ==
    ASSUME NEW k, NEW L, Linked(k, L)
    PROVE  \A x \in WaitQ, u \in Thread :
               Stands(k.q[x], u) <=> u \in L /\ k.state[u] = "WAIT" /\ k.queue[u] = x
<1> SUFFICES ASSUME NEW x \in WaitQ, NEW u \in Thread
             PROVE  Stands(k.q[x], u) <=> u \in L /\ k.state[u] = "WAIT" /\ k.queue[u] = x
  OBVIOUS
<1>1. x \in Queue /\ x \notin ReadyQs
  BY QueueNames
<1>2. Stands(k.q[x], u) => u \in L /\ k.state[u] = "WAIT" /\ k.queue[u] = x
  BY <1>1 DEF Linked, LinkedOnce, Stands
<1>3. u \in L /\ k.state[u] = "WAIT" /\ k.queue[u] = x => Stands(k.q[x], u)
  BY DEF Linked, NoneLost, Stands
<1> QED
  BY <1>2, <1>3

\* kthread_unlink takes its thread, and nobody else, out of the queues.
LEMMA UnlinkStands ==
    ASSUME NEW k, NEW L, Linked(k, L), NEW t \in L
    PROVE  LET n == kthread_unlink(k, t) IN
           \A x \in WaitQ, u \in Thread : Stands(n.q[x], u) <=> Stands(k.q[x], u) /\ u # t
<1> DEFINE n == kthread_unlink(k, t)
<1>1. /\ Linked(n, L \ {t})
      /\ \A u \in Thread : n.state[u] = k.state[u] \/ u = t
  BY UnlinkFloats
<1>2. n.queue = k.queue
  BY DEF kthread_unlink, kthreadq_remove, clear_if_empty, Linked, KState
<1> HIDE DEF n
<1>3. \A x \in WaitQ, u \in Thread :
          Stands(n.q[x], u) <=> u \in L \ {t} /\ n.state[u] = "WAIT" /\ n.queue[u] = x
  BY <1>1, StandsIff
<1>4. \A x \in WaitQ, u \in Thread :
          Stands(k.q[x], u) <=> u \in L /\ k.state[u] = "WAIT" /\ k.queue[u] = x
  BY StandsIff
<1>5. \A x \in WaitQ, u \in Thread : Stands(n.q[x], u) <=> Stands(k.q[x], u) /\ u # t
  BY <1>1, <1>2, <1>3, <1>4
<1> QED
  BY <1>5 DEF n

\* kthread_enqueue adds its thread to one queue.
LEMMA EnqueueStands ==
    ASSUME NEW k, NEW L, Linked(k, L), NEW t \in Thread \ L, NEW x \in WaitQ
    PROVE  LET n == kthread_enqueue(k, t, x) IN
           \A y \in WaitQ, u \in Thread :
               Stands(n.q[y], u) <=> Stands(k.q[y], u) \/ (y = x /\ u = t)
<1> DEFINE n == kthread_enqueue(k, t, x)
<1>1. k \in KState /\ x \in Queue /\ k.q[x] \in Seq(Thread) /\ k.q \in [Queue -> Seq(Thread)]
  BY QueueNames DEF Linked, KState
<1>2. n.q = [k.q EXCEPT ![x] = Append(k.q[x], t)]
  BY <1>1 DEF kthread_enqueue, KState
<1>3. n.q[x] = Append(k.q[x], t) /\ \A y \in WaitQ : y # x => n.q[y] = k.q[y]
  BY <1>1, <1>2, QueueNames
<1> HIDE DEF n
<1>4. \A u : Stands(n.q[x], u) <=> u = t \/ Stands(k.q[x], u)
  BY <1>1, <1>3, AppendStands
<1>5. \A y \in WaitQ, u \in Thread :
               Stands(n.q[y], u) <=> Stands(k.q[y], u) \/ (y = x /\ u = t)
  BY <1>3, <1>4
<1> QED
  BY <1>5 DEF n

\* kthreadq_release takes the first thread, and nobody else, out of its queue.
LEMMA ReleaseStands ==
    ASSUME NEW k, NEW L, Linked(k, L), NEW x \in WaitQ
    PROVE  LET n == kthreadq_release(k, x) IN
           /\ \A y \in WaitQ, u \in Thread : Stands(n.q[y], u) => Stands(k.q[y], u)
           /\ \A y \in WaitQ \ {x}, u \in Thread : Stands(k.q[y], u) => Stands(n.q[y], u)
           /\ \A u \in Thread : Stands(k.q[x], u) /\ u # Head(k.q[x]) => Stands(n.q[x], u)
<1> DEFINE n == kthreadq_release(k, x)
           h == Head(k.q[x])
           r == ReadyQ(k.prio[h])
<1>1. /\ k \in KState /\ x \in Queue /\ k.q[x] \in Seq(Thread) /\ k.q \in [Queue -> Seq(Thread)]
      /\ k.prio \in [Thread -> Prio]
      /\ \A i, j \in 1..Len(k.q[x]) : k.q[x][i] = k.q[x][j] => i = j
  BY QueueNames DEF Linked, LinkedOnce, KState
<1>2. CASE k.q[x] = <<>>
  BY <1>2 DEF kthreadq_release
<1>3. CASE k.q[x] # <<>>
  <2>1. h \in Thread
    BY <1>1, <1>3, TailMember
  <2>2. r \in Queue /\ r \in ReadyQs /\ r # x /\ r \notin WaitQ
    BY <1>1, <2>1, QueueNames
  <2>3. n.q = [[k.q EXCEPT ![x] = Tail(k.q[x])] EXCEPT ![r] = Append(@, h)]
    BY <1>1, <1>3 DEF kthreadq_release, kthread_move_to_ready, KState
  <2> HIDE DEF n, r
  <2>4. n.q[x] = Tail(k.q[x]) /\ \A y \in WaitQ \ {x} : n.q[y] = k.q[y]
    BY <1>1, <2>2, <2>3, QueueNames
  <2>5. \A u : Stands(Tail(k.q[x]), u) <=> u # h /\ Stands(k.q[x], u)
    BY <1>1, <1>3, TailStands
  <2>6. /\ \A y \in WaitQ, u \in Thread : Stands(n.q[y], u) => Stands(k.q[y], u)
        /\ \A y \in WaitQ \ {x}, u \in Thread : Stands(k.q[y], u) => Stands(n.q[y], u)
        /\ \A u \in Thread : Stands(k.q[x], u) /\ u # h => Stands(n.q[x], u)
    BY <2>4, <2>5
  <2> QED
    BY <2>6 DEF n
<1> QED
  BY <1>2, <1>3

\* kthreads_schedule, applied to a consistent state in which the idle thread can
\* run, re-establishes what must hold when the kernel returns to user code.
LEMMA ScheduleIdle ==
    ASSUME NEW m, NEW L, Linked(m, L), Idle \in L,
           m.state[Idle] \in {"ACTIVE", "READY"},
           m.state[m.active] = "ACTIVE" => m.active \in L
    PROVE  LET n == kthreads_schedule(m) IN
           /\ Linked(n, L) /\ HighestRuns(n) /\ n.active \in L
           /\ n.state[Idle] \in {"ACTIVE", "READY"}
           /\ \A x \in WaitQ : n.q[x] = m.q[x]
           /\ \A t \in Thread : m.state[t] = "PASSIVE" => n.state[t] = "PASSIVE"
<1> DEFINE n == kthreads_schedule(m)
<1>1. schedulable(m)
  BY IdleSchedulable
<1>2. /\ Linked(n, L) /\ HighestRuns(n) /\ n.active \in L
      /\ \A t \in Thread : \/ n.state[t] = m.state[t]
                           \/ {n.state[t], m.state[t]} \subseteq {"ACTIVE", "READY"}
      /\ \A x \in WaitQ : n.q[x] = m.q[x]
  BY <1>1, ScheduleLinks
<1> HIDE DEF n
<1>3. n.state[Idle] \in {"ACTIVE", "READY"}
  BY <1>2, KThreadsAssumption
<1>4. \A t \in Thread : m.state[t] = "PASSIVE" => n.state[t] = "PASSIVE"
  BY <1>2
<1> QED
  BY <1>2, <1>3, <1>4 DEF n

-----------------------------------------------------------------------------
\* What the calls made for a fixed set of threads keep: every thread stays linked,
\* the idle thread can run, and only the queues a call names change.

\* Every thread is linked, and the idle thread neither blocked nor ended.
AllLinked(m) == Linked(m, Thread) /\ m.state[Idle] \in {"ACTIVE", "READY"}

\* What kthreads_schedule leaves behind.
LEMMA ScheduleAll ==
    ASSUME NEW m, AllLinked(m)
    PROVE  LET n == kthreads_schedule(m) IN
           /\ AllLinked(n) /\ HighestRuns(n)
           /\ (n = m /\ m.state[m.active] = "ACTIVE") \/ n.queue[n.active] = NULL
           /\ \A x \in WaitQ : n.q[x] = m.q[x]
<1> DEFINE n == kthreads_schedule(m)
<1>1. Linked(m, Thread) /\ m.state[Idle] \in {"ACTIVE", "READY"} /\ Idle \in Thread
  BY KThreadsAssumption DEF AllLinked
<1>2. schedulable(m)
  BY <1>1, IdleSchedulable
<1>3. m.active \in Thread
  BY <1>1 DEF Linked, KState
<1>4. /\ Linked(n, Thread) /\ HighestRuns(n)
      /\ \A t \in Thread : \/ n.state[t] = m.state[t]
                           \/ {n.state[t], m.state[t]} \subseteq {"ACTIVE", "READY"}
      /\ (n = m /\ m.state[m.active] = "ACTIVE") \/ n.queue[n.active] = NULL
      /\ \A x \in WaitQ : n.q[x] = m.q[x]
  BY <1>1, <1>2, <1>3, ScheduleLinks
<1> HIDE DEF n
<1>5. n.state[Idle] \in {"ACTIVE", "READY"}
  BY <1>1, <1>4
<1>6. /\ AllLinked(n) /\ HighestRuns(n)
      /\ (n = m /\ m.state[m.active] = "ACTIVE") \/ n.queue[n.active] = NULL
      /\ \A x \in WaitQ : n.q[x] = m.q[x]
  BY <1>4, <1>5 DEF AllLinked
<1> QED
  BY <1>6 DEF n

\* The active thread, not the idle one, is put at the end of queue x.
LEMMA EnqueueAll ==
    ASSUME NEW m, AllLinked(m), NEW t \in Worker, m.active = t, m.state[t] = "ACTIVE",
           NEW x \in WaitQ
    PROVE  LET n == kthread_enqueue(m, t, x) IN
           /\ AllLinked(n)
           /\ n.q[x] = Append(m.q[x], t)
           /\ \A y \in WaitQ \ {x} : n.q[y] = m.q[y]
<1> DEFINE F == Thread \ {t}
           n == kthread_enqueue(m, t, x)
<1>1. /\ Linked(m, Thread) /\ m.state[Idle] \in {"ACTIVE", "READY"} /\ t \in Thread /\ t # Idle
      /\ m \in KState /\ x \in Queue
  BY QueueNames DEF AllLinked, Worker, Linked
<1>2. Linked(m, F)
  BY <1>1, ActiveFloats
<1>3. t \in Thread \ F /\ F \cup {t} = Thread
  BY <1>1
<1> HIDE DEF F
<1>4. /\ Linked(n, F \cup {t}) /\ n.state = [m.state EXCEPT ![t] = "WAIT"]
      /\ \A y \in WaitQ \ {x} : n.q[y] = m.q[y]
  BY SMTT(30), <1>2, <1>3, EnqueueLinks
<1>5. n.q[x] = Append(m.q[x], t)
  <2>1. n.q = [m.q EXCEPT ![x] = Append(m.q[x], t)] /\ m.q \in [Queue -> Seq(Thread)]
    BY <1>1 DEF kthread_enqueue, KState
  <2> QED
    BY <1>1, <2>1
<1> HIDE DEF n
<1>6. n.state[Idle] \in {"ACTIVE", "READY"}
  BY <1>1, <1>4, KThreadsAssumption DEF KState
<1>7. AllLinked(n)
  BY <1>3, <1>4, <1>6 DEF AllLinked
<1> QED
  BY <1>4, <1>5, <1>7 DEF n

\* The first thread of queue x, if there is one, becomes ready.
LEMMA ReleaseAll ==
    ASSUME NEW m, AllLinked(m), NEW x \in WaitQ
    PROVE  LET n == kthreadq_release(m, x) IN
           /\ AllLinked(n) /\ n.active = m.active
           /\ m.q[x] = <<>> => n.q[x] = <<>>
           /\ m.q[x] # <<>> => n.q[x] = Tail(m.q[x])
           /\ \A y \in WaitQ \ {x} : n.q[y] = m.q[y]
<1> DEFINE n == kthreadq_release(m, x)
<1>1. /\ Linked(m, Thread) /\ m.state[Idle] \in {"ACTIVE", "READY"}
      /\ m \in KState /\ x \in Queue /\ x \notin ReadyQs
      /\ m.q \in [Queue -> Seq(Thread)] /\ m.prio \in [Thread -> Prio]
  BY QueueNames DEF AllLinked, Linked, KState
<1>2. /\ Linked(n, Thread) /\ n.active = m.active
      /\ \A t \in Thread : n.state[t] = m.state[t]
                           \/ (m.state[t] = "WAIT" /\ n.state[t] = "READY")
      /\ \A y \in WaitQ \ {x} : n.q[y] = m.q[y]
  BY <1>1, ReleaseLinks
<1>3. m.q[x] = <<>> => n.q[x] = <<>>
  BY DEF kthreadq_release
<1>4. ASSUME m.q[x] # <<>> PROVE n.q[x] = Tail(m.q[x])
  <2> DEFINE t == Head(m.q[x])
             u == [m EXCEPT !.q[x] = Tail(m.q[x])]
             r == ReadyQ(m.prio[t])
  <2>1. t \in Thread /\ m.q[x] \in Seq(Thread)
    BY <1>1, <1>4, TailMember
  <2>2. r \in ReadyQs /\ r \in Queue
    BY <1>1, <2>1, QueueNames
  <2>3. n = kthread_move_to_ready(u, t)
    BY <1>4 DEF kthreadq_release
  <2>4. u.q = [m.q EXCEPT ![x] = Tail(m.q[x])] /\ u.prio = m.prio
    BY <1>1 DEF KState
  <2> HIDE DEF u
  <2>5. n.q = [u.q EXCEPT ![ReadyQ(u.prio[t])] = Append(u.q[ReadyQ(u.prio[t])], t)]
    <3>1. u \in [state : [Thread -> ThreadState], prio : [Thread -> Prio],
                 queue : [Thread -> Queue \cup {NULL}], q : [Queue -> Seq(Thread)],
                 mask : SUBSET Prio, active : Thread]
      <4>1. Tail(m.q[x]) \in Seq(Thread)
        BY <1>4, <2>1, TailMember
      <4> QED
        BY <1>1, <2>4, <4>1 DEF u, KState
    <3> QED
      BY <2>3, <3>1 DEF kthread_move_to_ready
  <2> HIDE DEF t
  <2>6. n.q[x] = u.q[x]
    BY <1>1, <2>2, <2>4, <2>5
  <2> QED
    BY <1>1, <2>4, <2>6
<1> HIDE DEF n
<1>5. n.state[Idle] \in {"ACTIVE", "READY"}
  BY <1>1, <1>2, KThreadsAssumption
<1>6. AllLinked(n)
  BY <1>2, <1>5 DEF AllLinked
<1> QED
  BY <1>2, <1>3, <1>4, <1>6 DEF n

\* The running worker blocks in queue x.
LEMMA BlockAll ==
    ASSUME NEW m, AllLinked(m), HighestRuns(m), NEW t \in Worker, m.active = t,
           NEW x \in WaitQ
    PROVE  LET n == kthreads_schedule(kthread_enqueue(m, t, x)) IN
           /\ AllLinked(n) /\ HighestRuns(n)
           /\ n.q[x] = Append(m.q[x], t)
           /\ \A y \in WaitQ \ {x} : n.q[y] = m.q[y]
<1> DEFINE r == kthread_enqueue(m, t, x)
<1>1. m.state[t] = "ACTIVE"
  BY DEF HighestRuns
<1>2. /\ AllLinked(r) /\ r.q[x] = Append(m.q[x], t)
      /\ \A y \in WaitQ \ {x} : r.q[y] = m.q[y]
  BY <1>1, EnqueueAll
<1> HIDE DEF r
<1>3. /\ AllLinked(kthreads_schedule(r)) /\ HighestRuns(kthreads_schedule(r))
      /\ \A y \in WaitQ : kthreads_schedule(r).q[y] = r.q[y]
  BY <1>2, ScheduleAll
<1>4. /\ kthreads_schedule(r).q[x] = Append(m.q[x], t)
      /\ \A y \in WaitQ \ {x} : kthreads_schedule(r).q[y] = m.q[y]
  BY <1>2, <1>3
<1> QED
  BY <1>3, <1>4 DEF r

\* The first thread of queue x is released and the thread to run chosen.
LEMMA WakeAll ==
    ASSUME NEW m, AllLinked(m), NEW x \in WaitQ
    PROVE  LET n == kthreads_schedule(kthreadq_release(m, x)) IN
           /\ AllLinked(n) /\ HighestRuns(n)
           /\ m.q[x] = <<>> => n.q[x] = <<>>
           /\ m.q[x] # <<>> => n.q[x] = Tail(m.q[x])
           /\ \A y \in WaitQ \ {x} : n.q[y] = m.q[y]
<1> DEFINE r == kthreadq_release(m, x)
<1>1. /\ AllLinked(r)
      /\ m.q[x] = <<>> => r.q[x] = <<>>
      /\ m.q[x] # <<>> => r.q[x] = Tail(m.q[x])
      /\ \A y \in WaitQ \ {x} : r.q[y] = m.q[y]
  BY ReleaseAll
<1> HIDE DEF r
<1>2. /\ AllLinked(kthreads_schedule(r)) /\ HighestRuns(kthreads_schedule(r))
      /\ \A y \in WaitQ : kthreads_schedule(r).q[y] = r.q[y]
  BY <1>1, ScheduleAll
<1>3. /\ m.q[x] = <<>> => kthreads_schedule(r).q[x] = <<>>
      /\ m.q[x] # <<>> => kthreads_schedule(r).q[x] = Tail(m.q[x])
      /\ \A y \in WaitQ \ {x} : kthreads_schedule(r).q[y] = m.q[y]
  BY <1>1, <1>2
<1> QED
  BY <1>2, <1>3 DEF r

\* Whom kthreads_schedule runs, and what becomes of the others.
LEMMA SchedulePicks ==
    ASSUME NEW m, AllLinked(m)
    PROVE  LET n == kthreads_schedule(m) IN
           /\ n.prio = m.prio
           /\ \A t \in Thread : n.state[t] = "WAIT" <=> m.state[t] = "WAIT"
           /\ m.state[m.active] = "ACTIVE" =>
                \/ n.active = m.active
                \/ m.state[n.active] = "READY" /\ m.prio[n.active] > m.prio[m.active]
<1> DEFINE n == kthreads_schedule(m)
<1>1. Linked(m, Thread) /\ m.state[Idle] \in {"ACTIVE", "READY"} /\ Idle \in Thread
  BY KThreadsAssumption DEF AllLinked
<1>2. schedulable(m)
  BY <1>1, IdleSchedulable
<1>3. m.active \in Thread
  BY <1>1 DEF Linked, KState
<1>4. /\ n.prio = m.prio
      /\ \A t \in Thread : \/ n.state[t] = m.state[t]
                           \/ {n.state[t], m.state[t]} \subseteq {"ACTIVE", "READY"}
      /\ m.state[m.active] = "ACTIVE" =>
                \/ n.active = m.active
                \/ m.state[n.active] = "READY" /\ m.prio[n.active] > m.prio[m.active]
  BY <1>1, <1>2, <1>3, ScheduleLinks
<1> HIDE DEF n
<1>5. \A t \in Thread : n.state[t] = "WAIT" <=> m.state[t] = "WAIT"
  BY <1>4
<1> QED
  BY <1>4, <1>5 DEF n

\* The active thread's descriptor names no queue of blocked threads, so a thread
\* whose descriptor names one does stand in it.
ActiveFree(m) == m.queue[m.active] \notin WaitQ

\* Then a descriptor names the queue its thread stands in.
LEMMA QueueTrue ==
    ASSUME NEW m, AllLinked(m), ActiveFree(m), NEW t \in Thread, NEW x \in WaitQ
    PROVE  m.queue[t] = x <=> \E i \in 1..Len(m.q[x]) : m.q[x][i] = t
  BY QueueNames DEF AllLinked, Linked, LinkedOnce, NoneLost, ActiveFree

\* Blocking the active thread and scheduling keeps this.
LEMMA BlockFrees ==
    ASSUME NEW m, AllLinked(m), HighestRuns(m), NEW t \in Worker, m.active = t,
           NEW x \in WaitQ
    PROVE  ActiveFree(kthreads_schedule(kthread_enqueue(m, t, x)))
<1> DEFINE e == kthread_enqueue(m, t, x)
           n == kthreads_schedule(e)
<1>1. m.state[t] = "ACTIVE" /\ m \in KState /\ t \in Thread
  BY DEF HighestRuns, AllLinked, Linked, Worker
<1>2. AllLinked(e)
  BY <1>1, EnqueueAll
<1>3. e.active = t /\ e.state[t] = "WAIT"
  BY <1>1 DEF kthread_enqueue, KState
<1> HIDE DEF e
<1>4. n.queue[n.active] = NULL
  BY <1>2, <1>3, ScheduleAll
<1> QED
  BY <1>4, QueueNames DEF ActiveFree, e

\* So does releasing the first thread of a queue and scheduling.
LEMMA WakeFrees ==
    ASSUME NEW m, AllLinked(m), ActiveFree(m), NEW x \in WaitQ
    PROVE  ActiveFree(kthreads_schedule(kthreadq_release(m, x)))
<1> DEFINE e == kthreadq_release(m, x)
           n == kthreads_schedule(e)
           h == Head(m.q[x])
           r == ReadyQ(m.prio[h])
<1>1. AllLinked(e) /\ e.active = m.active
  BY ReleaseAll
<1>2. /\ m \in KState /\ m.active \in Thread /\ m.queue \in [Thread -> Queue \cup {NULL}]
      /\ x \in Queue /\ m.q \in [Queue -> Seq(Thread)] /\ m.prio \in [Thread -> Prio]
  BY QueueNames DEF AllLinked, Linked, KState
<1>3. ActiveFree(e)
  <2>1. CASE m.q[x] = <<>>
    BY <2>1 DEF kthreadq_release
  <2>2. CASE m.q[x] # <<>>
    <3>1. h \in Thread
      BY <1>2, <2>2, TailMember
    <3>2. r \in ReadyQs /\ r \notin WaitQ
      BY <1>2, <3>1, QueueNames
    <3>3. e.queue = [m.queue EXCEPT ![h] = r]
      BY <1>2, <2>2 DEF kthreadq_release, kthread_move_to_ready, KState
    <3> HIDE DEF e, h, r
    <3> QED
      BY <1>1, <1>2, <3>1, <3>2, <3>3 DEF ActiveFree
  <2> QED
    BY <2>1, <2>2
<1> HIDE DEF e
<1>4. n = e \/ n.queue[n.active] = NULL
  BY <1>1, ScheduleAll
<1> QED
  BY <1>3, <1>4, QueueNames DEF ActiveFree, e

-----------------------------------------------------------------------------
\* Who stands in which queue of blocked threads, before and after.

\* The queue a descriptor names is the one its thread stands in.
LEMMA QueueStands ==
    ASSUME NEW m, AllLinked(m), ActiveFree(m)
    PROVE  \A u \in Thread, x \in WaitQ : m.queue[u] = x <=> Stands(m.q[x], u)
  BY QueueTrue DEF Stands

\* The first thread of a queue stands there and is not the idle one.
LEMMA HeadStands ==
    ASSUME NEW m, AllLinked(m), ActiveFree(m), NEW x \in WaitQ, m.q[x] # <<>>
    PROVE  LET h == Head(m.q[x]) IN
           h \in Worker /\ h \in Thread /\ m.queue[h] = x /\ h # m.active /\ m.state[h] = "WAIT"
<1>1. /\ m.q \in [Queue -> Seq(Thread)] /\ x \in Queue /\ x \notin ReadyQs
  BY QueueNames DEF AllLinked, Linked, KState
<1>2. 1 \in 1..Len(m.q[x]) /\ Head(m.q[x]) = m.q[x][1] /\ m.q[x][1] \in Thread
  BY <1>1, TailMember
<1>3. m.queue[m.q[x][1]] = x /\ m.state[m.q[x][1]] = "WAIT"
  BY <1>1, <1>2 DEF AllLinked, Linked, LinkedOnce
<1>4. m.q[x][1] # m.active /\ m.q[x][1] # Idle
  BY <1>3 DEF ActiveFree, AllLinked
<1> QED
  BY <1>2, <1>3, <1>4 DEF Worker

\* Choosing the thread to run moves nobody between queues of blocked threads.
LEMMA ScheduleMoves ==
    ASSUME NEW m, AllLinked(m), ActiveFree(m)
    PROVE  LET n == kthreads_schedule(m) IN
           /\ AllLinked(n) /\ HighestRuns(n) /\ ActiveFree(n)
           /\ \A x \in WaitQ : n.q[x] = m.q[x]
           /\ \A u \in Thread, y \in WaitQ : n.queue[u] = y <=> m.queue[u] = y
<1> DEFINE n == kthreads_schedule(m)
<1>1. /\ AllLinked(n) /\ HighestRuns(n) /\ \A x \in WaitQ : n.q[x] = m.q[x]
      /\ n = m \/ n.queue[n.active] = NULL
  BY ScheduleAll
<1> HIDE DEF n
<1>2. ActiveFree(n)
  BY <1>1, QueueNames DEF ActiveFree
<1>3. \A u \in Thread, y \in WaitQ : n.queue[u] = y <=> m.queue[u] = y
  BY <1>1, <1>2, QueueStands
<1> QED
  BY <1>1, <1>2, <1>3 DEF n

\* Releasing takes the first thread out of its queue.
LEMMA ReleaseMoves ==
    ASSUME NEW m, AllLinked(m), ActiveFree(m), NEW x \in WaitQ
    PROVE  LET n == kthreadq_release(m, x) IN
           /\ AllLinked(n) /\ ActiveFree(n) /\ n.active = m.active
           /\ \A y \in WaitQ \ {x} : n.q[y] = m.q[y]
           /\ \A u \in Thread, y \in WaitQ :
                n.queue[u] = y <=> m.queue[u] = y /\ ~(m.q[x] # <<>> /\ u = Head(m.q[x]))
<1> DEFINE n == kthreadq_release(m, x)
           h == Head(m.q[x])
           r == ReadyQ(m.prio[h])
<1>1. /\ AllLinked(n) /\ n.active = m.active
      /\ m.q[x] # <<>> => n.q[x] = Tail(m.q[x])
      /\ \A y \in WaitQ \ {x} : n.q[y] = m.q[y]
  BY ReleaseAll
<1>2. /\ m \in KState /\ m.active \in Thread /\ m.queue \in [Thread -> Queue \cup {NULL}]
      /\ x \in Queue /\ m.q \in [Queue -> Seq(Thread)] /\ m.prio \in [Thread -> Prio]
      /\ \A i, j \in 1..Len(m.q[x]) : m.q[x][i] = m.q[x][j] => i = j
  BY QueueNames DEF AllLinked, Linked, LinkedOnce, KState
<1>3. CASE m.q[x] = <<>>
  <2>1. n = m
    BY <1>3 DEF kthreadq_release
  <2> QED
    BY <1>3, <2>1
<1>4. CASE m.q[x] # <<>>
  <2>1. h \in Thread /\ m.queue[h] = x /\ h # m.active
    BY <1>4, HeadStands
  <2>2. r \in ReadyQs /\ r \notin WaitQ
    BY <1>2, <2>1, QueueNames
  <2>3. n.queue = [m.queue EXCEPT ![h] = r]
    BY <1>2, <1>4 DEF kthreadq_release, kthread_move_to_ready, KState
  <2> HIDE DEF n, h, r
  <2>4. ActiveFree(n)
    BY <1>1, <1>2, <2>1, <2>2, <2>3 DEF ActiveFree
  <2>5. \A u \in Thread, y \in WaitQ : n.queue[u] = y <=> m.queue[u] = y /\ u # h
    BY <1>2, <2>1, <2>2, <2>3
  <2> QED
    BY <1>1, <1>4, <2>4, <2>5 DEF n, h
<1> QED
  BY <1>3, <1>4

\* The same, then the thread to run is chosen.
LEMMA WakeMoves ==
    ASSUME NEW m, AllLinked(m), ActiveFree(m), NEW x \in WaitQ
    PROVE  LET n == kthreads_schedule(kthreadq_release(m, x)) IN
           /\ AllLinked(n) /\ HighestRuns(n) /\ ActiveFree(n)
           /\ \A y \in WaitQ \ {x} : n.q[y] = m.q[y]
           /\ \A u \in Thread, y \in WaitQ :
                n.queue[u] = y <=> m.queue[u] = y /\ ~(m.q[x] # <<>> /\ u = Head(m.q[x]))
<1> DEFINE r == kthreadq_release(m, x)
           n == kthreads_schedule(r)
<1>1. /\ AllLinked(r) /\ ActiveFree(r)
      /\ \A y \in WaitQ \ {x} : r.q[y] = m.q[y]
      /\ \A u \in Thread, y \in WaitQ :
            r.queue[u] = y <=> m.queue[u] = y /\ ~(m.q[x] # <<>> /\ u = Head(m.q[x]))
  BY ReleaseMoves
<1> HIDE DEF r
<1>2. /\ AllLinked(n) /\ HighestRuns(n) /\ ActiveFree(n)
      /\ \A y \in WaitQ : n.q[y] = r.q[y]
      /\ \A u \in Thread, y \in WaitQ : n.queue[u] = y <=> r.queue[u] = y
  BY <1>1, ScheduleMoves
<1> HIDE DEF n
<1>3. /\ \A y \in WaitQ \ {x} : n.q[y] = m.q[y]
      /\ \A u \in Thread, y \in WaitQ :
                n.queue[u] = y <=> m.queue[u] = y /\ ~(m.q[x] # <<>> /\ u = Head(m.q[x]))
  BY <1>1, <1>2
<1> QED
  BY <1>2, <1>3 DEF n, r

\* The running worker blocks: it stands in x, the others where they stood.
LEMMA BlockMoves ==
    ASSUME NEW m, AllLinked(m), HighestRuns(m), ActiveFree(m), NEW t \in Worker,
           m.active = t, NEW x \in WaitQ
    PROVE  LET n == kthreads_schedule(kthread_enqueue(m, t, x)) IN
           /\ AllLinked(n) /\ HighestRuns(n) /\ ActiveFree(n)
           /\ \A y \in WaitQ \ {x} : n.q[y] = m.q[y]
           /\ \A u \in Thread, y \in WaitQ :
                n.queue[u] = y <=> IF u = t THEN y = x ELSE m.queue[u] = y
<1> DEFINE n == kthreads_schedule(kthread_enqueue(m, t, x))
<1>1. /\ AllLinked(n) /\ HighestRuns(n) /\ n.q[x] = Append(m.q[x], t)
      /\ \A y \in WaitQ \ {x} : n.q[y] = m.q[y]
  BY BlockAll
<1>2. ActiveFree(n)
  BY BlockFrees
<1> HIDE DEF n
<1>3. m.q[x] \in Seq(Thread) /\ t \in Thread /\ m.queue[t] \notin WaitQ
  BY QueueNames DEF AllLinked, Linked, KState, Worker, ActiveFree
<1>4. \A u \in Thread : n.queue[u] = x <=> u = t \/ m.queue[u] = x
  <2>1. \A u : Stands(n.q[x], u) <=> u = t \/ Stands(m.q[x], u)
    BY <1>1, <1>3, AppendStands
  <2>2. \A u \in Thread : n.queue[u] = x <=> Stands(n.q[x], u)
    BY <1>1, <1>2, QueueStands
  <2>3. \A u \in Thread : m.queue[u] = x <=> Stands(m.q[x], u)
    BY QueueStands
  <2> QED
    BY <2>1, <2>2, <2>3
<1>5. \A u \in Thread, y \in WaitQ \ {x} : n.queue[u] = y <=> m.queue[u] = y
  BY <1>1, <1>2, QueueStands
<1>6. \A u \in Thread, y \in WaitQ :
                n.queue[u] = y <=> IF u = t THEN y = x ELSE m.queue[u] = y
  BY <1>3, <1>4, <1>5
<1> QED
  BY <1>1, <1>2, <1>6 DEF n

\* The running worker blocks in x and the first thread of y is released before
\* the thread to run is chosen.
LEMMA BlockWakeMoves ==
    ASSUME NEW m, AllLinked(m), HighestRuns(m), ActiveFree(m), NEW t \in Worker,
           m.active = t, NEW x \in WaitQ, NEW y \in WaitQ, x # y
    PROVE  LET e == kthread_enqueue(m, t, x)
               n == kthreads_schedule(kthreadq_release(e, y))
           IN
           /\ e.q[y] = m.q[y]
           /\ AllLinked(n) /\ HighestRuns(n) /\ ActiveFree(n)
           /\ \A z \in WaitQ \ {x, y} : n.q[z] = m.q[z]
           /\ \A u \in Thread, z \in WaitQ :
                n.queue[u] = z <=>
                    IF u = t THEN z = x
                    ELSE m.queue[u] = z /\ ~(m.q[y] # <<>> /\ u = Head(m.q[y]))
<1> DEFINE e == kthread_enqueue(m, t, x)
           r == kthreadq_release(e, y)
           n == kthreads_schedule(r)
<1>1. m.state[t] = "ACTIVE" /\ m \in KState /\ t \in Thread /\ m.queue[t] \notin WaitQ
      /\ x \in Queue /\ y \in Queue /\ m.q \in [Queue -> Seq(Thread)]
      /\ \A i, j \in 1..Len(m.q[y]) : m.q[y][i] = m.q[y][j] => i = j
  BY QueueNames DEF HighestRuns, AllLinked, Linked, LinkedOnce, KState, Worker, ActiveFree
<1>2. /\ AllLinked(e) /\ e.q[x] = Append(m.q[x], t)
      /\ \A z \in WaitQ \ {x} : e.q[z] = m.q[z]
  BY <1>1, EnqueueAll
<1>3. e.active = t /\ e.state[t] = "WAIT"
  BY <1>1 DEF kthread_enqueue, KState
<1> HIDE DEF e
<1>4. /\ AllLinked(r) /\ r.active = e.active
      /\ e.q[y] = <<>> => r.q[y] = <<>>
      /\ e.q[y] # <<>> => r.q[y] = Tail(e.q[y])
      /\ \A z \in WaitQ \ {y} : r.q[z] = e.q[z]
  BY <1>2, ReleaseAll
<1>5. r.state[r.active] # "ACTIVE"
  <2>1. \A u \in Thread : r.state[u] = e.state[u]
                          \/ (e.state[u] = "WAIT" /\ r.state[u] = "READY")
    BY <1>2, ReleaseLinks DEF AllLinked
  <2> QED
    BY <1>1, <1>3, <1>4, <2>1
<1> HIDE DEF r
<1>6. /\ AllLinked(n) /\ HighestRuns(n) /\ n.queue[n.active] = NULL
      /\ \A z \in WaitQ : n.q[z] = r.q[z]
  BY <1>4, <1>5, ScheduleAll
<1>7. ActiveFree(n)
  BY <1>6, QueueNames DEF ActiveFree
<1> HIDE DEF n
<1>8. /\ n.q[x] = Append(m.q[x], t)
      /\ \A z \in WaitQ \ {x, y} : n.q[z] = m.q[z]
      /\ m.q[y] = <<>> => n.q[y] = m.q[y]
      /\ m.q[y] # <<>> => n.q[y] = Tail(m.q[y])
  BY <1>2, <1>4, <1>6
<1>9. \A u \in Thread : n.queue[u] = x <=> u = t \/ m.queue[u] = x
  <2>1. \A u : Stands(n.q[x], u) <=> u = t \/ Stands(m.q[x], u)
    BY <1>1, <1>8, AppendStands
  <2> QED
    BY <1>1, <1>6, <1>7, <2>1, QueueStands
<1>10. \A u \in Thread, z \in WaitQ \ {x, y} : n.queue[u] = z <=> m.queue[u] = z
  BY <1>6, <1>7, <1>8, QueueStands
<1>11. \A u \in Thread : n.queue[u] = y <=>
            m.queue[u] = y /\ ~(m.q[y] # <<>> /\ u = Head(m.q[y]))
  <2>1. CASE m.q[y] = <<>>
    BY <1>6, <1>7, <1>8, <2>1, QueueStands
  <2>2. CASE m.q[y] # <<>>
    <3>1. \A u : Stands(n.q[y], u) <=> u # Head(m.q[y]) /\ Stands(m.q[y], u)
      BY <1>1, <1>8, <2>2, TailStands
    <3> QED
      BY <1>6, <1>7, <2>2, <3>1, QueueStands
  <2> QED
    BY <2>1, <2>2
<1>12. m.q[y] # <<>> => Head(m.q[y]) \in Thread /\ m.queue[Head(m.q[y])] = y
  BY HeadStands
<1>13. \A u \in Thread, z \in WaitQ :
                n.queue[u] = z <=>
                    IF u = t THEN z = x
                    ELSE m.queue[u] = z /\ ~(m.q[y] # <<>> /\ u = Head(m.q[y]))
  BY <1>1, <1>9, <1>10, <1>11, <1>12
<1> QED
  BY <1>2, <1>6, <1>7, <1>8, <1>13 DEF n, r, e

\* A thread that is in no queue is put at the end of y.
LEMMA FloatingEnqueue ==
    ASSUME NEW c, NEW h \in Thread, Linked(c, Thread \ {h}), NEW y \in WaitQ
    PROVE  LET n == kthread_enqueue(c, h, y) IN
           /\ Linked(n, Thread) /\ n.state = [c.state EXCEPT ![h] = "WAIT"]
           /\ n.active = c.active /\ \A z \in WaitQ \ {y} : n.q[z] = c.q[z]
<1> DEFINE F == Thread \ {h}
           n == kthread_enqueue(c, h, y)
<1>1. Linked(c, F) /\ h \in Thread \ F /\ F \cup {h} = Thread
  OBVIOUS
<1> HIDE DEF F
<1>2. /\ Linked(n, F \cup {h}) /\ n.state = [c.state EXCEPT ![h] = "WAIT"]
      /\ n.active = c.active /\ \A z \in WaitQ \ {y} : n.q[z] = c.q[z]
  BY SMTT(30), <1>1, EnqueueLinks
<1> QED
  BY <1>1, <1>2

\* Queue x without its first thread, as release_first leaves it for a moment.
headless(m, x) == [m EXCEPT !.q[x] = Tail(m.q[x])]

\* The first thread of x goes to the end of y without becoming ready.
LEMMA ShiftMoves ==
    ASSUME NEW m, AllLinked(m), ActiveFree(m), NEW x \in WaitQ, NEW y \in WaitQ,
           m.q[x] # <<>>
    PROVE  LET h == Head(m.q[x])
               n == kthread_enqueue(headless(m, x), h, y)
           IN
           /\ AllLinked(n) /\ ActiveFree(n) /\ n.active = m.active
           /\ \A z \in WaitQ \ {x, y} : n.q[z] = m.q[z]
           /\ \A u \in Thread, z \in WaitQ :
                n.queue[u] = z <=> IF u = h THEN z = y ELSE m.queue[u] = z
<1> DEFINE h == Head(m.q[x])
           c == headless(m, x)
           n == kthread_enqueue(c, h, y)
           F == Thread \ {h}
<1>1. /\ h \in Thread /\ h \in Worker /\ m.queue[h] = x /\ h # m.active /\ m.state[h] = "WAIT"
  BY HeadStands
<1>2. /\ m \in KState /\ x \in Queue /\ y \in Queue /\ x \notin ReadyQs
      /\ m.q \in [Queue -> Seq(Thread)] /\ m.queue \in [Thread -> Queue \cup {NULL}]
      /\ m.state \in [Thread -> ThreadState]
      /\ LinkedOnce(m, Thread) /\ NoneLost(m, Thread) /\ MaskExact(m)
      /\ m.state[Idle] \in {"ACTIVE", "READY"}
  BY QueueNames DEF AllLinked, Linked, KState
<1>3. /\ Tail(m.q[x]) \in Seq(Thread) /\ h = m.q[x][1] /\ 1 \in 1..Len(m.q[x])
      /\ Len(Tail(m.q[x])) = Len(m.q[x]) - 1
      /\ \A i \in 1..Len(Tail(m.q[x])) : Tail(m.q[x])[i] = m.q[x][i + 1]
  BY <1>2, TailMember
<1>4. /\ c \in KState /\ c.q = [m.q EXCEPT ![x] = Tail(m.q[x])]
      /\ c.queue = m.queue /\ c.state = m.state /\ c.prio = m.prio /\ c.active = m.active
      /\ c.mask = m.mask
  BY <1>2, <1>3 DEF KState, headless
<1> HIDE DEF c
<1>5. LinkedOnce(c, F) /\ NoneLost(c, F)
  <2> DEFINE s == Tail(m.q[x])
  <2>1. \A i \in 1..Len(s) : s[i] = IF i < 1 THEN m.q[x][i] ELSE m.q[x][i + 1]
    BY <1>3
  <2>2. s \in Seq(Thread) /\ Len(s) = Len(m.q[x]) - 1 /\ c.q = [m.q EXCEPT ![x] = s]
    BY <1>3, <1>4
  <2> HIDE DEF s
  <2>3. LinkedOnce(c, Thread \ {m.q[x][1]}) /\ NoneLost(c, Thread \ {m.q[x][1]})
    BY <1>2, <1>3, <1>4, <2>1, <2>2, RemoveFloats
  <2> QED
    BY <1>3, <2>3
<1>6. MaskExact(c)
  <2>1. \A p \in Prio : c.q[ReadyQ(p)] = m.q[ReadyQ(p)]
    BY <1>2, <1>4, QueueNames
  <2> QED
    BY <1>2, <1>4, <2>1 DEF MaskExact
<1>7. Linked(c, Thread \ {h}) /\ h \in Thread
  BY <1>1, <1>4, <1>5, <1>6 DEF Linked
<1> HIDE DEF F, h
<1>8. /\ Linked(n, Thread) /\ n.state = [c.state EXCEPT ![h] = "WAIT"]
      /\ n.active = c.active /\ \A z \in WaitQ \ {y} : n.q[z] = c.q[z]
  BY <1>7, FloatingEnqueue
<1>9. n.queue = [m.queue EXCEPT ![h] = y]
  BY <1>4 DEF kthread_enqueue, KState
<1> HIDE DEF n
<1>10. \A z \in WaitQ \ {x, y} : n.q[z] = m.q[z]
  <2>1. \A z \in WaitQ \ {x} : c.q[z] = m.q[z]
    BY <1>2, <1>4, QueueNames
  <2> QED
    BY <1>8, <2>1
<1>11. AllLinked(n)
  <2>1. n.state[Idle] \in {"ACTIVE", "READY"}
    BY <1>1, <1>2, <1>4, <1>8, KThreadsAssumption DEF Worker
  <2> QED
    BY <1>7, <1>8, <2>1 DEF AllLinked
<1>12. ActiveFree(n)
  BY <1>1, <1>2, <1>4, <1>8, <1>9 DEF ActiveFree, AllLinked, Linked, KState
<1>13. \A u \in Thread, z \in WaitQ :
                n.queue[u] = z <=> IF u = h THEN z = y ELSE m.queue[u] = z
  BY <1>1, <1>2, <1>9
<1> QED
  BY <1>4, <1>8, <1>10, <1>11, <1>12, <1>13 DEF n, h, c

\* All workers asleep, each in a queue of its own, and the idle thread active is a
\* consistent state.
LEMMA AsleepAll ==
    ASSUME NEW m \in KState, NEW a \in [Worker -> WaitQ],
           \A t, u \in Worker : a[t] = a[u] => t = u,
           m.state = [t \in Thread |-> IF t = Idle THEN "ACTIVE" ELSE "WAIT"],
           m.queue = [t \in Thread |-> IF t = Idle THEN NULL ELSE a[t]],
           \A t \in Worker : m.q[a[t]] = <<t>>,
           \A x \in Queue : (\A t \in Worker : x # a[t]) => m.q[x] = <<>>,
           m.mask = {}, m.active = Idle
    PROVE  AllLinked(m) /\ HighestRuns(m) /\ ActiveFree(m)
<1>1. /\ Idle \in Thread /\ \A t \in Worker : t \in Thread /\ t # Idle
      /\ \A t \in Worker : a[t] \in WaitQ /\ a[t] \in Queue /\ a[t] \notin ReadyQs
  BY KThreadsAssumption, QueueNames DEF Worker
<1>2. LinkedOnce(m, Thread)
  <2> SUFFICES ASSUME NEW x \in Queue, NEW i \in 1..Len(m.q[x]), NEW j \in 1..Len(m.q[x])
               PROVE  /\ m.q[x][i] \in Thread /\ m.queue[m.q[x][i]] = x /\ x \notin ReadyQs
                      /\ m.state[m.q[x][i]] = "WAIT" /\ i = j
    BY DEF LinkedOnce
  <2>1. m.q[x] # <<>>
    OBVIOUS
  <2>2. PICK t \in Worker : x = a[t]
    BY <2>1
  <2>3. m.q[x] = <<t>>
    BY <2>2
  <2>4. i = 1 /\ j = 1 /\ m.q[x][i] = t
    BY <2>3
  <2> QED
    BY <1>1, <2>2, <2>4
<1>3. NoneLost(m, Thread)
  <2> SUFFICES ASSUME NEW t \in Thread
               PROVE  \/ m.state[t] = "ACTIVE" /\ t = m.active
                      \/ /\ m.state[t] \in {"READY", "WAIT"} /\ m.queue[t] \in Queue
                         /\ \E i \in 1..Len(m.q[m.queue[t]]) : m.q[m.queue[t]][i] = t
    BY DEF NoneLost
  <2>1. CASE t = Idle
    BY <2>1
  <2>2. CASE t # Idle
    <3>1. t \in Worker /\ m.queue[t] = a[t] /\ m.state[t] = "WAIT"
      BY <2>2 DEF Worker
    <3>2. m.q[a[t]] = <<t>>
      BY <3>1
    <3>3. 1 \in 1..Len(m.q[a[t]]) /\ m.q[a[t]][1] = t
      BY <3>2
    <3> QED
      BY <1>1, <3>1, <3>3
  <2> QED
    BY <2>1, <2>2
<1>4. MaskExact(m)
  <2> SUFFICES ASSUME NEW p \in Prio PROVE m.q[ReadyQ(p)] = <<>>
    BY DEF MaskExact
  <2>1. ReadyQ(p) \in Queue /\ ReadyQ(p) \in ReadyQs
    BY QueueNames
  <2> QED
    BY <1>1, <2>1
<1>5. Linked(m, Thread)
  BY <1>2, <1>3, <1>4 DEF Linked
<1>6. m.state[Idle] = "ACTIVE" /\ m.queue[Idle] = NULL
  BY <1>1
<1>7. HighestRuns(m) /\ ActiveFree(m)
  BY <1>6, QueueNames DEF HighestRuns, ActiveFree
<1> QED
  BY <1>5, <1>6, <1>7 DEF AllLinked
=============================================================================

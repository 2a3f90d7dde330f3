--------------------------- MODULE MessagesProofs ---------------------------
(***************************************************************************)
(* Theorems about the mailboxes: whoever sends, receives, blocks, is       *)
(* woken, starts a handler, ends or deletes a queue, and in whatever       *)
(* order, no thread is lost, no message is left behind by its wake-up and  *)
(* none is leaked.                                                         *)
(*                                                                         *)
(* The threads of this module come and go, so the scheduling state is      *)
(* consistent for the set live, as in ThreadsProofs.  delete_msg_queue     *)
(* releases threads and does not choose one to run: the invariant says     *)
(* that the active thread runs, not that it has the highest priority.      *)
(***************************************************************************)
EXTENDS Messages, KThreadsProofs, FiniteSetTheorems, WellFoundedInduction

\* A consistent scheduling state in which the active thread runs, in no queue of
\* blocked threads, and the idle thread never blocks.
Settled(m, L) ==
    /\ Linked(m, L)
    /\ Idle \in L /\ m.state[Idle] \in {"ACTIVE", "READY"}
    /\ m.active \in L /\ m.state[m.active] = "ACTIVE" /\ m.queue[m.active] \notin WaitQ

\* A live thread stands in the queue its descriptor names.
LEMMA QueueIs ==
    ASSUME NEW m, NEW L, Settled(m, L), NEW u \in L, NEW x \in WaitQ
    PROVE  m.queue[u] = x <=> Stands(m.q[x], u)
<1>1. Linked(m, L) /\ u \in Thread
  BY DEF Settled, Linked
<1>2. Stands(m.q[x], u) <=> m.state[u] = "WAIT" /\ m.queue[u] = x
  BY <1>1, StandsIff
<1>3. ASSUME m.queue[u] = x PROVE m.state[u] = "WAIT"
  <2>1. m.state[u] # "ACTIVE"
    BY <1>1, <1>3 DEF Settled, Linked, NoneLost
  <2> QED
    BY <1>1, <1>3, <2>1, QueuedAt, QueueNames
<1> QED
  BY <1>2, <1>3

\* The active thread stands nowhere.
LEMMA ActiveStandsNowhere ==
    ASSUME NEW m, NEW L, Settled(m, L), NEW x \in WaitQ
    PROVE  ~Stands(m.q[x], m.active)
  BY QueueIs DEF Settled

\* kthreads_schedule settles a consistent state.
LEMMA ScheduleSettles ==
    ASSUME NEW m, NEW L, Linked(m, L), Idle \in L, m.state[Idle] \in {"ACTIVE", "READY"},
           m.state[m.active] = "ACTIVE" => m.active \in L /\ m.queue[m.active] \notin WaitQ
    PROVE  LET n == kthreads_schedule(m) IN
           Settled(n, L) /\ HighestRuns(n) /\ \A x \in WaitQ : n.q[x] = m.q[x]
<1> DEFINE n == kthreads_schedule(m)
<1>1. /\ Linked(n, L) /\ HighestRuns(n) /\ n.active \in L
      /\ n.state[Idle] \in {"ACTIVE", "READY"} /\ \A x \in WaitQ : n.q[x] = m.q[x]
  BY ScheduleIdle
<1>2. (n = m /\ m.state[m.active] = "ACTIVE") \/ n.queue[n.active] = NULL
  <2>1. schedulable(m)
    BY IdleSchedulable
  <2> QED
    BY <2>1, ScheduleLinks
<1> HIDE DEF n
<1>3. n.queue[n.active] \notin WaitQ
  BY <1>2, QueueNames
<1> QED
  BY <1>1, <1>3 DEF Settled, HighestRuns, n

\* Releasing takes the first thread out of its queue and makes it ready.
LEMMA ReleaseSettled ==
    ASSUME NEW m, NEW L, Settled(m, L), NEW x \in WaitQ, m.q[x] # <<>>
    PROVE  LET n == kthreadq_release(m, x) IN
           /\ Settled(n, L) /\ Head(m.q[x]) \in L /\ Stands(m.q[x], Head(m.q[x]))
           /\ \A y \in WaitQ, u \in Thread :
                Stands(n.q[y], u) <=> Stands(m.q[y], u) /\ ~(y = x /\ u = Head(m.q[x]))
<1> DEFINE n == kthreadq_release(m, x)
           h == Head(m.q[x])
<1>1. /\ Linked(m, L) /\ m \in KState /\ m.q \in [Queue -> Seq(Thread)] /\ x \in Queue
      /\ x \notin ReadyQs /\ m.prio \in [Thread -> Prio] /\ L \subseteq Thread
      /\ m.queue \in [Thread -> Queue \cup {NULL}] /\ m.active \in Thread
      /\ m.q[x] \in Seq(Thread) /\ \A i, j \in 1..Len(m.q[x]) : m.q[x][i] = m.q[x][j] => i = j
  BY QueueNames DEF Settled, Linked, LinkedOnce, KState
<1>2. 1 \in 1..Len(m.q[x]) /\ h = m.q[x][1] /\ h \in Thread
  BY <1>1, TailMember
<1>3. Stands(m.q[x], h) /\ h \in L /\ m.state[h] = "WAIT"
  <2>1. Stands(m.q[x], h)
    BY <1>2 DEF Stands
  <2> QED
    BY <1>1, <1>2, <2>1, StandsIff
<1>4. /\ Linked(n, L) /\ n.active = m.active
      /\ \A t \in Thread : n.state[t] = m.state[t] \/ (m.state[t] = "WAIT" /\ n.state[t] = "READY")
      /\ \A y \in WaitQ \ {x} : n.q[y] = m.q[y]
  BY <1>1, ReleaseLinks
<1>5. n.q[x] = Tail(m.q[x])
  <2>1. ReadyQ(m.prio[h]) # x
    BY <1>1, <1>2, QueueNames
  <2> QED
    BY <1>1, <2>1 DEF kthreadq_release, kthread_move_to_ready, KState
<1>6. n.queue = [m.queue EXCEPT ![h] = ReadyQ(m.prio[h])]
  BY <1>1 DEF kthreadq_release, kthread_move_to_ready, KState
<1> HIDE DEF n, h
<1>7. Settled(n, L)
  <2>1. n.state[m.active] = "ACTIVE" /\ n.state[Idle] \in {"ACTIVE", "READY"} /\ h # m.active
    BY <1>1, <1>3, <1>4, KThreadsAssumption DEF Settled
  <2>2. n.queue[m.active] = m.queue[m.active]
    BY <1>1, <1>6, <2>1
  <2> QED
    BY <1>4, <2>1, <2>2 DEF Settled
<1>8. \A u \in Thread : Stands(n.q[x], u) <=> Stands(m.q[x], u) /\ u # h
  BY <1>1, <1>5, TailStands DEF h
<1>9. \A y \in WaitQ, u \in Thread :
          Stands(n.q[y], u) <=> Stands(m.q[y], u) /\ ~(y = x /\ u = h)
  BY <1>4, <1>8
<1> QED
  BY <1>3, <1>7, <1>9 DEF n, h

\* The same, then the thread to run is chosen.
LEMMA WakeSettled ==
    ASSUME NEW m, NEW L, Settled(m, L), NEW x \in WaitQ, m.q[x] # <<>>
    PROVE  LET n == kthreads_schedule(kthreadq_release(m, x)) IN
           /\ Settled(n, L) /\ HighestRuns(n) /\ Head(m.q[x]) \in L
           /\ Stands(m.q[x], Head(m.q[x]))
           /\ \A y \in WaitQ, u \in Thread :
                Stands(n.q[y], u) <=> Stands(m.q[y], u) /\ ~(y = x /\ u = Head(m.q[x]))
<1> DEFINE r == kthreadq_release(m, x)
           n == kthreads_schedule(r)
<1>1. /\ Settled(r, L) /\ Head(m.q[x]) \in L /\ Stands(m.q[x], Head(m.q[x]))
      /\ \A y \in WaitQ, u \in Thread :
                Stands(r.q[y], u) <=> Stands(m.q[y], u) /\ ~(y = x /\ u = Head(m.q[x]))
  BY ReleaseSettled
<1> HIDE DEF r
<1>2. Settled(n, L) /\ HighestRuns(n) /\ \A y \in WaitQ : n.q[y] = r.q[y]
  BY <1>1, ScheduleSettles DEF Settled
<1> HIDE DEF n
<1> QED
  BY <1>1, <1>2 DEF n, r

\* The active thread blocks.
LEMMA BlockSettled ==
    ASSUME NEW m, NEW L, Settled(m, L), NEW t, m.active = t, t # Idle, NEW x \in WaitQ
    PROVE  LET n == kthreads_schedule(kthread_enqueue(m, t, x)) IN
           /\ Settled(n, L) /\ HighestRuns(n)
           /\ \A y \in WaitQ, u \in Thread :
                Stands(n.q[y], u) <=> Stands(m.q[y], u) \/ (y = x /\ u = t)
<1> DEFINE F == L \ {t}
           e == kthread_enqueue(m, t, x)
           n == kthreads_schedule(e)
<1>1. /\ Linked(m, L) /\ m \in KState /\ t \in L /\ t \in Thread /\ m.state[t] = "ACTIVE"
      /\ m.state[Idle] \in {"ACTIVE", "READY"} /\ Idle \in L
      /\ m.state \in [Thread -> ThreadState]
  BY DEF Settled, Linked, KState
<1>2. Linked(m, F) /\ t \in Thread \ F /\ F \cup {t} = L
  BY <1>1, ActiveFloats
<1> HIDE DEF F
<1>3. /\ Linked(e, F \cup {t}) /\ e.state = [m.state EXCEPT ![t] = "WAIT"] /\ e.active = m.active
  BY <1>2, EnqueueLinks
<1>4. \A y \in WaitQ, u \in Thread : Stands(e.q[y], u) <=> Stands(m.q[y], u) \/ (y = x /\ u = t)
  BY <1>2, EnqueueStands
<1> HIDE DEF e
<1>5. /\ Linked(e, L) /\ e.state[Idle] \in {"ACTIVE", "READY"} /\ e.state[e.active] # "ACTIVE"
  BY <1>1, <1>2, <1>3, KThreadsAssumption
<1>6. Settled(n, L) /\ HighestRuns(n) /\ \A y \in WaitQ : n.q[y] = e.q[y]
  BY <1>1, <1>5, ScheduleSettles
<1> HIDE DEF n
<1> QED
  BY <1>4, <1>6 DEF n, e

\* The active thread ends.
LEMMA EndSettled ==
    ASSUME NEW m, NEW L, Settled(m, L), NEW t, m.active = t, t # Idle
    PROVE  LET n == kthreads_schedule(kthread_unlink(m, t)) IN
           /\ Settled(n, L \ {t}) /\ HighestRuns(n)
           /\ \A y \in WaitQ, u \in Thread : Stands(n.q[y], u) <=> Stands(m.q[y], u)
<1> DEFINE e == kthread_unlink(m, t)
           n == kthreads_schedule(e)
<1>1. /\ Linked(m, L) /\ t \in L /\ t \in Thread /\ m.state[t] = "ACTIVE"
      /\ m.state[Idle] \in {"ACTIVE", "READY"} /\ Idle \in L
  BY DEF Settled, Linked
<1>2. /\ Linked(e, L \ {t}) /\ e.active = m.active /\ e.state[t] = "PASSIVE"
      /\ \A u \in Thread : e.state[u] = m.state[u] \/ u = t
  BY <1>1, UnlinkFloats
<1>3. \A y \in WaitQ, u \in Thread : Stands(e.q[y], u) <=> Stands(m.q[y], u) /\ u # t
  BY <1>1, UnlinkStands
<1> HIDE DEF e
<1>4. \A y \in WaitQ : ~Stands(m.q[y], t)
  BY ActiveStandsNowhere
<1>5. e.state[Idle] \in {"ACTIVE", "READY"} /\ Idle \in L \ {t} /\ e.state[e.active] # "ACTIVE"
  BY <1>1, <1>2, KThreadsAssumption
<1>6. Settled(n, L \ {t}) /\ HighestRuns(n) /\ \A y \in WaitQ : n.q[y] = e.q[y]
  <2> DEFINE T == L \ {t}
  <2>1. Linked(e, T) /\ Idle \in T
    BY <1>2, <1>5
  <2> HIDE DEF T
  <2>2. Settled(n, T) /\ HighestRuns(n) /\ \A y \in WaitQ : n.q[y] = e.q[y]
    BY <1>5, <2>1, ScheduleSettles
  <2> QED
    BY <2>2 DEF T
<1> HIDE DEF n
<1> QED
  BY <1>3, <1>4, <1>6 DEF n, e

\* A new thread is made ready.
LEMMA StartSettled ==
    ASSUME NEW m, NEW L, Settled(m, L), NEW t \in Thread \ L, NEW p \in Prio
    PROVE  LET n == kthreads_schedule(kthread_move_to_ready([m EXCEPT !.prio[t] = p], t)) IN
           /\ Settled(n, L \cup {t}) /\ HighestRuns(n) /\ \A y \in WaitQ : n.q[y] = m.q[y]
<1> DEFINE c == [m EXCEPT !.prio[t] = p]
           e == kthread_move_to_ready(c, t)
           n == kthreads_schedule(e)
<1>1. /\ Linked(m, L) /\ m.state[Idle] \in {"ACTIVE", "READY"} /\ Idle \in L /\ m \in KState
      /\ m.active \in L /\ m.queue[m.active] \notin WaitQ /\ L \subseteq Thread
  BY DEF Settled, Linked
<1>2. Linked(c, L) /\ c.state = m.state /\ c.active = m.active /\ c.q = m.q
  BY <1>1, SetPrioFloats
<1>3. c.queue = m.queue
  BY DEF KState
<1> HIDE DEF c
<1>4. /\ Linked(e, L \cup {t}) /\ e.state = [c.state EXCEPT ![t] = "READY"] /\ e.active = c.active
      /\ \A y \in WaitQ : e.q[y] = c.q[y]
  BY <1>2, MoveToReadyLinks
<1>5. c.state \in [Thread -> ThreadState] /\ c.queue \in [Thread -> Queue \cup {NULL}]
  BY <1>2 DEF Linked, KState
<1>6. e.queue = [c.queue EXCEPT ![t] = ReadyQ(c.prio[t])]
  BY <1>2 DEF kthread_move_to_ready, Linked, KState
<1> HIDE DEF e
<1>7. e.state[Idle] \in {"ACTIVE", "READY"} /\ e.active \in L \cup {t}
  BY <1>1, <1>2, <1>4, <1>5, KThreadsAssumption
<1>8. e.queue[e.active] \notin WaitQ
  BY <1>1, <1>2, <1>3, <1>4, <1>5, <1>6
<1>9. Settled(n, L \cup {t}) /\ HighestRuns(n) /\ \A y \in WaitQ : n.q[y] = e.q[y]
  <2> DEFINE T == L \cup {t}
  <2>1. Linked(e, T) /\ Idle \in T /\ e.active \in T
    BY <1>1, <1>4, <1>7
  <2> HIDE DEF T
  <2>2. Settled(n, T) /\ HighestRuns(n) /\ \A y \in WaitQ : n.q[y] = e.q[y]
    BY <1>7, <1>8, <2>1, ScheduleSettles
  <2> QED
    BY <2>2 DEF T
<1> HIDE DEF n
<1> QED
  BY <1>2, <1>4, <1>9 DEF n, e, c

-----------------------------------------------------------------------------
\* The inductive invariant.

\* Every msg_q variable that is not NULL has a queue of its own.
QueuesOwned ==
    \A s \in MsgQ : ptr[s] # NULL =>
        ptr[s] \in queues /\ \A r \in MsgQ : ptr[r] = ptr[s] => r = s

\* Who sleeps in a queue is in a call on the variable that holds it, if one does
\* (create_msg_queue on a variable in use loses the old queue).
SleepersCalled ==
    \A o \in KMsgQ, u \in Thread : Stands(k.q[MailQ(o)], u) =>
        /\ o \in queues /\ retry[u] # NULL
        /\ \A s \in MsgQ : ptr[s] = o => retry[u].src = s

\* In the mailbox of a thread sleeps at most that thread, and there is nothing
\* for it.
OwnersOnly ==
    \A t, u \in Thread : Stands(k.q[MailQ(t)], u) =>
        /\ u = t /\ retry[t] # NULL /\ retry[t].src = "own"
        /\ matching(t, retry[t].type) = {}

\* While a queue is being deleted its messages are gone already.
DeletedEmpty ==
    deleting # NULL => ptr[deleting[2]] # NULL /\ msgs[ptr[deleting[2]]] = <<>>

\* Every message in a queue with sleepers has a woken thread.
AwaitedIn(s) ==
    ptr[s] # NULL /\ k.q[MailQ(ptr[s])] # <<>> => Len(msgs[ptr[s]]) <= Cardinality(woken(s))
Awaited == \A s \in MsgQ \ Selective : AwaitedIn(s)

Counted == IsFiniteSet(stored) /\ heap = Cardinality(stored)

IInv ==
    /\ TypeOK
    /\ Settled(k, live)
    /\ IsFiniteSet(live)
    /\ \A t \in Thread \ live : retry[t] = NULL
    /\ QueuesOwned /\ SleepersCalled /\ OwnersOnly /\ DeletedEmpty
    /\ Awaited
    /\ Counted

\* The names of the queues of blocked threads.
LEMMA MailQueues ==
    /\ \A x \in Mailbox : MailQ(x) \in WaitQ
    /\ \A t \in Worker : AlarmQ(t) \in WaitQ
    /\ \A x, y \in Mailbox : MailQ(x) = MailQ(y) => x = y
    /\ \A x, t : MailQ(x) # AlarmQ(t)
    /\ \A t \in Thread : t \in Mailbox /\ t \notin KMsgQ
    /\ \A o \in KMsgQ : o \in Mailbox /\ o \notin Thread /\ o # NULL
    /\ NULL \notin Thread
<1>1. ASSUME NEW x, NEW t PROVE <<"mail", x>> # <<"alarm", t>>
  <2> SUFFICES ASSUME <<"mail", x>> = <<"alarm", t>> PROVE FALSE
    OBVIOUS
  <2>1. <<"mail", x>>[1] = <<"alarm", t>>[1]
    OBVIOUS
  <2> QED
    BY <2>1
<1>2. \A x, t : MailQ(x) # AlarmQ(t)
  BY <1>1 DEF MailQ, AlarmQ
<1>3. \A x, y \in Mailbox : MailQ(x) = MailQ(y) => x = y
  BY DEF MailQ
<1>4. (\A x \in Mailbox : MailQ(x) \in WaitQ) /\ (\A t \in Worker : AlarmQ(t) \in WaitQ)
  BY MessagesAssumption DEF AlarmQs
<1>5. /\ \A t \in Thread : t \in Mailbox /\ t \notin KMsgQ
      /\ \A o \in KMsgQ : o \in Mailbox /\ o \notin Thread /\ o # NULL
      /\ NULL \notin Thread
  BY MessagesAssumption, KThreadsAssumption DEF Mailbox
<1> QED
  BY <1>2, <1>3, <1>4, <1>5

\* A queue is not empty exactly if somebody stands in it.
LEMMA Occupied ==
    ASSUME NEW m, NEW L, Settled(m, L), NEW x \in WaitQ
    PROVE  m.q[x] # <<>> <=> \E u \in Thread : Stands(m.q[x], u)
<1>1. m.q[x] \in Seq(Thread)
  BY QueueNames DEF Settled, Linked, KState
<1>2. ASSUME m.q[x] # <<>> PROVE \E u \in Thread : Stands(m.q[x], u)
  <2>1. 1 \in 1..Len(m.q[x]) /\ m.q[x][1] \in Thread
    BY <1>1, <1>2, TailMember
  <2> QED
    BY <2>1 DEF Stands
<1>3. ASSUME m.q[x] = <<>> PROVE ~\E u \in Thread : Stands(m.q[x], u)
  BY <1>3 DEF Stands
<1> QED
  BY <1>2, <1>3

\* A woken thread of a variable is one that does not stand in its queue.
LEMMA WokenIs ==
    ASSUME TypeOK, Settled(k, live), NEW s \in MsgQ, ptr[s] # NULL
    PROVE  woken(s) = {t \in live : /\ retry[t] # NULL /\ retry[t].src = s
                                    /\ ~Stands(k.q[MailQ(ptr[s])], t)}
<1>1. MailQ(ptr[s]) \in WaitQ
  BY MailQueues DEF TypeOK
<1>2. \A t \in live : k.queue[t] = MailQ(ptr[s]) <=> Stands(k.q[MailQ(ptr[s])], t)
  BY <1>1, QueueIs
<1> QED
  BY <1>2 DEF woken

\* What is stored, and what part of it is in one mailbox.
LEMMA StoredIs ==
    /\ \A z : z \in stored <=>
            \E x \in queues \cup live, i \in Nat : i \in 1..Len(msgs[x]) /\ z = <<x, i>>
    /\ \A z : z \in stored' <=>
            \E x \in queues' \cup live', i \in Nat : i \in 1..Len(msgs'[x]) /\ z = <<x, i>>
  BY DEF stored

\* The messages of one mailbox, counted.
LEMMA PartCount ==
    ASSUME NEW x, NEW n \in Nat
    PROVE  IsFiniteSet({x} \X (1..n)) /\ Cardinality({x} \X (1..n)) = n
<1>1. IsFiniteSet({x}) /\ Cardinality({x}) = 1
  BY FS_Singleton
<1>2. IsFiniteSet(1..n) /\ Cardinality(1..n) = n
  BY FS_Interval
<1>3. /\ IsFiniteSet({x} \X (1..n))
      /\ Cardinality({x} \X (1..n)) = Cardinality({x}) * Cardinality(1..n)
  BY <1>1, <1>2, FS_Product
<1> QED
  BY <1>1, <1>2, <1>3

\* Emptying a mailbox frees as many messages as it held.
LEMMA CleanCounts ==
    ASSUME TypeOK, Counted, NEW x \in Mailbox, x \in queues \cup live, k_msgq_clean(x),
           queues' \cup live' \in {queues \cup live, (queues \cup live) \ {x}}
    PROVE  Counted' /\ heap' \in 0..MaxMsgs /\ msgs' \in [Mailbox -> Seq(Message)]
           /\ msgs'[x] = <<>> /\ \A y \in Mailbox : y # x => msgs'[y] = msgs[y]
<1> DEFINE P == {x} \X (1..Len(msgs[x]))
<1>1. /\ msgs \in [Mailbox -> Seq(Message)] /\ heap \in 0..MaxMsgs /\ MaxMsgs \in Nat
      /\ queues \cup live \subseteq Mailbox /\ Len(msgs[x]) \in Nat
  BY MessagesAssumption DEF TypeOK, Mailbox
<1>2. /\ msgs'[x] = <<>> /\ \A y \in Mailbox : y # x => msgs'[y] = msgs[y]
      /\ msgs' \in [Mailbox -> Seq(Message)] /\ heap' = heap - Len(msgs[x])
  BY <1>1 DEF k_msgq_clean
<1>3. stored' = stored \ P
  <2> SUFFICES ASSUME NEW z PROVE z \in stored' <=> z \in stored \ P
    OBVIOUS
  <2>1. ASSUME z \in stored' PROVE z \in stored \ P
    <3>1. PICK y \in queues' \cup live', i \in Nat : i \in 1..Len(msgs'[y]) /\ z = <<y, i>>
      BY <2>1, StoredIs
    <3>2. y \in queues \cup live /\ y \in Mailbox /\ y # x /\ msgs'[y] = msgs[y]
      BY <1>1, <1>2, <3>1
    <3> QED
      BY <3>1, <3>2, StoredIs
  <2>2. ASSUME z \in stored \ P PROVE z \in stored'
    <3>1. PICK y \in queues \cup live, i \in Nat : i \in 1..Len(msgs[y]) /\ z = <<y, i>>
      BY <2>2, StoredIs
    <3>2. y # x
      BY <2>2, <3>1
    <3>3. y \in queues' \cup live' /\ y \in Mailbox /\ msgs'[y] = msgs[y]
      BY <1>1, <1>2, <3>1, <3>2
    <3> QED
      BY <3>1, <3>3, StoredIs
  <2> QED
    BY <2>1, <2>2
<1>4. stored \cap P = P
  <2> SUFFICES ASSUME NEW z \in P PROVE z \in stored
    OBVIOUS
  <2>1. PICK i \in 1..Len(msgs[x]) : z = <<x, i>>
    OBVIOUS
  <2>2. i \in Nat
    BY <1>1
  <2> QED
    BY <2>1, <2>2, StoredIs
<1>5. Cardinality(P) = Len(msgs[x])
  BY <1>1, PartCount
<1> HIDE DEF P
<1>6. IsFiniteSet(stored') /\ Cardinality(stored') = Cardinality(stored) - Len(msgs[x])
  <2>1. IsFiniteSet(stored)
    BY DEF Counted
  <2>2. /\ IsFiniteSet(stored \ P)
        /\ Cardinality(stored \ P) = Cardinality(stored) - Cardinality(stored \cap P)
    BY <2>1, FS_Difference
  <2> QED
    BY <1>3, <1>4, <1>5, <2>2
<1>7. Cardinality(stored') \in Nat
  BY <1>6, FS_CardinalityType
<1>8. heap' = Cardinality(stored') /\ heap' \in 0..MaxMsgs
  BY <1>1, <1>2, <1>6, <1>7 DEF Counted
<1> QED
  BY <1>2, <1>6, <1>8 DEF Counted

\* Mailboxes that come or go while they are empty change nothing of it.
LEMMA SameCounts ==
    ASSUME TypeOK, Counted, heap' = heap,
           \A x \in Mailbox : (x \in queues' \cup live' /\ msgs'[x] # <<>>)
                              <=> (x \in queues \cup live /\ msgs[x] # <<>>),
           \A x \in Mailbox : x \in queues \cup live => msgs'[x] = msgs[x],
           queues' \cup live' \subseteq Mailbox
    PROVE  Counted'
<1>1. queues \cup live \subseteq Mailbox
  BY DEF TypeOK, Mailbox
<1>2. stored' = stored
  <2> SUFFICES ASSUME NEW z PROVE z \in stored' <=> z \in stored
    OBVIOUS
  <2>1. ASSUME z \in stored' PROVE z \in stored
    <3>1. PICK y \in queues' \cup live', i \in Nat : i \in 1..Len(msgs'[y]) /\ z = <<y, i>>
      BY <2>1, StoredIs
    <3>2. msgs'[y] # <<>> /\ y \in Mailbox
      BY <3>1
    <3>3. y \in queues \cup live /\ msgs'[y] = msgs[y]
      BY <3>1, <3>2
    <3> QED
      BY <3>1, <3>3, StoredIs
  <2>2. ASSUME z \in stored PROVE z \in stored'
    <3>1. PICK y \in queues \cup live, i \in Nat : i \in 1..Len(msgs[y]) /\ z = <<y, i>>
      BY <2>2, StoredIs
    <3>2. msgs[y] # <<>> /\ y \in Mailbox
      BY <1>1, <3>1
    <3>3. y \in queues' \cup live' /\ msgs'[y] = msgs[y]
      BY <3>1, <3>2
    <3> QED
      BY <3>1, <3>3, StoredIs
  <2> QED
    BY <2>1, <2>2
<1> QED
  BY <1>2 DEF Counted

\* One message more, at the end of mailbox x.
LEMMA PostCounts ==
    ASSUME TypeOK, Counted, NEW x \in Mailbox, x \in queues \cup live, NEW m \in Message,
           msgs' = [msgs EXCEPT ![x] = Append(@, m)], heap' = heap + 1,
           UNCHANGED <<queues, live>>
    PROVE  Counted'
<1>1. msgs \in [Mailbox -> Seq(Message)] /\ queues \cup live \subseteq Mailbox
  BY DEF TypeOK, Mailbox
<1>2. /\ Len(msgs[x]) \in Nat /\ Len(msgs'[x]) = Len(msgs[x]) + 1
      /\ \A y \in Mailbox : y # x => msgs'[y] = msgs[y]
  BY <1>1, AppendMember, LenProperties
<1>3. stored' = stored \cup {<<x, Len(msgs[x]) + 1>>}
  <2> SUFFICES ASSUME NEW z PROVE z \in stored' <=> z \in stored \/ z = <<x, Len(msgs[x]) + 1>>
    OBVIOUS
  <2>1. ASSUME z \in stored' PROVE z \in stored \/ z = <<x, Len(msgs[x]) + 1>>
    <3>1. PICK y \in queues \cup live, i \in Nat : i \in 1..Len(msgs'[y]) /\ z = <<y, i>>
      BY <2>1, StoredIs
    <3>2. i \in 1..Len(msgs[y]) \/ (y = x /\ i = Len(msgs[x]) + 1)
      BY <1>1, <1>2, <3>1
    <3> QED
      BY <3>1, <3>2, StoredIs
  <2>2. ASSUME z \in stored PROVE z \in stored'
    <3>1. PICK y \in queues \cup live, i \in Nat : i \in 1..Len(msgs[y]) /\ z = <<y, i>>
      BY <2>2, StoredIs
    <3>2. i \in 1..Len(msgs'[y])
      BY <1>1, <1>2, <3>1
    <3> QED
      BY <3>1, <3>2, StoredIs
  <2>3. <<x, Len(msgs[x]) + 1>> \in stored'
    BY <1>2, StoredIs
  <2> QED
    BY <2>1, <2>2, <2>3
<1>4. <<x, Len(msgs[x]) + 1>> \notin stored
  <2> SUFFICES ASSUME <<x, Len(msgs[x]) + 1>> \in stored PROVE FALSE
    OBVIOUS
  <2>1. PICK y \in queues \cup live, i \in Nat : i \in 1..Len(msgs[y]) /\ <<x, Len(msgs[x]) + 1>> = <<y, i>>
    BY StoredIs
  <2>2. y = x /\ i = Len(msgs[x]) + 1
    BY <2>1
  <2> QED
    BY <1>2, <2>1, <2>2
<1>5. IsFiniteSet(stored') /\ Cardinality(stored') = Cardinality(stored) + 1
  BY <1>3, <1>4, FS_AddElement DEF Counted
<1> QED
  BY <1>5 DEF Counted

\* One message less in mailbox x.
LEMMA TakeCounts ==
    ASSUME TypeOK, Counted, NEW x \in Mailbox, x \in queues \cup live,
           NEW q \in Seq(Message), Len(q) = Len(msgs[x]) - 1,
           msgs' = [msgs EXCEPT ![x] = q], heap' = heap - 1, UNCHANGED <<queues, live>>
    PROVE  Counted' /\ heap' \in 0..MaxMsgs
<1>1. /\ msgs \in [Mailbox -> Seq(Message)] /\ queues \cup live \subseteq Mailbox
      /\ heap \in 0..MaxMsgs /\ MaxMsgs \in Nat
  BY MessagesAssumption DEF TypeOK, Mailbox
<1>2. /\ Len(msgs[x]) \in Nat /\ Len(msgs'[x]) = Len(msgs[x]) - 1 /\ Len(q) \in Nat
      /\ \A y \in Mailbox : y # x => msgs'[y] = msgs[y]
  BY <1>1, LenProperties
<1>3. stored' = stored \ {<<x, Len(msgs[x])>>}
  <2> SUFFICES ASSUME NEW z PROVE z \in stored' <=> z \in stored /\ z # <<x, Len(msgs[x])>>
    OBVIOUS
  <2>1. ASSUME z \in stored' PROVE z \in stored /\ z # <<x, Len(msgs[x])>>
    <3>1. PICK y \in queues \cup live, i \in Nat : i \in 1..Len(msgs'[y]) /\ z = <<y, i>>
      BY <2>1, StoredIs
    <3>2. i \in 1..Len(msgs[y]) /\ ~(y = x /\ i = Len(msgs[x]))
      BY <1>1, <1>2, <3>1
    <3> QED
      BY <3>1, <3>2, StoredIs
  <2>2. ASSUME z \in stored, z # <<x, Len(msgs[x])>> PROVE z \in stored'
    <3>1. PICK y \in queues \cup live, i \in Nat : i \in 1..Len(msgs[y]) /\ z = <<y, i>>
      BY <2>2, StoredIs
    <3>2. i \in 1..Len(msgs'[y])
      BY <1>1, <1>2, <2>2, <3>1
    <3> QED
      BY <3>1, <3>2, StoredIs
  <2> QED
    BY <2>1, <2>2
<1>4. <<x, Len(msgs[x])>> \in stored
  <2>1. Len(msgs[x]) \in 1..Len(msgs[x])
    BY <1>2
  <2> QED
    BY <2>1, StoredIs
<1>5. IsFiniteSet(stored') /\ Cardinality(stored') = Cardinality(stored) - 1
  BY <1>3, <1>4, FS_RemoveElement DEF Counted
<1>6. Cardinality(stored') \in Nat
  BY <1>5, FS_CardinalityType
<1> QED
  BY <1>1, <1>5, <1>6 DEF Counted

-----------------------------------------------------------------------------
\* What a step that puts nobody to sleep leaves of the invariant.

\* The thread that makes a call.
LEMMA CallerFacts ==
    ASSUME IInv, NEW t \in Worker, Running(t)
    PROVE  /\ t \in Thread /\ t \in live /\ t # Idle /\ k.active = t /\ deleting = NULL
           /\ \A x \in Mailbox : ~Stands(k.q[MailQ(x)], t)
<1>1. t \in Thread /\ t # Idle /\ k.active = t /\ deleting = NULL /\ Settled(k, live)
  BY DEF IInv, Running, Worker
<1>2. \A x \in Mailbox : ~Stands(k.q[MailQ(x)], k.active)
  BY <1>1, ActiveStandsNowhere, MailQueues
<1> QED
  BY <1>1, <1>2 DEF Settled

\* Only finitely many threads are woken.
LEMMA WokenFinite ==
    ASSUME IsFiniteSet(live)
    PROVE  \A s : IsFiniteSet(woken(s)) /\ Cardinality(woken(s)) \in Nat
<1> SUFFICES ASSUME NEW s PROVE IsFiniteSet(woken(s)) /\ Cardinality(woken(s)) \in Nat
  OBVIOUS
<1>1. woken(s) \in SUBSET live
  BY DEF woken
<1> QED
  BY <1>1, FS_Subset, FS_CardinalityType

\* Nobody starts to sleep in the mailbox of a thread, and for those who sleep
\* there nothing changes.
LEMMA OwnersStay ==
    ASSUME OwnersOnly,
           \A t, u \in Thread : Stands(k'.q[MailQ(t)], u) =>
               Stands(k.q[MailQ(t)], u) /\ retry'[t] = retry[t] /\ msgs'[t] = msgs[t]
    PROVE  OwnersOnly'
  BY DEF OwnersOnly, matching

\* The same in a queue: it stays, and gets into no other variable.
LEMMA SleepersStay ==
    ASSUME SleepersCalled,
           \A o \in KMsgQ, u \in Thread : Stands(k'.q[MailQ(o)], u) =>
               /\ Stands(k.q[MailQ(o)], u) /\ retry'[u] = retry[u]
               /\ o \in queues => o \in queues'
               /\ \A s \in MsgQ : ptr'[s] = o => ptr[s] = o
    PROVE  SleepersCalled'
  BY DEF SleepersCalled

\* No message comes to the queue of s and none of its woken threads is lost.
LEMMA AwaitedStays ==
    ASSUME IInv, TypeOK', Settled(k', live'), IsFiniteSet(live'),
           NEW s \in MsgQ \ Selective, ptr'[s] = ptr[s],
           Len(msgs'[ptr[s]]) = Len(msgs[ptr[s]]) \/ msgs'[ptr[s]] = <<>>,
           \A u \in Thread : Stands(k'.q[MailQ(ptr[s])], u) => Stands(k.q[MailQ(ptr[s])], u),
           \A u \in live : retry[u] # NULL /\ retry[u].src = s => u \in live' /\ retry'[u] = retry[u]
    PROVE  AwaitedIn(s)'
<1> SUFFICES ASSUME ptr[s] # NULL, k'.q[MailQ(ptr[s])] # <<>>
             PROVE  Len(msgs'[ptr[s]]) <= Cardinality(woken(s)')
  BY DEF AwaitedIn
<1>1. /\ MailQ(ptr[s]) \in WaitQ /\ TypeOK /\ Settled(k, live) /\ IsFiniteSet(live)
      /\ Len(msgs[ptr[s]]) \in Nat /\ Len(msgs'[ptr[s]]) \in Nat
      /\ live \subseteq Thread /\ live' \subseteq Thread
  BY MailQueues, LenProperties DEF IInv, TypeOK
<1>2. k.q[MailQ(ptr[s])] # <<>>
  BY <1>1, Occupied
<1>3. Len(msgs[ptr[s]]) <= Cardinality(woken(s))
  BY <1>2 DEF IInv, Awaited, AwaitedIn
<1>4. woken(s) \in SUBSET woken(s)'
  <2>1. \A t \in live : k.queue[t] = MailQ(ptr[s]) <=> Stands(k.q[MailQ(ptr[s])], t)
    BY <1>1, QueueIs
  <2>2. \A t \in live' : k'.queue[t] = MailQ(ptr[s]) <=> Stands(k'.q[MailQ(ptr[s])], t)
    BY <1>1, QueueIs
  <2> QED
    BY <1>1, <2>1, <2>2 DEF woken
<1>5. IsFiniteSet(woken(s)') /\ Cardinality(woken(s)') \in Nat /\ Cardinality(woken(s)) \in Nat
  <2>1. woken(s)' \in SUBSET live'
    BY DEF woken
  <2> QED
    BY <1>1, <2>1, WokenFinite, FS_Subset, FS_CardinalityType
<1>6. Cardinality(woken(s)) <= Cardinality(woken(s)')
  BY <1>4, <1>5, FS_Subset
<1>7. msgs'[ptr[s]] = <<>> => Len(msgs'[ptr[s]]) = 0
  OBVIOUS
<1> QED
  BY <1>1, <1>3, <1>5, <1>6, <1>7

\* A step that changes no mailbox and puts nobody to sleep in one.
LEMMA QuietKeeps ==
    ASSUME IInv, UNCHANGED <<live, ptr, queues, msgs, heap, retry, deleting>>, Settled(k', live),
           min_prio' \in [Mailbox -> Nat], sig_prio' \in [Thread -> Nat],
           \A x \in Mailbox, u \in Thread : Stands(k'.q[MailQ(x)], u) => Stands(k.q[MailQ(x)], u)
    PROVE  IInv'
<1>1. TypeOK'
  BY DEF IInv, TypeOK, Settled, Linked
<1>2. Settled(k, live)' /\ IsFiniteSet(live')
  BY DEF IInv
<1>3. \A t \in Thread \ live' : retry'[t] = NULL
  BY DEF IInv
<1>4. QueuesOwned' /\ DeletedEmpty'
  BY DEF IInv, QueuesOwned, DeletedEmpty
<1>5. SleepersCalled' /\ OwnersOnly'
  BY SleepersStay, OwnersStay, MailQueues DEF IInv
<1>6. Awaited'
  <2> SUFFICES ASSUME NEW s \in MsgQ \ Selective PROVE AwaitedIn(s)'
    BY DEF Awaited
  <2>1. CASE ptr[s] = NULL
    BY <2>1 DEF AwaitedIn
  <2>2. CASE ptr[s] # NULL
    <3>1. \A u \in Thread : Stands(k'.q[MailQ(ptr[s])], u) => Stands(k.q[MailQ(ptr[s])], u)
      BY <2>2, MailQueues DEF IInv, TypeOK
    <3> QED
      BY <1>1, <1>2, <3>1, AwaitedStays
  <2> QED
    BY <2>1, <2>2
<1>7. Counted'
  BY DEF IInv, Counted, stored
<1> QED
  BY <1>1, <1>2, <1>3, <1>4, <1>5, <1>6, <1>7 DEF IInv

\* Limits, sleeping, waking, the release of threads from a deleted queue.
LEMMA QuietSteps ==
    ASSUME IInv,
           \/ \E t \in Setters, l \in ThreadLimits : sys__thread_msg_set(t, l)
           \/ delete_next
           \/ \E t \in Worker : sys__wait_for_alarm(t) \/ k_timer_interrupt(t)
           \/ UNCHANGED vars
    PROVE  IInv'
<1>0. /\ TypeOK /\ Settled(k, live) /\ min_prio \in [Mailbox -> Nat] /\ sig_prio \in [Thread -> Nat]
  BY DEF IInv, TypeOK
<1>1. ASSUME NEW t \in Setters, NEW l \in ThreadLimits, sys__thread_msg_set(t, l) PROVE IInv'
  <2>1. l[1] \in Nat /\ l[2] \in Nat /\ t \in Thread
    BY MessagesAssumption DEF Worker
  <2>2. /\ UNCHANGED <<k, live, ptr, queues, msgs, heap, retry, deleting>>
        /\ min_prio' \in [Mailbox -> Nat] /\ sig_prio' \in [Thread -> Nat]
    BY <1>0, <1>1, <2>1 DEF sys__thread_msg_set
  <2> QED
    BY <1>0, <2>2, QuietKeeps
<1>2. ASSUME delete_next PROVE IInv'
  <2> DEFINE x == MailQ(ptr[deleting[2]])
  <2>1. deleting[2] \in MsgQ /\ ptr[deleting[2]] \in KMsgQ
    BY <1>2 DEF delete_next, IInv, TypeOK, DeletedEmpty
  <2>2. x \in WaitQ /\ k.q[x] # <<>> /\ k' = kthreadq_release(k, x)
    BY <1>2, <2>1, MailQueues DEF delete_next
  <2> HIDE DEF x
  <2>3. /\ Settled(k', live)
        /\ \A y \in WaitQ, u \in Thread : Stands(k'.q[y], u) => Stands(k.q[y], u)
    BY <1>0, <2>2, ReleaseSettled
  <2>4. UNCHANGED mvars
    BY <1>2 DEF delete_next
  <2> QED
    BY <1>0, <2>3, <2>4, QuietKeeps, MailQueues DEF mvars
<1>3. ASSUME NEW t \in Worker, sys__wait_for_alarm(t) PROVE IInv'
  <2>1. /\ k.active = t /\ t # Idle /\ k' = kthreads_schedule(kthread_enqueue(k, t, AlarmQ(t)))
        /\ UNCHANGED mvars /\ AlarmQ(t) \in WaitQ
    BY <1>3, MailQueues DEF sys__wait_for_alarm, sleep
  <2>2. /\ Settled(k', live)
        /\ \A y \in WaitQ, u \in Thread :
              Stands(k'.q[y], u) <=> Stands(k.q[y], u) \/ (y = AlarmQ(t) /\ u = t)
    BY <1>0, <2>1, BlockSettled
  <2>3. \A y \in Mailbox, u \in Thread : Stands(k'.q[MailQ(y)], u) => Stands(k.q[MailQ(y)], u)
    BY <2>2, MailQueues
  <2> QED
    BY <1>0, <2>1, <2>2, <2>3, QuietKeeps DEF mvars
<1>4. ASSUME NEW t \in Worker, k_timer_interrupt(t) PROVE IInv'
  <2>1. /\ k.q[AlarmQ(t)] # <<>> /\ k' = kthreads_schedule(kthreadq_release(k, AlarmQ(t)))
        /\ UNCHANGED mvars /\ AlarmQ(t) \in WaitQ
    BY <1>4, MailQueues DEF k_timer_interrupt, wake
  <2>2. /\ Settled(k', live)
        /\ \A y \in WaitQ, u \in Thread : Stands(k'.q[y], u) => Stands(k.q[y], u)
    BY <1>0, <2>1, WakeSettled
  <2> QED
    BY <1>0, <2>1, <2>2, QuietKeeps, MailQueues DEF mvars
<1>5. ASSUME UNCHANGED vars PROVE IInv'
  BY <1>0, <1>5, QuietKeeps DEF vars, mvars
<1> QED
  BY <1>1, <1>2, <1>3, <1>4, <1>5

\* create_msg_queue: nobody sleeps in a queue that does not exist, so that
\* emptying its list of threads loses nobody.
LEMMA CreateStep ==
    ASSUME IInv, NEW t \in Worker, NEW s \in MsgQ, NEW o \in KMsgQ, NEW m \in QueueLimits,
           sys__create_msg_queue(t, s, o, m)
    PROVE  IInv' /\ k' = k
<1>1. /\ TypeOK /\ Settled(k, live) /\ IsFiniteSet(live) /\ o \notin queues
      /\ QueuesOwned /\ SleepersCalled /\ OwnersOnly /\ Counted /\ deleting = NULL
      /\ UNCHANGED <<live, sig_prio, heap, retry, deleting>>
      /\ MailQ(o) \in WaitQ /\ o \in Mailbox /\ o \notin Thread /\ o # NULL
  BY MailQueues DEF IInv, sys__create_msg_queue, Free, Running
<1>2. k.q[MailQ(o)] = <<>>
  BY <1>1, Occupied DEF SleepersCalled
<1>3. k' = k
  <2>1. k \in KState /\ MailQ(o) \in Queue /\ k' = [k EXCEPT !.q[MailQ(o)] = <<>>]
    BY <1>1, QueueNames DEF TypeOK, sys__create_msg_queue
  <2> QED
    BY <1>2, <2>1 DEF KState
<1>4. /\ queues' = queues \cup {o} /\ ptr' = [ptr EXCEPT ![s] = o]
      /\ msgs' = [msgs EXCEPT ![o] = <<>>] /\ min_prio' = [min_prio EXCEPT ![o] = m]
  BY DEF sys__create_msg_queue
<1>5. TypeOK'
  <2>1. m \in Nat
    BY MessagesAssumption
  <2> QED
    BY <1>1, <1>3, <1>4, <2>1 DEF TypeOK
<1>6. /\ ptr'[s] = o /\ \A r \in MsgQ : r # s => ptr'[r] = ptr[r]
      /\ msgs'[o] = <<>> /\ \A x \in Mailbox : x # o => msgs'[x] = msgs[x]
      /\ \A r \in MsgQ : ptr[r] # o /\ ptr[r] \in KMsgQ \cup {NULL}
      /\ queues' = queues \cup {o} /\ queues \cup live \subseteq Mailbox /\ o \notin live
  BY <1>1, <1>4 DEF TypeOK, QueuesOwned, Mailbox
<1>7. QueuesOwned' /\ DeletedEmpty'
  BY <1>1, <1>6 DEF QueuesOwned, DeletedEmpty
<1>8. SleepersCalled'
  <2>1. \A u \in Thread : ~Stands(k.q[MailQ(o)], u)
    BY <1>1, <1>2, Occupied
  <2> QED
    BY <1>1, <1>3, <1>6, <2>1, SleepersStay
<1>9. OwnersOnly'
  BY <1>1, <1>3, <1>6, MailQueues, OwnersStay
<1>10. Awaited'
  <2> SUFFICES ASSUME NEW r \in MsgQ \ Selective PROVE AwaitedIn(r)'
    BY DEF Awaited
  <2>1. CASE r = s
    BY <1>2, <1>3, <1>6, <2>1 DEF AwaitedIn
  <2>2. CASE r # s /\ ptr[r] = NULL
    BY <1>6, <2>2 DEF AwaitedIn
  <2>3. CASE r # s /\ ptr[r] # NULL
    <3>1. ptr'[r] = ptr[r] /\ msgs'[ptr[r]] = msgs[ptr[r]]
      BY <1>6, <2>3, MailQueues
    <3> QED
      BY <1>1, <1>3, <1>5, <3>1, AwaitedStays
  <2> QED
    BY <2>1, <2>2, <2>3
<1>11. Counted'
  <2>1. queues' \cup live' \subseteq Mailbox
    BY <1>1, <1>6
  <2>2. \A x \in Mailbox : x \in queues \cup live => msgs'[x] = msgs[x]
    BY <1>1, <1>6
  <2>3. \A x \in Mailbox : (x \in queues' \cup live' /\ msgs'[x] # <<>>)
                            <=> (x \in queues \cup live /\ msgs[x] # <<>>)
    BY <1>1, <1>6
  <2> QED
    BY <1>1, <2>1, <2>2, <2>3, SameCounts
<1>12. \A u \in Thread \ live' : retry'[u] = NULL
  BY <1>1 DEF IInv
<1> QED
  BY <1>1, <1>3, <1>5, <1>7, <1>8, <1>9, <1>10, <1>11, <1>12 DEF IInv

\* delete_msg_queue frees the messages before it releases the threads.
LEMMA DeleteStep ==
    ASSUME IInv, NEW t \in Worker, NEW s \in MsgQ, sys__delete_msg_queue(t, s)
    PROVE  IInv' /\ k' = k
<1>1. /\ TypeOK /\ Settled(k, live) /\ IsFiniteSet(live)
      /\ QueuesOwned /\ SleepersCalled /\ OwnersOnly /\ Counted
      /\ UNCHANGED <<k, live, ptr, queues, min_prio, sig_prio, retry>>
      /\ ptr[s] # NULL /\ k_msgq_clean(ptr[s]) /\ deleting' = <<t, s>>
  BY DEF IInv, sys__delete_msg_queue
<1>2. ptr[s] \in KMsgQ /\ ptr[s] \in Mailbox /\ ptr[s] \in queues \cup live /\ ptr[s] \notin Thread
  BY <1>1, MailQueues DEF TypeOK, QueuesOwned
<1>3. /\ Counted' /\ heap' \in 0..MaxMsgs /\ msgs' \in [Mailbox -> Seq(Message)]
      /\ msgs'[ptr[s]] = <<>> /\ \A y \in Mailbox : y # ptr[s] => msgs'[y] = msgs[y]
  BY <1>1, <1>2, CleanCounts
<1>4. TypeOK'
  BY <1>1, <1>3 DEF TypeOK
<1>5. QueuesOwned' /\ DeletedEmpty'
  BY <1>1, <1>3 DEF QueuesOwned, DeletedEmpty
<1>6. SleepersCalled' /\ OwnersOnly'
  BY <1>1, <1>2, <1>3, MailQueues, SleepersStay, OwnersStay
<1>7. Awaited'
  <2> SUFFICES ASSUME NEW r \in MsgQ \ Selective PROVE AwaitedIn(r)'
    BY DEF Awaited
  <2>1. CASE ptr[r] = NULL
    BY <1>1, <2>1 DEF AwaitedIn
  <2>2. CASE ptr[r] # NULL
    <3>1. ptr[r] \in Mailbox
      BY <1>1, <2>2, MailQueues DEF TypeOK
    <3>2. Len(msgs'[ptr[r]]) = Len(msgs[ptr[r]]) \/ msgs'[ptr[r]] = <<>>
      BY <1>3, <3>1
    <3> QED
      BY <1>1, <1>4, <3>2, AwaitedStays
  <2> QED
    BY <2>1, <2>2
<1>8. \A u \in Thread \ live' : retry'[u] = NULL
  BY <1>1 DEF IInv
<1> QED
  BY <1>1, <1>3, <1>4, <1>5, <1>6, <1>7, <1>8 DEF IInv

\* The object is freed when nobody sleeps in it any more.
LEMMA DeleteDoneStep ==
    ASSUME IInv, delete_done
    PROVE  IInv' /\ k' = k
<1> DEFINE s == deleting[2]
           o == ptr[deleting[2]]
<1>1. /\ TypeOK /\ Settled(k, live) /\ IsFiniteSet(live)
      /\ QueuesOwned /\ SleepersCalled /\ OwnersOnly /\ Counted
      /\ UNCHANGED <<k, live, msgs, min_prio, sig_prio, heap, retry>>
      /\ k.q[MailQ(o)] = <<>> /\ queues' = queues \ {o} /\ deleting' = NULL
      /\ ptr' = [ptr EXCEPT ![s] = NULL] /\ s \in MsgQ /\ o # NULL /\ msgs[o] = <<>>
  BY DEF IInv, delete_done, TypeOK, DeletedEmpty
<1>2. /\ o \in KMsgQ /\ o \in Mailbox /\ MailQ(o) \in WaitQ /\ o = ptr[s]
      /\ o \notin live /\ queues \cup live \subseteq Mailbox
      /\ ptr'[s] = NULL /\ \A r \in MsgQ : r # s => ptr'[r] = ptr[r] /\ ptr[r] # o
  BY <1>1, MailQueues DEF TypeOK, QueuesOwned, Mailbox
<1>3. TypeOK'
  BY <1>1 DEF TypeOK
<1> HIDE DEF s, o
<1>4. QueuesOwned' /\ DeletedEmpty'
  BY <1>1, <1>2 DEF QueuesOwned, DeletedEmpty
<1>5. SleepersCalled' /\ OwnersOnly'
  <2>1. \A u \in Thread : ~Stands(k.q[MailQ(o)], u)
    BY <1>1, <1>2, Occupied
  <2>2. \A r \in MsgQ, p \in KMsgQ : ptr'[r] = p => ptr[r] = p
    BY <1>2, MailQueues
  <2>3. \A p \in KMsgQ, u \in Thread : Stands(k.q[MailQ(p)], u) /\ p \in queues => p \in queues'
    BY <1>1, <2>1
  <2> QED
    BY <1>1, <2>2, <2>3, SleepersStay, OwnersStay
<1>6. Awaited'
  <2> SUFFICES ASSUME NEW r \in MsgQ \ Selective PROVE AwaitedIn(r)'
    BY DEF Awaited
  <2>1. CASE r = s
    BY <1>2, <2>1 DEF AwaitedIn
  <2>2. CASE r # s
    BY <1>1, <1>2, <1>3, <2>2, AwaitedStays
  <2> QED
    BY <2>1, <2>2
<1>7. Counted'
  BY <1>1, <1>2, SameCounts
<1>8. \A u \in Thread \ live' : retry'[u] = NULL
  BY <1>1 DEF IInv
<1> QED
  BY <1>1, <1>3, <1>4, <1>5, <1>6, <1>7, <1>8 DEF IInv

\* msg_post: the message comes with a released thread, if any sleeps there; in
\* the mailbox of a thread that is the only one.
LEMMA PostStep ==
    ASSUME IInv, NEW t \in Worker, NEW x \in Mailbox, NEW m \in Message, sys__msg_post(t, x, m)
    PROVE  IInv' /\ (k' = k \/ HighestRuns(k'))
<1> DEFINE h == Head(k.q[MailQ(x)])
<1>1. /\ TypeOK /\ Settled(k, live) /\ IsFiniteSet(live)
      /\ QueuesOwned /\ SleepersCalled /\ OwnersOnly /\ Counted /\ Awaited
      /\ UNCHANGED <<live, ptr, queues, min_prio, sig_prio, retry, deleting>>
      /\ deleting = NULL /\ heap' = heap + 1 /\ heap < MaxMsgs
      /\ msgs' = [msgs EXCEPT ![x] = Append(@, m)]
  BY DEF IInv, sys__msg_post, Free, Running
<1>2. x \in queues \cup live /\ MailQ(x) \in WaitQ
  BY <1>1, MailQueues DEF sys__msg_post, destinations, QueuesOwned
<1>3. /\ msgs' \in [Mailbox -> Seq(Message)] /\ heap' \in 0..MaxMsgs
      /\ Len(msgs'[x]) = Len(msgs[x]) + 1 /\ Len(msgs[x]) \in Nat
      /\ \A y \in Mailbox : y # x => msgs'[y] = msgs[y]
  <2>1. msgs \in [Mailbox -> Seq(Message)] /\ heap \in 0..MaxMsgs /\ MaxMsgs \in Nat
    BY <1>1, MessagesAssumption DEF TypeOK
  <2>2. /\ Append(msgs[x], m) \in Seq(Message) /\ Len(Append(msgs[x], m)) = Len(msgs[x]) + 1
        /\ Len(msgs[x]) \in Nat
    BY <2>1, AppendMember, LenProperties
  <2> HIDE DEF h
  <2> QED
    BY <1>1, <2>1, <2>2
<1>4. Counted'
  BY <1>1, <1>2, PostCounts
<1>5. /\ Settled(k', live) /\ (k' = k \/ HighestRuns(k'))
      /\ k.q[MailQ(x)] # <<>> => h \in live /\ Stands(k.q[MailQ(x)], h)
      /\ \A y \in Mailbox, u \in Thread :
            Stands(k'.q[MailQ(y)], u) =>
                Stands(k.q[MailQ(y)], u) /\ ~(y = x /\ u = h)
  <2>1. CASE k.q[MailQ(x)] = <<>>
    <3>1. k' = k
      BY <2>1 DEF sys__msg_post
    <3>2. \A u \in Thread : ~Stands(k.q[MailQ(x)], u)
      BY <1>1, <1>2, <2>1, Occupied
    <3> QED
      BY <1>1, <2>1, <3>1, <3>2
  <2>2. CASE k.q[MailQ(x)] # <<>>
    <3>1. k' = kthreads_schedule(kthreadq_release(k, MailQ(x)))
      BY <2>2 DEF sys__msg_post
    <3>2. /\ Settled(k', live) /\ HighestRuns(k') /\ h \in live /\ Stands(k.q[MailQ(x)], h)
          /\ \A y \in WaitQ, u \in Thread :
                Stands(k'.q[y], u) <=> Stands(k.q[y], u) /\ ~(y = MailQ(x) /\ u = h)
      BY <1>1, <1>2, <2>2, <3>1, WakeSettled
    <3> QED
      BY <3>2, MailQueues
  <2> QED
    BY <2>1, <2>2
<1> HIDE DEF h
<1>6. TypeOK'
  <2>1. k' \in KState
    BY <1>5 DEF Settled, Linked
  <2> QED
    BY <1>1, <1>3, <2>1 DEF TypeOK
<1>7. QueuesOwned' /\ DeletedEmpty'
  BY <1>1 DEF QueuesOwned, DeletedEmpty
<1>8. SleepersCalled'
  BY <1>1, <1>5, MailQueues, SleepersStay
<1>9. OwnersOnly'
  <2>1. ASSUME NEW v \in Thread, NEW u \in Thread, Stands(k'.q[MailQ(v)], u)
        PROVE  Stands(k.q[MailQ(v)], u) /\ retry'[v] = retry[v] /\ msgs'[v] = msgs[v]
    <3>1. Stands(k.q[MailQ(v)], u) /\ ~(v = x /\ u = h) /\ u = v
      BY <1>1, <1>5, <2>1, MailQueues DEF OwnersOnly
    <3>2. ASSUME v = x PROVE FALSE
      <4>1. k.q[MailQ(x)] # <<>>
        BY <1>1, <1>2, <3>1, <3>2, Occupied
      <4>2. Stands(k.q[MailQ(v)], h) /\ h \in Thread
        BY <1>1, <1>5, <3>2, <4>1 DEF TypeOK
      <4>3. h = v
        BY <1>1, <4>2 DEF OwnersOnly
      <4> QED
        BY <3>1, <3>2, <4>3
    <3> QED
      BY <1>1, <1>3, <3>1, <3>2, MailQueues
  <2> QED
    BY <1>1, <2>1, OwnersStay
<1>10. Awaited'
  <2> SUFFICES ASSUME NEW s \in MsgQ \ Selective, ptr[s] # NULL PROVE AwaitedIn(s)'
    BY <1>1 DEF Awaited, AwaitedIn
  <2>1. ptr[s] \in Mailbox /\ ptr[s] \in KMsgQ
    BY <1>1, MailQueues DEF TypeOK
  <2>2. CASE ptr[s] # x
    <3>1. msgs'[ptr[s]] = msgs[ptr[s]]
      BY <1>3, <2>1, <2>2
    <3>2. \A u \in Thread : Stands(k'.q[MailQ(ptr[s])], u) => Stands(k.q[MailQ(ptr[s])], u)
      BY <1>5, <2>1
    <3>3. Settled(k', live') /\ IsFiniteSet(live')
      BY <1>1, <1>5
    <3> QED
      BY <1>1, <1>6, <3>1, <3>2, <3>3, AwaitedStays
  <2>3. CASE ptr[s] = x
    <3> SUFFICES ASSUME k'.q[MailQ(x)] # <<>> PROVE Len(msgs'[x]) <= Cardinality(woken(s)')
      BY <1>1, <2>3 DEF AwaitedIn
    <3>1. k.q[MailQ(x)] # <<>>
      BY <1>1, <1>2, <1>5, Occupied
    <3>2. Len(msgs[x]) <= Cardinality(woken(s))
      BY <1>1, <2>3, <3>1 DEF Awaited, AwaitedIn
    <3>3. h \in live /\ h \in Thread /\ Stands(k.q[MailQ(x)], h) /\ ~Stands(k'.q[MailQ(x)], h)
      BY <1>1, <1>5, <3>1 DEF TypeOK
    <3>4. retry[h] # NULL /\ retry[h].src = s
      BY <1>1, <2>1, <2>3, <3>3 DEF SleepersCalled
    <3>5. /\ \A u \in live : k.queue[u] = MailQ(x) <=> Stands(k.q[MailQ(x)], u)
          /\ \A u \in live : k'.queue[u] = MailQ(x) <=> Stands(k'.q[MailQ(x)], u)
      BY <1>1, <1>2, <1>5, QueueIs
    <3>6. woken(s) \cup {h} \subseteq woken(s)' /\ h \notin woken(s) /\ woken(s)' \subseteq live
      <4>1. \A u \in live : u \in Thread
        BY <1>1 DEF TypeOK
      <4> QED
        BY <1>1, <1>5, <2>3, <3>3, <3>4, <3>5, <4>1 DEF woken
    <3>7. IsFiniteSet(woken(s)) /\ Cardinality(woken(s)) \in Nat
      BY <1>1, WokenFinite
    <3>8. IsFiniteSet(woken(s) \cup {h}) /\ Cardinality(woken(s) \cup {h}) = Cardinality(woken(s)) + 1
      BY <3>6, <3>7, FS_AddElement
    <3>9. IsFiniteSet(woken(s)')
      BY <1>1, <3>6, FS_Subset
    <3>10. Cardinality(woken(s)') \in Nat
      BY <3>9, FS_CardinalityType
    <3>11. Cardinality(woken(s) \cup {h}) <= Cardinality(woken(s)')
      <4>1. woken(s) \cup {h} \in SUBSET woken(s)'
        BY <3>6
      <4> QED
        BY <3>9, <4>1, FS_Subset
    <3> QED
      BY <1>3, <3>2, <3>7, <3>8, <3>10, <3>11
  <2> QED
    BY <2>2, <2>3
<1>11. \A u \in Thread \ live' : retry'[u] = NULL
  BY <1>1 DEF IInv
<1> QED
  BY <1>1, <1>4, <1>5, <1>6, <1>7, <1>8, <1>9, <1>10, <1>11 DEF IInv

\* A signal starts a thread with an empty mailbox.
LEMMA SignalStep ==
    ASSUME IInv, NEW t \in Worker, NEW d \in Worker, NEW n \in Worker, NEW type \in Types,
           sys__msg_post_signal(t, d, type, n)
    PROVE  IInv' /\ HighestRuns(k')
<1>1. /\ TypeOK /\ Settled(k, live) /\ IsFiniteSet(live)
      /\ QueuesOwned /\ SleepersCalled /\ OwnersOnly /\ Counted
      /\ UNCHANGED <<ptr, queues, heap, retry, deleting>>
      /\ deleting = NULL /\ n \notin live /\ live' = live \cup {n}
      /\ msgs' = [msgs EXCEPT ![n] = <<>>]
      /\ min_prio' = [min_prio EXCEPT ![n] = 0] /\ sig_prio' = [sig_prio EXCEPT ![n] = 0]
  BY DEF IInv, sys__msg_post_signal, Free, Running
<1>2. /\ n \in Thread /\ d \in Thread /\ n \in Mailbox /\ n \notin KMsgQ
      /\ n \notin queues /\ queues \cup live \subseteq Mailbox /\ retry[n] = NULL
  <2>1. n \in Thread /\ d \in Thread
    BY DEF Worker
  <2> QED
    BY <1>1, <2>1, MailQueues DEF TypeOK, Mailbox, IInv
<1>3. /\ msgs'[n] = <<>> /\ \A y \in Mailbox : y # n => msgs'[y] = msgs[y]
      /\ msgs' \in [Mailbox -> Seq(Message)] /\ live' \subseteq Thread
      /\ min_prio' \in [Mailbox -> Nat] /\ sig_prio' \in [Thread -> Nat]
  BY <1>1, <1>2 DEF TypeOK
<1>4. Settled(k', live') /\ HighestRuns(k') /\ \A y \in WaitQ : k'.q[y] = k.q[y]
  <2> DEFINE p == IF k.prio[d] + 1 \in Prio THEN k.prio[d] + 1 ELSE PRIO_LEVELS - 1
  <2>1. p \in Prio /\ n \in Thread \ live
    BY <1>1, <1>2, KThreadsAssumption DEF Prio
  <2>2. k' = kthreads_schedule(kthread_move_to_ready([k EXCEPT !.prio[n] = p], n))
    BY DEF sys__msg_post_signal
  <2> HIDE DEF p
  <2> QED
    BY <1>1, <2>1, <2>2, StartSettled
<1>5. IsFiniteSet(live')
  BY <1>1, FS_AddElement
<1>6. \A y \in Mailbox : k'.q[MailQ(y)] = k.q[MailQ(y)]
  BY <1>4, MailQueues
<1>7. \A u \in Thread : ~Stands(k.q[MailQ(u)], n)
  <2>1. \A u \in Thread : MailQ(u) \in WaitQ
    BY MailQueues
  <2>2. Linked(k, live)
    BY <1>1 DEF Settled
  <2> QED
    BY <1>1, <1>2, <2>1, <2>2, StandsIff
<1>8. TypeOK'
  <2>1. k' \in KState
    BY <1>4 DEF Settled, Linked
  <2> QED
    BY <1>1, <1>3, <2>1 DEF TypeOK
<1>9. QueuesOwned' /\ DeletedEmpty'
  BY <1>1 DEF QueuesOwned, DeletedEmpty
<1>10. SleepersCalled'
  BY <1>1, <1>6, MailQueues, SleepersStay
<1>11. OwnersOnly'
  <2>1. ASSUME NEW v \in Thread, NEW u \in Thread, Stands(k'.q[MailQ(v)], u)
        PROVE  Stands(k.q[MailQ(v)], u) /\ retry'[v] = retry[v] /\ msgs'[v] = msgs[v]
    <3>1. Stands(k.q[MailQ(v)], u) /\ v \in Mailbox
      BY <1>6, <2>1, MailQueues
    <3>2. v # n
      BY <1>1, <1>7, <3>1 DEF OwnersOnly
    <3> QED
      BY <1>1, <1>3, <3>1, <3>2
  <2> QED
    BY <1>1, <2>1, OwnersStay
<1>12. Awaited'
  <2> SUFFICES ASSUME NEW s \in MsgQ \ Selective, ptr[s] # NULL PROVE AwaitedIn(s)'
    BY <1>1 DEF Awaited, AwaitedIn
  <2>1. ptr[s] \in Mailbox /\ ptr[s] # n
    BY <1>1, <1>2, MailQueues DEF TypeOK
  <2>2. msgs'[ptr[s]] = msgs[ptr[s]] /\ k'.q[MailQ(ptr[s])] = k.q[MailQ(ptr[s])]
    BY <1>3, <1>6, <2>1
  <2> QED
    BY <1>1, <1>4, <1>5, <1>8, <2>2, AwaitedStays
<1>13. Counted'
  <2>1. \A x \in Mailbox : x \in queues \cup live => msgs'[x] = msgs[x]
    BY <1>1, <1>2, <1>3
  <2>2. \A x \in Mailbox : (x \in queues' \cup live' /\ msgs'[x] # <<>>)
                            <=> (x \in queues \cup live /\ msgs[x] # <<>>)
    BY <1>1, <1>3, <2>1
  <2>3. queues' \cup live' \subseteq Mailbox
    BY <1>1, <1>2
  <2> QED
    BY <1>1, <2>1, <2>2, <2>3, SameCounts
<1>14. \A u \in Thread \ live' : retry'[u] = NULL
  BY <1>1 DEF IInv
<1> QED
  BY <1>4, <1>5, <1>8, <1>9, <1>10, <1>11, <1>12, <1>13, <1>14 DEF IInv

-----------------------------------------------------------------------------
\* Receiving.

\* The first position of a set of positions is one of them.
LEMMA FirstMatches ==
    ASSUME NEW S, S \subseteq Nat, S # {}
    PROVE  Min(S) \in S
<1>1. PICK n \in S : \A m \in S : ~(<<m, n>> \in OpToRel(<, Nat))
  BY NatLessThanWellFounded, WFMin
<1>2. \A m \in Nat : m < n => <<m, n>> \in OpToRel(<, Nat)
  BY DEF OpToRel
<1>3. n \in Nat /\ \A m \in S : ~(m < n)
  BY <1>1, <1>2
<1>4. \A m \in S : n <= m
  BY <1>3
<1> QED
  BY <1>4 DEF Min

\* Removing a message makes the list one shorter.
LEMMA RemoveAtShorter ==
    ASSUME NEW S, NEW s \in Seq(S), NEW i \in 1..Len(s)
    PROVE  RemoveAt(s, i) \in Seq(S) /\ Len(RemoveAt(s, i)) = Len(s) - 1
<1> DEFINE a == SubSeq(s, 1, i - 1)
           b == SubSeq(s, i + 1, Len(s))
<1>1. Len(s) \in Nat /\ i \in Nat /\ i <= Len(s) /\ i >= 1
  OBVIOUS
<1>2. a \in Seq(S) /\ Len(a) = i - 1
  BY <1>1
<1>3. b \in Seq(S) /\ Len(b) = Len(s) - i
  BY <1>1
<1>4. RemoveAt(s, i) = a \o b
  BY DEF RemoveAt
<1> HIDE DEF a, b
<1>5. a \o b \in Seq(S) /\ Len(a \o b) = Len(a) + Len(b)
  BY <1>2, <1>3
<1> QED
  BY <1>1, <1>2, <1>3, <1>4, <1>5

\* The mailbox a call is about.
LEMMA BoxIs ==
    ASSUME IInv, NEW t \in Worker, NEW c \in Call, calls(t, c), box(t, c.src) # NULL
    PROVE  LET x == box(t, c.src) IN
           /\ x \in Mailbox /\ x \in queues \cup live /\ MailQ(x) \in WaitQ
           /\ x \in Thread => x = t /\ c.src = "own"
           /\ x \in KMsgQ => c.src \in MsgQ /\ ptr[c.src] = x
           /\ \A s \in MsgQ : ptr[s] = x => c.src = s
<1>1. /\ TypeOK /\ QueuesOwned /\ c.src \in MsgQ \cup {"own"} /\ "own" \notin MsgQ
      /\ t \in live /\ t \in Thread
  BY CallerFacts, MessagesAssumption DEF IInv, Call, calls
<1>2. CASE c.src = "own"
  <2>1. box(t, c.src) = t
    BY <1>2 DEF box
  <2> QED
    BY <1>1, <1>2, <2>1, MailQueues DEF TypeOK
<1>3. CASE c.src \in MsgQ
  <2>1. box(t, c.src) = ptr[c.src] /\ ptr[c.src] \in KMsgQ
    BY <1>1, <1>3 DEF box, TypeOK
  <2> QED
    BY <1>1, <1>3, <2>1, MailQueues DEF QueuesOwned
<1> QED
  BY <1>1, <1>2, <1>3

\* A thread whose call is about another variable is not the caller.
LEMMA OthersCall ==
    ASSUME NEW t, NEW c, calls(t, c), NEW s, c.src # s, NEW u, retry[u] # NULL, retry[u].src = s
    PROVE  u # t
  BY DEF calls

\* msg_recv takes a message, and the caller is no longer one that was woken for
\* a message of its queue.
LEMMA RecvStep ==
    ASSUME IInv, NEW t \in Worker, NEW c \in Call, sys__msg_recv(t, c)
    PROVE  IInv' /\ k' = k
<1> DEFINE x == box(t, c.src)
           i == Min(matching(x, c.type))
<1>1. /\ TypeOK /\ Settled(k, live) /\ IsFiniteSet(live) /\ MaxMsgs \in Nat
      /\ QueuesOwned /\ SleepersCalled /\ OwnersOnly /\ Counted /\ Awaited
      /\ UNCHANGED <<k, live, ptr, queues, min_prio, sig_prio, deleting>>
      /\ calls(t, c) /\ Running(t) /\ x # NULL /\ matching(x, c.type) # {}
      /\ retry' = [retry EXCEPT ![t] = NULL]
  BY MessagesAssumption DEF IInv, sys__msg_recv, calls
<1>2. /\ t \in Thread /\ t \in live /\ deleting = NULL
      /\ \A y \in Mailbox : ~Stands(k.q[MailQ(y)], t)
  BY <1>1, CallerFacts
<1>3. /\ x \in Mailbox /\ x \in queues \cup live /\ MailQ(x) \in WaitQ
      /\ x \in Thread => x = t
      /\ \A s \in MsgQ : ptr[s] = x => c.src = s
  BY <1>1, BoxIs
<1>4. i \in 1..Len(msgs[x]) /\ msgs[x] \in Seq(Message) /\ msgs[x][i] \in Message
  <2>1. msgs[x] \in Seq(Message)
    BY <1>1, <1>3 DEF TypeOK
  <2>2. matching(x, c.type) \subseteq 1..Len(msgs[x]) /\ matching(x, c.type) \subseteq Nat
    BY <2>1 DEF matching
  <2>3. i \in matching(x, c.type)
    BY <1>1, <2>2, FirstMatches
  <2> QED
    BY <2>1, <2>2, <2>3
<1>5. \/ UNCHANGED <<msgs, heap>> /\ c.size < msgs[x][i].size
      \/ msgs' = [msgs EXCEPT ![x] = RemoveAt(@, i)] /\ heap' = heap - 1
  BY DEF sys__msg_recv
<1> HIDE DEF i, x
<1>6. /\ Counted' /\ heap' \in 0..MaxMsgs /\ msgs' \in [Mailbox -> Seq(Message)]
      /\ \A y \in Mailbox : y # x => msgs'[y] = msgs[y]
      /\ \/ msgs' = msgs /\ c.size < msgs[x][i].size
         \/ Len(msgs'[x]) = Len(msgs[x]) - 1
  <2>0. msgs \in [Mailbox -> Seq(Message)] /\ heap \in 0..MaxMsgs
    BY <1>1 DEF TypeOK
  <2>1. CASE UNCHANGED <<msgs, heap>> /\ c.size < msgs[x][i].size
    <3>1. stored' = stored
      BY <1>1, <2>1 DEF stored
    <3> QED
      BY <1>1, <2>0, <2>1, <3>1 DEF Counted
  <2>2. CASE msgs' = [msgs EXCEPT ![x] = RemoveAt(@, i)] /\ heap' = heap - 1
    <3> DEFINE q == RemoveAt(msgs[x], i)
    <3>1. q \in Seq(Message) /\ Len(q) = Len(msgs[x]) - 1
      BY <1>4, RemoveAtShorter
    <3>2. msgs' = [msgs EXCEPT ![x] = q]
      BY <2>2
    <3> HIDE DEF q
    <3>3. Counted' /\ heap' \in 0..MaxMsgs
      BY <1>1, <1>3, <2>2, <3>1, <3>2, TakeCounts
    <3>4. /\ msgs' \in [Mailbox -> Seq(Message)] /\ msgs'[x] = q
          /\ \A y \in Mailbox : y # x => msgs'[y] = msgs[y]
      BY <1>3, <2>0, <3>1, <3>2
    <3> QED
      BY <3>1, <3>3, <3>4
  <2> QED
    BY <1>5, <2>1, <2>2
<1>7. /\ retry' \in [Thread -> Call \cup {NULL}] /\ retry'[t] = NULL
      /\ \A u \in Thread : u # t => retry'[u] = retry[u]
  BY <1>1, <1>2 DEF TypeOK
<1>8. TypeOK'
  BY <1>1, <1>6, <1>7 DEF TypeOK
<1>9. QueuesOwned' /\ DeletedEmpty'
  BY <1>1, <1>2 DEF QueuesOwned, DeletedEmpty
<1>10. SleepersCalled'
  BY <1>1, <1>2, <1>7, MailQueues, SleepersStay
<1>11. OwnersOnly'
  <2>1. ASSUME NEW v \in Thread, NEW u \in Thread, Stands(k'.q[MailQ(v)], u)
        PROVE  Stands(k.q[MailQ(v)], u) /\ retry'[v] = retry[v] /\ msgs'[v] = msgs[v]
    <3>1. Stands(k.q[MailQ(v)], u) /\ v \in Mailbox /\ v # t
      BY <1>1, <1>2, <2>1, MailQueues DEF OwnersOnly
    <3> QED
      BY <1>3, <1>6, <1>7, <3>1
  <2> QED
    BY <1>1, <2>1, OwnersStay
<1>12. Awaited'
  <2> SUFFICES ASSUME NEW s \in MsgQ \ Selective, ptr[s] # NULL PROVE AwaitedIn(s)'
    BY <1>1 DEF Awaited, AwaitedIn
  <2>1. ptr[s] \in Mailbox /\ MailQ(ptr[s]) \in WaitQ
    BY <1>1, MailQueues DEF TypeOK
  <2>2. CASE c.src # s
    <3>1. msgs'[ptr[s]] = msgs[ptr[s]]
      BY <1>3, <1>6, <2>1, <2>2
    <3>2. \A u \in live : retry[u] # NULL /\ retry[u].src = s => u \in live' /\ retry'[u] = retry[u]
      BY <1>1, <1>7, <2>2, OthersCall DEF TypeOK
    <3> QED
      BY <1>1, <1>8, <3>1, <3>2, AwaitedStays
  <2>3. CASE c.src = s
    <3>1. c.src # "own" /\ x = ptr[s]
      BY <2>3, MessagesAssumption DEF x, box
    <3>2. \A n \in Sizes : n <= c.size
      BY <1>1, <2>3, <3>1 DEF calls
    <3>3. msgs[x][i].size \in Sizes /\ msgs[x][i].size \in Nat /\ c.size \in Nat
      BY <1>4, MessagesAssumption DEF Sizes, Call
    <3>4. Len(msgs'[x]) = Len(msgs[x]) - 1
      BY <1>6, <3>2, <3>3
    <3> SUFFICES ASSUME k.q[MailQ(x)] # <<>> PROVE Len(msgs'[x]) <= Cardinality(woken(s)')
      BY <1>1, <3>1 DEF AwaitedIn
    <3>5. Len(msgs[x]) <= Cardinality(woken(s)) /\ Len(msgs[x]) \in Nat
      BY <1>1, <1>4, <3>1, LenProperties DEF Awaited, AwaitedIn
    <3>6. woken(s) \ {t} \subseteq woken(s)' /\ woken(s)' \subseteq live
      BY <1>1, <1>7 DEF woken, TypeOK
    <3>7. IsFiniteSet(woken(s)) /\ Cardinality(woken(s)) \in Nat
      BY <1>1, WokenFinite
    <3>8. Cardinality(woken(s) \ {t}) \in {Cardinality(woken(s)), Cardinality(woken(s)) - 1}
      BY <3>7, FS_RemoveElement
    <3>9. IsFiniteSet(woken(s)')
      BY <1>1, <3>6, FS_Subset
    <3>10. Cardinality(woken(s)') \in Nat
      BY <3>9, FS_CardinalityType
    <3>11. Cardinality(woken(s) \ {t}) <= Cardinality(woken(s)')
      <4>1. woken(s) \ {t} \in SUBSET woken(s)'
        BY <3>6
      <4> QED
        BY <3>9, <4>1, FS_Subset
    <3> QED
      BY <3>4, <3>5, <3>7, <3>8, <3>10, <3>11
  <2> QED
    BY <2>2, <2>3
<1>13. \A u \in Thread \ live' : retry'[u] = NULL
  BY <1>1, <1>7 DEF IInv
<1> QED
  BY <1>1, <1>6, <1>8, <1>9, <1>10, <1>11, <1>12, <1>13 DEF IInv

\* msg_recv that finds nothing: the caller sleeps where its call looked.
LEMMA RecvBlockStep ==
    ASSUME IInv, NEW t \in Worker, NEW c \in Call, sys__msg_recv_block(t, c)
    PROVE  IInv' /\ HighestRuns(k')
<1> DEFINE x == box(t, c.src)
<1>1. /\ TypeOK /\ Settled(k, live) /\ IsFiniteSet(live) /\ NULL \notin Call
      /\ QueuesOwned /\ SleepersCalled /\ OwnersOnly /\ Counted /\ Awaited
      /\ UNCHANGED <<live, ptr, queues, msgs, min_prio, sig_prio, heap, deleting>>
      /\ calls(t, c) /\ Running(t) /\ x # NULL /\ matching(x, c.type) = {}
      /\ k' = kthreads_schedule(kthread_enqueue(k, t, MailQ(x)))
      /\ retry' = [retry EXCEPT ![t] = c]
  BY MessagesAssumption DEF IInv, sys__msg_recv_block, calls
<1>2. /\ t \in Thread /\ t \in live /\ deleting = NULL /\ k.active = t /\ t # Idle
      /\ \A y \in Mailbox : ~Stands(k.q[MailQ(y)], t)
  BY <1>1, CallerFacts
<1>3. /\ x \in Mailbox /\ x \in queues \cup live /\ MailQ(x) \in WaitQ
      /\ x \in Thread => x = t /\ c.src = "own"
      /\ x \in KMsgQ => c.src \in MsgQ /\ ptr[c.src] = x
      /\ \A s \in MsgQ : ptr[s] = x => c.src = s
  BY <1>1, BoxIs
<1>4. /\ Settled(k', live) /\ HighestRuns(k')
      /\ \A y \in WaitQ, u \in Thread :
            Stands(k'.q[y], u) <=> Stands(k.q[y], u) \/ (y = MailQ(x) /\ u = t)
  BY <1>1, <1>2, <1>3, BlockSettled
<1>5. \A y \in Mailbox, u \in Thread :
            Stands(k'.q[MailQ(y)], u) <=> Stands(k.q[MailQ(y)], u) \/ (y = x /\ u = t)
  BY <1>3, <1>4, MailQueues
<1>6. /\ retry' \in [Thread -> Call \cup {NULL}] /\ retry'[t] = c /\ c # NULL
      /\ \A u \in Thread : u # t => retry'[u] = retry[u]
  BY <1>1, <1>2 DEF TypeOK
<1>7. TypeOK'
  <2>1. k' \in KState
    BY <1>4 DEF Settled, Linked
  <2> QED
    BY <1>1, <1>6, <2>1 DEF TypeOK
<1>8. QueuesOwned' /\ DeletedEmpty'
  BY <1>1, <1>2 DEF QueuesOwned, DeletedEmpty
<1>9. x \in KMsgQ => x \in queues
  BY <1>1, <1>3, MailQueues DEF QueuesOwned
<1> HIDE DEF x
<1>10. SleepersCalled'
  <2> SUFFICES ASSUME NEW o \in KMsgQ, NEW u \in Thread, Stands(k'.q[MailQ(o)], u)
               PROVE  /\ o \in queues /\ retry'[u] # NULL
                      /\ \A s \in MsgQ : ptr[s] = o => retry'[u].src = s
    BY <1>1 DEF SleepersCalled
  <2>1. CASE u = t
    <3>1. o = x
      BY <1>2, <1>5, <2>1, MailQueues
    <3> QED
      BY <1>3, <1>6, <1>9, <2>1, <3>1
  <2>2. CASE u # t
    <3>1. Stands(k.q[MailQ(o)], u) /\ retry'[u] = retry[u]
      BY <1>5, <1>6, <2>2, MailQueues
    <3> QED
      BY <1>1, <3>1 DEF SleepersCalled
  <2> QED
    BY <2>1, <2>2
<1>11. OwnersOnly'
  <2> SUFFICES ASSUME NEW v \in Thread, NEW u \in Thread, Stands(k'.q[MailQ(v)], u)
               PROVE  /\ u = v /\ retry'[v] # NULL /\ retry'[v].src = "own"
                      /\ matching(v, retry'[v].type) = {}
    BY <1>1 DEF OwnersOnly, matching
  <2>1. CASE u = t
    <3>1. v = x
      BY <1>2, <1>5, <2>1, MailQueues
    <3> QED
      BY <1>1, <1>3, <1>6, <2>1, <3>1
  <2>2. CASE u # t
    <3>1. Stands(k.q[MailQ(v)], u)
      BY <1>5, <2>2, MailQueues
    <3>2. /\ u = v /\ retry[v] # NULL /\ retry[v].src = "own"
          /\ matching(v, retry[v].type) = {}
      BY <1>1, <3>1 DEF OwnersOnly
    <3> QED
      BY <1>6, <2>2, <3>2
  <2> QED
    BY <2>1, <2>2
<1>12. Awaited'
  <2> SUFFICES ASSUME NEW s \in MsgQ \ Selective, ptr[s] # NULL PROVE AwaitedIn(s)'
    BY <1>1 DEF Awaited, AwaitedIn
  <2>1. ptr[s] \in Mailbox /\ MailQ(ptr[s]) \in WaitQ
    BY <1>1, MailQueues DEF TypeOK
  <2>2. CASE c.src # s
    <3>1. \A u \in Thread : Stands(k'.q[MailQ(ptr[s])], u) => Stands(k.q[MailQ(ptr[s])], u)
      BY <1>3, <1>5, <2>1, <2>2
    <3>2. \A u \in live : retry[u] # NULL /\ retry[u].src = s => u \in live' /\ retry'[u] = retry[u]
      BY <1>1, <1>6, <2>2, OthersCall DEF TypeOK
    <3>3. Settled(k', live') /\ IsFiniteSet(live') /\ Len(msgs'[ptr[s]]) = Len(msgs[ptr[s]])
      BY <1>1, <1>4
    <3> QED
      BY <1>1, <1>7, <3>1, <3>2, <3>3, AwaitedStays
  <2>3. CASE c.src = s
    <3>1. c.src # "own" /\ x = ptr[s]
      BY <2>3, MessagesAssumption DEF x, box
    <3>2. c.type = 0
      BY <1>1, <2>3, <3>1 DEF calls
    <3>3. Len(msgs[x]) \in Nat
      BY <1>1, <1>3, LenProperties DEF TypeOK
    <3>4. 1 \notin 1..Len(msgs[x])
      BY <1>1, <3>2 DEF matching, x
    <3>5. Len(msgs'[x]) = 0
      BY <1>1, <3>3, <3>4
    <3>6. woken(s)' \subseteq live
      BY <1>1 DEF woken
    <3>7. IsFiniteSet(woken(s)')
      BY <1>1, <3>6, FS_Subset
    <3>8. Cardinality(woken(s)') \in Nat
      BY <3>7, FS_CardinalityType
    <3> QED
      BY <1>1, <3>1, <3>5, <3>8 DEF AwaitedIn
  <2> QED
    BY <2>2, <2>3
<1>13. Counted'
  <2>1. stored' = stored
    BY <1>1 DEF stored
  <2> QED
    BY <1>1, <2>1 DEF Counted
<1>14. \A u \in Thread \ live' : retry'[u] = NULL
  BY <1>1, <1>2, <1>6 DEF IInv
<1> QED
  BY <1>1, <1>4, <1>7, <1>8, <1>10, <1>11, <1>12, <1>13, <1>14 DEF IInv

\* The queue of a repeated call is gone: nobody waits for its messages.
LEMMA RecvGoneStep ==
    ASSUME IInv, NEW t \in Worker, NEW c \in Call, sys__msg_recv_gone(t, c)
    PROVE  IInv' /\ k' = k
<1>1. /\ TypeOK /\ Settled(k, live) /\ IsFiniteSet(live)
      /\ QueuesOwned /\ SleepersCalled /\ OwnersOnly /\ Counted
      /\ UNCHANGED <<k, live, ptr, queues, msgs, min_prio, sig_prio, heap, deleting>>
      /\ calls(t, c) /\ Running(t) /\ box(t, c.src) = NULL
      /\ retry' = [retry EXCEPT ![t] = NULL]
  BY DEF IInv, sys__msg_recv_gone, calls
<1>2. /\ t \in Thread /\ t \in live /\ deleting = NULL
      /\ \A y \in Mailbox : ~Stands(k.q[MailQ(y)], t)
  BY <1>1, CallerFacts
<1>3. /\ retry' \in [Thread -> Call \cup {NULL}]
      /\ \A u \in Thread : u # t => retry'[u] = retry[u]
  BY <1>1, <1>2 DEF TypeOK
<1>4. TypeOK'
  BY <1>1, <1>3 DEF TypeOK
<1>5. QueuesOwned' /\ DeletedEmpty'
  BY <1>1, <1>2 DEF QueuesOwned, DeletedEmpty
<1>6. SleepersCalled' /\ OwnersOnly'
  <2>1. \A v \in Thread : ~Stands(k.q[MailQ(v)], t)
    BY <1>2, MailQueues
  <2>2. \A v, u \in Thread : Stands(k.q[MailQ(v)], u) => v # t
    BY <1>1, <1>2, <2>1 DEF OwnersOnly
  <2> QED
    BY <1>1, <1>2, <1>3, <2>2, MailQueues, SleepersStay, OwnersStay
<1>7. Awaited'
  <2> SUFFICES ASSUME NEW s \in MsgQ \ Selective, ptr[s] # NULL PROVE AwaitedIn(s)'
    BY <1>1 DEF Awaited, AwaitedIn
  <2>1. c.src # s
    BY <1>1, MessagesAssumption DEF box
  <2>2. \A u \in live : retry[u] # NULL /\ retry[u].src = s => u \in live' /\ retry'[u] = retry[u]
    <3>1. \A u \in live : retry[u] # NULL /\ retry[u].src = s => u # t
      BY <1>1, <2>1, OthersCall
    <3> QED
      BY <1>1, <1>3, <3>1 DEF TypeOK
  <2> QED
    BY <1>1, <1>4, <2>2, AwaitedStays
<1>8. Counted'
  <2>1. stored' = stored
    BY <1>1 DEF stored
  <2> QED
    BY <1>1, <2>1 DEF Counted
<1>9. \A u \in Thread \ live' : retry'[u] = NULL
  BY <1>1, <1>2, <1>3 DEF IInv
<1> QED
  BY <1>1, <1>4, <1>5, <1>6, <1>7, <1>8, <1>9 DEF IInv

\* A thread that ends frees what is in its mailbox; it is in no call.
LEMMA ExitStep ==
    ASSUME IInv, NEW t \in Worker, sys__thread_exit(t)
    PROVE  IInv' /\ HighestRuns(k')
<1>1. /\ TypeOK /\ Settled(k, live) /\ IsFiniteSet(live)
      /\ QueuesOwned /\ SleepersCalled /\ OwnersOnly /\ Counted
      /\ UNCHANGED <<ptr, queues, min_prio, sig_prio, retry, deleting>>
      /\ Running(t) /\ retry[t] = NULL /\ live' = live \ {t} /\ k_msgq_clean(t)
      /\ k' = kthreads_schedule(kthread_unlink(k, t))
  BY DEF IInv, sys__thread_exit, Free
<1>2. /\ t \in Thread /\ t \in live /\ deleting = NULL /\ k.active = t /\ t # Idle
      /\ \A y \in Mailbox : ~Stands(k.q[MailQ(y)], t)
  BY <1>1, CallerFacts
<1>3. t \in Mailbox /\ t \notin KMsgQ /\ queues' \cup live' = (queues \cup live) \ {t}
  BY <1>1, <1>2, MailQueues DEF TypeOK
<1>4. /\ Counted' /\ heap' \in 0..MaxMsgs /\ msgs' \in [Mailbox -> Seq(Message)]
      /\ \A y \in Mailbox : y # t => msgs'[y] = msgs[y]
  BY <1>1, <1>2, <1>3, CleanCounts
<1>5. /\ Settled(k', live') /\ HighestRuns(k')
      /\ \A y \in WaitQ, u \in Thread : Stands(k'.q[y], u) <=> Stands(k.q[y], u)
  BY <1>1, <1>2, EndSettled
<1>6. \A y \in Mailbox, u \in Thread : Stands(k'.q[MailQ(y)], u) <=> Stands(k.q[MailQ(y)], u)
  BY <1>5, MailQueues
<1>7. IsFiniteSet(live')
  BY <1>1, FS_RemoveElement
<1>8. TypeOK'
  <2>1. k' \in KState
    BY <1>5 DEF Settled, Linked
  <2> QED
    BY <1>1, <1>4, <2>1 DEF TypeOK
<1>9. QueuesOwned' /\ DeletedEmpty'
  BY <1>1, <1>2 DEF QueuesOwned, DeletedEmpty
<1>10. SleepersCalled'
  BY <1>1, <1>6, MailQueues, SleepersStay
<1>11. OwnersOnly'
  <2>1. ASSUME NEW v \in Thread, NEW u \in Thread, Stands(k'.q[MailQ(v)], u)
        PROVE  Stands(k.q[MailQ(v)], u) /\ retry'[v] = retry[v] /\ msgs'[v] = msgs[v]
    <3>1. Stands(k.q[MailQ(v)], u) /\ v \in Mailbox
      BY <1>6, <2>1, MailQueues
    <3>2. v # t
      BY <1>1, <1>2, <3>1 DEF OwnersOnly
    <3> QED
      BY <1>1, <1>4, <3>1, <3>2
  <2> QED
    BY <1>1, <2>1, OwnersStay
<1>12. Awaited'
  <2> SUFFICES ASSUME NEW s \in MsgQ \ Selective, ptr[s] # NULL PROVE AwaitedIn(s)'
    BY <1>1 DEF Awaited, AwaitedIn
  <2>1. ptr[s] \in Mailbox /\ ptr[s] # t
    BY <1>1, <1>3, MailQueues DEF TypeOK
  <2>2. msgs'[ptr[s]] = msgs[ptr[s]]
    BY <1>4, <2>1
  <2>3. \A u \in Thread : Stands(k'.q[MailQ(ptr[s])], u) => Stands(k.q[MailQ(ptr[s])], u)
    BY <1>6, <2>1
  <2>4. \A u \in live : retry[u] # NULL /\ retry[u].src = s => u \in live' /\ retry'[u] = retry[u]
    BY <1>1
  <2> QED
    BY <1>1, <1>5, <1>7, <1>8, <2>2, <2>3, <2>4, AwaitedStays
<1>13. \A u \in Thread \ live' : retry'[u] = NULL
  BY <1>1 DEF IInv
<1> QED
  BY <1>4, <1>5, <1>7, <1>8, <1>9, <1>10, <1>11, <1>12, <1>13 DEF IInv

-----------------------------------------------------------------------------
\* In the beginning the started workers sleep on their alarms.
LEMMA InitIInv == Init => IInv
<1> SUFFICES ASSUME Init PROVE IInv
  OBVIOUS
<1>1. PICK prio \in [Started -> Prio] :
       k = [state  |-> [t \in Thread |-> CASE t = Idle -> "ACTIVE"
                                           [] t \in Started -> "WAIT"
                                           [] OTHER -> "PASSIVE"],
            prio   |-> [t \in Thread |-> IF t \in Started THEN prio[t] ELSE 0],
            queue  |-> [t \in Thread |-> IF t \in Started THEN AlarmQ(t) ELSE NULL],
            q      |-> [x \in Queue |-> IF x \in {AlarmQ(t) : t \in Started}
                                        THEN <<x[2]>> ELSE <<>>],
            mask   |-> {},
            active |-> Idle]
  BY DEF Init
<1> DEFINE A == {AlarmQ(t) : t \in Started}
<1>2. /\ k.state = [t \in Thread |-> CASE t = Idle -> "ACTIVE"
                                       [] t \in Started -> "WAIT"
                                       [] OTHER -> "PASSIVE"]
      /\ k.prio = [t \in Thread |-> IF t \in Started THEN prio[t] ELSE 0]
      /\ k.queue = [t \in Thread |-> IF t \in Started THEN AlarmQ(t) ELSE NULL]
      /\ k.q = [x \in Queue |-> IF x \in A THEN <<x[2]>> ELSE <<>>]
      /\ k.mask = {} /\ k.active = Idle
  BY <1>1
<1>3. /\ live = Started \cup {Idle} /\ ptr = [s \in MsgQ |-> NULL] /\ queues = {}
      /\ msgs = [x \in Mailbox |-> <<>>]
      /\ min_prio = [x \in Mailbox |-> 0] /\ sig_prio = [t \in Thread |-> 0]
      /\ heap = 0 /\ retry = [t \in Thread |-> NULL] /\ deleting = NULL
  BY DEF Init
<1>4. /\ Idle \in Thread /\ 0 \in Prio /\ NULL \notin WaitQ /\ Idle \notin Started
      /\ \A t \in Started : t \in Thread /\ t # Idle /\ AlarmQ(t) \in Queue
                            /\ AlarmQ(t) \notin ReadyQs /\ AlarmQ(t) \in A /\ AlarmQ(t)[2] = t
      /\ \A x \in A : x[2] \in Started /\ x = AlarmQ(x[2]) /\ x \notin ReadyQs
  <2>1. \A t \in Started : AlarmQ(t) \in WaitQ /\ t \in Thread /\ t # Idle
    BY MailQueues, MessagesAssumption DEF Worker
  <2>2. \A t \in Started : AlarmQ(t)[2] = t
    BY DEF AlarmQ
  <2> QED
    BY <2>1, <2>2, KThreadsAssumption, QueueNames DEF Prio
<1>5. \A x \in Queue : /\ x \in A => k.q[x] = <<x[2]>> /\ x[2] \in Started
                       /\ x \notin A => k.q[x] = <<>>
  BY <1>2, <1>4
<1>6. \A t \in Thread : /\ t = Idle => k.state[t] = "ACTIVE" /\ k.queue[t] = NULL
                        /\ t \in Started => k.state[t] = "WAIT" /\ k.queue[t] = AlarmQ(t)
  BY <1>2, <1>4
<1>7. k \in KState
  <2>1. k.state \in [Thread -> ThreadState]
    BY <1>2 DEF ThreadState
  <2>2. k.queue \in [Thread -> Queue \cup {NULL}]
    BY <1>2, <1>4
  <2>3. k.q \in [Queue -> Seq(Thread)]
    <3>1. \A x \in Queue : (IF x \in A THEN <<x[2]>> ELSE <<>>) \in Seq(Thread)
      BY <1>4
    <3> QED
      BY <1>2, <3>1
  <2>4. k.prio \in [Thread -> Prio]
    BY <1>2, <1>4
  <2>5. k = [state |-> k.state, prio |-> k.prio, queue |-> k.queue, q |-> k.q,
             mask |-> k.mask, active |-> k.active]
    BY <1>1
  <2> QED
    BY <1>2, <1>4, <2>1, <2>2, <2>3, <2>4, <2>5 DEF KState
<1> HIDE DEF A
<1>8. LinkedOnce(k, live)
  <2> SUFFICES ASSUME NEW x \in Queue, NEW i \in 1..Len(k.q[x]), NEW j \in 1..Len(k.q[x])
               PROVE  /\ k.q[x][i] \in live /\ k.queue[k.q[x][i]] = x /\ x \notin ReadyQs
                      /\ k.state[k.q[x][i]] = "WAIT" /\ i = j
    BY DEF LinkedOnce
  <2>1. x \in A
    BY <1>5
  <2>2. k.q[x] = <<x[2]>>
    BY <1>5, <2>1
  <2>3. i = 1 /\ j = 1 /\ k.q[x][i] = x[2]
    BY <2>2
  <2>4. x[2] \in Started /\ x = AlarmQ(x[2]) /\ x \notin ReadyQs /\ x[2] \in Thread
    BY <1>4, <2>1
  <2> QED
    BY <1>3, <1>6, <2>3, <2>4
<1>9. NoneLost(k, live)
  <2> SUFFICES ASSUME NEW t \in live
               PROVE  \/ k.state[t] = "ACTIVE" /\ t = k.active
                      \/ /\ k.state[t] \in {"READY", "WAIT"} /\ k.queue[t] \in Queue
                         /\ \E i \in 1..Len(k.q[k.queue[t]]) : k.q[k.queue[t]][i] = t
    BY DEF NoneLost
  <2>1. CASE t = Idle
    BY <1>2, <1>4, <1>6, <2>1
  <2>2. CASE t \in Started
    <3>1. t \in Thread /\ k.state[t] = "WAIT" /\ k.queue[t] = AlarmQ(t) /\ AlarmQ(t) \in Queue
          /\ AlarmQ(t) \in A /\ AlarmQ(t)[2] = t
      BY <1>4, <1>6, <2>2
    <3>2. k.q[AlarmQ(t)] = <<t>>
      BY <1>5, <3>1
    <3>3. 1 \in 1..Len(k.q[AlarmQ(t)]) /\ k.q[AlarmQ(t)][1] = t
      BY <3>2
    <3> QED
      BY <3>1, <3>3
  <2> QED
    BY <1>3, <2>1, <2>2
<1>10. MaskExact(k)
  <2>1. \A p \in Prio : k.q[ReadyQ(p)] = <<>>
    BY <1>4, <1>5, QueueNames
  <2> QED
    BY <1>2, <2>1 DEF MaskExact
<1>11. live \subseteq Thread /\ Linked(k, live)
  BY <1>3, <1>4, <1>7, <1>8, <1>9, <1>10 DEF Linked
<1>12. Settled(k, live)
  BY <1>2, <1>3, <1>4, <1>6, <1>11 DEF Settled
<1>13. IsFiniteSet(live)
  <2>1. IsFiniteSet(Started)
    BY MessagesAssumption
  <2> QED
    BY <1>3, <2>1, FS_AddElement
<1>14. TypeOK
  <2>1. 0 \in 0..MaxMsgs
    BY MessagesAssumption
  <2>2. <<>> \in Seq(Message)
    OBVIOUS
  <2>3. msgs \in [Mailbox -> Seq(Message)]
    BY <1>3, <2>2
  <2> QED
    BY <1>3, <1>7, <1>11, <2>1, <2>3 DEF TypeOK
<1>15. \A x \in Mailbox : k.q[MailQ(x)] = <<>>
  <2> SUFFICES ASSUME NEW x \in Mailbox PROVE k.q[MailQ(x)] = <<>>
    OBVIOUS
  <2>1. MailQ(x) \in Queue
    BY MailQueues, QueueNames
  <2>2. MailQ(x) \notin A
    BY MailQueues DEF A
  <2> QED
    BY <1>5, <2>1, <2>2
<1>16. \A x \in Mailbox, u \in Thread : ~Stands(k.q[MailQ(x)], u)
  BY <1>15 DEF Stands
<1>17. SleepersCalled /\ OwnersOnly
  BY <1>16, MailQueues DEF SleepersCalled, OwnersOnly
<1>18. QueuesOwned /\ DeletedEmpty /\ Awaited
  BY <1>3 DEF QueuesOwned, DeletedEmpty, Awaited, AwaitedIn
<1>19. Counted
  <2>1. \A x \in queues \cup live : Len(msgs[x]) = 0
    BY <1>3, <1>11, MailQueues
  <2>2. stored = {}
    BY <2>1, StoredIs
  <2> QED
    BY <1>3, <2>2, FS_EmptySet DEF Counted
<1> QED
  BY <1>3, <1>12, <1>13, <1>14, <1>17, <1>18, <1>19 DEF IInv

\* Every step keeps the invariant.
LEMMA NextIInv == IInv /\ [Next]_vars => IInv'
<1> SUFFICES ASSUME IInv, [Next]_vars PROVE IInv'
  OBVIOUS
<1>1. CASE idle_thread
  BY <1>1, QuietSteps DEF idle_thread
<1> QED
  BY <1>1, QuietSteps, CreateStep, DeleteStep, DeleteDoneStep, PostStep, SignalStep,
     RecvStep, RecvBlockStep, RecvGoneStep, ExitStep DEF Next

\* The invariant holds for all threads, queues, variables, messages, limits and
\* sizes of the memory.
THEOREM SpecIInv == Spec => []IInv
  BY InitIInv, NextIInv, PTL DEF Spec

\* No interleaving of sends, receives, wake-ups, signals, ends of threads and
\* deletions loses a thread or links one twice.
THEOREM SpecQueuesConsistent == Spec => []QueuesConsistent
<1>1. IInv => QueuesConsistent
  BY DEF IInv, QueuesConsistent, Settled, Linked
<1> QED
  BY <1>1, SpecIInv, PTL

\* The retry loop of receive_message is enough: whoever takes a message another
\* thread was woken for, as long as threads sleep in a queue each message in it
\* has a thread that is about to look; a thread never sleeps beside a message it
\* would take from its own mailbox.
THEOREM SpecNoMessageForSleeper == Spec => []NoMessageForSleeper
<1>1. IInv => NoMessageForSleeper
  <2> SUFFICES ASSUME IInv PROVE NoMessageForSleeper
    OBVIOUS
  <2>1. ASSUME NEW t \in live, k.queue[t] = MailQ(t) PROVE matching(t, retry[t].type) = {}
    <3>1. t \in Thread /\ MailQ(t) \in WaitQ /\ Settled(k, live) /\ OwnersOnly
      BY MailQueues DEF IInv, TypeOK
    <3>2. Stands(k.q[MailQ(t)], t)
      BY <2>1, <3>1, QueueIs
    <3> QED
      BY <3>1, <3>2 DEF OwnersOnly
  <2> QED
    BY <2>1 DEF IInv, Awaited, AwaitedIn, NoMessageForSleeper
<1> QED
  BY <1>1, SpecIInv, PTL

\* The kernel's memory holds exactly the messages of the mailboxes that exist.
THEOREM SpecNoMessageLeaked == Spec => []NoMessageLeaked
<1>1. IInv => NoMessageLeaked
  BY DEF IInv, Counted, NoMessageLeaked
<1> QED
  BY <1>1, SpecIInv, PTL

\* No thread sleeps in freed memory: a queue is freed when its last sleeper has
\* been released, and in a thread's mailbox only that thread sleeps.
THEOREM SpecNoSleepInFreedMailbox == Spec => []NoSleepInFreedMailbox
<1>1. IInv => NoSleepInFreedMailbox
  <2> SUFFICES ASSUME IInv PROVE NoSleepInFreedMailbox
    OBVIOUS
  <2>1. Settled(k, live) /\ SleepersCalled /\ OwnersOnly
    BY DEF IInv
  <2>2. ASSUME NEW o \in KMsgQ, k.q[MailQ(o)] # <<>> PROVE o \in queues
    <3>1. MailQ(o) \in WaitQ
      BY MailQueues
    <3>2. \E u \in Thread : Stands(k.q[MailQ(o)], u)
      BY <2>1, <2>2, <3>1, Occupied
    <3> QED
      BY <2>1, <3>2 DEF SleepersCalled
  <2>3. ASSUME NEW t \in Thread, NEW i \in DOMAIN k.q[MailQ(t)] PROVE k.q[MailQ(t)][i] = t
    <3>1. MailQ(t) \in Queue /\ k.q[MailQ(t)] \in Seq(Thread)
      BY <2>1, MailQueues, QueueNames DEF Settled, Linked, KState
    <3>2. i \in 1..Len(k.q[MailQ(t)]) /\ k.q[MailQ(t)][i] \in Thread
      BY <3>1
    <3>3. Stands(k.q[MailQ(t)], k.q[MailQ(t)][i])
      BY <3>2 DEF Stands
    <3> QED
      BY <2>1, <3>2, <3>3 DEF OwnersOnly
  <2> QED
    BY <2>2, <2>3 DEF NoSleepInFreedMailbox
<1> QED
  BY <1>1, SpecIInv, PTL

\* Every handler that makes a thread ready but delete_msg_queue also chooses the
\* thread to run: a released receiver of a higher priority runs at once.
THEOREM SpecHighestKept == Spec => HighestKept
<1>1. IInv /\ [Next]_vars => [HighestRuns(k) /\ ~delete_next => HighestRuns(k')]_vars
  <2> SUFFICES ASSUME IInv, Next, HighestRuns(k), ~delete_next PROVE HighestRuns(k')
    OBVIOUS
  <2>0. Settled(k, live)
    BY DEF IInv
  <2>1. ASSUME NEW t \in Worker, sys__wait_for_alarm(t) PROVE HighestRuns(k')
    <3>1. /\ k.active = t /\ t # Idle /\ k' = kthreads_schedule(kthread_enqueue(k, t, AlarmQ(t)))
          /\ AlarmQ(t) \in WaitQ
      BY <2>1, MailQueues DEF sys__wait_for_alarm, sleep
    <3> QED
      BY <2>0, <3>1, BlockSettled
  <2>2. ASSUME NEW t \in Worker, k_timer_interrupt(t) PROVE HighestRuns(k')
    <3>1. /\ k.q[AlarmQ(t)] # <<>> /\ k' = kthreads_schedule(kthreadq_release(k, AlarmQ(t)))
          /\ AlarmQ(t) \in WaitQ
      BY <2>2, MailQueues DEF k_timer_interrupt, wake
    <3> QED
      BY <2>0, <3>1, WakeSettled
  <2>3. ASSUME NEW t \in Setters, NEW l \in ThreadLimits, sys__thread_msg_set(t, l)
        PROVE  k' = k
    BY <2>3 DEF sys__thread_msg_set
  <2>4. idle_thread => k' = k
    BY DEF idle_thread, vars
  <2> QED
    BY <2>1, <2>2, <2>3, <2>4, CreateStep, DeleteStep, DeleteDoneStep, PostStep, SignalStep,
       RecvStep, RecvBlockStep, RecvGoneStep, ExitStep DEF Next
<1> QED
  BY <1>1, SpecIInv, PTL DEF Spec, HighestKept
=============================================================================

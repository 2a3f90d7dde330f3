---------------------------- MODULE ThreadsProofs ---------------------------
(***************************************************************************)
(* The scheduling invariants of Threads, for any number of threads and     *)
(* priorities and for every program whose cancels follow no stale links    *)
(* (CarefulCancels); a cancel that does may cut threads off their queue.   *)
(*                                                                         *)
(* The invariants of Threads are not inductive by themselves: that the     *)
(* idle thread is never cancelled rests on no program ever holding its     *)
(* handle, and that an address given to a new thread is in no queue rests  *)
(* on the descriptors of ended threads being allocated.                    *)
(***************************************************************************)
EXTENDS Threads, KThreadsProofs, FiniteSetTheorems

UserHandle == (Thread \ {Idle}) \X (1..MaxId)

\* No thread is cancelled that the second run of kthread_cancel would take out
\* between links gone stale, and none that has ended already.
CarefulCancels == "cancelStale" \notin Uses /\ "cancelEnded" \notin Uses

\* The thread a second kthread_cancel is due for has ended, and unlinking it once
\* more changes no queue.
AgainOK == again # NULL => again[1] \notin Live /\ again[2] = NULL

\* The inductive invariant.
IInv ==
    /\ TypeOK
    /\ Linked(k, Live)
    /\ Idle \in Live
    /\ k.state[Idle] \in {"ACTIVE", "READY"}
    /\ handles \subseteq UserHandle
    /\ \A t \in Thread : waiting_for[t] # NULL => waiting_for[t] \in UserHandle
    /\ ended \subseteq Allocated
    /\ k.state[k.active] = "ACTIVE" => k.active \in Live
    /\ releasing = NULL => HighestRuns(k) /\ k.active \in Live
    /\ AgainOK

\* The initial state satisfies the invariant.
LEMMA InitIInv == Init => IInv
<1> SUFFICES ASSUME Init PROVE IInv
  OBVIOUS
<1>1. PICK p \in Prio \ {0} :
       k = [state  |-> [t \in Thread |-> CASE t = Main -> "ACTIVE"
                                           [] t = Idle -> "READY"
                                           [] OTHER -> "PASSIVE"],
            prio   |-> [t \in Thread |-> IF t = Main THEN p ELSE 0],
            queue  |-> [t \in Thread |-> IF t = Idle THEN ReadyQ(0) ELSE NULL],
            q      |-> [x \in Queue |-> IF x = ReadyQ(0) THEN <<Idle>> ELSE <<>>],
            mask   |-> {0},
            active |-> Main]
  BY DEF Init
<1>2. /\ k.state = [t \in Thread |-> CASE t = Main -> "ACTIVE" [] t = Idle -> "READY"
                                       [] OTHER -> "PASSIVE"]
      /\ k.prio = [t \in Thread |-> IF t = Main THEN p ELSE 0]
      /\ k.queue = [t \in Thread |-> IF t = Idle THEN ReadyQ(0) ELSE NULL]
      /\ k.q = [x \in Queue |-> IF x = ReadyQ(0) THEN <<Idle>> ELSE <<>>]
      /\ k.mask = {0} /\ k.active = Main
  BY <1>1
<1>3. 0 \in Prio /\ ReadyQ(0) \in Queue /\ ReadyQ(0) \in ReadyQs /\ Idle \in Thread
      /\ Main \in Thread /\ Main # Idle /\ NULL \notin Thread
  BY KThreadsAssumption, ThreadsAssumption, QueueNames DEF Prio
<1>4. k \in KState
  <2>1. k.state \in [Thread -> ThreadState]
    BY <1>2, <1>3 DEF ThreadState
  <2>2. k.prio \in [Thread -> Prio]
    BY <1>2, <1>3
  <2>3. k.queue \in [Thread -> Queue \cup {NULL}]
    BY <1>2, <1>3
  <2>4. k.q \in [Queue -> Seq(Thread)]
    BY <1>2, <1>3
  <2> QED
    BY <1>1, <1>2, <1>3, <2>1, <2>2, <2>3, <2>4 DEF KState
<1>5. Live = {Idle, Main}
  BY <1>3, ThreadsAssumption DEF Init, Live, Allocated
<1>6. \A x \in Queue : Len(k.q[x]) = (IF x = ReadyQ(0) THEN 1 ELSE 0)
                       /\ (x = ReadyQ(0) => k.q[x][1] = Idle)
  BY <1>2
<1>7. LinkedOnce(k, Live)
  <2>1. k.queue[Idle] = ReadyQ(0) /\ k.state[Idle] = "READY" /\ k.prio[Idle] = 0
    BY <1>2, <1>3
  <2>2. \A x \in Queue : \A i \in 1..Len(k.q[x]) : x = ReadyQ(0) /\ i = 1 /\ k.q[x][i] = Idle
    BY <1>6
  <2> QED
    BY <1>3, <1>5, <2>1, <2>2 DEF LinkedOnce
<1>8. NoneLost(k, Live)
  <2>1. k.state[Main] = "ACTIVE"
    BY <1>2, <1>3
  <2>2. k.state[Idle] = "READY" /\ k.queue[Idle] = ReadyQ(0) /\ 1 \in 1..Len(k.q[ReadyQ(0)])
        /\ k.q[ReadyQ(0)][1] = Idle
    BY <1>2, <1>3, <1>6
  <2> QED
    BY <1>2, <1>3, <1>5, <2>1, <2>2 DEF NoneLost
<1>9. MaskExact(k)
  <2> SUFFICES ASSUME NEW o \in Prio
               PROVE  o \in k.mask <=> k.q[ReadyQ(o)] # <<>>
    BY DEF MaskExact
  <2>1. ReadyQ(o) \in Queue /\ (ReadyQ(o) = ReadyQ(0) <=> o = 0)
    BY <1>3, QueueNames
  <2> QED
    BY <1>2, <2>1
<1>10. Linked(k, Live)
  BY <1>3, <1>4, <1>5, <1>7, <1>8, <1>9 DEF Linked
<1>11. HighestRuns(k)
  BY <1>2, <1>3, KThreadsAssumption DEF HighestRuns, Prio
<1>12. TypeOK
  BY <1>4, <1>3, ThreadsAssumption DEF Init, TypeOK
<1>13. k.state[Idle] \in {"ACTIVE", "READY"}
  BY <1>2, <1>3
<1>14. ended = {} /\ handles = {} /\ again = NULL /\ \A t \in Thread : waiting_for[t] = NULL
  BY DEF Init
<1> QED
  BY <1>2, <1>5, <1>10, <1>11, <1>12, <1>13, <1>14 DEF IInv, AgainOK

-----------------------------------------------------------------------------
\* One lemma per action.

\* A clamped priority is a valid one.
LEMMA ClampPrio == ASSUME NEW p \in Int PROVE clamp_prio(p) \in Prio
  BY KThreadsAssumption DEF clamp_prio, Prio

\* A new thread joins the live ones.
LEMMA CreateKeeps ==
    ASSUME IInv, NEW t \in Thread, NEW s \in Thread, NEW p \in PrioArgs,
           NEW keep \in BOOLEAN, sys__create_thread(t, s, p, keep)
    PROVE  IInv'
<1> DEFINE m == [k EXCEPT !.prio[s] = clamp_prio(p)]
           r == kthread_move_to_ready(m, s)
<1>0. /\ TypeOK /\ Linked(k, Live) /\ Idle \in Live /\ k.state[Idle] \in {"ACTIVE", "READY"}
      /\ ended \subseteq Allocated /\ HighestRuns(k) /\ k.active \in Live
      /\ handles \subseteq UserHandle /\ Live \subseteq Thread
  BY DEF IInv, sys__create_thread, Running, InUser, Live, Allocated
<1>1. /\ id[s] = 0 /\ last_id < MaxId /\ last_id' = last_id + 1
      /\ id' = [id EXCEPT ![s] = last_id + 1] /\ ref_cnt' = [ref_cnt EXCEPT ![s] = 1]
      /\ thr_count' = thr_count + 1 /\ releasing = NULL /\ again = NULL
      /\ handles' = IF keep THEN handles \cup {<<s, id'[s]>>} ELSE handles
      /\ UNCHANGED <<waiting_for, releasing, again, ended>>
  BY DEF sys__create_thread, kthread_create, Running, InUser, new_handle
<1>2. k' = kthreads_schedule(r)
  BY DEF sys__create_thread, kthread_create
<1>3. id \in [Thread -> 0..MaxId] /\ last_id \in 2..MaxId /\ MaxId \in Nat
  BY <1>0, ThreadsAssumption DEF TypeOK
<1>4. s \in Thread \ Live /\ s # Idle /\ s \notin ended
  BY <1>0, <1>1 DEF Live, Allocated
<1>5. Live' = Live \cup {s}
  BY <1>1, <1>3, <1>4 DEF Live, Allocated
<1>6. Linked(m, Live) /\ m.state = k.state /\ m.active = k.active
  BY <1>0, <1>4, SetPrioFloats, ClampPrio, ThreadsAssumption
<1> HIDE DEF m
<1>7. /\ Linked(r, Live \cup {s}) /\ r.state = [m.state EXCEPT ![s] = "READY"]
      /\ r.active = m.active
  BY <1>4, <1>6, MoveToReadyLinks
<1> HIDE DEF r
<1>8. r.state[Idle] \in {"ACTIVE", "READY"} /\ r.active \in Live \cup {s}
      /\ Idle \in Live \cup {s}
  <2>1. k.state \in [Thread -> ThreadState]
    BY <1>0 DEF TypeOK, KState
  <2> QED
    BY <1>0, <1>4, <1>6, <1>7, <2>1
<1>9. /\ Linked(k', Live') /\ HighestRuns(k') /\ k'.active \in Live'
      /\ k'.state[Idle] \in {"ACTIVE", "READY"}
  BY <1>2, <1>5, <1>7, <1>8, ScheduleIdle
<1>10. handles' \subseteq UserHandle
  BY <1>0, <1>1, <1>3, <1>4 DEF UserHandle
<1>11. TypeOK'
  <2>1. id' \in [Thread -> 0..MaxId] /\ last_id' \in 2..MaxId /\ ref_cnt' \in [Thread -> Int]
        /\ thr_count' \in Int
    BY <1>0, <1>1, <1>3 DEF TypeOK
  <2>2. k' \in KState
    BY <1>9 DEF Linked
  <2>3. handles' \subseteq Thread \X (1..MaxId)
    BY <1>10 DEF UserHandle
  <2> QED
    BY <1>0, <1>1, <2>1, <2>2, <2>3 DEF TypeOK
<1>12. ended' \subseteq Allocated' /\ Idle \in Live'
  BY <1>0, <1>1, <1>3, <1>4, <1>5 DEF Allocated
<1>13. \A u \in Thread : waiting_for'[u] # NULL => waiting_for'[u] \in UserHandle
  BY <1>1 DEF IInv
<1>14. AgainOK'
  BY <1>1 DEF AgainOK
<1> QED
  BY <1>9, <1>10, <1>11, <1>12, <1>13, <1>14 DEF IInv

\* A live thread other than the idle one is taken out of scheduling.
LEMMA EndLinks ==
    ASSUME IInv, NEW s \in Live, s # Idle, releasing = NULL
    PROVE  LET m == kthread_unlink(k, s) IN
           /\ Linked(m, Live \ {s}) /\ Idle \in Live \ {s}
           /\ m.state[Idle] \in {"ACTIVE", "READY"}
           /\ m.state[m.active] = "ACTIVE" => m.active \in Live \ {s}
           /\ \A u \in Thread : u # s => m.state[u] = k.state[u]
           /\ k.state[s] = "ACTIVE" => m.state[s] = "PASSIVE"
<1> DEFINE m == kthread_unlink(k, s)
<1>1. /\ Linked(k, Live) /\ Idle \in Live /\ k.state[Idle] \in {"ACTIVE", "READY"}
      /\ k.active \in Live /\ Live \subseteq Thread
  BY DEF IInv, Live, Allocated
<1>2. /\ Linked(m, Live \ {s}) /\ m.active = k.active
      /\ \A u \in Thread : m.state[u] = k.state[u]
                           \/ (u = s /\ k.state[u] = "ACTIVE" /\ m.state[u] = "PASSIVE")
      /\ k.state[s] = "ACTIVE" => m.state[s] = "PASSIVE"
  BY <1>1, UnlinkFloats
<1> HIDE DEF m
<1>3. m.state[Idle] = k.state[Idle]
  BY <1>1, <1>2, KThreadsAssumption
<1>4. m.state[m.active] = "ACTIVE" => m.active # s
  BY <1>1, <1>2
<1>5. /\ Linked(m, Live \ {s}) /\ Idle \in Live \ {s}
      /\ m.state[Idle] \in {"ACTIVE", "READY"}
      /\ m.state[m.active] = "ACTIVE" => m.active \in Live \ {s}
      /\ \A u \in Thread : u # s => m.state[u] = k.state[u]
      /\ k.state[s] = "ACTIVE" => m.state[s] = "PASSIVE"
  BY <1>1, <1>2, <1>3, <1>4
<1> QED
  BY <1>5 DEF m

\* Whatever the counts become, the step that ends thread s keeps the invariant:
\* the descriptor is freed or kept as that of an ended thread.
LEMMA EndKeeps ==
    ASSUME IInv, NEW s \in Live, s # Idle, releasing = NULL,
           NEW c \in Int, NEW d \in Int,
           ref_cnt' = [ref_cnt EXCEPT ![s] = c], thr_count' = d,
           waiting_for' = [waiting_for EXCEPT ![s] = NULL],
           UNCHANGED <<last_id, handles>>,
           \/ id' = [id EXCEPT ![s] = 0] /\ ended' = ended
           \/ id' = id /\ ended' = ended \cup {s},
           \/ k' = kthreads_schedule(kthread_unlink(k, s)) /\ releasing' = NULL
           \/ k' = kthread_unlink(k, s) /\ releasing' = s,
           again' \in {NULL, <<s, NULL, NULL>>}
    PROVE  IInv'
<1> DEFINE m == kthread_unlink(k, s)
<1>0. /\ TypeOK /\ Idle \in Live /\ ended \subseteq Allocated /\ handles \subseteq UserHandle
      /\ Live \subseteq Thread /\ s \in Thread /\ id[s] # 0 /\ s \notin ended
      /\ \A u \in Thread : waiting_for[u] # NULL => waiting_for[u] \in UserHandle
  BY DEF IInv, Live, Allocated
<1>1. /\ Linked(m, Live \ {s}) /\ Idle \in Live \ {s}
      /\ m.state[Idle] \in {"ACTIVE", "READY"}
      /\ m.state[m.active] = "ACTIVE" => m.active \in Live \ {s}
  BY EndLinks
<1>2. (k' = kthreads_schedule(m) /\ releasing' = NULL) \/ (k' = m /\ releasing' = s)
  OBVIOUS
<1> HIDE DEF m
<1>3. /\ id \in [Thread -> 0..MaxId] /\ ref_cnt \in [Thread -> Int] /\ MaxId \in Nat
      /\ waiting_for \in [Thread -> (Thread \X (1..MaxId)) \cup {NULL}] /\ ended \subseteq Thread
  BY <1>0, ThreadsAssumption DEF TypeOK
<1>4. Live' = Live \ {s} /\ ended' \subseteq Allocated' /\ id' \in [Thread -> 0..MaxId]
      /\ ended' \subseteq Thread
  <2>1. CASE id' = [id EXCEPT ![s] = 0] /\ ended' = ended
    BY <1>0, <1>3, <2>1 DEF Live, Allocated
  <2>2. CASE id' = id /\ ended' = ended \cup {s}
    BY <1>0, <1>3, <2>2 DEF Live, Allocated
  <2> QED
    BY <2>1, <2>2
<1>5. /\ Linked(k', Live') /\ k'.state[Idle] \in {"ACTIVE", "READY"}
      /\ k'.state[k'.active] = "ACTIVE" => k'.active \in Live'
      /\ releasing' = NULL => HighestRuns(k') /\ k'.active \in Live'
  <2>1. CASE k' = kthreads_schedule(m)
    BY <1>1, <1>4, <2>1, ScheduleIdle
  <2>2. CASE k' = m /\ releasing' = s
    BY <1>0, <1>1, <1>4, <2>2, KThreadsAssumption
  <2> QED
    BY <1>2, <2>1, <2>2
<1>6. TypeOK'
  <2>1. k' \in KState
    BY <1>5 DEF Linked
  <2>2. ref_cnt' \in [Thread -> Int]
        /\ waiting_for' \in [Thread -> (Thread \X (1..MaxId)) \cup {NULL}]
    BY <1>0, <1>3
  <2>3. releasing' \in Thread \cup {NULL}
    BY <1>0, <1>2
  <2>4. again' \in (Thread \X (Thread \cup {NULL}) \X (Thread \cup {NULL})) \cup {NULL}
    BY <1>0
  <2> QED
    BY <1>0, <1>4, <2>1, <2>2, <2>3, <2>4 DEF TypeOK
<1>7. \A u \in Thread : waiting_for'[u] # NULL => waiting_for'[u] \in UserHandle
  BY <1>0, <1>3
<1>8. AgainOK'
  <2>1. s \notin Live'
    BY <1>4
  <2>2. again' # NULL => again'[1] = s /\ again'[2] = NULL
    OBVIOUS
  <2> QED
    BY <2>1, <2>2 DEF AgainOK
<1> QED
  BY <1>0, <1>1, <1>4, <1>5, <1>6, <1>7, <1>8 DEF IInv

\* A thread that exits.
LEMMA ExitKeeps == ASSUME IInv, NEW t \in Thread, sys__thread_exit(t) PROVE IInv'
<1>1. t \in Live /\ t # Idle /\ releasing = NULL /\ again' = NULL /\ kthread_cancel(t)
  BY DEF sys__thread_exit, Running, InUser, IInv
<1>2. ref_cnt[t] - 1 \in Int /\ thr_count - 1 \in Int
  BY <1>1 DEF IInv, TypeOK
<1>3. /\ ref_cnt' = [ref_cnt EXCEPT ![t] = ref_cnt[t] - 1] /\ thr_count' = thr_count - 1
      /\ waiting_for' = [waiting_for EXCEPT ![t] = NULL] /\ UNCHANGED <<last_id, handles>>
      /\ \/ id' = [id EXCEPT ![t] = 0] /\ ended' = ended
         \/ id' = id /\ ended' = ended \cup {t}
      /\ \/ k' = kthreads_schedule(kthread_unlink(k, t)) /\ releasing' = NULL
         \/ k' = kthread_unlink(k, t) /\ releasing' = t
  <2>1. ended \ {t} = ended
    BY <1>1 DEF Live
  <2> QED
    BY <1>1, <2>1 DEF kthread_cancel
<1> QED
  BY <1>1, <1>2, <1>3, EndKeeps

\* A thread that is cancelled, with or without others waiting for it.
LEMMA CancelKeeps ==
    ASSUME IInv, CarefulCancels, NEW t \in Thread, NEW h \in handles, sys__cancel_thread(t, h)
    PROVE  IInv'
<1> DEFINE s == h[1]
<1>1. s \in Live /\ s # Idle /\ releasing = NULL /\ again = NULL /\ s \notin ended
  <2>1. h \in UserHandle /\ releasing = NULL /\ again = NULL /\ id[s] = h[2] /\ s \notin ended
    BY DEF sys__cancel_thread, cancel_ended, CarefulCancels, Running, InUser, IInv
  <2> QED
    BY <2>1 DEF UserHandle, Live, Allocated
<1>2. /\ ref_cnt[s] \in Int /\ thr_count \in Int /\ s \in Thread
      /\ ref_cnt[s] - 1 \in Int /\ thr_count - 1 \in Int
      /\ ref_cnt[s] - 2 \in Int /\ thr_count - 2 \in Int
  BY <1>1 DEF IInv, TypeOK, Live, Allocated
<1>3. CASE cancel_unjoined(s)
  <2>1. /\ ref_cnt' = [ref_cnt EXCEPT ![s] = ref_cnt[s] - 2] /\ thr_count' = thr_count - 2
        /\ waiting_for' = [waiting_for EXCEPT ![s] = NULL] /\ UNCHANGED <<last_id, handles>>
        /\ \/ id' = [id EXCEPT ![s] = 0] /\ ended' = ended
           \/ id' = id /\ ended' = ended \cup {s}
        /\ k' = kthreads_schedule(kthread_unlink(k, s)) /\ releasing' = NULL
        /\ again' = NULL
    BY <1>1, <1>3 DEF cancel_unjoined
  <2> HIDE DEF s
  <2> QED
    BY <1>1, <1>2, <2>1, EndKeeps
<1>4. CASE cancel_joined(s)
  <2>1. /\ ref_cnt' = [ref_cnt EXCEPT ![s] = ref_cnt[s] - 1] /\ thr_count' = thr_count - 1
        /\ waiting_for' = [waiting_for EXCEPT ![s] = NULL] /\ UNCHANGED <<last_id, handles>>
        /\ \/ id' = [id EXCEPT ![s] = 0] /\ ended' = ended
           \/ id' = id /\ ended' = ended \cup {s}
        /\ \/ k' = kthreads_schedule(kthread_unlink(k, s)) /\ releasing' = NULL
           \/ k' = kthread_unlink(k, s) /\ releasing' = s
    <3>1. ended \ {s} = ended
      BY <1>1
    <3> QED
      BY <1>1, <1>4, <3>1 DEF cancel_joined, kthread_cancel
  <2>2. again' = <<s, NULL, NULL>>
    BY <1>4 DEF cancel_joined, CarefulCancels
  <2> HIDE DEF s
  <2> QED
    BY <1>1, <1>2, <2>1, <2>2, EndKeeps
<1> QED
  BY <1>1, <1>3, <1>4 DEF sys__cancel_thread

\* The second kthread_cancel: the thread has ended already, so only counts change.
LEMMA CancelAgainKeeps ==
    ASSUME IInv, cancel_again PROVE IInv'
<1> DEFINE s == again[1]
<1>0. /\ again # NULL /\ releasing = NULL /\ again' = NULL
      /\ UNCHANGED <<last_id, handles, waiting_for, releasing>>
      /\ ref_cnt' = [ref_cnt EXCEPT ![s] = @ - 1] /\ thr_count' = thr_count - 1
  BY DEF cancel_again
<1>1. s \in Thread /\ s \notin Live /\ again[2] = NULL
  BY <1>0 DEF IInv, AgainOK, TypeOK
<1>2. k' = k
  BY <1>1 DEF cancel_again, relink
<1>3. \/ id' = [id EXCEPT ![s] = 0] /\ ended' = ended \ {s}
      \/ id' = id /\ ended' = ended
  BY DEF cancel_again
<1>4. /\ id \in [Thread -> 0..MaxId] /\ MaxId \in Nat /\ ended \subseteq Allocated
      /\ ended \subseteq Thread
  BY ThreadsAssumption DEF IInv, TypeOK
<1>5. Live' = Live /\ ended' \subseteq Allocated' /\ id' \in [Thread -> 0..MaxId]
      /\ ended' \subseteq Thread
  BY <1>1, <1>3, <1>4 DEF Live, Allocated
<1>6. TypeOK'
  <2>1. ref_cnt' \in [Thread -> Int] /\ thr_count' \in Int
    BY <1>0, <1>1 DEF IInv, TypeOK
  <2> QED
    BY <1>0, <1>2, <1>5, <2>1 DEF IInv, TypeOK
<1> QED
  BY <1>0, <1>2, <1>5, <1>6 DEF IInv, AgainOK

\* One turn of the release loop.
LEMMA ReleaseNextKeeps == ASSUME IInv, release_next PROVE IInv'
<1>1. /\ releasing # NULL /\ k' = kthreadq_release(k, JoinQ(releasing))
      /\ UNCHANGED <<id, ref_cnt, last_id, thr_count, handles, waiting_for,
                     releasing, again, ended>>
  BY DEF release_next
<1>2. /\ TypeOK /\ Linked(k, Live) /\ Idle \in Live /\ k.state[Idle] \in {"ACTIVE", "READY"}
      /\ k.state[k.active] = "ACTIVE" => k.active \in Live
      /\ k.active \in Thread /\ JoinQ(releasing) \in WaitQ
  BY <1>1, ThreadsAssumption DEF IInv, TypeOK, KState
<1>3. Live' = Live /\ Allocated' = Allocated
  BY <1>1 DEF Live, Allocated
<1>4. /\ Linked(k', Live) /\ k'.active = k.active
      /\ \A t \in Thread : k'.state[t] = k.state[t]
                           \/ (k.state[t] = "WAIT" /\ k'.state[t] = "READY")
  BY <1>1, <1>2, ReleaseLinks
<1>5. TypeOK'
  BY <1>1, <1>2, <1>4 DEF TypeOK, Linked
<1>6. /\ k'.state[Idle] \in {"ACTIVE", "READY"}
      /\ k'.state[k'.active] = "ACTIVE" => k'.active \in Live'
  BY <1>2, <1>3, <1>4, KThreadsAssumption
<1>7. /\ handles' \subseteq UserHandle /\ ended' \subseteq Allocated'
      /\ \A t \in Thread : waiting_for'[t] # NULL => waiting_for'[t] \in UserHandle
  BY <1>1, <1>3 DEF IInv
<1> QED
  BY <1>1, <1>2, <1>3, <1>4, <1>5, <1>6, <1>7 DEF IInv, AgainOK

\* The end of the release loop.
LEMMA ReleaseDoneKeeps == ASSUME IInv, release_done PROVE IInv'
<1>1. /\ k' = kthreads_schedule(k) /\ releasing' = NULL
      /\ UNCHANGED <<id, ref_cnt, last_id, thr_count, handles, waiting_for, again, ended>>
  BY DEF release_done
<1>2. /\ TypeOK /\ Linked(k, Live) /\ Idle \in Live /\ k.state[Idle] \in {"ACTIVE", "READY"}
      /\ k.state[k.active] = "ACTIVE" => k.active \in Live
  BY DEF IInv
<1>3. Live' = Live /\ Allocated' = Allocated
  BY <1>1 DEF Live, Allocated
<1>4. /\ Linked(k', Live) /\ HighestRuns(k') /\ k'.active \in Live
      /\ k'.state[Idle] \in {"ACTIVE", "READY"}
  BY <1>1, <1>2, ScheduleIdle
<1>5. TypeOK'
  BY <1>1, <1>2, <1>4 DEF TypeOK, Linked
<1>6. /\ handles' \subseteq UserHandle /\ ended' \subseteq Allocated'
      /\ \A t \in Thread : waiting_for'[t] # NULL => waiting_for'[t] \in UserHandle
  BY <1>1, <1>3 DEF IInv
<1> QED
  BY <1>1, <1>2, <1>3, <1>4, <1>5, <1>6 DEF IInv, AgainOK

\* The running thread blocks in queue x.
LEMMA BlockLinks ==
    ASSUME IInv, NEW t \in Thread, Running(t), NEW x \in WaitQ
    PROVE  LET n == kthreads_schedule(kthread_enqueue(k, t, x)) IN
           /\ Linked(n, Live) /\ HighestRuns(n) /\ n.active \in Live
           /\ n.state[Idle] \in {"ACTIVE", "READY"}
           /\ \A y \in WaitQ, j \in Thread :
                Stands(n.q[y], j) <=> Stands(k.q[y], j) \/ (y = x /\ j = t)
           /\ \A u \in Thread : k.state[u] = "PASSIVE" => n.state[u] = "PASSIVE"
<1> DEFINE F == Live \ {t}
           m == kthread_enqueue(k, t, x)
<1>0. /\ Linked(k, Live) /\ Idle \in Live /\ k.state[Idle] \in {"ACTIVE", "READY"}
      /\ k.active \in Live /\ k.active = t /\ t # Idle /\ k.state[t] = "ACTIVE"
      /\ k \in KState
  BY DEF IInv, TypeOK, Running, InUser, HighestRuns
<1>1. Linked(k, F)
  BY <1>0, ActiveFloats
<1>2. t \in Thread \ F /\ F \cup {t} = Live
  BY <1>0
<1> HIDE DEF F
<1>3. /\ Linked(m, F \cup {t}) /\ m.state = [k.state EXCEPT ![t] = "WAIT"]
      /\ m.active = k.active
  BY <1>1, <1>2, EnqueueLinks
<1>6. \A y \in WaitQ, j \in Thread :
          Stands(m.q[y], j) <=> Stands(k.q[y], j) \/ (y = x /\ j = t)
  BY <1>1, <1>2, EnqueueStands
<1> HIDE DEF m
<1>4. /\ Linked(m, Live) /\ m.state[Idle] \in {"ACTIVE", "READY"}
      /\ m.state[m.active] # "ACTIVE"
  BY <1>0, <1>2, <1>3, KThreadsAssumption DEF KState
<1>5. /\ Linked(kthreads_schedule(m), Live) /\ HighestRuns(kthreads_schedule(m))
      /\ kthreads_schedule(m).active \in Live
      /\ kthreads_schedule(m).state[Idle] \in {"ACTIVE", "READY"}
      /\ \A y \in WaitQ : kthreads_schedule(m).q[y] = m.q[y]
      /\ \A u \in Thread : m.state[u] = "PASSIVE" => kthreads_schedule(m).state[u] = "PASSIVE"
  BY <1>0, <1>4, ScheduleIdle
<1>7. \A u \in Thread : k.state[u] = "PASSIVE" => m.state[u] = "PASSIVE"
  BY <1>0, <1>3 DEF KState
<1>8. /\ \A y \in WaitQ, j \in Thread :
            Stands(kthreads_schedule(m).q[y], j) <=> Stands(k.q[y], j) \/ (y = x /\ j = t)
      /\ \A u \in Thread : k.state[u] = "PASSIVE" => kthreads_schedule(m).state[u] = "PASSIVE"
  BY <1>5, <1>6, <1>7
<1> QED
  BY <1>5, <1>8 DEF m

\* A step that only changes the scheduling state.
LEMMA SchedulingStepKeeps ==
    ASSUME IInv,
           UNCHANGED <<id, ref_cnt, last_id, thr_count, handles, waiting_for,
                       releasing, again, ended>>,
           Linked(k', Live), HighestRuns(k'), k'.active \in Live,
           k'.state[Idle] \in {"ACTIVE", "READY"}
    PROVE  IInv'
<1>1. Live' = Live /\ Allocated' = Allocated
  BY DEF Live, Allocated
<1>2. TypeOK'
  BY DEF IInv, TypeOK, Linked
<1> QED
  BY <1>1, <1>2 DEF IInv, AgainOK

\* A thread that goes to sleep.
LEMMA WaitForAlarmKeeps ==
    ASSUME IInv, NEW t \in Thread, sys__wait_for_alarm(t) PROVE IInv'
<1>1. /\ Running(t) /\ k' = kthreads_schedule(kthread_enqueue(k, t, AlarmQ(t)))
      /\ UNCHANGED <<id, ref_cnt, last_id, thr_count, handles, waiting_for,
                     releasing, again, ended>>
  BY DEF sys__wait_for_alarm
<1>2. AlarmQ(t) \in WaitQ
  BY ThreadsAssumption
<1>3. /\ Linked(k', Live) /\ HighestRuns(k') /\ k'.active \in Live
      /\ k'.state[Idle] \in {"ACTIVE", "READY"}
  BY <1>1, <1>2, BlockLinks
<1> QED
  BY <1>1, <1>3, SchedulingStepKeeps

\* A thread woken by the timer.
LEMMA TimerKeeps ==
    ASSUME IInv, NEW t \in Thread, k_timer_interrupt(t) PROVE IInv'
<1> DEFINE m == kthreadq_release(k, AlarmQ(t))
<1>1. /\ k' = kthreads_schedule(m)
      /\ UNCHANGED <<id, ref_cnt, last_id, thr_count, handles, waiting_for,
                     releasing, again, ended>>
  BY DEF k_timer_interrupt
<1>2. /\ Linked(k, Live) /\ Idle \in Live /\ k.state[Idle] \in {"ACTIVE", "READY"}
      /\ k.state[k.active] = "ACTIVE" => k.active \in Live
      /\ k.active \in Thread /\ AlarmQ(t) \in WaitQ
  BY ThreadsAssumption DEF IInv, TypeOK, KState
<1>3. /\ Linked(m, Live) /\ m.active = k.active
      /\ \A u \in Thread : m.state[u] = k.state[u]
                           \/ (k.state[u] = "WAIT" /\ m.state[u] = "READY")
  BY <1>2, ReleaseLinks
<1> HIDE DEF m
<1>4. /\ m.state[Idle] \in {"ACTIVE", "READY"}
      /\ m.state[m.active] = "ACTIVE" => m.active \in Live
  BY <1>2, <1>3, KThreadsAssumption
<1>5. /\ Linked(k', Live) /\ HighestRuns(k') /\ k'.active \in Live
      /\ k'.state[Idle] \in {"ACTIVE", "READY"}
  BY <1>1, <1>2, <1>3, <1>4, ScheduleIdle
<1> QED
  BY <1>1, <1>5, SchedulingStepKeeps

\* Both calls of wait_for_thread, the first and the repeated one.
LEMMA WaitKeeps ==
    ASSUME IInv, NEW t \in Thread, Running(t), NEW h \in UserHandle, NEW wait \in BOOLEAN,
           sys__wait_for_thread(t, h, wait),
           ended' = {s \in ended : id'[s] # 0},
           UNCHANGED <<last_id, thr_count, handles, releasing, again>>
    PROVE  IInv'
<1> DEFINE s == h[1]
<1>0. /\ TypeOK /\ Linked(k, Live) /\ Idle \in Live /\ k.state[Idle] \in {"ACTIVE", "READY"}
      /\ ended \subseteq Allocated /\ HighestRuns(k) /\ k.active \in Live
      /\ handles \subseteq UserHandle /\ Live \subseteq Thread
      /\ k.active = t /\ t # Idle /\ releasing = NULL /\ again' = NULL /\ k.state[t] = "ACTIVE"
      /\ \A u \in Thread : waiting_for[u] # NULL => waiting_for[u] \in UserHandle
  BY DEF IInv, Live, Allocated, Running, InUser, HighestRuns
<1>1. s \in Thread /\ s # Idle /\ h[2] \in 1..MaxId /\ h \in Thread \X (1..MaxId)
  BY DEF UserHandle
<1>2. /\ id \in [Thread -> 0..MaxId] /\ ref_cnt \in [Thread -> Int] /\ MaxId \in Nat
      /\ waiting_for \in [Thread -> (Thread \X (1..MaxId)) \cup {NULL}]
      /\ k \in KState /\ ended \subseteq Thread
  BY <1>0, ThreadsAssumption DEF TypeOK
<1>3. waiting_for' = [waiting_for EXCEPT ![t] = NULL] \/ waiting_for' = [waiting_for EXCEPT ![t] = h]
  BY DEF sys__wait_for_thread, join_return, join_block, join_collect
<1>4. /\ waiting_for' \in [Thread -> (Thread \X (1..MaxId)) \cup {NULL}]
      /\ \A u \in Thread : waiting_for'[u] # NULL => waiting_for'[u] \in UserHandle
  BY <1>0, <1>1, <1>2, <1>3
<1>5. CASE k' = k /\ id' = id /\ ref_cnt' = ref_cnt
  <2>1. Live' = Live /\ Allocated' = Allocated /\ ended' = ended
    BY <1>0, <1>5 DEF Live, Allocated
  <2>2. TypeOK'
    BY <1>0, <1>4, <1>5, <2>1 DEF TypeOK
  <2> QED
    BY <1>0, <1>4, <1>5, <2>1, <2>2 DEF IInv, AgainOK
<1>6. CASE /\ ref_cnt' = [ref_cnt EXCEPT ![s] = @ + 1] /\ id' = id
           /\ k' = kthreads_schedule(kthread_enqueue(k, t, JoinQ(s)))
  <2>1. Live' = Live /\ Allocated' = Allocated /\ ended' = ended
    BY <1>0, <1>6 DEF Live, Allocated
  <2>2. JoinQ(s) \in WaitQ
    BY <1>1, ThreadsAssumption
  <2>7. /\ Linked(k', Live) /\ HighestRuns(k') /\ k'.active \in Live
        /\ k'.state[Idle] \in {"ACTIVE", "READY"}
    BY <1>6, <2>2, BlockLinks
  <2>8. TypeOK'
    <3>1. ref_cnt' \in [Thread -> Int]
      BY <1>1, <1>2, <1>6
    <3>2. k' \in KState
      BY <2>7 DEF Linked
    <3> QED
      BY <1>0, <1>4, <1>6, <2>1, <3>1, <3>2 DEF TypeOK
  <2> QED
    BY <1>0, <1>4, <2>1, <2>7, <2>8 DEF IInv, AgainOK
<1>7. CASE /\ id[s] = h[2] /\ k.state[s] = "PASSIVE" /\ k' = k
           /\ ref_cnt' = [ref_cnt EXCEPT ![s] = @ - 1]
           /\ id' = IF ref_cnt[s] = 1 THEN [id EXCEPT ![s] = 0] ELSE id
  <2>1. s \notin Live
    BY <1>0, <1>7 DEF Linked, NoneLost
  <2>2. s \in ended
    BY <1>1, <1>7, <2>1 DEF Live, Allocated
  <2>3. /\ id' \in [Thread -> 0..MaxId] /\ \A u \in Thread \ {s} : id'[u] = id[u]
        /\ ref_cnt' \in [Thread -> Int]
    BY <1>1, <1>2, <1>7
  <2>4. Live' = Live /\ ended' \subseteq Allocated' /\ ended' \subseteq Thread
    BY <1>0, <1>2, <2>2, <2>3 DEF Live, Allocated
  <2>5. TypeOK'
    BY <1>0, <1>2, <1>4, <1>7, <2>3, <2>4 DEF TypeOK
  <2> QED
    BY <1>0, <1>4, <1>7, <2>4, <2>5 DEF IInv, AgainOK
<1> QED
  BY <1>5, <1>6, <1>7 DEF sys__wait_for_thread, join_return, join_block, join_collect

\* Every step preserves the invariant.
LEMMA NextIInv ==
    ASSUME CarefulCancels PROVE IInv /\ [Next]_vars => IInv'
<1> SUFFICES ASSUME IInv, [Next]_vars PROVE IInv'
  OBVIOUS
<1>1. ASSUME NEW t \in Thread, NEW s \in Thread, NEW p \in PrioArgs, NEW keep \in BOOLEAN,
             sys__create_thread(t, s, p, keep)
      PROVE  IInv'
  BY <1>1, CreateKeeps
<1>2. ASSUME NEW t \in Thread, sys__thread_self(t) PROVE IInv'
  <2>1. /\ releasing = NULL /\ k.active = t /\ t # Idle /\ t \in Live
        /\ handles' = handles \cup {<<t, id[t]>>}
        /\ UNCHANGED <<k, id, ref_cnt, last_id, thr_count, waiting_for, releasing, again, ended>>
    BY <1>2 DEF sys__thread_self, Running, InUser, IInv
  <2>2. id[t] \in 1..MaxId
    BY <2>1, ThreadsAssumption DEF IInv, TypeOK, Live, Allocated
  <2>3. handles' \subseteq UserHandle /\ handles' \subseteq Thread \X (1..MaxId)
    BY <2>1, <2>2 DEF IInv, UserHandle
  <2>4. Live' = Live /\ Allocated' = Allocated
    BY <2>1 DEF Live, Allocated
  <2>5. TypeOK'
    BY <2>1, <2>3 DEF IInv, TypeOK
  <2> QED
    BY <2>1, <2>3, <2>4, <2>5 DEF IInv, AgainOK
<1>3. ASSUME NEW t \in Thread, NEW h \in handles, NEW wait \in BOOLEAN,
             wait_for_thread(t, h, wait)
      PROVE  IInv'
  <2>1. h \in UserHandle
    BY DEF IInv
  <2> QED
    BY <1>3, <2>1, WaitKeeps DEF wait_for_thread
<1>4. ASSUME NEW t \in Thread, wait_for_thread_retry(t) PROVE IInv'
  <2>1. waiting_for[t] \in UserHandle
    BY <1>4 DEF IInv, wait_for_thread_retry
  <2> QED
    BY <1>4, <2>1, WaitKeeps DEF wait_for_thread_retry
<1>5. CASE UNCHANGED vars
  <2>1. Live' = Live /\ Allocated' = Allocated
    BY <1>5 DEF vars, Live, Allocated
  <2>2. TypeOK'
    BY <1>5 DEF IInv, TypeOK, vars
  <2> QED
    BY <1>5, <2>1, <2>2 DEF IInv, AgainOK, vars
<1> QED
  BY <1>1, <1>2, <1>3, <1>4, <1>5, ExitKeeps, CancelKeeps, CancelAgainKeeps,
     ReleaseNextKeeps, ReleaseDoneKeeps, WaitForAlarmKeeps, TimerKeeps DEF Next, idle_thread

-----------------------------------------------------------------------------
\* The invariant holds in every reachable state.
THEOREM SpecIInv ==
    ASSUME CarefulCancels PROVE Spec => []IInv
  BY InitIInv, NextIInv, PTL DEF Spec

\* Type correctness of the kernel's thread tables (kernel/thread.c).
THEOREM SpecTypeOK ==
    ASSUME CarefulCancels PROVE Spec => []TypeOK
<1>1. IInv => TypeOK
  BY DEF IInv
<1> QED
  BY <1>1, SpecIInv, PTL

\* In programs whose cancels are careful, whatever else they do with handles,
\* every live thread is the active one or linked exactly once, in the queue and
\* state its descriptor shows, and rdy_mask is exact.
THEOREM SpecQueuesConsistent ==
    ASSUME CarefulCancels PROVE Spec => []QueuesConsistent
<1>1. IInv => QueuesConsistent
  BY DEF IInv, QueuesConsistent, Linked
<1> QED
  BY <1>1, SpecIInv, PTL

\* Whenever the kernel returns to user code, no ready thread has a higher
\* priority than the one that runs.
THEOREM SpecActiveIsHighest ==
    ASSUME CarefulCancels PROVE Spec => []ActiveIsHighest
<1>1. IInv => ActiveIsHighest
  BY DEF IInv, ActiveIsHighest, InUser
<1> QED
  BY <1>1, SpecIInv, PTL

\* The assertion at the top of kthreads_schedule never fails: there is always a
\* thread to run.
THEOREM SpecAlwaysSchedulable ==
    ASSUME CarefulCancels PROVE Spec => []AlwaysSchedulable
<1>1. IInv => AlwaysSchedulable
  BY IdleSchedulable DEF IInv, AlwaysSchedulable
<1> QED
  BY <1>1, SpecIInv, PTL

-----------------------------------------------------------------------------
\* Who waits for whom.  From here on no thread that waits for another, or that
\* others wait for, is cancelled: such a cancel leaves reference counts that
\* stand for nobody.
JoinersSpared ==
    /\ CarefulCancels
    /\ "cancel" \notin Uses \/ Uses \cap {"cancelJoiner", "cancelJoined"} = {}

\* Thread j stands in the join queue of s.
Joined(j, s) == Stands(k.q[JoinQ(s)], j)

\* Identifiers of the past are not above the last one.
OldIds ==
    /\ \A t \in Thread : id[t] <= last_id
    /\ \A h \in handles : h[2] <= last_id
    /\ \A j \in Thread : waiting_for[j] # NULL => waiting_for[j][2] <= last_id

\* Only threads that have exited keep their descriptor, and none is cancelled a
\* second time.
EndedPassive ==
    /\ again = NULL
    /\ \A s \in ended : k.state[s] = "PASSIVE"
    /\ releasing # NULL => releasing \in ended

\* A join queue holds the threads that wait for a live thread, or for the one
\* that is just ending.
JoinQueuesExact ==
    /\ \A j \in Thread : waiting_for[j] # NULL => j \in Live
    /\ \A s, j \in Thread : Joined(j, s) =>
            waiting_for[j] = <<s, id[s]>> /\ (s \in Live \/ releasing = s)
    /\ \A s \in Live, j \in Thread : waiting_for[j] = <<s, id[s]>> => Joined(j, s)

\* A live thread has its own reference, and others exactly if somebody waits.
RefsCover ==
    \A s \in Live : ref_cnt[s] >= 1 /\ (ref_cnt[s] = 1 <=> Pending(s) = {})

Joins == OldIds /\ EndedPassive /\ JoinQueuesExact /\ RefsCover

\* Join queues and alarm queues are different ones.
LEMMA JoinQueues ==
    /\ \A t \in Thread : JoinQ(t) \in WaitQ /\ AlarmQ(t) \in WaitQ
    /\ \A s, t \in Thread : JoinQ(s) = JoinQ(t) => s = t
    /\ \A s, t \in Thread : JoinQ(s) # AlarmQ(t)
<1>1. ASSUME NEW s, NEW t PROVE <<"join", s>> # <<"alarm", t>>
  <2> SUFFICES ASSUME <<"join", s>> = <<"alarm", t>> PROVE FALSE
    OBVIOUS
  <2>1. <<"join", s>>[1] = <<"alarm", t>>[1]
    OBVIOUS
  <2> QED
    BY <2>1
<1>2. \A s, t \in Thread : JoinQ(s) = JoinQ(t) => s = t
  BY DEF JoinQ
<1>3. \A s, t \in Thread : JoinQ(s) # AlarmQ(t)
  BY <1>1 DEF JoinQ, AlarmQ
<1> QED
  BY <1>2, <1>3, ThreadsAssumption

\* The handle of a live thread, which is not NULL.
LEMMA LiveHandle ==
    ASSUME TypeOK, NEW s \in Live
    PROVE  s \in Thread /\ id[s] \in 1..MaxId /\ <<s, id[s]>> # NULL
<1>1. s \in Thread /\ id[s] \in 0..MaxId /\ id[s] # 0 /\ MaxId \in Nat
  BY ThreadsAssumption DEF TypeOK, Live, Allocated
<1>2. id[s] \in 1..MaxId
  BY <1>1
<1> QED
  BY <1>1, <1>2, ThreadsAssumption

\* Nobody waits for anybody in the beginning.
LEMMA InitJoins == Init => Joins
<1> SUFFICES ASSUME Init PROVE Joins
  OBVIOUS
<1>1. /\ \A t \in Thread : id[t] <= last_id
      /\ handles = {} /\ again = NULL /\ ended = {} /\ releasing = NULL
      /\ \A j \in Thread : waiting_for[j] = NULL
      /\ Live = {Idle, Main} /\ \A s \in Live : ref_cnt[s] = 1
  <2>1. Live = {Idle, Main}
    BY KThreadsAssumption, ThreadsAssumption DEF Init, Live, Allocated
  <2> QED
    BY <2>1, KThreadsAssumption, ThreadsAssumption DEF Init
<1>2. \A s, j \in Thread : ~Joined(j, s)
  <2>1. \A s \in Thread : k.q[JoinQ(s)] = <<>>
    <3>1. PICK p \in Prio : k.q = [x \in Queue |-> IF x = ReadyQ(0) THEN <<Idle>> ELSE <<>>]
      BY DEF Init
    <3>2. \A s \in Thread : JoinQ(s) \in Queue /\ JoinQ(s) # ReadyQ(0)
      BY JoinQueues, QueueNames, KThreadsAssumption DEF Prio
    <3> QED
      BY <3>1, <3>2
  <2> QED
    BY <2>1 DEF Joined, Stands
<1>3. \A s \in Live : Pending(s) = {}
  BY <1>1, LiveHandle, InitIInv DEF Pending, IInv
<1>4. OldIds
  BY <1>1 DEF OldIds
<1>5. EndedPassive
  BY <1>1 DEF EndedPassive
<1>6. JoinQueuesExact
  BY <1>1, <1>2, LiveHandle, InitIInv DEF JoinQueuesExact, IInv
<1>7. RefsCover
  BY <1>1, <1>3 DEF RefsCover
<1> QED
  BY <1>4, <1>5, <1>6, <1>7 DEF Joins

\* What holds when thread t makes a call: it is in no join queue, so it waits for
\* no live thread.
LEMMA CallerFacts ==
    ASSUME IInv, Joins, NEW t \in Thread, Running(t)
    PROVE  /\ t \in Live /\ t # Idle /\ releasing = NULL /\ k.state[t] = "ACTIVE" /\ k.active = t
           /\ \A x \in WaitQ : ~Stands(k.q[x], t)
           /\ \A s \in Live : waiting_for[t] # <<s, id[s]>>
<1>1. /\ t \in Live /\ t # Idle /\ releasing = NULL /\ k.state[t] = "ACTIVE" /\ Linked(k, Live)
      /\ k.active = t
  BY DEF IInv, Running, InUser, HighestRuns
<1>2. \A x \in WaitQ : ~Stands(k.q[x], t)
  BY <1>1, StandsIff
<1>3. \A s \in Live : waiting_for[t] # <<s, id[s]>>
  BY <1>1, <1>2, JoinQueues DEF Joins, JoinQueuesExact, Joined, Live, Allocated
<1> QED
  BY <1>1, <1>2, <1>3

\* A step that changes no counts and moves nobody into a join queue.
LEMMA QuietJoins ==
    ASSUME IInv, Joins,
           UNCHANGED <<id, ref_cnt, last_id, waiting_for, again, ended>>,
           \A h \in handles' : h[2] <= last_id,
           \A s, j \in Thread : Joined(j, s)' => Joined(j, s) /\ (s \in Live \/ releasing' = s),
           \A s \in Live, j \in Thread : Joined(j, s) => Joined(j, s)',
           \A s \in ended : k'.state[s] = "PASSIVE",
           releasing' \in {NULL, releasing}
    PROVE  Joins'
<1>1. Live' = Live /\ \A s : Pending(s)' = Pending(s)
  BY DEF Live, Allocated, Pending
<1>2. OldIds'
  BY DEF Joins, OldIds
<1>3. EndedPassive'
  BY DEF Joins, EndedPassive
<1>4. JoinQueuesExact'
  BY <1>1 DEF Joins, JoinQueuesExact
<1>5. RefsCover'
  BY <1>1 DEF Joins, RefsCover
<1> QED
  BY <1>2, <1>3, <1>4, <1>5 DEF Joins

\* A new thread: its identifier is new, so nobody waits for it.
LEMMA CreateJoins ==
    ASSUME IInv, Joins, NEW t \in Thread, NEW s \in Thread, NEW p \in PrioArgs,
           NEW keep \in BOOLEAN, sys__create_thread(t, s, p, keep)
    PROVE  /\ Joins' /\ s \notin Live /\ s \notin ended /\ Live' = Live \cup {s} /\ ended' = ended
           /\ thr_count' = thr_count + 1 /\ UNCHANGED waiting_for
           /\ id[s] = 0 /\ \A u \in Thread : u # s => id'[u] = id[u] /\ ref_cnt'[u] = ref_cnt[u]
           /\ id'[s] = last_id + 1 /\ ref_cnt'[s] = 1 /\ Pending(s)' = {}
<1> DEFINE m == [k EXCEPT !.prio[s] = clamp_prio(p)]
           r == kthread_move_to_ready(m, s)
<1>0. /\ TypeOK /\ Linked(k, Live) /\ Idle \in Live /\ k.state[Idle] \in {"ACTIVE", "READY"}
      /\ ended \subseteq Allocated /\ k.active \in Live /\ Live \subseteq Thread
      /\ k \in KState /\ ended \subseteq Thread
  BY DEF IInv, sys__create_thread, Running, InUser, Live, Allocated, TypeOK
<1>1. /\ id[s] = 0 /\ last_id' = last_id + 1
      /\ id' = [id EXCEPT ![s] = last_id + 1] /\ ref_cnt' = [ref_cnt EXCEPT ![s] = 1]
      /\ thr_count' = thr_count + 1 /\ releasing = NULL
      /\ handles' = IF keep THEN handles \cup {<<s, id'[s]>>} ELSE handles
      /\ UNCHANGED <<waiting_for, releasing, again, ended>>
      /\ k' = kthreads_schedule(r)
  BY DEF sys__create_thread, kthread_create, Running, InUser, new_handle
<1>2. /\ id \in [Thread -> 0..MaxId] /\ ref_cnt \in [Thread -> Int] /\ last_id \in 2..MaxId
      /\ MaxId \in Nat /\ waiting_for \in [Thread -> (Thread \X (1..MaxId)) \cup {NULL}]
      /\ handles \subseteq Thread \X (1..MaxId)
  BY <1>0, ThreadsAssumption DEF TypeOK
<1>3. s \in Thread \ Live /\ s # Idle /\ s \notin ended
  BY <1>0, <1>1 DEF Live, Allocated
<1>4. /\ Live' = Live \cup {s} /\ id'[s] = last_id + 1 /\ ref_cnt'[s] = 1
      /\ \A u \in Thread : u # s => id'[u] = id[u] /\ ref_cnt'[u] = ref_cnt[u]
  <2>1. /\ id'[s] = last_id + 1 /\ ref_cnt'[s] = 1 /\ last_id + 1 # 0
        /\ \A u \in Thread : u # s => id'[u] = id[u] /\ ref_cnt'[u] = ref_cnt[u]
    BY <1>1, <1>2
  <2> QED
    BY <1>1, <1>3, <2>1 DEF Live, Allocated
<1>5. Linked(m, Live) /\ m.state = k.state /\ m.active = k.active /\ m.q = k.q
  BY <1>0, <1>3, SetPrioFloats, ClampPrio, ThreadsAssumption
<1> HIDE DEF m
<1>6. /\ Linked(r, Live \cup {s}) /\ r.state = [m.state EXCEPT ![s] = "READY"]
      /\ r.active = m.active /\ \A x \in WaitQ : r.q[x] = m.q[x]
  <2>1. Linked(m, Live) /\ s \in Thread \ Live
    BY <1>3, <1>5
  <2>2. /\ Linked(r, Live \cup {s}) /\ r.state = [m.state EXCEPT ![s] = "READY"]
        /\ r.active = m.active
    BY <2>1, MoveToReadyLinks
  <2>3. \A x \in WaitQ : r.q[x] = m.q[x]
    BY <2>1, MoveToReadyQueues DEF Linked
  <2> QED
    BY <2>2, <2>3
<1> HIDE DEF r
<1>7. /\ r.state[Idle] \in {"ACTIVE", "READY"} /\ r.active \in Live \cup {s}
      /\ \A u \in ended : r.state[u] = k.state[u]
  BY <1>0, <1>3, <1>5, <1>6 DEF KState
<1>8. /\ \A x \in WaitQ : k'.q[x] = k.q[x]
      /\ \A u \in ended : k.state[u] = "PASSIVE" => k'.state[u] = "PASSIVE"
  <2>1. /\ Linked(r, Live \cup {s}) /\ Idle \in Live \cup {s}
        /\ r.state[Idle] \in {"ACTIVE", "READY"} /\ r.active \in Live \cup {s}
    BY <1>0, <1>6, <1>7
  <2>2. /\ \A x \in WaitQ : k'.q[x] = r.q[x]
        /\ \A u \in Thread : r.state[u] = "PASSIVE" => k'.state[u] = "PASSIVE"
    BY <1>1, <2>1, ScheduleIdle
  <2> QED
    BY <1>0, <1>5, <1>6, <1>7, <2>2
<1>9. \A u, j \in Thread : Joined(j, u)' <=> Joined(j, u)
  BY <1>8, JoinQueues DEF Joined
<1>10. \A j \in Thread : waiting_for[j] # <<s, last_id + 1>>
  <2> SUFFICES ASSUME NEW j \in Thread, waiting_for[j] = <<s, last_id + 1>> PROVE FALSE
    OBVIOUS
  <2>1. last_id + 1 \in 1..MaxId
    BY <1>2 DEF sys__create_thread, kthread_create
  <2>2. waiting_for[j] # NULL /\ waiting_for[j][2] = last_id + 1
    BY <2>1, ThreadsAssumption
  <2> QED
    BY <1>2, <2>2 DEF Joins, OldIds
<1>11. Pending(s)' = {} /\ \A u \in Live : Pending(u)' = Pending(u)
  BY <1>0, <1>1, <1>3, <1>4, <1>10 DEF Pending
<1>12. OldIds'
  <2>1. \A u \in Thread : id'[u] <= last_id'
    BY <1>1, <1>2, <1>4 DEF Joins, OldIds
  <2>2. \A h \in handles' : h[2] <= last_id'
    BY <1>1, <1>2, <1>4 DEF Joins, OldIds
  <2>3. \A j \in Thread : waiting_for'[j] # NULL => waiting_for'[j][2] <= last_id'
    BY <1>1, <1>2 DEF Joins, OldIds
  <2> QED
    BY <2>1, <2>2, <2>3 DEF OldIds
<1>13. EndedPassive'
  BY <1>1, <1>8 DEF Joins, EndedPassive
<1>14. JoinQueuesExact'
  <2>1. \A j \in Thread : ~Joined(j, s)
    BY <1>1, <1>3, KThreadsAssumption DEF Joins, JoinQueuesExact
  <2> QED
    BY <1>0, <1>1, <1>3, <1>4, <1>9, <1>10, <2>1 DEF Joins, JoinQueuesExact
<1>15. RefsCover'
  BY <1>0, <1>3, <1>4, <1>11 DEF Joins, RefsCover
<1> QED
  BY <1>1, <1>3, <1>4, <1>11, <1>12, <1>13, <1>14, <1>15 DEF Joins

\* Thread s, which waits for nobody, ends.  Its descriptor is freed when its own
\* reference is the last; otherwise those who wait for it are released.
LEMMA EndJoins ==
    ASSUME IInv, Joins, NEW s \in Live, s # Idle, releasing = NULL, waiting_for[s] = NULL,
           NEW c, ref_cnt' = [ref_cnt EXCEPT ![s] = c],
           waiting_for' = [waiting_for EXCEPT ![s] = NULL],
           UNCHANGED <<last_id, handles, again>>,
           \/ /\ ref_cnt[s] = 1 /\ id' = [id EXCEPT ![s] = 0] /\ ended' = ended
              /\ k' = kthreads_schedule(kthread_unlink(k, s)) /\ releasing' = NULL
           \/ /\ ref_cnt[s] # 1 /\ id' = id /\ ended' = ended \cup {s}
              /\ k' = kthread_unlink(k, s) /\ releasing' = s /\ k.state[s] = "ACTIVE"
    PROVE  /\ Joins' /\ Live' = Live \ {s} /\ UNCHANGED waiting_for /\ s \notin ended
           /\ \A u \in Thread : u # s => id'[u] = id[u] /\ ref_cnt'[u] = ref_cnt[u]
           /\ ref_cnt'[s] = c
           /\ ref_cnt[s] = 1 => id'[s] = 0 /\ ended' = ended
           /\ ref_cnt[s] # 1 => id' = id /\ ended' = ended \cup {s}
<1> DEFINE m == kthread_unlink(k, s)
<1>0. /\ TypeOK /\ Live \subseteq Thread /\ s \in Thread /\ id[s] # 0 /\ s \notin ended
      /\ Linked(k, Live) /\ k \in KState /\ ended \subseteq Thread /\ Idle \in Thread
  BY KThreadsAssumption DEF IInv, Live, Allocated, TypeOK
<1>1. /\ id \in [Thread -> 0..MaxId] /\ ref_cnt \in [Thread -> Int] /\ MaxId \in Nat
      /\ waiting_for \in [Thread -> (Thread \X (1..MaxId)) \cup {NULL}] /\ last_id \in 2..MaxId
  BY <1>0, ThreadsAssumption DEF TypeOK
<1>2. /\ waiting_for' = waiting_for /\ ref_cnt'[s] = c
      /\ \A u \in Thread : u # s => id'[u] = id[u] /\ ref_cnt'[u] = ref_cnt[u]
  BY <1>0, <1>1
<1>3. /\ Live' = Live \ {s}
      /\ ref_cnt[s] = 1 => id'[s] = 0 /\ ended' = ended
      /\ ref_cnt[s] # 1 => id' = id /\ ended' = ended \cup {s}
  <2>1. CASE ref_cnt[s] = 1
    <3>1. id'[s] = 0 /\ ended' = ended
      BY <1>0, <1>1, <2>1
    <3> QED
      BY <1>0, <1>2, <2>1, <3>1 DEF Live, Allocated
  <2>2. CASE ref_cnt[s] # 1
    BY <1>0, <2>2 DEF Live, Allocated
  <2> QED
    BY <2>1, <2>2
<1>4. /\ Linked(m, Live \ {s}) /\ Idle \in Live \ {s}
      /\ m.state[Idle] \in {"ACTIVE", "READY"}
      /\ m.state[m.active] = "ACTIVE" => m.active \in Live \ {s}
  BY EndLinks
<1>5. /\ \A x \in WaitQ, u \in Thread : Stands(m.q[x], u) <=> Stands(k.q[x], u) /\ u # s
      /\ \A u \in Thread : u # s => m.state[u] = k.state[u]
      /\ k.state[s] = "ACTIVE" => m.state[s] = "PASSIVE"
  <2>1. \A x \in WaitQ, u \in Thread : Stands(m.q[x], u) <=> Stands(k.q[x], u) /\ u # s
    BY <1>0, UnlinkStands
  <2>2. /\ \A u \in Thread : u # s => m.state[u] = k.state[u]
        /\ k.state[s] = "ACTIVE" => m.state[s] = "PASSIVE"
    BY EndLinks
  <2> HIDE DEF m
  <2> QED
    BY <2>1, <2>2
<1>6. (k' = kthreads_schedule(m) \/ k' = m) /\ (ref_cnt[s] # 1 => k' = m)
  OBVIOUS
<1> HIDE DEF m
<1>7. /\ \A x \in WaitQ : k'.q[x] = m.q[x]
      /\ \A u \in Thread : m.state[u] = "PASSIVE" => k'.state[u] = "PASSIVE"
  <2>1. CASE k' = kthreads_schedule(m)
    BY <1>4, <2>1, ScheduleIdle
  <2>2. CASE k' = m
    BY <2>2
  <2> QED
    BY <1>6, <2>1, <2>2
<1>8. \A j \in Thread : ~Joined(s, j)
  BY <1>0, LiveHandle, ThreadsAssumption, KThreadsAssumption DEF Joins, JoinQueuesExact
<1>9. \A u, j \in Thread : Joined(j, u)' <=> Joined(j, u)
  BY <1>0, <1>5, <1>7, <1>8, JoinQueues DEF Joined
<1>10. \A u \in Live : Pending(u) = Pending(u)' \/ u = s
  BY <1>0, <1>2 DEF Pending
<1>11. OldIds'
  BY <1>0, <1>1, <1>2, <1>3 DEF Joins, OldIds
<1>12. EndedPassive'
  <2>1. \A u \in ended : k'.state[u] = "PASSIVE"
    BY <1>0, <1>5, <1>7 DEF Joins, EndedPassive
  <2>2. CASE ref_cnt[s] = 1
    BY <1>3, <2>1, <2>2 DEF Joins, EndedPassive
  <2>3. CASE ref_cnt[s] # 1
    BY <1>0, <1>3, <1>5, <1>6, <2>1, <2>3 DEF Joins, EndedPassive
  <2> QED
    BY <2>2, <2>3
<1>13. JoinQueuesExact'
  <2>1. \A j \in Thread : waiting_for'[j] # NULL => j \in Live'
    BY <1>2, <1>3 DEF Joins, JoinQueuesExact
  <2>2. ASSUME NEW u \in Thread, NEW j \in Thread, Joined(j, u)'
        PROVE  waiting_for'[j] = <<u, id'[u]>> /\ (u \in Live' \/ releasing' = u)
    <3>1. waiting_for[j] = <<u, id[u]>> /\ u \in Live
      BY <1>9, <2>2, KThreadsAssumption DEF Joins, JoinQueuesExact
    <3>2. CASE u # s
      BY <1>2, <1>3, <3>1, <3>2
    <3>3. CASE u = s
      <4>1. j \in Pending(s)
        BY <3>1, <3>3 DEF Pending
      <4>2. ref_cnt[s] # 1
        BY <4>1 DEF Joins, RefsCover
      <4> QED
        BY <1>2, <3>1, <3>3, <4>2
    <3> QED
      BY <3>2, <3>3
  <2>3. \A u \in Live', j \in Thread : waiting_for'[j] = <<u, id'[u]>> => Joined(j, u)'
    BY <1>0, <1>2, <1>3, <1>9 DEF Joins, JoinQueuesExact
  <2> QED
    BY <2>1, <2>2, <2>3 DEF JoinQueuesExact
<1>14. RefsCover'
  BY <1>0, <1>2, <1>3, <1>10 DEF Joins, RefsCover
<1> QED
  BY <1>0, <1>2, <1>3, <1>11, <1>12, <1>13, <1>14 DEF Joins

\* A thread exits.
LEMMA ExitJoins ==
    ASSUME IInv, Joins, NEW t \in Thread, sys__thread_exit(t)
    PROVE  /\ Joins' /\ t \in Live /\ t # Idle /\ Live' = Live \ {t} /\ UNCHANGED waiting_for
           /\ t \notin ended /\ thr_count' = thr_count - 1
           /\ \A u \in Thread : u # t => id'[u] = id[u] /\ ref_cnt'[u] = ref_cnt[u]
           /\ ref_cnt'[t] = ref_cnt[t] - 1
           /\ ref_cnt[t] = 1 => id'[t] = 0 /\ ended' = ended
           /\ ref_cnt[t] # 1 => id' = id /\ ended' = ended \cup {t}
<1>1. /\ t \in Live /\ t # Idle /\ releasing = NULL /\ k.state[t] = "ACTIVE"
      /\ waiting_for[t] = NULL
  BY CallerFacts DEF sys__thread_exit
<1>2. /\ ref_cnt' = [ref_cnt EXCEPT ![t] = ref_cnt[t] - 1] /\ thr_count' = thr_count - 1
      /\ waiting_for' = [waiting_for EXCEPT ![t] = NULL] /\ UNCHANGED <<last_id, handles, again>>
      /\ \/ /\ ref_cnt[t] = 1 /\ id' = [id EXCEPT ![t] = 0] /\ ended' = ended
            /\ k' = kthreads_schedule(kthread_unlink(k, t)) /\ releasing' = NULL
         \/ /\ ref_cnt[t] # 1 /\ id' = id /\ ended' = ended \cup {t}
            /\ k' = kthread_unlink(k, t) /\ releasing' = t
  <2>1. ended \ {t} = ended
    BY <1>1 DEF Live
  <2> QED
    BY <1>1, <2>1 DEF sys__thread_exit, kthread_cancel
<1> QED
  BY <1>1, <1>2, EndJoins

\* A thread is cancelled; nobody waits for it, so its descriptor is freed.
LEMMA CancelJoins ==
    ASSUME IInv, Joins, JoinersSpared, NEW t \in Thread, NEW h \in handles,
           sys__cancel_thread(t, h)
    PROVE  /\ Joins' /\ "cancel" \in Uses /\ UNCHANGED waiting_for /\ ended' = ended
           /\ h[1] \in Live /\ Live' = Live \ {h[1]} /\ Pending(h[1]) = {} /\ id'[h[1]] = 0
           /\ \A u \in Thread : u # h[1] => id'[u] = id[u] /\ ref_cnt'[u] = ref_cnt[u]
<1> DEFINE s == h[1]
<1>1. /\ releasing = NULL /\ "cancel" \in Uses /\ "cancelJoiner" \notin Uses
      /\ "cancelJoined" \notin Uses /\ id[s] = h[2] /\ s \notin ended
  BY DEF sys__cancel_thread, cancel_ended, CarefulCancels, Running, InUser, JoinersSpared
<1>2. s \in Live /\ s # Idle /\ s \in Thread
  BY <1>1 DEF IInv, UserHandle, Live, Allocated
<1>3. waiting_for[s] = NULL /\ cancel_unjoined(s)
  BY <1>1 DEF sys__cancel_thread, cancel_joined
<1>4. Pending(s) = {}
  <2>1. \A j \in Thread : ~Joined(j, s)
    BY <1>3 DEF cancel_unjoined, Joined, Stands
  <2> QED
    BY <1>2, <2>1 DEF Joins, JoinQueuesExact, Pending
<1>5. ref_cnt[s] = 1
  BY <1>2, <1>4 DEF Joins, RefsCover
<1>6. /\ ref_cnt' = [ref_cnt EXCEPT ![s] = ref_cnt[s] - 2]
      /\ waiting_for' = [waiting_for EXCEPT ![s] = NULL] /\ UNCHANGED <<last_id, handles, again>>
      /\ id' = [id EXCEPT ![s] = 0] /\ ended' = ended
      /\ k' = kthreads_schedule(kthread_unlink(k, s)) /\ releasing' = NULL
  BY <1>1, <1>3, <1>5 DEF cancel_unjoined
<1> HIDE DEF s
<1>7. /\ Joins' /\ Live' = Live \ {s} /\ UNCHANGED waiting_for
      /\ \A u \in Thread : u # s => id'[u] = id[u] /\ ref_cnt'[u] = ref_cnt[u]
      /\ id'[s] = 0
  BY <1>1, <1>2, <1>3, <1>5, <1>6, EndJoins
<1> QED
  BY <1>1, <1>2, <1>4, <1>6, <1>7 DEF s

\* wait_for_thread returns without touching a descriptor.
LEMMA ReturnJoins ==
    ASSUME IInv, Joins, NEW t \in Thread, Running(t), NEW h, NEW wait,
           join_return(t, h, wait), ended' = {s \in ended : id'[s] # 0},
           UNCHANGED <<last_id, thr_count, handles, releasing, again>>
    PROVE  Joins' /\ Live' = Live /\ ended' = ended
<1>1. waiting_for' = [waiting_for EXCEPT ![t] = NULL] /\ UNCHANGED <<k, id, ref_cnt>>
  BY DEF join_return
<1>2. /\ waiting_for \in [Thread -> (Thread \X (1..MaxId)) \cup {NULL}]
      /\ ended \subseteq Allocated /\ TypeOK
  BY DEF IInv, TypeOK
<1>3. ended' = ended /\ Live' = Live
  BY <1>1, <1>2 DEF Live, Allocated
<1>4. /\ \A s \in Live : waiting_for[t] # <<s, id[s]>>
      /\ \A x \in WaitQ : ~Stands(k.q[x], t)
  BY CallerFacts
<1>5. /\ waiting_for'[t] = NULL /\ \A j \in Thread : j # t => waiting_for'[j] = waiting_for[j]
  BY <1>1, <1>2
<1>6. \A s, j \in Thread : (Joined(j, s)' <=> Joined(j, s)) /\ ~Joined(t, s)
  BY <1>1, <1>4, JoinQueues DEF Joined
<1>7. \A s \in Live : Pending(s)' = Pending(s)
  <2> SUFFICES ASSUME NEW s \in Live, NEW j \in Thread
               PROVE  waiting_for'[j] = <<s, id[s]>> <=> waiting_for[j] = <<s, id[s]>>
    BY <1>1 DEF Pending
  <2> QED
    BY <1>2, <1>4, <1>5, LiveHandle
<1>8. OldIds'
  BY <1>1, <1>5 DEF Joins, OldIds
<1>9. EndedPassive'
  BY <1>1, <1>3 DEF Joins, EndedPassive
<1>10. JoinQueuesExact'
  <2>1. \A j \in Thread : waiting_for'[j] # NULL => j \in Live'
    BY <1>3, <1>5 DEF Joins, JoinQueuesExact
  <2>2. \A s, j \in Thread : Joined(j, s)' =>
            waiting_for'[j] = <<s, id'[s]>> /\ (s \in Live' \/ releasing' = s)
    BY <1>1, <1>3, <1>5, <1>6 DEF Joins, JoinQueuesExact
  <2>3. \A s \in Live', j \in Thread : waiting_for'[j] = <<s, id'[s]>> => Joined(j, s)'
    BY <1>1, <1>2, <1>3, <1>5, <1>6, LiveHandle DEF Joins, JoinQueuesExact
  <2> QED
    BY <2>1, <2>2, <2>3 DEF JoinQueuesExact
<1>11. RefsCover'
  BY <1>1, <1>3, <1>7 DEF Joins, RefsCover
<1> QED
  BY <1>3, <1>8, <1>9, <1>10, <1>11 DEF Joins

\* wait_for_thread blocks: the thread is live, for an ended one is PASSIVE.
LEMMA JoinBlockJoins ==
    ASSUME IInv, Joins, NEW t \in Thread, Running(t), NEW h \in UserHandle, h[2] <= last_id,
           NEW wait, join_block(t, h, wait), ended' = {s \in ended : id'[s] # 0},
           UNCHANGED <<last_id, thr_count, handles, releasing, again>>
    PROVE  /\ Joins' /\ Live' = Live /\ ended' = ended /\ h[1] \in Live /\ h = <<h[1], id[h[1]]>>
           /\ t \notin Pending(h[1]) /\ Pending(h[1])' = Pending(h[1]) \cup {t}
<1> DEFINE s == h[1]
<1>0. /\ id[s] = h[2] /\ k.state[s] # "PASSIVE" /\ id' = id
      /\ ref_cnt' = [ref_cnt EXCEPT ![s] = @ + 1]
      /\ k' = kthreads_schedule(kthread_enqueue(k, t, JoinQ(s)))
      /\ waiting_for' = [waiting_for EXCEPT ![t] = h]
  BY DEF join_block
<1>1. /\ s \in Thread /\ h[2] \in 1..MaxId /\ h = <<s, id[s]>>
  BY <1>0 DEF UserHandle
<1>2. /\ waiting_for \in [Thread -> (Thread \X (1..MaxId)) \cup {NULL}]
      /\ ended \subseteq Allocated /\ TypeOK /\ ref_cnt \in [Thread -> Int]
      /\ Live \subseteq Thread
  BY DEF IInv, TypeOK, Live, Allocated
<1>3. s \in Live /\ s \notin ended
  <2>1. s \notin ended
    BY <1>0 DEF Joins, EndedPassive
  <2> QED
    BY <1>0, <1>1, <2>1 DEF Live, Allocated
<1>4. ended' = ended /\ Live' = Live
  BY <1>0, <1>2 DEF Live, Allocated
<1>5. /\ \A u \in Live : waiting_for[t] # <<u, id[u]>>
      /\ \A x \in WaitQ : ~Stands(k.q[x], t)
      /\ t \in Live /\ t # Idle /\ k.state[t] = "ACTIVE" /\ k.active = t
  BY CallerFacts
<1> HIDE DEF s
<1>6. /\ waiting_for'[t] = h /\ \A j \in Thread : j # t => waiting_for'[j] = waiting_for[j]
      /\ ref_cnt'[s] = ref_cnt[s] + 1 /\ \A u \in Thread : u # s => ref_cnt'[u] = ref_cnt[u]
  BY <1>0, <1>1, <1>2
<1>7. /\ \A x \in WaitQ, j \in Thread : Stands(k'.q[x], j) <=>
            Stands(k.q[x], j) \/ (x = JoinQ(s) /\ j = t)
      /\ \A u \in ended : k'.state[u] = "PASSIVE"
  <2>1. JoinQ(s) \in WaitQ /\ ended \subseteq Thread
    BY <1>1, JoinQueues DEF IInv, TypeOK
  <2>2. /\ \A x \in WaitQ, j \in Thread : Stands(k'.q[x], j) <=>
              Stands(k.q[x], j) \/ (x = JoinQ(s) /\ j = t)
        /\ \A u \in Thread : k.state[u] = "PASSIVE" => k'.state[u] = "PASSIVE"
    BY <1>0, <2>1, BlockLinks
  <2> QED
    BY <2>1, <2>2 DEF Joins, EndedPassive
<1>8. \A u, j \in Thread : Joined(j, u)' <=> Joined(j, u) \/ (u = s /\ j = t)
  BY <1>1, <1>7, JoinQueues DEF Joined
<1>9. /\ t \notin Pending(s) /\ Pending(s)' = Pending(s) \cup {t}
      /\ \A u \in Live : u # s => Pending(u)' = Pending(u)
  <2>1. t \notin Pending(s)
    BY <1>3, <1>5 DEF Pending
  <2>2. \A u \in Live, j \in Thread :
            waiting_for'[j] = <<u, id[u]>> <=> waiting_for[j] = <<u, id[u]>> \/ (j = t /\ u = s)
    <3> SUFFICES ASSUME NEW u \in Live, NEW j \in Thread
                 PROVE  waiting_for'[j] = <<u, id[u]>> <=>
                            waiting_for[j] = <<u, id[u]>> \/ (j = t /\ u = s)
      OBVIOUS
    <3>1. CASE j # t
      BY <1>6, <3>1
    <3>2. CASE j = t
      BY <1>1, <1>5, <1>6, <3>2
    <3> QED
      BY <3>1, <3>2
  <2> QED
    BY <1>0, <1>3, <2>1, <2>2 DEF Pending
<1>10. OldIds'
  BY <1>0, <1>6 DEF Joins, OldIds
<1>11. EndedPassive'
  BY <1>4, <1>7 DEF Joins, EndedPassive
<1>12. JoinQueuesExact'
  <2>1. \A j \in Thread : waiting_for'[j] # NULL => j \in Live'
    BY <1>4, <1>5, <1>6 DEF Joins, JoinQueuesExact
  <2>2. \A u, j \in Thread : Joined(j, u)' =>
            waiting_for'[j] = <<u, id'[u]>> /\ (u \in Live' \/ releasing' = u)
    <3> SUFFICES ASSUME NEW u \in Thread, NEW j \in Thread, Joined(j, u)'
                 PROVE  waiting_for'[j] = <<u, id'[u]>> /\ (u \in Live' \/ releasing' = u)
      OBVIOUS
    <3>1. CASE u = s /\ j = t
      BY <1>0, <1>1, <1>3, <1>4, <1>6, <3>1
    <3>2. CASE ~(u = s /\ j = t)
      <4>1. Joined(j, u) /\ j # t
        BY <1>5, <1>8, <3>2, JoinQueues DEF Joined
      <4> QED
        BY <1>0, <1>4, <1>6, <4>1 DEF Joins, JoinQueuesExact
    <3> QED
      BY <3>1, <3>2
  <2>3. \A u \in Live', j \in Thread : waiting_for'[j] = <<u, id'[u]>> => Joined(j, u)'
    <3> SUFFICES ASSUME NEW u \in Live, NEW j \in Thread, waiting_for'[j] = <<u, id[u]>>
                 PROVE  Joined(j, u)'
      BY <1>0, <1>4
    <3>1. CASE j = t
      BY <1>1, <1>2, <1>6, <1>8, <3>1
    <3>2. CASE j # t
      BY <1>2, <1>6, <1>8, <3>2 DEF Joins, JoinQueuesExact
    <3> QED
      BY <3>1, <3>2
  <2> QED
    BY <2>1, <2>2, <2>3 DEF JoinQueuesExact
<1>13. RefsCover'
  <2> SUFFICES ASSUME NEW u \in Live
               PROVE  ref_cnt'[u] >= 1 /\ (ref_cnt'[u] = 1 <=> Pending(u)' = {})
    BY <1>4 DEF RefsCover
  <2>1. ref_cnt[u] \in Int /\ ref_cnt[u] >= 1 /\ (ref_cnt[u] = 1 <=> Pending(u) = {})
    BY <1>2 DEF Joins, RefsCover
  <2>2. CASE u # s
    BY <1>2, <1>6, <1>9, <2>1, <2>2
  <2>3. CASE u = s
    <3>1. Pending(u)' # {}
      BY <1>9, <2>3
    <3>2. ref_cnt'[u] = ref_cnt[u] + 1
      BY <1>6, <2>3
    <3> QED
      BY <2>1, <3>1, <3>2
  <2> QED
    BY <2>2, <2>3
<1> QED
  BY <1>1, <1>3, <1>4, <1>9, <1>10, <1>11, <1>12, <1>13 DEF Joins, s

\* wait_for_thread collects from a thread that has ended.
LEMMA CollectJoins ==
    ASSUME IInv, Joins, NEW t \in Thread, Running(t), NEW h \in UserHandle,
           join_collect(t, h), ended' = {s \in ended : id'[s] # 0},
           UNCHANGED <<last_id, thr_count, handles, releasing, again>>
    PROVE  /\ Joins' /\ Live' = Live /\ h[1] \in ended /\ h[1] \notin Live /\ h = <<h[1], id[h[1]]>>
           /\ ended' \subseteq ended /\ (ref_cnt[h[1]] # 1 => ended' = ended /\ id' = id)
           /\ ref_cnt[h[1]] = 1 => ended' = ended \ {h[1]} /\ id'[h[1]] = 0
           /\ \A u \in Thread : u # h[1] => id'[u] = id[u]
<1> DEFINE s == h[1]
<1>0. /\ id[s] = h[2] /\ k.state[s] = "PASSIVE" /\ k' = k
      /\ ref_cnt' = [ref_cnt EXCEPT ![s] = @ - 1]
      /\ id' = IF ref_cnt[s] = 1 THEN [id EXCEPT ![s] = 0] ELSE id
      /\ waiting_for' = [waiting_for EXCEPT ![t] = NULL]
  BY DEF join_collect
<1>1. /\ s \in Thread /\ h[2] \in 1..MaxId /\ h = <<s, id[s]>>
  BY <1>0 DEF UserHandle
<1>2. /\ waiting_for \in [Thread -> (Thread \X (1..MaxId)) \cup {NULL}]
      /\ ended \subseteq Allocated /\ TypeOK /\ ref_cnt \in [Thread -> Int]
      /\ id \in [Thread -> 0..MaxId] /\ Live \subseteq Thread /\ Linked(k, Live)
      /\ MaxId \in Nat /\ last_id \in 2..MaxId
  BY ThreadsAssumption DEF IInv, TypeOK, Live, Allocated
<1>3. s \notin Live /\ s \in ended
  <2>1. s \notin Live
    BY <1>0, <1>2 DEF Linked, NoneLost
  <2> QED
    BY <1>0, <1>1, <2>1 DEF Live, Allocated
<1> HIDE DEF s
<1>4. /\ \A u \in Thread : u # s => id'[u] = id[u] /\ ref_cnt'[u] = ref_cnt[u]
      /\ ref_cnt[s] = 1 => id'[s] = 0
      /\ ref_cnt[s] # 1 => id' = id
      /\ waiting_for'[t] = NULL /\ \A j \in Thread : j # t => waiting_for'[j] = waiting_for[j]
  BY <1>0, <1>1, <1>2
<1>5. /\ Live' = Live /\ ended' \subseteq ended
      /\ ref_cnt[s] # 1 => ended' = ended
      /\ ref_cnt[s] = 1 => ended' = ended \ {s}
  BY <1>2, <1>3, <1>4 DEF Live, Allocated
<1>6. /\ \A u \in Live : waiting_for[t] # <<u, id[u]>>
      /\ \A x \in WaitQ : ~Stands(k.q[x], t)
      /\ releasing = NULL
  BY CallerFacts
<1>7. \A u, j \in Thread : (Joined(j, u)' <=> Joined(j, u)) /\ ~Joined(t, u)
  BY <1>0, <1>6, JoinQueues DEF Joined
<1>8. \A u \in Live, j \in Thread :
          waiting_for'[j] = <<u, id'[u]>> <=> waiting_for[j] = <<u, id[u]>>
  BY <1>2, <1>3, <1>4, <1>6, LiveHandle
<1>9. \A u \in Live : Pending(u)' = Pending(u)
  BY <1>8 DEF Pending
<1>10. OldIds'
  <2>1. \A u \in Thread : id'[u] <= last_id
    BY <1>1, <1>2, <1>4 DEF Joins, OldIds
  <2> QED
    BY <1>4, <2>1 DEF Joins, OldIds
<1>11. EndedPassive'
  BY <1>0, <1>5, <1>6 DEF Joins, EndedPassive
<1>12. JoinQueuesExact'
  <2>1. \A j \in Thread : waiting_for'[j] # NULL => j \in Live'
    BY <1>4, <1>5 DEF Joins, JoinQueuesExact
  <2>2. \A u, j \in Thread : Joined(j, u)' =>
            waiting_for'[j] = <<u, id'[u]>> /\ (u \in Live' \/ releasing' = u)
    <3> SUFFICES ASSUME NEW u \in Thread, NEW j \in Thread, Joined(j, u)'
                 PROVE  waiting_for'[j] = <<u, id'[u]>> /\ (u \in Live' \/ releasing' = u)
      OBVIOUS
    <3>1. j # t /\ Joined(j, u)
      BY <1>7
    <3>2. waiting_for[j] = <<u, id[u]>> /\ u \in Live
      BY <1>6, <3>1, KThreadsAssumption DEF Joins, JoinQueuesExact
    <3> QED
      BY <1>3, <1>4, <1>5, <3>1, <3>2
  <2>3. \A u \in Live', j \in Thread : waiting_for'[j] = <<u, id'[u]>> => Joined(j, u)'
    BY <1>2, <1>5, <1>7, <1>8 DEF Joins, JoinQueuesExact
  <2> QED
    BY <2>1, <2>2, <2>3 DEF JoinQueuesExact
<1>13. RefsCover'
  BY <1>2, <1>3, <1>4, <1>5, <1>9 DEF Joins, RefsCover
<1> QED
  BY <1>1, <1>3, <1>4, <1>5, <1>10, <1>11, <1>12, <1>13 DEF Joins, s

\* The turns and the end of the release loop: the thread that has ended is not
\* live, and nobody is left in its join queue.
LEMMA ReleaseJoins ==
    ASSUME IInv, Joins, release_next \/ release_done PROVE Joins'
<1>1. /\ UNCHANGED <<id, ref_cnt, last_id, waiting_for, again, ended, handles>>
      /\ releasing # NULL
  BY DEF release_next, release_done
<1>2. /\ Linked(k, Live) /\ Idle \in Live /\ k.state[Idle] \in {"ACTIVE", "READY"}
      /\ k.state[k.active] = "ACTIVE" => k.active \in Live
      /\ releasing \in Thread /\ JoinQ(releasing) \in WaitQ /\ ended \subseteq Thread
      /\ Live \subseteq Thread
  BY <1>1, JoinQueues DEF IInv, TypeOK, Live, Allocated
<1>3. releasing \notin Live
  BY <1>1 DEF Joins, EndedPassive, Live
<1>4. \A h \in handles' : h[2] <= last_id
  BY <1>1 DEF Joins, OldIds
<1>5. CASE release_next
  <2>1. k' = kthreadq_release(k, JoinQ(releasing)) /\ releasing' = releasing
    BY <1>5 DEF release_next
  <2>2. /\ \A y \in WaitQ, u \in Thread : Stands(k'.q[y], u) => Stands(k.q[y], u)
        /\ \A y \in WaitQ \ {JoinQ(releasing)}, u \in Thread :
                Stands(k.q[y], u) => Stands(k'.q[y], u)
    BY <1>2, <2>1, ReleaseStands
  <2>3. \A t \in Thread : k.state[t] = "PASSIVE" => k'.state[t] = "PASSIVE"
    <3>1. \A t \in Thread : k'.state[t] = k.state[t]
                            \/ (k.state[t] = "WAIT" /\ k'.state[t] = "READY")
      BY <1>2, <2>1, ReleaseLinks
    <3> QED
      BY <3>1
  <2>4. \A s, j \in Thread : Joined(j, s)' => Joined(j, s) /\ (s \in Live \/ releasing' = s)
    BY <2>1, <2>2, JoinQueues DEF Joined, Joins, JoinQueuesExact
  <2>5. \A s \in Live, j \in Thread : Joined(j, s) => Joined(j, s)'
    BY <1>2, <1>3, <2>2, JoinQueues DEF Joined
  <2>6. \A s \in ended : k'.state[s] = "PASSIVE"
    BY <1>2, <2>3 DEF Joins, EndedPassive
  <2> QED
    BY <1>1, <1>4, <2>1, <2>4, <2>5, <2>6, QuietJoins
<1>6. CASE release_done
  <2>1. k' = kthreads_schedule(k) /\ releasing' = NULL /\ k.q[JoinQ(releasing)] = <<>>
    BY <1>6 DEF release_done
  <2>2. /\ \A x \in WaitQ : k'.q[x] = k.q[x]
        /\ \A t \in Thread : k.state[t] = "PASSIVE" => k'.state[t] = "PASSIVE"
    BY <1>2, <2>1, ScheduleIdle
  <2>3. \A s, j \in Thread : Joined(j, s)' <=> Joined(j, s)
    BY <2>2, JoinQueues DEF Joined
  <2>4. \A j \in Thread : ~Joined(j, releasing)
    BY <2>1 DEF Joined, Stands
  <2>5. \A s, j \in Thread : Joined(j, s)' => Joined(j, s) /\ (s \in Live \/ releasing' = s)
    BY <2>3, <2>4 DEF Joins, JoinQueuesExact
  <2>6. \A s \in ended : k'.state[s] = "PASSIVE"
    BY <1>2, <2>2 DEF Joins, EndedPassive
  <2> QED
    BY <1>1, <1>2, <1>4, <2>1, <2>3, <2>5, <2>6, QuietJoins
<1> QED
  BY <1>5, <1>6

\* Sleeping and waking use the alarm queues only.
LEMMA SleepJoins ==
    ASSUME IInv, Joins, NEW t \in Thread, sys__wait_for_alarm(t) \/ k_timer_interrupt(t)
    PROVE  Joins'
<1>1. /\ UNCHANGED <<id, ref_cnt, last_id, waiting_for, again, ended, handles, releasing>>
      /\ releasing = NULL /\ AlarmQ(t) \in WaitQ
  BY JoinQueues DEF sys__wait_for_alarm, k_timer_interrupt, Running, InUser
<1>2. /\ Linked(k, Live) /\ Idle \in Live /\ k.state[Idle] \in {"ACTIVE", "READY"}
      /\ k.active \in Live /\ ended \subseteq Thread /\ Live \subseteq Thread
      /\ k.active \in Thread
  BY <1>1 DEF IInv, TypeOK, Live, Allocated
<1>3. /\ \A y \in WaitQ, u \in Thread : y # AlarmQ(t) => (Stands(k'.q[y], u) <=> Stands(k.q[y], u))
      /\ \A u \in Thread : k.state[u] = "PASSIVE" => k'.state[u] = "PASSIVE"
  <2>1. CASE sys__wait_for_alarm(t)
    <3>1. Running(t) /\ k' = kthreads_schedule(kthread_enqueue(k, t, AlarmQ(t)))
      BY <2>1 DEF sys__wait_for_alarm
    <3> QED
      BY <1>1, <3>1, BlockLinks
  <2>2. CASE k_timer_interrupt(t)
    <3> DEFINE m == kthreadq_release(k, AlarmQ(t))
    <3>1. k' = kthreads_schedule(m)
      BY <2>2 DEF k_timer_interrupt
    <3>2. /\ Linked(m, Live) /\ m.active = k.active
          /\ \A u \in Thread : m.state[u] = k.state[u]
                               \/ (k.state[u] = "WAIT" /\ m.state[u] = "READY")
      BY <1>1, <1>2, ReleaseLinks
    <3>3. /\ \A y \in WaitQ, u \in Thread : Stands(m.q[y], u) => Stands(k.q[y], u)
          /\ \A y \in WaitQ \ {AlarmQ(t)}, u \in Thread : Stands(k.q[y], u) => Stands(m.q[y], u)
      BY <1>1, <1>2, ReleaseStands
    <3> HIDE DEF m
    <3>4. /\ m.state[Idle] \in {"ACTIVE", "READY"}
          /\ m.state[m.active] = "ACTIVE" => m.active \in Live
      BY <1>2, <3>2
    <3>5. /\ \A x \in WaitQ : k'.q[x] = m.q[x]
          /\ \A u \in Thread : m.state[u] = "PASSIVE" => k'.state[u] = "PASSIVE"
      BY <1>2, <3>1, <3>2, <3>4, ScheduleIdle
    <3> QED
      BY <3>2, <3>3, <3>5
  <2> QED
    BY <2>1, <2>2
<1>4. \A s, j \in Thread : Joined(j, s)' <=> Joined(j, s)
  BY <1>3, JoinQueues DEF Joined
<1>5. \A s, j \in Thread : Joined(j, s)' => Joined(j, s) /\ (s \in Live \/ releasing' = s)
  BY <1>1, <1>4 DEF Joins, JoinQueuesExact
<1>6. \A s \in ended : k'.state[s] = "PASSIVE"
  BY <1>2, <1>3 DEF Joins, EndedPassive
<1>7. \A h \in handles' : h[2] <= last_id
  BY <1>1 DEF Joins, OldIds
<1> QED
  BY <1>1, <1>2, <1>4, <1>5, <1>6, <1>7, QuietJoins

\* A thread learns its own handle, or nothing changes.
LEMMA SelfJoins ==
    ASSUME IInv, Joins, UNCHANGED vars \/ \E t \in Thread : sys__thread_self(t)
    PROVE  Joins'
<1>1. /\ UNCHANGED <<k, id, ref_cnt, last_id, waiting_for, again, ended, releasing>>
      /\ \A h \in handles' : h \in handles \/ \E t \in Thread : h = <<t, id[t]>>
  BY DEF vars, sys__thread_self
<1>2. \A h \in handles' : h[2] <= last_id
  BY <1>1 DEF Joins, OldIds
<1>3. \A s, j \in Thread : Joined(j, s)' <=> Joined(j, s)
  BY <1>1 DEF Joined
<1>4. Live \subseteq Thread
  BY DEF Live, Allocated
<1> QED
  BY <1>1, <1>2, <1>3, <1>4, QuietJoins DEF Joins, JoinQueuesExact, EndedPassive

\* The handles wait_for_thread works with, in its first call and in a repeated one.
LEMMA WaitHandles ==
    ASSUME IInv, Joins, NEW t \in Thread, NEW h,
           h \in handles \/ (h = waiting_for[t] /\ h # NULL)
    PROVE  h \in UserHandle /\ h[2] <= last_id
  BY DEF IInv, Joins, OldIds

\* Every step preserves the invariant.
LEMMA NextJoins ==
    ASSUME JoinersSpared, IInv, Joins, [Next]_vars PROVE Joins'
<1>1. ASSUME NEW t \in Thread, NEW h, NEW wait, Running(t),
             h \in handles \/ (h = waiting_for[t] /\ h # NULL),
             sys__wait_for_thread(t, h, wait), ended' = {s \in ended : id'[s] # 0},
             UNCHANGED <<last_id, thr_count, handles, releasing, again>>
      PROVE  Joins'
  BY <1>1, WaitHandles, ReturnJoins, JoinBlockJoins, CollectJoins DEF sys__wait_for_thread
<1>2. ASSUME NEW t \in Thread, NEW h \in handles, NEW wait \in BOOLEAN,
             wait_for_thread(t, h, wait)
      PROVE  Joins'
  BY <1>1, <1>2 DEF wait_for_thread
<1>3. ASSUME NEW t \in Thread, wait_for_thread_retry(t) PROVE Joins'
  BY <1>1, <1>3 DEF wait_for_thread_retry
<1>4. ~cancel_again
  BY DEF cancel_again, Joins, EndedPassive
<1> QED
  BY <1>2, <1>3, <1>4, CreateJoins, ExitJoins, CancelJoins, ReleaseJoins, SleepJoins, SelfJoins
     DEF Next, idle_thread

\* Whatever is not cancelled while it waits or is waited for: when a thread has
\* ended and the kernel returns to user code, nobody is left in its join queue.
THEOREM SpecNoWaitForEnded ==
    ASSUME JoinersSpared PROVE Spec => []NoWaitForEnded
<1>1. Init => Joins
  BY InitJoins
<1>2. IInv /\ Joins /\ [Next]_vars => Joins'
  BY NextJoins
<1>3. IInv /\ Joins => NoWaitForEnded
  <2> SUFFICES ASSUME IInv, Joins, releasing = NULL, NEW t \in ended, k.q[JoinQ(t)] # <<>>
               PROVE  FALSE
    BY DEF NoWaitForEnded, InUser
  <2>1. t \in Thread /\ JoinQ(t) \in WaitQ /\ JoinQ(t) \in Queue /\ k.q[JoinQ(t)] \in Seq(Thread)
    BY JoinQueues, QueueNames DEF IInv, TypeOK, KState
  <2>2. 1 \in 1..Len(k.q[JoinQ(t)]) /\ k.q[JoinQ(t)][1] \in Thread
    BY <2>1, TailMember
  <2>3. Joined(k.q[JoinQ(t)][1], t)
    BY <2>2 DEF Joined, Stands
  <2> QED
    BY <2>1, <2>2, <2>3, KThreadsAssumption DEF Joins, JoinQueuesExact, Live
<1>4. Spec => []IInv
  BY SpecIInv DEF JoinersSpared
<1> QED
  BY <1>1, <1>2, <1>3, <1>4, PTL DEF Spec

-----------------------------------------------------------------------------
\* The counters.  Here nobody is cancelled at all, for each cancel counts twice.
\* A live thread has one reference of its own and one per waiter; an ended one
\* keeps at most one per waiter that has not collected, and at least one.
Counts ==
    /\ IsFiniteSet(Live)
    /\ thr_count = Cardinality(Live \ {Idle})
    /\ \A s \in Live : ref_cnt[s] = 1 + Cardinality(Pending(s))
    /\ \A s \in ended : 1 <= ref_cnt[s] /\ ref_cnt[s] <= Cardinality(Pending(s))

\* The handle of a thread whose descriptor is not free is not NULL.
LEMMA AllocatedHandle ==
    ASSUME TypeOK, NEW s \in Allocated
    PROVE  s \in Thread /\ <<s, id[s]>> # NULL
<1>1. s \in Thread /\ id[s] \in 0..MaxId /\ id[s] # 0 /\ MaxId \in Nat
  BY ThreadsAssumption DEF TypeOK, Allocated
<1>2. id[s] \in 1..MaxId
  BY <1>1
<1> QED
  BY <1>1, <1>2, ThreadsAssumption

\* Only finitely many threads wait for a thread: they are live.
LEMMA PendingFinite ==
    ASSUME Joins, IsFiniteSet(Live), TypeOK, NEW s \in Allocated
    PROVE  IsFiniteSet(Pending(s)) /\ Cardinality(Pending(s)) \in Nat
<1>1. Pending(s) \in SUBSET Live
  BY AllocatedHandle DEF Pending, Joins, JoinQueuesExact
<1>2. IsFiniteSet(Pending(s))
  BY <1>1, FS_Subset
<1> QED
  BY <1>2, FS_CardinalityType

\* The first two threads, and nobody waits.
LEMMA InitCounts == Init => Counts
<1> SUFFICES ASSUME Init PROVE Counts
  OBVIOUS
<1>1. Live = {Idle, Main} /\ thr_count = 1 /\ ended = {} /\ Idle # Main
  BY KThreadsAssumption, ThreadsAssumption DEF Init, Live, Allocated
<1>2. IsFiniteSet(Live)
  <2>1. IsFiniteSet({Idle})
    BY FS_Singleton
  <2>2. IsFiniteSet({Idle} \cup {Main})
    BY <2>1, FS_AddElement
  <2>3. Live = {Idle} \cup {Main}
    BY <1>1
  <2> QED
    BY <2>2, <2>3
<1>3. thr_count = Cardinality(Live \ {Idle})
  <2>1. Live \ {Idle} = {Main}
    BY <1>1
  <2> QED
    BY <1>1, <2>1, FS_Singleton
<1>4. \A s \in Live : ref_cnt[s] = 1 + Cardinality(Pending(s))
  <2>1. TypeOK
    BY InitIInv DEF IInv
  <2>2. \A s \in Live : Pending(s) = {} /\ ref_cnt[s] = 1
    BY <1>1, <2>1, LiveHandle, KThreadsAssumption, ThreadsAssumption DEF Pending, Init
  <2> QED
    BY <2>2, FS_EmptySet
<1> QED
  BY <1>1, <1>2, <1>3, <1>4 DEF Counts

\* A new thread has one reference, and nobody waits for it.
LEMMA CreateCounts ==
    ASSUME IInv, Joins, Counts, NEW t \in Thread, NEW s \in Thread, NEW p \in PrioArgs,
           NEW keep \in BOOLEAN, sys__create_thread(t, s, p, keep)
    PROVE  Counts'
<1>1. /\ s \notin Live /\ s \notin ended /\ Live' = Live \cup {s} /\ ended' = ended
      /\ thr_count' = thr_count + 1 /\ waiting_for' = waiting_for
      /\ \A u \in Thread : u # s => id'[u] = id[u] /\ ref_cnt'[u] = ref_cnt[u]
      /\ ref_cnt'[s] = 1 /\ Pending(s)' = {}
  BY CreateJoins
<1>2. Idle \in Live /\ Live \subseteq Thread /\ ended \subseteq Thread
  BY DEF IInv, TypeOK, Live, Allocated
<1>3. IsFiniteSet(Live) /\ IsFiniteSet(Live \ {Idle})
  BY FS_RemoveElement DEF Counts
<1>4. IsFiniteSet(Live')
  BY <1>1, <1>3, FS_AddElement
<1>5. thr_count' = Cardinality(Live' \ {Idle})
  <2>1. Live' \ {Idle} = (Live \ {Idle}) \cup {s}
    BY <1>1, <1>2
  <2>2. Cardinality((Live \ {Idle}) \cup {s}) = Cardinality(Live \ {Idle}) + 1
    BY <1>1, <1>3, FS_AddElement
  <2> QED
    BY <1>1, <2>1, <2>2 DEF Counts
<1>6. \A u \in Thread : u # s => Pending(u)' = Pending(u)
  BY <1>1 DEF Pending
<1>7. \A u \in Live' : ref_cnt'[u] = 1 + Cardinality(Pending(u)')
  <2>1. ref_cnt'[s] = 1 + Cardinality(Pending(s)')
    BY <1>1, FS_EmptySet
  <2>2. \A u \in Live : ref_cnt'[u] = 1 + Cardinality(Pending(u)')
    BY <1>1, <1>2, <1>6 DEF Counts
  <2> QED
    BY <1>1, <2>1, <2>2
<1>8. \A u \in ended' : 1 <= ref_cnt'[u] /\ ref_cnt'[u] <= Cardinality(Pending(u)')
  BY <1>1, <1>2, <1>6 DEF Counts
<1> QED
  BY <1>4, <1>5, <1>7, <1>8 DEF Counts

\* A thread that exits gives up its own reference; those of its waiters stay.
LEMMA ExitCounts ==
    ASSUME IInv, Joins, Counts, NEW t \in Thread, sys__thread_exit(t)
    PROVE  Counts'
<1>1. /\ t \in Live /\ t # Idle /\ Live' = Live \ {t} /\ waiting_for' = waiting_for
      /\ t \notin ended /\ thr_count' = thr_count - 1
      /\ \A u \in Thread : u # t => id'[u] = id[u] /\ ref_cnt'[u] = ref_cnt[u]
      /\ ref_cnt'[t] = ref_cnt[t] - 1
      /\ ref_cnt[t] = 1 => id'[t] = 0 /\ ended' = ended
      /\ ref_cnt[t] # 1 => id' = id /\ ended' = ended \cup {t}
  BY ExitJoins
<1>2. Idle \in Live /\ Live \subseteq Thread /\ ended \subseteq Thread /\ TypeOK
  BY DEF IInv, TypeOK, Live, Allocated
<1>3. IsFiniteSet(Live) /\ IsFiniteSet(Live \ {Idle})
  BY FS_RemoveElement DEF Counts
<1>4. IsFiniteSet(Live')
  BY <1>1, <1>3, FS_RemoveElement
<1>5. thr_count' = Cardinality(Live' \ {Idle})
  <2>1. Live' \ {Idle} = (Live \ {Idle}) \ {t}
    BY <1>1
  <2>2. Cardinality((Live \ {Idle}) \ {t}) = Cardinality(Live \ {Idle}) - 1
    BY <1>1, <1>3, FS_RemoveElement
  <2> QED
    BY <1>1, <2>1, <2>2 DEF Counts
<1>6. \A u \in Thread : u # t => Pending(u)' = Pending(u)
  BY <1>1 DEF Pending
<1>7. \A u \in Live' : ref_cnt'[u] = 1 + Cardinality(Pending(u)')
  BY <1>1, <1>2, <1>6 DEF Counts
<1>8. \A u \in ended : 1 <= ref_cnt'[u] /\ ref_cnt'[u] <= Cardinality(Pending(u)')
  BY <1>1, <1>2, <1>6 DEF Counts
<1>9. ASSUME ref_cnt[t] # 1
      PROVE  1 <= ref_cnt'[t] /\ ref_cnt'[t] <= Cardinality(Pending(t)')
  <2>1. Pending(t)' = Pending(t)
    BY <1>1, <1>9 DEF Pending
  <2>2. Cardinality(Pending(t)) \in Nat
    BY <1>1, <1>2, <1>3, PendingFinite DEF Live
  <2>3. ref_cnt[t] = 1 + Cardinality(Pending(t))
    BY <1>1 DEF Counts
  <2> QED
    BY <1>1, <1>9, <2>1, <2>2, <2>3
<1>10. \A u \in ended' : 1 <= ref_cnt'[u] /\ ref_cnt'[u] <= Cardinality(Pending(u)')
  BY <1>1, <1>8, <1>9
<1> QED
  BY <1>4, <1>5, <1>7, <1>10 DEF Counts

\* A step in which threads start or stop to wait only for the thread of handle h
\* leaves those who wait for another thread u as they are.
LEMMA WaitPending ==
    ASSUME TypeOK, NEW h,
           \A j \in Thread : \/ waiting_for'[j] = waiting_for[j]
                             \/ waiting_for[j] \in {NULL, h} /\ waiting_for'[j] \in {NULL, h},
           NEW u \in Allocated, id'[u] = id[u], h # <<u, id[u]>>
    PROVE  Pending(u)' = Pending(u)
<1>1. <<u, id[u]>> # NULL
  BY AllocatedHandle
<1>2. \A j \in Thread : waiting_for'[j] = <<u, id[u]>> <=> waiting_for[j] = <<u, id[u]>>
  BY <1>1
<1> QED
  BY <1>2 DEF Pending

\* wait_for_thread returns: t waited for nobody whose descriptor is still there.
LEMMA ReturnCounts ==
    ASSUME IInv, Joins, Counts, NEW t \in Thread, Running(t), NEW h, NEW wait,
           h \in handles \/ (h = waiting_for[t] /\ h # NULL),
           waiting_for[t] = NULL \/ (waiting_for[t] = h /\ wait = TRUE),
           join_return(t, h, wait), ended' = {s \in ended : id'[s] # 0},
           UNCHANGED <<last_id, thr_count, handles, releasing, again>>
    PROVE  Counts'
<1>1. waiting_for' = [waiting_for EXCEPT ![t] = NULL] /\ UNCHANGED <<k, id, ref_cnt>>
  BY DEF join_return
<1>2. Live' = Live /\ ended' = ended
  BY ReturnJoins
<1>3. h \in UserHandle
  BY WaitHandles
<1>4. /\ TypeOK /\ Live \subseteq Allocated /\ ended \subseteq Allocated
      /\ waiting_for \in [Thread -> (Thread \X (1..MaxId)) \cup {NULL}]
  BY DEF IInv, Live, TypeOK
<1>5. \A u \in Live : waiting_for[t] # <<u, id[u]>>
  BY CallerFacts
<1>6. \A u \in Allocated : waiting_for[t] # <<u, id[u]>>
  <2> SUFFICES ASSUME NEW u \in Allocated, waiting_for[t] = <<u, id[u]>> PROVE FALSE
    OBVIOUS
  <2>1. <<u, id[u]>> # NULL
    BY <1>4, AllocatedHandle
  <2>2. h = <<u, id[u]>> /\ wait = TRUE
    BY <2>1
  <2>3. id[u] = h[2] /\ u = h[1]
    BY <2>2
  <2> QED
    BY <2>2, <2>3 DEF join_return
<1>7. \A u \in Allocated : Pending(u)' = Pending(u)
  <2> SUFFICES ASSUME NEW u \in Allocated PROVE Pending(u)' = Pending(u)
    OBVIOUS
  <2>1. <<u, id[u]>> # NULL
    BY <1>4, AllocatedHandle
  <2>2. \A j \in Thread : waiting_for'[j] = <<u, id[u]>> <=> waiting_for[j] = <<u, id[u]>>
    BY <1>1, <1>4, <1>6, <2>1
  <2> QED
    BY <1>1, <2>2 DEF Pending
<1> QED
  BY <1>1, <1>2, <1>4, <1>7 DEF Counts

\* wait_for_thread blocks: one reference more, one waiter more.
LEMMA JoinBlockCounts ==
    ASSUME IInv, Joins, Counts, NEW t \in Thread, Running(t), NEW h, NEW wait,
           h \in handles \/ (h = waiting_for[t] /\ h # NULL), waiting_for[t] \in {NULL, h},
           join_block(t, h, wait), ended' = {s \in ended : id'[s] # 0},
           UNCHANGED <<last_id, thr_count, handles, releasing, again>>
    PROVE  Counts'
<1>1. h \in UserHandle /\ h[2] <= last_id
  BY WaitHandles
<1>2. /\ Live' = Live /\ ended' = ended /\ h[1] \in Live /\ h = <<h[1], id[h[1]]>>
      /\ t \notin Pending(h[1]) /\ Pending(h[1])' = Pending(h[1]) \cup {t}
  BY <1>1, JoinBlockJoins
<1>3. /\ ref_cnt' = [ref_cnt EXCEPT ![h[1]] = @ + 1] /\ id' = id
      /\ waiting_for' = [waiting_for EXCEPT ![t] = h]
  BY DEF join_block
<1>4. /\ TypeOK /\ Live \subseteq Allocated /\ ended \subseteq Allocated /\ Allocated \subseteq Thread
      /\ ref_cnt \in [Thread -> Int] /\ h[1] \in Allocated /\ h[1] \notin ended
  BY <1>2 DEF IInv, Live, Allocated, TypeOK
<1>5. \A u \in Allocated \ {h[1]} : Pending(u)' = Pending(u) /\ ref_cnt'[u] = ref_cnt[u]
  <2> SUFFICES ASSUME NEW u \in Allocated, u # h[1]
               PROVE  Pending(u)' = Pending(u) /\ ref_cnt'[u] = ref_cnt[u]
    OBVIOUS
  <2>1. id'[u] = id[u] /\ h # <<u, id[u]>>
    BY <1>2, <1>3
  <2>2. Pending(u)' = Pending(u)
    <3>1. \A j \in Thread : \/ waiting_for'[j] = waiting_for[j]
                            \/ waiting_for[j] \in {NULL, h} /\ waiting_for'[j] \in {NULL, h}
      BY <1>3, <1>4 DEF TypeOK
    <3> QED
      BY <1>4, <2>1, <3>1, WaitPending
  <2> QED
    BY <1>3, <1>4, <2>2
<1>6. /\ Cardinality(Pending(h[1])) \in Nat
      /\ Cardinality(Pending(h[1])') = Cardinality(Pending(h[1])) + 1
  <2>1. IsFiniteSet(Pending(h[1])) /\ Cardinality(Pending(h[1])) \in Nat
    BY <1>4, PendingFinite DEF Counts
  <2> QED
    BY <1>2, <2>1, FS_AddElement
<1>7. ref_cnt'[h[1]] = 1 + Cardinality(Pending(h[1])')
  <2>1. ref_cnt'[h[1]] = ref_cnt[h[1]] + 1
    BY <1>3, <1>4
  <2> QED
    BY <1>2, <1>6, <2>1 DEF Counts
<1>8. \A u \in Live' : ref_cnt'[u] = 1 + Cardinality(Pending(u)')
  BY <1>2, <1>4, <1>5, <1>7 DEF Counts
<1>9. \A u \in ended' : 1 <= ref_cnt'[u] /\ ref_cnt'[u] <= Cardinality(Pending(u)')
  BY <1>2, <1>4, <1>5 DEF Counts
<1> QED
  BY <1>2, <1>8, <1>9 DEF Counts

\* wait_for_thread collects: one reference less, and at most one waiter less.
LEMMA CollectCounts ==
    ASSUME IInv, Joins, Counts, NEW t \in Thread, Running(t), NEW h,
           h \in handles \/ (h = waiting_for[t] /\ h # NULL), waiting_for[t] \in {NULL, h},
           join_collect(t, h), ended' = {s \in ended : id'[s] # 0},
           UNCHANGED <<last_id, thr_count, handles, releasing, again>>
    PROVE  Counts'
<1>1. h \in UserHandle
  BY WaitHandles
<1>2. /\ Live' = Live /\ h[1] \in ended /\ h[1] \notin Live /\ h = <<h[1], id[h[1]]>>
      /\ ended' \subseteq ended /\ (ref_cnt[h[1]] # 1 => ended' = ended /\ id' = id)
      /\ ref_cnt[h[1]] = 1 => ended' = ended \ {h[1]}
      /\ \A u \in Thread : u # h[1] => id'[u] = id[u]
  BY <1>1, CollectJoins
<1>3. /\ ref_cnt' = [ref_cnt EXCEPT ![h[1]] = @ - 1]
      /\ waiting_for' = [waiting_for EXCEPT ![t] = NULL]
  BY DEF join_collect
<1>4. /\ TypeOK /\ Live \subseteq Allocated /\ ended \subseteq Allocated /\ Allocated \subseteq Thread
      /\ ref_cnt \in [Thread -> Int] /\ h[1] \in Allocated
      /\ waiting_for \in [Thread -> (Thread \X (1..MaxId)) \cup {NULL}]
  BY <1>2 DEF IInv, Live, Allocated, TypeOK
<1>5. \A u \in Allocated \ {h[1]} : Pending(u)' = Pending(u) /\ ref_cnt'[u] = ref_cnt[u]
  <2> SUFFICES ASSUME NEW u \in Allocated, u # h[1]
               PROVE  Pending(u)' = Pending(u) /\ ref_cnt'[u] = ref_cnt[u]
    OBVIOUS
  <2>1. id'[u] = id[u] /\ h # <<u, id[u]>>
    BY <1>2, <1>4
  <2>2. Pending(u)' = Pending(u)
    <3>1. \A j \in Thread : \/ waiting_for'[j] = waiting_for[j]
                            \/ waiting_for[j] \in {NULL, h} /\ waiting_for'[j] \in {NULL, h}
      BY <1>3, <1>4 DEF TypeOK
    <3> QED
      BY <1>4, <2>1, <3>1, WaitPending
  <2> QED
    BY <1>3, <1>4, <2>2
<1>6. ASSUME ref_cnt[h[1]] # 1
      PROVE  1 <= ref_cnt'[h[1]] /\ ref_cnt'[h[1]] <= Cardinality(Pending(h[1])')
  <2>1. Pending(h[1])' = Pending(h[1]) \ {t}
    <3>1. id' = id /\ <<h[1], id[h[1]]>> # NULL
      BY <1>2, <1>4, <1>6, AllocatedHandle
    <3>2. \A j \in Thread : waiting_for'[j] = <<h[1], id[h[1]]>>
                            <=> waiting_for[j] = <<h[1], id[h[1]]>> /\ j # t
      BY <1>3, <1>4, <3>1
    <3> QED
      BY <3>1, <3>2 DEF Pending
  <2>2. /\ Cardinality(Pending(h[1])) \in Nat
        /\ Cardinality(Pending(h[1])') \in {Cardinality(Pending(h[1])) - 1, Cardinality(Pending(h[1]))}
    <3>1. IsFiniteSet(Pending(h[1])) /\ Cardinality(Pending(h[1])) \in Nat
      BY <1>4, PendingFinite DEF Counts
    <3> QED
      BY <2>1, <3>1, FS_RemoveElement
  <2>3. ref_cnt'[h[1]] = ref_cnt[h[1]] - 1 /\ ref_cnt[h[1]] \in Int
    BY <1>3, <1>4
  <2>4. 1 <= ref_cnt[h[1]] /\ ref_cnt[h[1]] <= Cardinality(Pending(h[1]))
    BY <1>2 DEF Counts
  <2> QED
    BY <1>6, <2>2, <2>3, <2>4
<1>7. \A u \in Live' : ref_cnt'[u] = 1 + Cardinality(Pending(u)')
  BY <1>2, <1>4, <1>5 DEF Counts
<1>8. \A u \in ended' : 1 <= ref_cnt'[u] /\ ref_cnt'[u] <= Cardinality(Pending(u)')
  <2>1. \A u \in ended \ {h[1]} : 1 <= ref_cnt'[u] /\ ref_cnt'[u] <= Cardinality(Pending(u)')
    BY <1>4, <1>5 DEF Counts
  <2> QED
    BY <1>2, <1>6, <2>1
<1> QED
  BY <1>2, <1>7, <1>8 DEF Counts

\* A step that changes none of the counted sets.
LEMMA QuietCounts ==
    ASSUME Counts, UNCHANGED <<id, ref_cnt, thr_count, waiting_for, ended>> PROVE Counts'
<1>1. Live' = Live /\ \A u : Pending(u)' = Pending(u)
  BY DEF Live, Allocated, Pending
<1> QED
  BY <1>1 DEF Counts

\* Every step keeps the counters exact.
LEMMA NextCounts ==
    ASSUME JoinersSpared, "cancel" \notin Uses, IInv, Joins, Counts, [Next]_vars
    PROVE  Counts'
<1>1. ASSUME NEW t \in Thread, NEW h \in handles, NEW wait \in BOOLEAN,
             wait_for_thread(t, h, wait)
      PROVE  Counts'
  BY <1>1, ReturnCounts, JoinBlockCounts, CollectCounts DEF wait_for_thread, sys__wait_for_thread
<1>2. ASSUME NEW t \in Thread, wait_for_thread_retry(t) PROVE Counts'
  BY <1>2, ReturnCounts, JoinBlockCounts, CollectCounts
     DEF wait_for_thread_retry, sys__wait_for_thread
<1>3. ~cancel_again /\ \A t \in Thread, h \in handles : ~sys__cancel_thread(t, h)
  BY DEF cancel_again, Joins, EndedPassive, sys__cancel_thread
<1>4. ASSUME NEW t \in Thread,
             \/ sys__thread_self(t) \/ release_next \/ release_done
             \/ sys__wait_for_alarm(t) \/ k_timer_interrupt(t) \/ idle_thread \/ UNCHANGED vars
      PROVE  Counts'
  BY <1>4, QuietCounts DEF sys__thread_self, release_next, release_done,
     sys__wait_for_alarm, k_timer_interrupt, idle_thread, vars
<1>5. \E t \in Thread : TRUE
  BY KThreadsAssumption
<1> QED
  BY <1>1, <1>2, <1>3, <1>4, <1>5, CreateCounts, ExitCounts DEF Next

\* Without cancels the counters hold in every reachable state.
LEMMA SpecCounts ==
    ASSUME JoinersSpared, "cancel" \notin Uses PROVE Spec => [](IInv /\ Joins /\ Counts)
<1>1. Init => Joins /\ Counts
  BY InitJoins, InitCounts
<1>2. IInv /\ Joins /\ Counts /\ [Next]_vars => (Joins /\ Counts)'
  BY NextJoins, NextCounts
<1>3. Spec => []IInv
  BY SpecIInv DEF JoinersSpared
<1> QED
  BY <1>1, <1>2, <1>3, PTL DEF Spec

\* When no thread is cancelled, thr_count is the number of threads of the
\* process that have not ended, whatever they create, join and exit.
THEOREM SpecThrCountExact ==
    ASSUME JoinersSpared, "cancel" \notin Uses PROVE Spec => []ThrCountExact
<1>1. Counts => ThrCountExact
  BY DEF Counts, ThrCountExact
<1> QED
  BY <1>1, SpecCounts, PTL

\* When no thread is cancelled, a descriptor is freed neither too early nor
\* never: its reference count is exact while the thread lives, and afterwards
\* between one and the number of waiters that still have to collect.
THEOREM SpecRefCntExact ==
    ASSUME JoinersSpared, "cancel" \notin Uses PROVE Spec => []RefCntExact
<1>1. IInv /\ Joins /\ Counts => RefCntExact
  <2> SUFFICES ASSUME IInv, Joins, Counts PROVE RefCntExact
    OBVIOUS
  <2>1. \A t \in Live : k.state[t] # "PASSIVE"
    BY DEF IInv, Linked, NoneLost
  <2>2. \A t \in Allocated : t \in Live \/ t \in ended
    BY DEF Live
  <2> QED
    BY <2>1, <2>2 DEF RefCntExact, Counts, Joins, EndedPassive
<1> QED
  BY <1>1, SpecCounts, PTL

-----------------------------------------------------------------------------
\* The exit status.  Here threads may be cancelled as JoinersSpared allows, but
\* no two threads wait for the same one, so each waiter has a reference that
\* nobody else can use up.
Kept ==
    /\ StatusKept
    /\ \A i, j \in Thread : waiting_for[i] # NULL /\ waiting_for[i] = waiting_for[j] => i = j

\* A waiter is pending on the thread its handle names.
LEMMA KeptPending ==
    ASSUME TypeOK, Kept, NEW j \in Thread, waiting_for[j] # NULL
    PROVE  /\ waiting_for[j][1] \in Allocated /\ j \in Pending(waiting_for[j][1])
           /\ waiting_for[j] = <<waiting_for[j][1], id[waiting_for[j][1]]>>
<1>1. /\ waiting_for[j] \in Thread \X (1..MaxId) /\ id[waiting_for[j][1]] = waiting_for[j][2]
      /\ MaxId \in Nat
  BY ThreadsAssumption DEF TypeOK, Kept, StatusKept
<1>2. waiting_for[j][1] \in Allocated
  BY <1>1 DEF Allocated
<1>3. waiting_for[j] = <<waiting_for[j][1], id[waiting_for[j][1]]>>
  BY <1>1
<1> QED
  BY <1>2, <1>3 DEF Pending

\* A step that changes no waiter, and no identifier of a thread that is waited for.
LEMMA QuietKept ==
    ASSUME TypeOK, Kept, waiting_for' = waiting_for,
           \A u \in Allocated : Pending(u) # {} => id'[u] = id[u]
    PROVE  Kept'
<1>1. \A j \in Thread : waiting_for[j] # NULL =>
          id'[waiting_for[j][1]] = waiting_for[j][2]
  <2> SUFFICES ASSUME NEW j \in Thread, waiting_for[j] # NULL
               PROVE  id'[waiting_for[j][1]] = waiting_for[j][2]
    OBVIOUS
  <2>1. waiting_for[j][1] \in Allocated /\ Pending(waiting_for[j][1]) # {}
    BY KeptPending
  <2>2. id'[waiting_for[j][1]] = id[waiting_for[j][1]]
    BY <2>1
  <2> QED
    BY <2>2 DEF Kept, StatusKept
<1> QED
  BY <1>1 DEF Kept, StatusKept

\* A thread that ends is freed at once only if nobody waits for it, and an
\* identifier is given only to a free descriptor.
LEMMA LifeKept ==
    ASSUME JoinersSpared, IInv, Joins, Kept,
           \/ \E t, s \in Thread, p \in PrioArgs, keep \in BOOLEAN :
                    sys__create_thread(t, s, p, keep)
           \/ \E t \in Thread : sys__thread_exit(t)
           \/ \E t \in Thread, h \in handles : sys__cancel_thread(t, h)
    PROVE  Kept'
<1>0. TypeOK /\ Allocated \subseteq Thread
  BY DEF IInv, Allocated
<1>1. ASSUME NEW t \in Thread, NEW s \in Thread, NEW p \in PrioArgs, NEW keep \in BOOLEAN,
             sys__create_thread(t, s, p, keep)
      PROVE  Kept'
  <2>1. /\ waiting_for' = waiting_for /\ id[s] = 0
        /\ \A u \in Thread : u # s => id'[u] = id[u]
    BY <1>1, CreateJoins
  <2>2. \A u \in Allocated : id'[u] = id[u]
    BY <2>1 DEF Allocated
  <2> QED
    BY <1>0, <2>1, <2>2, QuietKept
<1>2. ASSUME NEW t \in Thread, sys__thread_exit(t) PROVE Kept'
  <2>1. /\ waiting_for' = waiting_for /\ t \in Live
        /\ \A u \in Thread : u # t => id'[u] = id[u]
        /\ ref_cnt[t] # 1 => id' = id
    BY <1>2, ExitJoins
  <2>2. ref_cnt[t] = 1 => Pending(t) = {}
    BY <2>1 DEF Joins, RefsCover
  <2>3. \A u \in Allocated : Pending(u) # {} => id'[u] = id[u]
    BY <1>0, <2>1, <2>2
  <2> QED
    BY <1>0, <2>1, <2>3, QuietKept
<1>3. ASSUME NEW t \in Thread, NEW h \in handles, sys__cancel_thread(t, h) PROVE Kept'
  <2>1. /\ waiting_for' = waiting_for /\ Pending(h[1]) = {}
        /\ \A u \in Thread : u # h[1] => id'[u] = id[u]
    BY <1>3, CancelJoins
  <2>2. \A u \in Allocated : Pending(u) # {} => id'[u] = id[u]
    BY <1>0, <2>1
  <2> QED
    BY <1>0, <2>1, <2>2, QuietKept
<1> QED
  BY <1>1, <1>2, <1>3

\* wait_for_thread: whoever blocks is the only one with its handle, and whoever
\* takes the last reference was the only one waiting.
LEMMA WaitKept ==
    ASSUME IInv, Joins, Kept, NEW t \in Thread, Running(t), NEW h, NEW wait,
           h \in handles \/ (h = waiting_for[t] /\ h # NULL),
           waiting_for[t] \in {NULL, h}, \A j \in Thread : waiting_for[j] = h => j = t,
           sys__wait_for_thread(t, h, wait), ended' = {s \in ended : id'[s] # 0},
           UNCHANGED <<last_id, thr_count, handles, releasing, again>>
    PROVE  Kept'
<1>0. /\ waiting_for \in [Thread -> (Thread \X (1..MaxId)) \cup {NULL}]
      /\ id \in [Thread -> 0..MaxId] /\ TypeOK /\ Allocated \subseteq Thread
  BY DEF IInv, TypeOK, Allocated
<1>1. h \in UserHandle /\ h[2] <= last_id
  BY WaitHandles
<1>2. ASSUME join_block(t, h, wait) PROVE Kept'
  <2>1. /\ waiting_for'[t] = h /\ id' = id /\ id[h[1]] = h[2]
        /\ \A j \in Thread : j # t => waiting_for'[j] = waiting_for[j]
    BY <1>0, <1>2 DEF join_block
  <2>2. StatusKept'
    BY <2>1 DEF Kept, StatusKept
  <2>3. \A i, j \in Thread : waiting_for'[i] # NULL /\ waiting_for'[i] = waiting_for'[j] => i = j
    BY <2>1 DEF Kept
  <2> QED
    BY <2>2, <2>3 DEF Kept
<1>3. ASSUME waiting_for' = [waiting_for EXCEPT ![t] = NULL],
             \A u \in Allocated : h # <<u, id[u]>> => id'[u] = id[u]
      PROVE  Kept'
  <2>1. waiting_for'[t] = NULL /\ \A j \in Thread : j # t => waiting_for'[j] = waiting_for[j]
    BY <1>0, <1>3
  <2>2. ASSUME NEW j \in Thread, waiting_for'[j] # NULL
        PROVE  id'[waiting_for'[j][1]] = waiting_for'[j][2]
    <3>1. j # t /\ waiting_for'[j] = waiting_for[j] /\ waiting_for[j] # NULL
      BY <2>1, <2>2
    <3>2. /\ waiting_for[j][1] \in Allocated
          /\ waiting_for[j] = <<waiting_for[j][1], id[waiting_for[j][1]]>>
      BY <1>0, <3>1, KeptPending
    <3>3. h # waiting_for[j]
      BY <3>1
    <3>4. id'[waiting_for[j][1]] = id[waiting_for[j][1]]
      BY <1>3, <3>2, <3>3
    <3> QED
      BY <3>1, <3>4 DEF Kept, StatusKept
  <2>3. \A i, j \in Thread : waiting_for'[i] # NULL /\ waiting_for'[i] = waiting_for'[j] => i = j
    BY <2>1 DEF Kept
  <2> QED
    BY <2>2, <2>3 DEF Kept, StatusKept
<1>4. ASSUME join_return(t, h, wait) PROVE Kept'
  BY <1>3, <1>4 DEF join_return
<1>5. ASSUME join_collect(t, h) PROVE Kept'
  <2>1. /\ h = <<h[1], id[h[1]]>> /\ \A u \in Thread : u # h[1] => id'[u] = id[u]
    BY <1>1, <1>5, CollectJoins
  <2>2. \A u \in Allocated : h # <<u, id[u]>> => id'[u] = id[u]
    BY <1>0, <2>1
  <2> QED
    BY <1>3, <1>5, <2>2 DEF join_collect
<1> QED
  BY <1>2, <1>4, <1>5 DEF sys__wait_for_thread

\* Every step preserves the invariant.
LEMMA NextKept ==
    ASSUME JoinersSpared, "sharedJoin" \notin Uses, IInv, Joins, Kept, [Next]_vars
    PROVE  Kept'
<1>1. ASSUME NEW t \in Thread, NEW h \in handles, NEW wait \in BOOLEAN,
             wait_for_thread(t, h, wait)
      PROVE  Kept'
  <2>1. waiting_for[t] = NULL /\ \A j \in Thread : waiting_for[j] # h
    BY <1>1 DEF wait_for_thread
  <2> QED
    BY <1>1, <2>1, WaitKept DEF wait_for_thread
<1>2. ASSUME NEW t \in Thread, wait_for_thread_retry(t) PROVE Kept'
  <2>1. \A j \in Thread : waiting_for[j] = waiting_for[t] => j = t
    BY <1>2 DEF wait_for_thread_retry, Kept
  <2>2. \A h : h = waiting_for[t] => Kept'
    BY <1>2, <2>1, WaitKept DEF wait_for_thread_retry
  <2> QED
    BY <2>2
<1>3. ~cancel_again
  BY DEF cancel_again, Joins, EndedPassive
<1>4. ASSUME UNCHANGED <<id, waiting_for>> PROVE Kept'
  BY <1>4 DEF Kept, StatusKept
<1>5. ASSUME NEW t \in Thread,
             \/ sys__thread_self(t) \/ release_next \/ release_done
             \/ sys__wait_for_alarm(t) \/ k_timer_interrupt(t) \/ idle_thread \/ UNCHANGED vars
      PROVE  Kept'
  BY <1>4, <1>5 DEF sys__thread_self, release_next, release_done,
     sys__wait_for_alarm, k_timer_interrupt, idle_thread, vars
<1>6. \E t \in Thread : TRUE
  BY KThreadsAssumption
<1> QED
  BY <1>1, <1>2, <1>3, <1>5, <1>6, LifeKept DEF Next

\* When no two threads wait for the same thread and no waiting or waited-for
\* thread is cancelled, a waiter that repeats its call finds the descriptor with
\* the exit status, even though the addresses of others are freed and reused.
THEOREM SpecStatusKept ==
    ASSUME JoinersSpared, "sharedJoin" \notin Uses PROVE Spec => []StatusKept
<1>1. Init => Joins
  BY InitJoins
<1>2. Init => Kept
  BY DEF Init, Kept, StatusKept
<1>3. IInv /\ Joins /\ Kept /\ [Next]_vars => (Joins /\ Kept)'
  BY NextJoins, NextKept
<1>4. Kept => StatusKept
  BY DEF Kept
<1>5. Spec => []IInv
  BY SpecIInv DEF JoinersSpared
<1> QED
  BY <1>1, <1>2, <1>3, <1>4, <1>5, PTL DEF Spec

-----------------------------------------------------------------------------
\* Queues are first in, first out.

\* From s to u a queue only lost threads at its front, or such that are not in
\* D, and only gained threads at its end.
Fifo(s, u, D) ==
    /\ \A i, j \in 1..Len(u) : i < j /\ Stands(s, u[j]) =>
          \E a, b \in 1..Len(s) : a < b /\ s[a] = u[i] /\ s[b] = u[j]
    /\ \A i, j \in 1..Len(s) : i < j /\ ~Stands(u, s[j]) /\ s[j] \in D => ~Stands(u, s[i])

\* A queue no thread is in twice.
Once(s) == s \in Seq(Thread) /\ \A i, j \in 1..Len(s) : s[i] = s[j] => i = j

\* A queue that is left alone.
LEMMA SameFifo == ASSUME NEW s, NEW D PROVE Fifo(s, s, D)
<1>1. \A j \in 1..Len(s) : Stands(s, s[j])
  BY DEF Stands
<1> QED
  BY <1>1 DEF Fifo

\* The first thread leaves.
LEMMA TailFifo ==
    ASSUME NEW s, Once(s), s # <<>>, NEW D PROVE Fifo(s, Tail(s), D)
<1> DEFINE u == Tail(s)
<1>1. /\ s \in Seq(Thread) /\ Len(s) \in Nat /\ Len(s) >= 1 /\ Len(u) = Len(s) - 1
      /\ \A i \in 1..Len(u) : u[i] = s[i + 1]
      /\ \A i, j \in 1..Len(s) : s[i] = s[j] => i = j
  BY TailMember, LenProperties DEF Once
<1> HIDE DEF u
<1>2. \A j \in 1..Len(s) : j > 1 => Stands(u, s[j])
  <2> SUFFICES ASSUME NEW j \in 1..Len(s), j > 1 PROVE Stands(u, s[j])
    OBVIOUS
  <2>1. j - 1 \in 1..Len(u) /\ u[j - 1] = s[(j - 1) + 1] /\ (j - 1) + 1 = j
    BY <1>1
  <2> QED
    BY <2>1 DEF Stands
<1>3. ASSUME NEW i \in 1..Len(u), NEW j \in 1..Len(u), i < j
      PROVE  \E a, b \in 1..Len(s) : a < b /\ s[a] = u[i] /\ s[b] = u[j]
  <2>1. i + 1 \in 1..Len(s) /\ j + 1 \in 1..Len(s) /\ i + 1 < j + 1
    BY <1>1, <1>3
  <2> QED
    BY <1>1, <2>1
<1>4. ASSUME NEW i \in 1..Len(s), NEW j \in 1..Len(s), i < j PROVE Stands(u, s[j])
  BY <1>1, <1>2, <1>4
<1>5. Fifo(s, u, D)
  BY <1>3, <1>4 DEF Fifo
<1> QED
  BY <1>5 DEF u

\* A thread that is not in the queue joins it at the end.
LEMMA AppendFifo ==
    ASSUME NEW s \in Seq(Thread), NEW t \in Thread, ~Stands(s, t), NEW D
    PROVE  Fifo(s, Append(s, t), D)
<1> DEFINE u == Append(s, t)
<1>1. /\ Len(s) \in Nat /\ Len(u) = Len(s) + 1 /\ u[Len(s) + 1] = t
      /\ \A i \in 1..Len(s) : u[i] = s[i]
  BY AppendMember, LenProperties
<1> HIDE DEF u
<1>2. \A j \in 1..Len(s) : Stands(u, s[j])
  BY <1>1 DEF Stands
<1>3. ASSUME NEW i \in 1..Len(u), NEW j \in 1..Len(u), i < j, Stands(s, u[j])
      PROVE  \E a, b \in 1..Len(s) : a < b /\ s[a] = u[i] /\ s[b] = u[j]
  <2>1. j # Len(s) + 1
    BY <1>1, <1>3
  <2>2. i \in 1..Len(s) /\ j \in 1..Len(s)
    BY <1>1, <1>3, <2>1
  <2> QED
    BY <1>1, <1>3, <2>2
<1>5. Fifo(s, u, D)
  BY <1>2, <1>3 DEF Fifo
<1> QED
  BY <1>5 DEF u

\* A thread that ends is taken out of the middle of the queue.
LEMMA RemoveFifo ==
    ASSUME NEW s, Once(s), NEW m \in 1..Len(s), NEW D, s[m] \notin D
    PROVE  Fifo(s, RemoveFirst(s, s[m]), D)
<1> DEFINE u == RemoveFirst(s, s[m])
<1>1. /\ s \in Seq(Thread) /\ Len(s) \in Nat /\ Len(u) = Len(s) - 1
      /\ \A i \in 1..Len(s) - 1 : u[i] = IF i < m THEN s[i] ELSE s[i + 1]
  BY RemoveFirstMember, LenProperties DEF Once
<1> HIDE DEF u
<1>2. ASSUME NEW j \in 1..Len(s), j # m PROVE Stands(u, s[j])
  <2>1. CASE j < m
    <3>1. j \in 1..Len(s) - 1 /\ u[j] = s[j]
      BY <1>1, <2>1
    <3> QED
      BY <1>1, <3>1 DEF Stands
  <2>2. CASE j > m
    <3>1. j - 1 \in 1..Len(s) - 1 /\ ~(j - 1 < m) /\ (j - 1) + 1 = j
      BY <1>1, <2>2
    <3>2. u[j - 1] = s[j]
      BY <1>1, <3>1
    <3> QED
      BY <1>1, <3>1, <3>2 DEF Stands
  <2> QED
    BY <1>2, <2>1, <2>2
<1>3. ASSUME NEW i \in 1..Len(u), NEW j \in 1..Len(u), i < j
      PROVE  \E a, b \in 1..Len(s) : a < b /\ s[a] = u[i] /\ s[b] = u[j]
  <2>0. i \in 1..Len(s) - 1 /\ j \in 1..Len(s) - 1
    BY <1>1
  <2> DEFINE a == IF i < m THEN i ELSE i + 1
             b == IF j < m THEN j ELSE j + 1
  <2>1. a \in 1..Len(s) /\ b \in 1..Len(s) /\ a < b
    BY <1>1, <1>3, <2>0
  <2>2. u[i] = s[a] /\ u[j] = s[b]
    BY <1>1, <2>0
  <2> QED
    BY <2>1, <2>2
<1>4. ASSUME NEW i \in 1..Len(s), NEW j \in 1..Len(s), ~Stands(u, s[j]), s[j] \in D
      PROVE  FALSE
  BY <1>2, <1>4
<1>5. Fifo(s, u, D)
  BY <1>3, <1>4 DEF Fifo
<1> QED
  BY <1>5 DEF u

\* Two steps in a row, if nobody who was in the queue leaves and comes back.
LEMMA FifoTwice ==
    ASSUME NEW s, Once(s), NEW u, NEW v, NEW D, Fifo(s, u, D), Fifo(u, v, D),
           \A y : Stands(v, y) /\ Stands(s, y) => Stands(u, y), Len(u) \in Nat
    PROVE  Fifo(s, v, D)
<1>0. Len(s) \in Nat /\ \A i, j \in 1..Len(s) : s[i] = s[j] => i = j
  BY LenProperties DEF Once
<1>1. ASSUME NEW i \in 1..Len(v), NEW j \in 1..Len(v), i < j, Stands(s, v[j])
      PROVE  \E a, b \in 1..Len(s) : a < b /\ s[a] = v[i] /\ s[b] = v[j]
  <2>1. Stands(v, v[j])
    BY DEF Stands
  <2>2. Stands(u, v[j])
    BY <1>1, <2>1
  <2>3. PICK a, b \in 1..Len(u) : a < b /\ u[a] = v[i] /\ u[b] = v[j]
    BY <1>1, <2>2 DEF Fifo
  <2>4. Stands(s, u[b])
    BY <1>1, <2>3
  <2>5. \E c, d \in 1..Len(s) : c < d /\ s[c] = u[a] /\ s[d] = u[b]
    BY <2>3, <2>4 DEF Fifo
  <2> QED
    BY <2>3, <2>5
<1>2. ASSUME NEW i \in 1..Len(s), NEW j \in 1..Len(s), i < j, ~Stands(v, s[j]), s[j] \in D,
             Stands(v, s[i])
      PROVE  FALSE
  <2>1. Stands(s, s[i]) /\ Stands(s, s[j])
    BY DEF Stands
  <2>2. Stands(u, s[i])
    BY <1>2, <2>1
  <2>3. Stands(u, s[j])
    BY <1>2, <2>2 DEF Fifo
  <2>4. PICK a \in 1..Len(u) : u[a] = s[i]
    BY <2>2 DEF Stands
  <2>5. PICK b \in 1..Len(u) : u[b] = s[j]
    BY <2>3 DEF Stands
  <2>6. CASE a < b
    <3>1. ~Stands(v, u[b]) /\ u[b] \in D /\ Stands(v, u[a])
      BY <1>2, <2>4, <2>5
    <3> QED
      BY <2>6, <3>1 DEF Fifo
  <2>7. CASE b < a
    <3>1. Stands(s, u[a])
      BY <2>1, <2>4
    <3>2. PICK c, d \in 1..Len(s) : c < d /\ s[c] = u[b] /\ s[d] = u[a]
      BY <2>7, <3>1 DEF Fifo
    <3>3. c = j /\ d = i
      BY <1>0, <2>4, <2>5, <3>2
    <3> QED
      BY <1>0, <1>2, <3>2, <3>3
  <2>8. a # b
    BY <1>0, <1>2, <2>4, <2>5
  <2> QED
    BY <2>6, <2>7, <2>8
<1> QED
  BY <1>1, <1>2 DEF Fifo

\* A consistent queue holds live threads, none of them active, each once.
LEMMA QueueOnce ==
    ASSUME NEW c, NEW L, Linked(c, L), NEW x \in Queue
    PROVE  /\ Once(c.q[x]) /\ Len(c.q[x]) \in Nat
           /\ \A u : Stands(c.q[x], u) => u \in L /\ c.state[u] # "ACTIVE"
<1>1. c.q[x] \in Seq(Thread)
  BY DEF Linked, KState
<1>2. \A i, j \in 1..Len(c.q[x]) : c.q[x][i] = c.q[x][j] => i = j
  BY DEF Linked, LinkedOnce
<1>3. \A i \in 1..Len(c.q[x]) : c.q[x][i] \in L /\ c.state[c.q[x][i]] # "ACTIVE"
  BY DEF Linked, LinkedOnce
<1> QED
  BY <1>1, <1>2, <1>3, LenProperties DEF Once, Stands

\* kthread_move_to_ready appends a floating thread to its ready queue.
LEMMA MoveToReadyFifo ==
    ASSUME NEW c, NEW L, Linked(c, L), NEW t \in Thread \ L, NEW D, NEW x \in Queue
    PROVE  LET n == kthread_move_to_ready(c, t) IN
           /\ Fifo(c.q[x], n.q[x], D)
           /\ \A u : Stands(n.q[x], u) => u = t \/ Stands(c.q[x], u)
           /\ \A u : Stands(c.q[x], u) => Stands(n.q[x], u)
<1> DEFINE n == kthread_move_to_ready(c, t)
           r == ReadyQ(c.prio[t])
<1>1. c \in KState /\ r \in Queue /\ c.q \in [Queue -> Seq(Thread)]
  BY QueueNames DEF Linked, KState
<1>2. n.q = [c.q EXCEPT ![r] = Append(c.q[r], t)]
  BY <1>1 DEF kthread_move_to_ready, KState
<1> HIDE DEF n, r
<1>3. CASE x = r
  <2>1. n.q[x] = Append(c.q[x], t) /\ c.q[x] \in Seq(Thread)
    BY <1>1, <1>2, <1>3
  <2>2. ~Stands(c.q[x], t)
    BY QueueOnce
  <2>3. Fifo(c.q[x], n.q[x], D)
    BY <2>1, <2>2, AppendFifo
  <2>4. \A u : Stands(n.q[x], u) <=> u = t \/ Stands(c.q[x], u)
    BY <2>1, AppendStands
  <2> QED
    BY <2>3, <2>4 DEF n
<1>4. CASE x # r
  <2>1. n.q[x] = c.q[x]
    BY <1>1, <1>2, <1>4
  <2> QED
    BY <2>1, SameFifo DEF n
<1> QED
  BY <1>3, <1>4

\* kthread_enqueue appends a floating thread to a queue.
LEMMA EnqueueFifo ==
    ASSUME NEW c, NEW L, Linked(c, L), NEW t \in Thread \ L, NEW D, NEW x \in Queue,
           NEW w \in WaitQ
    PROVE  LET n == kthread_enqueue(c, t, w) IN
           /\ Fifo(c.q[x], n.q[x], D)
           /\ \A u : Stands(c.q[x], u) => Stands(n.q[x], u)
<1> DEFINE n == kthread_enqueue(c, t, w)
<1>1. c \in KState /\ w \in Queue /\ c.q \in [Queue -> Seq(Thread)]
  BY QueueNames DEF Linked, KState
<1>2. n.q = [c.q EXCEPT ![w] = Append(c.q[w], t)]
  BY <1>1 DEF kthread_enqueue, KState
<1> HIDE DEF n
<1>3. CASE x = w
  <2>1. n.q[x] = Append(c.q[x], t) /\ c.q[x] \in Seq(Thread)
    BY <1>1, <1>2, <1>3
  <2>2. ~Stands(c.q[x], t)
    BY QueueOnce
  <2>3. Fifo(c.q[x], n.q[x], D)
    BY <2>1, <2>2, AppendFifo
  <2>4. \A u : Stands(n.q[x], u) <=> u = t \/ Stands(c.q[x], u)
    BY <2>1, AppendStands
  <2> QED
    BY <2>3, <2>4 DEF n
<1>4. CASE x # w
  <2>1. n.q[x] = c.q[x]
    BY <1>1, <1>2, <1>4
  <2> QED
    BY <2>1, SameFifo DEF n
<1> QED
  BY <1>3, <1>4

\* The head of a queue is taken out, and nothing else changes.
LEMMA HeadLeaves ==
    ASSUME NEW c, NEW L, Linked(c, L), NEW r \in Queue, c.q[r] # <<>>, NEW D, NEW x \in Queue,
           NEW g, g = [c.q EXCEPT ![r] = Tail(c.q[r])]
    PROVE  /\ Fifo(c.q[x], g[x], D)
           /\ \A u : Stands(g[x], u) => Stands(c.q[x], u)
<1>1. c.q \in [Queue -> Seq(Thread)] /\ Once(c.q[r])
  BY QueueOnce DEF Linked, KState
<1>2. CASE x = r
  <2>1. g[x] = Tail(c.q[x])
    BY <1>1, <1>2
  <2>2. \A u : Stands(Tail(c.q[x]), u) => Stands(c.q[x], u)
    BY <1>1, <1>2, TailStands DEF Once
  <2> QED
    BY <1>1, <1>2, <2>1, <2>2, TailFifo
<1>3. CASE x # r
  <2>1. g[x] = c.q[x]
    BY <1>1, <1>3
  <2> QED
    BY <2>1, SameFifo
<1> QED
  BY <1>2, <1>3

\* activate_first takes the head of a ready queue.
LEMMA ActivateFifo ==
    ASSUME NEW c, NEW L, Linked(c, L), NEW p \in Prio, c.q[ReadyQ(p)] # <<>>,
           NEW D, NEW x \in Queue
    PROVE  LET n == activate_first(c, p) IN
           /\ Fifo(c.q[x], n.q[x], D)
           /\ \A u : Stands(n.q[x], u) => Stands(c.q[x], u)
<1> DEFINE n == activate_first(c, p)
           r == ReadyQ(p)
           b == [c EXCEPT !.q[r] = Tail(c.q[r])]
           d == clear_if_empty(b, p)
           t == Head(c.q[r])
<1>1. /\ c \in KState /\ r \in Queue /\ c.q \in [Queue -> Seq(Thread)] /\ c.q[r] \in Seq(Thread)
      /\ c.mask \subseteq Prio
  BY QueueNames DEF Linked, KState
<1>2. t \in Thread /\ Tail(c.q[r]) \in Seq(Thread)
  BY <1>1, TailMember
<1>3. b \in KState /\ b.q = [c.q EXCEPT ![r] = Tail(c.q[r])] /\ b.mask \subseteq Prio
  BY <1>1, <1>2 DEF KState
<1>4. n = [d EXCEPT !.active = t, !.state[t] = "ACTIVE", !.queue[t] = NULL]
  BY <1>1 DEF activate_first
<1> HIDE DEF b, n, t
<1>5. d \in KState /\ d.q = b.q
  BY <1>3 DEF clear_if_empty, KState
<1> HIDE DEF d
<1>6. n.q = [c.q EXCEPT ![r] = Tail(c.q[r])]
  BY <1>2, <1>3, <1>4, <1>5, ActivateFields
<1> HIDE DEF r
<1>7. c.q[r] # <<>>
  BY DEF r
<1>8. /\ Fifo(c.q[x], n.q[x], D)
      /\ \A u : Stands(n.q[x], u) => Stands(c.q[x], u)
  BY <1>1, <1>6, <1>7, HeadLeaves
<1> QED
  BY <1>8 DEF n

\* kthreads_schedule appends at most the preempted thread to its ready queue and
\* takes the head of another.
LEMMA ScheduleFifo ==
    ASSUME NEW c, NEW L, Linked(c, L), schedulable(c),
           c.state[c.active] = "ACTIVE" => c.active \in L, NEW D, NEW x \in Queue
    PROVE  LET n == kthreads_schedule(c) IN
           /\ Fifo(c.q[x], n.q[x], D)
           /\ \A u : Stands(n.q[x], u) =>
                 \/ Stands(c.q[x], u)
                 \/ u = c.active /\ c.state[u] = "ACTIVE"
<1> DEFINE h == kthread_ready_list_highest(c)
           a == c.active
           n == kthreads_schedule(c)
           m == IF c.state[a] = "ACTIVE" THEN kthread_move_to_ready(c, a) ELSE c
<1>0. /\ c \in KState /\ a \in Thread /\ c.prio[a] \in Prio /\ c.mask \subseteq Prio
      /\ Prio \subseteq Nat /\ L \subseteq Thread
  BY KThreadsAssumption DEF Linked, KState, Prio
<1>1. \/ c.mask = {} /\ h = -1
      \/ c.mask # {} /\ h \in c.mask
  BY <1>0, HighestExists DEF kthread_ready_list_highest
<1>2. \/ n = c
      \/ n = activate_first(m, h) /\ ~(c.state[a] = "ACTIVE" /\ ~(h > c.prio[a]))
  BY DEF kthreads_schedule
<1>3. c.state[a] = "ACTIVE" \/ h >= 0
  BY DEF schedulable
<1>4. c.state[a] = "ACTIVE" => a \in L
  OBVIOUS
<1> HIDE DEF a, h
<1>5. /\ Linked(m, L) /\ c.mask \subseteq m.mask
      /\ Fifo(c.q[x], m.q[x], D)
      /\ \A u : Stands(m.q[x], u) => (u = a /\ c.state[u] = "ACTIVE") \/ Stands(c.q[x], u)
  <2>1. CASE c.state[a] = "ACTIVE"
    <3> DEFINE F == L \ {a}
               d == kthread_move_to_ready(c, a)
    <3>1. Linked(c, F) /\ a \in Thread \ F /\ F \cup {a} = L
      BY <1>0, <1>4, <2>1, ActiveFloats
    <3> HIDE DEF F
    <3>5. Linked(d, F \cup {a})
      BY <3>1, MoveToReadyLinks
    <3>6. d.mask = c.mask \cup {c.prio[a]}
      BY <1>0 DEF kthread_move_to_ready, KState
    <3>2. Linked(d, L) /\ c.mask \subseteq d.mask
      BY <3>1, <3>5, <3>6
    <3>3. /\ Fifo(c.q[x], d.q[x], D)
          /\ \A u : Stands(d.q[x], u) => u = a \/ Stands(c.q[x], u)
      BY <3>1, MoveToReadyFifo
    <3>4. m = d
      BY <2>1
    <3> HIDE DEF d, m
    <3> QED
      BY <2>1, <3>2, <3>3, <3>4
  <2>2. CASE c.state[a] # "ACTIVE"
    BY <2>2, SameFifo
  <2> QED
    BY <2>1, <2>2
<1> HIDE DEF m
<1>6. CASE n = c
  <2>1. Fifo(c.q[x], c.q[x], D)
    BY SameFifo
  <2> QED
    BY <1>6, <2>1
<1>7. CASE n = activate_first(m, h) /\ ~(c.state[a] = "ACTIVE" /\ ~(h > c.prio[a]))
  <2>1. h \in c.mask
    <3>1. c.prio[a] \in Nat
      BY <1>0
    <3>2. h >= 0 \/ h > c.prio[a]
      BY <1>3, <1>7
    <3>3. ~(h = -1)
      BY <3>1, <3>2
    <3> QED
      BY <1>1, <3>3
  <2>2. h \in Prio /\ m.q[ReadyQ(h)] # <<>>
    BY <1>0, <1>5, <2>1 DEF Linked, MaskExact
  <2> DEFINE d == activate_first(m, h)
  <2>7. Fifo(m.q[x], d.q[x], D) /\ \A u : Stands(d.q[x], u) => Stands(m.q[x], u)
    <3>1. Linked(m, L)
      BY <1>5
    <3> QED
      BY <2>2, <3>1, ActivateFifo
  <2> HIDE DEF n, d
  <2>8. n = d
    BY <1>7 DEF d
  <2>3. Fifo(m.q[x], n.q[x], D) /\ \A u : Stands(n.q[x], u) => Stands(m.q[x], u)
    BY <2>7, <2>8
  <2>4. Once(c.q[x]) /\ Len(m.q[x]) \in Nat
    BY <1>5, QueueOnce
  <2>5. Fifo(c.q[x], n.q[x], D)
    BY <1>5, <2>3, <2>4, FifoTwice
  <2>6. \A u : Stands(n.q[x], u) => (u = a /\ c.state[u] = "ACTIVE") \/ Stands(c.q[x], u)
    BY <1>5, <2>3
  <2> QED
    BY <2>5, <2>6 DEF n, a
<1> QED
  BY <1>2, <1>6, <1>7

\* A call that ends in kthreads_schedule: whoever schedule puts into a ready
\* queue was active, and so in no queue, before the call.
LEMMA ThenScheduleFifo ==
    ASSUME NEW c, NEW L, Linked(c, L), NEW m, NEW M, Linked(m, M),
           Idle \in M, m.state[Idle] \in {"ACTIVE", "READY"},
           m.state[m.active] = "ACTIVE" => m.active \in M /\ c.state[m.active] = "ACTIVE",
           NEW D, NEW x \in Queue, Fifo(c.q[x], m.q[x], D)
    PROVE  Fifo(c.q[x], kthreads_schedule(m).q[x], D)
<1> DEFINE n == kthreads_schedule(m)
<1>1. schedulable(m)
  BY IdleSchedulable
<1>2. /\ Fifo(m.q[x], n.q[x], D)
      /\ \A u : Stands(n.q[x], u) => Stands(m.q[x], u) \/ (u = m.active /\ m.state[u] = "ACTIVE")
  BY <1>1, ScheduleFifo
<1> HIDE DEF n
<1>3. /\ Once(c.q[x]) /\ Len(m.q[x]) \in Nat
      /\ \A u : Stands(c.q[x], u) => c.state[u] # "ACTIVE"
  BY QueueOnce
<1>4. \A u : Stands(n.q[x], u) /\ Stands(c.q[x], u) => Stands(m.q[x], u)
  BY <1>2, <1>3
<1>5. Fifo(c.q[x], n.q[x], D)
  BY <1>2, <1>3, <1>4, FifoTwice
<1> QED
  BY <1>5 DEF n

\* kthreadq_release moves the head of one queue to the end of another.
LEMMA ReleaseFifo ==
    ASSUME NEW c, NEW L, Linked(c, L), NEW w \in WaitQ, NEW D, NEW x \in Queue
    PROVE  Fifo(c.q[x], kthreadq_release(c, w).q[x], D)
<1> DEFINE n == kthreadq_release(c, w)
           h == Head(c.q[w])
           r == ReadyQ(c.prio[h])
           g == [c.q EXCEPT ![w] = Tail(c.q[w])]
<1>1. /\ c \in KState /\ w \in Queue /\ c.q[w] \in Seq(Thread) /\ c.q \in [Queue -> Seq(Thread)]
      /\ c.prio \in [Thread -> Prio] /\ w \notin ReadyQs /\ c.q[x] \in Seq(Thread)
  BY QueueNames DEF Linked, KState
<1>2. CASE c.q[w] = <<>>
  BY <1>2, SameFifo DEF kthreadq_release
<1>3. CASE c.q[w] # <<>>
  <2>1. h \in Thread /\ h = c.q[w][1] /\ 1 \in 1..Len(c.q[w])
    BY <1>1, <1>3, TailMember
  <2>2. r \in Queue /\ r \in ReadyQs /\ r # w
    BY <1>1, <2>1, QueueNames
  <2>3. c.queue[h] = w
    BY <1>1, <2>1 DEF Linked, LinkedOnce
  <2>4. n.q = [g EXCEPT ![r] = Append(@, h)]
    BY <1>1, <1>3 DEF kthreadq_release, kthread_move_to_ready, KState
  <2> HIDE DEF n, r, h
  <2>5. CASE x = r
    <3>1. n.q[x] = Append(c.q[x], h)
      BY <1>1, <2>2, <2>4, <2>5
    <3>2. ~Stands(c.q[x], h)
      BY <2>2, <2>3, <2>5 DEF Linked, LinkedOnce, Stands
    <3> QED
      BY <1>1, <2>1, <3>1, <3>2, AppendFifo DEF n
  <2>6. CASE x # r
    <3>1. n.q[x] = g[x]
      BY <1>1, <2>2, <2>4, <2>6
    <3> HIDE DEF g
    <3>2. g = [c.q EXCEPT ![w] = Tail(c.q[w])]
      BY DEF g
    <3>3. Fifo(c.q[x], g[x], D)
      BY <1>1, <1>3, <3>2, HeadLeaves
    <3> QED
      BY <3>1, <3>3 DEF n
  <2> QED
    BY <2>5, <2>6
<1> QED
  BY <1>2, <1>3

\* kthread_unlink takes a thread that ends out of its queue.
LEMMA UnlinkFifo ==
    ASSUME NEW c, NEW L, Linked(c, L), NEW t \in L, NEW D, t \notin D, NEW x \in Queue
    PROVE  Fifo(c.q[x], kthread_unlink(c, t).q[x], D)
<1> DEFINE n == kthread_unlink(c, t)
           w == c.queue[t]
<1>1. c \in KState /\ c.q \in [Queue -> Seq(Thread)] /\ t \in Thread
  BY DEF Linked, KState
<1>2. CASE c.state[t] \in {"READY", "WAIT"}
  <2>1. w \in Queue /\ \E i \in 1..Len(c.q[w]) : c.q[w][i] = t
    BY <1>2, QueuedAt
  <2>2. PICK i \in 1..Len(c.q[w]) : c.q[w][i] = t
    BY <2>1
  <2>3. n.q = [c.q EXCEPT ![w] = RemoveFirst(c.q[w], t)]
    <3> DEFINE m == kthreadq_remove(c, t)
    <3>1. m.q = [c.q EXCEPT ![w] = RemoveFirst(c.q[w], t)]
      BY <1>1 DEF kthreadq_remove, KState
    <3>2. \A p : clear_if_empty(m, p).q = m.q
      BY <1>1 DEF clear_if_empty, kthreadq_remove, KState
    <3>3. n = m \/ n = clear_if_empty(m, c.prio[t])
      BY <1>2 DEF kthread_unlink
    <3> HIDE DEF m, n
    <3> QED
      BY <3>1, <3>2, <3>3
  <2> HIDE DEF n
  <2>4. CASE x = w
    <3>1. n.q[x] = RemoveFirst(c.q[x], c.q[x][i]) /\ c.q[x][i] = t
      BY <1>1, <2>2, <2>3, <2>4
    <3>2. Once(c.q[x])
      BY QueueOnce
    <3> QED
      BY <2>2, <2>4, <3>1, <3>2, RemoveFifo DEF n
  <2>5. CASE x # w
    <3>1. n.q[x] = c.q[x]
      BY <1>1, <2>3, <2>5
    <3> QED
      BY <3>1, SameFifo DEF n
  <2> QED
    BY <2>4, <2>5
<1>3. CASE c.state[t] \notin {"READY", "WAIT"}
  <2>1. n.q = c.q
    BY <1>1, <1>3 DEF kthread_unlink, KState
  <2> QED
    BY <2>1, SameFifo
<1> QED
  BY <1>2, <1>3

\* Every queue of the kernel is first in, first out in this step.
FifoStep == \A x \in Queue : Fifo(k.q[x], k'.q[x], Live')

\* A step that leaves the scheduling state alone.
LEMMA QuietFifo == ASSUME k' = k PROVE FifoStep
  BY SameFifo DEF FifoStep

\* A new thread linked ready, before the next one is chosen.
LEMMA CreatedLinks ==
    ASSUME IInv, releasing = NULL, NEW s \in Thread, id[s] = 0, NEW p \in PrioArgs
    PROVE  LET r == kthread_move_to_ready([k EXCEPT !.prio[s] = clamp_prio(p)], s) IN
           /\ \E M : /\ Linked(r, M) /\ Idle \in M
                     /\ r.state[r.active] = "ACTIVE" =>
                           r.active \in M /\ k.state[r.active] = "ACTIVE"
           /\ r.state[Idle] \in {"ACTIVE", "READY"}
           /\ \A D : \A x \in Queue : Fifo(k.q[x], r.q[x], D)
<1> DEFINE m == [k EXCEPT !.prio[s] = clamp_prio(p)]
           r == kthread_move_to_ready(m, s)
<1>0. /\ Linked(k, Live) /\ Idle \in Live /\ k.state[Idle] \in {"ACTIVE", "READY"}
      /\ k.active \in Live /\ Live \subseteq Thread /\ k.state \in [Thread -> ThreadState]
  BY DEF IInv, TypeOK, Live, Allocated, KState
<1>1. s \in Thread \ Live /\ s # Idle /\ s # k.active
  BY <1>0 DEF Live, Allocated
<1>2. Linked(m, Live) /\ m.state = k.state /\ m.active = k.active /\ m.q = k.q
  BY <1>0, <1>1, SetPrioFloats, ClampPrio, ThreadsAssumption
<1>3. Linked(m, Live) /\ s \in Thread \ Live
  BY <1>1, <1>2
<1> HIDE DEF m
<1>4. /\ Linked(r, Live \cup {s}) /\ r.state = [m.state EXCEPT ![s] = "READY"]
      /\ r.active = m.active
  BY <1>3, MoveToReadyLinks
<1>5. \A D : \A x \in Queue : Fifo(m.q[x], r.q[x], D)
  BY <1>3, MoveToReadyFifo
<1> HIDE DEF r
<1>6. /\ r.state[Idle] = k.state[Idle] /\ r.active = k.active
      /\ r.state[r.active] = k.state[k.active]
  BY <1>0, <1>1, <1>2, <1>4, KThreadsAssumption
<1> DEFINE M == Live \cup {s}
<1>7. /\ Linked(r, M) /\ Idle \in M
      /\ r.state[r.active] = "ACTIVE" => r.active \in M /\ k.state[r.active] = "ACTIVE"
  BY <1>0, <1>4, <1>6
<1>8. /\ r.state[Idle] \in {"ACTIVE", "READY"}
      /\ \A D : \A x \in Queue : Fifo(k.q[x], r.q[x], D)
  BY <1>0, <1>2, <1>5, <1>6
<1> HIDE DEF M
<1> QED
  BY <1>7, <1>8 DEF r, m

\* A new thread goes to the end of its ready queue.
LEMMA CreateFifo ==
    ASSUME IInv, NEW t \in Thread, NEW s \in Thread, NEW p \in PrioArgs,
           NEW keep \in BOOLEAN, sys__create_thread(t, s, p, keep)
    PROVE  FifoStep
<1> SUFFICES ASSUME NEW x \in Queue PROVE Fifo(k.q[x], k'.q[x], Live')
  BY DEF FifoStep
<1> DEFINE r == kthread_move_to_ready([k EXCEPT !.prio[s] = clamp_prio(p)], s)
<1>1. releasing = NULL /\ id[s] = 0 /\ k' = kthreads_schedule(r)
  BY DEF sys__create_thread, kthread_create, Running, InUser
<1>2. /\ \E M : /\ Linked(r, M) /\ Idle \in M
                /\ r.state[r.active] = "ACTIVE" =>
                      r.active \in M /\ k.state[r.active] = "ACTIVE"
      /\ r.state[Idle] \in {"ACTIVE", "READY"}
      /\ Fifo(k.q[x], r.q[x], Live')
  BY <1>1, CreatedLinks
<1> HIDE DEF r
<1>3. PICK M : /\ Linked(r, M) /\ Idle \in M
               /\ r.state[r.active] = "ACTIVE" =>
                      r.active \in M /\ k.state[r.active] = "ACTIVE"
  BY <1>2
<1>4. Linked(k, Live)
  BY DEF IInv
<1> QED
  BY <1>1, <1>2, <1>3, <1>4, ThenScheduleFifo

\* A thread that ends leaves its queue wherever it stands.
LEMMA EndFifo ==
    ASSUME IInv, NEW s \in Live, s # Idle, releasing = NULL, s \notin Live',
           \/ k' = kthreads_schedule(kthread_unlink(k, s))
           \/ k' = kthread_unlink(k, s)
    PROVE  FifoStep
<1> SUFFICES ASSUME NEW x \in Queue PROVE Fifo(k.q[x], k'.q[x], Live')
  BY DEF FifoStep
<1> DEFINE m == kthread_unlink(k, s)
           M == Live \ {s}
<1>0. Linked(k, Live) /\ k.active \in Thread /\ Live \subseteq Thread
  BY DEF IInv, TypeOK, KState, Live, Allocated
<1>1. /\ Linked(m, M) /\ Idle \in M /\ m.state[Idle] \in {"ACTIVE", "READY"}
      /\ m.state[m.active] = "ACTIVE" => m.active \in M
      /\ \A u \in Thread : u # s => m.state[u] = k.state[u]
  BY EndLinks
<1>2. Fifo(k.q[x], m.q[x], Live')
  BY <1>0, UnlinkFifo
<1>3. k' = kthreads_schedule(m) \/ k' = m
  OBVIOUS
<1>4. \A u \in M : u \in Thread /\ u # s
  BY <1>0
<1> HIDE DEF m, M
<1>5. m.state[m.active] = "ACTIVE" => m.active \in M /\ k.state[m.active] = "ACTIVE"
  BY <1>1, <1>4
<1>6. CASE k' = kthreads_schedule(m)
  BY <1>0, <1>1, <1>2, <1>5, <1>6, ThenScheduleFifo
<1>7. CASE k' = m
  BY <1>2, <1>7
<1> QED
  BY <1>3, <1>6, <1>7

\* After the step a freed or ended descriptor is not live.
LEMMA EndedNotLive ==
    ASSUME IInv, NEW s \in Thread,
           \/ id' = [id EXCEPT ![s] = 0]
           \/ ended' = ended \cup {s}
    PROVE  s \notin Live'
<1>1. id \in [Thread -> 0..MaxId]
  BY DEF IInv, TypeOK
<1> QED
  BY <1>1 DEF Live, Allocated

\* A thread that exits is in no queue.
LEMMA ExitFifo == ASSUME IInv, NEW t \in Thread, sys__thread_exit(t) PROVE FifoStep
<1>1. t \in Live /\ t # Idle /\ releasing = NULL
  BY DEF sys__thread_exit, Running, InUser, IInv
<1>2. /\ id' = [id EXCEPT ![t] = 0] \/ ended' = ended \cup {t}
      /\ \/ k' = kthreads_schedule(kthread_unlink(k, t))
         \/ k' = kthread_unlink(k, t)
  BY DEF sys__thread_exit, kthread_cancel
<1> QED
  BY <1>1, <1>2, EndedNotLive, EndFifo

\* A cancelled thread is the one that may leave from the middle.
LEMMA CancelFifo ==
    ASSUME IInv, CarefulCancels, NEW t \in Thread, NEW h \in handles, sys__cancel_thread(t, h)
    PROVE  FifoStep
<1> DEFINE s == h[1]
<1>1. s \in Live /\ s # Idle /\ releasing = NULL /\ s \in Thread /\ s \notin ended
  <2>1. h \in UserHandle /\ releasing = NULL /\ id[s] = h[2] /\ s \notin ended
    BY DEF sys__cancel_thread, cancel_ended, CarefulCancels, Running, InUser, IInv
  <2> QED
    BY <2>1 DEF UserHandle, Live, Allocated
<1>2. /\ id' = [id EXCEPT ![s] = 0] \/ ended' = ended \cup {s}
      /\ \/ k' = kthreads_schedule(kthread_unlink(k, s))
         \/ k' = kthread_unlink(k, s)
  BY <1>1 DEF sys__cancel_thread, cancel_unjoined, cancel_joined, kthread_cancel
<1> HIDE DEF s
<1> QED
  BY <1>1, <1>2, EndedNotLive, EndFifo

\* The second kthread_cancel cuts nobody off a queue.
LEMMA CancelAgainFifo == ASSUME IInv, cancel_again PROVE FifoStep
<1>1. again[2] = NULL
  BY DEF IInv, AgainOK, cancel_again
<1>2. k' = k
  BY <1>1 DEF cancel_again, relink
<1> QED
  BY <1>2, QuietFifo

\* The release loop takes the waiting threads in their order.
LEMMA ReleaseNextFifo == ASSUME IInv, release_next PROVE FifoStep
<1>1. /\ k' = kthreadq_release(k, JoinQ(releasing)) /\ JoinQ(releasing) \in WaitQ
      /\ Linked(k, Live)
  BY ThreadsAssumption DEF release_next, IInv, TypeOK
<1> QED
  BY <1>1, ReleaseFifo DEF FifoStep

\* The end of the release loop, where the next thread is chosen.
LEMMA ReleaseDoneFifo == ASSUME IInv, release_done PROVE FifoStep
<1> SUFFICES ASSUME NEW x \in Queue PROVE Fifo(k.q[x], k'.q[x], Live')
  BY DEF FifoStep
<1>1. /\ k' = kthreads_schedule(k) /\ Linked(k, Live) /\ Idle \in Live
      /\ k.state[Idle] \in {"ACTIVE", "READY"}
      /\ k.state[k.active] = "ACTIVE" => k.active \in Live
  BY DEF IInv, release_done
<1>2. Fifo(k.q[x], k.q[x], Live')
  BY SameFifo
<1> QED
  BY <1>1, <1>2, ThenScheduleFifo

\* The running thread blocked in queue w, before the next one is chosen.
LEMMA BlockedLinks ==
    ASSUME IInv, NEW t \in Thread, Running(t), NEW w \in WaitQ
    PROVE  LET m == kthread_enqueue(k, t, w) IN
           /\ Linked(m, Live) /\ m.state[Idle] \in {"ACTIVE", "READY"}
           /\ m.state[m.active] # "ACTIVE"
           /\ \A D : \A x \in Queue : Fifo(k.q[x], m.q[x], D)
<1> DEFINE F == Live \ {t}
           m == kthread_enqueue(k, t, w)
<1>0. /\ Linked(k, Live) /\ Idle \in Live /\ k.state[Idle] \in {"ACTIVE", "READY"}
      /\ k.active \in Live /\ k.active = t /\ t # Idle /\ k.state[t] = "ACTIVE"
      /\ k \in KState
  BY DEF IInv, TypeOK, Running, InUser, HighestRuns
<1>1. Linked(k, F)
  BY <1>0, ActiveFloats
<1>2. t \in Thread \ F /\ F \cup {t} = Live
  BY <1>0
<1> HIDE DEF F
<1>3. /\ Linked(m, F \cup {t}) /\ m.state = [k.state EXCEPT ![t] = "WAIT"]
      /\ m.active = k.active
  BY <1>1, <1>2, EnqueueLinks
<1>4. \A D : \A x \in Queue : Fifo(k.q[x], m.q[x], D)
  BY <1>1, <1>2, EnqueueFifo
<1> HIDE DEF m
<1>5. /\ Linked(m, Live) /\ m.state[Idle] \in {"ACTIVE", "READY"}
      /\ m.state[m.active] # "ACTIVE"
  BY <1>0, <1>2, <1>3, KThreadsAssumption DEF KState
<1> QED
  BY <1>4, <1>5 DEF m

\* A thread that blocks goes to the end of its queue.
LEMMA BlockFifo ==
    ASSUME IInv, NEW t \in Thread, Running(t), NEW w \in WaitQ,
           k' = kthreads_schedule(kthread_enqueue(k, t, w))
    PROVE  FifoStep
<1> SUFFICES ASSUME NEW x \in Queue PROVE Fifo(k.q[x], k'.q[x], Live')
  BY DEF FifoStep
<1> DEFINE m == kthread_enqueue(k, t, w)
<1>1. Linked(k, Live) /\ Idle \in Live /\ k' = kthreads_schedule(m)
  BY DEF IInv
<1>2. /\ Linked(m, Live) /\ m.state[Idle] \in {"ACTIVE", "READY"}
      /\ m.state[m.active] # "ACTIVE"
      /\ Fifo(k.q[x], m.q[x], Live')
  BY BlockedLinks
<1> HIDE DEF m
<1> QED
  BY <1>1, <1>2, ThenScheduleFifo

\* The timer takes the first thread that sleeps on an alarm.
LEMMA TimerFifo == ASSUME IInv, NEW t \in Thread, k_timer_interrupt(t) PROVE FifoStep
<1> SUFFICES ASSUME NEW x \in Queue PROVE Fifo(k.q[x], k'.q[x], Live')
  BY DEF FifoStep
<1> DEFINE m == kthreadq_release(k, AlarmQ(t))
<1>1. k' = kthreads_schedule(m)
  BY DEF k_timer_interrupt
<1>2. /\ Linked(k, Live) /\ Idle \in Live /\ k.state[Idle] \in {"ACTIVE", "READY"}
      /\ k.state[k.active] = "ACTIVE" => k.active \in Live
      /\ k.active \in Thread /\ AlarmQ(t) \in WaitQ
  BY ThreadsAssumption DEF IInv, TypeOK, KState
<1>3. /\ Linked(m, Live) /\ m.active = k.active
      /\ \A u \in Thread : m.state[u] = k.state[u]
                           \/ (k.state[u] = "WAIT" /\ m.state[u] = "READY")
  BY <1>2, ReleaseLinks
<1>4. Fifo(k.q[x], m.q[x], Live')
  BY <1>2, ReleaseFifo
<1> HIDE DEF m
<1>5. /\ m.state[Idle] \in {"ACTIVE", "READY"}
      /\ m.state[m.active] = "ACTIVE" => m.active \in Live /\ k.state[m.active] = "ACTIVE"
  BY <1>2, <1>3, KThreadsAssumption
<1> QED
  BY <1>1, <1>2, <1>3, <1>4, <1>5, ThenScheduleFifo

\* Both calls of wait_for_thread.
LEMMA WaitFifo ==
    ASSUME IInv, NEW t \in Thread, Running(t), NEW h \in UserHandle, NEW wait,
           sys__wait_for_thread(t, h, wait)
    PROVE  FifoStep
<1>1. JoinQ(h[1]) \in WaitQ
  BY ThreadsAssumption DEF UserHandle
<1>2. k' = k \/ k' = kthreads_schedule(kthread_enqueue(k, t, JoinQ(h[1])))
  BY DEF sys__wait_for_thread, join_return, join_block, join_collect
<1> QED
  BY <1>1, <1>2, QuietFifo, BlockFifo

\* Every step keeps the order of every queue.
LEMMA NextFifo ==
    ASSUME CarefulCancels, IInv, [Next]_vars PROVE FifoStep
<1>1. ASSUME NEW t \in Thread, NEW h \in handles, NEW wait \in BOOLEAN,
             wait_for_thread(t, h, wait)
      PROVE  FifoStep
  <2>1. h \in UserHandle
    BY DEF IInv
  <2> QED
    BY <1>1, <2>1, WaitFifo DEF wait_for_thread
<1>2. ASSUME NEW t \in Thread, wait_for_thread_retry(t) PROVE FifoStep
  <2>1. waiting_for[t] \in UserHandle
    BY <1>2 DEF IInv, wait_for_thread_retry
  <2> QED
    BY <1>2, <2>1, WaitFifo DEF wait_for_thread_retry
<1>3. ASSUME NEW t \in Thread, sys__wait_for_alarm(t) PROVE FifoStep
  <2>1. AlarmQ(t) \in WaitQ
    BY ThreadsAssumption
  <2> QED
    BY <1>3, <2>1, BlockFifo DEF sys__wait_for_alarm
<1>4. ASSUME NEW t \in Thread, sys__thread_self(t) PROVE FifoStep
  BY <1>4, QuietFifo DEF sys__thread_self
<1>5. CASE UNCHANGED vars
  BY <1>5, QuietFifo DEF vars
<1> QED
  BY <1>1, <1>2, <1>3, <1>4, <1>5, CreateFifo, ExitFifo, CancelFifo, CancelAgainFifo,
     ReleaseNextFifo, ReleaseDoneFifo, TimerFifo DEF Next, idle_thread

\* What Range and DOMAIN say of a queue.
LEMMA RangeStands ==
    ASSUME NEW s \in Seq(Thread)
    PROVE  DOMAIN s = 1..Len(s) /\ \A u : u \in Range(s) <=> Stands(s, u)
<1>1. DOMAIN s = 1..Len(s)
  BY LenProperties
<1> QED
  BY <1>1 DEF Range, Stands

\* No thread ever overtakes another one in a queue: threads join ready, join and
\* alarm queues at the end, and a thread leaves from the front unless it is
\* cancelled.
THEOREM SpecQueuesFIFO ==
    ASSUME CarefulCancels PROVE Spec => QueuesFIFO
<1>1. ASSUME IInv, IInv', [Next]_vars, NEW x \in Queue
      PROVE  LET old == k.q[x]
                 new == k'.q[x]
             IN  /\ \A i, j \in DOMAIN new : i < j /\ new[j] \in Range(old) =>
                        \E m, n \in DOMAIN old : m < n /\ old[m] = new[i] /\ old[n] = new[j]
                 /\ \A i, j \in DOMAIN old :
                        i < j /\ old[j] \notin Range(new) /\ old[j] \in Live' =>
                            old[i] \notin Range(new)
  <2> DEFINE old == k.q[x]
             new == k'.q[x]
  <2>1. old \in Seq(Thread) /\ new \in Seq(Thread)
    BY <1>1 DEF IInv, TypeOK, KState
  <2>2. Fifo(old, new, Live')
    BY <1>1, NextFifo DEF FifoStep
  <2> HIDE DEF old, new
  <2>3. /\ DOMAIN old = 1..Len(old) /\ \A u : u \in Range(old) <=> Stands(old, u)
        /\ DOMAIN new = 1..Len(new) /\ \A u : u \in Range(new) <=> Stands(new, u)
    BY <2>1, RangeStands
  <2>4. ASSUME NEW i \in DOMAIN new, NEW j \in DOMAIN new, i < j, new[j] \in Range(old)
        PROVE  \E m, n \in DOMAIN old : m < n /\ old[m] = new[i] /\ old[n] = new[j]
    <3>1. i \in 1..Len(new) /\ j \in 1..Len(new) /\ Stands(old, new[j])
      BY <2>3, <2>4
    <3>2. \E a, b \in 1..Len(old) : a < b /\ old[a] = new[i] /\ old[b] = new[j]
      BY <2>2, <2>4, <3>1 DEF Fifo
    <3> QED
      BY <2>3, <3>2
  <2>5. ASSUME NEW i \in DOMAIN old, NEW j \in DOMAIN old, i < j, old[j] \notin Range(new),
               old[j] \in Live'
        PROVE  old[i] \notin Range(new)
    <3>1. i \in 1..Len(old) /\ j \in 1..Len(old) /\ ~Stands(new, old[j])
      BY <2>3, <2>5
    <3>2. ~Stands(new, old[i])
      BY <2>2, <2>5, <3>1 DEF Fifo
    <3> QED
      BY <2>3, <3>2
  <2> QED
    BY <2>4, <2>5 DEF old, new
<1>2. ASSUME IInv, IInv', [Next]_vars
      PROVE  [\A x \in Queue :
                LET old == k.q[x]
                    new == k'.q[x]
                IN  /\ \A i, j \in DOMAIN new : i < j /\ new[j] \in Range(old) =>
                          \E m, n \in DOMAIN old : m < n /\ old[m] = new[i] /\ old[n] = new[j]
                    /\ \A i, j \in DOMAIN old :
                          i < j /\ old[j] \notin Range(new) /\ old[j] \in Live' =>
                              old[i] \notin Range(new)]_vars
  BY <1>1, <1>2
<1> QED
  BY <1>2, SpecIInv, PTL DEF Spec, QueuesFIFO
=============================================================================

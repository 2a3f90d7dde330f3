---------------------------- MODULE ConsoleProofs ---------------------------
(***************************************************************************)
(* The device lock for any number of threads, priorities and characters:   *)
(* no thread is lost, only one at a time prints, and the device is locked  *)
(* exactly while one does; the buffers of the serial driver and of the     *)
(* keyboard are the queues that BoundedQueue describes; and the keyboard's *)
(* modifiers are the keys held down.                                       *)
(*                                                                         *)
(* The lock has no owner in the code.  The invariant therefore speaks of   *)
(* the threads that are past the lock: those in print that do not stand in *)
(* the device's queue.  To follow one through the scheduler it also needs  *)
(* that who stands in the queue is in print, and that the descriptor of    *)
(* the active thread names no queue of blocked threads any more.           *)
(*                                                                         *)
(* A buffer is a queue because its last index is (first + size) % SIZE.    *)
(*                                                                         *)
(* What the keyboard driver believes is behind what the keys do, by the    *)
(* codes that wait.  The invariant says what it will believe when it has   *)
(* read them.                                                              *)
(***************************************************************************)
EXTENDS Console, Keyboard, KThreadsProofs

\* The alarms of the workers: all asleep and the idle thread active is a consistent
\* state.
LEMMA InitAll == InitWorkers => AllLinked(k) /\ HighestRuns(k) /\ ActiveFree(k)
                                /\ \A x \in WaitQ \ AlarmQs : k.q[x] = <<>>
<1> SUFFICES ASSUME InitWorkers
             PROVE  AllLinked(k) /\ HighestRuns(k) /\ ActiveFree(k)
                    /\ \A x \in WaitQ \ AlarmQs : k.q[x] = <<>>
  OBVIOUS
<1> DEFINE a == [t \in Worker |-> AlarmQ(t)]
<1>1. PICK prio \in [Thread -> Prio] :
         k = [state  |-> [t \in Thread |-> IF t = Idle THEN "ACTIVE" ELSE "WAIT"],
              prio   |-> prio,
              queue  |-> [t \in Thread |-> IF t = Idle THEN NULL ELSE AlarmQ(t)],
              q      |-> [x \in Queue |-> IF x \in AlarmQs THEN <<x[2]>> ELSE <<>>],
              mask   |-> {}, active |-> Idle]
  BY DEF InitWorkers
<1>2. /\ \A t \in Worker : /\ t \in Thread /\ AlarmQ(t) \in WaitQ /\ AlarmQ(t) \in Queue
                           /\ AlarmQ(t) \in AlarmQs /\ AlarmQ(t)[2] = t
      /\ \A x \in AlarmQs : x[2] \in Worker /\ x = AlarmQ(x[2])
  BY WorkersAssumption, QueueNames DEF Worker, AlarmQs, AlarmQ
<1>3. \A x \in Queue : /\ x \in AlarmQs => k.q[x] = <<x[2]>>
                       /\ x \notin AlarmQs => k.q[x] = <<>>
  BY <1>1
<1>4. k \in KState
  <2>1. k.state \in [Thread -> ThreadState] /\ k.active \in Thread
    BY <1>1, KThreadsAssumption DEF ThreadState
  <2>2. k.queue \in [Thread -> Queue \cup {NULL}]
    BY <1>1, <1>2 DEF Worker
  <2>3. k.q \in [Queue -> Seq(Thread)]
    <3>1. \A x \in Queue : (IF x \in AlarmQs THEN <<x[2]>> ELSE <<>>) \in Seq(Thread)
      BY <1>2
    <3> QED
      BY <1>1, <3>1
  <2> QED
    BY <1>1, <2>1, <2>2, <2>3 DEF KState
<1>5. /\ a \in [Worker -> WaitQ] /\ \A t, u \in Worker : a[t] = a[u] => t = u
      /\ \A t \in Worker : a[t] = AlarmQ(t)
  BY <1>2
<1>6. /\ k.state = [t \in Thread |-> IF t = Idle THEN "ACTIVE" ELSE "WAIT"]
      /\ k.mask = {} /\ k.active = Idle
  BY <1>1
<1>7. k.queue = [t \in Thread |-> IF t = Idle THEN NULL ELSE a[t]]
  BY <1>1, <1>5 DEF Worker
<1> HIDE DEF a
<1>8. \A t \in Worker : k.q[a[t]] = <<t>>
  BY <1>2, <1>3, <1>5
<1>9. \A x \in Queue : (\A t \in Worker : x # a[t]) => k.q[x] = <<>>
  BY <1>2, <1>3, <1>5
<1>10. AllLinked(k) /\ HighestRuns(k) /\ ActiveFree(k)
  BY <1>4, <1>5, <1>6, <1>7, <1>8, <1>9, AsleepAll
<1> QED
  BY <1>3, <1>10, QueueNames

-----------------------------------------------------------------------------
\* The lock alone: the queue s of the device, the characters p that threads
\* have yet to print, the lock l.

Past(s, p, t) == p[t] # -1 /\ ~Stands(s, t)

LockInv(s, p, l) ==
    /\ p[Idle] = -1
    /\ \A t \in Thread : Stands(s, t) => p[t] # -1
    /\ \A t, u \in Thread : Past(s, p, t) /\ Past(s, p, u) => t = u
    /\ l <=> \E t \in Thread : Past(s, p, t)
    /\ s # <<>> => l

\* A thread that finds the device locked joins the queue.
LEMMA LockQueues ==
    ASSUME NEW s \in Seq(Thread), NEW p \in [Thread -> -1..MaxPrint], NEW l \in BOOLEAN,
           LockInv(s, p, l), l, NEW t \in Worker, p[t] = -1, NEW n \in 0..MaxPrint
    PROVE  LockInv(Append(s, t), [p EXCEPT ![t] = n], l)
<1> DEFINE z == Append(s, t)
           r == [p EXCEPT ![t] = n]
<1>1. t \in Thread /\ t # Idle /\ MaxPrint \in Nat
  BY ConsoleAssumption DEF Worker
<1>2. \A u \in Thread : Stands(z, u) <=> Stands(s, u) \/ u = t
  BY <1>1, AppendStands
<1>3. \A u \in Thread : r[u] = IF u = t THEN n ELSE p[u]
  OBVIOUS
<1>4. n # -1
  BY <1>1
<1> HIDE DEF z, r
<1>5. \A u \in Thread : Past(z, r, u) <=> Past(s, p, u)
  BY <1>1, <1>2, <1>3, <1>4 DEF Past
<1>6. r[Idle] = -1
  BY <1>1, <1>3, KThreadsAssumption DEF LockInv
<1>7. \A u \in Thread : Stands(z, u) => r[u] # -1
  BY <1>2, <1>3, <1>4 DEF LockInv
<1>8. LockInv(z, r, l)
  BY <1>5, <1>6, <1>7 DEF LockInv
<1> QED
  BY <1>8 DEF z, r

\* A thread that finds it open passes.
LEMMA LockPasses ==
    ASSUME NEW s \in Seq(Thread), NEW p \in [Thread -> -1..MaxPrint],
           LockInv(s, p, FALSE), NEW t \in Worker, NEW n \in 0..MaxPrint
    PROVE  LockInv(s, [p EXCEPT ![t] = n], TRUE)
<1> DEFINE r == [p EXCEPT ![t] = n]
<1>1. t \in Thread /\ t # Idle /\ MaxPrint \in Nat
  BY ConsoleAssumption DEF Worker
<1>2. s = <<>> /\ \A u \in Thread : ~Stands(s, u)
  BY DEF LockInv, Stands
<1>3. \A u \in Thread : r[u] = IF u = t THEN n ELSE p[u]
  OBVIOUS
<1>4. n # -1
  BY <1>1
<1> HIDE DEF r
<1>5. \A u \in Thread : Past(s, r, u) <=> u = t
  BY <1>1, <1>2, <1>3, <1>4 DEF Past, LockInv
<1>6. r[Idle] = -1
  BY <1>1, <1>3, KThreadsAssumption DEF LockInv
<1>7. LockInv(s, r, TRUE)
  BY <1>1, <1>2, <1>5, <1>6 DEF LockInv
<1> QED
  BY <1>7 DEF r

\* The thread that is past the lock leaves, nobody waits: the device is open.
LEMMA LockOpens ==
    ASSUME NEW s \in Seq(Thread), NEW p \in [Thread -> -1..MaxPrint], NEW l,
           LockInv(s, p, l), s = <<>>, NEW t \in Worker, Past(s, p, t)
    PROVE  LockInv(s, [p EXCEPT ![t] = -1], FALSE)
<1> DEFINE r == [p EXCEPT ![t] = -1]
<1>1. t \in Thread /\ t # Idle
  BY DEF Worker
<1>2. \A u \in Thread : ~Stands(s, u)
  BY DEF Stands
<1>3. \A u \in Thread : r[u] = IF u = t THEN -1 ELSE p[u]
  OBVIOUS
<1> HIDE DEF r
<1>4. \A u \in Thread : ~Past(s, r, u)
  BY <1>1, <1>2, <1>3 DEF Past, LockInv
<1>5. r[Idle] = -1
  BY <1>1, <1>3, KThreadsAssumption DEF LockInv
<1>6. LockInv(s, r, FALSE)
  BY <1>2, <1>4, <1>5 DEF LockInv
<1> QED
  BY <1>6 DEF r

\* It leaves and the first of the queue is past the lock instead.
LEMMA LockPassedOn ==
    ASSUME NEW s \in Seq(Thread), NEW p \in [Thread -> -1..MaxPrint], NEW l,
           LockInv(s, p, l), s # <<>>, NEW t \in Worker, Past(s, p, t),
           \A i, j \in 1..Len(s) : s[i] = s[j] => i = j
    PROVE  l /\ LockInv(Tail(s), [p EXCEPT ![t] = -1], TRUE)
<1> DEFINE z == Tail(s)
           h == Head(s)
           r == [p EXCEPT ![t] = -1]
<1>1. t \in Thread /\ t # Idle /\ l
  BY DEF Worker, LockInv
<1>2. /\ h \in Thread /\ h = s[1] /\ Len(s) \in Nat /\ Len(s) >= 1
      /\ Len(z) = Len(s) - 1 /\ \A i \in 1..Len(z) : z[i] = s[i + 1]
  BY TailMember, LenProperties
<1>3. \A u \in Thread : r[u] = IF u = t THEN -1 ELSE p[u]
  OBVIOUS
<1> HIDE DEF z, h, r
<1>4. \A u \in Thread : Stands(z, u) <=> Stands(s, u) /\ u # h
  BY TailStands DEF z, h
<1>5. Stands(s, h)
  BY <1>2 DEF Stands
<1>6. h # t /\ p[h] # -1
  BY <1>2, <1>5 DEF Past, LockInv
<1>7. \A u \in Thread : Past(z, r, u) <=> u = h
  BY <1>1, <1>2, <1>3, <1>4, <1>5, <1>6 DEF Past, LockInv
<1>8. r[Idle] = -1
  BY <1>1, <1>3, KThreadsAssumption DEF LockInv
<1>9. \A u \in Thread : Stands(z, u) => r[u] # -1
  BY <1>1, <1>3, <1>4 DEF LockInv, Past
<1>10. LockInv(z, r, TRUE)
  BY <1>2, <1>7, <1>8, <1>9 DEF LockInv
<1> QED
  BY <1>1, <1>10 DEF z, r

\* A character has been printed.
LEMMA LockStays ==
    ASSUME NEW s \in Seq(Thread), NEW p \in [Thread -> -1..MaxPrint], NEW l,
           LockInv(s, p, l), NEW t \in Worker, p[t] > 0
    PROVE  LockInv(s, [p EXCEPT ![t] = p[t] - 1], l)
<1> DEFINE r == [p EXCEPT ![t] = p[t] - 1]
<1>1. t \in Thread /\ t # Idle /\ p[t] \in Int
  BY ConsoleAssumption DEF Worker
<1>2. \A u \in Thread : r[u] = IF u = t THEN p[t] - 1 ELSE p[u]
  OBVIOUS
<1>3. \A u \in Thread : r[u] # -1 <=> p[u] # -1
  BY <1>1, <1>2
<1> HIDE DEF r
<1>4. \A u \in Thread : Past(s, r, u) <=> Past(s, p, u)
  BY <1>3 DEF Past
<1>5. LockInv(s, r, l)
  BY <1>3, <1>4, KThreadsAssumption DEF LockInv
<1> QED
  BY <1>5 DEF r

-----------------------------------------------------------------------------
\* The buffers keep their types.

\* The slot after a slot is a slot: the index wraps around.
LEMMA NextSlot ==
    ASSUME NEW a \in Slot
    PROVE  (a + 1) % SIZE \in Slot
  BY RingAssumption DEF Slot

\* Putting and taking keep a buffer a buffer.
LEMMA RingTypes ==
    ASSUME NEW E, NEW N, NEW r \in RingState(E, N)
    PROVE  /\ \A c \in E : put_over(r, c) \in RingState(E, N)
           /\ \A c \in E : put_if_room(r, c) \in RingState(E, N)
           /\ r.size > 0 => take(r) \in RingState(E, N)
           /\ oldest(r) \in E \cup {N}
<1>1. /\ r.first \in Slot /\ r.last \in Slot /\ r.size \in 0..SIZE /\ SIZE \in Nat \ {0}
      /\ r.buf \in [Slot -> E \cup {N}]
  BY RingAssumption DEF RingState
<1>2. (r.first + 1) % SIZE \in Slot /\ (r.last + 1) % SIZE \in Slot
  BY <1>1, NextSlot
<1>3. \A c \in E : [r.buf EXCEPT ![r.last] = c] \in [Slot -> E \cup {N}]
  BY <1>1
<1>4. \A c \in E : put_over(r, c) \in RingState(E, N)
  <2>1. r.size < SIZE => r.size + 1 \in 0..SIZE
    BY <1>1
  <2> QED
    BY <1>1, <1>2, <1>3, <2>1 DEF put_over, RingState
<1>5. \A c \in E : put_if_room(r, c) \in RingState(E, N)
  <2>1. r.size # SIZE => r.size + 1 \in 0..SIZE
    BY <1>1
  <2> QED
    BY <1>1, <1>2, <1>3, <2>1 DEF put_if_room, RingState
<1>6. r.size > 0 => take(r) \in RingState(E, N)
  <2>1. r.size > 0 => r.size - 1 \in 0..SIZE
    BY <1>1
  <2> QED
    BY <1>1, <1>2, <2>1 DEF take, RingState
<1>7. oldest(r) \in E \cup {N}
  BY <1>1 DEF oldest
<1> QED
  BY <1>4, <1>5, <1>6, <1>7

-----------------------------------------------------------------------------
\* The circular buffers hold queues: what the code does to the indices, with
\* their wrap around, is appending and dropping.

\* Indices stay below twice the size, so the remainder is a subtraction.
LEMMA Wrap ==
    ASSUME NEW a \in Slot, NEW b \in 0..SIZE
    PROVE  (a + b) % SIZE = IF a + b < SIZE THEN a + b ELSE a + b - SIZE
<1>1. SIZE \in Nat /\ SIZE > 0 /\ a \in Int /\ b \in Int /\ 0 <= a /\ a < SIZE /\ 0 <= b /\ b <= SIZE
  BY RingAssumption DEF Slot
<1>2. CASE a + b < SIZE
  BY <1>1, <1>2
<1>3. CASE ~(a + b < SIZE)
  BY <1>1, <1>3
<1> QED
  BY <1>2, <1>3

\* What a buffer holds, element by element.
Elements(r, S) ==
    /\ contents(r) \in Seq(S) /\ Len(contents(r)) = r.size
    /\ \A i \in 1..r.size : contents(r)[i] = r.buf[(r.first + i - 1) % SIZE]

\* The elements of a buffer are a sequence of its size.
LEMMA ContentsSeq ==
    ASSUME NEW E, NEW N, NEW r \in RingState(E, N)
    PROVE  Elements(r, E \cup {N})
<1>1. /\ r.first \in Slot /\ r.size \in 0..SIZE /\ r.size \in Nat /\ SIZE \in Nat \ {0}
      /\ r.buf \in [Slot -> E \cup {N}]
  BY RingAssumption DEF RingState
<1>2. \A i \in 1..r.size : (r.first + i - 1) % SIZE \in Slot
  BY <1>1 DEF Slot
<1>3. \A i \in 1..r.size : r.buf[(r.first + i - 1) % SIZE] \in E \cup {N}
  BY <1>1, <1>2
<1>4. contents(r) \in Seq(E \cup {N}) /\ Len(contents(r)) = r.size
  BY <1>1, <1>3 DEF contents
<1> QED
  BY <1>1, <1>4 DEF contents, Elements

\* s without its first n elements.
Drop(s, n) == SubSeq(s, n + 1, Len(s))

\* The next free slot is the one after the youngest element.
LastRight(r) == r.last = (r.first + r.size) % SIZE

\* What Drop leaves, element by element.
LEMMA DropMember ==
    ASSUME NEW S, NEW s \in Seq(S), NEW n \in 0..Len(s)
    PROVE  /\ SubSeq(s, n + 1, Len(s)) \in Seq(S)
           /\ Len(SubSeq(s, n + 1, Len(s))) = Len(s) - n
           /\ \A i \in 1..Len(s) - n : SubSeq(s, n + 1, Len(s))[i] = s[n + i]
<1>1. n \in Int /\ n + 1 \in Int /\ Len(s) \in Nat /\ n <= Len(s) /\ 0 <= n
  BY LenProperties
<1>2. \A i \in n + 1..Len(s) : s[i] \in S
  BY <1>1, ElementOfSeq
<1>3. /\ SubSeq(s, n + 1, Len(s)) \in Seq(S)
      /\ Len(SubSeq(s, n + 1, Len(s))) = IF n + 1 <= Len(s) THEN Len(s) - (n + 1) + 1 ELSE 0
      /\ \A i \in 1..Len(s) - (n + 1) + 1 : SubSeq(s, n + 1, Len(s))[i] = s[n + 1 + i - 1]
  BY <1>1, <1>2, SubSeqProperties
<1>5. Len(SubSeq(s, n + 1, Len(s))) = Len(s) - n
  BY <1>1, <1>3
<1>6. ASSUME NEW i \in 1..Len(s) - n PROVE SubSeq(s, n + 1, Len(s))[i] = s[n + i]
  <2>1. i \in 1..Len(s) - (n + 1) + 1 /\ n + 1 + i - 1 = n + i
    BY <1>1
  <2>2. SubSeq(s, n + 1, Len(s))[i] = s[n + 1 + i - 1]
    BY <1>3, <2>1
  <2> QED
    BY <2>1, <2>2
<1> QED
  BY <1>3, <1>5, <1>6

\* The ranges of a buffer's fields.
LEMMA RingFields ==
    ASSUME NEW E, NEW N, NEW r \in RingState(E, N)
    PROVE  /\ SIZE \in Nat /\ SIZE > 0
           /\ r.first \in Slot /\ r.first \in Int /\ 0 <= r.first /\ r.first < SIZE
           /\ r.last \in Slot /\ r.last \in Int /\ 0 <= r.last /\ r.last < SIZE
           /\ r.size \in 0..SIZE /\ r.size \in Nat /\ r.size <= SIZE
           /\ r.buf \in [Slot -> E \cup {N}]
  BY RingAssumption DEF RingState, Slot

\* The slot of element i.
LEMMA SlotOf ==
    ASSUME NEW E, NEW N, NEW r \in RingState(E, N), NEW i \in 1..r.size + 1
    PROVE  /\ (r.first + i - 1) % SIZE =
                 IF r.first + i - 1 < SIZE THEN r.first + i - 1 ELSE r.first + i - 1 - SIZE
           /\ (r.first + i - 1) % SIZE \in Slot
<1>1. i - 1 \in 0..SIZE /\ r.first \in Slot /\ SIZE \in Nat /\ SIZE > 0 /\ i \in Int /\ r.first \in Int
  BY RingFields
<1>2. (r.first + (i - 1)) % SIZE =
          IF r.first + (i - 1) < SIZE THEN r.first + (i - 1) ELSE r.first + (i - 1) - SIZE
  BY <1>1, Wrap
<1>3. r.first + (i - 1) = r.first + i - 1
  BY <1>1
<1>4. (r.first + i - 1) % SIZE \in Slot
  BY <1>1 DEF Slot
<1> QED
  BY <1>2, <1>3, <1>4

\* A put with room appends.
Grown(r, n, c) ==
    /\ r.size < SIZE /\ n.size = r.size + 1
    /\ \A j \in Slot : n.buf[j] = IF j = r.last THEN c ELSE r.buf[j]
    /\ n.first = r.first /\ n.last = (r.last + 1) % SIZE

\* Filling the slot at the last index appends.
LEMMA PutAppends ==
    ASSUME NEW E, NEW N, NEW r \in RingState(E, N), NEW n \in RingState(E, N), NEW c \in E,
           LastRight(r), Grown(r, n, c)
    PROVE  contents(n) = Append(contents(r), c) /\ LastRight(n)
<1> DEFINE s == Append(contents(r), c)
<1>1. /\ contents(r) \in Seq(E \cup {N}) /\ Len(contents(r)) = r.size
      /\ \A i \in 1..r.size : contents(r)[i] = r.buf[(r.first + i - 1) % SIZE]
      /\ contents(n) \in Seq(E \cup {N}) /\ Len(contents(n)) = n.size
      /\ \A i \in 1..n.size : contents(n)[i] = n.buf[(n.first + i - 1) % SIZE]
  <2>1. Elements(r, E \cup {N}) /\ Elements(n, E \cup {N})
    BY ContentsSeq
  <2> QED
    BY <2>1 DEF Elements
<1>0. /\ r.size < SIZE /\ n.size = r.size + 1
      /\ \A j \in Slot : n.buf[j] = IF j = r.last THEN c ELSE r.buf[j]
      /\ n.first = r.first /\ n.last = (r.last + 1) % SIZE
  BY DEF Grown
<1>2. /\ s \in Seq(E \cup {N}) /\ Len(s) = r.size + 1
      /\ \A i \in 1..r.size : s[i] = contents(r)[i]
      /\ s[r.size + 1] = c
  BY <1>0, <1>1, AppendProperties
<1> HIDE DEF s
<1>3. /\ SIZE \in Nat /\ SIZE > 0 /\ r.first \in Slot /\ r.first \in Int /\ 0 <= r.first /\ r.first < SIZE
      /\ r.last \in Slot /\ r.last \in Int /\ 0 <= r.last /\ r.last < SIZE
      /\ r.size \in 0..SIZE /\ r.size \in Nat /\ r.buf \in [Slot -> E \cup {N}]
  BY RingFields
<1>4. r.last = IF r.first + r.size < SIZE THEN r.first + r.size ELSE r.first + r.size - SIZE
  BY <1>0, <1>3, Wrap DEF LastRight
<1>5. ASSUME NEW i \in 1..r.size + 1 PROVE contents(n)[i] = s[i]
  <2>1. /\ (r.first + i - 1) % SIZE =
              IF r.first + i - 1 < SIZE THEN r.first + i - 1 ELSE r.first + i - 1 - SIZE
        /\ (r.first + i - 1) % SIZE \in Slot
    BY <1>0, SlotOf
  <2>2. contents(n)[i] = n.buf[(r.first + i - 1) % SIZE]
    BY <1>0, <1>1
  <2>3. CASE i = r.size + 1
    <3>1. (r.first + i - 1) % SIZE = r.last
      BY <1>0, <1>3, <1>4, <2>1, <2>3
    <3> QED
      BY <1>0, <1>2, <1>3, <2>2, <2>3, <3>1
  <2>4. CASE i # r.size + 1
    <3>1. i \in 1..r.size
      BY <1>0, <1>3, <2>4
    <3>2. (r.first + i - 1) % SIZE # r.last
      BY <1>0, <1>3, <1>4, <2>1, <3>1
    <3>3. n.buf[(r.first + i - 1) % SIZE] = r.buf[(r.first + i - 1) % SIZE]
      BY <1>0, <1>3, <2>1, <3>2
    <3> QED
      BY <1>0, <1>1, <1>2, <2>2, <3>1, <3>3
  <2> QED
    BY <2>3, <2>4
<1>6. contents(n) = s
  <2>1. Len(contents(n)) = Len(s) /\ \A i \in 1..Len(contents(n)) : contents(n)[i] = s[i]
    BY <1>0, <1>1, <1>2, <1>5
  <2> QED
    BY <1>0, <1>1, <1>2, <2>1, SeqEqual
<1>7. LastRight(n)
  <2>1. n.last = IF r.last + 1 < SIZE THEN r.last + 1 ELSE r.last + 1 - SIZE
    BY <1>0, <1>3, Wrap
  <2>2. r.size + 1 \in 0..SIZE
    BY <1>0, <1>3
  <2>3. (r.first + (r.size + 1)) % SIZE =
          IF r.first + (r.size + 1) < SIZE THEN r.first + (r.size + 1)
          ELSE r.first + (r.size + 1) - SIZE
    BY <1>0, <1>3, <2>2, Wrap
  <2>4. n.last = (r.first + (r.size + 1)) % SIZE
    BY <1>0, <1>3, <1>4, <2>1, <2>3
  <2>5. n.last = (n.first + n.size) % SIZE
    BY <1>0, <2>4
  <2> QED
    BY <2>5 DEF LastRight
<1> QED
  BY <1>6, <1>7 DEF s

\* A put into a full buffer appends and drops the oldest element.
LEMMA PutDrops ==
    ASSUME NEW E, NEW N, NEW r \in RingState(E, N), NEW n \in RingState(E, N), NEW c \in E,
           LastRight(r), r.size = SIZE,
           \A j \in Slot : n.buf[j] = IF j = r.last THEN c ELSE r.buf[j], n.first = (r.first + 1) % SIZE,
           n.last = (r.last + 1) % SIZE, n.size = SIZE
    PROVE  contents(n) = Drop(Append(contents(r), c), 1) /\ LastRight(n)
<1> DEFINE s == Append(contents(r), c)
           w == Drop(s, 1)
<1>1. /\ contents(r) \in Seq(E \cup {N}) /\ Len(contents(r)) = SIZE
      /\ \A i \in 1..SIZE : contents(r)[i] = r.buf[(r.first + i - 1) % SIZE]
      /\ contents(n) \in Seq(E \cup {N}) /\ Len(contents(n)) = SIZE
      /\ \A i \in 1..SIZE : contents(n)[i] = n.buf[(n.first + i - 1) % SIZE]
  <2>1. Elements(r, E \cup {N}) /\ Elements(n, E \cup {N})
    BY ContentsSeq
  <2> QED
    BY <2>1 DEF Elements
<1>2. /\ s \in Seq(E \cup {N}) /\ Len(s) = SIZE + 1
      /\ \A i \in 1..SIZE : s[i] = contents(r)[i]
      /\ s[SIZE + 1] = c
  BY <1>1, AppendProperties
<1> HIDE DEF s
<1>3. /\ SIZE \in Nat /\ SIZE > 0 /\ r.first \in Slot /\ r.first \in Int /\ 0 <= r.first /\ r.first < SIZE
      /\ r.last \in Slot /\ r.last \in Int /\ r.buf \in [Slot -> E \cup {N}]
      /\ n.first \in Int
  BY RingFields
<1>4. w \in Seq(E \cup {N}) /\ Len(w) = SIZE /\ \A i \in 1..SIZE : w[i] = s[i + 1]
  <2>1. 1 \in 0..Len(s) /\ Len(s) - 1 = SIZE
    BY <1>2, <1>3
  <2>2. /\ w \in Seq(E \cup {N}) /\ Len(w) = SIZE
        /\ \A i \in 1..SIZE : w[i] = s[1 + i]
    BY <1>2, <2>1, DropMember DEF Drop
  <2>3. \A i \in 1..SIZE : 1 + i = i + 1
    BY <1>3
  <2> QED
    BY <2>2, <2>3
<1> HIDE DEF w
<1>5. r.last = r.first
  <2>1. r.size \in 0..SIZE
    BY <1>3
  <2>2. r.last = IF r.first + r.size < SIZE THEN r.first + r.size ELSE r.first + r.size - SIZE
    BY <1>3, <2>1, Wrap DEF LastRight
  <2> QED
    BY <1>3, <2>2
<1>6. n.first = IF r.first + 1 < SIZE THEN r.first + 1 ELSE r.first + 1 - SIZE
  <2>1. r.first \in Slot /\ 1 \in 0..SIZE
    BY <1>3
  <2>2. (r.first + 1) % SIZE = IF r.first + 1 < SIZE THEN r.first + 1 ELSE r.first + 1 - SIZE
    BY <2>1, Wrap
  <2> QED
    BY <2>2
<1>7. ASSUME NEW i \in 1..SIZE PROVE contents(n)[i] = w[i]
  <2>1. /\ (n.first + i - 1) % SIZE =
              IF n.first + i - 1 < SIZE THEN n.first + i - 1 ELSE n.first + i - 1 - SIZE
        /\ (n.first + i - 1) % SIZE \in Slot
    <3>1. i \in 1..n.size + 1
      BY <1>3
    <3> QED
      BY <3>1, SlotOf
  <2>2. contents(n)[i] = n.buf[(n.first + i - 1) % SIZE] /\ w[i] = s[i + 1]
    BY <1>1, <1>4
  <2>3. CASE i = SIZE
    <3>1. (n.first + i - 1) % SIZE = r.last
      BY <1>3, <1>5, <1>6, <2>1, <2>3
    <3> QED
      BY <1>2, <1>3, <2>2, <2>3, <3>1
  <2>4. CASE i # SIZE
    <3>1. i + 1 \in 1..SIZE /\ i + 1 \in 1..r.size + 1
      BY <1>3, <2>4
    <3>2. (r.first + (i + 1) - 1) % SIZE =
              IF r.first + (i + 1) - 1 < SIZE THEN r.first + (i + 1) - 1
              ELSE r.first + (i + 1) - 1 - SIZE
      BY <3>1, SlotOf
    <3>3. (n.first + i - 1) % SIZE = (r.first + (i + 1) - 1) % SIZE
      BY <1>3, <1>6, <2>1, <2>4, <3>2
    <3>4. (n.first + i - 1) % SIZE # r.last
      BY <1>3, <1>5, <1>6, <2>1, <2>4
    <3>5. n.buf[(n.first + i - 1) % SIZE] = r.buf[(n.first + i - 1) % SIZE]
      BY <1>3, <2>1, <3>4
    <3> QED
      BY <1>1, <1>2, <2>2, <3>1, <3>3, <3>5
  <2> QED
    BY <2>3, <2>4
<1>8. contents(n) = w
  BY <1>1, <1>4, <1>7, SeqEqual
<1>9. LastRight(n)
  <2>1. n.last = n.first
    BY <1>5
  <2>2. SIZE \in 0..SIZE /\ n.first \in Slot
    BY <1>3, RingFields
  <2>3. (n.first + SIZE) % SIZE =
           IF n.first + SIZE < SIZE THEN n.first + SIZE ELSE n.first + SIZE - SIZE
    BY <2>2, Wrap
  <2>4. 0 <= n.first
    BY RingFields
  <2> QED
    BY <1>3, <2>1, <2>3, <2>4 DEF LastRight
<1> QED
  BY <1>8, <1>9 DEF w, s

\* Reading m elements drops the m oldest.
LEMMA TakeMany ==
    ASSUME NEW E, NEW N, NEW r \in RingState(E, N), NEW n \in RingState(E, N),
           LastRight(r), NEW m \in 0..r.size,
           n.buf = r.buf, n.first = (r.first + m) % SIZE,
           n.last = r.last, n.size = r.size - m
    PROVE  contents(n) = Drop(contents(r), m) /\ LastRight(n)
<1> DEFINE w == Drop(contents(r), m)
<1>1. /\ contents(r) \in Seq(E \cup {N}) /\ Len(contents(r)) = r.size
      /\ \A i \in 1..r.size : contents(r)[i] = r.buf[(r.first + i - 1) % SIZE]
      /\ contents(n) \in Seq(E \cup {N}) /\ Len(contents(n)) = n.size
      /\ \A i \in 1..n.size : contents(n)[i] = n.buf[(n.first + i - 1) % SIZE]
  <2>1. Elements(r, E \cup {N}) /\ Elements(n, E \cup {N})
    BY ContentsSeq
  <2> QED
    BY <2>1 DEF Elements
<1>2. /\ SIZE \in Nat /\ SIZE > 0 /\ r.first \in Slot /\ r.first \in Int /\ 0 <= r.first /\ r.first < SIZE
      /\ r.last \in Int /\ r.size \in 0..SIZE /\ r.size \in Nat /\ r.size <= SIZE
      /\ n.first \in Int /\ n.first \in Slot /\ m \in Int /\ 0 <= m /\ m <= r.size
  BY RingFields
<1>3. w \in Seq(E \cup {N}) /\ Len(w) = r.size - m /\ \A i \in 1..r.size - m : w[i] = contents(r)[m + i]
  BY <1>1, DropMember DEF Drop
<1> HIDE DEF w
<1>4. n.first = IF r.first + m < SIZE THEN r.first + m ELSE r.first + m - SIZE
  <2>1. r.first \in Slot /\ m \in 0..SIZE
    BY <1>2
  <2>2. (r.first + m) % SIZE = IF r.first + m < SIZE THEN r.first + m ELSE r.first + m - SIZE
    BY <2>1, Wrap
  <2> QED
    BY <2>2
<1>5. ASSUME NEW i \in 1..r.size - m PROVE contents(n)[i] = w[i]
  <2>1. (n.first + i - 1) % SIZE =
              IF n.first + i - 1 < SIZE THEN n.first + i - 1 ELSE n.first + i - 1 - SIZE
    <3>1. i \in 1..n.size + 1
      BY <1>2
    <3> QED
      BY <3>1, SlotOf
  <2>2. contents(n)[i] = n.buf[(n.first + i - 1) % SIZE] /\ w[i] = contents(r)[m + i]
    BY <1>1, <1>3
  <2>3. m + i \in 1..r.size /\ m + i \in 1..r.size + 1
    BY <1>2
  <2>4. (r.first + (m + i) - 1) % SIZE =
            IF r.first + (m + i) - 1 < SIZE THEN r.first + (m + i) - 1
            ELSE r.first + (m + i) - 1 - SIZE
    BY <2>3, SlotOf
  <2>5. (n.first + i - 1) % SIZE = (r.first + (m + i) - 1) % SIZE
    BY <1>2, <1>4, <2>1, <2>4
  <2> QED
    BY <1>1, <2>2, <2>3, <2>5
<1>6. contents(n) = w
  BY <1>1, <1>3, <1>5, SeqEqual
<1>7. LastRight(n)
  <2>1. r.last = IF r.first + r.size < SIZE THEN r.first + r.size ELSE r.first + r.size - SIZE
    BY <1>2, Wrap DEF LastRight
  <2>2. r.size - m \in 0..SIZE
    BY <1>2
  <2>3. (n.first + (r.size - m)) % SIZE =
          IF n.first + (r.size - m) < SIZE THEN n.first + (r.size - m)
          ELSE n.first + (r.size - m) - SIZE
    BY <1>2, <2>2, Wrap
  <2>4. r.last = (n.first + (r.size - m)) % SIZE
    BY <1>2, <1>4, <2>1, <2>3
  <2> QED
    BY <2>4 DEF LastRight
<1> QED
  BY <1>6, <1>7 DEF w

\* Dropping nothing changes nothing.
LEMMA DropNone ==
    ASSUME NEW S, NEW s \in Seq(S)
    PROVE  Drop(s, 0) = s
<1>1. 0 \in 0..Len(s) /\ Len(s) \in Nat
  BY LenProperties
<1>2. /\ Drop(s, 0) \in Seq(S) /\ Len(Drop(s, 0)) = Len(s) - 0
      /\ \A i \in 1..Len(s) - 0 : Drop(s, 0)[i] = s[0 + i]
  BY <1>1, DropMember DEF Drop
<1>3. Len(Drop(s, 0)) = Len(s) /\ \A i \in 1..Len(Drop(s, 0)) : Drop(s, 0)[i] = s[i]
  BY <1>1, <1>2
<1> QED
  BY <1>2, <1>3, SeqEqual

\* Dropping the first element twice drops two.
LEMMA DropTwice ==
    ASSUME NEW S, NEW s \in Seq(S), Len(s) >= 2
    PROVE  Drop(Drop(s, 1), 1) = Drop(s, 2)
<1> DEFINE d == Drop(s, 1)
           e == Drop(d, 1)
           f == Drop(s, 2)
<1>1. Len(s) \in Nat /\ 1 \in 0..Len(s) /\ 2 \in 0..Len(s)
  BY LenProperties
<1>2. d \in Seq(S) /\ Len(d) = Len(s) - 1 /\ \A i \in 1..Len(s) - 1 : d[i] = s[1 + i]
  BY <1>1, DropMember DEF Drop
<1>3. f \in Seq(S) /\ Len(f) = Len(s) - 2 /\ \A i \in 1..Len(s) - 2 : f[i] = s[2 + i]
  BY <1>1, DropMember DEF Drop
<1> HIDE DEF d, f
<1>4. 1 \in 0..Len(d)
  BY <1>1, <1>2
<1>5. e \in Seq(S) /\ Len(e) = Len(d) - 1 /\ \A i \in 1..Len(d) - 1 : e[i] = d[1 + i]
  BY <1>2, <1>4, DropMember DEF Drop
<1> HIDE DEF e
<1>6. ASSUME NEW i \in 1..Len(s) - 2 PROVE e[i] = f[i]
  <2>1. i \in 1..Len(d) - 1 /\ 1 + i \in 1..Len(s) - 1 /\ 1 + (1 + i) = 2 + i
    BY <1>1, <1>2
  <2>2. e[i] = d[1 + i] /\ d[1 + i] = s[1 + (1 + i)] /\ f[i] = s[2 + i]
    BY <1>2, <1>3, <1>5, <2>1
  <2> QED
    BY <2>1, <2>2
<1>7. Len(e) = Len(s) - 2
  BY <1>1, <1>2, <1>5
<1>8. Len(e) = Len(f) /\ \A i \in 1..Len(e) : e[i] = f[i]
  BY <1>3, <1>6, <1>7
<1>9. e = f
  BY <1>3, <1>5, <1>8, SeqEqual
<1> QED
  BY <1>9 DEF e, d, f

\* What the operations on a buffer do to its contents.
LEMMA TakeContents ==
    ASSUME NEW r \in RingState(Char, NULL), LastRight(r), r.size > 0
    PROVE  contents(take(r)) = Drop(contents(r), 1) /\ LastRight(take(r))
<1> DEFINE n == take(r)
<1>1. n \in RingState(Char, NULL)
  BY RingTypes
<1>2. n.buf = r.buf /\ n.first = (r.first + 1) % SIZE /\ n.last = r.last /\ n.size = r.size - 1
  BY DEF take, RingState
<1> HIDE DEF n
<1>3. contents(n) = Drop(contents(r), 1) /\ LastRight(n)
  <2>1. 1 \in 0..r.size
    BY RingFields
  <2> QED
    BY <1>1, <1>2, <2>1, TakeMany
<1> QED
  BY <1>3 DEF n

\* What uart_send does to the queue: it appends, or does nothing when the
\* buffer is full.
LEMMA PutIfRoomContents ==
    ASSUME NEW r \in RingState(Char, NULL), LastRight(r), NEW c \in Char
    PROVE  /\ LastRight(put_if_room(r, c))
           /\ r.size = SIZE => put_if_room(r, c) = r
           /\ r.size < SIZE => /\ contents(put_if_room(r, c)) = Append(contents(r), c)
                               /\ put_if_room(r, c).size > 0
<1> DEFINE n == put_if_room(r, c)
<1>0. /\ r.size \in Nat /\ r.size <= SIZE /\ SIZE \in Nat
      /\ r.last \in Slot /\ r.buf \in [Slot -> Char \cup {NULL}]
  BY RingFields
<1>1. CASE r.size = SIZE
  BY <1>0, <1>1 DEF put_if_room
<1>2. CASE r.size < SIZE
  <2>1. n \in RingState(Char, NULL)
    BY RingTypes
  <2>2. /\ n.buf = [r.buf EXCEPT ![r.last] = c] /\ n.first = r.first
        /\ n.last = (r.last + 1) % SIZE /\ n.size = r.size + 1
    BY <1>0, <1>2 DEF put_if_room, RingState
  <2> HIDE DEF n
  <2>3. Grown(r, n, c)
    BY <1>0, <1>2, <2>2 DEF Grown
  <2>4. contents(n) = Append(contents(r), c) /\ LastRight(n)
    BY <2>1, <2>3, PutAppends
  <2>5. n.size > 0
    BY <1>0, <2>2
  <2> QED
    BY <1>0, <1>2, <2>4, <2>5 DEF n
<1> QED
  BY <1>0, <1>1, <1>2

\* What uart_read does to the queue: it appends, and drops the oldest when the
\* buffer is full.
LEMMA PutOverContents ==
    ASSUME NEW E, NEW N, NEW r \in RingState(E, N), LastRight(r), NEW c \in E
    PROVE  /\ LastRight(put_over(r, c)) /\ put_over(r, c).size > 0
           /\ r.size < SIZE => contents(put_over(r, c)) = Append(contents(r), c)
           /\ r.size = SIZE => contents(put_over(r, c)) = Drop(Append(contents(r), c), 1)
<1> DEFINE n == put_over(r, c)
<1>0. /\ r.size \in Nat /\ r.size <= SIZE /\ SIZE \in Nat /\ SIZE > 0
      /\ r.last \in Slot /\ r.buf \in [Slot -> E \cup {N}]
  BY RingFields
<1>1. n \in RingState(E, N)
  BY RingTypes
<1>2. n.buf = [r.buf EXCEPT ![r.last] = c] /\ n.last = (r.last + 1) % SIZE
  BY DEF put_over, RingState
<1>3. CASE r.size = SIZE
  <2>1. n.first = (r.first + 1) % SIZE /\ n.size = SIZE
    BY <1>0, <1>3 DEF put_over, RingState
  <2> HIDE DEF n
  <2>2. \A j \in Slot : n.buf[j] = IF j = r.last THEN c ELSE r.buf[j]
    BY <1>0, <1>2
  <2>3. contents(n) = Drop(Append(contents(r), c), 1) /\ LastRight(n)
    BY <1>1, <1>2, <1>3, <2>1, <2>2, PutDrops
  <2> QED
    BY <1>0, <1>3, <2>1, <2>3 DEF n
<1>4. CASE r.size < SIZE
  <2>1. n.first = r.first /\ n.size = r.size + 1
    BY <1>0, <1>4 DEF put_over, RingState
  <2> HIDE DEF n
  <2>2. Grown(r, n, c)
    BY <1>0, <1>2, <1>4, <2>1 DEF Grown
  <2>3. contents(n) = Append(contents(r), c) /\ LastRight(n)
    BY <1>1, <2>2, PutAppends
  <2> QED
    BY <1>0, <1>4, <2>1, <2>3 DEF n
<1> QED
  BY <1>0, <1>3, <1>4

-----------------------------------------------------------------------------
\* The invariant.

Lock == LockInv(k.q[DevQ], printing, locked)

IInv ==
    /\ TypeOK
    /\ AllLinked(k) /\ HighestRuns(k) /\ ActiveFree(k)
    /\ Lock

UartTypes ==
    /\ in \in RingState(Char, NULL) /\ out \in RingState(Char, NULL)
    /\ thr \in Char \cup {NULL} /\ rbr \in Char \cup {NULL}
    /\ iir \subseteq {"IIR_THR_EMPTY", "IIR_RECV_DATA"}

\* The queue of the device is not that of an alarm.
LEMMA DevQueue ==
    /\ DevQ \in WaitQ /\ DevQ \notin AlarmQs
    /\ \A t \in Worker : AlarmQ(t) \in WaitQ /\ DevQ # AlarmQ(t)
<1>1. \A t \in Worker : DevQ # AlarmQ(t)
  <2> SUFFICES ASSUME NEW t \in Worker, <<"device", "uart">> = <<"alarm", t>> PROVE FALSE
    BY DEF DevQ, AlarmQ
  <2>1. <<"device", "uart">>[1] = <<"alarm", t>>[1]
    OBVIOUS
  <2> QED
    BY <2>1
<1> QED
  BY <1>1, ConsoleAssumption DEF AlarmQs

\* The initial states satisfy the invariant.
LEMMA InitIInv == Init => IInv
<1> SUFFICES ASSUME Init PROVE IInv
  OBVIOUS
<1>1. AllLinked(k) /\ HighestRuns(k) /\ ActiveFree(k) /\ k.q[DevQ] = <<>>
  BY InitAll, DevQueue DEF Init
<1>2. empty_ring(NULL) \in RingState(Char, NULL)
  BY RingAssumption DEF empty_ring, RingState, Slot
<1>3. TypeOK
  <2>1. -1 \in -1..MaxPrint
    BY ConsoleAssumption
  <2>2. printing \in [Thread -> -1..MaxPrint]
    BY <2>1 DEF Init
  <2>3. k \in KState /\ locked \in BOOLEAN
    BY <1>1 DEF Init, AllLinked, Linked
  <2> QED
    BY <1>2, <2>2, <2>3 DEF Init, TypeOK
<1>4. Lock
  BY <1>1, KThreadsAssumption DEF Init, Lock, LockInv, Stands, Past
<1> QED
  BY <1>1, <1>3, <1>4 DEF IInv

\* What holds when a worker makes a call: it stands in no queue.
LEMMA RunningFacts ==
    ASSUME IInv, NEW t \in Worker, Running(t)
    PROVE  /\ AllLinked(k) /\ HighestRuns(k) /\ ActiveFree(k) /\ Lock /\ TypeOK
           /\ k.active = t /\ t \in Thread
           /\ k.q[DevQ] \in Seq(Thread) /\ ~Stands(k.q[DevQ], t)
           /\ \A i, j \in 1..Len(k.q[DevQ]) : k.q[DevQ][i] = k.q[DevQ][j] => i = j
<1>1. /\ AllLinked(k) /\ HighestRuns(k) /\ ActiveFree(k) /\ Lock /\ TypeOK
      /\ k.active = t /\ t \in Thread
  BY DEF IInv, Running, Worker
<1>2. DevQ \in Queue /\ DevQ \in WaitQ
  BY DevQueue, QueueNames
<1>3. k.q[DevQ] \in Seq(Thread)
  BY <1>1, <1>2 DEF TypeOK, KState
<1>4. k.queue[t] # DevQ
  BY <1>1, <1>2 DEF ActiveFree
<1>5. ~Stands(k.q[DevQ], t)
  BY <1>1, <1>2, <1>4, QueueTrue DEF Stands
<1>6. \A i, j \in 1..Len(k.q[DevQ]) : k.q[DevQ][i] = k.q[DevQ][j] => i = j
  BY <1>1, <1>2 DEF AllLinked, Linked, LinkedOnce
<1> QED
  BY <1>1, <1>3, <1>5, <1>6

\* A step that leaves the threads and the lock alone.
LEMMA UartStep ==
    ASSUME IInv, UNCHANGED <<k, lockvars>>, UartTypes'
    PROVE  IInv'
  BY DEF IInv, TypeOK, UartTypes, lockvars, Lock, LockInv, Past, Stands,
         AllLinked, HighestRuns, ActiveFree

\* uart_send keeps the types of the device.
LEMMA SendTypes ==
    ASSUME UartTypes, NEW c \in Char, uart_send(c)
    PROVE  UartTypes'
<1> DEFINE o == put_if_room(out, c)
<1>1. o \in RingState(Char, NULL)
  BY RingTypes DEF UartTypes
<1> HIDE DEF o
<1>2. /\ o.size > 0 => take(o) \in RingState(Char, NULL)
      /\ oldest(o) \in Char \cup {NULL}
  BY <1>1, RingTypes
<1>3. out' = uart_write(o, thr)[1] /\ thr' = uart_write(o, thr)[2]
  BY DEF uart_send, o
<1>4. out' \in RingState(Char, NULL) /\ thr' \in Char \cup {NULL}
  BY <1>1, <1>2, <1>3 DEF uart_write, UartTypes
<1> QED
  BY <1>4 DEF uart_send, UartTypes

\* So does the interrupt handler, for a received character and for an empty
\* holding register.
LEMMA HandlerTypes ==
    ASSUME UartTypes, uart_interrupt_handler
    PROVE  UartTypes'
<1>1. CASE "IIR_RECV_DATA" \in iir
  <2>1. in' = uart_read(in, rbr)[1] /\ rbr' = uart_read(in, rbr)[2]
    BY <1>1 DEF uart_interrupt_handler
  <2>2. rbr # NULL => put_over(in, rbr) \in RingState(Char, NULL)
    BY RingTypes DEF UartTypes
  <2>3. in' \in RingState(Char, NULL) /\ rbr' \in Char \cup {NULL}
    BY <2>1, <2>2 DEF uart_read, UartTypes
  <2> QED
    BY <1>1, <2>3 DEF uart_interrupt_handler, UartTypes
<1>2. CASE "IIR_RECV_DATA" \notin iir
  <2>1. out' = uart_write(out, thr)[1] /\ thr' = uart_write(out, thr)[2]
    BY <1>2 DEF uart_interrupt_handler
  <2>2. /\ out.size > 0 => take(out) \in RingState(Char, NULL)
        /\ oldest(out) \in Char \cup {NULL}
    BY RingTypes DEF UartTypes
  <2>3. out' \in RingState(Char, NULL) /\ thr' \in Char \cup {NULL}
    BY <2>1, <2>2 DEF uart_write, UartTypes
  <2> QED
    BY <1>2, <2>3 DEF uart_interrupt_handler, UartTypes
<1> QED
  BY <1>1, <1>2

\* So does uart_recv.
LEMMA RecvTypes ==
    ASSUME UartTypes, NEW t, uart_recv(t)
    PROVE  UartTypes'
<1> DEFINE i == uart_read(in, rbr)[1]
<1>1. i \in RingState(Char, NULL)
  BY RingTypes DEF UartTypes, uart_read
<1>2. in' = IF i.size > 0 THEN take(i) ELSE i
  BY DEF uart_recv
<1> HIDE DEF i
<1>3. in' \in RingState(Char, NULL)
  BY <1>1, <1>2, RingTypes
<1> QED
  BY <1>3 DEF uart_recv, UartTypes

-----------------------------------------------------------------------------
\* One step per action.

\* print locks the device or blocks its caller in the device's queue.
LEMMA PrintStep ==
    ASSUME IInv, NEW t \in Worker, NEW n \in 0..MaxPrint, print(t, n)
    PROVE  IInv'
<1>1. /\ Running(t) /\ printing[t] = -1 /\ k_device_lock(t)
      /\ printing' = [printing EXCEPT ![t] = n] /\ UNCHANGED uartvars
  BY DEF print
<1>2. /\ AllLinked(k) /\ HighestRuns(k) /\ ActiveFree(k) /\ Lock /\ TypeOK
      /\ k.active = t /\ t \in Thread /\ k.q[DevQ] \in Seq(Thread)
  BY <1>1, RunningFacts
<1>3. /\ printing \in [Thread -> -1..MaxPrint] /\ locked \in BOOLEAN
      /\ LockInv(k.q[DevQ], printing, locked) /\ DevQ \in WaitQ
  BY <1>2, DevQueue DEF TypeOK, Lock
<1>4. printing' \in [Thread -> -1..MaxPrint] /\ locked' = TRUE
  <2>1. n \in -1..MaxPrint
    BY ConsoleAssumption
  <2> QED
    BY <1>1, <1>2, <1>3, <2>1 DEF k_device_lock
<1>5. AllLinked(k') /\ HighestRuns(k') /\ ActiveFree(k') /\ Lock'
  <2>1. CASE locked
    <3>1. k' = kthreads_schedule(kthread_enqueue(k, t, DevQ))
      BY <1>1, <2>1 DEF k_device_lock
    <3>2. AllLinked(k') /\ HighestRuns(k') /\ k'.q[DevQ] = Append(k.q[DevQ], t)
      BY <1>2, <1>3, <3>1, BlockAll
    <3>3. ActiveFree(k')
      BY <1>2, <1>3, <3>1, BlockFrees
    <3>4. LockInv(Append(k.q[DevQ], t), [printing EXCEPT ![t] = n], locked)
      BY <1>1, <1>2, <1>3, <2>1, LockQueues
    <3>5. Lock'
      BY <1>1, <1>4, <2>1, <3>2, <3>4 DEF Lock, LockInv
    <3> QED
      BY <3>2, <3>3, <3>5
  <2>2. CASE ~locked
    <3>1. k' = k
      BY <1>1, <2>2 DEF k_device_lock
    <3>2. LockInv(k.q[DevQ], printing, FALSE)
      BY <1>3, <2>2 DEF LockInv
    <3>3. LockInv(k.q[DevQ], [printing EXCEPT ![t] = n], TRUE)
      BY <1>2, <1>3, <3>2, LockPasses
    <3>4. Lock'
      BY <1>1, <1>4, <3>1, <3>3 DEF Lock
    <3> QED
      BY <1>2, <3>1, <3>4
  <2> QED
    BY <2>1, <2>2
<1>6. TypeOK'
  BY <1>1, <1>2, <1>4, <1>5 DEF TypeOK, uartvars, AllLinked, Linked
<1> QED
  BY <1>5, <1>6 DEF IInv, AllLinked, HighestRuns, ActiveFree

\* A character that is printed leaves the lock alone.
LEMMA PrintCharStep ==
    ASSUME IInv, NEW t \in Worker, NEW c \in Char, print_char(t, c)
    PROVE  IInv'
<1>1. /\ Running(t) /\ printing[t] > 0 /\ uart_send(c)
      /\ printing' = [printing EXCEPT ![t] = printing[t] - 1] /\ UNCHANGED <<k, locked>>
  BY DEF print_char
<1>2. /\ AllLinked(k) /\ HighestRuns(k) /\ ActiveFree(k) /\ Lock /\ TypeOK
      /\ t \in Thread /\ k.q[DevQ] \in Seq(Thread)
  BY <1>1, RunningFacts
<1>3. printing \in [Thread -> -1..MaxPrint] /\ UartTypes
  BY <1>2 DEF TypeOK, UartTypes
<1>4. UartTypes'
  BY <1>1, <1>3, SendTypes
<1>5. printing' \in [Thread -> -1..MaxPrint]
  <2>1. printing[t] - 1 \in -1..MaxPrint
    BY <1>1, <1>2, <1>3, ConsoleAssumption
  <2> QED
    BY <1>1, <1>3, <2>1
<1>6. LockInv(k.q[DevQ], [printing EXCEPT ![t] = printing[t] - 1], locked)
  BY <1>1, <1>2, <1>3, LockStays DEF Lock
<1>7. Lock'
  BY <1>1, <1>6 DEF Lock
<1>8. TypeOK'
  BY <1>1, <1>2, <1>4, <1>5 DEF TypeOK, UartTypes
<1> QED
  BY <1>1, <1>2, <1>7, <1>8 DEF IInv, AllLinked, HighestRuns, ActiveFree

\* The unlock passes the device on to the first of the queue, or frees it.
LEMMA PrintDoneStep ==
    ASSUME IInv, NEW t \in Worker, print_done(t)
    PROVE  IInv'
<1>1. /\ Running(t) /\ printing[t] = 0 /\ k_device_unlock
      /\ printing' = [printing EXCEPT ![t] = -1] /\ UNCHANGED uartvars
  BY DEF print_done
<1>2. /\ AllLinked(k) /\ HighestRuns(k) /\ ActiveFree(k) /\ Lock /\ TypeOK
      /\ t \in Thread /\ k.q[DevQ] \in Seq(Thread) /\ ~Stands(k.q[DevQ], t)
      /\ \A i, j \in 1..Len(k.q[DevQ]) : k.q[DevQ][i] = k.q[DevQ][j] => i = j
  BY <1>1, RunningFacts
<1>3. /\ printing \in [Thread -> -1..MaxPrint] /\ locked \in BOOLEAN
      /\ LockInv(k.q[DevQ], printing, locked) /\ DevQ \in WaitQ
      /\ Past(k.q[DevQ], printing, t)
  BY <1>1, <1>2, DevQueue DEF TypeOK, Lock, Past
<1>4. printing' \in [Thread -> -1..MaxPrint]
  <2>1. -1 \in -1..MaxPrint
    BY ConsoleAssumption
  <2> QED
    BY <1>1, <1>2, <1>3, <2>1
<1>5. AllLinked(k') /\ HighestRuns(k') /\ ActiveFree(k') /\ Lock' /\ locked' \in BOOLEAN
  <2>1. CASE k.q[DevQ] = <<>>
    <3>1. k' = k /\ locked' = FALSE
      BY <1>1, <2>1 DEF k_device_unlock
    <3>2. LockInv(k.q[DevQ], [printing EXCEPT ![t] = -1], FALSE)
      BY <1>2, <1>3, <2>1, LockOpens
    <3>3. Lock'
      BY <1>1, <3>1, <3>2 DEF Lock
    <3> QED
      BY <1>2, <3>1, <3>3
  <2>2. CASE k.q[DevQ] # <<>>
    <3>1. k' = kthreads_schedule(kthreadq_release(k, DevQ)) /\ locked' = locked
      BY <1>1, <1>3, <2>2 DEF k_device_unlock
    <3>2. AllLinked(k') /\ HighestRuns(k') /\ k'.q[DevQ] = Tail(k.q[DevQ])
      BY <1>2, <1>3, <2>2, <3>1, WakeAll
    <3>3. ActiveFree(k')
      BY <1>2, <1>3, <3>1, WakeFrees
    <3>4. locked /\ LockInv(Tail(k.q[DevQ]), [printing EXCEPT ![t] = -1], TRUE)
      BY <1>2, <1>3, <2>2, LockPassedOn
    <3>5. Lock'
      BY <1>1, <3>1, <3>2, <3>4 DEF Lock, LockInv
    <3> QED
      BY <1>3, <3>1, <3>2, <3>3, <3>5
  <2> QED
    BY <2>1, <2>2
<1>6. TypeOK'
  BY <1>1, <1>2, <1>4, <1>5 DEF TypeOK, uartvars, AllLinked, Linked
<1> QED
  BY <1>5, <1>6 DEF IInv, AllLinked, HighestRuns, ActiveFree

\* A thread that waits for its alarm leaves the processor, not the device.
LEMMA SleepStep ==
    ASSUME IInv, NEW t \in Worker, sys__wait_for_alarm(t)
    PROVE  IInv'
<1>1. /\ k.active = t /\ t # Idle /\ k' = kthreads_schedule(kthread_enqueue(k, t, AlarmQ(t)))
      /\ UNCHANGED <<lockvars, uartvars>>
  BY DEF sys__wait_for_alarm, sleep
<1>2. AllLinked(k) /\ HighestRuns(k) /\ Lock /\ TypeOK
  BY DEF IInv
<1>3. AlarmQ(t) \in WaitQ /\ DevQ \in WaitQ \ {AlarmQ(t)}
  BY DevQueue
<1>4. AllLinked(k') /\ HighestRuns(k') /\ k'.q[DevQ] = k.q[DevQ]
  BY <1>1, <1>2, <1>3, BlockAll
<1>5. ActiveFree(k')
  BY <1>1, <1>2, <1>3, BlockFrees
<1>6. TypeOK' /\ Lock'
  BY <1>1, <1>2, <1>4 DEF TypeOK, Lock, lockvars, uartvars, AllLinked, Linked
<1> QED
  BY <1>4, <1>5, <1>6 DEF IInv, AllLinked, HighestRuns, ActiveFree

\* The timer interrupt readies a sleeper; nobody enters or leaves the device.
LEMMA TimerStep ==
    ASSUME IInv, NEW t \in Worker, k_timer_interrupt(t)
    PROVE  IInv'
<1>1. /\ k' = kthreads_schedule(kthreadq_release(k, AlarmQ(t)))
      /\ UNCHANGED <<lockvars, uartvars>>
  BY DEF k_timer_interrupt, wake
<1>2. AllLinked(k) /\ HighestRuns(k) /\ ActiveFree(k) /\ Lock /\ TypeOK
  BY DEF IInv
<1>3. AlarmQ(t) \in WaitQ /\ DevQ \in WaitQ \ {AlarmQ(t)}
  BY DevQueue
<1>4. AllLinked(k') /\ HighestRuns(k') /\ k'.q[DevQ] = k.q[DevQ]
  BY <1>1, <1>2, <1>3, WakeAll
<1>5. ActiveFree(k')
  BY <1>1, <1>2, <1>3, WakeFrees
<1>6. TypeOK' /\ Lock'
  BY <1>1, <1>2, <1>4 DEF TypeOK, Lock, lockvars, uartvars, AllLinked, Linked
<1> QED
  BY <1>4, <1>5, <1>6 DEF IInv, AllLinked, HighestRuns, ActiveFree

\* Every step keeps the invariant.
LEMMA NextIInv == IInv /\ [Next]_vars => IInv'
<1> SUFFICES ASSUME IInv, [Next]_vars PROVE IInv'
  OBVIOUS
<1>0. UartTypes
  BY DEF IInv, TypeOK, UartTypes
<1>1. ASSUME NEW t \in Worker, NEW n \in 0..MaxPrint, print(t, n) PROVE IInv'
  BY <1>1, PrintStep
<1>2. ASSUME NEW t \in Worker, NEW c \in Char, print_char(t, c) PROVE IInv'
  BY <1>2, PrintCharStep
<1>3. ASSUME NEW t \in Worker, print_done(t) PROVE IInv'
  BY <1>3, PrintDoneStep
<1>4. ASSUME NEW t \in Worker, uart_recv(t) PROVE IInv'
  <2>1. UartTypes'
    BY <1>0, <1>4, RecvTypes
  <2> QED
    BY <1>4, <2>1, UartStep DEF uart_recv
<1>5. ASSUME uart_interrupt_handler PROVE IInv'
  <2>1. UartTypes'
    BY <1>0, <1>5, HandlerTypes
  <2> QED
    BY <1>5, <2>1, UartStep DEF uart_interrupt_handler
<1>6. ASSUME transmitted PROVE IInv'
  <2>1. UartTypes'
    BY <1>0, <1>6 DEF UartTypes, transmitted
  <2> QED
    BY <1>6, <2>1, UartStep DEF transmitted
<1>7. ASSUME NEW c \in Char, received(c) PROVE IInv'
  <2>1. UartTypes'
    BY <1>0, <1>7 DEF UartTypes, received
  <2> QED
    BY <1>7, <2>1, UartStep DEF received
<1>8. ASSUME NEW t \in Worker, sys__wait_for_alarm(t) PROVE IInv'
  BY <1>8, SleepStep
<1>9. ASSUME NEW t \in Worker, k_timer_interrupt(t) PROVE IInv'
  BY <1>9, TimerStep
<1>10. ASSUME UNCHANGED vars PROVE IInv'
  <2>1. UNCHANGED <<k, lockvars>> /\ UartTypes'
    BY <1>0, <1>10 DEF vars, uartvars, UartTypes
  <2> QED
    BY <2>1, UartStep
<1> QED
  BY <1>1, <1>2, <1>3, <1>4, <1>5, <1>6, <1>7, <1>8, <1>9, <1>10 DEF Next

\* print, the serial driver and the interrupts keep the inductive invariant.
THEOREM SpecIInv == Spec => []IInv
  BY InitIInv, NextIInv, PTL DEF Spec

\* The descriptor names the device's queue exactly for those that stand in it,
\* so the threads past the lock are the threads inside.
LEMMA PastIsInside ==
    ASSUME IInv, NEW t \in Thread
    PROVE  Past(k.q[DevQ], printing, t) <=> inside(t)
<1>1. AllLinked(k) /\ ActiveFree(k) /\ DevQ \in WaitQ
  BY DevQueue DEF IInv
<1>2. k.queue[t] = DevQ <=> Stands(k.q[DevQ], t)
  BY <1>1, QueueTrue DEF Stands
<1> QED
  BY <1>2 DEF Past, inside

-----------------------------------------------------------------------------
\* The results.

\* The state of the threads, of the lock and of the serial driver is well formed,
\* no thread is lost by k_device_lock, k_device_unlock or an interrupt, and the
\* highest ready priority runs after each.
THEOREM SpecSchedulingKept == Spec => []SchedulingKept
<1>1. IInv => SchedulingKept
  BY DEF IInv, SchedulingKept, AllLinked, Linked
<1> QED
  BY <1>1, SpecIInv, PTL

\* Only one thread at a time is past the lock of print.
THEOREM SpecPrintsWhole == Spec => []PrintsWhole
<1>1. IInv => PrintsWhole
  <2> SUFFICES ASSUME IInv, NEW t \in Worker, NEW u \in Worker, inside(t), inside(u)
               PROVE  t = u
    BY DEF PrintsWhole
  <2>1. t \in Thread /\ u \in Thread
    BY DEF Worker
  <2>2. Past(k.q[DevQ], printing, t) /\ Past(k.q[DevQ], printing, u)
    BY <2>1, PastIsInside
  <2> QED
    BY <2>1, <2>2 DEF IInv, Lock, LockInv
<1> QED
  BY <1>1, SpecIInv, PTL

\* The device is locked exactly while a thread is inside, and whenever one waits.
THEOREM SpecLockedHasHolder == Spec => []LockedHasHolder
<1>1. IInv => LockedHasHolder
  <2> SUFFICES ASSUME IInv PROVE LockedHasHolder
    OBVIOUS
  <2>1. Lock /\ \A t \in Thread : Past(k.q[DevQ], printing, t) <=> inside(t)
    BY PastIsInside DEF IInv
  <2>2. ~inside(Idle)
    BY <2>1 DEF Lock, LockInv, inside
  <2>3. locked <=> \E t \in Worker : inside(t)
    BY <2>1, <2>2 DEF Lock, LockInv, Worker
  <2>4. k.q[DevQ] # <<>> => locked
    BY <2>1 DEF Lock, LockInv
  <2> QED
    BY <2>3, <2>4 DEF LockedHasHolder
<1> QED
  BY <1>1, SpecIInv, PTL

-----------------------------------------------------------------------------
\* The buffers of the serial driver are the queues they promise.

QueueFacts(r) == r \in RingState(Char, NULL) /\ LastRight(r)

RingInv == QueueFacts(in) /\ QueueFacts(out)

\* Steps of the buffers that are steps of the queues.
LEMMA LengthIsSize ==
    ASSUME NEW r, QueueFacts(r)
    PROVE  /\ contents(r) \in Seq(Char \cup {NULL}) /\ Len(contents(r)) = r.size
           /\ r.size \in Nat /\ r.size <= SIZE /\ SIZE \in Nat
           /\ \A c \in Char : /\ Append(contents(r), c) \in Seq(Char \cup {NULL})
                              /\ Len(Append(contents(r), c)) = r.size + 1
<1>1. r \in RingState(Char, NULL)
  BY DEF QueueFacts
<1>2. Elements(r, Char \cup {NULL})
  BY <1>1, ContentsSeq
<1>3. contents(r) \in Seq(Char \cup {NULL}) /\ Len(contents(r)) = r.size
  BY <1>2 DEF Elements
<1>4. r.size \in Nat /\ r.size <= SIZE /\ SIZE \in Nat
  BY <1>1, RingFields
<1>5. ASSUME NEW c \in Char
      PROVE  /\ Append(contents(r), c) \in Seq(Char \cup {NULL})
             /\ Len(Append(contents(r), c)) = r.size + 1
  BY <1>3, AppendProperties
<1> QED
  BY <1>3, <1>4, <1>5

\* The step of the output queue in which a character is sent.
LEMMA OutLeaves ==
    ASSUME QueueFacts(out), out.size > 0, contents(out') = Drop(contents(out), 1)
    PROVE  OutQueue!Next
<1>1. 1 \in 1..Len(contents(out))
  BY LengthIsSize
<1> QED
  BY <1>1 DEF OutQueue!Next, OutQueue!Leave, OutQueue!Without, Drop

\* The step of the input queue in which a character is read.
LEMMA InLeaves ==
    ASSUME QueueFacts(in), in.size > 0, contents(in') = Drop(contents(in), 1)
    PROVE  InQueue!Next
<1>1. 1 \in 1..Len(contents(in))
  BY LengthIsSize
<1> QED
  BY <1>1 DEF InQueue!Next, InQueue!Leave, InQueue!Without, Drop

\* What a character sent does to outbuff, room or not, before the chip takes one.
LEMMA OutAfter ==
    ASSUME QueueFacts(out), NEW c \in Char, NEW o, o = put_if_room(out, c)
    PROVE  /\ o \in RingState(Char, NULL) /\ LastRight(o) /\ o.size > 0
           /\ contents(o) = OutQueue!After(contents(out), c)
<1>1. out \in RingState(Char, NULL) /\ LastRight(out)
  BY DEF QueueFacts
<1>2. /\ o \in RingState(Char, NULL) /\ LastRight(o)
      /\ out.size = SIZE => o = out
      /\ out.size < SIZE => contents(o) = Append(contents(out), c) /\ o.size > 0
  BY <1>1, RingTypes, PutIfRoomContents
<1>3. /\ out.size \in Nat /\ out.size <= SIZE /\ SIZE \in Nat /\ SIZE > 0
      /\ Len(contents(out)) = out.size
  BY LengthIsSize, RingAssumption
<1>4. CASE out.size = SIZE
  BY <1>2, <1>3, <1>4 DEF OutQueue!After
<1>5. CASE out.size < SIZE
  BY <1>2, <1>3, <1>5 DEF OutQueue!After
<1> QED
  BY <1>3, <1>4, <1>5

\* uart_send: the character is appended, or refused when the buffer is full;
\* then the oldest goes to the chip if that is free.
LEMMA SendSteps ==
    ASSUME UartTypes, RingInv, NEW c \in Char, uart_send(c)
    PROVE  /\ QueueFacts(out') /\ OutQueue!Next
           /\ IF thr = NULL THEN OutQueue!ComeAndLeave(c) ELSE OutQueue!Come(c)
<1> DEFINE o == put_if_room(out, c)
<1>1. QueueFacts(out)
  BY DEF RingInv
<1>2. /\ o \in RingState(Char, NULL) /\ LastRight(o) /\ o.size > 0
      /\ contents(o) = OutQueue!After(contents(out), c)
  BY <1>1, OutAfter
<1>3. out' = uart_write(o, thr)[1]
  BY DEF uart_send
<1> HIDE DEF o
<1>4. CASE thr = NULL
  <2>1. out' = take(o)
    BY <1>2, <1>3, <1>4 DEF uart_write
  <2>2. contents(out') = Drop(contents(o), 1) /\ LastRight(out') /\ out' \in RingState(Char, NULL)
    BY <1>2, <2>1, TakeContents, RingTypes
  <2>3. OutQueue!ComeAndLeave(c)
    BY <1>2, <2>2 DEF OutQueue!ComeAndLeave, OutQueue!Without, Drop
  <2> QED
    BY <1>4, <2>2, <2>3 DEF QueueFacts, OutQueue!Next
<1>5. CASE thr # NULL
  <2>1. out' = o
    BY <1>3, <1>5 DEF uart_write
  <2>2. OutQueue!Come(c)
    BY <1>2, <2>1 DEF OutQueue!Come
  <2> QED
    BY <1>2, <1>5, <2>1, <2>2 DEF QueueFacts, OutQueue!Next
<1> QED
  BY <1>4, <1>5

\* A received character, stored by the handler or by uart_recv: behind the others,
\* at the cost of the oldest when there is no room.
LEMMA ReadSteps ==
    ASSUME UartTypes, RingInv, NEW i, i = uart_read(in, rbr)[1]
    PROVE  /\ QueueFacts(i)
           /\ rbr = NULL => i = in
           /\ rbr # NULL => /\ rbr \in Char /\ i.size > 0
                            /\ contents(i) = InQueue!After(contents(in), rbr)
<1>1. QueueFacts(in) /\ in \in RingState(Char, NULL) /\ LastRight(in)
  BY DEF RingInv, QueueFacts
<1>2. CASE rbr = NULL
  BY <1>1, <1>2 DEF uart_read
<1>3. CASE rbr # NULL
  <2>1. rbr \in Char /\ i = put_over(in, rbr)
    BY <1>3 DEF UartTypes, uart_read
  <2>2. in.size \in Nat /\ in.size <= SIZE /\ SIZE \in Nat /\ Len(contents(in)) = in.size
    BY <1>1, LengthIsSize
  <2>3. /\ LastRight(i) /\ i.size > 0
        /\ in.size < SIZE => contents(i) = Append(contents(in), rbr)
        /\ in.size = SIZE => contents(i) = Drop(Append(contents(in), rbr), 1)
    BY <1>1, <2>1, PutOverContents
  <2>4. i \in RingState(Char, NULL)
    <3>1. \A c \in Char : put_over(in, c) \in RingState(Char, NULL)
      BY <1>1, RingTypes
    <3> QED
      BY <1>1, <2>1, <3>1
  <2>5. ASSUME in.size < SIZE PROVE contents(i) = InQueue!After(contents(in), rbr)
    BY <2>2, <2>3, <2>5 DEF InQueue!After
  <2>6. ASSUME in.size = SIZE PROVE contents(i) = InQueue!After(contents(in), rbr)
    <3>1. ~(Len(contents(in)) < SIZE)
      BY <2>2, <2>6
    <3>2. InQueue!After(contents(in), rbr) = InQueue!Without(Append(contents(in), rbr), 1)
      BY <3>1 DEF InQueue!After
    <3>3. \A s : InQueue!Without(s, 1) = Drop(s, 1)
      BY DEF InQueue!Without, Drop
    <3> QED
      BY <2>3, <2>6, <3>2, <3>3
  <2>7. contents(i) = InQueue!After(contents(in), rbr)
    BY <2>2, <2>5, <2>6
  <2> QED
    BY <1>3, <2>1, <2>3, <2>4, <2>7 DEF QueueFacts
<1> QED
  BY <1>2, <1>3

\* uart_recv: the character that waits in the chip is stored, then the oldest read.
LEMMA RecvSteps ==
    ASSUME UartTypes, RingInv, NEW t, uart_recv(t)
    PROVE  /\ QueueFacts(in') /\ (InQueue!Next \/ in' = in)
           /\ rbr # NULL => InQueue!ComeAndLeave(rbr)
<1> DEFINE i == uart_read(in, rbr)[1]
<1>1. in' = IF i.size > 0 THEN take(i) ELSE i
  BY DEF uart_recv
<1>2. /\ QueueFacts(i)
      /\ rbr = NULL => i = in
      /\ rbr # NULL => /\ rbr \in Char /\ i.size > 0
                       /\ contents(i) = InQueue!After(contents(in), rbr)
  BY ReadSteps
<1> HIDE DEF i
<1>3. QueueFacts(in) /\ in.size \in Nat
  BY LengthIsSize DEF RingInv
<1>4. i.size > 0 => QueueFacts(in') /\ contents(in') = Drop(contents(i), 1)
  BY <1>1, <1>2, TakeContents, RingTypes DEF QueueFacts
<1>5. CASE rbr = NULL
  BY <1>1, <1>2, <1>3, <1>4, <1>5, InLeaves
<1>6. CASE rbr # NULL
  <2>1. InQueue!ComeAndLeave(rbr)
    BY <1>2, <1>4, <1>6 DEF InQueue!ComeAndLeave, InQueue!Without, Drop
  <2> QED
    BY <1>2, <1>4, <1>6, <2>1 DEF InQueue!Next
<1> QED
  BY <1>5, <1>6

\* The handler: stores what has been received, or sends the next character.
LEMMA HandlerSteps ==
    ASSUME UartTypes, RingInv, uart_interrupt_handler
    PROVE  /\ RingInv' /\ (InQueue!Next \/ in' = in) /\ (OutQueue!Next \/ out' = out)
           /\ rbr # NULL /\ rbr' = NULL => InQueue!Come(rbr)
<1>0. /\ QueueFacts(in) /\ QueueFacts(out) /\ out.size \in Nat
  BY LengthIsSize DEF RingInv
<1>1. CASE "IIR_RECV_DATA" \in iir
  <2>1. in' = uart_read(in, rbr)[1] /\ out' = out
    BY <1>1 DEF uart_interrupt_handler
  <2>2. /\ QueueFacts(in')
        /\ rbr = NULL => in' = in
        /\ rbr # NULL => /\ rbr \in Char
                         /\ contents(in') = InQueue!After(contents(in), rbr)
    BY <2>1, ReadSteps
  <2>3. rbr # NULL => InQueue!Come(rbr) /\ InQueue!Next
    BY <2>2 DEF InQueue!Come, InQueue!Next
  <2>4. RingInv'
    BY <1>0, <2>1, <2>2 DEF RingInv
  <2> QED
    BY <2>1, <2>2, <2>3, <2>4
<1>2. CASE "IIR_RECV_DATA" \notin iir
  <2>1. out' = uart_write(out, thr)[1] /\ in' = in /\ rbr' = rbr
    BY <1>2 DEF uart_interrupt_handler
  <2>2. CASE out.size > 0 /\ thr = NULL
    <3>1. out' = take(out)
      BY <2>1, <2>2 DEF uart_write
    <3>2. QueueFacts(out') /\ contents(out') = Drop(contents(out), 1)
      BY <1>0, <2>2, <3>1, TakeContents, RingTypes DEF QueueFacts
    <3>3. OutQueue!Next
      BY <1>0, <2>2, <3>2, OutLeaves
    <3> QED
      BY <1>0, <2>1, <3>2, <3>3 DEF RingInv
  <2>3. CASE ~(out.size > 0 /\ thr = NULL)
    <3>1. out' = out
      BY <2>1, <2>3 DEF uart_write
    <3> QED
      BY <1>0, <2>1, <3>1 DEF RingInv
  <2> QED
    BY <2>2, <2>3
<1> QED
  BY <1>1, <1>2

\* Every step of the console is a step or a stutter of both queues.
LEMMA StepImplements ==
    ASSUME IInv, RingInv, [Next]_vars
    PROVE  RingInv' /\ (InQueue!Next \/ in' = in) /\ (OutQueue!Next \/ out' = out)
<1> DEFINE Goal == RingInv' /\ (InQueue!Next \/ in' = in) /\ (OutQueue!Next \/ out' = out)
<1>0. UartTypes
  BY DEF IInv, TypeOK, UartTypes
<1>1. ASSUME in' = in, out' = out PROVE Goal
  BY <1>1 DEF RingInv
<1> HIDE DEF Goal
<1>2. ASSUME NEW t \in Worker, NEW c \in Char, print_char(t, c) PROVE Goal
  <2>1. uart_send(c) /\ in' = in
    BY <1>2 DEF print_char, uart_send
  <2>2. QueueFacts(out') /\ OutQueue!Next
    BY <1>0, <2>1, SendSteps
  <2> QED
    BY <2>1, <2>2 DEF Goal, RingInv
<1>3. ASSUME NEW t \in Worker, uart_recv(t) PROVE Goal
  <2>1. out' = out
    BY <1>3 DEF uart_recv
  <2>2. QueueFacts(in') /\ (InQueue!Next \/ in' = in)
    BY <1>0, <1>3, RecvSteps
  <2> QED
    BY <2>1, <2>2 DEF Goal, RingInv
<1>4. ASSUME uart_interrupt_handler PROVE Goal
  BY <1>0, <1>4, HandlerSteps DEF Goal
<1>5. ASSUME NEW t \in Worker, NEW n \in 0..MaxPrint, print(t, n) PROVE Goal
  BY <1>1, <1>5 DEF print, uartvars
<1>6. ASSUME NEW t \in Worker, print_done(t) PROVE Goal
  BY <1>1, <1>6 DEF print_done, uartvars
<1>7. ASSUME transmitted PROVE Goal
  BY <1>1, <1>7 DEF transmitted
<1>8. ASSUME NEW c \in Char, received(c) PROVE Goal
  BY <1>1, <1>8 DEF received
<1>9. ASSUME NEW t \in Worker, sys__wait_for_alarm(t) \/ k_timer_interrupt(t) PROVE Goal
  BY <1>1, <1>9 DEF sys__wait_for_alarm, k_timer_interrupt, uartvars
<1>10. ASSUME UNCHANGED vars PROVE Goal
  BY <1>1, <1>10 DEF vars, uartvars
<1>11. Goal
  BY <1>2, <1>3, <1>4, <1>5, <1>6, <1>7, <1>8, <1>9, <1>10 DEF Next
<1> QED
  BY <1>11 DEF Goal

\* A step of ArrivalsKept.
Arrival ==
    /\ \A t \in Worker, c \in Char : print_char(t, c) =>
         IF thr = NULL THEN OutQueue!ComeAndLeave(c) ELSE OutQueue!Come(c)
    /\ uart_interrupt_handler /\ rbr # NULL /\ rbr' = NULL => InQueue!Come(rbr)
    /\ \A t \in Worker : uart_recv(t) /\ rbr # NULL => InQueue!ComeAndLeave(rbr)

\* Every character that comes is put into its buffer.
LEMMA StepArrives == ASSUME IInv, RingInv PROVE Arrival
<1>0. UartTypes
  BY DEF IInv, TypeOK, UartTypes
<1>1. ASSUME NEW t \in Worker, NEW c \in Char, print_char(t, c)
      PROVE  IF thr = NULL THEN OutQueue!ComeAndLeave(c) ELSE OutQueue!Come(c)
  <2>1. uart_send(c)
    BY <1>1 DEF print_char
  <2> QED
    BY <1>0, <2>1, SendSteps
<1>2. ASSUME uart_interrupt_handler, rbr # NULL, rbr' = NULL
      PROVE  InQueue!Come(rbr)
  BY <1>0, <1>2, HandlerSteps
<1>3. ASSUME NEW t \in Worker, uart_recv(t), rbr # NULL
      PROVE  InQueue!ComeAndLeave(rbr)
  BY <1>0, <1>3, RecvSteps
<1> QED
  BY <1>1, <1>2, <1>3 DEF Arrival

\* Both buffers start as empty queues.
LEMMA InitRings == Init => RingInv /\ OutQueue!Init /\ InQueue!Init
<1> SUFFICES ASSUME Init PROVE RingInv /\ OutQueue!Init /\ InQueue!Init
  OBVIOUS
<1> DEFINE e == empty_ring(NULL)
<1>1. in = e /\ out = e
  BY DEF Init
<1>2. e \in RingState(Char, NULL) /\ e.size = 0 /\ LastRight(e)
  BY RingAssumption DEF empty_ring, RingState, Slot, LastRight
<1> HIDE DEF e
<1>3. contents(e) = <<>>
  BY <1>2, LengthIsSize, EmptySeq DEF QueueFacts
<1> QED
  BY <1>1, <1>2, <1>3 DEF RingInv, QueueFacts, OutQueue!Init, InQueue!Init

\* The buffers of the serial driver, whatever their size: what is printed leaves
\* in order and is refused only when outbuff is full; what is received is read in
\* order, and each character the driver takes from the chip is kept, at the cost
\* of exactly the oldest one when inbuff is full.
THEOREM SpecBuffersInOrder == Spec => BuffersInOrder
<1>1. Init => RingInv /\ OutQueue!Init /\ InQueue!Init
  BY InitRings
<1>2. IInv /\ RingInv /\ [Next]_vars =>
        /\ RingInv'
        /\ [OutQueue!Next]_(contents(out))
        /\ [InQueue!Next]_(contents(in))
        /\ [Arrival]_vars
  BY StepImplements, StepArrives
<1>3. [][Arrival]_vars => ArrivalsKept
  BY PTL DEF Arrival, ArrivalsKept
<1> QED
  BY <1>1, <1>2, <1>3, SpecIInv, PTL DEF Spec, BuffersInOrder, OutQueue!Spec, InQueue!Spec

-----------------------------------------------------------------------------
\* The keyboard.  The driver decodes one code per interrupt, so what it will
\* believe once it has read all that waits is the end of a run of decoder states,
\* one before and one after each code.

Decoder == [spec : SUBSET AllKeys, multi : BOOLEAN]

Decode(c, d) == [spec  |-> i8042_prepare_char(c, d.spec, d.multi).spec,
                 multi |-> i8042_prepare_char(c, d.spec, d.multi).multi]

\* st runs through the codes s, from a to b.
IsRun(s, st, a, b) ==
    /\ st \in [0..Len(s) -> Decoder]
    /\ st[0] = a /\ st[Len(s)] = b
    /\ \A i \in 1..Len(s) : st[i] = Decode(s[i], st[i - 1])

Run(s, a, b) == \E st : IsRun(s, st, a, b)

Code == {"E0", "1E", "4B", "2A", "36", "1D", "38", "3A",
         "9E", "CB", "AA", "B6", "9D", "B8", "BA"}

\* A decoder stays one.
LEMMA DecodeType ==
    ASSUME NEW c, NEW d \in Decoder
    PROVE  Decode(c, d) \in Decoder
<1> DEFINE x == i8042_prepare_char(c, d.spec, d.multi)
<1>1. d.spec \in SUBSET AllKeys /\ d.multi \in BOOLEAN
  BY DEF Decoder
<1>2. /\ \A y \in DOMAIN multi_down : multi_down[y] \in AllKeys
      /\ \A y \in DOMAIN single_down : single_down[y] \in AllKeys
      /\ "CAPSL" \in AllKeys
  BY DEF multi_down, single_down, AllKeys
<1>3. ASSUME d.multi
      PROVE  prepare_multi(c, d.spec).spec \in SUBSET AllKeys
             /\ prepare_multi(c, d.spec).multi = FALSE
  BY <1>1, <1>2 DEF prepare_multi, result
<1>4. CASE d.multi
  BY <1>3, <1>4 DEF i8042_prepare_char, Decode, Decoder
<1>5. CASE ~d.multi
  <2>1. SymDiff(d.spec, {"CAPSL"}) \in SUBSET AllKeys
    BY <1>1, <1>2 DEF SymDiff
  <2> DEFINE y == SymDiff(d.spec, {"CAPSL"})
  <2> HIDE DEF y
  <2>2. x.spec \in SUBSET AllKeys /\ x.multi \in BOOLEAN
    BY <1>1, <1>2, <1>5, <2>1 DEF i8042_prepare_char, prepare_single, result, y
  <2> QED
    BY <2>2 DEF Decode, Decoder
<1> QED
  BY <1>1, <1>4, <1>5

\* A code that is sent goes behind those that wait: the run goes one further.
LEMMA RunGrows ==
    ASSUME NEW s \in Seq(Code), NEW c \in Code, NEW a, NEW b, Run(s, a, b)
    PROVE  Append(s, c) \in Seq(Code) /\ Run(Append(s, c), a, Decode(c, b))
<1> DEFINE n == Append(s, c)
           m == Len(s)
<1>1. PICK st : IsRun(s, st, a, b)
  BY DEF Run
<1>2. /\ st \in [0..m -> Decoder] /\ st[0] = a /\ st[m] = b
      /\ \A i \in 1..m : st[i] = Decode(s[i], st[i - 1])
  BY <1>1 DEF IsRun
<1>3. n \in Seq(Code) /\ Len(n) = m + 1 /\ n[m + 1] = c /\ m \in Nat
      /\ \A i \in 1..m : n[i] = s[i]
  BY AppendProperties, LenProperties
<1>4. b \in Decoder
  BY <1>2, <1>3
<1>5. Decode(c, b) \in Decoder
  BY <1>4, DecodeType
<1> HIDE DEF n, m
<1> DEFINE e == Decode(c, b)
           nt == [i \in 0..m + 1 |-> IF i = m + 1 THEN e ELSE st[i]]
<1>6. e \in Decoder
  BY <1>5
<1>7. /\ nt \in [0..m + 1 -> Decoder] /\ nt[0] = a /\ nt[m + 1] = e
      /\ \A i \in 0..m : nt[i] = st[i]
  <2> HIDE DEF e
  <2> QED
    BY <1>2, <1>3, <1>6
<1> HIDE DEF nt, e
<1>8. ASSUME NEW i \in 1..m + 1 PROVE nt[i] = Decode(n[i], nt[i - 1])
  <2>1. CASE i = m + 1
    <3>1. nt[i] = e /\ n[i] = c /\ i - 1 = m /\ nt[m] = b
      BY <1>2, <1>3, <1>7, <2>1
    <3> QED
      BY <3>1 DEF e
  <2>2. CASE i # m + 1
    <3>1. i \in 1..m /\ i \in 0..m /\ i - 1 \in 0..m
      BY <1>3, <2>2
    <3>2. nt[i] = st[i] /\ nt[i - 1] = st[i - 1] /\ n[i] = s[i]
      BY <1>3, <1>7, <3>1
    <3> QED
      BY <1>2, <3>1, <3>2
  <2> QED
    BY <2>1, <2>2
<1>9. IsRun(n, nt, a, e)
  BY <1>3, <1>7, <1>8 DEF IsRun
<1>10. n \in Seq(Code) /\ Run(n, a, e)
  BY <1>3, <1>9 DEF Run
<1> QED
  BY <1>10 DEF n, e

\* The code that is read is the first of the run.
LEMMA RunRead ==
    ASSUME NEW s \in Seq(Code), s # <<>>, NEW a, NEW b, Run(s, a, b)
    PROVE  /\ Head(s) \in Code /\ Tail(s) \in Seq(Code)
           /\ Run(Tail(s), Decode(Head(s), a), b)
<1> DEFINE n == Tail(s)
           m == Len(s)
<1>1. PICK st : IsRun(s, st, a, b)
  BY DEF Run
<1>2. /\ st \in [0..m -> Decoder] /\ st[0] = a /\ st[m] = b
      /\ \A i \in 1..m : st[i] = Decode(s[i], st[i - 1])
  BY <1>1 DEF IsRun
<1>3. /\ m \in Nat /\ m > 0 /\ Head(s) = s[1] /\ s[1] \in Code
      /\ n \in Seq(Code) /\ Len(n) = m - 1
      /\ \A i \in 1..m - 1 : n[i] = s[i + 1]
  BY HeadTailProperties, LenProperties, ElementOfSeq, EmptySeq
<1> HIDE DEF n, m
<1> DEFINE nt == [i \in 0..m - 1 |-> st[i + 1]]
<1>4. /\ nt \in [0..m - 1 -> Decoder] /\ \A i \in 0..m - 1 : nt[i] = st[i + 1]
  BY <1>2, <1>3
<1> HIDE DEF nt
<1>5. nt[0] = Decode(Head(s), a)
  <2>1. 0 \in 0..m - 1 /\ 1 \in 1..m /\ 0 + 1 = 1 /\ 1 - 1 = 0
    BY <1>3
  <2>2. nt[0] = st[1] /\ st[1] = Decode(s[1], st[0])
    BY <1>2, <1>4, <2>1
  <2> QED
    BY <1>2, <1>3, <2>2
<1>6. nt[m - 1] = b
  BY <1>2, <1>3, <1>4
<1>7. ASSUME NEW i \in 1..m - 1 PROVE nt[i] = Decode(n[i], nt[i - 1])
  <2>1. /\ i \in 0..m - 1 /\ i - 1 \in 0..m - 1 /\ i + 1 \in 1..m
        /\ i - 1 + 1 = i /\ i + 1 - 1 = i
    BY <1>3
  <2>2. nt[i] = st[i + 1] /\ nt[i - 1] = st[i - 1 + 1] /\ n[i] = s[i + 1]
    BY <1>3, <1>4, <2>1
  <2>3. st[i + 1] = Decode(s[i + 1], st[i + 1 - 1])
    BY <1>2, <2>1
  <2> QED
    BY <2>1, <2>2, <2>3
<1> DEFINE d == Decode(Head(s), a)
<1> HIDE DEF d
<1>8. IsRun(n, nt, d, b)
  BY <1>3, <1>4, <1>5, <1>6, <1>7 DEF IsRun, d
<1>9. Run(n, d, b)
  BY <1>8 DEF Run
<1> QED
  BY <1>3, <1>9 DEF n, d

\* What the driver makes of a code without a prefix: the modifiers after it.
LEMMA SingleCodes ==
    ASSUME NEW d \in Decoder, ~d.multi
    PROVE  /\ Decode("E0", d).spec = d.spec /\ Decode("E0", d).multi
           /\ Decode("1E", d).spec = d.spec /\ ~Decode("1E", d).multi
           /\ Decode("9E", d).spec = d.spec /\ ~Decode("9E", d).multi
           /\ Decode("3A", d).spec = d.spec /\ ~Decode("3A", d).multi
           /\ Decode("2A", d).spec = d.spec \cup {"LSHIFT"} /\ ~Decode("2A", d).multi
           /\ Decode("36", d).spec = d.spec \cup {"RSHIFT"} /\ ~Decode("36", d).multi
           /\ Decode("1D", d).spec = d.spec \cup {"LCTRL"} /\ ~Decode("1D", d).multi
           /\ Decode("38", d).spec = d.spec \cup {"LALT"} /\ ~Decode("38", d).multi
           /\ Decode("AA", d).spec = d.spec \ {"LSHIFT"} /\ ~Decode("AA", d).multi
           /\ Decode("B6", d).spec = d.spec \ {"RSHIFT"} /\ ~Decode("B6", d).multi
           /\ Decode("9D", d).spec = d.spec \ {"LCTRL"} /\ ~Decode("9D", d).multi
           /\ Decode("B8", d).spec = d.spec \ {"LALT"} /\ ~Decode("B8", d).multi
           /\ Decode("BA", d).spec = SymDiff(d.spec, {"CAPSL"}) /\ ~Decode("BA", d).multi
<1>1. d.spec \in SUBSET AllKeys /\ d.multi = FALSE
  BY DEF Decoder
<1>2. Decode("E0", d).spec = d.spec /\ Decode("E0", d).multi
  <2> DEFINE t == TRUE
             x == result(NoKey, d.spec, t)
  <2>1. i8042_prepare_char("E0", d.spec, d.multi) = x
    BY DEF i8042_prepare_char
  <2>2. t
    OBVIOUS
  <2> HIDE DEF t
  <2>3. x.spec = d.spec /\ x.multi = t
    BY DEF result
  <2> HIDE DEF x
  <2>4. Decode("E0", d).spec = x.spec /\ Decode("E0", d).multi = x.multi
    BY <2>1 DEF Decode
  <2> QED
    BY <2>2, <2>3, <2>4
<1>3. Decode("1E", d).spec = d.spec /\ ~Decode("1E", d).multi
  BY <1>1 DEF Decode, i8042_prepare_char, prepare_single, result, single_down, single_up
<1>4. Decode("9E", d).spec = d.spec /\ ~Decode("9E", d).multi
  BY <1>1 DEF Decode, i8042_prepare_char, prepare_single, result, single_down, single_up
<1>5. Decode("3A", d).spec = d.spec /\ ~Decode("3A", d).multi
  BY <1>1 DEF Decode, i8042_prepare_char, prepare_single, result, single_down, single_up
<1>6. Decode("2A", d).spec = d.spec \cup {"LSHIFT"} /\ ~Decode("2A", d).multi
  BY <1>1 DEF Decode, i8042_prepare_char, prepare_single, result, single_down, single_up
<1>7. Decode("36", d).spec = d.spec \cup {"RSHIFT"} /\ ~Decode("36", d).multi
  BY <1>1 DEF Decode, i8042_prepare_char, prepare_single, result, single_down, single_up
<1>8. Decode("1D", d).spec = d.spec \cup {"LCTRL"} /\ ~Decode("1D", d).multi
  BY <1>1 DEF Decode, i8042_prepare_char, prepare_single, result, single_down, single_up
<1>9. Decode("38", d).spec = d.spec \cup {"LALT"} /\ ~Decode("38", d).multi
  BY <1>1 DEF Decode, i8042_prepare_char, prepare_single, result, single_down, single_up
<1>10. Decode("AA", d).spec = d.spec \ {"LSHIFT"} /\ ~Decode("AA", d).multi
  BY <1>1 DEF Decode, i8042_prepare_char, prepare_single, result, single_down, single_up
<1>11. Decode("B6", d).spec = d.spec \ {"RSHIFT"} /\ ~Decode("B6", d).multi
  BY <1>1 DEF Decode, i8042_prepare_char, prepare_single, result, single_down, single_up
<1>12. Decode("9D", d).spec = d.spec \ {"LCTRL"} /\ ~Decode("9D", d).multi
  BY <1>1 DEF Decode, i8042_prepare_char, prepare_single, result, single_down, single_up
<1>13. Decode("B8", d).spec = d.spec \ {"LALT"} /\ ~Decode("B8", d).multi
  BY <1>1 DEF Decode, i8042_prepare_char, prepare_single, result, single_down, single_up
<1>14. Decode("BA", d).spec = SymDiff(d.spec, {"CAPSL"}) /\ ~Decode("BA", d).multi
  BY <1>1 DEF Decode, i8042_prepare_char, prepare_single, result, single_down, single_up
<1> QED
  BY <1>2, <1>3, <1>4, <1>5, <1>6, <1>7, <1>8, <1>9, <1>10, <1>11, <1>12, <1>13, <1>14

\* What it makes of a code behind E0.
LEMMA PrefixedCodes ==
    ASSUME NEW d \in Decoder, d.multi
    PROVE  /\ Decode("4B", d).spec = d.spec /\ ~Decode("4B", d).multi
           /\ Decode("CB", d).spec = d.spec /\ ~Decode("CB", d).multi
           /\ Decode("1D", d).spec = d.spec \cup {"RCTRL"} /\ ~Decode("1D", d).multi
           /\ Decode("38", d).spec = d.spec \cup {"RALT"} /\ ~Decode("38", d).multi
           /\ Decode("9D", d).spec = d.spec \ {"RCTRL"} /\ ~Decode("9D", d).multi
           /\ Decode("B8", d).spec = d.spec \ {"RALT"} /\ ~Decode("B8", d).multi
<1>1. d.spec \in SUBSET AllKeys /\ d.multi = TRUE
  BY DEF Decoder
<1>2. Decode("4B", d).spec = d.spec /\ ~Decode("4B", d).multi
  BY <1>1 DEF Decode, i8042_prepare_char, prepare_multi, result, multi_down
<1>3. Decode("CB", d).spec = d.spec /\ ~Decode("CB", d).multi
  BY <1>1 DEF Decode, i8042_prepare_char, prepare_multi, result, multi_down
<1>4. Decode("1D", d).spec = d.spec \cup {"RCTRL"} /\ ~Decode("1D", d).multi
  BY <1>1 DEF Decode, i8042_prepare_char, prepare_multi, result, multi_down
<1>5. Decode("38", d).spec = d.spec \cup {"RALT"} /\ ~Decode("38", d).multi
  BY <1>1 DEF Decode, i8042_prepare_char, prepare_multi, result, multi_down
<1>6. Decode("9D", d).spec = d.spec \ {"RCTRL"} /\ ~Decode("9D", d).multi
  BY <1>1 DEF Decode, i8042_prepare_char, prepare_multi, result, multi_down
<1>7. Decode("B8", d).spec = d.spec \ {"RALT"} /\ ~Decode("B8", d).multi
  BY <1>1 DEF Decode, i8042_prepare_char, prepare_multi, result, multi_down
<1> QED
  BY <1>2, <1>3, <1>4, <1>5, <1>6, <1>7

\* The decoder is between two keys and has the modifiers among the keys h.
Tracks(d, h) == ~d.multi /\ d.spec \cap Modifiers = h \cap Modifiers

\* The codes w, one or two, take a decoder that has the keys h to one that has n.
Tells(w, h, n) ==
    \/ \E c \in Code : w = <<c>> /\ \A d \in Decoder : Tracks(d, h) => Tracks(Decode(c, d), n)
    \/ \E c \in Code : /\ w = <<"E0", c>>
                       /\ \A d \in Decoder : Tracks(d, h) => Tracks(Decode(c, Decode("E0", d)), n)

\* A key that is pressed is told as such, a left key never as the right one.
LEMMA PressTells ==
    ASSUME NEW key \in AllKeys, NEW h
    PROVE  Tells(down[key], h, h \cup {key})
<1> DEFINE n == h \cup {key}
<1>0. "E0" \in Code
  BY DEF Code
<1>1. CASE key = "letter"
  <2>1. down[key] = <<"1E">> /\ "1E" \in Code
    BY <1>1 DEF down, Code
  <2>2. ASSUME NEW d \in Decoder, Tracks(d, h) PROVE Tracks(Decode("1E", d), n)
    BY <1>1, <2>2, SingleCodes DEF Tracks, Modifiers, AllKeys
  <2> QED
    BY <2>1, <2>2 DEF Tells
<1>2. CASE key = "arrow"
  <2>1. down[key] = <<"E0", "4B">> /\ "4B" \in Code
    BY <1>2 DEF down, Code
  <2>2. ASSUME NEW d \in Decoder, Tracks(d, h)
        PROVE  Tracks(Decode("4B", Decode("E0", d)), n)
    <3> DEFINE e == Decode("E0", d)
    <3>1. e \in Decoder /\ e.multi /\ e.spec = d.spec
      BY <2>2, DecodeType, SingleCodes DEF Tracks
    <3> HIDE DEF e
    <3>2. Tracks(Decode("4B", e), n)
      BY <1>2, <2>2, <3>1, PrefixedCodes DEF Tracks, Modifiers, AllKeys
    <3> QED
      BY <3>2 DEF e
  <2> QED
    BY <2>1, <2>2 DEF Tells
<1>3. CASE key = "LSHIFT"
  <2>1. down[key] = <<"2A">> /\ "2A" \in Code
    BY <1>3 DEF down, Code
  <2>2. ASSUME NEW d \in Decoder, Tracks(d, h) PROVE Tracks(Decode("2A", d), n)
    BY <1>3, <2>2, SingleCodes DEF Tracks, Modifiers, AllKeys
  <2> QED
    BY <2>1, <2>2 DEF Tells
<1>4. CASE key = "RSHIFT"
  <2>1. down[key] = <<"36">> /\ "36" \in Code
    BY <1>4 DEF down, Code
  <2>2. ASSUME NEW d \in Decoder, Tracks(d, h) PROVE Tracks(Decode("36", d), n)
    BY <1>4, <2>2, SingleCodes DEF Tracks, Modifiers, AllKeys
  <2> QED
    BY <2>1, <2>2 DEF Tells
<1>5. CASE key = "LCTRL"
  <2>1. down[key] = <<"1D">> /\ "1D" \in Code
    BY <1>5 DEF down, Code
  <2>2. ASSUME NEW d \in Decoder, Tracks(d, h) PROVE Tracks(Decode("1D", d), n)
    BY <1>5, <2>2, SingleCodes DEF Tracks, Modifiers, AllKeys
  <2> QED
    BY <2>1, <2>2 DEF Tells
<1>6. CASE key = "RCTRL"
  <2>1. down[key] = <<"E0", "1D">> /\ "1D" \in Code
    BY <1>6 DEF down, Code
  <2>2. ASSUME NEW d \in Decoder, Tracks(d, h)
        PROVE  Tracks(Decode("1D", Decode("E0", d)), n)
    <3> DEFINE e == Decode("E0", d)
    <3>1. e \in Decoder /\ e.multi /\ e.spec = d.spec
      BY <2>2, DecodeType, SingleCodes DEF Tracks
    <3> HIDE DEF e
    <3>2. Tracks(Decode("1D", e), n)
      BY <1>6, <2>2, <3>1, PrefixedCodes DEF Tracks, Modifiers, AllKeys
    <3> QED
      BY <3>2 DEF e
  <2> QED
    BY <2>1, <2>2 DEF Tells
<1>7. CASE key = "LALT"
  <2>1. down[key] = <<"38">> /\ "38" \in Code
    BY <1>7 DEF down, Code
  <2>2. ASSUME NEW d \in Decoder, Tracks(d, h) PROVE Tracks(Decode("38", d), n)
    BY <1>7, <2>2, SingleCodes DEF Tracks, Modifiers, AllKeys
  <2> QED
    BY <2>1, <2>2 DEF Tells
<1>8. CASE key = "RALT"
  <2>1. down[key] = <<"E0", "38">> /\ "38" \in Code
    BY <1>8 DEF down, Code
  <2>2. ASSUME NEW d \in Decoder, Tracks(d, h)
        PROVE  Tracks(Decode("38", Decode("E0", d)), n)
    <3> DEFINE e == Decode("E0", d)
    <3>1. e \in Decoder /\ e.multi /\ e.spec = d.spec
      BY <2>2, DecodeType, SingleCodes DEF Tracks
    <3> HIDE DEF e
    <3>2. Tracks(Decode("38", e), n)
      BY <1>8, <2>2, <3>1, PrefixedCodes DEF Tracks, Modifiers, AllKeys
    <3> QED
      BY <3>2 DEF e
  <2> QED
    BY <2>1, <2>2 DEF Tells
<1>9. CASE key = "CAPSL"
  <2>1. down[key] = <<"3A">> /\ "3A" \in Code
    BY <1>9 DEF down, Code
  <2>2. ASSUME NEW d \in Decoder, Tracks(d, h) PROVE Tracks(Decode("3A", d), n)
    BY <1>9, <2>2, SingleCodes DEF Tracks, Modifiers, AllKeys
  <2> QED
    BY <2>1, <2>2 DEF Tells
<1> QED
  BY <1>1, <1>2, <1>3, <1>4, <1>5, <1>6, <1>7, <1>8, <1>9 DEF AllKeys

\* So is a key that is released.
LEMMA ReleaseTells ==
    ASSUME NEW key \in AllKeys, NEW h
    PROVE  Tells(up[key], h, h \ {key})
<1> DEFINE n == h \ {key}
<1>0. "E0" \in Code
  BY DEF Code
<1>1. CASE key = "letter"
  <2>1. up[key] = <<"9E">> /\ "9E" \in Code
    BY <1>1 DEF up, Code
  <2>2. ASSUME NEW d \in Decoder, Tracks(d, h) PROVE Tracks(Decode("9E", d), n)
    BY <1>1, <2>2, SingleCodes DEF Tracks, Modifiers, AllKeys
  <2> QED
    BY <2>1, <2>2 DEF Tells
<1>2. CASE key = "arrow"
  <2>1. up[key] = <<"E0", "CB">> /\ "CB" \in Code
    BY <1>2 DEF up, Code
  <2>2. ASSUME NEW d \in Decoder, Tracks(d, h)
        PROVE  Tracks(Decode("CB", Decode("E0", d)), n)
    <3> DEFINE e == Decode("E0", d)
    <3>1. e \in Decoder /\ e.multi /\ e.spec = d.spec
      BY <2>2, DecodeType, SingleCodes DEF Tracks
    <3> HIDE DEF e
    <3>2. Tracks(Decode("CB", e), n)
      BY <1>2, <2>2, <3>1, PrefixedCodes DEF Tracks, Modifiers, AllKeys
    <3> QED
      BY <3>2 DEF e
  <2> QED
    BY <2>1, <2>2 DEF Tells
<1>3. CASE key = "LSHIFT"
  <2>1. up[key] = <<"AA">> /\ "AA" \in Code
    BY <1>3 DEF up, Code
  <2>2. ASSUME NEW d \in Decoder, Tracks(d, h) PROVE Tracks(Decode("AA", d), n)
    BY <1>3, <2>2, SingleCodes DEF Tracks, Modifiers, AllKeys
  <2> QED
    BY <2>1, <2>2 DEF Tells
<1>4. CASE key = "RSHIFT"
  <2>1. up[key] = <<"B6">> /\ "B6" \in Code
    BY <1>4 DEF up, Code
  <2>2. ASSUME NEW d \in Decoder, Tracks(d, h) PROVE Tracks(Decode("B6", d), n)
    BY <1>4, <2>2, SingleCodes DEF Tracks, Modifiers, AllKeys
  <2> QED
    BY <2>1, <2>2 DEF Tells
<1>5. CASE key = "LCTRL"
  <2>1. up[key] = <<"9D">> /\ "9D" \in Code
    BY <1>5 DEF up, Code
  <2>2. ASSUME NEW d \in Decoder, Tracks(d, h) PROVE Tracks(Decode("9D", d), n)
    BY <1>5, <2>2, SingleCodes DEF Tracks, Modifiers, AllKeys
  <2> QED
    BY <2>1, <2>2 DEF Tells
<1>6. CASE key = "RCTRL"
  <2>1. up[key] = <<"E0", "9D">> /\ "9D" \in Code
    BY <1>6 DEF up, Code
  <2>2. ASSUME NEW d \in Decoder, Tracks(d, h)
        PROVE  Tracks(Decode("9D", Decode("E0", d)), n)
    <3> DEFINE e == Decode("E0", d)
    <3>1. e \in Decoder /\ e.multi /\ e.spec = d.spec
      BY <2>2, DecodeType, SingleCodes DEF Tracks
    <3> HIDE DEF e
    <3>2. Tracks(Decode("9D", e), n)
      BY <1>6, <2>2, <3>1, PrefixedCodes DEF Tracks, Modifiers, AllKeys
    <3> QED
      BY <3>2 DEF e
  <2> QED
    BY <2>1, <2>2 DEF Tells
<1>7. CASE key = "LALT"
  <2>1. up[key] = <<"B8">> /\ "B8" \in Code
    BY <1>7 DEF up, Code
  <2>2. ASSUME NEW d \in Decoder, Tracks(d, h) PROVE Tracks(Decode("B8", d), n)
    BY <1>7, <2>2, SingleCodes DEF Tracks, Modifiers, AllKeys
  <2> QED
    BY <2>1, <2>2 DEF Tells
<1>8. CASE key = "RALT"
  <2>1. up[key] = <<"E0", "B8">> /\ "B8" \in Code
    BY <1>8 DEF up, Code
  <2>2. ASSUME NEW d \in Decoder, Tracks(d, h)
        PROVE  Tracks(Decode("B8", Decode("E0", d)), n)
    <3> DEFINE e == Decode("E0", d)
    <3>1. e \in Decoder /\ e.multi /\ e.spec = d.spec
      BY <2>2, DecodeType, SingleCodes DEF Tracks
    <3> HIDE DEF e
    <3>2. Tracks(Decode("B8", e), n)
      BY <1>8, <2>2, <3>1, PrefixedCodes DEF Tracks, Modifiers, AllKeys
    <3> QED
      BY <3>2 DEF e
  <2> QED
    BY <2>1, <2>2 DEF Tells
<1>9. CASE key = "CAPSL"
  <2>1. up[key] = <<"BA">> /\ "BA" \in Code
    BY <1>9 DEF up, Code
  <2>2. ASSUME NEW d \in Decoder, Tracks(d, h) PROVE Tracks(Decode("BA", d), n)
    BY <1>9, <2>2, SingleCodes DEF Tracks, Modifiers, AllKeys, SymDiff
  <2> QED
    BY <2>1, <2>2 DEF Tells
<1> QED
  BY <1>1, <1>2, <1>3, <1>4, <1>5, <1>6, <1>7, <1>8, <1>9 DEF AllKeys

\* What the driver knows now.
Known == [spec |-> spec_keys_down, multi |-> multi_code]

\* When the codes that wait have been read, the driver will have the keys held now.
ModInv ==
    /\ spec_keys_down \in SUBSET AllKeys /\ multi_code \in BOOLEAN
    /\ held \in SUBSET AllKeys /\ codes \in Seq(Code)
    /\ \E b \in Decoder : Run(codes, Known, b) /\ Tracks(b, held)

\* The codes of a key go behind those that wait.
LEMMA SentTracked ==
    ASSUME NEW s \in Seq(Code), NEW a, NEW b \in Decoder, Run(s, a, b),
           NEW w, NEW h, NEW n, Tracks(b, h), Tells(w, h, n)
    PROVE  s \o w \in Seq(Code) /\ \E e \in Decoder : Run(s \o w, a, e) /\ Tracks(e, n)
<1>1. CASE \E c \in Code : w = <<c>> /\ \A d \in Decoder : Tracks(d, h) => Tracks(Decode(c, d), n)
  <2>1. PICK c \in Code : w = <<c>> /\ \A d \in Decoder : Tracks(d, h) => Tracks(Decode(c, d), n)
    BY <1>1
  <2> DEFINE z == Append(s, c)
             e == Decode(c, b)
  <2>2. z \in Seq(Code) /\ Run(z, a, e) /\ e \in Decoder /\ Tracks(e, n)
    BY <2>1, RunGrows, DecodeType
  <2>3. s \o w = z
    BY <2>1, AppendIsConcat
  <2> HIDE DEF z, e
  <2> QED
    BY <2>2, <2>3
<1>2. CASE \E c \in Code : /\ w = <<"E0", c>>
                           /\ \A d \in Decoder : Tracks(d, h) => Tracks(Decode(c, Decode("E0", d)), n)
  <2>1. PICK c \in Code : /\ w = <<"E0", c>>
                          /\ \A d \in Decoder : Tracks(d, h) => Tracks(Decode(c, Decode("E0", d)), n)
    BY <1>2
  <2> DEFINE y == Append(s, "E0")
             z == Append(y, c)
             f == Decode("E0", b)
             e == Decode(c, f)
  <2>2. "E0" \in Code
    BY DEF Code
  <2>3. y \in Seq(Code) /\ Run(y, a, f) /\ f \in Decoder
    BY <2>2, RunGrows, DecodeType
  <2>4. Tracks(e, n)
    BY <2>1
  <2>5. s \o w = z
    BY <2>1, <2>2
  <2> HIDE DEF y, f
  <2>6. z \in Seq(Code) /\ Run(z, a, e) /\ e \in Decoder
    BY <2>3, RunGrows, DecodeType
  <2> HIDE DEF z, e
  <2> QED
    BY <2>4, <2>5, <2>6
<1> QED
  BY <1>1, <1>2 DEF Tells

\* A key is pressed or released.
LEMMA KeyTracked ==
    ASSUME ModInv, NEW key \in PhysKey, press(key) \/ release(key)
    PROVE  ModInv'
<1>1. key \in AllKeys
  BY KeyboardAssumption
<1>2. PICK b \in Decoder : Run(codes, Known, b) /\ Tracks(b, held)
  BY DEF ModInv
<1>3. Known' = Known /\ spec_keys_down' = spec_keys_down /\ multi_code' = multi_code
  BY DEF Known, press, release
<1>4. codes \in Seq(Code) /\ held \in SUBSET AllKeys
  BY DEF ModInv
<1> DEFINE x == Known
<1> HIDE DEF x
<1>5. Run(codes, x, b) /\ x = Known
  BY <1>2 DEF x
<1>6. ASSUME NEW w, NEW n \in SUBSET AllKeys, Tells(w, held, n), codes' = codes \o w, held' = n
      PROVE  ModInv'
  <2>1. codes \o w \in Seq(Code) /\ \E e \in Decoder : Run(codes \o w, x, e) /\ Tracks(e, n)
    BY <1>2, <1>4, <1>5, <1>6, SentTracked
  <2>2. codes' \in Seq(Code) /\ \E e \in Decoder : Run(codes', Known', e) /\ Tracks(e, held')
    BY <1>3, <1>5, <1>6, <2>1
  <2> QED
    BY <1>3, <1>6, <2>2 DEF ModInv
<1>7. CASE press(key)
  <2>1. Tells(down[key], held, held \cup {key}) /\ held \cup {key} \in SUBSET AllKeys
    BY <1>1, <1>4, PressTells
  <2>2. codes' = codes \o down[key] /\ held' = held \cup {key}
    BY <1>7 DEF press
  <2> QED
    BY <1>6, <2>1, <2>2
<1>8. CASE release(key)
  <2>1. Tells(up[key], held, held \ {key}) /\ held \ {key} \in SUBSET AllKeys
    BY <1>1, <1>4, ReleaseTells
  <2>2. codes' = codes \o up[key] /\ held' = held \ {key}
    BY <1>8 DEF release
  <2> QED
    BY <1>6, <2>1, <2>2
<1> QED
  BY <1>7, <1>8

\* The handler reads the first code that waits.
LEMMA HandlerTracked ==
    ASSUME ModInv, i8042_interrupt_handler
    PROVE  ModInv'
<1>1. PICK b \in Decoder : Run(codes, Known, b) /\ Tracks(b, held)
  BY DEF ModInv
<1>2. codes \in Seq(Code) /\ codes # <<>> /\ codes' = Tail(codes) /\ held' = held /\ held \in SUBSET AllKeys
  BY DEF ModInv, i8042_interrupt_handler
<1>3. Known \in Decoder /\ Known.spec = spec_keys_down /\ Known.multi = multi_code
  BY DEF ModInv, Known, Decoder
<1>4. Known' = Decode(Head(codes), Known)
  BY <1>3 DEF i8042_interrupt_handler, Decode, Known
<1>5. Known' \in Decoder
  BY <1>3, <1>4, DecodeType
<1>6. spec_keys_down' \in SUBSET AllKeys /\ multi_code' \in BOOLEAN
  <2>1. Known'.spec = spec_keys_down' /\ Known'.multi = multi_code'
    BY DEF Known
  <2> QED
    BY <1>5, <2>1 DEF Decoder
<1> DEFINE x == Known
           y == Decode(Head(codes), x)
<1>7. codes' \in Seq(Code) /\ Run(codes', y, b)
  BY <1>1, <1>2, RunRead
<1>8. Known' = y
  BY <1>4
<1> HIDE DEF x, y
<1> QED
  BY <1>1, <1>2, <1>6, <1>7, <1>8 DEF ModInv

\* Nothing waits and no key is held in the beginning.
LEMMA InitTracked == i8042_init => ModInv
<1> SUFFICES ASSUME i8042_init PROVE ModInv
  OBVIOUS
<1>1. spec_keys_down = {} /\ multi_code = FALSE /\ held = {} /\ codes = <<>>
  BY DEF i8042_init
<1>2. Known \in Decoder /\ Known.spec = {} /\ Known.multi = FALSE
  BY <1>1 DEF Known, Decoder
<1> DEFINE x == Known
           st == [i \in 0..0 |-> x]
<1>3. Tracks(x, held) /\ x \in Decoder
  BY <1>1, <1>2 DEF Tracks
<1> HIDE DEF x
<1>4. st \in [0..0 -> Decoder] /\ st[0] = x
  BY <1>3
<1> HIDE DEF st
<1>5. Len(codes) = 0 /\ codes \in Seq(Code)
  BY <1>1
<1>6. IsRun(codes, st, x, x)
  BY <1>4, <1>5 DEF IsRun
<1>7. Run(codes, Known, x)
  BY <1>6 DEF Run, x
<1> QED
  BY <1>1, <1>3, <1>5, <1>7 DEF ModInv

\* Every step keeps the invariant.
LEMMA NextTracked == ModInv /\ [KeybNext]_keybvars => ModInv'
<1> SUFFICES ASSUME ModInv, [KeybNext]_keybvars PROVE ModInv'
  OBVIOUS
<1>1. ASSUME UNCHANGED <<spec_keys_down, multi_code, held, codes>> PROVE ModInv'
  <2>1. Known' = Known
    BY <1>1 DEF Known
  <2> QED
    BY <1>1, <2>1 DEF ModInv
<1>2. CASE \E key \in PhysKey : press(key) \/ release(key)
  BY <1>2, KeyTracked
<1>3. CASE i8042_interrupt_handler
  BY <1>3, HandlerTracked
<1>4. CASE i8042_send("char")
  BY <1>1, <1>4 DEF i8042_send
<1>5. CASE \E f \in GetFlags : i8042_get(f)
  BY <1>1, <1>5 DEF i8042_get
<1>6. CASE UNCHANGED keybvars
  BY <1>1, <1>6 DEF keybvars
<1> QED
  BY <1>2, <1>3, <1>4, <1>5, <1>6 DEF KeybNext

\* For any keyboard and any number of codes that wait: once the codes have been
\* read, the modifiers of the driver are the keys held, and no prefix is left over.
THEOREM SpecModifiersTracked == KeybSpec => []ModifiersTracked
<1>1. ModInv => ModifiersTracked
  <2> SUFFICES ASSUME ModInv, codes = <<>>
               PROVE  spec_keys_down \cap Modifiers = held \cap Modifiers /\ ~multi_code
    BY DEF ModifiersTracked
  <2>1. PICK b \in Decoder : Run(codes, Known, b) /\ Tracks(b, held)
    BY DEF ModInv
  <2>2. PICK st : IsRun(codes, st, Known, b)
    BY <2>1 DEF Run
  <2>3. Len(codes) = 0
    OBVIOUS
  <2>4. b = Known
    BY <2>2, <2>3 DEF IsRun
  <2>5. Known.spec = spec_keys_down /\ Known.multi = multi_code
    BY DEF Known
  <2> QED
    BY <2>1, <2>4, <2>5 DEF Tracks
<1> QED
  BY <1>1, InitTracked, NextTracked, PTL DEF KeybSpec

-----------------------------------------------------------------------------
\* The keyboard's buffer is the queue it promises.

KeyFacts(r) == r \in RingState(Keystroke, NoKey) /\ LastRight(r)

\* What a code becomes is a keystroke or nothing.
LEMMA KeyMade ==
    ASSUME NEW c, NEW s, NEW m \in BOOLEAN
    PROVE  i8042_prepare_char(c, s, m).key \in Keystroke \cup {NoKey}
<1>1. prepare_multi(c, s).key \in Keystroke \cup {NoKey}
  BY DEF prepare_multi, result, Keystroke
<1>2. CASE m
  BY <1>1, <1>2 DEF i8042_prepare_char, result
<1>3. CASE ~m
  BY <1>3 DEF i8042_prepare_char, prepare_single, result, Keystroke
<1> QED
  BY <1>2, <1>3

\* The buffer's contents are as long as it says.
LEMMA KeyLength ==
    ASSUME NEW r, KeyFacts(r)
    PROVE  /\ contents(r) \in Seq(Keystroke \cup {NoKey}) /\ Len(contents(r)) = r.size
           /\ r.size \in Nat /\ r.size <= SIZE /\ SIZE \in Nat /\ SIZE > 0
<1>1. r \in RingState(Keystroke, NoKey)
  BY DEF KeyFacts
<1>2. Elements(r, Keystroke \cup {NoKey})
  BY <1>1, ContentsSeq
<1> QED
  BY <1>1, <1>2, RingFields DEF Elements

\* A keystroke is put behind the others, at the cost of the oldest when there is
\* no room.
LEMMA InsertSteps ==
    ASSUME KeyFacts(keyb), NEW key \in Keystroke \cup {NoKey},
           keyb' = i8042_insert_keystroke(keyb, key)
    PROVE  /\ KeyFacts(keyb') /\ (KeyQueue!Next \/ keyb' = keyb)
           /\ key \in Keystroke => KeyQueue!Come(key)
<1>1. CASE key = NoKey
  BY <1>1 DEF i8042_insert_keystroke, NoKey, Keystroke
<1>2. CASE key # NoKey
  <2>0. key \in Keystroke /\ keyb \in RingState(Keystroke, NoKey) /\ LastRight(keyb)
    BY <1>2 DEF KeyFacts
  <2>1. keyb' = put_over(keyb, key)
    BY <1>2 DEF i8042_insert_keystroke
  <2>2. keyb' \in RingState(Keystroke, NoKey)
    <3>1. \A c \in Keystroke : put_over(keyb, c) \in RingState(Keystroke, NoKey)
      BY <2>0, RingTypes
    <3> QED
      BY <2>0, <2>1, <3>1
  <2>3. /\ LastRight(keyb')
        /\ keyb.size < SIZE => contents(keyb') = Append(contents(keyb), key)
        /\ keyb.size = SIZE => contents(keyb') = Drop(Append(contents(keyb), key), 1)
    BY <2>0, <2>1, PutOverContents
  <2>4. /\ Len(contents(keyb)) = keyb.size
        /\ keyb.size \in Nat /\ keyb.size <= SIZE /\ SIZE \in Nat
    BY KeyLength
  <2>5. ASSUME keyb.size < SIZE PROVE KeyQueue!Come(key)
    BY <2>3, <2>4, <2>5 DEF KeyQueue!Come, KeyQueue!After
  <2>6. ASSUME keyb.size = SIZE PROVE KeyQueue!Come(key)
    <3>1. ~(Len(contents(keyb)) < SIZE)
      BY <2>4, <2>6
    <3>2. KeyQueue!After(contents(keyb), key) = KeyQueue!Without(Append(contents(keyb), key), 1)
      BY <3>1 DEF KeyQueue!After
    <3>3. \A s : KeyQueue!Without(s, 1) = Drop(s, 1)
      BY DEF KeyQueue!Without, Drop
    <3> QED
      BY <2>3, <2>6, <3>2, <3>3 DEF KeyQueue!Come
  <2>7. KeyQueue!Come(key)
    BY <2>4, <2>5, <2>6
  <2> QED
    BY <2>0, <2>2, <2>3, <2>7 DEF KeyQueue!Next, KeyFacts
<1> QED
  BY <1>1, <1>2

\* The loop of i8042_get takes at least one keystroke and no more than there are.
LEMMA TakenRange ==
    ASSUME NEW r, KeyFacts(r), r.size > 0, NEW f
    PROVE  taken(r, f) \in 1..r.size
<1> DEFINE S == {r.size} \cup {i \in 1..r.size : ascii(contents(r)[i])}
<1>1. r.size \in Nat /\ r.size \in 1..r.size
  BY KeyLength
<1>2. S \in SUBSET Nat /\ S # {} /\ S \in SUBSET (1..r.size)
  BY <1>1
<1> HIDE DEF S
<1>3. PICK n \in S : \A m \in S : ~(<<m, n>> \in OpToRel(<, Nat))
  BY <1>2, NatLessThanWellFounded, WFMin
<1>4. n \in Nat /\ \A m \in S : ~(m < n)
  <2>1. \A m \in Nat : m < n => <<m, n>> \in OpToRel(<, Nat)
    BY <1>2 DEF OpToRel
  <2> QED
    BY <1>2, <1>3, <2>1
<1>5. \A m \in S : n <= m
  BY <1>2, <1>4
<1>6. Min(S) \in S
  BY <1>5 DEF Min
<1>7. Min(S) \in 1..r.size
  BY <1>2, <1>6
<1> QED
  BY <1>1, <1>7 DEF taken, S

\* A read takes keystrokes from the front; it may empty the buffer.
LEMMA GetSteps ==
    ASSUME KeyFacts(keyb), NEW f, "ONLY_LAST" \notin f, i8042_get(f)
    PROVE  KeyFacts(keyb') /\ KeyQueue!Next
<1> DEFINE n == taken(keyb, f)
           r == [keyb EXCEPT !.first = (@ + n) % SIZE, !.size = @ - n]
<1>1. /\ keyb.size > 0
      /\ keyb' = IF "CLEAR_BUFFER" \in f THEN clear_buffer(r) ELSE r
  BY DEF i8042_get, only_last
<1>2. n \in 1..keyb.size
  BY <1>1, TakenRange
<1> HIDE DEF n
<1>3. /\ contents(keyb) \in Seq(Keystroke \cup {NoKey}) /\ Len(contents(keyb)) = keyb.size
      /\ keyb.size \in Nat /\ keyb.size <= SIZE /\ SIZE \in Nat /\ SIZE > 0
  BY KeyLength
<1>4. keyb \in RingState(Keystroke, NoKey) /\ LastRight(keyb) /\ keyb.first \in Slot
  BY RingFields DEF KeyFacts
<1>5. (keyb.first + n) % SIZE \in Slot /\ keyb.size - n \in 0..SIZE
  <2>1. keyb.first \in Int /\ n \in Int
    BY <1>2, <1>3, <1>4 DEF Slot
  <2>2. keyb.first + n \in Int
    BY <2>1
  <2>3. (keyb.first + n) % SIZE \in Slot
    BY <1>3, <2>2 DEF Slot
  <2> QED
    BY <1>2, <1>3, <2>3
<1>6. /\ r \in RingState(Keystroke, NoKey) /\ r.buf = keyb.buf /\ r.last = keyb.last
      /\ r.first = (keyb.first + n) % SIZE /\ r.size = keyb.size - n
  BY <1>4, <1>5 DEF RingState
<1> HIDE DEF r
<1>7. n \in 0..keyb.size /\ n \in 1..Len(contents(keyb))
  BY <1>2, <1>3
<1>8. contents(r) = Drop(contents(keyb), n) /\ LastRight(r)
  BY <1>4, <1>6, <1>7, TakeMany
<1>9. CASE "CLEAR_BUFFER" \notin f
  <2>1. KeyQueue!Leave
    BY <1>1, <1>7, <1>8, <1>9 DEF KeyQueue!Leave, KeyQueue!Without, Drop
  <2> QED
    BY <1>1, <1>6, <1>8, <1>9, <2>1 DEF KeyQueue!Next, KeyFacts
<1>10. CASE "CLEAR_BUFFER" \in f
  <2>1. keyb' = clear_buffer(r)
    BY <1>1, <1>10
  <2>2. 0 \in Slot /\ 0 \in 0..SIZE
    BY <1>3 DEF Slot
  <2>3. /\ keyb' \in RingState(Keystroke, NoKey)
        /\ keyb'.size = 0 /\ keyb'.first = 0 /\ keyb'.last = 0
    BY <1>6, <2>1, <2>2 DEF clear_buffer, RingState
  <2>4. LastRight(keyb')
    BY <1>3, <2>3 DEF LastRight
  <2>5. KeyFacts(keyb')
    BY <2>3, <2>4 DEF KeyFacts
  <2>6. contents(keyb') = <<>>
    <3> DEFINE z == keyb'
    <3>1. KeyFacts(z) /\ z.size = 0
      BY <2>3, <2>5
    <3> HIDE DEF z
    <3>2. contents(z) = <<>>
      BY <3>1, KeyLength, EmptySeq
    <3> QED
      BY <3>2 DEF z
  <2> DEFINE c == contents(keyb)
             d == Drop(c, keyb.size)
  <2>7. c \in Seq(Keystroke \cup {NoKey}) /\ Len(c) = keyb.size /\ keyb.size \in 0..Len(c)
    BY <1>3
  <2> HIDE DEF c
  <2>8. d \in Seq(Keystroke \cup {NoKey}) /\ Len(d) = keyb.size - keyb.size
    BY <2>7, DropMember DEF Drop
  <2>9. d = <<>>
    BY <1>3, <2>8, EmptySeq
  <2>10. contents(keyb') = Drop(contents(keyb), keyb.size)
    BY <2>6, <2>9 DEF d, c
  <2>11. keyb.size \in 1..Len(contents(keyb))
    BY <1>1, <1>3
  <2>12. KeyQueue!Leave
    BY <2>10, <2>11 DEF KeyQueue!Leave, KeyQueue!Without, Drop
  <2> QED
    BY <2>5, <2>12 DEF KeyQueue!Next
<1> QED
  BY <1>9, <1>10

\* Every step of the driver is a step or a stutter of the queue.
LEMMA KeybImplements ==
    ASSUME \A f \in GetFlags : "ONLY_LAST" \notin f,
           ModInv, KeyFacts(keyb), [KeybNext]_keybvars
    PROVE  KeyFacts(keyb') /\ (KeyQueue!Next \/ keyb' = keyb)
<1> DEFINE Goal == KeyFacts(keyb') /\ (KeyQueue!Next \/ keyb' = keyb)
<1>1. ASSUME keyb' = keyb PROVE Goal
  BY <1>1
<1>2. ASSUME NEW key \in Keystroke \cup {NoKey}, keyb' = i8042_insert_keystroke(keyb, key) PROVE Goal
  BY <1>2, InsertSteps
<1>3. ASSUME i8042_interrupt_handler PROVE Goal
  <2> DEFINE key == i8042_prepare_char(Head(codes), spec_keys_down, multi_code).key
  <2>1. multi_code \in BOOLEAN
    BY DEF ModInv
  <2>2. key \in Keystroke \cup {NoKey}
    BY <2>1, KeyMade
  <2>3. keyb' = i8042_insert_keystroke(keyb, key)
    BY <1>3 DEF i8042_interrupt_handler
  <2> HIDE DEF key, Goal
  <2> QED
    BY <1>2, <2>2, <2>3
<1>4. ASSUME i8042_send("char") PROVE Goal
  <2>1. "char" \in Keystroke \cup {NoKey} /\ keyb' = i8042_insert_keystroke(keyb, "char")
    BY <1>4 DEF i8042_send, Keystroke
  <2> HIDE DEF Goal
  <2> QED
    BY <1>2, <2>1
<1>5. ASSUME NEW f \in GetFlags, i8042_get(f) PROVE Goal
  BY <1>5, GetSteps
<1>6. ASSUME NEW key \in PhysKey, press(key) \/ release(key) PROVE Goal
  BY <1>1, <1>6 DEF press, release
<1>7. ASSUME UNCHANGED keybvars PROVE Goal
  BY <1>1, <1>7 DEF keybvars
<1> HIDE DEF Goal
<1>8. Goal
  BY <1>3, <1>4, <1>5, <1>6, <1>7 DEF KeybNext
<1> QED
  BY <1>8 DEF Goal

\* A step of KeystrokesInOrder: each keystroke that is made or sent comes.
KeyArrival ==
    \A key \in Keystroke :
        \/ i8042_send(key)
        \/ /\ i8042_interrupt_handler
           /\ key = i8042_prepare_char(Head(codes), spec_keys_down, multi_code).key
        => KeyQueue!Come(key)

\* Every keystroke that comes is put into the buffer.
LEMMA KeyArrives == ASSUME KeyFacts(keyb) PROVE KeyArrival
<1>1. ASSUME NEW key \in Keystroke, i8042_send(key) PROVE KeyQueue!Come(key)
  <2>1. keyb' = i8042_insert_keystroke(keyb, key)
    BY <1>1 DEF i8042_send
  <2> QED
    BY <2>1, InsertSteps
<1>2. ASSUME NEW key \in Keystroke, i8042_interrupt_handler,
             key = i8042_prepare_char(Head(codes), spec_keys_down, multi_code).key
      PROVE  KeyQueue!Come(key)
  <2>1. keyb' = i8042_insert_keystroke(keyb, key)
    BY <1>2 DEF i8042_interrupt_handler
  <2> QED
    BY <2>1, InsertSteps
<1> QED
  BY <1>1, <1>2 DEF KeyArrival

\* The buffer starts as an empty queue.
LEMMA InitKeys == i8042_init => KeyFacts(keyb) /\ KeyQueue!Init
<1> SUFFICES ASSUME i8042_init PROVE KeyFacts(keyb) /\ KeyQueue!Init
  OBVIOUS
<1> DEFINE e == empty_ring(NoKey)
<1>1. keyb = e
  BY DEF i8042_init
<1>2. e \in RingState(Keystroke, NoKey) /\ e.size = 0 /\ LastRight(e)
  BY RingAssumption DEF empty_ring, RingState, Slot, LastRight
<1> HIDE DEF e
<1>3. contents(e) = <<>>
  BY <1>2, KeyLength, EmptySeq DEF KeyFacts
<1> QED
  BY <1>1, <1>2, <1>3 DEF KeyFacts, KeyQueue!Init

\* The buffer of the keyboard, whatever its size: keystrokes are read in the order
\* they came, none twice, and each new one comes, at the cost of exactly the oldest
\* one when there is no room.  Reads with ONLY_LAST, which
\* keep the oldest keystroke and misplace the index of the next, are excluded.
THEOREM SpecKeystrokesInOrder ==
    ASSUME \A f \in GetFlags : "ONLY_LAST" \notin f
    PROVE  KeybSpec => KeystrokesInOrder
<1>1. i8042_init => ModInv /\ KeyFacts(keyb) /\ KeyQueue!Init
  BY InitTracked, InitKeys
<1>2. ModInv /\ KeyFacts(keyb) /\ [KeybNext]_keybvars =>
        /\ ModInv' /\ KeyFacts(keyb)'
        /\ [KeyQueue!Next]_(contents(keyb)) /\ [KeyArrival]_keybvars
  BY NextTracked, KeybImplements, KeyArrives
<1>3. [][KeyArrival]_keybvars =>
        [][\A key \in Keystroke :
            \/ i8042_send(key)
            \/ /\ i8042_interrupt_handler
               /\ key = i8042_prepare_char(Head(codes), spec_keys_down, multi_code).key
            => KeyQueue!Come(key)]_keybvars
  BY PTL DEF KeyArrival
<1> QED
  BY <1>1, <1>2, <1>3, PTL DEF KeybSpec, KeystrokesInOrder, KeyQueue!Spec
=============================================================================

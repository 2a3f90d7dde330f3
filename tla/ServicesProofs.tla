--------------------------- MODULE ServicesProofs ---------------------------
(***************************************************************************)
(* Theorems about the services the rest of the kernel rests on: the unique *)
(* identifiers of Resources, for any number of them and any heap; the      *)
(* arithmetic of TimeArith, for all times; and the heap of FirstFit, for   *)
(* any size of the pool and of the blocks taken from it.                   *)
(***************************************************************************)
EXTENDS Resources, TimeArith, WellFoundedInduction, FiniteSetTheorems, TLAPS

\* Every set of numbers has a least one.
LEMMA Least ==
    ASSUME NEW E, E \subseteq Nat, E # {}
    PROVE  \E n \in E : \A m \in E : n <= m
<1>1. PICK n \in E : \A m \in E : ~(<<m, n>> \in OpToRel(<, Nat))
  BY NatLessThanWellFounded, WFMin
<1>2. \A m \in Nat : m < n => <<m, n>> \in OpToRel(<, Nat)
  BY <1>1 DEF OpToRel
<1>3. \A m \in E : ~(m < n)
  BY <1>1, <1>2
<1>4. n \in Nat /\ \A m \in E : m \in Nat
  BY <1>1
<1> QED
  BY <1>3, <1>4

\* The search stops at the first turn that finds a clear bit, so at a free one.
LEMMA NewIdFree ==
    ASSUME k_new_unique_id
    PROVE  last_id' \notin idmask /\ idmask' = idmask \cup {last_id'}
<1>1. free_turns \in SUBSET Nat /\ free_turns # {}
  BY UniqueIdAssumption DEF k_new_unique_id, free_turns
<1>2. \E n \in free_turns : \A m \in free_turns : n <= m
  BY <1>1, Least
<1>3. Min(free_turns) \in free_turns
  BY <1>2 DEF Min
<1>4. nth(Min(free_turns)) \notin idmask
  BY <1>3 DEF free_turns
<1> QED BY <1>4 DEF k_new_unique_id

\* A new queue gets a free identifier; if there is none the machine stops.
LEMMA CreateKeeps == ASSUME IdsExact, sys__create_msg_queue PROVE IdsExact'
<1>1. CASE k_new_unique_id
           /\ objects' = objects \cup {[handle |-> address(ObjectWords), id |-> last_id']}
  <2> DEFINE o == [handle |-> address(ObjectWords), id |-> last_id']
  <2>1. o.id = last_id' /\ objects' = objects \cup {o}
    BY <1>1
  <2> HIDE DEF o
  <2>2. o.id \notin idmask /\ idmask' = idmask \cup {o.id}
    BY <1>1, <2>1, NewIdFree
  <2> QED BY <2>1, <2>2 DEF IdsExact
<1>2. CASE no_free_id /\ UNCHANGED <<objects, kmsg_qs>>
  BY <1>2 DEF no_free_id, IdsExact
<1> QED BY <1>1, <1>2 DEF sys__create_msg_queue

\* The identifier that is given back is that of no other queue.
LEMMA DeleteKeeps ==
    ASSUME IdsExact, NEW o \in objects, sys__delete_msg_queue(o) PROVE IdsExact'
<1>1. CASE o.id > 0 /\ o.id \in idmask
  <2>1. idmask' = idmask \ {o.id} /\ halted' = "no"
    BY <1>1 DEF sys__delete_msg_queue, k_free_unique_id, running
  <2>2. objects' = objects \ {o}
    BY <2>1 DEF sys__delete_msg_queue
  <2> QED BY <2>1, <2>2 DEF IdsExact
<1>2. CASE ~(o.id > 0 /\ o.id \in idmask)
  <2>1. halted' = "assert" /\ idmask' = idmask
    BY <1>2 DEF sys__delete_msg_queue, k_free_unique_id
  <2>2. objects' = objects
    BY <2>1 DEF sys__delete_msg_queue
  <2> QED BY <2>1, <2>2 DEF IdsExact
<1> QED BY <1>1, <1>2

\* No two queues that exist have the same identifier and no bit of the mask is
\* lost, for any MAX_RESOURCES.  (Resources keeps the identifier of a queue in its
\* handle.  The kernel also keeps it in the queue, which is safe from other writes
\* under the hypothesis, by SpecBlocksKept.)
THEOREM SpecIdsExact == ASSUME "staleLast" \notin Uses PROVE Spec => []IdsExact
<1>1. Init => IdsExact
  BY DEF Init, IdInit, IdsExact
<1>2. IdsExact /\ [Next]_vars => IdsExact'
  <2> SUFFICES ASSUME IdsExact, [Next]_vars PROVE IdsExact'
    OBVIOUS
  <2>1. CASE sys__create_msg_queue
    BY <2>1, CreateKeeps
  <2>2. CASE create_no_memory \/ UNCHANGED vars
    BY <2>2 DEF create_no_memory, vars, idvars, IdsExact
  <2>3. CASE \E o \in objects : sys__delete_msg_queue(o)
    BY <2>3, DeleteKeeps
  <2>4. CASE \E n \in BlockWords : kmalloc(n)
    BY <2>4 DEF kmalloc, idvars, IdsExact
  <2>5. CASE \E b \in blocks : kfree(b)
    BY <2>5 DEF kfree, idvars, IdsExact
  <2> QED BY <2>1, <2>2, <2>3, <2>4, <2>5 DEF Next
<1> QED BY <1>1, <1>2, PTL DEF Spec

-----------------------------------------------------------------------------
\* Facts about the arithmetic of seconds, for the proofs below.
LEMMA SecondType == Second \in Int /\ Second > 1
BY SMT DEF Second

\* The ranges of a time's fields.
LEMMA Fields ==
    ASSUME NEW a \in time_t
    PROVE  a.sec \in Int /\ a.nsec \in Int /\ 0 <= a.nsec /\ a.nsec <= Second
BY SecondType, SMT DEF time_t

\* Multiplication by a second distributes over what time_add and time_sub do.
LEMMA Distribute ==
    ASSUME NEW m \in Int, NEW n \in Int
    PROVE  /\ m * Second \in Int
           /\ (m + n) * Second = m * Second + n * Second
           /\ (m - n) * Second = m * Second - n * Second
           /\ (m + 1) * Second = m * Second + Second
           /\ (m - 1) * Second = m * Second - Second
BY SecondType, SMT

\* A later second is later by at least one second.
LEMMA LaterSecond ==
    ASSUME NEW m \in Int, NEW n \in Int, m < n
    PROVE  m * Second + Second <= n * Second
BY SecondType, SMT

\* time_add adds, and stays within the times that the kernel works with,
\* although it does not carry at 10^9.
THEOREM AddExact ==
    ASSUME NEW a \in time_t, NEW b \in time_t
    PROVE  /\ time_add(a, b) \in time_t
           /\ value(time_add(a, b)) = value(a) + value(b)
<1> DEFINE nsec == a.nsec + b.nsec
<1>1. CASE nsec > Second
  <2>1. time_add(a, b) = [sec |-> a.sec + b.sec + 1, nsec |-> nsec - Second]
    BY <1>1 DEF time_add
  <2>2. nsec - Second \in 0 .. Second
    BY <1>1, Fields, SecondType, SMT
  <2>3. (a.sec + b.sec + 1) * Second = a.sec * Second + b.sec * Second + Second
    BY Fields, Distribute, SecondType, SMT
  <2>4. time_add(a, b) \in time_t
    BY <2>1, <2>2, Fields DEF time_t
  <2>5. time_add(a, b).sec = a.sec + b.sec + 1 /\ time_add(a, b).nsec = nsec - Second
    BY <2>1
  <2> QED BY <2>3, <2>4, <2>5, Fields, Distribute, SecondType, SMT DEF value
<1>2. CASE ~(nsec > Second)
  <2>1. time_add(a, b) = [sec |-> a.sec + b.sec, nsec |-> nsec]
    BY <1>2 DEF time_add
  <2>2. nsec \in 0 .. Second
    BY <1>2, Fields, SecondType, SMT
  <2>3. time_add(a, b) \in time_t
    BY <2>1, <2>2, Fields DEF time_t
  <2>4. time_add(a, b).sec = a.sec + b.sec /\ time_add(a, b).nsec = nsec
    BY <2>1
  <2> QED BY <2>3, <2>4, Fields, Distribute, SecondType, SMT DEF value
<1> QED BY <1>1, <1>2

\* time_sub subtracts, also times written with 10^9 nanoseconds.
THEOREM SubExact ==
    ASSUME NEW a \in time_t, NEW b \in time_t
    PROVE  /\ time_sub(a, b) \in time_t
           /\ value(time_sub(a, b)) = value(a) - value(b)
<1>1. CASE a.nsec >= b.nsec
  <2>1. time_sub(a, b) = [sec |-> a.sec - b.sec, nsec |-> a.nsec - b.nsec]
    BY <1>1 DEF time_sub
  <2>2. a.nsec - b.nsec \in 0 .. Second
    BY <1>1, Fields, SecondType, SMT
  <2>3. time_sub(a, b) \in time_t
    BY <2>1, <2>2, Fields DEF time_t
  <2>4. time_sub(a, b).sec = a.sec - b.sec /\ time_sub(a, b).nsec = a.nsec - b.nsec
    BY <2>1
  <2> QED BY <2>3, <2>4, Fields, Distribute, SecondType, SMT DEF value
<1>2. CASE ~(a.nsec >= b.nsec)
  <2>1. time_sub(a, b) = [sec |-> a.sec - (b.sec + 1), nsec |-> a.nsec + (Second - b.nsec)]
    BY <1>2 DEF time_sub
  <2>2. a.nsec + (Second - b.nsec) \in 0 .. Second
    BY <1>2, Fields, SecondType, SMT
  <2>3. (a.sec - (b.sec + 1)) * Second = a.sec * Second - b.sec * Second - Second
    BY Fields, Distribute, SecondType, SMT
  <2>4. time_sub(a, b) \in time_t
    BY <2>1, <2>2, Fields DEF time_t
  <2>5. /\ time_sub(a, b).sec = a.sec - (b.sec + 1)
        /\ time_sub(a, b).nsec = a.nsec + (Second - b.nsec)
    BY <2>1
  <2> QED BY <2>3, <2>4, <2>5, Fields, Distribute, SecondType, SMT DEF value
<1> QED BY <1>1, <1>2

\* time_cmp never orders two times the wrong way round: what it calls less is not
\* more, and what it calls the same is the same.  So a list sorted with it
\* (list_sort_add) is sorted by time, and an alarm it finds expired has expired.
THEOREM CmpSound ==
    ASSUME NEW a \in time_t, NEW b \in time_t
    PROVE  /\ time_cmp(a, b) = -1 => value(a) <= value(b)
           /\ time_cmp(a, b) = 0 => value(a) = value(b)
           /\ time_cmp(a, b) = 1 => value(a) >= value(b)
<1>1. CASE a.sec < b.sec
  <2>1. a.sec * Second + Second <= b.sec * Second
    BY <1>1, Fields, LaterSecond
  <2>2. value(a) <= value(b)
    BY <2>1, Fields, Distribute, SecondType, SMT DEF value
  <2>3. time_cmp(a, b) = -1
    BY <1>1, Fields, SMT DEF time_cmp
  <2> QED BY <2>2, <2>3, SMT
<1>2. CASE a.sec > b.sec
  <2>1. b.sec * Second + Second <= a.sec * Second
    BY <1>2, Fields, LaterSecond
  <2>2. value(a) >= value(b)
    BY <2>1, Fields, Distribute, SecondType, SMT DEF value
  <2>3. time_cmp(a, b) = 1
    BY <1>2, Fields, SMT DEF time_cmp
  <2> QED BY <2>2, <2>3, SMT
<1>3. CASE a.sec = b.sec
  BY <1>3, Fields, Distribute, SecondType, SMT DEF time_cmp, value
<1> QED BY <1>1, <1>2, <1>3, Fields, SMT

\* Between times that are written in one way only it is exact.
THEOREM CmpExact ==
    ASSUME NEW a \in Normal, NEW b \in Normal
    PROVE  /\ time_cmp(a, b) = -1 <=> value(a) < value(b)
           /\ time_cmp(a, b) = 0 <=> value(a) = value(b)
           /\ time_cmp(a, b) = 1 <=> value(a) > value(b)
<1>1. /\ a.sec \in Int /\ a.nsec \in Int /\ 0 <= a.nsec /\ a.nsec < Second
      /\ b.sec \in Int /\ b.nsec \in Int /\ 0 <= b.nsec /\ b.nsec < Second
  BY SecondType, SMT DEF Normal
<1>2. CASE a.sec < b.sec
  <2>1. a.sec * Second + Second <= b.sec * Second
    BY <1>1, <1>2, LaterSecond
  <2>2. value(a) < value(b)
    BY <1>1, <2>1, Distribute, SecondType, SMT DEF value
  <2>3. value(a) \in Int /\ value(b) \in Int
    BY <1>1, Distribute, SecondType, SMT DEF value
  <2>4. time_cmp(a, b) = -1
    BY <1>1, <1>2, SMT DEF time_cmp
  <2> QED BY <2>2, <2>3, <2>4, SMT
<1>3. CASE a.sec > b.sec
  <2>1. b.sec * Second + Second <= a.sec * Second
    BY <1>1, <1>3, LaterSecond
  <2>2. value(a) > value(b)
    BY <1>1, <2>1, Distribute, SecondType, SMT DEF value
  <2>3. value(a) \in Int /\ value(b) \in Int
    BY <1>1, Distribute, SecondType, SMT DEF value
  <2>4. time_cmp(a, b) = 1
    BY <1>1, <1>3, SMT DEF time_cmp
  <2> QED BY <2>2, <2>3, <2>4, SMT
<1>4. CASE a.sec = b.sec
  BY <1>1, <1>4, Distribute, SecondType, SMT DEF time_cmp, value
<1> QED BY <1>1, <1>2, <1>3, <1>4, SMT

\* The exception: a sum that time_add leaves with 10^9 nanoseconds is less, for
\* time_cmp, than the same time with one more second and none.
THEOREM CmpNotExact ==
    \E a, b, c \in Normal :
        value(time_add(a, b)) = value(c) /\ time_cmp(time_add(a, b), c) = -1
<1> DEFINE last == [sec |-> 0, nsec |-> Second - 1]
           nano == [sec |-> 0, nsec |-> 1]
           one  == [sec |-> 1, nsec |-> 0]
<1>1. last \in Normal /\ nano \in Normal /\ one \in Normal
  BY SecondType, SMT DEF Normal
<1>2. time_add(last, nano) = [sec |-> 0, nsec |-> Second]
  BY SecondType, SMT DEF time_add
<1>3. value(time_add(last, nano)) = value(one)
  BY <1>2, SecondType, SMT DEF value
<1>4. time_cmp(time_add(last, nano), one) = -1
  BY <1>2, SMT DEF time_cmp
<1> HIDE DEF last, nano, one
<1> QED BY <1>1, <1>3, <1>4
-----------------------------------------------------------------------------
\* The heap.  A heap is described by the set H of the heads of its chunks, the set
\* S of those in the free list, and a rank r that grows along the list.

Word == NIL .. 2 * WORDS + 1
Heap == [mem : [Address -> Word], first : Address \cup {NIL}]

\* The words in which free chunks in S keep their links.
LinkWords(S) == {a + 1 : a \in S} \cup {a + 2 : a \in S}

\* Room for the links in every chunk of S, between the borders.
Apart(S) ==
    /\ \A a \in S : a \in Int /\ 1 <= a /\ a + 4 <= WORDS - 1
    /\ \A a, b \in S : a < b => a + 4 <= b

\* From h to g only words in W are written.
Writes(h, g, W) == \A w \in Address : w \notin W => g.mem[w] = h.mem[w]

\* S is a list, linked in both directions.
Listed(h, S, r) ==
    /\ r \in [Address -> Nat]
    /\ h.first \in S \cup {NIL}
    /\ \A a \in S : /\ next(h, a) \in S \cup {NIL} /\ prev(h, a) \in S \cup {NIL}
                    /\ next(h, a) # NIL => prev(h, next(h, a)) = a /\ r[a] < r[next(h, a)]
                    /\ prev(h, a) # NIL => next(h, prev(h, a)) = a
                    /\ prev(h, a) = NIL <=> a = h.first

\* The pool has room for its borders and a chunk.
LEMMA Pool == /\ WORDS \in Nat /\ WORDS >= 8 /\ NIL = -1 /\ NIL \notin Address /\ HEADER_SIZE = 4
              /\ \A a \in Address : a \in Int /\ 0 <= a /\ a < WORDS
              /\ \A a \in Int : 0 <= a /\ a < WORDS => a \in Address
              /\ \A a \in Address : a \in Word
              /\ NIL \in Word
  BY FirstFitAssumption DEF Address, NIL, HEADER_SIZE, Word

\* The words of links are in the pool.
LEMMA LinksInside ==
    ASSUME NEW S, Apart(S), NEW a \in S
    PROVE  a \in Address /\ a + 1 \in Address /\ a + 2 \in Address /\ a + 3 \in Address /\ a # NIL
<1>1. a \in Int /\ 1 <= a /\ a + 4 <= WORDS - 1
  BY DEF Apart
<1> QED
  BY <1>1, Pool

\* Writing one word.
LEMMA WriteWord ==
    ASSUME NEW h \in Heap, NEW w \in Address, NEW v \in Word
    PROVE  LET g == [h EXCEPT !.mem[w] = v]
           IN  /\ g \in Heap /\ g.first = h.first
               /\ g.mem[w] = v /\ \A u \in Address : u # w => g.mem[u] = h.mem[u]
  BY DEF Heap

\* A chunk leaves the list.
LEMMA RemoveListed ==
    ASSUME NEW h \in Heap, NEW S, Apart(S), NEW r, Listed(h, S, r), NEW c \in S
    PROVE  LET g == ffs_remove_chunk(h, c)
           IN  g \in Heap /\ Listed(g, S \ {c}, r) /\ Writes(h, g, LinkWords(S))
<1> DEFINE n == next(h, c)
           p == prev(h, c)
           e == IF c = h.first THEN [h EXCEPT !.first = n] ELSE [h EXCEPT !.mem[p + 2] = n]
           g == IF n = NIL THEN e ELSE [e EXCEPT !.mem[n + 1] = p]
<1>1. g = ffs_remove_chunk(h, c)
  BY DEF ffs_remove_chunk
<1>2. /\ n \in S \cup {NIL} /\ p \in S \cup {NIL} /\ (p = NIL <=> c = h.first)
      /\ n # NIL => prev(h, n) = c /\ r[c] < r[n]
      /\ p # NIL => next(h, p) = c
  BY DEF Listed
<1>3. \A a \in S : a \in Int /\ a \in Address /\ a + 1 \in Address /\ a + 2 \in Address /\ a # NIL
  BY LinksInside, Pool
<1>4. n \in Word /\ p \in Word /\ n \in Address \cup {NIL}
  BY <1>2, <1>3, Pool
<1> HIDE DEF n, p
<1>5. /\ e \in Heap /\ e.first = (IF c = h.first THEN n ELSE h.first)
      /\ \A u \in Address : e.mem[u] = IF c # h.first /\ u = p + 2 THEN n ELSE h.mem[u]
  <2>1. CASE c = h.first
    <3>1. e = [h EXCEPT !.first = n]
      BY <2>1
    <3> HIDE DEF e
    <3> QED
      BY <1>4, <2>1, <3>1 DEF Heap
  <2>2. CASE c # h.first
    <3>1. e = [h EXCEPT !.mem[p + 2] = n] /\ p + 2 \in Address
      BY <1>2, <1>3, <2>2
    <3> HIDE DEF e
    <3> QED
      BY <1>4, <2>2, <3>1, WriteWord
  <2> QED
    BY <2>1, <2>2
<1> HIDE DEF e
<1>6. /\ g \in Heap /\ g.first = e.first
      /\ \A u \in Address : g.mem[u] = IF n # NIL /\ u = n + 1 THEN p ELSE e.mem[u]
  <2>1. CASE n = NIL
    BY <1>5, <2>1
  <2>2. CASE n # NIL
    <3>1. g = [e EXCEPT !.mem[n + 1] = p] /\ n + 1 \in Address
      BY <1>2, <1>3, <2>2
    <3> HIDE DEF g
    <3> QED
      BY <1>4, <1>5, <2>2, <3>1, WriteWord
  <2> QED
    BY <2>1, <2>2
<1> HIDE DEF g
<1>7. \A u \in Address : g.mem[u] = IF n # NIL /\ u = n + 1 THEN p
                                    ELSE IF p # NIL /\ u = p + 2 THEN n ELSE h.mem[u]
  BY <1>2, <1>5, <1>6
<1>8. Writes(h, g, LinkWords(S))
  <2>1. n # NIL => n + 1 \in LinkWords(S)
    BY <1>2 DEF LinkWords
  <2>2. p # NIL => p + 2 \in LinkWords(S)
    BY <1>2 DEF LinkWords
  <2> QED
    BY <1>7, <2>1, <2>2 DEF Writes
<1>9. \A a \in S : /\ next(g, a) = IF p # NIL /\ a = p THEN n ELSE next(h, a)
                   /\ prev(g, a) = IF n # NIL /\ a = n THEN p ELSE prev(h, a)
  <2> SUFFICES ASSUME NEW a \in S
               PROVE  /\ next(g, a) = IF p # NIL /\ a = p THEN n ELSE next(h, a)
                      /\ prev(g, a) = IF n # NIL /\ a = n THEN p ELSE prev(h, a)
    OBVIOUS
  <2>1. a \in Int /\ a + 1 \in Address /\ a + 2 \in Address
    BY <1>3
  <2>2. n # NIL => n \in Int /\ a + 2 # n + 1 /\ (a + 1 = n + 1 <=> a = n)
    BY <1>2, <1>3, <2>1 DEF Apart
  <2>3. p # NIL => p \in Int /\ a + 1 # p + 2 /\ (a + 2 = p + 2 <=> a = p)
    BY <1>2, <1>3, <2>1 DEF Apart
  <2>4. next(g, a) = g.mem[a + 2] /\ next(h, a) = h.mem[a + 2] /\ prev(g, a) = g.mem[a + 1] /\ prev(h, a) = h.mem[a + 1]
    BY DEF next, prev
  <2> QED
    BY <1>7, <2>1, <2>2, <2>3, <2>4
<1>10. Listed(g, S \ {c}, r)
  <2> DEFINE T == S \ {c}
  <2>1. g.first \in T \cup {NIL} /\ g.first = IF p = NIL THEN n ELSE h.first
    <3>1. n # c
      BY <1>2, <1>3, Pool DEF Listed
    <3> QED
      BY <1>2, <1>5, <1>6, <3>1 DEF Listed
  <2>2. ASSUME NEW a \in T
        PROVE  /\ next(g, a) \in T \cup {NIL} /\ prev(g, a) \in T \cup {NIL}
               /\ next(g, a) # NIL => prev(g, next(g, a)) = a /\ r[a] < r[next(g, a)]
               /\ prev(g, a) # NIL => next(g, prev(g, a)) = a
               /\ prev(g, a) = NIL <=> a = g.first
    <3>0. /\ a \in S /\ a # c /\ \A b \in S : r[b] \in Nat
          /\ next(h, a) \in S \cup {NIL} /\ prev(h, a) \in S \cup {NIL}
          /\ next(h, a) # NIL => prev(h, next(h, a)) = a /\ r[a] < r[next(h, a)]
          /\ prev(h, a) # NIL => next(h, prev(h, a)) = a
          /\ prev(h, a) = NIL <=> a = h.first
      BY <1>3 DEF Listed
    <3>1. n # c /\ p # c
      BY <1>2, <1>3, <3>0 DEF Listed
    <3>2. next(h, a) = c <=> (p # NIL /\ a = p)
      BY <1>2, <1>3, <3>0 DEF p
    <3>3. prev(h, a) = c <=> (n # NIL /\ a = n)
      BY <1>2, <1>3, <3>0 DEF n
    <3>4. next(g, a) \in T \cup {NIL} /\ prev(g, a) \in T \cup {NIL}
      BY <1>2, <1>9, <3>0, <3>1, <3>2, <3>3
    <3>5. next(g, a) # NIL => prev(g, next(g, a)) = a /\ r[a] < r[next(g, a)]
      <4>1. CASE p # NIL /\ a = p
        <5>1. next(g, a) = n
          BY <1>9, <3>0, <4>1
        <5>2. r[a] < r[c]
          BY <1>3, <3>0, <3>2, <4>1
        <5>3. n # NIL => prev(g, n) = p /\ r[c] < r[n] /\ n \in S
          BY <1>2, <1>9
        <5>4. n # NIL => r[a] \in Nat /\ r[n] \in Nat /\ r[c] \in Nat
          BY <3>0, <5>3
        <5> QED
          BY <4>1, <5>1, <5>2, <5>3, <5>4
      <4>2. CASE ~(p # NIL /\ a = p)
        <5>1. next(g, a) = next(h, a) /\ next(h, a) # c
          BY <1>9, <3>0, <3>2, <4>2
        <5>2. n # NIL => next(h, a) # n
          <6>1. n # NIL => prev(h, n) = c
            BY <1>2
          <6> QED
            BY <3>0, <6>1
        <5>3. next(h, a) # NIL => prev(g, next(h, a)) = prev(h, next(h, a))
          BY <1>9, <3>0, <5>2
        <5> QED
          BY <3>0, <5>1, <5>3
      <4> QED
        BY <4>1, <4>2
    <3>6. prev(g, a) # NIL => next(g, prev(g, a)) = a
      <4>1. CASE n # NIL /\ a = n
        <5>1. prev(g, a) = p
          BY <1>9, <3>0, <4>1
        <5>2. p # NIL => next(g, p) = n
          BY <1>2, <1>9
        <5> QED
          BY <4>1, <5>1, <5>2
      <4>2. CASE ~(n # NIL /\ a = n)
        <5>1. prev(g, a) = prev(h, a) /\ prev(h, a) # c
          BY <1>9, <3>0, <3>3, <4>2
        <5>2. p # NIL => prev(h, a) # p
          <6>1. p # NIL => next(h, p) = c
            BY <1>2
          <6> QED
            BY <3>0, <6>1
        <5>3. prev(h, a) # NIL => next(g, prev(h, a)) = next(h, prev(h, a))
          BY <1>9, <3>0, <5>2
        <5> QED
          BY <3>0, <5>1, <5>3
      <4> QED
        BY <4>1, <4>2
    <3>7. prev(g, a) = NIL <=> a = g.first
      <4>1. CASE n # NIL /\ a = n
        <5>1. prev(g, a) = p
          BY <1>9, <3>0, <4>1
        <5>2. p # NIL => h.first # n
          <6>1. prev(h, n) = c /\ c # NIL
            BY <1>2, <1>3, <4>1
          <6> QED
            BY <3>0, <4>1, <6>1
        <5> QED
          BY <2>1, <4>1, <5>1, <5>2
      <4>2. CASE ~(n # NIL /\ a = n)
        <5>1. prev(g, a) = prev(h, a)
          BY <1>9, <3>0, <4>2
        <5>2. a # NIL /\ (p = NIL => a # h.first)
          BY <1>2, <1>3, <3>0
        <5> QED
          BY <2>1, <3>0, <4>2, <5>1, <5>2
      <4> QED
        BY <4>1, <4>2
    <3> QED
      BY <3>4, <3>5, <3>6, <3>7
  <2>3. r \in [Address -> Nat]
    BY DEF Listed
  <2> QED
    BY <2>1, <2>2, <2>3 DEF Listed
<1>11. g \in Heap
  BY <1>6
<1> QED
  BY <1>1, <1>8, <1>10, <1>11

\* A chunk comes to the front of the list.
LEMMA InsertListed ==
    ASSUME NEW h \in Heap, NEW S, NEW r, Listed(h, S, r), NEW a, a \notin S, Apart(S \cup {a})
    PROVE  LET g == ffs_insert_chunk(h, a)
           IN  /\ g \in Heap /\ Writes(h, g, LinkWords(S \cup {a}))
               /\ \E q : Listed(g, S \cup {a}, q)
<1> DEFINE T == S \cup {a}
           f == h.first
           d == [h EXCEPT !.mem[a + 2] = f]
           e == [d EXCEPT !.mem[a + 1] = NIL]
           k == IF f = NIL THEN e ELSE [e EXCEPT !.mem[f + 1] = a]
           g == [k EXCEPT !.first = a]
           q == [b \in Address |-> IF b = a THEN 0 ELSE r[b] + 1]
<1>1. g = ffs_insert_chunk(h, a)
  BY DEF ffs_insert_chunk
<1>2. f \in S \cup {NIL} /\ r \in [Address -> Nat]
  BY DEF Listed
<1>3. \A b \in T : b \in Int /\ b \in Address /\ b + 1 \in Address /\ b + 2 \in Address /\ b # NIL
  BY LinksInside, Pool
<1>4. f \in Word /\ NIL \in Word /\ a \in Word /\ a \in T /\ f # a
  BY <1>2, <1>3, Pool
<1> HIDE DEF f
<1>5. d \in Heap /\ d.first = f /\ \A u \in Address : d.mem[u] = IF u = a + 2 THEN f ELSE h.mem[u]
  BY <1>3, <1>4, WriteWord DEF f
<1> HIDE DEF d
<1>6. e \in Heap /\ e.first = f /\ \A u \in Address : e.mem[u] = IF u = a + 1 THEN NIL ELSE d.mem[u]
  BY <1>3, <1>4, <1>5, WriteWord
<1> HIDE DEF e
<1>7. k \in Heap /\ \A u \in Address : k.mem[u] = IF f # NIL /\ u = f + 1 THEN a ELSE e.mem[u]
  <2>1. CASE f = NIL
    BY <1>6, <2>1
  <2>2. CASE f # NIL
    <3>1. k = [e EXCEPT !.mem[f + 1] = a] /\ f + 1 \in Address
      BY <1>2, <1>3, <2>2
    <3> HIDE DEF k
    <3> QED
      BY <1>4, <1>6, <2>2, <3>1, WriteWord
  <2> QED
    BY <2>1, <2>2
<1> HIDE DEF k
<1>8. g \in Heap /\ g.first = a /\ \A u \in Address : g.mem[u] = k.mem[u]
  BY <1>3, <1>4, <1>7 DEF Heap
<1> HIDE DEF g
<1>9. \A u \in Address : g.mem[u] = IF f # NIL /\ u = f + 1 THEN a
                                    ELSE IF u = a + 1 THEN NIL
                                    ELSE IF u = a + 2 THEN f ELSE h.mem[u]
  BY <1>5, <1>6, <1>7, <1>8
<1>10. Writes(h, g, LinkWords(T))
  <2>1. f # NIL => f + 1 \in LinkWords(T)
    BY <1>2 DEF LinkWords
  <2>2. a + 1 \in LinkWords(T) /\ a + 2 \in LinkWords(T)
    BY <1>4 DEF LinkWords
  <2> QED
    BY <1>9, <2>1, <2>2 DEF Writes
<1>11. /\ next(g, a) = f /\ prev(g, a) = NIL
       /\ \A b \in S : /\ next(g, b) = next(h, b)
                       /\ prev(g, b) = IF b = f THEN a ELSE prev(h, b)
  <2>1. f # NIL => f \in T /\ f \in Int /\ f + 1 # a + 1 /\ f + 1 # a + 2
    BY <1>2, <1>3, <1>4 DEF Apart
  <2>2. next(g, a) = f /\ prev(g, a) = NIL
    BY <1>3, <1>4, <1>9, <2>1 DEF next, prev
  <2>3. ASSUME NEW b \in S
        PROVE  next(g, b) = next(h, b) /\ prev(g, b) = IF b = f THEN a ELSE prev(h, b)
    <3>1. b \in T /\ b # a /\ b \in Int /\ b + 1 \in Address /\ b + 2 \in Address /\ b # NIL
      BY <1>3
    <3>2. a \in Int /\ b + 1 # a + 1 /\ b + 1 # a + 2 /\ b + 2 # a + 1 /\ b + 2 # a + 2
      <4>1. a \in Int /\ (a < b => a + 4 <= b) /\ (b < a => b + 4 <= a)
        BY <1>3, <1>4, <3>1 DEF Apart
      <4> QED
        BY <3>1, <4>1
    <3>3. f # NIL => b + 2 # f + 1 /\ (b + 1 = f + 1 <=> b = f)
      BY <2>1, <3>1 DEF Apart
    <3> QED
      BY <1>9, <3>1, <3>2, <3>3 DEF next, prev
  <2> QED
    BY <2>2, <2>3
<1>12. q \in [Address -> Nat] /\ q[a] = 0 /\ \A b \in S : q[b] = r[b] + 1 /\ r[b] \in Nat
  BY <1>2, <1>3
<1> HIDE DEF q
<1>13. ASSUME NEW b \in T
       PROVE  /\ next(g, b) \in T \cup {NIL} /\ prev(g, b) \in T \cup {NIL}
              /\ next(g, b) # NIL => prev(g, next(g, b)) = b /\ q[b] < q[next(g, b)]
              /\ prev(g, b) # NIL => next(g, prev(g, b)) = b
              /\ prev(g, b) = NIL <=> b = g.first
  <2>1. CASE b = a
    BY <1>2, <1>8, <1>11, <1>12, <2>1
  <2>2. CASE b # a
    <3>1. /\ b \in S
          /\ next(h, b) \in S \cup {NIL} /\ prev(h, b) \in S \cup {NIL}
          /\ next(h, b) # NIL => prev(h, next(h, b)) = b /\ r[b] < r[next(h, b)]
          /\ prev(h, b) # NIL => next(h, prev(h, b)) = b
          /\ prev(h, b) = NIL <=> b = f
      BY <2>2 DEF Listed, f
    <3>2. b # NIL /\ a # NIL
      BY <1>3, <1>4
    <3>3. next(g, b) = next(h, b) /\ prev(g, b) = IF b = f THEN a ELSE prev(h, b)
      BY <1>11, <3>1
    <3>4. next(h, b) # NIL => next(h, b) \in S /\ next(h, b) # f
      <4>1. f # NIL => prev(h, f) = NIL
        BY <1>2 DEF Listed, f
      <4> QED
        BY <3>1, <3>2, <4>1
    <3>5. next(g, b) # NIL => prev(g, next(g, b)) = b /\ q[b] < q[next(g, b)]
      <4>1. next(h, b) # NIL => prev(g, next(h, b)) = prev(h, next(h, b))
        BY <1>11, <3>4
      <4>2. next(h, b) # NIL => q[b] < q[next(h, b)]
        BY <1>12, <3>1, <3>4
      <4> QED
        BY <3>1, <3>3, <4>1, <4>2
    <3>6. prev(g, b) # NIL => next(g, prev(g, b)) = b
      <4>1. CASE b = f
        BY <1>11, <3>3, <4>1
      <4>2. CASE b # f
        <5>1. prev(h, b) # NIL => prev(h, b) \in S /\ next(g, prev(h, b)) = next(h, prev(h, b))
          BY <1>11, <3>1
        <5> QED
          BY <3>1, <3>3, <4>2, <5>1
      <4> QED
        BY <4>1, <4>2
    <3> QED
      BY <1>8, <2>2, <3>1, <3>2, <3>3, <3>5, <3>6
  <2> QED
    BY <2>1, <2>2
<1>14. Listed(g, T, q)
  BY <1>4, <1>8, <1>12, <1>13 DEF Listed
<1> QED
  BY <1>1, <1>8, <1>10, <1>14

\* Writing other words leaves the list alone.
LEMMA ListedKept ==
    ASSUME NEW h, NEW g, NEW S, Apart(S), NEW r, Listed(h, S, r), g.first = h.first,
           \A w \in LinkWords(S) : g.mem[w] = h.mem[w]
    PROVE  Listed(g, S, r)
<1>1. \A a \in S : next(g, a) = next(h, a) /\ prev(g, a) = prev(h, a)
  <2> SUFFICES ASSUME NEW a \in S PROVE next(g, a) = next(h, a) /\ prev(g, a) = prev(h, a)
    OBVIOUS
  <2>1. a + 1 \in LinkWords(S) /\ a + 2 \in LinkWords(S)
    BY DEF LinkWords
  <2> QED
    BY <2>1 DEF next, prev
<1> QED
  BY <1>1 DEF Listed

-----------------------------------------------------------------------------
\* Chunks

Border == {0, WORDS - 1}

\* The chunks whose heads are H lie side by side, from border to border.
Tiles(h, H) ==
    /\ H \subseteq Address /\ 0 \in H /\ WORDS - 1 \in H
    /\ h.mem[0] = 3 /\ h.mem[WORDS - 1] = 3
    /\ \A a \in H \ Border : size_of(h, a) >= 4
    /\ \A a \in H : a # WORDS - 1 => after(h, a) \in H
    /\ \A a, b \in H : a < b => after(h, a) <= b
    /\ \A b \in H : b # 0 => \E a \in H : after(h, a) = b

\* Tails agree with heads, but for the chunks in X.
Tails(h, H, X) == \A a \in H \ X : h.mem[tail(h, a)] = h.mem[a]

Free(h, H) == {a \in H : is_free(h, a)}

\* A head and what is read from it.
LEMMA HeadFacts ==
    ASSUME NEW h \in Heap, NEW a \in Address
    PROVE  /\ h.mem[a] \in Int /\ h.mem[a] \in Word /\ size_of(h, a) \in Int /\ after(h, a) \in Int
           /\ after(h, a) = a + size_of(h, a) /\ tail(h, a) = a + size_of(h, a) - 1
           /\ h.mem[a] = 2 * size_of(h, a) + (IF is_free(h, a) THEN 0 ELSE 1)
<1>1. h.mem[a] \in Word /\ a \in Int
  BY Pool DEF Heap
<1>2. h.mem[a] \in Int
  BY <1>1, Pool DEF Word
<1>3. size_of(h, a) \in Int /\ h.mem[a] = 2 * size_of(h, a) + (h.mem[a] % 2) /\ h.mem[a] % 2 \in {0, 1}
  <2> DEFINE x == h.mem[a]
  <2>1. x \in Int
    BY <1>2
  <2> HIDE DEF x
  <2>2. x \div 2 \in Int /\ x = 2 * (x \div 2) + (x % 2) /\ x % 2 \in {0, 1}
    BY <2>1
  <2> QED
    BY <2>2 DEF size_of, x
<1>4. is_free(h, a) <=> h.mem[a] % 2 = 0
  BY DEF is_free
<1>5. h.mem[a] = 2 * size_of(h, a) + (IF is_free(h, a) THEN 0 ELSE 1)
  <2>1. CASE is_free(h, a)
    BY <1>3, <1>4, <2>1
  <2>2. CASE ~is_free(h, a)
    BY <1>3, <1>4, <2>2
  <2> QED
    BY <2>1, <2>2
<1>6. after(h, a) = a + size_of(h, a) /\ tail(h, a) = a + size_of(h, a) - 1
  BY <1>1, <1>3 DEF after, tail
<1> QED
  BY <1>1, <1>2, <1>3, <1>5, <1>6

\* A word that is a head: what is read is what was written.
LEMMA ReadBack ==
    ASSUME NEW h, NEW a, NEW n \in Int
    PROVE  /\ h.mem[a] = 2 * n => size_of(h, a) = n /\ is_free(h, a)
           /\ h.mem[a] = 2 * n + 1 => size_of(h, a) = n /\ ~is_free(h, a)
<1>1. (2 * n) \div 2 = n /\ (2 * n) % 2 = 0 /\ (2 * n + 1) \div 2 = n /\ (2 * n + 1) % 2 = 1
  OBVIOUS
<1> QED
  BY <1>1 DEF size_of, is_free

\* MARK_FREE and the updates of sizes of free chunks.
LEMMA SetFree ==
    ASSUME NEW h \in Heap, NEW a \in Address, NEW n \in Nat, n <= WORDS
    PROVE  LET g == set_head(h, a, n, FALSE)
           IN  /\ g \in Heap /\ g.first = h.first /\ g.mem[a] = 2 * n
               /\ \A u \in Address : u # a => g.mem[u] = h.mem[u]
<1> DEFINE v == 2 * n
<1>1. set_head(h, a, n, FALSE) = [h EXCEPT !.mem[a] = v]
  BY DEF set_head
<1>2. v \in Word
  BY Pool DEF Word
<1> HIDE DEF v
<1>3. LET g == [h EXCEPT !.mem[a] = v]
      IN  /\ g \in Heap /\ g.first = h.first
          /\ g.mem[a] = v /\ \A u \in Address : u # a => g.mem[u] = h.mem[u]
  BY <1>2, WriteWord
<1> QED
  BY <1>1, <1>3 DEF v

\* MARK_USED.
LEMMA SetUsed ==
    ASSUME NEW h \in Heap, NEW a \in Address, NEW n \in Nat, n <= WORDS
    PROVE  LET g == set_head(h, a, n, TRUE)
           IN  /\ g \in Heap /\ g.first = h.first /\ g.mem[a] = 2 * n + 1
               /\ \A u \in Address : u # a => g.mem[u] = h.mem[u]
<1> DEFINE v == 2 * n + 1
<1>1. set_head(h, a, n, TRUE) = [h EXCEPT !.mem[a] = v]
  BY DEF set_head
<1>2. v \in Word
  BY Pool DEF Word
<1> HIDE DEF v
<1>3. LET g == [h EXCEPT !.mem[a] = v]
      IN  /\ g \in Heap /\ g.first = h.first
          /\ g.mem[a] = v /\ \A u \in Address : u # a => g.mem[u] = h.mem[u]
  BY <1>2, WriteWord
<1> QED
  BY <1>1, <1>3 DEF v

\* CLONE_SIZE_TO_TAIL.
LEMMA SetTail ==
    ASSUME NEW h \in Heap, NEW a \in Address, tail(h, a) \in Address
    PROVE  LET g == clone_size_to_tail(h, a)
           IN  /\ g \in Heap /\ g.first = h.first /\ g.mem[tail(h, a)] = h.mem[a]
               /\ \A u \in Address : u # tail(h, a) => g.mem[u] = h.mem[u]
<1> DEFINE v == h.mem[a]
           w == tail(h, a)
<1>1. clone_size_to_tail(h, a) = [h EXCEPT !.mem[w] = v]
  BY DEF clone_size_to_tail
<1>2. v \in Word /\ w \in Address
  BY HeadFacts
<1> HIDE DEF v, w
<1>3. LET g == [h EXCEPT !.mem[w] = v]
      IN  /\ g \in Heap /\ g.first = h.first
          /\ g.mem[w] = v /\ \A u \in Address : u # w => g.mem[u] = h.mem[u]
  BY <1>2, WriteWord
<1> QED
  BY <1>1, <1>3 DEF v, w

\* The extent of a chunk.
LEMMA ChunkFacts ==
    ASSUME NEW h \in Heap, NEW H, Tiles(h, H), NEW a \in H
    PROVE  /\ a \in Address /\ a \in Int /\ 0 <= a /\ a < WORDS /\ size_of(h, a) \in Int /\ size_of(h, a) >= 1
           /\ after(h, a) = a + size_of(h, a) /\ after(h, a) \in Int /\ after(h, a) <= WORDS
           /\ tail(h, a) = a + size_of(h, a) - 1 /\ tail(h, a) \in Address
           /\ a \notin Border => /\ size_of(h, a) >= 4 /\ 1 <= a /\ a + size_of(h, a) <= WORDS - 1
                                 /\ after(h, a) \in H
           /\ a \in Border => size_of(h, a) = 1 /\ ~is_free(h, a)
<1>1. a \in Address /\ a \in Int /\ 0 <= a /\ a < WORDS /\ WORDS \in Int /\ WORDS >= 8
  BY Pool DEF Tiles
<1>2. size_of(h, a) \in Int /\ after(h, a) = a + size_of(h, a) /\ tail(h, a) = a + size_of(h, a) - 1
  BY <1>1, HeadFacts
<1>3. CASE a \in Border
  <2>1. h.mem[a] = 2 * 1 + 1
    BY <1>3 DEF Tiles, Border
  <2>2. size_of(h, a) = 1 /\ ~is_free(h, a)
    BY <2>1, ReadBack
  <2> QED
    BY <1>1, <1>2, <1>3, <2>2, Pool
<1>4. CASE a \notin Border
  <2>1. size_of(h, a) >= 4 /\ after(h, a) \in H
    BY <1>4 DEF Tiles, Border
  <2>2. a # 0 /\ a # WORDS - 1 /\ WORDS - 1 \in H /\ a < WORDS - 1
    BY <1>1, <1>4 DEF Border, Tiles
  <2>3. after(h, a) <= WORDS - 1
    BY <2>2 DEF Tiles
  <2> QED
    BY <1>1, <1>2, <1>4, <2>1, <2>2, <2>3, Pool
<1> QED
  BY <1>3, <1>4

\* Chunks do not overlap.
LEMMA Disjoint ==
    ASSUME NEW h \in Heap, NEW H, Tiles(h, H), NEW a \in H, NEW b \in H, a # b,
           NEW w \in Int, a <= w, w <= tail(h, a)
    PROVE  ~(b <= w /\ w <= tail(h, b))
<1>1. a \in Int /\ b \in Int /\ tail(h, a) = after(h, a) - 1 /\ tail(h, b) = after(h, b) - 1
      /\ after(h, a) \in Int /\ after(h, b) \in Int
  BY ChunkFacts
<1>2. (a < b => after(h, a) <= b) /\ (b < a => after(h, b) <= a)
  BY DEF Tiles
<1> QED
  BY <1>1, <1>2

\* So there is room for links.
LEMMA HeadsApart ==
    ASSUME NEW h \in Heap, NEW H, Tiles(h, H), NEW S, S \subseteq H \ Border
    PROVE  Apart(S)
<1>1. ASSUME NEW a \in S PROVE a \in Int /\ 1 <= a /\ a + 4 <= WORDS - 1
  <2>1. a \in H /\ a \notin Border
    OBVIOUS
  <2>2. a \in Int /\ size_of(h, a) \in Int /\ size_of(h, a) >= 4 /\ 1 <= a /\ a + size_of(h, a) <= WORDS - 1
    BY <2>1, ChunkFacts
  <2> QED
    BY <2>2, Pool
<1>2. ASSUME NEW a \in S, NEW b \in S, a < b PROVE a + 4 <= b
  <2>1. a \in H /\ a \notin Border /\ b \in H
    OBVIOUS
  <2>2. a \in Int /\ b \in Int /\ size_of(h, a) \in Int /\ size_of(h, a) >= 4 /\ after(h, a) = a + size_of(h, a)
    BY <2>1, ChunkFacts
  <2>3. after(h, a) <= b
    BY <1>2, <2>1 DEF Tiles
  <2> QED
    BY <2>2, <2>3
<1> QED
  BY <1>1, <1>2 DEF Apart

\* What is read at a depends on the word at a only.
LEMMA SameHead ==
    ASSUME NEW h, NEW g, NEW a, g.mem[a] = h.mem[a]
    PROVE  /\ size_of(g, a) = size_of(h, a) /\ is_free(g, a) = is_free(h, a)
           /\ after(g, a) = after(h, a) /\ tail(g, a) = tail(h, a)
  BY DEF size_of, is_free, after, tail

\* Heads that are not written keep their chunks.
LEMMA TilesKept ==
    ASSUME NEW h, NEW g, NEW H, Tiles(h, H), \A a \in H : g.mem[a] = h.mem[a]
    PROVE  Tiles(g, H)
<1>1. \A a \in H : size_of(g, a) = size_of(h, a) /\ after(g, a) = after(h, a)
  BY SameHead
<1> QED
  BY <1>1 DEF Tiles

\* Links are neither heads nor tails, nor in other chunks.
LEMMA LinksElsewhere ==
    ASSUME NEW h \in Heap, NEW H, Tiles(h, H), NEW S, S \subseteq H \ Border
    PROVE  /\ \A a \in H : a \notin LinkWords(S) /\ tail(h, a) \notin LinkWords(S)
           /\ \A a \in H \ S : \A w \in a .. tail(h, a) : w \notin LinkWords(S)
<1>1. ASSUME NEW s \in S
      PROVE  /\ s \in H /\ s \in Int /\ tail(h, s) \in Int /\ s + 3 <= tail(h, s)
  <2>1. s \in H /\ s \notin Border
    OBVIOUS
  <2>2. s \in Int /\ size_of(h, s) \in Int /\ size_of(h, s) >= 4 /\ tail(h, s) = s + size_of(h, s) - 1
    BY <2>1, ChunkFacts
  <2> QED
    BY <2>1, <2>2
<1>2. ASSUME NEW a \in H, NEW s \in S, NEW w \in Int, s + 1 <= w, w <= s + 2
      PROVE  /\ w # a /\ w # tail(h, a)
             /\ a # s => ~(a <= w /\ w <= tail(h, a))
  <2>1. s \in H /\ s \in Int /\ tail(h, s) \in Int /\ s + 3 <= tail(h, s)
    BY <1>1
  <2>2. s <= w /\ w <= tail(h, s) /\ w # s /\ w # tail(h, s)
    BY <1>2, <2>1
  <2>3. a # s => ~(a <= w /\ w <= tail(h, a))
    BY <2>1, <2>2, Disjoint
  <2>4. a \in Int /\ tail(h, a) \in Int /\ a <= tail(h, a)
    BY ChunkFacts, Pool
  <2> QED
    BY <2>2, <2>3, <2>4
<1>3. \A w \in LinkWords(S) : \E s \in S : w \in Int /\ s + 1 <= w /\ w <= s + 2
  BY <1>1 DEF LinkWords
<1>4. \A a \in H : a \notin LinkWords(S) /\ tail(h, a) \notin LinkWords(S)
  BY <1>2, <1>3
<1>5. ASSUME NEW a \in H \ S, NEW w \in a .. tail(h, a) PROVE w \notin LinkWords(S)
  <2>1. a \in Int /\ tail(h, a) \in Int
    BY ChunkFacts, Pool
  <2>2. a <= w /\ w <= tail(h, a)
    BY <2>1
  <2> QED
    BY <1>2, <1>3, <2>2
<1> QED
  BY <1>4, <1>5

\* What callers hold: words of their own in chunks in use, every such chunk held.
Held(h, H, B, D) ==
    /\ \A b \in B : /\ b \in Address \X Nat /\ b[1] - 1 \in H \ Border /\ ~is_free(h, b[1] - 1)
                    /\ b[2] <= size_of(h, b[1] - 1) - 2
                    /\ \A w \in b[1] .. b[1] + b[2] - 1 : h.mem[w] = D[w]
    /\ \A b, c \in B : b[1] = c[1] => b = c
    /\ \A a \in H \ Border : ~is_free(h, a) => \E b \in B : b[1] - 1 = a

\* Chunks in use that are not written stay held.
LEMMA HeldKept ==
    ASSUME NEW h \in Heap, NEW H, Tiles(h, H), NEW B, NEW D, Held(h, H, B, D), NEW g, NEW G,
           \A a \in H \ Border : ~is_free(h, a) =>
               a \in G /\ \A w \in a .. tail(h, a) : g.mem[w] = h.mem[w],
           \A a \in G \ Border : ~is_free(g, a) => a \in H /\ ~is_free(h, a)
    PROVE  Held(g, G, B, D)
<1>1. ASSUME NEW b \in B
      PROVE  /\ b \in Address \X Nat /\ b[1] - 1 \in G \ Border /\ ~is_free(g, b[1] - 1)
             /\ b[2] <= size_of(g, b[1] - 1) - 2
             /\ \A w \in b[1] .. b[1] + b[2] - 1 : g.mem[w] = D[w]
  <2> DEFINE a == b[1] - 1
  <2>1. /\ b \in Address \X Nat /\ a \in H \ Border /\ ~is_free(h, a)
        /\ b[2] <= size_of(h, a) - 2 /\ \A w \in b[1] .. b[1] + b[2] - 1 : h.mem[w] = D[w]
    BY DEF Held
  <2>2. b[1] \in Int /\ b[2] \in Int /\ b[1] = a + 1 /\ 0 <= b[2]
    BY <2>1, Pool
  <2> HIDE DEF a
  <2>3. a \in G /\ \A w \in a .. tail(h, a) : g.mem[w] = h.mem[w]
    BY <2>1
  <2>4. a \in Int /\ size_of(h, a) \in Int /\ size_of(h, a) >= 1 /\ tail(h, a) = a + size_of(h, a) - 1
    BY <2>1, ChunkFacts
  <2>5. a \in a .. tail(h, a)
    BY <2>4
  <2>6. size_of(g, a) = size_of(h, a) /\ is_free(g, a) = is_free(h, a)
    BY <2>3, <2>5, SameHead
  <2>7. \A w \in b[1] .. b[1] + b[2] - 1 : w \in a .. tail(h, a)
    BY <2>1, <2>2, <2>4
  <2> QED
    BY <2>1, <2>3, <2>6, <2>7 DEF a
<1>2. \A b, c \in B : b[1] = c[1] => b = c
  BY DEF Held
<1>3. \A a \in G \ Border : ~is_free(g, a) => \E b \in B : b[1] - 1 = a
  BY DEF Held
<1> QED
  BY <1>1, <1>2, <1>3 DEF Held

\* The heap while the chunks in X are free but in no list, their tails not yet set:
\* H are the heads of its chunks, S those in the free list, B what callers hold.
Intact(h, H, S, r, B, X, D) ==
    /\ h \in Heap /\ Tiles(h, H) /\ Tails(h, H, X)
    /\ X \subseteq Free(h, H) /\ S = Free(h, H) \ X
    /\ Listed(h, S, r) /\ Held(h, H, B, D)
    /\ \A a \in H : is_free(h, a) /\ is_free(h, after(h, a)) => a \in X \/ after(h, a) \in X

\* Free chunks are not borders.
LEMMA FreeInside ==
    ASSUME NEW h, NEW H, NEW S, NEW r, NEW B, NEW D, NEW X, Intact(h, H, S, r, B, X, D)
    PROVE  /\ Free(h, H) \subseteq H \ Border /\ S \subseteq H \ Border /\ X \subseteq H \ Border
           /\ h \in Heap /\ Tiles(h, H) /\ Apart(Free(h, H)) /\ Apart(S)
<1>1. h \in Heap /\ Tiles(h, H) /\ S \subseteq Free(h, H) /\ X \subseteq Free(h, H)
  BY DEF Intact
<1>2. Free(h, H) \subseteq H \ Border
  BY <1>1, ChunkFacts DEF Free
<1>3. S \subseteq H \ Border
  BY <1>1, <1>2
<1> QED
  BY <1>1, <1>2, <1>3, HeadsApart

\* Words that are neither heads nor tails nor in chunks in use do not matter.
LEMMA Elsewhere ==
    ASSUME NEW h \in Heap, NEW H, Tiles(h, H), NEW X, Tails(h, H, X), NEW B, NEW D, Held(h, H, B, D),
           NEW g \in Heap, NEW W, Writes(h, g, W),
           \A a \in H : a \notin W, \A a \in H \ X : tail(h, a) \notin W,
           \A a \in H : ~is_free(h, a) => \A w \in a .. tail(h, a) : w \notin W
    PROVE  /\ Tiles(g, H) /\ Tails(g, H, X) /\ Held(g, H, B, D) /\ Free(g, H) = Free(h, H)
           /\ \A a \in H : /\ g.mem[a] = h.mem[a] /\ size_of(g, a) = size_of(h, a) /\ is_free(g, a) = is_free(h, a)
                           /\ after(g, a) = after(h, a) /\ tail(g, a) = tail(h, a)
<1>1. \A a \in H : a \in Address /\ tail(h, a) \in Address
  BY ChunkFacts
<1>2. \A a \in H : g.mem[a] = h.mem[a]
  BY <1>1 DEF Writes
<1>3. \A a \in H : /\ size_of(g, a) = size_of(h, a) /\ is_free(g, a) = is_free(h, a)
                   /\ after(g, a) = after(h, a) /\ tail(g, a) = tail(h, a)
  BY <1>2, SameHead
<1>4. Tiles(g, H)
  BY <1>2, TilesKept
<1>5. Tails(g, H, X)
  BY <1>1, <1>2, <1>3 DEF Tails, Writes
<1>6. Free(g, H) = Free(h, H)
  BY <1>3 DEF Free
<1>7. ASSUME NEW a \in H \ Border, ~is_free(h, a)
      PROVE  a \in H /\ \A w \in a .. tail(h, a) : g.mem[w] = h.mem[w]
  <2>1. a \in Int /\ 0 <= a /\ tail(h, a) \in Int /\ tail(h, a) < WORDS
    BY <1>1, Pool
  <2>2. \A w \in a .. tail(h, a) : w \in Address
    BY <2>1, Pool
  <2> QED
    BY <1>7, <2>2 DEF Writes
<1>8. Held(g, H, B, D)
  BY <1>3, <1>7, HeldKept
<1> QED
  BY <1>2, <1>3, <1>4, <1>5, <1>6, <1>8

\* MARK_FREE of ffs_free: a chunk that its caller gives back.
LEMMA MarkFree ==
    ASSUME NEW h, NEW H, NEW S, NEW r, NEW B, NEW D, Intact(h, H, S, r, B, {}, D), NEW b \in B
    PROVE  Intact(set_head(h, b[1] - 1, size_of(h, b[1] - 1), FALSE), H, S, r, B \ {b}, {b[1] - 1}, D)
<1> DEFINE a == b[1] - 1
           n == size_of(h, a)
           g == set_head(h, a, n, FALSE)
<1>1. /\ h \in Heap /\ Tiles(h, H) /\ Held(h, H, B, D) /\ Tails(h, H, {}) /\ Listed(h, S, r)
      /\ S = Free(h, H)
  BY DEF Intact
<1>2. a \in H \ Border /\ ~is_free(h, a)
  BY <1>1 DEF Held
<1> HIDE DEF a
<1>3. a \in H /\ a \in Address /\ a \in Int /\ n \in Nat /\ n <= WORDS /\ n >= 4
  <2>1. a \in H /\ a \in Int /\ a >= 0 /\ n \in Int /\ n >= 4 /\ a + n <= WORDS - 1 /\ a \in Address
    BY <1>1, <1>2, ChunkFacts
  <2> QED
    BY <2>1, Pool
<1> HIDE DEF n
<1>4. g \in Heap /\ g.first = h.first /\ g.mem[a] = 2 * n /\ \A u \in Address : u # a => g.mem[u] = h.mem[u]
  BY <1>1, <1>3, SetFree
<1> HIDE DEF g
<1>5. \A c \in H : c \in Address /\ tail(h, c) \in Address
  BY <1>1, ChunkFacts
<1>6. size_of(g, a) = n /\ is_free(g, a)
  BY <1>3, <1>4, ReadBack
<1>7. \A c \in H : c # a => size_of(g, c) = size_of(h, c) /\ is_free(g, c) = is_free(h, c)
  BY <1>4, <1>5, SameHead
<1>8. \A c \in H : size_of(g, c) = size_of(h, c) /\ after(g, c) = after(h, c) /\ tail(g, c) = tail(h, c)
  BY <1>6, <1>7 DEF after, tail, n
<1>9. Tiles(g, H)
  <2>1. 0 # a /\ WORDS - 1 # a /\ 0 \in Address /\ WORDS - 1 \in Address
    BY <1>2, Pool DEF Border
  <2>2. g.mem[0] = h.mem[0] /\ g.mem[WORDS - 1] = h.mem[WORDS - 1]
    BY <1>4, <2>1
  <2> QED
    BY <1>1, <1>8, <2>2 DEF Tiles
<1>10. Tails(g, H, {a})
  <2> SUFFICES ASSUME NEW c \in H, c # a PROVE g.mem[tail(g, c)] = g.mem[c]
    BY DEF Tails
  <2>1. h.mem[tail(h, c)] = h.mem[c]
    BY <1>1 DEF Tails
  <2>2. c \in Int /\ tail(h, c) \in Int /\ c <= tail(h, c) /\ a <= tail(h, a)
    BY <1>1, <1>3, ChunkFacts, Pool
  <2>3. tail(h, c) # a
    BY <1>1, <1>3, <2>2, Disjoint
  <2> QED
    BY <1>4, <1>5, <1>8, <2>1, <2>3
<1>11. Free(g, H) = S \cup {a} /\ a \notin S
  BY <1>1, <1>2, <1>6, <1>7 DEF Free
<1>12. S \subseteq H \ Border /\ Apart(S)
  BY FreeInside
<1>13. Listed(g, S, r)
  <2>1. \A w \in LinkWords(S) : w \in Address /\ w # a
    <3>1. a \notin LinkWords(S)
      BY <1>1, <1>3, <1>12, LinksElsewhere
    <3>2. \A w \in LinkWords(S) : w \in Address
      BY <1>12, LinksInside DEF LinkWords
    <3> QED
      BY <3>1, <3>2
  <2>2. \A w \in LinkWords(S) : g.mem[w] = h.mem[w]
    BY <1>4, <2>1
  <2> QED
    BY <1>1, <1>4, <1>12, <2>2, ListedKept
<1>14. Held(g, H, B \ {b}, D)
  <2>1. ASSUME NEW c \in B \ {b}
        PROVE  /\ c \in Address \X Nat /\ c[1] - 1 \in H \ Border /\ ~is_free(g, c[1] - 1)
               /\ c[2] <= size_of(g, c[1] - 1) - 2
               /\ \A w \in c[1] .. c[1] + c[2] - 1 : g.mem[w] = D[w]
    <3>1. /\ c \in Address \X Nat /\ c[1] - 1 \in H \ Border /\ ~is_free(h, c[1] - 1)
          /\ c[2] <= size_of(h, c[1] - 1) - 2 /\ \A w \in c[1] .. c[1] + c[2] - 1 : h.mem[w] = D[w]
      BY <1>1 DEF Held
    <3>2. c[1] \in Int /\ c[2] \in Int /\ b[1] \in Int /\ c[1] # b[1]
      <4>1. b \in Address \X Nat /\ b \in B /\ c \in B /\ c # b
        BY <1>1 DEF Held
      <4>2. c[1] # b[1]
        BY <1>1, <4>1 DEF Held
      <4> QED
        BY <3>1, <4>1, <4>2, Pool
    <3> DEFINE d == c[1] - 1
    <3>3. d # a /\ d \in Int
      BY <3>2 DEF a
    <3>4. d \in H /\ is_free(g, d) = is_free(h, d) /\ size_of(g, d) = size_of(h, d)
      BY <1>7, <3>1, <3>3
    <3>5. size_of(h, d) \in Int /\ tail(h, d) = d + size_of(h, d) - 1 /\ tail(h, d) \in Int /\ d >= 0
          /\ tail(h, d) < WORDS
      BY <1>1, <3>4, ChunkFacts, Pool
    <3>6. ASSUME NEW w \in c[1] .. c[1] + c[2] - 1 PROVE g.mem[w] = D[w]
      <4>1. w \in Int /\ d <= w /\ w <= tail(h, d) /\ w \in Address
        BY <3>1, <3>2, <3>5, Pool
      <4>2. a <= tail(h, a)
        BY <1>1, <1>3, ChunkFacts, Pool
      <4>3. w # a
        BY <1>1, <1>3, <3>3, <3>4, <4>1, <4>2, Disjoint
      <4> QED
        BY <1>4, <3>1, <4>1, <4>3
    <3> QED
      BY <3>1, <3>4, <3>6
  <2>2. \A c, d \in B \ {b} : c[1] = d[1] => c = d
    BY <1>1 DEF Held
  <2>3. ASSUME NEW c \in H \ Border, ~is_free(g, c) PROVE \E d \in B \ {b} : d[1] - 1 = c
    <3>1. c # a /\ ~is_free(h, c)
      BY <1>6, <1>7, <2>3
    <3>2. PICK d \in B : d[1] - 1 = c
      BY <1>1, <3>1 DEF Held
    <3> QED
      BY <3>1, <3>2 DEF a
  <2> HIDE DEF a
  <2> QED
    BY <2>1, <2>2, <2>3 DEF Held
<1>15. \A c \in H : is_free(g, c) /\ is_free(g, after(g, c)) => c = a \/ after(g, c) = a
  <2> SUFFICES ASSUME NEW c \in H, is_free(g, c), is_free(g, after(g, c)), c # a, after(g, c) # a PROVE FALSE
    OBVIOUS
  <2>1. is_free(h, c) /\ after(g, c) = after(h, c)
    BY <1>7, <1>8
  <2>2. after(h, c) \in H
    BY <1>1, <2>1, ChunkFacts
  <2>3. is_free(h, after(h, c))
    BY <1>7, <2>1, <2>2
  <2> QED
    BY <2>1, <2>3 DEF Intact
<1>16. Intact(g, H, S, r, B \ {b}, {a}, D)
  BY <1>3, <1>4, <1>9, <1>10, <1>11, <1>13, <1>14, <1>15 DEF Intact
<1> QED
  BY <1>16 DEF g, n, a

\* x and the chunk y behind it as one, after c is taken from the list.
Merged(h, c, x, y) == set_head(ffs_remove_chunk(h, c), x, size_of(h, x) + size_of(h, y), FALSE)

\* Two free chunks side by side, t of them not in the list, become one.
LEMMA Merge ==
    ASSUME NEW h, NEW H, NEW S, NEW r, NEW B, NEW D, NEW X, Intact(h, H, S, r, B, X, D),
           NEW x \in H, NEW y \in H, y = after(h, x), is_free(h, x), is_free(h, y),
           NEW c, (X = {x} /\ c = y) \/ (X = {y} /\ c = x),
           NEW G, G = H \ {y}, NEW T, T = S \ {c}, NEW Y, Y = {x}, NEW e, e = Merged(h, c, x, y)
    PROVE  /\ Intact(e, G, T, r, B, Y, D)
           /\ after(e, x) = after(h, y)
           /\ \A a \in H : a # x /\ a # y => is_free(e, a) = is_free(h, a) /\ after(e, a) = after(h, a)
<1> DEFINE f == ffs_remove_chunk(h, c)
           n == size_of(h, x) + size_of(h, y)
           g == set_head(f, x, n, FALSE)
<1>0. PICK t : X = {t} /\ ((t = x /\ c = y) \/ (t = y /\ c = x))
  OBVIOUS
<1>1. /\ h \in Heap /\ Tiles(h, H) /\ Tails(h, H, {t}) /\ S = Free(h, H) \ {t} /\ Listed(h, S, r) /\ Held(h, H, B, D)
      /\ \A a \in H : is_free(h, a) /\ is_free(h, after(h, a)) => a = t \/ after(h, a) = t
  BY <1>0 DEF Intact
<1>2. S \subseteq H \ Border /\ Apart(S) /\ x \notin Border /\ y \notin Border
  BY FreeInside DEF Free
<1>3. /\ x \in Int /\ y \in Int /\ size_of(h, x) \in Int /\ size_of(h, y) \in Int /\ size_of(h, x) >= 4 /\ size_of(h, y) >= 4
      /\ y = x + size_of(h, x) /\ after(h, y) = y + size_of(h, y) /\ after(h, y) <= WORDS - 1 /\ 1 <= x
      /\ after(h, y) \in H /\ x \in Address /\ tail(h, x) = y - 1
  BY <1>1, <1>2, ChunkFacts
<1>4. n \in Nat /\ n <= WORDS /\ n >= 8 /\ x + n = after(h, y) /\ x < y
  BY <1>3, Pool
<1>5. c \in S /\ x # y
  <2>1. x # y
    BY <1>3, <1>4
  <2> QED
    BY <1>0, <1>1, <2>1 DEF Free
<1>6. f \in Heap /\ Listed(f, T, r) /\ Writes(h, f, LinkWords(S))
  BY <1>1, <1>2, <1>5, RemoveListed
<1> HIDE DEF f, n
<1>7. g \in Heap /\ g.first = f.first /\ g.mem[x] = 2 * n /\ \A u \in Address : u # x => g.mem[u] = f.mem[u]
  BY <1>3, <1>4, <1>6, SetFree
<1> HIDE DEF g
<1>8. /\ \A a \in H : a \notin LinkWords(S) /\ tail(h, a) \notin LinkWords(S)
      /\ \A a \in H \ S : \A w \in a .. tail(h, a) : w \notin LinkWords(S)
  BY <1>1, <1>2, LinksElsewhere
<1>9. \A u \in Address : u # x /\ u \notin LinkWords(S) => g.mem[u] = h.mem[u]
  BY <1>6, <1>7 DEF Writes
<1>10. \A a \in H : a \in Address /\ a \in Int /\ tail(h, a) \in Address /\ tail(h, a) \in Int /\ a <= tail(h, a)
  BY <1>1, ChunkFacts, Pool
<1>11. size_of(g, x) = n /\ is_free(g, x)
  BY <1>4, <1>7, ReadBack
<1>12. \A a \in H : a # x => /\ g.mem[a] = h.mem[a] /\ size_of(g, a) = size_of(h, a) /\ is_free(g, a) = is_free(h, a)
                             /\ after(g, a) = after(h, a) /\ tail(g, a) = tail(h, a)
  BY <1>8, <1>9, <1>10, SameHead
<1>13. after(g, x) = after(h, y)
  BY <1>4, <1>11 DEF after
<1>14. \A a \in H : a # x => after(h, a) # y
  <2> SUFFICES ASSUME NEW a \in H, a # x PROVE after(h, a) # y
    OBVIOUS
  <2>1. a \in Int /\ after(h, a) \in Int /\ after(h, a) = a + size_of(h, a) /\ size_of(h, a) \in Int /\ size_of(h, a) >= 1
    BY <1>1, ChunkFacts
  <2>2. (a < x => after(h, a) <= x) /\ (x < a => y <= a)
    BY <1>1 DEF Tiles
  <2> QED
    BY <1>3, <1>4, <2>1, <2>2
<1>15. Tiles(g, G)
  <2>1. G \subseteq Address /\ 0 \in G /\ WORDS - 1 \in G
    BY <1>1, <1>2 DEF Tiles, Border
  <2>2. g.mem[0] = 3 /\ g.mem[WORDS - 1] = 3
    BY <1>1, <1>2, <1>12, <2>1 DEF Tiles, Border
  <2>3. \A a \in G \ Border : size_of(g, a) >= 4
    BY <1>1, <1>4, <1>11, <1>12 DEF Tiles
  <2>4. \A a \in G : a # WORDS - 1 => after(g, a) \in G
    BY <1>1, <1>3, <1>4, <1>12, <1>13, <1>14 DEF Tiles
  <2>5. ASSUME NEW a \in G, NEW b \in G, a < b PROVE after(g, a) <= b
    <3>1. CASE a = x
      <4>1. y <= b /\ b # y /\ b \in Int
        BY <1>1, <1>10, <2>5, <3>1 DEF Tiles
      <4>2. y < b
        BY <1>3, <4>1
      <4> QED
        BY <1>1, <1>13, <3>1, <4>2 DEF Tiles
    <3>2. CASE a # x
      BY <1>1, <1>12, <2>5, <3>2 DEF Tiles
    <3> QED
      BY <3>1, <3>2
  <2>6. ASSUME NEW b \in G, b # 0 PROVE \E a \in G : after(g, a) = b
    <3>1. PICK a \in H : after(h, a) = b
      BY <1>1, <2>6 DEF Tiles
    <3>2. CASE a = y
      BY <1>5, <1>13, <3>1, <3>2
    <3>3. CASE a # y
      <4>1. a # x
        BY <3>1
      <4> QED
        BY <1>12, <3>1, <3>3, <4>1
    <3> QED
      BY <3>2, <3>3
  <2> QED
    BY <2>1, <2>2, <2>3, <2>4, <2>5, <2>6 DEF Tiles
<1>16. Tails(g, G, {x})
  <2> SUFFICES ASSUME NEW a \in H, a # x, a # y PROVE g.mem[tail(g, a)] = g.mem[a]
    BY DEF Tails
  <2>1. h.mem[tail(h, a)] = h.mem[a]
    BY <1>1 DEF Tails
  <2>2. x <= tail(h, x)
    BY <1>10
  <2>3. tail(h, a) # x
    BY <1>1, <1>10, <2>2, Disjoint
  <2> QED
    BY <1>8, <1>9, <1>10, <1>12, <2>1, <2>3
<1>17. T = Free(g, G) \ {x} /\ x \in Free(g, G)
  <2>1. Free(g, G) = Free(h, H) \ {y}
    BY <1>5, <1>11, <1>12 DEF Free
  <2> QED
    BY <1>1, <1>5, <2>1 DEF Free
<1>18. Listed(g, T, r)
  <2>1. T \subseteq H \ Border /\ Apart(T)
    BY <1>1, <1>2, HeadsApart
  <2>2. \A w \in LinkWords(T) : w \in LinkWords(S) /\ w \in Address
    BY <1>2, LinksInside DEF LinkWords
  <2>3. \A w \in LinkWords(T) : g.mem[w] = f.mem[w]
    BY <1>7, <1>8, <2>2
  <2> QED
    BY <1>6, <1>7, <2>1, <2>3, ListedKept
<1>19. Held(g, G, B, D)
  <2>1. ASSUME NEW a \in H \ Border, ~is_free(h, a)
        PROVE  a \in G /\ \A w \in a .. tail(h, a) : g.mem[w] = h.mem[w]
    <3>1. a # x /\ a # y /\ a \notin S
      BY <1>1, <2>1 DEF Free
    <3>2. \A w \in a .. tail(h, a) : w \notin LinkWords(S)
      BY <1>8, <3>1
    <3>3. ASSUME NEW w \in a .. tail(h, a) PROVE w \in Address /\ w # x
      <4>1. w \in Int /\ a <= w /\ w <= tail(h, a)
        BY <1>10
      <4>2. w \in Address
        BY <1>10, <4>1, Pool
      <4>3. x <= tail(h, x)
        BY <1>10
      <4> QED
        BY <1>1, <3>1, <4>1, <4>2, <4>3, Disjoint
    <3> QED
      BY <1>9, <3>1, <3>2, <3>3
  <2>2. \A a \in G \ Border : ~is_free(g, a) => a \in H /\ ~is_free(h, a)
    BY <1>11, <1>12
  <2> QED
    BY <1>1, <2>1, <2>2, HeldKept
<1>20. \A a \in G : is_free(g, a) /\ is_free(g, after(g, a)) => a = x \/ after(g, a) = x
  <2> SUFFICES ASSUME NEW a \in H, a # y, is_free(g, a), is_free(g, after(g, a)), a # x, after(g, a) # x PROVE FALSE
    OBVIOUS
  <2>1. is_free(h, a) /\ after(g, a) = after(h, a)
    BY <1>12
  <2>2. after(h, a) \in H /\ after(h, a) # y
    BY <1>1, <1>14, <2>1, ChunkFacts
  <2>3. is_free(h, after(h, a))
    BY <1>12, <2>1, <2>2
  <2> QED
    BY <1>1, <2>1, <2>2, <2>3
<1>21. Intact(g, G, T, r, B, Y, D)
  BY <1>7, <1>15, <1>16, <1>17, <1>18, <1>19, <1>20 DEF Intact
<1> QED
  <2>1. g = e
    BY DEF g, f, n, Merged
  <2> QED
    BY <1>12, <1>13, <1>21, <2>1

\* A chunk reaches the next head: what follows is another chunk.
LEMMA AfterNot ==
    ASSUME NEW h \in Heap, NEW H, Tiles(h, H), NEW a \in H
    PROVE  a < after(h, a) /\ after(h, a) # a
<1>1. a \in Int /\ size_of(h, a) \in Int /\ size_of(h, a) >= 1 /\ after(h, a) = a + size_of(h, a)
  BY ChunkFacts
<1> QED
  BY <1>1

\* The first join of ffs_free.
LEMMA JoinLeft ==
    ASSUME NEW h, NEW H, NEW S, NEW r, NEW B, NEW D, NEW a, Intact(h, H, S, r, B, {a}, D)
    PROVE  LET l == join_left(h, a)
           IN  \E G, T : /\ Intact(l.heap, G, T, r, B, {l.chunk}, D)
                         /\ \A x \in G : after(l.heap, x) = l.chunk => ~is_free(l.heap, x)
<1> DEFINE b == a - size_of(h, a - 1)
           l == join_left(h, a)
           e == set_head(ffs_remove_chunk(h, b), b, size_of(h, b) + size_of(h, a), FALSE)
<1>1. /\ h \in Heap /\ Tiles(h, H) /\ Tails(h, H, {a}) /\ a \in H /\ is_free(h, a)
      /\ \A x \in H : is_free(h, x) /\ is_free(h, after(h, x)) => x = a \/ after(h, x) = a
  BY DEF Intact, Free
<1>2. a \notin Border
  BY FreeInside
<1>3. PICK c \in H : after(h, c) = a
  BY <1>1, <1>2 DEF Tiles, Border
<1>4. c \in Int /\ size_of(h, c) \in Int /\ a = c + size_of(h, c) /\ tail(h, c) = a - 1 /\ c # a /\ a \in Int /\ c < a
  <2>1. c \in Int /\ size_of(h, c) \in Int /\ a = c + size_of(h, c) /\ tail(h, c) = c + size_of(h, c) - 1 /\ size_of(h, c) >= 1
    BY <1>1, <1>3, ChunkFacts
  <2> QED
    BY <2>1
<1>5. h.mem[a - 1] = h.mem[c]
  BY <1>1, <1>4 DEF Tails
<1>6. is_free(h, a - 1) = is_free(h, c) /\ size_of(h, a - 1) = size_of(h, c)
  BY <1>5 DEF is_free, size_of
<1>7. b = c
  BY <1>4, <1>6
<1>8. \A x \in H : after(h, x) = a => x = c
  <2> SUFFICES ASSUME NEW x \in H, after(h, x) = a PROVE x = c
    OBVIOUS
  <2>1. x \in Int /\ x < a
    BY <1>1, AfterNot, ChunkFacts
  <2>2. (x < c => a <= c) /\ (c < x => a <= x)
    BY <1>1, <1>3 DEF Tiles
  <2> QED
    BY <1>4, <2>1, <2>2
<1>9. CASE ~is_free(h, c)
  <2>1. l = [heap |-> h, chunk |-> a]
    BY <1>6, <1>9 DEF join_left
  <2>2. l.heap = h /\ l.chunk = a
    BY <2>1
  <2> HIDE DEF l
  <2>3. Intact(h, H, S, r, B, {a}, D) /\ \A x \in H : after(h, x) = a => ~is_free(h, x)
    BY <1>8, <1>9
  <2> QED
    BY <2>2, <2>3 DEF l
<1>10. CASE is_free(h, c)
  <2>1. l = [heap |-> e, chunk |-> b]
    BY <1>6, <1>10 DEF join_left
  <2>2. l.heap = e /\ l.chunk = c
    BY <1>7, <2>1
  <2>3. e = Merged(h, c, c, a)
    BY <1>7 DEF Merged
  <2> HIDE DEF e, l
  <2>4. /\ Intact(e, H \ {a}, S \ {c}, r, B, {c}, D)
        /\ after(e, c) = after(h, a)
        /\ \A x \in H : x # c /\ x # a => is_free(e, x) = is_free(h, x) /\ after(e, x) = after(h, x)
    <3> DEFINE X == {a}
               Y == {c}
               G == H \ {a}
               T == S \ {c}
    <3>1. Intact(h, H, S, r, B, X, D)
      OBVIOUS
    <3>2. X = {a} /\ Y = {c} /\ G = H \ {a} /\ T = S \ {c}
      OBVIOUS
    <3> HIDE DEF X, Y, G, T
    <3>3. /\ Intact(e, G, T, r, B, Y, D)
          /\ after(e, c) = after(h, a)
          /\ \A x \in H : x # c /\ x # a => is_free(e, x) = is_free(h, x) /\ after(e, x) = after(h, x)
      BY <1>1, <1>3, <1>10, <2>3, <3>1, <3>2, Merge
    <3> QED
      BY <3>2, <3>3
  <2>5. ASSUME NEW x \in H \ {a}, after(e, x) = c PROVE ~is_free(e, x)
    <3>1. x # c
      BY <2>4, <2>5, AfterNot DEF Intact
    <3>2. after(h, x) = c /\ is_free(e, x) = is_free(h, x)
      BY <2>4, <2>5, <3>1
    <3> QED
      BY <1>1, <1>4, <1>10, <3>2
  <2> QED
    BY <2>2, <2>4, <2>5 DEF l
<1> QED
  BY <1>9, <1>10

\* The second join of ffs_free: no two free chunks side by side are left.
LEMMA JoinRight ==
    ASSUME NEW h, NEW H, NEW S, NEW r, NEW B, NEW D, NEW a, Intact(h, H, S, r, B, {a}, D),
           \A x \in H : after(h, x) = a => ~is_free(h, x)
    PROVE  LET g == join_right(h, a)
           IN  \E G, T : /\ Intact(g, G, T, r, B, {a}, D)
                         /\ \A x \in G : is_free(g, x) => ~is_free(g, after(g, x))
<1> DEFINE b == after(h, a)
           g == join_right(h, a)
<1>1. /\ h \in Heap /\ Tiles(h, H) /\ a \in H /\ is_free(h, a)
      /\ \A x \in H : is_free(h, x) /\ is_free(h, after(h, x)) => x = a \/ after(h, x) = a
  BY DEF Intact, Free
<1>2. a \notin Border /\ a \in Int
  BY <1>1, ChunkFacts
<1>3. b \in H /\ b # a /\ a < b /\ b \in Int
  BY <1>1, <1>2, ChunkFacts, AfterNot
<1>4. CASE ~is_free(h, b)
  <2>1. g = h
    BY <1>4 DEF join_right
  <2> HIDE DEF g
  <2>2. \A x \in H : is_free(h, x) => ~is_free(h, after(h, x))
    BY <1>1, <1>4
  <2> QED
    BY <2>1, <2>2 DEF g
<1>5. CASE is_free(h, b)
  <2>1. g = Merged(h, b, a, b)
    BY <1>5 DEF join_right, Merged
  <2>2. b = after(h, a)
    OBVIOUS
  <2> HIDE DEF b, g
  <2>3. /\ Intact(g, H \ {b}, S \ {b}, r, B, {a}, D)
        /\ after(g, a) = after(h, b)
        /\ \A x \in H : x # a /\ x # b => is_free(g, x) = is_free(h, x) /\ after(g, x) = after(h, x)
    <3> DEFINE X == {a}
               G == H \ {b}
               T == S \ {b}
    <3>1. Intact(h, H, S, r, B, X, D)
      OBVIOUS
    <3>2. X = {a} /\ G = H \ {b} /\ T = S \ {b}
      OBVIOUS
    <3> HIDE DEF X, G, T
    <3>3. /\ Intact(g, G, T, r, B, X, D)
          /\ after(g, a) = after(h, b)
          /\ \A x \in H : x # a /\ x # b => is_free(g, x) = is_free(h, x) /\ after(g, x) = after(h, x)
      BY <1>1, <1>3, <1>5, <2>1, <2>2, <3>1, <3>2, Merge
    <3> QED
      BY <3>2, <3>3
  <2>4. ASSUME NEW x \in H \ {b}, is_free(g, x), is_free(g, after(g, x)) PROVE FALSE
    <3>1. x = a \/ after(g, x) = a
      BY <2>3, <2>4 DEF Intact
    <3>2. CASE x = a
      <4>1. after(h, b) \in H /\ after(h, b) # b /\ after(h, b) > b /\ after(h, b) \in Int
        BY <1>1, <1>3, <1>5, ChunkFacts, AfterNot
      <4>2. after(h, b) # a
        BY <1>2, <1>3, <4>1
      <4>3. is_free(h, after(h, b))
        BY <2>3, <2>4, <3>2, <4>1, <4>2
      <4> QED
        BY <1>1, <1>3, <1>5, <4>2, <4>3
    <3>3. CASE x # a /\ after(g, x) = a
      BY <2>3, <2>4, <3>3
    <3> QED
      BY <3>1, <3>2, <3>3
  <2> QED
    BY <2>3, <2>4 DEF g
<1> QED
  BY <1>4, <1>5

\* The end of ffs_free: the chunk is listed and has its tail.
LEMMA PutBack ==
    ASSUME NEW h, NEW H, NEW S, NEW r, NEW B, NEW D, NEW a, Intact(h, H, S, r, B, {a}, D),
           \A x \in H : is_free(h, x) => ~is_free(h, after(h, x))
    PROVE  \E T, q : Intact(clone_size_to_tail(ffs_insert_chunk(h, a), a), H, T, q, B, {}, D)
<1> DEFINE f == ffs_insert_chunk(h, a)
           g == clone_size_to_tail(f, a)
           T == S \cup {a}
<1>1. /\ h \in Heap /\ Tiles(h, H) /\ Tails(h, H, {a}) /\ a \in H /\ is_free(h, a) /\ S = Free(h, H) \ {a}
      /\ T = Free(h, H) /\ a \notin S /\ Listed(h, S, r) /\ Held(h, H, B, D)
  BY DEF Intact, Free
<1>2. T \subseteq H \ Border /\ Apart(T)
  BY <1>1, FreeInside
<1>3. f \in Heap /\ Writes(h, f, LinkWords(T)) /\ \E q : Listed(f, T, q)
  BY <1>1, <1>2, InsertListed
<1>4. PICK q : Listed(f, T, q)
  BY <1>3
<1> HIDE DEF f
<1>5. /\ \A x \in H : x \notin LinkWords(T) /\ tail(h, x) \notin LinkWords(T)
      /\ \A x \in H \ T : \A w \in x .. tail(h, x) : w \notin LinkWords(T)
  BY <1>1, <1>2, LinksElsewhere
<1>6. \A x \in H : ~is_free(h, x) => x \in H \ T
  BY <1>1 DEF Free
<1> HIDE DEF T
<1>7. /\ Tiles(f, H) /\ Tails(f, H, {a}) /\ Held(f, H, B, D) /\ Free(f, H) = Free(h, H)
      /\ \A x \in H : /\ f.mem[x] = h.mem[x] /\ size_of(f, x) = size_of(h, x) /\ is_free(f, x) = is_free(h, x)
                      /\ after(f, x) = after(h, x) /\ tail(f, x) = tail(h, x)
  <2>1. \A x \in H : ~is_free(h, x) => \A w \in x .. tail(h, x) : w \notin LinkWords(T)
    BY <1>5, <1>6
  <2>2. (\A x \in H : x \notin LinkWords(T)) /\ (\A x \in H \ {a} : tail(h, x) \notin LinkWords(T))
    BY <1>5
  <2> QED
    BY <1>1, <1>3, <2>1, <2>2, Elsewhere
<1> DEFINE w == tail(f, a)
<1>8. w \in Address /\ w = tail(h, a) /\ w \in Int /\ a \in Int /\ a + 3 <= w /\ a \in Address
  <2>1. a \notin Border
    BY <1>1, FreeInside
  <2>2. a \in Address /\ a \in Int /\ size_of(h, a) \in Int /\ size_of(h, a) >= 4 /\ tail(h, a) = a + size_of(h, a) - 1 /\ tail(h, a) \in Address
    BY <1>1, <2>1, ChunkFacts
  <2> QED
    BY <1>1, <1>7, <2>2, Pool
<1>9. g \in Heap /\ g.first = f.first /\ g.mem[w] = f.mem[a] /\ \A u \in Address : u # w => g.mem[u] = f.mem[u]
  BY <1>3, <1>8, SetTail
<1> HIDE DEF g, w
<1>10. \A x \in H : x # a => /\ x \in Int /\ tail(f, x) \in Int /\ x # w /\ tail(f, x) # w
                             /\ \A u \in x .. tail(f, x) : u # w
  <2> SUFFICES ASSUME NEW x \in H, x # a
               PROVE  /\ x \in Int /\ tail(f, x) \in Int /\ x # w /\ tail(f, x) # w /\ \A u \in x .. tail(f, x) : u # w
    OBVIOUS
  <2>1. x \in Int /\ tail(f, x) \in Int /\ x <= tail(f, x)
    BY <1>3, <1>7, ChunkFacts, Pool
  <2>2. a <= w /\ w <= tail(f, a) /\ w \in Int
    BY <1>8 DEF w
  <2>3. ~(x <= w /\ w <= tail(f, x))
    BY <1>1, <1>3, <1>7, <2>2, Disjoint
  <2> QED
    BY <2>1, <2>2, <2>3
<1>11. Writes(f, g, {w})
  BY <1>9 DEF Writes
<1>12. a # w
  BY <1>8
<1>13. /\ Tiles(g, H) /\ Tails(g, H, {a}) /\ Held(g, H, B, D) /\ Free(g, H) = Free(f, H)
       /\ \A x \in H : /\ g.mem[x] = f.mem[x] /\ size_of(g, x) = size_of(f, x) /\ is_free(g, x) = is_free(f, x)
                       /\ after(g, x) = after(f, x) /\ tail(g, x) = tail(f, x)
  <2>1. \A x \in H : x \notin {w}
    BY <1>10, <1>12
  <2>2. \A x \in H \ {a} : tail(f, x) \notin {w}
    BY <1>10
  <2>3. \A x \in H : ~is_free(f, x) => \A u \in x .. tail(f, x) : u \notin {w}
    BY <1>1, <1>7, <1>10
  <2> DEFINE W == {w}
  <2>4. /\ Writes(f, g, W) /\ (\A x \in H : x \notin W) /\ (\A x \in H \ {a} : tail(f, x) \notin W)
        /\ \A x \in H : ~is_free(f, x) => \A u \in x .. tail(f, x) : u \notin W
    BY <1>11, <2>1, <2>2, <2>3
  <2> HIDE DEF W
  <2> QED
    BY <1>3, <1>7, <1>9, <2>4, Elsewhere
<1>14. Tails(g, H, {})
  <2>1. g.mem[tail(g, a)] = g.mem[a]
    BY <1>1, <1>9, <1>13 DEF w
  <2> QED
    BY <1>13, <2>1 DEF Tails
<1>15. Listed(g, T, q)
  <2>1. \A u \in LinkWords(T) : u \in Address /\ u # w
    <3>1. w \notin LinkWords(T)
      BY <1>1, <1>5, <1>8
    <3>2. \A u \in LinkWords(T) : u \in Address
      BY <1>2, LinksInside DEF LinkWords
    <3> QED
      BY <3>1, <3>2
  <2> QED
    BY <1>2, <1>4, <1>9, <2>1, ListedKept
<1>16. \A x \in H : is_free(g, x) /\ is_free(g, after(g, x)) => x \in {} \/ after(g, x) \in {}
  <2> SUFFICES ASSUME NEW x \in H, is_free(g, x), is_free(g, after(g, x)) PROVE FALSE
    OBVIOUS
  <2>1. is_free(h, x) /\ after(g, x) = after(h, x)
    BY <1>7, <1>13
  <2>2. after(h, x) \in H
    BY <1>1, <2>1, ChunkFacts
  <2>3. is_free(h, after(h, x))
    BY <1>7, <1>13, <2>1, <2>2
  <2> QED
    BY <2>1, <2>3
<1>17. T = Free(g, H) \ {}
  BY <1>1, <1>7, <1>13
<1>18. Intact(g, H, T, q, B, {}, D)
  BY <1>9, <1>13, <1>14, <1>15, <1>16, <1>17 DEF Intact
<1> QED
  BY <1>18 DEF g, f

\* Some chunks and some free list: the heap between two calls.
Sound(h, B, D) == \E H, S, r : Intact(h, H, S, r, B, {}, D)

\* Memory given back: ffs_free.
LEMMA FreeSound ==
    ASSUME NEW h, NEW B, NEW D, Sound(h, B, D), NEW b \in B
    PROVE  LET l == join_left(set_head(h, b[1] - 1, size_of(h, b[1] - 1), FALSE), b[1] - 1)
           IN  Sound(clone_size_to_tail(ffs_insert_chunk(join_right(l.heap, l.chunk), l.chunk), l.chunk), B \ {b}, D)
<1> DEFINE a == b[1] - 1
           d == set_head(h, a, size_of(h, a), FALSE)
           l == join_left(d, a)
           k == l.heap
           c == l.chunk
           j == join_right(k, c)
           g == clone_size_to_tail(ffs_insert_chunk(j, c), c)
           C == B \ {b}
<1>1. PICK H, S, r : Intact(h, H, S, r, B, {}, D)
  BY DEF Sound
<1>2. Intact(d, H, S, r, C, {a}, D)
  BY <1>1, MarkFree
<1> HIDE DEF d, a, C
<1>3. \E G, T : Intact(k, G, T, r, C, {c}, D) /\ \A x \in G : after(k, x) = c => ~is_free(k, x)
  BY <1>2, JoinLeft
<1>4. PICK G, T : Intact(k, G, T, r, C, {c}, D) /\ \A x \in G : after(k, x) = c => ~is_free(k, x)
  BY <1>3
<1> HIDE DEF k, c, l
<1>5. \E I, U : Intact(j, I, U, r, C, {c}, D) /\ \A x \in I : is_free(j, x) => ~is_free(j, after(j, x))
  BY <1>4, JoinRight
<1>6. PICK I, U : Intact(j, I, U, r, C, {c}, D) /\ \A x \in I : is_free(j, x) => ~is_free(j, after(j, x))
  BY <1>5
<1> HIDE DEF j
<1>7. \E V, q : Intact(g, I, V, q, C, {}, D)
  BY <1>6, PutBack
<1>8. Sound(g, C, D)
  BY <1>7 DEF Sound
<1> QED
  BY <1>8 DEF g, j, k, c, l, d, a, C

\* Words written in one chunk are not those of another.
LEMMA OtherChunks ==
    ASSUME NEW h \in Heap, NEW H, Tiles(h, H), NEW c \in H, NEW g,
           \A u \in Address : ~(c <= u /\ u <= tail(h, c)) => g.mem[u] = h.mem[u]
    PROVE  \A x \in H : x # c =>
             /\ \A w \in x .. tail(h, x) : g.mem[w] = h.mem[w]
             /\ g.mem[x] = h.mem[x] /\ g.mem[tail(h, x)] = h.mem[tail(h, x)]
             /\ size_of(g, x) = size_of(h, x) /\ is_free(g, x) = is_free(h, x)
             /\ after(g, x) = after(h, x) /\ tail(g, x) = tail(h, x)
<1> SUFFICES ASSUME NEW x \in H, x # c
             PROVE  /\ \A w \in x .. tail(h, x) : g.mem[w] = h.mem[w]
                    /\ g.mem[x] = h.mem[x] /\ g.mem[tail(h, x)] = h.mem[tail(h, x)]
                    /\ size_of(g, x) = size_of(h, x) /\ is_free(g, x) = is_free(h, x)
                    /\ after(g, x) = after(h, x) /\ tail(g, x) = tail(h, x)
  OBVIOUS
<1>1. x \in Int /\ tail(h, x) \in Int /\ x <= tail(h, x) /\ 0 <= x /\ tail(h, x) < WORDS
  BY ChunkFacts, Pool
<1>2. ASSUME NEW w \in x .. tail(h, x) PROVE g.mem[w] = h.mem[w]
  <2>1. w \in Int /\ x <= w /\ w <= tail(h, x) /\ w \in Address
    BY <1>1, Pool
  <2>2. ~(c <= w /\ w <= tail(h, c))
    BY <2>1, Disjoint
  <2> QED
    BY <2>1, <2>2
<1>3. x \in x .. tail(h, x) /\ tail(h, x) \in x .. tail(h, x)
  BY <1>1
<1>4. g.mem[x] = h.mem[x] /\ g.mem[tail(h, x)] = h.mem[tail(h, x)]
  BY <1>2, <1>3
<1> QED
  BY <1>2, <1>4, SameHead

\* A chunk in the free list taken as a whole.
LEMMA TakeWhole ==
    ASSUME NEW h, NEW H, NEW S, NEW r, NEW B, NEW D, Intact(h, H, S, r, B, {}, D), NEW a \in S
    PROVE  /\ Intact(ffs_remove_chunk(h, a), H, S \ {a}, r, B, {a}, D)
           /\ size_of(ffs_remove_chunk(h, a), a) = size_of(h, a)
<1> DEFINE g == ffs_remove_chunk(h, a)
           T == S \ {a}
<1>1. /\ h \in Heap /\ Tiles(h, H) /\ Tails(h, H, {}) /\ S = Free(h, H) /\ Listed(h, S, r) /\ Held(h, H, B, D)
      /\ \A x \in H : ~(is_free(h, x) /\ is_free(h, after(h, x)))
  BY DEF Intact
<1>2. S \subseteq H \ Border /\ Apart(S)
  BY FreeInside
<1>3. g \in Heap /\ Listed(g, T, r) /\ Writes(h, g, LinkWords(S))
  BY <1>1, <1>2, RemoveListed
<1> HIDE DEF g
<1>4. /\ \A x \in H : x \notin LinkWords(S) /\ tail(h, x) \notin LinkWords(S)
      /\ \A x \in H \ S : \A w \in x .. tail(h, x) : w \notin LinkWords(S)
  BY <1>1, <1>2, LinksElsewhere
<1>5. \A x \in H : ~is_free(h, x) => \A w \in x .. tail(h, x) : w \notin LinkWords(S)
  BY <1>1, <1>4 DEF Free
<1>6. Tails(h, H, {a}) /\ \A x \in H \ {a} : tail(h, x) \notin LinkWords(S)
  BY <1>1, <1>4 DEF Tails
<1>7. /\ Tiles(g, H) /\ Tails(g, H, {a}) /\ Held(g, H, B, D) /\ Free(g, H) = Free(h, H)
      /\ \A x \in H : /\ g.mem[x] = h.mem[x] /\ size_of(g, x) = size_of(h, x) /\ is_free(g, x) = is_free(h, x)
                      /\ after(g, x) = after(h, x) /\ tail(g, x) = tail(h, x)
  <2> DEFINE X == {a}
             W == LinkWords(S)
  <2>1. Tails(h, H, X) /\ (\A x \in H \ X : tail(h, x) \notin W) /\ X = {a}
        /\ (\A x \in H : x \notin W) /\ Writes(h, g, W)
        /\ \A x \in H : ~is_free(h, x) => \A w \in x .. tail(h, x) : w \notin W
    BY <1>3, <1>4, <1>5, <1>6
  <2> HIDE DEF X, W
  <2>2. /\ Tiles(g, H) /\ Tails(g, H, X) /\ Held(g, H, B, D) /\ Free(g, H) = Free(h, H)
        /\ \A x \in H : /\ g.mem[x] = h.mem[x] /\ size_of(g, x) = size_of(h, x) /\ is_free(g, x) = is_free(h, x)
                        /\ after(g, x) = after(h, x) /\ tail(g, x) = tail(h, x)
    BY <1>1, <1>3, <2>1, Elsewhere
  <2> QED
    BY <2>1, <2>2
<1>8. T = Free(g, H) \ {a} /\ {a} \subseteq Free(g, H)
  BY <1>1, <1>7
<1>9. \A x \in H : is_free(g, x) /\ is_free(g, after(g, x)) => x \in {a} \/ after(g, x) \in {a}
  <2> SUFFICES ASSUME NEW x \in H, is_free(g, x), is_free(g, after(g, x)) PROVE FALSE
    OBVIOUS
  <2>1. is_free(h, x) /\ after(g, x) = after(h, x)
    BY <1>7
  <2>2. after(h, x) \in H
    BY <1>1, <2>1, ChunkFacts
  <2> QED
    BY <1>1, <1>7, <2>1, <2>2
<1>10. Intact(g, H, T, r, B, {a}, D)
  BY <1>3, <1>7, <1>8, <1>9 DEF Intact
<1>11. size_of(g, a) = size_of(h, a)
  BY <1>2, <1>7
<1> QED
  BY <1>10, <1>11 DEF g

\* MARK_USED, the tail, and what the caller writes.
LEMMA TakeUsed ==
    ASSUME NEW h, NEW H, NEW S, NEW r, NEW B, NEW D, NEW c, Intact(h, H, S, r, B, {c}, D),
           NEW n \in Nat, n + 2 <= size_of(h, c)
    PROVE  Intact(fill(mark_used(h, c), c + 1, n), H, S, r, B \cup {<<c + 1, n>>}, {},
                  zeroed(D, c + 1, n))
<1> DEFINE s == size_of(h, c)
           d == set_head(h, c, s, TRUE)
           e == clone_size_to_tail(d, c)
           g == fill(e, c + 1, n)
           w == tail(h, c)
           b == <<c + 1, n>>
           C == B \cup {b}
           E == zeroed(D, c + 1, n)
<1>1. /\ h \in Heap /\ Tiles(h, H) /\ Tails(h, H, {c}) /\ c \in H /\ is_free(h, c) /\ S = Free(h, H) \ {c}
      /\ Listed(h, S, r) /\ Held(h, H, B, D)
      /\ \A x \in H : is_free(h, x) /\ is_free(h, after(h, x)) => x = c \/ after(h, x) = c
  BY DEF Intact, Free
<1>2. c \notin Border /\ S \subseteq H \ Border /\ Apart(S)
  BY FreeInside
<1>3. /\ c \in Address /\ c \in Int /\ 1 <= c /\ s \in Nat /\ s >= 4 /\ s <= WORDS /\ w = c + s - 1 /\ w \in Address
      /\ c + s <= WORDS - 1 /\ w \in Int /\ n + 2 <= s /\ WORDS \in Int
  <2>1. c \in Address /\ c \in Int /\ 1 <= c /\ s \in Int /\ s >= 4 /\ w = c + s - 1 /\ w \in Address /\ c + s <= WORDS - 1
    BY <1>1, <1>2, ChunkFacts
  <2> QED
    BY <2>1, Pool
<1> HIDE DEF s
<1>4. d \in Heap /\ d.first = h.first /\ d.mem[c] = 2 * s + 1 /\ \A u \in Address : u # c => d.mem[u] = h.mem[u]
  BY <1>1, <1>3, SetUsed
<1> HIDE DEF d
<1>5. tail(d, c) = w
  <2>1. size_of(d, c) = s
    BY <1>3, <1>4, ReadBack
  <2> QED
    BY <1>3, <2>1 DEF tail, after
<1> HIDE DEF w
<1>6. e \in Heap /\ e.first = d.first /\ e.mem[w] = d.mem[c] /\ \A u \in Address : u # w => e.mem[u] = d.mem[u]
  <2>1. tail(d, c) \in Address
    BY <1>3, <1>5
  <2>2. /\ e \in Heap /\ e.first = d.first /\ e.mem[tail(d, c)] = d.mem[c]
        /\ \A u \in Address : u # tail(d, c) => e.mem[u] = d.mem[u]
    BY <1>3, <1>4, <2>1, SetTail
  <2> QED
    BY <1>5, <2>2
<1> HIDE DEF e
<1>7. /\ g \in Heap /\ g.first = e.first
      /\ \A u \in Address : g.mem[u] = IF c + 1 <= u /\ u <= c + n THEN 0 ELSE e.mem[u]
  <2>1. g = [e EXCEPT !.mem = [u \in Address |-> IF u \in c + 1 .. c + 1 + n - 1 THEN 0 ELSE e.mem[u]]]
    BY DEF fill, zeroed
  <2> HIDE DEF g
  <2>2. 0 \in Word /\ e \in [mem : [Address -> Word], first : Address \cup {NIL}]
    BY <1>6, Pool DEF Word, Heap
  <2> DEFINE m == [u \in Address |-> IF u \in c + 1 .. c + 1 + n - 1 THEN 0 ELSE e.mem[u]]
  <2>3. m \in [Address -> Word]
    BY <2>2
  <2>4. \A u \in Address : m[u] = IF c + 1 <= u /\ u <= c + n THEN 0 ELSE e.mem[u]
    <3>1. \A u \in Address : u \in c + 1 .. c + 1 + n - 1 <=> (c + 1 <= u /\ u <= c + n)
      BY <1>3, Pool
    <3> QED
      BY <3>1
  <2> HIDE DEF m
  <2>5. g = [e EXCEPT !.mem = m]
    BY <2>1 DEF m
  <2>6. g.mem = m /\ g.first = e.first /\ g \in [mem : [Address -> Word], first : Address \cup {NIL}]
    BY <2>2, <2>3, <2>5
  <2> QED
    BY <2>4, <2>6 DEF Heap
<1> HIDE DEF g
<1>20. \A u \in Address : E[u] = IF c + 1 <= u /\ u <= c + n THEN 0 ELSE D[u]
  <2>1. \A u \in Address : u \in c + 1 .. c + 1 + n - 1 <=> (c + 1 <= u /\ u <= c + n)
    BY <1>3, Pool
  <2> QED
    BY <2>1 DEF zeroed
<1> HIDE DEF E
<1>8. /\ \A u \in Address : ~(c <= u /\ u <= w) => g.mem[u] = h.mem[u]
      /\ g.mem[c] = 2 * s + 1 /\ g.mem[w] = 2 * s + 1
      /\ \A u \in Address : c + 1 <= u /\ u <= c + n => g.mem[u] = 0
  <2>1. \A u \in Address : ~(c <= u /\ u <= w) => g.mem[u] = h.mem[u]
    <3> SUFFICES ASSUME NEW u \in Address, ~(c <= u /\ u <= w) PROVE g.mem[u] = h.mem[u]
      OBVIOUS
    <3>1. u \in Int /\ u # c /\ u # w /\ ~(c + 1 <= u /\ u <= c + n)
      BY <1>3, Pool
    <3> QED
      BY <1>4, <1>6, <1>7, <3>1
  <2>2. c # w /\ ~(c + 1 <= c) /\ ~(w <= c + n)
    BY <1>3
  <2>3. g.mem[c] = 2 * s + 1 /\ g.mem[w] = 2 * s + 1
    BY <1>3, <1>4, <1>6, <1>7, <2>2
  <2> QED
    BY <1>7, <2>1, <2>3
<1>9. size_of(g, c) = s /\ ~is_free(g, c)
  <2>1. s \in Int /\ g.mem[c] = 2 * s + 1
    BY <1>3, <1>8
  <2> QED
    BY <2>1, ReadBack
<1>10. after(g, c) = after(h, c) /\ tail(g, c) = w
  BY <1>9 DEF after, tail, s, w
<1>11. \A x \in H : x # c =>
          /\ \A u \in x .. tail(h, x) : g.mem[u] = h.mem[u]
          /\ g.mem[x] = h.mem[x] /\ g.mem[tail(h, x)] = h.mem[tail(h, x)]
          /\ size_of(g, x) = size_of(h, x) /\ is_free(g, x) = is_free(h, x)
          /\ after(g, x) = after(h, x) /\ tail(g, x) = tail(h, x)
  BY <1>1, <1>8, OtherChunks DEF w
<1>12. Tiles(g, H)
  <2>1. 0 # c /\ WORDS - 1 # c
    BY <1>2 DEF Border
  <2>2. \A x \in H : size_of(g, x) = size_of(h, x) /\ after(g, x) = after(h, x)
    BY <1>9, <1>10, <1>11 DEF s
  <2>3. 0 \in H /\ WORDS - 1 \in H /\ h.mem[0] = 3 /\ h.mem[WORDS - 1] = 3
    BY <1>1 DEF Tiles
  <2>4. g.mem[0] = 3 /\ g.mem[WORDS - 1] = 3
    BY <1>11, <2>1, <2>3
  <2> QED
    BY <1>1, <2>2, <2>4 DEF Tiles
<1>13. Tails(g, H, {})
  BY <1>1, <1>8, <1>10, <1>11 DEF Tails
<1>14. S = Free(g, H)
  BY <1>1, <1>9, <1>11 DEF Free
<1>15. Listed(g, S, r)
  <2>1. ASSUME NEW u \in LinkWords(S) PROVE g.mem[u] = h.mem[u]
    <3>1. u \in Address /\ u \in Int
      BY <1>2, LinksInside, Pool DEF LinkWords
    <3>2. c \in H \ S
      BY <1>1
    <3>3. \A v \in c .. tail(h, c) : v \notin LinkWords(S)
      BY <1>1, <1>2, <3>2, LinksElsewhere
    <3>4. u \notin c .. w
      BY <3>3 DEF w
    <3>5. ~(c <= u /\ u <= w)
      BY <1>3, <3>1, <3>4
    <3> QED
      BY <1>8, <3>1, <3>5
  <2>2. g.first = h.first
    BY <1>4, <1>6, <1>7
  <2> QED
    BY <1>1, <1>2, <2>1, <2>2, ListedKept
<1>16. Held(g, H, C, E)
  <2>1. b[1] = c + 1 /\ b[2] = n /\ b[1] - 1 = c
    BY <1>3
  <2>2. b \in Address \X Nat
    BY <1>3, Pool
  <2> HIDE DEF b
  <2>3. /\ b \in Address \X Nat /\ b[1] - 1 \in H \ Border /\ ~is_free(g, b[1] - 1)
        /\ b[2] <= size_of(g, b[1] - 1) - 2
        /\ \A u \in b[1] .. b[1] + b[2] - 1 : g.mem[u] = E[u]
    <3>1. n <= s - 2
      BY <1>3
    <3>2. ASSUME NEW u \in b[1] .. b[1] + b[2] - 1 PROVE g.mem[u] = E[u]
      <4>1. u \in Int /\ c + 1 <= u /\ u <= c + n
        BY <1>3, <2>1
      <4>2. u \in Address
        BY <1>3, <4>1, Pool
      <4> QED
        BY <1>8, <1>20, <4>1, <4>2
    <3> QED
      BY <1>1, <1>2, <1>9, <2>1, <2>2, <3>1, <3>2
  <2>4. ASSUME NEW x \in B
        PROVE  /\ x \in Address \X Nat /\ x[1] - 1 \in H \ Border /\ ~is_free(g, x[1] - 1)
               /\ x[2] <= size_of(g, x[1] - 1) - 2
               /\ \A u \in x[1] .. x[1] + x[2] - 1 : g.mem[u] = E[u]
               /\ x[1] # b[1]
    <3> DEFINE y == x[1] - 1
    <3>1. /\ x \in Address \X Nat /\ y \in H \ Border /\ ~is_free(h, y)
          /\ x[2] <= size_of(h, y) - 2 /\ \A u \in x[1] .. x[1] + x[2] - 1 : h.mem[u] = D[u]
      BY <1>1 DEF Held
    <3>2. x[1] \in Int /\ x[2] \in Nat /\ x[1] = y + 1 /\ y \in Int
      BY <3>1, Pool
    <3> HIDE DEF y
    <3>3. y # c
      BY <1>1, <3>1
    <3>4. size_of(h, y) \in Int /\ tail(h, y) = y + size_of(h, y) - 1 /\ tail(h, y) \in Int
      BY <1>1, <3>1, ChunkFacts, Pool
    <3>5. \A u \in x[1] .. x[1] + x[2] - 1 : u \in y .. tail(h, y)
      BY <3>1, <3>2, <3>4
    <3>6. /\ \A u \in y .. tail(h, y) : g.mem[u] = h.mem[u]
          /\ size_of(g, y) = size_of(h, y) /\ is_free(g, y) = is_free(h, y)
      BY <1>11, <3>1, <3>3
    <3>7. x[1] # b[1]
      BY <1>3, <2>1, <3>2, <3>3
    <3>8. ASSUME NEW u \in x[1] .. x[1] + x[2] - 1 PROVE E[u] = D[u]
      <4>1. u \in Int /\ y <= u /\ u <= tail(h, y)
        BY <3>2, <3>4, <3>5
      <4>2. ~(c <= u /\ u <= tail(h, c))
        BY <1>1, <3>1, <3>3, <4>1, Disjoint
      <4>3. ~(c + 1 <= u /\ u <= c + n)
        BY <1>3, <4>1, <4>2 DEF w
      <4>4. u \in Address
        <5>1. tail(h, y) \in Address /\ y \in Address
          BY <1>1, <3>1, ChunkFacts
        <5>2. 0 <= u /\ u < WORDS
          BY <4>1, <5>1, <3>2, <3>4, Pool
        <5> QED
          BY <4>1, <5>2, Pool
      <4> QED
        BY <1>20, <4>3, <4>4
    <3> QED
      BY <3>1, <3>5, <3>6, <3>7, <3>8 DEF y
  <2>5. \A x, y \in C : x[1] = y[1] => x = y
    BY <1>1, <2>4 DEF Held
  <2>6. ASSUME NEW x \in H \ Border, ~is_free(g, x) PROVE \E y \in C : y[1] - 1 = x
    <3>1. CASE x = c
      BY <2>1, <3>1
    <3>2. CASE x # c
      BY <1>1, <1>11, <2>6, <3>2 DEF Held
    <3> QED
      BY <3>1, <3>2
  <2> QED
    BY <2>3, <2>4, <2>5, <2>6 DEF Held
<1>17. \A x \in H : is_free(g, x) /\ is_free(g, after(g, x)) => x \in {} \/ after(g, x) \in {}
  <2> SUFFICES ASSUME NEW x \in H, is_free(g, x), is_free(g, after(g, x)) PROVE FALSE
    OBVIOUS
  <2>1. x # c /\ after(g, x) # c
    BY <1>9
  <2>2. is_free(h, x) /\ after(g, x) = after(h, x)
    BY <1>11, <2>1
  <2>3. after(h, x) \in H
    BY <1>1, <2>2, ChunkFacts
  <2>4. is_free(h, after(h, x))
    BY <1>11, <2>1, <2>2, <2>3
  <2> QED
    BY <1>1, <2>1, <2>2, <2>4
<1>18. Intact(g, H, S, r, C, {}, E)
  BY <1>7, <1>12, <1>13, <1>14, <1>15, <1>16, <1>17 DEF Intact
<1>19. g = fill(mark_used(h, c), c + 1, n)
  BY DEF g, e, d, s, mark_used
<1> QED
  BY <1>18, <1>19 DEF E, C, b

\* The chunk at a without its last n words, and these as a chunk of their own.
Cut(h, a, n) == clone_size_to_tail(set_head(h, a, size_of(h, a) - n, FALSE), a)
CutEnd(h, a, n) == set_head(Cut(h, a, n), after(Cut(h, a, n), a), n, FALSE)

\* The end of a chunk in the free list taken as a chunk of its own.
LEMMA TakeEnd ==
    ASSUME NEW h, NEW H, NEW S, NEW r, NEW B, NEW D, Intact(h, H, S, r, B, {}, D), NEW a \in S,
           NEW n \in Nat, n >= 4, size_of(h, a) >= n + 4
    PROVE  \E G, X : /\ X = {after(Cut(h, a, n), a)} /\ Intact(CutEnd(h, a, n), G, S, r, B, X, D)
                     /\ size_of(CutEnd(h, a, n), after(Cut(h, a, n), a)) = n
<1> DEFINE s == size_of(h, a)
           k == set_head(h, a, s - n, FALSE)
           g == clone_size_to_tail(k, a)
           b == after(g, a)
           f == set_head(g, b, n, FALSE)
           w == tail(h, a)
           G == H \cup {b}
<1>1. /\ h \in Heap /\ Tiles(h, H) /\ Tails(h, H, {}) /\ S = Free(h, H) /\ Listed(h, S, r) /\ Held(h, H, B, D)
      /\ \A x \in H : ~(is_free(h, x) /\ is_free(h, after(h, x)))
  BY DEF Intact
<1>2. S \subseteq H \ Border /\ Apart(S) /\ a \in H /\ a \notin Border /\ is_free(h, a)
  BY <1>1, FreeInside DEF Free
<1>3. /\ a \in Address /\ a \in Int /\ 1 <= a /\ s \in Int /\ s >= n + 4 /\ w = a + s - 1 /\ w \in Int
      /\ a + s <= WORDS - 1 /\ WORDS \in Int /\ after(h, a) = a + s /\ after(h, a) \in H
  BY <1>1, <1>2, ChunkFacts, Pool
<1>4. s - n \in Nat /\ s - n <= WORDS /\ s - n >= 4 /\ n <= WORDS
  BY <1>3
<1> HIDE DEF s, w
<1> DEFINE m == s - n
<1>5. m \in Nat /\ m <= WORDS /\ m >= 4 /\ m \in Int /\ s = m + n
  BY <1>3, <1>4
<1> HIDE DEF m
<1>6. k \in Heap /\ k.first = h.first /\ k.mem[a] = 2 * m /\ \A u \in Address : u # a => k.mem[u] = h.mem[u]
  <2>1. k = set_head(h, a, m, FALSE)
    BY DEF m
  <2> HIDE DEF k
  <2> QED
    BY <1>1, <1>3, <1>5, <2>1, SetFree
<1> HIDE DEF k
<1>7. size_of(k, a) = m
  BY <1>5, <1>6, ReadBack
<1>8. tail(k, a) = a + m - 1 /\ a + m - 1 \in Address /\ a + m \in Address
  BY <1>3, <1>5, <1>7, Pool DEF tail, after
<1>9. /\ g \in Heap /\ g.first = h.first /\ g.mem[a + m - 1] = 2 * m /\ g.mem[a] = 2 * m
      /\ \A u \in Address : u # a /\ u # a + m - 1 => g.mem[u] = h.mem[u]
  <2>1. tail(k, a) \in Address
    BY <1>8
  <2>2. /\ g \in Heap /\ g.first = k.first /\ g.mem[tail(k, a)] = k.mem[a]
        /\ \A u \in Address : u # tail(k, a) => g.mem[u] = k.mem[u]
    BY <1>3, <1>6, <2>1, SetTail
  <2>3. a # a + m - 1
    BY <1>3, <1>5
  <2> QED
    BY <1>3, <1>6, <1>8, <2>2, <2>3
<1> HIDE DEF g
<1>10. b = a + m
  <2>1. size_of(g, a) = m
    BY <1>5, <1>9, ReadBack
  <2> QED
    BY <2>1 DEF after
<1> HIDE DEF b
<1>11. b \in Address /\ b \in Int /\ a + 4 <= b /\ b + n = a + s /\ n \in Int
  BY <1>3, <1>5, <1>8, <1>10
<1>12. /\ f \in Heap /\ f.first = h.first /\ f.mem[b] = 2 * n /\ f.mem[a] = 2 * m /\ f.mem[b - 1] = 2 * m
       /\ \A u \in Address : u # a /\ u # b - 1 /\ u # b => f.mem[u] = h.mem[u]
  <2>1. f \in Heap /\ f.first = g.first /\ f.mem[b] = 2 * n /\ \A u \in Address : u # b => f.mem[u] = g.mem[u]
    BY <1>4, <1>9, <1>11, SetFree
  <2>2. b - 1 = a + m - 1 /\ b - 1 # b /\ a # b /\ b - 1 \in Address
    BY <1>3, <1>5, <1>8, <1>10
  <2> QED
    BY <1>3, <1>9, <2>1, <2>2
<1> HIDE DEF f
<1>13. size_of(f, b) = n /\ is_free(f, b) /\ size_of(f, a) = m /\ is_free(f, a)
  <2>1. size_of(f, b) = n /\ is_free(f, b)
    BY <1>11, <1>12, ReadBack
  <2>2. size_of(f, a) = m /\ is_free(f, a)
    BY <1>5, <1>12, ReadBack
  <2> QED
    BY <2>1, <2>2
<1>14. after(f, a) = b /\ tail(f, a) = b - 1 /\ after(f, b) = after(h, a)
  BY <1>3, <1>10, <1>11, <1>13 DEF after, tail
<1>15. \A u \in Address : ~(a <= u /\ u <= w) => f.mem[u] = h.mem[u]
  <2> SUFFICES ASSUME NEW u \in Address, ~(a <= u /\ u <= w) PROVE f.mem[u] = h.mem[u]
    OBVIOUS
  <2>1. u \in Int /\ u # a /\ u # b - 1 /\ u # b
    BY <1>3, <1>5, <1>11, Pool
  <2> QED
    BY <1>12, <2>1
<1>16. \A x \in H : x # a =>
          /\ \A u \in x .. tail(h, x) : f.mem[u] = h.mem[u]
          /\ f.mem[x] = h.mem[x] /\ f.mem[tail(h, x)] = h.mem[tail(h, x)]
          /\ size_of(f, x) = size_of(h, x) /\ is_free(f, x) = is_free(h, x)
          /\ after(f, x) = after(h, x) /\ tail(f, x) = tail(h, x)
  BY <1>1, <1>2, <1>15, OtherChunks DEF w
<1>17. \A x \in H : x \in Int /\ (x < a => after(h, x) <= a) /\ (a < x => a + s <= x)
  BY <1>1, <1>2, <1>3, ChunkFacts DEF Tiles
<1>18. b \notin H /\ b \notin Border /\ a # b
  <2>1. b \notin H /\ a # b
    BY <1>3, <1>5, <1>11, <1>17
  <2> QED
    BY <1>1, <2>1 DEF Border, Tiles
<1>19. Tiles(f, G)
  <2>0. 0 \in H /\ WORDS - 1 \in H /\ h.mem[0] = 3 /\ h.mem[WORDS - 1] = 3 /\ 0 # a /\ WORDS - 1 # a /\ H \subseteq Address
    BY <1>1, <1>2 DEF Tiles, Border
  <2>1. G \subseteq Address /\ 0 \in G /\ WORDS - 1 \in G
    BY <1>11, <2>0
  <2>2. f.mem[0] = 3 /\ f.mem[WORDS - 1] = 3
    BY <1>16, <2>0
  <2>3. \A x \in G \ Border : size_of(f, x) >= 4
    BY <1>1, <1>5, <1>13, <1>16 DEF Tiles
  <2>4. \A x \in G : x # WORDS - 1 => after(f, x) \in G
    BY <1>1, <1>3, <1>14, <1>16 DEF Tiles
  <2>5. ASSUME NEW x \in G, NEW y \in G, x < y PROVE after(f, x) <= y
    <3>0. x \in Int /\ y \in Int
      BY <1>11, <1>17
    <3>1. CASE x = a
      BY <1>3, <1>5, <1>11, <1>14, <1>17, <2>5, <3>0, <3>1
    <3>2. CASE x = b
      <4>1. y \in H /\ a < y
        BY <1>3, <1>11, <2>5, <3>0, <3>2
      <4> QED
        BY <1>3, <1>14, <1>17, <3>2, <4>1
    <3>3. CASE x # a /\ x # b /\ y = b
      <4>1. x \in H /\ x < a
        BY <1>3, <1>5, <1>11, <1>17, <2>5, <3>0, <3>3
      <4>2. after(h, x) <= a /\ after(h, x) \in Int /\ after(f, x) = after(h, x)
        BY <1>1, <1>16, <1>17, <3>3, <4>1, ChunkFacts
      <4> QED
        BY <1>3, <1>11, <3>3, <4>2
    <3>4. CASE x # a /\ x # b /\ y # b
      BY <1>1, <1>16, <2>5, <3>4 DEF Tiles
    <3> QED
      BY <3>1, <3>2, <3>3, <3>4
  <2>6. ASSUME NEW y \in G, y # 0 PROVE \E x \in G : after(f, x) = y
    <3>1. CASE y = b
      BY <1>2, <1>14, <3>1
    <3>2. CASE y # b
      <4>1. PICK x \in H : after(h, x) = y
        BY <1>1, <2>6, <3>2 DEF Tiles
      <4>2. CASE x = a
        BY <1>14, <4>1, <4>2
      <4>3. CASE x # a
        BY <1>16, <4>1, <4>3
      <4> QED
        BY <4>2, <4>3
    <3> QED
      BY <3>1, <3>2
  <2> QED
    BY <2>1, <2>2, <2>3, <2>4, <2>5, <2>6 DEF Tiles
<1>20. Tails(f, G, {b})
  <2> SUFFICES ASSUME NEW x \in H PROVE f.mem[tail(f, x)] = f.mem[x]
    BY DEF Tails
  <2>1. CASE x = a
    BY <1>12, <1>14, <2>1
  <2>2. CASE x # a
    BY <1>1, <1>16, <2>2 DEF Tails
  <2> QED
    BY <2>1, <2>2
<1>21. S = Free(f, G) \ {b} /\ b \in Free(f, G)
  <2>1. Free(f, G) = Free(h, H) \cup {b}
    BY <1>2, <1>13, <1>16 DEF Free
  <2> QED
    BY <1>1, <1>18, <2>1 DEF Free
<1>22. Listed(f, S, r)
  <2>1. ASSUME NEW u \in LinkWords(S) PROVE f.mem[u] = h.mem[u]
    <3>0. PICK x \in S : u = x + 1 \/ u = x + 2
      BY DEF LinkWords
    <3>1. u \in Address /\ u \in Int /\ x \in Int
      BY <1>2, <3>0, LinksInside, Pool
    <3>2. (x < a => x + 4 <= a) /\ (a < x => a + s <= x)
      BY <1>2, <1>17 DEF Apart
    <3>3. u # a /\ u # b - 1 /\ u # b
      BY <1>3, <1>5, <1>11, <3>0, <3>1, <3>2
    <3> QED
      BY <1>12, <3>1, <3>3
  <2> QED
    BY <1>1, <1>2, <1>12, <2>1, ListedKept
<1>23. Held(f, G, B, D)
  <2>1. \A x \in H \ Border : ~is_free(h, x) =>
             x \in G /\ \A u \in x .. tail(h, x) : f.mem[u] = h.mem[u]
    BY <1>2, <1>16
  <2>2. \A x \in G \ Border : ~is_free(f, x) => x \in H /\ ~is_free(h, x)
    BY <1>13, <1>16
  <2> HIDE DEF G
  <2> QED
    BY <1>1, <2>1, <2>2, HeldKept
<1>24. \A x \in G : is_free(f, x) /\ is_free(f, after(f, x)) => x = b \/ after(f, x) = b
  <2> SUFFICES ASSUME NEW x \in H, is_free(f, x), is_free(f, after(f, x)), after(f, x) # b PROVE FALSE
    OBVIOUS
  <2>1. x # a
    BY <1>14
  <2>2. is_free(h, x) /\ after(f, x) = after(h, x)
    BY <1>16, <2>1
  <2>3. after(h, x) \in H
    BY <1>1, <2>2, ChunkFacts
  <2>4. is_free(h, after(h, x))
    <3>1. CASE after(h, x) = a
      BY <1>2, <3>1
    <3>2. CASE after(h, x) # a
      BY <1>16, <2>2, <2>3, <3>2
    <3> QED
      BY <3>1, <3>2
  <2> QED
    BY <1>1, <2>2, <2>4
<1>25. Intact(f, G, S, r, B, {b}, D)
  BY <1>12, <1>19, <1>20, <1>21, <1>22, <1>23, <1>24 DEF Intact
<1>26. g = Cut(h, a, n) /\ b = after(Cut(h, a, n), a) /\ f = CutEnd(h, a, n)
  BY DEF f, b, g, k, s, Cut, CutEnd
<1> QED
  BY <1>13, <1>25, <1>26

\* Memory taken from the chunk at a: ffs_alloc but for the search.
LEMMA AllocSound ==
    ASSUME NEW h, NEW H, NEW S, NEW r, NEW B, NEW D, Intact(h, H, S, r, B, {}, D), NEW a \in S,
           NEW n \in Nat, size_of(h, a) >= chunk_size(n)
    PROVE  LET t == split_off(h, a, chunk_size(n))
           IN  /\ Sound(fill(mark_used(t.heap, t.chunk), t.chunk + 1, n), B \cup {<<t.chunk + 1, n>>},
                       zeroed(D, t.chunk + 1, n))
               /\ t.chunk + 1 \in Address
               /\ \A b \in B : b[1] # t.chunk + 1
<1> DEFINE m == chunk_size(n)
           t == split_off(h, a, m)
           k == t.heap
           c == t.chunk
           e == after(Cut(h, a, m), a)
           f == CutEnd(h, a, m)
<1>1. m \in Nat /\ m >= 4 /\ n + 2 <= m
  BY Pool DEF chunk_size
<1>2. size_of(h, a) >= m /\ size_of(h, a) \in Int
  BY FreeInside, ChunkFacts
<1> HIDE DEF m
<1>3. \E G, T : Intact(k, G, T, r, B, {c}, D) /\ size_of(k, c) >= m /\ size_of(k, c) \in Int
  <2>1. CASE size_of(h, a) >= m + HEADER_SIZE
    <3>1. size_of(h, a) >= m + 4
      BY <2>1, Pool
    <3>2. \E G, X : X = {e} /\ Intact(f, G, S, r, B, X, D) /\ size_of(f, e) = m
      BY <1>1, <3>1, TakeEnd
    <3>3. t = [heap |-> f, chunk |-> e]
      BY <2>1 DEF split_off, Cut, CutEnd
    <3> HIDE DEF f, e, t
    <3>4. k = f /\ c = e
      BY <3>3
    <3> HIDE DEF k, c
    <3>5. m >= m /\ m \in Int
      BY <1>1
    <3> QED
      BY <3>2, <3>4, <3>5
  <2>2. CASE ~(size_of(h, a) >= m + HEADER_SIZE)
    <3>1. t = [heap |-> ffs_remove_chunk(h, a), chunk |-> a]
      BY <2>2 DEF split_off
    <3>2. /\ Intact(ffs_remove_chunk(h, a), H, S \ {a}, r, B, {a}, D)
          /\ size_of(ffs_remove_chunk(h, a), a) = size_of(h, a)
      BY TakeWhole
    <3> HIDE DEF t
    <3>3. k = ffs_remove_chunk(h, a) /\ c = a
      BY <3>1
    <3> HIDE DEF k, c
    <3> QED
      BY <1>2, <3>2, <3>3
  <2> QED
    BY <2>1, <2>2
<1> HIDE DEF k, c, t
<1>4. PICK G, T : Intact(k, G, T, r, B, {c}, D) /\ size_of(k, c) >= m /\ size_of(k, c) \in Int
  BY <1>3
<1>5. n + 2 <= size_of(k, c)
  BY <1>1, <1>4
<1>6. Intact(fill(mark_used(k, c), c + 1, n), G, T, r, B \cup {<<c + 1, n>>}, {}, zeroed(D, c + 1, n))
  BY <1>4, <1>5, TakeUsed
<1>7. Sound(fill(mark_used(k, c), c + 1, n), B \cup {<<c + 1, n>>}, zeroed(D, c + 1, n))
  BY <1>6 DEF Sound
<1>8. k \in Heap /\ Tiles(k, G) /\ c \in G /\ c \notin Border /\ is_free(k, c) /\ Held(k, G, B, D)
  <2>1. {c} \subseteq Free(k, G) /\ k \in Heap /\ Tiles(k, G) /\ Held(k, G, B, D)
    BY <1>4 DEF Intact
  <2>2. {c} \subseteq G \ Border
    BY <1>4, FreeInside
  <2> QED
    BY <2>1, <2>2 DEF Free
<1>9. c \in Int /\ c + 1 \in Address
  <2>1. c \in Int /\ 1 <= c /\ size_of(k, c) \in Int /\ size_of(k, c) >= 4 /\ c + size_of(k, c) <= WORDS - 1
    BY <1>8, ChunkFacts
  <2> QED
    BY <2>1, Pool
<1>10. ASSUME NEW b \in B, b[1] = c + 1 PROVE FALSE
  <2>1. ~is_free(k, b[1] - 1)
    BY <1>8 DEF Held
  <2>2. b[1] - 1 = c
    BY <1>9, <1>10
  <2> QED
    BY <1>8, <2>1, <2>2
<1> QED
  BY <1>7, <1>9, <1>10 DEF k, c, t, m

-----------------------------------------------------------------------------
\* The free list as a search meets it, and the heads as the sizes lead to them

\* The room for free chunks.
LEMMA MaxFreeType == MaxFree \in Nat /\ 4 * MaxFree <= WORDS /\ WORDS <= 4 * MaxFree + 3 /\ MaxFree >= 2
<1>1. WORDS \in Nat /\ WORDS >= 8 /\ MaxFree = WORDS \div 4
  BY Pool DEF MaxFree
<1> QED
  BY <1>1

\* What the next element of a list is.
Follow(h, a) == IF a = NIL THEN NIL ELSE next(h, a)

\* The list can be followed to any length.
LEMMA Followed ==
    ASSUME NEW h
    PROVE  \A n \in Nat : \E g : /\ g = [i \in 0 .. n |-> g[i]]
                                 /\ g[0] = h.first
                                 /\ \A i \in 1 .. n : g[i] = Follow(h, g[i - 1])
<1> DEFINE Good(n, g) == /\ g = [i \in 0 .. n |-> g[i]] /\ g[0] = h.first
                         /\ \A i \in 1 .. n : g[i] = Follow(h, g[i - 1])
           E == {n \in Nat : ~\E g : Good(n, g)}
<1>1. CASE E = {}
  BY <1>1
<1>2. CASE E # {}
  <2>1. PICK n \in E : \A m \in E : n <= m
    BY <1>2, Least
  <2>2. n \in Nat /\ ~\E g : Good(n, g)
    OBVIOUS
  <2>3. CASE n = 0
    <3> DEFINE g == [i \in 0 .. 0 |-> h.first]
    <3>1. g = [i \in 0 .. 0 |-> g[i]] /\ g[0] = h.first /\ \A i \in 1 .. 0 : FALSE
      OBVIOUS
    <3>2. Good(n, g)
      BY <2>3, <3>1
    <3> QED
      BY <2>2, <3>2
  <2>4. CASE n # 0
    <3>1. n - 1 \in Nat /\ ~(n <= n - 1)
      BY <2>2, <2>4
    <3>2. n - 1 \notin E
      BY <2>1, <3>1
    <3>3. PICK g : Good(n - 1, g)
      BY <3>1, <3>2
    <3> DEFINE k == [i \in 0 .. n |-> IF i = n THEN Follow(h, g[n - 1]) ELSE g[i]]
    <3>4. k = [i \in 0 .. n |-> k[i]]
      OBVIOUS
    <3>5. \A i \in 0 .. n : k[i] = IF i = n THEN Follow(h, g[n - 1]) ELSE g[i]
      OBVIOUS
    <3> HIDE DEF k
    <3>6. k[0] = h.first
      BY <2>2, <2>4, <3>3, <3>5
    <3>7. ASSUME NEW i \in 1 .. n PROVE k[i] = Follow(h, k[i - 1])
      <4>1. i \in 0 .. n /\ i - 1 \in 0 .. n /\ i - 1 # n
        BY <2>2
      <4>2. k[i - 1] = g[i - 1]
        BY <3>5, <4>1
      <4>3. CASE i = n
        BY <3>5, <4>1, <4>2, <4>3
      <4>4. CASE i # n
        <5>1. i \in 1 .. n - 1
          BY <2>2, <4>4
        <5>2. g[i] = Follow(h, g[i - 1])
          BY <3>3, <5>1
        <5> QED
          BY <3>5, <4>1, <4>2, <4>4, <5>2
      <4> QED
        BY <4>3, <4>4
    <3>8. Good(n, k)
      BY <3>4, <3>6, <3>7
    <3> QED
      BY <2>2, <3>8
  <2> QED
    BY <2>3, <2>4
<1> QED
  BY <1>1, <1>2

\* The recursion of free_list.
LEMMA FreeListStep ==
    ASSUME NEW h
    PROVE  /\ free_list(h)[0] = h.first
           /\ \A i \in 1 .. MaxFree : free_list(h)[i] = Follow(h, free_list(h)[i - 1])
<1> DEFINE P(l) == l = [i \in 0..MaxFree |-> IF i = 0 THEN h.first
                              ELSE IF l[i - 1] = NIL THEN NIL ELSE next(h, l[i - 1])]
<1>1. free_list(h) = CHOOSE l : P(l)
  BY DEF free_list
<1>2. PICK g : /\ g = [i \in 0 .. MaxFree |-> g[i]]
               /\ g[0] = h.first /\ \A i \in 1 .. MaxFree : g[i] = Follow(h, g[i - 1])
  BY MaxFreeType, Followed
<1>3. P(g)
  <2>1. ASSUME NEW i \in 0 .. MaxFree
        PROVE  g[i] = IF i = 0 THEN h.first ELSE IF g[i - 1] = NIL THEN NIL ELSE next(h, g[i - 1])
    <3>1. CASE i = 0
      BY <1>2, <3>1
    <3>2. CASE i # 0
      <4>1. i \in 1 .. MaxFree
        BY <3>2, MaxFreeType
      <4>2. g[i] = Follow(h, g[i - 1])
        BY <1>2, <4>1
      <4> QED
        BY <3>2, <4>2 DEF Follow
    <3> QED
      BY <3>1, <3>2
  <2> DEFINE k == [i \in 0..MaxFree |-> IF i = 0 THEN h.first
                              ELSE IF g[i - 1] = NIL THEN NIL ELSE next(h, g[i - 1])]
             f == [i \in 0..MaxFree |-> g[i]]
  <2>2. f = k
    BY <2>1
  <2>3. g = f
    BY <1>2
  <2> HIDE DEF f
  <2> QED
    BY <2>2, <2>3
<1> HIDE DEF P
<1>4. P(free_list(h))
  BY <1>1, <1>3
<1> DEFINE l == free_list(h)
<1>5. l = [i \in 0..MaxFree |-> IF i = 0 THEN h.first
                              ELSE IF l[i - 1] = NIL THEN NIL ELSE next(h, l[i - 1])]
  BY <1>4 DEF P
<1> HIDE DEF l
<1>6. \A i \in 0 .. MaxFree : l[i] = IF i = 0 THEN h.first
                              ELSE IF l[i - 1] = NIL THEN NIL ELSE next(h, l[i - 1])
  BY <1>5
<1>7. l[0] = h.first
  <2>1. 0 \in 0 .. MaxFree
    BY MaxFreeType
  <2> QED
    BY <1>6, <2>1
<1>8. ASSUME NEW i \in 1 .. MaxFree PROVE l[i] = Follow(h, l[i - 1])
  <2>1. i \in 0 .. MaxFree /\ i # 0
    BY MaxFreeType
  <2> QED
    BY <1>6, <2>1 DEF Follow
<1> QED
  BY <1>7, <1>8 DEF l

\* The list of an intact heap: it holds every free chunk once and ends.
LEMMA FreeListFacts ==
    ASSUME NEW h, NEW S, Apart(S), NEW r, Listed(h, S, r)
    PROVE  LET l == free_list(h)
           IN  /\ \A i \in 0 .. MaxFree : l[i] \in S \cup {NIL}
               /\ l[MaxFree] = NIL
               /\ \A a \in S : \E i \in 0 .. MaxFree : l[i] = a
               /\ \A i \in 0 .. MaxFree : l[i] # NIL => prev(h, l[i]) = IF i = 0 THEN NIL ELSE l[i - 1]
<1> DEFINE l == free_list(h)
           N == MaxFree
<1>1. l[0] = h.first /\ \A i \in 1 .. N : l[i] = Follow(h, l[i - 1])
  BY FreeListStep
<1>2. N \in Nat /\ WORDS <= 4 * N + 3 /\ N >= 2
  BY MaxFreeType
<1>3. \A a \in S : a \in Int /\ 1 <= a /\ a + 4 <= WORDS - 1 /\ a \in Address /\ r[a] \in Nat /\ a # NIL
  BY LinksInside DEF Apart, Listed
<1> HIDE DEF l, N
<1>4. ASSUME NEW i \in 0 .. N PROVE l[i] \in S \cup {NIL}
  <2> DEFINE E == {j \in 0 .. N : l[j] \notin S \cup {NIL}}
  <2>1. CASE E = {}
    BY <2>1
  <2>2. CASE E # {}
    <3>1. E \subseteq Nat
      BY <1>2
    <3>2. PICK j \in E : \A m \in E : j <= m
      BY <2>2, <3>1, Least
    <3>3. j \in 0 .. N /\ l[j] \notin S \cup {NIL} /\ j # 0
      BY <1>1 DEF Listed
    <3>4. j \in 1 .. N /\ j - 1 \in 0 .. N /\ ~(j <= j - 1)
      BY <1>2, <3>3
    <3>5. l[j - 1] \in S \cup {NIL}
      BY <3>2, <3>4
    <3>6. l[j] = Follow(h, l[j - 1])
      BY <1>1, <3>4
    <3> QED
      BY <3>3, <3>5, <3>6 DEF Follow, Listed
  <2> QED
    BY <2>1, <2>2
<1>5. ASSUME NEW i \in 1 .. N, l[i] # NIL
      PROVE  /\ i \in 0 .. N /\ i - 1 \in 0 .. N /\ l[i] \in S /\ l[i - 1] \in S /\ l[i] = next(h, l[i - 1])
             /\ prev(h, l[i]) = l[i - 1] /\ r[l[i - 1]] < r[l[i]]
  <2>1. i \in 0 .. N /\ i - 1 \in 0 .. N
    BY <1>2
  <2>2. l[i] \in S \cup {NIL} /\ l[i - 1] \in S \cup {NIL} /\ l[i] = Follow(h, l[i - 1])
    BY <1>1, <1>4, <2>1
  <2>3. l[i] \in S /\ l[i - 1] \in S /\ l[i] = next(h, l[i - 1])
    BY <1>5, <2>2 DEF Follow
  <2>4. prev(h, l[i]) = l[i - 1] /\ r[l[i - 1]] < r[l[i]]
    BY <1>5, <2>3 DEF Listed
  <2> QED
    BY <2>1, <2>3, <2>4
<1>6. ASSUME NEW i \in 0 .. N, NEW k \in 0 .. N, i < k, l[k] # NIL PROVE l[i] # NIL /\ r[l[i]] < r[l[k]]
  <2> DEFINE E == {j \in 0 .. N : i < j /\ l[j] # NIL /\ ~(l[i] # NIL /\ r[l[i]] < r[l[j]])}
  <2>1. CASE E = {}
    BY <1>6, <2>1
  <2>2. CASE E # {}
    <3>1. E \subseteq Nat
      BY <1>2
    <3>2. PICK j \in E : \A m \in E : j <= m
      BY <2>2, <3>1, Least
    <3>3. j \in 0 .. N /\ i < j /\ l[j] # NIL /\ ~(l[i] # NIL /\ r[l[i]] < r[l[j]])
      OBVIOUS
    <3>4. j \in Int /\ i \in Int /\ j \in 1 .. N /\ j - 1 \in 0 .. N /\ ~(j <= j - 1)
      BY <1>2, <3>3
    <3>5. l[j - 1] \in S /\ r[l[j - 1]] < r[l[j]] /\ l[j] \in S
      BY <1>5, <3>3, <3>4
    <3>6. CASE i = j - 1
      BY <1>3, <3>3, <3>5, <3>6
    <3>7. CASE i # j - 1
      <4>1. i < j - 1 /\ j - 1 \notin E
        BY <3>2, <3>3, <3>4, <3>7
      <4>2. l[i] # NIL /\ r[l[i]] < r[l[j - 1]]
        BY <1>3, <3>4, <3>5, <4>1
      <4>3. l[i] \in S
        BY <1>4, <4>2
      <4>4. r[l[i]] \in Nat /\ r[l[j - 1]] \in Nat /\ r[l[j]] \in Nat
        BY <1>3, <3>5, <4>3
      <4> QED
        BY <3>3, <3>5, <4>2, <4>4
    <3> QED
      BY <3>6, <3>7
  <2> QED
    BY <2>1, <2>2
<1>7. l[N] = NIL
  <2> SUFFICES ASSUME l[N] # NIL PROVE FALSE
    OBVIOUS
  <2>1. \A i \in 0 .. N : l[i] \in S
    BY <1>2, <1>4, <1>6
  <2> DEFINE f == [i \in 0 .. N |-> (l[i] - 1) \div 4]
             D == 0 .. N
             C == 0 .. N - 1
  <2>2. ASSUME NEW i \in D PROVE (l[i] - 1) \div 4 \in C
    <3> DEFINE a == l[i]
    <3>1. a \in Int /\ 1 <= a /\ a + 4 <= WORDS - 1
      BY <1>3, <2>1
    <3> HIDE DEF a
    <3>2. (a - 1) \div 4 \in 0 .. N - 1
      BY <1>2, <3>1, Pool
    <3> QED
      BY <3>2 DEF a
  <2>3. f \in [D -> C] /\ \A i \in D : f[i] = (l[i] - 1) \div 4
    BY <2>2
  <2>4. IsFiniteSet(D) /\ Cardinality(D) = N + 1 /\ IsFiniteSet(C) /\ Cardinality(C) = N
    <3>1. 0 \in Int /\ N \in Int /\ N - 1 \in Int /\ ~(0 > N) /\ ~(0 > N - 1) /\ N - 0 + 1 = N + 1 /\ N - 1 - 0 + 1 = N
      BY <1>2
    <3>2. IsFiniteSet(0 .. N) /\ Cardinality(0 .. N) = IF 0 > N THEN 0 ELSE N - 0 + 1
      BY <3>1, FS_Interval
    <3>3. IsFiniteSet(0 .. N - 1) /\ Cardinality(0 .. N - 1) = IF 0 > N - 1 THEN 0 ELSE N - 1 - 0 + 1
      BY <3>1, FS_Interval
    <3> QED
      BY <3>1, <3>2, <3>3
  <2>5. Cardinality(C) < Cardinality(D)
    BY <1>2, <2>4
  <2> HIDE DEF f, C, D
  <2>6. PICK i \in D, k \in D : i # k /\ f[i] = f[k]
    BY <2>3, <2>4, <2>5, FS_PigeonHole
  <2>7. l[i] \in S /\ l[k] \in S /\ (l[i] - 1) \div 4 = (l[k] - 1) \div 4
    BY <2>1, <2>3, <2>6 DEF D
  <2>8. l[i] = l[k]
    <3> DEFINE a == l[i]
               b == l[k]
    <3>1. a \in Int /\ b \in Int /\ (a < b => a + 4 <= b) /\ (b < a => b + 4 <= a)
      BY <1>3, <2>7 DEF Apart
    <3>2. (a - 1) \div 4 = (b - 1) \div 4
      BY <2>7
    <3> HIDE DEF a, b
    <3>3. a = b
      BY <3>1, <3>2
    <3> QED
      BY <3>3 DEF a, b
  <2>9. i \in 0 .. N /\ k \in 0 .. N /\ i \in Int /\ k \in Int /\ r[l[i]] \in Nat
    BY <1>2, <1>3, <2>7 DEF D
  <2>10. i < k \/ k < i
    BY <2>6, <2>9
  <2>11. l[i] # NIL /\ l[k] # NIL
    BY <1>3, <2>7
  <2>12. r[l[i]] < r[l[k]] \/ r[l[k]] < r[l[i]]
    BY <1>6, <2>9, <2>10, <2>11
  <2> QED
    BY <2>8, <2>9, <2>12
<1>8. ASSUME NEW a \in S PROVE \E i \in 0 .. N : l[i] = a
  <2> DEFINE U == {b \in S : \A i \in 0 .. N : l[i] # b}
             E == {r[b] : b \in U}
  <2>1. CASE U = {}
    BY <2>1
  <2>2. CASE U # {}
    <3>1. E \subseteq Nat /\ E # {}
      BY <1>3, <2>2
    <3>2. PICK m \in E : \A n \in E : m <= n
      BY <3>1, Least
    <3>3. PICK b \in U : m = r[b]
      OBVIOUS
    <3>4. b \in S /\ \A i \in 0 .. N : l[i] # b
      OBVIOUS
    <3>5. prev(h, b) # NIL
      <4>1. 0 \in 0 .. N
        BY <1>2
      <4> QED
        BY <1>1, <3>4, <4>1 DEF Listed
    <3> DEFINE p == prev(h, b)
    <3>6. p \in S /\ next(h, p) = b
      BY <3>4, <3>5 DEF Listed
    <3>7. r[p] < r[b]
      BY <1>3, <3>4, <3>6 DEF Listed
    <3> HIDE DEF p
    <3>8. r[p] \in Nat /\ r[b] \in Nat
      BY <1>3, <3>4, <3>6
    <3>9. p \notin U
      <4> SUFFICES ASSUME p \in U PROVE FALSE
        OBVIOUS
      <4>1. r[p] \in E
        OBVIOUS
      <4>2. r[b] <= r[p]
        BY <3>2, <3>3, <4>1
      <4> QED
        BY <3>7, <3>8, <4>2
    <3>10. PICK i \in 0 .. N : l[i] = p
      BY <3>6, <3>9
    <3>11. p # NIL /\ i # N
      BY <1>3, <1>7, <3>6, <3>10
    <3>12. i + 1 \in 1 .. N /\ i + 1 \in 0 .. N /\ (i + 1) - 1 = i
      BY <1>2, <3>11
    <3>13. l[i + 1] = Follow(h, l[i])
      BY <1>1, <3>12
    <3> QED
      BY <3>4, <3>6, <3>10, <3>11, <3>12, <3>13 DEF Follow
  <2> QED
    BY <2>1, <2>2
<1>9. ASSUME NEW i \in 0 .. N, l[i] # NIL PROVE prev(h, l[i]) = IF i = 0 THEN NIL ELSE l[i - 1]
  <2>1. CASE i = 0
    <3>1. l[0] \in S /\ l[0] = h.first
      BY <1>1, <1>9, <2>1 DEF Listed
    <3> QED
      BY <2>1, <3>1 DEF Listed
  <2>2. CASE i # 0
    <3>1. i \in 1 .. N
      BY <1>2, <2>2
    <3> QED
      BY <1>5, <1>9, <2>2, <3>1
  <2> QED
    BY <2>1, <2>2
<1> QED
  BY <1>4, <1>7, <1>8, <1>9 DEF l, N

\* What the search of ffs_alloc finds: a chunk of the list that is large enough.
LEMMA FirstFitFound ==
    ASSUME NEW h, NEW S, Apart(S), NEW r, Listed(h, S, r), NEW n, first_fit(h, n) # NIL
    PROVE  first_fit(h, n) \in S /\ size_of(h, first_fit(h, n)) >= n
<1> DEFINE l == free_list(h)
           E == {i \in 0 .. MaxFree : l[i] = NIL \/ size_of(h, l[i]) >= n}
<1>1. (\A i \in 0 .. MaxFree : l[i] \in S \cup {NIL}) /\ l[MaxFree] = NIL
  BY FreeListFacts
<1>2. first_fit(h, n) = l[Min(E)]
  BY DEF first_fit
<1> HIDE DEF l
<1>3. E \subseteq Nat /\ E # {}
  <2>1. MaxFree \in 0 .. MaxFree
    BY MaxFreeType
  <2>2. E \subseteq Nat
    BY MaxFreeType
  <2> QED
    BY <1>1, <2>1, <2>2
<1>4. \E k \in E : \A m \in E : k <= m
  BY <1>3, Least
<1> DEFINE i == Min(E)
<1>5. i \in E
  BY <1>4 DEF Min
<1>6. i \in 0 .. MaxFree /\ (l[i] = NIL \/ size_of(h, l[i]) >= n)
  BY <1>5
<1>7. first_fit(h, n) = l[i]
  BY <1>2
<1> HIDE DEF i, E
<1> QED
  BY <1>1, <1>6, <1>7

\* The sizes lead to the heads and to nothing else.
LEMMA HeadsFacts ==
    ASSUME NEW H, heap \in Heap, Tiles(heap, H)
    PROVE  Heads = H
<1> DEFINE P(l) == l = [a \in Address |-> a = 0 \/ \E b \in 0 .. a - 1 : after(heap, b) = a /\ l[b]]
           g == [a \in Address |-> a \in H]
           Q(l, a) == a = 0 \/ \E b \in 0 .. a - 1 : after(heap, b) = a /\ l[b]
<1>0. H \subseteq Address /\ 0 \in H /\ \A b \in H : b # WORDS - 1 => after(heap, b) \in H
  BY DEF Tiles
<1>1. reached = CHOOSE l : P(l)
  BY DEF reached
<1>2. ASSUME NEW a \in Address PROVE (a \in H) <=> (a = 0 \/ \E b \in 0 .. a - 1 : after(heap, b) = a /\ b \in H)
  <2>0. a \in Int /\ 0 <= a /\ a < WORDS /\ WORDS \in Int
    BY Pool
  <2>1. ASSUME a \in H, a # 0 PROVE \E b \in 0 .. a - 1 : after(heap, b) = a /\ b \in H
    <3>1. PICK b \in H : after(heap, b) = a
      BY <2>1 DEF Tiles
    <3>2. b \in Int /\ 0 <= b /\ b < a
      BY <3>1, ChunkFacts, AfterNot
    <3>3. b \in 0 .. a - 1
      BY <2>0, <3>2
    <3> QED
      BY <3>1, <3>3
  <2>2. ASSUME NEW b \in 0 .. a - 1, after(heap, b) = a, b \in H PROVE a \in H
    <3>1. b # WORDS - 1
      BY <2>0
    <3> QED
      BY <1>0, <2>2, <3>1
  <2> QED
    BY <1>0, <2>1, <2>2
<1>3. ASSUME NEW a \in Address PROVE (a \in H) <=> Q(g, a)
  <2>1. \A b \in 0 .. a - 1 : b \in Address
    BY Pool
  <2>2. \A b \in 0 .. a - 1 : g[b] = (b \in H)
    BY <2>1
  <2> HIDE DEF g
  <2> QED
    BY <1>2, <2>2
<1>4. P(g)
  <2>1. ASSUME NEW a \in Address PROVE (a \in H) = Q(g, a)
    BY <1>3, <2>1
  <2> QED
    BY <2>1
<1> HIDE DEF P
<1>5. P(reached)
  BY <1>1, <1>4
<1>6. reached = [a \in Address |-> a = 0 \/ \E b \in 0 .. a - 1 : after(heap, b) = a /\ reached[b]]
  BY <1>5 DEF P
<1> DEFINE R == reached
<1>7. R = [a \in Address |-> a = 0 \/ \E b \in 0 .. a - 1 : after(heap, b) = a /\ R[b]]
  BY <1>6
<1> HIDE DEF R
<1>8. \A a \in Address : R[a] <=> (a = 0 \/ \E b \in 0 .. a - 1 : after(heap, b) = a /\ R[b])
  BY <1>7
<1>9. ASSUME NEW a \in Address PROVE R[a] <=> a \in H
  <2> DEFINE E == {c \in Address : ~(R[c] <=> c \in H)}
  <2>1. CASE E = {}
    BY <2>1
  <2>2. CASE E # {}
    <3>1. E \subseteq Nat
      BY Pool DEF Address
    <3>2. PICK c \in E : \A m \in E : c <= m
      BY <2>2, <3>1, Least
    <3>3. c \in Address /\ ~(R[c] <=> c \in H)
      OBVIOUS
    <3>4. ASSUME NEW b \in 0 .. c - 1 PROVE R[b] <=> b \in H
      <4>1. b \in Address /\ ~(c <= b)
        BY <3>3, Pool
      <4> QED
        BY <3>2, <4>1
    <3>5. R[c] <=> (c = 0 \/ \E b \in 0 .. c - 1 : after(heap, b) = c /\ R[b])
      BY <1>8, <3>3
    <3>6. (c \in H) <=> (c = 0 \/ \E b \in 0 .. c - 1 : after(heap, b) = c /\ b \in H)
      BY <1>2, <3>3
    <3> HIDE DEF E
    <3> QED
      BY <3>3, <3>4, <3>5, <3>6
  <2> QED
    BY <2>1, <2>2
<1>10. \A a \in Address : reached[a] <=> a \in H
  BY <1>9 DEF R
<1> QED
  BY <1>0, <1>10 DEF Heads

-----------------------------------------------------------------------------
\* The heap through every order of calls

\* What an intact heap means for the properties that the run checks.
LEMMA SoundIsExact ==
    ASSUME Sound(heap, blocks, data)
    PROVE  /\ ChunksTile /\ FreeListExact /\ BlocksKept
           /\ mem \in [Address -> NIL .. 2 * WORDS + 1] /\ first \in Address \cup {NIL}
           /\ blocks \subseteq Address \X Nat
<1>1. PICK H, S, r : Intact(heap, H, S, r, blocks, {}, data)
  BY DEF Sound
<1>2. /\ heap \in Heap /\ Tiles(heap, H) /\ Tails(heap, H, {}) /\ S = Free(heap, H)
      /\ Listed(heap, S, r) /\ Held(heap, H, blocks, data)
      /\ \A a \in H : ~(is_free(heap, a) /\ is_free(heap, after(heap, a)))
  BY <1>1 DEF Intact
<1>3. heap.mem = mem /\ heap.first = first
  BY DEF heap
<1>4. Heads = H
  BY <1>2, HeadsFacts
<1>5. mem \in [Address -> NIL .. 2 * WORDS + 1] /\ first \in Address \cup {NIL}
  BY <1>2, <1>3 DEF Heap, Word
<1>6. blocks \subseteq Address \X Nat
  BY <1>2 DEF Held
<1>7. ChunksTile
  <2>1. WORDS - 1 \in H
    BY <1>2 DEF Tiles
  <2>2. ASSUME NEW a \in H
        PROVE  /\ size_of(heap, a) > 0 /\ after(heap, a) \in H \cup {WORDS}
               /\ mem[tail(heap, a)] = mem[a]
               /\ is_free(heap, a) => ~is_free(heap, after(heap, a))
    <3>1. size_of(heap, a) > 0
      BY <1>2, ChunkFacts
    <3>2. after(heap, a) \in H \cup {WORDS}
      <4>1. CASE a = WORDS - 1
        <5>1. a \in Border
          BY <4>1 DEF Border
        <5>2. size_of(heap, a) = 1 /\ after(heap, a) = a + size_of(heap, a)
          BY <1>2, <5>1, ChunkFacts
        <5> QED
          BY <4>1, <5>2, Pool
      <4>2. CASE a # WORDS - 1
        BY <1>2, <4>2 DEF Tiles
      <4> QED
        BY <4>1, <4>2
    <3>3. mem[tail(heap, a)] = mem[a]
      BY <1>2, <1>3 DEF Tails
    <3> QED
      BY <1>2, <3>1, <3>2, <3>3
  <2> QED
    BY <1>4, <2>1, <2>2 DEF ChunksTile
<1>8. FreeListExact
  <2> DEFINE l == free_list(heap)
  <2>1. Apart(S)
    BY <1>1, FreeInside
  <2>2. /\ \A i \in 0 .. MaxFree : l[i] \in S \cup {NIL}
        /\ l[MaxFree] = NIL
        /\ \A a \in S : \E i \in 0 .. MaxFree : l[i] = a
        /\ \A i \in 0 .. MaxFree : l[i] # NIL => prev(heap, l[i]) = IF i = 0 THEN NIL ELSE l[i - 1]
    BY <1>2, <2>1, FreeListFacts
  <2>3. NIL \notin S
    BY <2>1, LinksInside
  <2>4. S = {a \in Heads : is_free(heap, a)}
    BY <1>2, <1>4 DEF Free
  <2> HIDE DEF l
  <2>5. {l[i] : i \in 0..MaxFree} \ {NIL} = S
    BY <2>2, <2>3
  <2> QED
    BY <2>2, <2>4, <2>5 DEF FreeListExact, l
<1>9. BlocksKept
  <2>1. \A b \in blocks :
          /\ b[1] - 1 \in H /\ ~is_free(heap, b[1] - 1)
          /\ b[2] <= size_of(heap, b[1] - 1) - 2
          /\ \A a \in b[1] .. b[1] + b[2] - 1 : mem[a] = data[a]
    BY <1>2, <1>3 DEF Held
  <2>2. \A b \in blocks : b[1] - 1 \in H \ {0, WORDS - 1}
    BY <1>2 DEF Held, Border
  <2>3. \A a \in H \ {0, WORDS - 1} : ~is_free(heap, a) => \E b \in blocks : b[1] - 1 = a
    BY <1>2 DEF Held, Border
  <2>4. {b[1] - 1 : b \in blocks} = {a \in H \ {0, WORDS - 1} : ~is_free(heap, a)}
    BY <2>1, <2>2, <2>3
  <2> QED
    BY <1>4, <2>1, <2>4 DEF BlocksKept
<1> QED
  BY <1>5, <1>6, <1>7, <1>8, <1>9

\* A heap is its words and its first chunk.
LEMMA HeapRecord ==
    ASSUME NEW h, NEW B, NEW D, Sound(h, B, D)
    PROVE  h = [mem |-> h.mem, first |-> h.first]
<1>1. h \in Heap
  BY DEF Sound, Intact
<1> QED
  BY <1>1 DEF Heap

\* ffs_init
LEMMA InitSound == HeapInit => Sound(heap, blocks, data)
<1> SUFFICES ASSUME HeapInit PROVE Sound(heap, blocks, data)
  OBVIOUS
<1> DEFINE N == WORDS - 2
           blank == [mem |-> [a \in Address |-> 0], first |-> NIL]
           left  == set_head(blank, 0, 1, TRUE)
           free  == set_head(left, 1, N, FALSE)
           chunk == clone_size_to_tail(free, 1)
           right == set_head(chunk, WORDS - 1, 1, TRUE)
           h     == ffs_insert_chunk(right, 1)
           H     == {0, 1, WORDS - 1}
           r     == [a \in Address |-> 0]
           none  == {}
           one   == {1}
<1>1. mem = h.mem /\ first = h.first /\ blocks = {}
  BY DEF HeapInit
<1>2. /\ 0 \in Address /\ 1 \in Address /\ WORDS - 1 \in Address /\ WORDS - 2 \in Address /\ WORDS \in Int /\ WORDS >= 8
      /\ N \in Nat /\ N \in Int /\ N = WORDS - 2 /\ N <= WORDS /\ 1 <= WORDS /\ N >= 6
  BY Pool
<1> HIDE DEF N
<1>3. blank \in Heap /\ blank.first = NIL
  BY Pool DEF Heap, Word
<1> HIDE DEF blank
<1>4. left \in Heap /\ left.first = NIL /\ left.mem[0] = 3
  <2>1. 1 \in Nat
    OBVIOUS
  <2>2. left \in Heap /\ left.first = blank.first /\ left.mem[0] = 2 * 1 + 1
    BY <1>2, <1>3, <2>1, SetUsed
  <2>3. 2 * 1 + 1 = 3
    OBVIOUS
  <2> HIDE DEF left
  <2> QED
    BY <1>3, <2>2, <2>3
<1> HIDE DEF left
<1>5. free \in Heap /\ free.first = NIL /\ free.mem[0] = 3 /\ free.mem[1] = 2 * N
  <2>1. /\ free \in Heap /\ free.first = left.first /\ free.mem[1] = 2 * N
        /\ \A u \in Address : u # 1 => free.mem[u] = left.mem[u]
    BY <1>2, <1>4, SetFree
  <2> HIDE DEF free
  <2>2. 0 # 1
    OBVIOUS
  <2> QED
    BY <1>2, <1>4, <2>1, <2>2
<1> HIDE DEF free
<1>6. size_of(free, 1) = N
  <2>1. N \in Int /\ free.mem[1] = 2 * N
    BY <1>2, <1>5
  <2> QED
    BY <2>1, ReadBack
<1>7. tail(free, 1) = WORDS - 2
  BY <1>2, <1>6 DEF tail, after
<1>8. chunk \in Heap /\ chunk.first = NIL /\ chunk.mem[0] = 3 /\ chunk.mem[1] = 2 * N /\ chunk.mem[WORDS - 2] = 2 * N
  <2>1. /\ chunk \in Heap /\ chunk.first = free.first /\ chunk.mem[tail(free, 1)] = free.mem[1]
        /\ \A u \in Address : u # tail(free, 1) => chunk.mem[u] = free.mem[u]
    BY <1>2, <1>5, <1>7, SetTail
  <2>2. 0 # WORDS - 2 /\ 1 # WORDS - 2
    BY <1>2
  <2> QED
    BY <1>2, <1>5, <1>7, <2>1, <2>2
<1> HIDE DEF chunk
<1>9. /\ right \in Heap /\ right.first = NIL /\ right.mem[0] = 3 /\ right.mem[1] = 2 * N
      /\ right.mem[WORDS - 2] = 2 * N /\ right.mem[WORDS - 1] = 3
  <2>1. 1 \in Nat
    OBVIOUS
  <2>2. /\ right \in Heap /\ right.first = chunk.first /\ right.mem[WORDS - 1] = 2 * 1 + 1
        /\ \A u \in Address : u # WORDS - 1 => right.mem[u] = chunk.mem[u]
    BY <1>2, <1>8, <2>1, SetUsed
  <2>3. 0 # WORDS - 1 /\ 1 # WORDS - 1 /\ WORDS - 2 # WORDS - 1 /\ 2 * 1 + 1 = 3
    BY <1>2
  <2> QED
    BY <1>2, <1>8, <2>2, <2>3
<1> HIDE DEF right
<1>10. /\ size_of(right, 0) = 1 /\ size_of(right, 1) = N /\ size_of(right, WORDS - 1) = 1
       /\ ~is_free(right, 0) /\ is_free(right, 1) /\ ~is_free(right, WORDS - 1)
  <2>1. right.mem[0] = 2 * 1 + 1 /\ right.mem[WORDS - 1] = 2 * 1 + 1 /\ right.mem[1] = 2 * N /\ 1 \in Int
    BY <1>9
  <2>2. size_of(right, 0) = 1 /\ ~is_free(right, 0)
    BY <2>1, ReadBack
  <2>3. size_of(right, 1) = N /\ is_free(right, 1)
    <3>1. N \in Int /\ right.mem[1] = 2 * N
      BY <1>2, <2>1
    <3> QED
      BY <3>1, ReadBack
  <2>4. size_of(right, WORDS - 1) = 1 /\ ~is_free(right, WORDS - 1)
    BY <2>1, ReadBack
  <2> QED
    BY <2>2, <2>3, <2>4
<1>11. /\ after(right, 0) = 1 /\ after(right, 1) = WORDS - 1 /\ after(right, WORDS - 1) = WORDS
       /\ tail(right, 0) = 0 /\ tail(right, 1) = WORDS - 2 /\ tail(right, WORDS - 1) = WORDS - 1
  BY <1>2, <1>10 DEF after, tail
<1>12. Tiles(right, H)
  <2>1. \A a \in H \ Border : a = 1
    BY DEF Border
  <2>2. \A a \in H \ Border : size_of(right, a) >= 4
    BY <1>2, <1>10, <2>1
  <2>3. \A a \in H : a # WORDS - 1 => after(right, a) \in H
    BY <1>11
  <2>4. \A a, b \in H : a < b => after(right, a) <= b
    BY <1>2, <1>11
  <2>5. \A b \in H : b # 0 => \E a \in H : after(right, a) = b
    BY <1>11
  <2> QED
    BY <1>2, <1>9, <2>2, <2>3, <2>4, <2>5 DEF Tiles
<1>13. Free(right, H) = one
  BY <1>10 DEF Free
<1>14. Tails(right, H, one)
  BY <1>9, <1>11 DEF Tails
<1>15. Listed(right, none, r)
  BY <1>9 DEF Listed
<1>16. Held(right, H, none, data)
  <2>1. \A a \in H \ Border : a = 1
    BY DEF Border
  <2> QED
    BY <1>10, <2>1 DEF Held
<1>17. none = Free(right, H) \ one /\ one \subseteq Free(right, H)
  BY <1>13
<1>18. \A a \in H : is_free(right, a) => ~is_free(right, after(right, a))
  BY <1>10, <1>11
<1>19. Intact(right, H, none, r, none, one, data)
  BY <1>9, <1>12, <1>14, <1>15, <1>16, <1>17, <1>18 DEF Intact
<1>20. \E T, q : Intact(clone_size_to_tail(h, 1), H, T, q, {}, {}, data)
  BY <1>18, <1>19, PutBack
<1>21. h \in Heap /\ h.mem[1] = right.mem[1] /\ h.mem[WORDS - 2] = right.mem[WORDS - 2]
  <2>1. 1 \notin none /\ Apart(none \cup {1})
    BY <1>2 DEF Apart
  <2>2. h \in Heap /\ Writes(right, h, LinkWords(none \cup {1}))
    BY <1>9, <1>15, <2>1, InsertListed
  <2>3. 1 \notin LinkWords(none \cup {1}) /\ WORDS - 2 \notin LinkWords(none \cup {1})
    BY <1>2 DEF LinkWords
  <2> QED
    BY <1>2, <2>2, <2>3 DEF Writes
<1> HIDE DEF h
<1>22. clone_size_to_tail(h, 1) = h
  <2>1. tail(h, 1) = WORDS - 2
    BY <1>11, <1>21, SameHead
  <2>2. h.mem[WORDS - 2] = h.mem[1]
    BY <1>9, <1>21
  <2> DEFINE w == WORDS - 2
             v == h.mem[1]
  <2>3. clone_size_to_tail(h, 1) = [h EXCEPT !.mem[w] = v]
    BY <2>1 DEF clone_size_to_tail
  <2>4. w \in Address /\ h.mem[w] = v
    BY <1>2, <2>2
  <2> HIDE DEF w, v
  <2>5. [h EXCEPT !.mem[w] = v] = h
    BY <1>21, <2>4 DEF Heap
  <2> QED
    BY <2>3, <2>5
<1>23. Sound(h, {}, data)
  BY <1>20, <1>22 DEF Sound
<1>24. heap = h
  BY <1>1, <1>23, HeapRecord DEF heap
<1> QED
  BY <1>1, <1>23, <1>24

-----------------------------------------------------------------------------
\* Holders write into their blocks

\* What holders wrote may be told by any words that agree in the blocks.
LEMMA DataKept ==
    ASSUME NEW h, NEW B, NEW D, Sound(h, B, D), NEW E,
           \A b \in B : \A w \in b[1] .. b[1] + b[2] - 1 : E[w] = D[w]
    PROVE  Sound(h, B, E)
<1>1. PICK H, S, r : Intact(h, H, S, r, B, {}, D)
  BY DEF Sound
<1>2. Held(h, H, B, E)
  BY <1>1 DEF Intact, Held
<1>3. Intact(h, H, S, r, B, {}, E)
  BY <1>1, <1>2 DEF Intact
<1> QED
  BY <1>3 DEF Sound

\* The words of a block lie between head and tail of its chunk.
LEMMA WordInside ==
    ASSUME NEW h \in Heap, NEW H, Tiles(h, H), NEW B, NEW D, Held(h, H, B, D), NEW b \in B,
           NEW w \in b[1] .. b[1] + b[2] - 1
    PROVE  /\ w \in Address /\ w \in Int /\ b[1] \in Int
           /\ b[1] - 1 \in H /\ ~is_free(h, b[1] - 1)
           /\ b[1] - 1 < w /\ w < tail(h, b[1] - 1)
           /\ \A x \in H : x # w /\ tail(h, x) # w
           /\ \A x \in H : x # b[1] - 1 => ~(x <= w /\ w <= tail(h, x))
<1> DEFINE a == b[1] - 1
<1>1. b \in Address \X Nat /\ a \in H /\ a \notin Border /\ ~is_free(h, a) /\ b[2] <= size_of(h, a) - 2
  BY DEF Held
<1>2. b[1] \in Int /\ b[2] \in Int /\ b[1] = a + 1
  BY <1>1, Pool
<1> HIDE DEF a
<1>3. a \in Int /\ 0 <= a /\ size_of(h, a) \in Int /\ tail(h, a) = a + size_of(h, a) - 1 /\ tail(h, a) \in Int
      /\ tail(h, a) < WORDS /\ WORDS \in Int
  BY <1>1, ChunkFacts, Pool
<1>4. w \in Int /\ a < w /\ w < tail(h, a) /\ w \in Address
  <2>1. w \in Int /\ a < w /\ w < tail(h, a)
    BY <1>1, <1>2, <1>3
  <2>2. 0 <= w /\ w < WORDS
    BY <1>3, <2>1
  <2> QED
    BY <2>1, <2>2, Pool
<1>5. ASSUME NEW x \in H, x # a PROVE ~(x <= w /\ w <= tail(h, x))
  BY <1>1, <1>4, <1>3, <1>5, Disjoint
<1>6. ASSUME NEW x \in H PROVE x # w /\ tail(h, x) # w
  <2>1. x \in Int /\ tail(h, x) \in Int /\ x <= tail(h, x)
    <3>1. x \in Int /\ size_of(h, x) \in Int /\ size_of(h, x) >= 1 /\ tail(h, x) = x + size_of(h, x) - 1
      BY ChunkFacts
    <3> QED
      BY <3>1
  <2>2. CASE x = a
    BY <1>3, <1>4, <2>2
  <2>3. CASE x # a
    BY <1>4, <1>5, <2>1, <2>3
  <2> QED
    BY <2>2, <2>3
<1> QED
  BY <1>1, <1>2, <1>4, <1>5, <1>6 DEF a

\* No word belongs to two blocks.
LEMMA BlocksApart ==
    ASSUME NEW h, NEW B, NEW D, Sound(h, B, D), NEW b \in B, NEW c \in B, b # c,
           NEW w \in b[1] .. b[1] + b[2] - 1
    PROVE  w \notin c[1] .. c[1] + c[2] - 1
<1> SUFFICES ASSUME w \in c[1] .. c[1] + c[2] - 1 PROVE FALSE
  OBVIOUS
<1>1. PICK H, S, r : Intact(h, H, S, r, B, {}, D)
  BY DEF Sound
<1>2. h \in Heap /\ Tiles(h, H) /\ Held(h, H, B, D)
  BY <1>1 DEF Intact
<1>3. /\ b[1] \in Int /\ b[1] - 1 \in H
      /\ \A x \in H : x # b[1] - 1 => ~(x <= w /\ w <= tail(h, x))
  BY <1>2, WordInside
<1>4. c[1] \in Int /\ c[1] - 1 \in H /\ c[1] - 1 < w /\ w < tail(h, c[1] - 1) /\ w \in Int
  BY <1>2, WordInside
<1>5. b[1] # c[1]
  BY <1>2 DEF Held
<1>6. c[1] - 1 # b[1] - 1
  BY <1>3, <1>4, <1>5
<1>7. ~(c[1] - 1 <= w /\ w <= tail(h, c[1] - 1))
  BY <1>3, <1>4, <1>6
<1>8. tail(h, c[1] - 1) \in Int
  BY <1>2, <1>4, ChunkFacts, Pool
<1> QED
  BY <1>4, <1>7, <1>8

\* A word that its holder writes.
LEMMA WriteHeld ==
    ASSUME NEW m, NEW f, NEW B, NEW D \in [Address -> Word], Sound([mem |-> m, first |-> f], B, D),
           NEW b \in B, NEW w \in b[1] .. b[1] + b[2] - 1, NEW v \in Word
    PROVE  /\ Sound([mem |-> [m EXCEPT ![w] = v], first |-> f], B, [D EXCEPT ![w] = v])
           /\ [D EXCEPT ![w] = v] \in [Address -> Word]
<1> DEFINE h == [mem |-> m, first |-> f]
           g == [mem |-> [m EXCEPT ![w] = v], first |-> f]
           E == [D EXCEPT ![w] = v]
           a == b[1] - 1
<1>1. PICK H, S, r : Intact(h, H, S, r, B, {}, D)
  BY DEF Sound
<1>2. /\ h \in Heap /\ Tiles(h, H) /\ Tails(h, H, {}) /\ S = Free(h, H) /\ Listed(h, S, r) /\ Held(h, H, B, D)
      /\ \A x \in H : ~(is_free(h, x) /\ is_free(h, after(h, x)))
  BY <1>1 DEF Intact
<1>3. S \subseteq H \ Border /\ Apart(S)
  BY <1>1, FreeInside
<1>4. m \in [Address -> Word] /\ f \in Address \cup {NIL} /\ h.mem = m /\ h.first = f
  <2>1. h.mem \in [Address -> Word] /\ h.first \in Address \cup {NIL}
    BY <1>2 DEF Heap
  <2> QED
    BY <2>1
<1>5. g \in Heap /\ g.first = h.first /\ g.mem = [m EXCEPT ![w] = v]
  BY <1>4 DEF Heap
<1> HIDE DEF h
<1>6. /\ w \in Address /\ w \in Int /\ a \in H /\ ~is_free(h, a) /\ a < w /\ w < tail(h, a) /\ a \in Int
      /\ \A x \in H : x # w /\ tail(h, x) # w
  BY <1>2, WordInside
<1>7. g.mem[w] = v /\ \A u \in Address : u # w => g.mem[u] = h.mem[u]
  BY <1>4, <1>5, <1>6
<1>8. E \in [Address -> Word] /\ E[w] = v /\ \A u \in Address : u # w => E[u] = D[u]
  BY <1>6
<1> HIDE DEF g, E, a
<1>9. \A x \in H : /\ x \in Address /\ tail(h, x) \in Address
                   /\ g.mem[x] = h.mem[x] /\ g.mem[tail(h, x)] = h.mem[tail(h, x)]
  BY <1>2, <1>6, <1>7, ChunkFacts
<1>10. \A x \in H : /\ size_of(g, x) = size_of(h, x) /\ is_free(g, x) = is_free(h, x)
                    /\ after(g, x) = after(h, x) /\ tail(g, x) = tail(h, x)
  BY <1>9, SameHead
<1>11. Tiles(g, H)
  BY <1>2, <1>9, TilesKept
<1>12. Tails(g, H, {})
  BY <1>2, <1>9, <1>10 DEF Tails
<1>13. Free(g, H) = Free(h, H)
  BY <1>10 DEF Free
<1>14. Listed(g, S, r)
  <2>1. a \in H \ S
    BY <1>2, <1>6 DEF Free
  <2>2. \A u \in a .. tail(h, a) : u \notin LinkWords(S)
    BY <1>2, <1>3, <2>1, LinksElsewhere
  <2>3. w \in a .. tail(h, a)
    <3>1. tail(h, a) \in Int
      BY <1>6, <1>9, Pool
    <3> QED
      BY <1>6, <3>1
  <2>4. \A u \in LinkWords(S) : u \in Address
    BY <1>3, LinksInside DEF LinkWords
  <2>5. \A u \in LinkWords(S) : g.mem[u] = h.mem[u]
    BY <1>7, <2>2, <2>3, <2>4
  <2> QED
    BY <1>2, <1>3, <1>5, <2>5, ListedKept
<1>15. Held(g, H, B, E)
  <2>1. ASSUME NEW c \in B, NEW u \in c[1] .. c[1] + c[2] - 1 PROVE g.mem[u] = E[u]
    <3>1. u \in Address
      BY <1>2, WordInside
    <3>2. h.mem[u] = D[u]
      BY <1>2 DEF Held
    <3> QED
      BY <1>7, <1>8, <3>1, <3>2
  <2>2. ASSUME NEW c \in B
        PROVE  /\ c \in Address \X Nat /\ c[1] - 1 \in H \ Border /\ ~is_free(g, c[1] - 1)
               /\ c[2] <= size_of(g, c[1] - 1) - 2
    <3> DEFINE x == c[1] - 1
    <3>1. c \in Address \X Nat /\ x \in H \ Border /\ ~is_free(h, x) /\ c[2] <= size_of(h, x) - 2
      BY <1>2 DEF Held
    <3> HIDE DEF x
    <3>2. size_of(g, x) = size_of(h, x) /\ is_free(g, x) = is_free(h, x)
      BY <1>10, <3>1
    <3> QED
      BY <3>1, <3>2 DEF x
  <2>3. \A c, d \in B : c[1] = d[1] => c = d
    BY <1>2 DEF Held
  <2>4. \A x \in H \ Border : ~is_free(g, x) => \E c \in B : c[1] - 1 = x
    BY <1>2, <1>10 DEF Held
  <2> QED
    BY <2>1, <2>2, <2>3, <2>4 DEF Held
<1>16. \A x \in H : is_free(g, x) /\ is_free(g, after(g, x)) => x \in {} \/ after(g, x) \in {}
  <2> SUFFICES ASSUME NEW x \in H, is_free(g, x), is_free(g, after(g, x)) PROVE FALSE
    OBVIOUS
  <2>1. is_free(h, x) /\ after(g, x) = after(h, x)
    BY <1>10
  <2>2. x \notin Border
    BY <1>2, <2>1, ChunkFacts
  <2>3. after(h, x) \in H
    BY <1>2, <2>2, ChunkFacts
  <2>4. is_free(h, after(h, x))
    BY <1>10, <2>1, <2>3
  <2> QED
    BY <1>2, <2>1, <2>4
<1>17. Intact(g, H, S, r, B, {}, E)
  BY <1>2, <1>5, <1>11, <1>12, <1>13, <1>14, <1>15, <1>16 DEF Intact
<1>18. Sound(g, B, E)
  BY <1>17 DEF Sound
<1> QED
  BY <1>8, <1>18 DEF g, E

\* The links of a queue are words of its block.
LEMMA LinksHeld ==
    ASSUME NEW h, NEW B, NEW D, Sound(h, B, D), ObjectWords \in Nat, ObjectWords >= 3, NEW p,
           <<p, ObjectWords>> \in B
    PROVE  /\ all(p) \in Address /\ all(p) \in Word /\ p \in Word /\ all(p) \in Int
           /\ all(p) \in p .. p + ObjectWords - 1
           /\ all(p) + 1 \in p .. p + ObjectWords - 1
           /\ all(p) + 2 \in p .. p + ObjectWords - 1
<1> DEFINE b == <<p, ObjectWords>>
<1>1. PICK H, S, r : Intact(h, H, S, r, B, {}, D)
  BY DEF Sound
<1>2. h \in Heap /\ Tiles(h, H) /\ Held(h, H, B, D)
  BY <1>1 DEF Intact
<1>3. b \in B /\ b[1] = p /\ b[2] = ObjectWords
  OBVIOUS
<1> HIDE DEF b
<1>4. p \in Address
  BY <1>2, <1>3 DEF Held
<1>5. p \in Int /\ p \in Word
  BY <1>4, Pool
<1>6. /\ all(p) \in Int /\ all(p) \in p .. p + ObjectWords - 1
      /\ all(p) + 1 \in p .. p + ObjectWords - 1 /\ all(p) + 2 \in p .. p + ObjectWords - 1
  BY <1>5 DEF all
<1>7. all(p) \in b[1] .. b[1] + b[2] - 1
  BY <1>3, <1>6
<1>8. all(p) \in Address
  BY <1>2, <1>3, <1>7, WordInside
<1> QED
  BY <1>5, <1>6, <1>8, Pool

\* The links at an address that is the end of the list, or of the queue appended.
LEMMA WriteLink ==
    ASSUME NEW m, NEW f, NEW B, NEW D \in [Address -> Word], Sound([mem |-> m, first |-> f], B, D),
           NEW p, <<p, ObjectWords>> \in B, NEW w \in p .. p + ObjectWords - 1, NEW v \in Word
    PROVE  /\ Sound([mem |-> [m EXCEPT ![w] = v], first |-> f], B, [D EXCEPT ![w] = v])
           /\ [D EXCEPT ![w] = v] \in [Address -> Word]
<1> DEFINE b == <<p, ObjectWords>>
<1>1. b \in B /\ b[1] = p /\ b[2] = ObjectWords
  OBVIOUS
<1> HIDE DEF b
<1>2. w \in b[1] .. b[1] + b[2] - 1
  BY <1>1
<1> QED
  BY <1>1, <1>2, WriteHeld

\* list_append writes into the new queue and into the one that was last.
LEMMA AppendKeeps ==
    ASSUME NEW m, NEW f, NEW B, NEW D \in [Address -> Word], Sound([mem |-> m, first |-> f], B, D),
           ObjectWords \in Nat, ObjectWords >= 3, NEW p, <<p, ObjectWords>> \in B,
           NEW last, last = NIL \/ \E q : <<q, ObjectWords>> \in B /\ last = all(q)
    PROVE  /\ Sound([mem |-> list_append(m, p, last), first |-> f], B, list_append(D, p, last))
           /\ list_append(D, p, last) \in [Address -> Word] /\ all(p) \in Address
<1> DEFINE a == all(p)
           m1 == [m EXCEPT ![a + 2] = p]
           D1 == [D EXCEPT ![a + 2] = p]
           m2 == [m1 EXCEPT ![a + 1] = NIL]
           D2 == [D1 EXCEPT ![a + 1] = NIL]
           m3 == IF last = NIL THEN m2 ELSE [m2 EXCEPT ![last + 1] = a]
           D3 == IF last = NIL THEN D2 ELSE [D2 EXCEPT ![last + 1] = a]
           m4 == [m3 EXCEPT ![a] = last]
           D4 == [D3 EXCEPT ![a] = last]
<1>1. /\ a \in Address /\ a \in Word /\ p \in Word /\ a \in p .. p + ObjectWords - 1
      /\ a + 1 \in p .. p + ObjectWords - 1 /\ a + 2 \in p .. p + ObjectWords - 1
  BY LinksHeld
<1>2. last \in Word
  <2>1. CASE last = NIL
    BY <2>1, Pool
  <2>2. CASE \E q : <<q, ObjectWords>> \in B /\ last = all(q)
    <3>1. PICK q : <<q, ObjectWords>> \in B /\ last = all(q)
      BY <2>2
    <3>2. all(q) \in Word
      BY <3>1, LinksHeld
    <3> QED
      BY <3>1, <3>2
  <2> QED
    BY <2>1, <2>2
<1>3. list_append(m, p, last) = m4
  BY DEF list_append
<1>4. list_append(D, p, last) = D4
  BY DEF list_append
<1> HIDE DEF a
<1>5. Sound([mem |-> m1, first |-> f], B, D1) /\ D1 \in [Address -> Word]
  BY <1>1, WriteLink
<1> HIDE DEF m1, D1
<1>6. Sound([mem |-> m2, first |-> f], B, D2) /\ D2 \in [Address -> Word]
  BY <1>1, <1>5, Pool, WriteLink
<1> HIDE DEF m2, D2
<1>7. Sound([mem |-> m3, first |-> f], B, D3) /\ D3 \in [Address -> Word]
  <2>1. CASE last = NIL
    BY <1>6, <2>1
  <2>2. CASE last # NIL
    <3>1. PICK q : <<q, ObjectWords>> \in B /\ last = all(q)
      BY <2>2
    <3> DEFINE w == last + 1
    <3>2. w \in q .. q + ObjectWords - 1
      BY <3>1, LinksHeld
    <3> HIDE DEF w
    <3>3. /\ Sound([mem |-> [m2 EXCEPT ![w] = a], first |-> f], B, [D2 EXCEPT ![w] = a])
          /\ [D2 EXCEPT ![w] = a] \in [Address -> Word]
      BY <1>1, <1>6, <3>1, <3>2, WriteLink
    <3>4. m3 = [m2 EXCEPT ![w] = a] /\ D3 = [D2 EXCEPT ![w] = a]
      BY <2>2 DEF w
    <3> QED
      BY <3>3, <3>4
  <2> QED
    BY <2>1, <2>2
<1> HIDE DEF m3, D3
<1>8. Sound([mem |-> m4, first |-> f], B, D4) /\ D4 \in [Address -> Word]
  BY <1>1, <1>2, <1>7, WriteLink
<1> QED
  BY <1>1, <1>3, <1>4, <1>8 DEF a

-----------------------------------------------------------------------------
\* The kernel's steps

\* Queues have memory and identifiers of their own, and the heap is intact: the
\* inductive invariant of Resources.
ObjectsBacked ==
    /\ \A o \in objects : <<o.handle, ObjectWords>> \in blocks
    /\ \A o, q \in objects : o.handle = q.handle => o = q

IdTypes ==
    /\ idmask \subseteq Id /\ last_id \in Id /\ halted \in {"no", "full", "assert"}
    /\ objects \subseteq [handle : Address, id : Id]

DataTypes == data \in [Address -> Word] /\ kmsg_qs \in Address \cup {NIL}

ResourcesInv == Sound(heap, blocks, data) /\ ObjectsBacked /\ IdTypes /\ DataTypes

\* It holds what the run checks.
LEMMA InvImplies == ResourcesInv => HeapExact /\ BlocksKept
<1> SUFFICES ASSUME ResourcesInv PROVE HeapExact /\ BlocksKept
  OBVIOUS
<1>1. /\ ChunksTile /\ FreeListExact /\ BlocksKept
      /\ mem \in [Address -> NIL .. 2 * WORDS + 1] /\ first \in Address \cup {NIL}
      /\ blocks \subseteq Address \X Nat
  BY SoundIsExact DEF ResourcesInv
<1> QED
  BY <1>1 DEF HeapExact, TypeOK, ResourcesInv, IdTypes, DataTypes, Word

\* The identifier found by the search is an identifier.
LEMMA NewIdType == ASSUME last_id \in Id, k_new_unique_id PROVE last_id' \in Id /\ idmask' = idmask \cup {last_id'}
<1>1. MAX_RESOURCES \in Nat /\ MAX_RESOURCES > 1 /\ last_id \in Nat
  BY UniqueIdAssumption DEF Id
<1>2. free_turns \subseteq Nat /\ free_turns # {}
  BY <1>1 DEF k_new_unique_id, free_turns
<1>3. \E n \in free_turns : \A m \in free_turns : n <= m
  BY <1>2, Least
<1>4. Min(free_turns) \in free_turns
  BY <1>3 DEF Min
<1> DEFINE n == Min(free_turns)
<1>5. n \in Nat /\ last_id' = nth(n)
  BY <1>2, <1>4 DEF k_new_unique_id
<1> HIDE DEF n
<1>6. (last_id + n) % MAX_RESOURCES \in 0 .. MAX_RESOURCES - 1
  BY <1>1, <1>5
<1> QED
  BY <1>5, <1>6 DEF nth, Id, k_new_unique_id

\* Words that are zeroed stay words.
LEMMA ZeroedType == ASSUME NEW D \in [Address -> Word], NEW p, NEW n PROVE zeroed(D, p, n) \in [Address -> Word]
<1>1. 0 \in Word
  BY Pool DEF Word
<1> QED
  BY <1>1 DEF zeroed

\* An allocation leaves the heap intact; its block is new.
LEMMA AllocKeeps ==
    ASSUME Sound(heap, blocks, data), NEW n \in Nat, can_alloc(n), hold(n)
    PROVE  /\ Sound([mem |-> allocated(n).mem, first |-> first'], blocks', zeroed(data, address(n), n))
           /\ blocks' = blocks \cup {<<address(n), n>>}
           /\ address(n) \in Address /\ \A b \in blocks : b[1] # address(n)
<1> DEFINE m == chunk_size(n)
           a == first_fit(heap, m)
           t == split_off(heap, a, m)
           g == fill(mark_used(t.heap, t.chunk), t.chunk + 1, n)
           B == blocks \cup {<<t.chunk + 1, n>>}
           E == zeroed(data, t.chunk + 1, n)
<1>1. PICK H, S, r : Intact(heap, H, S, r, blocks, {}, data)
  BY DEF Sound
<1>2. Apart(S) /\ Listed(heap, S, r)
  BY <1>1, FreeInside DEF Intact
<1>3. a # NIL
  BY DEF can_alloc
<1>4. a \in S /\ size_of(heap, a) >= m
  BY <1>2, <1>3, FirstFitFound
<1>5. address(n) = t.chunk + 1
  BY DEF address, taken
<1>6. allocated(n) = g
  BY <1>5 DEF allocated, taken
<1>7. first' = g.first /\ blocks' = B
  BY <1>5, <1>6 DEF hold
<1> HIDE DEF a
<1>8. Sound(g, B, E) /\ t.chunk + 1 \in Address /\ \A b \in blocks : b[1] # t.chunk + 1
  BY <1>1, <1>4, AllocSound
<1> HIDE DEF g, t, B
<1>9. g = [mem |-> g.mem, first |-> g.first]
  BY <1>8, HeapRecord
<1>10. [mem |-> allocated(n).mem, first |-> first'] = g
  BY <1>6, <1>7, <1>9
<1>11. E = zeroed(data, address(n), n)
  BY <1>5
<1> HIDE DEF E
<1>12. Sound([mem |-> allocated(n).mem, first |-> first'], blocks', E)
  BY <1>7, <1>8, <1>10
<1> QED
  BY <1>5, <1>7, <1>8, <1>11, <1>12 DEF B

\* Giving a block back leaves the heap intact.
LEMMA FreeKeeps ==
    ASSUME Sound(heap, blocks, data), NEW p, NEW n, <<p, n>> \in blocks, ffs_free(p, n)
    PROVE  Sound(heap', blocks', data') /\ blocks' = blocks \ {<<p, n>>}
<1> DEFINE b == <<p, n>>
           l == join_left(set_head(heap, p - 1, size_of(heap, p - 1), FALSE), p - 1)
           g == clone_size_to_tail(ffs_insert_chunk(join_right(l.heap, l.chunk), l.chunk), l.chunk)
           B == blocks \ {b}
           E == zeroed(data, p, n)
<1>1. mem' = g.mem /\ first' = g.first /\ blocks' = B /\ data' = E
  BY DEF ffs_free
<1>2. b[1] = p /\ b \in blocks
  OBVIOUS
<1>3. Sound(g, B, data)
  <2> DEFINE q == b[1]
             k == join_left(set_head(heap, q - 1, size_of(heap, q - 1), FALSE), q - 1)
             f == clone_size_to_tail(ffs_insert_chunk(join_right(k.heap, k.chunk), k.chunk), k.chunk)
  <2> HIDE DEF b
  <2>1. Sound(f, B, data)
    BY <1>2, FreeSound
  <2>2. q = p
    BY <1>2
  <2>3. f = g
    BY <2>2
  <2> QED
    BY <2>1, <2>3
<1> HIDE DEF g, l
<1>5. Sound(g, B, E)
  <2>1. ASSUME NEW c \in B, NEW w \in c[1] .. c[1] + c[2] - 1 PROVE E[w] = data[w]
    <3>1. c \in blocks /\ b \in blocks /\ c # b /\ b[1] = p /\ b[2] = n
      OBVIOUS
    <3> HIDE DEF b
    <3>2. w \notin b[1] .. b[1] + b[2] - 1
      BY <3>1, BlocksApart
    <3>3. w \in Address
      <4>1. PICK H, S, r : Intact(heap, H, S, r, blocks, {}, data)
        BY DEF Sound
      <4>2. heap \in Heap /\ Tiles(heap, H) /\ Held(heap, H, blocks, data)
        BY <4>1 DEF Intact
      <4> QED
        BY <3>1, <4>2, WordInside
    <3>4. w \notin p .. p + n - 1
      BY <3>1, <3>2
    <3> QED
      BY <3>3, <3>4 DEF zeroed
  <2> HIDE DEF E, B
  <2> QED
    BY <1>3, <2>1, DataKept
<1> HIDE DEF B, E
<1>4. heap' = g
  BY <1>1, <1>3, HeapRecord DEF heap
<1> QED
  BY <1>1, <1>4, <1>5 DEF B

\* A new queue: its memory, its identifier, its place in the list.
LEMMA CreateStep ==
    ASSUME ResourcesInv, "staleLast" \notin Uses, sys__create_msg_queue
    PROVE  ResourcesInv'
<1> DEFINE n == ObjectWords
           p == address(n)
           g == allocated(n).mem
           Z == zeroed(data, p, n)
<1>0. /\ Sound(heap, blocks, data) /\ ObjectsBacked /\ IdTypes /\ DataTypes /\ n \in Nat /\ n >= 3
  BY ResourcesAssumption DEF ResourcesInv
<1>1. /\ Sound([mem |-> g, first |-> first'], blocks', Z) /\ blocks' = blocks \cup {<<p, n>>}
      /\ p \in Address /\ \A b \in blocks : b[1] # p
  BY <1>0, AllocKeeps DEF sys__create_msg_queue
<1>2. Z \in [Address -> Word]
  BY <1>0, ZeroedType DEF DataTypes
<1>3. \/ /\ k_new_unique_id /\ ~stale_last(p)
         /\ objects' = objects \cup {[handle |-> p, id |-> last_id']}
         /\ mem' = list_append(g, p, kmsg_qs) /\ data' = list_append(Z, p, kmsg_qs) /\ kmsg_qs' = all(p)
      \/ /\ no_free_id /\ mem' = g /\ data' = Z /\ objects' = objects /\ kmsg_qs' = kmsg_qs
  BY DEF sys__create_msg_queue
<1> HIDE DEF n, p, g, Z
<1>4. CASE /\ k_new_unique_id /\ ~stale_last(p)
           /\ objects' = objects \cup {[handle |-> p, id |-> last_id']}
           /\ mem' = list_append(g, p, kmsg_qs) /\ data' = list_append(Z, p, kmsg_qs) /\ kmsg_qs' = all(p)
  <2> DEFINE o == [handle |-> p, id |-> last_id']
  <2>1. last_id' \in Id /\ idmask' = idmask \cup {last_id'} /\ halted' = halted
    BY <1>0, <1>4, NewIdType DEF IdTypes, k_new_unique_id
  <2>2. o \in [handle : Address, id : Id] /\ o.handle = p /\ objects' = objects \cup {o}
    BY <1>1, <1>4, <2>1
  <2> HIDE DEF o
  <2>3. IdTypes'
    BY <1>0, <2>1, <2>2 DEF IdTypes
  <2>4. \A q \in objects : q.handle # p
    <3> SUFFICES ASSUME NEW q \in objects, q.handle = p PROVE FALSE
      OBVIOUS
    <3> DEFINE b == <<q.handle, n>>
    <3>1. b \in blocks /\ b[1] = q.handle
      BY <1>0 DEF ObjectsBacked, n
    <3> HIDE DEF b
    <3> QED
      BY <1>1, <3>1
  <2>5. ObjectsBacked'
    BY <1>0, <1>1, <2>2, <2>4 DEF ObjectsBacked, n
  <2>6. kmsg_qs = NIL \/ \E q : <<q, ObjectWords>> \in blocks' /\ kmsg_qs = all(q)
    <3>1. CASE kmsg_qs = NIL
      BY <3>1
    <3>2. CASE kmsg_qs = all(p)
      BY <1>1, <3>2 DEF n
    <3>3. CASE \E q \in objects : kmsg_qs = all(q.handle)
      BY <1>0, <1>1, <3>3 DEF ObjectsBacked
    <3> QED
      BY <1>4, <3>1, <3>2, <3>3 DEF stale_last
  <2>7. /\ Sound([mem |-> list_append(g, p, kmsg_qs), first |-> first'], blocks', list_append(Z, p, kmsg_qs))
        /\ list_append(Z, p, kmsg_qs) \in [Address -> Word] /\ all(p) \in Address
    <3>1. <<p, ObjectWords>> \in blocks' /\ ObjectWords \in Nat /\ ObjectWords >= 3
      BY <1>0, <1>1 DEF n
    <3> QED
      BY <1>1, <1>2, <2>6, <3>1, AppendKeeps
  <2>8. Sound(heap', blocks', data')
    BY <1>4, <2>7 DEF heap
  <2>9. DataTypes'
    BY <1>4, <2>7 DEF DataTypes
  <2> QED
    BY <2>3, <2>5, <2>8, <2>9 DEF ResourcesInv
<1>5. CASE no_free_id /\ mem' = g /\ data' = Z /\ objects' = objects /\ kmsg_qs' = kmsg_qs
  <2>1. IdTypes'
    BY <1>0, <1>5 DEF IdTypes, no_free_id
  <2>2. ObjectsBacked'
    BY <1>0, <1>1, <1>5 DEF ObjectsBacked
  <2>3. DataTypes'
    BY <1>0, <1>2, <1>5 DEF DataTypes
  <2>4. Sound(heap', blocks', data')
    BY <1>1, <1>5 DEF heap
  <2> QED
    BY <2>1, <2>2, <2>3, <2>4 DEF ResourcesInv
<1> QED
  BY <1>3, <1>4, <1>5

\* A step of the kernel keeps the invariant.
LEMMA StepKeeps == ASSUME ResourcesInv, "staleLast" \notin Uses, [Next]_vars PROVE ResourcesInv'
<1>0. /\ Sound(heap, blocks, data) /\ ObjectsBacked /\ IdTypes /\ DataTypes
      /\ ObjectWords \in Nat /\ BlockWords \subseteq Nat /\ blocks \subseteq Address \X Nat
  BY ResourcesAssumption, SoundIsExact DEF ResourcesInv
<1>1. CASE sys__create_msg_queue
  BY <1>1, CreateStep
<1>2. CASE create_no_memory \/ UNCHANGED vars
  <2>1. /\ mem' = mem /\ first' = first /\ blocks' = blocks /\ objects' = objects
        /\ idmask' = idmask /\ last_id' = last_id /\ halted' = halted
        /\ data' = data /\ kmsg_qs' = kmsg_qs
    BY <1>2 DEF create_no_memory, vars, heapvars, idvars
  <2>2. heap' = heap
    BY <2>1 DEF heap
  <2> QED
    BY <1>0, <2>1, <2>2 DEF ResourcesInv, ObjectsBacked, IdTypes, DataTypes
<1>3. ASSUME NEW o \in objects, sys__delete_msg_queue(o) PROVE ResourcesInv'
  <2>1. IdTypes' \/ ~(objects' \subseteq objects)
    <3>1. idmask' \subseteq idmask /\ last_id' = last_id /\ halted' \in {"no", "full", "assert"}
      BY <1>0, <1>3 DEF sys__delete_msg_queue, k_free_unique_id, IdTypes
    <3> QED
      BY <1>0, <3>1 DEF IdTypes
  <2>2. CASE halted' = "no"
    <3>1. ffs_free(o.handle, ObjectWords) /\ objects' = objects \ {o}
      BY <1>3, <2>2 DEF sys__delete_msg_queue
    <3>2. <<o.handle, ObjectWords>> \in blocks
      BY <1>0 DEF ObjectsBacked
    <3>3. Sound(heap', blocks', data') /\ blocks' = blocks \ {<<o.handle, ObjectWords>>}
      BY <1>0, <3>1, <3>2, FreeKeeps
    <3>7. DataTypes'
      BY <1>0, <1>3, <3>1, ZeroedType DEF DataTypes, ffs_free, sys__delete_msg_queue
    <3>4. \A q \in objects' : q \in objects /\ q.handle # o.handle
      BY <1>0, <3>1 DEF ObjectsBacked
    <3>5. ASSUME NEW q \in objects' PROVE <<q.handle, ObjectWords>> \in blocks'
      <4>1. q \in objects /\ q.handle # o.handle
        BY <3>4
      <4>2. <<q.handle, ObjectWords>> \in blocks
        BY <1>0, <4>1 DEF ObjectsBacked
      <4>3. <<q.handle, ObjectWords>> # <<o.handle, ObjectWords>>
        BY <4>1
      <4> QED
        BY <3>3, <4>2, <4>3
    <3>6. ObjectsBacked'
      BY <1>0, <3>4, <3>5 DEF ObjectsBacked
    <3> QED
      BY <2>1, <3>3, <3>4, <3>6, <3>7 DEF ResourcesInv
  <2>3. CASE halted' # "no"
    <3>1. /\ mem' = mem /\ first' = first /\ blocks' = blocks /\ objects' = objects
          /\ data' = data /\ kmsg_qs' = kmsg_qs
      BY <1>3, <2>3 DEF sys__delete_msg_queue, heapvars
    <3>2. heap' = heap
      BY <3>1 DEF heap
    <3> QED
      BY <1>0, <2>1, <3>1, <3>2 DEF ResourcesInv, ObjectsBacked, DataTypes
  <2> QED
    BY <2>2, <2>3
<1>4. ASSUME NEW n \in BlockWords, kmalloc(n) PROVE ResourcesInv'
  <2>1. /\ Sound([mem |-> allocated(n).mem, first |-> first'], blocks', zeroed(data, address(n), n))
        /\ blocks' = blocks \cup {<<address(n), n>>}
    BY <1>0, <1>4, AllocKeeps DEF kmalloc, ffs_alloc
  <2>2. mem' = allocated(n).mem /\ data' = zeroed(data, address(n), n) /\ kmsg_qs' = kmsg_qs
    BY <1>4 DEF kmalloc, ffs_alloc
  <2>3. Sound(heap', blocks', data')
    BY <2>1, <2>2 DEF heap
  <2>4. DataTypes'
    BY <1>0, <2>2, ZeroedType DEF DataTypes
  <2>5. IdTypes' /\ objects' = objects
    BY <1>0, <1>4 DEF kmalloc, idvars, IdTypes
  <2> QED
    BY <1>0, <2>1, <2>3, <2>4, <2>5 DEF ResourcesInv, ObjectsBacked
<1>5. ASSUME NEW b \in blocks, kfree(b) PROVE ResourcesInv'
  <2> DEFINE p == b[1]
             n == b[2]
  <2>1. b = <<p, n>>
    BY <1>0
  <2>2. p \notin {o.handle : o \in objects} /\ ffs_free(p, n)
    BY <1>5 DEF kfree
  <2> HIDE DEF p, n
  <2>3. Sound(heap', blocks', data') /\ blocks' = blocks \ {<<p, n>>}
    BY <1>0, <2>1, <2>2, FreeKeeps
  <2>4. IdTypes' /\ objects' = objects
    BY <1>0, <1>5 DEF kfree, idvars, IdTypes
  <2>5. ASSUME NEW q \in objects PROVE <<q.handle, ObjectWords>> \in blocks'
    <3>1. q.handle # p
      BY <2>2
    <3>2. <<q.handle, ObjectWords>> # <<p, n>>
      BY <3>1
    <3> QED
      BY <1>0, <2>3, <3>2 DEF ObjectsBacked
  <2>6. ObjectsBacked'
    BY <1>0, <2>4, <2>5 DEF ObjectsBacked
  <2>7. DataTypes'
    <3>1. data' = zeroed(data, p, n) /\ kmsg_qs' = kmsg_qs
      BY <1>5, <2>2 DEF ffs_free, kfree
    <3> QED
      BY <1>0, <3>1, ZeroedType DEF DataTypes
  <2> QED
    BY <2>3, <2>4, <2>6, <2>7 DEF ResourcesInv
<1> QED
  BY <1>1, <1>2, <1>3, <1>4, <1>5 DEF Next

\* The invariant holds in every state.
LEMMA SpecResourcesInv == ASSUME "staleLast" \notin Uses PROVE Spec => []ResourcesInv
<1>1. Init => ResourcesInv
  <2> SUFFICES ASSUME Init PROVE ResourcesInv
    OBVIOUS
  <2>1. Sound(heap, blocks, data) /\ objects = {}
    BY InitSound DEF Init
  <2>2. IdTypes
    BY UniqueIdAssumption, <2>1 DEF Init, IdInit, IdTypes, Id
  <2>3. DataTypes
    <3>1. 0 \in Word
      BY Pool DEF Word
    <3>2. data = [a \in Address |-> 0] /\ kmsg_qs = NIL
      BY DEF Init, HeapInit
    <3> QED
      BY <3>1, <3>2 DEF DataTypes
  <2> QED
    BY <2>1, <2>2, <2>3 DEF ResourcesInv, ObjectsBacked
<1>2. ResourcesInv /\ [Next]_vars => ResourcesInv'
  BY StepKeeps
<1> QED
  BY <1>1, <1>2, PTL DEF Spec

\* The heap is intact through every order of taking and giving back, for every size
\* of the pool and of the blocks: chunks border to border, no two free ones side by
\* side, the free list of ff_simple.c exact in both directions.  This holds for
\* programs that create no queue while the one created last is deleted, unless it
\* gets the same memory; otherwise list_append writes outside of every queue.
THEOREM SpecHeapExact == ASSUME "staleLast" \notin Uses PROVE Spec => []HeapExact
<1>1. ResourcesInv => HeapExact
  BY InvImplies
<1> QED
  BY <1>1, SpecResourcesInv, PTL

\* What callers of the allocator hold stays theirs and as they wrote it last, the
\* links of the list of all queues among it, and every chunk in use is held by one
\* of them, for the same programs.
THEOREM SpecBlocksKept == ASSUME "staleLast" \notin Uses PROVE Spec => []BlocksKept
<1>1. ResourcesInv => BlocksKept
  BY InvImplies
<1> QED
  BY <1>1, SpecResourcesInv, PTL
=============================================================================

------------------------------ MODULE Messages ------------------------------
(***************************************************************************)
(* Messages and signals (kernel/messages.c and the retry loop of           *)
(* programs/api/messages.c).  A mailbox is a kmsg_q: a list of messages    *)
(* and a queue of threads that wait for one.  A global queue is reached    *)
(* through the msg_q variables of the program, and every thread descriptor *)
(* contains a mailbox of its own.  A signal does not go to a mailbox: it   *)
(* starts a new thread that runs the handler.                              *)
(*                                                                         *)
(* msg_recv on an empty mailbox blocks and returns E_RETRY; the library    *)
(* then repeats the call.  Between the wake-up and the repetition other    *)
(* threads run, which is what the module is about.                         *)
(*                                                                         *)
(* create, the only call that fills a msg_q, writes handle and id together *)
(* and delete clears them together, so comparing the ids of the variable   *)
(* and of the object (line 157) fails exactly when the handle is NULL.  A  *)
(* call that fails changes nothing but errno, which is left out here.      *)
(* Only delete reads through the handle without testing it (line 100), so  *)
(* programs here delete a queue only through a msg_q that names one.  The  *)
(* list kmsg_qs of all queues, from which delete removes nothing, is the   *)
(* subject of Resources: it lies in the queues' memory, and the mailboxes  *)
(* are safe from it as long as that memory is.                             *)
(* Delete takes one step per released thread; nothing else happens         *)
(* between them (deleting # NULL).                                         *)
(***************************************************************************)
EXTENDS Workers

CONSTANTS
    Started,        \* the workers that exist in the beginning; the other
                    \* descriptors are free memory for handler threads
    MsgQ,           \* msg_q variables of the program
    KMsgQ,          \* heap addresses of global message queues
    Message,        \* the messages programs send, records with type and size
    QueueLimits,    \* the limits programs give to queues
    ThreadLimits,   \* the limits (for messages, for signals) threads set
    Setters,        \* the workers that set limits
    Wanted,         \* the types programs ask for, 0 for any
    Selective,      \* the msg_q variables programs receive from by type, or
                    \* into buffers that may be too small
    MaxMsgs         \* kernel memory, in messages

Mailbox == KMsgQ \cup Thread
MailQ(x) == <<"mail", x>>

Types == {m.type : m \in Message}
Sizes == {m.size : m \in Message}

\* The parameters of receive_message; "own" is the mailbox of the caller.
Call == [src : MsgQ \cup {"own"}, type : Wanted, size : Sizes]

ASSUME MessagesAssumption ==
    /\ Started \subseteq Worker /\ IsFiniteSet(Started)
    /\ NULL \notin Call
    /\ KMsgQ \cap Thread = {} /\ NULL \notin KMsgQ /\ "own" \notin MsgQ
    /\ Message \subseteq [type : Nat \ {0}, size : Nat]
    /\ QueueLimits \subseteq Nat /\ ThreadLimits \subseteq Nat \X Nat
    /\ Setters \subseteq Worker /\ Wanted \subseteq Nat
    /\ MaxMsgs \in Nat
    /\ Selective \subseteq MsgQ
    /\ WaitQ = AlarmQs \cup {MailQ(x) : x \in Mailbox}

VARIABLES
    live,       \* threads that exist
    ptr,        \* msgq->handle
    queues,     \* the global queues that exist
    msgs,       \* kmsgq->msgs
    min_prio,   \* kmsgq->min_prio
    sig_prio,   \* thrmsg->sig_prio
    heap,       \* number of messages allocated with kmalloc
    retry,      \* the call a thread blocked in and has not finished, or NULL
    deleting    \* <<thread, msg_q>> while delete_msg_queue releases threads

mvars == <<live, ptr, queues, msgs, min_prio, sig_prio, heap, retry, deleting>>
vars == <<k, mvars>>

Init ==
    /\ live = Started \cup {Idle}
    /\ \E prio \in [Started -> Prio] :
       k = [state  |-> [t \in Thread |-> CASE t = Idle -> "ACTIVE"
                                           [] t \in Started -> "WAIT"
                                           [] OTHER -> "PASSIVE"],
            prio   |-> [t \in Thread |-> IF t \in Started THEN prio[t] ELSE 0],
            queue  |-> [t \in Thread |-> IF t \in Started THEN AlarmQ(t) ELSE NULL],
            q      |-> [x \in Queue |-> IF x \in {AlarmQ(t) : t \in Started}
                                        THEN <<x[2]>> ELSE <<>>],
            mask   |-> {},
            active |-> Idle]
    /\ ptr = [s \in MsgQ |-> NULL] /\ queues = {}
    /\ msgs = [x \in Mailbox |-> <<>>]
    /\ min_prio = [x \in Mailbox |-> 0] /\ sig_prio = [t \in Thread |-> 0]
    /\ heap = 0
    /\ retry = [t \in Thread |-> NULL]
    /\ deleting = NULL

\* Thread t is in user code; a thread that was told to repeat a call can do
\* nothing else.
Running(t) == deleting = NULL /\ k.active = t /\ t # Idle
Free(t) == Running(t) /\ retry[t] = NULL

-----------------------------------------------------------------------------
\* Queues and limits

sys__create_msg_queue(t, s, o, m) ==
    /\ Free(t) /\ o \notin queues
    /\ queues' = queues \cup {o} /\ ptr' = [ptr EXCEPT ![s] = o]
    /\ msgs' = [msgs EXCEPT ![o] = <<>>]
    /\ min_prio' = [min_prio EXCEPT ![o] = m]
    /\ k' = [k EXCEPT !.q[MailQ(o)] = <<>>]
    /\ UNCHANGED <<live, sig_prio, heap, retry, deleting>>

sys__thread_msg_set(t, l) ==
    /\ Free(t)
    /\ min_prio' = [min_prio EXCEPT ![t] = l[1]]
    /\ sig_prio' = [sig_prio EXCEPT ![t] = l[2]]
    /\ UNCHANGED <<k, live, ptr, queues, msgs, heap, retry, deleting>>

\* Mutant: only the first message is freed.
k_msgq_clean_first(x) ==
    /\ msgs' = [msgs EXCEPT ![x] = <<>>]
    /\ heap' = IF msgs[x] = <<>> THEN heap ELSE heap - 1

\* Free the messages of mailbox x.
k_msgq_clean(x) ==
    /\ msgs' = [msgs EXCEPT ![x] = <<>>]
    /\ heap' = heap - Len(msgs[x])

\* delete_msg_queue: free the messages, release the blocked threads ...  (With a
\* NULL handle the kernel would read through it: no program here does that.)
sys__delete_msg_queue(t, s) ==
    /\ Free(t) /\ ptr[s] # NULL
    /\ k_msgq_clean(ptr[s])
    /\ deleting' = <<t, s>>
    /\ UNCHANGED <<k, live, ptr, queues, min_prio, sig_prio, retry>>

delete_next ==
    /\ deleting # NULL
    /\ LET x == MailQ(ptr[deleting[2]]) IN
       k.q[x] # <<>> /\ k' = kthreadq_release(k, x)
    /\ UNCHANGED mvars

\* Mutant: the queue is freed after the first thread.
delete_done_early ==
    /\ deleting # NULL
    /\ queues' = queues \ {ptr[deleting[2]]}
    /\ ptr' = [ptr EXCEPT ![deleting[2]] = NULL]
    /\ deleting' = NULL
    /\ UNCHANGED <<k, live, msgs, min_prio, sig_prio, heap, retry>>

\* ... and free the object.  No thread is chosen: the caller goes on.
delete_done ==
    /\ deleting # NULL
    /\ LET o == ptr[deleting[2]] IN
       k.q[MailQ(o)] = <<>> /\ queues' = queues \ {o}
    /\ ptr' = [ptr EXCEPT ![deleting[2]] = NULL]
    /\ deleting' = NULL
    /\ UNCHANGED <<k, live, msgs, min_prio, sig_prio, heap, retry>>

-----------------------------------------------------------------------------
\* Sending

\* The mailboxes a program can name.
destinations == (live \ {Idle}) \cup {ptr[s] : s \in {s \in MsgQ : ptr[s] # NULL}}

\* Mutant: a thread is released only if the mailbox was empty.
sys__msg_post_if_empty(t, x, m) ==
    /\ Free(t) /\ x \in destinations
    /\ min_prio[x] <= m.type
    /\ heap < MaxMsgs /\ heap' = heap + 1
    /\ msgs' = [msgs EXCEPT ![x] = Append(@, m)]
    /\ k' = IF k.q[MailQ(x)] = <<>> \/ msgs[x] # <<>> THEN k
            ELSE kthreads_schedule(kthreadq_release(k, MailQ(x)))
    /\ UNCHANGED <<live, ptr, queues, min_prio, sig_prio, retry, deleting>>

\* Mutant: the released thread has to wait for the next scheduling.
sys__msg_post_no_schedule(t, x, m) ==
    /\ Free(t) /\ x \in destinations
    /\ min_prio[x] <= m.type
    /\ heap < MaxMsgs /\ heap' = heap + 1
    /\ msgs' = [msgs EXCEPT ![x] = Append(@, m)]
    /\ k' = kthreadq_release(k, MailQ(x))
    /\ UNCHANGED <<live, ptr, queues, min_prio, sig_prio, retry, deleting>>

\* Put a copy of m in mailbox x and release the first waiting thread, whatever
\* it waits for.
sys__msg_post(t, x, m) ==
    /\ Free(t) /\ x \in destinations
    /\ min_prio[x] <= m.type
    /\ heap < MaxMsgs /\ heap' = heap + 1
    /\ msgs' = [msgs EXCEPT ![x] = Append(@, m)]
    /\ k' = IF k.q[MailQ(x)] = <<>> THEN k
            ELSE kthreads_schedule(kthreadq_release(k, MailQ(x)))
    /\ UNCHANGED <<live, ptr, queues, min_prio, sig_prio, retry, deleting>>

\* Start thread n, of a priority one higher than d, to handle a signal to d.
sys__msg_post_signal(t, d, type, n) ==
    /\ Free(t) /\ d \in live \ {Idle} /\ n \in Worker \ live
    /\ sig_prio[d] <= type
    /\ live' = live \cup {n}
    /\ LET p == IF k.prio[d] + 1 \in Prio THEN k.prio[d] + 1 ELSE PRIO_LEVELS - 1 IN
       k' = kthreads_schedule(kthread_move_to_ready([k EXCEPT !.prio[n] = p], n))
    /\ msgs' = [msgs EXCEPT ![n] = <<>>]
    /\ min_prio' = [min_prio EXCEPT ![n] = 0]
    /\ sig_prio' = [sig_prio EXCEPT ![n] = 0]
    /\ UNCHANGED <<ptr, queues, heap, retry, deleting>>

-----------------------------------------------------------------------------
\* Receiving

box(t, src) == IF src = "own" THEN t ELSE ptr[src]

\* The positions in mailbox x of the messages a receiver of this type takes.
matching(x, type) == {i \in 1..Len(msgs[x]) : type = 0 \/ msgs[x][i].type = type}

\* Thread t calls receive_message, or repeats the call it blocked in.
calls(t, c) ==
    /\ Running(t) /\ retry[t] \in {NULL, c}
    /\ c.src # "own" /\ c.src \notin Selective =>
          c.type = 0 /\ \A n \in Sizes : n <= c.size

\* The first message of the type is copied, removed and freed; one that is too
\* big for the buffer stays.
sys__msg_recv(t, c) ==
    /\ calls(t, c)
    /\ LET x == box(t, c.src) IN
       /\ x # NULL /\ matching(x, c.type) # {}
       /\ LET i == Min(matching(x, c.type)) IN
          IF c.size < msgs[x][i].size THEN UNCHANGED <<msgs, heap>>
          ELSE /\ msgs' = [msgs EXCEPT ![x] = RemoveAt(@, i)]
               /\ heap' = heap - 1
    /\ retry' = [retry EXCEPT ![t] = NULL]
    /\ UNCHANGED <<k, live, ptr, queues, min_prio, sig_prio, deleting>>

\* With IPC_WAIT and no message of the type, block and repeat the call later.
sys__msg_recv_block(t, c) ==
    /\ calls(t, c)
    /\ LET x == box(t, c.src) IN
       /\ x # NULL /\ matching(x, c.type) = {}
       /\ k' = kthreads_schedule(kthread_enqueue(k, t, MailQ(x)))
    /\ retry' = [retry EXCEPT ![t] = c]
    /\ UNCHANGED <<live, ptr, queues, msgs, min_prio, sig_prio, heap, deleting>>

\* The queue was deleted in the meantime: the repeated call fails.
sys__msg_recv_gone(t, c) ==
    /\ calls(t, c) /\ retry[t] = c
    /\ box(t, c.src) = NULL
    /\ retry' = [retry EXCEPT ![t] = NULL]
    /\ UNCHANGED <<k, live, ptr, queues, msgs, min_prio, sig_prio, heap, deleting>>

-----------------------------------------------------------------------------
\* The rest of the life of a thread

\* Thread t ends; the messages it has not read are freed.
sys__thread_exit(t) ==
    /\ Free(t)
    /\ live' = live \ {t}
    /\ k_msgq_clean(t)
    /\ k' = kthreads_schedule(kthread_unlink(k, t))
    /\ UNCHANGED <<ptr, queues, min_prio, sig_prio, retry, deleting>>

sys__wait_for_alarm(t) == Free(t) /\ sleep(t) /\ UNCHANGED mvars

k_timer_interrupt(t) == deleting = NULL /\ wake(t) /\ UNCHANGED mvars

idle_thread == deleting = NULL /\ k.active = Idle /\ UNCHANGED vars

-----------------------------------------------------------------------------
Next ==
    \/ \E t \in Worker, s \in MsgQ, o \in KMsgQ, m \in QueueLimits :
          sys__create_msg_queue(t, s, o, m)
    \/ \E t \in Setters, l \in ThreadLimits : sys__thread_msg_set(t, l)
    \/ \E t \in Worker, s \in MsgQ : sys__delete_msg_queue(t, s)
    \/ delete_next
    \/ delete_done
    \/ \E t \in Worker, x \in Mailbox, m \in Message : sys__msg_post(t, x, m)
    \/ \E t, d, n \in Worker, type \in Types : sys__msg_post_signal(t, d, type, n)
    \/ \E t \in Worker, c \in Call : sys__msg_recv(t, c)
    \/ \E t \in Worker, c \in Call : sys__msg_recv_block(t, c)
    \/ \E t \in Worker, c \in Call : sys__msg_recv_gone(t, c)
    \/ \E t \in Worker : sys__thread_exit(t)
    \/ \E t \in Worker : sys__wait_for_alarm(t)
    \/ \E t \in Worker : k_timer_interrupt(t)
    \/ idle_thread

Spec == Init /\ [][Next]_vars

-----------------------------------------------------------------------------
\* Type invariant.
TypeOK ==
    /\ k \in KState
    /\ live \subseteq Thread
    /\ ptr \in [MsgQ -> KMsgQ \cup {NULL}] /\ queues \subseteq KMsgQ
    /\ msgs \in [Mailbox -> Seq(Message)]
    /\ min_prio \in [Mailbox -> Nat] /\ sig_prio \in [Thread -> Nat]
    /\ heap \in 0..MaxMsgs
    /\ retry \in [Thread -> Call \cup {NULL}]
    /\ deleting \in (Worker \X MsgQ) \cup {NULL}

\* Through every mixture of waits, posts, signals that start threads, ends of
\* threads and deleted queues each thread that exists is the active one or
\* linked exactly once, where its descriptor says.
QueuesConsistent ==
    TypeOK /\ LinkedOnce(k, live) /\ NoneLost(k, live) /\ MaskExact(k)

\* The threads that blocked in a call on s, were released and have yet to
\* repeat it.
woken(s) == {t \in live : /\ retry[t] # NULL /\ retry[t].src = s
                          /\ k.queue[t] # MailQ(ptr[s])}

\* A message is not left behind by its wake-up.  While threads still sleep in a
\* queue, every message in it has a released thread that is about to look for
\* one, whoever took the message it was released for.  In its own mailbox, where
\* it is the only receiver, a thread may wait for a type: it never sleeps while a
\* message it would take is there.
NoMessageForSleeper ==
    /\ \A s \in MsgQ \ Selective :
          ptr[s] # NULL /\ deleting = NULL /\ k.q[MailQ(ptr[s])] # <<>>
              => Len(msgs[ptr[s]]) <= Cardinality(woken(s))
    /\ \A t \in live :
          retry[t] # NULL /\ retry[t].src = "own" /\ k.queue[t] = MailQ(t)
              => matching(t, retry[t].type) = {}

\* The messages in the mailboxes that exist, each as its mailbox and its place.
stored == UNION {{x} \X (1..Len(msgs[x])) : x \in queues \cup live}

\* Every message in kernel memory is in the mailbox of a queue or a thread that
\* exists: deleting a queue and ending a thread free what is in it, once.
NoMessageLeaked ==
    heap = Cardinality(stored)

\* No thread sleeps in the mailbox of a queue or of a thread that is gone, and
\* in the mailbox of a thread nobody but that thread.
NoSleepInFreedMailbox ==
    /\ \A o \in KMsgQ : k.q[MailQ(o)] # <<>> => o \in queues
    /\ \A t \in Thread : \A i \in DOMAIN k.q[MailQ(t)] : k.q[MailQ(t)][i] = t

\* If the highest ready priority runs, it still does after every step but a
\* delete, which releases threads and goes on.
HighestKept ==
    [][HighestRuns(k) /\ ~delete_next => HighestRuns(k')]_vars
=============================================================================

----------------------------- MODULE Resources ------------------------------
(***************************************************************************)
(* Kernel objects with an identifier, as message queues have: memory from  *)
(* the allocator of FirstFit and an identifier of UniqueId, taken and      *)
(* given back in the order of sys__create_msg_queue and                    *)
(* sys__delete_msg_queue.  Other callers of the heap take blocks of other  *)
(* sizes and no identifier, in any order.                                  *)
(*                                                                         *)
(* Every new queue is appended to the list kmsg_qs, whose links lie in the *)
(* last three words of the queues; no queue is ever removed from it, so    *)
(* its end may point into memory that has been freed or given to somebody  *)
(* else, and the next append writes there.                                 *)
(***************************************************************************)
EXTENDS FirstFit, UniqueId

CONSTANTS
    ObjectWords,    \* size of a kgmsg_q
    BlockWords,     \* sizes of other blocks
    Uses            \* "staleLast": queues are created though the one created last is gone

ASSUME ResourcesAssumption ==
    ObjectWords \in Nat /\ ObjectWords >= 3 /\ BlockWords \subseteq Nat \ {0} /\ Uses \subseteq {"staleLast"}

VARIABLES
    objects,    \* the queues that exist, as their handles: address and id
    kmsg_qs     \* kmsg_qs.last, the links of the queue appended last; NIL while the list is empty

vars == <<heapvars, idvars, objects, kmsg_qs>>

Init == HeapInit /\ IdInit /\ objects = {} /\ kmsg_qs = NIL

running == halted = "no"

\* The links of the queue at p, &gmsgq->all: prev, next and object.
all(p) == p + ObjectWords - 3

\* The words m after the queue at p has been appended behind the links at last.
list_append(m, p, last) ==
    LET g == [m EXCEPT ![all(p) + 2] = p, ![all(p) + 1] = NIL]
        l == IF last = NIL THEN g ELSE [g EXCEPT ![last + 1] = all(p)]
    IN  [l EXCEPT ![all(p)] = last]

\* The end of the list is in no queue, the new one at p included.
stale_last(p) == kmsg_qs \notin {NIL, all(p)} \cup {all(o.handle) : o \in objects}

\* Memory first, E_NO_MEMORY without it; then the identifier, or the machine stops;
\* then the list.  What is written through a stale end is no queue's data.
sys__create_msg_queue ==
    LET p == address(ObjectWords) IN
    /\ running /\ can_alloc(ObjectWords)
    /\ hold(ObjectWords)
    /\ \/ /\ k_new_unique_id
          /\ "staleLast" \in Uses \/ ~stale_last(p)
          /\ objects' = objects \cup {[handle |-> p, id |-> last_id']}
          /\ mem' = list_append(allocated(ObjectWords).mem, p, kmsg_qs)
          /\ data' = IF stale_last(p)
                     THEN [list_append(zeroed(data, p, ObjectWords), p, NIL) EXCEPT ![all(p)] = kmsg_qs]
                     ELSE list_append(zeroed(data, p, ObjectWords), p, kmsg_qs)
          /\ kmsg_qs' = all(p)
       \/ /\ no_free_id
          /\ mem' = allocated(ObjectWords).mem /\ data' = zeroed(data, p, ObjectWords)
          /\ UNCHANGED <<objects, kmsg_qs>>

create_no_memory == running /\ ~can_alloc(ObjectWords) /\ UNCHANGED vars

\* The identifier is given back, then the memory.  The queue stays in the list.
sys__delete_msg_queue(o) ==
    /\ running
    /\ k_free_unique_id(o.id)
    /\ IF halted' = "no" THEN ffs_free(o.handle, ObjectWords) /\ objects' = objects \ {o}
       ELSE UNCHANGED <<heapvars, objects>>
    /\ UNCHANGED kmsg_qs

\* Blocks of other callers.
kmalloc(n) ==
    /\ running /\ can_alloc(n)
    /\ ffs_alloc(n)
    /\ UNCHANGED <<idvars, objects, kmsg_qs>>

kfree(b) ==
    /\ running /\ b[1] \notin {o.handle : o \in objects}
    /\ ffs_free(b[1], b[2])
    /\ UNCHANGED <<idvars, objects, kmsg_qs>>

Next ==
    \/ sys__create_msg_queue
    \/ create_no_memory
    \/ \E o \in objects : sys__delete_msg_queue(o)
    \/ \E n \in BlockWords : kmalloc(n)
    \/ \E b \in blocks : kfree(b)

Spec == Init /\ [][Next]_vars

-----------------------------------------------------------------------------
\* Type invariant: words, links and identifiers stay in range.
TypeOK ==
    /\ mem \in [Address -> NIL .. 2 * WORDS + 1]
    /\ first \in Address \cup {NIL}
    /\ idmask \subseteq Id /\ last_id \in Id /\ halted \in {"no", "full", "assert"}
    /\ blocks \subseteq Address \X Nat
    /\ objects \subseteq [handle : Address, id : Id] /\ kmsg_qs \in Address \cup {NIL}
    /\ data \in [Address -> NIL .. 2 * WORDS + 1]

\* The heap is intact through every order of taking and giving back: words and
\* links in range, chunks border to border with no two free ones side by side,
\* and the free list exact, so that every later alloc and free finds its way.
HeapExact == TypeOK /\ ChunksTile /\ FreeListExact

\* "unique system wide id numbers": no two queues that exist have the same
\* identifier, through wrap-around of the search and deletion
\* in any order; and every bit of the mask is a queue's, so none is lost.
IdsExact ==
    /\ idmask = {o.id : o \in objects}
    /\ \A o, q \in objects : o.id = q.id => o = q
=============================================================================

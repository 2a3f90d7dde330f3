------------------------------ MODULE FirstFit ------------------------------
(***************************************************************************)
(* The first-fit allocator (lib/mm/ff_simple.c) that serves the kernel     *)
(* heap and the stack pool of a process, at the level of memory words.     *)
(*                                                                         *)
(* Memory is the array mem of words; an address is an index, a size a      *)
(* number of words.  A chunk begins with a word that holds its size and    *)
(* ends with a copy of it (the tail); as in the code the lowest bit of     *)
(* that word marks a chunk in use, so a word is 2 * size or 2 * size + 1.  *)
(* In a free chunk the second and third word are the links of the free     *)
(* list.  The words of a chunk in use between head and tail belong to the  *)
(* caller, who begins with zeros: words that would look like the end of a  *)
(* free chunk.                                                             *)
(***************************************************************************)
EXTENDS Integers, FiniteSetsExt

CONSTANT WORDS      \* size of the pool

ASSUME FirstFitAssumption == WORDS \in Nat /\ WORDS >= 8

Address == 0 .. WORDS - 1
NIL == -1           \* the null pointer in a link
HEADER_SIZE == 4    \* head, two links, tail

VARIABLES
    mem,        \* the words
    first,      \* mpool->first
    blocks,     \* history: what callers hold, <<address, words asked for>>
    data        \* history: what callers wrote last, word by word

heapvars == <<mem, first, blocks, data>>

\* A heap h is a record [mem, first]; the operators return the heap after.
heap == [mem |-> mem, first |-> first]

-----------------------------------------------------------------------------
\* Heads and tails

size_of(h, a) == h.mem[a] \div 2
is_free(h, a) == h.mem[a] % 2 = 0
after(h, a) == a + size_of(h, a)
tail(h, a) == after(h, a) - 1

set_head(h, a, n, used) == [h EXCEPT !.mem[a] = 2 * n + (IF used THEN 1 ELSE 0)]
clone_size_to_tail(h, a) == [h EXCEPT !.mem[tail(h, a)] = h.mem[a]]

\* The links of the free chunk at a.
prev(h, a) == h.mem[a + 1]
next(h, a) == h.mem[a + 2]

ffs_remove_chunk(h, a) ==
    LET g == IF a = h.first THEN [h EXCEPT !.first = next(h, a)]
             ELSE [h EXCEPT !.mem[prev(h, a) + 2] = next(h, a)]
    IN  IF next(h, a) = NIL THEN g ELSE [g EXCEPT !.mem[next(h, a) + 1] = prev(h, a)]

ffs_insert_chunk(h, a) ==
    LET g == [h EXCEPT !.mem[a + 2] = h.first, !.mem[a + 1] = NIL]
    IN  [(IF h.first = NIL THEN g ELSE [g EXCEPT !.mem[h.first + 1] = a]) EXCEPT !.first = a]

-----------------------------------------------------------------------------
\* ffs_init: a border in use, one free chunk, a border in use.
HeapInit ==
    LET blank == [mem |-> [a \in Address |-> 0], first |-> NIL]
        left  == set_head(blank, 0, 1, TRUE)
        chunk == clone_size_to_tail(set_head(left, 1, WORDS - 2, FALSE), 1)
        right == set_head(chunk, WORDS - 1, 1, TRUE)
        h     == ffs_insert_chunk(right, 1)
    IN  mem = h.mem /\ first = h.first /\ blocks = {} /\ data = [a \in Address |-> 0]

\* Mutant: no room for the tail.
chunk_size_no_tail(n) == IF n + 1 < HEADER_SIZE THEN HEADER_SIZE ELSE n + 1

\* The size of the chunk for n words: with head and tail, room for the links.
chunk_size(n) == IF n + 2 < HEADER_SIZE THEN HEADER_SIZE ELSE n + 2

\* The chunks that a search along the free list meets, from 0 on in order, and NIL
\* behind the last.  There is room for no more than MaxFree of them.
MaxFree == WORDS \div HEADER_SIZE

free_list(h) ==
    LET l[i \in 0..MaxFree] == IF i = 0 THEN h.first
                              ELSE IF l[i - 1] = NIL THEN NIL ELSE next(h, l[i - 1])
    IN  l

\* The first free chunk of at least n words, NIL if there is none.
first_fit(h, n) ==
    LET l == free_list(h)
    IN  l[Min({i \in 0..MaxFree : l[i] = NIL \/ size_of(h, l[i]) >= n})]

\* Take n words from the free chunk at a: its end, if the rest can still be a
\* free chunk, or all of it.
split_off(h, a, n) ==
    IF size_of(h, a) >= n + HEADER_SIZE
    THEN LET g == clone_size_to_tail(set_head(h, a, size_of(h, a) - n, FALSE), a)
         IN  [heap |-> set_head(g, after(g, a), n, FALSE), chunk |-> after(g, a)]
    ELSE [heap |-> ffs_remove_chunk(h, a), chunk |-> a]

mark_used(h, a) == clone_size_to_tail(set_head(h, a, size_of(h, a), TRUE), a)

\* Words of which the n from p on are zero.
zeroed(m, p, n) == [a \in Address |-> IF a \in p .. p + n - 1 THEN 0 ELSE m[a]]

\* The caller writes its n words.
fill(h, p, n) == [h EXCEPT !.mem = zeroed(h.mem, p, n)]

\* NULL is returned when no chunk is large enough.
can_alloc(n) == first_fit(heap, chunk_size(n)) # NIL

\* The chunk for n words and the heap after it is taken.
taken(n) == split_off(heap, first_fit(heap, chunk_size(n)), chunk_size(n))

\* The address returned.
address(n) == taken(n).chunk + 1

\* The heap after n words have been taken and their caller has written them.
allocated(n) == fill(mark_used(taken(n).heap, taken(n).chunk), address(n), n)

\* The caller holds them.
hold(n) == first' = allocated(n).first /\ blocks' = blocks \cup {<<address(n), n>>}

ffs_alloc(n) == hold(n) /\ mem' = allocated(n).mem /\ data' = zeroed(data, address(n), n)

\* Join the chunk at a with the free chunk that ends before it.
join_left(h, a) ==
    LET b == a - size_of(h, a - 1) IN
    IF is_free(h, a - 1)
    THEN [heap |-> set_head(ffs_remove_chunk(h, b), b, size_of(h, b) + size_of(h, a), FALSE),
          chunk |-> b]
    ELSE [heap |-> h, chunk |-> a]

\* Mutant: the chunk that is joined stays in the free list.
join_right_listed(h, a) ==
    IF is_free(h, after(h, a))
    THEN set_head(h, a, size_of(h, a) + size_of(h, after(h, a)), FALSE)
    ELSE h

\* Join the chunk at a with the free chunk that begins after it.
join_right(h, a) ==
    IF is_free(h, after(h, a))
    THEN set_head(ffs_remove_chunk(h, after(h, a)), a,
                  size_of(h, a) + size_of(h, after(h, a)), FALSE)
    ELSE h

\* Give the memory at p back: mark, join, insert, set the tail.
ffs_free(p, n) ==
    LET l == join_left(set_head(heap, p - 1, size_of(heap, p - 1), FALSE), p - 1)
        h == clone_size_to_tail(ffs_insert_chunk(join_right(l.heap, l.chunk), l.chunk), l.chunk)
    IN  mem' = h.mem /\ first' = h.first /\ blocks' = blocks \ {<<p, n>>}
        /\ data' = zeroed(data, p, n)

-----------------------------------------------------------------------------
\* The heads of the chunks, border to border: where following the sizes leads.
reached[a \in Address] == a = 0 \/ \E b \in 0 .. a - 1 : after(heap, b) = a /\ reached[b]
Heads == {a \in Address : reached[a]}

\* Following the sizes leads from border to border, tails agree with heads,
\* and no two free chunks lie side by side: both joins of ffs_free are made and
\* neither runs into what a caller wrote.
ChunksTile ==
    LET H == Heads IN
    /\ WORDS - 1 \in H
    /\ \A a \in H :
          /\ size_of(heap, a) > 0 /\ after(heap, a) \in H \cup {WORDS}
          /\ mem[tail(heap, a)] = mem[a]
          /\ is_free(heap, a) => ~is_free(heap, after(heap, a))

\* The free list, in both directions, holds every free chunk once and nothing else.
FreeListExact ==
    LET l == free_list(heap) IN
    /\ {l[i] : i \in 0..MaxFree} \ {NIL} = {a \in Heads : is_free(heap, a)}
    /\ l[MaxFree] = NIL
    /\ \A i \in 0..MaxFree : l[i] # NIL => prev(heap, l[i]) = IF i = 0 THEN NIL ELSE l[i - 1]

\* What callers hold are words of their own, inside a chunk in use, with what they
\* wrote last; and every chunk in use but the borders is held, so nothing leaks.
BlocksKept ==
    LET H == Heads IN
    /\ \A b \in blocks :
          /\ b[1] - 1 \in H /\ ~is_free(heap, b[1] - 1)
          /\ b[2] <= size_of(heap, b[1] - 1) - 2
          /\ \A a \in b[1] .. b[1] + b[2] - 1 : mem[a] = data[a]
    /\ {b[1] - 1 : b \in blocks} = {a \in H \ {0, WORDS - 1} : ~is_free(heap, a)}
=============================================================================

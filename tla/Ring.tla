-------------------------------- MODULE Ring --------------------------------
(***************************************************************************)
(* The circular buffers of the keyboard driver (arch/i386/arch/devices/    *)
(* i8042.c) and of the serial driver (uart.c): an array, the index of the  *)
(* oldest element, the index of the next free slot, and the number of      *)
(* elements.  A buffer is a record r; the operators return the record the  *)
(* C code leaves behind.                                                   *)
(***************************************************************************)
EXTENDS Integers, Sequences

CONSTANT SIZE       \* KEYB_BUFF_SIZE, BUFFER_SIZE

ASSUME RingAssumption == SIZE \in Nat \ {0}

Slot == 0 .. SIZE - 1

RingState(Elements, Empty) ==
    [buf : [Slot -> Elements \cup {Empty}], first : Slot, last : Slot, size : 0..SIZE]

empty_ring(Empty) == [buf |-> [i \in Slot |-> Empty], first |-> 0, last |-> 0, size |-> 0]

\* Store x; when the buffer is full the oldest element is overwritten.
put_over(r, x) ==
    [r EXCEPT !.buf[r.last] = x, !.last = (@ + 1) % SIZE,
              !.size = IF r.size < SIZE THEN @ + 1 ELSE @,
              !.first = IF r.size < SIZE THEN @ ELSE (@ + 1) % SIZE]

\* Mutant: off by one in the test for room.
put_if_room_late(r, x) ==
    IF r.size > SIZE THEN r
    ELSE [r EXCEPT !.buf[r.last] = x, !.last = (@ + 1) % SIZE, !.size = @ + 1]

\* Store x unless the buffer is full.
put_if_room(r, x) ==
    IF r.size = SIZE THEN r
    ELSE [r EXCEPT !.buf[r.last] = x, !.last = (@ + 1) % SIZE, !.size = @ + 1]

\* The oldest element, and the buffer without it.
oldest(r) == r.buf[r.first]
take(r) == [r EXCEPT !.first = (@ + 1) % SIZE, !.size = @ - 1]

\* What is in the buffer, oldest first.
contents(r) == [i \in 1..r.size |-> r.buf[(r.first + i - 1) % SIZE]]
=============================================================================

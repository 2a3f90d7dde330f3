------------------------------ MODULE UniqueId ------------------------------
(***************************************************************************)
(* The identifiers of threads and message queues (kernel/memory.c): a bit  *)
(* mask of the ones in use and the last one given.  The search goes up     *)
(* from the last one and wraps around; it stops the machine when it is     *)
(* back where it started.                                                  *)
(*                                                                         *)
(* MAX_RESOURCES is taken to be a multiple of the word size.  In the build *)
(* it is 1000, not a multiple of 32, and the bits of the last eight        *)
(* identifiers lie behind the end of idmask.                               *)
(***************************************************************************)
EXTENDS Integers, FiniteSets, FiniteSetsExt

CONSTANT MAX_RESOURCES

ASSUME UniqueIdAssumption == MAX_RESOURCES \in Nat /\ MAX_RESOURCES > 1

Id == 0 .. MAX_RESOURCES - 1

VARIABLES
    idmask,     \* the identifiers whose bit is set
    last_id,    \* the last identifier given
    halted      \* why the machine has been stopped, "no" while it runs

idvars == <<idmask, last_id, halted>>

IdInit == idmask = {} /\ last_id = 0 /\ halted = "no"

\* The identifier the n-th turn of the search looks at.
nth(n) == (last_id + n) % MAX_RESOURCES

\* The turns that find a clear bit before the search is back at its start.  In
\* the turn for identifier 0, continue leads to the test of its bit as well.
free_turns == {n \in 1 .. MAX_RESOURCES - 1 : nth(n) \notin idmask}

k_new_unique_id ==
    /\ free_turns # {}
    /\ last_id' = nth(Min(free_turns))
    /\ idmask' = idmask \cup {last_id'}
    /\ UNCHANGED halted

\* "Don't have free unique id!"
no_free_id ==
    /\ free_turns = {}
    /\ halted' = "full"
    /\ UNCHANGED <<idmask, last_id>>

\* Mutant: the bit of the next identifier is cleared.
k_free_unique_id_next(i) ==
    /\ idmask' = idmask \ {i + 1}
    /\ UNCHANGED <<last_id, halted>>

\* The assertion demands a positive identifier whose bit is set, or the machine
\* stops.
k_free_unique_id(i) ==
    IF i > 0 /\ i \in idmask
    THEN idmask' = idmask \ {i} /\ UNCHANGED <<last_id, halted>>
    ELSE halted' = "assert" /\ UNCHANGED <<idmask, last_id>>
=============================================================================

------------------------------ MODULE MCThreads -----------------------------
(***************************************************************************)
(* Threads for TLC: a few descriptors, two or three priority levels.       *)
(***************************************************************************)
EXTENDS Threads

MCWaitQ == {JoinQ(t) : t \in Thread} \cup {AlarmQ(t) : t \in Thread}

\* User descriptors are interchangeable.
Sym == Permutations(Thread \ {Idle, Main})
=============================================================================

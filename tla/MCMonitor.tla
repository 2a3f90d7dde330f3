----------------------------- MODULE MCMonitor ------------------------------
(***************************************************************************)
(* Monitor for TLC: a few workers, monitors and condition queues.          *)
(***************************************************************************)
EXTENDS Monitor

MCWaitQ == AlarmQs \cup {MonQ(o) : o \in KMon} \cup {CondQ(x) : x \in KCond}

\* Heap addresses are interchangeable, and so are workers and the variables.
Sym == UNION {Permutations(S) : S \in {Worker, Mon, Cond, KMon, KCond}}
=============================================================================

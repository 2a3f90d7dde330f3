---------------------------- MODULE MCSemaphore -----------------------------
(***************************************************************************)
(* Semaphore for TLC: a few workers, semaphores and kernel objects.        *)
(***************************************************************************)
EXTENDS Semaphore

MCWaitQ == AlarmQs \cup {SemQ(o) : o \in KSem}

\* Heap addresses are interchangeable, and so are workers and sem_t variables.
Sym == Permutations(KSem) \cup Permutations(Worker) \cup Permutations(Sem)
=============================================================================

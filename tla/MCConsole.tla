----------------------------- MODULE MCConsole ------------------------------
(***************************************************************************)
(* Console for TLC: two or three printing workers and short buffers.       *)
(***************************************************************************)
EXTENDS Console

MCWaitQ == AlarmQs \cup {DevQ}

\* Workers are interchangeable, and so are characters.
Sym == Permutations(Worker) \cup Permutations(Char)
=============================================================================

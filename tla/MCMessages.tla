----------------------------- MODULE MCMessages -----------------------------
(***************************************************************************)
(* Messages for TLC: a few workers, queues and messages.                   *)
(***************************************************************************)
EXTENDS Messages

MCWaitQ == AlarmQs \cup {MailQ(x) : x \in Mailbox}

\* A small message of the lower type and a big one of the higher.
MCMessage == {[type |-> 1, size |-> 1], [type |-> 2, size |-> 2]}

\* Only messages and signals of the higher type are taken.
MCThreadLimits == {<<2, 2>>}

\* Heap addresses are interchangeable, and so are the workers without limits.
Sym == Permutations(KMsgQ) \cup Permutations(Started \ Setters)
=============================================================================

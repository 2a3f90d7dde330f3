---------------------------- MODULE MCResources -----------------------------
(***************************************************************************)
(* Instance of Resources for TLC: a pool of a few words, so that it is     *)
(* exhausted, split and joined on either side, and few identifiers, so     *)
(* that the search wraps around.                                           *)
(***************************************************************************)
EXTENDS Resources

Sizes == {4}
=============================================================================

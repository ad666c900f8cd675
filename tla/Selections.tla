----------------------------- MODULE Selections -----------------------------
(***************************************************************************)
(* The loops that go through a list and append what they do not skip.      *)
(***************************************************************************)
EXTENDS Sequences, SequencesExt

(* The elements of a list that are in S, in its order.                     *)
Only(list, S) ==
    FlattenSeq([i \in DOMAIN list |-> IF list[i] \in S THEN <<list[i]>> ELSE <<>>])
=============================================================================

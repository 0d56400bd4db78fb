---------------------------- MODULE MCRegExpExec ----------------------------
(***************************************************************************)
(* RegExpExec on small instances: a text of one character and an empty one *)
(* ("" and "b"), a global pattern and another, and indices past the empty  *)
(* text.  One slot of cache is enough for every compilation to evict the   *)
(* pattern of another object.                                              *)
(***************************************************************************)
EXTENDS RegExpExec, TLC

MCLength == [s \in Subject |-> IF s = "" THEN 0 ELSE 1]

\* /./g and /$/, as far as a length of one goes.
MCMatchEnd ==
    [p \in Pattern |-> [s \in Subject |-> [i \in 0 .. 1 |->
        IF p = "any" THEN IF i = 0 /\ s # "" THEN 1 ELSE NoMatch
        ELSE IF s = "" THEN 0 ELSE 1]]]

Symmetry == Permutations(Regex) \union Permutations(SubjectCell)
=============================================================================

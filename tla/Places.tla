------------------------------- MODULE Places --------------------------------
(***************************************************************************)
(* Filters and sorts.  Of a sequence's places, upTo has those to be kept,  *)
(* each with the places that come no later than it.                        *)
(***************************************************************************)
EXTENDS Integers, Sequences, FiniteSets

Arranged(seq, upTo) ==
    LET nth(k) == CHOOSE i \in DOMAIN upTo : Cardinality(upTo[i]) = k
    IN  [k \in 1 .. Cardinality(DOMAIN upTo) |-> seq[nth(k)]]

\* A filter: what is kept stays in its order.
Picked(seq, places) == Arranged(seq, [i \in places |-> { j \in places : j <= i }])
==============================================================================

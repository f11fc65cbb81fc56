------------------------------ MODULE Positions ------------------------------
(***************************************************************************)
(* Picking some of the places of a sequence, in order.  Where SelectSeq    *)
(* takes a test, this takes the set of the places that pass it: the proof  *)
(* system reads no definition of SelectSeq.                                *)
(***************************************************************************)
EXTENDS Integers, Sequences

\* The numbers of K among 1..n, in ascending order.
Ascending(K, n) ==
  LET pick[i \in 0..n] ==
        IF i = 0 THEN <<>> ELSE IF i \in K THEN Append(pick[i - 1], i) ELSE pick[i - 1]
  IN  pick[n]

\* The elements of a sequence at some of its places.
At(s, places) == [k \in DOMAIN places |-> s[places[k]]]
=============================================================================

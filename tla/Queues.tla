------------------------------- MODULE Queues -------------------------------
(***************************************************************************)
(* Queues of requests and callbacks, from which the SDK or a log-out takes *)
(* some entries and leaves the others in their order.                      *)
(***************************************************************************)
EXTENDS Integers, Sequences, FiniteSets, SequencesExt

\* The i-th of a set of places, counted from the first
Place(K, i) == CHOOSE k \in K : Cardinality({j \in K : j <= k}) = i

\* The entries of q at the places K, in their order
Picked(q, K) == [i \in 1 .. Cardinality(K) |-> q[Place(K, i)]]
=============================================================================

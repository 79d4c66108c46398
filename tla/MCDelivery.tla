----------------------------- MODULE MCDelivery -----------------------------
(* Instances of Delivery for TLC. *)
EXTENDS Delivery, TLC

\* Couriers and requests are interchangeable in the initial states, the
\* actions and the invariants.
Symmetry == Permutations(Couriers) \cup Permutations(Procs)
=============================================================================

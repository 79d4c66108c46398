----------------------------- MODULE MCOpenBoard -----------------------------
(* One row, a courier next door and one far away, two runs of the timer. *)
EXTENDS OpenBoard

CONSTANTS near, far

MCDistance == [c \in Couriers |-> IF c = near THEN 1 ELSE 3]
=============================================================================

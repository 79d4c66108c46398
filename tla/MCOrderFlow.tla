----------------------------- MODULE MCOrderFlow -----------------------------
(* Instances of OrderFlow for TLC. *)
EXTENDS OrderFlow

CONSTANT s1

\* Every delivery and every job is the first store's
OneStore == [part \in Deliveries \cup Jobs |-> s1]
=============================================================================

------------------------------- MODULE MCQuotes -------------------------------
(* Two stores, an order and one follow-up. *)
EXTENDS Quotes, TLC

\* Stores, requests and replicas are interchangeable (for safety only)
Symmetry == Permutations(Stores) \cup Permutations(Procs) \cup Permutations(Replicas)

\* While sections and orders are fresh, two requests interleave and offers have
\* two versions; when one has aged, offers have one version, and a request and
\* a sweep interleave, or two sweeps
AgedOrBusy ==
  LET calling == {p \in Procs : ~At(p, "idle")}
      running == {r \in Replicas : run[r] # IdleRun}
  IN \/ /\ \A s \in Stores : section[s] = Null \/ section[s].age = 0
        /\ \A o \in Orders : order[o].recent
     \/ /\ calling = {} \/ (Cardinality(calling) = 1 /\ Cardinality(running) < 2)
        /\ \A q \in quotes : q.version = 1
=============================================================================

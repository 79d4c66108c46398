------------------------ MODULE MCCourierApplications ------------------------
(* Two applications for one phone; one of them may come by invitation. *)
EXTENDS CourierApplications, TLC

\* Rows of a table and requests are interchangeable
Symmetry == Permutations(Apps) \cup Permutations(Docs) \cup Permutations(Procs)
=============================================================================

------------------------------ MODULE MCSessions ------------------------------
(* Two devices, two requests at a time. *)
EXTENDS Sessions, TLC

\* Devices and requests are interchangeable
Symmetry == Permutations(Devices) \cup Permutations(Procs)

\* Second guesses and second changes of the password are for two tokens
OfTwoTokens ==
  (\E c \in Codes : uses[c].tried > 1) \/ account.tv > 1
    => Cardinality({t \in Tokens : token[t].state # "none"}) <= 2
=============================================================================

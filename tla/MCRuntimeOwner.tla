--------------------------- MODULE MCRuntimeOwner ---------------------------
(* RuntimeOwner on a small instance: model values for processes, requests   *)
(* and payloads, interchangeable within each set.                           *)
EXTENDS RuntimeOwner, TLC

Symmetry == Permutations(Instances) \cup Permutations(Requests)
            \cup Permutations(Payloads)
=============================================================================

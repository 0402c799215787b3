------------------------------ MODULE MCVisits ------------------------------
(* Instances of Visits for TLC.                                            *)
EXTENDS Visits, TLC

Symmetry == Permutations(Engineers) \cup Permutations(Requests)
============================================================================

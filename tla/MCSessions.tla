---------------------------- MODULE MCSessions ----------------------------
(* Instances of Sessions for TLC.                                          *)
EXTENDS Sessions, TLC

Symmetry == Permutations(Tokens) \cup Permutations(Families) \cup Permutations(Requests)
============================================================================

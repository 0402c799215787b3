------------------------------ MODULE MCStaff ------------------------------
(* Instances of Staff for TLC.                                             *)
EXTENDS Staff, TLC

(* Accounts may be exchanged within and outside the protected ones.        *)
Symmetry == Permutations(Protected) \cup Permutations(Admins \ Protected)
            \cup Permutations(Sites) \cup Permutations(Requests)
============================================================================

---------------------------- MODULE MCSpecFiles ----------------------------
(* Instances of SpecFiles and SpecReports: see the .cfg files. *)
EXTENDS SpecReports, TLC

Symmetry == Permutations(Procs)
============================================================================

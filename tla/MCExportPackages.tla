-------------------------- MODULE MCExportPackages --------------------------
(***************************************************************************)
(* Instances of ExportPackages for TLC: two candidates are enough for a    *)
(* duplicate and for one being skipped, two runs for exports that overlap  *)
(* or repeat.                                                              *)
(***************************************************************************)
EXTENDS ExportPackages, TLC

CONSTANTS c1, c2, r1, r2

Symmetry == Permutations({c1, c2}) \cup Permutations({r1, r2})
=============================================================================

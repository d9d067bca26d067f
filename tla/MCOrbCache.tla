----------------------------- MODULE MCOrbCache -----------------------------
(* OrbCache for TLC. *)
EXTENDS OrbCache, TLC

WorkerSymmetry == Permutations(Workers)
=============================================================================

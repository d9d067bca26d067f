--------------------------- MODULE MCDocumentSync ---------------------------
(* Instances of DocumentSync for TLC. *)
EXTENDS DocumentSync, TLC

(* Workers are interchangeable slots: sound for safety properties. *)
WorkerSymmetry == Permutations(Workers)
=============================================================================

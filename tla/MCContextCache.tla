--------------------------- MODULE MCContextCache ---------------------------
(* Instances of ContextCache for TLC. *)
EXTENDS ContextCache, TLC

CONSTANTS a, b, x, y, h1, h2

\* Two namespaces share the short name x; the second host has an unqualified
\* context of that name, and lists less.
RemoteShared ==
  h1 :> {<<a, x>>, <<b, x>>, <<a, y>>} @@ h2 :> {<<Bare, x>>, <<b, x>>}

WorkerSymmetry == Permutations(Workers)
=============================================================================

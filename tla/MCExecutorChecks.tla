-------------------------- MODULE MCExecutorChecks --------------------------
(***************************************************************************)
(* Two catalogs that differ in what they offer, and executors with every   *)
(* kind of class and image.  A class of Linux is not one of Windows; an    *)
(* image of one is not available for the other.                            *)
(***************************************************************************)
EXTENDS ExecutorChecks, TLC

MCCatalog == [h \in Hosts |->
  IF h = InitHost
    THEN [linux |-> "medium" :> {"ubuntu"} @@ "gpu.a" :> {"cuda"},
          windows |-> "win" :> {"server"},
          macos |-> "m4" :> {"26.5"} @@ "m2" :> {"26.1"},
          deprecated |-> [linux |-> {"old"}, windows |-> {}, macos |-> {"25"}]]
    ELSE [linux |-> "medium" :> {"old"}, windows |-> <<>>, macos |-> <<>>,
          deprecated |-> [linux |-> {"ubuntu"}, windows |-> {}, macos |-> {}]]]

MCExecutors ==
  {Check("machine", "medium", i) : i \in {"", "ubuntu", "old", "server", "<<p>>"}}
  \union {Check("machine", c, "server") : c \in {"small", "<<p>>", "ns/x"}}
  \union {Check("machine", "small", "")}
  \union {Check("macos", "m4", i) : i \in {"26.5", "25", "<<p>>"}}
  \union {Check("macos", c, "26.5") : c \in {"ns/x", "medium"}}
  \union {Check("docker", c, "") : c \in {"", "small", "gpu.a", "<<p>>.a", "ns/x"}}
=============================================================================

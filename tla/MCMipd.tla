------------------------------- MODULE MCMipd -------------------------------
(* A host (10) with one neighbour (20) and a host behind it (40). *)
EXTENDS MipdProps
=============================================================================

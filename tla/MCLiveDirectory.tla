-------------------------- MODULE MCLiveDirectory --------------------------
(* The default pool and a named one. *)
EXTENDS LiveDirectory

CONSTANTS p1, p2
=============================================================================

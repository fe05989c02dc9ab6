---------------------------- MODULE MCViewServer ----------------------------
(* Two shapes are enough to tell a shape from the one before it. *)
EXTENDS ViewServer
CONSTANTS s1, s2
=============================================================================

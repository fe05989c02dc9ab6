-------------------------- MODULE MCRecursiveScope --------------------------
(* All programs of three definitions: every choice of functions and data,  *)
(* and every reference relation, self-references included.                 *)
EXTENDS RecursiveScope
MCPrograms == [fun : SUBSET Units, refs : [Units -> SUBSET Units]]
=============================================================================

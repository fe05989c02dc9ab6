-------------------------------- MODULE Environs --------------------------------
(***************************************************************************)
(* The slots of a frame (libcurv/analyser.h).  An Environ is an entry of   *)
(* the table s.env; it counts in nslots the slots that are taken where it  *)
(* ends, and in maxslots those that the frame needs.                       *)
(***************************************************************************)
EXTENDS Naturals, Sequences

Open(environ, s) == [s EXCEPT !.env = Append(@, environ)]
Latest(s) == Len(s.env)

Bug_CloseScope(e, scope, s) == s

\* The environ e gets the maxslots of a scope inside it.
CloseScope(e, scope, s) == [s EXCEPT !.env[e].maxslots = s.env[scope].maxslots]

Bug_MakeSlot(e, s) ==
    LET n == s.env[e].nslots + 1
    IN [s EXCEPT !.env[e].maxslots = IF @ < n THEN n ELSE @]

MakeSlot(e, s) ==
    LET n == s.env[e].nslots + 1
    IN [s EXCEPT !.env[e].nslots = n, !.env[e].maxslots = IF @ < n THEN n ELSE @]
=================================================================================

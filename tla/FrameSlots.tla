------------------------------- MODULE FrameSlots -------------------------------
(***************************************************************************)
(* How the analyser lays out one frame (libcurv/analyser.cc,               *)
(* definition.cc): the scopes that share it are opened and closed, each    *)
(* variable takes the next slot, and the frame gets the maxslots_ of its   *)
(* outermost environ.  The steps are the operators of module Environs,     *)
(* with which module Analyser analyses whole programs; here they come in   *)
(* every order in which phrases can bring them about.                      *)
(*                                                                         *)
(* Scopes are C++ objects on the stack of the analyser, so the one that    *)
(* was opened last ends first.  The scope that a new one is opened in need *)
(* not be the last: For_Phrase makes its scope before it analyses the list *)
(* outside of it, and a reference to a variable of a Recursive_Scope       *)
(* analyses the unit of that variable where the scope is, however deep in  *)
(* nested scopes the reference was met.                                    *)
(* An exception that assert_error catches, after which scopes are gone     *)
(* that have passed nothing on, is left to the hazards of Interpreter.     *)
(***************************************************************************)
EXTENDS Environs, SequencesExt

VARIABLES
    s,        \* the analysis state, reduced to the environs of the frame
    scopes,   \* the environs that have not ended, the outermost first
    made,     \* history: the slots that each environ has made
    lowered,  \* history: an environ has got a smaller maxslots than it had
    nested    \* history: each scope was opened in the last one

vars == <<s, scopes, made, lowered, nested>>

Environ(parent, nslots, maxslots) ==
    [parent |-> parent, nslots |-> nslots, maxslots |-> maxslots]

Outermost == 1
Innermost == Last(scopes)
Parent(e) == s.env[e].parent

(* A Lambda_Scope or the Builtin_Environ: a frame starts empty.            *)
Init ==
    /\ s = [env |-> <<Environ(0, 0, 0)>>]
    /\ scopes = <<Outermost>> /\ made = <<{}>>
    /\ lowered = FALSE /\ nested = TRUE

(* Scope::Scope() goes on where its parent is.                             *)
OpenScope(e) ==
    /\ e \in ToSet(scopes)
    /\ s' = Open(Environ(e, s.env[e].nslots, s.env[e].maxslots), s)
    /\ scopes' = Append(scopes, Latest(s')) /\ made' = Append(made, {})
    /\ nested' = (nested /\ e = Innermost)
    /\ UNCHANGED lowered

(* add_binding(); variables are bound in the scope that is being analysed. *)
AddBinding ==
    /\ s' = MakeSlot(Innermost, s)
    /\ made' = [made EXCEPT ![Innermost] = @ \cup {s.env[Innermost].nslots}]
    /\ UNCHANGED <<scopes, lowered, nested>>

PassMaxslots ==
    /\ Innermost # Outermost
    /\ s' = CloseScope(Parent(Innermost), Innermost, s)
    /\ lowered' = (lowered \/ s.env[Innermost].maxslots
                                < s.env[Parent(Innermost)].maxslots)
    /\ UNCHANGED <<made, nested>>

(* Recursive_Scope::analyse() passes maxslots_ on before the body of the   *)
(* block is analysed.                                                      *)
EndDefinitions == PassMaxslots /\ UNCHANGED scopes

(* The end of a block, a listing, a do or a for.                           *)
EndScope == PassMaxslots /\ scopes' = Front(scopes)

Next == (\E e \in ToSet(scopes) : OpenScope(e)) \/ AddBinding \/ EndDefinitions \/ EndScope

Spec == Init /\ [][Next]_vars

-----------------------------------------------------------------------------
(* Properties. *)

(* The scopes around c: its parent, and theirs.                            *)
Encloses(d, c) ==
    \A S \in SUBSET ToSet(scopes) :
        (/\ Parent(c) \in S
         /\ \A e \in S \ {Outermost} : Parent(e) \in S) => d \in S

(* Variables that are visible together do not share a slot.                *)
VisibleSlotsDiffer ==
    \A c, d \in ToSet(scopes) :
        c # Outermost /\ Encloses(d, c) => made[c] \cap made[d] = {}

(* The frame has every slot that was made in it, if no environ has lost a  *)
(* maxslots that it had got from another scope.                            *)
FrameHasSlots ==
    ~lowered /\ scopes = <<Outermost>> =>
        \A e \in DOMAIN made : made[e] \subseteq 0..(s.env[Outermost].maxslots - 1)

(* That cannot happen while each scope is opened in the last one.          *)
NestedScopesKeepSlots == nested => ~lowered

(* The frame is no larger than it has to be.                               *)
FrameIsTight ==
    LET max == s.env[Outermost].maxslots
    IN max > 0 => \E e \in DOMAIN made : max - 1 \in made[e]

=============================================================================

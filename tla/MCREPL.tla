------------------------------- MODULE MCREPL -------------------------------
(* Two session variables, one of which hides a name of the library, and `_`*)
(* as a name that a command assigns and defines like any other, and        *)
(* commands that are long enough for each way of mixing output, assignment *)
(* and failure: one output alone, two in either order, a failure between.  *)
EXTENDS REPL

S(op, n, e) == [op |-> op, name |-> n, expr |-> e]

Generators ==
    {S("value", NoName, Literal(k)) : k \in Shapes \cup {1, Broken}} \cup
    {S("value", NoName, Reference("_")), S("value", NoName, Plus1("x")),
     S("field", NoName, Reference("x"))}
Mixed ==
    {S("value", NoName, Literal(k)) : k \in {1, Max + 1}} \cup
    {S("value", NoName, Plus1("x")), S("field", NoName, Reference("x"))}
Assignments ==
    {S("assign", "x", Plus1("x")), S("assign", "pi", Reference("x")),
     S("assign", "tau", Literal(1)), S("assign", "_", Plus1("_"))}
Loops == {S("while", n, Plus1(n)) : n \in {"x", "_"}}
Definitions ==
    {S("define", "x", Literal(k)) : k \in {0} \cup Shapes} \cup
    {S("define", "x", Plus1("x")), S("define", "x", Reference("pi")),
     S("define", "pi", Plus1("x")), S("define", "_", Reference("x"))}

MCCommands ==
    {<<>>} \cup {<<s>> : s \in Generators \cup Assignments \cup Loops \cup Definitions}
    \cup ((Generators \cup Assignments) \X (Generators \cup Assignments))
    \cup (Mixed \X Mixed \X Mixed)
    \cup {<<S("define", "x", Literal(1)), S("define", "pi", Plus1("_"))>>}
    \cup {<<S("define", "_", Literal(1)), S("define", "pi", Plus1("x"))>>}
=============================================================================

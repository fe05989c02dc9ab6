------------------------------- MODULE Phrase -------------------------------
(***************************************************************************)
(* The phrases that the parser makes (libcurv/phrase.h) without their      *)
(* tokens, and the values that a program computes with (libcurv/value.h).  *)
(* A name is a string.  A phrase has a class, `k'; a value has one field,  *)
(* named for its type, so that values of different types can be compared.  *)
(***************************************************************************)
EXTENDS Integers, Sequences, TLC

Missing == [missing |-> TRUE]
Num(n) == [num |-> n]
Bool(b) == [bool |-> b]
Sym(s) == [sym |-> s]
Str(s) == [str |-> s]
List(s) == [list |-> s]
Rec(f) == [rec |-> f]
Fun(f) == [fun |-> f]

IsNum(v) == "num" \in DOMAIN v
IsBool(v) == "bool" \in DOMAIN v
IsList(v) == "list" \in DOMAIN v
IsStr(v) == "str" \in DOMAIN v
IsRec(v) == "rec" \in DOMAIN v
IsFun(v) == "fun" \in DOMAIN v

NoFields == [n \in {} |-> Missing]

-----------------------------------------------------------------------------
None == [k |-> "None"]
Empty == [k |-> "Empty_Phrase"]
Numeral(n) == [k |-> "Numeral", value |-> Num(n)]
Symbol(s) == [k |-> "Numeral", value |-> Sym(s)]
Text(s) == [k |-> "Numeral", value |-> Str(s)]
Id(name) == [k |-> "Identifier", name |-> name]
Infix(op, left, right) == [k |-> "Binary_Phrase", op |-> op, left |-> left, right |-> right]
Field(name, right) == [k |-> "Assoc", name |-> name, right |-> right]
Spread(arg) == [k |-> "Unary_Phrase", arg |-> arg]
Dot(left, name) == [k |-> "Dot_Phrase", left |-> left, name |-> name]
Call(function, arg) == [k |-> "Call_Phrase", function |-> function, arg |-> arg]
Check(arg, function) == [k |-> "Predicate_Assertion_Phrase", arg |-> arg, function |-> function]
Lambda(left, right) == [k |-> "Lambda_Phrase", left |-> left, right |-> right]
Upto(first, last, halfOpen) ==
    [k |-> "Range_Phrase", first |-> first, last |-> last, halfOpen |-> halfOpen]
Paren(items) == [k |-> "Paren_Phrase", items |-> items]     \* (a,b,c)
Bracket(items) == [k |-> "Bracket_Phrase", items |-> items] \* [a,b,c]
Brace(body) == [k |-> "Brace_Phrase", body |-> body]
Listing(args) == [k |-> "Listing_Phrase", args |-> args]    \* a;b;c or a,b,c

Def(left, right) == [k |-> "Recursive_Definition_Phrase", left |-> left, right |-> right]
Local(arg) == [k |-> "Local_Phrase", arg |-> arg]
Include(name) == [k |-> "Include_Phrase", name |-> name]
Test(arg) == [k |-> "Test_Phrase", arg |-> arg]
Set(left, right) == [k |-> "Assignment_Phrase", left |-> left, right |-> right]
Mutate(arg, function) == [k |-> "Mutate_Phrase", arg |-> arg, function |-> function]

If(condition, then, else) ==
    [k |-> "If_Phrase", condition |-> condition, then |-> then, else |-> else]
Let(bindings, body) == [k |-> "Let_Phrase", let |-> "let", bindings |-> bindings, body |-> body]
Do(bindings, body) == [k |-> "Let_Phrase", let |-> "do", bindings |-> bindings, body |-> body]
Parametric(fields, body) ==
    [k |-> "Let_Phrase", let |-> "parametric", bindings |-> fields, body |-> body]
Where(left, right) == [k |-> "Where_Phrase", left |-> left, right |-> right]
For(pattern, list, condition, body) ==
    [k |-> "For_Phrase", pattern |-> pattern, list |-> list, condition |-> condition, body |-> body]
While(args, body) == [k |-> "While_Phrase", args |-> args, body |-> body]
=============================================================================

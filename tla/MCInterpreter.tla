--------------------------- MODULE MCInterpreter ---------------------------
(* Families of programs: each combines a few phrases in every way.         *)
EXTENDS Interpreter

std == [half |-> Num(5), two |-> Num(2)]
Natives == {"is_num", "match", "compose"}
MCBuiltins ==
    [n \in Natives |-> Fun([k |-> "Builtin", name |-> n])]
    @@ [n \in {"true", "false"} |-> Bool(n = "true")] @@ ("std" :> Rec(std))
    @@ [n \in {"print", "warning", "error", "assert", "assert_error", "exec", "defined"} |-> [meta |-> n]]
MCSymbolOrder == <<"a", "argument", "b", "c", "call", "d", "f", "half", "i", "t", "two", "x", "y">>

MANY == 99
Unlimited(phrases) == {[phrase |-> p, frames |-> MANY] : p \in phrases}
Seq2(a, b) == Listing(<<a, b>>)
Plus(a, b) == Infix("Add_Expr", a, b)
Minus(a, b) == Infix("Subtract_Expr", a, b)
Same(a, b) == Infix("Equal_Expr", a, b)
Less(a, b) == Infix("Less_Expr", a, b)
N(n) == Numeral(n)
a == Id("a")
b == Id("b")
c == Id("c")
f == Id("f")
i == Id("i")
t == Id("t")
x == Id("x")
y == Id("y")
Pair == Bracket(<<a, b>>)
F(arg) == Call(f, arg)

-----------------------------------------------------------------------------
(* Blocks: definitions that use each other, in any order.                  *)

BlockRights == {N(1), Plus(b, N(1)), F(N(2)), Let(Def(t, c), Plus(t, N(1))), Lambda(x, Plus(x, a))}
FunctionRights == {Plus(x, N(1)), Plus(x, a), If(Less(x, N(1)), N(0), F(Minus(x, N(1)))),
                   Let(Def(Call(Id("d"), y), Plus(y, Plus(x, b))), Call(Id("d"), N(3)))}
BlockBodies == {Bracket(<<a, b, F(N(4))>>), Where(Bracket(<<a, c>>), Def(c, Plus(b, N(1)))),
                Do(Set(a, N(7)), Bracket(<<a, b, F(N(0))>>))}
Blocks ==
    {Let(Listing(<<Def(F(x), g), Def(a, p), Def(b, q), Def(c, N(5))>>), body) :
        g \in FunctionRights, p \in BlockRights, q \in {N(2), Plus(c, N(1)), Brace(Def(x, c))}, body \in BlockBodies}
    \cup {Where(Let(Def(a, p), Pair), Listing(<<Def(b, N(2)), Def(c, N(3)), Def(F(x), x)>>)) : p \in BlockRights}
    \cup {Let(Listing(<<Def(Bracket(<<a, Brace(Listing(<<x, Def(y, b)>>))>>), p), Def(b, N(4))>>), Bracket(<<a, x, y>>)) :
            p \in {Bracket(<<N(1), Brace(Def(x, N(2)))>>), Bracket(<<N(1), Brace(Listing(<<Def(x, b), Def(y, N(0))>>))>>), N(1)}}

-----------------------------------------------------------------------------
(* Statements: variables that loops and branches assign.                   *)

Bodies == {Set(a, Plus(a, i)), Set(Pair, Bracket(<<b, i>>)), Mutate(b, Lambda(x, Plus(x, a))),
           Mutate(Mutate(b, Lambda(x, Plus(x, i))), Lambda(y, Plus(y, y))),
           Listing(<<Local(Def(t, Plus(a, i))), Set(a, t), Set(b, Plus(b, t))>>),
           If(Less(i, N(2)), Set(a, N(9)), Set(b, a)),
           If(Less(i, N(2)), Set(a, N(9)), None),
           Let(Def(t, Plus(i, b)), Set(a, t)),
           Where(Set(b, t), Def(t, Plus(a, i))),
           While(Less(a, i), Set(a, Plus(a, N(1)))),
           For(t, Upto(N(0), i, TRUE), None, Set(a, Plus(a, t))),
           Set(i, Plus(i, N(1))),
           Do(Set(a, N(3)), a)}
Heads == {Local(Def(c, Lambda(x, Plus(x, a)))), Local(Listing(<<Def(c, Lambda(x, Plus(x, a))), Def(a, N(6))>>)), Local(Include("std"))}
Loops(s1, s2) == For(i, Upto(N(1), N(3), FALSE), None, Seq2(s1, s2))
Variables == Listing(<<Def(a, N(0)), Def(b, N(4))>>)
Statements ==
    {Do(Listing(<<Local(Variables), Loops(s1, s2)>>), Pair) : s1 \in Bodies, s2 \in Bodies}
    \cup {Do(Listing(<<Local(Def(a, N(1))), Local(Def(b, N(2))), h, s>>), Bracket(<<a, b, g>>)) :
            h \in {Local(Def(c, Lambda(x, Plus(x, a)))), Local(Def(c, Lambda(Brace(Def(x, a)), x)))},
            s \in {Set(a, N(7)), Loops(Set(a, i), Empty), Set(b, Call(c, N(1)))}, g \in {Call(c, N(1)), Call(c, Brace(Empty))}}
    \cup {Do(Listing(<<Local(Include("std")), Local(Def(a, Id("half")))>>), Bracket(<<a, Id("two")>>))}
    \cup {Do(Listing(<<Local(Def(a, r)), Set(Dot(a, "x"), v)>>), a) :
            r \in {Brace(Def(x, N(1))), Brace(Field("x", N(1))), N(1)}, v \in {N(2), Dot(a, "x"), Dot(a, "y")}}

\* Lists and records that statements build.
Items1 == {i, Spread(Bracket(<<i, N(0)>>)), If(Less(i, N(2)), i, None), Listing(<<i, Local(Def(t, i)), Plus(t, N(1))>>),
           Let(Listing(<<Def(a, i), Def(b, a)>>), Plus(a, b)), Do(Local(Def(a, i)), a), Do(Set(i, Plus(i, N(5))), i),
           For(t, Bracket(<<i, i>>), Same(i, N(2)), Plus(t, i)), Paren(<<i, i>>),
           Field("x", i), Spread(Brace(Field("y", i))), Let(Def(Call(f, x), Plus(x, i)), Call(f, i))}
Comprehensions ==
    {Bracket(<<For(i, Upto(N(1), N(3), FALSE), None, s), Spread(Bracket(<<N(0)>>))>>) : s \in Items1}
    \cup {Brace(For(i, Upto(N(1), N(3), TRUE), None, s)) : s \in Items1}
    \cup {Bracket(<<For(i, Bracket(<<N(1), N(2)>>), None, Seq2(s1, s2))>>) : s1 \in Items1, s2 \in Items1}

-----------------------------------------------------------------------------
(* Functions: patterns against values, alone and as cases of `match'.      *)

Patterns == {x, N(1), Id("_"), Bracket(<<x, y>>), Paren(<<>>), Bracket(<<N(1), y>>), Check(x, Id("is_num")),
             Bracket(<<Check(x, Id("is_num")), Bracket(<<y>>)>>)}
RecordPatterns == {Brace(Listing(<<x, Def(y, N(8))>>)), Brace(Field("x", Bracket(<<x, y>>))), Brace(Empty),
                   Brace(Listing(<<Field("x", Def(y, N(3))), Check(a, Id("is_num"))>>)), Brace(Def(Check(x, Id("is_num")), N(2)))}
Values == {N(1), N(2), Bracket(<<N(1), N(2)>>), Bracket(<<N(1), Bracket(<<N(5)>>)>>), Paren(<<>>), Brace(Empty),
           Brace(Def(x, N(4))), Brace(Listing(<<Def(x, Bracket(<<N(1), N(2)>>))>>)), Brace(Listing(<<Def(x, N(4)), Def(a, N(6))>>)),
           Symbol("s"), Lambda(x, x)}
Match(cases) == Call(Id("match"), Bracket(cases))
\* The body uses the variables of the pattern, and slots beyond them.
BodyOf(p) == Let(Def(t, N(7)), Bracket([n \in 1..Cardinality(L!Bound(p)) |-> Id(SetToSeq(L!Bound(p))[n])] \o <<t>>))
Case(p) == Lambda(p, BodyOf(p))
Functions1 ==
    {Call(Case(p), v) : p \in Patterns \cup RecordPatterns, v \in Values}
    \cup {Call(Match(<<Case(p), Case(q), Lambda(x, N(0))>>), v) : p \in Patterns, q \in Patterns, v \in Values}
    \cup {Call(Call(Id("compose"), Bracket(<<Match(<<Case(p), Case(q)>>), Lambda(Bracket(<<x, t>>), x)>>)), v) :
            p \in Patterns, q \in {N(1), x}, v \in Values}
    \cup {Let(Listing(<<Def(f, Match(<<Lambda(N(0), N(0)), Match(<<Lambda(N(1), N(5))>>), Lambda(x, Plus(x, N(1)))>>)), Def(a, v)>>), F(a)) :
            v \in Values \cup {N(0)}}

\* Closures keep the values that their variables had when they were made.
Makers == {Lambda(x, Plus(x, a)), Lambda(x, Let(Def(y, a), Lambda(Id("_"), Plus(x, Plus(y, b))))),
           Let(Def(F(x), If(Less(x, N(1)), a, F(Minus(x, N(1))))), f),
           Dot(Brace(Listing(<<Def(F(x), Plus(x, a)), Def(c, F(N(1)))>>)), "f"),
           Brace(Listing(<<Def(Call(Id("call"), x), Plus(x, a))>>))}
Closures ==
    {Do(Listing(<<Local(Variables), Local(Def(c, m)), Set(a, N(5)), Set(b, N(6))>>), Bracket(<<a, Call(c, N(2))>>)) : m \in Makers}
    \cup {Call(Call(Lambda(a, Let(Def(b, a), m)), N(3)), N(2)) : m \in Makers}
    \cup {Bracket(<<For(a, Upto(N(1), N(2), FALSE), None, Call(Let(Def(b, N(1)), m), N(0)))>>) : m \in Makers}
    \cup {Let(Listing(<<Def(a, N(1)), Def(b, N(0)), Def(f, m)>>), Do(Set(a, N(2)), Bracket(<<F(N(1)), Call(m, N(1))>>))) : m \in Makers}

\* Records: modules with fields that use each other, and parametric records.
Fields1 == {Def(b, Plus(a, N(1))), Def(F(x), Plus(x, a)), Def(Bracket(<<b, c>>), Bracket(<<a, a>>)),
            Def(b, Brace(Listing(<<Def(c, a), Def(y, c)>>))), Def(b, Let(Def(t, a), Lambda(x, Plus(t, a)))), Include("std")}
Records ==
    {Brace(Listing(<<d, e, Def(a, N(1))>>)) : d \in Fields1, e \in {Def(Id("d"), a), Def(Id("d"), Dot(Brace(Listing(<<Def(a, N(2)), Def(c, a)>>)), "c"))}}
    \cup {Call(Lambda(a, Brace(Listing(<<d, Def(t, a)>>))), N(3)) : d \in Fields1}
Parameters1 == {Def(a, N(1)), Listing(<<Def(a, N(1)), Def(b, N(2))>>), Def(Check(a, Id("is_num")), N(4)), a}
Made == {Brace(Def(c, a)), Brace(Def(c, Lambda(x, Plus(x, a)))), a}
ParametricRecords ==
    {Parametric(q, m) : q \in Parameters1, m \in Made}
    \cup {Let(Def(f, Parametric(q, m)), Bracket(<<Dot(f, "c"), Dot(F(v), "c"), Dot(F(v), "argument")>>)) :
            q \in Parameters1, m \in Made, v \in {Brace(Def(a, N(9))), Brace(Empty), Brace(Def(c, N(1))), N(1)}}

\* Operators, ranges and assertions, with operands that fail.
Operands == {N(1), Same(N(1), N(1)), Same(N(0), N(1)), Dot(N(1), "x")}
Operators ==
    {Infix(op, p, q) : op \in {"And_Expr", "Or_Expr", "Add_Expr", "Less_Expr", "Equal_Expr"}, p \in Operands, q \in Operands}
    \cup {Upto(p, q, h) : p \in Operands, q \in {N(0), N(1), N(3)}, h \in BOOLEAN}
    \cup {Check(p, q) : p \in Operands, q \in {Id("is_num"), Lambda(x, Same(x, N(1))), Lambda(x, x)}}

-----------------------------------------------------------------------------
(* Assignments in every place.                                             *)

Places == {"let", "do", "for", "statement", "list", "lambda", "if", "record", "while", "right"}
In(place, name, phrase) ==
    CASE place = "let" -> Let(Def(name, N(1)), phrase)
      [] place = "do" -> Do(Local(Def(name, N(1))), phrase)
      [] place = "statement" -> Do(Listing(<<Local(Def(name, N(1))), phrase>>), name)
      [] place = "for" -> Bracket(<<For(name, Bracket(<<N(1)>>), None, phrase)>>)
      [] place = "list" -> Bracket(<<phrase, N(0)>>)
      [] place = "lambda" -> Call(Lambda(name, phrase), N(0))
      [] place = "if" -> If(Same(N(1), N(1)), phrase, N(0))
      [] place = "record" -> Dot(Brace(Listing(<<Def(name, N(1)), Def(Id("d"), phrase)>>)), "d")
      [] place = "while" -> Bracket(<<While(Same(N(0), N(1)), phrase)>>)
      [] place = "right" -> Do(Local(Def(Id("d"), phrase)), Id("d"))
Assign == {Set(a, N(2)), Do(Set(a, N(2)), a), Do(Seq2(Set(Pair, Bracket(<<N(2), N(3)>>)), Mutate(b, Lambda(x, x))), b)}
Assignments ==
    {Let(Listing(<<Def(a, N(0)), Def(b, N(0))>>), In(p, a, In(q, b, In(r, m, s)))) :
        p \in Places, q \in Places, r \in Places, m \in {a, b, c}, s \in Assign}

\* Calls of metafunctions: as statements, as expressions, and by name alone.
Meta1(name, arg) == Call(Id(name), arg)
Says(message, phrase) == Meta1("assert_error", Bracket(<<Text(message), phrase>>))
Metas ==
    LET checked == {N(1), Same(N(1), N(1)), Same(N(0), N(1)), Dot(N(1), "x"), Meta1("error", Text("oops")), Id("unknown"), i}
        stmts == {Meta1(n, p) : n \in {"print", "warning", "exec", "assert", "error"}, p \in checked \ {Id("unknown")}}
                 \cup {Says(m, p) : m \in {"error", "oops", "not defined"}, p \in checked}
    IN {Bracket(<<For(i, Bracket(<<N(1), N(2)>>), None, Seq2(p, q))>>) : p \in stmts, q \in {i, Listing(<<Local(Def(t, i)), t>>)}}
       \cup {Let(Listing(<<Test(p), Def(i, N(3)), Def(F(x), Plus(x, i))>>), F(N(1))) : p \in stmts}
       \cup {Meta1("defined", Dot(p, "x")) : p \in {Brace(Def(x, N(1))), Brace(Def(y, N(1))), N(1), Dot(N(1), "x")}}
       \cup {If(Same(N(1), p), N(5), Meta1("error", Text("oops"))) : p \in {N(1), N(2)}}
       \cup {Call(Match(<<Lambda(N(1), N(5)), Id("error")>>), p) : p \in {N(1), N(2)}}
       \cup {Let(Def(Call(Id("print"), x), Plus(x, N(1))), Call(Id("print"), N(2))), Bracket(<<Id("print")>>), Call(Id("error"), N(1)),
             Call(Lambda(a, Says("oops", Meta1("error", a))), Text("oops"))}

\* Programs that are definitions, and records that mix them with statements.
Definitions ==
    {Def(a, N(1)), Listing(<<Def(a, b), Def(b, N(1))>>), Def(F(x), x), Listing(<<Def(a, N(1)), N(2)>>),
     Brace(Listing(<<Field("a", N(1)), Def(b, N(2))>>)), Seq2(N(1), N(2)), Empty}

-----------------------------------------------------------------------------
(* Functions that call themselves last.                                    *)

Zero(n) == Less(n, N(1))
Again(body) == {[phrase |-> Let(Def(F(x), body), F(N(n))), frames |-> 2] : n \in {0, 2, 6}}
TailCalls ==
    Again(If(Zero(x), N(7), F(Minus(x, N(1)))))
    \cup Again(If(Zero(x), N(7), Let(Def(y, Minus(x, N(1))), F(y))))
    \cup Again(Do(Listing(<<Local(Def(y, x)), Set(y, Minus(y, N(1)))>>), If(Zero(x), y, F(y))))
    \cup {[phrase |-> Let(Def(f, Match(<<Lambda(N(0), N(7)), Lambda(x, x)>>)), F(N(n))), frames |-> 2] : n \in {0, 2}}
    \cup {[phrase |-> Let(Listing(<<Def(F(x), If(Zero(x), N(0), Call(c, Minus(x, N(1))))),
                                    Def(Call(c, y), If(Zero(y), N(1), F(Minus(y, N(1)))))>>), F(N(n))), frames |-> 2] : n \in {1, 4, 7}}
    \cup {[phrase |-> Let(Def(F(x), If(Zero(x), N(0), Plus(N(1), F(Minus(x, N(1)))))), F(N(n))), frames |-> n + 2] : n \in {0, 3, 5}}

MCPrograms ==
    Unlimited(Blocks \cup Statements \cup Comprehensions \cup Functions1 \cup Closures \cup Records
        \cup ParametricRecords \cup Operators \cup Metas \cup Assignments \cup Definitions) \cup TailCalls

\* A definition that cannot be analysed is the subject of an assert_error.
RollbackPrograms ==
    Unlimited({Let(Listing(<<Test(Says("not defined", F(N(1)))), Def(F(x), Plus(x, Id("unknown"))), Def(a, p)>>), q) :
                    p \in {N(1), F(N(2))}, q \in {a, Plus(a, F(N(3)))}})

\* A scope passes its size on and overwrites what its parent has got meanwhile: the list
\* of a loop, or a definition analysed on demand, has more variables than the scope.
Three(p) == Let(Listing(<<Def(x, N(1)), Def(y, N(2)), Def(i, p)>>), Bracket(<<x, y, i>>))
OverflowPrograms ==
    Unlimited({Bracket(<<For(i, Let(Listing(<<Def(a, N(1)), Def(b, N(2)), Def(c, p)>>), Bracket(<<a, b, c>>)), None, q)>>) :
                    p \in BlockRights \ {F(N(2))}, q \in Items1}
        \cup {Let(Listing(<<Def(a, p), Def(b, Three(q))>>), a) :
                    p \in {Let(Def(t, b), t), Where(t, Def(t, b)), Do(Local(Def(t, b)), t)}, q \in {N(3), Plus(x, y)}})

\* A variable of an earlier definition, beside one inside of a later definition.
ClobberPrograms ==
    Unlimited({Do(Local(Listing(<<Def(a, p), Def(b, Let(Def(t, q), t))>>)), Pair) : p \in {N(1), Brace(Def(x, N(1)))}, q \in Operands}
        \cup {Call(Lambda(Brace(Listing(<<Def(x, p), Def(y, Let(Def(t, q), t))>>)), Bracket(<<x, y>>)), Brace(Empty)) :
                    p \in Operands, q \in Operands})
=============================================================================

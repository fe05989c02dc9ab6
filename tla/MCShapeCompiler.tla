--------------------------- MODULE MCShapeCompiler ---------------------------
EXTENDS CompiledShape

x == Ref(1)    \* the parameter
v == Ref(2)    \* a variable that is assigned
y == Ref(3)    \* a variable that is not assigned
zero == Const(0)
one == Const(1)
two == Const(2)
three == Plus(one, two)
increment == Plus(Ref(1), one)
count == Do(<<Var(2, zero), While(Less(v, x), Assign(2, Plus(v, one)))>>, v)

Expressions == {x, three, Nonlocal(2), CallNonlocal(increment, one), CallStd(increment, x),
                If(Less(one, two), x, one)}

Conditions == {Less(v, two), Less(one, two), Less(x, Nonlocal(1))}

Updates == {Assign(2, Plus(v, three)), Assign(2, If(Less(x, v), x, three)),
            Block(<<Local(3, Plus(v, x)), Assign(2, Plus(y, y))>>)}

Loops ==
    {While(Less(v, two), Block(<<When(Less(x, one), Assign(2, Plus(v, three))),
                                 Assign(2, Plus(v, one))>>)),
     ForUntil(3, one, two, one, Assign(2, Plus(v, y)), Less(two, v))}
    \cup {For(3, a, x, one, s) : a \in {zero, one},
              s \in {Assign(2, Plus(v, y)), When(Less(v, x), Assign(2, three))}}

Controls == {When(c, s) : c \in Conditions, s \in Updates}
       \cup {If(c, s, Assign(2, Plus(v, x))) : c \in Conditions, s \in Updates}

After == Loops \cup {When(Less(v, two), Assign(2, three)),
                     Assign(2, Plus(v, CallNonlocal(count, two)))}

Results == {Plus(v, three), If(Less(v, x), v, Nonlocal(2)), CallNonlocal(increment, v)}

Bodies == {Do(<<Var(2, e), s, t>>, r) :
              e \in Expressions, s \in Updates \cup Controls \cup Loops,
              t \in After, r \in Results}

\* A shape has two functions; what follows the first one shares its constants.
MCPrograms == {<<b, Plus(three, CallNonlocal(count, x))>> : b \in Bodies}
         \cup {<<If(Less(x, one), three, one), Plus(x, Nonlocal(2)), count>>}
MCInputs == 0 .. 2
MCSlots == 1 .. 3

\* The analyser's judgements for the programs, six operations deep
Below(j) ==
    {[task |-> Steps(j.task)[p], scope |-> ScopeAt(j.task, j.scope, p)] :
        p \in {p \in DOMAIN Steps(j.task) : Steps(j.task)[p].do \in {"eval", "exec"}}}
With(js) == js \cup UNION {Below(j) : j \in js}
Scoping0 == UNION {{[task |-> EvalOp(fs[k]), scope |-> {Parameter}] : k \in DOMAIN fs} :
                   fs \in Programs}
Scoping1 == With(Scoping0)
Scoping2 == With(Scoping1)
Scoping3 == With(Scoping2)
Scoping4 == With(Scoping3)
Scoping5 == With(Scoping4)
Scoping6 == With(Scoping5)
MCScoping == Scoping6

\* The premise of the theorems about the compiler is true of these programs.
ASSUME NoPureCallsHere == NoPureCalls

-----------------------------------------------------------------------------
\* Programs that the compiler translates to something else: MCPrograms leaves
\* out what they do.
\* local y = v; v := v + 1; y + v
AliasPrograms == {<<Do(<<Var(2, x), Local(3, v), Assign(2, Plus(v, one))>>, Plus(y, v))>>}

\* for (i in 0 .. 2) (i := i + 1; n := n + 1)
ForPrograms == {<<Do(<<Var(2, zero), For(3, zero, two, one,
                    Block(<<Assign(3, Plus(y, one)), Assign(2, Plus(v, one))>>))>>, v)>>}

\* for (i in 2 .. 0 by -1) n := n + i
RangePrograms == {<<Do(<<Var(2, x), For(3, two, zero, Const(-1), Assign(2, Plus(v, y)))>>, v)>>}

\* if (x < 1) (do v := 1 in v) else (do v := 2 in v)
IfPrograms == {<<Do(<<Var(2, zero)>>, If(Less(x, one), Do(<<Assign(2, one)>>, v),
                                                       Do(<<Assign(2, two)>>, v)))>>}

\* f 1 + 2, where f is a function of the standard library: the call is taken for
\* pure, which NoPureCalls excludes.
CallPrograms == {<<Plus(CallStd(increment, one), two)>>}
=============================================================================

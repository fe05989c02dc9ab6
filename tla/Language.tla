------------------------------ MODULE Language ------------------------------
(***************************************************************************)
(* What a program means: an interpreter of phrases in an environment, with *)
(* no slots, no frames and no setters.  It says of blocks, statements,     *)
(* patterns and closures what docs/language says of them, and it is what   *)
(* the Analyser and the Evaluator together are compared with.              *)
(*                                                                         *)
(* An environment maps names to values, or to thunks: a name of a block    *)
(* stands for its definition until it is used.                             *)
(***************************************************************************)
EXTENDS Phrase, SequencesExt, FiniteSets

CONSTANTS Builtins, SymbolOrder

Err == [err |-> TRUE]

\* Values, statements, patterns, calls and names refer to each other: all of that
\* recursion is Interpret's, which is defined last.
RECURSIVE Interpret(_, _)
Mean(phrase, env) == Interpret([what |-> "value", phrase |-> phrase], env)
Perform(phrase, st) == Interpret([what |-> "statement", phrase |-> phrase, out |-> st.out], st.env)
Match(pattern, v, env) == Interpret([what |-> "pattern", pattern |-> pattern, v |-> v], env)
Soft(v, arg) == Interpret([what |-> "call", v |-> v, arg |-> arg], NoFields)
Force(x) == Interpret([what |-> "name", x |-> x], NoFields)

\* What a statement works on: the environment, and the list or record it adds to.
State(env, out) == [env |-> env, out |-> out]
Nothing == [nothing |-> TRUE]

-----------------------------------------------------------------------------
(* Definitions.                                                            *)

Members(body) == IF body.k = "Listing_Phrase" THEN body.args ELSE <<body>>

RECURSIVE Leaves(_)
Leaves(phrase) ==
    CASE phrase.k = "Listing_Phrase" -> UNION {Leaves(phrase.args[i]) : i \in 1..Len(phrase.args)}
      [] phrase.k = "Call_Phrase" -> {}
      [] phrase.k = "Empty_Phrase" -> {}
      [] OTHER -> {phrase}

\* f x = e is f = x -> e
RECURSIVE Curried(_)
Curried(def) == IF def.left.k # "Call_Phrase" THEN def
                ELSE Curried(Def(def.left.function, Lambda(def.left.arg, def.right)))

FieldName(item) ==
    CASE item.k = "Identifier" -> item.name
      [] item.k = "Assoc" -> item.name
      [] item.k = "Predicate_Assertion_Phrase" -> item.arg.name
      [] item.k = "Recursive_Definition_Phrase" ->
            IF item.left.k = "Identifier" THEN item.left.name ELSE item.left.arg.name

FieldPhrase(item) ==
    LET p == IF item.k = "Assoc" THEN item.right ELSE item
    IN IF p.k = "Recursive_Definition_Phrase" THEN p.left ELSE p

FieldDefault(item) ==
    LET p == IF item.k = "Assoc" THEN item.right ELSE item
    IN IF p.k = "Recursive_Definition_Phrase" THEN p.right ELSE None

FieldItems(brace) == Range(Members(brace.body)) \ {Empty}

\* The names that a pattern binds.
RECURSIVE Bound(_)
Bound(pattern) ==
    CASE pattern.k = "Identifier" -> {pattern.name} \ {"_"}
      [] pattern.k \in {"Bracket_Phrase", "Paren_Phrase"} ->
            UNION {Bound(pattern.items[i]) : i \in 1..Len(pattern.items)}
      [] pattern.k = "Predicate_Assertion_Phrase" -> Bound(pattern.arg)
      [] pattern.k = "Brace_Phrase" -> UNION {Bound(FieldPhrase(i)) : i \in FieldItems(pattern)}
      [] OTHER -> {}

Defines(def) ==
    CASE def.k = "Recursive_Definition_Phrase" -> Bound(Curried(def).left)
      [] def.k = "Include_Phrase" -> DOMAIN Builtins[def.name].rec
      [] OTHER -> {}

DefinesAll(bindings) == UNION {Defines(d) : d \in Leaves(bindings)}

\* What one definition gives its names in an environment; Err if it fails.
Definition(def, env) ==
    LET d == Curried(def)
    IN CASE def.k = "Recursive_Definition_Phrase" -> Match(d.left, Mean(d.right, env), env)
         [] def.k = "Include_Phrase" -> [names |-> Builtins[def.name].rec]
         [] def.k = "Test_Phrase" ->
                IF Perform(def.arg, State(env, Nothing)) = Err THEN Err
                ELSE [names |-> NoFields]

\* The definitions of a block may refer to each other in any order.
Block(bindings, env) ==
    [n \in DefinesAll(bindings) |-> [bindings |-> bindings, outer |-> env, thunk |-> n]] @@ env

ForceName(x) ==
    IF "thunk" \notin DOMAIN x THEN x
    ELSE LET d == CHOOSE d \in Leaves(x.bindings) : x.thunk \in Defines(d)
             m == Definition(d, Block(x.bindings, x.outer))
         IN IF m \in {Err, Missing} THEN Err ELSE m.names[x.thunk]

\* All definitions of a block must succeed, the unused ones too.
Sound(bindings, env) ==
    \A d \in Leaves(bindings) : Definition(d, Block(bindings, env)) \notin {Err, Missing}

-----------------------------------------------------------------------------
(* Patterns: the names they bind, Missing if they do not match.            *)

Fields(v) == IF IsRec(v) THEN v.rec ELSE NoFields

FieldValue(item, v, env) ==
    CASE FieldName(item) \in DOMAIN v.rec -> v.rec[FieldName(item)]
      [] FieldDefault(item).k # "None" -> Mean(FieldDefault(item), env)
      [] OTHER -> Missing

\* The parts of a pattern with the parts of the value.
Parts(pattern, v, env) ==
    IF pattern.k = "Brace_Phrase"
    THEN {<<FieldPhrase(i), FieldValue(i, v, env)>> : i \in FieldItems(pattern)}
    ELSE {<<pattern.items[i], v.list[i]>> : i \in 1..Len(pattern.items)}

Fits(pattern, v) ==
    IF pattern.k = "Brace_Phrase"
    THEN IsRec(v) /\ DOMAIN v.rec \subseteq {FieldName(i) : i \in FieldItems(pattern)}
    ELSE IsList(v) /\ Len(v.list) = Len(pattern.items)

MatchParts(pattern, v, env) ==
    LET results == {IF p[2] \in {Err, Missing} THEN p[2] ELSE Match(p[1], p[2], env) : p \in Parts(pattern, v, env)}
        maps == {r.names : r \in results}
        names == UNION {DOMAIN m : m \in maps}
    IN CASE ~Fits(pattern, v) -> Missing
         [] Err \in results -> Err
         [] Missing \in results -> Missing
         [] OTHER -> [names |-> [n \in names |-> (CHOOSE m \in maps : n \in DOMAIN m)[n]]]

MatchPattern(pattern, v, env) ==
    CASE v = Err -> Err
      [] pattern.k = "Numeral" -> IF v = pattern.value THEN [names |-> NoFields] ELSE Missing
      [] pattern.k = "Identifier" ->
            [names |-> IF pattern.name = "_" THEN NoFields ELSE pattern.name :> v]
      [] pattern.k = "Predicate_Assertion_Phrase" ->
            LET holds == Soft(Mean(pattern.function, env), v)
            IN CASE ~IsBool(holds) -> Err
                 [] ~holds.bool -> Missing
                 [] OTHER -> Match(pattern.arg, v, env)
      [] OTHER -> MatchParts(pattern, v, env)

-----------------------------------------------------------------------------
(* Functions.  A soft call is Missing where the argument does not match.   *)

Native(name, arg) ==
    CASE name = "is_num" -> Bool(IsNum(arg))
      [] name = "match" -> Fun([k |-> "first", cases |-> arg.list])
      [] name = "error" -> Missing
      [] name = "compose" -> Fun([k |-> "then", cases |-> arg.list])

\* The name of the metafunction that a phrase calls, or "".
Meta(phrase, env) ==
    IF phrase.k # "Call_Phrase" \/ phrase.function.k # "Identifier" THEN ""
    ELSE IF "meta" \in DOMAIN Force(env[phrase.function.name]) THEN phrase.function.name ELSE ""

\* What an expression that fails says.
Message(phrase, env) ==
    CASE phrase.k = "Identifier" /\ phrase.name \notin DOMAIN env -> "not defined"
      [] Meta(phrase, env) = "error" -> Mean(phrase.arg, env).str
      [] OTHER -> "error"

\* Metafunctions as statements, and as expressions.
Passes(name, arg, env) ==
    CASE name = "assert" -> Mean(arg, env) = Bool(TRUE)
      [] name = "assert_error" ->
            /\ Mean(arg.items[2], env) = Err
            /\ Mean(arg.items[1], env) = Str(Message(arg.items[2], env))
      [] name = "error" -> FALSE
      [] OTHER -> Mean(arg, env) # Err

MeanMeta(name, arg, env) ==
    LET base == Mean(arg.left, env)
    IN IF name # "defined" \/ base = Err THEN Err ELSE Bool(arg.name \in DOMAIN Fields(base))

RECURSIVE SoftFirst(_, _), SoftThen(_, _)
SoftFirst(cases, arg) ==
    IF cases = <<>> THEN Missing
    ELSE LET r == Soft(Head(cases), arg) IN IF r = Missing THEN SoftFirst(Tail(cases), arg) ELSE r

SoftThen(cases, arg) ==
    IF cases = <<>> \/ arg \in {Err, Missing} THEN arg
    ELSE SoftThen(Tail(cases), Soft(Head(cases), arg))

\* A parametric record: its fields, its parameters, and how to make another.
Make(lambda, parameters, call) ==
    LET r == Soft(lambda, Rec(parameters))
    IN CASE r = Missing -> Missing
         [] ~IsRec(r) -> Err
         [] OTHER -> Rec(("call" :> call) @@ ("argument" :> Rec(parameters)) @@ r.rec)

SoftCall(v, arg) ==
    CASE v = Err \/ arg = Err -> Err
      [] IsRec(v) /\ "call" \in DOMAIN v.rec -> Soft(v.rec["call"], arg)
      [] ~IsFun(v) -> Err
      [] v.fun.k = "lambda" ->
            LET m == Match(v.fun.pattern, arg, v.fun.env)
            IN IF m \in {Err, Missing} THEN m ELSE Mean(v.fun.body, m.names @@ v.fun.env)
      [] v.fun.k = "first" -> SoftFirst(v.fun.cases, arg)
      [] v.fun.k = "then" -> SoftThen(v.fun.cases, arg)
      [] v.fun.k = "make" ->
            IF ~IsRec(arg) \/ ~(DOMAIN arg.rec \subseteq DOMAIN v.fun.default) THEN Missing
            ELSE Make(v.fun.lambda, arg.rec @@ v.fun.default, v.fun.lambda)
      [] v.fun.k = "Builtin" -> Native(v.fun.name, arg)

Apply(v, arg) == LET r == Soft(v, arg) IN IF r = Missing THEN Err ELSE r

-----------------------------------------------------------------------------
(* Statements.                                                             *)

\* The environment after a scope that has bound some names.
Leave(outer, inner, names) == [n \in DOMAIN outer |-> IF n \in names THEN outer[n] ELSE inner[n]]

Within(names, st, r) == IF r = Err THEN Err ELSE State(Leave(st.env, r.env, names), r.out)

EmitField(name, v, st) ==
    CASE v = Err -> Err
      [] IsList(st.out) -> State(st.env, List(Append(st.out.list, List(<<Sym(name), v>>))))
      [] IsRec(st.out) -> State(st.env, Rec((name :> v) @@ st.out.rec))
      [] OTHER -> Err

Emit(v, st) ==
    CASE v = Err -> Err
      [] IsList(st.out) -> State(st.env, List(Append(st.out.list, v)))
      [] IsRec(st.out) /\ IsList(v) /\ Len(v.list) = 2 /\ "sym" \in DOMAIN v.list[1] ->
            EmitField(v.list[1].sym, v.list[2], st)
      [] OTHER -> Err

\* Steps in order, until one fails.
Steps(Step(_, _), items, st) ==
    FoldLeft(LAMBDA s, item : IF s = Err THEN Err ELSE Step(item, s), st, items)

EmitAll(v, st) ==
    CASE IsList(v) -> Steps(LAMBDA item, s : Emit(item, s), v.list, st)
      [] IsRec(v) -> Steps(LAMBDA n, s : EmitField(n, v.rec[n], s),
                           SelectSeq(SymbolOrder, LAMBDA n : n \in DOMAIN v.rec), st)
      [] OTHER -> Err

\* The definitions of one `local' see the names as they were before it.
Declare(def, env) ==
    LET results == {Definition(d, env) : d \in Leaves(def)}
        names == DefinesAll(def)
        maps == {r.names : r \in results}
    IN IF results \cap {Err, Missing} # {} THEN Err
       ELSE [n \in names |-> (CHOOSE m \in maps : n \in DOMAIN m)[n]] @@ env

PerformIn(stmt, st) ==
    IF stmt.k # "Local_Phrase" THEN Perform(stmt, st)
    ELSE LET env == Declare(stmt.arg, st.env) IN IF env = Err THEN Err ELSE State(env, st.out)

Locals(stmts) == UNION {IF stmts[i].k = "Local_Phrase" THEN DefinesAll(stmts[i].arg) ELSE {} : i \in 1..Len(stmts)}
PerformAll(stmts, st) == Steps(PerformIn, stmts, st)

RECURSIVE Loop(_, _, _), Until(_, _)
Loop(phrase, values, st) ==
    LET m == Match(phrase.pattern, Head(values), st.env)
        inside == State(m.names @@ st.env, st.out)
        until == IF phrase.condition.k = "None" THEN Bool(FALSE) ELSE Mean(phrase.condition, inside.env)
        r == Within(DOMAIN m.names, st, Perform(phrase.body, inside))
    IN CASE values = <<>> -> st
         [] m \in {Err, Missing} -> Err
         [] ~IsBool(until) -> Err
         [] until.bool -> st
         [] OTHER -> IF r = Err THEN Err ELSE Loop(phrase, Tail(values), r)

Until(phrase, st) ==
    LET c == Mean(phrase.args, st.env)
        r == Perform(phrase.body, st)
    IN CASE ~IsBool(c) -> Err
         [] ~c.bool -> st
         [] OTHER -> IF r = Err THEN Err ELSE Until(phrase, r)

\* Locatives: what is to the left of := names a variable, a field, or several of these.
RECURSIVE Fetched(_, _), Stored(_, _, _)
Fetched(loc, env) ==
    LET base == Fetched(loc.left, env)
    IN CASE loc.k = "Identifier" -> Force(env[loc.name])
         [] loc.k = "Dot_Phrase" -> IF loc.name \in DOMAIN Fields(base) THEN base.rec[loc.name] ELSE Err
         [] OTHER -> LET vs == [i \in 1..Len(loc.items) |-> Fetched(loc.items[i], env)]
                     IN IF Err \in Range(vs) THEN Err ELSE List(vs)

Stored(loc, v, env) ==
    LET base == Fetched(loc.left, env)
    IN CASE v = Err -> Err
         [] loc.k = "Identifier" -> [env EXCEPT ![loc.name] = v]
         [] loc.k = "Dot_Phrase" ->
                IF loc.name \notin DOMAIN Fields(base) THEN Err
                ELSE Stored(loc.left, Rec([base.rec EXCEPT ![loc.name] = v]), env)
         [] OTHER ->
                IF ~IsList(v) \/ Len(v.list) # Len(loc.items) THEN Err
                ELSE Steps(LAMBDA i, e : Stored(loc.items[i], v.list[i], e),
                           [i \in 1..Len(loc.items) |-> i], env)

\* a ! f ! g assigns g (f a) to a.
RECURSIVE Mutated(_), Transformed(_, _)
Mutated(phrase) == IF phrase.k = "Mutate_Phrase" THEN Mutated(phrase.arg) ELSE phrase
Transformed(phrase, env) ==
    IF phrase.k = "Mutate_Phrase"
    THEN Apply(Mean(phrase.function, env), Transformed(phrase.arg, env))
    ELSE Fetched(phrase, env)

Update(env, st) == IF env = Err THEN Err ELSE State(env, st.out)

\* A block phrase and a `do' phrase are statements when their bodies are.
PerformBlock(bindings, body, st) ==
    IF ~Sound(bindings, st.env) THEN Err
    ELSE Within(DefinesAll(bindings), st, Perform(body, State(Block(bindings, st.env), st.out)))

PerformDo(phrase, st) ==
    LET stmts == Members(phrase.bindings)
        done == PerformAll(stmts, State(st.env, Nothing))
    IN IF done = Err THEN Err
       ELSE Within(Locals(stmts), st, Emit(Mean(phrase.body, done.env), State(done.env, st.out)))

\* (let a in b where c) is one block.
WhereBindings(phrase) ==
    IF phrase.left.k = "Let_Phrase" /\ phrase.left.let = "let"
    THEN Listing(<<phrase.left.bindings, phrase.right>>) ELSE phrase.right
WhereBody(phrase) ==
    IF phrase.left.k = "Let_Phrase" /\ phrase.left.let = "let" THEN phrase.left.body ELSE phrase.left

Choose(phrase, env) == LET c == Mean(phrase.condition, env) IN
    CASE ~IsBool(c) -> Err [] c.bool -> phrase.then [] OTHER -> phrase.else

PerformStatement(phrase, st) ==
    CASE phrase.k \in {"Empty_Phrase", "None"} -> st
      [] phrase.k = "Listing_Phrase" -> Within(Locals(phrase.args), st, PerformAll(phrase.args, st))
      [] phrase.k = "Paren_Phrase" -> Steps(Perform, phrase.items, st)
      [] phrase.k = "If_Phrase" ->
            LET chosen == Choose(phrase, st.env) IN IF chosen = Err THEN Err ELSE Perform(chosen, st)
      [] phrase.k = "Let_Phrase" /\ phrase.let = "let" -> PerformBlock(phrase.bindings, phrase.body, st)
      [] phrase.k = "Let_Phrase" /\ phrase.let = "do" -> PerformDo(phrase, st)
      [] phrase.k = "Where_Phrase" -> PerformBlock(WhereBindings(phrase), WhereBody(phrase), st)
      [] phrase.k = "For_Phrase" ->
            LET list == Mean(phrase.list, st.env) IN IF IsList(list) THEN Loop(phrase, list.list, st) ELSE Err
      [] phrase.k = "While_Phrase" -> Until(phrase, st)
      [] phrase.k = "Unary_Phrase" -> EmitAll(Mean(phrase.arg, st.env), st)
      [] phrase.k = "Assoc" -> EmitField(phrase.name, Mean(phrase.right, st.env), st)
      [] phrase.k = "Assignment_Phrase" -> Update(Stored(phrase.left, Mean(phrase.right, st.env), st.env), st)
      [] phrase.k = "Mutate_Phrase" ->
            Update(Stored(Mutated(phrase), Transformed(phrase, st.env), st.env), st)
      [] Meta(phrase, st.env) \notin {"", "defined"} ->
            IF Passes(phrase.function.name, phrase.arg, st.env) THEN st ELSE Err
      [] OTHER -> Emit(Mean(phrase, st.env), st)

-----------------------------------------------------------------------------
(* Expressions.                                                            *)

Listed(items, env) ==
    LET r == Steps(Perform, items, State(env, List(<<>>))) IN IF r = Err THEN Err ELSE r.out

IsModule(body) == Members(body) = <<Empty>> \/ DefinesAll(body) # {}

Record(body, env) ==
    IF IsModule(body)
    THEN IF Sound(body, env) THEN Rec([n \in DefinesAll(body) |-> Force(Block(body, env)[n])]) ELSE Err
    ELSE LET r == Perform(body, State(env, Rec(NoFields))) IN IF r = Err THEN Err ELSE r.out

Infixed(op, left, right, env) ==
    LET a == Mean(left, env)
        b == Mean(right, env)
        lazy == op \in {"And_Expr", "Or_Expr"}
    IN CASE a = Err \/ (lazy /\ ~IsBool(a)) -> Err
         [] lazy /\ a.bool = (op = "Or_Expr") -> a
         [] b = Err -> Err
         [] lazy -> IF IsBool(b) THEN b ELSE Err
         [] op = "Equal_Expr" -> Bool(a = b)
         [] ~IsNum(a) \/ ~IsNum(b) -> Err
         [] op = "Add_Expr" -> Num(a.num + b.num)
         [] op = "Subtract_Expr" -> Num(a.num - b.num)
         [] op = "Less_Expr" -> Bool(a.num < b.num)

Between(phrase, env) ==
    LET a == Mean(phrase.first, env)
        b == Mean(phrase.last, env)
        n == IF phrase.halfOpen THEN b.num - a.num ELSE b.num - a.num + 1
    IN IF ~IsNum(a) \/ ~IsNum(b) THEN Err ELSE List([i \in 1..(IF n < 0 THEN 0 ELSE n) |-> Num(a.num + i - 1)])

Parameters(fields, env) ==
    LET items == FieldItems(Brace(fields))
    IN [n \in {FieldName(i) : i \in items} |->
            Mean(FieldDefault(CHOOSE i \in items : FieldName(i) = n), env)]

Parametrized(phrase, env) ==
    LET lambda == Fun([k |-> "lambda", pattern |-> Brace(phrase.bindings), body |-> phrase.body, env |-> env])
        default == Parameters(phrase.bindings, env)
        made == Make(lambda, default, Fun([k |-> "make", lambda |-> lambda, default |-> default]))
    IN IF Err \in {default[n] : n \in DOMAIN default} \/ made = Missing THEN Err ELSE made

Named(name, env) ==
    IF name \notin DOMAIN env THEN Err
    ELSE LET v == Force(env[name])
         IN IF "meta" \in DOMAIN v THEN Fun([k |-> "Builtin", name |-> name]) ELSE v

MeanValue(phrase, env) ==
    CASE phrase.k = "Numeral" -> phrase.value
      [] phrase.k = "Identifier" -> Named(phrase.name, env)
      [] Meta(phrase, env) # "" -> MeanMeta(Meta(phrase, env), phrase.arg, env)
      [] phrase.k = "Binary_Phrase" -> Infixed(phrase.op, phrase.left, phrase.right, env)
      [] phrase.k = "Call_Phrase" -> Apply(Mean(phrase.function, env), Mean(phrase.arg, env))
      [] phrase.k = "Predicate_Assertion_Phrase" ->
            LET v == Mean(phrase.arg, env) IN
            IF Apply(Mean(phrase.function, env), v) = Bool(TRUE) THEN v ELSE Err
      [] phrase.k = "Range_Phrase" -> Between(phrase, env)
      [] phrase.k \in {"Paren_Phrase", "Bracket_Phrase"} -> Listed(phrase.items, env)
      [] phrase.k = "Dot_Phrase" ->
            LET r == Mean(phrase.left, env) IN IF phrase.name \in DOMAIN Fields(r) THEN r.rec[phrase.name] ELSE Err
      [] phrase.k = "Assoc" ->
            LET v == Mean(phrase.right, env) IN IF v = Err THEN Err ELSE List(<<Sym(phrase.name), v>>)
      [] phrase.k = "Lambda_Phrase" ->
            Fun([k |-> "lambda", pattern |-> phrase.left, body |-> phrase.right, env |-> env])
      [] phrase.k = "Brace_Phrase" -> Record(phrase.body, env)
      [] phrase.k = "If_Phrase" ->
            LET chosen == Choose(phrase, env) IN IF chosen = Err THEN Err ELSE Mean(chosen, env)
      [] phrase.k = "Let_Phrase" /\ phrase.let = "let" ->
            IF Sound(phrase.bindings, env) THEN Mean(phrase.body, Block(phrase.bindings, env)) ELSE Err
      [] phrase.k = "Let_Phrase" /\ phrase.let = "do" ->
            LET done == PerformAll(Members(phrase.bindings), State(env, Nothing))
            IN IF done = Err THEN Err ELSE Mean(phrase.body, done.env)
      [] phrase.k = "Let_Phrase" /\ phrase.let = "parametric" -> Parametrized(phrase, env)
      [] phrase.k = "Where_Phrase" ->
            IF Sound(WhereBindings(phrase), env)
            THEN Mean(WhereBody(phrase), Block(WhereBindings(phrase), env)) ELSE Err
      [] OTHER -> Err     \* statements and definitions have no value

Interpret(task, env) ==
    CASE task.what = "value" -> MeanValue(task.phrase, env)
      [] task.what = "statement" -> PerformStatement(task.phrase, State(env, task.out))
      [] task.what = "pattern" -> MatchPattern(task.pattern, task.v, env)
      [] task.what = "call" -> SoftCall(task.v, task.arg)
      [] task.what = "name" -> ForceName(task.x)

-----------------------------------------------------------------------------
(* Which assignments are legal.  A statement may assign the variables of   *)
(* the blocks, the loops and the `local's around it, up to the nearest     *)
(* expression, function or record that it stands in.                       *)

RECURSIVE Legal(_, _)
LegalAll(phrases, names) == \A i \in 1..Len(phrases) : Legal(phrases[i], names)

RECURSIVE LegalSequence(_, _)
LegalSequence(stmts, names) ==
    \/ stmts = <<>>
    \/ /\ Head(stmts).k = "Local_Phrase"
       /\ Legal(Head(stmts).arg, {})
       /\ LegalSequence(Tail(stmts), names \cup DefinesAll(Head(stmts).arg))
    \/ /\ Head(stmts).k # "Local_Phrase"
       /\ Legal(Head(stmts), names)
       /\ LegalSequence(Tail(stmts), names)

LegalBlock(bindings, body, names) ==
    Legal(bindings, {}) /\ Legal(body, names \cup DefinesAll(bindings))

RECURSIVE Assigned(_)
Assigned(loc) ==
    CASE loc.k = "Identifier" -> {loc.name}
      [] loc.k = "Dot_Phrase" -> Assigned(loc.left)
      [] OTHER -> UNION {Assigned(loc.items[i]) : i \in 1..Len(loc.items)}

Legal(phrase, names) ==
    CASE phrase.k \in {"Numeral", "Identifier", "Empty_Phrase", "None", "Include_Phrase"} -> TRUE
      [] phrase.k \in {"Paren_Phrase", "Bracket_Phrase"} -> LegalAll(phrase.items, {})
      [] phrase.k = "Brace_Phrase" -> Legal(phrase.body, {})
      [] phrase.k = "Listing_Phrase" -> LegalSequence(phrase.args, names)
      [] phrase.k = "If_Phrase" ->
            Legal(phrase.condition, {}) /\ Legal(phrase.then, names) /\ Legal(phrase.else, names)
      [] phrase.k = "Let_Phrase" /\ phrase.let = "let" -> LegalBlock(phrase.bindings, phrase.body, names)
      [] phrase.k = "Let_Phrase" /\ phrase.let = "do" ->
            LET stmts == Members(phrase.bindings)
            IN LegalSequence(stmts, names) /\ Legal(phrase.body, names \cup Locals(stmts))
      [] phrase.k = "Let_Phrase" /\ phrase.let = "parametric" -> Legal(phrase.body, {})
      [] phrase.k = "Where_Phrase" -> LegalBlock(WhereBindings(phrase), WhereBody(phrase), names)
      [] phrase.k = "For_Phrase" ->
            LET inside == names \cup Bound(phrase.pattern)
            IN Legal(phrase.list, {}) /\ Legal(phrase.condition, inside) /\ Legal(phrase.body, inside)
      [] phrase.k = "While_Phrase" -> Legal(phrase.args, {}) /\ Legal(phrase.body, names)
      [] phrase.k = "Assignment_Phrase" -> Assigned(phrase.left) \subseteq names /\ Legal(phrase.right, {})
      [] phrase.k = "Mutate_Phrase" ->
            IF phrase.arg.k = "Mutate_Phrase" THEN Legal(phrase.arg, names) /\ Legal(phrase.function, {})
            ELSE Assigned(phrase.arg) \subseteq names /\ Legal(phrase.function, {})
      [] phrase.k \in {"Unary_Phrase", "Local_Phrase", "Test_Phrase"} -> Legal(phrase.arg, {})
      [] phrase.k \in {"Assoc", "Recursive_Definition_Phrase"} -> Legal(phrase.right, {})
      [] phrase.k = "Lambda_Phrase" -> Legal(phrase.right, {})
      [] phrase.k = "Dot_Phrase" -> Legal(phrase.left, {})
      [] phrase.k = "Call_Phrase" -> LegalAll(<<phrase.function, phrase.arg>>, {})
      [] phrase.k = "Predicate_Assertion_Phrase" -> LegalAll(<<phrase.arg, phrase.function>>, {})
      [] phrase.k = "Range_Phrase" -> LegalAll(<<phrase.first, phrase.last>>, {})
      [] phrase.k = "Binary_Phrase" -> LegalAll(<<phrase.left, phrase.right>>, {})
=============================================================================

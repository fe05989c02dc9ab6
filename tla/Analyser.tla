------------------------------ MODULE Analyser ------------------------------
(***************************************************************************)
(* The analyser (libcurv/analyser.cc, definition.cc, pattern.cc): a phrase *)
(* becomes an operation, in which a local variable is a slot of the frame. *)
(*                                                                         *)
(* An Environ is an entry of a table, and `parent' the index of another.   *)
(* The analysis state `s' is that table and the message of the first       *)
(* exception; what is analysed after an exception is of no account.        *)
(* An Interp is reduced to its edepth.                                     *)
(***************************************************************************)
EXTENDS Meanings, Environs

CONSTANT Builtins   \* the values of the builtin names

Environ(kind, parent, nslots, maxslots) ==
    [kind |-> kind, parent |-> parent, nslots |-> nslots, maxslots |-> maxslots,
     dictionary |-> [n \in {} |-> 0], unitOf |-> [n \in {} |-> 0],
     nonlocals |-> [n \in {} |-> None],
     shared |-> FALSE, isModule |-> FALSE, moduleSlot |-> NoSlot,
     units |-> <<>>, scc |-> <<>>, stack |-> <<>>, count |-> 0, actions |-> <<>>,
     home |-> 0, unit |-> 0]

Start == [env |-> <<Environ("builtin", 0, 0, 0)>>, error |-> ""]
Throw(s, message) == IF s.error = "" THEN [s EXCEPT !.error = message] ELSE s
Failed(s) == s.error # ""
Result(op, s) == [op |-> op, s |-> s]
\* A part of a pattern or of a definition becomes what its analysis has returned.
Put(x, part, r) == Result([x EXCEPT ![part] = r.op], r.s)

\* A child environment shares the frame of its parent, a lambda starts a frame.
Child(kind, e, s) == Environ(kind, e, s.env[e].nslots, s.env[e].maxslots)

AddBinding(name, unit, e, s) ==
    LET env == s.env[e]
        slot == IF env.isModule THEN Cardinality(DOMAIN env.dictionary) ELSE env.nslots
        s1 == IF env.isModule THEN s ELSE MakeSlot(e, s)
    IN IF name \in DOMAIN env.dictionary THEN Result(NoSlot, Throw(s, "multiply defined"))
       ELSE Result(slot, [s1 EXCEPT !.env[e].dictionary = (name :> slot) @@ @,
                                    !.env[e].unitOf = (name :> unit) @@ @])

\* The virtual functions of Phrase, Environ, Pattern and Definition call each other in
\* every way: all their recursion is that of Visit, which is defined last.
RECURSIVE Visit(_, _, _)
Analyse(phrase, e, depth, s) == Visit([at |-> "phrase", phrase |-> phrase, depth |-> depth], e, s)
Lookup(name, e, s) == Visit([at |-> "name", name |-> name], e, s)
AnalysePattern(p, e, s) == Visit([at |-> "pattern", pattern |-> p], e, s)
AnalyseSequential(def, e, s) == Visit([at |-> "definition", def |-> def], e, s)
AnalyseUnit(u, e, s) == Visit([at |-> "unit", unit |-> u], e, s).s

ExprDepth == 0
Bug_Deepen(depth) == depth
Deepen(depth) == depth + 1
AnalyseOp(phrase, e, s) == Analyse(phrase, e, ExprDepth, s)

\* The operations of several phrases, analysed from left to right.
AnalyseEach(phrases, e, depth, s) ==
    FoldLeft(LAMBDA r, phrase : LET a == Analyse(phrase, e, depth, r.s)
                                IN Result(Append(r.op, a.op), a.s), Result(<<>>, s), phrases)

-----------------------------------------------------------------------------
(* Patterns: made from a phrase, analysed, and then bound in a scope.      *)

IsPredicate(phrase) == phrase.k = "Predicate_Assertion_Phrase"
RECURSIVE IdentifierPattern(_), MakePattern(_), AddPattern(_, _, _, _)

\* The one identifier that a field pattern binds, or None.
IdentifierPattern(phrase) ==
    CASE phrase.k = "Identifier" -> IF phrase.name = "_" THEN None ELSE phrase
      [] IsPredicate(phrase) -> IdentifierPattern(phrase.arg)
      [] OTHER -> None

FieldPattern(item) ==
    LET Make(name, phrase, default) ==
            [name |-> name, pattern |-> MakePattern(phrase), default |-> default]
    IN CASE IdentifierPattern(item) # None -> Make(IdentifierPattern(item).name, item, None)
         [] item.k = "Assoc" ->
                IF item.right.k = "Recursive_Definition_Phrase"
                THEN Make(item.name, item.right.left, item.right.right)
                ELSE Make(item.name, item.right, None)
         [] item.k = "Recursive_Definition_Phrase" ->
                Make(IdentifierPattern(item.left).name, item.left, item.right)

Items(body) == IF body.k = "Listing_Phrase" THEN body.args ELSE
               IF body.k = "Empty_Phrase" THEN <<>> ELSE <<body>>

MakeEach(items) == [i \in 1..Len(items) |-> MakePattern(items[i])]

MakePattern(phrase) ==
    CASE phrase.k = "Numeral" -> [k |-> "Const_Pattern", value |-> phrase.value]
      [] phrase.k = "Identifier" ->
            IF phrase.name = "_" THEN [k |-> "Skip_Pattern"]
            ELSE [k |-> "Id_Pattern", name |-> phrase.name, slot |-> NoSlot]
      [] IsPredicate(phrase) ->
            [k |-> "Predicate_Pattern", pattern |-> MakePattern(phrase.arg),
             predicate |-> phrase.function]
      [] phrase.k \in {"Bracket_Phrase", "Paren_Phrase"} ->
            [k |-> "List_Pattern", items |-> MakeEach(phrase.items)]
      [] phrase.k = "Brace_Phrase" ->
            LET items == Items(phrase.body)
            IN [k |-> "Record_Pattern", items |-> [i \in 1..Len(items) |-> FieldPattern(items[i])]]
      [] OTHER -> [k |-> "Bad"]

VisitEach(One(_, _), items, s) ==
    FoldLeft(LAMBDA r, item : LET a == One(item, r.s) IN Result(Append(r.op, a.op), a.s),
             Result(<<>>, s), items)

VisitField(field, e, s) ==
    LET q == AnalysePattern(field.pattern, e, s)
        d == IF field.default.k = "None" THEN Result(None, q.s) ELSE AnalyseOp(field.default, e, q.s)
    IN Put([field EXCEPT !.pattern = q.op], "default", d)

VisitPattern(p, e, s) ==
    CASE p.k \in {"Skip_Pattern", "Id_Pattern", "Const_Pattern"} -> Result(p, s)
      [] p.k = "Bad" -> Result(p, Throw(s, "not a pattern"))
      [] p.k = "Predicate_Pattern" ->
            LET f == AnalyseOp(p.predicate, e, s)
            IN Put([p EXCEPT !.predicate = f.op], "pattern", AnalysePattern(p.pattern, e, f.s))
      [] p.k = "List_Pattern" ->
            Put(p, "items", VisitEach(LAMBDA item, t : AnalysePattern(item, e, t), p.items, s))
      [] p.k = "Record_Pattern" ->
            Put(p, "items", VisitEach(LAMBDA field, t : VisitField(field, e, t), p.items, s))

AddPattern(p, unit, e, s) ==
    CASE p.k \in {"Skip_Pattern", "Const_Pattern", "Bad"} -> Result(p, s)
      [] p.k = "Id_Pattern" -> Put(p, "slot", AddBinding(p.name, unit, e, s))
      [] p.k = "Predicate_Pattern" -> Put(p, "pattern", AddPattern(p.pattern, unit, e, s))
      [] p.k = "List_Pattern" ->
            Put(p, "items", VisitEach(LAMBDA item, t : AddPattern(item, unit, e, t), p.items, s))
      [] p.k = "Record_Pattern" ->
            Put(p, "items", VisitEach(LAMBDA field, t : Put(field, "pattern", AddPattern(field.pattern, unit, e, t)),
                                      p.items, s))

-----------------------------------------------------------------------------
(* Definitions (Phrase::as_definition), and the two ways to bind them.     *)

RECURSIVE AsDefinition(_), AddSequential(_, _, _), AddRecursive(_, _, _)

NotDefinition == [k |-> "NotDefinition"]
Mixed == [k |-> "Mixed"]

\* f x y = e defines the function f as x -> y -> e.
RECURSIVE DefinitionOf(_, _)
DefinitionOf(left, right) ==
    CASE left.k = "Identifier" /\ right.k = "Lambda_Phrase" ->
            [k |-> "Function_Definition", name |-> left.name, lambda |-> right, op |-> None,
             slot |-> NoSlot]
      [] left.k = "Call_Phrase" -> DefinitionOf(left.function, Lambda(left.arg, right))
      [] OTHER -> [k |-> "Data_Definition", pattern |-> MakePattern(left), phrase |-> right,
                   op |-> None]

Combine(defs) ==
    LET isDef == {i \in DOMAIN defs : defs[i].k # "NotDefinition"}
    IN CASE isDef = DOMAIN defs -> [k |-> "Compound_Definition", defs |-> defs]
         [] isDef = {} -> NotDefinition
         [] OTHER -> Mixed

AsCompound(args) ==
    LET real == SelectSeq(args, LAMBDA a : a.k # "Empty_Phrase")
    IN Combine([i \in DOMAIN real |-> AsDefinition(real[i])])

AsDefinition(phrase) ==
    CASE phrase.k = "Recursive_Definition_Phrase" -> DefinitionOf(phrase.left, phrase.right)
      [] phrase.k = "Include_Phrase" -> [k |-> "Include_Definition", name |-> phrase.name, op |-> None]
      [] phrase.k = "Test_Phrase" -> [k |-> "Test_Definition", phrase |-> phrase.arg, op |-> None]
      [] phrase.k = "Listing_Phrase" -> AsCompound(phrase.args)
      [] phrase.k = "Empty_Phrase" -> AsCompound(<<>>)
      [] OTHER -> NotDefinition

\* The fields of an included record are bound to slots when it is added to a scope.
AddInclude(def, unit, e, s) ==
    LET record == Builtins[def.name].rec
        Included(name, b) == Result([slot |-> b.op, value |-> record[name]], b.s)
        bound == VisitEach(LAMBDA name, r : Included(name, AddBinding(name, unit, e, r)),
                           SetToSeq(DOMAIN record), s)
    IN Result(IncludeSetter(NoSlot, bound.op), bound.s)

VisitDefinition(def, e, s) ==
    CASE def.k = "Data_Definition" ->
            LET p == AnalysePattern(def.pattern, e, s)
            IN Put([def EXCEPT !.pattern = p.op], "op", AnalyseOp(def.phrase, e, p.s))
      [] def.k = "Function_Definition" -> Put(def, "op", AnalyseOp(def.lambda, e, s))
      [] def.k = "Include_Definition" -> Result(def, s)
      [] def.k = "Test_Definition" -> Put(def, "op", AnalyseOp(def.phrase, e, s))
      [] def.k = "Compound_Definition" ->
            Put(def, "defs", VisitEach(LAMBDA d, t : AnalyseSequential(d, e, t), def.defs, s))
      [] OTHER -> Result(def, Throw(s, "not a definition"))

Compound(r) == Result(CompoundOp(r.op), r.s)
SequentialSetter(def, p) == Result(DataSetter(NoSlot, p.op, def.op), p.s)

AddSequential(def, e, s) ==
    CASE def.k = "Data_Definition" -> SequentialSetter(def, AddPattern(def.pattern, 0, e, s))
      [] def.k = "Function_Definition" ->
            SequentialSetter(def, AddPattern(MakePattern(Id(def.name)), 0, e, s))
      [] def.k = "Include_Definition" -> AddInclude(def, 0, e, s)
      [] def.k = "Test_Definition" -> Result(def.op, s)
      [] def.k = "Compound_Definition" ->
            Compound(VisitEach(LAMBDA d, t : AddSequential(d, e, t), def.defs, s))
      [] OTHER -> Result(Bad, s)

Unit(def) == [def |-> def, state |-> "not_analysed", ord |-> -1, low |-> -1,
              nonlocals |-> [n \in {} |-> None]]

AddUnit(e, r) == [r.s EXCEPT !.env[e].units = Append(@, Unit(r.op))]

AddRecursive(def, e, s) ==
    LET unit == Len(s.env[e].units) + 1
    IN CASE def.k = "Data_Definition" ->
                AddUnit(e, Put(def, "pattern", AddPattern(def.pattern, unit, e, s)))
         [] def.k = "Function_Definition" ->
                AddUnit(e, Put(def, "slot", AddBinding(def.name, unit, e, s)))
         [] def.k = "Include_Definition" -> AddUnit(e, Put(def, "op", AddInclude(def, unit, e, s)))
         [] def.k = "Test_Definition" -> AddUnit(e, Result(def, s))
         [] def.k = "Compound_Definition" ->
                FoldLeft(LAMBDA t, d : AddRecursive(d, e, t), s, def.defs)
         [] OTHER -> Throw(s, "not a definition")

-----------------------------------------------------------------------------
(* Recursive_Scope: a unit is analysed when it is first referred to.       *)

LambdaBody(pattern, right, scope) ==
    LET body == AnalyseOp(right, scope, pattern.s)
        done == body.s.env[scope]
    IN Result(LambdaExpr(pattern.op, body.op, done.nonlocals, done.maxslots), body.s)

AnalyseLambda(left, right, shared, e, s) ==
    LET opened == Open([Child("lambda", e, s) EXCEPT !.nslots = 0, !.maxslots = 0,
                                                     !.shared = shared], s)
        scope == Latest(opened)
        analysed == AnalysePattern(MakePattern(left), scope, opened)
    IN LambdaBody(AddPattern(analysed.op, 0, scope, analysed.s), right, scope)

IsFunction(unit) == unit.def.k = "Function_Definition"

SetFunction(u, e, f, r) ==
    LET max == r.s.env[f].maxslots
    IN IF Failed(r.s) THEN r.s
       ELSE [r.s EXCEPT !.env[e].units[u].def.op = r.op,
                        !.env[e].maxslots = IF @ < max THEN max ELSE @]

AnalyseFunction(u, e, s) ==
    LET opened == Open([Child("function", e, s) EXCEPT !.parent = s.env[e].parent,
                                                       !.home = e, !.unit = u], s)
        f == Latest(opened)
        lambda == s.env[e].units[u].def.lambda
    IN SetFunction(u, e, f, AnalyseLambda(lambda.left, lambda.right, TRUE, f, opened))

AnalyseData(u, e, s) ==
    LET def == s.env[e].units[u].def
        analysed == CASE def.k = "Data_Definition" -> AnalyseSequential(def, e, s)
                      [] def.k = "Test_Definition" -> AnalyseSequential(def, e, s)
                      [] OTHER -> Result(def, s)
    IN IF Failed(analysed.s) THEN analysed.s
       ELSE [analysed.s EXCEPT !.env[e].units[u].def = analysed.op]

\* The Lambda value of a function of a group, as it stands among the nonlocals.
LambdaValue(def) == Fun([k |-> "Lambda", pattern |-> def.op.pattern, body |-> def.op.body,
                         nslots |-> def.op.nslots])

FunctionSetter(us, e, s) ==
    LET env == s.env[e]
        def(i) == env.units[us[i]].def
        names == {def(i).name : i \in 1..Len(us)}
        lambda(n) == CHOOSE l \in {LambdaValue(def(i)) : i \in {j \in 1..Len(us) : def(j).name = n}} : TRUE
        others == FoldLeft(LAMBDA f, u : f @@ env.units[u].nonlocals, [n \in {} |-> None], us)
    IN FunctionSetterOp(env.moduleSlot, [n \in names |-> Constant(lambda(n))] @@ others,
                        [i \in 1..Len(us) |-> [slot |-> def(i).slot, lambda |-> LambdaValue(def(i)).fun]])

Setter(u, e, s) ==
    LET def == s.env[e].units[u].def
        moduleSlot == s.env[e].moduleSlot
    IN CASE def.k = "Data_Definition" -> DataSetter(moduleSlot, def.pattern, def.op)
         [] def.k = "Include_Definition" -> [def.op EXCEPT !.moduleSlot = moduleSlot]
         [] def.k = "Test_Definition" -> def.op

\* u is the lowest unit of its component, which lies on top of the SCC stack.
EmitComponent(u, e, s) ==
    LET scc == s.env[e].scc
        first == CHOOSE i \in 1..Len(scc) : scc[i] = u
        members == SubSeq(scc, first, Len(scc))
        mixed == \E i \in 2..Len(members) : ~IsFunction(s.env[e].units[members[i]])
        action == IF IsFunction(s.env[e].units[u]) THEN FunctionSetter(members, e, s)
                  ELSE Setter(u, e, s)
        done == [s EXCEPT !.env[e].actions = Append(@, action)]
    IN CASE ~IsFunction(s.env[e].units[u]) ->
                [done EXCEPT !.env[e].scc = Front(@), !.env[e].units[u].state = "analysed"]
         [] mixed -> Throw(s, "recursive data definition")
         [] OTHER ->
                [done EXCEPT !.env[e].scc = SubSeq(@, 1, first - 1),
                             !.env[e].units = [i \in DOMAIN @ |-> IF i \in Range(members)
                                                   THEN [@[i] EXCEPT !.state = "analysed"] ELSE @[i]]]

LinkParent(u, e, s) ==
    LET env == s.env[e]
        unit == env.units[u]
        parent == Last(env.stack)
    IN IF env.stack = <<>> \/ unit.low >= env.units[parent].low THEN s
       ELSE IF ~IsFunction(unit) THEN Throw(s, "illegal recursive reference")
       ELSE [s EXCEPT !.env[e].units[parent].low = unit.low]

AnalyseParts(u, e, s) ==
    IF IsFunction(s.env[e].units[u]) THEN AnalyseFunction(u, e, s) ELSE AnalyseData(u, e, s)

PopUnit(u, e, s) ==
    IF Failed(s) THEN s ELSE LinkParent(u, e, [s EXCEPT !.env[e].stack = Front(@)])

EndUnit(u, e, s) ==
    LET unit == s.env[e].units[u]
    IN IF Failed(s) \/ unit.low # unit.ord THEN s ELSE EmitComponent(u, e, s)

AnalyseNewUnit(u, e, s) ==
    LET ord == s.env[e].count
        begun == [s EXCEPT !.env[e].units[u].state = "in_progress",
                           !.env[e].units[u].ord = ord, !.env[e].units[u].low = ord,
                           !.env[e].count = ord + 1,
                           !.env[e].scc = Append(@, u), !.env[e].stack = Append(@, u)]
    IN EndUnit(u, e, PopUnit(u, e, AnalyseParts(u, e, begun)))

VisitUnit(u, e, s) ==
    LET unit == s.env[e].units[u]
        parent == Last(s.env[e].stack)
    IN CASE Failed(s) -> s
         [] unit.state = "not_analysed" -> AnalyseNewUnit(u, e, s)
         [] unit.state = "in_progress" /\ ~IsFunction(unit) ->
                Throw(s, "illegal recursive reference")
         [] unit.state = "in_progress" /\ IsFunction(unit) ->
                [s EXCEPT !.env[e].units[parent].low = IF @ < unit.ord THEN @ ELSE unit.ord]
         [] OTHER -> s

\* All units of a scope, in the order of the source.
AnalyseScope(e, s) ==
    LET done == FoldLeft(LAMBDA t, u : IF t.env[e].units[u].state = "not_analysed"
                                       THEN AnalyseUnit(u, e, t) ELSE t,
                         s, [u \in 1..Len(s.env[e].units) |-> u])
    IN CloseScope(s.env[e].parent, e, done)

OpenRecursive(isModule, e, s) ==
    LET opened == Open([Child("recursive", e, s) EXCEPT !.isModule = isModule], s)
        scope == Latest(opened)
    IN IF ~isModule THEN opened
       ELSE [MakeSlot(scope, opened) EXCEPT !.env[scope].moduleSlot = s.env[e].nslots]

Executable(e, s) == ScopeExecutable(s.env[e].moduleSlot, s.env[e].dictionary, s.env[e].actions)

-----------------------------------------------------------------------------
(* Names.  None means that the environ does not define the name.           *)

RecursiveLookup(name, e, s) ==
    LET env == s.env[e]
    IN IF name \notin DOMAIN env.dictionary THEN Result(None, s)
       ELSE Result(IF env.isModule
                   THEN ModuleRef(env.moduleSlot, env.dictionary[name])
                   ELSE LocalRef(env.dictionary[name]),
                   AnalyseUnit(env.unitOf[name], e, s))

FunctionLookup(name, e, s) ==
    LET env == s.env[e]
        found == Lookup(name, env.home, s)
    IN IF Failed(found.s) \/ IsConstant(found.op) \/ ~IsOperation(found.op) THEN found
       ELSE Result(SymbolicRef(name),
                   [found.s EXCEPT !.env[env.home].units[env.unit].nonlocals =
                                        (name :> found.op) @@ @])

\* The lambda of a recursive function shares the nonlocals of its function environ.
LambdaLookup(name, e, s) ==
    LET env == s.env[e]
        found == Lookup(name, env.parent, s)
    IN CASE name \in DOMAIN env.dictionary -> Result(LocalRef(env.dictionary[name]), s)
         [] env.shared -> FunctionLookup(name, env.parent, s)
         [] name \in DOMAIN env.nonlocals -> Result(NonlocalRef(name), s)
         [] Failed(found.s) \/ IsConstant(found.op) \/ ~IsOperation(found.op) -> found
         [] OTHER -> Result(NonlocalRef(name),
                            [found.s EXCEPT !.env[e].nonlocals = (name :> found.op) @@ @])

BuiltinMeaning(name) ==
    LET v == Builtins[name] IN IF "meta" \in DOMAIN v THEN Metafunction(name) ELSE Constant(v)

SingleLookup(name, e, s) ==
    LET env == s.env[e]
    IN CASE env.kind = "builtin" ->
                Result(IF name \in DOMAIN Builtins THEN BuiltinMeaning(name) ELSE None, s)
         [] env.kind = "sequential" ->
                Result(IF name \in DOMAIN env.dictionary THEN LocalRef(env.dictionary[name])
                       ELSE None, s)
         [] env.kind = "lambda" -> LambdaLookup(name, e, s)
         [] env.kind = "recursive" -> RecursiveLookup(name, e, s)
         [] env.kind = "function" -> FunctionLookup(name, e, s)

VisitName(name, e, s) ==
    IF e = 0 THEN Result(Bad, Throw(s, "not defined"))
    ELSE LET found == SingleLookup(name, e, s)
         IN IF Failed(found.s) \/ found.op.k # "None" THEN found
            ELSE Lookup(name, s.env[e].parent, found.s)

\* What an environ says of a name to the left of :=.
Unassignable(known) ==
    IF Failed(known.s) \/ known.op.k = "None" THEN known
    ELSE Result(Bad, Throw(known.s, "not assignable"))

SingleLvar(name, e, s) ==
    LET env == s.env[e]
    IN CASE env.kind \in {"sequential", "recursive"} /\ name \notin DOMAIN env.dictionary ->
                Result(None, s)
         [] env.kind = "sequential" \/ (env.kind = "recursive" /\ ~env.isModule) ->
                Result(LocalLocative(env.dictionary[name]), s)
         [] OTHER -> Unassignable(SingleLookup(name, e, s))

RECURSIVE LookupLvar(_, _, _, _)
FoundLvar(name, e, depth, found) ==
    CASE Failed(found.s) -> found
      [] found.op.k = "None" ->
            LookupLvar(name, found.s.env[e].parent, IF depth > 0 THEN depth - 1 ELSE 0, found.s)
      [] depth > 0 -> found
      [] OTHER -> Result(Bad, Throw(found.s, "not assignable from inside an expression"))

LookupLvar(name, e, depth, s) ==
    IF e = 0 THEN Result(Bad, Throw(s, "not defined"))
    ELSE FoundLvar(name, e, depth, SingleLvar(name, e, s))

-----------------------------------------------------------------------------
(* Statements and scopes.                                                  *)

BindLocal(d, scope) == AddSequential(d.op, scope, d.s)

AnalyseStmt(stmt, scope, depth, s) ==
    IF stmt.k # "Local_Phrase" THEN Analyse(stmt, scope, depth, s)
    ELSE BindLocal(AnalyseSequential(AsDefinition(stmt.arg), scope, s), scope)

AnalyseStmts(stmts, scope, depth, s) ==
    Compound(VisitEach(LAMBDA stmt, t : AnalyseStmt(stmt, scope, depth, t), stmts, s))

DoBody(phrase, e, scope, depth, actions) ==
    LET body == Analyse(phrase.body, scope, Deepen(depth), actions.s)
    IN Result(DoExpr(actions.op, body.op), CloseScope(e, scope, body.s))

AnalyseDo(phrase, e, depth, s) ==
    LET opened == Open(Child("sequential", e, s), s)
        scope == Latest(opened)
    IN DoBody(phrase, e, scope, depth,
              AnalyseStmts(Items(phrase.bindings), scope, Deepen(depth), opened))

Leave(e, scope, r) == Result(r.op, CloseScope(e, scope, r.s))

AnalyseListing(phrase, e, depth, s) ==
    LET opened == Open(Child("sequential", e, s), s)
        scope == Latest(opened)
    IN Leave(e, scope, AnalyseStmts(phrase.args, scope, Deepen(depth), opened))

\* A let or where phrase, given the definitions that it binds.
BlockBody(phrase, e, scope, depth, s) ==
    LET body == Analyse(phrase, scope, Deepen(depth), s)
    IN Result(BlockOp(Executable(scope, body.s), body.op), CloseScope(e, scope, body.s))

AnalyseBlock(defs, body, e, depth, s) ==
    LET opened == OpenRecursive(FALSE, e, s)
        scope == Latest(opened)
        bound == FoldLeft(LAMBDA t, d : AddRecursive(d, scope, t), opened, defs)
    IN BlockBody(body, e, scope, depth, AnalyseScope(scope, bound))

\* (let a in b where c) binds the definitions of a and of c together.
AnalyseWhere(phrase, e, depth, s) ==
    LET left == phrase.left
        right == AsDefinition(phrase.right)
    IN IF left.k = "Let_Phrase" /\ left.let = "let"
       THEN AnalyseBlock(<<AsDefinition(left.bindings), right>>, left.body, e, depth, s)
       ELSE AnalyseBlock(<<right>>, left, e, depth, s)

AnalyseParametric(phrase, e, s) ==
    LET ctor == AnalyseLambda(Brace(phrase.bindings), phrase.body, FALSE, e, s)
    IN Result(ParametricExpr(ctor.op), ctor.s)

AnalyseLet(phrase, e, depth, s) ==
    CASE phrase.let = "parametric" -> AnalyseParametric(phrase, e, s)
      [] phrase.let = "do" -> AnalyseDo(phrase, e, depth, s)
      [] phrase.let = "let" -> AnalyseBlock(<<AsDefinition(phrase.bindings)>>, phrase.body, e, depth, s)

ModuleOf(scope, s) == Result(ModuleExpr(Executable(scope, s)), s)

AnalyseModule(def, e, s) ==
    LET opened == OpenRecursive(TRUE, e, s)
        scope == Latest(opened)
    IN ModuleOf(scope, AnalyseScope(scope, AddRecursive(def, scope, opened)))

AnalyseBrace(phrase, e, s) ==
    LET def == AsDefinition(phrase.body)
        fields == AnalyseOp(phrase.body, e, s)
    IN CASE def.k = "Mixed" -> Result(Bad, Throw(s, "definitions cannot be mixed with statements"))
         [] def.k = "NotDefinition" -> Result(RecordExpr(fields.op), fields.s)
         [] OTHER -> AnalyseModule(def, e, s)

ForBody(phrase, e, scope, depth, list, pattern) ==
    LET cond == IF phrase.condition.k = "None" THEN Result(None, pattern.s)
                ELSE Analyse(phrase.condition, scope, Deepen(depth), pattern.s)
        body == Analyse(phrase.body, scope, Deepen(depth), cond.s)
    IN Result(ForOp(pattern.op, list, cond.op, body.op), CloseScope(e, scope, body.s))

AnalyseFor(phrase, e, depth, s) ==
    LET opened == Open(Child("sequential", e, s), s)
        scope == Latest(opened)
        analysed == AnalysePattern(MakePattern(phrase.pattern), e, opened)
        list == AnalyseOp(phrase.list, e, analysed.s)
    IN ForBody(phrase, e, scope, depth, list.op, AddPattern(analysed.op, 0, scope, list.s))

AnalyseIf(phrase, e, depth, s) ==
    LET cond == AnalyseOp(phrase.condition, e, s)
        then == Analyse(phrase.then, e, depth, cond.s)
        else == Analyse(phrase.else, e, depth, then.s)
    IN IF phrase.else.k = "None"
       THEN Result(IfOp(cond.op, then.op), then.s)
       ELSE Result(IfElseOp(cond.op, then.op, else.op), else.s)

AnalyseWhile(phrase, e, depth, s) ==
    LET cond == AnalyseOp(phrase.args, e, s)
        body == Analyse(phrase.body, e, depth, cond.s)
    IN Result(WhileOp(cond.op, body.op), body.s)

\* The phrase to the left of := or !.
RECURSIVE AnalyseLocative(_, _, _, _)
AnalyseLocative(phrase, e, depth, s) ==
    CASE phrase.k = "Identifier" -> LookupLvar(phrase.name, e, depth, s)
      [] phrase.k = "Bracket_Phrase" ->
            LET r == VisitEach(LAMBDA item, t : AnalyseLocative(item, e, depth, t), phrase.items, s)
            IN Result(ListLocative(r.op), r.s)
      [] phrase.k = "Dot_Phrase" ->
            LET base == AnalyseLocative(phrase.left, e, depth, s)
            IN Result(IndexedLocative(base.op, phrase.name), base.s)
      [] OTHER -> Result(Bad, Throw(s, "not a locative"))

AnalyseAssignment(phrase, e, depth, s) ==
    LET loc == AnalyseLocative(phrase.left, e, depth, s)
        right == AnalyseOp(phrase.right, e, loc.s)
    IN Result(AssignmentAction(loc.op, right.op), right.s)

\* a ! f ! g, which parses as (a ! f) ! g, mutates a by f and then by g.
RECURSIVE AnalyseMutate(_, _, _, _)
Mutation(phrase, nested, inner, e) ==
    LET function == AnalyseOp(phrase.function, e, inner.s)
    IN Result(IF nested THEN MutateAction(inner.op.locative, Append(inner.op.functions, function.op))
              ELSE MutateAction(inner.op, <<function.op>>),
              function.s)

AnalyseMutate(phrase, e, depth, s) ==
    LET nested == phrase.arg.k = "Mutate_Phrase"
    IN Mutation(phrase, nested,
                IF nested THEN AnalyseMutate(phrase.arg, e, depth, s)
                ELSE AnalyseLocative(phrase.arg, e, depth, s), e)

\* Phrases whose operands are analysed in order as expressions.
Operator(kind, left, right, e, s) ==
    LET r == AnalyseEach(<<left, right>>, e, ExprDepth, s)
    IN Result(Binary(kind, r.op[1], r.op[2]), r.s)

AnalyseItems(kind, items, e, s) ==
    LET r == AnalyseEach(items, e, ExprDepth, s) IN Result(ListExpr(kind, r.op), r.s)

AnalyseRange(phrase, e, s) ==
    Operator(IF phrase.halfOpen THEN "Open_Range_Expr" ELSE "Range_Expr",
             phrase.first, phrase.last, e, s)

\* An exception in the analysis of the second argument becomes a message to compare.
AnalyseAssertError(arg, e, s) ==
    LET expected == AnalyseOp(arg.items[1], e, s)
        expr == AnalyseOp(arg.items[2], e, expected.s)
    IN CASE arg.k \notin {"Paren_Phrase", "Bracket_Phrase"} \/ Len(arg.items) # 2 ->
                Result(Bad, Throw(s, "expecting 2 arguments"))
         [] Failed(expected.s) -> expected
         [] Failed(expr.s) -> Result(AssertError(expected.op, expr.s.error, None),
                                     [expr.s EXCEPT !.error = ""])
         [] OTHER -> Result(AssertError(expected.op, "", expr.op), expr.s)

AnalyseDefined(arg, e, s) ==
    LET r == AnalyseOp(arg, e, s)
    IN IF Failed(r.s) \/ r.op.k # "Dot_Expr"
       THEN Result(Bad, Throw(r.s, "argument must be expression.identifier"))
       ELSE Result(DefinedExpr(r.op.arg, r.op.name), r.s)

\* Metafunction::call
CallMetafunction(name, arg, e, s) ==
    LET r == AnalyseOp(arg, e, s)
    IN CASE name = "assert_error" -> AnalyseAssertError(arg, e, s)
         [] name = "defined" -> AnalyseDefined(arg, e, s)
         [] OTHER -> Result(MetaAction(name, r.op), r.s)

AnalyseCall(phrase, e, s) ==
    LET m == IF phrase.function.k = "Identifier" THEN Lookup(phrase.function.name, e, s)
             ELSE AnalyseOp(phrase.function, e, s)
        arg == AnalyseOp(phrase.arg, e, m.s)
    IN IF m.op.k = "Metafunction" THEN CallMetafunction(m.op.name, phrase.arg, e, m.s)
       ELSE Result(Binary("Call_Expr", m.op, arg.op), arg.s)

\* Metafunction::to_operation: `error' alone is a function.
ToOperation(r) ==
    CASE IsOperation(r.op) -> r
      [] r.op.name = "error" -> Result(Constant(Fun([k |-> "Builtin", name |-> "error"])), r.s)
      [] OTHER -> Result(Bad, Throw(r.s, "must be called with an argument"))
AnalyseAssertion(phrase, e, s) ==
    Operator("Predicate_Assertion_Expr", phrase.arg, phrase.function, e, s)

AnalyseSpread(phrase, e, s) ==
    LET r == AnalyseOp(phrase.arg, e, s) IN Result(SpreadOp(r.op), r.s)
AnalyseDot(phrase, e, s) ==
    LET r == AnalyseOp(phrase.left, e, s) IN Result(DotExpr(r.op, phrase.name), r.s)
AnalyseAssoc(phrase, e, s) ==
    LET r == AnalyseOp(phrase.right, e, s) IN Result(AssocOp(phrase.name, r.op), r.s)

\* A definition or a `local' is not an operation.
AnalyseOther(s) == Result(Bad, Throw(s, "not an expression or statement"))

VisitPhrase(phrase, e, depth, s) ==
    CASE Failed(s) -> Result(Bad, s)
      [] phrase.k = "Empty_Phrase" -> Result(NullAction, s)
      [] phrase.k = "Numeral" -> Result(Constant(phrase.value), s)
      [] phrase.k = "Identifier" -> ToOperation(Lookup(phrase.name, e, s))
      [] phrase.k = "Binary_Phrase" -> Operator(phrase.op, phrase.left, phrase.right, e, s)
      [] phrase.k = "Call_Phrase" -> AnalyseCall(phrase, e, s)
      [] phrase.k = "Range_Phrase" -> AnalyseRange(phrase, e, s)
      [] phrase.k = "Paren_Phrase" -> AnalyseItems("Paren_List_Expr", phrase.items, e, s)
      [] phrase.k = "Bracket_Phrase" -> AnalyseItems("List_Expr", phrase.items, e, s)
      [] phrase.k = "Unary_Phrase" -> AnalyseSpread(phrase, e, s)
      [] phrase.k = "Dot_Phrase" -> AnalyseDot(phrase, e, s)
      [] phrase.k = "Assoc" -> AnalyseAssoc(phrase, e, s)
      [] phrase.k = "Lambda_Phrase" -> AnalyseLambda(phrase.left, phrase.right, FALSE, e, s)
      [] phrase.k = "Brace_Phrase" -> AnalyseBrace(phrase, e, s)
      [] phrase.k = "Listing_Phrase" -> AnalyseListing(phrase, e, depth, s)
      [] phrase.k = "If_Phrase" -> AnalyseIf(phrase, e, depth, s)
      [] phrase.k = "Let_Phrase" -> AnalyseLet(phrase, e, depth, s)
      [] phrase.k = "Where_Phrase" -> AnalyseWhere(phrase, e, depth, s)
      [] phrase.k = "For_Phrase" -> AnalyseFor(phrase, e, depth, s)
      [] phrase.k = "While_Phrase" -> AnalyseWhile(phrase, e, depth, s)
      [] phrase.k = "Assignment_Phrase" -> AnalyseAssignment(phrase, e, depth, s)
      [] phrase.k = "Mutate_Phrase" -> AnalyseMutate(phrase, e, depth, s)
      [] IsPredicate(phrase) -> AnalyseAssertion(phrase, e, s)
      [] OTHER -> AnalyseOther(s)

Visit(task, e, s) ==
    CASE task.at = "phrase" -> VisitPhrase(task.phrase, e, task.depth, s)
      [] task.at = "name" -> VisitName(task.name, e, s)
      [] task.at = "pattern" -> VisitPattern(task.pattern, e, s)
      [] task.at = "definition" -> VisitDefinition(task.def, e, s)
      [] task.at = "unit" -> Result(None, VisitUnit(task.unit, e, s))

\* Program::compile: the module or the operation, the size of the program's frame,
\* and the message of an exception.
Program(isModule, r) ==
    [op |-> r.op, isModule |-> isModule, nslots |-> r.s.env[1].maxslots, error |-> r.s.error]

Compile(phrase) ==
    LET def == AsDefinition(phrase)
    IN CASE def.k = "Mixed" ->
                Program(FALSE, Result(Bad, Throw(Start, "definitions cannot be mixed with statements")))
         [] def.k = "NotDefinition" -> Program(FALSE, Analyse(phrase, 1, ExprDepth, Start))
         [] OTHER -> Program(TRUE, AnalyseModule(def, 1, Start))
=============================================================================

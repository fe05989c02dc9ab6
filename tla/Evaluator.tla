----------------------------- MODULE Evaluator -----------------------------
(***************************************************************************)
(* The evaluator (libcurv/evaluator.cc, function.cc, module.cc): runs      *)
(* operations in a frame.  An operation returns a value and the frame as   *)
(* it leaves it; `fault' is the first thing that went wrong: the message   *)
(* of an exception, "error" if it is not the program's own, or "slot" for  *)
(* a slot outside of the frame, "unset" for a slot read before it is set,  *)
(* "nonlocals" for a nonlocal of a frame that has none.  `depth' counts    *)
(* the frames on the C++ stack, `peak' the most there have been.           *)
(***************************************************************************)
EXTENDS Meanings

CONSTANT SymbolOrder    \* the field names in the order of Symbol_Ref::cmp

NoNonlocals == [k |-> "no nonlocals"]
MaxOf(a, b) == IF a < b THEN b ELSE a

Frame(nslots, depth) ==
    [slots |-> [i \in 1..nslots |-> Missing], nonlocals |-> NoNonlocals,
     depth |-> depth, peak |-> depth, fault |-> ""]

Fault(fm, what) == IF fm.fault = "" THEN [fm EXCEPT !.fault = what] ELSE fm
Faulty(fm) == fm.fault # ""
Value(v, fm) == [v |-> v, fm |-> fm]
Error(fm) == Value(Missing, Fault(fm, "error"))

-----------------------------------------------------------------------------
(* Slots and modules.  A module under construction is the value of a slot. *)

Fetch(slot, fm) ==
    CASE slot >= Len(fm.slots) -> Value(Missing, Fault(fm, "slot"))
      [] fm.slots[slot + 1] = Missing -> Value(Missing, Fault(fm, "unset"))
      [] OTHER -> Value(fm.slots[slot + 1], fm)

\* The slots of a setter are those of the frame, or of the module in moduleSlot.
Store(moduleSlot, slot, v, fm) ==
    CASE moduleSlot # NoSlot ->
            [fm EXCEPT !.slots[moduleSlot + 1].module[slot + 1] = v]
      [] moduleSlot = NoSlot /\ slot < Len(fm.slots) -> [fm EXCEPT !.slots[slot + 1] = v]
      [] OTHER -> Fault(fm, "slot")

Closure(lambda, nonlocals) ==
    [k |-> "Closure", pattern |-> lambda.pattern, body |-> lambda.body,
     nslots |-> lambda.nslots, nonlocals |-> nonlocals]

\* Module_Base::get: a Lambda among the nonlocals stands for a recursive function.
GetNonlocal(name, nonlocals) ==
    LET v == nonlocals[name]
    IN IF IsFun(v) /\ v.fun.k = "Lambda" THEN Fun(Closure(v.fun, nonlocals)) ELSE v

-----------------------------------------------------------------------------
(* Executors: what a statement may produce.                                *)

Action == [k |-> "action"]
ListOf(s) == [k |-> "list", list |-> s]
RecordOf(f) == [k |-> "record", rec |-> f]
Done(fm, ex) == [fm |-> fm, ex |-> ex]

PushField(name, v, fm, ex) ==
    CASE Faulty(fm) -> Done(fm, ex)
      [] ex.k = "list" -> Done(fm, ListOf(Append(ex.list, List(<<Sym(name), v>>))))
      [] ex.k = "record" -> Done(fm, RecordOf((name :> v) @@ ex.rec))
      [] OTHER -> Done(Fault(fm, "error"), ex)

IsPair(v) == IsList(v) /\ Len(v.list) = 2 /\ "sym" \in DOMAIN v.list[1]

PushValue(v, fm, ex) ==
    CASE Faulty(fm) -> Done(fm, ex)
      [] ex.k = "list" -> Done(fm, ListOf(Append(ex.list, v)))
      [] ex.k = "record" /\ IsPair(v) -> PushField(v.list[1].sym, v.list[2], fm, ex)
      [] OTHER -> Done(Fault(fm, "error"), ex)

-----------------------------------------------------------------------------
\* The virtual functions of Operation, Function and Pattern call each other in every
\* way: all their recursion is that of Perform, which is defined last.
RECURSIVE Perform(_, _)
Eval(op, fm) == Perform([do |-> "eval", op |-> op], fm)
Exec(op, fm, ex) == Perform([do |-> "exec", op |-> op, ex |-> ex], fm)
TailEval(op, fm) == Perform([do |-> "tail_eval", op |-> op], fm)
CallIn(f, arg, soft, fm) == Perform([do |-> "call", f |-> f, arg |-> arg, soft |-> soft], fm)
TailCall(f, arg, fm) == Perform([do |-> "tail_call", f |-> f, arg |-> arg], fm)
MatchPattern(p, moduleSlot, v, soft, fm) ==
    Perform([do |-> "match", pattern |-> p, moduleSlot |-> moduleSlot, v |-> v, soft |-> soft], fm)

\* The values of several operations, from left to right.
EvalEach(ops, fm) ==
    FoldLeft(LAMBDA r, op : LET a == Eval(op, r.fm) IN Value(Append(r.v, a.v), a.fm), Value(<<>>, fm), ops)

ExecEach(ops, fm, ex) ==
    FoldLeft(LAMBDA r, op : Exec(op, r.fm, r.ex), Done(fm, ex), ops)

Ops(op) == <<op.arg1, op.arg2>>

-----------------------------------------------------------------------------
(* Calls.                                                                  *)

\* The function that a value stands for: a record may have a field `call'.
RECURSIVE FunctionOf(_)
FunctionOf(v) ==
    CASE IsFun(v) -> v.fun
      [] IsRec(v) /\ "call" \in DOMAIN v.rec -> FunctionOf(v.rec["call"])
      [] OTHER -> [k |-> "not a function"]

RECURSIVE Slots(_)
Slots(f) ==
    CASE f.k = "Closure" -> f.nslots
      [] f.k \in {"Piecewise", "Composite"} ->
            FoldLeft(LAMBDA max, c : MaxOf(max, Slots(c)), 0, f.cases)
      [] f.k \in {"Curried", "Partial"} -> f.nargs
      [] f.k = "Parametric_Ctor" -> f.ctor.nslots
      [] OTHER -> 1

Returned(r, fm) == Value(r.v, [fm EXCEPT !.fault = IF @ = "" THEN r.fm.fault ELSE @,
                                         !.peak = MaxOf(@, r.fm.peak)])

\* A call from native code: the function runs in a frame of its own.
NewFrame(f, fm) == Frame(Slots(f), fm.depth + 1)
CallFunction(f, arg, fm) == Returned(CallIn(f, arg, FALSE, NewFrame(f, fm)), fm)

\* call_func: in the new frame, the tail calls of the function replace the frame.
CallFunc(func, arg, fm) ==
    LET f == FunctionOf(func)
    IN CASE Faulty(fm) -> Value(Missing, fm)
         [] f.k = "not a function" -> Error(fm)
         [] OTHER -> Returned(TailCall(f, arg, NewFrame(f, fm)), fm)

Bug_TailFrame(f, fm) == [Frame(Slots(f), fm.depth + 1) EXCEPT !.peak = MaxOf(@, fm.peak)]

TailFrame(f, fm) == [Frame(Slots(f), fm.depth) EXCEPT !.peak = fm.peak]

TailCallFunc(func, arg, fm) ==
    LET f == FunctionOf(func)
    IN CASE Faulty(fm) -> Value(Missing, fm)
         [] f.k = "not a function" -> Error(fm)
         [] OTHER -> TailCall(f, arg, TailFrame(f, fm))

\* The record of parameters of a parametric record, with some of them replaced.
CallParametric(f, arg, soft, fm) ==
    LET fits == IsRec(arg) /\ DOMAIN arg.rec \subseteq DOMAIN f.default
        all == arg.rec @@ f.default
        r == CallIn(f.ctor, Rec(all), soft, fm)
    IN CASE ~fits -> IF soft THEN Value(Missing, fm) ELSE Error(fm)
         [] Faulty(r.fm) \/ r.v = Missing -> r
         [] ~IsRec(r.v) -> Error(r.fm)
         [] OTHER -> Value(Rec(("call" :> Fun(f.ctor)) @@ ("argument" :> Rec(all)) @@ r.v.rec), r.fm)

\* Curried_Function::call and Partial_Application_Base::call.
CallCurried(f, arg, fm) ==
    LET args == Append(f.args, arg)
    IN IF Len(args) < f.nargs THEN Value(Fun([f EXCEPT !.k = "Partial", !.args = args]), fm)
       ELSE LET filled == [fm EXCEPT !.slots = [i \in DOMAIN @ |-> IF i <= f.nargs THEN args[i] ELSE @[i]]]
            IN Value(List([i \in 1..f.nargs |-> filled.slots[i]]), filled)

\* Error_Function::call and Error_Operation::run
Raise(message, fm) == Value(Missing, Fault(fm, IF IsStr(message) THEN message.str ELSE "error"))

CallBuiltin(f, arg, soft, fm) ==
    CASE f.name = "is_num" -> Value(Bool(IsNum(arg)), fm)
      [] f.name = "error" -> IF soft THEN Value(Missing, fm) ELSE Raise(arg, fm)
      [] f.name = "match" -> Value(Fun([k |-> "Piecewise", cases |-> [i \in DOMAIN arg.list |-> FunctionOf(arg.list[i])]]), fm)
      [] f.name = "compose" -> Value(Fun([k |-> "Composite", cases |-> [i \in DOMAIN arg.list |-> FunctionOf(arg.list[i])]]), fm)

\* Closure::call and try_exec: the argument is matched, then the body evaluated.
Enter(f, arg, soft, fm) == MatchPattern(f.pattern, NoSlot, arg, soft, [fm EXCEPT !.nonlocals = f.nonlocals])

CallComposite(fs, arg, soft, fm) ==
    FoldLeft(LAMBDA r, f : IF Faulty(r.fm) \/ r.v = Missing THEN r ELSE CallIn(f, r.v, soft, r.fm),
             Value(arg, fm), fs)

RECURSIVE CallCases(_, _, _, _)
CallCases(fs, arg, soft, fm) ==
    LET r == CallIn(Head(fs), arg, TRUE, fm)
    IN CASE fs = <<>> -> IF soft THEN Value(Missing, fm) ELSE Error(fm)
         [] Faulty(r.fm) \/ r.v # Missing -> r
         [] OTHER -> CallCases(Tail(fs), arg, soft, r.fm)

\* Function::call: the value is Missing when a soft call does not match.
PerformCall(f, arg, soft, fm) ==
    CASE f.k = "Closure" ->
            LET entered == Enter(f, arg, soft, fm)
            IN IF ~entered.v THEN Value(Missing, entered.fm) ELSE Eval(f.body, entered.fm)
      [] f.k = "Piecewise" -> CallCases(f.cases, arg, soft, fm)
      [] f.k = "Composite" -> CallComposite(f.cases, arg, soft, fm)
      [] f.k \in {"Curried", "Partial"} -> CallCurried(f, arg, fm)
      [] f.k = "Parametric_Ctor" -> CallParametric(f, arg, soft, fm)
      [] f.k = "Builtin" -> CallBuiltin(f, arg, soft, fm)
      [] OTHER -> Error(fm)

RECURSIVE TailCases(_, _, _)
TailCases(fs, arg, fm) ==
    LET f == Head(fs)
        entered == Enter(f, arg, TRUE, fm)
        r == CallIn(f, arg, TRUE, fm)
    IN CASE fs = <<>> -> Error(fm)
         [] f.k = "Closure" -> IF entered.v THEN TailEval(f.body, entered.fm)
                               ELSE TailCases(Tail(fs), arg, entered.fm)
         [] f.k = "Piecewise" -> TailCases(f.cases \o Tail(fs), arg, fm)
         [] OTHER -> IF Faulty(r.fm) \/ r.v # Missing THEN r ELSE TailCases(Tail(fs), arg, r.fm)

\* Function::tail_call
PerformTailCall(f, arg, fm) ==
    CASE f.k = "Closure" ->
            LET entered == Enter(f, arg, FALSE, fm)
            IN IF Faulty(entered.fm) THEN Value(Missing, entered.fm) ELSE TailEval(f.body, entered.fm)
      [] f.k = "Piecewise" -> TailCases(f.cases, arg, fm)
      [] OTHER -> CallIn(f, arg, FALSE, fm)

-----------------------------------------------------------------------------
(* Patterns: exec, and try_exec when soft.  The value tells if it matches. *)

Mismatch(soft, fm) == IF soft THEN Value(FALSE, fm) ELSE Value(FALSE, Fault(fm, "error"))

MatchPredicate(p, moduleSlot, v, soft, fm) ==
    LET f == Eval(p.predicate, fm)
        r == CallFunction(FunctionOf(f.v), v, f.fm)
    IN CASE Faulty(r.fm) -> Value(FALSE, r.fm)
         [] ~IsBool(r.v) -> Value(FALSE, Fault(r.fm, "error"))
         [] ~r.v.bool -> Mismatch(soft, r.fm)
         [] OTHER -> MatchPattern(p.pattern, moduleSlot, v, soft, r.fm)

MatchList(p, moduleSlot, v, soft, fm) ==
    IF ~IsList(v) \/ Len(v.list) # Len(p.items) THEN Mismatch(soft, fm)
    ELSE FoldLeft(LAMBDA r, i : IF ~r.v THEN r
                                ELSE MatchPattern(p.items[i], moduleSlot, v.list[i], soft, r.fm),
                  Value(TRUE, fm), [i \in 1..Len(p.items) |-> i])

\* One name of the record or of the pattern; the names are met in order.
MatchField(p, moduleSlot, v, soft, name, r) ==
    LET fields == {i \in 1..Len(p.items) : p.items[i].name = name}
        field == p.items[CHOOSE i \in fields : TRUE]
        default == Eval(field.default, r.fm)
        Sub(w, fm) == MatchPattern(field.pattern, moduleSlot, w, soft, fm)
        matched == IF name \in DOMAIN v.rec THEN Sub(v.rec[name], r.fm) ELSE Sub(default.v, default.fm)
    IN CASE Faulty(r.fm) -> r
         [] fields = {} \/ (name \notin DOMAIN v.rec /\ field.default.k = "None") -> Mismatch(soft, r.fm)
         [] OTHER -> Value(r.v, matched.fm)

MatchRecord(p, moduleSlot, v, soft, fm) ==
    LET names == DOMAIN v.rec \cup {p.items[i].name : i \in 1..Len(p.items)}
    IN IF ~IsRec(v) THEN Mismatch(soft, fm)
       ELSE FoldLeft(LAMBDA r, name : MatchField(p, moduleSlot, v, soft, name, r),
                     Value(TRUE, fm), SelectSeq(SymbolOrder, LAMBDA name : name \in names))

PerformMatch(p, moduleSlot, v, soft, fm) ==
    CASE Faulty(fm) -> Value(FALSE, fm)
      [] p.k = "Skip_Pattern" -> Value(TRUE, fm)
      [] p.k = "Id_Pattern" -> Value(TRUE, Store(moduleSlot, p.slot, v, fm))
      [] p.k = "Const_Pattern" -> IF v = p.value THEN Value(TRUE, fm) ELSE Mismatch(soft, fm)
      [] p.k = "Predicate_Pattern" -> MatchPredicate(p, moduleSlot, v, soft, fm)
      [] p.k = "List_Pattern" -> MatchList(p, moduleSlot, v, soft, fm)
      [] p.k = "Record_Pattern" -> MatchRecord(p, moduleSlot, v, soft, fm)

-----------------------------------------------------------------------------
(* Locatives: the left side of an assignment.                              *)

RECURSIVE FetchFrom(_, _), StoreTo(_, _, _)

FetchFrom(loc, fm) ==
    CASE loc.k = "Local_Locative" -> Fetch(loc.slot, fm)
      [] loc.k = "Indexed_Locative" ->
            LET base == FetchFrom(loc.base, fm)
            IN IF IsRec(base.v) /\ loc.index \in DOMAIN base.v.rec
               THEN Value(base.v.rec[loc.index], base.fm) ELSE Error(base.fm)
      [] loc.k = "List_Locative" ->
            LET r == FoldLeft(LAMBDA acc, l : LET a == FetchFrom(l, acc.fm) IN Value(Append(acc.v, a.v), a.fm),
                              Value(<<>>, fm), loc.locs)
            IN Value(List(r.v), r.fm)

StoreTo(loc, v, fm) ==
    CASE Faulty(fm) -> fm
      [] loc.k = "Local_Locative" -> Store(NoSlot, loc.slot, v, fm)
      [] loc.k = "Indexed_Locative" ->
            LET base == FetchFrom(loc.base, fm)
            IN IF IsRec(base.v) /\ loc.index \in DOMAIN base.v.rec
               THEN StoreTo(loc.base, Rec([base.v.rec EXCEPT ![loc.index] = v]), base.fm)
               ELSE Fault(base.fm, "error")
      [] loc.k = "List_Locative" ->
            IF ~IsList(v) \/ Len(v.list) # Len(loc.locs) THEN Fault(fm, "error")
            ELSE FoldLeft(LAMBDA f, i : StoreTo(loc.locs[i], v.list[i], f),
                          fm, [i \in 1..Len(loc.locs) |-> i])

-----------------------------------------------------------------------------
(* Statements.                                                             *)

\* The nonlocals of a closure are captured by value when it is made.
Capture(exprs, fm) ==
    LET values == [n \in DOMAIN exprs |-> Eval(exprs[n], fm)]
        bad == {n \in DOMAIN exprs : Faulty(values[n].fm)}
    IN Value([n \in DOMAIN exprs |-> values[n].v],
             IF bad = {} THEN fm ELSE values[CHOOSE n \in bad : TRUE].fm)

SetFunctions(op, fm) ==
    LET nonlocals == Capture(op.nonlocals, fm)
    IN FoldLeft(LAMBDA f, e : Store(op.moduleSlot, e.slot, Fun(Closure(e.lambda, nonlocals.v)), f),
                nonlocals.fm, op.elements)

SetData(op, fm) ==
    LET d == Eval(op.definiens, fm)
    IN IF Faulty(d.fm) THEN d.fm ELSE MatchPattern(op.pattern, op.moduleSlot, d.v, FALSE, d.fm).fm

SetInclude(op, fm) == FoldLeft(LAMBDA f, e : Store(op.moduleSlot, e.slot, e.value, f), fm, op.elements)

\* Scope_Executable: the definitions of a block or of a module.
ExecScope(executable, fm) ==
    LET slots == [i \in 1..Cardinality(DOMAIN executable.dictionary) |-> Missing]
        ready == IF executable.moduleSlot = NoSlot THEN fm
                 ELSE Store(NoSlot, executable.moduleSlot, [module |-> slots], fm)
    IN IF Faulty(ready) THEN ready ELSE ExecEach(executable.actions, ready, Action).fm

RECURSIVE ExecWhile(_, _, _)
ExecWhile(op, fm, ex) ==
    LET c == Eval(op.cond, fm)
        body == Exec(op.body, c.fm, ex)
    IN CASE Faulty(c.fm) -> Done(c.fm, ex)
         [] ~IsBool(c.v) -> Done(Fault(c.fm, "error"), ex)
         [] ~c.v.bool -> Done(c.fm, ex)
         [] OTHER -> ExecWhile(op, body.fm, body.ex)

RECURSIVE ExecFor(_, _, _, _)
ExecFor(op, values, fm, ex) ==
    LET bound == MatchPattern(op.pattern, NoSlot, Head(values), FALSE, fm).fm
        until == IF op.cond.k = "None" THEN Value(Bool(FALSE), bound) ELSE Eval(op.cond, bound)
        body == Exec(op.body, until.fm, ex)
    IN CASE values = <<>> \/ Faulty(fm) -> Done(fm, ex)
         [] Faulty(until.fm) -> Done(until.fm, ex)
         [] ~IsBool(until.v) -> Done(Fault(until.fm, "error"), ex)
         [] until.v.bool -> Done(until.fm, ex)
         [] OTHER -> ExecFor(op, Tail(values), body.fm, body.ex)

ExecLoop(op, fm, ex) ==
    LET list == Eval(op.list, fm)
    IN IF Faulty(list.fm) \/ ~IsList(list.v) THEN Done(Fault(list.fm, "error"), ex)
       ELSE ExecFor(op, list.v.list, list.fm, ex)

ExecSpread(op, fm, ex) ==
    LET a == Eval(op.arg, fm)
        names == SelectSeq(SymbolOrder, LAMBDA n : n \in DOMAIN a.v.rec)
    IN CASE Faulty(a.fm) -> Done(a.fm, ex)
         [] IsList(a.v) -> FoldLeft(LAMBDA r, v : PushValue(v, r.fm, r.ex), Done(a.fm, ex), a.v.list)
         [] IsRec(a.v) -> FoldLeft(LAMBDA r, n : PushField(n, a.v.rec[n], r.fm, r.ex), Done(a.fm, ex), names)
         [] OTHER -> Done(Fault(a.fm, "error"), ex)

ExecIf(op, fm, ex) ==
    LET c == Eval(op.arg1, fm)
    IN CASE Faulty(c.fm) -> Done(c.fm, ex)
         [] ~IsBool(c.v) -> Done(Fault(c.fm, "error"), ex)
         [] c.v.bool -> Exec(op.arg2, c.fm, ex)
         [] op.k = "If_Else_Op" -> Exec(op.arg3, c.fm, ex)
         [] OTHER -> Done(c.fm, ex)

\* Each function is applied to the result of the one before.
ExecMutate(op, fm) ==
    LET Transform(r, function) ==
            LET f == Eval(function, r.fm) IN CallFunc(f.v, r.v, f.fm)
        new == FoldLeft(Transform, FetchFrom(op.locative, fm), op.functions)
    IN StoreTo(op.locative, new.v, new.fm)

ExecAssignment(op, fm) ==
    LET v == Eval(op.expr, fm) IN StoreTo(op.locative, v.v, v.fm)

Internal == {"slot", "unset", "nonlocals"}

EvalError(op, fm) == LET r == Eval(op.arg, fm) IN IF Faulty(r.fm) THEN r ELSE Raise(r.v, r.fm)

\* Print_Action, Warning_Action and Exec_Action show the value or drop it.
ExecEffect(op, fm) == Eval(op.arg, fm).fm

ExecAssert(op, fm) ==
    LET r == Eval(op.arg, fm)
    IN IF Faulty(r.fm) \/ ~IsBool(r.v) \/ ~r.v.bool THEN Fault(r.fm, "error") ELSE r.fm

\* The message of an exception, in the analysis or now, must be the expected one.
ExecAssertError(op, fm) ==
    LET expected == Eval(op.expected, fm)
        r == Eval(op.expr, expected.fm)
        actual == IF op.actual # "" THEN op.actual ELSE r.fm.fault
    IN CASE Faulty(expected.fm) \/ ~IsStr(expected.v) -> Fault(expected.fm, "error")
         [] op.actual = "" /\ r.fm.fault \in Internal -> r.fm
         [] actual # expected.v.str -> Fault(expected.fm, "error")
         [] OTHER -> expected.fm

ExecAssoc(op, fm, ex) ==
    LET d == Eval(op.arg, fm) IN PushField(op.name, d.v, d.fm, ex)

PerformExec(op, fm, ex) ==
    LET value == Eval(op, fm)
    IN CASE Faulty(fm) -> Done(fm, ex)
      [] op.k = "Null_Action" -> Done(fm, ex)
      [] op.k = "Compound_Op" -> ExecEach(op.ops, fm, ex)
      [] op.k = "Paren_List_Expr" -> ExecEach(op.items, fm, ex)
      [] op.k = "Spread_Op" -> ExecSpread(op, fm, ex)
      [] op.k = "Assoc" -> ExecAssoc(op, fm, ex)
      [] op.k = "If_Op" \/ (op.k = "If_Else_Op" /\ ~IsExpr(op)) -> ExecIf(op, fm, ex)
      [] op.k = "Block_Op" -> Exec(op.body, ExecScope(op.statements, fm), ex)
      [] op.k = "While_Op" -> ExecWhile(op, fm, ex)
      [] op.k = "For_Op" -> ExecLoop(op, fm, ex)
      [] op.k \in {"print", "warning", "exec"} -> Done(ExecEffect(op, fm), ex)
      [] op.k = "assert" -> Done(ExecAssert(op, fm), ex)
      [] op.k = "assert_error" -> Done(ExecAssertError(op, fm), ex)
      [] op.k = "Assignment_Action" -> Done(ExecAssignment(op, fm), ex)
      [] op.k = "Mutate_Action" -> Done(ExecMutate(op, fm), ex)
      [] op.k = "Data_Setter" -> Done(SetData(op, fm), ex)
      [] op.k = "Function_Setter" -> Done(SetFunctions(op, fm), ex)
      [] op.k = "Include_Setter" -> Done(SetInclude(op, fm), ex)
      [] OTHER -> PushValue(value.v, value.fm, ex)

-----------------------------------------------------------------------------
(* Expressions.                                                            *)

Guarded(r, v) == IF Faulty(r.fm) THEN Value(Missing, r.fm) ELSE Value(v, r.fm)

ModuleField(op, fm) ==
    LET m == Fetch(op.slot, fm).v
    IN CASE "module" \notin DOMAIN m -> Value(Missing, Fault(fm, "slot"))
         [] m.module[op.index + 1] = Missing -> Value(Missing, Fault(fm, "unset"))
         [] OTHER -> Value(m.module[op.index + 1], fm)

NonlocalField(op, fm) ==
    IF fm.nonlocals = NoNonlocals THEN Value(Missing, Fault(fm, "nonlocals"))
    ELSE Value(GetNonlocal(op.name, fm.nonlocals), fm)

\* Scope_Executable::eval_module
EvalModule(executable, fm) ==
    LET done == ExecScope(executable, fm)
        m == done.slots[executable.moduleSlot + 1].module
    IN IF Faulty(done) THEN Value(Missing, done)
       ELSE Value(Rec([n \in DOMAIN executable.dictionary |-> m[executable.dictionary[n] + 1]]), done)

EvalIf(op, fm) ==
    LET c == Eval(op.arg1, fm)
    IN CASE Faulty(c.fm) \/ ~IsBool(c.v) -> Error(c.fm)
         [] c.v.bool -> Eval(op.arg2, c.fm)
         [] OTHER -> Eval(op.arg3, c.fm)

\* && and ||: the second operand is left alone when the first decides.
EvalBool(op, decided, fm) ==
    LET a == Eval(op.arg1, fm)
        b == Eval(op.arg2, a.fm)
    IN CASE Faulty(a.fm) \/ ~IsBool(a.v) -> Error(a.fm)
         [] a.v.bool = decided -> a
         [] Faulty(b.fm) \/ ~IsBool(b.v) -> Error(b.fm)
         [] OTHER -> b

Arithmetic == {"Add_Expr", "Subtract_Expr", "Less_Expr"}

EvalArithmetic(op, fm) ==
    LET r == EvalEach(Ops(op), fm)
        a == r.v[1]
        b == r.v[2]
    IN CASE Faulty(r.fm) \/ ~IsNum(a) \/ ~IsNum(b) -> Error(r.fm)
         [] op.k = "Add_Expr" -> Value(Num(a.num + b.num), r.fm)
         [] op.k = "Subtract_Expr" -> Value(Num(a.num - b.num), r.fm)
         [] op.k = "Less_Expr" -> Value(Bool(a.num < b.num), r.fm)

EvalRange(op, fm) ==
    LET r == EvalEach(Ops(op), fm)
        last == IF op.k = "Open_Range_Expr" THEN r.v[2].num - 1 ELSE r.v[2].num
    IN CASE Faulty(r.fm) \/ ~IsNum(r.v[1]) \/ ~IsNum(r.v[2]) -> Error(r.fm)
         [] OTHER -> Value(List([i \in 1..MaxOf(0, last - r.v[1].num + 1) |-> Num(r.v[1].num + i - 1)]), r.fm)

EvalAssertion(op, fm) ==
    LET r == EvalEach(Ops(op), fm)
        p == CallFunc(r.v[2], r.v[1], r.fm)
    IN IF Faulty(p.fm) \/ ~IsBool(p.v) \/ ~p.v.bool THEN Error(p.fm) ELSE Value(r.v[1], p.fm)

\* The constructor is called with the defaults of its own parameters, which are
\* evaluated in its frame before the call gives that frame its nonlocals.
EvalParametric(op, fm) ==
    LET func == Eval(op.ctor, fm)
        ctor == func.v.fun
        fields == ctor.pattern.items
        f2 == Frame(ctor.nslots, fm.depth + 1)
        defaults == EvalEach([i \in 1..Len(fields) |-> fields[i].default], f2)
        at(n) == CHOOSE i \in 1..Len(fields) : fields[i].name = n
        default == [n \in {fields[i].name : i \in 1..Len(fields)} |-> defaults.v[at(n)]]
        made == Returned(CallIn(ctor, Rec(default), FALSE, defaults.fm), fm)
        call == Fun([k |-> "Parametric_Ctor", ctor |-> ctor, default |-> default])
    IN CASE Faulty(func.fm) -> func
         [] \E i \in 1..Len(fields) : fields[i].default.k = "None" -> Error(func.fm)
         [] Faulty(made.fm) \/ ~IsRec(made.v) -> Error(made.fm)
         [] OTHER -> Value(Rec(("call" :> call) @@ ("argument" :> Rec(default)) @@ made.v.rec), made.fm)

EvalList(ops, fm) ==
    LET r == ExecEach(ops, fm, ListOf(<<>>))
    IN Guarded(Value(<<>>, r.fm), List(r.ex.list))

EvalRecord(op, fm) ==
    LET r == Exec(op.fields, fm, RecordOf(NoFields))
    IN Guarded(Value(<<>>, r.fm), Rec(r.ex.rec))

EvalCall(op, fm) == LET r == EvalEach(Ops(op), fm) IN CallFunc(r.v[1], r.v[2], r.fm)

EvalBlock(op, fm) == Eval(op.body, ExecScope(op.statements, fm))

EvalDo(op, fm) == Eval(op.body, Exec(op.actions, fm, Action).fm)

EvalLambda(op, fm) ==
    LET nonlocals == Capture(op.nonlocals, fm)
    IN Guarded(nonlocals, Fun(Closure(op, nonlocals.v)))

EvalDot(op, fm) ==
    LET base == Eval(op.arg, fm)
    IN IF IsRec(base.v) /\ op.name \in DOMAIN base.v.rec
       THEN Value(base.v.rec[op.name], base.fm) ELSE Error(base.fm)

\* An association is the pair of its name and its value.
EvalAssoc(op, fm) ==
    LET d == Eval(op.arg, fm) IN Guarded(d, List(<<Sym(op.name), d.v>>))

EvalEqual(op, fm) ==
    LET r == EvalEach(Ops(op), fm) IN Guarded(r, Bool(r.v[1] = r.v[2]))

EvalDefined(op, fm) ==
    LET base == Eval(op.arg, fm)
    IN Guarded(base, Bool(IsRec(base.v) /\ op.name \in DOMAIN base.v.rec))

\* Operation::eval: a statement is not an expression.
EvalStatement(fm) == Error(fm)

PerformEval(op, fm) ==
    CASE Faulty(fm) -> Value(Missing, fm)
      [] op.k = "Constant" -> Value(op.value, fm)
      [] op.k = "Local_Data_Ref" -> Fetch(op.slot, fm)
      [] op.k = "Module_Data_Ref" -> ModuleField(op, fm)
      [] op.k \in {"Nonlocal_Data_Ref", "Symbolic_Ref"} -> NonlocalField(op, fm)
      [] op.k = "Call_Expr" -> EvalCall(op, fm)
      [] op.k \in {"List_Expr", "Paren_List_Expr"} -> EvalList(op.items, fm)
      [] op.k = "Record_Expr" -> EvalRecord(op, fm)
      [] op.k = "Scoped_Module_Expr" -> EvalModule(op.executable, fm)
      [] op.k = "Block_Op" -> EvalBlock(op, fm)
      [] op.k = "Do_Expr" -> EvalDo(op, fm)
      [] op.k = "If_Else_Op" -> EvalIf(op, fm)
      [] op.k = "Lambda_Expr" -> EvalLambda(op, fm)
      [] op.k = "Predicate_Assertion_Expr" -> EvalAssertion(op, fm)
      [] op.k = "Parametric_Expr" -> EvalParametric(op, fm)
      [] op.k = "Dot_Expr" -> EvalDot(op, fm)
      [] op.k = "Defined_Expression" -> EvalDefined(op, fm)
      [] op.k = "error" -> EvalError(op, fm)
      [] op.k = "Assoc" -> EvalAssoc(op, fm)
      [] op.k = "And_Expr" -> EvalBool(op, FALSE, fm)
      [] op.k = "Or_Expr" -> EvalBool(op, TRUE, fm)
      [] op.k = "Equal_Expr" -> EvalEqual(op, fm)
      [] op.k \in Arithmetic -> EvalArithmetic(op, fm)
      [] op.k \in {"Range_Expr", "Open_Range_Expr"} -> EvalRange(op, fm)
      [] OTHER -> EvalStatement(fm)

\* tail_eval and tail_eval_frame: the operations that hand over to another one.
PerformTailEval(op, fm) ==
    LET c == Eval(op.arg1, fm)
        r == EvalEach(Ops(op), fm)
    IN CASE Faulty(fm) -> Value(Missing, fm)
         [] op.k = "If_Else_Op" /\ (Faulty(c.fm) \/ ~IsBool(c.v)) -> Error(c.fm)
         [] op.k = "If_Else_Op" -> TailEval(IF c.v.bool THEN op.arg2 ELSE op.arg3, c.fm)
         [] op.k = "Block_Op" -> TailEval(op.body, ExecScope(op.statements, fm))
         [] op.k = "Do_Expr" -> TailEval(op.body, Exec(op.actions, fm, Action).fm)
         [] op.k = "Call_Expr" -> TailCallFunc(r.v[1], r.v[2], r.fm)
         [] OTHER -> Eval(op, fm)

Perform(task, fm) ==
    CASE task.do = "eval" -> PerformEval(task.op, fm)
      [] task.do = "exec" -> PerformExec(task.op, fm, task.ex)
      [] task.do = "tail_eval" -> PerformTailEval(task.op, fm)
      [] task.do = "call" -> PerformCall(task.f, task.arg, task.soft, fm)
      [] task.do = "tail_call" -> PerformTailCall(task.f, task.arg, fm)
      [] task.do = "match" -> PerformMatch(task.pattern, task.moduleSlot, task.v, task.soft, fm)

\* Program::eval: a definition has no value; an expression runs in a frame with the
\* slots that its analysis has counted.
Run(program) ==
    LET fm == Frame(program.nslots, 1)
    IN IF program.isModule THEN Error(fm) ELSE TailEval(program.op, fm)
=============================================================================

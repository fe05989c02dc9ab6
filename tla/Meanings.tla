------------------------------ MODULE Meanings ------------------------------
(***************************************************************************)
(* The operations that the analyser makes of phrases and that the          *)
(* evaluator runs (libcurv/meanings.h), without their syntax.  `k' is the  *)
(* class.  A variable is a slot of the frame, or a name among the          *)
(* nonlocals of a closure, or an index into a module.                      *)
(***************************************************************************)
EXTENDS Phrase, SequencesExt, FiniteSets

NoSlot == -1

Bad == [k |-> "Bad"]
NullAction == [k |-> "Null_Action"]
Constant(v) == [k |-> "Constant", value |-> v]
IsConstant(op) == op.k = "Constant"

\* A builtin like `print' is no operation: it must be called with an argument.
Metafunction(name) == [k |-> "Metafunction", name |-> name]
IsOperation(meaning) == meaning.k # "Metafunction"
MetaAction(name, arg) == [k |-> name, arg |-> arg]
AssertError(expected, actual, expr) ==
    [k |-> "assert_error", expected |-> expected, actual |-> actual, expr |-> expr]
DefinedExpr(base, name) == [k |-> "Defined_Expression", arg |-> base, name |-> name]

SymbolicRef(name) == [k |-> "Symbolic_Ref", name |-> name]
ModuleRef(slot, index) == [k |-> "Module_Data_Ref", slot |-> slot, index |-> index]
NonlocalRef(name) == [k |-> "Nonlocal_Data_Ref", name |-> name]
LocalRef(slot) == [k |-> "Local_Data_Ref", slot |-> slot]

\* Call_Expr, Predicate_Assertion_Expr, Range_Expr and the infix expressions.
Binary(kind, arg1, arg2) == [k |-> kind, arg1 |-> arg1, arg2 |-> arg2]
SpreadOp(arg) == [k |-> "Spread_Op", arg |-> arg]
ListExpr(kind, items) == [k |-> kind, items |-> items]
RecordExpr(fields) == [k |-> "Record_Expr", fields |-> fields]
DotExpr(base, name) == [k |-> "Dot_Expr", arg |-> base, name |-> name]
AssocOp(name, definiens) == [k |-> "Assoc", name |-> name, arg |-> definiens]
LambdaExpr(pattern, body, nonlocals, nslots) ==
    [k |-> "Lambda_Expr", pattern |-> pattern, body |-> body, nonlocals |-> nonlocals, nslots |-> nslots]
ParametricExpr(ctor) == [k |-> "Parametric_Expr", ctor |-> ctor]

ScopeExecutable(moduleSlot, dictionary, actions) ==
    [moduleSlot |-> moduleSlot, dictionary |-> dictionary, actions |-> actions]
ModuleExpr(executable) == [k |-> "Scoped_Module_Expr", executable |-> executable]
DataSetter(moduleSlot, pattern, definiens) ==
    [k |-> "Data_Setter", moduleSlot |-> moduleSlot, pattern |-> pattern, definiens |-> definiens]
FunctionSetterOp(moduleSlot, nonlocals, elements) ==
    [k |-> "Function_Setter", moduleSlot |-> moduleSlot, nonlocals |-> nonlocals, elements |-> elements]
IncludeSetter(moduleSlot, elements) ==
    [k |-> "Include_Setter", moduleSlot |-> moduleSlot, elements |-> elements]

CompoundOp(ops) == [k |-> "Compound_Op", ops |-> ops]
DoExpr(actions, body) == [k |-> "Do_Expr", actions |-> actions, body |-> body]
BlockOp(statements, body) == [k |-> "Block_Op", statements |-> statements, body |-> body]
ForOp(pattern, list, cond, body) ==
    [k |-> "For_Op", pattern |-> pattern, list |-> list, cond |-> cond, body |-> body]
WhileOp(cond, body) == [k |-> "While_Op", cond |-> cond, body |-> body]
IfOp(cond, then) == [k |-> "If_Op", arg1 |-> cond, arg2 |-> then]
IfElseOp(cond, then, else) == [k |-> "If_Else_Op", arg1 |-> cond, arg2 |-> then, arg3 |-> else]

LocalLocative(slot) == [k |-> "Local_Locative", slot |-> slot]
IndexedLocative(base, index) == [k |-> "Indexed_Locative", base |-> base, index |-> index]
ListLocative(locs) == [k |-> "List_Locative", locs |-> locs]
AssignmentAction(locative, expr) == [k |-> "Assignment_Action", locative |-> locative, expr |-> expr]
MutateAction(locative, functions) == [k |-> "Mutate_Action", locative |-> locative, functions |-> functions]

\* Just_Action: the operations that have no value.
Statements == {"Null_Action", "Compound_Op", "Spread_Op", "If_Op", "While_Op", "For_Op",
               "Assignment_Action", "Mutate_Action", "Data_Setter", "Function_Setter",
               "Include_Setter", "print", "warning", "exec", "assert", "assert_error", "error"}

\* Operation::is_expr_
RECURSIVE IsExpr(_)
IsExpr(op) == CASE op.k = "If_Else_Op" -> IsExpr(op.arg2) /\ IsExpr(op.arg3)
                [] op.k = "Block_Op" -> IsExpr(op.body)
                [] OTHER -> op.k \notin Statements
=============================================================================

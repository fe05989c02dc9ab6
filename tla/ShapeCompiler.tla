---------------------------- MODULE ShapeCompiler ----------------------------
(***************************************************************************)
(* The shape compiler (libcurv/sc_compiler.cc): the dist and colour        *)
(* functions of a shape are compiled, one after the other and by one       *)
(* SC_Compiler object, to straight-line code over registers with C blocks  *)
(* for the control statements.  Each compiled function has two parts: the  *)
(* `constants', which depend on no argument, and the `body'.               *)
(*                                                                         *)
(* Operations are trees, as in meanings.h.  A program is a sequence of     *)
(* functions of one number; only well-typed programs are considered, so    *)
(* the type errors of the compiler have no action here.  The compiler is   *)
(* the mutually recursive functions sc_eval_op, sc_eval and sc_exec: the   *)
(* variable `calls' is the stack of their activations.                     *)
(***************************************************************************)
EXTENDS Integers, SequencesExt

CONSTANTS
    Programs,   \* the programs: sequences of function bodies
    Slots,      \* the slots of a frame
    Scoping     \* which variables are in scope where: [task, scope] records

VARIABLES
    program,                   \* the functions to be compiled
    objects,                   \* the compiled functions: objects_
    constants, body,           \* the code of the function being compiled
    inConstants,               \* which of the two is out()
    valcount,                  \* the number of registers
    valcache, opcaches,        \* the registers of constants and operations
    calls,                     \* the activations, the innermost one last
    frames                     \* the SC_Frames of the calls being expanded

streams == <<constants, body, inConstants>>
caches == <<valcount, valcache, opcaches>>
vars == <<program, objects, streams, caches, calls, frames>>

-----------------------------------------------------------------------------
(* Operations.  An operation is pure_ when no variable of the function is  *)
(* read in it.  The parameter of a function is in the first slot.          *)

Node(op, val, args, pure) == [op |-> op, val |-> val, args |-> args, pure |-> pure]

Const(n) == Node("const", n, <<>>, TRUE)
Nonlocal(n) == Node("nonlocal", n, <<>>, FALSE)      \* captured by the closure
Ref(slot) == Node("ref", slot, <<>>, FALSE)
Plus(a, b) == Node("+", 0, <<a, b>>, a.pure /\ b.pure)
Less(a, b) == Node("<", 0, <<a, b>>, a.pure /\ b.pure)
\* An expression or a statement
If(c, a, b) == Node("if", 0, <<c, a, b>>, c.pure /\ a.pure /\ b.pure)
Do(statements, e) == Node("do", 0, Append(statements, e), FALSE)
\* A call of a library function, which is a Constant, or of a nonlocal one.
CallStd(fun, arg) == Node("call", 1, <<fun, arg>>, arg.pure)
CallNonlocal(fun, arg) == Node("call", 0, <<fun, arg>>, FALSE)

\* Local defines a variable that is never assigned, Var one that is.
Local(slot, e) == Node("local", slot, <<e>>, FALSE)
Var(slot, e) == Node("var", slot, <<e>>, FALSE)
Assign(slot, e) == Node("assign", slot, <<e>>, FALSE)
When(c, s) == Node("when", 0, <<c, s>>, FALSE)
While(c, s) == Node("while", 0, <<c, s>>, FALSE)
For(slot, first, last, step, s) ==
    Node("for", slot, <<first, last, step, s>>, FALSE)
ForUntil(slot, first, last, step, s, c) ==
    Node("for", slot, <<first, last, step, s, c>>, FALSE)
Block(statements) == Node("block", 0, statements, FALSE)

Parameter == 1

-----------------------------------------------------------------------------
(* What the compiler does for an operation, one step after the other.      *)
(* Compiling another operation is a step; the others write code, or bind a *)
(* variable to a register.                                                 *)

EvalOp(e) == [do |-> "eval", e |-> e]          \* sc_eval_op
ExecOp(s) == [do |-> "exec", e |-> s]          \* sc_exec
Enter == [do |-> "enter"]                      \* sc_call_expr, with the value
Constant(n) == [do |-> "constant", val |-> n]  \* sc_eval_const
Variable(slot) == [do |-> "variable", slot |-> slot]
Value(op) == [do |-> "value", op |-> op]       \* newvalue, and its definition
Bind(slot) == [do |-> "bind", slot |-> slot]
Store(slot) == [do |-> "store", slot |-> slot]
Break(op) == [do |-> "break", op |-> op]
Open(op) == [do |-> "open", op |-> op]         \* `{' after if, else and while
OpenFor(slot) == [do |-> "for", slot |-> slot]

\* Operation::sc_eval
EvalSteps(e) ==
    LET arg(i) == EvalOp(e.args[i])
    IN
    CASE e.op \in {"const", "nonlocal"} -> <<Constant(e.val)>>
      [] e.op = "ref" -> <<Variable(e.val)>>
      [] e.op \in {"+", "<"} -> <<arg(1), arg(2), Value(e.op)>>
      [] e.op = "if" -> <<arg(1), arg(2), arg(3), Value("select")>>
      [] e.op = "call" -> <<arg(2), Enter, arg(1)>>
      [] e.op = "do" ->
            [i \in DOMAIN e.args |->
                IF i = Len(e.args) THEN arg(i) ELSE ExecOp(e.args[i])]
      [] OTHER -> <<>>

\* A variable that is assigned has a register of its own.
Bug_NoCopy(s) == <<EvalOp(s.args[1]), Bind(s.val)>>
BindMutable(s) == <<EvalOp(s.args[1]), Value("copy"), Bind(s.val)>>

\* Operation::sc_exec
ExecSteps(s) ==
    LET arg(i) == EvalOp(s.args[i])
        statement(i) == ExecOp(s.args[i])
    IN
    CASE s.op = "block" -> [i \in DOMAIN s.args |-> statement(i)]
      [] s.op = "local" -> <<arg(1), Bind(s.val)>>
      [] s.op = "var" -> BindMutable(s)
      [] s.op = "assign" -> <<arg(1), Store(s.val)>>
      [] s.op = "when" -> <<arg(1), Open("if"), statement(2)>>
      [] s.op = "if" ->
            <<arg(1), Open("if"), statement(2), Open("else"), statement(3)>>
      [] s.op = "while" ->
            <<Open("while"), arg(1), Break("break_unless"), statement(2)>>
      [] s.op = "for" ->
            IF Len(s.args) = 4
            THEN <<arg(1), arg(2), arg(3), OpenFor(s.val), statement(4)>>
            ELSE <<arg(1), arg(2), arg(3), OpenFor(s.val),
                   arg(5), Break("break_if"), statement(4)>>
      [] OTHER -> <<>>

Steps(task) == IF task.do = "eval" THEN EvalSteps(task.e) ELSE ExecSteps(task.e)

\* The variables in scope before a step, given those before the first one
BoundBy(step) ==
    CASE step.do \in {"bind", "for"} -> {step.slot}
      [] step.do = "exec" -> IF step.e.op \in {"local", "var"} THEN {step.e.val} ELSE {}
      [] OTHER -> {}
ScopeAt(task, scope, pc) ==
    LET before == {p \in DOMAIN Steps(task) : p < pc}
    IN  (IF \E p \in before : Steps(task)[p] = Enter THEN {Parameter} ELSE scope)
            \cup UNION {BoundBy(Steps(task)[p]) : p \in before}

\* The analyser only refers to variables in scope, no two variables that are in
\* scope have the same slot, and a definition is an item of a compound statement
\* (analyse_stmt).
WellScoped(j) ==
    \A p \in DOMAIN Steps(j.task) :
        LET step == Steps(j.task)[p]
            scope == ScopeAt(j.task, j.scope, p)
        IN  /\ step.do \in {"eval", "exec"} => [task |-> step, scope |-> scope] \in Scoping
            /\ step.do \in {"variable", "store"} => step.slot \in scope
            /\ step.do \in {"bind", "for"} => step.slot \in Slots \ scope
            /\ step.do = "exec" /\ step.e.op \in {"local", "var"} =>
                   j.task.e.op \in {"do", "block"}

\* An operation that is taken for pure is computed from constants alone
WellPure(e) ==
    e.pure => /\ e.op \in {"const", "+", "<", "if"}
              /\ \A p \in DOMAIN EvalSteps(e) :
                    EvalSteps(e)[p].do = "eval" => EvalSteps(e)[p].e.pure

ASSUME SlotsAssumption == Parameter \in Slots
ASSUME ScopingAssumption ==
    \A j \in Scoping :
        /\ j = [task |-> j.task, scope |-> j.scope] /\ j.scope \in SUBSET Slots
        /\ j.task.do \in {"eval", "exec"} /\ j.task = [do |-> j.task.do, e |-> j.task.e]
        /\ j.task.e.pure \in BOOLEAN
        /\ Len(j.task.e.args) \in Nat /\ DOMAIN j.task.e.args = 1 .. Len(j.task.e.args)
        /\ WellScoped(j)
ASSUME ProgramsAssumption ==
    \A fs \in Programs : \A k \in DOMAIN fs :
        [task |-> EvalOp(fs[k]), scope |-> {Parameter}] \in Scoping

\* No call is taken for pure.  The code does not see to this: it takes a call with
\* a constant function and a pure argument for pure, writes the code of the function
\* to the body, and the operation around the call to the constants, ahead of it.
NoPureCalls == \A j \in Scoping : WellPure(j.task.e)

-----------------------------------------------------------------------------
(* Code.  A line writes the register dst, reads the registers args, and    *)
(* stands `at' a block: the positions in the body of the lines that open   *)
(* the blocks around it, the outermost one first.  Registers are numbered  *)
(* as they are made; register 0 is the parameter of the function.          *)

Line(op, dst, args, val, at) ==
    [op |-> op, dst |-> dst, args |-> args, val |-> val, at |-> at]

\* The lines that declare dst; the loop variable belongs to the block.
Declares(line) == line.op \in {"const", "+", "<", "select", "copy", "for"}
Openers == {"if", "else", "while", "for"}

\* Writing to out().  The constants have no blocks.
Out(line) ==
    IF inConstants
    THEN constants' = Append(constants, [line EXCEPT !.at = <<>>]) /\ UNCHANGED body
    ELSE body' = Append(body, line) /\ UNCHANGED constants

-----------------------------------------------------------------------------
(* Activations.  `at' is the block that the code of the task goes to, `val'*)
(* the register it got last, `vals' those that the next line will read.    *)

Activation(task, scope, at, frame) ==
    [task |-> task, scope |-> scope, pc |-> 1, base |-> at, at |-> at,
     vals |-> <<>>, val |-> 0, frame |-> frame, purity |-> inConstants]

Top == calls[Len(calls)]
Finished(a) == a.pc \notin DOMAIN Steps(a.task)
This == Steps(Top.task)[Top.pc]
Doing(do) == calls # <<>> /\ ~Finished(Top) /\ This.do = do

Advanced(a) == [a EXCEPT !.pc = @ + 1]
Got(a, r) == [Advanced(a) EXCEPT !.val = r, !.vals = Append(@, r)]
\* After a line that has read the registers of a
Written(a) == [Advanced(a) EXCEPT !.vals = <<>>]
Continue(a) == calls' = [calls EXCEPT ![Len(calls)] = a]

\* Set_Purity: the destination of out() for as long as a task is compiled
Purity(task) == IF task.do = "eval" THEN task.e.pure ELSE inConstants
Bug_KeepPurity(saved) == inConstants
Restored(saved) == saved

\* A pure operation is looked up in the caches of all enclosing loops, and
\* remembered in the innermost.
Cached(e) == {i \in DOMAIN opcaches : e.pure /\ e \in DOMAIN opcaches[i]}
Noted(cache, key, r) ==
    [k \in DOMAIN cache \cup {key} |-> IF k = key THEN r ELSE cache[k]]
Remember(task, r) ==
    IF task.do = "eval" /\ task.e.pure
    THEN [opcaches EXCEPT ![Len(opcaches)] = Noted(@, task.e, r)] ELSE opcaches

IsLoop(task) == task.do = "exec" /\ task.e.op \in {"while", "for"}
PushCache == Append(opcaches, <<>>)
PopCache(task) == IF IsLoop(task) THEN Front(opcaches) ELSE opcaches

-----------------------------------------------------------------------------
(* The steps of the compiler                                               *)

EmptyFrame == [s \in Slots |-> 0]

Init ==
    /\ program \in Programs
    /\ objects = <<>>
    /\ constants = <<>> /\ body = <<>> /\ inConstants = FALSE
    /\ valcount = 0 /\ valcache = <<>> /\ opcaches = <<>>
    /\ calls = <<>> /\ frames = <<>>

Bug_KeepConstants(cache) == cache
Reset(cache) == <<>>

\* SC_Compiler::define_function, for a function of one parameter
DefineFunction ==
    LET k == Len(objects) + 1
        task == EvalOp(program[k])
    IN  /\ calls = <<>> /\ k \in DOMAIN program
        /\ constants' = <<>> /\ body' = <<>>
        /\ valcount' = 1 /\ valcache' = Reset(valcache) /\ opcaches' = <<<<>>>>
        /\ calls' = <<Activation(task, {Parameter}, <<>>, 1)>>
        /\ inConstants' = Purity(task)
        /\ frames' = <<EmptyFrame>>
        /\ UNCHANGED <<program, objects>>

\* sc_eval_op finds the operation in a cache.
EvalCached ==
    /\ Doing("eval")
    /\ \E i \in Cached(This.e) :
          /\ \A j \in Cached(This.e) : i <= j
          /\ Continue(Got(Top, opcaches[i][This.e]))
    /\ UNCHANGED <<program, objects, streams, caches, frames>>

\* sc_eval_op or sc_exec compiles an operation.
Begin ==
    /\ \/ Doing("eval") /\ Cached(This.e) = {}
       \/ Doing("exec")
    /\ LET scope == ScopeAt(Top.task, Top.scope, Top.pc)
       IN  calls' = Append(calls, Activation(This, scope, Top.at, Top.frame))
    /\ inConstants' = Purity(This)
    /\ UNCHANGED <<program, objects, constants, body, caches, frames>>

\* The task of the innermost activation is done.
Return ==
    LET a == Top
        n == Len(calls) - 1
        caller == calls[n]
    IN  /\ Len(calls) > 1 /\ Finished(a)
        /\ calls' = [Front(calls) EXCEPT ![n] =
                IF a.task.do = "eval" THEN Got(caller, a.val) ELSE Advanced(caller)]
        /\ frames' = SubSeq(frames, 1, caller.frame)
        /\ inConstants' = Restored(a.purity)
        /\ opcaches' = IF IsLoop(a.task) THEN PopCache(a.task) ELSE Remember(a.task, a.val)
        /\ UNCHANGED <<program, objects, constants, body, valcount, valcache>>

\* The end of define_function
EndFunction ==
    /\ Len(calls) = 1 /\ Finished(Top)
    /\ objects' = Append(objects, [constants |-> constants, body |-> body,
                                   result |-> Top.val])
    /\ calls' = <<>> /\ frames' = <<>>
    /\ inConstants' = Restored(Top.purity)
    /\ opcaches' = Remember(Top.task, Top.val)
    /\ UNCHANGED <<program, constants, body, valcount, valcache>>

\* sc_eval_const: a constant is declared once, in the constants.
ReuseConstant ==
    /\ Doing("constant")
    /\ This.val \in DOMAIN valcache
    /\ Continue(Got(Top, valcache[This.val]))
    /\ UNCHANGED <<program, objects, streams, caches, frames>>
DeclareConstant ==
    /\ Doing("constant")
    /\ This.val \notin DOMAIN valcache
    /\ constants' = Append(constants, Line("const", valcount, <<>>, This.val, <<>>))
    /\ valcache' = Noted(valcache, This.val, valcount)
    /\ valcount' = valcount + 1
    /\ Continue(Got(Top, valcount))
    /\ UNCHANGED <<program, objects, body, inConstants, opcaches, frames>>

\* Local_Data_Ref::sc_eval
ReadVariable ==
    /\ Doing("variable")
    /\ Continue(Got(Top, frames[Top.frame][This.slot]))
    /\ UNCHANGED <<program, objects, streams, caches, frames>>

\* A new register for the result of an operation (sc_binop)
DeclareValue ==
    /\ Doing("value")
    /\ Out(Line(This.op, valcount, Top.vals, 0, Top.at))
    /\ valcount' = valcount + 1
    /\ Continue([Written(Top) EXCEPT !.val = valcount])
    /\ UNCHANGED <<program, objects, inConstants, valcache, opcaches, frames>>

\* Id_Pattern::sc_exec
BindVariable ==
    /\ Doing("bind")
    /\ frames' = [frames EXCEPT ![Top.frame][This.slot] = Top.val]
    /\ Continue(Advanced(Top))
    /\ UNCHANGED <<program, objects, streams, caches>>

\* Closure::sc_call_expr: the body of the function has a frame of its own.
EnterFunction ==
    /\ Doing("enter")
    /\ frames' = Append(frames, [EmptyFrame EXCEPT ![Parameter] = Top.val])
    /\ Continue([Advanced(Top) EXCEPT !.frame = Len(frames) + 1])
    /\ UNCHANGED <<program, objects, streams, caches>>

\* Assignment_Action::sc_exec
StoreVariable ==
    /\ Doing("store")
    /\ Out(Line("assign", frames[Top.frame][This.slot], Top.vals, 0, Top.at))
    /\ Continue(Written(Top))
    /\ UNCHANGED <<program, objects, inConstants, caches, frames>>

\* `if (..) break;'
WriteBreak ==
    /\ Doing("break")
    /\ Out(Line(This.op, 0, Top.vals, 0, Top.at))
    /\ Continue(Written(Top))
    /\ UNCHANGED <<program, objects, inConstants, caches, frames>>

\* `if (..) {', `} else {' and `while (true) {': the next line to be written is
\* the first one of the block.
NewBlock == Append(Top.base, Len(body) + 1)
OpenBlock ==
    /\ Doing("open")
    /\ Out(Line(This.op, 0, Top.vals, 0, Top.base))
    /\ Continue([Written(Top) EXCEPT !.at = NewBlock])
    /\ opcaches' = IF This.op = "while" THEN PushCache ELSE opcaches
    /\ UNCHANGED <<program, objects, inConstants, valcount, valcache, frames>>

\* `for (float i = ..; i <= ..; i += ..) {'
OpenForBlock ==
    /\ Doing("for")
    /\ Out(Line("for", valcount, Top.vals, 0, NewBlock))
    /\ valcount' = valcount + 1
    /\ opcaches' = PushCache
    /\ frames' = [frames EXCEPT ![Top.frame][This.slot] = valcount]
    /\ Continue([Written(Top) EXCEPT !.at = NewBlock])
    /\ UNCHANGED <<program, objects, inConstants, valcache>>

\* SC_Compiler::emit_objects, and the end of the compiler.  The viewer compiles
\* the shape again when it is changed.
EmitObjects ==
    /\ calls = <<>> /\ Len(objects) = Len(program)
    /\ objects' = <<>> /\ constants' = <<>> /\ body' = <<>> /\ inConstants' = FALSE
    /\ valcount' = 0 /\ valcache' = <<>> /\ opcaches' = <<>>
    /\ UNCHANGED <<program, calls, frames>>

Next ==
    \/ DefineFunction \/ EvalCached \/ Begin \/ Return \/ EndFunction
    \/ ReuseConstant \/ DeclareConstant \/ ReadVariable \/ DeclareValue
    \/ BindVariable \/ EnterFunction \/ StoreVariable \/ WriteBreak
    \/ OpenBlock \/ OpenForBlock \/ EmitObjects
Spec == Init /\ [][Next]_vars

-----------------------------------------------------------------------------
(* A C compiler rejects a function that uses a register before its         *)
(* declaration or outside of its block.                                    *)

Reads(line) == Range(line.args) \cup (IF line.op = "assign" THEN {line.dst} ELSE {})

\* A register declared by one of the lines that can be used at a block
Known(lines, r, at) ==
    \E q \in DOMAIN lines :
        Declares(lines[q]) /\ lines[q].dst = r /\ IsPrefix(lines[q].at, at)

\* A block has the lines from the one that opens it to its last one.
Nested(lines) ==
    \A p \in DOMAIN lines : \A i \in DOMAIN lines[p].at :
        LET b == lines[p].at[i]
        IN  /\ b \in 1..p /\ lines[b].op \in Openers
            /\ \A q \in (b + 1)..p : IsPrefix(SubSeq(lines[p].at, 1, i), lines[q].at)

Accepted(f) ==
    LET code == f.constants \o f.body
        before(p) == SubSeq(code, 1, p - 1)
    IN  /\ \A p \in DOMAIN code :
            /\ \A r \in Reads(code[p]) : r = 0 \/ Known(before(p), r, code[p].at)
            /\ Declares(code[p]) =>
                   /\ code[p].dst # 0
                   /\ \A q \in DOMAIN code : Declares(code[q]) /\ q # p => code[q].dst # code[p].dst
        /\ f.result = 0 \/ Known(code, f.result, <<>>)
        /\ Nested(f.body)

\* Every register of a compiled function is declared once, before it is used
\* and in a block that encloses the use, with the constants ahead of the body
\* (SC_Function::emit): the caches of values and operations and the choice
\* between the two streams never separate a use from its declaration.
DefinedBeforeUse == \A k \in DOMAIN objects : Accepted(objects[k])

\* The constants of a function depend on no argument (sc_eval_op).
ConstantsAreUniform ==
    \A k \in DOMAIN objects :
        \A p \in DOMAIN objects[k].constants : 0 \notin Reads(objects[k].constants[p])
=============================================================================

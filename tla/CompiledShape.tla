----------------------------- MODULE CompiledShape -----------------------------
(***************************************************************************)
(* The code that ShapeCompiler makes, run by a processor and compared with *)
(* what the interpreter of evaluator.cc returns, which is the reference    *)
(* for what a program means.                                               *)
(***************************************************************************)
EXTENDS ShapeCompiler

CONSTANTS
    Inputs,         \* the arguments the compiled functions are applied to
    MaxIterations   \* a compiled loop that runs longer than this is hung

ASSUME InputsAssumption == Inputs \subseteq Int
ASSUME IterationsAssumption == MaxIterations \in Nat

-----------------------------------------------------------------------------
(* The interpreter.  A machine has the slots of a Frame and the value of   *)
(* the operation last evaluated.                                           *)

Frame(arg) == [slots |-> [s \in Slots |-> IF s = 1 THEN arg ELSE 0], val |-> arg]
Apply(op, a, b) == IF op = "+" THEN a + b ELSE a < b

\* round(a / b), halves away from zero
Round(a, b) ==
    LET n == IF b > 0 THEN a ELSE -a
        d == IF b > 0 THEN b ELSE -b
    IN  IF n >= 0 THEN (2 * n + d) \div (2 * d)
                  ELSE -((d - 2 * n) \div (2 * d))

\* The list that a range makes
Range_Expr(first, last, step) ==
    LET delta == Round(last - first, step)
    IN  [i \in 1 .. (IF delta < 0 THEN 0 ELSE delta + 1) |-> first + step * (i - 1)]

RECURSIVE Eval(_, _), Iterate(_, _, _)
Eval(m, e) ==
    LET arg(i) == e.args[i]
    IN
    CASE e.op \in {"const", "nonlocal"} -> [m EXCEPT !.val = e.val]
      [] e.op = "ref" -> [m EXCEPT !.val = m.slots[e.val]]
      [] e.op \in {"+", "<"} ->
            LET a == Eval(m, arg(1))
                b == Eval(a, arg(2))
            IN  [b EXCEPT !.val = Apply(e.op, a.val, b.val)]
      [] e.op = "if" ->
            LET c == Eval(m, arg(1)) IN Eval(c, IF c.val THEN arg(2) ELSE arg(3))
      [] e.op = "call" ->
            LET a == Eval(m, arg(2))
            IN  [a EXCEPT !.val = Eval(Frame(a.val), arg(1)).val]
      [] e.op \in {"do", "block"} ->
            FoldLeft(LAMBDA k, s : Eval(k, s), m, e.args)
      [] e.op \in {"local", "var", "assign"} ->
            LET v == Eval(m, arg(1)) IN [v EXCEPT !.slots[e.val] = v.val]
      [] e.op = "when" ->
            LET c == Eval(m, arg(1)) IN IF c.val THEN Eval(c, arg(2)) ELSE c
      [] e.op = "while" ->
            LET c == Eval(m, arg(1))
            IN  IF c.val THEN Eval(Eval(c, arg(2)), e) ELSE c
      [] e.op = "for" ->
            LET first == Eval(m, arg(1))
                last == Eval(first, arg(2))
                step == Eval(last, arg(3))
            IN  Iterate(step, e, Range_Expr(first.val, last.val, step.val))

\* The rest of a for loop over a list
Iterate(m, e, list) ==
    IF list = <<>> THEN m
    ELSE LET bound == [m EXCEPT !.slots[e.val] = Head(list)]
             until == Len(e.args) = 5 /\ Eval(bound, e.args[5]).val
         IN  IF until THEN bound ELSE Iterate(Eval(bound, e.args[4]), e, Tail(list))

\* What a function returns
Call(fun, arg) == Eval(Frame(arg), fun).val

-----------------------------------------------------------------------------
(* A processor has the values of the registers, and the reason why the     *)
(* block being run is left.                                                *)

Put(m, r, v) == [m EXCEPT !.regs = (r :> v) @@ @]

\* The first line after p that is not in a block
EndOf(code, p, block) ==
    LET later == {q \in (p + 1) .. Len(code) : ~IsPrefix(block, code[q].at)}
    IN  IF later = {} THEN Len(code) + 1 ELSE CHOOSE q \in later : \A o \in later : q <= o

\* Running the lines of a block, from p on; a line of control runs others.
RECURSIVE RunFrom(_, _, _, _), Loop(_, _, _, _, _)
RunFrom(m, code, p, block) ==
    LET line == code[p]
        arg(n) == m.regs[line.args[n]]
        inner == IF line.op = "for" THEN line.at ELSE Append(line.at, p)
        end == EndOf(code, p, inner)
        next == IF line.op \in Openers THEN end ELSE p + 1
        \* The else block of the if in line p
        else == Append(line.at, end)
        hasElse == end \in DOMAIN code /\ code[end].at = line.at /\ code[end].op = "else"
    IN
    IF p \notin DOMAIN code \/ m.exit # "none" THEN m
    ELSE IF ~IsPrefix(block, line.at) THEN m
    ELSE RunFrom(
        CASE line.op = "const" -> Put(m, line.dst, line.val)
          [] line.op \in {"+", "<"} -> Put(m, line.dst, Apply(line.op, arg(1), arg(2)))
          [] line.op = "select" -> Put(m, line.dst, IF arg(1) THEN arg(2) ELSE arg(3))
          [] line.op \in {"copy", "assign"} -> Put(m, line.dst, arg(1))
          [] line.op = "break_if" -> [m EXCEPT !.exit = IF arg(1) THEN "break" ELSE "none"]
          [] line.op = "break_unless" -> [m EXCEPT !.exit = IF arg(1) THEN "none" ELSE "break"]
          [] line.op = "if" ->
                IF arg(1) THEN RunFrom(m, code, p + 1, inner)
                ELSE IF hasElse THEN RunFrom(m, code, end + 1, else) ELSE m
          [] line.op = "while" -> Loop(m, code, p, inner, MaxIterations)
          [] line.op = "for" -> Loop(Put(m, line.dst, arg(1)), code, p, inner, MaxIterations)
          [] line.op = "else" -> m,
        code, next, block)

Loop(m, code, p, block, n) ==
    LET line == code[p]
        stop == line.op = "for" /\ m.regs[line.dst] > m.regs[line.args[2]]
        k == RunFrom(m, code, p + 1, block)
        next == IF line.op = "for"
                THEN Put(k, line.dst, k.regs[line.dst] + k.regs[line.args[3]]) ELSE k
    IN  CASE stop -> m
          [] ~stop /\ n = 0 -> [m EXCEPT !.exit = "hung"]
          [] ~stop /\ n > 0 /\ k.exit = "none" -> Loop(next, code, p, block, n - 1)
          [] ~stop /\ n > 0 /\ k.exit = "break" -> [k EXCEPT !.exit = "none"]
          [] OTHER -> k

Execute(f, arg) ==
    LET start == RunFrom([regs |-> 0 :> arg, exit |-> "none"], f.constants, 1, <<>>)
        m == RunFrom(start, f.body, 1, <<>>)
    IN  IF m.exit = "hung" THEN <<"hung">> ELSE <<"returns", m.regs[f.result]>>

-----------------------------------------------------------------------------
\* A compiled function returns what the interpreter returns for the function it
\* was compiled from, for every argument: registers shared by variables, by
\* equal constants and by equal pure operations hold the value that each of
\* their readers expects.
SameResult ==
    calls = <<>> =>
        \A k \in DOMAIN objects : \A arg \in Inputs :
            Execute(objects[k], arg) = <<"returns", Call(program[k], arg)>>
=============================================================================

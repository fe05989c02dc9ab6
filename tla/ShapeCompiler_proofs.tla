------------------------ MODULE ShapeCompiler_proofs ------------------------
(***************************************************************************)
(* Proofs about ShapeCompiler for programs of any size, and any depth of   *)
(* operations and calls.  NoPureCalls is a premise of the theorems: a call *)
(* that the code takes for pure breaks the properties.                     *)
(*                                                                         *)
(* What a finished function promises (Accepted) is not inductive: it says  *)
(* nothing of the functions being compiled.  The inductive invariant Inv   *)
(* follows a register from the line that declares it to all the places     *)
(* that remember it and can put it into a line later: the caches, the      *)
(* variables of the frames, and the activations that wait for an inner     *)
(* one.  A cached register is a constant, which can be read anywhere; a    *)
(* variable or a waiting activation is only good for the block that it is  *)
(* in.  What is in scope in a block stays usable in the blocks inside it,  *)
(* and when a block ends, the variables and activations that hold its      *)
(* registers end with it.                                                  *)
(***************************************************************************)
EXTENDS ShapeCompiler, SequenceTheorems, TLAPS

Operations == {j.task.e : j \in Scoping}
Values == {e.val : e \in Operations} \cup {0}
Tasks == {j.task : j \in Scoping}
Ops == {"const", "+", "<", "select", "copy", "assign", "if", "else", "while", "for",
        "break_if", "break_unless"}
Lines == [op : Ops, dst : Nat, args : Seq(Nat), val : Values, at : Seq(Nat)]
Objects == [constants : Seq(Lines), body : Seq(Lines), result : Nat]
CachesOf(S) == UNION {[T -> Nat] : T \in SUBSET S}
Activations ==
    [task : Tasks, scope : SUBSET Slots, pc : Nat \ {0}, base : Seq(Nat), at : Seq(Nat),
     vals : Seq(Nat), val : Nat, frame : Nat \ {0}, purity : BOOLEAN]

CallsTyped ==
    /\ calls \in Seq(Activations)
    /\ \A k \in DOMAIN calls : [task |-> calls[k].task, scope |-> calls[k].scope] \in Scoping

TypeOK ==
    /\ program \in Programs
    /\ objects \in Seq(Objects)
    /\ constants \in Seq(Lines) /\ body \in Seq(Lines) /\ inConstants \in BOOLEAN
    /\ valcount \in Nat
    /\ valcache \in CachesOf(Values) /\ opcaches \in Seq(CachesOf(Operations))
    /\ CallsTyped
    /\ frames \in Seq([Slots -> Nat])

-----------------------------------------------------------------------------
(* The code of a function: its constants cs and body bd, of n registers     *)

Declared(cs, r) == \E q \in DOMAIN cs : Declares(cs[q]) /\ cs[q].dst = r
Usable(cs, bd, r, at) == r = 0 \/ Declared(cs, r) \/ Known(bd, r, at)

ConstantsOK(cs, n) ==
    \A p \in DOMAIN cs :
        /\ cs[p].at = <<>>
        /\ \A r \in Reads(cs[p]) : \E q \in 1..(p - 1) : Declares(cs[q]) /\ cs[q].dst = r
        /\ Declares(cs[p]) =>
              /\ cs[p].dst \in 1..(n - 1)
              /\ \A q \in DOMAIN cs : Declares(cs[q]) /\ q # p => cs[q].dst # cs[p].dst

BodyOK(cs, bd, n) ==
    \A p \in DOMAIN bd :
        /\ \A r \in Reads(bd[p]) :
              \/ r = 0
              \/ Declared(cs, r)
              \/ \E q \in 1..(p - 1) : /\ Declares(bd[q]) /\ bd[q].dst = r
                                       /\ IsPrefix(bd[q].at, bd[p].at)
        /\ Declares(bd[p]) =>
              /\ bd[p].dst \in 1..(n - 1)
              /\ \A q \in DOMAIN bd : Declares(bd[q]) /\ q # p => bd[q].dst # bd[p].dst

\* No register is declared in both parts.
Disjoint(cs, bd) ==
    \A p \in DOMAIN cs : \A q \in DOMAIN bd :
        Declares(cs[p]) /\ Declares(bd[q]) => cs[p].dst # bd[q].dst

CodeOK(cs, bd, n) == ConstantsOK(cs, n) /\ BodyOK(cs, bd, n) /\ Disjoint(cs, bd) /\ Nested(bd)

\* The blocks of a path have not ended.
OpenAt(bd, at) ==
    \A i \in DOMAIN at :
        /\ at[i] \in DOMAIN bd /\ bd[at[i]].op \in Openers
        /\ \A q \in DOMAIN bd : q > at[i] => IsPrefix(SubSeq(at, 1, i), bd[q].at)

-----------------------------------------------------------------------------
(* Activations                                                             *)

IsPure(task) == task.do = "eval" /\ task.e.pure
ScopeNow(a) == ScopeAt(a.task, a.scope, a.pc)
Opened(a) ==
    \E p \in DOMAIN Steps(a.task) : p < a.pc /\ Steps(a.task)[p].do \in {"open", "for"}

\* The code of an activation goes to the block that it was begun in, or to one
\* that it has opened there.
InBlock(bd, a) ==
    /\ IF Opened(a) THEN \E b \in DOMAIN bd : a.at = Append(a.base, b) ELSE a.at = a.base
    /\ Opened(a) /\ a.task.e.op = "if" => a.vals = <<>>
    /\ OpenAt(bd, a.at)

\* The registers that an activation holds, and those of the variables in scope,
\* can be used where its code goes.
Holds(cs, bd, a) ==
    /\ \A r \in Range(a.vals) : Usable(cs, bd, r, a.at)
    /\ ~Opened(a) => Usable(cs, bd, a.val, a.at)
    /\ IsPure(a.task) => /\ \A r \in Range(a.vals) : Declared(cs, r)
                         /\ a.pc = 1 \/ Declared(cs, a.val)
Sees(cs, bd, fs, a) ==
    \A s \in ScopeNow(a) : Usable(cs, bd, fs[a.frame][s], a.at)

\* An activation and the one that it was begun by
First(a) == a.task.do = "eval" /\ a.base = <<>> /\ a.purity = FALSE
BegunBy(a, caller) ==
    /\ ~Finished(caller) /\ a.task = Steps(caller.task)[caller.pc]
    /\ a.scope = ScopeNow(caller)
    /\ a.base = caller.at
    /\ a.purity = IsPure(caller.task)
    /\ a.task.do = "exec" => a.frame = caller.frame

\* An activation and one that was begun later and is not done
Around(a, b) ==
    /\ IsPrefix(a.at, b.base)
    /\ a.frame <= b.frame
    /\ a.frame = b.frame => ScopeNow(a) \subseteq ScopeNow(b)

-----------------------------------------------------------------------------
(* The inductive invariant                                                 *)

CodeInv == CodeOK(constants, body, valcount)

CacheInv ==
    /\ \A n \in DOMAIN valcache : Declared(constants, valcache[n])
    /\ \A i \in DOMAIN opcaches : \A e \in DOMAIN opcaches[i] :
          Declared(constants, opcaches[i][e])

CallsInv ==
    \A k \in DOMAIN calls :
        /\ InBlock(body, calls[k])
        /\ Holds(constants, body, calls[k])
        /\ Sees(constants, body, frames, calls[k])

NestingInv ==
    /\ calls # <<>> => First(calls[1])
    /\ \A k \in DOMAIN calls : k > 1 => BegunBy(calls[k], calls[k - 1])
    /\ \A j, k \in DOMAIN calls : j < k => Around(calls[j], calls[k])

TopInv ==
    /\ inConstants = (calls # <<>> /\ IsPure(Top.task))
    /\ calls # <<>> => Len(frames) = Top.frame /\ valcount > 0

ObjectsInv ==
    \A k \in DOMAIN objects :
        /\ Accepted(objects[k])
        /\ \A p \in DOMAIN objects[k].constants : 0 \notin Reads(objects[k].constants[p])

Inv == TypeOK /\ CodeInv /\ CacheInv /\ CallsInv /\ NestingInv /\ TopInv /\ ObjectsInv

-----------------------------------------------------------------------------
(* Sequences: the paths of blocks, and code with a line more               *)

\* Prefixes, element by element
LEMMA PrefixElements ==
    ASSUME NEW S, NEW s \in Seq(S), NEW t \in Seq(S)
    PROVE  IsPrefix(s, t) <=> Len(s) <= Len(t) /\ \A i \in 1..Len(s) : s[i] = t[i]
<1>1. CASE Len(s) <= Len(t)
  <2>1. /\ SubSeq(s, 1, Len(s)) = [i \in 1..Len(s) |-> s[i]]
        /\ SubSeq(t, 1, Len(s)) = [i \in 1..Len(s) |-> t[i]]
    BY <1>1
  <2>. QED  BY <1>1, <2>1 DEF IsPrefix
<1>2. CASE ~(Len(s) <= Len(t))
  BY <1>2 DEF IsPrefix
<1>. QED  BY <1>1, <1>2

\* A path is a prefix of itself and of its extensions, and so are its
\* beginnings.
LEMMA PrefixReflexive ==
    ASSUME NEW s \in Seq(Nat)
    PROVE  IsPrefix(s, s)
BY PrefixElements

\* A path is a prefix of every longer one (the blocks that are opened inside it).
LEMMA PrefixOfAppend ==
    ASSUME NEW s \in Seq(Nat), NEW n \in Nat
    PROVE  Append(s, n) \in Seq(Nat) /\ IsPrefix(s, Append(s, n))
<1>. DEFINE t == Append(s, n)
<1>1. t \in Seq(Nat) /\ Len(t) = Len(s) + 1 /\ \A i \in 1..Len(s) : t[i] = s[i]
  OBVIOUS
<1>2. t \in Seq(Nat) /\ IsPrefix(s, t)
  <2>. HIDE DEF t
  <2>. QED  BY <1>1, PrefixElements
<1>. QED  BY <1>2

\* Prefixes compose.
LEMMA PrefixTransitive ==
    ASSUME NEW s \in Seq(Nat), NEW t \in Seq(Nat), NEW u \in Seq(Nat),
           IsPrefix(s, t), IsPrefix(t, u)
    PROVE  IsPrefix(s, u)
<1>1. Len(s) <= Len(t) /\ \A i \in 1..Len(s) : s[i] = t[i]
  BY PrefixElements
<1>2. Len(t) <= Len(u) /\ \A i \in 1..Len(t) : t[i] = u[i]
  BY PrefixElements
<1>. QED  BY <1>1, <1>2, PrefixElements

\* The beginnings of a path are paths, and prefixes of it.
LEMMA Beginning ==
    ASSUME NEW s \in Seq(Nat), NEW i \in 1..Len(s)
    PROVE  SubSeq(s, 1, i) \in Seq(Nat) /\ IsPrefix(SubSeq(s, 1, i), s)
<1>. DEFINE t == SubSeq(s, 1, i)
<1>1. t \in Seq(Nat) /\ Len(t) = i /\ \A j \in 1..i : t[j] = s[j]
  OBVIOUS
<1>2. t \in Seq(Nat) /\ IsPrefix(t, s)
  <2>. HIDE DEF t
  <2>. QED  BY <1>1, PrefixElements
<1>. QED  BY <1>2

\* The beginnings of a prefix of a path are those of the path.
LEMMA SharedBeginning ==
    ASSUME NEW s \in Seq(Nat), NEW t \in Seq(Nat), IsPrefix(s, t), NEW i \in 1..Len(s)
    PROVE  SubSeq(s, 1, i) = SubSeq(t, 1, i) /\ s[i] = t[i] /\ i \in 1..Len(t)
<1>1. Len(s) <= Len(t) /\ \A j \in 1..Len(s) : s[j] = t[j]
  BY PrefixElements
<1>2. /\ SubSeq(s, 1, i) = [j \in 1..i |-> s[j]]
      /\ SubSeq(t, 1, i) = [j \in 1..i |-> t[j]]
  BY <1>1
<1>. QED  BY <1>1, <1>2

\* The empty path, outside of all blocks, is a prefix of every path.
LEMMA EmptyPrefix ==
    ASSUME NEW s \in Seq(Nat)
    PROVE  IsPrefix(<<>>, s) /\ (IsPrefix(s, <<>>) => s = <<>>)
<1>1. SubSeq(s, 1, 0) = <<>> /\ SubSeq(<<>>, 1, 0) = <<>> /\ Len(<<>>) = 0
  BY SubSeqEmpty
<1>2. IsPrefix(<<>>, s)
  BY <1>1, LenProperties DEF IsPrefix
<1>3. IsPrefix(s, <<>>) => s = <<>>
  BY <1>1, LenProperties, EmptySeq DEF IsPrefix
<1>. QED  BY <1>2, <1>3

\* A sequence with an element more, and one with its last element replaced
LEMMA Appended ==
    ASSUME NEW S, NEW s \in Seq(S), NEW e \in S
    PROVE  /\ Append(s, e) \in Seq(S)
           /\ Len(Append(s, e)) = Len(s) + 1
           /\ DOMAIN Append(s, e) = DOMAIN s \cup {Len(s) + 1}
           /\ DOMAIN s = 1..Len(s)
           /\ \A i \in DOMAIN s : Append(s, e)[i] = s[i]
           /\ Append(s, e)[Len(s) + 1] = e
OBVIOUS

\* A sequence with its last element replaced, as Continue does
LEMMA LastReplaced ==
    ASSUME NEW S, NEW s \in Seq(S), s # <<>>, NEW e \in S
    PROVE  /\ [s EXCEPT ![Len(s)] = e] \in Seq(S)
           /\ Len([s EXCEPT ![Len(s)] = e]) = Len(s)
           /\ DOMAIN [s EXCEPT ![Len(s)] = e] = DOMAIN s
           /\ DOMAIN s = 1..Len(s) /\ Len(s) \in DOMAIN s
           /\ \A i \in 1..(Len(s) - 1) : [s EXCEPT ![Len(s)] = e][i] = s[i]
           /\ [s EXCEPT ![Len(s)] = e][Len(s)] = e
OBVIOUS

\* A cache with an entry more
LEMMA NotedEntry ==
    ASSUME NEW S, NEW cache \in CachesOf(S), NEW key \in S, NEW r \in Nat
    PROVE  Noted(cache, key, r) \in CachesOf(S)
<1>1. PICK T \in SUBSET S : cache \in [T -> Nat]
  BY DEF CachesOf
<1>2. Noted(cache, key, r) \in [T \cup {key} -> Nat]
  BY <1>1 DEF Noted
<1>3. T \cup {key} \in SUBSET S
  OBVIOUS
<1>. QED  BY <1>2, <1>3 DEF CachesOf

\* A cache maps its keys to registers.
LEMMA CacheValues ==
    ASSUME NEW S, NEW cache \in CachesOf(S), NEW k \in DOMAIN cache
    PROVE  k \in S /\ cache[k] \in Nat
BY DEF CachesOf

\* The elements of a sequence with a register more
LEMMA RangeOfAppend ==
    ASSUME NEW s \in Seq(Nat), NEW n \in Nat
    PROVE  Range(Append(s, n)) = Range(s) \cup {n}
BY Appended DEF Range

\* The empty sequence has no elements.
LEMMA RangeOfEmpty == Range(<<>>) = {}
BY DEF Range

-----------------------------------------------------------------------------
(* The steps of operations                                                 *)

\* The tasks are those that ScopingAssumption is about.
LEMMA TaskFacts ==
    ASSUME NEW task \in Tasks
    PROVE  /\ task.do \in {"eval", "exec"} /\ task.e \in Operations
           /\ task.e.pure \in BOOLEAN /\ task.e.val \in Values
           /\ Len(task.e.args) \in Nat /\ DOMAIN task.e.args = 1..Len(task.e.args)
<1>1. PICK j \in Scoping : task = j.task
  BY DEF Tasks
<1>2. task.e \in Operations
  BY <1>1 DEF Operations
<1>. QED  BY <1>1, <1>2, ScopingAssumption DEF Values

\* The steps of each operation
LEMMA StepsOfExpression ==
    ASSUME NEW e
    PROVE  LET arg(i) == EvalOp(e.args[i])
           IN  /\ e.op \in {"const", "nonlocal"} => EvalSteps(e) = <<Constant(e.val)>>
               /\ e.op = "ref" => EvalSteps(e) = <<Variable(e.val)>>
               /\ e.op \in {"+", "<"} => EvalSteps(e) = <<arg(1), arg(2), Value(e.op)>>
               /\ e.op = "if" => EvalSteps(e) = <<arg(1), arg(2), arg(3), Value("select")>>
               /\ e.op = "call" => EvalSteps(e) = <<arg(2), Enter, arg(1)>>
               /\ e.op = "do" => EvalSteps(e) =
                     [i \in DOMAIN e.args |->
                         IF i = Len(e.args) THEN arg(i) ELSE ExecOp(e.args[i])]
               /\ e.op \notin {"const", "nonlocal", "ref", "+", "<", "if", "call", "do"}
                     => EvalSteps(e) = <<>>
BY DEF EvalSteps

\* The steps of each statement
LEMMA StepsOfStatement ==
    ASSUME NEW s
    PROVE  LET arg(i) == EvalOp(s.args[i])
               statement(i) == ExecOp(s.args[i])
           IN  /\ s.op = "block" => ExecSteps(s) = [i \in DOMAIN s.args |-> statement(i)]
               /\ s.op = "local" => ExecSteps(s) = <<arg(1), Bind(s.val)>>
               /\ s.op = "var" => ExecSteps(s) = <<arg(1), Value("copy"), Bind(s.val)>>
               /\ s.op = "assign" => ExecSteps(s) = <<arg(1), Store(s.val)>>
               /\ s.op = "when" => ExecSteps(s) = <<arg(1), Open("if"), statement(2)>>
               /\ s.op = "if" => ExecSteps(s) =
                     <<arg(1), Open("if"), statement(2), Open("else"), statement(3)>>
               /\ s.op = "while" => ExecSteps(s) =
                     <<Open("while"), arg(1), Break("break_unless"), statement(2)>>
               /\ s.op = "for" /\ Len(s.args) = 4 => ExecSteps(s) =
                     <<arg(1), arg(2), arg(3), OpenFor(s.val), statement(4)>>
               /\ s.op = "for" /\ Len(s.args) # 4 => ExecSteps(s) =
                     <<arg(1), arg(2), arg(3), OpenFor(s.val), arg(5), Break("break_if"),
                       statement(4)>>
               /\ s.op \notin {"block", "local", "var", "assign", "when", "if", "while", "for"}
                     => ExecSteps(s) = <<>>
BY DEF ExecSteps, BindMutable

\* The steps of an operation are a sequence.
LEMMA StepsDomain ==
    ASSUME NEW task \in Tasks
    PROVE  \E n \in Nat : DOMAIN Steps(task) = 1..n
<1>. DEFINE e == task.e
<1>1. Len(e.args) \in Nat /\ DOMAIN e.args = 1..Len(e.args)
  BY TaskFacts
<1>2. CASE task.do = "eval"
  <2>1. CASE e.op \in {"const", "nonlocal", "ref"}
    <3>1. DOMAIN EvalSteps(e) = 1..1
      BY <2>1, StepsOfExpression
    <3>. QED  BY <1>2, <3>1 DEF Steps
  <2>2. CASE e.op \in {"+", "<", "call"}
    <3>1. DOMAIN EvalSteps(e) = 1..3
      BY <2>2, StepsOfExpression
    <3>. QED  BY <1>2, <3>1 DEF Steps
  <2>3. CASE e.op = "if"
    <3>1. DOMAIN EvalSteps(e) = 1..4
      BY <2>3, StepsOfExpression
    <3>. QED  BY <1>2, <3>1 DEF Steps
  <2>4. CASE e.op = "do"
    <3>1. DOMAIN EvalSteps(e) = 1..Len(e.args)
      BY <1>1, <2>4, StepsOfExpression
    <3>. QED  BY <1>1, <1>2, <3>1 DEF Steps
  <2>5. CASE e.op \notin {"const", "nonlocal", "ref", "+", "<", "if", "call", "do"}
    <3>1. DOMAIN EvalSteps(e) = 1..0
      BY <2>5, StepsOfExpression
    <3>. QED  BY <1>2, <3>1 DEF Steps
  <2>. QED  BY <2>1, <2>2, <2>3, <2>4, <2>5
<1>3. CASE task.do # "eval"
  <2>1. CASE e.op = "block"
    <3>1. DOMAIN ExecSteps(e) = 1..Len(e.args)
      BY <1>1, <2>1, StepsOfStatement
    <3>. QED  BY <1>1, <1>3, <3>1 DEF Steps
  <2>2. CASE e.op \in {"local", "assign"}
    <3>1. DOMAIN ExecSteps(e) = 1..2
      BY <2>2, StepsOfStatement
    <3>. QED  BY <1>3, <3>1 DEF Steps
  <2>3. CASE e.op \in {"var", "when"}
    <3>1. DOMAIN ExecSteps(e) = 1..3
      BY <2>3, StepsOfStatement
    <3>. QED  BY <1>3, <3>1 DEF Steps
  <2>4. CASE e.op = "while"
    <3>1. DOMAIN ExecSteps(e) = 1..4
      BY <2>4, StepsOfStatement
    <3>. QED  BY <1>3, <3>1 DEF Steps
  <2>5. CASE e.op = "if"
    <3>1. DOMAIN ExecSteps(e) = 1..5
      BY <2>5, StepsOfStatement
    <3>. QED  BY <1>3, <3>1 DEF Steps
  <2>6. CASE e.op = "for"
    <3>1. DOMAIN ExecSteps(e) = 1..5 \/ DOMAIN ExecSteps(e) = 1..7
      BY <2>6, StepsOfStatement
    <3>. QED  BY <1>3, <3>1 DEF Steps
  <2>7. CASE e.op \notin {"block", "local", "var", "assign", "when", "if", "while", "for"}
    <3>1. DOMAIN ExecSteps(e) = 1..0
      BY <2>7, StepsOfStatement
    <3>. QED  BY <1>3, <3>1 DEF Steps
  <2>. QED  BY <2>1, <2>2, <2>3, <2>4, <2>5, <2>6, <2>7
<1>. QED  BY <1>2, <1>3

\* What an operation that is evaluated can do at a step
LEMMA EvalStepFacts ==
    ASSUME NEW e, NEW p \in DOMAIN EvalSteps(e)
    PROVE  LET step == EvalSteps(e)[p]
           IN  /\ step.do \in {"eval", "exec", "enter", "constant", "variable", "value"}
               /\ step.do = "constant" => step.val = e.val
               /\ step.do = "value" => step.op \in {"+", "<", "select"}
               /\ step.do = "enter" => e.op = "call" /\ step = Enter
               /\ step.do \in {"exec", "enter", "variable"} =>
                     e.op \notin {"const", "+", "<", "if"}
               /\ step.do \in {"eval", "exec"} => step = [do |-> step.do, e |-> step.e]
<1>. USE DEF EvalOp, ExecOp, Enter, Constant, Variable, Value
<1>1. CASE e.op \in {"const", "nonlocal"}
  BY <1>1, StepsOfExpression
<1>2. CASE e.op = "ref"
  BY <1>2, StepsOfExpression
<1>3. CASE e.op \in {"+", "<"}
  <2>1. EvalSteps(e) = <<EvalOp(e.args[1]), EvalOp(e.args[2]), Value(e.op)>>
    BY <1>3, StepsOfExpression
  <2>. QED  BY <1>3, <2>1
<1>4. CASE e.op = "if"
  BY <1>4, StepsOfExpression
<1>5. CASE e.op = "call"
  BY <1>5, StepsOfExpression
<1>6. CASE e.op = "do"
  BY <1>6, StepsOfExpression
<1>7. CASE e.op \notin {"const", "nonlocal", "ref", "+", "<", "if", "call", "do"}
  BY <1>7, StepsOfExpression
<1>. QED  BY <1>1, <1>2, <1>3, <1>4, <1>5, <1>6, <1>7

\* What an operation that is executed can do at a step
LEMMA ExecStepFacts ==
    ASSUME NEW e, NEW p \in DOMAIN ExecSteps(e)
    PROVE  LET step == ExecSteps(e)[p]
           IN  /\ step.do \in {"eval", "exec", "value", "bind", "store", "break", "open", "for"}
               /\ step.do = "value" => step.op = "copy"
               /\ step.do = "break" => step.op \in {"break_if", "break_unless"}
               /\ step.do = "open" => step.op \in {"if", "else", "while"}
               /\ step.do = "bind" => e.op \in {"local", "var"}
               /\ step.do \in {"eval", "exec"} => step = [do |-> step.do, e |-> step.e]
<1>1. CASE e.op = "block"
  <2>1. ExecSteps(e) =
        [i \in DOMAIN e.args |-> ExecOp(e.args[i])]
    BY <1>1, StepsOfStatement
  <2>. QED  BY <1>1, <2>1 DEF EvalOp, ExecOp, Value, Bind, Store, Break, Open, OpenFor
<1>2. CASE e.op = "local"
  <2>1. ExecSteps(e) =
        <<EvalOp(e.args[1]), Bind(e.val)>>
    BY <1>2, StepsOfStatement
  <2>. QED  BY <1>2, <2>1 DEF EvalOp, ExecOp, Value, Bind, Store, Break, Open, OpenFor
<1>3. CASE e.op = "var"
  <2>1. ExecSteps(e) =
        <<EvalOp(e.args[1]), Value("copy"), Bind(e.val)>>
    BY <1>3, StepsOfStatement
  <2>. QED  BY <1>3, <2>1 DEF EvalOp, ExecOp, Value, Bind, Store, Break, Open, OpenFor
<1>4. CASE e.op = "assign"
  <2>1. ExecSteps(e) =
        <<EvalOp(e.args[1]), Store(e.val)>>
    BY <1>4, StepsOfStatement
  <2>. QED  BY <1>4, <2>1 DEF EvalOp, ExecOp, Value, Bind, Store, Break, Open, OpenFor
<1>5. CASE e.op = "when"
  <2>1. ExecSteps(e) =
        <<EvalOp(e.args[1]), Open("if"), ExecOp(e.args[2])>>
    BY <1>5, StepsOfStatement
  <2>. QED  BY <1>5, <2>1 DEF EvalOp, ExecOp, Value, Bind, Store, Break, Open, OpenFor
<1>6. CASE e.op = "if"
  <2>1. ExecSteps(e) =
        <<EvalOp(e.args[1]), Open("if"), ExecOp(e.args[2]), Open("else"),
          ExecOp(e.args[3])>>
    BY <1>6, StepsOfStatement
  <2>. QED  BY <1>6, <2>1 DEF EvalOp, ExecOp, Value, Bind, Store, Break, Open, OpenFor
<1>7. CASE e.op = "while"
  <2>1. ExecSteps(e) =
        <<Open("while"), EvalOp(e.args[1]), Break("break_unless"), ExecOp(e.args[2])>>
    BY <1>7, StepsOfStatement
  <2>. QED  BY <1>7, <2>1 DEF EvalOp, ExecOp, Value, Bind, Store, Break, Open, OpenFor
<1>8. CASE e.op = "for" /\ Len(e.args) = 4
  <2>1. ExecSteps(e) =
        <<EvalOp(e.args[1]), EvalOp(e.args[2]), EvalOp(e.args[3]),
          OpenFor(e.val), ExecOp(e.args[4])>>
    BY <1>8, StepsOfStatement
  <2>. QED  BY <1>8, <2>1 DEF EvalOp, ExecOp, Value, Bind, Store, Break, Open, OpenFor
<1>9. CASE e.op = "for" /\ Len(e.args) # 4
  <2>1. ExecSteps(e) =
        <<EvalOp(e.args[1]), EvalOp(e.args[2]), EvalOp(e.args[3]),
          OpenFor(e.val), EvalOp(e.args[5]), Break("break_if"), ExecOp(e.args[4])>>
    BY <1>9, StepsOfStatement
  <2>. QED  BY <1>9, <2>1 DEF EvalOp, ExecOp, Value, Bind, Store, Break, Open, OpenFor
<1>10. CASE e.op \notin {"block", "local", "var", "assign", "when", "if", "while", "for"}
  <2>1. ExecSteps(e) =
        <<>>
    BY <1>10, StepsOfStatement
  <2>. QED  BY <1>10, <2>1 DEF EvalOp, ExecOp, Value, Bind, Store, Break, Open, OpenFor
<1>. QED  BY <1>1, <1>2, <1>3, <1>4, <1>5, <1>6, <1>7, <1>8, <1>9, <1>10

\* A task opens a block once, but for the two of an if, which reads its
\* condition before the first.
LEMMA OpeningFacts ==
    ASSUME NEW e, NEW p \in DOMAIN ExecSteps(e)
    PROVE  LET step(i) == ExecSteps(e)[i]
           IN  /\ step(p).do = "bind" =>
                    \A i \in DOMAIN ExecSteps(e) : step(i).do \notin {"open", "for"}
               /\ \A i \in DOMAIN ExecSteps(e) :
                    i < p /\ step(i).do \in {"open", "for"} =>
                       /\ step(p).do \in {"open", "for"} => e.op = "if" /\ step(p).do = "open"
                       /\ e.op = "if" => step(p).do \in {"exec", "open"}
<1>1. CASE e.op = "block"
  <2>1. ExecSteps(e) =
        [i \in DOMAIN e.args |-> ExecOp(e.args[i])]
    BY <1>1, StepsOfStatement
  <2>. QED  BY <1>1, <2>1 DEF EvalOp, ExecOp, Value, Bind, Store, Break, Open, OpenFor
<1>2. CASE e.op = "local"
  <2>1. ExecSteps(e) =
        <<EvalOp(e.args[1]), Bind(e.val)>>
    BY <1>2, StepsOfStatement
  <2>. QED  BY <1>2, <2>1 DEF EvalOp, ExecOp, Value, Bind, Store, Break, Open, OpenFor
<1>3. CASE e.op = "var"
  <2>1. ExecSteps(e) =
        <<EvalOp(e.args[1]), Value("copy"), Bind(e.val)>>
    BY <1>3, StepsOfStatement
  <2>. QED  BY <1>3, <2>1 DEF EvalOp, ExecOp, Value, Bind, Store, Break, Open, OpenFor
<1>4. CASE e.op = "assign"
  <2>1. ExecSteps(e) =
        <<EvalOp(e.args[1]), Store(e.val)>>
    BY <1>4, StepsOfStatement
  <2>. QED  BY <1>4, <2>1 DEF EvalOp, ExecOp, Value, Bind, Store, Break, Open, OpenFor
<1>5. CASE e.op = "when"
  <2>1. ExecSteps(e) =
        <<EvalOp(e.args[1]), Open("if"), ExecOp(e.args[2])>>
    BY <1>5, StepsOfStatement
  <2>. QED  BY <1>5, <2>1 DEF EvalOp, ExecOp, Value, Bind, Store, Break, Open, OpenFor
<1>6. CASE e.op = "if"
  <2>1. ExecSteps(e) =
        <<EvalOp(e.args[1]), Open("if"), ExecOp(e.args[2]), Open("else"),
          ExecOp(e.args[3])>>
    BY <1>6, StepsOfStatement
  <2>. QED  BY <1>6, <2>1 DEF EvalOp, ExecOp, Value, Bind, Store, Break, Open, OpenFor
<1>7. CASE e.op = "while"
  <2>1. ExecSteps(e) =
        <<Open("while"), EvalOp(e.args[1]), Break("break_unless"), ExecOp(e.args[2])>>
    BY <1>7, StepsOfStatement
  <2>. QED  BY <1>7, <2>1 DEF EvalOp, ExecOp, Value, Bind, Store, Break, Open, OpenFor
<1>8. CASE e.op = "for" /\ Len(e.args) = 4
  <2>1. ExecSteps(e) =
        <<EvalOp(e.args[1]), EvalOp(e.args[2]), EvalOp(e.args[3]),
          OpenFor(e.val), ExecOp(e.args[4])>>
    BY <1>8, StepsOfStatement
  <2>. QED  BY <1>8, <2>1 DEF EvalOp, ExecOp, Value, Bind, Store, Break, Open, OpenFor
<1>9. CASE e.op = "for" /\ Len(e.args) # 4
  <2>1. ExecSteps(e) =
        <<EvalOp(e.args[1]), EvalOp(e.args[2]), EvalOp(e.args[3]),
          OpenFor(e.val), EvalOp(e.args[5]), Break("break_if"), ExecOp(e.args[4])>>
    BY <1>9, StepsOfStatement
  <2>. QED  BY <1>9, <2>1 DEF EvalOp, ExecOp, Value, Bind, Store, Break, Open, OpenFor
<1>10. CASE e.op \notin {"block", "local", "var", "assign", "when", "if", "while", "for"}
  <2>1. ExecSteps(e) =
        <<>>
    BY <1>10, StepsOfStatement
  <2>. QED  BY <1>10, <2>1 DEF EvalOp, ExecOp, Value, Bind, Store, Break, Open, OpenFor
<1>. QED  BY <1>1, <1>2, <1>3, <1>4, <1>5, <1>6, <1>7, <1>8, <1>9, <1>10

\* The analyser's judgements about a task and its steps
LEMMA JudgedFacts ==
    ASSUME NEW task, NEW scope, [task |-> task, scope |-> scope] \in Scoping
    PROVE  /\ task \in Tasks /\ scope \in SUBSET Slots
           /\ \A p \in DOMAIN Steps(task) :
                 LET step == Steps(task)[p]
                     now == ScopeAt(task, scope, p)
                 IN  /\ step.do \in {"eval", "exec"} => [task |-> step, scope |-> now] \in Scoping
                     /\ step.do \in {"variable", "store"} => step.slot \in now
                     /\ step.do \in {"bind", "for"} => step.slot \in Slots \ now
<1>. DEFINE j == [task |-> task, scope |-> scope]
<1>1. j.task = task /\ j.scope = scope
  OBVIOUS
<1>2. task \in Tasks
  BY <1>1 DEF Tasks
<1>3. j.scope \in SUBSET Slots /\ WellScoped(j)
  BY ScopingAssumption
<1>. QED  BY <1>1, <1>2, <1>3 DEF WellScoped

\* A definition is an item of a compound statement.
LEMMA DefinitionIsItem ==
    ASSUME NEW task, NEW scope, [task |-> task, scope |-> scope] \in Scoping,
           NEW p \in DOMAIN Steps(task), Steps(task)[p].do = "exec",
           Steps(task)[p].e.op \in {"local", "var"}
    PROVE  task.e.op \in {"do", "block"}
<1>. DEFINE j == [task |-> task, scope |-> scope]
<1>1. j.task = task /\ WellScoped(j)
  BY ScopingAssumption
<1>. QED  BY <1>1 DEF WellScoped

\* What a task can do at a step
LEMMA StepFacts ==
    ASSUME NEW task \in Tasks, NEW p \in DOMAIN Steps(task)
    PROVE  LET step == Steps(task)[p]
           IN  /\ step.do = "constant" => task.do = "eval" /\ step.val \in Values
               /\ step.do = "value" => step.op \in {"+", "<", "select", "copy"}
               /\ step.do = "break" => step.op \in {"break_if", "break_unless"}
               /\ step.do = "open" => step.op \in {"if", "else", "while"}
               /\ step.do = "enter" => task.do = "eval" /\ task.e.op = "call" /\ step = Enter
               /\ step.do \in {"bind", "store", "break", "open", "for"} => task.do = "exec"
               /\ step.do = "variable" => task.do = "eval"
<1>1. task.do \in {"eval", "exec"} /\ task.e.val \in Values
  BY TaskFacts
<1>2. CASE task.do = "eval"
  BY <1>1, <1>2, EvalStepFacts DEF Steps
<1>3. CASE task.do = "exec"
  BY <1>3, ExecStepFacts DEF Steps
<1>. QED  BY <1>1, <1>2, <1>3

\* A pure operation is computed from constants and pure operations.
LEMMA PureFacts ==
    ASSUME NoPureCalls, NEW task \in Tasks, IsPure(task)
    PROVE  /\ 1 \in DOMAIN Steps(task)
           /\ \A p \in DOMAIN Steps(task) :
                 /\ Steps(task)[p].do \in {"eval", "constant", "value"}
                 /\ Steps(task)[p].do = "eval" => IsPure(Steps(task)[p])
<1>1. task.do = "eval" /\ task.e.pure /\ WellPure(task.e)
  BY DEF IsPure, Tasks, NoPureCalls
<1>2. task.e.op \in {"const", "+", "<", "if"}
  BY <1>1 DEF WellPure
<1>3. 1 \in DOMAIN Steps(task)
  BY <1>1, <1>2, StepsOfExpression DEF Steps
<1>4. ASSUME NEW p \in DOMAIN Steps(task)
      PROVE  /\ Steps(task)[p].do \in {"eval", "constant", "value"}
             /\ Steps(task)[p].do = "eval" => IsPure(Steps(task)[p])
  <2>1. Steps(task) = EvalSteps(task.e)
    BY <1>1 DEF Steps
  <2>2. Steps(task)[p].do \in {"eval", "constant", "value"}
    BY <1>2, <2>1, EvalStepFacts
  <2>3. Steps(task)[p].do = "eval" => IsPure(Steps(task)[p])
    BY <1>1, <2>1 DEF WellPure, IsPure
  <2>. QED  BY <2>2, <2>3
<1>. QED  BY <1>3, <1>4

\* The scope grows with every variable that is bound, and is that of the called
\* function once it is entered.
LEMMA ScopeAtStart ==
    ASSUME NEW task \in Tasks, NEW scope
    PROVE  ScopeAt(task, scope, 1) = scope
<1>1. {p \in DOMAIN Steps(task) : p < 1} = {}
  BY StepsDomain
<1>. QED  BY <1>1 DEF ScopeAt

\* The scope after a step: with the variables that it binds, or that of the
\* called function when it enters one
LEMMA ScopeAfterStep ==
    ASSUME NEW task \in Tasks, NEW scope, NEW pc \in DOMAIN Steps(task)
    PROVE  LET step == Steps(task)[pc]
           IN  /\ step.do # "enter" =>
                     ScopeAt(task, scope, pc + 1) = ScopeAt(task, scope, pc) \cup BoundBy(step)
               /\ step.do = "enter" => ScopeAt(task, scope, pc + 1) = {Parameter}
<1>. DEFINE before(n) == {p \in DOMAIN Steps(task) : p < n}
<1>1. before(pc + 1) = before(pc) \cup {pc}
  BY StepsDomain
<1>. DEFINE entered(n) == \E p \in before(n) : Steps(task)[p] = Enter
            bound(n) == UNION {BoundBy(Steps(task)[p]) : p \in before(n)}
<1>2. \A n : ScopeAt(task, scope, n) = (IF entered(n) THEN {Parameter} ELSE scope) \cup bound(n)
  BY DEF ScopeAt
<1>3. ASSUME Steps(task)[pc].do # "enter"
      PROVE  ScopeAt(task, scope, pc + 1) =
                ScopeAt(task, scope, pc) \cup BoundBy(Steps(task)[pc])
  <2>1. Steps(task)[pc] # Enter
    BY <1>3 DEF Enter
  <2>2. entered(pc + 1) <=> entered(pc)
    BY <1>1, <2>1
  <2>3. /\ \A x : x \in bound(pc) <=> \E p \in before(pc) : x \in BoundBy(Steps(task)[p])
        /\ \A x : x \in bound(pc + 1) <=>
                     \E p \in before(pc + 1) : x \in BoundBy(Steps(task)[p])
    OBVIOUS
  <2>. HIDE DEF bound, entered
  <2>4. bound(pc + 1) = bound(pc) \cup BoundBy(Steps(task)[pc])
    <3>. HIDE DEF before
    <3>. QED  BY <1>1, <2>3
  <2>. QED  BY <1>2, <2>2, <2>4
<1>4. ASSUME Steps(task)[pc].do = "enter"
      PROVE  ScopeAt(task, scope, pc + 1) = {Parameter}
  <2>1. task.do = "eval" /\ task.e.op = "call" /\ Steps(task)[pc] = Enter
    BY <1>4, StepFacts
  <2>2. Steps(task) = <<EvalOp(task.e.args[2]), Enter, EvalOp(task.e.args[1])>>
    BY <2>1, StepsOfExpression DEF Steps
  <2>3. pc = 2
    BY <1>4, <2>2 DEF EvalOp
  <2>4. \A p \in before(pc + 1) : BoundBy(Steps(task)[p]) = {}
    BY <2>2, <2>3 DEF BoundBy, EvalOp, Enter
  <2>5. pc \in before(pc + 1)
    BY <1>1
  <2>6. UNION {BoundBy(Steps(task)[p]) : p \in before(pc + 1)} = {}
    BY <2>4
  <2>7. \E p \in before(pc + 1) : Steps(task)[p] = Enter
    BY <2>1, <2>5
  <2>. QED  BY <2>6, <2>7 DEF ScopeAt
<1>. QED  BY <1>3, <1>4

\* A definition has bound its variable when it is done.
LEMMA DefinitionHasBind ==
    ASSUME NEW task \in Tasks, task.do = "exec", task.e.op \in {"local", "var"}
    PROVE  \E p \in DOMAIN Steps(task) : Steps(task)[p] = Bind(task.e.val)
<1>1. Steps(task) = ExecSteps(task.e)
  BY DEF Steps
<1>2. CASE task.e.op = "local"
  <2>1. Steps(task) = <<EvalOp(task.e.args[1]), Bind(task.e.val)>>
    BY <1>1, <1>2, StepsOfStatement
  <2>2. 2 \in DOMAIN Steps(task) /\ Steps(task)[2] = Bind(task.e.val)
    BY <2>1
  <2>. QED  BY <2>2
<1>3. CASE task.e.op = "var"
  <2>1. Steps(task) = <<EvalOp(task.e.args[1]), Value("copy"), Bind(task.e.val)>>
    BY <1>1, <1>3, StepsOfStatement
  <2>2. 3 \in DOMAIN Steps(task) /\ Steps(task)[3] = Bind(task.e.val)
    BY <2>1
  <2>. QED  BY <2>2
<1>. QED  BY <1>2, <1>3

\* The variable of a definition that is done is in scope.
LEMMA DefinitionBinds ==
    ASSUME NEW task \in Tasks, NEW scope, NEW pc \in Nat \ {0},
           task.do = "exec", task.e.op \in {"local", "var"}, pc \notin DOMAIN Steps(task)
    PROVE  task.e.val \in ScopeAt(task, scope, pc)
<1>. DEFINE before == {p \in DOMAIN Steps(task) : p < pc}
<1>1. PICK p \in DOMAIN Steps(task) : Steps(task)[p] = Bind(task.e.val)
  BY DefinitionHasBind
<1>2. p \in before
  BY StepsDomain
<1>3. BoundBy(Bind(task.e.val)) = {task.e.val}
  BY DEF BoundBy, Bind
<1>4. task.e.val \in UNION {BoundBy(Steps(task)[q]) : q \in before}
  BY <1>1, <1>2, <1>3
<1>. QED  BY <1>4 DEF ScopeAt

\* Only slots of the frame are in scope.
LEMMA BoundSlots ==
    ASSUME NEW task, NEW scope, [task |-> task, scope |-> scope] \in Scoping,
           NEW p \in DOMAIN Steps(task)
    PROVE  BoundBy(Steps(task)[p]) \subseteq Slots
<1>. DEFINE step == Steps(task)[p]
            now == ScopeAt(task, scope, p)
<1>1. CASE step.do \in {"bind", "for"}
  <2>1. BoundBy(step) = {step.slot}
    BY <1>1 DEF BoundBy
  <2>2. step.slot \in Slots
    BY <1>1, JudgedFacts
  <2>. QED  BY <2>1, <2>2
<1>2. CASE step.do = "exec"
  <2>1. [task |-> step, scope |-> now] \in Scoping
    BY <1>2, JudgedFacts
  <2>2. ASSUME step.e.op \in {"local", "var"}
        PROVE  step.e.val \in Slots
    <3>1. step \in Tasks
      BY <2>1, JudgedFacts
    <3>2. PICK q \in DOMAIN Steps(step) : Steps(step)[q] = Bind(step.e.val)
      BY <1>2, <2>2, <3>1, DefinitionHasBind
    <3>3. Bind(step.e.val).do = "bind" /\ Bind(step.e.val).slot = step.e.val
      BY DEF Bind
    <3>4. Steps(step)[q].slot \in Slots \ ScopeAt(step, now, q)
      <4>1. Steps(step)[q].do = "bind"
        BY <3>2, <3>3
      <4>. HIDE DEF step, now
      <4>. QED  BY <2>1, <4>1, JudgedFacts
    <3>. QED  BY <3>2, <3>3, <3>4
  <2>3. BoundBy(step) = IF step.e.op \in {"local", "var"} THEN {step.e.val} ELSE {}
    BY <1>2 DEF BoundBy
  <2>. HIDE DEF step
  <2>4. BoundBy(step) \subseteq Slots
    BY <2>2, <2>3
  <2>. QED  BY <2>4 DEF step
<1>3. CASE step.do \notin {"bind", "for", "exec"}
  BY <1>3 DEF BoundBy
<1>. QED  BY <1>1, <1>2, <1>3

\* The scope of an activation has only slots of the frame.
LEMMA ScopedSlots ==
    ASSUME NEW task, NEW scope, [task |-> task, scope |-> scope] \in Scoping, NEW n
    PROVE  ScopeAt(task, scope, n) \subseteq Slots
<1>1. scope \subseteq Slots /\ {Parameter} \subseteq Slots
  BY JudgedFacts, SlotsAssumption
<1>2. \A p \in DOMAIN Steps(task) : BoundBy(Steps(task)[p]) \subseteq Slots
  BY BoundSlots
<1>3. UNION {BoundBy(Steps(task)[p]) : p \in {p \in DOMAIN Steps(task) : p < n}} \subseteq Slots
  BY <1>2
<1>. QED  BY <1>1, <1>3 DEF ScopeAt

\* Whether a task has opened a block, from a step to the next
LEMMA OpenedAtStart ==
    ASSUME NEW a, a.task \in Tasks, a.pc = 1
    PROVE  ~Opened(a)
BY StepsDomain DEF Opened

\* A step opens a block or leaves open what was.
LEMMA OpenedAfterStep ==
    ASSUME NEW a, NEW b, a.task \in Tasks, a.pc \in DOMAIN Steps(a.task),
           b.task = a.task, b.pc = a.pc + 1
    PROVE  Opened(b) <=> Opened(a) \/ Steps(a.task)[a.pc].do \in {"open", "for"}
BY StepsDomain DEF Opened

\* What a task does when it has opened a block, and what it never does then
LEMMA OpenedFacts ==
    ASSUME NEW a, a.task \in Tasks, Opened(a)
    PROVE  /\ a.task.do = "exec"
           /\ a.pc \in DOMAIN Steps(a.task) =>
                 LET step == Steps(a.task)[a.pc]
                 IN  /\ step.do # "bind" /\ step.do # "for"
                     /\ step.do = "open" => a.task.e.op = "if"
                     /\ a.task.e.op = "if" => step.do \in {"exec", "open"}
<1>1. PICK p \in DOMAIN Steps(a.task) : p < a.pc /\ Steps(a.task)[p].do \in {"open", "for"}
  BY DEF Opened
<1>2. a.task.do = "exec"
  BY <1>1, StepFacts
<1>3. Steps(a.task) = ExecSteps(a.task.e)
  BY <1>2 DEF Steps
<1>. QED  BY <1>1, <1>2, <1>3, OpeningFacts

-----------------------------------------------------------------------------
(* Code with a line more                                                   *)

\* What is declared stays so, and what can be used at a block can be used in
\* the blocks inside it.
LEMMA DeclaredGrows ==
    ASSUME NEW cs \in Seq(Lines), NEW line \in Lines
    PROVE  /\ \A r : Declared(cs, r) => Declared(Append(cs, line), r)
           /\ Declares(line) => Declared(Append(cs, line), line.dst)
BY Appended DEF Declared

\* A line more leaves the registers known, and makes known the one it declares.
LEMMA KnownGrows ==
    ASSUME NEW bd \in Seq(Lines), NEW line \in Lines, NEW at \in Seq(Nat)
    PROVE  /\ \A r : Known(bd, r, at) => Known(Append(bd, line), r, at)
           /\ Declares(line) /\ IsPrefix(line.at, at) => Known(Append(bd, line), line.dst, at)
BY Appended DEF Known

\* A register known at a block is known in the blocks inside it.
LEMMA KnownInside ==
    ASSUME NEW bd \in Seq(Lines), NEW r, NEW at \in Seq(Nat), NEW inner \in Seq(Nat),
           IsPrefix(at, inner), Known(bd, r, at)
    PROVE  Known(bd, r, inner)
<1>1. PICK q \in DOMAIN bd : Declares(bd[q]) /\ bd[q].dst = r /\ IsPrefix(bd[q].at, at)
  BY DEF Known
<1>2. bd[q] \in Lines
  OBVIOUS
<1>3. IsPrefix(bd[q].at, inner)
  BY <1>1, <1>2, PrefixTransitive DEF Lines
<1>. QED  BY <1>1, <1>3 DEF Known

\* A register usable at a block is usable in the blocks inside it.
LEMMA UsableInside ==
    ASSUME NEW cs, NEW bd \in Seq(Lines), NEW r, NEW at \in Seq(Nat), NEW inner \in Seq(Nat),
           IsPrefix(at, inner), Usable(cs, bd, r, at)
    PROVE  Usable(cs, bd, r, inner)
BY KnownInside DEF Usable

\* One part of the code grows, by a line.
WithLine(code, code2, line) == code2 = Append(code, line)
Grows(cs, bd, cs2, bd2) ==
    \/ cs2 = cs /\ bd2 = bd
    \/ cs2 = cs /\ \E line \in Lines : WithLine(bd, bd2, line)
    \/ bd2 = bd /\ \E line \in Lines : WithLine(cs, cs2, line)

\* A line written to either part leaves the registers usable.
LEMMA UsableGrows ==
    ASSUME NEW cs \in Seq(Lines), NEW bd \in Seq(Lines), NEW cs2, NEW bd2,
           Grows(cs, bd, cs2, bd2), NEW at \in Seq(Nat)
    PROVE  /\ \A r : Declared(cs, r) => Declared(cs2, r)
           /\ \A r : Usable(cs, bd, r, at) => Usable(cs2, bd2, r, at)
<1>1. CASE cs2 = cs /\ bd2 = bd
  BY <1>1
<1>2. CASE cs2 = cs /\ \E line \in Lines : WithLine(bd, bd2, line)
  BY <1>2, KnownGrows DEF Usable, WithLine
<1>3. CASE bd2 = bd /\ \E line \in Lines : WithLine(cs, cs2, line)
  BY <1>3, DeclaredGrows DEF Usable, WithLine
<1>. QED  BY <1>1, <1>2, <1>3 DEF Grows

\* A block goes on with a line in it, and a new one begins.
LEMMA OpenGrows ==
    ASSUME NEW bd \in Seq(Lines), NEW line \in Lines, NEW at \in Seq(Nat),
           OpenAt(bd, at), IsPrefix(at, line.at)
    PROVE  OpenAt(Append(bd, line), at)
<1>. DEFINE bd2 == Append(bd, line)
<1>1. /\ DOMAIN bd2 = DOMAIN bd \cup {Len(bd) + 1} /\ DOMAIN bd = 1..Len(bd)
      /\ \A q \in DOMAIN bd : bd2[q] = bd[q]
      /\ bd2[Len(bd) + 1] = line
  BY Appended
<1>. HIDE DEF bd2
<1>2. ASSUME NEW i \in DOMAIN at
      PROVE  /\ at[i] \in DOMAIN bd2 /\ bd2[at[i]].op \in Openers
             /\ \A q \in DOMAIN bd2 : q > at[i] => IsPrefix(SubSeq(at, 1, i), bd2[q].at)
  <2>1. /\ at[i] \in DOMAIN bd /\ bd[at[i]].op \in Openers
        /\ \A q \in DOMAIN bd : q > at[i] => IsPrefix(SubSeq(at, 1, i), bd[q].at)
    BY DEF OpenAt
  <2>2. IsPrefix(SubSeq(at, 1, i), line.at)
    <3>1. i \in 1..Len(at) /\ line.at \in Seq(Nat)
      BY DEF Lines
    <3>2. SubSeq(at, 1, i) \in Seq(Nat) /\ IsPrefix(SubSeq(at, 1, i), at)
      BY <3>1, Beginning
    <3>. QED  BY <3>1, <3>2, PrefixTransitive
  <2>. QED  BY <1>1, <2>1, <2>2
<1>3. OpenAt(bd2, at)
  BY <1>2 DEF OpenAt
<1>. QED  BY <1>3 DEF bd2

\* A line that opens a block adds it to the blocks that have not ended.
LEMMA OpenNew ==
    ASSUME NEW bd \in Seq(Lines), NEW line \in Lines, NEW base \in Seq(Nat),
           OpenAt(bd, base), IsPrefix(base, line.at), line.op \in Openers
    PROVE  OpenAt(Append(bd, line), Append(base, Len(bd) + 1))
<1>. DEFINE bd2 == Append(bd, line)
            at == Append(base, Len(bd) + 1)
<1>1. OpenAt(bd2, base)
  BY OpenGrows
<1>2. /\ DOMAIN bd2 = DOMAIN bd \cup {Len(bd) + 1} /\ DOMAIN bd = 1..Len(bd)
      /\ bd2[Len(bd) + 1] = line /\ Len(bd) \in Nat
  BY Appended
<1>3. /\ at \in Seq(Nat) /\ IsPrefix(base, at)
      /\ DOMAIN at = DOMAIN base \cup {Len(base) + 1} /\ DOMAIN base = 1..Len(base)
      /\ at[Len(base) + 1] = Len(bd) + 1 /\ \A i \in DOMAIN base : at[i] = base[i]
  BY <1>2, Appended, PrefixOfAppend
<1>. HIDE DEF bd2, at
<1>4. ASSUME NEW i \in DOMAIN at
      PROVE  /\ at[i] \in DOMAIN bd2 /\ bd2[at[i]].op \in Openers
             /\ \A q \in DOMAIN bd2 : q > at[i] => IsPrefix(SubSeq(at, 1, i), bd2[q].at)
  <2>1. CASE i \in DOMAIN base
    <3>1. SubSeq(base, 1, i) = SubSeq(at, 1, i)
      BY <1>3, <2>1, SharedBeginning
    <3>. QED  BY <1>1, <1>3, <2>1, <3>1 DEF OpenAt
  <2>2. CASE i = Len(base) + 1
    BY <1>2, <1>3, <2>2
  <2>. QED  BY <1>3, <2>1, <2>2
<1>5. OpenAt(bd2, at)
  BY <1>4 DEF OpenAt
<1>. QED  BY <1>5 DEF bd2, at

\* A line of the body that reads what can be used in its block, in a block that
\* has not ended, and declares nothing or the next register
LEMMA BodyLine ==
    ASSUME NEW cs \in Seq(Lines), NEW bd \in Seq(Lines), NEW n \in Nat, CodeOK(cs, bd, n),
           NEW line \in Lines, NEW m \in {n, n + 1},
           \A r \in Reads(line) : Usable(cs, bd, r, line.at),
           OpenAt(Append(bd, line), line.at),
           Declares(line) => line.dst = n /\ n > 0 /\ m = n + 1
    PROVE  CodeOK(cs, Append(bd, line), m)
<1>. DEFINE bd2 == Append(bd, line)
            k == Len(bd) + 1
<1>1. /\ DOMAIN bd2 = DOMAIN bd \cup {k} /\ DOMAIN bd = 1..Len(bd) /\ Len(bd) \in Nat
      /\ \A q \in DOMAIN bd : bd2[q] = bd[q]
      /\ bd2[k] = line
  BY Appended
<1>2. ConstantsOK(cs, n) /\ BodyOK(cs, bd, n) /\ Disjoint(cs, bd) /\ Nested(bd)
  BY DEF CodeOK
<1>3. \A r \in Reads(line) :
         \/ r = 0
         \/ Declared(cs, r)
         \/ \E q \in 1..Len(bd) : Declares(bd[q]) /\ bd[q].dst = r /\ IsPrefix(bd[q].at, line.at)
  BY <1>1 DEF Usable, Known
<1>4. OpenAt(bd2, line.at)
  OBVIOUS
<1>. HIDE DEF bd2
<1>5. ConstantsOK(cs, m)
  <2>1. 1..(n - 1) \subseteq 1..(m - 1)
    OBVIOUS
  <2>. QED  BY <1>2, <2>1 DEF ConstantsOK
<1>6. BodyOK(cs, bd2, m)
  <2>1. ASSUME NEW p \in DOMAIN bd2, NEW r \in Reads(bd2[p])
        PROVE  \/ r = 0
               \/ Declared(cs, r)
               \/ \E q \in 1..(p - 1) : /\ Declares(bd2[q]) /\ bd2[q].dst = r
                                        /\ IsPrefix(bd2[q].at, bd2[p].at)
    <3>1. CASE p \in DOMAIN bd
      <4>1. \/ r = 0
            \/ Declared(cs, r)
            \/ \E q \in 1..(p - 1) : /\ Declares(bd[q]) /\ bd[q].dst = r
                                     /\ IsPrefix(bd[q].at, bd[p].at)
        BY <1>1, <1>2, <2>1, <3>1 DEF BodyOK
      <4>2. 1..(p - 1) \subseteq DOMAIN bd
        BY <1>1, <3>1
      <4>. QED  BY <1>1, <3>1, <4>1, <4>2
    <3>2. CASE p = k
      <4>1. 1..(p - 1) = DOMAIN bd
        BY <1>1, <3>2
      <4>. QED  BY <1>1, <1>3, <2>1, <3>2, <4>1
    <3>. QED  BY <1>1, <3>1, <3>2
  <2>2. ASSUME NEW p \in DOMAIN bd2, Declares(bd2[p])
        PROVE  /\ bd2[p].dst \in 1..(m - 1)
               /\ \A q \in DOMAIN bd2 : Declares(bd2[q]) /\ q # p => bd2[q].dst # bd2[p].dst
    <3>1. \A q \in DOMAIN bd : Declares(bd[q]) =>
             /\ bd[q].dst \in 1..(n - 1)
             /\ \A o \in DOMAIN bd : Declares(bd[o]) /\ o # q => bd[o].dst # bd[q].dst
      BY <1>2 DEF BodyOK
    <3>2. \A i \in 1..(n - 1) : i # n /\ i \in 1..(m - 1)
      OBVIOUS
    <3>3. CASE p \in DOMAIN bd
      BY <1>1, <2>2, <3>1, <3>2, <3>3
    <3>4. CASE p = k
      <4>1. bd2[p].dst = n /\ n \in 1..(m - 1)
        BY <1>1, <2>2, <3>4
      <4>. QED  BY <1>1, <2>2, <3>1, <3>2, <3>4, <4>1
    <3>. QED  BY <1>1, <3>3, <3>4
  <2>. QED  BY <2>1, <2>2 DEF BodyOK
<1>7. Disjoint(cs, bd2)
  <2>1. \A p \in DOMAIN cs : Declares(cs[p]) => cs[p].dst \in 1..(n - 1)
    BY <1>2 DEF ConstantsOK
  <2>2. n \notin 1..(n - 1)
    OBVIOUS
  <2>. QED  BY <1>1, <1>2, <2>1, <2>2 DEF Disjoint
<1>8. Nested(bd2)
  <2>1. ASSUME NEW p \in DOMAIN bd2, NEW i \in DOMAIN bd2[p].at
        PROVE  LET b == bd2[p].at[i]
               IN  /\ b \in 1..p /\ bd2[b].op \in Openers
                   /\ \A q \in (b + 1)..p : IsPrefix(SubSeq(bd2[p].at, 1, i), bd2[q].at)
    <3>1. CASE p \in DOMAIN bd
      <4>. DEFINE b == bd[p].at[i]
      <4>1. /\ b \in 1..p /\ bd[b].op \in Openers
            /\ \A q \in (b + 1)..p : IsPrefix(SubSeq(bd[p].at, 1, i), bd[q].at)
        BY <1>1, <1>2, <2>1, <3>1 DEF Nested
      <4>2. b \in DOMAIN bd /\ (b + 1)..p \subseteq DOMAIN bd
        BY <1>1, <3>1, <4>1
      <4>. QED  BY <1>1, <3>1, <4>1, <4>2
    <3>2. CASE p = k
      <4>. DEFINE b == line.at[i]
      <4>1. /\ b \in DOMAIN bd2 /\ bd2[b].op \in Openers
            /\ \A q \in DOMAIN bd2 : q > b => IsPrefix(SubSeq(line.at, 1, i), bd2[q].at)
        BY <1>1, <1>4, <2>1, <3>2 DEF OpenAt
      <4>2. b \in 1..p /\ \A q \in (b + 1)..p : q \in DOMAIN bd2 /\ q > b
        BY <1>1, <3>2, <4>1
      <4>. QED  BY <1>1, <3>2, <4>1, <4>2
    <3>. QED  BY <1>1, <3>1, <3>2
  <2>. QED  BY <2>1 DEF Nested
<1>9. CodeOK(cs, bd2, m)
  BY <1>5, <1>6, <1>7, <1>8 DEF CodeOK
<1>. QED  BY <1>9 DEF bd2

\* A line of the constants that reads constants and declares the next register
LEMMA ConstantLine ==
    ASSUME NEW cs \in Seq(Lines), NEW bd \in Seq(Lines), NEW n \in Nat, CodeOK(cs, bd, n),
           NEW line \in Lines, line.at = <<>>, \A r \in Reads(line) : Declared(cs, r),
           Declares(line), line.dst = n, n > 0
    PROVE  CodeOK(Append(cs, line), bd, n + 1)
<1>. DEFINE cs2 == Append(cs, line)
            k == Len(cs) + 1
<1>1. /\ DOMAIN cs2 = DOMAIN cs \cup {k} /\ DOMAIN cs = 1..Len(cs) /\ Len(cs) \in Nat
      /\ \A q \in DOMAIN cs : cs2[q] = cs[q]
      /\ cs2[k] = line
  BY Appended
<1>2. ConstantsOK(cs, n) /\ BodyOK(cs, bd, n) /\ Disjoint(cs, bd) /\ Nested(bd)
  BY DEF CodeOK
<1>3. \A r : Declared(cs, r) => Declared(cs2, r)
  BY DeclaredGrows
<1>. HIDE DEF cs2
<1>4. \A i \in 1..(n - 1) : i # n /\ i \in 1..(n + 1 - 1)
  OBVIOUS
<1>5. ConstantsOK(cs2, n + 1)
  <2>1. ASSUME NEW p \in DOMAIN cs2
        PROVE  /\ cs2[p].at = <<>>
               /\ \A r \in Reads(cs2[p]) :
                     \E q \in 1..(p - 1) : Declares(cs2[q]) /\ cs2[q].dst = r
    <3>1. CASE p \in DOMAIN cs
      <4>1. /\ cs[p].at = <<>>
            /\ \A r \in Reads(cs[p]) : \E q \in 1..(p - 1) : Declares(cs[q]) /\ cs[q].dst = r
        BY <1>2, <3>1 DEF ConstantsOK
      <4>2. 1..(p - 1) \subseteq DOMAIN cs
        BY <1>1, <3>1
      <4>. QED  BY <1>1, <3>1, <4>1, <4>2
    <3>2. CASE p = k
      <4>1. 1..(p - 1) = DOMAIN cs
        BY <1>1, <3>2
      <4>. QED  BY <1>1, <3>2, <4>1 DEF Declared
    <3>. QED  BY <1>1, <3>1, <3>2
  <2>2. ASSUME NEW p \in DOMAIN cs2, Declares(cs2[p])
        PROVE  /\ cs2[p].dst \in 1..(n + 1 - 1)
               /\ \A q \in DOMAIN cs2 : Declares(cs2[q]) /\ q # p => cs2[q].dst # cs2[p].dst
    <3>1. \A q \in DOMAIN cs : Declares(cs[q]) =>
             /\ cs[q].dst \in 1..(n - 1)
             /\ \A o \in DOMAIN cs : Declares(cs[o]) /\ o # q => cs[o].dst # cs[q].dst
      BY <1>2 DEF ConstantsOK
    <3>2. CASE p \in DOMAIN cs
      BY <1>1, <1>4, <2>2, <3>1, <3>2
    <3>3. CASE p = k
      BY <1>1, <1>4, <2>2, <3>1, <3>3
    <3>. QED  BY <1>1, <3>2, <3>3
  <2>. QED  BY <2>1, <2>2 DEF ConstantsOK
<1>6. BodyOK(cs2, bd, n + 1)
  BY <1>2, <1>3, <1>4 DEF BodyOK
<1>7. Disjoint(cs2, bd)
  <2>1. \A p \in DOMAIN bd : Declares(bd[p]) => bd[p].dst \in 1..(n - 1)
    BY <1>2 DEF BodyOK
  <2>. QED  BY <1>1, <1>2, <1>4, <2>1 DEF Disjoint
<1>8. CodeOK(cs2, bd, n + 1)
  BY <1>2, <1>5, <1>6, <1>7 DEF CodeOK
<1>. QED  BY <1>8 DEF cs2

\* A constant depends on no argument.
LEMMA ConstantsReadNoArgument ==
    ASSUME NEW cs \in Seq(Lines), NEW n \in Nat, ConstantsOK(cs, n)
    PROVE  \A p \in DOMAIN cs : 0 \notin Reads(cs[p])
<1>1. SUFFICES ASSUME NEW p \in DOMAIN cs, 0 \in Reads(cs[p])  PROVE FALSE
  OBVIOUS
<1>2. PICK q \in 1..(p - 1) : Declares(cs[q]) /\ cs[q].dst = 0
  BY <1>1 DEF ConstantsOK
<1>3. q \in DOMAIN cs
  OBVIOUS
<1>. QED  BY <1>2, <1>3 DEF ConstantsOK

-----------------------------------------------------------------------------
(* The constants ahead of the body are a function that a C compiler        *)
(* accepts.                                                                *)
LEMMA CodeIsAccepted ==
    ASSUME NEW cs \in Seq(Lines), NEW bd \in Seq(Lines), NEW n \in Nat, CodeOK(cs, bd, n),
           NEW r0, Usable(cs, bd, r0, <<>>)
    PROVE  Accepted([constants |-> cs, body |-> bd, result |-> r0])
<1>. DEFINE code == cs \o bd
            before(p) == SubSeq(code, 1, p - 1)
            k == Len(cs)
<1>1. /\ code \in Seq(Lines) /\ k \in Nat /\ Len(bd) \in Nat
      /\ DOMAIN code = 1..(k + Len(bd)) /\ DOMAIN cs = 1..k /\ DOMAIN bd = 1..Len(bd)
      /\ \A p \in 1..k : code[p] = cs[p]
      /\ \A p \in 1..Len(bd) : code[k + p] = bd[p]
  OBVIOUS
<1>2. \A p \in DOMAIN code : /\ DOMAIN before(p) = 1..(p - 1)
                             /\ \A q \in 1..(p - 1) : before(p)[q] = code[q]
  BY <1>1
<1>3. /\ ConstantsOK(cs, n) /\ BodyOK(cs, bd, n) /\ Disjoint(cs, bd) /\ Nested(bd)
  BY DEF CodeOK
<1>. HIDE DEF code, before
<1>4. \A p \in DOMAIN code : code[p].at \in Seq(Nat)
  <2>1. \A p \in DOMAIN code : code[p] \in Lines
    BY <1>1
  <2>. QED  BY <2>1 DEF Lines
\* A constant is declared ahead of the body, outside of all blocks.
<1>5. \A q \in 1..k, at \in Seq(Nat) : IsPrefix(code[q].at, at)
  <2>1. \A q \in 1..k : code[q].at = <<>>
    BY <1>1, <1>3 DEF ConstantsOK
  <2>. QED  BY <2>1, EmptyPrefix
<1>6. ASSUME NEW p \in DOMAIN code, NEW r \in Reads(code[p])
      PROVE  r = 0 \/ Known(before(p), r, code[p].at)
  <2>1. CASE p \in 1..k
    <3>1. PICK q \in 1..(p - 1) : Declares(cs[q]) /\ cs[q].dst = r
      BY <1>1, <1>3, <1>6, <2>1 DEF ConstantsOK
    <3>2. q \in 1..k /\ q \in DOMAIN before(p) /\ before(p)[q] = cs[q]
      BY <1>1, <1>2, <2>1
    <3>3. IsPrefix(before(p)[q].at, code[p].at)
      BY <1>1, <1>4, <1>5, <3>2
    <3>. QED  BY <3>1, <3>2, <3>3 DEF Known
  <2>2. CASE p \notin 1..k
    <3>. DEFINE i == p - k
    <3>1. i \in DOMAIN bd /\ code[p] = bd[i] /\ p = k + i
      <4>1. i \in 1..Len(bd) /\ p = k + i
        BY <1>1, <2>2
      <4>. QED  BY <1>1, <4>1
    <3>. HIDE DEF i
    <3>2. \/ r = 0
          \/ Declared(cs, r)
          \/ \E q \in 1..(i - 1) : /\ Declares(bd[q]) /\ bd[q].dst = r
                                   /\ IsPrefix(bd[q].at, bd[i].at)
      BY <1>3, <1>6, <3>1 DEF BodyOK
    <3>3. CASE Declared(cs, r)
      <4>1. PICK q \in DOMAIN cs : Declares(cs[q]) /\ cs[q].dst = r
        BY <3>3 DEF Declared
      <4>2. q \in 1..k /\ q \in 1..(p - 1)
        BY <1>1, <2>2
      <4>3. q \in DOMAIN before(p) /\ before(p)[q] = cs[q]
        BY <1>1, <1>2, <4>2
      <4>4. IsPrefix(before(p)[q].at, code[p].at)
        BY <1>1, <1>4, <1>5, <4>2, <4>3
      <4>. QED  BY <4>1, <4>3, <4>4 DEF Known
    <3>4. CASE \E q \in 1..(i - 1) : /\ Declares(bd[q]) /\ bd[q].dst = r
                                     /\ IsPrefix(bd[q].at, bd[i].at)
      <4>1. PICK q \in 1..(i - 1) : /\ Declares(bd[q]) /\ bd[q].dst = r
                                    /\ IsPrefix(bd[q].at, bd[i].at)
        BY <3>4
      <4>2. q \in 1..Len(bd) /\ k + q \in 1..(p - 1)
        BY <1>1, <3>1
      <4>3. k + q \in DOMAIN before(p) /\ before(p)[k + q] = bd[q]
        BY <1>1, <1>2, <4>2
      <4>. QED  BY <3>1, <4>1, <4>3 DEF Known
    <3>. QED  BY <3>2, <3>3, <3>4
  <2>. QED  BY <2>1, <2>2
<1>7. ASSUME NEW p \in DOMAIN code, Declares(code[p])
      PROVE  /\ code[p].dst # 0
             /\ \A q \in DOMAIN code : Declares(code[q]) /\ q # p => code[q].dst # code[p].dst
  <2>1. \A q \in DOMAIN code : \/ q \in DOMAIN cs /\ code[q] = cs[q]
                               \/ q - k \in DOMAIN bd /\ code[q] = bd[q - k]
    <3>1. ASSUME NEW q \in DOMAIN code, q \notin 1..k
          PROVE  q - k \in 1..Len(bd) /\ q = k + (q - k)
      BY <1>1, <3>1
    <3>. QED  BY <1>1, <3>1
  <2>2. \A i \in DOMAIN cs : Declares(cs[i]) =>
            /\ cs[i].dst \in 1..(n - 1)
            /\ \A j \in DOMAIN cs : Declares(cs[j]) /\ j # i => cs[j].dst # cs[i].dst
    BY <1>3 DEF ConstantsOK
  <2>3. \A i \in DOMAIN bd : Declares(bd[i]) =>
            /\ bd[i].dst \in 1..(n - 1)
            /\ \A j \in DOMAIN bd : Declares(bd[j]) /\ j # i => bd[j].dst # bd[i].dst
    BY <1>3 DEF BodyOK
  <2>4. code[p].dst # 0
    BY <1>7, <2>1, <2>2, <2>3
  <2>5. ASSUME NEW q \in DOMAIN code, Declares(code[q]), q # p
        PROVE  code[q].dst # code[p].dst
    <3>1. q - k # p - k
      BY <1>1, <2>5
    <3>. QED  BY <1>3, <1>7, <2>1, <2>2, <2>3, <2>5, <3>1 DEF Disjoint
  <2>. QED  BY <2>4, <2>5
<1>8. r0 = 0 \/ Known(code, r0, <<>>)
  <2>1. CASE Declared(cs, r0)
    <3>1. PICK q \in DOMAIN cs : Declares(cs[q]) /\ cs[q].dst = r0
      BY <2>1 DEF Declared
    <3>2. q \in 1..k /\ q \in DOMAIN code /\ code[q] = cs[q]
      BY <1>1
    <3>3. <<>> \in Seq(Nat)
      OBVIOUS
    <3>4. IsPrefix(code[q].at, <<>>)
      BY <1>5, <3>2, <3>3
    <3>. QED  BY <3>1, <3>2, <3>4 DEF Known
  <2>2. CASE Known(bd, r0, <<>>)
    <3>1. PICK q \in DOMAIN bd : Declares(bd[q]) /\ bd[q].dst = r0 /\ IsPrefix(bd[q].at, <<>>)
      BY <2>2 DEF Known
    <3>2. k + q \in DOMAIN code /\ code[k + q] = bd[q]
      BY <1>1
    <3>. QED  BY <3>1, <3>2 DEF Known
  <2>. QED  BY <2>1, <2>2 DEF Usable
<1>9. PICK f : f = [constants |-> cs, body |-> bd, result |-> r0]
  OBVIOUS
<1>10. f.constants = cs /\ f.body = bd /\ f.result = r0
  BY <1>9
<1>11. Accepted(f)
  BY <1>3, <1>6, <1>7, <1>8, <1>10 DEF Accepted, code, before
<1>. QED  BY <1>9, <1>11

-----------------------------------------------------------------------------
(* The stack of activations, when the innermost one does a step            *)

\* The fields of an activation
LEMMA ActivationFacts ==
    ASSUME NEW a \in Activations
    PROVE  /\ a.task \in Tasks /\ a.scope \in SUBSET Slots /\ a.pc \in Nat \ {0}
           /\ a.base \in Seq(Nat) /\ a.at \in Seq(Nat) /\ a.vals \in Seq(Nat) /\ a.val \in Nat
           /\ a.frame \in Nat \ {0} /\ a.purity \in BOOLEAN
BY DEF Activations

\* The innermost activation is the last of the stack, and is judged.
LEMMA TopFacts ==
    ASSUME TypeOK, calls # <<>>
    PROVE  /\ Len(calls) \in Nat \ {0} /\ DOMAIN calls = 1..Len(calls)
           /\ Top = calls[Len(calls)] /\ Top \in Activations
           /\ [task |-> Top.task, scope |-> Top.scope] \in Scoping
           /\ ~Finished(Top) => Top.pc \in DOMAIN Steps(Top.task)
<1>1. calls \in Seq(Activations)
  BY DEF TypeOK, CallsTyped
<1>2. Len(calls) \in Nat \ {0} /\ DOMAIN calls = 1..Len(calls) /\ Len(calls) \in DOMAIN calls
  BY <1>1
<1>3. Top = calls[Len(calls)] /\ Top \in Activations
  BY <1>1, <1>2 DEF Top
<1>4. [task |-> Top.task, scope |-> Top.scope] \in Scoping
  BY <1>2, <1>3 DEF TypeOK, CallsTyped
<1>. QED  BY <1>2, <1>3, <1>4 DEF Finished

\* What the changes of the innermost activation leave as it was
LEMMA ChangedFacts ==
    ASSUME NEW a \in Activations, NEW r \in Nat
    PROVE  /\ Advanced(a) \in Activations /\ Written(a) \in Activations
           /\ Got(a, r) \in Activations
           /\ \A b \in {Advanced(a), Written(a), Got(a, r)} :
                 /\ b.task = a.task /\ b.scope = a.scope /\ b.pc = a.pc + 1 /\ b.base = a.base
                 /\ b.at = a.at /\ b.frame = a.frame /\ b.purity = a.purity
           /\ Advanced(a).val = a.val /\ Advanced(a).vals = a.vals
           /\ Written(a).val = a.val /\ Written(a).vals = <<>>
           /\ Got(a, r).val = r /\ Got(a, r).vals = Append(a.vals, r)
<1>1. /\ Append(a.vals, r) \in Seq(Nat) /\ <<>> \in Seq(Nat) /\ a.pc + 1 \in Nat \ {0}
  BY ActivationFacts
<1>2. /\ Advanced(a) \in Activations
      /\ Advanced(a).val = a.val /\ Advanced(a).vals = a.vals
      /\ LET b == Advanced(a)
         IN  /\ b.task = a.task /\ b.scope = a.scope /\ b.pc = a.pc + 1 /\ b.base = a.base
             /\ b.at = a.at /\ b.frame = a.frame /\ b.purity = a.purity
  BY <1>1 DEF Activations, Advanced
<1>3. /\ Written(a) \in Activations
      /\ Written(a).val = a.val /\ Written(a).vals = <<>>
      /\ LET b == Written(a)
         IN  /\ b.task = a.task /\ b.scope = a.scope /\ b.pc = a.pc + 1 /\ b.base = a.base
             /\ b.at = a.at /\ b.frame = a.frame /\ b.purity = a.purity
  BY <1>1, <1>2 DEF Activations, Written
<1>4. /\ Got(a, r) \in Activations
      /\ Got(a, r).val = r /\ Got(a, r).vals = Append(a.vals, r)
      /\ LET b == Got(a, r)
         IN  /\ b.task = a.task /\ b.scope = a.scope /\ b.pc = a.pc + 1 /\ b.base = a.base
             /\ b.at = a.at /\ b.frame = a.frame /\ b.purity = a.purity
  BY <1>1, <1>2 DEF Activations, Got
<1>. QED  BY <1>2, <1>3, <1>4

\* The code of an outer activation goes to a block that stays open, and its
\* registers stay usable.
LEMMA OuterBlockStays ==
    ASSUME NEW bd \in Seq(Lines), NEW bd2, NEW a \in Activations, InBlock(bd, a),
           bd2 = bd \/ \E line \in Lines : WithLine(bd, bd2, line) /\ IsPrefix(a.at, line.at)
    PROVE  InBlock(bd2, a)
<1>1. a.at \in Seq(Nat)
  BY ActivationFacts
<1>2. CASE bd2 = bd
  BY <1>2
<1>3. CASE \E line \in Lines : WithLine(bd, bd2, line) /\ IsPrefix(a.at, line.at)
  <2>1. PICK line \in Lines : WithLine(bd, bd2, line) /\ IsPrefix(a.at, line.at)
    BY <1>3
  <2>2. DOMAIN bd \subseteq DOMAIN bd2
    BY <2>1, Appended DEF WithLine
  <2>3. OpenAt(bd2, a.at)
    BY <1>1, <2>1, OpenGrows DEF InBlock, WithLine
  <2>. QED  BY <2>2, <2>3 DEF InBlock
<1>. QED  BY <1>2, <1>3

\* What an activation holds and sees can still be used when code is written.
LEMMA OuterRegistersStay ==
    ASSUME NEW cs \in Seq(Lines), NEW bd \in Seq(Lines), NEW cs2, NEW bd2,
           Grows(cs, bd, cs2, bd2), NEW a \in Activations
    PROVE  /\ Holds(cs, bd, a) => Holds(cs2, bd2, a)
           /\ \A fs : Sees(cs, bd, fs, a) => Sees(cs2, bd2, fs, a)
<1>1. a.at \in Seq(Nat)
  BY ActivationFacts
<1>2. /\ \A r : Declared(cs, r) => Declared(cs2, r)
      /\ \A r : Usable(cs, bd, r, a.at) => Usable(cs2, bd2, r, a.at)
  BY <1>1, UsableGrows
<1>. QED  BY <1>2 DEF Holds, Sees

\* Code is not itself with a line more.
LEMMA SameIsNotLonger ==
    ASSUME NEW code \in Seq(Lines), NEW line \in Lines
    PROVE  ~WithLine(code, code, line)
<1>1. Len(Append(code, line)) = Len(code) + 1 /\ Len(code) \in Nat
  BY Appended
<1>2. Len(Append(code, line)) # Len(code)
  BY <1>1
<1>. QED  BY <1>2 DEF WithLine

\* The line that was written is the last one of the code.
LEMMA AppendedOnce ==
    ASSUME NEW code \in Seq(Lines), NEW line \in Lines, NEW l \in Lines,
           Append(code, line) = Append(code, l)
    PROVE  line = l
<1>1. Append(code, line)[Len(code) + 1] = line /\ Append(code, l)[Len(code) + 1] = l
  BY Appended
<1>. QED  BY <1>1

\* The innermost activation does a step.
LEMMA Continues ==
    ASSUME TypeOK, CallsInv, NestingInv, TopInv, calls # <<>>, ~Finished(Top),
           NEW a \in Activations, Continue(a),
           a.task = Top.task, a.scope = Top.scope, a.base = Top.base, a.purity = Top.purity,
           Top.frame <= a.frame, a.frame = Len(frames'),
           a.frame = Top.frame => ScopeNow(Top) \subseteq ScopeNow(a),
           a.task.do = "exec" => a.frame = Top.frame,
           Grows(constants, body, constants', body'),
           \A line \in Lines : WithLine(body, body', line) => IsPrefix(Top.base, line.at),
           \A k \in 1..(Len(calls) - 1) : \A s \in ScopeNow(calls[k]) :
               frames'[calls[k].frame][s] = frames[calls[k].frame][s],
           inConstants' = inConstants, valcount' > 0,
           InBlock(body', a), Holds(constants', body', a), Sees(constants', body', frames', a)
    PROVE  CallsTyped' /\ CallsInv' /\ NestingInv' /\ TopInv'
<1>. DEFINE n == Len(calls)
<1>1. /\ n \in Nat \ {0} /\ DOMAIN calls = 1..n /\ calls \in Seq(Activations)
      /\ Top = calls[n] /\ Top \in Activations
  BY TopFacts DEF TypeOK, CallsTyped
<1>2. /\ Len(calls') = n /\ DOMAIN calls' = 1..n
      /\ \A k \in 1..(n - 1) : calls'[k] = calls[k]
      /\ calls'[n] = a
  BY LastReplaced DEF Continue
<1>3. constants \in Seq(Lines) /\ body \in Seq(Lines)
  BY DEF TypeOK
<1>. HIDE DEF n
<1>4. \A k \in 1..(n - 1) : Around(calls[k], Top)
  BY <1>1 DEF NestingInv
<1>5. CallsInv'
  <2>1. ASSUME NEW k \in 1..(n - 1)
        PROVE  /\ InBlock(body', calls[k]) /\ Holds(constants', body', calls[k])
               /\ Sees(constants', body', frames', calls[k])
    <3>1. /\ InBlock(body, calls[k]) /\ Holds(constants, body, calls[k])
          /\ Sees(constants, body, frames, calls[k])
      BY <1>1 DEF CallsInv
    <3>2. calls[k] \in Activations
      BY <1>1
    <3>3. ASSUME NEW line \in Lines, WithLine(body, body', line)
          PROVE  IsPrefix(calls[k].at, line.at)
      <4>1. IsPrefix(calls[k].at, Top.base) /\ IsPrefix(Top.base, line.at)
        BY <1>4, <3>3 DEF Around
      <4>2. calls[k].at \in Seq(Nat) /\ Top.base \in Seq(Nat) /\ line.at \in Seq(Nat)
        BY <1>1, <3>2, ActivationFacts DEF Lines
      <4>. QED  BY <4>1, <4>2, PrefixTransitive
    <3>4. InBlock(body', calls[k])
      <4>1. \/ body' = body
            \/ \E line \in Lines : WithLine(body, body', line) /\ IsPrefix(calls[k].at, line.at)
        BY <3>3 DEF Grows
      <4>. QED  BY <1>3, <3>1, <3>2, <4>1, OuterBlockStays
    <3>5. Holds(constants', body', calls[k]) /\ Sees(constants', body', frames, calls[k])
      BY <1>3, <3>1, <3>2, OuterRegistersStay
    <3>6. Sees(constants', body', frames', calls[k])
      <4>1. \A s \in ScopeNow(calls[k]) :
               frames'[calls[k].frame][s] = frames[calls[k].frame][s]
        BY DEF n
      <4>. QED  BY <3>5, <4>1 DEF Sees
    <3>. QED  BY <3>4, <3>5, <3>6
  <2>2. ASSUME NEW k \in DOMAIN calls'
        PROVE  /\ InBlock(body', calls'[k]) /\ Holds(constants', body', calls'[k])
               /\ Sees(constants', body', frames', calls'[k])
    <3>1. CASE k \in 1..(n - 1)
      BY <1>2, <2>1, <3>1
    <3>2. CASE k = n
      BY <1>2, <3>2
    <3>. QED  BY <1>1, <1>2, <3>1, <3>2
  <2>. QED  BY <2>2 DEF CallsInv
<1>6. NestingInv'
  <2>1. First(calls'[1])
    <3>1. First(calls[1])
      BY DEF NestingInv
    <3>2. CASE n = 1
      BY <1>1, <1>2, <3>1, <3>2 DEF First
    <3>3. CASE n # 1
      BY <1>1, <1>2, <3>1, <3>3
    <3>. QED  BY <3>2, <3>3
  <2>2. ASSUME NEW k \in 1..n, k > 1  PROVE BegunBy(calls'[k], calls'[k - 1])
    <3>1. BegunBy(calls[k], calls[k - 1])
      BY <1>1, <2>2 DEF NestingInv
    <3>2. calls'[k - 1] = calls[k - 1]
      BY <1>1, <1>2, <2>2
    <3>3. CASE k = n
      BY <1>1, <1>2, <3>1, <3>2, <3>3 DEF BegunBy
    <3>4. CASE k # n
      BY <1>1, <1>2, <3>1, <3>2, <3>4
    <3>. QED  BY <3>3, <3>4
  <2>3. ASSUME NEW j \in 1..n, NEW k \in 1..n, j < k  PROVE Around(calls'[j], calls'[k])
    <3>1. Around(calls[j], calls[k]) /\ calls'[j] = calls[j]
      BY <1>1, <1>2, <2>3 DEF NestingInv
    <3>2. CASE k = n
      <4>1. Around(calls[j], Top) /\ calls[j] \in Activations
        BY <1>1, <3>1, <3>2
      <4>2. calls[j].frame \in Nat /\ Top.frame \in Nat /\ a.frame \in Nat
        BY <1>1, <4>1, ActivationFacts
      <4>3. Around(calls[j], a)
        BY <4>1, <4>2 DEF Around
      <4>. QED  BY <1>2, <3>1, <3>2, <4>3
    <3>3. CASE k # n
      BY <1>1, <1>2, <3>1, <3>3
    <3>. QED  BY <3>2, <3>3
  <2>. QED  BY <1>2, <2>1, <2>2, <2>3 DEF NestingInv
<1>7. TopInv'
  <2>1. calls' # <<>> /\ calls'[Len(calls')] = a
    BY <1>1, <1>2
  <2>. QED  BY <2>1 DEF TopInv, Top, IsPure
<1>8. CallsTyped'
  <2>1. calls' \in Seq(Activations)
    BY <1>1, LastReplaced DEF Continue
  <2>2. ASSUME NEW k \in 1..n
        PROVE  [task |-> calls'[k].task, scope |-> calls'[k].scope] \in Scoping
    <3>1. [task |-> calls[k].task, scope |-> calls[k].scope] \in Scoping
      BY <1>1 DEF TypeOK, CallsTyped
    <3>. QED  BY <1>1, <1>2, <3>1
  <2>. QED  BY <1>2, <2>1, <2>2 DEF CallsTyped
<1>. QED  BY <1>5, <1>6, <1>7, <1>8

\* After a step that gets a register, for an operation that reads it next
LEMMA GotRegister ==
    ASSUME NEW cs, NEW bd, NEW fs, NEW a \in Activations, NEW r \in Nat,
           InBlock(bd, a), Holds(cs, bd, a), Sees(cs, bd, fs, a),
           a.pc \in DOMAIN Steps(a.task),
           Steps(a.task)[a.pc].do \in {"eval", "constant", "variable"},
           Usable(cs, bd, r, a.at), IsPure(a.task) => Declared(cs, r)
    PROVE  /\ InBlock(bd, Got(a, r)) /\ Holds(cs, bd, Got(a, r)) /\ Sees(cs, bd, fs, Got(a, r))
           /\ ScopeNow(Got(a, r)) = ScopeNow(a)
<1>1. PICK b : b = Got(a, r)
  OBVIOUS
<1>2. /\ b.task = a.task /\ b.scope = a.scope /\ b.pc = a.pc + 1 /\ b.base = a.base
      /\ b.at = a.at /\ b.frame = a.frame
      /\ b.val = r /\ b.vals = Append(a.vals, r)
  BY <1>1, ChangedFacts
<1>3. a.task \in Tasks /\ a.vals \in Seq(Nat) /\ a.pc \in Nat
  BY ActivationFacts
<1>4. Opened(b) <=> Opened(a)
  BY <1>2, <1>3, OpenedAfterStep
<1>5. Range(b.vals) = Range(a.vals) \cup {r}
  BY <1>2, <1>3, RangeOfAppend
<1>6. ScopeNow(b) = ScopeNow(a)
  <2>1. BoundBy(Steps(a.task)[a.pc]) = {}
    BY DEF BoundBy
  <2>2. ScopeAt(a.task, a.scope, a.pc + 1) =
           ScopeAt(a.task, a.scope, a.pc) \cup BoundBy(Steps(a.task)[a.pc])
    BY <1>3, ScopeAfterStep
  <2>3. ScopeAt(a.task, a.scope, a.pc + 1) = ScopeAt(a.task, a.scope, a.pc)
    BY <2>1, <2>2
  <2>. QED  BY <1>2, <2>3 DEF ScopeNow
<1>7. InBlock(bd, b)
  <2>1. Opened(a) => a.task.e.op # "if"
    BY <1>3, OpenedFacts
  <2>. QED  BY <1>2, <1>4, <2>1 DEF InBlock
<1>8. Holds(cs, bd, b)
  BY <1>2, <1>4, <1>5 DEF Holds
<1>9. Sees(cs, bd, fs, b)
  BY <1>2, <1>6 DEF Sees
<1>. QED  BY <1>1, <1>6, <1>7, <1>8, <1>9

\* After a step that leaves the registers, and may bind a variable
LEMMA AdvancedOver ==
    ASSUME NEW cs, NEW bd, NEW fs, NEW a \in Activations,
           InBlock(bd, a), Holds(cs, bd, a), Sees(cs, bd, fs, a),
           a.pc \in DOMAIN Steps(a.task), ~IsPure(a.task),
           Steps(a.task)[a.pc].do \in {"exec", "bind"},
           \A s \in BoundBy(Steps(a.task)[a.pc]) : Usable(cs, bd, fs[a.frame][s], a.at)
    PROVE  /\ InBlock(bd, Advanced(a)) /\ Holds(cs, bd, Advanced(a))
           /\ Sees(cs, bd, fs, Advanced(a))
           /\ ScopeNow(Advanced(a)) = ScopeNow(a) \cup BoundBy(Steps(a.task)[a.pc])
<1>1. PICK b : b = Advanced(a)
  OBVIOUS
<1>2. /\ b.task = a.task /\ b.scope = a.scope /\ b.pc = a.pc + 1 /\ b.base = a.base
      /\ b.at = a.at /\ b.frame = a.frame
      /\ b.val = a.val /\ b.vals = a.vals
  BY <1>1, ChangedFacts
<1>3. a.task \in Tasks /\ a.pc \in Nat
  BY ActivationFacts
<1>4. Opened(b) <=> Opened(a)
  BY <1>2, <1>3, OpenedAfterStep
<1>5. ScopeNow(b) = ScopeNow(a) \cup BoundBy(Steps(a.task)[a.pc])
  BY <1>2, <1>3, ScopeAfterStep DEF ScopeNow
<1>6. InBlock(bd, b)
  BY <1>2, <1>4 DEF InBlock
<1>7. Holds(cs, bd, b)
  BY <1>2, <1>4 DEF Holds
<1>8. Sees(cs, bd, fs, b)
  BY <1>2, <1>5 DEF Sees
<1>. QED  BY <1>1, <1>5, <1>6, <1>7, <1>8

\* After a step that writes a line
LEMMA WrittenLine ==
    ASSUME NEW cs, NEW bd, NEW fs, NEW a \in Activations, NEW b \in Activations,
           InBlock(bd, a), Sees(cs, bd, fs, a),
           a.pc \in DOMAIN Steps(a.task),
           Steps(a.task)[a.pc].do \in {"value", "store", "break"},
           b.task = a.task, b.scope = a.scope, b.pc = a.pc + 1, b.base = a.base, b.at = a.at,
           b.frame = a.frame, b.vals = <<>>,
           ~Opened(a) => Usable(cs, bd, b.val, a.at),
           IsPure(a.task) => Declared(cs, b.val)
    PROVE  /\ InBlock(bd, b) /\ Holds(cs, bd, b) /\ Sees(cs, bd, fs, b)
           /\ ScopeNow(b) = ScopeNow(a)
<1>1. a.task \in Tasks /\ a.pc \in Nat
  BY ActivationFacts
<1>2. Opened(b) <=> Opened(a)
  BY <1>1, OpenedAfterStep
<1>3. ScopeNow(b) = ScopeNow(a)
  <2>1. BoundBy(Steps(a.task)[a.pc]) = {}
    BY DEF BoundBy
  <2>2. ScopeAt(a.task, a.scope, a.pc + 1) =
           ScopeAt(a.task, a.scope, a.pc) \cup BoundBy(Steps(a.task)[a.pc])
    BY <1>1, ScopeAfterStep
  <2>3. ScopeAt(a.task, a.scope, a.pc + 1) = ScopeAt(a.task, a.scope, a.pc)
    BY <2>1, <2>2
  <2>. QED  BY <2>3 DEF ScopeNow
<1>4. InBlock(bd, b)
  BY <1>2 DEF InBlock
<1>5. Range(b.vals) = {}
  BY RangeOfEmpty
<1>6. Holds(cs, bd, b)
  BY <1>2, <1>5 DEF Holds
<1>7. Sees(cs, bd, fs, b)
  BY <1>3 DEF Sees
<1>. QED  BY <1>3, <1>4, <1>6, <1>7

-----------------------------------------------------------------------------
(* Steps that get a register                                               *)

\* The step that the innermost activation is at, and its registers
LEMMA DoingFacts ==
    ASSUME TypeOK, calls # <<>>, ~Finished(Top)
    PROVE  /\ Top \in Activations /\ Top.task \in Tasks /\ Top.pc \in DOMAIN Steps(Top.task)
           /\ This = Steps(Top.task)[Top.pc]
           /\ Top.frame \in Nat \ {0} /\ Top.at \in Seq(Nat) /\ Top.base \in Seq(Nat)
           /\ Top.vals \in Seq(Nat) /\ Top.val \in Nat
BY TopFacts, ActivationFacts DEF This

\* The invariant of the innermost activation
LEMMA TopHolds ==
    ASSUME TypeOK, CallsInv, calls # <<>>
    PROVE  /\ InBlock(body, Top) /\ Holds(constants, body, Top)
           /\ Sees(constants, body, frames, Top)
BY TopFacts DEF CallsInv

\* The block of an activation is the one it was begun in, or one inside it.
LEMMA BaseOfBlock ==
    ASSUME NEW bd \in Seq(Lines), NEW a \in Activations, InBlock(bd, a)
    PROVE  IsPrefix(a.base, a.at)
<1>1. a.base \in Seq(Nat) /\ DOMAIN bd \subseteq Nat
  BY ActivationFacts
<1>2. CASE Opened(a)
  <2>1. PICK b \in DOMAIN bd : a.at = Append(a.base, b)
    BY <1>2 DEF InBlock
  <2>. QED  BY <1>1, <2>1, PrefixOfAppend
<1>3. CASE ~Opened(a)
  BY <1>1, <1>3, PrefixReflexive DEF InBlock
<1>. QED  BY <1>2, <1>3

\* A step that gets a register, of the constants or of a variable, and writes no
\* line of the body
LEMMA Gets ==
    ASSUME TypeOK, CallsInv, NestingInv, TopInv, calls # <<>>, ~Finished(Top),
           NEW r \in Nat, Continue(Got(Top, r)), This.do \in {"eval", "constant", "variable"},
           body' = body, Grows(constants, body, constants', body'),
           frames' = frames, inConstants' = inConstants, valcount' > 0,
           Usable(constants', body, r, Top.at), IsPure(Top.task) => Declared(constants', r)
    PROVE  CallsTyped' /\ CallsInv' /\ NestingInv' /\ TopInv'
<1>1. /\ Top \in Activations /\ Top.task \in Tasks /\ Top.pc \in DOMAIN Steps(Top.task)
      /\ This = Steps(Top.task)[Top.pc] /\ Top.frame \in Nat
  BY DoingFacts
<1>2. PICK a \in Activations : a = Got(Top, r)
  BY <1>1, ChangedFacts
<1>3. /\ a.task = Top.task /\ a.scope = Top.scope /\ a.base = Top.base /\ a.purity = Top.purity
      /\ a.frame = Top.frame
  BY <1>1, <1>2, ChangedFacts
<1>4. constants \in Seq(Lines) /\ body \in Seq(Lines)
  BY DEF TypeOK
<1>5. /\ InBlock(body, Top) /\ Holds(constants', body, Top)
      /\ Sees(constants', body, frames, Top)
  BY <1>1, <1>4, TopHolds, OuterRegistersStay
<1>6. /\ InBlock(body, a) /\ Holds(constants', body, a) /\ Sees(constants', body, frames, a)
      /\ ScopeNow(a) = ScopeNow(Top)
  BY <1>1, <1>2, <1>5, GotRegister
<1>7. \A line \in Lines : ~WithLine(body, body', line)
  BY <1>4, SameIsNotLonger
<1>8. Continue(a) /\ a.frame = Len(frames')
  BY <1>2, <1>3 DEF TopInv
<1>. QED  BY <1>1, <1>3, <1>6, <1>7, <1>8, Continues

\* sc_eval_op gets a register from a cache, which is declared in the constants.
LEMMA EvalCachedKeeps ==
    ASSUME Inv, EvalCached
    PROVE  Inv'
<1>. USE DEF Inv
<1>1. calls # <<>> /\ ~Finished(Top) /\ This.do = "eval"
  BY DEF EvalCached, Doing
<1>2. PICK i \in Cached(This.e) : Continue(Got(Top, opcaches[i][This.e]))
  BY DEF EvalCached
<1>3. PICK r : r = opcaches[i][This.e]
  OBVIOUS
<1>4. /\ i \in DOMAIN opcaches /\ This.e \in DOMAIN opcaches[i]
      /\ opcaches[i] \in CachesOf(Operations)
  BY <1>2 DEF Cached, TypeOK
<1>5. r \in Nat /\ Declared(constants, r)
  BY <1>3, <1>4, CacheValues DEF CacheInv
<1>6. Continue(Got(Top, r)) /\ UNCHANGED <<program, objects, streams, caches, frames>>
  BY <1>2, <1>3 DEF EvalCached
<1>7. CallsTyped' /\ CallsInv' /\ NestingInv' /\ TopInv'
  <2>1. Usable(constants', body, r, Top.at) /\ Declared(constants', r)
    BY <1>5, <1>6 DEF streams, Usable
  <2>2. /\ body' = body /\ Grows(constants, body, constants', body')
        /\ frames' = frames /\ inConstants' = inConstants /\ valcount' > 0
    BY <1>1, <1>6 DEF streams, caches, Grows, TopInv
  <2>. QED  BY <1>1, <1>5, <1>6, <2>1, <2>2, Gets
<1>. QED  BY <1>6, <1>7 DEF TypeOK, streams, caches, CodeInv, CacheInv, ObjectsInv

\* sc_eval_const gets the register of a constant that was declared before.
LEMMA ReuseConstantKeeps ==
    ASSUME Inv, ReuseConstant
    PROVE  Inv'
<1>. USE DEF Inv
<1>1. calls # <<>> /\ ~Finished(Top) /\ This.do = "constant"
  BY DEF ReuseConstant, Doing
<1>2. PICK r : r = valcache[This.val]
  OBVIOUS
<1>3. r \in Nat /\ Declared(constants, r)
  BY <1>2, CacheValues DEF ReuseConstant, CacheInv, TypeOK
<1>4. Continue(Got(Top, r)) /\ UNCHANGED <<program, objects, streams, caches, frames>>
  BY <1>2 DEF ReuseConstant
<1>5. CallsTyped' /\ CallsInv' /\ NestingInv' /\ TopInv'
  <2>1. Usable(constants', body, r, Top.at) /\ Declared(constants', r)
    BY <1>3, <1>4 DEF streams, Usable
  <2>2. /\ body' = body /\ Grows(constants, body, constants', body')
        /\ frames' = frames /\ inConstants' = inConstants /\ valcount' > 0
    BY <1>1, <1>4 DEF streams, caches, Grows, TopInv
  <2>. QED  BY <1>1, <1>3, <1>4, <2>1, <2>2, Gets
<1>. QED  BY <1>4, <1>5 DEF TypeOK, streams, caches, CodeInv, CacheInv, ObjectsInv

\* A reference gets the register of a variable in scope, usable at its block.
LEMMA ReadVariableKeeps ==
    ASSUME NoPureCalls, Inv, ReadVariable
    PROVE  Inv'
<1>. USE DEF Inv
<1>1. calls # <<>> /\ ~Finished(Top) /\ This.do = "variable"
  BY DEF ReadVariable, Doing
<1>2. PICK r : r = frames[Top.frame][This.slot]
  OBVIOUS
<1>3. Continue(Got(Top, r)) /\ UNCHANGED <<program, objects, streams, caches, frames>>
  BY <1>2 DEF ReadVariable
<1>4. /\ Top \in Activations /\ Top.task \in Tasks /\ Top.pc \in DOMAIN Steps(Top.task)
      /\ This = Steps(Top.task)[Top.pc] /\ Top.frame \in Nat \ {0}
      /\ [task |-> Top.task, scope |-> Top.scope] \in Scoping
  BY <1>1, DoingFacts, TopFacts
<1>5. This.slot \in ScopeNow(Top)
  BY <1>1, <1>4, JudgedFacts DEF ScopeNow
<1>6. ~IsPure(Top.task)
  BY <1>1, <1>4, PureFacts
<1>7. r \in Nat
  <2>1. Len(frames) = Top.frame /\ frames \in Seq([Slots -> Nat])
    BY <1>1 DEF TopInv, TypeOK
  <2>2. frames[Top.frame] \in [Slots -> Nat]
    BY <1>4, <2>1
  <2>3. This.slot \in Slots
    <3>1. ScopeNow(Top) \subseteq Slots
      BY <1>4, ScopedSlots DEF ScopeNow
    <3>. QED  BY <1>5, <3>1
  <2>. QED  BY <1>2, <2>2, <2>3
<1>8. CallsTyped' /\ CallsInv' /\ NestingInv' /\ TopInv'
  <2>1. Usable(constants', body, r, Top.at)
    BY <1>1, <1>2, <1>3, <1>5, TopHolds DEF streams, Sees
  <2>2. /\ body' = body /\ Grows(constants, body, constants', body')
        /\ frames' = frames /\ inConstants' = inConstants /\ valcount' > 0
    BY <1>1, <1>3 DEF streams, caches, Grows, TopInv
  <2>. QED  BY <1>1, <1>3, <1>6, <1>7, <2>1, <2>2, Gets
<1>. QED  BY <1>3, <1>8 DEF TypeOK, streams, caches, CodeInv, CacheInv, ObjectsInv

\* sc_eval_const declares a constant, once, and caches its register.
LEMMA DeclareConstantKeeps ==
    ASSUME Inv, DeclareConstant
    PROVE  Inv'
<1>. USE DEF Inv
<1>1. calls # <<>> /\ ~Finished(Top) /\ This.do = "constant"
  BY DEF DeclareConstant, Doing
<1>2. PICK line : line = Line("const", valcount, <<>>, This.val, <<>>)
  OBVIOUS
<1>3. /\ constants' = Append(constants, line) /\ valcount' = valcount + 1
      /\ valcache' = Noted(valcache, This.val, valcount)
      /\ Continue(Got(Top, valcount))
      /\ UNCHANGED <<program, objects, body, inConstants, opcaches, frames>>
  BY <1>2 DEF DeclareConstant
<1>4. /\ constants \in Seq(Lines) /\ body \in Seq(Lines)
      /\ valcount \in Nat /\ valcount > 0 /\ valcache \in CachesOf(Values)
  BY <1>1 DEF TypeOK, TopInv
<1>5. /\ Top.task \in Tasks /\ Top.pc \in DOMAIN Steps(Top.task)
      /\ This = Steps(Top.task)[Top.pc]
  BY <1>1, DoingFacts
<1>6. This.val \in Values
  BY <1>1, <1>5, StepFacts
<1>7. /\ line \in Lines /\ line.at = <<>> /\ line.dst = valcount /\ Declares(line)
      /\ Reads(line) = {}
  <2>1. line \in Lines /\ line.at = <<>> /\ line.dst = valcount
    <3>1. <<>> \in Seq(Nat) /\ "const" \in Ops
      BY DEF Ops
    <3>. QED  BY <1>2, <1>4, <1>6, <3>1 DEF Line, Lines
  <2>2. line.op = "const" /\ line.args = <<>>
    BY <1>2 DEF Line
  <2>. QED  BY <2>1, <2>2, RangeOfEmpty DEF Declares, Reads
<1>8. CodeInv'
  <2>1. CodeOK(Append(constants, line), body, valcount + 1)
    BY <1>4, <1>7, ConstantLine DEF CodeInv
  <2>. QED  BY <1>3, <2>1 DEF CodeInv
<1>9. /\ \A r : Declared(constants, r) => Declared(constants', r)
      /\ Declared(constants', valcount)
  BY <1>3, <1>4, <1>7, DeclaredGrows
<1>10. /\ valcache' \in CachesOf(Values)
       /\ DOMAIN valcache' = DOMAIN valcache \cup {This.val}
       /\ valcache'[This.val] = valcount
       /\ \A n \in DOMAIN valcache : n # This.val => valcache'[n] = valcache[n]
  <2>1. PICK key \in Values : key = This.val
    BY <1>6
  <2>2. valcache' = Noted(valcache, key, valcount)
    BY <1>3, <2>1
  <2>3. valcache' \in CachesOf(Values)
    BY <1>4, <2>2, NotedEntry
  <2>4. DOMAIN valcache' = DOMAIN valcache \cup {key}
    BY <2>2 DEF Noted
  <2>5. valcache'[key] = valcount
    BY <2>2 DEF Noted
  <2>6. \A n \in DOMAIN valcache : n # key => valcache'[n] = valcache[n]
    BY <2>2 DEF Noted
  <2>. QED  BY <2>1, <2>3, <2>4, <2>5, <2>6
<1>11. CacheInv'
  <2>1. \A n \in DOMAIN valcache' : Declared(constants', valcache'[n])
    BY <1>9, <1>10 DEF CacheInv
  <2>2. \A i \in DOMAIN opcaches' : \A e \in DOMAIN opcaches'[i] :
           Declared(constants', opcaches'[i][e])
    BY <1>3, <1>9 DEF CacheInv
  <2>. QED  BY <2>1, <2>2 DEF CacheInv
<1>12. CallsTyped' /\ CallsInv' /\ NestingInv' /\ TopInv'
  <2>1. Usable(constants', body, valcount, Top.at)
    BY <1>9 DEF Usable
  <2>2. body' = body /\ Grows(constants, body, constants', body')
    BY <1>3, <1>7 DEF Grows, WithLine
  <2>3. frames' = frames /\ inConstants' = inConstants /\ valcount' > 0
    BY <1>3, <1>4
  <2>. QED  BY <1>1, <1>3, <1>4, <1>9, <2>1, <2>2, <2>3, Gets
<1>13. TypeOK'
  <2>1. constants' \in Seq(Lines)
    BY <1>3, <1>4, <1>7, Appended
  <2>. QED  BY <1>3, <1>4, <1>10, <1>12, <2>1 DEF TypeOK
<1>14. ObjectsInv'
  BY <1>3 DEF ObjectsInv
<1>. QED  BY <1>8, <1>11, <1>12, <1>13, <1>14

-----------------------------------------------------------------------------
(* Steps that write a line                                                 *)

\* The two destinations of a line
LEMMA WrittenCode ==
    ASSUME TypeOK, CodeInv, TopInv, CallsInv, calls # <<>>, ~Finished(Top),
           NEW line \in Lines, line.at = Top.at, Out(line),
           \A r \in Reads(line) : Usable(constants, body, r, Top.at),
           IsPure(Top.task) =>
               Declares(line) /\ \A r \in Reads(line) : Declared(constants, r),
           valcount' \in {valcount, valcount + 1},
           Declares(line) => line.dst = valcount /\ valcount' = valcount + 1
    PROVE  /\ CodeInv' /\ constants' \in Seq(Lines) /\ body' \in Seq(Lines)
           /\ Grows(constants, body, constants', body')
           /\ \A r : Declared(constants, r) => Declared(constants', r)
           /\ \A l \in Lines : WithLine(body, body', l) => IsPrefix(Top.at, l.at)
           /\ Declares(line) => Usable(constants', body', line.dst, Top.at)
           /\ IsPure(Top.task) => Declared(constants', line.dst)
<1>1. /\ constants \in Seq(Lines) /\ body \in Seq(Lines)
      /\ valcount \in Nat /\ valcount > 0 /\ CodeOK(constants, body, valcount)
  BY DEF TypeOK, TopInv, CodeInv
<1>2. Top.at \in Seq(Nat) /\ OpenAt(body, Top.at)
  BY DoingFacts, TopHolds DEF InBlock
<1>3. CASE IsPure(Top.task)
  <2>. DEFINE l2 == [line EXCEPT !.at = <<>>]
  <2>1. constants' = Append(constants, l2) /\ body' = body
    BY <1>3 DEF Out, TopInv
  <2>2. /\ l2 \in Lines /\ l2.at = <<>> /\ l2.dst = line.dst /\ l2.op = line.op
        /\ l2.args = line.args
    <3>1. <<>> \in Seq(Nat)
      OBVIOUS
    <3>. QED  BY <3>1 DEF Lines
  <2>3. Declares(l2) /\ Reads(l2) = Reads(line) /\ l2.dst = valcount /\ valcount' = valcount + 1
    BY <1>3, <2>2 DEF Declares, Reads
  <2>. HIDE DEF l2
  <2>4. CodeOK(Append(constants, l2), body, valcount + 1)
    BY <1>1, <1>3, <2>2, <2>3, ConstantLine
  <2>5. CodeInv'
    BY <2>1, <2>3, <2>4 DEF CodeInv
  <2>6. constants' \in Seq(Lines) /\ WithLine(constants, constants', l2)
    BY <1>1, <2>1, <2>2, Appended DEF WithLine
  <2>7. Grows(constants, body, constants', body')
    BY <2>1, <2>2, <2>6 DEF Grows
  <2>8. /\ \A r : Declared(constants, r) => Declared(constants', r)
        /\ Declared(constants', line.dst)
    BY <1>1, <2>1, <2>2, <2>3, DeclaredGrows
  <2>9. \A l \in Lines : ~WithLine(body, body', l)
    BY <1>1, <2>1, SameIsNotLonger
  <2>. QED  BY <1>1, <2>1, <2>5, <2>6, <2>7, <2>8, <2>9 DEF Usable
<1>4. CASE ~IsPure(Top.task)
  <2>1. body' = Append(body, line) /\ constants' = constants
    BY <1>4 DEF Out, TopInv
  <2>2. OpenAt(Append(body, line), Top.at)
    BY <1>1, <1>2, OpenGrows, PrefixReflexive
  <2>3. CodeOK(constants, Append(body, line), valcount')
    <3>1. Declares(line) => line.dst = valcount /\ valcount > 0 /\ valcount' = valcount + 1
      BY <1>1
    <3>. QED  BY <1>1, <2>2, <3>1, BodyLine
  <2>4. CodeInv'
    BY <2>1, <2>3 DEF CodeInv
  <2>5. body' \in Seq(Lines) /\ WithLine(body, body', line)
    BY <1>1, <2>1, Appended DEF WithLine
  <2>6. Grows(constants, body, constants', body')
    BY <2>1, <2>5 DEF Grows
  <2>7. \A l \in Lines : WithLine(body, body', l) => l = line
    BY <1>1, <2>1, AppendedOnce DEF WithLine
  <2>8. IsPrefix(Top.at, line.at)
    BY <1>2, PrefixReflexive
  <2>9. Declares(line) => Usable(constants', body', line.dst, Top.at)
    BY <1>1, <1>2, <2>1, <2>8, KnownGrows DEF Usable
  <2>. QED  BY <1>1, <1>4, <2>1, <2>4, <2>5, <2>6, <2>7, <2>8, <2>9
<1>. QED  BY <1>3, <1>4

\* A step that writes a line where the code of the task goes
LEMMA Writes ==
    ASSUME Inv, calls # <<>>, ~Finished(Top), This.do \in {"value", "store", "break"},
           NEW line \in Lines, line.at = Top.at, Out(line),
           \A r \in Reads(line) : Usable(constants, body, r, Top.at),
           IsPure(Top.task) =>
               Declares(line) /\ \A r \in Reads(line) : Declared(constants, r),
           valcount' \in {valcount, valcount + 1},
           Declares(line) => line.dst = valcount /\ valcount' = valcount + 1,
           UNCHANGED <<program, objects, inConstants, valcache, opcaches, frames>>,
           NEW b \in Activations, Continue(b),
           b.task = Top.task, b.scope = Top.scope, b.pc = Top.pc + 1, b.base = Top.base,
           b.at = Top.at, b.frame = Top.frame, b.purity = Top.purity, b.vals = <<>>,
           b.val = IF Declares(line) THEN line.dst ELSE Top.val
    PROVE  Inv'
<1>. USE DEF Inv
<1>1. /\ Top \in Activations /\ Top.task \in Tasks /\ Top.pc \in DOMAIN Steps(Top.task)
      /\ This = Steps(Top.task)[Top.pc] /\ Top.frame \in Nat
      /\ Top.at \in Seq(Nat) /\ Top.base \in Seq(Nat)
  BY DoingFacts
<1>2. /\ CodeInv' /\ constants' \in Seq(Lines) /\ body' \in Seq(Lines)
      /\ Grows(constants, body, constants', body')
      /\ \A r : Declared(constants, r) => Declared(constants', r)
      /\ \A l \in Lines : WithLine(body, body', l) => IsPrefix(Top.at, l.at)
      /\ Declares(line) => Usable(constants', body', line.dst, Top.at)
      /\ IsPure(Top.task) => Declared(constants', line.dst)
  BY WrittenCode
<1>3. constants \in Seq(Lines) /\ body \in Seq(Lines)
  BY DEF TypeOK
<1>4. /\ InBlock(body', Top) /\ Holds(constants', body', Top)
      /\ Sees(constants', body', frames, Top)
  <2>1. \/ body' = body
        \/ \E l \in Lines : WithLine(body, body', l) /\ IsPrefix(Top.at, l.at)
    BY <1>2 DEF Grows
  <2>2. InBlock(body', Top)
    BY <1>1, <1>3, <2>1, TopHolds, OuterBlockStays
  <2>3. Holds(constants', body', Top) /\ Sees(constants', body', frames, Top)
    BY <1>1, <1>2, <1>3, TopHolds, OuterRegistersStay
  <2>. QED  BY <2>2, <2>3
<1>5. /\ InBlock(body', b) /\ Holds(constants', body', b)
      /\ Sees(constants', body', frames, b) /\ ScopeNow(b) = ScopeNow(Top)
  <2>1. ~Opened(Top) => Usable(constants', body', b.val, Top.at)
    BY <1>2, <1>4 DEF Holds
  <2>2. IsPure(Top.task) => Declared(constants', b.val)
    BY <1>2
  <2>. QED  BY <1>1, <1>4, <2>1, <2>2, WrittenLine
<1>6. CallsTyped' /\ CallsInv' /\ NestingInv' /\ TopInv'
  <2>1. \A l \in Lines : WithLine(body, body', l) => IsPrefix(Top.base, l.at)
    <3>1. IsPrefix(Top.base, Top.at)
      BY <1>1, <1>3, TopHolds, BaseOfBlock
    <3>2. \A l \in Lines : l.at \in Seq(Nat)
      BY DEF Lines
    <3>. QED  BY <1>1, <1>2, <3>1, <3>2, PrefixTransitive
  <2>2. b.frame = Len(frames') /\ frames' = frames /\ valcount' > 0
    BY DEF TopInv, TypeOK
  <2>. QED  BY <1>1, <1>2, <1>5, <2>1, <2>2, Continues
<1>7. TypeOK'
  BY <1>2, <1>6 DEF TypeOK
<1>8. CacheInv'
  BY <1>2 DEF CacheInv
<1>. QED  BY <1>2, <1>6, <1>7, <1>8 DEF ObjectsInv

\* The lines other than constants have the value 0.
LEMMA ZeroIsAValue == 0 \in Values
BY DEF Values

\* A new register for the result of an operation is declared where it is used
\* next.
LEMMA DeclareValueKeeps ==
    ASSUME Inv, DeclareValue
    PROVE  Inv'
<1>. USE DEF Inv
<1>1. calls # <<>> /\ ~Finished(Top) /\ This.do = "value"
  BY DEF DeclareValue, Doing
<1>2. /\ Top \in Activations /\ Top.task \in Tasks /\ Top.pc \in DOMAIN Steps(Top.task)
      /\ This = Steps(Top.task)[Top.pc] /\ Top.at \in Seq(Nat) /\ Top.vals \in Seq(Nat)
  BY <1>1, DoingFacts
<1>3. PICK line : line = Line(This.op, valcount, Top.vals, 0, Top.at)
  OBVIOUS
<1>4. PICK b : b = [Written(Top) EXCEPT !.val = valcount]
  OBVIOUS
<1>5. /\ Out(line) /\ valcount' = valcount + 1 /\ Continue(b)
      /\ UNCHANGED <<program, objects, inConstants, valcache, opcaches, frames>>
  BY <1>3, <1>4 DEF DeclareValue
<1>6. This.op \in {"+", "<", "select", "copy"} /\ valcount \in Nat
  BY <1>1, <1>2, StepFacts DEF TypeOK
<1>7. /\ line \in Lines /\ line.op = This.op /\ line.dst = valcount
      /\ line.args = Top.vals /\ line.at = Top.at
  <2>1. This.op \in Ops /\ valcount \in Nat /\ Top.vals \in Seq(Nat) /\ Top.at \in Seq(Nat)
    BY <1>2, <1>6 DEF Ops
  <2>2. line = [op |-> This.op, dst |-> valcount, args |-> Top.vals, val |-> 0, at |-> Top.at]
    BY <1>3 DEF Line
  <2>. QED  BY <2>1, <2>2, ZeroIsAValue DEF Lines
<1>8. Declares(line) /\ Reads(line) = Range(Top.vals)
  BY <1>6, <1>7 DEF Declares, Reads
<1>9. /\ b \in Activations
      /\ b.task = Top.task /\ b.scope = Top.scope /\ b.pc = Top.pc + 1 /\ b.base = Top.base
      /\ b.at = Top.at /\ b.frame = Top.frame /\ b.purity = Top.purity
      /\ b.vals = <<>> /\ b.val = valcount
  <2>1. PICK w \in Activations : w = Written(Top)
    BY <1>2, ChangedFacts
  <2>2. /\ w.task = Top.task /\ w.scope = Top.scope /\ w.pc = Top.pc + 1 /\ w.base = Top.base
        /\ w.at = Top.at /\ w.frame = Top.frame /\ w.purity = Top.purity /\ w.vals = <<>>
    BY <1>2, <2>1, ChangedFacts
  <2>3. b = [w EXCEPT !.val = valcount]
    BY <1>4, <2>1
  <2>. QED  BY <1>6, <2>2, <2>3 DEF Activations
<1>10. /\ \A r \in Reads(line) : Usable(constants, body, r, Top.at)
       /\ IsPure(Top.task) => \A r \in Reads(line) : Declared(constants, r)
  BY <1>1, <1>8, TopHolds DEF Holds
<1>. QED  BY <1>1, <1>5, <1>7, <1>8, <1>9, <1>10, Writes

\* An assignment writes the register of a variable in scope.
LEMMA StoreVariableKeeps ==
    ASSUME NoPureCalls, Inv, StoreVariable
    PROVE  Inv'
<1>. USE DEF Inv
<1>1. calls # <<>> /\ ~Finished(Top) /\ This.do = "store"
  BY DEF StoreVariable, Doing
<1>2. /\ Top \in Activations /\ Top.task \in Tasks /\ Top.pc \in DOMAIN Steps(Top.task)
      /\ This = Steps(Top.task)[Top.pc] /\ Top.at \in Seq(Nat) /\ Top.vals \in Seq(Nat)
      /\ Top.frame \in Nat \ {0} /\ [task |-> Top.task, scope |-> Top.scope] \in Scoping
  BY <1>1, DoingFacts, TopFacts
<1>3. PICK r0 : r0 = frames[Top.frame][This.slot]
  OBVIOUS
<1>4. PICK line : line = Line("assign", r0, Top.vals, 0, Top.at)
  OBVIOUS
<1>5. PICK b : b = Written(Top)
  OBVIOUS
<1>6. /\ Out(line) /\ Continue(b) /\ valcount' = valcount
      /\ UNCHANGED <<program, objects, inConstants, valcache, opcaches, frames>>
  BY <1>3, <1>4, <1>5 DEF StoreVariable, caches
<1>7. This.slot \in ScopeNow(Top)
  BY <1>1, <1>2, JudgedFacts DEF ScopeNow
<1>8. r0 \in Nat
  <2>1. frames[Top.frame] \in [Slots -> Nat]
    BY <1>1, <1>2 DEF TopInv, TypeOK
  <2>2. ScopeNow(Top) \subseteq Slots
    BY <1>2, ScopedSlots DEF ScopeNow
  <2>. QED  BY <1>3, <1>7, <2>1, <2>2
<1>9. /\ line \in Lines /\ line.op = "assign" /\ line.dst = r0
      /\ line.args = Top.vals /\ line.at = Top.at
  <2>1. "assign" \in Ops /\ r0 \in Nat /\ Top.vals \in Seq(Nat) /\ Top.at \in Seq(Nat)
    BY <1>2, <1>8 DEF Ops
  <2>2. line = [op |-> "assign", dst |-> r0, args |-> Top.vals, val |-> 0, at |-> Top.at]
    BY <1>4 DEF Line
  <2>. QED  BY <2>1, <2>2, ZeroIsAValue DEF Lines
<1>10. ~Declares(line) /\ Reads(line) = Range(Top.vals) \cup {r0}
  BY <1>9 DEF Declares, Reads
<1>11. /\ b \in Activations
       /\ b.task = Top.task /\ b.scope = Top.scope /\ b.pc = Top.pc + 1 /\ b.base = Top.base
       /\ b.at = Top.at /\ b.frame = Top.frame /\ b.purity = Top.purity
       /\ b.vals = <<>> /\ b.val = Top.val
  BY <1>2, <1>5, ChangedFacts
<1>12. /\ \A r \in Reads(line) : Usable(constants, body, r, Top.at)
       /\ ~IsPure(Top.task)
  <2>1. Usable(constants, body, r0, Top.at)
    BY <1>1, <1>3, <1>7, TopHolds DEF Sees
  <2>2. \A r \in Range(Top.vals) : Usable(constants, body, r, Top.at)
    BY <1>1, TopHolds DEF Holds
  <2>3. ~IsPure(Top.task)
    BY <1>1, <1>2, PureFacts
  <2>. QED  BY <1>10, <2>1, <2>2, <2>3
<1>13. valcount' \in {valcount, valcount + 1}
  BY <1>6
<1>. QED  BY <1>1, <1>6, <1>9, <1>10, <1>11, <1>12, <1>13, Writes

\* The condition of a loop reads a register that can be used in the loop.
LEMMA WriteBreakKeeps ==
    ASSUME NoPureCalls, Inv, WriteBreak
    PROVE  Inv'
<1>. USE DEF Inv
<1>1. calls # <<>> /\ ~Finished(Top) /\ This.do = "break"
  BY DEF WriteBreak, Doing
<1>2. /\ Top \in Activations /\ Top.task \in Tasks /\ Top.pc \in DOMAIN Steps(Top.task)
      /\ This = Steps(Top.task)[Top.pc] /\ Top.at \in Seq(Nat) /\ Top.vals \in Seq(Nat)
  BY <1>1, DoingFacts
<1>3. PICK line : line = Line(This.op, 0, Top.vals, 0, Top.at)
  OBVIOUS
<1>4. PICK b : b = Written(Top)
  OBVIOUS
<1>5. /\ Out(line) /\ Continue(b) /\ valcount' = valcount
      /\ UNCHANGED <<program, objects, inConstants, valcache, opcaches, frames>>
  BY <1>3, <1>4 DEF WriteBreak, caches
<1>6. This.op \in {"break_if", "break_unless"}
  BY <1>1, <1>2, StepFacts
<1>7. /\ line \in Lines /\ line.op = This.op /\ line.args = Top.vals /\ line.at = Top.at
  <2>1. This.op \in Ops /\ 0 \in Nat /\ Top.vals \in Seq(Nat) /\ Top.at \in Seq(Nat)
    BY <1>2, <1>6 DEF Ops
  <2>2. line = [op |-> This.op, dst |-> 0, args |-> Top.vals, val |-> 0, at |-> Top.at]
    BY <1>3 DEF Line
  <2>. QED  BY <2>1, <2>2, ZeroIsAValue DEF Lines
<1>8. ~Declares(line) /\ Reads(line) = Range(Top.vals)
  BY <1>6, <1>7 DEF Declares, Reads
<1>9. /\ b \in Activations
      /\ b.task = Top.task /\ b.scope = Top.scope /\ b.pc = Top.pc + 1 /\ b.base = Top.base
      /\ b.at = Top.at /\ b.frame = Top.frame /\ b.purity = Top.purity
      /\ b.vals = <<>> /\ b.val = Top.val
  BY <1>2, <1>4, ChangedFacts
<1>10. /\ \A r \in Reads(line) : Usable(constants, body, r, Top.at)
       /\ ~IsPure(Top.task)
  <2>1. ~IsPure(Top.task)
    BY <1>1, <1>2, PureFacts
  <2>. QED  BY <1>1, <1>8, <2>1, TopHolds DEF Holds
<1>11. valcount' \in {valcount, valcount + 1}
  BY <1>5
<1>. QED  BY <1>1, <1>5, <1>7, <1>8, <1>9, <1>10, <1>11, Writes


-----------------------------------------------------------------------------
(* Steps that bind a variable                                              *)

\* A variable is bound in a slot of the innermost frame that no variable in
\* scope has.
LEMMA SlotBound ==
    ASSUME TypeOK, NestingInv, TopInv, calls # <<>>,
           NEW slot \in Slots \ ScopeNow(Top), NEW r \in Nat,
           frames' = [frames EXCEPT ![Top.frame][slot] = r]
    PROVE  /\ frames' \in Seq([Slots -> Nat]) /\ Len(frames') = Top.frame
           /\ frames'[Top.frame][slot] = r
           /\ \A s \in ScopeNow(Top) : frames'[Top.frame][s] = frames[Top.frame][s]
           /\ \A k \in 1..(Len(calls) - 1) : \A s \in ScopeNow(calls[k]) :
                 frames'[calls[k].frame][s] = frames[calls[k].frame][s]
<1>1. /\ Len(calls) \in Nat \ {0} /\ DOMAIN calls = 1..Len(calls)
      /\ Top = calls[Len(calls)] /\ Top \in Activations /\ calls \in Seq(Activations)
      /\ [task |-> Top.task, scope |-> Top.scope] \in Scoping
  BY TopFacts DEF TypeOK, CallsTyped
<1>2. frames \in Seq([Slots -> Nat]) /\ Len(frames) = Top.frame /\ Top.frame \in Nat \ {0}
  BY <1>1, ActivationFacts DEF TypeOK, TopInv
<1>3. PICK f : f = [frames[Top.frame] EXCEPT ![slot] = r]
  OBVIOUS
<1>4. /\ f \in [Slots -> Nat] /\ f[slot] = r
      /\ \A s \in Slots : s # slot => f[s] = frames[Top.frame][s]
  <2>1. frames[Top.frame] \in [Slots -> Nat]
    BY <1>2
  <2>. QED  BY <1>3, <2>1
<1>5. frames' = [frames EXCEPT ![Top.frame] = f]
  BY <1>3
<1>6. /\ frames' \in Seq([Slots -> Nat]) /\ Len(frames') = Top.frame
      /\ frames'[Top.frame] = f
      /\ \A i \in 1..Top.frame : i # Top.frame => frames'[i] = frames[i]
  BY <1>2, <1>4, <1>5
<1>7. \A s \in ScopeNow(Top) : s \in Slots /\ s # slot
  BY <1>1, ScopedSlots DEF ScopeNow
<1>8. ASSUME NEW k \in 1..(Len(calls) - 1), NEW s \in ScopeNow(calls[k])
      PROVE  frames'[calls[k].frame][s] = frames[calls[k].frame][s]
  <2>1. k \in DOMAIN calls /\ k < Len(calls) /\ Len(calls) \in DOMAIN calls
    BY <1>1
  <2>2. calls[k] \in Activations /\ [task |-> calls[k].task, scope |-> calls[k].scope] \in Scoping
    BY <1>1, <2>1 DEF TypeOK, CallsTyped
  <2>3. Around(calls[k], Top)
    BY <1>1, <2>1 DEF NestingInv
  <2>4. calls[k].frame \in 1..Top.frame
    BY <1>2, <2>2, <2>3, ActivationFacts DEF Around
  <2>5. CASE calls[k].frame = Top.frame
    <3>1. s \in ScopeNow(Top)
      BY <2>3, <2>5 DEF Around
    <3>. QED  BY <1>4, <1>6, <1>7, <2>5, <3>1
  <2>6. CASE calls[k].frame # Top.frame
    BY <1>6, <2>4, <2>6
  <2>. QED  BY <2>5, <2>6
<1>. QED  BY <1>4, <1>6, <1>7, <1>8

\* Id_Pattern::sc_exec binds a register that can be used at the current block.
LEMMA BindVariableKeeps ==
    ASSUME NoPureCalls, Inv, BindVariable
    PROVE  Inv'
<1>. USE DEF Inv
<1>1. calls # <<>> /\ ~Finished(Top) /\ This.do = "bind"
  BY DEF BindVariable, Doing
<1>2. /\ Top \in Activations /\ Top.task \in Tasks /\ Top.pc \in DOMAIN Steps(Top.task)
      /\ This = Steps(Top.task)[Top.pc] /\ Top.val \in Nat /\ Top.frame \in Nat
      /\ [task |-> Top.task, scope |-> Top.scope] \in Scoping
  BY <1>1, DoingFacts, TopFacts
<1>3. PICK slot : slot = This.slot
  OBVIOUS
<1>4. slot \in Slots \ ScopeNow(Top) /\ BoundBy(This) = {slot}
  BY <1>1, <1>2, <1>3, JudgedFacts DEF ScopeNow, BoundBy
<1>5. /\ frames' = [frames EXCEPT ![Top.frame][slot] = Top.val]
      /\ Continue(Advanced(Top))
      /\ UNCHANGED <<program, objects, streams, caches>>
  BY <1>3 DEF BindVariable
<1>6. /\ frames' \in Seq([Slots -> Nat]) /\ Len(frames') = Top.frame
      /\ frames'[Top.frame][slot] = Top.val
      /\ \A s \in ScopeNow(Top) : frames'[Top.frame][s] = frames[Top.frame][s]
      /\ \A k \in 1..(Len(calls) - 1) : \A s \in ScopeNow(calls[k]) :
            frames'[calls[k].frame][s] = frames[calls[k].frame][s]
  BY <1>1, <1>2, <1>4, <1>5, SlotBound
<1>7. PICK a \in Activations : a = Advanced(Top)
  BY <1>2, ChangedFacts
<1>8. /\ a.task = Top.task /\ a.scope = Top.scope /\ a.base = Top.base /\ a.purity = Top.purity
      /\ a.frame = Top.frame
  BY <1>2, <1>7, ChangedFacts
<1>9. ~Opened(Top) /\ ~IsPure(Top.task)
  BY <1>1, <1>2, OpenedFacts, PureFacts
<1>10. /\ InBlock(body, a) /\ Holds(constants, body, a) /\ Sees(constants, body, frames', a)
       /\ ScopeNow(a) = ScopeNow(Top) \cup {slot}
  <2>1. /\ InBlock(body, Top) /\ Holds(constants, body, Top)
        /\ Sees(constants, body, frames, Top)
    BY <1>1, TopHolds
  <2>2. Sees(constants, body, frames', Top)
    BY <1>6, <2>1 DEF Sees
  <2>3. \A s \in BoundBy(This) : Usable(constants, body, frames'[Top.frame][s], Top.at)
    BY <1>4, <1>6, <1>9, <2>1 DEF Holds
  <2>. QED  BY <1>1, <1>2, <1>4, <1>7, <1>9, <2>1, <2>2, <2>3, AdvancedOver
<1>11. UNCHANGED <<constants, body, inConstants, valcount, valcache, opcaches, program, objects>>
  BY <1>5 DEF streams, caches
<1>12. CallsTyped' /\ CallsInv' /\ NestingInv' /\ TopInv'
  <2>1. \A line \in Lines : ~WithLine(body, body', line)
    BY <1>11, SameIsNotLonger DEF TypeOK
  <2>2. Grows(constants, body, constants', body') /\ valcount' > 0
    BY <1>1, <1>11 DEF Grows, TopInv
  <2>3. /\ Continue(a) /\ a.frame = Len(frames') /\ Top.frame <= a.frame
        /\ ScopeNow(Top) \subseteq ScopeNow(a)
    BY <1>2, <1>5, <1>6, <1>7, <1>8, <1>10
  <2>4. /\ inConstants' = inConstants
        /\ InBlock(body', a) /\ Holds(constants', body', a)
        /\ Sees(constants', body', frames', a)
    BY <1>10, <1>11
  <2>. QED  BY <1>1, <1>6, <1>8, <2>1, <2>2, <2>3, <2>4, Continues
<1>. QED  BY <1>6, <1>11, <1>12 DEF TypeOK, CodeInv, CacheInv, ObjectsInv

\* Closure::sc_call_expr gives the body of a function a frame of its own, where
\* the parameter is the register of the argument.
LEMMA EnterFunctionKeeps ==
    ASSUME NoPureCalls, Inv, EnterFunction
    PROVE  Inv'
<1>. USE DEF Inv
<1>1. calls # <<>> /\ ~Finished(Top) /\ This.do = "enter"
  BY DEF EnterFunction, Doing
<1>2. /\ Top \in Activations /\ Top.task \in Tasks /\ Top.pc \in DOMAIN Steps(Top.task)
      /\ This = Steps(Top.task)[Top.pc] /\ Top.val \in Nat /\ Top.frame \in Nat \ {0}
  BY <1>1, DoingFacts
<1>3. PICK f : f = [EmptyFrame EXCEPT ![Parameter] = Top.val]
  OBVIOUS
<1>4. f \in [Slots -> Nat] /\ f[Parameter] = Top.val
  BY <1>2, <1>3, SlotsAssumption DEF EmptyFrame
<1>5. PICK a : a = [Advanced(Top) EXCEPT !.frame = Len(frames) + 1]
  OBVIOUS
<1>6. /\ frames' = Append(frames, f) /\ Continue(a)
      /\ UNCHANGED <<program, objects, constants, body, inConstants,
                     valcount, valcache, opcaches>>
  BY <1>3, <1>5 DEF EnterFunction, streams, caches
<1>7. frames \in Seq([Slots -> Nat]) /\ Len(frames) = Top.frame
  BY <1>1 DEF TypeOK, TopInv
<1>8. /\ frames' \in Seq([Slots -> Nat]) /\ Len(frames') = Top.frame + 1
      /\ frames'[Top.frame + 1] = f
      /\ \A i \in 1..Top.frame : frames'[i] = frames[i]
  BY <1>4, <1>6, <1>7, Appended
<1>9. /\ a \in Activations
      /\ a.task = Top.task /\ a.scope = Top.scope /\ a.pc = Top.pc + 1 /\ a.base = Top.base
      /\ a.at = Top.at /\ a.vals = Top.vals /\ a.val = Top.val
      /\ a.frame = Top.frame + 1 /\ a.purity = Top.purity
  <2>1. PICK b \in Activations : b = Advanced(Top)
    BY <1>2, ChangedFacts
  <2>2. /\ b.task = Top.task /\ b.scope = Top.scope /\ b.pc = Top.pc + 1 /\ b.base = Top.base
        /\ b.at = Top.at /\ b.vals = Top.vals /\ b.val = Top.val /\ b.purity = Top.purity
    BY <1>2, <2>1, ChangedFacts
  <2>3. a = [b EXCEPT !.frame = Top.frame + 1]
    BY <1>5, <1>7, <2>1
  <2>4. Top.frame + 1 \in Nat \ {0}
    BY <1>2
  <2>5. a \in Activations /\ a.frame = Top.frame + 1
    BY <2>1, <2>3, <2>4 DEF Activations
  <2>6. /\ a.task = b.task /\ a.scope = b.scope /\ a.pc = b.pc /\ a.base = b.base
        /\ a.at = b.at /\ a.vals = b.vals /\ a.val = b.val /\ a.purity = b.purity
    BY <2>1, <2>3 DEF Activations
  <2>7. b.pc = Top.pc + 1
    BY <2>2
  <2>. QED  BY <2>2, <2>5, <2>6, <2>7
<1>10. Top.task.do = "eval" /\ ~IsPure(Top.task)
  BY <1>1, <1>2, StepFacts, PureFacts
<1>11. ScopeNow(a) = {Parameter}
  BY <1>1, <1>2, <1>9, ScopeAfterStep DEF ScopeNow
<1>12. ~Opened(Top) /\ ~Opened(a)
  BY <1>1, <1>2, <1>9, <1>10, OpenedFacts, OpenedAfterStep
<1>13. InBlock(body, Top) /\ Holds(constants, body, Top)
  BY <1>1, TopHolds
<1>14. InBlock(body, a)
  BY <1>9, <1>12, <1>13 DEF InBlock
<1>15. Holds(constants, body, a)
  BY <1>9, <1>10, <1>12, <1>13 DEF Holds
<1>16. Sees(constants, body, frames', a)
  BY <1>4, <1>8, <1>9, <1>11, <1>12, <1>13 DEF Sees, Holds
<1>17. ASSUME NEW k \in 1..(Len(calls) - 1), NEW s \in ScopeNow(calls[k])
       PROVE  frames'[calls[k].frame][s] = frames[calls[k].frame][s]
  <2>1. /\ k \in DOMAIN calls /\ k < Len(calls) /\ Len(calls) \in DOMAIN calls
        /\ Top = calls[Len(calls)]
    BY <1>1, TopFacts
  <2>2. calls[k] \in Activations
    BY <2>1 DEF TypeOK, CallsTyped
  <2>3. Around(calls[k], Top)
    BY <2>1 DEF NestingInv
  <2>4. calls[k].frame \in 1..Top.frame
    BY <1>2, <2>2, <2>3, ActivationFacts DEF Around
  <2>. QED  BY <1>8, <2>4
<1>18. CallsTyped' /\ CallsInv' /\ NestingInv' /\ TopInv'
  <2>1. \A line \in Lines : ~WithLine(body, body', line)
    BY <1>6, SameIsNotLonger DEF TypeOK
  <2>2. Grows(constants, body, constants', body') /\ valcount' > 0
    BY <1>1, <1>6 DEF Grows, TopInv
  <2>3. a.frame = Len(frames') /\ Top.frame <= a.frame /\ a.frame # Top.frame
    BY <1>2, <1>8, <1>9
  <2>. QED  BY <1>1, <1>2, <1>6, <1>9, <1>10, <1>14, <1>15, <1>16, <1>17, <2>1, <2>2, <2>3,
               Continues
<1>. QED  BY <1>6, <1>8, <1>18 DEF TypeOK, CodeInv, CacheInv, ObjectsInv

-----------------------------------------------------------------------------
(* Steps that open a block                                                 *)

\* A block that has not ended is inside blocks that have not.
LEMMA OpenAround ==
    ASSUME NEW bd, NEW at \in Seq(Nat), NEW base \in Seq(Nat), IsPrefix(base, at), OpenAt(bd, at)
    PROVE  OpenAt(bd, base)
<1>1. ASSUME NEW i \in DOMAIN base
      PROVE  /\ base[i] \in DOMAIN bd /\ bd[base[i]].op \in Openers
             /\ \A q \in DOMAIN bd : q > base[i] => IsPrefix(SubSeq(base, 1, i), bd[q].at)
  <2>1. i \in 1..Len(base)
    OBVIOUS
  <2>2. SubSeq(base, 1, i) = SubSeq(at, 1, i) /\ base[i] = at[i] /\ i \in DOMAIN at
    BY <2>1, SharedBeginning
  <2>. QED  BY <2>2 DEF OpenAt
<1>. QED  BY <1>1 DEF OpenAt

\* A task that opens its second block is an if, which is executed and has bound
\* no variable.
LEMMA SecondBlock ==
    ASSUME NEW a \in Activations, [task |-> a.task, scope |-> a.scope] \in Scoping,
           Opened(a), a.pc \in DOMAIN Steps(a.task), Steps(a.task)[a.pc].do = "open"
    PROVE  ScopeNow(a) = a.scope
<1>1. a.task \in Tasks
  BY ActivationFacts
<1>2. a.task.do = "exec" /\ a.task.e.op = "if"
  BY <1>1, OpenedFacts
<1>3. Steps(a.task) = <<EvalOp(a.task.e.args[1]), Open("if"), ExecOp(a.task.e.args[2]),
                        Open("else"), ExecOp(a.task.e.args[3])>>
  BY <1>2, StepsOfStatement DEF Steps
<1>4. \A p \in DOMAIN Steps(a.task) :
         /\ Steps(a.task)[p].do \in {"eval", "exec", "open"}
         /\ Steps(a.task)[p] # Enter
  BY <1>3 DEF EvalOp, ExecOp, Open, Enter
<1>5. \A p \in DOMAIN Steps(a.task) : BoundBy(Steps(a.task)[p]) = {}
  <2>1. ASSUME NEW p \in DOMAIN Steps(a.task), Steps(a.task)[p].do = "exec"
        PROVE  Steps(a.task)[p].e.op \notin {"local", "var"}
    BY <1>2, <2>1, DefinitionIsItem
  <2>. QED  BY <1>4, <2>1 DEF BoundBy
<1>6. UNION {BoundBy(Steps(a.task)[p]) : p \in {p \in DOMAIN Steps(a.task) : p < a.pc}} = {}
  BY <1>5
<1>. QED  BY <1>4, <1>6 DEF ScopeNow, ScopeAt

\* The variables in scope can be used where a block is opened.
LEMMA SeenAtBase ==
    ASSUME TypeOK, CallsInv, NestingInv, calls # <<>>, ~Finished(Top),
           This.do \in {"open", "for"}
    PROVE  /\ \A s \in ScopeNow(Top) : Usable(constants, body, frames[Top.frame][s], Top.base)
           /\ \A r \in Range(Top.vals) : Usable(constants, body, r, Top.base)
           /\ OpenAt(body, Top.base)
<1>1. /\ Top \in Activations /\ Top.task \in Tasks /\ Top.pc \in DOMAIN Steps(Top.task)
      /\ This = Steps(Top.task)[Top.pc] /\ Top.at \in Seq(Nat) /\ Top.base \in Seq(Nat)
      /\ Top = calls[Len(calls)] /\ DOMAIN calls = 1..Len(calls) /\ Len(calls) \in Nat \ {0}
      /\ [task |-> Top.task, scope |-> Top.scope] \in Scoping
  BY DoingFacts, TopFacts
<1>2. /\ InBlock(body, Top) /\ Holds(constants, body, Top)
      /\ Sees(constants, body, frames, Top)
  BY TopHolds
<1>3. OpenAt(body, Top.base)
  <2>1. body \in Seq(Lines) /\ IsPrefix(Top.base, Top.at)
    BY <1>1, <1>2, BaseOfBlock DEF TypeOK
  <2>. QED  BY <1>1, <1>2, <2>1, OpenAround DEF InBlock
<1>4. CASE ~Opened(Top)
  <2>1. Top.at = Top.base
    BY <1>2, <1>4 DEF InBlock
  <2>. QED  BY <1>2, <1>3, <2>1 DEF Holds, Sees
<1>5. CASE Opened(Top)
  <2>1. Top.task.do = "exec" /\ Top.task.e.op = "if" /\ This.do = "open"
    BY <1>1, <1>5, OpenedFacts
  <2>2. Range(Top.vals) = {}
    BY <1>2, <1>5, <2>1, RangeOfEmpty DEF InBlock
  <2>3. ScopeNow(Top) = Top.scope
    BY <1>1, <1>5, <2>1, SecondBlock
  <2>4. Len(calls) > 1
    BY <1>1, <2>1 DEF NestingInv, First
  <2>5. PICK caller : caller = calls[Len(calls) - 1]
    OBVIOUS
  <2>6. BegunBy(Top, caller)
    BY <1>1, <2>4, <2>5 DEF NestingInv
  <2>7. Sees(constants, body, frames, caller)
    <3>1. Len(calls) - 1 \in DOMAIN calls
      BY <1>1, <2>4
    <3>. QED  BY <2>5, <3>1 DEF CallsInv
  <2>. QED  BY <1>3, <2>1, <2>2, <2>3, <2>6, <2>7 DEF Sees, BegunBy
<1>. QED  BY <1>4, <1>5

\* A line that opens a block, and the activation that goes on in the block
LEMMA Opens ==
    ASSUME NoPureCalls, Inv, calls # <<>>, ~Finished(Top), This.do \in {"open", "for"},
           NEW line \in Lines, line.op \in Openers, line.args = Top.vals,
           body' = Append(body, line), constants' = constants,
           line.at = (IF Declares(line) THEN NewBlock ELSE Top.base),
           valcount' = (IF Declares(line) THEN valcount + 1 ELSE valcount),
           Declares(line) => line.dst = valcount,
           frames' \in Seq([Slots -> Nat]), Len(frames') = Top.frame,
           \A s \in ScopeNow(Top) : frames'[Top.frame][s] = frames[Top.frame][s],
           \A s \in BoundBy(This) : Declares(line) /\ frames'[Top.frame][s] = valcount,
           \A k \in 1..(Len(calls) - 1) : \A s \in ScopeNow(calls[k]) :
               frames'[calls[k].frame][s] = frames[calls[k].frame][s],
           opcaches' \in {opcaches, PushCache},
           Continue([Written(Top) EXCEPT !.at = NewBlock]),
           UNCHANGED <<program, objects, inConstants, valcache>>
    PROVE  Inv'
<1>. USE DEF Inv
<1>1. /\ Top \in Activations /\ Top.task \in Tasks /\ Top.pc \in DOMAIN Steps(Top.task)
      /\ This = Steps(Top.task)[Top.pc] /\ Top.at \in Seq(Nat) /\ Top.base \in Seq(Nat)
      /\ Top.frame \in Nat
  BY DoingFacts
<1>2. /\ constants \in Seq(Lines) /\ body \in Seq(Lines) /\ valcount \in Nat /\ valcount > 0
      /\ CodeOK(constants, body, valcount)
  BY DEF TypeOK, TopInv, CodeInv
<1>3. PICK k \in Nat : k = Len(body) + 1
  BY <1>2
<1>4. PICK new \in Seq(Nat) : new = NewBlock
  BY <1>1, <1>3, PrefixOfAppend DEF NewBlock
<1>5. /\ new = Append(Top.base, k) /\ IsPrefix(Top.base, new)
  BY <1>1, <1>3, <1>4, PrefixOfAppend DEF NewBlock
<1>6. line.at \in {Top.base, new} /\ IsPrefix(Top.base, line.at) /\ IsPrefix(line.at, new)
  BY <1>1, <1>4, <1>5, PrefixReflexive
<1>7. body' \in Seq(Lines) /\ k \in DOMAIN body'
  BY <1>2, <1>3, Appended
<1>8. OpenAt(body', Top.base) /\ OpenAt(body', new)
  BY <1>1, <1>2, <1>3, <1>5, <1>6, SeenAtBase, OpenGrows, OpenNew
<1>9. CodeInv'
  <2>1. Reads(line) = Range(Top.vals)
    BY DEF Openers, Reads
  <2>2. \A r \in Reads(line) : Usable(constants, body, r, line.at)
    BY <1>1, <1>2, <1>4, <1>6, <2>1, SeenAtBase, UsableInside
  <2>3. OpenAt(Append(body, line), line.at)
    BY <1>6, <1>8
  <2>4. PICK m \in {valcount, valcount + 1} : m = valcount'
    OBVIOUS
  <2>5. Declares(line) => line.dst = valcount /\ valcount > 0 /\ m = valcount + 1
    BY <1>2, <2>4
  <2>6. CodeOK(constants, Append(body, line), m)
    BY <1>2, <2>2, <2>3, <2>5, BodyLine
  <2>. QED  BY <2>4, <2>6 DEF CodeInv
<1>10. PICK a : a = [Written(Top) EXCEPT !.at = new]
  OBVIOUS
<1>11. /\ a \in Activations
       /\ a.task = Top.task /\ a.scope = Top.scope /\ a.pc = Top.pc + 1 /\ a.base = Top.base
       /\ a.at = new /\ a.vals = <<>> /\ a.frame = Top.frame /\ a.purity = Top.purity
  <2>1. PICK w \in Activations : w = Written(Top)
    BY <1>1, ChangedFacts
  <2>2. /\ w.task = Top.task /\ w.scope = Top.scope /\ w.pc = Top.pc + 1 /\ w.base = Top.base
        /\ w.frame = Top.frame /\ w.purity = Top.purity /\ w.vals = <<>>
    BY <1>1, <2>1, ChangedFacts
  <2>3. a = [w EXCEPT !.at = new]
    BY <1>10, <2>1
  <2>. QED  BY <2>2, <2>3 DEF Activations
<1>12. Grows(constants, body, constants', body')
  BY DEF Grows, WithLine
<1>13. InBlock(body', a)
  <2>1. Opened(a)
    BY <1>1, <1>11, OpenedAfterStep
  <2>. QED  BY <1>5, <1>7, <1>8, <1>11, <2>1 DEF InBlock
<1>14. Holds(constants', body', a)
  <2>1. Opened(a) /\ ~IsPure(a.task) /\ Range(a.vals) = {}
    BY <1>1, <1>11, OpenedAfterStep, PureFacts, RangeOfEmpty
  <2>. QED  BY <2>1 DEF Holds
<1>15. ScopeNow(a) = ScopeNow(Top) \cup BoundBy(This)
  BY <1>1, <1>11, ScopeAfterStep DEF ScopeNow
<1>16. Sees(constants', body', frames', a)
  <2>1. ASSUME NEW s \in ScopeNow(Top)
        PROVE  Usable(constants', body', frames'[a.frame][s], a.at)
    <3>1. PICK r : r = frames[Top.frame][s]
      OBVIOUS
    <3>2. Usable(constants, body, r, Top.base)
      BY <3>1, SeenAtBase
    <3>3. Usable(constants', body', r, Top.base)
      BY <1>1, <1>2, <1>12, <3>2, UsableGrows
    <3>4. Usable(constants', body', r, new)
      BY <1>1, <1>5, <1>7, <3>3, UsableInside
    <3>. QED  BY <1>11, <3>1, <3>4
  <2>2. ASSUME NEW s \in BoundBy(This)
        PROVE  Usable(constants', body', frames'[a.frame][s], a.at)
    <3>1. Declares(line) /\ line.dst = valcount /\ frames'[a.frame][s] = valcount
      BY <1>11
    <3>2. Known(body', valcount, new)
      BY <1>2, <1>6, <3>1, KnownGrows
    <3>. QED  BY <1>11, <3>1, <3>2 DEF Usable
  <2>. QED  BY <1>15, <2>1, <2>2 DEF Sees
<1>17. CallsTyped' /\ CallsInv' /\ NestingInv' /\ TopInv'
  <2>1. \A l \in Lines : WithLine(body, body', l) => IsPrefix(Top.base, l.at)
    <3>1. \A l \in Lines : WithLine(body, body', l) => l = line
      BY <1>2, AppendedOnce DEF WithLine
    <3>. QED  BY <1>6, <3>1
  <2>2. a.frame = Len(frames') /\ Top.frame <= a.frame /\ ScopeNow(Top) \subseteq ScopeNow(a)
    BY <1>1, <1>11, <1>15
  <2>3. Continue(a)
    BY <1>4, <1>10
  <2>4. inConstants' = inConstants /\ valcount' > 0
    BY <1>2
  <2>. QED  BY <1>11, <1>12, <1>13, <1>14, <1>16, <2>1, <2>2, <2>3, <2>4, Continues
<1>18. opcaches' \in Seq(CachesOf(Operations)) /\ CacheInv'
  <2>1. opcaches \in Seq(CachesOf(Operations))
    BY DEF TypeOK
  <2>2. <<>> \in CachesOf(Operations) /\ DOMAIN <<>> = {}
    <3>1. <<>> \in [{} -> Nat]
      OBVIOUS
    <3>. QED  BY <3>1 DEF CachesOf
  <2>3. CASE opcaches' = opcaches
    BY <2>1, <2>3 DEF CacheInv
  <2>4. CASE opcaches' = PushCache
    <3>1. /\ opcaches' \in Seq(CachesOf(Operations))
          /\ DOMAIN opcaches' = DOMAIN opcaches \cup {Len(opcaches) + 1}
          /\ \A i \in DOMAIN opcaches : opcaches'[i] = opcaches[i]
          /\ opcaches'[Len(opcaches) + 1] = <<>>
      BY <2>1, <2>2, <2>4, Appended DEF PushCache
    <3>. QED  BY <2>2, <3>1 DEF CacheInv
  <2>. QED  BY <2>3, <2>4
<1>19. TypeOK'
  <2>1. valcount' \in Nat
    BY <1>2
  <2>. QED  BY <1>2, <1>7, <1>17, <1>18, <2>1 DEF TypeOK
<1>20. ObjectsInv'
  BY DEF ObjectsInv
<1>. QED  BY <1>9, <1>17, <1>18, <1>19, <1>20

\* `if', `else' and `while' open a block.
LEMMA OpenBlockKeeps ==
    ASSUME NoPureCalls, Inv, OpenBlock
    PROVE  Inv'
<1>. USE DEF Inv
<1>1. calls # <<>> /\ ~Finished(Top) /\ This.do = "open"
  BY DEF OpenBlock, Doing
<1>2. /\ Top \in Activations /\ Top.task \in Tasks /\ Top.pc \in DOMAIN Steps(Top.task)
      /\ This = Steps(Top.task)[Top.pc] /\ Top.base \in Seq(Nat) /\ Top.vals \in Seq(Nat)
  BY <1>1, DoingFacts
<1>3. PICK line : line = Line(This.op, 0, Top.vals, 0, Top.base)
  OBVIOUS
<1>4. This.op \in {"if", "else", "while"} /\ ~IsPure(Top.task)
  BY <1>1, <1>2, StepFacts, PureFacts
<1>5. /\ line \in Lines /\ line.op = This.op /\ line.args = Top.vals /\ line.at = Top.base
  <2>1. This.op \in Ops /\ 0 \in Nat /\ Top.vals \in Seq(Nat) /\ Top.base \in Seq(Nat)
    BY <1>2, <1>4 DEF Ops
  <2>2. line = [op |-> This.op, dst |-> 0, args |-> Top.vals, val |-> 0, at |-> Top.base]
    BY <1>3 DEF Line
  <2>. QED  BY <2>1, <2>2, ZeroIsAValue DEF Lines
<1>6. line.op \in Openers /\ ~Declares(line)
  BY <1>4, <1>5 DEF Openers, Declares
<1>7. /\ body' = Append(body, line) /\ constants' = constants
      /\ UNCHANGED <<program, objects, inConstants, valcount, valcache, frames>>
      /\ Continue([Written(Top) EXCEPT !.at = NewBlock])
      /\ opcaches' \in {opcaches, PushCache}
  BY <1>3, <1>4 DEF OpenBlock, Out, TopInv
<1>8. frames' \in Seq([Slots -> Nat]) /\ Len(frames') = Top.frame
  BY <1>1, <1>7 DEF TypeOK, TopInv
<1>9. BoundBy(This) = {}
  BY <1>1 DEF BoundBy
<1>. QED  BY <1>1, <1>5, <1>6, <1>7, <1>8, <1>9, Opens

\* `for' opens a block, in which it declares a register for its variable.
LEMMA OpenForBlockKeeps ==
    ASSUME NoPureCalls, Inv, OpenForBlock
    PROVE  Inv'
<1>. USE DEF Inv
<1>1. calls # <<>> /\ ~Finished(Top) /\ This.do = "for"
  BY DEF OpenForBlock, Doing
<1>2. /\ Top \in Activations /\ Top.task \in Tasks /\ Top.pc \in DOMAIN Steps(Top.task)
      /\ This = Steps(Top.task)[Top.pc] /\ Top.base \in Seq(Nat) /\ Top.vals \in Seq(Nat)
      /\ [task |-> Top.task, scope |-> Top.scope] \in Scoping
  BY <1>1, DoingFacts, TopFacts
<1>3. PICK line : line = Line("for", valcount, Top.vals, 0, NewBlock)
  OBVIOUS
<1>4. ~IsPure(Top.task) /\ valcount \in Nat
  BY <1>1, <1>2, PureFacts DEF TypeOK
<1>5. NewBlock \in Seq(Nat)
  <2>1. Len(body) + 1 \in Nat
    BY DEF TypeOK
  <2>. QED  BY <1>2, <2>1, PrefixOfAppend DEF NewBlock
<1>6. /\ line \in Lines /\ line.op = "for" /\ line.args = Top.vals /\ line.at = NewBlock
      /\ line.dst = valcount
  <2>1. "for" \in Ops /\ valcount \in Nat /\ Top.vals \in Seq(Nat)
    BY <1>2, <1>4 DEF Ops
  <2>2. line = [op |-> "for", dst |-> valcount, args |-> Top.vals, val |-> 0, at |-> NewBlock]
    BY <1>3 DEF Line
  <2>. QED  BY <1>5, <2>1, <2>2, ZeroIsAValue DEF Lines
<1>7. line.op \in Openers /\ Declares(line)
  BY <1>6 DEF Openers, Declares
<1>8. PICK slot : slot = This.slot
  OBVIOUS
<1>9. slot \in Slots \ ScopeNow(Top) /\ BoundBy(This) = {slot}
  BY <1>1, <1>2, <1>8, JudgedFacts DEF ScopeNow, BoundBy
<1>10. /\ body' = Append(body, line) /\ constants' = constants
       /\ UNCHANGED <<program, objects, inConstants, valcache>>
       /\ Continue([Written(Top) EXCEPT !.at = NewBlock])
       /\ opcaches' = PushCache /\ valcount' = valcount + 1
       /\ frames' = [frames EXCEPT ![Top.frame][slot] = valcount]
  BY <1>3, <1>4, <1>8 DEF OpenForBlock, Out, TopInv
<1>11. /\ frames' \in Seq([Slots -> Nat]) /\ Len(frames') = Top.frame
       /\ frames'[Top.frame][slot] = valcount
       /\ \A s \in ScopeNow(Top) : frames'[Top.frame][s] = frames[Top.frame][s]
       /\ \A k \in 1..(Len(calls) - 1) : \A s \in ScopeNow(calls[k]) :
             frames'[calls[k].frame][s] = frames[calls[k].frame][s]
  BY <1>1, <1>4, <1>9, <1>10, SlotBound
<1>. QED  BY <1>1, <1>6, <1>7, <1>9, <1>10, <1>11, Opens

-----------------------------------------------------------------------------
(* Steps that begin and end an activation                                  *)

\* An activation that is new holds nothing.
LEMMA HoldsNothing ==
    ASSUME NEW a, a.vals = <<>>, a.val = 0, a.pc = 1, NEW cs, NEW bd
    PROVE  Holds(cs, bd, a)
<1>1. Range(a.vals) = {}
  BY RangeOfEmpty
<1>. QED  BY <1>1 DEF Holds, Usable

\* Where an activation begins
LEMMA NewActivation ==
    ASSUME NEW task \in Tasks, NEW scope \in SUBSET Slots, NEW at \in Seq(Nat),
           NEW frame \in Nat \ {0}, inConstants \in BOOLEAN, NEW a,
           a = Activation(task, scope, at, frame)
    PROVE  /\ a \in Activations
           /\ a.task = task /\ a.scope = scope /\ a.base = at /\ a.at = at /\ a.val = 0
           /\ a.frame = frame /\ a.purity = inConstants
           /\ ~Opened(a) /\ ScopeNow(a) = scope
           /\ a.pc = 1 /\ a.vals = <<>>
           /\ \A bd : OpenAt(bd, at) => InBlock(bd, a)
<1>1. /\ a \in Activations /\ a.pc = 1 /\ a.vals = <<>>
      /\ a.task = task /\ a.scope = scope /\ a.base = at /\ a.at = at /\ a.val = 0
      /\ a.frame = frame /\ a.purity = inConstants
  <2>1. <<>> \in Seq(Nat) /\ 1 \in Nat \ {0} /\ 0 \in Nat
    OBVIOUS
  <2>. QED  BY <2>1 DEF Activation, Activations
<1>2. ~Opened(a) /\ ScopeNow(a) = scope
  BY <1>1, OpenedAtStart, ScopeAtStart DEF ScopeNow
<1>3. \A bd : OpenAt(bd, at) => InBlock(bd, a)
  BY <1>1, <1>2 DEF InBlock
<1>. QED  BY <1>1, <1>2, <1>3

\* sc_eval_op and sc_exec compile an operation at the block, in the frame and in
\* the scope of the one that it is part of.
LEMMA BeginKeeps ==
    ASSUME NoPureCalls, Inv, Begin
    PROVE  Inv'
<1>. USE DEF Inv
<1>1. calls # <<>> /\ ~Finished(Top) /\ This.do \in {"eval", "exec"}
  BY DEF Begin, Doing
<1>2. /\ Top \in Activations /\ Top.task \in Tasks /\ Top.pc \in DOMAIN Steps(Top.task)
      /\ This = Steps(Top.task)[Top.pc] /\ Top.base \in Seq(Nat) /\ Top.at \in Seq(Nat)
      /\ Top.frame \in Nat \ {0}
      /\ [task |-> Top.task, scope |-> Top.scope] \in Scoping
  BY <1>1, DoingFacts, TopFacts
<1>3. PICK n : n = Len(calls)
  OBVIOUS
<1>4. /\ n \in Nat \ {0} /\ calls \in Seq(Activations) /\ DOMAIN calls = 1..n /\ Top = calls[n]
  BY <1>1, <1>3, TopFacts DEF TypeOK, CallsTyped
<1>5. PICK scope : scope = ScopeNow(Top)
  OBVIOUS
<1>6. [task |-> This, scope |-> scope] \in Scoping /\ This \in Tasks /\ scope \in SUBSET Slots
  <2>1. [task |-> This, scope |-> scope] \in Scoping
    BY <1>1, <1>2, <1>5, JudgedFacts DEF ScopeNow
  <2>. QED  BY <2>1, JudgedFacts
<1>7. PICK b : b = Activation(This, scope, Top.at, Top.frame)
  OBVIOUS
<1>8. /\ b \in Activations
      /\ b.task = This /\ b.scope = scope /\ b.base = Top.at /\ b.at = Top.at
      /\ b.frame = Top.frame /\ b.purity = inConstants /\ ScopeNow(b) = scope
      /\ OpenAt(body, Top.at) => InBlock(body, b)
      /\ Holds(constants, body, b)
  <2>1. /\ inConstants \in BOOLEAN /\ This \in Tasks /\ scope \in SUBSET Slots
        /\ Top.at \in Seq(Nat) /\ Top.frame \in Nat \ {0}
    BY <1>2, <1>6 DEF TypeOK
  <2>2. /\ b \in Activations
        /\ b.task = This /\ b.scope = scope /\ b.base = Top.at /\ b.at = Top.at
        /\ b.frame = Top.frame /\ b.purity = inConstants /\ ScopeNow(b) = scope
        /\ b.pc = 1 /\ b.vals = <<>> /\ b.val = 0
    BY <1>7, <2>1, NewActivation DEF Activation
  <2>3. OpenAt(body, Top.at) => InBlock(body, b)
    BY <1>7, <2>1, NewActivation DEF Activation
  <2>4. Holds(constants, body, b)
    BY <2>2, HoldsNothing
  <2>. QED  BY <2>2, <2>3, <2>4
<1>9. /\ calls' = Append(calls, b) /\ inConstants' = Purity(This)
      /\ UNCHANGED <<program, objects, constants, body, valcount, valcache, opcaches, frames>>
  BY <1>5, <1>7 DEF Begin, ScopeNow, caches
<1>10. /\ calls' \in Seq(Activations) /\ Len(calls') = n + 1 /\ DOMAIN calls' = 1..(n + 1)
       /\ \A k \in 1..n : calls'[k] = calls[k]
       /\ calls'[n + 1] = b
  <2>1. /\ Append(calls, b) \in Seq(Activations) /\ Len(Append(calls, b)) = n + 1
        /\ \A k \in 1..n : Append(calls, b)[k] = calls[k]
        /\ Append(calls, b)[n + 1] = b
    BY <1>3, <1>4, <1>8, Appended
  <2>. QED  BY <1>4, <1>9, <2>1
<1>11. /\ InBlock(body, Top) /\ Holds(constants, body, Top)
       /\ Sees(constants, body, frames, Top)
  BY <1>1, TopHolds
<1>12. /\ InBlock(body, b) /\ Holds(constants, body, b) /\ Sees(constants, body, frames, b)
  BY <1>5, <1>8, <1>11 DEF InBlock, Sees
<1>13. CallsTyped'
  <2>1. ASSUME NEW k \in 1..(n + 1)
        PROVE  [task |-> calls'[k].task, scope |-> calls'[k].scope] \in Scoping
    <3>1. CASE k = n + 1
      BY <1>6, <1>8, <1>10, <3>1
    <3>2. CASE k # n + 1
      <4>1. k \in 1..n
        BY <1>4, <3>2
      <4>. QED  BY <1>4, <1>10, <4>1 DEF TypeOK, CallsTyped
    <3>. QED  BY <3>1, <3>2
  <2>. QED  BY <1>10, <2>1 DEF CallsTyped
<1>14. CallsInv'
  <2>1. ASSUME NEW k \in 1..(n + 1)
        PROVE  /\ InBlock(body, calls'[k]) /\ Holds(constants, body, calls'[k])
               /\ Sees(constants, body, frames, calls'[k])
    <3>1. CASE k = n + 1
      BY <1>10, <1>12, <3>1
    <3>2. CASE k # n + 1
      <4>1. k \in 1..n
        BY <1>4, <3>2
      <4>. QED  BY <1>4, <1>10, <4>1 DEF CallsInv
    <3>. QED  BY <3>1, <3>2
  <2>. QED  BY <1>9, <1>10, <2>1 DEF CallsInv
<1>15. NestingInv'
  <2>1. First(calls'[1])
    BY <1>1, <1>4, <1>10 DEF NestingInv
  <2>2. ASSUME NEW k \in 1..(n + 1), k > 1  PROVE BegunBy(calls'[k], calls'[k - 1])
    <3>1. CASE k = n + 1
      <4>1. BegunBy(b, Top)
        <5>1. b.purity = IsPure(Top.task)
          BY <1>1, <1>8 DEF TopInv, IsPure
        <5>. QED  BY <1>1, <1>2, <1>5, <1>8, <5>1 DEF BegunBy
      <4>2. calls'[k] = b /\ calls'[k - 1] = Top
        BY <1>4, <1>10, <3>1
      <4>. QED  BY <4>1, <4>2
    <3>2. CASE k # n + 1
      <4>1. k \in 1..n /\ k - 1 \in 1..n
        BY <1>4, <2>2, <3>2
      <4>. QED  BY <1>4, <1>10, <2>2, <4>1 DEF NestingInv
    <3>. QED  BY <3>1, <3>2
  <2>3. ASSUME NEW j \in 1..(n + 1), NEW k \in 1..(n + 1), j < k
        PROVE  Around(calls'[j], calls'[k])
    <3>1. j \in 1..n /\ calls'[j] = calls[j] /\ calls[j] \in Activations
      BY <1>4, <1>10, <2>3
    <3>2. CASE k = n + 1
      <4>1. CASE j = n
        <5>1. IsPrefix(Top.at, Top.at)
          BY <1>2, PrefixReflexive
        <5>. QED  BY <1>2, <1>4, <1>5, <1>8, <1>10, <3>1, <3>2, <4>1, <5>1 DEF Around
      <4>2. CASE j # n
        <5>1. Around(calls[j], Top)
          BY <1>4, <3>1, <4>2 DEF NestingInv
        <5>2. IsPrefix(Top.base, Top.at)
          BY <1>2, <1>11, BaseOfBlock DEF TypeOK
        <5>3. IsPrefix(calls[j].at, Top.at)
          BY <1>2, <3>1, <5>1, <5>2, ActivationFacts, PrefixTransitive DEF Around
        <5>4. Around(calls[j], b)
          BY <1>5, <1>8, <5>1, <5>3 DEF Around
        <5>. QED  BY <1>10, <3>1, <3>2, <5>4
      <4>. QED  BY <4>1, <4>2
    <3>3. CASE k # n + 1
      <4>1. k \in 1..n
        BY <1>4, <3>3
      <4>. QED  BY <1>4, <1>10, <2>3, <3>1, <4>1 DEF NestingInv
    <3>. QED  BY <3>2, <3>3
  <2>. QED  BY <1>10, <2>1, <2>2, <2>3 DEF NestingInv
<1>16. TopInv'
  <2>1. calls' # <<>> /\ Top' = b
    BY <1>4, <1>10 DEF Top
  <2>2. inConstants' = IsPure(This)
    <3>1. CASE This.do = "eval"
      <4>1. This.e.pure \in BOOLEAN
        BY <1>6, TaskFacts
      <4>. QED  BY <1>9, <3>1, <4>1 DEF Purity, IsPure
    <3>2. CASE This.do = "exec"
      <4>1. ~IsPure(Top.task)
        BY <1>2, <3>2, PureFacts
      <4>2. inConstants = FALSE
        BY <4>1 DEF TopInv
      <4>. QED  BY <1>9, <3>2, <4>2 DEF Purity, IsPure
    <3>. QED  BY <1>1, <3>1, <3>2
  <2>3. Len(frames') = b.frame /\ valcount' > 0
    BY <1>1, <1>8, <1>9 DEF TopInv
  <2>. QED  BY <1>8, <2>1, <2>2, <2>3 DEF TopInv, IsPure
<1>17. TypeOK'
  <2>1. inConstants' \in BOOLEAN
    BY <1>16 DEF TopInv
  <2>. QED  BY <1>9, <1>13, <2>1 DEF TypeOK
<1>. QED  BY <1>9, <1>13, <1>14, <1>15, <1>16, <1>17 DEF CodeInv, CacheInv, ObjectsInv

\* A definition opens no block.
LEMMA DefinitionOpensNothing ==
    ASSUME NEW a, a.task \in Tasks, a.task.do = "exec", a.task.e.op \in {"local", "var"}
    PROVE  ~Opened(a)
<1>1. PICK p \in DOMAIN Steps(a.task) : Steps(a.task)[p] = Bind(a.task.e.val)
  BY DefinitionHasBind
<1>2. Steps(a.task) = ExecSteps(a.task.e) /\ Bind(a.task.e.val).do = "bind"
  BY DEF Steps, Bind
<1>3. \A i \in DOMAIN Steps(a.task) : Steps(a.task)[i].do \notin {"open", "for"}
  BY <1>1, <1>2, OpeningFacts
<1>. QED  BY <1>3 DEF Opened

\* What a task that is done leaves to the one that it was begun by: the register
\* of an expression, and the variable of a definition
LEMMA ResultOfTask ==
    ASSUME NoPureCalls, NEW cs, NEW bd, NEW a \in Activations, Finished(a),
           InBlock(bd, a), Holds(cs, bd, a)
    PROVE  /\ a.task.do = "eval" => Usable(cs, bd, a.val, a.base)
           /\ IsPure(a.task) => Declared(cs, a.val)
<1>1. a.task \in Tasks
  BY ActivationFacts
<1>2. ASSUME a.task.do = "eval"  PROVE Usable(cs, bd, a.val, a.base)
  <2>1. ~Opened(a)
    BY <1>1, <1>2, OpenedFacts
  <2>. QED  BY <2>1 DEF InBlock, Holds
<1>3. ASSUME IsPure(a.task)  PROVE Declared(cs, a.val)
  <2>1. 1 \in DOMAIN Steps(a.task)
    BY <1>1, <1>3, PureFacts
  <2>. QED  BY <1>3, <2>1 DEF Finished, Holds
<1>. QED  BY <1>2, <1>3

\* The variable of a definition that is done can be used by what follows.
LEMMA VariableOfTask ==
    ASSUME NEW cs, NEW bd, NEW fs, NEW a \in Activations, Finished(a), InBlock(bd, a),
           Sees(cs, bd, fs, a), a.task.do = "exec", NEW s \in BoundBy(a.task)
    PROVE  Usable(cs, bd, fs[a.frame][s], a.base)
<1>1. a.task \in Tasks /\ a.pc \in Nat \ {0}
  BY ActivationFacts
<1>2. a.task.e.op \in {"local", "var"} /\ s = a.task.e.val
  BY DEF BoundBy
<1>3. s \in ScopeNow(a)
  BY <1>1, <1>2, DefinitionBinds DEF Finished, ScopeNow
<1>4. ~Opened(a)
  BY <1>1, <1>2, DefinitionOpensNothing
<1>. QED  BY <1>3, <1>4 DEF InBlock, Sees

\* The registers of pure operations are remembered, and those of a loop
\* forgotten.
LEMMA CachesAtReturn ==
    ASSUME TypeOK, CacheInv, NEW a \in Activations, constants' = constants, valcache' = valcache,
           opcaches' = (IF IsLoop(a.task) THEN PopCache(a.task) ELSE Remember(a.task, a.val)),
           IsPure(a.task) => Declared(constants, a.val)
    PROVE  opcaches' \in Seq(CachesOf(Operations)) /\ CacheInv'
<1>1. /\ opcaches \in Seq(CachesOf(Operations)) /\ Len(opcaches) \in Nat
      /\ DOMAIN opcaches = 1..Len(opcaches)
  BY DEF TypeOK
<1>2. \A i \in DOMAIN opcaches : \A e \in DOMAIN opcaches[i] : Declared(constants, opcaches[i][e])
  BY DEF CacheInv
<1>3. a.task.e \in Operations /\ a.val \in Nat
  BY ActivationFacts, TaskFacts
<1>4. /\ opcaches' \in Seq(CachesOf(Operations))
      /\ \A i \in DOMAIN opcaches' : \A e \in DOMAIN opcaches'[i] :
            Declared(constants, opcaches'[i][e])
  <2>1. CASE IsLoop(a.task)
    <3>1. opcaches' = SubSeq(opcaches, 1, Len(opcaches) - 1)
      BY <2>1 DEF PopCache, Front
    <3>2. /\ opcaches' \in Seq(CachesOf(Operations))
          /\ \A i \in DOMAIN opcaches' : i \in DOMAIN opcaches /\ opcaches'[i] = opcaches[i]
      BY <1>1, <3>1
    <3>. QED  BY <1>2, <3>2
  <2>2. CASE ~IsLoop(a.task) /\ ~IsPure(a.task)
    <3>1. opcaches' = opcaches
      BY <2>2 DEF Remember, IsPure
    <3>. QED  BY <1>1, <1>2, <3>1
  <2>3. CASE ~IsLoop(a.task) /\ IsPure(a.task) /\ opcaches = <<>>
    <3>1. opcaches' = [opcaches EXCEPT ![0] = Noted(@, a.task.e, a.val)]
      BY <1>1, <2>3 DEF Remember, IsPure
    <3>2. opcaches' = opcaches
      BY <1>1, <2>3, <3>1
    <3>. QED  BY <1>1, <1>2, <3>2
  <2>4. CASE ~IsLoop(a.task) /\ IsPure(a.task) /\ opcaches # <<>>
    <3>1. PICK e \in Operations, r \in Nat : e = a.task.e /\ r = a.val
      BY <1>3
    <3>2. PICK k \in DOMAIN opcaches : k = Len(opcaches)
      BY <1>1, <2>4
    <3>3. PICK cache : cache = Noted(opcaches[k], e, r)
      OBVIOUS
    <3>4. opcaches[k] \in CachesOf(Operations)
      BY <1>1
    <3>5. cache \in CachesOf(Operations)
      BY <3>3, <3>4, NotedEntry
    <3>6. /\ DOMAIN cache = DOMAIN opcaches[k] \cup {e}
          /\ \A x \in DOMAIN cache : cache[x] = IF x = e THEN r ELSE opcaches[k][x]
      BY <3>3 DEF Noted
    <3>7. \A x \in DOMAIN cache : Declared(constants, cache[x])
      BY <1>2, <2>4, <3>1, <3>6
    <3>8. opcaches' = [opcaches EXCEPT ![k] = cache]
      BY <2>4, <3>1, <3>2, <3>3 DEF Remember, IsPure
    <3>9. /\ opcaches' \in Seq(CachesOf(Operations)) /\ DOMAIN opcaches' = DOMAIN opcaches
          /\ opcaches'[k] = cache
          /\ \A i \in DOMAIN opcaches : i # k => opcaches'[i] = opcaches[i]
      BY <1>1, <3>5, <3>8
    <3>. QED  BY <1>2, <3>7, <3>9
  <2>. QED  BY <2>1, <2>2, <2>3, <2>4
<1>5. CacheInv'
  BY <1>4 DEF CacheInv
<1>. QED  BY <1>4, <1>5

\* The activation that a task was begun by goes on with its register, in the
\* frame and with the destination that it had.
LEMMA ReturnKeeps ==
    ASSUME NoPureCalls, Inv, Return
    PROVE  Inv'
<1>. USE DEF Inv
<1>1. PICK n, a, caller : n = Len(calls) - 1 /\ a = Top /\ caller = calls[n]
  OBVIOUS
<1>2. PICK c : c = IF a.task.do = "eval" THEN Got(caller, a.val) ELSE Advanced(caller)
  OBVIOUS
<1>3. /\ n + 1 > 1 /\ Finished(a)
      /\ calls' = [Front(calls) EXCEPT ![n] = c]
      /\ frames' = SubSeq(frames, 1, caller.frame)
      /\ inConstants' = a.purity
      /\ opcaches' = IF IsLoop(a.task) THEN PopCache(a.task) ELSE Remember(a.task, a.val)
      /\ UNCHANGED <<program, objects, constants, body, valcount, valcache>>
  <2>1. Len(calls) \in Nat
    BY DEF TypeOK, CallsTyped
  <2>. QED  BY <1>1, <1>2, <2>1 DEF Return, Restored
<1>4. /\ n \in Nat \ {0} /\ Len(calls) = n + 1 /\ DOMAIN calls = 1..(n + 1)
      /\ calls \in Seq(Activations) /\ a = calls[n + 1] /\ calls # <<>>
  <2>1. Len(calls) \in Nat
    BY DEF TypeOK, CallsTyped
  <2>2. calls # <<>>
    BY <1>1, <1>3, <2>1
  <2>3. calls \in Seq(Activations) /\ DOMAIN calls = 1..Len(calls)
    BY DEF TypeOK, CallsTyped
  <2>4. n \in Nat \ {0} /\ Len(calls) = n + 1
    BY <1>1, <1>3, <2>1
  <2>5. a = calls[Len(calls)]
    BY <1>1 DEF Top
  <2>. QED  BY <2>2, <2>3, <2>4, <2>5
<1>5. a \in Activations /\ caller \in Activations
  BY <1>1, <1>4
<1>6. /\ InBlock(body, a) /\ Holds(constants, body, a) /\ Sees(constants, body, frames, a)
      /\ InBlock(body, caller) /\ Holds(constants, body, caller)
      /\ Sees(constants, body, frames, caller)
  BY <1>1, <1>4 DEF CallsInv
<1>7. BegunBy(a, caller) /\ Around(caller, a)
  <2>1. n + 1 \in DOMAIN calls /\ n + 1 > 1 /\ (n + 1) - 1 = n /\ n \in DOMAIN calls /\ n < n + 1
    BY <1>4
  <2>2. BegunBy(calls[n + 1], calls[n])
    BY <2>1 DEF NestingInv
  <2>3. Around(calls[n], calls[n + 1])
    BY <2>1 DEF NestingInv
  <2>. QED  BY <1>1, <1>4, <2>2, <2>3
<1>8. /\ a.task \in Tasks /\ a.val \in Nat /\ a.frame \in Nat
      /\ caller.task \in Tasks /\ caller.pc \in DOMAIN Steps(caller.task)
      /\ caller.frame \in Nat \ {0} /\ caller.frame <= a.frame
      /\ a.task = Steps(caller.task)[caller.pc] /\ a.base = caller.at
      /\ a.task.do \in {"eval", "exec"}
  BY <1>5, <1>7, ActivationFacts, TaskFacts DEF BegunBy, Around, Finished
<1>9. /\ frames' \in Seq([Slots -> Nat]) /\ Len(frames') = caller.frame
      /\ \A i \in 1..caller.frame : frames'[i] = frames[i]
  <2>1. frames \in Seq([Slots -> Nat]) /\ Len(frames) = a.frame
    BY <1>1, <1>4 DEF TypeOK, TopInv
  <2>. QED  BY <1>3, <1>8, <2>1
<1>10. /\ c \in Activations
       /\ c.task = caller.task /\ c.scope = caller.scope /\ c.base = caller.base
       /\ c.at = caller.at /\ c.frame = caller.frame /\ c.purity = caller.purity
  BY <1>2, <1>5, <1>8, ChangedFacts
<1>11. /\ calls' \in Seq(Activations) /\ Len(calls') = n /\ DOMAIN calls' = 1..n
       /\ \A k \in 1..n : calls'[k] = IF k = n THEN c ELSE calls[k]
  <2>1. PICK s : s = Front(calls)
    OBVIOUS
  <2>2. s = SubSeq(calls, 1, n)
    BY <1>4, <2>1 DEF Front
  <2>3. s \in Seq(Activations) /\ Len(s) = n /\ \A k \in 1..n : s[k] = calls[k]
    BY <1>4, <2>2
  <2>4. calls' = [s EXCEPT ![n] = c]
    BY <1>3, <2>1
  <2>. QED  BY <1>4, <1>10, <2>3, <2>4
<1>12. \A k \in 1..n : Sees(constants, body, frames', calls[k])
  <2>1. ASSUME NEW k \in 1..n  PROVE calls[k].frame \in 1..caller.frame
    <3>1. calls[k].frame \in Nat \ {0}
      BY <1>4, ActivationFacts
    <3>2. CASE k = n
      BY <1>1, <1>8, <3>2
    <3>3. CASE k # n
      <4>1. Around(calls[k], calls[n])
        BY <1>4, <3>3 DEF NestingInv
      <4>. QED  BY <1>1, <1>8, <3>1, <4>1 DEF Around
    <3>. QED  BY <3>2, <3>3
  <2>2. \A k \in 1..n : Sees(constants, body, frames, calls[k])
    BY <1>4 DEF CallsInv
  <2>3. \A k \in 1..n : frames'[calls[k].frame] = frames[calls[k].frame]
    BY <1>9, <2>1
  <2>. QED  BY <2>2, <2>3 DEF Sees
<1>13. /\ a.task.do = "eval" => Usable(constants, body, a.val, caller.at)
       /\ IsPure(a.task) => Declared(constants, a.val)
  BY <1>3, <1>5, <1>6, <1>8, ResultOfTask
<1>14. /\ InBlock(body, c) /\ Holds(constants, body, c) /\ Sees(constants, body, frames', c)
       /\ ScopeNow(caller) \subseteq ScopeNow(c)
  <2>1. Sees(constants, body, frames', caller)
    BY <1>1, <1>4, <1>12
  <2>2. CASE a.task.do = "eval"
    <3>1. IsPure(caller.task) => Declared(constants, a.val)
      BY <1>8, <1>13, <2>2, PureFacts
    <3>. QED  BY <1>2, <1>5, <1>6, <1>8, <1>13, <2>1, <2>2, <3>1, GotRegister
  <2>3. CASE a.task.do = "exec"
    <3>1. ~IsPure(caller.task)
      BY <1>8, <2>3, PureFacts
    <3>2. ASSUME NEW s \in BoundBy(a.task)
          PROVE  Usable(constants, body, frames'[caller.frame][s], caller.at)
      <4>1. Usable(constants, body, frames[a.frame][s], caller.at)
        BY <1>3, <1>5, <1>6, <1>8, <2>3, VariableOfTask
      <4>2. a.frame = caller.frame
        BY <1>7, <2>3 DEF BegunBy
      <4>3. frames'[caller.frame] = frames[caller.frame]
        BY <1>8, <1>9
      <4>. QED  BY <4>1, <4>2, <4>3
    <3>3. c = Advanced(caller)
      BY <1>2, <2>3
    <3>4. \A s \in BoundBy(Steps(caller.task)[caller.pc]) :
              Usable(constants, body, frames'[caller.frame][s], caller.at)
      BY <1>8, <3>2
    <3>. QED  BY <1>5, <1>6, <1>8, <2>1, <2>3, <3>1, <3>3, <3>4, AdvancedOver
  <2>. QED  BY <1>8, <2>2, <2>3
<1>15. CallsInv'
  <2>1. ASSUME NEW k \in 1..n
        PROVE  /\ InBlock(body, calls'[k]) /\ Holds(constants, body, calls'[k])
               /\ Sees(constants, body, frames', calls'[k])
    <3>1. CASE k = n
      BY <1>11, <1>14, <3>1
    <3>2. CASE k # n
      BY <1>4, <1>11, <1>12, <3>2 DEF CallsInv
    <3>. QED  BY <3>1, <3>2
  <2>. QED  BY <1>3, <1>11, <2>1 DEF CallsInv
<1>16. CallsTyped'
  <2>1. \A k \in 1..n : [task |-> calls[k].task, scope |-> calls[k].scope] \in Scoping
    <3>1. \A k \in 1..n : k \in DOMAIN calls
      BY <1>4
    <3>. QED  BY <3>1 DEF TypeOK, CallsTyped
  <2>2. ASSUME NEW k \in 1..n
        PROVE  [task |-> calls'[k].task, scope |-> calls'[k].scope] \in Scoping
    BY <1>1, <1>4, <1>10, <1>11, <2>1
  <2>. QED  BY <1>11, <2>2 DEF CallsTyped
<1>17. NestingInv'
  <2>1. First(calls'[1])
    <3>1. First(calls[1]) /\ 1 \in 1..n
      BY <1>4 DEF NestingInv
    <3>2. CASE n = 1
      BY <1>1, <1>10, <1>11, <3>1, <3>2 DEF First
    <3>3. CASE n # 1
      BY <1>11, <3>1, <3>3
    <3>. QED  BY <3>2, <3>3
  <2>2. ASSUME NEW k \in 1..n, k > 1  PROVE BegunBy(calls'[k], calls'[k - 1])
    <3>1. BegunBy(calls[k], calls[k - 1])
      <4>1. k \in DOMAIN calls
        BY <1>4
      <4>. QED  BY <2>2, <4>1 DEF NestingInv
    <3>2. calls'[k - 1] = calls[k - 1]
      BY <1>4, <1>11, <2>2
    <3>3. CASE k = n
      BY <1>1, <1>10, <1>11, <3>1, <3>2, <3>3 DEF BegunBy
    <3>4. CASE k # n
      BY <1>11, <3>1, <3>2, <3>4
    <3>. QED  BY <3>3, <3>4
  <2>3. ASSUME NEW j \in 1..n, NEW k \in 1..n, j < k  PROVE Around(calls'[j], calls'[k])
    <3>1. Around(calls[j], calls[k]) /\ calls'[j] = calls[j]
      BY <1>4, <1>11, <2>3 DEF NestingInv
    <3>2. CASE k = n
      BY <1>1, <1>10, <1>11, <1>14, <3>1, <3>2 DEF Around
    <3>3. CASE k # n
      BY <1>11, <3>1, <3>3
    <3>. QED  BY <3>2, <3>3
  <2>. QED  BY <1>11, <2>1, <2>2, <2>3 DEF NestingInv
<1>18. TopInv'
  <2>1. calls' # <<>> /\ Top' = c
    BY <1>4, <1>11 DEF Top
  <2>2. inConstants' = IsPure(c.task)
    BY <1>3, <1>7, <1>10 DEF BegunBy
  <2>3. Len(frames') = c.frame /\ valcount' > 0
    BY <1>3, <1>4, <1>9, <1>10 DEF TopInv
  <2>. QED  BY <2>1, <2>2, <2>3 DEF TopInv, IsPure
<1>19. opcaches' \in Seq(CachesOf(Operations)) /\ CacheInv'
  BY <1>3, <1>5, <1>13, CachesAtReturn
<1>20. TypeOK'
  <2>1. inConstants' \in BOOLEAN
    BY <1>3, <1>5, ActivationFacts
  <2>. QED  BY <1>3, <1>9, <1>16, <1>19, <2>1 DEF TypeOK
<1>. QED  BY <1>3, <1>15, <1>16, <1>17, <1>18, <1>19, <1>20 DEF CodeInv, ObjectsInv

-----------------------------------------------------------------------------
(* Functions, and the whole compiler                                       *)

\* There is nothing wrong with no code.
LEMMA NoCode ==
    ASSUME NEW n
    PROVE  CodeOK(<<>>, <<>>, n) /\ OpenAt(<<>>, <<>>)
<1>1. DOMAIN <<>> = {}
  OBVIOUS
<1>. QED  BY <1>1 DEF CodeOK, ConstantsOK, BodyOK, Disjoint, Nested, OpenAt

\* define_function begins with an empty function, and with no register cached.
LEMMA DefineFunctionKeeps ==
    ASSUME Inv, DefineFunction
    PROVE  Inv'
<1>. USE DEF Inv
<1>1. PICK task : task = EvalOp(program[Len(objects) + 1])
  OBVIOUS
<1>2. PICK a : a = Activation(task, {Parameter}, <<>>, 1)
  OBVIOUS
<1>3. /\ calls = <<>> /\ Len(objects) + 1 \in DOMAIN program
      /\ constants' = <<>> /\ body' = <<>>
      /\ valcount' = 1 /\ valcache' = <<>> /\ opcaches' = <<<<>>>>
      /\ calls' = <<a>>
      /\ inConstants' = task.e.pure /\ frames' = <<EmptyFrame>>
      /\ UNCHANGED <<program, objects>>
  BY <1>1, <1>2 DEF DefineFunction, Reset, Purity, EvalOp
<1>4. [task |-> task, scope |-> {Parameter}] \in Scoping
  BY <1>1, <1>3, ProgramsAssumption DEF TypeOK
<1>5. task \in Tasks /\ task.do = "eval" /\ task.e.pure \in BOOLEAN
  <2>1. task \in Tasks
    BY <1>4, JudgedFacts
  <2>. QED  BY <1>1, <2>1, TaskFacts DEF EvalOp
<1>6. inConstants = FALSE
  BY <1>3 DEF TopInv
<1>7. /\ a \in Activations
      /\ a.task = task /\ a.scope = {Parameter} /\ a.base = <<>> /\ a.at = <<>> /\ a.val = 0
      /\ a.frame = 1 /\ a.purity = FALSE /\ a.pc = 1 /\ a.vals = <<>>
      /\ ScopeNow(a) = {Parameter}
      /\ \A bd : OpenAt(bd, <<>>) => InBlock(bd, a)
  <2>1. PICK scope \in SUBSET Slots : scope = {Parameter}
    BY SlotsAssumption
  <2>2. PICK at : at = <<>>
    OBVIOUS
  <2>3. PICK one \in Nat \ {0} : one = 1
    OBVIOUS
  <2>4. /\ a = Activation(task, scope, at, one) /\ inConstants \in BOOLEAN
        /\ at \in Seq(Nat)
    BY <1>2, <2>1, <2>2, <2>3 DEF TypeOK
  <2>5. /\ a \in Activations
        /\ a.task = task /\ a.scope = scope /\ a.base = at /\ a.at = at /\ a.val = 0
        /\ a.frame = one /\ a.purity = inConstants /\ a.pc = 1 /\ a.vals = <<>>
        /\ ScopeNow(a) = scope
    BY <1>5, <2>4, NewActivation DEF Activation
  <2>6. \A bd : OpenAt(bd, at) => InBlock(bd, a)
    BY <1>5, <2>4, NewActivation DEF Activation
  <2>. QED  BY <1>6, <2>1, <2>2, <2>3, <2>5, <2>6
<1>8. /\ InBlock(<<>>, a) /\ Holds(<<>>, <<>>, a)
  BY <1>7, NoCode, HoldsNothing
<1>9. EmptyFrame \in [Slots -> Nat] /\ EmptyFrame[Parameter] = 0
  BY SlotsAssumption DEF EmptyFrame
<1>10. Sees(<<>>, <<>>, <<EmptyFrame>>, a)
  BY <1>7, <1>9 DEF Sees, Usable
<1>11. /\ calls' \in Seq(Activations) /\ Len(calls') = 1 /\ DOMAIN calls' = {1}
       /\ calls'[1] = a
  BY <1>3, <1>7
<1>12. CallsTyped'
  BY <1>4, <1>7, <1>11 DEF CallsTyped
<1>13. CallsInv'
  BY <1>3, <1>8, <1>10, <1>11 DEF CallsInv
<1>14. NestingInv'
  <2>1. First(a)
    BY <1>5, <1>7 DEF First
  <2>. QED  BY <1>11, <2>1 DEF NestingInv
<1>15. TopInv'
  <2>1. calls' # <<>> /\ Top' = a
    <3>1. Top' = calls'[Len(calls')]
      BY DEF Top
    <3>. QED  BY <1>3, <1>11, <3>1
  <2>2. inConstants' = IsPure(a.task)
    BY <1>3, <1>5, <1>7 DEF IsPure
  <2>3. Len(frames') = a.frame /\ valcount' > 0
    BY <1>3, <1>7
  <2>. QED  BY <2>1, <2>2, <2>3 DEF TopInv, IsPure
<1>16. CodeInv'
  BY <1>3, NoCode DEF CodeInv
<1>17. /\ valcache' \in CachesOf(Values) /\ opcaches' \in Seq(CachesOf(Operations))
       /\ CacheInv'
  <2>1. \A S : <<>> \in CachesOf(S) /\ DOMAIN <<>> = {}
    <3>1. <<>> \in [{} -> Nat] /\ DOMAIN <<>> = {}
      OBVIOUS
    <3>. QED  BY <3>1 DEF CachesOf
  <2>2. opcaches' \in Seq(CachesOf(Operations)) /\ DOMAIN opcaches' = {1} /\ opcaches'[1] = <<>>
    BY <1>3, <2>1
  <2>. QED  BY <1>3, <2>1, <2>2 DEF CacheInv
<1>18. TypeOK'
  <2>1. constants' \in Seq(Lines) /\ body' \in Seq(Lines) /\ valcount' \in Nat
    BY <1>3
  <2>2. frames' \in Seq([Slots -> Nat]) /\ inConstants' \in BOOLEAN
    BY <1>3, <1>5, <1>9
  <2>. QED  BY <1>3, <1>12, <1>17, <2>1, <2>2 DEF TypeOK
<1>19. ObjectsInv'
  BY <1>3 DEF ObjectsInv
<1>. QED  BY <1>12, <1>13, <1>14, <1>15, <1>16, <1>17, <1>18, <1>19

\* A function that is compiled can be used: its result is a register that can be
\* read outside of all blocks.
LEMMA EndFunctionKeeps ==
    ASSUME NoPureCalls, Inv, EndFunction
    PROVE  Inv'
<1>. USE DEF Inv
<1>1. calls # <<>> /\ Len(calls) = 1 /\ Finished(Top) /\ Top = calls[1]
  <2>1. Len(calls) = 1 /\ Finished(Top)
    BY DEF EndFunction
  <2>2. Top = calls[1]
    BY <2>1 DEF Top
  <2>3. calls # <<>>
    BY <2>1
  <2>. QED  BY <2>1, <2>2, <2>3
<1>2. PICK object : object = [constants |-> constants, body |-> body, result |-> Top.val]
  OBVIOUS
<1>3. /\ objects' = Append(objects, object) /\ calls' = <<>> /\ frames' = <<>>
      /\ inConstants' = Top.purity
      /\ opcaches' = Remember(Top.task, Top.val)
      /\ UNCHANGED <<program, constants, body, valcount, valcache>>
  BY <1>2 DEF EndFunction, Restored
<1>4. /\ constants \in Seq(Lines) /\ body \in Seq(Lines) /\ valcount \in Nat
      /\ CodeOK(constants, body, valcount) /\ Top \in Activations /\ Top.val \in Nat
      /\ First(Top)
  BY <1>1, TopFacts, ActivationFacts DEF TypeOK, CodeInv, NestingInv
<1>5. Usable(constants, body, Top.val, <<>>)
  <2>1. Usable(constants, body, Top.val, Top.base)
    BY <1>1, <1>4, TopHolds, ResultOfTask DEF First
  <2>. QED  BY <1>4, <2>1 DEF First
<1>6. Accepted(object)
  BY <1>2, <1>4, <1>5, CodeIsAccepted
<1>7. \A p \in DOMAIN object.constants : 0 \notin Reads(object.constants[p])
  <2>1. ConstantsOK(constants, valcount)
    BY <1>4 DEF CodeOK
  <2>. QED  BY <1>2, <1>4, <2>1, ConstantsReadNoArgument
<1>8. object \in Objects /\ objects \in Seq(Objects)
  BY <1>2, <1>4 DEF Objects, TypeOK
<1>9. /\ objects' \in Seq(Objects)
      /\ DOMAIN objects' = DOMAIN objects \cup {Len(objects) + 1}
      /\ \A k \in DOMAIN objects : objects'[k] = objects[k]
      /\ objects'[Len(objects) + 1] = object
  BY <1>3, <1>8, Appended
<1>10. ObjectsInv'
  BY <1>6, <1>7, <1>9 DEF ObjectsInv
<1>11. DOMAIN calls' = {} /\ calls' \in Seq(Activations) /\ frames' \in Seq([Slots -> Nat])
  BY <1>3
<1>12. CallsTyped' /\ CallsInv' /\ NestingInv'
  BY <1>3, <1>11 DEF CallsTyped, CallsInv, NestingInv
<1>13. TopInv' /\ inConstants' \in BOOLEAN
  BY <1>3, <1>4 DEF TopInv, First
<1>14. opcaches' \in Seq(CachesOf(Operations)) /\ CacheInv'
  <2>1. ~IsLoop(Top.task)
    BY <1>4 DEF First, IsLoop
  <2>2. opcaches' = IF IsLoop(Top.task) THEN PopCache(Top.task) ELSE Remember(Top.task, Top.val)
    BY <1>3, <2>1
  <2>3. IsPure(Top.task) => Declared(constants, Top.val)
    BY <1>1, <1>4, TopHolds, ResultOfTask
  <2>. QED  BY <1>3, <1>4, <2>2, <2>3, CachesAtReturn
<1>15. TypeOK'
  BY <1>3, <1>9, <1>11, <1>12, <1>13, <1>14 DEF TypeOK
<1>16. CodeInv'
  BY <1>3 DEF CodeInv
<1>. QED  BY <1>10, <1>12, <1>13, <1>14, <1>15, <1>16

\* A compiler that has compiled nothing, at the start and after emit_objects
Nothing ==
    /\ program \in Programs /\ objects = <<>> /\ constants = <<>> /\ body = <<>>
    /\ inConstants = FALSE /\ valcount = 0 /\ valcache = <<>> /\ opcaches = <<>>
    /\ calls = <<>> /\ frames \in Seq([Slots -> Nat])

\* The invariant holds of a compiler that has compiled nothing.
LEMMA EmptyCompiler == Nothing => Inv
<1>. SUFFICES ASSUME Nothing  PROVE Inv
  OBVIOUS
<1>1. /\ DOMAIN objects = {} /\ DOMAIN calls = {} /\ DOMAIN valcache = {}
      /\ DOMAIN opcaches = {} /\ calls = <<>>
  BY DEF Nothing
<1>2. TypeOK
  <2>1. valcache \in CachesOf(Values)
    <3>1. valcache \in [{} -> Nat]
      BY DEF Nothing
    <3>. QED  BY <3>1 DEF CachesOf
  <2>2. CallsTyped
    BY <1>1 DEF CallsTyped
  <2>3. /\ objects \in Seq(Objects) /\ constants \in Seq(Lines) /\ body \in Seq(Lines)
        /\ opcaches \in Seq(CachesOf(Operations))
    BY DEF Nothing
  <2>. QED  BY <2>1, <2>2, <2>3 DEF TypeOK, Nothing
<1>3. CodeInv
  BY NoCode DEF CodeInv, Nothing
<1>4. CacheInv /\ CallsInv /\ NestingInv /\ ObjectsInv
  BY <1>1 DEF CacheInv, CallsInv, NestingInv, ObjectsInv
<1>5. TopInv
  BY DEF TopInv, Nothing
<1>. QED  BY <1>2, <1>3, <1>4, <1>5 DEF Inv

\* emit_objects leaves a compiler that has compiled nothing.
LEMMA EmitObjectsKeeps == Inv /\ EmitObjects => Inv'
<1>1. Inv /\ EmitObjects => Nothing'
  BY DEF EmitObjects, Inv, TypeOK, Nothing
<1>. QED  BY <1>1, EmptyCompiler, PTL

-----------------------------------------------------------------------------
(* The theorems                                                            *)

\* The invariant holds when the compiler is constructed.
LEMMA InitInv == Init => Inv
<1>1. Init => Nothing
  BY DEF Init, Nothing
<1>. QED  BY <1>1, EmptyCompiler

\* Every step of the compiler keeps it.
LEMMA NextInv ==
    ASSUME NoPureCalls, Inv, [Next]_vars
    PROVE  Inv'
<1>1. CASE DefineFunction
  BY <1>1, DefineFunctionKeeps
<1>2. CASE EvalCached
  BY <1>2, EvalCachedKeeps
<1>3. CASE Begin
  BY <1>3, BeginKeeps
<1>4. CASE Return
  BY <1>4, ReturnKeeps
<1>5. CASE EndFunction
  BY <1>5, EndFunctionKeeps
<1>6. CASE ReuseConstant
  BY <1>6, ReuseConstantKeeps
<1>7. CASE DeclareConstant
  BY <1>7, DeclareConstantKeeps
<1>8. CASE ReadVariable
  BY <1>8, ReadVariableKeeps
<1>9. CASE DeclareValue
  BY <1>9, DeclareValueKeeps
<1>10. CASE BindVariable
  BY <1>10, BindVariableKeeps
<1>11. CASE EnterFunction
  BY <1>11, EnterFunctionKeeps
<1>12. CASE StoreVariable
  BY <1>12, StoreVariableKeeps
<1>13. CASE WriteBreak
  BY <1>13, WriteBreakKeeps
<1>14. CASE OpenBlock
  BY <1>14, OpenBlockKeeps
<1>15. CASE OpenForBlock
  BY <1>15, OpenForBlockKeeps
<1>16. CASE EmitObjects
  BY <1>16, EmitObjectsKeeps
<1>17. CASE UNCHANGED vars
  BY <1>17 DEF vars, streams, caches, Inv, TypeOK, CallsTyped, CodeInv, CacheInv, CallsInv,
               NestingInv, TopInv, ObjectsInv, Top
<1>. QED  BY <1>1, <1>2, <1>3, <1>4, <1>5, <1>6, <1>7, <1>8, <1>9, <1>10, <1>11, <1>12, <1>13,
             <1>14, <1>15, <1>16, <1>17 DEF Next

\* The inductive invariant holds for programs of any size in which no call is taken
\* for pure: the code written so far, the caches and every activation agree.
THEOREM InvTheorem ==
    ASSUME NoPureCalls
    PROVE  Spec => []Inv
<1>1. Inv /\ [Next]_vars => Inv'
  BY NextInv
<1>. QED  BY <1>1, InitInv, PTL DEF Spec

\* Every variable of the compiler keeps its type: the registers of frames,
\* caches and lines are numbers, and every task is one the analyser has judged.
THEOREM TypeCorrect ==
    ASSUME NoPureCalls
    PROVE  Spec => []TypeOK
<1>1. Inv => TypeOK
  BY DEF Inv
<1>. QED  BY <1>1, InvTheorem, PTL

\* If no call is taken for pure, SC_Compiler never writes a function that uses a
\* register before its declaration or outside of its block, for programs of any
\* size.  For the calls that the code takes for pure it does (Call_Expr::pure_).
THEOREM UseFollowsDeclaration ==
    ASSUME NoPureCalls
    PROVE  Spec => []DefinedBeforeUse
<1>1. Inv => DefinedBeforeUse
  BY DEF Inv, ObjectsInv, DefinedBeforeUse
<1>. QED  BY <1>1, InvTheorem, PTL

\* If no call is taken for pure, the constants of a compiled function never read
\* its parameter, for programs of any size.
THEOREM UniformConstants ==
    ASSUME NoPureCalls
    PROVE  Spec => []ConstantsAreUniform
<1>1. Inv => ConstantsAreUniform
  BY DEF Inv, ObjectsInv, ConstantsAreUniform
<1>. QED  BY <1>1, InvTheorem, PTL
=============================================================================

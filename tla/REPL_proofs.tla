------------------------------ MODULE REPL_proofs ------------------------------
(***************************************************************************)
(* Proofs about REPL for any commands over any names: however output,      *)
(* assignment, definition and failure are mixed in a command, the output   *)
(* is shown once, the definitions appear together, and no other variable   *)
(* of the session changes; the thread keeps to the protocol of the view    *)
(* server, and what it shows there is `_`.                                 *)
(***************************************************************************)
EXTENDS REPL, SequenceTheorems, TLAPS

Outputs == [op : {"value", "field"}, val : Values]

(* The session holds values; a program is a sequence of statements whose   *)
(* names have become values.                                               *)
ValueInv ==
    /\ \A n \in DOMAIN local : local[n] \in Values
    /\ \A n \in DOMAIN bindings : bindings[n] \in Values

CodeInv ==
    /\ command \in Seq(Statements) /\ code \in Seq(Statements)
    /\ pc \in Nat

SessionInv == ValueInv /\ CodeInv

(* Of the output of a command, only the first value can be held back, and  *)
(* then nothing was printed; the rest is printed as it comes.              *)
OutputInv ==
    /\ pushed \in Seq(Outputs) /\ printed \in Seq(Outputs)
    /\ only \in Values \cup {Missing}
    /\ phase \in {"prompt", "exiting", "gone"} =>
         pushed = <<>> /\ printed = <<>>
    /\ phase \in {"exec", "displaying"} =>
         /\ pushed = printed \o Held
         /\ ~produced => pushed = <<>> /\ only = Missing
         /\ only # Missing => printed = <<>>
    /\ phase = "displaying" => only \in Shapes
    /\ phase = "define" =>
         \/ printed = pushed
         \/ /\ printed = <<>> /\ pushed = <<Output("value", shape)>>
            /\ shape \in Shapes

(* The thread is in a call of the view server in two phases only.          *)
ServerInv ==
    /\ phase \notin {"displaying", "exiting"} => status = "idle"
    /\ phase = "displaying" =>
         /\ call = Server!Display(only)
         /\ status \in {"pending", "taken"}
         /\ status = "taken" => shape = only

(* A command is all definitions or has none; the session gets them when    *)
(* each of them has its value, and what is assigned is there already.      *)
DefinitionInv ==
    /\ DOMAIN code = DOMAIN command
    /\ \A i \in DOMAIN command :
          code[i].op = command[i].op /\ code[i].name = command[i].name
    /\ IsDefinition(command) =>
         /\ \A i \in DOMAIN command : command[i].op = "define"
         /\ phase = "exec" => only = Missing
    /\ phase = "exec" =>
         \A i \in DOMAIN command :
            command[i].op \in {"assign", "while"} =>
               command[i].name \in DOMAIN local
    /\ \A i \in DOMAIN command :
          command[i].op = "define" /\ (i < pc \/ phase # "exec")
             => command[i].name \in DOMAIN bindings

IInv == SessionInv /\ OutputInv /\ ServerInv /\ DefinitionInv

(* The numbers of the values are apart from `missing`.                     *)
LEMMA ValueFacts ==
    /\ Missing \notin Values
    /\ Numbers \subseteq Values /\ Shapes \subseteq Values /\ Broken \in Values
    /\ 0 \in Values
    /\ \A n \in Numbers : (n + 1) % (Max + 1) \in Values
    /\ Missing \notin Shapes /\ Broken \notin Shapes
    /\ Shapes \cap Numbers = {} /\ Broken \notin Numbers
  BY MaxAssumption DEF Missing, Values, Numbers, Shapes, Broken

(* The empty sequence.                                                     *)
LEMMA Empty ==
    /\ \A S : <<>> \in Seq(S)
    /\ DOMAIN <<>> = {}
<1>1. <<>> \in Seq(Nat) /\ Len(<<>>) = 0
  BY EmptySeq
<1>2. DOMAIN <<>> = 1..0
  BY <1>1, LenProperties
<1>3. QED
  BY <1>2, EmptySeq

(* A session starts empty.                                                 *)
LEMMA InitIInv == Init => IInv
  BY Empty
  DEF Init, IInv, SessionInv, ValueInv, CodeInv, OutputInv, ServerInv,
      DefinitionInv, Server!Init, IsDefinition

(* Compiling replaces names by the values of the session.                  *)
LEMMA CompiledType ==
    ASSUME SessionInv, NEW cmd \in Commands
    PROVE  /\ cmd \in Seq(Statements) /\ Compiled(cmd) \in Seq(Statements)
           /\ DOMAIN Compiled(cmd) = DOMAIN cmd
           /\ \A i \in DOMAIN cmd : /\ Compiled(cmd)[i].op = cmd[i].op
                                    /\ Compiled(cmd)[i].name = cmd[i].name
<1>1. cmd \in Seq(Statements)
  BY CommandsAssumption
<1>2. Len(cmd) \in Nat /\ DOMAIN cmd = 1..Len(cmd)
      /\ \A i \in DOMAIN cmd : cmd[i] \in Statements
  BY <1>1, LenProperties, ElementOfSeq
<1>3. \A n : Lookup(n) \in Values
  BY ValueFacts DEF SessionInv, ValueInv, Lookup
<1>4. \A e \in Expressions : Fold(e) \in Expressions
  BY <1>3 DEF Fold, Expressions
<1>5. ASSUME NEW i \in DOMAIN cmd
      PROVE  /\ Compiled(cmd)[i] \in Statements
             /\ Compiled(cmd)[i].op = cmd[i].op
             /\ Compiled(cmd)[i].name = cmd[i].name
  BY <1>2, <1>4, <1>5 DEF Compiled, Statements
<1>6. Compiled(cmd) \in [1..Len(cmd) -> Statements]
  BY <1>2, <1>5 DEF Compiled
<1>7. Compiled(cmd) \in Seq(Statements)
  BY <1>2, <1>6, SeqDef
<1>8. QED
  BY <1>1, <1>5, <1>7 DEF Compiled

(* A statement that does not throw has a value.                            *)
LEMMA StatementFacts ==
    ASSUME SessionInv, DefinitionInv, pc \in DOMAIN code
    PROVE  /\ Statement \in Statements
           /\ ~Fails(Statement.expr) => Value(Statement.expr) \in Values
           /\ Statement.op = command[pc].op /\ Statement.name = command[pc].name
           /\ pc \in DOMAIN command
<1>1. Statement \in Statements
  BY LenProperties, ElementOfSeq DEF SessionInv, CodeInv, Statement
<1>2. QED
  BY <1>1, ValueFacts
  DEF Statements, Expressions, Fails, Value, DefinitionInv, Statement

-----------------------------------------------------------------------------

(* What is computed is a value.                                            *)
LEMMA ValueStep == IInv /\ [Next]_vars => ValueInv'
<1> SUFFICES ASSUME IInv, [Next]_vars PROVE ValueInv'
  OBVIOUS
<1> USE DEF ValueInv, serverVars, outputVars, commandVars
<1>0. SessionInv /\ ValueInv /\ OutputInv /\ DefinitionInv
  BY DEF IInv, SessionInv
<1>1. ASSUME NEW n, NEW v \in Values, local' = Bind(local, n, v)
      PROVE  \A m \in DOMAIN local' : local'[m] \in Values
  BY <1>0, <1>1 DEF Bind
<1>2. CASE (\E cmd \in Commands : ReadCommand(cmd)) \/ Throw
  BY <1>0, <1>2, Empty DEF ReadCommand, Throw, ToPrompt
<1>3. CASE Assign \/ While
  <2>1. UNCHANGED bindings
    BY <1>3 DEF Assign, While
  <2>2. \/ UNCHANGED local
        \/ /\ local' = Bind(local, Statement.name, Value(Statement.expr))
           /\ Value(Statement.expr) \in Values
    BY <1>0, <1>3, StatementFacts DEF Assign, While, At
  <2>3. QED
    BY <1>0, <1>1, <2>1, <2>2
<1>4. CASE EvalDefinition
  <2>1. /\ UNCHANGED local
        /\ bindings' = Bind(bindings, Statement.name, Value(Statement.expr))
        /\ Value(Statement.expr) \in Values
    BY <1>0, <1>4, StatementFacts DEF EvalDefinition, At
  <2>2. QED
    BY <1>0, <2>1 DEF Bind
<1>5. CASE EndCommand
  <2>1. \/ UNCHANGED local
        \/ only \in Values /\ local' = Bind(local, "_", only)
    <3>1. only \in Values \cup {Missing}
      BY <1>0 DEF OutputInv
    <3>2. local' = IF only = Missing THEN local ELSE Bind(local, "_", only)
      BY <1>5 DEF EndCommand, LastValue
    <3>3. QED
      BY <3>1, <3>2
  <2>2. UNCHANGED bindings \/ bindings' = <<>>
    BY <1>5 DEF EndCommand, ToPrompt
  <2>3. QED
    BY <1>0, <1>1, <2>1, <2>2, Empty
<1>6. CASE Define
  BY <1>0, <1>6, Empty DEF Define, ToPrompt
<1>7. CASE UNCHANGED <<local, bindings>>
  BY <1>0, <1>7
<1>8. QED
  BY <1>2, <1>3, <1>4, <1>5, <1>6, <1>7
  DEF Next, ReplRuns, RejectCommand, PushValue, PushField, Displayed,
      EndOfInput, Exited, ServerTakes, Join, Finished, vars

(* The program changes when a command is read and when it ends; a step of  *)
(* it goes on to the next statement.                                       *)
LEMMA ProgramStep ==
    ASSUME [Next]_vars
    PROVE  \/ UNCHANGED <<command, code, pc>>
           \/ UNCHANGED <<command, code>> /\ pc' = pc + 1
           \/ command' = <<>> /\ code' = <<>> /\ pc' = 1
           \/ \E cmd \in Commands :
                 command' = cmd /\ code' = Compiled(cmd) /\ pc' = 1
  BY DEF Next, ReadCommand, RejectCommand, ReplRuns, Throw, Assign, While,
         EvalDefinition, PushValue, PushField, EndCommand, Define, Displayed,
         EndOfInput, Exited, ServerTakes, Join, Finished, ToPrompt, vars,
         commandVars

(* Evaluation stays within the statements of the command.                  *)
LEMMA CodeStep == IInv /\ [Next]_vars => CodeInv'
<1> SUFFICES ASSUME IInv, [Next]_vars PROVE CodeInv'
  OBVIOUS
<1>1. SessionInv /\ command \in Seq(Statements) /\ code \in Seq(Statements)
  BY DEF IInv, SessionInv, CodeInv
<1>2. command' \in Seq(Statements) /\ code' \in Seq(Statements)
  BY <1>1, ProgramStep, CompiledType, Empty
<1>3. pc \in Nat
  BY DEF IInv, SessionInv, CodeInv
<1>4. pc' \in Nat
  BY <1>3, ProgramStep
<1>5. QED
  BY <1>2, <1>4 DEF CodeInv

(* What is printed before an output is all the output there was.           *)
LEMMA FlushedIsPushed ==
    ASSUME OutputInv, phase = "exec" PROVE Flushed = pushed
  BY DEF OutputInv, Flushed

(* Output is held back once, and shown or printed in its order.            *)
LEMMA OutputStep == IInv /\ [Next]_vars => OutputInv'
<1> SUFFICES ASSUME IInv, [Next]_vars PROVE OutputInv'
  OBVIOUS
<1> USE DEF serverVars, outputVars, commandVars, Held
<1>0. SessionInv /\ OutputInv /\ ServerInv /\ DefinitionInv
  BY DEF IInv
<1>1. ASSUME NEW cmd \in Commands, ReadCommand(cmd)
      PROVE  OutputInv'
  BY <1>0, <1>1, Empty, ConcatEmptySeq
  DEF ReadCommand, StartCommand, OutputInv
<1>2. ASSUME NEW cmd \in Commands, RejectCommand(cmd)
      PROVE  OutputInv'
  BY <1>0, <1>2 DEF RejectCommand, OutputInv
<1>3. CASE Throw \/ Define
  BY <1>0, <1>3, Empty DEF Throw, Define, ToPrompt, OutputInv
<1>4. CASE Assign \/ While \/ EvalDefinition
  BY <1>0, <1>4 DEF Assign, While, EvalDefinition, At, OutputInv
<1>5. CASE PushValue
  <2> DEFINE val == Value(Statement.expr)
             out == Output("value", val)
  <2>1. val \in Values /\ out \in Outputs /\ val # Missing /\ phase = "exec"
    BY <1>0, <1>5, StatementFacts, ValueFacts DEF PushValue, At, Outputs, Output
  <2>2. pushed' = Append(pushed, out) /\ pushed' \in Seq(Outputs)
    BY <1>0, <1>5, <2>1, AppendProperties DEF PushValue, OutputInv
  <2>3. CASE produced
    <3>1. printed' = pushed' /\ only' = Missing /\ produced'
      BY <1>0, <1>5, <2>1, <2>2, <2>3, FlushedIsPushed DEF PushValue
    <3>2. QED
      BY <1>5, <2>1, <2>2, <3>1, ConcatEmptySeq DEF PushValue, OutputInv
  <2>4. CASE ~produced
    <3>1. pushed = <<>> /\ printed = <<>>
      BY <1>0, <2>1, <2>4 DEF OutputInv
    <3>2. pushed' = <<out>> /\ only' = val /\ printed' = <<>> /\ produced'
      BY <1>5, <2>2, <2>4, <3>1 DEF PushValue
    <3>3. pushed' = printed' \o Held'
      BY <2>1, <2>2, <3>2, ConcatEmptySeq
    <3>4. QED
      BY <1>5, <2>1, <2>2, <3>2, <3>3, Empty DEF PushValue, OutputInv
  <2>5. QED
    BY <2>3, <2>4
<1>6. CASE PushField
  <2> DEFINE out == Output("field", Value(Statement.expr))
  <2>1. out \in Outputs /\ phase = "exec"
    BY <1>0, <1>6, StatementFacts DEF PushField, At, Outputs, Output
  <2>2. pushed' = Append(pushed, out) /\ pushed' \in Seq(Outputs)
    BY <1>0, <1>6, <2>1, AppendProperties DEF PushField, OutputInv
  <2>3. printed' = pushed' /\ only' = Missing /\ produced'
    BY <1>0, <1>6, <2>1, <2>2, FlushedIsPushed DEF PushField
  <2>4. QED
    BY <1>6, <2>1, <2>2, <2>3, ConcatEmptySeq DEF PushField, OutputInv
<1>7. CASE EndCommand
  <2>1. CASE only \in Numbers \cup {Missing}
    BY <1>0, <1>7, <2>1, FlushedIsPushed, ValueFacts DEF EndCommand, OutputInv
  <2>2. CASE only = Broken
    BY <1>0, <1>7, <2>2, ValueFacts, EmptySeq
    DEF EndCommand, ToPrompt, OutputInv, Missing
  <2>3. CASE only \in Shapes
    <3>1. UNCHANGED <<printed, pushed, only, produced>>
      BY <1>7, <2>3, ValueFacts DEF EndCommand
    <3>2. phase' = "displaying" /\ phase = "exec"
      BY <1>7, <2>3, ValueFacts DEF EndCommand
    <3>3. QED
      BY <1>0, <2>3, <3>1, <3>2 DEF OutputInv
  <2>4. QED
    BY <1>7, <2>1, <2>2, <2>3 DEF EndCommand
<1>8. CASE Displayed
  <2>1. shape' = only /\ only \in Shapes /\ only # Missing
    BY <1>0, <1>8, ValueFacts DEF Displayed, Server!Return, ServerInv, OutputInv
  <2>2. printed = <<>> /\ pushed = printed \o <<Output("value", only)>>
    BY <1>0, <1>8, <2>1 DEF Displayed, OutputInv
  <2>3. pushed = <<Output("value", only)>>
    BY <2>2
  <2>4. QED
    BY <1>0, <1>8, <2>1, <2>2, <2>3 DEF Displayed, OutputInv
<1>9. CASE EndOfInput \/ Exited
  BY <1>0, <1>9 DEF EndOfInput, Exited, OutputInv
<1>10. CASE ServerTakes
  BY <1>0, <1>10 DEF ServerTakes, Server!Take, OutputInv, ServerInv
<1>11. CASE Join \/ UNCHANGED vars
  BY <1>0, <1>11 DEF Join, vars, OutputInv
<1>12. QED
  BY <1>1, <1>2, <1>3, <1>4, <1>5, <1>6, <1>7, <1>8, <1>9, <1>10, <1>11
  DEF Next, ReplRuns, Finished

(* The REPL waits for the view server in two phases only.                  *)
LEMMA ServerStep == IInv /\ [Next]_vars => ServerInv'
<1> SUFFICES ASSUME IInv, [Next]_vars PROVE ServerInv'
  OBVIOUS
<1> USE DEF serverVars, outputVars, commandVars, ServerInv
<1>0. ServerInv
  BY DEF IInv
<1>1. CASE EndCommand
  BY <1>0, <1>1 DEF EndCommand, ToPrompt, Server!Call
<1>2. CASE EndOfInput
  BY <1>0, <1>2 DEF EndOfInput, Server!Call
<1>3. CASE Displayed \/ Exited
  BY <1>0, <1>3 DEF Displayed, Exited, Server!Return
<1>4. CASE ServerTakes
  BY <1>0, <1>4
  DEF ServerTakes, Server!Take, Server!Display, Server!Exit
<1>5. QED
  BY <1>0, <1>1, <1>2, <1>3, <1>4
  DEF Next, ReadCommand, RejectCommand, ReplRuns, Throw, Assign, While,
      EvalDefinition, PushValue, PushField, Define, Join, Finished, vars,
      ToPrompt, At

(* The definitions of a command that were evaluated have values.           *)
LEMMA DefinitionStep == IInv /\ [Next]_vars => DefinitionInv'
<1> SUFFICES ASSUME IInv, [Next]_vars PROVE DefinitionInv'
  OBVIOUS
<1> USE DEF serverVars, outputVars, commandVars, IsDefinition
<1>0. SessionInv /\ OutputInv /\ DefinitionInv
  BY DEF IInv
<1>1. ASSUME NEW cmd \in Commands, ReadCommand(cmd)
      PROVE  DefinitionInv'
  <2>1. /\ command' = cmd /\ code' = Compiled(cmd) /\ phase' = "exec"
        /\ pc' = 1 /\ only' = Missing /\ UNCHANGED local
    BY <1>1 DEF ReadCommand, StartCommand
  <2>2. \A i \in DOMAIN cmd :
           cmd[i].op \in {"assign", "while"} => cmd[i].name \in DOMAIN local
    BY <1>1 DEF ReadCommand, Compiles, Assignable
  <2>3. IsDefinition(cmd) => \A i \in DOMAIN cmd : cmd[i].op = "define"
    BY CommandsAssumption
  <2>4. \A i \in DOMAIN cmd : ~(i < 1)
    BY <1>0, CompiledType, LenProperties
  <2>5. QED
    BY <1>0, <2>1, <2>2, <2>3, <2>4, CompiledType DEF DefinitionInv
<1>2. ASSUME NEW cmd \in Commands, RejectCommand(cmd)
      PROVE  DefinitionInv'
  BY <1>0, <1>2 DEF RejectCommand, DefinitionInv
<1>3. CASE Throw \/ Define
  BY <1>0, <1>3 DEF Throw, Define, ToPrompt, DefinitionInv
<1>4. ASSUME pc \in DOMAIN code, pc' = pc + 1
      PROVE  \A i \in DOMAIN command : i < pc' => i < pc \/ i = pc
  BY <1>0, <1>4, LenProperties DEF SessionInv, CodeInv
<1>5. CASE Assign \/ While
  <2>1. Statement.op # "define" /\ pc \in DOMAIN code /\ phase = "exec"
    BY <1>5 DEF Assign, While, At
  <2>2. Statement.name \in DOMAIN local
    BY <1>0, <1>5, <2>1, StatementFacts DEF Assign, While, At, DefinitionInv
  <2>3. DOMAIN local' = DOMAIN local
    BY <1>5, <2>2 DEF Assign, While, Bind
  <2>4. UNCHANGED <<command, code, bindings, phase, only>>
        /\ (UNCHANGED pc \/ pc' = pc + 1)
    BY <1>5 DEF Assign, While
  <2>5. QED
    BY <1>0, <1>4, <2>1, <2>3, <2>4, StatementFacts DEF DefinitionInv
<1>6. CASE EvalDefinition
  <2>1. /\ pc \in DOMAIN code /\ pc' = pc + 1
        /\ DOMAIN bindings' = DOMAIN bindings \cup {Statement.name}
        /\ UNCHANGED <<command, code, local, phase, only>> /\ phase = "exec"
    BY <1>6 DEF EvalDefinition, At, Bind
  <2>2. QED
    BY <1>0, <1>4, <2>1, StatementFacts DEF DefinitionInv
<1>7. CASE PushValue \/ PushField
  <2>1. /\ pc \in DOMAIN code /\ pc' = pc + 1 /\ Statement.op # "define"
        /\ UNCHANGED <<command, code, local, bindings, phase>> /\ phase = "exec"
    BY <1>7 DEF PushValue, PushField, At
  <2>2. ~IsDefinition(command)
    BY <1>0, <2>1, StatementFacts DEF DefinitionInv
  <2>3. QED
    BY <1>0, <1>4, <2>1, <2>2, StatementFacts DEF DefinitionInv
<1>8. CASE EndCommand
  <2>1. pc > Len(code)
    BY <1>8 DEF EndCommand
  <2>2. DOMAIN command = 1..Len(code) /\ Len(code) \in Nat /\ pc \in Nat
    BY <1>0, LenProperties DEF SessionInv, CodeInv, DefinitionInv
  <2>3. \A i \in DOMAIN command : i < pc
    BY <2>1, <2>2
  <2>4. CASE ToPrompt
    BY <2>4, Empty DEF ToPrompt, DefinitionInv
  <2>5. CASE UNCHANGED <<command, code, pc, bindings>> /\ phase' # "exec"
    BY <1>0, <2>3, <2>5, <1>8 DEF DefinitionInv, EndCommand
  <2>6. QED
    BY <1>8, <2>4, <2>5 DEF EndCommand
<1>9. CASE Displayed \/ EndOfInput \/ Exited
  BY <1>0, <1>9 DEF Displayed, EndOfInput, Exited, DefinitionInv
<1>10. CASE ServerTakes \/ Join \/ UNCHANGED vars
  BY <1>0, <1>10 DEF ServerTakes, Join, vars, DefinitionInv
<1>11. QED
  BY <1>1, <1>2, <1>3, <1>5, <1>6, <1>7, <1>8, <1>9, <1>10
  DEF Next, ReplRuns, Finished

(* The invariant holds in every state of the REPL.                         *)
THEOREM Invariance == Spec => []IInv
<1>1. Init => IInv
  BY InitIInv
<1>2. IInv /\ [Next]_vars => IInv'
  BY ValueStep, CodeStep, OutputStep, ServerStep, DefinitionStep
  DEF IInv, SessionInv
<1>3. QED
  BY <1>1, <1>2, PTL DEF Spec

(* Every value and field that a command generates is shown, once and in    *)
(* order, on the console or, if it is alone and a shape, in the viewer.    *)
THEOREM OutputIsShown == Spec => []OutputShown
<1>1. IInv => OutputShown
  BY DEF IInv, OutputInv, OutputShown
<1>2. QED
  BY <1>1, Invariance, PTL

-----------------------------------------------------------------------------

(* The steps that write a session variable.                                *)
LEMMA LocalStep ==
    ASSUME IInv, [Next]_vars
    PROVE  \/ UNCHANGED local
           \/ /\ At("assign") \/ At("while")
              /\ \E val : local' = Bind(local, Statement.name, val)
           \/ EndCommand
           \/ Define
  BY DEF Next, ReadCommand, RejectCommand, ReplRuns, Throw, Assign, While,
         EvalDefinition, PushValue, PushField, Displayed, EndOfInput, Exited,
         ServerTakes, Join, Finished, vars, At

(* The definitions of a command reach the session in one step, after the   *)
(* last of them was evaluated.                                             *)
THEOREM AllDefinitionsOrNone == Spec => DefinitionsTogether
<1>1. ASSUME IInv, [Next]_vars
      PROVE  /\ IsDefinition(command) /\ phase = "exec" => local' = local
             /\ DOMAIN local' # DOMAIN local =>
                  \/ phase = "exec" /\ DOMAIN local' = DOMAIN local \cup {"_"}
                  \/ /\ phase = "define"
                     /\ Defined(command) \subseteq DOMAIN local'
  <2>1. SessionInv /\ OutputInv /\ DefinitionInv
    BY <1>1 DEF IInv
  <2>2. CASE UNCHANGED local
    BY <2>2
  <2>3. ASSUME NEW val, local' = Bind(local, Statement.name, val),
               phase = "exec", pc \in DOMAIN code,
               Statement.op \in {"assign", "while"}
        PROVE  ~IsDefinition(command) /\ DOMAIN local' = DOMAIN local
    <3>1. Statement.name \in DOMAIN local
      BY <2>1, <2>3, StatementFacts DEF DefinitionInv
    <3>2. QED
      BY <2>1, <2>3, <3>1, StatementFacts DEF DefinitionInv, Bind
  <2>4. CASE EndCommand
    BY <2>1, <2>4 DEF EndCommand, LastValue, Bind, DefinitionInv
  <2>5. CASE Define
    <3>1. phase = "define" /\ DOMAIN bindings \subseteq DOMAIN local'
      BY <2>5 DEF Define
    <3>2. Defined(command) \subseteq DOMAIN bindings
      BY <2>1, <3>1 DEF DefinitionInv, Defined
    <3>3. QED
      BY <3>1, <3>2
  <2>6. QED
    BY <1>1, <2>2, <2>3, <2>4, <2>5, LocalStep DEF At
<1>2. IInv /\ [Next]_vars =>
        [/\ IsDefinition(command) /\ phase = "exec" => local' = local
         /\ DOMAIN local' # DOMAIN local =>
              \/ phase = "exec" /\ DOMAIN local' = DOMAIN local \cup {"_"}
              \/ /\ phase = "define"
                 /\ Defined(command) \subseteq DOMAIN local']_vars
  BY <1>1
<1>3. QED
  BY <1>2, Invariance, PTL DEF Spec, DefinitionsTogether

-----------------------------------------------------------------------------
(* Types.                                                                  *)

SessionNames == Names \cup Std \cup {NoName, "_"}

(* A map from some of the session's names to values.                       *)
Bindings(f) == DOMAIN f \subseteq SessionNames /\ f \in [DOMAIN f -> Values]

TypeOK ==
    /\ Bindings(local) /\ Bindings(bindings)
    /\ phase \in {"prompt", "exec", "displaying", "define", "exiting", "gone"}
    /\ command \in Seq(Statements) /\ code \in Seq(Statements) /\ pc \in Nat
    /\ only \in Values \cup {Missing} /\ produced \in BOOLEAN
    /\ printed \in Seq(Outputs) /\ pushed \in Seq(Outputs)
    /\ failed \in BOOLEAN /\ main \in {"run", "done"}
    /\ call \in Server!Calls \cup {Server!NoCall}
    /\ status \in {"idle", "pending", "taken"}
    /\ shape \in Shapes \cup {Missing} /\ running \in BOOLEAN

(* The thread waits for a call in the two phases that make one; the server *)
(* stops when it has taken the exit() at the end of the input.             *)
ProtocolInv ==
    /\ status = "idle" <=> phase \notin {"displaying", "exiting"}
    /\ phase = "exiting" => call = Server!Exit
    /\ running <=>
         ~(phase = "gone" \/ (phase = "exiting" /\ status = "taken"))
    /\ main = "done" => phase = "gone"

(* A shape that is on its way to the viewer, or there, is `_`.             *)
UnderscoreInv ==
    /\ phase = "displaying" => "_" \in DOMAIN local /\ local["_"] = only
    /\ phase = "define" /\ only \in Shapes =>
         "_" \in DOMAIN local /\ local["_"] = only /\ shape = only

(* Only what the command defines is bound.                                 *)
BindingsInv == DOMAIN bindings \subseteq Defined(command)

ThreadInv == TypeOK /\ ProtocolInv /\ UnderscoreInv /\ BindingsInv

(* The calls of the server, written out.                                   *)
LEMMA ServerNames ==
    /\ \A s : Server!Display(s) = [op |-> "display", shape |-> s]
    /\ Server!Exit = [op |-> "exit", shape |-> Missing]
    /\ Server!NoCall = [op |-> "none", shape |-> Missing]
    /\ Server!Calls = {Server!Display(s) : s \in Shapes} \cup {Server!Exit}
  BY DEF Server!Display, Server!Exit, Server!NoCall, Server!Calls

(* The empty map.                                                          *)
LEMMA EmptyBindings == Bindings(<<>>)
<1>1. <<>> \in Seq(Values) /\ Len(<<>>) = 0 /\ DOMAIN <<>> = {}
  BY EmptySeq, Empty
<1>2. <<>> \in [1..0 -> Values] /\ 1..0 = {}
  BY <1>1, LenProperties
<1>3. QED
  BY <1>1, <1>2 DEF Bindings

(* Setting a name leaves the others as they are.                           *)
LEMMA BindType ==
    ASSUME NEW f, Bindings(f), NEW n \in SessionNames, NEW val \in Values
    PROVE  /\ Bindings(Bind(f, n, val))
           /\ DOMAIN Bind(f, n, val) = DOMAIN f \cup {n}
           /\ Bind(f, n, val)[n] = val
           /\ \A m \in DOMAIN f \ {n} : Bind(f, n, val)[m] = f[m]
  BY DEF Bindings, Bind

(* At the start no call was made and no name is defined.                   *)
LEMMA InitThreadInv == Init => ThreadInv
<1> SUFFICES ASSUME Init PROVE ThreadInv
  OBVIOUS
<1>1. TypeOK
  BY EmptyBindings, Empty, ServerNames DEF Init, TypeOK, Server!Init
<1>2. ProtocolInv /\ UnderscoreInv /\ BindingsInv
  BY Empty DEF Init, ProtocolInv, UnderscoreInv, BindingsInv, Server!Init
<1>3. QED
  BY <1>1, <1>2 DEF ThreadInv

(* The names that a step binds are the session's.                          *)
LEMMA BindingsStep ==
    ASSUME IInv, ThreadInv, [Next]_vars
    PROVE  Bindings(local)' /\ Bindings(bindings)'
<1>0. /\ SessionInv /\ OutputInv /\ DefinitionInv
      /\ Bindings(local) /\ Bindings(bindings)
  BY DEF IInv, ThreadInv, TypeOK
<1>1. ASSUME pc \in DOMAIN code
      PROVE  Statement.name \in SessionNames
  BY <1>0, <1>1, StatementFacts DEF Statements, SessionNames
<1>2. CASE (\E cmd \in Commands : ReadCommand(cmd)) \/ Throw
  BY <1>0, <1>2, EmptyBindings DEF ReadCommand, Throw, ToPrompt
<1>3. CASE Assign \/ While
  <2>1. UNCHANGED bindings /\ pc \in DOMAIN code
    BY <1>3 DEF Assign, While, At
  <2>2. \/ UNCHANGED local
        \/ /\ local' = Bind(local, Statement.name, Value(Statement.expr))
           /\ Value(Statement.expr) \in Values
    BY <1>0, <1>3, StatementFacts DEF Assign, While, At
  <2>3. Bindings(bindings)'
    BY <1>0, <2>1 DEF Bindings
  <2>4. CASE UNCHANGED local
    BY <1>0, <2>3, <2>4 DEF Bindings
  <2>5. CASE ~UNCHANGED local
    <3> DEFINE new == Bind(local, Statement.name, Value(Statement.expr))
    <3>1. Bindings(new) /\ local' = new
      BY <1>0, <1>1, <2>1, <2>2, <2>5, BindType
    <3>2. Bindings(local)'
      BY <3>1 DEF Bindings
    <3>3. QED
      BY <2>3, <3>2
  <2>6. QED
    BY <2>4, <2>5
<1>4. CASE EvalDefinition
  <2>1. /\ UNCHANGED local /\ pc \in DOMAIN code
        /\ bindings' = Bind(bindings, Statement.name, Value(Statement.expr))
        /\ Value(Statement.expr) \in Values
    BY <1>0, <1>4, StatementFacts DEF EvalDefinition, At
  <2>2. QED
    BY <1>0, <1>1, <2>1, BindType
<1>5. CASE EndCommand
  <2>1. only \in Values \cup {Missing} /\ "_" \in SessionNames
    BY <1>0 DEF OutputInv, SessionNames
  <2>2. local' = IF only = Missing THEN local ELSE Bind(local, "_", only)
    BY <1>5 DEF EndCommand, LastValue
  <2>3. UNCHANGED bindings \/ bindings' = <<>>
    BY <1>5 DEF EndCommand, ToPrompt
  <2>4. QED
    BY <1>0, <2>1, <2>2, <2>3, BindType, EmptyBindings
<1>6. CASE Define
  BY <1>0, <1>6, EmptyBindings DEF Define, ToPrompt, Bindings
<1>7. CASE UNCHANGED <<local, bindings>>
  BY <1>0, <1>7
<1>8. QED
  BY <1>2, <1>3, <1>4, <1>5, <1>6, <1>7
  DEF Next, ReplRuns, RejectCommand, PushValue, PushField, Displayed,
      EndOfInput, Exited, ServerTakes, Join, Finished, vars, serverVars,
      outputVars, commandVars

(* The thread makes a call, or waits for its end, and leaves the server    *)
(* alone in every other step.                                              *)
LEMMA ClientSteps ==
    ASSUME IInv, [Next]_vars
    PROVE  \/ UNCHANGED <<call, status, shape, running>>
              /\ (UNCHANGED phase
                    \/ (phase \in {"prompt", "exec", "define"}
                          /\ phase' \in {"prompt", "exec", "define"}))
           \/ /\ phase = "exec" /\ phase' = "displaying" /\ only \in Shapes
              /\ Server!Call /\ call' = Server!Display(only)
           \/ /\ phase = "displaying" /\ phase' = "define" /\ Server!Return
           \/ /\ phase = "prompt" /\ phase' = "exiting"
              /\ Server!Call /\ call' = Server!Exit
           \/ /\ phase = "exiting" /\ phase' = "gone" /\ Server!Return
           \/ UNCHANGED phase /\ Server!Take
<1> USE DEF serverVars, outputVars, commandVars
<1>1. CASE EndCommand
  BY <1>1 DEF EndCommand, ToPrompt
<1>2. CASE Displayed \/ Exited \/ EndOfInput
  BY <1>2 DEF Displayed, Exited, EndOfInput
<1>3. CASE ServerTakes
  BY <1>3 DEF ServerTakes
<1>4. CASE Throw \/ Define \/ \E cmd \in Commands : ReadCommand(cmd)
  BY <1>4 DEF Throw, Define, ReadCommand, ToPrompt
<1>5. CASE \/ Assign \/ While \/ EvalDefinition \/ PushValue \/ PushField
           \/ Join \/ UNCHANGED vars
           \/ \E cmd \in Commands : RejectCommand(cmd)
  BY <1>5 DEF Assign, While, EvalDefinition, PushValue, PushField, Join,
              RejectCommand, vars
<1>6. QED
  BY <1>1, <1>2, <1>3, <1>4, <1>5 DEF Next, ReplRuns, Finished

(* The variables of the server keep their types.                           *)
LEMMA ServerTypeStep ==
    ASSUME IInv, ThreadInv, [Next]_vars
    PROVE  /\ phase' \in {"prompt", "exec", "displaying", "define", "exiting",
                          "gone"}
           /\ call' \in Server!Calls \cup {Server!NoCall}
           /\ status' \in {"idle", "pending", "taken"}
           /\ shape' \in Shapes \cup {Missing} /\ running' \in BOOLEAN
<1>0. TypeOK
  BY DEF ThreadInv
<1>1. phase' \in {"prompt", "exec", "displaying", "define", "exiting", "gone"}
  BY <1>0, ClientSteps DEF TypeOK
<1>2. CASE UNCHANGED phase /\ Server!Take
  <2>1. /\ status' = "taken" /\ UNCHANGED <<phase, call>>
        /\ running' \in {FALSE, running} /\ shape' \in {shape, call.shape}
    BY <1>2 DEF Server!Take
  <2>2. call.shape \in Shapes \cup {Missing}
    BY <1>0, ServerNames DEF TypeOK
  <2>3. QED
    BY <1>0, <2>1, <2>2 DEF TypeOK
<1>3. CASE Server!Call
  BY <1>0, <1>1, <1>3 DEF TypeOK, Server!Call
<1>4. CASE Server!Return
  BY <1>0, <1>1, <1>4 DEF TypeOK, Server!Return
<1>5. CASE UNCHANGED <<call, status, shape, running>>
  BY <1>0, <1>1, <1>5 DEF TypeOK
<1>6. QED
  BY <1>2, <1>3, <1>4, <1>5, ClientSteps

(* Every variable keeps its type.                                          *)
LEMMA TypeStep == IInv /\ ThreadInv /\ [Next]_vars => TypeOK'
<1> SUFFICES ASSUME IInv, ThreadInv, [Next]_vars PROVE TypeOK'
  OBVIOUS
<1>0. TypeOK
  BY DEF ThreadInv
<1>1. CodeInv' /\ OutputInv'
  BY CodeStep, OutputStep
<1>2. produced' \in BOOLEAN /\ failed' \in BOOLEAN
  BY <1>0
  DEF TypeOK, Next, ReadCommand, RejectCommand, StartCommand, ReplRuns, Throw,
      Assign, While, EvalDefinition, PushValue, PushField, EndCommand, Define,
      Displayed, EndOfInput, Exited, ServerTakes, Join, Finished, ToPrompt,
      vars, outputVars
<1>3. main' \in {"run", "done"}
  BY <1>0
  DEF TypeOK, Next, ReadCommand, RejectCommand, ReplRuns, Throw, Assign,
      While, EvalDefinition, PushValue, PushField, EndCommand, Define,
      Displayed, EndOfInput, Exited, ServerTakes, Join, Finished, vars
<1>4. QED
  BY <1>1, <1>2, <1>3, BindingsStep, ServerTypeStep
  DEF TypeOK, CodeInv, OutputInv

(* The thread and the server keep in step.                                 *)
LEMMA ProtocolStep == IInv /\ ThreadInv /\ [Next]_vars => ProtocolInv'
<1> SUFFICES ASSUME IInv, ThreadInv, [Next]_vars PROVE ProtocolInv'
  OBVIOUS
<1>0. ProtocolInv /\ TypeOK
  BY DEF ThreadInv
<1>1. main' = "done" => phase' = "gone"
  <2>1. CASE Join
    BY <2>1 DEF Join
  <2>2. CASE ~Join
    <3>1. UNCHANGED main
      BY <2>2 DEF Next, ReadCommand, RejectCommand, ReplRuns, Throw, Assign,
           While, EvalDefinition, PushValue, PushField, EndCommand, Define,
           Displayed, EndOfInput, Exited, ServerTakes, Finished, vars
    <3>2. phase = "gone" => phase' = "gone"
      BY ClientSteps
    <3>3. QED
      BY <1>0, <3>1, <3>2 DEF ProtocolInv
  <2>3. QED
    BY <2>1, <2>2
<1>2. CASE UNCHANGED <<call, status, shape, running>>
  BY <1>0, <1>1, <1>2, ClientSteps
  DEF ProtocolInv, Server!Call, Server!Return, Server!Take
<1>3. CASE UNCHANGED phase /\ Server!Take
  <2>1. phase \in {"displaying", "exiting"}
    BY <1>0, <1>3 DEF ProtocolInv, Server!Take
  <2>2. phase = "displaying" => call # Server!Exit
    BY ServerNames DEF IInv, ServerInv
  <2>3. QED
    BY <1>0, <1>1, <1>3, <2>1, <2>2 DEF ProtocolInv, Server!Take
<1>4. QED
  BY <1>0, <1>1, <1>2, <1>3, ClientSteps
  DEF ProtocolInv, Server!Call, Server!Return

(* `_` is set in the step that displays the value.                         *)
LEMMA UnderscoreStep == IInv /\ ThreadInv /\ [Next]_vars => UnderscoreInv'
<1> SUFFICES ASSUME IInv, ThreadInv, [Next]_vars PROVE UnderscoreInv'
  OBVIOUS
<1> USE DEF serverVars, outputVars, commandVars
<1>0. UnderscoreInv /\ ServerInv /\ OutputInv
  BY DEF IInv, ThreadInv
<1>1. CASE EndCommand
  <2>1. CASE only \in Shapes
    <3>1. /\ phase' = "displaying" /\ UNCHANGED only
          /\ local' = Bind(local, "_", only)
      BY <1>1, <2>1, ValueFacts DEF EndCommand, LastValue
    <3>2. QED
      BY <3>1 DEF UnderscoreInv, Bind
  <2>2. CASE only \notin Shapes
    BY <1>1, <2>2 DEF EndCommand, ToPrompt, UnderscoreInv
  <2>3. QED
    BY <2>1, <2>2
<1>2. CASE Displayed
  BY <1>0, <1>2 DEF Displayed, Server!Return, UnderscoreInv, ServerInv
<1>3. CASE ServerTakes
  BY <1>0, <1>3 DEF ServerTakes, Server!Take, UnderscoreInv, ServerInv
<1>4. CASE phase' \notin {"displaying", "define"}
  BY <1>4 DEF UnderscoreInv
<1>5. CASE UNCHANGED <<local, phase, only, shape>>
  BY <1>0, <1>5 DEF UnderscoreInv
<1>6. QED
  BY <1>1, <1>2, <1>3, <1>4, <1>5
  DEF Next, ReadCommand, RejectCommand, ReplRuns, Throw, Assign, While,
      EvalDefinition, PushValue, PushField, Define, EndOfInput, Exited, Join,
      Finished, vars, ToPrompt, At

(* A definition that has a value belongs to the command.                   *)
LEMMA OnlyDefinedStep == IInv /\ ThreadInv /\ [Next]_vars => BindingsInv'
<1> SUFFICES ASSUME IInv, ThreadInv, [Next]_vars PROVE BindingsInv'
  OBVIOUS
<1> USE DEF serverVars, outputVars, commandVars
<1>0. SessionInv /\ DefinitionInv /\ BindingsInv
  BY DEF IInv, ThreadInv
<1>1. CASE EvalDefinition
  <2>1. /\ pc \in DOMAIN code /\ Statement.op = "define" /\ UNCHANGED command
        /\ DOMAIN bindings' = DOMAIN bindings \cup {Statement.name}
    BY <1>1 DEF EvalDefinition, At, Bind
  <2>2. Statement.name \in Defined(command)
    BY <1>0, <2>1, StatementFacts DEF Defined
  <2>3. QED
    BY <1>0, <2>1, <2>2 DEF BindingsInv, Defined
<1>2. CASE DOMAIN bindings' = {}
  BY <1>2 DEF BindingsInv
<1>3. CASE UNCHANGED <<command, bindings>>
  BY <1>0, <1>3 DEF BindingsInv, Defined
<1>4. QED
  BY <1>1, <1>2, <1>3, Empty
  DEF Next, ReadCommand, RejectCommand, ReplRuns, Throw, Assign, While,
      PushValue, PushField, EndCommand, Define, Displayed, EndOfInput, Exited,
      ServerTakes, Join, Finished, vars, ToPrompt

(* Both invariants hold in every state of the REPL.                        *)
THEOREM ThreadInvariance == Spec => [](IInv /\ ThreadInv)
<1>1. Init => IInv /\ ThreadInv
  BY InitIInv, InitThreadInv
<1>2. IInv /\ [Next]_vars => IInv'
  BY ValueStep, CodeStep, OutputStep, ServerStep, DefinitionStep
  DEF IInv, SessionInv
<1>3. IInv /\ ThreadInv /\ [Next]_vars => ThreadInv'
  BY TypeStep, ProtocolStep, UnderscoreStep, OnlyDefinedStep DEF ThreadInv
<1>4. QED
  BY <1>1, <1>2, <1>3, PTL DEF Spec

(* Every variable of the REPL has its type; the names of the session are   *)
(* those of the commands and `_`, and stand for values.                    *)
THEOREM TypeCorrect == Spec => []TypeOK
<1>1. ThreadInv => TypeOK
  BY DEF ThreadInv
<1>2. QED
  BY <1>1, ThreadInvariance, PTL

(* When a shape has been displayed, the viewer shows the value of `_`; and *)
(* interactive_mode() returns only when the input has ended, the server    *)
(* has taken the exit(), and no call is left.                              *)
ViewerAgrees ==
    /\ phase = "define" /\ only \in Shapes =>
         "_" \in DOMAIN local /\ local["_"] = shape
    /\ main = "done" => phase = "gone" /\ ~running /\ status = "idle"

(* The viewer and `_` are the same shape, and nothing is left at the end.  *)
THEOREM ViewerIsUnderscore == Spec => []ViewerAgrees
<1>1. ThreadInv => ViewerAgrees
  BY DEF ThreadInv, ProtocolInv, UnderscoreInv, ViewerAgrees
<1>2. QED
  BY <1>1, ThreadInvariance, PTL

(* A variable of the session never disappears, and a command changes no    *)
(* variable but `_` and those that it assigns or defines; whether it ends  *)
(* well or throws half-way.                                                *)
Writes(cmd) ==
    {cmd[i].name : i \in {j \in DOMAIN cmd :
                             cmd[j].op \in {"assign", "while", "define"}}}

OtherVariablesStay ==
    [][\A n \in DOMAIN local :
          /\ n \in DOMAIN local'
          /\ n \notin Writes(command) \cup {"_"} => local'[n] = local[n]]_vars

(* Session variables stay, but for those that the command names.           *)
THEOREM OnlyNamedVariablesChange == Spec => OtherVariablesStay
<1>1. ASSUME IInv, ThreadInv, [Next]_vars, NEW n \in DOMAIN local
      PROVE  /\ n \in DOMAIN local'
             /\ n \notin Writes(command) \cup {"_"} => local'[n] = local[n]
  <2>1. SessionInv /\ DefinitionInv /\ BindingsInv
    BY <1>1 DEF IInv, ThreadInv
  <2>2. CASE UNCHANGED local
    BY <2>2
  <2>3. ASSUME NEW val, local' = Bind(local, Statement.name, val),
               pc \in DOMAIN code, Statement.op \in {"assign", "while"}
        PROVE  /\ n \in DOMAIN local'
               /\ n \notin Writes(command) => local'[n] = local[n]
    <3>1. Statement.name \in Writes(command)
      BY <2>1, <2>3, StatementFacts DEF Writes
    <3>2. QED
      BY <2>3, <3>1 DEF Bind
  <2>4. CASE EndCommand
    BY <2>4 DEF EndCommand, LastValue, Bind
  <2>5. CASE Define
    <3>1. DOMAIN bindings \subseteq Writes(command)
      BY <2>1 DEF BindingsInv, Defined, Writes
    <3>2. QED
      BY <2>5, <3>1 DEF Define
  <2>6. QED
    BY <1>1, <2>2, <2>3, <2>4, <2>5, LocalStep DEF At
<1>2. IInv /\ ThreadInv /\ [Next]_vars =>
        [\A n \in DOMAIN local :
            /\ n \in DOMAIN local'
            /\ n \notin Writes(command) \cup {"_"} => local'[n] = local[n]]_vars
  BY <1>1
<1>3. QED
  BY <1>2, ThreadInvariance, PTL DEF Spec, OtherVariablesStay

(* `_` becomes the value of a command that generated nothing else; only a  *)
(* command that itself assigns or defines `_` changes it in another way.   *)
THEOREM UnderscoreIsAlone == Spec => UnderscoreIsOnlyValue
<1>1. ASSUME IInv, ThreadInv, [Next]_vars, "_" \in DOMAIN local',
             "_" \in DOMAIN local => local["_"] # local'["_"]
      PROVE  LastValueSet \/ AssignsLastValue \/ DefinesLastValue
  <2>1. SessionInv /\ OutputInv /\ BindingsInv
    BY <1>1 DEF IInv, ThreadInv
  <2>2. CASE UNCHANGED local
    BY <1>1, <2>2
  <2>3. ASSUME NEW val, local' = Bind(local, Statement.name, val),
               At("assign") \/ At("while")
        PROVE  AssignsLastValue
    BY <1>1, <2>3 DEF Bind, AssignsLastValue
  <2>4. CASE EndCommand
    <3>1. /\ only # Missing /\ local' = Bind(local, "_", only)
          /\ phase = "exec" /\ pc > Len(code)
      BY <1>1, <2>4 DEF EndCommand, LastValue
    <3>2. printed = <<>> /\ pushed = printed \o <<Output("value", only)>>
      BY <2>1, <3>1 DEF OutputInv, Held
    <3>3. pushed = <<Output("value", only)>>
      BY <3>2
    <3>4. QED
      BY <3>1, <3>3 DEF Bind, LastValueSet
  <2>5. CASE Define
    BY <1>1, <2>1, <2>5 DEF Define, BindingsInv, DefinesLastValue
  <2>6. QED
    BY <1>1, <2>2, <2>3, <2>4, <2>5, LocalStep
<1>2. IInv /\ ThreadInv /\ [Next]_vars =>
        [("_" \in DOMAIN local'
            /\ ("_" \in DOMAIN local => local["_"] # local'["_"]))
          => LastValueSet \/ AssignsLastValue \/ DefinesLastValue]_vars
  BY <1>1
<1>3. QED
  BY <1>2, ThreadInvariance, PTL DEF Spec, UnderscoreIsOnlyValue

(* The guards of ViewService hold wherever the thread may be about to call *)
(* (at the end of a command and of the input): composing it with the       *)
(* service takes no behaviour away from the code.                          *)
CallAccepted ==
    /\ phase \in {"prompt", "exec"} => status = "idle" /\ running
    /\ only \in Shapes => Server!Display(only) \in Server!Calls

(* The REPL is a client that the view server can serve: what its thread    *)
(* and the main thread do to the server is what ViewService allows.  No    *)
(* call starts while another is in progress or when the server has         *)
(* stopped; a shape that cannot be compiled never gets there; the REPL     *)
(* goes on only when the call has returned; and no call that it wants to   *)
(* make is ruled out.                                                      *)
THEOREM ObeysService ==
    Spec => /\ Server!Init /\ [][Server!Next]_(Server!vars)
            /\ []CallAccepted
<1>1. Init => Server!Init
  BY DEF Init
<1>2. IInv /\ [Next]_vars => [Server!Next]_(Server!vars)
  BY ClientSteps DEF Server!Next, Server!vars
<1>3. IInv /\ ThreadInv => CallAccepted
  BY DEF ThreadInv, ProtocolInv, CallAccepted, Server!Calls
<1>4. QED
  BY <1>1, <1>2, <1>3, ThreadInvariance, PTL DEF Spec
=============================================================================

--------------------------------- MODULE REPL ---------------------------------
(***************************************************************************)
(* The command line interpreter (curv/repl.cc), which runs in a thread of  *)
(* its own: it compiles a command in the environment of the session,       *)
(* executes it, shows its output and adds its definitions to the session.  *)
(* The main thread runs the view server, module ViewService.               *)
(*                                                                         *)
(* A command is a sequence of statements, or of definitions.  Expressions  *)
(* are literals, names, and names plus one; values are numbers and shapes. *)
(***************************************************************************)
EXTENDS Integers, Sequences

CONSTANTS
    Names,     \* the names a command may define; one may be `_`, quoted
    Std,       \* the names of the standard library that commands refer to
    Max,       \* bound: numbers are computed modulo Max + 1
    Commands   \* the commands the user may type

ASSUME MaxAssumption == Max \in Nat

Numbers == 0..Max
Missing == -1         \* the value `missing`
Shapes  == {Max + 1, Max + 2}
Broken  == Max + 3    \* a shape that cannot be compiled for the GPU
Values  == Numbers \cup Shapes \cup {Broken}
NoName  == ""

Literal(k)   == [ref |-> NoName, lit |-> k, inc |-> FALSE]
Reference(n) == [ref |-> n, lit |-> 0, inc |-> FALSE]
Plus1(n)     == [ref |-> n, lit |-> 0, inc |-> TRUE]

Expressions ==
    [ref : Names \cup Std \cup {"_", NoName}, lit : Values, inc : BOOLEAN]
Ops == {"define", "assign", "while", "value", "field"}
Statements ==
    [op : Ops, name : Names \cup Std \cup {"_", NoName}, expr : Expressions]

IsDefinition(cmd) == cmd # <<>> /\ cmd[1].op = "define"
Defined(cmd) == {cmd[i].name : i \in {j \in DOMAIN cmd : cmd[j].op = "define"}}

(* A command is all statements or all definitions, each of another name;   *)
(* definitions that refer to each other are the subject of RecursiveScope. *)
ASSUME CommandsAssumption ==
    \A cmd \in Commands :
        /\ cmd \in Seq(Statements)
        /\ IsDefinition(cmd) =>
             \A i, j \in DOMAIN cmd :
                /\ cmd[i].op = "define"
                /\ i # j => cmd[i].name \notin {cmd[j].name, cmd[j].expr.ref}

VARIABLES
    local,      \* names.local_
    phase,      \* how far the loop of repl() has come
    command,    \* the phrase being executed
    code,       \* its meaning: the names are gone
    pc,         \* the statement that is next
    bindings,   \* the values of the module that definitions evaluate to
    only,       \* only_output_so_far_is_this_value_
    produced,   \* has_produced_output_
    printed,    \* what the command has printed on the console
    pushed,     \* what the command has generated, in a history variable
    failed,     \* the last command ended in an exception
    main,       \* the main thread, in interactive_mode()
    call, status, shape, running  \* the view server

commandVars == <<command, code, pc>>
outputVars  == <<only, produced, printed, pushed>>
serverVars  == <<call, status, shape, running>>
vars == <<local, phase, commandVars, bindings, outputVars, failed, main,
          serverVars>>

Server == INSTANCE ViewService WITH Shapes <- Shapes, NoShape <- Missing

Init ==
    /\ local = <<>> /\ phase = "prompt"
    /\ command = <<>> /\ code = <<>> /\ pc = 1 /\ bindings = <<>>
    /\ only = Missing /\ produced = FALSE /\ printed = <<>> /\ pushed = <<>>
    /\ failed = FALSE /\ main = "run"
    /\ Server!Init

-----------------------------------------------------------------------------
(* Compiling a command. *)

Bind(f, n, val) == [m \in DOMAIN f \cup {n} |-> IF m = n THEN val ELSE f[m]]

(* The session hides the standard library, whose names stand for 0 here.   *)
Lookup(n) == IF n \in DOMAIN local THEN local[n] ELSE 0

(* single_lookup() makes a name a Constant: the value it has by now. *)
Fold(e) ==
    IF e.ref = NoName THEN e ELSE [e EXCEPT !.ref = NoName, !.lit = Lookup(e.ref)]

Compiled(cmd) == [i \in DOMAIN cmd |-> [cmd[i] EXCEPT !.expr = Fold(@)]]

(* Only a session variable can be assigned. *)
Assignable(s) == s.op \in {"assign", "while"} => s.name \in DOMAIN local

(* Every name is defined, and no definition refers to itself. *)
Compiles(cmd) ==
    \A i \in DOMAIN cmd :
        /\ cmd[i].expr.ref \in DOMAIN local \cup Std \cup {NoName}
        /\ cmd[i].op = "define" => cmd[i].expr.ref # cmd[i].name
        /\ Assignable(cmd[i])

StartCommand == only' = Missing /\ produced' = FALSE

(* The Program is a local variable of the loop's body, which ends here; so *)
(* is the history of the output.                                           *)
ToPrompt ==
    /\ phase' = "prompt"
    /\ command' = <<>> /\ code' = <<>> /\ pc' = 1 /\ bindings' = <<>>
    /\ printed' = <<>> /\ pushed' = <<>>
    /\ UNCHANGED <<only, produced>>

ReadCommand(cmd) ==
    /\ phase = "prompt" /\ Compiles(cmd)
    /\ phase' = "exec" /\ failed' = FALSE
    /\ command' = cmd /\ code' = Compiled(cmd) /\ pc' = 1 /\ bindings' = <<>>
    /\ StartCommand
    /\ UNCHANGED <<local, printed, pushed, main, serverVars>>

RejectCommand(cmd) ==
    /\ phase = "prompt" /\ ~Compiles(cmd)
    /\ failed' = TRUE
    /\ UNCHANGED <<local, phase, commandVars, bindings, outputVars, main,
                   serverVars>>

-----------------------------------------------------------------------------
(* Executing it. *)

Statement == code[pc]
At(op) == phase = "exec" /\ pc \in DOMAIN code /\ Statement.op = op

(* Only a number can be added to. *)
Fails(e) == e.inc /\ e.lit \notin Numbers
Value(e) == IF e.inc THEN (e.lit + 1) % (Max + 1) ELSE e.lit

(* A statement throws; what the statements before it did is not undone. *)
Throw ==
    /\ phase = "exec" /\ pc \in DOMAIN code
    /\ Fails(Statement.expr)
    /\ ToPrompt /\ failed' = TRUE
    /\ UNCHANGED <<local, main, serverVars>>

(* REPL_Locative::store() writes the variable at once. *)
Assign ==
    /\ At("assign") /\ ~Fails(Statement.expr)
    /\ local' = Bind(local, Statement.name, Value(Statement.expr))
    /\ pc' = pc + 1
    /\ UNCHANGED <<phase, command, code, bindings, outputVars, failed, main,
                   serverVars>>

(* while (name < Max) name := name + 1; the condition is compiled, too. *)
While ==
    /\ At("while") /\ ~Fails(Statement.expr)
    /\ IF Statement.expr.lit < Max
       THEN /\ local' = Bind(local, Statement.name, Value(Statement.expr))
            /\ UNCHANGED pc
       ELSE pc' = pc + 1 /\ UNCHANGED local
    /\ UNCHANGED <<phase, command, code, bindings, outputVars, failed, main,
                   serverVars>>

Bug_DefineAtOnce ==
    /\ At("define") /\ ~Fails(Statement.expr)
    /\ bindings' = Bind(bindings, Statement.name, Value(Statement.expr))
    /\ local' = Bind(local, Statement.name, Value(Statement.expr))
    /\ pc' = pc + 1
    /\ UNCHANGED <<phase, command, code, outputVars, failed, main, serverVars>>

(* A definition initialises its slot of the module, not the session. *)
EvalDefinition ==
    /\ At("define") /\ ~Fails(Statement.expr)
    /\ bindings' = Bind(bindings, Statement.name, Value(Statement.expr))
    /\ pc' = pc + 1
    /\ UNCHANGED <<local, phase, command, code, outputVars, failed, main,
                   serverVars>>

Output(op, val) == [op |-> op, val |-> val]
Held == IF only = Missing THEN <<>> ELSE <<Output("value", only)>>

Bug_ForgetHeld == printed
Flushed == printed \o Held

(* The first output is held back: if it stays alone it may be a shape. *)
PushValue ==
    /\ At("value") /\ ~Fails(Statement.expr)
    /\ LET val == Value(Statement.expr)
       IN  /\ pushed' = Append(pushed, Output("value", val))
           /\ IF produced
              THEN /\ printed' = Append(Flushed, Output("value", val))
                   /\ only' = Missing /\ UNCHANGED produced
              ELSE only' = val /\ produced' = TRUE /\ UNCHANGED printed
    /\ pc' = pc + 1
    /\ UNCHANGED <<local, phase, command, code, bindings, failed, main,
                   serverVars>>

PushField ==
    /\ At("field") /\ ~Fails(Statement.expr)
    /\ LET field == Output("field", Value(Statement.expr))
       IN  /\ pushed' = Append(pushed, field)
           /\ printed' = Append(Flushed, field)
    /\ only' = Missing /\ produced' = TRUE
    /\ pc' = pc + 1
    /\ UNCHANGED <<local, phase, command, code, bindings, failed, main,
                   serverVars>>

-----------------------------------------------------------------------------
(* Ending it. *)

Bug_LastOutput == IF pushed = <<>> THEN Missing ELSE pushed[Len(pushed)].val
LastValue == only

(* end_command(): `_` is set before the value is known to be displayable. *)
EndCommand ==
    /\ phase = "exec" /\ pc > Len(code)
    /\ local' = IF LastValue = Missing THEN local ELSE Bind(local, "_", LastValue)
    /\ \/ /\ only \in Numbers \cup {Missing}
          /\ phase' = "define" /\ printed' = Flushed
          /\ UNCHANGED <<commandVars, bindings, only, produced, pushed, failed,
                         serverVars>>
       \/ /\ only = Broken
          /\ ToPrompt /\ failed' = TRUE
          /\ UNCHANGED serverVars
       \/ /\ only \in Shapes
          /\ phase' = "displaying"
          /\ Server!Call /\ call' = Server!Display(only)
          /\ UNCHANGED <<commandVars, bindings, outputVars, failed>>
    /\ UNCHANGED main

Displayed ==
    /\ phase = "displaying" /\ Server!Return
    /\ phase' = "define"
    /\ UNCHANGED <<local, commandVars, bindings, outputVars, failed, main>>

(* The definitions are added when nothing can fail any more. *)
Define ==
    /\ phase = "define"
    /\ ToPrompt
    /\ local' = [n \in DOMAIN local \cup DOMAIN bindings |->
                    IF n \in DOMAIN bindings THEN bindings[n] ELSE local[n]]
    /\ UNCHANGED <<failed, main, serverVars>>

Bug_EndWithoutExit ==
    /\ phase = "prompt"
    /\ phase' = "gone"
    /\ UNCHANGED <<local, commandVars, bindings, outputVars, failed, main,
                   serverVars>>

(* The end of the input. *)
EndOfInput ==
    /\ phase = "prompt"
    /\ phase' = "exiting" /\ Server!Call /\ call' = Server!Exit
    /\ UNCHANGED <<local, commandVars, bindings, outputVars, failed, main>>

Exited ==
    /\ phase = "exiting" /\ Server!Return
    /\ phase' = "gone"
    /\ UNCHANGED <<local, commandVars, bindings, outputVars, failed, main>>

ReplRuns ==
    \/ Throw \/ Assign \/ While \/ EvalDefinition \/ PushValue \/ PushField
    \/ EndCommand \/ Displayed \/ Define \/ Exited

(* The main thread. *)
ServerTakes ==
    /\ main = "run" /\ Server!Take
    /\ UNCHANGED <<local, phase, commandVars, bindings, outputVars, failed, main>>

Join ==
    /\ main = "run" /\ ~running /\ phase = "gone"
    /\ main' = "done"
    /\ UNCHANGED <<local, phase, commandVars, bindings, outputVars, failed,
                   serverVars>>

Finished == main = "done" /\ UNCHANGED vars

Next ==
    \/ \E cmd \in Commands : ReadCommand(cmd) \/ RejectCommand(cmd)
    \/ EndOfInput \/ ReplRuns \/ ServerTakes \/ Join \/ Finished

(* Both threads run; the user need not type anything. *)
Spec ==
    /\ Init /\ [][Next]_vars
    /\ WF_vars(ReplRuns) /\ WF_vars(ServerTakes) /\ WF_vars(Join)

-----------------------------------------------------------------------------
(* Properties. *)

(* REPL_Executor shows every value and field that a command generates,     *)
(* once and in order: the one it holds back is printed before the next, or *)
(* at the end, unless it is all there is and a shape: the viewer shows it. *)
OutputShown ==
    /\ phase = "exec" => pushed = printed \o Held
    /\ phase = "define" =>
         \/ printed = pushed
         \/ /\ printed = <<>> /\ pushed = <<Output("value", shape)>>
            /\ shape \in Shapes

(* `_` becomes the value of a command that generated this one value and    *)
(* nothing else, at its end.  No other step changes it, but the statement  *)
(* `_ := e` (or a loop over it), and the end of definitions among which    *)
(* there is one of `'_'`, which becomes what that definition says.         *)
LastValueSet ==
    /\ phase = "exec" /\ pc > Len(code)
    /\ pushed = <<Output("value", local'["_"])>>
AssignsLastValue == (At("assign") \/ At("while")) /\ Statement.name = "_"
DefinesLastValue ==
    /\ phase = "define" /\ "_" \in Defined(command)
    /\ local'["_"] = bindings["_"]
UnderscoreIsOnlyValue ==
    [][("_" \in DOMAIN local'
            /\ ("_" \in DOMAIN local => local["_"] # local'["_"]))
          => LastValueSet \/ AssignsLastValue \/ DefinesLastValue]_vars

(* "The bindings are added to the REPL environment": all of them when the  *)
(* last definition has a value, and none if one of them fails.             *)
DefinitionsTogether ==
    [][/\ IsDefinition(command) /\ phase = "exec" => local' = local
       /\ DOMAIN local' # DOMAIN local =>
            \/ phase = "exec" /\ DOMAIN local' = DOMAIN local \cup {"_"}
            \/ phase = "define" /\ Defined(command) \subseteq DOMAIN local']_vars

(* When the input ends the viewer is told, and both threads end.           *)
ExitEnds == (phase \in {"exiting", "gone"}) ~> (main = "done")

=============================================================================

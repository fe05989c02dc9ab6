---------------------------- MODULE RecursiveScope ----------------------------
(***************************************************************************)
(* Recursive_Scope (libcurv/definition.h, definition.cc): the definitions  *)
(* of a scope may refer to each other in any order.  Analysing a unit      *)
(* looks up the names it refers to, which analyses their units first; the  *)
(* initialisation actions come out in dependency order, and Tarjan's       *)
(* algorithm groups mutually recursive functions into one action.          *)
(*                                                                         *)
(* Units are numbered in source order.  A program says which units define  *)
(* functions and which units each one refers to; the order of the          *)
(* references within a unit is left open.                                  *)
(***************************************************************************)
EXTENDS Integers, Sequences, SequencesExt

CONSTANTS
    N,         \* the number of units_
    Programs   \* the programs: which units are functions, who refers to whom

Units == 1..N

ASSUME NAssumption == N \in Nat
ASSUME ProgramsAssumption ==
    Programs \subseteq [fun : SUBSET Units, refs : [Units -> SUBSET Units]]

VARIABLES
    program,        \* the definitions of the scope
    todo,           \* the references of each unit that are still to be met
    state,          \* Unit::state_
    ord,            \* Unit::scc_ord_
    low,            \* Unit::scc_lowlink_
    count,          \* scc_count_
    sccStack,       \* scc_stack_
    analysisStack,  \* analysis_stack_, which is also the C++ call stack
    actions,        \* executable_.actions_
    outcome         \* "running", "ok", or the message of the exception

vars == <<program, todo, state, ord, low, count, sccStack, analysisStack,
          actions, outcome>>
unitVars == <<state, ord, low, count>>

IsFunction(u) == u \in program.fun
Top == Last(analysisStack)

Init ==
    /\ program \in Programs
    /\ todo = program.refs
    /\ state = [u \in Units |-> "not_analysed"]
    /\ ord = [u \in Units |-> -1]
    /\ low = [u \in Units |-> -1]
    /\ count = 0
    /\ sccStack = <<>> /\ analysisStack = <<>> /\ actions = <<>>
    /\ outcome = "running"

-----------------------------------------------------------------------------
Throw(message) ==
    /\ outcome' = message
    /\ UNCHANGED <<program, todo, unitVars, sccStack, analysisStack, actions>>

(* The first half of analyse_unit(): the unit goes on both stacks. *)
Enter(u) ==
    /\ state' = [state EXCEPT ![u] = "in_progress"]
    /\ ord' = [ord EXCEPT ![u] = count]
    /\ low' = [low EXCEPT ![u] = count]
    /\ count' = count + 1
    /\ sccStack' = Append(sccStack, u)
    /\ analysisStack' = Append(analysisStack, u)
    /\ UNCHANGED <<program, actions, outcome>>

(* analyse() starts from each unit that no earlier one has reached. *)
AnalyseNext ==
    /\ outcome = "running" /\ analysisStack = <<>>
    /\ \E u \in Units :
        /\ state[u] = "not_analysed"
        /\ \A v \in Units : v < u => state[v] # "not_analysed"
        /\ Enter(u)
    /\ UNCHANGED todo

AnalyseDone ==
    /\ outcome = "running" /\ analysisStack = <<>>
    /\ \A u \in Units : state[u] # "not_analysed"
    /\ outcome' = "ok"
    /\ UNCHANGED <<program, todo, unitVars, sccStack, analysisStack, actions>>

Bug_UseLowlink(u, v) == low[u]

Lowlink(u, v) == IF ord[v] < low[u] THEN ord[v] ELSE low[u]

Bug_DataMayRecur(v) == FALSE

(* Only a function may be referred to while its analysis is in progress. *)
IllegalReference(v) == ~IsFunction(v)

(* The unit on top of the analysis stack meets a reference to v. *)
Lookup(v) ==
    /\ outcome = "running" /\ analysisStack # <<>> /\ v \in todo[Top]
    /\ todo' = [todo EXCEPT ![Top] = @ \ {v}]
    /\ CASE state[v] = "not_analysed" -> Enter(v)
         [] state[v] = "analysed" ->
              UNCHANGED <<program, unitVars, sccStack, analysisStack, actions,
                          outcome>>
         [] state[v] = "in_progress" /\ ~IllegalReference(v) ->
              /\ low' = [low EXCEPT ![Top] = Lowlink(Top, v)]
              /\ UNCHANGED <<program, state, ord, count, sccStack,
                             analysisStack, actions, outcome>>
         [] OTHER -> FALSE

LookupFails(v) ==
    /\ outcome = "running" /\ analysisStack # <<>> /\ v \in todo[Top]
    /\ state[v] = "in_progress" /\ IllegalReference(v)
    /\ Throw("illegal recursive reference")

Bug_WholeStack(u) == sccStack

(* What the action of u initialises: a function takes all the units on the *)
(* SCC stack from itself up with it.                                       *)
Group(u) ==
    IF ~IsFunction(u) THEN <<u>>
    ELSE LET i == CHOOSE i \in DOMAIN sccStack : sccStack[i] = u
         IN  SubSeq(sccStack, i, Len(sccStack))

(* make_setter() or make_function_setter(): the units that the action      *)
(* initialises, and the other ones whose values it captures.               *)
Setter(group) ==
    [units |-> group,
     reads |-> (UNION {program.refs[v] : v \in ToSet(group)}) \ ToSet(group)]

Below == analysisStack[Len(analysisStack) - 1]

(* u passes its lowlink on to the unit that referred to it, ... *)
Propagated(u) ==
    IF Len(analysisStack) > 1 /\ low[u] < low[Below]
    THEN [low EXCEPT ![Below] = low[u]] ELSE low

(* ... and throws if it is not a function. *)
RecursiveData(u) ==
    Len(analysisStack) > 1 /\ low[u] < low[Below] /\ ~IsFunction(u)

Bug_AlwaysRoot(u) == TRUE

(* `unit` is the lowest unit in its SCC. *)
IsRoot(u) == low[u] = ord[u]

AllFunctions(group) == \A v \in ToSet(group) : IsFunction(v)

(* The second half of analyse_unit(), after the definition was analysed. *)
Finish ==
    /\ outcome = "running" /\ analysisStack # <<>> /\ todo[Top] = {}
    /\ ~RecursiveData(Top)
    /\ low' = Propagated(Top)
    /\ analysisStack' = Front(analysisStack)
    /\ IF IsRoot(Top)
       THEN /\ IsFunction(Top) => AllFunctions(Group(Top))
            /\ actions' = Append(actions, Setter(Group(Top)))
            /\ sccStack' = SubSeq(sccStack, 1,
                                  Len(sccStack) - Len(Group(Top)))
            /\ state' = [v \in Units |-> IF v \in ToSet(Group(Top))
                                         THEN "analysed" ELSE state[v]]
       ELSE UNCHANGED <<actions, sccStack, state>>
    /\ UNCHANGED <<program, todo, ord, count, outcome>>

FinishFails ==
    /\ outcome = "running" /\ analysisStack # <<>> /\ todo[Top] = {}
    /\ \/ RecursiveData(Top) /\ Throw("illegal recursive reference")
       \/ /\ ~RecursiveData(Top) /\ IsRoot(Top) /\ ~AllFunctions(Group(Top))
          /\ IsFunction(Top)
          /\ Throw("recursive data definition")

Stopped == outcome # "running" /\ UNCHANGED vars

Next ==
    \/ AnalyseNext \/ AnalyseDone
    \/ \E v \in Units : Lookup(v) \/ LookupFails(v)
    \/ Finish \/ FinishFails \/ Stopped

Spec == Init /\ [][Next]_vars /\ WF_vars(Next)

-----------------------------------------------------------------------------
(* Properties. *)

(* v is reached from u by one reference or more. *)
Reaches(u, v) ==
    \A S \in SUBSET Units :
        (program.refs[u] \subseteq S /\
         \A w \in S : program.refs[w] \subseteq S) => v \in S

InCycle(u) == Reaches(u, u)

Initialised(n) == UNION {ToSet(actions[i].units) : i \in 1..n}

(* Slots are initialized in dependency order: an action reads no slot that *)
(* an earlier action has not initialised.                                  *)
DependencyOrder ==
    \A i \in DOMAIN actions : actions[i].reads \subseteq Initialised(i - 1)

(* Function_Setters are the strongly connected components: each action     *)
(* stands for the units that refer to each other, and for no others.       *)
ActionsAreComponents ==
    \A i \in DOMAIN actions : \A u \in ToSet(actions[i].units), v \in Units :
        v \in ToSet(actions[i].units) <=>
            v = u \/ (Reaches(u, v) /\ Reaches(v, u))

(* A scope is rejected if and only if a data definition depends on itself, *)
(* directly or by way of functions; an accepted one initialises each slot. *)
RejectsDataCycles ==
    /\ outcome = "ok" =>
         /\ Initialised(Len(actions)) = Units
         /\ \A u \in Units : InCycle(u) => IsFunction(u)
    /\ outcome \notin {"running", "ok"} =>
         \E u \in Units : InCycle(u) /\ ~IsFunction(u)

(* What is on the SCC stack is in progress, in the order of its analysis;  *)
(* what is there but no longer on the analysis stack leads to an earlier   *)
(* unit that is; and nothing is left there when analyse() is done.         *)
StackDiscipline ==
    /\ ToSet(sccStack) = {u \in Units : state[u] = "in_progress"}
    /\ \A i, j \in DOMAIN sccStack : i < j => ord[sccStack[i]] < ord[sccStack[j]]
    /\ ToSet(analysisStack) \subseteq ToSet(sccStack)
    /\ outcome = "running" =>
         \A u \in ToSet(sccStack) \ ToSet(analysisStack) :
            \E v \in ToSet(analysisStack) : ord[v] < ord[u] /\ Reaches(u, v)
    /\ outcome = "ok" => sccStack = <<>>

=============================================================================

# A TLA+ model of Curv

Curv is a programming language for making 2D and 3D shapes. The program `curv`
(directory `src/curv`) analyses and evaluates a program with the library
`src/libcurv`, compiles the resulting shape to a GPU program, and shows it in a
window or writes it to a file. This directory holds TLA+ modules that model
parts of it, TLC configurations that check them, and proofs that TLAPS checks.
`PROJECT.json` maps each definition to the source lines it stands for.

## The system: an inventory

| component | state | operations | interacts with | what is hard | what makes it correct |
|---|---|---|---|---|---|
| View server, `curv/view_server.h` | the request, its shape, a mutex, a condition variable, the window | `display_shape`, `exit` by the client thread; `run` in the main thread | REPL or live mode (client), viewer | two threads, one condition variable for both directions, an unlocked slot, time-outs, the user closing the window | no race, no lost wake-up, every call returns, shapes arrive in order |
| Viewer, `libcurv/viewer/viewer.cc` | window, shape, camera, pickers | open, draw_frame, set_shape, close | GLFW, OpenGL | events while a shape is replaced | a shape that was taken is shown |
| Live mode, `curv/livemode.cc` | file, its modification time, editor process | poll the file, poll the editor | editor process, file system, view server | the file changes while it is read; the editor ends at any time | the last save is displayed, the end of the editor ends curv |
| REPL, `curv/repl.cc` | session variables, the output of a command | read, compile, execute, display, define | analyser, evaluator, view server | failure half way through a command, values captured when a command is compiled | output is shown once, definitions appear together |
| Recursive scopes, `libcurv/definition.cc` | units with their SCC numbers, two stacks, the list of actions | analyse, look up a name | analyser (recursion through name lookup) | Tarjan's algorithm spread over mutually recursive calls | slots are initialised in dependency order, cycles through data are rejected |
| Analyser, `libcurv/analyser.cc` | environments, frame slots | one `analyse` per phrase class | scopes, patterns | frame slots shared by sibling scopes | a slot is not reused while it is live |
| Evaluator, `libcurv/evaluator.cc` | frames | `eval`, `exec`, `tail_eval` per operation | values, functions, tree | tail calls reuse frames | same result as the definition of the language |
| Patterns, `libcurv/pattern.cc` | frame slots | `exec`, `try_exec`, `sc_exec` | evaluator, shape compiler | a match that fails half way | slots are set only by a match |
| Tree indexing, `libcurv/tree.cc` | none | fetch and amend by index, path and slice | lists, records | nested paths and slices | what was put at an index is found there, and nothing else changes |
| Values, lists, records, `libcurv/value.h`, `list.cc`, `record.cc`, `module.cc` | reference counts | copy on write | everything | aliasing | a value never changes |
| Directory records and imports, `libcurv/dir_record.cc`, `import.cc` | active files, loaded fields | load a field, import a file | evaluator, file system | recursion through files, failure of an import | each file is evaluated once, recursion is reported |
| Shape compiler, `libcurv/sc_compiler.cc` | value cache, operation caches, frames | `sc_eval`, `sc_exec` per operation, constant lifting | analyser, GPU program | pure expressions are moved out of branches and loops | the compiled program computes what the interpreter computes |
| Output files, `libcurv/io/output_file.cc`, `curv/export.cc` | temporary file, target | open, write, commit, destroy | file system | failure or crash between the steps | the target is replaced in one step or not at all, and completely unless a write failed |
| Temporary files, `libcurv/io/tempfile.cc`, `cpp_program.cc` | list of registered files | register, deregister, remove at exit | C++ compiler | failure of the compiler | nothing is left behind but what an error message names |
| Pickers, `libcurv/picker.cc`, `viewed_shape.cc` | state of each control | set, reset, preserve | viewer | a new shape has other parameters | the user's settings survive a change of the shape |
| Scanner and parser, `libcurv/scanner.cc`, `parser.cc`, `phrase.h` | position, lookahead, the string around the position | get a token, push it back, one function for each level of precedence | analyser | tokens that one function leaves for another, strings inside of strings | the phrase is the one of the grammar, its location covers its tokens |
| Names and printed strings, `libcurv/string.cc`, `symbol.cc` | - | print a string, a name | scanner | the characters that mean something inside of a string | what is printed is read back |
| Array operations and types, `libcurv/prim.h`, `builtin.cc`, `sc_type.cc` | - | apply a scalar operation to arrays | evaluator, shape compiler, reactive values | rank and size, scalars that are lists, the same typing rule in several places | element by element; the type of a reactive result is that of the result |
| Reactive values, `libcurv/reactive.cc` | expression and type | every operation on values | pickers, shape compiler | code must be found for the expression later | its type is right |
| Meshers, encoders, graphics library | - | numerical code or I/O | - | - | - |

## Modules

`ViewService` is the abstract specification of the view server as its clients
see it. It has one call at a time, which the server takes exactly once before it
returns. `LiveMode` and `REPL` are composed with it (`Server == INSTANCE
ViewService`); `ViewServer` implements it.

`ViewServer` models `curv/view_server.h` with the part of `viewer.cc` it drives.
The state is that of the class `View_Server` (`request`, `requestShape`,
`mutex`, `waiters`, `lazy`, which `run()` sets from the configuration, one of `Modes`), the position of either thread (`client`, `server`),
the locals that matter (`job`, `id`, `exiting`) and the window (`viewShape`,
`window`, `events`, `drawn`). One action stands for what a thread does between
two points at which the other can interfere. Each use of the condition variable
is split into the test that blocks and the one that follows the wake-up; a
wait with a time-out of 0 tests its predicate twice (`TryReceive`,
`RetryReceive`). GLFW's event queue is a set, since a step of `draw_frame()`
takes all of it; `window = "closing"` is `glfwWindowShouldClose()`.

`LiveMode` models `curv/livemode.cc`. The environment writes the file in two
steps, removes it, advances the clock and ends the editor. `st` is the local
variable of `poll_file()`; what was written is represented by its number, even
when it is a complete version and odd when it is the beginning of one, and
`shapes` are the contents whose value is a shape: any of them, the half-written
ones included, since the code displays whatever it reads if it is a shape. A
file that does not exist has modification time 0, as after the `memset`. A read
of the file is one step: that the editor writes between two calls of `read()`
is left out.

`REPL` models `curv/repl.cc`. A command is a sequence of definitions or of
other statements; `ReadCommand` compiles it, which replaces every name by the
value the session has for it (`Fold`), and the other actions execute one
statement each. `pushed` is a history of what the command generated, `printed`
what was written on the console. A shape that cannot be compiled for the GPU is
the value `Broken`.

`RecursiveScope` models `Recursive_Scope` of `libcurv/definition.cc`. The C++
call stack of `analyse_unit` is `analysisStack`; `Lookup` is `single_lookup`,
which enters the unit it finds, and `Finish` is what follows the analysis of a
unit's definition. The program, which definitions are functions and who refers
to whom, is chosen in the initial state; the order in which a unit looks up its
references is left open, since it depends on the text of the definition.

`AtomicExport` is what `curv -o` promises: files that are replaced completely, one
after the other. `Export` is how it is done: several processes, each in the batch
mode of `main()`, with the temporary file of its `Output_File` (`temp`), the
files registered by `tempfile.cc` (`registered`). `disk` is the file system they
share; the data of a file carries the state of the stream that it was written to
(`stream`), which turns bad when a write fails. `Fill` is one write of the
exporter, whichever it is; `Close` is the destructor, after which an image
sequence goes on to the next frame; `Crash` can happen anywhere, and `Start` uses
the process id again, with its left-over files still there.

`Phrase` (the phrase tree), `Meanings` (the operation tree), `Analyser` and `Evaluator`
model the interpreter: `Analyse` has an operator for each `analyse` of
`analyser.cc` and threads the state of the environments (`env`, one record for each
`Environ`, with its slots, bindings and units) through them; `Eval`, `Exec` and
`TailEval` have one for each operation and thread the frame through them
(`fm`: slots, nonlocals, the number of frames in use, and `fault`, an exception or an access
outside of the frame). `Interpreter` is `Program`: compile, then evaluate.
`Language` is what the result is compared with, an interpreter with environments
and without slots or frames, `Mean`, and the rule for assignments, `Legal`, which
looks at the phrases alone. A recursive scope is analysed here with its bodies,
and in `RecursiveScope` with the order of the references left open. `Environs`
holds the operators that count the slots of a frame, for `Analyser` and for
`FrameSlots`, where environs are opened and closed without a program in every order
that the analyser may do it in; it is there to be proved about (see below).
The virtual functions of a module dispatch through one recursive operator (`Visit`,
`Perform`, `Interpret`; `Parse` in `Parser`): TLC's coverage statistics grow with
the number of recursive operators that call each other, and not with one.

`ShapeCompiler` models `libcurv/sc_compiler.cc`. An operation is a tree of
nodes, and a program, chosen in the initial state, a sequence of functions that
one `SC_Compiler` compiles one after the other (`DefineFunction` to
`EndFunction`). The mutually recursive `sc_eval_op`, `sc_eval` and `sc_exec` are
a stack of activations, `calls`. What the C++ function for an operation does is
a sequence of steps (`EvalSteps`, `ExecSteps`): one that compiles another
operation pushes an activation (`Begin`) and gets its register when it
returns (`Return`); the others write a line of code, bind a variable or enter
the frame of a function. `constants` and `body` are the two streams, and a line
stands at a block, which is the list of the lines that open the blocks around
it. `Scoping` is what the analyser has judged: each operation that is compiled
with the variables in scope there. It is a constant, since the analyser is not
part of this module, and `ScopingAssumption` says what makes a judgement right.

`CompiledShape` adds what compiled code computes: `Eval` is the interpreter
(`evaluator.cc`), `RunFrom` a processor that runs lines and blocks, and
`SameResult` compares the two.

`Scanner` models `get_token` and the state of the scanner, `Parser` the functions of
`parser.cc`, which pass that state on; `Literals` what is printed for strings and
names, and what the evaluator makes of such tokens. `Grammar` is what the
parser is compared with: a table of rules, the tokens that a phrase stands for, and
what it takes for a phrase to be derived. `DocumentedRules` are those of
`docs/language/Grammar.rst`, and `ParserRules` take their place where `parser.cc` is not what
that document says: the body of `=` and of `parametric` may have a `where`
(Grammar.rst:112 and :124 have a ritem), the condition of `if` need not be in
parentheses (:117), the pattern of `for` must be a primary (:119), `!` is an
infix operator and `@` a postfix one (neither is in the document), and `var x := y` is a
phrase of its own (:113). The properties are about the resulting table: they
show that the dozen functions of the parser together implement it, not that
Grammar.rst is right about these rules. `_` is an identifier of the scanner, which
Grammar.rst:25 lists among the reserved words. `Syntax` is the environment, which types words, builds phrases by the rules
or prints values, and has each text parsed.

`Values` defines values and the types that the shape compiler knows. `Tree` models
indexed assignment, `libcurv/tree.cc`: `Fetch`, `FetchSlice`, `Amend` and
`AmendSlice` are the four functions of that file, a case for a case; `PushBack`
and `Build` are the constructor of paths and slices. What they are compared with
is the meaning of an index: `Select` gives the place, or the structure of places,
that an index selects in a tree, and `Read` and `Write` read and replace what is
there. `ArrayOps` models the templates of `libcurv/prim.h`, which extend an
operation on scalars to arrays and to reactive values, with one operation for
each class of primitives there, the reductions, `dot`, `==`, `if` and indexing. A
reactive value is its type (`sctype_`) together with the type of the code that the
shape compiler makes of its expression. `ArrayProgram` is a program of one
variable, indexed, assigned to and computed with until something fails, and its
twin, which starts with a reactive value in place of a parameter; `PartAt` and
`LeafPaths` say what element-wise means without recursion over the operation.

Each module that models code holds the properties after the behaviour, and some
operators named `Bug_...`: variants of a definition of the model with a
plausible mistake, under which the property named in `PROJECT.json` fails.

## Runs

| run | module | properties | what it shows |
|---|---|---|---|
| `view_server` | `MCViewServer` | `TypeOK`, `NoShapeRace`, `ShapePresent`, `NoLostWakeup`, `DeliveredOnReturn`, `CallReturns`, `ExitStops`, `ImplementsService`, `EagerChangeIsDrawn` | Two threads hand shapes over through one slot while the window opens, closes and redraws, at every video frame or (-O lazy) when there is an event and the client posts empty ones every 10ms: no race, no lost wake-up, every call returns, and the handshake implements the atomic service. |
| `recursive_scope` | `MCRecursiveScope` | `DependencyOrder`, `ActionsAreComponents`, `RejectsDataCycles`, `StackDiscipline` | Every scope of three definitions, in every order of analysing their references: the initialisation actions come in dependency order, they are the strongly connected components, and exactly the cycles through data are rejected. |
| `live_mode` | `MCLiveMode` | `UnchangedIsShown`, `LastSaveDisplayed`, `EditorEndsCurv` | The user saves and removes the file, and quits the editor, at any time; the file may be read when it is half written, and what is there may be a shape: what stays in the file gets to the viewer, an unchanged time means that it has, and the end of the editor ends curv, provided no two writes fall into the same second. |
| `repl` | `MCREPL` | `OutputShown`, `UnderscoreIsOnlyValue`, `DefinitionsTogether`, `ExitEnds` | Commands that mix output, assignments, definitions and failures, in any sequence: all output is shown once, `_` is the last value unless a command sets it itself, definitions are added together or not at all, and the end of the input ends both threads. |
| `export` | `MCExport` | `NoPartialFile`, `NothingLeftBehind`, `ImplementsAtomicExport` | Two processes export to the same files, with and without a C++ compilation, and fail (also, unnoticed, for lack of space) or are killed at any step: each target is replaced in one step, by data that is complete unless a write of it failed, or not at all; and temporary files go. |
| `interpreter` | `MCInterpreter` | `FramesCoverSlots`, `SameResult`, `LegalAssignments`, `TailCallsReuseFrame` | Some 8400 programs, which combine definitions, statements, loops, patterns, closures, records and assignments in every place, are analysed and evaluated: the slots and frames compute what an interpreter with environments computes, and fail where it fails; every slot is in its frame; an assignment is accepted exactly where the language allows it; calls in tail position use one frame. |
| `interp_for_frame` (violation) | `MCInterpreter` | `FramesCoverSlots` | A loop over a list whose expression has more variables than the loop: the frame is made too small, and a slot outside of it is written. |
| `shape_compiler` | `MCShapeCompiler` | `DefinedBeforeUse`, `ConstantsAreUniform`, `SameResult` | Programs of two functions with branches, loops, local variables and calls: each register is declared before its use although pure operations are moved to the front and shared, and the compiled functions return what the interpreter returns. |
| `syntax` | `MCSyntax` | `DerivedByGrammar`, `GrammarIsParsed`, `LocationsSpanPhrases`, `PrintedIsReadBack`, `TokensAreLongest` | Texts of up to six words, all phrases with two operators and many with three, characters that make up tokens and strings, and printed values: the parser accepts what the grammar derives (that of Grammar.rst, except for the rules where parser.cc departs from it: ParserRules), finds the phrase that it should, computes locations that cover the tokens of each phrase, and reads back what is printed, but for dollar signs before line ends and names that are keywords. |
| `syntax_dollar` (violation) | `MCSyntax` | `PrintedIsReadBack` | A string in which a dollar sign comes before a newline is printed as a literal that has another value. |
| `tree` | `MCTree` | `FetchSelects`, `AmendReplaces`, `IndexLaws`, `ArraysBroadcast`, `TwinHasType` | A variable with a tree up to three levels deep is indexed and assigned to with numbers, symbols, lists, paths and slices of one another, and computed with; its twin starts as a reactive value: an index selects what the language says, an assignment replaces that and nothing else, operations on arrays are those on scalars, and the type of a reactive value is that of the value it stands for. |
| `reactive_dot` (violation) | `MCTree` | `TwinHasType` | The product of a reactive vector and a matrix has the type of the matrix. |

## Bounds, and why they are enough

* ViewServer: two shapes. The code never compares shapes, so that one is
  enough to have a call and two to tell an old shape from a new one. There is no
  bound on the number of calls, events or wake-ups: the state space is finite
  without one.
* RecursiveScope: three definitions, all 4,096 programs. A cycle through a unit
  that another cycle shares, a chain into a
  cycle and a cycle through data and functions all need no more.
* LiveMode: two saves, a clock of five seconds, and no two writes in the same
  second (`DistinctTimes`; with FALSE `LastSaveDisplayed` fails, since
  `livemode.cc:204` compares whole seconds). The properties relate a save to
  the one before it. Each save is seen half written, too, with every choice of
  which contents are shapes. The clock stops at `MaxTime` (`Tick`), after which a save
  cannot begin if times must be distinct.
* REPL: two names that can be defined, one of which hides a name of the
  library, and `_`, which commands may assign and define, too; numbers modulo 3,
  commands of at most three statements. Output
  handling looks at one output and the one before it.
* Export: two processes, two files, two parts in a file, two starts (a process and
  a concurrent one, or a process and its successor with the same id), two values of
  `clock()` (one for the left-over, one for the new file). Processes and clock
  values are symmetric. The check was repeated with three starts (2.5 million states).
  With `space = "short"` a write may fail, which nobody notices: then the target is
  replaced by data that is cut off. `NoPartialFile` and `AtomicExport` (`Cut`) allow
  that for an export of which a write has failed, and for no other; everything else
  they claim holds on such a disk too.
* Interpreter: families of programs (`MCPrograms`), each of which puts every member of a
  list of phrases into every place of a few frames: blocks with definitions that use
  each other, pairs of statements in loops, comprehensions, patterns against
  values, closures over variables that change, records with fields that use each
  other, assignments under three nested constructs of ten kinds, metafunctions,
  and functions that call themselves last. A slot is given away and used again
  within one such combination, and an assignment is legal or not by what is around it.
  `frames` bounds the frames of the tail calls, which call themselves up to seven times.
  Four sets of programs that are known to fail have a name of their own and no place in
  `MCPrograms`: `OverflowPrograms`, which `interp_for_frame` checks, `ClobberPrograms`,
  `RollbackPrograms` and record patterns as cases of a `match` (see `hazards`). A program
  ends, so that deadlock is not checked in this configuration.
* ShapeCompiler: functions of one number with one variable that is assigned and
  one that is not, and two or three statements: a definition, two statements
  that can be branches or loops with a branch inside, and a result. That covers each pair of
  a place where a pure operation is first met (before, inside a branch, inside a
  loop, in a called function, in the function before) and a place where it is met again. Compiled
  loops are cut after `MaxIterations`, more than any loop of the interpreter
  needs, and then count as hung. `MCScoping` judges the operations of the
  programs down to the sixth level, which is below their leaves.
  The programs leave out what the compiler is known to translate differently: a
  variable defined as the value of one that is assigned later
  (`AliasPrograms`), an assigned `for` variable (`ForPrograms`: `pattern.cc:78` binds it
  to the loop counter), a descending or inexact range (`RangePrograms`:
  `sc_compiler.cc:947` compares with `<=` whatever the step), and assignments in the
  arms of a conditional expression (`IfPrograms`: `sc_compiler.cc:896` evaluates
  both). `SameResult` fails for each of these sets of `MCShapeCompiler` when a
  configuration names it. A library function applied to constants
  (`CallPrograms`) is left out too (`NoPureCalls`, which the run also checks of its programs): the call is pure, the body of the
  function is not, and the operation around the call is computed before it.
* Syntax: up to six words of alphabets whose words compete for their operands, phrases
  with each rule in each operand of another, and three deep for the rules that can end
  where another goes on, characters that make up numerals, operators, comments and strings, values
  of up to four characters, 420,000 texts in all. Precedence is a matter
  of two operators, and of three where an `else` or `where` is shared. No value
  has a dollar sign before a line end (`AvoidedPairs`), since `syntax_dollar` fails. Names that
  are keywords (`AvoidedNames`) are typed, printed and parsed, but not expected to be read
  back: the code prints `{'if':1}` as `{if:1}`, which the parser rejects, although
  Strings.rst:62 promises that what is printed reproduces the value. Of
  the characters that are escaped as `$[n]`, carriage return stands for all.
* Tree: eight trees of up to three levels with lists, strings and records, three
  parameters, five values to assign, and 153 indexes: each constructor applied to each pair of simple
  indexes and to lists of them, and two levels of paths and slices. Numbers are -1,
  0, 1 and 2, both sides of the ends of the lists. Whether an index that selects an element twice
  is an error, and what is then left of it, is not specified; those are excluded (`Disjoint`).
  Two computations in a row (three in `reactive_dot`) with numbers up to 2 and arrays
  up to rank 2 on eleven operands: scalars, vectors of equal and different
  sizes, a matrix, a Bool32 and a vector of them, a string. A Bool32 has five bits
  (`WordSize`), since four would be a vector of the shape compiler. `and` and
  products of a vector and a matrix are left out of the passing run
  (`MixedProducts`), because `TwinHasType` fails for them.

## Fairness

* ViewServer: either thread is scheduled (weak fairness of `Send`, `TimeOut`,
  `ServerRuns`), and the server's attempts to lock succeed now and then (strong
  fairness of `ServerLocks`): in lazy mode the client takes the mutex again and
  again, but releases it for 10ms each time, so that an operating system with a
  reasonable mutex lets the server in. A wake-up without notification is
  possible and never assumed. Nothing is assumed about the user.
* LiveMode: both threads run, the clock advances and a save that has begun is
  completed. The user need not save, remove or quit.
* REPL: both threads run. The user need not type.
* RecursiveScope: the analysis goes on.
* None of the other modules states fairness: their properties are about each state or step.

## Proofs

`ViewServer_proofs` proves, for every set of shapes, with and without `-O lazy`,
the safety of the handshake. The invariants of the runs are not inductive: that
the slot holds the shape of the call while the server takes it depends on where
the client is, which depends on the request, which depends on where the server
is. The inductive invariant `IInv` is the conjunction of `TypeOK` and

* what the client's position says of `request`, `job` and `mutex`: in
  particular a request is pending only between `StoreRequest` and the reply;
* what the server's position says of `mutex`, `id`, `request` and the slot: it
  holds the mutex from the moment it sees a request up to the reply;
* who may be in `waiters`, which gives `NoLostWakeup`.

`TypeStep` and `HandshakeStep` show that a step preserves it, with one step of
the proof per action. `Invariance` follows with the temporal rule, and the four
invariants `TypeOK`, `NoShapeRace`, `ShapePresent` and `NoLostWakeup` follow
from it. `ReturnStep` is the action property `DeliveredOnReturn`. `InitRefines`
and `StepRefines` map the initial states and each step to `ViewService`, from
which `ServiceSafety` follows. The assumptions are those of the module: the
empty shape is not a shape, and `Modes` are Booleans.

`RecursiveScope_proofs` proves Tarjan's algorithm the way `analyse_unit()` runs
it, interleaved with the analysis, for any number of definitions, any program
and any order of the references. No property of the run is inductive by itself:
that an action reads only what is initialised depends on the lowlinks, which
depend on the two stacks. The inductive invariant `IInv` says that

* both stacks are sorted by `scc_ord_`, the SCC stack holds what is in progress,
  and an active unit (one on the analysis stack) leads to those above it
  (`StacksInv`, `MetInv`);
* each pending unit u (on the SCC stack) is held by the active unit v that was
  entered last before it: u and v lead to each other, and the lowlink of v is
  no greater than that of u and than the order of any pending unit that u has
  referred to so far (`Holds`, `HeldInv`);
* a lowlink is the unit's own order or that of a pending *function* it leads
  to, and is below its own order if the unit has left the analysis stack
  (`LowInv`); a reference that was met never goes back to pending *data*
  (`MetInv`);
* each action is a component, closed under what earlier ones have initialised
  (`ActionsInv`), and an exception comes with a cycle through data.

`EnterStep`, `MeetStep`, `WaitStep` and `RootStep` are the four things that a
step does to this: a unit goes on the stacks, a reference to an earlier unit
lowers a lowlink, a unit that is not the lowest stays behind, a root takes its
component away. `DataRoot` shows that nothing is above a data definition that is
a root, without which the code's pop of a single unit would be wrong. The four
properties of the run follow: `Ordered`, `Stacks`, `Components`, `Rejection`.

`LiveMode_proofs` follows the contents of the file from `stat()` to the frame:
what is read, sent, taken and shown was written before and is a shape, and stays
so whatever the user saves, truncates or removes meanwhile; and what is on its
way is never older than what is shown (`ShownAsWritten`). A half-written file can
be shown, and stays in the viewer if the complete version is no shape; what is
proved is that it does not hide one (`NothingIsMissed`). A second part of the
invariant ties the two threads, the call and the editor together (`ProtocolInv`):
live mode stops only after the editor has, and then completely (`StopsWithEditor`).
`NothingIsMissed` is the safety part of `LastSaveDisplayed`: when the comparison of
times finds the file unchanged, its complete version was evaluated, and is in
the viewer if it is a shape. This rests on
`DistinctTimes`, and TLC finds it false without; the invariant (`TimesInv`, `SeenInv`) is
that a version which is completed is newer than anything that `stat()` has reported, so that
equal times mean that the version in the file is the one that was read.

`REPL_proofs` proves for any commands, names and numbers that output is shown
once, `_` is set by a command with one value only or by one that assigns or
defines it by name, and definitions appear together. The invariant relates what was generated, what was printed and what
is held back (`OutputInv`), ties the call of the view server to the value that
is shown (`ServerInv`), and says which names are bound when (`DefinitionInv`).
Its second part (`ThreadInv`) gives that the shape in the viewer is `_`
(`ViewerIsUnderscore`) and that no variable is lost or changed which the command
does not name (`OnlyNamedVariablesChange`).

Both `LiveMode_proofs` and `REPL_proofs` show `ObeysService`: each step of the
composition is, on the variables of the view server, a step of `ViewService` or
none, and the guards of `ViewService` hold wherever the client calls
(`CallAccepted`). So the composition takes no behaviour away from the clients, and
as `ViewServer` implements `ViewService` (`ServiceSafety`), what is proved of the
clients rests on nothing of the server but its safety specification.

`Export_proofs` proves, for any processes, jobs, sizes of files and at any point
of failure or death, that a target holds what it held before or one process's
export to it, cut off only where a write of that export has failed (`WholeFiles`),
that a process which ends by itself leaves what its message names and nothing else
(`NothingIsLeft`), and that the whole implements `AtomicExport` (`Refinement`). The
contract promises complete data only where every write can be relied on: `commit()`
does not look at the state of the stream.
The invariant says which temporary files a process holds at each position and
what they contain; `Locality` shows that a step leaves the other processes'
files alone. This needs `PathsAssumption`: temporary paths are apart from the
targets and carry the process id. Where a user gives such a name to a target
the code gives no guarantee either.

`ShapeCompiler_proofs` proves for programs of any number and size in which no call
is taken for pure (`NoPureCalls`), however deep their operations and calls are nested, that a compiled function uses a
register only after its declaration and inside of its block
(`UseFollowsDeclaration`), and that its constants never read the parameter
(`UniformConstants`). What is promised of a finished function says nothing of
one that is being compiled, when registers are held in caches, in variables and
in activations that wait. The inductive invariant `Inv` is the conjunction of
`TypeOK` and

* `CodeInv`: the code written so far keeps the rules, registers are declared
  once and are below `valcount`, and the constants read constants only;
* `CacheInv`: what a cache holds was declared in the constants, from where it
  can be read at any place;
* `CallsInv`: the block that an activation writes to has not ended, and the
  registers that it holds and those of the variables in scope can be used there;
* `NestingInv`: an activation was begun by the one below it, as a step of its
  task; the outer of two activations stands at a block around the inner one,
  and sees no variable of its frame that the inner one does not see: what was
  usable outside stays usable when the inner block ends;
* `TopInv`: the destination of the code is that of the innermost task,
  although `Set_Purity` sets and restores one flag;
* `ObjectsInv`: the finished functions are right.

One group of lemmas says how usability carries over when a line is added, a
block is opened, or a place is inside of another (`BodyLine`, `ConstantLine`,
`UsableInside`, `OpenNew`); `Gets`, `Writes` and `Opens` are the three kinds of
steps of an activation, and `BeginKeeps`, `ReturnKeeps` the nesting. The proof
rests on `ScopingAssumption`, which is about what the analyser accepts: it resolves a
name only to a variable in scope, gives no slot away twice (`Scope::add_binding`,
which also rejects a second definition of a name), and takes a local definition only as an
item of a compound statement or of a `do` (`analyse_stmt`; `Local_Phrase::analyse`
rejects all others). The last is needed: a definition that were a branch of its own would
leave behind a variable in a register of a block that has ended.
`NoPureCalls` is no assumption of the module but a premise of each of the four
theorems: everything that is taken for pure is made of constants, operators and
conditionals alone. The code does not see to that. `Call_Expr::pure_` takes a call
with a constant function and a pure argument for pure, and for such a program the
properties fail (see the bounds), so the theorems say nothing of it.
TLC found the six parts after `TypeOK` true in all 43,131 states of a smaller
set of programs (`TypeOK` ranges over sets that cannot be enumerated).

`FrameSlots_proofs` is about the slots of one frame. `FrameSlots` makes a machine of
the two operators with which `Analyser` counts slots (`Environs`): scopes are opened and
end, and variables are added, in every order that the recursion of the analyser
can bring about. There is no program in it, which makes it provable; what a program does to
the slots is checked by the run `interpreter`. The properties are

* `SlotsDiffer`: a variable never shares a slot with one of a scope around its own. For this
  each scope has made exactly the slots after those of its parent, which makes
  none meanwhile (`SlotsInv`), since the scope that makes slots is the last one;
* `FrameIsLargeEnough`: each slot that was made is counted by a scope that has not ended
  (`CoverInv`), unless an environ has lost a `frame_maxslots_` on the way: the assignment
  at the end of a scope overwrites that of the parent;
* `NestingSuffices`: nothing is lost as long as each scope is opened in the last one. Then
  the scopes are a chain in which an inner one has never counted less than an outer one
  (`NestInv`). So the finding of `interp_for_frame` has exactly the causes that it
  names: `for`, and analysis on demand;
* `NoSlotIsWasted`: what is counted was made (`TightInv`).

TLC found these four true in the 2.8 million states with at most five environs of four
slots, and that a slot does get lost without the condition of either of the two in
the middle. Exceptions that are caught half way through a scope are not part of it.

Every assumption is a named ASSUME of the module it is about, and holds in the
instances that TLC checks.

`TypeCorrect` states the type invariant of each of the seven machines.

Only model-checked: every liveness property (`CallReturns`, `ExitStops`, `EagerChangeIsDrawn`,
`LastSaveDisplayed`, `EditorEndsCurv`, `ExitEnds`, and the fairness part of
`ImplementsService`), since neither fairness nor ENABLED is within reach of the provers;
and what the language modules state (`Interpreter`, `Syntax`, `Tree`, `ArrayProgram`,
and `SameResult` of `CompiledShape`). These compute recursively over programs, phrases,
values and code with RECURSIVE operators, which the provers cannot expand, and their
properties need induction over data, which is out of reach, too.

## What the checks found

The runs that expect a violation show disagreements between the code and what
its documentation, comments or assertions say of it. Each is described under
`findings` in `PROJECT.json`.

* `interp_for_frame` (`libcurv/analyser.cc:1104`): For_Phrase::analyse makes its scope before it analyses the list in the outer environment, and at the end sets frame_maxslots_ to that of the scope, which drops the slots that the list needs (`env.frame_maxslots_ = scope.frame_maxslots_`); src/libcurv/frame.h:90 asserts of every slot "assert(i < size_)". The same assignment ends a block (analyser.cc:532, 580), a do (514), a listing (904) and the definitions of a Recursive_Scope (definition.cc:247), and drops what the environment has got meanwhile from a definition that was analysed on demand from inside of the scope: `let a = let t = b in t; b = let x=1; y=2; i=3 in [x,y,i] in a` has a frame of three slots and writes to the fifth.
* `syntax_dollar` (`libcurv/scanner.cc:91`): After a `$` that starts no substitution, ScanString goes on with the next character; when that is a newline, the newline token also takes the `$`, which is lost from the value (scanner.cc:91-99). So "$<newline>" is printed without an escape (string.cc:98-102) and read back without its dollar sign. src/docs/language/Strings.rst:192 says "A ``$`` character that is not followed by ``_``, ``{``, ``(``, ``[`` or an alphabetic character is treated literally", and :62 that repr constructs "an expression that, when evaluated, reproduces the original value".
* `reactive_dot` (`libcurv/builtin.cc:907`): F_dot::dot gives the reactive product of a vector and a matrix the type of the matrix, in either order (`rty = bty` for a vector on the left, `rty = aty` for one on the right), where sc_tuple_call at line 854 gives that of the vector; the comment at src/libcurv/builtin.cc:897 says "This is copied and modified from F_dot::sc_tuple_call. The code ought to be identical in both cases."

## Not modelled

* GLFW failures: `Viewer::initGL` ends the process when it cannot make a window.
* Pseudo-terminal handling, completion and colouring in the REPL; interrupts
  (`was_interrupted` is set and never read by the evaluator).
* Reference counts shared by two threads (`shared.h:137`).
* Arithmetic: numbers are small integers (`Num`); rounding, infinities and the values of the
  functions of a real number are out of the reach of TLC. Each class of operators
  and of builtins has one or two representatives, since the members of a class
  share all code but the arithmetic.
* Directory records and imports, pickers and the HUD, and the text of the GPU program:
  their state is that of files, controls and text that no model of this project has yet.
* The components with status `not_modelled` in `PROJECT.json`, each with its reason.

## Plan

Done: the items of the section on modules. The next ones, in order of importance:

1. Directory records and imports (`dir_record.cc`, `import.cc`): lazy loading, recursion through files and failure of an import, composed with `Interpreter`.
2. Pickers and the HUD (`picker.cc`, `viewed_shape.cc`), composed with the view server.
3. `ShapeCompiler`: lists, indexing, `let` blocks and reactive values, with the types of `ArrayOps`.
4. `Interpreter`: type values, string templates, native functions with several arguments, error contexts.
5. Proofs: `FrameSlots` with exceptions that are caught half way, and with the frames of nested functions.

---------------------------- MODULE Interpreter ----------------------------
(***************************************************************************)
(* A program from its phrase to its value (libcurv/program.cc): it is      *)
(* analysed, and then its operation is evaluated in a frame, or it is      *)
(* rejected.  The value is compared with the meaning that Language gives   *)
(* the phrase.                                                             *)
(***************************************************************************)
EXTENDS Phrase, SequencesExt, FiniteSets

CONSTANTS
    Programs,       \* records [phrase, frames]: at most `frames' frames at once
    Builtins,       \* the values of the builtin names
    SymbolOrder     \* the field names in the order of Symbol_Ref::cmp

VARIABLES
    program,    \* Program::phrase_, and the frames it should do with
    compiled,   \* Program::meaning_ and the size of Program::frame_
    result,     \* what Program::eval has returned, and the frame it ended in
    stage

vars == <<program, compiled, result, stage>>

A == INSTANCE Analyser
E == INSTANCE Evaluator
L == INSTANCE Language

NoProgram == [op |-> [k |-> "none"], isModule |-> FALSE, nslots |-> 0, error |-> ""]
NoResult == E!Value(Missing, E!Frame(0, 0))

Init ==
    /\ program \in Programs
    /\ compiled = NoProgram
    /\ result = NoResult
    /\ stage = "parsed"

\* Program::compile
CompileProgram ==
    /\ stage = "parsed"
    /\ compiled' = A!Compile(program.phrase)
    /\ stage' = IF compiled'.error = "" THEN "compiled" ELSE "rejected"
    /\ UNCHANGED <<program, result>>

\* Program::eval
EvalProgram ==
    /\ stage = "compiled"
    /\ result' = E!Run(compiled)
    /\ stage' = IF E!Faulty(result'.fm) THEN "failed" ELSE "evaluated"
    /\ UNCHANGED <<program, compiled>>

Next == CompileProgram \/ EvalProgram
Spec == Init /\ [][Next]_vars

-----------------------------------------------------------------------------
(* Properties.                                                             *)

Ended == stage \in {"evaluated", "failed"}

\* What can be seen of a value: a function only shows that it is one.
RECURSIVE Visible(_)
Visible(v) ==
    CASE IsFun(v) -> "function"
      [] IsList(v) -> List([i \in DOMAIN v.list |-> Visible(v.list[i])])
      [] IsRec(v) -> Rec([n \in DOMAIN v.rec |-> Visible(v.rec[n])])
      [] OTHER -> v

\* The slots, frames, setters and closures of the compiled program compute the
\* value that the phrase means, and fail where it means none.
SameResult ==
    Ended => LET meaning == L!Mean(program.phrase, Builtins)
             IN IF meaning = L!Err THEN stage = "failed"
                ELSE stage = "evaluated" /\ Visible(result.v) = Visible(meaning)

\* The analyser makes each frame as large as the slots used in it, and evaluation
\* never reads a slot that its frame does not have or that is not set yet.
FramesCoverSlots == result.fm.fault \notin E!Internal

OtherErrors == {"illegal recursive reference", "recursive data definition",
                "definitions cannot be mixed with statements", "must be called with an argument"}

\* The depth that the analyser counts accepts an assignment exactly where the
\* variable belongs to a statement around it, with no expression in between.
LegalAssignments ==
    stage # "parsed" /\ compiled.error \notin OtherErrors
        => (stage = "rejected" <=> ~L!Legal(program.phrase, {}))

\* However often a function calls itself last, the calls share one frame.
TailCallsReuseFrame == Ended => result.fm.peak <= program.frames
=============================================================================

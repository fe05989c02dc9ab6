------------------------------- MODULE Grammar ------------------------------
(***************************************************************************)
(* What the parser should do: the grammar as a table, the phrases that it  *)
(* derives, and the tokens that a phrase stands for.  The table says what  *)
(* kind of operand each operator takes; nothing in it is read from left to *)
(* right.  It is the surface grammar of docs/language/Grammar.rst, but for *)
(* the rules in which the parser departs from it (ParserRules): there it   *)
(* is the grammar that parser.cc implements, by intention, as its comments *)
(* at the rules say.  So nothing here shows that the two grammars agree;   *)
(* they do not, as each of the ParserRules says.                           *)
(***************************************************************************)
EXTENDS Parser, TLC, SequencesExt

\* From the tightest to the loosest; a phrase of a level is also one of every later level.
Levels == <<"primary", "postfix", "power", "product", "sum", "relation", "conjunction",
            "disjunction", "pipeline", "ritem", "item", "optitem", "listing">>
Rank == [l \in ToSet(Levels) |-> CHOOSE i \in DOMAIN Levels : Levels[i] = l]

T(token) == [token |-> token]
N(i, level) == [operand |-> i, level |-> level]
Rule(level, form) == [level |-> level, form |-> form]

InfixRules(k, ops, level, left, right) ==
    [key \in {<<k, op, 2>> : op \in ops} |-> Rule(level, <<N(1, left), T(key[2]), N(2, right)>>)]
PrefixRules(k, ops, level, arg) ==
    [key \in {<<k, op, 1>> : op \in ops} |-> Rule(level, <<T(key[2]), N(1, arg)>>)]
DelimitedRule(k, open, close, level) ==
    <<k, open, 1>> :> Rule(level, <<T(open), N(1, "listing"), T(close)>>)

If(condition) ==
    <<"If_Phrase", "if", 2>> :> Rule("ritem", <<T("if"), N(1, condition), N(2, "ritem")>>)
 @@ <<"If_Phrase", "if", 3>> :>
        Rule("ritem", <<T("if"), N(1, condition), N(2, "ritem"), T("else"), N(3, "ritem")>>)
For(pattern) ==
    <<"For_Phrase", "for", 3>> :>
        Rule("ritem", <<T("for"), T("("), N(1, pattern), T("in"), N(2, "ritem"), T(")"),
                        N(3, "ritem")>>)
 @@ <<"For_Phrase", "for", 4>> :>
        Rule("ritem", <<T("for"), T("("), N(1, pattern), T("in"), N(2, "ritem"),
                        T("until"), N(3, "ritem"), T(")"), N(4, "ritem")>>)
Let(ops, body) ==
    [key \in {<<"Let_Phrase", op, 2>> : op \in ops} |->
        Rule("ritem", <<T(key[2]), N(1, "listing"), T("in"), N(2, body)>>)]

\* Grammar.rst:98-159, by class, operator and number of operands.
DocumentedRules ==
    InfixRules("Where_Phrase", {"where"}, "item", "ritem", "ritem")
 @@ InfixRules("Recursive_Definition_Phrase", {"="}, "ritem", "pipeline", "ritem")
 @@ InfixRules("Assignment_Phrase", {":="}, "ritem", "pipeline", "ritem")
 @@ InfixRules("Assoc_Phrase", {":"}, "ritem", "pipeline", "ritem")
 @@ InfixRules("Lambda_Phrase", {"->"}, "ritem", "pipeline", "ritem")
 @@ InfixRules("Call_Phrase", {"<<"}, "ritem", "pipeline", "ritem")
 @@ InfixRules("Binary_Phrase", {"||"}, "disjunction", "disjunction", "conjunction")
 @@ InfixRules("Binary_Phrase", {"&&"}, "conjunction", "conjunction", "relation")
 @@ InfixRules("Binary_Phrase", {"==", "!=", "<", "<=", ">", ">="}, "relation", "sum", "sum")
 @@ InfixRules("Range_Phrase", {"..", "..<"}, "relation", "sum", "sum")
 @@ InfixRules("Binary_Phrase", {"+", "++", "-"}, "sum", "sum", "product")
 @@ InfixRules("Binary_Phrase", {"*", "/"}, "product", "product", "power")
 @@ InfixRules("Binary_Phrase", {"^"}, "power", "postfix", "power")
 @@ InfixRules("Dot_Phrase", {"."}, "postfix", "postfix", "primary")
 @@ PrefixRules("Unary_Phrase", {"..."}, "ritem", "ritem")
 @@ PrefixRules("Include_Phrase", {"include"}, "ritem", "ritem")
 @@ PrefixRules("Test_Phrase", {"test"}, "ritem", "ritem")
 @@ PrefixRules("Local_Phrase", {"local"}, "ritem", "ritem")
 @@ PrefixRules("Unary_Phrase", {"+", "-", "!", "var"}, "power", "power")
 @@ DelimitedRule("Paren_Phrase", "(", ")", "primary")
 @@ DelimitedRule("Bracket_Phrase", "[", "]", "primary")
 @@ DelimitedRule("Brace_Phrase", "{", "}", "primary")
   \* The first operand is the function.
 @@ <<"Call_Phrase", "missing", 2>> :> Rule("postfix", <<N(1, "postfix"), N(2, "primary")>>)
 @@ [key \in {<<"Call_Phrase", ">>", 2>>, <<"Predicate_Assertion_Phrase", "::", 2>>} |->
        Rule("pipeline", <<N(2, "pipeline"), T(key[2]), N(1, "disjunction")>>)]
 @@ <<"Call_Phrase", "?", 3>> :>
        Rule("pipeline", <<N(2, "pipeline"), T("?"), N(1, "postfix"), T("?"), N(3, "disjunction")>>)
 @@ [key \in {<<"Range_Phrase", "..", 3>>, <<"Range_Phrase", "..<", 3>>} |->
        Rule("relation", <<N(1, "sum"), T(key[2]), N(2, "sum"), T("by"), N(3, "sum")>>)]
 @@ If("parens")
 @@ For("ritem")
 @@ <<"While_Phrase", "while", 2>> :> Rule("ritem", <<T("while"), N(1, "parens"), N(2, "ritem")>>)
 @@ Let({"let", "do", "parametric"}, "ritem")

\* Where parser.cc departs from it.
ParserRules ==
   \* Grammar.rst:112 `pipeline = ritem': parse_ritem() takes an item (NOTE at parser.cc:354),
   \* so that a `where' belongs to the definition and not the definition to the `where'.
    InfixRules("Recursive_Definition_Phrase", {"="}, "ritem", "pipeline", "item")
   \* Grammar.rst:124 `parametric listing in ritem': an item as well (parser.cc:250, 287).
 @@ Let({"parametric"}, "item")
   \* Grammar.rst:117-118 `if parens ...': any primary (parser.cc:243).
 @@ If("primary")
   \* Grammar.rst:119-120 `for ( ritem in ...': a primary (parser.cc:245).
 @@ For("primary")
   \* Not in Grammar.rst: `pipeline ! disjunction' (parser.cc:394) and `postfix @ primary' (:612).
 @@ <<"Mutate_Phrase", "!", 2>> :>
        Rule("pipeline", <<N(2, "pipeline"), T("!"), N(1, "disjunction")>>)
 @@ <<"Apply_Lens_Phrase", "@", 2>> :>
        Rule("postfix", <<N(2, "postfix"), T("@"), N(1, "primary")>>)
   \* Grammar.rst:113 derives `var x := y' as the assignment to a power: a phrase of its own.
 @@ <<"Var_Definition_Phrase", ":=", 2>> :>
        Rule("ritem", <<T("var"), N(1, "power"), T(":="), N(2, "ritem")>>)

\* The substitutions in a string, which Grammar.rst:75-77 has among the lexical rules.
SubstitutionRules ==
    DelimitedRule("Paren_Phrase", "$(", ")", "substitution")
 @@ DelimitedRule("Bracket_Phrase", "$[", "]", "substitution")
 @@ DelimitedRule("Bracket_Phrase", "${", "}", "substitution")

\* Where both have a rule, that of the parser.
Rules == ParserRules @@ DocumentedRules @@ SubstitutionRules

-----------------------------------------------------------------------------
\* The operands of a call with backticks are in a list without brackets.
IsBacktick(ph) == ph.k = "Call_Phrase" /\ ph.op = "?"
Operands(ph) == IF IsBacktick(ph) THEN <<ph.args[1]>> \o ph.args[2].args[1].args ELSE ph.args
IsListing(ph) == ph.k \in {"Comma_Phrase", "Semicolon_Phrase"}
IsSegment(ph) == ph.k \in {"String_Segment_Phrase", "Char_Escape_Phrase", "Ident_Segment_Phrase",
                           "Paren_Segment_Phrase", "Bracket_Segment_Phrase", "Brace_Segment_Phrase"}
Key(ph) == <<ph.k, ph.op, Len(Operands(ph))>>
HasRule(ph) == Key(ph) \in DOMAIN Rules

LevelOf(ph) ==
    CASE ph.k \in {"Identifier", "Numeral", "String_Phrase"} -> "primary"
      [] ph.k = "Empty_Phrase" -> "optitem"
      [] IsListing(ph) -> "listing"
      [] IsSegment(ph) -> "segment"
      [] HasRule(ph) -> Rules[Key(ph)].level
      [] OTHER -> "none"

\* What each operand has to be.
OperandLevel(ph, i) ==
    CASE ph.k = "Comma_Phrase" -> "item"
      [] ph.k = "Semicolon_Phrase" -> "optitem"
      [] ph.k = "String_Phrase" -> "segment"
      [] ph.k = "Ident_Segment_Phrase" -> "primary"
      [] IsSegment(ph) /\ ph.k # "Ident_Segment_Phrase" -> "substitution"
      [] HasRule(ph) -> (CHOOSE p \in ToSet(Rules[Key(ph)].form) :
                             "operand" \in DOMAIN p /\ p.operand = i).level

Fits(ph, level) ==
    LET own == LevelOf(ph)
    IN CASE level = "parens" -> ph.k = "Paren_Phrase" /\ ph.op = "("
         [] level \in DOMAIN Rank -> own \in DOMAIN Rank /\ Rank[own] <= Rank[level]
         [] OTHER -> own = level

\* The operand that ends the phrase, as a set of at most one.
RightEdge(ph) ==
    IF HasRule(ph) /\ "operand" \in DOMAIN Last(Rules[Key(ph)].form)
    THEN {Operands(ph)[Last(Rules[Key(ph)].form).operand]} ELSE {}

\* An `else', or a `where', behind the phrase would become a part of it: where the grammar is
\* ambiguous, the parser takes the innermost (parse_ritem).
RECURSIVE TakesElse(_), TakesWhere(_)
TakesElse(ph) == Key(ph) = <<"If_Phrase", "if", 2>> \/ \E e \in RightEdge(ph) : TakesElse(e)
TakesWhere(ph) ==
    \/ ph.k = "Recursive_Definition_Phrase" /\ ph.args[2].k # "Where_Phrase"
    \/ ph.k = "Let_Phrase" /\ ph.op = "parametric" /\ ph.args[2].k # "Where_Phrase"
    \/ \E e \in RightEdge(ph) : TakesWhere(e)

Unambiguous(ph) ==
    /\ Key(ph) = <<"If_Phrase", "if", 3>> => ~TakesElse(ph.args[2])
    /\ ph.k = "Where_Phrase" => ~TakesWhere(ph.args[1])
    /\ ph.k = "Assignment_Phrase" => ~(ph.args[1].k = "Unary_Phrase" /\ ph.args[1].op = "var")
    /\ ph.k = "Comma_Phrase" => Len(ph.args) > 1 \/ ph.text = ","
    /\ ph.k = "Semicolon_Phrase" => Len(ph.args) > 1

RECURSIVE Derives(_, _)
Derives(level, ph) ==
    /\ Fits(ph, level)
    /\ Unambiguous(ph)
    /\ \A i \in DOMAIN Operands(ph) : Derives(OperandLevel(ph, i), Operands(ph)[i])

\* The tokens of a phrase.  A string counts as one.
RECURSIVE Yield(_)
Yield(ph) ==
    LET operands == Operands(ph)
        Separated(sep) == FlattenSeq([i \in DOMAIN operands |->
            IF i = 1 THEN Yield(operands[1]) ELSE <<sep>> \o Yield(operands[i])])
        Part(p) == IF "token" \in DOMAIN p THEN <<p.token>> ELSE Yield(operands[p.operand])
    IN CASE ph.k = "Empty_Phrase" -> <<>>
         [] ph.k \in {"Identifier", "Numeral", "String_Phrase"} -> <<ph.text>>
         [] IsListing(ph) -> Separated(ph.op) \o (IF ph.text = "" THEN <<>> ELSE <<ph.text>>)
         [] OTHER -> LET form == Rules[Key(ph)].form
                     IN FlattenSeq([i \in DOMAIN form |-> Part(form[i])])

-----------------------------------------------------------------------------
\* The lexical grammar of docs/language/Grammar.rst.
Sub(s, i, j) == SubSeq(s, i, j)
All(s, S) == Chars(s) \subseteq S
Digits(s) == s # "" /\ All(s, Digit)
IsMantissa(s) ==
    \/ Digits(s)
    \/ \E i \in 1..Len(s) : /\ Sub(s, i, i) = "."
                            /\ i = 1 \/ Digits(Sub(s, 1, i - 1))
                            /\ Digits(Sub(s, i + 1, Len(s)))
IsExponent(s) == Digits(s) \/ (s # "" /\ Sub(s, 1, 1) \in {"+", "-"} /\ Digits(Sub(s, 2, Len(s))))
IsNumeral(s) ==
    \/ IsMantissa(s)
    \/ \E i \in 2..Len(s) : /\ Sub(s, i, i) \in {"e", "E"}
                            /\ IsMantissa(Sub(s, 1, i - 1))
                            /\ IsExponent(Sub(s, i + 1, Len(s)))
    \/ Len(s) > 2 /\ Sub(s, 1, 2) \in {"0x", "0X"} /\ All(Sub(s, 3, Len(s)), HexDigit)
IsWord(s) == s # "" /\ Sub(s, 1, 1) \in WordStart /\ All(s, WordChar)
IsQuoted(s) ==
    /\ Len(s) > 1 /\ Sub(s, 1, 1) = "'" /\ Sub(s, Len(s), Len(s)) = "'" /\ All(s, Printable)
    /\ \A i \in 2..(Len(s) - 1) : Sub(s, i, i) = "'" => i + 1 < Len(s) /\ Sub(s, i + 1, i + 1) = "_"
IsSymbol(s) == s # "" /\ Sub(s, 1, 1) = "#" /\ (IsWord(Sub(s, 2, Len(s))) \/ IsQuoted(Sub(s, 2, Len(s))))
IsCharacter(s) == Len(s) = 4 /\ Sub(s, 1, 2) = "#\"" /\ Sub(s, 4, 4) = "\"" /\ Sub(s, 3, 3) \in Printable
IsLexeme(s) == \/ IsNumeral(s) \/ IsWord(s) \/ IsQuoted(s) \/ IsSymbol(s) \/ IsCharacter(s)
               \/ s \in Operators \cup {"\""}
=============================================================================

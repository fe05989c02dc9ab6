------------------------------- MODULE Syntax -------------------------------
(***************************************************************************)
(* The texts that the parser is given, and what it makes of them.  A text  *)
(* is typed, word after word; or it is the text of a phrase that is built  *)
(* from the inside; or it is printed for a value, to be read back.         *)
(***************************************************************************)
EXTENDS Grammar, Literals

CONSTANTS
    Alphabets,     \* records: the words that are typed, their separator, how many, what comes first
    Builders,      \* records: the keys of the rules that phrases are built with, how deep
    ValueKinds,    \* "string", "symbol", "identifier"
    ValueChars, MaxValue, \* the characters of a value, and how many it has
    Indents,       \* how far a printed string is indented
    AvoidedPairs,  \* pairs of characters that no value has: not read back
    AvoidedNames   \* names that are not read back as identifiers

VARIABLES input, source, result
vars == <<input, source, result>>

\* Phrases that are not in a text: they have no location.
Tree(k, op, args, text) == Phrase(k, op, args, text, 0, 0)
X == Tree("Identifier", "", <<>>, "x")
InParens(ph) == Tree("Paren_Phrase", "(", <<ph>>, "")

RECURSIVE Bare(_)
Bare(ph) == [ph EXCEPT !.args = [i \in DOMAIN ph.args |-> Bare(ph.args[i])], !.first = 0, !.last = 0]

\* The phrase by a rule, with its operands in parentheses where they need them.
ByRule(key, operands) ==
    IF key = <<"Call_Phrase", "?", 3>>
    THEN LET pair == Tree("Comma_Phrase", ",", <<operands[2], operands[3]>>, "")
             list == Tree("Bracket_Phrase", "missing", <<pair>>, "")
         IN Tree("Call_Phrase", "?", <<operands[1], list>>, "")
    ELSE Tree(key[1], key[2], operands, "")

Compose(key, operands) ==
    LET Protected(i) == IF Fits(operands[i], OperandLevel(ByRule(key, operands), i))
                        THEN operands[i] ELSE InParens(operands[i])
        plain == ByRule(key, [i \in DOMAIN operands |-> Protected(i)])
        Closed(ph) == IF ph \in {X, InParens(X)} THEN ph ELSE InParens(ph)
    IN IF Unambiguous(plain) THEN plain
       ELSE ByRule(key, [i \in DOMAIN operands |-> Closed(Protected(i))])

Printed(kind, value, indent) ==
    CASE kind = "string" -> write_curv_string(value, indent)
      [] kind = "symbol" -> "#" \o print_idstr(value)
      [] kind = "identifier" -> print_idstr(value)

RECURSIVE Joined(_, _)
Joined(texts, separator) ==
    CASE texts = <<>> -> ""
      [] Len(texts) = 1 -> texts[1]
      [] OTHER -> texts[1] \o separator \o Joined(Tail(texts), separator)

-----------------------------------------------------------------------------
Init ==
    /\ input \in [words : {<<>>}, alphabet : Alphabets] \cup [tree : {X}, by : Builders]
                 \cup [kind : ValueKinds, value : {""}, indent : Indents]
    /\ source = CASE "words" \in DOMAIN input -> input.alphabet.start
                  [] "tree" \in DOMAIN input -> "x"
                  [] OTHER -> Printed(input.kind, "", input.indent)
    /\ result = ParseSource(source)

Type(word) ==
    /\ "words" \in DOMAIN input
    /\ word \in input.alphabet.words
    /\ Len(input.words) < input.alphabet.length
    /\ input' = [input EXCEPT !.words = Append(@, word)]
    /\ source' = input.alphabet.start \o Joined(input'.words, input.alphabet.separator)
    /\ result' = ParseSource(source')

Build(key, i) ==
    /\ "tree" \in DOMAIN input
    /\ key \in input.by.keys
    /\ input.by.depth > 0
    /\ i \in 1..key[3]
    /\ input' = [tree |-> Compose(key, [j \in 1..key[3] |-> IF i = j THEN input.tree ELSE X]),
                 by |-> [input.by EXCEPT !.depth = @ - 1]]
    /\ source' = Joined(Yield(input'.tree), " ")
    /\ result' = ParseSource(source')

Extend(c) ==
    /\ "value" \in DOMAIN input
    /\ Len(input.value) < MaxValue
    /\ input.kind # "string" => c \in Printable
    /\ \A i \in 1..Len(input.value) :
           CharAt(input.value \o c, i - 1) \o CharAt(input.value \o c, i) \notin AvoidedPairs
    /\ input' = [input EXCEPT !.value = @ \o c]
    /\ source' = Printed(input.kind, input'.value, input.indent)
    /\ result' = ParseSource(source')

Next ==
    \/ \E word \in UNION {a.words : a \in Alphabets} : Type(word)
    \/ \E key \in DOMAIN Rules : \E i \in 1..4 : Build(key, i)
    \/ \E c \in ValueChars : Extend(c)

Spec == Init /\ [][Next]_vars

-----------------------------------------------------------------------------
Accepted == result.error = NoError
Program == result.phrase.args[1]

\* The parser accepts only what the table `Rules' derives, which is the grammar of Grammar.rst
\* but for ParserRules: when it takes a text, every phrase has operands of the levels in the
\* table, an `else' and a `where' belong to the innermost phrase that can have them, and no
\* token is lost, doubled or moved (parse_program and below).
DerivedByGrammar ==
    Accepted =>
        /\ result.phrase.k = "Program_Phrase"
        /\ Derives("listing", Program)
        /\ "words" \in DOMAIN input /\ input.alphabet.separator # "" => Yield(Program) = input.words

\* The parser takes the text of each phrase that `Rules' derive, and finds that phrase in it and
\* no other: precedences and associativities are those of the table (parse_ritem to
\* parse_primary).  Of what Grammar.rst derives otherwise than ParserRules, nothing is said.
GrammarIsParsed ==
    "tree" \in DOMAIN input => Accepted /\ Bare(Program) = input.tree

RECURSIVE Subphrases(_)
Subphrases(ph) == {ph} \cup UNION {Subphrases(Operands(ph)[i]) : i \in DOMAIN Operands(ph)}

Squeezed(text) == Concatenated([i \in 1..Len(text) |->
                                   IF CharAt(text, i - 1) = " " THEN "" ELSE CharAt(text, i - 1)])

\* The location that a phrase computes from its parts covers the tokens of the phrase and no
\* others, and an error is reported at a token (the location() functions of phrase.h).
LocationsSpanPhrases ==
    LET spaced == "tree" \in DOMAIN input \/ ("words" \in DOMAIN input /\ input.alphabet.separator = " ")
    IN spaced =>
        /\ Accepted => \A ph \in Subphrases(Program) :
               LevelOf(ph) \in DOMAIN Rank =>
                   Squeezed(Text(source, ph.first, ph.last)) = Joined(Yield(ph), "")
        /\ ~Accepted => /\ result.error.last <= Len(source)
                        /\ \/ result.error.first \in {0, Len(source)}
                           \/ CharAt(source, result.error.first - 1) = " "

\* What is printed for a string, a symbol or an identifier is read back as the same value
\* (write_curv_string and print_idstr, against the scanner).  An identifier that is spelled like
\* a keyword is printed as that keyword, and is not; it has to be among the AvoidedNames.
PrintedIsReadBack ==
    "value" \in DOMAIN input /\ (input.kind = "identifier" => input.value \notin AvoidedNames) =>
        /\ Accepted
        /\ CASE input.kind = "identifier" ->
                    Program.k = "Identifier" /\ token_to_symbol(Program.text) = input.value
             [] input.kind = "symbol" ->
                    Program.k = "Numeral" /\ Program.op = "symbol" /\ NumeralValue(Program) = input.value
             [] input.kind = "string" ->
                    IF input.value = "" THEN Program.k = "Bracket_Phrase" /\ Program.args[1].k = "Empty_Phrase"
                    ELSE Program.k = "String_Phrase" /\ StringValue(Program) = input.value

\* The tokens that come one after the other from the position of the scanner.
RECURSIVE TokensFrom(_)
Before(t) == IF t.tok.kind \in {"end", "error", "quote"} THEN <<>> ELSE <<t.tok>> \o TokensFrom(t.sc)
TokensFrom(sc) == Before(get_token(sc))

Longest(tokens) ==
    LET After(p) == SkipWhite(source, p).at
    IN \A i \in DOMAIN tokens :
           LET tok == tokens[i]
           IN /\ tok.first = After(IF i = 1 THEN 0 ELSE tokens[i - 1].last)
              /\ IsLexeme(Text(source, tok.first, tok.last))
              /\ \A q \in (tok.last + 1)..Len(source) : ~IsLexeme(Text(source, tok.first, q))

\* The tokens outside of strings follow one another with only white space and comments between
\* them, each is a word of the lexical grammar, and it is the longest that starts there.
TokensAreLongest ==
    "words" \in DOMAIN input /\ input.alphabet.separator = "" /\ input.alphabet.start = "" =>
        Longest(TokensFrom(Scanner(source, 0)))
=============================================================================

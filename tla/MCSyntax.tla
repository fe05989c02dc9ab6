------------------------------ MODULE MCSyntax ------------------------------
EXTENDS Syntax

Words(words, length) == [words |-> words, separator |-> " ", length |-> length, start |-> ""]
Glued(words, length, start) ==
    [words |-> words, separator |-> "", length |-> length, start |-> start]

\* Words that compete for their operands, and characters that make up tokens.
MCAlphabets == {
    Words({"x", "(", ")", "if", "else", "where", "="}, 6),
    Words({"x", ",", ";", "[", "]", "in", "let"}, 5),
    Words({"x", "-", "^", "!", "::", "?", "."}, 5),
    Words({"x", "for", "(", "in", ")", "until"}, 5),
    Words({"x", "..", "by", "<", "+", "*"}, 5),
    Words({"x", "var", ":=", "while", "(", ")", "->"}, 5),
    Words({"x", "parametric", "in", "where", "local", ":"}, 5),
    Glued({"x", "$(", "\"", ")", "${", "}"}, 6, "\""),
    Glued({"x", "$", "_", "\"", "\n", "|", "[", "]"}, 5, "\""),
    Glued({"0", "1", ".", "e", "x", "-"}, 5, ""),
    Glued({":", "=", ">", "<", ".", "-", "+"}, 4, ""),
    Glued({"/", "*", "\n", "x", "'", "_", "#"}, 5, "") }

\* All rules in pairs, and those that end where another one could go on, three deep.
MCBuilders == {
    [depth |-> 2, keys |-> {key \in DOMAIN Rules : key[2] \notin {"$(", "$[", "${"}}],
    [depth |-> 3, keys |-> {<<"Where_Phrase", "where", 2>>, <<"Recursive_Definition_Phrase", "=", 2>>,
        <<"If_Phrase", "if", 2>>, <<"If_Phrase", "if", 3>>, <<"Let_Phrase", "parametric", 2>>,
        <<"Lambda_Phrase", "->", 2>>, <<"Call_Phrase", "?", 3>>, <<"Unary_Phrase", "-", 1>>,
        <<"Binary_Phrase", "^", 2>>, <<"Binary_Phrase", "-", 2>>}] }

\* The letters spell a keyword.
MCValueChars == {"i", "f", "1", "_", " ", "'", "\"", "$", "(", "\n", "\r"}
MCAvoidedPairs == {"$\n"}
MCAvoidedNames == Keywords
DollarChars == {"a", "$", "\n"}
=============================================================================

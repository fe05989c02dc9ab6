------------------------------ MODULE Scanner -------------------------------
(***************************************************************************)
(* The scanner (libcurv/scanner.cc).  It is called by the parser, one      *)
(* token at a time, because a quote or a `$(' changes how the characters   *)
(* that follow are read.  A source is a string; the positions in it count  *)
(* from 0.  NUL and characters outside of ASCII are left out.  The kind of *)
(* a keyword or of an operator is its text, that of the others is named as *)
(* in token.h.  An exception is kept in the state of the scanner, which    *)
(* then returns no token but "error": so the parser unwinds.  A question   *)
(* mark stands for the backtick, which a TLA+ string cannot hold; in Curv  *)
(* no token starts with a question mark.                                   *)
(***************************************************************************)
EXTENDS Naturals, Sequences, FiniteSets

Text(src, first, last) == SubSeq(src, first + 1, last)
CharAt(src, p) == IF p < Len(src) THEN Text(src, p, p + 1) ELSE ""
Chars(str) == {SubSeq(str, i, i) : i \in 1..Len(str)}

Space == {" ", "\t", "\n", "\f", "\r"}
Digit == Chars("0123456789")
HexDigit == Digit \cup Chars("abcdefABCDEF")
Letter == Chars("abcdefghijklmnopqrstuvwxyzABCDEFGHIJKLMNOPQRSTUVWXYZ")
WordStart == Letter \cup {"_"}
WordChar == WordStart \cup Digit
Printable == WordChar \cup Chars(" !\"#$%&'()*+,-./:;<=>?@[\\]^_{|}~")
is_dollar_next_char == Letter \cup {"_", "(", "[", "{"}

\* The first position from p on whose character is not in S.
Span(src, p, S) ==
    CHOOSE q \in p..Len(src) : /\ \A i \in p..(q - 1) : CharAt(src, i) \in S
                               /\ q = Len(src) \/ CharAt(src, q) \notin S

-----------------------------------------------------------------------------
Keywords == {"by", "do", "else", "for", "if", "in", "include", "let", "local", "parametric",
             "test", "until", "var", "where", "while"}

Operators == {"(", ")", "[", "]", "{", "}", ".", "..", "..<", "...", ",", ";", ":", ":=", "::",
              "+", "++", "-", "->", "*", "/", "^", "?", "@", "=", "==", "!", "!=",
              "<", "<=", "<<", ">", ">=", ">>", "&&", "||"}

Token(kind, white, first, last) ==
    [kind |-> kind, white |-> white, first |-> first, last |-> last]
MissingToken == Token("missing", 0, 0, 0)
ErrorToken == Token("error", 0, 0, 0)
NoError == [why |-> "", first |-> 0, last |-> 0]

\* `string' is string_begin_: the opening quote of the string that is being read.
Scanner(src, skip_prefix) ==
    [src |-> src, ptr |-> skip_prefix, string |-> MissingToken, ahead |-> <<>>, error |-> NoError]

Raise(sc, tok, why) ==
    IF sc.error # NoError THEN sc
    ELSE [sc EXCEPT !.error = [why |-> why, first |-> tok.first, last |-> tok.last]]

Got(tok, sc) == [tok |-> tok, sc |-> sc]
Success(sc, tok) == Got(tok, [sc EXCEPT !.ptr = tok.last])
Failure(sc, tok, why) == Got(ErrorToken, Raise([sc EXCEPT !.ptr = tok.last], tok, why))

push_token(sc, tok) ==
    IF tok.kind = "error" THEN sc ELSE [sc EXCEPT !.ahead = Append(@, tok)]

-----------------------------------------------------------------------------
\* A string literal: the segments, the escapes and the closing quote.
Unterminated(sc) == Got(ErrorToken, Raise(sc, sc.string, "unterminated string literal"))

\* A `$' before a newline has been skipped, but is part of the token.
StringNewline(sc, p) ==
    LET start == sc.ptr
        q == Span(sc.src, p + 1, {" ", "\t"})
    IN CASE q = Len(sc.src) -> Unterminated(sc)
         [] CharAt(sc.src, q) = "|" -> Success(sc, Token("string_newline", start, start, q + 1))
         [] CharAt(sc.src, q) = "\"" -> Success(sc, Token("string_newline", start, start, q))
         [] OTHER -> Failure(sc, [sc.string EXCEPT !.last = q + 1], "unterminated string literal")

StringSegment(sc, p) ==
    LET Stops(q) ==
            \/ CharAt(sc.src, q) \in {"", "\n", "\""}
            \/ CharAt(sc.src, q) = "$" /\ CharAt(sc.src, q + 1) \in is_dollar_next_char
        end == CHOOSE q \in p..Len(sc.src) : Stops(q) /\ \A i \in p..(q - 1) : ~Stops(i)
    IN Success(sc, Token("string_segment", sc.ptr, sc.ptr, end))

ScanString(sc) ==
    LET p == sc.ptr
        c == CharAt(sc.src, p)
        d == CharAt(sc.src, p + 1)
        Take(kind, n) == Success(sc, Token(kind, p, p, p + n))
        Rest(q) == IF CharAt(sc.src, q) = "\n" THEN StringNewline(sc, q) ELSE StringSegment(sc, q)
    IN CASE c = "" -> Unterminated(sc)
         [] c \in {"\"", "$"} /\ d = "_" -> Take("char_escape", 2)
         [] c = "\"" /\ d # "_" -> Success([sc EXCEPT !.string.kind = "missing"],
                                           Token("quote", p, p, p + 1))
         [] c = "$" /\ d = "" -> Unterminated(sc)
         [] c = "$" /\ d \in {"(", "[", "{"} -> Take("$" \o d, 2)
         [] c = "$" /\ d \in Letter ->
                Success(sc, Token("dollar_ident", p, p, Span(sc.src, p + 1, WordChar)))
         [] c = "$" /\ d \notin is_dollar_next_char \cup {""} -> Rest(p + 1)
         [] OTHER -> Rest(p)

-----------------------------------------------------------------------------
\* The end of the white space and the comments at p, or the start of an unterminated comment.
RECURSIVE SkipWhite(_, _)
SkipWhite(src, p) ==
    LET two == CharAt(src, p) \o CharAt(src, p + 1)
        closes == {q \in (p + 2)..Len(src) : CharAt(src, q) \o CharAt(src, q + 1) = "*/"}
    IN CASE CharAt(src, p) \in Space -> SkipWhite(src, Span(src, p, Space))
         [] two = "//" -> SkipWhite(src, Span(src, p, Printable \cup {"\t", "\f", "\r"}))
         [] two = "/*" /\ closes # {} ->
                SkipWhite(src, 2 + CHOOSE q \in closes : \A r \in closes : q <= r)
         [] OTHER -> [at |-> p, unterminated |-> two = "/*"]

Bug_Numeral(src, p) ==
    LET whole == Span(src, p, Digit \cup {"."})
    IN [kind |-> "num", last |-> Span(src, whole, WordChar),
        bad |-> CharAt(src, whole) \in WordStart]

\* What is left of a decimal numeral behind its mantissa: the exponent.
Exponent(src, mantissa) ==
    LET exponent == CharAt(src, mantissa) \in {"e", "E"}
        digits == IF CharAt(src, mantissa + 1) \in {"+", "-"} THEN mantissa + 2 ELSE mantissa + 1
        end == IF exponent THEN Span(src, digits, Digit) ELSE mantissa
        bad == (exponent /\ end = digits) \/ CharAt(src, end) \in WordStart
    IN [kind |-> "num", last |-> IF bad THEN Span(src, end, WordChar) ELSE end, bad |-> bad]

Fraction(src, p) ==
    IF CharAt(src, p) = "." /\ CharAt(src, p + 1) \in Digit THEN Span(src, p + 1, Digit) ELSE p

\* A numeral, as in C: where it ends, and whether it is one.
Numeral(src, p) ==
    IF CharAt(src, p) = "0" /\ CharAt(src, p + 1) \in {"x", "X"} /\ CharAt(src, p + 2) \in HexDigit
    THEN [kind |-> "hexnum", last |-> Span(src, p + 2, HexDigit), bad |-> FALSE]
    ELSE Exponent(src, Fraction(src, Span(src, p, Digit)))

Word(src, p) ==
    LET last == Span(src, p, WordChar)
        text == Text(src, p, last)
    IN [kind |-> IF text \in Keywords THEN text ELSE "ident", last |-> last]

\* The characters after the opening apostrophe, with the escape '_ .
RECURSIVE QuotedIdentifier(_, _)
QuotedIdentifier(src, p) ==
    LET q == Span(src, p, Printable \ {"'"})
    IN CASE CharAt(src, q) = "'" /\ CharAt(src, q + 1) = "_" -> QuotedIdentifier(src, q + 2)
         [] CharAt(src, q) = "'" /\ CharAt(src, q + 1) # "_" -> [last |-> q + 1, why |-> ""]
         [] OTHER -> [last |-> q + 1,
                      why |-> IF q + 1 >= Len(src) THEN "quoted identifier is unterminated"
                              ELSE "illegal character in quoted identifier"]

\* A `#' and what follows it: a symbol or a character.
Hash(src, p) ==
    LET c == CharAt(src, p + 1)
        Past(q) == IF q < Len(src) THEN q + 1 ELSE q
        visible == CharAt(src, p + 2) \in Printable
        quoted == QuotedIdentifier(src, p + 2)
    IN CASE c = "'" -> [kind |-> "symbol", last |-> quoted.last, why |-> quoted.why]
         [] c \in WordStart -> [kind |-> "symbol", last |-> Span(src, p + 1, WordChar), why |-> ""]
         [] c = "\"" /\ visible /\ CharAt(src, p + 3) = "\"" ->
                [kind |-> "char", last |-> p + 4, why |-> ""]
         [] c = "\"" /\ ~(visible /\ CharAt(src, p + 3) = "\"") ->
                [kind |-> "char", last |-> Past(IF visible THEN p + 3 ELSE p + 2),
                 why |-> "syntax error in character literal"]
         [] OTHER -> [kind |-> "symbol", last |-> Past(p + 1),
                      why |-> "# not followed by identifier or \""]

\* The longest operator at p, or "".
Operator(src, p) ==
    LET prefixes == {Text(src, p, q) : q \in p..(IF p + 3 < Len(src) THEN p + 3 ELSE Len(src))}
        found == prefixes \cap Operators
    IN IF found = {} THEN "" ELSE CHOOSE t \in found : \A u \in found : Len(u) <= Len(t)

-----------------------------------------------------------------------------
ScanAt(sc, white) ==
    LET src == sc.src
        p == white.at
        c == CharAt(src, p)
        numeral == Numeral(src, p)
        word == Word(src, p)
        quoted == QuotedIdentifier(src, p + 1)
        hash == Hash(src, p)
        operator == Operator(src, p)
        Tok(kind, last) == Token(kind, sc.ptr, p, last)
        Check(tok, why) == IF why = "" THEN Success(sc, tok) ELSE Failure(sc, tok, why)
    IN CASE white.unterminated -> Failure(sc, Tok("bad", Len(src)), "unterminated comment")
         [] c = "" -> Success(sc, Tok("end", p))
         [] c \in Digit \/ (c = "." /\ CharAt(src, p + 1) \in Digit) ->
                Check(Tok(numeral.kind, numeral.last), IF numeral.bad THEN "bad numeral" ELSE "")
         [] c \in WordStart -> Success(sc, Tok(word.kind, word.last))
         [] c = "'" -> Check(Tok("ident", quoted.last), quoted.why)
         [] c = "#" -> Check(Tok(hash.kind, hash.last), hash.why)
         [] c = "\"" -> Success([sc EXCEPT !.string = Tok("quote", p + 1)], Tok("quote", p + 1))
         [] operator # "" /\ ~(c = "." /\ CharAt(src, p + 1) \in Digit) ->
                Success(sc, Tok(operator, p + Len(operator)))
         [] OTHER -> Failure(sc, Tok("bad", p + 1), "illegal character")

ScanToken(sc) == ScanAt(sc, SkipWhite(sc.src, sc.ptr))

get_token(sc) ==
    LET ahead == sc.ahead
    IN CASE sc.error # NoError -> Got(ErrorToken, sc)
         [] sc.error = NoError /\ ahead # <<>> ->
                Got(ahead[Len(ahead)], [sc EXCEPT !.ahead = SubSeq(ahead, 1, Len(ahead) - 1)])
         [] sc.error = NoError /\ ahead = <<>> /\ sc.string.kind # "missing" -> ScanString(sc)
         [] OTHER -> ScanToken(sc)
=============================================================================

------------------------------- MODULE Parser -------------------------------
(***************************************************************************)
(* The parser (libcurv/parser.cc): one operator for each parse function,   *)
(* which maps the state of the scanner to a phrase and the next state.     *)
(* A phrase has its class `k', its operator `op' (the kind of its token),  *)
(* its subphrases `args' in the order of the constructor, the text of a    *)
(* phrase of one token, and its location as phrase.h computes it from the  *)
(* locations of the parts.                                                 *)
(***************************************************************************)
EXTENDS Scanner

Phrase(k, op, args, text, first, last) ==
    [k |-> k, op |-> op, args |-> args, text |-> text, first |-> first, last |-> last]
NoPhrase == Phrase("None", "", <<>>, "", 0, 0)
IsPhrase(ph) == ph.k # "None"

Leaf(k, src, tok) == Phrase(k, "", <<>>, Text(src, tok.first, tok.last), tok.first, tok.last)
Empty(tok) == Phrase("Empty_Phrase", "", <<>>, "", tok.first, tok.first)
Infix(k, left, op, right) == Phrase(k, op.kind, <<left, right>>, "", left.first, right.last)
Prefix(k, op, args) == Phrase(k, op.kind, args, "", op.first, args[Len(args)].last)
RangePhrase(op, args) == Phrase("Range_Phrase", op.kind, args, "", args[1].first, args[Len(args)].last)

Bug_Call(k, function, arg, op) ==
    Phrase(k, op.kind, <<function, arg>>, "", function.first, arg.last)

\* The function is the first part, wherever it is written.
Call(k, function, arg, op) ==
    LET args == <<function, arg>>
    IN CASE op.kind = "?" -> Phrase(k, op.kind, args, "", arg.first, arg.last)
         [] op.kind \in {">>", "::", "@", "!"} ->
                Phrase(k, op.kind, args, "", arg.first, function.last)
         [] OTHER -> Phrase(k, op.kind, args, "", function.first, arg.last)

\* The separator of the last argument may be missing: then the text is empty.
Listing(k, op, args, sep) ==
    Phrase(k, op, args, IF sep.kind = op THEN op ELSE "", args[1].first,
           IF sep.kind = "missing" THEN args[Len(args)].last ELSE sep.last)

Delimited(k, lparen, body, rparen) ==
    Phrase(k, lparen.kind, <<body>>, "",
           IF lparen.kind = "missing" THEN body.first ELSE lparen.first,
           IF rparen.kind = "missing" THEN body.last ELSE rparen.last)

StringPhrase(src, segments, begin, end) ==
    Phrase("String_Phrase", "", segments, Text(src, begin.first, end.last), begin.first, end.last)

R(ph, sc) == [ph |-> ph, sc |-> sc]
Throw(sc, tok, why) == R(NoPhrase, Raise(sc, tok, why))

\* All recursion between the parse functions is that of Parse, which is defined last;
\* the scanner is called in it as well.
RECURSIVE Parse(_, _)
next_token(sc) == Parse("token", sc)
peek_token(sc) == LET t == next_token(sc) IN Got(t.tok, push_token(t.sc, t.tok))

is_list_end_token(kind) == kind \in {"end", ")", "]", "}", "in"}

RECURSIVE Commas(_, _), Semicolons(_, _), LeftAssociative(_, _, _), Pipeline(_), Postfix(_),
          Segments(_, _, _)

-----------------------------------------------------------------------------
parse_program(sc) ==
    LET listing == Parse("listing", sc)
        t == next_token(listing.sc)
    IN IF t.tok.kind = "end"
       THEN R(Phrase("Program_Phrase", "", <<listing.ph>>, "", listing.ph.first, t.tok.last), t.sc)
       ELSE Throw(t.sc, t.tok, "syntax error in program")

parse_listing(sc) ==
    LET begin == peek_token(sc)
        item == Parse("item", begin.sc)
        next == peek_token(item.sc)
    IN CASE is_list_end_token(begin.tok.kind) -> R(Empty(begin.tok), begin.sc)
         [] begin.tok.kind = ";" -> Semicolons(<<>>, R(Empty(begin.tok), begin.sc))
         [] OTHER ->
             (CASE is_list_end_token(next.tok.kind) -> R(item.ph, next.sc)
                [] next.tok.kind = "," -> Commas(<<>>, R(item.ph, next.sc))
                [] next.tok.kind = ";" -> Semicolons(<<>>, R(item.ph, next.sc))
                [] OTHER -> Throw(next.sc, next.tok, "syntax error in listing"))

\* The items so far, and the next one, which may end the listing.
Commas(items, item) ==
    LET comma == next_token(item.sc)
        all == Append(items, item.ph)
        next == next_token(comma.sc)
        ahead == push_token(next.sc, next.tok)
    IN CASE is_list_end_token(comma.tok.kind) ->
                R(Listing("Comma_Phrase", ",", all, MissingToken), push_token(comma.sc, comma.tok))
         [] comma.tok.kind = ";" -> Throw(comma.sc, comma.tok, "can't mix commas and semicolons")
         [] comma.tok.kind = "," ->
             (CASE is_list_end_token(next.tok.kind) ->
                       R(Listing("Comma_Phrase", ",", all, comma.tok), ahead)
                [] next.tok.kind = "," -> Throw(next.sc, next.tok, "two consecutive commas")
                [] next.tok.kind = ";" ->
                       Throw(next.sc, next.tok, "can't mix commas and semicolons")
                [] OTHER -> Commas(all, Parse("item", ahead)))
         [] OTHER -> Throw(comma.sc, comma.tok, "syntax error in comma-separated listing")

\* An item may be empty; the empty item at the end has a separator of no length.
Semicolons(items, item) ==
    LET semi == next_token(item.sc)
        all == Append(items, item.ph)
        next == next_token(semi.sc)
        ahead == push_token(next.sc, next.tok)
        nothing == [next.tok EXCEPT !.last = next.tok.first]
    IN CASE is_list_end_token(semi.tok.kind) ->
                R(Listing("Semicolon_Phrase", ";", all, MissingToken), push_token(semi.sc, semi.tok))
         [] semi.tok.kind = "," -> Throw(semi.sc, semi.tok, "can't mix commas and semicolons")
         [] semi.tok.kind = ";" ->
             (CASE is_list_end_token(next.tok.kind) ->
                       R(Listing("Semicolon_Phrase", ";", Append(all, Empty(next.tok)), nothing), ahead)
                [] next.tok.kind = ";" -> Semicolons(all, R(Empty(next.tok), ahead))
                [] next.tok.kind = "," ->
                       Throw(next.sc, next.tok, "can't mix commas and semicolons")
                [] OTHER -> Semicolons(all, Parse("item", ahead)))
         [] OTHER -> Throw(semi.sc, semi.tok, "syntax error in semicolon-separated listing")

parse_item(sc) ==
    LET ritem == Parse("ritem", sc)
        t == next_token(ritem.sc)
        right == Parse("ritem", t.sc)
    IN IF t.tok.kind = "where"
       THEN R(Infix("Where_Phrase", ritem.ph, t.tok, right.ph), right.sc)
       ELSE R(ritem.ph, push_token(t.sc, t.tok))

-----------------------------------------------------------------------------
PrefixClass == [op \in {"...", "include", "test", "local"} |->
    CASE op = "..." -> "Unary_Phrase" [] op = "include" -> "Include_Phrase"
      [] op = "test" -> "Test_Phrase" [] op = "local" -> "Local_Phrase"]

ParsePrefix(k, tok, sc) ==
    LET right == Parse("ritem", sc) IN R(Prefix(k, tok, <<right.ph>>), right.sc)

\* An `if' that leaves the `else' to an outer one.
Bug_ParseIf(tok, sc) ==
    LET condition == Parse("primary", sc)
        then == Parse("item", condition.sc)
        t == next_token(then.sc)
        else == Parse("ritem", t.sc)
    IN IF t.tok.kind = "else"
       THEN R(Prefix("If_Phrase", tok, <<condition.ph, then.ph, else.ph>>), else.sc)
       ELSE R(Prefix("If_Phrase", tok, <<condition.ph, then.ph>>), push_token(t.sc, t.tok))

ParseIf(tok, sc) ==
    LET condition == Parse("primary", sc)
        then == Parse("ritem", condition.sc)
        t == next_token(then.sc)
        else == Parse("ritem", t.sc)
    IN IF t.tok.kind = "else"
       THEN R(Prefix("If_Phrase", tok, <<condition.ph, then.ph, else.ph>>), else.sc)
       ELSE R(Prefix("If_Phrase", tok, <<condition.ph, then.ph>>), push_token(t.sc, t.tok))

ParseLet(tok, sc) ==
    LET bindings == Parse("listing", sc)
        in == next_token(bindings.sc)
        body == Parse(IF tok.kind = "parametric" THEN "item" ELSE "ritem", in.sc)
    IN IF in.tok.kind = "in"
       THEN R(Prefix("Let_Phrase", tok, <<bindings.ph, body.ph>>), body.sc)
       ELSE Throw(in.sc, in.tok, "expecting 'in'")

\* The token of the given kind that must come next.
Expect(kind, t, why) ==
    IF t.tok.kind = kind THEN t ELSE Got(ErrorToken, Raise(t.sc, t.tok, why))

ParseFor(tok, sc) ==
    LET lparen == Expect("(", next_token(sc), "expecting '(' after 'for'")
        pattern == Parse("primary", lparen.sc)
        in == Expect("in", next_token(pattern.sc), "expecting 'in'")
        list == Parse("ritem", in.sc)
        t == next_token(list.sc)
        until == t.tok.kind = "until"
        condition == IF until THEN Parse("ritem", t.sc)
                     ELSE R(NoPhrase, push_token(t.sc, t.tok))
        rparen == Expect(")", next_token(condition.sc), "expecting 'until' or ')'")
        body == Parse("ritem", rparen.sc)
        parts == IF until THEN <<pattern.ph, list.ph, condition.ph, body.ph>>
                 ELSE <<pattern.ph, list.ph, body.ph>>
    IN R(Prefix("For_Phrase", tok, parts), body.sc)

ParseWhile(tok, sc) ==
    LET args == Parse("primary", sc)
        body == Parse("ritem", args.sc)
    IN IF args.ph.k = "Paren_Phrase"
       THEN R(Prefix("While_Phrase", tok, <<args.ph, body.ph>>), body.sc)
       ELSE Throw(args.sc, args.ph, "while: malformed argument")

\* A definition takes a whole item; the other operators, an item without `where'.
ParseOperator(sc) ==
    LET left == Parse("pipeline", sc)
        t == next_token(left.sc)
        item == Parse("item", t.sc)
        right == Parse("ritem", t.sc)
        isVar == left.ph.k = "Unary_Phrase" /\ left.ph.op = "var"
        Make(k) == R(Infix(k, left.ph, t.tok, right.ph), right.sc)
    IN CASE t.tok.kind = "=" ->
                R(Infix("Recursive_Definition_Phrase", left.ph, t.tok, item.ph), item.sc)
         [] t.tok.kind = ":=" /\ isVar ->
                R([Infix("Var_Definition_Phrase", left.ph.args[1], t.tok, right.ph)
                      EXCEPT !.first = left.ph.first], right.sc)
         [] t.tok.kind = ":=" /\ ~isVar -> Make("Assignment_Phrase")
         [] t.tok.kind = ":" -> Make("Assoc_Phrase")
         [] t.tok.kind = "->" -> Make("Lambda_Phrase")
         [] t.tok.kind = "<<" -> R(Call("Call_Phrase", left.ph, right.ph, t.tok), right.sc)
         [] OTHER -> R(left.ph, push_token(t.sc, t.tok))

parse_ritem(sc) ==
    LET t == next_token(sc)
        kind == t.tok.kind
    IN CASE kind \in DOMAIN PrefixClass -> ParsePrefix(PrefixClass[kind], t.tok, t.sc)
         [] kind = "if" -> ParseIf(t.tok, t.sc)
         [] kind \in {"do", "let", "parametric"} -> ParseLet(t.tok, t.sc)
         [] kind = "for" -> ParseFor(t.tok, t.sc)
         [] kind = "while" -> ParseWhile(t.tok, t.sc)
         [] OTHER -> ParseOperator(push_token(t.sc, t.tok))

-----------------------------------------------------------------------------
Backtick(left, tok, sc) ==
    LET postfix == Parse("postfix", sc)
        closing == Expect("?", next_token(postfix.sc), "expecting closing backtick")
        right == Parse("disjunction", closing.sc)
        pair == Listing("Comma_Phrase", ",", <<left, right.ph>>, MissingToken)
        arg == Delimited("Bracket_Phrase", MissingToken, pair, MissingToken)
    IN R(Call("Call_Phrase", postfix.ph, arg, tok), right.sc)

Pipeline(left) ==
    LET t == next_token(left.sc)
        right == Parse("disjunction", t.sc)
        Continue(k) == Pipeline(R(Call(k, right.ph, left.ph, t.tok), right.sc))
    IN CASE t.tok.kind = ">>" -> Continue("Call_Phrase")
         [] t.tok.kind = "::" -> Continue("Predicate_Assertion_Phrase")
         [] t.tok.kind = "!" -> Continue("Mutate_Phrase")
         [] t.tok.kind = "?" -> Pipeline(Backtick(left.ph, t.tok, t.sc))
         [] OTHER -> R(left.ph, push_token(t.sc, t.tok))

\* left op operand op operand ...
LeftAssociative(left, ops, operand) ==
    LET t == next_token(left.sc)
        right == Parse(operand, t.sc)
    IN IF t.tok.kind \in ops
       THEN LeftAssociative(R(Infix("Binary_Phrase", left.ph, t.tok, right.ph), right.sc), ops, operand)
       ELSE R(left.ph, push_token(t.sc, t.tok))

parse_pipeline(sc) == Pipeline(Parse("disjunction", sc))
parse_disjunction(sc) == LeftAssociative(Parse("conjunction", sc), {"||"}, "conjunction")
parse_conjunction(sc) == LeftAssociative(Parse("relation", sc), {"&&"}, "relation")
parse_sum(sc) == LeftAssociative(Parse("product", sc), {"+", "++", "-"}, "product")
parse_product(sc) == LeftAssociative(Parse("power", sc), {"*", "/"}, "power")

parse_relation(sc) ==
    LET left == Parse("sum", sc)
        t == next_token(left.sc)
        right == Parse("sum", t.sc)
        by == next_token(right.sc)
        step == Parse("sum", by.sc)
    IN CASE t.tok.kind \in {"==", "!=", "<", "<=", ">", ">="} ->
                R(Infix("Binary_Phrase", left.ph, t.tok, right.ph), right.sc)
         [] t.tok.kind \in {"..", "..<"} ->
                IF by.tok.kind = "by"
                THEN R(RangePhrase(t.tok, <<left.ph, right.ph, step.ph>>), step.sc)
                ELSE R(RangePhrase(t.tok, <<left.ph, right.ph>>), push_token(by.sc, by.tok))
         [] OTHER -> R(left.ph, push_token(t.sc, t.tok))

Bug_parse_power(sc) ==
    LET t == next_token(sc)
        arg == Parse("postfix", t.sc)
    IN IF t.tok.kind \in {"+", "-", "!", "var"}
       THEN R(Prefix("Unary_Phrase", t.tok, <<arg.ph>>), arg.sc)
       ELSE LeftAssociative(Parse("postfix", push_token(t.sc, t.tok)), {"^"}, "power")

parse_power(sc) ==
    LET t == next_token(sc)
        arg == Parse("power", t.sc)
        postfix == Parse("postfix", push_token(t.sc, t.tok))
        op == next_token(postfix.sc)
        exponent == Parse("power", op.sc)
    IN CASE t.tok.kind \in {"+", "-", "!", "var"} ->
                R(Prefix("Unary_Phrase", t.tok, <<arg.ph>>), arg.sc)
         [] OTHER -> IF op.tok.kind = "^"
                     THEN R(Infix("Binary_Phrase", postfix.ph, op.tok, exponent.ph), exponent.sc)
                     ELSE R(postfix.ph, push_token(op.sc, op.tok))

Postfix(left) ==
    LET t == next_token(left.sc)
        primary == Parse("primary", t.sc)
        juxta == Parse("optional primary", push_token(t.sc, t.tok))
    IN CASE t.tok.kind = "." ->
                Postfix(R(Infix("Dot_Phrase", left.ph, t.tok, primary.ph), primary.sc))
         [] t.tok.kind = "@" ->
                Postfix(R(Call("Apply_Lens_Phrase", primary.ph, left.ph, t.tok), primary.sc))
         [] OTHER -> IF IsPhrase(juxta.ph)
                     THEN Postfix(R(Call("Call_Phrase", left.ph, juxta.ph, MissingToken), juxta.sc))
                     ELSE R(left.ph, juxta.sc)

parse_postfix(sc) == Postfix(Parse("primary", sc))

-----------------------------------------------------------------------------
parse_delimited(k, tok, close, sc) ==
    LET body == Parse("listing", sc)
        t == next_token(body.sc)
    IN CASE t.tok.kind = close -> R(Delimited(k, tok, body.ph, t.tok), t.sc)
         [] t.tok.kind = "end" -> Throw(t.sc, tok, "unmatched delimiter")
         [] OTHER -> Throw(t.sc, t.tok, "syntax error in delimited phrase")

\* A substitution in a string: outside of it the string goes on.
Substitution(k, class, tok, close, sc) ==
    LET inner == parse_delimited(class, tok, close, [sc EXCEPT !.string.kind = "missing"])
        segment == [inner.ph EXCEPT !.k = k, !.args = <<inner.ph>>]
    IN R(segment, [inner.sc EXCEPT !.string = sc.string])

Segments(sc, begin, segments) ==
    LET t == next_token(sc)
        kind == t.tok.kind
        Continue(r) == Segments(r.sc, begin, Append(segments, r.ph))
        Token_(k) == Continue(R([Leaf(k, sc.src, t.tok) EXCEPT !.op = kind], t.sc))
        name == Leaf("Identifier", sc.src, [t.tok EXCEPT !.first = @ + 1])
    IN CASE kind = "quote" -> R(StringPhrase(sc.src, segments, begin, t.tok), t.sc)
         [] kind = "string_segment" -> Token_("String_Segment_Phrase")
         [] kind \in {"string_newline", "char_escape"} -> Token_("Char_Escape_Phrase")
         [] kind = "$(" ->
                Continue(Substitution("Paren_Segment_Phrase", "Paren_Phrase", t.tok, ")", t.sc))
         [] kind = "$[" ->
                Continue(Substitution("Bracket_Segment_Phrase", "Bracket_Phrase", t.tok, "]", t.sc))
         [] kind = "${" ->
                Continue(Substitution("Brace_Segment_Phrase", "Bracket_Phrase", t.tok, "}", t.sc))
         [] kind = "dollar_ident" ->
                Continue(R([name EXCEPT !.k = "Ident_Segment_Phrase", !.args = <<name>>], t.sc))
         [] OTHER -> R(NoPhrase, t.sc)

parse_string(sc, begin) == Segments(sc, begin, <<>>)

\* An optional primary is no phrase when the next token cannot start one.
parse_primary(sc, optional) ==
    LET t == next_token(sc)
    IN CASE t.tok.kind \in {"num", "hexnum", "symbol", "char"} ->
                R([Leaf("Numeral", sc.src, t.tok) EXCEPT !.op = t.tok.kind], t.sc)
         [] t.tok.kind = "ident" -> R(Leaf("Identifier", sc.src, t.tok), t.sc)
         [] t.tok.kind = "quote" -> parse_string(t.sc, t.tok)
         [] t.tok.kind = "(" -> parse_delimited("Paren_Phrase", t.tok, ")", t.sc)
         [] t.tok.kind = "[" -> parse_delimited("Bracket_Phrase", t.tok, "]", t.sc)
         [] t.tok.kind = "{" -> parse_delimited("Brace_Phrase", t.tok, "}", t.sc)
         [] OTHER -> IF optional THEN R(NoPhrase, push_token(t.sc, t.tok))
                     ELSE Throw(t.sc, t.tok, "missing or unexpected token")

ParseSyntax(what, sc) ==
    CASE what = "program" -> parse_program(sc)
      [] what = "listing" -> parse_listing(sc)
      [] what = "item" -> parse_item(sc)
      [] what = "ritem" -> parse_ritem(sc)
      [] what = "pipeline" -> parse_pipeline(sc)
      [] what = "disjunction" -> parse_disjunction(sc)
      [] what = "conjunction" -> parse_conjunction(sc)
      [] what = "relation" -> parse_relation(sc)
      [] what = "sum" -> parse_sum(sc)
      [] what = "product" -> parse_product(sc)
      [] what = "power" -> parse_power(sc)
      [] what = "postfix" -> parse_postfix(sc)
      [] what = "primary" -> parse_primary(sc, FALSE)
      [] what = "optional primary" -> parse_primary(sc, TRUE)

\* After an exception there is no phrase.
Parse(what, sc) ==
    CASE what = "token" -> get_token(sc)
      [] what # "token" /\ sc.error # NoError -> R(NoPhrase, sc)
      [] OTHER -> ParseSyntax(what, sc)

\* Program::compile: the phrase of a source, or the error that it has.
ParseSource(src) ==
    LET r == Parse("program", Scanner(src, 0)) IN [phrase |-> r.ph, error |-> r.sc.error]
=============================================================================

------------------------------ MODULE Literals ------------------------------
(***************************************************************************)
(* The values of tokens (Numeral::eval, token_to_symbol and the segments   *)
(* of a string) and the texts that are printed for strings and names.      *)
(* A string, a symbol and an identifier have the text of their characters  *)
(* as value; a hexadecimal numeral, a number.                              *)
(***************************************************************************)
EXTENDS Parser

\* The characters of a name: inside of the apostrophes '_ stands for an apostrophe.
RECURSIVE Unquoted(_)
Unquoted(text) ==
    IF text = "" THEN ""
    ELSE LET c == CharAt(text, 0)
         IN c \o Unquoted(Text(text, IF c = "'" THEN 2 ELSE 1, Len(text)))

token_to_symbol(text) ==
    IF CharAt(text, 0) = "'" THEN Unquoted(Text(text, 1, Len(text) - 1)) ELSE text

HexValue(c) ==
    CHOOSE n \in 0..15 : \/ c = Text("0123456789abcdef", n, n + 1)
                         \/ c = Text("0123456789ABCDEF", n, n + 1)
RECURSIVE HexNumber(_, _)
HexNumber(text, n) ==
    IF text = "" THEN n
    ELSE HexNumber(Text(text, 1, Len(text)), 16 * n + HexValue(CharAt(text, 0)))

\* Numeral::eval.  A decimal numeral is read by strtod().
NumeralValue(ph) ==
    CASE ph.op = "hexnum" -> HexNumber(Text(ph.text, 2, Len(ph.text)), 0)
      [] ph.op = "symbol" -> token_to_symbol(Text(ph.text, 1, Len(ph.text)))
      [] ph.op = "char" -> Text(ph.text, 2, 3)
      [] OTHER -> ph.text

\* The control characters that need an escape and that a TLA+ string can hold.
Controls == {[char |-> "\f", code |-> "12"], [char |-> "\r", code |-> "13"]}

\* The characters that a segment stands for; of the substitutions, only those of a code.
SegmentText(ph) ==
    LET controls == IF ph.k = "Bracket_Segment_Phrase"
                    THEN {r \in Controls : r.code = ph.args[1].args[1].text} ELSE {}
    IN CASE ph.k = "String_Segment_Phrase" -> ph.text
         [] ph.op = "string_newline" -> "\n"
         [] ph.op = "char_escape" -> CharAt(ph.text, 0)
         [] controls # {} -> (CHOOSE r \in controls : TRUE).char
         [] OTHER -> "?"

RECURSIVE Concatenated(_)
Concatenated(texts) == IF texts = <<>> THEN "" ELSE Head(texts) \o Concatenated(Tail(texts))

StringValue(ph) == Concatenated([i \in DOMAIN ph.args |-> SegmentText(ph.args[i])])

-----------------------------------------------------------------------------
RECURSIVE Blanks(_)
Blanks(n) == IF n = 0 THEN "" ELSE " " \o Blanks(n - 1)

ControlEscape(c) == "$[" \o (CHOOSE r \in Controls : r.char = c).code \o "]"

Bug_Escaped(c, next, indent) ==
    CASE c = "$" -> IF next \in {"_", "(", "[", "{"} THEN "$_" ELSE "$"
      [] c = "\"" -> "\"_"
      [] c = "\n" -> "\n" \o Blanks(indent) \o (IF next = "" THEN "" ELSE "|")
      [] c \in {"\f", "\r"} -> ControlEscape(c)
      [] OTHER -> c

\* write_curv_char: `next' is the next character of the string, or "".
Escaped(c, next, indent) ==
    CASE c = "$" -> IF next \in is_dollar_next_char THEN "$_" ELSE "$"
      [] c = "\"" -> "\"_"
      [] c = "\n" -> "\n" \o Blanks(indent) \o (IF next = "" THEN "" ELSE "|")
      [] c \in {"\f", "\r"} -> ControlEscape(c)
      [] OTHER -> c

\* The empty string is the empty list.
write_curv_string(s, indent) ==
    IF s = "" THEN "[]"
    ELSE "\"" \o Concatenated([i \in 1..Len(s) |->
                     Escaped(CharAt(s, i - 1), CharAt(s, i), indent)]) \o "\""

is_C_identifier(s) == CharAt(s, 0) \in WordStart /\ Chars(s) \subseteq WordChar

\* A keyword looks like an identifier of C, and gets no apostrophes.
print_idstr(s) ==
    IF is_C_identifier(s) THEN s
    ELSE "'" \o Concatenated([i \in 1..Len(s) |->
                   IF CharAt(s, i - 1) = "'" THEN "'_" ELSE CharAt(s, i - 1)]) \o "'"
=============================================================================

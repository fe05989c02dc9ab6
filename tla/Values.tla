-------------------------------- MODULE Values --------------------------------
(***************************************************************************)
(* Values of the language (libcurv/value.h) and the types that the shape   *)
(* compiler gives to them (libcurv/sc_type.h, type.cc).                    *)
(*                                                                         *)
(* A value is a tuple whose first element is its kind.  Lists have two     *)
(* representations, "list" and "string".  An exception is the value Error. *)
(*                                                                         *)
(* A reactive value stands for a value that is known only when the shape   *)
(* is drawn: <<"reactive", type, compiled>>, where `type' is sctype_ and   *)
(* `compiled' the type of the code that the shape compiler makes of its    *)
(* expression, or NoType if it refuses the expression.                     *)
(*                                                                         *)
(* A type is <<scalar, dims>>: an array of scalars with these dimensions,  *)
(* the outermost first.                                                    *)
(***************************************************************************)
EXTENDS Integers, Sequences, SequencesExt

CONSTANT WordSize   \* bound: the size of a Bool32, 32 in the code
ASSUME WordSizeAssumption == WordSize \in Nat /\ WordSize > 4

Num(n)       == <<"num", n>>
Bool(b)      == <<"bool", b>>
Char(c)      == <<"char", c>>
Symbol(s)    == <<"symbol", s>>
List(s)      == <<"list", s>>
String(s)    == <<"string", s>>
Record(f)    == <<"record", f>>
Reactive(type, compiled) == <<"reactive", type, compiled>>
This         == <<"this">>
Missing      == <<"missing">>
Error        == <<"error">>

Kind(v)     == v[1]
AllChars(s) == \A i \in DOMAIN s : Kind(s[i]) = "char"

(* List_Builder::get_value                                                 *)
BuildList(s) == IF s # <<>> /\ AllChars(s) THEN String(s) ELSE List(s)

AllOrError(s, F(_)) ==
    IF \E i \in DOMAIN s : s[i] = Error THEN Error ELSE F(s)

-------------------------------------------------------------------------------
(* Types                                                                   *)

NoType   == <<"Error", <<>>>>
NumType  == <<"Num", <<>>>>
BoolType == <<"Bool", <<>>>>
Array(n, t)    == <<t[1], <<n>> \o t[2]>>
Bool32Type     == Array(WordSize, BoolType)

IsArray(t)  == t[2] # <<>>
ElemType(t) == IF IsArray(t) THEN <<t[1], Tail(t[2])>> ELSE NoType
Count(t)    == IF IsArray(t) THEN t[2][1] ELSE 1
Rank(t)     == Len(t[2])

(* A scalar, or a vector of two to four, of type t                         *)
OrVec(u, t)      == u = t \/ \E n \in 2..4 : u = Array(n, t)
IsBoolOrVec(t)   == OrVec(t, BoolType)
IsBool32OrVec(t) == OrVec(t, Bool32Type)
IsBoolPlex(t)    == IsBoolOrVec(t) \/ IsBool32OrVec(t)
IsNumOrVec(t)    == OrVec(t, NumType)
IsMat(t)         == \E n \in 2..4 : t = Array(n, Array(n, NumType))
IsNumVec(t)      == IsNumOrVec(t) /\ t # NumType
IsNumPlex(t)     == IsNumOrVec(t) \/ IsMat(t)
IsPlex(t)        == IsBoolPlex(t) \/ IsNumPlex(t)
IsVec(t)         == IsNumVec(t) \/ (IsBoolPlex(t) /\ t \notin {BoolType, Bool32Type})

(* The plex that t is an array of, and the number of dimensions above it   *)
PlexBase[t \in {"Num", "Bool", "Error"} \X Seq(Nat)] ==
    IF IsArray(t) /\ ~IsPlex(t) THEN PlexBase[ElemType(t)] ELSE t
PlexRank(t) == Rank(t) - Rank(PlexBase[t])
IsNumTensor(t) == IsNumPlex(PlexBase[t])

(* Arrays are combined element by element, and a scalar with each element: *)
(* the dimensions of one begin those of the other.                         *)
Unify(a, b) ==
    CASE a[1] # b[1] -> NoType
      [] a[1] = b[1] /\ IsPrefix(a[2], b[2]) -> b
      [] a[1] = b[1] /\ IsPrefix(b[2], a[2]) -> a
      [] OTHER -> NoType

RECURSIVE TypeOf(_)
TypeOf(v) ==
    CASE Kind(v) = "num"  -> NumType
      [] Kind(v) = "bool" -> BoolType
      [] Kind(v) = "list" /\ v[2] # <<>> ->
            LET t == TypeOf(v[2][1])
            IN IF t = NoType THEN t ELSE Array(Len(v[2]), t)
      [] Kind(v) = "reactive" -> v[2]
      [] OTHER -> NoType
===============================================================================

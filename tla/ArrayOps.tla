------------------------------- MODULE ArrayOps -------------------------------
(***************************************************************************)
(* Operations on arrays (libcurv/prim.h): an operation on scalars is       *)
(* extended to lists, element by element, and to reactive values, for      *)
(* which an expression is made that the shape compiler translates later.   *)
(* Call is what the interpreter does, Result the type it announces for the *)
(* reactive result, Code the type of what the compiler makes of it.        *)
(***************************************************************************)
EXTENDS Tree

UnaryOps  == {"negative", "abs", "not", "bit", "bool32_to_nat", "nat_to_bool32"}
BinaryOps == {"add", "multiply", "max", "less", "and", "lshift", "bool32_sum"}

(* Bool32 values and natural numbers, least significant bit first          *)
RECURSIVE Nat32(_), Bits(_, _)
Nat32(bits) == IF bits = <<>> THEN 0
               ELSE (IF Head(bits)[2] THEN 1 ELSE 0) + 2 * Nat32(Tail(bits))
Bits(n, size) == IF size = 0 THEN <<>>
                 ELSE <<Bool(n % 2 = 1)>> \o Bits(n \div 2, size - 1)
nat_to_bool32(n) == List(Bits(n % (2 ^ WordSize), WordSize))
AllBools(s) == \A i \in DOMAIN s : Kind(s[i]) = "bool"

-------------------------------------------------------------------------------
(* The primitives: which values are scalars for them, and their results    *)

LeftKind(op) ==
    CASE op \in {"negative", "abs", "nat_to_bool32", "add", "multiply", "max",
                "less"} -> "num"
      [] op \in {"not", "bit", "and"} -> "bool"
      [] op \in {"bool32_to_nat", "bool32_sum"} -> "bool32"
      [] op = "lshift" -> "bools"
RightKind(op) == IF op = "lshift" THEN "num" ELSE LeftKind(op)

(* unbox                                                                   *)
IsScalar(kind, v) ==
    CASE kind \in {"num", "bool"} -> Kind(v) = kind
      [] kind = "bools"  -> /\ Kind(v) = "list" /\ v[2] # <<>>
                            /\ Kind(v[2][1]) = "bool"
      [] kind = "bool32" -> /\ Kind(v) = "list" /\ Len(v[2]) = WordSize
                            /\ Kind(v[2][1]) = "bool"

Scalar1(op, u) ==
    CASE op = "negative" -> Num(-u[2])
      [] op = "abs" -> Num(IF u[2] < 0 THEN -u[2] ELSE u[2])
      [] op = "not" -> Bool(~u[2])
      [] op = "bit" -> Num(IF u[2] THEN 1 ELSE 0)
      [] op = "bool32_to_nat" -> IF AllBools(u[2]) THEN Num(Nat32(u[2])) ELSE Error
      [] op = "nat_to_bool32" -> IF u[2] \in 0..(2 ^ WordSize - 1)
                                 THEN nat_to_bool32(u[2]) ELSE Error

Shifted(bits, n) ==
    IF ~AllBools(bits) \/ n \notin 0..(Len(bits) - 1) THEN Error
    ELSE List([i \in DOMAIN bits |-> IF i <= n THEN Bool(FALSE) ELSE bits[i - n]])

Scalar2(op, u, w) ==
    CASE op = "add"  -> Num(u[2] + w[2])
      [] op = "multiply" -> Num(u[2] * w[2])
      [] op = "max"  -> IF u[2] < w[2] THEN w ELSE u
      [] op = "less" -> Bool(u[2] < w[2])
      [] op = "and"  -> Bool(u[2] /\ w[2])
      [] op = "lshift" -> Shifted(u[2], w[2])
      [] op = "bool32_sum" -> IF AllBools(u[2]) /\ AllBools(w[2])
                              THEN nat_to_bool32(Nat32(u[2]) + Nat32(w[2]))
                              ELSE Error

(* sc_result_type                                                          *)
Result1(op, t) ==
    LET ok == CASE op = "negative" -> IsNumPlex(t)
                [] op \in {"abs", "nat_to_bool32"} -> IsNumOrVec(t)
                [] op = "not" -> IsBoolPlex(t)
                [] op = "bit" -> IsBoolOrVec(t)
                [] op = "bool32_to_nat" -> FALSE
    IN CASE ~ok -> NoType
         [] ok /\ op = "bit" -> <<"Num", t[2]>>
         [] ok /\ op = "nat_to_bool32" -> <<"Bool", Append(t[2], WordSize)>>
         [] OTHER -> t

Bug_OfOperands(op, a, b) == Unify(a, b)
Result2(op, a, b) ==
    CASE op \in {"add", "multiply", "max"} /\ IsNumTensor(a) /\ IsNumTensor(b) -> Unify(a, b)
      [] op = "less" /\ IsNumOrVec(a) /\ IsNumOrVec(b) ->
            LET t == Unify(a, b) IN IF t = NoType THEN t ELSE <<"Bool", t[2]>>
      [] op = "and" /\ IsBoolPlex(a) /\ IsBoolPlex(b) -> Unify(a, b)
      [] op = "lshift" /\ IsBool32OrVec(a) /\ b = NumType -> a
      [] op = "bool32_sum" /\ IsBool32OrVec(a) /\ a = b -> a
      [] OTHER -> NoType

(* sc_check_arg and sc_call: the functions between Bool32 and natural      *)
(* numbers are not supported.                                              *)
Code1(op, c) ==
    IF op \in {"bool32_to_nat", "nat_to_bool32"} THEN NoType ELSE Result1(op, c)

(* sc_check_args, which may extend the operands, and sc_call               *)
Code2(op, a, b) ==
    CASE op \in {"add", "multiply"} /\ IsNumPlex(a) /\ IsNumPlex(b) -> Unify(a, b)
      [] op = "max" /\ IsNumOrVec(a) /\ IsNumOrVec(b) -> Unify(a, b)
      [] op = "and" -> LET Same == \/ IsBoolOrVec(a) /\ IsBoolOrVec(b)
                                   \/ IsBool32OrVec(a) /\ IsBool32OrVec(b)
                       IN IF Same /\ (Count(a) = Count(b) \/ 1 \in {Count(a), Count(b)})
                          THEN a ELSE NoType
      [] op \in {"less", "lshift", "bool32_sum"} -> Result2(op, a, b)
      [] OTHER -> NoType

-------------------------------------------------------------------------------
(* Reactive results                                                        *)

(* sc_put_value: is there an initializer of type t for v?                  *)
RECURSIVE Puts(_, _)
Puts(v, t) ==
    CASE Kind(v) = "reactive" -> v[3] # NoType
      [] Kind(v) # "reactive" /\ t = NumType  -> Kind(v) = "num"
      [] Kind(v) # "reactive" /\ t = BoolType -> Kind(v) = "bool"
      [] Kind(v) = "list" /\ t = Bool32Type -> AllBools(v[2])
      [] Kind(v) = "list" /\ t # Bool32Type /\ IsArray(t) ->
            Len(v[2]) = Count(t) /\ \A i \in DOMAIN v[2] : Puts(v[2][i], ElemType(t))
      [] OTHER -> FALSE

(* The type of the code for an operand                                     *)
CodeOf(v) ==
    CASE Kind(v) = "reactive" -> v[3]
      [] Kind(v) # "reactive" /\ Puts(v, TypeOf(v)) -> TypeOf(v)
      [] OTHER -> NoType

ReactiveOr(error, type, compiled) ==
    IF type = NoType THEN error ELSE Reactive(type, compiled)
Reactive1(op, u) ==
    ReactiveOr(Error, Result1(op, TypeOf(u)), Code1(op, CodeOf(u)))
Reactive2(op, u, w) ==
    ReactiveOr(Error, Result2(op, TypeOf(u), TypeOf(w)), Code2(op, CodeOf(u), CodeOf(w)))

-------------------------------------------------------------------------------
(* Unary_Array_Op and Binary_Array_Op                                      *)

(* broadcast_left takes the characters of a string for values: its result  *)
(* is undefined.                                                           *)
Unspecified == <<"unspecified">>

RECURSIVE Call1(_, _), Call2(_, _, _)
Call1(op, u) ==
    CASE IsScalar(LeftKind(op), u) -> Scalar1(op, u)
      [] ~IsScalar(LeftKind(op), u) /\ Kind(u) = "list" ->
            AllOrError([i \in DOMAIN u[2] |-> Call1(op, u[2][i])], List)
      [] Kind(u) = "reactive" -> Reactive1(op, u)
      [] OTHER -> Error

BroadcastLeft(op, u, w) ==
    AllOrError([i \in DOMAIN u[2] |-> Call2(op, u[2][i], w)], List)
BroadcastRight(op, u, w) ==
    AllOrError([i \in DOMAIN w[2] |-> Call2(op, u, w[2][i])], List)
Bug_Shorter(op, u, w) ==
    AllOrError([i \in 1..(IF Size(u) < Size(w) THEN Size(u) ELSE Size(w)) |->
                  Call2(op, u[2][i], w[2][i])], List)
ElementWise(op, u, w) ==
    IF Size(u) # Size(w) THEN Error
    ELSE AllOrError([i \in DOMAIN u[2] |-> Call2(op, u[2][i], w[2][i])], List)

Call2(op, u, w) ==
    LET left  == IsScalar(LeftKind(op), u)
        right == IsScalar(RightKind(op), w)
    IN CASE left /\ right -> Scalar2(op, u, w)
         [] left /\ ~right /\ Kind(w) = "list" -> BroadcastRight(op, u, w)
         [] ~left /\ right /\ Kind(u) = "string" -> Unspecified
         [] ~left /\ right /\ Kind(u) = "list" -> BroadcastLeft(op, u, w)
         [] ~left /\ ~right /\ Kind(u) = "list" /\ Kind(w) = "list" ->
               ElementWise(op, u, w)
         [] \/ Kind(u) = "reactive"
            \/ Kind(w) = "reactive" /\ (left \/ Kind(u) = "list") -> Reactive2(op, u, w)
         [] OTHER -> Error

(* Binary_Array_Op::reduce; zero is the result for the empty list.         *)
MinusInfinity == -1000   \* less than the other numbers
Zero(op) ==
    CASE op = "add"      -> Num(0)
      [] op = "multiply" -> Num(1)
      [] op = "max"      -> Num(MinusInfinity)
      [] op = "and"      -> Bool(TRUE)
      [] op = "bool32_sum" -> nat_to_bool32(0)
Reduce(op, u) ==
    CASE Kind(u) # "list" -> Error
      [] Kind(u) = "list" /\ u[2] = <<>> -> Zero(op)
      [] OTHER -> FoldLeft(LAMBDA r, e : IF r = Error THEN r ELSE Call2(op, r, e),
                           u[2][1], Tail(u[2]))

-------------------------------------------------------------------------------
(* dot, equality, if and indexing                                          *)

(* F_dot::dot                                                              *)
RECURSIVE Dot(_, _)
Dot(u, w) ==
    LET a == TypeOf(u)   b == TypeOf(w)
        t == CASE IsNumVec(a) /\ a = b -> NumType
               [] IsNumVec(a) /\ IsMat(b) /\ Count(a) = Count(b) -> b
               [] IsMat(a) /\ IsNumVec(b) /\ Count(a) = Count(b) -> a
               [] IsMat(a) /\ IsMat(b) /\ a = b -> a
               [] OTHER -> NoType
        c == LET ca == CodeOf(u)   cb == CodeOf(w)
             IN CASE IsNumVec(ca) /\ ca = cb -> NumType
                  [] IsNumVec(ca) /\ IsMat(cb) /\ Count(ca) = Count(cb) -> ca
                  [] IsMat(ca) /\ IsNumVec(cb) /\ Count(ca) = Count(cb) -> cb
                  [] IsMat(ca) /\ IsMat(cb) /\ ca = cb -> ca
                  [] OTHER -> NoType
    IN CASE Kind(u) # "list" \/ Kind(w) # "list" -> ReactiveOr(Error, t, c)
         [] Kind(u) = "list" /\ Kind(w) = "list" /\ u[2] # <<>> /\ Kind(u[2][1]) = "list" ->
               AllOrError([i \in DOMAIN u[2] |-> Dot(u[2][i], w)], List)
         [] OTHER ->
               IF Size(u) # Size(w) THEN Error
               ELSE FoldLeft(LAMBDA r, i :
                               LET p == Call2("multiply", u[2][i], w[2][i])
                               IN IF Error \in {r, p} THEN Error ELSE Call2("add", r, p),
                             Num(0), [i \in DOMAIN u[2] |-> i])

(* Value::equal, with "unknown" for a comparison with a reactive value     *)
RECURSIVE Same(_, _)
Same(u, w) ==
    LET lists == Kind(u) = "list" /\ Kind(w) = "list" /\ Size(u) = Size(w)
        parts == IF lists THEN {Same(u[2][i], w[2][i]) : i \in DOMAIN u[2]} ELSE {}
    IN CASE "reactive" \in {Kind(u), Kind(w)} ->
               IF TypeOf(u) = TypeOf(w) THEN "unknown" ELSE "false"
         [] "reactive" \notin {Kind(u), Kind(w)} /\ lists ->
               CASE "false" \in parts -> "false"
                 [] "false" \notin parts /\ "unknown" \in parts -> "unknown"
                 [] OTHER -> "true"
         [] OTHER -> IF u = w THEN "true" ELSE "false"

(* Equal_Expr                                                              *)
Equals(u, w) ==
    IF Same(u, w) # "unknown" THEN Bool(Same(u, w) = "true")
    ELSE Reactive(BoolType, IF CodeOf(u) = CodeOf(w) /\ PlexRank(CodeOf(u)) = 0
                            THEN BoolType ELSE NoType)

(* If_Else_Op                                                              *)
IfElse(cond, w, z) ==
    CASE Kind(cond) = "bool" -> IF cond[2] THEN w ELSE z
      [] Kind(cond) = "reactive" /\ TypeOf(cond) = BoolType /\ TypeOf(w) = TypeOf(z) ->
            Reactive(TypeOf(w), IF CodeOf(cond) = BoolType /\ CodeOf(w) = CodeOf(z)
                                THEN CodeOf(w) ELSE NoType)
      [] OTHER -> Error

(* tree_fetch: the index may be a reactive number                          *)
Index(tree, i) ==
    IF Kind(i) # "reactive" THEN Fetch(tree, i)
    ELSE IF TypeOf(i) = NumType /\ IsArray(TypeOf(tree))
    THEN Reactive(ElemType(TypeOf(tree)),
                  IF CodeOf(i) = NumType /\ PlexRank(CodeOf(tree)) <= 1
                  THEN ElemType(CodeOf(tree)) ELSE NoType)
    ELSE Error
===============================================================================

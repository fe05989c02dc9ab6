----------------------------- MODULE ArrayProgram -----------------------------
(***************************************************************************)
(* A program of one variable, which is computed with, compared, indexed    *)
(* and assigned to, and its reactive twin: the same program when the       *)
(* initial value is the parameter of a shape, whose value is not known     *)
(* until the shape is drawn.                                               *)
(***************************************************************************)
EXTENDS ArrayOps

CONSTANTS
    Parameters,     \* bound: the values of parameters
    Operands,       \* what the program combines the variable with
    Ops,            \* its operations
    MixedProducts,  \* does it multiply vectors by matrices with dot?
    Largest, MaxRank,  \* bound: the largest number and rank it computes with
    MaxSteps           \* bound: how often it computes

VARIABLES
    twin,   \* the variable of the reactive twin
    steps   \* how often the program has computed with the variable

vars == <<x, before, index, elems, failed, twin, steps>>

Init ==
    /\ x \in Trees \cup Parameters /\ before = x
    /\ index = This /\ elems = x /\ failed = FALSE /\ steps = 0
    /\ twin = IF x \in Parameters THEN Reactive(TypeOf(x), TypeOf(x)) ELSE x

(* Assignments; the twin assigns the same.                                 *)
AssignBoth(i, es) ==
    /\ Assign(i, es)
    /\ twin' = IF twin = Error THEN twin ELSE Amend(twin, i, es)
    /\ UNCHANGED steps

RECURSIVE Small(_)
Small(v) ==
    CASE Kind(v) = "num"  -> v[2] \in -Largest..Largest
      [] Kind(v) = "bool" -> TRUE
      [] Kind(v) = "list" -> Rank(TypeOf(v)) \in 1..MaxRank /\ \A i \in DOMAIN v[2] : Small(v[2][i])
      [] OTHER -> FALSE

(* x := F(x).  Nothing has been assigned to a part of the variable yet.    *)
Compute(F(_)) ==
    LET new == F(x)
    IN /\ ~failed /\ index = This /\ Small(x) /\ steps < MaxSteps
       /\ x' = IF new = Error THEN x ELSE new
       /\ before' = x' /\ elems' = new
       /\ failed' = (new = Error)
       /\ twin' = IF twin = Error THEN twin ELSE F(twin)
       /\ steps' = steps + 1
       /\ UNCHANGED index

Apply(op)        == Compute(LAMBDA v : Call1(op, v))
Combine(op, y)   == Compute(LAMBDA v : Call2(op, v, y))
CombineR(op, y)  == Compute(LAMBDA v : Call2(op, y, v))
Fold(op)         == Compute(LAMBDA v : Reduce(op, v))
Product(y)       == Compute(LAMBDA v : Dot(v, y))
ProductR(y)      == Compute(LAMBDA v : Dot(y, v))
Compare(y)       == Compute(LAMBDA v : Equals(v, y))
Choose(y, z)     == Compute(LAMBDA v : IfElse(v, y, z))
Look(i)          == Compute(LAMBDA v : Index(v, i))
LookUp(y)        == Compute(LAMBDA v : Index(y, v))
MakeList(y)      == Compute(LAMBDA v : List(<<v, y>>))

Ended == (failed \/ x \notin Trees) /\ UNCHANGED vars

Next ==
    \/ Ended
    \/ \E i \in Indexes, es \in Elems : AssignBoth(i, es)
    \/ \E op \in UnaryOps \cap Ops : Apply(op)
    \/ \E op \in BinaryOps \cap Ops : Fold(op)
    \/ \E y \in Operands :
          \/ \E op \in BinaryOps \cap Ops : Combine(op, y) \/ CombineR(op, y)
          \/ /\ MixedProducts \/ Rank(TypeOf(x)) = Rank(TypeOf(y))
             /\ Product(y) \/ ProductR(y)
          \/ Compare(y) \/ Look(y) \/ LookUp(y) \/ MakeList(y)
          \/ \E z \in Operands : Choose(y, z)

Spec == Init /\ [][Next]_vars

-------------------------------------------------------------------------------
(* Element-wise operation and broadcasting (docs/language/Arrays.rst): the *)
(* parts of the result are the parts of the operands, and a leaf of it is  *)
(* the operation on the leaves above or at its place.                      *)

RECURSIVE LeafPaths(_, _)
LeafPaths(kind, v) ==
    IF IsScalar(kind, v) \/ Kind(v) # "list" THEN {<<>>}
    ELSE UNION {{<<i>> \o p : p \in LeafPaths(kind, v[2][i])} : i \in DOMAIN v[2]}

RECURSIVE PartAt(_, _, _)
PartAt(kind, v, path) ==
    IF path = <<>> \/ IsScalar(kind, v) \/ Kind(v) # "list" THEN v
    ELSE PartAt(kind, v[2][Head(path)], Tail(path))

ResultKind(op) ==
    CASE op \in {"less", "and"} -> "bool"
      [] op = "lshift"     -> "bools"
      [] op = "bool32_sum" -> "bool32"
      [] OTHER -> "num"

IsBroadcast(op, v, y, result) ==
    LET lk == LeftKind(op)   P == LeafPaths(lk, v)
        rk == RightKind(op)  Q == LeafPaths(rk, y)
        leaves == {p \in P \cup Q : \A q \in P \cup Q : IsPrefix(p, q) => q = p}
        Related(p, q) == IsPrefix(p, q) \/ IsPrefix(q, p)
        conform == /\ \A p \in P : \E q \in Q : Related(p, q)
                   /\ \A q \in Q : \E p \in P : Related(p, q)
        At1(p) == PartAt(lk, v, p)
        At2(p) == PartAt(rk, y, p)
        defined == \A p \in leaves : /\ IsScalar(lk, At1(p)) /\ IsScalar(rk, At2(p))
                                     /\ Scalar2(op, At1(p), At2(p)) # Error
    IN IF ~conform \/ ~defined THEN result = Error
       ELSE /\ LeafPaths(ResultKind(op), result) = leaves
            /\ \A p \in leaves : PartAt(ResultKind(op), result, p)
                                    = Scalar2(op, At1(p), At2(p))

(* An operation on two arrays is the operation on their scalars, element   *)
(* by element where both have elements and with the same scalar where one  *)
(* has none; arrays that do not conform are an error.  A string on the     *)
(* left is left out: what happens then is undefined.                       *)
ArraysBroadcast ==
    Small(x) => \A op \in BinaryOps, y \in Operands :
                    /\ IsBroadcast(op, x, y, Call2(op, x, y))
                    /\ Kind(y) # "string" => IsBroadcast(op, y, x, Call2(op, y, x))

(* As long as both programs run, the type that is announced for the twin   *)
(* is the type of the value it stands for, and the code that is compiled   *)
(* for it, if any, has this type.                                          *)
TwinHasType ==
    twin # Error /\ ~failed =>
        /\ TypeOf(twin) = TypeOf(x)
        /\ Kind(twin) = "reactive" => CodeOf(twin) \in {TypeOf(twin), NoType}
===============================================================================

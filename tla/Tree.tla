--------------------------------- MODULE Tree ---------------------------------
(***************************************************************************)
(* Indexed assignment, x.[index] := elems, and the operations on trees it  *)
(* is made of (libcurv/tree.cc, list.cc): fetch and amend a tree of lists  *)
(* and records by numbers, symbols, lists of indexes, paths and slices.    *)
(***************************************************************************)
EXTENDS Values

CONSTANTS
    Trees,     \* bound: the values the variable may have
    Indexes,   \* what the program indexes it with
    Elems      \* what the program assigns

VARIABLES
    x,        \* the variable
    before,   \* its value before the last assignment
    index, elems, failed  \* that assignment, and whether it was an error

-------------------------------------------------------------------------------
(* Lists and records                                                       *)

(* Generic_List                                                            *)
IsList(v) == Kind(v) \in {"list", "string"} \/ (Kind(v) = "reactive" /\ IsArray(v[2]))
Size(v)   == IF Kind(v) = "reactive" THEN Count(v[2]) ELSE Len(v[2])
InRange(i, v) == i[2] \in 0..(Size(v) - 1)

(* The type of the code for an element of an array                         *)
Indexed(c) == IF IsVec(c) \/ PlexRank(c) <= 1 THEN ElemType(c) ELSE NoType
At(v, i)  == IF Kind(v) = "reactive" THEN Reactive(ElemType(v[2]), Indexed(v[3]))
             ELSE v[2][i[2] + 1]
Has(v, i) == Kind(v) = "record" /\ i[2] \in DOMAIN v[2]

(* Generic_List::amend_at                                                  *)
AmendAt(v, i, new) ==
    LET s == ReplaceAt(v[2], i[2] + 1, new)
    IN CASE Kind(v) = "reactive" -> Error
         [] Kind(v) = "string" /\ Kind(new) = "char" -> String(s)
         [] OTHER -> List(s)

(* DRecord::ref_field                                                      *)
Bug_AllFields(v, i, new) == Record([k \in DOMAIN v[2] |-> new])
AmendField(v, i, new) == Record([v[2] EXCEPT ![i[2]] = new])

-------------------------------------------------------------------------------
(* The constructors of paths and slices, TPath_Builder                     *)

RECURSIVE PushBack(_, _, _)
Bug_KeepThis(kind, cur, v) ==
    IF cur = Missing THEN v ELSE <<kind, v, cur>>
PushBack(kind, cur, v) ==
    CASE v = This       -> cur
      [] v # This /\ cur = Missing -> v
      [] cur # Missing /\ Kind(v) = kind ->
            PushBack(kind, PushBack(kind, cur, v[3]), v[2])
      [] OTHER          -> <<kind, v, cur>>

Build(kind, s) ==
    IF Len(s) = 1 THEN s[1]
    ELSE LET cur == FoldRight(LAMBDA v, c : PushBack(kind, c, v), s, Missing)
         IN IF cur = Missing THEN This ELSE cur

TPath(s)  == Build("tpath", s)
TSlice(s) == Build("tslice", s)
Slice(i, j) == <<"tslice", i, j>>

-------------------------------------------------------------------------------
(* tree_fetch and tree_fetch_slice                                         *)

RECURSIVE Fetch(_, _), FetchSlice(_, _, _)
FetchElement(tree, i) ==
    CASE Kind(i) = "num" ->
            IF IsList(tree) /\ InRange(i, tree) THEN At(tree, i) ELSE Error
      [] Kind(i) = "symbol" ->
            IF Has(tree, i) THEN tree[2][i[2]] ELSE Error

Fetch(tree, i) ==
    CASE Kind(i) \in {"num", "symbol"} -> FetchElement(tree, i)
      [] Kind(i) = "list" ->
            AllOrError([k \in DOMAIN i[2] |-> Fetch(tree, i[2][k])], BuildList)
      [] Kind(i) = "tpath" ->
            LET r == Fetch(tree, i[2]) IN IF r = Error THEN r ELSE Fetch(r, i[3])
      [] Kind(i) = "tslice" -> FetchSlice(tree, i[2], i[3])
      [] Kind(i) = "this" -> tree
      [] OTHER -> Error

Bug_SliceOnce(tree, i, j) ==
    LET r == Fetch(tree, i) IN IF r = Error THEN r ELSE Fetch(r, j)
FetchSlice(tree, i, j) ==
    CASE Kind(i) \in {"num", "symbol"} ->
            LET r == FetchElement(tree, i) IN IF r = Error THEN r ELSE Fetch(r, j)
      [] Kind(i) = "list" ->
            AllOrError([k \in DOMAIN i[2] |-> FetchSlice(tree, i[2][k], j)], BuildList)
      [] Kind(i) = "tpath" ->
            LET r == Fetch(tree, i[2])
            IN IF r = Error THEN r ELSE FetchSlice(r, i[3], j)
      [] Kind(i) = "tslice" -> FetchSlice(tree, i[2], Slice(i[3], j))
      [] Kind(i) = "this" -> Fetch(tree, j)
      [] OTHER -> Error

-------------------------------------------------------------------------------
(* tree_amend and tree_amend_slice                                         *)

AmendElement(tree, i, new) ==
    IF Error \in {new, FetchElement(tree, i)} THEN Error
    ELSE IF Kind(i) = "num" THEN AmendAt(tree, i, new)
    ELSE AmendField(tree, i, new)

(* One element of es after the other goes to the place that an element of  *)
(* the list i selects; Put(r, k, e) does it for one.                       *)
AmendAll(tree, i, es, Put(_, _, _)) ==
    IF ~IsList(es) \/ Len(i[2]) # Size(es) THEN Error
    ELSE FoldLeft(LAMBDA r, k : IF r = Error THEN r ELSE Put(r, i[2][k], At(es, Num(k - 1))),
                  tree, [k \in DOMAIN i[2] |-> k])

RECURSIVE Amend(_, _, _), AmendSlice(_, _, _, _)
Amend(tree, i, es) ==
    CASE Kind(i) \in {"num", "symbol"} -> AmendElement(tree, i, es)
      [] Kind(i) = "list" -> AmendAll(tree, i, es, Amend)
      [] Kind(i) = "tpath" ->
            LET e  == Fetch(tree, i[2])
                ne == Amend(e, i[3], es)
            IN IF Error \in {e, ne} THEN Error ELSE Amend(tree, i[2], ne)
      [] Kind(i) = "tslice" -> AmendSlice(tree, i[2], i[3], es)
      [] Kind(i) = "this" -> es
      [] OTHER -> Error

AmendSlice(tree, i, j, es) ==
    CASE Kind(i) \in {"num", "symbol"} ->
            LET e == FetchElement(tree, i)
            IN IF e = Error THEN e ELSE AmendElement(tree, i, Amend(e, j, es))
      [] Kind(i) = "list" ->
            AmendAll(tree, i, es,
                     LAMBDA r, k, e :
                        LET old == Fetch(r, k)
                            new == Amend(old, j, e)
                        IN IF Error \in {old, new} THEN Error ELSE Amend(r, k, new))
      [] Kind(i) = "tpath" ->
            LET e  == Fetch(tree, i[2])
                ne == Amend(e, i[3], es)
            IN IF Error \in {e, ne} THEN Error ELSE AmendSlice(tree, i[2], j, ne)
      [] Kind(i) = "tslice" -> AmendSlice(tree, i[2], Slice(i[3], j), es)
      [] Kind(i) = "this" -> Amend(tree, j, es)
      [] OTHER -> Error

-------------------------------------------------------------------------------
(* Indexed_Locative::store                                                 *)
Assign(i, es) ==
    LET new == Amend(x, i, es)
    IN /\ ~failed /\ x \in Trees
       /\ index' = i /\ elems' = es /\ before' = x
       /\ failed' = (new = Error)
       /\ x' = IF new = Error THEN x ELSE new

-------------------------------------------------------------------------------
(* What an index means (docs/language/Trees.rst): it selects a place of    *)
(* the tree, or a structure of places.  A place is a path of numbers and   *)
(* symbols.                                                                *)

RECURSIVE Sub(_, _), Put(_, _, _)
Sub(tree, path) ==
    IF path = <<>> THEN tree ELSE Sub(FetchElement(tree, Head(path)), Tail(path))
Put(tree, path, new) ==
    IF path = <<>> THEN new
    ELSE LET sub == Put(FetchElement(tree, Head(path)), Tail(path), new)
             k == Head(path)[2]
         IN IF Kind(tree) = "record" THEN Record([tree[2] EXCEPT ![k] = sub])
            ELSE BuildList([tree[2] EXCEPT ![k + 1] = sub])

Place(path) == <<"place", path>>
Places(s)   == <<"places", s>>

Step(tree, w, i) ==
    IF Kind(w) = "places"
    THEN IF Kind(i) = "num" /\ InRange(i, w) THEN At(w, i) ELSE Error
    ELSE IF FetchElement(Sub(tree, w[2]), i) = Error THEN Error
         ELSE Place(Append(w[2], i))

(* The places that i selects among those of w, and slices of them          *)
RECURSIVE Select(_, _, _), SelectSlice(_, _, _, _)
Select(tree, w, i) ==
    CASE w = Error -> Error
      [] w # Error /\ Kind(i) \in {"num", "symbol"} -> Step(tree, w, i)
      [] w # Error /\ Kind(i) = "list" ->
            AllOrError([k \in DOMAIN i[2] |-> Select(tree, w, i[2][k])], Places)
      [] w # Error /\ Kind(i) = "tpath" -> Select(tree, Select(tree, w, i[2]), i[3])
      [] w # Error /\ Kind(i) = "tslice" -> SelectSlice(tree, w, i[2], i[3])
      [] w # Error /\ Kind(i) = "this" -> w
      [] OTHER -> Error
SelectSlice(tree, w, i, j) ==
    CASE w # Error /\ Kind(i) = "list" ->
            AllOrError([k \in DOMAIN i[2] |-> SelectSlice(tree, w, i[2][k], j)], Places)
      [] w # Error /\ Kind(i) = "tpath" ->
            SelectSlice(tree, Select(tree, w, i[2]), i[3], j)
      [] w # Error /\ Kind(i) = "tslice" ->
            SelectSlice(tree, w, i[2], Slice(i[3], j))
      [] OTHER -> Select(tree, Select(tree, w, i), j)

RECURSIVE Read(_, _), Write(_, _, _), PathsOf(_)
Read(tree, w) ==
    CASE Kind(w) = "error"  -> Error
      [] Kind(w) = "place"  -> Sub(tree, w[2])
      [] Kind(w) = "places" -> BuildList([k \in DOMAIN w[2] |-> Read(tree, w[2][k])])
Write(tree, w, es) ==
    CASE Kind(w) = "error" -> Error
      [] Kind(w) = "place" -> Put(tree, w[2], es)
      [] Kind(w) = "places" ->
            AmendAll(tree, List(w[2]), es,
                     LAMBDA r, v, e : Write(r, v, e))

PathsOf(w) ==
    CASE Kind(w) = "error"  -> <<>>
      [] Kind(w) = "place"  -> <<w[2]>>
      [] Kind(w) = "places" -> FlattenSeq([k \in DOMAIN w[2] |-> PathsOf(w[2][k])])

Selected(tree, i) == Select(tree, Place(<<>>), i)

(* The index selects no part of the tree twice.                            *)
Disjoint(tree, i) ==
    LET s == PathsOf(Selected(tree, i))
    IN \A k, l \in DOMAIN s : k # l => ~IsPrefix(s[k], s[l])

(* An index of several parts may select, with the second, an element that  *)
(* the assignment to the first has just made.                              *)
RECURSIVE HasList(_)
HasList(i) ==
    CASE Kind(i) = "list" -> TRUE
      [] Kind(i) \in {"tpath", "tslice"} -> HasList(i[2]) \/ HasList(i[3])
      [] OTHER -> FALSE

(* Equality of values: the representation of a list does not matter.       *)
RECURSIVE Normal(_)
Normal(v) ==
    CASE IsList(v) -> List([k \in DOMAIN v[2] |-> Normal(v[2][k])])
      [] Kind(v) = "record" -> Record([k \in DOMAIN v[2] |-> Normal(v[2][k])])
      [] OTHER -> v
Equal(v, w) == Normal(v) = Normal(w)

-------------------------------------------------------------------------------

(* tree.[index] is the structure of elements that the index selects.       *)
FetchSelects ==
    \A i \in Indexes : Equal(Fetch(x, i), Read(x, Selected(x, i)))

RECURSIVE SlicesPath(_)
SlicesPath(i) ==
    CASE Kind(i) = "list"   -> \E k \in DOMAIN i[2] : SlicesPath(i[2][k])
      [] Kind(i) = "tpath"  -> SlicesPath(i[2]) \/ SlicesPath(i[3])
      [] Kind(i) = "tslice" -> \/ Kind(i[2]) = "tpath"
                               \/ SlicesPath(i[2]) \/ SlicesPath(i[3])
      [] OTHER -> FALSE

(* An assignment replaces the elements that the index selects by the new   *)
(* ones and leaves the rest of the tree alone, or it is an error.  (Not    *)
(* known for indexes that select a part twice, and false for slices whose  *)
(* first index is a path.)                                                 *)
Replaced ==
    LET selected == Selected(before, index)
        written  == Write(before, selected, elems)
    IN IF selected = Error THEN HasList(index) \/ failed
       ELSE /\ failed <=> (written = Error)
            /\ failed \/ Equal(x, written)
AmendReplaces ==
    Disjoint(before, index) /\ ~SlicesPath(index) => Replaced

(* tpath and tslice are associative, and `this` is their identity.         *)
IndexLaws ==
    LET Laws(Make(_)) ==
            /\ Make(<<Make(<<index, elems>>), This>>) = Make(<<index, elems>>)
            /\ Make(<<This, index>>) = index /\ Make(<<index, This>>) = index
            /\ \A i \in Indexes :
                  Make(<<Make(<<index, i>>), elems>>)
                    = Make(<<index, Make(<<i, elems>>)>>)
    IN Laws(TPath) /\ Laws(TSlice)
===============================================================================

-------------------------------- MODULE MCTree --------------------------------
(* Trees of lists, strings and records up to three levels deep; indexes    *)
(* made of all pairs of simple ones.                                       *)
EXTENDS ArrayProgram

Pair(v, w) == List(<<v, w>>)
Rec(v, w)  == Record([a |-> v, b |-> w])
N(n)       == Num(n)
AB         == String(<<Char("a"), Char("b")>>)

Simple == {N(0), N(1), Symbol("a"), This}
Lists  == {Pair(i, j) : i, j \in Simple} \cup {List(<<N(1)>>), List(<<>>)}
Both(S, T) == {TPath(<<i, j>>) : i \in S, j \in T} \cup {TSlice(<<i, j>>) : i \in S, j \in T}
SomeLists == {Pair(N(0), N(1)), Pair(N(1), N(0)), List(<<N(1)>>)}

PairIndexes == Simple \cup Lists \cup Both(Simple, Simple \cup SomeLists)
                  \cup Both(SomeLists, Simple \cup SomeLists) \cup {N(2), N(-1), Char("a")}
NestedIndexes ==
    PairIndexes
    \cup {TPath(<<i, j>>) : i \in Both({N(1)}, SomeLists \cup Simple), j \in Simple}
    \cup {TSlice(<<i, j>>) : i \in SomeLists, j \in Both({N(0)}, Simple)}
    \cup {TSlice(<<List(<<TSlice(<<N(0), N(1)>>), N(1)>>), N(1)>>),
          TSlice(<<TPath(<<N(0), N(1)>>), N(0)>>)}

SmallTrees ==
    {N(1), AB, Pair(N(1), N(2)), Rec(N(1), N(2)),
     Pair(Pair(N(1), N(2)), Pair(N(3), N(4))), Pair(AB, Rec(N(1), N(2))),
     Rec(Pair(N(1), N(2)), AB),
     Pair(Pair(Pair(N(1), N(2)), AB), Pair(Pair(N(3), N(4)), Pair(N(5), N(6))))}
NewElems ==
    {N(8), Char("z"), Pair(N(8), N(9)), Pair(Pair(N(7), N(8)), Pair(N(9), N(6))),
     List(<<N(9)>>)}

B(b) == Bool(b)
Vec3(a, b, c) == List(<<N(a), N(b), N(c)>>)
Word(n) == nat_to_bool32(n)
MCParameters == {N(1), B(TRUE), Vec3(0, 1, 2)}
MCOperands ==
    {N(0), N(1), N(2), B(TRUE), B(FALSE), Pair(N(1), N(2)), Pair(B(TRUE), B(FALSE)),
     Vec3(2, 0, 1), Pair(Pair(N(1), N(2)), Pair(N(2), N(0))), Word(6),
     Pair(Word(1), Word(3)), AB}
MostOps == (UnaryOps \cup BinaryOps) \ {"and"}
OnlyAdd == {"add"}
===============================================================================

------------------------- MODULE RecursiveScope_proofs -------------------------
(***************************************************************************)
(* Proofs about RecursiveScope for any number of definitions and any       *)
(* program: Tarjan's algorithm, as analyse_unit() runs it on two stacks,   *)
(* yields the components, and in dependency order.                         *)
(***************************************************************************)
EXTENDS RecursiveScope, SequenceTheorems, TLAPS

(* The units on the two stacks: those whose component is not yet known,    *)
(* and those whose definition is being analysed.                           *)
Pending == ToSet(sccStack)
Active  == ToSet(analysisStack)

Messages == {"illegal recursive reference", "recursive data definition"}

TypeOK ==
    /\ program \in [fun : SUBSET Units, refs : [Units -> SUBSET Units]]
    /\ todo \in [Units -> SUBSET Units]
    /\ state \in [Units -> {"not_analysed", "in_progress", "analysed"}]
    /\ ord \in [Units -> Int] /\ low \in [Units -> Int] /\ count \in Nat
    /\ sccStack \in Seq(Units) /\ analysisStack \in Seq(Units)
    /\ actions \in Seq([units : Seq(Units), reads : SUBSET Units])
    /\ outcome \in {"running", "ok"} \cup Messages

(* The orders of a stack's units increase from the bottom to the top.      *)
Increasing(s, o) == \A i, j \in DOMAIN s : i < j => o[s[i]] < o[s[j]]
Sorted(s) == Increasing(s, ord)

StacksInv ==
    /\ Sorted(sccStack) /\ Sorted(analysisStack)
    /\ Pending = {u \in Units : state[u] = "in_progress"}
    /\ Active \subseteq Pending
    /\ \A u \in Pending : ord[u] \in 0..(count - 1)

(* u and v are the same unit, or u leads to v.                             *)
Leads(u, v) == u = v \/ Reaches(u, v)

(* The references of a unit that were met; none goes back to data.         *)
MetInv ==
    /\ \A u \in Units :
         /\ todo[u] \subseteq program.refs[u]
         /\ state[u] = "not_analysed" => todo[u] = program.refs[u]
         /\ state[u] # "not_analysed" /\ u \notin Active => todo[u] = {}
    /\ \A u \in Pending : \A w \in program.refs[u] \ todo[u] :
         /\ state[w] # "not_analysed"
         /\ w \in Pending /\ ~IsFunction(w) => ord[u] < ord[w]
    /\ \A u, v \in Active : ord[u] < ord[v] => Reaches(u, v)

(* The active unit v holds u: its analysis will decide what u belongs to.  *)
Holds(v, u) ==
    /\ ord[v] <= ord[u]
    /\ \A w \in Active : ord[w] <= ord[u] => ord[w] <= ord[v]
    /\ Leads(u, v) /\ Leads(v, u)
    /\ low[v] <= low[u]
    /\ \A w \in program.refs[u] \ todo[u] : w \in Pending => low[v] <= ord[w]

HeldInv == \A u \in Pending : \E v \in Active : Holds(v, u)

(* A lowlink is the order of a function that the unit leads to, or its own.*)
LowOf(u, x) ==
    /\ low[u] = ord[x] /\ low[u] <= ord[u]
    /\ x = u \/ (IsFunction(x) /\ Reaches(u, x))

LowInv ==
    \A u \in Pending :
        /\ \E x \in Pending : LowOf(u, x)
        /\ u \notin Active => low[u] < ord[u]

(* The actions are components, and each reads what earlier ones have set.  *)
Component(i) ==
    LET units == ToSet(actions[i].units) IN
    /\ units \cap Initialised(i - 1) = {}
    /\ \A u, v \in units : Leads(u, v)
    /\ actions[i].reads = (UNION {program.refs[u] : u \in units}) \ units
    /\ actions[i].reads \subseteq Initialised(i - 1)
    /\ \A u \in units :
         ~IsFunction(u) => units = {u} /\ u \notin program.refs[u]

ActionsInv ==
    /\ \A i \in DOMAIN actions : Component(i)
    /\ Initialised(Len(actions)) = {u \in Units : state[u] = "analysed"}

OutcomeInv ==
    /\ outcome = "ok" =>
         analysisStack = <<>> /\ \A u \in Units : state[u] # "not_analysed"
    /\ outcome \in Messages => \E u \in Units : InCycle(u) /\ ~IsFunction(u)

IInv ==
    /\ TypeOK /\ StacksInv /\ MetInv /\ HeldInv /\ LowInv
    /\ ActionsInv /\ OutcomeInv

-----------------------------------------------------------------------------
(* A reference leads to its unit, ...                                      *)
LEMMA RefReaches ==
    ASSUME TypeOK, NEW u \in Units, NEW v \in program.refs[u]
    PROVE  Reaches(u, v)
  BY DEF Reaches

(* ... and a path goes on where another ends.                              *)
LEMMA ReachTrans ==
    ASSUME NEW u \in Units, NEW v \in Units, NEW w \in Units,
           Reaches(u, v), Reaches(v, w)
    PROVE  Reaches(u, w)
  BY DEF Reaches

(* The last element of a sorted stack has the greatest order.              *)
LEMMA TopFacts ==
    ASSUME NEW s \in Seq(Units), s # <<>>, Sorted(s), ord \in [Units -> Int]
    PROVE  /\ Last(s) \in ToSet(s) /\ Last(s) \in Units
           /\ \A u \in ToSet(s) : u = Last(s) \/ ord[u] < ord[Last(s)]
           /\ Front(s) \in Seq(Units) /\ Sorted(Front(s))
           /\ ToSet(Front(s)) = ToSet(s) \ {Last(s)}
<1>1. Len(s) \in Nat /\ DOMAIN s = 1..Len(s) /\ Len(s) # 0
  BY LenProperties, EmptySeq
<1>2. \A i \in 1..Len(s) : s[i] \in Units
  BY ElementOfSeq
<1>3. Last(s) = s[Len(s)] /\ Front(s) = SubSeq(s, 1, Len(s) - 1)
  BY DEF Last, Front
<1>4. /\ Front(s) \in Seq(Units) /\ Len(Front(s)) = Len(s) - 1
      /\ DOMAIN Front(s) = 1..(Len(s) - 1)
      /\ \A i \in 1..(Len(s) - 1) : Front(s)[i] = s[i]
  BY <1>1, <1>2, <1>3, SubSeqProperties, LenProperties
<1> DEFINE n == Len(s)
           f == Front(s)
<1>5. /\ n \in Nat \ {0} /\ DOMAIN s = 1..n /\ Last(s) = s[n]
      /\ DOMAIN f = 1..(n - 1) /\ \A i \in 1..(n - 1) : f[i] = s[i]
  BY <1>1, <1>3, <1>4
<1>6. \A i \in 1..(n - 1) : ord[s[i]] < ord[s[n]]
  <2>1. \A i, j \in 1..n : i < j => ord[s[i]] < ord[s[j]]
    BY <1>5 DEF Sorted, Increasing
  <2>2. n \in Nat \ {0}
    BY <1>5
  <2> HIDE DEF n
  <2>3. QED
    BY <2>1, <2>2
<1>7. /\ ToSet(s) = {s[i] : i \in 1..n}
      /\ ToSet(f) = {s[i] : i \in 1..(n - 1)}
  BY <1>5 DEF ToSet
<1> HIDE DEF n, f
<1>8. ASSUME NEW u \in ToSet(s) PROVE u = Last(s) \/ ord[u] < ord[Last(s)]
  BY <1>5, <1>6, <1>7, <1>8
<1>9. Sorted(f)
  BY <1>5 DEF Sorted, Increasing
<1>10. ToSet(f) = ToSet(s) \ {Last(s)}
  <2>1. \A i \in 1..(n - 1) : s[i] # s[n]
    BY <1>2, <1>5, <1>6 DEF n
  <2>2. 1..n = 1..(n - 1) \cup {n}
    BY <1>5
  <2>3. QED
    BY <1>5, <1>7, <2>1, <2>2
<1>11. Last(s) \in ToSet(s)
  BY <1>5, <1>7
<1>12. QED
  BY <1>2, <1>4, <1>5, <1>8, <1>9, <1>10, <1>11 DEF n, f

(* A new unit goes on top of both stacks.                                  *)
LEMMA PushFacts ==
    ASSUME NEW s \in Seq(Units), NEW u \in Units, NEW o \in [Units -> Int],
           Increasing(s, o), \A v \in ToSet(s) : o[v] < o[u]
    PROVE  /\ Append(s, u) \in Seq(Units) /\ Increasing(Append(s, u), o)
           /\ ToSet(Append(s, u)) = ToSet(s) \cup {u}
           /\ Append(s, u) # <<>> /\ Last(Append(s, u)) = u
<1> DEFINE n == Len(s)
           t == Append(s, u)
<1>1. /\ n \in Nat /\ DOMAIN s = 1..n
      /\ t \in Seq(Units) /\ Len(t) = n + 1 /\ DOMAIN t = 1..(n + 1)
      /\ \A i \in 1..n : t[i] = s[i] /\ s[i] \in ToSet(s)
      /\ t[n + 1] = u
  BY LenProperties, AppendProperties DEF ToSet
<1>2. ToSet(s) = {s[i] : i \in 1..n} /\ ToSet(t) = {t[i] : i \in 1..(n + 1)}
  BY <1>1 DEF ToSet
<1>3. Last(t) = t[n + 1]
  BY <1>1 DEF Last
<1>4. t # <<>>
  BY <1>1, EmptySeq
<1> HIDE DEF n, t
<1>5. ASSUME NEW i \in 1..(n + 1), NEW j \in 1..(n + 1), i < j
      PROVE  o[t[i]] < o[t[j]]
  <2>1. i \in 1..n /\ t[i] = s[i] /\ s[i] \in ToSet(s)
    BY <1>1, <1>5
  <2>2. CASE j = n + 1
    BY <1>1, <2>1, <2>2
  <2>3. CASE j # n + 1
    <3>1. j \in 1..n /\ t[j] = s[j]
      BY <1>1, <1>5, <2>3
    <3>2. QED
      BY <1>1, <1>5, <2>1, <3>1 DEF Increasing
  <2>4. QED
    BY <2>2, <2>3
<1>6. Increasing(t, o)
  BY <1>1, <1>5 DEF Increasing
<1>7. ToSet(t) = ToSet(s) \cup {u}
  <2>1. 1..(n + 1) = 1..n \cup {n + 1}
    BY <1>1
  <2>2. ToSet(t) = {t[i] : i \in 1..n} \cup {t[n + 1]}
    BY <1>2, <2>1
  <2>3. QED
    BY <1>1, <1>2, <2>2
<1>8. QED
  BY <1>1, <1>3, <1>4, <1>6, <1>7 DEF t

(* A sorted stack is cut below one of its elements.                        *)
LEMMA CutFacts ==
    ASSUME NEW s \in Seq(Units), Sorted(s), ord \in [Units -> Int],
           NEW i \in DOMAIN s
    PROVE  LET up   == SubSeq(s, i, Len(s))
               down == SubSeq(s, 1, Len(s) - Len(up))
           IN  /\ up \in Seq(Units) /\ down \in Seq(Units) /\ Sorted(down)
               /\ ToSet(up) = {v \in ToSet(s) : ord[s[i]] <= ord[v]}
               /\ ToSet(down) = {v \in ToSet(s) : ord[v] < ord[s[i]]}
<1> DEFINE n    == Len(s)
           up   == SubSeq(s, i, n)
           down == SubSeq(s, 1, n - Len(up))
<1>1. n \in Nat /\ DOMAIN s = 1..n /\ i \in 1..n
  BY LenProperties
<1>2. \A k \in 1..n : s[k] \in Units
  BY <1>1, ElementOfSeq
<1>3. /\ up \in Seq(Units) /\ Len(up) = n - i + 1
      /\ \A k \in 1..(n - i + 1) : up[k] = s[i + k - 1]
  <2>1. n \in Nat /\ i \in 1..n /\ i <= n + 1
    BY <1>1
  <2>2. \A k \in i..n : s[k] \in Units
    BY <1>2, <2>1
  <2>3. n \in Int /\ i \in Int
    BY <2>1
  <2> HIDE DEF n
  <2>4. /\ SubSeq(s, i, n) \in Seq(Units)
        /\ Len(SubSeq(s, i, n)) = IF i <= n THEN n - i + 1 ELSE 0
        /\ \A k \in 1..(n - i + 1) : SubSeq(s, i, n)[k] = s[i + k - 1]
    BY <2>2, <2>3, SubSeqProperties
  <2>5. i <= n
    BY <2>1
  <2>6. QED
    BY <2>4, <2>5
<1>4. /\ down \in Seq(Units) /\ Len(down) = i - 1
      /\ \A k \in 1..(i - 1) : down[k] = s[k]
  BY <1>1, <1>2, <1>3, SubSeqProperties
<1>5. DOMAIN up = 1..(n - i + 1) /\ DOMAIN down = 1..(i - 1)
  BY <1>3, <1>4, LenProperties
<1>6. ToSet(up) = {up[k] : k \in 1..(n - i + 1)}
  BY <1>5 DEF ToSet
<1>7. ToSet(down) = {down[k] : k \in 1..(i - 1)}
  BY <1>5 DEF ToSet
<1>8. ToSet(s) = {s[k] : k \in 1..n}
  BY <1>1 DEF ToSet
<1>9. \A k \in 1..n : (k < i => ord[s[k]] < ord[s[i]])
                      /\ (i <= k => ord[s[i]] <= ord[s[k]])
  BY <1>1, <1>2 DEF Sorted, Increasing
<1> HIDE DEF n, up, down
<1>10. Sorted(down)
  <2>1. \A k, l \in 1..(i - 1) : k < l => ord[s[k]] < ord[s[l]]
    <3>1. \A k, l \in 1..n : k < l => ord[s[k]] < ord[s[l]]
      BY <1>1 DEF Sorted, Increasing
    <3>2. 1..(i - 1) \subseteq 1..n
      BY <1>1
    <3>3. QED
      BY <3>1, <3>2
  <2>2. \A k, l \in 1..(i - 1) : k < l => ord[down[k]] < ord[down[l]]
    BY <1>4, <2>1
  <2>3. QED
    BY <1>5, <2>2 DEF Sorted, Increasing
<1>11. ToSet(up) = {v \in ToSet(s) : ord[s[i]] <= ord[v]}
  <2>1. ASSUME NEW k \in 1..(n - i + 1)
        PROVE  up[k] \in ToSet(s) /\ ord[s[i]] <= ord[up[k]]
    <3>1. i + k - 1 \in 1..n /\ i <= i + k - 1
      <4>1. n \in Nat /\ i \in 1..n
        BY <1>1
      <4>2. QED
        BY <2>1, <4>1
    <3>2. up[k] = s[i + k - 1]
      BY <1>3, <2>1
    <3>3. QED
      BY <1>8, <1>9, <3>1, <3>2
  <2>2. ASSUME NEW k \in 1..n, ord[s[i]] <= ord[s[k]]
        PROVE  s[k] \in ToSet(up)
    <3>1. i <= k
      BY <1>1, <1>2, <1>9, <2>2
    <3>2. PICK m \in 1..(n - i + 1) : i + m - 1 = k
      <4>1. k - i + 1 \in 1..(n - i + 1) /\ i + (k - i + 1) - 1 = k
        BY <1>1, <3>1
      <4>2. QED
        BY <4>1
    <3>3. QED
      BY <1>3, <1>6, <3>2
  <2>3. QED
    BY <1>6, <1>8, <2>1, <2>2
<1>12. ToSet(down) = {v \in ToSet(s) : ord[v] < ord[s[i]]}
  <2>1. ASSUME NEW k \in 1..(i - 1)
        PROVE  down[k] \in ToSet(s) /\ ord[down[k]] < ord[s[i]]
    <3>1. k \in 1..n /\ k < i /\ down[k] = s[k]
      BY <1>1, <1>4
    <3>2. QED
      BY <1>8, <1>9, <3>1
  <2>2. ASSUME NEW k \in 1..n, ord[s[k]] < ord[s[i]]
        PROVE  s[k] \in ToSet(down)
    <3>1. k < i
      BY <1>1, <1>2, <1>9, <2>2
    <3>2. k \in 1..(i - 1) /\ down[k] = s[k]
      BY <1>1, <1>4, <3>1
    <3>3. QED
      BY <1>7, <3>2
  <2>3. \A v \in ToSet(down) : v \in ToSet(s) /\ ord[v] < ord[s[i]]
    BY <1>7, <2>1
  <2>4. \A v \in ToSet(s) : ord[v] < ord[s[i]] => v \in ToSet(down)
    BY <1>8, <2>2
  <2>5. QED
    BY <2>3, <2>4
<1>13. QED
  BY <1>3, <1>4, <1>10, <1>11, <1>12 DEF n, up, down

(* One more action.                                                        *)
LEMMA AppendAction ==
    ASSUME TypeOK, NEW a, NEW n, n = Len(actions),
           actions' = Append(actions, a)
    PROVE  /\ n \in Nat /\ DOMAIN actions = 1..n /\ DOMAIN actions' = 1..(n + 1)
           /\ Len(actions') = n + 1
           /\ \A i \in 1..n : actions'[i] = actions[i]
           /\ actions'[n + 1] = a
           /\ \A i \in 0..n : Initialised(i)' = Initialised(i)
           /\ \A x : x \in Initialised(n + 1)' <=>
                     x \in Initialised(n) \/ x \in ToSet(a.units)
<1> DEFINE A == [units : Seq(Units), reads : SUBSET Units]
<1>1. actions \in Seq(A \cup {a}) /\ a \in A \cup {a}
  BY SeqMonotonic DEF TypeOK
<1>2. /\ n \in Nat /\ DOMAIN actions = 1..n /\ DOMAIN actions' = 1..(n + 1)
      /\ Len(actions') = n + 1
      /\ \A i \in 1..n : actions'[i] = actions[i]
      /\ actions'[n + 1] = a
  BY <1>1, AppendProperties, LenProperties
<1>3. ASSUME NEW i \in 0..n PROVE Initialised(i)' = Initialised(i)
  <2>1. \A k \in 1..i : actions'[k] = actions[k]
    BY <1>2, <1>3
  <2>2. QED
    BY <2>1 DEF Initialised, ToSet
<1>4. ASSUME NEW x
      PROVE  x \in Initialised(n + 1)' <=>
                x \in Initialised(n) \/ x \in ToSet(a.units)
  <2>1. \A k : k \in 1..(n + 1) <=> k \in 1..n \/ k = n + 1
    BY <1>2
  <2>2. x \in Initialised(n + 1)' <=>
          \E k \in 1..(n + 1) : x \in ToSet(actions'[k].units)
    BY DEF Initialised, ToSet
  <2>3. x \in Initialised(n) <=> \E k \in 1..n : x \in ToSet(actions[k].units)
    BY DEF Initialised, ToSet
  <2>4. \A k \in 1..n : actions'[k] = actions[k]
    BY <1>2
  <2>5. actions'[n + 1] = a
    BY <1>2
  <2>6. QED
    BY <2>1, <2>2, <2>3, <2>4, <2>5, Zenon
<1>5. QED
  BY <1>2, <1>3, <1>4

-----------------------------------------------------------------------------
(* While the program stays, so does what leads to what.                    *)
LEMMA SameProgram ==
    ASSUME program' = program
    PROVE  /\ \A x, y : Reaches(x, y)' <=> Reaches(x, y)
           /\ \A x, y : Leads(x, y)' <=> Leads(x, y)
           /\ \A x : IsFunction(x)' <=> IsFunction(x)
           /\ \A x : InCycle(x)' <=> InCycle(x)
  BY DEF Reaches, Leads, IsFunction, InCycle

(* The actions while none is added.                                        *)
LEMMA SameActions ==
    ASSUME ActionsInv, program' = program, actions' = actions,
           \A v \in Units : state'[v] = "analysed" <=> state[v] = "analysed"
    PROVE  ActionsInv'
<1>1. \A i : Initialised(i)' = Initialised(i)
  BY DEF Initialised
<1>2. ASSUME NEW i \in DOMAIN actions, Component(i)
      PROVE  Component(i)'
  <2>1. Initialised(i - 1)' = Initialised(i - 1)
    BY <1>1
  <2>2. \A x, y : Leads(x, y)' <=> Leads(x, y)
    BY SameProgram
  <2>3. QED
    BY <1>2, <2>1, <2>2 DEF Component, IsFunction
<1>3. Initialised(Len(actions))' = Initialised(Len(actions))
  BY DEF Initialised
<1>4. QED
  BY <1>2, <1>3 DEF ActionsInv

(* The elements of the stacks are units, and the top unit is the latest.   *)
LEMMA StackFacts ==
    ASSUME TypeOK, StacksInv
    PROVE  /\ Active \subseteq Pending /\ Pending \subseteq Units
           /\ \A v \in Pending : ord[v] \in 0..(count - 1)
           /\ \A v, w \in Pending : ord[v] = ord[w] => v = w
           /\ analysisStack = <<>> => Active = {}
           /\ analysisStack # <<>> =>
                /\ Top \in Active
                /\ \A v \in Active : v = Top \/ ord[v] < ord[Top]
<1>1. /\ Active \subseteq Pending /\ Pending \subseteq Units
      /\ \A v \in Pending : ord[v] \in 0..(count - 1)
  BY DEF StacksInv
<1>2. \A v, w \in Pending : ord[v] = ord[w] => v = w
  <2>1. Len(sccStack) \in Nat /\ DOMAIN sccStack = 1..Len(sccStack)
    BY LenProperties DEF TypeOK
  <2>2. ASSUME NEW i \in DOMAIN sccStack, NEW j \in DOMAIN sccStack,
               ord[sccStack[i]] = ord[sccStack[j]]
        PROVE  i = j
    <3>1. ~(i < j) /\ ~(j < i)
      <4>1. ord[sccStack[i]] \in Int
        BY ElementOfSeq, <2>1 DEF TypeOK
      <4>2. QED
        BY <2>2, <4>1 DEF StacksInv, Sorted, Increasing
    <3>2. QED
      BY <2>1, <3>1
  <2>3. QED
    BY <2>2 DEF Pending, ToSet
<1>3. analysisStack = <<>> => Active = {}
  <2>1. ASSUME analysisStack = <<>> PROVE DOMAIN analysisStack = {}
    <3>1. Len(analysisStack) = 0
      BY <2>1, EmptySeq
    <3>2. QED
      BY <3>1, LenProperties DEF TypeOK
  <2>2. QED
    BY <2>1 DEF Active, ToSet
<1>4. ASSUME analysisStack # <<>>
      PROVE  /\ Top \in Active
             /\ \A v \in Active : v = Top \/ ord[v] < ord[Top]
  BY <1>4, TopFacts DEF TypeOK, StacksInv, Active, Top
<1>5. QED
  BY <1>1, <1>2, <1>3, <1>4

(* A unit is entered: it goes on both stacks and holds itself.             *)
LEMMA EnterStep ==
    ASSUME IInv, NEW u \in Units, state[u] = "not_analysed", Enter(u),
           outcome = "running",
           \/ /\ analysisStack = <<>>
              /\ todo' = todo
           \/ /\ analysisStack # <<>> /\ u \in todo[Top]
              /\ todo' = [todo EXCEPT ![Top] = @ \ {u}]
    PROVE  IInv'
<1>1. TypeOK /\ StacksInv /\ MetInv /\ HeldInv /\ LowInv /\ ActionsInv
  BY DEF IInv
<1>2. /\ Active \subseteq Pending /\ Pending \subseteq Units
      /\ \A v \in Pending : ord[v] \in 0..(count - 1)
      /\ analysisStack = <<>> => Active = {}
      /\ analysisStack # <<>> =>
           /\ Top \in Active
           /\ \A v \in Active : v = Top \/ ord[v] < ord[Top]
  BY <1>1, StackFacts
<1>3. u \notin Pending
  BY <1>1 DEF StacksInv
<1>4. /\ count' = count + 1 /\ count \in Nat
      /\ ord'[u] = count /\ low'[u] = count /\ state'[u] = "in_progress"
      /\ \A v \in Units \ {u} :
            ord'[v] = ord[v] /\ low'[v] = low[v] /\ state'[v] = state[v]
      /\ ord' \in [Units -> Int]
      /\ program' = program /\ actions' = actions /\ outcome' = outcome
  BY <1>1 DEF Enter, TypeOK
<1>5. /\ sccStack' \in Seq(Units) /\ analysisStack' \in Seq(Units)
      /\ Sorted(sccStack)' /\ Sorted(analysisStack)'
      /\ Pending' = Pending \cup {u} /\ Active' = Active \cup {u}
      /\ analysisStack' # <<>> /\ Top' = u
  <2>1. \A v \in Pending : ord'[v] = ord[v] /\ ord'[v] < ord'[u]
    BY <1>2, <1>3, <1>4
  <2>2. Increasing(sccStack, ord')
    BY <1>1, <2>1 DEF StacksInv, Sorted, Increasing, Pending, ToSet
  <2>3. \A i \in DOMAIN analysisStack : analysisStack[i] \in Pending
    BY <1>2 DEF Active, ToSet
  <2>4. Increasing(analysisStack, ord')
    BY <1>1, <2>1, <2>3 DEF StacksInv, Sorted, Increasing
  <2>5. /\ sccStack' = Append(sccStack, u)
        /\ analysisStack' = Append(analysisStack, u)
    BY DEF Enter
  <2>6. \A v \in Active : ord'[v] < ord'[u]
    BY <1>2, <2>1
  <2>7. QED
    BY <1>1, <1>4, <2>1, <2>2, <2>4, <2>5, <2>6, PushFacts
    DEF TypeOK, Sorted, Pending, Active, Top
<1>6. /\ todo' \in [Units -> SUBSET Units] /\ todo'[u] = todo[u]
      /\ \A v \in Units : \/ todo'[v] = todo[v]
                          \/ v \in Active /\ v = Top /\ u \in todo[v]
                             /\ todo'[v] = todo[v] \ {u}
  <2>1. todo \in [Units -> SUBSET Units]
    BY <1>1 DEF TypeOK
  <2>2. CASE todo' = todo
    BY <2>1, <2>2
  <2>3. CASE /\ analysisStack # <<>> /\ u \in todo[Top]
             /\ todo' = [todo EXCEPT ![Top] = @ \ {u}]
    <3>1. Top \in Active /\ Top \in Units /\ Top # u
      BY <1>2, <1>3, <2>3
    <3>2. QED
      BY <2>1, <2>3, <3>1
  <2>4. QED
    BY <2>2, <2>3
<1>7. TypeOK'
  <2>1. low' \in [Units -> Int]
    BY <1>1, <1>4 DEF TypeOK, Enter
  <2>2. state' \in [Units -> {"not_analysed", "in_progress", "analysed"}]
    BY <1>1 DEF TypeOK, Enter
  <2>3. count' \in Nat
    BY <1>4
  <2>4. QED
    BY <1>1, <1>4, <1>5, <1>6, <2>1, <2>2, <2>3 DEF TypeOK
<1>8. StacksInv'
  <2>1. Pending' = {v \in Units : state'[v] = "in_progress"}
    BY <1>1, <1>4, <1>5 DEF StacksInv
  <2>2. \A v \in Pending' : ord'[v] \in 0..(count' - 1)
    BY <1>2, <1>3, <1>4, <1>5
  <2>3. Active' \subseteq Pending'
    BY <1>2, <1>5
  <2>4. QED
    BY <1>5, <2>1, <2>2, <2>3 DEF StacksInv
<1>9. MetInv'
  <2>1. ASSUME NEW v \in Units
        PROVE  /\ todo'[v] \subseteq program'.refs[v]
               /\ state'[v] = "not_analysed" => todo'[v] = program'.refs[v]
               /\ state'[v] # "not_analysed" /\ v \notin Active'
                    => todo'[v] = {}
    <3>1. CASE v = u
      BY <1>1, <1>4, <1>5, <1>6, <3>1 DEF MetInv
    <3>2. CASE v # u /\ todo'[v] = todo[v]
      BY <1>1, <1>4, <1>5, <3>2 DEF MetInv
    <3>3. CASE v # u /\ v \in Active /\ todo'[v] = todo[v] \ {u}
      BY <1>1, <1>2, <1>4, <1>5, <3>3 DEF MetInv, StacksInv
    <3>4. QED
      BY <1>6, <3>1, <3>2, <3>3
  <2>2. ASSUME NEW v \in Pending', NEW w \in program'.refs[v] \ todo'[v]
        PROVE  /\ state'[w] # "not_analysed"
               /\ w \in Pending' /\ ~IsFunction(w)' => ord'[v] < ord'[w]
    <3>1. v \in Pending /\ v # u
      BY <1>1, <1>3, <1>4, <1>5, <1>6, <2>2 DEF MetInv
    <3>2. w \in Units
      BY <1>1, <1>2, <1>4, <3>1, <2>2 DEF TypeOK
    <3>3. CASE w = u
      BY <1>2, <1>4, <3>1, <3>3
    <3>4. CASE w # u
      <4>1. w \in program.refs[v] \ todo[v]
        BY <1>2, <1>4, <1>6, <2>2, <3>1, <3>4
      <4>2. QED
        BY <1>1, <1>2, <1>4, <1>5, <3>1, <3>2, <3>4, <4>1
        DEF MetInv, IsFunction
    <3>5. QED
      BY <3>3, <3>4
  <2>3. ASSUME NEW v \in Active', NEW w \in Active', ord'[v] < ord'[w]
        PROVE  Reaches(v, w)'
    <3>1. v \in Active /\ v # u
      BY <1>2, <1>3, <1>4, <1>5, <2>3
    <3>2. CASE w = u
      <4>1. Reaches(Top, u)
        BY <1>1, <1>2, <3>1, RefReaches DEF MetInv
      <4>2. v = Top \/ Reaches(v, Top)
        BY <1>1, <1>2, <3>1 DEF MetInv
      <4>3. Reaches(v, u)
        BY <1>2, <3>1, <4>1, <4>2, ReachTrans
      <4>4. QED
        BY <1>4, <3>2, <4>3, SameProgram
    <3>3. CASE w # u
      <4>1. Reaches(v, w)
        BY <1>1, <1>2, <1>4, <1>5, <2>3, <3>1, <3>3 DEF MetInv
      <4>2. QED
        BY <1>4, <4>1, SameProgram
    <3>4. QED
      BY <3>2, <3>3
  <2>4. QED
    BY <2>1, <2>2, <2>3 DEF MetInv
<1>10. HeldInv'
  <2>1. ASSUME NEW v \in Pending
        PROVE  \E h \in Active' : Holds(h, v)'
    <3>1. PICK h \in Active : Holds(h, v)
      BY <1>1, <2>1 DEF HeldInv
    <3>2. low[h] <= ord[h] /\ low[h] \in Int
      BY <1>1, <1>2, <3>1 DEF LowInv, LowOf, TypeOK
    <3>3. /\ ord'[h] = ord[h] /\ low'[h] = low[h] /\ low'[v] = low[v]
          /\ ord'[v] = ord[v] /\ ord[v] < count /\ ord[h] < count
      BY <1>2, <1>3, <1>4, <2>1, <3>1
    <3>4. ASSUME NEW w \in Active', ord'[w] <= ord'[v]
          PROVE  ord'[w] <= ord'[h]
      <4>1. ord[v] \in Int
        BY <1>1, <1>2, <2>1 DEF TypeOK
      <4>2. w # u
        BY <1>4, <3>3, <3>4, <4>1
      <4>3. w \in Active /\ ord'[w] = ord[w]
        BY <1>2, <1>4, <1>5, <3>4, <4>2
      <4>4. QED
        BY <3>1, <3>3, <3>4, <4>3 DEF Holds
    <3>5. ASSUME NEW w \in program'.refs[v] \ todo'[v], w \in Pending'
          PROVE  low'[h] <= ord'[w]
      <4>1. CASE w = u
        BY <1>2, <1>4, <3>2, <3>3, <4>1
      <4>2. CASE w # u
        <5>1. w \in program.refs[v] \ todo[v] /\ w \in Pending
          BY <1>2, <1>4, <1>5, <1>6, <2>1, <3>5, <4>2
        <5>2. QED
          BY <1>2, <1>4, <3>1, <3>3, <4>2, <5>1 DEF Holds
      <4>3. QED
        BY <4>1, <4>2
    <3>6. Leads(v, h)' /\ Leads(h, v)' /\ ord'[h] <= ord'[v]
          /\ low'[h] <= low'[v]
      BY <1>4, <3>1, <3>3, SameProgram DEF Holds
    <3>7. QED
      BY <1>5, <3>4, <3>5, <3>6 DEF Holds
  <2>2. Holds(u, u)'
    <3>1. program'.refs[u] \ todo'[u] = {}
      BY <1>1, <1>4, <1>6 DEF MetInv
    <3>2. ord'[u] \in Int /\ low'[u] \in Int
      BY <1>4
    <3>3. QED
      BY <3>1, <3>2 DEF Holds, Leads
  <2>3. QED
    BY <1>5, <2>1, <2>2 DEF HeldInv
<1>11. LowInv'
  <2>1. ASSUME NEW v \in Pending
        PROVE  /\ \E x \in Pending' : LowOf(v, x)'
               /\ v \notin Active' => low'[v] < ord'[v]
    <3>1. PICK x \in Pending : LowOf(v, x)
      BY <1>1, <2>1 DEF LowInv
    <3>2. /\ ord'[x] = ord[x] /\ low'[v] = low[v] /\ ord'[v] = ord[v]
      BY <1>2, <1>3, <1>4, <2>1, <3>1
    <3>3. LowOf(v, x)'
      BY <1>4, <3>1, <3>2, SameProgram DEF LowOf
    <3>4. v \notin Active' => low'[v] < ord'[v]
      BY <1>1, <1>5, <2>1, <3>2 DEF LowInv
    <3>5. QED
      BY <1>5, <3>3, <3>4
  <2>2. LowOf(u, u)'
    BY <1>4 DEF LowOf
  <2>3. QED
    BY <1>5, <2>1, <2>2 DEF LowInv
<1>12. ActionsInv'
  BY <1>1, <1>4, SameActions
<1>13. OutcomeInv'
  BY <1>4 DEF OutcomeInv, Messages
<1>14. QED
  BY <1>7, <1>8, <1>9, <1>10, <1>11, <1>12, <1>13 DEF IInv

(* The active unit that holds a pending one leads to the top unit, and is  *)
(* the top unit if the pending one was entered after that.                 *)
LEMMA HolderFacts ==
    ASSUME TypeOK, StacksInv, MetInv, HeldInv, LowInv, NEW u \in Pending
    PROVE  /\ analysisStack # <<>>
           /\ \E h \in Active :
                /\ Holds(h, u) /\ Leads(h, Top)
                /\ ord[Top] <= ord[u] => h = Top
<1>1. PICK h \in Active : Holds(h, u)
  BY DEF HeldInv
<1>2. analysisStack # <<>> /\ Top \in Active
  BY <1>1, StackFacts
<1>3. Leads(h, Top)
  BY <1>1, StackFacts DEF Leads, MetInv
<1>4. ASSUME ord[Top] <= ord[u] PROVE h = Top
  <2>1. ord[Top] <= ord[h]
    BY <1>1, <1>2, <1>4 DEF Holds
  <2>2. ord[h] \in Int /\ ord[Top] \in Int
    BY <1>1, <1>2, StackFacts DEF TypeOK
  <2>3. QED
    BY <1>1, <2>1, <2>2, StackFacts
<1>5. QED
  BY <1>1, <1>2, <1>3, <1>4

(* A reference to a unit that was entered before: only a function may be   *)
(* in progress, and the lowlink of the top unit goes down to its order.    *)
LEMMA MeetStep ==
    ASSUME IInv, analysisStack # <<>>, NEW v \in todo[Top],
           todo' = [todo EXCEPT ![Top] = @ \ {v}],
           UNCHANGED <<program, state, ord, count, sccStack, analysisStack,
                       actions, outcome>>,
           \/ state[v] = "analysed" /\ low' = low
           \/ /\ state[v] = "in_progress" /\ IsFunction(v)
              /\ low' = [low EXCEPT ![Top] = Lowlink(Top, v)]
    PROVE  IInv'
<1>1. TypeOK /\ StacksInv /\ MetInv /\ HeldInv /\ LowInv /\ ActionsInv
  BY DEF IInv
<1>2. /\ Active \subseteq Pending /\ Pending \subseteq Units
      /\ \A w, x \in Pending : ord[w] = ord[x] => w = x
      /\ Top \in Active
  BY <1>1, StackFacts
<1>3. v \in Units /\ v \in program.refs[Top] /\ Reaches(Top, v)
  BY <1>1, <1>2, RefReaches DEF TypeOK, MetInv
<1>4. /\ todo' \in [Units -> SUBSET Units]
      /\ \A u \in Units : u # Top => todo'[u] = todo[u]
      /\ todo'[Top] = todo[Top] \ {v}
  BY <1>1, <1>2 DEF TypeOK
<1>5. /\ low' \in [Units -> Int]
      /\ \A u \in Units : u # Top => low'[u] = low[u]
      /\ low'[Top] <= low[Top]
      /\ \/ low'[Top] = low[Top]
         \/ v \in Pending /\ IsFunction(v) /\ low'[Top] = ord[v]
      /\ v \in Pending => low'[Top] <= ord[v]
      /\ v \in Pending => IsFunction(v)
  <2>1. ord[v] \in Int /\ low[Top] \in Int
    BY <1>1, <1>2, <1>3 DEF TypeOK
  <2>2. v \in Pending <=> state[v] = "in_progress"
    BY <1>1, <1>3 DEF StacksInv
  <2>3. QED
    BY <1>1, <1>2, <2>1, <2>2 DEF TypeOK, Lowlink
<1>6. Pending' = Pending /\ Active' = Active /\ Top' = Top
  BY DEF Pending, Active, Top
<1>7. TypeOK'
  BY <1>1, <1>4, <1>5 DEF TypeOK
<1>8. StacksInv'
  BY <1>1, <1>6 DEF StacksInv, Sorted, Increasing
<1>9. MetInv'
  <2>1. ASSUME NEW u \in Units
        PROVE  /\ todo'[u] \subseteq program'.refs[u]
               /\ state'[u] = "not_analysed" => todo'[u] = program'.refs[u]
               /\ state'[u] # "not_analysed" /\ u \notin Active'
                    => todo'[u] = {}
    <3>1. CASE u = Top
      BY <1>1, <1>2, <1>4, <1>6, <3>1 DEF MetInv, StacksInv
    <3>2. CASE u # Top
      BY <1>1, <1>4, <1>6, <3>2 DEF MetInv
    <3>3. QED
      BY <3>1, <3>2
  <2>2. ASSUME NEW u \in Pending', NEW w \in program'.refs[u] \ todo'[u]
        PROVE  /\ state'[w] # "not_analysed"
               /\ w \in Pending' /\ ~IsFunction(w)' => ord'[u] < ord'[w]
    <3>1. w \in program.refs[u] \ todo[u] \/ w = v
      BY <1>2, <1>4, <1>6, <2>2
    <3>2. CASE w = v
      BY <1>5, <1>6, <3>2 DEF IsFunction
    <3>3. CASE w \in program.refs[u] \ todo[u]
      BY <1>1, <1>6, <2>2, <3>3 DEF MetInv, IsFunction
    <3>4. QED
      BY <3>1, <3>2, <3>3
  <2>3. \A u, w \in Active' : ord'[u] < ord'[w] => Reaches(u, w)'
    BY <1>1, <1>6, SameProgram DEF MetInv
  <2>4. QED
    BY <2>1, <2>2, <2>3 DEF MetInv
<1>10. HeldInv'
  <2>1. ASSUME NEW u \in Pending PROVE \E h \in Active : Holds(h, u)'
    <3>1. PICK h \in Active : Holds(h, u) /\ (ord[Top] <= ord[u] => h = Top)
      BY <1>1, <2>1, HolderFacts
    <3>2. ord[u] \in Int /\ low[u] \in Int /\ low[h] \in Int
          /\ low'[u] \in Int /\ low'[h] \in Int /\ low[Top] \in Int
      BY <1>1, <1>2, <1>5, <2>1, <3>1 DEF TypeOK
    <3>3. u = Top => h = Top
      BY <3>1, <3>2
    <3>4. low'[h] <= low'[u]
      BY <1>2, <1>5, <2>1, <3>1, <3>2, <3>3 DEF Holds
    <3>5. low'[h] <= low[h]
      BY <1>2, <1>5, <3>1, <3>2
    <3>6. ASSUME NEW w \in program'.refs[u] \ todo'[u], w \in Pending'
          PROVE  low'[h] <= ord'[w]
      <4>1. CASE u = Top /\ w = v
        BY <1>5, <1>6, <3>3, <3>6, <4>1
      <4>2. CASE ~(u = Top /\ w = v)
        <5>1. w \in program.refs[u] \ todo[u]
          BY <1>2, <1>4, <2>1, <3>6, <4>2
        <5>2. low[h] <= ord[w] /\ ord[w] \in Int
          BY <1>1, <1>2, <1>6, <3>1, <3>6, <5>1 DEF Holds, TypeOK
        <5>3. QED
          BY <3>2, <3>5, <5>2
      <4>3. QED
        BY <4>1, <4>2
    <3>7. Leads(u, h)' /\ Leads(h, u)'
      BY <3>1, SameProgram DEF Holds
    <3>8. ord'[h] <= ord'[u]
          /\ \A w \in Active' : ord'[w] <= ord'[u] => ord'[w] <= ord'[h]
      BY <1>6, <3>1 DEF Holds
    <3>9. QED
      BY <3>4, <3>6, <3>7, <3>8 DEF Holds
  <2>2. QED
    BY <1>6, <2>1 DEF HeldInv
<1>11. LowInv'
  <2>1. ASSUME NEW u \in Pending
        PROVE  /\ \E x \in Pending : LowOf(u, x)'
               /\ u \notin Active => low'[u] < ord'[u]
    <3>1. PICK x \in Pending : LowOf(u, x)
      BY <1>1, <2>1 DEF LowInv
    <3>2. CASE low'[u] = low[u]
      <4>1. LowOf(u, x)'
        BY <3>1, <3>2, SameProgram DEF LowOf
      <4>2. u \notin Active => low'[u] < ord'[u]
        BY <1>1, <2>1, <3>2 DEF LowInv
      <4>3. QED
        BY <3>1, <4>1, <4>2
    <3>3. CASE low'[u] # low[u]
      <4>1. u = Top /\ v \in Pending /\ IsFunction(v) /\ low'[Top] = ord[v]
        BY <1>2, <1>5, <2>1, <3>3
      <4>2. low'[u] <= ord'[u]
        <5>1. low[u] <= ord[u] /\ low'[u] <= low[u]
          BY <1>5, <3>1, <4>1 DEF LowOf
        <5>2. low[u] \in Int /\ low'[u] \in Int /\ ord[u] \in Int
          BY <1>1, <1>2, <1>5, <2>1 DEF TypeOK
        <5>3. QED
          BY <5>1, <5>2
      <4>3. LowOf(u, v)'
        BY <1>3, <4>1, <4>2, SameProgram DEF LowOf
      <4>4. QED
        BY <1>2, <4>1, <4>3
    <3>4. QED
      BY <3>2, <3>3
  <2>2. QED
    BY <1>6, <2>1 DEF LowInv
<1>12. ActionsInv'
  BY <1>1, SameActions
<1>13. OutcomeInv'
  BY SameProgram DEF IInv, OutcomeInv
<1>14. QED
  BY <1>7, <1>8, <1>9, <1>10, <1>11, <1>12, <1>13 DEF IInv

(* Only the outcome changes, or nothing does.                              *)
LEMMA OutcomeStep ==
    ASSUME IInv, UNCHANGED <<program, todo, unitVars, sccStack, analysisStack,
                             actions>>,
           outcome' \in {"running", "ok"} \cup Messages, OutcomeInv'
    PROVE  IInv'
<1>1. TypeOK /\ StacksInv /\ MetInv /\ HeldInv /\ LowInv /\ ActionsInv
  BY DEF IInv
<1>2. /\ UNCHANGED <<state, ord, low, count>>
      /\ Pending' = Pending /\ Active' = Active
  BY DEF unitVars, Pending, Active
<1>3. TypeOK'
  BY <1>1, <1>2 DEF TypeOK
<1>4. StacksInv'
  BY <1>1, <1>2 DEF StacksInv, Sorted, Increasing
<1>5. MetInv'
  BY <1>1, <1>2, SameProgram DEF MetInv, IsFunction
<1>6. HeldInv'
  <2>1. \A v, u : Holds(v, u) => Holds(v, u)'
    BY <1>2, SameProgram DEF Holds
  <2>2. QED
    BY <1>1, <1>2, <2>1 DEF HeldInv
<1>7. LowInv'
  <2>1. \A u, x : LowOf(u, x) => LowOf(u, x)'
    BY <1>2, SameProgram DEF LowOf
  <2>2. QED
    BY <1>1, <1>2, <2>1 DEF LowInv
<1>8. ActionsInv'
  BY <1>1, <1>2, SameActions
<1>9. QED
  BY <1>3, <1>4, <1>5, <1>6, <1>7, <1>8 DEF IInv

(* The unit below the top of the analysis stack.                           *)
LEMMA BelowFacts ==
    ASSUME TypeOK, StacksInv, analysisStack # <<>>
    PROVE  /\ Len(analysisStack) > 1 =>
                /\ Below \in Active \ {Top} /\ ord[Below] < ord[Top]
                /\ \A w \in Active \ {Top} : ord[w] <= ord[Below]
           /\ ~(Len(analysisStack) > 1) => Active = {Top}
           /\ Front(analysisStack) \in Seq(Units)
           /\ Sorted(Front(analysisStack))
           /\ ToSet(Front(analysisStack)) = Active \ {Top}
<1> DEFINE f == Front(analysisStack)
<1>1. /\ analysisStack \in Seq(Units) /\ Sorted(analysisStack)
      /\ ord \in [Units -> Int] /\ Last(analysisStack) = Top
      /\ ToSet(analysisStack) = Active
  BY DEF TypeOK, StacksInv, Top, Active
<1>2. /\ f \in Seq(Units) /\ Sorted(f) /\ ToSet(f) = Active \ {Top}
      /\ \A v \in Active : v = Top \/ ord[v] < ord[Top]
  BY <1>1, TopFacts
<1>3. /\ Len(analysisStack) \in Nat /\ Len(analysisStack) # 0
      /\ DOMAIN analysisStack = 1..Len(analysisStack)
      /\ \A i \in 1..Len(analysisStack) : analysisStack[i] \in Units
  BY <1>1, LenProperties, EmptySeq, ElementOfSeq
<1>4. /\ Len(f) = Len(analysisStack) - 1
      /\ \A i \in 1..(Len(analysisStack) - 1) : f[i] = analysisStack[i]
  BY <1>1, <1>3, SubSeqProperties DEF Front
<1>5. ASSUME Len(analysisStack) > 1
      PROVE  /\ Below \in Active \ {Top} /\ ord[Below] < ord[Top]
             /\ \A w \in Active \ {Top} : ord[w] <= ord[Below]
  <2>1. f # <<>>
    BY <1>2, <1>3, <1>4, <1>5, EmptySeq
  <2>2. Last(f) = Below
    BY <1>3, <1>4, <1>5 DEF Last, Below
  <2>3. /\ Below \in ToSet(f) /\ Below \in Units
        /\ \A u \in ToSet(f) : u = Below \/ ord[u] < ord[Below]
    BY <1>1, <1>2, <2>1, <2>2, TopFacts
  <2>4. ord[Below] \in Int
    BY <1>1, <2>3
  <2>5. \A w \in Active : ord[w] \in Int
    BY <1>1, StackFacts
  <2>6. QED
    BY <1>2, <2>3, <2>4, <2>5
<1>6. ASSUME ~(Len(analysisStack) > 1) PROVE Active = {Top}
  <2>1. DOMAIN analysisStack = {1} /\ Len(analysisStack) = 1
    BY <1>3, <1>6
  <2>2. QED
    BY <2>1 DEF Active, ToSet, Top, Last
<1>7. QED
  BY <1>2, <1>5, <1>6

(* A unit with a lowlink below its own order is in a cycle, and there is a *)
(* unit below it.                                                          *)
LEMMA LowerMeansCycle ==
    ASSUME TypeOK, StacksInv, MetInv, HeldInv, LowInv, analysisStack # <<>>,
           low[Top] < ord[Top]
    PROVE  /\ Len(analysisStack) > 1
           /\ InCycle(Top) /\ Leads(Top, Below) /\ Reaches(Below, Top)
<1>1. /\ Active \subseteq Pending /\ Pending \subseteq Units /\ Top \in Active
      /\ \A w, x \in Pending : ord[w] = ord[x] => w = x
  BY StackFacts
<1>2. PICK x \in Pending : LowOf(Top, x)
  BY <1>1 DEF LowInv
<1>3. x # Top /\ Reaches(Top, x) /\ ord[x] < ord[Top]
  BY <1>1, <1>2 DEF LowOf, TypeOK
<1>4. PICK h \in Active : Holds(h, x) /\ Leads(h, Top)
  BY HolderFacts
<1>5. ord[h] < ord[Top] /\ Leads(x, h)
  <2>1. ord[h] \in Int /\ ord[x] \in Int /\ ord[Top] \in Int
    BY <1>1, <1>4 DEF TypeOK
  <2>2. QED
    BY <1>3, <1>4, <2>1 DEF Holds
<1>6. h # Top
  BY <1>1, <1>5 DEF TypeOK
<1>7. Reaches(Top, h)
  BY <1>1, <1>3, <1>4, <1>5, ReachTrans DEF Leads
<1>8. Reaches(h, Top)
  BY <1>4, <1>6 DEF Leads
<1>9. InCycle(Top)
  BY <1>1, <1>4, <1>7, <1>8, ReachTrans DEF InCycle
<1>10. Len(analysisStack) > 1
  BY <1>4, <1>6, BelowFacts
<1>11. Below \in Active \ {Top} /\ ord[h] <= ord[Below]
       /\ ord[Below] < ord[Top]
  BY <1>4, <1>6, <1>10, BelowFacts
<1>12. h = Below \/ Reaches(h, Below)
  <2>1. CASE ord[h] = ord[Below]
    BY <1>1, <1>4, <1>11, <2>1
  <2>2. CASE ord[h] < ord[Below]
    BY <1>1, <1>4, <1>11, <2>2 DEF MetInv
  <2>3. QED
    BY <1>1, <1>4, <1>11, <2>1, <2>2 DEF TypeOK
<1>13. Leads(Top, Below)
  BY <1>1, <1>4, <1>7, <1>11, <1>12, ReachTrans DEF Leads
<1>14. Reaches(Below, Top)
  BY <1>1, <1>11 DEF MetInv
<1>15. QED
  BY <1>9, <1>10, <1>13, <1>14

(* The group of a function is what was entered from it on.                 *)
LEMMA GroupFacts ==
    ASSUME TypeOK, StacksInv, analysisStack # <<>>, IsFunction(Top)
    PROVE  LET rest == SubSeq(sccStack, 1, Len(sccStack) - Len(Group(Top)))
           IN  /\ Group(Top) \in Seq(Units)
               /\ ToSet(Group(Top)) = {v \in Pending : ord[Top] <= ord[v]}
               /\ rest \in Seq(Units) /\ Sorted(rest)
               /\ ToSet(rest) = {v \in Pending : ord[v] < ord[Top]}
<1> DEFINE i == CHOOSE i \in DOMAIN sccStack : sccStack[i] = Top
<1>1. \E k \in DOMAIN sccStack : sccStack[k] = Top
  BY StackFacts DEF Pending, ToSet
<1>2. i \in DOMAIN sccStack /\ sccStack[i] = Top
  BY <1>1
<1>3. Group(Top) = SubSeq(sccStack, i, Len(sccStack))
  BY DEF Group
<1>4. sccStack \in Seq(Units) /\ Sorted(sccStack) /\ ord \in [Units -> Int]
  BY DEF TypeOK, StacksInv
<1> HIDE DEF i
<1> DEFINE g    == Group(Top)
           rest == SubSeq(sccStack, 1, Len(sccStack) - Len(g))
<1>5. /\ g \in Seq(Units) /\ rest \in Seq(Units) /\ Sorted(rest)
      /\ ToSet(g) = {v \in Pending : ord[sccStack[i]] <= ord[v]}
      /\ ToSet(rest) = {v \in Pending : ord[v] < ord[sccStack[i]]}
  BY <1>2, <1>3, <1>4, CutFacts DEF Pending
<1>6. QED
  BY <1>2, <1>5

(* Nothing is above a data definition that is a root.                      *)
LEMMA DataRoot ==
    ASSUME TypeOK, StacksInv, MetInv, HeldInv, LowInv, analysisStack # <<>>,
           ~IsFunction(Top), IsRoot(Top)
    PROVE  /\ sccStack # <<>> /\ Last(sccStack) = Top
           /\ {v \in Pending : ord[Top] <= ord[v]} = {Top}
<1> DEFINE n == Len(sccStack)
<1>1. /\ Active \subseteq Pending /\ Pending \subseteq Units /\ Top \in Active
      /\ \A w, x \in Pending : ord[w] = ord[x] => w = x
      /\ \A v \in Active : v = Top \/ ord[v] < ord[Top]
  BY StackFacts
<1>2. /\ n \in Nat /\ DOMAIN sccStack = 1..n
      /\ \A k \in 1..n : sccStack[k] \in Pending
  BY LenProperties DEF TypeOK, Pending, ToSet
<1>3. PICK i \in 1..n : sccStack[i] = Top
  BY <1>1, <1>2 DEF Pending, ToSet
<1>4. ASSUME i < n PROVE FALSE
  <2>2. PICK w \in Pending : w = sccStack[i + 1]
    BY <1>2, <1>4
  <2>3. ord[Top] < ord[w]
    BY <1>2, <1>3, <1>4, <2>2 DEF StacksInv, Sorted, Increasing
  <2>4. /\ ord[Top] \in Int /\ ord[w] \in Int /\ low[w] \in Int
        /\ low[Top] \in Int
    BY <1>1, <2>2 DEF TypeOK
  <2>5. Holds(Top, w)
    BY <2>3, <2>4, HolderFacts
  <2>6. w \notin Active
    BY <1>1, <2>3, <2>4
  <2>7. low[w] < ord[w] /\ ord[Top] <= low[w]
    BY <2>5, <2>6 DEF LowInv, Holds, IsRoot
  <2>8. PICK x \in Pending : LowOf(w, x)
    BY DEF LowInv
  <2>9. IsFunction(x) /\ ord[x] < ord[w] /\ ord[Top] <= ord[x]
    BY <2>4, <2>7, <2>8 DEF LowOf
  <2>10. PICK j \in 1..n : sccStack[j] = x
    BY <1>2 DEF Pending, ToSet
  <2>11. ~(i + 1 <= j)
    <3>1. CASE j = i + 1
      BY <2>2, <2>4, <2>9, <2>10, <3>1
    <3>2. CASE i + 1 < j
      <4>1. ord[w] < ord[x]
        BY <1>2, <1>4, <2>2, <2>10, <3>2 DEF StacksInv, Sorted, Increasing
      <4>2. ord[x] \in Int
        BY <1>1 DEF TypeOK
      <4>3. QED
        BY <2>4, <2>9, <4>1, <4>2
    <3>3. QED
      BY <3>1, <3>2
  <2>12. ~(j < i)
    <3>1. j < i => ord[x] < ord[Top]
      BY <1>2, <1>3, <2>10 DEF StacksInv, Sorted, Increasing
    <3>2. ord[x] \in Int
      BY <1>1 DEF TypeOK
    <3>3. QED
      BY <2>4, <2>9, <3>1, <3>2
  <2>13. j = i
    BY <2>11, <2>12
  <2>14. QED
    BY <1>3, <2>9, <2>10, <2>13
<1>5. Last(sccStack) = Top
  <2>1. n \in Nat
    BY <1>2
  <2>2. i = n
    BY <1>3, <1>4, <2>1
  <2>3. QED
    BY <1>3, <2>2 DEF Last
<1>6. sccStack # <<>>
  BY <1>2, <1>3, EmptySeq DEF TypeOK
<1>7. \A v \in Pending : v = Top \/ ord[v] < ord[Top]
  BY <1>5, <1>6, TopFacts DEF Pending, TypeOK, StacksInv
<1>8. {v \in Pending : ord[Top] <= ord[v]} = {Top}
  <2>1. Top \in Pending /\ ord[Top] \in Int
    BY <1>1 DEF TypeOK
  <2>2. \A v \in Pending : ord[v] \in Int
    BY <1>1 DEF TypeOK
  <2>3. QED
    BY <1>7, <2>1, <2>2
<1>9. QED
  BY <1>5, <1>6, <1>8

(* A unit that is not the lowest of its component is left on the SCC stack;*)
(* the unit that referred to it holds what it held.                        *)
LEMMA WaitStep ==
    ASSUME IInv, Finish, ~IsRoot(Top)
    PROVE  IInv'
<1>1. TypeOK /\ StacksInv /\ MetInv /\ HeldInv /\ LowInv /\ ActionsInv
  BY DEF IInv
<1>2. /\ analysisStack # <<>> /\ todo[Top] = {} /\ low' = Propagated(Top)
      /\ analysisStack' = Front(analysisStack)
      /\ UNCHANGED <<program, todo, state, ord, count, sccStack, actions,
                     outcome>>
  BY DEF Finish
<1>3. /\ Active \subseteq Pending /\ Pending \subseteq Units
      /\ \A w, x \in Pending : ord[w] = ord[x] => w = x
      /\ Top \in Active /\ \A v \in Active : v = Top \/ ord[v] < ord[Top]
  BY <1>1, <1>2, StackFacts
<1>4. low[Top] < ord[Top]
  BY <1>1, <1>3 DEF LowInv, LowOf, IsRoot, TypeOK
<1>5. /\ Len(analysisStack) > 1
      /\ Leads(Top, Below) /\ Reaches(Below, Top)
  BY <1>1, <1>2, <1>4, LowerMeansCycle
<1>6. /\ Below \in Active \ {Top} /\ ord[Below] < ord[Top]
      /\ \A w \in Active \ {Top} : ord[w] <= ord[Below]
      /\ analysisStack' \in Seq(Units) /\ Sorted(analysisStack)'
      /\ Active' = Active \ {Top} /\ Pending' = Pending
  BY <1>1, <1>2, <1>5, BelowFacts
  DEF Sorted, Increasing, Active, Pending
<1>7. PICK b \in Active \ {Top} : b = Below
  BY <1>6
<1>8. /\ low' \in [Units -> Int]
      /\ \A u \in Units : u # b => low'[u] = low[u]
      /\ low'[b] <= low[b] /\ low'[b] <= low[Top]
      /\ low'[b] = low[b] \/ low'[b] = low[Top]
  <2>1. low[b] \in Int /\ low[Top] \in Int /\ b \in Units
    BY <1>1, <1>3, <1>7 DEF TypeOK
  <2>2. low' = IF low[Top] < low[b] THEN [low EXCEPT ![b] = low[Top]] ELSE low
    BY <1>2, <1>5, <1>7 DEF Propagated
  <2>3. QED
    BY <1>1, <2>1, <2>2 DEF TypeOK
<1>9. \A u \in Pending : ord[u] \in Int /\ low[u] \in Int /\ low'[u] \in Int
  BY <1>1, <1>3, <1>8 DEF TypeOK
<1>10. TypeOK'
  BY <1>1, <1>2, <1>6, <1>8 DEF TypeOK
<1>11. StacksInv'
  BY <1>1, <1>2, <1>3, <1>6 DEF StacksInv, Sorted, Increasing
<1>12. MetInv'
  BY <1>1, <1>2, <1>3, <1>6, SameProgram DEF MetInv, IsFunction
<1>13. HeldInv'
  <2>1. ASSUME NEW u \in Pending PROVE \E h \in Active' : Holds(h, u)'
    <3>1. PICK h \in Active : Holds(h, u) /\ (ord[Top] <= ord[u] => h = Top)
      BY <1>1, <2>1, HolderFacts
    <3>2. CASE ord[Top] <= ord[u]
      <4>1. h = Top /\ u # b
        BY <1>3, <1>6, <1>7, <1>9, <2>1, <3>1, <3>2
      <4>2. ord'[b] <= ord'[u]
            /\ \A w \in Active' : ord'[w] <= ord'[u] => ord'[w] <= ord'[b]
        BY <1>2, <1>3, <1>6, <1>7, <1>9, <2>1, <3>2
      <4>3. Leads(u, b) /\ Leads(b, u)
        BY <1>3, <1>5, <1>7, <2>1, <3>1, <4>1, ReachTrans DEF Holds, Leads
      <4>4. low'[b] <= low'[u]
        BY <1>3, <1>7, <1>8, <1>9, <2>1, <3>1, <4>1 DEF Holds
      <4>5. ASSUME NEW w \in program'.refs[u] \ todo'[u], w \in Pending'
            PROVE  low'[b] <= ord'[w]
        <5>1. low[Top] <= ord[w] /\ ord[w] \in Int
          BY <1>2, <1>6, <1>9, <3>1, <4>1, <4>5 DEF Holds
        <5>2. QED
          BY <1>2, <1>3, <1>7, <1>8, <1>9, <5>1
      <4>6. Holds(b, u)'
        BY <1>2, <4>2, <4>3, <4>4, <4>5, SameProgram DEF Holds
      <4>7. QED
        BY <1>6, <1>7, <4>6
    <3>3. CASE ord[u] < ord[Top]
      <4>1. h # Top /\ h \in Active'
        <5>1. ord[h] <= ord[u] /\ ord[h] \in Int
          BY <1>3, <1>9, <3>1 DEF Holds
        <5>2. h # Top
          BY <1>3, <1>9, <2>1, <3>3, <5>1
        <5>3. QED
          BY <1>6, <3>1, <5>2
      <4>2. u = b => h = b
        BY <1>3, <1>7, <1>9, <3>1 DEF Holds
      <4>3. low'[h] <= low[h] /\ low'[h] <= low'[u]
        BY <1>3, <1>8, <1>9, <2>1, <3>1, <4>2 DEF Holds
      <4>4. ASSUME NEW w \in program'.refs[u] \ todo'[u], w \in Pending'
            PROVE  low'[h] <= ord'[w]
        <5>1. low[h] <= ord[w] /\ ord[w] \in Int
          BY <1>2, <1>6, <1>9, <3>1, <4>4 DEF Holds
        <5>2. QED
          BY <1>2, <1>3, <1>9, <3>1, <4>3, <5>1
      <4>5. Holds(h, u)'
        BY <1>2, <1>6, <3>1, <4>3, <4>4, SameProgram DEF Holds
      <4>6. QED
        BY <4>1, <4>5
    <3>4. QED
      BY <1>3, <1>9, <2>1, <3>2, <3>3
  <2>2. QED
    BY <1>6, <2>1 DEF HeldInv
<1>14. LowInv'
  <2>1. ASSUME NEW u \in Pending
        PROVE  /\ \E x \in Pending : LowOf(u, x)'
               /\ u \notin Active' => low'[u] < ord'[u]
    <3>1. PICK x \in Pending : LowOf(u, x)
      BY <1>1, <2>1 DEF LowInv
    <3>2. u \notin Active' => low'[u] < ord'[u]
      BY <1>1, <1>2, <1>3, <1>4, <1>6, <1>7, <1>8, <2>1 DEF LowInv
    <3>3. CASE low'[u] = low[u]
      BY <1>2, <3>1, <3>2, <3>3, SameProgram DEF LowOf
    <3>4. CASE low'[u] # low[u]
      <4>1. u = b /\ low'[b] = low[Top]
        BY <1>3, <1>8, <2>1, <3>4
      <4>2. PICK y \in Pending : LowOf(Top, y)
        BY <1>1, <1>3 DEF LowInv
      <4>3. y # Top /\ IsFunction(y) /\ Reaches(Top, y) /\ low'[b] = ord[y]
        BY <1>3, <1>4, <1>9, <4>1, <4>2 DEF LowOf
      <4>4. Reaches(b, y)
        BY <1>3, <1>5, <1>7, <4>2, <4>3, ReachTrans
      <4>5. low'[b] <= ord[b]
        <5>1. low[b] <= ord[b]
          BY <3>1, <4>1 DEF LowOf
        <5>2. QED
          BY <1>3, <1>7, <1>8, <1>9, <5>1
      <4>6. LowOf(u, y)'
        BY <1>2, <4>1, <4>3, <4>4, <4>5, SameProgram DEF LowOf
      <4>7. QED
        BY <3>2, <4>2, <4>6
    <3>5. QED
      BY <3>3, <3>4
  <2>2. QED
    BY <1>6, <2>1 DEF LowInv
<1>15. ActionsInv'
  BY <1>1, <1>2, SameActions
<1>16. OutcomeInv'
  BY <1>2 DEF Finish, OutcomeInv, Messages
<1>17. QED
  BY <1>10, <1>11, <1>12, <1>13, <1>14, <1>15, <1>16 DEF IInv

(* A root takes what it holds off the SCC stack.                           *)
LEMMA RootGroup ==
    ASSUME TypeOK, StacksInv, MetInv, HeldInv, LowInv, Finish, IsRoot(Top)
    PROVE  LET G == {v \in Pending : ord[Top] <= ord[v]} IN
           /\ Group(Top) \in Seq(Units) /\ ToSet(Group(Top)) = G
           /\ actions' = Append(actions, Setter(Group(Top)))
           /\ sccStack' \in Seq(Units) /\ Sorted(sccStack)'
           /\ Pending' = {v \in Pending : ord[v] < ord[Top]}
           /\ state' = [v \in Units |->
                           IF v \in G THEN "analysed" ELSE state[v]]
           /\ \A u \in G : ~IsFunction(u) => G = {u}
<1> DEFINE G    == {v \in Pending : ord[Top] <= ord[v]}
           rest == SubSeq(sccStack, 1, Len(sccStack) - Len(Group(Top)))
<1>1. /\ analysisStack # <<>> /\ sccStack' = rest /\ ord' = ord
      /\ actions' = Append(actions, Setter(Group(Top)))
      /\ state' = [v \in Units |-> IF v \in ToSet(Group(Top))
                                   THEN "analysed" ELSE state[v]]
      /\ IsFunction(Top) => AllFunctions(Group(Top))
  BY DEF Finish
<1>2. CASE IsFunction(Top)
  <2>1. /\ Group(Top) \in Seq(Units) /\ ToSet(Group(Top)) = G
        /\ rest \in Seq(Units) /\ Sorted(rest)
        /\ ToSet(rest) = {v \in Pending : ord[v] < ord[Top]}
    BY <1>1, <1>2, GroupFacts
  <2>2. \A u \in G : IsFunction(u)
    BY <1>1, <1>2, <2>1 DEF AllFunctions
  <2>3. QED
    BY <1>1, <2>1, <2>2 DEF Pending, Sorted, Increasing
<1>3. CASE ~IsFunction(Top)
  <2>1. sccStack # <<>> /\ Last(sccStack) = Top /\ G = {Top} /\ Top \in Pending
    BY <1>1, <1>3, DataRoot, StackFacts
  <2>2. Group(Top) = <<Top>> /\ Top \in Units
    BY <1>1, <1>3, StackFacts DEF Group
  <2>3. Group(Top) \in Seq(Units) /\ ToSet(Group(Top)) = {Top}
        /\ Len(Group(Top)) = 1
    BY <2>2 DEF ToSet
  <2>4. rest = Front(sccStack)
    BY <2>3 DEF Front
  <2>5. /\ rest \in Seq(Units) /\ Sorted(rest)
        /\ ToSet(rest) = Pending \ {Top}
        /\ \A v \in Pending : v = Top \/ ord[v] < ord[Top]
    BY <2>1, <2>4, TopFacts DEF TypeOK, StacksInv, Pending
  <2>6. Pending \ {Top} = {v \in Pending : ord[v] < ord[Top]}
    BY <2>1, <2>5, StackFacts
  <2>7. QED
    BY <1>1, <2>1, <2>3, <2>5, <2>6 DEF Pending, Sorted, Increasing
<1>4. QED
  BY <1>2, <1>3

(* All that a group refers to is in it or was initialised before, and its  *)
(* members lead to each other.                                             *)
LEMMA RootCloses ==
    ASSUME TypeOK, StacksInv, MetInv, HeldInv, LowInv, Finish, IsRoot(Top)
    PROVE  LET G == {v \in Pending : ord[Top] <= ord[v]} IN
           /\ Top \in G /\ Active \cap G = {Top}
           /\ \A u, v \in G : Leads(u, v)
           /\ \A u \in G : \A w \in program.refs[u] :
                 w \in G \/ state[w] = "analysed"
           /\ \A u \in G : ~IsFunction(u) => u \notin program.refs[u]
<1> DEFINE G == {v \in Pending : ord[Top] <= ord[v]}
<1>1. analysisStack # <<>> /\ todo[Top] = {}
  BY DEF Finish
<1>2. /\ Active \subseteq Pending /\ Pending \subseteq Units /\ Top \in Active
      /\ \A v \in Active : v = Top \/ ord[v] < ord[Top]
      /\ \A v \in Pending : ord[v] \in Int /\ low[v] \in Int
  BY <1>1, StackFacts DEF TypeOK
<1>3. Top \in G /\ Active \cap G = {Top}
  BY <1>2
<1>4. ASSUME NEW u \in G
      PROVE  Leads(u, Top) /\ Leads(Top, u) /\ Holds(Top, u) /\ todo[u] = {}
  <2>1. Holds(Top, u)
    BY <1>4, HolderFacts
  <2>2. todo[u] = {}
    <3>1. CASE u = Top
      BY <1>1, <3>1
    <3>2. CASE u # Top
      BY <1>2, <1>3, <1>4, <3>2 DEF MetInv, StacksInv
    <3>3. QED
      BY <3>1, <3>2
  <2>3. QED
    BY <2>1, <2>2 DEF Holds
<1>5. ASSUME NEW u \in G, NEW v \in G PROVE Leads(u, v)
  <2>1. Leads(u, Top) /\ Leads(Top, v)
    BY <1>4, <1>5
  <2>2. QED
    BY <1>2, <2>1, ReachTrans DEF Leads
<1>6. ASSUME NEW u \in G, NEW w \in program.refs[u]
      PROVE  w \in G \/ state[w] = "analysed"
  <2>1. w \in Units /\ w \in program.refs[u] \ todo[u]
    BY <1>2, <1>4, <1>6 DEF TypeOK
  <2>2. state[w] # "not_analysed"
    BY <1>6, <2>1 DEF MetInv
  <2>3. CASE w \in Pending
    <3>1. low[Top] <= ord[w]
      BY <1>4, <1>6, <2>1, <2>3 DEF Holds
    <3>2. QED
      BY <2>3, <3>1 DEF IsRoot
  <2>4. CASE w \notin Pending
    BY <2>1, <2>2, <2>4 DEF StacksInv, TypeOK
  <2>5. QED
    BY <2>3, <2>4
<1>7. ASSUME NEW u \in G, ~IsFunction(u), u \in program.refs[u]
      PROVE  FALSE
  <2>1. u \in Pending /\ u \in program.refs[u] \ todo[u]
    BY <1>4, <1>7
  <2>2. ord[u] < ord[u]
    BY <1>7, <2>1 DEF MetInv
  <2>3. QED
    BY <1>2, <2>1, <2>2
<1>8. QED
  BY <1>3, <1>5, <1>6, <1>7

(* The action of a root is a component, and reads what was initialised.    *)
LEMMA RootAction ==
    ASSUME IInv, Finish, IsRoot(Top)
    PROVE  ActionsInv'
<1> DEFINE G == {v \in Pending : ord[Top] <= ord[v]}
<1>1. TypeOK /\ StacksInv /\ MetInv /\ HeldInv /\ LowInv /\ ActionsInv
  BY DEF IInv
<1>2. /\ Group(Top) \in Seq(Units) /\ ToSet(Group(Top)) = G
      /\ actions' = Append(actions, Setter(Group(Top)))
      /\ state' = [v \in Units |-> IF v \in G THEN "analysed" ELSE state[v]]
      /\ \A u \in G : ~IsFunction(u) => G = {u}
  BY <1>1, RootGroup
<1>3. /\ \A u, v \in G : Leads(u, v)
      /\ \A u \in G : \A w \in program.refs[u] :
            w \in G \/ state[w] = "analysed"
      /\ \A u \in G : ~IsFunction(u) => u \notin program.refs[u]
  BY <1>1, RootCloses
<1>4. G \subseteq Pending /\ G \subseteq Units /\ program' = program
  BY <1>1, StackFacts DEF Finish
<1>5. \A u \in G : state[u] = "in_progress"
  BY <1>1, <1>4 DEF StacksInv
<1>6. PICK a : a = Setter(Group(Top))
  OBVIOUS
<1>7. PICK n : n = Len(actions)
  OBVIOUS
<1>8. /\ ToSet(a.units) = G
      /\ a.reads = (UNION {program.refs[v] : v \in G}) \ G
  BY <1>2, <1>6 DEF Setter
<1> HIDE DEF G
<1>9. /\ n \in Nat /\ DOMAIN actions = 1..n /\ DOMAIN actions' = 1..(n + 1)
      /\ Len(actions') = n + 1
      /\ \A i \in 1..n : actions'[i] = actions[i]
      /\ actions'[n + 1] = a
      /\ \A i \in 0..n : Initialised(i)' = Initialised(i)
      /\ \A x : x \in Initialised(n + 1)' <=>
                  x \in Initialised(n) \/ x \in ToSet(a.units)
  BY <1>1, <1>2, <1>6, <1>7, AppendAction
<1>10. Initialised(n) = {u \in Units : state[u] = "analysed"}
  BY <1>1, <1>7 DEF ActionsInv
<1>11. ASSUME NEW i \in 1..n PROVE Component(i)'
  <2>1. Component(i)
    BY <1>1, <1>9, <1>11 DEF ActionsInv
  <2>2. actions'[i] = actions[i] /\ Initialised(i - 1)' = Initialised(i - 1)
    BY <1>9, <1>11
  <2>3. \A x, y : Leads(x, y)' <=> Leads(x, y)
    BY <1>4, SameProgram
  <2>4. ToSet(actions[i].units)' = ToSet(actions[i].units)
        /\ actions'[i].reads = actions[i].reads
    BY <2>2 DEF ToSet
  <2>5. \A u : IsFunction(u)' <=> IsFunction(u)
    BY <1>4 DEF IsFunction
  <2>6. QED
    BY <1>4, <2>1, <2>2, <2>3, <2>4, <2>5 DEF Component
<1>12. PICK m : m = n + 1
  OBVIOUS
<1>13. Component(m)'
  <2>1. /\ ToSet(actions'[m].units) = G
        /\ actions'[m].reads = (UNION {program.refs[v] : v \in G}) \ G
    BY <1>8, <1>9, <1>12
  <2>2. Initialised(m - 1)' = {u \in Units : state[u] = "analysed"}
    <3>1. m - 1 = n /\ n \in 0..n
      BY <1>9, <1>12
    <3>2. QED
      BY <1>9, <1>10, <3>1
  <2>3. G \cap {u \in Units : state[u] = "analysed"} = {}
    BY <1>5
  <2> DEFINE reads == (UNION {program.refs[v] : v \in G}) \ G
  <2>4. reads \subseteq {u \in Units : state[u] = "analysed"}
    <3>1. \A u \in G : program.refs[u] \subseteq Units
      BY <1>1, <1>4 DEF TypeOK
    <3>2. ASSUME NEW x \in reads PROVE x \in Units /\ state[x] = "analysed"
      <4>1. PICK u \in G : x \in program.refs[u] /\ x \notin G
        BY <3>2, Zenon
      <4>2. QED
        BY <1>3, <3>1, <3>2, <4>1
    <3> HIDE DEF reads
    <3>3. QED
      BY <3>2
  <2>5. \A x, y : Leads(x, y)' <=> Leads(x, y)
    BY <1>4, SameProgram
  <2>6. \A u \in G : ~IsFunction(u)' => G = {u} /\ u \notin program'.refs[u]
    BY <1>2, <1>3, <1>4 DEF IsFunction
  <2>7. ToSet(actions[m].units)' = ToSet(actions'[m].units)
    BY DEF ToSet
  <2>8. QED
    BY <1>3, <1>4, <2>1, <2>2, <2>3, <2>4, <2>5, <2>6, <2>7 DEF Component
<1>14. \A i \in DOMAIN actions' : Component(i)'
  BY <1>9, <1>11, <1>12, <1>13
<1>15. Initialised(m)' = {u \in Units : state'[u] = "analysed"}
  <2>1. \A x : x \in Initialised(m)' <=> x \in Initialised(n) \/ x \in G
    BY <1>8, <1>9, <1>12
  <2>2. \A x \in Units : state'[x] = "analysed" <=>
                            x \in G \/ state[x] = "analysed"
    BY <1>2 DEF G
  <2>3. QED
    BY <1>4, <1>10, <2>1, <2>2
<1>16. Initialised(Len(actions))' = Initialised(m)'
  BY <1>9, <1>12 DEF Initialised
<1>17. QED
  BY <1>14, <1>15, <1>16 DEF ActionsInv

(* A unit that is the lowest of its component takes it off the SCC stack.  *)
LEMMA RootStep ==
    ASSUME IInv, Finish, IsRoot(Top)
    PROVE  IInv'
<1> DEFINE G == {v \in Pending : ord[Top] <= ord[v]}
<1>1. TypeOK /\ StacksInv /\ MetInv /\ HeldInv /\ LowInv /\ ActionsInv
  BY DEF IInv
<1>2. /\ analysisStack # <<>> /\ todo[Top] = {} /\ low' = Propagated(Top)
      /\ analysisStack' = Front(analysisStack)
      /\ UNCHANGED <<program, todo, ord, count, outcome>>
  BY DEF Finish
<1>3. /\ Active \subseteq Pending /\ Pending \subseteq Units
      /\ Top \in Active /\ \A v \in Active : v = Top \/ ord[v] < ord[Top]
      /\ \A u \in Pending : ord[u] \in Int /\ low[u] \in Int
      /\ \A u \in Pending : ord[u] \in 0..(count - 1)
  BY <1>1, <1>2, StackFacts DEF TypeOK
<1>4. /\ Group(Top) \in Seq(Units)
      /\ actions' = Append(actions, Setter(Group(Top)))
      /\ sccStack' \in Seq(Units) /\ Sorted(sccStack)'
      /\ Pending' = {v \in Pending : ord[v] < ord[Top]}
      /\ state' = [v \in Units |-> IF v \in G THEN "analysed" ELSE state[v]]
  BY <1>1, RootGroup
<1>5. /\ analysisStack' \in Seq(Units) /\ Sorted(analysisStack)'
      /\ Active' = Active \ {Top} /\ Active' \subseteq Pending'
  BY <1>1, <1>2, <1>3, <1>4, BelowFacts DEF Sorted, Increasing, Active
<1>6. low' = low
  <2>1. CASE Len(analysisStack) > 1
    <3>1. Below \in Pending /\ ord[Below] < ord[Top]
      BY <1>1, <1>2, <1>3, <2>1, BelowFacts
    <3>2. low[Below] <= ord[Below]
      BY <1>1, <3>1 DEF LowInv, LowOf
    <3>3. ~(low[Top] < low[Below])
      BY <1>3, <3>1, <3>2 DEF IsRoot
    <3>4. QED
      BY <1>2, <3>3 DEF Propagated
  <2>2. CASE ~(Len(analysisStack) > 1)
    BY <1>2, <2>2 DEF Propagated
  <2>3. QED
    BY <2>1, <2>2
<1>8. TypeOK'
  <2>1. Setter(Group(Top)) \in [units : Seq(Units), reads : SUBSET Units]
    <3>1. ToSet(Group(Top)) \subseteq Units
      BY <1>1, <1>3, RootGroup
    <3>2. \A v \in Units : program.refs[v] \subseteq Units
      BY <1>1 DEF TypeOK
    <3>3. UNION {program.refs[v] : v \in ToSet(Group(Top))} \subseteq Units
      BY <3>1, <3>2
    <3>4. QED
      BY <1>4, <3>3 DEF Setter
  <2>2. actions' \in Seq([units : Seq(Units), reads : SUBSET Units])
    BY <1>1, <1>4, <2>1, AppendProperties DEF TypeOK
  <2>3. state' \in [Units -> {"not_analysed", "in_progress", "analysed"}]
    BY <1>1, <1>4 DEF TypeOK
  <2>4. QED
    BY <1>1, <1>2, <1>4, <1>5, <1>6, <2>2, <2>3 DEF TypeOK
<1>9. StacksInv'
  <2>1. Pending' = {u \in Units : state'[u] = "in_progress"}
    BY <1>1, <1>3, <1>4 DEF StacksInv
  <2>2. QED
    BY <1>2, <1>3, <1>4, <1>5, <2>1 DEF StacksInv
<1>10. MetInv'
  <2>1. ASSUME NEW u \in Units
        PROVE  /\ todo'[u] \subseteq program'.refs[u]
               /\ state'[u] = "not_analysed" => todo'[u] = program'.refs[u]
               /\ state'[u] # "not_analysed" /\ u \notin Active'
                    => todo'[u] = {}
    BY <1>1, <1>2, <1>3, <1>4, <1>5, <2>1 DEF MetInv, StacksInv
  <2>2. ASSUME NEW u \in Pending', NEW w \in program'.refs[u] \ todo'[u]
        PROVE  /\ state'[w] # "not_analysed"
               /\ w \in Pending' /\ ~IsFunction(w)' => ord'[u] < ord'[w]
    <3>1. u \in Pending /\ w \in program.refs[u] \ todo[u] /\ w \in Units
      BY <1>1, <1>2, <1>3, <1>4, <2>2 DEF TypeOK
    <3>2. QED
      BY <1>1, <1>2, <1>4, <3>1 DEF MetInv, IsFunction
  <2>3. \A u, w \in Active' : ord'[u] < ord'[w] => Reaches(u, w)'
    BY <1>1, <1>2, <1>5, SameProgram DEF MetInv
  <2>4. QED
    BY <2>1, <2>2, <2>3 DEF MetInv
<1>11. HeldInv'
  <2>1. ASSUME NEW u \in Pending' PROVE \E h \in Active' : Holds(h, u)'
    <3>1. u \in Pending /\ ord[u] < ord[Top]
      BY <1>4, <2>1
    <3>2. PICK h \in Active : Holds(h, u)
      BY <1>1, <3>1 DEF HeldInv
    <3>3. h # Top
      BY <1>3, <3>1, <3>2 DEF Holds
    <3>4. Leads(u, h)' /\ Leads(h, u)'
      BY <1>2, <3>2, SameProgram DEF Holds
    <3>5. \A w \in program'.refs[u] \ todo'[u] :
             w \in Pending' => low'[h] <= ord'[w]
      BY <1>2, <1>4, <1>6, <3>2 DEF Holds
    <3>6. /\ ord'[h] <= ord'[u] /\ low'[h] <= low'[u]
          /\ \A w \in Active' : ord'[w] <= ord'[u] => ord'[w] <= ord'[h]
      BY <1>2, <1>5, <1>6, <3>2 DEF Holds
    <3>7. Holds(h, u)'
      BY <3>4, <3>5, <3>6 DEF Holds
    <3>8. QED
      BY <1>5, <3>2, <3>3, <3>7
  <2>2. QED
    BY <2>1 DEF HeldInv
<1>12. LowInv'
  <2>1. ASSUME NEW u \in Pending'
        PROVE  /\ \E x \in Pending' : LowOf(u, x)'
               /\ u \notin Active' => low'[u] < ord'[u]
    <3>1. u \in Pending /\ ord[u] < ord[Top] /\ u # Top
      BY <1>3, <1>4, <2>1
    <3>2. PICK x \in Pending : LowOf(u, x)
      BY <1>1, <3>1 DEF LowInv
    <3>3. ord[x] < ord[Top]
      BY <1>3, <3>1, <3>2 DEF LowOf
    <3>4. LowOf(u, x)'
      BY <1>2, <1>6, <3>2, SameProgram DEF LowOf
    <3>5. u \notin Active' => low'[u] < ord'[u]
      BY <1>1, <1>2, <1>5, <1>6, <3>1 DEF LowInv
    <3>6. QED
      BY <1>4, <3>3, <3>4, <3>5
  <2>2. QED
    BY <2>1 DEF LowInv
<1>13. ActionsInv'
  BY RootAction
<1>14. OutcomeInv'
  BY <1>2 DEF Finish, OutcomeInv, Messages
<1>15. QED
  BY <1>8, <1>9, <1>10, <1>11, <1>12, <1>13, <1>14 DEF IInv

-----------------------------------------------------------------------------
(* At the start no unit was entered.                                       *)
LEMMA InitIInv == Init => IInv
<1> SUFFICES ASSUME Init PROVE IInv
  OBVIOUS
<1> USE DEF Init
<1>1. /\ \A S : <<>> \in Seq(S)
      /\ DOMAIN <<>> = {} /\ Len(<<>>) = 0
  <2>1. <<>> \in Seq(Nat) /\ Len(<<>>) = 0
    BY EmptySeq
  <2>2. DOMAIN <<>> = 1..0
    BY <2>1, LenProperties
  <2>3. QED
    BY <2>1, <2>2, EmptySeq
<1>2. Pending = {} /\ Active = {}
  BY <1>1 DEF Pending, Active, ToSet
<1>3. TypeOK
  BY <1>1, ProgramsAssumption DEF TypeOK
<1>4. StacksInv
  BY <1>1, <1>2 DEF StacksInv, Sorted, Increasing
<1>5. MetInv
  BY <1>2 DEF MetInv
<1>6. HeldInv /\ LowInv
  BY <1>2 DEF HeldInv, LowInv
<1>7. ActionsInv
  <2>1. Initialised(Len(actions)) = {}
    BY <1>1 DEF Initialised
  <2>2. QED
    BY <1>1, <2>1 DEF ActionsInv
<1>8. OutcomeInv
  BY DEF OutcomeInv, Messages
<1>9. QED
  BY <1>3, <1>4, <1>5, <1>6, <1>7, <1>8 DEF IInv

(* An exception means that a data definition is in a cycle.                *)
LEMMA ThrowFacts ==
    ASSUME IInv, \/ \E v \in Units : LookupFails(v)
                 \/ FinishFails
    PROVE  \E u \in Units : InCycle(u) /\ ~IsFunction(u)
<1>1. TypeOK /\ StacksInv /\ MetInv /\ HeldInv /\ LowInv /\ ActionsInv
  BY DEF IInv
<1>2. analysisStack # <<>>
  BY DEF LookupFails, FinishFails
<1>3. /\ Active \subseteq Pending /\ Pending \subseteq Units /\ Top \in Active
      /\ \A u \in Pending : ord[u] \in Int /\ low[u] \in Int
  BY <1>1, <1>2, StackFacts DEF TypeOK
<1>4. ASSUME NEW v \in Units, LookupFails(v)
      PROVE  InCycle(v) /\ ~IsFunction(v)
  <2>1. v \in todo[Top] /\ v \in Pending /\ ~IsFunction(v)
    BY <1>1, <1>4 DEF LookupFails, IllegalReference, StacksInv
  <2>2. Reaches(Top, v)
    BY <1>1, <1>3, <2>1, RefReaches DEF MetInv
  <2>3. PICK h \in Active : Holds(h, v) /\ Leads(h, Top)
    BY <1>1, <2>1, HolderFacts
  <2>4. Leads(v, h)
    BY <2>3 DEF Holds
  <2>5. Reaches(v, v)
    BY <1>3, <2>1, <2>2, <2>3, <2>4, ReachTrans DEF Leads
  <2>6. QED
    BY <2>1, <2>5 DEF InCycle
<1>5. ASSUME RecursiveData(Top) PROVE InCycle(Top) /\ ~IsFunction(Top)
  <2>1. ~IsFunction(Top) /\ Len(analysisStack) > 1 /\ low[Top] < low[Below]
    BY <1>5 DEF RecursiveData
  <2>2. Below \in Pending /\ ord[Below] < ord[Top]
    BY <1>1, <1>2, <1>3, <2>1, BelowFacts
  <2>3. low[Below] <= ord[Below]
    BY <1>1, <2>2 DEF LowInv, LowOf
  <2>4. low[Top] < ord[Top]
    BY <1>3, <2>1, <2>2, <2>3
  <2>5. QED
    BY <1>1, <1>2, <2>1, <2>4, LowerMeansCycle
<1>6. ASSUME IsFunction(Top), ~AllFunctions(Group(Top))
      PROVE  \E u \in Units : InCycle(u) /\ ~IsFunction(u)
  <2>1. PICK u \in Pending : ord[Top] <= ord[u] /\ ~IsFunction(u)
    BY <1>1, <1>2, <1>6, GroupFacts DEF AllFunctions
  <2>2. Holds(Top, u) /\ u # Top
    BY <1>1, <1>6, <2>1, HolderFacts
  <2>3. Reaches(u, Top) /\ Reaches(Top, u)
    BY <2>2 DEF Holds, Leads
  <2>4. InCycle(u)
    BY <1>3, <2>1, <2>3, ReachTrans DEF InCycle
  <2>5. QED
    BY <1>3, <2>1, <2>4
<1>7. QED
  BY <1>3, <1>4, <1>5, <1>6 DEF FinishFails

(* The invariant is inductive.                                             *)
LEMMA NextStep == IInv /\ [Next]_vars => IInv'
<1> SUFFICES ASSUME IInv, [Next]_vars PROVE IInv'
  OBVIOUS
<1>1. CASE AnalyseNext
  BY <1>1, EnterStep DEF AnalyseNext
<1>2. CASE AnalyseDone
  <2>1. OutcomeInv'
    BY <1>2 DEF AnalyseDone, OutcomeInv, Messages, unitVars
  <2>2. QED
    BY <1>2, <2>1, OutcomeStep DEF AnalyseDone
<1>3. ASSUME NEW v \in Units, Lookup(v) PROVE IInv'
  <2>1. /\ outcome = "running" /\ analysisStack # <<>> /\ v \in todo[Top]
        /\ todo' = [todo EXCEPT ![Top] = @ \ {v}]
    BY <1>3 DEF Lookup
  <2>2. CASE state[v] = "not_analysed"
    BY <1>3, <2>1, <2>2, EnterStep DEF Lookup
  <2>3. CASE state[v] = "analysed"
    BY <1>3, <2>1, <2>3, MeetStep DEF Lookup, unitVars
  <2>4. CASE state[v] = "in_progress"
    BY <1>3, <2>1, <2>4, MeetStep DEF Lookup, IllegalReference
  <2>5. state[v] \in {"not_analysed", "in_progress", "analysed"}
    BY DEF IInv, TypeOK
  <2>6. QED
    BY <2>2, <2>3, <2>4, <2>5
<1>4. CASE FinishFails \/ \E v \in Units : LookupFails(v)
  <2>1. \E u \in Units : InCycle(u) /\ ~IsFunction(u)
    BY <1>4, ThrowFacts
  <2>2. /\ UNCHANGED <<program, todo, unitVars, sccStack, analysisStack,
                       actions>>
        /\ outcome' \in Messages
    BY <1>4 DEF FinishFails, LookupFails, Throw, Messages
  <2>3. OutcomeInv'
    BY <2>1, <2>2, SameProgram DEF OutcomeInv, Messages
  <2>4. QED
    BY <2>2, <2>3, OutcomeStep
<1>5. CASE Finish
  BY <1>5, WaitStep, RootStep
<1>6. CASE UNCHANGED vars
  <2>1. UNCHANGED <<program, todo, unitVars, sccStack, analysisStack,
                    actions, outcome>>
    BY <1>6 DEF vars, unitVars
  <2>2. OutcomeInv'
    BY <2>1, SameProgram DEF IInv, OutcomeInv, unitVars
  <2>3. QED
    BY <2>1, <2>2, OutcomeStep DEF IInv, TypeOK
<1>7. QED
  BY <1>1, <1>2, <1>3, <1>4, <1>5, <1>6 DEF Next, Stopped

(* The invariant holds for any number of definitions and any program.      *)
THEOREM Invariance == Spec => []IInv
BY InitIInv, NextStep, PTL DEF Spec

(* The actions initialise the slots in dependency order.                   *)
THEOREM Ordered == Spec => []DependencyOrder
<1>1. IInv => DependencyOrder
  BY DEF IInv, ActionsInv, Component, DependencyOrder
<1>2. QED
  BY <1>1, Invariance, PTL

(* What is on the stacks is what analyse_unit() takes it for.              *)
THEOREM Stacks == Spec => []StackDiscipline
<1>1. IInv => StackDiscipline
  <2> SUFFICES ASSUME IInv PROVE StackDiscipline
    OBVIOUS
  <2>1. TypeOK /\ StacksInv /\ HeldInv /\ OutcomeInv
    BY DEF IInv
  <2>2. ASSUME NEW u \in Pending \ Active
        PROVE  \E v \in Active : ord[v] < ord[u] /\ Reaches(u, v)
    <3>1. PICK v \in Active : Holds(v, u)
      BY <2>1, <2>2 DEF HeldInv
    <3>2. v # u /\ u \in Pending /\ v \in Pending
      BY <2>1, <2>2, <3>1, StackFacts
    <3>3. ord[v] # ord[u] /\ ord[v] \in Int /\ ord[u] \in Int
      BY <2>1, <3>2, StackFacts DEF TypeOK
    <3>4. QED
      BY <3>1, <3>2, <3>3 DEF Holds, Leads
  <2>3. outcome = "ok" => sccStack = <<>>
    <3>1. SUFFICES ASSUME outcome = "ok", sccStack # <<>> PROVE FALSE
      OBVIOUS
    <3>2. Last(sccStack) \in Pending
      BY <2>1, <3>1, TopFacts DEF TypeOK, StacksInv, Pending
    <3>3. Active # {}
      BY <2>1, <3>2 DEF HeldInv
    <3>4. QED
      BY <2>1, <3>1, <3>3, StackFacts DEF OutcomeInv
  <2>4. QED
    BY <2>1, <2>2, <2>3
    DEF StackDiscipline, StacksInv, Sorted, Increasing, Pending, Active
<1>2. QED
  BY <1>1, Invariance, PTL

(* What the first actions initialise refers to nothing else.               *)
LEMMA Closed ==
    ASSUME IInv, NEW i \in DOMAIN actions
    PROVE  /\ \A u \in Initialised(i) : program.refs[u] \subseteq Initialised(i)
           /\ ToSet(actions[i].units) \subseteq Initialised(i)
           /\ Initialised(i - 1) \subseteq Initialised(i)
           /\ Initialised(i) \subseteq Units
           /\ \A u \in Initialised(i - 1) :
                 program.refs[u] \subseteq Initialised(i - 1)
<1>1. /\ Len(actions) \in Nat /\ DOMAIN actions = 1..Len(actions)
      /\ i \in 1..Len(actions)
  BY LenProperties DEF IInv, TypeOK
<1>2. ASSUME NEW n \in 1..Len(actions)
      PROVE  /\ ToSet(actions[n].units) \subseteq Units
             /\ \A u \in ToSet(actions[n].units) : \A w \in program.refs[u] :
                   w \in ToSet(actions[n].units) \/ w \in Initialised(n - 1)
  <2>1. Component(n)
    BY <1>1, <1>2 DEF IInv, ActionsInv
  <2>2. actions[n].units \in Seq(Units)
    <3> DEFINE A == [units : Seq(Units), reads : SUBSET Units]
    <3>1. actions \in Seq(A)
      BY DEF IInv, TypeOK
    <3>2. actions[n] \in A
      BY <1>2, <3>1, ElementOfSeq
    <3>3. QED
      BY <3>2
  <2>3. ToSet(actions[n].units) \subseteq Units
    <3>1. \A k \in 1..Len(actions[n].units) : actions[n].units[k] \in Units
      BY <2>2, ElementOfSeq
    <3>2. DOMAIN actions[n].units = 1..Len(actions[n].units)
      BY <2>2, LenProperties
    <3>3. QED
      BY <3>1, <3>2 DEF ToSet
  <2>4. ASSUME NEW u \in ToSet(actions[n].units), NEW w \in program.refs[u],
               w \notin ToSet(actions[n].units)
        PROVE  w \in Initialised(n - 1)
    <3>1. actions[n].reads =
            (UNION {program.refs[v] : v \in ToSet(actions[n].units)})
              \ ToSet(actions[n].units)
      BY <2>1 DEF Component
    <3>2. w \in actions[n].reads
      BY <2>4, <3>1, Zenon
    <3>3. QED
      BY <2>1, <3>2 DEF Component
  <2>5. QED
    BY <2>3, <2>4
<1>3. ASSUME NEW n \in 0..Len(actions), NEW u \in Initialised(n)
      PROVE  program.refs[u] \subseteq Initialised(n)
  <2>1. PICK k \in 1..n : u \in ToSet(actions[k].units)
    BY DEF Initialised
  <2>2. \A w \in program.refs[u] :
           w \in ToSet(actions[k].units) \/ w \in Initialised(k - 1)
    BY <1>1, <1>2, <1>3, <2>1
  <2>3. ToSet(actions[k].units) \subseteq Initialised(n)
    BY <2>1 DEF Initialised
  <2>4. Initialised(k - 1) \subseteq Initialised(n)
    <3>1. 1..(k - 1) \subseteq 1..n
      BY <1>1, <1>3, <2>1
    <3>2. QED
      BY <3>1 DEF Initialised
  <2>5. QED
    BY <2>2, <2>3, <2>4
<1>4. ToSet(actions[i].units) \subseteq Initialised(i)
  BY <1>1 DEF Initialised
<1>5. Initialised(i - 1) \subseteq Initialised(i)
  <2>1. 1..(i - 1) \subseteq 1..i
    BY <1>1
  <2>2. QED
    BY <2>1 DEF Initialised
<1>6. Initialised(i) \subseteq Units
  <2>1. 1..i \subseteq 1..Len(actions)
    BY <1>1
  <2>2. QED
    BY <1>2, <2>1 DEF Initialised
<1>7. i \in 0..Len(actions) /\ i - 1 \in 0..Len(actions)
  BY <1>1
<1>8. QED
  BY <1>3, <1>4, <1>5, <1>6, <1>7

(* Each action stands for the units that refer to each other.              *)
THEOREM Components == Spec => []ActionsAreComponents
<1>1. ASSUME IInv, NEW i \in DOMAIN actions,
             NEW u \in ToSet(actions[i].units), NEW v \in Units
      PROVE  v \in ToSet(actions[i].units) <=>
                v = u \/ (Reaches(u, v) /\ Reaches(v, u))
  <2>1. Component(i)
    BY <1>1 DEF IInv, ActionsInv
  <2>2. ASSUME Reaches(u, v), Reaches(v, u)
        PROVE  v \in ToSet(actions[i].units)
    <3>1. u \in Units /\ u \in Initialised(i)
      BY <1>1, Closed
    <3>2. v \in Initialised(i)
      BY <1>1, <2>2, <3>1, Closed DEF Reaches
    <3>3. v \notin Initialised(i - 1)
      <4>1. SUFFICES ASSUME v \in Initialised(i - 1) PROVE FALSE
        OBVIOUS
      <4>2. u \in Initialised(i - 1)
        BY <1>1, <2>2, <4>1, Closed DEF Reaches
      <4>3. QED
        BY <2>1, <4>2 DEF Component
    <3>4. Len(actions) \in Nat /\ i \in 1..Len(actions)
      BY <1>1, LenProperties DEF IInv, TypeOK
    <3>5. PICK k \in 1..i : v \in ToSet(actions[k].units)
      BY <3>2 DEF Initialised
    <3>6. k = i
      BY <3>3, <3>4, <3>5 DEF Initialised
    <3>7. QED
      BY <3>5, <3>6
  <2>3. QED
    BY <2>1, <2>2 DEF Component, Leads
<1>2. IInv => ActionsAreComponents
  BY <1>1 DEF ActionsAreComponents
<1>3. QED
  BY <1>2, Invariance, PTL

(* A scope is rejected if and only if a data definition depends on itself. *)
THEOREM Rejection == Spec => []RejectsDataCycles
<1>1. ASSUME IInv, outcome = "ok"
      PROVE  /\ Initialised(Len(actions)) = Units
             /\ \A u \in Units : InCycle(u) => IsFunction(u)
  <2>1. TypeOK /\ StacksInv /\ HeldInv /\ ActionsInv /\ OutcomeInv
    BY <1>1 DEF IInv
  <2>2. Pending = {}
    <3>1. Active = {}
      BY <1>1, <2>1, StackFacts DEF OutcomeInv
    <3>2. QED
      BY <2>1, <3>1 DEF HeldInv
  <2>3. \A u \in Units : state[u] = "analysed"
    BY <1>1, <2>1, <2>2 DEF OutcomeInv, StacksInv, TypeOK
  <2>4. Initialised(Len(actions)) = Units
    BY <2>1, <2>3 DEF ActionsInv
  <2>5. ASSUME NEW u \in Units, InCycle(u), ~IsFunction(u)
        PROVE  FALSE
    <3>1. Len(actions) \in Nat /\ DOMAIN actions = 1..Len(actions)
      BY <2>1, LenProperties DEF TypeOK
    <3>2. PICK i \in DOMAIN actions : u \in ToSet(actions[i].units)
      BY <2>4, <3>1 DEF Initialised
    <3>3. /\ ToSet(actions[i].units) = {u} /\ u \notin program.refs[u]
          /\ actions[i].reads \subseteq Initialised(i - 1)
          /\ actions[i].reads =
               (UNION {program.refs[v] : v \in {u}}) \ {u}
          /\ u \notin Initialised(i - 1)
      BY <2>1, <2>5, <3>2 DEF ActionsInv, Component
    <3>4. program.refs[u] \subseteq Initialised(i - 1)
      <4>1. ASSUME NEW w \in program.refs[u] PROVE w \in actions[i].reads
        <5>1. w # u /\ u \in {u}
          BY <3>3, <4>1
        <5>2. QED
          BY <3>3, <4>1, <5>1, Zenon
      <4>2. QED
        BY <3>3, <4>1
    <3>5. /\ Initialised(i - 1) \subseteq Units
          /\ \A v \in Initialised(i - 1) :
                program.refs[v] \subseteq Initialised(i - 1)
      BY <1>1, Closed
    <3>6. u \in Initialised(i - 1)
      BY <2>5, <3>4, <3>5 DEF InCycle, Reaches
    <3>7. QED
      BY <3>3, <3>6
  <2>6. QED
    BY <2>4, <2>5
<1>2. IInv => RejectsDataCycles
  BY <1>1 DEF RejectsDataCycles, IInv, TypeOK, OutcomeInv
<1>3. QED
  BY <1>2, Invariance, PTL

(* Every variable of the analysis has its type: a lowlink or an order is a *)
(* number, and the actions are sequences of the scope's units.             *)
THEOREM TypeCorrect == Spec => []TypeOK
<1>1. IInv => TypeOK
  BY DEF IInv
<1>2. QED
  BY <1>1, Invariance, PTL
=============================================================================

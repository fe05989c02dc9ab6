---------------------------- MODULE FrameSlots_proofs ----------------------------
(***************************************************************************)
(* Proofs about FrameSlots for any number of scopes and slots, opened and  *)
(* closed in any order that the analyser can bring about: variables that   *)
(* are visible together have slots of their own; and the frame has all of  *)
(* them, unless a scope overwrites what another has passed on meanwhile,   *)
(* which takes a scope that is not opened in the last one.                 *)
(***************************************************************************)
EXTENDS FrameSlots, SequenceTheorems, TLAPS

Environs == [parent : Nat, nslots : Nat, maxslots : Nat]
Known == 1..Len(s.env)
Live  == ToSet(scopes)

TypeOK ==
    /\ s \in [env : Seq(Environs)]
    /\ scopes \in Seq(Nat)
    /\ made \in Seq(SUBSET Nat) /\ Len(made) = Len(s.env)
    /\ lowered \in BOOLEAN /\ nested \in BOOLEAN

Sorted(q) == \A i, j \in DOMAIN q : i < j => q[i] < q[j]

(* Later environs have greater numbers, and lie inside of earlier ones.    *)
StackInv ==
    /\ Sorted(scopes)
    /\ Outermost \in Live /\ Live \subseteq Known
    /\ \A e \in Live \ {Outermost} : Parent(e) \in Live /\ Parent(e) < e

(* An environ has made the slots that follow those of its parent, which    *)
(* makes no more of them as long as it is there.                           *)
Base(e) == IF e = Outermost THEN 0 ELSE s.env[Parent(e)].nslots

SlotsInv ==
    \A e \in Live :
        /\ Base(e) <= s.env[e].nslots
        /\ s.env[e].nslots <= s.env[e].maxslots
        /\ made[e] = Base(e)..(s.env[e].nslots - 1)

(* Each slot that was made is counted by some environ that has not ended.  *)
CoverInv ==
    ~lowered =>
        \A d \in Known : \A k \in made[d] :
            \E e \in Live : k < s.env[e].maxslots

(* Then the environs form a chain, and an outer one has never counted more *)
(* slots than an inner one.                                                *)
NestInv ==
    nested =>
        /\ ~lowered
        /\ \A e \in Live \ {Outermost} :
              /\ s.env[Parent(e)].maxslots <= s.env[e].maxslots
              /\ \A d \in Live : d < e => d <= Parent(e)

(* What is counted was made.                                               *)
TightInv ==
    \A e \in Known :
        s.env[e].maxslots > 0 =>
            \E d \in Known : s.env[e].maxslots - 1 \in made[d]

IInv == TypeOK /\ StackInv /\ SlotsInv /\ CoverInv /\ NestInv /\ TightInv

-----------------------------------------------------------------------------
(* Stacks.                                                                 *)

(* The top of a sorted stack is its greatest element.                      *)
LEMMA TopFacts ==
    ASSUME NEW q \in Seq(Nat), Sorted(q), ToSet(q) # {}
    PROVE  /\ Last(q) \in ToSet(q)
           /\ \A x \in ToSet(q) : x \in Nat /\ x <= Last(q)
           /\ Front(q) \in Seq(Nat) /\ Sorted(Front(q))
           /\ ToSet(Front(q)) = ToSet(q) \ {Last(q)}
<1> DEFINE n == Len(q)
           f == Front(q)
<1>1. n \in Nat /\ DOMAIN q = 1..n /\ \A i \in 1..n : q[i] \in Nat
  BY LenProperties, ElementOfSeq
<1>2. n # 0
  BY <1>1 DEF ToSet
<1>3. Last(q) = q[n] /\ f = SubSeq(q, 1, n - 1)
  BY DEF Last, Front
<1>4. /\ f \in Seq(Nat) /\ DOMAIN f = 1..(n - 1)
      /\ \A i \in 1..(n - 1) : f[i] = q[i]
  BY <1>1, <1>2, <1>3, SubSeqProperties, LenProperties
<1>5. /\ ToSet(q) = {q[i] : i \in 1..n}
      /\ ToSet(f) = {q[i] : i \in 1..(n - 1)}
  BY <1>1, <1>4 DEF ToSet
<1> HIDE DEF n, f
<1>6. \A i \in 1..(n - 1) : q[i] < q[n]
  BY <1>1, <1>2 DEF Sorted
<1>7. Sorted(f)
  <2> SUFFICES ASSUME NEW i \in 1..(n - 1), NEW j \in 1..(n - 1), i < j
               PROVE  f[i] < f[j]
    BY <1>4 DEF Sorted
  <2>1. i \in DOMAIN q /\ j \in DOMAIN q
    BY <1>1
  <2>2. q[i] < q[j]
    BY <2>1 DEF Sorted
  <2>3. QED
    BY <1>4, <2>2
<1>8. 1..n = 1..(n - 1) \cup {n} /\ n \in 1..n
  BY <1>1, <1>2
<1>9. ToSet(f) = ToSet(q) \ {Last(q)}
  <2>1. \A i \in 1..(n - 1) : q[i] # q[n]
    BY <1>1, <1>6, <1>8
  <2>2. QED
    BY <1>3, <1>5, <1>8, <2>1
<1>10. \A x \in ToSet(q) : x \in Nat /\ x <= Last(q)
  BY <1>1, <1>3, <1>5, <1>6, <1>8
<1>11. QED
  BY <1>3, <1>4, <1>5, <1>7, <1>8, <1>9, <1>10 DEF f

(* A greater element goes on top of it.                                    *)
LEMMA PushFacts ==
    ASSUME NEW q \in Seq(Nat), Sorted(q), NEW x \in Nat,
           \A y \in ToSet(q) : y < x
    PROVE  /\ Append(q, x) \in Seq(Nat) /\ Sorted(Append(q, x))
           /\ ToSet(Append(q, x)) = ToSet(q) \cup {x}
<1> DEFINE n == Len(q)
           t == Append(q, x)
<1>1. /\ n \in Nat /\ DOMAIN q = 1..n /\ \A i \in 1..n : q[i] \in Nat
      /\ t \in Seq(Nat) /\ DOMAIN t = 1..(n + 1)
      /\ \A i \in 1..n : t[i] = q[i]
      /\ t[n + 1] = x
  BY LenProperties, ElementOfSeq, AppendProperties
<1>2. /\ ToSet(q) = {q[i] : i \in 1..n}
      /\ ToSet(t) = {t[i] : i \in 1..(n + 1)}
  BY <1>1 DEF ToSet
<1> HIDE DEF n, t
<1>3. 1..(n + 1) = 1..n \cup {n + 1}
  BY <1>1
<1>4. ToSet(t) = ToSet(q) \cup {x}
  BY <1>1, <1>2, <1>3
<1>5. \A i \in 1..n : q[i] < x
  BY <1>2
<1>6. Sorted(t)
  <2> SUFFICES ASSUME NEW i \in 1..(n + 1), NEW j \in 1..(n + 1), i < j
               PROVE  t[i] < t[j]
    BY <1>1 DEF Sorted
  <2>1. i \in 1..n
    BY <1>1
  <2>2. CASE j = n + 1
    BY <1>1, <1>5, <2>1, <2>2
  <2>3. CASE j # n + 1
    BY <1>1, <1>3, <2>1, <2>3 DEF Sorted
  <2>4. QED
    BY <2>2, <2>3
<1>7. QED
  BY <1>1, <1>4, <1>6 DEF t

(* The environs that have not ended; the last of them is the innermost.    *)
LEMMA LiveFacts ==
    ASSUME TypeOK, StackInv
    PROVE  /\ Innermost \in Live /\ Len(s.env) \in Nat
           /\ \A e \in Live : e \in Known /\ e \in Nat /\ e <= Innermost
           /\ \A e \in Known : s.env[e] \in Environs /\ made[e] \in SUBSET Nat
           /\ \A e \in Live \ {Outermost} : Parent(e) # Innermost
           /\ Outermost \in Known
<1>1. /\ Innermost \in Live
      /\ \A e \in Live : e \in Nat /\ e <= Innermost
  BY TopFacts DEF TypeOK, StackInv, Live, Innermost
<1>2. /\ Len(s.env) \in Nat
      /\ \A e \in Known : s.env[e] \in Environs /\ made[e] \in SUBSET Nat
  BY LenProperties, ElementOfSeq DEF TypeOK, Known
<1>3. \A e \in Live : e \in Known
  BY DEF StackInv
<1>4. ASSUME NEW e \in Live \ {Outermost} PROVE Parent(e) # Innermost
  BY <1>1 DEF StackInv
<1>5. QED
  BY <1>1, <1>2, <1>3, <1>4 DEF StackInv

-----------------------------------------------------------------------------
(* What the operators of Environs do.                                      *)

(* A new entry at the end of the table.                                    *)
LEMMA OpenFacts ==
    ASSUME NEW t \in [env : Seq(Environs)], NEW x \in Environs
    PROVE  LET n == Len(t.env) IN
           /\ Open(x, t) \in [env : Seq(Environs)]
           /\ n \in Nat /\ Len(Open(x, t).env) = n + 1
           /\ \A e \in 1..n : Open(x, t).env[e] = t.env[e]
           /\ Open(x, t).env[n + 1] = x
<1>1. t.env \in Seq(Environs) /\ Open(x, t) = [t EXCEPT !.env = Append(t.env, x)]
  BY DEF Open
<1>2. Open(x, t).env = Append(t.env, x)
  BY <1>1
<1>3. /\ Append(t.env, x) \in Seq(Environs)
      /\ Len(Append(t.env, x)) = Len(t.env) + 1
      /\ Len(t.env) \in Nat
      /\ \A e \in 1..Len(t.env) : Append(t.env, x)[e] = t.env[e]
      /\ Append(t.env, x)[Len(t.env) + 1] = x
  BY <1>1, AppendProperties, LenProperties
<1>4. QED
  BY <1>1, <1>2, <1>3

(* One entry changes.                                                      *)
LEMMA UpdateFacts ==
    ASSUME NEW t \in [env : Seq(Environs)], NEW e \in 1..Len(t.env),
           NEW x \in Environs,
           NEW u, u = [t EXCEPT !.env = [t.env EXCEPT ![e] = x]]
    PROVE  /\ u \in [env : Seq(Environs)] /\ Len(u.env) = Len(t.env)
           /\ u.env[e] = x
           /\ \A d \in 1..Len(t.env) \ {e} : u.env[d] = t.env[d]
<1>1. t.env \in Seq(Environs) /\ DOMAIN t.env = 1..Len(t.env)
  BY LenProperties
<1>2. u.env = [t.env EXCEPT ![e] = x] /\ u = [env |-> u.env]
  OBVIOUS
<1>3. u.env \in Seq(Environs) /\ Len(u.env) = Len(t.env)
  BY <1>1, <1>2, ExceptSeq
<1>4. QED
  BY <1>1, <1>2, <1>3

(* The next slot is taken, and counted.                                    *)
LEMMA MakeSlotFacts ==
    ASSUME NEW t \in [env : Seq(Environs)], NEW e \in 1..Len(t.env)
    PROVE  LET old == t.env[e]
               u   == MakeSlot(e, t)
           IN  /\ old \in Environs
               /\ u \in [env : Seq(Environs)] /\ Len(u.env) = Len(t.env)
               /\ u.env[e].parent = old.parent
               /\ u.env[e].nslots = old.nslots + 1
               /\ u.env[e].maxslots = IF old.maxslots < old.nslots + 1
                                      THEN old.nslots + 1 ELSE old.maxslots
               /\ \A d \in 1..Len(t.env) \ {e} : u.env[d] = t.env[d]
<1> DEFINE old == t.env[e]
           max == IF old.maxslots < old.nslots + 1
                  THEN old.nslots + 1 ELSE old.maxslots
           x   == Environ(old.parent, old.nslots + 1, max)
<1>1. old \in Environs /\ e \in DOMAIN t.env
  BY ElementOfSeq, LenProperties
<1>2. x \in Environs /\ x.parent = old.parent /\ x.nslots = old.nslots + 1
      /\ x.maxslots = max
  BY <1>1 DEF Environs, Environ
<1>3. x = [old EXCEPT !.nslots = old.nslots + 1, !.maxslots = max]
  <2>1. \A n, m : [old EXCEPT !.nslots = n, !.maxslots = m]
                  = [[old EXCEPT !.nslots = n] EXCEPT !.maxslots = m]
    OBVIOUS
  <2>2. \A n : [old EXCEPT !.nslots = n] = Environ(old.parent, n, old.maxslots)
    BY <1>1 DEF Environs, Environ
  <2>3. \A n, m : [Environ(old.parent, n, old.maxslots) EXCEPT !.maxslots = m]
                  = Environ(old.parent, n, m)
    BY DEF Environ
  <2>4. QED
    BY <2>1, <2>2, <2>3
<1>4. MakeSlot(e, t) = [t EXCEPT !.env = [t.env EXCEPT ![e] = x]]
  BY <1>1, <1>3 DEF MakeSlot, Environs
<1> HIDE DEF x
<1>5. QED
  BY <1>1, <1>2, <1>4, UpdateFacts

(* The outer environ gets the count of the inner one, whatever it had.     *)
LEMMA CloseScopeFacts ==
    ASSUME NEW t \in [env : Seq(Environs)],
           NEW e \in 1..Len(t.env), NEW c \in 1..Len(t.env)
    PROVE  LET u == CloseScope(e, c, t)
           IN  /\ u \in [env : Seq(Environs)] /\ Len(u.env) = Len(t.env)
               /\ u.env[e].parent = t.env[e].parent
               /\ u.env[e].nslots = t.env[e].nslots
               /\ u.env[e].maxslots = t.env[c].maxslots
               /\ \A d \in 1..Len(t.env) \ {e} : u.env[d] = t.env[d]
<1> DEFINE old == t.env[e]
           x   == [old EXCEPT !.maxslots = t.env[c].maxslots]
<1>1. old \in Environs /\ t.env[c] \in Environs /\ e \in DOMAIN t.env
  BY ElementOfSeq, LenProperties
<1>2. x \in Environs /\ x.parent = old.parent /\ x.nslots = old.nslots
      /\ x.maxslots = t.env[c].maxslots
  BY <1>1 DEF Environs
<1>3. CloseScope(e, c, t) = [t EXCEPT !.env = [t.env EXCEPT ![e] = x]]
  BY <1>1 DEF CloseScope, Environs
<1> HIDE DEF x
<1>4. QED
  BY <1>1, <1>2, <1>3, UpdateFacts

-----------------------------------------------------------------------------
(* The invariant.                                                          *)

(* A frame starts with an environ that has made no slot.                   *)
LEMMA InitIInv == Init => IInv
<1> SUFFICES ASSUME Init PROVE IInv
  OBVIOUS
<1> DEFINE first == Environ(0, 0, 0)
<1>1. /\ s = [env |-> <<first>>] /\ first \in Environs
      /\ first.nslots = 0 /\ first.maxslots = 0 /\ s.env[1] = first
      /\ Len(s.env) = 1 /\ s.env \in Seq(Environs)
  BY DEF Init, Environ, Environs
<1>2. /\ scopes = <<1>> /\ scopes \in Seq(Nat) /\ made = <<{}>>
      /\ made \in Seq(SUBSET Nat) /\ Len(made) = 1 /\ made[1] = {}
      /\ DOMAIN scopes = {1} /\ scopes[1] = 1
  BY DEF Init, Outermost
<1>3. Live = {1} /\ Known = {1}
  BY <1>1, <1>2 DEF Live, Known, ToSet
<1>4. TypeOK
  BY <1>1, <1>2 DEF TypeOK, Init
<1>5. StackInv
  BY <1>2, <1>3 DEF StackInv, Sorted, Outermost
<1> HIDE DEF first
<1>6. SlotsInv /\ CoverInv /\ NestInv /\ TightInv
  BY <1>1, <1>2, <1>3
  DEF SlotsInv, CoverInv, NestInv, TightInv, Base, Outermost, Init
<1>7. QED
  BY <1>4, <1>5, <1>6 DEF IInv

(* A scope that is opened goes on where its parent is.                     *)
LEMMA OpenStep ==
    ASSUME IInv, NEW p \in Live, OpenScope(p) PROVE IInv'
<1> DEFINE n == Len(s.env)
           old == s.env[p]
           new == Environ(p, old.nslots, old.maxslots)
<1>1. TypeOK /\ StackInv /\ SlotsInv /\ CoverInv /\ NestInv /\ TightInv
  BY DEF IInv
<1>2. /\ Innermost \in Live /\ n \in Nat /\ Known = 1..n
      /\ \A e \in Live : e \in Known /\ e \in Nat /\ e <= Innermost
      /\ \A e \in Known : s.env[e] \in Environs /\ made[e] \in SUBSET Nat
  BY <1>1, LiveFacts DEF Known
<1>3. /\ old \in Environs /\ p \in Known /\ p \in Nat
      /\ old.nslots \in Nat /\ old.maxslots \in Nat
  BY <1>2 DEF Environs
<1>4. /\ new \in Environs /\ new.parent = p
      /\ new.nslots = old.nslots /\ new.maxslots = old.maxslots
  BY <1>3 DEF Environs, Environ
<1>5. /\ s' = Open(new, s) /\ scopes' = Append(scopes, Latest(s'))
      /\ made' = Append(made, {}) /\ lowered' = lowered
      /\ nested' = (nested /\ p = Innermost)
  BY DEF OpenScope
<1> HIDE DEF new
<1>6. /\ s' \in [env : Seq(Environs)] /\ Len(s'.env) = n + 1
      /\ \A e \in Known : s'.env[e] = s.env[e]
      /\ s'.env[n + 1] = new
  BY <1>1, <1>2, <1>4, <1>5, OpenFacts DEF TypeOK
<1>7. /\ made' \in Seq(SUBSET Nat) /\ Len(made') = n + 1
      /\ \A e \in Known : made'[e] = made[e]
      /\ made'[n + 1] = {}
  BY <1>1, <1>2, <1>5, AppendProperties DEF TypeOK
<1>8. /\ scopes' \in Seq(Nat) /\ Sorted(scopes')
      /\ Live' = Live \cup {n + 1}
  <2>1. Latest(s') = n + 1
    BY <1>6 DEF Latest
  <2>2. \A e \in ToSet(scopes) : e < n + 1
    BY <1>2 DEF Live
  <2>3. QED
    BY <1>1, <1>2, <1>5, <2>1, <2>2, PushFacts DEF TypeOK, StackInv, Live
<1>9. TypeOK'
  BY <1>1, <1>5, <1>6, <1>7, <1>8 DEF TypeOK
<1> HIDE DEF n, old
<1>10. /\ Known' = Known \cup {n + 1} /\ n + 1 \notin Known
       /\ \A e \in Live : e \in Known /\ e # n + 1 /\ e < n + 1
       /\ n + 1 # Outermost
  BY <1>2, <1>3, <1>6 DEF Known, Outermost
<1>11. StackInv'
  <2>1. ASSUME NEW e \in Live' \ {Outermost}
        PROVE  Parent(e)' \in Live' /\ Parent(e)' < e
    <3>1. CASE e = n + 1
      BY <1>4, <1>6, <1>8, <1>10, <3>1 DEF Parent
    <3>2. CASE e # n + 1
      BY <1>1, <1>6, <1>8, <1>10, <2>1, <3>2 DEF Parent, StackInv
    <3>3. QED
      BY <3>1, <3>2
  <2>2. Outermost \in Live' /\ Live' \subseteq Known'
    BY <1>1, <1>8, <1>10 DEF StackInv
  <2>3. QED
    BY <1>8, <2>1, <2>2 DEF StackInv
<1>12. \A e \in Live : Base(e)' = Base(e)
  BY <1>1, <1>6, <1>10 DEF Base, Parent, StackInv
<1>13. ASSUME NEW e, e = n + 1 PROVE Base(e)' = old.nslots
  <2>1. e # Outermost /\ s'.env[e].parent = p /\ s'.env[p] = old
    BY <1>3, <1>4, <1>6, <1>10, <1>13 DEF old
  <2>2. QED
    BY <2>1 DEF Base, Parent
<1>14. SlotsInv'
  <2> SUFFICES ASSUME NEW e \in Live'
               PROVE  /\ Base(e)' <= s'.env[e].nslots
                      /\ s'.env[e].nslots <= s'.env[e].maxslots
                      /\ made'[e] = Base(e)'..(s'.env[e].nslots - 1)
    BY DEF SlotsInv
  <2>1. CASE e = n + 1
    <3>1. old.nslots <= old.maxslots
      BY <1>1 DEF SlotsInv, old
    <3>2. old.nslots..(old.nslots - 1) = {}
      BY <1>3
    <3>3. /\ Base(e)' = old.nslots /\ made'[e] = {}
          /\ s'.env[e].nslots = old.nslots
          /\ s'.env[e].maxslots = old.maxslots
      BY <1>4, <1>6, <1>7, <1>13, <2>1
    <3>4. Base(e)'..(s'.env[e].nslots - 1) = {}
      BY <3>2, <3>3
    <3>5. QED
      BY <1>3, <3>1, <3>3, <3>4
  <2>2. CASE e # n + 1
    BY <1>1, <1>6, <1>7, <1>8, <1>10, <1>12, <2>2 DEF SlotsInv
  <2>3. QED
    BY <2>1, <2>2
<1>15. CoverInv'
  BY <1>1, <1>5, <1>6, <1>7, <1>8, <1>10 DEF CoverInv
<1>16. NestInv'
  <2> SUFFICES ASSUME nested' PROVE NestInv'
    BY DEF NestInv
  <2>1. nested /\ p = Innermost /\ ~lowered
    BY <1>1, <1>5 DEF NestInv
  <2>2. ASSUME NEW e \in Live' \ {Outermost}
        PROVE  /\ s'.env[Parent(e)'].maxslots <= s'.env[e].maxslots
               /\ \A d \in Live' : d < e => d <= Parent(e)'
    <3>1. CASE e = n + 1
      <4>1. Parent(e)' = p /\ s'.env[p] = old /\ s'.env[e] = new
        BY <1>3, <1>4, <1>6, <3>1 DEF Parent, old
      <4>2. \A d \in Live : d <= p
        BY <1>2, <2>1
      <4>3. \A d \in Live' : d < e => d \in Live
        BY <1>2, <1>8, <3>1
      <4>4. s'.env[Parent(e)'].maxslots = old.maxslots
            /\ s'.env[e].maxslots = old.maxslots
        BY <1>4, <4>1
      <4>5. \A d \in Live' : d < e => d <= Parent(e)'
        BY <4>1, <4>2, <4>3
      <4>6. QED
        BY <1>3, <4>4, <4>5
    <3>2. CASE e # n + 1
      <4>1. /\ e \in Live \ {Outermost} /\ Parent(e)' = Parent(e)
            /\ Parent(e) \in Known /\ e \in Known
        BY <1>1, <1>6, <1>8, <1>10, <2>2, <3>2 DEF Parent, StackInv
      <4>2. \A d \in Live' : d < e => d \in Live
        BY <1>2, <1>8, <1>10, <4>1
      <4>3. QED
        BY <1>1, <1>6, <2>1, <4>1, <4>2 DEF NestInv
    <3>3. QED
      BY <3>1, <3>2
  <2>3. QED
    BY <1>5, <2>1, <2>2 DEF NestInv
<1>17. TightInv'
  <2> SUFFICES ASSUME NEW e \in Known', s'.env[e].maxslots > 0
               PROVE  \E d \in Known' : s'.env[e].maxslots - 1 \in made'[d]
    BY DEF TightInv
  <2>1. PICK c \in Known : s'.env[e].maxslots = s.env[c].maxslots
    BY <1>3, <1>4, <1>6, <1>10 DEF old
  <2>2. QED
    BY <1>1, <1>7, <1>10, <2>1 DEF TightInv
<1>18. QED
  BY <1>9, <1>11, <1>14, <1>15, <1>16, <1>17 DEF IInv

(* A binding takes the slot after those of its environ and of the outer    *)
(* ones.                                                                   *)
LEMMA BindingStep == IInv /\ AddBinding => IInv'
<1> SUFFICES ASSUME IInv, AddBinding PROVE IInv'
  OBVIOUS
<1> DEFINE c == Innermost
           old == s.env[c]
           k == old.nslots
<1>1. TypeOK /\ StackInv /\ SlotsInv /\ CoverInv /\ NestInv /\ TightInv
  BY DEF IInv
<1>2. /\ c \in Live /\ Len(s.env) \in Nat
      /\ \A e \in Live : e \in Known /\ e \in Nat /\ e <= c
      /\ \A e \in Known : s.env[e] \in Environs /\ made[e] \in SUBSET Nat
      /\ \A e \in Live \ {Outermost} : Parent(e) # c
  BY <1>1, LiveFacts
<1>3. /\ old \in Environs /\ c \in Known /\ k \in Nat /\ old.maxslots \in Nat
      /\ old.parent \in Nat
  BY <1>2 DEF Environs
<1>4. /\ s' = MakeSlot(c, s) /\ made' = [made EXCEPT ![c] = @ \cup {k}]
      /\ scopes' = scopes /\ lowered' = lowered /\ nested' = nested
  BY DEF AddBinding
<1>5. /\ s' \in [env : Seq(Environs)] /\ Len(s'.env) = Len(s.env)
      /\ s'.env[c].parent = old.parent
      /\ s'.env[c].nslots = k + 1
      /\ s'.env[c].maxslots = IF old.maxslots < k + 1
                              THEN k + 1 ELSE old.maxslots
      /\ \A e \in Known \ {c} : s'.env[e] = s.env[e]
  BY <1>1, <1>3, <1>4, MakeSlotFacts DEF TypeOK, Known
<1>6. /\ made' \in Seq(SUBSET Nat) /\ Len(made') = Len(made)
      /\ made'[c] = made[c] \cup {k}
      /\ \A e \in Known \ {c} : made'[e] = made[e]
  <2>1. made[c] \cup {k} \in SUBSET Nat /\ c \in 1..Len(made)
        /\ DOMAIN made = 1..Len(made)
    BY <1>1, <1>2, <1>3, LenProperties DEF TypeOK, Known
  <2>2. QED
    BY <1>1, <1>4, <2>1, ExceptSeq DEF TypeOK, Known
<1>7. Live' = Live /\ Known' = Known
  BY <1>4, <1>5 DEF Live, Known
<1>8. TypeOK'
  BY <1>1, <1>4, <1>5, <1>6 DEF TypeOK
<1> HIDE DEF c, k, old
<1>9. \A e \in Known : Parent(e)' = Parent(e)
  BY <1>3, <1>5 DEF Parent, old
<1>10. StackInv'
  BY <1>1, <1>2, <1>4, <1>7, <1>9 DEF StackInv
<1>11. \A e \in Live : Base(e)' = Base(e)
  <2>1. ASSUME NEW e \in Live \ {Outermost} PROVE Base(e)' = Base(e)
    <3>1. Parent(e) \in Known \ {c} /\ e \in Known
      BY <1>1, <1>2 DEF StackInv
    <3>2. QED
      BY <1>5, <1>9, <3>1 DEF Base
  <2>2. QED
    BY <2>1 DEF Base
<1>12. SlotsInv'
  <2> SUFFICES ASSUME NEW e \in Live
               PROVE  /\ Base(e)' <= s'.env[e].nslots
                      /\ s'.env[e].nslots <= s'.env[e].maxslots
                      /\ made'[e] = Base(e)'..(s'.env[e].nslots - 1)
    BY <1>7 DEF SlotsInv
  <2>1. CASE e = c
    <3>1. Base(c) <= k /\ k <= old.maxslots /\ made[c] = Base(c)..(k - 1)
      BY <1>1, <1>2 DEF SlotsInv, old, k
    <3>2. Base(c) \in Nat
      <4>1. c # Outermost => Parent(c) \in Known
        BY <1>1, <1>2 DEF StackInv
      <4>2. QED
        BY <1>2, <4>1 DEF Base, Environs
    <3>3. (Base(c)..(k - 1)) \cup {k} = Base(c)..k
      BY <1>3, <3>1, <3>2
    <3>4. /\ Base(e)' = Base(c) /\ made'[e] = Base(c)..k
          /\ s'.env[e].nslots = k + 1
          /\ s'.env[e].maxslots >= k + 1
      <4>1. Base(e)' = Base(e)
        BY <1>11
      <4>2. s'.env[e].maxslots >= k + 1
        BY <1>3, <1>5, <2>1
      <4>3. Base(e) = Base(c)
        BY <2>1
      <4>4. made'[e] = Base(c)..k /\ s'.env[e].nslots = k + 1
        BY <1>5, <1>6, <2>1, <3>1, <3>3
      <4>5. QED
        BY <4>1, <4>2, <4>3, <4>4
    <3>5. Base(e)'..(s'.env[e].nslots - 1) = Base(c)..k
      <4>1. (k + 1) - 1 = k
        BY <1>3
      <4>2. QED
        BY <3>4, <4>1
    <3>6. s'.env[e].maxslots \in Nat
      BY <1>3, <1>5, <2>1
    <3>7. QED
      BY <1>3, <3>1, <3>2, <3>4, <3>5, <3>6
  <2>2. CASE e # c
    BY <1>1, <1>2, <1>5, <1>6, <1>11, <2>2 DEF SlotsInv
  <2>3. QED
    BY <2>1, <2>2
<1>13. \A e \in Known : /\ s'.env[e].maxslots \in Nat
                        /\ s.env[e].maxslots \in Nat
                        /\ s.env[e].maxslots <= s'.env[e].maxslots
  <2> SUFFICES ASSUME NEW e \in Known
               PROVE  /\ s'.env[e].maxslots \in Nat
                      /\ s.env[e].maxslots \in Nat
                      /\ s.env[e].maxslots <= s'.env[e].maxslots
    OBVIOUS
  <2>1. s.env[e].maxslots \in Nat
    BY <1>2 DEF Environs
  <2>2. CASE e = c
    <3>1. s.env[e] = old
      BY <2>2 DEF old
    <3>2. s'.env[e].maxslots = IF old.maxslots < k + 1
                               THEN k + 1 ELSE old.maxslots
      BY <1>5, <2>2
    <3>3. QED
      BY <1>3, <3>1, <3>2
  <2>3. CASE e # c
    BY <1>5, <2>1, <2>3
  <2>4. QED
    BY <2>2, <2>3
<1>14. k < s'.env[c].maxslots
  BY <1>3, <1>5
<1>15. CoverInv'
  <2> SUFFICES ASSUME ~lowered, NEW d \in Known, NEW j \in made'[d]
               PROVE  \E e \in Live : j < s'.env[e].maxslots
    BY <1>4, <1>7 DEF CoverInv
  <2>1. CASE d = c /\ j = k
    BY <1>2, <1>14, <2>1
  <2>2. CASE ~(d = c /\ j = k)
    <3>1. j \in made[d] /\ j \in Nat
      BY <1>2, <1>6, <2>2
    <3>2. PICK e \in Live : j < s.env[e].maxslots
      BY <1>1, <3>1 DEF CoverInv
    <3>3. QED
      BY <1>2, <1>13, <3>1, <3>2
  <2>3. QED
    BY <2>1, <2>2
<1>16. NestInv'
  <2> SUFFICES ASSUME nested PROVE NestInv'
    BY <1>4 DEF NestInv
  <2>1. ~lowered
    BY <1>1 DEF NestInv
  <2>2. ASSUME NEW e \in Live \ {Outermost}
        PROVE  /\ s'.env[Parent(e)'].maxslots <= s'.env[e].maxslots
               /\ \A d \in Live : d < e => d <= Parent(e)'
    <3>1. Parent(e) \in Known \ {c} /\ e \in Known
      BY <1>1, <1>2 DEF StackInv
    <3>2. /\ s.env[Parent(e)].maxslots <= s.env[e].maxslots
          /\ \A d \in Live : d < e => d <= Parent(e)
      BY <1>1 DEF NestInv
    <3>3. QED
      BY <1>5, <1>9, <1>13, <3>1, <3>2
  <2>3. QED
    BY <1>4, <1>7, <2>1, <2>2 DEF NestInv
<1>17. TightInv'
  <2> SUFFICES ASSUME NEW e \in Known, s'.env[e].maxslots > 0
               PROVE  \E d \in Known : s'.env[e].maxslots - 1 \in made'[d]
    BY <1>7 DEF TightInv
  <2>1. \A d \in Known : made[d] \subseteq made'[d]
    BY <1>6
  <2>2. CASE s'.env[e].maxslots = s.env[e].maxslots
    BY <1>1, <2>1, <2>2 DEF TightInv
  <2>3. CASE s'.env[e].maxslots # s.env[e].maxslots
    <3>1. e = c /\ s'.env[e].maxslots = k + 1
      BY <1>5, <2>3 DEF old
    <3>2. QED
      BY <1>3, <1>6, <3>1
  <2>4. QED
    BY <2>2, <2>3
<1>18. QED
  BY <1>8, <1>10, <1>12, <1>15, <1>16, <1>17 DEF IInv

(* The count of the innermost environ replaces that of its parent.         *)
LEMMA PassStep ==
    ASSUME IInv, PassMaxslots,
           \/ UNCHANGED scopes
           \/ scopes' = Front(scopes)
    PROVE  IInv'
<1> DEFINE c == Innermost
           p == Parent(c)
           max == s.env[c].maxslots
<1>1. TypeOK /\ StackInv /\ SlotsInv /\ CoverInv /\ NestInv /\ TightInv
  BY DEF IInv
<1>2. /\ c \in Live /\ Len(s.env) \in Nat
      /\ \A e \in Live : e \in Known /\ e \in Nat /\ e <= c
      /\ \A e \in Known : s.env[e] \in Environs /\ made[e] \in SUBSET Nat
      /\ \A e \in Live \ {Outermost} : Parent(e) # c
  BY <1>1, LiveFacts
<1>3. /\ c # Outermost /\ s' = CloseScope(p, c, s)
      /\ lowered' = (lowered \/ max < s.env[p].maxslots)
      /\ made' = made /\ nested' = nested
  BY DEF PassMaxslots
<1>4. /\ p \in Live /\ p < c /\ p \in Known /\ c \in Known /\ p # c
      /\ max \in Nat /\ s.env[p].maxslots \in Nat
  <2>1. p \in Live /\ p < c
    BY <1>1, <1>2, <1>3 DEF StackInv
  <2>2. QED
    BY <1>2, <2>1 DEF Environs
<1>5. /\ s' \in [env : Seq(Environs)] /\ Len(s'.env) = Len(s.env)
      /\ s'.env[p].parent = s.env[p].parent
      /\ s'.env[p].nslots = s.env[p].nslots
      /\ s'.env[p].maxslots = max
      /\ \A e \in Known \ {p} : s'.env[e] = s.env[e]
  BY <1>1, <1>3, <1>4, CloseScopeFacts DEF TypeOK, Known
<1>6. /\ scopes' \in Seq(Nat) /\ Sorted(scopes')
      /\ Live' \subseteq Live /\ Live \ {c} \subseteq Live'
  <2>1. ToSet(scopes) # {} /\ Sorted(scopes) /\ scopes \in Seq(Nat)
    BY <1>1 DEF TypeOK, StackInv, Live
  <2>2. CASE UNCHANGED scopes
    BY <2>1, <2>2 DEF Live
  <2>3. CASE scopes' = Front(scopes)
    BY <2>1, <2>3, TopFacts DEF Live, Innermost
  <2>4. QED
    BY <2>2, <2>3
<1>7. Known' = Known /\ Outermost \in Live' /\ p \in Live'
  BY <1>1, <1>3, <1>4, <1>5, <1>6 DEF Known, StackInv
<1>8. TypeOK'
  BY <1>1, <1>3, <1>5, <1>6 DEF TypeOK
<1> HIDE DEF c, p, max
<1>9. \A e \in Known : /\ Parent(e)' = Parent(e)
                       /\ s'.env[e].nslots = s.env[e].nslots
  BY <1>5 DEF Parent
<1>10. \A e \in Live' \ {Outermost} :
          /\ e \in Known /\ Parent(e) \in Live' /\ Parent(e) \in Known
          /\ Parent(e) < e
  <2> SUFFICES ASSUME NEW e \in Live' \ {Outermost}
               PROVE  /\ e \in Known /\ Parent(e) \in Live'
                      /\ Parent(e) \in Known /\ Parent(e) < e
    OBVIOUS
  <2>1. e \in Live \ {Outermost}
    BY <1>6
  <2>2. Parent(e) \in Live /\ Parent(e) < e /\ Parent(e) # c
    BY <1>1, <1>2, <2>1 DEF StackInv
  <2>3. QED
    BY <1>2, <1>6, <2>1, <2>2
<1>11. StackInv'
  BY <1>2, <1>6, <1>7, <1>9, <1>10 DEF StackInv
<1>12. \A e \in Live' : Base(e)' = Base(e)
  BY <1>9, <1>10 DEF Base
<1>13. SlotsInv'
  <2> SUFFICES ASSUME NEW e \in Live'
               PROVE  /\ Base(e)' <= s'.env[e].nslots
                      /\ s'.env[e].nslots <= s'.env[e].maxslots
                      /\ made'[e] = Base(e)'..(s'.env[e].nslots - 1)
    BY DEF SlotsInv
  <2>1. e \in Live /\ e \in Known
    BY <1>2, <1>6
  <2>2. Base(e)' = Base(e) /\ s'.env[e].nslots = s.env[e].nslots
    BY <1>9, <1>12, <2>1
  <2>3. /\ Base(e) <= s.env[e].nslots
        /\ s.env[e].nslots <= s.env[e].maxslots
        /\ made[e] = Base(e)..(s.env[e].nslots - 1)
    BY <1>1, <2>1 DEF SlotsInv
  <2>4. s'.env[e].nslots <= s'.env[e].maxslots
    <3>1. CASE e # p
      BY <1>5, <2>1, <2>3, <3>1
    <3>2. CASE e = p
      <4>1. Base(c) = s.env[p].nslots
        BY <1>3 DEF Base, p
      <4>2. Base(c) <= s.env[c].nslots /\ s.env[c].nslots <= max
        BY <1>1, <1>2 DEF SlotsInv, max
      <4>3. s.env[p].nslots \in Nat /\ s.env[c].nslots \in Nat
        BY <1>2, <1>4 DEF Environs
      <4>4. QED
        BY <1>4, <1>5, <2>2, <3>2, <4>1, <4>2, <4>3
    <3>3. QED
      BY <3>1, <3>2
  <2>5. QED
    BY <1>3, <2>2, <2>3, <2>4
<1>14. CoverInv'
  <2> SUFFICES ASSUME ~lowered', NEW d \in Known, NEW j \in made[d]
               PROVE  \E e \in Live' : j < s'.env[e].maxslots
    BY <1>3, <1>7 DEF CoverInv
  <2>1. ~lowered /\ s.env[p].maxslots <= max
    <3>1. ~lowered /\ ~(max < s.env[p].maxslots)
      BY <1>3, Zenon
    <3>2. QED
      BY <1>4, <3>1
  <2>2. PICK e \in Live : j < s.env[e].maxslots
    BY <1>1, <2>1 DEF CoverInv
  <2>3. j \in Nat /\ s.env[e].maxslots \in Nat
    BY <1>2, <2>2 DEF Environs
  <2>4. CASE e \in {p, c}
    <3>1. j < s'.env[p].maxslots
      BY <1>4, <1>5, <2>1, <2>2, <2>3, <2>4 DEF max
    <3>2. QED
      BY <1>7, <3>1
  <2>5. CASE e \notin {p, c}
    BY <1>2, <1>5, <1>6, <2>2, <2>5
  <2>6. QED
    BY <2>4, <2>5
<1>15. NestInv'
  <2> SUFFICES ASSUME nested PROVE NestInv'
    BY <1>3 DEF NestInv
  <2>1. /\ ~lowered
        /\ \A e \in Live \ {Outermost} :
              /\ s.env[Parent(e)].maxslots <= s.env[e].maxslots
              /\ \A d \in Live : d < e => d <= Parent(e)
    BY <1>1 DEF NestInv
  <2>2. s.env[p].maxslots <= max
    BY <1>2, <1>3, <2>1 DEF p, max
  <2>3. ~lowered'
    <3>1. ~(max < s.env[p].maxslots)
      BY <1>4, <2>2
    <3>2. QED
      BY <1>3, <2>1, <3>1, Zenon
  <2>4. ASSUME NEW e \in Live' \ {Outermost}
        PROVE  /\ s'.env[Parent(e)'].maxslots <= s'.env[e].maxslots
               /\ \A d \in Live' : d < e => d <= Parent(e)'
    <3>1. e \in Live \ {Outermost} /\ Parent(e) \in Known /\ e \in Known
      BY <1>6, <1>10
    <3>2. /\ Parent(e)' = Parent(e)
          /\ s.env[Parent(e)].maxslots <= s.env[e].maxslots
          /\ \A d \in Live' : d < e => d <= Parent(e)
          /\ s.env[Parent(e)].maxslots \in Nat /\ s.env[e].maxslots \in Nat
      BY <1>2, <1>6, <1>9, <2>1, <3>1 DEF Environs
    <3>3. CASE Parent(e) = p
      <4>1. ~(p < e /\ e < c)
        <5>1. c \in Live \ {Outermost} /\ Parent(c) = p
          BY <1>2, <1>3 DEF p
        <5>2. e < c => e <= p
          BY <2>1, <3>1, <5>1
        <5>3. e \in Nat /\ c \in Nat /\ p \in Nat
          BY <1>2, <1>4, <3>1
        <5>4. QED
          BY <5>2, <5>3
      <4>2. p < e /\ e <= c /\ e \in Nat /\ c \in Nat
        BY <1>2, <1>10, <3>1, <3>3
      <4>3. e = c
        BY <4>1, <4>2
      <4>4. QED
        BY <1>4, <1>5, <3>2, <3>3, <4>3 DEF max
    <3>4. CASE Parent(e) # p /\ e = p
      <4>1. s'.env[Parent(e)] = s.env[Parent(e)] /\ s'.env[e].maxslots = max
        BY <1>5, <3>1, <3>4
      <4>2. QED
        BY <1>4, <2>2, <3>2, <3>4, <4>1
    <3>5. CASE Parent(e) # p /\ e # p
      BY <1>5, <3>1, <3>2, <3>5
    <3>6. QED
      BY <3>3, <3>4, <3>5
  <2>5. QED
    BY <2>3, <2>4 DEF NestInv
<1>16. TightInv'
  <2> SUFFICES ASSUME NEW e \in Known, s'.env[e].maxslots > 0
               PROVE  \E d \in Known : s'.env[e].maxslots - 1 \in made[d]
    BY <1>3, <1>7 DEF TightInv
  <2>1. PICK a \in Known : s'.env[e].maxslots = s.env[a].maxslots
    BY <1>4, <1>5 DEF max
  <2>2. QED
    BY <1>1, <2>1 DEF TightInv
<1>17. QED
  BY <1>8, <1>11, <1>13, <1>14, <1>15, <1>16 DEF IInv

(* The invariant holds while a frame is laid out.                          *)
THEOREM Invariance == Spec => []IInv
<1>1. IInv /\ UNCHANGED vars => IInv'
  BY DEF vars, IInv, TypeOK, StackInv, SlotsInv, CoverInv, NestInv, TightInv,
         Base, Parent, Live, Known, Innermost
<1>2. IInv /\ [Next]_vars => IInv'
  BY <1>1, OpenStep, BindingStep, PassStep
  DEF Next, EndDefinitions, EndScope, Live
<1>3. QED
  BY <1>2, InitIInv, PTL DEF Spec

(* Every environ and every count has its type.                             *)
THEOREM TypeCorrect == Spec => []TypeOK
<1>1. IInv => TypeOK
  BY DEF IInv
<1>2. QED
  BY <1>1, Invariance, PTL

(* A variable never shares its slot with one of a scope around its own.    *)
THEOREM SlotsDiffer == Spec => []VisibleSlotsDiffer
<1>1. ASSUME IInv, NEW c \in Live, NEW d \in Live, c # Outermost,
             Encloses(d, c)
      PROVE  made[c] \cap made[d] = {}
  <2>1. TypeOK /\ StackInv /\ SlotsInv
    BY <1>1 DEF IInv
  <2>2. \A e \in Live : s.env[e].nslots \in Nat
    BY <2>1, LiveFacts DEF Environs
  <2>3. \A e \in Live : Base(e) \in Nat /\ Base(e) <= s.env[e].nslots
    BY <2>1, <2>2 DEF SlotsInv, StackInv, Base
  <2> DEFINE outer == {e \in Live : s.env[e].nslots <= Base(c)}
  <2>4. Parent(c) \in outer
    BY <1>1, <2>1, <2>2 DEF StackInv, Base
  <2>5. ASSUME NEW e \in outer \ {Outermost} PROVE Parent(e) \in outer
    BY <2>1, <2>2, <2>3, <2>5 DEF StackInv, Base
  <2>6. d \in outer
    BY <1>1, <2>4, <2>5 DEF Encloses, Live
  <2>7. \A j \in made[d] : j < Base(c)
    BY <1>1, <2>1, <2>2, <2>3, <2>6 DEF SlotsInv
  <2>8. \A j \in made[c] : j >= Base(c)
    BY <1>1, <2>1, <2>2, <2>3 DEF SlotsInv
  <2>9. made[d] \subseteq Nat
    BY <2>1, LiveFacts
  <2>10. QED
    BY <1>1, <2>3, <2>7, <2>8, <2>9
<1>2. IInv => VisibleSlotsDiffer
  BY <1>1 DEF VisibleSlotsDiffer, Live
<1>3. QED
  BY <1>2, Invariance, PTL

(* The frame has all its slots, unless an environ lost some on the way.    *)
THEOREM FrameIsLargeEnough == Spec => []FrameHasSlots
<1>1. ASSUME IInv, ~lowered, scopes = <<Outermost>>,
             NEW e \in DOMAIN made, NEW j \in made[e]
      PROVE  j \in 0..(s.env[Outermost].maxslots - 1)
  <2>1. TypeOK /\ StackInv /\ CoverInv
    BY <1>1 DEF IInv
  <2>2. e \in Known /\ j \in Nat /\ s.env[Outermost].maxslots \in Nat
    BY <1>1, <2>1, LiveFacts, LenProperties DEF TypeOK, Known, Environs
  <2>3. Live = {Outermost}
    BY <1>1 DEF Live, ToSet
  <2>4. j < s.env[Outermost].maxslots
    BY <1>1, <2>1, <2>2, <2>3 DEF CoverInv
  <2>5. QED
    BY <2>2, <2>4
<1>2. IInv => FrameHasSlots
  BY <1>1 DEF FrameHasSlots
<1>3. QED
  BY <1>2, Invariance, PTL

(* None does if each scope is opened in the last one: what it takes is the *)
(* list of a for, or a definition that is analysed on demand.              *)
THEOREM NestingSuffices == Spec => []NestedScopesKeepSlots
<1>1. IInv => NestedScopesKeepSlots
  BY DEF IInv, NestInv, NestedScopesKeepSlots
<1>2. QED
  BY <1>1, Invariance, PTL

(* The last slot of the frame belongs to some variable.                    *)
THEOREM NoSlotIsWasted == Spec => []FrameIsTight
<1>1. IInv => FrameIsTight
  <2> SUFFICES ASSUME IInv, s.env[Outermost].maxslots > 0
               PROVE  \E e \in DOMAIN made :
                         s.env[Outermost].maxslots - 1 \in made[e]
    BY DEF FrameIsTight
  <2>1. TypeOK /\ StackInv /\ TightInv
    BY DEF IInv
  <2>2. Outermost \in Known /\ DOMAIN made = Known
    BY <2>1, LenProperties, LiveFacts DEF TypeOK, Known
  <2>3. QED
    BY <2>1, <2>2 DEF TightInv
<1>2. QED
  BY <1>1, Invariance, PTL
=============================================================================

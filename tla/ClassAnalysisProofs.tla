-------------------------- MODULE ClassAnalysisProofs --------------------------
(* Proofs about ClassAnalysis, for every well-formed header: the types, that   *)
(* every class is analyzed, that a destructor is called virtual exactly when   *)
(* C++ makes it so, that one which is left out does nothing, and that what a   *)
(* class is recorded to depend on is there in the end.                         *)
EXTENDS ClassAnalysis, FiniteSetTheorems, SequenceTheorems, WellFoundedInduction, TLAPS

(* Induction, as a fact about sets. *)
LEMMA Induction ==
    ASSUME NEW S \in SUBSET Nat, 0 \in S, \A k \in S : k + 1 \in S
    PROVE  S = Nat
<1>1. SUFFICES ASSUME Nat \ S # {} PROVE FALSE
  OBVIOUS
<1>2. PICK m \in Nat \ S : \A k \in Nat \ S : ~(<<k, m>> \in OpToRel(<, Nat))
  BY <1>1, NatLessThanWellFounded, WFMin
<1>3. \A k \in Nat \ S : ~(k < m)
  BY <1>2 DEF OpToRel
<1>4. m # 0 /\ m - 1 \in Nat /\ m - 1 < m
  OBVIOUS
<1>5. m - 1 \in S /\ (m - 1) + 1 = m
  BY <1>3, <1>4
<1> QED
  BY <1>5

-----------------------------------------------------------------------------
(* What each pass makes of a header is what the last of a series of steps      *)
(* leaves, each of which takes what the one before it left: that there is such *)
(* a series is shown anew for each pass, since what its steps do is no set.    *)
DeclaredVirtual(l) == {d.of : d \in {e \in l.decls : e.kind = "dtor" /\ e.virt # "no"}}
LEMMA VirtualsUnfold ==
    ASSUME NEW l, l.apis \in Seq(ToSet(l.apis))
    PROVE  \E after : /\ after[0] = DeclaredVirtual(l)
                      /\ \A n \in 1..Len(l.apis) : after[n] = after[n - 1] \cup {d \in Structs(l) : BasesOf(l, d) \cap after[n - 1] # {}}
                      /\ VirtualDestructors(l) = after[Len(l.apis)]
<1> DEFINE F(acc, c) == acc \cup {d \in Structs(l) : BasesOf(l, d) \cap acc # {}}
           Upto(g, n) == g = [i \in 0..n |-> IF i = 0 THEN DeclaredVirtual(l) ELSE F(g[i - 1], l.apis[i])]
           S == {n \in Nat : \E g : Upto(g, n)}
           after == CHOOSE g : Upto(g, Len(l.apis))
<1>1. VirtualDestructors(l) = after[Len(l.apis)]
  BY DEF VirtualDestructors, DeclaredVirtual, Through
<1> HIDE DEF F
<1>2. 0 \in S
  <2>1. Upto([i \in 0..0 |-> DeclaredVirtual(l)], 0)
    OBVIOUS
  <2> QED
    BY <2>1
<1>3. ASSUME NEW n \in S PROVE n + 1 \in S
  <2>1. PICK g : Upto(g, n)
    OBVIOUS
  <2>2. Upto([i \in 0..n + 1 |-> IF i = n + 1 THEN F(g[n], l.apis[n + 1]) ELSE g[i]], n + 1)
    BY <2>1
  <2>3. n + 1 \in Nat
    OBVIOUS
  <2> HIDE DEF Upto
  <2> QED
    BY <2>2, <2>3
<1>4. Len(l.apis) \in Nat
  OBVIOUS
<1> HIDE DEF Upto
<1>5. S = Nat
  BY <1>2, <1>3, Induction
<1>6. Upto(after, Len(l.apis))
  BY <1>4, <1>5
<1> HIDE DEF after
<1>7. /\ after[0] = DeclaredVirtual(l)
      /\ \A n \in 1..Len(l.apis) : after[n] = F(after[n - 1], l.apis[n])
  <2>1. 0 \in 0..Len(l.apis) /\ \A n \in 1..Len(l.apis) : n \in 0..Len(l.apis) /\ n # 0
    BY <1>4
  <2> QED
    BY <1>6, <2>1 DEF Upto
<1> QED
  BY <1>1, <1>7 DEF F

HasVirtual(l, acc, c) ==
    \/ \E d \in l.decls : d.of = c /\ d.kind = "dtor" /\ d.virt # "no"
    \/ \E b \in BasesOf(l, c) : acc[b]
CppVirtualIs(l) == InOrder(l, LAMBDA acc, c : HasVirtual(l, acc, c), <<>>)
LEMMA CppVirtualsUnfold ==
    ASSUME NEW l, l.order \in Seq(Classes(l))
    PROVE  \E after : /\ after[0] = <<>>
                      /\ \A n \in 1..Len(l.order) : after[n] = Extended(after[n - 1], l.order[n], HasVirtual(l, after[n - 1], l.order[n]))
                      /\ CppVirtualIs(l) = after[Len(l.order)]
<1> DEFINE F(acc, c) == Extended(acc, c, HasVirtual(l, acc, c))
           Upto(g, n) == g = [i \in 0..n |-> IF i = 0 THEN <<>> ELSE F(g[i - 1], l.order[i])]
           S == {n \in Nat : \E g : Upto(g, n)}
           after == CHOOSE g : Upto(g, Len(l.order))
<1>1. CppVirtualIs(l) = after[Len(l.order)]
  BY DEF CppVirtualIs, HasVirtual, InOrder, Through
<1> HIDE DEF F
<1>2. 0 \in S
  <2>1. Upto([i \in 0..0 |-> <<>>], 0)
    OBVIOUS
  <2> QED
    BY <2>1
<1>3. ASSUME NEW n \in S PROVE n + 1 \in S
  <2>1. PICK g : Upto(g, n)
    OBVIOUS
  <2>2. Upto([i \in 0..n + 1 |-> IF i = n + 1 THEN F(g[n], l.order[n + 1]) ELSE g[i]], n + 1)
    BY <2>1
  <2>3. n + 1 \in Nat
    OBVIOUS
  <2> HIDE DEF Upto
  <2> QED
    BY <2>2, <2>3
<1>4. Len(l.order) \in Nat
  OBVIOUS
<1> HIDE DEF Upto
<1>5. S = Nat
  BY <1>2, <1>3, Induction
<1>6. Upto(after, Len(l.order))
  BY <1>4, <1>5
<1> HIDE DEF after
<1>7. /\ after[0] = <<>>
      /\ \A n \in 1..Len(l.order) : after[n] = F(after[n - 1], l.order[n])
  <2>1. 0 \in 0..Len(l.order) /\ \A n \in 1..Len(l.order) : n \in 0..Len(l.order) /\ n # 0
    BY <1>4
  <2> QED
    BY <1>6, <2>1 DEF Upto
<1> QED
  BY <1>1, <1>7 DEF F

VirtualBasesFrom(l, acc, c) == VirtualOf(l, c) \cup UNION {acc[b] : b \in BasesOf(l, c)}
LEMMA VirtualBasesUnfold ==
    ASSUME NEW l, l.order \in Seq(Classes(l))
    PROVE  \E after : /\ after[0] = <<>>
                      /\ \A n \in 1..Len(l.order) : after[n] = Extended(after[n - 1], l.order[n], VirtualBasesFrom(l, after[n - 1], l.order[n]))
                      /\ AllVirtualBases(l) = after[Len(l.order)]
<1> DEFINE F(acc, c) == Extended(acc, c, VirtualBasesFrom(l, acc, c))
           Upto(g, n) == g = [i \in 0..n |-> IF i = 0 THEN <<>> ELSE F(g[i - 1], l.order[i])]
           S == {n \in Nat : \E g : Upto(g, n)}
           after == CHOOSE g : Upto(g, Len(l.order))
<1>1. AllVirtualBases(l) = after[Len(l.order)]
  BY DEF AllVirtualBases, VirtualBasesFrom, InOrder, Through
<1> HIDE DEF F
<1>2. 0 \in S
  <2>1. Upto([i \in 0..0 |-> <<>>], 0)
    OBVIOUS
  <2> QED
    BY <2>1
<1>3. ASSUME NEW n \in S PROVE n + 1 \in S
  <2>1. PICK g : Upto(g, n)
    OBVIOUS
  <2>2. Upto([i \in 0..n + 1 |-> IF i = n + 1 THEN F(g[n], l.order[n + 1]) ELSE g[i]], n + 1)
    BY <2>1
  <2>3. n + 1 \in Nat
    OBVIOUS
  <2> HIDE DEF Upto
  <2> QED
    BY <2>2, <2>3
<1>4. Len(l.order) \in Nat
  OBVIOUS
<1> HIDE DEF Upto
<1>5. S = Nat
  BY <1>2, <1>3, Induction
<1>6. Upto(after, Len(l.order))
  BY <1>4, <1>5
<1> HIDE DEF after
<1>7. /\ after[0] = <<>>
      /\ \A n \in 1..Len(l.order) : after[n] = F(after[n - 1], l.order[n])
  <2>1. 0 \in 0..Len(l.order) /\ \A n \in 1..Len(l.order) : n \in 0..Len(l.order) /\ n # 0
    BY <1>4
  <2> QED
    BY <1>6, <2>1 DEF Upto
<1> QED
  BY <1>1, <1>7 DEF F

DoesNothing(l, acc, c) ==
    /\ c \notin l.concrete \cup CppVirtualDestructors(l)
    /\ \A d \in l.decls : d.of = c /\ d.kind = "dtor" => d.how = "defaulted"
    /\ \A p \in Parts(l, c) : p.shape = "value" => acc[p.ty]
Numbers == [ty \in Foreign |-> ty \in {"int", "enum"}]
LEMMA TriviallyUnfold ==
    ASSUME NEW l, l.order \in Seq(Classes(l))
    PROVE  \E after : /\ after[0] = Numbers
                      /\ \A n \in 1..Len(l.order) : after[n] = Extended(after[n - 1], l.order[n], DoesNothing(l, after[n - 1], l.order[n]))
                      /\ Trivially(l) = after[Len(l.order)]
<1> DEFINE F(acc, c) == Extended(acc, c, DoesNothing(l, acc, c))
           Upto(g, n) == g = [i \in 0..n |-> IF i = 0 THEN Numbers ELSE F(g[i - 1], l.order[i])]
           S == {n \in Nat : \E g : Upto(g, n)}
           after == CHOOSE g : Upto(g, Len(l.order))
<1>1. Trivially(l) = after[Len(l.order)]
  BY DEF Trivially, DoesNothing, Numbers, InOrder, Through
<1> HIDE DEF F
<1>2. 0 \in S
  <2>1. Upto([i \in 0..0 |-> Numbers], 0)
    OBVIOUS
  <2> QED
    BY <2>1
<1>3. ASSUME NEW n \in S PROVE n + 1 \in S
  <2>1. PICK g : Upto(g, n)
    OBVIOUS
  <2>2. Upto([i \in 0..n + 1 |-> IF i = n + 1 THEN F(g[n], l.order[n + 1]) ELSE g[i]], n + 1)
    BY <2>1
  <2>3. n + 1 \in Nat
    OBVIOUS
  <2> HIDE DEF Upto
  <2> QED
    BY <2>2, <2>3
<1>4. Len(l.order) \in Nat
  OBVIOUS
<1> HIDE DEF Upto
<1>5. S = Nat
  BY <1>2, <1>3, Induction
<1>6. Upto(after, Len(l.order))
  BY <1>4, <1>5
<1> HIDE DEF after
<1>7. /\ after[0] = Numbers
      /\ \A n \in 1..Len(l.order) : after[n] = F(after[n - 1], l.order[n])
  <2>1. 0 \in 0..Len(l.order) /\ \A n \in 1..Len(l.order) : n \in 0..Len(l.order) /\ n # 0
    BY <1>4
  <2> QED
    BY <1>6, <2>1 DEF Upto
<1> QED
  BY <1>1, <1>7 DEF F

ItemsFrom(l, seen, c) ==
    IF Understood(l, seen, c) THEN ByTheRules(l, seen, c) ELSE ExplicitsOnly(l, c)
LEMMA FoundUnfold ==
    ASSUME NEW l, ClassOrder(l) \in Seq(Structs(l))
    PROVE  \E after : /\ after[0] = <<>>
                      /\ \A n \in 1..Len(ClassOrder(l)) : after[n] = Extended(after[n - 1], ClassOrder(l)[n], ItemsFrom(l, after[n - 1], ClassOrder(l)[n]))
                      /\ FoundInStructs(l) = after[Len(ClassOrder(l))]
<1> DEFINE F(acc, c) == Extended(acc, c, ItemsFrom(l, acc, c))
           Upto(g, n) == g = [i \in 0..n |-> IF i = 0 THEN <<>> ELSE F(g[i - 1], ClassOrder(l)[i])]
           S == {n \in Nat : \E g : Upto(g, n)}
           after == CHOOSE g : Upto(g, Len(ClassOrder(l)))
<1>1. FoundInStructs(l) = after[Len(ClassOrder(l))]
  BY DEF FoundInStructs, ItemsFrom, Through
<1> HIDE DEF F
<1>2. 0 \in S
  <2>1. Upto([i \in 0..0 |-> <<>>], 0)
    OBVIOUS
  <2> QED
    BY <2>1
<1>3. ASSUME NEW n \in S PROVE n + 1 \in S
  <2>1. PICK g : Upto(g, n)
    OBVIOUS
  <2>2. Upto([i \in 0..n + 1 |-> IF i = n + 1 THEN F(g[n], ClassOrder(l)[n + 1]) ELSE g[i]], n + 1)
    BY <2>1
  <2>3. n + 1 \in Nat
    OBVIOUS
  <2> HIDE DEF Upto
  <2> QED
    BY <2>2, <2>3
<1>4. Len(ClassOrder(l)) \in Nat
  OBVIOUS
<1> HIDE DEF Upto
<1>5. S = Nat
  BY <1>2, <1>3, Induction
<1>6. Upto(after, Len(ClassOrder(l)))
  BY <1>4, <1>5
<1> HIDE DEF after
<1>7. /\ after[0] = <<>>
      /\ \A n \in 1..Len(ClassOrder(l)) : after[n] = F(after[n - 1], ClassOrder(l)[n])
  <2>1. 0 \in 0..Len(ClassOrder(l)) /\ \A n \in 1..Len(ClassOrder(l)) : n \in 0..Len(ClassOrder(l)) /\ n # 0
    BY <1>4
  <2> QED
    BY <1>6, <2>1 DEF Upto
<1> QED
  BY <1>1, <1>7 DEF F

Kept(l, acc, n) == IF n \in Structs(l) THEN Append(acc, n) ELSE acc
LEMMA ClassOrderUnfold ==
    ASSUME NEW l, FieldsAndBasesFirst(l) \in Seq(ToSet(l.apis))
    PROVE  \E after : /\ after[0] = <<>>
                      /\ \A n \in 1..Len(FieldsAndBasesFirst(l)) : after[n] = Kept(l, after[n - 1], FieldsAndBasesFirst(l)[n])
                      /\ ClassOrder(l) = after[Len(FieldsAndBasesFirst(l))]
<1> DEFINE F(acc, c) == Kept(l, acc, c)
           Upto(g, n) == g = [i \in 0..n |-> IF i = 0 THEN <<>> ELSE F(g[i - 1], FieldsAndBasesFirst(l)[i])]
           S == {n \in Nat : \E g : Upto(g, n)}
           after == CHOOSE g : Upto(g, Len(FieldsAndBasesFirst(l)))
<1>1. ClassOrder(l) = after[Len(FieldsAndBasesFirst(l))]
  BY DEF ClassOrder, Kept, Through
<1> HIDE DEF F
<1>2. 0 \in S
  <2>1. Upto([i \in 0..0 |-> <<>>], 0)
    OBVIOUS
  <2> QED
    BY <2>1
<1>3. ASSUME NEW n \in S PROVE n + 1 \in S
  <2>1. PICK g : Upto(g, n)
    OBVIOUS
  <2>2. Upto([i \in 0..n + 1 |-> IF i = n + 1 THEN F(g[n], FieldsAndBasesFirst(l)[n + 1]) ELSE g[i]], n + 1)
    BY <2>1
  <2>3. n + 1 \in Nat
    OBVIOUS
  <2> HIDE DEF Upto
  <2> QED
    BY <2>2, <2>3
<1>4. Len(FieldsAndBasesFirst(l)) \in Nat
  OBVIOUS
<1> HIDE DEF Upto
<1>5. S = Nat
  BY <1>2, <1>3, Induction
<1>6. Upto(after, Len(FieldsAndBasesFirst(l)))
  BY <1>4, <1>5
<1> HIDE DEF after
<1>7. /\ after[0] = <<>>
      /\ \A n \in 1..Len(FieldsAndBasesFirst(l)) : after[n] = F(after[n - 1], FieldsAndBasesFirst(l)[n])
  <2>1. 0 \in 0..Len(FieldsAndBasesFirst(l)) /\ \A n \in 1..Len(FieldsAndBasesFirst(l)) : n \in 0..Len(FieldsAndBasesFirst(l)) /\ n # 0
    BY <1>4
  <2> QED
    BY <1>6, <2>1 DEF Upto
<1> QED
  BY <1>1, <1>7 DEF F

Turned(l, acc) ==
    LET i == Next1(l, acc.queue)
        n == Len(acc.queue)
    IN  [out |-> Append(acc.out, acc.queue[i]),
         queue |-> SubSeq(acc.queue, i + 1, n) \o SubSeq(acc.queue, 1, i - 1)]
Listed(l) == [out |-> <<>>, queue |-> l.apis]
Walked(l) == Through(LAMBDA acc, unused : Turned(l, acc), Listed(l), l.apis)
LEMMA WalkUnfold ==
    ASSUME NEW l, l.apis \in Seq(ToSet(l.apis))
    PROVE  \E after : /\ after[0] = Listed(l)
                      /\ \A n \in 1..Len(l.apis) : after[n] = Turned(l, after[n - 1])
                      /\ Walked(l) = after[Len(l.apis)]
<1> DEFINE F(acc, c) == Turned(l, acc)
           Upto(g, n) == g = [i \in 0..n |-> IF i = 0 THEN Listed(l) ELSE F(g[i - 1], l.apis[i])]
           S == {n \in Nat : \E g : Upto(g, n)}
           after == CHOOSE g : Upto(g, Len(l.apis))
<1>1. Walked(l) = after[Len(l.apis)]
  BY DEF Walked, Through
<1> HIDE DEF F
<1>2. 0 \in S
  <2>1. Upto([i \in 0..0 |-> Listed(l)], 0)
    OBVIOUS
  <2> QED
    BY <2>1
<1>3. ASSUME NEW n \in S PROVE n + 1 \in S
  <2>1. PICK g : Upto(g, n)
    OBVIOUS
  <2>2. Upto([i \in 0..n + 1 |-> IF i = n + 1 THEN F(g[n], l.apis[n + 1]) ELSE g[i]], n + 1)
    BY <2>1
  <2>3. n + 1 \in Nat
    OBVIOUS
  <2> HIDE DEF Upto
  <2> QED
    BY <2>2, <2>3
<1>4. Len(l.apis) \in Nat
  OBVIOUS
<1> HIDE DEF Upto
<1>5. S = Nat
  BY <1>2, <1>3, Induction
<1>6. Upto(after, Len(l.apis))
  BY <1>4, <1>5
<1> HIDE DEF after
<1>7. /\ after[0] = Listed(l)
      /\ \A n \in 1..Len(l.apis) : after[n] = F(after[n - 1], l.apis[n])
  <2>1. 0 \in 0..Len(l.apis) /\ \A n \in 1..Len(l.apis) : n \in 0..Len(l.apis) /\ n # 0
    BY <1>4
  <2> QED
    BY <1>6, <2>1 DEF Upto
<1> QED
  BY <1>1, <1>7 DEF F

WithAbstractState(l, acc, c) ==
    IF c \in l.opaque THEN acc ELSE Extended(acc, c, AbstractStateOf(l, acc, c))
AbstractStates(l) == Through(LAMBDA acc, c : WithAbstractState(l, acc, c), <<>>, ClassOrder(l))
LEMMA AbstractStatesUnfold ==
    ASSUME NEW l, ClassOrder(l) \in Seq(Structs(l))
    PROVE  \E after : /\ after[0] = <<>>
                      /\ \A n \in 1..Len(ClassOrder(l)) : after[n] = WithAbstractState(l, after[n - 1], ClassOrder(l)[n])
                      /\ AbstractStates(l) = after[Len(ClassOrder(l))]
<1> DEFINE F(acc, c) == WithAbstractState(l, acc, c)
           Upto(g, n) == g = [i \in 0..n |-> IF i = 0 THEN <<>> ELSE F(g[i - 1], ClassOrder(l)[i])]
           S == {n \in Nat : \E g : Upto(g, n)}
           after == CHOOSE g : Upto(g, Len(ClassOrder(l)))
<1>1. AbstractStates(l) = after[Len(ClassOrder(l))]
  BY DEF AbstractStates, Through
<1> HIDE DEF F
<1>2. 0 \in S
  <2>1. Upto([i \in 0..0 |-> <<>>], 0)
    OBVIOUS
  <2> QED
    BY <2>1
<1>3. ASSUME NEW n \in S PROVE n + 1 \in S
  <2>1. PICK g : Upto(g, n)
    OBVIOUS
  <2>2. Upto([i \in 0..n + 1 |-> IF i = n + 1 THEN F(g[n], ClassOrder(l)[n + 1]) ELSE g[i]], n + 1)
    BY <2>1
  <2>3. n + 1 \in Nat
    OBVIOUS
  <2> HIDE DEF Upto
  <2> QED
    BY <2>2, <2>3
<1>4. Len(ClassOrder(l)) \in Nat
  OBVIOUS
<1> HIDE DEF Upto
<1>5. S = Nat
  BY <1>2, <1>3, Induction
<1>6. Upto(after, Len(ClassOrder(l)))
  BY <1>4, <1>5
<1> HIDE DEF after
<1>7. /\ after[0] = <<>>
      /\ \A n \in 1..Len(ClassOrder(l)) : after[n] = F(after[n - 1], ClassOrder(l)[n])
  <2>1. 0 \in 0..Len(ClassOrder(l)) /\ \A n \in 1..Len(ClassOrder(l)) : n \in 0..Len(ClassOrder(l)) /\ n # 0
    BY <1>4
  <2> QED
    BY <1>6, <2>1 DEF Upto
<1> QED
  BY <1>1, <1>7 DEF F

LEMMA WalkIs == ASSUME NEW l PROVE FieldsAndBasesFirst(l) = Walked(l).out
  BY DEF FieldsAndBasesFirst, Walked, Turned, Listed, Through

LEMMA CppVirtualsAre ==
    ASSUME NEW l PROVE CppVirtualDestructors(l) = {c \in Classes(l) : CppVirtualIs(l)[c]}
  BY DEF CppVirtualDestructors, CppVirtualIs, HasVirtual, InOrder, Through

LEMMA AbstractAre ==
    ASSUME NEW l PROVE AbstractClasses(l) \subseteq DOMAIN AbstractStates(l)
  BY DEF AbstractClasses, AbstractStates, WithAbstractState, Through

-----------------------------------------------------------------------------
(* Where the steps say of each class in turn what they have not said yet, the  *)
(* last leaves what each of them said.                                         *)
Grows(after, s, N, known, v) ==
    /\ N \in Nat /\ after[0] = known
    /\ \A n \in 1..N : after[n] = Extended(after[n - 1], s[n], v[n])
    /\ \A i, j \in 1..N : s[i] = s[j] => i = j
    /\ \A i \in 1..N : s[i] \notin DOMAIN known
Says(after, s, N, known, v) ==
    \A n \in 0..N : /\ DOMAIN after[n] = DOMAIN known \cup {s[i] : i \in 1..n}
                    /\ \A i \in 1..n : after[n][s[i]] = v[i]
                    /\ \A x \in DOMAIN known : after[n][x] = known[x]

LEMMA Accumulates ==
    ASSUME NEW s, NEW N, NEW known, NEW v, NEW after, Grows(after, s, N, known, v)
    PROVE  Says(after, s, N, known, v)
<1> USE DEF Grows
<1> DEFINE P(n) == /\ DOMAIN after[n] = DOMAIN known \cup {s[i] : i \in 1..n}
                   /\ \A i \in 1..n : after[n][s[i]] = v[i]
                   /\ \A x \in DOMAIN known : after[n][x] = known[x]
           S == {n \in Nat : n \in 0..N => P(n)}
<1>1. 0 \in S
  <2>1. 1..0 = {}
    OBVIOUS
  <2>2. P(0)
    BY <2>1
  <2> QED
    BY <2>2
<1>2. ASSUME NEW n \in S PROVE n + 1 \in S
  <2>1. n + 1 \in Nat /\ (n + 1) - 1 = n
    OBVIOUS
  <2>2. SUFFICES ASSUME n + 1 \in 0..N PROVE P(n + 1)
    BY <2>1
  <2>3. P(n) /\ n + 1 \in 1..N
    BY <2>2
  <2>4. after[n + 1] = Extended(after[n], s[n + 1], v[n + 1])
    BY <2>1, <2>3
  <2>5. 1..n + 1 = (1..n) \cup {n + 1} /\ n + 1 \notin 1..n /\ 1..n \subseteq 1..N
    BY <2>3
  <2>6. DOMAIN after[n + 1] = DOMAIN after[n] \cup {s[n + 1]}
    BY <2>4 DEF Extended
  <2>7. DOMAIN after[n + 1] = DOMAIN known \cup {s[i] : i \in 1..n + 1}
    BY <2>3, <2>5, <2>6
  <2>8. \A i \in 1..n : s[i] # s[n + 1] /\ s[i] \in DOMAIN after[n]
    BY <2>3, <2>5
  <2>9. \A x \in DOMAIN known : x # s[n + 1] /\ x \in DOMAIN after[n]
    BY <2>3
  <2>10. after[n + 1][s[n + 1]] = v[n + 1]
    BY <2>4 DEF Extended
  <2>11. \A x \in DOMAIN after[n] : x # s[n + 1] => after[n + 1][x] = after[n][x]
    BY <2>4 DEF Extended
  <2> QED
    BY <2>3, <2>5, <2>7, <2>8, <2>9, <2>10, <2>11
<1> HIDE DEF P
<1>3. S = Nat
  BY <1>1, <1>2, Induction
<1>4. \A n \in 0..N : P(n)
  BY <1>3
<1> QED
  BY <1>4 DEF P, Says

(* The classes a class may be made of. *)
Before(l, i) == {l.order[j] : j \in 1..i - 1}

LEMMA Ordered ==
    ASSUME NEW l, WellFormed(l)
    PROVE  /\ Len(l.order) \in Nat /\ DOMAIN l.order = 1..Len(l.order)
           /\ \A i, j \in 1..Len(l.order) : l.order[i] = l.order[j] => i = j
           /\ \A i \in 1..Len(l.order) :
                 /\ l.order[i] \in Classes(l) /\ l.order[i] \notin Foreign
                 /\ BasesOf(l, l.order[i]) \subseteq Before(l, i)
                 /\ ValuesOf(l, l.order[i]) \subseteq Before(l, i) \cup Foreign
                 /\ l.bases[l.order[i]] \subseteq Before(l, i) \cup DOMAIN l.alias
                 /\ VirtualOf(l, l.order[i]) \subseteq BasesOf(l, l.order[i])
           /\ \A c \in Classes(l) : \E i \in 1..Len(l.order) : l.order[i] = c
<1>1. l.order \in Seq(Classes(l)) /\ ToSet(l.order) = Classes(l)
  BY DEF WellFormed
<1>2. Len(l.order) \in Nat /\ DOMAIN l.order = 1..Len(l.order)
  BY <1>1
<1>3. \A i \in 1..Len(l.order) : l.order[i] \in Classes(l)
  BY <1>1
<1>4. \A c \in Classes(l) : \E i \in 1..Len(l.order) : l.order[i] = c
  BY <1>1, <1>2 DEF ToSet
<1>5. \A i \in 1..Len(l.order) :
         /\ BasesOf(l, l.order[i]) \subseteq Before(l, i)
         /\ ValuesOf(l, l.order[i]) \subseteq Before(l, i) \cup Foreign
         /\ l.bases[l.order[i]] \subseteq Before(l, i) \cup DOMAIN l.alias
         /\ l.vbases[l.order[i]] \subseteq l.bases[l.order[i]]
  BY <1>2 DEF WellFormed, Before
<1>6. \A i \in 1..Len(l.order) : VirtualOf(l, l.order[i]) \subseteq BasesOf(l, l.order[i])
  BY <1>5 DEF VirtualOf, BasesOf
<1>7. \A i, j \in 1..Len(l.order) : l.order[i] = l.order[j] => i = j
  BY <1>2 DEF WellFormed
<1>8. \A c \in Classes(l) : c \notin Foreign
  BY DEF WellFormed
<1> QED
  BY <1>2, <1>3, <1>4, <1>5, <1>6, <1>7, <1>8

LEMMA BeforeIsBefore ==
    ASSUME NEW l, WellFormed(l), NEW i \in 1..Len(l.order), NEW c \in Before(l, i)
    PROVE  \E j \in 1..Len(l.order) : j < i /\ j \in 1..i - 1 /\ c = l.order[j]
<1>1. Len(l.order) \in Nat
  BY Ordered
<1> QED
  BY <1>1 DEF Before

LEMMA BasesBefore ==
    ASSUME NEW l, WellFormed(l), NEW i \in 1..Len(l.order), NEW b \in BasesOf(l, l.order[i])
    PROVE  /\ b \in Classes(l)
           /\ \E j \in 1..Len(l.order) : j < i /\ j \in 1..i - 1 /\ b = l.order[j]
<1>1. b \in Before(l, i)
  BY Ordered
<1>2. PICK j \in 1..Len(l.order) : j < i /\ j \in 1..i - 1 /\ b = l.order[j]
  BY <1>1, BeforeIsBefore
<1> QED
  BY <1>2, Ordered

(* Over the classes of a header: each step sees of what it asks about what the *)
(* last one leaves.                                                            *)
Steps(l, after, known, v) ==
    /\ DOMAIN known \subseteq Foreign /\ after[0] = known
    /\ \A n \in 1..Len(l.order) : after[n] = Extended(after[n - 1], l.order[n], v[n])
Leave(l, after, known, v) ==
    /\ \A i \in 1..Len(l.order) : after[Len(l.order)][l.order[i]] = v[i]
    /\ \A i \in 1..Len(l.order) : \A x \in Before(l, i) \cup DOMAIN known :
          after[i - 1][x] = after[Len(l.order)][x]
    /\ \A x \in DOMAIN known : after[Len(l.order)][x] = known[x]
LEMMA Settled ==
    ASSUME NEW l, WellFormed(l), NEW known, NEW v, NEW after, Steps(l, after, known, v)
    PROVE  Leave(l, after, known, v)
<1> DEFINE s == l.order
           N == Len(s)
<1>1. N \in Nat /\ (\A i, j \in 1..N : s[i] = s[j] => i = j)
  BY Ordered
<1>2. \A i \in 1..N : s[i] \notin DOMAIN known
  BY Ordered DEF Steps
<1>3. after[0] = known /\ \A n \in 1..N : after[n] = Extended(after[n - 1], s[n], v[n])
  BY DEF Steps
<1>4. ASSUME NEW i \in 1..N, NEW x \in Before(l, i)
      PROVE  \E j \in 1..N : j \in 1..i - 1 /\ x = s[j]
  BY BeforeIsBefore
<1> HIDE DEF s, N
<1>5. Grows(after, s, N, known, v)
  BY <1>1, <1>2, <1>3 DEF Grows
<1>6. Says(after, s, N, known, v)
  BY <1>5, Accumulates
<1>7. \A i \in 1..N : i - 1 \in 0..N /\ N \in 0..N
  BY <1>1
<1>8. \A i \in 1..N : after[N][s[i]] = v[i]
  BY <1>6, <1>7 DEF Says
<1>9. \A n \in 0..N : \A x \in DOMAIN known : after[n][x] = known[x]
  BY <1>6 DEF Says
<1>10. ASSUME NEW i \in 1..N, NEW x \in Before(l, i) PROVE after[i - 1][x] = after[N][x]
  BY <1>4, <1>6, <1>7, <1>8 DEF Says
<1>11. \A i \in 1..N : \A x \in Before(l, i) \cup DOMAIN known : after[i - 1][x] = after[N][x]
  BY <1>7, <1>9, <1>10
<1>12. \A x \in DOMAIN known : after[N][x] = known[x]
  BY <1>1, <1>9
<1> QED
  BY <1>8, <1>11, <1>12 DEF s, N, Leave

(* What C++ says of a class with a virtual destructor ... *)
LEMMA CppVirtualMeans ==
    ASSUME NEW l, WellFormed(l)
    PROVE  \A c \in Classes(l) : c \in CppVirtualDestructors(l) <=>
               \/ c \in DeclaredVirtual(l)
               \/ \E b \in BasesOf(l, c) : b \in CppVirtualDestructors(l)
<1> DEFINE none == <<>>
           is == CppVirtualIs(l)
<1>1. l.order \in Seq(Classes(l)) /\ DOMAIN none \subseteq Foreign
  BY DEF WellFormed
<1>2. PICK after :
         /\ after[0] = none
         /\ \A n \in 1..Len(l.order) :
               after[n] = Extended(after[n - 1], l.order[n], HasVirtual(l, after[n - 1], l.order[n]))
         /\ is = after[Len(l.order)]
  BY <1>1, CppVirtualsUnfold
<1> DEFINE v == [n \in 1..Len(l.order) |-> HasVirtual(l, after[n - 1], l.order[n])]
<1>3. \A n \in 1..Len(l.order) : v[n] = HasVirtual(l, after[n - 1], l.order[n])
  OBVIOUS
<1> HIDE DEF v, none, is
<1>4. /\ \A i \in 1..Len(l.order) : is[l.order[i]] = v[i]
      /\ \A i \in 1..Len(l.order) : \A x \in Before(l, i) : after[i - 1][x] = is[x]
  <2>1. Steps(l, after, none, v)
    BY <1>1, <1>2, <1>3 DEF Steps
  <2>2. Leave(l, after, none, v)
    BY <2>1, Settled
  <2> QED
    BY <1>2, <2>2 DEF Leave
<1> SUFFICES ASSUME NEW c \in Classes(l)
             PROVE  c \in CppVirtualDestructors(l) <=>
                       \/ c \in DeclaredVirtual(l)
                       \/ \E b \in BasesOf(l, c) : b \in CppVirtualDestructors(l)
  OBVIOUS
<1>5. PICK i \in 1..Len(l.order) : l.order[i] = c
  BY Ordered
<1>6. BasesOf(l, c) \subseteq Before(l, i)
  BY <1>5, Ordered
<1>7. is[c] = HasVirtual(l, is, c)
  BY <1>3, <1>4, <1>5, <1>6, ZenonT(60) DEF HasVirtual
<1>8. c \in CppVirtualDestructors(l) <=> HasVirtual(l, is, c)
  BY <1>7, CppVirtualsAre DEF is
<1>9. \A b \in BasesOf(l, c) : b \in CppVirtualDestructors(l) <=> is[b]
  BY <1>5, BasesBefore, CppVirtualsAre DEF is
<1> QED
  BY <1>8, <1>9 DEF HasVirtual, DeclaredVirtual

(* ... of the virtual bases an object of it has ...                            *)
LEMMA VirtualBasesMean ==
    ASSUME NEW l, WellFormed(l)
    PROVE  \A c \in Classes(l) :
               AllVirtualBases(l)[c] = VirtualBasesFrom(l, AllVirtualBases(l), c)
<1> DEFINE none == <<>>
           has == AllVirtualBases(l)
<1>1. l.order \in Seq(Classes(l)) /\ DOMAIN none \subseteq Foreign
  BY DEF WellFormed
<1>2. PICK after :
         /\ after[0] = none
         /\ \A n \in 1..Len(l.order) :
               after[n] = Extended(after[n - 1], l.order[n], VirtualBasesFrom(l, after[n - 1], l.order[n]))
         /\ has = after[Len(l.order)]
  BY <1>1, VirtualBasesUnfold
<1> DEFINE v == [n \in 1..Len(l.order) |-> VirtualBasesFrom(l, after[n - 1], l.order[n])]
<1>3. \A n \in 1..Len(l.order) : v[n] = VirtualBasesFrom(l, after[n - 1], l.order[n])
  OBVIOUS
<1> HIDE DEF v, none, has
<1>4. /\ \A i \in 1..Len(l.order) : has[l.order[i]] = v[i]
      /\ \A i \in 1..Len(l.order) : \A x \in Before(l, i) : after[i - 1][x] = has[x]
  <2>1. Steps(l, after, none, v)
    BY <1>1, <1>2, <1>3 DEF Steps
  <2>2. Leave(l, after, none, v)
    BY <2>1, Settled
  <2> QED
    BY <1>2, <2>2 DEF Leave
<1> SUFFICES ASSUME NEW c \in Classes(l) PROVE has[c] = VirtualBasesFrom(l, has, c)
  BY DEF has
<1>5. PICK i \in 1..Len(l.order) : l.order[i] = c
  BY Ordered
<1>6. \A b \in BasesOf(l, c) : after[i - 1][b] = has[b]
  BY <1>4, <1>5, Ordered
<1>7. VirtualBasesFrom(l, after[i - 1], c) = VirtualBasesFrom(l, has, c)
  BY <1>6 DEF VirtualBasesFrom
<1> QED
  BY <1>3, <1>4, <1>5, <1>7

LEMMA VirtualBasesBefore ==
    ASSUME NEW l, WellFormed(l)
    PROVE  \A i \in 1..Len(l.order) : AllVirtualBases(l)[l.order[i]] \subseteq Before(l, i)
<1> DEFINE has == AllVirtualBases(l)
           S == {n \in Nat : \A i \in 1..Len(l.order) : i <= n => has[l.order[i]] \subseteq Before(l, i)}
<1>1. 0 \in S
  OBVIOUS
<1>2. ASSUME NEW n \in S PROVE n + 1 \in S
  <2>1. SUFFICES ASSUME n + 1 \in 1..Len(l.order)
                 PROVE  has[l.order[n + 1]] \subseteq Before(l, n + 1)
    <3>1. n + 1 \in Nat /\ \A i \in 1..Len(l.order) : i <= n + 1 => i <= n \/ i = n + 1
      OBVIOUS
    <3> QED
      BY <3>1
  <2> DEFINE c == l.order[n + 1]
  <2>2. c \in Classes(l) /\ VirtualOf(l, c) \subseteq Before(l, n + 1)
    BY <2>1, Ordered
  <2>3. ASSUME NEW b \in BasesOf(l, c) PROVE has[b] \subseteq Before(l, n + 1)
    <3>1. PICK j \in 1..Len(l.order) : j < n + 1 /\ j \in 1..(n + 1) - 1 /\ b = l.order[j]
      BY <2>1, BasesBefore
    <3>2. has[b] \subseteq Before(l, j)
      BY <3>1
    <3>3. 1..j - 1 \subseteq 1..(n + 1) - 1
      BY <3>1
    <3> QED
      BY <3>2, <3>3 DEF Before
  <2>4. has[c] = VirtualOf(l, c) \cup UNION {has[b] : b \in BasesOf(l, c)}
    BY <2>2, VirtualBasesMean DEF VirtualBasesFrom
  <2> QED
    BY <2>2, <2>3, <2>4
<1>3. S = Nat
  BY <1>1, <1>2, Induction
<1>4. \A i \in 1..Len(l.order) : i \in Nat /\ i <= i
  OBVIOUS
<1>5. \A i \in 1..Len(l.order) : i \in S
  <2> HIDE DEF S
  <2> QED
    BY <1>3, <1>4
<1> QED
  BY <1>4, <1>5

(* ... and of one whose destruction does nothing.                              *)
LEMMA TriviallyMeans ==
    ASSUME NEW l, WellFormed(l)
    PROVE  /\ \A c \in Classes(l) : Trivially(l)[c] = DoesNothing(l, Trivially(l), c)
           /\ Trivially(l)["int"] /\ Trivially(l)["enum"]
<1> DEFINE is == Trivially(l)
           known == Numbers
<1>1. l.order \in Seq(Classes(l)) /\ DOMAIN known = Foreign
  BY DEF WellFormed, Numbers
<1>2. PICK after :
         /\ after[0] = known
         /\ \A n \in 1..Len(l.order) :
               after[n] = Extended(after[n - 1], l.order[n], DoesNothing(l, after[n - 1], l.order[n]))
         /\ is = after[Len(l.order)]
  BY <1>1, TriviallyUnfold
<1> DEFINE v == [n \in 1..Len(l.order) |-> DoesNothing(l, after[n - 1], l.order[n])]
<1>3. \A n \in 1..Len(l.order) : v[n] = DoesNothing(l, after[n - 1], l.order[n])
  OBVIOUS
<1> HIDE DEF v, is, known
<1>4. /\ \A i \in 1..Len(l.order) : is[l.order[i]] = v[i]
      /\ \A i \in 1..Len(l.order) : \A x \in Before(l, i) \cup Foreign : after[i - 1][x] = is[x]
      /\ \A x \in Foreign : is[x] = known[x]
  <2>1. Steps(l, after, known, v)
    BY <1>1, <1>2, <1>3 DEF Steps
  <2>2. Leave(l, after, known, v)
    BY <2>1, Settled
  <2> QED
    BY <1>1, <1>2, <2>2 DEF Leave
<1>5. is["int"] /\ is["enum"]
  BY <1>4 DEF known, Numbers, Foreign
<1>6. ASSUME NEW c \in Classes(l) PROVE is[c] = DoesNothing(l, is, c)
  <2>1. PICK i \in 1..Len(l.order) : l.order[i] = c
    BY Ordered
  <2>2. BasesOf(l, c) \cup AllVirtualBases(l)[c] \subseteq Before(l, i) /\ "tmpl" \in Foreign
    BY <2>1, Ordered, VirtualBasesBefore DEF Foreign
  <2>3. ValuesOf(l, c) \subseteq Before(l, i) \cup Foreign
    BY <2>1, Ordered
  <2>4. \A p \in Parts(l, c) : p.shape = "value" => p.ty \in Before(l, i) \cup Foreign
    BY <2>2, <2>3 DEF Parts, ValuesOf
  <2>5. \A p \in Parts(l, c) : p.shape = "value" => after[i - 1][p.ty] = is[p.ty]
    BY <1>4, <2>1, <2>4
  <2>6. DoesNothing(l, after[i - 1], c) = DoesNothing(l, is, c)
    BY <2>5 DEF DoesNothing
  <2> QED
    BY <1>3, <1>4, <2>1, <2>6
<1> QED
  BY <1>5, <1>6 DEF is

-----------------------------------------------------------------------------
(* Virtual destructors.  The pass goes over the list as often as it has        *)
(* entries, which is enough: a class learns of its base's destructor in the    *)
(* turn after the base did, and no chain of bases is longer than the header.   *)
LEMMA EnoughTurns ==
    ASSUME NEW l, WellFormed(l)
    PROVE  Len(l.apis) \in Nat /\ Len(l.order) \in Nat /\ Len(l.order) <= Len(l.apis)
<1> DEFINE N == Len(l.order)
           M == Len(l.apis)
<1>1. l.apis \in Seq(ToSet(l.apis)) /\ Classes(l) \subseteq ToSet(l.apis)
  BY DEF WellFormed
<1>2. M \in Nat /\ DOMAIN l.apis = 1..M
  BY <1>1
<1>3. N \in Nat
  BY Ordered
<1>4. \A c \in Classes(l) : \E k \in 1..M : l.apis[k] = c
  BY <1>1, <1>2 DEF ToSet
<1>5. SUFFICES ASSUME M < N PROVE FALSE
  BY <1>2, <1>3
<1> DEFINE f == [i \in 1..N |-> CHOOSE k \in 1..M : l.apis[k] = l.order[i]]
<1>6. \A i \in 1..N : f[i] \in 1..M /\ l.apis[f[i]] = l.order[i]
  BY <1>4, Ordered
<1>7. f \in [1..N -> 1..M]
  BY <1>6
<1> HIDE DEF f
<1>8. /\ IsFiniteSet(1..N) /\ IsFiniteSet(1..M)
      /\ Cardinality(1..M) < Cardinality(1..N)
  <2>1. 1 \in Int /\ N \in Int /\ M \in Int
    BY <1>2, <1>3
  <2>2. Cardinality(1..N) = IF 1 > N THEN 0 ELSE N - 1 + 1
    BY <2>1, FS_Interval
  <2>3. Cardinality(1..M) = IF 1 > M THEN 0 ELSE M - 1 + 1
    BY <2>1, FS_Interval
  <2>4. IsFiniteSet(1..N) /\ IsFiniteSet(1..M)
    BY <2>1, FS_Interval
  <2> HIDE DEF N, M
  <2> QED
    BY <1>2, <1>3, <1>5, <2>2, <2>3, <2>4
<1>9. \E i, j \in 1..N : i # j /\ f[i] = f[j]
  <2> HIDE DEF N, M
  <2> QED
    BY <1>7, <1>8, FS_PigeonHole
<1> QED
  BY <1>6, <1>9, Ordered

LEMMA ConcreteAreBare ==
    ASSUME NEW l, WellFormed(l)
    PROVE  /\ DeclaredVirtual(l) \subseteq Structs(l)
           /\ CppVirtualDestructors(l) \subseteq Structs(l)
<1>1. \A d \in l.decls : d.of \in Classes(l) \ l.concrete
  BY DEF WellFormed
<1>2. DeclaredVirtual(l) \subseteq Structs(l)
  BY <1>1 DEF DeclaredVirtual, Structs
<1>3. \A c \in l.concrete : BasesOf(l, c) = {}
  BY DEF WellFormed, BasesOf
<1>4. CppVirtualDestructors(l) \subseteq Classes(l)
  BY DEF CppVirtualDestructors
<1>5. ASSUME NEW c \in CppVirtualDestructors(l) PROVE c \notin l.concrete
  BY <1>2, <1>3, <1>4, CppVirtualMeans DEF Structs
<1> QED
  BY <1>2, <1>4, <1>5 DEF Structs

LEMMA OnlyVirtualDestructors ==
    ASSUME NEW l, WellFormed(l)
    PROVE  VirtualDestructors(l) \subseteq CppVirtualDestructors(l)
<1> DEFINE M == Len(l.apis)
<1>1. l.apis \in Seq(ToSet(l.apis)) /\ M \in Nat
  BY EnoughTurns DEF WellFormed
<1>2. PICK after :
         /\ after[0] = DeclaredVirtual(l)
         /\ \A n \in 1..M : after[n] = after[n - 1]
               \cup {d \in Structs(l) : BasesOf(l, d) \cap after[n - 1] # {}}
         /\ VirtualDestructors(l) = after[M]
  BY <1>1, VirtualsUnfold
<1> DEFINE S == {n \in Nat : n <= M => after[n] \subseteq CppVirtualDestructors(l)}
<1>3. 0 \in S
  BY <1>2, CppVirtualMeans, ConcreteAreBare DEF Structs
<1>4. ASSUME NEW n \in S PROVE n + 1 \in S
  <2>1. SUFFICES ASSUME n + 1 \in 1..M PROVE after[n + 1] \subseteq CppVirtualDestructors(l)
    BY <1>1
  <2>2. after[n] \subseteq CppVirtualDestructors(l)
    BY <2>1
  <2>3. after[n + 1] = after[n] \cup {d \in Structs(l) : BasesOf(l, d) \cap after[n] # {}}
    <3>1. (n + 1) - 1 = n
      OBVIOUS
    <3> QED
      BY <1>2, <2>1, <3>1
  <2> QED
    BY <2>2, <2>3, CppVirtualMeans DEF Structs
<1>5. S \in SUBSET Nat
  OBVIOUS
<1> HIDE DEF S
<1>6. S = Nat
  BY <1>3, <1>4, <1>5, Induction
<1> QED
  BY <1>1, <1>2, <1>6 DEF S

LEMMA EveryVirtualDestructor ==
    ASSUME NEW l, WellFormed(l)
    PROVE  CppVirtualDestructors(l) \subseteq VirtualDestructors(l)
<1> DEFINE M == Len(l.apis)
           N == Len(l.order)
<1>1. l.apis \in Seq(ToSet(l.apis)) /\ M \in Nat /\ N \in Nat /\ N <= M
  BY EnoughTurns DEF WellFormed
<1>2. PICK after :
         /\ after[0] = DeclaredVirtual(l)
         /\ \A n \in 1..M : after[n] = after[n - 1]
               \cup {d \in Structs(l) : BasesOf(l, d) \cap after[n - 1] # {}}
         /\ VirtualDestructors(l) = after[M]
  BY <1>1, VirtualsUnfold
<1> HIDE DEF M
(* Nothing is forgotten from one turn to the next ...                          *)
<1> DEFINE T == {n \in Nat : \A m \in 0..M : m <= n /\ n <= M => after[m] \subseteq after[n]}
<1>3. \A n \in 0..M : \A m \in 0..n : after[m] \subseteq after[n]
  <2>1. 0 \in T
    BY <1>1
  <2>2. ASSUME NEW n \in T PROVE n + 1 \in T
    <3>1. SUFFICES ASSUME NEW m \in 0..M, m <= n + 1, n + 1 <= M
                   PROVE  after[m] \subseteq after[n + 1]
      BY <1>1
    <3>2. n + 1 \in 1..M /\ (n + 1) - 1 = n
      BY <1>1, <3>1
    <3>3. after[n] \subseteq after[n + 1]
      BY <1>2, <3>2
    <3>4. m = n + 1 \/ (m <= n /\ n <= M)
      BY <1>1, <3>1
    <3> QED
      BY <3>3, <3>4
  <2>3. T \in SUBSET Nat
    OBVIOUS
  <2> HIDE DEF T
  <2>4. T = Nat
    BY <2>1, <2>2, <2>3, Induction
  <2>5. \A n \in 0..M : n \in T /\ n <= M /\ \A m \in 0..n : m \in 0..M /\ m <= n
    BY <1>1, <2>4
  <2> QED
    BY <2>5 DEF T
(* ... and the n-th class is known after n turns.                              *)
<1> DEFINE S == {n \in Nat : \A i \in 1..N : i <= n =>
                    (l.order[i] \in CppVirtualDestructors(l) => l.order[i] \in after[i])}
<1>4. 0 \in S
  BY <1>1
<1>5. ASSUME NEW n \in S PROVE n + 1 \in S
  <2> DEFINE c == l.order[n + 1]
  <2>1. SUFFICES ASSUME n + 1 \in 1..N, c \in CppVirtualDestructors(l) PROVE c \in after[n + 1]
    <3>1. n + 1 \in Nat /\ \A i \in 1..N : i <= n + 1 => i <= n \/ i = n + 1
      BY <1>1
    <3> QED
      BY <3>1
  <2>2. c \in Structs(l) /\ c \in Classes(l)
    BY <2>1, ConcreteAreBare DEF Structs
  <2>3. n + 1 \in 1..M /\ (n + 1) - 1 = n /\ n + 1 \in 0..M /\ 0 \in 0..n + 1 /\ n \in 0..M
    BY <1>1, <2>1
  <2>4. CASE c \in DeclaredVirtual(l)
    BY <1>2, <1>3, <2>3, <2>4
  <2>5. ASSUME NEW b \in BasesOf(l, c), b \in CppVirtualDestructors(l) PROVE c \in after[n + 1]
    <3>1. PICK j \in 1..N : j < n + 1 /\ b = l.order[j]
      BY <2>1, BasesBefore
    <3>2. j <= n /\ j \in 0..n
      BY <1>1, <3>1
    <3>3. b \in after[n]
      BY <1>3, <2>3, <2>5, <3>1, <3>2
    <3> QED
      BY <1>2, <2>2, <2>3, <2>5, <3>3
  <2> QED
    BY <2>1, <2>2, <2>4, <2>5, CppVirtualMeans
<1>6. S \in SUBSET Nat
  OBVIOUS
<1> HIDE DEF S
<1>7. S = Nat
  BY <1>4, <1>5, <1>6, Induction
<1> SUFFICES ASSUME NEW c \in CppVirtualDestructors(l) PROVE c \in after[M]
  BY <1>2
<1>8. PICK i \in 1..N : l.order[i] = c
  BY Ordered, ConcreteAreBare DEF Structs
<1>9. i \in Nat /\ i <= i /\ i \in 0..M /\ M \in 0..M
  BY <1>1
<1>10. c \in after[i]
  BY <1>7, <1>8, <1>9 DEF S
<1> QED
  BY <1>3, <1>9, <1>10

(* A destructor is called virtual exactly when C++ makes it so.                *)
THEOREM VirtualDestructorsAreCpps ==
    ASSUME NEW l, WellFormed(l)
    PROVE  VirtualDestructors(l) = CppVirtualDestructors(l) \cap Structs(l)
  BY OnlyVirtualDestructors, EveryVirtualDestructor, ConcreteAreBare

-----------------------------------------------------------------------------
(* The walk.  Each turn finds an entry which awaits nothing in the queue, so   *)
(* that every entry, and so every class with a definition, has its turn.       *)
LEMMA OutOfTheMiddle ==
    ASSUME NEW A, NEW q \in Seq(A), NEW i \in 1..Len(q)
    PROVE  LET r == SubSeq(q, i + 1, Len(q)) \o SubSeq(q, 1, i - 1)
           IN  /\ r \in Seq(A) /\ Len(r) = Len(q) - 1
               /\ ToSet(r) \cup {q[i]} = ToSet(q)
<1> DEFINE n == Len(q)
           back == SubSeq(q, i + 1, n)
           front == SubSeq(q, 1, i - 1)
           r == back \o front
<1>1. n \in Nat /\ i \in Nat /\ 1 <= i /\ i <= n
  OBVIOUS
<1>2. /\ back \in Seq(A) /\ Len(back) = n - i
      /\ \A k \in 1..n - i : back[k] = q[k + i]
  BY <1>1
<1>3. /\ front \in Seq(A) /\ Len(front) = i - 1
      /\ \A k \in 1..i - 1 : front[k] = q[k]
  BY <1>1
<1> HIDE DEF back, front
<1>4. r \in Seq(A) /\ Len(r) = n - 1
  BY <1>1, <1>2, <1>3
<1>5. \A k \in 1..n - i : r[k] = q[k + i]
  BY <1>1, <1>2, <1>3
<1>6. \A k \in 1..i - 1 : r[k + (n - i)] = q[k]
  BY <1>1, <1>2, <1>3
<1> HIDE DEF r
<1>7. ToSet(r) \subseteq ToSet(q)
  <2>1. SUFFICES ASSUME NEW k \in 1..n - 1 PROVE \E j \in 1..n : r[k] = q[j]
    BY <1>1, <1>4, SMTT(60) DEF ToSet
  <2>2. CASE k <= n - i
    <3>1. k + i \in 1..n /\ k \in 1..n - i
      BY <1>1, <2>2
    <3> QED
      BY <1>5, <3>1
  <2>3. CASE k > n - i
    <3>1. k - (n - i) \in 1..i - 1 /\ k - (n - i) \in 1..n /\ (k - (n - i)) + (n - i) = k
      BY <1>1, <2>3
    <3> QED
      BY <1>6, <3>1
  <2> QED
    BY <1>1, <2>2, <2>3
<1>8. ASSUME NEW j \in 1..n, j # i PROVE \E k \in 1..n - 1 : r[k] = q[j]
  <2>1. CASE j < i
    <3>1. j \in 1..i - 1 /\ j + (n - i) \in 1..n - 1
      BY <1>1, <2>1
    <3> QED
      BY <1>6, <3>1
  <2>2. CASE j > i
    <3>1. j - i \in 1..n - i /\ j - i \in 1..n - 1 /\ (j - i) + i = j
      BY <1>1, <2>2
    <3> QED
      BY <1>5, <3>1
  <2> QED
    BY <1>1, <1>8, <2>1, <2>2
<1>9. ToSet(q) \subseteq ToSet(r) \cup {q[i]}
  BY <1>1, <1>4, <1>8 DEF ToSet
<1>10. q[i] \in ToSet(q)
  BY <1>1 DEF ToSet
<1> QED
  BY <1>4, <1>7, <1>9, <1>10 DEF r, back, front

LEMMA SomethingIsReady ==
    ASSUME NEW l, WellFormed(l), NEW q \in Seq(ToSet(l.apis)), Len(q) # 0
    PROVE  Next1(l, q) \in 1..Len(q)
<1> DEFINE n == Len(q)
           todo == ToSet(q)
           ready == {i \in DOMAIN q : FieldAndBaseDeps(l, q[i]) \cap todo = {}}
<1>1. n \in Nat /\ DOMAIN q = 1..n /\ 1 \in 1..n
  OBVIOUS
<1>2. todo = {q[i] : i \in 1..n} /\ todo \subseteq Classes(l) \cup DOMAIN l.alias
  BY <1>1 DEF ToSet, WellFormed
<1>3. Structs(l) \subseteq Classes(l) /\ Classes(l) \cap (Foreign \cup DOMAIN l.alias) = {}
  BY DEF WellFormed, Structs
<1>4. ready # {}
  <2>1. CASE \E i \in 1..n : q[i] \in DOMAIN l.alias
    <3>1. PICK i \in 1..n : q[i] \in DOMAIN l.alias
      BY <2>1
    <3>2. FieldAndBaseDeps(l, q[i]) = {}
      BY <1>3, <3>1 DEF FieldAndBaseDeps
    <3> QED
      BY <1>1, <3>2
  <2>2. CASE \A i \in 1..n : q[i] \notin DOMAIN l.alias
    <3> DEFINE at == {k \in 1..Len(l.order) : l.order[k] \in todo}
    <3>1. todo \subseteq Classes(l)
      BY <1>2, <2>2
    <3>2. at # {} /\ at \in SUBSET Nat
      <4>1. q[1] \in todo
        BY <1>1, <1>2
      <4>2. PICK k \in 1..Len(l.order) : l.order[k] = q[1]
        BY <3>1, <4>1, Ordered
      <4> QED
        BY <4>1, <4>2, Ordered
    <3>3. PICK k \in at : \A j \in at : ~(<<j, k>> \in OpToRel(<, Nat))
      <4> HIDE DEF at
      <4> QED
        BY <3>2, NatLessThanWellFounded, WFMin
    <3>4. \A j \in at : ~(j < k)
      BY <3>2, <3>3 DEF OpToRel
    <3>5. k \in 1..Len(l.order) /\ l.order[k] \in todo
      OBVIOUS
    <3>6. Before(l, k) \cap todo = {}
      <4>1. SUFFICES ASSUME NEW x \in Before(l, k), x \in todo PROVE FALSE
        OBVIOUS
      <4>2. PICK j \in 1..Len(l.order) : j < k /\ x = l.order[j]
        BY <3>5, BeforeIsBefore
      <4> QED
        BY <3>4, <4>1, <4>2
    <3>7. FieldAndBaseDeps(l, l.order[k]) \subseteq Before(l, k) \cup DOMAIN l.alias \cup Foreign
      BY <3>5, Ordered DEF FieldAndBaseDeps, ValuesOf
    <3>8. FieldAndBaseDeps(l, l.order[k]) \cap todo = {}
      BY <1>3, <3>1, <3>6, <3>7
    <3>9. PICK i \in 1..n : q[i] = l.order[k]
      BY <1>2, <3>5
    <3> QED
      BY <1>1, <3>8, <3>9
  <2> QED
    BY <2>1, <2>2
<1>5. ready \in SUBSET Nat
  BY <1>1
<1>6. PICK m \in ready : \A j \in ready : ~(<<j, m>> \in OpToRel(<, Nat))
  <2> HIDE DEF ready
  <2> QED
    BY <1>4, <1>5, NatLessThanWellFounded, WFMin
<1>7. \A j \in ready : m <= j
  <2> HIDE DEF ready
  <2>1. \A j \in ready : ~(j < m)
    BY <1>5, <1>6 DEF OpToRel
  <2>2. m \in Nat /\ \A j \in ready : j \in Nat
    BY <1>5, <1>6
  <2> QED
    BY <2>1, <2>2
<1>8. Next1(l, q) \in ready
  <2>1. Next1(l, q) = CHOOSE i \in ready : \A j \in ready : i <= j
    BY DEF Next1
  <2> HIDE DEF ready
  <2> QED
    BY <1>6, <1>7, <2>1
<1> QED
  BY <1>1, <1>8

LEMMA Turn ==
    ASSUME NEW l, NEW acc
    PROVE  LET i == Next1(l, acc.queue)
               n == Len(acc.queue)
           IN  /\ Turned(l, acc).out = Append(acc.out, acc.queue[i])
               /\ Turned(l, acc).queue = SubSeq(acc.queue, i + 1, n) \o SubSeq(acc.queue, 1, i - 1)
  BY DEF Turned

LEMMA Appended ==
    ASSUME NEW A, NEW s \in Seq(A), NEW x \in A
    PROVE  Append(s, x) \in Seq(A) /\ ToSet(Append(s, x)) = ToSet(s) \cup {x}
<1>1. Len(s) \in Nat /\ Append(s, x) \in Seq(A) /\ Len(Append(s, x)) = Len(s) + 1
  OBVIOUS
<1>2. \A i \in 1..Len(s) : Append(s, x)[i] = s[i]
  OBVIOUS
<1>3. Append(s, x)[Len(s) + 1] = x
  OBVIOUS
<1>4. DOMAIN s = 1..Len(s) /\ DOMAIN Append(s, x) = 1..Len(s) + 1
  OBVIOUS
<1>5. 1..Len(s) + 1 = (1..Len(s)) \cup {Len(s) + 1}
  BY <1>1
<1> QED
  BY <1>1, <1>2, <1>3, <1>4, <1>5 DEF ToSet

LEMMA NothingToSay == <<>> \in Seq({}) /\ ToSet(<<>>) = {} /\ \A A : <<>> \in Seq(A)
  BY DEF ToSet

LEMMA EveryEntryHasItsTurn ==
    ASSUME NEW l, WellFormed(l)
    PROVE  /\ FieldsAndBasesFirst(l) \in Seq(ToSet(l.apis))
           /\ ToSet(FieldsAndBasesFirst(l)) = ToSet(l.apis)
<1> DEFINE A == ToSet(l.apis)
           M == Len(l.apis)
<1>1. l.apis \in Seq(A) /\ M \in Nat
  BY EnoughTurns DEF WellFormed
<1>2. PICK after : /\ after[0] = Listed(l)
                   /\ \A n \in 1..M : after[n] = Turned(l, after[n - 1])
                   /\ Walked(l) = after[M]
  BY <1>1, WalkUnfold
<1> HIDE DEF A, M
<1> DEFINE P(n) == /\ after[n].out \in Seq(A) /\ after[n].queue \in Seq(A)
                   /\ Len(after[n].queue) = M - n
                   /\ ToSet(after[n].out) \cup ToSet(after[n].queue) = A
           S == {n \in Nat : n <= M => P(n)}
<1>3. 0 \in S
  <2>1. after[0].out = <<>> /\ after[0].queue = l.apis
    BY <1>2 DEF Listed
  <2>2. after[0].out \in Seq(A) /\ ToSet(after[0].out) = {}
    BY <2>1, NothingToSay
  <2>3. Len(after[0].queue) = M - 0
    BY <1>1, <2>1 DEF M
  <2> QED
    BY <1>1, <2>1, <2>2, <2>3 DEF A
<1>4. ASSUME NEW n \in S PROVE n + 1 \in S
  <2>1. SUFFICES ASSUME n + 1 <= M PROVE P(n + 1)
    OBVIOUS
  <2> DEFINE q == after[n].queue
             i == Next1(l, q)
             r == SubSeq(q, i + 1, Len(q)) \o SubSeq(q, 1, i - 1)
  <2>2. n \in Nat /\ n + 1 \in 1..M /\ (n + 1) - 1 = n
    BY <1>1, <2>1
  <2>3. P(n)
    BY <1>1, <2>2
  <2>4. /\ after[n + 1].out = Append(after[n].out, q[i])
        /\ after[n + 1].queue = r
    <3>1. after[n + 1] = Turned(l, after[n])
      BY <1>2, <2>2
    <3> QED
      BY <3>1, Turn, ZenonT(60)
  <2>5. q \in Seq(A) /\ Len(q) = M - n /\ Len(q) # 0
    BY <1>1, <2>2, <2>3
  <2>6. i \in 1..Len(q)
    BY <2>5, SomethingIsReady DEF A
  <2> HIDE DEF i, q
  <2>7. r \in Seq(A) /\ Len(r) = Len(q) - 1 /\ ToSet(r) \cup {q[i]} = ToSet(q)
    BY <2>5, <2>6, OutOfTheMiddle
  <2> HIDE DEF r
  <2>8. q[i] \in A /\ after[n].out \in Seq(A)
    BY <2>3, <2>5, <2>6
  <2>9. /\ after[n + 1].out \in Seq(A)
        /\ ToSet(after[n + 1].out) = ToSet(after[n].out) \cup {q[i]}
    BY <2>4, <2>8, Appended
  <2>10. Len(after[n + 1].queue) = M - (n + 1)
    BY <1>1, <2>2, <2>4, <2>5, <2>7
  <2>11. ToSet(after[n].out) \cup ToSet(q) = A
    BY <2>3 DEF q
  <2> QED
    BY <2>4, <2>7, <2>9, <2>10, <2>11
<1>5. S \in SUBSET Nat
  OBVIOUS
<1> HIDE DEF S
<1>6. S = Nat
  BY <1>3, <1>4, <1>5, Induction
<1>7. P(M)
  BY <1>1, <1>6 DEF S
<1>8. ToSet(after[M].queue) = {}
  <2>1. after[M].queue \in Seq(A) /\ Len(after[M].queue) = 0
    BY <1>1, <1>7
  <2>2. after[M].queue = <<>>
    BY <2>1
  <2> QED
    BY <2>2, NothingToSay
<1> QED
  BY <1>2, <1>7, <1>8, WalkIs DEF A

(* The order of the passes: every class which has a definition, and no other.  *)
LEMMA EveryClassHasItsTurn ==
    ASSUME NEW l, WellFormed(l)
    PROVE  /\ ClassOrder(l) \in Seq(Structs(l))
           /\ ToSet(ClassOrder(l)) = Structs(l)
<1> DEFINE f == FieldsAndBasesFirst(l)
           N == Len(f)
<1>1. f \in Seq(ToSet(l.apis)) /\ ToSet(f) = ToSet(l.apis) /\ Classes(l) \subseteq ToSet(l.apis)
  BY EveryEntryHasItsTurn DEF WellFormed
<1>2. N \in Nat /\ ToSet(f) = {f[i] : i \in 1..N}
  BY <1>1 DEF ToSet
<1>3. PICK after : /\ after[0] = <<>>
                   /\ \A n \in 1..N : after[n] = Kept(l, after[n - 1], f[n])
                   /\ ClassOrder(l) = after[N]
  BY <1>1, ClassOrderUnfold
<1> HIDE DEF f, N
<1> DEFINE P(n) == /\ after[n] \in Seq(Structs(l))
                   /\ \A i \in 1..n : f[i] \in Structs(l) => f[i] \in ToSet(after[n])
           S == {n \in Nat : n <= N => P(n)}
<1>4. 0 \in S
  <2>1. P(0)
    BY <1>3, NothingToSay
  <2> QED
    BY <2>1
<1>5. ASSUME NEW n \in S PROVE n + 1 \in S
  <2>1. SUFFICES ASSUME n + 1 <= N PROVE P(n + 1)
    OBVIOUS
  <2>2. n + 1 \in 1..N /\ (n + 1) - 1 = n /\ \A i \in 1..n + 1 : i \in 1..n \/ i = n + 1
    BY <1>2, <2>1
  <2>3. P(n)
    BY <1>2, <2>1
  <2>4. after[n + 1] = Kept(l, after[n], f[n + 1])
    BY <1>3, <2>2
  <2>5. CASE f[n + 1] \notin Structs(l)
    BY <2>2, <2>3, <2>4, <2>5 DEF Kept
  <2>6. CASE f[n + 1] \in Structs(l)
    <3>1. after[n + 1] = Append(after[n], f[n + 1])
      BY <2>4, <2>6 DEF Kept
    <3>2. /\ after[n + 1] \in Seq(Structs(l))
          /\ ToSet(after[n + 1]) = ToSet(after[n]) \cup {f[n + 1]}
      BY <2>3, <2>6, <3>1, Appended
    <3> QED
      BY <2>2, <2>3, <3>2
  <2> QED
    BY <2>5, <2>6
<1>6. S \in SUBSET Nat
  OBVIOUS
<1> HIDE DEF S
<1>7. S = Nat
  BY <1>4, <1>5, <1>6, Induction
<1>8. P(N)
  BY <1>2, <1>7 DEF S
<1>9. ToSet(ClassOrder(l)) \subseteq Structs(l)
  BY <1>3, <1>8 DEF ToSet
<1>10. ASSUME NEW c \in Structs(l) PROVE c \in ToSet(ClassOrder(l))
  <2>1. c \in ToSet(f)
    BY <1>1 DEF Structs
  <2>2. PICK i \in 1..N : f[i] = c
    BY <1>2, <2>1
  <2> QED
    BY <1>3, <1>8, <2>2
<1> QED
  BY <1>3, <1>8, <1>9, <1>10

-----------------------------------------------------------------------------
(* Destructors which do nothing.                                               *)
Answers(i) == "trivial" \in DOMAIN i

LEMMA ItemsAreFound ==
    ASSUME NEW l, NEW seen, NEW c
    PROVE  Answers(ItemsFrom(l, seen, c))
<1>1. \A d, t, cc, n, m, k, b : Answers(Items(d, t, cc, n, m, k, b))
  BY DEF Answers, Items
<1> HIDE DEF Answers
<1> QED
  BY <1>1 DEF ItemsFrom, ByTheRules, ExplicitsOnly

LEMMA KnownTypesAre ==
    /\ DOMAIN KnownTypes = {"int", "str", "uptr"}
    /\ KnownTypes["int"].trivial /\ ~KnownTypes["str"].trivial /\ ~KnownTypes["uptr"].trivial
    /\ \A ty \in DOMAIN KnownTypes : Answers(KnownTypes[ty])
<1>1. KnownTypes["int"].trivial /\ ~KnownTypes["str"].trivial /\ ~KnownTypes["uptr"].trivial
  BY DEF KnownTypes, KnownTypeItems, Items
<1>2. DOMAIN KnownTypes = {"int", "str", "uptr"}
  BY DEF KnownTypes
<1>3. \A ty \in DOMAIN KnownTypes : Answers(KnownTypes[ty])
  <2>1. \A copy, move, t : Answers(KnownTypeItems(copy, move, t))
    BY DEF Answers, KnownTypeItems, Items
  <2>2. /\ KnownTypes["int"] = KnownTypeItems(TRUE, TRUE, TRUE)
        /\ KnownTypes["str"] = KnownTypeItems(TRUE, TRUE, FALSE)
        /\ KnownTypes["uptr"] = KnownTypeItems(FALSE, TRUE, FALSE)
    BY DEF KnownTypes
  <2> QED
    BY <1>2, <2>1, <2>2
<1> QED
  BY <1>1, <1>2, <1>3

LEMMA EnumsAre == Answers(EnumItems)
  BY DEF Answers, EnumItems, ReferenceItems, PointerItems, Items

(* An initializer, const and volatile leave a field's destruction as it is.    *)
LEMMA QualifiersLeaveDestruction ==
    ASSUME NEW l, NEW f, NEW i, Answers(i)
    PROVE  AsVolatile(l, f, AsConst(f, AsInitialized(f, i))).trivial = i.trivial
<1>1. ASSUME NEW j, "trivial" \in DOMAIN j, NEW x, NEW y, NEW z
      PROVE  LET d == [j EXCEPT !.default = x]
                 c == [j EXCEPT !.move = x, !.ncopy = y]
                 v == [j EXCEPT !.ccopy = x, !.ncopy = y, !.move = z]
             IN  /\ d.trivial = j.trivial /\ "trivial" \in DOMAIN d
                 /\ c.trivial = j.trivial /\ "trivial" \in DOMAIN c
                 /\ v.trivial = j.trivial
  BY <1>1
<1>2. "trivial" \in DOMAIN i
  BY DEF Answers
<1> DEFINE j == AsInitialized(f, i)
           k == AsConst(f, j)
<1>3. j.trivial = i.trivial /\ "trivial" \in DOMAIN j
  BY <1>1, <1>2 DEF AsInitialized
<1> HIDE DEF j
<1>4. k.trivial = j.trivial /\ "trivial" \in DOMAIN k
  BY <1>1, <1>3 DEF AsConst
<1> HIDE DEF k
<1>5. AsVolatile(l, f, k).trivial = k.trivial
  BY <1>1, <1>4 DEF AsVolatile
<1> QED
  BY <1>3, <1>4, <1>5 DEF j, k

(* What was found of the classes seen so far says of none that destroying it   *)
(* does nothing unless that is so.                                             *)
Honest(l, seen) ==
    /\ DOMAIN seen \subseteq Structs(l)
    /\ \A c \in DOMAIN seen : Answers(seen[c]) /\ (seen[c].trivial => Trivially(l)[c])

(* What is said of the destruction of anything a class is made of.             *)
LEMMA HonestOfParts ==
    ASSUME NEW l, WellFormed(l), NEW seen, Honest(l, seen),
           NEW ty, NEW i \in ItemsOf(seen, ty), i.trivial
    PROVE  Trivially(l)[ty]
<1>1. CASE ty = "enum"
  BY <1>1, TriviallyMeans
<1>2. CASE ty # "enum" /\ ty \in DOMAIN KnownTypes
  <2>1. i = KnownTypes[ty]
    <3>1. ty \notin DOMAIN seen
      BY <1>2, KnownTypesAre DEF Honest, WellFormed, Structs, Foreign
    <3> QED
      BY <1>2, <3>1 DEF ItemsOf
  <2>2. ty = "int"
    BY <1>2, <2>1, KnownTypesAre
  <2> QED
    BY <2>2, TriviallyMeans
<1>3. CASE ty # "enum" /\ ty \notin DOMAIN KnownTypes /\ ty \in DOMAIN seen
  <2>1. i = seen[ty]
    BY <1>3 DEF ItemsOf
  <2> QED
    BY <1>3, <2>1 DEF Honest
<1>4. CASE ty # "enum" /\ ty \notin DOMAIN KnownTypes /\ ty \notin DOMAIN seen
  BY <1>4 DEF ItemsOf
<1> QED
  BY <1>1, <1>2, <1>3, <1>4

LEMMA ItemsOfAreItems ==
    ASSUME NEW l, NEW seen, Honest(l, seen), NEW ty, NEW i \in ItemsOf(seen, ty)
    PROVE  Answers(i)
<1>1. \/ i = EnumItems
      \/ ty \in DOMAIN KnownTypes /\ i = KnownTypes[ty]
      \/ ty \in DOMAIN seen /\ i = seen[ty]
  BY DEF ItemsOf
<1> QED
  BY <1>1, EnumsAre, KnownTypesAre DEF Honest

LEMMA ImplicitlyDestroyed ==
    ASSUME NEW l, WellFormed(l), NEW seen, NEW c, ByTheRules(l, seen, c).trivial
    PROVE  /\ \A d \in l.decls : ~(d.of = c /\ d.kind = "dtor")
           /\ \A d \in Dependencies(l, seen, c) : d.is.trivial
<1>1. /\ Destructor(l, seen, c) = "implicit"
      /\ \A d \in Dependencies(l, seen, c) : d.is.trivial
  BY DEF ByTheRules, Items
<1>2. \A d \in l.decls : d.vis # "implicit"
  BY DEF WellFormed
<1> DEFINE e == Explicits(l, c, "dtor")
<1>3. e \subseteq l.decls
  BY DEF Explicits
<1>4. e # {} => Visibility(l, c, "dtor") # "implicit"
  <2>1. SUFFICES ASSUME e # {} PROVE Visibility(l, c, "dtor") # "implicit"
    OBVIOUS
  <2>2. (CHOOSE d \in e : TRUE) \in e
    BY <2>1
  <2>3. Visibility(l, c, "dtor") = (CHOOSE d \in e : TRUE).vis
    BY DEF Visibility
  <2> HIDE DEF e
  <2> QED
    BY <1>2, <1>3, <2>2, <2>3
<1>5. e = {}
  <2>1. Found(l, c, "dtor") = "none" => e = {}
    <3> SUFFICES ASSUME e # {} PROVE Found(l, c, "dtor") # "none"
      OBVIOUS
    <3>1. ~("none" \in {d.how : d \in e})
      BY <1>3 DEF WellFormed
    <3> QED
      BY <3>1 DEF Found
  <2>2. CASE e # {}
    BY <1>1, <1>4, <2>1, <2>2 DEF Destructor, FoundAsDeclared, FoundIfUserDefined
  <2> QED
    BY <2>2
<1>6. ASSUME NEW d \in l.decls, d.of = c, d.kind = "dtor" PROVE FALSE
  <2>1. Slot(d.kind) = "dtor"
    BY <1>6 DEF Slot
  <2> QED
    BY <1>5, <1>6, <2>1 DEF Explicits
<1> QED
  BY <1>1, <1>6

(* What is said of a base, and of a field, is among what the rules look at.    *)
LEMMA DependenciesAre ==
    ASSUME NEW l, NEW seen, NEW c
    PROVE  /\ \A b \in l.bases[c] : \A i \in BaseItems(l, seen, b) :
                 Dependency(i, CallableSubclass) \in Dependencies(l, seen, c)
           /\ \A f \in InfoFields(l, c) : \A i \in FieldItems(l, seen, f) :
                 Dependency(i, CallableAny) \in Dependencies(l, seen, c)
           /\ \A i, may : Dependency(i, may).is = i
<1>1. \A b \in l.bases[c] : \A i \in BaseItems(l, seen, b) :
         Dependency(i, CallableSubclass) \in BaseDependencies(l, seen, c)
  BY DEF BaseDependencies
<1>2. \A f \in InfoFields(l, c) : \A i \in FieldItems(l, seen, f) :
         Dependency(i, CallableAny) \in FieldDependencies(l, seen, c)
  BY DEF FieldDependencies
<1>3. \A i, may : Dependency(i, may).is = i
  BY DEF Dependency
<1> QED
  BY <1>1, <1>2, <1>3 DEF Dependencies

(* What is found of the next class is as honest: a class of which the rules    *)
(* say that its destruction does nothing declares no destructor, has no base   *)
(* with a virtual one, and is made of parts of which the same was said.        *)
LEMMA DestroyedByTheRules ==
    ASSUME NEW l, WellFormed(l), NEW seen, Honest(l, seen), NEW c \in Structs(l),
           Understood(l, seen, c), ByTheRules(l, seen, c).trivial
    PROVE  Trivially(l)[c]
<1> DEFINE is == Trivially(l)
<1>1. /\ \A d \in l.decls : ~(d.of = c /\ d.kind = "dtor")
      /\ \A d \in Dependencies(l, seen, c) : d.is.trivial
  BY ImplicitlyDestroyed
<1>2. c \in Classes(l) /\ c \notin l.concrete
  BY DEF Structs
<1>3. PICK k \in 1..Len(l.order) : l.order[k] = c
  BY <1>2, Ordered
<1>4. ASSUME NEW b \in BasesOf(l, c) PROVE b \in Classes(l) /\ is[b]
  <2>1. PICK name \in l.bases[c] : b = Resolved(l, name)
    BY DEF BasesOf
  <2>2. PICK i \in ItemsOf(seen, b) : TRUE
    BY <2>1 DEF Understood, BaseItems
  <2>3. Dependency(i, CallableSubclass) \in Dependencies(l, seen, c)
    BY <2>1, <2>2, DependenciesAre DEF BaseItems
  <2>4. i.trivial
    BY <1>1, <2>3, DependenciesAre
  <2>5. is[b]
    BY <2>4, HonestOfParts
  <2> QED
    BY <1>3, <2>5, BasesBefore
<1>5. ASSUME NEW f \in l.fields[c], f.shape = "value" PROVE is[f.ty]
  <2>1. f \in InfoFields(l, c)
    BY <1>5 DEF InfoFields
  <2>2. FieldItems(l, seen, f) =
           {AsVolatile(l, f, AsConst(f, AsInitialized(f, i))) : i \in ItemsOf(seen, f.ty)}
    BY <1>5 DEF FieldItems
  <2>3. PICK i \in ItemsOf(seen, f.ty) : TRUE
    BY <2>1, <2>2 DEF Understood
  <2> DEFINE j == AsVolatile(l, f, AsConst(f, AsInitialized(f, i)))
  <2>4. j \in FieldItems(l, seen, f)
    BY <2>2
  <2>5. Answers(i)
    BY ItemsOfAreItems
  <2>6. j.trivial = i.trivial
    BY <2>5, QualifiersLeaveDestruction
  <2> HIDE DEF j
  <2>7. Dependency(j, CallableAny) \in Dependencies(l, seen, c)
    BY <2>1, <2>4, DependenciesAre
  <2>8. i.trivial
    BY <1>1, <2>6, <2>7, DependenciesAre
  <2> QED
    BY <2>8, HonestOfParts
<1>6. \A b \in BasesOf(l, c) : DoesNothing(l, is, b)
  BY <1>4, TriviallyMeans
<1>7. c \notin CppVirtualDestructors(l)
  <2>1. c \notin DeclaredVirtual(l)
    BY <1>1 DEF DeclaredVirtual
  <2>2. \A b \in BasesOf(l, c) : b \notin CppVirtualDestructors(l)
    BY <1>6 DEF DoesNothing
  <2> QED
    BY <1>2, <2>1, <2>2, CppVirtualMeans
<1>8. ASSUME NEW b \in AllVirtualBases(l)[c] PROVE is[b]
  <2>1. b \in VirtualOf(l, c) \/ \E a \in BasesOf(l, c) : b \in AllVirtualBases(l)[a]
    BY <1>2, VirtualBasesMean DEF VirtualBasesFrom
  <2>2. CASE b \in VirtualOf(l, c)
    BY <1>3, <1>4, <2>2, Ordered
  <2>3. ASSUME NEW a \in BasesOf(l, c), b \in AllVirtualBases(l)[a] PROVE is[b]
    <3> DEFINE p == [ty |-> b, base |-> TRUE, const |-> FALSE, volatile |-> FALSE,
                     init |-> FALSE, shape |-> "value"]
    <3>1. p \in Parts(l, a)
      BY <2>3 DEF Parts
    <3>2. p.shape = "value" /\ p.ty = b
      OBVIOUS
    <3> HIDE DEF p
    <3> QED
      BY <1>6, <3>1, <3>2 DEF DoesNothing
  <2> QED
    BY <2>1, <2>2, <2>3
<1>9. c \notin l.unnamed
  BY DEF Understood
<1>10. ASSUME NEW p \in Parts(l, c), p.shape = "value" PROVE is[p.ty]
  <2>1. \/ p.ty \in BasesOf(l, c) \cup AllVirtualBases(l)[c]
        \/ \E f \in l.fields[c] : p.ty = f.ty /\ p.shape = f.shape
    BY <1>9 DEF Parts
  <2> QED
    BY <1>4, <1>5, <1>8, <1>10, <2>1
<1>11. DoesNothing(l, is, c)
  BY <1>1, <1>2, <1>7, <1>10 DEF DoesNothing
<1> QED
  BY <1>2, <1>11, TriviallyMeans

LEMMA HonestOfTheNext ==
    ASSUME NEW l, WellFormed(l), NEW seen, Honest(l, seen), NEW c \in Structs(l)
    PROVE  Honest(l, Extended(seen, c, ItemsFrom(l, seen, c)))
<1> DEFINE v == ItemsFrom(l, seen, c)
           next == Extended(seen, c, v)
<1>1. Answers(v)
  BY ItemsAreFound
<1>2. v.trivial => Trivially(l)[c]
  <2>1. CASE Understood(l, seen, c)
    <3>1. v = ByTheRules(l, seen, c)
      BY <2>1 DEF ItemsFrom
    <3> QED
      BY <2>1, <3>1, DestroyedByTheRules
  <2>2. CASE ~Understood(l, seen, c)
    <3>1. v = ExplicitsOnly(l, c)
      BY <2>2 DEF ItemsFrom
    <3>2. ~ExplicitsOnly(l, c).trivial
      BY DEF ExplicitsOnly, Items
    <3> QED
      BY <3>1, <3>2
  <2> QED
    BY <2>1, <2>2
<1> HIDE DEF v
<1>3. DOMAIN next = DOMAIN seen \cup {c} /\ next[c] = v
  BY DEF Extended
<1>4. \A d \in DOMAIN seen : d # c => next[d] = seen[d]
  BY DEF Extended
<1> HIDE DEF next
<1>5. Honest(l, next)
  BY <1>1, <1>2, <1>3, <1>4 DEF Honest
<1> QED
  BY <1>5 DEF next, v

(* Every class with a definition is analyzed, and what is found of each is     *)
(* honest.                                                                     *)
LEMMA FoundIsHonest ==
    ASSUME NEW l, WellFormed(l)
    PROVE  DOMAIN FoundInStructs(l) = Structs(l) /\ Honest(l, FoundInStructs(l))
<1> DEFINE order == ClassOrder(l)
           N == Len(order)
           none == <<>>
<1>1. order \in Seq(Structs(l)) /\ ToSet(order) = Structs(l)
  BY EveryClassHasItsTurn
<1>2. N \in Nat /\ ToSet(order) = {order[i] : i \in 1..N}
  BY <1>1 DEF ToSet
<1>3. PICK after : /\ after[0] = none
                   /\ \A n \in 1..N : after[n] = Extended(after[n - 1], order[n],
                                                          ItemsFrom(l, after[n - 1], order[n]))
                   /\ FoundInStructs(l) = after[N]
  BY <1>1, FoundUnfold
<1>4. DOMAIN none = {}
  OBVIOUS
<1> HIDE DEF order, N, none
<1> DEFINE P(n) == Honest(l, after[n]) /\ DOMAIN after[n] = {order[i] : i \in 1..n}
           S == {n \in Nat : n <= N => P(n)}
<1>5. 0 \in S
  <2>1. {order[i] : i \in 1..0} = {}
    OBVIOUS
  <2>2. P(0)
    BY <1>3, <1>4, <2>1 DEF Honest
  <2> QED
    BY <2>2
<1>6. ASSUME NEW n \in S PROVE n + 1 \in S
  <2>1. SUFFICES ASSUME n + 1 <= N PROVE P(n + 1)
    OBVIOUS
  <2>2. n + 1 \in 1..N /\ (n + 1) - 1 = n /\ 1..n + 1 = (1..n) \cup {n + 1}
    BY <1>2, <2>1
  <2>3. P(n)
    BY <1>2, <2>1
  <2> DEFINE c == order[n + 1]
             v == ItemsFrom(l, after[n], c)
  <2>4. c \in Structs(l) /\ after[n + 1] = Extended(after[n], c, v)
    BY <1>1, <1>2, <1>3, <2>2
  <2>5. Honest(l, after[n + 1])
    BY <2>3, <2>4, HonestOfTheNext
  <2> HIDE DEF v
  <2>6. DOMAIN after[n + 1] = DOMAIN after[n] \cup {c}
    BY <2>4 DEF Extended
  <2> QED
    BY <2>2, <2>3, <2>5, <2>6
<1>7. S \in SUBSET Nat
  OBVIOUS
<1> HIDE DEF S
<1>8. S = Nat
  BY <1>5, <1>6, <1>7, Induction
<1>9. P(N)
  BY <1>2, <1>8 DEF S
<1> QED
  BY <1>1, <1>2, <1>3, <1>9

LEMMA FoundIsHonestOfAll ==
    ASSUME NEW l, WellFormed(l)
    PROVE  LET items == FindConstructorsPresent(l)
           IN  /\ DOMAIN items = Classes(l)
               /\ \A c \in Classes(l) : items[c].trivial => Trivially(l)[c] /\ c \in Structs(l)
<1> DEFINE found0 == FindConstructorsPresent(l)
           structs0 == FoundInStructs(l)
<1>1. /\ DOMAIN structs0 = Structs(l) /\ l.concrete \subseteq Classes(l)
      /\ \A c \in Structs(l) : structs0[c].trivial => Trivially(l)[c]
  BY FoundIsHonest, ZenonT(60) DEF Honest, WellFormed
<1>2. found0 = [c \in DOMAIN structs0 \cup l.concrete |->
                  IF c \in l.concrete THEN ConcreteItems ELSE structs0[c]]
  BY DEF FindConstructorsPresent
<1>3. ~ConcreteItems.trivial
  BY DEF ConcreteItems, Items
<1> HIDE DEF found0, structs0
<1>4. DOMAIN found0 = Classes(l)
  BY <1>1, <1>2 DEF Structs
<1>5. ASSUME NEW c \in Classes(l), found0[c].trivial PROVE Trivially(l)[c] /\ c \in Structs(l)
  <2>1. found0[c] = IF c \in l.concrete THEN ConcreteItems ELSE structs0[c]
    BY <1>1, <1>2 DEF Structs
  <2> QED
    BY <1>1, <1>3, <1>5, <2>1 DEF Structs
<1> QED
  BY <1>4, <1>5 DEF found0

-----------------------------------------------------------------------------
(* Types.  What is found of a class is one of the slots' values, whatever its  *)
(* parts are.                                                                  *)
Typed(i) ==
    /\ \A slot \in Slots : i[slot] \in SlotValues
    /\ i.cmove \in SlotValues \cup {"undeclared"} /\ i.trivial \in BOOLEAN

LEMMA ItemsAreTyped ==
    ASSUME NEW d \in SlotValues, NEW t \in SlotValues, NEW c \in SlotValues, NEW n \in SlotValues,
           NEW m \in SlotValues, NEW k \in SlotValues \cup {"undeclared"}, NEW b \in BOOLEAN
    PROVE  Typed(Items(d, t, c, n, m, k, b))
<1> DEFINE i == Items(d, t, c, n, m, k, b)
<1>1. /\ i["default"] = d /\ i["dtor"] = t /\ i["ccopy"] = c /\ i["ncopy"] = n /\ i["move"] = m
      /\ i.cmove = k /\ i.trivial = b
  BY DEF Items
<1> HIDE DEF i
<1>2. Typed(i)
  BY <1>1 DEF Typed, Slots
<1> QED
  BY <1>2 DEF i

LEMMA DeclaredAreVisible ==
    ASSUME NEW l, WellFormed(l), NEW c, NEW slot, Explicits(l, c, slot) # {}
    PROVE  Visibility(l, c, slot) \in {"public", "protected", "private"}
<1> DEFINE e == Explicits(l, c, slot)
<1>1. e \subseteq l.decls /\ \A d \in l.decls : d.vis \in {"public", "protected", "private"}
  BY DEF Explicits, WellFormed
<1>2. Visibility(l, c, slot) = (CHOOSE d \in e : TRUE).vis
  BY DEF Visibility
<1> HIDE DEF e
<1>3. (CHOOSE d \in e : TRUE) \in e
  BY DEF e
<1> QED
  BY <1>1, <1>2, <1>3

LEMMA FoundAreSlotValues ==
    ASSUME NEW l, WellFormed(l), NEW c, NEW slot
    PROVE  /\ FoundAsDeclared(l, c, slot) \in SlotValues
           /\ FoundOnlyIfDefaulted(l, c, slot) \in SlotValues
           /\ FoundIfUserDefined(l, c, slot) \in SlotValues
           /\ Found(l, c, slot) \notin {"none", "multiple", "deleted"}
                => Visibility(l, c, slot) \in SlotValues
<1>1. Found(l, c, slot) # "none" => Explicits(l, c, slot) # {}
  BY DEF Found
<1>2. Found(l, c, slot) # "none" => Visibility(l, c, slot) \in SlotValues
  BY <1>1, DeclaredAreVisible DEF SlotValues, CallableSubclass, CallableAny
<1>3. "implicit" \in SlotValues /\ "no" \in SlotValues
  BY DEF SlotValues, CallableSubclass, CallableAny
<1> QED
  BY <1>2, <1>3 DEF FoundAsDeclared, FoundOnlyIfDefaulted, FoundIfUserDefined

LEMMA ItemsFromAreTyped ==
    ASSUME NEW l, WellFormed(l), NEW seen, NEW c
    PROVE  Typed(ItemsFrom(l, seen, c))
<1>1. \A slot : /\ FoundAsDeclared(l, c, slot) \in SlotValues
                /\ FoundOnlyIfDefaulted(l, c, slot) \in SlotValues
                /\ FoundIfUserDefined(l, c, slot) \in SlotValues
                /\ Found(l, c, slot) \notin {"none", "multiple", "deleted"}
                     => Visibility(l, c, slot) \in SlotValues
  BY FoundAreSlotValues
<1>2. "implicit" \in SlotValues /\ "no" \in SlotValues /\ "public" \in SlotValues
  BY DEF SlotValues, CallableSubclass, CallableAny
<1>3. CASE Understood(l, seen, c)
  <2>1. DefaultConstructor(l, seen, c) \in SlotValues
    BY <1>1, <1>2 DEF DefaultConstructor
  <2>2. Destructor(l, seen, c) \in SlotValues
    BY <1>1, <1>2 DEF Destructor
  <2>3. /\ CopyConstructors(l, seen, c)["ccopy"] \in SlotValues
        /\ CopyConstructors(l, seen, c)["ncopy"] \in SlotValues
    BY <1>1, <1>2 DEF CopyConstructors
  <2>4. MoveConstructor(l, seen, c) \in SlotValues
    BY <1>1, <1>2 DEF MoveConstructor
  <2> QED
    BY <1>3, <2>1, <2>2, <2>3, <2>4, ItemsAreTyped DEF ItemsFrom, ByTheRules
<1>4. CASE ~Understood(l, seen, c)
  <2> DEFINE dtor == Found(l, c, "dtor")
             slot == CASE dtor = "none" -> "implicit"
                       [] dtor = "multiple" -> "public"
                       [] dtor = "deleted" -> "no"
                       [] OTHER -> Visibility(l, c, "dtor")
  <2>1. slot \in SlotValues
    BY <1>1, <1>2
  <2>2. ExplicitsOnly(l, c) =
           Items(FoundIfUserDefined(l, c, "default"), slot,
                 FoundIfUserDefined(l, c, "ccopy"), FoundIfUserDefined(l, c, "ncopy"),
                 FoundIfUserDefined(l, c, "move"),
                 IF c \in ConstMoves(l) THEN FoundIfUserDefined(l, c, "move") ELSE "undeclared", FALSE)
    BY DEF ExplicitsOnly
  <2> HIDE DEF slot
  <2>3. Typed(ExplicitsOnly(l, c))
    BY <1>1, <2>1, <2>2, ItemsAreTyped
  <2> QED
    BY <1>4, <2>3 DEF ItemsFrom
<1> QED
  BY <1>3, <1>4

LEMMA FoundAreTyped ==
    ASSUME NEW l, WellFormed(l)
    PROVE  LET items == FindConstructorsPresent(l)
           IN  DOMAIN items = Classes(l) /\ \A c \in Classes(l) : Typed(items[c])
<1> DEFINE order == ClassOrder(l)
           N == Len(order)
           none == <<>>
<1>1. order \in Seq(Structs(l)) /\ N \in Nat
  BY EveryClassHasItsTurn
<1>2. PICK after : /\ after[0] = none
                   /\ \A n \in 1..N : after[n] = Extended(after[n - 1], order[n],
                                                          ItemsFrom(l, after[n - 1], order[n]))
                   /\ FoundInStructs(l) = after[N]
  BY <1>1, FoundUnfold
<1>3. DOMAIN none = {}
  OBVIOUS
<1> HIDE DEF order, N, none
<1> DEFINE P(n) == \A c \in DOMAIN after[n] : Typed(after[n][c])
           S == {n \in Nat : n <= N => P(n)}
<1>4. 0 \in S
  BY <1>2, <1>3
<1>5. ASSUME NEW n \in S PROVE n + 1 \in S
  <2>1. SUFFICES ASSUME n + 1 <= N PROVE P(n + 1)
    OBVIOUS
  <2>2. n + 1 \in 1..N /\ (n + 1) - 1 = n
    BY <1>1, <2>1
  <2>3. P(n)
    BY <1>1, <2>1
  <2> DEFINE c == order[n + 1]
             v == ItemsFrom(l, after[n], c)
  <2>4. Typed(v) /\ after[n + 1] = Extended(after[n], c, v)
    BY <1>2, <2>2, ItemsFromAreTyped
  <2> HIDE DEF v, c
  <2>5. /\ DOMAIN after[n + 1] = DOMAIN after[n] \cup {c} /\ after[n + 1][c] = v
        /\ \A d \in DOMAIN after[n] : d # c => after[n + 1][d] = after[n][d]
    BY <2>4 DEF Extended
  <2> QED
    BY <2>3, <2>4, <2>5
<1>6. S \in SUBSET Nat
  OBVIOUS
<1> HIDE DEF S
<1>7. S = Nat
  BY <1>4, <1>5, <1>6, Induction
<1>8. \A c \in DOMAIN FoundInStructs(l) : Typed(FoundInStructs(l)[c])
  BY <1>1, <1>2, <1>7 DEF S
<1>9. Typed(ConcreteItems)
  <2>1. "implicit" \in SlotValues /\ "no" \in SlotValues
    BY DEF SlotValues, CallableSubclass, CallableAny
  <2> QED
    BY <2>1, ItemsAreTyped DEF ConcreteItems
<1>10. DOMAIN FindConstructorsPresent(l) = Classes(l) /\ DOMAIN FoundInStructs(l) = Structs(l)
  BY FoundIsHonest, FoundIsHonestOfAll
<1>11. ASSUME NEW c \in Classes(l) PROVE Typed(FindConstructorsPresent(l)[c])
  <2>1. FindConstructorsPresent(l)[c] =
           IF c \in l.concrete THEN ConcreteItems ELSE FoundInStructs(l)[c]
    BY <1>10 DEF FindConstructorsPresent, Structs
  <2> QED
    BY <1>8, <1>9, <1>10, <2>1 DEF Structs
<1> QED
  BY <1>10, <1>11

LEMMA AbstractAreStructs ==
    ASSUME NEW l, WellFormed(l)
    PROVE  AbstractClasses(l) \subseteq Structs(l)
<1> DEFINE order == ClassOrder(l)
           N == Len(order)
           none == <<>>
<1>1. order \in Seq(Structs(l)) /\ N \in Nat
  BY EveryClassHasItsTurn
<1>2. PICK after : /\ after[0] = none
                   /\ \A n \in 1..N : after[n] = WithAbstractState(l, after[n - 1], order[n])
                   /\ AbstractStates(l) = after[N]
  BY <1>1, AbstractStatesUnfold
<1>3. DOMAIN none = {} /\ \A n \in 1..N : order[n] \in Structs(l)
  BY <1>1
<1> HIDE DEF order, N, none
<1> DEFINE S == {n \in Nat : n <= N => DOMAIN after[n] \subseteq Structs(l)}
<1>4. 0 \in S
  BY <1>2, <1>3
<1>5. ASSUME NEW n \in S PROVE n + 1 \in S
  <2>1. SUFFICES ASSUME n + 1 <= N PROVE DOMAIN after[n + 1] \subseteq Structs(l)
    OBVIOUS
  <2>2. n + 1 \in 1..N /\ (n + 1) - 1 = n
    BY <1>1, <2>1
  <2>3. DOMAIN after[n] \subseteq Structs(l)
    BY <1>1, <2>1
  <2>4. after[n + 1] = WithAbstractState(l, after[n], order[n + 1])
    BY <1>2, <2>2
  <2>5. DOMAIN after[n + 1] \subseteq DOMAIN after[n] \cup {order[n + 1]}
    BY <2>4 DEF WithAbstractState, Extended
  <2> QED
    BY <1>3, <2>2, <2>3, <2>5
<1>6. S \in SUBSET Nat
  OBVIOUS
<1> HIDE DEF S
<1>7. S = Nat
  BY <1>4, <1>5, <1>6, Induction
<1>8. DOMAIN AbstractStates(l) \subseteq Structs(l)
  BY <1>1, <1>2, <1>7 DEF S
<1> QED
  BY <1>8, AbstractAre

-----------------------------------------------------------------------------
(* The passes.  What each variable holds, pass by pass: what was found, which  *)
(* destructors are virtual, that those left out do nothing, and that every     *)
(* recorded dependency is a function which is not going to be ignored.         *)
IsFunction(f) == {"of", "ok"} \subseteq DOMAIN f /\ f.of \in Classes(lib) /\ f.ok \in BOOLEAN
Header == WellFormed(lib)
FoundSoFar ==
    IF pass = "find" THEN found = <<>> ELSE found = FindConstructorsPresent(lib)
OmittedSoFar == \A c \in omitted : c \in Structs(lib) /\ Trivially(lib)[c]
VirtualsSoFar ==
    IF pass \in {"find", "add", "abstract"} THEN virtuals = {}
    ELSE virtuals = VirtualDestructors(lib)
FunctionsSoFar == \A f \in apis : IsFunction(f)
SetsSoFar == structs \cup abstract \subseteq Structs(lib)
DepsSoFar ==
    IF pass \in {"discard", "done"}
    THEN /\ DOMAIN deps \subseteq structs \cup lib.concrete
         /\ \A c \in DOMAIN deps : deps[c] \subseteq {f \in apis : f.ok}
    ELSE deps = <<>>
Passes == {"find", "add", "abstract", "own", "decorate", "discard", "done"}
SoFar ==
    /\ Header /\ pass \in Passes
    /\ FoundSoFar /\ OmittedSoFar /\ VirtualsSoFar /\ FunctionsSoFar /\ SetsSoFar /\ DepsSoFar

LEMMA AllAreFunctions ==
    ASSUME NEW of \in Classes(lib), NEW kind, NEW how, NEW vis, NEW ok \in BOOLEAN
    PROVE  IsFunction(Function(of, kind, how, vis, ok))
<1> DEFINE f == Function(of, kind, how, vis, ok)
<1>1. {"of", "ok"} \subseteq DOMAIN f /\ f.of = of /\ f.ok = ok
  BY DEF Function
<1> HIDE DEF f
<1>2. IsFunction(f)
  BY <1>1 DEF IsFunction
<1> QED
  BY <1>2 DEF f

LEMMA DeclaredAreFunctions ==
    ASSUME Header PROVE \A f \in DeclaredFunctions(lib) : IsFunction(f)
<1>1. \A d \in lib.decls : d.of \in Classes(lib)
  BY DEF Header, WellFormed
<1>2. SUFFICES ASSUME NEW f \in DeclaredFunctions(lib) PROVE IsFunction(f)
  OBVIOUS
<1>3. \/ \E d \in lib.decls :
            f = Function(d.of, d.kind, d.how, d.vis, d.how # "deleted" /\ d.vis # "private")
      \/ \E c \in Classes(lib) : \E kind : f = Function(c, kind, "implied", "public", TRUE)
  <2> DEFINE A == {Function(d.of, d.kind, d.how, d.vis, d.how # "deleted" /\ d.vis # "private") :
                      d \in lib.decls}
             B == {Function(s[1], s[2], "implied", "public", TRUE) :
                      s \in Classes(lib) \X {"alloc", "dealloc"}}
  <2>1. DeclaredFunctions(lib) = A \cup B
    BY DEF DeclaredFunctions
  <2>2. f \in A => \E d \in lib.decls :
            f = Function(d.of, d.kind, d.how, d.vis, d.how # "deleted" /\ d.vis # "private")
    BY Zenon
  <2>3. f \in B => \E c \in Classes(lib) : \E kind : f = Function(c, kind, "implied", "public", TRUE)
    OBVIOUS
  <2> HIDE DEF A, B
  <2> QED
    BY <2>1, <2>2, <2>3
<1>4. ASSUME NEW d \in lib.decls,
             f = Function(d.of, d.kind, d.how, d.vis, d.how # "deleted" /\ d.vis # "private")
      PROVE  IsFunction(f)
  <2> DEFINE ok == d.how # "deleted" /\ d.vis # "private"
  <2>1. ok \in BOOLEAN
    OBVIOUS
  <2> HIDE DEF ok
  <2>2. IsFunction(Function(d.of, d.kind, d.how, d.vis, ok))
    BY <1>1, <2>1, AllAreFunctions
  <2> QED
    BY <1>4, <2>2 DEF ok
<1>5. ASSUME NEW c \in Classes(lib), NEW kind, f = Function(c, kind, "implied", "public", TRUE)
      PROVE  IsFunction(f)
  <2> DEFINE how == "implied"
             vis == "public"
             ok == TRUE
  <2>1. ok \in BOOLEAN
    OBVIOUS
  <2> HIDE DEF how, vis, ok
  <2>2. IsFunction(Function(c, kind, how, vis, ok))
    BY <2>1, AllAreFunctions
  <2> QED
    BY <1>5, <2>2 DEF how, vis, ok
<1> QED
  BY <1>3, <1>4, <1>5

LEMMA SynthesizedAreFunctions ==
    ASSUME Header, found = FindConstructorsPresent(lib)
    PROVE  \A f \in Synthesized : IsFunction(f)
<1>1. DOMAIN found = Classes(lib)
  BY FoundIsHonestOfAll DEF Header
<1>2. SUFFICES ASSUME NEW f \in Synthesized PROVE IsFunction(f)
  OBVIOUS
<1>3. \E s \in (DOMAIN found \ lib.blocked) \X {"default", "move", "ccopy", "dtor"} :
         f = Function(s[1], s[2], "implied", "public", TRUE)
  BY DEF Synthesized
<1>4. PICK c \in Classes(lib), kind \in {"default", "move", "ccopy", "dtor"} :
         f = Function(c, kind, "implied", "public", TRUE)
  BY <1>1, <1>3
<1> DEFINE how == "implied"
           vis == "public"
           ok == TRUE
<1>5. ok \in BOOLEAN
  OBVIOUS
<1> HIDE DEF how, vis, ok
<1>6. IsFunction(Function(c, kind, how, vis, ok))
  BY <1>5, AllAreFunctions
<1> QED
  BY <1>4, <1>6 DEF how, vis, ok

LEMMA IgnoredAreFunctions ==
    ASSUME NEW f, IsFunction(f) PROVE IsFunction([f EXCEPT !.ok = FALSE])
  BY DEF IsFunction

LEMMA AtFirst == Init => SoFar
<1> SUFFICES ASSUME Init PROVE SoFar
  OBVIOUS
<1> USE DEF Init
<1>1. Header
  BY HeadersAssumption DEF Header
<1>2. FunctionsSoFar
  BY <1>1, DeclaredAreFunctions DEF FunctionsSoFar
<1> QED
  BY <1>1, <1>2 DEF SoFar, Passes, FoundSoFar, OmittedSoFar, VirtualsSoFar, SetsSoFar, DepsSoFar

LEMMA EachPass == SoFar /\ [Next]_vars => SoFar'
<1> SUFFICES ASSUME SoFar, [Next]_vars PROVE SoFar'
  OBVIOUS
<1> USE DEF SoFar
<1>1. CASE FindConstructors
  <2> USE <1>1 DEF FindConstructors
  <2>1. Header' /\ pass' \in Passes /\ FoundSoFar'
    BY DEF Header, Passes, FoundSoFar
  <2>2. OmittedSoFar' /\ VirtualsSoFar' /\ SetsSoFar' /\ DepsSoFar'
    BY DEF OmittedSoFar, VirtualsSoFar, SetsSoFar, DepsSoFar
  <2>3. FunctionsSoFar'
    BY DEF FunctionsSoFar, IsFunction
  <2> QED
    BY <2>1, <2>2, <2>3
<1>2. CASE AddConstructorsPresent
  <2> USE <1>2 DEF AddConstructorsPresent
  <2>1. found = FindConstructorsPresent(lib)
    BY DEF FoundSoFar
  <2>2. Header' /\ pass' \in Passes /\ FoundSoFar' /\ VirtualsSoFar' /\ SetsSoFar' /\ DepsSoFar'
    BY DEF Header, Passes, FoundSoFar, VirtualsSoFar, SetsSoFar, DepsSoFar
  <2>3. OmittedSoFar'
    <3>1. \A c \in TrivialPods : c \in Structs(lib) /\ Trivially(lib)[c]
      <4>1. \A c \in TrivialPods : c \in Classes(lib) /\ found[c].trivial
        BY DEF TrivialPods, Header, WellFormed
      <4> QED
        BY <2>1, <4>1, FoundIsHonestOfAll DEF Header
    <3> QED
      BY <3>1 DEF OmittedSoFar
  <2>4. FunctionsSoFar'
    <3>1. \A f \in DiscardDeleted(apis) : IsFunction(f)
      <4>1. \A f \in apis : IsFunction(f) /\ IsFunction([f EXCEPT !.ok = FALSE])
        BY IgnoredAreFunctions DEF FunctionsSoFar
      <4> QED
        BY <4>1 DEF DiscardDeleted
    <3>2. \A f \in Synthesized : IsFunction(f)
      BY <2>1, SynthesizedAreFunctions
    <3> QED
      BY <3>1, <3>2 DEF FunctionsSoFar, IsFunction
  <2> QED
    BY <2>2, <2>3, <2>4
<1>3. CASE MarkAbstract
  <2> USE <1>3 DEF MarkAbstract
  <2>1. Header' /\ pass' \in Passes /\ FoundSoFar' /\ OmittedSoFar' /\ VirtualsSoFar' /\ DepsSoFar'
    BY DEF Header, Passes, FoundSoFar, OmittedSoFar, VirtualsSoFar, DepsSoFar
  <2>2. SetsSoFar'
    BY AbstractAreStructs DEF SetsSoFar, Header
  <2>3. FunctionsSoFar'
    BY DEF FunctionsSoFar, IsFunction
  <2> QED
    BY <2>1, <2>2, <2>3
<1>4. CASE RemoveOwnership
  <2> USE <1>4 DEF RemoveOwnership
  <2>1. /\ Header' /\ pass' \in Passes /\ FoundSoFar' /\ OmittedSoFar' /\ VirtualsSoFar'
        /\ SetsSoFar' /\ DepsSoFar'
    BY DEF Header, Passes, FoundSoFar, OmittedSoFar, VirtualsSoFar, SetsSoFar, DepsSoFar
  <2>2. FunctionsSoFar'
    <3>1. \A f \in apis : IsFunction(f) /\ IsFunction([f EXCEPT !.ok = FALSE])
      BY IgnoredAreFunctions DEF FunctionsSoFar
    <3>2. \A f \in apis' : IsFunction(f)
      BY <3>1
    <3> QED
      BY <3>2 DEF FunctionsSoFar, IsFunction
  <2> QED
    BY <2>1, <2>2
<1>5. CASE Decorate
  <2> USE <1>5 DEF Decorate
  <2>1. /\ Header' /\ pass' \in Passes /\ FoundSoFar' /\ OmittedSoFar' /\ VirtualsSoFar'
        /\ SetsSoFar'
    BY DEF Header, Passes, FoundSoFar, OmittedSoFar, VirtualsSoFar, SetsSoFar
  <2>2. FunctionsSoFar'
    BY DEF FunctionsSoFar, IsFunction
  <2>3. DepsSoFar'
    <3>1. DOMAIN deps' = structs \cup lib.concrete
      OBVIOUS
    <3>2. \A c \in DOMAIN deps' : deps'[c] \subseteq {f \in apis : f.ok}
      BY DEF Important
    <3> QED
      BY <3>1, <3>2 DEF DepsSoFar
  <2> QED
    BY <2>1, <2>2, <2>3
<1>6. CASE DiscardIgnored
  <2> USE <1>6 DEF DiscardIgnored
  <2>1. /\ Header' /\ pass' \in Passes /\ FoundSoFar' /\ OmittedSoFar' /\ VirtualsSoFar'
        /\ SetsSoFar' /\ DepsSoFar'
    BY DEF Header, Passes, FoundSoFar, OmittedSoFar, VirtualsSoFar, SetsSoFar, DepsSoFar
  <2>2. FunctionsSoFar'
    BY DEF FunctionsSoFar, IsFunction
  <2> QED
    BY <2>1, <2>2
<1>7. CASE UNCHANGED vars
  BY <1>7 DEF vars, Header, FoundSoFar, OmittedSoFar, VirtualsSoFar, FunctionsSoFar, IsFunction,
              SetsSoFar, DepsSoFar
<1> QED
  BY <1>1, <1>2, <1>3, <1>4, <1>5, <1>6, <1>7 DEF Next

LEMMA Always == Spec => []SoFar
  BY AtFirst, EachPass, PTL DEF Spec

(* Every variable keeps its type.                                              *)
THEOREM TypeCorrect == Spec => []TypeOK
<1>1. SoFar => TypeOK
  <2> SUFFICES ASSUME SoFar PROVE TypeOK
    OBVIOUS
  <2> USE DEF SoFar
  <2>1. pass \in Passes /\ pass \in {"find", "add", "abstract", "own", "decorate", "discard", "done"}
    BY DEF Passes
  <2>2. /\ DOMAIN found = IF pass = "find" THEN {} ELSE Classes(lib)
        /\ \A c \in DOMAIN found : Typed(found[c])
    <3>1. CASE pass = "find"
      <4>1. DOMAIN found = {}
        BY <3>1 DEF FoundSoFar
      <4> QED
        BY <3>1, <4>1
    <3>2. CASE pass # "find"
      <4>1. found = FindConstructorsPresent(lib)
        BY <3>2 DEF FoundSoFar
      <4>2. DOMAIN found = Classes(lib) /\ \A c \in Classes(lib) : Typed(found[c])
        BY <4>1, FoundAreTyped DEF Header
      <4> QED
        BY <3>2, <4>2
    <3> QED
      BY <3>1, <3>2
  <2>3. \A f \in apis : f.of \in Classes(lib) /\ f.ok \in BOOLEAN
    BY DEF FunctionsSoFar, IsFunction
  <2>4. structs \cup omitted \cup abstract \subseteq Structs(lib)
    BY DEF SetsSoFar, OmittedSoFar
  <2>5. virtuals \subseteq Structs(lib)
    BY VirtualDestructorsAreCpps DEF VirtualsSoFar, Header
  <2>6. DOMAIN deps \subseteq structs \cup lib.concrete
    BY DEF DepsSoFar
  <2> QED
    BY <2>1, <2>2, <2>3, <2>4, <2>5, <2>6 DEF TypeOK, Typed
<1> QED
  BY <1>1, Always, PTL

(* What is known of destructors is so: one is called virtual exactly when C++  *)
(* makes it so, and one which is left out as trivial does nothing, which       *)
(* generate_trivial_destructor_assertion leaves to the C++ compiler to check.  *)
THEOREM DestructorsKnown == Spec => []DestructorsAreKnown
<1>1. SoFar => DestructorsAreKnown
  <2> SUFFICES ASSUME SoFar, Done PROVE DestructorsAreKnown
    BY DEF DestructorsAreKnown, VirtualDestructorsExactly, OmittedDestructorsAreTrivial
  <2> USE DEF SoFar
  <2>1. virtuals = CppVirtualDestructors(lib) \cap Structs(lib)
    BY VirtualDestructorsAreCpps DEF VirtualsSoFar, Header, Done
  <2>2. \A c \in omitted : Trivially(lib)[c]
    BY DEF OmittedSoFar
  <2> QED
    BY <2>1, <2>2 DEF DestructorsAreKnown, VirtualDestructorsExactly, OmittedDestructorsAreTrivial
<1> QED
  BY <1>1, Always, PTL

(* What a class is recorded to depend on is still there in the end.            *)
THEOREM DependenciesRemain == Spec => []DepsAreOffered
<1>1. SoFar => DepsAreOffered
  <2> SUFFICES ASSUME SoFar, Done PROVE \A c \in DOMAIN deps : deps[c] \subseteq apis
    BY DEF DepsAreOffered
  <2> QED
    BY DEF SoFar, DepsSoFar, Done
<1> QED
  BY <1>1, Always, PTL

(* Every class has been analyzed when the first pass is over, whatever the     *)
(* order in which bindgen lists them: no class is awaited for ever.            *)
THEOREM EveryClassIsAnalyzed == Spec => [](pass # "find" => DOMAIN found = Classes(lib))
<1>1. SoFar => (pass # "find" => DOMAIN found = Classes(lib))
  BY FoundIsHonestOfAll DEF SoFar, FoundSoFar, Header
<1> QED
  BY <1>1, Always, PTL
=============================================================================

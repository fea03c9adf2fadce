-------------------------- MODULE BindgenParseProofs --------------------------
(* Proofs about BindgenParse, for every block and every header bindgen may      *)
(* find for it: no declaration vanishes between what bindgen emits and the      *)
(* list of APIs.                                                                *)
EXTENDS BindgenParse, FiniteSetTheorems, SequenceTheorems, WellFoundedInduction, TLAPS

(* Induction, as a fact about sets. *)
LEMMA Induction ==
    ASSUME NEW S \in SUBSET Nat, 0 \in S, \A k \in S : k + 1 \in S
    PROVE  S = Nat
<1>1. SUFFICES ASSUME Nat \ S # {} PROVE FALSE
  OBVIOUS
<1>2. PICK m \in Nat \ S : \A k \in Nat \ S : ~(<<k, m>> \in OpToRel(<, Nat))
  BY <1>1, NatLessThanWellFounded, WFMin
<1>3. \A k \in Nat \ S : ~(k < m)
  BY <1>2 DEF OpToRel
<1>4. m # 0 /\ m - 1 \in Nat /\ m - 1 < m
  OBVIOUS
<1>5. m - 1 \in S /\ (m - 1) + 1 = m
  BY <1>3, <1>4
<1> QED
  BY <1>5

-----------------------------------------------------------------------------
(* Lists, whatever they are of. *)
Listed(v) == v \in Seq(ToSet(v))

LEMMA ListedOf == ASSUME NEW S, NEW v \in Seq(S) PROVE Listed(v) /\ ToSet(v) \subseteq S
<1>1. Len(v) \in Nat /\ v \in [1..Len(v) -> S] /\ DOMAIN v = 1..Len(v)
  OBVIOUS
<1>2. v \in [1..Len(v) -> ToSet(v)]
  BY <1>1 DEF ToSet
<1>3. v \in Seq(ToSet(v))
  BY <1>1, <1>2, SeqDef
<1> QED
  BY <1>1, <1>3 DEF Listed, ToSet

LEMMA ListedIn == ASSUME NEW v, Listed(v), NEW S, ToSet(v) \subseteq S PROVE v \in Seq(S)
<1>1. Len(v) \in Nat /\ v \in [1..Len(v) -> ToSet(v)]
  BY DEF Listed
<1>2. v \in [1..Len(v) -> S]
  BY <1>1
<1> QED
  BY <1>1, <1>2, SeqDef

LEMMA ListedMeans ==
    ASSUME NEW v, Listed(v)
    PROVE  Len(v) \in Nat /\ DOMAIN v = 1..Len(v)
  BY DEF Listed

LEMMA NothingListed == Listed(<<>>) /\ Names(<<>>) = {} /\ ToSet(<<>>) = {} /\ Len(<<>>) = 0
<1> DEFINE none == <<>>
           nobody == {}
<1>1. none \in Seq(nobody) /\ DOMAIN none = nobody /\ Len(none) = 0
  OBVIOUS
<1> HIDE DEF none, nobody
<1>2. Listed(none) /\ ToSet(none) \subseteq nobody
  BY <1>1, ListedOf
<1>3. Names(none) \subseteq nobody
  BY <1>1 DEF Names, nobody
<1> QED
  BY <1>1, <1>2, <1>3 DEF none, nobody

LEMMA ListedAppend ==
    ASSUME NEW v, Listed(v), NEW x
    PROVE  /\ Listed(Append(v, x)) /\ Len(Append(v, x)) = Len(v) + 1
           /\ ToSet(Append(v, x)) = ToSet(v) \cup {x}
           /\ Names(Append(v, x)) = Names(v) \cup {x.name}
           /\ \A i \in DOMAIN v : Append(v, x)[i] = v[i]
           /\ Append(v, x)[Len(v) + 1] = x
<1> DEFINE S == ToSet(v) \cup {x}
           w == Append(v, x)
<1>1. v \in Seq(S) /\ x \in S
  BY ListedIn
<1>2. /\ w \in Seq(S) /\ Len(w) = Len(v) + 1 /\ DOMAIN w = 1..Len(v) + 1 /\ DOMAIN v = 1..Len(v)
      /\ Len(v) \in Nat
      /\ \A i \in 1..Len(v) : w[i] = v[i]
      /\ w[Len(v) + 1] = x
  BY <1>1
<1>3. Listed(w)
  BY <1>2, ListedOf
<1> HIDE DEF w, S
<1>4. DOMAIN w = DOMAIN v \cup {Len(v) + 1}
  BY <1>2
<1>5. ToSet(w) = ToSet(v) \cup {x}
  BY <1>2, <1>4 DEF ToSet
<1>6. Names(w) = Names(v) \cup {x.name}
  BY <1>2, <1>4 DEF Names
<1> QED
  BY <1>2, <1>3, <1>5, <1>6 DEF w

LEMMA ListedConcat ==
    ASSUME NEW v, Listed(v), NEW w, Listed(w)
    PROVE  /\ Listed(v \o w)
           /\ ToSet(v \o w) = ToSet(v) \cup ToSet(w)
           /\ Names(v \o w) = Names(v) \cup Names(w)
<1> DEFINE S == ToSet(v) \cup ToSet(w)
           u == v \o w
<1>1. v \in Seq(S) /\ w \in Seq(S)
  BY ListedIn
<1>2. /\ u \in Seq(S) /\ DOMAIN u = 1..Len(v) + Len(w) /\ DOMAIN v = 1..Len(v) /\ DOMAIN w = 1..Len(w)
      /\ Len(v) \in Nat /\ Len(w) \in Nat
      /\ \A i \in 1..Len(v) + Len(w) : u[i] = IF i <= Len(v) THEN v[i] ELSE w[i - Len(v)]
  BY <1>1
<1>3. Listed(u)
  BY <1>2, ListedOf
<1> HIDE DEF u, S
<1>4. \A i \in DOMAIN v : i \in DOMAIN u /\ u[i] = v[i]
  BY <1>2
<1>5. \A i \in DOMAIN w : i + Len(v) \in DOMAIN u /\ u[i + Len(v)] = w[i]
  BY <1>2
<1>6. \A i \in DOMAIN u : (i \in DOMAIN v /\ u[i] = v[i])
                          \/ (i - Len(v) \in DOMAIN w /\ u[i] = w[i - Len(v)])
  BY <1>2
<1>7. ToSet(u) = ToSet(v) \cup ToSet(w)
  BY <1>4, <1>5, <1>6 DEF ToSet
<1>8. Names(u) = Names(v) \cup Names(w)
  BY <1>4, <1>5, <1>6 DEF Names
<1> QED
  BY <1>3, <1>7, <1>8 DEF u

LEMMA ListedHead ==
    ASSUME NEW v, Listed(v), v # <<>>
    PROVE  /\ Listed(Tail(v)) /\ ToSet(v) = {Head(v)} \cup ToSet(Tail(v))
<1> DEFINE S == ToSet(v)
           t == Tail(v)
<1>1. v \in Seq(S) /\ Len(v) \in Nat /\ Len(v) # 0 /\ DOMAIN v = 1..Len(v)
  BY DEF Listed
<1>2. t \in Seq(S) /\ DOMAIN t = 1..Len(v) - 1 /\ \A i \in 1..Len(v) - 1 : t[i] = v[i + 1]
  BY <1>1
<1>3. Head(v) = v[1]
  BY <1>1
<1> HIDE DEF t, S
<1>4. \A i \in DOMAIN t : i + 1 \in DOMAIN v /\ t[i] = v[i + 1]
  BY <1>1, <1>2
<1>5. \A i \in DOMAIN v : i = 1 \/ (i - 1 \in DOMAIN t /\ t[i - 1] = v[i])
  BY <1>1, <1>2
<1>6. 1 \in DOMAIN v
  BY <1>1
<1>7. ToSet(v) = {Head(v)} \cup ToSet(t)
  BY <1>3, <1>4, <1>5, <1>6 DEF ToSet
<1> QED
  BY <1>2, <1>7, ListedOf DEF t

LEMMA ListedFront ==
    ASSUME NEW v, Listed(v), v # <<>>
    PROVE  /\ Listed(Front(v)) /\ Len(v) \in Nat \ {0} /\ Len(Front(v)) = Len(v) - 1
           /\ \A i \in 1..Len(v) - 1 : Front(v)[i] = v[i]
           /\ Last(v) = v[Len(v)]
<1> DEFINE S == ToSet(v)
           t == Front(v)
<1>1. v \in Seq(S) /\ Len(v) \in Nat /\ Len(v) # 0 /\ DOMAIN v = 1..Len(v)
  BY DEF Listed
<1>2. t = SubSeq(v, 1, Len(v) - 1) /\ Last(v) = v[Len(v)]
  BY DEF Front, Last
<1>3. t \in Seq(S) /\ Len(t) = Len(v) - 1 /\ \A i \in 1..Len(v) - 1 : t[i] = v[i]
  BY <1>1, <1>2
<1> QED
  BY <1>1, <1>2, <1>3, ListedOf

LEMMA NamedAlike ==
    ASSUME NEW v, NEW w, Listed(v), Listed(w), Len(w) = Len(v),
           \A i \in DOMAIN v : w[i].name = v[i].name
    PROVE  Names(w) = Names(v)
<1>1. DOMAIN w = DOMAIN v
  BY ListedMeans
<1> QED
  BY <1>1 DEF Names
-----------------------------------------------------------------------------
(* The lists of ApiVec: no name is ever lost. *)
LEMMA WithoutUnfold ==
    ASSUME NEW v, Listed(v), NEW names
    PROVE  \E after : /\ after[0] = <<>>
                      /\ \A n \in 1..Len(v) : after[n] = IF v[n].name \in names THEN after[n - 1] ELSE Append(after[n - 1], v[n])
                      /\ WithoutAll(v, names) = after[Len(v)]
<1> DEFINE F(g, i) == IF v[i].name \in names THEN g[i - 1] ELSE Append(g[i - 1], v[i])
           Upto(g, n) == g = [i \in 0..n |-> IF i = 0 THEN <<>> ELSE F(g, i)]
           S == {n \in Nat : \E g : Upto(g, n)}
           after == CHOOSE g : Upto(g, Len(v))
<1>1. WithoutAll(v, names) = after[Len(v)]
  BY DEF WithoutAll
<1>8. ASSUME NEW g, NEW h, NEW i, g[i - 1] = h[i - 1] PROVE F(g, i) = F(h, i)
  BY <1>8
<1> HIDE DEF F
<1>2. 0 \in S
  <2>1. Upto([i \in 0..0 |-> <<>>], 0)
    OBVIOUS
  <2> QED
    BY <2>1
<1>3. ASSUME NEW n \in S PROVE n + 1 \in S
  <2>1. PICK g : Upto(g, n)
    OBVIOUS
  <2> DEFINE h == [i \in 0..n + 1 |-> IF i = n + 1 THEN F(g, n + 1) ELSE g[i]]
  <2>2. h[0] = <<>> /\ \A i \in 1..n + 1 : h[i - 1] = g[i - 1]
    BY <2>1
  <2>3. \A i \in 1..n + 1 : F(h, i) = F(g, i)
    BY <2>2, <1>8
  <2>4. \A i \in 1..n + 1 : h[i] = F(g, i)
    BY <2>1
  <2>7. \A i \in 0..n + 1 : h[i] = IF i = 0 THEN <<>> ELSE F(h, i)
    <3>1. ASSUME NEW i \in 0..n + 1 PROVE h[i] = IF i = 0 THEN <<>> ELSE F(h, i)
      <4>1. i = 0 \/ i \in 1..n + 1
        OBVIOUS
      <4> QED
        BY <2>2, <2>3, <2>4, <4>1
    <3> QED
      BY <3>1
  <2>8. h = [i \in 0..n + 1 |-> h[i]]
    OBVIOUS
  <2> HIDE DEF h
  <2>5. Upto(h, n + 1)
    BY <2>7, <2>8
  <2>6. n + 1 \in Nat
    OBVIOUS
  <2> HIDE DEF Upto
  <2> QED
    BY <2>5, <2>6
<1>4. Len(v) \in Nat
  BY ListedMeans
<1> HIDE DEF Upto
<1>5. S = Nat
  BY <1>2, <1>3, Induction
<1>6. Upto(after, Len(v))
  BY <1>4, <1>5
<1> HIDE DEF after
<1>7. /\ after[0] = <<>>
      /\ \A n \in 1..Len(v) : after[n] = F(after, n)
  <2>1. 0 \in 0..Len(v) /\ \A n \in 1..Len(v) : n \in 0..Len(v) /\ n # 0
    BY <1>4
  <2> QED
    BY <1>6, <2>1 DEF Upto
<1> QED
  BY <1>1, <1>7 DEF F

LEMMA WithoutKeepsTheRest ==
    ASSUME NEW v, Listed(v), NEW names
    PROVE  /\ Listed(WithoutAll(v, names))
           /\ Names(WithoutAll(v, names)) = Names(v) \ names
           /\ ToSet(WithoutAll(v, names)) \subseteq ToSet(v)
<1>1. Len(v) \in Nat /\ DOMAIN v = 1..Len(v)
  BY ListedMeans
<1>2. PICK kept :
        /\ kept[0] = <<>>
        /\ \A n \in 1..Len(v) : kept[n] = IF v[n].name \in names THEN kept[n - 1] ELSE Append(kept[n - 1], v[n])
        /\ WithoutAll(v, names) = kept[Len(v)]
  BY WithoutUnfold
<1> DEFINE N == Len(v)
           Upto(n) == {v[i].name : i \in 1..n}
           P(n) == /\ Listed(kept[n]) /\ Names(kept[n]) = Upto(n) \ names
                   /\ ToSet(kept[n]) \subseteq ToSet(v)
           S == {n \in Nat : n <= N => P(n)}
<1>3. 0 \in S
  <2>1. Upto(0) = {}
    OBVIOUS
  <2> QED
    BY <1>2, <2>1, NothingListed
<1>4. ASSUME NEW n \in S PROVE n + 1 \in S
  <2>1. SUFFICES ASSUME n + 1 <= N PROVE P(n + 1)
    OBVIOUS
  <2>2. P(n) /\ n + 1 \in 1..Len(v) /\ (n + 1) - 1 = n
    BY <1>1, <2>1
  <2> DEFINE k == kept[n]
             x == v[n + 1]
  <2>3. kept[n + 1] = IF x.name \in names THEN k ELSE Append(k, x)
    BY <1>2, <2>2
  <2>4. Upto(n + 1) = Upto(n) \cup {x.name}
    <3>1. 1..n + 1 = (1..n) \cup {n + 1}
      OBVIOUS
    <3> QED
      BY <3>1
  <2>5. x \in ToSet(v)
    BY <1>1, <2>2 DEF ToSet
  <2> HIDE DEF Upto, x
  <2>6. Listed(k) /\ Names(k) = Upto(n) \ names /\ ToSet(k) \subseteq ToSet(v)
    BY <2>2
  <2> HIDE DEF k
  <2>7. CASE x.name \in names
    BY <2>3, <2>4, <2>6, <2>7
  <2>8. CASE x.name \notin names
    <3>1. /\ Listed(Append(k, x)) /\ Names(Append(k, x)) = Names(k) \cup {x.name}
          /\ ToSet(Append(k, x)) = ToSet(k) \cup {x}
      BY <2>6, ListedAppend
    <3> QED
      BY <2>3, <2>4, <2>5, <2>6, <2>8, <3>1
  <2> QED
    BY <2>7, <2>8
<1>5. S \in SUBSET Nat
  OBVIOUS
<1> HIDE DEF S
<1>6. S = Nat
  BY <1>3, <1>4, <1>5, Induction
<1> HIDE DEF P
<1>7. P(Len(v))
  BY <1>1, <1>6 DEF S
<1>8. Upto(Len(v)) = Names(v)
  BY <1>1 DEF Names
<1> QED
  BY <1>2, <1>7, <1>8 DEF P

LEMMA IgnoredIsNamed ==
    ASSUME NEW name, NEW err, NEW lookup PROVE Ignored(name, err, lookup).name = name
  BY DEF Ignored

LEMMA DisplacedAreRecorded ==
    ASSUME NEW v, Listed(v), NEW hidden
    PROVE  /\ Listed(RecordDisplacedFunction(v, hidden))
           /\ Names(v) \subseteq Names(RecordDisplacedFunction(v, hidden))
<1> DEFINE x == Ignored(FirstFreeName(v, Suffixed(hidden, "_autocxx_hidden")),
                        "function hidden by type", hidden)
<1>1. RecordDisplacedFunction(v, hidden) = Append(v, x)
  BY DEF RecordDisplacedFunction
<1> HIDE DEF x
<1> QED
  BY <1>1, ListedAppend

(* Pushing keeps every name there is, and adds the one which is pushed. *)
LEMMA PushKeepsNames ==
    ASSUME NEW v, Listed(v), NEW api
    PROVE  Listed(Push(v, api)) /\ Names(v) \cup {api.name} \subseteq Names(Push(v, api))
<1> DEFINE name == api.name
           without == Without(v, name)
           stub == CHOOSE i \in DOMAIN v : v[i].name = name
           duplicate == Ignored(name, "duplicate items found in parsing", name)
<1>1. Listed(without) /\ Names(without) = Names(v) \ {name}
  BY WithoutKeepsTheRest DEF Without
<1>2. Listed(Append(v, api)) /\ Names(Append(v, api)) = Names(v) \cup {name}
  BY ListedAppend
<1>3. duplicate.name = name
  BY IgnoredIsNamed
<1> HIDE DEF duplicate, without
<1>4. Listed(Append(without, api)) /\ Names(Append(without, api)) = Names(without) \cup {name}
  BY <1>1, ListedAppend
<1>5. Listed(Append(without, duplicate)) /\ Names(Append(without, duplicate)) = Names(without) \cup {name}
  BY <1>1, <1>3, ListedAppend
<1> DEFINE filed(w, lookup) == RecordDisplacedFunction(w, lookup)
           after == Push(v, api)
           with == Append(without, api)
           over == Append(without, duplicate)
           taken == name \in Names(v)
           displaced == IsDisplacedFunction(api)
           replaces == Holds(v, name, IsDisplacedFunction)
           silent == DiscardDuplicates(api)
           hidden == api.kind = "function" /\ Holds(v, name, IsUnshadowableType)
           hides == IsUnshadowableType(api) /\ Holds(v, name, LAMBDA held : held.kind = "function")
<1>6. after = CASE ~taken -> Append(v, api)
                [] taken /\ displaced -> filed(v, api.lookup)
                [] ~displaced /\ replaces -> filed(with, v[stub].lookup)
                [] OTHER -> CASE silent -> v
                              [] hidden -> filed(v, name)
                              [] hides -> filed(with, name)
                              [] OTHER -> over
  BY DEF Push, Holds, duplicate, without
<1>11. Listed(with) /\ Listed(over) /\ Names(v) \cup {name} \subseteq Names(with) \cap Names(over)
  BY <1>1, <1>4, <1>5
<1>12. Listed(Append(v, api)) /\ Names(v) \cup {name} \subseteq Names(Append(v, api))
  BY <1>2
<1>13. taken <=> name \in Names(v)
  OBVIOUS
<1>7. \A w, lookup : Listed(w) => Listed(filed(w, lookup)) /\ Names(w) \subseteq Names(filed(w, lookup))
  BY DisplacedAreRecorded
<1>15. SUFFICES Listed(after) /\ Names(v) \cup {name} \subseteq Names(after)
  OBVIOUS
<1> HIDE DEF after, filed, name, with, over, taken, displaced, replaces, silent, hidden, hides, stub
<1>9. \A w, lookup : /\ Listed(w) /\ Names(v) \cup {name} \subseteq Names(w) /\ after = filed(w, lookup)
                     => Listed(after) /\ Names(v) \cup {name} \subseteq Names(after)
  BY <1>7
<1>10. CASE ~taken
  <2>1. after = Append(v, api)
    <3> DEFINE otherwise == CASE silent -> v
                              [] hidden -> filed(v, name)
                              [] hides -> filed(with, name)
                              [] OTHER -> over
    <3>1. after = CASE ~taken -> Append(v, api)
                    [] taken /\ displaced -> filed(v, api.lookup)
                    [] ~displaced /\ replaces -> filed(with, v[stub].lookup)
                    [] OTHER -> otherwise
      BY <1>6
    <3> HIDE DEF otherwise
    <3>2. ~(~displaced /\ replaces)
      BY <1>10 DEF replaces, taken, Holds, Names
    <3> QED
      BY <1>10, <3>1, <3>2
  <2> QED
    BY <1>12, <2>1
<1>14. CASE taken
  <2>1. \/ \E lookup : after = filed(v, lookup) \/ after = filed(with, lookup)
        \/ after = v \/ after = over
    BY <1>6, <1>14
  <2>2. Names(v) \cup {name} \subseteq Names(v)
    BY <1>13, <1>14
  <2> QED
    BY <1>9, <1>11, <2>1, <2>2
<1> QED
  BY <1>10, <1>14

LEMMA PushAllUnfold ==
    ASSUME NEW v, NEW more, Listed(more)
    PROVE  \E after : /\ after[0] = v
                      /\ \A n \in 1..Len(more) : after[n] = Push(after[n - 1], more[n])
                      /\ PushAll(v, more) = after[Len(more)]
<1> DEFINE F(g, i) == Push(g[i - 1], more[i])
           Upto(g, n) == g = [i \in 0..n |-> IF i = 0 THEN v ELSE F(g, i)]
           S == {n \in Nat : \E g : Upto(g, n)}
           after == CHOOSE g : Upto(g, Len(more))
<1>1. PushAll(v, more) = after[Len(more)]
  BY DEF PushAll
<1>8. ASSUME NEW g, NEW h, NEW i, g[i - 1] = h[i - 1] PROVE F(g, i) = F(h, i)
  BY <1>8
<1> HIDE DEF F
<1>2. 0 \in S
  <2>1. Upto([i \in 0..0 |-> v], 0)
    OBVIOUS
  <2> QED
    BY <2>1
<1>3. ASSUME NEW n \in S PROVE n + 1 \in S
  <2>1. PICK g : Upto(g, n)
    OBVIOUS
  <2> DEFINE h == [i \in 0..n + 1 |-> IF i = n + 1 THEN F(g, n + 1) ELSE g[i]]
  <2>2. h[0] = v /\ \A i \in 1..n + 1 : h[i - 1] = g[i - 1]
    BY <2>1
  <2>3. \A i \in 1..n + 1 : F(h, i) = F(g, i)
    BY <2>2, <1>8
  <2>4. \A i \in 1..n + 1 : h[i] = F(g, i)
    BY <2>1, SMTT(60)
  <2>7. \A i \in 0..n + 1 : h[i] = IF i = 0 THEN v ELSE F(h, i)
    <3>1. ASSUME NEW i \in 0..n + 1 PROVE h[i] = IF i = 0 THEN v ELSE F(h, i)
      <4>1. i = 0 \/ i \in 1..n + 1
        OBVIOUS
      <4> QED
        BY <2>2, <2>3, <2>4, <4>1
    <3> QED
      BY <3>1
  <2>8. h = [i \in 0..n + 1 |-> h[i]]
    OBVIOUS
  <2> HIDE DEF h
  <2>5. Upto(h, n + 1)
    BY <2>7, <2>8
  <2>6. n + 1 \in Nat
    OBVIOUS
  <2> HIDE DEF Upto
  <2> QED
    BY <2>5, <2>6
<1>4. Len(more) \in Nat
  BY ListedMeans
<1> HIDE DEF Upto
<1>5. S = Nat
  BY <1>2, <1>3, Induction
<1>6. Upto(after, Len(more))
  BY <1>4, <1>5
<1> HIDE DEF after
<1>7. /\ after[0] = v
      /\ \A n \in 1..Len(more) : after[n] = F(after, n)
  <2>1. 0 \in 0..Len(more) /\ \A n \in 1..Len(more) : n \in 0..Len(more) /\ n # 0
    BY <1>4
  <2> QED
    BY <1>6, <2>1 DEF Upto
<1> QED
  BY <1>1, <1>7 DEF F

LEMMA PushAllKeepsNames ==
    ASSUME NEW v, Listed(v), NEW more, Listed(more)
    PROVE  Listed(PushAll(v, more)) /\ Names(v) \cup Names(more) \subseteq Names(PushAll(v, more))
<1>1. Len(more) \in Nat /\ DOMAIN more = 1..Len(more)
  BY ListedMeans
<1>2. PICK pushed :
        /\ pushed[0] = v
        /\ \A n \in 1..Len(more) : pushed[n] = Push(pushed[n - 1], more[n])
        /\ PushAll(v, more) = pushed[Len(more)]
  BY PushAllUnfold
<1> DEFINE N == Len(more)
           P(n) == /\ Listed(pushed[n]) /\ Names(v) \subseteq Names(pushed[n])
                   /\ \A i \in 1..n : more[i].name \in Names(pushed[n])
           S == {n \in Nat : n <= N => P(n)}
<1>3. 0 \in S
  BY <1>2
<1>4. ASSUME NEW n \in S PROVE n + 1 \in S
  <2>1. SUFFICES ASSUME n + 1 <= N PROVE P(n + 1)
    OBVIOUS
  <2>2. P(n) /\ n + 1 \in 1..Len(more) /\ (n + 1) - 1 = n
    BY <1>1, <2>1
  <2> DEFINE k == pushed[n]
             m == pushed[n + 1]
             x == more[n + 1]
  <2>3. m = Push(k, x)
    BY <1>2, <2>2
  <2>4. /\ Listed(k) /\ Names(v) \subseteq Names(k)
        /\ \A i \in 1..n : more[i].name \in Names(k)
    BY <2>2
  <2>5. \A i \in 1..n + 1 : i \in 1..n \/ more[i] = x
    OBVIOUS
  <2> HIDE DEF k, m, x
  <2>6. Listed(m) /\ Names(k) \cup {x.name} \subseteq Names(m)
    BY <2>3, <2>4, PushKeepsNames
  <2>7. \A i \in 1..n + 1 : more[i].name \in Names(m)
    BY <2>4, <2>5, <2>6
  <2>8. Names(v) \subseteq Names(m)
    BY <2>4, <2>6
  <2> QED
    BY <2>6, <2>7, <2>8 DEF m
<1>5. S \in SUBSET Nat
  OBVIOUS
<1> HIDE DEF S
<1>6. S = Nat
  BY <1>3, <1>4, <1>5, Induction
<1> HIDE DEF P
<1>7. P(Len(more))
  BY <1>1, <1>6 DEF S
<1>8. Names(more) \subseteq Names(pushed[Len(more)])
  BY <1>1, <1>7 DEF Names, P
<1> QED
  BY <1>2, <1>7, <1>8 DEF P

-----------------------------------------------------------------------------
(* Sets written out as lists. *)
LEMMA SetsAreListed ==
    ASSUME NEW S, IsFiniteSet(S)
    PROVE  Listed(SetToSeq(S)) /\ ToSet(SetToSeq(S)) = S
<1> DEFINE N == Cardinality(S)
           f == SetToSeq(S)
<1>1. N \in Nat /\ \E g \in [1..N -> S] : IsInjective(g)
  BY FS_CardinalityType DEF ExistsBijection, Bijection, Injection
<1>2. f \in [1..N -> S] /\ IsInjective(f)
  BY <1>1 DEF SetToSeq
<1>3. f \in Injection(1..N, S)
  BY <1>2 DEF Injection
<1>4. Cardinality(1..N) = N
  BY <1>1, FS_Interval
<1>5. f \in Surjection(1..N, S)
  BY <1>3, <1>4, FS_Injection
<1>6. \A x \in S : \E i \in 1..N : f[i] = x
  BY <1>5 DEF Surjection
<1>7. f \in Seq(S)
  BY <1>1, <1>2, SeqDef
<1> HIDE DEF f, N
<1>8. DOMAIN f = 1..N
  BY <1>2
<1>9. ToSet(f) = S
  BY <1>2, <1>6, <1>8 DEF ToSet
<1> QED
  BY <1>7, <1>9, ListedOf DEF f

(* Items by their ids. *)
LEMMA IdOrderIsAllOfThem ==
    ASSUME NEW items, IsFiniteSet(items), \A item \in items : item.id \in Int,
           \A item, other \in items : item.id = other.id => item = other
    PROVE  Listed(InIdOrder(items)) /\ ToSet(InIdOrder(items)) = items
<1> DEFINE N == Cardinality(items)
           Lower(x) == {other \in items : other.id < x.id}
           rank == [x \in items |-> Cardinality(Lower(x))]
           at(k) == CHOOSE item \in items : Cardinality({other \in items : other.id < item.id}) = k - 1
           f == InIdOrder(items)
<1>1. N \in Nat
  BY FS_CardinalityType
<1>2. f = [k \in 1..N |-> at(k)]
  BY DEF InIdOrder
<1>3. ASSUME NEW x \in items PROVE rank[x] \in 0..N - 1
  <2>1. Lower(x) \in SUBSET items /\ x \notin Lower(x)
    BY <1>3
  <2> HIDE DEF Lower
  <2>2. IsFiniteSet(Lower(x)) /\ Cardinality(Lower(x)) <= N /\ Cardinality(Lower(x)) # N
    BY <2>1, FS_Subset
  <2>3. Cardinality(Lower(x)) \in Nat
    BY <2>2, FS_CardinalityType
  <2> QED
    BY <1>1, <2>2, <2>3
<1>4. ASSUME NEW x \in items, NEW y \in items, x.id < y.id PROVE rank[x] < rank[y]
  <2>1. Lower(y) \in SUBSET items /\ Lower(x) \in SUBSET Lower(y)
    BY <1>4
  <2>2. x \in Lower(y) /\ x \notin Lower(x)
    BY <1>4
  <2> HIDE DEF Lower
  <2>3. IsFiniteSet(Lower(y))
    BY <2>1, FS_Subset
  <2>4. /\ IsFiniteSet(Lower(x)) /\ Cardinality(Lower(x)) <= Cardinality(Lower(y))
        /\ Cardinality(Lower(x)) # Cardinality(Lower(y))
    BY <2>1, <2>2, <2>3, FS_Subset
  <2>5. Cardinality(Lower(x)) \in Nat /\ Cardinality(Lower(y)) \in Nat
    BY <2>3, <2>4, FS_CardinalityType
  <2> QED
    BY <2>4, <2>5
<1>5. \A x \in items : rank[x] = Cardinality({other \in items : other.id < x.id})
  OBVIOUS
<1>6. rank \in [items -> 0..N - 1]
  BY <1>3
<1> HIDE DEF rank
<1>7. ASSUME NEW x \in items, NEW y \in items, rank[x] = rank[y] PROVE x = y
  <2>1. x.id = y.id \/ x.id < y.id \/ y.id < x.id
    OBVIOUS
  <2>2. rank[x] \in Int /\ rank[y] \in Int
    BY <1>6
  <2> QED
    BY <1>4, <1>7, <2>1, <2>2
<1>8. rank \in Injection(items, 0..N - 1)
  BY <1>6, <1>7 DEF Injection, IsInjective
<1>9. IsFiniteSet(0..N - 1) /\ Cardinality(0..N - 1) = N
  BY <1>1, FS_Interval
<1>10. rank \in Surjection(items, 0..N - 1)
  BY <1>8, <1>9, FS_Injection
<1>11. \A k \in 1..N : \E x \in items : rank[x] = k - 1
  BY <1>1, <1>10 DEF Surjection
<1>12. \A k \in 1..N : at(k) \in items /\ rank[at(k)] = k - 1
  BY <1>5, <1>11
<1> HIDE DEF at
<1>13. f \in [1..N -> items]
  BY <1>2, <1>12
<1>14. ASSUME NEW x \in items PROVE \E k \in 1..N : f[k] = x
  <2>1. rank[x] + 1 \in 1..N /\ (rank[x] + 1) - 1 = rank[x]
    BY <1>1, <1>3 DEF rank
  <2>2. f[rank[x] + 1] = x
    BY <1>2, <1>7, <1>12, <2>1
  <2> QED
    BY <2>1, <2>2
<1>15. f \in Seq(items)
  BY <1>1, <1>13, SeqDef
<1> HIDE DEF f
<1>16. ToSet(f) = items
  BY <1>13, <1>14 DEF ToSet
<1> QED
  BY <1>15, <1>16, ListedOf DEF f

(* Lists of lists, one after the other. *)
LEMMA FlattenUnfold ==
    ASSUME NEW seqs, Listed(seqs), Len(seqs) # 0
    PROVE  \E flat : /\ flat[1] = seqs[1]
                     /\ \A n \in 2..Len(seqs) : flat[n] = flat[n - 1] \o seqs[n]
                     /\ FlattenSeq(seqs) = flat[Len(seqs)]
<1> DEFINE Upto(g, n) == g = [i \in 1..n |-> IF i = 1 THEN seqs[i] ELSE g[i - 1] \o seqs[i]]
           S == {n \in Nat : \E g : Upto(g, n)}
           flat == CHOOSE g : Upto(g, Len(seqs))
<1>1. FlattenSeq(seqs) = flat[Len(seqs)]
  BY DEF FlattenSeq
<1>2. 0 \in S
  <2> DEFINE g == [i \in 1..0 |-> seqs[i]]
  <2>1. Upto(g, 0)
    OBVIOUS
  <2> QED
    BY <2>1
<1>3. ASSUME NEW n \in S PROVE n + 1 \in S
  <2>1. PICK g : Upto(g, n)
    OBVIOUS
  <2> DEFINE h == [i \in 1..n + 1 |-> IF i = 1 THEN seqs[1] ELSE IF i = n + 1 THEN g[n] \o seqs[n + 1] ELSE g[i]]
  <2>2. \A i \in 1..n : h[i] = g[i]
    BY <2>1
  <2>3. /\ h = [i \in 1..n + 1 |-> h[i]] /\ h[1] = seqs[1]
        /\ n + 1 # 1 => h[n + 1] = g[n] \o seqs[n + 1]
    <3>1. n \in Nat /\ 1 \in 1..n + 1 /\ n + 1 \in 1..n + 1
      OBVIOUS
    <3>2. h[1] = seqs[1]
      BY <3>1
    <3>3. n + 1 # 1 => h[n + 1] = g[n] \o seqs[n + 1]
      BY <3>1
    <3>4. h = [i \in 1..n + 1 |-> h[i]]
      OBVIOUS
    <3> QED
      BY <3>2, <3>3, <3>4
  <2>4. \A i \in 1..n : g[i] = IF i = 1 THEN seqs[i] ELSE g[i - 1] \o seqs[i]
    BY <2>1
  <2> HIDE DEF h, Upto
  <2>5. ASSUME NEW i \in 1..n + 1
        PROVE  h[i] = IF i = 1 THEN seqs[i] ELSE h[i - 1] \o seqs[i]
    <3>1. CASE i = 1
      BY <2>3, <3>1
    <3>2. CASE i # 1
      <4>1. i - 1 \in 1..n
        BY <3>2
      <4>2. h[i - 1] = g[i - 1]
        BY <2>2, <4>1
      <4>3. CASE i = n + 1
        <5>1. n = i - 1
          BY <4>3
        <5> QED
          BY <2>3, <3>2, <4>2, <4>3, <5>1
      <4>4. CASE i # n + 1
        <5>1. i \in 1..n
          BY <4>4
        <5> QED
          BY <2>2, <2>4, <3>2, <4>2, <5>1
      <4> QED
        BY <4>3, <4>4
    <3> QED
      BY <3>1, <3>2
  <2>6. Upto(h, n + 1)
    BY <2>3, <2>5 DEF Upto
  <2>7. n + 1 \in Nat
    OBVIOUS
  <2> QED
    BY <2>6, <2>7
<1>4. Len(seqs) \in Nat
  BY ListedMeans
<1> HIDE DEF Upto
<1>5. S = Nat
  BY <1>2, <1>3, Induction
<1>6. Upto(flat, Len(seqs))
  BY <1>4, <1>5
<1> HIDE DEF flat
<1>7. flat[1] = seqs[1] /\ \A n \in 2..Len(seqs) : flat[n] = flat[n - 1] \o seqs[n]
  <2>1. 1 \in 1..Len(seqs) /\ \A n \in 2..Len(seqs) : n \in 1..Len(seqs) /\ n # 1
    BY <1>4
  <2> QED
    BY <1>6, <2>1 DEF Upto
<1> QED
  BY <1>1, <1>7

LEMMA FlattenedIsAllOfThem ==
    ASSUME NEW seqs, Listed(seqs), \A i \in DOMAIN seqs : Listed(seqs[i])
    PROVE  /\ Listed(FlattenSeq(seqs))
           /\ ToSet(FlattenSeq(seqs)) = UNION {ToSet(seqs[i]) : i \in DOMAIN seqs}
<1>1. Len(seqs) \in Nat /\ DOMAIN seqs = 1..Len(seqs)
  BY ListedMeans
<1>2. CASE Len(seqs) = 0
  <2>1. FlattenSeq(seqs) = seqs
    BY <1>2 DEF FlattenSeq
  <2>2. DOMAIN seqs = {}
    BY <1>1, <1>2
  <2> QED
    BY <2>1, <2>2 DEF ToSet
<1>3. CASE Len(seqs) # 0
  <2>1. PICK flat : /\ flat[1] = seqs[1]
                    /\ \A n \in 2..Len(seqs) : flat[n] = flat[n - 1] \o seqs[n]
                    /\ FlattenSeq(seqs) = flat[Len(seqs)]
    BY <1>3, FlattenUnfold
  <2> DEFINE N == Len(seqs)
             Upto(n) == UNION {ToSet(seqs[i]) : i \in 1..n}
             P(n) == Listed(flat[n]) /\ ToSet(flat[n]) = Upto(n)
             S == {n \in Nat : n # 0 /\ n <= N => P(n)}
  <2>2. 0 \in S
    OBVIOUS
  <2>3. ASSUME NEW n \in S PROVE n + 1 \in S
    <3>1. SUFFICES ASSUME n + 1 <= N PROVE P(n + 1)
      OBVIOUS
    <3>2. Upto(n + 1) = Upto(n) \cup ToSet(seqs[n + 1])
      <4>1. 1..n + 1 = (1..n) \cup {n + 1}
        OBVIOUS
      <4> QED
        BY <4>1
    <3>3. n + 1 \in DOMAIN seqs
      BY <1>1, <3>1
    <3>4. CASE n = 0
      <4>1. Upto(0) = {}
        OBVIOUS
      <4>2. flat[n + 1] = seqs[n + 1]
        BY <2>1, <3>4
      <4> HIDE DEF Upto
      <4> QED
        BY <3>2, <3>3, <3>4, <4>1, <4>2
    <3>5. CASE n # 0
      <4>1. P(n) /\ n + 1 \in 2..Len(seqs) /\ (n + 1) - 1 = n
        BY <1>1, <3>1, <3>5
      <4>2. flat[n + 1] = flat[n] \o seqs[n + 1]
        BY <2>1, <4>1
      <4> HIDE DEF Upto
      <4> QED
        BY <3>2, <3>3, <4>1, <4>2, ListedConcat, ZenonT(60)
    <3> QED
      BY <3>4, <3>5
  <2>4. S \in SUBSET Nat
    OBVIOUS
  <2> HIDE DEF S
  <2>5. S = Nat
    BY <2>2, <2>3, <2>4, Induction
  <2> HIDE DEF P
  <2>6. P(Len(seqs))
    BY <1>1, <1>3, <2>5 DEF S
  <2> QED
    BY <1>1, <2>1, <2>6 DEF P
<1> QED
  BY <1>2, <1>3
-----------------------------------------------------------------------------
(* Headers. *)
LEMMA FiniteIsBounded ==
    ASSUME NEW T, IsFiniteSet(T), T \subseteq Nat
    PROVE  \E b \in Nat : \A x \in T : x <= b
<1> DEFINE Bounded(U) == \E b \in Nat : \A x \in U : x <= b
           S == {k \in Nat : \A U : IsFiniteSet(U) /\ U \subseteq Nat /\ Cardinality(U) = k => Bounded(U)}
<1>1. 0 \in S
  <2>1. ASSUME NEW U, IsFiniteSet(U), Cardinality(U) = 0 PROVE Bounded(U)
    <3>1. U = {}
      BY <2>1, FS_EmptySet
    <3> QED
      BY <3>1
  <2> QED
    BY <2>1
<1>2. ASSUME NEW k \in S PROVE k + 1 \in S
  <2>1. ASSUME NEW U, IsFiniteSet(U), U \subseteq Nat, Cardinality(U) = k + 1 PROVE Bounded(U)
    <3>1. U # {}
      BY <2>1, FS_EmptySet
    <3>2. PICK x \in U : TRUE
      BY <3>1
    <3> DEFINE V == U \ {x}
    <3>3. IsFiniteSet(V) /\ Cardinality(V) = k /\ V \subseteq Nat
      <4>1. IsFiniteSet(V) /\ Cardinality(V) = Cardinality(U) - 1
        BY <2>1, <3>2, FS_RemoveElement
      <4> QED
        BY <2>1, <4>1
    <3>4. PICK b \in Nat : \A y \in V : y <= b
      BY <3>3
    <3>5. x \in Nat /\ \A y \in U : y = x \/ y <= b
      BY <2>1, <3>4
    <3> DEFINE c == IF x <= b THEN b ELSE x
    <3>6. c \in Nat /\ \A y \in U : y <= c
      BY <2>1, <3>5
    <3> QED
      BY <3>6
  <2> HIDE DEF Bounded
  <2> QED
    BY <2>1
<1>3. S \in SUBSET Nat
  OBVIOUS
<1> HIDE DEF S, Bounded
<1>4. S = Nat
  BY <1>1, <1>2, <1>3, Induction
<1>5. Cardinality(T) \in S
  BY <1>4, FS_CardinalityType
<1> QED
  BY <1>5 DEF S, Bounded

Ids(h) == {item.id : item \in h.items}
ItemIn(h, id) == CHOOSE i \in h.items : i.id = id

LEMMA ItemsById ==
    ASSUME NEW h, WellFormed(h), NEW item \in h.items
    PROVE  /\ ItemIn(h, item.id) = item /\ item.id \in Nat \ {0}
           /\ item.parent \in Nat /\ item.parent < item.id
           /\ item.parent \in {RootMod} \cup Ids(h)
<1>1. \A i, j \in h.items : i.id = j.id => i = j
  BY DEF WellFormed
<1>2. ItemIn(h, item.id) = item
  BY <1>1 DEF ItemIn
<1>3. item.parent \in {i.id : i \in {j \in h.items : j.kind = "mod"}} \cup {RootMod}
  BY DEF WellFormed
<1>4. \A i \in h.items : i.id \in Nat \ {RootMod}
  BY DEF WellFormed
<1>5. item.parent < item.id
  BY DEF WellFormed
<1>6. item.parent \in Ids(h) \/ item.parent = RootMod
  BY <1>3 DEF Ids
<1> QED
  BY <1>2, <1>4, <1>5, <1>6 DEF Ids, RootMod

LEMMA PathUnfold ==
    ASSUME NEW h, WellFormed(h)
    PROVE  \E path : /\ path[RootMod] = <<>>
                     /\ \A item \in h.items : path[item.id] = Append(path[item.parent], Written(item.ident))
                     /\ \A id : PathOf(h, id) = path[id]
<1> DEFINE D == {RootMod} \cup Ids(h)
           F(g, n) == Append(g[ItemIn(h, n).parent], Written(ItemIn(h, n).ident))
           Upto(g, b) == g = [n \in {m \in D : m <= b} |-> IF n = RootMod THEN <<>> ELSE F(g, n)]
           Path(g) == g = [n \in D |-> IF n = RootMod THEN <<>> ELSE F(g, n)]
           S == {b \in Nat : \E g : Upto(g, b)}
           path == CHOOSE g : Path(g)
<1>1. \A id : PathOf(h, id) = path[id]
  BY DEF PathOf, Ids, ItemIn
<1>2. D \subseteq Nat /\ IsFiniteSet(Ids(h))
  <2>1. IsFiniteSet(h.items)
    BY DEF WellFormed
  <2>2. IsFiniteSet(Ids(h))
    <3>1. \A x \in h.items : [y \in h.items |-> y.id][x] = x.id
      OBVIOUS
    <3>2. [y \in h.items |-> y.id] \in Surjection(h.items, Ids(h))
      BY DEF Surjection, Ids
    <3> QED
      BY <2>1, <3>2, FS_Surjection
  <2> QED
    BY <2>2, ItemsById DEF Ids, RootMod
<1>3. \A n \in D : n # RootMod => /\ ItemIn(h, n) \in h.items /\ ItemIn(h, n).id = n
                                  /\ ItemIn(h, n).parent \in D /\ ItemIn(h, n).parent < n
  BY ItemsById DEF Ids
<1>4. ASSUME NEW f, NEW g, NEW n, f[ItemIn(h, n).parent] = g[ItemIn(h, n).parent] PROVE F(f, n) = F(g, n)
  BY <1>4
<1> HIDE DEF F, D
<1>5. 0 \in S
  <2>1. {m \in D : m <= 0} = {RootMod}
    BY <1>2 DEF D, RootMod
  <2> DEFINE g == [n \in {RootMod} |-> <<>>]
  <2>2. g = [n \in {RootMod} |-> IF n = RootMod THEN <<>> ELSE F(g, n)]
    OBVIOUS
  <2>3. Upto(g, 0)
    BY <2>1, <2>2
  <2> QED
    BY <2>3
<1>6. ASSUME NEW b \in S PROVE b + 1 \in S
  <2>1. PICK g : Upto(g, b)
    OBVIOUS
  <2> DEFINE A == {m \in D : m <= b}
             B == {m \in D : m <= b + 1}
             h2 == [n \in B |-> IF n \in A THEN g[n] ELSE F(g, n)]
  <2>2. \A n \in B : n \in A \/ n = b + 1
    BY <1>2
  <2>3. \A n \in A : n \in B /\ n # b + 1 /\ n \in Nat
    BY <1>2
  <2>4. RootMod \in A
    BY DEF D, RootMod
  <2>5. \A n \in B : n # RootMod => ItemIn(h, n).parent \in A
    <3>1. ASSUME NEW n \in B, n # RootMod PROVE ItemIn(h, n).parent \in A
      <4>1. ItemIn(h, n).parent \in D /\ ItemIn(h, n).parent < n /\ n <= b + 1 /\ n \in D
        BY <1>3, <3>1
      <4>2. ItemIn(h, n).parent \in Nat /\ n \in Nat /\ b \in Nat
        BY <1>2, <4>1
      <4> QED
        BY <4>1, <4>2
    <3> QED
      BY <3>1
  <2>6. \A n \in A : g[n] = IF n = RootMod THEN <<>> ELSE F(g, n)
    BY <2>1
  <2>7. \A n \in B : h2[n] = IF n \in A THEN g[n] ELSE F(g, n)
    OBVIOUS
  <2>8. h2 = [n \in B |-> h2[n]]
    OBVIOUS
  <2> HIDE DEF h2, A, B
  <2>9. \A n \in B : n # RootMod => F(h2, n) = F(g, n)
    BY <1>4, <2>3, <2>5, <2>7
  <2>10. \A n \in B : h2[n] = IF n = RootMod THEN <<>> ELSE F(h2, n)
    BY <2>4, <2>6, <2>7, <2>9
  <2>11. Upto(h2, b + 1)
    BY <2>8, <2>10 DEF B
  <2> HIDE DEF Upto
  <2>12. b + 1 \in Nat
    OBVIOUS
  <2> QED
    BY <2>11, <2>12
<1>7. S \in SUBSET Nat
  OBVIOUS
<1> HIDE DEF S
<1>8. S = Nat
  BY <1>5, <1>6, <1>7, Induction
<1>9. PICK b \in Nat : \A x \in Ids(h) : x <= b
  <2>1. Ids(h) \subseteq Nat
    BY <1>2 DEF D
  <2> QED
    BY <1>2, <2>1, FiniteIsBounded
<1>10. {m \in D : m <= b} = D
  BY <1>9 DEF D, RootMod
<1>11. PICK g : Upto(g, b)
  BY <1>8 DEF S
<1>12. Path(g)
  BY <1>10, <1>11
<1> HIDE DEF Path
<1>13. Path(path)
  BY <1>12
<1> HIDE DEF path
<1>14. \A n \in D : path[n] = IF n = RootMod THEN <<>> ELSE F(path, n)
  BY <1>13 DEF Path
<1>15. path[RootMod] = <<>>
  BY <1>14 DEF D
<1>16. ASSUME NEW item \in h.items
       PROVE  path[item.id] = Append(path[item.parent], Written(item.ident))
  <2>1. item.id \in D /\ item.id # RootMod /\ ItemIn(h, item.id) = item
    BY ItemsById DEF D, Ids, RootMod
  <2> QED
    BY <1>14, <2>1 DEF F
<1> QED
  BY <1>1, <1>15, <1>16

LEMMA PathsGoDown ==
    ASSUME NEW h, WellFormed(h)
    PROVE  /\ PathOf(h, RootMod) = <<>>
           /\ \A item \in h.items : PathOf(h, item.id) = Append(PathOf(h, item.parent), Written(item.ident))
  BY PathUnfold
-----------------------------------------------------------------------------
(* What bindgen emits.  The items a node of the emitted Rust stands for; an     *)
(* impl block says again what an extern block said.                            *)
Stands(node) ==
    IF node.kind = "extern" THEN ToSet(node.items) ELSE IF node.kind = "impl" THEN {} ELSE {node}
(* A node of mod m, where E is emitted. *)
Foreigners(E, m) == {item \in E : item.parent = m /\ item.kind \in {"function", "static"}}
NodeOk(E, m, node) ==
    \/ node.kind = "extern" /\ Listed(node.items) /\ ToSet(node.items) \subseteq Foreigners(E, m)
    \/ node.kind = "impl" /\ Listed(node.items)
    \/ node \in E /\ node.parent = m /\ node.kind \in ItemKinds \ {"function", "static"}

LEMMA Triples ==
    ASSUME NEW a, NEW b, NEW c
    PROVE  Listed(<<a, b, c>>) /\ ToSet(<<a, b, c>>) = {a, b, c}
<1> DEFINE v == <<a, b, c>>
           S == {a, b, c}
<1>1. v \in Seq(S) /\ DOMAIN v = 1..3 /\ v[1] = a /\ v[2] = b /\ v[3] = c
  OBVIOUS
<1>2. DOMAIN v = {1, 2, 3}
  BY <1>1
<1> HIDE DEF v
<1>3. ToSet(v) = S
  BY <1>1, <1>2 DEF ToSet
<1> QED
  BY <1>1, <1>3, ListedOf DEF v

LEMMA Singles ==
    ASSUME NEW a
    PROVE  Listed(<<a>>) /\ ToSet(<<a>>) = {a} /\ Len(<<a>>) = 1 /\ <<a>>[1] = a
<1> DEFINE v == <<a>>
           S == {a}
<1>1. v \in Seq(S) /\ DOMAIN v = 1..1 /\ v[1] = a /\ Len(v) = 1
  OBVIOUS
<1>2. DOMAIN v = {1}
  BY <1>1
<1> HIDE DEF v
<1>3. ToSet(v) = S
  BY <1>1, <1>2 DEF ToSet
<1> QED
  BY <1>1, <1>3, ListedOf DEF v

LEMMA EmittedAreItems ==
    ASSUME NEW h, WellFormed(h), NEW items \in SUBSET Emitted(h)
    PROVE  /\ IsFiniteSet(items) /\ \A item \in items : item \in h.items /\ item.id \in Int
           /\ \A item, other \in items : item.id = other.id => item = other
<1>1. Emitted(h) \subseteq h.items
  BY DEF Emitted
<1>2. IsFiniteSet(h.items) /\ \A item, other \in h.items : item.id = other.id => item = other
  BY DEF WellFormed
<1>3. IsFiniteSet(items)
  BY <1>1, <1>2, FS_Subset
<1> QED
  BY <1>1, <1>2, <1>3, ItemsById

(* A function of a class is emitted only if its class is. *)
LEMMA ClassesComeAlong ==
    ASSUME NEW h, WellFormed(h), NEW item \in Emitted(h), item.class # RootMod
    PROVE  /\ item.kind = "function"
           /\ \E class \in Emitted(h) :
                 /\ class.id = item.class /\ class.kind = "struct"
                 /\ class.class = RootMod /\ class.parent = item.parent
<1>1. item \in h.items
  BY DEF Emitted
<1>2. PICK class \in h.items :
         class.id = item.class /\ class.kind = "struct" /\ class.class = RootMod /\ class.parent = item.parent
  BY <1>1 DEF WellFormed
<1>3. item.kind = "function"
  BY <1>1 DEF WellFormed
<1>4. NameInBindgen(h, class) = NameInBindgen(h, item)
  BY <1>2 DEF NameInBindgen
<1>5. Asked(h, item) => Asked(h, class)
  BY <1>4 DEF Asked
<1>6. \A other \in h.items : item.id \notin other.needs
  BY <1>1 DEF WellFormed
<1>7. Asked(h, item)
  BY <1>3, <1>6 DEF Emitted
<1> QED
  BY <1>2, <1>3, <1>5, <1>7 DEF Emitted

LEMMA NodesOfOne ==
    ASSUME NEW h, WellFormed(h), NEW item \in Emitted(h), item.class = RootMod
    PROVE  LET nodes == EmittedFor(h, item)
           IN  /\ Listed(nodes)
               /\ \A node \in ToSet(nodes) : NodeOk(Emitted(h), item.parent, node)
               /\ \E node \in ToSet(nodes) : item \in Stands(node)
               /\ item.kind = "struct" =>
                    \A method \in Emitted(h) : method.class = item.id =>
                        \E node \in ToSet(nodes) : method \in Stands(node)
<1> DEFINE E == Emitted(h)
           m == item.parent
           own == {f \in E : f.class = item.id}
           ms == MethodsOf(h, item)
           methods == [kind |-> "extern", items |-> ms]
           impl == [kind |-> "impl", type |-> Written(item.ident), items |-> ms]
           alone == [kind |-> "extern", items |-> <<item>>]
           nodes == EmittedFor(h, item)
<1>1. item \in h.items /\ item.kind \in ItemKinds
  BY DEF Emitted, WellFormed
<1>2. ms = InIdOrder(own)
  BY DEF MethodsOf
<1>3. Listed(ms) /\ ToSet(ms) = own
  <2>1. own \in SUBSET Emitted(h)
    OBVIOUS
  <2> HIDE DEF own, E
  <2>2. /\ IsFiniteSet(own) /\ \A i \in own : i.id \in Int
        /\ \A i, j \in own : i.id = j.id => i = j
    BY <2>1, EmittedAreItems
  <2> QED
    BY <1>2, <2>2, IdOrderIsAllOfThem
<1>4. ASSUME item.kind = "struct" PROVE own \subseteq Foreigners(E, m)
  <2>1. ASSUME NEW f \in own PROVE f.parent = m /\ f.kind = "function"
    <3>1. item.id # RootMod
      BY <1>1, ItemsById DEF RootMod
    <3>2. f.class # RootMod /\ f.class = item.id
      BY <3>1
    <3>3. PICK class \in Emitted(h) : class.id = f.class /\ class.parent = f.parent
      BY <3>2, ClassesComeAlong
    <3>4. class = item
      BY <1>1, <3>2, <3>3, ItemsById DEF Emitted, WellFormed
    <3> QED
      BY <3>2, <3>3, <3>4, ClassesComeAlong
  <2> QED
    BY <2>1 DEF Foreigners
<1>5. \/ item.kind = "struct" /\ ms # <<>> /\ nodes = <<item, methods, impl>>
      \/ item.kind \in {"function", "static"} /\ nodes = <<alone>>
      \/ item.kind \notin {"function", "static"} /\ (item.kind = "struct" => ms = <<>>) /\ nodes = <<item>>
  BY DEF EmittedFor
<1>6. item.kind \notin {"function", "static"} => NodeOk(E, m, item) /\ Stands(item) = {item}
  BY <1>1 DEF NodeOk, Stands, ItemKinds
<1>7. methods.kind = "extern" /\ methods.items = ms /\ impl.kind = "impl" /\ impl.items = ms
  OBVIOUS
<1>8. alone.kind = "extern" /\ alone.items = <<item>>
  OBVIOUS
<1> HIDE DEF methods, impl, alone, nodes, own, E, ms
<1>9. CASE item.kind = "struct" /\ ms # <<>> /\ nodes = <<item, methods, impl>>
  <2>1. Listed(nodes) /\ ToSet(nodes) = {item, methods, impl}
    BY <1>9, Triples
  <2>2. NodeOk(E, m, methods) /\ Stands(methods) = own
    BY <1>3, <1>4, <1>7, <1>9 DEF NodeOk, Stands
  <2>3. NodeOk(E, m, impl)
    BY <1>3, <1>7 DEF NodeOk
  <2>4. NodeOk(E, m, item) /\ Stands(item) = {item}
    BY <1>6, <1>9
  <2> QED
    BY <2>1, <2>2, <2>3, <2>4 DEF own, E, nodes
<1>10. CASE item.kind \in {"function", "static"} /\ nodes = <<alone>>
  <2>1. Listed(nodes) /\ ToSet(nodes) = {alone}
    BY <1>10, Singles
  <2>2. Listed(<<item>>) /\ ToSet(<<item>>) = {item}
    BY Singles
  <2>3. item \in Foreigners(E, m)
    BY <1>10 DEF Foreigners, E
  <2>4. NodeOk(E, m, alone) /\ Stands(alone) = {item}
    BY <1>8, <2>2, <2>3 DEF NodeOk, Stands
  <2>5. item.kind # "struct"
    BY <1>10
  <2> QED
    BY <2>1, <2>4, <2>5 DEF E, nodes
<1>11. CASE item.kind \notin {"function", "static"} /\ (item.kind = "struct" => ms = <<>>) /\ nodes = <<item>>
  <2>1. Listed(nodes) /\ ToSet(nodes) = {item}
    BY <1>11, Singles
  <2>2. item.kind = "struct" => own = {}
    BY <1>3, <1>11, NothingListed
  <2>3. NodeOk(E, m, item) /\ Stands(item) = {item}
    BY <1>6, <1>11
  <2> QED
    BY <2>1, <2>2, <2>3 DEF own, E, nodes
<1> QED
  BY <1>5, <1>9, <1>10, <1>11

(* The Rust of a mod stands for everything which is emitted in it. *)
LEMMA RustStandsForAll ==
    ASSUME NEW h, WellFormed(h), NEW mod
    PROVE  LET rust == RustOf(h, mod)
           IN  /\ Listed(rust)
               /\ \A node \in ToSet(rust) : NodeOk(Emitted(h), mod, node)
               /\ \A item \in Emitted(h) : item.parent = mod =>
                     \E node \in ToSet(rust) : item \in Stands(node)
<1> DEFINE E == Emitted(h)
           mine == {item \in E : item.parent = mod /\ item.class = RootMod}
           own == InIdOrder(mine)
           seqs == [i \in DOMAIN own |-> EmittedFor(h, own[i])]
           rust == RustOf(h, mod)
<1>1. rust = FlattenSeq(seqs)
  BY DEF RustOf
<1>2. Listed(own) /\ ToSet(own) = mine
  <2>1. mine \in SUBSET E
    OBVIOUS
  <2>2. /\ IsFiniteSet(mine) /\ \A i \in mine : i.id \in Int
        /\ \A i, j \in mine : i.id = j.id => i = j
    BY <2>1, EmittedAreItems
  <2> HIDE DEF mine, E
  <2> QED
    BY <2>2, IdOrderIsAllOfThem
<1>3. \A i \in DOMAIN own : own[i] \in mine
  BY <1>2 DEF ToSet
<1>4. \A item \in mine : \E i \in DOMAIN own : own[i] = item
  BY <1>2 DEF ToSet
<1>5. \A i \in DOMAIN own : /\ seqs[i] = EmittedFor(h, own[i])
                            /\ Listed(seqs[i])
  BY <1>3, NodesOfOne
<1>6. Listed(seqs) /\ DOMAIN seqs = DOMAIN own
  <2>1. Len(own) \in Nat /\ DOMAIN own = 1..Len(own)
    BY <1>2, ListedMeans
  <2> DEFINE S == {seqs[i] : i \in DOMAIN own}
  <2>2. seqs \in [1..Len(own) -> S]
    BY <2>1
  <2>3. seqs \in Seq(S)
    BY <2>1, <2>2, SeqDef, ZenonT(60)
  <2> HIDE DEF S, seqs
  <2>4. Listed(seqs)
    BY <2>3, ListedOf
  <2> QED
    BY <2>4 DEF seqs
<1> HIDE DEF seqs
<1>7. Listed(rust) /\ ToSet(rust) = UNION {ToSet(seqs[i]) : i \in DOMAIN seqs}
  BY <1>1, <1>5, <1>6, FlattenedIsAllOfThem
<1>8. \A i \in DOMAIN own : ToSet(seqs[i]) \subseteq ToSet(rust)
  BY <1>6, <1>7
<1>9. \A item \in mine : ToSet(EmittedFor(h, item)) \subseteq ToSet(rust)
  BY <1>4, <1>5, <1>8
<1>10. \A node \in ToSet(rust) : \E item \in mine : node \in ToSet(EmittedFor(h, item))
  BY <1>3, <1>5, <1>6, <1>7
<1>11. ASSUME NEW node \in ToSet(rust) PROVE NodeOk(E, mod, node)
  <2>1. PICK item \in mine : node \in ToSet(EmittedFor(h, item))
    BY <1>10
  <2> QED
    BY <2>1, NodesOfOne
<1>12. ASSUME NEW item \in E, item.parent = mod PROVE \E node \in ToSet(rust) : item \in Stands(node)
  <2>1. CASE item.class = RootMod
    <3>1. item \in mine
      BY <1>12, <2>1
    <3>2. \E node \in ToSet(EmittedFor(h, item)) : item \in Stands(node)
      BY <2>1, NodesOfOne
    <3> QED
      BY <1>9, <3>1, <3>2
  <2>2. CASE item.class # RootMod
    <3>1. PICK class \in E : /\ class.id = item.class /\ class.kind = "struct"
                             /\ class.class = RootMod /\ class.parent = item.parent
      BY <2>2, ClassesComeAlong
    <3>2. class \in mine
      BY <1>12, <3>1
    <3>3. \E node \in ToSet(EmittedFor(h, class)) : item \in Stands(node)
      BY <3>1, NodesOfOne
    <3> QED
      BY <1>9, <3>2, <3>3
  <2> QED
    BY <2>1, <2>2
<1> QED
  BY <1>7, <1>11, <1>12
-----------------------------------------------------------------------------
(* The configuration: what the conversion lists of it can be listed. *)
ConfigOk(c) ==
    /\ {"mode", "refused", "entries", "lists", "flags", "safety", "includes", "name", "concretes", "externs",
        "rustTypes", "rustFuns", "subclasses", "enumStyles", "derives"} \subseteq DOMAIN c
    /\ IsFiniteSet(DOMAIN c.externs) /\ IsFiniteSet(DOMAIN c.concretes)
    /\ Listed(c.rustTypes) /\ Listed(c.rustFuns) /\ Listed(c.subclasses)

LEMMA WithOneMore ==
    ASSUME NEW entries, IsFiniteSet(DOMAIN entries), NEW key, NEW value
    PROVE  IsFiniteSet(DOMAIN With(entries, key, value))
<1>1. DOMAIN With(entries, key, value) = DOMAIN entries \cup {key}
  BY DEF With
<1> QED
  BY <1>1, FS_AddElement

LEMMA NewConfigOk == ConfigOk(NewConfig)
<1>1. DOMAIN NoEntries = {}
  BY DEF NoEntries
<1>2. IsFiniteSet(DOMAIN NoEntries)
  BY <1>1, FS_EmptySet
<1>3. /\ NewConfig.externs = NoEntries /\ NewConfig.concretes = NoEntries
      /\ NewConfig.rustTypes = <<>> /\ NewConfig.rustFuns = <<>> /\ NewConfig.subclasses = <<>>
  BY DEF NewConfig
<1>4. {"mode", "refused", "entries", "lists", "flags", "safety", "includes", "name", "concretes", "externs",
        "rustTypes", "rustFuns", "subclasses", "enumStyles", "derives"} \subseteq DOMAIN NewConfig
  BY DEF NewConfig
<1> QED
  BY <1>2, <1>3, <1>4, NothingListed DEF ConfigOk

(* What a directive does to the configuration, as far as that goes. *)
LEMMA DirectivesKeepConfigOk ==
    ASSUME NEW c, ConfigOk(c), NEW d
    PROVE  ConfigOk(ParseDirective(c, d))
<1> DEFINE after == ParseDirective(c, d)
           Alike(e) == /\ DOMAIN e = DOMAIN c /\ e.externs = c.externs /\ e.concretes = c.concretes
                       /\ e.rustTypes = c.rustTypes /\ e.rustFuns = c.rustFuns /\ e.subclasses = c.subclasses
           externs == With(c.externs, d.name, [path |-> d.id, opaque |-> d.directive = "extern_cpp_opaque_type"])
           concretes == With(c.concretes, d.definition, d.id)
           subclass == [superclass |-> d.superclass, subclass |-> d.id]
<1>1. /\ \A entry : Alike(AllowlistPush(c, entry)) /\ ConfigOk(AllowlistPush(c, entry))
      /\ Alike(SetAll(c)) /\ Alike(Refused(c))
  BY DEF ConfigOk, AllowlistPush, SetAll, Refused
<1>2. \A e, list, name : Alike(e) => Alike(AddToList(e, list, name))
  BY DEF ConfigOk, AddToList
<1>3. \A name, style : Alike(EnumStyleInsert(c, name, style))
  BY DEF ConfigOk, EnumStyleInsert, Refused
<1>4. \A name, trait : Alike(DeriveInsert(c, name, trait))
  <2>1. \A traits : Alike([c EXCEPT !.derives = traits])
    BY DEF ConfigOk
  <2>2. Alike(Refused(c))
    BY DEF ConfigOk, Refused
  <2> HIDE DEF Alike
  <2> QED
    BY <2>1, <2>2 DEF DeriveInsert
<1>5. /\ \A v : Alike([c EXCEPT !.includes = v]) /\ Alike([c EXCEPT !.safety = v])
               /\ Alike([c EXCEPT !.flags = v]) /\ Alike([c EXCEPT !.name = v])
      /\ Alike(c)
  BY DEF ConfigOk
<1> DEFINE asked(item) == AllowlistPush(c, [item |-> item, name |-> d.name])
           types == [c EXCEPT !.rustTypes = Append(@, d.id)]
           funs == [c EXCEPT !.rustFuns = Append(@, d.id)]
           subclasses == [c EXCEPT !.subclasses = Append(@, subclass)]
           byConcrete == [c EXCEPT !.concretes = concretes]
           byExtern == [c EXCEPT !.externs = externs]
           Grown(e) == e = types \/ e = funs \/ e = subclasses \/ e = byConcrete \/ e = byExtern
           generate == ParseGenerate(c, d)
           inRust == ParseInRust(c, d)
<1>6. Alike(generate)
  <2>1. \/ generate = asked(TRUE) \/ generate = AddToList(asked(TRUE), "pod", d.name)
        \/ generate = asked(FALSE) \/ generate = SetAll(c)
    BY DEF ParseGenerate
  <2> HIDE DEF Alike, generate
  <2> QED
    BY <1>1, <1>2, <2>1
<1>15. Alike(inRust) \/ Grown(inRust)
  <2> DEFINE style == EnumStyleInsert(c, d.name, d.style)
             derive == DeriveInsert(c, d.name, d.trait)
  <2>1. inRust = CASE d.directive = "concrete" -> byConcrete
                   [] d.directive \in {"rust_type", "extern_rust_type"} -> types
                   [] d.directive = "subclass" -> subclasses
                   [] d.directive = "extern_rust_function" -> funs
                   [] d.directive = "enum_style" -> style
                   [] d.directive = "derive" -> derive
                   [] OTHER -> byExtern
    BY DEF ParseInRust
  <2>2. Alike(style) /\ Alike(derive)
    BY <1>3, <1>4
  <2> HIDE DEF Alike, inRust, style, derive, types, funs, subclasses, byConcrete, byExtern
  <2> QED
    BY <2>1, <2>2
<1>16. Alike(after) \/ Grown(after)
  <2> DEFINE included == [c EXCEPT !.includes = Append(@, d.header)]
             safe == [c EXCEPT !.safety = d.policy]
             listed == AddToList(c, d.directive, d.name)
             flagged == [c EXCEPT !.flags = @ \cup {d.directive}]
             named == [c EXCEPT !.name = d.id]
             refused == Refused(c)
  <2>1. after = CASE c.refused -> c
                  [] d.directive = "include" -> included
                  [] d.directive \in GenerateDirectives -> generate
                  [] d.directive = "safety" -> safe
                  [] d.directive \in StringLists -> listed
                  [] d.directive \in Flags -> flagged
                  [] d.directive = "name" -> named
                  [] d.directive \in InRustDirectives -> inRust
                  [] OTHER -> refused
    BY DEF ParseDirective
  <2>2. /\ Alike(c) /\ Alike(included) /\ Alike(safe) /\ Alike(listed) /\ Alike(flagged)
        /\ Alike(named) /\ Alike(refused)
    <3> HIDE DEF Alike
    <3> QED
      BY <1>1, <1>2, <1>5
  <2> HIDE DEF Alike, Grown, after, included, safe, listed, flagged, named, refused, generate, inRust
  <2>3. \/ after = c \/ after = included \/ after = generate \/ after = safe \/ after = listed
        \/ after = flagged \/ after = named \/ after = inRust \/ after = refused
    BY <2>1
  <2> QED
    BY <1>6, <1>15, <2>2, <2>3
<1>17. SUFFICES ConfigOk(after)
  OBVIOUS
<1>7. IsFiniteSet(DOMAIN externs) /\ IsFiniteSet(DOMAIN concretes)
  BY WithOneMore DEF ConfigOk
<1>8. /\ Listed(Append(c.rustTypes, d.id)) /\ Listed(Append(c.rustFuns, d.id))
      /\ Listed(Append(c.subclasses, subclass))
  BY ListedAppend DEF ConfigOk
<1> HIDE DEF externs, concretes, subclass, after, generate, inRust
<1>9. CASE Alike(after)
  BY <1>9 DEF ConfigOk
<1>10. CASE after = [c EXCEPT !.concretes = concretes]
  BY <1>7, <1>10 DEF ConfigOk
<1>11. CASE after = [c EXCEPT !.externs = externs]
  BY <1>7, <1>11 DEF ConfigOk
<1>12. CASE after = [c EXCEPT !.rustTypes = Append(@, d.id)]
  BY <1>8, <1>12 DEF ConfigOk
<1>13. CASE after = [c EXCEPT !.rustFuns = Append(@, d.id)]
  BY <1>8, <1>13 DEF ConfigOk
<1>14. CASE after = [c EXCEPT !.subclasses = Append(@, subclass)]
  BY <1>8, <1>14 DEF ConfigOk
<1> HIDE DEF Alike
<1> QED
  BY <1>9, <1>10, <1>11, <1>12, <1>13, <1>14, <1>16

LEMMA ParseConfigUnfold ==
    ASSUME NEW directives, Listed(directives)
    PROVE  \E after : /\ after[0] = NewConfig
                      /\ \A n \in 1..Len(directives) : after[n] = ParseDirective(after[n - 1], directives[n])
                      /\ ParseConfig(directives) = after[Len(directives)]
<1> DEFINE F(g, i) == ParseDirective(g[i - 1], directives[i])
           Upto(g, n) == g = [i \in 0..n |-> IF i = 0 THEN NewConfig ELSE F(g, i)]
           S == {n \in Nat : \E g : Upto(g, n)}
           after == CHOOSE g : Upto(g, Len(directives))
<1>1. ParseConfig(directives) = after[Len(directives)]
  BY DEF ParseConfig
<1>8. ASSUME NEW g, NEW h, NEW i, g[i - 1] = h[i - 1] PROVE F(g, i) = F(h, i)
  BY <1>8
<1> HIDE DEF F
<1>2. 0 \in S
  <2>1. Upto([i \in 0..0 |-> NewConfig], 0)
    OBVIOUS
  <2> QED
    BY <2>1
<1>3. ASSUME NEW n \in S PROVE n + 1 \in S
  <2>1. PICK g : Upto(g, n)
    OBVIOUS
  <2> DEFINE h == [i \in 0..n + 1 |-> IF i = n + 1 THEN F(g, n + 1) ELSE g[i]]
  <2>2. h[0] = NewConfig /\ \A i \in 1..n + 1 : h[i - 1] = g[i - 1]
    BY <2>1
  <2>3. \A i \in 1..n + 1 : F(h, i) = F(g, i)
    BY <2>2, <1>8
  <2>4. \A i \in 1..n + 1 : h[i] = F(g, i)
    BY <2>1, SMTT(60)
  <2>7. \A i \in 0..n + 1 : h[i] = IF i = 0 THEN NewConfig ELSE F(h, i)
    <3>1. ASSUME NEW i \in 0..n + 1 PROVE h[i] = IF i = 0 THEN NewConfig ELSE F(h, i)
      <4>1. i = 0 \/ i \in 1..n + 1
        OBVIOUS
      <4> QED
        BY <2>2, <2>3, <2>4, <4>1
    <3> QED
      BY <3>1
  <2>8. h = [i \in 0..n + 1 |-> h[i]]
    OBVIOUS
  <2> HIDE DEF h
  <2>5. Upto(h, n + 1)
    BY <2>7, <2>8
  <2>6. n + 1 \in Nat
    OBVIOUS
  <2> HIDE DEF Upto
  <2> QED
    BY <2>5, <2>6
<1>4. Len(directives) \in Nat
  BY ListedMeans
<1> HIDE DEF Upto
<1>5. S = Nat
  BY <1>2, <1>3, Induction
<1>6. Upto(after, Len(directives))
  BY <1>4, <1>5
<1> HIDE DEF after
<1>7. /\ after[0] = NewConfig
      /\ \A n \in 1..Len(directives) : after[n] = F(after, n)
  <2>1. 0 \in 0..Len(directives) /\ \A n \in 1..Len(directives) : n \in 0..Len(directives) /\ n # 0
    BY <1>4
  <2> QED
    BY <1>6, <2>1 DEF Upto
<1> QED
  BY <1>1, <1>7 DEF F

LEMMA WhatIsParsedIsOk ==
    ASSUME NEW directives, Listed(directives)
    PROVE  ConfigOk(ParseConfig(directives))
<1> DEFINE N == Len(directives)
<1>1. PICK after : /\ after[0] = NewConfig
                   /\ \A n \in 1..N : after[n] = ParseDirective(after[n - 1], directives[n])
                   /\ ParseConfig(directives) = after[N]
  BY ParseConfigUnfold
<1> DEFINE S == {n \in Nat : n <= N => ConfigOk(after[n])}
<1>2. 0 \in S
  BY <1>1, NewConfigOk
<1>3. N \in Nat
  BY ListedMeans
<1>4. ASSUME NEW n \in S PROVE n + 1 \in S
  <2>1. SUFFICES ASSUME n + 1 <= N PROVE ConfigOk(after[n + 1])
    OBVIOUS
  <2>2. ConfigOk(after[n]) /\ n + 1 \in 1..N /\ (n + 1) - 1 = n
    BY <1>3, <2>1
  <2>3. after[n + 1] = ParseDirective(after[n], directives[n + 1])
    BY <1>1, <2>2
  <2> QED
    BY <2>2, <2>3, DirectivesKeepConfigOk
<1>5. S \in SUBSET Nat
  OBVIOUS
<1> HIDE DEF S
<1>6. S = Nat
  BY <1>2, <1>4, <1>5, Induction
<1>7. ConfigOk(after[N])
  BY <1>3, <1>6 DEF S
<1> QED
  BY <1>1, <1>7

LEMMA MappedIsListed ==
    ASSUME NEW v, Listed(v), NEW w, w = [i \in DOMAIN v |-> w[i]]
    PROVE  Listed(w) /\ Len(w) = Len(v)
<1>1. Len(v) \in Nat /\ DOMAIN v = 1..Len(v)
  BY ListedMeans
<1> DEFINE S == {w[i] : i \in DOMAIN v}
<1>2. w \in [1..Len(v) -> S]
  BY <1>1
<1>3. w \in Seq(S) /\ Len(w) = Len(v)
  BY <1>1, <1>2, SeqDef
<1> QED
  BY <1>3, ListedOf

LEMMA ListedAreFinite == ASSUME NEW v, Listed(v) PROVE IsFiniteSet(ToSet(v))
<1>1. Len(v) \in Nat /\ DOMAIN v = 1..Len(v)
  BY ListedMeans
<1> DEFINE f == [i \in DOMAIN v |-> v[i]]
<1>2. f \in Surjection(DOMAIN v, ToSet(v))
  BY DEF Surjection, ToSet
<1>3. IsFiniteSet(DOMAIN v)
  BY <1>1, FS_Interval
<1> QED
  BY <1>2, <1>3, FS_Surjection

(* The APIs which come of the configuration alone. *)
LEMMA WhatTheConfigAddsIsListed ==
    ASSUME ConfigOk(config) PROVE Listed(ApisFromConfig)
<1> DEFINE A == IF ActiveUtilities(config) = {} THEN <<>>
                ELSE <<Api(<<<<>>, "make_string">>, "utility", NoCppName)>>
           B == Each(config.subclasses, LAMBDA sc : Api(<<<<>>, sc.subclass>>, "subclass", NoCppName))
           C == Each(config.rustFuns, LAMBDA id : Api(<<<<>>, id>>, "rust function", NoCppName))
           types == SetToSeq(ToSet(config.rustTypes))
           D == Each(types, LAMBDA id : Api(<<<<>>, id>>, "rust type", NoCppName))
           keys == SetToSeq(DOMAIN config.concretes)
           E == Each(keys, LAMBDA k : Api(<<<<>>, config.concretes[k]>>, "concrete", NoCppName))
<1>1. ApisFromConfig = A \o B \o C \o D \o E
  BY DEF ApisFromConfig, EachKey
<1>2. Listed(A)
  BY NothingListed, Singles
<1>3. Listed(types) /\ Listed(keys)
  BY ListedAreFinite, SetsAreListed DEF ConfigOk
<1>4. /\ B = [i \in DOMAIN config.subclasses |-> B[i]] /\ C = [i \in DOMAIN config.rustFuns |-> C[i]]
      /\ D = [i \in DOMAIN types |-> D[i]] /\ E = [i \in DOMAIN keys |-> E[i]]
  BY DEF Each
<1> HIDE DEF A, B, C, D, E, types, keys
<1>5. Listed(B) /\ Listed(C) /\ Listed(D) /\ Listed(E)
  BY <1>3, <1>4, MappedIsListed DEF ConfigOk
<1>6. Listed(A \o B)
  BY <1>2, <1>5, ListedConcat
<1>7. Listed(A \o B \o C)
  BY <1>5, <1>6, ListedConcat
<1>8. Listed(A \o B \o C \o D)
  BY <1>5, <1>7, ListedConcat
<1> QED
  BY <1>1, <1>5, <1>8, ListedConcat
-----------------------------------------------------------------------------
(* The frame of a mod which is being parsed. *)
FrameFields == {"ns", "todo", "functions", "receivers", "ignored", "statics", "more"}
FrameNames(f) == Names(f.more) \cup Names(f.ignored) \cup Names(f.statics) \cup Names(f.functions)
AreNamed(v) == \A x \in ToSet(v) : "name" \in DOMAIN x
Framed(f) ==
    /\ DOMAIN f = FrameFields
    /\ Listed(f.todo) /\ Listed(f.more) /\ Listed(f.ignored) /\ Listed(f.statics)
    /\ Listed(f.functions) /\ AreNamed(f.functions)
(* g has more than f to say of the same mod. *)
Extends(f, g) == Framed(g) /\ g.ns = f.ns /\ g.todo = f.todo /\ FrameNames(f) \subseteq FrameNames(g)

LEMMA KnowingKeepsTheName ==
    ASSUME NEW name, NEW kind, NEW cppName, NEW facts
    PROVE  /\ Api(name, kind, cppName).name = name
           /\ Knowing(Api(name, kind, cppName), facts).name = name
           /\ "name" \in DOMAIN Knowing(Api(name, kind, cppName), facts)
<1>1. "name" \in DOMAIN Api(name, kind, cppName) /\ Api(name, kind, cppName).name = name
  BY DEF Api
<1> QED
  BY <1>1 DEF Knowing

LEMMA KnowingMore ==
    ASSUME NEW api, "name" \in DOMAIN api, NEW facts PROVE Knowing(api, facts).name = api.name
  BY DEF Knowing

(* One of the lists of a frame is replaced. *)
LEMMA MoreIgnored ==
    ASSUME NEW f, Framed(f), NEW v, Listed(v), Names(f.ignored) \subseteq Names(v)
    PROVE  LET g == [f EXCEPT !.ignored = v] IN Extends(f, g) /\ Names(v) \subseteq FrameNames(g)
<1> DEFINE g == [f EXCEPT !.ignored = v]
<1>1. /\ DOMAIN g = DOMAIN f /\ g.ns = f.ns /\ g.todo = f.todo /\ g.more = f.more /\ g.statics = f.statics
      /\ g.functions = f.functions /\ g.ignored = v
  BY DEF Framed, FrameFields
<1> HIDE DEF g
<1> QED
  BY <1>1 DEF Extends, Framed, FrameNames, g

LEMMA MoreRefused ==
    ASSUME NEW f, Framed(f), NEW v, Listed(v), Names(f.more) \subseteq Names(v)
    PROVE  LET g == [f EXCEPT !.more = v] IN Extends(f, g) /\ Names(v) \subseteq FrameNames(g)
<1> DEFINE g == [f EXCEPT !.more = v]
<1>1. /\ DOMAIN g = DOMAIN f /\ g.ns = f.ns /\ g.todo = f.todo /\ g.ignored = f.ignored /\ g.statics = f.statics
      /\ g.functions = f.functions /\ g.more = v
  BY DEF Framed, FrameFields
<1> HIDE DEF g
<1> QED
  BY <1>1 DEF Extends, Framed, FrameNames, g

LEMMA MoreStatics ==
    ASSUME NEW f, Framed(f), NEW v, Listed(v), Names(f.statics) \subseteq Names(v)
    PROVE  LET g == [f EXCEPT !.statics = v] IN Extends(f, g) /\ Names(v) \subseteq FrameNames(g)
<1> DEFINE g == [f EXCEPT !.statics = v]
<1>1. /\ DOMAIN g = DOMAIN f /\ g.ns = f.ns /\ g.todo = f.todo /\ g.ignored = f.ignored /\ g.more = f.more
      /\ g.functions = f.functions /\ g.statics = v
  BY DEF Framed, FrameFields
<1> HIDE DEF g
<1> QED
  BY <1>1 DEF Extends, Framed, FrameNames, g

LEMMA MoreFunctions ==
    ASSUME NEW f, Framed(f), NEW v, Listed(v), AreNamed(v), Names(f.functions) \subseteq Names(v)
    PROVE  LET g == [f EXCEPT !.functions = v] IN Extends(f, g) /\ Names(v) \subseteq FrameNames(g)
<1> DEFINE g == [f EXCEPT !.functions = v]
<1>1. /\ DOMAIN g = DOMAIN f /\ g.ns = f.ns /\ g.todo = f.todo /\ g.ignored = f.ignored /\ g.more = f.more
      /\ g.statics = f.statics /\ g.functions = v
  BY DEF Framed, FrameFields
<1> HIDE DEF g
<1> QED
  BY <1>1 DEF Extends, Framed, FrameNames, g

LEMMA OtherReceivers ==
    ASSUME NEW f, Framed(f), NEW r PROVE Extends(f, [f EXCEPT !.receivers = r])
<1> DEFINE g == [f EXCEPT !.receivers = r]
<1>1. /\ DOMAIN g = DOMAIN f /\ g.ns = f.ns /\ g.todo = f.todo /\ g.ignored = f.ignored /\ g.more = f.more
      /\ g.statics = f.statics /\ g.functions = f.functions
  BY DEF Framed, FrameFields
<1> HIDE DEF g
<1> QED
  BY <1>1 DEF Extends, Framed, FrameNames, g

LEMMA LessToDo ==
    ASSUME NEW f, Framed(f), NEW v, Listed(v)
    PROVE  LET g == [f EXCEPT !.todo = v]
           IN  Framed(g) /\ g.ns = f.ns /\ g.todo = v /\ FrameNames(g) = FrameNames(f)
<1> DEFINE g == [f EXCEPT !.todo = v]
<1>1. /\ DOMAIN g = DOMAIN f /\ g.ns = f.ns /\ g.todo = v /\ g.ignored = f.ignored /\ g.more = f.more
      /\ g.statics = f.statics /\ g.functions = f.functions
  BY DEF Framed, FrameFields
<1> HIDE DEF g
<1> QED
  BY <1>1 DEF Framed, FrameNames, g

LEMMA ErrorsAreNamed ==
    ASSUME NEW v, Listed(v), NEW err, NEW name
    PROVE  Listed(WithError(v, err, name)) /\ Names(v) \cup {name} \subseteq Names(WithError(v, err, name))
<1> DEFINE x == Ignored(name, err, name)
<1>1. x.name = name
  BY IgnoredIsNamed
<1>2. WithError(v, err, name) = Push(v, x)
  BY DEF WithError
<1> HIDE DEF x
<1> QED
  BY <1>1, <1>2, PushKeepsNames

(* The functions and variables of an extern block. *)
LEMMA ForeignItemsAreKept ==
    ASSUME NEW f, Framed(f), NEW item, item.kind \in {"function", "static"}
    PROVE  /\ Extends(f, ConvertForeignItem(f, item))
           /\ <<f.ns, FinalName(item)>> \in FrameNames(ConvertForeignItem(f, item))
<1> DEFINE name == <<f.ns, FinalName(item)>>
           fun == FunctionToConvert(f.ns, item)
           static == Api(<<f.ns, Written(item.ident)>>, "static", NoCppName)
           functions == Append(f.functions, fun)
           ignored == WithError(f.ignored, item.refusal, <<f.ns, Written(item.ident)>>)
           statics == Push(f.statics, static)
           after == ConvertForeignItem(f, item)
<1>1. \/ item.kind = "function" /\ after = [f EXCEPT !.functions = functions]
      \/ item.kind = "static" /\ after = [f EXCEPT !.ignored = ignored]
      \/ item.kind = "static" /\ after = [f EXCEPT !.statics = statics]
  BY DEF ConvertForeignItem
<1>2. item.kind = "static" => name = <<f.ns, Written(item.ident)>>
  BY DEF FinalName
<1>3. CASE item.kind = "function" /\ after = [f EXCEPT !.functions = functions]
  <2>1. fun.name = name /\ "name" \in DOMAIN fun
    <3>1. name = <<f.ns, StripBindgenOriginalSuffix(item.ident)>>
      BY <1>3 DEF FinalName
    <3> QED
      BY <3>1, KnowingKeepsTheName DEF FunctionToConvert
  <2> HIDE DEF fun, name
  <2>2. Listed(functions) /\ ToSet(functions) = ToSet(f.functions) \cup {fun}
    BY ListedAppend DEF Framed
  <2>3. Names(functions) = Names(f.functions) \cup {fun.name}
    BY ListedAppend DEF Framed
  <2>4. AreNamed(functions)
    BY <2>1, <2>2 DEF AreNamed, Framed
  <2> HIDE DEF functions
  <2>5. Extends(f, after) /\ Names(functions) \subseteq FrameNames(after)
    BY <1>3, <2>2, <2>3, <2>4, MoreFunctions
  <2> QED
    BY <2>1, <2>3, <2>5 DEF name
<1>4. CASE item.kind = "static" /\ after = [f EXCEPT !.ignored = ignored]
  <2>1. Listed(ignored) /\ Names(f.ignored) \cup {name} \subseteq Names(ignored)
    BY <1>2, <1>4, ErrorsAreNamed DEF Framed
  <2> HIDE DEF ignored, name
  <2>2. Extends(f, after) /\ Names(ignored) \subseteq FrameNames(after)
    BY <1>4, <2>1, MoreIgnored
  <2> QED
    BY <2>1, <2>2 DEF name
<1>5. CASE item.kind = "static" /\ after = [f EXCEPT !.statics = statics]
  <2>1. static.name = name
    BY <1>2, <1>5, KnowingKeepsTheName
  <2> HIDE DEF static, name
  <2>2. Listed(statics) /\ Names(f.statics) \cup {name} \subseteq Names(statics)
    BY <2>1, PushKeepsNames DEF Framed
  <2> HIDE DEF statics
  <2>3. Extends(f, after) /\ Names(statics) \subseteq FrameNames(after)
    BY <1>5, <2>2, MoreStatics
  <2> QED
    BY <2>2, <2>3 DEF name
<1> QED
  BY <1>1, <1>3, <1>4, <1>5

LEMMA ExtendsOnAndOn ==
    ASSUME NEW f, NEW g, NEW k, Extends(f, g), Extends(g, k) PROVE Extends(f, k)
  BY DEF Extends

LEMMA ForeignItemsUnfold ==
    ASSUME NEW f, NEW items, Listed(items)
    PROVE  \E after : /\ after[0] = f
                      /\ \A n \in 1..Len(items) : after[n] = ConvertForeignItem(after[n - 1], items[n])
                      /\ ConvertForeignItems(f, items) = after[Len(items)]
<1> DEFINE F(g, i) == ConvertForeignItem(g[i - 1], items[i])
           Upto(g, n) == g = [i \in 0..n |-> IF i = 0 THEN f ELSE F(g, i)]
           S == {n \in Nat : \E g : Upto(g, n)}
           after == CHOOSE g : Upto(g, Len(items))
<1>1. ConvertForeignItems(f, items) = after[Len(items)]
  BY DEF ConvertForeignItems
<1>8. ASSUME NEW g, NEW h, NEW i, g[i - 1] = h[i - 1] PROVE F(g, i) = F(h, i)
  BY <1>8
<1> HIDE DEF F
<1>2. 0 \in S
  <2>1. Upto([i \in 0..0 |-> f], 0)
    OBVIOUS
  <2> QED
    BY <2>1
<1>3. ASSUME NEW n \in S PROVE n + 1 \in S
  <2>1. PICK g : Upto(g, n)
    OBVIOUS
  <2> DEFINE h == [i \in 0..n + 1 |-> IF i = n + 1 THEN F(g, n + 1) ELSE g[i]]
  <2>2. h[0] = f /\ \A i \in 1..n + 1 : h[i - 1] = g[i - 1]
    BY <2>1
  <2>3. \A i \in 1..n + 1 : F(h, i) = F(g, i)
    BY <2>2, <1>8
  <2>4. \A i \in 1..n + 1 : h[i] = F(g, i)
    BY <2>1, SMTT(60)
  <2>7. \A i \in 0..n + 1 : h[i] = IF i = 0 THEN f ELSE F(h, i)
    <3>1. ASSUME NEW i \in 0..n + 1 PROVE h[i] = IF i = 0 THEN f ELSE F(h, i)
      <4>1. i = 0 \/ i \in 1..n + 1
        OBVIOUS
      <4> QED
        BY <2>2, <2>3, <2>4, <4>1
    <3> QED
      BY <3>1
  <2>8. h = [i \in 0..n + 1 |-> h[i]]
    OBVIOUS
  <2> HIDE DEF h
  <2>5. Upto(h, n + 1)
    BY <2>7, <2>8
  <2>6. n + 1 \in Nat
    OBVIOUS
  <2> HIDE DEF Upto
  <2> QED
    BY <2>5, <2>6
<1>4. Len(items) \in Nat
  BY ListedMeans
<1> HIDE DEF Upto
<1>5. S = Nat
  BY <1>2, <1>3, Induction
<1>6. Upto(after, Len(items))
  BY <1>4, <1>5
<1> HIDE DEF after
<1>7. /\ after[0] = f
      /\ \A n \in 1..Len(items) : after[n] = F(after, n)
  <2>1. 0 \in 0..Len(items) /\ \A n \in 1..Len(items) : n \in 0..Len(items) /\ n # 0
    BY <1>4
  <2> QED
    BY <1>6, <2>1 DEF Upto
<1> QED
  BY <1>1, <1>7 DEF F

LEMMA AllForeignItemsAreKept ==
    ASSUME NEW f, Framed(f), NEW items, Listed(items),
           \A item \in ToSet(items) : item.kind \in {"function", "static"}
    PROVE  /\ Extends(f, ConvertForeignItems(f, items))
           /\ \A item \in ToSet(items) :
                 <<f.ns, FinalName(item)>> \in FrameNames(ConvertForeignItems(f, items))
<1> DEFINE N == Len(items)
           name(item) == <<f.ns, FinalName(item)>>
<1>1. PICK after : /\ after[0] = f
                   /\ \A n \in 1..N : after[n] = ConvertForeignItem(after[n - 1], items[n])
                   /\ ConvertForeignItems(f, items) = after[N]
  BY ForeignItemsUnfold
<1>2. N \in Nat /\ DOMAIN items = 1..N
  BY ListedMeans
<1> DEFINE P(n) == Extends(f, after[n]) /\ \A i \in 1..n : name(items[i]) \in FrameNames(after[n])
           S == {n \in Nat : n <= N => P(n)}
<1>3. 0 \in S
  <2>1. Extends(f, f)
    BY DEF Extends
  <2> QED
    BY <1>1, <2>1
<1>4. ASSUME NEW n \in S PROVE n + 1 \in S
  <2>1. SUFFICES ASSUME n + 1 <= N PROVE P(n + 1)
    OBVIOUS
  <2>2. P(n) /\ n + 1 \in 1..N /\ (n + 1) - 1 = n
    BY <1>2, <2>1
  <2> DEFINE k == after[n]
             m == after[n + 1]
             x == items[n + 1]
  <2>3. m = ConvertForeignItem(k, x)
    BY <1>1, <2>2
  <2>4. Extends(f, k) /\ \A i \in 1..n : name(items[i]) \in FrameNames(k)
    BY <2>2
  <2>5. \A i \in 1..n + 1 : i \in 1..n \/ items[i] = x
    OBVIOUS
  <2>6. x.kind \in {"function", "static"}
    BY <1>2, <2>2 DEF ToSet
  <2>7. k.ns = f.ns /\ Framed(k)
    BY <2>4 DEF Extends
  <2> HIDE DEF k, m, x
  <2>8. Extends(k, m) /\ <<k.ns, FinalName(x)>> \in FrameNames(m)
    BY <2>3, <2>6, <2>7, ForeignItemsAreKept
  <2>9. name(x) \in FrameNames(m)
    BY <2>7, <2>8
  <2> HIDE DEF name
  <2>10. Extends(f, m)
    BY <2>4, <2>8, ExtendsOnAndOn
  <2>11. \A i \in 1..n + 1 : name(items[i]) \in FrameNames(m)
    BY <2>4, <2>5, <2>8, <2>9 DEF Extends
  <2> QED
    BY <2>10, <2>11 DEF m
<1>5. S \in SUBSET Nat
  OBVIOUS
<1> HIDE DEF S
<1>6. S = Nat
  BY <1>3, <1>4, <1>5, Induction
<1> HIDE DEF P, name
<1>7. P(N)
  BY <1>2, <1>6 DEF S
<1>8. Extends(f, after[N]) /\ \A item \in ToSet(items) : name(item) \in FrameNames(after[N])
  BY <1>2, <1>7 DEF P, ToSet
<1> QED
  BY <1>1, <1>8 DEF name

ImplItemByItem(f, class, items, after) ==
    /\ after[0] = f
    /\ \A n \in 1..Len(items) : after[n] = ConvertImplItem(after[n - 1], class, items[n])
    /\ ConvertImplItems(f, class, items) = after[Len(items)]
LEMMA ImplItemsUnfold ==
    ASSUME NEW f, NEW class, NEW items, Listed(items)
    PROVE  \E after : ImplItemByItem(f, class, items, after)
<1> DEFINE F(g, i) == ConvertImplItem(g[i - 1], class, items[i])
           Upto(g, n) == g = [i \in 0..n |-> IF i = 0 THEN f ELSE F(g, i)]
           S == {n \in Nat : \E g : Upto(g, n)}
           after == CHOOSE g : Upto(g, Len(items))
<1>1. ConvertImplItems(f, class, items) = after[Len(items)]
  BY DEF ConvertImplItems
<1>8. ASSUME NEW g, NEW h, NEW i, g[i - 1] = h[i - 1] PROVE F(g, i) = F(h, i)
  BY <1>8
<1> HIDE DEF F
<1>2. 0 \in S
  <2>1. Upto([i \in 0..0 |-> f], 0)
    OBVIOUS
  <2> QED
    BY <2>1
<1>3. ASSUME NEW n \in S PROVE n + 1 \in S
  <2>1. PICK g : Upto(g, n)
    OBVIOUS
  <2> DEFINE h == [i \in 0..n + 1 |-> IF i = n + 1 THEN F(g, n + 1) ELSE g[i]]
  <2>2. h[0] = f /\ \A i \in 1..n + 1 : h[i - 1] = g[i - 1]
    BY <2>1
  <2>3. \A i \in 1..n + 1 : F(h, i) = F(g, i)
    BY <2>2, <1>8
  <2>4. \A i \in 1..n + 1 : h[i] = F(g, i)
    BY <2>1, SMTT(60)
  <2>7. \A i \in 0..n + 1 : h[i] = IF i = 0 THEN f ELSE F(h, i)
    <3>1. ASSUME NEW i \in 0..n + 1 PROVE h[i] = IF i = 0 THEN f ELSE F(h, i)
      <4>1. i = 0 \/ i \in 1..n + 1
        OBVIOUS
      <4> QED
        BY <2>2, <2>3, <2>4, <4>1
    <3> QED
      BY <3>1
  <2>8. h = [i \in 0..n + 1 |-> h[i]]
    OBVIOUS
  <2> HIDE DEF h
  <2>5. Upto(h, n + 1)
    BY <2>7, <2>8
  <2>6. n + 1 \in Nat
    OBVIOUS
  <2> HIDE DEF Upto
  <2> QED
    BY <2>5, <2>6
<1>4. Len(items) \in Nat
  BY ListedMeans
<1> HIDE DEF Upto
<1>5. S = Nat
  BY <1>2, <1>3, Induction
<1>6. Upto(after, Len(items))
  BY <1>4, <1>5
<1> HIDE DEF after
<1>7. /\ after[0] = f
      /\ \A n \in 1..Len(items) : after[n] = F(after, n)
  <2>1. 0 \in 0..Len(items) /\ \A n \in 1..Len(items) : n \in 0..Len(items) /\ n # 0
    BY <1>4
  <2> QED
    BY <1>6, <2>1 DEF Upto
<1>9. ImplItemByItem(f, class, items, after)
  BY <1>1, <1>7 DEF F, ImplItemByItem
<1> QED
  BY <1>9

LEMMA ImplItemsAreReceivers ==
    ASSUME NEW f, Framed(f), NEW class, NEW item
    PROVE  Extends(f, ConvertImplItem(f, class, item))
<1> DEFINE r == (StripBindgenOriginalSuffix(item.ident) :> <<f.ns, class>>) @@ f.receivers
<1>1. ConvertImplItem(f, class, item) = [f EXCEPT !.receivers = r]
  BY DEF ConvertImplItem
<1> HIDE DEF r
<1> QED
  BY <1>1, OtherReceivers

LEMMA ImplItemsKeepTheRest ==
    ASSUME NEW f, Framed(f), NEW class, NEW items, Listed(items)
    PROVE  Extends(f, ConvertImplItems(f, class, items))
<1> PICK after : ImplItemByItem(f, class, items, after)
  BY ImplItemsUnfold
<1>1. /\ after[0] = f
      /\ \A n \in 1..Len(items) : after[n] = ConvertImplItem(after[n - 1], class, items[n])
      /\ ConvertImplItems(f, class, items) = after[Len(items)]
  BY DEF ImplItemByItem
<1> DEFINE N == Len(items)
<1>2. N \in Nat
  BY ListedMeans
<1> DEFINE S == {n \in Nat : n <= N => Extends(f, after[n])}
<1>3. 0 \in S
  BY <1>1 DEF Extends
<1>4. ASSUME NEW n \in S PROVE n + 1 \in S
  <2>1. SUFFICES ASSUME n + 1 <= N PROVE Extends(f, after[n + 1])
    OBVIOUS
  <2>2. Extends(f, after[n]) /\ n + 1 \in 1..N /\ (n + 1) - 1 = n
    BY <1>2, <2>1
  <2>3. after[n + 1] = ConvertImplItem(after[n], class, items[n + 1])
    BY <1>1, <2>2
  <2>4. Framed(after[n])
    BY <2>2 DEF Extends
  <2>5. Extends(after[n], after[n + 1])
    BY <2>3, <2>4, ImplItemsAreReceivers
  <2> QED
    BY <2>2, <2>5, ExtendsOnAndOn
<1>5. S \in SUBSET Nat
  OBVIOUS
<1> HIDE DEF S
<1>6. S = Nat
  BY <1>3, <1>4, <1>5, Induction
<1>7. Extends(f, after[N])
  BY <1>2, <1>6 DEF S
<1> QED
  BY <1>1, <1>7

(* What a mod hands over when it is done. *)
LEMMA FunctionsAreHandedOver ==
    ASSUME NEW f, Framed(f)
    PROVE  LET handed == f.more \o f.ignored \o f.statics \o WithReceivers(f)
           IN  Listed(handed) /\ Names(handed) = FrameNames(f)
<1> DEFINE funs == WithReceivers(f)
           said(x) == [self |-> IF x.name[2] \in DOMAIN f.receivers THEN f.receivers[x.name[2]] ELSE NoCppName]
<1>1. /\ funs = [i \in DOMAIN f.functions |-> funs[i]]
      /\ \A i \in DOMAIN f.functions : funs[i] = Knowing(f.functions[i], said(f.functions[i]))
  BY DEF WithReceivers, Each
<1>2. \A i \in DOMAIN f.functions : "name" \in DOMAIN f.functions[i]
  BY DEF Framed, AreNamed, ToSet
<1> HIDE DEF funs, said
<1>3. \A i \in DOMAIN f.functions : funs[i].name = f.functions[i].name
  BY <1>1, <1>2, KnowingMore
<1>4. Listed(funs) /\ Len(funs) = Len(f.functions)
  BY <1>1, MappedIsListed DEF Framed
<1>5. Names(funs) = Names(f.functions)
  BY <1>3, <1>4, NamedAlike DEF Framed
<1>6. Listed(f.more \o f.ignored) /\ Names(f.more \o f.ignored) = Names(f.more) \cup Names(f.ignored)
  BY ListedConcat DEF Framed
<1>7. /\ Listed(f.more \o f.ignored \o f.statics)
      /\ Names(f.more \o f.ignored \o f.statics) = Names(f.more) \cup Names(f.ignored) \cup Names(f.statics)
  BY <1>6, ListedConcat DEF Framed
<1>8. /\ Listed(f.more \o f.ignored \o f.statics \o funs)
      /\ Names(f.more \o f.ignored \o f.statics \o funs) = FrameNames(f)
  BY <1>4, <1>5, <1>7, ListedConcat DEF FrameNames
<1> QED
  BY <1>8 DEF funs
-----------------------------------------------------------------------------
(* The walk.  E is emitted, names[item] is what an item is called in Rust, and   *)
(* out are the items which are left out; path[m] is the path of mod m.  at[k] is *)
(* the mod frame k is for, entered are the mods which have been met.             *)
Settled(item, taken, out, names, entered) ==
    IF item.kind = "mod" THEN item.id \in entered ELSE item \in out \/ names[item] \in taken
AllSettled(E, m, nodes, taken, out, names, entered) ==
    \A item \in E : item.parent = m =>
        (\E node \in nodes : item \in Stands(node)) \/ Settled(item, taken, out, names, entered)
FrameOk(E, out, names, path, entered, taken, f, m) ==
    /\ Framed(f) /\ f.ns = path[m]
    /\ \A node \in ToSet(f.todo) : NodeOk(E, m, node)
    /\ AllSettled(E, m, ToSet(f.todo), taken \cup FrameNames(f), out, names, entered)
WalkOk(E, out, names, path, fs, taken, at, entered) ==
    /\ Listed(fs) /\ Listed(at) /\ Len(at) = Len(fs)
    /\ RootMod \in entered /\ \A k \in 1..Len(fs) : at[k] \in entered
    /\ \A k \in 1..Len(fs) : FrameOk(E, out, names, path, entered, taken, fs[k], at[k])
    /\ \A m \in entered : \/ \E k \in 1..Len(fs) : at[k] = m
                          \/ AllSettled(E, m, {}, taken, out, names, entered)

LEMMA StaysSettled ==
    ASSUME NEW E, NEW out, NEW names, NEW m, NEW nodes,
           NEW taken, NEW more, taken \subseteq more, NEW entered, NEW later, entered \subseteq later,
           AllSettled(E, m, nodes, taken, out, names, entered)
    PROVE  AllSettled(E, m, nodes, more, out, names, later)
  BY DEF AllSettled, Settled

LEMMA FramesStayOk ==
    ASSUME NEW E, NEW out, NEW names, NEW path, NEW f, NEW m,
           NEW taken, NEW more, taken \subseteq more, NEW entered, NEW later, entered \subseteq later,
           FrameOk(E, out, names, path, entered, taken, f, m)
    PROVE  FrameOk(E, out, names, path, later, more, f, m)
<1>1. taken \cup FrameNames(f) \subseteq more \cup FrameNames(f)
  OBVIOUS
<1>2. AllSettled(E, m, ToSet(f.todo), taken \cup FrameNames(f), out, names, entered)
  BY DEF FrameOk
<1>3. AllSettled(E, m, ToSet(f.todo), more \cup FrameNames(f), out, names, later)
  BY <1>1, <1>2, StaysSettled
<1> QED
  BY <1>3 DEF FrameOk

(* The last of a list makes way for another. *)
LEMMA LastReplaced ==
    ASSUME NEW v, Listed(v), v # <<>>, NEW x
    PROVE  LET w == Append(Front(v), x)
           IN  /\ Listed(w) /\ Len(w) = Len(v) /\ Len(v) \in Nat \ {0}
               /\ w[Len(v)] = x /\ \A k \in 1..Len(v) - 1 : w[k] = v[k]
<1> DEFINE u == Front(v)
           w == Append(u, x)
<1>1. /\ Listed(u) /\ Len(v) \in Nat \ {0} /\ Len(u) = Len(v) - 1
      /\ \A k \in 1..Len(v) - 1 : u[k] = v[k]
  BY ListedFront
<1> HIDE DEF u
<1>2. /\ Listed(w) /\ Len(w) = Len(u) + 1 /\ w[Len(u) + 1] = x
      /\ \A k \in DOMAIN u : w[k] = u[k]
  BY <1>1, ListedAppend
<1>3. DOMAIN u = 1..Len(v) - 1
  BY <1>1, ListedMeans
<1> HIDE DEF w
<1>4. Len(w) = Len(v) /\ w[Len(v)] = x /\ \A k \in 1..Len(v) - 1 : w[k] = v[k]
  BY <1>1, <1>2, <1>3
<1> QED
  BY <1>1, <1>2, <1>4 DEF w, u

(* A node is done: its mod has one node less to do. *)
LEMMA NodeDone ==
    ASSUME NEW E, NEW out, NEW names, NEW path, NEW taken, NEW entered, NEW f, NEW m,
           FrameOk(E, out, names, path, entered, taken, f, m), f.todo # <<>>,
           NEW g, Framed(g), g.ns = f.ns, g.todo = Tail(f.todo), FrameNames(f) \subseteq FrameNames(g),
           NEW more, taken \subseteq more, NEW later, entered \subseteq later,
           \A item \in E : item \in Stands(Head(f.todo)) =>
               Settled(item, more \cup FrameNames(g), out, names, later)
    PROVE  FrameOk(E, out, names, path, later, more, g, m)
<1>1. Listed(f.todo)
  BY DEF FrameOk, Framed
<1>2. ToSet(f.todo) = {Head(f.todo)} \cup ToSet(g.todo)
  BY <1>1, ListedHead
<1>3. \A node \in ToSet(g.todo) : NodeOk(E, m, node)
  BY <1>2 DEF FrameOk
<1>4. AllSettled(E, m, ToSet(f.todo), taken \cup FrameNames(f), out, names, entered)
  BY DEF FrameOk
<1>5. taken \cup FrameNames(f) \subseteq more \cup FrameNames(g)
  OBVIOUS
<1>6. AllSettled(E, m, ToSet(f.todo), more \cup FrameNames(g), out, names, later)
  BY <1>4, <1>5, StaysSettled
<1>7. AllSettled(E, m, ToSet(g.todo), more \cup FrameNames(g), out, names, later)
  BY <1>2, <1>6 DEF AllSettled
<1>8. g.ns = path[m]
  BY DEF FrameOk
<1> QED
  BY <1>3, <1>7, <1>8 DEF FrameOk

(* The mod which is being parsed gets on. *)
LEMMA WalkGoesOn ==
    ASSUME NEW E, NEW out, NEW names, NEW path, NEW fs, NEW taken, NEW at, NEW entered,
           WalkOk(E, out, names, path, fs, taken, at, entered), fs # <<>>,
           NEW more, taken \subseteq more,
           NEW g, FrameOk(E, out, names, path, entered, more, g, at[Len(fs)])
    PROVE  WalkOk(E, out, names, path, Append(Front(fs), g), more, at, entered)
<1> DEFINE N == Len(fs)
           gs == Append(Front(fs), g)
<1>1. Listed(fs)
  BY DEF WalkOk
<1>2. /\ Listed(gs) /\ Len(gs) = N /\ N \in Nat \ {0} /\ gs[N] = g
      /\ \A k \in 1..N - 1 : gs[k] = fs[k]
  BY <1>1, LastReplaced
<1> HIDE DEF gs
<1>3. \A k \in 1..N : FrameOk(E, out, names, path, entered, more, fs[k], at[k])
  BY FramesStayOk DEF WalkOk
<1>4. \A k \in 1..N : k = N \/ k \in 1..N - 1
  BY <1>2
<1>5. \A k \in 1..N : FrameOk(E, out, names, path, entered, more, gs[k], at[k])
  BY <1>2, <1>3, <1>4
<1>6. \A m \in entered : AllSettled(E, m, {}, taken, out, names, entered)
                            => AllSettled(E, m, {}, more, out, names, entered)
  BY StaysSettled
<1> QED
  BY <1>2, <1>5, <1>6 DEF WalkOk, gs

(* It turns to a mod inside it. *)
LEMMA WalkGoesDown ==
    ASSUME NEW E, NEW out, NEW names, NEW path, NEW fs, NEW taken, NEW at, NEW entered,
           WalkOk(E, out, names, path, fs, taken, at, entered), fs # <<>>,
           NEW m, NEW g, FrameOk(E, out, names, path, entered \cup {m}, taken, g, at[Len(fs)]),
           NEW n, FrameOk(E, out, names, path, entered \cup {m}, taken, n, m)
    PROVE  WalkOk(E, out, names, path, Append(Append(Front(fs), g), n), taken, Append(at, m), entered \cup {m})
<1> DEFINE N == Len(fs)
           gs == Append(Front(fs), g)
           ns == Append(gs, n)
           deep == Append(at, m)
           later == entered \cup {m}
<1>1. Listed(fs) /\ Listed(at) /\ Len(at) = N
  BY DEF WalkOk
<1>2. /\ Listed(gs) /\ Len(gs) = N /\ N \in Nat \ {0} /\ gs[N] = g
      /\ \A k \in 1..N - 1 : gs[k] = fs[k]
  BY <1>1, LastReplaced
<1>3. DOMAIN at = 1..N
  BY <1>1, ListedMeans
<1> HIDE DEF gs
<1>4. DOMAIN gs = 1..N
  BY <1>2, ListedMeans
<1>5. /\ Listed(ns) /\ Len(ns) = N + 1 /\ ns[N + 1] = n
      /\ \A k \in 1..N : ns[k] = gs[k]
  BY <1>2, <1>4, ListedAppend
<1>6. /\ Listed(deep) /\ Len(deep) = N + 1 /\ deep[N + 1] = m
      /\ \A k \in 1..N : deep[k] = at[k]
  BY <1>1, <1>3, ListedAppend
<1> HIDE DEF ns, deep
<1>7. \A k \in 1..N : FrameOk(E, out, names, path, later, taken, fs[k], at[k])
  <2>1. taken \subseteq taken /\ entered \subseteq later
    OBVIOUS
  <2> HIDE DEF later
  <2> QED
    BY <2>1, FramesStayOk DEF WalkOk
<1>8. \A k \in 1..N + 1 : k = N + 1 \/ (k \in 1..N /\ (k = N \/ k \in 1..N - 1))
  BY <1>2
<1>9. \A k \in 1..N + 1 : FrameOk(E, out, names, path, later, taken, ns[k], deep[k])
  BY <1>2, <1>5, <1>6, <1>7, <1>8
<1>10. \A k \in 1..N + 1 : deep[k] \in later
  BY <1>6, <1>8 DEF WalkOk
<1>11. \A x \in entered : AllSettled(E, x, {}, taken, out, names, entered)
                             => AllSettled(E, x, {}, taken, out, names, later)
  BY StaysSettled
<1>12. \A x \in entered : \/ \E k \in 1..N : at[k] = x
                          \/ AllSettled(E, x, {}, taken, out, names, entered)
  BY DEF WalkOk
<1>13. \A x \in later : \/ \E k \in 1..N + 1 : deep[k] = x
                        \/ AllSettled(E, x, {}, taken, out, names, later)
  <2>1. N + 1 \in 1..N + 1 /\ \A k \in 1..N : k \in 1..N + 1
    BY <1>2
  <2>2. \A x \in later : x = m \/ x \in entered
    OBVIOUS
  <2> HIDE DEF later
  <2> QED
    BY <1>6, <1>11, <1>12, <2>1, <2>2
<1>14. RootMod \in later
  BY DEF WalkOk
<1> QED
  BY <1>5, <1>6, <1>9, <1>10, <1>13, <1>14 DEF WalkOk, ns, deep, gs

(* A mod is done. *)
LEMMA WalkGoesUp ==
    ASSUME NEW E, NEW out, NEW names, NEW path, NEW fs, NEW taken, NEW at, NEW entered,
           WalkOk(E, out, names, path, fs, taken, at, entered), fs # <<>>,
           Last(fs).todo = <<>>, NEW more, taken \cup FrameNames(Last(fs)) \subseteq more
    PROVE  WalkOk(E, out, names, path, Front(fs), more, Front(at), entered)
<1> DEFINE N == Len(fs)
           gs == Front(fs)
           up == Front(at)
           top == Last(fs)
<1>1. Listed(fs) /\ Listed(at) /\ Len(at) = N
  BY DEF WalkOk
<1>2. /\ Listed(gs) /\ Len(gs) = N - 1 /\ N \in Nat \ {0} /\ top = fs[N]
      /\ \A k \in 1..N - 1 : gs[k] = fs[k]
  BY <1>1, ListedFront
<1>3. at # <<>>
  BY <1>1, <1>2, NothingListed
<1>4. /\ Listed(up) /\ Len(up) = N - 1 /\ \A k \in 1..N - 1 : up[k] = at[k]
  BY <1>1, <1>3, ListedFront
<1> HIDE DEF gs, up, top
<1>5. /\ \A k \in 1..N - 1 : k \in 1..N
      /\ N \in 1..N /\ \A k \in 1..N : k = N \/ k \in 1..N - 1
  BY <1>2
<1>6. \A k \in 1..N : FrameOk(E, out, names, path, entered, more, fs[k], at[k])
  BY FramesStayOk DEF WalkOk, top
<1>7. AllSettled(E, at[N], {}, more, out, names, entered)
  <2>1. FrameOk(E, out, names, path, entered, more, top, at[N])
    BY <1>2, <1>5, <1>6
  <2>2. ToSet(top.todo) = {}
    BY NothingListed DEF top
  <2>3. more \cup FrameNames(top) \subseteq more
    BY DEF top
  <2>4. AllSettled(E, at[N], {}, more \cup FrameNames(top), out, names, entered)
    BY <2>1, <2>2 DEF FrameOk
  <2> QED
    BY <2>3, <2>4, StaysSettled
<1>8. \A x \in entered : AllSettled(E, x, {}, taken, out, names, entered)
                             => AllSettled(E, x, {}, more, out, names, entered)
  BY StaysSettled
<1>9. \A x \in entered : \/ \E k \in 1..N : at[k] = x
                         \/ AllSettled(E, x, {}, taken, out, names, entered)
  BY DEF WalkOk
<1>10. \A x \in entered : \/ \E k \in 1..N - 1 : up[k] = x
                          \/ AllSettled(E, x, {}, more, out, names, entered)
  BY <1>4, <1>5, <1>7, <1>8, <1>9
<1>11. \A k \in 1..N - 1 : up[k] \in entered /\ FrameOk(E, out, names, path, entered, more, gs[k], up[k])
  BY <1>2, <1>4, <1>5, <1>6 DEF WalkOk
<1>12. RootMod \in entered
  BY DEF WalkOk
<1> QED
  BY <1>2, <1>4, <1>10, <1>11, <1>12 DEF WalkOk, gs, up

(* The walk is over: every mod has been met, and all of it is settled. *)
LEMMA WalkIsOver ==
    ASSUME NEW h, WellFormed(h), NEW E, E \subseteq h.items,
           \A item \in h.items : item.kind = "mod" => item \in E,
           NEW out, NEW names, NEW path, NEW taken, NEW at, NEW entered,
           WalkOk(E, out, names, path, <<>>, taken, at, entered)
    PROVE  \A item \in E : item.kind = "mod" \/ item \in out \/ names[item] \in taken
<1> DEFINE S == {n \in Nat : \A item \in E : item.kind = "mod" /\ item.id <= n => item.id \in entered}
<1>1. \A m \in entered : AllSettled(E, m, {}, taken, out, names, entered)
  <2>1. 1..Len(<<>>) = {}
    BY NothingListed
  <2> QED
    BY <2>1 DEF WalkOk
<1>2. RootMod \in entered
  BY DEF WalkOk
<1>3. \A item \in E : item.parent \in entered => Settled(item, taken, out, names, entered)
  BY <1>1 DEF AllSettled
<1>4. \A item \in E : item.id \in Nat \ {0} /\ item.parent \in Nat /\ item.parent < item.id
  BY ItemsById
<1>5. \A item \in E : \/ item.parent = RootMod
                      \/ \E mod \in E : mod.kind = "mod" /\ mod.id = item.parent
  BY ZenonT(60) DEF WellFormed
<1>6. 0 \in S
  BY <1>4
<1>7. ASSUME NEW n \in S PROVE n + 1 \in S
  <2>1. SUFFICES ASSUME NEW item \in E, item.kind = "mod", item.id <= n + 1 PROVE item.id \in entered
    OBVIOUS
  <2>2. item.parent \in Nat /\ item.parent <= n
    BY <1>4, <2>1
  <2>3. item.parent \in entered
    BY <1>2, <1>5, <2>2
  <2> QED
    BY <1>3, <2>1, <2>3 DEF Settled
<1>8. S \in SUBSET Nat
  OBVIOUS
<1> HIDE DEF S
<1>9. S = Nat
  BY <1>6, <1>7, <1>8, Induction
<1>10. \A mod \in E : mod.kind = "mod" => mod.id \in entered
  <2>1. ASSUME NEW mod \in E, mod.kind = "mod" PROVE mod.id \in entered
    <3>1. mod.id \in S /\ mod.id <= mod.id
      BY <1>4, <1>9
    <3> QED
      BY <2>1, <3>1 DEF S
  <2> QED
    BY <2>1
<1>11. \A item \in E : item.parent \in entered
  BY <1>2, <1>5, <1>10
<1> QED
  BY <1>3, <1>11 DEF Settled
-----------------------------------------------------------------------------
(* The states.  What the walk knows of a block and its header. *)
Outs == {item \in Emitted(header) : LeftOut(item)}
NamesInRust == [item \in Emitted(header) |-> NameInRust(item)]
Paths == [m \in {RootMod} \cup Ids(header) |-> PathOf(header, m)]
Walking ==
    \E at, entered : WalkOk(Emitted(header), Outs, NamesInRust, Paths, frames, Names(apis), at, entered)
NothingIsLost ==
    /\ ConfigOk(config) /\ \A h \in headers : WellFormed(h)
    /\ stage \in {"reporting", "parsing", "analysing", "confirming"} => WellFormed(header)
    /\ stage \in {"parsing", "analysing", "confirming"} => Listed(apis)
    /\ stage = "parsing" => Walking
    /\ NothingVanishes

LEMMA SameWorld ==
    ASSUME config' = config, header' = header
    PROVE  /\ Emitted(header)' = Emitted(header) /\ Outs' = Outs
           /\ NamesInRust' = NamesInRust /\ Paths' = Paths
<1>1. \A item : Asked(header, item)' = Asked(header, item)
  BY DEF Asked, NameInBindgen
<1>2. Emitted(header)' = Emitted(header)
  BY <1>1 DEF Emitted
<1>3. \A item : NameInRust(item)' = NameInRust(item)
  BY DEF NameInRust
<1>4. \A item : LeftOut(item)' = LeftOut(item)
  BY <1>3 DEF LeftOut
<1>5. Paths' = Paths
  BY DEF Paths, Ids, PathOf
<1>6. NamesInRust' = NamesInRust
  BY <1>2, <1>3 DEF NamesInRust
<1>7. Outs' = Outs
  BY <1>2, <1>4 DEF Outs
<1> QED
  BY <1>2, <1>5, <1>6, <1>7

LEMMA WhatIsEmitted ==
    /\ Emitted(header) \subseteq header.items
    /\ \A item \in header.items : item.kind = "mod" => item \in Emitted(header)
  BY DEF Emitted

LEMMA FrameOfAMod ==
    ASSUME WellFormed(header), NEW mod, NEW ns, ns = Paths[mod], NEW entered, NEW taken
    PROVE  FrameOk(Emitted(header), Outs, NamesInRust, Paths, entered, taken, Frame(ns, mod), mod)
<1> DEFINE f == Frame(ns, mod)
           rust == RustOf(header, mod)
           E == Emitted(header)
<1>1. /\ DOMAIN f = FrameFields /\ f.ns = ns /\ f.todo = rust /\ f.functions = <<>> /\ f.ignored = <<>>
      /\ f.statics = <<>> /\ f.more = <<>>
  BY DEF Frame, FrameFields
<1>2. /\ Listed(rust) /\ \A node \in ToSet(rust) : NodeOk(E, mod, node)
      /\ \A item \in E : item.parent = mod => \E node \in ToSet(rust) : item \in Stands(node)
  BY RustStandsForAll
<1> HIDE DEF f, rust, E
<1>3. Framed(f)
  BY <1>1, <1>2, NothingListed DEF Framed, AreNamed
<1>4. AllSettled(E, mod, ToSet(rust), taken \cup FrameNames(f), Outs, NamesInRust, entered)
  BY <1>2 DEF AllSettled
<1>5. FrameOk(E, Outs, NamesInRust, Paths, entered, taken, f, mod)
  BY <1>1, <1>2, <1>3, <1>4 DEF FrameOk
<1> QED
  BY <1>5 DEF f, E

(* The mod on top. *)
LEMMA TheTop ==
    ASSUME NothingIsLost, stage = "parsing", frames # <<>>
    PROVE  \E at, entered :
             /\ WalkOk(Emitted(header), Outs, NamesInRust, Paths, frames, Names(apis), at, entered)
             /\ FrameOk(Emitted(header), Outs, NamesInRust, Paths, entered, Names(apis), Top, at[Len(frames)])
             /\ Listed(frames) /\ Listed(at)
<1>1. Walking
  BY DEF NothingIsLost
<1>2. PICK at, entered :
         WalkOk(Emitted(header), Outs, NamesInRust, Paths, frames, Names(apis), at, entered)
  BY <1>1 DEF Walking
<1>3. Listed(frames) /\ Listed(at)
  BY <1>2 DEF WalkOk
<1>4. Top = frames[Len(frames)] /\ Len(frames) \in Nat \ {0}
  BY <1>3, ListedFront DEF Top
<1>5. Len(frames) \in 1..Len(frames)
  BY <1>4
<1>6. FrameOk(Emitted(header), Outs, NamesInRust, Paths, entered, Names(apis), Top, at[Len(frames)])
  BY <1>2, <1>4, <1>5 DEF WalkOk
<1> QED
  BY <1>2, <1>3, <1>6

(* While the walk goes on there is nothing else to say. *)
LEMMA StillWalking ==
    ASSUME NothingIsLost, stage = "parsing", UNCHANGED Converter, Listed(apis'), Walking'
    PROVE  NothingIsLost'
<1>1. config' = config /\ headers' = headers /\ stage' = stage /\ header' = header
  BY DEF Converter, block, bindgen
<1>2. NothingVanishes'
  BY <1>1 DEF NothingVanishes, Parsed
<1> QED
  BY <1>1, <1>2 DEF NothingIsLost

Answered(item, taken) == item.kind # "mod" /\ (LeftOut(item) \/ NameInRust(item) \in taken)

LEMMA NodeAnswered ==
    ASSUME NothingIsLost, stage = "parsing", frames # <<>>, Top.todo # <<>>,
           NEW g, Extends(Top, g), frames' = Walked(g), UNCHANGED Converter,
           Listed(apis'), Names(apis) \subseteq Names(apis'),
           \A item \in Emitted(header) :
               item \in Stands(Node) => Answered(item, Names(apis') \cup FrameNames(g))
    PROVE  NothingIsLost'
<1> DEFINE k == [g EXCEPT !.todo = Tail(@)]
           E == Emitted(header)
           todo == Tail(g.todo)
<1>1. PICK at, entered :
         /\ WalkOk(E, Outs, NamesInRust, Paths, frames, Names(apis), at, entered)
         /\ FrameOk(E, Outs, NamesInRust, Paths, entered, Names(apis), Top, at[Len(frames)])
  BY TheTop
<1>2. Listed(g.todo) /\ g.todo # <<>> /\ Framed(g) /\ g.ns = Top.ns /\ g.todo = Top.todo
  BY DEF Extends, Framed
<1>3. Listed(todo)
  BY <1>2, ListedHead
<1>4. k = [g EXCEPT !.todo = todo]
  OBVIOUS
<1> HIDE DEF todo, k
<1>5. Framed(k) /\ k.ns = g.ns /\ k.todo = todo /\ FrameNames(k) = FrameNames(g)
  BY <1>2, <1>3, <1>4, LessToDo
<1>6. frames' = Append(Front(frames), k)
  BY DEF Walked, k
<1>7. \A item \in E : item \in Stands(Head(Top.todo)) =>
            Settled(item, Names(apis') \cup FrameNames(k), Outs, NamesInRust, entered)
  BY <1>5 DEF Answered, Settled, Outs, NamesInRust, Node
<1>8. /\ k.ns = Top.ns /\ k.todo = Tail(Top.todo) /\ FrameNames(Top) \subseteq FrameNames(k)
  BY <1>2, <1>5 DEF Extends, todo
<1> HIDE DEF E
<1>9. FrameOk(E, Outs, NamesInRust, Paths, entered, Names(apis'), k, at[Len(frames)])
  BY <1>1, <1>5, <1>7, <1>8, NodeDone
<1>10. WalkOk(E, Outs, NamesInRust, Paths, Append(Front(frames), k), Names(apis'), at, entered)
  BY <1>1, <1>9, WalkGoesOn
<1>11. config' = config /\ header' = header
  BY DEF Converter, block, bindgen
<1>12. Names(apis)' = Names(apis')
  BY DEF Names
<1>13. Walking'
  BY <1>6, <1>10, <1>11, <1>12, SameWorld DEF Walking, E
<1> QED
  BY <1>13, StillWalking
-----------------------------------------------------------------------------
(* The nodes, one kind after the other. *)
AloneKinds == {"struct", "enum", "union", "type", "use", "const", "unexpected"}

LEMMA NodeIsItem ==
    ASSUME NothingIsLost, NEW kinds, kinds \subseteq AloneKinds, At(kinds)
    PROVE  /\ stage = "parsing" /\ frames # <<>> /\ Top.todo # <<>> /\ Framed(Top) /\ Extends(Top, Top)
           /\ Node \in Emitted(header) /\ Stands(Node) = {Node} /\ Node.kind # "mod"
           /\ NameInRust(Node) = NameOf(Node) /\ Listed(apis)
<1>1. stage = "parsing" /\ frames # <<>> /\ Top.todo # <<>> /\ Node.kind \in AloneKinds
  BY DEF At
<1>2. PICK at, entered :
         FrameOk(Emitted(header), Outs, NamesInRust, Paths, entered, Names(apis), Top, at[Len(frames)])
  BY <1>1, TheTop
<1> DEFINE m == at[Len(frames)]
<1>3. Framed(Top) /\ Extends(Top, Top)
  BY <1>2 DEF FrameOk, Extends
<1>4. Node \in ToSet(Top.todo)
  BY <1>1, <1>3, ListedHead DEF Framed, Node
<1>5. NodeOk(Emitted(header), m, Node)
  BY <1>2, <1>4 DEF FrameOk
<1>6. Node.kind \notin {"extern", "impl", "mod", "function"}
  BY <1>1 DEF AloneKinds
<1>7. Node \in Emitted(header) /\ Node.parent = m
  BY <1>5, <1>6 DEF NodeOk
<1>8. Stands(Node) = {Node}
  BY <1>6 DEF Stands
<1>9. WellFormed(header) /\ Listed(apis)
  BY <1>1 DEF NothingIsLost
<1>10. Node.parent \in {RootMod} \cup Ids(header)
  BY <1>7, <1>9, ItemsById, WhatIsEmitted
<1>11. Top.ns = PathOf(header, Node.parent)
  BY <1>2, <1>7, <1>10 DEF FrameOk, Paths
<1>12. NameInRust(Node) = NameOf(Node)
  BY <1>6, <1>11 DEF NameInRust, NameOf, FinalName
<1> QED
  BY <1>1, <1>3, <1>6, <1>7, <1>8, <1>9, <1>12

LEMMA NodeNamed ==
    ASSUME NothingIsLost, NEW kinds, kinds \subseteq AloneKinds, At(kinds), UNCHANGED Converter,
           frames' = Walked(Top), Listed(apis'), Names(apis) \subseteq Names(apis'),
           LeftOut(Node) \/ NameOf(Node) \in Names(apis')
    PROVE  NothingIsLost'
<1>1. /\ stage = "parsing" /\ frames # <<>> /\ Top.todo # <<>> /\ Extends(Top, Top)
      /\ Stands(Node) = {Node} /\ Node.kind # "mod" /\ NameInRust(Node) = NameOf(Node)
  BY NodeIsItem
<1>2. \A item \in Emitted(header) :
         item \in Stands(Node) => Answered(item, Names(apis') \cup FrameNames(Top))
  BY <1>1 DEF Answered
<1> QED
  BY <1>1, <1>2, NodeAnswered

LEMMA NodeSkipped ==
    ASSUME NothingIsLost, NEW kinds, kinds \subseteq AloneKinds, At(kinds), UNCHANGED Converter,
           Skip, LeftOut(Node)
    PROVE  NothingIsLost'
<1>1. Listed(apis) /\ apis' = apis /\ frames' = Walked(Top)
  BY NodeIsItem DEF Skip
<1> QED
  BY <1>1, NodeNamed

LEMMA NodePushed ==
    ASSUME NothingIsLost, NEW kinds, kinds \subseteq AloneKinds, At(kinds), UNCHANGED Converter,
           frames' = Walked(Top), NEW api, api.name = NameOf(Node), apis' = Push(apis, api)
    PROVE  NothingIsLost'
<1>1. Listed(apis)
  BY NodeIsItem
<1>2. Listed(apis') /\ Names(apis) \cup {api.name} \subseteq Names(apis')
  BY <1>1, PushKeepsNames
<1>3. NameOf(Node) \in Names(apis') /\ Names(apis) \subseteq Names(apis')
  BY <1>2
<1> HIDE DEF NameOf
<1> QED
  BY <1>2, <1>3, NodeNamed

LEMMA NodeAdded ==
    ASSUME NothingIsLost, NEW kinds, kinds \subseteq AloneKinds, At(kinds), UNCHANGED Converter,
           NEW api, api.name = NameOf(Node), Add(api),
           IsOnBlocklist(config, ToCppName(NameOf(Node))) => LeftOut(Node)
    PROVE  NothingIsLost'
<1>1. Listed(apis)
  BY NodeIsItem
<1>2. frames' = Walked(Top)
  BY DEF Add
<1>3. CASE IsOnBlocklist(config, ToCppName(NameOf(Node)))
  <2>1. apis' = apis
    BY <1>3 DEF Add
  <2> QED
    BY <1>1, <1>2, <1>3, <2>1, NodeNamed
<1>4. CASE ~IsOnBlocklist(config, ToCppName(NameOf(Node)))
  <2>1. apis' = Push(apis, api)
    BY <1>4 DEF Add
  <2> QED
    BY <1>2, <2>1, NodePushed
<1> QED
  BY <1>3, <1>4

LEMMA NodeRefused ==
    ASSUME NothingIsLost, NEW kinds, kinds \subseteq AloneKinds, At(kinds), UNCHANGED Converter,
           NEW err, RefuseItem(err)
    PROVE  NothingIsLost'
<1> DEFINE v == WithError(Top.more, err, NameOf(Node))
           g == [Top EXCEPT !.more = v]
<1>1. /\ stage = "parsing" /\ frames # <<>> /\ Top.todo # <<>> /\ Framed(Top)
      /\ Stands(Node) = {Node} /\ Node.kind # "mod" /\ NameInRust(Node) = NameOf(Node) /\ Listed(apis)
  BY NodeIsItem
<1>2. frames' = Walked(g) /\ apis' = apis
  BY DEF RefuseItem
<1>3. Listed(v) /\ Names(Top.more) \cup {NameOf(Node)} \subseteq Names(v)
  BY <1>1, ErrorsAreNamed DEF Framed
<1> HIDE DEF v
<1>4. Extends(Top, g) /\ Names(v) \subseteq FrameNames(g)
  BY <1>1, <1>3, MoreRefused
<1> HIDE DEF g
<1>5. \A item \in Emitted(header) :
         item \in Stands(Node) => Answered(item, Names(apis') \cup FrameNames(g))
  BY <1>1, <1>3, <1>4 DEF Answered
<1> QED
  BY <1>1, <1>2, <1>4, <1>5, NodeAnswered

LEMMA WhatIsLeftOut ==
    ASSUME NEW item, NEW name, name = NameInRust(item)
    PROVE  /\ item.kind = "struct" =>
                 /\ name[2] \in VtableIdents => LeftOut(item)
                 /\ name \in Substitutes => LeftOut(item)
                 /\ name \in KnownTypes \/ (name[1] = <<>> /\ IsRustType(config, name[2])) => LeftOut(item)
                 /\ IsOnBlocklist(config, ToCppName(name)) => LeftOut(item)
           /\ item.kind = "enum" => (IsOnBlocklist(config, ToCppName(name)) => LeftOut(item))
           /\ item.kind = "use" => (name[2] \in CharacterTypes => LeftOut(item))
           /\ item.kind = "const" => (item.of[2] \in InvalidIdents => LeftOut(item))
           /\ item.kind \in {"union", "unexpected"} => LeftOut(item)
  BY DEF LeftOut

LEMMA StructsAreKept == ASSUME NothingIsLost, ParseStruct PROVE NothingIsLost'
<1> DEFINE name == NameOf(Node)
           cppName == GetOriginalName(results, name)
           forward == ForwardDeclaration(name, cppName)
           struct == Knowing(Api(name, "struct", cppName), [layout |-> GetFact(results, "layout", name)])
           kinds == {"struct"}
<1>1. At(kinds) /\ UNCHANGED Converter /\ kinds \subseteq AloneKinds
  BY DEF ParseStruct, AloneKinds
<1>2. /\ Node.kind = "struct" /\ name = NameInRust(Node) /\ name[1] = Top.ns
  BY <1>1, NodeIsItem DEF At, NameOf
<1>3. forward.name = name /\ struct.name = name
  <2> DEFINE err == [err |-> IF FatalAttr(name) = None /\ Len(cppName) > 1
                             THEN "forward declared nested type" ELSE FatalAttr(name)]
             layout == [layout |-> GetFact(results, "layout", name)]
             one == "forward declaration"
             other == "struct"
  <2>1. /\ forward = Knowing(Api(name, one, cppName), err)
        /\ struct = Knowing(Api(name, other, cppName), layout)
    BY DEF ForwardDeclaration
  <2> HIDE DEF err, layout, forward, struct, name, cppName, one, other
  <2>2. forward.name = name
    BY <2>1, KnowingKeepsTheName
  <2>3. struct.name = name
    BY <2>1, KnowingKeepsTheName
  <2> QED
    BY <2>2, <2>3
<1>4. \/ name[2] \in VtableIdents /\ Skip
      \/ RefuseItem("invalid identifier")
      \/ name \in Substitutes /\ Skip
      \/ (name \in KnownTypes \/ (Top.ns = <<>> /\ IsRustType(config, name[2]))) /\ Skip
      \/ Add(forward) \/ Add(struct)
  <2> HIDE DEF forward, struct
  <2>1. (CASE name[2] \in VtableIdents -> Skip
          [] name[2] \in InvalidIdents -> RefuseItem("invalid identifier")
          [] name \in Substitutes -> Skip
          [] name \in KnownTypes \/ (Top.ns = <<>> /\ IsRustType(config, name[2])) -> Skip
          [] Node.shape = "unused" \/ (Node.shape = "address" /\ FatalAttr(name) # None) -> Add(forward)
          [] OTHER -> Add(struct))
    BY DEF ParseStruct, forward, struct
  <2> HIDE DEF name
  <2> QED
    BY <2>1
<1>5. /\ name[2] \in VtableIdents => LeftOut(Node)
      /\ name \in Substitutes => LeftOut(Node)
      /\ name \in KnownTypes \/ (Top.ns = <<>> /\ IsRustType(config, name[2])) => LeftOut(Node)
      /\ IsOnBlocklist(config, ToCppName(name)) => LeftOut(Node)
  BY <1>2, WhatIsLeftOut
<1> HIDE DEF kinds, forward, struct
<1>6. CASE Skip /\ LeftOut(Node)
  BY <1>1, <1>6, NodeSkipped
<1>7. CASE RefuseItem("invalid identifier")
  BY <1>1, <1>7, NodeRefused
<1>8. CASE Add(forward)
  BY <1>1, <1>3, <1>5, <1>8, NodeAdded
<1>9. CASE Add(struct)
  BY <1>1, <1>3, <1>5, <1>9, NodeAdded
<1> QED
  BY <1>4, <1>5, <1>6, <1>7, <1>8, <1>9

LEMMA EnumsAreKept == ASSUME NothingIsLost, ParseEnum PROVE NothingIsLost'
<1> DEFINE name == NameOf(Node)
           api == Api(name, "enum", GetOriginalName(results, name))
           kinds == {"enum"}
<1>1. At(kinds) /\ UNCHANGED Converter /\ kinds \subseteq AloneKinds
  BY DEF ParseEnum, AloneKinds
<1>2. Node.kind = "enum" /\ name = NameInRust(Node)
  BY <1>1, NodeIsItem DEF At
<1>3. api.name = name
  BY KnowingKeepsTheName
<1>4. RefuseItem("invalid identifier") \/ Add(api)
  BY DEF ParseEnum
<1>5. IsOnBlocklist(config, ToCppName(name)) => LeftOut(Node)
  BY <1>2, WhatIsLeftOut
<1> HIDE DEF kinds, api
<1> QED
  BY <1>1, <1>3, <1>4, <1>5, NodeAdded, NodeRefused

LEMMA UnexpectedAreLeftOut == ASSUME NothingIsLost, ParseUnexpected PROVE NothingIsLost'
<1> DEFINE kinds == {"union", "unexpected"}
<1>1. At(kinds) /\ UNCHANGED Converter /\ kinds \subseteq AloneKinds /\ Skip
  BY DEF ParseUnexpected, AloneKinds
<1>2. Node.kind \in kinds
  BY <1>1 DEF At
<1>3. LeftOut(Node)
  BY <1>2, WhatIsLeftOut
<1> HIDE DEF kinds
<1> QED
  BY <1>1, <1>3, NodeSkipped

LEMMA AliasAdded ==
    ASSUME NothingIsLost, NEW kinds, kinds \subseteq AloneKinds, At(kinds), UNCHANGED Converter,
           NEW old, AddTypedef(old)
    PROVE  NothingIsLost'
<1> DEFINE api == Knowing(Api(NameOf(Node), "typedef", GetOriginalName(results, NameOf(Node))), [old |-> old])
<1>1. api.name = NameOf(Node)
  BY KnowingKeepsTheName
<1>2. frames' = Walked(Top) /\ apis' = Push(apis, api)
  BY DEF AddTypedef
<1> HIDE DEF api
<1> QED
  BY <1>1, <1>2, NodePushed

LEMMA AliasesAreKept == ASSUME NothingIsLost, ParseTypedef PROVE NothingIsLost'
<1> DEFINE kinds == {"type"}
<1>1. At(kinds) /\ UNCHANGED Converter /\ kinds \subseteq AloneKinds /\ AddTypedef(Node.of)
  BY DEF ParseTypedef, AloneKinds
<1> HIDE DEF kinds
<1> QED
  BY <1>1, AliasAdded

LEMMA UsesAreKept == ASSUME NothingIsLost, ParseUse PROVE NothingIsLost'
<1> DEFINE kinds == {"use"}
<1>1. At(kinds) /\ UNCHANGED Converter /\ kinds \subseteq AloneKinds
  BY DEF ParseUse, AloneKinds
<1>2. Node.kind = "use" /\ NameOf(Node) = NameInRust(Node)
  BY <1>1, NodeIsItem DEF At
<1>3. \/ NameOf(Node)[2] \in CharacterTypes /\ Skip
      \/ RefuseItem("infinitely recursive typedef") \/ AddTypedef(Node.of)
  BY DEF ParseUse
<1>4. NameOf(Node)[2] \in CharacterTypes => LeftOut(Node)
  BY <1>2, WhatIsLeftOut
<1> HIDE DEF kinds
<1> QED
  BY <1>1, <1>3, <1>4, NodeSkipped, NodeRefused, AliasAdded

LEMMA ConstsAreKept == ASSUME NothingIsLost, ParseConst PROVE NothingIsLost'
<1> DEFINE api == Api(NameOf(Node), "const", GetOriginalName(results, NameOf(Node)))
           kinds == {"const"}
<1>1. At(kinds) /\ UNCHANGED Converter /\ kinds \subseteq AloneKinds /\ frames' = Walked(Top)
  BY DEF ParseConst, AloneKinds
<1>2. Node.kind = "const" /\ Listed(apis)
  BY <1>1, NodeIsItem DEF At
<1>3. api.name = NameOf(Node)
  BY KnowingKeepsTheName
<1>4. (Node.of[2] \in InvalidIdents /\ apis' = apis) \/ apis' = Push(apis, api)
  BY DEF ParseConst
<1>5. Node.of[2] \in InvalidIdents => LeftOut(Node)
  BY <1>2, WhatIsLeftOut
<1> HIDE DEF kinds, api
<1>6. CASE LeftOut(Node) /\ apis' = apis
  BY <1>1, <1>2, <1>6, NodeNamed
<1>7. CASE apis' = Push(apis, api)
  BY <1>1, <1>3, <1>7, NodePushed
<1> QED
  BY <1>4, <1>5, <1>6, <1>7
-----------------------------------------------------------------------------
(* Blocks of functions, and mods. *)
LEMMA TheNode ==
    ASSUME NothingIsLost, NEW kinds, At(kinds)
    PROVE  /\ stage = "parsing" /\ frames # <<>> /\ Top.todo # <<>> /\ Node.kind \in kinds
           /\ WellFormed(header) /\ Listed(apis) /\ Framed(Top)
           /\ \E at, entered :
                /\ WalkOk(Emitted(header), Outs, NamesInRust, Paths, frames, Names(apis), at, entered)
                /\ FrameOk(Emitted(header), Outs, NamesInRust, Paths, entered, Names(apis), Top, at[Len(frames)])
                /\ NodeOk(Emitted(header), at[Len(frames)], Node)
<1>1. stage = "parsing" /\ frames # <<>> /\ Top.todo # <<>> /\ Node.kind \in kinds
  BY DEF At
<1>2. WellFormed(header) /\ Listed(apis)
  BY <1>1 DEF NothingIsLost
<1>3. PICK at, entered :
         /\ WalkOk(Emitted(header), Outs, NamesInRust, Paths, frames, Names(apis), at, entered)
         /\ FrameOk(Emitted(header), Outs, NamesInRust, Paths, entered, Names(apis), Top, at[Len(frames)])
  BY <1>1, TheTop
<1>4. Framed(Top)
  BY <1>3 DEF FrameOk
<1>5. Node \in ToSet(Top.todo)
  BY <1>1, <1>4, ListedHead DEF Framed, Node
<1>6. NodeOk(Emitted(header), at[Len(frames)], Node)
  BY <1>3, <1>5 DEF FrameOk
<1> QED
  BY <1>1, <1>2, <1>3, <1>4, <1>6

LEMMA ForeignItemsAreNotLost == ASSUME NothingIsLost, ParseForeignItems PROVE NothingIsLost'
<1> DEFINE kinds == {"extern"}
           items == Node.items
           g == ConvertForeignItems(Top, items)
           E == Emitted(header)
<1>1. At(kinds) /\ UNCHANGED Converter /\ frames' = Walked(g) /\ apis' = apis
  BY DEF ParseForeignItems
<1>2. /\ stage = "parsing" /\ frames # <<>> /\ Top.todo # <<>> /\ Node.kind \in kinds
      /\ WellFormed(header) /\ Listed(apis) /\ Framed(Top)
  BY <1>1, TheNode
<1>3. PICK at, entered :
         /\ FrameOk(E, Outs, NamesInRust, Paths, entered, Names(apis), Top, at[Len(frames)])
         /\ NodeOk(E, at[Len(frames)], Node)
  BY <1>1, TheNode
<1> DEFINE m == at[Len(frames)]
<1>4. Node.kind = "extern"
  BY <1>2
<1>5. Listed(items) /\ ToSet(items) \subseteq Foreigners(E, m) /\ Stands(Node) = ToSet(items)
  BY <1>3, <1>4 DEF NodeOk, ItemKinds, Stands
<1>6. \A item \in ToSet(items) : item \in E /\ item.parent = m /\ item.kind \in {"function", "static"}
  BY <1>5 DEF Foreigners
<1>7. \A item \in ToSet(items) : item.kind # "mod"
  BY <1>6
<1>8. Top.ns = Paths[m]
  BY <1>3 DEF FrameOk
<1> HIDE DEF g, m, items
<1>9. Extends(Top, g) /\ \A item \in ToSet(items) : <<Top.ns, FinalName(item)>> \in FrameNames(g)
  <2>1. \A item \in ToSet(items) : item.kind \in {"function", "static"}
    BY <1>6
  <2>2. g = ConvertForeignItems(Top, items)
    BY DEF g
  <2> QED
    BY <1>2, <1>5, <2>1, <2>2, AllForeignItemsAreKept
<1>10. ASSUME NEW item \in ToSet(items) PROVE NameInRust(item) = <<Top.ns, FinalName(item)>>
  <2>1. item \in E /\ item.parent = m
    BY <1>6
  <2>2. m \in {RootMod} \cup Ids(header)
    BY <1>2, <2>1, ItemsById, WhatIsEmitted
  <2>3. Paths[m] = PathOf(header, m)
    BY <2>2 DEF Paths
  <2> QED
    BY <1>8, <2>1, <2>3 DEF NameInRust
<1>11. \A item \in E : item \in Stands(Node) => Answered(item, Names(apis') \cup FrameNames(g))
  BY <1>5, <1>7, <1>9, <1>10 DEF Answered
<1> HIDE DEF kinds, E
<1>12. Listed(apis') /\ Names(apis) \subseteq Names(apis')
  BY <1>1, <1>2
<1> QED
  BY <1>1, <1>2, <1>9, <1>11, <1>12, NodeAnswered DEF E

LEMMA ReceiversLoseNothing == ASSUME NothingIsLost, ParseImpl PROVE NothingIsLost'
<1> DEFINE kinds == {"impl"}
           g == ConvertImplItems(Top, Node.type, Node.items)
<1>1. At(kinds) /\ UNCHANGED Converter /\ frames' = Walked(g) /\ apis' = apis
  BY DEF ParseImpl
<1>2. /\ stage = "parsing" /\ frames # <<>> /\ Top.todo # <<>> /\ Node.kind \in kinds
      /\ Listed(apis) /\ Framed(Top)
  BY <1>1, TheNode
<1>3. PICK m : NodeOk(Emitted(header), m, Node)
  BY <1>1, TheNode
<1>4. Node.kind = "impl"
  BY <1>2
<1>5. Listed(Node.items) /\ Stands(Node) = {}
  BY <1>3, <1>4 DEF NodeOk, ItemKinds, Stands
<1>6. Extends(Top, g)
  BY <1>2, <1>5, ImplItemsKeepTheRest
<1> HIDE DEF g, kinds
<1>7. \A item \in Emitted(header) :
         item \in Stands(Node) => Answered(item, Names(apis') \cup FrameNames(g))
  BY <1>5
<1>8. Listed(apis') /\ Names(apis) \subseteq Names(apis')
  BY <1>1, <1>2
<1> QED
  BY <1>1, <1>2, <1>6, <1>7, <1>8, NodeAnswered

LEMMA ModsAreEntered == ASSUME NothingIsLost, EnterMod PROVE NothingIsLost'
<1> DEFINE kinds == {"mod"}
           E == Emitted(header)
           id == Node.id
           todo == Tail(Top.todo)
           g == [Top EXCEPT !.todo = Tail(@)]
           ns == Append(Top.ns, Written(Node.ident))
           n == Frame(ns, id)
<1>1. /\ At(kinds) /\ UNCHANGED Converter /\ apis' = apis
      /\ frames' = Append(Append(Front(frames), g), n)
  BY DEF EnterMod, Walked
<1>2. /\ stage = "parsing" /\ frames # <<>> /\ Top.todo # <<>> /\ Node.kind \in kinds
      /\ WellFormed(header) /\ Listed(apis) /\ Framed(Top)
  BY <1>1, TheNode
<1>3. PICK at, entered :
         /\ WalkOk(E, Outs, NamesInRust, Paths, frames, Names(apis), at, entered)
         /\ FrameOk(E, Outs, NamesInRust, Paths, entered, Names(apis), Top, at[Len(frames)])
         /\ NodeOk(E, at[Len(frames)], Node)
  BY <1>1, TheNode
<1> DEFINE m == at[Len(frames)]
           later == entered \cup {id}
<1>4. Node.kind = "mod"
  BY <1>2
<1>5. Node \in E /\ Node.parent = m /\ Stands(Node) = {Node}
  BY <1>3, <1>4 DEF NodeOk, Stands
<1>6. Node \in header.items
  BY <1>5, WhatIsEmitted
<1>7. id \in Ids(header) /\ m \in {RootMod} \cup Ids(header)
  BY <1>2, <1>5, <1>6, ItemsById DEF Ids
<1>8. Top.ns = Paths[m]
  BY <1>3 DEF FrameOk
<1>9. ns = Paths[id]
  <2>1. PathOf(header, id) = Append(PathOf(header, m), Written(Node.ident))
    BY <1>2, <1>5, <1>6, PathsGoDown
  <2> QED
    BY <1>7, <1>8, <2>1 DEF Paths
<1>10. Listed(todo) /\ g = [Top EXCEPT !.todo = todo]
  BY <1>2, ListedHead DEF Framed
<1> HIDE DEF g, todo
<1>11. Framed(g) /\ g.ns = Top.ns /\ g.todo = todo /\ FrameNames(g) = FrameNames(Top)
  BY <1>2, <1>10, LessToDo
<1>12. \A item \in E : item \in Stands(Head(Top.todo)) =>
            Settled(item, Names(apis) \cup FrameNames(g), Outs, NamesInRust, later)
  BY <1>4, <1>5 DEF Settled, Node
<1> HIDE DEF n, ns, E, m, id
<1>13. FrameOk(E, Outs, NamesInRust, Paths, later, Names(apis), g, m)
  <2>1. entered \subseteq later /\ Names(apis) \subseteq Names(apis)
    OBVIOUS
  <2>2. FrameOk(E, Outs, NamesInRust, Paths, entered, Names(apis), Top, m)
    BY <1>3 DEF m
  <2>3. g.todo = Tail(Top.todo) /\ FrameNames(Top) \subseteq FrameNames(g)
    BY <1>11 DEF todo
  <2> HIDE DEF later
  <2> QED
    BY <1>2, <1>11, <1>12, <2>1, <2>2, <2>3, NodeDone
<1>14. FrameOk(E, Outs, NamesInRust, Paths, later, Names(apis), n, id)
  <2> HIDE DEF later
  <2> QED
    BY <1>2, <1>9, FrameOfAMod DEF E, n
<1>15. WalkOk(E, Outs, NamesInRust, Paths, Append(Append(Front(frames), g), n), Names(apis), Append(at, id), later)
  BY <1>2, <1>3, <1>13, <1>14, WalkGoesDown DEF m
<1>16. config' = config /\ header' = header
  BY <1>1 DEF Converter, block, bindgen
<1>17. Names(apis)' = Names(apis)
  BY <1>1 DEF Names
<1> HIDE DEF later
<1>18. Walking'
  BY <1>1, <1>15, <1>16, <1>17, SameWorld DEF Walking, E
<1>19. Listed(apis')
  BY <1>1, <1>2
<1> QED
  BY <1>1, <1>2, <1>18, <1>19, StillWalking

LEMMA ModsAreLeft == ASSUME NothingIsLost, LeaveMod PROVE NothingIsLost'
<1> DEFINE handed == Top.more \o Top.ignored \o Top.statics \o WithReceivers(Top)
           E == Emitted(header)
<1>1. /\ stage = "parsing" /\ frames # <<>> /\ Top.todo = <<>> /\ UNCHANGED Converter
      /\ apis' = PushAll(apis, handed) /\ frames' = Front(frames)
  BY DEF LeaveMod
<1>2. PICK at, entered :
         /\ WalkOk(E, Outs, NamesInRust, Paths, frames, Names(apis), at, entered)
         /\ FrameOk(E, Outs, NamesInRust, Paths, entered, Names(apis), Top, at[Len(frames)])
  BY <1>1, TheTop
<1>3. Framed(Top)
  BY <1>2 DEF FrameOk
<1>4. Listed(handed) /\ Names(handed) = FrameNames(Top)
  BY <1>3, FunctionsAreHandedOver
<1>5. Listed(apis)
  BY <1>1 DEF NothingIsLost
<1> HIDE DEF handed, E
<1>6. Listed(apis') /\ Names(apis) \cup FrameNames(Top) \subseteq Names(apis')
  BY <1>1, <1>4, <1>5, PushAllKeepsNames
<1>7. WalkOk(E, Outs, NamesInRust, Paths, Front(frames), Names(apis'), Front(at), entered)
  BY <1>1, <1>2, <1>6, WalkGoesUp DEF Top
<1>8. config' = config /\ header' = header
  BY <1>1 DEF Converter, block, bindgen
<1>9. Names(apis)' = Names(apis')
  BY DEF Names
<1>10. Walking'
  BY <1>1, <1>7, <1>8, <1>9, SameWorld DEF Walking, E
<1> QED
  BY <1>1, <1>6, <1>10, StillWalking
-----------------------------------------------------------------------------
(* Before the walk and after it. *)
LEMMA NothingIsLostYet == ASSUME Init PROVE NothingIsLost
<1>1. PICK b \in Blocks :
         /\ config = ParseConfig(b.directives) /\ headers = b.headers
         /\ stage \in {"not parsed", "parse only", "not generated"}
  <2> DEFINE first == CASE config.refused -> "not parsed"
                        [] "parse_only" \in config.flags -> "parse only"
                        [] OTHER -> "not generated"
  <2>1. first \in {"not parsed", "parse only", "not generated"}
    OBVIOUS
  <2> HIDE DEF first
  <2>2. \E b \in Blocks : config = ParseConfig(b.directives) /\ headers = b.headers /\ stage = first
    BY DEF Init, first
  <2> QED
    BY <2>1, <2>2
<1>2. Listed(b.directives) /\ \A h \in headers : WellFormed(h)
  BY <1>1, BlocksAssumption DEF Listed
<1>3. ConfigOk(config)
  BY <1>1, <1>2, WhatIsParsedIsOk
<1>4. ~Parsed
  BY <1>1 DEF Parsed
<1> QED
  BY <1>1, <1>2, <1>3, <1>4 DEF NothingIsLost, NothingVanishes

LEMMA ConversionBegins == ASSUME NothingIsLost, StartConverting PROVE NothingIsLost'
<1> DEFINE f == Frame(<<>>, RootMod)
           E == Emitted(header)
           at == <<RootMod>>
           entered == {RootMod}
           one == <<f>>
<1>1. /\ stage = "reporting" /\ stage' = "parsing" /\ config' = config /\ headers' = headers
      /\ header' = header /\ apis' = PushAll(<<>>, ApisFromConfig) /\ frames' = one
  BY DEF StartConverting, block
<1>2. WellFormed(header) /\ ConfigOk(config) /\ \A h \in headers : WellFormed(h)
  BY <1>1 DEF NothingIsLost
<1>3. Listed(apis')
  <2>1. Listed(ApisFromConfig)
    BY <1>2, WhatTheConfigAddsIsListed
  <2> DEFINE none == <<>>
  <2>2. Listed(none) /\ apis' = PushAll(none, ApisFromConfig)
    BY <1>1, NothingListed
  <2> HIDE DEF none
  <2> QED
    BY <2>1, <2>2, PushAllKeepsNames
<1>4. Paths[RootMod] = <<>>
  BY <1>2, PathsGoDown DEF Paths
<1>5. FrameOk(E, Outs, NamesInRust, Paths, entered, Names(apis'), f, RootMod)
  <2> DEFINE ns == <<>>
  <2>1. ns = Paths[RootMod] /\ f = Frame(ns, RootMod)
    BY <1>4
  <2> HIDE DEF ns, entered, f
  <2> QED
    BY <1>2, <2>1, FrameOfAMod
<1>6. /\ Listed(one) /\ Len(one) = 1 /\ one[1] = f
      /\ Listed(at) /\ Len(at) = 1 /\ at[1] = RootMod
  BY Singles
<1> HIDE DEF f, at, one, E
<1>7. 1..Len(one) = {1} /\ RootMod \in entered /\ \A m \in entered : m = RootMod
  BY <1>6
<1> HIDE DEF entered
<1>8. WalkOk(E, Outs, NamesInRust, Paths, one, Names(apis'), at, entered)
  BY <1>5, <1>6, <1>7 DEF WalkOk
<1>9. Names(apis)' = Names(apis')
  BY DEF Names
<1>10. Walking'
  BY <1>1, <1>8, <1>9, SameWorld DEF Walking, E
<1>11. ~Parsed'
  BY <1>1 DEF Parsed
<1> QED
  BY <1>1, <1>2, <1>3, <1>10, <1>11 DEF NothingIsLost, NothingVanishes

LEMMA NamesOfAll == ASSUME NEW v PROVE Names(v) = {x.name : x \in ToSet(v)}
  BY DEF Names, ToSet

LEMMA ReplacingKeepsNames ==
    ASSUME ConfigOk(config), Listed(apis)
    PROVE  Listed(ReplaceExternCppTypes(apis)) /\ Names(apis) \subseteq Names(ReplaceExternCppTypes(apis))
<1> DEFINE keys == DOMAIN config.externs
           replacements == {ExternApi(cppName) : cppName \in keys}
           names == {r.name : r \in replacements}
           new == SetToSeq(replacements)
           rest == WithoutAll(apis, names)
<1>1. ReplaceExternCppTypes(apis) = PushAll(rest, new)
  BY DEF ReplaceExternCppTypes
<1>2. IsFiniteSet(replacements)
  <2> DEFINE f == [cppName \in keys |-> ExternApi(cppName)]
  <2>1. f \in Surjection(keys, replacements)
    BY DEF Surjection
  <2>2. IsFiniteSet(keys)
    BY DEF ConfigOk
  <2> HIDE DEF f, keys, replacements
  <2> QED
    BY <2>1, <2>2, FS_Surjection
<1> HIDE DEF replacements
<1>3. Listed(new) /\ Names(new) = names
  BY <1>2, SetsAreListed, NamesOfAll
<1>4. Listed(rest) /\ Names(rest) = Names(apis) \ names
  BY WithoutKeepsTheRest
<1> HIDE DEF new, rest, names
<1>5. Listed(PushAll(rest, new)) /\ Names(rest) \cup Names(new) \subseteq Names(PushAll(rest, new))
  BY <1>3, <1>4, PushAllKeepsNames
<1> QED
  BY <1>1, <1>3, <1>4, <1>5

LEMMA WalkLosesNothing ==
    ASSUME NothingIsLost, stage = "parsing", frames = <<>>
    PROVE  \A item \in Emitted(header) :
              item.kind = "mod" \/ LeftOut(item) \/ NameInRust(item) \in Names(apis)
<1>1. WellFormed(header) /\ Walking
  BY DEF NothingIsLost
<1>2. PICK at, entered : WalkOk(Emitted(header), Outs, NamesInRust, Paths, <<>>, Names(apis), at, entered)
  BY <1>1 DEF Walking
<1>3. \A item \in Emitted(header) :
         item.kind = "mod" \/ item \in Outs \/ NamesInRust[item] \in Names(apis)
  BY <1>1, <1>2, WhatIsEmitted, WalkIsOver
<1> QED
  BY <1>3 DEF Outs, NamesInRust

(* What is named stays named. *)
LEMMA StaysNamed ==
    ASSUME config' = config, header' = header, Names(apis) \subseteq Names(apis'),
           \A item \in Emitted(header) :
              item.kind = "mod" \/ LeftOut(item) \/ NameInRust(item) \in Names(apis)
    PROVE  NothingVanishes'
<1>1. Emitted(header)' = Emitted(header)
  BY SameWorld
<1>2. Names(apis)' = Names(apis')
  BY DEF Names
<1>3. \A item : NameInRust(item)' = NameInRust(item)
  BY DEF NameInRust
<1>4. \A item : LeftOut(item)' = LeftOut(item)
  BY <1>3 DEF LeftOut
<1> QED
  BY <1>1, <1>2, <1>3, <1>4 DEF NothingVanishes

LEMMA ParsingIsFinished == ASSUME NothingIsLost, FinishParsing PROVE NothingIsLost'
<1>1. /\ stage = "parsing" /\ frames = <<>> /\ config' = config /\ headers' = headers /\ header' = header
      /\ \/ stage' = "not generated"
         \/ stage' = "analysing" /\ apis' = ReplaceExternCppTypes(apis)
  BY DEF FinishParsing, Refuse, block, bindgen
<1>2. ConfigOk(config) /\ WellFormed(header) /\ Listed(apis) /\ \A h \in headers : WellFormed(h)
  BY <1>1 DEF NothingIsLost
<1>3. CASE stage' = "not generated"
  BY <1>1, <1>2, <1>3 DEF NothingIsLost, NothingVanishes, Parsed
<1>4. CASE stage' = "analysing" /\ apis' = ReplaceExternCppTypes(apis)
  <2>1. Listed(apis') /\ Names(apis) \subseteq Names(apis')
    BY <1>2, <1>4, ReplacingKeepsNames
  <2>2. NothingVanishes'
    BY <1>1, <2>1, WalkLosesNothing, StaysNamed
  <2> QED
    BY <1>1, <1>2, <1>4, <2>1, <2>2 DEF NothingIsLost
<1> QED
  BY <1>1, <1>3, <1>4

LEMMA GivenUpAreNamed ==
    ASSUME NEW v, Listed(v), NEW lost PROVE Listed(GiveUp(v, lost)) /\ Names(GiveUp(v, lost)) = Names(v)
<1> DEFINE w == GiveUp(v, lost)
           given(x) == Ignored(x.name, "given up", x.name)
<1>1. /\ w = [i \in DOMAIN v |-> w[i]]
      /\ \A i \in DOMAIN v : w[i] = IF v[i] \in lost THEN given(v[i]) ELSE v[i]
  BY DEF GiveUp, Each
<1>2. \A x : given(x).name = x.name
  BY IgnoredIsNamed
<1> HIDE DEF w, given
<1>3. \A i \in DOMAIN v : w[i].name = v[i].name
  BY <1>1, <1>2
<1>4. Listed(w) /\ Len(w) = Len(v)
  BY <1>1, MappedIsListed
<1> QED
  BY <1>3, <1>4, NamedAlike DEF w

LEMMA AnalysesLoseNothing == ASSUME NothingIsLost, Analyse PROVE NothingIsLost'
<1>1. /\ stage = "analysing" /\ stage' = "confirming"
      /\ config' = config /\ headers' = headers /\ header' = header
      /\ \E lost : apis' = GiveUp(apis, lost)
  BY DEF Analyse, block, bindgen
<1>2. /\ ConfigOk(config) /\ WellFormed(header) /\ Listed(apis) /\ \A h \in headers : WellFormed(h)
      /\ NothingVanishes
  BY <1>1 DEF NothingIsLost
<1>3. Listed(apis') /\ Names(apis') = Names(apis)
  BY <1>1, <1>2, GivenUpAreNamed
<1>4. NothingVanishes'
  BY <1>1, <1>2, <1>3, StaysNamed DEF NothingVanishes, Parsed
<1> QED
  BY <1>1, <1>2, <1>3, <1>4 DEF NothingIsLost

LEMMA ConfirmingLosesNothing == ASSUME NothingIsLost, Confirm PROVE NothingIsLost'
<1>1. /\ stage = "confirming" /\ apis' = apis
      /\ config' = config /\ headers' = headers /\ header' = header
  BY DEF Confirm, block, bindgen
<1>2. stage' \in {"not generated", "generated"}
  BY DEF Confirm, Refuse
<1>3. ConfigOk(config) /\ (\A h \in headers : WellFormed(h)) /\ NothingVanishes
  BY DEF NothingIsLost
<1>4. NothingVanishes'
  BY <1>1, <1>3, StaysNamed DEF NothingVanishes, Parsed
<1> QED
  BY <1>1, <1>2, <1>3, <1>4 DEF NothingIsLost

LEMMA GeneratingBegins == ASSUME NothingIsLost, StartGenerating PROVE NothingIsLost'
<1>1. /\ config' = ConfirmComplete(config) /\ headers' = headers
      /\ \/ stage' = "not generated"
         \/ stage' = "reporting" /\ header' \in headers
  BY DEF StartGenerating, Refuse
<1>2. ConfigOk(config) /\ \A h \in headers : WellFormed(h)
  BY DEF NothingIsLost
<1>3. ConfigOk(config')
  BY <1>1, <1>2 DEF ConfirmComplete, ConfigOk
<1>4. NothingVanishes'
  BY <1>1 DEF NothingVanishes, Parsed
<1> QED
  BY <1>1, <1>2, <1>3, <1>4 DEF NothingIsLost

LEMMA ReportingLosesNothing == ASSUME NothingIsLost, ReportItem \/ BindgenFails PROVE NothingIsLost'
<1>1. /\ stage = "reporting" /\ stage' \in {"reporting", "not generated"}
      /\ config' = config /\ headers' = headers /\ header' = header
  BY DEF ReportItem, BindgenFails, Refuse, block, bindgen
<1>2. ConfigOk(config) /\ (\A h \in headers : WellFormed(h)) /\ WellFormed(header)
  BY <1>1 DEF NothingIsLost
<1>3. NothingVanishes'
  BY <1>1 DEF NothingVanishes, Parsed
<1> QED
  BY <1>1, <1>2, <1>3 DEF NothingIsLost

LEMMA NothingIsEverLost == ASSUME NothingIsLost, [Next]_vars PROVE NothingIsLost'
<1>1. CASE Parse
  <2>1. \/ ParseStruct \/ ParseEnum \/ ParseUnexpected \/ ParseTypedef \/ ParseUse \/ ParseConst
        \/ ParseForeignItems \/ ParseImpl \/ EnterMod \/ LeaveMod
    BY <1>1 DEF Parse
  <2> QED
    BY <2>1, StructsAreKept, EnumsAreKept, UnexpectedAreLeftOut, AliasesAreKept, UsesAreKept, ConstsAreKept,
       ForeignItemsAreNotLost, ReceiversLoseNothing, ModsAreEntered, ModsAreLeft
<1>2. CASE UNCHANGED vars
  <2>1. /\ config' = config /\ headers' = headers /\ stage' = stage /\ header' = header
        /\ apis' = apis /\ frames' = frames
    BY <1>2 DEF vars
  <2>2. Names(apis)' = Names(apis)
    BY <2>1 DEF Names
  <2>3. Walking => Walking'
    BY <2>1, <2>2, SameWorld DEF Walking
  <2>4. NothingVanishes'
    <3>1. Parsed' => Parsed
      BY <2>1 DEF Parsed
    <3> QED
      BY <2>1, <2>2, <3>1, StaysNamed DEF NothingIsLost, NothingVanishes
  <2> QED
    BY <2>1, <2>3, <2>4 DEF NothingIsLost
<1>3. CASE StartGenerating
  BY <1>3, GeneratingBegins
<1>4. CASE ReportItem \/ BindgenFails
  BY <1>4, ReportingLosesNothing
<1>5. CASE StartConverting
  BY <1>5, ConversionBegins
<1>6. CASE FinishParsing
  BY <1>6, ParsingIsFinished
<1>7. CASE Analyse
  BY <1>7, AnalysesLoseNothing
<1>8. CASE Confirm
  BY <1>8, ConfirmingLosesNothing
<1> QED
  BY <1>1, <1>2, <1>3, <1>4, <1>5, <1>6, <1>7, <1>8 DEF Next

(* For every block, every header bindgen may find for it and every attempt: a   *)
(* declaration bindgen emitted is an API when the walk over the Rust is over,   *)
(* and stays one through the replacements, the analyses and the confirmations;  *)
(* the ones without are those autocxx or the user replaces, and the unions.     *)
THEOREM NothingEverVanishes == Spec => []NothingVanishes
<1>1. Init => NothingIsLost
  BY NothingIsLostYet
<1>2. NothingIsLost /\ [Next]_vars => NothingIsLost'
  BY NothingIsEverLost
<1>3. NothingIsLost => NothingVanishes
  BY DEF NothingIsLost
<1> QED
  BY <1>1, <1>2, <1>3, PTL DEF Spec
-----------------------------------------------------------------------------
(* Reading back what was written out. Whatever a series of directives makes   *)
(* of a configuration it makes one directive at a time.                       *)
StepByStep(after, ds, c, d) ==
    /\ after[0] = c /\ after[Len(ds)] = d
    /\ \A n \in 1..Len(ds) : after[n] = ParseDirective(after[n - 1], ds[n])
Leads(c, ds, d) == \E after : StepByStep(after, ds, c, d)

LEMMA LeadsNowhere == ASSUME NEW c PROVE Leads(c, <<>>, c)
<1> DEFINE after == [n \in {0} |-> c]
<1>1. after[0] = c /\ Len(<<>>) = 0 /\ 1..0 = {}
  OBVIOUS
<1> QED
  BY <1>1 DEF Leads, StepByStep

LEMMA LeadsByOne ==
    ASSUME NEW c, NEW d
    PROVE  Leads(c, <<d>>, ParseDirective(c, d))
<1> DEFINE after == [n \in 0..1 |-> IF n = 0 THEN c ELSE ParseDirective(c, d)]
           ds == <<d>>
<1>1. after[0] = c /\ Len(ds) = 1 /\ after[1] = ParseDirective(c, d) /\ ds[1] = d
  OBVIOUS
<1>2. \A n \in 1..Len(ds) : after[n] = ParseDirective(after[n - 1], ds[n])
  <2>1. 1..Len(ds) = {1} /\ 1 - 1 = 0
    BY <1>1
  <2> QED
    BY <1>1, <2>1
<1> QED
  BY <1>1, <1>2 DEF Leads, StepByStep

LEMMA LeadsOn ==
    ASSUME NEW s, Listed(s), NEW t, Listed(t), NEW c, NEW d, NEW e, Leads(c, s, d), Leads(d, t, e)
    PROVE  Leads(c, s \o t, e) /\ Listed(s \o t)
<1> DEFINE M == Len(s)
           N == Len(t)
           u == s \o t
<1>1. PICK a : a[0] = c /\ a[M] = d /\ \A n \in 1..M : a[n] = ParseDirective(a[n - 1], s[n])
  BY DEF Leads, StepByStep
<1>2. PICK b : b[0] = d /\ b[N] = e /\ \A n \in 1..N : b[n] = ParseDirective(b[n - 1], t[n])
  BY DEF Leads, StepByStep
<1>3. /\ M \in Nat /\ N \in Nat /\ Len(u) = M + N /\ Listed(u)
      /\ \A n \in 1..M : u[n] = s[n]
      /\ \A n \in M + 1..M + N : u[n] = t[n - M]
  <2>1. s \in Seq(ToSet(s) \cup ToSet(t)) /\ t \in Seq(ToSet(s) \cup ToSet(t))
    BY ListedIn
  <2> QED
    BY <2>1, ListedConcat, ListedMeans
<1> DEFINE after == [n \in 0..M + N |-> IF n <= M THEN a[n] ELSE b[n - M]]
<1> HIDE DEF M, N, u
<1>4. after[0] = c /\ after[M + N] = e
  <2>1. 0 \in 0..M + N /\ M + N \in 0..M + N /\ (M + N) - M = N /\ (M + N <= M => N = 0 /\ M + N = M)
    BY <1>3
  <2> QED
    BY <1>1, <1>2, <1>3, <2>1
<1>5. ASSUME NEW n \in 1..M + N PROVE after[n] = ParseDirective(after[n - 1], u[n])
  <2>1. CASE n <= M
    <3>1. n \in 1..M /\ n - 1 \in 0..M + N /\ n - 1 <= M /\ n \in 0..M + N
      BY <1>3, <2>1
    <3>2. after[n] = a[n] /\ after[n - 1] = a[n - 1] /\ u[n] = s[n]
      BY <1>3, <3>1
    <3> QED
      BY <1>1, <3>1, <3>2
  <2>2. CASE n > M
    <3>1. n - M \in 1..N /\ n \in 0..M + N /\ n - 1 \in 0..M + N /\ (n - M) - 1 = (n - 1) - M /\ n \in M + 1..M + N
      BY <1>3, <2>2
    <3>2. after[n] = b[n - M] /\ u[n] = t[n - M]
      BY <1>3, <2>2, <3>1
    <3>3. after[n - 1] = b[(n - M) - 1]
      <4>1. CASE n - 1 = M
        BY <1>1, <1>2, <1>3, <3>1, <4>1
      <4>2. CASE n - 1 > M
        BY <3>1, <1>3, <4>2
      <4> QED
        BY <1>3, <2>2, <4>1, <4>2
    <3> QED
      BY <1>2, <3>1, <3>2, <3>3
  <2> QED
    BY <1>3, <2>1, <2>2
<1> HIDE DEF after
<1> QED
  BY <1>3, <1>4, <1>5 DEF Leads, StepByStep, u

LEMMA LeadsThere ==
    ASSUME NEW ds, Listed(ds), NEW d, Leads(NewConfig, ds, d)
    PROVE  ParseConfig(ds) = d
<1> DEFINE N == Len(ds)
<1>1. PICK a : a[0] = NewConfig /\ a[N] = d /\ \A n \in 1..N : a[n] = ParseDirective(a[n - 1], ds[n])
  BY DEF Leads, StepByStep
<1>2. PICK b : /\ b[0] = NewConfig /\ \A n \in 1..N : b[n] = ParseDirective(b[n - 1], ds[n])
               /\ ParseConfig(ds) = b[N]
  BY ParseConfigUnfold
<1> DEFINE S == {n \in Nat : n <= N => a[n] = b[n]}
<1>3. N \in Nat
  BY ListedMeans
<1>4. 0 \in S
  BY <1>1, <1>2
<1>5. ASSUME NEW n \in S PROVE n + 1 \in S
  <2>1. SUFFICES ASSUME n + 1 <= N PROVE a[n + 1] = b[n + 1]
    OBVIOUS
  <2>2. a[n] = b[n] /\ n + 1 \in 1..N /\ (n + 1) - 1 = n
    BY <1>3, <2>1
  <2>3. a[n + 1] = ParseDirective(a[n], ds[n + 1]) /\ b[n + 1] = ParseDirective(b[n], ds[n + 1])
    BY <1>1, <1>2, <2>2
  <2> QED
    BY <2>2, <2>3
<1>6. S \in SUBSET Nat
  OBVIOUS
<1> HIDE DEF S
<1>7. S = Nat
  BY <1>4, <1>5, <1>6, Induction
<1> QED
  BY <1>1, <1>2, <1>3, <1>7 DEF S

(* A list, and a map by a list of its keys, as far as they have been read. *)
FirstOf(v, n) == SubSeq(v, 1, n)
FirstKeys(keys, n) == {keys[i] : i \in 1..n}
EntriesAt(f, keys, n) == [k \in FirstKeys(keys, n) |-> f[k]]

LEMMA FirstOfAll ==
    ASSUME NEW v, Listed(v)
    PROVE  /\ FirstOf(v, 0) = <<>> /\ FirstOf(v, Len(v)) = v
           /\ \A n \in 1..Len(v) : FirstOf(v, n) = Append(FirstOf(v, n - 1), v[n])
           /\ \A n \in 0..Len(v) : Len(FirstOf(v, n)) = n /\ \A i \in 1..n : FirstOf(v, n)[i] = v[i]
<1> DEFINE S == ToSet(v)
<1>1. v \in Seq(S) /\ Len(v) \in Nat
  BY DEF Listed
<1> HIDE DEF S
<1>2. \A n \in 0..Len(v) : FirstOf(v, n) \in Seq(S) /\ Len(FirstOf(v, n)) = n /\ \A i \in 1..n : FirstOf(v, n)[i] = v[i]
  BY <1>1 DEF FirstOf
<1>3. FirstOf(v, 0) = <<>>
  BY <1>1, <1>2
<1>4. FirstOf(v, Len(v)) = v
  BY <1>1, <1>2
<1>5. ASSUME NEW n \in 1..Len(v) PROVE FirstOf(v, n) = Append(FirstOf(v, n - 1), v[n])
  <2> DEFINE a == FirstOf(v, n)
             b == FirstOf(v, n - 1)
             x == v[n]
  <2>1. n - 1 \in 0..Len(v) /\ n \in 0..Len(v) /\ x \in S
    BY <1>1
  <2>2. a \in Seq(S) /\ Len(a) = n /\ b \in Seq(S) /\ Len(b) = n - 1
        /\ (\A i \in 1..n : a[i] = v[i]) /\ (\A i \in 1..n - 1 : b[i] = v[i])
    BY <1>2, <2>1
  <2> HIDE DEF a, b, x
  <2>3. Append(b, x) \in Seq(S) /\ Len(Append(b, x)) = n
        /\ \A i \in 1..n : Append(b, x)[i] = IF i = n THEN x ELSE b[i]
    BY <2>1, <2>2
  <2>4. \A i \in 1..n : Append(b, x)[i] = a[i]
    BY <2>2, <2>3 DEF x
  <2> QED
    BY <2>2, <2>3, <2>4 DEF a, b, x
<1> QED
  BY <1>2, <1>3, <1>4, <1>5

IsMap(f) == f = [k \in DOMAIN f |-> f[k]] /\ IsFiniteSet(DOMAIN f)

LEMMA KeysOfAll ==
    ASSUME NEW S, IsFiniteSet(S), NEW keys, keys = SetToSeq(S)
    PROVE  /\ Listed(keys) /\ Len(keys) \in Nat /\ DOMAIN keys = 1..Len(keys)
           /\ FirstKeys(keys, 0) = {} /\ FirstKeys(keys, Len(keys)) = S
           /\ \A n \in 1..Len(keys) :
                /\ keys[n] \in S /\ keys[n] \notin FirstKeys(keys, n - 1)
                /\ FirstKeys(keys, n) = FirstKeys(keys, n - 1) \cup {keys[n]}
<1> DEFINE N == Cardinality(S)
<1>1. N \in Nat /\ \E g \in [1..N -> S] : IsInjective(g)
  BY FS_CardinalityType DEF ExistsBijection, Bijection, Injection
<1>2. keys \in [1..N -> S] /\ IsInjective(keys)
  BY <1>1 DEF SetToSeq
<1>3. Listed(keys) /\ ToSet(keys) = S
  BY SetsAreListed
<1> HIDE DEF N
<1>4. Len(keys) \in Nat /\ DOMAIN keys = 1..Len(keys)
  BY <1>3, ListedMeans
<1>5. \A i, j \in 1..Len(keys) : keys[i] = keys[j] => i = j
  BY <1>2, <1>4 DEF IsInjective
<1>6. \A n \in 1..Len(keys) : keys[n] \notin FirstKeys(keys, n - 1)
  BY <1>4, <1>5 DEF FirstKeys
<1>7. ASSUME NEW n \in 1..Len(keys) PROVE FirstKeys(keys, n) = FirstKeys(keys, n - 1) \cup {keys[n]} /\ keys[n] \in S
  <2>1. 1..n = (1..n - 1) \cup {n}
    BY <1>4
  <2> QED
    BY <1>3, <1>4, <2>1 DEF FirstKeys, ToSet
<1>8. FirstKeys(keys, 0) = {} /\ FirstKeys(keys, Len(keys)) = S
  BY <1>3, <1>4 DEF FirstKeys, ToSet
<1> QED
  BY <1>3, <1>4, <1>6, <1>7, <1>8

LEMMA EntriesOfAll ==
    ASSUME NEW f, IsMap(f), NEW keys, keys = SetToSeq(DOMAIN f)
    PROVE  /\ EntriesAt(f, keys, 0) = NoEntries /\ EntriesAt(f, keys, Len(keys)) = f
           /\ \A n \in 1..Len(keys) :
                /\ keys[n] \in DOMAIN f /\ keys[n] \notin DOMAIN EntriesAt(f, keys, n - 1)
                /\ EntriesAt(f, keys, n) = With(EntriesAt(f, keys, n - 1), keys[n], f[keys[n]])
<1>1. /\ Len(keys) \in Nat /\ FirstKeys(keys, 0) = {} /\ FirstKeys(keys, Len(keys)) = DOMAIN f
      /\ \A n \in 1..Len(keys) :
            /\ keys[n] \in DOMAIN f /\ keys[n] \notin FirstKeys(keys, n - 1)
            /\ FirstKeys(keys, n) = FirstKeys(keys, n - 1) \cup {keys[n]}
  <2>1. IsFiniteSet(DOMAIN f)
    BY DEF IsMap
  <2> QED
    BY <2>1, KeysOfAll
<1>2. EntriesAt(f, keys, 0) = NoEntries
  BY <1>1 DEF EntriesAt, NoEntries
<1>3. EntriesAt(f, keys, Len(keys)) = f
  BY <1>1 DEF EntriesAt, IsMap
<1>4. ASSUME NEW n \in 1..Len(keys)
      PROVE  /\ keys[n] \in DOMAIN f /\ keys[n] \notin DOMAIN EntriesAt(f, keys, n - 1)
             /\ EntriesAt(f, keys, n) = With(EntriesAt(f, keys, n - 1), keys[n], f[keys[n]])
  BY <1>1 DEF EntriesAt, With
<1> QED
  BY <1>2, <1>3, <1>4

(* Lists of directives, one for each of something, or some for each. *)
LEMMA LeadsFlattened ==
    ASSUME NEW seqs, Listed(seqs), \A i \in 1..Len(seqs) : Listed(seqs[i]), NEW states,
           \A i \in 1..Len(seqs) : Leads(states[i - 1], seqs[i], states[i])
    PROVE  Leads(states[0], FlattenSeq(seqs), states[Len(seqs)]) /\ Listed(FlattenSeq(seqs))
<1> DEFINE N == Len(seqs)
<1>1. N \in Nat
  BY ListedMeans
<1>2. CASE N = 0
  <2>1. FlattenSeq(seqs) = seqs /\ seqs = <<>>
    BY <1>2 DEF FlattenSeq, Listed
  <2> QED
    BY <1>2, <2>1, LeadsNowhere, NothingListed
<1>3. CASE N # 0
  <2>1. PICK flat : /\ flat[1] = seqs[1] /\ FlattenSeq(seqs) = flat[N]
                    /\ \A n \in 2..N : flat[n] = flat[n - 1] \o seqs[n]
    BY <1>3, FlattenUnfold
  <2> DEFINE S == {n \in Nat : n + 1 <= N => Leads(states[0], flat[n + 1], states[n + 1]) /\ Listed(flat[n + 1])}
  <2>2. 0 \in S
    <3>1. 1 \in 1..N /\ 1 - 1 = 0 /\ 0 + 1 = 1
      BY <1>1, <1>3
    <3>2. Leads(states[0], seqs[1], states[1])
      BY <3>1
    <3> QED
      BY <2>1, <3>1, <3>2
  <2>3. ASSUME NEW n \in S PROVE n + 1 \in S
    <3> DEFINE m == n + 1
    <3>1. SUFFICES ASSUME m + 1 <= N PROVE Leads(states[0], flat[m + 1], states[m + 1]) /\ Listed(flat[m + 1])
      OBVIOUS
    <3>2. m + 1 \in 1..N /\ m + 1 \in 2..N /\ (m + 1) - 1 = m
      BY <1>1, <3>1
    <3>3. Leads(states[0], flat[m], states[m]) /\ Listed(flat[m])
      BY <1>1, <3>1
    <3> HIDE DEF m
    <3>4. Leads(states[m], seqs[m + 1], states[m + 1]) /\ Listed(seqs[m + 1]) /\ flat[m + 1] = flat[m] \o seqs[m + 1]
      BY <2>1, <3>2
    <3> QED
      BY <3>3, <3>4, LeadsOn
  <2>4. S \in SUBSET Nat
    OBVIOUS
  <2> HIDE DEF S
  <2>5. S = Nat
    BY <2>2, <2>3, <2>4, Induction
  <2>6. N - 1 \in Nat /\ (N - 1) + 1 = N
    BY <1>1, <1>3
  <2>7. N - 1 \in S
    BY <2>5, <2>6
  <2> QED
    BY <2>1, <2>6, <2>7 DEF S
<1> QED
  BY <1>2, <1>3

-----------------------------------------------------------------------------
(* What each directive written out does to a configuration. *)
ConfigFields == {"refused", "mode", "entries", "lists", "flags", "safety", "includes", "name", "concretes",
                 "externs", "rustTypes", "rustFuns", "subclasses", "enumStyles", "derives"}
Shaped(c) == c = [f \in ConfigFields |-> c[f]] /\ c.refused = FALSE

LEMMA ListOrderIsOfLists ==
    /\ Listed(StringListOrder) /\ Len(StringListOrder) = 8
    /\ StringLists = {"pod", "block", "opaque", "block_constructors", "block_functions", "instantiable",
                      "smart_pointer", "throws"}
<1> DEFINE S == {"pod", "block", "opaque", "block_constructors", "block_functions", "instantiable",
                      "smart_pointer", "throws"}
           v == StringListOrder
<1>1. v \in Seq(S) /\ Len(v) = 8 /\ DOMAIN v = 1..8
  BY DEF StringListOrder
<1>2. /\ v[1] = "pod" /\ v[2] = "block" /\ v[3] = "opaque" /\ v[4] = "block_constructors"
      /\ v[5] = "block_functions" /\ v[6] = "instantiable" /\ v[7] = "smart_pointer" /\ v[8] = "throws"
  BY DEF StringListOrder
<1> HIDE DEF v
<1>3. 1 \in 1..8 /\ 2 \in 1..8 /\ 3 \in 1..8 /\ 4 \in 1..8 /\ 5 \in 1..8 /\ 6 \in 1..8 /\ 7 \in 1..8 /\ 8 \in 1..8
  OBVIOUS
<1>4. S \subseteq ToSet(v)
  BY <1>1, <1>2, <1>3 DEF ToSet
<1> HIDE DEF S
<1>5. Listed(v) /\ ToSet(v) \subseteq S
  BY <1>1, ListedOf
<1> QED
  BY <1>1, <1>4, <1>5 DEF StringLists, v, S

LEMMA OthersInTurn ==
    ASSUME NEW c, c.refused = FALSE, NEW d
    PROVE  /\ d.directive = "include" => ParseDirective(c, d) = [c EXCEPT !.includes = Append(@, d.header)]
           /\ d.directive = "safety" => ParseDirective(c, d) = [c EXCEPT !.safety = d.policy]
           /\ d.directive \in StringLists => ParseDirective(c, d) = AddToList(c, d.directive, d.name)
           /\ d.directive \in Flags => ParseDirective(c, d) = [c EXCEPT !.flags = @ \cup {d.directive}]
           /\ d.directive = "name" => ParseDirective(c, d) = [c EXCEPT !.name = d.id]
           /\ d.directive \in InRustDirectives => ParseDirective(c, d) = ParseInRust(c, d)
           /\ d.directive \in GenerateDirectives => ParseDirective(c, d) = ParseGenerate(c, d)
<1> DEFINE generate == ParseGenerate(c, d)
           inRust == ParseInRust(c, d)
           included == [c EXCEPT !.includes = Append(@, d.header)]
           safe == [c EXCEPT !.safety = d.policy]
           listed == AddToList(c, d.directive, d.name)
           flagged == [c EXCEPT !.flags = @ \cup {d.directive}]
           named == [c EXCEPT !.name = d.id]
           refused == Refused(c)
           after == ParseDirective(c, d)
<1>1. after = CASE c.refused -> c
                [] d.directive = "include" -> included
                [] d.directive \in GenerateDirectives -> generate
                [] d.directive = "safety" -> safe
                [] d.directive \in StringLists -> listed
                [] d.directive \in Flags -> flagged
                [] d.directive = "name" -> named
                [] d.directive \in InRustDirectives -> inRust
                [] OTHER -> refused
  BY DEF ParseDirective
<1> HIDE DEF after, included, safe, listed, flagged, named, refused, generate, inRust
<1>2. /\ d.directive = "include" => after = included
      /\ d.directive = "safety" => after = safe
      /\ d.directive \in StringLists => after = listed
      /\ d.directive \in Flags => after = flagged
      /\ d.directive = "name" => after = named
      /\ d.directive \in InRustDirectives => after = inRust
      /\ d.directive \in GenerateDirectives => after = generate
  <2> DEFINE D == d.directive
             lists == StringLists
  <2>1. /\ D = "include" => D \notin GenerateDirectives \cup lists \cup Flags \cup InRustDirectives \cup {"safety", "name"}
        /\ D = "safety" => D \notin GenerateDirectives \cup lists \cup Flags \cup InRustDirectives \cup {"include", "name"}
        /\ D = "name" => D \notin GenerateDirectives \cup lists \cup Flags \cup InRustDirectives \cup {"include", "safety"}
        /\ D \in Flags => D \notin GenerateDirectives \cup lists \cup InRustDirectives \cup {"include", "safety", "name"}
        /\ D \in lists => D \notin GenerateDirectives \cup Flags \cup InRustDirectives \cup {"include", "safety", "name"}
        /\ D \in InRustDirectives => D \notin GenerateDirectives \cup Flags \cup lists \cup {"include", "safety", "name"}
        /\ D \in GenerateDirectives => D \notin InRustDirectives \cup Flags \cup lists \cup {"include", "safety", "name"}
    BY ListOrderIsOfLists DEF GenerateDirectives, Flags, InRustDirectives
  <2> HIDE DEF lists
  <2> QED
    BY <1>1, <2>1 DEF lists
<1> QED
  BY <1>2 DEF after, included, safe, listed, flagged, named, inRust, generate

LEMMA GeneratesInTurn ==
    ASSUME NEW c, c.refused = FALSE, NEW d
    PROVE  /\ d.directive = "generate" => ParseDirective(c, d) = AllowlistPush(c, [item |-> TRUE, name |-> d.name])
           /\ d.directive = "generate_ns" => ParseDirective(c, d) = AllowlistPush(c, [item |-> FALSE, name |-> d.name])
           /\ d.directive = "generate_pod" =>
                ParseDirective(c, d) = AddToList(AllowlistPush(c, [item |-> TRUE, name |-> d.name]), "pod", d.name)
           /\ d.directive = "generate_all" => ParseDirective(c, d) = SetAll(c)
<1> DEFINE item == AllowlistPush(c, [item |-> TRUE, name |-> d.name])
           ns == AllowlistPush(c, [item |-> FALSE, name |-> d.name])
           pod == AddToList(AllowlistPush(c, [item |-> TRUE, name |-> d.name]), "pod", d.name)
           all == SetAll(c)
           generate == ParseGenerate(c, d)
<1>1. d.directive \in GenerateDirectives => ParseDirective(c, d) = generate
  BY OthersInTurn
<1>2. generate = CASE d.directive = "generate" -> item
                   [] d.directive = "generate_pod" -> pod
                   [] d.directive = "generate_ns" -> ns
                   [] OTHER -> all
  BY DEF ParseGenerate
<1> HIDE DEF item, ns, pod, all, generate
<1>3. /\ d.directive = "generate" => generate = item
      /\ d.directive = "generate_ns" => generate = ns
      /\ d.directive = "generate_pod" => generate = pod
      /\ d.directive = "generate_all" => generate = all
  BY <1>2
<1>4. d.directive \in {"generate", "generate_ns", "generate_pod", "generate_all"} => d.directive \in GenerateDirectives
  BY DEF GenerateDirectives
<1> QED
  BY <1>1, <1>3, <1>4 DEF item, ns, pod, all

ExternOf(d) == [path |-> d.id, opaque |-> d.directive = "extern_cpp_opaque_type"]

LEMMA InRustMeans ==
    ASSUME NEW c, NEW d
    PROVE  /\ d.directive = "concrete" => ParseInRust(c, d) = [c EXCEPT !.concretes = With(@, d.definition, d.id)]
           /\ d.directive \in {"rust_type", "extern_rust_type"} =>
                ParseInRust(c, d) = [c EXCEPT !.rustTypes = Append(@, d.id)]
           /\ d.directive = "subclass" =>
                ParseInRust(c, d) = [c EXCEPT !.subclasses = Append(@, [superclass |-> d.superclass, subclass |-> d.id])]
           /\ d.directive = "extern_rust_function" => ParseInRust(c, d) = [c EXCEPT !.rustFuns = Append(@, d.id)]
           /\ d.directive = "enum_style" => ParseInRust(c, d) = EnumStyleInsert(c, d.name, d.style)
           /\ d.directive = "derive" => ParseInRust(c, d) = DeriveInsert(c, d.name, d.trait)
           /\ d.directive \notin {"concrete", "rust_type", "extern_rust_type", "subclass", "extern_rust_function",
                                  "enum_style", "derive"} =>
                ParseInRust(c, d) = [c EXCEPT !.externs = With(@, d.name, ExternOf(d))]
<1> DEFINE style == EnumStyleInsert(c, d.name, d.style)
           derive == DeriveInsert(c, d.name, d.trait)
           byConcrete == [c EXCEPT !.concretes = With(@, d.definition, d.id)]
           types == [c EXCEPT !.rustTypes = Append(@, d.id)]
           subclasses == [c EXCEPT !.subclasses = Append(@, [superclass |-> d.superclass, subclass |-> d.id])]
           funs == [c EXCEPT !.rustFuns = Append(@, d.id)]
           byExtern == [c EXCEPT !.externs = With(@, d.name, ExternOf(d))]
           inRust == ParseInRust(c, d)
<1>1. inRust = CASE d.directive = "concrete" -> byConcrete
                 [] d.directive \in {"rust_type", "extern_rust_type"} -> types
                 [] d.directive = "subclass" -> subclasses
                 [] d.directive = "extern_rust_function" -> funs
                 [] d.directive = "enum_style" -> style
                 [] d.directive = "derive" -> derive
                 [] OTHER -> byExtern
  BY DEF ParseInRust, ExternOf
<1> HIDE DEF inRust, style, derive, types, funs, subclasses, byConcrete, byExtern
<1>2. /\ d.directive = "concrete" => inRust = byConcrete
      /\ d.directive \in {"rust_type", "extern_rust_type"} => inRust = types
      /\ d.directive = "subclass" => inRust = subclasses
      /\ d.directive = "extern_rust_function" => inRust = funs
      /\ d.directive = "enum_style" => inRust = style
      /\ d.directive = "derive" => inRust = derive
      /\ d.directive \notin {"concrete", "rust_type", "extern_rust_type", "subclass", "extern_rust_function",
                             "enum_style", "derive"} => inRust = byExtern
  BY <1>1
<1> QED
  BY <1>2 DEF inRust, style, derive, types, funs, subclasses, byConcrete, byExtern

LEMMA ExternsInTurn ==
    ASSUME NEW d
    PROVE  /\ d.directive = "extern_cpp_opaque_type" => ExternOf(d) = [path |-> d.id, opaque |-> TRUE]
           /\ d.directive # "extern_cpp_opaque_type" => ExternOf(d) = [path |-> d.id, opaque |-> FALSE]
           /\ ExternOf(d).opaque \in BOOLEAN
<1> DEFINE opaque == d.directive = "extern_cpp_opaque_type"
           R(x) == [path |-> d.id, opaque |-> x]
<1>1. ExternOf(d) = R(opaque)
  BY DEF ExternOf
<1>2. (opaque => opaque = TRUE) /\ (~opaque => opaque = FALSE)
  OBVIOUS
<1>3. CASE opaque
  <2>1. ExternOf(d) = R(TRUE)
    BY <1>1, <1>2, <1>3, Zenon
  <2> QED
    BY <1>3, <2>1
<1>4. CASE ~opaque
  <2>1. ExternOf(d) = R(FALSE)
    BY <1>1, <1>2, <1>4, Zenon
  <2> QED
    BY <1>4, <2>1
<1> QED
  BY <1>3, <1>4

LEMMA InRustInTurn ==
    ASSUME NEW c, c.refused = FALSE, NEW d
    PROVE  /\ d.directive = "concrete" => ParseDirective(c, d) = [c EXCEPT !.concretes = With(@, d.definition, d.id)]
           /\ d.directive = "extern_rust_type" => ParseDirective(c, d) = [c EXCEPT !.rustTypes = Append(@, d.id)]
           /\ d.directive = "subclass" =>
                ParseDirective(c, d) = [c EXCEPT !.subclasses = Append(@, [superclass |-> d.superclass, subclass |-> d.id])]
           /\ d.directive = "extern_rust_function" => ParseDirective(c, d) = [c EXCEPT !.rustFuns = Append(@, d.id)]
           /\ d.directive = "enum_style" => ParseDirective(c, d) = EnumStyleInsert(c, d.name, d.style)
           /\ d.directive = "derive" => ParseDirective(c, d) = DeriveInsert(c, d.name, d.trait)
           /\ d.directive \in {"extern_cpp_type", "extern_cpp_opaque_type"} =>
                ParseDirective(c, d) = [c EXCEPT !.externs = With(@, d.name, ExternOf(d))]
<1>1. d.directive \in InRustDirectives => ParseDirective(c, d) = ParseInRust(c, d)
  BY OthersInTurn
<1>2. d.directive \in {"concrete", "extern_rust_type", "subclass", "extern_rust_function", "enum_style", "derive",
                       "extern_cpp_type", "extern_cpp_opaque_type"} => d.directive \in InRustDirectives
  BY DEF InRustDirectives
<1> DEFINE after == ParseDirective(c, d)
           inRust == ParseInRust(c, d)
<1>3. d.directive = "concrete" => inRust = [c EXCEPT !.concretes = With(@, d.definition, d.id)]
  BY InRustMeans
<1>4. d.directive = "extern_rust_type" => inRust = [c EXCEPT !.rustTypes = Append(@, d.id)]
  BY InRustMeans
<1>5. d.directive = "subclass" =>
        inRust = [c EXCEPT !.subclasses = Append(@, [superclass |-> d.superclass, subclass |-> d.id])]
  BY InRustMeans
<1>6. d.directive = "extern_rust_function" => inRust = [c EXCEPT !.rustFuns = Append(@, d.id)]
  BY InRustMeans
<1>7. /\ d.directive = "enum_style" => inRust = EnumStyleInsert(c, d.name, d.style)
      /\ d.directive = "derive" => inRust = DeriveInsert(c, d.name, d.trait)
  BY InRustMeans
<1>8. d.directive \in {"extern_cpp_type", "extern_cpp_opaque_type"} =>
                inRust = [c EXCEPT !.externs = With(@, d.name, ExternOf(d))]
  BY InRustMeans
<1> HIDE DEF inRust
<1> QED
  BY <1>1, <1>2, <1>3, <1>4, <1>5, <1>6, <1>7, <1>8 DEF inRust
-----------------------------------------------------------------------------
(* What is in a configuration, whatever the directives it was made from. *)
AllowlistOk(mode, entries) ==
    /\ mode \in {"unspecified", "all", "specific"}
    /\ Listed(entries) /\ (mode # "specific" => entries = <<>>)
    /\ \A i \in 1..Len(entries) :
        entries[i] = [item |-> entries[i].item, name |-> entries[i].name] /\ entries[i].item \in BOOLEAN
ListsOk(lists) == lists = [list \in StringLists |-> lists[list]] /\ \A list \in StringLists : Listed(lists[list])
SubclassesOk(v) ==
    Listed(v) /\ \A i \in 1..Len(v) : v[i] = [superclass |-> v[i].superclass, subclass |-> v[i].subclass]
ExternsOk(f) ==
    IsMap(f) /\ \A k \in DOMAIN f : \E path : f[k] \in {[path |-> path, opaque |-> TRUE], [path |-> path, opaque |-> FALSE]}
StylesOk(f) == IsMap(f) /\ \A k \in DOMAIN f : IsPlainQualifiedName(k)
TraitsOk(traits) ==
    Listed(traits) /\ Len(traits) # 0 /\ \A i, j \in 1..Len(traits) : traits[i] = traits[j] => i = j
DerivesOk(f) == IsMap(f) /\ \A k \in DOMAIN f : IsPlainQualifiedName(k) /\ TraitsOk(f[k])

WellMade(c) ==
    /\ c = [f \in ConfigFields |-> c[f]]
    /\ c.refused \in BOOLEAN
    /\ AllowlistOk(c.mode, c.entries)
    /\ ListsOk(c.lists)
    /\ c.flags \subseteq Flags
    /\ Listed(c.includes) /\ Listed(c.rustTypes) /\ Listed(c.rustFuns)
    /\ SubclassesOk(c.subclasses)
    /\ IsMap(c.concretes) /\ ExternsOk(c.externs) /\ StylesOk(c.enumStyles) /\ DerivesOk(c.derives)

LEMMA OneFieldChanges ==
    ASSUME NEW c, WellMade(c), NEW v
    PROVE  /\ WellMade(Refused(c))
           /\ WellMade([c EXCEPT !.safety = v]) /\ WellMade([c EXCEPT !.name = v])
           /\ Listed(v) => /\ WellMade([c EXCEPT !.includes = v]) /\ WellMade([c EXCEPT !.rustTypes = v])
                           /\ WellMade([c EXCEPT !.rustFuns = v])
           /\ SubclassesOk(v) => WellMade([c EXCEPT !.subclasses = v])
           /\ ListsOk(v) => WellMade([c EXCEPT !.lists = v])
           /\ v \subseteq Flags => WellMade([c EXCEPT !.flags = v])
           /\ IsMap(v) => WellMade([c EXCEPT !.concretes = v])
           /\ ExternsOk(v) => WellMade([c EXCEPT !.externs = v])
           /\ StylesOk(v) => WellMade([c EXCEPT !.enumStyles = v])
           /\ DerivesOk(v) => WellMade([c EXCEPT !.derives = v])
<1>1. WellMade(Refused(c))
  BY DEF WellMade, ConfigFields, Refused
<1>2. WellMade([c EXCEPT !.safety = v]) /\ WellMade([c EXCEPT !.name = v])
  BY DEF WellMade, ConfigFields
<1>3. Listed(v) => WellMade([c EXCEPT !.includes = v])
  BY DEF WellMade, ConfigFields
<1>4. Listed(v) => WellMade([c EXCEPT !.rustTypes = v])
  BY DEF WellMade, ConfigFields
<1>5. Listed(v) => WellMade([c EXCEPT !.rustFuns = v])
  BY DEF WellMade, ConfigFields
<1>6. SubclassesOk(v) => WellMade([c EXCEPT !.subclasses = v])
  BY DEF WellMade, ConfigFields
<1>7. ListsOk(v) => WellMade([c EXCEPT !.lists = v])
  BY DEF WellMade, ConfigFields
<1>8. v \subseteq Flags => WellMade([c EXCEPT !.flags = v])
  BY DEF WellMade, ConfigFields
<1>9. IsMap(v) => WellMade([c EXCEPT !.concretes = v])
  BY DEF WellMade, ConfigFields
<1>10. ExternsOk(v) => WellMade([c EXCEPT !.externs = v])
  BY DEF WellMade, ConfigFields
<1>11. StylesOk(v) => WellMade([c EXCEPT !.enumStyles = v])
  BY DEF WellMade, ConfigFields
<1>12. DerivesOk(v) => WellMade([c EXCEPT !.derives = v])
  BY DEF WellMade, ConfigFields
<1> QED
  BY <1>1, <1>2, <1>3, <1>4, <1>5, <1>6, <1>7, <1>8, <1>9, <1>10, <1>11, <1>12

LEMMA WithKeepsMaps ==
    ASSUME NEW f, IsMap(f), NEW k, NEW x
    PROVE  IsMap(With(f, k, x)) /\ DOMAIN With(f, k, x) = DOMAIN f \cup {k}
<1> DEFINE g == With(f, k, x)
<1>1. g = [l \in DOMAIN f \cup {k} |-> IF l = k THEN x ELSE f[l]]
  BY DEF With
<1>2. IsFiniteSet(DOMAIN g)
  BY WithOneMore DEF IsMap
<1> HIDE DEF g
<1>3. g = [l \in DOMAIN g |-> g[l]]
  BY <1>1
<1> QED
  BY <1>1, <1>2, <1>3 DEF IsMap, g

LEMMA AllowlistsAreKept ==
    ASSUME NEW c, WellMade(c)
    PROVE  /\ \A x : \A item \in BOOLEAN : WellMade(AllowlistPush(c, [item |-> item, name |-> x]))
           /\ WellMade(SetAll(c)) /\ WellMade(ConfirmComplete(c))
<1>1. ASSUME NEW mode, NEW entries, AllowlistOk(mode, entries)
      PROVE  WellMade([c EXCEPT !.mode = mode, !.entries = entries])
  BY <1>1 DEF WellMade, ConfigFields
<1>2. AllowlistOk(c.mode, c.entries) /\ WellMade(Refused(c))
  BY OneFieldChanges DEF WellMade
<1>3. ASSUME NEW x, NEW item \in BOOLEAN PROVE WellMade(AllowlistPush(c, [item |-> item, name |-> x]))
  <2> DEFINE entry == [item |-> item, name |-> x]
             v == c.entries
             w == Append(v, entry)
  <2>1. entry.item \in BOOLEAN /\ entry = [item |-> entry.item, name |-> entry.name]
    OBVIOUS
  <2> HIDE DEF entry
  <2>2. /\ Listed(w) /\ Len(w) = Len(v) + 1 /\ Len(v) \in Nat /\ DOMAIN v = 1..Len(v)
        /\ \A i \in DOMAIN v : w[i] = v[i]
        /\ w[Len(v) + 1] = entry
    <3>1. Listed(v)
      BY <1>2 DEF AllowlistOk
    <3> HIDE DEF v
    <3>2. Listed(w) /\ Len(w) = Len(v) + 1 /\ w[Len(v) + 1] = entry
      BY <3>1, ListedAppend
    <3>3. ASSUME NEW i \in DOMAIN v PROVE w[i] = v[i]
      BY <3>1, ListedAppend
    <3>4. Len(v) \in Nat /\ DOMAIN v = 1..Len(v)
      BY <3>1, ListedMeans
    <3> HIDE DEF w
    <3> QED
      BY <3>2, <3>3, <3>4
  <2> HIDE DEF v, w
  <2>3. \A i \in 1..Len(w) : i \in 1..Len(v) \/ i = Len(v) + 1
    BY <2>2
  <2>4. \A i \in 1..Len(v) : v[i] = [item |-> v[i].item, name |-> v[i].name] /\ v[i].item \in BOOLEAN
    BY <1>2 DEF AllowlistOk, v
  <2>5. \A i \in 1..Len(w) : w[i] = [item |-> w[i].item, name |-> w[i].name] /\ w[i].item \in BOOLEAN
    BY <2>1, <2>2, <2>3, <2>4
  <2>6. AllowlistOk("specific", w)
    BY <2>2, <2>5 DEF AllowlistOk
  <2>7. AllowlistPush(c, entry) = IF c.mode = "all" THEN Refused(c) ELSE [c EXCEPT !.mode = "specific", !.entries = w]
    BY DEF AllowlistPush, v, w
  <2>8. WellMade([c EXCEPT !.mode = "specific", !.entries = w])
    BY <1>1, <2>6
  <2>9. WellMade(AllowlistPush(c, entry))
    BY <1>2, <2>7, <2>8
  <2> QED
    BY <2>9 DEF entry
<1>4. ASSUME NEW mode \in {"all", "specific"}, c.mode \in {mode, "unspecified"} PROVE WellMade([c EXCEPT !.mode = mode])
  <2>1. AllowlistOk(mode, c.entries)
    BY <1>2, <1>4 DEF AllowlistOk
  <2>2. [c EXCEPT !.mode = mode] = [c EXCEPT !.mode = mode, !.entries = c.entries]
    BY DEF WellMade, ConfigFields
  <2> QED
    BY <1>1, <2>1, <2>2
<1>5. c.mode \in {"unspecified", "all", "specific"}
  BY <1>2 DEF AllowlistOk
<1>6. WellMade(SetAll(c))
  BY <1>2, <1>4, <1>5 DEF SetAll
<1>7. WellMade(ConfirmComplete(c))
  BY <1>4 DEF ConfirmComplete
<1> QED
  BY <1>3, <1>6, <1>7

LEMMA ListsAreKept ==
    ASSUME NEW c, WellMade(c), NEW list \in StringLists, NEW x
    PROVE  WellMade(AddToList(c, list, x))
<1> DEFINE lists == [c.lists EXCEPT ![list] = Append(c.lists[list], x)]
<1>1. AddToList(c, list, x) = [c EXCEPT !.lists = lists]
  BY DEF AddToList
<1>2. Listed(Append(c.lists[list], x))
  BY ListedAppend DEF WellMade, ListsOk
<1>3. ListsOk(lists)
  BY <1>2 DEF WellMade, ListsOk
<1> HIDE DEF lists
<1>4. WellMade([c EXCEPT !.lists = lists])
  BY <1>3, OneFieldChanges
<1> QED
  BY <1>1, <1>4

LEMMA NewIsWellMade == WellMade(NewConfig) /\ NewConfig.refused = FALSE /\ ~("unspecified" # NewConfig.mode)
<1>1. IsMap(NoEntries) /\ DOMAIN NoEntries = {}
  <2>1. DOMAIN NoEntries = {} /\ NoEntries = [k \in {} |-> NoEntries[k]]
    BY DEF NoEntries
  <2> QED
    BY <2>1, FS_EmptySet DEF IsMap
<1>2. Listed(<<>>) /\ Len(<<>>) = 0
  BY NothingListed
<1>3. AllowlistOk("unspecified", <<>>) /\ SubclassesOk(<<>>) /\ ExternsOk(NoEntries) /\ StylesOk(NoEntries) /\ DerivesOk(NoEntries)
  BY <1>1, <1>2 DEF AllowlistOk, SubclassesOk, ExternsOk, StylesOk, DerivesOk
<1>4. ListsOk([list \in StringLists |-> <<>>])
  BY <1>2 DEF ListsOk
<1> QED
  BY <1>1, <1>2, <1>3, <1>4 DEF WellMade, NewConfig, ConfigFields

LEMMA MapsAreKept ==
    ASSUME NEW c, WellMade(c), NEW k, NEW x
    PROVE  /\ WellMade([c EXCEPT !.concretes = With(@, k, x)])
           /\ WellMade(EnumStyleInsert(c, k, x)) /\ WellMade(DeriveInsert(c, k, x))
           /\ \A d : WellMade([c EXCEPT !.externs = With(@, k, ExternOf(d))])
<1>1. WellMade([c EXCEPT !.concretes = With(@, k, x)])
  <2>1. IsMap(With(c.concretes, k, x))
    BY WithKeepsMaps DEF WellMade
  <2> QED
    BY <2>1, OneFieldChanges
<1>2. WellMade(EnumStyleInsert(c, k, x))
  <2>1. CASE IsPlainQualifiedName(k)
    <3> DEFINE f == c.enumStyles
               g == With(f, k, x)
    <3>1. IsMap(f) /\ \A l \in DOMAIN f : IsPlainQualifiedName(l)
      BY DEF WellMade, StylesOk
    <3> HIDE DEF f
    <3>2. IsMap(g) /\ DOMAIN g = DOMAIN f \cup {k}
      BY <3>1, WithKeepsMaps
    <3> HIDE DEF g
    <3>3. StylesOk(g)
      BY <2>1, <3>1, <3>2 DEF StylesOk
    <3>4. WellMade([c EXCEPT !.enumStyles = g])
      BY <3>3, OneFieldChanges
    <3>5. EnumStyleInsert(c, k, x) \in {Refused(c), [c EXCEPT !.enumStyles = g]}
      BY DEF EnumStyleInsert, f, g
    <3> QED
      BY <3>4, <3>5, OneFieldChanges
  <2>2. CASE ~IsPlainQualifiedName(k)
    BY <2>2, OneFieldChanges DEF EnumStyleInsert
  <2> QED
    BY <2>1, <2>2
<1>3. ASSUME NEW d PROVE WellMade([c EXCEPT !.externs = With(@, k, ExternOf(d))])
  <2> DEFINE f == c.externs
             g == With(f, k, ExternOf(d))
             Fine(e) == \E path : e \in {[path |-> path, opaque |-> TRUE], [path |-> path, opaque |-> FALSE]}
  <2>1. ExternOf(d) = [path |-> d.id, opaque |-> TRUE] \/ ExternOf(d) = [path |-> d.id, opaque |-> FALSE]
    BY ExternsInTurn
  <2>2. Fine(ExternOf(d))
    BY <2>1
  <2>3. IsMap(f) /\ \A l \in DOMAIN f : Fine(f[l])
    BY DEF WellMade, ExternsOk
  <2> HIDE DEF f, Fine
  <2>9. IsMap(g) /\ DOMAIN g = DOMAIN f \cup {k}
    BY <2>3, WithKeepsMaps
  <2>7. g[k] = ExternOf(d) /\ \A l \in DOMAIN f \ {k} : g[l] = f[l]
    BY DEF With
  <2> HIDE DEF g
  <2>8. ASSUME NEW l \in DOMAIN g PROVE Fine(g[l])
    <3>1. CASE l = k
      BY <2>2, <2>7, <2>9, <3>1
    <3>2. CASE l # k
      <4>1. l \in DOMAIN f /\ g[l] = f[l]
        BY <2>7, <2>9, <3>2
      <4> QED
        BY <2>3, <4>1
    <3> QED
      BY <3>1, <3>2
  <2>4. IsMap(g) /\ \A l \in DOMAIN g : Fine(g[l])
    BY <2>8, <2>9
  <2>5. ExternsOk(g)
    BY <2>4 DEF ExternsOk, Fine
  <2>6. WellMade([c EXCEPT !.externs = g])
    BY <2>5, OneFieldChanges
  <2> QED
    BY <2>6 DEF f, g
<1>4. WellMade(DeriveInsert(c, k, x))
  <2> DEFINE f == c.derives
             traits == IF k \in DOMAIN f THEN f[k] ELSE <<>>
             more == Append(traits, x)
             g == With(f, k, more)
  <2>1. DeriveInsert(c, k, x) = IF ~IsPlainQualifiedName(k) \/ Contains(traits, x) THEN Refused(c)
                                ELSE [c EXCEPT !.derives = g]
    BY DEF DeriveInsert
  <2>2. DerivesOk(f)
    BY DEF WellMade
  <2>3. Listed(traits) /\ Len(traits) \in Nat /\ \A i, j \in 1..Len(traits) : traits[i] = traits[j] => i = j
    BY <2>2, NothingListed, ListedMeans DEF DerivesOk, TraitsOk
  <2> HIDE DEF f, traits
  <2>4. CASE IsPlainQualifiedName(k) /\ ~Contains(traits, x)
    <3>1. /\ Listed(more) /\ Len(more) = Len(traits) + 1
          /\ \A i \in 1..Len(traits) : more[i] = traits[i] /\ traits[i] # x
          /\ more[Len(traits) + 1] = x
      <4>1. Listed(more) /\ Len(more) = Len(traits) + 1 /\ more[Len(traits) + 1] = x
        BY <2>3, ListedAppend
      <4>3. ASSUME NEW i \in DOMAIN traits PROVE more[i] = traits[i]
        BY <2>3, ListedAppend
      <4>4. DOMAIN traits = 1..Len(traits)
        BY <2>3, ListedMeans
      <4> HIDE DEF more
      <4>2. \A i \in 1..Len(traits) : traits[i] # x
        BY <2>4 DEF Contains
      <4> QED
        BY <4>1, <4>2, <4>3, <4>4
    <3> HIDE DEF more
    <3>2. \A i \in 1..Len(more) : i \in 1..Len(traits) \/ i = Len(traits) + 1
      BY <2>3, <3>1
    <3>3. \A i, j \in 1..Len(more) : more[i] = more[j] => i = j
      BY <2>3, <3>1, <3>2
    <3>4. TraitsOk(more)
      BY <2>3, <3>1, <3>3 DEF TraitsOk
    <3>5. IsMap(g) /\ \A l \in DOMAIN g : IsPlainQualifiedName(l) /\ TraitsOk(g[l])
      <4>1. IsMap(f) /\ \A l \in DOMAIN f : IsPlainQualifiedName(l) /\ TraitsOk(f[l])
        BY <2>2 DEF DerivesOk
      <4>4. IsMap(g) /\ DOMAIN g = DOMAIN f \cup {k}
        BY <4>1, WithKeepsMaps
      <4>2. g[k] = more /\ \A l \in DOMAIN f \ {k} : g[l] = f[l]
        BY DEF With
      <4> HIDE DEF g
      <4>3. ASSUME NEW l \in DOMAIN g PROVE IsPlainQualifiedName(l) /\ TraitsOk(g[l])
        <5>1. CASE l = k
          BY <2>4, <3>4, <4>2, <4>4, <5>1
        <5>2. CASE l # k
          <6>1. l \in DOMAIN f /\ g[l] = f[l]
            BY <4>2, <4>4, <5>2
          <6> QED
            BY <4>1, <6>1
        <5> QED
          BY <5>1, <5>2
      <4> QED
        BY <4>3, <4>4
    <3>6. DerivesOk(g)
      BY <3>5 DEF DerivesOk
    <3> HIDE DEF g
    <3>7. WellMade([c EXCEPT !.derives = g])
      BY <3>6, OneFieldChanges
    <3> QED
      BY <2>1, <2>4, <3>7
  <2>5. CASE ~(IsPlainQualifiedName(k) /\ ~Contains(traits, x))
    BY <2>1, <2>5, OneFieldChanges
  <2> QED
    BY <2>4, <2>5
<1> QED
  BY <1>1, <1>2, <1>3, <1>4

LEMMA DirectivesKeepItWellMade ==
    ASSUME NEW c, WellMade(c), NEW d
    PROVE  WellMade(ParseDirective(c, d))
<1> DEFINE after == ParseDirective(c, d)
           generate == ParseGenerate(c, d)
           inRust == ParseInRust(c, d)
<1>1. WellMade(Refused(c))
  BY OneFieldChanges
<1>2. WellMade(generate)
  <2> DEFINE asked(item) == AllowlistPush(c, [item |-> item, name |-> d.name])
             pod == AddToList(asked(TRUE), "pod", d.name)
             all == SetAll(c)
  <2>1. \/ generate = asked(TRUE) \/ generate = pod \/ generate = asked(FALSE) \/ generate = all
    BY DEF ParseGenerate
  <2>2. WellMade(asked(TRUE)) /\ WellMade(asked(FALSE)) /\ WellMade(all)
    BY AllowlistsAreKept
  <2>3. WellMade(pod)
    <3>1. "pod" \in StringLists
      BY ListOrderIsOfLists
    <3> HIDE DEF asked
    <3> QED
      BY <2>2, <3>1, ListsAreKept
  <2> HIDE DEF generate, asked, pod, all
  <2> QED
    BY <2>1, <2>2, <2>3
<1>3. WellMade(inRust)
  <2> DEFINE style == EnumStyleInsert(c, d.name, d.style)
             derive == DeriveInsert(c, d.name, d.trait)
             byConcrete == [c EXCEPT !.concretes = With(@, d.definition, d.id)]
             types == [c EXCEPT !.rustTypes = Append(@, d.id)]
             subclass == [superclass |-> d.superclass, subclass |-> d.id]
             subclasses == [c EXCEPT !.subclasses = Append(@, subclass)]
             funs == [c EXCEPT !.rustFuns = Append(@, d.id)]
             byExtern == [c EXCEPT !.externs = With(@, d.name, ExternOf(d))]
  <2>1. /\ d.directive = "concrete" => inRust = byConcrete
        /\ d.directive \in {"rust_type", "extern_rust_type"} => inRust = types
        /\ d.directive = "subclass" => inRust = subclasses
        /\ d.directive = "extern_rust_function" => inRust = funs
        /\ d.directive = "enum_style" => inRust = style
        /\ d.directive = "derive" => inRust = derive
        /\ d.directive \notin {"concrete", "rust_type", "extern_rust_type", "subclass", "extern_rust_function",
                               "enum_style", "derive"} => inRust = byExtern
    BY InRustMeans
  <2>2. WellMade(style) /\ WellMade(derive) /\ WellMade(byConcrete) /\ WellMade(byExtern)
    BY MapsAreKept
  <2>3. WellMade(types) /\ WellMade(funs)
    <3>1. Listed(c.rustTypes) /\ Listed(c.rustFuns)
      BY DEF WellMade
    <3>2. Listed(Append(c.rustTypes, d.id)) /\ Listed(Append(c.rustFuns, d.id))
      BY <3>1, ListedAppend
    <3> QED
      BY <3>2, OneFieldChanges
  <2>4. WellMade(subclasses)
    <3> DEFINE v == c.subclasses
               w == Append(v, subclass)
    <3>1. Listed(v) /\ \A i \in 1..Len(v) : v[i] = [superclass |-> v[i].superclass, subclass |-> v[i].subclass]
      BY DEF WellMade, SubclassesOk
    <3>2. subclass = [superclass |-> subclass.superclass, subclass |-> subclass.subclass]
      OBVIOUS
    <3> HIDE DEF v, subclass
    <3>3. Listed(w) /\ Len(w) = Len(v) + 1 /\ w[Len(v) + 1] = subclass
      BY <3>1, ListedAppend
    <3>4. ASSUME NEW i \in DOMAIN v PROVE w[i] = v[i]
      BY <3>1, ListedAppend
    <3>5. Len(v) \in Nat /\ DOMAIN v = 1..Len(v)
      BY <3>1, ListedMeans
    <3> HIDE DEF w
    <3>6. ASSUME NEW i \in 1..Len(w) PROVE w[i] = [superclass |-> w[i].superclass, subclass |-> w[i].subclass]
      <4>1. i \in 1..Len(v) \/ i = Len(v) + 1
        BY <3>3, <3>5
      <4> QED
        BY <3>1, <3>2, <3>3, <3>4, <3>5, <4>1
    <3>7. SubclassesOk(w)
      BY <3>3, <3>6 DEF SubclassesOk
    <3>8. WellMade([c EXCEPT !.subclasses = w])
      BY <3>7, OneFieldChanges
    <3> QED
      BY <3>8 DEF v, w
  <2> HIDE DEF inRust, style, derive, byConcrete, types, subclasses, funs, byExtern
  <2>5. \/ inRust = byConcrete \/ inRust = types \/ inRust = subclasses \/ inRust = funs
        \/ inRust = style \/ inRust = derive \/ inRust = byExtern
    BY <2>1
  <2> QED
    BY <2>2, <2>3, <2>4, <2>5
<1> DEFINE included == [c EXCEPT !.includes = Append(@, d.header)]
           safe == [c EXCEPT !.safety = d.policy]
           listed == AddToList(c, d.directive, d.name)
           flagged == [c EXCEPT !.flags = @ \cup {d.directive}]
           named == [c EXCEPT !.name = d.id]
           refused == Refused(c)
<1>4. after = CASE c.refused -> c
                [] d.directive = "include" -> included
                [] d.directive \in GenerateDirectives -> generate
                [] d.directive = "safety" -> safe
                [] d.directive \in StringLists -> listed
                [] d.directive \in Flags -> flagged
                [] d.directive = "name" -> named
                [] d.directive \in InRustDirectives -> inRust
                [] OTHER -> refused
  BY DEF ParseDirective
<1>5. WellMade(safe) /\ WellMade(named) /\ WellMade(refused)
  BY OneFieldChanges
<1>6. WellMade(included)
  <2>1. Listed(c.includes)
    BY DEF WellMade
  <2>2. Listed(Append(c.includes, d.header))
    BY <2>1, ListedAppend
  <2> QED
    BY <2>2, OneFieldChanges
<1>7. d.directive \in StringLists => WellMade(listed)
  BY ListsAreKept
<1>8. d.directive \in Flags => WellMade(flagged)
  <2>1. c.flags \subseteq Flags
    BY DEF WellMade
  <2>2. d.directive \in Flags => c.flags \cup {d.directive} \subseteq Flags
    BY <2>1
  <2> QED
    BY <2>2, OneFieldChanges
<1>10. SUFFICES WellMade(after)
  OBVIOUS
<1> HIDE DEF after, included, safe, listed, flagged, named, refused, generate, inRust
<1>9. \/ after = c \/ after = included \/ after = generate \/ after = safe
      \/ after = listed \/ after = flagged \/ after = named \/ after = inRust \/ after = refused
  BY <1>4
<1>11. CASE d.directive \in StringLists /\ d.directive \in Flags
  BY <1>2, <1>3, <1>5, <1>6, <1>7, <1>8, <1>9, <1>11
<1>12. CASE d.directive \in StringLists /\ d.directive \notin Flags
  <2>1. \/ after = c \/ after = included \/ after = generate \/ after = safe
        \/ after = listed \/ after = named \/ after = inRust \/ after = refused
    BY <1>4, <1>12
  <2> QED
    BY <1>2, <1>3, <1>5, <1>6, <1>7, <1>12, <2>1
<1>13. CASE d.directive \notin StringLists /\ d.directive \in Flags
  <2>1. \/ after = c \/ after = included \/ after = generate \/ after = safe
        \/ after = flagged \/ after = named \/ after = inRust \/ after = refused
    BY <1>4, <1>13
  <2> QED
    BY <1>2, <1>3, <1>5, <1>6, <1>8, <1>13, <2>1
<1>14. CASE d.directive \notin StringLists /\ d.directive \notin Flags
  <2>1. \/ after = c \/ after = included \/ after = generate \/ after = safe
        \/ after = named \/ after = inRust \/ after = refused
    BY <1>4, <1>14
  <2> QED
    BY <1>2, <1>3, <1>5, <1>6, <2>1
<1> QED
  BY <1>11, <1>12, <1>13, <1>14

LEMMA WhatIsParsedIsWellMade ==
    ASSUME NEW directives, Listed(directives)
    PROVE  WellMade(ParseConfig(directives))
<1> DEFINE N == Len(directives)
<1>1. PICK after : /\ after[0] = NewConfig
                   /\ \A n \in 1..N : after[n] = ParseDirective(after[n - 1], directives[n])
                   /\ ParseConfig(directives) = after[N]
  BY ParseConfigUnfold
<1> DEFINE S == {n \in Nat : n <= N => WellMade(after[n])}
<1>2. 0 \in S
  BY <1>1, NewIsWellMade
<1>3. N \in Nat
  BY ListedMeans
<1>4. ASSUME NEW n \in S PROVE n + 1 \in S
  <2>1. SUFFICES ASSUME n + 1 <= N PROVE WellMade(after[n + 1])
    OBVIOUS
  <2>2. WellMade(after[n]) /\ n + 1 \in 1..N /\ (n + 1) - 1 = n
    BY <1>3, <2>1
  <2>3. after[n + 1] = ParseDirective(after[n], directives[n + 1])
    BY <1>1, <2>2
  <2> QED
    BY <2>2, <2>3, DirectivesKeepItWellMade
<1>5. S \in SUBSET Nat
  OBVIOUS
<1> HIDE DEF S
<1>6. S = Nat
  BY <1>2, <1>4, <1>5, Induction
<1>7. WellMade(after[N])
  BY <1>3, <1>6 DEF S
<1> QED
  BY <1>1, <1>7

-----------------------------------------------------------------------------
(* What is read back of each part of what was written out: what is there. *)
Put(c, field, v) == [f \in ConfigFields |-> IF f = field THEN v ELSE c[f]]

LEMMA PuttingIs ==
    ASSUME NEW c, Shaped(c), NEW field \in ConfigFields \ {"refused"}, NEW v
    PROVE  /\ Shaped(Put(c, field, v)) /\ Put(c, field, v)[field] = v
           /\ \A f \in ConfigFields \ {field} : Put(c, field, v)[f] = c[f]
           /\ Put(c, field, c[field]) = c
           /\ \A w : Put(Put(c, field, v), field, w) = Put(c, field, w)
<1>1. Put(c, field, v)[field] = v /\ \A f \in ConfigFields \ {field} : Put(c, field, v)[f] = c[f]
  BY DEF Put
<1>2. "refused" \in ConfigFields \ {field}
  BY DEF ConfigFields
<1>3. Shaped(Put(c, field, v))
  <2>1. Put(c, field, v) = [f \in ConfigFields |-> Put(c, field, v)[f]]
    BY DEF Put
  <2>2. Put(c, field, v)["refused"] = FALSE
    BY <1>1, <1>2 DEF Shaped
  <2> QED
    BY <2>1, <2>2 DEF Shaped
<1>4. Put(c, field, c[field]) = c
  BY DEF Put, Shaped
<1>5. ASSUME NEW w PROVE Put(Put(c, field, v), field, w) = Put(c, field, w)
  BY DEF Put
<1> QED
  BY <1>1, <1>3, <1>4, <1>5

LEMMA ChangingIsPutting ==
    ASSUME NEW c, Shaped(c), NEW v
    PROVE  /\ [c EXCEPT !.includes = v] = Put(c, "includes", v)
           /\ [c EXCEPT !.rustTypes = v] = Put(c, "rustTypes", v)
           /\ [c EXCEPT !.rustFuns = v] = Put(c, "rustFuns", v)
           /\ [c EXCEPT !.subclasses = v] = Put(c, "subclasses", v)
           /\ [c EXCEPT !.concretes = v] = Put(c, "concretes", v)
           /\ [c EXCEPT !.externs = v] = Put(c, "externs", v)
           /\ [c EXCEPT !.enumStyles = v] = Put(c, "enumStyles", v)
           /\ [c EXCEPT !.derives = v] = Put(c, "derives", v)
           /\ [c EXCEPT !.lists = v] = Put(c, "lists", v)
           /\ [c EXCEPT !.flags = v] = Put(c, "flags", v)
           /\ [c EXCEPT !.safety = v] = Put(c, "safety", v)
           /\ [c EXCEPT !.name = v] = Put(c, "name", v)
           /\ [c EXCEPT !.mode = v] = Put(c, "mode", v)
           /\ [c EXCEPT !.entries = v] = Put(c, "entries", v)
<1>1. [c EXCEPT !.includes = v] = Put(c, "includes", v) /\ [c EXCEPT !.rustTypes = v] = Put(c, "rustTypes", v)
  BY DEF Shaped, ConfigFields, Put
<1>2. [c EXCEPT !.rustFuns = v] = Put(c, "rustFuns", v) /\ [c EXCEPT !.subclasses = v] = Put(c, "subclasses", v)
  BY DEF Shaped, ConfigFields, Put
<1>3. [c EXCEPT !.concretes = v] = Put(c, "concretes", v) /\ [c EXCEPT !.externs = v] = Put(c, "externs", v)
  BY DEF Shaped, ConfigFields, Put
<1>4. [c EXCEPT !.enumStyles = v] = Put(c, "enumStyles", v) /\ [c EXCEPT !.derives = v] = Put(c, "derives", v)
  BY DEF Shaped, ConfigFields, Put
<1>5. [c EXCEPT !.lists = v] = Put(c, "lists", v) /\ [c EXCEPT !.flags = v] = Put(c, "flags", v)
  BY DEF Shaped, ConfigFields, Put
<1>6. [c EXCEPT !.safety = v] = Put(c, "safety", v) /\ [c EXCEPT !.name = v] = Put(c, "name", v)
  BY DEF Shaped, ConfigFields, Put
<1>7. [c EXCEPT !.mode = v] = Put(c, "mode", v) /\ [c EXCEPT !.entries = v] = Put(c, "entries", v)
  BY DEF Shaped, ConfigFields, Put
<1> QED
  BY <1>1, <1>2, <1>3, <1>4, <1>5, <1>6, <1>7

(* Directives each of which takes a field from one value to the next. *)
Grows(field, at, ds) ==
    /\ Listed(ds)
    /\ \A n \in 1..Len(ds) : \A b :
        Shaped(b) /\ b[field] = at[n - 1] => ParseDirective(b, ds[n]) = Put(b, field, at[n])

LEMMA GrowsLead ==
    ASSUME NEW c, Shaped(c), NEW field \in ConfigFields \ {"refused"}, NEW at, c[field] = at[0],
           NEW ds, Grows(field, at, ds)
    PROVE  Leads(c, ds, Put(c, field, at[Len(ds)]))
<1> DEFINE after == [n \in 0..Len(ds) |-> Put(c, field, at[n])]
<1>1. Len(ds) \in Nat /\ 0 \in 0..Len(ds) /\ Len(ds) \in 0..Len(ds)
  BY ListedMeans DEF Grows
<1>2. after[0] = c /\ after[Len(ds)] = Put(c, field, at[Len(ds)])
  <2>1. Put(c, field, at[0]) = c
    BY PuttingIs
  <2> QED
    BY <1>1, <2>1
<1>3. ASSUME NEW n \in 1..Len(ds) PROVE after[n] = ParseDirective(after[n - 1], ds[n])
  <2> DEFINE b == Put(c, field, at[n - 1])
  <2>1. after[n - 1] = b /\ after[n] = Put(c, field, at[n])
    BY <1>1
  <2>2. Shaped(b) /\ b[field] = at[n - 1] /\ Put(b, field, at[n]) = Put(c, field, at[n])
    BY PuttingIs
  <2> HIDE DEF b, after
  <2>3. ParseDirective(b, ds[n]) = Put(b, field, at[n])
    BY <2>2 DEF Grows
  <2> QED
    BY <2>1, <2>2, <2>3
<1> HIDE DEF after
<1>4. StepByStep(after, ds, c, Put(c, field, at[Len(ds)]))
  BY <1>2, <1>3 DEF StepByStep
<1> QED
  BY <1>4 DEF Leads

(* Directives each of which puts its own at the end of a list. *)
Appends(field, v, ds) ==
    /\ ds = [i \in DOMAIN v |-> ds[i]]
    /\ \A i \in DOMAIN v : \A b :
        Shaped(b) => ParseDirective(b, ds[i]) = Put(b, field, Append(b[field], v[i]))

LEMMA AppendsLead ==
    ASSUME NEW c, Shaped(c), NEW field \in ConfigFields \ {"refused"}, c[field] = <<>>, NEW v, Listed(v),
           NEW ds, Appends(field, v, ds)
    PROVE  Leads(c, ds, Put(c, field, v)) /\ Listed(ds)
<1> DEFINE N == Len(v)
           at == [n \in 0..N |-> FirstOf(v, n)]
<1>1. /\ N \in Nat /\ DOMAIN v = 1..N /\ FirstOf(v, 0) = <<>> /\ FirstOf(v, N) = v
      /\ \A n \in 1..N : FirstOf(v, n) = Append(FirstOf(v, n - 1), v[n])
  BY ListedMeans, FirstOfAll
<1>2. Listed(ds) /\ Len(ds) = N
  BY MappedIsListed DEF Appends
<1> HIDE DEF N
<1>3. at[0] = <<>> /\ at[N] = v /\ \A n \in 1..N : at[n] = Append(at[n - 1], v[n])
  BY <1>1
<1> HIDE DEF at
<1>4. Grows(field, at, ds)
  <2>1. ASSUME NEW n \in 1..N, NEW b, Shaped(b), b[field] = at[n - 1]
        PROVE  ParseDirective(b, ds[n]) = Put(b, field, at[n])
    <3>1. ParseDirective(b, ds[n]) = Put(b, field, Append(b[field], v[n]))
      BY <1>1, <2>1 DEF Appends
    <3> QED
      BY <1>3, <2>1, <3>1
  <2> QED
    BY <1>2, <2>1 DEF Grows
<1>5. Leads(c, ds, Put(c, field, at[Len(ds)]))
  BY <1>3, <1>4, GrowsLead
<1> QED
  BY <1>2, <1>3, <1>5

(* Directives each of which puts an entry of its own into a map. *)
Enters(field, f, keys, ds) ==
    /\ ds = [i \in DOMAIN keys |-> ds[i]]
    /\ \A i \in DOMAIN keys : \A b :
        Shaped(b) /\ keys[i] \notin DOMAIN b[field] =>
            ParseDirective(b, ds[i]) = Put(b, field, With(b[field], keys[i], f[keys[i]]))

LEMMA EntersLead ==
    ASSUME NEW c, Shaped(c), NEW field \in ConfigFields \ {"refused"}, c[field] = NoEntries, NEW f, IsMap(f),
           NEW keys, keys = SetToSeq(DOMAIN f), NEW ds, Enters(field, f, keys, ds)
    PROVE  Leads(c, ds, Put(c, field, f)) /\ Listed(ds)
<1> DEFINE N == Len(keys)
           at == [n \in 0..N |-> EntriesAt(f, keys, n)]
<1>1. Listed(keys) /\ N \in Nat /\ DOMAIN keys = 1..N
  <2>1. IsFiniteSet(DOMAIN f)
    BY DEF IsMap
  <2> QED
    BY <2>1, KeysOfAll
<1>2. Listed(ds) /\ Len(ds) = N
  BY <1>1, MappedIsListed DEF Enters
<1>3. /\ EntriesAt(f, keys, 0) = NoEntries /\ EntriesAt(f, keys, N) = f
      /\ \A n \in 1..N :
            /\ keys[n] \notin DOMAIN EntriesAt(f, keys, n - 1)
            /\ EntriesAt(f, keys, n) = With(EntriesAt(f, keys, n - 1), keys[n], f[keys[n]])
  BY EntriesOfAll
<1> HIDE DEF N
<1>4. /\ at[0] = NoEntries /\ at[N] = f
      /\ \A n \in 1..N : keys[n] \notin DOMAIN at[n - 1] /\ at[n] = With(at[n - 1], keys[n], f[keys[n]])
  BY <1>1, <1>3
<1> HIDE DEF at
<1>5. Grows(field, at, ds)
  BY <1>1, <1>2, <1>4 DEF Grows, Enters
<1>6. Leads(c, ds, Put(c, field, at[Len(ds)]))
  BY <1>4, <1>5, GrowsLead
<1> QED
  BY <1>2, <1>4, <1>6

LEMMA IncludesAppend ==
    ASSUME NEW v, NEW ds, ds = [i \in DOMAIN v |-> [directive |-> "include", header |-> v[i]]]
    PROVE  Appends("includes", v, ds)
<1>1. ASSUME NEW i \in DOMAIN v, NEW b, Shaped(b)
      PROVE  ParseDirective(b, ds[i]) = Put(b, "includes", Append(b["includes"], v[i]))
  <2> DEFINE d == ds[i]
             w == Append(b["includes"], v[i])
  <2>1. d.directive = "include" /\ d.header = v[i] /\ b.refused = FALSE
    BY <1>1 DEF Shaped
  <2> HIDE DEF d
  <2>2. ParseDirective(b, d) = [b EXCEPT !.includes = Append(@, d.header)]
    BY <2>1, OthersInTurn
  <2>9. [b EXCEPT !.includes = w] = Put(b, "includes", w)
    <3> HIDE DEF w
    <3> QED
      BY <1>1, ChangingIsPutting
  <2>3. ParseDirective(b, d) = [b EXCEPT !.includes = w]
    BY <2>1, <2>2
  <2> HIDE DEF w
  <2>10. ParseDirective(b, d) = Put(b, "includes", w)
    BY <2>3, <2>9, Zenon
  <2> QED
    BY <2>10 DEF d, w
<1> QED
  BY <1>1 DEF Appends

LEMMA RustTypesAppend ==
    ASSUME NEW v, NEW ds, ds = [i \in DOMAIN v |-> [directive |-> "extern_rust_type", id |-> v[i]]]
    PROVE  Appends("rustTypes", v, ds)
<1>1. ASSUME NEW i \in DOMAIN v, NEW b, Shaped(b)
      PROVE  ParseDirective(b, ds[i]) = Put(b, "rustTypes", Append(b["rustTypes"], v[i]))
  <2> DEFINE d == ds[i]
             w == Append(b["rustTypes"], v[i])
  <2>1. d.directive = "extern_rust_type" /\ d.id = v[i] /\ b.refused = FALSE
    BY <1>1 DEF Shaped
  <2> HIDE DEF d
  <2>2. ParseDirective(b, d) = [b EXCEPT !.rustTypes = Append(@, d.id)]
    BY <2>1, InRustInTurn
  <2>9. [b EXCEPT !.rustTypes = w] = Put(b, "rustTypes", w)
    <3> HIDE DEF w
    <3> QED
      BY <1>1, ChangingIsPutting
  <2>3. ParseDirective(b, d) = [b EXCEPT !.rustTypes = w]
    BY <2>1, <2>2
  <2> HIDE DEF w
  <2>10. ParseDirective(b, d) = Put(b, "rustTypes", w)
    BY <2>3, <2>9, Zenon
  <2> QED
    BY <2>10 DEF d, w
<1> QED
  BY <1>1 DEF Appends

LEMMA RustFunsAppend ==
    ASSUME NEW v, NEW ds, ds = [i \in DOMAIN v |-> [directive |-> "extern_rust_function", id |-> v[i]]]
    PROVE  Appends("rustFuns", v, ds)
<1>1. ASSUME NEW i \in DOMAIN v, NEW b, Shaped(b)
      PROVE  ParseDirective(b, ds[i]) = Put(b, "rustFuns", Append(b["rustFuns"], v[i]))
  <2> DEFINE d == ds[i]
             w == Append(b["rustFuns"], v[i])
  <2>1. d.directive = "extern_rust_function" /\ d.id = v[i] /\ b.refused = FALSE
    BY <1>1 DEF Shaped
  <2> HIDE DEF d
  <2>2. ParseDirective(b, d) = [b EXCEPT !.rustFuns = Append(@, d.id)]
    BY <2>1, InRustInTurn
  <2>9. [b EXCEPT !.rustFuns = w] = Put(b, "rustFuns", w)
    <3> HIDE DEF w
    <3> QED
      BY <1>1, ChangingIsPutting
  <2>3. ParseDirective(b, d) = [b EXCEPT !.rustFuns = w]
    BY <2>1, <2>2
  <2> HIDE DEF w
  <2>10. ParseDirective(b, d) = Put(b, "rustFuns", w)
    BY <2>3, <2>9, Zenon
  <2> QED
    BY <2>10 DEF d, w
<1> QED
  BY <1>1 DEF Appends

LEMMA SubclassesAppend ==
    ASSUME NEW v, SubclassesOk(v),
           NEW ds, ds = [i \in DOMAIN v |-> [directive |-> "subclass", superclass |-> v[i].superclass, id |-> v[i].subclass]]
    PROVE  Appends("subclasses", v, ds)
<1>1. ASSUME NEW i \in DOMAIN v, NEW b, Shaped(b)
      PROVE  ParseDirective(b, ds[i]) = Put(b, "subclasses", Append(b["subclasses"], v[i]))
  <2> DEFINE d == ds[i]
             w == Append(b["subclasses"], v[i])
  <2>1. d.directive = "subclass" /\ d.superclass = v[i].superclass /\ d.id = v[i].subclass /\ b.refused = FALSE
    BY <1>1 DEF Shaped
  <2> HIDE DEF d
  <2>2. ParseDirective(b, d) = [b EXCEPT !.subclasses = Append(@, [superclass |-> d.superclass, subclass |-> d.id])]
    BY <2>1, InRustInTurn
  <2>4. [superclass |-> d.superclass, subclass |-> d.id] = v[i]
    <3>1. i \in 1..Len(v)
      BY ListedMeans DEF SubclassesOk
    <3>2. v[i] = [superclass |-> v[i].superclass, subclass |-> v[i].subclass]
      BY <3>1 DEF SubclassesOk
    <3> QED
      BY <2>1, <3>2
  <2>9. [b EXCEPT !.subclasses = w] = Put(b, "subclasses", w)
    <3> HIDE DEF w
    <3> QED
      BY <1>1, ChangingIsPutting
  <2>3. ParseDirective(b, d) = [b EXCEPT !.subclasses = w]
    BY <2>2, <2>4
  <2> HIDE DEF w
  <2>10. ParseDirective(b, d) = Put(b, "subclasses", w)
    BY <2>3, <2>9, Zenon
  <2> QED
    BY <2>10 DEF d, w
<1> QED
  BY <1>1 DEF Appends

LEMMA ConcretesEnter ==
    ASSUME NEW f, NEW keys,
           NEW ds, ds = [i \in DOMAIN keys |-> [directive |-> "concrete", definition |-> keys[i], id |-> f[keys[i]]]]
    PROVE  Enters("concretes", f, keys, ds)
<1>1. ASSUME NEW i \in DOMAIN keys, NEW b, Shaped(b)
      PROVE  ParseDirective(b, ds[i]) = Put(b, "concretes", With(b["concretes"], keys[i], f[keys[i]]))
  <2> DEFINE d == ds[i]
             w == With(b["concretes"], keys[i], f[keys[i]])
  <2>1. d.directive = "concrete" /\ d.definition = keys[i] /\ d.id = f[keys[i]] /\ b.refused = FALSE
    BY <1>1 DEF Shaped
  <2> HIDE DEF d
  <2>2. ParseDirective(b, d) = [b EXCEPT !.concretes = With(@, d.definition, d.id)]
    BY <2>1, InRustInTurn
  <2>9. [b EXCEPT !.concretes = w] = Put(b, "concretes", w)
    <3> HIDE DEF w
    <3> QED
      BY <1>1, ChangingIsPutting
  <2>3. ParseDirective(b, d) = [b EXCEPT !.concretes = w]
    BY <2>1, <2>2
  <2> HIDE DEF w
  <2>10. ParseDirective(b, d) = Put(b, "concretes", w)
    BY <2>3, <2>9, Zenon
  <2> QED
    BY <2>10 DEF d, w
<1> QED
  BY <1>1 DEF Enters

LEMMA ExternsEnter ==
    ASSUME NEW f, ExternsOk(f), NEW keys, \A i \in DOMAIN keys : keys[i] \in DOMAIN f,
           NEW ds, ds = [i \in DOMAIN keys |->
                            [directive |-> IF f[keys[i]].opaque THEN "extern_cpp_opaque_type" ELSE "extern_cpp_type",
                             name |-> keys[i], id |-> f[keys[i]].path]]
    PROVE  Enters("externs", f, keys, ds)
<1>1. ASSUME NEW i \in DOMAIN keys, NEW b, Shaped(b)
      PROVE  ParseDirective(b, ds[i]) = Put(b, "externs", With(b["externs"], keys[i], f[keys[i]]))
  <2> DEFINE d == ds[i]
             w == With(b["externs"], keys[i], f[keys[i]])
  <2>1. /\ d.directive = IF f[keys[i]].opaque THEN "extern_cpp_opaque_type" ELSE "extern_cpp_type"
        /\ d.name = keys[i] /\ d.id = f[keys[i]].path /\ b.refused = FALSE
    BY <1>1 DEF Shaped
  <2> HIDE DEF d
  <2>4. d.directive \in {"extern_cpp_type", "extern_cpp_opaque_type"}
    BY <2>1
  <2>2. ParseDirective(b, d) = [b EXCEPT !.externs = With(@, d.name, ExternOf(d))]
    BY <2>1, <2>4, InRustInTurn
  <2>5. PICK path : f[keys[i]] \in {[path |-> path, opaque |-> TRUE], [path |-> path, opaque |-> FALSE]}
    BY DEF ExternsOk
  <2>6. ExternOf(d) = f[keys[i]]
    <3>1. CASE f[keys[i]] = [path |-> path, opaque |-> TRUE]
      BY <2>1, <3>1, ExternsInTurn
    <3>2. CASE f[keys[i]] = [path |-> path, opaque |-> FALSE]
      BY <2>1, <3>2, ExternsInTurn
    <3> QED
      BY <2>5, <3>1, <3>2
  <2>9. [b EXCEPT !.externs = w] = Put(b, "externs", w)
    <3> HIDE DEF w
    <3> QED
      BY <1>1, ChangingIsPutting
  <2>3. ParseDirective(b, d) = [b EXCEPT !.externs = w]
    BY <2>1, <2>2, <2>6
  <2> HIDE DEF w
  <2>10. ParseDirective(b, d) = Put(b, "externs", w)
    BY <2>3, <2>9, Zenon
  <2> QED
    BY <2>10 DEF d, w
<1> QED
  BY <1>1 DEF Enters

LEMMA StylesEnter ==
    ASSUME NEW f, StylesOk(f), NEW keys, \A i \in DOMAIN keys : keys[i] \in DOMAIN f,
           NEW ds, ds = [i \in DOMAIN keys |-> [directive |-> "enum_style", name |-> keys[i], style |-> f[keys[i]]]]
    PROVE  Enters("enumStyles", f, keys, ds)
<1>1. ASSUME NEW i \in DOMAIN keys, NEW b, Shaped(b), keys[i] \notin DOMAIN b["enumStyles"]
      PROVE  ParseDirective(b, ds[i]) = Put(b, "enumStyles", With(b["enumStyles"], keys[i], f[keys[i]]))
  <2> DEFINE d == ds[i]
             w == With(b["enumStyles"], keys[i], f[keys[i]])
  <2>1. d.directive = "enum_style" /\ d.name = keys[i] /\ d.style = f[keys[i]] /\ b.refused = FALSE
    BY <1>1 DEF Shaped
  <2> HIDE DEF d
  <2>2. ParseDirective(b, d) = EnumStyleInsert(b, d.name, d.style)
    BY <2>1, InRustInTurn
  <2>4. IsPlainQualifiedName(keys[i])
    BY DEF StylesOk
  <2>9. [b EXCEPT !.enumStyles = w] = Put(b, "enumStyles", w)
    <3> HIDE DEF w
    <3> QED
      BY <1>1, ChangingIsPutting
  <2>3. ParseDirective(b, d) = [b EXCEPT !.enumStyles = w]
    BY <1>1, <2>1, <2>2, <2>4 DEF EnumStyleInsert
  <2> HIDE DEF w
  <2>10. ParseDirective(b, d) = Put(b, "enumStyles", w)
    BY <2>3, <2>9, Zenon
  <2> QED
    BY <2>10 DEF d, w
<1> QED
  BY <1>1 DEF Enters

LEMMA FlagsLead ==
    ASSUME NEW c, Shaped(c), c["flags"] = {}, NEW flags \in SUBSET Flags,
           NEW keys, keys = SetToSeq(flags), NEW ds, ds = [i \in DOMAIN keys |-> [directive |-> keys[i]]]
    PROVE  Leads(c, ds, Put(c, "flags", flags)) /\ Listed(ds)
<1> DEFINE N == Len(keys)
           at == [n \in 0..N |-> FirstKeys(keys, n)]
<1>1. /\ Listed(keys) /\ N \in Nat /\ DOMAIN keys = 1..N
      /\ FirstKeys(keys, 0) = {} /\ FirstKeys(keys, N) = flags
      /\ \A n \in 1..N : keys[n] \in flags /\ FirstKeys(keys, n) = FirstKeys(keys, n - 1) \cup {keys[n]}
  <2>1. Flags = ((({} \cup {"parse_only"}) \cup {"exclude_impls"}) \cup {"exclude_utilities"}) \cup {"pretty"}
    BY DEF Flags
  <2>2. IsFiniteSet({} \cup {"parse_only"})
    BY FS_EmptySet, FS_AddElement
  <2>3. IsFiniteSet(({} \cup {"parse_only"}) \cup {"exclude_impls"})
    BY <2>2, FS_AddElement
  <2>4. IsFiniteSet((({} \cup {"parse_only"}) \cup {"exclude_impls"}) \cup {"exclude_utilities"})
    BY <2>3, FS_AddElement
  <2>5. IsFiniteSet(Flags)
    BY <2>1, <2>4, FS_AddElement
  <2>6. IsFiniteSet(flags)
    BY <2>5, FS_Subset
  <2> QED
    BY <2>6, KeysOfAll
<1>2. Listed(ds) /\ Len(ds) = N
  BY <1>1, MappedIsListed
<1> HIDE DEF N
<1>3. at[0] = {} /\ at[N] = flags /\ \A n \in 1..N : at[n] = at[n - 1] \cup {keys[n]}
  BY <1>1
<1>4. ASSUME NEW n \in 1..N, NEW b, Shaped(b), b["flags"] = at[n - 1]
      PROVE  ParseDirective(b, ds[n]) = Put(b, "flags", at[n])
  <2> DEFINE d == ds[n]
             w == at[n]
  <2>1. d.directive = keys[n] /\ d.directive \in Flags /\ b.refused = FALSE
    BY <1>1, <1>4 DEF Shaped
  <2>2. w = b["flags"] \cup {d.directive}
    BY <1>3, <1>4, <2>1
  <2> HIDE DEF d, w, at
  <2>3. ParseDirective(b, d) = [b EXCEPT !.flags = @ \cup {d.directive}]
    BY <2>1, OthersInTurn
  <2>4. ParseDirective(b, d) = [b EXCEPT !.flags = w]
    BY <2>2, <2>3
  <2>5. [b EXCEPT !.flags = w] = Put(b, "flags", w)
    BY <1>4, ChangingIsPutting
  <2>6. ParseDirective(b, d) = Put(b, "flags", w)
    BY <2>4, <2>5, Zenon
  <2> QED
    BY <2>6 DEF d, w
<1> HIDE DEF at
<1>5. Grows("flags", at, ds)
  BY <1>2, <1>4 DEF Grows
<1>6. "flags" \in ConfigFields \ {"refused"} /\ c["flags"] = at[0]
  BY <1>3 DEF ConfigFields
<1>7. Leads(c, ds, Put(c, "flags", at[Len(ds)]))
  BY <1>5, <1>6, GrowsLead
<1> QED
  BY <1>2, <1>3, <1>7

LEMMA OneListed == ASSUME NEW d PROVE Listed(<<d>>)
<1>1. <<d>> \in Seq({d})
  OBVIOUS
<1> QED
  BY <1>1, ListedOf

(* What is written out only when it is not what it would be anyway. *)
LEMMA SafetyLeads ==
    ASSUME NEW c, Shaped(c), c["safety"] = "unsafe functions", NEW safety, NEW ds,
           ds = IF safety = "unsafe functions" THEN <<>> ELSE <<[directive |-> "safety", policy |-> safety]>>
    PROVE  Leads(c, ds, Put(c, "safety", safety)) /\ Listed(ds)
<1>0. "safety" \in ConfigFields \ {"refused"}
  BY DEF ConfigFields
<1>1. CASE safety = "unsafe functions"
  <2>1. Put(c, "safety", safety) = c
    BY <1>0, <1>1, PuttingIs
  <2> QED
    BY <1>1, <2>1, LeadsNowhere, NothingListed
<1>2. CASE safety # "unsafe functions"
  <2> DEFINE d == [directive |-> "safety", policy |-> safety]
  <2>1. d.directive = "safety" /\ d.policy = safety /\ c.refused = FALSE
    BY DEF Shaped
  <2>2. ds = <<d>> /\ Listed(<<d>>)
    BY <1>2, OneListed
  <2> HIDE DEF d
  <2>3. ParseDirective(c, d) = [c EXCEPT !.safety = safety]
    BY <2>1, OthersInTurn
  <2>4. [c EXCEPT !.safety = safety] = Put(c, "safety", safety)
    BY ChangingIsPutting
  <2>5. ParseDirective(c, d) = Put(c, "safety", safety)
    BY <2>3, <2>4, Zenon
  <2> QED
    BY <2>2, <2>5, LeadsByOne
<1> QED
  BY <1>1, <1>2

LEMMA NameLeads ==
    ASSUME NEW c, Shaped(c), c["name"] = "ffi", NEW name, NEW ds,
           ds = IF name = "ffi" THEN <<>> ELSE <<[directive |-> "name", id |-> name]>>
    PROVE  Leads(c, ds, Put(c, "name", name)) /\ Listed(ds)
<1>0. "name" \in ConfigFields \ {"refused"}
  BY DEF ConfigFields
<1>1. CASE name = "ffi"
  <2>1. Put(c, "name", name) = c
    BY <1>0, <1>1, PuttingIs
  <2> QED
    BY <1>1, <2>1, LeadsNowhere, NothingListed
<1>2. CASE name # "ffi"
  <2> DEFINE d == [directive |-> "name", id |-> name]
  <2>1. d.directive = "name" /\ d.id = name /\ c.refused = FALSE
    BY DEF Shaped
  <2>2. ds = <<d>> /\ Listed(<<d>>)
    BY <1>2, OneListed
  <2> HIDE DEF d
  <2>3. ParseDirective(c, d) = [c EXCEPT !.name = name]
    BY <2>1, OthersInTurn
  <2>4. [c EXCEPT !.name = name] = Put(c, "name", name)
    BY ChangingIsPutting
  <2>5. ParseDirective(c, d) = Put(c, "name", name)
    BY <2>3, <2>4, Zenon
  <2> QED
    BY <2>2, <2>5, LeadsByOne
<1> QED
  BY <1>1, <1>2

(* The lists of names, of which there are several in one field. *)
ListsAt(lists, n) == [l \in StringLists |-> IF l \in FirstKeys(StringListOrder, n) THEN lists[l] ELSE <<>>]

LEMMA ListsInOrder ==
    /\ FirstKeys(StringListOrder, 0) = {} /\ FirstKeys(StringListOrder, 8) = StringLists
    /\ \A n \in 1..8 : /\ StringListOrder[n] \in StringLists
                       /\ StringListOrder[n] \notin FirstKeys(StringListOrder, n - 1)
                       /\ FirstKeys(StringListOrder, n) = FirstKeys(StringListOrder, n - 1) \cup {StringListOrder[n]}
<1> DEFINE v == StringListOrder
<1>1. /\ v[1] = "pod" /\ v[2] = "block" /\ v[3] = "opaque" /\ v[4] = "block_constructors"
      /\ v[5] = "block_functions" /\ v[6] = "instantiable" /\ v[7] = "smart_pointer" /\ v[8] = "throws"
  BY DEF StringListOrder
<1>2. DOMAIN v = 1..8 /\ ToSet(v) = StringLists
  <2>1. Listed(v) /\ Len(v) = 8
    BY ListOrderIsOfLists
  <2> QED
    BY <2>1, ListedMeans DEF StringLists
<1> HIDE DEF v
<1>3. \A i, j \in 1..8 : v[i] = v[j] => i = j
  BY <1>1
<1>4. ASSUME NEW n \in 1..8
      PROVE  v[n] \in StringLists /\ v[n] \notin FirstKeys(v, n - 1) /\ FirstKeys(v, n) = FirstKeys(v, n - 1) \cup {v[n]}
  <2>1. 1..n = (1..n - 1) \cup {n}
    OBVIOUS
  <2>2. v[n] \notin FirstKeys(v, n - 1)
    BY <1>3 DEF FirstKeys
  <2>3. FirstKeys(v, n) = FirstKeys(v, n - 1) \cup {v[n]}
    BY <2>1 DEF FirstKeys
  <2> QED
    BY <1>2, <2>2, <2>3 DEF ToSet
<1>5. FirstKeys(v, 0) = {} /\ FirstKeys(v, 8) = StringLists
  BY <1>2 DEF FirstKeys, ToSet
<1> QED
  BY <1>4, <1>5 DEF v

LEMMA OneListLeads ==
    ASSUME NEW c, Shaped(c), NEW list \in StringLists, c["lists"] = [l \in StringLists |-> c["lists"][l]],
           c["lists"][list] = <<>>, NEW v, Listed(v),
           NEW ds, ds = [i \in DOMAIN v |-> [directive |-> list, name |-> v[i]]]
    PROVE  Leads(c, ds, Put(c, "lists", [c["lists"] EXCEPT ![list] = v])) /\ Listed(ds)
<1> DEFINE N == Len(v)
           lists == c["lists"]
           at == [n \in 0..N |-> [lists EXCEPT ![list] = FirstOf(v, n)]]
<1>1. /\ N \in Nat /\ DOMAIN v = 1..N /\ FirstOf(v, 0) = <<>> /\ FirstOf(v, N) = v
      /\ \A n \in 1..N : FirstOf(v, n) = Append(FirstOf(v, n - 1), v[n])
  BY ListedMeans, FirstOfAll
<1>2. Listed(ds) /\ Len(ds) = N
  BY MappedIsListed
<1> HIDE DEF N, lists
<1>3. at[0] = lists /\ at[N] = [lists EXCEPT ![list] = v]
  <2>1. [lists EXCEPT ![list] = <<>>] = lists
    BY DEF lists
  <2> QED
    BY <1>1, <2>1
<1>4. ASSUME NEW n \in 1..N
      PROVE  at[n] = [at[n - 1] EXCEPT ![list] = Append(@, v[n])] /\ DOMAIN at[n - 1] = StringLists
  <2>1. n \in 0..N /\ n - 1 \in 0..N
    BY <1>1
  <2>2. at[n] = [lists EXCEPT ![list] = Append(FirstOf(v, n - 1), v[n])]
    BY <1>1, <2>1
  <2>3. at[n - 1] = [lists EXCEPT ![list] = FirstOf(v, n - 1)]
    BY <2>1
  <2>4. DOMAIN lists = StringLists
    BY DEF lists
  <2> HIDE DEF at
  <2> QED
    BY <2>2, <2>3, <2>4
<1>5. ASSUME NEW n \in 1..N, NEW b, Shaped(b), b["lists"] = at[n - 1]
      PROVE  ParseDirective(b, ds[n]) = Put(b, "lists", at[n])
  <2> DEFINE d == ds[n]
             w == at[n]
  <2>1. d.directive = list /\ d.name = v[n] /\ b.refused = FALSE
    BY <1>1, <1>5 DEF Shaped
  <2>2. w = [b["lists"] EXCEPT ![list] = Append(@, v[n])]
    BY <1>4, <1>5
  <2> HIDE DEF d, w, at
  <2>3. ParseDirective(b, d) = AddToList(b, list, v[n])
    <3>1. d.directive \in StringLists
      BY <2>1
    <3>2. ParseDirective(b, d) = AddToList(b, d.directive, d.name)
      BY <2>1, <3>1, OthersInTurn
    <3> QED
      BY <2>1, <3>2
  <2>4. AddToList(b, list, v[n]) = [b EXCEPT !.lists = w]
    BY <1>5, <2>2 DEF AddToList, Shaped, ConfigFields
  <2>5. [b EXCEPT !.lists = w] = Put(b, "lists", w)
    BY <1>5, ChangingIsPutting
  <2>6. ParseDirective(b, d) = Put(b, "lists", w)
    BY <2>3, <2>4, <2>5, Zenon
  <2> QED
    BY <2>6 DEF d, w
<1> HIDE DEF at
<1>6. Grows("lists", at, ds)
  BY <1>2, <1>5 DEF Grows
<1>7. "lists" \in ConfigFields \ {"refused"} /\ c["lists"] = at[0]
  BY <1>3 DEF ConfigFields, lists
<1>8. Leads(c, ds, Put(c, "lists", at[Len(ds)]))
  BY <1>6, <1>7, GrowsLead
<1> QED
  BY <1>2, <1>3, <1>8 DEF lists

LEMMA ListsLead ==
    ASSUME NEW c, Shaped(c), c["lists"] = [l \in StringLists |-> <<>>], NEW written, ListsOk(written.lists)
    PROVE  Leads(c, OutputLists(written), Put(c, "lists", written.lists)) /\ Listed(OutputLists(written))
<1> DEFINE lists == written.lists
           v == StringListOrder
           seqs == [k \in 1..8 |-> [i \in DOMAIN lists[v[k]] |-> [directive |-> v[k], name |-> lists[v[k]][i]]]]
           states == [k \in 0..8 |-> Put(c, "lists", ListsAt(lists, k))]
<1>1. Listed(v) /\ Len(v) = 8 /\ DOMAIN v = 1..8
  BY ListOrderIsOfLists, ListedMeans
<1>2. OutputLists(written) = FlattenSeq(seqs)
  BY <1>1 DEF OutputLists, Each
<1>3. Listed(seqs) /\ Len(seqs) = 8
  BY <1>1, MappedIsListed
<1>4. "lists" \in ConfigFields \ {"refused"}
  BY DEF ConfigFields
<1> HIDE DEF v, lists
<1>5. ListsAt(lists, 0) = c["lists"] /\ ListsAt(lists, 8) = lists
  BY ListsInOrder DEF ListsAt, ListsOk, lists
<1>6. states[0] = c /\ states[8] = Put(c, "lists", lists)
  <2>1. Put(c, "lists", c["lists"]) = c
    BY <1>4, PuttingIs
  <2> QED
    BY <1>5, <2>1
<1>7. ASSUME NEW k \in 1..8 PROVE Leads(states[k - 1], seqs[k], states[k]) /\ Listed(seqs[k])
  <2> DEFINE list == v[k]
             w == lists[list]
             old == ListsAt(lists, k - 1)
             new == ListsAt(lists, k)
             b == Put(c, "lists", old)
             ds == seqs[k]
  <2>1. list \in StringLists /\ list \notin FirstKeys(v, k - 1) /\ FirstKeys(v, k) = FirstKeys(v, k - 1) \cup {list}
    BY ListsInOrder DEF v
  <2>2. ds = [i \in DOMAIN w |-> [directive |-> list, name |-> w[i]]]
    OBVIOUS
  <2>3. Listed(w)
    BY <2>1 DEF ListsOk, lists
  <2>4. states[k - 1] = b /\ states[k] = Put(c, "lists", new)
    OBVIOUS
  <2> HIDE DEF seqs, states, list, ds
  <2>5. old = [l \in StringLists |-> old[l]] /\ old[list] = <<>> /\ new = [old EXCEPT ![list] = w]
    BY <2>1 DEF ListsAt, v
  <2> HIDE DEF old, new, w
  <2>6. Shaped(b) /\ b["lists"] = old /\ Put(b, "lists", new) = Put(c, "lists", new)
    BY <1>4, PuttingIs
  <2> HIDE DEF b
  <2>7. Leads(b, ds, Put(b, "lists", [b["lists"] EXCEPT ![list] = w])) /\ Listed(ds)
    BY <2>1, <2>2, <2>3, <2>5, <2>6, OneListLeads
  <2> QED
    BY <2>4, <2>5, <2>6, <2>7 DEF ds
<1> HIDE DEF seqs, states
<1>8. Leads(states[0], FlattenSeq(seqs), states[8]) /\ Listed(FlattenSeq(seqs))
  BY <1>3, <1>7, LeadsFlattened
<1> QED
  BY <1>2, <1>6, <1>8 DEF lists

(* The traits derived for each type: a list for each of the keys. *)
LEMMA TraitsLead ==
    ASSUME NEW c, Shaped(c), NEW key, IsPlainQualifiedName(key), key \notin DOMAIN c["derives"],
           NEW traits, TraitsOk(traits),
           NEW ds, ds = [i \in DOMAIN traits |-> [directive |-> "derive", name |-> key, trait |-> traits[i]]]
    PROVE  Leads(c, ds, Put(c, "derives", With(c["derives"], key, traits))) /\ Listed(ds)
<1> DEFINE N == Len(traits)
           old == c["derives"]
           at == [n \in 0..N |-> IF n = 0 THEN old ELSE With(old, key, FirstOf(traits, n))]
<1>1. /\ Listed(traits) /\ N \in Nat /\ N # 0 /\ DOMAIN traits = 1..N
      /\ FirstOf(traits, 0) = <<>> /\ FirstOf(traits, N) = traits
      /\ \A n \in 1..N : FirstOf(traits, n) = Append(FirstOf(traits, n - 1), traits[n])
      /\ \A n \in 0..N : Len(FirstOf(traits, n)) = n /\ \A i \in 1..n : FirstOf(traits, n)[i] = traits[i]
      /\ \A i, j \in 1..N : traits[i] = traits[j] => i = j
  <2>1. Listed(traits) /\ N # 0 /\ \A i, j \in 1..N : traits[i] = traits[j] => i = j
    BY DEF TraitsOk
  <2> QED
    BY <2>1, ListedMeans, FirstOfAll
<1>2. Listed(ds) /\ Len(ds) = N
  BY <1>1, MappedIsListed
<1> HIDE DEF N, old
<1>3. at[0] = old /\ at[N] = With(old, key, traits)
  BY <1>1
<1>4. ASSUME NEW n \in 1..N, NEW b, Shaped(b), b["derives"] = at[n - 1]
      PROVE  ParseDirective(b, ds[n]) = Put(b, "derives", at[n])
  <2> DEFINE d == ds[n]
             w == at[n]
             e == b["derives"]
             before == IF key \in DOMAIN e THEN e[key] ELSE <<>>
  <2>1. d.directive = "derive" /\ d.name = key /\ d.trait = traits[n] /\ b.refused = FALSE
    BY <1>1, <1>4 DEF Shaped
  <2>2. before = FirstOf(traits, n - 1) /\ With(e, key, FirstOf(traits, n)) = w
    <3>1. CASE n = 1
      <4>1. e = old /\ w = With(old, key, FirstOf(traits, n))
        BY <1>1, <1>4, <3>1
      <4>2. before = <<>>
        BY <4>1 DEF old
      <4> QED
        BY <1>1, <3>1, <4>1, <4>2
    <3>2. CASE n # 1
      <4>1. n - 1 \in 0..N /\ n - 1 # 0 /\ n \in 0..N /\ n # 0
        BY <1>1, <3>2
      <4> DEFINE x == FirstOf(traits, n - 1)
                 y == FirstOf(traits, n)
      <4>2. e = With(old, key, x) /\ w = With(old, key, y)
        BY <1>4, <4>1
      <4> HIDE DEF x, y, e, w
      <4>3. key \in DOMAIN e /\ e[key] = x /\ With(e, key, y) = w
        BY <4>2 DEF With
      <4> QED
        BY <4>3 DEF x, y, e, w
    <3> QED
      BY <3>1, <3>2
  <2>3. ~Contains(before, traits[n])
    <3> DEFINE m == n - 1
    <3>1. m \in 0..N /\ n \in 1..N /\ \A i \in 1..m : i \in 1..N /\ i # n
      BY <1>1
    <3> HIDE DEF before, m
    <3>4. before = FirstOf(traits, m)
      BY <2>2 DEF m
    <3>2. Len(before) = m /\ \A i \in 1..m : before[i] = traits[i]
      <4>1. \A k \in 0..N : Len(FirstOf(traits, k)) = k /\ \A i \in 1..k : FirstOf(traits, k)[i] = traits[i]
        BY <1>1
      <4> HIDE DEF at, d, w, e
      <4> QED
        BY <3>1, <3>4, <4>1
    <3>3. \A i \in 1..m : before[i] # traits[n]
      <4>1. \A i, j \in 1..N : traits[i] = traits[j] => i = j
        BY <1>1
      <4> QED
        BY <3>1, <3>2, <4>1
    <3> QED
      BY <3>2, <3>3 DEF Contains
  <2>4. Append(before, traits[n]) = FirstOf(traits, n)
    BY <1>1, <2>2
  <2>5. w = With(b.derives, key, Append(before, traits[n]))
    BY <2>2, <2>4
  <2> HIDE DEF d, w, at, e
  <2>6. ParseDirective(b, d) = DeriveInsert(b, key, traits[n])
    <3>1. ParseDirective(b, d) = DeriveInsert(b, d.name, d.trait)
      BY <2>1, InRustInTurn
    <3> QED
      BY <2>1, <3>1
  <2>7. DeriveInsert(b, key, traits[n]) = [b EXCEPT !.derives = w]
    <3>1. before = IF key \in DOMAIN b.derives THEN b.derives[key] ELSE <<>>
      BY DEF e
    <3> HIDE DEF before
    <3>2. DeriveInsert(b, key, traits[n]) =
            IF ~IsPlainQualifiedName(key) \/ Contains(before, traits[n]) THEN Refused(b)
            ELSE [b EXCEPT !.derives = With(@, key, Append(before, traits[n]))]
      BY <3>1, Zenon DEF DeriveInsert
    <3>3. DeriveInsert(b, key, traits[n]) = [b EXCEPT !.derives = With(b.derives, key, Append(before, traits[n]))]
      BY <2>3, <3>2
    <3> QED
      BY <2>5, <3>3
  <2>8. [b EXCEPT !.derives = w] = Put(b, "derives", w)
    BY <1>4, ChangingIsPutting
  <2>9. ParseDirective(b, d) = Put(b, "derives", w)
    BY <2>6, <2>7, <2>8, Zenon
  <2> QED
    BY <2>9 DEF d, w
<1> HIDE DEF at
<1>5. Grows("derives", at, ds)
  BY <1>2, <1>4 DEF Grows
<1>6. "derives" \in ConfigFields \ {"refused"} /\ c["derives"] = at[0]
  BY <1>3 DEF ConfigFields, old
<1>7. Leads(c, ds, Put(c, "derives", at[Len(ds)]))
  BY <1>5, <1>6, GrowsLead
<1> QED
  BY <1>2, <1>3, <1>7 DEF old

LEMMA DerivesLead ==
    ASSUME NEW c, Shaped(c), c["derives"] = NoEntries, NEW written, DerivesOk(written.derives)
    PROVE  Leads(c, OutputDerives(written), Put(c, "derives", written.derives)) /\ Listed(OutputDerives(written))
<1> DEFINE f == written.derives
           keys == SetToSeq(DOMAIN f)
           N == Len(keys)
           seqs == [k \in DOMAIN keys |-> [i \in DOMAIN f[keys[k]] |->
                        [directive |-> "derive", name |-> keys[k], trait |-> f[keys[k]][i]]]]
           states == [k \in 0..N |-> Put(c, "derives", EntriesAt(f, keys, k))]
<1>1. IsMap(f) /\ \A k \in DOMAIN f : IsPlainQualifiedName(k) /\ TraitsOk(f[k])
  BY DEF DerivesOk
<1>2. OutputDerives(written) = FlattenSeq(seqs)
  BY DEF OutputDerives, EachKey, Each
<1>3. Listed(keys) /\ N \in Nat /\ DOMAIN keys = 1..N
  <2>1. IsFiniteSet(DOMAIN f)
    BY <1>1 DEF IsMap
  <2> QED
    BY <2>1, KeysOfAll
<1> HIDE DEF f
<1>4. /\ EntriesAt(f, keys, 0) = NoEntries /\ EntriesAt(f, keys, N) = f
      /\ \A n \in 1..N :
            /\ keys[n] \in DOMAIN f /\ keys[n] \notin DOMAIN EntriesAt(f, keys, n - 1)
            /\ EntriesAt(f, keys, n) = With(EntriesAt(f, keys, n - 1), keys[n], f[keys[n]])
  BY <1>1, EntriesOfAll
<1> HIDE DEF keys
<1>5. Listed(seqs) /\ Len(seqs) = N
  BY <1>3, MappedIsListed
<1>6. "derives" \in ConfigFields \ {"refused"}
  BY DEF ConfigFields
<1> HIDE DEF N
<1>7. states[0] = c /\ states[N] = Put(c, "derives", f)
  <2>1. Put(c, "derives", NoEntries) = c
    BY <1>6, PuttingIs
  <2> QED
    BY <1>3, <1>4, <2>1
<1>8. ASSUME NEW n \in 1..N PROVE Leads(states[n - 1], seqs[n], states[n]) /\ Listed(seqs[n])
  <2> DEFINE key == keys[n]
             old == EntriesAt(f, keys, n - 1)
             new == EntriesAt(f, keys, n)
             b == Put(c, "derives", old)
             ds == seqs[n]
             traits == f[key]
  <2>1. key \in DOMAIN f /\ key \notin DOMAIN old /\ new = With(old, key, traits)
    BY <1>4
  <2>2. ds = [i \in DOMAIN traits |-> [directive |-> "derive", name |-> key, trait |-> traits[i]]]
    BY <1>3
  <2>3. IsPlainQualifiedName(key) /\ TraitsOk(traits)
    BY <1>1, <2>1
  <2>4. states[n - 1] = b /\ states[n] = Put(c, "derives", new)
    BY <1>3
  <2> HIDE DEF seqs, states, key, ds, traits, old, new
  <2>6. Shaped(b) /\ b["derives"] = old /\ Put(b, "derives", new) = Put(c, "derives", new)
    BY <1>6, PuttingIs
  <2> HIDE DEF b
  <2>7. Leads(b, ds, Put(b, "derives", With(b["derives"], key, traits))) /\ Listed(ds)
    BY <2>1, <2>2, <2>3, <2>6, TraitsLead
  <2> QED
    BY <2>1, <2>4, <2>6, <2>7 DEF ds
<1> HIDE DEF seqs, states
<1>9. Leads(states[0], FlattenSeq(seqs), states[N]) /\ Listed(FlattenSeq(seqs))
  BY <1>5, <1>8, LeadsFlattened
<1> QED
  BY <1>2, <1>7, <1>9 DEF f

(* The allowlist: the items it asks for, then the namespaces. *)
LEMMA EntriesUnfold ==
    ASSUME NEW entries, Listed(entries), NEW item
    PROVE  \E kept : /\ kept[0] = <<>>
                     /\ \A n \in 1..Len(entries) :
                          kept[n] = IF entries[n].item = item THEN Append(kept[n - 1], entries[n]) ELSE kept[n - 1]
                     /\ EntriesOf(entries, item) = kept[Len(entries)]
<1> DEFINE F(g, i) == IF entries[i].item = item THEN Append(g[i - 1], entries[i]) ELSE g[i - 1]
           none == <<>>
           Upto(g, n) == g = [i \in 0..n |-> IF i = 0 THEN none ELSE F(g, i)]
           S == {n \in Nat : \E g : Upto(g, n)}
           kept == CHOOSE g : Upto(g, Len(entries))
<1>1. EntriesOf(entries, item) = kept[Len(entries)]
  BY DEF EntriesOf
<1>8. ASSUME NEW g, NEW h, NEW i, g[i - 1] = h[i - 1] PROVE F(g, i) = F(h, i)
  BY <1>8
<1> HIDE DEF F, none
<1>2. 0 \in S
  <2>1. Upto([i \in 0..0 |-> none], 0)
    OBVIOUS
  <2> QED
    BY <2>1
<1>3. ASSUME NEW n \in S PROVE n + 1 \in S
  <2>1. PICK g : Upto(g, n)
    OBVIOUS
  <2> DEFINE h == [i \in 0..n + 1 |-> IF i = n + 1 THEN F(g, n + 1) ELSE g[i]]
  <2>2. h[0] = none /\ \A i \in 1..n + 1 : h[i - 1] = g[i - 1]
    BY <2>1
  <2>3. \A i \in 1..n + 1 : F(h, i) = F(g, i)
    BY <2>2, <1>8
  <2>4. \A i \in 1..n + 1 : h[i] = F(g, i)
    BY <2>1, SMTT(60)
  <2>7. \A i \in 0..n + 1 : h[i] = IF i = 0 THEN none ELSE F(h, i)
    <3>1. ASSUME NEW i \in 0..n + 1 PROVE h[i] = IF i = 0 THEN none ELSE F(h, i)
      <4>1. i = 0 \/ i \in 1..n + 1
        OBVIOUS
      <4> QED
        BY <2>2, <2>3, <2>4, <4>1
    <3> QED
      BY <3>1
  <2>8. h = [i \in 0..n + 1 |-> h[i]]
    OBVIOUS
  <2> HIDE DEF h
  <2>5. Upto(h, n + 1)
    BY <2>7, <2>8
  <2>6. n + 1 \in Nat
    OBVIOUS
  <2> HIDE DEF Upto
  <2> QED
    BY <2>5, <2>6
<1>4. Len(entries) \in Nat
  BY ListedMeans
<1> HIDE DEF Upto
<1>5. S = Nat
  BY <1>2, <1>3, Induction
<1>6. Upto(kept, Len(entries))
  BY <1>4, <1>5
<1> HIDE DEF kept
<1>7. kept[0] = none /\ \A n \in 1..Len(entries) : kept[n] = F(kept, n)
  <2>1. 0 \in 0..Len(entries) /\ \A n \in 1..Len(entries) : n \in 0..Len(entries) /\ n # 0
    BY <1>4
  <2> QED
    BY <1>6, <2>1 DEF Upto
<1> QED
  BY <1>1, <1>7 DEF F, none

LEMMA EntriesOfAre ==
    ASSUME NEW entries, Listed(entries), NEW item
    PROVE  /\ Listed(EntriesOf(entries, item))
           /\ ToSet(EntriesOf(entries, item)) = {e \in ToSet(entries) : e.item = item}
<1> DEFINE N == Len(entries)
           Picked(n) == {entries[i] : i \in {j \in 1..n : entries[j].item = item}}
<1>1. PICK kept : /\ kept[0] = <<>>
                  /\ \A n \in 1..N : kept[n] = IF entries[n].item = item THEN Append(kept[n - 1], entries[n])
                                               ELSE kept[n - 1]
                  /\ EntriesOf(entries, item) = kept[N]
  BY EntriesUnfold
<1> DEFINE S == {n \in Nat : n <= N => Listed(kept[n]) /\ ToSet(kept[n]) = Picked(n)}
<1>2. N \in Nat /\ DOMAIN entries = 1..N
  BY ListedMeans
<1>3. 0 \in S
  <2>1. Picked(0) = {}
    OBVIOUS
  <2> QED
    BY <1>1, <2>1, NothingListed
<1>4. ASSUME NEW n \in S PROVE n + 1 \in S
  <2> DEFINE m == n + 1
  <2>1. SUFFICES ASSUME m <= N PROVE Listed(kept[m]) /\ ToSet(kept[m]) = Picked(m)
    OBVIOUS
  <2>2. m \in 1..N /\ m - 1 = n /\ Listed(kept[n]) /\ ToSet(kept[n]) = Picked(n) /\ 1..m = (1..n) \cup {m}
    BY <1>2, <2>1
  <2>3. kept[m] = IF entries[m].item = item THEN Append(kept[n], entries[m]) ELSE kept[n]
    BY <1>1, <2>2
  <2> HIDE DEF m
  <2>4. Picked(m) = IF entries[m].item = item THEN Picked(n) \cup {entries[m]} ELSE Picked(n)
    BY <2>2
  <2> HIDE DEF Picked
  <2>5. CASE entries[m].item = item
    BY <2>2, <2>3, <2>4, <2>5, ListedAppend
  <2>6. CASE entries[m].item # item
    BY <2>2, <2>3, <2>4, <2>6
  <2> QED
    BY <2>5, <2>6
<1>5. S \in SUBSET Nat
  OBVIOUS
<1> HIDE DEF S
<1>6. S = Nat
  BY <1>3, <1>4, <1>5, Induction
<1>7. Listed(kept[N]) /\ ToSet(kept[N]) = Picked(N)
  BY <1>2, <1>6 DEF S
<1>8. Picked(N) = {e \in ToSet(entries) : e.item = item}
  BY <1>2 DEF ToSet
<1> QED
  BY <1>1, <1>7, <1>8

(* The allowlist in the order in which it is written.                         *)
AllowlistWritten(c) == EntriesOf(c.entries, TRUE) \o EntriesOf(c.entries, FALSE)

LEMMA ListedEntries ==
    ASSUME NEW mode, NEW entries, AllowlistOk(mode, entries)
    PROVE  /\ Listed(EntriesOf(entries, TRUE)) /\ Listed(EntriesOf(entries, FALSE))
           /\ ToSet(EntriesOf(entries, TRUE)) \cup ToSet(EntriesOf(entries, FALSE)) = ToSet(entries)
           /\ \A i \in DOMAIN EntriesOf(entries, TRUE) :
                EntriesOf(entries, TRUE)[i] = [item |-> TRUE, name |-> EntriesOf(entries, TRUE)[i].name]
           /\ \A i \in DOMAIN EntriesOf(entries, FALSE) :
                EntriesOf(entries, FALSE)[i] = [item |-> FALSE, name |-> EntriesOf(entries, FALSE)[i].name]
<1> DEFINE a == EntriesOf(entries, TRUE)
           no == FALSE
           b == EntriesOf(entries, no)
<1>1. Listed(entries) /\ \A i \in 1..Len(entries) :
        entries[i] = [item |-> entries[i].item, name |-> entries[i].name] /\ entries[i].item \in BOOLEAN
  BY DEF AllowlistOk
<1>2. Listed(a) /\ ToSet(a) = {e \in ToSet(entries) : e.item = TRUE}
  BY <1>1, EntriesOfAre
<1>3. Listed(b) /\ ToSet(b) = {e \in ToSet(entries) : e.item = no}
  <2> HIDE DEF no
  <2> QED
    BY <1>1, EntriesOfAre
<1> HIDE DEF a, b
<1>4. \A e \in ToSet(entries) : e = [item |-> e.item, name |-> e.name] /\ e.item \in BOOLEAN
  <2>1. DOMAIN entries = 1..Len(entries)
    BY <1>1, ListedMeans
  <2> QED
    BY <1>1, <2>1 DEF ToSet
<1>5. ToSet(a) \cup ToSet(b) = ToSet(entries)
  BY <1>2, <1>3, <1>4
<1>6. ASSUME NEW i \in DOMAIN a PROVE a[i] = [item |-> TRUE, name |-> a[i].name]
  <2> DEFINE e == a[i]
  <2>1. e \in ToSet(a)
    BY DEF ToSet
  <2> HIDE DEF e
  <2>2. e = [item |-> e.item, name |-> e.name] /\ e.item = TRUE
    BY <1>2, <1>4, <2>1
  <2>3. e = [item |-> TRUE, name |-> e.name]
    BY <2>2
  <2> QED
    BY <2>3 DEF e
<1>7. ASSUME NEW i \in DOMAIN b PROVE b[i] = [item |-> FALSE, name |-> b[i].name]
  <2> DEFINE e == b[i]
  <2>1. e \in ToSet(b)
    BY DEF ToSet
  <2> HIDE DEF e, no
  <2>2. e = [item |-> e.item, name |-> e.name] /\ e.item = no
    BY <1>3, <1>4, <2>1
  <2>3. e = [item |-> no, name |-> e.name]
    BY <2>2
  <2> QED
    BY <2>3 DEF e, no
<1> QED
  BY <1>2, <1>3, <1>5, <1>6, <1>7 DEF a, b, no

LEMMA WrittenIsTheSame ==
    ASSUME NEW c, AllowlistOk(c.mode, c.entries)
    PROVE  Listed(AllowlistWritten(c)) /\ ToSet(AllowlistWritten(c)) = ToSet(c.entries)
<1> DEFINE a == EntriesOf(c.entries, TRUE)
           b == EntriesOf(c.entries, FALSE)
<1>1. Listed(a) /\ Listed(b) /\ ToSet(a) \cup ToSet(b) = ToSet(c.entries)
  BY ListedEntries
<1> HIDE DEF a, b
<1>2. Listed(a \o b) /\ ToSet(a \o b) = ToSet(a) \cup ToSet(b)
  BY <1>1, ListedConcat
<1> QED
  BY <1>1, <1>2 DEF AllowlistWritten, a, b

(* A configuration with another allowlist. *)
WithAllowlist(c, mode, entries) ==
    [f \in ConfigFields |-> IF f = "mode" THEN mode ELSE IF f = "entries" THEN entries ELSE c[f]]

LEMMA AllowlistIsPut ==
    ASSUME NEW c, Shaped(c), NEW mode, NEW entries
    PROVE  /\ Shaped(WithAllowlist(c, mode, entries))
           /\ WithAllowlist(c, mode, entries)["mode"] = mode
           /\ WithAllowlist(c, mode, entries)["entries"] = entries
<1> DEFINE w == WithAllowlist(c, mode, entries)
<1>1. w = [f \in ConfigFields |-> w[f]] /\ w["refused"] = c["refused"] /\ w["mode"] = mode /\ w["entries"] = entries
  BY DEF WithAllowlist, ConfigFields
<1>2. Shaped(w)
  <2> HIDE DEF w
  <2> QED
    BY <1>1 DEF Shaped
<1> QED
  BY <1>1, <1>2

LEMMA AllowlistAsItIs == ASSUME NEW c, Shaped(c) PROVE WithAllowlist(c, c["mode"], c["entries"]) = c
  BY DEF WithAllowlist, Shaped

LEMMA AllowlistAgain ==
    ASSUME NEW c, NEW mode, NEW entries, NEW m, NEW e
    PROVE  WithAllowlist(WithAllowlist(c, mode, entries), m, e) = WithAllowlist(c, m, e)
  BY DEF WithAllowlist

LEMMA AllowlistChanges ==
    ASSUME NEW c, Shaped(c), NEW mode, NEW entries
    PROVE  [c EXCEPT !.mode = mode, !.entries = entries] = WithAllowlist(c, mode, entries)
  BY DEF WithAllowlist, Shaped, ConfigFields

LEMMA ModeChanges ==
    ASSUME NEW c, Shaped(c), NEW mode
    PROVE  [c EXCEPT !.mode = mode] = WithAllowlist(c, mode, c["entries"])
  BY DEF WithAllowlist, Shaped, ConfigFields

(* Directives each of which asks for one thing more. *)
Pushes(v, ds) ==
    /\ ds = [i \in DOMAIN v |-> ds[i]]
    /\ \A i \in DOMAIN v : \A b : Shaped(b) => ParseDirective(b, ds[i]) = AllowlistPush(b, v[i])
After(c, v, n) ==
    WithAllowlist(c, IF n = 0 THEN c["mode"] ELSE "specific", c["entries"] \o FirstOf(v, n))

LEMMA ConcatOfNoneOrAll ==
    ASSUME NEW x, Listed(x), NEW v, Listed(v)
    PROVE  x \o FirstOf(v, 0) = x /\ x \o FirstOf(v, Len(v)) = x \o v
<1>1. x \in Seq(ToSet(x))
  BY DEF Listed
<1> DEFINE S == ToSet(x)
<1> HIDE DEF S
<1>2. x \o <<>> = x
  BY <1>1 DEF S
<1>3. FirstOf(v, 0) = <<>> /\ FirstOf(v, Len(v)) = v
  BY FirstOfAll
<1> QED
  BY <1>2, <1>3

LEMMA ConcatOfOneMore ==
    ASSUME NEW x, Listed(x), NEW v, Listed(v), NEW n \in 1..Len(v)
    PROVE  x \o FirstOf(v, n) = Append(x \o FirstOf(v, n - 1), v[n])
<1> DEFINE S == ToSet(x) \cup ToSet(v)
           y == FirstOf(v, n - 1)
           e == v[n]
<1>1. x \in Seq(S) /\ v \in Seq(S)
  BY ListedIn
<1> HIDE DEF S
<1>2. e \in S
  BY <1>1
<1>3. y \in Seq(S)
  BY <1>1 DEF FirstOf
<1>4. FirstOf(v, n) = Append(y, e)
  BY FirstOfAll
<1> HIDE DEF y, e
<1>5. x \o Append(y, e) = Append(x \o y, e)
  BY <1>1, <1>2, <1>3
<1> QED
  BY <1>4, <1>5 DEF y, e

LEMMA PushesLead ==
    ASSUME NEW c, Shaped(c), c["mode"] # "all", Listed(c["entries"]), NEW v, Listed(v),
           NEW ds, Pushes(v, ds)
    PROVE  /\ Listed(ds)
           /\ Leads(c, ds, WithAllowlist(c, IF v = <<>> THEN c["mode"] ELSE "specific", c["entries"] \o v))
<1> DEFINE N == Len(v)
           x == c["entries"]
           after == [n \in 0..N |-> After(c, v, n)]
<1>1. N \in Nat /\ DOMAIN v = 1..N
  BY ListedMeans
<1>2. Listed(ds) /\ Len(ds) = N
  BY MappedIsListed DEF Pushes
<1>3. /\ x \o FirstOf(v, 0) = x /\ x \o FirstOf(v, N) = x \o v
      /\ \A n \in 1..N : x \o FirstOf(v, n) = Append(x \o FirstOf(v, n - 1), v[n])
  <2>1. Listed(x)
    OBVIOUS
  <2> HIDE DEF x
  <2>2. x \o FirstOf(v, 0) = x /\ x \o FirstOf(v, N) = x \o v
    BY <2>1, ConcatOfNoneOrAll DEF N
  <2>3. \A n \in 1..N : x \o FirstOf(v, n) = Append(x \o FirstOf(v, n - 1), v[n])
    BY <2>1, ConcatOfOneMore DEF N
  <2> QED
    BY <2>2, <2>3
<1>0. N = 0 <=> v = <<>>
  BY DEF Listed
<1> HIDE DEF N
<1>4. after[0] = c /\ after[N] = WithAllowlist(c, IF v = <<>> THEN c["mode"] ELSE "specific", x \o v)
  <2>1. 0 \in 0..N /\ N \in 0..N
    BY <1>1
  <2>2. WithAllowlist(c, c["mode"], x) = c
    BY AllowlistAsItIs
  <2>3. After(c, v, 0) = WithAllowlist(c, c["mode"], x)
    BY <1>3 DEF After
  <2>4. After(c, v, N) = WithAllowlist(c, IF v = <<>> THEN c["mode"] ELSE "specific", x \o v)
    BY <1>0, <1>3 DEF After
  <2> HIDE DEF x
  <2> QED
    BY <2>1, <2>2, <2>3, <2>4
<1>5. ASSUME NEW n \in 1..N PROVE after[n] = ParseDirective(after[n - 1], ds[n])
  <2> DEFINE b == After(c, v, n - 1)
             y == x \o FirstOf(v, n - 1)
             w == Append(y, v[n])
             new == WithAllowlist(c, "specific", w)
             d == ds[n]
  <2>1. n \in 0..N /\ n - 1 \in 0..N /\ n # 0
    BY <1>1
  <2>2. after[n - 1] = b /\ after[n] = After(c, v, n)
    BY <2>1
  <2>3. After(c, v, n) = new
    BY <1>3, <2>1 DEF After
  <2> HIDE DEF after
  <2>4. Shaped(b) /\ b["mode"] # "all" /\ b["entries"] = y /\ WithAllowlist(b, "specific", w) = new
    <3> DEFINE m == IF n - 1 = 0 THEN c["mode"] ELSE "specific"
    <3>1. m # "all" /\ b = WithAllowlist(c, m, y)
      BY DEF After
    <3> HIDE DEF m, b, y, w
    <3>2. Shaped(b) /\ b["mode"] = m /\ b["entries"] = y
      BY <3>1, AllowlistIsPut
    <3>3. WithAllowlist(WithAllowlist(c, m, y), "specific", w) = WithAllowlist(c, "specific", w)
      BY AllowlistAgain
    <3> QED
      BY <3>1, <3>2, <3>3
  <2>5. ParseDirective(b, d) = AllowlistPush(b, v[n])
    <3> HIDE DEF b
    <3> QED
      BY <1>1, <2>4 DEF Pushes
  <2> HIDE DEF b, y, d, new
  <2>6. AllowlistPush(b, v[n]) = [b EXCEPT !.mode = "specific", !.entries = w]
    BY <2>4 DEF AllowlistPush
  <2> HIDE DEF w
  <2>7. [b EXCEPT !.mode = "specific", !.entries = w] = WithAllowlist(b, "specific", w)
    <3>1. Shaped(b)
      BY <2>4
    <3> QED
      BY <3>1, AllowlistChanges
  <2>8. ParseDirective(b, d) = WithAllowlist(b, "specific", w)
    BY <2>5, <2>6, <2>7, Zenon
  <2> QED
    BY <2>2, <2>3, <2>4, <2>8 DEF d
<1> HIDE DEF after
<1>6. StepByStep(after, ds, c, WithAllowlist(c, IF v = <<>> THEN c["mode"] ELSE "specific", x \o v))
  BY <1>2, <1>4, <1>5 DEF StepByStep
<1> QED
  BY <1>2, <1>6 DEF Leads, x

LEMMA GenerateDirectivesPush ==
    ASSUME NEW v, NEW ds
    PROVE  /\ /\ ds = [i \in DOMAIN v |-> [directive |-> "generate", name |-> v[i].name]]
              /\ \A i \in DOMAIN v : v[i] = [item |-> TRUE, name |-> v[i].name]
              => Pushes(v, ds)
           /\ /\ ds = [i \in DOMAIN v |-> [directive |-> "generate_ns", name |-> v[i].name]]
              /\ \A i \in DOMAIN v : v[i] = [item |-> FALSE, name |-> v[i].name]
              => Pushes(v, ds)
<1>1. ASSUME ds = [i \in DOMAIN v |-> [directive |-> "generate", name |-> v[i].name]],
             NEW i \in DOMAIN v, v[i] = [item |-> TRUE, name |-> v[i].name], NEW b, Shaped(b)
      PROVE  ParseDirective(b, ds[i]) = AllowlistPush(b, v[i])
  <2> DEFINE d == ds[i]
  <2>1. d.directive = "generate" /\ d.name = v[i].name /\ b.refused = FALSE
    BY <1>1 DEF Shaped
  <2> HIDE DEF d
  <2>2. ParseDirective(b, d) = AllowlistPush(b, [item |-> TRUE, name |-> d.name])
    BY <2>1, GeneratesInTurn
  <2> QED
    BY <1>1, <2>1, <2>2 DEF d
<1>2. ASSUME ds = [i \in DOMAIN v |-> [directive |-> "generate_ns", name |-> v[i].name]],
             NEW i \in DOMAIN v, v[i] = [item |-> FALSE, name |-> v[i].name], NEW b, Shaped(b)
      PROVE  ParseDirective(b, ds[i]) = AllowlistPush(b, v[i])
  <2> DEFINE d == ds[i]
  <2>1. d.directive = "generate_ns" /\ d.name = v[i].name /\ b.refused = FALSE
    BY <1>2 DEF Shaped
  <2> HIDE DEF d
  <2>2. ParseDirective(b, d) = AllowlistPush(b, [item |-> FALSE, name |-> d.name])
    BY <2>1, GeneratesInTurn
  <2> QED
    BY <1>2, <2>1, <2>2 DEF d
<1>3. ASSUME ds = [i \in DOMAIN v |-> [directive |-> "generate", name |-> v[i].name]],
             \A i \in DOMAIN v : v[i] = [item |-> TRUE, name |-> v[i].name]
      PROVE  Pushes(v, ds)
  <2>1. ds = [i \in DOMAIN v |-> ds[i]]
    BY <1>3
  <2>2. \A i \in DOMAIN v : \A b : Shaped(b) => ParseDirective(b, ds[i]) = AllowlistPush(b, v[i])
    BY <1>1, <1>3
  <2> QED
    BY <2>1, <2>2 DEF Pushes
<1>4. ASSUME ds = [i \in DOMAIN v |-> [directive |-> "generate_ns", name |-> v[i].name]],
             \A i \in DOMAIN v : v[i] = [item |-> FALSE, name |-> v[i].name]
      PROVE  Pushes(v, ds)
  <2>1. ds = [i \in DOMAIN v |-> ds[i]]
    BY <1>4
  <2>2. \A i \in DOMAIN v : \A b : Shaped(b) => ParseDirective(b, ds[i]) = AllowlistPush(b, v[i])
    BY <1>2, <1>4
  <2> QED
    BY <2>1, <2>2 DEF Pushes
<1> QED
  BY <1>3, <1>4

(* What the allowlist is when it has been read back. *)
ReadMode(c) ==
    IF c.mode = "all" THEN "all" ELSE IF AllowlistWritten(c) = <<>> THEN "unspecified" ELSE "specific"
ReadEntries(c) == IF c.mode = "all" THEN <<>> ELSE AllowlistWritten(c)
ReadBack(c) == WithAllowlist(c, ReadMode(c), ReadEntries(c))

LEMMA AllLeads ==
    ASSUME NEW c, Shaped(c), c["mode"] = "unspecified", c["entries"] = <<>>, NEW w, w.mode = "all"
    PROVE  /\ Leads(c, OutputAllowlist(w), WithAllowlist(c, ReadMode(w), ReadEntries(w)))
           /\ Listed(OutputAllowlist(w))
<1> DEFINE d == [directive |-> "generate_all"]
<1>1. d.directive = "generate_all" /\ c.refused = FALSE
  BY DEF Shaped
<1>2. OutputAllowlist(w) = <<d>>
  BY DEF OutputAllowlist
<1> HIDE DEF d
<1>3. ParseDirective(c, d) = SetAll(c)
  BY <1>1, GeneratesInTurn
<1>4. SetAll(c) = [c EXCEPT !.mode = "all"]
  BY DEF SetAll
<1>5. [c EXCEPT !.mode = "all"] = WithAllowlist(c, "all", c["entries"])
  BY ModeChanges
<1>6. ParseDirective(c, d) = WithAllowlist(c, "all", c["entries"])
  BY <1>3, <1>4, <1>5, Zenon
<1>7. ReadMode(w) = "all" /\ ReadEntries(w) = c["entries"]
  BY DEF ReadMode, ReadEntries
<1>8. Leads(c, <<d>>, WithAllowlist(c, "all", c["entries"])) /\ Listed(<<d>>)
  BY <1>6, LeadsByOne, OneListed
<1> QED
  BY <1>2, <1>7, <1>8

LEMMA SpecificLeads ==
    ASSUME NEW c, Shaped(c), c["mode"] = "unspecified", c["entries"] = <<>>,
           NEW w, w.mode = "specific", AllowlistOk(w.mode, w.entries)
    PROVE  /\ Leads(c, OutputAllowlist(w), WithAllowlist(c, ReadMode(w), ReadEntries(w)))
           /\ Listed(OutputAllowlist(w))
<1> DEFINE a == EntriesOf(w.entries, TRUE)
           b == EntriesOf(w.entries, FALSE)
           s == [i \in DOMAIN a |-> [directive |-> "generate", name |-> a[i].name]]
           t == [i \in DOMAIN b |-> [directive |-> "generate_ns", name |-> b[i].name]]
           x == WithAllowlist(c, IF a = <<>> THEN "unspecified" ELSE "specific", a)
<1>1. OutputAllowlist(w) = s \o t
  BY DEF OutputAllowlist, Each
<1>2. /\ Listed(a) /\ \A i \in DOMAIN a : a[i] = [item |-> TRUE, name |-> a[i].name]
      /\ Listed(b) /\ \A i \in DOMAIN b : b[i] = [item |-> FALSE, name |-> b[i].name]
  <2> DEFINE entries == w.entries
             mode == w.mode
  <2>1. AllowlistOk(mode, entries)
    OBVIOUS
  <2> HIDE DEF entries, mode
  <2>2. /\ Listed(EntriesOf(entries, TRUE))
        /\ \A i \in DOMAIN EntriesOf(entries, TRUE) :
             EntriesOf(entries, TRUE)[i] = [item |-> TRUE, name |-> EntriesOf(entries, TRUE)[i].name]
    BY <2>1, ListedEntries
  <2>3. /\ Listed(EntriesOf(entries, FALSE))
        /\ \A i \in DOMAIN EntriesOf(entries, FALSE) :
             EntriesOf(entries, FALSE)[i] = [item |-> FALSE, name |-> EntriesOf(entries, FALSE)[i].name]
    BY <2>1, ListedEntries, Zenon
  <2> QED
    BY <2>2, <2>3, Zenon DEF entries
<1>3. /\ ReadEntries(w) = a \o b
      /\ ReadMode(w) = IF a \o b = <<>> THEN "unspecified" ELSE "specific"
  BY DEF ReadMode, ReadEntries, AllowlistWritten
<1> HIDE DEF a, b, x
<1>4. a = <<>> \o a /\ (a \o b = <<>> <=> a = <<>> /\ b = <<>>)
  <2> DEFINE S == ToSet(a) \cup ToSet(b)
  <2>1. a \in Seq(S) /\ b \in Seq(S)
    BY <1>2, ListedIn
  <2> HIDE DEF S
  <2> QED
    BY <2>1
<1>5. Pushes(a, s) /\ Pushes(b, t)
  BY <1>2, GenerateDirectivesPush
<1> HIDE DEF s, t
<1>6. Leads(c, s, x) /\ Listed(s)
  <2>1. Listed(c["entries"]) /\ c["mode"] # "all"
    BY NothingListed
  <2>2. /\ Leads(c, s, WithAllowlist(c, IF a = <<>> THEN c["mode"] ELSE "specific", c["entries"] \o a))
        /\ Listed(s)
    BY <1>2, <1>5, <2>1, PushesLead
  <2> QED
    BY <1>4, <2>2 DEF x
<1>7. Shaped(x) /\ x["mode"] = (IF a = <<>> THEN "unspecified" ELSE "specific") /\ x["entries"] = a
  BY AllowlistIsPut DEF x
<1>8. /\ Leads(x, t, WithAllowlist(x, IF b = <<>> THEN x["mode"] ELSE "specific", x["entries"] \o b))
      /\ Listed(t)
  <2>1. Listed(x["entries"]) /\ x["mode"] # "all"
    BY <1>2, <1>7
  <2> QED
    BY <1>2, <1>5, <1>7, <2>1, PushesLead
<1>9. WithAllowlist(x, IF b = <<>> THEN x["mode"] ELSE "specific", x["entries"] \o b)
        = WithAllowlist(c, ReadMode(w), ReadEntries(w))
  <2>1. (IF b = <<>> THEN x["mode"] ELSE "specific") = ReadMode(w) /\ x["entries"] \o b = ReadEntries(w)
    BY <1>3, <1>4, <1>7
  <2>2. WithAllowlist(x, ReadMode(w), ReadEntries(w)) = WithAllowlist(c, ReadMode(w), ReadEntries(w))
    BY AllowlistAgain DEF x
  <2> QED
    BY <2>1, <2>2
<1> QED
  BY <1>1, <1>6, <1>8, <1>9, LeadsOn

LEMMA AllowlistLeads ==
    ASSUME NEW c, Shaped(c), c["mode"] = "unspecified", c["entries"] = <<>>,
           NEW w, AllowlistOk(w.mode, w.entries), w.mode # "unspecified"
    PROVE  /\ Leads(c, OutputAllowlist(w), WithAllowlist(c, ReadMode(w), ReadEntries(w)))
           /\ Listed(OutputAllowlist(w))
<1>1. w.mode \in {"all", "specific"}
  BY DEF AllowlistOk
<1> QED
  BY <1>1, AllLeads, SpecificLeads

LEMMA ReadBackIsTheSame ==
    ASSUME NEW c, Shaped(c), AllowlistOk(c.mode, c.entries), c.mode # "unspecified"
    PROVE  Same(ConfirmComplete(ReadBack(c)), c)
<1> DEFINE w == AllowlistWritten(c)
<1>1. CASE c.mode = "all"
  <2>1. c.entries = <<>>
    BY <1>1 DEF AllowlistOk
  <2>2. ReadBack(c) = c
    BY <1>1, <2>1, AllowlistAsItIs DEF ReadBack, ReadMode, ReadEntries
  <2>3. ConfirmComplete(c) = c
    BY <1>1 DEF ConfirmComplete
  <2> QED
    BY <2>2, <2>3 DEF Same
<1>2. CASE c.mode # "all"
  <2>1. c.mode = "specific"
    BY <1>2 DEF AllowlistOk
  <2>2. ToSet(w) = ToSet(c.entries)
    BY WrittenIsTheSame
  <2> DEFINE x == ReadBack(c)
             m == ReadMode(c)
  <2>3. x = WithAllowlist(c, m, w) /\ m \in {"unspecified", "specific"}
    BY <1>2 DEF ReadBack, ReadMode, ReadEntries
  <2> HIDE DEF x, m, w
  <2>4. Shaped(x) /\ x["mode"] = m /\ x["entries"] = w
    BY <2>3, AllowlistIsPut
  <2>5. ConfirmComplete(x) = WithAllowlist(c, "specific", w)
    <3>1. CASE m = "unspecified"
      <4>1. ConfirmComplete(x) = [x EXCEPT !.mode = "specific"]
        BY <2>4, <3>1 DEF ConfirmComplete
      <4>2. [x EXCEPT !.mode = "specific"] = WithAllowlist(x, "specific", x["entries"])
        BY <2>4, ModeChanges
      <4>3. WithAllowlist(x, "specific", w) = WithAllowlist(c, "specific", w)
        BY <2>3, AllowlistAgain
      <4> QED
        BY <2>4, <4>1, <4>2, <4>3
    <3>2. CASE m = "specific"
      BY <2>3, <2>4, <3>2 DEF ConfirmComplete
    <3> QED
      BY <2>3, <3>1, <3>2
  <2>6. c = WithAllowlist(c, "specific", c["entries"])
    BY <2>1, AllowlistAsItIs
  <2>7. ASSUME NEW e PROVE [WithAllowlist(c, "specific", e) EXCEPT !.entries = ToSet(@)]
                             = WithAllowlist(c, "specific", ToSet(e))
    BY DEF WithAllowlist, ConfigFields
  <2>8. [WithAllowlist(c, "specific", w) EXCEPT !.entries = ToSet(@)]
          = [WithAllowlist(c, "specific", c["entries"]) EXCEPT !.entries = ToSet(@)]
    BY <2>2, <2>7
  <2>9. [ConfirmComplete(x) EXCEPT !.entries = ToSet(@)] = [c EXCEPT !.entries = ToSet(@)]
    BY <2>5, <2>6, <2>8
  <2> QED
    BY <2>9 DEF Same, x
<1> QED
  BY <1>1, <1>2

(* A configuration of which so much has been read back. *)
Mix(w, S) == [f \in ConfigFields |-> IF f \in S THEN ReadBack(w)[f] ELSE NewConfig[f]]

LEMMA ReadBackFields ==
    ASSUME NEW w, Shaped(w)
    PROVE  /\ Shaped(ReadBack(w)) /\ ReadBack(w)["mode"] = ReadMode(w) /\ ReadBack(w)["entries"] = ReadEntries(w)
           /\ \A f \in ConfigFields \ {"refused", "mode", "entries"} : ReadBack(w)[f] = w[f]
<1>1. Shaped(ReadBack(w)) /\ ReadBack(w)["mode"] = ReadMode(w) /\ ReadBack(w)["entries"] = ReadEntries(w)
  BY AllowlistIsPut DEF ReadBack
<1>2. \A f \in ConfigFields \ {"refused", "mode", "entries"} : ReadBack(w)[f] = w[f]
  BY DEF ReadBack, WithAllowlist
<1> QED
  BY <1>1, <1>2

LEMMA WellMadeIsShaped == ASSUME NEW w, WellMade(w), w.refused = FALSE PROVE Shaped(w)
  BY DEF WellMade, Shaped

LEMMA ShapedIsMixed == ASSUME NEW w, WellMade(w), w.refused = FALSE, NEW S PROVE Shaped(Mix(w, S))
<1> DEFINE c == Mix(w, S)
           r == ReadBack(w)
<1>1. "refused" \in ConfigFields
  BY DEF ConfigFields
<1>2. r["refused"] = FALSE /\ NewConfig["refused"] = FALSE
  BY WellMadeIsShaped, ReadBackFields DEF Shaped, NewConfig
<1> HIDE DEF r
<1>3. c = [f \in ConfigFields |-> c[f]] /\ c["refused"] = FALSE
  BY <1>1, <1>2 DEF Mix, r
<1> HIDE DEF c
<1> QED
  BY <1>3 DEF Shaped, c

LEMMA MixedAlready ==
    ASSUME NEW w, NEW S, NEW f \in ConfigFields \ S
    PROVE  Mix(w, S)[f] = NewConfig[f]
  BY DEF Mix

LEMMA MixedFurther ==
    ASSUME NEW w, WellMade(w), w.refused = FALSE, NEW S, NEW f \in ConfigFields \ {"refused", "mode", "entries"}
    PROVE  Put(Mix(w, S), f, w[f]) = Mix(w, S \cup {f})
<1>1. ReadBack(w)[f] = w[f]
  BY WellMadeIsShaped, ReadBackFields
<1> QED
  BY <1>1 DEF Put, Mix

LEMMA MixedStep ==
    ASSUME NEW w, WellMade(w), w.refused = FALSE, NEW S,
           NEW f \in ConfigFields \ {"refused", "mode", "entries"}, f \notin S
    PROVE  /\ Shaped(Mix(w, S)) /\ Mix(w, S)[f] = NewConfig[f]
           /\ Put(Mix(w, S), f, w[f]) = Mix(w, S \cup {f})
<1>1. Shaped(Mix(w, S))
  BY ShapedIsMixed
<1>2. Mix(w, S)[f] = NewConfig[f]
  BY MixedAlready
<1>3. Put(Mix(w, S), f, w[f]) = Mix(w, S \cup {f})
  BY MixedFurther
<1> QED
  BY <1>1, <1>2, <1>3

LEMMA NothingIsMixed == ASSUME NEW w PROVE Mix(w, {}) = NewConfig
<1>1. NewConfig = [f \in ConfigFields |-> NewConfig[f]]
  BY NewIsWellMade DEF WellMade
<1> QED
  BY <1>1 DEF Mix

LEMMA EverythingIsMixed ==
    ASSUME NEW w, WellMade(w), w.refused = FALSE, NEW S, S = ConfigFields \ {"refused"}
    PROVE  Mix(w, S) = ReadBack(w)
<1> DEFINE r == ReadBack(w)
           new == NewConfig
<1>1. r = [f \in ConfigFields |-> r[f]] /\ r["refused"] = FALSE /\ new["refused"] = FALSE
  BY WellMadeIsShaped, ReadBackFields DEF Shaped, NewConfig
<1> HIDE DEF r, new
<1>2. \A f \in ConfigFields : (IF f \in S THEN r[f] ELSE new[f]) = r[f]
  BY <1>1
<1>3. Mix(w, S) = [f \in ConfigFields |-> IF f \in S THEN r[f] ELSE new[f]]
  BY DEF Mix, r, new
<1> QED
  BY <1>1, <1>2, <1>3 DEF r

(* Each of the parts of what was written out, in turn. *)
LEMMA AllowlistSegment ==
    ASSUME NEW w, WellMade(w), w.refused = FALSE, w.mode # "unspecified",
           NEW S, "mode" \notin S, "entries" \notin S
    PROVE  /\ Leads(Mix(w, S), OutputAllowlist(w), Mix(w, S \cup {"mode", "entries"}))
           /\ Listed(OutputAllowlist(w))
<1> DEFINE c == Mix(w, S)
<1>1. "mode" \in ConfigFields /\ "entries" \in ConfigFields
  BY DEF ConfigFields
<1>2. Shaped(c) /\ c["mode"] = "unspecified" /\ c["entries"] = <<>>
  <2>1. c["mode"] = NewConfig["mode"] /\ c["entries"] = NewConfig["entries"]
    BY <1>1, MixedAlready
  <2> QED
    BY <2>1, ShapedIsMixed DEF NewConfig
<1>3. AllowlistOk(w.mode, w.entries)
  BY DEF WellMade
<1>4. WithAllowlist(c, ReadMode(w), ReadEntries(w)) = Mix(w, S \cup {"mode", "entries"})
  <2> DEFINE r == ReadBack(w)
  <2>1. r["mode"] = ReadMode(w) /\ r["entries"] = ReadEntries(w)
    BY WellMadeIsShaped, ReadBackFields
  <2> HIDE DEF r
  <2>2. c = [f \in ConfigFields |-> IF f \in S THEN r[f] ELSE NewConfig[f]]
    BY DEF Mix, r
  <2>3. Mix(w, S \cup {"mode", "entries"})
          = [f \in ConfigFields |-> IF f \in S \cup {"mode", "entries"} THEN r[f] ELSE NewConfig[f]]
    BY DEF Mix, r
  <2> HIDE DEF c
  <2> QED
    BY <2>1, <2>2, <2>3 DEF WithAllowlist
<1> HIDE DEF c
<1> QED
  BY <1>2, <1>3, <1>4, AllowlistLeads DEF c

LEMMA IncludesSegment ==
    ASSUME NEW w, WellMade(w), w.refused = FALSE, NEW S, "includes" \notin S, NEW ds,
           ds = [i \in DOMAIN w.includes |-> [directive |-> "include", header |-> w.includes[i]]]
    PROVE  Leads(Mix(w, S), ds, Mix(w, S \cup {"includes"})) /\ Listed(ds)
<1> DEFINE c == Mix(w, S)
           v == w["includes"]
<1>1. "includes" \in ConfigFields \ {"refused", "mode", "entries"}
  BY DEF ConfigFields
<1>2. Shaped(c) /\ c["includes"] = NewConfig["includes"] /\ Put(c, "includes", v) = Mix(w, S \cup {"includes"})
  BY <1>1, MixedStep
<1>3. Listed(v) /\ NewConfig["includes"] = <<>>
  BY DEF WellMade, NewConfig
<1> HIDE DEF c, v
<1>4. Leads(c, ds, Put(c, "includes", v)) /\ Listed(ds)
  <2>1. Appends("includes", v, ds)
    BY <1>3, IncludesAppend DEF v
  <2> QED
    BY <1>1, <1>2, <1>3, <2>1, AppendsLead
<1> QED
  BY <1>2, <1>4 DEF c

LEMMA SafetySegment ==
    ASSUME NEW w, WellMade(w), w.refused = FALSE, NEW S, "safety" \notin S, NEW ds,
           ds = IF w.safety = "unsafe functions" THEN <<>> ELSE <<[directive |-> "safety", policy |-> w.safety]>>
    PROVE  Leads(Mix(w, S), ds, Mix(w, S \cup {"safety"})) /\ Listed(ds)
<1> DEFINE c == Mix(w, S)
           v == w["safety"]
<1>1. "safety" \in ConfigFields \ {"refused", "mode", "entries"}
  BY DEF ConfigFields
<1>2. Shaped(c) /\ c["safety"] = NewConfig["safety"] /\ Put(c, "safety", v) = Mix(w, S \cup {"safety"})
  BY <1>1, MixedStep
<1>3. NewConfig["safety"] = "unsafe functions"
  BY DEF WellMade, NewConfig
<1> HIDE DEF c, v
<1>4. Leads(c, ds, Put(c, "safety", v)) /\ Listed(ds)
  BY <1>2, <1>3, SafetyLeads DEF v
<1> QED
  BY <1>2, <1>4 DEF c

LEMMA ListsSegment ==
    ASSUME NEW w, WellMade(w), w.refused = FALSE, NEW S, "lists" \notin S, NEW ds,
           ds = OutputLists(w)
    PROVE  Leads(Mix(w, S), ds, Mix(w, S \cup {"lists"})) /\ Listed(ds)
<1> DEFINE c == Mix(w, S)
           v == w["lists"]
<1>1. "lists" \in ConfigFields \ {"refused", "mode", "entries"}
  BY DEF ConfigFields
<1>2. Shaped(c) /\ c["lists"] = NewConfig["lists"] /\ Put(c, "lists", v) = Mix(w, S \cup {"lists"})
  BY <1>1, MixedStep
<1>3. ListsOk(w.lists) /\ NewConfig["lists"] = [l \in StringLists |-> <<>>]
  BY DEF WellMade, NewConfig
<1> HIDE DEF c, v
<1>4. Leads(c, ds, Put(c, "lists", v)) /\ Listed(ds)
  BY <1>2, <1>3, ListsLead DEF v
<1> QED
  BY <1>2, <1>4 DEF c

LEMMA FlagsSegment ==
    ASSUME NEW w, WellMade(w), w.refused = FALSE, NEW S, "flags" \notin S, NEW ds,
           ds = [i \in DOMAIN SetToSeq(w.flags) |-> [directive |-> SetToSeq(w.flags)[i]]]
    PROVE  Leads(Mix(w, S), ds, Mix(w, S \cup {"flags"})) /\ Listed(ds)
<1> DEFINE c == Mix(w, S)
           v == w["flags"]
<1>1. "flags" \in ConfigFields \ {"refused", "mode", "entries"}
  BY DEF ConfigFields
<1>2. Shaped(c) /\ c["flags"] = NewConfig["flags"] /\ Put(c, "flags", v) = Mix(w, S \cup {"flags"})
  BY <1>1, MixedStep
<1>3. v \in SUBSET Flags /\ NewConfig["flags"] = {}
  BY DEF WellMade, NewConfig
<1> HIDE DEF c, v
<1>4. Leads(c, ds, Put(c, "flags", v)) /\ Listed(ds)
  BY <1>2, <1>3, FlagsLead DEF v
<1> QED
  BY <1>2, <1>4 DEF c

LEMMA NameSegment ==
    ASSUME NEW w, WellMade(w), w.refused = FALSE, NEW S, "name" \notin S, NEW ds,
           ds = IF w.name = "ffi" THEN <<>> ELSE <<[directive |-> "name", id |-> w.name]>>
    PROVE  Leads(Mix(w, S), ds, Mix(w, S \cup {"name"})) /\ Listed(ds)
<1> DEFINE c == Mix(w, S)
           v == w["name"]
<1>1. "name" \in ConfigFields \ {"refused", "mode", "entries"}
  BY DEF ConfigFields
<1>2. Shaped(c) /\ c["name"] = NewConfig["name"] /\ Put(c, "name", v) = Mix(w, S \cup {"name"})
  BY <1>1, MixedStep
<1>3. NewConfig["name"] = "ffi"
  BY DEF WellMade, NewConfig
<1> HIDE DEF c, v
<1>4. Leads(c, ds, Put(c, "name", v)) /\ Listed(ds)
  BY <1>2, <1>3, NameLeads DEF v
<1> QED
  BY <1>2, <1>4 DEF c

LEMMA ConcretesSegment ==
    ASSUME NEW w, WellMade(w), w.refused = FALSE, NEW S, "concretes" \notin S, NEW ds,
           ds = [i \in DOMAIN SetToSeq(DOMAIN w.concretes) |-> [directive |-> "concrete", definition |-> SetToSeq(DOMAIN w.concretes)[i], id |-> w.concretes[SetToSeq(DOMAIN w.concretes)[i]]]]
    PROVE  Leads(Mix(w, S), ds, Mix(w, S \cup {"concretes"})) /\ Listed(ds)
<1> DEFINE c == Mix(w, S)
           v == w["concretes"]
<1>1. "concretes" \in ConfigFields \ {"refused", "mode", "entries"}
  BY DEF ConfigFields
<1>2. Shaped(c) /\ c["concretes"] = NewConfig["concretes"] /\ Put(c, "concretes", v) = Mix(w, S \cup {"concretes"})
  BY <1>1, MixedStep
<1>3. IsMap(v) /\ NewConfig["concretes"] = NoEntries
  BY DEF WellMade, NewConfig
<1> HIDE DEF c, v
<1>4. Leads(c, ds, Put(c, "concretes", v)) /\ Listed(ds)
  <2>1. Enters("concretes", v, SetToSeq(DOMAIN v), ds)
    <3> DEFINE keys == SetToSeq(DOMAIN v)
    <3>1. \A i \in DOMAIN keys : keys[i] \in DOMAIN v
      BY <1>3, KeysOfAll DEF IsMap
    <3> HIDE DEF keys
    <3>2. Enters("concretes", v, keys, ds)
      BY <1>3, <3>1, ConcretesEnter DEF v, keys
    <3> QED
      BY <3>2 DEF keys
  <2> QED
    BY <1>1, <1>2, <1>3, <2>1, EntersLead
<1> QED
  BY <1>2, <1>4 DEF c

LEMMA RustTypesSegment ==
    ASSUME NEW w, WellMade(w), w.refused = FALSE, NEW S, "rustTypes" \notin S, NEW ds,
           ds = [i \in DOMAIN w.rustTypes |-> [directive |-> "extern_rust_type", id |-> w.rustTypes[i]]]
    PROVE  Leads(Mix(w, S), ds, Mix(w, S \cup {"rustTypes"})) /\ Listed(ds)
<1> DEFINE c == Mix(w, S)
           v == w["rustTypes"]
<1>1. "rustTypes" \in ConfigFields \ {"refused", "mode", "entries"}
  BY DEF ConfigFields
<1>2. Shaped(c) /\ c["rustTypes"] = NewConfig["rustTypes"] /\ Put(c, "rustTypes", v) = Mix(w, S \cup {"rustTypes"})
  BY <1>1, MixedStep
<1>3. Listed(v) /\ NewConfig["rustTypes"] = <<>>
  BY DEF WellMade, NewConfig
<1> HIDE DEF c, v
<1>4. Leads(c, ds, Put(c, "rustTypes", v)) /\ Listed(ds)
  <2>1. Appends("rustTypes", v, ds)
    BY <1>3, RustTypesAppend DEF v
  <2> QED
    BY <1>1, <1>2, <1>3, <2>1, AppendsLead
<1> QED
  BY <1>2, <1>4 DEF c

LEMMA SubclassesSegment ==
    ASSUME NEW w, WellMade(w), w.refused = FALSE, NEW S, "subclasses" \notin S, NEW ds,
           ds = [i \in DOMAIN w.subclasses |->
                  [directive |-> "subclass", superclass |-> w.subclasses[i].superclass, id |-> w.subclasses[i].subclass]]
    PROVE  Leads(Mix(w, S), ds, Mix(w, S \cup {"subclasses"})) /\ Listed(ds)
<1> DEFINE c == Mix(w, S)
           v == w["subclasses"]
<1>1. "subclasses" \in ConfigFields \ {"refused", "mode", "entries"}
  BY DEF ConfigFields
<1>2. Shaped(c) /\ c["subclasses"] = NewConfig["subclasses"] /\ Put(c, "subclasses", v) = Mix(w, S \cup {"subclasses"})
  BY <1>1, MixedStep
<1>3. Listed(v) /\ SubclassesOk(v) /\ NewConfig["subclasses"] = <<>>
  BY DEF WellMade, SubclassesOk, NewConfig
<1> HIDE DEF c, v
<1>4. Leads(c, ds, Put(c, "subclasses", v)) /\ Listed(ds)
  <2>1. Appends("subclasses", v, ds)
    BY <1>3, SubclassesAppend DEF v
  <2> QED
    BY <1>1, <1>2, <1>3, <2>1, AppendsLead
<1> QED
  BY <1>2, <1>4 DEF c

LEMMA RustFunsSegment ==
    ASSUME NEW w, WellMade(w), w.refused = FALSE, NEW S, "rustFuns" \notin S, NEW ds,
           ds = [i \in DOMAIN w.rustFuns |-> [directive |-> "extern_rust_function", id |-> w.rustFuns[i]]]
    PROVE  Leads(Mix(w, S), ds, Mix(w, S \cup {"rustFuns"})) /\ Listed(ds)
<1> DEFINE c == Mix(w, S)
           v == w["rustFuns"]
<1>1. "rustFuns" \in ConfigFields \ {"refused", "mode", "entries"}
  BY DEF ConfigFields
<1>2. Shaped(c) /\ c["rustFuns"] = NewConfig["rustFuns"] /\ Put(c, "rustFuns", v) = Mix(w, S \cup {"rustFuns"})
  BY <1>1, MixedStep
<1>3. Listed(v) /\ NewConfig["rustFuns"] = <<>>
  BY DEF WellMade, NewConfig
<1> HIDE DEF c, v
<1>4. Leads(c, ds, Put(c, "rustFuns", v)) /\ Listed(ds)
  <2>1. Appends("rustFuns", v, ds)
    BY <1>3, RustFunsAppend DEF v
  <2> QED
    BY <1>1, <1>2, <1>3, <2>1, AppendsLead
<1> QED
  BY <1>2, <1>4 DEF c

LEMMA ExternsSegment ==
    ASSUME NEW w, WellMade(w), w.refused = FALSE, NEW S, "externs" \notin S, NEW ds,
           ds = [i \in DOMAIN SetToSeq(DOMAIN w.externs) |-> 
                  [directive |-> IF w.externs[SetToSeq(DOMAIN w.externs)[i]].opaque THEN "extern_cpp_opaque_type" ELSE "extern_cpp_type",
                   name |-> SetToSeq(DOMAIN w.externs)[i], id |-> w.externs[SetToSeq(DOMAIN w.externs)[i]].path]]
    PROVE  Leads(Mix(w, S), ds, Mix(w, S \cup {"externs"})) /\ Listed(ds)
<1> DEFINE c == Mix(w, S)
           v == w["externs"]
<1>1. "externs" \in ConfigFields \ {"refused", "mode", "entries"}
  BY DEF ConfigFields
<1>2. Shaped(c) /\ c["externs"] = NewConfig["externs"] /\ Put(c, "externs", v) = Mix(w, S \cup {"externs"})
  BY <1>1, MixedStep
<1>3. IsMap(v) /\ ExternsOk(v) /\ NewConfig["externs"] = NoEntries
  BY DEF WellMade, ExternsOk, NewConfig
<1> HIDE DEF c, v
<1>4. Leads(c, ds, Put(c, "externs", v)) /\ Listed(ds)
  <2>1. Enters("externs", v, SetToSeq(DOMAIN v), ds)
    <3> DEFINE keys == SetToSeq(DOMAIN v)
    <3>1. \A i \in DOMAIN keys : keys[i] \in DOMAIN v
      BY <1>3, KeysOfAll DEF IsMap
    <3> HIDE DEF keys
    <3>2. Enters("externs", v, keys, ds)
      BY <1>3, <3>1, ExternsEnter DEF v, keys
    <3> QED
      BY <3>2 DEF keys
  <2> QED
    BY <1>1, <1>2, <1>3, <2>1, EntersLead
<1> QED
  BY <1>2, <1>4 DEF c

LEMMA StylesSegment ==
    ASSUME NEW w, WellMade(w), w.refused = FALSE, NEW S, "enumStyles" \notin S, NEW ds,
           ds = [i \in DOMAIN SetToSeq(DOMAIN w.enumStyles) |-> 
                  [directive |-> "enum_style", name |-> SetToSeq(DOMAIN w.enumStyles)[i], style |-> w.enumStyles[SetToSeq(DOMAIN w.enumStyles)[i]]]]
    PROVE  Leads(Mix(w, S), ds, Mix(w, S \cup {"enumStyles"})) /\ Listed(ds)
<1> DEFINE c == Mix(w, S)
           v == w["enumStyles"]
<1>1. "enumStyles" \in ConfigFields \ {"refused", "mode", "entries"}
  BY DEF ConfigFields
<1>2. Shaped(c) /\ c["enumStyles"] = NewConfig["enumStyles"] /\ Put(c, "enumStyles", v) = Mix(w, S \cup {"enumStyles"})
  BY <1>1, MixedStep
<1>3. IsMap(v) /\ StylesOk(v) /\ NewConfig["enumStyles"] = NoEntries
  BY DEF WellMade, StylesOk, NewConfig
<1> HIDE DEF c, v
<1>4. Leads(c, ds, Put(c, "enumStyles", v)) /\ Listed(ds)
  <2>1. Enters("enumStyles", v, SetToSeq(DOMAIN v), ds)
    <3> DEFINE keys == SetToSeq(DOMAIN v)
    <3>1. \A i \in DOMAIN keys : keys[i] \in DOMAIN v
      BY <1>3, KeysOfAll DEF IsMap
    <3> HIDE DEF keys
    <3>2. Enters("enumStyles", v, keys, ds)
      BY <1>3, <3>1, StylesEnter DEF v, keys
    <3> QED
      BY <3>2 DEF keys
  <2> QED
    BY <1>1, <1>2, <1>3, <2>1, EntersLead
<1> QED
  BY <1>2, <1>4 DEF c

LEMMA DerivesSegment ==
    ASSUME NEW w, WellMade(w), w.refused = FALSE, NEW S, "derives" \notin S, NEW ds,
           ds = OutputDerives(w)
    PROVE  Leads(Mix(w, S), ds, Mix(w, S \cup {"derives"})) /\ Listed(ds)
<1> DEFINE c == Mix(w, S)
           v == w["derives"]
<1>1. "derives" \in ConfigFields \ {"refused", "mode", "entries"}
  BY DEF ConfigFields
<1>2. Shaped(c) /\ c["derives"] = NewConfig["derives"] /\ Put(c, "derives", v) = Mix(w, S \cup {"derives"})
  BY <1>1, MixedStep
<1>3. DerivesOk(w.derives) /\ NewConfig["derives"] = NoEntries
  BY DEF WellMade, NewConfig
<1> HIDE DEF c, v
<1>4. Leads(c, ds, Put(c, "derives", v)) /\ Listed(ds)
  BY <1>2, <1>3, DerivesLead DEF v
<1> QED
  BY <1>2, <1>4 DEF c

LEMMA WhatIsWrittenIsRead ==
    ASSUME NEW w, WellMade(w), w.refused = FALSE, w.mode # "unspecified"
    PROVE  ParseConfig(Output(w)) = ReadBack(w)
<1> DEFINE new == NewConfig
           d1 == [i \in DOMAIN w.includes |-> [directive |-> "include", header |-> w.includes[i]]]
           d2 == OutputAllowlist(w)
           d3 == IF w.safety = "unsafe functions" THEN <<>> ELSE <<[directive |-> "safety", policy |-> w.safety]>>
           d4 == OutputLists(w)
           d5 == [i \in DOMAIN SetToSeq(w.flags) |-> [directive |-> SetToSeq(w.flags)[i]]]
           d6 == IF w.name = "ffi" THEN <<>> ELSE <<[directive |-> "name", id |-> w.name]>>
           d7 == [i \in DOMAIN SetToSeq(DOMAIN w.concretes) |-> 
                    [directive |-> "concrete", definition |-> SetToSeq(DOMAIN w.concretes)[i], id |-> w.concretes[SetToSeq(DOMAIN w.concretes)[i]]]]
           d8 == [i \in DOMAIN w.rustTypes |-> [directive |-> "extern_rust_type", id |-> w.rustTypes[i]]]
           d9 == [i \in DOMAIN w.subclasses |->
                    [directive |-> "subclass", superclass |-> w.subclasses[i].superclass, id |-> w.subclasses[i].subclass]]
           d10 == [i \in DOMAIN w.rustFuns |-> [directive |-> "extern_rust_function", id |-> w.rustFuns[i]]]
           d11 == [i \in DOMAIN SetToSeq(DOMAIN w.externs) |-> 
                    [directive |-> IF w.externs[SetToSeq(DOMAIN w.externs)[i]].opaque THEN "extern_cpp_opaque_type" ELSE "extern_cpp_type",
                     name |-> SetToSeq(DOMAIN w.externs)[i], id |-> w.externs[SetToSeq(DOMAIN w.externs)[i]].path]]
           d12 == [i \in DOMAIN SetToSeq(DOMAIN w.enumStyles) |-> 
                    [directive |-> "enum_style", name |-> SetToSeq(DOMAIN w.enumStyles)[i], style |-> w.enumStyles[SetToSeq(DOMAIN w.enumStyles)[i]]]]
           d13 == OutputDerives(w)
           T1 == {} \cup {"includes"}
           T2 == T1 \cup {"mode", "entries"}
           T3 == T2 \cup {"safety"}
           T4 == T3 \cup {"lists"}
           T5 == T4 \cup {"flags"}
           T6 == T5 \cup {"name"}
           T7 == T6 \cup {"concretes"}
           T8 == T7 \cup {"rustTypes"}
           T9 == T8 \cup {"subclasses"}
           T10 == T9 \cup {"rustFuns"}
           T11 == T10 \cup {"externs"}
           T12 == T11 \cup {"enumStyles"}
           T13 == T12 \cup {"derives"}
           p1 == d1
           p2 == p1 \o d2
           p3 == p2 \o d3
           p4 == p3 \o d4
           p5 == p4 \o d5
           p6 == p5 \o d6
           p7 == p6 \o d7
           p8 == p7 \o d8
           p9 == p8 \o d9
           p10 == p9 \o d10
           p11 == p10 \o d11
           p12 == p11 \o d12
           p13 == p12 \o d13
<1>0. Output(w) = p13
  BY DEF Output, Each, EachKey
<1>1. Leads(Mix(w, {}), d1, Mix(w, T1)) /\ Listed(d1)
  <2>1. "includes" \notin {}
    OBVIOUS
  <2> HIDE DEF new
  <2> QED
    BY <2>1, IncludesSegment
<1>2. Leads(Mix(w, T1), d2, Mix(w, T2)) /\ Listed(d2)
  <2>1. "mode" \notin T1 /\ "entries" \notin T1
    OBVIOUS
  <2> HIDE DEF T1
  <2> QED
    BY <2>1, AllowlistSegment
<1>3. Leads(Mix(w, T2), d3, Mix(w, T3)) /\ Listed(d3)
  <2>1. "safety" \notin T2
    OBVIOUS
  <2> HIDE DEF T2
  <2> QED
    BY <2>1, SafetySegment
<1>4. Leads(Mix(w, T3), d4, Mix(w, T4)) /\ Listed(d4)
  <2>1. "lists" \notin T3
    OBVIOUS
  <2> HIDE DEF T3
  <2> QED
    BY <2>1, ListsSegment
<1>5. Leads(Mix(w, T4), d5, Mix(w, T5)) /\ Listed(d5)
  <2>1. "flags" \notin T4
    OBVIOUS
  <2> HIDE DEF T4
  <2> QED
    BY <2>1, FlagsSegment
<1>6. Leads(Mix(w, T5), d6, Mix(w, T6)) /\ Listed(d6)
  <2>1. "name" \notin T5
    OBVIOUS
  <2> HIDE DEF T5
  <2> QED
    BY <2>1, NameSegment
<1>7. Leads(Mix(w, T6), d7, Mix(w, T7)) /\ Listed(d7)
  <2>1. "concretes" \notin T6
    OBVIOUS
  <2> HIDE DEF T6
  <2> QED
    BY <2>1, ConcretesSegment
<1>8. Leads(Mix(w, T7), d8, Mix(w, T8)) /\ Listed(d8)
  <2>1. "rustTypes" \notin T7
    OBVIOUS
  <2> HIDE DEF T7
  <2> QED
    BY <2>1, RustTypesSegment
<1>9. Leads(Mix(w, T8), d9, Mix(w, T9)) /\ Listed(d9)
  <2>1. "subclasses" \notin T8
    OBVIOUS
  <2> HIDE DEF T8
  <2> QED
    BY <2>1, SubclassesSegment
<1>10. Leads(Mix(w, T9), d10, Mix(w, T10)) /\ Listed(d10)
  <2>1. "rustFuns" \notin T9
    OBVIOUS
  <2> HIDE DEF T9
  <2> QED
    BY <2>1, RustFunsSegment
<1>11. Leads(Mix(w, T10), d11, Mix(w, T11)) /\ Listed(d11)
  <2>1. "externs" \notin T10
    OBVIOUS
  <2> HIDE DEF T10
  <2> QED
    BY <2>1, ExternsSegment
<1>12. Leads(Mix(w, T11), d12, Mix(w, T12)) /\ Listed(d12)
  <2>1. "enumStyles" \notin T11
    OBVIOUS
  <2> HIDE DEF T11
  <2> QED
    BY <2>1, StylesSegment
<1>13. Leads(Mix(w, T12), d13, Mix(w, T13)) /\ Listed(d13)
  <2>1. "derives" \notin T12
    OBVIOUS
  <2> HIDE DEF T12
  <2> QED
    BY <2>1, DerivesSegment
<1>14. T13 = ConfigFields \ {"refused"}
  BY DEF ConfigFields
<1> HIDE DEF d1, d2, d3, d4, d5, d6, d7, d8, d9, d10, d11, d12, d13, T1, T2, T3, T4, T5, T6, T7, T8, T9, T10, T11, T12, T13
<1>15. Leads(new, p1, Mix(w, T1)) /\ Listed(p1)
  BY <1>1, NothingIsMixed
<1>16. Leads(new, p2, Mix(w, T2)) /\ Listed(p2)
  <2> HIDE DEF p1, new
  <2> QED
    BY <1>2, <1>15, LeadsOn
<1>17. Leads(new, p3, Mix(w, T3)) /\ Listed(p3)
  <2> HIDE DEF p2, new
  <2> QED
    BY <1>3, <1>16, LeadsOn
<1>18. Leads(new, p4, Mix(w, T4)) /\ Listed(p4)
  <2> HIDE DEF p3, new
  <2> QED
    BY <1>4, <1>17, LeadsOn
<1>19. Leads(new, p5, Mix(w, T5)) /\ Listed(p5)
  <2> HIDE DEF p4, new
  <2> QED
    BY <1>5, <1>18, LeadsOn
<1>20. Leads(new, p6, Mix(w, T6)) /\ Listed(p6)
  <2> HIDE DEF p5, new
  <2> QED
    BY <1>6, <1>19, LeadsOn
<1>21. Leads(new, p7, Mix(w, T7)) /\ Listed(p7)
  <2> HIDE DEF p6, new
  <2> QED
    BY <1>7, <1>20, LeadsOn
<1>22. Leads(new, p8, Mix(w, T8)) /\ Listed(p8)
  <2> HIDE DEF p7, new
  <2> QED
    BY <1>8, <1>21, LeadsOn
<1>23. Leads(new, p9, Mix(w, T9)) /\ Listed(p9)
  <2> HIDE DEF p8, new
  <2> QED
    BY <1>9, <1>22, LeadsOn
<1>24. Leads(new, p10, Mix(w, T10)) /\ Listed(p10)
  <2> HIDE DEF p9, new
  <2> QED
    BY <1>10, <1>23, LeadsOn
<1>25. Leads(new, p11, Mix(w, T11)) /\ Listed(p11)
  <2> HIDE DEF p10, new
  <2> QED
    BY <1>11, <1>24, LeadsOn
<1>26. Leads(new, p12, Mix(w, T12)) /\ Listed(p12)
  <2> HIDE DEF p11, new
  <2> QED
    BY <1>12, <1>25, LeadsOn
<1>27. Leads(new, p13, Mix(w, T13)) /\ Listed(p13)
  <2> HIDE DEF p12, new
  <2> QED
    BY <1>13, <1>26, LeadsOn
<1> HIDE DEF p13
<1>28. Leads(NewConfig, p13, ReadBack(w)) /\ Listed(p13)
  BY <1>14, <1>27, EverythingIsMixed
<1> QED
  BY <1>0, <1>28, LeadsThere

(* The configuration of the engine is one which directives make.              *)
LEMMA EveryConfigIsWellMade == Spec => []WellMade(config)
<1>1. Init => WellMade(config)
  <2>1. SUFFICES ASSUME Init PROVE WellMade(config)
    OBVIOUS
  <2>2. PICK b \in Blocks : config = ParseConfig(b.directives)
    BY <2>1 DEF Init
  <2>3. Listed(b.directives)
    BY BlocksAssumption DEF Listed
  <2> QED
    BY <2>2, <2>3, WhatIsParsedIsWellMade
<1>2. WellMade(config) /\ [Next]_vars => WellMade(config)'
  <2>1. SUFFICES ASSUME WellMade(config), [Next]_vars PROVE WellMade(config)'
    OBVIOUS
  <2>2. config' = config \/ config' = ConfirmComplete(config)
    <3>1. CASE UNCHANGED vars
      BY <3>1 DEF vars
    <3>2. CASE StartGenerating
      BY <3>2 DEF StartGenerating
    <3>3. CASE ReportItem \/ BindgenFails \/ StartConverting
      BY <3>3 DEF ReportItem, BindgenFails, StartConverting, block
    <3>4. CASE Parse
      <4>1. CASE ParseStruct \/ ParseEnum \/ ParseUnexpected
        BY <4>1 DEF ParseStruct, ParseEnum, ParseUnexpected, Converter, block
      <4>2. CASE ParseTypedef \/ ParseUse \/ ParseConst
        BY <4>2 DEF ParseTypedef, ParseUse, ParseConst, Converter, block
      <4>3. CASE ParseForeignItems \/ ParseImpl \/ EnterMod \/ LeaveMod
        BY <4>3 DEF ParseForeignItems, ParseImpl, EnterMod, LeaveMod, Converter, block
      <4> QED
        BY <3>4, <4>1, <4>2, <4>3 DEF Parse
    <3>5. CASE FinishParsing \/ Analyse \/ Confirm
      BY <3>5 DEF FinishParsing, Analyse, Confirm, block
    <3> QED
      BY <2>1, <3>1, <3>2, <3>3, <3>4, <3>5 DEF Next
  <2>3. WellMade(config')
    BY <2>1, <2>2, AllowlistsAreKept
  <2> QED
    BY <2>3 DEF WellMade
<1> QED
  BY <1>1, <1>2, PTL DEF Spec

(* For every block, whatever directives it is made of and in whatever order:    *)
(* what to_tokens writes into a reproduction case is read back as the           *)
(* configuration it was written from, but for the order of the allowlist.       *)
THEOREM ReproductionIsFaithful == Spec => []ReproductionSaysTheSame
<1>1. WellMade(config) => ReproductionSaysTheSame
  <2>1. SUFFICES ASSUME WellMade(config), config.mode # "unspecified", ~config.refused
                 PROVE  Same(ConfirmComplete(ParseConfig(Output(config))), config)
    BY DEF ReproductionSaysTheSame
  <2>2. config.refused = FALSE /\ AllowlistOk(config.mode, config.entries)
    BY <2>1 DEF WellMade
  <2>3. Shaped(config)
    BY <2>1, <2>2, WellMadeIsShaped
  <2>4. ParseConfig(Output(config)) = ReadBack(config)
    BY <2>1, <2>2, WhatIsWrittenIsRead
  <2>5. Same(ConfirmComplete(ReadBack(config)), config)
    BY <2>1, <2>2, <2>3, ReadBackIsTheSame
  <2> QED
    BY <2>4, <2>5
<1> QED
  BY <1>1, EveryConfigIsWellMade, PTL
================================================================================

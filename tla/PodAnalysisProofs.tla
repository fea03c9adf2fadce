-------------------------- MODULE PodAnalysisProofs ----------------------------
(* Proofs about PodAnalysis: that POD is closed under holding, and that every  *)
(* verdict is deserved.                                                        *)
EXTENDS PodAnalysis, FiniteSetTheorems, SequenceTheorems, WellFoundedInduction, TLAPS

(* Induction, as a fact about sets. *)
LEMMA Induction ==
    ASSUME NEW S \in SUBSET Nat, 0 \in S, \A k \in S : k + 1 \in S
    PROVE  S = Nat
<1>1. SUFFICES ASSUME Nat \ S # {} PROVE FALSE
  OBVIOUS
<1>2. PICK m \in Nat \ S : \A k \in Nat \ S : ~(<<k, m>> \in OpToRel(<, Nat))
  BY <1>1, NatLessThanWellFounded, WFMin
<1>3. \A k \in Nat \ S : ~(k < m)
  BY <1>2 DEF OpToRel
<1>4. m # 0 /\ m - 1 \in Nat /\ m - 1 < m
  OBVIOUS
<1>5. m - 1 \in S /\ (m - 1) + 1 = m
  BY <1>3, <1>4
<1> QED
  BY <1>5

(* A function of the naturals may be defined from one value to the next. *)
Steppable(A, x, F) == x \in A /\ F \in [Nat \X A -> A]
Unfolds(f, A, x, F) ==
    /\ f \in [Nat -> A]
    /\ f[0] = x
    /\ \A k \in Nat : f[k + 1] = F[<<k, f[k]>>]

LEMMA Recursion == \A A, x, F : Steppable(A, x, F) => \E f : Unfolds(f, A, x, F)
<1> SUFFICES ASSUME NEW A, NEW x \in A, NEW F \in [Nat \X A -> A]
             PROVE  \E f : Unfolds(f, A, x, F)
  BY DEF Steppable
<1> DEFINE Steps(S) == /\ <<0, x>> \in S
                       /\ \A k \in Nat, a \in A : <<k, a>> \in S => <<k + 1, F[<<k, a>>]>> \in S
           R == {r \in Nat \X A : \A S \in SUBSET (Nat \X A) : Steps(S) => r \in S}
           K == {k \in Nat : \E a \in A : <<k, a>> \in R /\ \A b \in A : <<k, b>> \in R => b = a}
<1>0. \A k \in Nat, a \in A : k + 1 \in Nat /\ F[<<k, a>>] \in A
  OBVIOUS
<1>1. Steps(R)
  <2>1. <<0, x>> \in R
    OBVIOUS
  <2>2. ASSUME NEW k \in Nat, NEW a \in A, <<k, a>> \in R
        PROVE  <<k + 1, F[<<k, a>>]>> \in R
    <3>1. <<k + 1, F[<<k, a>>]>> \in Nat \X A
      BY <1>0
    <3>2. ASSUME NEW S \in SUBSET (Nat \X A), Steps(S) PROVE <<k + 1, F[<<k, a>>]>> \in S
      BY <2>2, <3>2
    <3> QED
      BY <3>1, <3>2
  <2> QED
    BY <2>1, <2>2
<1>2. \A S \in SUBSET R : Steps(S) => S = R
  OBVIOUS
<1> HIDE DEF R, Steps
<1>3. R \in SUBSET (Nat \X A)
  BY DEF R
<1>4. 0 \in K
  <2>1. SUFFICES ASSUME NEW b \in A, <<0, b>> \in R, b # x PROVE FALSE
    BY <1>1 DEF Steps
  <2>2. \A k \in Nat : \A c \in A : <<k + 1, c>> # <<0, b>>
    <3>1. \A k \in Nat : k + 1 # 0
      OBVIOUS
    <3> QED
      BY <3>1
  <2>3. Steps(R \ {<<0, b>>})
    BY <1>1, <2>1, <2>2 DEF Steps
  <2> QED
    BY <1>2, <2>1, <2>3
<1>5. ASSUME NEW k \in K PROVE k + 1 \in K
  <2>1. PICK a \in A : <<k, a>> \in R /\ \A b \in A : <<k, b>> \in R => b = a
    OBVIOUS
  <2>2. F[<<k, a>>] \in A /\ <<k + 1, F[<<k, a>>]>> \in R
    BY <1>1, <2>1 DEF Steps
  <2>3. SUFFICES ASSUME NEW b \in A, <<k + 1, b>> \in R, b # F[<<k, a>>] PROVE FALSE
    BY <2>2
  <2>4. ASSUME NEW j \in Nat, NEW c \in A, <<j, c>> \in R, <<j + 1, F[<<j, c>>]>> = <<k + 1, b>>
        PROVE  FALSE
    <3>1. j + 1 = k + 1 /\ j \in Nat /\ k \in Nat
      BY <2>4
    <3>2. j = k
      BY <3>1
    <3> QED
      BY <2>1, <2>3, <2>4, <3>2
  <2>5. Steps(R \ {<<k + 1, b>>})
    BY <1>1, <2>4 DEF Steps
  <2> QED
    BY <1>2, <2>3, <2>5
<1>6. K = Nat
  BY <1>4, <1>5, Induction
<1> DEFINE f == [k \in Nat |-> CHOOSE a \in A : <<k, a>> \in R]
<1>7. \A k \in Nat : f[k] \in A /\ <<k, f[k]>> \in R /\ \A b \in A : <<k, b>> \in R => b = f[k]
  BY <1>6
<1>8. f \in [Nat -> A]
  BY <1>7
<1> HIDE DEF f
<1>9. f[0] = x
  BY <1>1, <1>7 DEF Steps
<1>10. ASSUME NEW k \in Nat PROVE f[k + 1] = F[<<k, f[k]>>]
  <2>1. k + 1 \in Nat /\ F[<<k, f[k]>>] \in A /\ <<k + 1, F[<<k, f[k]>>]>> \in R
    BY <1>0, <1>1, <1>7 DEF Steps
  <2> QED
    BY <1>7, <2>1
<1> QED
  BY <1>8, <1>9, <1>10 DEF Unfolds

(* Closure is what it is meant to be: the least set which has the types one    *)
(* starts from and is closed under steps.                                      *)
Further(near, step) == near \cup UNION {step[n] : n \in near}

LEMMA ClosureUnfolds ==
    ASSUME NEW T \in SUBSET Name, NEW step \in [Name -> SUBSET Name]
    PROVE  \E f \in [Nat -> SUBSET Name] :
               /\ f[0] = T
               /\ \A k \in Nat : f[k + 1] = Further(f[k], step)
               /\ Closure(T, step) = f[Cardinality(Name)]
<1> DEFINE F == [r \in Nat \X SUBSET Name |-> Further(r[2], step)]
           IsUpTo(g) == g = [k \in Nat |-> IF k = 0 THEN T ELSE Further(g[k - 1], step)]
           g == CHOOSE h : IsUpTo(h)
<1>1. \A S \in SUBSET Name : Further(S, step) \in SUBSET Name
  BY DEF Further
<1>2. F \in [Nat \X SUBSET Name -> SUBSET Name]
  BY <1>1
<1>3. \A k \in Nat : \A S \in SUBSET Name : F[<<k, S>>] = Further(S, step)
  OBVIOUS
<1> HIDE DEF F
<1>a. Steppable(SUBSET Name, T, F)
  BY <1>2 DEF Steppable
<1>b. PICK f : Unfolds(f, SUBSET Name, T, F)
  BY <1>a, Recursion
<1>4. f[0] = T /\ \A k \in Nat : f[k + 1] = Further(f[k], step)
  BY <1>3, <1>b DEF Unfolds
<1>c. f \in [Nat -> SUBSET Name]
  BY <1>b DEF Unfolds
<1>5. IsUpTo(f)
  <2>1. ASSUME NEW k \in Nat, k # 0 PROVE f[k] = Further(f[k - 1], step)
    <3>1. k - 1 \in Nat /\ (k - 1) + 1 = k
      BY <2>1
    <3> QED
      BY <1>4, <3>1
  <2> QED
    BY <1>4, <1>c, <2>1
<1>6. Closure(T, step) = g[Cardinality(Name)]
  BY DEF Closure, Further
<1>7. IsUpTo(g)
  BY <1>5
<1> HIDE DEF g
<1>8. g[0] = T
  BY <1>7
<1>9. \A k \in Nat : g[k + 1] = Further(g[k], step)
  <2>1. ASSUME NEW k \in Nat PROVE g[k + 1] = Further(g[k], step)
    <3>1. k + 1 \in Nat /\ k + 1 # 0 /\ (k + 1) - 1 = k
      OBVIOUS
    <3> QED
      BY <1>7, <3>1
  <2> QED
    BY <2>1
<1>10. g \in [Nat -> SUBSET Name]
  <2> DEFINE K == {k \in Nat : g[k] \in SUBSET Name}
  <2>1. 0 \in K /\ \A k \in K : k + 1 \in K
    BY <1>1, <1>8, <1>9
  <2>2. K = Nat
    BY <2>1, Induction
  <2> QED
    BY <1>7, <2>2
<1> QED
  BY <1>6, <1>8, <1>9, <1>10

LEMMA ClosureIsLeast ==
    ASSUME NEW T \in SUBSET Name, NEW step \in [Name -> SUBSET Name]
    PROVE  /\ T \subseteq Closure(T, step)
           /\ Closure(T, step) \in SUBSET Name
           /\ \A n \in Closure(T, step) : step[n] \subseteq Closure(T, step)
           /\ \A S \in SUBSET Name :
                  T \subseteq S /\ (\A n \in S : step[n] \subseteq S) => Closure(T, step) \subseteq S
<1>1. PICK f \in [Nat -> SUBSET Name] :
          /\ f[0] = T
          /\ \A k \in Nat : f[k + 1] = Further(f[k], step)
          /\ Closure(T, step) = f[Cardinality(Name)]
  BY ClosureUnfolds
<1> DEFINE N == Cardinality(Name)
<1>2. N \in Nat /\ IsFiniteSet(Name)
  BY NamesAssumption, FS_CardinalityType
<1>3. T \subseteq f[N]
    <2> DEFINE K == {k \in Nat : T \subseteq f[k]}
    <2>1. 0 \in K /\ \A k \in K : k + 1 \in K
      BY <1>1 DEF Further
    <2>2. K = Nat
      BY <2>1, Induction
    <2> QED
      BY <1>2, <2>2
<1>4. ASSUME NEW S \in SUBSET Name, T \subseteq S, \A n \in S : step[n] \subseteq S
        PROVE  f[N] \subseteq S
    <2> DEFINE K == {k \in Nat : f[k] \subseteq S}
    <2>1. 0 \in K /\ \A k \in K : k + 1 \in K
      BY <1>1, <1>4 DEF Further
    <2>2. K = Nat
      BY <2>1, Induction
    <2> QED
      BY <1>2, <2>2
<1>5. f[N + 1] = f[N]
    <2> DEFINE Big(k) == f[k + 1] = f[k] \/ k <= Cardinality(f[k])
               K == {k \in Nat : Big(k)}
    <2>1. \A k \in Nat : f[k] \in SUBSET Name /\ IsFiniteSet(f[k]) /\ Cardinality(f[k]) \in Nat
      BY <1>2, FS_Subset, FS_CardinalityType
    <2>2. 0 \in K
      BY <2>1
    <2>3. ASSUME NEW k \in K PROVE k + 1 \in K
      <3>0. k \in Nat /\ k + 1 \in Nat /\ Big(k)
        OBVIOUS
      <3>1. CASE f[k + 1] = f[k]
        <4>1. f[k + 1 + 1] = Further(f[k + 1], step) /\ f[k + 1] = Further(f[k], step)
          BY <1>1, <3>0
        <4> QED
          BY <3>0, <3>1, <4>1
      <3>2. CASE f[k + 1] # f[k] /\ k <= Cardinality(f[k])
        <4>1. f[k] \subseteq f[k + 1]
          BY <1>1, <3>0 DEF Further
        <4>2. Cardinality(f[k]) <= Cardinality(f[k + 1]) /\ Cardinality(f[k]) # Cardinality(f[k + 1])
          BY <2>1, <3>0, <3>2, <4>1, FS_Subset
        <4>3. k + 1 <= Cardinality(f[k + 1])
          BY <2>1, <3>0, <3>2, <4>2
        <4> QED
          BY <3>0, <4>3
      <3> QED
        BY <3>0, <3>1, <3>2
    <2>4. K = Nat
      BY <2>2, <2>3, Induction
    <2>5. Big(N) /\ N + 1 \in Nat
      BY <1>2, <2>4
    <2>6. CASE N <= Cardinality(f[N])
      <3>1. Cardinality(f[N]) = Cardinality(Name)
        BY <1>2, <2>1, <2>6, FS_Subset
      <3>2. f[N] = Name
        BY <1>2, <2>1, <3>1, FS_Subset
      <3> QED
        BY <1>1, <1>2, <2>1, <2>5, <3>2 DEF Further
    <2> QED
      BY <2>5, <2>6
<1>6. \A n \in f[N] : step[n] \subseteq f[N]
    BY <1>1, <1>2, <1>5 DEF Further
<1> QED
  BY <1>1, <1>2, <1>3, <1>4, <1>6

-------------------------------------------------------------------------------
(* Selected keeps what is in the set, and nothing else. *)
Kept(s, set, k, taken) ==
    IF k + 1 \in 1..Len(s) /\ s[k + 1] \in set THEN Append(taken, s[k + 1]) ELSE taken

LEMMA SelectedUnfolds ==
    ASSUME NEW Q, NEW s \in Seq(Q), NEW set
    PROVE  \E f : /\ f[0] = <<>>
                  /\ \A k \in 0..(Len(s) - 1) : f[k + 1] = Kept(s, set, k, f[k])
                  /\ Selected(s, set) = f[Len(s)]
<1> DEFINE F == [r \in Nat \X Seq(Q) |-> Kept(s, set, r[1], r[2])]
           IsUpTo(g) == g = [k \in 0..Len(s) |->
                                IF k = 0 THEN <<>>
                                ELSE IF s[k] \in set THEN Append(g[k - 1], s[k]) ELSE g[k - 1]]
           g == CHOOSE h : IsUpTo(h)
<1>1. \A k \in Nat : \A t \in Seq(Q) : Kept(s, set, k, t) \in Seq(Q)
  BY DEF Kept
<1>2. Steppable(Seq(Q), <<>>, F)
  BY <1>1 DEF Steppable
<1>3. \A k \in Nat : \A t \in Seq(Q) : F[<<k, t>>] = Kept(s, set, k, t)
  OBVIOUS
<1> HIDE DEF F
<1>4. PICK f : Unfolds(f, Seq(Q), <<>>, F)
  BY <1>2, Recursion
<1>5. f \in [Nat -> Seq(Q)] /\ f[0] = <<>> /\ \A k \in Nat : f[k + 1] = Kept(s, set, k, f[k])
  BY <1>3, <1>4 DEF Unfolds
<1> DEFINE h == [k \in 0..Len(s) |-> f[k]]
<1>6. IsUpTo(h)
  <2>1. ASSUME NEW k \in 0..Len(s), k # 0
        PROVE  h[k] = IF s[k] \in set THEN Append(h[k - 1], s[k]) ELSE h[k - 1]
    <3>1. k - 1 \in Nat /\ (k - 1) + 1 = k /\ k \in 1..Len(s) /\ k - 1 \in 0..Len(s)
      BY <2>1
    <3>2. f[k] = Kept(s, set, k - 1, f[k - 1])
      BY <1>5, <3>1
    <3> QED
      BY <3>1, <3>2 DEF Kept
  <2>2. h[0] = <<>>
    BY <1>5
  <2> HIDE DEF h
  <2>3. DOMAIN h = 0..Len(s) /\ h = [k \in 0..Len(s) |-> h[k]]
    BY DEF h
  <2> QED
    BY <2>1, <2>2, <2>3
<1> HIDE DEF h
<1>7. IsUpTo(g)
  BY <1>6
<1>8. Selected(s, set) = g[Len(s)]
  BY DEF Selected
<1> HIDE DEF g
<1>9. g[0] = <<>>
  BY <1>7
<1>10. \A k \in 0..(Len(s) - 1) : g[k + 1] = Kept(s, set, k, g[k])
  <2>1. ASSUME NEW k \in 0..(Len(s) - 1) PROVE g[k + 1] = Kept(s, set, k, g[k])
    <3>1. k + 1 \in 0..Len(s) /\ k + 1 \in 1..Len(s) /\ k + 1 # 0 /\ (k + 1) - 1 = k
      OBVIOUS
    <3> QED
      BY <1>7, <3>1 DEF Kept
  <2> QED
    BY <2>1
<1> QED
  BY <1>8, <1>9, <1>10

LEMMA SelectedIs ==
    ASSUME NEW Q, NEW s \in Seq(Q), NEW set
    PROVE  /\ Selected(s, set) \in Seq(Q)
           /\ Range(Selected(s, set)) = Range(s) \cap set
<1>1. PICK f : /\ f[0] = <<>>
               /\ \A k \in 0..(Len(s) - 1) : f[k + 1] = Kept(s, set, k, f[k])
               /\ Selected(s, set) = f[Len(s)]
  BY SelectedUnfolds
<1> DEFINE So(k) == f[k] \in Seq(Q) /\ Range(f[k]) = {s[i] : i \in 1..k} \cap set
           K == {k \in Nat : k <= Len(s) => So(k)}
<1>2. 0 \in K
  <2>1. f[0] = <<>> /\ Range(f[0]) = {} /\ <<>> \in Seq(Q)
    BY <1>1 DEF Range
  <2>2. {s[i] : i \in 1..0} = {}
    OBVIOUS
  <2>3. So(0)
    BY <2>1, <2>2
  <2> HIDE DEF So
  <2> QED
    BY <2>3
<1>3. ASSUME NEW k \in K PROVE k + 1 \in K
  <2>1. SUFFICES ASSUME k + 1 <= Len(s) PROVE So(k + 1)
    OBVIOUS
  <2>2. k \in Nat /\ k \in 0..(Len(s) - 1) /\ k + 1 \in 1..Len(s) /\ So(k)
    BY <2>1
  <2>3. f[k + 1] = Kept(s, set, k, f[k])
    BY <1>1, <2>2
  <2>4. s[k + 1] \in Q /\ 1..(k + 1) = 1..k \cup {k + 1}
    BY <2>2
  <2>5. {s[i] : i \in 1..(k + 1)} = {s[i] : i \in 1..k} \cup {s[k + 1]}
    BY <2>4
  <2>6. CASE s[k + 1] \in set
    <3>1. f[k + 1] = Append(f[k], s[k + 1])
      BY <2>2, <2>3, <2>6 DEF Kept
    <3>2. f[k + 1] \in Seq(Q) /\ Range(f[k + 1]) = Range(f[k]) \cup {s[k + 1]}
      <4> DEFINE t == f[k]
                 e == s[k + 1]
      <4>1. t \in Seq(Q) /\ e \in Q
        BY <2>2, <2>4
      <4> HIDE DEF t, e
      <4>2. Append(t, e) \in Seq(Q) /\ Len(Append(t, e)) = Len(t) + 1 /\ Append(t, e)[Len(t) + 1] = e
            /\ \A i \in 1..Len(t) : Append(t, e)[i] = t[i]
        BY <4>1
      <4>3. Range(t) = {t[i] : i \in 1..Len(t)}
        BY <4>1 DEF Range
      <4>4. Range(Append(t, e)) = {Append(t, e)[i] : i \in 1..(Len(t) + 1)}
        BY <4>2 DEF Range
      <4>5. 1..(Len(t) + 1) = 1..Len(t) \cup {Len(t) + 1}
        BY <4>1
      <4>6. Range(Append(t, e)) = Range(t) \cup {e}
        BY <4>2, <4>3, <4>4, <4>5
      <4> QED
        BY <3>1, <4>2, <4>6 DEF t, e
    <3> QED
      BY <2>2, <2>5, <2>6, <3>2
  <2>7. CASE s[k + 1] \notin set
    BY <2>2, <2>3, <2>5, <2>7 DEF Kept
  <2> QED
    BY <2>6, <2>7
<1>4. K = Nat
  BY <1>2, <1>3, Induction
<1>5. So(Len(s))
  <2> HIDE DEF So
  <2>1. Len(s) \in Nat
    OBVIOUS
  <2> QED
    BY <1>4, <2>1
<1>6. Range(s) = {s[i] : i \in 1..Len(s)}
  BY DEF Range
<1> QED
  BY <1>1, <1>5, <1>6

-------------------------------------------------------------------------------
(* The invariants. *)
Named(p) == program.apis[p].name
Under(n) == Closure(Holds(n), Holding(program))
From(n) == Closure({n}, Holding(program))
Circle(n) == Closure(NamedBy(n), Naming(program))

TypeInv == program \in Programs /\ TypeOK

(* The walk meets every struct, and marks what it does. *)
Entries == 1..Len(stack)
StackInv == phase # "order" => stack = <<>>
StartInv == phase = "scan" => order = <<>> /\ \A p \in Structs : progress[p] = "unseen"
UnderWayInv ==
    \A p \in Structs :
        progress[p] = "under way" <=> \E i \in Entries : stack[i].up /\ stack[i].place = p
OnceInv ==
    \A i, j \in Entries :
        stack[i].up /\ stack[j].up /\ stack[i].place = stack[j].place => i = j
OrderedInv == \A p \in Structs : progress[p] = "ordered" <=> p \in Range(order)
RootsInv ==
    phase = "order" =>
        \A p \in Structs : p < at => progress[p] # "unseen" \/ \E i \in Entries : stack[i].place = p
AllOrdered == phase \notin {"scan", "order"} => Structs \subseteq Range(order)
WalkInv == /\ StackInv /\ StartInv /\ UnderWayInv /\ OnceInv /\ OrderedInv /\ RootsInv
           /\ AllOrdered

(* Everything comes after what it holds. *)
BelowInv ==
    \A i, j \in Entries :
        i < j /\ stack[i].up => Named(stack[j].place) \in Under(Named(stack[i].place))
AheadInv ==
    \A i \in Entries : stack[i].up =>
        \A q \in Structs : Named(q) \in Holds(Named(stack[i].place)) =>
            progress[q] = "ordered" \/ \E j \in Entries : i < j /\ stack[j].place = q
AfterInv ==
    \A k \in 1..Len(order) : \A q \in Structs :
        Named(q) \in Holds(Named(order[k])) => \E l \in 1..Len(order) : l < k /\ order[l] = q
DepthInv == BelowInv /\ AheadInv /\ AfterInv

(* What is on record of each type. *)
Done(p) == phase = "scan" => p < at
Taken(p) ==
    \/ phase \in {"requests", "refused", "analyze", "done"}
    \/ phase = "ingest" /\ \E k \in 1..Len(order) : k < at /\ order[k] = p
Judging == {"scan", "order", "ingest"}
OwnFlaws == {"vtable", "virtual base", "volatile bitfield", "bases as bytes"}

UndefinedInv == \A n \in Name \ Defined : results[n] = Initially(program.blocklist)[n]
ScannedInv ==
    \A p \in Places(program) : Done(p) =>
        LET api == program.apis[p]
            record == results[api.name]
        IN /\ api.kind \in {"pointer alias", "enum", "pod elsewhere"} => record = IsPod
           /\ api.kind = "complex" => record = Unsafe(api.name, "complex typedef")
           /\ api.kind = "alias" => /\ record.state \in {"alias", "pod", "unsafe"}
                                    /\ record.target = Substitute[api.target]
                                    /\ phase \in Judging => record.state = "alias"
IngestedInv ==
    \A p \in Structs : Taken(p) =>
        LET record == results[Named(p)]
        IN /\ record.deps = FieldDependencies(program.apis[p])
           /\ record.state \in {"safe", "pod", "unsafe"}
           /\ record.state # "unsafe" => program.apis[p].facts \cap OwnFlaws = {}
           /\ phase \in Judging => record.state # "pod"
RecordInv == UndefinedInv /\ ScannedInv /\ IngestedInv

(* What has to become POD is, or is asked for. *)
Asked(n) == results[n].state = "pod" \/ n \in Range(requests)
AskedInv ==
    phase \in {"requests", "analyze", "done"} =>
        /\ \A n \in Wanted : Asked(n)
        /\ \A n \in Name : results[n].state = "pod" => \A m \in Holds(n) : Asked(m)
        /\ phase # "requests" => requests = <<>>

KindsInv ==
    phase \in {"analyze", "done"} =>
        \A p \in Places(program) :
            (phase = "analyze" => p < at) /\ program.apis[p].kind \in {"struct", "enum"} =>
                kinds[Named(p)] = KindOf(program.apis[p])

(* Why things are as they are. *)
Settled(n) ==
    \A p \in Places(program) : Named(p) = n => Done(p) /\ (p \in Structs => Taken(p))
Explains(cause, n) == cause.type \in From(n) /\ cause.why \in Flaws(cause.type)
CausesInv ==
    \A n \in Name : Settled(n) /\ results[n].state = "unsafe" => Explains(results[n].cause, n)

GrantedFreely(n) ==
    \/ Initially(program.blocklist)[n].state = "pod"
    \/ \E api \in Apis : api.name = n /\ api.kind \in {"pointer alias", "enum", "pod elsewhere"}
GrantInv ==
    phase \notin Judging =>
        /\ Range(requests) \subseteq Reached
        /\ \A n \in Name : results[n].state = "pod" =>
               /\ n \in Reached \/ GrantedFreely(n)
               /\ n \notin Circle(n)

Waits(n, i) ==
    /\ requests[i] = n
    /\ \A j \in 1..Len(requests) : i < j => requests[j] \in Under(n)
    /\ \/ results[results[n].target].state = "pod"
       \/ \E j \in 1..Len(requests) : i < j /\ requests[j] = results[n].target
AwaitInv ==
    /\ phase \in Judging => awaiting = {}
    /\ phase = "requests" =>
           \A n \in awaiting : results[n].state = "alias" => \E i \in 1..Len(requests) : Waits(n, i)

RefusalInv == phase = "refused" => failure.type \in Reached /\ failure.why \in Flaws(failure.type)

-------------------------------------------------------------------------------
(* Reading a library. *)
LEMMA DependenciesIs ==
    ASSUME NEW api \in Api
    PROVE  /\ FieldDependencies(api) \in Seq(Name)
           /\ Range(FieldDependencies(api)) =
                  {api.fields[i].of : i \in {j \in DOMAIN api.fields : HeldByValue(api.fields[j])}}
<1> DEFINE value == {field \in Range(api.fields) : HeldByValue(field)}
           held == Selected(api.fields, value)
<1>1. api.fields \in Seq(Field)
  BY DEF Api
<1>2. held \in Seq(Field) /\ Range(held) = Range(api.fields) \cap value
  BY <1>1, SelectedIs
<1>3. Range(held) = {api.fields[i] : i \in {j \in DOMAIN api.fields : HeldByValue(api.fields[j])}}
  BY <1>2 DEF Range
<1>4. FieldDependencies(api) = [i \in 1..Len(held) |-> held[i].of]
  BY DEF FieldDependencies
<1> HIDE DEF held
<1>5. \A i \in 1..Len(held) : held[i] \in Field /\ held[i].of \in Name
  <2>1. \A i \in 1..Len(held) : held[i] \in Field
    BY <1>2
  <2> QED
    BY <2>1 DEF Field
<1>6. FieldDependencies(api) \in Seq(Name)
  <2>1. Len(held) \in Nat
    BY <1>2
  <2> QED
    BY <1>4, <1>5, <2>1
<1>7. Range(FieldDependencies(api)) = {field.of : field \in Range(held)}
  <2>1. DOMAIN held = 1..Len(held)
    BY <1>2
  <2> QED
    BY <1>4, <2>1 DEF Range
<1> QED
  BY <1>3, <1>6, <1>7

LEMMA Libraries ==
    ASSUME program \in Programs
    PROVE  /\ program \in Program
           /\ Len(program.apis) \in Nat
           /\ \A p \in Places(program) : program.apis[p] \in Api
           /\ \A p \in Places(program) : Named(p) \in Name
           /\ \A p, q \in Places(program) : Named(p) = Named(q) => p = q
           /\ Apis = {program.apis[p] : p \in Places(program)}
           /\ Structs \subseteq Places(program)
<1>1. program \in Program /\ program.apis \in Seq(Api)
  BY ProgramsAssumption DEF Program
<1>2. \A p \in Places(program) : program.apis[p] \in Api
  BY <1>1 DEF Places
<1>3. \A p \in Places(program) : Named(p) \in Name
  BY <1>2 DEF Named, Api
<1>4. \A p, q \in Places(program) : Named(p) = Named(q) => p = q
  BY ProgramsAssumption DEF Named
<1>5. Apis = {program.apis[p] : p \in Places(program)}
  BY <1>1 DEF Apis, Range, Places
<1> QED
  BY <1>1, <1>2, <1>3, <1>4, <1>5 DEF Structs

LEMMA HoldingIs ==
    ASSUME program \in Programs
    PROVE  /\ \A p \in Places(program) : Holds(Named(p)) = Within(program.apis[p])
           /\ \A p \in Places(program) :
                  NamedBy(Named(p)) = IF program.apis[p].kind = "alias"
                                      THEN Within(program.apis[p]) ELSE {}
           /\ \A n \in Name : (\A p \in Places(program) : Named(p) # n) =>
                  Holds(n) = {} /\ NamedBy(n) = {}
<1>1. \A n \in Name : Holds(n) = UNION {Within(api) : api \in {a \in Apis : a.name = n}}
  BY DEF Holds, Holding, Apis
<1>2. \A n \in Name :
          NamedBy(n) = UNION {Within(api) : api \in {a \in Apis : a.name = n /\ a.kind = "alias"}}
  BY DEF NamedBy, Naming, Apis
<1>3. ASSUME NEW p \in Places(program)
      PROVE  {a \in Apis : a.name = Named(p)} = {program.apis[p]}
  BY Libraries DEF Named
<1>4. ASSUME NEW p \in Places(program)
      PROVE  Holds(Named(p)) = Within(program.apis[p])
  <2>1. Named(p) \in Name
    BY Libraries
  <2>2. Holds(Named(p)) = UNION {Within(api) : api \in {program.apis[p]}}
    BY <1>1, <1>3, <2>1
  <2> QED
    BY <2>2
<1>5. ASSUME NEW p \in Places(program)
      PROVE  {a \in Apis : a.name = Named(p) /\ a.kind = "alias"}
                 = IF program.apis[p].kind = "alias" THEN {program.apis[p]} ELSE {}
  BY Libraries DEF Named
<1>6. ASSUME NEW p \in Places(program)
      PROVE  NamedBy(Named(p)) = IF program.apis[p].kind = "alias" THEN Within(program.apis[p]) ELSE {}
  <2>1. Named(p) \in Name
    BY Libraries
  <2>2. NamedBy(Named(p)) =
            UNION {Within(api) : api \in IF program.apis[p].kind = "alias" THEN {program.apis[p]} ELSE {}}
    BY <1>2, <1>5, <2>1
  <2> QED
    BY <2>2
<1>7. ASSUME NEW n \in Name, \A p \in Places(program) : Named(p) # n
      PROVE  Holds(n) = {} /\ NamedBy(n) = {}
  <2>1. {a \in Apis : a.name = n} = {} /\ {a \in Apis : a.name = n /\ a.kind = "alias"} = {}
    BY <1>7, Libraries DEF Named
  <2> QED
    BY <1>1, <1>2, <2>1
<1> QED
  BY <1>4, <1>6, <1>7

LEMMA HoldingType ==
    ASSUME program \in Programs
    PROVE  /\ Holding(program) \in [Name -> SUBSET Name]
           /\ Naming(program) \in [Name -> SUBSET Name]
           /\ \A n \in Name : Holds(n) = Holding(program)[n] /\ NamedBy(n) = Naming(program)[n]
           /\ \A n \in Name : Holds(n) \subseteq Name /\ NamedBy(n) \subseteq Holds(n)
<1>1. \A api \in Api : Within(api) \subseteq Name
  <2>1. ASSUME NEW api \in Api PROVE Within(api) \subseteq Name
    <3>1. FieldDependencies(api) \in Seq(Name) /\ api.target \in Name
      BY DependenciesIs DEF Api
    <3>2. Range(FieldDependencies(api)) \subseteq Name
      BY <3>1 DEF Range
    <3>3. Substitute[api.target] \in Name
      BY <3>1, NamesAssumption
    <3> QED
      BY <3>2, <3>3 DEF Within
  <2> QED
    BY <2>1
<1>2. \A n \in Name : Holds(n) \subseteq Name /\ NamedBy(n) \subseteq Holds(n)
  <2>1. ASSUME NEW n \in Name PROVE Holds(n) \subseteq Name /\ NamedBy(n) \subseteq Holds(n)
    <3>1. CASE \A p \in Places(program) : Named(p) # n
      BY <3>1, HoldingIs
    <3>2. CASE \E p \in Places(program) : Named(p) = n
      BY <1>1, <3>2, HoldingIs, Libraries
    <3> QED
      BY <3>1, <3>2
  <2> QED
    BY <2>1
<1>3. /\ DOMAIN Holding(program) = Name /\ Holding(program) = [n \in Name |-> Holding(program)[n]]
      /\ DOMAIN Naming(program) = Name /\ Naming(program) = [n \in Name |-> Naming(program)[n]]
  BY DEF Holding, Naming
<1>4. \A n \in Name : Holds(n) = Holding(program)[n] /\ NamedBy(n) = Naming(program)[n]
  BY DEF Holds, NamedBy
<1> QED
  BY <1>2, <1>3, <1>4

-------------------------------------------------------------------------------
(* Reaching, by way of what is held. *)
LEMMA ResolveType ==
    ASSUME program \in Programs, NEW spelling \in Spelling
    PROVE  Resolve(spelling) \in Name
<1> DEFINE answering == {i \in 1..Len(program.apis) : spelling \in program.apis[i].spellings}
<1>1. CASE answering = {}
  <2>1. program.named \in [Spelling -> Name]
    BY Libraries DEF Program
  <2> QED
    BY <1>1, <2>1 DEF Resolve
<1>2. CASE answering # {}
  <2> DEFINE Late(n) == \A i \in answering : i <= n
             K == {n \in Nat : \E i \in answering : n <= i}
  <2>1. \E i \in answering : \A j \in answering : j <= i
    <3>1. SUFFICES ASSUME \A i \in answering : \E j \in answering : ~(j <= i) PROVE FALSE
      OBVIOUS
    <3>2. Len(program.apis) \in Nat
      BY Libraries
    <3>3. 0 \in K
      BY <1>2
    <3>4. ASSUME NEW n \in K PROVE n + 1 \in K
      <4>1. PICK i \in answering : n <= i
        OBVIOUS
      <4>2. PICK j \in answering : ~(j <= i)
        BY <3>1
      <4>3. n + 1 <= j
        BY <3>2, <4>1, <4>2
      <4> QED
        BY <4>3
    <3>5. K = Nat
      BY <3>3, <3>4, Induction
    <3> HIDE DEF K
    <3>6. Len(program.apis) + 1 \in K
      BY <3>2, <3>5
    <3> QED
      BY <3>2, <3>6 DEF K
  <2> DEFINE last == CHOOSE i \in answering : \A j \in answering : j <= i
  <2>2. last \in answering
    BY <2>1
  <2>3. last \in Places(program)
    BY <2>2 DEF Places
  <2>4. program.apis[last].name \in Name
    BY <2>3, Libraries DEF Named
  <2> QED
    BY <1>2, <2>4 DEF Resolve
<1> QED
  BY <1>1, <1>2

LEMMA UnderIs ==
    ASSUME program \in Programs, NEW n \in Name
    PROVE  /\ Holds(n) \subseteq Under(n) /\ Under(n) \subseteq Name
           /\ \A m \in Under(n) : Holds(m) \subseteq Under(n) /\ Under(m) \subseteq Under(n)
           /\ \A S \in SUBSET Name :
                  Holds(n) \subseteq S /\ (\A m \in S : Holds(m) \subseteq S) => Under(n) \subseteq S
<1>1. /\ Holding(program) \in [Name -> SUBSET Name]
      /\ \A m \in Name : Holds(m) = Holding(program)[m] /\ Holds(m) \in SUBSET Name
  BY HoldingType
<1>2. ASSUME NEW k \in Name
      PROVE  /\ Holds(k) \subseteq Under(k) /\ Under(k) \subseteq Name
             /\ \A m \in Under(k) : Holds(m) \subseteq Under(k)
             /\ \A S \in SUBSET Name :
                    Holds(k) \subseteq S /\ (\A m \in S : Holds(m) \subseteq S) => Under(k) \subseteq S
  <2>1. /\ Holds(k) \subseteq Closure(Holds(k), Holding(program))
        /\ Closure(Holds(k), Holding(program)) \in SUBSET Name
        /\ \A m \in Closure(Holds(k), Holding(program)) :
              Holding(program)[m] \subseteq Closure(Holds(k), Holding(program))
        /\ \A S \in SUBSET Name :
              Holds(k) \subseteq S /\ (\A m \in S : Holding(program)[m] \subseteq S)
                  => Closure(Holds(k), Holding(program)) \subseteq S
    BY <1>1, ClosureIsLeast
  <2> QED
    BY <1>1, <2>1 DEF Under
<1>3. ASSUME NEW m \in Under(n) PROVE Under(m) \subseteq Under(n)
  BY <1>2
<1> QED
  BY <1>2, <1>3

LEMMA FromIs ==
    ASSUME program \in Programs, NEW n \in Name
    PROVE  /\ n \in From(n) /\ From(n) \subseteq Name
           /\ \A m \in Holds(n) : From(m) \subseteq From(n)
           /\ \A S \in SUBSET Name : n \in S /\ (\A m \in S : Holds(m) \subseteq S) => From(n) \subseteq S
<1>1. /\ Holding(program) \in [Name -> SUBSET Name]
      /\ \A m \in Name : Holds(m) = Holding(program)[m] /\ Holds(m) \in SUBSET Name
  BY HoldingType
<1>2. ASSUME NEW k \in Name
      PROVE  /\ k \in From(k) /\ From(k) \subseteq Name
             /\ \A m \in From(k) : Holds(m) \subseteq From(k)
             /\ \A S \in SUBSET Name :
                    k \in S /\ (\A m \in S : Holds(m) \subseteq S) => From(k) \subseteq S
  <2>1. /\ {k} \subseteq Closure({k}, Holding(program))
        /\ Closure({k}, Holding(program)) \in SUBSET Name
        /\ \A m \in Closure({k}, Holding(program)) :
              Holding(program)[m] \subseteq Closure({k}, Holding(program))
        /\ \A S \in SUBSET Name :
              {k} \subseteq S /\ (\A m \in S : Holding(program)[m] \subseteq S)
                  => Closure({k}, Holding(program)) \subseteq S
    BY <1>1, ClosureIsLeast
  <2>2. k \in From(k) /\ From(k) \in SUBSET Name
    BY <2>1 DEF From
  <2>3. \A m \in From(k) : m \in Name /\ Holds(m) \subseteq From(k)
    BY <1>1, <2>1, <2>2 DEF From
  <2>4. ASSUME NEW S \in SUBSET Name, k \in S, \A m \in S : Holds(m) \subseteq S
        PROVE  From(k) \subseteq S
    <3>1. {k} \subseteq S /\ \A m \in S : Holding(program)[m] \subseteq S
      BY <1>1, <2>4
    <3> QED
      BY <2>1, <3>1 DEF From
  <2> QED
    BY <2>2, <2>3, <2>4
<1>3. ASSUME NEW m \in Holds(n) PROVE From(m) \subseteq From(n)
  BY <1>1, <1>2
<1> QED
  BY <1>2, <1>3

LEMMA ReachedIs ==
    ASSUME program \in Programs
    PROVE  /\ Wanted \subseteq Reached /\ Reached \subseteq Name
           /\ \A n \in Reached : Holds(n) \subseteq Reached /\ From(n) \subseteq Reached
<1>1. /\ Holding(program) \in [Name -> SUBSET Name]
      /\ \A m \in Name : Holds(m) = Holding(program)[m]
  BY HoldingType
<1>2. Wanted \in SUBSET Name
  <2>1. program.pods \in Seq(Spelling)
    BY Libraries DEF Program
  <2>2. \A i \in 1..Len(program.pods) : program.pods[i] \in Spelling
    BY <2>1
  <2> QED
    BY <2>2, ResolveType DEF Wanted
<1>3. /\ Wanted \subseteq Reached /\ Reached \in SUBSET Name
      /\ \A m \in Reached : Holding(program)[m] \subseteq Reached
  BY <1>1, <1>2, ClosureIsLeast DEF Reached
<1> QED
  BY <1>1, <1>3, FromIs

LEMMA CircleIs ==
    ASSUME program \in Programs, NEW n \in Name
    PROVE  /\ NamedBy(n) \subseteq Circle(n) /\ Circle(n) \subseteq Name
           /\ \A m \in Circle(n) : NamedBy(m) \subseteq Circle(n)
           /\ \A S \in SUBSET Name :
                  NamedBy(n) \subseteq S /\ (\A m \in S : NamedBy(m) \subseteq S) => Circle(n) \subseteq S
<1>1. /\ Naming(program) \in [Name -> SUBSET Name]
      /\ \A m \in Name : NamedBy(m) = Naming(program)[m] /\ NamedBy(m) \in SUBSET Name
  BY HoldingType
<1>2. /\ NamedBy(n) \subseteq Closure(NamedBy(n), Naming(program))
      /\ Closure(NamedBy(n), Naming(program)) \in SUBSET Name
      /\ \A m \in Closure(NamedBy(n), Naming(program)) :
            Naming(program)[m] \subseteq Closure(NamedBy(n), Naming(program))
      /\ \A S \in SUBSET Name :
            NamedBy(n) \subseteq S /\ (\A m \in S : Naming(program)[m] \subseteq S)
                => Closure(NamedBy(n), Naming(program)) \subseteq S
  BY <1>1, ClosureIsLeast
<1> QED
  BY <1>1, <1>2 DEF Circle

(* A type of which it is itself a part is a typedef, and a circle of typedefs: *)
(* a struct on the way would be part of itself.                                *)
LEMMA OnlyTypedefsCircle ==
    ASSUME program \in Programs, NothingHoldsItself, NEW n \in Name, n \in Under(n)
    PROVE  n \in Circle(n)
<1>1. \A p \in Structs : Named(p) \in Name /\ Named(p) \notin Under(Named(p))
  BY Libraries DEF NothingHoldsItself, Structs, Named, Under, Holds
<1>2. ASSUME NEW m \in Name, \A p \in Structs : Named(p) # m PROVE Holds(m) = NamedBy(m)
  <2>1. CASE \A p \in Places(program) : Named(p) # m
    BY <2>1, HoldingIs
  <2>2. ASSUME NEW p \in Places(program), Named(p) = m PROVE Holds(m) = NamedBy(m)
    <3>1. p \notin Structs
      BY <1>2, <2>2
    <3>2. program.apis[p].kind # "struct"
      BY <3>1 DEF Structs, IsStruct
    <3>3. program.apis[p].kind # "alias" => Within(program.apis[p]) = {}
      BY <3>2 DEF Within, IsStruct
    <3> QED
      BY <2>2, <3>3, HoldingIs
  <2> QED
    BY <2>1, <2>2
<1> DEFINE Part(m) == \E p \in Structs : Named(p) \in Under(n) /\ m \in Under(Named(p))
           S == Circle(n) \cup {m \in Name : Part(m)}
<1>3. Circle(n) \subseteq Under(n)
  BY UnderIs, CircleIs, HoldingType
<1>4. \A p \in Structs : Named(p) # n
  BY <1>1
<1>5. Holds(n) \subseteq S
  BY <1>2, <1>4, CircleIs
<1>6. ASSUME NEW m \in S PROVE Holds(m) \subseteq S
  <2>1. CASE Part(m)
    BY <1>1, <2>1, UnderIs, HoldingType
  <2>2. CASE m \in Circle(n) /\ \A p \in Structs : Named(p) # m
    BY <1>2, <2>2, CircleIs
  <2>3. ASSUME NEW p \in Structs, m \in Circle(n), Named(p) = m PROVE Holds(m) \subseteq S
    <3>1. Named(p) \in Under(n) /\ Holds(m) \subseteq Under(Named(p)) /\ Holds(m) \subseteq Name
      BY <1>1, <1>3, <2>3, UnderIs, HoldingType
    <3> QED
      BY <3>1
  <2> QED
    BY <2>1, <2>2, <2>3
<1>7. S \in SUBSET Name
  BY CircleIs
<1> HIDE DEF S
<1>8. Under(n) \subseteq S
  BY <1>5, <1>6, <1>7, UnderIs
<1>9. ASSUME Part(n) PROVE FALSE
  <2>1. PICK p \in Structs : Named(p) \in Under(n) /\ n \in Under(Named(p))
    BY <1>9
  <2>2. Under(n) \subseteq Under(Named(p))
    BY <1>1, <2>1, UnderIs
  <2> QED
    BY <1>1, <2>1, <2>2
<1> QED
  BY <1>8, <1>9 DEF S

LEMMA SameLibrary ==
    ASSUME program' = program
    PROVE  /\ Structs' = Structs /\ Apis' = Apis /\ Defined' = Defined
           /\ Wanted' = Wanted /\ Reached' = Reached
           /\ \A n : Holds(n)' = Holds(n) /\ NamedBy(n)' = NamedBy(n)
           /\ \A n : Under(n)' = Under(n) /\ From(n)' = From(n) /\ Circle(n)' = Circle(n)
           /\ \A n : Flaws(n)' = Flaws(n) /\ GrantedFreely(n)' = GrantedFreely(n)
           /\ \A p : Named(p)' = Named(p)
<1>1. Structs' = Structs /\ Apis' = Apis
  BY DEF Structs, Apis, Places
<1>2. Wanted' = Wanted
  BY DEF Wanted, Resolve
<1>3. Defined' = Defined
  BY <1>1 DEF Defined
<1>4. \A n : Holds(n)' = Holds(n) /\ NamedBy(n)' = NamedBy(n)
  BY DEF Holds, NamedBy
<1>5. Reached' = Reached
  BY <1>2 DEF Reached
<1>6. \A n : Under(n)' = Under(n) /\ From(n)' = From(n) /\ Circle(n)' = Circle(n)
  BY <1>4 DEF Under, From, Circle
<1>7. \A n : Flaws(n)' = Flaws(n)
  BY <1>1, <1>3, <1>4 DEF Flaws
<1>8. \A n : GrantedFreely(n)' = GrantedFreely(n)
  BY <1>1 DEF GrantedFreely
<1>9. \A p : Named(p)' = Named(p)
  BY DEF Named
<1> QED
  BY <1>1, <1>2, <1>3, <1>4, <1>5, <1>6, <1>7, <1>8, <1>9

-------------------------------------------------------------------------------
(* Types. *)
Recorded == [state : States, target : Name, deps : Seq(Name), cause : Causes]
Entry == [place : Structs, up : BOOLEAN]

LEMMA RecordType ==
    /\ \A state \in States, target \in Name, deps \in Seq(Name), cause \in Causes :
           /\ Record(state, target, deps, cause) \in Recorded
           /\ Record(state, target, deps, cause).state = state
           /\ Record(state, target, deps, cause).target = target
           /\ Record(state, target, deps, cause).deps = deps
           /\ Record(state, target, deps, cause).cause = cause
    /\ NoCause \in Causes /\ Opaque \in Name
    /\ Absent \in Recorded /\ IsPod \in Recorded
    /\ Absent.state = "absent" /\ IsPod.state = "pod"
<1>1. Opaque \in Name
  BY NamesAssumption
<1>2. NoCause \in Causes
  BY <1>1 DEF NoCause, Causes
<1>3. <<>> \in Seq(Name)
  OBVIOUS
<1>4. {"absent", "pod", "safe", "unsafe", "alias"} = States
  BY DEF States
<1>5. \A state \in States, target \in Name, deps \in Seq(Name), cause \in Causes :
           /\ Record(state, target, deps, cause) \in Recorded
           /\ Record(state, target, deps, cause).state = state
           /\ Record(state, target, deps, cause).target = target
           /\ Record(state, target, deps, cause).deps = deps
           /\ Record(state, target, deps, cause).cause = cause
  BY DEF Record, Recorded
<1>6. "absent" \in States /\ "pod" \in States
  BY <1>4
<1>7. Absent \in Recorded /\ Absent.state = "absent"
  <2>1. Absent = [state |-> "absent", target |-> Opaque, deps |-> <<>>, cause |-> NoCause]
    BY DEF Absent, Record
  <2> QED
    BY <1>1, <1>2, <1>3, <1>6, <2>1 DEF Recorded
<1>8. IsPod \in Recorded /\ IsPod.state = "pod"
  <2>1. IsPod = [state |-> "pod", target |-> Opaque, deps |-> <<>>, cause |-> NoCause]
    BY DEF IsPod, Record
  <2> QED
    BY <1>1, <1>2, <1>3, <1>6, <2>1 DEF Recorded
<1> QED
  BY <1>1, <1>2, <1>5, <1>7, <1>8

LEMMA UnsafeType ==
    ASSUME NEW n \in Name, NEW why \in {"blocklisted", "known unsafe", "complex typedef"}
    PROVE  /\ Unsafe(n, why) \in Recorded /\ Unsafe(n, why).state = "unsafe"
           /\ Unsafe(n, why).cause.type = n /\ Unsafe(n, why).cause.why = why
<1> DEFINE cause == [type |-> n, why |-> why]
<1>1. cause \in Causes /\ cause.type = n /\ cause.why = why
  BY DEF Causes
<1>2. "unsafe" \in States
  BY DEF States
<1>3. Opaque \in Name /\ Absent.deps = <<>> /\ Absent.deps \in Seq(Name)
  BY RecordType DEF Absent, Record, Recorded
<1>4. Unsafe(n, why) = Record("unsafe", Opaque, Absent.deps, cause)
  BY <1>3 DEF Unsafe
<1> HIDE DEF cause
<1>5. Unsafe(n, why) \in Recorded /\ Unsafe(n, why).state = "unsafe" /\ Unsafe(n, why).cause = cause
  <2>1. \A deps \in Seq(Name) : \A c \in Causes :
            /\ Record("unsafe", Opaque, deps, c) \in Recorded
            /\ Record("unsafe", Opaque, deps, c).state = "unsafe"
            /\ Record("unsafe", Opaque, deps, c).cause = c
    BY <1>2, <1>3 DEF Record, Recorded
  <2>2. cause \in Causes
    BY <1>1
  <2>3. Absent.deps \in Seq(Name)
    BY <1>3
  <2> QED
    BY <1>4, <2>1, <2>2, <2>3, ZenonT(60)
<1> QED
  BY <1>1, <1>5

LEMMA InitiallyType == \A blocklist : Initially(blocklist) \in [Name -> Recorded]
<1>1. \A blocklist : \A n \in Name : Initially(blocklist)[n] \in Recorded
  <2>1. SUFFICES ASSUME NEW blocklist, NEW n \in Name PROVE Initially(blocklist)[n] \in Recorded
    OBVIOUS
  <2>2. Unsafe(n, "blocklisted") \in Recorded /\ Unsafe(n, "known unsafe") \in Recorded
    BY UnsafeType
  <2> QED
    BY <2>2, RecordType DEF Initially
<1> QED
  BY <1>1 DEF Initially

LEMMA TypeFacts ==
    ASSUME TypeInv
    PROVE  /\ program \in Programs
           /\ results \in [Name -> Recorded]
           /\ stack \in Seq(Entry) /\ order \in Seq(Structs) /\ requests \in Seq(Name)
           /\ at \in Nat \ {0}
           /\ progress \in [Structs -> {"unseen", "under way", "ordered"}]
           /\ \A n \in Name : /\ results[n].state \in States /\ results[n].target \in Name
                              /\ results[n].deps \in Seq(Name) /\ results[n].cause \in Causes
<1>1. results \in [Name -> Recorded]
  BY DEF TypeInv, TypeOK, Recorded
<1>2. \A n \in Name : /\ results[n].state \in States /\ results[n].target \in Name
                      /\ results[n].deps \in Seq(Name) /\ results[n].cause \in Causes
  BY <1>1 DEF Recorded
<1> QED
  BY <1>1, <1>2 DEF TypeInv, TypeOK, Entry

LEMMA ScannedType ==
    ASSUME TypeInv, NEW api \in Api PROVE Scanned(api) \in Recorded
<1>1. api.name \in Name /\ api.target \in Name /\ Substitute[api.target] \in Name
  BY NamesAssumption DEF Api
<1>2. Unsafe(api.name, "complex typedef") \in Recorded
  BY <1>1, UnsafeType
<1>3. Record("alias", Substitute[api.target], <<>>, NoCause) \in Recorded
  <2>1. "alias" \in States
    BY DEF States
  <2>2. <<>> \in Seq(Name)
    OBVIOUS
  <2> QED
    BY <1>1, <2>1, <2>2, RecordType
<1>4. results[api.name] \in Recorded
  BY <1>1, TypeFacts
<1> QED
  BY <1>2, <1>3, <1>4, RecordType DEF Scanned

LEMMA BelowType ==
    ASSUME TypeInv, NEW p \in Structs
    PROVE  /\ Below(p) \in Seq(Entry)
           /\ \A i \in 1..Len(Below(p)) :
                  ~Below(p)[i].up /\ Named(Below(p)[i].place) \in Holds(Named(p))
           /\ \A q \in Structs :
                  Named(q) \in Holds(Named(p)) /\ progress[q] = "unseen" /\ q # p =>
                      \E i \in 1..Len(Below(p)) : Below(p)[i].place = q
<1> DEFINE api == program.apis[p]
           unseen == {n \in Name : \E q \in Positions(n) : progress[q] = "unseen" /\ q # p}
           found == Selected(FieldDependencies(api), unseen)
           place(n) == CHOOSE q \in Positions(n) : TRUE
<1>0. program \in Programs /\ api \in Api /\ p \in Places(program)
  BY TypeFacts, Libraries
<1>1. Holds(Named(p)) = Range(FieldDependencies(api)) /\ FieldDependencies(api) \in Seq(Name)
  BY <1>0, HoldingIs, DependenciesIs DEF Structs, Within
<1>2. found \in Seq(Name) /\ Range(found) = Holds(Named(p)) \cap unseen
  BY <1>1, SelectedIs
<1>3. Below(p) = [i \in 1..Len(found) |-> OnTheWay(place(found[i]), FALSE)]
  BY DEF Below
<1> HIDE DEF found
<1>4. \A n \in unseen : place(n) \in Structs /\ Named(place(n)) = n
  BY DEF Positions, Named
<1>5. \A q \in Structs : Named(q) \in unseen => place(Named(q)) = q
  BY <1>0, <1>4, Libraries
<1> HIDE DEF place
<1>6. ASSUME NEW i \in 1..Len(found)
      PROVE  /\ found[i] \in Holds(Named(p)) \cap unseen
             /\ Below(p)[i] = OnTheWay(place(found[i]), FALSE)
             /\ Below(p)[i] \in Entry /\ ~Below(p)[i].up /\ Below(p)[i].place = place(found[i])
  <2>1. found[i] \in Holds(Named(p)) \cap unseen
    BY <1>2 DEF Range
  <2>2. Below(p)[i] = OnTheWay(place(found[i]), FALSE)
    BY <1>3
  <2>3. place(found[i]) \in Structs
    BY <1>4, <2>1
  <2> QED
    BY <2>1, <2>2, <2>3 DEF OnTheWay, Entry
<1>7. Len(found) \in Nat
  BY <1>2
<1>8. Below(p) \in Seq(Entry) /\ Len(Below(p)) = Len(found)
  <2> DEFINE e(i) == OnTheWay(place(found[i]), FALSE)
  <2>1. \A i \in 1..Len(found) : e(i) \in Entry
    BY <1>6
  <2> HIDE DEF e
  <2>2. [i \in 1..Len(found) |-> e(i)] \in Seq(Entry) /\ Len([i \in 1..Len(found) |-> e(i)]) = Len(found)
    BY <1>7, <2>1
  <2> QED
    BY <1>3, <2>2 DEF e
<1>9. ASSUME NEW q \in Structs, Named(q) \in Holds(Named(p)), progress[q] = "unseen", q # p
      PROVE  \E i \in 1..Len(found) : Below(p)[i].place = q
  <2>1. Named(q) \in Name /\ q \in Positions(Named(q))
    BY <1>0, Libraries DEF Positions, Named
  <2>2. Named(q) \in unseen
    BY <1>9, <2>1
  <2>3. PICK i \in 1..Len(found) : found[i] = Named(q)
    BY <1>2, <1>9, <2>2 DEF Range
  <2> QED
    BY <1>5, <1>6, <2>2, <2>3
<1>10. \A i \in 1..Len(Below(p)) :
           ~Below(p)[i].up /\ Named(Below(p)[i].place) \in Holds(Named(p))
  BY <1>4, <1>6, <1>8, ZenonT(60)
<1> QED
  BY <1>8, <1>9, <1>10

Phases == {"scan", "order", "ingest", "requests", "refused", "analyze", "done"}
KindNames == {"none", "ignored", "enum", "opaque", "non-pod", "pod"}

LEMMA TypesKept ==
    ASSUME TypeInv, program' = program, phase' \in Phases, at' \in Nat \ {0},
           results' \in [Name -> Recorded],
           progress' \in [Structs -> {"unseen", "under way", "ordered"}],
           order' \in Seq(Structs), stack' \in Seq(Entry), requests' \in Seq(Name),
           awaiting' \subseteq Name, failure' \in Causes, kinds' \in [Name -> KindNames]
    PROVE  TypeInv'
<1>1. Structs' = Structs
  BY SameLibrary
<1>2. program \in Programs /\ program \in Program
  BY DEF TypeInv, TypeOK
<1> QED
  BY <1>1, <1>2 DEF TypeInv, TypeOK, Recorded, Entry, Phases, KindNames

LEMMA TypeRest ==
    ASSUME TypeInv
    PROVE  /\ phase \in Phases /\ awaiting \subseteq Name /\ failure \in Causes
           /\ kinds \in [Name -> KindNames]
BY DEF TypeInv, TypeOK, Phases, KindNames

(* What is recorded of a struct is a record. *)
LEMMA FieldTroubleIs ==
    ASSUME TypeInv, NEW api \in Api
    PROVE  LET bad == {n \in Range(FieldDependencies(api)) : Troubled(n)}
           IN /\ bad = {} => FieldTrouble(api) = NoCause
              /\ bad # {} =>
                     \E n \in bad :
                         FieldTrouble(api) = IF results[n].state = "absent"
                                             THEN [type |-> n, why |-> "unknown"]
                                             ELSE results[n].cause
              /\ FieldTrouble(api) \in Causes
<1> DEFINE deps == FieldDependencies(api)
           places == {i \in 1..Len(deps) : Troubled(deps[i])}
           bad == {n \in Range(deps) : Troubled(n)}
           first == deps[CHOOSE i \in places : \A j \in places : i <= j]
<1>1. deps \in Seq(Name) /\ Len(deps) \in Nat
  BY DependenciesIs
<1>2. bad = {deps[i] : i \in places}
  BY <1>1 DEF Range
<1>3. places # {} => first \in bad
  <2>1. SUFFICES ASSUME places # {} PROVE \E i \in places : \A j \in places : i <= j
    BY <1>2
  <2>2. places \subseteq Nat
    BY <1>1
  <2> HIDE DEF places
  <2>3. PICK i \in places : \A j \in places : ~(<<j, i>> \in OpToRel(<, Nat))
    BY <2>1, <2>2, NatLessThanWellFounded, WFMin
  <2>4. \A j \in places : ~(j < i)
    BY <2>2, <2>3 DEF OpToRel
  <2> QED
    BY <2>2, <2>4
<1>4. FieldTrouble(api) = IF places = {} THEN NoCause
                          ELSE IF results[first].state = "absent" THEN [type |-> first, why |-> "unknown"]
                          ELSE results[first].cause
  BY DEF FieldTrouble
<1> HIDE DEF first, places
<1>5. bad = {} <=> places = {}
  BY <1>2
<1>6. bad \subseteq Name
  BY <1>1 DEF Range
<1>7. \A n \in Name : [type |-> n, why |-> "unknown"] \in Causes /\ results[n].cause \in Causes
  <2>1. \A n \in Name : [type |-> n, why |-> "unknown"] \in Causes
    BY DEF Causes
  <2> QED
    BY <2>1, TypeFacts
<1>8. FieldTrouble(api) \in Causes
  <2>1. CASE places = {}
    BY <1>4, <2>1, RecordType
  <2>2. CASE places # {}
    BY <1>3, <1>4, <1>6, <1>7, <2>2
  <2> QED
    BY <2>1, <2>2
<1>9. bad = {} => FieldTrouble(api) = NoCause
  BY <1>4, <1>5
<1>10. bad # {} => \E n \in bad :
          FieldTrouble(api) = IF results[n].state = "absent" THEN [type |-> n, why |-> "unknown"]
                              ELSE results[n].cause
  BY <1>3, <1>4, <1>5
<1> QED
  BY <1>8, <1>9, <1>10

OwnTrouble(api, cause) ==
    \E fact \in OwnFlaws : fact \in api.facts /\ cause = [type |-> api.name, why |-> fact]

LEMMA TroubleIs ==
    ASSUME TypeInv, NEW api \in Api
    PROVE  /\ Trouble(api) \in Causes
           /\ OwnTrouble(api, Trouble(api)) \/ Trouble(api) = FieldTrouble(api)
           /\ Trouble(api) = NoCause => FieldTrouble(api) = NoCause /\ api.facts \cap OwnFlaws = {}
<1> DEFINE own(fact) == [type |-> api.name, why |-> fact]
<1>1. \A fact \in OwnFlaws : own(fact) \in Causes /\ own(fact) # NoCause
  <2>1. \A fact \in OwnFlaws : own(fact) \in Causes
    BY DEF OwnFlaws, Causes, Api
  <2>2. \A fact \in OwnFlaws : own(fact).why # "none"
    BY DEF OwnFlaws
  <2>3. NoCause.why = "none"
    BY DEF NoCause
  <2> QED
    BY <2>1, <2>2, <2>3
<1>2. Trouble(api) = IF "virtual base" \in api.facts THEN own("virtual base")
                     ELSE IF "bases as bytes" \in api.facts THEN own("bases as bytes")
                     ELSE IF "vtable" \in api.facts THEN own("vtable")
                     ELSE IF FieldTrouble(api) # NoCause THEN FieldTrouble(api)
                     ELSE IF "volatile bitfield" \in api.facts THEN own("volatile bitfield")
                     ELSE NoCause
  BY DEF Trouble
<1>3. OwnTrouble(api, Trouble(api)) <=> \E fact \in OwnFlaws : fact \in api.facts /\ Trouble(api) = own(fact)
  BY DEF OwnTrouble
<1> HIDE DEF own
<1>4. OwnFlaws = {"vtable", "virtual base", "volatile bitfield", "bases as bytes"}
  BY DEF OwnFlaws
<1>5. FieldTrouble(api) \in Causes
  BY FieldTroubleIs
<1> QED
  BY <1>1, <1>2, <1>3, <1>4, <1>5

LEMMA IngestedType ==
    ASSUME TypeInv, NEW api \in Api
    PROVE  /\ Ingested(api) \in Recorded
           /\ Ingested(api).state = IF Trouble(api) = NoCause THEN "safe" ELSE "unsafe"
           /\ Ingested(api).deps = FieldDependencies(api)
           /\ Ingested(api).cause = Trouble(api)
<1> DEFINE state == IF Trouble(api) = NoCause THEN "safe" ELSE "unsafe"
<1>1. state \in States
  BY DEF States
<1> HIDE DEF state
<1>2. Ingested(api) = Record(state, Opaque, FieldDependencies(api), Trouble(api))
  BY DEF Ingested, state
<1>3. FieldDependencies(api) \in Seq(Name) /\ Trouble(api) \in Causes /\ Opaque \in Name
  BY DependenciesIs, TroubleIs, RecordType
<1>4. /\ Record(state, Opaque, FieldDependencies(api), Trouble(api)) \in Recorded
      /\ Record(state, Opaque, FieldDependencies(api), Trouble(api)).state = state
      /\ Record(state, Opaque, FieldDependencies(api), Trouble(api)).deps = FieldDependencies(api)
      /\ Record(state, Opaque, FieldDependencies(api), Trouble(api)).cause = Trouble(api)
  BY <1>1, <1>3, RecordType
<1> QED
  BY <1>2, <1>4 DEF state

LEMMA InitTypes == Init => TypeInv
<1> SUFFICES ASSUME Init PROVE TypeInv
  OBVIOUS
<1>1. program \in Programs /\ program \in Program
  BY ProgramsAssumption DEF Init
<1>2. results \in [Name -> Recorded]
  BY InitiallyType DEF Init
<1>3. progress \in [Structs -> {"unseen", "under way", "ordered"}]
  BY DEF Init
<1>4. order \in Seq(Structs) /\ stack \in Seq(Entry) /\ requests \in Seq(Name) /\ at \in Nat \ {0}
  BY DEF Init
<1>5. phase \in Phases /\ awaiting \subseteq Name
  BY DEF Init, Phases
<1>6. failure \in Causes
  BY RecordType DEF Init
<1>7. kinds \in [Name -> KindNames]
  BY DEF Init, KindNames
<1> QED
  BY <1>1, <1>2, <1>3, <1>4, <1>5, <1>6, <1>7
  DEF TypeInv, TypeOK, Recorded, Entry, Phases, KindNames

(* A stack without its top. *)
LEMMA FrontIs ==
    ASSUME NEW S, NEW s \in Seq(S), s # <<>>
    PROVE  /\ Len(s) \in Nat /\ Len(s) > 0 /\ Len(s) \in 1..Len(s)
           /\ Last(s) = s[Len(s)] /\ Last(s) \in S
           /\ Front(s) \in Seq(S) /\ Len(Front(s)) = Len(s) - 1
           /\ \A i \in 1..(Len(s) - 1) : Front(s)[i] = s[i] /\ i \in 1..Len(s)
           /\ Range(s) = Range(Front(s)) \cup {Last(s)}
<1>1. Len(s) \in Nat /\ Len(s) > 0 /\ Len(s) \in 1..Len(s)
  OBVIOUS
<1>2. Last(s) = s[Len(s)] /\ s[Len(s)] \in S
  BY <1>1 DEF Last
<1>3. Front(s) = SubSeq(s, 1, Len(s) - 1)
  BY DEF Front
<1>4. SubSeq(s, 1, Len(s) - 1) = [i \in 1..(Len(s) - 1) |-> s[i]]
  BY <1>1
<1>5. \A i \in 1..(Len(s) - 1) : s[i] \in S /\ i \in 1..Len(s)
  BY <1>1
<1>6. Len(s) - 1 \in Nat
  BY <1>1
<1>7. Front(s) \in Seq(S) /\ Len(Front(s)) = Len(s) - 1
  <2> DEFINE k == Len(s) - 1
             t == [i \in 1..k |-> s[i]]
  <2>1. k \in Nat /\ \A i \in 1..k : s[i] \in S
    BY <1>5, <1>6
  <2>2. Front(s) = t
    BY <1>3, <1>4
  <2> HIDE DEF k
  <2>3. t \in Seq(S) /\ Len(t) = k
    BY <2>1
  <2> QED
    BY <2>2, <2>3 DEF k
<1>8. \A i \in 1..(Len(s) - 1) : Front(s)[i] = s[i] /\ i \in 1..Len(s)
  BY <1>3, <1>4, <1>5
<1>9. DOMAIN s = 1..Len(s) /\ DOMAIN Front(s) = 1..(Len(s) - 1)
  BY <1>7
<1>10. 1..Len(s) = 1..(Len(s) - 1) \cup {Len(s)}
  BY <1>1
<1>11. Range(s) = Range(Front(s)) \cup {Last(s)}
  BY <1>2, <1>8, <1>9, <1>10 DEF Range
<1> QED
  BY <1>1, <1>2, <1>7, <1>8, <1>11

(* A stack with more on top. *)
Joined(r, s, t) ==
    /\ Len(r) = Len(s) + Len(t)
    /\ \A i \in 1..Len(s) : r[i] = s[i]
    /\ \A i \in 1..Len(t) : r[Len(s) + i] = t[i]
    /\ \A i \in 1..(Len(s) + Len(t)) :
           i \in 1..Len(s) \/ \E j \in 1..Len(t) : i = Len(s) + j

LEMMA ConcatIs ==
    ASSUME NEW S, NEW s \in Seq(S), NEW t \in Seq(S)
    PROVE  /\ s \o t \in Seq(S) /\ Joined(s \o t, s, t)
           /\ Range(s \o t) = Range(s) \cup Range(t)
<1>1. Len(s) \in Nat /\ Len(t) \in Nat
  OBVIOUS
<1>2. s \o t \in Seq(S) /\ Len(s \o t) = Len(s) + Len(t)
  OBVIOUS
<1>3. \A i \in 1..Len(s) : (s \o t)[i] = s[i]
  OBVIOUS
<1>4. ASSUME NEW i \in 1..Len(t) PROVE (s \o t)[Len(s) + i] = t[i]
  <2>1. Len(s) + i \in 1..(Len(s) + Len(t)) /\ ~(Len(s) + i <= Len(s)) /\ (Len(s) + i) - Len(s) = i
    BY <1>1
  <2> QED
    BY <1>1, <2>1
<1>5. ASSUME NEW i \in 1..(Len(s) + Len(t))
      PROVE  i \in 1..Len(s) \/ \E j \in 1..Len(t) : i = Len(s) + j
  <2>1. CASE i <= Len(s)
    BY <1>1, <2>1
  <2>2. CASE ~(i <= Len(s))
    <3>1. i - Len(s) \in 1..Len(t) /\ i = Len(s) + (i - Len(s))
      BY <1>1, <2>2
    <3> QED
      BY <3>1
  <2> QED
    BY <2>1, <2>2
<1>6. /\ DOMAIN (s \o t) = 1..(Len(s) + Len(t))
      /\ DOMAIN s = 1..Len(s) /\ DOMAIN t = 1..Len(t)
  BY <1>2
<1>7. \A i \in 1..Len(s) : i \in 1..(Len(s) + Len(t))
  BY <1>1
<1>8. \A i \in 1..Len(t) : Len(s) + i \in 1..(Len(s) + Len(t))
  BY <1>1
<1>9. Range(s \o t) \subseteq Range(s) \cup Range(t)
  BY <1>3, <1>4, <1>5, <1>6, SMTT(60) DEF Range
<1>10. Range(s) \cup Range(t) \subseteq Range(s \o t)
  BY <1>3, <1>4, <1>6, <1>7, <1>8 DEF Range
<1> QED
  BY <1>2, <1>3, <1>4, <1>5, <1>9, <1>10 DEF Joined

LEMMA PushIs ==
    ASSUME NEW S, NEW s \in Seq(S), NEW e \in S
    PROVE  /\ <<e>> \in Seq(S) /\ Len(<<e>>) = 1 /\ <<e>>[1] = e
           /\ Append(s, e) \in Seq(S) /\ Len(Append(s, e)) = Len(s) + 1 /\ Len(s) \in Nat
           /\ Append(s, e)[Len(s) + 1] = e
           /\ \A i \in 1..Len(s) : Append(s, e)[i] = s[i]
           /\ Range(Append(s, e)) = Range(s) \cup {e}
<1>1. <<e>> \in Seq(S) /\ Len(<<e>>) = 1 /\ <<e>>[1] = e
  OBVIOUS
<1>2. /\ Append(s, e) \in Seq(S) /\ Len(Append(s, e)) = Len(s) + 1 /\ Len(s) \in Nat
      /\ Append(s, e)[Len(s) + 1] = e
      /\ \A i \in 1..Len(s) : Append(s, e)[i] = s[i]
  OBVIOUS
<1>3. DOMAIN Append(s, e) = 1..Len(s) \cup {Len(s) + 1} /\ DOMAIN s = 1..Len(s)
  BY <1>2
<1>4. Range(Append(s, e)) = Range(s) \cup {e}
  BY <1>2, <1>3 DEF Range
<1> QED
  BY <1>1, <1>2, <1>4

LEMMA InBounds == \A i \in Nat \ {0} : \A n \in Nat : i <= n => i \in 1..n
  OBVIOUS

LEMMA StackFacts ==
    ASSUME TypeInv, stack # <<>>
    PROVE  /\ Len(stack) \in Nat /\ Len(stack) > 0 /\ Len(stack) \in 1..Len(stack)
           /\ Last(stack) = stack[Len(stack)] /\ Last(stack) \in Entry
           /\ Last(stack).place \in Structs /\ Last(stack).up \in BOOLEAN
           /\ Front(stack) \in Seq(Entry) /\ Len(Front(stack)) = Len(stack) - 1
           /\ \A i \in 1..(Len(stack) - 1) : Front(stack)[i] = stack[i]
<1>1. stack \in Seq(Entry)
  BY TypeFacts
<1>2. Len(stack) \in Nat /\ Len(stack) > 0 /\ Len(stack) \in 1..Len(stack)
  BY <1>1
<1>3. Last(stack) = stack[Len(stack)] /\ stack[Len(stack)] \in Entry
  BY <1>1, <1>2 DEF Last
<1>4. Last(stack).place \in Structs /\ Last(stack).up \in BOOLEAN
  BY <1>3 DEF Entry
<1>5. /\ Front(stack) \in Seq(Entry) /\ Len(Front(stack)) = Len(stack) - 1
      /\ \A i \in 1..(Len(stack) - 1) : Front(stack)[i] = stack[i]
  BY <1>1, FrontIs
<1> QED
  BY <1>2, <1>3, <1>4, <1>5

LEMMA RequestsFacts ==
    ASSUME TypeInv, requests # <<>>
    PROVE  /\ Len(requests) \in Nat /\ Len(requests) > 0 /\ Len(requests) \in 1..Len(requests)
           /\ Popped = requests[Len(requests)] /\ Popped \in Name
           /\ Front(requests) \in Seq(Name) /\ Len(Front(requests)) = Len(requests) - 1
           /\ \A i \in 1..(Len(requests) - 1) : Front(requests)[i] = requests[i]
           /\ Range(requests) = Range(Front(requests)) \cup {Popped}
<1>1. requests \in Seq(Name)
  BY TypeFacts
<1> QED
  BY <1>1, FrontIs DEF Popped

LEMMA NextTypes == TypeInv /\ [Next]_vars => TypeInv'
<1> SUFFICES ASSUME TypeInv, [Next]_vars PROVE TypeInv'
  OBVIOUS
<1>t. /\ program \in Programs /\ results \in [Name -> Recorded]
      /\ stack \in Seq(Entry) /\ order \in Seq(Structs) /\ requests \in Seq(Name)
      /\ at \in Nat \ {0} /\ progress \in [Structs -> {"unseen", "under way", "ordered"}]
      /\ phase \in Phases /\ awaiting \subseteq Name /\ failure \in Causes
      /\ kinds \in [Name -> KindNames]
  BY TypeFacts, TypeRest
<1>p. /\ "order" \in Phases /\ "ingest" \in Phases /\ "requests" \in Phases
      /\ "refused" \in Phases /\ "analyze" \in Phases /\ "done" \in Phases
  BY DEF Phases
<1>0. at + 1 \in Nat \ {0} /\ 1 \in Nat \ {0}
  <2>1. at \in Nat
    BY <1>t
  <2> QED
    BY <2>1
<1>1. CASE ScanApi
  <2>1. program.apis[at] \in Api /\ Named(at) \in Name
    <3>1. at \in 1..Len(program.apis)
      BY <1>1, <1>t, Libraries, InBounds DEF ScanApi
    <3> QED
      BY <1>t, <3>1, Libraries DEF Places
  <2>2. Scanned(program.apis[at]) \in Recorded
    BY <2>1, ScannedType
  <2>3. results' \in [Name -> Recorded]
    BY <1>1, <1>t, <2>1, <2>2 DEF ScanApi, Named
  <2> QED
    BY <1>0, <1>p, <1>t, <1>1, <2>3, TypesKept DEF ScanApi
<1>2. CASE EndScan
  BY <1>0, <1>p, <1>t, <1>2, TypesKept DEF EndScan
<1>3. CASE NextRoot
  <2>1. stack' \in Seq(Entry)
    <3>1. at \in Structs => OnTheWay(at, FALSE) \in Entry
      BY DEF OnTheWay, Entry
    <3>2. <<>> \in Seq(Entry)
      OBVIOUS
    <3>3. ASSUME NEW e \in Entry PROVE <<e>> \in Seq(Entry)
      OBVIOUS
    <3>4. stack' = IF at \in Structs /\ progress[at] = "unseen" THEN <<OnTheWay(at, FALSE)>> ELSE <<>>
      BY <1>3 DEF NextRoot
    <3> QED
      BY <3>1, <3>2, <3>3, <3>4
  <2> QED
    BY <1>0, <1>p, <1>t, <1>3, <2>1, TypesKept DEF NextRoot
<1>4. CASE GoDown
  <2> DEFINE p == Last(stack).place
  <2>1. p \in Structs /\ Front(stack) \in Seq(Entry) /\ stack # <<>>
    BY <1>4, StackFacts DEF GoDown
  <2>2. Below(p) \in Seq(Entry)
    BY <2>1, BelowType
  <2>3. <<OnTheWay(p, TRUE)>> \in Seq(Entry)
    <3>1. OnTheWay(p, TRUE) \in Entry
      BY <2>1 DEF OnTheWay, Entry
    <3> QED
      BY <1>t, <3>1, PushIs
  <2>4. stack' = Front(stack) \o <<OnTheWay(p, TRUE)>> \o Below(p)
    BY <1>4 DEF GoDown
  <2>5. stack' \in Seq(Entry)
    <3>1. Front(stack) \o <<OnTheWay(p, TRUE)>> \in Seq(Entry)
      BY <2>1, <2>3, ConcatIs
    <3> QED
      BY <2>2, <2>4, <3>1, ConcatIs
  <2>6. progress' \in [Structs -> {"unseen", "under way", "ordered"}]
    BY <1>4, <1>t, <2>1 DEF GoDown
  <2> QED
    BY <1>0, <1>p, <1>t, <1>4, <2>5, <2>6, TypesKept DEF GoDown
<1>5. CASE PassOver
  BY <1>0, <1>p, <1>t, <1>5, StackFacts, TypesKept DEF PassOver
<1>6. CASE ComeBackUp
  <2>1. Last(stack).place \in Structs /\ Front(stack) \in Seq(Entry)
    BY <1>6, StackFacts DEF ComeBackUp
  <2>a. order' \in Seq(Structs)
    BY <1>6, <1>t, <2>1, PushIs DEF ComeBackUp
  <2>b. progress' \in [Structs -> {"unseen", "under way", "ordered"}]
    BY <1>6, <1>t, <2>1 DEF ComeBackUp
  <2>2. order' \in Seq(Structs) /\ progress' \in [Structs -> {"unseen", "under way", "ordered"}]
    BY <2>a, <2>b
  <2> QED
    BY <1>0, <1>p, <1>t, <1>6, <2>1, <2>2, TypesKept DEF ComeBackUp
<1>7. CASE EndOrder
  BY <1>0, <1>p, <1>t, <1>7, TypesKept DEF EndOrder
<1>8. CASE IngestStruct
  <2>1. order[at] \in Structs
    <3>0. order \in Seq(Structs)
      BY <1>t
    <3>1. Len(order) \in Nat /\ \A i \in 1..Len(order) : order[i] \in Structs
      BY <3>0
    <3>2. at \in 1..Len(order)
      BY <1>8, <1>t, <3>1, InBounds DEF IngestStruct
    <3> QED
      BY <3>1, <3>2
  <2>2. program.apis[order[at]] \in Api /\ Named(order[at]) \in Name
    BY <1>t, <2>1, Libraries
  <2>3. Ingested(program.apis[order[at]]) \in Recorded
    BY <2>2, IngestedType
  <2>4. results' \in [Name -> Recorded]
    BY <1>8, <1>t, <2>2, <2>3 DEF IngestStruct, Named
  <2> QED
    BY <1>0, <1>p, <1>t, <1>8, <2>4, TypesKept DEF IngestStruct
<1>9. CASE EndIngest
  <2>1. program.pods \in Seq(Spelling)
    BY <1>t, Libraries DEF Program
  <2>2. \A i \in 1..Len(program.pods) : Resolve(program.pods[i]) \in Name
    <3>1. \A i \in 1..Len(program.pods) : program.pods[i] \in Spelling
      BY <2>1
    <3> QED
      BY <1>t, <3>1, ResolveType
  <2>3. requests' \in Seq(Name)
    <3>1. Len(program.pods) \in Nat
      BY <2>1
    <3>2. requests' = [i \in 1..Len(program.pods) |-> Resolve(program.pods[i])]
      BY <1>9 DEF EndIngest
    <3> QED
      BY <2>2, <3>1, <3>2
  <2> QED
    BY <1>0, <1>p, <1>t, <1>9, <2>3, TypesKept DEF EndIngest
<1>10. CASE RefuseUnknown \/ RefuseUnsafe \/ RefuseCircle \/ RefuseUnknownTarget
  <2>1. Popped \in Name
    BY <1>10, RequestsFacts
    DEF RefuseUnknown, RefuseUnsafe, RefuseCircle, RefuseUnknownTarget, Popping
  <2>2. \A n \in Name : \A why \in {"unknown", "circular"} : [type |-> n, why |-> why] \in Causes
    BY DEF Causes
  <2>3. PICK cause \in Causes : Refuse(cause)
    <3>1. results[Popped].cause \in Causes /\ results[Popped].target \in Name
      BY <2>1, TypeFacts
    <3> QED
      BY <1>10, <2>1, <2>2, <3>1 DEF RefuseUnknown, RefuseUnsafe, RefuseCircle, RefuseUnknownTarget
  <2> QED
    BY <1>0, <1>p, <1>t, <2>3, TypesKept DEF Refuse
<1>11. CASE AlreadyPod
  <2>1. Front(requests) \in Seq(Name)
    BY <1>11, RequestsFacts DEF AlreadyPod, Popping
  <2> QED
    BY <1>0, <1>p, <1>t, <1>11, <2>1, TypesKept DEF AlreadyPod
<1>12. CASE MakePod
  <2>1. Popped \in Name /\ Front(requests) \in Seq(Name)
    BY <1>12, RequestsFacts DEF MakePod, Popping
  <2>2. requests' \in Seq(Name)
    <3>1. results[Popped].deps \in Seq(Name)
      BY <2>1, TypeFacts
    <3>2. requests' = Front(requests) \o results[Popped].deps
      BY <1>12 DEF MakePod
    <3> QED
      BY <2>1, <3>1, <3>2, ConcatIs
  <2>3. [results[Popped] EXCEPT !.state = "pod"] \in Recorded
    <3>1. "pod" \in States /\ results[Popped] \in Recorded
      BY <1>t, <2>1 DEF States
    <3> QED
      BY <3>1 DEF Recorded
  <2>4. results' \in [Name -> Recorded]
    <3>1. results' = [results EXCEPT ![Popped] = [results[Popped] EXCEPT !.state = "pod"]]
      BY <1>12 DEF MakePod
    <3> QED
      BY <1>t, <2>1, <2>3, <3>1
  <2> QED
    BY <1>0, <1>p, <1>t, <1>12, <2>2, <2>4, TypesKept DEF MakePod
<1>13. CASE AdoptTarget
  <2>1. Popped \in Name
    BY <1>13, RequestsFacts DEF AdoptTarget, Popping
  <2>2. Aim.state \in States /\ Aim.cause \in Causes /\ results[Popped].target \in Name
    BY <2>1, TypeFacts DEF Aim
  <2>3. <<>> \in Seq(Name)
    OBVIOUS
  <2>4. Record(Aim.state, results[Popped].target, <<>>, Aim.cause) \in Recorded
    BY <2>2, <2>3, RecordType
  <2>5. results' \in [Name -> Recorded]
    BY <1>13, <1>t, <2>1, <2>4 DEF AdoptTarget
  <2> QED
    BY <1>0, <1>p, <1>t, <1>13, <2>5, TypesKept DEF AdoptTarget
<1>14. CASE AwaitTarget
  <2>1. Popped \in Name /\ results[Popped].target \in Name
    BY <1>14, RequestsFacts, TypeFacts DEF AwaitTarget, Popping
  <2>2. requests' \in Seq(Name) /\ awaiting' \subseteq Name
    BY <1>14, <1>t, <2>1, PushIs DEF AwaitTarget
  <2> QED
    BY <1>0, <1>p, <1>t, <1>14, <2>2, TypesKept DEF AwaitTarget
<1>15. CASE EndRequests
  BY <1>0, <1>p, <1>t, <1>15, TypesKept DEF EndRequests
<1>16. CASE AnalyzeApi
  <2>1. program.apis[at] \in Api /\ program.apis[at].name \in Name
    <3>1. at \in 1..Len(program.apis)
      BY <1>16, <1>t, Libraries, InBounds DEF AnalyzeApi
    <3> QED
      BY <1>t, <3>1, Libraries DEF Places, Named
  <2>2. KindOf(program.apis[at]) \in KindNames
    BY <1>t, <2>1 DEF KindOf, KindNames
  <2>3. kinds' \in [Name -> KindNames]
    BY <1>16, <1>t, <2>1, <2>2 DEF AnalyzeApi
  <2> QED
    BY <1>0, <1>p, <1>t, <1>16, <2>3, TypesKept DEF AnalyzeApi
<1>17. CASE EndAnalyze
  BY <1>0, <1>p, <1>t, <1>17, TypesKept DEF EndAnalyze
<1>18. CASE UNCHANGED vars
  BY <1>0, <1>p, <1>t, <1>18, TypesKept DEF vars
<1> QED
  BY <1>1, <1>2, <1>3, <1>4, <1>5, <1>6, <1>7, <1>8, <1>9, <1>10, <1>11, <1>12, <1>13, <1>14,
     <1>15, <1>16, <1>17, <1>18 DEF Next

(* Every variable of ByValueChecker and of its loops keeps its type. *)
THEOREM TypeCorrect == Spec => []TypeOK
<1>1. TypeInv => TypeOK
  BY DEF TypeInv
<1> QED
  BY InitTypes, NextTypes, <1>1, PTL DEF Spec

-------------------------------------------------------------------------------
(* The walk over the structs.  What a step does to its stack. *)
LEMMA GoDownIs ==
    ASSUME TypeInv, GoDown
    PROVE  LET n == Len(stack)
               p == stack[n].place
           IN /\ n \in Nat /\ n > 0 /\ n \in 1..n /\ p \in Structs
              /\ ~stack[n].up /\ progress[p] = "unseen"
              /\ progress' = [progress EXCEPT ![p] = "under way"]
              /\ Len(stack') \in Nat /\ n <= Len(stack')
              /\ \A i \in 1..(n - 1) : stack'[i] = stack[i]
              /\ stack'[n] = OnTheWay(p, TRUE)
              /\ \A i \in 1..Len(stack') :
                     i > n => ~stack'[i].up /\ Named(stack'[i].place) \in Holds(Named(p))
              /\ \A q \in Structs :
                     Named(q) \in Holds(Named(p)) /\ progress[q] = "unseen" /\ q # p =>
                         \E i \in 1..Len(stack') : n < i /\ stack'[i].place = q
<1> DEFINE n == Len(stack)
           p == stack[n].place
           f == Front(stack)
           e == <<OnTheWay(p, TRUE)>>
           b == Below(p)
<1>1. stack # <<>>
  BY DEF GoDown
<1>2. /\ n \in Nat /\ n > 0 /\ n \in 1..n /\ Last(stack) = stack[n] /\ p \in Structs
      /\ f \in Seq(Entry) /\ Len(f) = n - 1 /\ \A i \in 1..(n - 1) : f[i] = stack[i]
  BY <1>1, StackFacts
<1>3. ~stack[n].up /\ progress[p] = "unseen" /\ progress' = [progress EXCEPT ![p] = "under way"]
  BY <1>2 DEF GoDown
<1>4. stack' = f \o e \o b
  BY <1>2 DEF GoDown
<1>5. /\ b \in Seq(Entry)
      /\ \A i \in 1..Len(b) : ~b[i].up /\ Named(b[i].place) \in Holds(Named(p))
      /\ \A q \in Structs :
             Named(q) \in Holds(Named(p)) /\ progress[q] = "unseen" /\ q # p =>
                 \E i \in 1..Len(b) : b[i].place = q
  BY <1>2, BelowType
<1>6. e \in Seq(Entry) /\ Len(e) = 1 /\ e[1] = OnTheWay(p, TRUE)
  <2>1. OnTheWay(p, TRUE) \in Entry
    BY <1>2 DEF OnTheWay, Entry
  <2> QED
    BY <1>2, <2>1, PushIs
<1> HIDE DEF n, p, f, e, b
<1>7. /\ f \o e \in Seq(Entry) /\ Len(f \o e) = n
      /\ \A i \in 1..(n - 1) : (f \o e)[i] = f[i]
      /\ (f \o e)[n] = OnTheWay(p, TRUE)
  <2>1. /\ f \o e \in Seq(Entry) /\ Len(f \o e) = Len(f) + Len(e)
        /\ \A i \in 1..Len(f) : (f \o e)[i] = f[i]
        /\ \A i \in 1..Len(e) : (f \o e)[Len(f) + i] = e[i]
    <3>1. f \in Seq(Entry) /\ e \in Seq(Entry)
      BY <1>2, <1>6
    <3>2. f \o e \in Seq(Entry) /\ Joined(f \o e, f, e)
      BY <3>1, ConcatIs
    <3> DEFINE r == f \o e
    <3>3. r \in Seq(Entry) /\ Joined(r, f, e)
      BY <3>2
    <3> HIDE DEF r
    <3>4. /\ r \in Seq(Entry) /\ Len(r) = Len(f) + Len(e)
          /\ \A i \in 1..Len(f) : r[i] = f[i]
          /\ \A i \in 1..Len(e) : r[Len(f) + i] = e[i]
      BY <3>3 DEF Joined
    <3> QED
      BY <3>4 DEF r
  <2>2. Len(f) + Len(e) = n /\ 1 \in 1..Len(e) /\ Len(f) + 1 = n
    <3>1. Len(f) = n - 1 /\ Len(e) = 1 /\ n \in Nat
      BY <1>2, <1>6
    <3> QED
      BY <3>1
  <2>3. (f \o e)[n] = OnTheWay(p, TRUE)
    <3>1. (f \o e)[Len(f) + 1] = e[1] /\ e[1] = OnTheWay(p, TRUE)
      BY <1>6, <2>1, <2>2
    <3> QED
      BY <2>2, <3>1
  <2> QED
    BY <1>2, <2>1, <2>2, <2>3
<1>8. /\ Len(stack') = n + Len(b) /\ Len(b) \in Nat
      /\ \A i \in 1..n : stack'[i] = (f \o e)[i]
      /\ \A i \in 1..Len(b) : stack'[n + i] = b[i]
      /\ \A i \in 1..(n + Len(b)) : i \in 1..n \/ \E j \in 1..Len(b) : i = n + j
  <2> DEFINE g == f \o e
  <2>1. g \in Seq(Entry) /\ b \in Seq(Entry) /\ Len(g) = n /\ stack' = g \o b
    BY <1>4, <1>5, <1>7
  <2> HIDE DEF g
  <2>2. Len(b) \in Nat
    BY <2>1
  <2>3. Joined(stack', g, b)
    <3>1. g \in Seq(Entry) /\ b \in Seq(Entry)
      BY <2>1
    <3>2. Joined(g \o b, g, b)
      BY <3>1, ConcatIs
    <3> QED
      BY <2>1, <3>2
  <2>4. /\ Len(stack') = n + Len(b)
        /\ \A i \in 1..n : stack'[i] = g[i]
        /\ \A i \in 1..Len(b) : stack'[n + i] = b[i]
        /\ \A i \in 1..(n + Len(b)) : i \in 1..n \/ \E j \in 1..Len(b) : i = n + j
    <3>1. Len(g) = n
      BY <2>1
    <3> QED
      BY <2>3, <3>1 DEF Joined
  <2> QED
    BY <2>2, <2>4 DEF g
<1>9. Len(stack') \in Nat /\ n <= Len(stack')
  BY <1>2, <1>8
<1>10. \A i \in 1..(n - 1) : stack'[i] = stack[i]
  <2>1. \A i \in 1..(n - 1) : i \in 1..n
    BY <1>2
  <2> QED
    BY <1>2, <1>7, <1>8, <2>1
<1>11. stack'[n] = OnTheWay(p, TRUE)
  BY <1>2, <1>7, <1>8
<1>12. ASSUME NEW i \in 1..Len(stack'), i > n
       PROVE  ~stack'[i].up /\ Named(stack'[i].place) \in Holds(Named(p))
  <2>1. i \notin 1..n
    BY <1>2, <1>12
  <2>2. PICK j \in 1..Len(b) : i = n + j
    BY <1>8, <2>1
  <2> QED
    BY <1>5, <1>8, <2>2
<1>13. ASSUME NEW q \in Structs, Named(q) \in Holds(Named(p)), progress[q] = "unseen", q # p
       PROVE  \E i \in 1..Len(stack') : n < i /\ stack'[i].place = q
  <2>1. PICK j \in 1..Len(b) : b[j].place = q
    BY <1>5, <1>13
  <2>2. n + j \in 1..Len(stack') /\ n < n + j /\ stack'[n + j] = b[j]
    BY <1>2, <1>8
  <2> QED
    BY <2>1, <2>2
<1> QED
  BY <1>2, <1>3, <1>9, <1>10, <1>11, <1>12, <1>13 DEF n, p

LEMMA PopIs ==
    ASSUME TypeInv, stack # <<>>, stack' = Front(stack)
    PROVE  LET n == Len(stack)
           IN /\ n \in Nat /\ n > 0 /\ n \in 1..n /\ stack[n].place \in Structs
              /\ Last(stack) = stack[n]
              /\ Len(stack') = n - 1 /\ n - 1 \in Nat
              /\ \A i \in 1..(n - 1) : stack'[i] = stack[i] /\ i \in 1..n
              /\ \A i \in 1..n : i \in 1..(n - 1) \/ i = n
<1> DEFINE n == Len(stack)
<1>1. /\ n \in Nat /\ n > 0 /\ n \in 1..n /\ stack[n].place \in Structs /\ Last(stack) = stack[n]
      /\ Len(stack') = n - 1 /\ \A i \in 1..(n - 1) : stack'[i] = stack[i]
  BY StackFacts
<1> HIDE DEF n
<1>2. /\ n - 1 \in Nat /\ \A i \in 1..(n - 1) : i \in 1..n
      /\ \A i \in 1..n : i \in 1..(n - 1) \/ i = n
  BY <1>1
<1> QED
  BY <1>1, <1>2 DEF n

LEMMA ProgramStays == [Next]_vars => program' = program
  BY DEF Next, vars, ScanApi, EndScan, NextRoot, GoDown, PassOver, ComeBackUp, EndOrder,
     IngestStruct, EndIngest, RefuseUnknown, RefuseUnsafe, AlreadyPod, MakePod, AdoptTarget,
     AwaitTarget, RefuseCircle, RefuseUnknownTarget, EndRequests, AnalyzeApi, EndAnalyze, Refuse

(* Steps which have nothing to do with the walk. *)
Elsewhere ==
    \/ UNCHANGED vars
    \/ /\ UNCHANGED <<program, order, progress, stack>>
       /\ phase # "order" /\ phase' # "order" /\ (phase = "scan" <=> phase' = "scan")

LEMMA WhereAStepIs ==
    [Next]_vars =>
        \/ Elsewhere
        \/ EndScan \/ NextRoot \/ GoDown \/ PassOver \/ ComeBackUp \/ EndOrder
<1> SUFFICES ASSUME [Next]_vars PROVE Elsewhere \/ EndScan \/ NextRoot \/ GoDown \/ PassOver
                                      \/ ComeBackUp \/ EndOrder
  OBVIOUS
<1>1. CASE UNCHANGED vars
  BY <1>1 DEF Elsewhere
<1>2. CASE ScanApi \/ IngestStruct \/ EndIngest
  BY <1>2 DEF Elsewhere, ScanApi, IngestStruct, EndIngest
<1>3. CASE RefuseUnknown \/ RefuseUnsafe \/ RefuseCircle \/ RefuseUnknownTarget
  BY <1>3 DEF Elsewhere, RefuseUnknown, RefuseUnsafe, RefuseCircle, RefuseUnknownTarget, Refuse,
              Popping
<1>4. CASE AlreadyPod \/ MakePod \/ AdoptTarget \/ AwaitTarget
  BY <1>4 DEF Elsewhere, AlreadyPod, MakePod, AdoptTarget, AwaitTarget, Popping
<1>5. CASE EndRequests \/ AnalyzeApi \/ EndAnalyze
  BY <1>5 DEF Elsewhere, EndRequests, AnalyzeApi, EndAnalyze
<1> QED
  BY <1>1, <1>2, <1>3, <1>4, <1>5 DEF Next

LEMMA InitWalk == Init => WalkInv
<1> SUFFICES ASSUME Init PROVE WalkInv
  OBVIOUS
<1>1. Len(stack) = 0 /\ order = <<>> /\ phase = "scan" /\ progress = [p \in Structs |-> "unseen"]
      /\ stack = <<>>
  BY DEF Init
<1>2. Entries = {} /\ Range(order) = {}
  BY <1>1 DEF Entries, Range
<1>3. "scan" # "order" /\ "unseen" # "under way" /\ "unseen" # "ordered"
  OBVIOUS
<1> QED
  BY <1>1, <1>2, <1>3
  DEF WalkInv, StackInv, StartInv, UnderWayInv, OnceInv, OrderedInv, RootsInv, AllOrdered

LEMMA NextWalk == TypeInv /\ WalkInv /\ [Next]_vars => WalkInv'
<1> SUFFICES ASSUME TypeInv, WalkInv, [Next]_vars PROVE WalkInv'
  OBVIOUS
<1>t. /\ program \in Programs /\ Len(program.apis) \in Nat /\ Structs \subseteq 1..Len(program.apis)
      /\ progress \in [Structs -> {"unseen", "under way", "ordered"}] /\ at \in Nat
      /\ order \in Seq(Structs) /\ stack \in Seq(Entry)
  BY TypeFacts, Libraries DEF Places
<1>n. /\ Len(program.apis) \in Nat /\ at \in Nat
      /\ \A q \in Structs : q \in Nat /\ q >= 1 /\ q <= Len(program.apis)
  <2>1. Len(program.apis) \in Nat /\ at \in Nat /\ Structs \subseteq 1..Len(program.apis)
    BY <1>t
  <2> QED
    BY <2>1
<1>v. \A q \in Structs : progress[q] \in {"unseen", "under way", "ordered"}
  BY <1>t
<1>s. program' = program /\ Structs' = Structs
  BY SameLibrary, ProgramStays
<1> DEFINE n == Len(stack)
           p == stack[n].place
<1>1. CASE Elsewhere
  <2>1. CASE UNCHANGED vars
    <3>1. UNCHANGED <<phase, at, order, progress, stack>> /\ Entries' = Entries
      BY <2>1 DEF vars, Entries
    <3>2. StackInv' /\ StartInv' /\ RootsInv' /\ AllOrdered'
      BY <1>s, <3>1 DEF WalkInv, StackInv, StartInv, RootsInv, AllOrdered
    <3>3. UnderWayInv' /\ OnceInv' /\ OrderedInv'
      BY <1>s, <3>1 DEF WalkInv, UnderWayInv, OnceInv, OrderedInv
    <3> QED
      BY <3>2, <3>3 DEF WalkInv
  <2>2. CASE /\ UNCHANGED <<program, order, progress, stack>>
             /\ phase # "order" /\ phase' # "order" /\ (phase = "scan" <=> phase' = "scan")
    <3>1. UNCHANGED <<order, progress, stack>> /\ Entries' = Entries
      BY <2>2 DEF Entries
    <3>2. StackInv' /\ StartInv' /\ RootsInv' /\ AllOrdered'
      BY <1>s, <2>2, <3>1 DEF WalkInv, StackInv, StartInv, RootsInv, AllOrdered
    <3>3. UnderWayInv' /\ OnceInv' /\ OrderedInv'
      BY <1>s, <3>1 DEF WalkInv, UnderWayInv, OnceInv, OrderedInv
    <3> QED
      BY <3>2, <3>3 DEF WalkInv
  <2> QED
    BY <1>1, <2>1, <2>2 DEF Elsewhere
<1>2. CASE EndScan
  <2>1. phase = "scan" /\ phase' = "order" /\ at' = 1 /\ UNCHANGED <<order, progress, stack>>
    BY <1>2 DEF EndScan
  <2>2. \A q \in Structs : ~(q < at')
    <3>1. at' = 1
      BY <2>1
    <3> QED
      BY <1>n, <3>1
  <2>3. Entries' = Entries /\ UNCHANGED <<order, progress, stack>>
    BY <2>1 DEF Entries
  <2>4. StackInv' /\ StartInv' /\ AllOrdered'
    BY <2>1 DEF WalkInv, StackInv, StartInv, AllOrdered
  <2>5. RootsInv'
    BY <1>s, <2>2 DEF RootsInv
  <2>6. UnderWayInv' /\ OnceInv' /\ OrderedInv'
    BY <1>s, <2>3 DEF WalkInv, UnderWayInv, OnceInv, OrderedInv
  <2> QED
    BY <2>4, <2>5, <2>6 DEF WalkInv
<1>3. CASE NextRoot
  <2> DEFINE e == OnTheWay(at, FALSE)
  <2>1. /\ phase = "order" /\ phase' = "order" /\ stack = <<>> /\ at' = at + 1
        /\ UNCHANGED <<order, progress>>
        /\ stack' = IF at \in Structs /\ progress[at] = "unseen" THEN <<e>> ELSE <<>>
    BY <1>3 DEF NextRoot
  <2>2. Entries = {}
    BY <2>1 DEF Entries
  <2>3. e.place = at /\ ~e.up
    BY DEF OnTheWay
  <2> HIDE DEF e
  <2>4. \A i \in Entries' : at \in Structs /\ progress[at] = "unseen" /\ i = 1 /\ stack'[i] = e
    BY <2>1 DEF Entries
  <2>5. at \in Structs /\ progress[at] = "unseen" => 1 \in Entries' /\ stack'[1] = e
    BY <2>1 DEF Entries
  <2>6. StackInv' /\ StartInv' /\ AllOrdered'
    BY <2>1 DEF StackInv, StartInv, AllOrdered
  <2>7. UnderWayInv' /\ OnceInv'
    BY <1>s, <2>1, <2>2, <2>3, <2>4 DEF WalkInv, UnderWayInv, OnceInv
  <2>8. OrderedInv'
    BY <1>s, <2>1 DEF WalkInv, OrderedInv
  <2>9. RootsInv'
    <3>1. SUFFICES ASSUME NEW q \in Structs, q < at + 1, progress[q] = "unseen"
                   PROVE  \E i \in Entries' : stack'[i].place = q
      BY <1>s, <2>1 DEF RootsInv
    <3>2. CASE q < at
      BY <2>1, <2>2, <3>1, <3>2 DEF WalkInv, RootsInv
    <3>3. CASE q = at
      BY <2>3, <2>5, <3>1, <3>3
    <3>4. q < at \/ q = at
      BY <1>n, <3>1
    <3> QED
      BY <3>2, <3>3, <3>4
  <2> QED
    BY <2>6, <2>7, <2>8, <2>9 DEF WalkInv
<1>4. CASE GoDown
  <2>1. phase = "order" /\ phase' = "order" /\ UNCHANGED <<order, at>>
    BY <1>4 DEF GoDown
  <2>2. /\ n \in Nat /\ n > 0 /\ n \in 1..n /\ p \in Structs
        /\ ~stack[n].up /\ progress[p] = "unseen"
        /\ progress' = [progress EXCEPT ![p] = "under way"]
        /\ Len(stack') \in Nat /\ n <= Len(stack')
        /\ \A i \in 1..(n - 1) : stack'[i] = stack[i]
        /\ stack'[n] = OnTheWay(p, TRUE)
        /\ \A i \in 1..Len(stack') : i > n => ~stack'[i].up
    BY <1>4, GoDownIs
  <2>3. stack'[n].place = p /\ stack'[n].up
    <3>1. stack'[n] = OnTheWay(p, TRUE)
      BY <2>2
    <3> QED
      BY <3>1 DEF OnTheWay
  <2>e. Entries = 1..n
    BY DEF Entries
  <2> HIDE DEF n, p
  <2>4. /\ \A i \in Entries : i \in 1..(n - 1) \/ i = n
        /\ n \in Entries'
        /\ \A i \in 1..(n - 1) : i \in Entries' /\ i \in Entries /\ i # n
        /\ \A i \in Entries' : stack'[i].up => i \in 1..(n - 1) \/ i = n
    <3>1. Entries' = 1..Len(stack')
      BY DEF Entries
    <3>2. /\ n \in Nat /\ n > 0 /\ Len(stack') \in Nat /\ n <= Len(stack')
          /\ \A i \in 1..Len(stack') : i > n => ~stack'[i].up
      BY <2>2
    <3>3. /\ \A i \in 1..n : i \in 1..(n - 1) \/ i = n
          /\ n \in 1..Len(stack')
          /\ \A i \in 1..(n - 1) : i \in 1..Len(stack') /\ i \in 1..n /\ i # n
          /\ \A i \in 1..Len(stack') : i > n \/ i \in 1..(n - 1) \/ i = n
      BY <3>2
    <3> QED
      BY <2>e, <3>1, <3>2, <3>3
  <2>k. stack[n].place = p
    BY DEF p
  <2>b. /\ ~stack[n].up /\ p \in Structs /\ progress[p] = "unseen"
        /\ \A i \in 1..(n - 1) : stack'[i] = stack[i]
    BY <2>2
  <2>5. \A q \in Structs : progress'[q] = IF q = p THEN "under way" ELSE progress[q]
    BY <1>t, <2>2
  <2>6. StackInv' /\ StartInv' /\ AllOrdered'
    BY <2>1 DEF StackInv, StartInv, AllOrdered
  <2>7. UnderWayInv'
    <3>1. ASSUME NEW q \in Structs
          PROVE  progress'[q] = "under way" <=> \E i \in Entries' : stack'[i].up /\ stack'[i].place = q
      <4>1. CASE q = p
        BY <2>3, <2>4, <2>5, <4>1
      <4>2. CASE q # p
        <5>1. progress[q] = "under way" <=> \E i \in Entries : stack[i].up /\ stack[i].place = q
          BY DEF WalkInv, UnderWayInv
        <5>2. progress'[q] = progress[q]
          BY <2>5, <4>2
        <5>3. ASSUME NEW i \in Entries, stack[i].up, stack[i].place = q
              PROVE  \E j \in Entries' : stack'[j].up /\ stack'[j].place = q
          BY <2>b, <2>4, <5>3
        <5>4. ASSUME NEW i \in Entries', stack'[i].up, stack'[i].place = q
              PROVE  \E j \in Entries : stack[j].up /\ stack[j].place = q
          BY <2>b, <2>3, <2>4, <4>2, <5>4
        <5> QED
          BY <5>1, <5>2, <5>3, <5>4
      <4> QED
        BY <4>1, <4>2
    <3> QED
      BY <1>s, <3>1 DEF UnderWayInv
  <2>8. OnceInv'
    <3>1. ASSUME NEW i \in 1..(n - 1), stack[i].up, stack[i].place = p PROVE FALSE
      <4>1. progress[p] = "under way"
        BY <2>b, <2>4, <3>1 DEF WalkInv, UnderWayInv
      <4> QED
        BY <2>b, <4>1
    <3>2. ASSUME NEW i \in Entries', NEW j \in Entries', stack'[i].up, stack'[j].up,
                 stack'[i].place = stack'[j].place
          PROVE  i = j
      <4>1. (i \in 1..(n - 1) \/ i = n) /\ (j \in 1..(n - 1) \/ j = n)
        BY <2>4, <3>2
      <4>2. \A k, l \in 1..(n - 1) :
                stack[k].up /\ stack[l].up /\ stack[k].place = stack[l].place => k = l
        BY <2>4 DEF WalkInv, OnceInv
      <4> QED
        BY <2>b, <2>3, <3>1, <3>2, <4>1, <4>2
    <3> QED
      BY <3>2 DEF OnceInv
  <2>9. OrderedInv'
    <3>1. order' = order
      BY <2>1
    <3>2. \A q \in Structs : progress'[q] = "ordered" <=> progress[q] = "ordered"
      BY <2>b, <2>5
    <3> QED
      BY <1>s, <3>1, <3>2 DEF WalkInv, OrderedInv
  <2>10. RootsInv'
    <3>1. ASSUME NEW q \in Structs, q < at
          PROVE  progress'[q] # "unseen" \/ \E i \in Entries' : stack'[i].place = q
      <4>1. CASE q = p
        BY <2>3, <2>4, <4>1
      <4>2. CASE q # p
        <5>1. progress[q] # "unseen" \/ \E i \in Entries : stack[i].place = q
          BY <2>1, <3>1 DEF WalkInv, RootsInv
        <5> QED
          BY <2>b, <2>k, <2>4, <2>5, <4>2, <5>1
      <4> QED
        BY <4>1, <4>2
    <3> QED
      BY <1>s, <2>1, <3>1 DEF RootsInv
  <2> QED
    BY <2>6, <2>7, <2>8, <2>9, <2>10 DEF WalkInv
<1>5. CASE PassOver
  <2>1. /\ phase = "order" /\ phase' = "order" /\ UNCHANGED <<order, progress, at>>
        /\ stack # <<>> /\ stack' = Front(stack) /\ ~Last(stack).up
        /\ progress[Last(stack).place] # "unseen"
    BY <1>5 DEF PassOver
  <2>2. /\ n \in Nat /\ p \in Structs /\ Last(stack) = stack[n] /\ Len(stack') = n - 1
        /\ \A i \in 1..(n - 1) : stack'[i] = stack[i] /\ i \in 1..n
        /\ \A i \in 1..n : i \in 1..(n - 1) \/ i = n
    BY <2>1, PopIs
  <2>3. Entries = 1..n /\ Entries' = 1..(n - 1)
    BY <2>2 DEF Entries
  <2>4. ~stack[n].up /\ stack[n].place = p /\ progress[p] # "unseen"
    BY <2>1, <2>2
  <2> HIDE DEF n, p
  <2>6. StackInv' /\ StartInv' /\ AllOrdered'
    BY <2>1 DEF StackInv, StartInv, AllOrdered
  <2>0. UNCHANGED <<order, progress, at>> /\ phase = "order" /\ phase' = "order"
    BY <2>1
  <2>5. /\ \A i \in Entries' : stack'[i] = stack[i] /\ i \in Entries
        /\ \A i \in Entries : i \in Entries' \/ i = n
    BY <2>2, <2>3
  <2>7. UnderWayInv'
    <3>1. ASSUME NEW q \in Structs
          PROVE  progress[q] = "under way" <=> \E i \in Entries' : stack'[i].up /\ stack'[i].place = q
      <4>1. progress[q] = "under way" <=> \E i \in Entries : stack[i].up /\ stack[i].place = q
        BY DEF WalkInv, UnderWayInv
      <4> QED
        BY <2>4, <2>5, <4>1
    <3> QED
      BY <1>s, <2>0, <3>1 DEF UnderWayInv
  <2>8. OnceInv'
    BY <2>5 DEF WalkInv, OnceInv
  <2>9. OrderedInv'
    BY <1>s, <2>0 DEF WalkInv, OrderedInv
  <2>10. RootsInv'
    <3>1. ASSUME NEW q \in Structs, q < at
          PROVE  progress[q] # "unseen" \/ \E i \in Entries' : stack'[i].place = q
      <4>1. progress[q] # "unseen" \/ \E i \in Entries : stack[i].place = q
        BY <2>0, <3>1 DEF WalkInv, RootsInv
      <4> QED
        BY <2>4, <2>5, <4>1
    <3> QED
      BY <1>s, <2>0, <3>1 DEF RootsInv
  <2> QED
    BY <2>6, <2>7, <2>8, <2>9, <2>10 DEF WalkInv
<1>6. CASE ComeBackUp
  <2>1. /\ phase = "order" /\ phase' = "order" /\ UNCHANGED at
        /\ stack # <<>> /\ stack' = Front(stack) /\ Last(stack).up
        /\ progress' = [progress EXCEPT ![Last(stack).place] = "ordered"]
        /\ order' = Append(order, Last(stack).place)
    BY <1>6 DEF ComeBackUp
  <2>2. /\ n \in Nat /\ n \in 1..n /\ p \in Structs /\ Last(stack) = stack[n] /\ Len(stack') = n - 1
        /\ \A i \in 1..(n - 1) : stack'[i] = stack[i] /\ i \in 1..n
        /\ \A i \in 1..n : i \in 1..(n - 1) \/ i = n
        /\ n \notin 1..(n - 1)
    BY <2>1, PopIs
  <2>3. Entries = 1..n /\ Entries' = 1..(n - 1)
    BY <2>2 DEF Entries
  <2>4. stack[n].up /\ stack[n].place = p
    BY <2>1, <2>2
  <2>5. Range(order') = Range(order) \cup {p}
    <3>1. order \in Seq(Structs) /\ p \in Structs /\ order' = Append(order, p)
      BY <1>t, <2>1, <2>2
    <3> HIDE DEF n, p
    <3> QED
      BY <3>1, PushIs
  <2>0. \A q \in Structs : progress'[q] = IF q = p THEN "ordered" ELSE progress[q]
    BY <1>t, <2>1, <2>2
  <2> HIDE DEF n, p
  <2>6. StackInv' /\ StartInv' /\ AllOrdered'
    BY <2>1 DEF StackInv, StartInv, AllOrdered
  <2>7. UnderWayInv'
    <3>1. ASSUME NEW q \in Structs
          PROVE  progress'[q] = "under way" <=> \E i \in Entries' : stack'[i].up /\ stack'[i].place = q
      <4>1. CASE q = p
        <5>1. ASSUME NEW i \in Entries', stack'[i].up, stack'[i].place = p PROVE FALSE
          BY <2>2, <2>3, <2>4, <5>1 DEF WalkInv, OnceInv
        <5> QED
          BY <2>0, <4>1, <5>1
      <4>2. CASE q # p
        <5>1. progress[q] = "under way" <=> \E i \in Entries : stack[i].up /\ stack[i].place = q
          BY DEF WalkInv, UnderWayInv
        <5> QED
          BY <2>0, <2>2, <2>3, <2>4, <4>2, <5>1
      <4> QED
        BY <4>1, <4>2
    <3> QED
      BY <1>s, <3>1 DEF UnderWayInv
  <2>8. OnceInv'
    BY <1>s, <2>2, <2>3 DEF WalkInv, OnceInv
  <2>9. OrderedInv'
    BY <1>s, <2>0, <2>5 DEF WalkInv, OrderedInv
  <2>10. RootsInv'
    <3>1. ASSUME NEW q \in Structs, q < at
          PROVE  progress'[q] # "unseen" \/ \E i \in Entries' : stack'[i].place = q
      <4>1. progress[q] # "unseen" \/ \E i \in Entries : stack[i].place = q
        BY <2>1, <3>1 DEF WalkInv, RootsInv
      <4> QED
        BY <2>0, <2>2, <2>3, <2>4, <4>1
    <3> QED
      BY <1>s, <2>1, <3>1 DEF RootsInv
  <2> QED
    BY <2>6, <2>7, <2>8, <2>9, <2>10 DEF WalkInv
<1>7. CASE EndOrder
  <2>1. /\ phase = "order" /\ phase' = "ingest" /\ UNCHANGED <<order, progress, stack>>
        /\ stack = <<>> /\ at > Len(program.apis)
    BY <1>7 DEF EndOrder
  <2>2. Entries = {}
    BY <2>1 DEF Entries
  <2>3. ASSUME NEW q \in Structs PROVE q \in Range(order)
    <3>1. q < at
      <4>1. at > Len(program.apis)
        BY <2>1
      <4> QED
        BY <1>n, <4>1
    <3>2. progress[q] # "unseen" /\ progress[q] # "under way"
      BY <2>1, <2>2, <3>1 DEF WalkInv, RootsInv, UnderWayInv
    <3> QED
      BY <1>v, <3>2 DEF WalkInv, OrderedInv
  <2>4. AllOrdered'
    BY <1>s, <2>1, <2>3 DEF AllOrdered
  <2>5. Entries' = Entries /\ UNCHANGED <<order, progress, stack>>
    BY <2>1 DEF Entries
  <2>6. StackInv' /\ StartInv' /\ RootsInv'
    BY <2>1 DEF StackInv, StartInv, RootsInv
  <2>7. UnderWayInv' /\ OnceInv' /\ OrderedInv'
    BY <1>s, <2>5 DEF WalkInv, UnderWayInv, OnceInv, OrderedInv
  <2> QED
    BY <2>4, <2>6, <2>7 DEF WalkInv
<1> QED
  BY <1>1, <1>2, <1>3, <1>4, <1>5, <1>6, <1>7, WhereAStepIs

(* No struct is part of itself, so what a struct holds is above it on the      *)
(* stack until it is ordered.                                                  *)
LEMMA InitDepth == Init => DepthInv
<1> SUFFICES ASSUME Init PROVE DepthInv
  OBVIOUS
<1>1. Len(stack) = 0 /\ Len(order) = 0
  BY DEF Init
<1>2. Entries = {} /\ 1..Len(order) = {}
  BY <1>1 DEF Entries
<1> QED
  BY <1>2 DEF DepthInv, BelowInv, AheadInv, AfterInv

LEMMA StructFacts ==
    ASSUME program \in Programs
    PROVE  /\ \A p \in Structs : /\ p \in Places(program) /\ program.apis[p] \in Api
                                 /\ program.apis[p].kind = "struct" /\ Named(p) \in Name
                                 /\ Holds(Named(p)) = Range(FieldDependencies(program.apis[p]))
                                 /\ NamedBy(Named(p)) = {}
           /\ NothingHoldsItself => \A p \in Structs : Named(p) \notin Under(Named(p))
<1>1. \A p \in Structs : /\ p \in Places(program) /\ program.apis[p] \in Api
                         /\ program.apis[p].kind = "struct" /\ Named(p) \in Name
  BY Libraries DEF Structs, IsStruct
<1>2. \A p \in Structs : Holds(Named(p)) = Range(FieldDependencies(program.apis[p]))
  BY <1>1, HoldingIs DEF Within, IsStruct
<1>3. \A p \in Structs : NamedBy(Named(p)) = {}
  <2>1. \A p \in Structs : program.apis[p].kind # "alias"
    BY <1>1
  <2> QED
    BY <1>1, <2>1, HoldingIs
<1>4. NothingHoldsItself => \A p \in Structs : Named(p) \notin Under(Named(p))
  BY DEF NothingHoldsItself, Structs, Named, Under, Holds
<1> QED
  BY <1>1, <1>2, <1>3, <1>4

LEMMA NextDepth ==
    ASSUME NothingHoldsItself
    PROVE  TypeInv /\ WalkInv /\ DepthInv /\ [Next]_vars => DepthInv'
<1> SUFFICES ASSUME TypeInv, WalkInv, DepthInv, [Next]_vars PROVE DepthInv'
  OBVIOUS
<1>t. /\ program \in Programs /\ order \in Seq(Structs) /\ stack \in Seq(Entry)
      /\ progress \in [Structs -> {"unseen", "under way", "ordered"}]
  BY TypeFacts
<1>s. /\ program' = program /\ Structs' = Structs
      /\ \A m : Holds(m)' = Holds(m) /\ Under(m)' = Under(m)
      /\ \A k : Named(k)' = Named(k)
  BY SameLibrary, ProgramStays
<1>u. /\ \A q \in Structs : Named(q) \in Name /\ Named(q) \notin Under(Named(q))
      /\ \A m \in Name : Holds(m) \subseteq Under(m)
      /\ \A m \in Name : \A k \in Under(m) : Holds(k) \subseteq Under(m)
  BY <1>t, StructFacts, UnderIs
<1>e. \A i \in Entries : stack[i].place \in Structs
  <2>1. \A i \in Entries : stack[i] \in Entry
    <3>1. stack \in Seq(Entry)
      BY <1>t
    <3> QED
      BY <3>1 DEF Entries
  <2> QED
    BY <2>1 DEF Entry
<1> DEFINE n == Len(stack)
           p == stack[n].place
<1>1. CASE UNCHANGED <<order, progress, stack>>
  <2>1. Entries' = Entries /\ UNCHANGED <<order, progress, stack>>
    BY <1>1 DEF Entries
  <2> QED
    BY <1>s, <2>1 DEF DepthInv, BelowInv, AheadInv, AfterInv
<1>2. CASE NextRoot
  <2> DEFINE e == OnTheWay(at, FALSE)
  <2>1. /\ UNCHANGED order
        /\ stack' = IF at \in Structs /\ progress[at] = "unseen" THEN <<e>> ELSE <<>>
    BY <1>2 DEF NextRoot
  <2>2. ~e.up
    BY DEF OnTheWay
  <2> HIDE DEF e
  <2>3. \A i \in Entries' : ~stack'[i].up
    BY <2>1, <2>2 DEF Entries
  <2>4. AfterInv'
    BY <1>s, <2>1 DEF DepthInv, AfterInv
  <2> QED
    BY <2>3, <2>4 DEF DepthInv, BelowInv, AheadInv
<1>3. CASE GoDown
  <2>1. UNCHANGED order
    BY <1>3 DEF GoDown
  <2>2. /\ n \in Nat /\ n > 0 /\ n \in 1..n /\ p \in Structs
        /\ ~stack[n].up /\ progress[p] = "unseen"
        /\ progress' = [progress EXCEPT ![p] = "under way"]
        /\ Len(stack') \in Nat /\ n <= Len(stack')
        /\ \A i \in 1..(n - 1) : stack'[i] = stack[i]
        /\ stack'[n] = OnTheWay(p, TRUE)
        /\ \A i \in 1..Len(stack') :
              i > n => ~stack'[i].up /\ Named(stack'[i].place) \in Holds(Named(p))
        /\ \A q \in Structs :
              Named(q) \in Holds(Named(p)) /\ progress[q] = "unseen" /\ q # p =>
                  \E i \in 1..Len(stack') : n < i /\ stack'[i].place = q
    BY <1>3, GoDownIs
  <2>3. stack'[n].place = p /\ stack'[n].up
    <3>1. stack'[n] = OnTheWay(p, TRUE)
      BY <2>2
    <3> QED
      BY <3>1 DEF OnTheWay
  <2>4. Entries = 1..n /\ Entries' = 1..Len(stack')
    BY DEF Entries
  <2>5. stack[n].place = p
    OBVIOUS
  <2> HIDE DEF n, p
  <2>6. /\ \A i \in Entries : (i \in 1..(n - 1) /\ i < n) \/ i = n
        /\ n \in Entries /\ n \in Entries'
        /\ \A i \in 1..(n - 1) : i \in Entries' /\ i \in Entries /\ i < n /\ ~(n < i) /\ i # n
        /\ \A i \in Entries' : i \in 1..(n - 1) \/ i = n \/ n < i
        /\ \A i, j \in Entries' : i < j => ~(j = n /\ n < i) /\ (n < i => n < j) /\ i # j
                                            /\ (i = n => n < j) /\ (n < i => ~(j < n))
        /\ \A i, j \in Entries' : i \in 1..(n - 1) /\ n < j => i < j
    <3>1. n \in Nat /\ n > 0 /\ Len(stack') \in Nat /\ n <= Len(stack')
      BY <2>2
    <3> QED
      BY <2>4, <3>1
  <2>7. /\ ~stack[n].up /\ p \in Structs /\ \A i \in 1..(n - 1) : stack'[i] = stack[i]
        /\ \A i \in Entries' : n < i => ~stack'[i].up /\ Named(stack'[i].place) \in Holds(Named(p))
    <3>1. \A i \in Entries' : n < i => i > n
      BY <2>2, <2>4
    <3> QED
      BY <2>2, <2>4, <3>1
  <2>8. /\ \A q \in Structs : progress[q] = "ordered" => progress'[q] = "ordered"
        /\ \A q \in Structs : \/ progress[q] = "ordered"
                              \/ progress[q] = "under way"
                              \/ progress[q] = "unseen"
    <3>1. progress[p] = "unseen" /\ progress' = [progress EXCEPT ![p] = "under way"]
      BY <2>2
    <3> QED
      BY <1>t, <3>1
  <2>9. BelowInv'
    <3>1. ASSUME NEW i \in Entries', NEW j \in Entries', i < j, stack'[i].up
          PROVE  Named(stack'[j].place) \in Under(Named(stack'[i].place))
      <4>1. i \in 1..(n - 1) \/ i = n
        BY <2>6, <2>7, <3>1
      <4>2. CASE i = n
        BY <1>u, <2>3, <2>6, <2>7, <3>1, <4>2
      <4>3. ASSUME i \in 1..(n - 1) PROVE Named(p) \in Under(Named(stack[i].place))
        BY <2>5, <2>6, <2>7, <3>1, <4>3 DEF DepthInv, BelowInv
      <4>4. CASE i \in 1..(n - 1) /\ j \in 1..(n - 1)
        BY <2>6, <2>7, <3>1, <4>4 DEF DepthInv, BelowInv
      <4>5. CASE i \in 1..(n - 1) /\ j = n
        BY <2>3, <2>7, <4>3, <4>5
      <4>6. CASE i \in 1..(n - 1) /\ n < j
        <5>1. Named(stack'[j].place) \in Holds(Named(p))
          BY <2>7, <4>6
        <5>2. Named(stack[i].place) \in Name
          BY <1>e, <1>u, <2>6, <4>6
        <5> QED
          BY <1>u, <2>7, <4>3, <4>6, <5>1, <5>2
      <4> QED
        BY <2>6, <4>1, <4>2, <4>4, <4>5, <4>6
    <3> QED
      BY <1>s, <3>1 DEF BelowInv
  <2>10. ASSUME NEW q \in Structs, Named(q) \in Holds(Named(p))
         PROVE  progress[q] = "ordered" \/ \E j \in Entries' : n < j /\ stack'[j].place = q
    <3>1. q # p
      BY <1>u, <2>7, <2>10
    <3>2. CASE progress[q] = "unseen"
      BY <2>2, <2>4, <2>10, <3>1, <3>2
    <3>3. CASE progress[q] = "under way"
      <4>1. PICK i \in Entries : stack[i].up /\ stack[i].place = q
        BY <3>3 DEF WalkInv, UnderWayInv
      <4>2. i \in Entries /\ i < n
        BY <2>6, <2>7, <4>1
      <4>3. Named(p) \in Under(Named(q))
        BY <2>5, <2>6, <4>1, <4>2 DEF DepthInv, BelowInv
      <4> QED
        BY <1>u, <2>10, <4>3
    <3> QED
      BY <2>8, <3>2, <3>3
  <2>11. AheadInv'
    <3>1. ASSUME NEW i \in Entries', stack'[i].up, NEW q \in Structs,
                 Named(q) \in Holds(Named(stack'[i].place))
          PROVE  progress'[q] = "ordered" \/ \E j \in Entries' : i < j /\ stack'[j].place = q
      <4>1. i \in 1..(n - 1) \/ i = n
        BY <2>6, <2>7, <3>1
      <4>2. CASE i = n
        BY <2>3, <2>8, <2>10, <3>1, <4>2
      <4>3. CASE i \in 1..(n - 1)
        <5>1. i \in Entries /\ stack[i].up /\ Named(q) \in Holds(Named(stack[i].place))
          BY <2>6, <2>7, <3>1, <4>3
        <5>2. CASE progress[q] = "ordered"
          BY <2>8, <5>2
        <5>3. CASE progress[q] # "ordered"
          <6>1. PICK j \in Entries : i < j /\ stack[j].place = q
            BY <5>1, <5>3 DEF DepthInv, AheadInv
          <6>2. stack'[j].place = q /\ j \in Entries'
            BY <2>3, <2>5, <2>6, <2>7, <6>1
          <6> QED
            BY <6>1, <6>2
        <5> QED
          BY <5>2, <5>3
      <4> QED
        BY <4>1, <4>2, <4>3
    <3> QED
      BY <1>s, <3>1 DEF AheadInv
  <2>12. AfterInv'
    BY <1>s, <2>1 DEF DepthInv, AfterInv
  <2> QED
    BY <2>9, <2>11, <2>12 DEF DepthInv
<1>4. CASE PassOver \/ ComeBackUp
  <2>1. stack # <<>> /\ stack' = Front(stack)
    BY <1>4 DEF PassOver, ComeBackUp
  <2>2. /\ n \in Nat /\ n > 0 /\ n \in 1..n /\ p \in Structs /\ Last(stack) = stack[n]
        /\ Len(stack') = n - 1
        /\ \A i \in 1..(n - 1) : stack'[i] = stack[i] /\ i \in 1..n
        /\ \A i \in 1..n : i \in 1..(n - 1) \/ i = n
    BY <2>1, PopIs
  <2>3. Entries = 1..n /\ Entries' = 1..(n - 1)
    BY <2>2 DEF Entries
  <2>4. stack[n].place = p
    OBVIOUS
  <2>5. /\ n \in Entries
        /\ \A i \in Entries' : stack'[i] = stack[i] /\ i \in Entries /\ i < n
        /\ \A i \in Entries : i \in Entries' \/ i = n
        /\ \A i \in Entries : ~(n < i)
        /\ \A i, j \in Entries : i < j \/ i = j \/ j < i
    <3>1. \A i \in 1..(n - 1) : i < n
      BY <2>2
    <3>2. \A i \in 1..n : ~(n < i)
      BY <2>2
    <3>3. \A i, j \in 1..n : i < j \/ i = j \/ j < i
      BY <2>2
    <3> QED
      BY <2>2, <2>3, <3>1, <3>2, <3>3
  <2>6. BelowInv'
    BY <1>s, <2>5 DEF DepthInv, BelowInv
  <2> HIDE DEF n, p
  <2>7. CASE PassOver
    <3>1. progress[p] # "unseen" /\ UNCHANGED <<progress, order>>
      BY <2>2, <2>4, <2>7 DEF PassOver
    <3>2. ASSUME NEW i \in Entries', stack'[i].up, NEW q \in Structs,
                 Named(q) \in Holds(Named(stack'[i].place)), progress[q] # "ordered"
          PROVE  \E j \in Entries' : i < j /\ stack'[j].place = q
      <4>1. i \in Entries /\ stack[i].up /\ Named(q) \in Holds(Named(stack[i].place))
        BY <2>5, <3>2
      <4>2. PICK j \in Entries : i < j /\ stack[j].place = q
        BY <3>2, <4>1 DEF DepthInv, AheadInv
      <4>3. CASE j # n
        BY <2>5, <4>2, <4>3
      <4>4. CASE j = n
        <5>1. q = p
          BY <2>4, <4>2, <4>4
        <5>2. progress[q] = "under way"
          BY <1>t, <3>1, <3>2, <5>1
        <5>3. PICK k \in Entries : stack[k].up /\ stack[k].place = q
          BY <5>2 DEF WalkInv, UnderWayInv
        <5>4. CASE i < k
          <6>1. k # n
            BY <2>2, <2>7, <5>3 DEF PassOver
          <6> QED
            BY <2>5, <5>3, <5>4, <6>1
        <5>5. CASE k = i
          BY <1>u, <3>2, <4>1, <5>3, <5>5
        <5>6. CASE k < i
          <6>1. Named(stack[i].place) \in Under(Named(q))
            BY <4>1, <5>3, <5>6 DEF DepthInv, BelowInv
          <6> QED
            BY <1>u, <4>1, <6>1
        <5> QED
          BY <2>5, <4>1, <5>4, <5>5, <5>6
      <4> QED
        BY <4>3, <4>4
    <3>3. AheadInv'
      BY <1>s, <3>1, <3>2 DEF AheadInv
    <3>4. AfterInv'
      BY <1>s, <3>1 DEF DepthInv, AfterInv
    <3> QED
      BY <2>6, <3>3, <3>4 DEF DepthInv
  <2>8. CASE ComeBackUp
    <3>1. /\ stack[n].up /\ order' = Append(order, p)
          /\ progress' = [progress EXCEPT ![p] = "ordered"]
      BY <2>2, <2>4, <2>8 DEF ComeBackUp
    <3>2. \A q \in Structs : progress'[q] = IF q = p THEN "ordered" ELSE progress[q]
      BY <1>t, <2>2, <3>1
    <3>3. ASSUME NEW i \in Entries', stack'[i].up, NEW q \in Structs,
                 Named(q) \in Holds(Named(stack'[i].place)), progress'[q] # "ordered"
          PROVE  \E j \in Entries' : i < j /\ stack'[j].place = q
      <4>1. i \in Entries /\ stack[i].up /\ Named(q) \in Holds(Named(stack[i].place))
        BY <2>5, <3>3
      <4>2. progress[q] # "ordered" /\ q # p
        BY <3>2, <3>3
      <4>3. PICK j \in Entries : i < j /\ stack[j].place = q
        BY <4>1, <4>2 DEF DepthInv, AheadInv
      <4>4. j # n
        BY <2>4, <4>2, <4>3
      <4> QED
        BY <2>5, <4>3, <4>4
    <3>4. AheadInv'
      BY <1>s, <3>3 DEF AheadInv
    <3>5. /\ Len(order) \in Nat /\ Len(order') = Len(order) + 1 /\ order'[Len(order) + 1] = p
          /\ \A k \in 1..Len(order) : order'[k] = order[k]
      <4>1. order \in Seq(Structs) /\ p \in Structs
        BY <1>t, <2>2
      <4> QED
        BY <3>1, <4>1, PushIs
    <3>6. /\ \A k \in 1..Len(order') : k \in 1..Len(order) \/ k = Len(order) + 1
          /\ \A k \in 1..Len(order) : k \in 1..Len(order') /\ k < Len(order) + 1
      BY <3>5
    <3>7. ASSUME NEW q \in Structs, Named(q) \in Holds(Named(p))
          PROVE  \E l \in 1..Len(order) : order[l] = q
      <4>1. progress[q] = "ordered"
        BY <2>4, <2>5, <3>1, <3>7 DEF DepthInv, AheadInv
      <4>2. q \in Range(order)
        BY <4>1 DEF WalkInv, OrderedInv
      <4>3. DOMAIN order = 1..Len(order)
        <5>1. order \in Seq(Structs)
          BY <1>t
        <5> QED
          BY <5>1
      <4> QED
        BY <4>2, <4>3 DEF Range
    <3>8. ASSUME NEW k \in 1..Len(order'), NEW q \in Structs, Named(q) \in Holds(Named(order'[k]))
          PROVE  \E l \in 1..Len(order') : l < k /\ order'[l] = q
      <4>1. CASE k \in 1..Len(order)
        <5>1. PICK l \in 1..Len(order) : l < k /\ order[l] = q
          BY <3>5, <3>8, <4>1 DEF DepthInv, AfterInv
        <5> QED
          BY <3>5, <3>6, <5>1
      <4>2. CASE k = Len(order) + 1
        <5>1. PICK l \in 1..Len(order) : order[l] = q
          BY <3>5, <3>7, <3>8, <4>2
        <5> QED
          BY <3>5, <3>6, <4>2, <5>1
      <4> QED
        BY <3>6, <4>1, <4>2
    <3>9. AfterInv'
      BY <1>s, <3>8 DEF AfterInv
    <3> QED
      BY <2>6, <3>4, <3>9 DEF DepthInv
  <2> QED
    BY <1>4, <2>7, <2>8
<1>5. CASE Elsewhere \/ EndScan \/ EndOrder
  <2>1. UNCHANGED <<order, progress, stack>>
    BY <1>5 DEF Elsewhere, vars, EndScan, EndOrder
  <2> QED
    BY <1>1, <2>1
<1> QED
  BY <1>2, <1>3, <1>4, <1>5, WhereAStepIs

-------------------------------------------------------------------------------
(* What is on record. *)
LEMMA StateNames ==
    /\ \A n \in Name : Initially(program.blocklist)[n].state \in {"absent", "pod", "unsafe"}
    /\ Absent.state = "absent" /\ IsPod.state = "pod"
    /\ \A n \in Name : Unsafe(n, "blocklisted").state = "unsafe" /\ Unsafe(n, "known unsafe").state = "unsafe"
<1>1. \A n \in Name : Unsafe(n, "blocklisted").state = "unsafe" /\ Unsafe(n, "known unsafe").state = "unsafe"
  BY UnsafeType
<1>2. ASSUME NEW n \in Name
      PROVE  Initially(program.blocklist)[n].state \in {"absent", "pod", "unsafe"}
  <2>1. Initially(program.blocklist)[n] \in {Unsafe(n, "blocklisted"), IsPod, Unsafe(n, "known unsafe"), Absent}
    BY DEF Initially
  <2> QED
    BY <1>1, <2>1, RecordType
<1> QED
  BY <1>1, <1>2, RecordType

(* A name is that of a struct, of some other API, or nobody's. *)
LEMMA WhoIs ==
    ASSUME program \in Programs, NEW n \in Name
    PROVE  /\ n \in Defined => \E p \in Places(program) : Named(p) = n /\ program.apis[p].kind # "other"
           /\ \A p \in Places(program) : Named(p) \in Defined <=> program.apis[p].kind # "other"
           /\ n \notin Defined => Holds(n) = {} /\ NamedBy(n) = {}
           /\ \A p \in Places(program) : p \in Structs <=> program.apis[p].kind = "struct"
<1>1. n \in Defined => \E p \in Places(program) : Named(p) = n /\ program.apis[p].kind # "other"
  BY Libraries DEF Defined, Named
<1>2. ASSUME NEW p \in Places(program) PROVE Named(p) \in Defined <=> program.apis[p].kind # "other"
  BY Libraries DEF Defined, Named
<1>3. \A p \in Places(program) : p \in Structs <=> program.apis[p].kind = "struct"
  BY DEF Structs, IsStruct
<1>4. ASSUME n \notin Defined PROVE Holds(n) = {} /\ NamedBy(n) = {}
  <2>1. CASE \A p \in Places(program) : Named(p) # n
    BY <2>1, HoldingIs
  <2>2. ASSUME NEW p \in Places(program), Named(p) = n PROVE Holds(n) = {} /\ NamedBy(n) = {}
    <3>1. program.apis[p].kind = "other"
      BY <1>2, <1>4, <2>2
    <3>2. Within(program.apis[p]) = {}
      BY <3>1 DEF Within, IsStruct
    <3> QED
      BY <2>2, <3>2, HoldingIs
  <2> QED
    BY <2>1, <2>2
<1> QED
  BY <1>1, <1>2, <1>3, <1>4

LEMMA InitRecord == Init => RecordInv
<1> SUFFICES ASSUME Init PROVE RecordInv
  OBVIOUS
<1>1. phase = "scan" /\ at = 1 /\ results = Initially(program.blocklist) /\ program \in Programs
  BY DEF Init
<1>2. Len(program.apis) \in Nat
  BY <1>1, Libraries
<1>3. \A p \in Places(program) : ~(p < at)
  BY <1>1, <1>2 DEF Places
<1>4. \A p \in Places(program) : ~Done(p)
  BY <1>1, <1>3 DEF Done
<1>5. \A p \in Structs : ~Taken(p)
  BY <1>1 DEF Taken
<1> QED
  BY <1>1, <1>4, <1>5 DEF RecordInv, UndefinedInv, ScannedInv, IngestedInv

(* One type's record, as the invariant has it. *)
ScannedWell(p) ==
    LET api == program.apis[p]
        record == results[Named(p)]
    IN /\ api.kind \in {"pointer alias", "enum", "pod elsewhere"} => record = IsPod
       /\ api.kind = "complex" => record = Unsafe(api.name, "complex typedef")
       /\ api.kind = "alias" => /\ record.state \in {"alias", "pod", "unsafe"}
                                /\ record.target = Substitute[api.target]
                                /\ phase \in Judging => record.state = "alias"
IngestedWell(p) ==
    LET record == results[Named(p)]
    IN /\ record.deps = FieldDependencies(program.apis[p])
       /\ record.state \in {"safe", "pod", "unsafe"}
       /\ record.state # "unsafe" => program.apis[p].facts \cap OwnFlaws = {}
       /\ phase \in Judging => record.state # "pod"

LEMMA RecordIs ==
    /\ ScannedInv <=> \A p \in Places(program) : Done(p) => ScannedWell(p)
    /\ IngestedInv <=> \A p \in Structs : Taken(p) => IngestedWell(p)
  BY DEF ScannedInv, IngestedInv, ScannedWell, IngestedWell, Named

LEMMA RecordKept ==
    ASSUME program' = program, UndefinedInv, NEW N, \A m \in Name \ N : results'[m] = results[m],
           \A m \in N \cap Name : m \in Defined,
           phase' \in Judging => phase \in Judging
    PROVE  /\ UndefinedInv'
           /\ \A p : Named(p) \in Name /\ Named(p) \notin N /\ ScannedWell(p) => ScannedWell(p)'
           /\ \A p : Named(p) \in Name /\ Named(p) \notin N /\ IngestedWell(p) => IngestedWell(p)'
<1>1. UndefinedInv'
  BY SameLibrary DEF UndefinedInv
<1>2. \A p : Named(p)' = Named(p)
  BY SameLibrary
<1>3. ASSUME NEW p, Named(p) \in Name, Named(p) \notin N, ScannedWell(p) PROVE ScannedWell(p)'
  <2>1. results'[Named(p)] = results[Named(p)] /\ Named(p)' = Named(p)
    BY <1>2, <1>3
  <2> QED
    BY <1>3, <2>1 DEF ScannedWell, Judging
<1>4. ASSUME NEW p, Named(p) \in Name, Named(p) \notin N, IngestedWell(p) PROVE IngestedWell(p)'
  <2>1. results'[Named(p)] = results[Named(p)] /\ Named(p)' = Named(p)
    BY <1>2, <1>4
  <2> QED
    BY <1>4, <2>1 DEF IngestedWell, Judging
<1> QED
  BY <1>1, <1>3, <1>4

LEMMA StateTells ==
    ASSUME TypeInv, RecordInv, NEW n \in Name, Settled(n)
    PROVE  /\ results[n].state = "safe" =>
                  \E p \in Structs : Named(p) = n /\ IngestedWell(p)
           /\ results[n].state = "alias" =>
                  \E p \in Places(program) : /\ Named(p) = n /\ program.apis[p].kind = "alias"
                                             /\ ScannedWell(p)
           /\ results[n].state = "absent" => n \notin Defined
           /\ results[n].state = "pod" =>
                  \/ n \notin Defined /\ Initially(program.blocklist)[n].state = "pod"
                  \/ \E p \in Places(program) :
                         /\ Named(p) = n
                         /\ program.apis[p].kind \in {"pointer alias", "enum", "pod elsewhere"}
                  \/ \E p \in Structs : Named(p) = n /\ IngestedWell(p)
                  \/ \E p \in Places(program) : /\ Named(p) = n /\ program.apis[p].kind = "alias"
                                                /\ ScannedWell(p)
           /\ results[n].state = "unsafe" =>
                  \/ n \notin Defined /\ results[n] = Initially(program.blocklist)[n]
                  \/ \E p \in Places(program) :
                         /\ Named(p) = n /\ program.apis[p].kind = "complex"
                         /\ results[n] = Unsafe(n, "complex typedef")
                  \/ \E p \in Structs : Named(p) = n /\ IngestedWell(p)
                  \/ \E p \in Places(program) : /\ Named(p) = n /\ program.apis[p].kind = "alias"
                                                /\ ScannedWell(p)
<1>1. program \in Programs
  BY TypeFacts
<1>2. CASE n \notin Defined
  <2>1. results[n] = Initially(program.blocklist)[n]
    BY <1>2 DEF RecordInv, UndefinedInv
  <2>2. results[n].state \in {"absent", "pod", "unsafe"}
    BY <2>1, StateNames
  <2>3. results[n].state # "safe" /\ results[n].state # "alias"
    BY <2>2
  <2> QED
    BY <1>2, <2>1, <2>3
<1>3. CASE n \in Defined
  <2>1. PICK p \in Places(program) : Named(p) = n /\ program.apis[p].kind # "other"
    BY <1>1, <1>3, WhoIs
  <2>2. program.apis[p] \in Api
    BY <1>1, Libraries
  <2>3. program.apis[p].kind \in ApiKinds
    BY <2>2 DEF Api
  <2>4. program.apis[p].name = n
    BY <2>1 DEF Named
  <2>5. Done(p) /\ (p \in Structs => Taken(p))
    BY <2>1 DEF Settled
  <2>6. ScannedWell(p)
    BY <2>5, RecordIs DEF RecordInv
  <2>7. CASE program.apis[p].kind \in {"pointer alias", "enum", "pod elsewhere"}
    <3>1. results[n] = IsPod
      BY <2>1, <2>6, <2>7 DEF ScannedWell
    <3>2. results[n].state = "pod"
      BY <3>1, StateNames
    <3> QED
      BY <2>1, <2>7, <3>2
  <2>8. CASE program.apis[p].kind = "complex"
    <3>1. results[n] = Unsafe(n, "complex typedef")
      BY <2>1, <2>4, <2>6, <2>8 DEF ScannedWell
    <3>2. results[n].state = "unsafe"
      <4>1. Unsafe(n, "complex typedef").state = "unsafe"
        BY UnsafeType
      <4> QED
        BY <3>1, <4>1
    <3> QED
      BY <2>1, <2>8, <3>1, <3>2
  <2>9. CASE program.apis[p].kind = "alias"
    <3>1. results[n].state \in {"alias", "pod", "unsafe"}
      BY <2>1, <2>6, <2>9 DEF ScannedWell
    <3>2. results[n].state # "safe" /\ results[n].state # "absent"
      BY <3>1
    <3> QED
      BY <2>1, <2>6, <2>9, <3>2
  <2>10. CASE program.apis[p].kind = "struct"
    <3>1. p \in Structs
      BY <1>1, <2>10, WhoIs
    <3>2. IngestedWell(p)
      BY <2>5, <3>1, RecordIs DEF RecordInv
    <3>3. results[n].state \in {"safe", "pod", "unsafe"}
      BY <2>1, <3>2 DEF IngestedWell
    <3>4. results[n].state # "alias" /\ results[n].state # "absent"
      BY <3>3
    <3> QED
      BY <2>1, <3>1, <3>2, <3>4
  <2> QED
    BY <2>1, <2>3, <2>7, <2>8, <2>9, <2>10 DEF ApiKinds
<1> QED
  BY <1>2, <1>3

LEMMA AllSettled ==
    ASSUME phase \in {"requests", "refused", "analyze", "done"}
    PROVE  /\ \A n : Settled(n)
           /\ \A p : Done(p) /\ Taken(p)
<1>1. \A p : Done(p) /\ Taken(p)
  BY DEF Done, Taken
<1> QED
  BY <1>1 DEF Settled

(* Which step settles what. *)
LEMMA WhatSettles ==
    ASSUME TypeInv, WalkInv, [Next]_vars
    PROVE  /\ \A p \in Places(program) : Done(p)' => Done(p) \/ (ScanApi /\ p = at)
           /\ \A p \in Structs : Taken(p)' => Taken(p) \/ (IngestStruct /\ p = order[at])
           /\ phase' \in Judging => phase \in Judging
<1>t. /\ program \in Programs /\ Len(program.apis) \in Nat /\ at \in Nat /\ order \in Seq(Structs)
  BY TypeFacts, Libraries
<1>n. Len(program.apis) \in Nat /\ at \in Nat /\ Places(program) = 1..Len(program.apis)
  BY <1>t DEF Places
<1>o. Len(order) \in Nat /\ DOMAIN order = 1..Len(order)
  <2>1. order \in Seq(Structs)
    BY <1>t
  <2> QED
    BY <2>1
<1>1. CASE ScanApi
  <2>1. phase = "scan" /\ phase' = "scan" /\ at' = at + 1
    BY <1>1 DEF ScanApi
  <2>2. \A p \in Places(program) : p < at + 1 => p < at \/ p = at
    BY <1>n
  <2>3. \A p \in Structs : ~Taken(p)'
    BY <2>1 DEF Taken
  <2> QED
    BY <1>1, <2>1, <2>2, <2>3 DEF Done, Judging
<1>2. CASE EndScan
  <2>1. phase = "scan" /\ phase' = "order" /\ at > Len(program.apis)
    BY <1>2 DEF EndScan
  <2>2. \A p \in Places(program) : p < at
    BY <1>n, <2>1
  <2>3. \A p \in Structs : ~Taken(p)'
    BY <2>1 DEF Taken
  <2> QED
    BY <2>1, <2>2, <2>3 DEF Done, Judging
<1>3. CASE IngestStruct
  <2>1. phase = "ingest" /\ phase' = "ingest" /\ at' = at + 1 /\ order' = order
    BY <1>3 DEF IngestStruct
  <2>2. \A k \in 1..Len(order) : k < at + 1 => k < at \/ k = at
    BY <1>n, <1>o
  <2> QED
    BY <1>3, <2>1, <2>2 DEF Done, Taken, Judging
<1>4. CASE EndIngest
  <2>1. phase = "ingest" /\ phase' = "requests" /\ at > Len(order)
    BY <1>4 DEF EndIngest
  <2>2. \A k \in 1..Len(order) : k < at
    BY <1>n, <1>o, <2>1
  <2>3. \A p \in Structs : \E k \in 1..Len(order) : order[k] = p
    <3>1. Structs \subseteq Range(order)
      BY <2>1 DEF WalkInv, AllOrdered
    <3> QED
      BY <1>o, <3>1 DEF Range
  <2> QED
    BY <2>1, <2>2, <2>3 DEF Done, Taken, Judging
<1>5. CASE EndOrder
  <2>1. phase = "order" /\ phase' = "ingest" /\ at' = 1 /\ order' = order
    BY <1>5 DEF EndOrder
  <2>2. \A k \in 1..Len(order) : ~(k < 1)
    BY <1>o
  <2> QED
    BY <2>1, <2>2 DEF Done, Taken, Judging
<1>6. CASE NextRoot \/ GoDown \/ PassOver \/ ComeBackUp
  <2>1. phase = "order" /\ phase' = "order"
    BY <1>6 DEF NextRoot, GoDown, PassOver, ComeBackUp
  <2> QED
    BY <2>1 DEF Done, Taken, Judging
<1>7. ASSUME phase \in {"requests", "refused", "analyze", "done"},
             phase' \in {"requests", "refused", "analyze", "done"}
      PROVE  /\ \A p \in Places(program) : Done(p)' => Done(p) \/ (ScanApi /\ p = at)
             /\ \A p \in Structs : Taken(p)' => Taken(p) \/ (IngestStruct /\ p = order[at])
             /\ phase' \in Judging => phase \in Judging
  BY <1>7 DEF Done, Taken, Judging
<1>8. CASE RefuseUnknown \/ RefuseUnsafe \/ RefuseCircle \/ RefuseUnknownTarget
  <2>1. phase = "requests" /\ phase' = "refused"
    BY <1>8 DEF RefuseUnknown, RefuseUnsafe, RefuseCircle, RefuseUnknownTarget, Refuse, Popping
  <2> QED
    BY <1>7, <2>1
<1>9. CASE AlreadyPod \/ MakePod \/ AdoptTarget \/ AwaitTarget
  <2>1. phase = "requests" /\ phase' = "requests"
    BY <1>9 DEF AlreadyPod, MakePod, AdoptTarget, AwaitTarget, Popping
  <2> QED
    BY <1>7, <2>1
<1>10. CASE EndRequests
  <2>1. phase = "requests" /\ phase' = "analyze"
    BY <1>10 DEF EndRequests
  <2> QED
    BY <1>7, <2>1
<1>11. CASE AnalyzeApi \/ EndAnalyze
  <2>1. phase = "analyze" /\ phase' \in {"analyze", "done"}
    BY <1>11 DEF AnalyzeApi, EndAnalyze
  <2> QED
    BY <1>7, <2>1
<1>12. CASE UNCHANGED vars
  BY <1>12 DEF vars, Done, Taken, Judging
<1> QED
  BY <1>1, <1>2, <1>3, <1>4, <1>5, <1>6, <1>8, <1>9, <1>10, <1>11, <1>12 DEF Next

LEMMA ScanIs ==
    ASSUME TypeInv, ScanApi
    PROVE  /\ at \in Places(program) /\ Named(at) \in Name
           /\ phase = "scan" /\ phase' = "scan"
           /\ \A m \in Name : m # Named(at) => results'[m] = results[m]
           /\ program.apis[at].kind \in {"struct", "other"} =>
                  \A m \in Name : results'[m] = results[m]
           /\ program.apis[at].kind \notin {"struct", "other"} =>
                  \A p : p = at => ScannedWell(p)'
<1> DEFINE api == program.apis[at]
<1>1. at \in Places(program) /\ api \in Api /\ Named(at) \in Name /\ program \in Programs
  <2>1. program \in Programs /\ at \in Nat \ {0} /\ Len(program.apis) \in Nat
    BY TypeFacts, Libraries
  <2>2. at <= Len(program.apis)
    BY DEF ScanApi
  <2>3. at \in Places(program)
    BY <2>1, <2>2, InBounds DEF Places
  <2> QED
    BY <2>1, <2>3, Libraries
<1>2. /\ phase = "scan" /\ phase' = "scan" /\ program' = program
      /\ results' = [results EXCEPT ![Named(at)] = Scanned(api)]
  BY DEF ScanApi, Named
<1>3. /\ \A m \in Name : m # Named(at) => results'[m] = results[m]
      /\ results'[Named(at)] = Scanned(api)
  <2>1. results \in [Name -> Recorded]
    BY TypeFacts
  <2> QED
    BY <1>1, <1>2, <2>1
<1>4. /\ api.kind \in {"struct", "other"} => Scanned(api) = results[Named(at)]
      /\ api.kind \in {"pointer alias", "enum", "pod elsewhere"} => Scanned(api) = IsPod
      /\ api.kind = "complex" => Scanned(api) = Unsafe(api.name, "complex typedef")
      /\ api.kind = "alias" => Scanned(api) = Record("alias", Substitute[api.target], <<>>, NoCause)
  BY DEF Scanned, Named
<1>5. ASSUME api.kind \notin {"struct", "other"}, NEW p, p = at PROVE ScannedWell(p)'
  <2>1. Named(p)' = Named(at) /\ (program.apis[p])' = api
    BY <1>2, <1>5 DEF Named
  <2>2. api.kind = "alias" => Scanned(api).state = "alias" /\ Scanned(api).target = Substitute[api.target]
    <3>1. SUFFICES ASSUME api.kind = "alias"
                   PROVE Scanned(api).state = "alias" /\ Scanned(api).target = Substitute[api.target]
      OBVIOUS
    <3>2. Scanned(api) = Record("alias", Substitute[api.target], <<>>, NoCause)
      BY <1>4, <3>1
    <3> QED
      BY <3>2 DEF Record
  <2>3. (results[Named(p)])' = Scanned(api)
    BY <1>3, <2>1
  <2> QED
    BY <1>4, <2>1, <2>2, <2>3 DEF ScannedWell
<1>6. api.kind \in {"struct", "other"} => \A m \in Name : results'[m] = results[m]
  BY <1>3, <1>4
<1> QED
  BY <1>1, <1>2, <1>3, <1>5, <1>6

LEMMA IngestIs ==
    ASSUME TypeInv, IngestStruct
    PROVE  /\ order[at] \in Structs /\ Named(order[at]) \in Name /\ at \in 1..Len(order)
           /\ phase = "ingest" /\ phase' = "ingest" /\ program' = program
           /\ \A m \in Name : m # Named(order[at]) => results'[m] = results[m]
           /\ results'[Named(order[at])] = Ingested(program.apis[order[at]])
           /\ program.apis[order[at]] \in Api
           /\ \A p : p = order[at] => IngestedWell(p)'
<1> DEFINE p == order[at]
           api == program.apis[p]
<1>1. p \in Structs /\ at \in 1..Len(order)
  <2>1. order \in Seq(Structs) /\ at \in Nat \ {0}
    BY TypeFacts
  <2>2. at <= Len(order)
    BY DEF IngestStruct
  <2>3. at \in 1..Len(order)
    BY <2>1, <2>2, InBounds
  <2> QED
    BY <2>1, <2>3
<1>2. program \in Programs /\ Named(p) \in Name /\ api \in Api
  BY <1>1, TypeFacts, StructFacts
<1>3. /\ phase = "ingest" /\ phase' = "ingest" /\ program' = program /\ order' = order
      /\ results' = [results EXCEPT ![Named(p)] = Ingested(api)]
  BY DEF IngestStruct, Named
<1>4. /\ \A m \in Name : m # Named(p) => results'[m] = results[m]
      /\ results'[Named(p)] = Ingested(api)
  <2>1. results \in [Name -> Recorded]
    BY TypeFacts
  <2> QED
    BY <1>2, <1>3, <2>1
<1>5. /\ Ingested(api).state = IF Trouble(api) = NoCause THEN "safe" ELSE "unsafe"
      /\ Ingested(api).deps = FieldDependencies(api)
      /\ Trouble(api) = NoCause => api.facts \cap OwnFlaws = {}
  BY <1>2, IngestedType, TroubleIs
<1>6. ASSUME NEW q, q = p PROVE IngestedWell(q)'
  <2>1. Named(q)' = Named(p) /\ (program.apis[q])' = api
    BY <1>3, <1>6 DEF Named
  <2>2. (results[Named(q)])' = Ingested(api)
    BY <1>4, <2>1
  <2>3. /\ Ingested(api).state \in {"safe", "pod", "unsafe"} /\ Ingested(api).state # "pod"
        /\ Ingested(api).state # "unsafe" => api.facts \cap OwnFlaws = {}
    BY <1>5
  <2> QED
    BY <1>5, <2>1, <2>2, <2>3 DEF IngestedWell
<1> QED
  BY <1>1, <1>2, <1>3, <1>4, <1>6

(* What satisfy_requests knows of the type it has just popped. *)
LEMMA PoppedIs ==
    ASSUME TypeInv, Popping
    PROVE  /\ Popped \in Name /\ phase = "requests" /\ program \in Programs
           /\ \A n : Settled(n)
           /\ results[Popped].target \in Name
  BY RequestsFacts, AllSettled, TypeFacts DEF Popping

LEMMA MakePodIs ==
    ASSUME TypeInv, RecordInv, MakePod
    PROVE  \E p \in Structs :
               /\ Named(p) = Popped /\ IngestedWell(p) /\ Popped \in Defined
               /\ phase = "requests" /\ phase' = "requests" /\ program' = program
               /\ results[Popped].deps = FieldDependencies(program.apis[p])
               /\ \A m \in Name : m # Popped => results'[m] = results[m]
               /\ results'[Popped].deps = results[Popped].deps
               /\ results'[Popped].state = "pod" /\ results[Popped].state = "safe"
<1>1. Popped \in Name /\ program \in Programs /\ Settled(Popped) /\ results[Popped].state = "safe"
  BY PoppedIs DEF MakePod
<1>2. PICK p \in Structs : Named(p) = Popped /\ IngestedWell(p)
  BY <1>1, StateTells
<1>3. Popped \in Defined
  BY <1>1, <1>2, StructFacts, WhoIs
<1>4. phase = "requests" /\ phase' = "requests" /\ program' = program
  BY DEF MakePod, Popping
<1>5. results[Popped].deps = FieldDependencies(program.apis[p])
  BY <1>2 DEF IngestedWell
<1>6. results' = [results EXCEPT ![Popped] = [results[Popped] EXCEPT !.state = "pod"]]
  BY DEF MakePod
<1>7. results \in [Name -> Recorded]
  BY TypeFacts
<1>8. /\ \A m \in Name : m # Popped => results'[m] = results[m]
      /\ results'[Popped] = [results[Popped] EXCEPT !.state = "pod"]
  BY <1>1, <1>6, <1>7
<1>9. results'[Popped].deps = results[Popped].deps /\ results'[Popped].state = "pod"
  <2>1. results[Popped] \in Recorded
    BY <1>1, <1>7
  <2> QED
    BY <1>8, <2>1 DEF Recorded
<1> QED
  BY <1>1, <1>2, <1>3, <1>4, <1>5, <1>8, <1>9

(* A typedef, and what it names. *)
LEMMA AliasIs ==
    ASSUME TypeInv, RecordInv, Popping, results[Popped].state = "alias"
    PROVE  LET target == results[Popped].target
           IN \E p \in Places(program) :
                  /\ Named(p) = Popped /\ program.apis[p].kind = "alias" /\ ScannedWell(p)
                  /\ Popped \in Defined /\ Aim = results[target]
                  /\ Holds(Popped) = {target} /\ NamedBy(Popped) = {target}
                  /\ target = Substitute[program.apis[p].target]
<1> DEFINE target == results[Popped].target
<1>1. Popped \in Name /\ program \in Programs /\ Settled(Popped)
  BY PoppedIs
<1>2. PICK p \in Places(program) : Named(p) = Popped /\ program.apis[p].kind = "alias" /\ ScannedWell(p)
  BY <1>1, StateTells
<1>3. target = Substitute[program.apis[p].target]
  BY <1>2 DEF ScannedWell
<1>4. Within(program.apis[p]) = {Substitute[program.apis[p].target]}
  BY <1>2 DEF Within, IsStruct
<1>5. Holds(Popped) = {target} /\ NamedBy(Popped) = {target}
  BY <1>1, <1>2, <1>3, <1>4, HoldingIs
<1>6. Popped \in Defined
  <2>1. program.apis[p].kind # "other"
    BY <1>2
  <2> QED
    BY <1>1, <1>2, <2>1, WhoIs
<1>7. Aim = results[target]
  BY DEF Aim
<1> QED
  BY <1>2, <1>3, <1>5, <1>6, <1>7

LEMMA AdoptIs ==
    ASSUME TypeInv, RecordInv, AdoptTarget
    PROVE  /\ phase = "requests" /\ phase' = "requests" /\ program' = program
           /\ requests' = requests /\ awaiting' = awaiting /\ Popping
           /\ results[Popped].state = "alias"
           /\ \A m \in Name : m # Popped => results'[m] = results[m]
           /\ results'[Popped].state = Aim.state /\ Aim.state \in {"pod", "unsafe"}
           /\ results'[Popped].target = results[Popped].target
           /\ results'[Popped].cause = Aim.cause
<1>1. Popped \in Name /\ results[Popped].target \in Name
  BY PoppedIs DEF AdoptTarget
<1>2. /\ phase = "requests" /\ phase' = "requests" /\ program' = program
      /\ requests' = requests /\ awaiting' = awaiting /\ Popping
      /\ results[Popped].state = "alias" /\ Aim.state \in {"pod", "unsafe"}
  BY DEF AdoptTarget, Popping
<1>3. results' = [results EXCEPT ![Popped] = Record(Aim.state, results[Popped].target, <<>>, Aim.cause)]
  BY DEF AdoptTarget
<1>4. results \in [Name -> Recorded]
  BY TypeFacts
<1>5. /\ \A m \in Name : m # Popped => results'[m] = results[m]
      /\ results'[Popped] = Record(Aim.state, results[Popped].target, <<>>, Aim.cause)
  BY <1>1, <1>3, <1>4
<1>6. /\ results'[Popped].state = Aim.state /\ results'[Popped].target = results[Popped].target
      /\ results'[Popped].cause = Aim.cause
  BY <1>5 DEF Record
<1> QED
  BY <1>2, <1>5, <1>6

LEMMA NextRecord == TypeInv /\ WalkInv /\ RecordInv /\ [Next]_vars => RecordInv'
<1> SUFFICES ASSUME TypeInv, WalkInv, RecordInv, [Next]_vars PROVE RecordInv'
  OBVIOUS
<1>1. /\ \A p \in Places(program) : Done(p)' => Done(p) \/ (ScanApi /\ p = at)
      /\ \A p \in Structs : Taken(p)' => Taken(p) \/ (IngestStruct /\ p = order[at])
      /\ phase' \in Judging => phase \in Judging
  BY WhatSettles
<1>2. /\ program' = program /\ program \in Programs /\ Structs' = Structs
      /\ Places(program)' = Places(program)
  BY ProgramStays, SameLibrary, TypeFacts
<1>3. /\ \A p \in Places(program) : Named(p) \in Name
      /\ \A p, q \in Places(program) : Named(p) = Named(q) => p = q
      /\ \A p \in Structs : p \in Places(program) /\ program.apis[p].kind = "struct"
      /\ \A p \in Places(program) : Named(p) \in Defined <=> program.apis[p].kind # "other"
      /\ \A p \in Places(program) : program.apis[p].kind = "struct" => p \in Structs
  <2>1. \A p \in Places(program) : Named(p) \in Name
    BY <1>2, Libraries
  <2>2. \A p, q \in Places(program) : Named(p) = Named(q) => p = q
    BY <1>2, Libraries
  <2>3. \A p \in Structs : p \in Places(program) /\ program.apis[p].kind = "struct"
    BY <1>2, StructFacts
  <2>4. \A p \in Places(program) :
            /\ Named(p) \in Defined <=> program.apis[p].kind # "other"
            /\ program.apis[p].kind = "struct" => p \in Structs
    BY <1>2, <2>1, WhoIs
  <2> QED
    BY <2>1, <2>2, <2>3, <2>4
<1>4. /\ UndefinedInv
      /\ \A p \in Places(program) : Done(p) => ScannedWell(p)
      /\ \A p \in Structs : Taken(p) => IngestedWell(p)
  BY RecordIs DEF RecordInv
<1>5. SUFFICES /\ UndefinedInv'
               /\ \A p \in Places(program) : Done(p)' => ScannedWell(p)'
               /\ \A p \in Structs : Taken(p)' => IngestedWell(p)'
  <2>1. /\ ScannedInv' <=> \A p \in Places(program)' : Done(p)' => ScannedWell(p)'
        /\ IngestedInv' <=> \A p \in Structs' : Taken(p)' => IngestedWell(p)'
    BY <1>2 DEF ScannedInv, IngestedInv, ScannedWell, IngestedWell, Named
  <2> QED
    BY <1>2, <2>1 DEF RecordInv
<1>6. ASSUME \A m \in Name : results'[m] = results[m], ~IngestStruct,
             ScanApi => program.apis[at].kind \in {"struct", "other"}
      PROVE  /\ UndefinedInv'
             /\ \A p \in Places(program) : Done(p)' => ScannedWell(p)'
             /\ \A p \in Structs : Taken(p)' => IngestedWell(p)'
  <2>1. /\ UndefinedInv'
        /\ \A p : Named(p) \in Name /\ Named(p) \notin {} /\ ScannedWell(p) => ScannedWell(p)'
        /\ \A p : Named(p) \in Name /\ Named(p) \notin {} /\ IngestedWell(p) => IngestedWell(p)'
    <3> DEFINE N == {}
    <3>1. \A m \in Name \ N : results'[m] = results[m]
      BY <1>6
    <3>2. \A m \in N \cap Name : m \in Defined
      OBVIOUS
    <3>3. program' = program /\ UndefinedInv /\ (phase' \in Judging => phase \in Judging)
      BY <1>1, <1>2, <1>4
    <3> HIDE DEF N
    <3>4. /\ UndefinedInv'
          /\ \A p : Named(p) \in Name /\ Named(p) \notin N /\ ScannedWell(p) => ScannedWell(p)'
          /\ \A p : Named(p) \in Name /\ Named(p) \notin N /\ IngestedWell(p) => IngestedWell(p)'
      BY <3>1, <3>2, <3>3, RecordKept
    <3> QED
      BY <3>4 DEF N
  <2>2. ASSUME NEW p \in Places(program), ScanApi, p = at PROVE ScannedWell(p)'
    <3>1. program.apis[p].kind \in {"struct", "other"}
      BY <1>6, <2>2
    <3>2. program'.apis[p].kind \in {"struct", "other"}
      BY <1>2, <3>1
    <3> QED
      BY <3>2 DEF ScannedWell
  <2> QED
    BY <1>1, <1>3, <1>4, <1>6, <2>1, <2>2
<1>7. CASE ScanApi
  <2>1. /\ at \in Places(program) /\ \A m \in Name : m # Named(at) => results'[m] = results[m]
        /\ program.apis[at].kind \in {"struct", "other"} => \A m \in Name : results'[m] = results[m]
        /\ program.apis[at].kind \notin {"struct", "other"} => \A p : p = at => ScannedWell(p)'
        /\ ~IngestStruct
        /\ phase = "scan" /\ phase' = "scan"
    BY <1>7, ScanIs DEF IngestStruct
  <2>2. CASE program.apis[at].kind \in {"struct", "other"}
    BY <1>6, <2>1, <2>2
  <2>3. CASE program.apis[at].kind \notin {"struct", "other"}
    <3>0. program.apis[at].kind # "other"
      BY <2>3
    <3>1. /\ UndefinedInv'
          /\ \A p : Named(p) \in Name /\ Named(p) \notin {Named(at)} /\ ScannedWell(p) => ScannedWell(p)'
      BY <1>1, <1>2, <1>3, <1>4, <2>1, <3>0, RecordKept
    <3>2. \A p \in Places(program) : Done(p)' => ScannedWell(p)'
      BY <1>1, <1>3, <1>4, <2>1, <2>3, <3>1
    <3>3. \A p \in Structs : ~Taken(p)'
      BY <2>1 DEF Taken
    <3> QED
      BY <3>1, <3>2, <3>3
  <2> QED
    BY <2>2, <2>3
<1>8. CASE IngestStruct
  <2>1. /\ order[at] \in Structs /\ \A m \in Name : m # Named(order[at]) => results'[m] = results[m]
        /\ \A p : p = order[at] => IngestedWell(p)'
        /\ phase = "ingest" /\ ~ScanApi
    BY <1>8, IngestIs DEF ScanApi
  <2>2. Named(order[at]) \in Defined
    <3>1. program.apis[order[at]].kind # "other" /\ order[at] \in Places(program)
      BY <1>3, <2>1
    <3> QED
      BY <1>3, <3>1
  <2>3. /\ UndefinedInv'
        /\ \A p : Named(p) \in Name /\ Named(p) \notin {Named(order[at])} /\ ScannedWell(p) => ScannedWell(p)'
        /\ \A p : Named(p) \in Name /\ Named(p) \notin {Named(order[at])} /\ IngestedWell(p) => IngestedWell(p)'
    BY <1>1, <1>2, <1>4, <2>1, <2>2, RecordKept
  <2>4. ASSUME NEW p \in Places(program), Done(p)' PROVE ScannedWell(p)'
    <3>1. CASE p # order[at]
      <4>1. Named(p) # Named(order[at]) /\ Done(p) /\ Named(p) \in Name
        BY <1>1, <1>3, <2>1, <2>4, <3>1
      <4> QED
        BY <1>4, <2>3, <4>1
    <3>2. CASE p = order[at]
      <4>1. program'.apis[p].kind = "struct"
        BY <1>2, <1>3, <2>1, <3>2
      <4> QED
        BY <4>1 DEF ScannedWell
    <3> QED
      BY <3>1, <3>2
  <2>5. ASSUME NEW p \in Structs, Taken(p)' PROVE IngestedWell(p)'
    <3>1. CASE p # order[at]
      <4>1. Named(p) # Named(order[at]) /\ Taken(p) /\ Named(p) \in Name
        BY <1>1, <1>3, <2>1, <2>5, <3>1
      <4> QED
        BY <1>4, <2>3, <4>1
    <3>2. CASE p = order[at]
      BY <2>1, <3>2
    <3> QED
      BY <3>1, <3>2
  <2> QED
    BY <2>3, <2>4, <2>5
<1>9. CASE MakePod
  <2>1. PICK q \in Structs :
            /\ Named(q) = Popped /\ IngestedWell(q) /\ Popped \in Defined
            /\ phase = "requests" /\ phase' = "requests" /\ program' = program
            /\ results[Popped].deps = FieldDependencies(program.apis[q])
            /\ \A m \in Name : m # Popped => results'[m] = results[m]
            /\ results'[Popped].deps = results[Popped].deps
            /\ results'[Popped].state = "pod" /\ results[Popped].state = "safe"
    BY <1>9, MakePodIs
  <2>2. /\ UndefinedInv'
        /\ \A p : Named(p) \in Name /\ Named(p) \notin {Popped} /\ ScannedWell(p) => ScannedWell(p)'
        /\ \A p : Named(p) \in Name /\ Named(p) \notin {Popped} /\ IngestedWell(p) => IngestedWell(p)'
    BY <1>1, <1>2, <1>4, <2>1, RecordKept
  <2>3. ~ScanApi /\ ~IngestStruct
    BY <2>1 DEF ScanApi, IngestStruct
  <2>4. ScannedWell(q)'
    <3>1. program'.apis[q].kind = "struct"
      BY <1>2, <1>3
    <3> QED
      BY <3>1 DEF ScannedWell
  <2>5. IngestedWell(q)'
    <3>1. Named(q)' = Popped /\ (program.apis[q])' = program.apis[q]
      BY <1>2, <2>1 DEF Named
    <3>2. (results[Named(q)])' = results'[Popped]
      BY <3>1
    <3>3. program.apis[q].facts \cap OwnFlaws = {}
      <4>1. results[Named(q)].state # "unsafe"
        BY <2>1
      <4> QED
        BY <2>1, <4>1 DEF IngestedWell
    <3> QED
      BY <2>1, <3>1, <3>2, <3>3 DEF IngestedWell, Judging
  <2>6. ASSUME NEW p \in Places(program), p # q PROVE Named(p) \in Name /\ Named(p) \notin {Popped}
    BY <1>3, <2>1, <2>6
  <2>7. \A p \in Places(program) : Done(p) => ScannedWell(p)'
    BY <1>4, <2>2, <2>4, <2>6
  <2>8. \A p \in Structs : Taken(p) => IngestedWell(p)'
    BY <1>3, <1>4, <2>2, <2>5, <2>6
  <2> QED
    BY <1>1, <1>3, <2>2, <2>3, <2>7, <2>8
<1>10. CASE AdoptTarget
  <2>1. /\ phase = "requests" /\ phase' = "requests" /\ Popping
        /\ results[Popped].state = "alias"
        /\ \A m \in Name : m # Popped => results'[m] = results[m]
        /\ results'[Popped].state = Aim.state /\ Aim.state \in {"pod", "unsafe"}
        /\ results'[Popped].target = results[Popped].target
    BY <1>10, AdoptIs
  <2>2. PICK q \in Places(program) :
            /\ Named(q) = Popped /\ program.apis[q].kind = "alias" /\ ScannedWell(q)
            /\ Popped \in Defined
    BY <2>1, AliasIs
  <2>3. /\ UndefinedInv'
        /\ \A p : Named(p) \in Name /\ Named(p) \notin {Popped} /\ ScannedWell(p) => ScannedWell(p)'
        /\ \A p : Named(p) \in Name /\ Named(p) \notin {Popped} /\ IngestedWell(p) => IngestedWell(p)'
    BY <1>1, <1>2, <1>4, <2>1, <2>2, RecordKept
  <2>4. ~ScanApi /\ ~IngestStruct
    BY <2>1 DEF ScanApi, IngestStruct
  <2>5. ScannedWell(q)'
    <3>1. Named(q)' = Popped /\ (program.apis[q])' = program.apis[q]
      BY <1>2, <2>2 DEF Named
    <3>2. (results[Named(q)])' = results'[Popped]
      BY <3>1
    <3>3. results'[Popped].target = Substitute[program.apis[q].target]
      BY <2>1, <2>2 DEF ScannedWell
    <3>4. results'[Popped].state \in {"alias", "pod", "unsafe"} /\ phase' \notin Judging
      BY <2>1 DEF Judging
    <3>5. program.apis[q].kind = "alias"
      BY <2>2
    <3> QED
      BY <3>1, <3>2, <3>3, <3>4, <3>5 DEF ScannedWell
  <2>6. ASSUME NEW p \in Places(program), p # q PROVE Named(p) \in Name /\ Named(p) \notin {Popped}
    BY <1>3, <2>2, <2>6
  <2>7. \A p \in Places(program) : Done(p) => ScannedWell(p)'
    BY <1>4, <2>3, <2>5, <2>6
  <2>8. ASSUME NEW p \in Structs PROVE p # q
    <3>1. program.apis[p].kind = "struct"
      BY <1>3
    <3> QED
      BY <2>2, <3>1
  <2>9. \A p \in Structs : Taken(p) => IngestedWell(p)'
    BY <1>3, <1>4, <2>3, <2>6, <2>8
  <2> QED
    BY <1>1, <1>3, <2>3, <2>4, <2>7, <2>9
<1>11. CASE UNCHANGED results /\ ~ScanApi /\ ~IngestStruct
  BY <1>6, <1>11
<1>12. CASE EndScan \/ NextRoot \/ GoDown \/ PassOver \/ ComeBackUp \/ EndOrder \/ EndIngest
            \/ RefuseUnknown \/ RefuseUnsafe \/ AlreadyPod \/ AwaitTarget \/ RefuseCircle
            \/ RefuseUnknownTarget \/ EndRequests \/ AnalyzeApi \/ EndAnalyze \/ UNCHANGED vars
  <2>1. UNCHANGED results
    BY <1>12 DEF EndScan, NextRoot, GoDown, PassOver, ComeBackUp, EndOrder, EndIngest,
       RefuseUnknown, RefuseUnsafe, AlreadyPod, AwaitTarget, RefuseCircle, Refuse,
       RefuseUnknownTarget, EndRequests, AnalyzeApi, EndAnalyze, vars
  <2> QED
    BY <1>7, <1>8, <1>11, <2>1
<1> QED
  BY <1>7, <1>8, <1>9, <1>10, <1>12 DEF Next

-------------------------------------------------------------------------------
(* What has to become POD. *)
LEMMA EndIngestIs ==
    ASSUME TypeInv, RecordInv, WalkInv, EndIngest
    PROVE  /\ program' = program /\ results' = results /\ program \in Programs
           /\ Range(requests') = Wanted
           /\ \A n \in Name : results[n].state = "pod" =>
                  Holds(n) = {} /\ NamedBy(n) = {} /\ GrantedFreely(n)
<1>1. phase = "ingest" /\ phase' = "requests" /\ program' = program /\ results' = results
  BY DEF EndIngest
<1>2. program \in Programs /\ at \in Nat /\ order \in Seq(Structs)
  BY TypeFacts
<1>3. Range(requests') = Wanted
  <2>1. program.pods \in Seq(Spelling)
    BY <1>2, Libraries DEF Program
  <2>2. Len(program.pods) \in Nat
    BY <2>1
  <2>3. requests' = [i \in 1..Len(program.pods) |-> Resolve(program.pods[i])]
    BY DEF EndIngest
  <2> QED
    BY <2>3 DEF Wanted, Range
<1>4. \A p \in Structs : Taken(p)
  <2>1. Len(order) \in Nat /\ DOMAIN order = 1..Len(order)
    <3>1. order \in Seq(Structs)
      BY <1>2
    <3> QED
      BY <3>1
  <2>2. at > Len(order)
    BY DEF EndIngest
  <2>3. \A k \in 1..Len(order) : k < at
    BY <1>2, <2>1, <2>2
  <2>4. Structs \subseteq Range(order)
    BY <1>1 DEF WalkInv, AllOrdered
  <2> QED
    BY <1>1, <2>1, <2>3, <2>4 DEF Taken, Range
<1>5. \A p : Done(p)
  BY <1>1 DEF Done
<1>6. ASSUME NEW n \in Name, results[n].state = "pod"
      PROVE  Holds(n) = {} /\ NamedBy(n) = {} /\ GrantedFreely(n)
  <2>0. phase \in Judging
    BY <1>1 DEF Judging
  <2>1. Settled(n)
    BY <1>4, <1>5 DEF Settled
  <2>2. ASSUME NEW p \in Structs, Named(p) = n, IngestedWell(p) PROVE FALSE
    BY <1>6, <2>0, <2>2 DEF IngestedWell
  <2>3. ASSUME NEW p \in Places(program), Named(p) = n, program.apis[p].kind = "alias", ScannedWell(p)
        PROVE  FALSE
    <3>1. results[n].state = "alias"
      BY <2>0, <2>3 DEF ScannedWell
    <3> QED
      BY <1>6, <3>1
  <2>4. CASE n \notin Defined /\ Initially(program.blocklist)[n].state = "pod"
    BY <1>2, <2>4, WhoIs DEF GrantedFreely
  <2>5. ASSUME NEW p \in Places(program), Named(p) = n,
               program.apis[p].kind \in {"pointer alias", "enum", "pod elsewhere"}
        PROVE  Holds(n) = {} /\ NamedBy(n) = {} /\ GrantedFreely(n)
    <3>1. program.apis[p].kind # "struct" /\ program.apis[p].kind # "alias"
      BY <2>5
    <3>2. Within(program.apis[p]) = {}
      BY <3>1 DEF Within, IsStruct
    <3>3. Holds(n) = {} /\ NamedBy(n) = {}
      BY <1>2, <2>5, <3>2, HoldingIs
    <3>4. GrantedFreely(n)
      BY <1>2, <2>5, Libraries DEF GrantedFreely, Named
    <3> QED
      BY <3>3, <3>4
  <2> QED
    BY <1>6, <2>1, <2>2, <2>3, <2>4, <2>5, StateTells
<1> QED
  BY <1>1, <1>2, <1>3, <1>6

LEMMA InitAsked == Init => AskedInv
  BY DEF Init, AskedInv

LEMMA NextAsked == TypeInv /\ WalkInv /\ RecordInv /\ AskedInv /\ [Next]_vars => AskedInv'
<1> SUFFICES ASSUME TypeInv, WalkInv, RecordInv, AskedInv, [Next]_vars PROVE AskedInv'
  OBVIOUS
<1> DEFINE Late == {"requests", "analyze", "done"}
           Satisfied == /\ \A n \in Wanted : Asked(n)
                        /\ \A n \in Name : results[n].state = "pod" => \A m \in Holds(n) : Asked(m)
<1>1. program \in Programs /\ program' = program /\ Wanted \subseteq Name
      /\ \A n \in Name : Holds(n) \subseteq Name
  <2>1. program \in Programs
    BY TypeFacts
  <2>2. Wanted \subseteq Name
    BY <2>1, ReachedIs
  <2> QED
    BY <2>1, <2>2, ProgramStays, HoldingType
<1>2. Wanted' = Wanted /\ \A n : Holds(n)' = Holds(n)
  BY <1>1, SameLibrary
<1>3. /\ phase \in Late => Satisfied /\ (phase # "requests" => requests = <<>>)
      /\ Satisfied' /\ (phase' \in Late /\ phase' # "requests" => requests' = <<>>) => AskedInv'
  BY DEF AskedInv
<1>4. ASSUME \A m \in Name : Asked(m) => Asked(m)',
             \A n \in Name : results'[n].state = "pod" /\ results[n].state # "pod" =>
                 \A m \in Holds(n) : Asked(m)',
             Satisfied
      PROVE  Satisfied'
  BY <1>1, <1>2, <1>4
<1> HIDE DEF Satisfied
<1>5. CASE EndIngest
  <2>1. /\ results' = results /\ Range(requests') = Wanted
        /\ \A n \in Name : results[n].state = "pod" => Holds(n) = {}
    BY <1>5, EndIngestIs
  <2>2. Satisfied'
    BY <1>2, <2>1 DEF Satisfied, Asked
  <2>3. phase' = "requests"
    BY <1>5 DEF EndIngest
  <2> QED
    BY <1>3, <2>2, <2>3
<1>6. CASE MakePod
  <2>1. PICK p \in Structs :
            /\ Named(p) = Popped /\ phase = "requests" /\ phase' = "requests"
            /\ results[Popped].deps = FieldDependencies(program.apis[p])
            /\ \A m \in Name : m # Popped => results'[m] = results[m]
            /\ results'[Popped].state = "pod"
    BY <1>6, MakePodIs
  <2>2. requests \in Seq(Name) /\ requests # <<>> /\ Popped = Last(requests) /\ Popped \in Name
    BY <1>6, PoppedIs, TypeFacts DEF MakePod, Popping, Popped
  <2>3. requests' = Front(requests) \o results[Popped].deps
    BY <1>6 DEF MakePod
  <2>4. results[Popped].deps \in Seq(Name) /\ Front(requests) \in Seq(Name)
        /\ Range(requests) = Range(Front(requests)) \cup {Popped}
    BY <2>2, TypeFacts, FrontIs
  <2>5. Range(requests') = Range(Front(requests)) \cup Range(results[Popped].deps)
    BY <2>3, <2>4, ConcatIs
  <2>6. Range(results[Popped].deps) = Holds(Popped)
    BY <1>1, <2>1, StructFacts
  <2>7. \A m \in Name : Asked(m) => Asked(m)'
    BY <2>1, <2>4, <2>5 DEF Asked
  <2>8. \A n \in Name : results'[n].state = "pod" /\ results[n].state # "pod" =>
            \A m \in Holds(n) : Asked(m)'
    BY <2>1, <2>5, <2>6 DEF Asked
  <2>9. Satisfied'
    BY <1>3, <1>4, <2>1, <2>7, <2>8
  <2> QED
    BY <1>3, <2>1, <2>9
<1>7. CASE AdoptTarget
  <2>1. /\ phase = "requests" /\ phase' = "requests" /\ requests' = requests /\ Popping
        /\ results[Popped].state = "alias"
        /\ \A m \in Name : m # Popped => results'[m] = results[m]
        /\ results'[Popped].state = Aim.state
    BY <1>7, AdoptIs
  <2>2. Holds(Popped) = {results[Popped].target} /\ Aim = results[results[Popped].target]
    BY <2>1, AliasIs
  <2>3. \A m \in Name : results[m].state = "pod" => results'[m].state = "pod"
    BY <2>1
  <2>4. \A m \in Name : Asked(m) => Asked(m)'
    BY <2>1, <2>3 DEF Asked
  <2>5. results[Popped].target \in Name
    BY <2>1, PoppedIs
  <2>6. \A n \in Name : results'[n].state = "pod" /\ results[n].state # "pod" =>
            \A m \in Holds(n) : Asked(m)'
    <3>1. ASSUME NEW n \in Name, results'[n].state = "pod", results[n].state # "pod",
                 NEW m \in Holds(n)
          PROVE  Asked(m)'
      <4>1. n = Popped
        BY <2>1, <3>1
      <4>2. m = results[Popped].target /\ results[m].state = "pod"
        BY <2>1, <2>2, <3>1, <4>1
      <4> QED
        BY <2>3, <2>5, <4>2 DEF Asked
    <3> QED
      BY <3>1
  <2>7. Satisfied'
    BY <1>3, <1>4, <2>1, <2>4, <2>6
  <2> QED
    BY <1>3, <2>1, <2>7
<1>8. CASE AlreadyPod
  <2>1. /\ phase = "requests" /\ phase' = "requests" /\ results' = results
        /\ requests # <<>> /\ requests' = Front(requests) /\ results[Popped].state = "pod"
    BY <1>8 DEF AlreadyPod, Popping
  <2>2. Range(requests) = Range(Front(requests)) \cup {Popped}
    BY <2>1, TypeFacts, FrontIs DEF Popped
  <2>3. \A m \in Name : Asked(m) => Asked(m)'
    BY <2>1, <2>2 DEF Asked
  <2>4. Satisfied'
    BY <1>3, <1>4, <2>1, <2>3
  <2> QED
    BY <1>3, <2>1, <2>4
<1>9. CASE AwaitTarget
  <2>1. /\ phase = "requests" /\ phase' = "requests" /\ results' = results /\ Popping
        /\ requests' = Append(requests, results[Popped].target)
    BY <1>9 DEF AwaitTarget, Popping
  <2>2. requests \in Seq(Name) /\ results[Popped].target \in Name
    BY <2>1, PoppedIs, TypeFacts
  <2>3. Range(requests') = Range(requests) \cup {results[Popped].target}
    BY <2>1, <2>2, PushIs
  <2>4. \A m \in Name : Asked(m) => Asked(m)'
    BY <2>1, <2>3 DEF Asked
  <2>5. Satisfied'
    BY <1>3, <1>4, <2>1, <2>4
  <2> QED
    BY <1>3, <2>1, <2>5
<1>10. ASSUME UNCHANGED <<results, requests>>, phase \in Late, phase' \in Late,
              phase # "requests" => phase' # "requests", phase' # "requests" => requests = <<>>
       PROVE  AskedInv'
  <2>1. \A m \in Name : Asked(m) => Asked(m)'
    BY <1>10 DEF Asked
  <2>2. Satisfied'
    BY <1>3, <1>4, <1>10, <2>1
  <2> QED
    BY <1>3, <1>10, <2>2
<1>11. CASE EndRequests
  <2>1. /\ UNCHANGED <<results, requests>> /\ phase = "requests" /\ phase' = "analyze" /\ requests = <<>>
    BY <1>11 DEF EndRequests
  <2> QED
    BY <1>10, <2>1
<1>12. CASE AnalyzeApi \/ EndAnalyze
  <2>1. UNCHANGED <<results, requests>> /\ phase = "analyze" /\ phase' \in {"analyze", "done"}
    BY <1>12 DEF AnalyzeApi, EndAnalyze
  <2> QED
    BY <1>3, <1>10, <2>1
<1>13. CASE UNCHANGED vars
  <2>1. UNCHANGED <<results, requests, phase>>
    BY <1>13 DEF vars
  <2>2. CASE phase \in Late
    BY <1>3, <1>10, <2>1, <2>2
  <2>3. CASE phase \notin Late
    BY <2>1, <2>3 DEF AskedInv
  <2> QED
    BY <2>2, <2>3
<1>14. CASE phase' \notin Late
  BY <1>14 DEF AskedInv
<1>15. CASE ScanApi \/ EndScan \/ NextRoot \/ GoDown \/ PassOver \/ ComeBackUp \/ EndOrder \/ IngestStruct
  <2>1. phase' \in {"scan", "order", "ingest"}
    BY <1>15 DEF ScanApi, EndScan, NextRoot, GoDown, PassOver, ComeBackUp, EndOrder, IngestStruct
  <2> QED
    BY <1>14, <2>1
<1>16. CASE RefuseUnknown \/ RefuseUnsafe \/ RefuseCircle \/ RefuseUnknownTarget
  <2>1. phase' = "refused"
    BY <1>16 DEF RefuseUnknown, RefuseUnsafe, RefuseCircle, RefuseUnknownTarget, Refuse
  <2> QED
    BY <1>14, <2>1
<1> QED
  BY <1>5, <1>6, <1>7, <1>8, <1>9, <1>11, <1>12, <1>13, <1>15, <1>16 DEF Next

(* Every typedef and enum keeps the kind it is given, and every struct. *)
LEMMA InitKinds == Init => KindsInv
  BY DEF Init, KindsInv

LEMMA NextKinds == TypeInv /\ KindsInv /\ [Next]_vars => KindsInv'
<1> SUFFICES ASSUME TypeInv, KindsInv, [Next]_vars PROVE KindsInv'
  OBVIOUS
<1>1. /\ program \in Programs /\ Len(program.apis) \in Nat /\ at \in Nat
      /\ Places(program) = 1..Len(program.apis) /\ program' = program
      /\ kinds \in [Name -> KindNames]
  BY TypeFacts, TypeRest, Libraries, ProgramStays DEF Places
<1>2. /\ \A p \in Places(program) : Named(p) \in Name
      /\ \A p, q \in Places(program) : Named(p) = Named(q) => p = q
      /\ \A p : Named(p)' = Named(p)
  BY <1>1, Libraries, SameLibrary
<1>3. CASE EndRequests
  <2>1. phase' = "analyze" /\ at' = 1
    BY <1>3 DEF EndRequests
  <2>2. \A p \in Places(program) : ~(p < at')
    BY <1>1, <2>1
  <2> QED
    BY <1>1, <2>1, <2>2 DEF KindsInv
<1>4. CASE AnalyzeApi
  <2>1. /\ phase = "analyze" /\ phase' = "analyze" /\ at <= Len(program.apis) /\ at' = at + 1
        /\ results' = results
        /\ kinds' = [kinds EXCEPT ![Named(at)] = KindOf(program.apis[at])]
    BY <1>4 DEF AnalyzeApi, Named
  <2>2. ASSUME NEW p \in Places(program), p < at + 1, program.apis[p].kind \in {"struct", "enum"}
        PROVE  kinds'[Named(p)] = KindOf(program.apis[p])'
    <3>1. KindOf(program.apis[p])' = KindOf(program.apis[p])
      BY <1>1, <2>1, <2>2 DEF KindOf
    <3>2. CASE p = at
      BY <1>1, <1>2, <2>1, <3>1, <3>2
    <3>3. CASE p # at
      <4>1. p < at
        BY <1>1, <2>2, <3>3
      <4>2. at \in Places(program)
        BY <1>1, <2>1, <4>1
      <4>3. kinds'[Named(p)] = kinds[Named(p)]
        BY <1>1, <1>2, <2>1, <3>3, <4>2
      <4> QED
        BY <2>1, <2>2, <3>1, <4>1, <4>3 DEF KindsInv
    <3> QED
      BY <3>2, <3>3
  <2> QED
    BY <1>1, <1>2, <2>1, <2>2 DEF KindsInv
<1>5. CASE EndAnalyze
  <2>1. /\ phase = "analyze" /\ phase' = "done" /\ at > Len(program.apis)
        /\ UNCHANGED <<results, kinds>>
    BY <1>5 DEF EndAnalyze
  <2>2. \A p \in Places(program) : p < at
    BY <1>1, <2>1
  <2> QED
    BY <1>1, <1>2, <2>1, <2>2 DEF KindsInv, KindOf
<1>6. CASE UNCHANGED vars
  BY <1>1, <1>2, <1>6 DEF vars, KindsInv, KindOf
<1>7. CASE phase' \notin {"analyze", "done"}
  BY <1>7 DEF KindsInv
<1>8. CASE ScanApi \/ EndScan \/ NextRoot \/ GoDown \/ PassOver \/ ComeBackUp \/ EndOrder \/ IngestStruct
           \/ EndIngest
  <2>1. phase' \in {"scan", "order", "ingest", "requests"}
    BY <1>8 DEF ScanApi, EndScan, NextRoot, GoDown, PassOver, ComeBackUp, EndOrder, IngestStruct, EndIngest
  <2> QED
    BY <1>7, <2>1
<1>9. CASE RefuseUnknown \/ RefuseUnsafe \/ RefuseCircle \/ RefuseUnknownTarget
  <2>1. phase' = "refused"
    BY <1>9 DEF RefuseUnknown, RefuseUnsafe, RefuseCircle, RefuseUnknownTarget, Refuse
  <2> QED
    BY <1>7, <2>1
<1>10. CASE AlreadyPod \/ MakePod \/ AdoptTarget \/ AwaitTarget
  <2>1. phase' = "requests"
    BY <1>10 DEF AlreadyPod, MakePod, AdoptTarget, AwaitTarget, Popping
  <2> QED
    BY <1>7, <2>1
<1> QED
  BY <1>3, <1>4, <1>5, <1>6, <1>8, <1>9, <1>10 DEF Next

LEMMA ClosedIs == TypeInv /\ AskedInv => PodIsClosed
<1> SUFFICES ASSUME TypeInv, AskedInv, phase \in {"analyze", "done"}
             PROVE  /\ \A n \in Wanted : results[n].state = "pod"
                    /\ \A n \in Name : results[n].state = "pod" =>
                           \A m \in Holds(n) : results[m].state = "pod"
  BY DEF PodIsClosed
<1>1. phase # "requests" /\ phase \in {"requests", "analyze", "done"}
  OBVIOUS
<1>2. requests = <<>>
  BY <1>1 DEF AskedInv
<1>3. Range(requests) = {}
  BY <1>2 DEF Range
<1>4. \A n : Asked(n) => results[n].state = "pod"
  BY <1>3 DEF Asked
<1> QED
  BY <1>1, <1>4 DEF AskedInv

LEMMA HeldIsKnown ==
    ASSUME BlobsAreUnnamed
    PROVE  TypeInv /\ RecordInv /\ KindsInv /\ PodIsClosed => PodHoldsPod
<1> SUFFICES ASSUME TypeInv, RecordInv, KindsInv, PodIsClosed PROVE PodHoldsPod
  OBVIOUS
<1> SUFFICES ASSUME phase = "done", NEW api \in Apis, IsStruct(api), kinds[api.name] = "pod",
                    NEW n \in Closure(Holds(api.name), Naming(program))
             PROVE  \/ kinds[n] = "ignored" \/ n \in PodSafeTypes \/ IsAlias(n)
                    \/ \E a \in Apis : a.name = n /\ a.kind = "pointer alias"
  BY DEF PodHoldsPod
<1>0. PICK q \in Places(program) : program.apis[q] = api
  <2>1. program \in Programs
    BY TypeFacts
  <2> QED
    BY <2>1, Libraries
<1>n. Named(q) = api.name /\ IsStruct(program.apis[q]) /\ kinds[Named(q)] = "pod"
      /\ n \in Closure(Holds(Named(q)), Naming(program))
  BY <1>0 DEF Named
<1>1. program \in Programs /\ \A m : Settled(m)
  BY TypeFacts, AllSettled
<1>2. q \in Structs /\ Named(q) \in Name /\ program.apis[q].kind = "struct"
  BY <1>n, <1>1, Libraries DEF Structs, IsStruct
<1>3. \A p \in Places(program) :
          program.apis[p].kind \in {"struct", "enum"} => kinds[Named(p)] = KindOf(program.apis[p])
  BY DEF KindsInv
<1>4. results[Named(q)].state = "pod"
  <2>1. KindOf(program.apis[q]) = "pod"
    BY <1>n, <1>2, <1>3
  <2> QED
    BY <1>2, <2>1 DEF KindOf, Named
<1>5. \A k \in Name : results[k].state = "pod" => \A m \in Holds(k) : results[m].state = "pod"
  BY DEF PodIsClosed
<1>6. n \in Name /\ results[n].state = "pod"
  <2> DEFINE S == {m \in Name : results[m].state = "pod"}
  <2>1. Holding(program) \in [Name -> SUBSET Name] /\ Naming(program) \in [Name -> SUBSET Name]
        /\ \A m \in Name : Holds(m) \subseteq Name /\ NamedBy(m) \subseteq Holds(m) /\ NamedBy(m) = Naming(program)[m]
    BY <1>1, HoldingType
  <2>2. Holds(Named(q)) \subseteq S /\ Holds(Named(q)) \in SUBSET Name
    BY <1>2, <1>4, <1>5, <2>1
  <2>3. \A m \in S : Naming(program)[m] \subseteq S
    BY <1>5, <2>1
  <2>4. S \in SUBSET Name
    OBVIOUS
  <2> HIDE DEF S
  <2>5. Closure(Holds(Named(q)), Naming(program)) \subseteq S
    BY <2>1, <2>2, <2>3, <2>4, ClosureIsLeast
  <2> QED
    BY <1>n, <2>5 DEF S
<1>7. CASE n \notin Defined /\ Initially(program.blocklist)[n].state = "pod"
  <2>1. n \in KnownSafe
    <3>1. \/ n \in KnownSafe
          \/ Initially(program.blocklist)[n] \in {Unsafe(n, "blocklisted"), Unsafe(n, "known unsafe"), Absent}
      BY <1>6 DEF Initially
    <3>2. /\ Unsafe(n, "blocklisted").state # "pod" /\ Unsafe(n, "known unsafe").state # "pod"
          /\ Absent.state # "pod"
      BY <1>6, StateNames
    <3> QED
      BY <1>7, <3>1, <3>2
  <2> QED
    BY <2>1 DEF PodSafeTypes
<1>8. ASSUME NEW p \in Places(program), Named(p) = n,
             program.apis[p].kind \in {"pointer alias", "enum", "pod elsewhere"}
      PROVE  \/ kinds[n] = "ignored" \/ n \in PodSafeTypes
             \/ \E a \in Apis : a.name = n /\ a.kind = "pointer alias"
  <2>1. program.apis[p] \in Apis /\ program.apis[p].name = n
    BY <1>1, <1>8, Libraries DEF Named
  <2>2. CASE program.apis[p].kind = "pointer alias"
    BY <2>1, <2>2
  <2>3. CASE program.apis[p].kind = "pod elsewhere"
    BY <2>1, <2>3 DEF PodSafeTypes, Apis
  <2>4. CASE program.apis[p].kind = "enum"
    <3>1. kinds[n] = KindOf(program.apis[p])
      BY <1>3, <1>8, <2>4
    <3>2. KindOf(program.apis[p]) \in {"ignored", "enum"}
      BY <2>4 DEF KindOf
    <3> QED
      BY <1>6, <3>1, <3>2 DEF PodSafeTypes
  <2> QED
    BY <1>8, <2>2, <2>3, <2>4
<1>9. ASSUME NEW p \in Structs, Named(p) = n PROVE kinds[n] = "ignored" \/ n \in PodSafeTypes
  <2> DEFINE held == program.apis[p]
  <2>1. /\ p \in Places(program) /\ held \in Api /\ held.kind = "struct" /\ held.name = n
        /\ Holds(n) = Range(FieldDependencies(held))
    BY <1>1, <1>9, StructFacts DEF Named
  <2>2. kinds[n] = KindOf(held)
    BY <1>3, <1>9, <2>1
  <2>3. "blob" \notin held.facts
    <3>1. SUFFICES ASSUME "blob" \in held.facts PROVE FALSE
      OBVIOUS
    <3>2. PICK i \in DOMAIN held.fields : held.fields[i] = [shape |-> "plain", of |-> Opaque]
      BY <1>1, <2>1, <3>1 DEF BlobsAreUnnamed, IsStruct
    <3>3. held.fields[i].shape = "plain" /\ held.fields[i].of = Opaque
      BY <3>2
    <3>4. Opaque \in Holds(n)
      <4>1. HeldByValue(held.fields[i])
        BY <3>3 DEF HeldByValue
      <4>2. Range(FieldDependencies(held)) =
                {held.fields[j].of : j \in {k \in DOMAIN held.fields : HeldByValue(held.fields[k])}}
        BY <2>1, DependenciesIs
      <4> QED
        BY <2>1, <3>3, <4>1, <4>2
    <3>5. results[Opaque].state = "pod"
      BY <1>5, <1>6, <3>4
    <3>6. Opaque \in Name /\ Opaque \notin KnownSafe /\ Opaque \notin KnownUnsafe
      BY NamesAssumption
    <3>7. Opaque \notin Defined
      <4>1. \A k \in Places(program) : Named(k) # Opaque
        BY <1>1 DEF BlobsAreUnnamed, Named
      <4> QED
        BY <1>1, <3>6, <4>1, WhoIs
    <3>8. results[Opaque] = Initially(program.blocklist)[Opaque]
      BY <3>6, <3>7 DEF RecordInv, UndefinedInv
    <3>9. Initially(program.blocklist)[Opaque] \in {Unsafe(Opaque, "blocklisted"), Absent}
      BY <3>6 DEF Initially
    <3>10. Unsafe(Opaque, "blocklisted").state # "pod" /\ Absent.state # "pod"
      BY <3>6, StateNames
    <3> QED
      BY <3>5, <3>8, <3>9, <3>10
  <2>4. KindOf(held) \in {"ignored", "pod"}
    BY <1>6, <2>1, <2>3 DEF KindOf
  <2> QED
    BY <1>6, <2>2, <2>4 DEF PodSafeTypes
<1>10. ASSUME NEW p \in Places(program), Named(p) = n, program.apis[p].kind = "alias" PROVE IsAlias(n)
  BY <1>1, <1>10, Libraries DEF IsAlias, Named
<1> QED
  BY <1>1, <1>6, <1>7, <1>8, <1>9, <1>10, StateTells

(* What was asked for as POD is POD, with all it holds, to any depth.          *)
THEOREM PodStaysClosed == Spec => []PodIsClosed
<1> DEFINE Inv == TypeInv /\ WalkInv /\ RecordInv /\ AskedInv
<1>1. Init => Inv
  BY InitTypes, InitWalk, InitRecord, InitAsked
<1>2. Inv /\ [Next]_vars => Inv'
  BY NextTypes, NextWalk, NextRecord, NextAsked
<1>3. Inv => PodIsClosed
  BY ClosedIs
<1> QED
  BY <1>1, <1>2, <1>3, PTL DEF Spec

(* And whoever asks pod_safe_types hears so, provided that a class bindgen     *)
(* gives up on has a field of no name.                                         *)
THEOREM PodAllTheWay ==
    ASSUME BlobsAreUnnamed
    PROVE  Spec => []PodAllTheWayDown
<1> DEFINE Inv == TypeInv /\ WalkInv /\ RecordInv /\ AskedInv /\ KindsInv
<1>1. Init => Inv
  BY InitTypes, InitWalk, InitRecord, InitAsked, InitKinds
<1>2. Inv /\ [Next]_vars => Inv'
  BY NextTypes, NextWalk, NextRecord, NextAsked, NextKinds
<1>3. Inv => PodAllTheWayDown
  BY ClosedIs, HeldIsKnown DEF PodAllTheWayDown
<1> QED
  BY <1>1, <1>2, <1>3, PTL DEF Spec

-------------------------------------------------------------------------------
(* Why things are as they are. *)
LEMMA FlawsAre ==
    ASSUME program \in Programs, NEW n \in Name
    PROVE  /\ \A p \in Structs : \A fact \in OwnFlaws :
                  Named(p) = n /\ fact \in program.apis[p].facts => fact \in Flaws(n)
           /\ \A p \in Places(program) :
                  Named(p) = n /\ program.apis[p].kind = "complex" => "complex typedef" \in Flaws(n)
           /\ n \in Circle(n) => "circular" \in Flaws(n)
           /\ n \notin Defined =>
                  LET first == Initially(program.blocklist)[n]
                  IN /\ first.state = "absent" => "unknown" \in Flaws(n)
                     /\ first.state = "unsafe" => first.cause.type = n /\ first.cause.why \in Flaws(n)
<1> DEFINE Own == {fact \in OwnFlaws : \E api \in Apis : api.name = n /\ IsStruct(api) /\ fact \in api.facts}
           Complex == {"complex typedef" : api \in {a \in Apis : a.name = n /\ a.kind = "complex"}}
           Circular == {"circular" : m \in Circle(n) \cap {n}}
           Alien == IF n \in Defined THEN {}
                    ELSE IF n \in program.blocklist THEN {"blocklisted"}
                    ELSE IF n \in KnownUnsafe THEN {"known unsafe"}
                    ELSE IF n \in KnownSafe THEN {}
                    ELSE {"unknown"}
<1>1. Flaws(n) = Own \cup Complex \cup Circular \cup Alien
  BY DEF Flaws, OwnFlaws, Circle
<1>2. \A p \in Places(program) : program.apis[p] \in Apis
  BY Libraries
<1>3. ASSUME NEW p \in Structs, NEW fact \in OwnFlaws, Named(p) = n, fact \in program.apis[p].facts
      PROVE  fact \in Own
  <2>1. p \in Places(program) /\ program.apis[p].kind = "struct"
    BY StructFacts
  <2>2. program.apis[p] \in Apis /\ program.apis[p].name = n /\ IsStruct(program.apis[p])
    BY <1>2, <1>3, <2>1 DEF Named, IsStruct
  <2> QED
    BY <1>3, <2>2
<1>4. ASSUME NEW p \in Places(program), Named(p) = n, program.apis[p].kind = "complex"
      PROVE  "complex typedef" \in Complex
  <2>1. program.apis[p] \in {a \in Apis : a.name = n /\ a.kind = "complex"}
    BY <1>2, <1>4 DEF Named
  <2> QED
    BY <2>1
<1>5. n \in Circle(n) => "circular" \in Circular
  OBVIOUS
<1>6. ASSUME n \notin Defined
      PROVE  LET first == Initially(program.blocklist)[n]
             IN /\ first.state = "absent" => "unknown" \in Alien
                /\ first.state = "unsafe" => first.cause.type = n /\ first.cause.why \in Alien
  <2> DEFINE first == Initially(program.blocklist)[n]
  <2>1. first = IF n \in program.blocklist THEN Unsafe(n, "blocklisted")
                ELSE IF n \in KnownSafe THEN IsPod
                ELSE IF n \in KnownUnsafe THEN Unsafe(n, "known unsafe")
                ELSE Absent
    BY DEF Initially
  <2>2. /\ Unsafe(n, "blocklisted").state = "unsafe" /\ Unsafe(n, "known unsafe").state = "unsafe"
        /\ Absent.state = "absent" /\ IsPod.state = "pod"
    BY StateNames
  <2>3. Unsafe(n, "blocklisted").cause.type = n /\ Unsafe(n, "blocklisted").cause.why = "blocklisted"
    BY UnsafeType
  <2>4. Unsafe(n, "known unsafe").cause.type = n /\ Unsafe(n, "known unsafe").cause.why = "known unsafe"
    BY UnsafeType
  <2>5. KnownSafe \cap KnownUnsafe = {}
    BY NamesAssumption
  <2> HIDE DEF first
  <2>6. CASE n \in program.blocklist
    <3>1. first = Unsafe(n, "blocklisted") /\ Alien = {"blocklisted"}
      BY <1>6, <2>1, <2>6
    <3>2. first.state = "unsafe" /\ first.cause.type = n /\ first.cause.why = "blocklisted"
      BY <2>2, <2>3, <3>1
    <3> QED
      BY <3>1, <3>2 DEF first
  <2>7. CASE n \notin program.blocklist /\ n \in KnownSafe
    <3>1. first = IsPod
      BY <2>1, <2>7
    <3>2. first.state = "pod"
      BY <2>2, <3>1
    <3> QED
      BY <3>2 DEF first
  <2>8. CASE n \notin program.blocklist /\ n \notin KnownSafe /\ n \in KnownUnsafe
    <3>1. first = Unsafe(n, "known unsafe") /\ Alien = {"known unsafe"}
      BY <1>6, <2>1, <2>8
    <3>2. first.state = "unsafe" /\ first.cause.type = n /\ first.cause.why = "known unsafe"
      BY <2>2, <2>4, <3>1
    <3> QED
      BY <3>1, <3>2 DEF first
  <2>9. CASE n \notin program.blocklist /\ n \notin KnownSafe /\ n \notin KnownUnsafe
    <3>1. first = Absent /\ Alien = {"unknown"}
      BY <1>6, <2>1, <2>9
    <3>2. first.state = "absent"
      BY <2>2, <3>1
    <3> QED
      BY <3>1, <3>2 DEF first
  <2> QED
    BY <2>6, <2>7, <2>8, <2>9
<1> HIDE DEF Own, Complex, Circular, Alien
<1> QED
  BY <1>1, <1>3, <1>4, <1>5, <1>6

LEMMA AbsentIsUnknown ==
    ASSUME TypeInv, RecordInv, NEW n \in Name, Settled(n), results[n].state = "absent"
    PROVE  "unknown" \in Flaws(n)
<1>1. n \notin Defined
  BY StateTells
<1>2. results[n] = Initially(program.blocklist)[n]
  BY <1>1 DEF RecordInv, UndefinedInv
<1>3. program \in Programs
  BY TypeFacts
<1>4. Initially(program.blocklist)[n].state = "absent"
  BY <1>2
<1> QED
  BY <1>1, <1>3, <1>4, FlawsAre

LEMMA InitCauses == Init => CausesInv
<1> SUFFICES ASSUME Init, NEW n \in Name, Settled(n), results[n].state = "unsafe"
             PROVE  Explains(results[n].cause, n)
  BY DEF CausesInv
<1>1. TypeInv /\ RecordInv /\ phase = "scan"
  BY InitTypes, InitRecord DEF Init
<1>2. program \in Programs /\ at = 1
  BY DEF Init
<1>3. \A p \in Places(program) : ~Done(p)
  <2>1. Len(program.apis) \in Nat
    BY <1>2, Libraries
  <2>2. \A p \in Places(program) : ~(p < at)
    BY <1>2, <2>1 DEF Places
  <2> QED
    BY <1>1, <2>2 DEF Done
<1>4. n \notin Defined
  <2>1. \A p \in Places(program) : Named(p) # n
    BY <1>3 DEF Settled
  <2> QED
    BY <1>2, <2>1, WhoIs
<1>5. results[n] = Initially(program.blocklist)[n]
  BY <1>1, <1>4 DEF RecordInv, UndefinedInv
<1>6. results[n].cause.type = n /\ results[n].cause.why \in Flaws(n)
  <2>1. Initially(program.blocklist)[n].state = "unsafe"
    BY <1>5
  <2>2. LET first == Initially(program.blocklist)[n]
        IN first.cause.type = n /\ first.cause.why \in Flaws(n)
    BY <1>2, <1>4, <2>1, FlawsAre
  <2> QED
    BY <1>5, <2>2
<1> QED
  BY <1>2, <1>6, FromIs DEF Explains

(* A struct is judged once all it holds is settled, and blamed for what one of *)
(* them is blamed for, or for a flaw of its own.                               *)
LEMMA JudgedFairly ==
    ASSUME TypeInv, DepthInv, RecordInv, CausesInv, IngestStruct,
           Trouble(program.apis[order[at]]) # NoCause
    PROVE  Explains(Trouble(program.apis[order[at]]), Named(order[at]))
<1> DEFINE p == order[at]
           api == program.apis[p]
           n == Named(p)
           cause == Trouble(api)
<1>1. /\ p \in Structs /\ n \in Name /\ at \in 1..Len(order) /\ phase = "ingest" /\ api \in Api
      /\ program \in Programs
  BY IngestIs, TypeFacts
<1>2. Holds(n) = Range(FieldDependencies(api)) /\ api.name = n
  BY <1>1, StructFacts DEF Named
<1>3. /\ OwnTrouble(api, cause) \/ cause = FieldTrouble(api)
      /\ cause # NoCause
  BY <1>1, TroubleIs
<1>4. CASE OwnTrouble(api, cause)
  <2>1. PICK fact \in OwnFlaws : fact \in api.facts /\ cause = [type |-> api.name, why |-> fact]
    BY <1>4 DEF OwnTrouble
  <2>2. cause.type = n /\ cause.why = fact
    BY <1>2, <2>1
  <2>3. fact \in Flaws(n)
    BY <1>1, <2>1, FlawsAre
  <2> QED
    BY <1>1, <2>2, <2>3, FromIs DEF Explains
<1>5. CASE cause = FieldTrouble(api)
  <2> DEFINE bad == {m \in Range(FieldDependencies(api)) : Troubled(m)}
  <2>1. PICK m \in bad : FieldTrouble(api) = IF results[m].state = "absent"
                                             THEN [type |-> m, why |-> "unknown"]
                                             ELSE results[m].cause
    BY <1>1, <1>3, <1>5, FieldTroubleIs
  <2>2. m \in Holds(n) /\ m \in Name /\ results[m].state \in {"absent", "unsafe"}
    BY <1>1, <1>2, HoldingType DEF Troubled
  <2>3. Settled(m)
    <3>1. \A q : Done(q)
      BY <1>1 DEF Done
    <3>2. ASSUME NEW q \in Structs, Named(q) = m PROVE Taken(q)
      <4>1. PICK l \in 1..Len(order) : l < at /\ order[l] = q
        BY <1>1, <2>2, <3>2 DEF DepthInv, AfterInv
      <4> QED
        BY <1>1, <4>1 DEF Taken
    <3> QED
      BY <3>1, <3>2 DEF Settled
  <2>4. From(m) \subseteq From(n) /\ m \in From(m)
    BY <1>1, <2>2, FromIs
  <2>5. CASE results[m].state = "absent"
    <3>1. cause.type = m /\ cause.why = "unknown"
      BY <1>5, <2>1, <2>5
    <3>2. "unknown" \in Flaws(m)
      BY <2>2, <2>3, <2>5, AbsentIsUnknown
    <3> QED
      BY <2>4, <3>1, <3>2 DEF Explains
  <2>6. CASE results[m].state = "unsafe"
    <3>1. cause = results[m].cause
      BY <1>5, <2>1, <2>6
    <3>2. Explains(results[m].cause, m)
      BY <2>2, <2>3, <2>6 DEF CausesInv
    <3> QED
      BY <2>4, <3>1, <3>2 DEF Explains
  <2> QED
    BY <2>2, <2>5, <2>6
<1> QED
  BY <1>3, <1>4, <1>5

LEMMA NextCauses ==
    TypeInv /\ WalkInv /\ DepthInv /\ RecordInv /\ CausesInv /\ [Next]_vars => CausesInv'
<1> SUFFICES ASSUME TypeInv, WalkInv, DepthInv, RecordInv, CausesInv, [Next]_vars,
                    NEW n \in Name, Settled(n)', results'[n].state = "unsafe"
             PROVE  Explains(results[n].cause, n)'
  BY DEF CausesInv
<1>1. program' = program /\ program \in Programs
  BY ProgramStays, TypeFacts
<1>2. /\ \A m : From(m)' = From(m) /\ Flaws(m)' = Flaws(m)
      /\ Structs' = Structs /\ Places(program)' = Places(program)
      /\ \A p : Named(p)' = Named(p)
  BY <1>1, SameLibrary
<1>3. ASSUME NEW cause, cause = results'[n].cause, Explains(cause, n) PROVE Explains(results[n].cause, n)'
  BY <1>2, <1>3 DEF Explains
<1>4. ASSUME Settled(n), results'[n] = results[n] PROVE Explains(results[n].cause, n)'
  BY <1>3, <1>4 DEF CausesInv
<1>5. \/ Settled(n)
      \/ ScanApi /\ n = Named(at)
      \/ IngestStruct /\ n = Named(order[at])
  <2>1. /\ \A p \in Places(program) : Done(p)' => Done(p) \/ (ScanApi /\ p = at)
        /\ \A p \in Structs : Taken(p)' => Taken(p) \/ (IngestStruct /\ p = order[at])
    BY WhatSettles
  <2>2. \A p \in Places(program) : Named(p) = n => Done(p)' /\ (p \in Structs => Taken(p)')
    BY <1>2 DEF Settled
  <2> QED
    BY <2>1, <2>2 DEF Settled
<1>6. CASE ScanApi
  <2>1. /\ at \in Places(program) /\ phase' = "scan"
        /\ \A m \in Name : m # Named(at) => results'[m] = results[m]
        /\ program.apis[at].kind \in {"struct", "other"} => \A m \in Name : results'[m] = results[m]
        /\ program.apis[at].kind \notin {"struct", "other"} => \A p : p = at => ScannedWell(p)'
    BY <1>6, ScanIs
  <2>2. CASE n # Named(at)
    BY <1>4, <1>5, <1>6, <2>1, <2>2 DEF ScanApi, IngestStruct
  <2>3. CASE n = Named(at)
    <3> DEFINE api == program.apis[at]
    <3>1. api.kind # "struct"
      <4>1. SUFFICES ASSUME api.kind = "struct" PROVE FALSE
        OBVIOUS
      <4>2. at \in Structs
        BY <2>1, <4>1 DEF Structs, IsStruct
      <4>3. \A p : p = at => Taken(p)'
        BY <1>2, <2>1, <2>3, <4>2 DEF Settled
      <4> QED
        BY <2>1, <4>3 DEF Taken
    <3>2. CASE api.kind = "other"
      <4>1. n \notin Defined
        BY <1>1, <2>1, <2>3, <3>2, WhoIs
      <4>2. results'[n] = Initially(program.blocklist)[n]
        BY <2>1, <3>2, <4>1 DEF RecordInv, UndefinedInv
      <4>3. Initially(program.blocklist)[n].state = "unsafe"
        BY <4>2
      <4>4. LET first == Initially(program.blocklist)[n]
            IN first.cause.type = n /\ first.cause.why \in Flaws(n)
        BY <1>1, <4>1, <4>3, FlawsAre
      <4>5. Explains(Initially(program.blocklist)[n].cause, n)
        BY <1>1, <4>4, FromIs DEF Explains
      <4> QED
        BY <1>3, <4>2, <4>5
    <3>3. CASE api.kind \notin {"struct", "other"}
      <4>0. api \in Api
        BY <1>1, <2>1, Libraries
      <4>1. ASSUME NEW p, p = at
            PROVE  /\ api.kind \in {"pointer alias", "enum", "pod elsewhere"} => results'[n] = IsPod
                   /\ api.kind = "complex" => results'[n] = Unsafe(n, "complex typedef")
                   /\ api.kind = "alias" => results'[n].state = "alias"
        <5>1. ScannedWell(p)' /\ (program.apis[p])' = api /\ Named(p)' = n /\ api.name = n
          BY <1>1, <1>2, <2>1, <2>3, <3>3, <4>1 DEF Named
        <5>2. phase' \in Judging
          BY <2>1 DEF Judging
        <5> QED
          BY <5>1, <5>2 DEF ScannedWell, Judging
      <4>2. api.kind = "complex"
        <5>1. results'[n] # IsPod /\ results'[n].state # "alias"
          BY StateNames
        <5> QED
          BY <3>1, <3>3, <4>0, <4>1, <5>1 DEF Api, ApiKinds
      <4>3. results'[n] = Unsafe(n, "complex typedef")
        BY <4>1, <4>2
      <4>4. Unsafe(n, "complex typedef").cause.type = n /\ Unsafe(n, "complex typedef").cause.why = "complex typedef"
        BY UnsafeType
      <4>5. "complex typedef" \in Flaws(n)
        BY <1>1, <2>1, <2>3, <4>2, FlawsAre
      <4>6. Explains(Unsafe(n, "complex typedef").cause, n)
        BY <1>1, <4>4, <4>5, FromIs DEF Explains
      <4> QED
        BY <1>3, <4>3, <4>6
    <3> QED
      BY <3>1, <3>2, <3>3
  <2> QED
    BY <2>2, <2>3
<1>7. CASE IngestStruct
  <2>1. /\ \A m \in Name : m # Named(order[at]) => results'[m] = results[m]
        /\ results'[Named(order[at])] = Ingested(program.apis[order[at]])
        /\ program.apis[order[at]] \in Api
    BY <1>7, IngestIs
  <2>2. CASE n # Named(order[at])
    BY <1>4, <1>5, <1>7, <2>1, <2>2 DEF ScanApi, IngestStruct
  <2>3. CASE n = Named(order[at])
    <3>1. /\ results'[n].state = IF Trouble(program.apis[order[at]]) = NoCause THEN "safe" ELSE "unsafe"
          /\ results'[n].cause = Trouble(program.apis[order[at]])
      BY <2>1, <2>3, IngestedType
    <3>2. Trouble(program.apis[order[at]]) # NoCause
      BY <3>1
    <3> QED
      BY <1>3, <1>7, <2>3, <3>1, <3>2, JudgedFairly
  <2> QED
    BY <2>2, <2>3
<1>8. CASE MakePod
  <2>1. Popped \in Name /\ \A m \in Name : m # Popped => results'[m] = results[m]
    BY <1>8, MakePodIs, PoppedIs DEF MakePod
  <2>2. results'[Popped].state = "pod" /\ phase = "requests"
    BY <1>8, MakePodIs
  <2> QED
    BY <1>4, <1>5, <2>1, <2>2 DEF ScanApi, IngestStruct
<1>9. CASE AdoptTarget
  <2>1. /\ phase = "requests" /\ Popping /\ results[Popped].state = "alias"
        /\ \A m \in Name : m # Popped => results'[m] = results[m]
        /\ results'[Popped].state = Aim.state /\ results'[Popped].cause = Aim.cause
    BY <1>9, AdoptIs
  <2>2. Settled(n) /\ results[Popped].target \in Name /\ Popped \in Name /\ \A m : Settled(m)
    BY <2>1, PoppedIs
  <2>3. CASE n # Popped
    BY <1>4, <2>1, <2>2, <2>3
  <2>4. CASE n = Popped
    <3> DEFINE target == results[Popped].target
    <3>1. Holds(n) = {target} /\ Aim = results[target]
      BY <2>1, <2>4, AliasIs
    <3>2. Explains(results[target].cause, target)
      BY <2>1, <2>2, <2>4, <3>1 DEF CausesInv
    <3>3. From(target) \subseteq From(n)
      BY <1>1, <3>1, FromIs
    <3> QED
      BY <1>3, <2>1, <2>4, <3>1, <3>2, <3>3 DEF Explains
  <2> QED
    BY <2>3, <2>4
<1>10. CASE EndScan \/ NextRoot \/ GoDown \/ PassOver \/ ComeBackUp \/ EndOrder \/ EndIngest
            \/ RefuseUnknown \/ RefuseUnsafe \/ AlreadyPod \/ AwaitTarget \/ RefuseCircle
            \/ RefuseUnknownTarget \/ EndRequests \/ AnalyzeApi \/ EndAnalyze \/ UNCHANGED vars
  <2>1. UNCHANGED results
    BY <1>10 DEF EndScan, NextRoot, GoDown, PassOver, ComeBackUp, EndOrder, EndIngest,
       RefuseUnknown, RefuseUnsafe, AlreadyPod, AwaitTarget, RefuseCircle, Refuse,
       RefuseUnknownTarget, EndRequests, AnalyzeApi, EndAnalyze, vars
  <2> QED
    BY <1>4, <1>5, <1>6, <1>7, <2>1
<1> QED
  BY <1>6, <1>7, <1>8, <1>9, <1>10 DEF Next

-------------------------------------------------------------------------------
(* What is asked for, and what is granted, a request really holds. *)
LEMMA NoCircle ==
    ASSUME program \in Programs, NEW n \in Name, NamedBy(n) = {}
    PROVE  n \notin Circle(n)
<1> DEFINE N == {m \in Name : FALSE}
<1>1. N \in SUBSET Name /\ NamedBy(n) \subseteq N /\ (\A m \in N : NamedBy(m) \subseteq N)
  OBVIOUS
<1>2. n \notin N
  OBVIOUS
<1> HIDE DEF N
<1> QED
  BY <1>1, <1>2, CircleIs

LEMMA InitGrant == Init => GrantInv
  BY DEF Init, GrantInv, Judging

LEMMA NextGrant == TypeInv /\ WalkInv /\ RecordInv /\ GrantInv /\ [Next]_vars => GrantInv'
<1> SUFFICES ASSUME TypeInv, WalkInv, RecordInv, GrantInv, [Next]_vars PROVE GrantInv'
  OBVIOUS
<1> DEFINE Granted(n) == (n \in Reached \/ GrantedFreely(n)) /\ n \notin Circle(n)
<1>1. program' = program /\ program \in Programs
  BY ProgramStays, TypeFacts
<1>2. /\ Reached' = Reached
      /\ \A n : Circle(n)' = Circle(n) /\ (GrantedFreely(n)' <=> GrantedFreely(n))
  BY <1>1, SameLibrary
<1>3. /\ Reached \subseteq Name /\ Wanted \subseteq Reached
      /\ \A n \in Reached : Holds(n) \subseteq Reached
  BY <1>1, ReachedIs
<1>4. ASSUME Range(requests') \subseteq Reached,
             \A n \in Name : results'[n].state = "pod" => Granted(n)
      PROVE  GrantInv'
  BY <1>2, <1>4 DEF GrantInv
<1>5. ASSUME phase \notin Judging
      PROVE  /\ Range(requests) \subseteq Reached
             /\ \A n \in Name : results[n].state = "pod" => Granted(n)
  BY <1>5 DEF GrantInv
<1>6. CASE EndIngest
  <2>1. /\ results' = results /\ Range(requests') = Wanted
        /\ \A n \in Name : results[n].state = "pod" => NamedBy(n) = {} /\ GrantedFreely(n)
    BY <1>6, EndIngestIs
  <2>2. \A n \in Name : results'[n].state = "pod" => Granted(n)
    BY <1>1, <2>1, NoCircle
  <2> QED
    BY <1>3, <1>4, <2>1, <2>2
<1> HIDE DEF Granted
<1>7. ASSUME Popping
      PROVE  /\ phase \notin Judging /\ Popped \in Name /\ Popped \in Reached
             /\ requests \in Seq(Name) /\ Front(requests) \in Seq(Name)
             /\ Range(Front(requests)) \subseteq Reached
  <2>1. phase = "requests" /\ requests # <<>> /\ requests \in Seq(Name)
    BY <1>7, TypeFacts DEF Popping
  <2>2. Range(requests) = Range(Front(requests)) \cup {Popped} /\ Front(requests) \in Seq(Name)
        /\ Popped \in Name
    BY <2>1, RequestsFacts
  <2>3. phase \notin Judging
    BY <2>1 DEF Judging
  <2> QED
    BY <1>5, <2>1, <2>2, <2>3
<1>8. CASE MakePod
  <2>0. Popping
    BY <1>8 DEF MakePod
  <2>1. PICK p \in Structs :
            /\ Named(p) = Popped
            /\ results[Popped].deps = FieldDependencies(program.apis[p])
            /\ \A m \in Name : m # Popped => results'[m] = results[m]
    BY <1>8, MakePodIs
  <2>2. requests' = Front(requests) \o results[Popped].deps
    BY <1>8 DEF MakePod
  <2>3. results[Popped].deps \in Seq(Name)
    BY <1>7, <2>0, TypeFacts
  <2>4. Range(requests') = Range(Front(requests)) \cup Range(results[Popped].deps)
    BY <1>7, <2>0, <2>2, <2>3, ConcatIs
  <2>5. Range(results[Popped].deps) = Holds(Popped) /\ NamedBy(Popped) = {}
    BY <1>1, <2>1, StructFacts
  <2>6. Range(requests') \subseteq Reached
    BY <1>3, <1>7, <2>0, <2>4, <2>5
  <2>7. Granted(Popped)
    BY <1>1, <1>7, <2>0, <2>5, NoCircle DEF Granted
  <2> QED
    BY <1>4, <1>5, <1>7, <2>0, <2>1, <2>6, <2>7
<1>9. CASE AdoptTarget
  <2> DEFINE target == results[Popped].target
  <2>1. /\ requests' = requests /\ Popping /\ results[Popped].state = "alias"
        /\ \A m \in Name : m # Popped => results'[m] = results[m]
        /\ results'[Popped].state = Aim.state
    BY <1>9, AdoptIs
  <2>2. /\ NamedBy(Popped) = {target} /\ Aim = results[target] /\ target \in Name
    BY <2>1, AliasIs, PoppedIs
  <2>3. ASSUME results'[Popped].state = "pod" PROVE Granted(Popped)
    <3>1. results[target].state = "pod" /\ target # Popped
      BY <2>1, <2>2, <2>3
    <3>2. target \notin Circle(target)
      BY <1>5, <1>7, <2>1, <2>2, <3>1 DEF Granted
    <3>3. Circle(Popped) \subseteq {target} \cup Circle(target)
      <4> DEFINE S == {target} \cup Circle(target)
      <4>1. S \in SUBSET Name /\ NamedBy(Popped) \subseteq S /\ \A m \in S : NamedBy(m) \subseteq S
        BY <1>1, <2>2, CircleIs
      <4> HIDE DEF S
      <4>2. Circle(Popped) \subseteq S
        BY <1>1, <1>7, <2>1, <4>1, CircleIs
      <4> QED
        BY <4>2 DEF S
    <3>4. Popped \in Circle(target) => target \in Circle(target)
      BY <1>1, <2>2, CircleIs
    <3>5. Popped \notin Circle(Popped)
      BY <3>1, <3>2, <3>3, <3>4
    <3> QED
      BY <1>7, <2>1, <3>5 DEF Granted
  <2>4. \A n \in Name : results'[n].state = "pod" => Granted(n)
    BY <1>5, <1>7, <2>1, <2>3
  <2>5. Range(requests') \subseteq Reached
    BY <1>5, <1>7, <2>1
  <2> QED
    BY <1>4, <2>4, <2>5
<1>10. ASSUME results' = results, phase \notin Judging, Range(requests') \subseteq Range(requests)
       PROVE  GrantInv'
  BY <1>4, <1>5, <1>10
<1>11. CASE AlreadyPod
  <2>1. /\ Popping /\ results' = results /\ requests' = Front(requests) /\ requests # <<>>
    BY <1>11 DEF AlreadyPod, Popping
  <2>2. Range(requests) = Range(Front(requests)) \cup {Popped}
    BY <2>1, RequestsFacts
  <2> QED
    BY <1>7, <1>10, <2>1, <2>2
<1>12. CASE AwaitTarget
  <2>1. /\ Popping /\ results' = results /\ results[Popped].state = "alias"
        /\ requests' = Append(requests, results[Popped].target)
    BY <1>12 DEF AwaitTarget
  <2>2. results[Popped].target \in Name /\ Holds(Popped) = {results[Popped].target}
    BY <2>1, PoppedIs, AliasIs
  <2>3. Range(requests') = Range(requests) \cup {results[Popped].target}
    BY <1>7, <2>1, <2>2, PushIs
  <2>4. Range(requests') \subseteq Reached
    BY <1>3, <1>5, <1>7, <2>1, <2>2, <2>3
  <2> QED
    BY <1>4, <1>5, <1>7, <2>1, <2>4
<1>13. CASE RefuseUnknown \/ RefuseUnsafe \/ RefuseCircle \/ RefuseUnknownTarget
  <2>1. Popping /\ UNCHANGED <<results, requests>>
    BY <1>13 DEF RefuseUnknown, RefuseUnsafe, RefuseCircle, RefuseUnknownTarget, Refuse
  <2> QED
    BY <1>7, <1>10, <2>1
<1>14. CASE EndRequests \/ AnalyzeApi \/ EndAnalyze
  <2>1. UNCHANGED <<results, requests>> /\ phase \in {"requests", "analyze"}
    BY <1>14 DEF EndRequests, AnalyzeApi, EndAnalyze
  <2>2. phase \notin Judging
    BY <2>1 DEF Judging
  <2> QED
    BY <1>10, <2>1, <2>2
<1>15. CASE phase' \in Judging
  BY <1>15 DEF GrantInv, Judging
<1>16. CASE UNCHANGED vars
  <2>1. UNCHANGED <<results, requests, phase>>
    BY <1>16 DEF vars
  <2>2. phase' \notin Judging => phase \notin Judging
    BY <2>1 DEF Judging
  <2>3. phase' \notin Judging => GrantInv'
    BY <1>10, <2>1, <2>2
  <2> QED
    BY <1>15, <2>3 DEF Judging
<1>17. CASE ScanApi \/ EndScan \/ NextRoot \/ GoDown \/ PassOver \/ ComeBackUp \/ EndOrder \/ IngestStruct
  <2>1. phase' \in Judging
    BY <1>17 DEF ScanApi, EndScan, NextRoot, GoDown, PassOver, ComeBackUp, EndOrder, IngestStruct,
       Judging
  <2> QED
    BY <1>15, <2>1 DEF Judging
<1> QED
  BY <1>6, <1>8, <1>9, <1>11, <1>12, <1>13, <1>14, <1>16, <1>17 DEF Next

-------------------------------------------------------------------------------
(* A typedef which waits is under everything it waits for, and is met again    *)
(* before what it names is settled only if it holds itself.                    *)
LEMMA WaitsOn ==
    ASSUME TypeInv, Popping, program' = program,
           NEW n \in Name, NEW i \in 1..Len(requests), Waits(n, i), n # Popped,
           results'[n].target = results[n].target,
           \A m \in Name : results[m].state = "pod" => results'[m].state = "pod",
           NEW rest \in Seq(Name), Joined(requests', Front(requests), rest),
           Range(rest) \subseteq Holds(Popped), results'[Popped].state = "pod"
    PROVE  i \in 1..Len(requests') /\ Waits(n, i)'
<1> DEFINE L == Len(requests)
           target == results[n].target
<1>1. /\ program \in Programs /\ requests # <<>> /\ L \in Nat /\ L > 0 /\ Popped = requests[L]
      /\ L \in 1..L /\ Popped \in Name /\ Len(Front(requests)) = L - 1 /\ target \in Name
      /\ \A j \in 1..(L - 1) : Front(requests)[j] = requests[j]
  BY RequestsFacts, TypeFacts DEF Popping
<1>2. /\ requests[i] = n /\ \A j \in 1..L : i < j => requests[j] \in Under(n)
      /\ \/ results[target].state = "pod"
         \/ \E j \in 1..L : i < j /\ requests[j] = target
  BY DEF Waits
<1>3. Len(rest) \in Nat /\ DOMAIN rest = 1..Len(rest)
  <2>1. rest \in Seq(Name)
    OBVIOUS
  <2> QED
    BY <2>1
<1>4. /\ Len(requests') = (L - 1) + Len(rest)
      /\ \A j \in 1..(L - 1) : requests'[j] = requests[j]
      /\ \A j \in 1..Len(rest) : requests'[(L - 1) + j] = rest[j]
      /\ \A j \in 1..Len(requests') :
            j \in 1..(L - 1) \/ \E k \in 1..Len(rest) : j = (L - 1) + k
  BY <1>1 DEF Joined
<1> HIDE DEF L
<1>5. i \in 1..(L - 1) /\ i < L
  <2>1. i \in 1..L /\ i # L
    BY <1>1, <1>2 DEF L
  <2> QED
    BY <1>1, <2>1
<1>6. \A j \in 1..(L - 1) : j \in 1..L /\ j \in 1..Len(requests')
  BY <1>1, <1>3, <1>4
<1>7. Popped \in Under(n)
  BY <1>1, <1>2, <1>5
<1>8. \A k \in 1..Len(rest) : rest[k] \in Under(n)
  <2>1. \A k \in 1..Len(rest) : rest[k] \in Holds(Popped)
    BY <1>3 DEF Range
  <2>2. Holds(Popped) \subseteq Under(n)
    BY <1>1, <1>7, UnderIs
  <2> QED
    BY <2>1, <2>2
<1>9. ASSUME NEW j \in 1..Len(requests'), i < j PROVE requests'[j] \in Under(n)
  <2>1. CASE j \in 1..(L - 1)
    BY <1>2, <1>4, <1>6, <1>9, <2>1
  <2>2. ASSUME NEW k \in 1..Len(rest), j = (L - 1) + k PROVE requests'[j] \in Under(n)
    BY <1>4, <1>8, <2>2
  <2> QED
    BY <1>4, <2>1, <2>2
<1>10. \/ results'[target].state = "pod"
       \/ \E j \in 1..Len(requests') : i < j /\ requests'[j] = target
  <2>1. ASSUME NEW j \in 1..L, i < j, requests[j] = target
        PROVE  \/ results'[target].state = "pod"
               \/ \E k \in 1..Len(requests') : i < k /\ requests'[k] = target
    <3>1. CASE j = L
      BY <1>1, <2>1, <3>1
    <3>2. CASE j # L
      <4>1. j \in 1..(L - 1)
        BY <1>1, <3>2
      <4> QED
        BY <1>4, <1>6, <2>1, <4>1
    <3> QED
      BY <3>1, <3>2
  <2> QED
    BY <1>1, <1>2, <2>1
<1>11. requests'[i] = n /\ Under(n)' = Under(n) /\ results'[n].target = target
  BY <1>2, <1>4, <1>5, SameLibrary
<1> QED
  BY <1>5, <1>6, <1>9, <1>10, <1>11 DEF Waits

LEMMA InitAwait == Init => AwaitInv
  BY DEF Init, AwaitInv

LEMMA NextAwait == TypeInv /\ RecordInv /\ AwaitInv /\ [Next]_vars => AwaitInv'
<1> SUFFICES ASSUME TypeInv, RecordInv, AwaitInv, [Next]_vars PROVE AwaitInv'
  OBVIOUS
<1> DEFINE Behind(n) == \E i \in 1..Len(requests) : Waits(n, i)
<1>1. program' = program /\ program \in Programs /\ awaiting \subseteq Name
  BY ProgramStays, TypeFacts, TypeRest
<1>2. \A n \in Name : Under(n)' = Under(n)
  BY <1>1, SameLibrary
<1>3. ASSUME phase \in Judging PROVE awaiting = {}
  BY <1>3 DEF AwaitInv
<1>4. ASSUME phase = "requests", NEW n \in awaiting, results[n].state = "alias" PROVE Behind(n)
  BY <1>4 DEF AwaitInv
<1>5. ASSUME phase' = "requests",
             \A n \in awaiting' : results'[n].state = "alias" => \E i \in 1..Len(requests') : Waits(n, i)'
      PROVE  AwaitInv'
  BY <1>5 DEF AwaitInv, Judging
<1>6. CASE EndIngest
  <2>1. phase = "ingest" /\ phase' = "requests" /\ awaiting' = awaiting
    BY <1>6 DEF EndIngest
  <2>2. awaiting = {}
    BY <1>3, <2>1 DEF Judging
  <2> QED
    BY <1>5, <2>1, <2>2
<1>7. CASE AlreadyPod
  <2>1. /\ Popping /\ phase = "requests" /\ phase' = "requests" /\ awaiting' = awaiting
        /\ results' = results /\ requests' = Front(requests) /\ results[Popped].state = "pod"
    BY <1>7 DEF AlreadyPod, Popping
  <2>2. Front(requests) \in Seq(Name)
    BY <2>1, RequestsFacts DEF Popping
  <2>3. requests' = Front(requests) \o <<>> /\ <<>> \in Seq(Name) /\ Range(<<>>) = {}
    BY <2>1, <2>2 DEF Range
  <2>4. Joined(requests', Front(requests), <<>>)
    BY <2>2, <2>3, ConcatIs
  <2>5. ASSUME NEW n \in awaiting', results'[n].state = "alias"
        PROVE  \E i \in 1..Len(requests') : Waits(n, i)'
    <3>1. PICK i \in 1..Len(requests) : Waits(n, i)
      BY <1>4, <2>1, <2>5
    <3>2. n \in Name /\ n # Popped
      BY <1>1, <2>1, <2>5
    <3> QED
      BY <1>1, <2>1, <2>3, <2>4, <3>1, <3>2, WaitsOn
  <2> QED
    BY <1>5, <2>1, <2>5
<1>8. CASE MakePod
  <2>1. PICK p \in Structs :
            /\ Named(p) = Popped /\ phase = "requests" /\ phase' = "requests"
            /\ results[Popped].deps = FieldDependencies(program.apis[p])
            /\ \A m \in Name : m # Popped => results'[m] = results[m]
            /\ results'[Popped].state = "pod"
    BY <1>8, MakePodIs
  <2>2. Popping /\ requests' = Front(requests) \o results[Popped].deps /\ awaiting' = awaiting
    BY <1>8 DEF MakePod
  <2>3. Front(requests) \in Seq(Name) /\ results[Popped].deps \in Seq(Name)
    BY <2>2, RequestsFacts, PoppedIs, TypeFacts DEF Popping
  <2>4. Joined(requests', Front(requests), results[Popped].deps)
    BY <2>2, <2>3, ConcatIs
  <2>5. Range(results[Popped].deps) \subseteq Holds(Popped)
    BY <1>1, <2>1, StructFacts
  <2>6. \A m \in Name : results[m].state = "pod" => results'[m].state = "pod"
    BY <2>1
  <2>7. ASSUME NEW n \in awaiting', results'[n].state = "alias"
        PROVE  \E i \in 1..Len(requests') : Waits(n, i)'
    <3>1. n \in Name /\ n # Popped /\ results'[n] = results[n]
      BY <1>1, <2>1, <2>2, <2>7
    <3>2. PICK i \in 1..Len(requests) : Waits(n, i)
      BY <1>4, <2>1, <2>2, <2>7, <3>1
    <3> QED
      BY <1>1, <2>1, <2>2, <2>3, <2>4, <2>5, <2>6, <3>1, <3>2, WaitsOn
  <2> QED
    BY <1>5, <2>1, <2>7
<1>9. CASE AdoptTarget
  <2>1. /\ phase = "requests" /\ phase' = "requests" /\ requests' = requests /\ awaiting' = awaiting
        /\ \A m \in Name : m # Popped => results'[m] = results[m]
        /\ results'[Popped].state \in {"pod", "unsafe"} /\ results[Popped].state = "alias"
    BY <1>9, AdoptIs
  <2>2. ASSUME NEW n \in awaiting', results'[n].state = "alias"
        PROVE  \E i \in 1..Len(requests') : Waits(n, i)'
    <3>1. n \in Name /\ n # Popped /\ results'[n] = results[n]
      BY <1>1, <2>1, <2>2
    <3>2. PICK i \in 1..Len(requests) : Waits(n, i)
      BY <1>4, <2>1, <2>2, <3>1
    <3>3. results[n].target \in Name
      BY <3>1, TypeFacts
    <3>4. results[results[n].target].state = "pod" => results'[results[n].target].state = "pod"
      BY <2>1, <3>3
    <3>5. Waits(n, i)'
      BY <1>2, <2>1, <3>1, <3>2, <3>4 DEF Waits
    <3> QED
      BY <2>1, <3>2, <3>5
  <2> QED
    BY <1>5, <2>1, <2>2
<1>10. CASE AwaitTarget
  <2> DEFINE target == results[Popped].target
             L == Len(requests)
  <2>1. /\ Popping /\ phase = "requests" /\ phase' = "requests" /\ results' = results
        /\ results[Popped].state = "alias" /\ awaiting' = awaiting \cup {Popped}
        /\ requests' = Append(requests, target) /\ Popped \notin awaiting
    BY <1>10 DEF AwaitTarget, Popping
  <2>2. requests \in Seq(Name) /\ target \in Name /\ Popped \in Name /\ Holds(Popped) = {target}
    BY <2>1, PoppedIs, AliasIs, TypeFacts
  <2>3. L \in Nat /\ L > 0 /\ Popped = requests[L] /\ L \in 1..L
    BY <2>1, RequestsFacts DEF Popping
  <2>4. /\ Len(requests') = L + 1 /\ requests'[L + 1] = target
        /\ \A j \in 1..L : requests'[j] = requests[j]
    BY <2>1, <2>2, PushIs
  <2> HIDE DEF L
  <2>5. /\ \A j \in 1..L : j \in 1..(L + 1) /\ j < L + 1
        /\ \A j \in 1..(L + 1) : j \in 1..L \/ j = L + 1
        /\ L + 1 \in 1..(L + 1)
        /\ \A j \in 1..L : ~(L < j)
    BY <2>3
  <2>6. ASSUME NEW n \in Name, target \in Under(n), NEW i \in 1..L, requests[i] = n,
               \A j \in 1..L : i < j => requests[j] \in Under(n),
               \/ results[results[n].target].state = "pod"
               \/ \E j \in 1..(L + 1) : i < j /\ requests'[j] = results[n].target
        PROVE  \E k \in 1..Len(requests') : Waits(n, k)'
    <3>1. requests'[i] = n /\ i \in 1..Len(requests')
      BY <2>4, <2>5, <2>6
    <3>2. \A j \in 1..Len(requests') : i < j => requests'[j] \in Under(n)
      BY <2>4, <2>5, <2>6
    <3>3. \/ results'[results'[n].target].state = "pod"
          \/ \E j \in 1..Len(requests') : i < j /\ requests'[j] = results'[n].target
      BY <2>1, <2>4, <2>6
    <3>4. Waits(n, i)'
      BY <1>2, <3>1, <3>2, <3>3 DEF Waits
    <3> QED
      BY <3>1, <3>4
  <2>7. ASSUME NEW n \in awaiting', results'[n].state = "alias"
        PROVE  \E i \in 1..Len(requests') : Waits(n, i)'
    <3>1. CASE n = Popped
      <4>1. target \in Under(n)
        BY <1>1, <2>2, <3>1, UnderIs
      <4>2. requests[L] = n /\ \A j \in 1..L : L < j => requests[j] \in Under(n)
        BY <2>3, <2>5, <3>1
      <4>3. \E j \in 1..(L + 1) : L < j /\ requests'[j] = results[n].target
        BY <2>3, <2>4, <2>5, <3>1
      <4> QED
        BY <2>2, <2>3, <2>6, <3>1, <4>1, <4>2, <4>3
    <3>2. CASE n # Popped
      <4>1. n \in awaiting /\ results[n].state = "alias" /\ n \in Name
        BY <1>1, <2>1, <2>7, <3>2
      <4>2. PICK i \in 1..Len(requests) : Waits(n, i)
        BY <1>4, <2>1, <4>1
      <4>3. /\ i \in 1..L /\ requests[i] = n /\ \A j \in 1..L : i < j => requests[j] \in Under(n)
            /\ \/ results[results[n].target].state = "pod"
               \/ \E j \in 1..L : i < j /\ requests[j] = results[n].target
        BY <4>2 DEF Waits, L
      <4>4. i < L
        <5>1. i # L
          BY <2>3, <3>2, <4>3
        <5> QED
          BY <2>3, <4>3, <5>1
      <4>5. target \in Under(n)
        <5>1. Popped \in Under(n)
          BY <2>3, <4>3, <4>4
        <5> QED
          BY <1>1, <2>2, <4>1, <5>1, UnderIs
      <4>6. \/ results[results[n].target].state = "pod"
            \/ \E j \in 1..(L + 1) : i < j /\ requests'[j] = results[n].target
        BY <2>4, <2>5, <4>3
      <4> QED
        BY <2>6, <4>1, <4>3, <4>5, <4>6
    <3> QED
      BY <3>1, <3>2
  <2> QED
    BY <1>5, <2>1, <2>7
<1>11. CASE phase' \in Judging
  <2>1. phase \in Judging /\ awaiting' = awaiting
    BY <1>11 DEF Next, vars, ScanApi, EndScan, NextRoot, GoDown, PassOver, ComeBackUp, EndOrder,
       IngestStruct, EndIngest, RefuseUnknown, RefuseUnsafe, AlreadyPod, MakePod, AdoptTarget,
       AwaitTarget, RefuseCircle, RefuseUnknownTarget, EndRequests, AnalyzeApi, EndAnalyze, Refuse,
       Judging, Popping
  <2>2. awaiting' = {} /\ phase' # "requests"
    BY <1>3, <1>11, <2>1 DEF Judging
  <2> QED
    BY <2>2 DEF AwaitInv
<1>12. CASE phase' \notin Judging /\ phase' # "requests"
  BY <1>12 DEF AwaitInv, Judging
<1>13. CASE UNCHANGED vars
  <2>1. \A n, i : Waits(n, i)' <=> Waits(n, i)
    BY <1>1, <1>13, SameLibrary DEF vars, Waits
  <2> QED
    BY <1>13, <2>1 DEF AwaitInv, vars, Judging
<1>14. CASE ScanApi \/ EndScan \/ NextRoot \/ GoDown \/ PassOver \/ ComeBackUp \/ EndOrder \/ IngestStruct
  <2>1. phase' \in Judging
    BY <1>14 DEF ScanApi, EndScan, NextRoot, GoDown, PassOver, ComeBackUp, EndOrder, IngestStruct,
       Judging
  <2> QED
    BY <1>11, <2>1 DEF Judging
<1>15. CASE RefuseUnknown \/ RefuseUnsafe \/ RefuseCircle \/ RefuseUnknownTarget
            \/ EndRequests \/ AnalyzeApi \/ EndAnalyze
  <2>1. phase' \in {"refused", "analyze", "done"}
    BY <1>15 DEF RefuseUnknown, RefuseUnsafe, RefuseCircle, RefuseUnknownTarget, Refuse,
       EndRequests, AnalyzeApi, EndAnalyze
  <2> QED
    BY <1>12, <2>1 DEF Judging
<1> QED
  BY <1>6, <1>7, <1>8, <1>9, <1>10, <1>13, <1>14, <1>15 DEF Next

-------------------------------------------------------------------------------
(* What is refused, and why. *)
LEMMA CircleIsHeld ==
    ASSUME TypeInv, AwaitInv, NothingHoldsItself, RecordInv, RefuseCircle
    PROVE  "circular" \in Flaws(Popped)
<1> DEFINE L == Len(requests)
<1>1. /\ Popping /\ phase = "requests" /\ results[Popped].state = "alias" /\ Popped \in awaiting
      /\ Aim.state \in {"safe", "alias"}
  BY DEF RefuseCircle, Popping
<1>2. /\ Aim = results[results[Popped].target] /\ Popped \in Name /\ program \in Programs
  BY <1>1, AliasIs, PoppedIs
<1>3. L \in Nat /\ L > 0 /\ Popped = requests[L] /\ L \in 1..L
  BY <1>1, RequestsFacts DEF Popping
<1>4. PICK i \in 1..L : Waits(Popped, i)
  BY <1>1 DEF AwaitInv
<1>5. \E j \in 1..L : i < j
  BY <1>1, <1>2, <1>4 DEF Waits
<1>6. i < L
  BY <1>3, <1>4, <1>5
<1>7. Popped \in Under(Popped)
  BY <1>3, <1>4, <1>6 DEF Waits
<1> QED
  BY <1>2, <1>7, OnlyTypedefsCircle, FlawsAre

LEMMA InitRefusal == Init => RefusalInv
  BY DEF Init, RefusalInv

LEMMA NextRefusal ==
    ASSUME NothingHoldsItself
    PROVE  TypeInv /\ RecordInv /\ CausesInv /\ GrantInv /\ AwaitInv /\ RefusalInv /\ [Next]_vars
               => RefusalInv'
<1> SUFFICES ASSUME TypeInv, RecordInv, CausesInv, GrantInv, AwaitInv, RefusalInv, [Next]_vars
             PROVE  RefusalInv'
  OBVIOUS
<1>1. program' = program /\ program \in Programs
  BY ProgramStays, TypeFacts
<1>2. Reached' = Reached /\ \A n : Flaws(n)' = Flaws(n)
  BY <1>1, SameLibrary
<1>3. ASSUME NEW cause, failure' = cause, cause.type \in Reached, cause.why \in Flaws(cause.type)
      PROVE  RefusalInv'
  BY <1>2, <1>3 DEF RefusalInv
<1>4. ASSUME Popping
      PROVE  /\ Popped \in Reached /\ Popped \in Name /\ Settled(Popped)
             /\ \A n : Settled(n)
             /\ Holds(Popped) \subseteq Reached /\ From(Popped) \subseteq Reached
             /\ Reached \subseteq Name
  <2>1. /\ Popped \in Name /\ phase = "requests" /\ \A n : Settled(n)
    BY <1>4, PoppedIs
  <2>2. Popped \in Range(requests)
    BY <1>4, RequestsFacts DEF Popping
  <2>3. Popped \in Reached
    BY <2>1, <2>2 DEF GrantInv, Judging
  <2> QED
    BY <1>1, <2>1, <2>3, ReachedIs
<1>5. CASE RefuseUnknown
  <2>1. Popping /\ results[Popped].state = "absent" /\ failure' = [type |-> Popped, why |-> "unknown"]
    BY <1>5 DEF RefuseUnknown, Refuse
  <2>2. "unknown" \in Flaws(Popped)
    BY <1>4, <2>1, AbsentIsUnknown
  <2> QED
    BY <1>3, <1>4, <2>1, <2>2
<1>6. CASE RefuseUnsafe
  <2>1. Popping /\ results[Popped].state = "unsafe" /\ failure' = results[Popped].cause
    BY <1>6 DEF RefuseUnsafe, Refuse
  <2>2. Explains(results[Popped].cause, Popped)
    BY <1>4, <2>1 DEF CausesInv
  <2> QED
    BY <1>3, <1>4, <2>1, <2>2 DEF Explains
<1>7. CASE RefuseCircle
  <2>1. Popping /\ failure' = [type |-> Popped, why |-> "circular"]
    BY <1>7 DEF RefuseCircle, Refuse
  <2>2. "circular" \in Flaws(Popped)
    BY <1>7, CircleIsHeld
  <2> QED
    BY <1>3, <1>4, <2>1, <2>2
<1>8. CASE RefuseUnknownTarget
  <2> DEFINE target == results[Popped].target
  <2>1. /\ Popping /\ results[Popped].state = "alias" /\ Aim.state = "absent"
        /\ failure' = [type |-> target, why |-> "unknown"]
    BY <1>8 DEF RefuseUnknownTarget, Refuse
  <2>2. Holds(Popped) = {target} /\ Aim = results[target]
    BY <2>1, AliasIs
  <2>3. target \in Reached /\ target \in Name /\ Settled(target)
    BY <1>4, <2>1, <2>2
  <2>4. "unknown" \in Flaws(target)
    BY <2>1, <2>2, <2>3, AbsentIsUnknown
  <2> QED
    BY <1>3, <2>1, <2>3, <2>4
<1>9. CASE UNCHANGED vars
  BY <1>2, <1>9 DEF RefusalInv, vars
<1>10. CASE ScanApi \/ EndScan \/ NextRoot \/ GoDown \/ PassOver \/ ComeBackUp \/ EndOrder
            \/ IngestStruct \/ EndIngest \/ AlreadyPod \/ MakePod \/ AdoptTarget \/ AwaitTarget
            \/ EndRequests \/ AnalyzeApi \/ EndAnalyze
  <2>1. phase' # "refused"
    BY <1>10 DEF ScanApi, EndScan, NextRoot, GoDown, PassOver, ComeBackUp, EndOrder, IngestStruct,
       EndIngest, AlreadyPod, MakePod, AdoptTarget, AwaitTarget, EndRequests, AnalyzeApi, EndAnalyze,
       Popping
  <2> QED
    BY <2>1 DEF RefusalInv
<1> QED
  BY <1>5, <1>6, <1>7, <1>8, <1>9, <1>10 DEF Next

(* What is granted has no flaw: each of the reasons a type can have is told    *)
(* from its record. *)
LEMMA FlawlessIs ==
    ASSUME TypeInv, RecordInv, NEW n \in Name, Settled(n), results[n].state = "pod",
           n \notin Circle(n)
    PROVE  Flaws(n) = {}
<1> DEFINE Own == {fact \in OwnFlaws : \E api \in Apis : api.name = n /\ IsStruct(api) /\ fact \in api.facts}
           Complex == {"complex typedef" : api \in {a \in Apis : a.name = n /\ a.kind = "complex"}}
           Circular == {"circular" : m \in Circle(n) \cap {n}}
           Alien == IF n \in Defined THEN {}
                    ELSE IF n \in program.blocklist THEN {"blocklisted"}
                    ELSE IF n \in KnownUnsafe THEN {"known unsafe"}
                    ELSE IF n \in KnownSafe THEN {}
                    ELSE {"unknown"}
<1>1. Flaws(n) = Own \cup Complex \cup Circular \cup Alien
  BY DEF Flaws, OwnFlaws, Circle
<1>2. program \in Programs
  BY TypeFacts
<1>3. /\ \A api \in Apis : \E p \in Places(program) : api = program.apis[p] /\ api.name = Named(p)
      /\ \A p \in Places(program) : p \in Structs <=> program.apis[p].kind = "struct"
  BY <1>2, Libraries, WhoIs DEF Named
<1>4. ASSUME NEW fact \in Own PROVE FALSE
  <2>1. PICK api \in Apis : api.name = n /\ api.kind = "struct" /\ fact \in api.facts
    BY <1>4 DEF IsStruct
  <2>2. PICK p \in Structs : Named(p) = n /\ program.apis[p] = api
    BY <1>3, <2>1
  <2>3. IngestedWell(p)
    BY <2>2, <1>3, RecordIs, Libraries, <1>2 DEF RecordInv, Settled
  <2>4. program.apis[p].facts \cap OwnFlaws = {}
    BY <2>2, <2>3 DEF IngestedWell
  <2> QED
    BY <1>4, <2>1, <2>2, <2>4
<1>5. ASSUME NEW api \in Apis, api.name = n, api.kind = "complex" PROVE FALSE
  <2>1. PICK p \in Places(program) : Named(p) = n /\ program.apis[p] = api
    BY <1>3, <1>5
  <2>2. ScannedWell(p)
    BY <2>1, RecordIs DEF RecordInv, Settled
  <2>3. results[n] = Unsafe(n, "complex typedef")
    BY <1>5, <2>1, <2>2 DEF ScannedWell
  <2>4. Unsafe(n, "complex typedef").state = "unsafe"
    BY UnsafeType
  <2> QED
    BY <2>3, <2>4
<1>6. ASSUME n \notin Defined PROVE n \notin program.blocklist /\ n \notin KnownUnsafe /\ n \in KnownSafe
  <2>1. results[n] = Initially(program.blocklist)[n]
    BY <1>6 DEF RecordInv, UndefinedInv
  <2>2. Initially(program.blocklist)[n] =
            IF n \in program.blocklist THEN Unsafe(n, "blocklisted")
            ELSE IF n \in KnownSafe THEN IsPod
            ELSE IF n \in KnownUnsafe THEN Unsafe(n, "known unsafe")
            ELSE Absent
    BY DEF Initially
  <2>3. /\ Unsafe(n, "blocklisted").state # "pod" /\ Unsafe(n, "known unsafe").state # "pod"
        /\ Absent.state # "pod"
    BY StateNames
  <2> QED
    BY <2>1, <2>2, <2>3, NamesAssumption
<1>7. Complex = {} /\ Circular = {} /\ Alien = {}
  BY <1>5, <1>6
<1> HIDE DEF Own, Complex, Circular, Alien
<1> QED
  BY <1>1, <1>4, <1>7

LEMMA JustIs == TypeInv /\ RecordInv /\ GrantInv /\ RefusalInv => VerdictIsJust
<1> SUFFICES ASSUME TypeInv, RecordInv, GrantInv, RefusalInv PROVE VerdictIsJust
  OBVIOUS
<1>1. ASSUME phase \in {"analyze", "done"}, NEW n \in Name, results[n].state = "pod"
      PROVE  Flaws(n) = {} /\ (n \in Reached \/ GrantedFreely(n))
  <2>1. Settled(n) /\ phase \notin Judging
    BY <1>1, AllSettled DEF Judging
  <2>2. n \notin Circle(n) /\ (n \in Reached \/ GrantedFreely(n))
    BY <1>1, <2>1 DEF GrantInv
  <2> QED
    BY <1>1, <2>1, <2>2, FlawlessIs
<1> QED
  BY <1>1 DEF VerdictIsJust, RefusalInv, GrantedFreely

(* Whatever order the headers put the definitions in, and whatever is asked    *)
(* for: a type becomes POD only with no flaw and for a request which holds it, *)
(* and an UnsafePodType error names a flaw of something a request holds. The   *)
(* hypothesis is C++'s: a class is no part of itself.                          *)
THEOREM VerdictsAreJust ==
    ASSUME NothingHoldsItself
    PROVE  Spec => []VerdictIsJust
<1> DEFINE Inv == /\ TypeInv /\ WalkInv /\ DepthInv /\ RecordInv
                  /\ CausesInv /\ GrantInv /\ AwaitInv /\ RefusalInv
<1>1. Init => Inv
  BY InitTypes, InitWalk, InitDepth, InitRecord, InitCauses, InitGrant, InitAwait, InitRefusal
<1>2. Inv /\ [Next]_vars => Inv'
  BY NextTypes, NextWalk, NextDepth, NextRecord, NextCauses, NextGrant, NextAwait, NextRefusal
<1>3. Inv => VerdictIsJust
  BY JustIs
<1> QED
  BY <1>1, <1>2, <1>3, PTL DEF Spec
================================================================================

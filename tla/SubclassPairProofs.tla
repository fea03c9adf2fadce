------------------------- MODULE SubclassPairProofs -------------------------
(* What a pair of a Rust value and its C++ peer guarantees however many        *)
(* handles there are and however deep calls of the two nest.  The argument     *)
(* counts: the strong count is what the handles, `obs` and the virtual calls   *)
(* in progress hold between them, and the borrow flag is the borrows of the    *)
(* calls in progress.                                                          *)
EXTENDS SubclassPair, FiniteSetTheorems, TLAPS

(* A Drop which calls a virtual method of a peer that is being deleted is left *)
(* out: there, `obs` is met half destroyed.                                    *)
QuietUnderDelete == "cpp" \notin CallsInDrop

MakeCall == Call("make", TRUE)
DropCall == Call("drop", TRUE)
DeleteCall == Call("delete", TRUE)

Of(kind) == {f \in Frame : f.kind = kind}
Borrowers == Of("make") \cup Of("method") \cup Of("borrowed")
Exclusive == {f \in Borrowers : f.excl}

Positions(s, F) == {i \in 1..Len(s) : s[i] \in F}
Count(s, F) == Cardinality(Positions(s, F))

(* The parts of the inductive invariant. *)
NotMade ==
    mode = "none" =>
        /\ value = "none" /\ strong = 0 /\ handles = 0 /\ borrow = 0 /\ holder = "empty"
        /\ peer = "none" /\ obs = "none" /\ ~cppOwner /\ ~relinquished
        /\ stack = <<>> /\ outcome = "running"

(* Who is on the stack when: a constructor is alone there, nothing runs on top *)
(* of a Drop, and a destructor is below one at most.                           *)
StackShape ==
    /\ Count(stack, Of("make")) = IF stack = <<MakeCall>> THEN 1 ELSE 0
    /\ Count(stack, Of("drop")) = IF value = "dropping" THEN 1 ELSE 0
    /\ value = "dropping" => Running("drop")
    /\ IF peer = "dying" THEN stack = <<DeleteCall>> \/ (Running("drop") /\ Tail(stack) = <<DeleteCall>>)
                         ELSE Count(stack, Of("delete")) = 0

StrongCounts ==
    strong = handles + (IF obs = "owned" THEN 1 ELSE 0) + Count(stack, Of("method"))

BorrowCounts ==
    IF borrow = -1 THEN Count(stack, Exclusive) = 1 /\ Count(stack, Borrowers) = 1
    ELSE Count(stack, Exclusive) = 0 /\ Count(stack, Borrowers) = borrow

(* The value is there while somebody holds it. *)
AliveWhileHeld == mode # "none" => value # "none" /\ (value = "live" <=> strong > 0)

Making ==
    stack = <<MakeCall>> =>
        /\ mode # "none" /\ handles = 1 /\ holder = "empty" /\ ~cppOwner
        /\ peer \in {"none", "live"} /\ (peer = "live" => obs # "gone")
        /\ peer = "none" => obs \in {ObsFor(mode), "gone"} /\ ~relinquished

(* Once it is made, a pair is held in the way its constructor chose. *)
Made ==
    mode # "none" /\ stack # <<MakeCall>> =>
        /\ mode = "cpp" => handles = 0 /\ (peer = "live" <=> cppOwner)
        /\ mode # "cpp" => ~cppOwner /\ peer # "dying" /\ (peer = "live" => holder = "owned")
        /\ handles > 0 => peer = "live"
        /\ mode = "cpp" => holder # "owned"
        /\ holder # "empty" /\ mode # "cpp" => (peer = "live" <=> value # "dropped")

BorrowsHaveHandles == Count(stack, Of("borrowed")) > 0 => handles > 0
MethodsHavePeers == Count(stack, Of("method")) > 0 => peer = "live"

(* What `obs` says of the pair. *)
ObsMeans ==
    /\ obs = "owned" =>
        /\ mode \in {"cpp", "self"} /\ ~relinquished /\ stack # <<MakeCall>> => peer = "live"
        /\ mode \in {"cpp", "self"} /\ ~relinquished
    /\ obs = "unowned" => mode = "rust" \/ relinquished
    /\ peer = "live" => obs \in {"owned", "unowned"}
    /\ peer = "live" /\ mode \in {"cpp", "self"} /\ ~relinquished => obs = "owned"

Ended ==
    /\ outcome = "destroyed" => handles = 0 /\ (mode = "rust" \/ relinquished)
    /\ outcome # "misread"

PairInv ==
    /\ TypeOK /\ NotMade /\ StackShape /\ StrongCounts /\ BorrowCounts /\ AliveWhileHeld
    /\ Making /\ Made /\ BorrowsHaveHandles /\ MethodsHavePeers /\ ObsMeans /\ Ended

-----------------------------------------------------------------------------
(* Counting frames *)

LEMMA CountIsNat ==
    ASSUME NEW s \in Seq(Frame), NEW F
    PROVE  IsFiniteSet(Positions(s, F)) /\ Count(s, F) \in Nat
<1>1. IsFiniteSet(1..Len(s))
    BY FS_Interval
<1>2. Positions(s, F) \in SUBSET (1..Len(s))
    BY DEF Positions
<1>3. IsFiniteSet(Positions(s, F))
    BY <1>1, <1>2, FS_Subset
<1> QED
    BY <1>3, FS_CardinalityType DEF Count

LEMMA CountEmpty == \A F : Count(<<>>, F) = 0
<1> SUFFICES ASSUME NEW F PROVE Count(<<>>, F) = 0
    OBVIOUS
<1>1. Positions(<<>>, F) = {}
    BY DEF Positions
<1> QED
    BY <1>1, FS_EmptySet DEF Count

LEMMA Pushed ==
    ASSUME NEW s \in Seq(Frame), NEW f \in Frame
    PROVE  /\ <<f>> \o s \in Seq(Frame)
           /\ <<f>> \o s # <<>>
           /\ Head(<<f>> \o s) = f
           /\ Tail(<<f>> \o s) = s
           /\ Len(<<f>> \o s) = Len(s) + 1
           /\ (<<f>> \o s)[1] = f
           /\ \A i \in 1..Len(s) : (<<f>> \o s)[i + 1] = s[i]
<1>1. <<f>> \in Seq(Frame)
    OBVIOUS
<1> QED
    BY <1>1

LEMMA CountPushed ==
    ASSUME NEW s \in Seq(Frame), NEW f \in Frame, NEW F
    PROVE  Count(<<f>> \o s, F) = Count(s, F) + IF f \in F THEN 1 ELSE 0
<1> DEFINE t == <<f>> \o s
           Below == {i \in 2..Len(t) : t[i] \in F}
           g == [i \in Positions(s, F) |-> i + 1]
<1>0. /\ Len(t) = Len(s) + 1 /\ Len(s) \in Nat /\ t[1] = f
      /\ \A i \in 1..Len(s) : t[i + 1] = s[i]
    BY Pushed
<1> HIDE DEF t
<1>1. g \in Bijection(Positions(s, F), Below)
    <2>1. \A i \in Positions(s, F) : i + 1 \in Below
        BY <1>0 DEF Positions
    <2>2. \A i, j \in Positions(s, F) : i + 1 = j + 1 => i = j
        BY <1>0 DEF Positions
    <2>3. \A j \in Below : \E i \in Positions(s, F) : i + 1 = j
        <3> SUFFICES ASSUME NEW j \in Below PROVE j - 1 \in Positions(s, F) /\ (j - 1) + 1 = j
            OBVIOUS
        <3>1. j - 1 \in 1..Len(s) /\ (j - 1) + 1 = j
            BY <1>0
        <3>2. s[j - 1] = t[j]
            BY <1>0, <3>1
        <3> QED
            BY <3>1, <3>2 DEF Positions
    <2>4. g \in [Positions(s, F) -> Below]
        BY <2>1
    <2>5. g \in Injection(Positions(s, F), Below)
        BY <2>4, <2>2 DEF Injection, IsInjective
    <2>6. g \in Surjection(Positions(s, F), Below)
        BY <2>4, <2>3 DEF Surjection
    <2> QED
        BY <2>5, <2>6 DEF Bijection
<1>2. IsFiniteSet(Below) /\ Cardinality(Below) = Count(s, F)
    <2>1. ExistsBijection(Positions(s, F), Below)
        BY <1>1 DEF ExistsBijection
    <2> QED
        BY <2>1, CountIsNat, FS_Bijection DEF Count
<1>3. Positions(t, F) = IF f \in F THEN Below \cup {1} ELSE Below
    BY <1>0 DEF Positions
<1>4. 1 \notin Below
    BY <1>0
<1>5. Count(s, F) \in Nat
    BY CountIsNat
<1>6. Count(t, F) = Count(s, F) + IF f \in F THEN 1 ELSE 0
    <2>1. CASE f \in F
        <3> HIDE DEF Below
        <3>1. Cardinality(Below \cup {1}) = Cardinality(Below) + 1
            BY <1>2, <1>4, FS_AddElement
        <3> QED
            BY <2>1, <3>1, <1>2, <1>3 DEF Count
    <2>2. CASE f \notin F
        BY <2>2, <1>2, <1>3, <1>5 DEF Count
    <2> QED
        BY <2>1, <2>2
<1> QED
    BY <1>6 DEF t

(* What a stack holds of each kind of call. *)
LEMMA Tally ==
    ASSUME NEW s \in Seq(Frame)
    PROVE  /\ \A kind : Count(s, Of(kind)) \in Nat
           /\ Count(s, Borrowers) \in Nat /\ Count(s, Exclusive) \in Nat
           /\ Count(s, Exclusive) <= Count(s, Borrowers)
           /\ Count(s, Borrowers) = Count(s, Of("make")) + Count(s, Of("method")) + Count(s, Of("borrowed"))
<1> DEFINE P(F) == Positions(s, F)
<1>1. \A F : IsFiniteSet(P(F)) /\ Count(s, F) \in Nat
    BY CountIsNat
<1>2. Count(s, Exclusive) <= Count(s, Borrowers)
    <2>1. P(Exclusive) \in SUBSET P(Borrowers)
        BY DEF Positions, Exclusive
    <2> QED
        BY <2>1, <1>1, FS_Subset DEF Count
<1>3. Count(s, Borrowers) = Count(s, Of("make")) + Count(s, Of("method")) + Count(s, Of("borrowed"))
    <2> DEFINE Ends == P(Of("make")) \cup P(Of("method"))
    <2>1. P(Of("make")) \cap P(Of("method")) = {} /\ Ends \cap P(Of("borrowed")) = {}
        BY DEF Positions, Of
    <2>2. P(Borrowers) = Ends \cup P(Of("borrowed"))
        BY DEF Positions, Borrowers
    <2>3. IsFiniteSet(Ends) /\ Cardinality(Ends) = Cardinality(P(Of("make"))) + Cardinality(P(Of("method"))) - 0
        BY <1>1, <2>1, FS_Union, FS_EmptySet
    <2>4. Cardinality(P(Borrowers)) = Cardinality(Ends) + Cardinality(P(Of("borrowed"))) - 0
        <3> HIDE DEF Ends, P
        <3> QED
            BY <1>1, <2>1, <2>2, <2>3, FS_Union, FS_EmptySet
    <2> QED
        BY <1>1, <2>3, <2>4 DEF Count
<1> QED
    BY <1>1, <1>2, <1>3

Adds(t, s, f) ==
    /\ \A kind : Count(t, Of(kind)) = Count(s, Of(kind)) + IF f.kind = kind THEN 1 ELSE 0
    /\ Count(t, Borrowers) = Count(s, Borrowers) + IF f.kind \in {"make", "method", "borrowed"} THEN 1 ELSE 0
    /\ Count(t, Exclusive) =
        Count(s, Exclusive) + IF f.kind \in {"make", "method", "borrowed"} /\ f.excl THEN 1 ELSE 0

LEMMA PushAdds ==
    ASSUME NEW s \in Seq(Frame), NEW f \in Frame
    PROVE  Adds(<<f>> \o s, s, f)
<1>1. \A F : Count(<<f>> \o s, F) = Count(s, F) + IF f \in F THEN 1 ELSE 0
    BY CountPushed
<1>2. \A kind : f \in Of(kind) <=> f.kind = kind
    BY DEF Of
<1>3. f \in Borrowers <=> f.kind \in {"make", "method", "borrowed"}
    BY DEF Borrowers, Of
<1>4. f \in Exclusive <=> f \in Borrowers /\ f.excl
    BY DEF Exclusive
<1> QED
    BY <1>1, <1>2, <1>3, <1>4 DEF Adds

LEMMA PopTakes ==
    ASSUME NEW s \in Seq(Frame), s # <<>>
    PROVE  /\ Head(s) \in Frame /\ Tail(s) \in Seq(Frame) /\ s = <<Head(s)>> \o Tail(s)
           /\ Adds(s, Tail(s), Head(s))
<1>1. Head(s) \in Frame /\ Tail(s) \in Seq(Frame)
    OBVIOUS
<1>2. s = <<Head(s)>> \o Tail(s)
    OBVIOUS
<1>3. Adds(<<Head(s)>> \o Tail(s), Tail(s), Head(s))
    BY <1>1, PushAdds
<1> QED
    BY <1>1, <1>2, <1>3

LEMMA AloneCounts ==
    ASSUME NEW f \in Frame
    PROVE  <<f>> \in Seq(Frame) /\ <<f>> # <<>> /\ Head(<<f>>) = f /\ Tail(<<f>>) = <<>> /\ Adds(<<f>>, <<>>, f)
<1>1. <<f>> \o <<>> = <<f>> /\ <<>> \in Seq(Frame)
    OBVIOUS
<1>2. Adds(<<f>> \o <<>>, <<>>, f)
    BY <1>1, PushAdds
<1> QED
    BY <1>1, <1>2

LEMMA InProgressCounts ==
    ASSUME NEW kind, stack \in Seq(Frame)
    PROVE  InProgress(kind) <=> Count(stack, Of(kind)) > 0
<1>1. InProgress(kind) <=> Positions(stack, Of(kind)) # {}
    BY DEF InProgress, Positions, Of
<1>2. IsFiniteSet(Positions(stack, Of(kind))) /\ Count(stack, Of(kind)) \in Nat
    BY CountIsNat
<1>3. Count(stack, Of(kind)) = 0 <=> Positions(stack, Of(kind)) = {}
    BY <1>2, FS_EmptySet DEF Count
<1> QED
    BY <1>1, <1>2, <1>3

-----------------------------------------------------------------------------
(* What the invariant says of a state at once *)

LEMMA CallsAreFrames ==
    /\ \A excl \in BOOLEAN : /\ Call("method", excl) \in Frame /\ Call("borrowed", excl) \in Frame
                             /\ Call("method", excl).kind = "method" /\ Call("method", excl).excl = excl
                             /\ Call("borrowed", excl).kind = "borrowed" /\ Call("borrowed", excl).excl = excl
    /\ MakeCall \in Frame /\ DropCall \in Frame /\ DeleteCall \in Frame
    /\ MakeCall.kind = "make" /\ DropCall.kind = "drop" /\ DeleteCall.kind = "delete" /\ MakeCall.excl
BY DEF Call, Frame, MakeCall, DropCall, DeleteCall

(* An unfolding of the head of the stack, for a step which looks at it. *)
LEMMA Innermost ==
    ASSUME PairInv, NEW kind, Running(kind)
    PROVE  /\ stack # <<>> /\ Head(stack) \in Frame /\ Head(stack).kind = kind
           /\ Tail(stack) \in Seq(Frame) /\ Adds(stack, Tail(stack), Head(stack))
BY PopTakes DEF PairInv, TypeOK, Running

LEMMA MakeIsAlone ==
    PairInv /\ Running("make") =>
        /\ stack = <<MakeCall>> /\ Tail(stack) = <<>> /\ Tail(stack) \in Seq(Frame)
        /\ mode \in {"cpp", "rust", "self"}
<1> SUFFICES ASSUME PairInv, Running("make")
             PROVE  /\ stack = <<MakeCall>> /\ Tail(stack) = <<>> /\ Tail(stack) \in Seq(Frame)
                    /\ mode \in {"cpp", "rust", "self"}
    OBVIOUS
<1>1. Count(stack, Of("make")) = Count(Tail(stack), Of("make")) + 1
    BY Innermost DEF Adds
<1>2. Count(Tail(stack), Of("make")) \in Nat /\ Tail(stack) \in Seq(Frame)
    BY Innermost, Tally
<1>3. stack = <<MakeCall>>
    BY <1>1, <1>2 DEF PairInv, StackShape
<1>4. mode \in {"cpp", "rust", "self"}
    BY <1>3, ModesAssumption DEF PairInv, TypeOK, Making
<1>5. Tail(stack) = <<>>
    BY <1>3, AloneCounts, CallsAreFrames
<1> QED
    BY <1>2, <1>3, <1>4, <1>5

LEMMA DropIsDropping == PairInv /\ Running("drop") => value = "dropping"
<1> SUFFICES ASSUME PairInv, Running("drop") PROVE value = "dropping"
    OBVIOUS
<1>1. Count(stack, Of("drop")) = Count(Tail(stack), Of("drop")) + 1
    BY Innermost DEF Adds
<1>2. Count(Tail(stack), Of("drop")) \in Nat
    BY Innermost, Tally
<1> QED
    BY <1>1, <1>2 DEF PairInv, StackShape

LEMMA DeleteIsAlone == PairInv /\ Running("delete") => peer = "dying" /\ stack = <<DeleteCall>> /\ Tail(stack) = <<>>
<1> SUFFICES ASSUME PairInv, Running("delete")
             PROVE  peer = "dying" /\ stack = <<DeleteCall>> /\ Tail(stack) = <<>>
    OBVIOUS
<1>1. Count(stack, Of("delete")) = Count(Tail(stack), Of("delete")) + 1
    BY Innermost DEF Adds
<1>2. Count(Tail(stack), Of("delete")) \in Nat
    BY Innermost, Tally
<1>3. peer = "dying"
    BY <1>1, <1>2 DEF PairInv, StackShape
<1>4. stack = <<DeleteCall>>
    BY <1>3 DEF PairInv, StackShape, Running
<1> QED
    BY <1>3, <1>4, AloneCounts, CallsAreFrames

LEMMA NobodyLeft ==
    PairInv /\ strong = 0 =>
        /\ handles = 0 /\ obs # "owned" /\ stack # <<MakeCall>> /\ borrow = 0
        /\ Count(stack, Of("method")) = 0 /\ Count(stack, Of("borrowed")) = 0
        /\ Count(stack, Borrowers) = 0
<1> SUFFICES ASSUME PairInv, strong = 0
             PROVE  /\ handles = 0 /\ obs # "owned" /\ stack # <<MakeCall>> /\ borrow = 0
                    /\ Count(stack, Of("method")) = 0 /\ Count(stack, Of("borrowed")) = 0
                    /\ Count(stack, Borrowers) = 0
    OBVIOUS
<1>1. /\ stack \in Seq(Frame) /\ handles \in Nat
    BY BoundsAssumption DEF PairInv, TypeOK
<1>2. handles = 0 /\ obs # "owned" /\ Count(stack, Of("method")) = 0
    BY <1>1, Tally DEF PairInv, StrongCounts
<1>3. stack # <<MakeCall>>
    BY <1>2 DEF PairInv, Making
<1>4. Count(stack, Of("make")) = 0 /\ Count(stack, Of("borrowed")) = 0
    BY <1>1, <1>2, <1>3, Tally DEF PairInv, StackShape, BorrowsHaveHandles
<1>5. Count(stack, Borrowers) = 0
    BY <1>1, <1>2, <1>4, Tally
<1>6. borrow = 0
    BY <1>5 DEF PairInv, BorrowCounts
<1> QED
    BY <1>2, <1>3, <1>4, <1>5, <1>6

(* The invariant implies the properties. *)

LEMMA PairIsWhole == PairInv => ObsIsWhole
BY DEF PairInv, Ended, ObsIsWhole

LEMMA PairIsUnborrowed == PairInv => NeverDroppedUnderABorrow
<1> SUFFICES ASSUME PairInv, value \in {"dropping", "dropped"}
             PROVE  borrow = 0 /\ ~InProgress("borrowed")
    BY DEF NeverDroppedUnderABorrow
<1>1. mode # "none" /\ strong = 0
    BY DEF PairInv, TypeOK, NotMade, AliveWhileHeld
<1> QED
    BY <1>1, NobodyLeft, InProgressCounts DEF PairInv, TypeOK

LEMMA PairLives == PairInv => LivesWhileOwned
<1> SUFFICES ASSUME PairInv PROVE LivesWhileOwned
    OBVIOUS
<1>1. stack \in Seq(Frame) /\ handles \in Nat /\ Count(stack, Of("method")) \in Nat
    BY Tally, BoundsAssumption DEF PairInv, TypeOK
<1>2. InProgress("method") <=> Count(stack, Of("method")) > 0
    BY <1>1, InProgressCounts
<1>3. ASSUME mode # "none" PROVE strong > 0 <=> Owned
    <2>1. CASE stack = <<MakeCall>>
        BY <1>1, <1>2, <1>3, <2>1 DEF PairInv, Making, StrongCounts, Owned
    <2>2. CASE stack # <<MakeCall>>
        BY <1>1, <1>2, <1>3, <2>2, ModesAssumption
           DEF PairInv, TypeOK, Made, StrongCounts, ObsMeans, Owned
    <2> QED
        BY <2>1, <2>2
<1> QED
    BY <1>3 DEF PairInv, AliveWhileHeld, Ended, LivesWhileOwned

LEMMA PairIsFreed == PairInv => NothingLeaks
<1> SUFFICES ASSUME PairInv, stack = <<>>, mode # "none", handles = 0, ~cppOwner,
                    mode = "self" => relinquished \/ peer # "live"
             PROVE  value = "dropped" /\ peer \in {"gone", "none"}
    BY DEF NothingLeaks
<1>1. stack # <<MakeCall>> /\ ~Running("drop")
    BY AloneCounts, CallsAreFrames DEF Running
<1>2. Count(stack, Of("method")) = 0
    BY CountEmpty
<1>3. obs # "owned"
    BY <1>1 DEF PairInv, Made, ObsMeans
<1>4. strong = 0
    BY <1>2, <1>3 DEF PairInv, StrongCounts
<1>5. value = "dropped"
    BY <1>1, <1>4 DEF PairInv, TypeOK, AliveWhileHeld, StackShape
<1>6. peer # "dying"
    BY <1>1, AloneCounts, CallsAreFrames DEF PairInv, StackShape
<1>7. peer # "live"
    BY <1>1, <1>5 DEF PairInv, Made
<1> QED
    BY <1>5, <1>6, <1>7 DEF PairInv, TypeOK

-----------------------------------------------------------------------------
(* Every step keeps the invariant *)

LEMMA DropOnTop ==
    ASSUME NEW s \in Seq(Frame)
    PROVE  /\ <<DropCall>> \o s \in Seq(Frame) /\ <<DropCall>> \o s # <<>>
           /\ Head(<<DropCall>> \o s) = DropCall /\ Tail(<<DropCall>> \o s) = s
           /\ Adds(<<DropCall>> \o s, s, DropCall)
           /\ <<DropCall>> \o s # <<MakeCall>> /\ <<DropCall>> \o s # <<DeleteCall>>
<1>1. /\ <<DropCall>> \o s \in Seq(Frame) /\ <<DropCall>> \o s # <<>>
      /\ Head(<<DropCall>> \o s) = DropCall /\ Tail(<<DropCall>> \o s) = s
    BY CallsAreFrames, Pushed
<1>2. Adds(<<DropCall>> \o s, s, DropCall)
    BY CallsAreFrames, PushAdds
<1> QED
    BY <1>1, <1>2, CallsAreFrames, AloneCounts

LEMMA MakeKeeps ==
    ASSUME PairInv, NEW m \in Modes, Make(m)
    PROVE  PairInv'
<1>1. stack' = <<MakeCall>> /\ stack' \in Seq(Frame) /\ Head(stack') = MakeCall
    BY CallsAreFrames, AloneCounts DEF Make, MakeCall
<1>2. /\ Count(stack', Of("make")) = 1 /\ Count(stack', Of("drop")) = 0 /\ Count(stack', Of("delete")) = 0
      /\ Count(stack', Of("method")) = 0 /\ Count(stack', Of("borrowed")) = 0
      /\ Count(stack', Borrowers) = 1 /\ Count(stack', Exclusive) = 1
    BY <1>1, CountEmpty, AloneCounts, CallsAreFrames DEF Adds
<1>3. /\ mode = "none" /\ m \in {"cpp", "rust", "self"} /\ holder = "empty" /\ peer = "none"
      /\ ~cppOwner /\ ~relinquished /\ outcome = "running"
    BY ModesAssumption DEF Make, PairInv, NotMade
<1>4. handles' \in 0..MaxHandles /\ strong' \in Nat /\ mode' \in Modes
      /\ value' = "live" /\ borrow' = -1 /\ obs' \in {"owned", "unowned"}
      /\ UNCHANGED <<holder, peer, cppOwner, relinquished, outcome>>
    BY BoundsAssumption DEF Make, ObsFor
<1>20. TypeOK'
    BY <1>1, <1>3, <1>4
       DEF PairInv, TypeOK
<1>21. NotMade'
    BY <1>1, <1>2, <1>3, BoundsAssumption
       DEF Make, ObsFor, PairInv, TypeOK, NotMade
<1>22. StackShape'
    BY <1>1, <1>2, <1>3, BoundsAssumption
       DEF Make, ObsFor, PairInv, TypeOK, StackShape
<1>23. StrongCounts'
    BY <1>1, <1>2, <1>3, BoundsAssumption
       DEF Make, ObsFor, PairInv, TypeOK, StrongCounts
<1>24. BorrowCounts'
    BY <1>1, <1>2, <1>3, BoundsAssumption
       DEF Make, ObsFor, PairInv, TypeOK, BorrowCounts
<1>25. AliveWhileHeld'
    BY <1>1, <1>2, <1>3, BoundsAssumption
       DEF Make, ObsFor, PairInv, TypeOK, AliveWhileHeld
<1>26. Making'
    BY <1>1, <1>2, <1>3, BoundsAssumption
       DEF Make, ObsFor, PairInv, TypeOK, Making
<1>27. Made'
    BY <1>1, <1>2, <1>3, BoundsAssumption
       DEF Make, ObsFor, PairInv, TypeOK, Made
<1>28. BorrowsHaveHandles'
    BY <1>1, <1>2, <1>3, BoundsAssumption
       DEF Make, ObsFor, PairInv, TypeOK, BorrowsHaveHandles
<1>29. MethodsHavePeers'
    BY <1>1, <1>2, <1>3, BoundsAssumption
       DEF Make, ObsFor, PairInv, TypeOK, MethodsHavePeers
<1>30. ObsMeans'
    BY <1>1, <1>2, <1>3, BoundsAssumption
       DEF Make, ObsFor, PairInv, TypeOK, ObsMeans
<1>31. Ended'
    BY <1>1, <1>2, <1>3, BoundsAssumption
       DEF Make, ObsFor, PairInv, TypeOK, Ended
<1> QED
    BY <1>20, <1>21, <1>22, <1>23, <1>24, <1>25, <1>26, <1>27, <1>28, <1>29, <1>30, <1>31 DEF PairInv

LEMMA ConstructKeeps ==
    ASSUME PairInv, ConstructPeer
    PROVE  PairInv'
<1>1. stack = <<MakeCall>> /\ Tail(stack) = <<>> /\ Tail(stack) \in Seq(Frame) /\ mode \in {"cpp", "rust", "self"}
    BY MakeIsAlone DEF ConstructPeer, UserCode
<1>2. handles = 1 /\ holder = "empty" /\ ~cppOwner /\ Count(stack, Of("method")) = 0
    BY <1>1, CountEmpty, AloneCounts, CallsAreFrames DEF PairInv, Making, Adds
<1>4. strong = (IF obs = "owned" THEN 2 ELSE 1) /\ value = "live"
    BY <1>1, <1>2 DEF PairInv, StrongCounts, AliveWhileHeld
<1>3. obs = ObsFor(mode) /\ ~relinquished
    BY <1>1 DEF ConstructPeer, PairInv, Making
<1>20. TypeOK'
    BY <1>1, <1>2, <1>3, <1>4
       DEF ConstructPeer, ObsFor, UserCode, PairInv, TypeOK
<1>21. NotMade'
    BY <1>1, <1>2, <1>3, <1>4
       DEF ConstructPeer, ObsFor, UserCode, PairInv, TypeOK, NotMade
<1>22. StackShape'
    BY <1>1, <1>2, <1>3, <1>4
       DEF ConstructPeer, ObsFor, UserCode, PairInv, TypeOK, StackShape
<1>23. StrongCounts'
    BY <1>1, <1>2, <1>3, <1>4
       DEF ConstructPeer, ObsFor, UserCode, PairInv, TypeOK, StrongCounts
<1>24. BorrowCounts'
    BY <1>1, <1>2, <1>3, <1>4
       DEF ConstructPeer, ObsFor, UserCode, PairInv, TypeOK, BorrowCounts
<1>25. AliveWhileHeld'
    BY <1>1, <1>2, <1>3, <1>4
       DEF ConstructPeer, ObsFor, UserCode, PairInv, TypeOK, AliveWhileHeld
<1>26. Making'
    BY <1>1, <1>2, <1>3, <1>4
       DEF ConstructPeer, ObsFor, UserCode, PairInv, TypeOK, Making
<1>27. Made'
    BY <1>1, <1>2, <1>3, <1>4
       DEF ConstructPeer, ObsFor, UserCode, PairInv, TypeOK, Made
<1>28. BorrowsHaveHandles'
    BY <1>1, <1>2, <1>3, <1>4
       DEF ConstructPeer, ObsFor, UserCode, PairInv, TypeOK, BorrowsHaveHandles
<1>29. MethodsHavePeers'
    BY <1>1, <1>2, <1>3, <1>4
       DEF ConstructPeer, ObsFor, UserCode, PairInv, TypeOK, MethodsHavePeers
<1>30. ObsMeans'
    BY <1>1, <1>2, <1>3, <1>4
       DEF ConstructPeer, ObsFor, UserCode, PairInv, TypeOK, ObsMeans
<1>31. Ended'
    BY <1>1, <1>2, <1>3, <1>4
       DEF ConstructPeer, ObsFor, UserCode, PairInv, TypeOK, Ended
<1> QED
    BY <1>20, <1>21, <1>22, <1>23, <1>24, <1>25, <1>26, <1>27, <1>28, <1>29, <1>30, <1>31 DEF PairInv

LEMMA ThrowKeeps ==
    ASSUME PairInv, ConstructorThrows
    PROVE  PairInv'
<1>1. stack = <<MakeCall>> /\ Tail(stack) = <<>> /\ Tail(stack) \in Seq(Frame) /\ mode \in {"cpp", "rust", "self"}
    BY MakeIsAlone DEF ConstructorThrows, UserCode
<1>2. handles = 1 /\ holder = "empty" /\ ~cppOwner /\ Count(stack, Of("method")) = 0
    BY <1>1, CountEmpty, AloneCounts, CallsAreFrames DEF PairInv, Making, Adds
<1>4. strong = (IF obs = "owned" THEN 2 ELSE 1) /\ value = "live"
    BY <1>1, <1>2 DEF PairInv, StrongCounts, AliveWhileHeld
<1>3. obs = ObsFor(mode) /\ ~relinquished
    BY <1>1 DEF ConstructorThrows, PairInv, Making
<1>20. TypeOK'
    BY <1>1, <1>2, <1>3, <1>4
       DEF ConstructorThrows, ObsFor, UserCode, PairInv, TypeOK
<1>21. NotMade'
    BY <1>1, <1>2, <1>3, <1>4
       DEF ConstructorThrows, ObsFor, UserCode, PairInv, TypeOK, NotMade
<1>22. StackShape'
    BY <1>1, <1>2, <1>3, <1>4
       DEF ConstructorThrows, ObsFor, UserCode, PairInv, TypeOK, StackShape
<1>23. StrongCounts'
    BY <1>1, <1>2, <1>3, <1>4
       DEF ConstructorThrows, ObsFor, UserCode, PairInv, TypeOK, StrongCounts
<1>24. BorrowCounts'
    BY <1>1, <1>2, <1>3, <1>4
       DEF ConstructorThrows, ObsFor, UserCode, PairInv, TypeOK, BorrowCounts
<1>25. AliveWhileHeld'
    BY <1>1, <1>2, <1>3, <1>4
       DEF ConstructorThrows, ObsFor, UserCode, PairInv, TypeOK, AliveWhileHeld
<1>26. Making'
    BY <1>1, <1>2, <1>3, <1>4
       DEF ConstructorThrows, ObsFor, UserCode, PairInv, TypeOK, Making
<1>27. Made'
    BY <1>1, <1>2, <1>3, <1>4
       DEF ConstructorThrows, ObsFor, UserCode, PairInv, TypeOK, Made
<1>28. BorrowsHaveHandles'
    BY <1>1, <1>2, <1>3, <1>4
       DEF ConstructorThrows, ObsFor, UserCode, PairInv, TypeOK, BorrowsHaveHandles
<1>29. MethodsHavePeers'
    BY <1>1, <1>2, <1>3, <1>4
       DEF ConstructorThrows, ObsFor, UserCode, PairInv, TypeOK, MethodsHavePeers
<1>30. ObsMeans'
    BY <1>1, <1>2, <1>3, <1>4
       DEF ConstructorThrows, ObsFor, UserCode, PairInv, TypeOK, ObsMeans
<1>31. Ended'
    BY <1>1, <1>2, <1>3, <1>4
       DEF ConstructorThrows, ObsFor, UserCode, PairInv, TypeOK, Ended
<1> QED
    BY <1>20, <1>21, <1>22, <1>23, <1>24, <1>25, <1>26, <1>27, <1>28, <1>29, <1>30, <1>31 DEF PairInv

LEMMA MakeFailsKeeps ==
    ASSUME PairInv, MakeFails
    PROVE  PairInv'
<1>1. stack = <<MakeCall>> /\ Tail(stack) = <<>> /\ Tail(stack) \in Seq(Frame) /\ mode \in {"cpp", "rust", "self"}
    BY MakeIsAlone DEF MakeFails, UserCode
<1>2. handles = 1 /\ holder = "empty" /\ ~cppOwner /\ Count(stack, Of("method")) = 0
    BY <1>1, CountEmpty, AloneCounts, CallsAreFrames DEF PairInv, Making, Adds
<1>4. strong = (IF obs = "owned" THEN 2 ELSE 1) /\ value = "live"
    BY <1>1, <1>2 DEF PairInv, StrongCounts, AliveWhileHeld
<1>3. obs = "gone" /\ strong = 1 /\ peer = "none"
    BY <1>1, <1>4 DEF MakeFails, PairInv, TypeOK, Making
<1>5. /\ strong' = 0 /\ stack' \in Seq(Frame) /\ value' = "dropping" /\ Running("drop")'
      /\ Adds(stack', <<>>, DropCall) /\ stack' # <<MakeCall>>
    <2>1. stack' = <<DropCall>> \o Tail(stack) /\ strong' = 0 /\ value' = "dropping"
        BY <1>1, <1>3 DEF MakeFails, Release, DropCall
    <2> QED
        BY <1>1, <2>1, DropOnTop, CallsAreFrames DEF Running
<1>6. /\ Count(stack', Of("make")) = 0 /\ Count(stack', Of("drop")) = 1 /\ Count(stack', Of("delete")) = 0
      /\ Count(stack', Of("method")) = 0 /\ Count(stack', Of("borrowed")) = 0
      /\ Count(stack', Borrowers) = 0 /\ Count(stack', Exclusive) = 0
    BY <1>5, CountEmpty, CallsAreFrames DEF Adds
<1>20. TypeOK'
    BY <1>1, <1>2, <1>3, <1>4, <1>5, <1>6, BoundsAssumption
       DEF MakeFails, UserCode, PairInv, TypeOK
<1>21. NotMade'
    BY <1>1, <1>2, <1>3, <1>4, <1>5, <1>6, BoundsAssumption
       DEF MakeFails, UserCode, PairInv, TypeOK, NotMade
<1>22. StackShape'
    BY <1>1, <1>2, <1>3, <1>4, <1>5, <1>6, BoundsAssumption
       DEF MakeFails, UserCode, PairInv, TypeOK, StackShape
<1>23. StrongCounts'
    BY <1>1, <1>2, <1>3, <1>4, <1>5, <1>6, BoundsAssumption
       DEF MakeFails, UserCode, PairInv, TypeOK, StrongCounts
<1>24. BorrowCounts'
    BY <1>1, <1>2, <1>3, <1>4, <1>5, <1>6, BoundsAssumption
       DEF MakeFails, UserCode, PairInv, TypeOK, BorrowCounts
<1>25. AliveWhileHeld'
    BY <1>1, <1>2, <1>3, <1>4, <1>5, <1>6, BoundsAssumption
       DEF MakeFails, UserCode, PairInv, TypeOK, AliveWhileHeld
<1>26. Making'
    BY <1>1, <1>2, <1>3, <1>4, <1>5, <1>6, BoundsAssumption
       DEF MakeFails, UserCode, PairInv, TypeOK, Making
<1>27. Made'
    BY <1>1, <1>2, <1>3, <1>4, <1>5, <1>6, BoundsAssumption
       DEF MakeFails, UserCode, PairInv, TypeOK, Made
<1>28. BorrowsHaveHandles'
    BY <1>1, <1>2, <1>3, <1>4, <1>5, <1>6, BoundsAssumption
       DEF MakeFails, UserCode, PairInv, TypeOK, BorrowsHaveHandles
<1>29. MethodsHavePeers'
    BY <1>1, <1>2, <1>3, <1>4, <1>5, <1>6, BoundsAssumption
       DEF MakeFails, UserCode, PairInv, TypeOK, MethodsHavePeers
<1>30. ObsMeans'
    BY <1>1, <1>2, <1>3, <1>4, <1>5, <1>6, BoundsAssumption
       DEF MakeFails, UserCode, PairInv, TypeOK, ObsMeans
<1>31. Ended'
    BY <1>1, <1>2, <1>3, <1>4, <1>5, <1>6, BoundsAssumption
       DEF MakeFails, UserCode, PairInv, TypeOK, Ended
<1> QED
    BY <1>20, <1>21, <1>22, <1>23, <1>24, <1>25, <1>26, <1>27, <1>28, <1>29, <1>30, <1>31 DEF PairInv

LEMMA MadeOwningKeeps ==
    ASSUME PairInv, MadeOwning
    PROVE  PairInv'
<1>1. stack = <<MakeCall>> /\ Tail(stack) = <<>> /\ Tail(stack) \in Seq(Frame) /\ mode \in {"cpp", "rust", "self"}
    BY MakeIsAlone DEF MadeOwning, UserCode
<1>2. handles = 1 /\ holder = "empty" /\ ~cppOwner /\ Count(stack, Of("method")) = 0
    BY <1>1, CountEmpty, AloneCounts, CallsAreFrames DEF PairInv, Making, Adds
<1>4. strong = (IF obs = "owned" THEN 2 ELSE 1) /\ value = "live"
    BY <1>1, <1>2 DEF PairInv, StrongCounts, AliveWhileHeld
<1>5. stack' = <<>> /\ stack' \in Seq(Frame) /\ stack' # <<MakeCall>> /\ ~(Running("drop")')
    BY <1>1, AloneCounts, CallsAreFrames DEF MadeOwning, Running
<1>6. /\ Count(stack', Of("make")) = 0 /\ Count(stack', Of("drop")) = 0 /\ Count(stack', Of("delete")) = 0
      /\ Count(stack', Of("method")) = 0 /\ Count(stack', Of("borrowed")) = 0
      /\ Count(stack', Borrowers) = 0 /\ Count(stack', Exclusive) = 0
    BY <1>5, CountEmpty
<1>20. TypeOK'
    BY <1>1, <1>2, <1>4, <1>5, <1>6
       DEF MadeOwning, UserCode, PairInv, TypeOK
<1>21. NotMade'
    BY <1>1, <1>2, <1>4, <1>5, <1>6
       DEF MadeOwning, UserCode, PairInv, TypeOK, NotMade
<1>22. StackShape'
    BY <1>1, <1>2, <1>4, <1>5, <1>6
       DEF MadeOwning, UserCode, PairInv, TypeOK, StackShape
<1>23. StrongCounts'
    BY <1>1, <1>2, <1>4, <1>5, <1>6
       DEF MadeOwning, UserCode, PairInv, TypeOK, StrongCounts
<1>24. BorrowCounts'
    BY <1>1, <1>2, <1>4, <1>5, <1>6
       DEF MadeOwning, UserCode, PairInv, TypeOK, BorrowCounts
<1>25. AliveWhileHeld'
    BY <1>1, <1>2, <1>4, <1>5, <1>6
       DEF MadeOwning, UserCode, PairInv, TypeOK, AliveWhileHeld
<1>26. Making'
    BY <1>1, <1>2, <1>4, <1>5, <1>6
       DEF MadeOwning, UserCode, PairInv, TypeOK, Making
<1>27. Made'
    BY <1>1, <1>2, <1>4, <1>5, <1>6
       DEF MadeOwning, UserCode, PairInv, TypeOK, Made, ObsMeans
<1>28. BorrowsHaveHandles'
    BY <1>1, <1>2, <1>4, <1>5, <1>6
       DEF MadeOwning, UserCode, PairInv, TypeOK, BorrowsHaveHandles
<1>29. MethodsHavePeers'
    BY <1>1, <1>2, <1>4, <1>5, <1>6
       DEF MadeOwning, UserCode, PairInv, TypeOK, MethodsHavePeers
<1>30. ObsMeans'
    BY <1>1, <1>2, <1>4, <1>5, <1>6
       DEF MadeOwning, UserCode, PairInv, TypeOK, ObsMeans, Making
<1>31. Ended'
    BY <1>1, <1>2, <1>4, <1>5, <1>6
       DEF MadeOwning, UserCode, PairInv, TypeOK, Ended
<1> QED
    BY <1>20, <1>21, <1>22, <1>23, <1>24, <1>25, <1>26, <1>27, <1>28, <1>29, <1>30, <1>31 DEF PairInv

LEMMA MadeCppOwnedKeeps ==
    ASSUME PairInv, MadeCppOwned
    PROVE  PairInv'
<1>1. stack = <<MakeCall>> /\ Tail(stack) = <<>> /\ Tail(stack) \in Seq(Frame) /\ mode \in {"cpp", "rust", "self"}
    BY MakeIsAlone DEF MadeCppOwned, UserCode
<1>2. handles = 1 /\ holder = "empty" /\ ~cppOwner /\ Count(stack, Of("method")) = 0
    BY <1>1, CountEmpty, AloneCounts, CallsAreFrames DEF PairInv, Making, Adds
<1>4. strong = (IF obs = "owned" THEN 2 ELSE 1) /\ value = "live"
    BY <1>1, <1>2 DEF PairInv, StrongCounts, AliveWhileHeld
<1>3. peer = "live" /\ mode = "cpp" /\ obs # "gone"
    BY <1>1 DEF MadeCppOwned, PairInv, Making
<1>5. CASE obs = "owned"
    <2>1. /\ strong' = 1 /\ stack' \in Seq(Frame) /\ value' = "live" /\ stack' = <<>>
        BY <1>1, <1>4, <1>5 DEF MadeCppOwned, Release
    <2>2. stack' # <<MakeCall>> /\ ~(Running("drop")')
        BY <2>1, AloneCounts, CallsAreFrames DEF Running
    <2>3. /\ Count(stack', Of("make")) = 0 /\ Count(stack', Of("drop")) = 0 /\ Count(stack', Of("delete")) = 0
          /\ Count(stack', Of("method")) = 0 /\ Count(stack', Of("borrowed")) = 0
          /\ Count(stack', Borrowers) = 0 /\ Count(stack', Exclusive) = 0
        BY <2>1, CountEmpty
    <2> QED
        BY <1>1, <1>2, <1>3, <1>4, <1>5, <2>1, <2>2, <2>3, BoundsAssumption
           DEF MadeCppOwned, PairInv, TypeOK, NotMade, StackShape, StrongCounts, BorrowCounts, AliveWhileHeld,
           Making, Made, BorrowsHaveHandles, MethodsHavePeers, ObsMeans, Ended
<1>6. CASE obs = "unowned"
    <2>1. /\ strong' = 0 /\ stack' \in Seq(Frame) /\ value' = "dropping" /\ Running("drop")'
          /\ Adds(stack', <<>>, DropCall) /\ stack' # <<MakeCall>>
        <3>1. stack' = <<DropCall>> \o Tail(stack) /\ strong' = 0 /\ value' = "dropping"
            BY <1>1, <1>4, <1>6 DEF MadeCppOwned, Release, DropCall
        <3> QED
            BY <1>1, <3>1, DropOnTop, CallsAreFrames DEF Running
    <2>2. /\ Count(stack', Of("make")) = 0 /\ Count(stack', Of("drop")) = 1 /\ Count(stack', Of("delete")) = 0
          /\ Count(stack', Of("method")) = 0 /\ Count(stack', Of("borrowed")) = 0
          /\ Count(stack', Borrowers) = 0 /\ Count(stack', Exclusive) = 0
        BY <2>1, CountEmpty, CallsAreFrames DEF Adds
    <2> QED
        BY <1>1, <1>2, <1>3, <1>4, <1>6, <2>1, <2>2, BoundsAssumption
           DEF MadeCppOwned, PairInv, TypeOK, NotMade, StackShape, StrongCounts, BorrowCounts, AliveWhileHeld,
           Making, Made, BorrowsHaveHandles, MethodsHavePeers, ObsMeans, Ended
<1> QED
    BY <1>3, <1>5, <1>6 DEF PairInv, ObsMeans

LEMMA EnterKeeps ==
    ASSUME PairInv, NEW excl \in BOOLEAN, UserCode, peer = "live", Enter(excl),
           UNCHANGED <<mode, value, handles, holder, peer, obs, cppOwner, relinquished>>
    PROVE  PairInv'
<1>1. /\ obs \in {"owned", "unowned"} /\ mode # "none" /\ stack \in Seq(Frame) /\ outcome = "running"
      /\ handles \in Nat /\ strong \in Nat /\ Count(stack, Of("method")) \in Nat
    BY Tally, BoundsAssumption DEF PairInv, TypeOK, ObsMeans, UserCode
<1>2. CASE outcome' # "running"
    <2>1. UNCHANGED <<strong, borrow, stack>> /\ outcome' \in {"destroyed", "reentrant"}
        BY <1>1, <1>2 DEF Enter
    <2>2. outcome' = "destroyed" => handles = 0 /\ (mode = "rust" \/ relinquished)
        <3>1. outcome' = "destroyed" => obs = "unowned" /\ strong = 0
            BY <1>1, <1>2 DEF Enter, CannotUpgrade
        <3> QED
            BY <3>1, NobodyLeft DEF PairInv, ObsMeans
    <2> QED
        BY <1>1, <2>1, <2>2 DEF Running, PairInv, TypeOK, NotMade, StackShape, StrongCounts, BorrowCounts, AliveWhileHeld,
           Making, Made, BorrowsHaveHandles, MethodsHavePeers, ObsMeans, Ended
<1>3. CASE outcome' = "running"
    <2>1. /\ strong > 0 /\ CanBorrow(excl) /\ strong' = strong + 1 /\ borrow' = Borrowed(excl)
          /\ stack' = <<Call("method", excl)>> \o stack /\ outcome' = outcome
        <3>1. ~CannotUpgrade /\ CanBorrow(excl)
            BY <1>1, <1>3 DEF Enter
        <3>2. strong > 0
            BY <1>1, <3>1 DEF CannotUpgrade, PairInv, StrongCounts
        <3> QED
            BY <1>1, <3>1, <3>2 DEF Enter
    <2> DEFINE f == Call("method", excl)
    <2>0. f \in Frame /\ f.kind = "method" /\ f.excl = excl /\ f # MakeCall /\ f # DeleteCall
        BY CallsAreFrames
    <2>2. stack' \in Seq(Frame) /\ Tail(stack') = stack /\ Head(stack') = f /\ Adds(stack', stack, f)
        BY <1>1, <2>0, <2>1, Pushed, PushAdds
    <2> HIDE DEF f
    <2>3. value = "live"
        BY <1>1, <2>1 DEF PairInv, AliveWhileHeld
    <2>4. stack # <<MakeCall>>
        <3> SUFFICES ASSUME stack = <<MakeCall>> PROVE FALSE
            OBVIOUS
        <3>1. Count(stack, Exclusive) = 1
            BY AloneCounts, CountEmpty, CallsAreFrames DEF Adds
        <3> QED
            BY <2>1, <3>1 DEF PairInv, TypeOK, BorrowCounts, CanBorrow
    <2>5. stack' # <<MakeCall>> /\ stack' # <<DeleteCall>>
        BY <2>0, <2>2, AloneCounts, CallsAreFrames
    <2>6. /\ Count(stack', Of("make")) = 0
          /\ Count(stack', Of("drop")) = 0
          /\ Count(stack', Of("delete")) = 0
          /\ Count(stack', Of("method")) = Count(stack, Of("method")) + 1
          /\ Count(stack', Of("borrowed")) = Count(stack, Of("borrowed"))
          /\ Count(stack', Borrowers) = Count(stack, Borrowers) + 1
          /\ Count(stack', Exclusive) = Count(stack, Exclusive) + IF excl THEN 1 ELSE 0
        <3>1. /\ Count(stack, Of("make")) = 0 /\ Count(stack, Of("drop")) = 0
              /\ Count(stack, Of("delete")) = 0 /\ Count(stack, Of("borrowed")) \in Nat
            BY <1>1, <2>3, <2>4, Tally DEF PairInv, StackShape
        <3>2. Count(stack, Borrowers) \in Nat /\ Count(stack, Exclusive) \in Nat
            BY <1>1, Tally
        <3> QED
            BY <2>0, <2>2, <3>1, <3>2 DEF Adds
    <2>7. Count(stack, Borrowers) \in Nat
        BY <1>1, Tally
    <2>8. BorrowCounts'
        BY <2>1, <2>6, <2>7 DEF PairInv, TypeOK, BorrowCounts, CanBorrow, Borrowed
    <2>9. TypeOK'
        BY <1>1, <2>1, <2>2 DEF PairInv, TypeOK, CanBorrow, Borrowed
    <2>10. StackShape'
        BY <2>3, <2>5, <2>6 DEF StackShape
    <2>11. StrongCounts'
        <3>1. /\ strong' = strong + 1 /\ handles' = handles /\ obs' = obs
              /\ Count(stack', Of("method")) = Count(stack, Of("method")) + 1
            BY <2>1, <2>6
        <3>2. strong = handles + (IF obs = "owned" THEN 1 ELSE 0) + Count(stack, Of("method"))
            BY DEF PairInv, StrongCounts
        <3>3. strong' = handles' + (IF obs' = "owned" THEN 1 ELSE 0) + Count(stack', Of("method"))
            BY <1>1, <3>1, <3>2
        <3> QED
            BY <3>3 DEF StrongCounts
    <2>15. AliveWhileHeld'
        BY <1>1, <2>1, <2>3 DEF AliveWhileHeld
    <2>14. BorrowsHaveHandles' /\ MethodsHavePeers'
        BY <2>6 DEF PairInv, BorrowsHaveHandles, MethodsHavePeers
    <2>12. NotMade' /\ Making' /\ Made'
        BY <1>1, <2>1, <2>3, <2>4, <2>5 DEF PairInv, NotMade, Making, Made
    <2>13. ObsMeans' /\ Ended'
        BY <1>1, <2>1, <2>4, <2>5 DEF PairInv, ObsMeans, Ended
    <2> QED
        BY <2>8, <2>9, <2>10, <2>11, <2>12, <2>13, <2>14, <2>15 DEF PairInv
<1> QED
    BY <1>2, <1>3

LEMMA CppCallsKeeps ==
    ASSUME PairInv, NEW excl \in BOOLEAN, CppCalls(excl)
    PROVE  PairInv'
BY EnterKeeps DEF CppCalls

LEMMA OwnCallsKeeps ==
    ASSUME PairInv, QuietUnderDelete, NEW excl \in BOOLEAN, OwnCalls(excl)
    PROVE  PairInv'
<1>1. CASE holder = "empty"
    <2>1. outcome' = "unset" /\ UNCHANGED <<strong, borrow, stack>> /\ outcome = "running" /\ mode # "none"
        BY <1>1 DEF OwnCalls, OwnCode, UserCode
    <2> QED
        BY <1>1, <2>1 DEF OwnCalls, Running, PairInv, TypeOK, NotMade, StackShape, StrongCounts, BorrowCounts, AliveWhileHeld,
           Making, Made, BorrowsHaveHandles, MethodsHavePeers, ObsMeans, Ended
<1>2. CASE holder # "empty"
    <2>1. peer = "live"
        <3>0. mode # "none"
            BY DEF OwnCalls, OwnCode, UserCode
        <3>1. CASE Running("method")
            <4>1. Count(stack, Of("method")) = Count(Tail(stack), Of("method")) + 1
                BY <3>1, Innermost DEF Adds
            <4>2. Count(Tail(stack), Of("method")) \in Nat
                BY <3>1, Innermost, Tally
            <4> QED
                BY <4>1, <4>2 DEF PairInv, MethodsHavePeers
        <3>2. CASE Running("borrowed")
            <4>1. Count(stack, Of("borrowed")) = Count(Tail(stack), Of("borrowed")) + 1
                BY <3>2, Innermost DEF Adds
            <4>2. Count(Tail(stack), Of("borrowed")) \in Nat /\ stack # <<MakeCall>>
                BY <3>2, Innermost, Tally, AloneCounts, CallsAreFrames
            <4> QED
                BY <3>0, <4>1, <4>2 DEF PairInv, BorrowsHaveHandles, Made
        <3>3. CASE Running("drop")
            <4>1. value = "dropping" /\ stack # <<MakeCall>> /\ mode # "cpp"
                BY <3>3, DropIsDropping, Innermost, AloneCounts, CallsAreFrames
                   DEF QuietUnderDelete, OwnCalls
            <4> QED
                BY <1>2, <3>0, <4>1 DEF PairInv, Made
        <3> QED
            BY <3>1, <3>2, <3>3 DEF OwnCalls, OwnCode
    <2> QED
        BY <1>2, <2>1, EnterKeeps DEF OwnCalls, OwnCode
<1> QED
    BY <1>1, <1>2

LEMMA MethodReturnsKeeps ==
    ASSUME PairInv, MethodReturns
    PROVE  PairInv'
<1> DEFINE h == Head(stack)
           t == Tail(stack)
<1>1. /\ h \in Frame /\ h.kind = "method" /\ t \in Seq(Frame) /\ Adds(stack, t, h)
      /\ stack # <<MakeCall>> /\ stack # <<DeleteCall>> /\ mode # "none" /\ stack \in Seq(Frame) /\ outcome = "running"
    BY Innermost, AloneCounts, CallsAreFrames DEF MethodReturns, UserCode, PairInv, TypeOK
<1> HIDE DEF h, t
<1>2. /\ \A kind : Count(t, Of(kind)) \in Nat
      /\ Count(t, Borrowers) \in Nat /\ Count(t, Exclusive) \in Nat /\ Count(t, Exclusive) <= Count(t, Borrowers)
    BY <1>1, Tally
<1>7. h.excl \in BOOLEAN
    BY <1>1 DEF Frame
<1>3. /\ Count(stack, Of("method")) = Count(t, Of("method")) + 1
      /\ Count(stack, Of("borrowed")) = Count(t, Of("borrowed"))
      /\ Count(stack, Of("make")) = Count(t, Of("make"))
      /\ Count(stack, Of("drop")) = Count(t, Of("drop"))
      /\ Count(stack, Of("delete")) = Count(t, Of("delete"))
      /\ Count(stack, Borrowers) = Count(t, Borrowers) + 1
      /\ Count(stack, Exclusive) = Count(t, Exclusive) + IF h.excl THEN 1 ELSE 0
    BY <1>1, <1>2, <1>7 DEF Adds
<1>4. handles \in Nat /\ strong \in Nat /\ strong > 0 /\ peer = "live" /\ value = "live"
    BY <1>1, <1>2, <1>3, BoundsAssumption
       DEF PairInv, TypeOK, StrongCounts, MethodsHavePeers, AliveWhileHeld
<1>5. Count(t, Of("make")) = 0 /\ Count(t, Of("drop")) = 0 /\ Count(t, Of("delete")) = 0
    BY <1>1, <1>3, <1>4 DEF PairInv, StackShape
<1>6. borrow' = IF h.excl THEN 0 ELSE borrow - 1
    BY DEF MethodReturns, Unborrowed, h
<1>8. IF h.excl THEN Count(t, Borrowers) = 0 /\ Count(t, Exclusive) = 0
                ELSE borrow # -1 /\ Count(t, Exclusive) = 0 /\ Count(t, Borrowers) = borrow - 1
    BY <1>2, <1>3, <1>7 DEF PairInv, TypeOK, BorrowCounts
<1>9. Count(t, Exclusive) = 0 /\ borrow' = Count(t, Borrowers) /\ borrow' \in Nat
    BY <1>2, <1>6, <1>7, <1>8
<1>10. CASE strong = 1
    <2>1. stack' = <<DropCall>> \o t /\ strong' = 0 /\ value' = "dropping"
        BY <1>10 DEF MethodReturns, Release, DropCall, t
    <2>2. /\ stack' \in Seq(Frame) /\ Running("drop")' /\ Adds(stack', t, DropCall)
          /\ stack' # <<MakeCall>> /\ stack' # <<DeleteCall>>
        BY <1>1, <2>1, DropOnTop, CallsAreFrames DEF Running
    <2>3. /\ Count(stack', Of("make")) = 0 /\ Count(stack', Of("drop")) = 1 /\ Count(stack', Of("delete")) = 0
          /\ Count(stack', Of("method")) = Count(t, Of("method"))
          /\ Count(stack', Of("borrowed")) = Count(t, Of("borrowed"))
          /\ Count(stack', Borrowers) = Count(t, Borrowers)
          /\ Count(stack', Exclusive) = Count(t, Exclusive)
        BY <1>2, <1>5, <2>2, CallsAreFrames DEF Adds
    <2>4. TypeOK' /\ BorrowCounts' /\ StackShape'
        BY <1>4, <1>9, <2>1, <2>2, <2>3 DEF MethodReturns, PairInv, TypeOK, BorrowCounts, StackShape
    <2>51. StrongCounts'
        <3>1. /\ strong' = strong - 1 /\ handles' = handles /\ obs' = obs
              /\ Count(stack', Of("method")) = Count(stack, Of("method")) - 1 /\ Count(t, Of("method")) \in Nat
            BY <1>2, <1>3, <1>10, <2>1, <2>3 DEF MethodReturns
        <3>2. strong = handles + (IF obs = "owned" THEN 1 ELSE 0) + Count(stack, Of("method"))
            BY DEF PairInv, StrongCounts
        <3>3. strong' = handles' + (IF obs' = "owned" THEN 1 ELSE 0) + Count(stack', Of("method"))
            BY <1>3, <1>4, <3>1, <3>2
        <3> QED
            BY <3>3 DEF StrongCounts
    <2>52. AliveWhileHeld'
        BY <1>1, <1>2, <1>3, <1>4, <1>10, <2>1, <2>3 DEF MethodReturns, PairInv, AliveWhileHeld
    <2>53. BorrowsHaveHandles'
        BY <1>1, <1>2, <1>3, <1>4, <1>10, <2>1, <2>3 DEF MethodReturns, PairInv, BorrowsHaveHandles
    <2>54. MethodsHavePeers'
        BY <1>1, <1>2, <1>3, <1>4, <1>10, <2>1, <2>3 DEF MethodReturns, PairInv, MethodsHavePeers
    <2>6. NotMade' /\ Making' /\ Made' /\ ObsMeans' /\ Ended'
        BY <1>1, <1>4, <2>1, <2>2 DEF MethodReturns, PairInv, NotMade, Making, Made, ObsMeans, Ended
    <2> QED
        BY <2>4, <2>51, <2>52, <2>53, <2>54, <2>6 DEF PairInv
<1>11. CASE strong # 1
    <2>1. stack' = t /\ strong' = strong - 1 /\ value' = "live"
        BY <1>4, <1>11 DEF MethodReturns, Release, t
    <2>2. stack' # <<MakeCall>>
        BY <1>5, <2>1, AloneCounts, CountEmpty, CallsAreFrames DEF Adds
    <2>4. TypeOK' /\ BorrowCounts' /\ StackShape'
        BY <1>1, <1>4, <1>5, <1>9, <2>1, <2>2 DEF MethodReturns, PairInv, TypeOK, BorrowCounts, StackShape
    <2>51. StrongCounts'
        <3>1. /\ strong' = strong - 1 /\ handles' = handles /\ obs' = obs
              /\ Count(stack', Of("method")) = Count(stack, Of("method")) - 1 /\ Count(t, Of("method")) \in Nat
            BY <1>2, <1>3, <1>4, <2>1 DEF MethodReturns
        <3>2. strong = handles + (IF obs = "owned" THEN 1 ELSE 0) + Count(stack, Of("method"))
            BY DEF PairInv, StrongCounts
        <3>3. strong' = handles' + (IF obs' = "owned" THEN 1 ELSE 0) + Count(stack', Of("method"))
            BY <1>3, <1>4, <3>1, <3>2
        <3> QED
            BY <3>3 DEF StrongCounts
    <2>52. AliveWhileHeld'
        BY <1>1, <1>2, <1>3, <1>4, <1>11, <2>1 DEF MethodReturns, PairInv, AliveWhileHeld
    <2>53. BorrowsHaveHandles'
        BY <1>1, <1>2, <1>3, <1>4, <1>11, <2>1 DEF MethodReturns, PairInv, BorrowsHaveHandles
    <2>54. MethodsHavePeers'
        BY <1>1, <1>2, <1>3, <1>4, <1>11, <2>1 DEF MethodReturns, PairInv, MethodsHavePeers
    <2>6. NotMade' /\ Making' /\ Made' /\ ObsMeans' /\ Ended'
        BY <1>1, <1>4, <2>1, <2>2 DEF MethodReturns, PairInv, NotMade, Making, Made, ObsMeans, Ended
    <2> QED
        BY <2>4, <2>51, <2>52, <2>53, <2>54, <2>6 DEF PairInv
<1> QED
    BY <1>10, <1>11

LEMMA HandlesMeanMade ==
    ASSUME PairInv, HandlesAreOut
    PROVE  /\ stack \in Seq(Frame) /\ mode # "none" /\ outcome = "running" /\ handles \in Nat /\ handles > 0
           /\ strong \in Nat /\ strong > 0 /\ value = "live" /\ peer = "live" /\ stack # <<MakeCall>>
           /\ stack # <<DeleteCall>>
           /\ Count(stack, Of("make")) = 0 /\ Count(stack, Of("drop")) = 0 /\ Count(stack, Of("delete")) = 0
           /\ Count(stack, Of("method")) \in Nat /\ Count(stack, Of("borrowed")) \in Nat
           /\ Count(stack, Borrowers) \in Nat /\ Count(stack, Exclusive) \in Nat
<1>1. stack \in Seq(Frame) /\ mode # "none" /\ outcome = "running" /\ handles \in Nat /\ handles > 0 /\ strong \in Nat
    BY BoundsAssumption DEF HandlesAreOut, UserCode, PairInv, TypeOK
<1>2. /\ \A kind : Count(stack, Of(kind)) \in Nat
      /\ Count(stack, Borrowers) \in Nat /\ Count(stack, Exclusive) \in Nat
    BY <1>1, Tally
<1>3. Count(stack, Of("make")) = 0 /\ stack # <<MakeCall>>
    BY <1>1, <1>2, InProgressCounts DEF HandlesAreOut, PairInv, StackShape
<1>4. strong > 0 /\ value = "live" /\ peer = "live"
    BY <1>1, <1>2, <1>3 DEF PairInv, StrongCounts, AliveWhileHeld, Made
<1>5. Count(stack, Of("drop")) = 0 /\ Count(stack, Of("delete")) = 0
    BY <1>4 DEF PairInv, StackShape
<1>6. stack # <<DeleteCall>>
    BY <1>5, AloneCounts, CountEmpty, CallsAreFrames DEF Adds
<1> QED
    BY <1>1, <1>2, <1>3, <1>4, <1>5, <1>6

LEMMA CloneHandleKeeps ==
    ASSUME PairInv, CloneHandle
    PROVE  PairInv'
<1>1. HandlesAreOut
    BY DEF CloneHandle
<1>2. TypeOK' /\ StackShape' /\ BorrowCounts'
    BY <1>1, HandlesMeanMade, BoundsAssumption
       DEF CloneHandle, PairInv, TypeOK, StackShape, BorrowCounts, Running
<1>3. NotMade' /\ StrongCounts' /\ AliveWhileHeld' /\ Making' /\ Made' /\ BorrowsHaveHandles'
    BY <1>1, HandlesMeanMade, SMTT(60)
       DEF CloneHandle, PairInv, NotMade, StrongCounts, AliveWhileHeld, Making, Made, BorrowsHaveHandles
<1>4. MethodsHavePeers' /\ ObsMeans' /\ Ended'
    BY <1>1, HandlesMeanMade DEF CloneHandle, PairInv, MethodsHavePeers, ObsMeans, Ended
<1> QED
    BY <1>2, <1>3, <1>4 DEF PairInv

LEMMA DropHandleKeeps ==
    ASSUME PairInv, DropHandle
    PROVE  PairInv'
<1>1. HandlesAreOut /\ handles' = handles - 1 /\ UNCHANGED <<mode, borrow, holder, peer, obs, cppOwner, relinquished, outcome>>
    BY DEF DropHandle
<1>2. handles = 1 => Count(stack, Of("borrowed")) = 0
    BY <1>1, HandlesMeanMade, InProgressCounts DEF DropHandle
<1>3. CASE strong = 1
    <2>1. stack' = <<DropCall>> \o stack /\ strong' = 0 /\ value' = "dropping"
        BY <1>3 DEF DropHandle, Release, DropCall
    <2>2. /\ stack' \in Seq(Frame) /\ Running("drop")' /\ Adds(stack', stack, DropCall)
          /\ stack' # <<MakeCall>> /\ stack' # <<DeleteCall>>
        BY <1>1, <2>1, HandlesMeanMade, DropOnTop, CallsAreFrames DEF Running
    <2>3. /\ Count(stack', Of("make")) = 0 /\ Count(stack', Of("drop")) = 1 /\ Count(stack', Of("delete")) = 0
          /\ Count(stack', Of("method")) = Count(stack, Of("method"))
          /\ Count(stack', Of("borrowed")) = Count(stack, Of("borrowed"))
          /\ Count(stack', Borrowers) = Count(stack, Borrowers)
          /\ Count(stack', Exclusive) = Count(stack, Exclusive)
        BY <1>1, <2>2, HandlesMeanMade, CallsAreFrames DEF Adds
    <2>4. TypeOK' /\ BorrowCounts' /\ StackShape'
        BY <1>1, <2>1, <2>2, <2>3, HandlesMeanMade, BoundsAssumption DEF PairInv, TypeOK, BorrowCounts, StackShape
    <2>51. StrongCounts'
        BY <1>1, <1>2, <1>3, <2>1, <2>3, HandlesMeanMade, SMTT(60) DEF PairInv, StrongCounts
    <2>52. AliveWhileHeld'
        BY <1>1, <1>2, <1>3, <2>1, <2>3, HandlesMeanMade DEF PairInv, AliveWhileHeld
    <2>53. BorrowsHaveHandles'
        BY <1>1, <1>2, <1>3, <2>1, <2>3, HandlesMeanMade DEF PairInv, BorrowsHaveHandles
    <2>54. MethodsHavePeers'
        BY <1>1, <1>2, <1>3, <2>1, <2>3, HandlesMeanMade DEF PairInv, MethodsHavePeers
    <2>6. NotMade' /\ Making' /\ Made' /\ ObsMeans' /\ Ended'
        BY <1>1, <2>1, <2>2, HandlesMeanMade DEF PairInv, NotMade, Making, Made, ObsMeans, Ended
    <2> QED
        BY <2>4, <2>51, <2>52, <2>53, <2>54, <2>6 DEF PairInv
<1>4. CASE strong # 1
    <2>1. stack' = stack /\ strong' = strong - 1 /\ value' = "live"
        BY <1>1, <1>4, HandlesMeanMade DEF DropHandle, Release
    <2>4. TypeOK' /\ BorrowCounts' /\ StackShape'
        BY <1>1, <1>4, <2>1, HandlesMeanMade, BoundsAssumption DEF PairInv, TypeOK, BorrowCounts, StackShape
    <2>51. StrongCounts'
        BY <1>1, <1>2, <1>4, <2>1, HandlesMeanMade, SMTT(60) DEF PairInv, StrongCounts
    <2>52. AliveWhileHeld'
        BY <1>1, <1>2, <1>4, <2>1, HandlesMeanMade DEF PairInv, AliveWhileHeld
    <2>53. BorrowsHaveHandles'
        BY <1>1, <1>2, <1>4, <2>1, HandlesMeanMade DEF PairInv, BorrowsHaveHandles
    <2>54. MethodsHavePeers'
        BY <1>1, <1>2, <1>4, <2>1, HandlesMeanMade DEF PairInv, MethodsHavePeers
    <2>6. NotMade' /\ Making' /\ Made' /\ ObsMeans' /\ Ended'
        BY <1>1, <2>1, HandlesMeanMade DEF PairInv, NotMade, Making, Made, ObsMeans, Ended
    <2> QED
        BY <2>4, <2>51, <2>52, <2>53, <2>54, <2>6 DEF PairInv
<1> QED
    BY <1>3, <1>4

LEMMA BorrowHandleKeeps ==
    ASSUME PairInv, NEW excl \in BOOLEAN, BorrowHandle(excl)
    PROVE  PairInv'
<1> DEFINE f == Call("borrowed", excl)
<1>1. /\ HandlesAreOut /\ CanBorrow(excl) /\ borrow' = Borrowed(excl) /\ stack' = <<f>> \o stack
      /\ UNCHANGED <<mode, value, strong, handles, holder, peer, obs, cppOwner, relinquished, outcome>>
    BY DEF BorrowHandle
<1>2. f \in Frame /\ f.kind = "borrowed" /\ f.excl = excl /\ f # MakeCall /\ f # DeleteCall
    BY CallsAreFrames
<1>3. stack' \in Seq(Frame) /\ Head(stack') = f /\ Adds(stack', stack, f)
    BY <1>1, <1>2, HandlesMeanMade, Pushed, PushAdds
<1> HIDE DEF f
<1>4. stack' # <<MakeCall>> /\ stack' # <<DeleteCall>>
    BY <1>2, <1>3, AloneCounts, CallsAreFrames
<1>5. /\ Count(stack', Of("make")) = 0 /\ Count(stack', Of("drop")) = 0 /\ Count(stack', Of("delete")) = 0
      /\ Count(stack', Of("method")) = Count(stack, Of("method"))
      /\ Count(stack', Of("borrowed")) = Count(stack, Of("borrowed")) + 1
      /\ Count(stack', Borrowers) = Count(stack, Borrowers) + 1
      /\ Count(stack', Exclusive) = Count(stack, Exclusive) + IF excl THEN 1 ELSE 0
    BY <1>1, <1>2, <1>3, HandlesMeanMade, SMTT(60) DEF Adds
<1>6. TypeOK'
    BY <1>1, <1>3 DEF PairInv, TypeOK, CanBorrow, Borrowed
<1>7. BorrowCounts'
    BY <1>1, <1>5, HandlesMeanMade DEF PairInv, TypeOK, BorrowCounts, CanBorrow, Borrowed
<1>8. StackShape' /\ StrongCounts' /\ AliveWhileHeld' /\ BorrowsHaveHandles' /\ MethodsHavePeers'
    BY <1>1, <1>4, <1>5, HandlesMeanMade
       DEF PairInv, StackShape, StrongCounts, AliveWhileHeld, BorrowsHaveHandles, MethodsHavePeers
<1>9. NotMade' /\ Making' /\ Made' /\ ObsMeans' /\ Ended'
    BY <1>1, <1>4, HandlesMeanMade DEF PairInv, NotMade, Making, Made, ObsMeans, Ended
<1> QED
    BY <1>6, <1>7, <1>8, <1>9 DEF PairInv

LEMMA BorrowEndsKeeps ==
    ASSUME PairInv, BorrowEnds
    PROVE  PairInv'
<1> DEFINE h == Head(stack)
           t == Tail(stack)
<1>1. /\ h \in Frame /\ h.kind = "borrowed" /\ t \in Seq(Frame) /\ Adds(stack, t, h) /\ h.excl \in BOOLEAN
      /\ stack # <<MakeCall>> /\ stack # <<DeleteCall>> /\ mode # "none" /\ outcome = "running"
    BY Innermost, AloneCounts, CallsAreFrames DEF BorrowEnds, UserCode, Frame
<1>2. /\ borrow' = (IF h.excl THEN 0 ELSE borrow - 1) /\ stack' = t
      /\ UNCHANGED <<mode, value, strong, handles, holder, peer, obs, cppOwner, relinquished, outcome>>
    BY DEF BorrowEnds, Unborrowed
<1> HIDE DEF h, t
<1>3. /\ \A kind : Count(t, Of(kind)) \in Nat
      /\ Count(t, Borrowers) \in Nat /\ Count(t, Exclusive) \in Nat /\ Count(t, Exclusive) <= Count(t, Borrowers)
    BY <1>1, Tally
<1>4. /\ Count(stack, Of("method")) = Count(t, Of("method"))
      /\ Count(stack, Of("borrowed")) = Count(t, Of("borrowed")) + 1
      /\ Count(stack, Of("make")) = Count(t, Of("make"))
      /\ Count(stack, Of("drop")) = Count(t, Of("drop"))
      /\ Count(stack, Of("delete")) = Count(t, Of("delete"))
      /\ Count(stack, Borrowers) = Count(t, Borrowers) + 1
      /\ Count(stack, Exclusive) = Count(t, Exclusive) + IF h.excl THEN 1 ELSE 0
    BY <1>1, <1>3 DEF Adds
<1>5. handles > 0 /\ peer = "live" /\ value # "dropping"
    <2>1. handles > 0 /\ peer = "live"
        BY <1>1, <1>3, <1>4 DEF PairInv, BorrowsHaveHandles, Made
    <2>2. value # "dropping"
        BY <1>1 DEF PairInv, StackShape, Running, h
    <2> QED
        BY <2>1, <2>2
<1>6. Count(t, Of("make")) = 0 /\ Count(t, Of("drop")) = 0 /\ Count(t, Of("delete")) = 0
    BY <1>1, <1>4, <1>5 DEF PairInv, StackShape
<1>7. stack' # <<MakeCall>>
    BY <1>2, <1>6, AloneCounts, CountEmpty, CallsAreFrames DEF Adds
<1>8. Count(t, Exclusive) = 0 /\ borrow' = Count(t, Borrowers)
    BY <1>1, <1>2, <1>3, <1>4 DEF PairInv, TypeOK, BorrowCounts
<1>9. TypeOK' /\ BorrowCounts' /\ StackShape'
    BY <1>1, <1>2, <1>3, <1>5, <1>6, <1>7, <1>8 DEF PairInv, TypeOK, BorrowCounts, StackShape
<1>10. StrongCounts' /\ AliveWhileHeld' /\ BorrowsHaveHandles' /\ MethodsHavePeers'
    BY <1>2, <1>4, <1>5 DEF PairInv, StrongCounts, AliveWhileHeld, BorrowsHaveHandles, MethodsHavePeers
<1>11. NotMade' /\ Making' /\ Made' /\ ObsMeans' /\ Ended'
    BY <1>1, <1>2, <1>7 DEF PairInv, NotMade, Making, Made, ObsMeans, Ended
<1> QED
    BY <1>9, <1>10, <1>11 DEF PairInv

LEMMA RelinquishKeeps ==
    ASSUME PairInv, Relinquish
    PROVE  PairInv'
<1>1. /\ stack \in Seq(Frame) /\ mode # "none" /\ outcome = "running" /\ handles \in Nat /\ strong \in Nat
      /\ peer = "live" /\ obs \in {"owned", "unowned"} /\ relinquished'
      /\ UNCHANGED <<mode, handles, borrow, holder, peer, cppOwner, outcome>>
    BY BoundsAssumption DEF Relinquish, UserCode, PairInv, TypeOK
<1>2. /\ \A kind : Count(stack, Of(kind)) \in Nat
      /\ Count(stack, Borrowers) \in Nat /\ Count(stack, Exclusive) \in Nat
    BY <1>1, Tally
<1>3. CASE obs = "unowned"
    <2>1. UNCHANGED <<strong, value, stack, obs>>
        BY <1>3 DEF Relinquish
    <2>2. TypeOK' /\ NotMade' /\ StackShape' /\ StrongCounts' /\ BorrowCounts' /\ AliveWhileHeld'
        BY <1>1, <2>1
           DEF PairInv, TypeOK, NotMade, StackShape, StrongCounts, BorrowCounts, AliveWhileHeld, Running
    <2>3. Making' /\ Made' /\ BorrowsHaveHandles' /\ MethodsHavePeers' /\ ObsMeans' /\ Ended'
        BY <1>1, <1>3, <2>1
           DEF PairInv, Making, Made, BorrowsHaveHandles, MethodsHavePeers, ObsMeans, Ended
    <2> QED
        BY <2>2, <2>3 DEF PairInv
<1>4. CASE obs = "owned"
    <2>1. /\ strong = handles + 1 + Count(stack, Of("method")) /\ strong > 0 /\ value = "live"
          /\ obs' = "unowned" /\ strong' = strong - 1
        BY <1>1, <1>2, <1>4
           DEF Relinquish, Release, Exchanged, PairInv, StrongCounts, AliveWhileHeld
    <2>2. Count(stack, Of("drop")) = 0 /\ Count(stack, Of("delete")) = 0
        BY <1>1, <2>1 DEF PairInv, StackShape
    <2>3. TypeOK' /\ StrongCounts' /\ BorrowCounts' /\ StackShape' /\ AliveWhileHeld' /\ BorrowsHaveHandles'
              /\ MethodsHavePeers' /\ (stack = <<MakeCall>> <=> stack' = <<MakeCall>>)
        <3>1. CASE strong = 1
            <4>1. stack' = <<DropCall>> \o stack /\ value' = "dropping"
                BY <1>4, <3>1 DEF Relinquish, Release, DropCall
            <4>2. /\ stack' \in Seq(Frame) /\ Running("drop")' /\ Adds(stack', stack, DropCall)
                  /\ stack' # <<MakeCall>>
                BY <1>1, <4>1, DropOnTop, CallsAreFrames DEF Running
            <4>3. stack # <<MakeCall>>
                BY <1>1, <1>2, <2>1, <3>1 DEF PairInv, Making
            <4>4. /\ Count(stack', Of("make")) = 0 /\ Count(stack', Of("drop")) = 1
                  /\ Count(stack', Of("delete")) = 0
                  /\ Count(stack', Of("method")) = Count(stack, Of("method"))
                  /\ Count(stack', Of("borrowed")) = Count(stack, Of("borrowed"))
                  /\ Count(stack', Borrowers) = Count(stack, Borrowers)
                  /\ Count(stack', Exclusive) = Count(stack, Exclusive)
                BY <1>2, <2>2, <4>2, <4>3, CallsAreFrames DEF Adds, PairInv, StackShape
            <4>5. TypeOK' /\ BorrowCounts' /\ StackShape'
                BY <1>1, <2>1, <3>1, <4>1, <4>2, <4>4 DEF PairInv, TypeOK, BorrowCounts, StackShape
            <4>6. StrongCounts' /\ AliveWhileHeld'
                BY <1>1, <1>2, <2>1, <3>1, <4>1, <4>4 DEF StrongCounts, AliveWhileHeld
            <4>7. BorrowsHaveHandles' /\ MethodsHavePeers'
                BY <1>1, <4>4 DEF PairInv, BorrowsHaveHandles, MethodsHavePeers
            <4> QED
                BY <4>2, <4>3, <4>5, <4>6, <4>7
        <3>2. CASE strong # 1
            <4>1. stack' = stack /\ value' = value
                BY <1>4, <3>2 DEF Relinquish, Release
            <4>2. TypeOK' /\ BorrowCounts' /\ StackShape'
                BY <1>1, <2>1, <2>2, <3>2, <4>1 DEF PairInv, TypeOK, BorrowCounts, StackShape
            <4>3. StrongCounts' /\ AliveWhileHeld'
                BY <1>1, <1>2, <2>1, <3>2, <4>1 DEF StrongCounts, AliveWhileHeld
            <4>4. BorrowsHaveHandles' /\ MethodsHavePeers'
                BY <1>1, <4>1 DEF PairInv, BorrowsHaveHandles, MethodsHavePeers
            <4> QED
                BY <4>1, <4>2, <4>3, <4>4
        <3> QED
            BY <3>1, <3>2
    <2>4. value' \in {"live", "dropping"}
        BY <1>4, <2>1 DEF Relinquish, Release
    <2>5. NotMade' /\ Making' /\ Made' /\ ObsMeans' /\ Ended'
        BY <1>1, <2>1, <2>3, <2>4 DEF PairInv, NotMade, Making, Made, ObsMeans, Ended
    <2> QED
        BY <2>3, <2>5 DEF PairInv
<1> QED
    BY <1>1, <1>3, <1>4

LEMMA DropEndsKeeps ==
    ASSUME PairInv, DropEnds
    PROVE  PairInv'
<1> DEFINE t == Tail(stack)
<1>1. /\ value = "dropping" /\ Running("drop") /\ mode # "none" /\ outcome = "running" /\ stack \in Seq(Frame)
      /\ t \in Seq(Frame) /\ Adds(stack, t, Head(stack)) /\ Head(stack).kind = "drop"
    BY Innermost, DropIsDropping DEF DropEnds, UserCode, PairInv, TypeOK
<1>2. /\ stack' = t /\ value' = "dropped"
      /\ IF holder = "owned" THEN peer' = "gone" /\ obs' = "gone" ELSE UNCHANGED <<peer, obs>>
      /\ UNCHANGED <<mode, strong, handles, borrow, holder, cppOwner, relinquished, outcome>>
    BY DEF DropEnds
<1>3. peer = "dying" => t = <<DeleteCall>> /\ holder # "owned"
    <2>1. stack # <<MakeCall>> /\ stack # <<DeleteCall>>
        BY <1>1, Innermost, AloneCounts, CallsAreFrames
    <2> QED
        BY <1>1, <2>1 DEF PairInv, StackShape, Made
<1> HIDE DEF t
<1>4. strong = 0
    BY <1>1, BoundsAssumption DEF PairInv, TypeOK, AliveWhileHeld
<1>5. /\ handles = 0 /\ obs # "owned" /\ stack # <<MakeCall>> /\ borrow = 0
      /\ Count(stack, Of("method")) = 0 /\ Count(stack, Of("borrowed")) = 0 /\ Count(stack, Borrowers) = 0
    BY <1>4, NobodyLeft
<1>6. /\ \A kind : Count(t, Of(kind)) \in Nat
      /\ Count(t, Borrowers) \in Nat /\ Count(t, Exclusive) \in Nat /\ Count(t, Exclusive) <= Count(t, Borrowers)
    BY <1>1, Tally
<1>7. /\ Count(t, Of("make")) = 0 /\ Count(t, Of("drop")) = 0 /\ Count(t, Of("method")) = 0
      /\ Count(t, Of("borrowed")) = 0 /\ Count(t, Of("delete")) = Count(stack, Of("delete"))
      /\ Count(t, Borrowers) = 0
    BY <1>1, <1>5, <1>6 DEF Adds, PairInv, StackShape
<1>8. Count(t, Exclusive) = 0 /\ t # <<MakeCall>>
    BY <1>6, <1>7, AloneCounts, CountEmpty, CallsAreFrames DEF Adds
<1>9. TypeOK' /\ NotMade'
    BY <1>1, <1>2 DEF PairInv, TypeOK, NotMade
<1>10. StackShape'
    BY <1>1, <1>2, <1>3, <1>7, <1>8 DEF PairInv, StackShape
<1>11. StrongCounts' /\ BorrowCounts' /\ AliveWhileHeld' /\ BorrowsHaveHandles' /\ MethodsHavePeers'
    BY <1>2, <1>4, <1>5, <1>7, <1>8
       DEF StrongCounts, BorrowCounts, AliveWhileHeld, BorrowsHaveHandles, MethodsHavePeers
<1>12. Making' /\ Made'
    BY <1>1, <1>2, <1>3, <1>5, <1>8 DEF PairInv, TypeOK, Making, Made
<1>13. ObsMeans' /\ Ended'
    BY <1>1, <1>2, <1>5, <1>8 DEF PairInv, ObsMeans, Ended
<1> QED
    BY <1>9, <1>10, <1>11, <1>12, <1>13 DEF PairInv

LEMMA OwnerDeletesKeeps ==
    ASSUME PairInv, OwnerDeletes
    PROVE  PairInv'
<1>1. /\ stack = <<>> /\ cppOwner /\ mode # "none" /\ outcome = "running" /\ handles \in Nat /\ strong \in Nat
      /\ cppOwner' = FALSE /\ peer' = "dying" /\ obs' = "dropping"
      /\ UNCHANGED <<mode, handles, borrow, holder, relinquished, outcome>>
    BY BoundsAssumption DEF OwnerDeletes, UserCode, PairInv, TypeOK
<1>2. stack # <<MakeCall>> /\ ~Running("drop") /\ \A F : Count(stack, F) = 0
    BY <1>1, CountEmpty, AloneCounts, CallsAreFrames DEF Running
<1>3. mode = "cpp" /\ handles = 0 /\ peer = "live" /\ holder # "owned" /\ value # "dropping" /\ borrow = 0
    BY <1>1, <1>2 DEF PairInv, TypeOK, Made, StackShape, BorrowCounts
<1>4. strong = IF obs = "owned" THEN 1 ELSE 0
    BY <1>2, <1>3 DEF PairInv, StrongCounts
<1>5. /\ <<DeleteCall>> \in Seq(Frame) /\ <<DeleteCall>> # <<MakeCall>> /\ Head(<<DeleteCall>>).kind = "delete"
      /\ Count(<<DeleteCall>>, Of("make")) = 0 /\ Count(<<DeleteCall>>, Of("drop")) = 0
      /\ Count(<<DeleteCall>>, Of("method")) = 0 /\ Count(<<DeleteCall>>, Of("borrowed")) = 0
      /\ Count(<<DeleteCall>>, Borrowers) = 0 /\ Count(<<DeleteCall>>, Exclusive) = 0
    BY AloneCounts, CountEmpty, CallsAreFrames DEF Adds
<1>6. CASE obs = "owned"
    <2>0. Release(<<DeleteCall>>) /\ strong = 1
        BY <1>4, <1>6 DEF OwnerDeletes, DeleteCall
    <2>1. stack' = <<DropCall>> \o <<DeleteCall>> /\ strong' = 0 /\ value' = "dropping"
        BY <2>0 DEF Release, DropCall
    <2>2. /\ stack' \in Seq(Frame) /\ Running("drop")' /\ Adds(stack', <<DeleteCall>>, DropCall)
          /\ stack' # <<MakeCall>> /\ Tail(stack') = <<DeleteCall>>
        BY <1>5, <2>1, DropOnTop, CallsAreFrames DEF Running
    <2>3. /\ Count(stack', Of("make")) = 0 /\ Count(stack', Of("drop")) = 1
          /\ Count(stack', Of("method")) = 0 /\ Count(stack', Of("borrowed")) = 0
          /\ Count(stack', Borrowers) = 0 /\ Count(stack', Exclusive) = 0
        BY <1>5, <2>2, CallsAreFrames DEF Adds
    <2>4. /\ stack' \in Seq(Frame) /\ stack' # <<MakeCall>> /\ value' = "dropping" /\ strong' = 0
          /\ StackShape'
        BY <1>1, <2>1, <2>2, <2>3 DEF StackShape
    <2>5. TypeOK'
        BY <1>1, <2>4 DEF PairInv, TypeOK
    <2>55. StrongCounts'
        BY <1>1, <1>3, <2>3, <2>4 DEF StrongCounts
    <2>56. BorrowCounts'
        BY <1>1, <1>3, <2>3 DEF BorrowCounts
    <2>57. AliveWhileHeld'
        BY <1>1, <2>4 DEF AliveWhileHeld
    <2>6. NotMade' /\ Making' /\ Made' /\ BorrowsHaveHandles' /\ MethodsHavePeers' /\ ObsMeans' /\ Ended'
        BY <1>1, <1>3, <2>3, <2>4
           DEF PairInv, NotMade, Making, Made, BorrowsHaveHandles, MethodsHavePeers, ObsMeans, Ended
    <2> QED
        BY <2>4, <2>5, <2>55, <2>56, <2>57, <2>6 DEF PairInv
<1>7. CASE obs # "owned"
    <2>1. stack' = <<DeleteCall>> /\ UNCHANGED <<strong, value>>
        BY <1>7 DEF OwnerDeletes, DeleteCall
    <2>2. ~(Running("drop")') /\ stack' # <<MakeCall>> /\ stack' \in Seq(Frame)
        BY <1>5, <2>1 DEF Running
    <2>3. /\ Count(stack', Of("make")) = 0 /\ Count(stack', Of("drop")) = 0
          /\ Count(stack', Of("method")) = 0 /\ Count(stack', Of("borrowed")) = 0
          /\ Count(stack', Borrowers) = 0 /\ Count(stack', Exclusive) = 0
        BY <1>5, <2>1
    <2>4. TypeOK' /\ StackShape'
        BY <1>1, <1>3, <2>1, <2>2, <2>3 DEF PairInv, TypeOK, StackShape
    <2>5. StrongCounts' /\ BorrowCounts' /\ AliveWhileHeld'
        BY <1>1, <1>3, <1>4, <1>7, <2>1, <2>3 DEF PairInv, StrongCounts, BorrowCounts, AliveWhileHeld
    <2>6. NotMade' /\ Making' /\ Made' /\ BorrowsHaveHandles' /\ MethodsHavePeers' /\ ObsMeans' /\ Ended'
        BY <1>1, <1>3, <2>1, <2>2, <2>3
           DEF PairInv, NotMade, Making, Made, BorrowsHaveHandles, MethodsHavePeers, ObsMeans, Ended
    <2> QED
        BY <2>4, <2>5, <2>6 DEF PairInv
<1> QED
    BY <1>6, <1>7

LEMMA DeleteEndsKeeps ==
    ASSUME PairInv, DeleteEnds
    PROVE  PairInv'
<1>1. /\ outcome = "running" /\ stack # <<>> /\ stack = <<DeleteCall>> /\ peer = "dying"
      /\ stack' = <<>> /\ peer' = "gone" /\ obs' = "gone"
      /\ UNCHANGED <<mode, value, strong, handles, borrow, holder, cppOwner, relinquished, outcome>>
    BY DeleteIsAlone DEF DeleteEnds, Running
<1>2. /\ stack # <<MakeCall>> /\ ~Running("drop") /\ stack' # <<MakeCall>>
      /\ Count(stack, Of("method")) = 0 /\ Count(stack, Of("borrowed")) = 0
      /\ Count(stack, Borrowers) = 0 /\ Count(stack, Exclusive) = 0
    BY <1>1, CountEmpty, AloneCounts, CallsAreFrames DEF Adds, Running
<1>3. stack' \in Seq(Frame) /\ \A F : Count(stack', F) = 0
    BY <1>1, CountEmpty
<1>4. mode # "none" /\ mode = "cpp" /\ handles = 0 /\ holder # "owned" /\ ~cppOwner /\ value # "dropping"
    BY <1>1, <1>2 DEF PairInv, NotMade, Made, StackShape
<1>5. obs # "owned"
    BY <1>1, <1>2, <1>4 DEF PairInv, ObsMeans
<1>6. TypeOK' /\ StackShape' /\ StrongCounts' /\ BorrowCounts' /\ AliveWhileHeld'
    BY <1>1, <1>2, <1>3, <1>4, <1>5
       DEF PairInv, TypeOK, StackShape, StrongCounts, BorrowCounts, AliveWhileHeld
<1>7. NotMade' /\ Making' /\ Made' /\ BorrowsHaveHandles' /\ MethodsHavePeers' /\ ObsMeans' /\ Ended'
    BY <1>1, <1>2, <1>3, <1>4
       DEF PairInv, NotMade, Making, Made, BorrowsHaveHandles, MethodsHavePeers, ObsMeans, Ended
<1> QED
    BY <1>6, <1>7 DEF PairInv

LEMMA PairInit == Init => PairInv
<1> SUFFICES ASSUME Init PROVE PairInv
    OBVIOUS
<1>1. /\ stack = <<>> /\ stack \in Seq(Frame) /\ stack # <<MakeCall>> /\ ~Running("drop")
      /\ \A F : Count(stack, F) = 0
    BY CountEmpty, AloneCounts, CallsAreFrames DEF Init, Running
<1>2. /\ mode = "none" /\ value = "none" /\ strong = 0 /\ handles = 0 /\ borrow = 0 /\ holder = "empty"
      /\ peer = "none" /\ obs = "none" /\ cppOwner = FALSE /\ relinquished = FALSE /\ outcome = "running"
    BY DEF Init
<1>3. 0 \in 0..MaxHandles
    BY BoundsAssumption
<1>4. TypeOK
    <2>1. stack \in Seq(Frame)
        BY <1>1
    <2>2. strong \in Nat /\ handles \in 0..MaxHandles /\ borrow \in Int /\ borrow >= -1
        BY <1>2, <1>3
    <2>3. cppOwner \in BOOLEAN /\ relinquished \in BOOLEAN
        BY <1>2
    <2>4. /\ mode \in Modes \cup {"none"}
          /\ value \in {"none", "live", "dropping", "dropped"}
          /\ holder \in {"empty", "owned", "unowned"}
          /\ peer \in {"none", "live", "dying", "gone"}
          /\ obs \in {"none", "owned", "unowned", "moved", "dropping", "gone"}
          /\ outcome \in {"running", "misread", "destroyed", "reentrant", "unset"}
        BY <1>2
    <2> QED
        BY <2>1, <2>2, <2>3, <2>4 DEF TypeOK
<1> QED
    BY <1>1, <1>4
       DEF Init, PairInv, NotMade, StackShape, StrongCounts, BorrowCounts, AliveWhileHeld,
           Making, Made, BorrowsHaveHandles, MethodsHavePeers, ObsMeans, Ended

LEMMA PairStep == QuietUnderDelete /\ PairInv /\ [Next]_vars => PairInv'
<1> SUFFICES ASSUME QuietUnderDelete, PairInv, [Next]_vars PROVE PairInv'
    OBVIOUS
<1>1. CASE UNCHANGED vars
    BY <1>1
       DEF vars, Running, PairInv, TypeOK, NotMade, StackShape, StrongCounts, BorrowCounts, AliveWhileHeld,
           Making, Made, BorrowsHaveHandles, MethodsHavePeers, ObsMeans, Ended
<1>2. ASSUME NEW m \in Modes, Make(m) PROVE PairInv'
    BY <1>2, MakeKeeps
<1>3. CASE ConstructPeer \/ ConstructorThrows \/ MakeFails \/ MadeOwning \/ MadeCppOwned
    BY <1>3, ConstructKeeps, ThrowKeeps, MakeFailsKeeps, MadeOwningKeeps, MadeCppOwnedKeeps
<1>4. ASSUME NEW excl \in BOOLEAN, CppCalls(excl) \/ OwnCalls(excl) \/ BorrowHandle(excl) PROVE PairInv'
    BY <1>4, CppCallsKeeps, OwnCallsKeeps, BorrowHandleKeeps
<1>5. CASE MethodReturns \/ CloneHandle \/ DropHandle \/ BorrowEnds
    BY <1>5, MethodReturnsKeeps, CloneHandleKeeps, DropHandleKeeps, BorrowEndsKeeps
<1>6. CASE Relinquish \/ DropEnds \/ OwnerDeletes \/ DeleteEnds
    BY <1>6, RelinquishKeeps, DropEndsKeeps, OwnerDeletesKeeps, DeleteEndsKeeps
<1> QED
    BY <1>1, <1>2, <1>3, <1>4, <1>5, <1>6 DEF Next

LEMMA PairInvariant == ASSUME QuietUnderDelete PROVE Spec => []PairInv
<1>1. PairInv /\ [Next]_vars => PairInv'
    BY PairStep
<1> QED
    BY PairInit, <1>1, PTL DEF Spec

-----------------------------------------------------------------------------
(* The theorems *)

(* A virtual call always finds a whole holder in `obs`, unless a Drop under    *)
(* the destructor of a peer C++ owns calls it (really_remove_ownership).       *)
THEOREM HoldersAreWhole ==
    ASSUME QuietUnderDelete PROVE Spec => []ObsIsWhole
BY PairInvariant, PairIsWhole, PTL

(* The value lives exactly as long as a handle, an owner or a virtual call in  *)
(* progress is entitled to it, whatever user code does in between.             *)
THEOREM LivesExactlyWhileOwned ==
    ASSUME QuietUnderDelete PROVE Spec => []LivesWhileOwned
BY PairInvariant, PairLives, PTL

(* The value's Drop never starts under a borrow (RefCell, Rc and the way into  *)
(* the subclass's methods taken together).                                     *)
THEOREM DropsAreUnborrowed ==
    ASSUME QuietUnderDelete PROVE Spec => []NeverDroppedUnderABorrow
BY PairInvariant, PairIsUnborrowed, PTL

(* A pair nobody owns is freed on both sides (delete_self, and the constructor *)
(* which throws).                                                              *)
THEOREM PairsAreFreed ==
    ASSUME QuietUnderDelete PROVE Spec => []NothingLeaks
BY PairInvariant, PairIsFreed, PTL
=============================================================================

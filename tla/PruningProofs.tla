---------------------------- MODULE PruningProofs ----------------------------
(* What the pruning of a list of APIs guarantees for every list, whatever its  *)
(* length and the shape of its dependency graph.                               *)
EXTENDS Pruning, TLAPS

LEMMA ListParts ==
    ASSUME NEW list \in List
    PROVE  /\ list.deps \in [Api -> SUBSET Name]
           /\ list.bad \subseteq Api
           /\ list.declares \in [Api -> SUBSET Extra]
           /\ list.answers \in [Api -> SUBSET Directive]
           /\ list.stub \in [Api -> SUBSET Directive]
BY DEF List

-----------------------------------------------------------------------------
(* Type correctness *)

Typed == TypeOK /\ apis \in Lists

LEMMA TypedInit == Init => Typed
<1> SUFFICES ASSUME Init PROVE Typed
    OBVIOUS
<1>1. apis \in List
    BY ListsAssumption DEF Init
<1>2. at \in 1..N + 1
    BY NAssumption DEF Init
<1>3. reason \in [Api -> Name \cup {Kept}]
    BY DEF Init, Name
<1> QED
    BY <1>1, <1>2, <1>3 DEF Init, Typed, TypeOK

LEMMA TypedStep == Typed /\ [Next]_vars => Typed'
<1> SUFFICES ASSUME Typed, [Next]_vars PROVE Typed'
    OBVIOUS
<1> USE NAssumption, ListParts DEF Typed, TypeOK
<1>0. Api \subseteq Name /\ Gone \subseteq Api
    BY DEF Name, Gone
<1>1. CASE DropDependent
    <2>1. PICK culprit \in Culprits(at) : Ignore(Inherited(culprit))
        BY <1>1 DEF DropDependent
    <2>2. culprit \in Api
        BY <2>1, <1>0 DEF Culprits
    <2>3. reason[culprit] \in Name \cup {Kept}
        BY <2>2
    <2>4. reason' \in [Api -> Name \cup {Kept}]
        BY <2>1, <2>3 DEF Ignore, Inherited
    <2>5. at' \in 1..N + 1
        BY <1>1, <2>1 DEF DropDependent, Ignore, NextItem, Api
    <2> QED BY <1>1, <2>4, <2>5 DEF DropDependent, collecting
<1>2. CASE DropUnknown
    <2>1. PICK missing \in Unknown(apis, Deps(at)) : Ignore(missing)
        BY <1>2 DEF DropUnknown
    <2>2. Deps(at) \subseteq Name
        BY <1>2 DEF DropUnknown, Deps
    <2>3. missing \in Name
        BY <2>1, <2>2 DEF Unknown
    <2>4. reason' \in [Api -> Name \cup {Kept}]
        BY <2>1, <2>3 DEF Ignore
    <2>5. at' \in 1..N + 1
        BY <1>2, <2>1 DEF DropUnknown, Ignore, NextItem, Api
    <2> QED BY <1>2, <2>4, <2>5 DEF DropUnknown, AgainAfterUnknown, collecting
<1>3. CASE Keep
    BY <1>3 DEF Keep, collecting, Api
<1>4. CASE NextPass
    <2>1. at' = 1 /\ again' = FALSE
        BY <1>4 DEF NextPass
    <2>3. 1 \in 1..N + 1
        OBVIOUS
    <2>2. UNCHANGED <<apis, pc, reason, todos, done, output, refused>>
        BY <1>4 DEF NextPass, collecting
    <2> QED BY <2>1, <2>2, <2>3
<1>5. CASE StartCollecting
    <2>1. Roots \subseteq Name
        BY <1>0 DEF Roots
    <2> QED BY <1>5, <2>1 DEF StartCollecting, filtering
<1>6. CASE SkipDone
    BY <1>6 DEF SkipDone, filtering
<1>7. CASE Collect
    <2>1. PICK name \in todos \ done :
            /\ output' = output \cup Found(name)
            /\ done' = done \cup {name}
            /\ todos' = (todos \ {name}) \cup Follow(Found(name))
        BY <1>7 DEF Collect
    <2>2. Found(name) \subseteq Api
        BY DEF Found
    <2>3. Follow(Found(name)) \subseteq Name
        BY <2>2 DEF Follow, Deps
    <2> QED BY <1>7, <2>1, <2>2, <2>3 DEF Collect, filtering
<1>8. CASE EndCollecting
    BY <1>8 DEF EndCollecting, filtering, collecting
<1>9. CASE Confirm
    <2>1. CASE Unobeyed = {}
        BY <1>9, <2>1 DEF Confirm, filtering, collecting
    <2>2. CASE Unobeyed # {}
        <3>1. PICK d \in Unobeyed : \E refusal \in Refusal(d) : refused' = {refusal}
            BY <1>9, <2>2 DEF Confirm
        <3>2. PICK refusal \in Refusal(d) : refused' = {refusal}
            BY <3>1
        <3>3. d \in Must
            BY <3>1 DEF Unobeyed
        <3>4. refusal \in Refusals
            <4>1. \A i \in Discarded(d) : reason[i] \in Name
                BY DEF Discarded, Gone
            <4> QED BY <3>2, <3>3, <4>1 DEF Refusal, Refusals
        <3> QED BY <1>9, <3>2, <3>4 DEF Confirm, filtering, collecting
    <2> QED BY <2>1, <2>2
<1>10. CASE UNCHANGED vars
    BY <1>10 DEF vars
<1> QED
    BY <1>1, <1>2, <1>3, <1>4, <1>5, <1>6, <1>7, <1>8, <1>9, <1>10 DEF Next

LEMMA AlwaysTyped == Spec => []Typed
BY TypedInit, TypedStep, PTL DEF Spec

(* No step of the filter, of collection or of the check leaves a variable with *)
(* a value it should not have: every index is one of the list's, and the error *)
(* names a directive which must be obeyed and a reason, never the absence of   *)
(* one (remove_ignored.rs, gc.rs, conversion/mod.rs).                          *)
THEOREM TypeCorrect == Spec => []TypeOK
BY AlwaysTyped, PTL DEF Typed

-----------------------------------------------------------------------------
(* What each step leaves alone *)

FilterStep == DropDependent \/ DropUnknown \/ Keep \/ NextPass
LaterStep == StartCollecting \/ SkipDone \/ Collect \/ EndCollecting \/ Confirm

LEMMA Kinds ==
    ASSUME [Next]_vars
    PROVE  FilterStep \/ LaterStep \/ UNCHANGED vars
BY DEF Next, FilterStep, LaterStep

LEMMA ListFixed ==
    ASSUME [Next]_vars
    PROVE  apis' = apis
BY DEF Next, vars, DropDependent, DropUnknown, Keep, NextPass, StartCollecting,
       SkipDone, Collect, EndCollecting, Confirm

LEMMA LaterFixed ==
    ASSUME LaterStep \/ UNCHANGED vars
    PROVE  apis' = apis /\ reason' = reason /\ at' = at /\ again' = again /\ Gone' = Gone
<1>1. apis' = apis /\ reason' = reason /\ at' = at /\ again' = again
    BY DEF LaterStep, vars, filtering, StartCollecting, SkipDone, Collect, EndCollecting, Confirm
<1> QED
    BY <1>1 DEF Gone

(* A step of the filter adds at most one API to those which are gone. *)
LEMMA Dropped ==
    ASSUME Typed, Typed', FilterStep
    PROVE  \/ /\ at \in Api \ Gone
              /\ Gone' = Gone \cup {at} /\ again' = TRUE /\ at' = at + 1
              /\ \/ \E c \in apis.deps[at] \cap Gone :
                     reason' = [reason EXCEPT ![at] = reason[c]]
                 \/ /\ apis.deps[at] \cap Gone = {}
                    /\ \E missing \in Unknown(apis, apis.deps[at]) :
                         reason' = [reason EXCEPT ![at] = missing]
           \/ /\ Keep
              /\ reason' = reason /\ Gone' = Gone
           \/ /\ NextPass
              /\ reason' = reason /\ Gone' = Gone
<1> USE DEF Typed, TypeOK
<1>1. CASE DropDependent
    <2>1. PICK c \in Culprits(at) : Ignore(Inherited(c))
        BY <1>1 DEF DropDependent
    <2>2. at \in Api \ Gone /\ c \in apis.deps[at] \cap Gone
        BY <1>1, <2>1 DEF DropDependent, Culprits, Deps
    <2>3. reason' = [reason EXCEPT ![at] = reason[c]] /\ at' = at + 1
        BY <2>1 DEF Ignore, Inherited, NextItem
    <2>4. reason[c] # Kept
        BY <2>2 DEF Gone
    <2>5. Gone' = Gone \cup {at}
        BY <2>2, <2>3, <2>4 DEF Gone
    <2> QED BY <1>1, <2>2, <2>3, <2>5 DEF DropDependent
<1>2. CASE DropUnknown
    <2>1. PICK missing \in Unknown(apis, Deps(at)) : Ignore(missing)
        BY <1>2 DEF DropUnknown
    <2>2. at \in Api \ Gone /\ Deps(at) = apis.deps[at]
        BY <1>2, <2>1 DEF DropUnknown, Unknown, Deps
    <2>3. apis.deps[at] \cap Gone = {}
        BY <1>2, <2>2 DEF DropUnknown, Culprits
    <2>4. reason' = [reason EXCEPT ![at] = missing] /\ at' = at + 1
        BY <2>1 DEF Ignore, NextItem
    <2>5. missing \in Name
        BY <2>1, <2>2, ListParts DEF Unknown
    <2>6. Gone' = Gone \cup {at}
        BY <2>2, <2>4, <2>5, NamesAssumption DEF Gone
    <2> QED BY <1>2, <2>1, <2>2, <2>3, <2>4, <2>6 DEF DropUnknown, AgainAfterUnknown
<1>3. CASE Keep
    BY <1>3 DEF Keep, Gone
<1>4. CASE NextPass
    BY <1>4 DEF NextPass, Gone
<1> QED
    BY <1>1, <1>2, <1>3, <1>4 DEF FilterStep

-----------------------------------------------------------------------------
(* The filter *)

Clean(i) ==
    i \in Gone \/ (apis.deps[i] \cap Gone = {} /\ Unknown(apis, apis.deps[i]) = {})

(* A pass which has dropped nothing so far has left nothing unclean behind it. *)
FilterInv ==
    /\ Typed
    /\ apis.bad \subseteq Gone
    /\ pc = "filter" /\ ~again => \A i \in Api : i < at => Clean(i)
    /\ pc # "filter" => \A i \in Api : Clean(i)

LEMMA FilterInit == Init => FilterInv
<1> SUFFICES ASSUME Init PROVE FilterInv
    OBVIOUS
<1>1. Typed
    BY TypedInit
<1>2. apis.bad \subseteq Gone
    <2>1. apis.bad \subseteq Api
        BY <1>1, ListParts DEF Typed, TypeOK
    <2> QED BY <2>1, NamesAssumption DEF Init, Gone, Name
<1>3. \A i \in Api : ~(i < at)
    BY NAssumption DEF Init, Api
<1> QED
    BY <1>1, <1>2, <1>3 DEF FilterInv, Init

LEMMA FilterStepInv == FilterInv /\ [Next]_vars => FilterInv'
<1> SUFFICES ASSUME FilterInv, [Next]_vars PROVE FilterInv'
    OBVIOUS
<1>1. Typed /\ Typed' /\ apis' = apis
    BY TypedStep, ListFixed DEF FilterInv
<1>2. CASE FilterStep
    <2>1. pc = "filter" /\ pc' = "filter"
        BY <1>2 DEF FilterStep, DropDependent, DropUnknown, Keep, NextPass
    <2>2. apis.bad \subseteq Gone'
        BY <1>1, <1>2, Dropped DEF FilterInv
    <2>3. ASSUME ~again' PROVE \A i \in Api : i < at' => Clean(i)'
        <3>1. CASE NextPass
            <4>1. \A i \in Api : ~(i < at')
                BY <3>1, NAssumption DEF NextPass, Api
            <4> QED BY <4>1
        <3>2. CASE Keep /\ Gone' = Gone
            <4>1. ~again /\ at' = at + 1 /\ at \in Api
                BY <2>3, <3>2 DEF Keep
            <4>2. \A i \in Api : i < at => Clean(i)
                BY <2>1, <4>1 DEF FilterInv
            <4>3. Clean(at)
                BY <3>2, <4>1 DEF Keep, Culprits, Deps, Clean
            <4>4. ASSUME NEW i \in Api, i < at' PROVE Clean(i)
                BY <4>1, <4>2, <4>3, <4>4, NAssumption DEF Api
            <4> QED BY <1>1, <3>2, <4>4 DEF Clean, Unknown, ValidTypes
        <3> QED BY <1>1, <1>2, <2>3, <3>1, <3>2, Dropped
    <2> QED BY <1>1, <2>1, <2>2, <2>3 DEF FilterInv
<1>3. CASE LaterStep \/ UNCHANGED vars
    <2>1. Gone' = Gone /\ at' = at /\ again' = again
        BY <1>3, LaterFixed
    <2>2. \A i \in Api : Clean(i) => Clean(i)'
        BY <1>1, <2>1 DEF Clean, Unknown, ValidTypes
    <2>3. CASE StartCollecting
        <3>1. pc = "filter" /\ ~again /\ at = N + 1 /\ pc' = "collect"
            BY <2>3 DEF StartCollecting
        <3>2. \A i \in Api : i < at
            BY <3>1, NAssumption DEF Api
        <3> QED BY <1>1, <2>1, <2>2, <3>1, <3>2 DEF FilterInv
    <2>4. CASE ~StartCollecting
        <3>1. (pc = "filter") <=> (pc' = "filter")
            BY <1>3, <2>4 DEF LaterStep, vars, SkipDone, Collect, EndCollecting, Confirm
        <3> QED BY <1>1, <2>1, <2>2, <3>1 DEF FilterInv
    <2> QED BY <2>3, <2>4
<1> QED
    BY <1>2, <1>3, Kinds

LEMMA AlwaysFiltered == Spec => []FilterInv
BY FilterInit, FilterStepInv, PTL DEF Spec

LEMMA OnlyWhatMustGoInit == Init => OnlyWhatMustGo
<1> SUFFICES ASSUME Init, NEW S \in SUBSET Api, Doomed(apis, S) PROVE Gone \subseteq S
    BY DEF OnlyWhatMustGo
<1> QED
    BY DEF Init, Gone, Doomed

LEMMA OnlyWhatMustGoStep ==
    FilterInv /\ OnlyWhatMustGo /\ [Next]_vars => OnlyWhatMustGo'
<1> SUFFICES ASSUME FilterInv, OnlyWhatMustGo, [Next]_vars PROVE OnlyWhatMustGo'
    OBVIOUS
<1>1. Typed /\ Typed' /\ apis' = apis
    BY TypedStep, ListFixed DEF FilterInv
<1>2. ASSUME NEW S \in SUBSET Api, Doomed(apis, S) PROVE Gone' \subseteq S
    <2>1. Gone \subseteq S
        BY <1>2 DEF OnlyWhatMustGo
    <2>2. CASE FilterStep
        <3>1. CASE at \in Api /\ Gone' = Gone \cup {at} /\ apis.deps[at] \cap Gone # {}
            BY <1>2, <2>1, <3>1 DEF Doomed
        <3>2. CASE at \in Api /\ Gone' = Gone \cup {at} /\ Unknown(apis, apis.deps[at]) # {}
            BY <1>2, <2>1, <3>2 DEF Doomed
        <3>3. CASE Gone' = Gone
            BY <2>1, <3>3
        <3> QED BY <1>1, <2>2, <3>1, <3>2, <3>3, Dropped
    <2>3. CASE LaterStep \/ UNCHANGED vars
        BY <2>1, <2>3, LaterFixed
    <2> QED BY <2>2, <2>3, Kinds
<1>3. \A S \in SUBSET Api : Doomed(apis, S)' => Doomed(apis, S)
    BY <1>1 DEF Doomed, Unknown, ValidTypes
<1> QED
    BY <1>2, <1>3 DEF OnlyWhatMustGo

(* Whatever the order of the list and however the passes meet it, the filter   *)
(* drops only what every sound filter would have to drop (remove_ignored.rs).  *)
THEOREM OnlyWhatMustGoes == Spec => []OnlyWhatMustGo
BY AlwaysFiltered, OnlyWhatMustGoInit, OnlyWhatMustGoStep, PTL DEF Spec

LEMMA NamesKept ==
    ASSUME FilterInv, OnlyWhatMustGo, PeersSurvive(apis), NEW i \in Api \ Gone, Clean(i),
           NEW name \in apis.deps[i]
    PROVE  \/ name \in Known
           \/ name \in Api \ Gone
           \/ \E j \in Api \ Gone : name \in apis.declares[j]
<1>1. apis \in List
    BY DEF FilterInv, Typed, TypeOK
<1>2. name \in Name /\ name \notin Gone
    BY <1>1, ListParts DEF Clean
<1>3. name \in Known \/ name \in ValidTypes(apis)
    BY DEF Clean, Unknown
<1>4. CASE name \in Api
    BY <1>2, <1>4
<1>5. CASE name \notin Api /\ name \in ValidTypes(apis)
    <2>1. PICK j \in Api \ apis.bad : name \in apis.declares[j]
        BY <1>5 DEF ValidTypes
    <2>2. PICK S \in SUBSET Api : Doomed(apis, S) /\ j \notin S
        BY <2>1 DEF PeersSurvive
    <2>3. j \notin Gone
        BY <2>2 DEF OnlyWhatMustGo
    <2> QED BY <2>1, <2>3
<1> QED
    BY <1>3, <1>4, <1>5

(* As long as no subclass is dropped for the sake of its superclass, what the  *)
(* filter leaves refers to nothing the filter dropped: the repeated passes, of *)
(* which each sees only what was dropped before it came by, are enough         *)
(* (filter_apis_by_ignored_dependents).                                        *)
THEOREM KeptStaysClosed ==
    ASSUME \A list \in Lists : PeersSurvive(list)
    PROVE  Spec => []KeptIsClosed
<1>1. ASSUME FilterInv, OnlyWhatMustGo PROVE KeptIsClosed
    <2> SUFFICES ASSUME pc # "filter", NEW i \in Api \ Gone, NEW name \in apis.deps[i]
                 PROVE  Usable(name, Api)
        BY DEF KeptIsClosed
    <2>1. Clean(i) /\ PeersSurvive(apis)
        BY <1>1 DEF FilterInv, Typed
    <2> QED BY <1>1, <2>1, NamesKept DEF Usable
<1> QED
    BY <1>1, AlwaysFiltered, OnlyWhatMustGoes, PTL

-----------------------------------------------------------------------------
(* The filter as a withdrawal *)

LEMMA DroppedUnsupported ==
    ASSUME FilterInv, NEW i \in Api,
           apis.deps[i] \cap Gone # {} \/ Unknown(apis, apis.deps[i]) # {}
    PROVE  ~Withdrawing!Supported(i)
<1>1. apis \in List /\ apis.bad \subseteq Gone /\ Gone \subseteq Api
    BY DEF FilterInv, Typed, TypeOK, Gone
<1>2. PICK name \in apis.deps[i] :
        \/ name \in Gone
        \/ name \notin ValidTypes(apis) \cup Known
    BY DEF Unknown
<1>3. CASE name \in Gone
    <2>1. name \notin Extra
        BY <1>1, <1>3, NamesAssumption
    <2>2. \A j \in Api : name \notin apis.declares[j]
        BY <1>1, <2>1, ListParts
    <2> QED BY <1>2, <1>3, <2>1, <2>2, KnownAssumption DEF Withdrawing!Supported, Withdrawing!Provided
<1>4. CASE name \notin ValidTypes(apis) \cup Known
    <2>1. name \notin Api \ Gone /\ \A j \in Api \ Gone : name \notin apis.declares[j]
        BY <1>1, <1>4 DEF ValidTypes
    <2> QED BY <1>2, <1>4, <2>1 DEF Withdrawing!Supported, Withdrawing!Provided
<1> QED
    BY <1>2, <1>3, <1>4

LEMMA FilterStepWithdraws ==
    ASSUME FilterInv, FilterInv', FilterStep
    PROVE  [Withdrawing!Next]_(Withdrawing!vars)
<1>1. Typed /\ Typed' /\ pc = "filter" /\ pc' = "filter"
    BY DEF FilterInv, FilterStep, DropDependent, DropUnknown, Keep, NextPass
<1>2. apis' = apis
    BY DEF FilterStep, DropDependent, DropUnknown, Keep, NextPass
<1>3. CASE Gone' = Gone
    BY <1>1, <1>2, <1>3 DEF Withdrawing!vars
<1>4. CASE /\ at \in Api \ Gone /\ Gone' = Gone \cup {at}
           /\ apis.deps[at] \cap Gone # {} \/ Unknown(apis, apis.deps[at]) # {}
    <2>1. ~Withdrawing!Supported(at)
        BY <1>4, DroppedUnsupported
    <2>2. Api \ Gone' = (Api \ Gone) \ {at}
        BY <1>4
    <2>3. Withdrawing!Withdraw(at)
        BY <1>1, <1>2, <1>4, <2>1, <2>2 DEF Withdrawing!Withdraw
    <2> QED BY <1>4, <2>3 DEF Withdrawing!Next
<1> QED
    BY <1>1, <1>3, <1>4, Dropped

LEMMA CollectionSettles ==
    ASSUME FilterInv, OnlyWhatMustGo, PeersSurvive(apis), StartCollecting
    PROVE  Withdrawing!Settle
<1>1. pc = "filter" /\ ~again /\ at = N + 1 /\ pc' = "collect" /\ apis' = apis /\ Gone' = Gone
    BY DEF StartCollecting, filtering, Gone
<1>2. \A i \in Api : Clean(i)
    <2>1. \A i \in Api : i < at
        BY <1>1, NAssumption DEF Api
    <2> QED BY <1>1, <2>1 DEF FilterInv
<1>3. ASSUME NEW i \in Api \ Gone PROVE Withdrawing!Supported(i)
    <2>1. ASSUME NEW name \in apis.deps[i] PROVE name \in Withdrawing!Provided
        <3>1. \/ name \in Known
              \/ name \in Api \ Gone
              \/ \E j \in Api \ Gone : name \in apis.declares[j]
            BY <1>2, NamesKept
        <3> QED BY <3>1 DEF Withdrawing!Provided
    <2> QED BY <2>1 DEF Withdrawing!Supported
<1> QED
    BY <1>1, <1>3 DEF Withdrawing!Settle

(* The loop of passes is an implementation of the withdrawal of unsupported    *)
(* items, as long as no subclass is dropped for the sake of its superclass:    *)
(* what each pass does to the list is what withdrawing one item for cause      *)
(* does, and collection begins on a settled list. That the passes come to an   *)
(* end is what Withdraws says beyond this (remove_ignored.rs).                 *)
THEOREM FilterIsWithdrawal ==
    ASSUME \A list \in Lists : PeersSurvive(list)
    PROVE  Spec => Withdrawing!Safety
<1>1. Init => Withdrawing!Init
    <2> SUFFICES ASSUME Init PROVE Withdrawing!Init
        OBVIOUS
    <2>1. apis \in List
        BY ListsAssumption DEF Init
    <2>2. Gone = apis.bad
        BY <2>1, ListParts, NamesAssumption DEF Init, Gone, Name
    <2> QED BY <2>2 DEF Init, Withdrawing!Init
<1>2. FilterInv /\ FilterInv' /\ OnlyWhatMustGo /\ [Next]_vars => [Withdrawing!Next]_(Withdrawing!vars)
    <2> SUFFICES ASSUME FilterInv, FilterInv', OnlyWhatMustGo, [Next]_vars
                 PROVE  [Withdrawing!Next]_(Withdrawing!vars)
        OBVIOUS
    <2>1. CASE FilterStep
        BY <2>1, FilterStepWithdraws
    <2>2. CASE StartCollecting
        <3>1. PeersSurvive(apis)
            BY DEF FilterInv, Typed
        <3> QED BY <2>2, <3>1, CollectionSettles DEF Withdrawing!Next
    <2>3. CASE (LaterStep /\ ~StartCollecting) \/ UNCHANGED vars
        <3>1. Gone' = Gone /\ apis' = apis
            BY <2>3, LaterFixed
        <3>2. (pc = "filter") <=> (pc' = "filter")
            BY <2>3 DEF LaterStep, vars, SkipDone, Collect, EndCollecting, Confirm
        <3> QED BY <3>1, <3>2 DEF Withdrawing!vars
    <2> QED BY <2>1, <2>2, <2>3, Kinds
<1> QED
    BY <1>1, <1>2, AlwaysFiltered, OnlyWhatMustGoes, PTL DEF Spec, Withdrawing!Safety

-----------------------------------------------------------------------------
(* The reasons given *)

LEMMA ReasonsInit == Init => ReasonsAreRootCauses
<1> SUFFICES ASSUME Init, NEW i \in Gone PROVE reason[i] = i /\ i \in apis.bad
    BY DEF ReasonsAreRootCauses
<1> QED
    BY DEF Init, Gone

LEMMA ReasonsStep ==
    FilterInv /\ ReasonsAreRootCauses /\ [Next]_vars => ReasonsAreRootCauses'
<1> SUFFICES ASSUME FilterInv, ReasonsAreRootCauses, [Next]_vars
             PROVE  ReasonsAreRootCauses'
    OBVIOUS
<1> DEFINE Causes == apis.bad \cup Unknown(apis, Extra)
           Reaches(i, why) == \A S \in SUBSET Api :
                i \in S /\ Follows(S) => why \in S \cup UNION {apis.deps[j] : j \in S}
<1>1. Typed /\ Typed' /\ apis' = apis
    BY TypedStep, ListFixed DEF FilterInv
<1>2. \A i \in Gone : reason[i] \in Causes /\ Reaches(i, reason[i])
    BY DEF ReasonsAreRootCauses
<1>3. ASSUME NEW i \in Gone' PROVE reason'[i] \in Causes /\ Reaches(i, reason'[i])
    <2>1. CASE i \in Gone /\ reason'[i] = reason[i]
        BY <1>2, <2>1
    <2>2. CASE FilterStep /\ ~(i \in Gone /\ reason'[i] = reason[i])
        <3>1. at = i /\ i \in Api \ Gone
            <4>1. ~(reason' = reason /\ Gone' = Gone)
                BY <1>3, <2>2
            <4>2. at \in Api \ Gone /\ Gone' = Gone \cup {at}
                BY <1>1, <2>2, <4>1, Dropped
            <4>3. \E why : reason' = [reason EXCEPT ![at] = why]
                BY <1>1, <2>2, <4>1, Dropped
            <4>4. i \in Gone => i \in Api /\ i # at
                BY <4>2 DEF Gone
            <4>5. i \in Gone => reason'[i] = reason[i]
                BY <1>1, <4>3, <4>4 DEF Typed, TypeOK
            <4> QED BY <1>3, <2>2, <4>2, <4>5
        <3>2. CASE \E c \in apis.deps[i] \cap Gone : reason' = [reason EXCEPT ![i] = reason[c]]
            <4>1. PICK c \in apis.deps[i] \cap Gone : reason'[i] = reason[c]
                BY <1>1, <3>1, <3>2 DEF Typed, TypeOK
            <4>2. \A S \in SUBSET Api : i \in S /\ Follows(S) => c \in S
                BY <4>1 DEF Follows, Gone
            <4> QED BY <1>2, <4>1, <4>2
        <3>3. CASE /\ apis.deps[i] \cap Gone = {}
                   /\ \E missing \in Unknown(apis, apis.deps[i]) :
                        reason' = [reason EXCEPT ![i] = missing]
            <4>1. PICK missing \in Unknown(apis, apis.deps[i]) : reason'[i] = missing
                BY <1>1, <3>1, <3>3 DEF Typed, TypeOK
            <4>2. missing \in apis.deps[i] /\ missing \in Name
                BY <1>1, <3>1, <4>1, ListParts DEF Unknown, Typed, TypeOK
            <4>3. missing \notin Api
                BY <3>3, <4>1, <4>2 DEF Unknown, ValidTypes, FilterInv
            <4>4. missing \in Unknown(apis, Extra)
                BY <4>1, <4>2, <4>3 DEF Unknown, Name
            <4> QED BY <4>1, <4>2, <4>4
        <3> QED BY <1>1, <2>2, <3>1, <3>2, <3>3, Dropped DEF Typed, TypeOK
    <2>3. CASE LaterStep \/ UNCHANGED vars
        BY <1>3, <2>1, <2>3, LaterFixed
    <2> QED BY <2>1, <2>2, <2>3, Kinds
<1> QED
    BY <1>1, <1>3 DEF ReasonsAreRootCauses, Unknown, ValidTypes, Follows

(* The error of a dropped API names an item which was wrong to begin with and  *)
(* which the API reaches, however long the chain between the two and whatever  *)
(* cycles it runs through (create_ignore_item).                                *)
THEOREM ReasonsAreTrue == Spec => []ReasonsAreRootCauses
BY AlwaysFiltered, ReasonsInit, ReasonsStep, PTL DEF Spec
-----------------------------------------------------------------------------
-----------------------------------------------------------------------------
(* Collection *)

ClosedSet(S) == \A i \in S : Deps(i) \cap Api \subseteq S

(* Half way through, what was collected and what is still to be collected      *)
(* together hold the roots and everything collected APIs depend on, and        *)
(* neither strays out of what the roots reach.                                 *)
CollectInv ==
    /\ Typed
    /\ pc = "filter" => todos = {} /\ done = {} /\ output = {}
    /\ pc \in {"confirm", "done"} => todos = {}
    /\ pc # "done" => refused = {}
    /\ done \cap Api = output
    /\ \A i \in output : Deps(i) \subseteq todos \cup done
    /\ pc # "filter" => Roots \subseteq todos \cup done
    /\ pc # "filter" =>
        \A S \in SUBSET Api : Roots \subseteq S /\ ClosedSet(S) =>
            output \cup (todos \cap Api) \subseteq S

LEMMA CollectInit == Init => CollectInv
<1> SUFFICES ASSUME Init PROVE CollectInv
    OBVIOUS
<1> QED
    BY TypedInit DEF Init, CollectInv

LEMMA CollectStepInv == CollectInv /\ [Next]_vars => CollectInv'
<1> SUFFICES ASSUME CollectInv, [Next]_vars PROVE CollectInv'
    OBVIOUS
<1>1. Typed /\ Typed'
    BY TypedStep DEF CollectInv
<1>2. CASE FilterStep
    <2>1. /\ pc = "filter" /\ pc' = "filter"
          /\ todos' = todos /\ done' = done /\ output' = output /\ refused' = refused
        BY <1>2 DEF FilterStep, DropDependent, DropUnknown, Keep, NextPass, collecting
    <2> QED BY <1>1, <2>1 DEF CollectInv
<1>3. CASE LaterStep \/ UNCHANGED vars
    <2>1. apis' = apis /\ reason' = reason /\ Gone' = Gone
        BY <1>3, LaterFixed
    <2>2. Roots' = Roots /\ \A S : ClosedSet(S)' <=> ClosedSet(S)
        BY <2>1 DEF Roots, Answers, ClosedSet, Deps
    <2>3. \A i : Deps(i)' = Deps(i)
        BY <2>1 DEF Deps
    <2>4. Roots \subseteq Api
        BY DEF Roots
    <2>5. CASE StartCollecting
        <3>1. /\ pc = "filter" /\ pc' = "collect" /\ todos' = Roots
              /\ done' = done /\ output' = output /\ refused' = refused
            BY <2>5 DEF StartCollecting
        <3>2. done = {} /\ output = {} /\ refused = {}
            BY <3>1 DEF CollectInv
        <3> QED BY <1>1, <2>2, <2>4, <3>1, <3>2 DEF CollectInv
    <2>6. CASE SkipDone
        <3>1. PICK name \in todos \cap done : todos' = todos \ {name}
            BY <2>6 DEF SkipDone
        <3>2. /\ pc = "collect" /\ pc' = pc /\ done' = done /\ output' = output
              /\ refused' = refused
            BY <2>6 DEF SkipDone
        <3>3. todos' \cup done' = todos \cup done /\ todos' \subseteq todos
            BY <3>1, <3>2
        <3> QED BY <1>1, <2>2, <2>3, <3>2, <3>3 DEF CollectInv
    <2>7. CASE Collect
        <3>1. PICK name \in todos \ done :
                /\ output' = output \cup Found(name)
                /\ done' = done \cup {name}
                /\ todos' = (todos \ {name}) \cup Follow(Found(name))
            BY <2>7 DEF Collect
        <3>2. pc = "collect" /\ pc' = pc /\ refused' = refused
            BY <2>7 DEF Collect
        <3>3. Found(name) = {name} \cap Api
            BY DEF Found
        <3>4. done' \cap Api = output'
            BY <3>1, <3>3 DEF CollectInv
        <3>5. todos \cup done \subseteq todos' \cup done'
            BY <3>1
        <3>6. \A i \in output' : Deps(i) \subseteq todos' \cup done'
            <4> SUFFICES ASSUME NEW i \in output' PROVE Deps(i) \subseteq todos' \cup done'
                OBVIOUS
            <4>1. CASE i \in output
                BY <3>5, <4>1 DEF CollectInv
            <4>2. CASE i \in Found(name)
                BY <3>1, <4>2 DEF Follow
            <4> QED BY <3>1, <4>1, <4>2
        <3>7. ASSUME NEW S \in SUBSET Api, Roots \subseteq S, ClosedSet(S)
              PROVE  output' \cup (todos' \cap Api) \subseteq S
            <4>1. output \cup (todos \cap Api) \subseteq S
                BY <3>2, <3>7 DEF CollectInv
            <4>2. Found(name) \subseteq S
                BY <3>3, <4>1
            <4>3. Follow(Found(name)) \cap Api \subseteq S
                BY <3>7, <4>2 DEF Follow, ClosedSet
            <4> QED BY <3>1, <4>1, <4>2, <4>3
        <3>8. Roots \subseteq todos' \cup done'
            BY <3>2, <3>5 DEF CollectInv
        <3> QED BY <1>1, <2>2, <2>3, <3>2, <3>4, <3>6, <3>7, <3>8 DEF CollectInv
    <2>8. CASE EndCollecting \/ Confirm \/ UNCHANGED vars
        <3>1. todos' = todos /\ done' = done /\ output' = output
            BY <2>8 DEF EndCollecting, Confirm, vars, collecting
        <3>2. /\ pc' = "filter" => pc = "filter"
              /\ pc' \in {"confirm", "done"} => todos = {}
              /\ pc' # "done" => refused' = {}
              /\ pc' # "filter" => pc # "filter"
            BY <2>8 DEF EndCollecting, Confirm, vars, CollectInv
        <3> QED BY <1>1, <2>2, <2>3, <3>1, <3>2 DEF CollectInv
    <2> QED BY <1>3, <2>5, <2>6, <2>7, <2>8 DEF LaterStep
<1> QED
    BY <1>2, <1>3, Kinds

LEMMA AlwaysCollected == Spec => []CollectInv
BY CollectInit, CollectStepInv, PTL DEF Spec

(* Nothing is generated which no directive reaches, in whichever order names   *)
(* are collected (filter_apis_by_following_edges_from_allowlist).              *)
THEOREM OutputIsReached == Spec => []OutputIsReachable
<1>1. CollectInv => OutputIsReachable
    BY DEF CollectInv, OutputIsReachable, ClosedSet
<1> QED
    BY <1>1, AlwaysCollected, PTL

(* What is generated names nothing which is not generated or known, as long as *)
(* no subclass is dropped for the sake of its superclass and each has a        *)
(* directive of its own, as the subclass! which made it is.                    *)
THEOREM OutputAlwaysStandsAlone ==
    ASSUME \A list \in Lists : PeersSurvive(list),
           \A list \in Lists : \A i \in Api : list.declares[i] # {} => list.answers[i] # {}
    PROVE  Spec => []OutputStandsAlone
<1>1. ASSUME FilterInv, OnlyWhatMustGo, CollectInv PROVE OutputStandsAlone
    <2> SUFFICES ASSUME pc \in {"confirm", "done"}, NEW i \in output \ Gone,
                        NEW name \in apis.deps[i]
                 PROVE  Usable(name, output)
        BY DEF OutputStandsAlone
    <2>1. apis \in Lists /\ output \subseteq Api
        BY <1>1 DEF CollectInv, Typed, TypeOK
    <2>2. Clean(i) /\ PeersSurvive(apis)
        BY <1>1, <2>1 DEF FilterInv
    <2>3. name \in done
        BY <1>1 DEF CollectInv, Deps
    <2>4. CASE name \in Known
        BY <2>4 DEF Usable
    <2>5. CASE name \in Api \ Gone
        BY <1>1, <2>3, <2>5 DEF CollectInv, Usable
    <2>6. CASE \E j \in Api \ Gone : name \in apis.declares[j]
        <3>1. PICK j \in Api \ Gone : name \in apis.declares[j]
            BY <2>6
        <3>2. j \in Roots
            BY <2>1, <3>1 DEF Roots, Answers
        <3>3. j \in output
            BY <1>1, <3>2 DEF CollectInv
        <3> QED BY <3>1, <3>3 DEF Usable
    <2> QED BY <1>1, <2>1, <2>2, <2>4, <2>5, <2>6, NamesKept
<1> QED
    BY <1>1, AlwaysFiltered, OnlyWhatMustGoes, AlwaysCollected, PTL

-----------------------------------------------------------------------------
(* The verdict *)

(* Under the same conditions collection keeps what the roots need, and nothing *)
(* else (filter_apis_by_following_edges_from_allowlist).                       *)
THEOREM OutputIsExactlyWhatIsNeeded ==
    ASSUME \A list \in Lists : PeersSurvive(list),
           \A list \in Lists : \A i \in Api : list.declares[i] # {} => list.answers[i] # {}
    PROVE  Spec => []OutputIsExact
<1>1. OutputStandsAlone /\ OutputIsReachable => OutputIsExact
    BY DEF OutputIsExact
<1> QED
    BY <1>1, OutputAlwaysStandsAlone, OutputIsReached, PTL

LEMMA VerdictStep == CollectInv /\ VerdictIsJust /\ [Next]_vars => VerdictIsJust'
<1> SUFFICES ASSUME CollectInv, VerdictIsJust, [Next]_vars PROVE VerdictIsJust'
    OBVIOUS
<1>1. CASE Confirm
    <2> DEFINE Served(d) == \E i \in Api \ Gone : d \in apis.answers[i]
               Stubs(d) == {i \in Gone : d \in apis.stub[i]}
    <2>1. apis' = apis /\ reason' = reason /\ Gone' = Gone
        BY <1>1, LaterFixed DEF LaterStep
    <2>2. Roots \subseteq output /\ output \subseteq Api /\ refused = {}
        BY <1>1 DEF Confirm, CollectInv, Typed, TypeOK, Roots
    <2>3. \A d : d \in Generated <=> Served(d)
        BY <2>2 DEF Generated, Roots, Answers
    <2>4. \A d : Discarded(d) = Stubs(d)
        BY <2>2 DEF Discarded, Roots, Answers, Gone
    <2>5. CASE Unobeyed = {}
        <3>1. refused' = {} /\ \A d \in Must : Served(d)
            BY <1>1, <2>2, <2>3, <2>5 DEF Confirm, Unobeyed
        <3> QED BY <2>1, <3>1 DEF VerdictIsJust
    <2>6. CASE Unobeyed # {}
        <3>1. PICK d \in Unobeyed : \E refusal \in Refusal(d) : refused' = {refusal}
            BY <1>1, <2>6 DEF Confirm
        <3>2. PICK refusal \in Refusal(d) : refused' = {refusal}
            BY <3>1
        <3>3. ~Served(d)
            BY <2>3, <3>1 DEF Unobeyed
        <3>4. /\ refusal.directive = d
              /\ refusal.why \in IF Stubs(d) = {} THEN {Nothing} ELSE {reason[i] : i \in Stubs(d)}
            BY <2>4, <3>2 DEF Refusal
        <3> QED BY <2>1, <3>2, <3>3, <3>4 DEF VerdictIsJust
    <2> QED BY <2>5, <2>6
<1>2. CASE FilterStep \/ StartCollecting \/ SkipDone \/ Collect \/ EndCollecting
    BY <1>2 DEF FilterStep, DropDependent, DropUnknown, Keep, NextPass, StartCollecting,
                SkipDone, Collect, EndCollecting, VerdictIsJust
<1>3. CASE UNCHANGED vars
    <2>1. pc' = pc /\ refused' = refused /\ apis' = apis /\ reason' = reason /\ Gone' = Gone
        BY <1>3, LaterFixed DEF vars
    <2> QED BY <2>1 DEF VerdictIsJust
<1> QED
    BY <1>1, <1>2, <1>3, Kinds DEF LaterStep

(* A generate! directive fails the conversion exactly when nothing usable is   *)
(* left of what it names, and the error says why if it is known                *)
(* (confirm_all_generate_directives_still_obeyed): collection, which runs      *)
(* between the filter and the check, changes neither.                          *)
THEOREM VerdictsAreJust == Spec => []VerdictIsJust
<1>1. Init => VerdictIsJust
    BY DEF Init, VerdictIsJust
<1> QED
    BY <1>1, AlwaysCollected, VerdictStep, PTL DEF Spec
=============================================================================

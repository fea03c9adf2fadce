-------------------------- MODULE ByValueCallProofs --------------------------
(* What a call guarantees however many by-value parameters it has.             *)
EXTENDS ByValueCall, TLAPS

(* A parameter its handler has not seen yet. *)
Untouched(i) ==
    /\ space[i] = "none" /\ ~populated[i]
    /\ object[i] = IF kind[i] = "owner" THEN "live" ELSE "unbuilt"

(* A parameter whose populate returned. *)
Prepared(i) ==
    /\ kind[i] \in Populates
    /\ space[i] = StorageOf(kind[i]) /\ populated[i]
    /\ object[i] = IF kind[i] = "nullOwner" THEN "unbuilt" ELSE "live"

InPlace(i) == object[i] \in {"live", "moved"}

(* A parameter about to be cleaned up: what is destroyed is there, and what is *)
(* there is destroyed.                                                         *)
Pending(i) ==
    /\ Destroys(i) => InPlace(i)
    /\ InPlace(i) => Destroys(i) \/ NeverHandedOver(i) \/ kind[i] = "newAbandons"

Settled(i) == InPlace(i) => kind[i] = "newAbandons"

MayFail == \E i \in Param : kind[i] \notin {"copy", "owner", "new"}

(* Where every parameter stands, by what the wrapper is doing. *)
Reserving == at = 1 /\ \A i \in Param : Untouched(i)
Populating ==
    /\ at \in Param
    /\ \A i \in Param : (i < at => Prepared(i)) /\ (~(i < at) => Untouched(i))
TakingPointers ==
    /\ at \in Param
    /\ \A i \in Param : Prepared(i) /\ (i < at => kind[i] # "nullOwner")
Calling == \A i \in Param : Prepared(i) /\ kind[i] # "nullOwner"
CleaningUp ==
    /\ at \in 0..N
    /\ \A i \in Param : (i <= at => Pending(i)) /\ (~(i <= at) => Settled(i))
Over == \A i \in Param : Settled(i)

ParametersInv ==
    /\ \A i \in Param : object[i] # "garbage"
    /\ pc = "reserve" => Reserving
    /\ pc = "populate" => Populating
    /\ pc = "pointers" => TakingPointers
    /\ pc = "call" => Calling
    /\ pc = "cleanup" => CleaningUp
    /\ pc = "scope" \/ (pc = "done" /\ ending # "abort") => Over

(* When the drop flag of a StackSlot is up, and what may have gone wrong. *)
EndingInv ==
    /\ pc \in {"reserve", "populate", "pointers", "call"} => ending = "running"
    /\ pc \in {"populate", "pointers", "call", "cleanup"} =>
        flag = IF dest = "stack" THEN 1 ELSE 0
    /\ pc \in {"cleanup", "scope"} => ending \in {"returned", "error", "panic"}
    /\ pc = "scope" => dest = "stack" /\ (ending = "error" => flag = 0)
    /\ ending = "panic" => MayFail
    /\ pc = "done" /\ ending = "abort" => ~throws \/ (dest = "stack" /\ MayFail)

CallInv == TypeOK /\ ParametersInv /\ EndingInv

-----------------------------------------------------------------------------
LEMMA InvInit == Init => CallInv
<1> SUFFICES ASSUME Init PROVE CallInv
    OBVIOUS
<1>1. TypeOK
    BY NAssumption DEF Init, TypeOK, Param
<1>2. Reserving /\ pc = "reserve" /\ \A i \in Param : object[i] # "garbage"
    BY DEF Init, Reserving, Untouched
<1>3. ParametersInv
    BY <1>2 DEF ParametersInv
<1>4. EndingInv
    BY DEF Init, EndingInv
<1> QED
    BY <1>1, <1>3, <1>4 DEF CallInv

LEMMA Storage ==
    ASSUME NEW k \in Kinds
    PROVE  /\ StorageOf(k) \in {"none", "uninit", "owner"}
           /\ StorageOf(k) = "uninit" <=> k \in {"copy", "new", "newPanics", "newAbandons"}
           /\ StorageOf(k) = "owner" <=> k \in {"owner", "nullOwner"}
           /\ StorageOf(k) = "none" <=> k = "nullRef"
<1>1. CASE k \in {"copy", "new", "newPanics", "newAbandons"}
    BY <1>1 DEF StorageOf
<1>2. CASE k \in {"owner", "nullOwner"}
    BY <1>2 DEF StorageOf
<1>3. CASE k = "nullRef"
    BY <1>3 DEF StorageOf
<1> QED
    BY <1>1, <1>2, <1>3 DEF Kinds

(* A parameter which was prepared, or never touched, may be cleaned up. *)
LEMMA PreparedIsPending ==
    ASSUME NEW i \in Param, kind[i] \in Kinds, Prepared(i)
    PROVE  Pending(i)
BY Storage DEF Prepared, Pending, Destroys, InPlace, Populates

LEMMA UntouchedIsPending ==
    ASSUME NEW i \in Param, Untouched(i)
    PROVE  Pending(i)
BY DEF Untouched, Pending, Destroys, InPlace, NeverHandedOver

LEMMA ReserveInv == CallInv /\ Reserve => CallInv'
<1> SUFFICES ASSUME CallInv, Reserve PROVE CallInv'
    OBVIOUS
<1> USE DEF CallInv
<1>1. /\ UNCHANGED <<kind, dest, throws, at, space, populated, object, source, ending>>
      /\ pc = "reserve" /\ Reserving
    BY DEF Reserve, ParametersInv
<1>2. TypeOK'
    BY <1>1 DEF Reserve, TypeOK
<1>3. \A i \in Param : Untouched(i)' /\ object'[i] # "garbage"
    BY <1>1 DEF ParametersInv, Reserving, Untouched
<1>4. CASE N = 0
    <2>1. pc' = "call" /\ Param = {}
        BY <1>4 DEF Reserve, Param
    <2> QED BY <1>2, <1>1, <2>1 DEF ParametersInv, Calling, EndingInv, Reserve
<1>5. CASE N # 0
    <2>1. pc' = "populate" /\ at' = 1
        BY <1>1, <1>5 DEF Reserve, Reserving
    <2>2. 1 \in Param /\ \A i \in Param : ~(i < 1)
        BY <1>5, NAssumption DEF Param
    <2>3. Populating'
        BY <1>3, <2>1, <2>2 DEF Populating
    <2>4. ParametersInv'
        BY <1>3, <2>1, <2>3 DEF ParametersInv
    <2>5. EndingInv'
        BY <1>1, <2>1 DEF EndingInv, Reserve
    <2> QED BY <1>2, <2>4, <2>5
<1> QED
    BY <1>4, <1>5

(* A panic sends the wrapper to its cleanup with nothing settled yet. *)
LEMMA UnwindInv ==
    ASSUME CallInv, TypeOK', Unwind, at' = N, MayFail,
           pc \in {"populate", "pointers"}, UNCHANGED <<kind, dest, throws, flag>>,
           \A i \in Param : Pending(i)' /\ object'[i] # "garbage"
    PROVE  CallInv'
<1>1. pc' = "cleanup" /\ ending' = "panic"
    BY DEF Unwind
<1>2. CleaningUp'
    <2>1. N \in 0..N /\ \A i \in Param : i <= N
        BY NAssumption DEF Param
    <2> QED BY <2>1 DEF CleaningUp
<1>3. ParametersInv'
    BY <1>1, <1>2 DEF ParametersInv
<1>4. MayFail'
    BY DEF MayFail
<1>5. EndingInv'
    BY <1>1, <1>4 DEF EndingInv, CallInv
<1> QED
    BY <1>3, <1>5 DEF CallInv

LEMMA PopulateInv == CallInv /\ Populate => CallInv'
<1> SUFFICES ASSUME CallInv, Populate PROVE CallInv'
    OBVIOUS
<1>0. TypeOK /\ ParametersInv /\ EndingInv /\ pc = "populate" /\ Populating
    BY DEF CallInv, Populate, ParametersInv
<1> DEFINE k == kind[at]
<1>1. at \in Param /\ at \in 1..N /\ N \in Nat /\ N \in 0..N /\ k \in Kinds /\ Untouched(at)
    BY <1>0, NAssumption DEF Populating, TypeOK, Param
<1>2. UNCHANGED <<kind, dest, throws, source, place, flag>>
    BY DEF Populate
<1>3. /\ space' = [space EXCEPT ![at] = StorageOf(k)]
      /\ object' = [object EXCEPT ![at] = IF k \in Builds THEN "live" ELSE @]
      /\ populated' = [populated EXCEPT ![at] = k \in Populates]
    BY DEF Populate, PopulatedBy
<1>4. /\ space'[at] = StorageOf(k)
      /\ object'[at] = IF k \in Builds THEN "live" ELSE object[at]
      /\ populated'[at] <=> k \in Populates
    BY <1>0, <1>1, <1>3 DEF TypeOK
<1>5. \A i \in Param : i # at =>
            space'[i] = space[i] /\ object'[i] = object[i] /\ (populated'[i] <=> populated[i])
    BY <1>0, <1>1, <1>3 DEF TypeOK
<1>6. \A i \in Param : i # at => (Prepared(i) => Prepared(i)') /\ (Untouched(i) => Untouched(i)')
    BY <1>2, <1>5 DEF Prepared, Untouched
<1>7. \A i \in Param : object'[i] # "garbage"
    BY <1>0, <1>4, <1>5 DEF ParametersInv
<1>8. TypeOK'
    <2>1. space' \in [Param -> {"none", "uninit", "owner"}]
        BY <1>0, <1>1, <1>3, Storage DEF TypeOK
    <2>2. object' \in [Param -> {"unbuilt", "live", "moved", "destroyed", "garbage"}]
        BY <1>0, <1>1, <1>3 DEF TypeOK
    <2>3. populated' \in [Param -> BOOLEAN]
        BY <1>0, <1>1, <1>3 DEF TypeOK
    <2>4. at' \in 0..N + 1
        BY <1>1 DEF Populate, Unwind
    <2>5. pc' \in {"populate", "pointers", "cleanup"} /\ ending' \in {ending, "panic"}
        BY DEF Populate, Unwind
    <2> QED BY <1>0, <1>2, <2>1, <2>2, <2>3, <2>4, <2>5 DEF TypeOK
<1>9. CASE k \in Populates
    <2>1. \A i \in Param : i = at => Prepared(i)'
        <3>1. object'[at] = IF k = "nullOwner" THEN "unbuilt" ELSE "live"
            BY <1>1, <1>4, <1>9 DEF Untouched, Populates, Builds
        <3> QED BY <1>2, <1>4, <1>9, <3>1 DEF Prepared
    <2>2. CASE at = N
        <3>1. pc' = "pointers" /\ at' = 1 /\ ending' = ending
            BY <1>9, <2>2 DEF Populate
        <3>2. 1 \in Param /\ \A i \in Param : (i < at \/ i = at) /\ ~(i < 1)
            BY <1>1, <2>2 DEF Param
        <3>3. \A i \in Param : Prepared(i)'
            BY <1>0, <1>6, <2>1, <3>2 DEF Populating
        <3>4. TakingPointers'
            BY <3>1, <3>2, <3>3 DEF TakingPointers
        <3>5. ParametersInv'
            BY <1>7, <3>1, <3>4 DEF ParametersInv
        <3>6. EndingInv'
            BY <1>0, <1>2, <3>1 DEF EndingInv
        <3> QED BY <1>8, <3>5, <3>6 DEF CallInv
    <2>3. CASE at # N
        <3>1. pc' = "populate" /\ at' = at + 1 /\ ending' = ending
            BY <1>9, <2>3 DEF Populate
        <3>2. at + 1 \in Param /\ at \in Int
            BY <1>1, <2>3 DEF Param
        <3>3. \A i \in Param : i < at + 1 => Prepared(i)'
            <4> SUFFICES ASSUME NEW i \in Param, i < at + 1 PROVE Prepared(i)'
                OBVIOUS
            <4>1. i = at \/ i < at
                BY <3>2 DEF Param
            <4> QED BY <1>0, <1>6, <2>1, <4>1 DEF Populating
        <3>4. \A i \in Param : ~(i < at + 1) => Untouched(i)'
            <4> SUFFICES ASSUME NEW i \in Param, ~(i < at + 1) PROVE Untouched(i)'
                OBVIOUS
            <4>1. i # at /\ ~(i < at)
                BY <3>2 DEF Param
            <4> QED BY <1>0, <1>6, <4>1 DEF Populating
        <3>5. Populating'
            BY <3>1, <3>2, <3>3, <3>4 DEF Populating
        <3>6. ParametersInv'
            BY <1>7, <3>1, <3>5 DEF ParametersInv
        <3>7. EndingInv'
            BY <1>0, <1>2, <3>1 DEF EndingInv
        <3> QED BY <1>8, <3>6, <3>7 DEF CallInv
    <2> QED BY <2>2, <2>3
<1>10. CASE k \notin Populates
    <2>1. Unwind /\ at' = N
        BY <1>10 DEF Populate
    <2>2. k \in {"nullRef", "newPanics", "newAbandons"} /\ ~populated'[at]
        BY <1>1, <1>4, <1>10 DEF Kinds, Populates
    <2>3. MayFail
        BY <1>1, <2>2 DEF MayFail
    <2>4. \A i \in Param : i = at => Pending(i)'
        <3>1. space'[at] # "owner"
            BY <1>1, <1>4, <2>2, Storage
        <3>2. object'[at] = IF k = "newAbandons" THEN "live" ELSE "unbuilt"
            BY <1>1, <1>4, <2>2 DEF Untouched, Builds
        <3>3. kind'[at] = k
            BY <1>2
        <3> QED BY <2>2, <3>1, <3>2, <3>3 DEF Pending, Destroys, InPlace, NeverHandedOver
    <2>5. \A i \in Param : i # at => Pending(i)'
        <3> SUFFICES ASSUME NEW i \in Param, i # at PROVE Pending(i)'
            OBVIOUS
        <3>1. Prepared(i) \/ Untouched(i)
            BY <1>0 DEF Populating
        <3>2. Pending(i)
            BY <1>0, <3>1, PreparedIsPending, UntouchedIsPending DEF TypeOK
        <3> QED BY <1>2, <1>5, <3>2 DEF Pending, Destroys, InPlace, NeverHandedOver
    <2> QED BY <1>0, <1>2, <1>7, <1>8, <2>1, <2>3, <2>4, <2>5, UnwindInv
<1> QED
    BY <1>9, <1>10

LEMMA TakePointerInv == CallInv /\ TakePointer => CallInv'
<1> SUFFICES ASSUME CallInv, TakePointer PROVE CallInv'
    OBVIOUS
<1>0. TypeOK /\ ParametersInv /\ EndingInv /\ pc = "pointers" /\ TakingPointers
    BY DEF CallInv, TakePointer, ParametersInv
<1>1. at \in 1..N /\ at \in Param /\ N \in Nat /\ N \in 0..N
    BY <1>0, NAssumption DEF TakingPointers, Param
<1>2. UNCHANGED <<kind, dest, throws, space, populated, object, source, place, flag>>
    BY DEF TakePointer
<1>3. TypeOK'
    <2>1. at' \in 0..N + 1 /\ pc' \in {"call", "pointers", "cleanup"} /\ ending' \in {ending, "panic"}
        BY <1>1 DEF TakePointer, Unwind
    <2> QED BY <1>0, <1>2, <2>1 DEF TypeOK
<1>4. \A i \in Param : object'[i] # "garbage"
    BY <1>0, <1>2 DEF ParametersInv
<1>5. \A i \in Param : Prepared(i)'
    BY <1>0, <1>2 DEF TakingPointers, Prepared
<1>6. CASE NullAt(at)
    <2>1. Unwind /\ at' = N
        BY <1>6 DEF TakePointer
    <2>2. MayFail
        BY <1>1, <1>6 DEF MayFail, NullAt
    <2>3. \A i \in Param : Pending(i)'
        <3> SUFFICES ASSUME NEW i \in Param PROVE Pending(i)'
            OBVIOUS
        <3>1. Pending(i)
            BY <1>0, PreparedIsPending DEF TakingPointers, TypeOK
        <3> QED BY <1>2, <3>1 DEF Pending, Destroys, InPlace, NeverHandedOver
    <2> QED BY <1>0, <1>2, <1>3, <1>4, <2>1, <2>2, <2>3, UnwindInv
<1>7. CASE ~NullAt(at)
    <2>1. ending' = ending /\ pc' = (IF at = N THEN "call" ELSE "pointers")
          /\ at' = (IF at = N THEN N ELSE at + 1)
        BY <1>7 DEF TakePointer
    <2>2. \A i \in Param : i < at \/ i = at => kind'[i] # "nullOwner"
        BY <1>0, <1>2, <1>7 DEF TakingPointers, NullAt
    <2>3. CASE at = N
        <3>1. \A i \in Param : i < at \/ i = at
            BY <1>1, <2>3 DEF Param
        <3>2. Calling'
            BY <1>5, <2>2, <3>1 DEF Calling
        <3>3. ParametersInv'
            BY <1>4, <2>1, <2>3, <3>2 DEF ParametersInv
        <3>4. EndingInv'
            BY <1>0, <1>2, <2>1, <2>3 DEF EndingInv
        <3> QED BY <1>3, <3>3, <3>4 DEF CallInv
    <2>4. CASE at # N
        <3>1. pc' = "pointers" /\ at' = at + 1
            BY <2>1, <2>4
        <3>2. at + 1 \in Param
            BY <1>1, <2>4 DEF Param
        <3>3. \A i \in Param : i < at + 1 => i < at \/ i = at
            BY <1>1 DEF Param
        <3>4. TakingPointers'
            BY <1>5, <2>2, <3>1, <3>2, <3>3 DEF TakingPointers
        <3>5. ParametersInv'
            BY <1>4, <3>1, <3>4 DEF ParametersInv
        <3>6. EndingInv'
            BY <1>0, <1>2, <2>1, <3>1 DEF EndingInv
        <3> QED BY <1>3, <3>5, <3>6 DEF CallInv
    <2> QED BY <2>3, <2>4
<1> QED
    BY <1>6, <1>7

(* Whatever C++ moved from, every handler still has an object to destroy. *)
LEMMA CalledIsPending ==
    ASSUME CallInv, pc = "call", UNCHANGED <<kind, space, populated>>,
           NEW i \in Param, object'[i] \in {"live", "moved"}
    PROVE  Pending(i)'
<1>1. Prepared(i) /\ kind[i] # "nullOwner" /\ kind[i] \in Kinds
    BY DEF CallInv, TypeOK, ParametersInv, Calling
<1>2. Destroys(i)
    BY <1>1, Storage DEF Prepared, Populates, Destroys
<1> QED
    BY <1>2 DEF Pending, Destroys, InPlace

LEMMA CallReturnsInv == CallInv /\ CallReturns => CallInv'
<1> SUFFICES ASSUME CallInv, CallReturns PROVE CallInv'
    OBVIOUS
<1>1. /\ pc = "call" /\ pc' = "cleanup" /\ at' = N /\ ending' = "returned"
      /\ UNCHANGED <<kind, dest, throws, space, populated, source, flag>>
      /\ \A i \in Param : object'[i] = "moved"
    BY DEF CallReturns
<1>2. TypeOK'
    BY NAssumption DEF CallReturns, CallInv, TypeOK
<1>3. \A i \in Param : Pending(i)'
    BY <1>1, CalledIsPending
<1>4. N \in 0..N /\ \A i \in Param : i <= N
    BY NAssumption DEF Param
<1>5. CleaningUp'
    BY <1>1, <1>3, <1>4 DEF CleaningUp
<1>6. ParametersInv'
    BY <1>1, <1>5 DEF ParametersInv
<1>7. EndingInv'
    BY <1>1 DEF EndingInv, CallInv
<1> QED
    BY <1>2, <1>6, <1>7 DEF CallInv

LEMMA CallThrowsInv == CallInv /\ CallThrows => CallInv'
<1> SUFFICES ASSUME CallInv, CallThrows PROVE CallInv'
    OBVIOUS
<1>1. /\ pc = "call"
      /\ UNCHANGED <<kind, dest, throws, space, populated, source, place, flag>>
    BY DEF CallThrows
<1>2. Calling /\ TypeOK
    BY <1>1 DEF CallInv, ParametersInv
<1>3. \A i \in Param : object[i] = "live"
    BY <1>2 DEF Calling, Prepared
<1>4. PICK n \in 0..N : object' = [i \in Param |-> IF i <= n THEN "moved" ELSE object[i]]
    BY DEF CallThrows
<1>5. \A i \in Param : object'[i] \in {"live", "moved"}
    BY <1>3, <1>4
<1>6. object' \in [Param -> {"unbuilt", "live", "moved", "destroyed", "garbage"}]
    BY <1>3, <1>4
<1>7. CASE throws
    <2>1. pc' = "cleanup" /\ at' = N /\ ending' = "error"
        BY <1>7 DEF CallThrows
    <2>2. N \in 0..N /\ N \in 0..N + 1 /\ \A i \in Param : i <= N
        BY NAssumption DEF Param
    <2>3. TypeOK'
        BY <1>1, <1>2, <1>6, <2>1, <2>2 DEF TypeOK
    <2>4. \A i \in Param : Pending(i)'
        BY <1>1, <1>5, CalledIsPending
    <2>5. CleaningUp'
        BY <2>1, <2>2, <2>4 DEF CleaningUp
    <2>6. ParametersInv'
        BY <1>5, <2>1, <2>5 DEF ParametersInv
    <2>7. EndingInv'
        BY <1>1, <2>1 DEF EndingInv, CallInv
    <2> QED BY <2>3, <2>6, <2>7 DEF CallInv
<1>8. CASE ~throws
    <2>1. pc' = "done" /\ at' = at /\ ending' = "abort"
        BY <1>8 DEF CallThrows
    <2>2. TypeOK'
        BY <1>1, <1>2, <1>6, <2>1 DEF TypeOK
    <2>3. ParametersInv'
        BY <1>5, <2>1 DEF ParametersInv
    <2>4. EndingInv'
        BY <1>1, <1>8, <2>1 DEF EndingInv
    <2> QED BY <2>2, <2>3, <2>4 DEF CallInv
<1> QED
    BY <1>7, <1>8

LEMMA CleanupInv == CallInv /\ Cleanup => CallInv'
<1> SUFFICES ASSUME CallInv, Cleanup PROVE CallInv'
    OBVIOUS
<1>0. TypeOK /\ ParametersInv /\ EndingInv /\ CleaningUp
    BY DEF CallInv, Cleanup, ParametersInv
<1>1. at \in 1..N /\ at \in Param /\ at' = at - 1 /\ at - 1 \in 0..N /\ Pending(at)
    BY <1>0, NAssumption DEF Cleanup, CleaningUp, Param
<1>2. pc = "cleanup" /\ UNCHANGED <<kind, dest, throws, pc, space, populated, source, place, flag, ending>>
    BY DEF Cleanup
<1>3. object'[at] = IF Destroys(at) \/ NeverHandedOver(at) THEN Destroyed(at) ELSE object[at]
    BY <1>0, <1>1 DEF Cleanup, TypeOK
<1>4. \A i \in Param : i # at => object'[i] = object[i]
    BY <1>0, <1>1 DEF Cleanup, TypeOK
<1>5. object'[at] # "garbage" /\ (object'[at] \in {"live", "moved"} => kind[at] = "newAbandons")
    BY <1>0, <1>1, <1>3 DEF ParametersInv, Pending, InPlace, NeverHandedOver, Destroyed
<1>6. TypeOK'
    <2>1. at' \in 0..N + 1
        BY <1>1, NAssumption
    <2>2. object' \in [Param -> {"unbuilt", "live", "moved", "destroyed", "garbage"}]
        BY <1>0, <1>1 DEF Cleanup, TypeOK, Destroyed
    <2> QED BY <1>0, <1>2, <2>1, <2>2 DEF TypeOK
<1>7. \A i \in Param : object'[i] # "garbage"
    BY <1>0, <1>4, <1>5 DEF ParametersInv
<1>8. \A i \in Param : i <= at - 1 => Pending(i)'
    <2> SUFFICES ASSUME NEW i \in Param, i <= at - 1 PROVE Pending(i)'
        OBVIOUS
    <2>1. i <= at /\ i # at
        BY <1>1 DEF Param
    <2> QED BY <1>0, <1>2, <1>4, <2>1 DEF CleaningUp, Pending, Destroys, InPlace, NeverHandedOver
<1>9. \A i \in Param : ~(i <= at - 1) => Settled(i)'
    <2> SUFFICES ASSUME NEW i \in Param, ~(i <= at - 1) PROVE Settled(i)'
        OBVIOUS
    <2>1. i = at \/ (i # at /\ ~(i <= at))
        BY <1>1 DEF Param
    <2>2. CASE i = at
        BY <1>2, <1>5, <2>2 DEF Settled, InPlace
    <2>3. CASE i # at /\ ~(i <= at)
        BY <1>0, <1>2, <1>4, <2>3 DEF CleaningUp, Settled, InPlace
    <2> QED BY <2>1, <2>2, <2>3
<1>10. CleaningUp'
    BY <1>1, <1>8, <1>9 DEF CleaningUp
<1>11. ParametersInv'
    BY <1>2, <1>7, <1>10 DEF ParametersInv
<1>12. EndingInv'
    BY <1>0, <1>2 DEF EndingInv, MayFail
<1> QED
    BY <1>6, <1>11, <1>12 DEF CallInv

LEMMA FinishInv == CallInv /\ Finish => CallInv'
<1> SUFFICES ASSUME CallInv, Finish PROVE CallInv'
    OBVIOUS
<1>0. TypeOK /\ ParametersInv /\ EndingInv /\ CleaningUp
    BY DEF CallInv, Finish, ParametersInv
<1>1. /\ pc = "cleanup" /\ pc' = IF dest = "stack" THEN "scope" ELSE "done"
      /\ UNCHANGED <<kind, dest, throws, at, space, populated, object, source, ending>>
    BY DEF Finish
<1>2. flag' = IF ending = "error" /\ dest = "stack" THEN 0 ELSE flag
    <2>1. dest = "stack" => flag = 1
        BY <1>0, <1>1 DEF EndingInv
    <2> QED BY <2>1 DEF Finish, FlagAfterError
<1>3. TypeOK'
    BY <1>0, <1>1, <1>2 DEF TypeOK, Finish
<1>4. \A i \in Param : ~(i <= at)
    BY DEF Finish, Param
<1>5. Over'
    BY <1>0, <1>1, <1>4 DEF CleaningUp, Over, Settled, InPlace
<1>6. ParametersInv'
    BY <1>0, <1>1, <1>5 DEF ParametersInv
<1>7. EndingInv'
    BY <1>0, <1>1, <1>2 DEF EndingInv, MayFail
<1> QED
    BY <1>3, <1>6, <1>7 DEF CallInv

LEMMA EndOfScopeInv == CallInv /\ EndOfScope => CallInv'
<1> SUFFICES ASSUME CallInv, EndOfScope PROVE CallInv'
    OBVIOUS
<1>0. TypeOK /\ ParametersInv /\ EndingInv /\ Over
    BY DEF CallInv, EndOfScope, ParametersInv
<1>1. /\ pc = "scope" /\ pc' = "done"
      /\ ending' = IF ending # "returned" /\ flag > 0 THEN "abort" ELSE ending
      /\ UNCHANGED <<kind, dest, throws, at, space, populated, object, source>>
    BY DEF EndOfScope
<1>2. TypeOK'
    BY <1>0, <1>1 DEF TypeOK, EndOfScope
<1>3. Over'
    BY <1>0, <1>1 DEF Over, Settled, InPlace
<1>4. ParametersInv'
    BY <1>0, <1>1, <1>3 DEF ParametersInv
<1>5. MayFail' <=> MayFail
    BY <1>1 DEF MayFail
<1>6. EndingInv'
    BY <1>0, <1>1, <1>5 DEF EndingInv
<1> QED
    BY <1>2, <1>4, <1>6 DEF CallInv

LEMMA CallInvariant == Spec => []CallInv
<1>1. CallInv /\ [Next]_vars => CallInv'
    <2>1. CallInv /\ UNCHANGED vars => CallInv'
        <3> SUFFICES ASSUME CallInv, UNCHANGED vars PROVE CallInv'
            OBVIOUS
        <3>1. TypeOK'
            BY DEF CallInv, TypeOK, vars
        <3>2. ParametersInv'
            BY DEF CallInv, ParametersInv, vars, Reserving, Populating, TakingPointers, Calling,
                   CleaningUp, Over, Untouched, Prepared, Pending, Settled, InPlace, Destroys,
                   NeverHandedOver
        <3>3. EndingInv'
            BY DEF CallInv, EndingInv, MayFail, vars
        <3> QED BY <3>1, <3>2, <3>3 DEF CallInv
    <2> QED
        BY <2>1, ReserveInv, PopulateInv, TakePointerInv, CallReturnsInv, CallThrowsInv,
           CleanupInv, FinishInv, EndOfScopeInv DEF Next
<1> QED
    BY <1>1, InvInit, PTL DEF Spec

-----------------------------------------------------------------------------
(* Every variable of a call keeps its type, however many parameters it has. *)
THEOREM TypeCorrect == Spec => []TypeOK
BY CallInvariant, PTL DEF CallInv

(* C++ is only called with objects to move from: a null owner, or a            *)
(* constructor which panicked, is found out before (FunctionWrapper's get_ptr  *)
(* calls).                                                                     *)
THEOREM CppAlwaysGetsObjects == Spec => []CppGetsObjects
<1>1. CallInv => CppGetsObjects
    BY DEF CallInv, ParametersInv, Calling, Prepared, CppGetsObjects
<1> QED
    BY <1>1, CallInvariant, PTL

(* No destructor runs over unbuilt storage or runs twice, whichever parameters *)
(* panic (ValueParamHandler's Drop).                                           *)
THEOREM GarbageIsNeverDestroyed == Spec => []NoGarbageIsDestroyed
<1>1. CallInv => NoGarbageIsDestroyed
    BY DEF CallInv, ParametersInv, NoGarbageIsDestroyed
<1> QED
    BY <1>1, CallInvariant, PTL

(* A call which is over has destroyed every object made or given for it, but   *)
(* for the one a panicking constructor abandoned.                              *)
THEOREM NothingIsLeftOver == Spec => []EverythingIsDestroyed
<1>1. CallInv => EverythingIsDestroyed
    BY DEF CallInv, ParametersInv, Over, Settled, InPlace, EverythingIsDestroyed
<1> QED
    BY <1>1, CallInvariant, PTL

(* A C++ exception of a throws! function ends the process only if a parameter  *)
(* panicked inside a StackSlot's recipe (StackSlot::try_emplace).              *)
THEOREM ErrorsReachTheCaller == Spec => []ErrorsAreReported
<1>1. CallInv => ErrorsAreReported
    BY DEF CallInv, EndingInv, MayFail, ErrorsAreReported
<1> QED
    BY <1>1, CallInvariant, PTL

(* Whatever a call uses as an object is one, however many parameters it has    *)
(* and whichever of them panic (ValueParamHandler's get_ptr and Drop).         *)
THEOREM OnlyObjects == Spec => []OnlyObjectsAreUsed
BY CppAlwaysGetsObjects, GarbageIsNeverDestroyed, PTL DEF OnlyObjectsAreUsed

(* However a call ends nothing is left behind, and an exception a throws!      *)
(* function lets through reaches its caller (StackSlot::try_emplace).          *)
THEOREM EveryCallEndsWell == Spec => []CallsEndWell
BY NothingIsLeftOver, ErrorsReachTheCaller, PTL DEF CallsEndWell
=============================================================================

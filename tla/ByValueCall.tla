----------------------------- MODULE ByValueCall -----------------------------
(***************************************************************************)
(* One call of a generated Rust wrapper for a C++ function which takes     *)
(* parameters by value, and may build its result in place.  For each such  *)
(* parameter the wrapper puts a ValueParamHandler (or RValueParamHandler)  *)
(* on its stack and populates it from what the caller passed, which may    *)
(* run a C++ copy constructor or any other `New`; it then takes a pointer  *)
(* out of each handler, calls C++, which moves from what they point at,    *)
(* and drops the handlers in reverse order.  Any populate or get_ptr may   *)
(* panic, and the C++ function may throw.                                  *)
(***************************************************************************)
EXTENDS Integers, FiniteSets

CONSTANT N                  \* how many by-value parameters the function has

ASSUME NAssumption == N \in Nat

\* What a caller may pass for a parameter.
\*   copy       a reference, copied by the C++ copy constructor
\*   nullRef    a reference to a null UniquePtr
\*   owner      an owning pointer: UniquePtr, Pin<Box>, CppPin, MoveRef
\*   nullOwner  a null UniquePtr or CppUniquePtrPin
\*   new        any constructor, through as_new, as_copy or as_mov
\*   newPanics  a constructor which panics before it builds anything
\*   newAbandons a constructor which panics after it has built the object
Kinds == {"copy", "nullRef", "owner", "nullOwner", "new", "newPanics", "newAbandons"}

\* Where the result goes: returned by value, or placed in a heap block
\* (within_unique_ptr, within_box) or a StackSlot.
Destinations == {"none", "heap", "stack"}

Param == 1..N

VARIABLES
    kind,       \* what the caller passed, by parameter
    dest,       \* where the result goes
    throws,     \* whether the function is named by a throws! directive
    pc,         \* what the wrapper is doing
    at,         \* the parameter it is doing it for
    space,      \* the handler's storage: "none", "uninit" or "owner", by parameter
    populated,  \* whether the handler's populate returned, by parameter
    object,     \* the object passed: "unbuilt", "live", "moved", "destroyed"
    source,     \* what it was copied from: "live", or "none"
    place,      \* the result's place: "none", "reserved", "live", "freed"
    flag,       \* the StackSlot's drop flag
    ending      \* "running", "returned", "error", "panic" or "abort"

vars == <<kind, dest, throws, pc, at, space, populated, object, source, place, flag, ending>>

Init ==
    /\ kind \in [Param -> Kinds]
    /\ dest \in Destinations
    /\ throws \in BOOLEAN
    /\ pc = "reserve" /\ at = 1
    /\ space = [i \in Param |-> "none"]
    /\ populated = [i \in Param |-> FALSE]
    /\ object = [i \in Param |-> IF kind[i] = "owner" THEN "live" ELSE "unbuilt"]
    /\ source = [i \in Param |-> IF kind[i] = "copy" THEN "live" ELSE "none"]
    /\ place = "none" /\ flag = 0 /\ ending = "running"

\* The value parameters of a constructor are evaluated inside the recipe it
\* hands back, so the storage exists, and a StackSlot's flag is up, before them.
Reserve ==
    /\ pc = "reserve"
    /\ pc' = IF N = 0 THEN "call" ELSE "populate"
    /\ place' = IF dest = "none" THEN "none" ELSE "reserved"
    /\ flag' = IF dest = "stack" THEN 1 ELSE 0
    /\ UNCHANGED <<kind, dest, throws, at, space, populated, object, source, ending>>

\* A panic while parameter `at` is prepared: the handlers made so far go.
Unwind ==
    /\ pc' = "cleanup"
    /\ ending' = "panic"

Populates == {"copy", "owner", "nullOwner", "new"}
Builds == {"copy", "new", "newAbandons"}
StorageOf(k) ==
    CASE k \in {"copy", "new", "newPanics", "newAbandons"} -> "uninit"
      [] k \in {"owner", "nullOwner"} -> "owner"
      [] k = "nullRef" -> "none"

\* Parameter `at` goes into its handler.  Storage is reserved first, then the
\* object is built in it, and only a populate which returns is recorded.
Mut_NeverPopulated(k) == FALSE
PopulatedBy(k) == k \in Populates
Populate ==
    /\ pc = "populate"
    /\ LET k == kind[at]
       IN  /\ space' = [space EXCEPT ![at] = StorageOf(k)]
           /\ object' = [object EXCEPT ![at] = IF k \in Builds THEN "live" ELSE @]
           /\ populated' = [populated EXCEPT ![at] = PopulatedBy(k)]
           /\ IF k \in Populates
              THEN /\ pc' = IF at = N THEN "pointers" ELSE "populate"
                   /\ at' = IF at = N THEN 1 ELSE at + 1
                   /\ UNCHANGED ending
              ELSE at' = N /\ Unwind
    /\ UNCHANGED <<kind, dest, throws, source, place, flag>>

\* Pointers are taken while the arguments of the bridge call are evaluated; an
\* owner which is null is found out here.
Mut_NullAt(i) == FALSE
NullAt(i) == kind[i] = "nullOwner"
TakePointer ==
    /\ pc = "pointers"
    /\ IF NullAt(at)
       THEN at' = N /\ Unwind
       ELSE /\ pc' = IF at = N THEN "call" ELSE "pointers"
            /\ at' = IF at = N THEN N ELSE at + 1
            /\ UNCHANGED ending
    /\ UNCHANGED <<kind, dest, throws, space, populated, object, source, place, flag>>

\* C++ moves from every parameter, and returns its result into its place.
CallReturns ==
    /\ pc = "call"
    /\ object' = [i \in Param |-> "moved"]
    /\ place' = IF dest = "none" THEN "none" ELSE "live"
    /\ ending' = "returned"
    /\ pc' = "cleanup"
    /\ at' = N
    /\ UNCHANGED <<kind, dest, throws, space, populated, source, flag>>

\* C++ throws: an error for a throws! function, the end of the process for any
\* other.  The parameters may or may not have been moved from.
CallThrows ==
    /\ pc = "call"
    /\ object' \in {[i \in Param |-> IF i <= n THEN "moved" ELSE object[i]] : n \in 0..N}
    /\ IF throws
       THEN ending' = "error" /\ pc' = "cleanup" /\ at' = N
       ELSE ending' = "abort" /\ pc' = "done" /\ UNCHANGED at
    /\ UNCHANGED <<kind, dest, throws, space, populated, source, place, flag>>

\* Destroys what a parameter's handler holds.  Only a handler which was
\* populated destroys a MaybeUninit; an owner frees whatever it owns.
Mut_Destroys(i) == space[i] # "none"
Destroys(i) ==
    \/ space[i] = "uninit" /\ populated[i]
    \/ space[i] = "owner" /\ kind[i] # "nullOwner"
\* What was passed for a parameter which never reached its handler is dropped
\* by whoever still holds it.
NeverHandedOver(i) == space[i] = "none" /\ object[i] = "live"

Destroyed(i) == IF object[i] \in {"live", "moved"} THEN "destroyed" ELSE "garbage"

\* Handlers are dropped in reverse order.
Cleanup ==
    /\ pc = "cleanup" /\ at >= 1
    /\ object' = [object EXCEPT ![at] =
                    IF Destroys(at) \/ NeverHandedOver(at) THEN Destroyed(at) ELSE @]
    /\ at' = at - 1
    /\ UNCHANGED <<kind, dest, throws, pc, space, populated, source, place, flag, ending>>

\* Lowering the flag of a StackSlot whose constructor failed, which Slot itself
\* does not do.
Mut_FlagLeftUp == flag
FlagAfterError == flag - 1

\* The recipe is over.  A failed construction frees its place undestroyed; a
\* panic over a StackSlot leaves its flag up.
Finish ==
    /\ pc = "cleanup" /\ at = 0
    /\ pc' = IF dest = "stack" THEN "scope" ELSE "done"
    /\ place' = IF ending = "error" THEN "freed" ELSE place
    /\ flag' = IF ending = "error" /\ dest = "stack" THEN FlagAfterError ELSE flag
    /\ UNCHANGED <<kind, dest, throws, at, space, populated, object, source, ending>>

\* The end of the scope a StackSlot lives in: the MoveRef, if one was handed
\* out, destroys the object and lowers the flag; a flag still up is fatal.
EndOfScope ==
    /\ pc = "scope"
    /\ pc' = "done"
    /\ place' = IF ending = "returned" THEN "freed" ELSE place
    /\ flag' = IF ending = "returned" THEN 0 ELSE flag
    /\ ending' = IF ending # "returned" /\ flag > 0 THEN "abort" ELSE ending
    /\ UNCHANGED <<kind, dest, throws, at, space, populated, object, source>>

Next ==
    \/ Reserve \/ Populate \/ TakePointer \/ CallReturns \/ CallThrows
    \/ Cleanup \/ Finish \/ EndOfScope

Spec == Init /\ [][Next]_vars

-----------------------------------------------------------------------------
(* Properties *)

\* Every variable holds a value of its type.
TypeOK ==
    /\ kind \in [Param -> Kinds] /\ dest \in Destinations /\ throws \in BOOLEAN
    /\ pc \in {"reserve", "populate", "pointers", "call", "cleanup", "scope", "done"}
    /\ at \in 0..N + 1
    /\ space \in [Param -> {"none", "uninit", "owner"}]
    /\ populated \in [Param -> BOOLEAN]
    /\ object \in [Param -> {"unbuilt", "live", "moved", "destroyed", "garbage"}]
    /\ source \in [Param -> {"none", "live"}]
    /\ place \in {"none", "reserved", "live", "freed"}
    /\ flag \in {0, 1}
    /\ ending \in {"running", "returned", "error", "panic", "abort"}

\* C++ is only ever called with pointers to objects which exist.
CppGetsObjects == pc = "call" => \A i \in Param : object[i] = "live"

\* No destructor runs over storage in which nothing was built, and none runs
\* twice, whichever parameter panics (ValueParamHandler's Drop).
NoGarbageIsDestroyed == \A i \in Param : object[i] # "garbage"

\* When the call is over without ending the process, every object made or
\* given for it has been destroyed, but for the one which a constructor that
\* panicked left behind.
EverythingIsDestroyed ==
    pc = "done" /\ ending # "abort" =>
        \A i \in Param : object[i] \in {"live", "moved"} => kind[i] = "newAbandons"

\* A C++ exception of a throws! function reaches the caller as an error: the
\* process ends only if the function was not declared to throw, or a parameter
\* panicked inside a StackSlot's recipe (StackSlot::try_emplace's promise).
ErrorsAreReported ==
    pc = "done" /\ ending = "abort" =>
        \/ ~throws
        \/ dest = "stack" /\ \E i \in Param : kind[i] \notin {"copy", "owner", "new"}

\* Whatever is used as an object is one: what C++ is given, and what is
\* destroyed.
OnlyObjectsAreUsed == CppGetsObjects /\ NoGarbageIsDestroyed

\* However a call ends, nothing made for it is left behind, and it ends the
\* process only where it was never promised not to.
CallsEndWell == EverythingIsDestroyed /\ ErrorsAreReported
=============================================================================

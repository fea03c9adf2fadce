------------------------------- MODULE Pruning -------------------------------
(***************************************************************************)
(* The tail of a conversion, where the list of APIs is cut down to what    *)
(* can and should be generated:                                            *)
(*   filter   drops every API which depends on something ignored or        *)
(*            unknown, pass after pass (remove_ignored.rs)                 *)
(*   collect  keeps what the allowlist reaches (gc.rs)                     *)
(*   confirm  checks that each generate! directive still got something     *)
(*            (conversion/mod.rs)                                          *)
(* An API is known by its place in the list; names are unique (ApiVec), so *)
(* its place stands for its name too.  Which of several dependencies comes *)
(* first is left open, and so is the order in which names are collected:   *)
(* what is shown holds for the code's orders and every other.              *)
(***************************************************************************)
EXTENDS Naturals, FiniteSets

CONSTANTS
    N,          \* how many APIs the list has
    Extra,      \* the names of anything but an API
    Known,      \* ... those autocxx knows without an API (known_types)
    Directive,  \* what the user names: generate!, generate_ns!, instantiable! ...
    Must,       \* ... those which must generate something (must_generate_list)
    Lists,      \* the lists of APIs to start from
    Kept,       \* "no reason to ignore it"
    Nothing     \* "no reason is known"

Api == 1..N
Name == Api \cup Extra

\* deps      the names each API depends on (deps.rs)
\* bad       the APIs ignored before the filter starts
\* declares  the names an API declares besides its own: a subclass's holder and
\*           C++ class
\* answers   the directives which name an API
\* stub      ... and which still name it once it is ignored: a trait method or
\*           an overload loses some
List == [deps : [Api -> SUBSET Name], bad : SUBSET Api, declares : [Api -> SUBSET Extra],
         answers : [Api -> SUBSET Directive], stub : [Api -> SUBSET Directive]]

ASSUME NAssumption == N \in Nat
ASSUME NamesAssumption == Api \cap Extra = {} /\ Kept \notin Name /\ Nothing \notin Name /\ Kept # Nothing
ASSUME KnownAssumption == Known \subseteq Extra
ASSUME MustAssumption == Must \subseteq Directive
ASSUME ListsAssumption == Lists \subseteq List

VARIABLES
    apis,       \* the list as the filter gets it
    pc,         \* "filter", "collect", "confirm" or "done"
    at,         \* the API this pass of the filter has come to
    again,      \* iterate_again
    reason,     \* for an ignored API, the item which was wrong to begin with
    todos,      \* names to collect
    done,       \* names collected
    output,     \* APIs collected
    refused     \* the directive confirm refuses and why: at most one

vars == <<apis, pc, at, again, reason, todos, done, output, refused>>
filtering == <<at, again, reason>>
collecting == <<todos, done, output>>

Gone == {i \in Api : reason[i] # Kept}

\* An ignored item depends on nothing.
Deps(i) == IF i \in Gone THEN {} ELSE apis.deps[i]

\* The names the items of a list declare: settled before the first pass and
\* never revised, whatever is dropped later.
ValidTypes(list) == (Api \ list.bad) \cup UNION {list.declares[i] : i \in Api \ list.bad}
Unknown(list, deps) == deps \ (ValidTypes(list) \cup Known)

\* A set of APIs which has everything ignored from the start, everything which
\* depends on a name nothing declares, and every dependent of its own.
Doomed(list, S) ==
    /\ list.bad \subseteq S
    /\ \A i \in Api :
        list.deps[i] \cap S # {} \/ Unknown(list, list.deps[i]) # {} => i \in S

\* No subclass is dropped for what its superclass depends on.  The names of its
\* holder and its C++ class would stay valid types if it were.
PeersSurvive(list) ==
    \A i \in Api :
        list.declares[i] # {} =>
            i \in list.bad \/ \E S \in SUBSET Api : Doomed(list, S) /\ i \notin S

Init ==
    /\ apis \in Lists
    /\ pc = "filter" /\ at = 1 /\ again = FALSE
    /\ reason = [i \in Api |-> IF i \in apis.bad THEN i ELSE Kept]
    /\ todos = {} /\ done = {} /\ output = {}
    /\ refused = {}

-----------------------------------------------------------------------------
(* filter_apis_by_ignored_dependents *)

\* What an item inherits from the ignored item it depends on: the reason that
\* one went, not the fact that it did.
Mut_Inherited(culprit) == culprit
Inherited(culprit) == reason[culprit]

NextItem == at + 1

Ignore(why) ==
    /\ reason' = [reason EXCEPT ![at] = why]
    /\ at' = NextItem

\* The ignored items an item depends on, those dropped in this pass included.
Culprits(i) == Deps(i) \cap Gone

Mut_AgainAfterUnknown == again
AgainAfterUnknown == TRUE

DropDependent ==
    /\ pc = "filter" /\ at \in Api
    /\ \E culprit \in Culprits(at) : Ignore(Inherited(culprit))
    /\ again' = TRUE
    /\ UNCHANGED <<apis, pc, collecting, refused>>

DropUnknown ==
    /\ pc = "filter" /\ at \in Api
    /\ Culprits(at) = {}
    /\ \E missing \in Unknown(apis, Deps(at)) : Ignore(missing)
    /\ again' = AgainAfterUnknown
    /\ UNCHANGED <<apis, pc, collecting, refused>>

Keep ==
    /\ pc = "filter" /\ at \in Api
    /\ Culprits(at) = {} /\ Unknown(apis, Deps(at)) = {}
    /\ at' = at + 1
    /\ UNCHANGED <<apis, pc, again, reason, collecting, refused>>

NextPass ==
    /\ pc = "filter" /\ at = N + 1 /\ again
    /\ at' = 1 /\ again' = FALSE
    /\ UNCHANGED <<apis, pc, reason, collecting, refused>>

-----------------------------------------------------------------------------
(* filter_apis_by_following_edges_from_allowlist *)

Answers(i) == IF i \in Gone THEN apis.stub[i] ELSE apis.answers[i]
Roots == {i \in Api : Answers(i) # {}}

StartCollecting ==
    /\ pc = "filter" /\ at = N + 1 /\ ~again
    /\ pc' = "collect"
    /\ todos' = Roots
    /\ UNCHANGED <<apis, filtering, done, output, refused>>

SkipDone ==
    /\ pc = "collect"
    /\ \E name \in todos \cap done : todos' = todos \ {name}
    /\ UNCHANGED <<apis, pc, filtering, done, output, refused>>

\* A name which is no API's is an intrinsic, or one a subclass declares.
Found(name) == {i \in Api : i = name}
Mut_FollowRoots(found) == UNION {Deps(i) : i \in found \cap Roots}
Follow(found) == UNION {Deps(i) : i \in found}

Collect ==
    /\ pc = "collect"
    /\ \E name \in todos \ done :
        /\ output' = output \cup Found(name)
        /\ done' = done \cup {name}
        /\ todos' = (todos \ {name}) \cup Follow(Found(name))
    /\ UNCHANGED <<apis, pc, filtering, refused>>

EndCollecting ==
    /\ pc = "collect" /\ todos = {}
    /\ pc' = "confirm"
    /\ UNCHANGED <<apis, filtering, collecting, refused>>

-----------------------------------------------------------------------------
(* confirm_all_generate_directives_still_obeyed *)

Generated == UNION {Answers(i) : i \in output \ Gone}

\* The ignored items a directive names, whose reason the error may quote.
Mut_Discarded(d) == {i \in output : d \in apis.answers[i]}
Discarded(d) == {i \in output \cap Gone : d \in Answers(i)}

Refusal(d) ==
    IF Discarded(d) = {} THEN {[directive |-> d, why |-> Nothing]}
    ELSE {[directive |-> d, why |-> reason[i]] : i \in Discarded(d)}

Unobeyed == Must \ Generated

Confirm ==
    /\ pc = "confirm"
    /\ pc' = "done"
    /\ IF Unobeyed = {} THEN UNCHANGED refused
       ELSE \E d \in Unobeyed : \E refusal \in Refusal(d) : refused' = {refusal}
    /\ UNCHANGED <<apis, filtering, collecting>>

Next ==
    \/ DropDependent \/ DropUnknown \/ Keep \/ NextPass
    \/ StartCollecting \/ SkipDone \/ Collect \/ EndCollecting
    \/ Confirm

\* One thread runs the passes one after another and nothing in them waits.
Spec == Init /\ [][Next]_vars /\ WF_vars(Next)

-----------------------------------------------------------------------------
(* Properties *)

Refusals == [directive : Must, why : Name \cup {Nothing}]

\* Every variable holds a value of its type.
TypeOK ==
    /\ apis \in List
    /\ pc \in {"filter", "collect", "confirm", "done"}
    /\ at \in 1..N + 1
    /\ again \in BOOLEAN
    /\ reason \in [Api -> Name \cup {Kept}]
    /\ todos \subseteq Name
    /\ done \subseteq Name
    /\ output \subseteq Api
    /\ refused \subseteq Refusals

\* A name generated code may use: autocxx knows it, or an API of this set
\* which is not ignored declares it.
Usable(name, set) ==
    name \in Known \/ \E i \in set \ Gone : name = i \/ name \in apis.declares[i]

\* When the filter is over, no API which is left names one which is not: not a
\* dependent of an ignored item, nor of an item dropped in the same pass or a
\* later one (remove_ignored.rs).
KeptIsClosed ==
    pc # "filter" => \A i \in Api \ Gone : \A name \in apis.deps[i] : Usable(name, Api)

\* The filter is the withdrawal of unsupported items, settled when collection
\* begins: it drops an item only for want of something the item names, passes
\* enough make nothing left want anything, and they come to an end, dependency
\* cycles and all. The valid names, which it reckons once and never again, are
\* as good as reckoning them from what is left (remove_ignored.rs).
Withdrawing == INSTANCE Withdrawal WITH
    Item <- Api, list <- apis, left <- Api \ Gone, settled <- pc # "filter"
Withdraws == Withdrawing!Spec

\* The filter drops nothing it does not have to: whatever it drops is in every
\* such set, so the order of the list and the number of passes do not matter.
OnlyWhatMustGo == \A S \in SUBSET Api : Doomed(apis, S) => Gone \subseteq S

Follows(S) == \A j \in S : apis.deps[j] \cap Api \subseteq S

\* The reason given for a dropped API is a true one and an original one: an
\* item ignored from the start, or a name nothing declares, which the API does
\* reach through dependencies.
ReasonsAreRootCauses ==
    \A i \in Gone :
        /\ reason[i] \in apis.bad \cup Unknown(apis, Extra)
        /\ \A S \in SUBSET Api :
            i \in S /\ Follows(S) => reason[i] \in S \cup UNION {apis.deps[j] : j \in S}

\* What is generated can be compiled on its own: every name a collected API
\* uses is known or declared by a collected API.
OutputStandsAlone ==
    pc \in {"confirm", "done"} =>
        \A i \in output \ Gone : \A name \in apis.deps[i] : Usable(name, output)

\* Nothing is generated which no directive reaches.
OutputIsReachable ==
    \A S \in SUBSET Api :
        pc # "filter" /\ Roots \subseteq S /\ (\A i \in S : Deps(i) \cap Api \subseteq S) =>
            output \subseteq S

\* Collection keeps what the roots reach and what that needs, and no more: a
\* header stands alone without what no directive asked for.
OutputIsExact == OutputStandsAlone /\ OutputIsReachable

\* A generate! directive is refused exactly when no API it names was left by
\* the filter, collected or not, and the error gives a reason whenever there is
\* an ignored item, named by the directive, to take one from.
VerdictIsJust ==
    pc = "done" =>
        LET Served(d) == \E i \in Api \ Gone : d \in apis.answers[i]
            Stubs(d) == {i \in Gone : d \in apis.stub[i]}
        IN  /\ refused = {} => \A d \in Must : Served(d)
            /\ \A r \in refused :
                /\ ~Served(r.directive)
                /\ r.why \in IF Stubs(r.directive) = {} THEN {Nothing}
                             ELSE {reason[i] : i \in Stubs(r.directive)}
=============================================================================

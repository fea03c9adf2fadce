------------------------------ MODULE PodAnalysis ------------------------------
(***************************************************************************)
(* Which types Rust may hold by value: ByValueChecker, which decides it    *)
(* for the whole library before anything else is analysed, and the pass    *)
(* over the APIs which acts on the decision (analysis/pod).                *)
(*                                                                         *)
(* The checker is a machine of four loops.  It records what every typedef  *)
(* and enum is, puts the structs in an order where each follows what it    *)
(* holds, judges each struct once against what is recorded so far, and     *)
(* only then pops the user's requests off a stack, making each requested   *)
(* type POD and pushing what it holds.  One action is one turn of a loop.  *)
(***************************************************************************)
EXTENDS Naturals, Sequences, FiniteSets, SequencesExt

CONSTANTS
    Name,           \* every type name a program may mention
    Spelling,       \* every spelling a directive may use
    KnownSafe,      \* known types which may be held by value
    KnownUnsafe,    \* known types which may not, std::string say
    Opaque,         \* the marker bindgen writes for what it cannot name
    Substitute,     \* known_types().consider_substitution, as a function
    Programs        \* the libraries and directives to analyse

ASSUME NamesAssumption ==
    /\ KnownSafe \subseteq Name /\ KnownUnsafe \subseteq Name
    /\ IsFiniteSet(Name)
    /\ KnownSafe \cap KnownUnsafe = {}
    /\ Opaque \in Name \ (KnownSafe \cup KnownUnsafe)
    /\ Substitute \in [Name -> Name]

Shapes == {"plain", "array", "pointer", "function pointer", "bitfields", "padding"}

Field == [shape : Shapes, of : Name]

(* What bindgen reports of a struct besides its fields. *)
Facts == {"vtable", "virtual base", "volatile bitfield", "bases as bytes",
          "refused", "rvalue field", "unconverted field", "blob"}

(* Typedefs: "alias" of a path, "pointer alias", and "complex" for every   *)
(* other shape; "pod elsewhere" is an ExternCppType declared POD.          *)
ApiKinds == {"struct", "alias", "pointer alias", "complex", "enum", "pod elsewhere", "other"}

Api == [name : Name, kind : ApiKinds, target : Name, fields : Seq(Field),
        facts : SUBSET Facts, spellings : SUBSET Spelling]

(* named says how a spelling which no API has is split into a name. *)
Program == [apis : Seq(Api), blocklist : SUBSET Name, pods : Seq(Spelling),
            named : [Spelling -> Name]]

Places(prog) == 1 .. Len(prog.apis)

(* A list of APIs has one to a name: ApiVec sees to it. *)
ASSUME ProgramsAssumption ==
    \A prog \in Programs :
        /\ prog \in Program
        /\ \A p, q \in Places(prog) : prog.apis[p].name = prog.apis[q].name => p = q

VARIABLES
    program, phase, at,
    results,                    \* ByValueChecker.results
    order, progress, stack,     \* structs_in_dependency_order
    requests, awaiting,         \* satisfy_requests
    failure,                    \* the type and cause of an UnsafePodType error
    kinds                       \* TypeKind of each struct, or that it was ignored

vars == <<program, phase, at, results, order, progress, stack, requests, awaiting, failure, kinds>>

-----------------------------------------------------------------------------
(* Reading the program. *)

(* The elements of a sequence which are in a set, in their order. *)
Selected(s, set) ==
    LET upTo[k \in 0 .. Len(s)] ==
            IF k = 0 THEN <<>>
            ELSE IF s[k] \in set THEN Append(upTo[k - 1], s[k]) ELSE upTo[k - 1]
    IN upTo[Len(s)]

(* get_field_dependencies: a pointer, padding, a bitfield unit and a       *)
(* function pointer hold nothing; neither, by an exception the tests pin,  *)
(* does an array of blobs.                                                 *)
HeldByValue(field) ==
    \/ field.shape = "plain"
    \/ field.shape = "array" /\ field.of # Opaque

FieldDependencies(api) ==
    LET held == Selected(api.fields, {field \in Range(api.fields) : HeldByValue(field)})
    IN [i \in 1 .. Len(held) |-> held[i].of]

IsStruct(api) == api.kind = "struct"

(* The structs, by their places in the list. *)
Structs == {p \in Places(program) : IsStruct(program.apis[p])}

(* The map from a struct's name to its place. *)
Positions(n) == {p \in Structs : program.apis[p].name = n}

(* names_by_spelling, collected into a map: the last API with a spelling   *)
(* answers to it, and a spelling nobody has is split into a name.          *)
Resolve(spelling) ==
    LET answering == {i \in 1 .. Len(program.apis) : spelling \in program.apis[i].spellings}
    IN IF answering = {} THEN program.named[spelling]
       ELSE program.apis[CHOOSE i \in answering : \A j \in answering : j <= i].name

-----------------------------------------------------------------------------
(* What the checker records of a type.  An unsafe record carries where the *)
(* trouble started, which its messages spell out as "Because: ...".        *)

NoCause == [type |-> Opaque, why |-> "none"]
Record(state, target, deps, cause) ==
    [state |-> state, target |-> target, deps |-> deps, cause |-> cause]
Absent == Record("absent", Opaque, <<>>, NoCause)
IsPod == Record("pod", Opaque, <<>>, NoCause)
Unsafe(n, why) == Record("unsafe", Opaque, <<>>, [type |-> n, why |-> why])

(* ByValueChecker::new, and the blocklist over it. *)
Initially(blocklist) ==
    [n \in Name |-> IF n \in blocklist THEN Unsafe(n, "blocklisted")
                    ELSE IF n \in KnownSafe THEN IsPod
                    ELSE IF n \in KnownUnsafe THEN Unsafe(n, "known unsafe")
                    ELSE Absent]

Init ==
    /\ program \in Programs
    /\ phase = "scan" /\ at = 1
    /\ results = Initially(program.blocklist)
    /\ order = <<>> /\ stack = <<>>
    /\ progress = [p \in Structs |-> "unseen"]
    /\ requests = <<>> /\ awaiting = {}
    /\ failure = NoCause
    /\ kinds = [n \in Name |-> "none"]

-----------------------------------------------------------------------------
(* The scan of the APIs which are not structs. *)

Scanned(api) ==
    CASE api.kind = "alias" -> Record("alias", Substitute[api.target], <<>>, NoCause)
      [] api.kind = "complex" -> Unsafe(api.name, "complex typedef")
      [] api.kind \in {"pointer alias", "enum", "pod elsewhere"} -> IsPod
      [] OTHER -> results[api.name]

ScanApi ==
    /\ phase = "scan" /\ at <= Len(program.apis)
    /\ results' = [results EXCEPT ![program.apis[at].name] = Scanned(program.apis[at])]
    /\ at' = at + 1
    /\ UNCHANGED <<program, phase, order, progress, stack, requests, awaiting, failure, kinds>>

EndScan ==
    /\ phase = "scan" /\ at > Len(program.apis)
    /\ phase' = "order" /\ at' = 1
    /\ UNCHANGED <<program, results, order, progress, stack, requests, awaiting, failure, kinds>>

-----------------------------------------------------------------------------
(* structs_in_dependency_order: a depth-first walk with its own stack.  An *)
(* entry is met twice, on the way down and on the way back up.             *)

OnTheWay(p, up) == [place |-> p, up |-> up]

NextRoot ==
    /\ phase = "order" /\ stack = <<>> /\ at <= Len(program.apis)
    /\ stack' = IF at \in Structs /\ progress[at] = "unseen" THEN <<OnTheWay(at, FALSE)>> ELSE <<>>
    /\ at' = at + 1
    /\ UNCHANGED <<program, phase, results, order, progress, requests, awaiting, failure, kinds>>

(* Mutant of Below: the structs judged in the order bindgen wrote them. *)
Mut_Below(p) == <<>>

(* Pushed for a struct going down: each field naming an unseen struct. *)
Below(p) ==
    LET unseen == {n \in Name : \E q \in Positions(n) : progress[q] = "unseen" /\ q # p}
        found == Selected(FieldDependencies(program.apis[p]), unseen)
    IN [i \in 1 .. Len(found) |-> OnTheWay(CHOOSE q \in Positions(found[i]) : TRUE, FALSE)]

GoDown ==
    /\ phase = "order" /\ stack # <<>>
    /\ ~Last(stack).up /\ progress[Last(stack).place] = "unseen"
    /\ progress' = [progress EXCEPT ![Last(stack).place] = "under way"]
    /\ stack' = Front(stack) \o <<OnTheWay(Last(stack).place, TRUE)>> \o Below(Last(stack).place)
    /\ UNCHANGED <<program, phase, at, results, order, requests, awaiting, failure, kinds>>

PassOver ==
    /\ phase = "order" /\ stack # <<>>
    /\ ~Last(stack).up /\ progress[Last(stack).place] # "unseen"
    /\ stack' = Front(stack)
    /\ UNCHANGED <<program, phase, at, results, order, progress, requests, awaiting, failure, kinds>>

ComeBackUp ==
    /\ phase = "order" /\ stack # <<>> /\ Last(stack).up
    /\ progress' = [progress EXCEPT ![Last(stack).place] = "ordered"]
    /\ order' = Append(order, Last(stack).place)
    /\ stack' = Front(stack)
    /\ UNCHANGED <<program, phase, at, results, requests, awaiting, failure, kinds>>

EndOrder ==
    /\ phase = "order" /\ stack = <<>> /\ at > Len(program.apis)
    /\ phase' = "ingest" /\ at' = 1
    /\ UNCHANGED <<program, results, order, progress, stack, requests, awaiting, failure, kinds>>

-----------------------------------------------------------------------------
(* ingest_struct: what a struct is, from what is recorded of its fields.   *)
(* The first field in trouble decides; a trouble of the whole type, found  *)
(* after the fields, speaks in its place.                                  *)

Troubled(n) == results[n].state \in {"absent", "unsafe"}

FieldTrouble(api) ==
    LET deps == FieldDependencies(api)
        bad == {i \in 1 .. Len(deps) : Troubled(deps[i])}
        first == deps[CHOOSE i \in bad : \A j \in bad : i <= j]
    IN IF bad = {} THEN NoCause
       ELSE IF results[first].state = "absent" THEN [type |-> first, why |-> "unknown"]
       ELSE results[first].cause

Trouble(api) ==
    IF "virtual base" \in api.facts THEN [type |-> api.name, why |-> "virtual base"]
    ELSE IF "bases as bytes" \in api.facts THEN [type |-> api.name, why |-> "bases as bytes"]
    ELSE IF "vtable" \in api.facts THEN [type |-> api.name, why |-> "vtable"]
    ELSE IF FieldTrouble(api) # NoCause THEN FieldTrouble(api)
    ELSE IF "volatile bitfield" \in api.facts THEN [type |-> api.name, why |-> "volatile bitfield"]
    ELSE NoCause

Ingested(api) ==
    Record(IF Trouble(api) = NoCause THEN "safe" ELSE "unsafe", Opaque,
           FieldDependencies(api), Trouble(api))

IngestStruct ==
    /\ phase = "ingest" /\ at <= Len(order)
    /\ LET api == program.apis[order[at]]
       IN results' = [results EXCEPT ![api.name] = Ingested(api)]
    /\ at' = at + 1
    /\ UNCHANGED <<program, phase, order, progress, stack, requests, awaiting, failure, kinds>>

(* The requests are collected in the order of the directives; the last is  *)
(* met first.                                                              *)
EndIngest ==
    /\ phase = "ingest" /\ at > Len(order)
    /\ phase' = "requests" /\ at' = 1
    /\ requests' = [i \in 1 .. Len(program.pods) |-> Resolve(program.pods[i])]
    /\ UNCHANGED <<program, results, order, progress, stack, awaiting, failure, kinds>>

-----------------------------------------------------------------------------
(* satisfy_requests: one turn of the loop, by what the popped type is.     *)

Popped == Last(requests)

Popping == phase = "requests" /\ requests # <<>>

Refuse(cause) ==
    /\ failure' = cause
    /\ phase' = "refused"
    /\ UNCHANGED <<program, at, results, order, progress, stack, requests, awaiting, kinds>>

RefuseUnknown ==
    /\ Popping /\ results[Popped].state = "absent"
    /\ Refuse([type |-> Popped, why |-> "unknown"])

RefuseUnsafe ==
    /\ Popping /\ results[Popped].state = "unsafe"
    /\ Refuse(results[Popped].cause)

AlreadyPod ==
    /\ Popping /\ results[Popped].state = "pod"
    /\ requests' = Front(requests)
    /\ UNCHANGED <<program, phase, at, results, order, progress, stack, awaiting, failure, kinds>>

(* Mutant of MakePod: what the struct holds taken for granted. *)
Mut_MakePod ==
    /\ Popping /\ results[Popped].state = "safe"
    /\ results' = [results EXCEPT ![Popped].state = "pod"]
    /\ requests' = Front(requests)
    /\ UNCHANGED <<program, phase, at, order, progress, stack, awaiting, failure, kinds>>

MakePod ==
    /\ Popping /\ results[Popped].state = "safe"
    /\ results' = [results EXCEPT ![Popped].state = "pod"]
    /\ requests' = Front(requests) \o results[Popped].deps
    /\ UNCHANGED <<program, phase, at, order, progress, stack, awaiting, failure, kinds>>

(* A typedef whose target is settled takes its target's state and is met   *)
(* again; one whose target is not waits behind it.                         *)
Aim == results[results[Popped].target]

(* Mutant of AdoptTarget: POD as soon as the target could be. *)
Mut_AdoptTarget ==
    /\ Popping /\ results[Popped].state = "alias"
    /\ Aim.state \in {"pod", "unsafe", "safe"}
    /\ results' = [results EXCEPT ![Popped] =
                      Record(IF Aim.state = "unsafe" THEN "unsafe" ELSE "pod",
                             results[Popped].target, <<>>, Aim.cause)]
    /\ UNCHANGED <<program, phase, at, order, progress, stack, requests, awaiting, failure, kinds>>

AdoptTarget ==
    /\ Popping /\ results[Popped].state = "alias"
    /\ Aim.state \in {"pod", "unsafe"}
    /\ results' = [results EXCEPT ![Popped] =
                      Record(Aim.state, results[Popped].target, <<>>, Aim.cause)]
    /\ UNCHANGED <<program, phase, at, order, progress, stack, requests, awaiting, failure, kinds>>

(* Mutant of AwaitTarget: a typedef forgotten once it waits. *)
Mut_AwaitTarget ==
    /\ Popping /\ results[Popped].state = "alias"
    /\ Aim.state \in {"safe", "alias"}
    /\ requests' = Front(requests) \o <<results[Popped].target>>
    /\ UNCHANGED <<program, phase, at, results, order, progress, stack, awaiting, failure, kinds>>

AwaitTarget ==
    /\ Popping /\ results[Popped].state = "alias"
    /\ Aim.state \in {"safe", "alias"} /\ Popped \notin awaiting
    /\ awaiting' = awaiting \cup {Popped}
    /\ requests' = Append(requests, results[Popped].target)
    /\ UNCHANGED <<program, phase, at, results, order, progress, stack, failure, kinds>>

RefuseCircle ==
    /\ Popping /\ results[Popped].state = "alias"
    /\ Aim.state \in {"safe", "alias"} /\ Popped \in awaiting
    /\ Refuse([type |-> Popped, why |-> "circular"])

RefuseUnknownTarget ==
    /\ Popping /\ results[Popped].state = "alias" /\ Aim.state = "absent"
    /\ Refuse([type |-> results[Popped].target, why |-> "unknown"])

EndRequests ==
    /\ phase = "requests" /\ requests = <<>>
    /\ phase' = "analyze" /\ at' = 1
    /\ UNCHANGED <<program, results, order, progress, stack, requests, awaiting, failure, kinds>>

-----------------------------------------------------------------------------
(* analyze_pod_apis: each struct becomes POD, opaque or neither; it or an  *)
(* enum may instead be reported and ignored.                               *)

KindOf(api) ==
    IF api.kind \notin {"struct", "enum"} THEN kinds[api.name]
    ELSE IF "refused" \in api.facts THEN "ignored"
    ELSE IF api.kind = "enum" THEN "enum"
    ELSE IF "blob" \in api.facts THEN "opaque"
    ELSE IF results[api.name].state # "pod" THEN "non-pod"
    ELSE IF api.facts \cap {"rvalue field", "unconverted field"} # {} THEN "ignored"
    ELSE "pod"

AnalyzeApi ==
    /\ phase = "analyze" /\ at <= Len(program.apis)
    /\ LET api == program.apis[at]
       IN kinds' = [kinds EXCEPT ![api.name] = KindOf(api)]
    /\ at' = at + 1
    /\ UNCHANGED <<program, phase, results, order, progress, stack, requests, awaiting, failure>>

EndAnalyze ==
    /\ phase = "analyze" /\ at > Len(program.apis)
    /\ phase' = "done"
    /\ UNCHANGED <<program, at, results, order, progress, stack, requests, awaiting, failure, kinds>>

(* pod_safe_types: what later passes let a signature hold by value. *)
PodSafeTypes ==
    {n \in Name : kinds[n] \in {"pod", "enum"}} \cup KnownSafe
    \cup {api.name : api \in {a \in Range(program.apis) : a.kind = "pod elsewhere"}}

Next ==
    \/ ScanApi \/ EndScan
    \/ NextRoot \/ GoDown \/ PassOver \/ ComeBackUp \/ EndOrder
    \/ IngestStruct \/ EndIngest
    \/ RefuseUnknown \/ RefuseUnsafe \/ AlreadyPod \/ MakePod
    \/ AdoptTarget \/ AwaitTarget \/ RefuseCircle \/ RefuseUnknownTarget \/ EndRequests
    \/ AnalyzeApi \/ EndAnalyze

Spec == Init /\ [][Next]_vars /\ WF_vars(Next)

-----------------------------------------------------------------------------
(* What a library holds by value, read off it with no loop and no order.   *)

Apis == Range(program.apis)

Within(api) ==
    IF IsStruct(api) THEN Range(FieldDependencies(api))
    ELSE IF api.kind = "alias" THEN {Substitute[api.target]}
    ELSE {}

(* What a type holds, and what it does as nothing but another name for it. *)
Holding(prog) ==
    [n \in Name |-> UNION {Within(api) : api \in {a \in Range(prog.apis) : a.name = n}}]
Naming(prog) ==
    [n \in Name |-> UNION {Within(api) : api \in {a \in Range(prog.apis) : a.name = n /\ a.kind = "alias"}}]

Holds(n) == Holding(program)[n]
NamedBy(n) == Naming(program)[n]

Wanted == {Resolve(program.pods[i]) : i \in 1 .. Len(program.pods)}

IsAlias(n) == \E api \in Apis : api.name = n /\ api.kind = "alias"

(* What is met from a set of types by taking steps, any number of them. *)
Closure(types, step) ==
    LET upTo[k \in Nat] ==
            IF k = 0 THEN types
            ELSE LET near == upTo[k - 1] IN near \cup UNION {step[n] : n \in near}
    IN upTo[Cardinality(Name)]

Reached == Closure(Wanted, Holding(program))

Defined == {api.name : api \in {a \in Apis : a.kind # "other"}}

(* The reasons for which a type itself, whatever it holds, cannot be held. *)
Flaws(n) ==
    {fact \in {"vtable", "virtual base", "volatile bitfield", "bases as bytes"} :
        \E api \in Apis : api.name = n /\ IsStruct(api) /\ fact \in api.facts}
    \cup {"complex typedef" : api \in {a \in Apis : a.name = n /\ a.kind = "complex"}}
    \cup {"circular" : m \in Closure(NamedBy(n), Naming(program)) \cap {n}}
    \cup IF n \in Defined THEN {}
         ELSE IF n \in program.blocklist THEN {"blocklisted"}
         ELSE IF n \in KnownUnsafe THEN {"known unsafe"}
         ELSE IF n \in KnownSafe THEN {}
         ELSE {"unknown"}

(* What C++ and bindgen see to of every library: no type is part of itself,  *)
(* and a class bindgen gives up on is a field of no name (its patch 06).     *)
NothingHoldsItself ==
    \A prog \in Programs : \A p \in Places(prog) :
        LET n == prog.apis[p].name
        IN IsStruct(prog.apis[p]) => n \notin Closure(Holding(prog)[n], Holding(prog))

BlobsAreUnnamed ==
    \A prog \in Programs : \A p \in Places(prog) :
        /\ prog.apis[p].name # Opaque
        /\ IsStruct(prog.apis[p]) /\ "blob" \in prog.apis[p].facts =>
               \E i \in DOMAIN prog.apis[p].fields :
                   prog.apis[p].fields[i] = [shape |-> "plain", of |-> Opaque]

States == {"absent", "pod", "safe", "unsafe", "alias"}

Causes == [type : Name,
           why : {"none", "blocklisted", "known unsafe", "complex typedef", "unknown", "circular",
                  "virtual base", "bases as bytes", "vtable", "volatile bitfield"}]

(* Type invariant of ByValueChecker and of the loops over it. *)
TypeOK ==
    /\ program \in Program
    /\ phase \in {"scan", "order", "ingest", "requests", "refused", "analyze", "done"}
    /\ at \in Nat \ {0}
    /\ results \in [Name -> [state : States, target : Name, deps : Seq(Name), cause : Causes]]
    /\ progress \in [Structs -> {"unseen", "under way", "ordered"}]
    /\ order \in Seq(Structs)
    /\ stack \in Seq([place : Structs, up : BOOLEAN])
    /\ requests \in Seq(Name) /\ awaiting \subseteq Name
    /\ failure \in Causes
    /\ kinds \in [Name -> {"none", "ignored", "enum", "opaque", "non-pod", "pod"}]

(* Once satisfy_requests returns, what was asked for is POD, and so is     *)
(* everything it holds by value, to any depth, through arrays and          *)
(* typedefs: a typedef settled too early or a request left on the stack    *)
(* would break it.                                                         *)
PodIsClosed ==
    phase \in {"analyze", "done"} =>
        /\ \A n \in Wanted : results[n].state = "pod"
        /\ \A n \in Name : results[n].state = "pod" =>
              \A m \in Holds(n) : results[m].state = "pod"

(* The checker neither grants nor refuses wrongly, whatever order the      *)
(* headers put the definitions in: nothing becomes POD which has a flaw or *)
(* which no request holds, and an UnsafePodType error names a flaw of      *)
(* something a request really holds.                                       *)
VerdictIsJust ==
    /\ phase = "refused" => failure.type \in Reached /\ failure.why \in Flaws(failure.type)
    /\ phase \in {"analyze", "done"} =>
          \A n \in Name : results[n].state = "pod" =>
              /\ Flaws(n) = {}
              /\ \/ n \in Reached
                 \/ Initially(program.blocklist)[n].state = "pod"
                 \/ \E api \in Apis : api.name = n /\ api.kind \in {"pointer alias", "enum", "pod elsewhere"}

(* pod_safe_types, which every later pass asks, agrees with the checker    *)
(* about the inside of a POD: what a struct of kind Pod holds by value is  *)
(* pod-safe, or was ignored, in which case the filter of ignored           *)
(* dependents drops the struct; it is never bound as something opaque.     *)
PodHoldsPod ==
    phase = "done" =>
        \A api \in Apis : IsStruct(api) /\ kinds[api.name] = "pod" =>
            \A n \in Closure(Holds(api.name), Naming(program)) :
                \/ kinds[n] = "ignored" \/ n \in PodSafeTypes \/ IsAlias(n)
                \/ \E a \in Apis : a.name = n /\ a.kind = "pointer alias"

(* What was asked for as POD is POD all the way down, to the checker and   *)
(* to everything which asks it.                                            *)
PodAllTheWayDown == PodIsClosed /\ PodHoldsPod

(* Both worklists run dry, over typedefs which go in circles and structs   *)
(* which, after a clash of flattened names, seem to hold each other.       *)
Terminates == <>(phase \in {"refused", "done"})
================================================================================

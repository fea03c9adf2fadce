--------------------------- MODULE FunctionAnalysis ---------------------------
(***************************************************************************)
(* FnAnalyzer::analyze_functions (analysis/fun/mod.rs): every function of  *)
(* the library is analysed once, in the order bindgen reported it, and     *)
(* brings with it what its class's Rust subclasses need; then members are  *)
(* imported through using declarations and from bases, members of template *)
(* instantiations bound, what cannot be bound noted, special members       *)
(* synthesized and the subclasses given constructors.  All of them take    *)
(* their names from the same two trackers.                                 *)
(***************************************************************************)
EXTENDS SynthesizedFunctions

CONSTANT Programs       \* the libraries to analyse

ASSUME ProgramsAssumption == Programs # {}

VARIABLES
    phase, todo,        \* the pass, and the work it has left
    overloads,          \* OverloadTracker: the names taken in each scope
    bridge,             \* BridgeNameTracker: how often each prefix was used
    peerNames,          \* cpp_names_taken_on_peer_classes
    traitItems,         \* existing_superclass_trait_api_names
    apis                \* the ApiVec built so far

vars == <<program, phase, todo, overloads, bridge, peerNames, traitItems, apis>>

-----------------------------------------------------------------------------
(* What is asked of a class hierarchy before a base's member is bound for a *)
(* deriving class: is the base one subobject, and is it where C++ would     *)
(* find the name.  An ancestry gives each class its bases, those which are  *)
(* public, and whether one could not be named.  Neither walk assumes it is  *)
(* acyclic: each gives up at a depth no acyclic ancestry reaches.           *)

Parents(here, inheritance) == IF inheritance = "any" THEN here.bases ELSE here.publicBases

(* Paths: "none", "one" or "unusable". *)
PathsThrough(found) ==
    LET leading == {b \in DOMAIN found : found[b] # "none"}
    IN IF \E b \in leading : found[b] = "unusable" THEN "unusable"
       ELSE CASE Cardinality(leading) = 0 -> "none"
              [] Cardinality(leading) = 1 -> "one"
              [] OTHER -> "unusable"

ReachedExactlyOnce(ancestry, derived, ancestor, inheritance) ==
    LET walk[depth \in 0..Cardinality(DOMAIN ancestry)] ==
            [class \in DOMAIN ancestry |->
                LET nearer == walk[depth - 1]
                    Through(base) ==
                        IF base = ancestor THEN "one"
                        ELSE IF base \in DOMAIN ancestry THEN nearer[base] ELSE "none"
                IN CASE depth = 0 -> "none"
                     [] depth > 0 /\ ancestry[class].unnamedBase -> "unusable"
                     [] OTHER -> PathsThrough([b \in Parents(ancestry[class], inheritance) |-> Through(b)])]
    IN derived \in DOMAIN ancestry /\ walk[Cardinality(DOMAIN ancestry)][derived] = "one"

(* {} is nothing, {c} is found in c, more is ambiguous; `declaring` are the *)
(* classes which declare the name themselves.                              *)
Ambiguous == {"ambiguous", "lookup"}

LookUpMember(ancestry, declaring, class) ==
    LET depths == Cardinality(DOMAIN ancestry) + 1
        walk[depth \in 0..depths] ==
            [c \in DOMAIN ancestry |->
                LET nearer == walk[depth - 1]
                    Through(base) ==
                        CASE depth = 1 -> Ambiguous
                          [] depth > 1 /\ base \in DOMAIN ancestry -> nearer[base]
                          [] OTHER -> {base} \cap declaring
                IN CASE depth = 0 -> Ambiguous
                     [] depth > 0 /\ c \in declaring -> {c}
                     [] depth > 0 /\ c \notin declaring /\ ancestry[c].unnamedBase -> Ambiguous
                     [] OTHER -> UNION {Through(b) : b \in ancestry[c].bases}]
    IN walk[depths][class]

-----------------------------------------------------------------------------
(* analyze_foreign_fn, but for the two names it takes from the trackers.   *)

Sifted(job, params) ==
    LET good == SelectSeq(params, LAMBDA a : a.err = "none")
        bad == SelectSeq(params, LAMBDA a : a.err # "none")
    IN [params |-> good, bad |-> IF bad = <<>> THEN "none" ELSE Head(bad).err,
        kind |-> KindOf(job.fun, good, IdealRustName(job.fun.ident, job.cpp))]

Considered(job) ==
    Sifted(job, [i \in DOMAIN job.fun.params |->
                    ConvertFnArg(job.fun.params[i], [Plainly EXCEPT !.this = job.fun.this, !.simple = job.simple])])

Improved(params, again) ==
    LET Better(i) == i \in DOMAIN again /\ again[i].err = "none"
    IN [errs |-> [i \in DOMAIN again |-> again[i].err],
        params |-> [i \in DOMAIN params |-> IF Better(i) THEN again[i] ELSE params[i]]]

Reconsidered(job, considered) ==
    LET how == Reanalyzed(considered.kind, job.fun, job.simple)
    IN Improved(considered.params, [i \in DOMAIN how |-> ConvertFnArg(job.fun.params[i], how[i])])

Diagnostic(job) == IF job.cpp = "none" THEN job.fun.ident ELSE job.cpp
Designated(list, classes, name) == list \cap (classes \X {name}) # {}

IsBlockedByDirective(job, kind) ==
    CASE kind.is = "Function" -> Designated(program.blocked, {job.ns}, Diagnostic(job))
      [] kind.is \in CallableOnAnObject \cup {"Static"} ->
            Designated(program.blocked, Spellings(kind.of), Diagnostic(job))
      [] OTHER -> FALSE

MayThrow(job, kind) ==
    /\ kind.is \notin TraitMethods
    /\ \/ Designated(program.throws, IF kind.is = "Function" THEN {job.ns} ELSE Spellings(kind.of), Diagnostic(job))
       \/ /\ job.fun.body.is = "base class method"
          /\ Designated(program.throws, Spellings(job.fun.body.base), job.fun.body.method)

Mut_WrapperFunctionNeeded(job, kind, renamed, params, r) ==
    \/ kind.is \in {"Static", "Constructor", "Virtual", "PureVirtual", "Destructor"} \cup Constructors
    \/ kind.is \in Methods /\ renamed
    \/ \E i \in DOMAIN params : CppWorkNeeded(params[i].policy)
    \/ CppWorkNeeded(r.policy) \/ r.wasVolatile
    \/ job.fun.body.is # "none" \/ program.forceWrappers
WrapperFunctionNeeded(job, kind, renamed, params, r) ==
    \/ kind.is \in {"Static", "Constructor", "Virtual", "PureVirtual", "Destructor"} \cup Constructors
    \/ kind.is \in Methods /\ renamed
    \/ job.fun.refq = "&"
    \/ \E i \in DOMAIN params : CppWorkNeeded(params[i].policy) \/ PointeeWasVolatile(params[i].policy)
    \/ CppWorkNeeded(r.policy) \/ r.wasConst \/ r.wasVolatile
    \/ job.fun.deprecated \/ job.cpp \in program.reservedWords
    \/ job.fun.body.is # "none" \/ program.forceWrappers

Payload(job, kind, called) ==
    CASE job.fun.body.is # "none" -> job.fun.body
      [] job.fun.body.is = "none" /\ kind.is \in {"Constructor"} \cup Constructors ->
            Body("placement new", kind.of, "none", "constructor")
      [] job.fun.body.is = "none" /\ kind.is = "Destructor" -> Body("destroy", kind.of, "none", "function")
      [] job.fun.body.is = "none" /\ kind.is = "Static" -> Body("static call", kind.of, called, "function")
      [] OTHER -> Body("call", "none", called, IF kind.is \in Methods THEN "method" ELSE "function")

ErrorContext(job, kind) == IF kind.is \in {"Function", "Cast", "Alloc", "Dealloc"} THEN "item" ELSE kind.of

Assembled(job, considered, again, r, rust, bridgeName, ordinal) ==
    LET kind == considered.kind
        params == again.params \o r.into
        renamed == bridgeName # rust
        wrapped == WrapperFunctionNeeded(job, kind, renamed, params, r)
        name == IF wrapped THEN WrapperName(bridgeName) ELSE bridgeName
        rustWrapper == \/ \E i \in DOMAIN params : RustWorkNeeded(params[i].policy)
                       \/ RustWorkNeeded(r.policy) \/ kind.is \in TraitMethods
                       \/ kind.is \in Methods /\ name # rust
                       \/ kind.is = "Function" /\ (job.fun.deprecated \/ program.forceWrappers)
        errs == <<If(kind.is \in Constructors /\ Len(considered.params) # 2, "constructor arity")>> \o again.errs
                \o <<If(job.fun.vis = "private", "private"), If(job.fun.variadic, "variadic"),
                     DeclarationError(job.fun, kind, considered.bad), r.err>>
                \o ReferenceErrors(job.fun, r, params)
                \o <<If(name \in program.invalidIdents, "invalid identifier"),
                     If(IsBlockedByDirective(job, kind), "blocked")>>
    IN [name |-> <<job.ns, name>>, kind |-> "function", err |-> LastOf(errs), lookup |-> <<job.ns, name>>,
        fun |-> job.fun, cpp |-> job.cpp, is |-> kind, class |-> ErrorContext(job, kind),
        rust |-> rust, bridge |-> name, ordinal |-> ordinal,
        callName |-> IF job.cpp = "none" /\ renamed THEN rust ELSE job.cpp,
        params |-> params, ret |-> r,
        retType |-> IF wrapped /\ PopulatesReturnValue(r.policy) THEN UnconvertedRustType(r.policy) ELSE r.ty,
        wrapped |-> wrapped,
        payload |-> IF wrapped THEN Payload(job, kind, IF job.cpp = "none" THEN rust ELSE job.cpp) ELSE NoBody,
        rustWrapper |-> rustWrapper,
        renaming |-> CASE rustWrapper -> "wrapper function"
                       [] ~rustWrapper /\ kind.is = "Function" /\ name # rust -> "output mod"
                       [] OTHER -> "none",
        callable |-> job.fun.vis = "public", mayThrow |-> MayThrow(job, kind),
        deps |-> {considered.params[i].of : i \in DOMAIN considered.params} \cup r.deps,
        unsafe |-> ShouldBeUnsafe(params, kind)]

Analyzed(job, considered, rust, bridgeName, ordinal) ==
    Assembled(job, considered, Reconsidered(job, considered), ConvertReturnType(job.fun.ret, job.simple),
              rust, bridgeName, ordinal)

(* The analysis with the name it takes in the bridge, and what that leaves *)
(* the tracker with.                                                       *)
JobKind(job) == Considered(job).kind
UnderName(job, considered, rust, named, ordinal) ==
    [api |-> Analyzed(job, considered, rust, named.name, ordinal), counts |-> named.counts]
InBridge(job, considered, rust, counts, ordinal) ==
    UnderName(job, considered, rust, UniqueBridgeName(counts, ClassOf(considered.kind), rust, job.ns), ordinal)

-----------------------------------------------------------------------------
(* What the Rust subclasses of a virtual method's class need of it         *)
(* (analyze_foreign_fn_and_subclasses and subclass.rs).                    *)

SubsOf(class) == IF class \in DOMAIN program.subclasses THEN program.subclasses[class] ELSE <<>>
Holder(sub) == sub \o "Holder"
CppNameOf(api) == IF api.cpp = "none" THEN api.name[2] ELSE api.cpp

FromSubclassParams(params) ==
    IF program.policy = "all functions unsafe" THEN "always" ELSE FromParamDetails(params, FALSE)

(* create_subclass_fn_wrapper: the peer's means of calling the superclass. *)
SuperFunction(sub, super, api) ==
    LET fun == api.fun
    IN [Analyze("", api.bridge \o "_super", super,
                [FuncToConvert(super, PeerClass(sub), fun.params, fun.ret) EXCEPT
                    !.this = PeerClass(sub), !.trait = fun.trait, !.deleted = fun.deleted,
                    !.deprecated = fun.deprecated, !.variadic = fun.variadic, !.refq = fun.refq])
        EXCEPT !.rust = api.rust \o "_super", !.simple = TRUE]

(* create_subclass_function: what the peer overrides the method with. *)
SubclassFunction(sub, api, simpler, super, deps) ==
    GeneratedName("", sub \o "_" \o api.name[2]) @@
    [kind |-> "subclass function", of |-> sub, superclass |-> api.is.of, method |-> simpler.rust,
     overrides |-> CppNameOf(api), fun |-> api.fun, const |-> ~api.is.mut,
     params |-> Tail(simpler.params), ret |-> simpler.ret, retType |-> simpler.retType,
     super |-> super, deps |-> deps, unsafe |-> FromSubclassParams(simpler.params)]

TraitItemName(api) == <<Holding(api.is.of).ns, api.is.of \o "_" \o api.rust \o "_trait_item">>

(* create_subclass_trait_item. *)
TraitItem(api, simpler, hasSuper) ==
    GeneratedName(TraitItemName(api)[1], TraitItemName(api)[2]) @@
    [kind |-> "trait item", of |-> api.is.of, method |-> simpler.rust, params |-> simpler.params,
     ret |-> simpler.ret, hasSuper |-> hasSuper, unsafe |-> FromSubclassParams(simpler.params),
     returnsNew |-> \E i \in DOMAIN api.params : api.params[i].placement]

(* get_cpp_super_fn_name: a name no virtual method has, marked as often as *)
(* that takes.                                                             *)
Mut_SuperName(rust) == rust \o "_super"
SuperName(rust) ==
    LET marked[n \in 0..(Cardinality(peerNames) + 1)] == IF n = 0 THEN rust ELSE marked[n - 1] \o "_autocxx"
        Free(n) == marked[n] \o "_super" \notin peerNames
    IN marked[CHOOSE n \in 1..(Cardinality(peerNames) + 1) :
                 Free(n) /\ \A m \in 1..(n - 1) : ~Free(m)] \o "_super"

Mut_IsOverridable(api) == api.is.is \in {"Virtual", "PureVirtual"}
IsOverridable(api) == api.is.is \in {"Virtual", "PureVirtual"} /\ api.err # "blocked"
HasSuperHelper(api) == api.is.is = "Virtual" /\ api.fun.vis # "private" /\ SubsOf(api.is.of) # <<>>

(* One subclass's share, after the others': `so` has the bridge's counts,  *)
(* the trait items known and the APIs made.                                *)
SubclassApis(so, sub, api, simpler, super, helpers, counts) ==
    [counts |-> counts,
     items |-> so.items \cup {TraitItemName(api)},
     made |-> PushAll(so.made,
                  helpers
                  \o <<SubclassFunction(sub, api, simpler, super,
                                        <<TraitItemName(api)>> \o [i \in DOMAIN helpers |-> helpers[i].name])>>
                  \o (IF TraitItemName(api) \in so.items THEN <<>> ELSE <<TraitItem(api, simpler, super # "none")>>))]

Helped(so, sub, api, simpler, super, helper) ==
    SubclassApis(so, sub, api, simpler, super, <<helper.api>>, helper.counts)

SuperHelper(job, rust, counts) == InBridge(job, Considered(job), rust, counts, "none")

ForSubclass(so, sub, api, simpler, super) ==
    IF api.fun.exceptions = "unreproducible"
    THEN [so EXCEPT !.made = Push(@, Ignored(<<"", sub \o "_" \o api.name[2]>>,
                                             "unreproducible exception specification", api.name))]
    ELSE IF super = "none" THEN SubclassApis(so, sub, api, simpler, super, <<>>, so.counts)
    ELSE Helped(so, sub, api, simpler, super,
                SuperHelper(SuperFunction(sub, super, api), api.rust \o "_super", so.counts))

(* The same method once more, with the simplest parameters. *)
Simpler(again, rust, counts) == InBridge(again, Considered(again), rust, counts, "none")

Overriding(api, simpler, super) ==
    FoldLeft(LAMBDA so, sub : ForSubclass(so, sub, api, simpler.api, super),
             [counts |-> simpler.counts, items |-> traitItems, made |-> <<>>], SubsOf(api.is.of))

ForSubclasses(job, first) ==
    LET api == first.api
    IN IF IsOverridable(api)
       THEN Overriding(api, Simpler([job EXCEPT !.id = api.name[2], !.simple = TRUE, !.rust = api.rust],
                                    api.rust, first.counts),
                       IF HasSuperHelper(api) THEN SuperName(api.rust) ELSE "none")
       ELSE [counts |-> first.counts, items |-> traitItems, made |-> <<>>]

-----------------------------------------------------------------------------
(* The passes, each with the work it finds in what the last one left.      *)

Passes == <<"declared", "using declarations", "inherited members", "template members", "template notes",
            "operator notes", "special members", "subclass constructors", "done">>
After(pass) == Passes[(CHOOSE i \in DOMAIN Passes : Passes[i] = pass) + 1]

JobsOf(seq, Jobs(_)) == FlattenSeq([i \in DOMAIN seq |-> Jobs(seq[i])])
When(condition, job) == IF condition THEN <<job>> ELSE <<>>

IsStruct(api) == api.kind = "struct"
IsMethod(api) == api.kind = "function" /\ api.is.is \in Methods
Callable(api) == IsMethod(api) /\ api.is.is \in CallableOnAnObject
TypeOf(api) == api.name[2]
StructApis == SelectSeq(apis, IsStruct)
Ancestry == [t \in Structs |-> Holding(t)]

MethodsNamed(class, name) ==
    {i \in DOMAIN apis : IsMethod(apis[i]) /\ apis[i].is.of = class /\ CppNameOf(apis[i]) = name}
IsMergedSet(api) == Cardinality(MethodsNamed(api.is.of, CppNameOf(api))) # 1

(* import_member_into: a base's method, bound once more on `importer`.     *)
Import(importer, vis, api, body) ==
    Analyze(Holding(importer).ns, importer \o "_" \o api.name[2], api.cpp,
            [api.fun EXCEPT !.from = "synthesized", !.vis = vis, !.selfTy = importer, !.this = importer,
                            !.virtual = "Normal", !.special = "none", !.body = body])

(* add_using_declaration_imports, for the declarations whose effect is     *)
(* sure (build_using_declarations_by_base).                                *)
UsingsOf(class, name) == SelectSeq(Holding(class).usings, LAMBDA using : using.name = name)
HasUsing(class, name) == class \in Structs /\ name # class /\ UsingsOf(class, name) # <<>>

ImportsByUsing(class, base, name) ==
    /\ HasUsing(class, name) /\ Len(UsingsOf(class, name)) = 1
    /\ Head(UsingsOf(class, name)).base = base
    /\ ReachedExactlyOnce(Ancestry, class, base, "any")
    /\ ~HasUsing(base, name)

UsingImports ==
    JobsOf(apis, LAMBDA api :
        IF Callable(api) /\ api.err # "blocked" /\ ~IsMergedSet(api)
        THEN LET name == CppNameOf(api)
             IN JobsOf(StructApis, LAMBDA struct :
                    LET class == TypeOf(struct)
                    IN When(ImportsByUsing(class, api.is.of, name) /\ MethodsNamed(class, name) = {},
                            Import(class, Head(UsingsOf(class, name)).vis, api,
                                   Body("call", "none", name, "method"))))
        ELSE <<>>)

(* add_inherited_member_imports: the names each class declares, as far as  *)
(* the APIs tell.                                                          *)
Unmangled(field) == IF EndsWithUnderscore(field) THEN {SubSeq(field, 1, Len(field) - 1)} ELSE {}

DeclaredNames(class) ==
    {CppNameOf(apis[i]) : i \in {j \in DOMAIN apis : IsMethod(apis[j]) /\ apis[j].is.of = class}}
    \cup IF class \notin Structs THEN {}
         ELSE Holding(class).fields \cup UNION {Unmangled(f) : f \in Holding(class).fields}
              \cup {Holding(class).usings[i].name : i \in DOMAIN Holding(class).usings}
              \cup UNION {Holding(e).variants : e \in {e \in Enums : Holding(e).within = class /\ ~Holding(e).scoped}}

HasCppNameOfItsOwn(api) ==
    CASE api.kind = "function" -> api.cpp # "none"
      [] api.kind \in {"struct", "enum"} -> Holding(TypeOf(api)).cpp = "own"
      [] OTHER -> FALSE
FlatScope == {apis[i].name : i \in {j \in DOMAIN apis : ~HasCppNameOfItsOwn(apis[j])}}

IsImporter(class) ==
    /\ Holding(class).publicBases # {} /\ IsOnAllowlist(class)
    /\ class \notin GenericTypes \cup TypesInAnonymousNamespace /\ ~IsKnownType(class)

MayBeInherited(api) ==
    /\ Callable(api) /\ api.fun.vis = "public" /\ api.fun.from = "bindgen"
    /\ api.params # <<>> /\ Head(api.params).self # "none"
    /\ api.err \in {"none", "method of non-allowlisted type"}
    /\ api.is.of \in Structs /\ Holding(api.is.of).cpp # "none"

Mut_ResolvesTo(base, class, name) == TRUE
ResolvesTo(base, class, name) ==
    LET declared == [c \in Structs |-> DeclaredNames(c)]
        scope == FlatScope
        declaring == {c \in Structs : name \in declared[c] \/ <<Holding(c).ns, c \o "_" \o name>> \in scope}
    IN LookUpMember(Ancestry, declaring, class) = {base}

Inherits(class, api) ==
    /\ IsImporter(class) /\ class # api.is.of
    /\ \A inheritance \in {"any", "public"} : ReachedExactlyOnce(Ancestry, class, api.is.of, inheritance)
    /\ ResolvesTo(api.is.of, class, CppNameOf(api))

Inherited ==
    JobsOf(apis, LAMBDA api :
        IF MayBeInherited(api)
        THEN JobsOf(StructApis, LAMBDA struct :
                 When(Inherits(TypeOf(struct), api), [class |-> TypeOf(struct), api |-> api]))
        ELSE <<>>)

NoteRustName(cpp) == IF cpp \in program.unspellable THEN "none" ELSE IdealRustName(cpp, cpp)

InheritedImports ==
    LET Merged(found) == UsingsOf(found.api.is.of, CppNameOf(found.api)) # <<>>
        Declined(found) == Merged(found) \/ IsMergedSet(found.api)
        declined == SelectSeq(Inherited, LAMBDA found : Declined(found) /\ found.api.cpp # "none")
        IsFirst(i) == \A j \in 1..(i - 1) : <<declined[j].class, declined[j].api.cpp>>
                                              # <<declined[i].class, declined[i].api.cpp>>
    IN JobsOf(Inherited, LAMBDA found :
           When(~Declined(found),
                Import(found.class, "public", found.api,
                       Body("base class method", found.api.is.of, CppNameOf(found.api), "method"))))
       \o JobsOf([i \in DOMAIN declined |-> i], LAMBDA i :
           When(IsFirst(i) /\ NoteRustName(declined[i].api.cpp) # "none",
                Note(declined[i].class, FALSE, declined[i].class \o "_" \o declined[i].api.name[2],
                     NoteRustName(declined[i].api.cpp), "none",
                     IF Merged(declined[i]) THEN "inherited merged name"
                     ELSE "inherited overload set")))

(* Members of the instantiations the user called instantiable!             *)
Instantiations ==
    SelectSeq(apis, LAMBDA api : api.kind = "concrete" /\ TypeOf(api) \in program.instantiable)
MembersOf(members, template) == IF template \in DOMAIN members THEN members[template] ELSE <<>>

TemplateMember(class, member, ident) ==
    [FuncToConvert(ident, class, (IF member.kind = "static" THEN <<>> ELSE <<This(class, ~member.const)>>)
                                 \o member.params, member.ret) EXCEPT
        !.methodKind = "other", !.special = member.special, !.deleted = member.deleted,
        !.refq = member.refq, !.deprecated = member.deprecated, !.variadic = member.variadic,
        !.virtual = IF member.kind \in {"Virtual", "PureVirtual"} THEN member.kind ELSE "Normal",
        !.body = IF member.kind = "static" THEN Body("static call", class, member.name, "function")
                 ELSE Body("call", "none", member.name, "method")]

TemplateMemberJob(class, member, ident) ==
    IF member.err = "none"
    THEN Analyze(Holding(class).ns, ident, member.name, TemplateMember(class, member, ident))
    ELSE Note(class, TRUE, ident, IdealRustName(ident, member.name), member.name, member.err)

TemplateMembers ==
    JobsOf(Instantiations, LAMBDA api :
        LET class == TypeOf(api)
            members == SelectSeq(MembersOf(program.templateMembers, Holding(class).template),
                          LAMBDA m : m.vis = "public" /\ m.kind \notin {"constructor", "destructor"})
            stem(i) == class \o "_" \o members[i].name
            ident[i \in DOMAIN members] ==
                LET earlier == {ident[j] : j \in 1..(i - 1)}
                    Numbered(n) == IF n = 0 THEN stem(i) ELSE stem(i) \o ToString(n)
                    free == {n \in 0..i : Numbered(n) \notin earlier}
                IN Numbered(CHOOSE n \in free : \A m \in free : n <= m)
        IN [i \in DOMAIN members |-> TemplateMemberJob(class, members[i], ident[i])])

(* add_member_function_template_notes and add_operator_notes. *)
TemplateNotes ==
    LET Owned(class, declarer, err) ==
            JobsOf(MembersOf(program.memberTemplates, declarer), LAMBDA m :
                When(m.vis = "public" /\ m.kind # "constructor" /\ NoteRustName(m.name) # "none",
                     Note(class, FALSE, class \o "_" \o m.name, NoteRustName(m.name), m.name, err)))
    IN JobsOf(apis, LAMBDA api :
           CASE IsStruct(api) /\ TypeOf(api) \notin GenericTypes ->
                    Owned(TypeOf(api), TypeOf(api), "member function template")
             [] api.kind = "concrete" /\ TypeOf(api) \in program.instantiable ->
                    Owned(TypeOf(api), Holding(TypeOf(api)).template, "member function template of class template")
             [] OTHER -> <<>>)

OperatorNotes ==
    JobsOf(SelectSeq(StructApis, LAMBDA api : TypeOf(api) \notin GenericTypes), LAMBDA api :
        JobsOf(MembersOf(program.operators, TypeOf(api)), LAMBDA operator :
            When(operator.vis = "public",
                 Note(TypeOf(api), FALSE, TypeOf(api) \o "_" \o operator.is, operator.is, "none", operator.is))))

(* synthesize_special_member, for what find_constructors_present asked for *)
(* (ClassAnalysis says what that is).                                      *)
Synthesized(class, special) ==
    LET label == CASE special = "default" -> "default_ctor"
                   [] special = "move" -> "move_ctor"
                   [] special = "copy" -> "const_copy_ctor"
                   [] OTHER -> special
        other == CASE special = "move" -> <<[name |-> "other", type |-> Written("rref", class, TRUE)]>>
                   [] special = "copy" -> <<[name |-> "other", type |-> Written("lref", class, FALSE)]>>
                   [] OTHER -> <<>>
        ident == class \o "_synthetic_" \o label
    IN Analyze(Holding(class).ns, ident, IF special = "default" THEN NestedTypeIdent(class) ELSE "none",
               [FuncToConvert(ident, class, <<This(class, TRUE)>> \o other, NoReturn) EXCEPT !.special = special])

SpecialMembers == JobsOf(program.implicit, LAMBDA item : <<Synthesized(item.class, item.special)>>)

(* add_subclass_constructors: one for every constructor of a superclass    *)
(* whose destructor the peer can call (create_subclass_constructor).       *)
IsUsableDestructor(api) ==
    /\ api.kind = "function" /\ api.is.is \in TraitMethods /\ api.err = "none"
    /\ api.fun.special = "destructor" /\ api.fun.deleted \in {"none", "defaulted"}
DestructorVisibility(class) ==
    {apis[i].fun.vis : i \in {j \in DOMAIN apis : IsUsableDestructor(apis[j]) /\ apis[j].is.of = class}}

SubclassConstructor(sub, api) ==
    LET peer == PeerClass(sub)
        ident == peer \o "_" \o peer
        fun == api.fun
        holder == Written("holder", Holder(sub), TRUE)
        policies == [i \in DOMAIN Tail(api.params) |-> Tail(api.params)[i].policy]
    IN Analyze("", ident, peer,
               [FuncToConvert(ident, peer,
                              <<[fun.params[1] EXCEPT !.type.of = peer], [name |-> "peer", type |-> holder]>>
                              \o Tail(fun.params), fun.ret) EXCEPT
                   !.special = fun.special, !.this = peer, !.deleted = fun.deleted,
                   !.deprecated = fun.deprecated, !.variadic = fun.variadic, !.from = "subclass constructor",
                   !.constructs = [superclass |-> api.is.of, trivial |-> Len(api.params) = 1,
                                   arguments |-> <<Unconverted(PathTo(Holder(sub)))>> \o policies]])

SubclassConstructors ==
    JobsOf(apis, LAMBDA api :
        IF IsMethod(api) /\ api.is.is = "Constructor" /\ DestructorVisibility(api.is.of) \cap {"public", "protected"} # {}
        THEN JobsOf(SubsOf(api.is.of), LAMBDA sub : <<SubclassConstructor(sub, api)>>)
        ELSE <<>>)
    \o JobsOf(apis, LAMBDA api : <<Keep(api)>>)

Work(pass) ==
    CASE pass = "using declarations" -> UsingImports
      [] pass = "inherited members" -> InheritedImports
      [] pass = "template members" -> TemplateMembers
      [] pass = "template notes" -> TemplateNotes
      [] pass = "operator notes" -> OperatorNotes
      [] pass = "special members" -> SpecialMembers
      [] pass = "subclass constructors" -> SubclassConstructors
      [] OTHER -> <<>>

-----------------------------------------------------------------------------
(* The next piece of work, or the next pass.  A name is chosen as the      *)
(* tracker chooses it; what is told in advance is not asked for.           *)

(* A template's members reserve their names before any of them is bound.   *)
ReservedByMember(scopes, job) ==
    IF job.is = "bind" THEN Reserve(scopes, SelfScope(job), IdealRustName(job.fun.ident, job.cpp))
    ELSE Reserve(scopes, <<Holding(job.class).ns, job.class>>, job.wanted)

NextPass ==
    /\ phase # "done" /\ todo = <<>>
    /\ \E pass \in {After(phase)} : \E work \in {Work(pass)} :
          /\ phase' = pass
          /\ todo' = work
          /\ apis' = CASE pass = "special members" -> SelectSeq(apis, LAMBDA api : api.name \notin program.discarded)
                        [] pass = "subclass constructors" -> <<>>
                        [] OTHER -> apis
          /\ overloads' = IF pass = "template members" THEN FoldLeft(ReservedByMember, overloads, work) ELSE overloads
    /\ UNCHANGED <<program, bridge, peerNames, traitItems>>

HasWork(is) == todo # <<>> /\ Head(todo).is = is

KeepApi ==
    /\ HasWork("keep")
    /\ apis' = Push(apis, Head(todo).api)
    /\ todo' = Tail(todo)
    /\ UNCHANGED <<program, phase, overloads, bridge, peerNames, traitItems>>

AddNote ==
    LET job == Head(todo)
        scope == <<Holding(job.class).ns, job.class>>
        own == <<Holding(job.class).ns, job.id>>
    IN /\ HasWork("note")
       /\ \E name \in OverloadNames(ScopeNames(overloads, scope), job.wanted) :
             /\ overloads' = (scope :> Assigned(ScopeNames(overloads, scope), job.wanted, name, job.declared)) @@ overloads
             /\ apis' = Push(apis, [Ignored(IF job.exact THEN own ELSE FirstFreeName(apis, own), job.err, own) EXCEPT
                                      !.lookup = <<job.class, name>>])
       /\ todo' = Tail(todo)
       /\ UNCHANGED <<program, phase, bridge, peerNames, traitItems>>

(* A trait's own functions count as nothing C++ declares. *)
AnalyzeFunction ==
    /\ HasWork("bind")
    /\ \E job \in {Head(todo)} : \E considered \in {Considered(job)} :
       LET kind == considered.kind
           scope == ScopeOf(job, kind)
           names == ScopeNames(overloads, scope)
           wanted == WantedName(job.fun, kind, IdealRustName(job.fun.ident, job.cpp))
           declared == IF kind.is \in {"Cast", "Alloc", "Dealloc"} THEN "none" ELSE DeclaredName(job)
       IN \E rust \in OverloadNames(names, wanted) :
          \E first \in {InBridge(job, considered, rust, bridge, Ordinal(names, wanted, rust, declared))} :
          \E subs \in {ForSubclasses(job, first)} :
             /\ overloads' = (scope :> Assigned(names, wanted, rust, declared)) @@ overloads
             /\ apis' = PushAll(apis, PushAll(<<>>, Append(subs.made, first.api)))
             /\ bridge' = subs.counts
             /\ traitItems' = subs.items
             /\ peerNames' = IF IsOverridable(first.api) /\ HasSuperHelper(first.api)
                             THEN peerNames \cup {SuperName(rust)} ELSE peerNames
    /\ todo' = Tail(todo)
    /\ UNCHANGED <<program, phase>>

Finished == phase = "done" /\ UNCHANGED vars

(* build_virtual_method_cpp_names. *)
VirtualNames(jobs) ==
    LET virtual == SelectSeq(jobs, LAMBDA job : IsBind(job) /\ job.fun.virtual # "Normal")
    IN {IF virtual[i].cpp = "none" THEN virtual[i].id ELSE virtual[i].cpp : i \in DOMAIN virtual}

Init ==
    /\ program \in Programs
    /\ phase = "declared"
    /\ todo = WithSynthesized(program.reported)
    /\ overloads = ReserveIdealNames(todo)
    /\ bridge = << >>
    /\ peerNames = VirtualNames(program.reported)
    /\ traitItems = {}
    /\ apis = <<>>

Next == NextPass \/ KeepApi \/ AddNote \/ AnalyzeFunction \/ Finished

Spec == Init /\ [][Next]_vars

-----------------------------------------------------------------------------
(* Properties of the names. *)

TypeOK ==
    /\ phase \in {Passes[i] : i \in DOMAIN Passes}
    /\ \A i \in DOMAIN todo : todo[i].is \in {"bind", "note", "keep"}
    /\ \A scope \in DOMAIN overloads : DOMAIN overloads[scope] = DOMAIN NewScope
    /\ \A prefix \in DOMAIN bridge : bridge[prefix] > 0
    /\ \A i, j \in DOMAIN apis : i # j => apis[i].name # apis[j].name

Functions == {apis[i] : i \in {j \in DOMAIN apis : apis[j].kind = "function"}}
SubclassFunctions == {apis[i] : i \in {j \in DOMAIN apis : apis[j].kind = "subclass function"}}
ScopeOfApi(api) == ScopeOf([ns |-> api.name[1]], api.is)
Reported == {program.reported[i] : i \in {j \in DOMAIN program.reported : IsBind(program.reported[j])}}

(* Within a namespace, or a class, no two functions answer to one Rust     *)
(* name, whichever pass bound them.                                        *)
RustNamesAreDistinct ==
    \A f, g \in Functions : f # g /\ ScopeOfApi(f) = ScopeOfApi(g) => f.rust # g.rust

(* A function which C++ declares once in its scope is called in Rust what  *)
(* C++ calls it: overloads number themselves around it, even those which   *)
(* come first.                                                             *)
Wants(job) == WantedName(job.fun, JobKind(job), IdealRustName(job.fun.ident, job.cpp))
SoleOfItsNameKeepsIt ==
    \A f \in {f \in Functions : f.fun.from = "bindgen"} :
        LET rivals == {job \in Reported : ScopeOf(job, JobKind(job)) = ScopeOfApi(f) /\ Wants(job) = WantedName(f.fun, f.is, IdealRustName(f.fun.ident, f.cpp))}
        IN Cardinality(rivals) = 1 => f.rust = WantedName(f.fun, f.is, IdealRustName(f.fun.ident, f.cpp))

(* The bridge is flat, so each function's name there is its own, and no    *)
(* two different C++ functions are taken for one item parsed twice         *)
(* (bridge_name_tracker.rs, apivec.rs).                                    *)
BridgeNamesAreUnique ==
    /\ \A f, g \in Functions : f # g => f.bridge # g.bridge
    /\ \A i \in DOMAIN apis : apis[i].err # "duplicate items found in parsing"

(* A base's method bound on a deriving class is the one function C++ finds *)
(* there by that name: what the library really declares says so, and not   *)
(* only the APIs that came of it.                                          *)
MemberNamed(job, class, name) == job.fun.selfTy = class /\ job.cpp = name
ReallyDeclares(class, name) ==
    \/ \E job \in Reported : MemberNamed(job, class, name)
    \/ name \in Holding(class).fields
    \/ \E e \in Enums : Holding(e).within = class /\ ~Holding(e).scoped /\ name \in Holding(e).variants
Chains(class, name) ==
    {chain \in UNION {[1..n -> Structs] : n \in 1..Cardinality(Structs)} :
        /\ chain[1] = class /\ ReallyDeclares(Last(chain), name)
        /\ \A i \in 1..(Len(chain) - 1) : chain[i + 1] \in Holding(chain[i]).bases /\ ~ReallyDeclares(chain[i], name)}

ImportsMeanWhatCppMeans ==
    \A f \in {f \in Functions : f.fun.from = "synthesized" /\ f.fun.this # "none" /\ f.fun.this \in Structs} :
        LET base == CHOOSE class \in Structs : \E job \in Reported : MemberNamed(job, class, f.cpp) /\ job.fun.ident = f.fun.ident
        IN /\ Cardinality({job \in Reported : MemberNamed(job, base, f.cpp)}) = 1
           /\ UsingsOf(base, f.cpp) = <<>>
           /\ \A chain \in Chains(f.is.of, f.cpp) : Last(chain) = base
           /\ Cardinality(Chains(f.is.of, f.cpp)) = 1
           /\ f.fun.body.is = "base class method" =>
                 \A chain \in Chains(f.is.of, f.cpp) : \A i \in 1..(Len(chain) - 1) :
                     chain[i + 1] \in Holding(chain[i]).publicBases

(* A peer class declares the overrides under the superclass's names, and   *)
(* its helpers under names none of those and no other helper has; what     *)
(* each needs is there, and is about the same method.                      *)
PeersDeclareEachNameOnce ==
    \A f, g \in {f \in SubclassFunctions : f.super # "none"} : f.of = g.of =>
        /\ \A job \in Reported : job.fun.virtual # "Normal" => job.cpp # f.super
        /\ f # g => f.super # g.super
        /\ phase # "subclass constructors" =>
              /\ \E helper \in Functions : helper.cpp = f.super /\ helper.is.of = PeerClass(f.of)
              /\ \E i \in DOMAIN apis : /\ apis[i].kind = "trait item" /\ apis[i].name = Head(f.deps)
                                        /\ apis[i].of = f.superclass /\ apis[i].method = f.method

(* A function the user blocked is reached by no route: not itself, not on  *)
(* a deriving class, not overridden or called by a subclass.               *)
IsBlocked(job) == IsBlockedByDirective(job, JobKind(job))
BlockedIsOutOfReach ==
    \A job \in {job \in Reported : IsBlocked(job)} :
        /\ \A f \in Functions : f.fun.ident = job.fun.ident => f.err # "none"
        /\ \A f \in SubclassFunctions : f.fun.ident # job.fun.ident

(* What a class has of another's is what C++ finds there, and nothing the  *)
(* user blocked.                                                           *)
BorrowedFunctionsAreMeant == ImportsMeanWhatCppMeans /\ BlockedIsOutOfReach
===============================================================================

---------------------------- MODULE ClassAnalysis -----------------------------
(* The passes of engine/src/conversion/analysis which decide what Rust may do  *)
(* with a C++ class: which special members it has (fun/implicit_constructors), *)
(* which of those autocxx must write itself (fun/mod.rs,                       *)
(* add_constructors_present), whether it is abstract (abstract_types), whether *)
(* Rust may own one (destructibility), which functions keeping it keeps        *)
(* (constructor_deps), and what is left of it all once the functions marked to *)
(* be ignored are gone.  The passes run once each, in this order               *)
(* (conversion/mod.rs); each maps the list of APIs to the next.                *)
(*                                                                             *)
(* A declaration's `kind` is a constructor ("default", "ccopy" T(const T&),    *)
(* "cvcopy" T(const volatile T&), "ncopy" T(T&), "move" T(T&&), "cmove"        *)
(* T(const T&&), "other"), "dtor", or a member of MakeCppStorage ("alloc",     *)
(* "dealloc").  Which item `self_ty` is, is its `of`.                          *)
(*                                                                             *)
(* Left out: assignment operators, of which bindgen reports none (fun/mod.rs   *)
(* says why at `is_assignment_operator`); `enum_style!` newtypes; std::array   *)
(* members; generic classes and anonymous namespaces, which find_constructors_ *)
(* present passes over.                                                        *)
EXTENDS CppClasses

CONSTANTS
    Kinds,          \* the kinds of headers to be analyzed
    Libraries(_)    \* the headers of each kind

ASSUME HeadersAssumption == \A kind \in Kinds : \A l \in Libraries(kind) : WellFormed(l)

VARIABLES
    lib,        \* the header
    pass,       \* the pass to run next
    found,      \* all_items_found: special members by class
    apis,       \* the function APIs
    structs,    \* the struct APIs not yet turned into an IgnoredItem
    omitted,    \* destructors_omitted_as_trivial
    abstract,   \* the classes of TypeKind::Abstract
    virtuals,   \* virtual_destructors
    deps        \* constructor_and_allocator_deps, by class
vars == <<lib, pass, found, apis, structs, omitted, abstract, virtuals, deps>>

Function(of, kind, how, vis, ok) ==
    [of |-> of, kind |-> kind, how |-> how, vis |-> vis, ok |-> ok]
Structs(l) == Classes(l) \ l.concrete      \* Api::Struct, the others Api::ConcreteType
Constructors == {"default", "ncopy", "other"}       \* MethodKind::Constructor
ConstCopies == {"ccopy", "cvcopy"}                  \* TraitMethodKind::CopyConstructor

-----------------------------------------------------------------------------
(* The order of the walk.  Each turn of the queue yields the first class which *)
(* awaits nothing, those before it having gone round to the back.              *)
FieldAndBaseDeps(l, n) ==
    IF n \in Structs(l)
    THEN l.bases[n] \cup {f.ty : f \in {g \in l.fields[n] : g.shape = "value"}}
    ELSE {}

Next1(l, queue) ==
    LET todo == ToSet(queue)
        ready == {i \in DOMAIN queue : FieldAndBaseDeps(l, queue[i]) \cap todo = {}}
    IN  CHOOSE i \in ready : \A j \in ready : i <= j

FieldsAndBasesFirst(l) ==
    Through(LAMBDA acc, unused :
                 LET i == Next1(l, acc.queue)
                     n == Len(acc.queue)
                 IN  [out |-> Append(acc.out, acc.queue[i]),
                      queue |-> SubSeq(acc.queue, i + 1, n) \o SubSeq(acc.queue, 1, i - 1)],
             [out |-> <<>>, queue |-> l.apis], l.apis).out

ClassOrder(l) ==
    Through(LAMBDA acc, n : IF n \in Structs(l) THEN Append(acc, n) ELSE acc,
            <<>>, FieldsAndBasesFirst(l))

-----------------------------------------------------------------------------
(* What is found of one class: each special member is "no", "implicit", or the *)
(* visibility it is declared with.  `cmove` is const_move_constructor, an      *)
(* Option, "undeclared" for None.                                              *)
Items(default, dtor, ccopy, ncopy, move, cmove, trivial) ==
    [default |-> default, dtor |-> dtor, ccopy |-> ccopy, ncopy |-> ncopy,
     move |-> move, cmove |-> cmove, trivial |-> trivial]
Absent == {"no"}
CallableAny == {"public", "implicit"}
CallableSubclass == CallableAny \cup {"protected"}

\* A pointer which is taken for a reference.
Mut_PointerItems == Items("no", "implicit", "implicit", "no", "implicit", "undeclared", TRUE)
PointerItems == Items("implicit", "implicit", "implicit", "no", "implicit", "undeclared", TRUE)
ReferenceItems == [PointerItems EXCEPT !.default = "no"]
EnumItems == ReferenceItems
KnownTypeItems(copy, move, trivial) ==
    Items("public", "public", IF copy THEN "public" ELSE "no", "no",
          IF move THEN "public" ELSE "no", "undeclared", trivial)
\* A smart pointer nobody need destroy.
Mut_KnownTypes == [int |-> KnownTypeItems(TRUE, TRUE, TRUE),
                   str |-> KnownTypeItems(TRUE, TRUE, FALSE),
                   uptr |-> KnownTypeItems(FALSE, TRUE, TRUE)]
KnownTypes == [int |-> KnownTypeItems(TRUE, TRUE, TRUE),
               str |-> KnownTypeItems(TRUE, TRUE, FALSE),
               uptr |-> KnownTypeItems(FALSE, TRUE, FALSE)]
ConcreteItems == Items("implicit", "implicit", "no", "no", "no", "undeclared", FALSE)

(* get_items_found: none, or one. *)
ItemsOf(seen, ty) ==
    CASE ty = "enum" -> {EnumItems}
      [] ty \in DOMAIN KnownTypes -> {KnownTypes[ty]}
      [] ty \in DOMAIN seen -> {seen[ty]}
      [] OTHER -> {}

(* What find_explicit_items recorded in a slot: both const spellings of a copy *)
(* share one, and both spellings of a move.                                    *)
Slot(kind) ==
    CASE kind = "cvcopy" -> "ccopy" [] kind = "cmove" -> "move" [] OTHER -> kind
Explicits(l, c, slot) == {d \in l.decls : d.of = c /\ Slot(d.kind) = slot}
Found(l, c, slot) ==
    LET e == Explicits(l, c, slot)
    IN  IF e = {} THEN "none" ELSE IF Cardinality(e) > 1 THEN "multiple"
        ELSE (CHOOSE d \in e : TRUE).how
Visibility(l, c, slot) == (CHOOSE d \in Explicits(l, c, slot) : TRUE).vis
ConstMoves(l) == {d.of : d \in {e \in l.decls : e.kind = "cmove"}}
ConstVolatileCopies(l) == {d.of : d \in {e \in l.decls : e.kind = "cvcopy"}}

FoundAsDeclared(l, c, slot) ==
    IF Found(l, c, slot) = "defaulted" THEN Visibility(l, c, slot) ELSE "implicit"
FoundOnlyIfDefaulted(l, c, slot) ==
    IF Found(l, c, slot) = "defaulted" THEN Visibility(l, c, slot) ELSE "no"
FoundIfUserDefined(l, c, slot) ==
    IF Found(l, c, slot) = "user" THEN Visibility(l, c, slot) ELSE "no"

(* The answers for a field rather than for its type: an initializer builds it, *)
(* a const one is moved by T(const T&&) or copied, a volatile one of class     *)
(* type is copied by T(const volatile T&) or not at all.                       *)
AsInitialized(f, i) == IF f.init THEN [i EXCEPT !.default = "implicit"] ELSE i
\* A const field asked about as if it were its type.
Mut_AsConst(f, i) == i
AsConst(f, i) ==
    IF ~f.const THEN i
    ELSE [i EXCEPT !.move = IF i.cmove # "undeclared" THEN i.cmove ELSE i.ccopy,
                   !.ncopy = "no"]
AsVolatile(l, f, i) ==
    IF ~f.volatile \/ f.shape # "value" \/ f.ty \in {"enum", "int"} THEN i
    ELSE [i EXCEPT !.ccopy = IF f.ty \in ConstVolatileCopies(l) THEN i.ccopy ELSE "no",
                   !.ncopy = "no", !.move = "no"]
FieldItems(l, seen, f) ==
    {AsVolatile(l, f, AsConst(f, AsInitialized(f, i))) :
        i \in CASE f.shape = "value" -> ItemsOf(seen, f.ty)
                [] f.shape = "pointer" -> {PointerItems}
                [] OTHER -> {ReferenceItems}}
InfoFields(l, c) == {f \in l.fields[c] : f.shape # "bitfield"}
BaseItems(l, seen, b) == ItemsOf(seen, Resolved(l, b))

Understood(l, seen, c) ==
    /\ c \notin l.opaque \cup l.unnamed
    /\ \A b \in l.bases[c] : BaseItems(l, seen, b) # {}
    /\ \A f \in InfoFields(l, c) : FieldItems(l, seen, f) # {}

(* A class whose parts are not all known keeps what it declares itself, and    *)
(* the benefit of the doubt about its destructor.                              *)
ExplicitsOnly(l, c) ==
    LET move == FoundIfUserDefined(l, c, "move")
        dtor == Found(l, c, "dtor")
    IN  Items(FoundIfUserDefined(l, c, "default"),
              CASE dtor = "none" -> "implicit"
                [] dtor = "multiple" -> "public"
                [] dtor = "deleted" -> "no"
                [] OTHER -> Visibility(l, c, "dtor"),
              FoundIfUserDefined(l, c, "ccopy"), FoundIfUserDefined(l, c, "ncopy"), move,
              IF c \in ConstMoves(l) THEN move ELSE "undeclared", FALSE)

-----------------------------------------------------------------------------
(* The C++ rules, as the code runs them: over the direct bases, which a derived *)
(* class reaches into, and the fields, which it reaches from outside.           *)
Dependency(i, may) == [is |-> i, may |-> may]
BaseDependencies(l, seen, c) ==
    UNION {{Dependency(i, CallableSubclass) : i \in BaseItems(l, seen, b)} : b \in l.bases[c]}
FieldDependencies(l, seen, c) ==
    UNION {{Dependency(i, CallableAny) : i \in FieldItems(l, seen, f)} : f \in InfoFields(l, c)}
Dependencies(l, seen, c) == BaseDependencies(l, seen, c) \cup FieldDependencies(l, seen, c)

DeclaresAny(l, c, slots) == \E slot \in slots : Found(l, c, slot) # "none"
Uninitialized(l, c) == {f \in l.fields[c] : ~f.init}

DefaultConstructor(l, seen, c) ==
    LET e == Found(l, c, "default")
        declared == \/ e = "defaulted"
                    \/ e = "none" /\ ~DeclaresAny(l, c, {"ccopy", "ncopy", "move", "other"})
        blocked == \/ \E f \in l.fields[c] : f.shape = "rvalue"
                   \/ \E f \in Uninitialized(l, c) : f.shape \in References \/ f.const
                   \/ \E d \in Dependencies(l, seen, c) :
                          d.is.dtor \notin d.may \/ d.is.default \notin d.may
    IN  IF declared THEN IF blocked THEN "no" ELSE FoundAsDeclared(l, c, "default")
        ELSE FoundIfUserDefined(l, c, "default")

Destructor(l, seen, c) ==
    IF Found(l, c, "dtor") \in {"none", "defaulted"}
    THEN IF \A d \in Dependencies(l, seen, c) : d.is.dtor \in d.may
         THEN FoundAsDeclared(l, c, "dtor") ELSE "no"
    ELSE FoundIfUserDefined(l, c, "dtor")

CopyConstructors(l, seen, c) ==
    LET slots == {"ccopy", "ncopy"}
        ways == {Found(l, c, slot) : slot \in slots}
        defaulted == "defaulted" \in ways
        parts == Dependencies(l, seen, c)
        blocked == \/ \E f \in l.fields[c] : f.shape = "rvalue"
                   \/ ~defaulted /\ Found(l, c, "move") # "none"
                   \/ \E d \in parts : \/ d.is.dtor \notin d.may
                                      \/ {d.is.ccopy, d.is.ncopy} \cap d.may = {}
        takesConst == \A d \in parts : d.is.ccopy \notin Absent
    IN  IF ~ways \subseteq {"none", "defaulted"}
        THEN [slot \in slots |-> FoundIfUserDefined(l, c, slot)]
        ELSE IF blocked THEN [slot \in slots |-> "no"]
        ELSE IF defaulted THEN [slot \in slots |-> FoundOnlyIfDefaulted(l, c, slot)]
        ELSE [slot \in slots |-> IF (slot = "ccopy") = takesConst THEN "implicit" ELSE "no"]

MoveConstructor(l, seen, c) ==
    LET e == Found(l, c, "move")
        declared == e = "defaulted" \/ ~DeclaresAny(l, c, {"move", "ccopy", "ncopy", "dtor"})
        blocked == \E d \in Dependencies(l, seen, c) :
                      \/ d.is.move \notin d.may
                      \/ d.may = CallableSubclass /\ d.is.dtor \notin d.may
    IN  IF declared THEN IF blocked THEN "no" ELSE FoundAsDeclared(l, c, "move")
        ELSE FoundIfUserDefined(l, c, "move")

ByTheRules(l, seen, c) ==
    LET copies == CopyConstructors(l, seen, c)
        move == MoveConstructor(l, seen, c)
        dtor == Destructor(l, seen, c)
    IN  Items(DefaultConstructor(l, seen, c), dtor, copies["ccopy"], copies["ncopy"], move,
              IF c \in ConstMoves(l) THEN move ELSE "undeclared",
              dtor = "implicit" /\ \A d \in Dependencies(l, seen, c) : d.is.trivial)

(* Concrete types come last, so that no class above counts on one. *)
FoundInStructs(l) ==
    Through(LAMBDA seen, c :
                Extended(seen, c, IF Understood(l, seen, c) THEN ByTheRules(l, seen, c)
                                  ELSE ExplicitsOnly(l, c)), <<>>, ClassOrder(l))
FindConstructorsPresent(l) ==
    LET inStructs == FoundInStructs(l)
    IN  [c \in DOMAIN inStructs \cup l.concrete |->
            IF c \in l.concrete THEN ConcreteItems ELSE inStructs[c]]

-----------------------------------------------------------------------------
(* The functions bindgen reports, private and deleted ones to be ignored in    *)
(* the end but kept until then for what they say, with an allocator and its    *)
(* counterpart for every class.                                                *)
DeclaredFunctions(l) ==
    {Function(d.of, d.kind, d.how, d.vis, d.how # "deleted" /\ d.vis # "private") : d \in l.decls}
    \cup {Function(s[1], s[2], "implied", "public", TRUE) : s \in Classes(l) \X {"alloc", "dealloc"}}

Init ==
    /\ \E kind \in Kinds : lib \in Libraries(kind)
    /\ pass = "find"
    /\ found = <<>>
    /\ apis = DeclaredFunctions(lib)
    /\ structs = Structs(lib)
    /\ omitted = {} /\ abstract = {} /\ virtuals = {}
    /\ deps = <<>>

FindConstructors ==
    /\ pass = "find"
    /\ found' = FindConstructorsPresent(lib)
    /\ pass' = "add"
    /\ UNCHANGED <<lib, apis, structs, omitted, abstract, virtuals, deps>>

(* A member someone asked C++ to default, which C++ then deletes. *)
DefaultedButDeleted(f) ==
    /\ f.how = "defaulted"
    /\ Slot(f.kind) \in {"default", "ncopy", "dtor", "ccopy", "move"}
    /\ found[f.of][Slot(f.kind)] \in Absent
DiscardDeleted(fs) == {IF DefaultedButDeleted(f) THEN [f EXCEPT !.ok = FALSE] ELSE f : f \in fs}

TrivialPods == {c \in lib.pod : found[c].trivial}
Synthesized ==
    LET Needed(c, kind) ==
            /\ found[c][kind] = "implicit"
            /\ kind = "ccopy" => found[c].ncopy \notin CallableSubclass \cup {"private"}
            /\ kind = "dtor" => c \notin TrivialPods
    IN  {Function(s[1], s[2], "implied", "public", TRUE) :
            s \in {t \in (DOMAIN found \ lib.blocked) \X {"default", "move", "ccopy", "dtor"} :
                      Needed(t[1], t[2])}}

AddConstructorsPresent ==
    /\ pass = "add"
    /\ apis' = DiscardDeleted(apis) \cup Synthesized
    /\ omitted' = TrivialPods \ lib.blocked
    /\ pass' = "abstract"
    /\ UNCHANGED <<lib, found, structs, abstract, virtuals, deps>>

-----------------------------------------------------------------------------
(* Abstract classes.  A virtual destructor is inherited through any chain of    *)
(* bases, whatever the order of the list.                                       *)
\* Bases looked up under the names they are given.
Mut_VirtualDestructors(l) ==
    Through(LAMBDA seen, unused :
                 seen \cup {c \in Structs(l) : l.bases[c] \cap seen # {}},
             {d.of : d \in {e \in l.decls : e.kind = "dtor" /\ e.virt # "no"}}, l.apis)
\* One pass, in the order of the other passes.
Mut_OnePassVirtualDestructors(l) ==
    Through(LAMBDA seen, c : IF BasesOf(l, c) \cap seen # {} THEN seen \cup {c} ELSE seen,
             {d.of : d \in {e \in l.decls : e.kind = "dtor" /\ e.virt # "no"}}, ClassOrder(l))
VirtualDestructors(l) ==
    Through(LAMBDA seen, unused :
                 seen \cup {c \in Structs(l) : BasesOf(l, c) \cap seen # {}},
             {d.of : d \in {e \in l.decls : e.kind = "dtor" /\ e.virt # "no"}}, l.apis)

Pures(l, c) == {[declaredBy |-> c, sig |-> v.sig] : v \in {w \in l.virt : w.of = c /\ w.pure}}
Defined(l, c) == {v.sig : v \in {w \in l.virt : w.of = c /\ ~w.pure}}
AbstractState(undefined, shared, overrides) ==
    [undefined |-> undefined, shared |-> shared, overrides |-> overrides]

\* An override which does not travel to the classes sharing the base.
Mut_AbstractStateOf(l, seen, c) ==
    LET StateOf(b) == IF Resolved(l, b) \in DOMAIN seen THEN seen[Resolved(l, b)]
                      ELSE AbstractState(Pures(l, Resolved(l, b)), {}, {})
        own == Pures(l, c) \cup UNION {StateOf(b).undefined : b \in l.bases[c] \ l.vbases[c]}
        shared == UNION {StateOf(b).shared : b \in l.bases[c]}
                  \cup UNION {StateOf(b).undefined : b \in l.vbases[c]}
        IsDefined(pure) == pure.sig \in Defined(l, c)
    IN  AbstractState({pure \in own : ~IsDefined(pure)}, {pure \in shared : ~IsDefined(pure)}, {})
(* The pure virtual functions c leaves undefined: those each derived class has *)
(* its own copy of, and those `shared` through a virtual base, which another   *)
(* class sharing that base may override.                                       *)
AbstractStateOf(l, seen, c) ==
    LET StateOf(b) == IF Resolved(l, b) \in DOMAIN seen THEN seen[Resolved(l, b)]
                      ELSE AbstractState(Pures(l, Resolved(l, b)), {}, {})
        own == Pures(l, c) \cup UNION {StateOf(b).undefined : b \in l.bases[c] \ l.vbases[c]}
        shared == UNION {StateOf(b).shared : b \in l.bases[c]}
                  \cup UNION {StateOf(b).undefined : b \in l.vbases[c]}
        IsDefined(pure) == pure.sig \in Defined(l, c)
        overrides == UNION {StateOf(b).overrides : b \in l.bases[c]}
                     \cup {pure \in shared : IsDefined(pure)}
    IN  AbstractState({pure \in own : ~IsDefined(pure)}, shared \ overrides, overrides)

AbstractClasses(l) ==
    LET states == Through(LAMBDA seen, c :
                      IF c \in l.opaque THEN seen ELSE Extended(seen, c, AbstractStateOf(l, seen, c)),
                      <<>>, ClassOrder(l))
    IN  {c \in DOMAIN states :
            \/ states[c].undefined \cup states[c].shared # {}
            \/ \E d \in l.decls : d.of = c /\ d.kind = "dtor" /\ d.virt = "pure"}

MarkAbstract ==
    /\ pass = "abstract"
    /\ virtuals' = VirtualDestructors(lib)
    /\ abstract' = AbstractClasses(lib)
    /\ apis' = {f \in apis : f.of \notin abstract' \/ f.kind \notin Constructors \cup Transfers}
    /\ structs' = structs \ (abstract' \cap lib.nested)
    /\ pass' = "own"
    /\ UNCHANGED <<lib, found, omitted, deps>>

-----------------------------------------------------------------------------
(* Whatever makes Rust own an object goes where nobody may destroy one: where   *)
(* its destructor may not be called, and where C++ would have to write one      *)
(* which destroys an instantiation on a type nothing defines.                   *)
WritesOwnDestructor(l) == {d.of : d \in {e \in l.decls : e.kind = "dtor" /\ e.how = "user"}}
MayNotDestroy(l) ==
    LET Held(c) == BasesOf(l, c) \cup
                   IF c \in l.opaque THEN {} ELSE {f.ty : f \in {g \in l.fields[c] : g.shape = "value"}}
    IN  Through(LAMBDA seen, unused :
            seen \cup {c \in Structs(l) \ WritesOwnDestructor(l) : Held(c) \cap seen # {}},
            {"hollow"}, l.apis)

NonDestructible ==
    {c \in structs : found[c].dtor \notin CallableAny \/ c \in MayNotDestroy(lib)}
RemoveOwnership ==
    /\ pass = "own"
    /\ apis' = {IF f.of \in NonDestructible THEN [f EXCEPT !.ok = FALSE] ELSE f : f \in apis}
    /\ pass' = "decorate"
    /\ UNCHANGED <<lib, found, structs, omitted, abstract, virtuals, deps>>

\* Functions listed whether or not they will be ignored.
Mut_Important(f) ==
    \/ f.kind \in {"alloc", "dealloc"} \cup ConstCopies \cup Moves
    \/ f.of \in lib.concrete
(* What keeping a class keeps; a concrete type, which no directive names, keeps *)
(* its constructors and destructor too.                                         *)
Important(f) ==
    /\ f.ok
    /\ \/ f.kind \in {"alloc", "dealloc"} \cup ConstCopies \cup Moves
       \/ f.of \in lib.concrete
Decorate ==
    /\ pass = "decorate"
    /\ deps' = [c \in structs \cup lib.concrete |->
                   IF c \in abstract THEN {} ELSE {f \in apis : f.of = c /\ Important(f)}]
    /\ pass' = "discard"
    /\ UNCHANGED <<lib, found, apis, structs, omitted, abstract, virtuals>>

DiscardIgnored ==
    /\ pass = "discard"
    /\ apis' = {f \in apis : f.ok}
    /\ pass' = "done"
    /\ UNCHANGED <<lib, found, structs, omitted, abstract, virtuals, deps>>

Next ==
    \/ FindConstructors
    \/ AddConstructorsPresent
    \/ MarkAbstract
    \/ RemoveOwnership
    \/ Decorate
    \/ DiscardIgnored
Spec == Init /\ [][Next]_vars

-----------------------------------------------------------------------------
(* Every variable has its type: what is found of a class is a full record of   *)
(* its special members, and the sets name only what the header has.            *)
Slots == {"default", "dtor", "ccopy", "ncopy", "move"}
SlotValues == CallableSubclass \cup {"private", "no"}
TypeOK ==
    /\ pass \in {"find", "add", "abstract", "own", "decorate", "discard", "done"}
    /\ DOMAIN found = IF pass = "find" THEN {} ELSE Classes(lib)
    /\ \A c \in DOMAIN found :
          /\ \A slot \in Slots : found[c][slot] \in SlotValues
          /\ found[c].cmove \in SlotValues \cup {"undeclared"}
          /\ found[c].trivial \in BOOLEAN
    /\ \A f \in apis : f.of \in Classes(lib) /\ f.ok \in BOOLEAN
    /\ structs \cup omitted \cup abstract \subseteq Structs(lib)
    /\ virtuals \subseteq Structs(lib)
    /\ DOMAIN deps \subseteq structs \cup lib.concrete

Done == pass = "done"
Surviving == structs \cup lib.concrete
Offered == {f \in apis : f.vis = "public" /\ f.of \in Surviving}
Offers(c, kinds) == \E f \in Offered : f.of = c /\ f.kind \in kinds

(* What Rust is offered C++ allows: the C++ autocxx writes for a constructor   *)
(* calls one which overload resolution finds, which is not deleted, which      *)
(* anybody may call, and on a class which has objects; and nothing which makes *)
(* Rust own an object is offered where an outsider may not destroy it.         *)
(* (generate_constructor_impl and the C++ bodies of CppFunctionBody::          *)
(* PlacementNew, Destructor, AllocUninitialized and FreeUninitialized.)        *)
CppAllows(specials, abstracts, f) ==
    LET facts == specials[f.of]
    IN  /\ Destroys(facts, FromAnywhere)
        /\ f.kind \in Constructors \cup Transfers => f.of \notin abstracts
        /\ f.kind = "default" => Defaults(facts, FromAnywhere)
        /\ f.kind = "ncopy" => Copied(facts, "l", FromAnywhere)
        /\ f.kind \in ConstCopies => Copied(facts, "cl", FromAnywhere)
        /\ f.kind \in Moves => Copied(facts, "x", FromAnywhere)
OfferedIsAllowed ==
    Done => LET specials == Specials(lib)
                abstracts == CppAbstract(lib)
            IN  \A f \in Offered : CppAllows(specials, abstracts, f)

(* Nothing C++ has is withheld from a class whose parts are all understood: if *)
(* outsiders may default-construct, copy or move one, Rust is offered that,    *)
(* and so it is its destructor unless that does nothing.  The exceptions are   *)
(* those the code names: an uninitialized const field, an enumeration and an   *)
(* initialized T&& leave what they are part of without a default, a class is   *)
(* moved only if each of its parts is, and a base named by a typedef listed    *)
(* before it may be met too late.                                              *)
MetBefore(c, part) ==
    LET order == ClassOrder(lib)
    IN  \E i, j \in DOMAIN order : i < j /\ order[i] = part /\ order[j] = c
Analyzed ==
    Through(LAMBDA known, c :
        IF /\ c \in Structs(lib) \ (lib.opaque \cup lib.unnamed)
           /\ BasesOf(lib, c) \cup {f.ty : f \in {g \in lib.fields[c] : g.shape = "value"}}
                 \subseteq known
           /\ \A base \in BasesOf(lib, c) \cap Structs(lib) : MetBefore(c, base)
        THEN known \cup {c} ELSE known, DOMAIN KnownTypes \cup {"enum"}, lib.order)
Generated == structs \ (abstract \cup lib.blocked)
DefaultInDoubt ==
    Through(LAMBDA doubted, c :
        IF \/ BasesOf(lib, c) \cap doubted # {}
           \/ \E f \in lib.fields[c] :
                  f.shape = "rvalue" \/ (~f.init /\ (f.const \/ f.ty \in doubted))
        THEN doubted \cup {c} ELSE doubted, {"enum"}, lib.order)
MovesEachPart(c) ==
    \A d \in Dependencies(lib, found, c) : d.is.move \in d.may
NothingWithheld ==
    Done =>
      LET specials == Specials(lib)
          trivially == Trivially(lib)
          inDoubt == DefaultInDoubt
      IN  \A c \in Analyzed \cap Generated :
        LET facts == specials[c]
        IN  Destroys(facts, FromAnywhere) =>
            /\ Defaults(facts, FromAnywhere) /\ c \notin inDoubt => Offers(c, {"default"})
            /\ Copied(facts, "cl", FromAnywhere) => Offers(c, ConstCopies)
            /\ /\ Copied(facts, "x", FromAnywhere)
               /\ \E s \in Selected(facts, "x") : s.kind \in Moves
               /\ MovesEachPart(c)
               => Offers(c, Moves)
            /\ ~trivially[c] => Offers(c, {"dtor"})

(* A class is called abstract exactly when C++ leaves one of its functions     *)
(* pure in the end, in hierarchies with shared and repeated bases, whatever    *)
(* the order of the list; an opaque class never is (mark_types_abstract).      *)
AbstractExactly ==
    Done => abstract = CppAbstract(lib) \cap (Structs(lib) \ lib.opaque)

(* A destructor is called virtual exactly when C++ makes it so, through any    *)
(* chain of bases, aliases among them.                                         *)
VirtualDestructorsExactly ==
    Done => virtuals = CppVirtualDestructors(lib) \cap Structs(lib)

(* A destructor which is left out because it would do nothing does nothing:    *)
(* what generate_trivial_destructor_assertion asserts holds.                   *)
OmittedDestructorsAreTrivial ==
    Done => LET trivially == Trivially(lib) IN \A c \in omitted : trivially[c]

(* What a class is recorded to depend on is still there in the end: the        *)
(* collection of unreachable APIs follows these edges.                         *)
DepsAreOffered ==
    Done => \A c \in DOMAIN deps : deps[c] \subseteq apis

(* What is known of destructors is so.                                         *)
DestructorsAreKnown == VirtualDestructorsExactly /\ OmittedDestructorsAreTrivial

(* Nothing Rust could have is lost on the way.                                 *)
NothingIsLost == NothingWithheld /\ DepsAreOffered
===============================================================================

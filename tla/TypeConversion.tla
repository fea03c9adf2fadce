----------------------------- MODULE TypeConversion -----------------------------
(***************************************************************************)
(* From the types bindgen writes to the types a cxx bridge can speak:      *)
(* TypeConverter, and the three passes which each build one of their own   *)
(* and feed it the library: the targets of typedefs, the fields of         *)
(* structs, the signatures of functions; and, between the last two, the    *)
(* variables, for which types are named without a converter                *)
(* (analysis/type_converter.rs, tdef.rs, pod/mod.rs, statics.rs,           *)
(* replace_hopeless_typedef_targets.rs, fun/mod.rs).                       *)
(*                                                                         *)
(* A converter remembers the template instantiations it has named, so what *)
(* a type becomes may depend on what was converted before it.  Convert is  *)
(* therefore a function from a type, a context and a converter to a result *)
(* and the converter afterwards.                                           *)
(***************************************************************************)
EXTENDS Naturals, Sequences, SequencesExt, TLC, KnownTypes

CONSTANT Programs       \* the libraries to convert

(* A type as bindgen writes it: a path with arguments, one of the marker   *)
(* newtypes it wraps one in, or a pointer, reference or array.  "lref" and *)
(* "rref" are the markers for a C++ reference; "ref" and "pin" are what    *)
(* the conversion makes of the first.                                      *)
Term(is, name, args) == [is |-> is, name |-> name, args |-> args]
Path(n) == Term("path", n, <<>>)
Generic(n, args) == Term("path", n, args)
Marked(mark, t) == Term(mark, mark, <<t>>)
Ptr(t) == Term("ptr", "const", <<t>>)
FunctionPointer == Term("fnptr", "fnptr", <<>>)
Str == Term("ref", "const", <<Path("str")>>)

Transparent == {"const", "volatile", "opaque", "long double", "float128", "bitfield", "std array"}
(* syn sees all of these as a path. *)
PathLike == {"path", "fnptr", "lref", "rref", "pin"} \cup Transparent

RECURSIVE Mentions(_, _)
Mentions(t, mark) == t.is = mark \/ \E i \in DOMAIN t.args : Mentions(t.args[i], mark)

Inner(t) == t.args[1]
RECURSIVE Strip(_, _)
Strip(t, marks) == IF t.is \in marks THEN Strip(Inner(t), marks) ELSE t

IsVolatileQualified(t) == Strip(t, {"const"}).is = "volatile"

VARIABLES
    program,    \* what does not change: directives, structs, typedefs, signatures
    phase, at,
    apis,       \* ApiVec without the instantiations: each name's API
    concrete,   \* Api::ConcreteType, in the order they were added
    conv,       \* the converter of this phase
    spoken      \* what each field and signature became

vars == <<program, phase, at, apis, concrete, conv, spoken>>

-----------------------------------------------------------------------------
(* Contexts. *)

InField(params) == [in |-> "field", field |-> TRUE, params |-> params]
InContainer == [in |-> "container", field |-> FALSE, params |-> {}]
InTypedef == [in |-> "typedef", field |-> FALSE, params |-> {}]
Outer == [in |-> "outer", field |-> FALSE, params |-> {}]
BehindReference(ctx) == [in |-> "reference", field |-> ctx.field, params |-> {}]

AllowsIncomplete(ctx) == ctx.in \in {"reference", "typedef"}

-----------------------------------------------------------------------------
(* Annotated, or the error; and the converter, which an error does not     *)
(* restore.                                                                *)

Result(err, ty, deps, extras, kind, c) ==
    [err |-> err, ty |-> ty, deps |-> deps, extras |-> extras, kind |-> kind,
     isConst |-> FALSE, isStdArray |-> FALSE, c |-> c]

Refuse(err, c) == Result(err, Path("none"), {}, <<>>, "Regular", c)
Annotated(ty, deps, extras, kind, c) == Result("none", ty, deps, extras, kind, c)

(* What comes next, unless that much already failed. *)
Then(r, Goes(_)) == IF r.err # "none" THEN r ELSE Goes(r)
RefuseIf(err, c, r) == IF err # "none" THEN Refuse(err, c) ELSE r

MarkedFrom(r, facts) ==
    IF r.err # "none" THEN r
    ELSE [r EXCEPT !.isConst = @ \/ facts.isConst, !.isStdArray = @ \/ facts.isStdArray]
MarkedConst(r) == MarkedFrom(r, [isConst |-> TRUE, isStdArray |-> FALSE])
MarkedConstIf(r, isConst) == MarkedFrom(r, [isConst |-> isConst, isStdArray |-> FALSE])

-----------------------------------------------------------------------------
(* Typedefs and aliases. *)

NoTarget == [err |-> "none", ty |-> Path("none"), kind |-> "Regular", isConst |-> FALSE, isStdArray |-> FALSE]

(* resolve_typedef: to the last path of the chain, or to what is not one.  *)
RECURSIVE FollowTypedef(_, _, _, _)
FollowTypedef(n, met, previous, c) ==
    IF n \notin DOMAIN c.typedefs THEN previous
    ELSE LET target == c.typedefs[n]
         IN IF target.ty.is \notin PathLike THEN target
            ELSE IF target.ty.name \in met THEN [NoTarget EXCEPT !.err = "infinitely recursive typedef"]
            ELSE IF target.ty.name \in program.anonymous THEN [NoTarget EXCEPT !.err = "anonymous namespace"]
            ELSE FollowTypedef(target.ty.name, met \cup {target.ty.name}, target, c)

ResolveTypedef(n, c) == FollowTypedef(n, {}, NoTarget, c)

(* resolve_through_unnameable_alias, over the targets as written. *)
RECURSIVE FollowAlias(_, _, _)
FollowAlias(n, met, c) ==
    LET target == c.aliases[n]
    IN IF n \in met \/ n \notin DOMAIN c.aliases THEN Path("none")
       ELSE IF target.is \notin PathLike \/ target.name \notin program.unnameable THEN target
       ELSE IF CppName(target.name) \in program.blocklist THEN Path("none")
       ELSE FollowAlias(target.name, met \cup {n}, c)

-----------------------------------------------------------------------------
(* Which instantiations rest on a type nothing defines. *)

IncompleteOf(n, c) == IF n \in DOMAIN c.incomplete THEN c.incomplete[n] ELSE "none"

FirstOf(names) ==
    LET found == SelectSeq(names, LAMBDA n : n # "none") IN IF found = <<>> THEN "none" ELSE Head(found)

(* incompleteness_of_argument and incomplete_argument_within. *)
RECURSIVE IncompleteArgument(_, _, _)
Mut_IncompleteArgument(t, met, c) ==
    IF t.is \notin ({"path"} \cup Transparent) THEN "none"
    ELSE IF t.name \in c.forward THEN t.name
    ELSE IF IncompleteOf(t.name, c) # "none" THEN IncompleteOf(t.name, c)
    ELSE FirstOf([i \in DOMAIN t.args |-> IncompleteArgument(t.args[i], met \cup {t.name}, c)])

IncompleteArgument(t, met, c) ==
    IF t.is \notin ({"path"} \cup Transparent) THEN "none"
    ELSE IF t.name \in c.forward THEN t.name
    ELSE IF IncompleteOf(t.name, c) # "none" THEN IncompleteOf(t.name, c)
    ELSE FirstOf(
        (IF t.name \in DOMAIN c.aliases /\ t.name \notin met
         THEN <<IncompleteArgument(c.aliases[t.name], met \cup {t.name}, c)>> ELSE <<>>)
        \o [i \in DOMAIN t.args |-> IncompleteArgument(t.args[i], met \cup {t.name}, c)])

IncompleteArgumentWithin(t, c) ==
    FirstOf([i \in DOMAIN t.args |-> IncompleteArgument(t.args[i], {}, c)])

(* destruction_blocked_by: what keeps C++ from destroying a t, given the   *)
(* classes already found.                                                  *)
RECURSIVE DestructionBlockedBy(_, _, _, _, _)
DestructionBlockedBy(written, found, met, outermost, c) ==
    LET t == Strip(written, {"const", "std array", "volatile", "array"})
        Under(u, top) == DestructionBlockedBy(u, found, met \cup {t.name}, top, c)
    IN IF t.is \notin ({"path"} \cup Transparent) THEN "none"
       ELSE IF ~outermost /\ t.name \in c.forward THEN t.name
       ELSE IF IncompleteOf(t.name, c) # "none" THEN IncompleteOf(t.name, c)
       ELSE IF t.name \in DOMAIN found THEN found[t.name]
       ELSE FirstOf([i \in DOMAIN t.args |-> DestructionBlockedBy(t.args[i], found, {}, FALSE, c)]
                \o (IF t.name \in DOMAIN c.definitions /\ t.name \notin met THEN <<Under(c.definitions[t.name], outermost)>> ELSE <<>>)
                \o (IF t.name \in DOMAIN c.aliases /\ t.name \notin met THEN <<Under(c.aliases[t.name], outermost)>> ELSE <<>>))

(* find_classes_we_may_not_destroy: to a fixpoint, over fields then bases. *)
RECURSIVE ClassesWeMayNotDestroy(_, _, _)
ClassesWeMayNotDestroy(structs, found, c) ==
    LET Culprit(n) ==
            FirstOf([i \in DOMAIN structs[n].fields |->
                        DestructionBlockedBy(structs[n].fields[i], found, {}, TRUE, c)]
                    \o [i \in DOMAIN structs[n].bases |->
                        DestructionBlockedBy(Path(structs[n].bases[i]), found, {}, TRUE, c)])
        fresh == {n \in DOMAIN structs \ DOMAIN found : ~structs[n].destructor /\ Culprit(n) # "none"}
    IN IF fresh = {} THEN found
       ELSE ClassesWeMayNotDestroy(structs, found @@ [n \in fresh |-> Culprit(n)], c)

-----------------------------------------------------------------------------
(* Naming an instantiation. *)

(* original_name_map.type_to_cpp: the C++ the instantiation is written in. *)
RECURSIVE CppDefinition(_)
CppDefinition(t) ==
    [t EXCEPT !.name = CppName(@), !.args = [i \in DOMAIN t.args |-> CppDefinition(t.args[i])]]

(* concrete_type_ident: that, with everything which is not a word          *)
(* flattened away; the punctuation of a known name is of no consequence.   *)
RECURSIVE Flat(_)
Flat(t) ==
    LET parts == [i \in DOMAIN t.args |-> Flat(t.args[i])]
        start == IF t.is = "ptr" THEN "" ELSE t.name
    IN FoldLeft(LAMBDA s, part : IF s = "" THEN part ELSE s \o "_" \o part, start, parts)

ConcreteTypeIdent(definition) == Flat(definition) \o "_AutocxxConcrete"

(* unsatisfiable_inner_type: an argument whose stand-in declares no such   *)
(* inner type.                                                             *)
UnsatisfiableInnerType(t, c) ==
    t.name \in DOMAIN c.required /\ t.args # <<>>
        /\ \E inner \in c.required[t.name] : Inner(t).is = "path" /\ LacksInnerType(Inner(t).name, inner)

Remembered(definition, c) == {m \in c.memo : m.definition = definition}

Mut_UniqueIdent(definition, c) == ConcreteTypeIdent(definition)

UniqueIdent(definition, c) ==
    LET ident == ConcreteTypeIdent(definition)
    IN IF \E m \in c.memo : m.name = ident
       THEN "AutocxxConcrete" \o ToString(Cardinality(c.memo)) ELSE ident

(* get_templated_typename: a name, and the API to add where it is new. *)
NewConcreteType(t, definition, name, incomplete, surface, c) ==
    [err |-> "none", name |-> name,
     apis |-> <<[name |-> name, definition |-> definition, written |-> t, surface |-> surface, incomplete |-> incomplete]>>,
     c |-> [c EXCEPT !.memo = @ \cup {[definition |-> definition, name |-> name]},
                     !.incomplete = IF incomplete = "none" THEN @ ELSE (name :> incomplete) @@ @]]

ConcreteType(t, definition, surface, c) ==
    IF Remembered(definition, c) # {}
    THEN [err |-> "none", name |-> (CHOOSE m \in Remembered(definition, c) : TRUE).name, apis |-> <<>>, c |-> c]
    ELSE NewConcreteType(t, definition, UniqueIdent(definition, c), IncompleteArgumentWithin(t, c), surface, c)

TemplatedTypename(t, surface, c) ==
    IF Mentions(t, "array") THEN Refuse("array in template argument", c)
    ELSE IF UnsatisfiableInnerType(t, c) THEN Refuse("unsatisfiable inner type", c)
    ELSE ConcreteType(t, CppDefinition(t), surface, c)

(* manufacture_holder: as above, the surface kept for later where the      *)
(* instantiation is already named.                                         *)
WithSurface(named, surface) ==
    IF named.apis = <<>> /\ surface # "none" /\ named.name \notin DOMAIN named.c.deferred
    THEN [named EXCEPT !.c.deferred = (named.name :> surface) @@ @] ELSE named

ManufactureHolder(t, surface, c) ==
    Then(TemplatedTypename(t, surface, c), LAMBDA named : WithSurface(named, surface))

LowerToHolder(t, surface, deps, extras, targetIsConst, c) ==
    Then(ManufactureHolder(t, surface, c), LAMBDA holder :
        MarkedConstIf(Annotated(Path(holder.name), deps \cup {holder.name}, extras \o holder.apis,
                                "Regular", holder.c), targetIsConst))

-----------------------------------------------------------------------------
(* The conversion. *)

RECURSIVE Convert(_, _, _)

(* Convert what is behind an indirection, then say what holds it. *)
Around(t, ctx, c, Holding(_)) == Then(Convert(Inner(t), BehindReference(ctx), c), Holding)

Mut_ConvertFunctionPointer(t, ctx, c) ==
    IF ctx.in # "outer" THEN Annotated(t, {}, <<>>, "Pointer", c) ELSE Refuse("function pointer", c)

ConvertFunctionPointer(t, ctx, c) ==
    IF ctx.field THEN Annotated(t, {}, <<>>, "Pointer", c) ELSE Refuse("function pointer", c)

(* ensure_pointee_is_valid. *)
InvalidPointee(t, ctx) ==
    CASE Inner(t).is \in PathLike -> "none"
      [] Inner(t).is = "array" -> "array pointee"
      [] Inner(t).is = "ptr" -> IF ctx.in \in {"field", "typedef"} THEN "none" ELSE "pointer pointee"
      [] OTHER -> "invalid pointee"

ConvertIndirection(t, kind, ctx, c) ==
    RefuseIf(InvalidPointee(t, ctx), c, Around(t, ctx, c, LAMBDA inner :
        Annotated(Term("ptr", t.name, <<inner.ty>>), inner.deps, inner.extras, kind, inner.c)))

ConvertArray(t, ctx, c) ==
    Around(t, ctx, c, LAMBDA inner :
        MarkedConstIf(Annotated(Term("array", "array", <<inner.ty>>), inner.deps, inner.extras, "Regular", inner.c),
                      inner.isConst))

(* check_array_referent: cxx has no reference to a C array. *)
RefersToCArray(inner, ctx) == inner.ty.is = "array" /\ ~inner.isStdArray /\ ~ctx.field

ConvertReference(t, ctx, c) ==
    Around(t, ctx, c, LAMBDA inner :
        IF RefersToCArray(inner, ctx) THEN Refuse("reference to C array", inner.c)
        ELSE Annotated(Term("ref", t.name, <<inner.ty>>), inner.deps, inner.extras, "Reference", inner.c))

(* A mutable rust::Str has no Rust type, unless references are wrapped. *)
ConvertLvalueReference(t, ctx, c) ==
    LET mutable == t.name = "mut"
    IN Around(t, ctx, c, LAMBDA inner :
        IF mutable /\ ~ctx.field /\ inner.ty = Str /\ ~program.cpprefs
        THEN Refuse("mutable reference to rust::Str", inner.c)
        ELSE IF RefersToCArray(inner, ctx) THEN Refuse("reference to C array", inner.c)
        ELSE [inner EXCEPT !.ty = Term(IF mutable THEN "pin" ELSE "ref", t.name, <<@>>),
                           !.kind = IF mutable THEN "MutableReference" ELSE "Reference",
                           !.isStdArray = FALSE])

(* arg_is_const_qualified: const here, or at the end of a typedef. *)
ConstQualified(arg, c) ==
    LET target == ResolveTypedef(arg.name, c)
    IN [err |-> IF arg.is = "const" THEN "none" ELSE target.err,
        holds |-> arg.is = "const" \/ target.isConst]

PayloadIsConst(t, c) ==
    IF t.args = <<>> \/ Inner(t).is \notin PathLike THEN [err |-> "none", holds |-> FALSE]
    ELSE ConstQualified(Inner(t), c)

(* A payload which is a std::string_view, a const one, or a pointer to one. *)
StringViewPayload(t, c) ==
    LET arg == IF Inner(t).is \in {"ptr", "const"} THEN Inner(Inner(t)) ELSE Inner(t)
        target == ResolveTypedef(arg.name, c)
        name == IF target.ty.is \in PathLike /\ target # NoTarget THEN target.ty.name ELSE arg.name
    IN IF arg.is \notin PathLike THEN "none"
       ELSE IF target.err # "none" THEN target.err
       ELSE IF IsStringView(name) THEN "string_view out of C++" ELSE "none"

(* const_smart_pointer_surface, and the holder it describes: a weak one     *)
(* comes with the shared one it is upgraded to.                            *)
SharedSibling(t, weak, c) ==
    IF weak THEN ManufactureHolder(Generic("std::shared_ptr", t.args), "shared", c)
    ELSE [err |-> "none", apis |-> <<>>, c |-> c]

LowerConstPointer(t, weak, payload, deps, targetIsConst) ==
    Then(SharedSibling(t, weak, payload.c), LAMBDA sibling :
        LowerToHolder(t, IF weak THEN "weak" ELSE "const pointer", deps,
                      payload.extras \o sibling.apis, targetIsConst, sibling.c))

ConvertConstPointer(t, deps, targetIsConst, c) ==
    Then(Convert(Strip(Inner(t), {"const"}), InContainer, c), LAMBDA payload :
        LowerConstPointer(t, CppName(t.name) = "std::weak_ptr", payload, deps, targetIsConst))

ConvertVectorOfPointers(t, deps, targetIsConst, c) ==
    Then(Convert(Inner(t), InContainer, c), LAMBDA element :
        LowerToHolder(t, "vector of pointers", deps, element.extras, targetIsConst, element.c))

(* custom_ptr_surface: a smart_pointer! of the user's. *)
ConvertCustomPointer(t, deps, targetIsConst, c) ==
    IF Inner(t).is \notin PathLike \/ Strip(Inner(t), {"const"}).is \notin PathLike
    THEN Refuse("smart pointer payload not named", c)
    ELSE RefuseIf(ConstQualified(Inner(t), c).err, c,
            Then(Convert(Strip(Inner(t), {"const"}), InContainer, c), LAMBDA payload :
                LowerToHolder(t, "custom", deps, payload.extras, targetIsConst, payload.c)))

(* What cxx refuses of a type which is, or rests on, an incomplete one. *)
Undestroyable(n, c) ==
    IF n \in c.forward THEN "incomplete type"
    ELSE IF n \in DOMAIN c.incomplete THEN "instantiation on incomplete type"
    ELSE IF n \in DOMAIN c.undestroyable THEN "member on incomplete type"
    ELSE "none"

(* confirm_inner_type_is_acceptable_generic_payload. *)
UnacceptablePayload(t, behavior, c) ==
    IF t.is \notin PathLike THEN "payload is not a path"
    ELSE CASE behavior = "Rust" ->
                IF t.name \in program.rustTypes THEN "none" ELSE "Box of a type not Rust's"
           [] Undestroyable(t.name, c) # "none" -> Undestroyable(t.name, c)
           [] behavior = "CppUniquePtr" ->
                IF PermissibleWithinUniquePtr(t.name) THEN "none" ELSE "type invalid in a pointer"
           [] behavior = "CppSharedPtr" ->
                IF PermissibleWithinSharedOrWeakPtr(t.name) THEN "none" ELSE "type invalid in a pointer"
           [] OTHER ->
                IF ~PermissibleWithinVector(t.name) THEN "type invalid in a vector"
                ELSE IF t.args # <<>> THEN "generic within a vector" ELSE "none"

(* rename_unique_ptr_payloads: the one spelling of an atom cxx does take. *)
RenamedPayload(payload, written, behavior) ==
    IF behavior = "CppUniquePtr" /\ written.name = payload.name /\ payload.name \in DOMAIN PayloadWrapper
    THEN Path(PayloadWrapper[payload.name]) ELSE payload

(* refuse_aliased_atom_payload. *)
AliasedAtom(payload, written, behavior) ==
    behavior = "CppSharedPtr" /\ payload.is \in PathLike /\ written.name # payload.name
        /\ ~PermissibleWithinUniquePtr(payload.name)

HoldPayload(t, inner, payload, behavior, deps, target) ==
    RefuseIf(UnacceptablePayload(payload, behavior, inner.c), inner.c,
        MarkedFrom(Annotated(Generic(ConsiderSubstitution(t.name), <<payload>>),
                             deps \cup inner.deps \cup (IF payload = inner.ty THEN {} ELSE {payload.name}),
                             inner.extras,
                             IF payload.name \in program.subclassHolders THEN "SubclassHolder" ELSE "Regular",
                             inner.c), target))

ConvertContainer(t, behavior, deps, target, c) ==
    Then(Convert(Inner(t), InContainer, c), LAMBDA inner :
        IF AliasedAtom(inner.ty, Inner(t), behavior) THEN Refuse("type invalid in a pointer", inner.c)
        ELSE HoldPayload(t, inner, RenamedPayload(inner.ty, Inner(t), behavior), behavior, deps, target))

(* A template of the user's, which becomes a type of its own. *)
ConvertInstantiation(t, deps, target, ctx, c) ==
    IF \E i \in DOMAIN t.args : t.args[i].is = "path" /\ t.args[i].name \in ctx.params
    THEN Refuse("generic type parameter", c)
    ELSE IF t.name \in c.ignored THEN Refuse("concrete version of ignored template", c)
    ELSE IF Mentions(t, "long double") THEN Refuse("long double", c)
    ELSE IF Mentions(t, "float128") THEN Refuse("float128", c)
    ELSE IF Mentions(t, "volatile") THEN Refuse("volatile template argument", c)
    ELSE IF t.name \in program.smartPointers THEN ConvertCustomPointer(t, deps, target.isConst, c)
    ELSE Then(TemplatedTypename(t, "none", c), LAMBDA named :
            MarkedFrom(Annotated(Path(named.name), deps \cup {named.name}, named.apis, "Regular", named.c), target))

(* A path whose typedefs are resolved: by the template it instantiates. *)
ConvertGeneric(t, behavior, isConst, deps, target, c) ==
    IF isConst /\ behavior \in {"CppUniquePtr", "CppSharedPtr"}
    THEN ConvertConstPointer(t, deps, target.isConst, c)
    ELSE IF behavior = "CppVector" /\ Inner(t).is = "ptr"
    THEN ConvertVectorOfPointers(t, deps, target.isConst, c)
    ELSE IF isConst THEN Refuse("const container payload", c)
    ELSE ConvertContainer(t, behavior, deps, target, c)

ConvertAs(t, behavior, const, deps, target, ctx, c) ==
    IF behavior = "Not"
    THEN IF t.args = <<>>
         THEN MarkedFrom(Annotated(Path(ConsiderSubstitution(t.name)), deps, <<>>, "Regular", c), target)
         ELSE ConvertInstantiation(t, deps, target, ctx, c)
    ELSE IF Mentions(t, "volatile") THEN Refuse("volatile template argument", c)
    ELSE RefuseIf(StringViewPayload(t, c), c,
            RefuseIf(const.err, c, ConvertGeneric(t, behavior, const.holds, deps, target, c)))

ConvertResolved(t, deps, target, ctx, c) ==
    ConvertAs(t, CxxGenericBehavior(t.name), PayloadIsConst(t, c), deps, target, ctx, c)

(* resolve_typedef_target. *)
ConvertTarget(t, target, ctx, c) ==
    CASE target.err # "none" -> Refuse(target.err, c)
      [] target.err = "none" /\ target.ty.is = "path" ->
            ConvertResolved(IF target = NoTarget THEN t ELSE target.ty,
                            {t.name} \cup (IF target = NoTarget THEN {} ELSE {target.ty.name}), target, ctx, c)
      [] target.ty.is = "fnptr" ->
            Then(ConvertFunctionPointer(target.ty, ctx, c), LAMBDA r :
                MarkedConstIf([r EXCEPT !.deps = {t.name}], target.isConst))
      [] target.ty.is = "pin" -> Annotated(target.ty, {t.name}, <<>>, "MutableReference", c)
      [] target.ty.is = "ptr" ->
            Then(ConvertIndirection(target.ty, "Pointer", ctx, c), LAMBDA pointer :
                MarkedConstIf([pointer EXCEPT
                                  !.deps = @ \cup {t.name},
                                  !.kind = IF target.kind = "RValueReference" THEN target.kind ELSE @],
                              target.isConst))
      [] OTHER ->
            MarkedFrom(Annotated(target.ty, {t.name}, <<>>,
                                 IF target.ty.is = "ref" THEN "Reference" ELSE "Regular", c), target)

ConvertAlias(alias, ctx, c) ==
    IF alias = Path("none") THEN Refuse("invalid identifier", c) ELSE Convert(alias, ctx, c)

(* convert_type_path_which_is_not_a_reference. *)
ConvertName(t, ctx, c) ==
    IF t.name \in program.foreign THEN Refuse("unsupported built-in type", c)
    ELSE IF t.name = "va_list" THEN Refuse("va_list", c)
    ELSE IF CppName(t.name) \in program.blocklist THEN Refuse("blocked", c)
    ELSE IF t.name \in program.unnameable THEN ConvertAlias(FollowAlias(t.name, {}, c), ctx, c)
    ELSE ConvertTarget(t, ResolveTypedef(t.name, c), ctx, c)

(* convert_path_which_is_not_a_reference: a result which is destroyed here *)
(* must be of a type somebody defines.                                     *)
Barred(r, ctx) ==
    LET why == Undestroyable(r.ty.name, r.c)
    IN IF ~AllowsIncomplete(ctx) /\ (why = "incomplete type" \/ ~ctx.field) THEN why ELSE "none"

ConvertPath(t, ctx, c) ==
    Then(ConvertName(t, ctx, c), LAMBDA r :
        IF r.ty.is \notin PathLike THEN r
        ELSE RefuseIf(Barred(r, ctx), r.c,
                IF ShouldDereferenceInCpp(r.ty.name) THEN Annotated(Str, r.deps, r.extras, "Reference", r.c) ELSE r))

Convert(t, ctx, c) ==
    CASE t.is = "path" -> ConvertPath(t, ctx, c)
      [] t.is = "fnptr" -> ConvertFunctionPointer(t, ctx, c)
      [] t.is = "const" -> MarkedConst(Convert(Inner(t), ctx, c))
      [] t.is \in {"volatile", "bitfield"} -> Convert(Inner(t), ctx, c)
      [] t.is \in {"opaque", "long double", "float128"} ->
            IF ctx.field THEN Convert(Inner(t), ctx, c) ELSE Refuse(t.is, c)
      [] t.is = "std array" ->
            MarkedFrom(Convert(Inner(t), ctx, c), [isConst |-> FALSE, isStdArray |-> TRUE])
      [] t.is = "lref" -> ConvertLvalueReference(t, ctx, c)
      [] t.is = "rref" -> ConvertIndirection(t, "RValueReference", ctx, c)
      [] t.is = "ptr" -> ConvertIndirection(t, "Pointer", ctx, c)
      [] t.is = "array" -> ConvertArray(t, ctx, c)
      [] t.is = "ref" -> ConvertReference(t, ctx, c)
      [] OTHER -> Refuse("unknown type", c)

-----------------------------------------------------------------------------
(* TypeConverter::new: what a converter reads off the APIs it is given. *)

Fun(domain, F(_)) == [n \in domain |-> F(n)]

Among(api, kinds) == {n \in DOMAIN api : api[n].kind \in kinds}

IncompleteTypes(api) ==
    Among(api, {"forward", "refused forward"}) \cup {n \in Among(api, {"opaque typedef"}) : api[n].forward}

Converter(api, instantiations) ==
    LET Latest(n, F(_)) == F(instantiations[CHOOSE i \in DOMAIN instantiations :
                                instantiations[i].name = n
                                /\ \A j \in DOMAIN instantiations : instantiations[j].name = n => j <= i])
        names == {instantiations[i].name : i \in DOMAIN instantiations}
        c == [typedefs |-> Fun({n \in Among(api, {"typedef"}) : api[n].converted}, LAMBDA n : api[n].target),
              forward |-> IncompleteTypes(api),
              aliases |-> Fun(Among(api, {"typedef"}), LAMBDA n : api[n].written),
              ignored |-> Among(api, {"ignored"}),
              required |-> program.required,
              definitions |-> Fun(names, LAMBDA n : Latest(n, LAMBDA a : a.written)),
              incomplete |-> Fun({n \in names : \E i \in DOMAIN instantiations :
                                    instantiations[i].name = n /\ instantiations[i].incomplete # "none"},
                                 LAMBDA n : Latest(n, LAMBDA a : a.incomplete)),
              memo |-> {[definition |-> a.definition, name |-> a.name] : a \in Range(instantiations)},
              deferred |-> << >>, undestroyable |-> << >>]
    IN [c EXCEPT !.undestroyable = ClassesWeMayNotDestroy(program.structs, << >>, c)]

(* attach_deferred_holder_surfaces. *)
Mut_AttachSurfaces(instantiations, deferred) == instantiations

AttachSurfaces(instantiations, deferred) ==
    [i \in DOMAIN instantiations |->
        IF instantiations[i].surface = "none" /\ instantiations[i].name \in DOMAIN deferred
        THEN [instantiations[i] EXCEPT !.surface = deferred[instantiations[i].name]]
        ELSE instantiations[i]]

Init ==
    /\ program \in Programs
    /\ phase = "typedefs" /\ at = 1
    /\ apis = program.apis
    /\ concrete = program.concrete
    /\ conv = Converter(program.apis, program.concrete)
    /\ spoken = <<>>

-----------------------------------------------------------------------------
(* convert_typedef_targets. *)

Ignored(api, err) == [api EXCEPT !.kind = "ignored", !.err = err]
Opaque(n, api) == [api EXCEPT !.kind = "opaque typedef", !.forward = n \notin program.instantiable]
Target(r) == [err |-> "none", ty |-> r.ty, kind |-> r.kind, isConst |-> r.isConst, isStdArray |-> r.isStdArray]

(* get_replacement_typedef; a use keeps its target, a fatal attribute,     *)
(* parameters of its own or an alias template cost the typedef.            *)
ReplacementTypedef(n, api, r) ==
    CASE api.refused -> Ignored(api, "refused")
      [] ~api.refused /\ (api.use \/ api.written.is = "fnptr") ->
            [api EXCEPT !.converted = TRUE,
                        !.target = [NoTarget EXCEPT !.ty = api.written,
                                                    !.kind = IF api.use THEN "Regular" ELSE "Pointer"]]
      [] OTHER ->
            IF r.err = "opaque" /\ ~api.nested THEN Opaque(n, api)
            ELSE IF r.err # "none" \/ (r.ty.is \in PathLike /\ r.ty.name = n) THEN Ignored(api, r.err)
            ELSE [api EXCEPT !.converted = TRUE, !.target = Target(r), !.deps = r.deps]

IsConverted(api) == ~api.refused /\ ~api.use /\ api.written.is # "fnptr"

ConvertTypedef ==
    /\ phase = "typedefs" /\ at <= Len(program.typedefs)
    /\ \E n \in {program.typedefs[at]} : \E r \in {Convert(apis[n].written, InTypedef, conv)} :
       \E api \in {ReplacementTypedef(n, apis[n], r)} :
          /\ apis' = [apis EXCEPT ![n] = api]
          /\ conv' = IF IsConverted(apis[n]) THEN r.c ELSE conv
          /\ concrete' = IF IsConverted(apis[n]) /\ api.kind = "typedef" THEN concrete \o r.extras ELSE concrete
    /\ at' = at + 1
    /\ UNCHANGED <<program, phase, spoken>>

(* ignore_typedefs_to_alias_templates: to a fixpoint. *)
RECURSIVE WithoutAliasTemplates(_, _)
WithoutAliasTemplates(api, templates) ==
    LET lost == {n \in Among(api, {"typedef"}) : api[n].deps \cap templates # {}}
    IN IF lost = {} THEN api
       ELSE WithoutAliasTemplates([n \in DOMAIN api |-> IF n \in lost THEN Ignored(api[n], "alias template") ELSE api[n]], lost)

EndTypedefs ==
    /\ phase = "typedefs" /\ at > Len(program.typedefs)
    /\ apis' = WithoutAliasTemplates(apis, {n \in Among(apis, {"ignored"}) : apis[n].template})
    /\ concrete' = AttachSurfaces(concrete, conv.deferred)
    /\ conv' = Converter(apis', concrete')
    /\ phase' = "fields" /\ at' = 1
    /\ UNCHANGED <<program, spoken>>

-----------------------------------------------------------------------------
(* get_struct_field_types, and FnAnalyzer::convert_boxed_type. *)

Speak(t, ctx, place) ==
    \E r \in {Convert(t, ctx, conv)} :
       /\ spoken' = Append(spoken, [place |-> place, written |-> t, err |-> r.err, ty |-> r.ty, deps |-> r.deps])
       /\ concrete' = concrete \o r.extras
       /\ conv' = r.c
       /\ at' = at + 1
       /\ UNCHANGED <<program, phase, apis>>

ConvertField ==
    /\ phase = "fields" /\ at <= Len(program.fields)
    /\ LET field == program.fields[at]
       IN Speak(program.structs[field.of].fields[field.at], InField(program.structs[field.of].params), "field")

EndFields ==
    /\ phase = "fields" /\ at > Len(program.fields)
    /\ concrete' = AttachSurfaces(concrete, conv.deferred)
    /\ phase' = "statics" /\ at' = 1
    /\ UNCHANGED <<program, apis, conv, spoken>>

-----------------------------------------------------------------------------
(* expose_statics: a variable of a type which Rust sees as C++ lays it out *)
(* is re-exported; any other is read through a getter, which hands back a  *)
(* holder of a reference to it.                                            *)

IsRepresentable(n) == n \in program.pods
IsHoldable(n) == (n \in DOMAIN program.structs /\ program.structs[n].params = {}) \/ IsKnownType(n)

ReferenceHolder(n) == Generic("std::reference_wrapper", <<Marked("const", Path(n))>>)
HoldersOf(n) == {a \in Range(concrete) : a.definition = CppDefinition(ReferenceHolder(n))}

Mut_StaticError(static) ==
    CASE ~static.named -> "static data of unknown C++ name"
      [] static.named /\ IsStringView(static.type) -> "string_view out of C++"
      [] OTHER -> IF IsHoldable(static.type) THEN "none" ELSE "static data of unholdable type"

StaticError(static) ==
    CASE ~static.named -> "static data of unknown C++ name"
      [] static.named /\ IsStringView(static.type) -> "string_view out of C++"
      [] OTHER ->
            CASE ~IsHoldable(static.type) -> "static data of unholdable type"
              [] \E a \in HoldersOf(static.type) : a.surface # "const reference" -> "static data holder already taken"
              [] OTHER -> "none"

(* holder_for *)
FreeHolderName(definition) ==
    LET taken == DOMAIN apis \cup {a.name : a \in Range(concrete)}
        stem == ConcreteTypeIdent(definition)
        numbered[n \in 0..Cardinality(taken)] == IF n = 0 THEN stem ELSE stem \o ToString(n)
        free == {n \in DOMAIN numbered : numbered[n] \notin taken}
    IN numbered[CHOOSE n \in free : \A m \in free : n <= m]

NewHolder(n) ==
    LET written == ReferenceHolder(n)
        definition == CppDefinition(written)
    IN [name |-> FreeHolderName(definition), definition |-> definition, written |-> written,
        surface |-> "const reference", incomplete |-> "none"]

HolderFor(n) == IF HoldersOf(n) = {} THEN NewHolder(n) ELSE CHOOSE a \in HoldersOf(n) : TRUE

ReExport == UNCHANGED <<concrete, spoken>>

(* What the getter returns has still to be spoken of among the signatures; *)
(* the holder is added after everything there was.                         *)
ReadThroughHolder(static) ==
    \E err \in {StaticError(static)} : \E holder \in {HolderFor(static.type)} :
       /\ spoken' = Append(spoken, [place |-> "static", written |-> Path(static.type), err |-> err,
                                    ty |-> Path(IF err = "none" THEN holder.name ELSE "none"),
                                    deps |-> IF err = "none" THEN {holder.name} ELSE {}])
       /\ concrete' = IF err # "none" \/ holder \in Range(concrete) THEN concrete ELSE Append(concrete, holder)

ExposeStatic ==
    /\ phase = "statics" /\ at <= Len(program.statics)
    /\ IF IsRepresentable(program.statics[at].type) THEN ReExport ELSE ReadThroughHolder(program.statics[at])
    /\ at' = at + 1
    /\ UNCHANGED <<program, phase, apis, conv>>

(* replace_hopeless_typedef_targets. *)
Hopeless(n) ==
    LET api == apis[n]
        blamed == api.deps \cap Among(apis, {"ignored"})
        refused == api.deps \cap Among(apis, {"refused forward"})
    IN IF api.kind = "refused forward" THEN Ignored(api, "refused")
       ELSE IF api.kind # "typedef" THEN api
       ELSE IF blamed # {}
       THEN IF \E b \in blamed : apis[b].err = "va_list" THEN Ignored(api, "va_list")
            ELSE IF api.nested THEN Ignored(api, "nested opaque typedef") ELSE Opaque(n, api)
       ELSE IF refused # {} THEN [api EXCEPT !.kind = "opaque typedef", !.forward = TRUE]
       ELSE api

EndStatics ==
    /\ phase = "statics" /\ at > Len(program.statics)
    /\ apis' = [n \in DOMAIN apis |-> Hopeless(n)]
    /\ conv' = Converter(apis', concrete)
    /\ phase' = "signatures" /\ at' = 1
    /\ UNCHANGED <<program, concrete, spoken>>

-----------------------------------------------------------------------------
(* The signatures. *)

ConvertSignature ==
    /\ phase = "signatures" /\ at <= Len(program.signatures)
    /\ Speak(program.signatures[at], Outer, "signature")

EndSignatures ==
    /\ phase = "signatures" /\ at > Len(program.signatures)
    /\ concrete' = AttachSurfaces(concrete, conv.deferred)
    /\ phase' = "done"
    /\ UNCHANGED <<program, at, apis, conv, spoken>>

Next ==
    \/ ConvertTypedef \/ EndTypedefs
    \/ ConvertField \/ EndFields
    \/ ExposeStatic \/ EndStatics
    \/ ConvertSignature \/ EndSignatures

Spec == Init /\ [][Next]_vars

-----------------------------------------------------------------------------
(* What the program says, read with no converter and no order. *)

Accepted == {u \in Range(spoken) : u.err = "none"}

ConcreteNames == {a.name : a \in Range(concrete)}

(* A use which no later filter drops for something it depends on. *)
Bound(u) ==
    u \in Accepted /\ \A d \in u.deps :
        \/ d \in ConcreteNames \/ IsKnownType(d)
        \/ d \in DOMAIN apis /\ apis[d].kind # "ignored"

(* A type with these typedefs of it, and its qualifiers, written out. *)
RECURSIVE Expanded(_, _)
Expanded(t, typedefs) ==
    LET bare == Strip(t, Transparent)
    IN IF bare.is = "path" /\ bare.name \in typedefs
       THEN Expanded(program.apis[bare.name].written, typedefs \ {bare.name})
       ELSE [bare EXCEPT !.name = CppName(@), !.args = [i \in DOMAIN bare.args |-> Expanded(bare.args[i], typedefs)]]

(* Destroying one takes a definition nobody has: the type itself, or an    *)
(* argument at any depth, short of a pointer, or a member of a class held  *)
(* by value or in a container.                                             *)
RECURSIVE Unfinished(_, _, _)
Unfinished(t, typedefs, met) ==
    LET name == t.name
        destroyed == met \cup (IF t.args = <<>> \/ IsKnownType(name) THEN {} ELSE DOMAIN program.structs)
    IN /\ t.is = "path"
       /\ \/ name \in Among(program.apis, {"forward", "refused forward"})
          \/ \E i \in DOMAIN t.args : Unfinished(t.args[i], typedefs, destroyed)
          \/ /\ name \in DOMAIN program.structs \ met /\ ~program.structs[name].destructor
             /\ \E i \in DOMAIN program.structs[name].fields :
                   Unfinished(Strip(Expanded(program.structs[name].fields[i], typedefs), {"array"}),
                              typedefs, met \cup {name})

DestroysUnfinished(u, typedefs) ==
    u.place = "signature" /\ Bound(u) /\ Unfinished(Expanded(u.written, typedefs), typedefs, {})

RECURSIVE Unspeakable(_)
Unspeakable(t) ==
    \/ t.is \in Transparent \cup {"fnptr", "lref", "rref"}
    \/ t.is = "path" /\ t.name \in program.blocklist \cup program.unnameable \cup {"va_list"}
    \/ t.is = "path" /\ t.args # <<>> /\ CxxGenericBehavior(t.name) = "Not"
    \/ \E i \in DOMAIN t.args : Unspeakable(t.args[i])

Kinds == {"struct", "forward", "refused forward", "typedef", "ignored", "opaque typedef"}

(* Type invariant of the passes and of the converter they carry. *)
TypeOK ==
    /\ phase \in {"typedefs", "fields", "statics", "signatures", "done"} /\ at \in Nat \ {0}
    /\ \A n \in DOMAIN apis : apis[n].kind \in Kinds
    /\ \A m, o \in conv.memo : m.definition = o.definition => m = o
    /\ DOMAIN conv.typedefs \subseteq DOMAIN apis
    /\ \A n \in DOMAIN conv.incomplete : conv.incomplete[n] \in DOMAIN apis

(* No bindgen marker, template argument list or indirection cxx does not   *)
(* have survives in a signature the converter accepts, however typedefs    *)
(* and containers nest it.                                                 *)
AcceptedIsSpeakable ==
    \A u \in Accepted : u.place = "signature" => ~Unspeakable(u.ty)

(* A function which is bound never makes C++ destroy what nobody defines:  *)
(* not by value, not in a container which owns it, not through a typedef   *)
(* no pass refused, a template argument, or a member of a class.           *)
BoundDestroysOnlyWhole ==
    \A u \in Range(spoken) : ~DestroysUnfinished(u, Among(apis, {"typedef"}))

(* The same, for every typedef the header has: an argument written as an   *)
(* alias is the same argument.                                             *)
AnAliasIsTheSameArgument ==
    \A u \in Range(spoken) : ~DestroysUnfinished(u, Among(program.apis, {"typedef"}))

(* Two instantiations never share a name, although flattening may give     *)
(* them the same one and each phase names afresh; nor does one have two.   *)
NamesAreNeverShared ==
    \A i, j \in DOMAIN concrete :
        concrete[i].name = concrete[j].name <=> concrete[i].definition = concrete[j].definition

(* A pointer of const, a vector of pointers or a smart pointer of the      *)
(* user's is bound with the functions which make it usable, also where     *)
(* the instantiation already had a name before anyone asked for them; what *)
(* a variable is read through can always be looked into.                   *)
IsHolder(t) ==
    \/ t.name \in program.smartPointers
    \/ CxxGenericBehavior(t.name) \in {"CppUniquePtr", "CppSharedPtr"} /\ Inner(t).is = "const"
    \/ CxxGenericBehavior(t.name) = "CppVector" /\ Inner(t).is = "ptr"

HoldersAreUsable ==
    phase = "done" => \A u \in Accepted : \A a \in Range(concrete) :
        a.name = u.ty.name => /\ IsHolder(a.definition) => a.surface # "none"
                              /\ u.place = "static" => a.surface = "const reference"
================================================================================

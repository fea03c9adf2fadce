----------------------------- MODULE Signatures -----------------------------
(***************************************************************************)
(* What the function analysis makes of one signature: each parameter and   *)
(* the return type become what the bridge speaks with a policy for getting *)
(* there, and from those, the function's kind and what C++ says of it      *)
(* follow the reasons not to bind it and whether calling it is unsafe      *)
(* (analysis/fun/mod.rs).                                                  *)
(***************************************************************************)
EXTENDS Conversions, SequencesExt

VARIABLE program        \* the library and the directives: it does not change

(* A type as bindgen writes it in a signature: how it refers to `of`,      *)
(* whether that is mutable, whether it is volatile, whether a typedef      *)
(* hides the spelling, and the error TypeConverter has for it, if any.     *)
Written(by, of, mut) ==
    [by |-> by, of |-> of, mut |-> mut, volatile |-> FALSE, alias |-> FALSE, err |-> "none"]
NoReturn == Written("value", "void", TRUE)

IsPointing(w) == w.by \in {"ptr", "lref", "rref"}

(* convert_boxed_type. *)
Convert(w) ==
    [err |-> w.err, of |-> w.of,
     isConst |-> w.by = "value" /\ ~w.mut,
     volatilePointee |-> w.volatile /\ IsPointing(w),
     kind |-> CASE w.by = "lref" -> IF w.mut THEN "MutableReference" ELSE "Reference"
                [] w.by = "rref" -> "RValueReference"
                [] w.by = "ptr" -> "Pointer"
                [] w.by = "holder" -> "SubclassHolder"
                [] OTHER -> "Regular",
     ty |-> CASE w.by \in {"value", "holder"} -> PathTo(w.of)
              [] w.by = "lref" -> IF w.mut THEN PinTo(w.of) ELSE ReferenceTo(w.of)
              [] w.by \in {"ptr", "rref"} -> PointerTo(w.of, w.mut)
              [] OTHER -> RustType(w.by, w.of, FALSE)]

-----------------------------------------------------------------------------
(* What is known of the library's types. *)

Structs == {t \in DOMAIN program.types : program.types[t].kind = "struct"}
Enums == {t \in DOMAIN program.types : program.types[t].kind = "enum"}
Holding(t) == program.types[t]

PodSafeTypes(n) == PodSafe(n) \/ n \in Enums \/ (n \in Structs /\ Holding(n).pod)
MoveitSafeTypes(n) == MoveitSafe(n) \/ n \in Structs \cup Enums
GenericTypes == {t \in Structs : Holding(t).generic}
TypesInAnonymousNamespace == {t \in Structs : Holding(t).anonymous}

(* Both names a directive may call a class by. *)
Spellings(t) == {t} \cup IF t \in DOMAIN program.types THEN {Holding(t).spelling} ELSE {}
IsOnAllowlist(t) == Spellings(t) \cap program.allowlist # {}
NestedTypeIdent(t) == IF t \in DOMAIN program.types THEN Holding(t).nestedIdent ELSE t

PermissibleArrayElement(n) ==
    PermissibleWithinArray(n) \/ RelocatableNewtype(n) \/ (~IsKnownType(n) /\ PodSafeTypes(n))

SignatureArrayError(ty) ==
    CASE ty.form = "array pointer" -> "C++ array in signature"
      [] ty.form = "array" /\ ~PermissibleArrayElement(ty.of) -> "C++ array element not supported"
      [] OTHER -> "none"

WrapsReferences == program.policy = "references wrapped"

-----------------------------------------------------------------------------
(* argument_conversion_details, and what may be said of a volatile.        *)

Converted(policy) == [err |-> "none", policy |-> policy]
Refused(err) == [err |-> err, policy |-> Unconverted(PathTo("void"))]
If(condition, err) == IF condition THEN err ELSE "none"
RefusedIf(err, r) == IF err # "none" THEN Refused(err) ELSE r

(* What comes next, unless that much already failed. *)
Then(r, Goes(_)) == IF r.err # "none" THEN [err |-> r.err] ELSE Goes(r)

StringViewParameter(ty) ==
    CASE ty.form \notin {"path", "ref", "pin", "ptr"} -> "none"
      [] ty.form \in {"path", "ref", "pin", "ptr"} /\ IsStringView(ty.of) ->
            IF ty.form \in {"path", "ref"} THEN "buildable" ELSE IF ty.form = "pin" THEN "mutable" ELSE "indirect"
      [] OTHER -> "none"

ReadableOutOfVolatile(n) == CopyableFromVolatile(n)
CopyableOutOfVolatile(ty) ==
    ty.form = "ptr" \/ (ty.form = "path" /\ (CopyableFromVolatile(ty.of) \/ ty.of \in Enums))

VolatileHandlePossible(ty) == ty.form \in {"ptr", "ref", "pin"} /\ ReadableOutOfVolatile(ty.of)

VolatilePointee(ty, isReturn) ==
    LET what == IF ty.form = "ptr" THEN "pointer" ELSE "reference"
    IN Pointer(PointerTo(ty.of, ty.mut),
               IF isReturn THEN "volatile " \o what \o " to pointer" ELSE "pointer to volatile " \o what,
               IF isReturn THEN "pointer to volatile handle" ELSE "volatile handle to pointer")

(* A value which is not a reference. *)
Mut_ByValue(ty, isReference, simple) ==
    IF PodSafeTypes(ty.of)
    THEN IF isReference \/ IsKnownType(ty.of) THEN Unconverted(ty) ELSE Whole(ty, "move or copy", "none")
    ELSE CASE ConvertibleFromStrs(ty.of) /\ ~program.excludeUtilities -> Whole(ty, "unique_ptr to value", "from str")
           [] OTHER -> IF simple THEN Whole(ty, "unique_ptr to value", "none")
                       ELSE Whole(ty, "pointer to value", "value param to pointer")
ByValue(ty, isReference, simple) ==
    IF PodSafeTypes(ty.of)
    THEN CASE LacksCopyConstructor(ty.of) -> Whole(ty, "move", "none")
           [] ~LacksCopyConstructor(ty.of) /\ (isReference \/ IsKnownType(ty.of)) -> Unconverted(ty)
           [] OTHER -> Whole(ty, "move or copy", "none")
    ELSE CASE ConvertibleFromStrs(ty.of) /\ ~program.excludeUtilities -> Whole(ty, "unique_ptr to value", "from str")
           [] OTHER -> IF simple THEN Whole(ty, "unique_ptr to value", "none")
                       ELSE Whole(ty, "pointer to value", "value param to pointer")

OnPointer(forced) == IF forced = "identity" THEN "none" ELSE forced

WrappedReference(ty) ==
    Pointer(PointerTo(ty.of, ty.mut), "pointer to reference", "wrapper to pointer")

Indirect(c, isMove, forced, isSelf, placement) ==
    LET isReference == isSelf \/ c.kind \in {"Reference", "MutableReference"}
        wrapped == WrapsReferences /\ forced = "none"
    IN CASE c.ty.form = "ptr" /\ isMove -> Converted(Pointer(c.ty, "pointer to move", OnPointer(forced)))
         [] c.ty.form = "ptr" /\ ~isMove /\ c.kind = "RValueReference" ->
                Converted(Whole(PathTo(c.of), "pointer to value", "rvalue param to pointer"))
         [] c.ty.form = "ptr" /\ ~isMove /\ c.kind # "RValueReference" ->
                Converted(IF wrapped /\ isReference /\ ~placement THEN WrappedReference(c.ty)
                          ELSE Pointer(c.ty, "none", OnPointer(forced)))
         [] c.ty.form = "pin" -> Converted(IF wrapped THEN WrappedReference(c.ty) ELSE Unconverted(c.ty))
         [] c.ty.form = "ref" /\ wrapped /\ ~placement -> Converted(WrappedReference(c.ty))
         [] OTHER -> IF forced \in {"none", "identity"} THEN Converted(Unconverted(c.ty))
                     ELSE Refused("parameter was not a pointer")

ConvertParameter(c, view, isMove, forced, simple, isSelf, placement) ==
    CASE view = "buildable" ->
            IF program.excludeUtilities THEN Refused("string_view without utilities")
            ELSE Converted(Whole(PathTo(c.of), "bytes to string_view", "from bytes"))
      [] view \in {"mutable", "indirect"} -> Refused(view \o " string_view")
      [] view = "none" /\ c.kind = "SubclassHolder" -> Converted(Whole(c.ty, "move", "boxed holder"))
      [] view = "none" /\ forced = "placement to new return" /\ ~simple ->
            Converted(Pointer(c.ty, "ignored placement", forced))
      [] OTHER ->
            CASE c.volatilePointee /\ VolatileHandlePossible(c.ty) ->
                    IF c.kind = "RValueReference" THEN Refused("volatile rvalue reference")
                    ELSE Converted(VolatilePointee(c.ty, FALSE))
              [] c.ty.form = "path" -> Converted(ByValue(c.ty, isSelf, simple))
              [] OTHER -> Indirect(c, isMove, forced, isSelf, placement)

ArgumentConversion(c, isMove, forced, simple, isSelf, placement) ==
    RefusedIf(SignatureArrayError(c.ty),
              ConvertParameter(c, StringViewParameter(c.ty), isMove, forced, simple, isSelf, placement))

-----------------------------------------------------------------------------
(* convert_fn_arg.  A parameter is a name and a type; `this` is spoken of  *)
(* as a reference when asked, and as the class it stands in for.           *)

ArgumentError(err) == [err |-> err]

Argument(name, self, selfMut, c, policy, placement) ==
    [err |-> "none", name |-> name, self |-> self, selfMut |-> selfMut, policy |-> policy,
     ty |-> c.ty, of |-> c.of, placement |-> placement,
     hasLifetime |-> c.kind \in {"Reference", "MutableReference"},
     mutable |-> c.kind = "MutableReference",
     unsafe |-> CASE (c.kind = "Pointer" \/ c.volatilePointee) /\ ~placement -> "always"
                  [] BridgeUnsafeNeeded(policy) \/ placement -> "just bridge"
                  [] OTHER -> "none"]

Plainly == [this |-> "none", asReference |-> TRUE, isMove |-> FALSE, forced |-> "none",
            simple |-> FALSE, intoSelf |-> FALSE]

IsPlacement(isThis, how) == (isThis /\ how.intoSelf) \/ how.forced = "placement to new return"

SpokenOf(p, isThis, this, how) ==
    CASE isThis /\ how.asReference -> [p.type EXCEPT !.of = this, !.by = "lref"]
      [] isThis /\ ~how.asReference -> [p.type EXCEPT !.of = this]
      [] OTHER -> p.type

ConvertParam(p, isThis, this, how) ==
    Then(Convert(SpokenOf(p, isThis, this, how)), LAMBDA c :
        Then(ArgumentConversion(c, how.isMove, how.forced, how.simple, isThis, IsPlacement(isThis, how)), LAMBDA r :
            Argument(IF isThis /\ how.asReference THEN "self" ELSE p.name,
                     IF isThis THEN this ELSE "none", isThis /\ p.type.mut, c, r.policy, IsPlacement(isThis, how))))

ConvertFnArg(p, how) ==
    CASE p.name = "this" /\ p.type.by # "ptr" -> ArgumentError("unexpected this type")
      [] p.name # "this" /\ p.name \in program.invalidIdents -> ArgumentError("invalid identifier")
      [] OTHER -> ConvertParam(p, p.name = "this", IF how.this = "none" THEN p.type.of ELSE how.this, how)

-----------------------------------------------------------------------------
(* convert_return_type.  `into` is the parameter a placement return needs. *)

ReturnAnalysis(err, ty, policy, c) ==
    [err |-> err, ty |-> ty, policy |-> policy, into |-> <<>>, deps |-> {c.of},
     wasReference |-> FALSE, wasMutableReference |-> FALSE, wasRValueReference |-> FALSE,
     wasConst |-> c.isConst, wasVolatile |-> FALSE]

Nothing == RustType("path", "void", FALSE)
ReturnsNothing == [ReturnAnalysis("none", Nothing, Unconverted(Nothing), Convert(NoReturn)) EXCEPT !.deps = {}]
ReturnError(err) == [ReturnsNothing EXCEPT !.err = err]
ReturnErrorIf(err, r) == IF err # "none" THEN ReturnError(err) ELSE r

PlacementDestination(of) ==
    ConvertFnArg([name |-> "placement_return_type", type |-> Written("ptr", of, TRUE)],
                 [Plainly EXCEPT !.asReference = FALSE, !.forced = "placement to new return"])

Referring(c) ==
    LET r == [ReturnAnalysis("none", c.ty, Unconverted(c.ty), c) EXCEPT
                 !.wasReference = c.kind \in {"Reference", "MutableReference"},
                 !.wasMutableReference = c.kind = "MutableReference",
                 !.wasRValueReference = c.kind = "RValueReference"]
    IN CASE c.kind = "RValueReference" -> [r EXCEPT !.policy = RValueReferenceReturn(c.ty, WrapsReferences)]
         [] r.wasReference /\ WrapsReferences -> [r EXCEPT !.policy = WrappedReferenceReturn(c.ty)]
         [] OTHER -> r

ReturnConversion(w, c, handle, simple) ==
    CASE handle -> ReturnErrorIf(If(w.by = "rref" /\ ~w.alias, "volatile rvalue reference"),
                                 ReturnAnalysis("none", c.ty, VolatilePointee(c.ty, TRUE), c))
      [] ~handle /\ c.ty.form = "path" /\ ~PodSafeTypes(c.of) ->
            IF MoveitSafeTypes(c.of) /\ ~simple
            THEN [ReturnAnalysis("none", Nothing, PlacementReturn(c.ty), c) EXCEPT
                     !.into = <<PlacementDestination(c.of)>>]
            ELSE ReturnAnalysis("none", c.ty, ToUniquePtr(c.ty), c)
      [] OTHER -> Referring(c)

ReturnTypeError(c, wasVolatile) ==
    CASE c.err # "none" -> c.err
      [] c.err = "none" /\ wasVolatile /\ ~CopyableOutOfVolatile(c.ty) -> "volatile return"
      [] OTHER -> SignatureArrayError(c.ty)

ConvertReturn(w, c, wasVolatile, simple) ==
    ReturnErrorIf(ReturnTypeError(c, wasVolatile), ReturnErrorIf(If(IsStringView(c.of), "string_view out of C++"),
        [ReturnConversion(w, c, c.volatilePointee /\ VolatileHandlePossible(c.ty), simple) EXCEPT
            !.wasVolatile = wasVolatile]))

ConvertReturnType(w, simple) ==
    IF w = NoReturn THEN ReturnsNothing
    ELSE ConvertReturn(w, Convert(w), w.by = "value" /\ w.volatile, simple)

-----------------------------------------------------------------------------
(* Kinds of function. *)

Constructors == {"CopyConstructor", "MoveConstructor"}
TraitMethods == Constructors \cup {"Cast", "Destructor", "Alloc", "Dealloc"}
Methods == {"Normal", "Constructor", "Static", "Virtual", "PureVirtual"}
CallableOnAnObject == {"Normal", "Virtual", "PureVirtual"}
FnKind(is, of, mut) == [is |-> is, of |-> of, mut |-> mut]
ClassOf(kind) == IF kind.is = "Function" THEN "none" ELSE kind.of

(* UnsafetyNeeded, from the least to the most. *)
Mut_FromParamDetails(params, ignorePlacements) ==
    IF \E i \in DOMAIN params : /\ params[i].unsafe = "always"
                               /\ ~((params[i].self # "none" \/ params[i].placement) /\ ignorePlacements)
    THEN "always" ELSE "none"
FromParamDetails(params, ignorePlacements) ==
    LET Needs(p) == IF (p.self # "none" \/ p.placement) /\ ignorePlacements /\ p.unsafe = "always"
                    THEN "just bridge" ELSE p.unsafe
        needs == {Needs(params[i]) : i \in DOMAIN params}
    IN CASE "always" \in needs -> "always"
         [] "always" \notin needs /\ "just bridge" \in needs -> "just bridge"
         [] OTHER -> "none"

ShouldBeUnsafe(params, kind) ==
    LET unsafest == FromParamDetails(params, FALSE)
        unsafestNonPlacement == FromParamDetails(params, TRUE)
        atMostBridge == IF unsafest = "always" THEN "just bridge" ELSE unsafest
    IN CASE kind.is \in Constructors \cup {"Alloc", "Dealloc"} -> "always"
         [] kind.is \in {"Cast", "Destructor"} -> atMostBridge
         [] OTHER ->
                CASE program.policy = "all functions unsafe" -> "always"
                  [] program.policy # "all functions unsafe" /\ unsafestNonPlacement = "always" -> "always"
                  [] OTHER -> IF unsafest = "always" THEN "just bridge"
                              ELSE IF unsafestNonPlacement = "just bridge" THEN "just bridge" ELSE unsafest

(* reanalyze_parameter, for the kinds whose parameters are not what a      *)
(* reference would make of them: which, and how.                           *)
Reanalyzed(kind, fun, simple) ==
    LET as == [Plainly EXCEPT !.this = fun.this, !.asReference = FALSE, !.simple = simple]
    IN CASE kind.is = "Constructor" -> <<[as EXCEPT !.intoSelf = TRUE]>>
         [] kind.is = "Destructor" -> <<[as EXCEPT !.forced = "type to pointer"]>>
         [] kind.is = "CopyConstructor" ->
                <<[as EXCEPT !.forced = "pin maybe uninit to pointer"], [as EXCEPT !.forced = "identity"]>>
         [] kind.is = "MoveConstructor" ->
                <<[as EXCEPT !.forced = "pin maybe uninit to pointer"],
                  [as EXCEPT !.forced = "pin move ref to pointer", !.isMove = TRUE]>>
         [] OTHER -> <<>>

(* The errors in the order the code sets them: the last one set stands.    *)
LastOf(errs) ==
    LET set == SelectSeq(errs, LAMBDA e : e # "none") IN IF set = <<>> THEN "none" ELSE Last(set)

MethodError(kind) ==
    LET of == ClassOf(kind)
    IN CASE kind.is = "Function" -> "none"
         [] kind.is \notin {"Function", "Static"} /\ IsKnownType(of) -> "unsupported receiver"
         [] kind.is \in Methods /\ ~IsOnAllowlist(of) /\ of \notin program.instantiable ->
                "method of non-allowlisted type"
         [] OTHER -> LastOf(<<If(of \in GenericTypes, "method of generic type"),
                              If(of \in TypesInAnonymousNamespace, "method in anonymous namespace")>>)

DeclarationError(fun, kind, badArgument) ==
    CASE badArgument # "none" -> badArgument
      [] badArgument = "none" /\ fun.special = "assignment" -> "assignment operator"
      [] OTHER ->
            CASE fun.ret.by = "rref" /\ ~fun.ret.alias -> "rvalue return"
              [] fun.refq = "&&" -> "rvalue ref qualified method"
              [] fun.deleted = "deleted" -> "deleted"
              [] OTHER -> MethodError(kind)

ReferenceErrors(fun, r, params) ==
    LET Count(mutableOnly) ==
            Cardinality({i \in DOMAIN params : params[i].hasLifetime /\ (mutableOnly => params[i].mutable)})
        assignment == fun.special = "assignment"
    IN IF assignment THEN <<>>
       ELSE <<If(r.wasRValueReference, "rvalue return"),
              If(r.wasReference /\ Count(FALSE) = 0, "no input reference"),
              If(r.wasReference /\ Count(FALSE) > 1, "multiple input references"),
              If(r.wasMutableReference /\ Count(TRUE) = 0, "no mutable input reference"),
              If(r.wasMutableReference /\ Count(TRUE) > 1, "multiple mutable input references")>>
================================================================================

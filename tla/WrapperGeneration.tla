--------------------------- MODULE WrapperGeneration ---------------------------
(***************************************************************************)
(* What is generated for the functions analysed: the declaration in the    *)
(* bridge and the Rust wrapper over it (codegen_rs/fun_codegen.rs,         *)
(* lifetime.rs), the C++ wrapper under it, and the C++ peer class of each  *)
(* Rust subclass (codegen_cpp/mod.rs).  The two generators never see each  *)
(* other's output: the C++ compiler, cxx and rustc are the first to.       *)
(***************************************************************************)
EXTENDS BridgeNames

Done == phase = "done"
Generated == IF Done THEN {f \in Functions : f.err = "none" /\ f.callable} ELSE {}
Overrides == IF Done THEN SubclassFunctions ELSE {}

-----------------------------------------------------------------------------
(* What the library declares, in C++'s own terms.                          *)

CppTypeOf(w) ==
    [CppType(IF w.by = "holder" THEN "value" ELSE w.by, w.of, w.mut) EXCEPT !.volatile = w.volatile]
(* A function's type forgets what is said of a by-value parameter.         *)
ByParameter(t) == IF t.by = "value" THEN [t EXCEPT !.mut = TRUE, !.volatile = FALSE] ELSE t
Declared(params) == [i \in DOMAIN params |-> ByParameter(CppTypeOf(params[i].type))]
Policies(params) == [i \in DOMAIN params |-> params[i].policy]

(* Whether an expression may initialise something of a type.               *)
Copyable(t) ==
    /\ ~t.own
    /\ \/ t.of \in DOMAIN program.types /\ Holding(t.of).copyable
       \/ IsKnownType(t.of) /\ ~LacksCopyConstructor(t.of)
SameObject(e, t) == e.type.of = t.of /\ e.type.own = t.own /\ e.type.by = "value"
Binds(e, t) ==
    \/ e.type.of = "autocxx::CppStringView" /\ t.by \in {"value", "lref"} /\ IsStringView(t.of)
    \/ /\ t.by = "value" /\ SameObject(e, t)
       /\ e.category = "lvalue" => Copyable(t)
       /\ e.type.volatile => IsKnownType(t.of) \/ t.of \in Enums
    \/ /\ t.by = "ptr" /\ e.type.by = "ptr" /\ e.type.of = t.of
       /\ t.mut => e.type.mut
       /\ e.type.volatile => t.volatile
    \/ /\ t.by \in {"lref", "rref"} /\ SameObject(e, t)
       /\ t.mut => e.type.mut
       /\ e.type.volatile => t.volatile
       /\ t.by = "lref" /\ t.mut => e.category = "lvalue"
       /\ t.by = "rref" => e.category # "lvalue"

-----------------------------------------------------------------------------
(* generate_cpp_function_inner, for each of the directions a call goes.    *)

DeclaredByWrapper(direction, p) ==
    CASE direction = "Rust calls C++" -> UnconvertedCppType(p)
      [] direction = "C++ calls C++" -> ConvertedCppType(p)
      [] OTHER -> UnconvertedCppType(Inverted(p))
HandedOn(direction, p) ==
    LET arg == Variable(DeclaredByWrapper(direction, p))
    IN CASE direction = "Rust calls C++" -> CppConversion(p, arg, FALSE)
         [] direction = "C++ calls C++" -> arg
         [] OTHER -> CppConversion(Inverted(p), arg, FALSE)

ReturnedByWrapper(direction, r) ==
    CASE direction = "Rust calls C++" -> IF PopulatesReturnValue(r) THEN ConvertedCppType(r) ELSE NoCppType
      [] direction = "C++ calls C++" -> UnconvertedCppType(r)
      [] OTHER -> ConvertedCppType(Inverted(r))
HandedBack(direction, r, called) ==
    CASE direction = "Rust calls C++" -> CppConversion(r, CallOf(called), TRUE)
      [] direction = "C++ calls C++" -> CallOf(called)
      [] OTHER -> CppConversion(Inverted(r), CallOf(called), TRUE)
(* Without a placement parameter the result is returned, and with one it   *)
(* is what the object placed there is made from.                           *)
Destination(direction, r) ==
    IF direction = "Rust calls C++" /\ ~PopulatesReturnValue(r) THEN CppType("value", r.ty.of, TRUE)
    ELSE ReturnedByWrapper(direction, r)

(* One call: each argument fits the parameter it is for, and the result    *)
(* what is to become of it.                                                *)
ArgumentsBind(direction, policies, called) ==
    \A i \in DOMAIN called : Binds(HandedOn(direction, policies[i]), called[i])
ResultBinds(direction, r, called) ==
    /\ ConvertsInCpp(r) \/ direction # "Rust calls C++"
    /\ Binds(HandedBack(direction, r, called), Destination(direction, r))

(* A getter reads its member through a const object; a cast initialises a  *)
(* reference to the base with the object itself.                           *)
MemberRead(w) ==
    IF IsPointing(w) THEN CppTypeOf(w) ELSE [CppTypeOf(w) EXCEPT !.by = "lref", !.mut = FALSE]
Subobjects(class, base) ==
    LET within[depth \in 0..Cardinality(Structs)] ==
            [c \in Structs |->
                IF c = base THEN 1
                ELSE IF depth = 0 THEN 0
                ELSE MapThenSumSet(LAMBDA b : within[depth - 1][b], Holding(c).bases \cap Structs)]
    IN within[Cardinality(Structs)][class]
InheritsOnce(class, base) == Subobjects(class, base) = 1
SeenAs(object, base) ==
    IF base \in Holding(object.of).publicBases /\ InheritsOnce(object.of, base) THEN [object EXCEPT !.of = base] ELSE object
MemberType(class, member) ==
    LET members == Holding(class).members
    IN members[CHOOSE i \in DOMAIN members : members[i].name = member].type

(* The functions a wrapper may call which are generated too: the helper in *)
(* the peer class which calls the superclass, and the peer's constructor.  *)
Receiver(f) == [CppTypeOf(f.fun.params[1].type) EXCEPT !.of = f.params[1].of]
ReceivedObject(f) == [Receiver(f) EXCEPT !.by = "lref"]
SuperHelpers(f) == {o \in Overrides : o.super # "none" /\ o.super = f.cpp /\ PeerClass(o.of) = f.is.of}
CalledParams(f) ==
    CASE f.fun.constructs # NoConstruction ->
            <<Receiver(f)>>
            \o [i \in DOMAIN f.fun.constructs.arguments |->
                   DeclaredByWrapper("C++ calls C++", f.fun.constructs.arguments[i])]
      [] SuperHelpers(f) # {} ->
            <<Receiver(f)>>
            \o LET policies == Policies((CHOOSE o \in SuperHelpers(f) : TRUE).params)
               IN [i \in DOMAIN policies |-> DeclaredByWrapper("C++ calls C++", policies[i])]
      [] f.payload.is = "cast" -> <<ReceivedObject(f)>>
      [] OTHER -> Declared(f.fun.params)
CalledReturn(f) ==
    CASE SuperHelpers(f) # {} ->
            ReturnedByWrapper("C++ calls C++", (CHOOSE o \in SuperHelpers(f) : TRUE).ret.policy)
      [] f.payload.is = "cast" -> SeenAs(ReceivedObject(f), f.payload.base)
      [] f.payload.is = "field read" -> MemberRead(MemberType(f.payload.base, f.payload.method))
      [] OTHER -> CppTypeOf(f.fun.ret)

(* The object a wrapper calls a method of, or the memory it constructs in. *)
HasReceiver(f) == f.payload.kind \in {"method", "constructor"}
ReceiverServes(f) ==
    LET e == HandedOn("Rust calls C++", f.params[1].policy)
    IN IF f.payload.kind = "constructor" THEN Binds(e, Receiver(f))
       ELSE Binds(e, ReceivedObject(f))

(* A constructor of a peer class hands its superclass's what it was given, *)
(* and keeps the box for itself.                                           *)
ConstructsSuperclass(f) ==
    f.fun.constructs # NoConstruction =>
        LET arguments == Tail(f.fun.constructs.arguments)
            real == Tail(Tail(Declared(f.fun.params)))
        IN ArgumentsBind("C++ calls C++", arguments, real)

(* What the C++ side of an override calls is declared by Rust.             *)
RustParams(o) == [i \in DOMAIN o.params |-> TypeToCpp(ConvertedRustType(o.params[i].policy))]

-----------------------------------------------------------------------------
(* gen_function: the declaration in the bridge, and whether a Rust wrapper *)
(* goes over it.                                                           *)

BridgeTypes(f) ==
    [i \in DOMAIN f.params |-> IF f.wrapped THEN ConvertedRustType(f.params[i].policy) ELSE f.params[i].ty]
BridgeIsUnsafe(f) == f.unsafe # "none"

(* What the user sees: the wrapper if there is one, the bridge if not; a   *)
(* trait's own methods are reached through the trait.                      *)
ShownTypes(f) ==
    [i \in DOMAIN f.params |->
        IF f.rustWrapper THEN RustConversion(f.params[i].policy)
        ELSE RustSide("bridge type", BridgeTypes(f)[i], FALSE)]
ShownIsUnsafe(f) == IF f.rustWrapper THEN f.unsafe = "always" ELSE BridgeIsUnsafe(f)
Places(f) == {i \in DOMAIN f.params : f.params[i].placement}
ShownParams(f) == DOMAIN f.params \ Places(f)

(* A type as far as lifetimes go: a reference, a pinned one, `impl Trait`, *)
(* or something with no lifetime to speak of.                              *)
LifetimeForm(side) ==
    CASE side.shown = "bridge type" -> IF side.ty.form \in {"ref", "pin", "bytes"} THEN side.ty.form ELSE "other"
      [] side.shown \in {"impl ToCppString", "impl AsCppStringView", "impl ValueParam", "impl RValueParam"} -> "impl"
      [] side.shown = "&mut" -> "ref"
      [] OTHER -> "other"

(* The two signatures of a function: in the bridge, and in the wrapper.    *)
Surface(forms, result, of) == [forms |-> forms, result |-> result, of |-> of]
BridgeSurface(f) ==
    Surface([i \in DOMAIN f.params |-> LifetimeForm(RustSide("bridge type", BridgeTypes(f)[i], FALSE))],
            LifetimeForm(RustSide("bridge type", f.retType, FALSE)), f.retType.of)
WrapperSurface(f) ==
    Surface([i \in ShownParams(f) |-> LifetimeForm(ShownTypes(f)[i])],
            IF Places(f) # {} THEN "impl" ELSE LifetimeForm(RustConversion(f.ret.policy)),
            f.retType.of)
Surfaces(f) == {BridgeSurface(f)} \cup IF f.rustWrapper THEN {WrapperSurface(f)} ELSE {}

-----------------------------------------------------------------------------
(* add_explicit_lifetime_if_necessary: the parameters that are given 'a    *)
(* together with the result, or nothing at all.                            *)

(* find_non_pod_types *)
NonPodTypes == {t \in Structs : ~Holding(t).pod}

Mut_NeedsExplicitLifetime(f, s) ==
    \E i \in DOMAIN f.params : f.params[i].selfMut /\ f.params[i].self # "none" /\ ~f.params[i].placement
NeedsExplicitLifetime(f, s) ==
    LET mutableReceiver == \E i \in ShownParams(f) : f.params[i].self # "none" /\ f.params[i].selfMut
        nonPodReference == \E i \in DOMAIN s.forms : s.forms[i] = "ref" /\ f.params[i].of \in NonPodTypes
        podReferenceBack == s.result = "ref" /\ s.of \notin NonPodTypes
        borrows == \E i \in DOMAIN f.params : f.params[i].hasLifetime \/ IsValueParam(f.params[i].policy)
        takesCppRef == \E i \in DOMAIN f.params : TakesReferenceWrapper(f.params[i].policy)
    IN \/ mutableReceiver
       \/ nonPodReference /\ podReferenceBack
       \/ s.result = "impl" /\ borrows
       \/ takesCppRef \/ ReturnsReferenceWrapper(f.ret.policy)

WithLifetime == {"ref", "pin", "impl"}
Annotated(f, s) ==
    IF NeedsExplicitLifetime(f, s) /\ s.result \in WithLifetime
    THEN {i \in DOMAIN s.forms : s.forms[i] \in WithLifetime} ELSE {}

(* What rustc ties the result to: what shares its 'a, or, if nothing is    *)
(* written, what elision chooses.                                          *)
Borrowing(s) == {i \in DOMAIN s.forms : s.forms[i] \in {"ref", "pin", "bytes"}}
Elided(f, s) ==
    LET receiver == {i \in Borrowing(s) : f.params[i].self # "none"}
    IN IF receiver # {} THEN receiver
       ELSE IF Cardinality(Borrowing(s)) = 1 THEN Borrowing(s) ELSE {}
TiedTo(f, s) == IF Annotated(f, s) # {} THEN Annotated(f, s) ELSE Elided(f, s)

-----------------------------------------------------------------------------
(* Properties. *)

(* Both sides of the bridge agree on every type in it, as cxx asserts of   *)
(* the function pointer it takes: a wrapped function's declaration is that *)
(* of the C++ wrapper generated for it, any other's that of the library.   *)
Agree(f) ==
    LET types == BridgeTypes(f)
        Real(i) == IF f.params[i].self = "none" THEN CalledParams(f)[i] ELSE ReceivedObject(f)
    IN IF f.wrapped
       THEN /\ \A i \in DOMAIN types :
                  TypeToCpp(types[i]) = DeclaredByWrapper("Rust calls C++", f.params[i].policy)
            /\ TypeToCpp(f.retType) = IF f.fun.ret = NoReturn THEN NoCppType
                                      ELSE ReturnedByWrapper("Rust calls C++", f.ret.policy)
       ELSE /\ \A i \in DOMAIN f.fun.params : TypeToCpp(types[i]) = Real(i)
            /\ TypeToCpp(f.retType) = CalledReturn(f)
TheBridgeAgrees == \A f \in Generated : Agree(f)

(* Every wrapper compiles: what it hands on binds to the parameters of     *)
(* what it calls, and what it gets back to what it returns or places, as   *)
(* far as ownership, constness and volatility go.                          *)
WellFormed(f) ==
    LET called == CalledParams(f)
        rest == IF HasReceiver(f) THEN 2 ELSE 1
        AfterReceiver(seq) == SubSeq(seq, rest, Len(called))
    IN /\ HasReceiver(f) => ReceiverServes(f)
       /\ f.payload.is # "destroy" =>
             /\ ArgumentsBind("Rust calls C++", AfterReceiver(Policies(f.params)), AfterReceiver(called))
             /\ f.fun.ret # NoReturn => ResultBinds("Rust calls C++", f.ret.policy, CalledReturn(f))
       /\ ConstructsSuperclass(f)
(* A cast to a base which is also one of another base's is not asked about *)
(* here: see CastsHaveOneWayUp.                                            *)
RepeatsItsBase(f) == f.payload.is = "cast" /\ ~InheritsOnce(f.is.of, f.payload.base)
CppIsWellFormed == \A f \in {f \in Generated : f.wrapped} : RepeatsItsBase(f) \/ WellFormed(f)

(* What the two generators write fits together, and with the library.      *)
TheTwoSidesAgree == TheBridgeAgrees /\ CppIsWellFormed

(* A peer's override has the very signature of the method it overrides, so *)
(* C++ calls it; and it, and the helper by which the subclass calls the    *)
(* method overridden, hand on what the other side takes.                   *)
SameSignature(o) ==
    LET real == Tail(Declared(o.fun.params))
    IN /\ Len(real) = Len(o.params) /\ o.const = ~o.fun.params[1].type.mut
       /\ \A i \in DOMAIN real :
             /\ HasInverse(o.params[i].policy)
             /\ DeclaredByWrapper("C++ calls Rust", o.params[i].policy) = real[i]
       /\ o.fun.ret # NoReturn =>
             /\ HasInverse(o.ret.policy)
             /\ ReturnedByWrapper("C++ calls Rust", o.ret.policy) = CppTypeOf(o.fun.ret)
CallsRust(o) ==
    /\ ArgumentsBind("C++ calls Rust", Policies(o.params), RustParams(o))
    /\ o.fun.ret # NoReturn => ResultBinds("C++ calls Rust", o.ret.policy, TypeToCpp(o.retType))
CallsSuper(o) ==
    /\ ArgumentsBind("C++ calls C++", Policies(o.params), Tail(Declared(o.fun.params)))
    /\ o.fun.ret # NoReturn => ResultBinds("C++ calls C++", o.ret.policy, CppTypeOf(o.fun.ret))
OverridesMatchTheMethod ==
    \A o \in Overrides : SameSignature(o) /\ CallsRust(o) /\ (o.super # "none" => CallsSuper(o))

(* Where only some functions are to be unsafe, those are the ones which    *)
(* show the user a raw pointer or a volatile's handle to vouch for, and    *)
(* under any policy no declaration in the bridge takes a raw pointer and   *)
(* calls itself safe (cxx refuses one which does).  What a subclass        *)
(* reaches through a trait is as unsafe as what the trait calls.           *)
ShowsAPointer(side) ==
    \/ side.shown = "bridge type" /\ side.ty.form = "ptr"
    \/ side.shown \in {"VolatilePtr", "VolatileConstPtr"}
BridgeOwnsUp(f) == (\E i \in DOMAIN f.params : BridgeTypes(f)[i].form = "ptr") => BridgeIsUnsafe(f)
UnsafeForAReason(f) == ShownIsUnsafe(f) <=> \E i \in ShownParams(f) : ShowsAPointer(ShownTypes(f)[i])
SafeMeansSafe ==
    /\ \A f \in Generated :
          /\ BridgeOwnsUp(f)
          /\ program.policy = "some functions unsafe" /\ f.is.is \notin TraitMethods => UnsafeForAReason(f)
    /\ \A f \in Generated : \A o \in SuperHelpers(f) : ShownIsUnsafe(f) => o.unsafe = "always"

(* A reference which comes back from C++ is tied to the parameter it is    *)
(* taken to borrow from, in the bridge and in the wrapper alike; and what  *)
(* is still to be constructed is tied to everything it will read when it   *)
(* is (but for volatile storage, whose handle the caller vouches for).     *)
Tied(f, s) ==
    LET borrowed == {i \in DOMAIN s.forms : f.params[i].hasLifetime}
        late == {i \in DOMAIN s.forms : \/ f.params[i].hasLifetime /\ ~PointeeWasVolatile(f.params[i].policy)
                                        \/ IsValueParam(f.params[i].policy)}
    IN CASE s.result \in {"ref", "pin"} -> borrowed # {} /\ TiedTo(f, s) \cap Borrowing(s) = borrowed
         [] s.result = "impl" -> late \subseteq Annotated(f, s)
         [] OTHER -> TRUE
BorrowsAreTied ==
    \A f \in {f \in Generated : ~WrapsReferences /\ f.is.is \notin TraitMethods} :
        \A s \in Surfaces(f) : Tied(f, s)

(* A cast is generated only where C++ has the conversion it is made of.    *)
CastsHaveOneWayUp == \A f \in Generated : ~RepeatsItsBase(f)

(* A function which returns a reference takes exactly one, as the bridge   *)
(* declares it: cxx would not have it otherwise.                           *)
ReferencesComeFromOne ==
    \A f \in {f \in Generated : ~WrapsReferences} :
        BridgeSurface(f).result \in {"ref", "pin"} => Cardinality(Borrowing(BridgeSurface(f))) = 1
================================================================================

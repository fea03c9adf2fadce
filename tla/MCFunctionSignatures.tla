-------------------------- MODULE MCFunctionSignatures --------------------------
(***************************************************************************)
(* Small libraries for the functions run.  First for their names:          *)
(* overloads and keywords in every order, members imported from bases that *)
(* hide, merge or repeat them, subclasses of classes whose methods are     *)
(* named like autocxx's own, and the members of an instantiation.          *)
(***************************************************************************)
EXTENDS WrapperGeneration

AStruct ==
    [kind |-> "struct", pod |-> FALSE, generic |-> FALSE, anonymous |-> FALSE, spelling |-> "none",
     nestedIdent |-> "none", ns |-> "", cpp |-> "own", bases |-> {}, publicBases |-> {}, unnamedBase |-> FALSE,
     fields |-> {}, members |-> <<>>, usings |-> <<>>, template |-> "none"]
Class(t) == [AStruct EXCEPT !.spelling = t, !.nestedIdent = t]
Deriving(t, bases) == [Class(t) EXCEPT !.bases = bases, !.publicBases = bases]
AnEnum(t, class, scoped, variants) ==
    [Class(t) EXCEPT !.kind = "enum"] @@ [within |-> class, scoped |-> scoped, variants |-> variants]

StructApi(t) == Keep(GeneratedName("", t) @@ [kind |-> "struct"])
ConcreteApi(t) == Keep(GeneratedName("", t) @@ [kind |-> "concrete"])
OtherApi(kind, ns, id) == Keep(GeneratedName(ns, id) @@ [kind |-> kind])
SubclassApi(s, class) == Keep(GeneratedName("", s) @@ [kind |-> "subclass", superclass |-> class])

Library(types, jobs) ==
    [types |-> types, reservedWords |-> {"type"}, invalidIdents |-> {}, unspellable |-> {},
     allowlist |-> DOMAIN types, instantiable |-> {}, policy |-> "some functions unsafe",
     excludeUtilities |-> FALSE, forceWrappers |-> FALSE, blocked |-> {}, throws |-> {},
     subclasses |-> << >>, reported |-> jobs, templateMembers |-> << >>, memberTemplates |-> << >>,
     operators |-> << >>, implicit |-> <<>>, discarded |-> {}]

AnInt == Written("value", "i32", TRUE)
Member(class, ident, cpp) ==
    Analyze("", class \o "_" \o ident, cpp,
            [FuncToConvert(class \o "_" \o ident, class, <<This(class, TRUE)>>, AnInt) EXCEPT
                !.methodKind = "other", !.from = "bindgen"])
Constructor(class, ident) ==
    Analyze("", class \o "_" \o ident, class,
            [FuncToConvert(class \o "_" \o ident, class, <<This(class, TRUE)>>, NoReturn) EXCEPT
                !.methodKind = "constructor", !.from = "bindgen"])
Destructor(class) ==
    Analyze("", class \o "_destructor", "none",
            [FuncToConvert(class \o "_destructor", class, <<This(class, TRUE)>>, NoReturn) EXCEPT
                !.special = "destructor", !.from = "bindgen"])
Free(ns, ident, cpp, params) ==
    Analyze(ns, ident, cpp, [FuncToConvert(ident, "none", params, AnInt) EXCEPT !.from = "bindgen"])
Virtual(job) == [job EXCEPT !.fun.virtual = "Virtual"]
Pure(job) == [job EXCEPT !.fun.virtual = "PureVirtual"]

InEveryOrder(jobs, n) == {s \in [1..n -> jobs] : \A i, j \in 1..n : i # j => s[i] # s[j]}

ByName(names, Value(_)) == [n \in names |-> Value(n)]

(* Overloads, their numbers, keywords, constructors and free functions.    *)
Named ==
    {Member("A", "get", "get"), Member("A", "get1", "get"), Member("A", "get2", "get1"),
     Constructor("A", "A"), Constructor("A", "A1"), Member("A", "new1", "new1"),
     Free("", "get", "get", <<>>), Free("n", "A_get", "A_get", <<>>)}
NameLibraries ==
    {Library(ByName({"A", "B"}, Class), <<StructApi("A")>> \o s \o <<StructApi("B")>>) : s \in InEveryOrder(Named, 3)}

(* `f` is A's; what B, D and E make of it.                                 *)
FofA == Member("A", "f", "f")
BasedOn == [B |-> Class("B"), variants |-> {}, extra |-> <<>>, blocked |-> {}]
UsingF(base, vis) == [name |-> "f", base |-> base, vis |-> vis]
Hiding ==
    {BasedOn, [BasedOn EXCEPT !.variants = {"f"}]}
    \cup {[BasedOn EXCEPT !.B.fields = {f}] : f \in {"f", "f_"}}
    \cup {[BasedOn EXCEPT !.B.usings = u, !.blocked = b] :
              u \in {<<UsingF("A", "public")>>, <<UsingF("A", "protected")>>, <<UsingF("A", "public"), UsingF("E", "public")>>},
              b \in {{}, {<<"A", "f">>}}}
    \cup {[BasedOn EXCEPT !.extra = e] :
              e \in {<<Member("B", "f", "f")>>, <<Member("A", "f1", "f")>>, <<Member("E", "f", "f")>>,
                     <<[Member("B", "f", "f") EXCEPT !.fun.vis = "private"]>>}}

Hierarchies ==
    {[B |-> <<{"A"}, {"A"}>>, D |-> <<{"B"}, {"B"}>>], [B |-> <<{"A"}, {}>>, D |-> <<{"B"}, {"B"}>>],
     [B |-> <<{"A", "E"}, {"A", "E"}>>, D |-> <<{"B"}, {"B"}>>], [B |-> <<{"A"}, {"A"}>>, D |-> <<{"A", "B"}, {"A", "B"}>>],
     [B |-> <<{"A"}, {"A"}>>, D |-> <<{"A", "E"}, {"A", "E"}>>]}

InheritanceLibraries ==
    {[Library([A |-> Class("A"), E |-> Class("E"),
               B |-> [h.B EXCEPT !.bases = i.B[1], !.publicBases = i.B[2]],
               D |-> [Class("D") EXCEPT !.bases = i.D[1], !.publicBases = i.D[2], !.unnamedBase = u]]
              @@ ("B_E" :> AnEnum("B_E", "B", FALSE, h.variants)),
              <<StructApi("A"), FofA, StructApi("B"), StructApi("E"), StructApi("D")>> \o h.extra)
        EXCEPT !.blocked = h.blocked] :
        h \in Hiding, i \in Hierarchies, u \in BOOLEAN}

(* Virtual methods named as the helpers of others are.                     *)
Overridden ==
    {Virtual(Member("A", "m", "m")), Virtual(Member("A", "m_super", "m_super")),
     Virtual(Member("A", "m_autocxx_super", "m_autocxx_super")), Virtual(Member("A", "m1", "m")),
     Pure(Member("A", "p", "p")), [Virtual(Member("A", "v", "v")) EXCEPT !.fun.vis = "private"],
     [Virtual(Member("A", "x", "x")) EXCEPT !.fun.exceptions = "unreproducible"]}
Peers == {"SCpp", "TCpp"}
SubclassLibraries ==
    {[Library(ByName({"A"}, Class), [i \in DOMAIN subs |-> SubclassApi(subs[i], "A")]
                                    \o <<StructApi("A"), Constructor("A", "A")>> \o s \o <<[Destructor("A") EXCEPT !.fun.vis = v]>>)
        EXCEPT !.subclasses = ("A" :> subs), !.blocked = b, !.allowlist = @ \cup Peers] :
        s \in InEveryOrder(Overridden, 2), subs \in {<<"S">>, <<"S", "T">>}, b \in {{}, {<<"A", "m">>}},
        v \in {"protected"}}

(* An instantiation, its template's members, and what can only be noted.   *)
TemplateMethod(name, kind) ==
    [name |-> name, kind |-> kind, vis |-> "public", const |-> FALSE, err |-> "none", params |-> <<>>, ret |-> AnInt,
     special |-> "none", deleted |-> "none", refq |-> "none", deprecated |-> FALSE, variadic |-> FALSE]
TemplateMethods ==
    {TemplateMethod("get", "method"), [TemplateMethod("get", "method") EXCEPT !.err = "dependent signature"],
     TemplateMethod("get1", "static"), TemplateMethod("Box", "constructor")}
NotedMembers == {<<>>, <<[name |-> "get", vis |-> "public", kind |-> "method"], [name |-> "get", vis |-> "public", kind |-> "method"]>>}
TemplateLibraries ==
    {[Library([A |-> Class("A"), BoxInt |-> [Class("BoxInt") EXCEPT !.template = "Box"]],
              <<StructApi("A"), ConcreteApi("BoxInt"), Member("A", "get", "get"), Free("", "BoxInt_get", "BoxInt_get", <<>>)>>)
        EXCEPT !.instantiable = {"BoxInt"}, !.templateMembers = ("Box" :> s),
               !.memberTemplates = ("Box" :> n @@ "A" :> n),
               !.operators = ("A" :> <<[is |-> "conversion_operator", vis |-> "public"], [is |-> "call_operator", vis |-> "public"]>>),
               !.implicit = <<[class |-> "A", special |-> "default"], [class |-> "A", special |-> "move"],
                              [class |-> "A", special |-> "copy"], [class |-> "A", special |-> "destructor"]>>] :
        s \in InEveryOrder(TemplateMethods, 3), n \in NotedMembers}

(* Types and functions which meet in the bridge, though C++ has them in    *)
(* scopes of their own.                                                    *)
CalledA ==
    {StructApi("A"), Free("n", "A", "A", <<>>)}
    \cup {OtherApi("forward declaration", n, "A") : n \in {"m", "n_"}}
    \cup {OtherApi("forward declaration", "", id) : id \in {"m_A", "A_autocxx1"}}
Meeting ==
    CalledA \cup {OtherApi("forward declaration", "", id) : id \in {"_B", "B__"}}
    \cup {OtherApi("opaque typedef", "n_", "_B"), OtherApi("enum", "n", "SHolder"), OtherApi("extern C++ type", "n", "String"),
          OtherApi("rust type", "", "R"), SubclassApi("S", "A"), Free("n", "R", "R", <<>>)}
BridgeLibraries ==
    {Library(ByName({"A", "SHolder"}, Class), s) : s \in InEveryOrder(CalledA, 3) \cup InEveryOrder(Meeting, 2)}

Libraries == BridgeLibraries \cup NameLibraries \cup InheritanceLibraries \cup SubclassLibraries \cup TemplateLibraries

-------------------------------------------------------------------------------
(***************************************************************************)
(* Then for their signatures: one function with every form of parameter    *)
(* and of result, as a free function, a method, a static member, a         *)
(* constructor and a virtual method which a Rust subclass overrides, under *)
(* each policy for unsafe functions.  A is a class with a copy             *)
(* constructor, M one without, P is POD, E is an enum.                     *)
(***************************************************************************)

Types ==
    [A |-> Class("A") @@ [copyable |-> TRUE], M |-> Class("M") @@ [copyable |-> FALSE],
     P |-> [Class("P") EXCEPT !.pod = TRUE] @@ [copyable |-> TRUE],
     E |-> AnEnum("E", "none", TRUE, {}) @@ [copyable |-> TRUE]]

String == "std::string"
View == "std::string_view"
Value(t) == Written("value", t, TRUE)
Const(w) == [w EXCEPT !.mut = FALSE]
VolatileOf(w) == [w EXCEPT !.volatile = TRUE]
Pointers == {Written("ptr", t, mut) : t \in {"A", "P", "i32"}, mut \in BOOLEAN}
References == {Written("lref", t, mut) : t \in {"A", "P", "i32", String}, mut \in BOOLEAN}
Values == {Value(t) : t \in {"A", "P", "E", "i32", String}}
Volatiles == {VolatileOf(Written(by, "i32", mut)) : by \in {"ptr", "lref"}, mut \in BOOLEAN}
MoveOnly == {Value("M"), Value("cxx::UniquePtr"), Written("rref", "A", TRUE), Written("rref", "P", TRUE)}
Views == {Value(View), Written("lref", View, FALSE)}
Constants == {Const(Value(t)) : t \in {"A", "P", "i32"}}

ParamTypes == Values \cup Pointers \cup References \cup Volatiles \cup MoveOnly \cup Views \cup Constants
Overridable == Values \cup Pointers \cup References \cup Constants
Returns == {NoReturn} \cup Values \cup Pointers \cup References \cup Volatiles \cup {Value("M"), Value("cxx::UniquePtr")} \cup Constants
OverridableReturns == {NoReturn} \cup Values \cup Pointers \cup References

Params(types) == [i \in DOMAIN types |-> [name |-> "p" \o ToString(i), type |-> types[i]]]
Taking(job, types, ret) == [job EXCEPT !.fun.params = @ \o Params(types), !.fun.ret = ret]
OnConst(job) == [job EXCEPT !.fun.params[1].type.mut = FALSE]

FreeF == Free("", "f", "f", <<>>)
StaticF == [Member("A", "f", "f") EXCEPT !.fun.params = <<>>]
MethodF == Member("A", "f", "f")

(* The parameter lists and results to be tried together. *)
One(types) == {<<t>> : t \in types}
Beside(types) == {<<Written("lref", "A", mut), t>> : t \in types, mut \in BOOLEAN}
Signature(params, rets) == params \X rets
Plain ==
    Signature(One(ParamTypes), {NoReturn, Value("i32"), Value("A"), Written("lref", "P", FALSE)})
    \cup Signature({<<>>} \cup One({Written("lref", "A", TRUE), Written("lref", "P", FALSE), Value("A")}), Returns)
    \cup Signature(Beside({Value("A"), Value("i32"), Written("ptr", "A", TRUE), Written("lref", "P", FALSE)}),
                   {Value("A"), Written("lref", "A", FALSE), Written("lref", "P", TRUE)})
Virtuals ==
    Signature({<<>>} \cup One(Overridable), {NoReturn, Value("A")})
    \cup Signature({<<>>} \cup One({Value("A")}), OverridableReturns)
Constructions == Signature(One(ParamTypes), {NoReturn})
CopiesOnly(sig) == \A i \in DOMAIN sig[1] : sig[1][i] \notin MoveOnly \cup Volatiles
ReturnsAReference(sig) == sig[2].by = "lref" /\ ~sig[2].volatile
ByReferenceElsewhere(sig) == \E i \in DOMAIN sig[1] : sig[1][i] \in Volatiles \cup Views

Function(shape) ==
    CASE shape = "free" -> FreeF
      [] shape = "static" -> StaticF
      [] shape \in {"method", "override"} -> MethodF
      [] OTHER -> OnConst(MethodF)
Superclass(types, rest) ==
    <<StructApi("A"), Taking(Constructor("A", "A"), types, NoReturn)>> \o rest
    \o <<[Destructor("A") EXCEPT !.fun.vis = "protected"]>>
WithSubclass(library) == [library EXCEPT !.subclasses = ("A" :> <<"S">>), !.allowlist = @ \cup Peers]

SignatureLibrary(shape, sig, policy) ==
    LET With(jobs) == [Library(Types, jobs) EXCEPT !.policy = policy]
        function == Taking(Function(shape), sig[1], sig[2])
    IN CASE shape = "constructor" -> With(Superclass(sig[1], <<>>))
         [] shape = "superclass" -> WithSubclass(With(Superclass(sig[1], <<>>)))
         [] shape \in {"override", "const override"} ->
                WithSubclass(With(Superclass(<<Value("i32")>>, <<Virtual(function)>>)))
         [] OTHER -> With(<<StructApi("A"), function>>)

Shapes == {"free", "static", "method", "const method", "constructor", "superclass", "override", "const override"}
Fits(shape, sig) ==
    CASE shape = "constructor" -> sig \in Constructions
      [] shape = "superclass" -> sig \in Constructions /\ CopiesOnly(sig)
      [] shape \in {"override", "const override"} -> sig \in Virtuals
      [] OTHER -> sig \in Plain /\ ~(ReturnsAReference(sig) /\ ByReferenceElsewhere(sig))
Policy3 == {"some functions unsafe", "all functions unsafe", "references wrapped"}

SignatureLibraries ==
    {SignatureLibrary(c[1], c[2], c[3]) :
        c \in {c \in Shapes \X (Plain \cup Virtuals) \X Policy3 : Fits(c[1], c[2])}}

(* A class O with a data member of every type a getter could return, and   *)
(* of those it could not; N is a class nobody asked for.  The other member *)
(* has the name its second overload of `get` would take.                   *)
DataMember(name, cpp, type) ==
    [name |-> name, cpp |-> cpp, type |-> type, vis |-> "public", bitfield |-> FALSE, field |-> TRUE]
MemberTypes ==
    {Value(t) : t \in {"A", "M", "P", "E", "N", "i32", String, "cxx::UniquePtr"}} \cup Constants
    \cup {VolatileOf(Value(t)) : t \in {"A", "P", "E", "i32", String}} \cup Pointers
    \cup {Written("lref", "A", FALSE), Written("rref", "A", TRUE), Written("array", "i32", TRUE),
          [Value("A") EXCEPT !.err = "blocked"]}
PassedOver(member) ==
    {[member EXCEPT !.vis = "private"], [member EXCEPT !.bitfield = TRUE], [member EXCEPT !.field = FALSE],
     [member EXCEPT !.name = "none", !.field = FALSE]}
DataMembers ==
    {DataMember("x", "x", t) : t \in MemberTypes} \cup {DataMember("type_", "type", Value("i32"))}
    \cup PassedOver(DataMember("x", "x", Value("i32")))

MemberTypesOf(members) ==
    Types @@ [N |-> Class("N") @@ [copyable |-> TRUE],
              O |-> [Class("O") EXCEPT !.members = members,
                                       !.fields = {m.name : m \in {m \in Range(members) : m.field}}] @@ [copyable |-> TRUE]]
MemberLibraries ==
    {[Library(MemberTypesOf(members), <<StructApi("A"), StructApi("O"), Member("O", "get", "get"), Member("O", "get_1", "get"),
                                        Free("", "x", "x", <<>>)>>)
        EXCEPT !.policy = policy, !.allowlist = @ \ {"N"}] :
        members \in {<<m, DataMember("get1", "get1", Value("i32"))>> : m \in DataMembers}
                    \cup {<<DataMember("get1", "get1", Value("A")), m>> : m \in DataMembers},
        policy \in Policy3}

AllLibraries == Libraries \cup SignatureLibraries \cup MemberLibraries

(* Where code and words disagree, one sort of library for each disagreement:  *)
(* what the comment at the refusals for the arrangement of references says    *)
(* cxx requires of a function returning one, "exactly one reference as a      *)
(* parameter"; and casts to a base which C++ finds ambiguous.                 *)
ReferenceLibraries ==
    {SignatureLibrary("free", <<<<p>>, Written("lref", "P", FALSE)>>, "some functions unsafe") : p \in ParamTypes}
ContestedLibraries == ReferenceLibraries \cup InheritanceLibraries
================================================================================

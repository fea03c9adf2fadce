-------------------------- MODULE MCClassAnalysis ---------------------------
(* Headers for ClassAnalysis.                                               *)
EXTENDS ClassAnalysis

Empty(classes) == [c \in classes |-> {}]
Header(order, bases, vbases, fields, decls, virt) ==
    LET classes == ToSet(order)
    IN  [order |-> order, apis |-> Reverse(order), alias |-> <<>>,
         bases |-> bases @@ Empty(classes), vbases |-> vbases @@ Empty(classes),
         fields |-> fields @@ Empty(classes), decls |-> decls, virt |-> virt,
         concrete |-> {}, opaque |-> {}, unnamed |-> {}, nested |-> {}, pod |-> {}, blocked |-> {}]

Declared(of, kind, how, vis) ==
    [of |-> of, kind |-> kind, how |-> how, vis |-> vis, virt |-> "no"]
Field(ty, shape) ==
    [ty |-> ty, shape |-> shape, const |-> FALSE, volatile |-> FALSE, init |-> FALSE]

-----------------------------------------------------------------------------
(* Hierarchies of four classes, listed last class first; the last class has two *)
(* bases.  The first class may declare a function pure, the others may declare  *)
(* it pure or define it.                                                        *)
(* (What takes no argument TLC works out before it starts, several times over.) *)
Inherits(names) == UNION {{[b |-> b, v |-> v] : v \in SUBSET b} : b \in SUBSET names}
Inherits2(names) == {i \in Inherits(names) : Cardinality(i.b) = 2}
Virtuals(role) == {[of |-> c, sig |-> "f", pure |-> role[c] = "pure"] :
                       c \in {d \in DOMAIN role : role[d] # "none"}}
Hierarchies(roles) ==
    {Header(<<"A", "B", "C", "D">>,
            [B |-> b.b, C |-> c.b, D |-> d.b], [B |-> b.v, C |-> c.v, D |-> d.v],
            <<>>, {}, Virtuals(r)) :
        b \in Inherits({"A"}), c \in Inherits({"A", "B"}), d \in Inherits2({"A", "B", "C"}),
        r \in {q \in [{"A", "B", "C", "D"} -> roles] :
                  /\ "pure" \in {q["A"], q["B"]} /\ q["A"] # "def" /\ q["D"] # "pure"}}

(* Two subobjects of the class which declares a function pure, under different *)
(* virtual bases: autocxx tells obligations apart by that class alone.         *)
TwoOfOneClass(l) ==
    LET h == Hierarchy(l)
    IN  \E c \in Classes(l) : \E s, t \in Subobjects(h, c) :
        s # t /\ Last(s) = Last(t) /\ s[1] # t[1]
            /\ [of |-> Last(s), sig |-> "f", pure |-> TRUE] \in l.virt

HierarchyHeaders(roles) == {l \in Hierarchies(roles) : CppAccepts(l) /\ ~TwoOfOneClass(l)}

-----------------------------------------------------------------------------
(* Special members: a class L, a class T which holds one or derives from it,   *)
(* and a class D which holds a T or derives from it.                           *)
User(of, kind) == Declared(of, kind, "user", "public")
Defaulted(of, kind) == Declared(of, kind, "defaulted", "public")
Deleted(of, kind) == Declared(of, kind, "deleted", "public")
LeafDecls ==
    {{}} \cup {{User("L", k)} : k \in {"default", "other", "dtor", "ccopy", "ncopy", "move", "cmove", "cvcopy"}}
    \cup {{Deleted("L", k)} : k \in {"default", "dtor", "ccopy", "move", "cmove"}}
    \cup {{Declared("L", k, "user", v)} : k \in {"default", "dtor", "ccopy", "move"},
                                          v \in {"protected", "private"}}
    \cup {{User("L", "move"), User("L", "ccopy")}, {User("L", "ncopy"), User("L", "ccopy")},
          {User("L", "ncopy"), Deleted("L", "ccopy")}, {User("L", "ncopy"), Declared("L", "ccopy", "user", "private")}}
HolderDecls ==
    {{}} \cup {{Defaulted("T", k)} : k \in {"default", "dtor", "ccopy", "ncopy", "move"}}
    \cup {{User("T", k)} : k \in {"default", "other", "dtor", "move"}}
    \cup {{Defaulted("T", "ccopy"), Defaulted("T", "move")}, {Defaulted("T", "default"), User("T", "other")},
          {Declared("T", "dtor", "user", "protected")}, {Declared("T", "ccopy", "defaulted", "protected")}}

Value(ty) == Field(ty, "value")
FieldsOf(ty) ==
    {Value(ty), [Value(ty) EXCEPT !.const = TRUE], [Value(ty) EXCEPT !.volatile = TRUE],
     [Value(ty) EXCEPT !.init = TRUE], [Value(ty) EXCEPT !.const = TRUE, !.init = TRUE],
     Field(ty, "reference"), Field(ty, "rvalue")}
(* How T is made of an L: as a field, as a base, as a virtual base. *)
Uses(c, part) ==
    {[fields |-> c :> {f}, bases |-> <<>>, vbases |-> <<>>] : f \in FieldsOf(part)}
    \cup {[fields |-> <<>>, bases |-> c :> {part}, vbases |-> c :> v] : v \in SUBSET {part}}
Plain(c, part) ==
    {u \in Uses(c, part) : u.vbases = (c :> {}) \/ u.fields = (c :> {Value(part)})}
Members(leaves, holders) ==
    {Header(<<"L", "T", "D">>, t.bases @@ d.bases, t.vbases @@ d.vbases, t.fields @@ d.fields,
            ld \cup td, {}) :
        ld \in leaves, td \in holders, t \in Uses("T", "L"), d \in Plain("D", "T")}

(* What autocxx gets wrong, where `specials` is what C++ says of the header.     *)
(* A const copy defaulted over a part which takes no const source: an error    *)
(* before C++20, deleted since, and kept by autocxx.                           *)
DefaultedAgainstItsParts(l, specials) ==
    \E d \in l.decls : d.how = "defaulted" /\ d.kind = "ccopy" /\
        \E p \in Parts(l, d.of) : p.shape = "value" /\
            \A s \in specials[p.ty] : s.kind \notin {"ccopy", "cvcopy", "any"}

(* A part with a mutable copy anyone may call and a const one nobody may: C++  *)
(* selects the latter for a const source, autocxx is content with the former.  *)
CopiedByTheWrongOne(l, specials) ==
    \E c \in Classes(l) : \E p \in Parts(l, c) : p.shape = "value" /\
        LET facts == specials[p.ty]
        IN  /\ Callable(OfKind(facts, "ncopy"), FromAnywhere)
            /\ OfKind(facts, "ccopy") # {} /\ ~Callable(OfKind(facts, "ccopy"), FromAnywhere)

(* A const part whose copy takes a const volatile source: that binds no xvalue, *)
(* but autocxx takes it for what would move the part.                          *)
MovedByAVolatileCopy(l, specials) ==
    \E c \in Classes(l) : \E p \in Parts(l, c) :
        p.const /\ OfKind(specials[p.ty], "cvcopy") # {}

(* A virtual base which is not a direct one, and which a derived class may not *)
(* default-construct, copy, move and destroy freely.                           *)
RestrictedFromAfar(l, specials) ==
    \E c \in Classes(l) : \E v \in AllVirtualBases(l)[c] \ BasesOf(l, c) :
        LET facts == specials[v]
        IN  ~(/\ Defaults(facts, FromDerived) /\ Destroys(facts, FromDerived)
              /\ Copied(facts, "cl", FromDerived) /\ Copied(facts, "x", FromDerived))

InScope(l) ==
    LET specials == Specials(l)
    IN  /\ ~DefaultedAgainstItsParts(l, specials)
        /\ ~CopiedByTheWrongOne(l, specials)
        /\ ~MovedByAVolatileCopy(l, specials)
        /\ ~RestrictedFromAfar(l, specials)
MemberHeaders(leaves, holders) == {l \in Members(leaves, holders) : InScope(l)}

-----------------------------------------------------------------------------
(* T holds a number, an enumeration, a type of the library or an instantiation *)
(* of a template; what may be held by value may make T and D plain old data.   *)
ForeignHeaders(holders) ==
    LET Made(ty, f, d, td) ==
            Header(<<"T", "D">>, d.bases, d.vbases, ("T" :> {f}) @@ d.fields, td, {})
        fields == UNION {FieldsOf(ty) : ty \in Foreign}
                  \cup {Field("L", "pointer"), Field("int", "bitfield"),
                        [Field("int", "bitfield") EXCEPT !.const = TRUE]}
        all == {Made(f.ty, f, d, td) : f \in fields, d \in Plain("D", "T"), td \in holders}
        relocatable == {l \in all : \A f \in l.fields["T"] : f.ty \in {"L", "int", "enum", "uptr"}}
    IN  all \cup {[l EXCEPT !.pod = {"T", "D"}] : l \in relocatable}

(* T is opaque, has a base bindgen could not name, may not be given            *)
(* constructors, or is a template's instantiation declared instantiable.  That *)
(* an opaque class can be destroyed is taken for granted.                      *)
MarkedHeaders(leaves, holders) ==
    LET destructible == {ld \in leaves : \A d \in ld : d.kind # "dtor"}
        plain == {Header(<<"L", "T", "D">>, t.bases @@ d.bases, <<>>, t.fields @@ d.fields, ld \cup td, {}) :
                    t \in {u \in Plain("T", "L") : \A c \in DOMAIN u.vbases : u.vbases[c] = {}},
                    d \in {u \in Plain("D", "T") : \A c \in DOMAIN u.vbases : u.vbases[c] = {}},
                    ld \in destructible, td \in holders}
        sound == {l \in plain : InScope(l)}
        concrete == {l \in sound : l.bases["T"] = {} /\ ~\E d \in l.decls : d.of = "T"}
    IN  {[l EXCEPT !.opaque = {"T"}] : l \in sound}
        \cup {[l EXCEPT !.unnamed = {"T"}] : l \in sound}
        \cup {[l EXCEPT !.blocked = {"T"}] : l \in sound}
        \cup {[l EXCEPT !.concrete = {"T"}, !.fields["T"] = {}] : l \in concrete}

(* Destructors declared virtual or pure somewhere in a chain, each class named *)
(* by its base through a typedef or not, and abstract classes nested or not;    *)
(* and, with no pure functions, typedefs listed before what they name, so that  *)
(* a derived class is met before its base.                                     *)
VirtualHeaders(roles) ==
    LET chain == Header(<<"L", "T", "D">>, [T |-> {"L"}, D |-> {"T"}], <<>>, <<>>, {}, {})
        aliased == [chain EXCEPT !.apis = <<"L", "LL", "AliasL", "T", "AliasT", "D">>,
                                 !.alias = [LL |-> "AliasL", AliasL |-> "L", AliasT |-> "T"],
                                 !.bases["T"] = {"LL"}, !.bases["D"] = {"AliasT"}]
        dtors == {{}} \cup {{[Declared(c, "dtor", "user", "public") EXCEPT !.virt = v]} :
                                c \in {"L", "T", "D"}, v \in {"no", "virtual", "pure"}}
        virts == {Virtuals([L |-> rl, T |-> rt, D |-> rd]) :
                    rl \in roles, rt \in roles, rd \in roles}
    IN  {[l EXCEPT !.decls = d, !.virt = v, !.nested = n] :
            l \in {chain, aliased}, d \in dtors, v \in virts, n \in {{}, {"L"}, {"T", "D"}}}
        \cup {[aliased EXCEPT !.apis = <<"D", "AliasT", "T", "LL", "AliasL", "L">>, !.decls = d] : d \in dtors}

(* T inherits L virtually, D derives from T or holds one. *)
VirtualBaseHeaders(leaves) ==
    {Header(<<"L", "T", "D">>, ("T" :> {"L"}) @@ d.bases, "T" :> {"L"}, d.fields, ld \cup td, {}) :
        d \in {u \in Plain("D", "T") : u.vbases # ("D" :> {"T"})},
        ld \in leaves, td \in {{}, {User("T", "default")}, {User("T", "other")}}}

AllKinds == {"hierarchy", "members", "foreign", "marked", "virtual"}
HeadersOf(kind) ==
    LET roles == {"none", "pure", "def"}
    IN  CASE kind = "hierarchy" -> HierarchyHeaders(roles)
          [] kind = "members" -> MemberHeaders(LeafDecls, HolderDecls)
          [] kind = "foreign" -> ForeignHeaders(HolderDecls)
          [] kind = "marked" -> MarkedHeaders(LeafDecls, HolderDecls)
          [] kind = "virtual" -> VirtualHeaders(roles)
          [] OTHER -> VirtualBaseHeaders({{}, {User("L", "default")}, {Deleted("L", "default")}})
=============================================================================

------------------------------ MODULE CppClasses ------------------------------
(* What C++ says of the classes of a header, as the language defines it: which *)
(* subobjects an object has, which function finally overrides another, which   *)
(* classes are abstract, and which special members a class has and who may     *)
(* call them.  autocxx works these out again from what bindgen reports; this   *)
(* module is the other side of that comparison and models no code of autocxx.  *)
(*                                                                             *)
(* A library `l` is a record:                                                  *)
(*   order    its classes as the header defines them: each after those it is   *)
(*            made of                                                          *)
(*   apis     its classes and typedefs in the order bindgen lists them         *)
(*   alias    for each typedef, what it names                                  *)
(*   bases    for each class, the names it gives its direct bases              *)
(*   vbases   those of them it inherits virtually                              *)
(*   fields   for each class, a set of fields                                  *)
(*   decls    the special members and constructors declared                    *)
(*   virt     the virtual functions declared: [of, sig, pure]                  *)
(*   concrete, opaque, unnamed, nested, pod, blocked                           *)
(*            sets of classes, see ClassAnalysis                               *)
EXTENDS Naturals, Sequences, FiniteSets, SequencesExt

(* What F makes of the elements of seq, one after the other. *)
Through(F(_, _), first, seq) ==
    LET after[n \in 0..Len(seq)] == IF n = 0 THEN first ELSE F(after[n - 1], seq[n])
    IN  after[Len(seq)]

Classes(l) == DOMAIN l.bases
(* Typedefs of typedefs followed to the end: there are fewer than `apis`. *)
Resolved(l, name) ==
    IF name \notin DOMAIN l.alias THEN name
    ELSE Through(LAMBDA n, unused : IF n \in DOMAIN l.alias THEN l.alias[n] ELSE n, name, l.apis)
BasesOf(l, c) == {Resolved(l, b) : b \in l.bases[c]}
VirtualOf(l, c) == {Resolved(l, b) : b \in l.vbases[c]}
NonVirtualOf(l, c) == BasesOf(l, c) \ VirtualOf(l, c)

(* f, which says v of x. *)
Extended(f, x, v) == [y \in DOMAIN f \cup {x} |-> IF y = x THEN v ELSE f[y]]
(* What F says of each class, given what it says of the classes before it. *)
InOrder(l, F(_, _), known) ==
    Through(LAMBDA acc, c : Extended(acc, c, F(acc, c)), known, l.order)

(* What a field may be of which is no class of the header, see ForeignFacts. *)
Foreign == {"int", "enum", "str", "uptr", "tmpl", "hollow"}

(* A header as C++ has it and bindgen reports it: each class is made of those  *)
(* before it, and a template's instantiation is reported with nothing of its   *)
(* own.                                                                        *)
ValuesOf(l, c) == {f.ty : f \in {g \in l.fields[c] : g.shape = "value"}}
WellFormed(l) ==
    /\ l.order \in Seq(Classes(l)) /\ ToSet(l.order) = Classes(l)
    /\ \A i, j \in DOMAIN l.order : l.order[i] = l.order[j] => i = j
    /\ l.apis \in Seq(ToSet(l.apis)) /\ ToSet(l.apis) = Classes(l) \cup DOMAIN l.alias
    /\ Classes(l) \cap (Foreign \cup DOMAIN l.alias) = {}
    /\ \A i \in DOMAIN l.order :
          LET before == {l.order[j] : j \in 1..i - 1}
              c == l.order[i]
          IN  /\ BasesOf(l, c) \subseteq before /\ ValuesOf(l, c) \subseteq before \cup Foreign
              /\ l.bases[c] \subseteq before \cup DOMAIN l.alias /\ l.vbases[c] \subseteq l.bases[c]
    /\ \A d \in l.decls :
          /\ d.of \in Classes(l) \ l.concrete
          /\ d.vis \in {"public", "protected", "private"} /\ d.how \in {"user", "defaulted", "deleted"}
    /\ l.pod \cup l.concrete \subseteq Classes(l)
    /\ \A c \in l.concrete : l.bases[c] = {}

AllVirtualBases(l) ==
    InOrder(l, LAMBDA acc, c : VirtualOf(l, c) \cup UNION {acc[b] : b \in BasesOf(l, c)}, <<>>)

-----------------------------------------------------------------------------
(* Subobjects.  One is named by the path to it: from the whole object, or from *)
(* a virtual base, which is shared, down through non-virtual bases.            *)
Paths(l) ==
    InOrder(l, LAMBDA acc, c :
        {<<c>>} \cup UNION {{<<c>> \o p : p \in acc[b]} : b \in NonVirtualOf(l, c)}, <<>>)

(* What the questions below are asked of, for every class of the header. *)
Hierarchy(l) == [paths |-> Paths(l), virtual |-> AllVirtualBases(l), virt |-> l.virt]
Subobjects(h, c) == UNION {h.paths[v] : v \in {c} \cup h.virtual[c]}

(* t is s, or an object of which s is a part. *)
Holds(h, t, s) ==
    \/ IsPrefix(t, s)
    \/ s[1] \in h.virtual[Last(t)]

Declares(h, c, sig) == \E v \in h.virt : v.of = c /\ v.sig = sig
FinalOverriders(h, c, s, sig) ==
    LET over == {t \in Subobjects(h, c) : Declares(h, Last(t), sig) /\ Holds(h, t, s)}
    IN  {t \in over : \A u \in over \ {t} : ~Holds(h, u, t)}

Obligations(h, c) ==
    UNION {{<<s, v.sig>> : v \in {w \in h.virt : w.of = Last(s)}} : s \in Subobjects(h, c)}

(* A class in which a function has two final overriders does not compile. *)
CppAccepts(l) ==
    LET h == Hierarchy(l)
    IN  \A c \in Classes(l) : \A o \in Obligations(h, c) :
            Cardinality(FinalOverriders(h, c, o[1], o[2])) = 1

PureDestructor(l, c) == \E d \in l.decls : d.of = c /\ d.kind = "dtor" /\ d.virt = "pure"
CppAbstract(l) ==
    LET h == Hierarchy(l)
    IN  {c \in Classes(l) :
            \/ PureDestructor(l, c)
            \/ \E o \in Obligations(h, c) : \E t \in FinalOverriders(h, c, o[1], o[2]) :
                   [of |-> Last(t), sig |-> o[2], pure |-> TRUE] \in l.virt}

CppVirtualDestructors(l) ==
    LET is == InOrder(l, LAMBDA acc, c :
                  \/ \E d \in l.decls : d.of = c /\ d.kind = "dtor" /\ d.virt # "no"
                  \/ \E b \in BasesOf(l, c) : acc[b], <<>>)
    IN  {c \in Classes(l) : is[c]}

-----------------------------------------------------------------------------
(* Special members.  What initializes an object is an lvalue or an xvalue,     *)
(* const or volatile; a constructor takes some of these, and among those which *)
(* do, overload resolution prefers the earlier here.                           *)
Takes(kind) ==
    CASE kind = "move" -> {"x"}
      [] kind = "cmove" -> {"x", "cx"}
      [] kind = "ncopy" -> {"l"}
      [] kind = "ccopy" -> {"l", "cl", "x", "cx"}
      [] kind = "cvcopy" -> {"l", "cl", "vl"}
      [] kind = "any" -> {"l", "cl", "vl", "x", "cx", "vx"}
      [] OTHER -> {}
Preference == <<"move", "cmove", "ncopy", "ccopy", "cvcopy", "any">>
Rank(kind) == CHOOSE i \in DOMAIN Preference : Preference[i] = kind
Copies == {"ccopy", "cvcopy", "ncopy"}
Moves == {"move", "cmove"}
Transfers == Copies \cup Moves

(* A constructor or destructor as C++ has it: who may call it, whether it is   *)
(* deleted, and whether nobody wrote a body for it.                            *)
Special(kind, vis, del, dflt) == [kind |-> kind, vis |-> vis, del |-> del, dflt |-> dflt]
Implied(kind, del) == Special(kind, "public", del, TRUE)
Written(kind) == Special(kind, "public", FALSE, FALSE)
Withdrawn(kind) == Special(kind, "public", TRUE, FALSE)

(* A move which is only defaulted, and deleted by that, is not considered. *)
Selected(facts, source) ==
    LET viable == {s \in facts : source \in Takes(s.kind)
                                 /\ ~(s.kind \in Moves /\ s.dflt /\ s.del)}
    IN  {s \in viable : \A o \in viable : Rank(s.kind) <= Rank(o.kind)}
Callable(specials, whom) == \E s \in specials : ~s.del /\ s.vis \in whom
FromAnywhere == {"public"}
FromDerived == {"public", "protected"}
OfKind(facts, kind) == {s \in facts : s.kind = kind}
Destroys(facts, whom) == Callable(OfKind(facts, "dtor"), whom)
Defaults(facts, whom) == Callable(OfKind(facts, "default"), whom)
Copied(facts, source, whom) == Callable(Selected(facts, source), whom)

(* Types a field may have which are no class of the library: a number, a       *)
(* std::string, a std::unique_ptr, an enumeration, a template's instantiation  *)
(* of which bindgen says nothing, and one on a type which nothing defines.     *)
Scalar == {Written("default"), Written("any"), Written("dtor")}
ForeignFacts(ty) ==
    CASE ty = "str" -> {Written(k) : k \in {"default", "ccopy", "move", "dtor"}}
      [] ty = "uptr" -> {Written(k) : k \in {"default", "move", "dtor"}} \cup {Withdrawn("ccopy")}
      [] ty = "tmpl" -> {Withdrawn("default"), Withdrawn("ccopy"), Written("dtor")}
      [] ty = "hollow" -> {Withdrawn(k) : k \in {"default", "ccopy", "dtor"}}
      [] OTHER -> Scalar

References == {"reference", "rvalue"}

(* The parts an object of c is made of, as they meet c's own constructors.  An *)
(* unnamed class has a base, a template's instantiation, bindgen cannot name.  *)
Parts(l, c) ==
    {[ty |-> b, base |-> TRUE, const |-> FALSE, volatile |-> FALSE, init |-> FALSE,
      shape |-> "value"] : b \in BasesOf(l, c) \cup AllVirtualBases(l)[c]
                                \cup IF c \in l.unnamed THEN {"tmpl"} ELSE {}}
    \cup {[ty |-> f.ty, base |-> FALSE, const |-> f.const, volatile |-> f.volatile,
           init |-> f.init, shape |-> f.shape] : f \in l.fields[c]}
SourceFor(part, source) ==
    CASE part.volatile -> IF source \in {"x", "cx"} THEN "vx" ELSE "vl"
      [] part.const -> IF source \in {"x", "cx"} THEN "cx" ELSE "cl"
      [] OTHER -> source

(* The special members of c, `known` being those of what it is made of. *)
SpecialsOf(l, known, c) ==
    LET FactsOf(p) == IF p.shape = "value" THEN known[p.ty] ELSE Scalar
        Whom(p) == IF p.base THEN FromDerived ELSE FromAnywhere
        parts == Parts(l, c)
        declared == {d \in l.decls : d.of = c}
        kinds == {d.kind : d \in declared}
        destroyed == \A p \in parts : Destroys(FactsOf(p), Whom(p))
        Undefaulted(p) ==
            /\ ~p.init
            /\ \/ p.shape \in References
               \/ ~Defaults(FactsOf(p), Whom(p))
               \/ p.const /\ ~\E s \in FactsOf(p) : /\ s.kind = "default" /\ ~s.dflt
                                                  /\ p.shape = "value"
                                                  /\ p.ty \notin {"int", "enum"}
        From(source) == \A p \in parts : Copied(FactsOf(p), SourceFor(p, source), Whom(p))
        rvalue == \E p \in parts : p.shape = "rvalue"
        Deleted(kind) ==
            CASE kind = "default" -> ~destroyed \/ \E p \in parts : Undefaulted(p)
              [] kind \in {"ccopy", "cvcopy"} -> ~destroyed \/ rvalue \/ ~From("cl")
              [] kind = "ncopy" -> ~destroyed \/ rvalue \/ ~From("l")
              [] kind \in Moves -> ~destroyed \/ ~From("x")
              [] kind = "dtor" -> ~destroyed
              [] OTHER -> FALSE
        constShape == \A p \in parts :
            \E s \in FactsOf(p) : s.kind \in {"ccopy", "cvcopy", "any"}
        implied ==
            (IF kinds \cap (Transfers \cup {"default", "other"}) = {} THEN {"default"} ELSE {})
            \cup (IF kinds \cap Copies = {} THEN {IF constShape THEN "ccopy" ELSE "ncopy"} ELSE {})
            \cup (IF kinds \cap (Transfers \cup {"dtor"}) = {} THEN {"move"} ELSE {})
            \cup ({"dtor"} \ kinds)
    IN  {CASE d.how = "user" -> Special(d.kind, d.vis, FALSE, FALSE)
           [] d.how = "deleted" -> Special(d.kind, d.vis, TRUE, FALSE)
           [] OTHER -> Special(d.kind, d.vis, Deleted(d.kind), TRUE) : d \in declared}
        \cup {Implied(k, Deleted(k) \/ (k \in Copies /\ kinds \cap Moves # {})) : k \in implied}

(* For every type of the library: its special members, and whether destroying *)
(* one does nothing.  A concrete template instantiation is what the user who   *)
(* asked for it to be instantiable vouched for.                                *)
Specials(l) ==
    InOrder(l, LAMBDA acc, c :
        IF c \in l.concrete THEN {Written("default"), Written("dtor")}
        ELSE SpecialsOf(l, acc, c), [ty \in Foreign |-> ForeignFacts(ty)])

Trivially(l) ==
    LET virtuals == CppVirtualDestructors(l)
    IN  InOrder(l, LAMBDA acc, c :
        /\ c \notin l.concrete \cup virtuals
        /\ \A d \in l.decls : d.of = c /\ d.kind = "dtor" => d.how = "defaulted"
        /\ \A p \in Parts(l, c) : p.shape = "value" => acc[p.ty],
        [ty \in Foreign |-> ty \in {"int", "enum"}])
===============================================================================

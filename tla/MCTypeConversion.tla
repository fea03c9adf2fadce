---------------------------- MODULE MCTypeConversion ----------------------------
(***************************************************************************)
(* Libraries for TypeConversion: a template A, a smart_pointer! template S *)
(* and a template Bad which bindgen could not express; classes B and C, a  *)
(* class Fwd only declared; typedefs T and U; one or two signatures.       *)
(***************************************************************************)
EXTENDS TypeConversion

Api(kind) ==
    [kind |-> kind, written |-> Path("none"), refused |-> FALSE, use |-> FALSE, nested |-> FALSE,
     template |-> FALSE, converted |-> FALSE, forward |-> FALSE, target |-> NoTarget, deps |-> {}, err |-> "none"]
Typedef(t) == [Api("typedef") EXCEPT !.written = t]
Refused == [Typedef(Path("B")) EXCEPT !.refused = TRUE]
AliasTemplate == [Refused EXCEPT !.template = TRUE]
Use(t) == [Typedef(t) EXCEPT !.use = TRUE]
Nested(api) == [api EXCEPT !.nested = TRUE]

Class(params, fields, bases, destructor) ==
    [params |-> params, fields |-> fields, bases |-> bases, destructor |-> destructor]

Const(t) == Marked("const", t)
Volatile(t) == Marked("volatile", t)
Lref(t) == Term("lref", "const", <<t>>)
MutLref(t) == Term("lref", "mut", <<t>>)
Rref(t) == Term("rref", "mut", <<t>>)
Array(t) == Marked("array", t)
StdArray(t) == Marked("std array", Array(t))
A(t) == Generic("A", <<t>>)
Unique(t) == Generic("std::unique_ptr", <<t>>)
Shared(t) == Generic("std::shared_ptr", <<t>>)
Weak(t) == Generic("std::weak_ptr", <<t>>)
Vector(t) == Generic("std::vector", <<t>>)
Boxed(t) == Generic("rust::Box", <<t>>)
Smart(t) == Generic("S", <<t>>)
Wrapper(t) == Generic("std::reference_wrapper", <<t>>)
B == Path("B")   Fwd == Path("Fwd")   T == Path("T")   U == Path("U")   C == Path("C")
Int32 == Path("int32_t")   Char == Path("char")   View == Path("std::string_view")

(* The markers bindgen writes, and what a signature can refuse by itself. *)
Plain ==
    {B, Fwd, Ptr(B), Ptr(Ptr(B)), Ptr(Array(B)), Lref(Fwd), MutLref(Path("rust::Str")), Lref(Path("rust::Str")),
     Path("rust::Str"), Rref(B), Rref(Ptr(B)), Lref(Array(B)), Lref(StdArray(B)), StdArray(B),
     Const(B), Volatile(B), Marked("opaque", B), Marked("long double", Path("f64")),
     Marked("float128", Path("f64")), Marked("bitfield", Int32), FunctionPointer, Path("va_list"),
     Path("blocked"), Path("foreign"), Path("bad ident"), Path("hidden"), Ptr(Volatile(B))}

Containers ==
    {Unique(B), Unique(Int32), Unique(Fwd), Unique(Const(B)), Unique(Ptr(B)), Unique(T), Unique(Const(A(B))),
     Shared(Int32), Shared(T), Shared(Const(T)), Weak(Const(B)), Weak(B), Vector(B), Vector(Ptr(B)),
     Vector(Const(B)), Vector(Unique(B)), Vector(Char), Vector(A(Fwd)), Vector(View), Vector(Ptr(A(B))),
     Boxed(B), Boxed(Path("R")), Boxed(Path("RHolder")), Unique(Volatile(B)), Vector(Int32)}

Instantiations ==
    {A(B), A(Ptr(B)), A(Const(B)), A(Fwd), A(Ptr(Fwd)), A(A(Fwd)), A(T), A(Array(B)), A(Volatile(B)),
     A(Marked("long double", Path("f64"))), A(Path("std::string")), Generic("Inner", <<Path("std::vector")>>),
     Generic("Bad", <<B>>), Smart(B), Smart(Const(B)), Smart(Ptr(B)), Smart(A(Fwd))}

Sorts == Plain \cup Containers \cup Instantiations

(* A typedef of each sort, and those which resolve in no ordinary way; one *)
(* of the other; and, since two names may be flattened into one, of itself.*)
Typedefs ==
    {Typedef(t) : t \in {B, Fwd, Int32, Ptr(B), Lref(B), MutLref(B), Rref(B), FunctionPointer, A(B), A(Fwd), A(Ptr(B)),
                         Const(B), StdArray(B), Unique(B), Unique(Const(B)), Unique(A(Fwd)), Vector(Ptr(B)),
                         View, Path("va_list"), Marked("opaque", B), Path("hidden"), Path("RF"),
                         Generic("Bad", <<B>>), Smart(B), Weak(Const(B)), Path("rust::Str")}}
    \cup {Use(B), Use(A(B)), Refused, AliasTemplate, Nested(Typedef(Marked("opaque", B)))}

OfTheOther == {Typedef(U), Use(U), Nested(Typedef(U)), Typedef(Ptr(U)), Typedef(Unique(U)), Typedef(A(U)), Typedef(T)}

OfTypedef == {T, Ptr(T), Lref(T), MutLref(T), Unique(T), Unique(Const(T)), Vector(T), A(T), Smart(T), Const(T), Array(T)}

Declared(t, u) ==
    [n \in {"A", "Inner", "S", "std::reference_wrapper", "Bad", "B", "C", "Fwd", "RF", "bad ident", "R", "RHolder", "T", "U"} |->
        CASE n = "T" -> t [] n = "U" -> u
          [] n = "bad ident" -> Typedef(B)
          [] n = "Bad" -> Api("ignored")
          [] n = "Fwd" -> Api("forward") [] n = "RF" -> Api("refused forward")
          [] OTHER -> Api("struct")]

Named(t) == [name |-> "Chosen", definition |-> CppDefinition(t), written |-> t, surface |-> "none", incomplete |-> "none"]

Library(t, u, member, destructor, signatures, directives) ==
    [apis |-> Declared(t, u), typedefs |-> <<"U", "T", "bad ident">>,
     structs |-> [n \in {"A", "B", "C", "D"} |->
                    CASE n = "A" -> Class({"P"}, <<Path("P"), A(Path("P"))>>, <<>>, FALSE)
                      [] n = "B" -> Class({}, <<Int32>>, <<>>, FALSE)
                      [] n = "C" -> Class({}, <<member>>, <<>>, destructor)
                      [] OTHER -> Class({}, <<Array(C)>>, <<"C">>, FALSE)],
     fields |-> <<[of |-> "A", at |-> 2], [of |-> "C", at |-> 1]>>,
     signatures |-> signatures, concrete |-> directives,
     statics |-> <<>>, pods |-> {},
     required |-> [n \in {"Inner"} |-> {"value_type"}],
     blocklist |-> {"blocked"}, foreign |-> {"foreign"}, anonymous |-> {"hidden"}, unnameable |-> {"bad ident"},
     rustTypes |-> {"R", "RHolder"}, subclassHolders |-> {"RHolder"}, smartPointers |-> {"S"},
     instantiable |-> {}, cpprefs |-> FALSE]

(* Each sort alone and each behind a reference; two instantiations, in     *)
(* either order; each typedef in every place; members which bar a class.   *)
Pairs == Instantiations \cup {Unique(A(Fwd)), Vector(A(Fwd)), Lref(A(Fwd)), Lref(A(Ptr(B))), Weak(Const(B)), Shared(Const(B)),
                              Vector(Ptr(B)), Ptr(A(A(Fwd)))}

(* Variables: of one type and of two, which the header may have wrapped in *)
(* something of the same name or of a name which flattens into it.         *)
Variable(t) == [type |-> t, named |-> TRUE]
Variables == {Variable(t) : t \in {"B", "C", "A", "T", "Fwd", "std::string", "std::string_view"}}
             \cup {[Variable("B") EXCEPT !.named = FALSE]}
OfReference == {Int32, Wrapper(Const(B)), Wrapper(Ptr(Const(B))), A(B)}

WithVariables(member, s, directives, statics, smart) ==
    [Library(Typedef(Int32), Typedef(B), member, FALSE, <<s>>, directives) EXCEPT
        !.statics = statics, !.pods = {"C"}, !.smartPointers = @ \cup smart]

MCPrograms ==
    {Library(Typedef(Int32), Typedef(B), t, FALSE, <<t, Lref(t)>>, <<>>) : t \in Sorts}
    \cup {[Library(Typedef(Int32), Typedef(B), Int32, FALSE, <<t>>, <<>>) EXCEPT !.cpprefs = TRUE] : t \in Plain}
    \cup {Library(Typedef(Int32), Typedef(B), Int32, FALSE, <<s, t>>, d) :
            s \in Pairs, t \in Pairs, d \in {<<>>, <<Named(Unique(Const(B)))>>, <<Named(Vector(Ptr(B)))>>}}
    \cup {Library(t, Typedef(B), T, FALSE, <<s>>, <<>>) : t \in Typedefs, s \in OfTypedef}
    \cup {Library(t, u, Int32, FALSE, <<s>>, <<>>) : t \in OfTheOther, u \in Typedefs, s \in OfTypedef}
    \cup {Library(Typedef(Fwd), Typedef(A(T)), t, destructor, <<s>>, <<>>) :
            t \in Instantiations \cup {U, Ptr(U), Array(U), Volatile(U), Unique(C)}, destructor \in BOOLEAN,
            s \in {C, Path("D"), Unique(C), Unique(Path("D")), Lref(C), A(C), U, Vector(U)}}
    \cup {WithVariables(member, s, d, <<x, y>>, smart) :
            member \in OfReference, s \in OfReference, d \in {<<>>, <<Named(Wrapper(Const(B)))>>}, x \in Variables,
            y \in {Variable("B"), Variable("std::string")}, smart \in {{}, {"std::reference_wrapper"}}}
================================================================================

-------------------------- MODULE SynthesizedFunctions --------------------------
(***************************************************************************)
(* The functions the library does not declare, which are put among those   *)
(* it does before any is analysed: casts to base classes (casts.rs),       *)
(* getters of data members (field_accessors.rs), and the memory a value is *)
(* constructed in (allocators.rs).                                         *)
(***************************************************************************)
EXTENDS FunctionNames, ApiVec

(* A FuncToConvert, and the work of analysing one under an API's name.     *)
NoBody == [is |-> "none", base |-> "none", method |-> "none", kind |-> "none"]
Body(is, base, method, kind) == [is |-> is, base |-> base, method |-> method, kind |-> kind]
NoTrait == [is |-> "none", of |-> "none"]
NoConstruction == [superclass |-> "none", arguments |-> <<>>, trivial |-> FALSE]

FuncToConvert(ident, self, params, ret) ==
    [ident |-> ident, selfTy |-> self, params |-> params, ret |-> ret, special |-> "none",
     methodKind |-> "none", virtual |-> "Normal", vis |-> "public", deleted |-> "none", variadic |-> FALSE,
     refq |-> "none", exceptions |-> "none", trait |-> NoTrait, deprecated |-> FALSE, body |-> NoBody,
     this |-> "none", from |-> "synthesized", constructs |-> NoConstruction]

This(class, mut) == [name |-> "this", type |-> Written("ptr", class, mut)]

Analyze(ns, id, cpp, fun) ==
    [is |-> "bind", ns |-> ns, id |-> id, cpp |-> cpp, fun |-> fun, rust |-> "none", simple |-> FALSE]
(* An IgnoredItem which is to have a name among its class's members; its   *)
(* own is made unique first, or `exact`ly this.                            *)
Note(class, exact, id, wanted, declared, err) ==
    [is |-> "note", class |-> class, exact |-> exact, id |-> id,
     wanted |-> wanted, declared |-> declared, err |-> err]
Keep(api) == [is |-> "keep", api |-> api]
GeneratedName(ns, id) == [name |-> <<ns, id>>, err |-> "none", lookup |-> <<ns, id>>]

PeerClass(sub) == sub \o "Cpp"
Synthetic(ns, ident, fun) == Analyze(ns, ident, "none", fun)
Before(jobs, Made(_)) == FlattenSeq([i \in DOMAIN jobs |-> Append(Made(jobs[i]), jobs[i])])
IsKept(job, kinds) == job.is = "keep" /\ job.api.kind \in kinds
KeptType(job) == job.api.name[2]

-----------------------------------------------------------------------------
(* Casts: from each struct to every public base on the allowlist.          *)

CastableBases(class) == {base \in Holding(class).publicBases : IsOnAllowlist(base)}

CreateCast(from, to) ==
    LET ident == "cast_" \o from \o "_to_" \o to
    IN Synthetic(Holding(from).ns, ident,
                 [FuncToConvert(ident, from, <<This(from, FALSE)>>, Written("lref", to, FALSE)) EXCEPT
                     !.trait = [is |-> "Cast", of |-> to], !.body = Body("cast", to, "none", "function")])

AddCasts(jobs) ==
    Before(jobs, LAMBDA job :
        IF IsKept(job, {"struct"})
        THEN LET bases == SetToSeq(CastableBases(KeptType(job)))
             IN [i \in DOMAIN bases |-> CreateCast(KeptType(job), bases[i])]
        ELSE <<>>)

-----------------------------------------------------------------------------
(* Field accessors, for what a class which is not POD shows of itself.     *)

(* nameable_types: the user's business already, or autocxx's own.          *)
Nameable(jobs) ==
    {t \in DOMAIN program.types : IsOnAllowlist(t)}
    \cup {KeptType(jobs[i]) : i \in {j \in DOMAIN jobs : IsKept(jobs[j], {"concrete"})}}

Shape(is, err) == [is |-> is, err |-> err]
Unrepresentable(what) == Shape("refused", what)

(* member_shape, of what the field's type was converted to.                *)
ByValueMember(n) == (n \in Enums \/ (IsKnownType(n) /\ ~LacksCopyConstructor(n))) /\ PodSafeTypes(n)

Mut_MemberShape(w, nameable) ==
    CASE w.by \in {"lref", "rref"} -> Unrepresentable("reference member")
      [] w.by = "array" -> Unrepresentable("array member")
      [] w.by = "ptr" -> Shape("by value", "none")
      [] OTHER -> IF ~IsKnownType(w.of) /\ w.of \notin nameable THEN Unrepresentable("member of non-allowlisted type")
                  ELSE Shape(IF ByValueMember(w.of) THEN "by value" ELSE "by reference", "none")

MemberShape(w, nameable) ==
    CASE w.by \in {"lref", "rref"} -> Unrepresentable("reference member")
      [] w.by = "array" -> Unrepresentable("array member")
      [] w.by = "ptr" -> Shape("by value", "none")
      [] OTHER ->
            CASE ~IsKnownType(w.of) /\ w.of \notin nameable -> Unrepresentable("member of non-allowlisted type")
              [] (IsKnownType(w.of) \/ w.of \in nameable) /\ w.volatile ->
                    IF ByValueMember(w.of) /\ (CopyableFromVolatile(w.of) \/ w.of \in Enums)
                    THEN Shape("by value", "none") ELSE Unrepresentable("volatile member")
              [] OTHER -> Shape(IF ByValueMember(w.of) THEN "by value" ELSE "by reference", "none")

(* A getter is written with no type it belongs to, and no qualifier of the *)
(* member's own but `volatile`.                                            *)
Getter(class, name, member, shape) ==
    Analyze(Holding(class).ns, name, member.cpp,
            [FuncToConvert(name, "none", <<This(class, FALSE)>>,
                           IF shape.is = "by value" THEN [member.type EXCEPT !.mut = IF member.type.by = "value" THEN TRUE ELSE @]
                           ELSE Written("lref", member.type.of, FALSE)) EXCEPT
                !.methodKind = "other", !.body = Body("field read", class, member.name, "method")])

IgnoredMember(class, name, member, err) ==
    Keep(Ignored(<<Holding(class).ns, name>>, err, <<class, member.name>>))

HasAccessor(member) ==
    /\ member.vis = "public" /\ ~member.bitfield /\ member.name # "none"
    /\ member.field /\ member.type.err = "none"

FreeAccessorName(taken, ns, stem) ==
    LET numbered[n \in 0..Cardinality(taken)] == IF n = 0 THEN stem ELSE stem \o ToString(n)
        free == {n \in 0..Cardinality(taken) : <<ns, numbered[n]>> \notin taken}
    IN numbered[CHOOSE n \in free : \A m \in free : n <= m]

(* accessor_for: the one for this member, after the others'. *)
Accessor(made, class, member, nameable) ==
    LET shape == MemberShape(member.type, nameable)
        name == FreeAccessorName(made.taken, Holding(class).ns, class \o "_" \o member.name \o "_autocxx_field")
    IN [taken |-> made.taken \cup {<<Holding(class).ns, name>>},
        jobs |-> Append(made.jobs,
                        IF shape.is = "refused" THEN IgnoredMember(class, name, member, shape.err)
                        ELSE Getter(class, name, member, shape))]

NameOfJob(job) == IF job.is = "keep" THEN job.api.name ELSE <<job.ns, job.id>>

AddFieldAccessors(jobs) ==
    LET IsOpaque(class) == ~Holding(class).pod /\ ~Holding(class).generic /\ IsOnAllowlist(class)
        nameable == Nameable(jobs)
        owners == SelectSeq(jobs, LAMBDA job : IsKept(job, {"struct"}) /\ IsOpaque(KeptType(job)))
        AccessorsOf(made, job) ==
            FoldLeft(LAMBDA so, member : Accessor(so, KeptType(job), member, nameable), made,
                     SelectSeq(Holding(KeptType(job)).members, HasAccessor))
    IN jobs \o FoldLeft(AccessorsOf, [taken |-> {NameOfJob(jobs[i]) : i \in DOMAIN jobs}, jobs |-> <<>>], owners).jobs

-----------------------------------------------------------------------------
(* Memory for a value to be constructed in, and its return.                *)

Uninitialized(ns, class, is, label, params, ret) ==
    LET ident == class \o "_autocxx_" \o label
    IN Synthetic(ns, ident, [FuncToConvert(ident, "none", params, ret) EXCEPT
                                !.trait = [is |-> is, of |-> class],
                                !.body = Body(label, class, "none", "function")])

CreateAllocAndFree(ns, class) ==
    LET memory == Written("ptr", class, TRUE)
    IN <<Uninitialized(ns, class, "Alloc", "alloc", <<>>, memory),
         Uninitialized(ns, class, "Dealloc", "free", <<[name |-> "arg0", type |-> memory]>>, NoReturn)>>

CreateAllocAndFrees(jobs) ==
    Before(jobs, LAMBDA job :
        CASE IsKept(job, {"struct"}) -> CreateAllocAndFree(job.api.name[1], KeptType(job))
          [] IsKept(job, {"concrete"}) /\ KeptType(job) \in program.instantiable ->
                CreateAllocAndFree(job.api.name[1], KeptType(job))
          [] IsKept(job, {"subclass"}) -> CreateAllocAndFree(job.api.name[1], PeerClass(KeptType(job)))
          [] OTHER -> <<>>)

(* In the order conversion/mod.rs runs them. *)
WithSynthesized(jobs) == CreateAllocAndFrees(AddFieldAccessors(AddCasts(jobs)))
================================================================================

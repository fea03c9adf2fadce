---------------------------- MODULE FunctionNames ----------------------------
(***************************************************************************)
(* The names of a function (analysis/fun/mod.rs, overload_tracker.rs,      *)
(* bridge_name_tracker.rs): the one it would like in Rust, the one it gets *)
(* among those of its scope, and the one it has in the flat bridge.        *)
(***************************************************************************)
EXTENDS Signatures, TLC

EndsWithUnderscore(s) == s # "" /\ SubSeq(s, Len(s), Len(s)) = "_"
HasPrefix(s, prefix) == Len(prefix) <= Len(s) /\ SubSeq(s, 1, Len(prefix)) = prefix
AfterPrefix(s, prefix) == SubSeq(s, Len(prefix) + 1, Len(s))
IsNumber(s) == s \in {ToString(n) : n \in 0..9}

-----------------------------------------------------------------------------
(* The name a function would like. *)

IdealRustName(ident, cpp) ==
    CASE cpp = "none" \/ EndsWithUnderscore(ident) -> ident
      [] cpp # "none" /\ ~EndsWithUnderscore(ident) /\ cpp \in program.reservedWords -> cpp \o "_"
      [] OTHER -> cpp

(* constructor_with_suffix. *)
IsConstructor(fun, ideal, class) ==
    \/ fun.methodKind = "constructor"
    \/ /\ fun.methodKind = "none" /\ HasPrefix(ideal, class)
       /\ \/ ideal = class
          \/ IsNumber(AfterPrefix(ideal, class))

NewWithSuffix(ideal, class) ==
    "new" \o (IF HasPrefix(ideal, class) THEN AfterPrefix(ideal, class) ELSE "")

(* What kind of function this is, from its converted parameters.           *)
KindOf(fun, params, ideal) ==
    LET receivers == SelectSeq(params, LAMBDA p : p.self # "none")
        static == receivers = <<>>
        self == IF static THEN fun.selfTy ELSE Head(receivers).self
        isMove == fun.special = "move"
        takesConstReference == Len(params) > 1 /\ params[2].hasLifetime /\ ~params[2].mutable
        is == CASE fun.trait.is # "none" -> fun.trait.is
                [] fun.trait.is = "none" /\ self = "none" -> "Function"
                [] OTHER ->
                    CASE fun.special \in {"copy", "move"} ->
                            IF isMove THEN "MoveConstructor"
                            ELSE IF takesConstReference THEN "CopyConstructor" ELSE "Constructor"
                      [] fun.special = "destructor" -> "Destructor"
                      [] OTHER ->
                            CASE IsConstructor(fun, ideal, NestedTypeIdent(self)) -> "Constructor"
                              [] ~IsConstructor(fun, ideal, NestedTypeIdent(self)) /\ static -> "Static"
                              [] OTHER -> fun.virtual
    IN FnKind(is, IF fun.trait.is \in {"Alloc", "Dealloc"} THEN fun.trait.of ELSE self,
              ~static /\ Head(receivers).selfMut)

WantedName(fun, kind, ideal) ==
    LET class == NestedTypeIdent(kind.of)
    IN CASE fun.trait.is # "none" -> ideal
         [] fun.trait.is = "none" /\ fun.special \in {"copy", "move"} /\ kind.is # "Function" ->
                IF HasPrefix(ideal, class) THEN NewWithSuffix(ideal, class) ELSE ideal
         [] OTHER -> IF kind.is = "Constructor" THEN NewWithSuffix(ideal, class) ELSE ideal

-----------------------------------------------------------------------------
(* OverloadTracker.  A scope is a namespace's functions, or a type's.      *)

NewScope == [offsets |-> << >>, assigned |-> {}, declarations |-> << >>, reserved |-> {}]
ScopeNames(scopes, scope) == IF scope \in DOMAIN scopes THEN scopes[scope] ELSE NewScope
CountOf(counts, n) == IF n \in DOMAIN counts THEN counts[n] ELSE 0
Counted(counts, n) == (n :> CountOf(counts, n) + 1) @@ counts

NamespaceOf(t) == IF t \in DOMAIN program.types THEN Holding(t).ns ELSE ""
ScopeOf(job, kind) ==
    CASE kind.is \in {"Function", "Cast"} -> <<job.ns, "">>
      [] kind.is \in {"Alloc", "Dealloc"} -> <<NamespaceOf(kind.of), "">>
      [] OTHER -> <<job.ns, kind.of>>

(* The names get_name's loop may end with: the one asked for if nobody has *)
(* asked before, or else the first free numbered one.                      *)
Mut_OverloadNames(names, wanted) ==
    LET n == CountOf(names.offsets, wanted) IN {IF n = 0 THEN wanted ELSE wanted \o ToString(n)}
OverloadNames(names, wanted) ==
    LET from == IF CountOf(names.offsets, wanted) > 0 THEN CountOf(names.offsets, wanted) ELSE 1
        taken == names.assigned \cup names.reserved
        Numbered(n) == wanted \o ToString(n)
        FirstFree(n) == Numbered(n) \notin taken /\ \A m \in from..(n - 1) : Numbered(m) \in taken
    IN IF CountOf(names.offsets, wanted) = 0 /\ wanted \notin names.assigned THEN {wanted}
       ELSE {Numbered(n) : n \in {n \in from..(from + Cardinality(taken)) : FirstFree(n)}}

(* How many declarations of the same C++ name came first, for a name that  *)
(* is not the one asked for.                                               *)
Ordinal(names, wanted, name, declared) ==
    IF name = wanted \/ declared = "none" THEN "none" ELSE ToString(CountOf(names.declarations, declared))

Assigned(names, wanted, name, declared) ==
    [names EXCEPT !.offsets = Counted(@, wanted),
                  !.assigned = @ \cup {name},
                  !.declarations = IF declared = "none" THEN @ ELSE Counted(@, declared)]

(* cpp_declared_name: what C++ calls a function it declares. *)
DeclaredName(job) ==
    IF job.fun.from # "bindgen" THEN "none"
    ELSE IF job.cpp # "none" THEN job.cpp ELSE IdealRustName(job.fun.ident, job.cpp)

(* reserve_ideal_names. *)
Mut_Reserve(scopes, scope, name) == scopes
Reserve(scopes, scope, name) ==
    (scope :> [ScopeNames(scopes, scope) EXCEPT !.reserved = @ \cup {name}]) @@ scopes

IsBind(job) == job.is = "bind"
SelfScope(job) == <<job.ns, IF job.fun.selfTy = "none" THEN "" ELSE job.fun.selfTy>>
ReserveIdealName(scopes, job) == Reserve(scopes, SelfScope(job), IdealRustName(job.fun.ident, job.cpp))
ReserveIdealNames(jobs) == FoldLeft(ReserveIdealName, << >>, SelectSeq(jobs, IsBind))

-----------------------------------------------------------------------------
(* BridgeNameTracker: the prefixes counted, and the name. *)

Joined(ns, class, name) ==
    (IF ns = "" THEN "" ELSE ns \o "_") \o (IF class = "none" THEN "" ELSE class \o "_") \o name

Mut_UniqueBridgeName(counts, class, rust, ns) == [name |-> rust, counts |-> counts]
UniqueBridgeName(counts, class, rust, ns) ==
    LET found == IF rust = "new" THEN "new_autocxx" ELSE rust
        seen == Counted(counts, found)
        prefix == Joined(ns, class, found)
        n == CountOf(counts, prefix)
    IN IF CountOf(counts, found) = 0 THEN [name |-> found, counts |-> seen]
       ELSE [name |-> IF n = 0 THEN prefix ELSE prefix \o "_autocxx" \o ToString(n),
             counts |-> Counted(counts, prefix)]

(* uniquify_name_per_mod adds the directives' hash, the same for them all. *)
WrapperName(name) == name \o (IF EndsWithUnderscore(name) THEN "" ELSE "_") \o "autocxx_wrapper"
================================================================================

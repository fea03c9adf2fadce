------------------------------- MODULE ApiVec -------------------------------
(***************************************************************************)
(* The list of APIs every analysis reads and rebuilds (apivec.rs).  One    *)
(* name is one API, so pushing a name that is taken has to choose between  *)
(* the two, or refuse both; and a function which loses to a type of its    *)
(* name is filed elsewhere, so that somebody can still report it.          *)
(***************************************************************************)
EXTENDS Naturals, FiniteSets, Sequences, SequencesExt, TLC

(* Qualified names are <<namespace, identifier>>. *)
Suffixed(name, suffix) == <<name[1], name[2] \o suffix>>

Ignored(name, err, lookup) == [name |-> name, kind |-> "ignored", err |-> err, lookup |-> lookup]

IsUnshadowableType(api) == api.kind \in {"struct", "enum", "forward declaration"}
IsDisplacedFunction(api) == api.kind = "ignored" /\ api.err = "function hidden by type"
DiscardDuplicates(api) == api.kind \in {"ignored", "static"}

Names(apis) == {apis[i].name : i \in DOMAIN apis}
Holds(apis, name, Is(_)) == \E i \in DOMAIN apis : apis[i].name = name /\ Is(apis[i])
(* Those of apis which go by none of these names, in order. *)
WithoutAll(apis, names) ==
    LET kept[n \in 0..Len(apis)] ==
            IF n = 0 THEN <<>>
            ELSE IF apis[n].name \in names THEN kept[n - 1] ELSE Append(kept[n - 1], apis[n])
    IN  kept[Len(apis)]
Without(apis, name) == WithoutAll(apis, {name})

FirstFreeName(apis, base) ==
    LET free == {n \in 0..Len(apis) : n > 0 /\ Suffixed(base, ToString(n)) \notin Names(apis)}
    IN IF base \notin Names(apis) THEN base
       ELSE Suffixed(base, ToString(CHOOSE n \in free : \A m \in free : n <= m))

RecordDisplacedFunction(apis, hidden) ==
    Append(apis, Ignored(FirstFreeName(apis, Suffixed(hidden, "_autocxx_hidden")),
                         "function hidden by type", hidden))

Push(apis, api) ==
    LET name == api.name
        stub == CHOOSE i \in DOMAIN apis : apis[i].name = name
    IN CASE name \notin Names(apis) -> Append(apis, api)
         [] name \in Names(apis) /\ IsDisplacedFunction(api) -> RecordDisplacedFunction(apis, api.lookup)
         [] ~IsDisplacedFunction(api) /\ Holds(apis, name, IsDisplacedFunction) ->
                RecordDisplacedFunction(Append(Without(apis, name), api), apis[stub].lookup)
         [] OTHER ->
                CASE DiscardDuplicates(api) -> apis
                  [] api.kind = "function" /\ Holds(apis, name, IsUnshadowableType) ->
                        RecordDisplacedFunction(apis, name)
                  [] IsUnshadowableType(api) /\ Holds(apis, name, LAMBDA held : held.kind = "function") ->
                        RecordDisplacedFunction(Append(Without(apis, name), api), name)
                  [] OTHER ->
                        Append(Without(apis, name), Ignored(name, "duplicate items found in parsing", name))

PushAll(apis, more) ==
    LET pushed[n \in 0..Len(more)] ==
            IF n = 0 THEN apis ELSE Push(pushed[n - 1], more[n])
    IN  pushed[Len(more)]
================================================================================

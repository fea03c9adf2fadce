------------------------------ MODULE MCPruning ------------------------------
(* Lists of APIs for Pruning: four APIs.                                    *)
EXTENDS Pruning

CONSTANTS int, lost, peer, gen, ns

MCExtra == {int, lost, peer}
MCKnown == {int}
MCDirective == {gen, ns}
MCMust == {gen}

NoExtras == [i \in Api |-> {}]
With(g, i, name) == [j \in Api |-> IF j = i THEN g[j] \cup {name} ELSE g[j]]

\* Every dependency graph on three of the APIs, cycles included; up to two items
\* are ignored from the start; one API names something unknown, or nothing does;
\* the directive gen names one API or two, and the third of them no longer once
\* it is ignored; the directive ns names one or two.  The fourth API stands alone.
Graphs == {g \in [Api -> SUBSET (1..3)] : g[4] = {} /\ \A i \in Api : i \notin g[i]}
AnyGraph ==
    {[deps |-> With(With(g, u, lost), 2, int), bad |-> b, declares |-> NoExtras,
      answers |-> [i \in Api |-> (IF i \in r THEN {gen} ELSE {})
                                 \cup (IF (i = 3 /\ i \in r) \/ (i = 1 /\ 2 \notin r) THEN {ns} ELSE {})],
      stub |-> [i \in Api |-> IF i = 3 /\ i \in r THEN {ns} ELSE IF i \in r THEN {gen} ELSE {}]] :
        g \in Graphs, u \in {0, 3}, b \in {{}, {1}, {2, 3}}, r \in {{2}, {3}, {1, 3}}}

\* Long chains against the order of the list, which need a pass for each link,
\* some closed into a cycle.
Chain(n) == [i \in Api |-> IF i < n THEN {i + 1} ELSE {}]
LongChains ==
    {[deps |-> With(IF c THEN [Chain(N) EXCEPT ![N] = {1}] ELSE Chain(N), u, lost),
      bad |-> b, declares |-> NoExtras,
      answers |-> [i \in Api |-> IF i = r THEN {gen} ELSE {}],
      stub |-> [i \in Api |-> IF i = r THEN {gen} ELSE {}]] :
        c \in BOOLEAN, u \in 0..N, b \in {{}, {N}}, r \in Api}

\* A subclass (1), the constructor (2) of its C++ peer, its superclass (3) and
\* another class (4) the others may depend on: the subclass may be ignored from
\* the start, the other class too.
Peers ==
    {[deps |-> With(With(With(g, 2, peer), 1, 3), 3, 2), bad |-> b,
      declares |-> <<{peer}, {}, {}, {}>>,
      answers |-> <<{ns}, {gen}, {ns}, {}>>, stub |-> <<{ns}, {}, {ns}, {}>>] :
        g \in {h \in [Api -> {{}, {4}}] : h[1] = {} /\ h[4] = {}}, b \in {{}, {4}, {1}, {1, 4}}}

MCLists == {l \in AnyGraph \cup LongChains \cup Peers : PeersSurvive(l)}
=============================================================================

------------------------------ MODULE Withdrawal ------------------------------
(* What a filter of unsupported items owes the passes after it, whatever loop  *)
(* it runs: items leave a list one by one, only ever because something they    *)
(* name is no longer there to be named, until nothing which is left names      *)
(* anything which is not. Then the list is settled, and stays as it is.        *)
(*                                                                             *)
(* Nothing here says in which order items are looked at, how often, or what is *)
(* remembered of those which went.                                             *)
CONSTANTS
    Item,       \* the items a list may hold
    Known,      \* names which need no item
    Lists       \* the lists there may be

VARIABLES
    list,       \* deps, declares and bad: what each item names, provides, and is out from the start
    left,       \* the items which have not been withdrawn
    settled

vars == <<list, left, settled>>

Provided == Known \cup left \cup UNION {list.declares[i] : i \in left}
Supported(i) == list.deps[i] \subseteq Provided

Init ==
    /\ list \in Lists
    /\ left = Item \ list.bad
    /\ settled = FALSE

Withdraw(i) ==
    /\ ~settled /\ i \in left /\ ~Supported(i)
    /\ left' = left \ {i}
    /\ UNCHANGED <<list, settled>>

Settle ==
    /\ ~settled
    /\ \A i \in left : Supported(i)
    /\ settled' = TRUE
    /\ UNCHANGED <<list, left>>

Next == Settle \/ \E i \in Item : Withdraw(i)

Safety == Init /\ [][Next]_vars
Spec == Safety /\ <>settled
===============================================================================

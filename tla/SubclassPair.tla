---------------------------- MODULE SubclassPair ----------------------------
(***************************************************************************)
(* A Rust subclass of a C++ class is two objects: the Rust value, in an    *)
(* Rc<RefCell<_>>, and the C++ peer autocxx generates, whose virtual       *)
(* methods call into the value.  The peer keeps the value through `obs`,   *)
(* a boxed CppSubclassRustPeerHolder; the value keeps the peer through its *)
(* CppSubclassCppPeerHolder.  Who owns whom depends on the constructor     *)
(* (src/subclass.rs), and everything happens on one thread, so the state   *)
(* is the two objects and the stack of calls between them: what makes it   *)
(* hard is that any user code on the stack may call, drop or relinquish.   *)
(***************************************************************************)
EXTENDS Integers, Sequences

CONSTANTS
    MaxHandles,     \* bound: Rc handles to the value in Rust code
    MaxDepth,       \* bound: calls on the stack
    Modes,          \* the constructors used: "cpp", "rust", "self" owned
    CallsInDrop     \* the modes whose value calls its peer from its Drop

ASSUME BoundsAssumption == MaxHandles \in Nat /\ MaxDepth \in Nat
ASSUME ModesAssumption == Modes \subseteq {"cpp", "rust", "self"} /\ CallsInDrop \subseteq Modes

VARIABLES
    mode,           \* which constructor made the pair, "none" before
    value,          \* the Rust value: "none", "live", "dropping", "dropped"
    strong,         \* the strong count of its Rc
    handles,        \* how many Rc handles Rust code keeps
    borrow,         \* its RefCell: -1 exclusively borrowed, n shared borrows
    holder,         \* its peer holder: "empty", "owned", "unowned"
    peer,           \* the C++ peer: "none", "live", "dying", "gone"
    obs,            \* the peer's holder: "none", "owned", "unowned", "moved",
                    \* "dropping", "gone"
    cppOwner,       \* whether a UniquePtr outside the pair owns the peer
    relinquished,   \* whether relinquish_ownership has run
    stack,          \* the calls in progress, innermost first
    outcome         \* "running", or how the program ended

vars == <<mode, value, strong, handles, borrow, holder, peer, obs, cppOwner,
          relinquished, stack, outcome>>

\* A call in progress. "make" is a constructor of the pair, "method" a virtual
\* method's way into the value, "borrowed" Rust code using the value through a
\* handle, "drop" the value's own Drop, "delete" the peer's destructor.
Frame == [kind : {"make", "method", "borrowed", "drop", "delete"}, excl : BOOLEAN]

Call(kind, excl) == [kind |-> kind, excl |-> excl]
InProgress(kind) == \E i \in DOMAIN stack : stack[i].kind = kind
Running(kind) == stack # <<>> /\ Head(stack).kind = kind
HasRoom == Len(stack) < MaxDepth

\* User code has control everywhere but inside the peer's destructor.
UserCode == outcome = "running" /\ mode # "none" /\ ~Running("delete")
\* Rust code of the subclass itself has control, and so has a `&self`.
OwnCode == UserCode /\ (Running("method") \/ Running("borrowed") \/ Running("drop"))

Init ==
    /\ mode = "none" /\ value = "none" /\ strong = 0 /\ handles = 0
    /\ borrow = 0 /\ holder = "empty" /\ peer = "none" /\ obs = "none"
    /\ cppOwner = FALSE /\ relinquished = FALSE
    /\ stack = <<>> /\ outcome = "running"

(* RefCell and Rc, as the standard library has them *)

CanBorrow(excl) == IF excl THEN borrow = 0 ELSE borrow >= 0
Borrowed(excl) == IF excl THEN -1 ELSE borrow + 1
Unborrowed(excl) == IF excl THEN 0 ELSE borrow - 1

\* Gives up one strong reference, with `rest` the stack below; the last one
\* runs the value's Drop.
Mut_Release(rest) ==
    /\ strong' = strong - 1
    /\ value' = IF strong = 2 THEN "dropping" ELSE value
    /\ stack' = IF strong = 2 THEN <<Call("drop", TRUE)>> \o rest ELSE rest
Release(rest) ==
    /\ strong' = strong - 1
    /\ value' = IF strong = 1 THEN "dropping" ELSE value
    /\ stack' = IF strong = 1 THEN <<Call("drop", TRUE)>> \o rest ELSE rest

(* Construction: make_owning_peer and make_cpp_owned_peer *)

\* The holder handed to the peer's constructor: strong for a pair which C++ or
\* the pair itself owns, weak for one Rust owns.
Mut_WeakObsFor(m) == IF m = "self" THEN "owned" ELSE "unowned"
Mut_StrongObsFor(m) == "owned"
ObsFor(m) == IF m = "rust" THEN "unowned" ELSE "owned"

\* The value is put in its Rc, the holder is made, and the peer constructor is
\* called with the value exclusively borrowed.
Make(m) ==
    /\ mode = "none" /\ MaxHandles > 0 /\ HasRoom
    /\ mode' = m /\ value' = "live" /\ obs' = ObsFor(m)
    /\ handles' = 1
    /\ strong' = IF ObsFor(m) = "owned" THEN 2 ELSE 1
    /\ borrow' = -1
    /\ stack' = <<Call("make", TRUE)>>
    /\ UNCHANGED <<holder, peer, cppOwner, relinquished, outcome>>

\* The C++ constructor takes the holder into `obs`.  What make_peer does with
\* the new peer before it returns is user code.
ConstructPeer ==
    /\ UserCode /\ Running("make") /\ peer = "none" /\ obs # "gone"
    /\ peer' = "live"
    /\ UNCHANGED <<mode, value, strong, handles, borrow, holder, obs, cppOwner,
                   relinquished, stack, outcome>>

\* The C++ constructor throws: C++ destroys the holder while unwinding.
ConstructorThrows ==
    /\ UserCode /\ Running("make") /\ peer = "none" /\ obs # "gone"
    /\ obs' = "gone"
    /\ strong' = IF obs = "owned" THEN strong - 1 ELSE strong
    /\ UNCHANGED <<mode, value, handles, borrow, holder, peer, cppOwner,
                   relinquished, stack, outcome>>

\* The `?` of either constructor: the borrow ends and `me` is dropped.
MakeFails ==
    /\ UserCode /\ Running("make") /\ obs = "gone"
    /\ borrow' = 0
    /\ handles' = 0
    /\ Release(Tail(stack))
    /\ UNCHANGED <<mode, holder, peer, obs, cppOwner, relinquished, outcome>>

\* make_owning_peer returns `me`, whose holder owns the peer.
MadeOwning ==
    /\ UserCode /\ Running("make") /\ peer = "live" /\ mode # "cpp"
    /\ holder' = "owned"
    /\ borrow' = 0
    /\ stack' = Tail(stack)
    /\ UNCHANGED <<mode, value, strong, handles, peer, obs, cppOwner,
                   relinquished, outcome>>

\* make_cpp_owned_peer returns the peer, and `me` is dropped last.
MadeCppOwned ==
    /\ UserCode /\ Running("make") /\ peer = "live" /\ mode = "cpp"
    /\ holder' = "unowned"
    /\ cppOwner' = TRUE
    /\ borrow' = 0
    /\ handles' = 0
    /\ Release(Tail(stack))
    /\ UNCHANGED <<mode, peer, obs, relinquished, outcome>>

(* A virtual method of the peer calls the subclass *)

\* A weak holder's upgrade finds the value already dropped.
CannotUpgrade == obs = "unowned" /\ strong = 0

\* The generated method reads `*obs`, takes a strong reference for the length
\* of the call and borrows the value; either may panic, and a panic under C++
\* ends the program.  A holder which is not whole has no meaning: "misread".
Enter(excl) ==
    CASE obs \in {"moved", "dropping", "gone", "none"} ->
            outcome' = "misread" /\ UNCHANGED <<strong, borrow, stack>>
      [] CannotUpgrade ->
            outcome' = "destroyed" /\ UNCHANGED <<strong, borrow, stack>>
      [] OTHER ->
            IF CanBorrow(excl)
            THEN /\ strong' = strong + 1
                 /\ borrow' = Borrowed(excl)
                 /\ stack' = <<Call("method", excl)>> \o stack
                 /\ UNCHANGED outcome
            ELSE outcome' = "reentrant" /\ UNCHANGED <<strong, borrow, stack>>

\* C++ code which knows the peer calls it.
CppCalls(excl) ==
    /\ UserCode /\ HasRoom /\ peer = "live"
    /\ Enter(excl)
    /\ UNCHANGED <<mode, value, handles, holder, peer, obs, cppOwner, relinquished>>

\* The subclass calls a C++ method of its own peer, which calls it back.
OwnCalls(excl) ==
    /\ OwnCode /\ HasRoom
    /\ Running("drop") => mode \in CallsInDrop
    /\ IF holder = "empty"
       THEN outcome' = "unset" /\ UNCHANGED <<strong, borrow, stack>>
       ELSE Enter(excl)
    /\ UNCHANGED <<mode, value, handles, holder, peer, obs, cppOwner, relinquished>>

\* The method returns: its borrow ends first, then its strong reference, since
\* locals are dropped in reverse order.
MethodReturns ==
    /\ UserCode /\ Running("method")
    /\ borrow' = Unborrowed(Head(stack).excl)
    /\ Release(Tail(stack))
    /\ UNCHANGED <<mode, handles, holder, peer, obs, cppOwner, relinquished, outcome>>

(* What Rust code does with the handles it was given *)

HandlesAreOut == UserCode /\ ~InProgress("make") /\ handles > 0

CloneHandle ==
    /\ HandlesAreOut /\ handles < MaxHandles
    /\ handles' = handles + 1 /\ strong' = strong + 1
    /\ UNCHANGED <<mode, value, borrow, holder, peer, obs, cppOwner,
                   relinquished, stack, outcome>>

\* A handle which a borrow comes from cannot be dropped before it.
DropHandle ==
    /\ HandlesAreOut
    /\ InProgress("borrowed") => handles > 1
    /\ handles' = handles - 1
    /\ Release(stack)
    /\ UNCHANGED <<mode, borrow, holder, peer, obs, cppOwner, relinquished, outcome>>

BorrowHandle(excl) ==
    /\ HandlesAreOut /\ HasRoom /\ CanBorrow(excl)
    /\ borrow' = Borrowed(excl)
    /\ stack' = <<Call("borrowed", excl)>> \o stack
    /\ UNCHANGED <<mode, value, strong, handles, holder, peer, obs, cppOwner,
                   relinquished, outcome>>

BorrowEnds ==
    /\ UserCode /\ Running("borrowed")
    /\ borrow' = Unborrowed(Head(stack).excl)
    /\ stack' = Tail(stack)
    /\ UNCHANGED <<mode, value, strong, handles, holder, peer, obs, cppOwner,
                   relinquished, outcome>>

(* The pair comes apart *)

\* What `obs` is while really_remove_ownership releases the holder it replaced.
Mut_Exchanged == "moved"
Exchanged == "unowned"

\* delete_self, or C++ calling the peer's own method: `obs` is exchanged for
\* its weak form, and the strong reference is released last.
Relinquish ==
    /\ UserCode /\ peer = "live" /\ obs \in {"owned", "unowned"}
    /\ relinquished' = TRUE
    /\ IF obs = "owned"
       THEN Release(stack) /\ obs' = Exchanged
       ELSE UNCHANGED <<strong, value, stack, obs>>
    /\ UNCHANGED <<mode, handles, borrow, holder, peer, cppOwner, outcome>>

\* The value's Drop is over and its fields follow: a peer it owns is deleted,
\* and with that the peer's weak holder.
DropEnds ==
    /\ UserCode /\ Running("drop")
    /\ value' = "dropped"
    /\ stack' = Tail(stack)
    /\ IF holder = "owned"
       THEN peer' = "gone" /\ obs' = "gone"
       ELSE UNCHANGED <<peer, obs>>
    /\ UNCHANGED <<mode, strong, handles, borrow, holder, cppOwner, relinquished, outcome>>

\* The UniquePtr which owns the peer goes away, while no call of the pair is in
\* progress: the peer's destructor destroys `obs`.
OwnerDeletes ==
    /\ UserCode /\ cppOwner /\ stack = <<>> /\ MaxDepth > 1
    /\ cppOwner' = FALSE
    /\ peer' = "dying" /\ obs' = "dropping"
    /\ IF obs = "owned"
       THEN Release(<<Call("delete", TRUE)>>)
       ELSE stack' = <<Call("delete", TRUE)>> /\ UNCHANGED <<strong, value>>
    /\ UNCHANGED <<mode, handles, borrow, holder, relinquished, outcome>>

DeleteEnds ==
    /\ outcome = "running" /\ Running("delete")
    /\ peer' = "gone" /\ obs' = "gone"
    /\ stack' = Tail(stack)
    /\ UNCHANGED <<mode, value, strong, handles, borrow, holder, cppOwner,
                   relinquished, outcome>>

Next ==
    \/ \E m \in Modes : Make(m)
    \/ ConstructPeer \/ ConstructorThrows \/ MakeFails \/ MadeOwning \/ MadeCppOwned
    \/ \E excl \in BOOLEAN : CppCalls(excl) \/ OwnCalls(excl) \/ BorrowHandle(excl)
    \/ MethodReturns \/ CloneHandle \/ DropHandle \/ BorrowEnds
    \/ Relinquish \/ DropEnds \/ OwnerDeletes \/ DeleteEnds

Spec == Init /\ [][Next]_vars

-----------------------------------------------------------------------------
(* Properties *)

\* Every variable holds a value of its type.
TypeOK ==
    /\ mode \in Modes \cup {"none"}
    /\ value \in {"none", "live", "dropping", "dropped"}
    /\ strong \in Nat
    /\ handles \in 0..MaxHandles
    /\ borrow \in Int /\ borrow >= -1
    /\ holder \in {"empty", "owned", "unowned"}
    /\ peer \in {"none", "live", "dying", "gone"}
    /\ obs \in {"none", "owned", "unowned", "moved", "dropping", "gone"}
    /\ cppOwner \in BOOLEAN /\ relinquished \in BOOLEAN
    /\ stack \in Seq(Frame)
    /\ outcome \in {"running", "misread", "destroyed", "reentrant", "unset"}

\* Somebody is entitled to find the pair alive: Rust code with a handle, the
\* C++ owner of a pair made for it, or a self-owned pair which has not deleted
\* itself (the three ownership models of src/subclass.rs, "How it works").
Owned ==
    \/ handles > 0
    \/ cppOwner /\ ~relinquished
    \/ mode = "self" /\ peer = "live" /\ ~relinquished
    \/ InProgress("method")

\* Whenever Rust code can run, a virtual method which reads `obs` finds a
\* whole holder: never one moved from or one being destroyed
\* (codegen_cpp's really_remove_ownership).
ObsIsWhole == outcome # "misread"

\* The value is dropped exactly when nobody may find it alive any more: not
\* while a handle, an owner or a virtual call keeps it, and no later; and the
\* panic about a destroyed subclass is never raised while an owner could still
\* expect the pair to answer.
LivesWhileOwned ==
    /\ outcome = "running" /\ mode # "none" => (value = "live" <=> Owned)
    /\ outcome = "destroyed" => handles = 0 /\ (mode = "rust" \/ relinquished)

\* No reference into the value outlives it: its Drop never starts under a
\* borrow, of a handle or of a virtual call still on the stack.
NeverDroppedUnderABorrow ==
    value \in {"dropping", "dropped"} => borrow = 0 /\ ~InProgress("borrowed")

\* Once nothing runs, a pair nobody owns has been freed on both sides: the
\* ownership loop of a self-owned pair is really broken by delete_self, and a
\* constructor which throws leaves nothing behind (make_owning_peer's promise).
NothingLeaks ==
    stack = <<>> /\ mode # "none" /\ outcome = "running" /\ handles = 0 /\ ~cppOwner
        /\ (mode = "self" => relinquished \/ peer # "live")
    => value = "dropped" /\ peer \in {"gone", "none"}
=============================================================================

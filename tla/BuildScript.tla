------------------------------ MODULE BuildScript ------------------------------
(* engine/src/builder.rs: the Builders of one build script, in one generation  *)
(* directory and one process, from build_listing_files down to each file they  *)
(* write (engine/src/atomic_write.rs). Builders may run one after another, as  *)
(* build scripts mostly do, or at once, which the registry's lock allows for.  *)
(* The process may be killed at any moment and started again.                  *)
EXTENDS OutputRegistry, Sequences

CONSTANTS
    Blocks,         \* builder -> the include_cpp! and cxx::bridge blocks of its input
    Prelude,        \* builder -> the body of the cxx.h it wants
    Body,           \* what tells one block's generated code from another's
    CxxH,           \* the path of cxx.h
    NoPath,         \* a file a block does not have
    GenName,        \* number -> the path gen{number}.cxx
    Offer,          \* builder -> call number -> the path its cxxgen namer answers
    MaxNumber,      \* bound: numbers and namer calls a builder may use
    MaxRunning,     \* how many builders run at once
    Faults,         \* which of "write" and "marker" may fail
    DirRemade,      \* the directory may be removed and made again between builds
    MaxRestarts     \* bound: how often the process is killed

Kinds == {"include_cpp", "bridge"}
Doing == {"prelude", "generate", "bridge", "impl", "header", "bindings"}
Rendered == Doing \X Body \X {1, 2}

ASSUME BlocksAssumption ==
    Blocks \in [Builder -> Seq([kind : Kinds, body : Body, extra : Path,
                                extraImpl : BOOLEAN, rs : Path])]
ASSUME PathAssumption == {CxxH, NoPath} \subseteq Path
ASSUME PreludeAssumption == Prelude \in [Builder -> Body]
ASSUME RenderedAssumption == Rendered \subseteq Bytes
ASSUME BoundsAssumption == /\ MaxNumber \in Nat
                           /\ MaxRunning \in Nat
                           /\ MaxRestarts \in Nat
ASSUME NamesAssumption == /\ GenName \in [0..MaxNumber -> Path]
                          /\ Offer \in [Builder -> [0..MaxNumber -> Path]]

VARIABLES
    pc,         \* builder -> where it is
    at,         \* builder -> what it is doing, for which block, which of its file pairs
    number,     \* builder -> the next gen number it will try
    fname,      \* builder -> the gen name it was given last
    asked,      \* builder -> how often it called its cxxgen namer
    offered,    \* builder -> the files its namer offered in this naming loop
    chosen,     \* builder -> block -> the cxxgen header's path
    key,        \* builder -> a path as it was resolved before taking the lock
    out,        \* builder -> the files it has written or found already right
    restarts

control == <<pc, at, number, fname, asked, offered, chosen, key>>
vars == <<registry, directory, control, out, restarts>>

Finished == {"ok", "failed", "refused"}
Active == {"skip", "codegen", "cxxgen", "offer", "claim", "reoffer", "number", "grab",
           "resolve", "record", "compare", "stage", "persist", "forget"}
Running == {b \in Builder : pc[b] \in Active}

Block(b) == Blocks[b][at[b].block]
(* What cxx generates, and for an include_cpp! what autocxx adds if anything. *)
PairCount(blk) == IF blk.kind = "include_cpp" /\ blk.extra # NoPath THEN 2 ELSE 1

(* The file being written and its contents, fixed by what the builder is doing. *)
Target(b) ==
    CASE at[b].doing = "prelude"  -> CxxH
      [] at[b].doing = "impl"     -> fname[b]
      [] at[b].doing = "header" /\ at[b].pair = 1 -> chosen[b][at[b].block]
      [] at[b].doing = "header" /\ at[b].pair = 2 -> Block(b).extra
      [] at[b].doing = "bindings" -> Block(b).rs
      [] OTHER -> NoPath
Content(b) ==
    <<at[b].doing,
      IF at[b].doing = "prelude" THEN Prelude[b] ELSE Block(b).body,
      at[b].pair>>
Written(b) == [path |-> Target(b), bytes |-> Content(b)]

-------------------------------------------------------------------------------
(* The order build_listing_files works in: cxx.h, then code generation for each *)
(* include_cpp! (which names its cxxgen header), then the C++ of every block in *)
(* file order, a gen number per file pair, then the Rust bindings.             *)
Place(p, d, i, j) == [pc |-> p, at |-> [doing |-> d, block |-> i, pair |-> j]]

IsBridge(b, i) == Blocks[b][i].kind = "bridge"

BindingsFrom(b, i) ==
    IF i > Len(Blocks[b])
      THEN Place(IF number[b] = 0 THEN "failed" ELSE "ok", "bindings", 1, 1)
      ELSE Place(IF IsBridge(b, i) THEN "skip" ELSE "resolve", "bindings", i, 1)

EmitFrom(b, i) ==
    IF i > Len(Blocks[b]) THEN BindingsFrom(b, 1)
    ELSE IF IsBridge(b, i)
      THEN Place("offer", "bridge", i, 1)
      ELSE Place("cxxgen", "impl", i, 1)

GenerateFrom(b, i) ==
    IF i > Len(Blocks[b])
      THEN EmitFrom(b, 1)
      ELSE Place(IF IsBridge(b, i) THEN "skip" ELSE "codegen", "generate", i, 1)

AfterNaming(b) ==
    IF at[b].doing = "generate"
      THEN GenerateFrom(b, at[b].block + 1)
      ELSE Place("cxxgen", "impl", at[b].block, 1)

(* cxx always has an implementation to write, autocxx's own pair may not. *)
AfterNumbering(b) ==
    Place("resolve",
          IF at[b].pair = 1 \/ Block(b).extraImpl THEN "impl" ELSE "header",
          at[b].block, at[b].pair)

AfterWrite(b) ==
    CASE at[b].doing = "prelude" -> GenerateFrom(b, 1)
      [] at[b].doing = "impl" -> Place("resolve", "header", at[b].block, at[b].pair)
      [] at[b].doing = "header" /\ at[b].pair < PairCount(Block(b)) ->
            Place("number", "impl", at[b].block, at[b].pair + 1)
      [] at[b].doing = "header" /\ at[b].pair >= PairCount(Block(b)) ->
            EmitFrom(b, at[b].block + 1)
      [] OTHER -> BindingsFrom(b, at[b].block + 1)

GoTo(b, place) ==
    /\ pc' = [pc EXCEPT ![b] = place.pc]
    /\ at' = [at EXCEPT ![b] = place.at]
Await(b, p) ==
    /\ pc' = [pc EXCEPT ![b] = p]
    /\ UNCHANGED at

-------------------------------------------------------------------------------
Fresh == [doing |-> "prelude", block |-> 1, pair |-> 1]

(* A process which has built nothing yet. *)
NothingBuilt ==
    /\ EmptyRegistry
    /\ pc = [b \in Builder |-> "idle"]
    /\ at = [b \in Builder |-> Fresh]
    /\ number = [b \in Builder |-> 0]
    /\ fname = [b \in Builder |-> NoPath]
    /\ asked = [b \in Builder |-> 0]
    /\ offered = [b \in Builder |-> {}]
    /\ chosen = [b \in Builder |-> [i \in 1..Len(Blocks[b]) |-> NoPath]]
    /\ key = [b \in Builder |-> NoPath]
    /\ out = [b \in Builder |-> {}]

(* The directory is empty, or is what an earlier build with the same blocks    *)
(* left: that case is reached through Restart.                                 *)
Init ==
    /\ disk = [f \in File |-> Absent]
    /\ marker = FALSE
    /\ NothingBuilt
    /\ restarts = 0

(* The three directories are made and the registry opened for them. *)
Begin(b) ==
    /\ pc[b] = "idle"
    /\ Cardinality(Running) < MaxRunning
    /\ \E markerOk \in (IF "marker" \in Faults THEN BOOLEAN ELSE {TRUE}) : Open(markerOk)
    /\ Await(b, "resolve")
    /\ UNCHANGED <<disk, number, fname, asked, offered, chosen, key, out, restarts>>

(* A directory cannot be made, before any of it matters to anyone. *)
BeginFails(b) ==
    /\ pc[b] = "idle"
    /\ Cardinality(Running) < MaxRunning
    /\ "write" \in Faults
    /\ Await(b, "failed")
    /\ UNCHANGED <<registry, directory, number, fname, asked, offered, chosen, key, out, restarts>>

-------------------------------------------------------------------------------
(* Only an include_cpp! is generated for and has bindings: a bridge is passed. *)
SkipBridge(b) ==
    /\ pc[b] = "skip"
    /\ GoTo(b, IF at[b].doing = "generate" THEN GenerateFrom(b, at[b].block + 1)
                                           ELSE BindingsFrom(b, at[b].block + 1))
    /\ UNCHANGED <<registry, directory, number, fname, asked, offered, chosen, key, out, restarts>>

(* Code generation for a block, which ends in asking for a header name ... *)
Codegen(b) ==
    /\ pc[b] = "codegen"
    /\ GoTo(b, Place("offer", "generate", at[b].block, 1))
    /\ UNCHANGED <<registry, directory, number, fname, asked, offered, chosen, key, out, restarts>>

(* ... and cxx's own, for any block; either may refuse the input. *)
Cxxgen(b) ==
    /\ pc[b] = "cxxgen"
    /\ Await(b, "number")
    /\ UNCHANGED <<registry, directory, number, fname, asked, offered, chosen, key, out, restarts>>

CodegenFails(b) ==
    /\ pc[b] \in {"codegen", "cxxgen"}
    /\ Await(b, "failed")
    /\ UNCHANGED <<registry, directory, number, fname, asked, offered, chosen, key, out, restarts>>

(* The naming loop: the namer's next answer, resolved before the lock ... *)
OfferName(b) ==
    /\ pc[b] = "offer"
    /\ asked[b] <= MaxNumber
    /\ chosen' = [chosen EXCEPT ![b][at[b].block] = Offer[b][asked[b]]]
    /\ key' = [key EXCEPT ![b] = ResolveDestination(Offer[b][asked[b]])]
    /\ asked' = [asked EXCEPT ![b] = @ + 1]
    /\ Await(b, "claim")
    /\ UNCHANGED <<registry, directory, number, fname, offered, out, restarts>>

(* ... is claimed, which may find another builder has it ... *)
ClaimName(b) ==
    /\ pc[b] = "claim"
    /\ Claim(key[b])
    /\ IF Claimable(key[b])
         THEN /\ GoTo(b, AfterNaming(b))
              /\ offered' = [offered EXCEPT ![b] = {}]
         ELSE /\ Await(b, "reoffer")
              /\ UNCHANGED offered
    /\ UNCHANGED <<directory, number, fname, asked, chosen, key, out, restarts>>

(* Mutant: the naming loop asks until it gets a free name. *)
Mut_OutOfNames(b) == FALSE

(* The namer has offered this file before: it is out of names. *)
OutOfNames(b) == ResolveDestination(chosen[b][at[b].block]) \in offered[b]

(* ... and then asks again, unless the namer has started to repeat itself. *)
ReofferName(b) ==
    /\ pc[b] = "reoffer"
    /\ IF OutOfNames(b)
         THEN /\ GoTo(b, AfterNaming(b))
              /\ offered' = [offered EXCEPT ![b] = {}]
         ELSE /\ Await(b, "offer")
              /\ offered' = [offered EXCEPT
                    ![b] = @ \cup {ResolveDestination(chosen[b][at[b].block])}]
    /\ UNCHANGED <<registry, directory, number, fname, asked, chosen, key, out, restarts>>

(* The numbering loop: the next gen{number}.cxx, until one is free. *)
NextNumber(b) ==
    /\ pc[b] = "number"
    /\ number[b] <= MaxNumber
    /\ fname' = [fname EXCEPT ![b] = GenName[number[b]]]
    /\ key' = [key EXCEPT ![b] = ResolveDestination(GenName[number[b]])]
    /\ number' = [number EXCEPT ![b] = @ + 1]
    /\ Await(b, "grab")
    /\ UNCHANGED <<registry, directory, asked, offered, chosen, out, restarts>>

GrabNumber(b) ==
    /\ pc[b] = "grab"
    /\ Claim(key[b])
    /\ IF Claimable(key[b]) THEN GoTo(b, AfterNumbering(b)) ELSE Await(b, "number")
    /\ UNCHANGED <<directory, number, fname, asked, offered, chosen, key, out, restarts>>

-------------------------------------------------------------------------------
(* write_to_file, whose every step another builder may come between. *)
Delivered(b) ==
    /\ out' = [out EXCEPT ![b] = @ \cup {Written(b)}]
    /\ GoTo(b, AfterWrite(b))

ResolveTarget(b) ==
    /\ pc[b] = "resolve"
    /\ key' = [key EXCEPT ![b] = ResolveDestination(Target(b))]
    /\ Await(b, "record")
    /\ UNCHANGED <<registry, directory, number, fname, asked, offered, chosen, out, restarts>>

RecordWrite(b) ==
    /\ pc[b] = "record"
    /\ IF Collides(key[b], Content(b))
         THEN Await(b, "refused") /\ UNCHANGED registry
         ELSE Await(b, "compare") /\ Record(b, key[b], Content(b))
    /\ UNCHANGED <<directory, number, fname, asked, offered, chosen, key, out, restarts>>

(* What is there already says the same thing, and is left alone. *)
AlreadyThere(b) ==
    /\ disk[FileOf[Target(b)]] # Absent
    /\ disk[FileOf[Target(b)]].bytes = Content(b)

Compare(b) ==
    /\ pc[b] = "compare"
    /\ IF AlreadyThere(b)
         THEN Delivered(b) /\ UNCHANGED key
         ELSE /\ Await(b, "stage")
              /\ key' = [key EXCEPT ![b] = ResolveDestination(Target(b))]
              /\ UNCHANGED out
    /\ UNCHANGED <<registry, directory, number, fname, asked, offered, chosen, restarts>>

(* A file renamed onto f goes by the name asked for, or by the one it replaces. *)
NamesAfterRename(f, dest) ==
    {dest} \cup IF disk[f] = Absent THEN {} ELSE {disk[f].name}

(* Mutant: the destination is truncated and written in place. *)
Mut_Stage(b) ==
    /\ pc[b] = "stage"
    /\ disk' = [disk EXCEPT ![FileOf[key[b]]] = [name |-> key[b], bytes |-> Torn]]
    /\ Await(b, "persist")
    /\ UNCHANGED <<registry, marker, number, fname, asked, offered, chosen, key, out, restarts>>

(* The contents are written to a file of their own beside the destination, ... *)
Stage(b) ==
    /\ pc[b] = "stage"
    /\ Await(b, "persist")
    /\ UNCHANGED <<registry, directory, number, fname, asked, offered, chosen, key, out, restarts>>

(* ... which then lands on it in one step. *)
Persist(b) ==
    /\ pc[b] = "persist"
    /\ \E name \in NamesAfterRename(FileOf[key[b]], key[b]) :
          disk' = [disk EXCEPT ![FileOf[key[b]]] = [name |-> name, bytes |-> Content(b)]]
    /\ Delivered(b)
    /\ UNCHANGED <<registry, marker, number, fname, asked, offered, chosen, key, restarts>>

(* Staging or renaming failed: the destination is as it was. *)
WriteFails(b) ==
    /\ pc[b] \in {"stage", "persist"}
    /\ "write" \in Faults
    /\ key' = [key EXCEPT ![b] = ResolveDestination(Target(b))]
    /\ Await(b, "forget")
    /\ UNCHANGED <<registry, directory, number, fname, asked, offered, chosen, out, restarts>>

ForgetWrite(b) ==
    /\ pc[b] = "forget"
    /\ Forget(b, key[b])
    /\ Await(b, "failed")
    /\ UNCHANGED <<directory, number, fname, asked, offered, chosen, key, out, restarts>>

-------------------------------------------------------------------------------
(* A build script or a test harness removes the directory between two builds. *)
RemoveDir ==
    /\ DirRemade
    /\ Running = {}
    /\ disk' = [f \in File |-> Absent]
    /\ marker' = FALSE
    /\ out' = [b \in Builder |-> {}]
    /\ UNCHANGED <<registry, control, restarts>>

(* The process dies and the build script is run again: the disk stays. *)
Restart ==
    /\ restarts < MaxRestarts
    /\ restarts' = restarts + 1
    /\ present' = FALSE
    /\ markerWritten' = FALSE
    /\ taken' = {}
    /\ written' = NothingWritten
    /\ pc' = [b \in Builder |-> "idle"]
    /\ at' = [b \in Builder |-> Fresh]
    /\ number' = [b \in Builder |-> 0]
    /\ fname' = [b \in Builder |-> NoPath]
    /\ asked' = [b \in Builder |-> 0]
    /\ offered' = [b \in Builder |-> {}]
    /\ chosen' = [b \in Builder |-> [i \in 1..Len(Blocks[b]) |-> NoPath]]
    /\ key' = [b \in Builder |-> NoPath]
    /\ out' = [b \in Builder |-> {}]
    /\ UNCHANGED directory

Step(b) ==
    \/ SkipBridge(b) \/ Codegen(b) \/ Cxxgen(b) \/ CodegenFails(b)
    \/ OfferName(b) \/ ClaimName(b) \/ ReofferName(b)
    \/ NextNumber(b) \/ GrabNumber(b)
    \/ ResolveTarget(b) \/ RecordWrite(b) \/ Compare(b)
    \/ Stage(b) \/ Persist(b) \/ WriteFails(b) \/ ForgetWrite(b)

Next ==
    \/ \E b \in Builder : Begin(b) \/ BeginFails(b) \/ Step(b)
    \/ RemoveDir
    \/ Restart

(* A builder which has begun runs on its own thread until it returns. *)
Spec == Init /\ [][Next]_vars /\ \A b \in Builder : WF_vars(Step(b))

-------------------------------------------------------------------------------
Places == [doing : Doing, block : Nat, pair : {1, 2}]

TypeOK ==
    /\ RegistryTypeOK
    /\ pc \in [Builder -> Finished \cup Active \cup {"idle"}]
    /\ at \in [Builder -> Places]
    /\ number \in [Builder -> 0..MaxNumber + 1]
    /\ fname \in [Builder -> Path]
    /\ asked \in [Builder -> 0..MaxNumber + 1]
    /\ offered \in [Builder -> SUBSET Path]
    /\ DOMAIN chosen = Builder
    /\ \A b \in Builder : chosen[b] \in [1..Len(Blocks[b]) -> Path]
    /\ key \in [Builder -> Path]
    /\ out \in [Builder -> SUBSET [path : Path, bytes : Bytes]]
    /\ restarts \in 0..MaxRestarts

(* A builder finds every file it was told it has written with the contents it  *)
(* generated, however many builders wrote since: the loser of two blocks never *)
(* compiles against the winner's bindings.                                      *)
KeepsItsFiles ==
    \A b \in Builder : \A w \in out[b] :
        /\ disk[FileOf[w.path]] # Absent
        /\ disk[FileOf[w.path]].bytes = w.bytes

(* A builder is never refused a name autocxx chose for it - a gen number, or a *)
(* cxxgen header from a namer which never repeats itself - so builders whose   *)
(* blocks are named apart do not collide over names no name! controls.         *)
ChosenNamesNeverCollide ==
    \A b \in Builder : pc[b] = "refused" =>
        /\ at[b].doing # "impl"
        /\ at[b].doing = "header" /\ at[b].pair = 1 =>
              \E m, n \in 0..MaxNumber : m # n /\ Offer[b][m] = Offer[b][n]

(* Somebody has, or is in the middle of writing, other contents for the file   *)
(* b is about to write, in the directory as it is now.                         *)
HeldByAnother(b) ==
    \E c \in Builder :
        \/ \E w \in out[c] : /\ FileOf[w.path] = FileOf[Target(b)]
                             /\ w.bytes # Content(b)
        \/ /\ pc[c] \in {"compare", "stage", "persist", "forget"}
           /\ FileOf[Target(c)] = FileOf[Target(b)]
           /\ Content(c) # Content(b)

(* A refusal is never about a write which was given up or a directory since    *)
(* remade - unless the directory could not be marked, which is the documented  *)
(* price: a caller which handles a failed build can build again.               *)
RefusalsAreJust ==
    [][\A b \in Builder :
          pc[b] # "refused" /\ pc'[b] = "refused" => HeldByAnother(b) \/ ~markerWritten]_vars

(* While builders run, a file only ever changes to contents which are complete *)
(* and on record for it: neither a write which stops half way nor a builder    *)
(* killed during one is seen by whoever reads the directory.                   *)
OnlyRecordedBytesLand ==
    [][\A f \in File :
          disk'[f] # disk[f] /\ Running # {} =>
              \E p \in Path : /\ FileOf[p] = f
                              /\ written[p] # Unwritten
                              /\ disk'[f] # Absent
                              /\ disk'[f].bytes = written[p].bytes]_vars

(* To its builders the directory is one in which the first writer of a file    *)
(* settles its contents for everyone, each change and each report is one step, *)
(* and refusals are over promises: the record, the paths resolved before its   *)
(* lock is taken, the look at the file and the rename are how that is done.    *)
RequestOf(b) == [by |-> b, file |-> FileOf[Target(b)], bytes |-> Content(b)]
Asking == {b \in Builder : pc[b] \in {"record", "compare", "stage", "persist"}}
Report(b, w) == [by |-> b, file |-> FileOf[w.path], bytes |-> w.bytes]
Contents == {[file |-> f, bytes |-> disk[f].bytes] : f \in {g \in File : disk[g] # Absent}}
Promised == {[file |-> FileOf[p], bytes |-> written[p].bytes] :
                p \in {q \in Path : written[q] # Unwritten}}
AskedFor == {RequestOf(b) : b \in Asking}
Given == UNION {{Report(b, w) : w \in out[b]} : b \in Builder}
Refused == {b \in Builder : pc[b] = "refused"}
Sharing == INSTANCE SharedDirectory WITH
    contents <- Contents, promised <- Promised, asked <- AskedFor, given <- Given,
    refused <- Refused
FirstWriterSettles == Sharing!Spec

(* Neither naming loop goes on for ever: every builder returns, or is killed. *)
BuildersReturn ==
    \A b \in Builder : b \in Running ~> b \notin Running
===============================================================================

--------------------------- MODULE BuildScriptProofs ---------------------------
(* Proofs about BuildScript, for any builders, blocks, names and faults: the   *)
(* types; builders on threads where writes succeed; the record, and builders   *)
(* which run one at a time, whatever fails; the names autocxx chooses; and     *)
(* what builders which share a directory owe each other.                       *)
EXTENDS BuildScript, SequenceTheorems, FiniteSetTheorems, TLAPS

PCs == Finished \cup Active \cup {"idle"}
BlockRecord == [kind : Kinds, body : Body, extra : Path, extraImpl : BOOLEAN, rs : Path]

(* Where a builder is between the writing of cxx.h and its other writes. *)
Naming == {"skip", "codegen", "cxxgen", "offer", "claim", "reoffer", "number", "grab"}

(* Where a write has a resolved path to go by. *)
Writing == {"record", "compare", "stage", "persist"}

(* A builder at work on a block, now or once begun, is at work on one it has. *)
InBlocks ==
    \A b \in Builder :
        /\ pc[b] \notin Finished /\ at[b].doing # "prelude" => at[b].block \in 1..Len(Blocks[b])
        /\ pc[b] \in Naming => at[b].doing # "prelude"

(* A place a builder may be sent to. *)
PlaceOK(b, place) ==
    /\ place.pc \in (Active \cup Finished) \ (Writing \cup {"forget", "refused"})
    /\ place.at \in Places
    /\ place.pc \in Active => place.at.block \in 1..Len(Blocks[b])
    /\ place.pc \in Naming => place.at.doing # "prelude"

-------------------------------------------------------------------------------
LEMMA BlockType ==
    ASSUME NEW b \in Builder, NEW i \in 1..Len(Blocks[b])
    PROVE  Blocks[b][i] \in BlockRecord
  <1>1. Blocks[b] \in Seq(BlockRecord)
    BY BlocksAssumption DEF BlockRecord
  <1> QED
    BY <1>1, ElementOfSeq

LEMMA LenType == ASSUME NEW b \in Builder PROVE Len(Blocks[b]) \in Nat
  BY BlocksAssumption, LenProperties

(* A builder is only ever sent to a block it has, or home. *)
LEMMA BindingsPlace ==
    ASSUME NEW b \in Builder, NEW i \in Nat \ {0}
    PROVE  PlaceOK(b, BindingsFrom(b, i))
  BY LenType DEF PlaceOK, BindingsFrom, Place, Places, PCs, Active, Finished, Naming, Writing, Doing, IsBridge

LEMMA EmitPlace ==
    ASSUME NEW b \in Builder, NEW i \in Nat \ {0}
    PROVE  PlaceOK(b, EmitFrom(b, i))
  <1>1. PlaceOK(b, BindingsFrom(b, 1))
    BY BindingsPlace
  <1> QED
    BY <1>1, LenType DEF EmitFrom, PlaceOK, Place, Places, PCs, Active, Naming, Writing, Doing

LEMMA GeneratePlace ==
    ASSUME NEW b \in Builder, NEW i \in Nat \ {0}
    PROVE  PlaceOK(b, GenerateFrom(b, i))
  <1>1. PlaceOK(b, EmitFrom(b, 1))
    BY EmitPlace
  <1> QED
    BY <1>1, LenType DEF GenerateFrom, PlaceOK, Place, Places, PCs, Active, Naming, Writing, Doing

LEMMA NamingPlace ==
    ASSUME NEW b \in Builder, at[b] \in Places, at[b].block \in 1..Len(Blocks[b])
    PROVE  PlaceOK(b, AfterNaming(b))
  <1>1. PlaceOK(b, GenerateFrom(b, at[b].block + 1))
    BY LenType, GeneratePlace DEF Places
  <1> QED
    BY <1>1 DEF AfterNaming, PlaceOK, Place, Places, PCs, Active, Naming, Writing, Doing

LEMMA NumberingPlace ==
    ASSUME NEW b \in Builder, at[b] \in Places, at[b].block \in 1..Len(Blocks[b])
    PROVE  PlaceOK(b, AfterNumbering(b))
  BY DEF AfterNumbering, PlaceOK, Place, Places, PCs, Active, Naming, Writing, Doing

LEMMA WritePlace ==
    ASSUME NEW b \in Builder, at[b] \in Places,
           at[b].doing # "prelude" => at[b].block \in 1..Len(Blocks[b])
    PROVE  PlaceOK(b, AfterWrite(b))
  <1>1. CASE at[b].doing = "prelude"
    BY <1>1, GeneratePlace DEF AfterWrite
  <1>2. CASE at[b].doing = "impl"
    BY <1>2 DEF AfterWrite, PlaceOK, Place, Places, PCs, Active, Naming, Writing, Doing
  <1>3. CASE at[b].doing = "header" /\ at[b].pair < PairCount(Block(b))
    <2>1. ~(at[b].pair >= PairCount(Block(b)))
      BY <1>3 DEF Places, PairCount
    <2>2. AfterWrite(b) = Place("number", "impl", at[b].block, at[b].pair + 1)
      BY <1>3, <2>1 DEF AfterWrite
    <2>3. at[b].pair = 1
      BY <1>3 DEF Places, PairCount
    <2> QED
      BY <1>3, <2>2, <2>3 DEF PlaceOK, Place, Places, PCs, Active, Naming, Writing, Doing
  <1>4. CASE at[b].doing = "header" /\ ~(at[b].pair < PairCount(Block(b)))
    <2>1. at[b].pair >= PairCount(Block(b))
      BY <1>4 DEF Places, PairCount
    <2>2. PlaceOK(b, EmitFrom(b, at[b].block + 1))
      BY <1>4, EmitPlace DEF Places
    <2> QED
      BY <1>4, <2>1, <2>2 DEF AfterWrite
  <1>5. CASE at[b].doing \notin {"prelude", "impl", "header"}
    <2>1. PlaceOK(b, BindingsFrom(b, at[b].block + 1))
      BY <1>5, BindingsPlace DEF Places
    <2> QED
      BY <1>5, <2>1 DEF AfterWrite
  <1> QED
    BY <1>1, <1>2, <1>3, <1>4, <1>5

-------------------------------------------------------------------------------
(* What a builder at work writes, and where the record keeps it. *)
LEMMA TargetType ==
    ASSUME TypeOK, InBlocks, NEW b \in Builder, pc[b] \in Active
    PROVE  Target(b) \in Path /\ Content(b) \in Bytes
  <1>1. at[b] \in Places /\ fname[b] \in Path
    BY DEF TypeOK
  <1>2. CASE at[b].doing = "prelude"
    <2>1. Target(b) = CxxH /\ Content(b) = <<at[b].doing, Prelude[b], at[b].pair>>
      BY <1>2 DEF Target, Content
    <2> QED
      BY <1>1, <2>1, PathAssumption, PreludeAssumption, RenderedAssumption DEF Rendered, Places
  <1>3. CASE at[b].doing # "prelude"
    <2>1. at[b].block \in 1..Len(Blocks[b])
      BY <1>3 DEF InBlocks, Active, Finished
    <2>2. Block(b) \in BlockRecord /\ chosen[b][at[b].block] \in Path
      BY <2>1, BlockType DEF Block, TypeOK
    <2>3. Content(b) = <<at[b].doing, Block(b).body, at[b].pair>>
      BY <1>3 DEF Content
    <2>4. Content(b) \in Bytes
      BY <1>1, <2>2, <2>3, RenderedAssumption DEF Rendered, Places, BlockRecord
    <2>5. Target(b) \in Path
      BY <1>1, <1>3, <2>2, PathAssumption DEF Target, BlockRecord, Places
    <2> QED
      BY <2>4, <2>5
  <1> QED
    BY <1>2, <1>3

LEMMA ResolveType ==
    ASSUME RegistryTypeOK, NEW p \in Path
    PROVE  ResolveDestination(p) \in Path
  BY FileOfAssumption DEF RegistryTypeOK, ResolveDestination, Entry

(* The registry's calls keep its shape. *)
LEMMA OpenType ==
    ASSUME RegistryTypeOK, NEW ok \in BOOLEAN, Open(ok), UNCHANGED disk
    PROVE  RegistryTypeOK'
  BY DEF RegistryTypeOK, Open, registry, NothingWritten

LEMMA ClaimType ==
    ASSUME RegistryTypeOK, NEW p \in Path, Claim(p), UNCHANGED directory
    PROVE  RegistryTypeOK'
  BY DEF RegistryTypeOK, Claim, directory

LEMMA RecordType ==
    ASSUME RegistryTypeOK, NEW b \in Builder, NEW p \in Path, NEW c \in Bytes,
           Record(b, p, c), UNCHANGED directory
    PROVE  RegistryTypeOK'
  <1>1. [builder |-> b, bytes |-> c] \in GeneratedFile
    BY DEF GeneratedFile
  <1>2. written' \in [Path -> GeneratedFile \cup {Unwritten}]
    BY <1>1 DEF RegistryTypeOK, Record
  <1> QED
    BY <1>2 DEF RegistryTypeOK, Record, directory

LEMMA ForgetType ==
    ASSUME RegistryTypeOK, NEW b \in Builder, NEW p \in Path,
           Forget(b, p), UNCHANGED directory
    PROVE  RegistryTypeOK'
  BY DEF RegistryTypeOK, Forget, directory

-------------------------------------------------------------------------------
TypeInv == TypeOK /\ InBlocks

(* Sending a builder somewhere it may go keeps the control part of TypeInv. *)
LEMMA GoToType ==
    ASSUME TypeInv, NEW b \in Builder, NEW place, PlaceOK(b, place), GoTo(b, place)
    PROVE  /\ pc' \in [Builder -> PCs]
           /\ at' \in [Builder -> Places]
           /\ InBlocks'
  BY DEF TypeInv, TypeOK, InBlocks, PlaceOK, GoTo, PCs, Active, Finished

LEMMA AwaitType ==
    ASSUME TypeInv, NEW b \in Builder, pc[b] \notin Finished, NEW p \in PCs, Await(b, p),
           p \in Naming => pc[b] \in Naming
    PROVE  /\ pc' \in [Builder -> PCs]
           /\ at' \in [Builder -> Places]
           /\ InBlocks'
  BY DEF TypeInv, TypeOK, InBlocks, Await, PCs

LEMMA BusyBlock ==
    ASSUME InBlocks, NEW b \in Builder, pc[b] \in Naming
    PROVE  at[b].block \in 1..Len(Blocks[b])
  BY DEF InBlocks, Naming, Finished

LEMMA InitTypeInv == Init => TypeInv
  <1> SUFFICES ASSUME Init PROVE TypeInv
    OBVIOUS
  <1> USE DEF Init, NothingBuilt, EmptyRegistry
  <1>1. RegistryTypeOK
    BY DEF RegistryTypeOK, NothingWritten
  <1>2. InBlocks
    BY DEF InBlocks, Fresh, Naming
  <1>3. at \in [Builder -> Places]
    BY DEF Places, Fresh, Doing
  <1>4. TypeOK
    BY <1>1, <1>3, LenType, PathAssumption, BoundsAssumption DEF TypeOK
  <1> QED
    BY <1>2, <1>4 DEF TypeInv

(* Every step keeps types and blocks: one case per action. *)
LEMMA NextTypeInv == TypeInv /\ [Next]_vars => TypeInv'
  <1> SUFFICES ASSUME TypeInv, [Next]_vars PROVE TypeInv'
    OBVIOUS
  <1> USE DEF TypeInv
  <1>a. ASSUME NEW b \in Builder, pc[b] \in Active PROVE at[b] \in Places /\ pc[b] \notin Finished
    BY <1>a DEF TypeOK, Active, Finished
  <1>1. ASSUME NEW b \in Builder, Begin(b) PROVE TypeInv'
    <2>1. PICK ok \in BOOLEAN : Open(ok)
      BY <1>1 DEF Begin
    <2>2. RegistryTypeOK'
      BY <1>1, <2>1, OpenType DEF Begin, TypeOK
    <2>3. pc' \in [Builder -> PCs] /\ at' \in [Builder -> Places] /\ InBlocks'
      BY <1>1, AwaitType DEF Naming, Begin, PCs, Active, Finished
    <2> QED
      BY <1>1, <2>2, <2>3 DEF Begin, TypeOK, PCs
  <1>2. ASSUME NEW b \in Builder, BeginFails(b) PROVE TypeInv'
    <2>1. RegistryTypeOK'
      BY <1>2 DEF BeginFails, TypeOK, RegistryTypeOK, registry, directory
    <2>2. pc' \in [Builder -> PCs] /\ at' \in [Builder -> Places] /\ InBlocks'
      BY <1>2, AwaitType DEF Naming, BeginFails, PCs, Active, Finished
    <2> QED
      BY <1>2, <2>1, <2>2 DEF BeginFails, TypeOK, PCs
  <1>3. ASSUME NEW b \in Builder, SkipBridge(b) PROVE TypeInv'
    <2>1. RegistryTypeOK'
      BY <1>3 DEF SkipBridge, TypeOK, RegistryTypeOK, registry, directory
    <2>2. PICK place : PlaceOK(b, place) /\ GoTo(b, place)
      <3>1. at[b].block + 1 \in Nat \ {0}
        BY <1>3 DEF SkipBridge, TypeOK, Places
      <3> QED
        BY <1>3, <3>1, GeneratePlace, BindingsPlace DEF SkipBridge
    <2>3. pc' \in [Builder -> PCs] /\ at' \in [Builder -> Places] /\ InBlocks'
      BY <2>2, GoToType
    <2> QED
      BY <1>3, <2>1, <2>3 DEF SkipBridge, TypeOK, PCs
  <1>4. ASSUME NEW b \in Builder, Codegen(b) PROVE TypeInv'
    <2>1. RegistryTypeOK'
      BY <1>4 DEF Codegen, TypeOK, RegistryTypeOK, registry, directory
    <2>2. PlaceOK(b, Place("offer", "generate", at[b].block, 1))
      BY <1>4, <1>a DEF Codegen, InBlocks, PlaceOK, Place, Places, Active, Naming, Writing, Doing
    <2>3. pc' \in [Builder -> PCs] /\ at' \in [Builder -> Places] /\ InBlocks'
      BY <1>4, <2>2, GoToType DEF Codegen
    <2> QED
      BY <1>4, <2>1, <2>3 DEF Codegen, TypeOK, PCs
  <1>5. ASSUME NEW b \in Builder, Cxxgen(b) PROVE TypeInv'
    <2>1. RegistryTypeOK'
      BY <1>5 DEF Cxxgen, TypeOK, RegistryTypeOK, registry, directory
    <2>2. pc' \in [Builder -> PCs] /\ at' \in [Builder -> Places] /\ InBlocks'
      BY <1>5, AwaitType DEF Naming, Cxxgen, PCs, Active, Finished
    <2> QED
      BY <1>5, <2>1, <2>2 DEF Cxxgen, TypeOK, PCs
  <1>6. ASSUME NEW b \in Builder, CodegenFails(b) PROVE TypeInv'
    <2>1. RegistryTypeOK'
      BY <1>6 DEF CodegenFails, TypeOK, RegistryTypeOK, registry, directory
    <2>2. pc' \in [Builder -> PCs] /\ at' \in [Builder -> Places] /\ InBlocks'
      BY <1>6, AwaitType DEF Naming, CodegenFails, PCs, Active, Finished
    <2> QED
      BY <1>6, <2>1, <2>2 DEF CodegenFails, TypeOK, PCs
  <1>7. ASSUME NEW b \in Builder, OfferName(b) PROVE TypeInv'
    <2>1. RegistryTypeOK'
      BY <1>7 DEF OfferName, TypeOK, RegistryTypeOK, registry, directory
    <2>2. pc' \in [Builder -> PCs] /\ at' \in [Builder -> Places] /\ InBlocks'
      BY <1>7, AwaitType DEF Naming, OfferName, PCs, Active, Finished
    <2>3. asked[b] \in 0..MaxNumber /\ Offer[b][asked[b]] \in Path
      <3>1. asked[b] \in 0..MaxNumber
        BY <1>7, BoundsAssumption DEF OfferName, TypeOK
      <3>2. Offer[b] \in [0..MaxNumber -> Path]
        BY NamesAssumption
      <3> QED
        BY <3>1, <3>2
    <2>4. key' \in [Builder -> Path] /\ asked' \in [Builder -> 0..MaxNumber + 1]
      BY <1>7, <2>3, ResolveType, BoundsAssumption DEF OfferName, TypeOK
    <2>5. DOMAIN chosen' = Builder /\ \A c \in Builder : chosen'[c] \in [1..Len(Blocks[c]) -> Path]
      BY <1>7, <2>3 DEF OfferName, TypeOK
    <2> QED
      BY <1>7, <2>1, <2>2, <2>4, <2>5 DEF OfferName, TypeOK, PCs
  <1>8. ASSUME NEW b \in Builder, ClaimName(b) PROVE TypeInv'
    <2>1. RegistryTypeOK'
      BY <1>8, ClaimType DEF ClaimName, TypeOK
    <2>2. pc' \in [Builder -> PCs] /\ at' \in [Builder -> Places] /\ InBlocks'
      <3>1. at[b].block \in 1..Len(Blocks[b])
        BY <1>8, BusyBlock DEF Naming, ClaimName
      <3>2. PlaceOK(b, AfterNaming(b))
        BY <1>8, <1>a, <3>1, NamingPlace DEF ClaimName, Active
      <3>3. CASE Claimable(key[b])
        BY <1>8, <3>2, <3>3, GoToType DEF ClaimName
      <3>4. CASE ~Claimable(key[b])
        BY <1>8, <3>4, AwaitType DEF Naming, ClaimName, PCs, Active, Finished
      <3> QED
        BY <3>3, <3>4
    <2>3. offered' \in [Builder -> SUBSET Path]
      BY <1>8 DEF ClaimName, TypeOK
    <2> QED
      BY <1>8, <2>1, <2>2, <2>3 DEF ClaimName, TypeOK, PCs
  <1>9. ASSUME NEW b \in Builder, ReofferName(b) PROVE TypeInv'
    <2>1. RegistryTypeOK'
      BY <1>9 DEF ReofferName, TypeOK, RegistryTypeOK, registry, directory
    <2>2. pc' \in [Builder -> PCs] /\ at' \in [Builder -> Places] /\ InBlocks'
      <3>1. at[b].block \in 1..Len(Blocks[b])
        BY <1>9, BusyBlock DEF Naming, ReofferName
      <3>2. PlaceOK(b, AfterNaming(b))
        BY <1>9, <1>a, <3>1, NamingPlace DEF ReofferName, Active
      <3>3. CASE OutOfNames(b)
        BY <1>9, <3>2, <3>3, GoToType DEF ReofferName
      <3>4. CASE ~OutOfNames(b)
        BY <1>9, <3>4, AwaitType DEF Naming, ReofferName, PCs, Active, Finished
      <3> QED
        BY <3>3, <3>4
    <2>3. ResolveDestination(chosen[b][at[b].block]) \in Path
      BY <1>9, BusyBlock, ResolveType, ZenonT(60) DEF Naming, ReofferName, TypeOK
    <2>4. offered' \in [Builder -> SUBSET Path]
      <3>1. CASE OutOfNames(b)
        BY <1>9, <3>1 DEF ReofferName, TypeOK
      <3>2. CASE ~OutOfNames(b)
        <4>1. offered' = [offered EXCEPT
                            ![b] = @ \cup {ResolveDestination(chosen[b][at[b].block])}]
          BY <1>9, <3>2 DEF ReofferName
        <4> QED
          BY <2>3, <4>1 DEF TypeOK
      <3> QED
        BY <3>1, <3>2
    <2> QED
      BY <1>9, <2>1, <2>2, <2>4 DEF ReofferName, TypeOK, PCs
  <1>10. ASSUME NEW b \in Builder, NextNumber(b) PROVE TypeInv'
    <2>1. RegistryTypeOK'
      BY <1>10 DEF NextNumber, TypeOK, RegistryTypeOK, registry, directory
    <2>2. pc' \in [Builder -> PCs] /\ at' \in [Builder -> Places] /\ InBlocks'
      BY <1>10, AwaitType DEF Naming, NextNumber, PCs, Active, Finished
    <2>3. number[b] \in 0..MaxNumber /\ GenName[number[b]] \in Path
      BY <1>10, NamesAssumption, BoundsAssumption DEF NextNumber, TypeOK
    <2>4. /\ key' \in [Builder -> Path] /\ fname' \in [Builder -> Path]
          /\ number' \in [Builder -> 0..MaxNumber + 1]
      BY <1>10, <2>3, ResolveType, BoundsAssumption DEF NextNumber, TypeOK
    <2> QED
      BY <1>10, <2>1, <2>2, <2>4 DEF NextNumber, TypeOK, PCs
  <1>11. ASSUME NEW b \in Builder, GrabNumber(b) PROVE TypeInv'
    <2>1. RegistryTypeOK'
      BY <1>11, ClaimType DEF GrabNumber, TypeOK
    <2>2. pc' \in [Builder -> PCs] /\ at' \in [Builder -> Places] /\ InBlocks'
      <3>1. at[b].block \in 1..Len(Blocks[b])
        BY <1>11, BusyBlock DEF Naming, GrabNumber
      <3>2. PlaceOK(b, AfterNumbering(b))
        BY <1>11, <1>a, <3>1, NumberingPlace DEF GrabNumber, Active
      <3>3. CASE Claimable(key[b])
        BY <1>11, <3>2, <3>3, GoToType DEF GrabNumber
      <3>4. CASE ~Claimable(key[b])
        BY <1>11, <3>4, AwaitType DEF Naming, GrabNumber, PCs, Active, Finished
      <3> QED
        BY <3>3, <3>4
    <2> QED
      BY <1>11, <2>1, <2>2 DEF GrabNumber, TypeOK, PCs
  <1>12. ASSUME NEW b \in Builder, ResolveTarget(b) PROVE TypeInv'
    <2>1. RegistryTypeOK'
      BY <1>12 DEF ResolveTarget, TypeOK, RegistryTypeOK, registry, directory
    <2>2. pc' \in [Builder -> PCs] /\ at' \in [Builder -> Places] /\ InBlocks'
      BY <1>12, AwaitType DEF Naming, ResolveTarget, PCs, Active, Finished
    <2>3. key' \in [Builder -> Path]
      BY <1>12, TargetType, ResolveType DEF ResolveTarget, TypeOK, Active
    <2> QED
      BY <1>12, <2>1, <2>2, <2>3 DEF ResolveTarget, TypeOK, PCs
  <1>13. ASSUME NEW b \in Builder, RecordWrite(b) PROVE TypeInv'
    <2>1. Content(b) \in Bytes
      BY <1>13, TargetType DEF RecordWrite, Active
    <2>2. RegistryTypeOK'
      <3>1. CASE Collides(key[b], Content(b))
        BY <1>13, <3>1 DEF RecordWrite, TypeOK, RegistryTypeOK, registry, directory
      <3>2. CASE ~Collides(key[b], Content(b))
        <4>1. key[b] \in Path /\ Record(b, key[b], Content(b)) /\ UNCHANGED directory
          BY <1>13, <3>2 DEF RecordWrite, TypeOK
        <4> QED
          BY <4>1, <2>1, RecordType DEF TypeOK
      <3> QED
        BY <3>1, <3>2
    <2>3. pc' \in [Builder -> PCs] /\ at' \in [Builder -> Places] /\ InBlocks'
      BY <1>13, AwaitType DEF Naming, RecordWrite, PCs, Active, Finished
    <2> QED
      BY <1>13, <2>2, <2>3 DEF RecordWrite, TypeOK, PCs
  <1>14. ASSUME NEW b \in Builder, Compare(b) PROVE TypeInv'
    <2>1. RegistryTypeOK'
      BY <1>14 DEF Compare, TypeOK, RegistryTypeOK, registry, directory
    <2>2. CASE AlreadyThere(b)
      <3>1. Written(b) \in [path : Path, bytes : Bytes]
        BY <1>14, TargetType DEF Compare, Active, Written
      <3>2. PlaceOK(b, AfterWrite(b))
        BY <1>14, <1>a, WritePlace DEF Compare, Active, InBlocks
      <3>3. pc' \in [Builder -> PCs] /\ at' \in [Builder -> Places] /\ InBlocks'
        BY <1>14, <2>2, <3>2, GoToType DEF Compare, Delivered
      <3>4. Delivered(b) /\ key' = key
        BY <1>14, <2>2 DEF Compare
      <3>5. out' \in [Builder -> SUBSET [path : Path, bytes : Bytes]]
        BY <3>1, <3>4 DEF Delivered, TypeOK
      <3> QED
        BY <1>14, <2>1, <3>3, <3>4, <3>5 DEF Compare, TypeOK, PCs
    <2>3. CASE ~AlreadyThere(b)
      <3>1. pc' \in [Builder -> PCs] /\ at' \in [Builder -> Places] /\ InBlocks'
        BY <1>14, <2>3, AwaitType DEF Naming, Compare, PCs, Active, Finished
      <3>2. /\ key' = [key EXCEPT ![b] = ResolveDestination(Target(b))]
            /\ out' = out
        BY <1>14, <2>3 DEF Compare
      <3>3. ResolveDestination(Target(b)) \in Path
        BY <1>14, TargetType, ResolveType DEF Compare, TypeOK, Active
      <3>4. key' \in [Builder -> Path]
        BY <3>2, <3>3 DEF TypeOK
      <3> QED
        BY <1>14, <2>1, <3>1, <3>2, <3>4 DEF Compare, TypeOK, PCs
    <2> QED
      BY <2>2, <2>3
  <1>15. ASSUME NEW b \in Builder, Stage(b) PROVE TypeInv'
    <2>1. RegistryTypeOK'
      BY <1>15 DEF Stage, TypeOK, RegistryTypeOK, registry, directory
    <2>2. pc' \in [Builder -> PCs] /\ at' \in [Builder -> Places] /\ InBlocks'
      BY <1>15, AwaitType DEF Naming, Stage, PCs, Active, Finished
    <2> QED
      BY <1>15, <2>1, <2>2 DEF Stage, TypeOK, PCs
  <1>16. ASSUME NEW b \in Builder, Persist(b) PROVE TypeInv'
    <2>1. RegistryTypeOK'
      <3>1. PICK name \in NamesAfterRename(FileOf[key[b]], key[b]) :
              disk' = [disk EXCEPT ![FileOf[key[b]]] = [name |-> name, bytes |-> Content(b)]]
        BY <1>16 DEF Persist
      <3>2. key[b] \in Path /\ FileOf[key[b]] \in File
        BY FileOfAssumption DEF TypeOK
      <3>3. name \in Path
        BY <3>2 DEF NamesAfterRename, TypeOK, RegistryTypeOK, Entry
      <3>4. [name |-> name, bytes |-> Content(b)] \in Entry
        BY <1>16, <3>3, TargetType DEF Persist, Active, Entry
      <3>5. disk' \in [File -> Entry \cup {Absent}]
        BY <3>1, <3>4 DEF TypeOK, RegistryTypeOK
      <3> QED
        BY <1>16, <3>5 DEF Persist, TypeOK, RegistryTypeOK, registry
    <2>2. Written(b) \in [path : Path, bytes : Bytes]
      BY <1>16, TargetType DEF Persist, Active, Written
    <2>3. PlaceOK(b, AfterWrite(b))
      BY <1>16, <1>a, WritePlace DEF Persist, Active, InBlocks
    <2>4. pc' \in [Builder -> PCs] /\ at' \in [Builder -> Places] /\ InBlocks'
      BY <1>16, <2>3, GoToType DEF Persist, Delivered
    <2>5. out' \in [Builder -> SUBSET [path : Path, bytes : Bytes]]
      BY <1>16, <2>2 DEF Persist, Delivered, TypeOK
    <2> QED
      BY <1>16, <2>1, <2>4, <2>5 DEF Persist, TypeOK, PCs
  <1>17. ASSUME NEW b \in Builder, WriteFails(b) PROVE TypeInv'
    <2>1. RegistryTypeOK'
      BY <1>17 DEF WriteFails, TypeOK, RegistryTypeOK, registry, directory
    <2>2. pc' \in [Builder -> PCs] /\ at' \in [Builder -> Places] /\ InBlocks'
      BY <1>17, AwaitType DEF Naming, WriteFails, PCs, Active, Finished
    <2>3. key' \in [Builder -> Path]
      BY <1>17, TargetType, ResolveType DEF WriteFails, TypeOK, Active
    <2> QED
      BY <1>17, <2>1, <2>2, <2>3 DEF WriteFails, TypeOK, PCs
  <1>18. ASSUME NEW b \in Builder, ForgetWrite(b) PROVE TypeInv'
    <2>1. RegistryTypeOK'
      BY <1>18, ForgetType DEF ForgetWrite, TypeOK
    <2>2. pc' \in [Builder -> PCs] /\ at' \in [Builder -> Places] /\ InBlocks'
      BY <1>18, AwaitType DEF Naming, ForgetWrite, PCs, Active, Finished
    <2> QED
      BY <1>18, <2>1, <2>2 DEF ForgetWrite, TypeOK, PCs
  <1>19. CASE RemoveDir
    BY <1>19 DEF RemoveDir, TypeOK, InBlocks, RegistryTypeOK, registry, control
  <1>20. CASE Restart
    <2>1. RegistryTypeOK' /\ InBlocks' /\ at' \in [Builder -> Places]
      BY <1>20 DEF Restart, TypeOK, RegistryTypeOK, NothingWritten, InBlocks, Naming, Places, Fresh,
                   Doing, directory
    <2> QED
      BY <1>20, <2>1, LenType, PathAssumption, BoundsAssumption DEF Restart, TypeOK
  <1>21. CASE UNCHANGED vars
    BY <1>21 DEF vars, registry, directory, control, TypeOK, InBlocks, RegistryTypeOK
  <1> QED
    BY <1>1, <1>2, <1>3, <1>4, <1>5, <1>6, <1>7, <1>8, <1>9, <1>10, <1>11, <1>12, <1>13,
       <1>14, <1>15, <1>16, <1>17, <1>18, <1>19, <1>20, <1>21 DEF Next, Step

(* Every value every builder, the record and the directory hold is of its kind. *)
THEOREM TypeCorrect == Spec => []TypeOK
  <1>1. TypeInv => TypeOK
    BY DEF TypeInv
  <1> QED
    BY InitTypeInv, NextTypeInv, <1>1, PTL DEF Spec

-------------------------------------------------------------------------------
(* Where the filesystem tells spellings apart and every write succeeds, any    *)
(* number of builders may run at once, be killed, and run again.               *)
ToldApart == \A p, q \in Path : FileOf[p] = FileOf[q] => p = q
Dependable == ToldApart /\ "write" \notin Faults

(* The strengthening of KeepsItsFiles. A file goes by its own name, so that a  *)
(* path resolves to itself, ...                                                *)
OwnNames == \A f \in File : disk[f] # Absent => FileOf[disk[f].name] = f
KeysResolved == \A b \in Builder : pc[b] \in Writing => key[b] = Target(b)

(* ... from record to rename the record says what is being written, and goes   *)
(* on saying so once it is, since nothing is ever forgotten ...                *)
OnRecord(p, bytes) == written[p] # Unwritten /\ written[p].bytes = bytes
NeverForgets == \A b \in Builder : pc[b] # "forget"
WritesRecorded ==
    \A b \in Builder : pc[b] \in Writing \ {"record"} => OnRecord(Target(b), Content(b))
OutRecorded == \A b \in Builder : \A w \in out[b] : OnRecord(w.path, w.bytes)

(* ... and a record is only dropped when it has nobody's file to speak for.    *)
RecordLives ==
    Running # {} \/ (\E b \in Builder : out[b] # {}) => present /\ ~StaleRecord

FilesInv ==
    /\ OwnNames /\ KeysResolved /\ NeverForgets
    /\ WritesRecorded /\ OutRecorded /\ RecordLives
    /\ KeepsItsFiles

LEMMA TargetSame ==
    ASSUME NEW c \in Builder,
           at'[c] = at[c], fname'[c] = fname[c], chosen'[c] = chosen[c]
    PROVE  Target(c)' = Target(c) /\ Content(c)' = Content(c)
  BY DEF Target, Content, Block

LEMMA ResolvesToItself ==
    ASSUME ToldApart, TypeOK, OwnNames, NEW p \in Path
    PROVE  ResolveDestination(p) = p
  BY FileOfAssumption DEF ToldApart, TypeOK, RegistryTypeOK, OwnNames, ResolveDestination, Entry

(* A step of b which touches neither the disk nor what is written: what the    *)
(* other builders rely on stays, and so what b relies on if it is not writing. *)
LEMMA QuietStep ==
    ASSUME TypeInv, FilesInv, NEW b \in Builder, pc[b] \in Active,
           NEW p \in (Active \cup Finished) \ {"forget"}, pc' = [pc EXCEPT ![b] = p],
           \A c \in Builder \ {b} : /\ at'[c] = at[c] /\ fname'[c] = fname[c]
                                   /\ chosen'[c] = chosen[c] /\ key'[c] = key[c],
           UNCHANGED <<written, present, markerWritten, directory, out>>,
           p \in Writing => key'[b] = Target(b)',
           p \in Writing \ {"record"} => OnRecord(Target(b), Content(b))'
    PROVE  FilesInv'
  <1> USE DEF FilesInv
  <1>1. \A c \in Builder \ {b} : /\ pc'[c] = pc[c] /\ key'[c] = key[c]
                                /\ Target(c)' = Target(c) /\ Content(c)' = Content(c)
    BY TargetSame DEF TypeInv, TypeOK
  <1>2. pc'[b] = p
    BY DEF TypeInv, TypeOK
  <1>3. OwnNames' /\ KeepsItsFiles'
    BY DEF OwnNames, KeepsItsFiles, directory
  <1>4. KeysResolved'
    BY <1>1, <1>2 DEF KeysResolved
  <1>5. NeverForgets'
    BY <1>1, <1>2 DEF NeverForgets
  <1>6. WritesRecorded'
    BY <1>1, <1>2 DEF WritesRecorded, OnRecord
  <1>7. OutRecorded'
    BY DEF OutRecorded, OnRecord
  <1>8. RecordLives'
    BY DEF RecordLives, Running, StaleRecord, directory
  <1> QED
    BY <1>3, <1>4, <1>5, <1>6, <1>7, <1>8

(* What b reports it has written is on record and on disk. *)
LEMMA DeliveryKept ==
    ASSUME Dependable, TypeInv, FilesInv, NEW b \in Builder,
           pc[b] \in {"compare", "persist"}, Delivered(b),
           UNCHANGED <<written, present, markerWritten, marker, fname, chosen>>,
           \A c \in Builder \ {b} : key'[c] = key[c],
           OwnNames',
           /\ disk'[FileOf[Target(b)]] # Absent
           /\ disk'[FileOf[Target(b)]].bytes = Content(b),
           \A f \in File \ {FileOf[Target(b)]} : disk'[f] = disk[f]
    PROVE  FilesInv'
  <1> USE DEF FilesInv
  <1>1. b \in Running /\ pc[b] \in Active /\ at[b] \in Places
    BY DEF Running, Active, TypeInv, TypeOK
  <1>2. PlaceOK(b, AfterWrite(b))
    BY <1>1, WritePlace DEF TypeInv, InBlocks, Finished
  <1>3. pc'[b] \notin Writing \cup {"forget"}
    BY <1>2 DEF Delivered, GoTo, PlaceOK, TypeInv, TypeOK
  <1>4. \A c \in Builder \ {b} : /\ pc'[c] = pc[c] /\ at'[c] = at[c] /\ out'[c] = out[c]
    BY DEF Delivered, GoTo, TypeInv, TypeOK
  <1>5. \A c \in Builder \ {b} : Target(c)' = Target(c) /\ Content(c)' = Content(c)
    BY <1>4, TargetSame
  <1>6. OnRecord(Target(b), Content(b)) /\ Target(b) \in Path
    BY <1>1, TargetType DEF WritesRecorded, Writing, TypeInv
  <1>7. out'[b] = out[b] \cup {Written(b)}
    BY DEF Delivered, TypeInv, TypeOK
  <1>8. KeysResolved' /\ NeverForgets'
    BY <1>3, <1>4, <1>5 DEF KeysResolved, NeverForgets, Writing
  <1>9. WritesRecorded'
    BY <1>3, <1>4, <1>5 DEF WritesRecorded, OnRecord, Writing
  <1>10. OutRecorded'
    BY <1>4, <1>6, <1>7 DEF OutRecorded, OnRecord, Written
  <1>11. RecordLives'
    BY <1>1 DEF RecordLives, StaleRecord
  <1>12. KeepsItsFiles'
    <2> SUFFICES ASSUME NEW c \in Builder, NEW w \in out'[c]
                 PROVE  /\ disk'[FileOf[w.path]] # Absent
                        /\ disk'[FileOf[w.path]].bytes = w.bytes
      BY DEF KeepsItsFiles
    <2>1. CASE w \in out[c]
      <3>1. w.path \in Path /\ FileOf[w.path] \in File
        BY <2>1, FileOfAssumption DEF TypeInv, TypeOK
      <3>2. CASE FileOf[w.path] = FileOf[Target(b)]
        BY <1>6, <2>1, <3>1, <3>2 DEF Dependable, ToldApart, OutRecorded, OnRecord
      <3>3. CASE FileOf[w.path] # FileOf[Target(b)]
        BY <2>1, <3>1, <3>3 DEF KeepsItsFiles
      <3> QED
        BY <3>2, <3>3
    <2>2. CASE w \notin out[c]
      BY <1>4, <1>7, <2>2 DEF Written
    <2> QED
      BY <2>1, <2>2
  <1> QED
    BY <1>8, <1>9, <1>10, <1>11, <1>12

LEMMA InitFilesInv == Init => FilesInv
  BY DEF Init, NothingBuilt, EmptyRegistry, FilesInv, OwnNames, KeysResolved, NeverForgets,
         WritesRecorded, OutRecorded, RecordLives, KeepsItsFiles, Writing, Running, Active

(* A builder that begins either joins a record in use or starts one when there *)
(* is nothing on record that anybody relies on.                                *)
LEMMA BeginKeeps ==
    ASSUME TypeInv, FilesInv, NEW b \in Builder, Begin(b)
    PROVE  FilesInv'
  <1> USE DEF FilesInv
  <1>1. PICK ok \in BOOLEAN : Open(ok)
    BY DEF Begin
  <1>2. /\ UNCHANGED <<disk, out, at, key, fname, chosen>>
        /\ pc' = [pc EXCEPT ![b] = "resolve"]
    BY DEF Begin, Await
  <1>3. \A c \in Builder : /\ Target(c)' = Target(c) /\ Content(c)' = Content(c)
                           /\ pc'[c] \in Writing \cup {"forget"} => pc'[c] = pc[c]
    BY <1>2, TargetSame DEF TypeInv, TypeOK, Writing
  <1>4. OwnNames' /\ KeepsItsFiles' /\ KeysResolved' /\ NeverForgets'
    BY <1>2, <1>3 DEF OwnNames, KeepsItsFiles, KeysResolved, NeverForgets
  <1>5. RecordLives'
    BY <1>1 DEF Open, RecordLives, StaleRecord, registry
  <1>6. CASE present /\ ~StaleRecord
    <2>1. written' = written
      BY <1>1, <1>6 DEF Open, registry
    <2>2. WritesRecorded'
      BY <1>3, <2>1 DEF WritesRecorded, OnRecord
    <2>3. OutRecorded'
      BY <1>2, <2>1 DEF OutRecorded, OnRecord
    <2> QED
      BY <1>4, <1>5, <2>2, <2>3
  <1>7. CASE ~(present /\ ~StaleRecord)
    <2>1. \A c \in Builder : pc[c] \notin Active /\ out[c] = {}
      BY <1>7 DEF RecordLives, Running
    <2>2. WritesRecorded'
      BY <1>3, <2>1 DEF WritesRecorded, Writing, Active
    <2>3. OutRecorded'
      BY <1>2, <2>1 DEF OutRecorded
    <2> QED
      BY <1>4, <1>5, <2>2, <2>3
  <1> QED
    BY <1>6, <1>7

(* A write the record accepts disturbs nobody: it adds to the record only      *)
(* where the record was silent.                                                *)
LEMMA RecordKeeps ==
    ASSUME TypeInv, FilesInv, NEW b \in Builder, RecordWrite(b)
    PROVE  FilesInv'
  <1>1. /\ UNCHANGED <<directory, present, markerWritten, fname, chosen, key, out, at>>
        /\ pc[b] = "record" /\ key[b] = Target(b)
    BY DEF RecordWrite, Record, Await, registry, FilesInv, KeysResolved, Writing
  <1>2. Target(b) \in Path /\ \A c \in Builder : Target(c)' = Target(c) /\ Content(c)' = Content(c)
    BY <1>1, TargetSame, TargetType DEF TypeInv, Active
  <1>3. CASE Collides(key[b], Content(b))
    BY <1>1, <1>3, QuietStep
       DEF RecordWrite, Await, TypeInv, TypeOK, Active, Finished, Writing, registry
  <1>4. CASE ~Collides(key[b], Content(b))
    <2>1. Record(b, Target(b), Content(b)) /\ pc' = [pc EXCEPT ![b] = "compare"]
      BY <1>1, <1>4 DEF RecordWrite, Await
    <2>2. present
      BY <1>1 DEF FilesInv, RecordLives, Running, Active
    <2>3. OnRecord(Target(b), Content(b))'
      <3>1. CASE written[Target(b)] = Unwritten
        <4>1. [builder |-> b, bytes |-> Content(b)] \in GeneratedFile
          BY <1>1, TargetType DEF GeneratedFile, TypeInv, Active
        <4>2. written'[Target(b)] = [builder |-> b, bytes |-> Content(b)]
          BY <1>2, <2>1, <2>2, <3>1 DEF Record, TypeInv, TypeOK, RegistryTypeOK
        <4> QED
          BY <1>2, <4>1, <4>2, UnwrittenAssumption DEF OnRecord, GeneratedFile
      <3>2. CASE written[Target(b)] # Unwritten
        BY <1>1, <1>2, <1>4, <2>1, <2>2, <3>2 DEF Record, Collides, OnRecord
      <3> QED
        BY <3>1, <3>2
    <2>4. ASSUME NEW p \in Path, NEW c, OnRecord(p, c) PROVE OnRecord(p, c)'
      BY <1>2, <2>1, <2>4 DEF Record, OnRecord, TypeInv, TypeOK, RegistryTypeOK
    <2>5. WritesRecorded'
      <3> SUFFICES ASSUME NEW c \in Builder, pc'[c] \in Writing \ {"record"}
                   PROVE  OnRecord(Target(c), Content(c))'
        BY DEF WritesRecorded
      <3>1. CASE c = b
        BY <2>3, <3>1
      <3>2. CASE c # b
        <4>1. pc[c] \in Writing \ {"record"} /\ pc[c] \in Active
          BY <2>1, <3>2 DEF TypeInv, TypeOK, Writing, Active
        <4>2. Target(c) \in Path /\ OnRecord(Target(c), Content(c))
          BY <4>1, TargetType DEF FilesInv, WritesRecorded, TypeInv
        <4> QED
          BY <1>2, <2>4, <4>2 DEF OnRecord
      <3> QED
        BY <3>1, <3>2
    <2>6. OutRecorded'
      <3> SUFFICES ASSUME NEW c \in Builder, NEW w \in out[c]
                   PROVE  OnRecord(w.path, w.bytes)'
        BY <1>1 DEF OutRecorded
      <3>1. w.path \in Path /\ OnRecord(w.path, w.bytes)
        BY DEF FilesInv, OutRecorded, TypeInv, TypeOK
      <3> QED
        BY <2>4, <3>1
    <2>7. KeysResolved' /\ NeverForgets'
      BY <1>1, <1>2, <2>1 DEF FilesInv, KeysResolved, NeverForgets, TypeInv, TypeOK, Writing
    <2>8. OwnNames' /\ KeepsItsFiles'
      BY <1>1 DEF FilesInv, OwnNames, KeepsItsFiles, directory
    <2>9. RecordLives'
      BY <1>1 DEF FilesInv, RecordLives, Running, Active, StaleRecord, directory
    <2> QED
      BY <2>5, <2>6, <2>7, <2>8, <2>9 DEF FilesInv
  <1> QED
    BY <1>3, <1>4

LEMMA NextFilesInv == Dependable /\ TypeInv /\ FilesInv /\ [Next]_vars => FilesInv'
  <1> SUFFICES ASSUME Dependable, TypeInv, FilesInv, [Next]_vars PROVE FilesInv'
    OBVIOUS
  <1>1. ASSUME NEW b \in Builder, Begin(b) PROVE FilesInv'
    BY <1>1, BeginKeeps
  <1>2. ASSUME NEW b \in Builder, BeginFails(b) PROVE FilesInv'
    BY <1>2 DEF Dependable, BeginFails
  <1>3. ASSUME NEW b \in Builder, SkipBridge(b) PROVE FilesInv'
    <2>1. at[b] \in Places /\ at[b].block \in 1..Len(Blocks[b]) /\ pc[b] \in Active
      BY <1>3, BusyBlock DEF SkipBridge, TypeInv, TypeOK, Naming, Active
    <2>2. PICK p \in (Active \cup Finished) \ (Writing \cup {"forget"}) :
            /\ pc' = [pc EXCEPT ![b] = p]
            /\ \A c \in Builder \ {b} : at'[c] = at[c]
      <3>1. PICK place : PlaceOK(b, place) /\ GoTo(b, place)
        BY <1>3, <2>1, GeneratePlace, BindingsPlace DEF SkipBridge
      <3> QED
        BY <3>1 DEF PlaceOK, GoTo, TypeInv, TypeOK
    <2> QED
      BY <1>3, <2>1, <2>2, QuietStep DEF SkipBridge, Claim, TypeInv, TypeOK, registry, directory
  <1>4. ASSUME NEW b \in Builder, Codegen(b) PROVE FilesInv'
    <2>1. at[b] \in Places /\ at[b].block \in 1..Len(Blocks[b]) /\ pc[b] \in Active
      BY <1>4, BusyBlock DEF Codegen, TypeInv, TypeOK, Naming, Active
    <2>2. PICK p \in (Active \cup Finished) \ (Writing \cup {"forget"}) :
            /\ pc' = [pc EXCEPT ![b] = p]
            /\ \A c \in Builder \ {b} : at'[c] = at[c]
      BY <1>4 DEF Codegen, GoTo, Place, Active, Finished, Writing, TypeInv, TypeOK
    <2> QED
      BY <1>4, <2>1, <2>2, QuietStep DEF Codegen, Claim, TypeInv, TypeOK, registry, directory
  <1>5. ASSUME NEW b \in Builder, Cxxgen(b) PROVE FilesInv'
    BY <1>5, QuietStep DEF Cxxgen, Await, TypeInv, TypeOK, Active, Finished, Writing,
       registry, directory
  <1>6. ASSUME NEW b \in Builder, CodegenFails(b) PROVE FilesInv'
    BY <1>6, QuietStep DEF CodegenFails, Await, TypeInv, TypeOK, Active, Finished, Writing,
       registry, directory
  <1>7. ASSUME NEW b \in Builder, OfferName(b) PROVE FilesInv'
    BY <1>7, QuietStep DEF OfferName, Await, TypeInv, TypeOK, Active, Finished, Writing,
       registry, directory
  <1>8. ASSUME NEW b \in Builder, ClaimName(b) PROVE FilesInv'
    <2>1. at[b] \in Places /\ at[b].block \in 1..Len(Blocks[b]) /\ pc[b] \in Active
      BY <1>8, BusyBlock DEF ClaimName, TypeInv, TypeOK, Naming, Active
    <2>2. PICK p \in (Active \cup Finished) \ (Writing \cup {"forget"}) :
            /\ pc' = [pc EXCEPT ![b] = p]
            /\ \A c \in Builder \ {b} : at'[c] = at[c]
      <3>1. CASE Claimable(key[b])
        BY <1>8, <2>1, <3>1, NamingPlace DEF ClaimName, PlaceOK, GoTo, TypeInv, TypeOK
      <3>2. CASE ~Claimable(key[b])
        BY <1>8, <3>2 DEF ClaimName, Await, Active, Finished, Writing
      <3> QED
        BY <3>1, <3>2
    <2> QED
      BY <1>8, <2>1, <2>2, QuietStep DEF ClaimName, Claim, TypeInv, TypeOK, registry, directory
  <1>9. ASSUME NEW b \in Builder, ReofferName(b) PROVE FilesInv'
    <2>1. at[b] \in Places /\ at[b].block \in 1..Len(Blocks[b]) /\ pc[b] \in Active
      BY <1>9, BusyBlock DEF ReofferName, TypeInv, TypeOK, Naming, Active
    <2>2. PICK p \in (Active \cup Finished) \ (Writing \cup {"forget"}) :
            /\ pc' = [pc EXCEPT ![b] = p]
            /\ \A c \in Builder \ {b} : at'[c] = at[c]
      <3>1. CASE OutOfNames(b)
        BY <1>9, <2>1, <3>1, NamingPlace DEF ReofferName, PlaceOK, GoTo, TypeInv, TypeOK
      <3>2. CASE ~OutOfNames(b)
        BY <1>9, <3>2 DEF ReofferName, Await, Active, Finished, Writing
      <3> QED
        BY <3>1, <3>2
    <2> QED
      BY <1>9, <2>1, <2>2, QuietStep DEF ReofferName, Claim, TypeInv, TypeOK, registry, directory
  <1>10. ASSUME NEW b \in Builder, NextNumber(b) PROVE FilesInv'
    BY <1>10, QuietStep DEF NextNumber, Await, TypeInv, TypeOK, Active, Finished, Writing,
       registry, directory
  <1>11. ASSUME NEW b \in Builder, GrabNumber(b) PROVE FilesInv'
    <2>1. at[b] \in Places /\ at[b].block \in 1..Len(Blocks[b]) /\ pc[b] \in Active
      BY <1>11, BusyBlock DEF GrabNumber, TypeInv, TypeOK, Naming, Active
    <2>2. PICK p \in (Active \cup Finished) \ (Writing \cup {"forget"}) :
            /\ pc' = [pc EXCEPT ![b] = p]
            /\ \A c \in Builder \ {b} : at'[c] = at[c]
      BY <1>11, <2>1, NumberingPlace DEF GrabNumber, PlaceOK, GoTo, Await, TypeInv, TypeOK,
         Active, Finished, Writing
    <2> QED
      BY <1>11, <2>1, <2>2, QuietStep DEF GrabNumber, Claim, TypeInv, TypeOK, registry, directory
  <1>12. ASSUME NEW b \in Builder, ResolveTarget(b) PROVE FilesInv'
    <2>1. Target(b)' = Target(b) /\ Target(b) \in Path
      BY <1>12, TargetSame, TargetType DEF ResolveTarget, Await, Active, TypeInv
    <2>2. key'[b] = Target(b)
      BY <1>12, <2>1, ResolvesToItself DEF Dependable, ResolveTarget, TypeInv, TypeOK, FilesInv
    <2> QED
      BY <1>12, <2>1, <2>2, QuietStep
         DEF ResolveTarget, Await, TypeInv, TypeOK, Active, Finished, Writing, registry, directory
  <1>13. ASSUME NEW b \in Builder, RecordWrite(b) PROVE FilesInv'
    BY <1>13, RecordKeeps
  <1>14. ASSUME NEW b \in Builder, Compare(b) PROVE FilesInv'
    <2>1. Target(b) \in Path /\ FileOf[Target(b)] \in File /\ OnRecord(Target(b), Content(b))
      BY <1>14, TargetType, FileOfAssumption
         DEF Compare, Active, TypeInv, FilesInv, WritesRecorded, Writing
    <2>2. CASE AlreadyThere(b)
      <3>1. Delivered(b) /\ UNCHANGED <<key, registry, directory, fname, chosen>>
        BY <1>14, <2>2 DEF Compare
      <3>2. OwnNames'
        BY <3>1 DEF FilesInv, OwnNames, directory
      <3> QED
        BY <1>14, <2>2, <3>1, <3>2, DeliveryKept DEF Compare, AlreadyThere, registry, directory
    <2>3. CASE ~AlreadyThere(b)
      <3>1. /\ Await(b, "stage") /\ key' = [key EXCEPT ![b] = ResolveDestination(Target(b))]
            /\ UNCHANGED <<out, registry, directory, fname, chosen>>
        BY <1>14, <2>3 DEF Compare
      <3>2. Target(b)' = Target(b) /\ Content(b)' = Content(b)
        BY <3>1, TargetSame DEF Await
      <3>3. key'[b] = Target(b) /\ OnRecord(Target(b), Content(b))'
        BY <2>1, <3>1, <3>2, ResolvesToItself
           DEF Dependable, TypeInv, TypeOK, FilesInv, OnRecord, registry
      <3> QED
        BY <1>14, <3>1, <3>2, <3>3, QuietStep
           DEF Compare, Await, TypeInv, TypeOK, Active, Finished, registry, directory
    <2> QED
      BY <2>2, <2>3
  <1>15. ASSUME NEW b \in Builder, Stage(b) PROVE FilesInv'
    <2>1. /\ Target(b)' = Target(b) /\ Content(b)' = Content(b)
          /\ key'[b] = Target(b) /\ OnRecord(Target(b), Content(b))'
      BY <1>15, TargetSame
         DEF Stage, Await, FilesInv, KeysResolved, WritesRecorded, Writing, OnRecord, registry
    <2> QED
      BY <1>15, <2>1, QuietStep
         DEF Stage, Await, TypeInv, TypeOK, Active, Finished, registry, directory
  <1>16. ASSUME NEW b \in Builder, Persist(b) PROVE FilesInv'
    <2>1. Target(b) \in Path /\ FileOf[Target(b)] \in File /\ key[b] = Target(b)
      BY <1>16, TargetType, FileOfAssumption
         DEF Persist, Active, TypeInv, FilesInv, KeysResolved, Writing
    <2>2. PICK name \in NamesAfterRename(FileOf[Target(b)], Target(b)) :
            disk' = [disk EXCEPT ![FileOf[Target(b)]] = [name |-> name, bytes |-> Content(b)]]
      BY <1>16, <2>1 DEF Persist
    <2>3. FileOf[name] = FileOf[Target(b)]
      BY <2>1 DEF NamesAfterRename, FilesInv, OwnNames
    <2>4. disk'[FileOf[Target(b)]] = [name |-> name, bytes |-> Content(b)]
      BY <2>1, <2>2 DEF TypeInv, TypeOK, RegistryTypeOK
    <2>5. disk'[FileOf[Target(b)]] # Absent
      <3>1. name \in Path
        BY <2>1 DEF NamesAfterRename, TypeInv, TypeOK, RegistryTypeOK, Entry
      <3>2. Content(b) \in Bytes
        BY <1>16, TargetType DEF Persist, Active, TypeInv
      <3> QED
        BY <2>4, <3>1, <3>2, AbsentAssumption
    <2>6. \A f \in File \ {FileOf[Target(b)]} : disk'[f] = disk[f]
      BY <2>2 DEF TypeInv, TypeOK, RegistryTypeOK
    <2>7. OwnNames'
      BY <2>3, <2>4, <2>6 DEF FilesInv, OwnNames
    <2> QED
      BY <1>16, <2>4, <2>5, <2>6, <2>7, DeliveryKept DEF Persist, registry
  <1>17. ASSUME NEW b \in Builder, WriteFails(b) PROVE FilesInv'
    BY <1>17 DEF Dependable, WriteFails
  <1>18. ASSUME NEW b \in Builder, ForgetWrite(b) PROVE FilesInv'
    BY <1>18 DEF ForgetWrite, FilesInv, NeverForgets
  <1>19. CASE RemoveDir
    BY <1>19 DEF RemoveDir, FilesInv, OwnNames, KeysResolved, NeverForgets, WritesRecorded,
       OutRecorded, RecordLives, KeepsItsFiles, Running, Active, Writing, registry, control
  <1>20. CASE Restart
    BY <1>20 DEF Restart, FilesInv, OwnNames, KeysResolved, NeverForgets, WritesRecorded,
       OutRecorded, RecordLives, KeepsItsFiles, Running, Active, Writing, directory
  <1>21. CASE UNCHANGED vars
    <2>1. \A c \in Builder : Target(c)' = Target(c) /\ Content(c)' = Content(c)
      BY <1>21, TargetSame DEF vars, control
    <2> QED
      BY <1>21, <2>1 DEF vars, control, registry, directory, FilesInv, OwnNames, KeysResolved,
         NeverForgets, WritesRecorded, OutRecorded, RecordLives, KeepsItsFiles, Running,
         OnRecord, StaleRecord
  <1> QED
    BY <1>1, <1>2, <1>3, <1>4, <1>5, <1>6, <1>7, <1>8, <1>9, <1>10, <1>11, <1>12, <1>13,
       <1>14, <1>15, <1>16, <1>17, <1>18, <1>19, <1>20, <1>21 DEF Next, Step

(* However many builders run at once, and however often the process is killed, *)
(* each finds the files it reported, as long as spellings are told apart and   *)
(* writes succeed: the two conditions runs of the model show to be needed.     *)
THEOREM FilesAreKept == ASSUME Dependable PROVE Spec => []KeepsItsFiles
  <1>1. TypeInv /\ FilesInv /\ [Next]_vars => FilesInv'
    BY NextFilesInv
  <1>2. FilesInv => KeepsItsFiles
    BY DEF FilesInv
  <1> QED
    BY InitTypeInv, NextTypeInv, InitFilesInv, <1>1, <1>2, PTL DEF Spec
-------------------------------------------------------------------------------
(* The record: whom it refuses, what it lets land in the directory, and what   *)
(* it keeps of builders which run one at a time, whatever the filesystem makes *)
(* of spellings and whichever write fails.                                     *)

(* Build scripts mostly run their builders one after another. *)
OneByOne == MaxRunning <= 1

(* Where a builder holds the file it is writing, and where it has resolved it. *)
Holding == {"compare", "stage", "persist", "forget"}
Resolved == Holding \cup {"record"}

-------------------------------------------------------------------------------
(* One at a time means what it says. *)
Alone == OneByOne => \A b, c \in Running : b = c

(* From resolving a path to the end of the write it resolves the same. *)
Steady == \A b \in Builder : pc[b] \in Resolved => key[b] = ResolveDestination(Target(b))

(* Whatever is on record for a marked directory, its owner wrote or is writing. *)
HeldBy(c, p, bytes) ==
    \/ \E w \in out[c] : FileOf[w.path] = FileOf[p] /\ w.bytes = bytes
    \/ pc[c] \in Holding /\ key[c] = p /\ Content(c) = bytes
OwnersHold ==
    markerWritten /\ marker =>
        \A p \in Path : written[p] # Unwritten => HeldBy(written[p].builder, p, written[p].bytes)

HeldInv == OwnNames /\ RecordLives /\ Alone /\ Steady /\ OwnersHold

-------------------------------------------------------------------------------
(* What a builder in turn is writing is on record and is not there already ... *)
HeldOnRecord == \A b \in Builder : pc[b] \in Holding => OnRecord(key[b], Content(b))
NotThereYet == \A b \in Builder : pc[b] \in Holding \ {"compare"} => ~AlreadyThere(b)

(* ... and what was written is on record under the name its file goes by. *)
OutOnRecord ==
    \A b \in Builder : \A w \in out[b] :
        /\ disk[FileOf[w.path]] # Absent
        /\ disk[FileOf[w.path]].bytes = w.bytes
        /\ OnRecord(disk[FileOf[w.path]].name, w.bytes)

TurnInv == HeldInv /\ HeldOnRecord /\ NotThereYet /\ OutOnRecord

-------------------------------------------------------------------------------
(* A step of b leaves the others and the record's being alone. *)
Own(b) ==
    /\ \A c \in Builder \ {b} :
          /\ pc'[c] = pc[c] /\ at'[c] = at[c] /\ fname'[c] = fname[c]
          /\ chosen'[c] = chosen[c] /\ key'[c] = key[c] /\ out'[c] = out[c]
          /\ asked'[c] = asked[c] /\ offered'[c] = offered[c]
    /\ UNCHANGED <<present, markerWritten, marker>>

(* Many steps write nothing, neither to the directory nor to what was written. *)
Quiet(b) ==
    /\ pc[b] \notin Resolved
    /\ pc'[b] \notin Resolved \cup {"refused"}
    /\ UNCHANGED <<disk, written, out>>

LEMMA PlacesAreQuiet ==
    ASSUME TypeInv, NEW b \in Builder, NEW place, PlaceOK(b, place), GoTo(b, place)
    PROVE  pc'[b] \notin Resolved \cup {"refused"}
  BY DEF PlaceOK, GoTo, TypeInv, TypeOK, Resolved, Holding, Writing

LEMMA StepsAreOwn ==
    ASSUME TypeInv, NEW b \in Builder, Step(b) \/ BeginFails(b)
    PROVE  Own(b)
  <1> USE DEF TypeInv, TypeOK
  <1>1. CASE BeginFails(b)
    BY <1>1 DEF BeginFails, Own, Await, registry, directory
  <1>2. CASE SkipBridge(b) \/ Codegen(b) \/ Cxxgen(b) \/ CodegenFails(b)
    BY <1>2 DEF SkipBridge, Codegen, Cxxgen, CodegenFails, Own, Await, GoTo, registry, directory
  <1>3. CASE OfferName(b) \/ ClaimName(b) \/ ReofferName(b)
    BY <1>3 DEF OfferName, ClaimName, ReofferName, Own, Await, GoTo, Claim, registry, directory
  <1>4. CASE NextNumber(b) \/ GrabNumber(b)
    BY <1>4 DEF NextNumber, GrabNumber, Own, Await, GoTo, Claim, registry, directory
  <1>5. CASE ResolveTarget(b) \/ RecordWrite(b) \/ Stage(b)
    BY <1>5 DEF ResolveTarget, RecordWrite, Stage, Own, Await, Record, registry, directory
  <1>6. CASE Compare(b)
    BY <1>6 DEF Compare, Delivered, Own, Await, GoTo, registry, directory
  <1>7. CASE Persist(b)
    BY <1>7 DEF Persist, Delivered, Own, GoTo, registry, directory
  <1>8. CASE WriteFails(b) \/ ForgetWrite(b)
    BY <1>8 DEF WriteFails, ForgetWrite, Own, Await, Forget, registry, directory
  <1> QED
    BY <1>1, <1>2, <1>3, <1>4, <1>5, <1>6, <1>7, <1>8 DEF Step

LEMMA QuietSteps ==
    ASSUME TypeInv, NEW b \in Builder,
           \/ BeginFails(b) \/ SkipBridge(b) \/ Codegen(b) \/ Cxxgen(b) \/ CodegenFails(b)
           \/ OfferName(b) \/ ClaimName(b) \/ ReofferName(b)
           \/ NextNumber(b) \/ GrabNumber(b)
    PROVE  Quiet(b)
  <1>a. pc[b] \in Naming => at[b] \in Places /\ at[b].block \in 1..Len(Blocks[b])
    BY BusyBlock DEF TypeInv, TypeOK
  <1>b. pc \in [Builder -> PCs]
    BY DEF TypeInv, TypeOK, PCs
  <1>1. CASE BeginFails(b) \/ Cxxgen(b) \/ CodegenFails(b) \/ OfferName(b) \/ NextNumber(b)
    BY <1>b, <1>1 DEF BeginFails, Cxxgen, CodegenFails, OfferName, NextNumber, Quiet, Await,
       Resolved, Holding, registry, directory
  <1>2. CASE SkipBridge(b)
    <2>1. at[b].block + 1 \in Nat \ {0}
      BY <1>2 DEF SkipBridge, TypeInv, TypeOK, Places
    <2>2. PICK place : PlaceOK(b, place) /\ GoTo(b, place)
      BY <1>2, <2>1, GeneratePlace, BindingsPlace DEF SkipBridge
    <2>3. pc'[b] \notin Resolved \cup {"refused"}
      BY <2>2, PlacesAreQuiet
    <2> QED
      BY <1>2, <2>3 DEF SkipBridge, Quiet, Resolved, Holding, registry, directory
  <1>3. CASE Codegen(b)
    BY <1>b, <1>3 DEF Codegen, GoTo, Place, Quiet, Resolved, Holding, registry, directory
  <1>4. CASE ClaimName(b)
    <2>1. PlaceOK(b, AfterNaming(b))
      BY <1>a, <1>4, NamingPlace DEF ClaimName, Naming
    <2>2. pc'[b] \notin Resolved \cup {"refused"}
      <3>1. CASE Claimable(key[b])
        BY <1>4, <2>1, <3>1, PlacesAreQuiet DEF ClaimName
      <3>2. CASE ~Claimable(key[b])
        BY <1>b, <1>4, <3>2 DEF ClaimName, Await, Resolved, Holding
      <3> QED
        BY <3>1, <3>2
    <2> QED
      BY <1>4, <2>2 DEF ClaimName, Claim, Quiet, Resolved, Holding, directory
  <1>5. CASE ReofferName(b)
    <2>1. PlaceOK(b, AfterNaming(b))
      BY <1>a, <1>5, NamingPlace DEF ReofferName, Naming
    <2>2. pc'[b] \notin Resolved \cup {"refused"}
      <3>1. CASE OutOfNames(b)
        BY <1>5, <2>1, <3>1, PlacesAreQuiet DEF ReofferName
      <3>2. CASE ~OutOfNames(b)
        BY <1>b, <1>5, <3>2 DEF ReofferName, Await, Resolved, Holding
      <3> QED
        BY <3>1, <3>2
    <2> QED
      BY <1>5, <2>2 DEF ReofferName, Quiet, Resolved, Holding, registry, directory
  <1>6. CASE GrabNumber(b)
    <2>1. PlaceOK(b, AfterNumbering(b))
      BY <1>a, <1>6, NumberingPlace DEF GrabNumber, Naming
    <2>2. pc'[b] \notin Resolved \cup {"refused"}
      <3>1. CASE Claimable(key[b])
        BY <1>6, <2>1, <3>1, PlacesAreQuiet DEF GrabNumber
      <3>2. CASE ~Claimable(key[b])
        BY <1>b, <1>6, <3>2 DEF GrabNumber, Await, Resolved, Holding
      <3> QED
        BY <3>1, <3>2
    <2> QED
      BY <1>6, <2>2 DEF GrabNumber, Claim, Quiet, Resolved, Holding, directory
  <1> QED
    BY <1>1, <1>2, <1>3, <1>4, <1>5, <1>6

(* What is delivered is reported, and the builder goes on to something else. *)
LEMMA Delivery ==
    ASSUME TypeInv, NEW b \in Builder, pc[b] \in {"compare", "persist"}, Delivered(b)
    PROVE  /\ pc'[b] \notin Resolved \cup {"refused"}
           /\ out'[b] = out[b] \cup {Written(b)}
           /\ \A c \in Builder \ {b} : out'[c] = out[c]
  <1>1. at[b] \in Places /\ pc[b] \in Active
    BY DEF TypeInv, TypeOK, Active
  <1>2. PlaceOK(b, AfterWrite(b))
    BY <1>1, WritePlace DEF TypeInv, InBlocks, Finished
  <1>3. pc'[b] \notin Resolved \cup {"refused"}
    BY <1>2, PlacesAreQuiet DEF Delivered
  <1> QED
    BY <1>3 DEF Delivered, TypeInv, TypeOK
LEMMA OthersKeep ==
    ASSUME TypeInv, NEW b \in Builder, Own(b), NEW c \in Builder \ {b}
    PROVE  Target(c)' = Target(c) /\ Content(c)' = Content(c)
  BY TargetSame DEF Own

LEMMA StepsRun == ASSUME NEW b \in Builder, Step(b) PROVE pc[b] \in Active
  BY DEF Step, SkipBridge, Codegen, Cxxgen, CodegenFails, OfferName, ClaimName, ReofferName,
     NextNumber, GrabNumber, ResolveTarget, RecordWrite, Compare, Stage, Persist, WriteFails,
     ForgetWrite, Active

(* The directory only changes where a file lands or all of it is removed. *)
LEMMA DiskSteps ==
    ASSUME [Next]_vars
    PROVE  UNCHANGED disk \/ RemoveDir \/ \E b \in Builder : Persist(b)
  <1>1. ASSUME NEW b \in Builder, Step(b) PROVE UNCHANGED disk \/ Persist(b)
    BY <1>1 DEF Step, SkipBridge, Codegen, Cxxgen, CodegenFails, OfferName, ClaimName, ReofferName,
       NextNumber, GrabNumber, ResolveTarget, RecordWrite, Compare, Stage, WriteFails,
       ForgetWrite, directory
  <1> QED
    BY <1>1 DEF Next, Begin, BeginFails, Restart, vars, directory

(* What a rename leaves on the disk: the contents, under a name of the file. *)
LEMMA Landing ==
    ASSUME TypeInv, OwnNames, NEW b \in Builder, Persist(b)
    PROVE  \E name \in Path :
              /\ FileOf[key[b]] \in File
              /\ name \in NamesAfterRename(FileOf[key[b]], key[b])
              /\ FileOf[name] = FileOf[key[b]]
              /\ disk'[FileOf[key[b]]] = [name |-> name, bytes |-> Content(b)]
              /\ disk'[FileOf[key[b]]] # Absent
              /\ \A f \in File \ {FileOf[key[b]]} : disk'[f] = disk[f]
  <1>1. key[b] \in Path /\ FileOf[key[b]] \in File
    BY FileOfAssumption DEF TypeInv, TypeOK
  <1>2. PICK name \in NamesAfterRename(FileOf[key[b]], key[b]) :
          disk' = [disk EXCEPT ![FileOf[key[b]]] = [name |-> name, bytes |-> Content(b)]]
    BY DEF Persist
  <1>3. name \in Path /\ FileOf[name] = FileOf[key[b]]
    BY <1>1 DEF NamesAfterRename, OwnNames, TypeInv, TypeOK, RegistryTypeOK, Entry
  <1>4. /\ disk'[FileOf[key[b]]] = [name |-> name, bytes |-> Content(b)]
        /\ \A f \in File \ {FileOf[key[b]]} : disk'[f] = disk[f]
    BY <1>1, <1>2 DEF TypeInv, TypeOK, RegistryTypeOK
  <1>5. Content(b) \in Bytes
    BY TargetType DEF Persist, Active, TypeInv
  <1> QED
    BY <1>1, <1>3, <1>4, <1>5, AbsentAssumption

LEMMA NamesStay == TypeInv /\ OwnNames /\ [Next]_vars => OwnNames'
  <1> SUFFICES ASSUME TypeInv, OwnNames, [Next]_vars PROVE OwnNames'
    OBVIOUS
  <1>1. CASE UNCHANGED disk
    BY <1>1 DEF OwnNames
  <1>2. CASE RemoveDir
    BY <1>2 DEF RemoveDir, OwnNames
  <1>3. ASSUME NEW b \in Builder, Persist(b) PROVE OwnNames'
    <2>1. PICK name \in Path :
            /\ FileOf[name] = FileOf[key[b]]
            /\ disk'[FileOf[key[b]]] = [name |-> name, bytes |-> Content(b)]
            /\ \A f \in File \ {FileOf[key[b]]} : disk'[f] = disk[f]
      BY <1>3, Landing
    <2> QED
      BY <2>1 DEF OwnNames
  <1> QED
    BY <1>1, <1>2, <1>3, DiskSteps

LEMMA RecordStays == TypeInv /\ RecordLives /\ [Next]_vars => RecordLives'
  <1> SUFFICES ASSUME TypeInv, RecordLives, [Next]_vars PROVE RecordLives'
    OBVIOUS
  <1>1. ASSUME NEW b \in Builder, Step(b) PROVE RecordLives'
    <2>1. b \in Running
      BY <1>1, StepsRun DEF Running
    <2> QED
      BY <1>1, <2>1, StepsAreOwn DEF Own, RecordLives, StaleRecord
  <1>2. ASSUME NEW b \in Builder, Begin(b) PROVE RecordLives'
    BY <1>2 DEF Begin, Open, RecordLives, StaleRecord, registry
  <1>3. ASSUME NEW b \in Builder, BeginFails(b) PROVE RecordLives'
    <2>1. Running' = Running
      BY <1>3 DEF BeginFails, Await, Running, Active, TypeInv, TypeOK
    <2> QED
      BY <1>3, <2>1 DEF BeginFails, RecordLives, StaleRecord, registry, directory
  <1>4. CASE RemoveDir
    BY <1>4 DEF RemoveDir, RecordLives, Running, control
  <1>5. CASE Restart
    BY <1>5 DEF Restart, RecordLives, Running, Active
  <1>6. CASE UNCHANGED vars
    BY <1>6 DEF vars, control, registry, directory, RecordLives, Running, StaleRecord
  <1> QED
    BY <1>1, <1>2, <1>3, <1>4, <1>5, <1>6 DEF Next

LEMMA AloneStays == TypeInv /\ Alone /\ [Next]_vars => Alone'
  <1> SUFFICES ASSUME TypeInv, Alone, [Next]_vars, OneByOne
               PROVE  \A b, c \in Running' : b = c
    BY DEF Alone, OneByOne
  <1>0. \A b, c \in Running : b = c
    BY DEF Alone
  <1>1. ASSUME NEW b \in Builder, Begin(b) PROVE \A c, d \in Running' : c = d
    <2>1. Cardinality(Running) < MaxRunning
      BY <1>1 DEF Begin
    <2>2. Running = {}
      <3> SUFFICES ASSUME NEW c \in Running PROVE FALSE
        OBVIOUS
      <3>1. Running = {c}
        BY <1>0
      <3>2. Cardinality(Running) = 1
        BY <3>1, FS_Singleton
      <3> QED
        BY <2>1, <3>2, BoundsAssumption DEF OneByOne
    <2>3. Running' \subseteq {b}
      BY <1>1, <2>2 DEF Begin, Await, Running, TypeInv, TypeOK
    <2> QED
      BY <2>3
  <1>2. ASSUME NEW b \in Builder, BeginFails(b) \/ Step(b) PROVE Running' \subseteq Running
    <2>1. \A c \in Builder \ {b} : pc'[c] = pc[c]
      BY <1>2, StepsAreOwn DEF Own
    <2>2. pc[b] \notin Active => pc'[b] \notin Active
      BY <1>2, StepsRun DEF BeginFails, Await, TypeInv, TypeOK, Active
    <2> QED
      BY <2>1, <2>2 DEF Running
  <1>3. CASE RemoveDir \/ UNCHANGED vars
    BY <1>0, <1>3 DEF RemoveDir, Running, control, vars
  <1>4. CASE Restart
    BY <1>4 DEF Restart, Running, Active
  <1> QED
    BY <1>0, <1>1, <1>2, <1>3, <1>4 DEF Next
-------------------------------------------------------------------------------
(* A resolved path is another name of the same file. *)
LEMMA ResolvesToFile ==
    ASSUME TypeInv, OwnNames, NEW p \in Path
    PROVE  FileOf[ResolveDestination(p)] = FileOf[p]
  BY FileOfAssumption DEF OwnNames, ResolveDestination

(* Nobody else's steps change what a path resolves to while it is written. *)
LEMMA ResolvesTheSame ==
    ASSUME OneByOne \/ ToldApart, TypeInv, TypeInv', OwnNames, OwnNames', Alone,
           NEW b \in Builder, Step(b) \/ BeginFails(b),
           NEW c \in Builder \ {b}, pc[c] \in Resolved
    PROVE  ResolveDestination(Target(c))' = ResolveDestination(Target(c))
  <1>1. Target(c)' = Target(c) /\ Target(c) \in Path
    BY StepsAreOwn, OthersKeep, TargetType DEF Resolved, Holding, Active, TypeInv
  <1>2. CASE UNCHANGED disk
    BY <1>1, <1>2 DEF ResolveDestination
  <1>3. CASE disk' # disk
    <2>1. Persist(b)
      BY <1>3 DEF Step, BeginFails, SkipBridge, Codegen, Cxxgen, CodegenFails, OfferName, ClaimName,
         ReofferName, NextNumber, GrabNumber, ResolveTarget, RecordWrite, Compare, Stage, WriteFails,
         ForgetWrite, directory
    <2>2. ToldApart
      <3>1. b \in Running /\ c \in Running
        BY <2>1 DEF Persist, Running, Active, Resolved, Holding
      <3> QED
        BY <3>1 DEF Alone
    <2>3. ResolveDestination(Target(c)) = Target(c)
      BY <1>1, <2>2, ResolvesToItself DEF TypeInv
    <2>4. ResolveDestination(Target(c))' = Target(c)'
      BY <1>1, <2>2, FileOfAssumption
         DEF ToldApart, TypeInv, TypeOK, RegistryTypeOK, OwnNames, ResolveDestination, Entry
    <2> QED
      BY <1>1, <2>3, <2>4
  <1> QED
    BY <1>2, <1>3

LEMMA OwnPathSteady ==
    ASSUME TypeInv, Steady, NEW b \in Builder, Step(b) \/ BeginFails(b), pc'[b] \in Resolved
    PROVE  key'[b] = ResolveDestination(Target(b))'
  <1> USE DEF TypeInv, TypeOK
  <1>1. CASE ResolveTarget(b) \/ WriteFails(b)
    <2>1. Target(b)' = Target(b)
      BY <1>1, TargetSame DEF ResolveTarget, WriteFails, Await
    <2> QED
      BY <1>1, <2>1 DEF ResolveTarget, WriteFails, ResolveDestination, directory
  <1>2. CASE RecordWrite(b) \/ Stage(b)
    <2>1. Target(b)' = Target(b) /\ key'[b] = key[b] /\ pc[b] \in Resolved
      BY <1>2, TargetSame DEF RecordWrite, Stage, Await, Resolved, Holding
    <2> QED
      BY <1>2, <2>1 DEF RecordWrite, Stage, Steady, ResolveDestination, directory
  <1>3. CASE Compare(b)
    <2>1. ~AlreadyThere(b)
      BY <1>3, Delivery DEF Compare
    <2>2. Target(b)' = Target(b)
      BY <1>3, <2>1, TargetSame DEF Compare, Await
    <2> QED
      BY <1>3, <2>1, <2>2 DEF Compare, ResolveDestination, directory
  <1>4. CASE Persist(b)
    BY <1>4, Delivery DEF Persist
  <1>5. CASE ForgetWrite(b)
    BY <1>5 DEF ForgetWrite, Await, Resolved, Holding
  <1> QED
    BY <1>1, <1>2, <1>3, <1>4, <1>5, QuietSteps DEF Step, Quiet

LEMMA SteadyStays ==
    ASSUME OneByOne \/ ToldApart, TypeInv, TypeInv', OwnNames, OwnNames', Alone,
           Steady, [Next]_vars
    PROVE  Steady'
  <1>1. ASSUME NEW b \in Builder, Step(b) \/ BeginFails(b) PROVE Steady'
    <2> SUFFICES ASSUME NEW c \in Builder, pc'[c] \in Resolved
                 PROVE  key'[c] = ResolveDestination(Target(c))'
      BY DEF Steady
    <2>1. CASE c = b
      BY <1>1, <2>1, OwnPathSteady
    <2>2. CASE c # b
      <3>1. pc[c] \in Resolved /\ key'[c] = key[c]
        BY <1>1, <2>2, StepsAreOwn DEF Own
      <3> QED
        BY <1>1, <2>2, <3>1, ResolvesTheSame DEF Steady
    <2> QED
      BY <2>1, <2>2
  <1>2. ASSUME NEW b \in Builder, Begin(b) PROVE Steady'
    <2> SUFFICES ASSUME NEW c \in Builder, pc'[c] \in Resolved
                 PROVE  key'[c] = ResolveDestination(Target(c))'
      BY DEF Steady
    <2>1. pc[c] \in Resolved
      BY <1>2 DEF Begin, Await, TypeInv, TypeOK, Resolved, Holding
    <2>2. Target(c)' = Target(c)
      BY <1>2, TargetSame DEF Begin, Await
    <2> QED
      BY <1>2, <2>1, <2>2 DEF Begin, Steady, ResolveDestination
  <1>3. CASE RemoveDir
    BY <1>3 DEF RemoveDir, Steady, Running, Active, Resolved, Holding, control
  <1>4. CASE Restart
    BY <1>4 DEF Restart, Steady, Resolved, Holding
  <1>5. CASE UNCHANGED vars
    <2>1. \A c \in Builder : Target(c)' = Target(c)
      BY <1>5, TargetSame DEF vars, control
    <2> QED
      BY <1>5, <2>1 DEF vars, control, directory, Steady, ResolveDestination
  <1> QED
    BY <1>1, <1>2, <1>3, <1>4, <1>5 DEF Next

-------------------------------------------------------------------------------
(* A step of b leaves everybody holding what they hold, if b itself does. *)
LEMMA StillHeld ==
    ASSUME TypeInv, NEW b \in Builder, Own(b), out[b] \subseteq out'[b],
           NEW c \in Builder, NEW p, NEW bytes, HeldBy(c, p, bytes),
           pc[b] \in Holding /\ key[b] = p /\ Content(b) = bytes => HeldBy(b, p, bytes)'
    PROVE  HeldBy(c, p, bytes)'
  <1>1. CASE c = b
    BY <1>1 DEF HeldBy
  <1>2. CASE c # b
    <2>1. pc'[c] = pc[c] /\ key'[c] = key[c] /\ out'[c] = out[c]
      BY <1>2 DEF Own
    <2>2. Content(c)' = Content(c)
      BY <1>2, OthersKeep
    <2> QED
      BY <2>1, <2>2 DEF HeldBy
  <1> QED
    BY <1>1, <1>2
(* A file b has delivered is held by b, under the key it was recorded at. *)
LEMMA DeliveredIsHeld ==
    ASSUME TypeInv, OwnNames, Steady, NEW b \in Builder, pc[b] \in {"compare", "persist"},
           Delivered(b)
    PROVE  \A p, bytes : p = key[b] /\ bytes = Content(b) => HeldBy(b, p, bytes)'
  <1>1. Target(b) \in Path /\ key[b] = ResolveDestination(Target(b))
    BY TargetType DEF Steady, Resolved, Holding, Active, TypeInv
  <1>2. FileOf[Target(b)] = FileOf[key[b]]
    BY <1>1, ResolvesToFile
  <1>3. Written(b) \in out'[b] /\ Written(b) = [path |-> Target(b), bytes |-> Content(b)]
    BY Delivery DEF Written
  <1> QED
    BY <1>2, <1>3 DEF HeldBy

(* What a step which records nothing leaves b holding. *)
LEMMA KeepsHolding ==
    ASSUME TypeInv, OwnNames, Steady, NEW b \in Builder, pc[b] \in Holding,
           Compare(b) \/ Stage(b) \/ Persist(b) \/ WriteFails(b)
    PROVE  /\ \A p, bytes : p = key[b] /\ bytes = Content(b) => HeldBy(b, p, bytes)'
           /\ out[b] \subseteq out'[b] /\ written' = written
  <1>a. key[b] = ResolveDestination(Target(b))
    BY DEF Steady, Resolved
  <1>1. CASE Compare(b)
    <2>1. CASE AlreadyThere(b)
      BY <1>1, <2>1, Delivery, DeliveredIsHeld DEF Compare, registry
    <2>2. CASE ~AlreadyThere(b)
      <3>1. Content(b)' = Content(b) /\ key'[b] = key[b] /\ pc'[b] = "stage"
        BY <1>a, <1>1, <2>2, TargetSame DEF Compare, Await, TypeInv, TypeOK
      <3> QED
        BY <1>1, <2>2, <3>1 DEF Compare, HeldBy, Holding, registry
    <2> QED
      BY <2>1, <2>2
  <1>2. CASE Stage(b) \/ WriteFails(b)
    <2>1. Content(b)' = Content(b) /\ key'[b] = key[b] /\ pc'[b] \in Holding
      BY <1>a, <1>2, TargetSame DEF Stage, WriteFails, Await, TypeInv, TypeOK, Holding
    <2> QED
      BY <1>2, <2>1 DEF Stage, WriteFails, HeldBy, registry
  <1>3. CASE Persist(b)
    BY <1>3, Delivery, DeliveredIsHeld DEF Persist, registry
  <1> QED
    BY <1>1, <1>2, <1>3

LEMMA OwnersStay ==
    ASSUME OneByOne \/ ToldApart, TypeInv, HeldInv, [Next]_vars
    PROVE  OwnersHold'
  <1> USE DEF HeldInv
  <1>a. \A p \in Path : written[p] # Unwritten => written[p].builder \in Builder
    BY DEF TypeInv, TypeOK, RegistryTypeOK, GeneratedFile
  <1>1. ASSUME NEW b \in Builder, Step(b) \/ BeginFails(b) PROVE OwnersHold'
    <2> SUFFICES ASSUME markerWritten', marker', NEW p \in Path, written'[p] # Unwritten,
                        NEW c, c = written'[p].builder, NEW bytes, bytes = written'[p].bytes
                 PROVE  HeldBy(c, p, bytes)'
      BY DEF OwnersHold
    <2>1. Own(b) /\ markerWritten /\ marker
      BY <1>1, StepsAreOwn DEF Own
    <2>2. ASSUME written'[p] = written[p], out[b] \subseteq out'[b],
                 pc[b] \in Holding /\ key[b] = p /\ Content(b) = bytes => HeldBy(b, p, bytes)'
          PROVE  HeldBy(c, p, bytes)'
      <3>1. HeldBy(c, p, bytes) /\ c \in Builder
        BY <1>a, <2>1, <2>2 DEF OwnersHold
      <3> QED
        BY <2>1, <2>2, <3>1, StillHeld
    <2>3. CASE Quiet(b) \/ ResolveTarget(b)
      BY <2>2, <2>3 DEF Quiet, ResolveTarget, Resolved, Holding, registry
    <2>4. CASE RecordWrite(b)
      <3>1. out' = out /\ pc[b] \notin Holding
        BY <2>4 DEF RecordWrite, Holding
      <3>2. CASE written'[p] = written[p]
        BY <2>2, <3>1, <3>2
      <3>3. CASE written'[p] # written[p]
        <4>1. /\ p = key[b] /\ written'[p] = [builder |-> b, bytes |-> Content(b)]
              /\ pc' = [pc EXCEPT ![b] = "compare"]
          BY <2>4, <3>3 DEF RecordWrite, Record, Await, registry, TypeInv, TypeOK, RegistryTypeOK
        <4>2. key'[b] = key[b] /\ Content(b)' = Content(b)
          BY <2>4, <4>1, TargetSame DEF RecordWrite, Await
        <4> QED
          BY <4>1, <4>2 DEF HeldBy, Holding, TypeInv, TypeOK
      <3> QED
        BY <3>2, <3>3
    <2>5. CASE Compare(b) \/ Stage(b) \/ Persist(b) \/ WriteFails(b)
      <3>1. pc[b] \in Holding
        BY <2>5 DEF Compare, Stage, Persist, WriteFails, Holding
      <3>2. /\ \A q, x : q = key[b] /\ x = Content(b) => HeldBy(b, q, x)'
            /\ out[b] \subseteq out'[b] /\ written' = written
        BY <2>5, <3>1, KeepsHolding
      <3> QED
        BY <2>2, <3>2
    <2>6. CASE ForgetWrite(b)
      <3>1. present
        BY <2>6 DEF ForgetWrite, RecordLives, Running, Active
      <3>2. written'[p] = written[p] /\ ~(c = b /\ key[b] = p)
        BY <2>6, <3>1 DEF ForgetWrite, Forget, TypeInv, TypeOK, RegistryTypeOK
      <3>3. HeldBy(c, p, bytes) /\ c \in Builder
        BY <1>a, <2>1, <3>2 DEF OwnersHold
      <3>4. CASE c = b
        BY <2>6, <3>2, <3>3, <3>4 DEF HeldBy, ForgetWrite
      <3>5. CASE c # b
        BY <2>1, <3>3, <3>5, OthersKeep DEF HeldBy, Own
      <3> QED
        BY <3>4, <3>5
    <2> QED
      BY <1>1, <2>3, <2>4, <2>5, <2>6, QuietSteps DEF Step
  <1>2. ASSUME NEW b \in Builder, Begin(b) PROVE OwnersHold'
    <2>1. CASE UNCHANGED <<registry, marker>>
      <3>1. /\ UNCHANGED <<out, key, at, fname, chosen>>
            /\ \A c \in Builder : Content(c)' = Content(c) /\ (pc[c] \in Holding => pc'[c] = pc[c])
        BY <1>2, TargetSame DEF Begin, Await, Holding, TypeInv, TypeOK
      <3> QED
        BY <1>a, <2>1, <3>1 DEF OwnersHold, HeldBy, registry
    <2>2. CASE ~UNCHANGED <<registry, marker>>
      <3>1. written' = NothingWritten
        BY <1>2, <2>2 DEF Begin, Open
      <3> QED
        BY <3>1 DEF OwnersHold, NothingWritten
    <2> QED
      BY <2>1, <2>2
  <1>3. CASE RemoveDir
    BY <1>3 DEF RemoveDir, OwnersHold
  <1>4. CASE Restart
    BY <1>4 DEF Restart, OwnersHold, NothingWritten
  <1>5. CASE UNCHANGED vars
    <2>1. \A c \in Builder : Content(c)' = Content(c)
      BY <1>5, TargetSame DEF vars, control
    <2> QED
      BY <1>a, <1>5, <2>1 DEF vars, control, registry, directory, OwnersHold, HeldBy
  <1> QED
    BY <1>1, <1>2, <1>3, <1>4, <1>5 DEF Next

LEMMA InitHeldInv == Init => HeldInv
  BY DEF Init, NothingBuilt, EmptyRegistry, NothingWritten, HeldInv, OwnNames, RecordLives, Alone,
     Steady, OwnersHold, Running, Active, Resolved, Holding

LEMMA NextHeldInv ==
    ASSUME OneByOne \/ ToldApart, TypeInv, HeldInv, [Next]_vars
    PROVE  HeldInv'
  <1>1. TypeInv' /\ OwnNames'
    BY NextTypeInv, NamesStay DEF HeldInv
  <1>2. Steady'
    BY <1>1, SteadyStays DEF HeldInv
  <1> QED
    BY <1>1, <1>2, RecordStays, AloneStays, OwnersStay DEF HeldInv

(* Only the record refuses a builder. *)
LEMMA RefusedAtRecord ==
    ASSUME TypeInv, [Next]_vars, NEW b \in Builder, pc[b] # "refused", pc'[b] = "refused"
    PROVE  RecordWrite(b) /\ Collides(key[b], Content(b))
  <1>1. ~RemoveDir /\ ~Restart /\ ~UNCHANGED vars
    BY DEF RemoveDir, Restart, vars, control
  <1>2. ASSUME NEW c \in Builder, Begin(c) PROVE FALSE
    BY <1>2 DEF Begin, Await, TypeInv, TypeOK
  <1>3. PICK d \in Builder : BeginFails(d) \/ Step(d)
    BY <1>1, <1>2 DEF Next
  <1>4. BeginFails(b) \/ Step(b)
    BY <1>3, StepsAreOwn DEF Own
  <1>5. RecordWrite(b)
    <2>1. ~Quiet(b)
      BY DEF Quiet
    <2>2. ~ResolveTarget(b) /\ ~Stage(b) /\ ~WriteFails(b) /\ ~ForgetWrite(b)
      BY DEF ResolveTarget, Stage, WriteFails, ForgetWrite, Await, TypeInv, TypeOK
    <2>3. ~Persist(b)
      BY Delivery DEF Persist
    <2>4. ~Compare(b)
      BY Delivery DEF Compare, Await, TypeInv, TypeOK
    <2> QED
      BY <1>4, <2>1, <2>2, <2>3, <2>4, QuietSteps DEF Step
  <1> QED
    BY <1>5 DEF RecordWrite, Await, TypeInv, TypeOK

(* Whoever is refused was about to write other contents than somebody has, or  *)
(* is writing, in the directory as it is now.                                  *)
LEMMA RefusedByTheRecord ==
    ASSUME TypeInv, HeldInv, [Next]_vars,
           NEW b \in Builder, pc[b] # "refused", pc'[b] = "refused"
    PROVE  HeldByAnother(b) \/ ~markerWritten
  <1>1. RecordWrite(b)
    BY RefusedAtRecord
  <1>2. Collides(key[b], Content(b))
    BY RefusedAtRecord
  <1>3. key[b] \in Path /\ Target(b) \in Path /\ FileOf[key[b]] = FileOf[Target(b)]
    <2>1. key[b] = ResolveDestination(Target(b)) /\ Target(b) \in Path
      BY <1>1, TargetType DEF RecordWrite, HeldInv, Steady, Resolved, Active, TypeInv
    <2> QED
      BY <2>1, ResolvesToFile DEF HeldInv, TypeInv, TypeOK
  <1>4. CASE markerWritten
    <2>1. marker
      BY <1>1, <1>4 DEF RecordWrite, HeldInv, RecordLives, StaleRecord, Running, Active
    <2>2. PICK c \in Builder : HeldBy(c, key[b], written[key[b]].bytes)
      BY <1>2, <1>3, <1>4, <2>1
         DEF Collides, HeldInv, OwnersHold, TypeInv, TypeOK, RegistryTypeOK, GeneratedFile
    <2>3. CASE \E w \in out[c] : FileOf[w.path] = FileOf[key[b]] /\ w.bytes = written[key[b]].bytes
      BY <1>2, <1>3, <2>3 DEF Collides, HeldByAnother
    <2>4. CASE pc[c] \in Holding /\ key[c] = key[b] /\ Content(c) = written[key[b]].bytes
      <3>1. key[c] = ResolveDestination(Target(c)) /\ Target(c) \in Path
        BY <2>4, TargetType DEF HeldInv, Steady, Resolved, Holding, Active, TypeInv
      <3>2. FileOf[Target(c)] = FileOf[Target(b)]
        BY <1>3, <2>4, <3>1, ResolvesToFile DEF HeldInv
      <3> QED
        BY <1>2, <2>4, <3>2 DEF Collides, HeldByAnother, Holding
    <2> QED
      BY <2>2, <2>3, <2>4 DEF HeldBy
  <1> QED
    BY <1>4

(* A refusal names a conflict which is there: where builders run one at a time *)
(* or spellings are told apart, whatever fails and however often the process   *)
(* is killed or the directory removed.                                         *)
THEOREM RefusalsHaveGrounds == ASSUME OneByOne \/ ToldApart PROVE Spec => RefusalsAreJust
  <1>1. TypeInv /\ HeldInv /\ [Next]_vars => HeldInv'
    BY NextHeldInv
  <1>2. TypeInv /\ HeldInv /\ [Next]_vars =>
          [\A b \in Builder :
              pc[b] # "refused" /\ pc'[b] = "refused" => HeldByAnother(b) \/ ~markerWritten]_vars
    BY RefusedByTheRecord
  <1> QED
    BY InitTypeInv, NextTypeInv, InitHeldInv, <1>1, <1>2, PTL DEF Spec, RefusalsAreJust
-------------------------------------------------------------------------------
(* While b runs, nobody else does. *)
LEMMA OthersRest ==
    ASSUME OneByOne, Alone, TypeInv, NEW b \in Builder, Step(b), NEW c \in Builder \ {b}
    PROVE  pc[c] \notin Active /\ pc'[c] \notin Holding
  <1>1. pc[c] \notin Active
    BY StepsRun DEF Alone, Running
  <1> QED
    BY <1>1, StepsAreOwn DEF Own, Active, Holding

(* A write in turn stays as it was recorded until it is done or given up. *)
LEMMA TurnWriteStays ==
    ASSUME TypeInv, TurnInv, NEW b \in Builder,
           Stage(b) \/ WriteFails(b) \/ (Compare(b) /\ ~AlreadyThere(b))
    PROVE  /\ OnRecord(key[b], Content(b))' /\ ~AlreadyThere(b)'
           /\ UNCHANGED <<disk, written, out>>
  <1>1. key[b] = ResolveDestination(Target(b))
    BY DEF TurnInv, HeldInv, Steady, Stage, WriteFails, Compare, Resolved, Holding
  <1>2. Target(b)' = Target(b) /\ Content(b)' = Content(b) /\ key'[b] = key[b]
    BY <1>1, TargetSame DEF Stage, WriteFails, Compare, Await, TypeInv, TypeOK
  <1>3. UNCHANGED <<disk, written, out>>
    BY DEF Stage, WriteFails, Compare, registry, directory
  <1>4. OnRecord(key[b], Content(b)) /\ ~AlreadyThere(b)
    BY DEF TurnInv, HeldOnRecord, NotThereYet, Stage, WriteFails, Compare, Holding
  <1> QED
    BY <1>2, <1>3, <1>4 DEF OnRecord, AlreadyThere

(* What goes on record stays beside what was there. *)
LEMMA RecordAdds ==
    ASSUME TypeInv, TurnInv, NEW b \in Builder, RecordWrite(b), pc'[b] \in Holding
    PROVE  /\ OnRecord(key[b], Content(b))' /\ pc'[b] = "compare"
           /\ \A p \in Path : \A bytes : OnRecord(p, bytes) => OnRecord(p, bytes)'
  <1>1. present
    BY DEF RecordWrite, TurnInv, HeldInv, RecordLives, Running, Active
  <1>2. Record(b, key[b], Content(b)) /\ ~Collides(key[b], Content(b)) /\ pc'[b] = "compare"
    BY DEF RecordWrite, Await, Holding, TypeInv, TypeOK
  <1>3. Content(b)' = Content(b) /\ key'[b] = key[b] /\ key[b] \in Path
    BY TargetSame DEF RecordWrite, Await, TypeInv, TypeOK
  <1>4. [builder |-> b, bytes |-> Content(b)] # Unwritten
    BY TargetType, UnwrittenAssumption DEF RecordWrite, Active, TypeInv
  <1>5. OnRecord(key[b], Content(b))'
    BY <1>1, <1>2, <1>3, <1>4 DEF Record, Collides, OnRecord, TypeInv, TypeOK, RegistryTypeOK
  <1>6. \A p \in Path : written[p] # Unwritten => written'[p] = written[p]
    BY <1>2 DEF Record, TypeInv, TypeOK, RegistryTypeOK
  <1> QED
    BY <1>2, <1>5, <1>6 DEF OnRecord

(* In turn, a file lands under the key it was recorded at. *)
LEMMA LandsOnItsKey ==
    ASSUME TypeInv, TurnInv, NEW b \in Builder, Persist(b)
    PROVE  /\ FileOf[key[b]] = FileOf[Target(b)]
           /\ disk'[FileOf[key[b]]] = [name |-> key[b], bytes |-> Content(b)]
           /\ disk'[FileOf[key[b]]] # Absent
           /\ \A f \in File \ {FileOf[key[b]]} : disk'[f] = disk[f]
  <1>1. key[b] = ResolveDestination(Target(b)) /\ Target(b) \in Path
    BY TargetType DEF Persist, TurnInv, HeldInv, Steady, Resolved, Holding, Active, TypeInv
  <1>2. FileOf[key[b]] = FileOf[Target(b)]
    BY <1>1, ResolvesToFile DEF TurnInv, HeldInv
  <1>3. NamesAfterRename(FileOf[key[b]], key[b]) = {key[b]}
    BY <1>1, <1>2 DEF NamesAfterRename, ResolveDestination
  <1> QED
    BY <1>2, <1>3, Landing DEF TurnInv, HeldInv

(* What was written and lies there says what b is writing, or is another file. *)
LEMMA OnlySameBytesThere ==
    ASSUME TypeInv, TurnInv, NEW b \in Builder, pc[b] \in Holding,
           NEW c \in Builder, NEW w \in out[c], FileOf[w.path] = FileOf[Target(b)]
    PROVE  AlreadyThere(b) /\ w.bytes = Content(b)
  <1>1. key[b] = ResolveDestination(Target(b)) /\ OnRecord(key[b], Content(b))
    BY DEF TurnInv, HeldInv, Steady, HeldOnRecord, Resolved
  <1> QED
    BY <1>1 DEF TurnInv, OutOnRecord, OnRecord, ResolveDestination, AlreadyThere

LEMMA DeliveredOnRecord ==
    ASSUME TypeInv, TurnInv, NEW b \in Builder, Persist(b) \/ (Compare(b) /\ AlreadyThere(b))
    PROVE  OutOnRecord'
  <1>1. Delivered(b) /\ written' = written /\ pc[b] \in {"compare", "persist"}
    BY DEF Persist, Compare, registry
  <1>2. /\ out'[b] = out[b] \cup {Written(b)}
        /\ \A c \in Builder \ {b} : out'[c] = out[c]
    BY <1>1, Delivery
  <1>3. /\ Target(b) \in Path /\ FileOf[Target(b)] \in File
        /\ key[b] = ResolveDestination(Target(b)) /\ OnRecord(key[b], Content(b))
    BY <1>1, TargetType, FileOfAssumption
       DEF TurnInv, HeldInv, HeldOnRecord, Steady, Resolved, Holding, Active, TypeInv
  <1>4. /\ disk'[FileOf[Target(b)]] # Absent
        /\ disk'[FileOf[Target(b)]].bytes = Content(b)
        /\ disk'[FileOf[Target(b)]].name = key[b]
        /\ \A f \in File \ {FileOf[Target(b)]} : disk'[f] = disk[f]
    <2>1. CASE Persist(b)
      <3>1. FileOf[key[b]] = FileOf[Target(b)]
        BY <2>1, LandsOnItsKey
      <3>2. disk'[FileOf[Target(b)]] = [name |-> key[b], bytes |-> Content(b)]
        BY <2>1, <3>1, LandsOnItsKey
      <3> QED
        BY <2>1, <3>1, <3>2, LandsOnItsKey
    <2>2. CASE Compare(b) /\ AlreadyThere(b)
      BY <1>3, <2>2 DEF Compare, AlreadyThere, ResolveDestination, directory
    <2> QED
      BY <2>1, <2>2
  <1> SUFFICES ASSUME NEW c \in Builder, NEW w \in out'[c]
               PROVE  /\ disk'[FileOf[w.path]] # Absent
                      /\ disk'[FileOf[w.path]].bytes = w.bytes
                      /\ OnRecord(disk'[FileOf[w.path]].name, w.bytes)
    BY <1>1 DEF OutOnRecord, OnRecord
  <1>5. CASE w \in out[c] /\ FileOf[w.path] # FileOf[Target(b)]
    <2>1. FileOf[w.path] \in File
      BY <1>5, FileOfAssumption DEF TypeInv, TypeOK
    <2> QED
      BY <1>4, <1>5, <2>1 DEF TurnInv, OutOnRecord
  <1>6. CASE w \in out[c] /\ FileOf[w.path] = FileOf[Target(b)]
    <2>1. w.bytes = Content(b)
      BY <1>1, <1>6, OnlySameBytesThere DEF Holding
    <2> QED
      BY <1>3, <1>4, <1>6, <2>1
  <1>7. CASE w \notin out[c]
    BY <1>2, <1>3, <1>4, <1>7 DEF Written
  <1> QED
    BY <1>5, <1>6, <1>7

LEMMA InitTurnInv == Init => TurnInv
  BY InitHeldInv DEF Init, NothingBuilt, TurnInv, HeldOnRecord, NotThereYet, OutOnRecord, Holding

LEMMA NextTurnInv ==
    ASSUME OneByOne, TypeInv, TurnInv, [Next]_vars
    PROVE  TurnInv'
  <1> USE DEF TurnInv
  <1>a. HeldInv'
    BY NextHeldInv
  <1>1. ASSUME NEW b \in Builder, Quiet(b) \/ ResolveTarget(b), Step(b) \/ BeginFails(b)
        PROVE  TurnInv'
    <2>1. UNCHANGED <<disk, written, out>> /\ pc'[b] \notin Holding /\ Own(b)
      BY <1>1, StepsAreOwn
         DEF Quiet, ResolveTarget, Await, Resolved, Holding, registry, directory, TypeInv, TypeOK
    <2>2. \A c \in Builder : pc'[c] \in Holding =>
            /\ pc'[c] = pc[c] /\ key'[c] = key[c]
            /\ Target(c)' = Target(c) /\ Content(c)' = Content(c)
      BY <2>1, OthersKeep DEF Own
    <2> QED
      BY <1>a, <2>1, <2>2 DEF HeldOnRecord, NotThereYet, OutOnRecord, OnRecord, AlreadyThere
  <1>2. ASSUME NEW b \in Builder, RecordWrite(b) PROVE TurnInv'
    <2>1. UNCHANGED <<disk, out>> /\ \A c \in Builder \ {b} : pc'[c] \notin Holding
      BY <1>2, OthersRest DEF Step, HeldInv, RecordWrite, directory
    <2>2. CASE pc'[b] \in Holding
      <3>1. OutOnRecord'
        <4> SUFFICES ASSUME NEW c \in Builder, NEW w \in out[c]
                     PROVE  OnRecord(disk[FileOf[w.path]].name, w.bytes)'
          BY <2>1 DEF OutOnRecord
        <4>1. FileOf[w.path] \in File /\ OnRecord(disk[FileOf[w.path]].name, w.bytes)
          BY FileOfAssumption DEF OutOnRecord, TypeInv, TypeOK
        <4>2. disk[FileOf[w.path]].name \in Path
          BY <4>1 DEF OutOnRecord, TypeInv, TypeOK, RegistryTypeOK, Entry
        <4> QED
          BY <1>2, <2>1, <2>2, <4>1, <4>2, RecordAdds DEF OnRecord
      <3>2. HeldOnRecord' /\ NotThereYet'
        BY <1>2, <2>1, <2>2, RecordAdds DEF HeldOnRecord, NotThereYet
      <3> QED
        BY <1>a, <3>1, <3>2
    <2>3. CASE pc'[b] \notin Holding
      <3>1. written' = written
        BY <1>2, <2>3 DEF RecordWrite, Await, Holding, registry, TypeInv, TypeOK
      <3> QED
        BY <1>a, <2>1, <2>3, <3>1 DEF HeldOnRecord, NotThereYet, OutOnRecord, OnRecord
    <2> QED
      BY <2>2, <2>3
  <1>3. ASSUME NEW b \in Builder,
               Stage(b) \/ WriteFails(b) \/ (Compare(b) /\ ~AlreadyThere(b))
        PROVE  TurnInv'
    <2>1. \A c \in Builder \ {b} : pc'[c] \notin Holding
      BY <1>3, OthersRest DEF Step, HeldInv
    <2> QED
      BY <1>a, <1>3, <2>1, TurnWriteStays DEF HeldOnRecord, NotThereYet, OutOnRecord, OnRecord
  <1>4. ASSUME NEW b \in Builder, Persist(b) \/ (Compare(b) /\ AlreadyThere(b)) PROVE TurnInv'
    <2>1. \A c \in Builder : pc'[c] \notin Holding
      BY <1>4, OthersRest, Delivery DEF Step, HeldInv, Persist, Compare, Resolved
    <2> QED
      BY <1>a, <1>4, <2>1, DeliveredOnRecord DEF HeldOnRecord, NotThereYet
  <1>5. ASSUME NEW b \in Builder, ForgetWrite(b) PROVE TurnInv'
    <2>1. /\ \A c \in Builder : pc'[c] \notin Holding
          /\ UNCHANGED <<disk, out>> /\ pc[b] \in Holding
      BY <1>5, OthersRest DEF Step, HeldInv, ForgetWrite, Await, Holding, directory, TypeInv, TypeOK
    <2>2. \A p \in Path \ {key[b]} : written'[p] = written[p]
      BY <1>5 DEF ForgetWrite, Forget, TypeInv, TypeOK, RegistryTypeOK
    <2>3. ~AlreadyThere(b)
      BY <1>5 DEF ForgetWrite, NotThereYet, Holding
    <2>4. Target(b) \in Path /\ key[b] = ResolveDestination(Target(b))
      BY <1>5, TargetType DEF ForgetWrite, HeldInv, Steady, Resolved, Holding, Active, TypeInv
    <2>5. ASSUME NEW c \in Builder, NEW w \in out[c]
          PROVE  disk[FileOf[w.path]].name \in Path \ {key[b]}
      <3>1. FileOf[w.path] # FileOf[Target(b)] /\ FileOf[w.path] \in File
        BY <2>1, <2>3, OnlySameBytesThere, FileOfAssumption DEF TypeInv, TypeOK
      <3>2. /\ disk[FileOf[w.path]] # Absent /\ disk[FileOf[w.path]].name \in Path
            /\ FileOf[disk[FileOf[w.path]].name] = FileOf[w.path]
        BY <3>1 DEF OutOnRecord, HeldInv, OwnNames, TypeInv, TypeOK, RegistryTypeOK, Entry
      <3>3. FileOf[key[b]] = FileOf[Target(b)]
        BY <2>4, ResolvesToFile DEF HeldInv
      <3> QED
        BY <3>1, <3>2, <3>3
    <2>6. OutOnRecord'
      BY <2>1, <2>2, <2>5 DEF OutOnRecord, OnRecord
    <2> QED
      BY <1>a, <2>1, <2>6 DEF HeldOnRecord, NotThereYet
  <1>6. ASSUME NEW b \in Builder, Begin(b) PROVE TurnInv'
    <2>1. /\ UNCHANGED <<disk, out, key, at, fname, chosen>>
          /\ \A c \in Builder : pc'[c] \in Holding => pc'[c] = pc[c]
      BY <1>6 DEF Begin, Await, Holding, TypeInv, TypeOK
    <2>2. \A c \in Builder : Target(c)' = Target(c) /\ Content(c)' = Content(c)
      BY <2>1, TargetSame
    <2>3. CASE written' = written
      BY <1>a, <2>1, <2>2, <2>3 DEF HeldOnRecord, NotThereYet, OutOnRecord, OnRecord, AlreadyThere
    <2>4. CASE written' # written
      <3>1. \A c \in Builder : pc[c] \notin Active /\ out[c] = {}
        BY <1>6, <2>4 DEF Begin, Open, HeldInv, RecordLives, Running, registry
      <3> QED
        BY <1>a, <2>1, <3>1 DEF HeldOnRecord, NotThereYet, OutOnRecord, Holding, Active
    <2> QED
      BY <2>3, <2>4
  <1>7. CASE RemoveDir
    BY <1>a, <1>7 DEF RemoveDir, HeldOnRecord, NotThereYet, OutOnRecord, Running, Active, Holding, control
  <1>8. CASE Restart
    BY <1>a, <1>8 DEF Restart, HeldOnRecord, NotThereYet, OutOnRecord, Holding
  <1>9. CASE UNCHANGED vars
    <2>1. \A c \in Builder : Target(c)' = Target(c) /\ Content(c)' = Content(c)
      BY <1>9, TargetSame DEF vars, control
    <2> QED
      BY <1>a, <1>9, <2>1 DEF vars, control, registry, directory, HeldOnRecord, NotThereYet,
         OutOnRecord, OnRecord, AlreadyThere
  <1> QED
    BY <1>1, <1>2, <1>3, <1>4, <1>5, <1>6, <1>7, <1>8, <1>9, QuietSteps DEF Next, Step

(* Builders which run one at a time find the files they reported, on any       *)
(* filesystem, whichever write fails and whoever removes or restarts what.     *)
THEOREM FilesAreKeptInTurn == ASSUME OneByOne PROVE Spec => []KeepsItsFiles
  <1>1. TypeInv /\ TurnInv /\ [Next]_vars => TurnInv'
    BY NextTurnInv
  <1>2. TurnInv => KeepsItsFiles
    BY DEF TurnInv, OutOnRecord, KeepsItsFiles
  <1> QED
    BY InitTypeInv, NextTypeInv, InitTurnInv, <1>1, <1>2, PTL DEF Spec

(* What changes on the disk while builders run is a rename, of recorded bytes. *)
LEMMA LandedIsRecorded ==
    ASSUME TypeInv, OwnNames, [Next]_vars, Running # {},
           \A b \in Builder : pc[b] = "persist" => OnRecord(key[b], Content(b)),
           NEW f \in File, disk'[f] # disk[f]
    PROVE  \E p \in Path : /\ FileOf[p] = f
                           /\ written[p] # Unwritten
                           /\ disk'[f] # Absent
                           /\ disk'[f].bytes = written[p].bytes
  <1>1. PICK b \in Builder : Persist(b)
    BY DiskSteps DEF RemoveDir
  <1>2. f = FileOf[key[b]] /\ disk'[f] # Absent /\ disk'[f].bytes = Content(b) /\ key[b] \in Path
    <2>1. PICK name \in Path :
            /\ disk'[FileOf[key[b]]] = [name |-> name, bytes |-> Content(b)]
            /\ disk'[FileOf[key[b]]] # Absent
            /\ \A g \in File \ {FileOf[key[b]]} : disk'[g] = disk[g]
      BY <1>1, Landing
    <2>2. f = FileOf[key[b]] /\ key[b] \in Path
      BY <2>1 DEF TypeInv, TypeOK
    <2> QED
      BY <2>1, <2>2
  <1>3. OnRecord(key[b], Content(b))
    BY <1>1 DEF Persist
  <1> QED
    BY <1>2, <1>3 DEF OnRecord

(* A file changes to complete and recorded contents only: with builders one at *)
(* a time always, and with many of them where writes succeed.                  *)
THEOREM OnlyWholeFilesLand ==
    ASSUME OneByOne \/ Dependable PROVE Spec => OnlyRecordedBytesLand
  <1> DEFINE Lands == [\A f \in File :
          disk'[f] # disk[f] /\ Running # {} =>
              \E p \in Path : /\ FileOf[p] = f
                              /\ written[p] # Unwritten
                              /\ disk'[f] # Absent
                              /\ disk'[f].bytes = written[p].bytes]_vars
  <1>1. CASE OneByOne
    <2>1. TypeInv /\ TurnInv /\ [Next]_vars => TurnInv'
      BY <1>1, NextTurnInv
    <2>2. TypeInv /\ TurnInv /\ [Next]_vars => Lands
      BY LandedIsRecorded DEF TurnInv, HeldInv, HeldOnRecord, Holding
    <2> QED
      BY InitTypeInv, NextTypeInv, InitTurnInv, <2>1, <2>2, PTL DEF Spec, OnlyRecordedBytesLand
  <1>2. CASE Dependable
    <2>1. TypeInv /\ FilesInv /\ [Next]_vars => FilesInv'
      BY <1>2, NextFilesInv
    <2>2. TypeInv /\ FilesInv /\ [Next]_vars => Lands
      BY LandedIsRecorded DEF FilesInv, KeysResolved, WritesRecorded, Writing
    <2> QED
      BY InitTypeInv, NextTypeInv, InitFilesInv, <2>1, <2>2, PTL DEF Spec, OnlyRecordedBytesLand
  <1> QED
    BY <1>1, <1>2
-------------------------------------------------------------------------------
(* A name autocxx chose for a builder, a gen number or a cxxgen header, is     *)
(* nobody else's.                                                              *)

(* The names the input decides on, by name! or a caller's path. *)
NamedBy(b) == UNION {{Blocks[b][i].extra, Blocks[b][i].rs} : i \in 1..Len(Blocks[b])}
UserNamed == {CxxH, NoPath} \cup UNION {NamedBy(b) : b \in Builder}
GenNames == {GenName[n] : n \in 0..MaxNumber}
Offers(b) == {Offer[b][n] : n \in 0..MaxNumber}

(* The three kinds of names are apart, as autocxx's own namers have them. *)
NamesApart ==
    /\ GenNames \cap UserNamed = {}
    /\ \A b \in Builder : Offers(b) \cap (UserNamed \cup GenNames) = {}

(* A namer which never repeats itself; one which does keeps to its own names. *)
NeverRepeats(b) == \A m, n \in 0..MaxNumber : m # n => Offer[b][m] # Offer[b][n]
RepeatersKeepApart ==
    \A b, c \in Builder : b # c => NeverRepeats(b) \/ Offers(b) \cap Offers(c) = {}

-------------------------------------------------------------------------------
(* A path resolves to itself: what is claimed is what was asked for. *)
KeysAreNames ==
    \A b \in Builder :
        /\ pc[b] = "claim" => key[b] = chosen[b][at[b].block]
        /\ pc[b] = "grab" => key[b] = fname[b]

(* What was written is taken. *)
WrittenIsTaken == \A p \in Path : written[p] # Unwritten => p \in taken

(* A gen number is its builder's until the file of that number is written. *)
HasNumber(b) ==
    /\ pc[b] \in Resolved \cup {"resolve"}
    /\ at[b].doing = "impl"
NumbersAreOwn ==
    \A b \in Builder :
        /\ pc[b] = "grab" \/ HasNumber(b) => fname[b] \in GenNames
        /\ HasNumber(b) =>
              /\ fname[b] \in taken
              /\ written[fname[b]] # Unwritten => written[fname[b]].bytes = Content(b)
              /\ \A c \in Builder \ {b} : HasNumber(c) => fname[c] # fname[b]

(* What the naming loop has been through: every name before the one at hand. *)
Looping(b) == pc[b] \in {"claim", "reoffer"}
OfferedBefore(b) == IF Looping(b) THEN asked[b] - 1 ELSE asked[b]
LoopGoesOn ==
    \A b \in Builder :
        /\ \A p \in offered[b] : \E m \in 0..MaxNumber : m < OfferedBefore(b) /\ p = Offer[b][m]
        /\ \A i \in 1..Len(Blocks[b]) : chosen[b][i] \in Offers(b) \cup {NoPath}
        /\ Looping(b) =>
              /\ asked[b] \in 1..MaxNumber + 1
              /\ chosen[b][at[b].block] = Offer[b][asked[b] - 1]

(* Every block which is written has a header's name. *)
NamedIn(b, names, place) ==
    /\ place.doing = "generate" =>
          \A i \in 1..place.block - 1 : ~IsBridge(b, i) => names[i] # NoPath
    /\ place.doing \in {"bridge", "impl", "header"} =>
          \A i \in 1..Len(Blocks[b]) : ~IsBridge(b, i) => names[i] # NoPath
    /\ place.doing \in {"impl", "header"} => names[place.block] # NoPath
PlaceNamed(b, names, p, a) ==
    /\ NamedIn(b, names, a)
    /\ p = "skip" /\ a.doing = "generate" => IsBridge(b, a.block)
    /\ p = "codegen" => a.doing = "generate"
    /\ p \in {"offer", "claim", "reoffer"} => a.doing \in {"generate", "bridge"}
    /\ p \in {"cxxgen", "number", "grab"} => a.doing = "impl"
    /\ p = "idle" => a.doing = "prelude" /\ \A i \in 1..Len(Blocks[b]) : names[i] = NoPath
BlocksAreNamed ==
    \A b \in Builder : pc[b] \notin Finished => PlaceNamed(b, chosen[b], pc[b], at[b])

(* A header's name is its block's from the end of the naming loop on. *)
Claimed(b, i) ==
    /\ pc[b] \in Active
    /\ chosen[b][i] # NoPath
    /\ at[b].block = i => pc[b] \notin {"offer", "claim", "reoffer"}
HeaderOf(b, i) == <<"header", Blocks[b][i].body, 1>>
OwnHeader(b, i) ==
    /\ chosen[b][i] \in taken
    /\ written[chosen[b][i]] # Unwritten => written[chosen[b][i]].bytes = HeaderOf(b, i)
    /\ \A c \in Builder : \A j \in 1..Len(Blocks[c]) :
          Claimed(c, j) /\ (c # b \/ j # i) => chosen[c][j] # chosen[b][i]
HeadersAreOwn ==
    \A b \in Builder : \A i \in 1..Len(Blocks[b]) :
        NeverRepeats(b) /\ Claimed(b, i) => OwnHeader(b, i)

NamesInv ==
    /\ KeysAreNames /\ WrittenIsTaken /\ NumbersAreOwn
    /\ LoopGoesOn /\ BlocksAreNamed /\ HeadersAreOwn
    /\ ChosenNamesNeverCollide
-------------------------------------------------------------------------------
(* Where a builder is sent, it has the names it needs there. *)
Sent(b, names, place) == PlaceNamed(b, names, place.pc, place.at)

LEMMA BindingsNamed ==
    ASSUME NEW b \in Builder, NEW names, NEW i \in Nat
    PROVE  Sent(b, names, BindingsFrom(b, i))
  BY DEF Sent, PlaceNamed, NamedIn, BindingsFrom, Place

LEMMA EmitNamed ==
    ASSUME NEW b \in Builder, NEW names, NEW i \in Nat \ {0},
           \A j \in 1..Len(Blocks[b]) : ~IsBridge(b, j) => names[j] # NoPath
    PROVE  Sent(b, names, EmitFrom(b, i))
  <1>1. CASE i > Len(Blocks[b])
    BY <1>1, BindingsNamed DEF EmitFrom
  <1>2. CASE ~(i > Len(Blocks[b]))
    <2>1. i \in 1..Len(Blocks[b])
      BY <1>2, LenType
    <2> QED
      BY <1>2, <2>1 DEF EmitFrom, Sent, PlaceNamed, NamedIn, Place
  <1> QED
    BY <1>1, <1>2

LEMMA GenerateNamed ==
    ASSUME NEW b \in Builder, NEW names, NEW i \in Nat \ {0},
           \A j \in 1..i - 1 : ~IsBridge(b, j) => names[j] # NoPath
    PROVE  Sent(b, names, GenerateFrom(b, i))
  <1>1. CASE i > Len(Blocks[b])
    <2>1. \A j \in 1..Len(Blocks[b]) : ~IsBridge(b, j) => names[j] # NoPath
      BY <1>1, LenType
    <2> QED
      BY <1>1, <2>1, EmitNamed DEF GenerateFrom
  <1>2. CASE ~(i > Len(Blocks[b]))
    BY <1>2 DEF GenerateFrom, Sent, PlaceNamed, NamedIn, Place
  <1> QED
    BY <1>1, <1>2

LEMMA NextGenerateNamed ==
    ASSUME NEW b \in Builder, at[b] \in Places, NamedIn(b, chosen[b], at[b]), at[b].doing = "generate",
           IsBridge(b, at[b].block) \/ chosen[b][at[b].block] # NoPath
    PROVE  Sent(b, chosen[b], GenerateFrom(b, at[b].block + 1))
  <1>1. \A j \in 1..(at[b].block + 1) - 1 : ~IsBridge(b, j) => chosen[b][j] # NoPath
    BY DEF NamedIn, Places
  <1> QED
    BY <1>1, GenerateNamed DEF Places

LEMMA NamingNamed ==
    ASSUME NEW b \in Builder, at[b] \in Places, NamedIn(b, chosen[b], at[b]),
           at[b].doing \in {"generate", "bridge"}, chosen[b][at[b].block] # NoPath
    PROVE  Sent(b, chosen[b], AfterNaming(b))
  <1>1. CASE at[b].doing = "generate"
    BY <1>1, NextGenerateNamed DEF AfterNaming
  <1>2. CASE at[b].doing = "bridge"
    BY <1>2 DEF AfterNaming, Sent, PlaceNamed, NamedIn, Place
  <1> QED
    BY <1>1, <1>2

LEMMA WriteNamed ==
    ASSUME NEW b \in Builder, at[b] \in Places, NamedIn(b, chosen[b], at[b])
    PROVE  Sent(b, chosen[b], AfterWrite(b))
  <1>1. CASE at[b].doing = "prelude"
    BY <1>1, GenerateNamed DEF AfterWrite
  <1>2. CASE at[b].doing = "impl"
    BY <1>2 DEF AfterWrite, Sent, PlaceNamed, NamedIn, Place
  <1>3. CASE at[b].doing = "header" /\ at[b].pair < PairCount(Block(b))
    <2>1. ~(at[b].pair >= PairCount(Block(b)))
      BY <1>3 DEF Places, PairCount
    <2>2. AfterWrite(b) = Place("number", "impl", at[b].block, at[b].pair + 1)
      BY <1>3, <2>1 DEF AfterWrite
    <2> QED
      BY <1>3, <2>2 DEF Sent, PlaceNamed, NamedIn, Place
  <1>4. CASE at[b].doing = "header" /\ ~(at[b].pair < PairCount(Block(b)))
    <2>1. at[b].pair >= PairCount(Block(b))
      BY <1>4 DEF Places, PairCount
    <2>2. Sent(b, chosen[b], EmitFrom(b, at[b].block + 1))
      BY <1>4, EmitNamed DEF Places, NamedIn
    <2> QED
      BY <1>4, <2>1, <2>2 DEF AfterWrite
  <1>5. CASE at[b].doing \notin {"prelude", "impl", "header"}
    <2>1. Sent(b, chosen[b], BindingsFrom(b, at[b].block + 1))
      BY BindingsNamed DEF Places
    <2> QED
      BY <1>5, <2>1 DEF AfterWrite
  <1> QED
    BY <1>1, <1>2, <1>3, <1>4, <1>5

(* Neither a loop nor the write of a gen number is where a builder is sent. *)
NothingOpen(place) ==
    /\ place.pc \notin {"claim", "reoffer", "grab"}
    /\ place.pc = "resolve" => place.at.doing # "impl"

LEMMA NoNumberYet ==
    ASSUME NEW b \in Builder, at[b] \in Places, NEW i \in Nat
    PROVE  /\ NothingOpen(GenerateFrom(b, i)) /\ NothingOpen(BindingsFrom(b, i))
           /\ NothingOpen(AfterNaming(b)) /\ NothingOpen(AfterWrite(b))
  <1> USE DEF NothingOpen
  <1>1. \A j \in Nat : NothingOpen(BindingsFrom(b, j))
    BY DEF BindingsFrom, Place
  <1>2. \A j \in Nat : NothingOpen(EmitFrom(b, j))
    BY <1>1 DEF EmitFrom, Place
  <1>3. \A j \in Nat : NothingOpen(GenerateFrom(b, j))
    BY <1>2 DEF GenerateFrom, Place
  <1>4. at[b].block + 1 \in Nat /\ 1 \in Nat
    BY DEF Places
  <1>5. NothingOpen(AfterNaming(b))
    BY <1>3, <1>4 DEF AfterNaming, Place
  <1>6. NothingOpen(AfterWrite(b))
    <2>1. at[b].pair < PairCount(Block(b)) \/ at[b].pair >= PairCount(Block(b))
      <3>1. at[b].pair \in {1, 2} /\ PairCount(Block(b)) \in {1, 2}
        BY DEF Places, PairCount
      <3> QED
        BY <3>1
    <2> QED
      BY <1>1, <1>2, <1>3, <1>4, <2>1 DEF AfterWrite, Place
  <1> QED
    BY <1>1, <1>3, <1>5, <1>6

-------------------------------------------------------------------------------
(* What the names are told apart by, and what is known of them when they are. *)
KeptApart == ToldApart /\ NamesApart /\ RepeatersKeepApart
Known == TypeInv /\ HeldInv /\ NamesInv

LEMMA WrittenToItsName ==
    ASSUME KeptApart, Known, NEW b \in Builder, pc[b] \in Resolved
    PROVE  key[b] = Target(b) /\ Target(b) \in Path
  <1>1. Target(b) \in Path /\ key[b] = ResolveDestination(Target(b))
    BY TargetType DEF Known, TypeInv, HeldInv, Steady, Resolved, Holding, Active
  <1>2. ResolveDestination(Target(b)) = Target(b)
    BY <1>1, ResolvesToItself DEF KeptApart, Known, TypeInv, HeldInv
  <1> QED
    BY <1>1, <1>2

(* Where a builder is, and what it has there. *)
LEMMA WhereItIs ==
    ASSUME Known, NEW b \in Builder, pc[b] \in Active
    PROVE  /\ at[b] \in Places
           /\ pc[b] \notin Finished /\ PlaceNamed(b, chosen[b], pc[b], at[b])
           /\ at[b].doing # "prelude" => at[b].block \in 1..Len(Blocks[b])
           /\ pc[b] \in Naming => at[b].block \in 1..Len(Blocks[b])
  <1>1. at[b] \in Places /\ pc[b] \notin Finished
    BY DEF Known, TypeInv, TypeOK, Active, Finished
  <1> QED
    BY <1>1 DEF Known, TypeInv, InBlocks, NamesInv, BlocksAreNamed

LEMMA OffersArePaths == ASSUME NEW b \in Builder PROVE Offers(b) \subseteq Path
  <1>1. Offer[b] \in [0..MaxNumber -> Path]
    BY NamesAssumption
  <1> QED
    BY <1>1 DEF Offers

(* The input's own names. *)
LEMMA InputNames ==
    ASSUME NEW b \in Builder, NEW i \in 1..Len(Blocks[b])
    PROVE  {CxxH, NoPath, Blocks[b][i].extra, Blocks[b][i].rs} \subseteq UserNamed
  BY DEF UserNamed, NamedBy

(* A gen number is only written as one, and a header's name as its header. *)
LEMMA TargetKinds ==
    ASSUME KeptApart, Known, NEW b \in Builder, pc[b] \in Resolved
    PROVE  /\ Target(b) \in GenNames => at[b].doing = "impl"
           /\ \A c \in Builder : Target(b) \in Offers(c) =>
                  at[b].doing = "header" /\ at[b].pair = 1
  <1>1. pc[b] \in Active
    BY DEF Resolved, Holding, Active
  <1>2. at[b] \in Places /\ (at[b].doing # "prelude" => at[b].block \in 1..Len(Blocks[b]))
    BY <1>1, WhereItIs
  <1>3. CASE at[b].doing = "impl"
    BY <1>3 DEF Target, Known, NamesInv, NumbersAreOwn, HasNumber, KeptApart, NamesApart
  <1>4. CASE at[b].doing = "header" /\ at[b].pair = 1
    <2>1. Target(b) = chosen[b][at[b].block]
      BY <1>4 DEF Target
    <2>2. Target(b) \in Offers(b) \cup {NoPath}
      BY <1>2, <1>4, <2>1 DEF Known, NamesInv, LoopGoesOn
    <2>3. Target(b) \notin GenNames
      BY <2>2 DEF KeptApart, NamesApart, UserNamed
    <2> QED
      BY <1>4, <2>3
  <1>5. CASE at[b].doing # "impl" /\ ~(at[b].doing = "header" /\ at[b].pair = 1)
    <2>1. CASE at[b].doing = "prelude"
      BY <2>1 DEF Target, UserNamed, KeptApart, NamesApart
    <2>2. CASE at[b].doing # "prelude"
      <3>1. {CxxH, NoPath, Block(b).extra, Block(b).rs} \subseteq UserNamed
        BY <1>2, <2>2, InputNames DEF Block
      <3>2. Target(b) \in {NoPath, Block(b).extra, Block(b).rs}
        BY <1>2, <1>5, <2>2 DEF Target, Places
      <3> QED
        BY <3>1, <3>2 DEF KeptApart, NamesApart
    <2> QED
      BY <2>1, <2>2
  <1> QED
    BY <1>3, <1>4, <1>5

-------------------------------------------------------------------------------
(* What a step may do to the registry. *)
LEMMA TakenGrows ==
    ASSUME NEW b \in Builder, Step(b) \/ BeginFails(b)
    PROVE  taken \subseteq taken'
  BY DEF Step, BeginFails, SkipBridge, Codegen, Cxxgen, CodegenFails, OfferName, ClaimName,
     ReofferName, NextNumber, GrabNumber, ResolveTarget, RecordWrite, Compare, Stage, Persist,
     WriteFails, ForgetWrite, Claim, Record, Forget, registry

LEMMA NewlyWritten ==
    ASSUME Known, NEW b \in Builder, Step(b) \/ BeginFails(b),
           NEW p \in Path, written'[p] # Unwritten, written'[p] # written[p]
    PROVE  /\ RecordWrite(b) /\ p = key[b] /\ p \in taken'
           /\ written'[p].bytes = Content(b)
  <1>1. ~Quiet(b)
    BY DEF Quiet
  <1>2. ~ResolveTarget(b) /\ ~Compare(b) /\ ~Stage(b) /\ ~Persist(b) /\ ~WriteFails(b)
    BY DEF ResolveTarget, Compare, Stage, Persist, WriteFails, registry
  <1>3. ~ForgetWrite(b)
    BY DEF ForgetWrite, Forget, Known, TypeInv, TypeOK, RegistryTypeOK
  <1>4. RecordWrite(b)
    BY <1>1, <1>2, <1>3, QuietSteps DEF Step, Known
  <1>5. Record(b, key[b], Content(b)) /\ key[b] \in Path
    BY <1>4 DEF RecordWrite, registry, Known, TypeInv, TypeOK
  <1>6. p = key[b] /\ written'[p] = [builder |-> b, bytes |-> Content(b)] /\ p \in taken'
    BY <1>5 DEF Record, Known, TypeInv, TypeOK, RegistryTypeOK
  <1> QED
    BY <1>4, <1>6

-------------------------------------------------------------------------------
(* Each part in turn, under a step of one builder. *)
LEMMA GoToNamed ==
    ASSUME TypeInv, NEW b \in Builder, NEW place, Sent(b, chosen[b], place), GoTo(b, place),
           chosen'[b] = chosen[b]
    PROVE  PlaceNamed(b, chosen'[b], pc'[b], at'[b])
  BY DEF Sent, GoTo, TypeInv, TypeOK

LEMMA AwaitNamed ==
    ASSUME TypeInv, NEW b \in Builder, PlaceNamed(b, chosen[b], pc[b], at[b]), NEW p, Await(b, p),
           chosen'[b] = chosen[b], p \notin {"skip", "codegen", "idle"},
           p \in {"offer", "claim", "reoffer"} => pc[b] \in {"offer", "claim", "reoffer"},
           p \in {"cxxgen", "number", "grab"} => pc[b] \in {"cxxgen", "number", "grab"}
    PROVE  PlaceNamed(b, chosen'[b], pc'[b], at'[b])
  BY DEF Await, PlaceNamed, NamedIn, TypeInv, TypeOK

(* The naming loop ends with the name it was at. *)
LEMMA NamingEnds ==
    ASSUME KeptApart, Known, NEW b \in Builder, Looping(b)
    PROVE  /\ chosen[b][at[b].block] \in Offers(b) /\ chosen[b][at[b].block] # NoPath
           /\ Sent(b, chosen[b], AfterNaming(b)) /\ PlaceOK(b, AfterNaming(b))
  <1>1. /\ at[b] \in Places /\ PlaceNamed(b, chosen[b], pc[b], at[b])
        /\ at[b].block \in 1..Len(Blocks[b])
    BY WhereItIs DEF Looping, Active, Naming
  <1>2. asked[b] - 1 \in 0..MaxNumber /\ chosen[b][at[b].block] = Offer[b][asked[b] - 1]
    BY BoundsAssumption DEF Known, NamesInv, LoopGoesOn
  <1>3. chosen[b][at[b].block] \in Offers(b) /\ chosen[b][at[b].block] # NoPath
    BY <1>2 DEF Offers, KeptApart, NamesApart, UserNamed
  <1>4. at[b].doing \in {"generate", "bridge"} /\ NamedIn(b, chosen[b], at[b])
    BY <1>1 DEF PlaceNamed, Looping
  <1>5. Sent(b, chosen[b], AfterNaming(b))
    BY <1>1, <1>3, <1>4, NamingNamed
  <1>6. PlaceOK(b, AfterNaming(b))
    BY <1>1, NamingPlace
  <1> QED
    BY <1>3, <1>5, <1>6

LEMMA StaysNamed ==
    ASSUME KeptApart, Known, NEW b \in Builder, Step(b), pc'[b] \notin Finished
    PROVE  PlaceNamed(b, chosen'[b], pc'[b], at'[b])
  <1>1. pc[b] \in Active /\ TypeInv
    BY StepsRun DEF Known
  <1>2. /\ at[b] \in Places /\ PlaceNamed(b, chosen[b], pc[b], at[b])
        /\ at[b].doing # "prelude" => at[b].block \in 1..Len(Blocks[b])
        /\ pc[b] \in Naming => at[b].block \in 1..Len(Blocks[b])
    BY <1>1, WhereItIs
  <1>3. at[b].block + 1 \in Nat \ {0} /\ NamedIn(b, chosen[b], at[b])
    BY <1>2 DEF Places, PlaceNamed
  <1>4. CASE SkipBridge(b)
    <2>1. PICK place : Sent(b, chosen[b], place) /\ GoTo(b, place)
      <3>1. CASE at[b].doing = "generate"
        <4>1. IsBridge(b, at[b].block)
          BY <1>2, <1>4, <3>1 DEF PlaceNamed, SkipBridge
        <4> QED
          BY <1>2, <1>3, <1>4, <3>1, <4>1, NextGenerateNamed DEF SkipBridge
      <3>2. CASE at[b].doing # "generate"
        BY <1>3, <1>4, <3>2, BindingsNamed DEF SkipBridge
      <3> QED
        BY <3>1, <3>2
    <2> QED
      BY <1>1, <1>4, <2>1, GoToNamed DEF SkipBridge
  <1>5. CASE Codegen(b)
    <2>1. Sent(b, chosen[b], Place("offer", "generate", at[b].block, 1))
      BY <1>2, <1>5 DEF Codegen, Sent, PlaceNamed, NamedIn, Place
    <2> QED
      BY <1>1, <1>5, <2>1, GoToNamed DEF Codegen
  <1>6. CASE Cxxgen(b) \/ NextNumber(b) \/ ResolveTarget(b) \/ RecordWrite(b) \/ Stage(b) \/ WriteFails(b)
    BY <1>1, <1>2, <1>6, AwaitNamed
       DEF Cxxgen, NextNumber, ResolveTarget, RecordWrite, Stage, WriteFails
  <1>7. CASE OfferName(b)
    <2>1. asked[b] \in 0..MaxNumber /\ Offer[b][asked[b]] # NoPath
      <3>1. asked[b] \in 0..MaxNumber
        BY <1>1, <1>7, BoundsAssumption DEF OfferName, TypeInv, TypeOK
      <3> QED
        BY <3>1 DEF KeptApart, NamesApart, Offers, UserNamed
    <2>2. \A i \in 1..Len(Blocks[b]) :
             chosen'[b][i] = IF i = at[b].block THEN Offer[b][asked[b]] ELSE chosen[b][i]
      BY <1>1, <1>7 DEF OfferName, TypeInv, TypeOK
    <2>3. at[b].doing \in {"generate", "bridge"} /\ pc'[b] = "claim" /\ at'[b] = at[b]
      BY <1>1, <1>2, <1>7 DEF OfferName, PlaceNamed, Await, TypeInv, TypeOK
    <2>4. NamedIn(b, chosen'[b], at[b])
      <3>1. CASE at[b].doing = "generate"
        <4>1. at[b].block \in 1..Len(Blocks[b])
          BY <1>2, <3>1
        <4>2. \A i \in 1..at[b].block - 1 : ~IsBridge(b, i) => chosen'[b][i] # NoPath
          BY <1>3, <2>2, <3>1, <4>1, LenType DEF NamedIn
        <4> QED
          BY <3>1, <4>2 DEF NamedIn
      <3>2. CASE at[b].doing = "bridge"
        BY <1>3, <2>1, <2>2, <3>2 DEF NamedIn
      <3> QED
        BY <2>3, <3>1, <3>2
    <2> QED
      BY <2>3, <2>4 DEF PlaceNamed
  <1>8. CASE ClaimName(b) \/ ReofferName(b)
    <2>1. Looping(b) /\ chosen' = chosen
      BY <1>8 DEF ClaimName, ReofferName, Looping
    <2>2. CASE GoTo(b, AfterNaming(b))
      BY <1>1, <2>1, <2>2, NamingEnds, GoToNamed
    <2>3. CASE ~GoTo(b, AfterNaming(b))
      BY <1>1, <1>2, <1>8, <2>1, <2>3, AwaitNamed DEF ClaimName, ReofferName
    <2> QED
      BY <2>2, <2>3
  <1>9. CASE GrabNumber(b)
    <2>1. CASE Claimable(key[b])
      <3>1. at[b].doing = "impl"
        BY <1>2, <1>9 DEF GrabNumber, PlaceNamed
      <3>2. Sent(b, chosen[b], AfterNumbering(b))
        BY <1>3, <3>1 DEF AfterNumbering, Sent, PlaceNamed, NamedIn, Place
      <3> QED
        BY <1>1, <1>9, <2>1, <3>2, GoToNamed DEF GrabNumber
    <2>2. CASE ~Claimable(key[b])
      BY <1>1, <1>2, <1>9, <2>2, AwaitNamed DEF GrabNumber
    <2> QED
      BY <2>1, <2>2
  <1>10. CASE Compare(b) \/ Persist(b)
    <2>1. chosen' = chosen /\ Sent(b, chosen[b], AfterWrite(b))
      BY <1>2, <1>3, <1>10, WriteNamed DEF Compare, Persist
    <2>2. CASE GoTo(b, AfterWrite(b))
      BY <1>1, <2>1, <2>2, GoToNamed
    <2>3. CASE ~GoTo(b, AfterWrite(b))
      BY <1>1, <1>2, <1>10, <2>1, <2>3, AwaitNamed DEF Compare, Persist, Delivered
    <2> QED
      BY <2>2, <2>3
  <1>11. ~CodegenFails(b) /\ ~ForgetWrite(b)
    BY <1>1 DEF CodegenFails, ForgetWrite, Await, Finished, TypeInv, TypeOK
  <1> QED
    BY <1>4, <1>5, <1>6, <1>7, <1>8, <1>9, <1>10, <1>11 DEF Step

(* Each answer of the namer is one it has not given in this loop. *)
LEMMA OnlyRepeatersRunOut ==
    ASSUME KeptApart, Known, NEW b \in Builder, pc[b] = "reoffer", OutOfNames(b)
    PROVE  ~NeverRepeats(b)
  <1>1. at[b].block \in 1..Len(Blocks[b])
    BY WhereItIs DEF Active, Naming
  <1>2. /\ asked[b] \in 1..MaxNumber + 1 /\ chosen[b][at[b].block] = Offer[b][asked[b] - 1]
        /\ \A p \in offered[b] : \E m \in 0..MaxNumber : m < asked[b] - 1 /\ p = Offer[b][m]
    BY DEF Known, NamesInv, LoopGoesOn, Looping, OfferedBefore
  <1>3. chosen[b][at[b].block] \in Path
    BY <1>1 DEF Known, TypeInv, TypeOK
  <1>4. chosen[b][at[b].block] \in offered[b]
    BY <1>3, ResolvesToItself DEF OutOfNames, KeptApart, Known, TypeInv, HeldInv
  <1>5. PICK m \in 0..MaxNumber : m < asked[b] - 1 /\ chosen[b][at[b].block] = Offer[b][m]
    BY <1>2, <1>4
  <1>6. asked[b] - 1 \in 0..MaxNumber /\ m # asked[b] - 1
    BY <1>2, <1>5, BoundsAssumption
  <1> QED
    BY <1>2, <1>5, <1>6 DEF NeverRepeats

LEMMA LoopStaysOwn ==
    ASSUME KeptApart, Known, NEW b \in Builder, Step(b)
    PROVE  /\ \A p \in offered'[b] :
                 \E m \in 0..MaxNumber : m < OfferedBefore(b)' /\ p = Offer[b][m]
           /\ \A i \in 1..Len(Blocks[b]) : chosen'[b][i] \in Offers(b) \cup {NoPath}
           /\ Looping(b)' =>
                 /\ asked'[b] \in 1..MaxNumber + 1
                 /\ chosen'[b][at'[b].block] = Offer[b][asked'[b] - 1]
  <1> USE DEF Known, TypeInv, TypeOK
  <1>1. /\ \A p \in offered[b] :
              \E m \in 0..MaxNumber : m < OfferedBefore(b) /\ p = Offer[b][m]
        /\ \A i \in 1..Len(Blocks[b]) : chosen[b][i] \in Offers(b) \cup {NoPath}
        /\ Looping(b) =>
              /\ asked[b] \in 1..MaxNumber + 1
              /\ chosen[b][at[b].block] = Offer[b][asked[b] - 1]
    BY DEF NamesInv, LoopGoesOn
  <1>2. CASE OfferName(b)
    <2>1. at[b].block \in 1..Len(Blocks[b]) /\ asked[b] \in 0..MaxNumber
      BY <1>2, WhereItIs, BoundsAssumption DEF OfferName, Active, Naming
    <2>2. /\ pc'[b] = "claim" /\ at'[b] = at[b] /\ asked'[b] = asked[b] + 1
          /\ offered'[b] = offered[b]
      BY <1>2 DEF OfferName, Await
    <2>3. /\ chosen'[b][at[b].block] = Offer[b][asked[b]]
          /\ \A i \in 1..Len(Blocks[b]) : i # at[b].block => chosen'[b][i] = chosen[b][i]
      BY <1>2, <2>1 DEF OfferName
    <2>4. OfferedBefore(b)' = asked[b] /\ OfferedBefore(b) = asked[b]
      BY <1>2, <2>1, <2>2 DEF OfferName, OfferedBefore, Looping
    <2>5. Offer[b][asked[b]] \in Offers(b)
      BY <2>1 DEF Offers
    <2>6. asked'[b] - 1 = asked[b] /\ asked'[b] \in 1..MaxNumber + 1
      BY <2>1, <2>2, BoundsAssumption
    <2> QED
      BY <1>1, <2>1, <2>2, <2>3, <2>4, <2>5, <2>6, ZenonT(60)
  <1>3. CASE ClaimName(b) \/ ReofferName(b)
    <2>1. Looping(b) /\ chosen' = chosen /\ asked' = asked
      BY <1>3 DEF ClaimName, ReofferName, Looping
    <2>2. PlaceOK(b, AfterNaming(b)) /\ Sent(b, chosen[b], AfterNaming(b))
      BY <2>1, NamingEnds
    <2>3. CASE offered'[b] = {} /\ GoTo(b, AfterNaming(b))
      <3>1. AfterNaming(b).pc \notin {"claim", "reoffer"}
        BY <2>1, WhereItIs
           DEF AfterNaming, GenerateFrom, EmitFrom, BindingsFrom, Place, Looping, Active
      <3> QED
        BY <1>1, <2>1, <2>3, <3>1 DEF GoTo, Looping
    <2>4. CASE ~(offered'[b] = {} /\ GoTo(b, AfterNaming(b)))
      <3>1. CASE ClaimName(b)
        <4>1. pc[b] = "claim" /\ pc'[b] = "reoffer" /\ at'[b] = at[b] /\ offered'[b] = offered[b]
          BY <2>4, <3>1 DEF ClaimName, Await
        <4> QED
          BY <1>1, <2>1, <4>1 DEF Looping, OfferedBefore
      <3>2. CASE ReofferName(b)
        <4>1. /\ pc[b] = "reoffer" /\ pc'[b] = "offer" /\ at'[b] = at[b]
              /\ offered'[b] = offered[b] \cup {ResolveDestination(chosen[b][at[b].block])}
          BY <2>4, <3>2 DEF ReofferName, Await
        <4>2. at[b].block \in 1..Len(Blocks[b])
          BY <4>1, WhereItIs DEF Active, Naming
        <4>3. ResolveDestination(chosen[b][at[b].block]) = Offer[b][asked[b] - 1]
          BY <1>1, <2>1, <4>2, ResolvesToItself DEF KeptApart, HeldInv
        <4>4. /\ asked[b] \in 1..MaxNumber + 1 /\ asked[b] - 1 \in 0..MaxNumber
              /\ asked[b] - 1 < asked[b]
          BY <1>1, <2>1, BoundsAssumption
        <4>5. OfferedBefore(b) = asked[b] - 1 /\ OfferedBefore(b)' = asked[b]
          BY <2>1, <4>1 DEF Looping, OfferedBefore
        <4>6. ASSUME NEW p \in offered'[b]
              PROVE  \E m \in 0..MaxNumber : m < asked[b] /\ p = Offer[b][m]
          <5>1. CASE p \in offered[b]
            <6>1. PICK m \in 0..MaxNumber : m < asked[b] - 1 /\ p = Offer[b][m]
              BY <1>1, <4>5, <5>1
            <6> QED
              BY <4>4, <6>1
          <5>2. CASE p = Offer[b][asked[b] - 1]
            BY <4>4, <5>2
          <5> QED
            BY <4>1, <4>3, <4>6, <5>1, <5>2
        <4> QED
          BY <1>1, <2>1, <4>1, <4>5, <4>6 DEF Looping
      <3> QED
        BY <1>3, <3>1, <3>2
    <2> QED
      BY <2>3, <2>4
  <1>4. CASE ~OfferName(b) /\ ~ClaimName(b) /\ ~ReofferName(b)
    <2>1. /\ pc[b] \notin {"claim", "reoffer"} /\ pc'[b] \notin {"claim", "reoffer"}
          /\ UNCHANGED <<offered, chosen, asked>>
      <3>0. at[b] \in Places /\ at[b].block + 1 \in Nat
        BY DEF Places
      <3>1. CASE SkipBridge(b)
        BY <3>0, <3>1, NoNumberYet DEF SkipBridge, GoTo, NothingOpen
      <3>2. CASE Codegen(b) \/ Cxxgen(b) \/ CodegenFails(b) \/ NextNumber(b)
        BY <3>2 DEF Codegen, Cxxgen, CodegenFails, NextNumber, GoTo, Await, Place
      <3>3. CASE GrabNumber(b)
        BY <3>3 DEF GrabNumber, GoTo, Await, AfterNumbering, Place
      <3>4. CASE ResolveTarget(b) \/ RecordWrite(b) \/ Stage(b) \/ WriteFails(b) \/ ForgetWrite(b)
        BY <3>4 DEF ResolveTarget, RecordWrite, Stage, WriteFails, ForgetWrite, Await
      <3>5. CASE Compare(b) \/ Persist(b)
        BY <3>0, <3>5, NoNumberYet DEF Compare, Persist, Delivered, GoTo, Await, NothingOpen
      <3> QED
        BY <1>4, <3>1, <3>2, <3>3, <3>4, <3>5 DEF Step
    <2> QED
      BY <1>1, <2>1 DEF Looping, OfferedBefore
  <1> QED
    BY <1>2, <1>3, <1>4

(* How a builder comes by a gen number, and that it then keeps it. *)
LEMMA NumberBegins ==
    ASSUME Known, NEW b \in Builder, Step(b), HasNumber(b)', ~HasNumber(b)
    PROVE  GrabNumber(b) /\ Claimable(key[b]) /\ Claim(key[b]) /\ fname' = fname
  <1> USE DEF Known, TypeInv, TypeOK
  <1>1. at[b] \in Places /\ at[b].block + 1 \in Nat
    BY DEF Places
  <1>2. ~SkipBridge(b)
    <2> SUFFICES ASSUME SkipBridge(b) PROVE FALSE
      OBVIOUS
    <2>1. PICK place : NothingOpen(place) /\ GoTo(b, place)
      BY <1>1, NoNumberYet DEF SkipBridge
    <2>2. pc'[b] \notin Resolved
      BY QuietSteps DEF Quiet
    <2> QED
      BY <2>1, <2>2 DEF GoTo, NothingOpen, HasNumber
  <1>3. ~Codegen(b) /\ ~Cxxgen(b) /\ ~CodegenFails(b) /\ ~OfferName(b) /\ ~NextNumber(b)
    BY DEF Codegen, Cxxgen, CodegenFails, OfferName, NextNumber, GoTo, Await, Place, HasNumber,
       Resolved, Holding
  <1>4. ~ClaimName(b) /\ ~ReofferName(b)
    BY <1>1, NoNumberYet, QuietSteps
       DEF ClaimName, ReofferName, GoTo, Await, NothingOpen, HasNumber, Quiet
  <1>5. pc[b] \notin Resolved \cup {"resolve"}
    <2> SUFFICES ASSUME pc[b] \in Resolved \cup {"resolve"} PROVE at[b].doing = "impl"
      BY DEF HasNumber
    <2>1. CASE Compare(b) \/ Persist(b)
      BY <1>1, <2>1, NoNumberYet, Delivery
         DEF Compare, Persist, Delivered, GoTo, Await, NothingOpen, HasNumber
    <2>2. CASE ResolveTarget(b) \/ RecordWrite(b) \/ Stage(b) \/ WriteFails(b) \/ ForgetWrite(b)
      BY <2>2 DEF ResolveTarget, RecordWrite, Stage, WriteFails, ForgetWrite, Await, HasNumber
    <2> QED
      BY <2>1, <2>2 DEF Step, SkipBridge, Codegen, Cxxgen, CodegenFails, OfferName, ClaimName,
         ReofferName, NextNumber, GrabNumber, Resolved, Holding
  <1>6. GrabNumber(b)
    BY <1>2, <1>3, <1>4, <1>5 DEF Step, ResolveTarget, RecordWrite, Compare, Stage, Persist,
       WriteFails, ForgetWrite, Resolved, Holding
  <1> QED
    BY <1>6 DEF GrabNumber, Await, HasNumber, Resolved, Holding

LEMMA NumberKept ==
    ASSUME Known, NEW b \in Builder, Step(b), HasNumber(b), HasNumber(b)'
    PROVE  fname'[b] = fname[b] /\ Content(b)' = Content(b)
  <1> USE DEF Known, TypeInv, TypeOK
  <1>1. at[b] \in Places
    OBVIOUS
  <1>2. CASE Compare(b) \/ Persist(b)
    <2>1. UNCHANGED <<fname, chosen>>
      BY <1>2 DEF Compare, Persist
    <2>2. at' = at
      BY <1>1, <1>2, NoNumberYet, Delivery
         DEF Compare, Persist, Delivered, GoTo, Await, NothingOpen, HasNumber
    <2> QED
      BY <2>1, <2>2, TargetSame
  <1>3. CASE ResolveTarget(b) \/ RecordWrite(b) \/ Stage(b) \/ WriteFails(b) \/ ForgetWrite(b)
    BY <1>3, TargetSame DEF ResolveTarget, RecordWrite, Stage, WriteFails, ForgetWrite, Await
  <1> QED
    BY <1>2, <1>3 DEF Step, SkipBridge, Codegen, Cxxgen, CodegenFails, OfferName, ClaimName,
       ReofferName, NextNumber, GrabNumber, HasNumber, Resolved, Holding

(* A number is written to by the builder which has it, and so with its bytes. *)
LEMMA NumberWrittenByOwner ==
    ASSUME KeptApart, Known, NEW b \in Builder, Step(b), NEW c \in Builder, HasNumber(c),
           NEW p \in Path, p = fname[c], written'[p] # Unwritten
    PROVE  written'[p].bytes = Content(c)
  <1>1. CASE written'[p] = written[p]
    BY <1>1 DEF Known, NamesInv, NumbersAreOwn
  <1>2. CASE written'[p] # written[p]
    <2>1. RecordWrite(b) /\ p = key[b] /\ written'[p].bytes = Content(b)
      BY <1>2, NewlyWritten
    <2>2. p = Target(b) /\ p \in GenNames /\ pc[b] \in Resolved
      BY <2>1, WrittenToItsName DEF RecordWrite, Resolved, Known, NamesInv, NumbersAreOwn
    <2>3. HasNumber(b) /\ p = fname[b]
      BY <2>2, TargetKinds DEF HasNumber, Target
    <2>4. b = c
      BY <2>3 DEF Known, NamesInv, NumbersAreOwn
    <2> QED
      BY <2>1, <2>4
  <1> QED
    BY <1>1, <1>2

LEMMA NumberTried ==
    ASSUME Known, NEW b \in Builder, Step(b), pc'[b] = "grab"
    PROVE  fname'[b] \in GenNames
  <1> USE DEF Known, TypeInv, TypeOK
  <1>1. at[b] \in Places /\ at[b].block + 1 \in Nat
    BY DEF Places
  <1>2. ~SkipBridge(b) /\ ~ClaimName(b) /\ ~ReofferName(b) /\ ~Compare(b) /\ ~Persist(b)
    <2>1. ASSUME NEW place, NothingOpen(place), GoTo(b, place) PROVE FALSE
      BY <2>1 DEF GoTo, NothingOpen
    <2>2. ~SkipBridge(b)
      BY <1>1, <2>1, NoNumberYet DEF SkipBridge
    <2>3. NothingOpen(AfterNaming(b)) /\ NothingOpen(AfterWrite(b))
      BY <1>1, NoNumberYet
    <2>4. ~ClaimName(b) /\ ~ReofferName(b)
      BY <2>1, <2>3 DEF ClaimName, ReofferName, Await
    <2> QED
      BY <2>1, <2>2, <2>3, <2>4 DEF Compare, Persist, Delivered, Await
  <1>3. NextNumber(b)
    BY <1>2 DEF Step, Codegen, Cxxgen, CodegenFails, OfferName, GrabNumber, AfterNumbering,
       ResolveTarget, RecordWrite, Stage, WriteFails, ForgetWrite, GoTo, Await, Place
  <1> QED
    BY <1>3, BoundsAssumption DEF NextNumber, GenNames

LEMMA NumbersStay ==
    ASSUME KeptApart, Known, NEW b \in Builder, Step(b)
    PROVE  NumbersAreOwn'
  <1> USE DEF Known
  <1>1. Own(b) /\ taken \subseteq taken' /\ present /\ fname \in [Builder -> Path]
    BY StepsAreOwn, TakenGrows, StepsRun DEF HeldInv, RecordLives, Running, TypeInv, TypeOK
  <1>2. \A c \in Builder \ {b} :
          /\ fname'[c] = fname[c] /\ Content(c)' = Content(c) /\ pc'[c] = pc[c]
          /\ HasNumber(c)' <=> HasNumber(c)
    BY <1>1, OthersKeep DEF Own, HasNumber
  <1>3. \A c \in Builder :
          /\ pc[c] = "grab" \/ HasNumber(c) => fname[c] \in GenNames
          /\ HasNumber(c) =>
                /\ fname[c] \in taken
                /\ \A d \in Builder \ {c} : HasNumber(d) => fname[d] # fname[c]
    BY DEF NamesInv, NumbersAreOwn
  <1>4. \A c \in Builder : HasNumber(c) /\ written'[fname[c]] # Unwritten =>
          written'[fname[c]].bytes = Content(c)
    BY <1>1, NumberWrittenByOwner
  <1>5. CASE HasNumber(b)' /\ ~HasNumber(b)
    <2>1. GrabNumber(b) /\ Claimable(key[b]) /\ Claim(key[b]) /\ fname' = fname
      BY <1>5, NumberBegins
    <2>2. key[b] = fname[b] /\ pc[b] = "grab"
      BY <2>1 DEF GrabNumber, NamesInv, KeysAreNames
    <2>3. /\ fname[b] \notin taken /\ fname[b] \in taken'
          /\ written' = written /\ written[fname[b]] = Unwritten
      BY <1>1, <2>1, <2>2 DEF Claimable, Claim, NamesInv, WrittenIsTaken
    <2> QED
      BY <1>1, <1>2, <1>3, <1>4, <2>1, <2>2, <2>3 DEF NumbersAreOwn
  <1>6. CASE HasNumber(b)' /\ HasNumber(b)
    <2>1. fname'[b] = fname[b] /\ Content(b)' = Content(b)
      BY <1>6, NumberKept
    <2> QED
      BY <1>1, <1>2, <1>3, <1>4, <1>6, <2>1 DEF NumbersAreOwn
  <1>7. CASE ~HasNumber(b)'
    <2>1. pc'[b] = "grab" => fname'[b] \in GenNames
      BY NumberTried
    <2> QED
      BY <1>1, <1>2, <1>3, <1>4, <1>7, <2>1 DEF NumbersAreOwn
  <1> QED
    BY <1>5, <1>6, <1>7

-------------------------------------------------------------------------------
(* How a block comes by its header's name, and that it then keeps it. *)
LEMMA ClaimBegins ==
    ASSUME KeptApart, Known, NEW b \in Builder, Step(b), NEW i \in 1..Len(Blocks[b]),
           Claimed(b, i)', ~Claimed(b, i)
    PROVE  /\ chosen' = chosen /\ chosen[b][i] \in Offers(b)
           /\ \/ ~NeverRepeats(b)
              \/ /\ chosen[b][i] \notin taken /\ chosen[b][i] \in taken'
                 /\ written' = written /\ written[chosen[b][i]] = Unwritten
  <1> USE DEF Known
  <1>1. pc[b] \in Active /\ present /\ TypeInv
    BY StepsRun DEF HeldInv, RecordLives, Running
  <1>2. chosen[b] \in [1..Len(Blocks[b]) -> Path]
    BY DEF TypeInv, TypeOK
  <1>3. ~OfferName(b)
    BY <1>2 DEF OfferName, Await, Claimed, Active, TypeInv, TypeOK
  <1>4. chosen' = chosen
    BY <1>3 DEF Step, SkipBridge, Codegen, Cxxgen, CodegenFails, ClaimName,
       ReofferName, NextNumber, GrabNumber, ResolveTarget, RecordWrite, Compare, Stage, Persist,
       WriteFails, ForgetWrite
  <1>5. at[b].block = i /\ pc[b] \in {"offer", "claim", "reoffer"}
    BY <1>1, <1>4 DEF Claimed
  <1>6. ClaimName(b) \/ ReofferName(b)
    BY <1>3, <1>5 DEF Step, SkipBridge, Codegen, Cxxgen, CodegenFails, NextNumber, GrabNumber,
       ResolveTarget, RecordWrite, Compare, Stage, Persist, WriteFails, ForgetWrite
  <1>7. chosen[b][i] \in Offers(b)
    BY <1>5, <1>6, NamingEnds DEF Looping, ClaimName, ReofferName
  <1>8. CASE ClaimName(b)
    <2>1. Claimable(key[b])
      BY <1>1, <1>5, <1>8 DEF ClaimName, Await, Claimed, TypeInv, TypeOK
    <2>2. key[b] = chosen[b][i]
      BY <1>5, <1>8 DEF ClaimName, NamesInv, KeysAreNames
    <2> QED
      BY <1>1, <1>2, <1>4, <1>7, <1>8, <2>1, <2>2
         DEF ClaimName, Claimable, Claim, NamesInv, WrittenIsTaken
  <1>9. CASE ReofferName(b)
    <2>1. OutOfNames(b)
      BY <1>1, <1>5, <1>9 DEF ReofferName, Await, Claimed, TypeInv, TypeOK
    <2> QED
      BY <1>4, <1>7, <1>9, <2>1, OnlyRepeatersRunOut DEF ReofferName
  <1> QED
    BY <1>6, <1>8, <1>9

LEMMA ClaimKept ==
    ASSUME Known, NEW b \in Builder, Step(b), NEW i \in 1..Len(Blocks[b]), Claimed(b, i)
    PROVE  chosen'[b][i] = chosen[b][i]
  <1>1. CASE OfferName(b)
    BY <1>1 DEF OfferName, Claimed, Known, TypeInv, TypeOK
  <1>2. CASE ~OfferName(b)
    BY <1>2 DEF Step, SkipBridge, Codegen, Cxxgen, CodegenFails, ClaimName,
       ReofferName, NextNumber, GrabNumber, ResolveTarget, RecordWrite, Compare, Stage, Persist,
       WriteFails, ForgetWrite
  <1> QED
    BY <1>1, <1>2

(* A header's name is written to for its block, and so with its bytes. *)
LEMMA HeaderWrittenByOwner ==
    ASSUME KeptApart, Known, NEW b \in Builder, Step(b),
           NEW c \in Builder, NEW i \in 1..Len(Blocks[c]), NeverRepeats(c), Claimed(c, i),
           NEW p \in Path, p = chosen[c][i], written'[p] # Unwritten
    PROVE  written'[p].bytes = HeaderOf(c, i)
  <1>1. OwnHeader(c, i) /\ p \in Offers(c)
    BY DEF Known, NamesInv, HeadersAreOwn, LoopGoesOn, Claimed
  <1>2. CASE written'[p] = written[p]
    BY <1>1, <1>2 DEF OwnHeader
  <1>3. CASE written'[p] # written[p]
    <2>1. RecordWrite(b) /\ p = key[b] /\ written'[p].bytes = Content(b)
      BY <1>3, NewlyWritten
    <2>2. p = Target(b) /\ pc[b] \in Resolved /\ pc[b] \in Active /\ pc[b] = "record"
      BY <2>1, WrittenToItsName DEF RecordWrite, Resolved, Active
    <2>3. at[b].doing = "header" /\ at[b].pair = 1
      BY <1>1, <2>2, TargetKinds
    <2>4. p = chosen[b][at[b].block] /\ at[b].block \in 1..Len(Blocks[b])
      BY <2>2, <2>3, WhereItIs DEF Target
    <2>5. p # NoPath
      BY DEF Claimed
    <2>6. Claimed(b, at[b].block)
      BY <2>2, <2>4, <2>5 DEF Claimed
    <2>7. b = c /\ at[b].block = i
      BY <1>1, <2>4, <2>6 DEF OwnHeader
    <2> QED
      BY <2>1, <2>3, <2>7 DEF Content, Block, HeaderOf
  <1> QED
    BY <1>2, <1>3

LEMMA HeadersStay ==
    ASSUME KeptApart, Known, NEW b \in Builder, Step(b)
    PROVE  HeadersAreOwn'
  <1> USE DEF Known
  <1>1. Own(b) /\ taken \subseteq taken'
    BY StepsAreOwn, TakenGrows
  <1>2. \A c \in Builder : \A i \in 1..Len(Blocks[c]) :
          /\ c # b => chosen'[c][i] = chosen[c][i] /\ (Claimed(c, i)' <=> Claimed(c, i))
          /\ Claimed(c, i) => chosen'[c][i] = chosen[c][i] /\ chosen[c][i] \in Offers(c)
    BY <1>1, ClaimKept DEF Own, Claimed, NamesInv, LoopGoesOn
  <1>3. \A c \in Builder : \A i \in 1..Len(Blocks[c]) :
          NeverRepeats(c) /\ Claimed(c, i) => OwnHeader(c, i)
    BY DEF NamesInv, HeadersAreOwn
  <1>4. ASSUME NEW c \in Builder, NEW i \in 1..Len(Blocks[c]), NeverRepeats(c), Claimed(c, i)
        PROVE  OwnHeader(c, i)'
    <2>1. OwnHeader(c, i) /\ chosen'[c][i] = chosen[c][i] /\ chosen[c][i] \in Path
      BY <1>2, <1>3, <1>4 DEF TypeInv, TypeOK
    <2>2. chosen[c][i] \in taken'
      BY <1>1, <2>1 DEF OwnHeader
    <2>3. written'[chosen[c][i]] # Unwritten => written'[chosen[c][i]].bytes = HeaderOf(c, i)
      BY <1>4, <2>1, HeaderWrittenByOwner
    <2>4. ASSUME NEW d \in Builder, NEW j \in 1..Len(Blocks[d]), Claimed(d, j)', d # c \/ j # i
          PROVE  chosen'[d][j] # chosen[c][i]
      <3>1. CASE Claimed(d, j)
        BY <1>2, <2>1, <2>4, <3>1 DEF OwnHeader
      <3>2. CASE ~Claimed(d, j)
        <4>1. d = b
          BY <1>2, <2>4, <3>2
        <4>2. /\ chosen' = chosen /\ chosen[b][j] \in Offers(b)
              /\ ~NeverRepeats(b) \/ chosen[b][j] \notin taken
          BY <2>4, <3>2, <4>1, ClaimBegins
        <4>3. CASE chosen[b][j] \notin taken
          BY <2>1, <4>1, <4>2, <4>3 DEF OwnHeader
        <4>4. CASE ~NeverRepeats(b)
          <5>1. b # c
            BY <1>4, <4>4
          <5>2. Offers(b) \cap Offers(c) = {}
            BY <4>4, <5>1 DEF KeptApart, RepeatersKeepApart
          <5> QED
            BY <1>2, <1>4, <4>1, <4>2, <5>2
        <4> QED
          BY <4>2, <4>3, <4>4
      <3> QED
        BY <3>1, <3>2
    <2> QED
      BY <2>1, <2>2, <2>3, <2>4 DEF OwnHeader, HeaderOf
  <1>5. ASSUME NEW c \in Builder, NEW i \in 1..Len(Blocks[c]), NeverRepeats(c),
               Claimed(c, i)', ~Claimed(c, i)
        PROVE  OwnHeader(c, i)'
    <2>1. c = b
      BY <1>2, <1>5
    <2>2. /\ chosen' = chosen /\ chosen[b][i] \in Offers(b)
          /\ chosen[b][i] \notin taken /\ chosen[b][i] \in taken'
          /\ written' = written /\ written[chosen[b][i]] = Unwritten
      BY <1>5, <2>1, ClaimBegins
    <2>3. ASSUME NEW d \in Builder, NEW j \in 1..Len(Blocks[d]), Claimed(d, j)', d # b \/ j # i
          PROVE  chosen'[d][j] # chosen[b][i]
      <3>1. Claimed(d, j)
        <4> SUFFICES ASSUME d = b, ~Claimed(d, j) PROVE FALSE
          BY <1>2, <2>3
        <4>1. at[b].block = j /\ at[b].block = i
          BY <1>5, <2>1, <2>2, <2>3, StepsRun DEF Claimed
        <4> QED
          BY <2>3, <4>1
      <3>2. CASE NeverRepeats(d)
        BY <1>3, <2>2, <3>1, <3>2 DEF OwnHeader
      <3>3. CASE ~NeverRepeats(d)
        <4>1. d # b /\ Offers(d) \cap Offers(b) = {}
          BY <1>5, <2>1, <3>3 DEF KeptApart, RepeatersKeepApart
        <4> QED
          BY <1>2, <2>2, <3>1, <4>1
      <3> QED
        BY <3>2, <3>3
    <2> QED
      BY <2>1, <2>2, <2>3 DEF OwnHeader
  <1> QED
    BY <1>4, <1>5 DEF HeadersAreOwn

(* A claim is of the name at hand; what was written is taken. *)
LEMMA KeysStay ==
    ASSUME KeptApart, Known, NEW b \in Builder, Step(b)
    PROVE  /\ pc'[b] = "claim" => key'[b] = chosen'[b][at'[b].block]
           /\ pc'[b] = "grab" => key'[b] = fname'[b]
  <1> USE DEF Known, TypeInv, TypeOK
  <1>1. at[b] \in Places /\ at[b].block + 1 \in Nat
    BY DEF Places
  <1>2. \A p \in Path : ResolveDestination(p) = p
    BY ResolvesToItself DEF KeptApart, HeldInv
  <1>3. CASE OfferName(b)
    <2>1. asked[b] \in 0..MaxNumber /\ at[b].block \in 1..Len(Blocks[b])
      BY <1>3, WhereItIs, BoundsAssumption DEF OfferName, Active, Naming
    <2>2. Offer[b][asked[b]] \in Path
      BY <2>1, OffersArePaths DEF Offers
    <2>3. chosen[b] \in [1..Len(Blocks[b]) -> Path] /\ b \in DOMAIN chosen
      OBVIOUS
    <2>4. chosen'[b][at[b].block] = Offer[b][asked[b]] /\ at' = at /\ pc'[b] = "claim"
      BY <1>3, <2>1, <2>3 DEF OfferName, Await
    <2>5. key'[b] = Offer[b][asked[b]]
      BY <1>2, <1>3, <2>2 DEF OfferName
    <2> QED
      BY <2>4, <2>5
  <1>4. CASE NextNumber(b)
    <2>1. GenName[number[b]] \in Path
      BY <1>4, NamesAssumption, BoundsAssumption DEF NextNumber
    <2> QED
      BY <1>2, <1>4, <2>1 DEF NextNumber, Await
  <1>5. CASE ~OfferName(b) /\ ~NextNumber(b)
    <2>1. ~\E place : NothingOpen(place) /\ GoTo(b, place) /\ pc'[b] \in {"claim", "grab"}
      BY DEF GoTo, NothingOpen
    <2>2. SkipBridge(b) => \E place : NothingOpen(place) /\ GoTo(b, place)
      BY <1>1, NoNumberYet DEF SkipBridge
    <2>3. NothingOpen(AfterNaming(b)) /\ NothingOpen(AfterWrite(b))
      BY <1>1, NoNumberYet
    <2>4. pc'[b] \notin {"claim", "grab"}
      <3>1. CASE SkipBridge(b)
        BY <2>1, <2>2, <3>1
      <3>2. CASE ClaimName(b) \/ ReofferName(b)
        BY <2>1, <2>3, <3>2 DEF ClaimName, ReofferName, Await
      <3>3. CASE Compare(b) \/ Persist(b)
        BY <2>1, <2>3, <3>3 DEF Compare, Persist, Delivered, Await
      <3>4. CASE Codegen(b) \/ Cxxgen(b) \/ CodegenFails(b) \/ GrabNumber(b)
        BY <3>4 DEF Codegen, Cxxgen, CodegenFails, GrabNumber, AfterNumbering, GoTo, Await, Place
      <3>5. CASE ResolveTarget(b) \/ RecordWrite(b) \/ Stage(b) \/ WriteFails(b) \/ ForgetWrite(b)
        BY <3>5 DEF ResolveTarget, RecordWrite, Stage, WriteFails, ForgetWrite, Await
      <3> QED
        BY <1>5, <3>1, <3>2, <3>3, <3>4, <3>5 DEF Step
    <2> QED
      BY <2>4
  <1> QED
    BY <1>3, <1>4, <1>5

(* Whoever is refused was not writing to a name of its own. *)
LEMMA RefusedForUsersName ==
    ASSUME KeptApart, Known, [Next]_vars, NEW b \in Builder, pc[b] # "refused", pc'[b] = "refused"
    PROVE  /\ at'[b].doing # "impl"
           /\ at'[b].doing = "header" /\ at'[b].pair = 1 => ~NeverRepeats(b)
  <1>1. RecordWrite(b) /\ Collides(key[b], Content(b))
    BY RefusedAtRecord DEF Known
  <1>2. pc[b] = "record" /\ at' = at
    BY <1>1 DEF RecordWrite, Await
  <1>3. key[b] = Target(b) /\ written[Target(b)] # Unwritten /\ written[Target(b)].bytes # Content(b)
    BY <1>1, <1>2, WrittenToItsName DEF Collides, Resolved
  <1>4. at[b].doing # "impl"
    BY <1>2, <1>3 DEF Known, NamesInv, NumbersAreOwn, HasNumber, Resolved, Target
  <1>5. ASSUME at[b].doing = "header", at[b].pair = 1, NeverRepeats(b) PROVE FALSE
    <2>1. /\ at[b].block \in 1..Len(Blocks[b]) /\ Target(b) = chosen[b][at[b].block]
          /\ PlaceNamed(b, chosen[b], pc[b], at[b])
      BY <1>2, <1>5, WhereItIs DEF Active, Target
    <2>2. chosen[b][at[b].block] # NoPath
      BY <1>5, <2>1 DEF PlaceNamed, NamedIn
    <2>3. Claimed(b, at[b].block)
      BY <1>2, <2>2 DEF Claimed, Active
    <2>4. OwnHeader(b, at[b].block)
      BY <1>5, <2>1, <2>3 DEF Known, NamesInv, HeadersAreOwn
    <2> QED
      BY <1>3, <1>5, <2>1, <2>4 DEF OwnHeader, HeaderOf, Content, Block
  <1> QED
    BY <1>2, <1>4, <1>5

-------------------------------------------------------------------------------
LEMMA InitNamesInv == Init => NamesInv
  <1> SUFFICES ASSUME Init PROVE NamesInv
    OBVIOUS
  <1> USE DEF Init, NothingBuilt, EmptyRegistry, Fresh
  <1>1. KeysAreNames /\ NumbersAreOwn /\ HeadersAreOwn /\ ChosenNamesNeverCollide
    BY DEF KeysAreNames, NumbersAreOwn, HasNumber, HeadersAreOwn, Claimed,
       ChosenNamesNeverCollide, Resolved, Holding, Active
  <1>2. WrittenIsTaken
    BY DEF WrittenIsTaken, NothingWritten
  <1>3. LoopGoesOn /\ BlocksAreNamed
    BY DEF LoopGoesOn, Looping, BlocksAreNamed, PlaceNamed, NamedIn
  <1> QED
    BY <1>1, <1>2, <1>3 DEF NamesInv

LEMMA StepNamesInv ==
    ASSUME KeptApart, Known, NEW b \in Builder, Step(b)
    PROVE  NamesInv'
  <1>1. Own(b) /\ taken \subseteq taken'
    BY StepsAreOwn, TakenGrows DEF Known
  <1>2. KeysAreNames'
    BY <1>1, KeysStay DEF Own, KeysAreNames, Known, NamesInv
  <1>3. WrittenIsTaken'
    BY <1>1, NewlyWritten DEF WrittenIsTaken, Known, NamesInv
  <1>4. LoopGoesOn'
    <2>1. ASSUME NEW c \in Builder \ {b} PROVE OfferedBefore(c)' = OfferedBefore(c)
      BY <1>1 DEF Own, OfferedBefore, Looping
    <2> QED
      BY <1>1, <2>1, LoopStaysOwn DEF Own, LoopGoesOn, Looping, Known, NamesInv
  <1>5. BlocksAreNamed'
    BY <1>1, StaysNamed DEF Own, BlocksAreNamed, Known, NamesInv
  <1>6. ChosenNamesNeverCollide'
    <2>1. [Next]_vars /\ pc[b] \in Active
      BY StepsRun DEF Next
    <2>2. ASSUME NEW c \in Builder, pc'[c] = "refused"
          PROVE  /\ at'[c].doing # "impl"
                 /\ at'[c].doing = "header" /\ at'[c].pair = 1 => ~NeverRepeats(c)
      <3>1. CASE pc[c] = "refused"
        <4>1. at'[c] = at[c]
          BY <1>1, <2>1, <3>1 DEF Own, Active
        <4> QED
          BY <3>1, <4>1 DEF ChosenNamesNeverCollide, NeverRepeats, Known, NamesInv
      <3>2. CASE pc[c] # "refused"
        BY <2>1, <2>2, <3>2, RefusedForUsersName
      <3> QED
        BY <3>1, <3>2
    <2> QED
      BY <2>2 DEF ChosenNamesNeverCollide, NeverRepeats
  <1> QED
    BY <1>2, <1>3, <1>4, <1>5, <1>6, NumbersStay, HeadersStay DEF NamesInv

(* A builder which begins, or fails to, has no names yet; neither the directory *)
(* nor what was reported matters to the names of the others.                   *)
Beginning(b) == pc[b] = "idle" /\ pc'[b] \in {"resolve", "failed"}

LEMMA SameNames ==
    ASSUME NamesInv, UNCHANGED <<at, fname, asked, offered, chosen, key>>,
           \A c \in Builder : pc'[c] = pc[c] \/ Beginning(c),
           \/ UNCHANGED <<taken, written>>
           \/ taken' = {} /\ written' = NothingWritten /\ Running = {}
    PROVE  NamesInv'
  <1>1. \A c \in Builder : pc[c] = "idle" =>
          at[c].doing = "prelude" /\ \A i \in 1..Len(Blocks[c]) : chosen[c][i] = NoPath
    BY DEF NamesInv, BlocksAreNamed, PlaceNamed, Finished
  <1>2. ASSUME NEW c \in Builder
        PROVE  /\ HasNumber(c)' <=> HasNumber(c)
               /\ \A i \in 1..Len(Blocks[c]) : Claimed(c, i)' <=> Claimed(c, i)
               /\ Content(c)' = Content(c)
               /\ OfferedBefore(c)' = OfferedBefore(c) /\ (Looping(c)' <=> Looping(c))
    <2>1. CASE pc'[c] = pc[c]
      BY <2>1, TargetSame DEF HasNumber, Claimed, OfferedBefore, Looping
    <2>2. CASE Beginning(c)
      BY <1>1, <2>2, TargetSame
         DEF Beginning, HasNumber, Claimed, OfferedBefore, Looping, Resolved, Holding, Active
    <2> QED
      BY <2>1, <2>2
  <1>3. \A c \in Builder : pc'[c] \in {"claim", "grab", "refused"} => pc'[c] = pc[c]
    BY DEF Beginning
  <1>4. KeysAreNames' /\ ChosenNamesNeverCollide'
    BY <1>3 DEF KeysAreNames, ChosenNamesNeverCollide, NamesInv
  <1>5. WrittenIsTaken'
    BY DEF WrittenIsTaken, NothingWritten, NamesInv
  <1>6. LoopGoesOn'
    <2> SUFFICES ASSUME NEW c \in Builder
                 PROVE  (/\ \A p \in offered[c] :
                               \E m \in 0..MaxNumber : m < OfferedBefore(c) /\ p = Offer[c][m]
                         /\ \A i \in 1..Len(Blocks[c]) : chosen[c][i] \in Offers(c) \cup {NoPath}
                         /\ Looping(c) =>
                               /\ asked[c] \in 1..MaxNumber + 1
                               /\ chosen[c][at[c].block] = Offer[c][asked[c] - 1])'
      BY DEF LoopGoesOn
    <2> QED
      BY <1>2 DEF LoopGoesOn, NamesInv
  <1>7. BlocksAreNamed'
    <2> SUFFICES ASSUME NEW c \in Builder, pc'[c] \notin Finished
                 PROVE  PlaceNamed(c, chosen[c], pc'[c], at[c])
      BY DEF BlocksAreNamed
    <2>1. CASE pc'[c] = pc[c]
      BY <2>1 DEF BlocksAreNamed, NamesInv
    <2>2. CASE Beginning(c)
      BY <1>1, <2>2 DEF Beginning, PlaceNamed, NamedIn, Finished
    <2> QED
      BY <2>1, <2>2
  <1>8. CASE UNCHANGED <<taken, written>>
    <2>1. NumbersAreOwn'
      BY <1>2, <1>3, <1>8 DEF NumbersAreOwn, NamesInv
    <2>2. HeadersAreOwn'
      BY <1>2, <1>8 DEF HeadersAreOwn, OwnHeader, HeaderOf, NamesInv
    <2> QED
      BY <1>4, <1>5, <1>6, <1>7, <2>1, <2>2 DEF NamesInv
  <1>9. CASE Running = {}
    <2>1. \A c \in Builder : ~HasNumber(c) /\ pc'[c] # "grab"
      BY <1>3, <1>9 DEF Running, Active, HasNumber, Resolved, Holding
    <2>2. \A c \in Builder : \A i \in 1..Len(Blocks[c]) : ~Claimed(c, i)
      BY <1>9 DEF Running, Claimed
    <2>3. NumbersAreOwn' /\ HeadersAreOwn'
      BY <1>2, <2>1, <2>2 DEF NumbersAreOwn, HeadersAreOwn
    <2> QED
      BY <1>4, <1>5, <1>6, <1>7, <2>3 DEF NamesInv
  <1> QED
    BY <1>8, <1>9

LEMMA RestartNamesInv == Restart => NamesInv'
  <1> SUFFICES ASSUME Restart PROVE NamesInv'
    OBVIOUS
  <1> USE DEF Restart, Fresh
  <1>1. KeysAreNames' /\ NumbersAreOwn' /\ HeadersAreOwn' /\ ChosenNamesNeverCollide'
    BY DEF KeysAreNames, NumbersAreOwn, HasNumber, HeadersAreOwn, Claimed,
       ChosenNamesNeverCollide, Resolved, Holding, Active
  <1>2. WrittenIsTaken'
    BY DEF WrittenIsTaken, NothingWritten
  <1>3. LoopGoesOn' /\ BlocksAreNamed'
    BY DEF LoopGoesOn, Looping, BlocksAreNamed, PlaceNamed, NamedIn
  <1> QED
    BY <1>1, <1>2, <1>3 DEF NamesInv

LEMMA NextNamesInv == ASSUME KeptApart, Known, [Next]_vars PROVE NamesInv'
  <1>1. ASSUME NEW b \in Builder, Begin(b) \/ BeginFails(b) PROVE NamesInv'
    <2>1. /\ UNCHANGED <<at, fname, asked, offered, chosen, key>>
          /\ \A c \in Builder : pc'[c] = pc[c] \/ Beginning(c)
      BY <1>1 DEF Begin, BeginFails, Await, Beginning, Known, TypeInv, TypeOK
    <2>2. \/ UNCHANGED <<taken, written>>
          \/ taken' = {} /\ written' = NothingWritten /\ Running = {}
      BY <1>1 DEF Begin, BeginFails, Open, registry, Known, HeldInv, RecordLives
    <2> QED
      BY <2>1, <2>2, SameNames DEF Known
  <1>2. CASE RemoveDir \/ UNCHANGED vars
    <2>1. UNCHANGED <<taken, written, pc, at, fname, asked, offered, chosen, key>>
      BY <1>2 DEF RemoveDir, vars, registry, control
    <2> QED
      BY <2>1, SameNames DEF Known
  <1> QED
    BY <1>1, <1>2, StepNamesInv, RestartNamesInv DEF Next

(* Nobody is refused a name autocxx chose: a gen number ever, a header's name  *)
(* where its namer never repeats itself. For any number of builders running at *)
(* once, whatever fails, as long as spellings and the three kinds of names are *)
(* told apart and a namer which repeats itself keeps to names of its own.      *)
THEOREM ChosenNamesAreOwn ==
    ASSUME ToldApart, NamesApart, RepeatersKeepApart PROVE Spec => []ChosenNamesNeverCollide
  <1>1. TypeInv /\ HeldInv /\ [Next]_vars => HeldInv'
    BY NextHeldInv
  <1>2. TypeInv /\ HeldInv /\ NamesInv /\ [Next]_vars => NamesInv'
    BY NextNamesInv DEF Known, KeptApart
  <1>3. NamesInv => ChosenNamesNeverCollide
    BY DEF NamesInv
  <1> QED
    BY InitTypeInv, NextTypeInv, InitHeldInv, InitNamesInv, <1>1, <1>2, <1>3, PTL DEF Spec
-------------------------------------------------------------------------------
(* The builders implement SharedDirectory. What each of its variables holds,   *)
(* seen from the builders':                                                    *)
LEMMA HowItIsShared ==
    ASSUME TypeInv
    PROVE  /\ \A x : x \in Contents <=>
                 \E f \in File : disk[f] # Absent /\ x = [file |-> f, bytes |-> disk[f].bytes]
           /\ \A x : x \in Promised <=>
                 \E p \in Path : written[p] # Unwritten
                                 /\ x = [file |-> FileOf[p], bytes |-> written[p].bytes]
           /\ \A x : x \in Given <=> \E b \in Builder : \E w \in out[b] : x = Report(b, w)
           /\ \A x : x \in AskedFor <=> \E b \in Asking : x = RequestOf(b)
           /\ AskedFor \subseteq Sharing!Write
           /\ \A b, c \in Builder : b # c => RequestOf(b) # RequestOf(c)
  <1>1. ASSUME NEW b \in Asking PROVE RequestOf(b) \in Sharing!Write
    <2>1. b \in Builder /\ Target(b) \in Path /\ Content(b) \in Bytes
      BY TargetType DEF Asking, Active, TypeInv
    <2> QED
      BY <2>1, FileOfAssumption DEF RequestOf, Sharing!Write
  <1> QED
    BY <1>1 DEF Contents, Promised, Given, AskedFor, RequestOf

(* A step of b leaves the others' requests and refusals alone. *)
LEMMA OthersAsk ==
    ASSUME TypeInv, NEW b \in Builder, Own(b)
    PROVE  \A c \in Builder \ {b} : /\ RequestOf(c)' = RequestOf(c)
                                    /\ (c \in Asking' <=> c \in Asking)
                                    /\ (c \in Refused' <=> c \in Refused)
  <1> SUFFICES ASSUME NEW c \in Builder \ {b}
               PROVE  /\ RequestOf(c)' = RequestOf(c)
                      /\ (c \in Asking' <=> c \in Asking)
                      /\ (c \in Refused' <=> c \in Refused)
    OBVIOUS
  <1>1. RequestOf(c)' = RequestOf(c)
    BY OthersKeep DEF RequestOf
  <1> QED
    BY <1>1 DEF Asking, Refused, Own

LEMMA Unasked ==
    ASSUME TypeInv, NEW b \in Builder, Own(b), b \in Asking, pc'[b] \notin Writing
    PROVE  AskedFor' = AskedFor \ {RequestOf(b)}
  <1>1. Asking' = Asking \ {b}
    BY OthersAsk DEF Asking, Writing
  <1>2. \A c \in Asking \ {b} : RequestOf(c)' = RequestOf(c) /\ RequestOf(c) # RequestOf(b)
    BY OthersAsk, HowItIsShared DEF Asking
  <1> QED
    BY <1>1, <1>2 DEF AskedFor

LEMMA StillAsked ==
    ASSUME TypeInv, NEW b \in Builder, Own(b), b \in Asking, pc'[b] \in Writing,
           UNCHANGED <<at, fname, chosen>>
    PROVE  UNCHANGED <<AskedFor, Refused>>
  <1>1. Asking' = Asking /\ Refused' = Refused
    BY OthersAsk DEF Asking, Refused, Writing
  <1>2. RequestOf(b)' = RequestOf(b)
    BY TargetSame DEF RequestOf
  <1>3. \A c \in Asking : RequestOf(c)' = RequestOf(c)
    BY <1>2, OthersAsk DEF Asking
  <1> QED
    BY <1>1, <1>3 DEF AskedFor

LEMMA SameDirectory ==
    /\ disk' = disk => Contents' = Contents
    /\ written' = written => Promised' = Promised
    /\ out' = out => Given' = Given
  BY DEF Contents, Promised, Given, Report

(* What b is asking for is promised it once the record has been asked ...      *)
LEMMA PromisedWhatItWrites ==
    ASSUME TypeInv, FilesInv, NEW b \in Builder, pc[b] \in Writing \ {"record"}
    PROVE  Sharing!Wanted(RequestOf(b)) \in Promised
  <1>1. Target(b) \in Path /\ OnRecord(Target(b), Content(b))
    BY TargetType DEF TypeInv, FilesInv, WritesRecorded, Writing, Active
  <1> QED
    BY <1>1, HowItIsShared DEF OnRecord, RequestOf, Sharing!Wanted

(* ... and what it is given when it reports the write: the only file which may *)
(* have changed is the one it asked for, and that has what it asked for.       *)
LEMMA Gives ==
    ASSUME TypeInv, FilesInv, NEW b \in Builder, Own(b), pc[b] \in {"compare", "persist"},
           Delivered(b), UNCHANGED written,
           /\ disk'[FileOf[Target(b)]] # Absent
           /\ disk'[FileOf[Target(b)]].bytes = Content(b),
           \A f \in File \ {FileOf[Target(b)]} : disk'[f] = disk[f]
    PROVE  RequestOf(b) \in AskedFor /\ Sharing!Give(RequestOf(b))
  <1> DEFINE w == RequestOf(b)
  <1>1. b \in Asking /\ w \in AskedFor
    BY DEF Asking, AskedFor
  <1>2. /\ pc'[b] \notin Writing \cup {"refused"}
        /\ out'[b] = out[b] \cup {Written(b)}
        /\ \A c \in Builder \ {b} : out'[c] = out[c]
    BY Delivery DEF Resolved, Holding, Writing
  <1>3. AskedFor' = AskedFor \ {w}
    BY <1>1, <1>2, Unasked
  <1>4. Sharing!Wanted(w) \in Promised
    BY PromisedWhatItWrites DEF Writing
  <1>5. Promised' = Promised /\ Refused' = Refused
    BY <1>1, <1>2, OthersAsk, SameDirectory DEF Refused, Asking
  <1>6. Given' = Given \cup {w}
    <2>1. Report(b, Written(b)) = w
      BY DEF Report, Written, RequestOf
    <2> QED
      BY <1>2, <2>1 DEF Given
  <1>7. Contents' = {c \in Contents : c.file # w.file} \cup {Sharing!Wanted(w)}
    <2>1. Target(b) \in Path /\ FileOf[Target(b)] \in File
      BY TargetType, FileOfAssumption DEF TypeInv, Active
    <2>2. w.file = FileOf[Target(b)] /\ w.bytes = Content(b)
      BY DEF RequestOf
    <2>3. Sharing!Wanted(w) = [file |-> FileOf[Target(b)], bytes |-> Content(b)]
      BY <2>2 DEF Sharing!Wanted
    <2> HIDE DEF w
    <2>4. \A x : x \in Contents' <=>
             \E f \in File : disk'[f] # Absent /\ x = [file |-> f, bytes |-> disk'[f].bytes]
      BY DEF Contents
    <2>5. \A x : x \in Contents <=>
             \E f \in File : disk[f] # Absent /\ x = [file |-> f, bytes |-> disk[f].bytes]
      BY DEF Contents
    <2>6. ASSUME NEW x \in Contents'
          PROVE  x \in {c \in Contents : c.file # w.file} \cup {Sharing!Wanted(w)}
      <3>1. PICK f \in File : disk'[f] # Absent /\ x = [file |-> f, bytes |-> disk'[f].bytes]
        BY <2>4
      <3> QED
        BY <2>1, <2>2, <2>3, <2>5, <3>1
    <2>7. ASSUME NEW x \in Contents, x.file # w.file PROVE x \in Contents'
      <3>1. PICK f \in File : disk[f] # Absent /\ x = [file |-> f, bytes |-> disk[f].bytes]
        BY <2>5
      <3> QED
        BY <2>1, <2>2, <2>4, <2>7, <3>1
    <2>8. Sharing!Wanted(w) \in Contents'
      BY <2>1, <2>3, <2>4
    <2> QED
      BY <2>6, <2>7, <2>8
  <1> QED
    BY <1>1, <1>3, <1>4, <1>5, <1>6, <1>7 DEF Sharing!Give

LEMMA QuietIsShared ==
    ASSUME TypeInv, NEW b \in Builder, Own(b), Quiet(b), pc[b] # "refused"
    PROVE  UNCHANGED Sharing!vars
  <1>1. UNCHANGED <<Contents, Promised, Given>>
    BY SameDirectory DEF Quiet
  <1>2. Asking' = Asking /\ b \notin Asking /\ Refused' = Refused
    BY OthersAsk DEF Quiet, Asking, Refused, Resolved, Holding
  <1>3. AskedFor' = AskedFor
    BY <1>2, OthersAsk DEF AskedFor, Asking
  <1> QED
    BY <1>1, <1>2, <1>3 DEF Sharing!vars

LEMMA ResolvingAsks ==
    ASSUME TypeInv, NEW b \in Builder, ResolveTarget(b)
    PROVE  Sharing!Ask
  <1>1. /\ UNCHANGED <<disk, written, out, at, fname, chosen>> /\ Own(b)
        /\ pc[b] = "resolve" /\ pc'[b] = "record"
    BY StepsAreOwn DEF ResolveTarget, Await, Step, registry, directory, TypeInv, TypeOK
  <1>2. UNCHANGED <<Contents, Promised, Given>>
    BY <1>1, SameDirectory
  <1>3. Asking' = Asking \cup {b} /\ b \notin Asking /\ Refused' = Refused
    BY <1>1, OthersAsk DEF Asking, Refused
  <1>4. \A c \in Asking : RequestOf(c)' = RequestOf(c)
    <2>1. Asking \subseteq Builder \ {b}
      BY <1>3 DEF Asking
    <2> QED
      BY <1>1, <2>1, OthersAsk
  <1>5. RequestOf(b)' = RequestOf(b) /\ RequestOf(b) \in Sharing!Write
    <2>1. Target(b) \in Path /\ Content(b) \in Bytes
      BY <1>1, TargetType DEF Active, TypeInv
    <2> QED
      BY <1>1, <2>1, TargetSame, FileOfAssumption DEF RequestOf, Sharing!Write
  <1>6. AskedFor' = AskedFor \cup {RequestOf(b)}
    BY <1>3, <1>4, <1>5 DEF AskedFor
  <1> QED
    BY <1>2, <1>3, <1>5, <1>6, HowItIsShared DEF Sharing!Ask

(* The record refuses what conflicts with a promise and promises the rest.     *)
LEMMA RecordingPromises ==
    ASSUME ToldApart, TypeInv, FilesInv, NEW b \in Builder, RecordWrite(b)
    PROVE  /\ RequestOf(b) \in AskedFor
           /\ Sharing!Promise(RequestOf(b)) \/ Sharing!Refuse(RequestOf(b))
  <1> DEFINE w == RequestOf(b)
  <1>1. /\ UNCHANGED <<disk, out, at, fname, chosen>> /\ Own(b) /\ pc[b] = "record"
        /\ key[b] = Target(b) /\ present
    BY StepsAreOwn DEF RecordWrite, Record, Step, Await, FilesInv, KeysResolved, RecordLives,
       Running, Active, Writing, registry, directory
  <1>2. b \in Asking /\ w \in AskedFor /\ UNCHANGED <<Contents, Given>>
    BY <1>1, SameDirectory DEF Asking, AskedFor
  <1>3. Target(b) \in Path /\ Content(b) \in Bytes
    BY <1>1, TargetType DEF TypeInv, Active
  <1>4. w.file = FileOf[Target(b)] /\ w.bytes = Content(b) /\ w.by = b
    BY DEF RequestOf
  <1>5. Sharing!Wanted(w) = [file |-> FileOf[Target(b)], bytes |-> Content(b)]
    BY <1>4 DEF Sharing!Wanted
  <1>6. Sharing!Conflicts(w) <=> Collides(key[b], Content(b))
    <2> HIDE DEF w
    <2>1. ASSUME Collides(key[b], Content(b)) PROVE Sharing!Conflicts(w)
      <3>1. [file |-> FileOf[Target(b)], bytes |-> written[Target(b)].bytes] \in Promised
        BY <1>1, <1>3, <2>1, HowItIsShared DEF Collides
      <3>2. written[Target(b)].bytes # Content(b)
        BY <1>1, <2>1 DEF Collides
      <3> QED
        BY <1>4, <3>1, <3>2 DEF Sharing!Conflicts
    <2>2. ASSUME Sharing!Conflicts(w) PROVE Collides(key[b], Content(b))
      <3>1. PICK q \in Promised : q.file = w.file /\ q.bytes # w.bytes
        BY <2>2 DEF Sharing!Conflicts
      <3>2. PICK p \in Path : written[p] # Unwritten
                              /\ q = [file |-> FileOf[p], bytes |-> written[p].bytes]
        BY HowItIsShared
      <3>3. p = Target(b)
        BY <1>3, <1>4, <3>1, <3>2 DEF ToldApart
      <3> QED
        BY <1>1, <1>4, <3>1, <3>2, <3>3 DEF Collides
    <2> QED
      BY <2>1, <2>2
  <1>7. CASE Collides(key[b], Content(b))
    <2>1. pc'[b] = "refused" /\ written' = written
      BY <1>7 DEF RecordWrite, Await, registry, TypeInv, TypeOK
    <2>2. AskedFor' = AskedFor \ {w}
      BY <1>1, <1>2, <2>1, Unasked DEF Writing
    <2>3. Refused' = Refused \cup {b}
      BY <1>1, <2>1, OthersAsk DEF Refused
    <2> QED
      BY <1>2, <1>4, <1>6, <1>7, <2>1, <2>2, <2>3, SameDirectory DEF Sharing!Refuse
  <1>8. CASE ~Collides(key[b], Content(b))
    <2>1. pc'[b] = "compare" /\ Record(b, Target(b), Content(b))
      BY <1>1, <1>8 DEF RecordWrite, Await, TypeInv, TypeOK
    <2>2. UNCHANGED <<AskedFor, Refused>>
      BY <1>1, <1>2, <2>1, StillAsked DEF Writing
    <2>3. Promised' = Promised \cup {Sharing!Wanted(w)}
      <3>1. CASE written[Target(b)] = Unwritten
        <4>1. written' = [written EXCEPT ![Target(b)] = [builder |-> b, bytes |-> Content(b)]]
          BY <1>1, <2>1, <3>1 DEF Record
        <4>2. /\ written'[Target(b)] # Unwritten /\ written'[Target(b)].bytes = Content(b)
              /\ \A p \in Path \ {Target(b)} : written'[p] = written[p]
          BY <1>3, <4>1, UnwrittenAssumption DEF TypeInv, TypeOK, RegistryTypeOK, GeneratedFile
        <4>3. \A x : x \in Promised' <=>
                 \E p \in Path : written'[p] # Unwritten
                                 /\ x = [file |-> FileOf[p], bytes |-> written'[p].bytes]
          BY DEF Promised
        <4> QED
          BY <1>3, <1>5, <3>1, <4>2, <4>3, HowItIsShared
      <3>2. CASE written[Target(b)] # Unwritten
        <4>1. written' = written /\ written[Target(b)].bytes = Content(b)
          BY <1>1, <1>8, <2>1, <3>2 DEF Record, Collides
        <4>2. Sharing!Wanted(w) \in Promised
          BY <1>3, <1>5, <3>2, <4>1, HowItIsShared
        <4> QED
          BY <4>1, <4>2, SameDirectory
      <3> QED
        BY <3>1, <3>2
    <2> QED
      BY <1>2, <1>6, <1>8, <2>2, <2>3 DEF Sharing!Promise
  <1> QED
    BY <1>2, <1>7, <1>8

(* A look at the file reports it when it is right, and a rename makes it so.   *)
LEMMA ComparingGives ==
    ASSUME TypeInv, FilesInv, NEW b \in Builder, Compare(b)
    PROVE  \/ UNCHANGED Sharing!vars
           \/ RequestOf(b) \in AskedFor /\ Sharing!Give(RequestOf(b))
  <1>1. UNCHANGED <<disk, written>> /\ Own(b) /\ pc[b] = "compare"
    BY StepsAreOwn DEF Compare, Step, registry, directory
  <1>2. CASE AlreadyThere(b)
    BY <1>1, <1>2, Gives DEF Compare, AlreadyThere
  <1>3. CASE ~AlreadyThere(b)
    <2>1. UNCHANGED <<at, fname, chosen, out>> /\ pc'[b] = "stage"
      BY <1>3 DEF Compare, Await, TypeInv, TypeOK
    <2>2. UNCHANGED <<AskedFor, Refused>>
      BY <1>1, <2>1, StillAsked DEF Asking, Writing
    <2> QED
      BY <1>1, <2>1, <2>2, SameDirectory DEF Sharing!vars
  <1> QED
    BY <1>2, <1>3

LEMMA StagingIsUnseen ==
    ASSUME TypeInv, NEW b \in Builder, Stage(b)
    PROVE  UNCHANGED Sharing!vars
  <1>1. /\ UNCHANGED <<disk, written, at, fname, chosen, out>> /\ Own(b)
        /\ pc[b] = "stage" /\ pc'[b] = "persist"
    BY StepsAreOwn DEF Stage, Await, Step, registry, directory, TypeInv, TypeOK
  <1>2. UNCHANGED <<AskedFor, Refused>>
    BY <1>1, StillAsked DEF Asking, Writing
  <1> QED
    BY <1>1, <1>2, SameDirectory DEF Sharing!vars

LEMMA RenamingGives ==
    ASSUME TypeInv, FilesInv, NEW b \in Builder, Persist(b)
    PROVE  RequestOf(b) \in AskedFor /\ Sharing!Give(RequestOf(b))
  <1>1. Own(b) /\ pc[b] = "persist" /\ key[b] = Target(b) /\ written' = written /\ Delivered(b)
    BY StepsAreOwn DEF Persist, Step, FilesInv, KeysResolved, Writing, registry
  <1>2. PICK name \in Path :
          /\ disk'[FileOf[Target(b)]] = [name |-> name, bytes |-> Content(b)]
          /\ disk'[FileOf[Target(b)]] # Absent
          /\ \A f \in File \ {FileOf[Target(b)]} : disk'[f] = disk[f]
    BY <1>1, Landing, ZenonT(60) DEF FilesInv
  <1> QED
    BY <1>1, <1>2, Gives

(* A record is begun anew only over a directory in which nobody has a stake.   *)
LEMMA BeginningStartsOver ==
    ASSUME TypeInv, FilesInv, NEW b \in Builder, Begin(b)
    PROVE  UNCHANGED Sharing!vars \/ Sharing!StartOver
  <1>1. PICK ok \in BOOLEAN : Open(ok)
    BY DEF Begin
  <1>2. UNCHANGED <<disk, out, at, fname, chosen>> /\ pc' = [pc EXCEPT ![b] = "resolve"]
        /\ pc[b] = "idle"
    BY DEF Begin, Await
  <1>3. /\ Asking' = Asking /\ Refused' = Refused
        /\ \A c \in Builder : RequestOf(c)' = RequestOf(c)
    BY <1>2, TargetSame DEF Asking, Refused, RequestOf, TypeInv, TypeOK
  <1>4. UNCHANGED <<AskedFor, Refused, Contents, Given>>
    BY <1>2, <1>3, SameDirectory DEF AskedFor, Asking
  <1>5. CASE present /\ ~StaleRecord
    BY <1>1, <1>4, <1>5, SameDirectory DEF Open, registry, Sharing!vars
  <1>6. CASE ~(present /\ ~StaleRecord)
    <2>1. AskedFor = {} /\ Given = {}
      BY <1>6 DEF FilesInv, RecordLives, AskedFor, Asking, Given, Running, Active
    <2>2. Promised' = {}
      BY <1>1, <1>6 DEF Open, Promised, NothingWritten
    <2> QED
      BY <1>4, <2>1, <2>2 DEF Sharing!StartOver
  <1> QED
    BY <1>5, <1>6

LEMMA RemovingRemoves ==
    ASSUME TypeInv, RemoveDir
    PROVE  Sharing!Remove
  <1>1. UNCHANGED <<Promised, Refused>> /\ Asking = {} /\ Asking' = {}
    BY SameDirectory DEF RemoveDir, Asking, Refused, Running, Active, registry, control
  <1>2. AskedFor = {} /\ AskedFor' = {}
    BY <1>1 DEF AskedFor
  <1>3. Contents' = {} /\ Given' = {}
    BY DEF RemoveDir, Contents, Given
  <1> QED
    BY <1>1, <1>2, <1>3 DEF Sharing!Remove

LEMMA RestartingRestarts ==
    ASSUME Restart PROVE Sharing!Restart
  <1>1. Contents' = Contents
    BY SameDirectory DEF Restart, directory
  <1>2. Promised' = {}
    BY DEF Restart, Promised, NothingWritten
  <1>3. Asking' = {} /\ Refused' = {} /\ Given' = {}
    BY DEF Restart, Asking, Refused, Given
  <1>4. AskedFor' = {}
    BY <1>3 DEF AskedFor
  <1> QED
    BY <1>1, <1>2, <1>3, <1>4 DEF Sharing!Restart

LEMMA InitShared == ASSUME Init PROVE Sharing!Init
  <1>1. Contents = {}
    BY DEF Init, Contents
  <1>2. Promised = {} /\ Asking = {} /\ Refused = {} /\ Given = {}
    BY DEF Init, NothingBuilt, EmptyRegistry, NothingWritten, Promised, Asking, Refused, Given
  <1>3. AskedFor = {}
    BY <1>2 DEF AskedFor
  <1> QED
    BY <1>1, <1>2, <1>3 DEF Sharing!Init

LEMMA NextShared ==
    ASSUME Dependable, TypeInv, FilesInv, [Next]_vars
    PROVE  [Sharing!Next]_Sharing!vars
  <1>1. ASSUME NEW b \in Builder,
               \/ BeginFails(b) \/ SkipBridge(b) \/ Codegen(b) \/ Cxxgen(b) \/ CodegenFails(b)
               \/ OfferName(b) \/ ClaimName(b) \/ ReofferName(b)
               \/ NextNumber(b) \/ GrabNumber(b)
        PROVE  UNCHANGED Sharing!vars
    <2>1. Own(b) /\ Quiet(b)
      BY <1>1, StepsAreOwn, QuietSteps DEF Step
    <2>2. pc[b] # "refused"
      BY <1>1 DEF BeginFails, SkipBridge, Codegen, Cxxgen, CodegenFails, OfferName, ClaimName,
         ReofferName, NextNumber, GrabNumber
    <2> QED
      BY <2>1, <2>2, QuietIsShared
  <1>2. ASSUME NEW b \in Builder, Begin(b) PROVE [Sharing!Next]_Sharing!vars
    BY <1>2, BeginningStartsOver DEF Sharing!Next
  <1>3. ASSUME NEW b \in Builder, ResolveTarget(b) PROVE Sharing!Next
    BY <1>3, ResolvingAsks DEF Sharing!Next
  <1>4. ASSUME NEW b \in Builder, RecordWrite(b) PROVE Sharing!Next
    BY <1>4, RecordingPromises DEF Sharing!Next, Dependable
  <1>5. ASSUME NEW b \in Builder, Compare(b) \/ Stage(b) \/ Persist(b)
        PROVE  [Sharing!Next]_Sharing!vars
    BY <1>5, ComparingGives, StagingIsUnseen, RenamingGives DEF Sharing!Next
  <1>6. ASSUME NEW b \in Builder, WriteFails(b) \/ ForgetWrite(b) PROVE FALSE
    BY <1>6 DEF WriteFails, ForgetWrite, Dependable, FilesInv, NeverForgets
  <1>7. CASE RemoveDir
    BY <1>7, RemovingRemoves DEF Sharing!Next
  <1>8. CASE Restart
    BY <1>8, RestartingRestarts DEF Sharing!Next
  <1>9. CASE UNCHANGED vars
    <2>1. \A c \in Builder : RequestOf(c)' = RequestOf(c)
      BY <1>9, TargetSame DEF vars, control, RequestOf
    <2>2. Asking' = Asking /\ Refused' = Refused
      BY <1>9 DEF vars, control, Asking, Refused
    <2>3. AskedFor' = AskedFor
      BY <2>1, <2>2 DEF AskedFor, Asking
    <2> QED
      BY <1>9, <2>2, <2>3, SameDirectory DEF vars, registry, directory, Sharing!vars
  <1> QED
    BY <1>1, <1>2, <1>3, <1>4, <1>5, <1>6, <1>7, <1>8, <1>9 DEF Next, Step

(* Builders share the directory as SharedDirectory says, however many run at   *)
(* once and wherever they are killed: the record, which is asked under a lock  *)
(* after the path was resolved without it, the look at the file and the rename *)
(* amount to one promise and one delivery each.                                *)
THEOREM BuildersShareTheDirectory == ASSUME Dependable PROVE Spec => FirstWriterSettles
  <1>1. Init => Sharing!Init
    BY InitShared
  <1>2. TypeInv /\ FilesInv /\ [Next]_vars => [Sharing!Next]_Sharing!vars
    BY NextShared
  <1>3. TypeInv /\ FilesInv /\ [Next]_vars => FilesInv'
    BY NextFilesInv
  <1> QED
    BY InitTypeInv, NextTypeInv, InitFilesInv, <1>1, <1>2, <1>3, PTL
       DEF Spec, FirstWriterSettles, Sharing!Spec

(* Sharing a directory in this way is enough: of SharedDirectory alone, that   *)
(* what a builder was given stays as it was given.                             *)
LEMMA PromisesAreKept ==
    ASSUME Sharing!Promises, Sharing!Kept, [Sharing!Next]_Sharing!vars
    PROVE  (Sharing!Promises /\ Sharing!Kept)'
  <1> USE DEF Sharing!Promises, Sharing!Kept
  <1>1. ASSUME NEW w \in AskedFor
        PROVE  w \in Sharing!Write /\ Sharing!Wanted(w) \in Sharing!FileWith
               /\ Sharing!Wanted(w).file = w.file /\ Sharing!Wanted(w).bytes = w.bytes
    BY DEF Sharing!Write, Sharing!Wanted, Sharing!FileWith
  <1>2. CASE Sharing!Ask
    BY <1>2 DEF Sharing!Ask
  <1>3. ASSUME NEW w \in AskedFor, Sharing!Promise(w) PROVE (Sharing!Promises /\ Sharing!Kept)'
    <2>1. \A p \in Promised : p.file = w.file => p = Sharing!Wanted(w)
      BY <1>1, <1>3 DEF Sharing!Promise, Sharing!Conflicts, Sharing!FileWith
    <2> QED
      BY <1>1, <1>3, <2>1 DEF Sharing!Promise
  <1>4. ASSUME NEW w \in AskedFor, Sharing!Refuse(w) PROVE (Sharing!Promises /\ Sharing!Kept)'
    BY <1>4 DEF Sharing!Refuse
  <1>5. ASSUME NEW w \in AskedFor, Sharing!Give(w) PROVE (Sharing!Promises /\ Sharing!Kept)'
    <2>1. Sharing!Promises'
      BY <1>1, <1>5 DEF Sharing!Give
    <2>2. ASSUME NEW g \in Given', NEW f \in Sharing!FileWith, f.file = g.file
          PROVE  f \in Contents' <=> f = Sharing!Wanted(g)
      <3>1. g \in Sharing!Write /\ Sharing!Wanted(g) \in Promised /\ Sharing!Wanted(g).file = g.file
        BY <1>1, <1>5, <2>2 DEF Sharing!Give, Sharing!Write, Sharing!Wanted
      <3>2. CASE g.file = w.file
        BY <1>1, <1>5, <2>2, <3>1, <3>2 DEF Sharing!Give
      <3>3. CASE g.file # w.file
        BY <1>1, <1>5, <2>2, <3>1, <3>3 DEF Sharing!Give
      <3> QED
        BY <3>2, <3>3
    <2> QED
      BY <2>1, <2>2 DEF Sharing!FileWith
  <1>6. CASE Sharing!StartOver
    BY <1>6 DEF Sharing!StartOver
  <1>7. CASE Sharing!Remove
    BY <1>7 DEF Sharing!Remove
  <1>8. CASE Sharing!Restart
    BY <1>8 DEF Sharing!Restart
  <1>9. CASE UNCHANGED Sharing!vars
    BY <1>9 DEF Sharing!vars
  <1> QED
    BY <1>2, <1>3, <1>4, <1>5, <1>6, <1>7, <1>8, <1>9 DEF Sharing!Next

THEOREM SharingKeepsFiles == FirstWriterSettles => []Sharing!Kept
  <1>1. Sharing!Init => Sharing!Promises /\ Sharing!Kept
    BY DEF Sharing!Init, Sharing!Promises, Sharing!Kept
  <1>2. Sharing!Promises /\ Sharing!Kept /\ [Sharing!Next]_Sharing!vars
        => (Sharing!Promises /\ Sharing!Kept)'
    BY PromisesAreKept
  <1> QED
    BY <1>1, <1>2, PTL DEF FirstWriterSettles, Sharing!Spec
===============================================================================

# A TLA+ model of autocxx

autocxx generates Rust bindings for C++ headers. A user names what they want in
an `include_cpp!` block. At build time a `Builder` (from `build.rs`) or the
`autocxx-gen` command parses the Rust file, runs bindgen over the headers,
turns what bindgen says into a list of APIs, analyses that list in some twenty
passes, and writes C++ glue and Rust bindings. At compile time the
`include_cpp!` macro includes the bindings; at run time a small library moves
values between the two languages and ties the lifetimes of Rust subclasses of
C++ classes to their C++ halves.

This directory holds TLA+ modules which model that program from its source,
TLC configurations which check them on small instances, and proofs TLAPS checks
for every instance.

## 1. Inventory

### 1.1 Writing generated files (build time, one or several threads of a process)

| part | source | state | operations |
|---|---|---|---|
| Output registry | `engine/src/output_registry.rs` | a process-wide map from generation directory to names taken and writes accepted, under a lock | `open`, `claim`, `record`, `forget`, path resolution |
| Atomic write | `engine/src/atomic_write.rs` | a staged file beside its destination | stage, rename |
| Builder | `engine/src/builder.rs` | where it is, numbers and names used, files written | `build_listing_files`, `write_to_file`, the cxxgen naming loop, the `gen{n}.cxx` loop |
| Engine | `engine/src/lib.rs`, `cxxbridge.rs` | `NotGenerated`, `ParseOnly` or `Generated`, per block | `generate`, `generate_h_and_cxx`, `get_rs_output` |
| Parsed file | `engine/src/parse_file.rs` | the blocks of a Rust file | `parse_file`, `resolve_all`, discovery |
| Command | `gen/cmd/src/main.rs`, `depfile.rs` | outputs claimed, names used, the `.d` file | one run, from parsing to the depfile |
| Archive | `parser/src/multi_bindings.rs`, `engine/src/output_generators.rs` | block hash to bindings | `insert`, `get` |
| Macro | `macro/`, `parser/src/file_locations.rs` | none: it finds a file by name or bindings by hash | `make_include` |

Builders of one process share a directory and the registry; a build script
calls them one after another or from threads. The command and the macro are
separate processes which share files only. Hard: another builder between two
steps of a write, a write which fails, a process killed part way, a directory
removed and made again, a filesystem which ignores case, two halves which
number the same outputs separately.
Correct means: nobody loses or mixes up a file he was told was written.

### 1.2 The conversion pipeline (build time, one block, one thread)

`engine/src/conversion/mod.rs` runs, in order: the conversion of bindgen's
output (`conversion/parse`), typedefs (`analysis/tdef`), POD analysis
(`analysis/pod`), statics, casts, field accessors, allocators, function
analysis (`analysis/fun`, with special members), abstract types, ownership,
constructor dependencies, removal of ignored functions, name checks, removal of
what depends on ignored items, collection from the allowlist, the check of the
directives, ctypes, and C++ and Rust code generation. Its state is one `ApiVec`;
a pass maps it to the next, so passes interact through what one leaves in the
list for the next.

| part | source | correct means |
|---|---|---|
| API list | `conversion/apivec.rs`, `api.rs` | one API for each name; a displaced one is accounted for |
| What bindgen reports | `engine/src/parse_callbacks.rs`, `conversion/parse` | a report reaches the item it is about; no declaration vanishes without a word |
| Typedefs, type converter | `analysis/tdef.rs`, `type_converter.rs`, `known_types.rs` | an alias means what it finally names; what reaches a signature cxx can say and C++ can destroy |
| POD analysis | `analysis/pod` | what Rust holds by value C++ allows to be relocated |
| Synthesized functions | `analysis/casts.rs`, `field_accessors.rs`, `allocators.rs`, `statics.rs` | what is added beside the header's own functions does not collide with them and does what its name says |
| Special members | `analysis/fun/implicit_constructors.rs` | what is offered exists in C++ and may be called |
| Function analysis, names | `analysis/fun`, `bridge_type_names.rs`, `name_check.rs` | distinct functions keep distinct names |
| Abstractness, ownership | `abstract_types.rs`, `destructibility.rs` | nothing makes an object of an abstract class; nothing is owned which cannot be destroyed |
| Pruning | `remove_ignored.rs`, `gc.rs`, `mod.rs` | the output is closed under dependency, and no directive fails silently |
| Code generation | `codegen_cpp`, `codegen_rs` | the two sides agree on every signature; what is safe to call says so; and, at run time, what §1.3 says |

Hard: fixpoints which must find the right answer whatever the order of the
items, an item dropped in one pass which another still refers to, C++ rules with
exceptions to exceptions, loops which must end on cyclic graphs.

### 1.3 The run-time library (the user's process)

| part | source | state |
|---|---|---|
| Subclasses | `src/subclass.rs` and the C++ of `codegen_cpp` | who owns whom between a Rust object and its C++ peer, the borrow flag, the calls in progress |
| Value parameters | `src/value_param.rs`, `src/rvalue_param.rs`, the wrapper of `codegen_rs/function_wrapper_rs.rs` | a stack slot for each parameter and whether it is populated |
| Fallible construction | `src/fallible.rs` | the result's place, and a drop flag |
| Reference wrappers, volatile cells, argv | `src/reference_wrapper.rs`, `volatile.rs`, `argv.rs` | none which changes |

Hard: destructors which call back into the other language, a constructor which
throws half way, a parameter which panics after others were built.

### 1.4 Parsing and tools

The parser (`parser/`), the macro, and the tools (`tools/`) are sequential. What
the parser makes of the directives (`parser/src/config.rs`, `directives.rs`)
decides what the pipeline keeps. It is also state: the engine may be asked to
generate again after a failure, and the notes of which directive has matched
something then outlive the attempt which made them.

## 2. Modules

### 2.1 Which module models what

| module | models | uses |
|---|---|---|
| `OutputRegistry` | the registry, each call one step at its lock | |
| `BuildScript` | builders on threads: naming, numbering, writing, failing, being killed | `OutputRegistry`, `SharedDirectory` |
| `SharedDirectory` | what builders which share a directory owe each other, whatever they keep a record of | |
| `GenTool` | runs of `autocxx_gen` and what the macro then finds | |
| `Directives` | the configuration: what directives leave in it, match, and look like written out again | |
| `BindgenReports` | bindgen's callbacks, and the index by name made of them | |
| `BindgenParse` | one block from its directives to the list of APIs, with retries | `Directives`, `BindgenReports`, `ApiVec` |
| `ApiVec` | the list of APIs: what happens when a name is taken | |
| `KnownTypes` | the table of types known without a header | |
| `TypeConversion` | the type converter and the passes which feed it | `KnownTypes` |
| `PodAnalysis` | `ByValueChecker` and the pass which acts on it | |
| `Conversions` | how one parameter or result crosses | `KnownTypes` |
| `Signatures` | what becomes of one signature | `Conversions` |
| `FunctionNames` | a function's names, and the trackers of names taken | `Signatures` |
| `SynthesizedFunctions` | casts, getters, allocators | `FunctionNames`, `ApiVec` |
| `FunctionAnalysis` | `FnAnalyzer`'s passes over a library | `SynthesizedFunctions` |
| `BridgeNames` | the last word on names | `FunctionAnalysis` |
| `WrapperGeneration` | the declarations and wrappers written in the two languages | `BridgeNames` |
| `CppClasses` | what C++ itself says of a header's classes (the standard, not autocxx) | |
| `ClassAnalysis` | the passes from special members to `discard_ignored_functions` | `CppClasses` |
| `Pruning` | `remove_ignored`, `gc` and the check of the directives, step by step | `Withdrawal` |
| `Withdrawal` | what a filter of unsupported items promises, whatever loop it runs | |
| `SubclassPair` | a Rust value and its C++ peer, with user code between all steps | |
| `ByValueCall` | one generated wrapper call, from its first slot to the end of the result's scope | |
| `MC*` | constants for TLC | |
| `*Proofs` | theorems about the module of that name | |

Three stacks compose interacting components: `BuildScript` over
`OutputRegistry`; `BindgenParse` over `Directives`, `BindgenReports` and
`ApiVec`; and `WrapperGeneration` over everything from the known types through
signatures, names and the function passes, so that a property of what the
generators write is a property of a whole pipeline. `BuildScript` implements
`SharedDirectory`, and `Pruning` implements `Withdrawal`.

### 2.2 How state and actions follow the code

* **`BuildScript`**: `pc[b]`, `at[b]` are where builder `b` is in
  `build_listing_files` and `write_to_file`. A step ends where the code takes
  the registry's lock or touches the disk. `OfferName` / `ClaimName` /
  `ReofferName` are the naming loop, `NextNumber` / `GrabNumber` the numbering
  one; `ResolveTarget`, `RecordWrite`, `Compare`, `Stage`, `Persist`,
  `WriteFails` and `ForgetWrite` are `write_to_file`. `key[b]` is a path resolved
  *before* the lock, as the code does. A generated file is identified by what
  was generated and for which block; `FileOf` says which spellings the
  filesystem takes for one file.
* **`GenTool`**: `phase` is the stage of `main`; `ParseInput`, `Generate`,
  `ListOutputs`, `AddOutput`, `WriteOutput`, `WriteDepfile` are its loops'
  bodies, `Fail` any error or kill, `Rerun` the build calling it again on the
  same sources or edited ones. Contents are what they were made from.
* **`BindgenParse`**: `StartGenerating` is one attempt of
  `IncludeCppEngine::generate`, with the header bindgen finds this time;
  `ReportItem` one callback, in any order, under the C++ name bindgen has for an
  item, from which `DenoteCppName` takes the mark of a function; `BindgenFails`
  and `StartConverting` bindgen's end. `Parse` is one step of the walk over the
  emitted mods, `frames` its recursion; `FinishParsing` resolves what had to wait
  for the end. `Analyse` stands for the passes in between: they may give up any
  API. `Confirm` is the series of confirmations. `matched` belongs to the block,
  not to the attempt, as the `Cell`s beside the directives do.
* **`TypeConversion`**: `Convert` is the converter, a function of a type, a
  context and a converter to a result and the converter afterwards; the actions
  `ConvertTypedef`, `ConvertField`, `ExposeStatic` and `ConvertSignature` are one
  call each, and the `End` actions are what a pass does when its loop is over.
  Each of the three passes which convert starts with a converter of its own,
  as the code builds one, while `concrete` and `apis` carry over.
* **`PodAnalysis`**: one action for one turn of each of the checker's loops.
  `stack` and `progress` are the depth-first order made by hand, `results` what
  is recorded for each type, `requests` the stack of `satisfy_requests`.
* **`FunctionAnalysis`**: `todo` is what the pass in `phase` has left. One action
  analyses one function and whatever the code analyses in the same breath (the
  subclass functions and trait items of a virtual method). `overloads` and
  `bridge` are the two trackers all passes share, which is how one pass may
  take a name another expected. `SynthesizedFunctions` is part of its initial
  work, as those passes run before it.
* **`BridgeNames`, `WrapperGeneration`**: no state of their own. They are what
  the last passes and the generators make of the final list, as functions of
  `apis`; their properties are about that list.
* **`ClassAnalysis`**: one action for each pass, since nothing happens between
  the steps of one. `found` is `all_items_found`; functions which are to be
  ignored stay in `apis` with `ok = FALSE`, as `ignore_reason` keeps them, until
  `DiscardIgnored`. Inside a pass, `FieldsAndBasesFirst` is the queue of
  `depth_first.rs`, from a list in the wrong order.
* **`Pruning`**: an API is its place in the list. `DropDependent`, `DropUnknown`,
  `Keep` are the three branches for one API, `NextPass` the `while` loop,
  `Follow` one turn of the collector's. Orders the code leaves to hash maps are
  left open.
* **`SubclassPair`**: `stack` holds the calls in progress, so that a callback, a
  Drop or a destructor may run inside any other call; `obs` is the peer's
  holder, which `relinquish_ownership` exchanges and the destructor destroys.
* **`ByValueCall`**: `pc` and `at` walk the wrapper: `Reserve`, `Populate` each
  parameter, `TakePointer` from each, the call, `Cleanup` in reverse.
  `object[i]` is the C++ object of a parameter; unwinding starts at the
  parameter which panicked.

### 2.3 Reference definitions

Where a component computes something, its properties compare it with a
definition made another way. `CppClasses` shares one operator with the code,
`Resolved` (following typedefs); everything else in it is written from the rules
of C++: subobjects, final overriders, which special members are declared,
deleted and selected. `PodAnalysis` is compared with reachability over the
program (`Closure`), which has no order, no stack and no results. `TypeConversion`
is compared with a type written out in full, typedefs and all, with no
converter. `WrapperGeneration` compares the two generators with each other and
with the declaration in the header. The imports of `FunctionAnalysis` are
compared with C++'s name lookup.

### 2.4 The refinements

`SharedDirectory` says: a file is promised the contents its first writer asks
for; who asks for the same is given them, who asks for others is refused; and
promises are dropped only when nobody has a file or asks for one, or when the
process ends. It has no registry, no lock, no staged file and no look at the
disk. `BuildScript` instantiates it (`FirstWriterSettles`) with `contents` mapped
to the files as found by name, `promised` to the registry's record, `asked` to
the writes in progress, and `given` to what builders have reported. The run
`builders_at_once` checks the refinement, and the theorem
`BuildersShareTheDirectory` proves it for any builders, under `Dependable`,
without which it is false (`forgotten_write`).

`Withdrawal` says: items leave a list one at a time, each because something it
names is not there to be named or because it was bad from the start, until
nothing left names anything missing; and that point is reached. It has no
passes, no order and no memory of why. `Pruning` instantiates it (`Withdraws`)
with `left` mapped to the APIs neither ignored nor dropped so far, across the
passes, and `settled` to the loop's end. The run `pruning` checks the whole of
it, the promise to settle included; the theorem `FilterIsWithdrawal` proves its
safety half for lists of any length.

## 3. Runs

| run | question | instance | distinct states |
|---|---|---|---|
| `builders_at_once` | does a file keep what its first writer gave it however builders interleave, and is nobody refused a name autocxx chose? | 3 builders, 2 running at once; two write the same names, the third is named apart and has a `cxx::bridge` | 1,005,393 |
| `builders_in_turn` | do files survive failures, kills, a directory made again and a filesystem which ignores case? | 2 builders, one at a time; any write and the marker may fail, one kill, a namer which repeats itself | 42,415 |
| `forgotten_write` | (violation) a failed write and a third builder | 3 builders at once | |
| `subclass_pairs` | does a pair live exactly as long as somebody owns it? | each ownership model, 3 handles, 5 nested calls | 1,277 |
| `by_value_call` | is every object passed built, handed over and destroyed once? | 3 parameters of 7 kinds, 3 places for a result, with and without `throws!` | 19,232 |
| `gen_outputs` | does every block find its own bindings, and is a run refused only for cause? | one or two of 13 files, 2 runs, three ways of naming outputs, any failure or kill | 768,188 |
| `bindgen_parse` | does what bindgen and the user said reach the right items, and is every directive answered? | overloads and nested classes in a namespace; every kind of item the walk treats specially; a header which changes between two attempts; `noexcept` under long argument lists; blocks which are mostly directives | 73,090 |
| `type_conversion` | can cxx say and C++ destroy what the converter accepts, and is an instantiation one type? | 6,075 libraries | 70,817 |
| `pod_analysis` | is POD closed under holding, and every verdict deserved? | 3,812 libraries of 4 user types in three orders | 91,750 |
| `functions` | do names stay apart, do imports follow C++, and do the generated sides agree? | 4,840 libraries (below) | 100,404 |
| `class_analysis` | is what Rust is offered what C++ has? | 17,248 headers of up to 4 classes | 120,736 |
| `pruning` | does the tail of the pipeline keep exactly what it should, and end? | all graphs of 3 APIs, cycles included, chains and loops of 4 against the order of the list, subclasses: 1,245 lists | 22,017 |

The libraries of `functions` are of three sorts. *Names*: overloads and keywords
in every order; bases whose members are hidden, merged or imported twice;
subclasses of classes whose methods are called like autocxx's own; template
instantiations; types and functions of one name in two namespaces. *Signatures*:
one function with every form of parameter (value, pointer, reference, rvalue,
volatile, string view, const value, of a class with and without a copy, a POD,
an enum, an integer and a string) and of result, as a free function, static,
method, const method, constructor, superclass constructor and virtual method,
under each of the three policies for unsafe functions. *Data members*: one of
every form a getter could return and of those it could not.

The libraries of `type_conversion`: every marker, container and instantiation
alone and behind a reference; through each sort of typedef, and a typedef of a
typedef; two instantiations in either order; members which bar a class; one and
two variables, which the header may have wrapped in something of the same name.

**Why the bounds are enough.** Two builders running make every pairwise race
between steps, and the third is what the races over a *record* need: one which
relied on it and one which comes after. (`MCNumber`, the highest number a
builder may try, is above what any run takes.) Three handles and five nested
calls let each kind of call run inside each other one twice; beyond that there
are the theorems. Three parameters have a first, a middle and a last, so that a
panic has something before and after it. Two runs of the command make every
"left over from before", and so do two attempts of one block (`MaxAttempts`). In
`Pruning`, three APIs make every shape of a cycle and a chain of four takes
several passes. In `ClassAnalysis` a rule looks at a class's direct parts, and
what is found of those came from the same rule one class before: a leaf, a class
which holds it and one which holds that exercise each rule on its own result,
and abstractness, which is about diamonds, gets four classes with every
combination of virtual and plain inheritance. In `PodAnalysis` a verdict passes
from a type to what holds it: a bottom with every fact bindgen reports, a
middle, a top and a typedef, in orders which put each before and after what it
needs. In `TypeConversion` a result depends on the type and on the
instantiations named before it, so that two in either order, through at most two
typedefs, meet each branch with each memory. A function's signature does not
depend on other functions, so one at a time is every signature; its name does,
on those of its scope, so there the libraries have several.

Deadlock checking is off where the modelled program ends: a call returns, a
build or a run is over, the passes have run, a pair is gone.

**Fairness.** `BuildScript` takes weak fairness of each builder's own steps: a
builder which has begun is a thread which runs until it returns, and every lock
is held for a bounded time. Whether it is ever begun, killed, or has its
directory removed is not assumed. `Pruning` and `PodAnalysis` take weak fairness
of their one thread, a loop in a sequential program. No other module claims
liveness.

**Changes the runs detect.** Every property of a passing run comes with at least
one changed definition (the operators called `Mut_...`, beside what they
change), each a slip one could make in that code: a dropped guard, a wrong
bound, a missing reset, a swapped order. `PROJECT.json` says which property
catches which.

## 4. Where code and words disagree

`forgotten_write` is listed as a run: two builders generate the same bytes for
a file; the first to record it then fails to write it and forgets the record, on
which the second, whose write succeeded, relied. A third builder's different
bytes are then accepted over it (`output_registry.rs:217`).

The others are configurations kept beside it, whose invariants TLC finds
violated (`-continue` shows all of `MCFunctionGaps` and `MCConfusedNames`). The last column says what
the passing runs do about it.

| configuration | module, invariant | what happens | in the passing runs |
|---|---|---|---|
| `MCTwoSpellings` | `MCBuildScript`, `KeepsItsFiles` | a path is resolved before the lock and before the file exists, so on a filesystem which ignores case two builders at once register two spellings of one file (`output_registry.rs:172`) | names told apart, or one builder at a time |
| `MCSubclassDrop` | `SubclassPair`, `ObsIsWhole` | deleting a C++-owned peer destroys `obs`, which drops the Rust value; a Drop which calls a C++ method of its peer that calls a virtual method back meets `obs` half destroyed | `CallsInDrop` |
| `MCVirtualBase` | `MCClassAnalysis`, `OfferedIsAllowed` | default, copy and move constructors are asked of direct bases only, though a most derived class constructs its virtual bases itself: `L() = delete; struct T : virtual L { T(); }; struct D : T {}` has autocxx claim `D()`, which C++ deletes | `RestrictedFromAfar` |
| `MCAliasArgument` | `MCTypeConversion`, `AnAliasIsTheSameArgument` | a template argument written as a typedef of something indestructible passes where the type itself is refused: a refused alias is forgotten (`type_converter.rs:2417`) | `BoundDestroysOnlyWhole` asks it only of the aliases which were not refused |
| `MCFunctionGaps` | `MCFunctionSignatures`, `ReferencesComeFromOne` | a function returning a reference with a volatile or string view parameter beside a reference is bound, against the comment that there must be exactly one (`fun/mod.rs:3091`) | they do not ask how many references there are, but what a result is tied to |
| `MCFunctionGaps` | `MCFunctionSignatures`, `CastsHaveOneWayUp` | a cast is made to a direct base which is also an indirect one, which C++ finds ambiguous (`casts.rs:53`) | `TheTwoSidesAgree` does not ask it of such a cast |
| `MCConfusedNames` | `MCBindgenParse`, `NoneIsUnreported` | a class and a function of one name share a key of the index and the later report wins, so the class's layout reads as never reported (`parse_callbacks.rs:790`) | `HasNameToItself` |
| `MCConfusedNames` | `MCBindgenParse`, `CppNamesAreOriginal` | `_bindgen_original` is taken off every C++ name reported, types' included, with whatever follows it: a class really called `A_get_bindgen_original` is recorded as `A_get`, and `C_bindgen_original::I` as `C` (`parse_callbacks.rs:961`, whose comment and that of `integration_test.rs:34174` concede it) | one such class is in them; `ReportsReachTheirOwner` asks everything of it but its C++ name (`NamedLikeARename`) |
| `MCConfusedNames` | `MCBindgenParse`, `DirectivesAreAnswered` | where such a class is nested, the shortened name is one of the spellings directives are matched with: `block_functions!("I::get")` counts as answered by a method of `A::I_bindgen_original`, and `A::I` is two APIs to `extern_cpp_type!` | no nested class has such a name |

Five more were met while modelling. Of the first the passing run of `GenTool`
has instances, without asking whether the tool panics; the instances leave the
others out, and no configuration shows any of them:

* `--gen-cpp` panics on a file with a `parse_only!` block (the result `"panic"` of
  `GenTool`), where such a block only generates nothing;
* a `using Base::x;` naming a *data member* of a base which is not POD imports
  the getter made for it, as a call `x()` in C++ (`fun/mod.rs`, the import of
  members named by using declarations, against the comment above it);
* an accessor's ideal name is reserved in the scope of the free functions,
  because its `self_ty` is not set yet, where the comment says it is reserved in
  its class's (`reserve_ideal_names`);
* a getter for a public `volatile T*` member does not compile, which
  `field_accessors.rs` admits;
* the check of names looks at the first of a type's fixed names only, so that a
  subclass's second one colliding with a Rust type is not reported
  (`name_check.rs:108`).

## 5. What is proved

TLAPS checks these for every value of the constants. "Assuming" is beyond the
named assumptions on constants.

| module | theorem | says | assuming |
|---|---|---|---|
| `BuildScriptProofs` | `TypeCorrect` | types; no builder is sent to a block it does not have | |
| | `FilesAreKept` | every builder finds the files it reported, whatever the number of threads, kills and removed directories | `Dependable`: spellings told apart, writes succeed |
| | `FilesAreKeptInTurn` | the same, on any filesystem and whichever write fails | `OneByOne`: builders run one at a time |
| | `OnlyWholeFilesLand` | a file changes only to complete contents, which its record names | `OneByOne` or `Dependable` |
| | `RefusalsHaveGrounds` | a builder is refused only over a file another one wrote, or is writing, differently | `OneByOne` or `ToldApart` |
| | `ChosenNamesAreOwn` | nobody is refused a name autocxx chose, whatever fails and however many run | `ToldApart`, `NamesApart`, `RepeatersKeepApart` |
| | `BuildersShareTheDirectory` | builders on threads, killed and started again at any step, implement `SharedDirectory` | `Dependable` |
| | `SharingKeepsFiles` | what `SharedDirectory` asks is enough for everyone to find what he was given | |
| `GenToolProofs` | `TypeCorrect` | types, for any inputs | |
| | `RefusalsCostNothing` | a run refused before it writes leaves every file as it was (`RefusedBeforeWriting`, half of `RefusalIsJust`) | |
| | `RefusalsAreOverNames` | and it is refused over names only where the names of two blocks reach one file | `NamesReachThemselves`, `OnlyModsAreFolded` |
| | `WhatIsListedIsThere` | a `.d` file lists what its own run wrote | `NamesReachThemselves` |
| | `BlocksFindBindings` | every block finds its own bindings after a run which succeeds | `NamesReachThemselves` |
| `PodAnalysisProofs` | `TypeCorrect` | types, for any libraries | |
| | `PodStaysClosed` | what is asked for is POD all the way down, to the checker (`PodIsClosed`) | |
| | `PodAllTheWay` | and to everything which asks it (`PodAllTheWayDown`) | `BlobsAreUnnamed` |
| | `VerdictsAreJust` | nothing becomes POD which has a flaw, and a refusal names a flaw of something requested (`VerdictIsJust`) | `NothingHoldsItself` |
| `ClassAnalysisProofs` | `TypeCorrect` | types, for any header | |
| | `VirtualDestructorsAreCpps` | going over the list as often as it is long finds exactly the virtual destructors C++ has | |
| | `DestructorsKnown` | a destructor is called virtual exactly when it is, and one left out as trivial does nothing (`DestructorsAreKnown`) | |
| | `EveryClassIsAnalyzed` | the walk over classes gives each its turn, in whatever order they are listed | |
| | `DependenciesRemain` | what a class is recorded to depend on is there in the end (half of `NothingIsLost`) | |
| `BindgenParseProofs` | `NothingEverVanishes` | every declaration bindgen emits is an API once the walk is over, and stays one through the confirmations, in any number of attempts | |
| | `ReproductionIsFaithful` | what is written into a reproduction case is read back as the configuration it came from, whatever directives made it (`ReproductionSaysTheSame`) | |
| `ByValueCallProofs` | `TypeCorrect` | types, for any number of parameters | |
| | `OnlyObjects` | C++ is called only with objects; no handler destroys what was not built, or twice | |
| | `EveryCallEndsWell` | what is left over after a call, and how its exceptions come out | |
| `PruningProofs` | `TypeCorrect` | types, for lists of any length | |
| | `OnlyWhatMustGoes` | what is dropped is in every set closed under the rules | |
| | `FilterIsWithdrawal` | the loop implements `Withdrawal!Safety` | |
| | `ReasonsAreTrue` | the reason given is an original fault which the API reaches | |
| | `KeptStaysClosed` | what is left names nothing dropped | `PeersSurvive` of every list |
| | `OutputIsExactlyWhatIsNeeded` | the output is closed, and nothing in it is unreachable | `PeersSurvive` of every list; who declares a name answers to one |
| | `VerdictsAreJust` | a refused directive was rightly refused | |
| `SubclassPairProofs` | `HoldersAreWhole` | a virtual call never finds `obs` in pieces | `QuietUnderDelete` |
| | `LivesExactlyWhileOwned` | the value lives as long as somebody is entitled to it and no longer | `QuietUnderDelete` |
| | `DropsAreUnborrowed` | no Drop starts under a borrow | `QuietUnderDelete` |
| | `PairsAreFreed` | a pair nobody owns is freed on both sides | `QuietUnderDelete` |

*FilesAreKept.* `KeepsItsFiles` is about what is on disk and what has been
reported; nothing in it prevents a step from overwriting a file. The
strengthening `FilesInv` adds that a path resolves to itself (`OwnNames`,
`KeysResolved`), that from `record` to rename and ever after the record says what
is written (`WritesRecorded`, `OutRecorded`), that nothing is forgotten
(`NeverForgets`, where writes succeed), and that the record is not dropped while a
builder runs or has files to lose (`RecordLives`). A rename over a reported file
then needs two records of different bytes for one path. `forgotten_write` and
`MCTwoSpellings` drop each half of `Dependable` in turn, so both are needed.

*Sharing a directory.* That concurrent builders implement `SharedDirectory`
rests on `FilesInv`: `Contents` is what is found by name (paths resolve to
themselves), a write asked for is one between `record` and its report, and one
lemma for each kind of step says which abstract action it is. `RecordWrite` is a
promise, or a refusal where the record conflicts; the staged file is not seen; the
rename is `Give`, and so is a look at the disk which finds the file to say
already what would be written. `SharingKeepsFiles` is
then about the abstract specification alone: one thing at most is promised of a
file, and what was given is promised still.

*Builders in turn, refusals, whole files.* Where writes fail or spellings are
confused, `FilesInv` does not hold: a file may go by another spelling than the
one a builder uses. `HeldInv` is what is left and needs less: while the marker
stands, whoever owns a record either holds that file now or has reported it with
those bytes (`OwnersHold`), so a refusal over a record is a refusal over
somebody's file. `TurnInv` adds, for builders one at a time, that what is being
written is on record and not there yet, and that a reported file is on record
*under the name its file goes by* (`OutOnRecord`), which is what `record` compares
with whatever spelling it is given. `OnlyRecordedBytesLand` and `RefusalsAreJust`
are about steps, so they are proved from these of each step.

*Names.* `NamesInv` says that every number taken was taken once, by one builder
for one block (`NumbersAreOwn`); that what is written is among what was taken
(`WrittenIsTaken`); and that a header name belongs to one block (`HeadersAreOwn`)
of a builder whose namer never repeats itself. The three hypotheses are about
names only: file names are told apart, autocxx's `gen{n}` and headers are not
among those a user gives (`NamesApart`), and a namer which repeats itself offers
names nobody else is offered (`RepeatersKeepApart`). All three hold of the
builders of `builders_at_once`.

*GenTool.* `UntouchedInv` says that the disk is as the run found it until the last
name is claimed. `BlocksInv` carries what is known of the engines through
generation; `ListInv` says that what is still to claim and what is claimed are
together the outputs of this run, each settled by one claim of one name and no
name twice; `WrittenInv`, that the outputs written so far are still as they were
written, because two claimed names never reach one file. `BlocksFindTheirOwn` is
then about one run only, whatever the disk held before. A filesystem is an
operator of two names: it takes a name for itself (`NamesReachThemselves`), and,
for the refusals, confuses names over how their mods are spelt at most
(`OnlyModsAreFolded`). Both hold of the filesystem of `gen_outputs`, which
ignores case.

*PodAnalysis.* `AskedInv` says that what a POD type holds, and what the user
wanted, is POD or still on the stack; when the stack runs dry that is
`PodIsClosed`. It needs to know that what is recorded of a type is what the
library says of it (`RecordInv`) of every type which has been reached, so that
the order built by hand reaches every struct (`WalkInv`). `PodAllTheWayDown` adds
`KindsInv`, and that a class which bindgen gives up on, and which is bound as
something opaque, is never POD to the checker: it has a field of no name
(`BlobsAreUnnamed`; bindgen's patch 06). For `VerdictIsJust` the order matters:
`DepthInv` says that each struct is ordered after everything it holds, which is
so because nothing on the stack above an entry lies outside what that entry
holds, and no class is part of itself (`NothingHoldsItself`). Then `CausesInv`,
that what is blamed on a type is a flaw of something inside it, goes through
judging. `GrantInv` says that what is requested is reached from what the user
wanted, and that no typedef made POD is part of a circle; `AwaitInv`, that a
typedef which waits lies below what it waits for on the stack, so that one met
twice is inside itself, which only a circle of typedefs is. Both hypotheses are
about headers, hold of all the libraries of `pod_analysis` (`LibrariesAssumption`
has TLC check it), and are named in `PodAnalysis`. The sets on both sides
(`Closure`) are reached by recursion over `Nat`; that they are the least closed
sets is proved from induction as a fact about subsets of `Nat`, which the
library's well-foundedness theorem gives without an operator as a parameter.

*ClassAnalysis.* The passes are folds over the header's lists, whose steps are
operators over no fixed set, so each is first unfolded (`...Unfold`) into a series
of steps, by induction on its length. From these, lemmas say what the
definitions of C++ mean: `CppVirtualMeans`, `VirtualBasesMean` and `TriviallyMeans`
give each class its answer from those of the classes before it, which is proved
by going down the declaration order. `EveryVirtualDestructor` goes up it: after as
many turns as a class has classes before it, the pass has found it, and a list has
as many turns as entries. For the walk of `depth_first.rs`, `SomethingIsReady` says
that among the entries still queued is one which awaits nothing queued (that of
the class declared first), so a turn always comes to it (`EveryEntryHasItsTurn`).
`Honest` is the invariant of the analysis itself, that what is called trivially
destructible is so through all it is made of, and `HonestOfTheNext` carries it from
class to class. `SoFar` is the inductive invariant of the passes. `WellFormed` is
C++'s own rule that a class is made of complete ones, and of every header of
`class_analysis` (`HeadersAssumption`, which TLC evaluates).

*BindgenParse.* Nothing in `NothingVanishes` holds while the walk goes on, so
`NothingIsLost` says more of it (`WalkOk`): of every mod met so far, each item is
among the nodes its frame has still to do, or settled, which is to be left out, to
have its name in the list or in what a frame will hand to it, or to be a mod which
has been entered. It rests on `RustOf` standing for every emitted item of its mod,
functions, methods and statics in their blocks included; on the list never losing
a name when something is pushed, whatever it displaces; and on each frame's mod
being the one its path names. When the stack is empty every mod has been entered,
by induction on the numbers bindgen gives them, since a mod's parent was numbered
before it, and so every item is settled. Afterwards each pass keeps names:
replacing an API, giving one up and confirming do, and another attempt starts a
walk of its own. What is assumed of headers (`WellFormed`, `BlocksAssumption`) is
how bindgen numbers items.

`ReproductionSaysTheSame` needs to know what a configuration can be, and
`WellMade` is what every directive preserves (`DirectivesKeepItWellMade`): no two
traits of a type are alike and no list of traits is empty, an enum or a type with a
style or a trait has a plain name, every map is finite, and entries are there only
when the allowlist is specific. Without the first two, reading back would be refused
as a repetition, or would lose a type. What is written is thirteen lists of
directives, one after another; `Leads` says that a list of directives takes one
configuration to another, and of lists joined (`LeadsOn`) or flattened
(`LeadsFlattened`) it is proved by induction. Each list fills one field of an empty
configuration and leaves the others alone, a step for each directive (`GrowsLead`):
`Mix` is the configuration of which some fields have been read back, and the
allowlist comes back with its items before its namespaces (`ReadBack`), which is why
it is compared as a set.

*ByValueCall.* `CallInv` says for each value of `pc` where each parameter
stands relative to `at`: `Prepared` before it and `Untouched` after it while
populating, `Pending` below it and `Settled` above it while cleaning up. One
lemma for each action; both properties follow from `CallInv`.

*Pruning.* `FilterInv` says that a pass which has dropped nothing so far has left
nothing unclean behind it: this is what makes the end of a quiet pass mean the
end, and what lets that step be mapped to `Withdrawal`'s `Settle`. `CollectInv`
relates what is still to do, done and output. That reasons are root causes is
proved against every set closed under dependencies, which stands for
reachability without recursion.

*SubclassPair.* Whether the value may be dropped depends on how many calls of
each kind are somewhere on a stack of any depth, so `PairInv` counts.
`StrongCounts` says the strong count is the handles, one for an owning `obs`, and
one for each virtual call in progress; `BorrowCounts` that the borrow flag is the
number of borrowing calls, or one exclusive call alone; `StackShape` which calls
can be where (a constructor alone, nothing on top of a Drop, a destructor below
one Drop at most). `Made`, `Making` and `ObsMeans` relate the owners. The lemmas
about `Count` say what pushing and popping one call does to it. `PairInv` was
checked by TLC before it was proved. `QuietUnderDelete` excludes a Drop which
calls the peer C++ is deleting; `MCSubclassDrop` shows it is needed.

## 6. What is only model-checked

* Liveness (`BuildersReturn`, `Terminates`, and that `Pruning` settles): liveness
  under fairness, and `ENABLED`, are out of TLAPS's reach as installed here.
* Of `ClassAnalysis`: `OfferedIsAllowed`, `AbstractExactly`, and that nothing is
  withheld (`NothingWithheld`, the other half of `NothingIsLost`). They compare the
  code's rules with C++'s on subobjects, final overriders and selected members,
  and hold where §7's exceptions do not occur; the two sides follow different
  paths through a header, and a proof would be one about those rules.
* `TypeConversion`, `FunctionAnalysis` and what is written from it (`BridgeNames`,
  `WrapperGeneration`): the converter recurses over types and typedefs with
  `RECURSIVE` operators, about which TLAPS proves nothing, and the function passes
  are pipelines of folds over names made by joining strings, of which an induction
  over data would be needed.
* Of `BindgenParse`: `ReportsReachTheirOwner` and `DirectivesAreAnswered` rest on
  how names are numbered, flattened and matched, fold by fold.
* Of `BuildScript`: builders at once on a filesystem which ignores case or whose
  writes fail. There `KeepsItsFiles` is false (`forgotten_write`,
  `MCTwoSpellings`).
* That the hypotheses of §5 hold of what a user writes. §5 says why C++, bindgen or
  autocxx's own namers give them; the runs which check the same properties are of
  instances where they hold.

Each module with variables has a type invariant `TypeOK`. No configuration lists
it: that variables have their types is proved for `BuildScript`, `ByValueCall`,
`ClassAnalysis`, `GenTool`, `PodAnalysis` and `Pruning`, and is part of `PairInv`
for `SubclassPair`; for the others it is there as documentation and to be
checked by hand when they change.

## 7. What is not modelled, and known gaps

`PROJECT.json` lists every component with a reason. bindgen, cxx, moveit and the
C++ compiler are external; rename(2) and the filesystem appear as `FileOf` and
`NamesAfterRename`. Code generation as text is left out, and so is everything
which only words an error. The reference wrappers, the argument vector, toolchain
probing, the sanitizing of bindgen's mod, the macro's expansion, the reduction
tool and the other tools have no state which changes in steps, or work on syntax
trees of which no property here speaks.

**`ClassAnalysis`** leaves these situations out of its passing run, by predicates
named in `MCClassAnalysis` or by the choice of headers, because code and
language differ there:

1. restricted virtual bases which are not direct (`RestrictedFromAfar`, §4);
2. a public `T(T&)` beside a private or deleted `T(const T&)`
   (`CopiedByTheWrongOne`): overload resolution picks the latter;
3. `T(const T&) = default` over a part whose copy takes no const source
   (`DefaultedAgainstItsParts`);
4. a const part whose only copy takes a const volatile source
   (`MovedByAVolatileCopy`);
5. two subobjects of one class with a pure function under different virtual
   bases (`TwoOfOneClass`), which `abstract_types.rs` documents;
6. a typedef listed before the class it names, as the base of a class with pure
   functions above it: `abstract_types.rs` works round this order for destructors
   only, so what is pure is missed. Without pure functions the order is in the
   run: virtual destructors are found, nothing wrong is offered, and the special
   members of the derived class are withheld (`MetBefore`);
7. an opaque class with an inaccessible destructor, about which the code is
   optimistic on purpose.

Beyond these, the code withholds three more things C++ has, all of them named in
`NothingWithheld`: a class with an enumeration or an uninitialized const field has
no default, nor has one with an initialized `T&&`, and a class with a part that
can be copied but not moved has no move. Assignment operators are left out
because bindgen reports none (`fun/mod.rs`, at `is_assignment_operator`), and so
are several declarations for one slot, std::array members, generic classes and
anonymous namespaces.

**`Pruning`** proves and checks closure under `PeersSurvive`: the names of a
subclass's holder and C++ class stay valid types when the filter drops the
subclass, and no input was found for which that leaves a dangling name.

**`GenTool`** gives every generating block a cxx pair and an autocxxgen pair and
leaves `#[cxx::bridge]` mods to `BuildScript`; the paths inside the `.d` file
are not modelled.

**`TypeConversion`** does not ask of `BoundDestroysOnlyWhole` an argument written
as a refused alias (§4). A template instantiated with something undestroyable is
accepted by value where bindgen reports nothing of the instantiation. A pointer
to a typedef of a pointer is accepted as a pointer to a pointer, which the comment
at `type_converter.rs:1751` says is refused nearly everywhere. What a conversion
added beside its result is lost when the conversion then fails, though the
converter remembers the name (`type_converter.rs:1118`). The qualification of
relative paths and the types found on the way are not modelled.

**`ByValueCall`** has no C++ copy or move constructor of a parameter which throws
while a handler is populated.

**`BindgenParse`** takes the spelling of a blocked name as bindgen flattens it. An
item which is refused is filed under its own name; where that is the name of a type
autocxx binds itself, the code files it under `X_autocxx_error`. What is left of a
C++ name bindgen reports is modelled as the code leaves it; §4 says where that is not
the name.
`generate_ns!` matches by prefix of the text, which also matches a namespace
whose name begins alike; the model has namespaces as segments. The errors of
`extern_rust_function!`'s dependencies, the checks of a variable's C++ name,
`throws!` and `block_functions!` of a constructor, and bindgen's details on
templates are left out.

**`FunctionAnalysis` and what is written from it.** The AST checks which refuse a
function before it is analysed, and the exceptions of `throws!`, are not in the
signatures. Not in the instances: `volatile` class pointees; superclass
constructors with volatile, owning or move-only parameters; `T&&` and volatile
parameters and const results of virtual methods a subclass overrides; a second
borrowed string view beside a reference which is returned; functions whose
wrappers get one name because theirs differ by a trailing underscore only; trait
items whose flattened names meet (`A::b_c` and `A_b::c`); a base's function
imported because the derived class's own of that name was lost. What a variable's
getter is wrapped in is not followed into `WrapperGeneration`. Lifetimes of
wrapped references (`CppLtRef`) are tied to nothing in the model, as in the code.

## 8. Plan

Done: every module of §2. In order of importance, what is left:

1. `PodAnalysis` before `ClassAnalysis`, whose input `pod` it computes, and
   `ClassAnalysis` before `FunctionAnalysis`, whose `implicit` and `discarded` it
   computes: today these are inputs, of which the instances try a few.
2. The instances §7 lists under `FunctionAnalysis`.
3. `ctypes.rs`, the discovery walk over Rust syntax, and `tools/reduce`.
4. Proofs: `AbstractExactly`, whose pass is a fold as those proved of are; then the
   rules of `OfferedIsAllowed`, one kind of special member at a time.

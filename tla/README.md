# TLA+ model of the MMUKO kernel

The repository is a small kernel whose distinguishing part is the way it binds
calls between modules: a *trident* node per call site compares what the caller
was compiled against (hook `u1`) with what a loaded object provides (hook `u2`),
and publishes in its slot (`w`) either an address both agree on or a trap. This
directory models that part and everything built on it: the C resolver, its Rust
counterpart and registry, the hosted loader, the canonical encoder, candidate
selection, the boot sequence with its self-test, the ABI dump tool, and the dynamic
loader demo. TLC
checks the modules on small instances and TLAPS proves the central theorems for
every value of the constants.

Paths below are relative to the repository.

## 1. Inventory

| Component | Code | State | Operations | Module |
|---|---|---|---|---|
| Trident resolver (C) | `src/mmuko_trident.c` | nodes: hooks, state, fault, two fingerprints, slot, generation, edges | `init`, `set_deps`, `resolve`, `swap`, `address`, `graph_resolve` | `TridentRule`, `TridentGraph`, `HotSwap` |
| Trident (Rust) | `rust/mmuko-kernel/src/trident.rs` | the same node without edges | `new`, `resolve`, `swap`, `address` | `TridentRule` |
| KernelRegistry | `rust/mmuko-kernel/src/kernel.rs` | N nodes, edge table, policy | `set_policy`, `register`, `add_dependency`, `offer`, `offer_module`, `resolve_all` | `Registry` |
| Hosted loader | `src/mmuko_loader.c` | module struct: handle, table, slots, counters | `mmuko_load`, `mmuko_reload`, `mmuko_unload`, `mmuko_module_sym` | `Loader` |
| Descriptors | `src/mmuko_desc.c` | none | `validate`, `find`, module fingerprint | `Descriptors`, `Canon` |
| SemVerX | `src/mmuko_semverx.c`, `semverx.rs` | none | `valid`, `satisfies`, parse, format | `SemVerX`, `VersionText` |
| Canonical encoder | `src/mmuko_abi.c`, `fingerprint.rs` | a bounded buffer | encode type and signature, fingerprint | `Canon` |
| Selection | `rust/mmuko-kernel/src/select.rs` | a graph of candidates | votes, score, gate, select, `add`, `edge`, `best_path` | `Select`, `SelectGraph` |
| Boot and Phase 8 | `boot/kernel.c`, `boot/mmuko_abi_phase8.c` | cubit memory; two print slots, two arithmetic slots; screen cursor, UART | phases 0 to 8, boot self-test, program | `Machine`, `Image`, `Boot` |
| QEMU self-test | `qemu/kmain.c` | a node, a chain of three, counts of checks | the vectors, the exit | `Qemu` |
| Dynamic loader demo | `demo/dynamic-cabi-loader/` | cached handles, pending promises; the statics of the compiled module | client `load`, server loop, `DynamicLoader.load`, `shortest_path`, the import of `_dijkstra` | `DynLoader`, `Route`, `PyCall`, `ModuleInit` |
| ABI dump tool | `tools/mmuko_abi_dump.c` | none | `open_table`, `compare`, the exit code | `AbiDump` |
| Layout probe and build | `tools/mmuko_layout_probe.c`, `Makefile` | none | print layouts | not modelled |

**How they interact.** Everything above the resolver goes through one decision:
`resolve` calls the encoder and `satisfies` and publishes last. The loader calls
`swap` once per required symbol with what `dlsym` and the object's own table
offer. The registry and `graph_resolve` repeat `resolve` over a set of nodes
until the number of bound nodes stops changing. Phase 8 binds the kernel's own
print functions by `swap` and is silent until they are bound; the boot self-test
and the QEMU image attach offers by hand (`u2_provided = ...`) and run the graph.
Selection runs a throwaway node as its gate. Callers interact with all of them
through shared memory only: they read the slot, cache the address, and are meant
to compare the generation. The demo is apart: a Node client and a Python server
exchange lines over pipes, and the server finds the modules to load with a
compiled Dijkstra. The dump tool, run before an object is published, resolves the
exports of one object against those of another and foretells what a reload will do.

**What is hard here.**

* *Order inside a pass.* A pass updates the nodes in place, so it sees new states
  before it and old ones after it. Healing and breaking against the array order
  take several passes, and the stopping test compares two counts. The entangling
  phase of the boot has the same shape: it changes partners in place.
* *Cycles and NULL edges.* The C resolver accepts them; the registry refuses
  cycles at insertion; the candidate graph accepts them and the walk must not loop.
* *Replacing code under a running caller.* The loader rebinds slot by slot and
  then unmaps the old object while other modules, other operations and cached
  pointers may still refer to it. The dynamic loader counts references per path.
* *Refusal half-way.* Every early return must still leave the trap, the right
  fault and the right fingerprints; a refused load must drop the table pointer;
  phase 8 must not keep one print pointer when the other did not bind.
* *Publication.* State and slot are two stores; a reader runs concurrently.
* *Limits.* A buffer of fixed size, 16-bit numbers in text, 32-bit sums, a screen
  cursor, a walk into a buffer of fixed length.
* *Waiting.* Both kernels poll the UART before every character, with no bound.
* *Initialising twice.* The compiled module keeps its state in statics; an import
  that failed half-way is tried again over what it left.
* *Answers without a name.* The demo's server does not say which request it
  answers; the client goes by order alone, also after a failure.

**What makes each component correct.**

* Resolver: no slot ever holds an address without a full agreement behind it;
  the reported fault is backed by the reported fingerprints; no node is bound
  above an unbound one when a run returns (with the qualification of section 4);
  a run returns from its fixpoint test; nothing on a cycle ever binds. Under
  concurrent callers the slot is a regular register of such values.
* Registry: the edges are acyclic after any sequence of calls; a complete report
  is true; resolving again and again reaches the nodes that should be bound.
* Loader: nothing points into an unmapped object at any moment; handles are never
  closed too often; what an operation reports is true of the slots.
* Version predicate: reflexive and transitive; policy never admits a contract the
  fingerprints refuse; what is printed is read back.
* Encoder: equal text exactly for equal contracts; over-long input is refused.
* Selection: the winner passes the gate, no better candidate does, and neither the
  order of the candidates nor an adverse vote changes that.
* Boot: Phase 8 publishes its print pointers only when all of them bound; the
  self-test's expectations follow from the resolver; the program runs exactly when
  the kernel services agree; the image halts.
* Dump tool: what it calls compatible stays bound when it is published.
* Demo: every request is answered, in order; a route is a least one, unless the
  module asked for has the name of the start; a call binds its arguments whichever
  way it comes; an import is all or nothing.

`PROJECT.json` lists the components with their status and, under `hazards`, each
hard-to-test place with its line and the properties that watch it.

## 2. Plan

Done, in this order:

1. `SemVerX`, `TridentRule`, `TridentGraph` and their proofs: the decision, the
   node, the graph loop. Everything else rests on them.
2. `Descriptors` and `Loader`: the first client, and the one with crash-prone
   interleavings.
3. `Registry`: the second client, with the acyclicity theorem.
4. `SlotRegister`, `HotSwap` and `HotSwapProofs`: what a slot promises, the
   stores of a resolution against the loads of concurrent callers, and the proof
   that the second implements the first.
5. `Machine`, `Image`, `Boot`, `Qemu`: the two ring 0 images, which run the
   resolver's modules.
6. `Canon`, `VersionText`, `Select`, `SelectGraph`, `PyCall`, `Route`,
   `DynLoader`: the algorithms, each against a definition of what it computes.
7. The proofs about the clients: `LoaderProofs`, `RegistryProofs`, `DemoProofs`, and
   that a run of the resolver returns from its fixpoint test.
8. `BootProofs`, about `Images`, the machine that starts either ring 0 image;
   `SelectionProofs`, about the selection, its walk and the version texts; the search
   of the registry; and the argument parsing of the demo.
9. `AbiDump`, the tool against the loader it speaks for; the function object in
   `PyCall`; and `ModuleInit`, the import of the compiled module.

Left:

10. A refinement for containment: an abstract specification in which a call of
   `graph_resolve` is one atomic step to the least fixpoint, implemented by
   `TridentGraph` on one-sided runs. What it would say of the end of a run is
   `OneSidedRunIsLeast`, which is proved.
11. The encoder. `Canon` is about strings, of which the provers know neither the
    length nor the parts; its three properties stay with TLC.

Runs stay at a size that finishes in a few minutes on two workers.

## 3. Modules

```
SemVerX --> TridentRule --> TridentGraph --> MCTridentGraph, TridentGraphProofs
  |              | | | |
  |              | | | +--> TridentRuleProofs  (used by the other proof modules but
  |              | | |                          DemoProofs)
  |              | | +----> HotSwap --> HotSwapProofs, MCHotSwap
  |              | |          :..implements..> SlotRegister
  |              | +------> Descriptors --> Loader   --> LoaderProofs
  |              |                  |          +------> AbiDump --> MCLoader
  |              |                  +-----> Registry --> MCRegistry, RegistryProofs
  |              |                  +--> Image --> Boot, Qemu --> Images --> MCBoot, BootProofs
  |              |           Machine --------------^    (Image, Boot, Qemu run TridentGraph)
  |              +--> Select --> SelectGraph --+--> SelectionProofs
  +--> VersionText ----------------------------+--> MCAlgorithms
       Canon ----------------------------------+
       ModuleInit, PyCall, Route --> DynLoader +    PyCall, DynLoader --> DemoProofs
```

**SemVerX** is the version predicate. A version is its three numbers and their
states; `Satisfies` is `mmuko_semverx_satisfies` with its three outcomes.

**TridentRule** is one node. `Precheck` is everything `mmuko_trident_resolve`
tests before it encodes, in its order, `Consensus` the rule proper, `Verdict` the
locals it computes, `ResolveNode` the node it leaves. Trident::resolve in Rust
makes the same decisions in the same order and is the same function. A signature
is its calling convention and one value for the rest of the contract; a
fingerprint is the triple it digests, so collisions of the 128-bit digest are
outside the model. `BadShapes` are the contracts the encoder refuses. A NULL or
missing symbol, signature, address or descriptor is a value of its own.

**TridentGraph** is a set of nodes in array order with one owner thread.

| Action | Code |
|---|---|
| `SetDeps` | `mmuko_trident_set_deps`, before the node's first resolution as the interface asks |
| `Attach` | a caller's `t->u2_provided = d` (Phase 8, tests) |
| `Resolve`, `Swap` | `mmuko_trident_resolve`, `mmuko_trident_swap` on one node |
| `GraphResolve` | entry of `mmuko_trident_graph_resolve`: its locals |
| `ResolveNext` | one iteration of the inner loop |
| `EndPass` | the counts, the fixpoint test and the pass bound |

`start`, `rising` and `falling` are history variables: what was bound when the
pass began, and whether the run began with changes in one direction only.

**SlotRegister** is what a slot promises, with no node in it: a regular register,
written by one writer and read by many callers, that contains the trap or an address
that passed consensus. **HotSwap** is one node swapped under running callers. A
resolution decides in locals (`Swap`: lines 151-240) and then stores the fields one at
a time (`Store`); a caller loads `state` and `w_slot` one at a time (`LoadState`,
`LoadSlot`) and returns. Nothing in the code orders these accesses, so the model takes
every order of the stores and of the loads. The refinement maps the register's content
to `settled` while a swap is being stored, and to what the swap decided once it is
finished; a call's allowed answers are those it has overlapped.

**Descriptors** is the export table: `Validate` and `Find`.

**Loader** has the module structs, the operation in progress on each, and the
mappings of the dynamic loader, which is external (`Opens`, `Closed`): opening a
mapped path gives the same handle, counted once more, or a new mapping when the
file was replaced. One step of a load or a reload binds one slot; an unload is two
steps, the trap in every slot and then the close. A struct is loaded into when it
is new or unloaded, as the interface expects; loading over a loaded struct, which
loses a handle, is not modelled. Callers may cache an address with the generation
they saw (`Remember`).

**Registry** is `KernelRegistry`. Every changing method borrows it exclusively, so a
call is one step and `resolve_all` is computed by recursive functions: `Pass` takes one
`Turn` of the inner loop after the other, `Run` one `LoopTurn` of the outer. A call that returns an error changes nothing and is no
step. `Reaches` states what the depth-first search finds; `Search` is the search
itself, and `ReachesIsTheSearch` says that they agree. `settled` is a history variable: passes
since the last other call.

**Machine** is phases 1 to 6 of the boot as functions of one byte, since every phase
treats each byte alone: `InitCubitRing`, `CompassAlignment`, `Entangle` (a function
over the cubits in order, as the loop updates them in place), `CenterFrame`,
`ResolveBases`, `RotatesFreely`.

**Image** is what both ring 0 images share. The processor runs straight-line code
between two prints, and a print is a queue of characters `out`. `PutChar` is one turn
of the polling loop that finds the transmitter empty; `Transmitted`, external, is the
UART emptying it. `CallSlot` is a call through a slot without looking at its state:
the trap counts.

**Boot** composes `Image`, `Machine` and an instance of `TridentGraph`.

| Action | Code |
|---|---|
| `StartBoot`, `Phase0` .. `Phase6` | `kernel_main`, `mmuko_boot` and each phase |
| `ValidateServices`, `BindService`, `PublishServices` | `bind_kernel_services`: validation, one turn of the loop, the publication of `P` and `H` |
| `BringUp`, `RunArith`, `BroughtUp` | `bring_up_namespace`; `RunArith` is the loop of `graph_resolve`, step by step |
| `Break`, `Broken`, `Heal`, `Healed` | `prove_containment`, cut where it runs the resolver |
| `Phase8Done`, `Phase7`, `Launch`, `Program` | the end of phase 8, the launch and the program |
| `BootFailed` | `kernel_main` reporting a failure |

**Qemu** is the other image: one action per vector of `kmain.c`, with `Check` for
`MMUKO_CHECK`. **Images** composes the two: a machine on which one of them is started.

**Canon** is the encoder. `TypePieces` and `SignaturePieces` give the pieces of text
it appends, a refusal among them where the code returns an error; `PutPiece` appends
one piece to the C buffer and to the Rust buffer side by side. A digest is modelled by
its text, so collisions are outside the model, and the module fingerprint is an
exclusive or of such digests (symmetric difference of sets).

**VersionText** reads a text as the words between its dots: the C parser with its
eight errors, the Rust parser, and the compact dialect of `select.rs`. A word of digits
is given with its value (`Numerals`), and `Decimal` is the word printed for a number.

**Select** and **SelectGraph** are `select.rs`: `Score`, `PassesGate`, `BestOf` (whose
`BestWith` is one turn of the loop), and the
walk `best_path`, a step per turn of its loop, over any graph `add` and `edge` build.

**Route** is `shortest_path`: `Begin`, `Pick`, `Relax`, `Found`, `Rebuild` are the parts
of its loops. Its pending set is a Python set, so ties are broken in any order. A cost is
an integer, `Infinity` or `NaN`, since Python's JSON reads both and the one test on a cost
is whether it is negative; `Nearer` and `Plus` compare and add as doubles do. `_dijkstra.c`
is generated from `_dijkstra.pyx`; what is modelled of it is the function and how it is
called and imported.

**PyCall** is how it is called. A call in call syntax brings its keywords as a tuple
(`FastCall`), `shortest_path.__call__` brings a dictionary, which a build with vectorcall
makes a tuple (`FastCallDict`) and one without hands on (`CallMethod`); the wrapper parses
the two differently (`ByTuple`, `ByDict`).

**ModuleInit** is its import: `Create` makes the module object (`pymod_create`), `Exec`
begins its execution (`pymod_exec`), the eleven actions from `Dictionary` to `Test` are
its steps, `Executed` and `Failed` its two ends. The statics they fill are kept by what
they are, the names in the module's dictionary by the name. CPython is external: an
importer enters the module in `sys.modules`, takes it out when its execution failed, and
may switch threads between the two calls.

**DynLoader** is the demo around it: `Ask` and `Receive` are the client, the rest is the
server's loop and `DynamicLoader.load`. The demo does not reserve the name `@root`. A
module of that name is given a new list of edges when its turn in the file comes
(`FromStart`; `at` is the place in the file), so the modules listed before it cannot be
found from the start; and a request for it ends on the empty route, loads no library,
runs the script and is answered ok.

**AbiDump** is `mmuko-abi-dump`: `Fate` is what `compare` says of one symbol, found by the
resolver under the tool's own policy with the tool's own function for an address.
`FateIsForeseen` compares it with what a reload of the one object by the other did to
the slots.

## 4. Runs

| Run | Instance | What it shows |
|---|---|---|
| `graph` | 3 nodes; chains along and against the order, a diamond, cycles, a NULL edge; good, bad and missing offers; 3 calls | `CycleNeverBinds`, `PassesSettleRanks`, `OneSidedRunIsLeast`, `ReturnsFromFixpointTest`, `SlotsAreAgreed`, `FaultsAreBacked` |
| `hotswap` | 1 node, 2 swaps, 2 callers, 4 offers (one without an address, a wrong shape, two good ones), every order of stores and loads | `OnlyValidatedAddresses`, `ImplementsRegister` (refinement), and the liveness `HealingReachesEveryCaller` |
| `loader` | 2 modules, up to symmetry, a caller of one of them, 2 paths, 7 kinds of file, 3 mappings, 4 operations interleaved slot by slot | `NothingDangles`, `HandlesAreCounted`, `SlotsFollowTheHandle`, `ReportsAreHonest`, and of the dump tool `FateIsForeseen` |
| `registry` | 3 slots, 4 call sites, every edge, 2 policies, modules offered and withdrawn; 9 calls | `EdgesAreAcyclic`, `RepeatedResolvingConverges`, `CompleteReportsAreTrue`, `ReachesIsTheSearch` |
| `boot` | both images, 8 kernel service tables, a 2 x 2 screen, 2 texts | `ServicesAreVerified`, `StubIsUnreachable`, `PairsAreEntangled`, `CompleteMeansVerified`, `SelfTestPasses`, and the liveness `ImageHalts` |
| `algorithms` | every input of a small domain, one job per behaviour | `EncodingIdentifiesContract`, `EncodedWholeOrRefused`, `ModuleFpIdentifiesSurface`, `VersionTextRoundTrips`, `WinnerIsTheBest`, `WalkIsAPath`, `ArgumentsAreBound`, `RouteIsLeast`, `AnswersMatchRequests`, `ImportIsAllOrNothing`, and the liveness `EveryRequestIsAnswered` |

The remaining runs each show that a sentence of the documentation is not what the
code does:

| Run | Sentence | What TLC finds |
|---|---|---|
| `mixed_run` | `SPEC/MMUKO-ABI-SPEC.md:454` "no node downstream of it can bind, at any depth" | Five nodes in two chains against the array order. One heals while the other breaks; two passes bind equally many nodes and the loop stops with a node bound over an unbound one. |
| `remembered_address` | `mmuko_trident.h:119` a caller "compares generations to learn it must re-read the slot" | A reload between two acceptable objects keeps the slot BOUND: the generation stays, the address moves, the old object is unmapped. |
| `unbound_load` | `mmuko_loader.h:20` "the vtable is released to the caller only if EVERY trident bound" | A load of an object that lost one of its two symbols returns `E_UNBOUND` without quarantine and leaves the other slot bound: `mmuko_module_sym` gives out its address. |
| `failed_reload` | `mmuko_loader.c:295` "a failed reload leaves the module exactly as it was" | A new object with a valid table and a changed signature is installed, and then the reload returns `E_UNBOUND`. |
| `foreign_profile` | `abi.rs:21` "An Mmuko32 descriptor can never satisfy an Mmuko64 call site" | `offer_module` does not look at the module's profile, and both fingerprints are computed under the policy's. |
| `scoring_panics` | `select.rs:43` the scoring "cannot overflow or panic on any input" | The sum of the three weights is taken in 32 bits with overflow checks on: weights that exceed it panic at the first candidate scored. |

What does hold where the sentence does not: `PassesSettleRanks` says what a mixed
run guarantees (k passes decide every node of rank at most k), `OneSidedRunIsLeast`
that full containment holds when the changes of a run go one way,
`RepeatedResolvingConverges` that the registry gets there when it resolves again,
`NothingDangles` that a caller who re-reads the slot instead of comparing
generations is safe, and `WinnerIsTheBest` that selection is right for weights whose
sum fits.

Smaller disagreements met on the way have no run:

* `mmuko_trident.c:278` and `kernel.rs:279` call the bound count non-decreasing across
  the passes of a run. After a break upstream, a node earlier in the array is still
  counted in the first pass and dropped in the second.
* `kernel.rs:292-294` calls a pass "a function of the previous state"; it updates in
  place like the C one.
* `mmuko_abi_dump.c:129-132` says the tool "cannot disagree with the loader". It judges
  a caller compiled against the first object, under the first object's profile, and looks
  at the table alone. So it calls a symbol compatible that the loader loses because the
  object does not link it or because the policy refuses the state of its version, and an
  object of the other profile that the loader refuses whole. `FateIsForeseen` names the
  first two and says that there are no others among objects the loader takes.
* `_dijkstra.c:4086` enters the module in `sys.modules` when the importer has not, and its
  error label does not take it out again: whoever executes the module without importlib's
  clean-up finds a module there that is not whole.
* `mmuko_trident.h:173` says `address` returns NULL when not bound. A call that loads
  the state before a swap stores it, and the slot after, may return the trap
  (`SlotRegister` allows it, only when a swap overlaps the call). Likewise a caller may
  see the new generation before the new slot.
* `mmuko_abi_phase8.h:44-46` says phase 3 requires paired cubits to agree; the code
  makes them differ (`PairsAreEntangled`).
* The C buffer holds one byte less than the Rust one, so a text of exactly 4096 bytes is
  encoded in Rust only; and the Rust parser reads `+5` and numbers with more than five
  digits where the C parser does not (`VersionTextRoundTrips` says these are the only
  differences).
* The demo's `README.md:11` scores "deterministically", but among equally short routes
  the hash order of a Python set decides; a negative cost is noticed only on an edge
  that is scanned; and a load brings in the modules of one route, not all dependencies.
* `best_path` ends when its best child was visited before, although another child may
  be left. Two candidates with the same identifier, numbers and score are separated by
  their order; the model's candidates have distinct identifiers.

**Bounds and why they are enough.** The decision is per node, so three nodes with good,
bad and missing offers cover the graph runs; what depends on the graph are chains
against the order, joins and cycles, and three nodes have all of them. The mixed run,
which needs a chain of three and one of two, has its own instance. The theorems of
section 5 cover every offer and policy. Three calls are a heal, a break and one more.
In `hotswap` two swaps are a break and a heal or a move between two good objects, the
writer is alone by the interface, and callers do not see each other, so a second one
shows all there is. In the loader two modules are enough to share a mapping, and three
mappings to have an old one, a new one and a shared one; four operations are a load
each, a reload and an unload interleaved with it. Its caller remembers first slots only
(`FirstSlotsRemembered`): nothing the loader does depends on what a caller remembers.
In the registry two edges per node reach the limit of the edge table, four call sites
the limit of the slots. The boot tables are one that serves, the repository's negative
image, and one for every other way a table or a service can fail; the screen is the
smallest on which a line and the page can wrap.

In `algorithms` the limits of the code are made small so that inputs reach them on both
sides: `CanonMax` 91 for 4096 bytes, between two lengths of the texts of its exports,
`MaxDepth` 1 for 8, `MaxArgs` 2 for 32, three nodes with two children for the candidate
graph, paths into 2 or 3 entries. `ScoreOne` is 200 for a million and `Word` 26 for
2^32, which leave the comparisons as they are. Version numbers are not scaled: the
words are the edges of 16 bits and of five digits. One behaviour does one job while the
others are idle, since they share no state: the dynamic loader with 2 requests on
graphs of three modules, one of them named `@root` and anywhere in the file among them,
and `shortest_path` also by itself on graphs of three nodes with any costs, as the
loader's graphs give every edge into a module the same cost. The import is that of
three threads, two of one interpreter and one of another, and of three module objects:
one that failed, one that took its place, and one made too late.

`MaxCalls`, `MaxMaps`, `MaxOps`, `MaxSwaps`, `MaxEdges`, `MaxRequests`, `MaxObjects`
and the constraint `FirstSlotsRemembered` are the only cuts. Where a run stops because
of one of them, or because callers or clients may stop asking, or a job is done, the
configuration says `CHECK_DEADLOCK FALSE`; the graph runs do not need it. The
generation is 64 bits wide in the code and a natural number here: it cannot overflow in
any real lifetime.

**Fairness.** `TridentGraph`, `Loader`, `Registry` and `ModuleInit` have none: what runs
say of them is safety. That a call of `graph_resolve` ends is `ReturnsFromFixpointTest`
and the bound of its loop; that the images' runs of it end is part of `ImageHalts`.
`HotSwap` has weak fairness on the stores of a
swap that has begun and on the steps of a call that has begun, and on a running caller
calling again, which is what "running" means; none on swapping. The boot images have it
on the processor, which runs alone, and on the UART sending its character, without which
nothing can be printed. The demo has it on the server process and on the client's event
loop. Nothing obliges a caller to make a call or a client to ask, so these actions have
no fairness.

## 5. Proofs

Every theorem is checked by TLAPS for every value of the constants, from the named
assumptions in the modules. TLC evaluates the assumptions, and it checked the inductive
invariants on the instances of section 4 before they were proved. The assumptions:

* `N` and the capacities are natural numbers; the requirements, offers, policies,
  tables and requests are of their types; the values that stand for NULL are not proper
  values; a process has finitely many module structs.
* `ImageAssumption`, `ContractsAssumption`, `BootAssumption`: the screen has a row and a
  column, the profile is one of the two, and the names, contracts and addresses compiled
  into the images are symbols, contracts the encoder takes, and addresses.
* `IdsAssumption`, `ScoreAssumption`, `CandidatesAssumption`, `WalksAssumption`: identifiers
  are ordered, the scale of the score is positive, candidates and weights are of their
  types (any numbers of their widths and more), and no two different candidates have
  the same identifier. The last is what `find` and the tie-break of `better` rest on;
  `add` does not check it.
* `TextsAssumption`, `NamesAssumption`: the word printed for a number that was read is a
  numeral for it of at most five digits, and a state's name has at most twelve letters.
  This is about numerals and the lengths of strings, which TLC computes and the provers
  do not.
* `CallsAssumption`: Python takes no name twice in a call, the parsers' mark of a missing
  value is no value, and what is no string is no parameter's name.
* The infinite distance is not a number; a manifest is a JSON object, with finitely many
  modules, one after the other, and a number for each cost (an integer here, or `Infinity`
  or `NaN`); the idle mark of the server is
  not a module's name.

The modules of theorems:

* `TridentRuleProofs`: `SatisfiesReflexive`, `SatisfiesTransitive`, and
  `AdmittedContractsAreIdentical`: whatever the policy, two hooks the rule admits
  have the same symbol and the same signature.
* `TridentGraphProofs`: `TypeCorrect`; `CyclesStayUnbound`; `NoUnvalidatedAddress`;
  `ReportedFaultsAreBacked`; `OneSidedRunsReachLeast`; `PassesSettle`;
  `RunsReturnFromTheTest`.
  `CycleNeverBinds` is not inductive, since an edge may be added between nodes that
  were bound once. `CycleInv` speaks of the nodes that *ever* bound, which a positive
  generation records: such a node has only dependencies that did.
  `NoUnvalidatedAddress` needs that what is attached to a node is one of the offers
  (`SlotInv`).
  `OneSidedRunsReachLeast` is about a run: `RunInv` says that within a
  rising run the bound nodes only grow from `start` (in a falling one only shrink) and
  that the counters count. Two passes with equal counts then bound the same set, by
  the cardinality of a subset, so the set is a fixpoint; a fixpoint above the least one
  would contain a self-supporting set, which `CyclesStayUnbound` excludes. If the pass
  bound ended the run, the counts would have changed in each of N + 1 passes in one
  direction, which N nodes cannot do.
  `PassesSettle` is for every run: at pass k the nodes of rank at
  most k are decided and so are those of rank k + 1 already visited; a node's
  dependencies have lower rank, so the rule gives it what the least fixpoint does.
  `RunsReturnFromTheTest` is about the same passes: each adds a node to a set that is
  closed upstream and decided for good, as long as some node outside depends on the
  set alone (`FrontierInv`). When none does, every node outside waits for another one
  outside or for a NULL edge, so it never bound and never will, by `CycleInv`; from
  then on two counts are equal. So the test ends the run within the N + 1 passes it
  may take. Over no nodes at all the only pass is ended by the bound: the code's loop
  is entered once, and the property leaves N = 0 out.
* `RegistryProofs`: `EdgesStayAcyclic`. If `on` does not reach `dependent`, some set R
  closed under the edges holds `on` and not `dependent`; a set in which every node
  depends on another is disjoint from R, so the new edge plays no part in it.
  `SearchFindsWhatIsReached` follows: reachability satisfies the equation of the
  recursion, and where two solutions of it differ at a node they differ at one it
  depends on, which acyclic edges exclude.
  `TypeCorrect`, `ResolvingConverges` and `CompleteReportsStayTrue` need to know what
  `Pass` and `Run` compute. That their recursive functions exist is shown by
  induction, from the well-foundedness of the finite subsets of a set
  (`StepwiseInduction`, `IterationExists`); then each is a sequence of tables, a turn
  apart, and what one turn preserves the call preserves. A turn never binds a node
  above an unbound one, a pass decides every node that depends on decided nodes alone,
  and because the edges are acyclic there is such a node until all are decided: after
  as many passes as there are nodes the table is the least fixpoint. `IInv` keeps how
  far the passes since the last other call have come.
* `LoaderProofs`: `TypeCorrect`, `HandlesStayCounted`, `NothingEverDangles`,
  `SlotsStayWithTheHandle`, `ReportsStayHonest`. None of them is inductive alone. Even
  type correctness is not: the count of a mapping stays a natural number only because
  who closes it holds it. `IInv` says that every slot is trapped or bound into its
  *home*, the object of the struct's handle or, for the slots a reload has not reached,
  of the handle it is about to close (`StructsInv`), and that a mapping is counted once
  for every struct and every reload that has an interest in it (`MapsInv`, an inequality,
  since a reload of an unchanged file has the same handle twice). Hence a home is mapped, and the
  close at the end of a reload or an unload takes away no object another struct uses.
* `HotSwapProofs`: `TypeCorrect`; `CallersGetOnlyValidatedAddresses`;
  `NodeImplementsRegister`, the refinement `Spec => SlotRegister!Spec`. `OnlyValidatedAddresses`
  is not inductive: a caller holds fields loaded at different moments. `IInv` says what
  the node is while the fields of a decision are being stored (`WriterInv`: a field not
  stored yet is still that of the last swap) and that what a call has loaded is
  accounted for by a value it has overlapped (`CallInv`). From it each step is one of
  the register's or a stutter: `Swap` begins a write, the last `Store` ends it, loads
  stutter, a return ends the read with a value the register allows.
* `DemoProofs`: `ShortestPathIsShortest`, for `shortest_path` called with any graph, and
  `AnswersReachTheirPromises` and `RoutesServedAreShortest`, for the demo under any
  manifest, one with a module named `@root` included. `SearchInv` is the invariant of the search: nodes are chosen in the order
  of their distance (`OrderInv`), no scanned edge shortens a distance any more
  (`ScannedInv`), every node reached was reached last over a cheapest edge from a scanned
  node (`TreeInv`), and, once the search is over, all that is nearer than the target was
  scanned (`OverInv`). Distances do not show that following `previous` leads to the
  start, since an edge may cost nothing; `RootedInv` does. A cost is a sum along a path,
  a recursive function again, compared node by node. For the demo `DemoInv` adds that
  the answers printed, the request served and those to be read are the promises, in
  their order (`QueueInv`), that the call in progress is the one the manifest and the
  request give (`ServingInv`), and that a route is a chain of dependencies of which
  the part already loaded is cached (`CameInv`), from which a library is cached only
  after one it depends on.
  `CallsBindTheirArguments` needs no invariant, since parsing is a function of the call:
  the two protocols refuse the same calls and fill in the same values (`SameRefusals`,
  `SameValues`), and with three suppliers each parameter has one (`GivenOnce`), as
  parameters' names, and the names in a call, are distinct. The ways to call differ only in
  what they do with a first argument that is a self, which this function has not, and with
  keys that are no strings, which name no parameter (`NamesAreStrings`).
* `BootProofs`: `ImagesTypeCorrect`, `PointersStayVerified`, `StubStaysUnreachable`,
  `PairsStayEntangled`, `OnlyVerifiedBootsComplete`, `SelfTestAlwaysPasses`. `ImagesInv`
  says, for each place the processor can be at, what must be true there. `Located` and
  `OnScreen` are the places and the cursor. `MemoryInv` follows the bytes through the
  phases; that pairs differ after phase 3 is shown for one ring, by following the loop
  over its cubits. `ServiceInv` says which services are bound by how far phase 8 has come.
  `ChainInv` is the heart: it gives the exact state of every node of the namespace,
  generation included, at every stage of a break and a heal, for chains of two (boot)
  and three (self-test), and inside a run how many passes have brought how many nodes up
  to date, so that the checks that follow a run can be computed. `TrapInv` counts the
  one call through a faulted slot, and `VectorInv` is the self-test's single node.
* `SelectionProofs`: `WinnersAreTheBest`, `WalksArePaths`, `VersionsReadBack`. `Better` is
  a strict total order on candidates, so the loop of `select`, a recursive function,
  leaves the maximum of those that pass the gate (`BestOfMeaning`), which no exchange of
  two candidates changes. That a vote counts is arithmetic: an endorsement never lowers
  the average of the votes, quotients and saturation of the counters included
  (`OneMoreEndorsement`, `OneMoreRejection`). For the walk, `GraphInv` keeps that edges
  lead to nodes and that a walk under way stands on a gated child of the node it wrote
  last. `VersionsReadBack` shows that what any parser accepts has three numbers and
  three states that print as words both parsers accept (`PrintedVersions`), and that the
  C parser refuses a text the Rust parser reads only for the form of a number
  (`DialectsAgree`).

Model-checked only:

* liveness (`HealingReachesEveryCaller`, `ImageHalts`, `EveryRequestIsAnswered`), which is
  outside what the prover handles;
* the import (`ImportIsAllOrNothing`) and the tool (`FateIsForeseen`);
* the encoder (`EncodingIdentifiesContract`, `EncodedWholeOrRefused`,
  `ModuleFpIdentifiesSurface`): its definitions recurse over types, and whether pieces
  of text run together is a question about strings, which are opaque to the provers.

## 6. Not modelled

* Wording: diagnostics, reports, names of results, the reason an excluded candidate is
  given (`explain`), what the boot prints, spin values, the memory checksum.
* The 128-bit digest: a fingerprint is what it digests.
* `mmuko_kernel_validate_table` and `mmuko_kernel_fingerprint_export`: checks on raw
  pointers, which the model has no counterpart for.
* Of the generated `_dijkstra.c`: reference counts, traceback and caching support, builds
  that keep the module's state elsewhere than in statics; what Python code could do that
  runs in the middle of the module's execution.
* The server process dying while requests are pending: the client does nothing about it
  and its promises stay pending.
* Misuse the interface excludes: edges changed after a node's first resolution,
  loading over a loaded struct, two threads operating on one module struct or swapping
  one node.
* The assembly entry code, the two straight-line demo callers, the layout probe, the
  listing the dump tool prints, and the build: no state of their own.

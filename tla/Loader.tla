-------------------------------- MODULE Loader --------------------------------
(***************************************************************************)
(* The hosted loader (src/mmuko_loader.c): it opens a shared object, reads *)
(* the object's own export table, binds one slot per required symbol, and  *)
(* later replaces the object under a running caller or unloads it.         *)
(*                                                                         *)
(* A module struct has one owner, who calls one operation on it at a time. *)
(* Owners of different modules run concurrently, and so do callers, who    *)
(* read a slot at any moment.  One step of load or reload binds one slot.  *)
(*                                                                         *)
(* The dynamic loader is external.  maps[h] is the mapping with handle h:  *)
(* where it came from, what was in the file, how many times it was opened  *)
(* and not closed.  It is unmapped at zero and its handle is never reused. *)
(* Opening a path that is mapped may return that mapping again, counted    *)
(* once more, or a new one when the file was replaced in the meantime.     *)
(*                                                                         *)
(* The code address of a symbol is the pair of the mapping and the symbol. *)
(***************************************************************************)
EXTENDS Descriptors, Integers, Sequences, FiniteSets

CONSTANTS
  Modules,     \* the mmuko_module_t structs of the process
  Callers,     \* threads that cache the address of a slot
  Paths,       \* paths of shared objects
  NoPath,      \* a NULL path
  NoCache,     \* a caller that holds no address
  Objects,     \* the files that may be found at a path,
  Content,     \*   and what each of them contains
  Requests,    \* the load requests made
  Policies,    \* the policies reloads are made under
  MaxSlots,    \* MMUKO_LOADER_MAX_SLOTS
  MaxMaps,     \* bound on the mappings ever made
  MaxOps       \* bound on the operations ever begun

Object == [query : BOOLEAN, table : Table \union {NoTable}, linked : SUBSET Symbols]

Request ==
  [path : Paths, name : ModuleNames \union {NoName}, minVersion : Version,
   required : Seq(Descriptor), policy : Policy, quarantine : BOOLEAN]

Handles == 1 .. MaxMaps
Null    == 0          \* a NULL handle, and a NULL table pointer

ASSUME LoaderAssumption ==
  /\ Content \in [Objects -> Object]
  /\ Requests \subseteq Request
  /\ Policies \subseteq Policy
  /\ Handles \X Symbols \subseteq Addresses
  /\ \A r \in Requests : \A i \in DOMAIN r.required : r.required[i].symbol \in Symbols
  /\ NoPath \notin Paths
  /\ IsFiniteSet(Modules)
  /\ MaxSlots \in Nat /\ MaxMaps \in Nat /\ MaxOps \in Nat

VARIABLES
  maps,        \* the dynamic loader's mappings
  mod,         \* the module structs
  op,          \* the operation in progress on each module
  before,      \* history: each module as its last reload found it
  cache,       \* what each caller remembers
  ops          \* operations begun, up to MaxOps

vars == <<maps, mod, op, before, cache, ops>>

Mapped(h) == h \in DOMAIN maps /\ maps[h].refs > 0

-----------------------------------------------------------------------------
(* The dynamic loader                                                      *)

\* dlopen(path): the handles it may return, each with the mappings after it.
Opens(path) ==
  {<<h, [maps EXCEPT ![h].refs = @ + 1]>> :
      h \in {g \in DOMAIN maps : maps[g].path = path /\ maps[g].refs > 0}}
  \union
  {<<Len(maps) + 1, Append(maps, [path |-> path, object |-> o, refs |-> 1])>> :
      o \in IF Len(maps) < MaxMaps THEN Objects ELSE {}}

\* dlclose(handle)
Closed(h) == [maps EXCEPT ![h].refs = @ - 1]

-----------------------------------------------------------------------------
(* Module structs                                                          *)

Module ==
  [handle : Handles \union {Null}, provided : Handles \union {Null},
   path : Paths \union {NoPath}, slots : Seq(Node),
   bound : Nat, faulted : Nat, degraded : BOOLEAN]

\* A struct after load's memset.
Empty(path) ==
  [handle |-> Null, provided |-> Null, path |-> path, slots |-> <<>>,
   bound |-> 0, faulted |-> 0, degraded |-> FALSE]

Results == {"NONE", "OK", "E_OPEN", "E_NO_TABLE", "E_TABLE", "E_ARCH", "E_CAPACITY", "E_UNBOUND"}

\* mmuko_policy_default on a 64-bit build
DefaultPolicy == [arch |-> Arch64, mask |-> MaskStable]

\* The locals of an operation (the slot bind_all is at, the handle a reload
\* replaces, the policy and the quarantine flag it was given), and once it has
\* returned which call it was and its result.
Calls == {"none", "load", "reload", "unload"}

Operation ==
  [pc : {"idle", "load", "reload", "unload"}, next : Nat, old : Handles \union {Null},
   policy : Policy, quarantine : BOOLEAN, call : Calls, result : Results]

Idle == [pc |-> "idle", next |-> 1, old |-> Null, policy |-> DefaultPolicy,
         quarantine |-> FALSE, call |-> "none", result |-> "NONE"]

\* interrogate
Interrogate(object, arch) ==
  IF Content[object].query THEN Validate(Content[object].table, arch) ELSE "E_NO_TABLE"

\* The gates of load, in order: the table, the module's name, its version.
Gate(req, object) ==
  LET table == Content[object].table
      rc    == Interrogate(object, req.policy.arch)
  IN  IF rc # "OK" THEN rc
      ELSE IF req.name \notin {NoName, table.name} THEN "E_TABLE"
      ELSE IF /\ Valid(req.minVersion)
              /\ Satisfies(req.minVersion, table.version, req.policy.mask) # "OK"
           THEN "E_TABLE"
      ELSE "OK"

\* What bind_all attaches to a slot: the signature and the version from the
\* object's table, the address from dlsym; nothing unless both are there.
Provider(m, t) ==
  LET symbol == t.u1.symbol
      export == Find(Content[maps[mod[m].provided].object].table, symbol)
  IN  IF export # NoDesc /\ symbol \in Content[maps[mod[m].handle].object].linked
      THEN [export EXCEPT !.address = <<mod[m].handle, symbol>>]
      ELSE NoDesc

\* What a caller remembers of a slot.
Cached == [module : Modules, slot : Nat, address : Addresses, generation : Nat]

BoundSlots(m) == {i \in DOMAIN mod[m].slots : mod[m].slots[i].state = "BOUND"}

-----------------------------------------------------------------------------
Init ==
  /\ maps   = <<>>
  /\ mod    = [m \in Modules |-> Empty(NoPath)]
  /\ op     = [m \in Modules |-> Idle]
  /\ before = mod
  /\ cache  = [c \in Callers |-> NoCache]
  /\ ops    = 0

\* A struct is loaded into when it is new or unloaded; whoever cached an
\* address of what it held before starts afresh.
Begin(m) ==
  /\ op[m].pc = "idle"
  /\ ops < MaxOps
  /\ ops' = ops + 1

Return(m, call, result) ==
  op' = [op EXCEPT ![m] = [Idle EXCEPT !.call = call, !.result = result]]

Forgotten(m) == [c \in Callers |-> IF cache[c] # NoCache /\ cache[c].module = m
                                   THEN NoCache ELSE cache[c]]

\* mmuko_load gives up; whatever it opened it has closed again.
LoadRefused(m, req) ==
  /\ Begin(m)
  /\ mod[m].handle = Null
  /\ IF Len(req.required) > MaxSlots
     THEN Return(m, "load", "E_CAPACITY")
     ELSE \/ Return(m, "load", "E_OPEN")
          \/ \E o \in Objects : Gate(req, o) # "OK" /\ Return(m, "load", Gate(req, o))
  /\ mod' = [mod EXCEPT ![m] = Empty(req.path)]
  /\ cache' = Forgotten(m)
  /\ UNCHANGED <<maps, before>>

\* mmuko_load up to its tridents, which are initialised and not yet bound.
LoadOpened(m, req) ==
  /\ Begin(m)
  /\ mod[m].handle = Null
  /\ Len(req.required) <= MaxSlots
  /\ \E open \in Opens(req.path) :
       LET h == open[1]
       IN  /\ maps' = open[2]
           /\ Gate(req, maps'[h].object) = "OK"
           /\ mod' = [mod EXCEPT ![m] =
                [Empty(req.path) EXCEPT
                   !.handle   = h,
                   !.provided = h,
                   !.slots    = [i \in DOMAIN req.required |-> InitNode(req.required[i])]]]
  /\ op' = [op EXCEPT ![m] = [Idle EXCEPT !.pc = "load", !.policy = req.policy,
                                          !.quarantine = req.quarantine]]
  /\ cache' = Forgotten(m)
  /\ UNCHANGED before

\* mmuko_reload gives up before it touches the module.
ReloadRefused(m, policy) ==
  /\ Begin(m)
  /\ \/ Return(m, "reload", "E_OPEN")
     \/ \E o \in Objects :
          /\ Interrogate(o, policy.arch) # "OK"
          /\ Return(m, "reload", Interrogate(o, policy.arch))
  /\ before' = [before EXCEPT ![m] = mod[m]]
  /\ UNCHANGED <<maps, mod, cache>>

\* Mutant: the old object is closed as soon as the new one is open.
ReloadOpenedClosingFirst(m, path, policy) ==
  LET from == IF path = NoPath THEN mod[m].path ELSE path
  IN  /\ Begin(m)
      /\ from # NoPath
      /\ \E open \in Opens(from) :
           LET h == open[1]
               o == mod[m].handle
           IN  /\ maps' = IF o \in {Null, h} THEN open[2] ELSE [open[2] EXCEPT ![o].refs = @ - 1]
               /\ Interrogate(maps'[h].object, policy.arch) = "OK"
               /\ mod' = [mod EXCEPT ![m].handle = h, ![m].provided = h,
                                     ![m].path = from, ![m].degraded = FALSE]
      /\ op' = [op EXCEPT ![m] = [Idle EXCEPT !.pc = "reload", !.policy = policy]]
      /\ before' = [before EXCEPT ![m] = mod[m]]
      /\ UNCHANGED cache

\* mmuko_reload up to bind_all.  A NULL path means the module's own, and a
\* module that never had one is refused without effect.
ReloadOpened(m, path, policy) ==
  LET from == IF path = NoPath THEN mod[m].path ELSE path
  IN  /\ Begin(m)
      /\ from # NoPath
      /\ \E open \in Opens(from) :
           LET h == open[1]
           IN  /\ maps' = open[2]
               /\ Interrogate(maps'[h].object, policy.arch) = "OK"
               /\ mod' = [mod EXCEPT ![m].handle = h, ![m].provided = h,
                                     ![m].path = from, ![m].degraded = FALSE]
      /\ op' = [op EXCEPT ![m] = [Idle EXCEPT !.pc = "reload", !.policy = policy,
                                              !.old = mod[m].handle]]
      /\ before' = [before EXCEPT ![m] = mod[m]]
      /\ UNCHANGED cache

\* Mutant: a slot the object offers nothing for is left as it was.
BindNextKeepingMissing(m) ==
  LET i == op[m].next
  IN  /\ op[m].pc \in {"load", "reload"}
      /\ i \in DOMAIN mod[m].slots
      /\ mod' = [mod EXCEPT ![m].slots[i] =
           IF Provider(m, @) = NoDesc THEN @ ELSE SwapNode(@, Provider(m, @), op[m].policy, TRUE)]
      /\ op' = [op EXCEPT ![m].next = i + 1]
      /\ UNCHANGED <<maps, before, cache, ops>>

\* One iteration of bind_all: slot next is swapped to what the object offers.
BindNext(m) ==
  LET i == op[m].next
  IN  /\ op[m].pc \in {"load", "reload"}
      /\ i \in DOMAIN mod[m].slots
      /\ mod' = [mod EXCEPT ![m].slots[i] = SwapNode(@, Provider(m, @), op[m].policy, TRUE)]
      /\ op' = [op EXCEPT ![m].next = i + 1]
      /\ UNCHANGED <<maps, before, cache, ops>>

\* Mutant: the counters of the last binding are not reset.
CountedOnTop(m) == [mod[m] EXCEPT !.bound   = @ + Cardinality(BoundSlots(m)),
                                  !.faulted = @ + Len(mod[m].slots) - Cardinality(BoundSlots(m))]

\* The count at the end of bind_all, and the operation's last steps.
Counted(m) == [mod[m] EXCEPT !.bound   = Cardinality(BoundSlots(m)),
                             !.faulted = Len(mod[m].slots) - Cardinality(BoundSlots(m))]

Finish(m) ==
  /\ op[m].pc \in {"load", "reload"}
  /\ op[m].next = Len(mod[m].slots) + 1
  /\ LET counted  == Counted(m)
         degraded == op[m].quarantine /\ counted.faulted > 0
         result   == IF counted.faulted = 0 \/ degraded THEN "OK" ELSE "E_UNBOUND"
     IN  /\ mod' = [mod EXCEPT ![m] = [counted EXCEPT !.degraded = degraded]]
         /\ Return(m, op[m].pc, result)
  /\ maps' = IF op[m].old \in {Null, mod[m].handle} THEN maps ELSE Closed(op[m].old)
  /\ UNCHANGED <<before, cache, ops>>

\* Mutant: the slots are cleared rather than pointed at the trap.
UnloadTrapToNull(m) ==
  /\ Begin(m)
  /\ mod' = [mod EXCEPT ![m].slots =
       [i \in DOMAIN @ |-> [@[i] EXCEPT !.state = "FAULT", !.fault = "MISSING",
                                        !.u2 = NoDesc, !.w = NoAddress]]]
  /\ op' = [op EXCEPT ![m] = [Idle EXCEPT !.pc = "unload"]]
  /\ UNCHANGED <<maps, before, cache>>

\* mmuko_unload: every slot to the trap, and only then the object is closed.
UnloadTrap(m) ==
  /\ Begin(m)
  /\ mod' = [mod EXCEPT ![m].slots =
       [i \in DOMAIN @ |-> [@[i] EXCEPT !.state = "FAULT", !.fault = "MISSING",
                                        !.u2 = NoDesc, !.w = Trap]]]
  /\ op' = [op EXCEPT ![m] = [Idle EXCEPT !.pc = "unload"]]
  /\ UNCHANGED <<maps, before, cache>>

\* Mutant: the module keeps the handle it has closed.
UnloadCloseKeepingHandle(m) ==
  /\ op[m].pc = "unload"
  /\ maps' = IF mod[m].handle = Null THEN maps ELSE Closed(mod[m].handle)
  /\ mod' = [mod EXCEPT ![m].provided = Null,
                        ![m].bound = 0, ![m].faulted = Len(mod[m].slots)]
  /\ Return(m, "unload", "NONE")
  /\ UNCHANGED <<before, cache, ops>>

UnloadClose(m) ==
  /\ op[m].pc = "unload"
  /\ maps' = IF mod[m].handle = Null THEN maps ELSE Closed(mod[m].handle)
  /\ mod' = [mod EXCEPT ![m].handle = Null, ![m].provided = Null,
                        ![m].bound = 0, ![m].faulted = Len(mod[m].slots)]
  /\ Return(m, "unload", "NONE")
  /\ UNCHANGED <<before, cache, ops>>

\* A caller takes the address of a slot (mmuko_module_sym) and remembers the
\* generation it saw.
Remember(c, m, i) ==
  LET t == mod[m].slots[i]
  IN  /\ AddressOf(t) # NoAddress
      /\ cache' = [cache EXCEPT ![c] = [module |-> m, slot |-> i, address |-> AddressOf(t),
                                        generation |-> t.generation]]
      /\ UNCHANGED <<maps, mod, op, before, ops>>

Next ==
  \/ \E m \in Modules, req \in Requests : LoadRefused(m, req)
  \/ \E m \in Modules, req \in Requests : LoadOpened(m, req)
  \/ \E m \in Modules, policy \in Policies : ReloadRefused(m, policy)
  \/ \E m \in Modules, path \in Paths \union {NoPath}, policy \in Policies :
       ReloadOpened(m, path, policy)
  \/ \E m \in Modules : BindNext(m)
  \/ \E m \in Modules : Finish(m)
  \/ \E m \in Modules : UnloadTrap(m)
  \/ \E m \in Modules : UnloadClose(m)
  \/ \E c \in Callers, m \in Modules : \E i \in DOMAIN mod[m].slots : Remember(c, m, i)

Spec == Init /\ [][Next]_vars

-----------------------------------------------------------------------------
(* Properties                                                              *)

\* Every variable has its type; above all, no slot is ever NULL.
TypeOK ==
  /\ maps \in Seq([path : Paths, object : Objects, refs : Nat])
  /\ mod \in [Modules -> Module]
  /\ op \in [Modules -> Operation]
  /\ before \in [Modules -> Module]
  /\ cache \in [Callers -> Cached \union {NoCache}]
  /\ ops \in 0 .. MaxOps

\* Nothing a module holds ever points into an object that is not mapped:
\* neither its table, nor the address of a bound slot, nor the descriptor
\* attached to a slot, in the middle of a reload or an unload as much as after
\* it.  (The order in reload, rebind before dlclose, and in unload, trap
\* before dlclose; and the pointer a refused load drops.)
NothingDangles ==
  \A m \in Modules :
    /\ mod[m].provided # Null => Mapped(mod[m].provided)
    /\ \A i \in DOMAIN mod[m].slots :
         LET t == mod[m].slots[i]
         IN  /\ t.state = "BOUND" => Mapped(t.w[1])
             /\ t.u2 # NoDesc => Mapped(t.u2.address[1])

\* No handle is closed more often than it was opened: a mapping is counted at
\* least once for every module that holds it and every reload about to close
\* it, however many modules share the object.
Holders(h) ==
  Cardinality({m \in Modules : mod[m].handle = h})
    + Cardinality({m \in Modules : op[m].old = h /\ mod[m].handle # h})

HandlesAreCounted == \A h \in DOMAIN maps : maps[h].refs >= Holders(h)

\* A bound slot is bound into the module's present object, under its own
\* symbol; only the slots a reload has not reached yet are still in the old one.
SlotsFollowTheHandle ==
  \A m \in Modules : \A i \in BoundSlots(m) :
    LET home == IF op[m].pc = "reload" /\ i >= op[m].next THEN op[m].old ELSE mod[m].handle
    IN  mod[m].slots[i].w = <<home, mod[m].slots[i].u1.symbol>>

\* What an operation reports is true of the slots when it returns: the counts
\* are theirs, and an unqualified OK means that every one of them is bound.
ReportsAreHonest ==
  \A m \in Modules : op[m].pc = "idle" =>
    /\ mod[m].bound = Cardinality(BoundSlots(m))
    /\ mod[m].faulted = Len(mod[m].slots) - mod[m].bound
    /\ op[m].result = "OK" => mod[m].faulted = 0 \/ mod[m].degraded
    /\ op[m].result = "E_UNBOUND" => mod[m].faulted > 0 /\ ~ mod[m].degraded

\* A load that does not bind every slot, and is not allowed to quarantine the
\* rest, releases nothing: no slot of the struct gives a caller an address.
UnboundLoadReleasesNothing ==
  \A m \in Modules :
    op[m].call = "load" /\ op[m].result = "E_UNBOUND" =>
      \A i \in DOMAIN mod[m].slots : AddressOf(mod[m].slots[i]) = NoAddress

\* A reload that fails leaves the module as it was.
FailedReloadKeepsModule ==
  \A m \in Modules :
    op[m].call = "reload" /\ op[m].result # "OK" => mod[m] = before[m]

\* A caller that finds its slot bound and the generation unchanged may call the
\* address it remembers: it is still mapped.
RememberedAddressIsMapped ==
  \A c \in Callers :
    cache[c] # NoCache =>
      LET t == mod[cache[c].module].slots[cache[c].slot]
      IN  t.state = "BOUND" /\ t.generation = cache[c].generation
            => Mapped(cache[c].address[1])
=============================================================================

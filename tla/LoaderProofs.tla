----------------------------- MODULE LoaderProofs -----------------------------
(***************************************************************************)
(* The loader's invariants, for every set of modules, paths, files and     *)
(* requests, and every sequence of loads, reloads and unloads.             *)
(***************************************************************************)
EXTENDS Loader, TridentRuleProofs, FiniteSetTheorems, SequenceTheorems

\* The slot of a struct is bound into, and attached to, the module's present
\* object; only the slots a reload has not reached yet are in the old one.
Home(s, o, i) == IF o.pc = "reload" /\ i >= o.next THEN o.old ELSE s.handle

\* A handle a struct holds is a mapping whose table was validated.
Opened(h) == h \in DOMAIN maps /\ Content[maps[h].object].table \in Table

\* What a slot points at is in its home, under the slot's own symbol; a bound
\* slot holds the address of what is attached to it.
SlotInv(t, home) ==
  /\ t.u1 \in Descriptor /\ t.u1.symbol \in Symbols
  /\ t.u2 # NoDesc => home \in Handles /\ t.u2.address = <<home, t.u1.symbol>>
  /\ t.state = "BOUND" => t.u2 # NoDesc /\ t.w = t.u2.address

Trapped(t) == t.u2 = NoDesc /\ t.state # "BOUND"

\* A struct s with the operation o in progress on it.
StructInv(s, o) ==
  /\ s.provided = s.handle
  /\ s.handle # Null => Opened(s.handle)
  /\ o.old # Null => Opened(o.old)
  /\ o.pc # "reload" => o.old = Null
  /\ o.pc \in {"load", "reload"} => s.handle # Null
  /\ o.next \in 1 .. Len(s.slots) + 1
  /\ \A i \in DOMAIN s.slots : SlotInv(s.slots[i], Home(s, o, i))
  /\ o.pc = "unload" => \A i \in DOMAIN s.slots : Trapped(s.slots[i])

\* The modules with an interest in a mapping.
Held(h) == {m \in Modules : mod[m].handle = h \/ op[m].old = h}

MapsInv ==
  /\ Len(maps) <= MaxMaps
  /\ \A h \in DOMAIN maps : maps[h].refs >= Cardinality(Held(h))

StructsInv == \A m \in Modules : StructInv(mod[m], op[m])

\* The invariants need each other: a mapping's count stays natural because it
\* counts its holders, and a slot is mapped because its home is held.
IInv == TypeOK /\ MapsInv /\ StructsInv /\ ReportsAreHonest

Mapping == [path : Paths, object : Objects, refs : Nat]

-----------------------------------------------------------------------------
(* Who holds a mapping                                                     *)

LEMMA HeldIsFinite ==
  ASSUME NEW h
  PROVE  IsFiniteSet(Held(h)) /\ Cardinality(Held(h)) \in Nat
<1>1. Held(h) \in SUBSET Modules
  BY DEF Held
<1>2. IsFiniteSet(Held(h))
  BY <1>1, FS_Subset, LoaderAssumption
<1>3. QED
  BY <1>2, FS_CardinalityType

LEMMA HeldStaysFinite ==
  ASSUME NEW h
  PROVE  Cardinality(Held(h)) \in Nat /\ Cardinality(Held(h)') \in Nat
<1>1. Held(h)' \in SUBSET Modules
  BY DEF Held
<1>2. IsFiniteSet(Held(h)')
  BY <1>1, FS_Subset, LoaderAssumption
<1>3. QED
  BY <1>2, HeldIsFinite, FS_CardinalityType

\* The two sets Holders counts are disjoint, and Held is their union.
LEMMA HoldersAreHeld == \A h : Holders(h) = Cardinality(Held(h))
<1> SUFFICES ASSUME NEW h PROVE Holders(h) = Cardinality(Held(h))
  OBVIOUS
<1> DEFINE A == {m \in Modules : mod[m].handle = h}
           B == {m \in Modules : op[m].old = h /\ mod[m].handle # h}
<1>1. Held(h) = A \union B /\ A \intersect B = {}
  BY DEF Held
<1>2. IsFiniteSet(A) /\ IsFiniteSet(B)
  <2>1. A \in SUBSET Modules /\ B \in SUBSET Modules
    OBVIOUS
  <2>2. QED
    BY <2>1, FS_Subset, LoaderAssumption
<1>3. Cardinality(A) \in Nat /\ Cardinality(B) \in Nat /\ Cardinality({}) = 0
  BY <1>2, FS_CardinalityType, FS_EmptySet
<1>4. Cardinality(A \union B) = Cardinality(A) + Cardinality(B) - Cardinality(A \intersect B)
  BY <1>2, FS_Union
<1> HIDE DEF A, B
<1>5. Cardinality(Held(h)) = Cardinality(A) + Cardinality(B)
  <2>1. Cardinality(Held(h)) = Cardinality(A \union B)
    BY <1>1
  <2>2. Cardinality(A \intersect B) = 0
    BY <1>1, <1>3
  <2>3. QED
    BY <1>3, <1>4, <2>1, <2>2
<1>6. Holders(h) = Cardinality(A) + Cardinality(B)
  BY DEF Holders, A, B
<1>7. QED
  BY <1>5, <1>6

LEMMA StructTypes ==
  ASSUME IInv, NEW m \in Modules
  PROVE  /\ mod[m] \in Module /\ op[m] \in Operation
         /\ mod[m].slots \in Seq(Node)
         /\ DOMAIN mod[m].slots = 1 .. Len(mod[m].slots) /\ Len(mod[m].slots) \in Nat
         /\ StructInv(mod[m], op[m])
         /\ op[m].next \in Nat
<1>1. mod[m] \in Module /\ op[m] \in Operation /\ StructInv(mod[m], op[m])
  BY DEF IInv, TypeOK, StructsInv
<1>2. mod[m].slots \in Seq(Node) /\ op[m].next \in Nat
  BY <1>1 DEF Module, Operation
<1>3. QED
  BY <1>1, <1>2, LenProperties

LEMMA MapsTypes ==
  ASSUME IInv
  PROVE  /\ maps \in Seq(Mapping)
         /\ Len(maps) \in Nat /\ DOMAIN maps = 1 .. Len(maps)
         /\ \A h \in DOMAIN maps : maps[h] \in Mapping /\ maps[h].refs \in Nat /\ h \in Handles
<1>1. maps \in Seq(Mapping) /\ Len(maps) <= MaxMaps
  BY DEF IInv, TypeOK, Mapping, MapsInv
<1>2. Len(maps) \in Nat /\ DOMAIN maps = 1 .. Len(maps)
  BY <1>1, LenProperties
<1>3. \A h \in DOMAIN maps : maps[h] \in Mapping
  BY <1>1, <1>2, ElementOfSeq
<1>4. \A h \in DOMAIN maps : h \in Handles
  BY <1>1, <1>2, LoaderAssumption DEF Handles
<1>5. QED
  BY <1>1, <1>2, <1>3, <1>4 DEF Mapping

\* Whatever a module holds is mapped, because the module is counted.
LEMMA HeldIsMapped ==
  ASSUME IInv, NEW m \in Modules, NEW h \in Handles, m \in Held(h)
  PROVE  h \in DOMAIN maps /\ maps[h].refs >= 1 /\ Mapped(h)
<1>1. h \in DOMAIN maps
  <2>1. h # Null
    BY LoaderAssumption DEF Handles, Null
  <2>2. QED
    BY <2>1, StructTypes DEF Held, StructInv, Opened
<1>2. maps[h].refs >= Cardinality(Held(h)) /\ maps[h].refs \in Nat
  BY <1>1, MapsTypes DEF IInv, MapsInv
<1>3. Cardinality(Held(h)) # 0 /\ Cardinality(Held(h)) \in Nat
  BY HeldIsFinite, FS_EmptySet
<1>4. QED
  BY <1>1, <1>2, <1>3 DEF Mapped

-----------------------------------------------------------------------------
(* The dynamic loader                                                      *)

\* ms is maps with some counts changed, and mappings added at the end.
Keeps(ms) ==
  /\ ms \in Seq(Mapping) /\ Len(ms) <= MaxMaps
  /\ DOMAIN maps \subseteq DOMAIN ms
  /\ \A g \in DOMAIN maps : ms[g].object = maps[g].object

LEMMA KeepsMeaning ==
  ASSUME NEW ms, Keeps(ms)
  PROVE  /\ DOMAIN ms = 1 .. Len(ms) /\ Len(ms) \in Nat
         /\ \A g \in DOMAIN ms : /\ ms[g] \in Mapping
                                 /\ ms[g].refs \in Nat /\ ms[g].object \in Objects
                                 /\ g # Null
<1>1. ms \in Seq(Mapping)
  BY DEF Keeps
<1>2. DOMAIN ms = 1 .. Len(ms) /\ Len(ms) \in Nat
  BY <1>1, LenProperties
<1>3. \A g \in DOMAIN ms : ms[g] \in Mapping
  BY <1>1, <1>2, ElementOfSeq
<1>4. QED
  BY <1>2, <1>3 DEF Mapping, Null

LEMMA SeqOfNodes ==
  ASSUME NEW n \in Nat, NEW f, f = [i \in 1 .. n |-> f[i]], \A i \in 1 .. n : f[i] \in Node
  PROVE  f \in Seq(Node) /\ Len(f) = n /\ DOMAIN f = 1 .. n
<1>1. f \in [1 .. n -> Node]
  OBVIOUS
<1>2. f \in Seq(Node) /\ DOMAIN f = 1 .. n
  BY <1>1, SeqDef
<1>3. DOMAIN f = 1 .. Len(f) /\ Len(f) \in Nat
  BY <1>2, LenProperties
<1>4. QED
  BY <1>2, <1>3

\* A handle that is opened is counted once more than it is held.
LEMMA OpensMeaning ==
  ASSUME IInv, NEW path \in Paths, NEW open \in Opens(path)
  PROVE  /\ open[1] \in Handles /\ open[1] \in DOMAIN open[2]
         /\ Keeps(open[2])
         /\ \A g \in DOMAIN open[2] :
              open[2][g].refs >= Cardinality(Held(g)) + (IF g = open[1] THEN 1 ELSE 0)
<1> USE MapsTypes
<1>a. \A g \in DOMAIN maps : maps[g].refs >= Cardinality(Held(g))
  BY DEF IInv, MapsInv
<1>b. \A g : Cardinality(Held(g)) \in Nat
  BY HeldIsFinite
<1>c. Len(maps) <= MaxMaps /\ MaxMaps \in Nat
  BY LoaderAssumption DEF IInv, MapsInv
<1>1. CASE \E h \in DOMAIN maps : open = <<h, [maps EXCEPT ![h].refs = @ + 1]>>
  <2>1. PICK h \in DOMAIN maps : open = <<h, [maps EXCEPT ![h].refs = @ + 1]>>
    BY <1>1
  <2>a. maps[h] \in Mapping /\ maps[h].refs + 1 \in Nat
    OBVIOUS
  <2>b. [maps[h] EXCEPT !.refs = @ + 1] \in Mapping
    BY <2>a DEF Mapping
  <2>2. PICK e \in Mapping : e = [maps[h] EXCEPT !.refs = @ + 1]
    BY <2>b
  <2>3. e.object = maps[h].object /\ e.refs = maps[h].refs + 1
    BY <2>2 DEF Mapping
  <2>4. PICK ms : ms = [maps EXCEPT ![h] = e] /\ open = <<h, ms>>
    BY <2>1, <2>2
  <2>5. /\ ms \in Seq(Mapping) /\ Len(ms) = Len(maps)
        /\ \A g \in 1 .. Len(maps) : ms[g] = IF g = h THEN e ELSE maps[g]
    BY <2>4, ExceptSeq
  <2>6. DOMAIN ms = DOMAIN maps
    BY <2>4
  <2>7. Keeps(ms)
    BY <1>c, <2>3, <2>5, <2>6 DEF Keeps
  <2>8. \A g \in DOMAIN ms : ms[g].refs >= Cardinality(Held(g)) + (IF g = h THEN 1 ELSE 0)
    BY <1>a, <1>b, <2>3, <2>5, <2>6
  <2>9. QED
    BY <2>4, <2>6, <2>7, <2>8
<1>2. CASE \E o \in Objects :
             /\ Len(maps) < MaxMaps
             /\ open = <<Len(maps) + 1,
                         Append(maps, [path |-> path, object |-> o, refs |-> 1])>>
  <2>1. PICK o \in Objects :
             /\ Len(maps) < MaxMaps
             /\ open = <<Len(maps) + 1,
                         Append(maps, [path |-> path, object |-> o, refs |-> 1])>>
    BY <1>2
  <2>2. PICK e \in Mapping : e = [path |-> path, object |-> o, refs |-> 1]
    BY DEF Mapping
  <2>3. PICK ms, h : ms = Append(maps, e) /\ h = Len(maps) + 1 /\ open = <<h, ms>>
    BY <2>1, <2>2
  <2>4. /\ ms \in Seq(Mapping) /\ Len(ms) = Len(maps) + 1
        /\ \A g \in 1 .. Len(maps) : ms[g] = maps[g]
        /\ ms[h] = e
    BY <2>3, AppendProperties
  <2>5. DOMAIN ms = 1 .. Len(maps) + 1
    BY <2>4, LenProperties
  <2>6. h \in Handles /\ h \notin DOMAIN maps
    BY <1>c, <2>1, <2>3 DEF Handles
  <2>7. Keeps(ms)
    BY <1>c, <2>1, <2>4, <2>5 DEF Keeps
  <2>8. Held(h) = {}
    BY <2>6, HeldIsMapped DEF Held
  <2>9. Cardinality(Held(h)) = 0
    BY <2>8, FS_EmptySet
  <2>10. e.refs = 1
    BY <2>2
  <2>11. ASSUME NEW g \in DOMAIN ms
         PROVE  ms[g].refs >= Cardinality(Held(g)) + (IF g = h THEN 1 ELSE 0)
    <3>1. CASE g = h
      BY <2>4, <2>9, <2>10, <3>1
    <3>2. CASE g # h
      <4>1. g \in DOMAIN maps
        BY <2>3, <2>5, <3>2
      <4>2. QED
        BY <1>a, <1>b, <2>4, <3>2, <4>1
    <3>3. QED
      BY <3>1, <3>2
  <2>12. QED
    BY <2>3, <2>5, <2>6, <2>7, <2>11
<1>3. QED
  BY <1>1, <1>2 DEF Opens

\* A handle that somebody holds may be closed once.
LEMMA ClosedMeaning ==
  ASSUME IInv, NEW h \in DOMAIN maps, maps[h].refs >= 1
  PROVE  /\ Keeps(Closed(h))
         /\ DOMAIN Closed(h) = DOMAIN maps
         /\ \A g \in DOMAIN maps :
              Closed(h)[g].refs = IF g = h THEN maps[g].refs - 1 ELSE maps[g].refs
<1> USE MapsTypes
<1>1. PICK e \in Mapping : e = [maps[h] EXCEPT !.refs = @ - 1]
  <2>1. maps[h].refs - 1 \in Nat
    OBVIOUS
  <2>2. QED
    BY <2>1 DEF Mapping
<1>2. e.object = maps[h].object /\ e.refs = maps[h].refs - 1
  BY <1>1 DEF Mapping
<1>3. Closed(h) = [maps EXCEPT ![h] = e]
  BY <1>1 DEF Closed
<1>4. /\ Closed(h) \in Seq(Mapping) /\ Len(Closed(h)) = Len(maps)
      /\ \A g \in 1 .. Len(maps) : Closed(h)[g] = IF g = h THEN e ELSE maps[g]
  BY <1>3, ExceptSeq
<1>5. DOMAIN Closed(h) = DOMAIN maps
  BY <1>3
<1>6. QED
  BY <1>2, <1>4, <1>5 DEF Keeps, IInv, MapsInv

-----------------------------------------------------------------------------
(* Tables and slots                                                        *)

LEMMA InterrogateMeaning ==
  ASSUME NEW o \in Objects, NEW arch
  PROVE  /\ Interrogate(o, arch) \in {"OK", "E_NO_TABLE", "E_TABLE", "E_ARCH"}
         /\ Interrogate(o, arch) = "OK" => Content[o].table \in Table
<1>1. Content[o].table \in Table \union {NoTable}
  BY LoaderAssumption DEF Object
<1>2. Validate(Content[o].table, arch) \in {"OK", "E_TABLE", "E_ARCH"}
  BY DEF Validate
<1>3. Validate(Content[o].table, arch) = "OK" => Content[o].table # NoTable
  BY DEF Validate
<1>4. QED
  BY <1>1, <1>2, <1>3 DEF Interrogate

LEMMA GateMeaning ==
  ASSUME NEW req, NEW o \in Objects
  PROVE  /\ Gate(req, o) \in {"OK", "E_NO_TABLE", "E_TABLE", "E_ARCH"}
         /\ Gate(req, o) = "OK" => Content[o].table \in Table
<1>1. Gate(req, o) \in {"OK", "E_TABLE", Interrogate(o, req.policy.arch)}
  BY DEF Gate
<1>2. Gate(req, o) = "OK" => Interrogate(o, req.policy.arch) = "OK"
  BY DEF Gate
<1>3. QED
  BY <1>1, <1>2, InterrogateMeaning

\* What bind_all attaches is nothing, or an address of the present object.
LEMMA ProviderMeaning ==
  ASSUME IInv, NEW m \in Modules, mod[m].handle # Null,
         NEW t \in Node, t.u1.symbol \in Symbols
  PROVE  /\ Provider(m, t) \in Descriptor \union {NoDesc}
         /\ Provider(m, t) # NoDesc =>
              Provider(m, t).address = <<mod[m].handle, t.u1.symbol>>
<1> DEFINE h      == mod[m].handle
           symbol == t.u1.symbol
           table  == Content[maps[h].object].table
           export == Find(table, symbol)
<1>1. h \in Handles /\ mod[m].provided = h /\ table \in Table
  BY StructTypes DEF StructInv, Opened, Module
<1>2. export \in Descriptor \union {NoDesc}
  BY <1>1 DEF Find, Table
<1>3. <<h, symbol>> \in Addresses
  BY <1>1, LoaderAssumption
<1>4. export # NoDesc => /\ [export EXCEPT !.address = <<h, symbol>>] \in Descriptor
                         /\ [export EXCEPT !.address = <<h, symbol>>].address = <<h, symbol>>
  BY <1>2, <1>3 DEF Descriptor
<1>5. Provider(m, t) \in {NoDesc} \/ /\ export # NoDesc
                                     /\ Provider(m, t) = [export EXCEPT !.address = <<h, symbol>>]
  BY <1>1 DEF Provider
<1> HIDE DEF export, h, symbol
<1>6. QED
  BY <1>4, <1>5 DEF h, symbol

LEMMA SwapMeaning ==
  ASSUME NEW t \in Node, NEW u2 \in Descriptor \union {NoDesc}, NEW pol \in Policy,
         NEW b \in BOOLEAN
  PROVE  LET r == SwapNode(t, u2, pol, b)
         IN  /\ r \in Node
             /\ r.u1 = t.u1 /\ r.u2 = u2
             /\ r.state = "BOUND" => u2 # NoDesc /\ r.w = u2.address
<1> DEFINE r == SwapNode(t, u2, pol, b)
           v == Verdict(t.u1, u2, pol, b)
<1>1. /\ r \in Node /\ r.u1 = t.u1 /\ r.u2 = u2
      /\ r.state = "BOUND" => u2 # NoDesc
  BY SwapNodeMeaning
<1>2. /\ r.state = IF v.fault = "NONE" THEN "BOUND" ELSE "FAULT"
      /\ r.w = IF v.fault = "NONE" THEN u2.address ELSE Trap
  BY SwapNodeMeaning
<1> HIDE DEF r, v
<1>3. QED
  BY <1>1, <1>2 DEF r

-----------------------------------------------------------------------------
(* A step of one module                                                    *)

Honest(m) ==
  op[m].pc = "idle" =>
    /\ mod[m].bound = Cardinality(BoundSlots(m))
    /\ mod[m].faulted = Len(mod[m].slots) - mod[m].bound
    /\ op[m].result = "OK" => mod[m].faulted = 0 \/ mod[m].degraded
    /\ op[m].result = "E_UNBOUND" => mod[m].faulted > 0 /\ ~ mod[m].degraded

\* Only the struct m, and the operation on it, change.
Touches(m) ==
  /\ mod' = [mod EXCEPT ![m] = mod'[m]] /\ mod'[m] \in Module
  /\ op' = [op EXCEPT ![m] = op'[m]] /\ op'[m] \in Operation

\* A mapping's holders change by at most that one module.
LEMMA CountHeld ==
  ASSUME IInv, NEW m \in Modules, Touches(m), NEW h
  PROVE  /\ m \in Held(h)' <=> mod'[m].handle = h \/ op'[m].old = h
         /\ IF m \in Held(h)'
            THEN Cardinality(Held(h)') <= Cardinality(Held(h)) + 1
            ELSE Cardinality(Held(h)') <= Cardinality(Held(h))
         /\ (m \in Held(h) <=> m \in Held(h)') => Cardinality(Held(h)') = Cardinality(Held(h))
         /\ m \in Held(h) \ Held(h)' => Cardinality(Held(h)') = Cardinality(Held(h)) - 1
<1>1. m \in Held(h)' <=> mod'[m].handle = h \/ op'[m].old = h
  BY DEF Held
<1>2. \A k \in Modules \ {m} : mod'[k] = mod[k] /\ op'[k] = op[k]
  BY DEF Touches, IInv, TypeOK
<1>3. Held(h)' = IF m \in Held(h)' THEN Held(h) \union {m} ELSE Held(h) \ {m}
  BY <1>2 DEF Held
<1>4. IsFiniteSet(Held(h)) /\ Cardinality(Held(h)) \in Nat
  BY HeldIsFinite
<1>5. /\ Cardinality(Held(h) \union {m}) =
           IF m \in Held(h) THEN Cardinality(Held(h)) ELSE Cardinality(Held(h)) + 1
      /\ Cardinality(Held(h) \ {m}) =
           IF m \in Held(h) THEN Cardinality(Held(h)) - 1 ELSE Cardinality(Held(h))
  BY <1>4, FS_AddElement, FS_RemoveElement
<1>6. CASE m \in Held(h)'
  <2>1. Cardinality(Held(h)') = Cardinality(Held(h) \union {m})
    BY <1>3, <1>6
  <2>2. QED
    BY <1>1, <1>4, <1>5, <1>6, <2>1
<1>7. CASE m \notin Held(h)'
  <2>1. Cardinality(Held(h)') = Cardinality(Held(h) \ {m})
    BY <1>3, <1>7
  <2>2. QED
    BY <1>1, <1>4, <1>5, <1>7, <2>1
<1>8. QED
  BY <1>6, <1>7

\* What has to be shown of such a step: the struct it leaves, and the counts.
LEMMA TouchesOne ==
  ASSUME IInv, NEW m \in Modules, Touches(m), Keeps(maps'),
         StructInv(mod[m], op[m])', Honest(m)',
         \A h \in DOMAIN maps' : maps'[h].refs >= Cardinality(Held(h)'),
         before' \in [Modules -> Module],
         cache' \in [Callers -> Cached \union {NoCache}],
         ops' \in 0 .. MaxOps
  PROVE  IInv'
<1>1. TypeOK /\ StructsInv /\ ReportsAreHonest
  BY DEF IInv
<1>2. mod' \in [Modules -> Module] /\ op' \in [Modules -> Operation]
  BY <1>1 DEF Touches, TypeOK
<1>3. TypeOK'
  BY <1>2 DEF TypeOK, Keeps, Mapping
<1>4. MapsInv'
  BY DEF MapsInv, Keeps
<1>5. \A k \in Modules \ {m} : mod'[k] = mod[k] /\ op'[k] = op[k]
  BY <1>1 DEF Touches, TypeOK
<1>6. \A h : Opened(h) => Opened(h)'
  BY DEF Opened, Keeps
<1>7. StructsInv'
  <2>1. ASSUME NEW s, NEW o, StructInv(s, o) PROVE StructInv(s, o)'
    BY <1>6, <2>1 DEF StructInv
  <2>2. ASSUME NEW k \in Modules \ {m} PROVE StructInv(mod[k], op[k])'
    <3>1. PICK s, o : s = mod[k] /\ o = op[k]
      OBVIOUS
    <3>2. StructInv(s, o)'
      BY <1>1, <2>1, <3>1 DEF StructsInv
    <3>3. s = mod'[k] /\ o = op'[k]
      BY <1>5, <3>1
    <3>4. QED
      BY <3>2, <3>3 DEF StructInv
  <2>3. QED
    BY <2>2 DEF StructsInv
<1>8. ReportsAreHonest'
  <2>1. ASSUME NEW k \in Modules \ {m} PROVE Honest(k)'
    <3>1. Honest(k)
      BY <1>1 DEF ReportsAreHonest, Honest
    <3>2. mod'[k] = mod[k] /\ op'[k] = op[k]
      BY <1>5
    <3>3. BoundSlots(k)' = BoundSlots(k)
      BY <3>2 DEF BoundSlots
    <3>4. QED
      BY <3>1, <3>2, <3>3 DEF Honest
  <2>2. QED
    BY <2>1 DEF ReportsAreHonest, Honest
<1>9. QED
  BY <1>3, <1>4, <1>7, <1>8 DEF IInv

LEMMA BeginMeaning ==
  ASSUME IInv, NEW m \in Modules, Begin(m)
  PROVE  op[m].pc = "idle" /\ op[m].old = Null /\ ops' \in 0 .. MaxOps
<1>1. StructInv(mod[m], op[m]) /\ ops \in 0 .. MaxOps
  BY StructTypes DEF IInv, TypeOK
<1>2. QED
  BY <1>1, LoaderAssumption DEF Begin, StructInv

LEMMA IdleType == Idle \in Operation
<1>1. DefaultPolicy \in Policy
  BY DEF DefaultPolicy, Policy, Profiles, Arch64, MaskStable, ValidStates, Stable, Lts, Experimental
<1>2. QED
  BY <1>1 DEF Idle, Operation, Null, Calls, Results

LEMMA ReturnMeaning ==
  ASSUME IInv, NEW m \in Modules, NEW call \in Calls, NEW result \in Results,
         Return(m, call, result)
  PROVE  /\ op' = [op EXCEPT ![m] = op'[m]] /\ op'[m] \in Operation
         /\ op'[m].pc = "idle" /\ op'[m].old = Null /\ op'[m].next = 1
         /\ op'[m].result = result
<1>1. op'[m] = [Idle EXCEPT !.call = call, !.result = result]
  BY DEF Return, IInv, TypeOK
<1>2. op' = [op EXCEPT ![m] = op'[m]]
  BY <1>1 DEF Return
<1>3. op'[m] \in Operation
  BY <1>1, IdleType DEF Operation
<1>4. QED
  BY <1>1, <1>2, <1>3 DEF Idle

LEMMA ForgottenType ==
  ASSUME IInv, NEW m
  PROVE  Forgotten(m) \in [Callers -> Cached \union {NoCache}]
BY DEF Forgotten, IInv, TypeOK

LEMMA EmptyMeaning ==
  ASSUME NEW path \in Paths \union {NoPath}
  PROVE  /\ Empty(path) \in Module
         /\ Empty(path).handle = Null /\ Empty(path).provided = Null
         /\ Empty(path).slots = <<>> /\ Len(Empty(path).slots) = 0
         /\ Empty(path).bound = 0 /\ Empty(path).faulted = 0
<1>1. <<>> \in Seq(Node) /\ Len(<<>>) = 0
  BY EmptySeq
<1>2. QED
  BY <1>1 DEF Empty, Module

-----------------------------------------------------------------------------
(* Every step keeps the invariant                                          *)

LEMMA InitInv == Init => IInv
<1> SUFFICES ASSUME Init PROVE IInv
  OBVIOUS
<1>1. /\ maps = <<>> /\ ops = 0 /\ before = mod
      /\ mod = [m \in Modules |-> Empty(NoPath)]
      /\ op = [m \in Modules |-> Idle]
      /\ cache = [c \in Callers |-> NoCache]
  BY DEF Init
<1>2. /\ Empty(NoPath) \in Module
      /\ Empty(NoPath).handle = Null /\ Empty(NoPath).provided = Null
      /\ Empty(NoPath).slots = <<>> /\ Len(Empty(NoPath).slots) = 0
      /\ Empty(NoPath).bound = 0 /\ Empty(NoPath).faulted = 0
  BY EmptyMeaning
<1>3. /\ Idle \in Operation /\ Idle.pc = "idle" /\ Idle.old = Null
      /\ Idle.next = 1 /\ Idle.result = "NONE"
  BY IdleType DEF Idle
<1>4. maps \in Seq(Mapping) /\ Len(maps) = 0 /\ DOMAIN maps = {}
  <2>1. maps \in Seq(Mapping) /\ Len(maps) = 0
    BY <1>1, EmptySeq
  <2>2. QED
    BY <2>1, LenProperties
<1>5. TypeOK
  BY <1>1, <1>2, <1>3, <1>4, LoaderAssumption DEF TypeOK, Mapping
<1>6. MapsInv
  BY <1>4, LoaderAssumption DEF MapsInv
<1>7. StructsInv
  <2>1. DOMAIN Empty(NoPath).slots = {}
    BY <1>2, EmptySeq, LenProperties
  <2>2. QED
    BY <1>1, <1>2, <1>3, <2>1 DEF StructsInv, StructInv
<1>8. ReportsAreHonest
  <2>1. ASSUME NEW m \in Modules
        PROVE  /\ BoundSlots(m) = {}
               /\ mod[m].bound = 0 /\ mod[m].faulted = 0 /\ Len(mod[m].slots) = 0
               /\ op[m].result = "NONE"
    <3>1. /\ mod[m].slots = <<>> /\ Len(mod[m].slots) = 0
          /\ mod[m].bound = 0 /\ mod[m].faulted = 0 /\ op[m].result = "NONE"
      BY <1>1, <1>2, <1>3
    <3>2. DOMAIN mod[m].slots = {}
      BY <3>1, EmptySeq, LenProperties
    <3>3. QED
      BY <3>1, <3>2 DEF BoundSlots
  <2>2. Cardinality({}) = 0
    BY FS_EmptySet
  <2>3. QED
    BY <2>1, <2>2 DEF ReportsAreHonest
<1>9. QED
  BY <1>5, <1>6, <1>7, <1>8 DEF IInv

LEMMA LoadRefusedInv ==
  ASSUME IInv, NEW m \in Modules, NEW req \in Requests, LoadRefused(m, req)
  PROVE  IInv'
<1>1. op[m].pc = "idle" /\ op[m].old = Null /\ ops' \in 0 .. MaxOps
  BY BeginMeaning DEF LoadRefused
<1>2. PICK result \in Results \ {"OK", "E_UNBOUND"} : Return(m, "load", result)
  <2>1. \A o \in Objects : Gate(req, o) # "OK" => Gate(req, o) \in Results \ {"OK", "E_UNBOUND"}
    BY GateMeaning DEF Results
  <2>2. {"E_CAPACITY", "E_OPEN"} \subseteq Results \ {"OK", "E_UNBOUND"}
    BY DEF Results
  <2>3. QED
    BY <2>1, <2>2 DEF LoadRefused
<1>3. /\ op' = [op EXCEPT ![m] = op'[m]] /\ op'[m] \in Operation
      /\ op'[m].pc = "idle" /\ op'[m].old = Null /\ op'[m].next = 1
      /\ op'[m].result = result
  BY <1>2, ReturnMeaning DEF Calls
<1>4. req.path \in Paths
  BY LoaderAssumption DEF Request
<1>5. mod'[m] = Empty(req.path) /\ mod' = [mod EXCEPT ![m] = mod'[m]]
  BY DEF LoadRefused, IInv, TypeOK
<1>6. /\ mod'[m] \in Module
      /\ mod'[m].handle = Null /\ mod'[m].provided = Null
      /\ mod'[m].slots = <<>> /\ Len(mod'[m].slots) = 0
      /\ mod'[m].bound = 0 /\ mod'[m].faulted = 0
  BY <1>4, <1>5, EmptyMeaning
<1>7. Touches(m)
  BY <1>3, <1>5, <1>6 DEF Touches
<1>8. maps' = maps /\ before' = before /\ cache' = Forgotten(m) /\ mod[m].handle = Null
  BY DEF LoadRefused
<1>9. Keeps(maps')
  BY <1>8, MapsTypes DEF Keeps, IInv, MapsInv
<1>10. ASSUME NEW h \in DOMAIN maps' PROVE maps'[h].refs >= Cardinality(Held(h)')
  <2>1. h # Null /\ h \in DOMAIN maps
    BY <1>8, MapsTypes, LoaderAssumption DEF Handles, Null
  <2>2. m \notin Held(h) /\ m \notin Held(h)'
    BY <1>1, <1>3, <1>6, <1>8, <2>1 DEF Held
  <2>3. Cardinality(Held(h)') = Cardinality(Held(h))
    BY <1>7, <2>2, CountHeld
  <2>4. QED
    BY <1>8, <2>1, <2>3 DEF IInv, MapsInv
<1>11. DOMAIN mod'[m].slots = {}
  BY <1>6, EmptySeq, LenProperties
<1>12. StructInv(mod[m], op[m])'
  BY <1>3, <1>6, <1>11 DEF StructInv
<1>13. Honest(m)'
  <2>1. BoundSlots(m)' = {}
    BY <1>11 DEF BoundSlots
  <2>2. Cardinality(BoundSlots(m)') = 0
    BY <2>1, FS_EmptySet
  <2>3. QED
    BY <1>3, <1>6, <2>2 DEF Honest
<1>14. QED
  BY <1>1, <1>7, <1>8, <1>9, <1>10, <1>12, <1>13, ForgottenType, TouchesOne DEF IInv, TypeOK

LEMMA InitNodeMeaning ==
  ASSUME NEW d \in Descriptor
  PROVE  /\ InitNode(d) \in Node /\ InitNode(d).u1 = d
         /\ InitNode(d).u2 = NoDesc /\ InitNode(d).state = "UNRESOLVED"
BY DEF InitNode, Node, BindStates, Faults

LEMMA LoadOpenedInv ==
  ASSUME IInv, NEW m \in Modules, NEW req \in Requests, LoadOpened(m, req)
  PROVE  IInv'
<1>1. op[m].pc = "idle" /\ op[m].old = Null /\ ops' \in 0 .. MaxOps /\ mod[m].handle = Null
  BY BeginMeaning DEF LoadOpened
<1>2. /\ req.path \in Paths /\ req.required \in Seq(Descriptor)
      /\ req.policy \in Policy /\ req.quarantine \in BOOLEAN
      /\ \A i \in DOMAIN req.required : req.required[i].symbol \in Symbols
  BY LoaderAssumption DEF Request
<1> DEFINE slots == [i \in DOMAIN req.required |-> InitNode(req.required[i])]
<1>3. PICK open \in Opens(req.path) :
        /\ maps' = open[2]
        /\ Gate(req, maps'[open[1]].object) = "OK"
        /\ mod' = [mod EXCEPT ![m] = [Empty(req.path) EXCEPT !.handle   = open[1],
                                                              !.provided = open[1],
                                                              !.slots    = slots]]
  BY DEF LoadOpened
<1>4. PICK h \in Handles : h = open[1]
  BY OpensMeaning, <1>2
<1>5. /\ Keeps(maps') /\ h \in DOMAIN maps'
      /\ \A g \in DOMAIN maps' :
           maps'[g].refs >= Cardinality(Held(g)) + (IF g = h THEN 1 ELSE 0)
  BY <1>2, <1>3, <1>4, OpensMeaning
<1>6. /\ DOMAIN slots = 1 .. Len(req.required) /\ Len(req.required) \in Nat
      /\ slots = [i \in 1 .. Len(req.required) |-> slots[i]]
  BY <1>2, LenProperties
<1>7. \A i \in DOMAIN slots : /\ req.required[i] \in Descriptor
                              /\ req.required[i].symbol \in Symbols
                              /\ slots[i] = InitNode(req.required[i])
  BY <1>2, <1>6, ElementOfSeq
<1>8. \A i \in DOMAIN slots : /\ slots[i] \in Node
                              /\ slots[i].u1 \in Descriptor /\ slots[i].u1.symbol \in Symbols
                              /\ slots[i].u2 = NoDesc /\ slots[i].state = "UNRESOLVED"
  BY <1>7, InitNodeMeaning
<1> HIDE DEF slots
<1>9. slots \in Seq(Node) /\ Len(slots) = Len(req.required)
  BY <1>6, <1>8, SeqOfNodes
<1>10. mod' = [mod EXCEPT ![m] = mod'[m]]
       /\ mod'[m] = [Empty(req.path) EXCEPT !.handle = h, !.provided = h, !.slots = slots]
  BY <1>3, <1>4 DEF IInv, TypeOK
<1>11. /\ mod'[m] \in Module
       /\ mod'[m].handle = h /\ mod'[m].provided = h /\ mod'[m].slots = slots
  <2>1. mod'[m] = [handle |-> h, provided |-> h, path |-> req.path, slots |-> slots,
                   bound |-> 0, faulted |-> 0, degraded |-> FALSE]
    BY <1>10 DEF Empty
  <2>2. QED
    BY <1>2, <1>9, <2>1 DEF Module
<1>12. op'[m] = [Idle EXCEPT !.pc = "load", !.policy = req.policy, !.quarantine = req.quarantine]
       /\ op' = [op EXCEPT ![m] = op'[m]]
  BY DEF LoadOpened, IInv, TypeOK
<1>13. op'[m] \in Operation /\ op'[m].pc = "load" /\ op'[m].old = Null /\ op'[m].next = 1
  <2>1. op'[m] \in Operation
    BY <1>2, <1>12, IdleType DEF Operation
  <2>2. QED
    BY <1>12, <2>1 DEF Idle
<1>14. Touches(m)
  BY <1>10, <1>11, <1>12, <1>13 DEF Touches
<1>15. \A g \in DOMAIN maps' : g # Null /\ maps'[g].refs \in Nat
  BY <1>5, KeepsMeaning
<1>16. ASSUME NEW g \in DOMAIN maps' PROVE maps'[g].refs >= Cardinality(Held(g)')
  <2>1. m \notin Held(g) /\ (m \in Held(g)' <=> g = h)
    BY <1>1, <1>11, <1>13, <1>15 DEF Held
  <2>2. /\ m \in Held(g)' => Cardinality(Held(g)') <= Cardinality(Held(g)) + 1
        /\ m \notin Held(g)' => Cardinality(Held(g)') = Cardinality(Held(g))
    BY <1>14, <2>1, CountHeld
  <2>3. Cardinality(Held(g)) \in Nat /\ Cardinality(Held(g)') \in Nat
    BY HeldStaysFinite
  <2>4. QED
    BY <1>5, <1>15, <2>1, <2>2, <2>3
<1>17. Opened(h)'
  <2>1. maps'[h].object \in Objects
    BY <1>5, KeepsMeaning
  <2>2. QED
    BY <1>3, <1>4, <1>5, <2>1, GateMeaning DEF Opened
<1>18. StructInv(mod[m], op[m])'
  <2>1. \A i \in DOMAIN mod'[m].slots : SlotInv(mod'[m].slots[i], Home(mod'[m], op'[m], i))
    BY <1>8, <1>11 DEF SlotInv
  <2>2. 1 \in 1 .. Len(mod'[m].slots) + 1
    BY <1>6, <1>9, <1>11
  <2>3. QED
    BY <1>5, <1>11, <1>13, <1>15, <1>17, <2>1, <2>2 DEF StructInv, Opened
<1>19. Honest(m)'
  BY <1>13 DEF Honest
<1>20. before' = before /\ cache' = Forgotten(m)
  BY DEF LoadOpened
<1>21. QED
  BY <1>1, <1>5, <1>14, <1>16, <1>18, <1>19, <1>20, ForgottenType, TouchesOne DEF IInv, TypeOK

LEMMA ReloadRefusedInv ==
  ASSUME IInv, NEW m \in Modules, NEW policy \in Policies, ReloadRefused(m, policy)
  PROVE  IInv'
<1>1. op[m].pc = "idle" /\ op[m].old = Null /\ ops' \in 0 .. MaxOps
  BY BeginMeaning DEF ReloadRefused
<1>2. PICK result \in Results \ {"OK", "E_UNBOUND"} : Return(m, "reload", result)
  <2>1. \A o \in Objects : Interrogate(o, policy.arch) # "OK" =>
                             Interrogate(o, policy.arch) \in Results \ {"OK", "E_UNBOUND"}
    BY InterrogateMeaning DEF Results
  <2>2. "E_OPEN" \in Results \ {"OK", "E_UNBOUND"}
    BY DEF Results
  <2>3. QED
    BY <2>1, <2>2 DEF ReloadRefused
<1>3. /\ op' = [op EXCEPT ![m] = op'[m]] /\ op'[m] \in Operation
      /\ op'[m].pc = "idle" /\ op'[m].old = Null /\ op'[m].next = 1
      /\ op'[m].result = result
  BY <1>2, ReturnMeaning DEF Calls
<1>4. /\ maps' = maps /\ mod' = mod /\ cache' = cache
      /\ before' = [before EXCEPT ![m] = mod[m]]
  BY DEF ReloadRefused
<1>5. mod[m] \in Module /\ StructInv(mod[m], op[m]) /\ Len(mod[m].slots) \in Nat
  BY StructTypes
<1>6. Touches(m)
  BY <1>3, <1>4, <1>5 DEF Touches, IInv, TypeOK
<1>7. Keeps(maps')
  BY <1>4, MapsTypes DEF Keeps, IInv, MapsInv
<1>8. ASSUME NEW h \in DOMAIN maps' PROVE maps'[h].refs >= Cardinality(Held(h)')
  <2>1. m \in Held(h) <=> m \in Held(h)'
    BY <1>1, <1>3, <1>4 DEF Held
  <2>2. Cardinality(Held(h)') = Cardinality(Held(h))
    BY <1>6, <2>1, CountHeld
  <2>3. QED
    BY <1>4, <2>2 DEF IInv, MapsInv
<1>9. StructInv(mod[m], op[m])'
  BY <1>1, <1>3, <1>4, <1>5 DEF StructInv, Opened, Home
<1>10. Honest(m)'
  <2>1. BoundSlots(m)' = BoundSlots(m)
    BY <1>4 DEF BoundSlots
  <2>2. Honest(m)
    BY DEF IInv, ReportsAreHonest, Honest
  <2>3. QED
    BY <1>1, <1>3, <1>4, <2>1, <2>2 DEF Honest
<1>11. before' \in [Modules -> Module]
  BY <1>4, <1>5 DEF IInv, TypeOK
<1>12. QED
  BY <1>1, <1>4, <1>6, <1>7, <1>8, <1>9, <1>10, <1>11, TouchesOne DEF IInv, TypeOK

LEMMA ReloadOpenedInv ==
  ASSUME IInv, NEW m \in Modules, NEW path \in Paths \union {NoPath}, NEW policy \in Policies,
         ReloadOpened(m, path, policy)
  PROVE  IInv'
<1> DEFINE from  == IF path = NoPath THEN mod[m].path ELSE path
           slots == mod[m].slots
<1>1. op[m].pc = "idle" /\ op[m].old = Null /\ ops' \in 0 .. MaxOps
  BY BeginMeaning DEF ReloadOpened
<1>2. /\ mod[m] \in Module /\ StructInv(mod[m], op[m])
      /\ slots \in Seq(Node) /\ DOMAIN slots = 1 .. Len(slots) /\ Len(slots) \in Nat
  BY StructTypes
<1>3. from \in Paths
  BY <1>2 DEF ReloadOpened, Module
<1>4. PICK open \in Opens(from) :
        /\ maps' = open[2]
        /\ Interrogate(maps'[open[1]].object, policy.arch) = "OK"
        /\ mod' = [mod EXCEPT ![m].handle = open[1], ![m].provided = open[1],
                              ![m].path = from, ![m].degraded = FALSE]
  BY DEF ReloadOpened
<1>5. PICK h \in Handles : h = open[1]
  BY OpensMeaning, <1>3
<1>6. /\ Keeps(maps') /\ h \in DOMAIN maps'
      /\ \A g \in DOMAIN maps' :
           maps'[g].refs >= Cardinality(Held(g)) + (IF g = h THEN 1 ELSE 0)
  BY <1>3, <1>4, <1>5, OpensMeaning
<1> HIDE DEF from, slots
<1>7. /\ mod' = [mod EXCEPT ![m] = mod'[m]]
      /\ mod'[m] = [mod[m] EXCEPT !.handle = h, !.provided = h, !.path = from, !.degraded = FALSE]
  BY <1>4, <1>5 DEF IInv, TypeOK
<1>8. /\ mod'[m] \in Module
      /\ mod'[m].handle = h /\ mod'[m].provided = h /\ mod'[m].slots = slots
  BY <1>2, <1>3, <1>7 DEF Module, slots
<1>9. /\ op' = [op EXCEPT ![m] = op'[m]]
      /\ op'[m] = [Idle EXCEPT !.pc = "reload", !.policy = policy, !.old = mod[m].handle]
  BY DEF ReloadOpened, IInv, TypeOK
<1>10. /\ op'[m] \in Operation
       /\ op'[m].pc = "reload" /\ op'[m].old = mod[m].handle /\ op'[m].next = 1
  <2>1. policy \in Policy /\ mod[m].handle \in Handles \union {Null}
    BY <1>2, LoaderAssumption DEF Module
  <2>2. op'[m] \in Operation
    BY <1>9, <2>1, IdleType DEF Operation
  <2>3. QED
    BY <1>9, <2>2 DEF Idle
<1>11. Touches(m)
  BY <1>7, <1>8, <1>9, <1>10 DEF Touches
<1>12. ASSUME NEW g \in DOMAIN maps' PROVE maps'[g].refs >= Cardinality(Held(g)')
  <2>1. g # Null /\ maps'[g].refs \in Nat
    BY <1>6, KeepsMeaning
  <2>2. /\ m \in Held(g) <=> mod[m].handle = g
        /\ m \in Held(g)' <=> g = h \/ mod[m].handle = g
    BY <1>1, <1>8, <1>10, <2>1 DEF Held
  <2>3. /\ m \in Held(g)' => Cardinality(Held(g)') <= Cardinality(Held(g)) + 1
        /\ (m \in Held(g) <=> m \in Held(g)') => Cardinality(Held(g)') = Cardinality(Held(g))
    BY <1>11, CountHeld
  <2>4. Cardinality(Held(g)) \in Nat /\ Cardinality(Held(g)') \in Nat
    BY HeldStaysFinite
  <2>5. CASE g = h
    BY <1>6, <2>1, <2>2, <2>3, <2>4, <2>5
  <2>6. CASE g # h
    BY <1>6, <2>1, <2>2, <2>3, <2>4, <2>6
  <2>7. QED
    BY <2>5, <2>6
<1>13. Opened(h)'
  <2>1. maps'[h].object \in Objects
    BY <1>6, KeepsMeaning
  <2>2. QED
    BY <1>4, <1>5, <1>6, <2>1, InterrogateMeaning DEF Opened
<1>14. StructInv(mod[m], op[m])'
  <2>1. mod[m].handle # Null => Opened(mod[m].handle) /\ mod[m].handle \in DOMAIN maps
    BY <1>2 DEF StructInv, Opened
  <2>2. \A g : Opened(g) => Opened(g)'
    BY <1>6 DEF Opened, Keeps
  <2>3. PICK o : o = mod[m].handle /\ (o # Null => Opened(o)')
    BY <2>1, <2>2
  <2>4. \A i \in DOMAIN slots : SlotInv(slots[i], mod[m].handle)
    BY <1>1, <1>2 DEF StructInv, Home, slots
  <2>5. \A i \in DOMAIN slots : Home(mod'[m], op'[m], i) = mod[m].handle
    BY <1>2, <1>10 DEF Home, slots
  <2>6. h # Null
    BY <1>6, KeepsMeaning
  <2>7. 1 \in 1 .. Len(slots) + 1
    BY <1>2 DEF slots
  <2>8. QED
    BY <1>8, <1>10, <1>13, <2>3, <2>4, <2>5, <2>6, <2>7 DEF StructInv, Opened
<1>15. Honest(m)'
  BY <1>10 DEF Honest
<1>16. cache' = cache /\ before' \in [Modules -> Module]
  BY <1>2 DEF ReloadOpened, IInv, TypeOK
<1>17. QED
  BY <1>1, <1>6, <1>11, <1>12, <1>14, <1>15, <1>16, TouchesOne DEF IInv, TypeOK

LEMMA BindNextInv ==
  ASSUME IInv, NEW m \in Modules, BindNext(m)
  PROVE  IInv'
<1> DEFINE slots == mod[m].slots
           i     == op[m].next
<1>1. /\ mod[m] \in Module /\ op[m] \in Operation /\ StructInv(mod[m], op[m])
      /\ slots \in Seq(Node) /\ DOMAIN slots = 1 .. Len(slots) /\ Len(slots) \in Nat
      /\ i \in Nat
  BY StructTypes
<1>2. op[m].pc \in {"load", "reload"} /\ i \in DOMAIN slots /\ mod[m].handle # Null
  BY <1>1 DEF BindNext, StructInv
<1>3. PICK t \in Node : t = slots[i] /\ SlotInv(t, Home(mod[m], op[m], i))
  BY <1>1, <1>2, ElementOfSeq DEF StructInv
<1>4. /\ t.u1 \in Descriptor /\ t.u1.symbol \in Symbols
      /\ op[m].policy \in Policy
  BY <1>1, <1>3 DEF SlotInv, Operation
<1>5. PICK u2 \in Descriptor \union {NoDesc} :
        /\ u2 = Provider(m, t)
        /\ u2 # NoDesc => u2.address = <<mod[m].handle, t.u1.symbol>>
  BY <1>2, <1>3, <1>4, ProviderMeaning
<1>b. PICK b \in BOOLEAN : b = TRUE
  OBVIOUS
<1>6. PICK r \in Node :
        /\ r = SwapNode(t, u2, op[m].policy, b)
        /\ r.u1 = t.u1 /\ r.u2 = u2
        /\ r.state = "BOUND" => r.u2 # NoDesc /\ r.w = r.u2.address
  BY <1>4, SwapMeaning
<1>7. SlotInv(r, mod[m].handle)
  <2>1. mod[m].handle \in Handles
    BY <1>1, <1>2 DEF Module
  <2>2. QED
    BY <1>4, <1>5, <1>6, <2>1 DEF SlotInv
<1>a. mod' = [mod EXCEPT ![m].slots[i] = SwapNode(mod[m].slots[i],
                   Provider(m, mod[m].slots[i]), op[m].policy, TRUE)]
  BY DEF BindNext
<1>8. /\ op' = [op EXCEPT ![m].next = i + 1]
      /\ maps' = maps /\ before' = before /\ cache' = cache /\ ops' = ops
  BY DEF BindNext
<1>9. PICK ss : ss = [slots EXCEPT ![i] = r]
  OBVIOUS
<1>10. /\ ss \in Seq(Node) /\ Len(ss) = Len(slots) /\ DOMAIN ss = DOMAIN slots
       /\ \A j \in DOMAIN slots : ss[j] = IF j = i THEN r ELSE slots[j]
  BY <1>1, <1>2, <1>6, <1>9, ExceptSeq
<1>11. mod' = [mod EXCEPT ![m].slots[i] = r]
  BY <1>a, <1>b, <1>3, <1>5, <1>6
<1> HIDE DEF slots, i
<1>12. /\ mod' = [mod EXCEPT ![m] = mod'[m]]
       /\ mod'[m] = [mod[m] EXCEPT !.slots = ss]
       /\ op' = [op EXCEPT ![m] = op'[m]]
       /\ op'[m] = [op[m] EXCEPT !.next = i + 1]
  BY <1>8, <1>9, <1>11 DEF IInv, TypeOK, slots, i
<1>13. /\ mod'[m] \in Module /\ mod'[m].slots = ss
       /\ mod'[m].handle = mod[m].handle /\ mod'[m].provided = mod[m].provided
  BY <1>1, <1>10, <1>12 DEF Module
<1>14. /\ op'[m] \in Operation /\ op'[m].next = i + 1
       /\ op'[m].pc = op[m].pc /\ op'[m].old = op[m].old
  <2>1. i + 1 \in Nat
    BY <1>1
  <2>2. QED
    BY <1>1, <1>12, <2>1 DEF Operation
<1>15. Touches(m)
  BY <1>12, <1>13, <1>14 DEF Touches
<1>16. Keeps(maps')
  BY <1>8, MapsTypes DEF Keeps, IInv, MapsInv
<1>17. ASSUME NEW h \in DOMAIN maps' PROVE maps'[h].refs >= Cardinality(Held(h)')
  <2>1. m \in Held(h) <=> m \in Held(h)'
    BY <1>13, <1>14 DEF Held
  <2>2. Cardinality(Held(h)') = Cardinality(Held(h))
    BY <1>15, <2>1, CountHeld
  <2>3. QED
    BY <1>8, <2>2 DEF IInv, MapsInv
<1>18. StructInv(mod[m], op[m])'
  <2>1. ASSUME NEW j \in DOMAIN slots
        PROVE  SlotInv(ss[j], Home(mod'[m], op'[m], j))
    <3>1. j \in Nat
      BY <1>1 DEF slots
    <3>2. CASE j = i
      <4>1. Home(mod'[m], op'[m], j) = mod[m].handle
        BY <1>1, <1>13, <1>14, <3>1, <3>2 DEF Home
      <4>2. QED
        BY <1>7, <1>10, <3>2, <4>1
    <3>3. CASE j # i
      <4>1. Home(mod'[m], op'[m], j) = Home(mod[m], op[m], j)
        BY <1>1, <1>13, <1>14, <3>1, <3>3 DEF Home, i
      <4>2. ss[j] = slots[j]
        BY <1>10, <3>3
      <4>3. SlotInv(slots[j], Home(mod[m], op[m], j))
        BY <1>1 DEF StructInv, slots
      <4>4. QED
        BY <4>1, <4>2, <4>3
    <3>4. QED
      BY <3>2, <3>3
  <2>2. i + 1 \in 1 .. Len(ss) + 1
    BY <1>1, <1>2, <1>10 DEF slots, i
  <2>3. QED
    BY <1>1, <1>2, <1>8, <1>10, <1>13, <1>14, <2>1, <2>2 DEF StructInv, Opened
<1>19. Honest(m)'
  BY <1>2, <1>14 DEF Honest
<1>20. QED
  BY <1>8, <1>15, <1>16, <1>17, <1>18, <1>19, TouchesOne DEF IInv, TypeOK

\* The slots of a struct that bind_all is done with are all in its own object.
LEMMA FinishInv ==
  ASSUME IInv, NEW m \in Modules, Finish(m)
  PROVE  IInv'
<1> DEFINE slots    == mod[m].slots
           n        == Cardinality(BoundSlots(m))
           faulted  == Len(slots) - n
           degraded == op[m].quarantine /\ faulted > 0
           result   == IF faulted = 0 \/ degraded THEN "OK" ELSE "E_UNBOUND"
           old      == op[m].old
<1>1. /\ mod[m] \in Module /\ op[m] \in Operation /\ StructInv(mod[m], op[m])
      /\ slots \in Seq(Node) /\ DOMAIN slots = 1 .. Len(slots) /\ Len(slots) \in Nat
  BY StructTypes
<1>2. /\ op[m].pc \in {"load", "reload"} /\ op[m].next = Len(slots) + 1
      /\ maps' = IF old \in {Null, mod[m].handle} THEN maps ELSE Closed(old)
      /\ before' = before /\ cache' = cache /\ ops' = ops
  BY DEF Finish
<1>3. n \in Nat /\ n <= Len(slots)
  <2>1. BoundSlots(m) \in SUBSET (1 .. Len(slots))
    BY <1>1 DEF BoundSlots
  <2>2. IsFiniteSet(1 .. Len(slots)) /\ Cardinality(1 .. Len(slots)) = Len(slots)
    BY <1>1, FS_Interval
  <2>3. IsFiniteSet(BoundSlots(m)) /\ Cardinality(BoundSlots(m)) <= Len(slots)
    BY <2>1, <2>2, FS_Subset
  <2>4. QED
    BY <2>3, FS_CardinalityType
<1>4. faulted \in Nat /\ degraded \in BOOLEAN
  BY <1>1, <1>3 DEF Operation
<1>5. /\ mod'[m] = [[mod[m] EXCEPT !.bound = n, !.faulted = faulted] EXCEPT !.degraded = degraded]
      /\ mod' = [mod EXCEPT ![m] = mod'[m]]
      /\ Return(m, op[m].pc, result)
  <2>1. Counted(m).faulted = faulted
    BY <1>1 DEF Counted, Module
  <2>2. QED
    BY <2>1 DEF Finish, Counted, IInv, TypeOK
<1> HIDE DEF n, faulted, degraded, slots
<1>6. /\ mod'[m] \in Module
      /\ mod'[m].handle = mod[m].handle /\ mod'[m].provided = mod[m].provided
      /\ mod'[m].slots = slots
      /\ mod'[m].bound = n /\ mod'[m].faulted = faulted /\ mod'[m].degraded = degraded
  BY <1>1, <1>3, <1>4, <1>5 DEF Module, slots
<1>7. /\ op' = [op EXCEPT ![m] = op'[m]] /\ op'[m] \in Operation
      /\ op'[m].pc = "idle" /\ op'[m].old = Null /\ op'[m].next = 1
      /\ op'[m].result = result
  <2>1. result \in Results /\ op[m].pc \in Calls
    BY <1>2 DEF Results, Calls
  <2>2. QED
    BY <1>5, <2>1, ReturnMeaning
<1>8. Touches(m)
  BY <1>5, <1>6, <1>7 DEF Touches
<1>9. /\ Keeps(maps')
      /\ \A h \in DOMAIN maps' : maps'[h].refs >= Cardinality(Held(h)')
  <2>1. \A h \in DOMAIN maps : /\ maps[h].refs >= Cardinality(Held(h))
                               /\ maps[h].refs \in Nat /\ h # Null
    BY MapsTypes, LoaderAssumption DEF IInv, MapsInv, Handles, Null
  <2>2. \A h : Cardinality(Held(h)) \in Nat /\ Cardinality(Held(h)') \in Nat
    BY HeldStaysFinite
  <2>3. \A h : h # Null => (m \in Held(h)' <=> mod[m].handle = h)
    BY <1>6, <1>7 DEF Held
  <2>4. \A h : m \in Held(h) <=> mod[m].handle = h \/ old = h
    BY DEF Held
  <2>5. CASE old \in {Null, mod[m].handle}
    <3>1. maps' = maps
      BY <1>2, <2>5
    <3>2. ASSUME NEW h \in DOMAIN maps PROVE maps[h].refs >= Cardinality(Held(h)')
      <4>1. m \in Held(h) <=> m \in Held(h)'
        BY <2>1, <2>3, <2>4, <2>5
      <4>2. Cardinality(Held(h)') = Cardinality(Held(h))
        BY <1>8, <4>1, CountHeld
      <4>3. QED
        BY <2>1, <4>2
    <3>3. QED
      BY <3>1, <3>2, MapsTypes DEF Keeps, IInv, MapsInv
  <2>6. CASE old \notin {Null, mod[m].handle}
    <3>1. maps' = Closed(old) /\ old \in Handles /\ m \in Held(old)
      BY <1>1, <1>2, <2>4, <2>6 DEF Operation
    <3>2. old \in DOMAIN maps /\ maps[old].refs >= 1
      BY <3>1, HeldIsMapped
    <3>3. /\ Keeps(maps') /\ DOMAIN maps' = DOMAIN maps
          /\ \A g \in DOMAIN maps :
               maps'[g].refs = IF g = old THEN maps[g].refs - 1 ELSE maps[g].refs
      BY <3>1, <3>2, ClosedMeaning
    <3>4. ASSUME NEW h \in DOMAIN maps PROVE maps'[h].refs >= Cardinality(Held(h)')
      <4>1. CASE h = old
        <5>1. m \in Held(h) \ Held(h)'
          BY <2>1, <2>3, <2>4, <2>6, <4>1
        <5>2. Cardinality(Held(h)') = Cardinality(Held(h)) - 1
          BY <1>8, <5>1, CountHeld
        <5>3. QED
          BY <2>1, <2>2, <3>3, <4>1, <5>2
      <4>2. CASE h # old
        <5>1. m \in Held(h) <=> m \in Held(h)'
          BY <2>1, <2>3, <2>4, <4>2
        <5>2. Cardinality(Held(h)') = Cardinality(Held(h))
          BY <1>8, <5>1, CountHeld
        <5>3. QED
          BY <2>1, <3>3, <4>2, <5>2
      <4>3. QED
        BY <4>1, <4>2
    <3>5. QED
      BY <3>3, <3>4
  <2>7. QED
    BY <2>5, <2>6
<1>10. StructInv(mod[m], op[m])'
  <2>1. \A i \in DOMAIN slots : Home(mod[m], op[m], i) = mod[m].handle
    BY <1>1, <1>2 DEF Home, slots
  <2>2. \A i \in DOMAIN slots : SlotInv(slots[i], mod[m].handle)
    BY <1>1, <2>1 DEF StructInv, slots
  <2>3. \A i \in DOMAIN slots : Home(mod'[m], op'[m], i) = mod[m].handle
    BY <1>6, <1>7 DEF Home
  <2>4. mod[m].handle # Null => /\ mod[m].handle \in DOMAIN maps'
                                /\ Content[maps'[mod[m].handle].object].table \in Table
    BY <1>1, <1>9 DEF StructInv, Opened, Keeps
  <2>5. 1 \in 1 .. Len(slots) + 1
    BY <1>1 DEF slots
  <2>6. QED
    BY <1>1, <1>6, <1>7, <2>2, <2>3, <2>4, <2>5 DEF StructInv, Opened
<1>11. Honest(m)'
  <2>1. BoundSlots(m)' = BoundSlots(m)
    BY <1>6 DEF BoundSlots, slots
  <2>2. mod'[m].bound = Cardinality(BoundSlots(m)')
    BY <1>6, <2>1 DEF n
  <2>3. mod'[m].faulted = Len(mod'[m].slots) - mod'[m].bound
    BY <1>6 DEF faulted
  <2>4. QED
    BY <1>4, <1>6, <1>7, <2>2, <2>3 DEF Honest
<1>12. QED
  BY <1>2, <1>8, <1>9, <1>10, <1>11, TouchesOne DEF IInv, TypeOK

\* The node the trap is put into: nothing attached, nothing bound.
LEMMA TrapNode ==
  ASSUME NEW t \in Node
  PROVE  LET r == [t EXCEPT !.state = "FAULT", !.fault = "MISSING", !.u2 = NoDesc, !.w = Trap]
         IN  r \in Node /\ r.u1 = t.u1 /\ r.u2 = NoDesc /\ r.state = "FAULT"
BY DEF Node, BindStates, Faults

LEMMA UnloadTrapInv ==
  ASSUME IInv, NEW m \in Modules, UnloadTrap(m)
  PROVE  IInv'
<1> DEFINE slots == mod[m].slots
           ss    == [i \in DOMAIN slots |->
                       [slots[i] EXCEPT !.state = "FAULT", !.fault = "MISSING",
                                        !.u2 = NoDesc, !.w = Trap]]
<1>1. op[m].pc = "idle" /\ op[m].old = Null /\ ops' \in 0 .. MaxOps
  BY BeginMeaning DEF UnloadTrap
<1>2. /\ mod[m] \in Module /\ StructInv(mod[m], op[m])
      /\ slots \in Seq(Node) /\ DOMAIN slots = 1 .. Len(slots) /\ Len(slots) \in Nat
  BY StructTypes
<1>3. \A i \in DOMAIN slots : slots[i] \in Node /\ SlotInv(slots[i], Home(mod[m], op[m], i))
  BY <1>2, ElementOfSeq DEF StructInv
<1>4. \A i \in DOMAIN slots : /\ ss[i] \in Node
                              /\ ss[i].u1 = slots[i].u1
                              /\ ss[i].u2 = NoDesc /\ ss[i].state = "FAULT"
  BY <1>3, TrapNode
<1>5. ss = [i \in 1 .. Len(slots) |-> ss[i]]
  BY <1>2
<1>6. mod'[m] = [mod[m] EXCEPT !.slots = ss] /\ mod' = [mod EXCEPT ![m] = mod'[m]]
  BY DEF UnloadTrap, IInv, TypeOK
<1> HIDE DEF ss, slots
<1>7. ss \in Seq(Node) /\ Len(ss) = Len(slots) /\ DOMAIN ss = DOMAIN slots
  BY <1>2, <1>4, <1>5, SeqOfNodes DEF slots
<1>8. /\ mod'[m] \in Module /\ mod'[m].slots = ss
      /\ mod'[m].handle = mod[m].handle /\ mod'[m].provided = mod[m].provided
  BY <1>2, <1>6, <1>7 DEF Module
<1>9. /\ op' = [op EXCEPT ![m] = op'[m]] /\ op'[m] = [Idle EXCEPT !.pc = "unload"]
      /\ maps' = maps /\ before' = before /\ cache' = cache
  BY DEF UnloadTrap, IInv, TypeOK
<1>10. op'[m] \in Operation /\ op'[m].pc = "unload" /\ op'[m].old = Null /\ op'[m].next = 1
  BY <1>9, IdleType DEF Operation, Idle
<1>11. Touches(m)
  BY <1>6, <1>8, <1>9, <1>10 DEF Touches
<1>12. Keeps(maps')
  BY <1>9, MapsTypes DEF Keeps, IInv, MapsInv
<1>13. ASSUME NEW h \in DOMAIN maps' PROVE maps'[h].refs >= Cardinality(Held(h)')
  <2>1. m \in Held(h) <=> m \in Held(h)'
    BY <1>1, <1>8, <1>10 DEF Held
  <2>2. Cardinality(Held(h)') = Cardinality(Held(h))
    BY <1>11, <2>1, CountHeld
  <2>3. QED
    BY <1>9, <2>2 DEF IInv, MapsInv
<1>14. StructInv(mod[m], op[m])'
  <2>1. \A i \in DOMAIN ss : /\ SlotInv(ss[i], Home(mod'[m], op'[m], i))
                             /\ Trapped(ss[i])
    BY <1>3, <1>4, <1>7 DEF SlotInv, Trapped
  <2>2. 1 \in 1 .. Len(ss) + 1
    BY <1>2, <1>7 DEF slots
  <2>3. QED
    BY <1>2, <1>8, <1>9, <1>10, <2>1, <2>2 DEF StructInv, Opened
<1>15. Honest(m)'
  BY <1>10 DEF Honest
<1>16. QED
  BY <1>1, <1>9, <1>11, <1>12, <1>13, <1>14, <1>15, TouchesOne DEF IInv, TypeOK

\* Every slot is trapped by now, so nothing of the struct is in its object.
LEMMA UnloadCloseInv ==
  ASSUME IInv, NEW m \in Modules, UnloadClose(m)
  PROVE  IInv'
<1> DEFINE slots  == mod[m].slots
           handle == mod[m].handle
<1>1. /\ mod[m] \in Module /\ StructInv(mod[m], op[m])
      /\ slots \in Seq(Node) /\ DOMAIN slots = 1 .. Len(slots) /\ Len(slots) \in Nat
  BY StructTypes
<1>2. /\ op[m].pc = "unload" /\ op[m].old = Null
      /\ maps' = IF handle = Null THEN maps ELSE Closed(handle)
      /\ before' = before /\ cache' = cache /\ ops' = ops
      /\ Return(m, "unload", "NONE")
  BY <1>1 DEF UnloadClose, StructInv
<1>3. /\ mod'[m] = [mod[m] EXCEPT !.handle = Null, !.provided = Null,
                                  !.bound = 0, !.faulted = Len(slots)]
      /\ mod' = [mod EXCEPT ![m] = mod'[m]]
  BY DEF UnloadClose, IInv, TypeOK
<1>4. \A i \in DOMAIN slots : SlotInv(slots[i], Home(mod[m], op[m], i)) /\ Trapped(slots[i])
  BY <1>1, <1>2 DEF StructInv
<1> HIDE DEF slots, handle
<1>5. /\ mod'[m] \in Module /\ mod'[m].slots = slots
      /\ mod'[m].handle = Null /\ mod'[m].provided = Null
      /\ mod'[m].bound = 0 /\ mod'[m].faulted = Len(slots)
  <2>1. mod'[m] = [handle |-> Null, provided |-> Null, path |-> mod[m].path,
                   slots |-> slots, bound |-> 0, faulted |-> Len(slots),
                   degraded |-> mod[m].degraded]
    BY <1>1, <1>3 DEF Module, slots
  <2>2. QED
    BY <1>1, <2>1 DEF Module, slots
<1>6. /\ op' = [op EXCEPT ![m] = op'[m]] /\ op'[m] \in Operation
      /\ op'[m].pc = "idle" /\ op'[m].old = Null /\ op'[m].next = 1
      /\ op'[m].result = "NONE"
  <2>1. "unload" \in Calls /\ "NONE" \in Results
    BY DEF Calls, Results
  <2>2. QED
    BY <1>2, <2>1, ReturnMeaning
<1>7. Touches(m)
  BY <1>3, <1>5, <1>6 DEF Touches
<1>8. /\ Keeps(maps')
      /\ \A h \in DOMAIN maps' : maps'[h].refs >= Cardinality(Held(h)')
  <2>1. \A h \in DOMAIN maps : /\ maps[h].refs >= Cardinality(Held(h))
                               /\ maps[h].refs \in Nat /\ h # Null
    BY MapsTypes, LoaderAssumption DEF IInv, MapsInv, Handles, Null
  <2>2. \A h : Cardinality(Held(h)) \in Nat /\ Cardinality(Held(h)') \in Nat
    BY HeldStaysFinite
  <2>3. \A h : h # Null => (m \in Held(h) <=> handle = h) /\ m \notin Held(h)'
    BY <1>2, <1>5, <1>6 DEF Held, handle
  <2>4. CASE handle = Null
    <3>1. maps' = maps
      BY <1>2, <2>4
    <3>2. ASSUME NEW h \in DOMAIN maps PROVE maps[h].refs >= Cardinality(Held(h)')
      <4>1. m \in Held(h) <=> m \in Held(h)'
        BY <2>1, <2>3, <2>4
      <4>2. Cardinality(Held(h)') = Cardinality(Held(h))
        BY <1>7, <4>1, CountHeld
      <4>3. QED
        BY <2>1, <4>2
    <3>3. QED
      BY <3>1, <3>2, MapsTypes DEF Keeps, IInv, MapsInv
  <2>5. CASE handle # Null
    <3>1. maps' = Closed(handle) /\ handle \in Handles /\ m \in Held(handle)
      BY <1>1, <1>2, <2>3, <2>5 DEF Module, handle
    <3>2. handle \in DOMAIN maps /\ maps[handle].refs >= 1
      BY <3>1, HeldIsMapped
    <3>3. /\ Keeps(maps') /\ DOMAIN maps' = DOMAIN maps
          /\ \A g \in DOMAIN maps :
               maps'[g].refs = IF g = handle THEN maps[g].refs - 1 ELSE maps[g].refs
      BY <3>1, <3>2, ClosedMeaning
    <3>4. ASSUME NEW h \in DOMAIN maps PROVE maps'[h].refs >= Cardinality(Held(h)')
      <4>1. CASE h = handle
        <5>1. m \in Held(h) \ Held(h)'
          BY <2>1, <2>3, <4>1
        <5>2. Cardinality(Held(h)') = Cardinality(Held(h)) - 1
          BY <1>7, <5>1, CountHeld
        <5>3. QED
          BY <2>1, <2>2, <3>3, <4>1, <5>2
      <4>2. CASE h # handle
        <5>1. m \in Held(h) <=> m \in Held(h)'
          BY <2>1, <2>3, <4>2
        <5>2. Cardinality(Held(h)') = Cardinality(Held(h))
          BY <1>7, <5>1, CountHeld
        <5>3. QED
          BY <2>1, <3>3, <4>2, <5>2
      <4>3. QED
        BY <4>1, <4>2
    <3>5. QED
      BY <3>3, <3>4
  <2>6. QED
    BY <2>4, <2>5
<1>9. StructInv(mod[m], op[m])'
  <2>1. \A i \in DOMAIN slots : SlotInv(slots[i], Home(mod'[m], op'[m], i))
    BY <1>4 DEF SlotInv, Trapped
  <2>2. 1 \in 1 .. Len(slots) + 1
    BY <1>1 DEF slots
  <2>3. QED
    BY <1>5, <1>6, <2>1, <2>2 DEF StructInv
<1>10. Honest(m)'
  <2>1. BoundSlots(m)' = {}
    BY <1>4, <1>5 DEF BoundSlots, Trapped
  <2>2. Cardinality(BoundSlots(m)') = 0
    BY <2>1, FS_EmptySet
  <2>3. Len(slots) - 0 = Len(slots)
    BY <1>1 DEF slots
  <2>4. QED
    BY <1>5, <1>6, <2>2, <2>3 DEF Honest
<1>11. QED
  BY <1>2, <1>7, <1>8, <1>9, <1>10, TouchesOne DEF IInv, TypeOK

LEMMA NoStructChanges ==
  ASSUME IInv, UNCHANGED <<maps, mod, op>>
  PROVE  MapsInv' /\ StructsInv' /\ ReportsAreHonest'
BY DEF IInv, MapsInv, StructsInv, StructInv, Opened, Held, ReportsAreHonest, BoundSlots

\* An address a caller is given is a real one, never the trap.
LEMMA RememberInv ==
  ASSUME IInv, NEW c \in Callers, NEW m \in Modules, NEW i \in DOMAIN mod[m].slots,
         Remember(c, m, i)
  PROVE  IInv'
<1> DEFINE t     == mod[m].slots[i]
           entry == [module |-> m, slot |-> i, address |-> AddressOf(t),
                     generation |-> t.generation]
<1>1. /\ StructInv(mod[m], op[m])
      /\ mod[m].slots \in Seq(Node) /\ DOMAIN mod[m].slots = 1 .. Len(mod[m].slots)
      /\ Len(mod[m].slots) \in Nat
  BY StructTypes
<1>2. i \in Nat /\ t \in Node /\ SlotInv(t, Home(mod[m], op[m], i))
  BY <1>1, ElementOfSeq DEF StructInv
<1>0. AddressOf(t) # NoAddress
  BY DEF Remember
<1>3. UNCHANGED <<maps, mod, op, before, ops>>
  BY DEF Remember
<1>4. cache' = [cache EXCEPT ![c] = entry]
  BY DEF Remember
<1> HIDE DEF t
<1>5. AddressOf(t) \in Addresses /\ t.generation \in Nat
  <2>1. t.state = "BOUND" /\ AddressOf(t) = t.w
    BY <1>0 DEF AddressOf
  <2>2. PICK home \in Handles : t.u1.symbol \in Symbols /\ t.w = <<home, t.u1.symbol>>
    BY <1>2, <2>1 DEF SlotInv
  <2>3. t.w \in Handles \X Symbols
    BY <2>2
  <2>4. QED
    BY <1>2, <2>1, <2>3, LoaderAssumption DEF Node
<1>6. entry \in Cached
  BY <1>2, <1>5 DEF Cached
<1>7. cache' \in [Callers -> Cached \union {NoCache}]
  BY <1>4, <1>6 DEF IInv, TypeOK
<1>8. TypeOK'
  BY <1>3, <1>7 DEF IInv, TypeOK
<1>9. MapsInv' /\ StructsInv' /\ ReportsAreHonest'
  BY <1>3, NoStructChanges
<1>10. QED
  BY <1>8, <1>9 DEF IInv

LEMMA StutterInv == IInv /\ UNCHANGED vars => IInv'
<1> SUFFICES ASSUME IInv, UNCHANGED vars PROVE IInv'
  OBVIOUS
<1>1. UNCHANGED <<maps, mod, op, before, cache, ops>>
  BY DEF vars
<1>2. TypeOK'
  BY <1>1 DEF IInv, TypeOK
<1>3. MapsInv' /\ StructsInv' /\ ReportsAreHonest'
  BY <1>1, NoStructChanges
<1>4. QED
  BY <1>2, <1>3 DEF IInv

LEMMA StepInv == IInv /\ [Next]_vars => IInv'
<1> SUFFICES ASSUME IInv, [Next]_vars PROVE IInv'
  OBVIOUS
<1>1. CASE \E m \in Modules, req \in Requests : LoadRefused(m, req)
  BY <1>1, LoadRefusedInv
<1>2. CASE \E m \in Modules, req \in Requests : LoadOpened(m, req)
  BY <1>2, LoadOpenedInv
<1>3. CASE \E m \in Modules, policy \in Policies : ReloadRefused(m, policy)
  BY <1>3, ReloadRefusedInv
<1>4. CASE \E m \in Modules, path \in Paths \union {NoPath}, policy \in Policies :
             ReloadOpened(m, path, policy)
  BY <1>4, ReloadOpenedInv
<1>5. CASE \E m \in Modules : BindNext(m)
  BY <1>5, BindNextInv
<1>6. CASE \E m \in Modules : Finish(m)
  BY <1>6, FinishInv
<1>7. CASE \E m \in Modules : UnloadTrap(m)
  BY <1>7, UnloadTrapInv
<1>8. CASE \E m \in Modules : UnloadClose(m)
  BY <1>8, UnloadCloseInv
<1>9. CASE \E c \in Callers, m \in Modules : \E i \in DOMAIN mod[m].slots : Remember(c, m, i)
  BY <1>9, RememberInv
<1>10. CASE UNCHANGED vars
  BY <1>10, StutterInv
<1>11. QED
  BY <1>1, <1>2, <1>3, <1>4, <1>5, <1>6, <1>7, <1>8, <1>9, <1>10 DEF Next

LEMMA InvariantHolds == Spec => []IInv
<1>1. Init => IInv
  BY InitInv
<1>2. IInv /\ [Next]_vars => IInv'
  BY StepInv
<1>3. QED
  BY <1>1, <1>2, PTL DEF Spec

-----------------------------------------------------------------------------
(* What follows from the invariant                                         *)

PointsIntoMapped(t) ==
  /\ t.state = "BOUND" => Mapped(t.w[1])
  /\ t.u2 # NoDesc => Mapped(t.u2.address[1])

LEMMA NothingDanglesInv == IInv => NothingDangles
<1> SUFFICES ASSUME IInv, NEW m \in Modules
             PROVE  /\ mod[m].provided # Null => Mapped(mod[m].provided)
                    /\ \A i \in DOMAIN mod[m].slots : PointsIntoMapped(mod[m].slots[i])
  BY DEF NothingDangles, PointsIntoMapped
<1>1. mod[m] \in Module /\ op[m] \in Operation /\ StructInv(mod[m], op[m])
  BY StructTypes
<1>2. \A h \in Handles : mod[m].handle = h \/ op[m].old = h => Mapped(h)
  BY HeldIsMapped DEF Held
<1>3. mod[m].provided # Null => Mapped(mod[m].provided)
  BY <1>1, <1>2 DEF StructInv, Module
<1>4. ASSUME NEW i \in DOMAIN mod[m].slots
      PROVE  PointsIntoMapped(mod[m].slots[i])
  <2>1. PICK t, home : /\ t = mod[m].slots[i] /\ home = Home(mod[m], op[m], i)
                       /\ SlotInv(t, home)
    BY <1>1 DEF StructInv
  <2>2. home \in Handles => Mapped(home)
    BY <1>2, <2>1 DEF Home
  <2>3. t.u2 # NoDesc => Mapped(t.u2.address[1])
    BY <2>1, <2>2 DEF SlotInv
  <2>4. t.state = "BOUND" => Mapped(t.w[1])
    BY <2>1, <2>3 DEF SlotInv
  <2>5. PointsIntoMapped(t)
    BY <2>3, <2>4 DEF PointsIntoMapped
  <2>6. QED
    BY <2>1, <2>5
<1>5. QED
  BY <1>3, <1>4

LEMMA SlotsFollowInv == IInv => SlotsFollowTheHandle
<1> SUFFICES ASSUME IInv, NEW m \in Modules, NEW i \in BoundSlots(m)
             PROVE  mod[m].slots[i].w = <<Home(mod[m], op[m], i), mod[m].slots[i].u1.symbol>>
  BY DEF SlotsFollowTheHandle, Home
<1>1. i \in DOMAIN mod[m].slots /\ mod[m].slots[i].state = "BOUND"
  BY DEF BoundSlots
<1>2. SlotInv(mod[m].slots[i], Home(mod[m], op[m], i))
  BY <1>1, StructTypes DEF StructInv
<1>3. QED
  BY <1>1, <1>2 DEF SlotInv

\* Every variable has its type; in particular no slot is ever NULL, and no
\* count of the dynamic loader ever drops below zero.
THEOREM TypeCorrect == Spec => []TypeOK
<1>1. IInv => TypeOK
  BY DEF IInv
<1>2. QED
  BY <1>1, InvariantHolds, PTL

\* No handle is closed more often than it was opened, however many modules
\* share an object and however their reloads and unloads interleave.
THEOREM HandlesStayCounted == Spec => []HandlesAreCounted
<1>1. IInv => HandlesAreCounted
  BY HoldersAreHeld DEF IInv, MapsInv, HandlesAreCounted
<1>2. QED
  BY <1>1, InvariantHolds, PTL

\* Nothing a module holds points into an object that is not mapped, at any
\* moment of a load, a reload or an unload.
THEOREM NothingEverDangles == Spec => []NothingDangles
BY NothingDanglesInv, InvariantHolds, PTL

\* A bound slot is bound into the module's present object under its own symbol,
\* but for those a reload has not reached, which are in the object it replaces.
THEOREM SlotsStayWithTheHandle == Spec => []SlotsFollowTheHandle
BY SlotsFollowInv, InvariantHolds, PTL

\* What load, reload and unload report is true of the slots they leave.
THEOREM ReportsStayHonest == Spec => []ReportsAreHonest
<1>1. IInv => ReportsAreHonest
  BY DEF IInv
<1>2. QED
  BY <1>1, InvariantHolds, PTL
=============================================================================

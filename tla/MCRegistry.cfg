CONSTANTS
  NoDesc = NoDesc
  NoSymbol = NoSymbol
  NoSig = NoSig
  NoAddress = NoAddress
  Trap = Trap
  FpZero = FpZero
  NoTable = NoTable
  NoName = NoName
  a1 = a1
  a2 = a2
  a3 = a3
  b = b
  add = add
  mul = mul
  mathlib = mathlib
  cdecl = cdecl
  ii_i = ii_i
  dd_d = dd_d
  impl = impl
  impl32 = impl32
  Symbols = {add, mul}
  CallConvs = {cdecl}
  Shapes = {ii_i, dd_d}
  BadShapes = {}
  ModuleNames = {mathlib}
  Addresses = {impl, impl32}
  Capacity = 3
  MaxDeps = 2
  SlotNames <- MCSlotNames
  CallSites <- MCCallSites
  Edges <- EveryEdge
  Offers <- Withdraw
  ModuleDescs <- AddAndMul
  NativeArch = 64
  Policies <- EveryPolicy
  MaxOps = 9
SYMMETRY NamesAreAlike
SPECIFICATION Spec
INVARIANTS
  TypeOK
  EdgesAreAcyclic
  RepeatedResolvingConverges
  CompleteReportsAreTrue
  ReachesIsTheSearch
CHECK_DEADLOCK FALSE

CONSTANTS
  NoDesc = NoDesc
  NoSymbol = NoSymbol
  NoSig = NoSig
  NoAddress = NoAddress
  Trap = Trap
  FpZero = FpZero
  NoTable = NoTable
  NoName = NoName
  a1 = a1
  a2 = a2
  a3 = a3
  b = b
  add = add
  mul = mul
  mathlib = mathlib
  cdecl = cdecl
  ii_i = ii_i
  dd_d = dd_d
  impl = impl
  impl32 = impl32
  Symbols = {add, mul}
  CallConvs = {cdecl}
  Shapes = {ii_i, dd_d}
  BadShapes = {}
  ModuleNames = {mathlib}
  Addresses = {impl, impl32}
  Capacity = 1
  MaxDeps = 2
  SlotNames <- MCSlotNames
  CallSites <- MCCallSites
  Edges <- NoEdge
  Offers <- Withdraw
  ModuleDescs <- Foreign
  NativeArch = 64
  Policies <- OnlyStable64
  MaxOps = 4
SPECIFICATION Spec
INVARIANT
  ForeignProfileNeverBinds
CHECK_DEADLOCK FALSE

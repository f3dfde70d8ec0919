CONSTANTS
  NoDesc = NoDesc
  NoSymbol = NoSymbol
  NoSig = NoSig
  NoAddress = NoAddress
  Trap = Trap
  FpZero = FpZero
  NoTable = NoTable
  NoName = NoName
  NoPath = NoPath
  NoCache = NoCache
  p = p
  q = q
  add = add
  mul = mul
  mathlib = mathlib
  other = other
  cdecl = cdecl
  ii_i = ii_i
  dd_d = dd_d
  m1 = m1
  m2 = m2
  c1 = c1
  Symbols = {add, mul}
  CallConvs = {cdecl}
  Shapes = {ii_i, dd_d}
  BadShapes = {}
  ModuleNames = {mathlib, other}
  Addresses <- MCAddresses
  Modules = {m1}
  Callers = {c1}
  Paths = {p, q}
  Objects = {"v1"}
  Content <- MathContent
  Requests <- SingleRequests
  Policies <- MCPolicies
  MaxSlots = 2
  MaxMaps = 3
  MaxOps = 3
SPECIFICATION Spec
INVARIANT
  RememberedAddressIsMapped
CHECK_DEADLOCK FALSE

CONSTANTS
  NoDesc = NoDesc
  NoSymbol = NoSymbol
  NoSig = NoSig
  NoAddress = NoAddress
  Trap = Trap
  FpZero = FpZero
  add = add
  mul = mul
  cdecl = cdecl
  stdcall = stdcall
  ii_i = ii_i
  dd_d = dd_d
  tooLong = tooLong
  impl = impl
  stub = stub
  Symbols = {add, mul}
  CallConvs = {cdecl, stdcall}
  Shapes = {ii_i, dd_d, tooLong}
  BadShapes = {tooLong}
  Addresses = {impl, stub}
  N = 3
  Required <- Uniform
  Offers <- GraphOffers
  Policies <- OnlyStable
  DepChoices <- GraphDeps
  MaxCalls = 3
SPECIFICATION Spec
INVARIANTS
  TypeOK
  CycleNeverBinds
  PassesSettleRanks
  OneSidedRunIsLeast
  ReturnsFromFixpointTest
  SlotsAreAgreed
  FaultsAreBacked

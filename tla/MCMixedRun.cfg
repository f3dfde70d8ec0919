CONSTANTS
  NoDesc = NoDesc
  NoSymbol = NoSymbol
  NoSig = NoSig
  NoAddress = NoAddress
  Trap = Trap
  FpZero = FpZero
  add = add
  mul = mul
  cdecl = cdecl
  stdcall = stdcall
  ii_i = ii_i
  dd_d = dd_d
  tooLong = tooLong
  impl = impl
  stub = stub
  Symbols = {add, mul}
  CallConvs = {cdecl, stdcall}
  Shapes = {ii_i, dd_d, tooLong}
  BadShapes = {tooLong}
  Addresses = {impl, stub}
  N = 5
  Required <- Uniform
  Offers <- MixedOffers
  Policies <- OnlyStable
  DepChoices <- MixedDeps
  MaxCalls = 2
SPECIFICATION Spec
INVARIANTS
  Containment

CONSTANTS
  add = add  cdecl = cdecl  ii_i = ii_i  dd_d = dd_d
  impl = impl  impl11 = impl11  stub = stub
  NoDesc = NoDesc  NoSymbol = NoSymbol  NoSig = NoSig  NoAddress = NoAddress
  Trap = Trap  FpZero = FpZero
  Symbols = {add}
  CallConvs = {cdecl}
  Shapes = {ii_i, dd_d}
  BadShapes = {}
  Addresses = {impl, impl11, stub}
  Callers = {1, 2}
  Required <- CallSite
  Offers <- SwapOffers
  Policies <- SwapPolicies
  MaxSwaps = 2
SPECIFICATION Spec
INVARIANTS TypeOK OnlyValidatedAddresses
PROPERTIES ImplementsRegister HealingReachesEveryCaller
CHECK_DEADLOCK FALSE

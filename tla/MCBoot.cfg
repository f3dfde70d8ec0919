CONSTANTS
  NoDesc = NoDesc
  NoSymbol = NoSymbol
  NoSig = NoSig
  NoAddress = NoAddress
  Trap = Trap
  FpZero = FpZero
  NoTable = NoTable
  NoName = NoName
  ksvcModule = ksvcModule
  ModuleNames = {ksvcModule}
  Symbols = {"kputs", "kputhex", "add", "mul"}
  CallConvs = {"cdecl"}
  Shapes = {"s_v", "u32_v", "u64_v", "ii_i", "dd_d"}
  BadShapes = {}
  Addresses = {"kputs", "kputhex", "add_i32", "mul_i32", "add_f64_stub"}
  Native = 32
  Texts <- MCTexts
  VgaWidth = 2
  VgaHeight = 2
  Tables <- MCTables
SPECIFICATION Spec
INVARIANTS
  TypeOK
  ServicesAreVerified
  StubIsUnreachable
  PairsAreEntangled
  CompleteMeansVerified
  SelfTestPasses
PROPERTIES
  ImageHalts

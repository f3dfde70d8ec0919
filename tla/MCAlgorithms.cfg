CONSTANTS
  NoDesc = NoDesc
  NoSymbol = NoSymbol
  NoSig = NoSig
  NoAddress = NoAddress
  Trap = Trap
  FpZero = FpZero
  run = run
  cdecl = cdecl
  shape = shape
  other = other
  code = code
  Symbols = {run}
  CallConvs = {cdecl}
  Shapes = {shape, other}
  BadShapes = {}
  Addresses = {code}
  CanonMax = 91
  MaxDepth = 1
  MaxArgs = 2
  Exports <- MCExports
  Tables <- MCTables
  Numerals <- MCNumerals
  Signed <- MCSigned
  VersionTexts <- MCVersionTexts
  ScoreOne = 200
  Word = 26
  Ids <- MCIds
  SelRequired <- MCRequired
  SelPolicy <- MCPolicy
  Candidates <- MCCandidates
  WeightSets <- MCWeightSets
  MaxNodes = 3
  MaxChildren = 2
  MaxEdges = 3
  OutLens = {2, 3}
  Root = "@root"
  Infinity = Infinity
  NaN = NaN
  Manifests <- MCManifests
  Requested = {"b", "c", "@root"}
  MaxRequests = 2
  Nobody = Nobody
  Calls <- MCCalls
  Unbound = Unbound
  NotStrings = {"1"}
  Importers = {"one", "two", "three"}
  InterpreterOf <- MCInterpreterOf
  MaxObjects = 3
  Nothing = Nothing
SPECIFICATION Spec
INVARIANTS
  EncodingIdentifiesContract
  EncodedWholeOrRefused
  ModuleFpIdentifiesSurface
  VersionTextRoundTrips
  WinnerIsTheBest
  ArgumentsAreBound
  WalkIsAPath
  RouteIsLeast
  AnswersMatchRequests
  ImportIsAllOrNothing
PROPERTIES
  EveryRequestIsAnswered
CHECK_DEADLOCK FALSE

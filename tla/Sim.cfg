SPECIFICATION SimSpec
CONSTANTS
  Groups <- SomeGroups
  RhoUnit = 20
  RhoCeiling = 19
  NaN = NaN
  FireLlr = 1
  SignalOrder <- SomeSignals
  LlrGrid <- SomeGrid
  LlrOfNone = 4
  MinObservations = 2
  KnotLimit = 3
  FirstTolerance <- HalfATenth
  Unit = 4
  Multipliers <- NoMultipliers
  NoCap = NoCap
  Unresolved = Unresolved
  HourMs = 60
  DeviceAge = 400
  ThinnedOut = {2}
  Unpaid = Unpaid
  Paise <- InPaise
  Scores <- SomeScores
  Ceilings <- SomeCeilings
  BinCount = 2
  RowBins <- SomeRowBins
  WeightSets <- SomeWeights
  Config <- SomeConfig
  Payments <- SomePayments
  Policies <- SomePolicies
  Recovery = 1
  HoldEndings <- SomeEndings
  Lines <- SomeLines
  Limits = {2, 100}
  AmountWindow = 5  DayWindow = 3  Retention = 20  BalanceMultiple = 3  OpeningLog = 2
  LogOf <- SomeLogs
  AmountThresholds <- SomeThresholds
  StructuredBelow = 40
  Ordinary = 6
  Probes <- SomeProbes
  HighCandidates <- SomeHigh
  NewCandidates <- SomeNew
  CampaignModel <- SomeModel
  PastKinds <- SomePast
  Targets <- SomeTargets
  Accounts <- SomeAccounts
  GapsOf <- SomeGaps
  Priming = 5
  History = 2
  MaxPast = 3
  MaxCases = 5
  MaxRows = 4
  MaxOutcomes = 7
  MaxPayments = 2
  MaxLines = 3
  PayerList <- SomePayers
  Merchants = {"m1", "m2"}
  Personals = {"f1"}
  Mules = {"x1", "x2", "y1"}
  ChainOf <- SomeChains
  Worlds <- SomeWorlds
  NoDevice = NoDevice
  Days = 2
  DaySlots = 2
  Gaps = {1}
  HygienicGap = 1
  NewFor = 1
  Typologies <- SomeTypologies
  TriesPerFraud = 1
  Lags = {1}
  Delays = {1}
  Hops = {1}
  Waits = {1}
  Strides = {2}
CHECK_DEADLOCK FALSE
INVARIANTS ScoresMeanWhatTheySay FitIsWhatTheEngineRuns BooksAreTrue CampaignIsFair CorpusIsSound

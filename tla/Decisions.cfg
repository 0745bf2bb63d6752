SPECIFICATION Spec
CONSTANTS
  Unit = 4
  Multipliers <- SomeMultipliers
  NoCap = NoCap
  Groups <- SomeGroups
  RhoUnit = 20
  RhoCeiling = 19
  FireLlr = 1
  NaN = NaN
  Tick = 2
  GridMax = 4
  None = None
  Monitored <- MonitoredAmounts
  HoldWindow = 1800
  AttemptBudget = 2
  NamedPayeeFloor = 10000
  Prices <- SliderPolicies
  Amounts <- SomeAmounts
  BasePolicies <- SomeBases
  Portfolios <- SomePortfolios
  Ceilings <- SomeCeilings
  Evidence <- SomeEvidence
  Models <- SomeModels
  PathSets <- SomePaths
  Weights <- SomeWeights
  Latencies <- SomeLatencies
  Trails <- SomeTrails
CHECK_DEADLOCK FALSE
INVARIANTS HoldBandIsExact PolicyIsSolved FusionIsBounded RecoveryIsCounted AlterationIsCaught EpisodesUnfold
PROPERTY NeighboursKeepTheirOrder

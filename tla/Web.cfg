SPECIFICATION Spec
CONSTANTS
  Callers = {c1, c2, c3}
  NoCaller = NoCaller
  Life = 6
  RenewMargin = 3
  Latency = 2
  Flight = 1
  MaxTime = 11
  MaxAsked = 3
  MaxBatch = 2
  MaxRows = 5
  MaxFaults = 1
  MaxRequests = 3
  NoHeader = NoHeader
  Nothing = Nothing
  Blank = Blank
  Unreadable = Unreadable
  Cells <- SomeCells
  MaxCells = 4
  LastYear = 2003
  NotATime = NotATime
  FieldList <- SomeFields
  PayerId = "payerId"
  PayeeId = "payeeId"
  PayeeName = "payeeName"
  Amount = "amountPaise"
  Columns <- SomeColumns
  Matches <- SomeMatches
  Preset <- SomePreset
  RowChoices <- SomeRows
  MaxLength = 4
  Base = 3
  Limit = 3
  ImpliedPayer = "account_holder"
  PayersNamed = TRUE
  CreditBound = TRUE
  Slug <- SomeSlug
  Files = {f1, f2, f3}
  NoHeadings = {f3}
  Complete = {f1}
  NoPayments = {f2}
  MaxEdits = 1
  MaxDrops = 3
SYMMETRY Symmetry
CHECK_DEADLOCK FALSE
INVARIANTS
  TokenLivesThroughFlight KeptAliveUntilWritten
  ParsedAsWritten MappingIsStable DatasetIsFaithful CorpusWasConfirmed

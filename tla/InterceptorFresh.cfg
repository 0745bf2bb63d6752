SPECIFICATION Spec
CONSTANTS
  TxnIds = {t1, t2, t3}
  Payers = {p1}
  Payees = {b1, b2}
  Times <- ClockTimes
  Contexts <- PlainOnly
  Policies <- TwoPolicies
  Models = {m1}
  NoCall = NoCall
  FreshIds = TRUE
  MaxPayments = 3
CHECK_DEADLOCK FALSE
SYMMETRY Symmetry
INVARIANTS TypeOK AtMostOneOpenHold TrailReplaysHold StepUpIsBackedByHold CaseFilesTellTheHold
PROPERTIES NoApprovalWhileHeld ResolvedHoldsAreFinal KeepsPromise

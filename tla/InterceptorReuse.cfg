SPECIFICATION Spec
CONSTANTS
  TxnIds = {t1, t2}
  Payers = {p1, p2}
  Payees = {b1}
  Times <- ClockTimes
  Contexts <- PlainOrNewDevice
  Policies <- TwoPolicies
  Models = {m1}
  NoCall = NoCall
  FreshIds = FALSE
  MaxPayments = 3
CHECK_DEADLOCK FALSE
SYMMETRY Symmetry
INVARIANTS BudgetIsRespected
PROPERTIES LapsedHoldsNeverCapture

SPECIFICATION Spec
CONSTANTS
  alice = alice  bob = bob  shop = shop  mule = mule  phone = phone
  AmountWindow = 2  DayWindow = 1  Retention = 4  BalanceMultiple = 3  OpeningLog = 3
  LogOf <- MCLogOf
  AmountThresholds <- MCThresholds
  Kinds <- MCKinds
  Gaps <- MCGaps
  Intels <- MCIntels
  Attributes <- MCAttributes
  Starts <- MCStarts
  HoldPolicy <- MCHoldPolicy
  Responses <- MCResponses
  TrainOf <- MCTrainOf
  Opening = 60
  MaxPayments = 4
INVARIANTS NoDecisionDiffers
CHECK_DEADLOCK FALSE

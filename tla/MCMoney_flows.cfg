SPECIFICATION MoneySpec
CONSTANTS
  Directions = {"in", "out", "seed"}
  Users = {"u", "v"}
  Methods = {"m"}
  Requests = {"first", "again", "changed", "theirs", "other"}
  Request <- Repeated
  Admins = {"a1", "a2"}
  Removals = {"d"}
  MaxIncome = 2
  MaxAborts = 1
  TopUpKeys = {"k1"}
  Creates = {"c1", "c2"}
  KeyOf <- KeyOfBoth
  Verifies = {"v1"}
  Handlers = {"h1", "h2"}
  MaxCalls = 2
  MaxCrashes = 1
  Startups = {"s"}
  Credits = {"c", "d"}
  Float = 5
INVARIANTS
  HoldFollowsStatus
  AnswerIsWhatWasAsked
  CreditIsPaidFor
  AcknowledgedIsCredited
PROPERTIES
  ImplementsPayouts
  CapturedIsCredited
CONSTRAINT Small

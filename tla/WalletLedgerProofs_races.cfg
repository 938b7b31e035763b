SPECIFICATION Spec
CONSTANTS
  Wallets = {"w", "v"}
  Calls = {"earn", "buy", "hold1", "hold2", "release", "consume", "promo", "other", "pay", "payAgain", "hold"}
  Call <- Races
  MaxAborts = 1
CONSTRAINT OneRace
INVARIANTS
  TypeOK
  NoDrift
  HeldBacksActiveHolds
  LedgerChained
  HoldEndedOnce
PROPERTIES
  ImplementsAccount
  BegunCallsAnswered

SPECIFICATION Spec
CHECK_DEADLOCK FALSE
CONSTANTS
  Parts = {"claims", "invoices", "outbox", "taxes", "mails"}
  Passengers = {"a"}
  Bookings = {1, 2}
  Workers = {"w"}
  Pollers = {"poll"}
  Riders = {"rider"}
  Limit = 2
  Batch = 2
  MaxAttempts = 2
  DeviceTries = 2
  MailBatch = 2
  MaxClaims = 2
  MaxFaults = 1
  MaxCrashes = 1
  TaxAdmins = {"a"}
  Ids = {1, 2}
  Types = {"REGULAR"}
  States = {"27"}
  Fares = {0, 1, 13}
  LastMoment = 3
  TaxRows <- ThreeMoments
  Tasks = {"t1", "t2"}
  MaxReads = 2
  MaxMishaps = 2
INVARIANTS
  VerdictsFit
  NothingTwice
  InvoicesAreRight
PROPERTIES
  ClaimsAreSettled
  JobsAreSettled
CONSTRAINT Small

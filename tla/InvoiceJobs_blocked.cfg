SPECIFICATION Spec
CHECK_DEADLOCK FALSE
CONSTANTS
  Bookings = {1, 2}
  Pollers = {"poll"}
  Riders = {"rider"}
  Limit = 1
  MaxAttempts = 2
  MaxFaults = 2
PROPERTY
  InvoicesAreIssued

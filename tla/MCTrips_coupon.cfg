SPECIFICATION TripsSpec
CONSTANTS
  Kinds = {"commute"}
  N = 3
  Rider <- ThreeRiders
  Seats <- SeatEach
  Discounts = {0, 1}
  Price = 2
  Markup = 1
  MaxSeats = 2
  RegularN = 4
  RegularAsked <- FourRequests
  RegularPoints <- TwoWallets
  RegularPrice = 2
  RegularSeats = 3
  AssuredN = 4
  AssuredKind <- FourKinds
  AssuredPrice = 15
  AssuredSeats = 3
  DriverDeposit = 13
  RiderDeposit = 3
  Float = 10
  TermsAsked <- TwoRides
  FareAmount = 90
  Discount = 3
  Usual = 5
INVARIANT
  SnapshotsAddUp

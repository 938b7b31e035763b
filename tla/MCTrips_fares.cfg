SPECIFICATION TripsSpec
CONSTANTS
  Kinds = {"commute", "regular", "assured", "terms"}
  N = 3
  Rider <- TwoRiders
  Seats <- OneAndTwoSeats
  Discounts = {0, 3}
  Price = 2
  Markup = 1
  MaxSeats = 2
  RegularN = 4
  RegularAsked <- FourRequests
  RegularPoints <- TwoWallets
  RegularPrice = 2
  RegularSeats = 3
  AssuredN = 4
  AssuredKind <- FourKinds
  AssuredPrice = 15
  AssuredSeats = 3
  DriverDeposit = 13
  RiderDeposit = 3
  Float = 10
  TermsAsked <- TwoRides
  FareAmount = 90
  Discount = 3
  Usual = 5
INVARIANTS
  SeatsNeverOversold
  FareGoesOneWay
  CreditsAreEarned
  OneBookingEach
  HoldsEndWithTheRide
  ForfeitsArePaidOut
  EarningsAgree
PROPERTIES
  ImplementsPrepaidTrip
  EndIsFinal

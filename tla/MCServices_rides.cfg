SPECIFICATION Spec
CHECK_DEADLOCK FALSE
CONSTANTS
  Parts = {"series", "garage", "live", "offer", "campaign", "search"}
  Processes = {"p", "q"}
  Keys = {"k"}
  Singles = {alone}
  Dates = {1, 2}
  Times = {1, 2}
  MaxChanges = 1
  Ids = {"v"}
  Numbers = {"n1", "n2"}
  MaxAttempts = 2
  TimeToLive = 2
  Users = {"u1", "u2"}
  CouponAdmins = {"a1", "a2"}
  CouponKeys = {"k1", "k2"}
  Audience = "USER_SPECIFIC"
  Scope = "BOTH"
  Benefit <- HalfOff
  Limit = 2
  Each = 1
  Amounts = {3, 5, 9}
  RewardAdmins = {"a1", "a2"}
  RewardRides = {"r1", "r2"}
  Served = {{"p1"}, {"p1", "p2"}}
  Steps = {1, 2}
  Window <- OneThenTwo
  Required = {2}
  EndsAt = 1
  PostedRides = {1}
  PostedTypes = {"REGULAR", "ASSURED"}
  Answers <- FiveRoutes
  Points <- EightPlaces
  Catchment = 5
  Corridor = 2
  Progress = 1
  MaxCandidates = 12
  Backward = 3
  Extension = 5
  MaxPairs = 2
  Detour = 2
INVARIANTS
  SeriesRidesFit
  LimitsAreKept
  SearchIsRight
PROPERTIES
  PromisesAreKept
  LocationForgotten
CONSTRAINT Small

SPECIFICATION Spec
CHECK_DEADLOCK FALSE
CONSTANTS
  Parts = {"sos", "deletion", "chat", "support", "ratings", "codes", "kyc", "signup",
           "lists", "notices", "monitor", "pages"}
  Processes = {p, q}
  MaxRequests = 2
  MaxVersion = 4
  MaxSessions = 2
  MaxTickets = 2
  Riders = {"driver", "rider"}
  SosKey <- KeyOfRider
  Officers = {"officer"}
  MaxSos = 2
  Devices = {"phone"}
  Duties = {"booking"}
  ChatRequests = {"r1", "r2"}
  MaxKeys = 1
  Admins = {"a1", "a2"}
  Topics = {"ride"}
  Keys = {"k1", "k2"}
  CKeys = {"c"}
  Travellers = {"u1", "u2"}
  RatedRides = {"r1", "r2"}
  Driver <- EachDrives
  Stars = {1, 4}
  CodeProcesses = {"p1"}
  Emails = {"e1", "e2"}
  OwnEmail = "e1"
  MaxTries = 1
  MaxSends = 2
  MaxCodes = 2
  SignupRequests = {"q1", "q2"}
  OldAccount = "old"
  Phones = {"customer", "reviewer"}
  Reviewer = "reviewer"
  InviteCodes = {"c1", "c2"}
  MaxReviews = 1
  Inputs <- ThreeInputs
  DrivenRides = {1, 2}
  DayOf <- OneADay
  LastDay = 2
  PageSize = 1
  Trips = {1, 2, 3}
  RideOf <- TwoOnTheSecond
  PassengerOf <- FirstTakesBoth
  Legacy = {3}
  Travels = {1, 2}
  FreeSeats = 1
  MaxFaults = 1
  Soses = {1, 2}
  MonitorLimit = 1
  Gone = 2
  Messages = {1, 2, 3}
  OwnMessages = {2}
  PageLimit = 1
  Fine = 2
  MaxTime = 3
INVARIANTS
  RepeatsCountOnce
  NothingUnproven
  UsersSeeTheTruth
PROPERTIES
  DecisionsStay
  NothingAfterClose
CONSTRAINT Small
SYMMETRY Alike

------------------------------- MODULE DeskProofs -----------------------------
(***************************************************************************)
(* What people do around their rides: emergencies, chat, support, ratings, *)
(* and what their accounts go through.  The parts share no state, so one   *)
(* run checks them side by side: the initial states choose the part that   *)
(* runs, the variables of the others keep still, so that a property is     *)
(* asked of the part that runs.                                            *)
(***************************************************************************)
EXTENDS TLC, Sequences, Functions, Sums

CONSTANTS Parts,     \* the parts that are checked
          Processes, \* application processes that serve one request at a time
          Riders, SosKey, Officers, MaxSos,                           \* an emergency
          Devices, Duties, MaxRequests, MaxVersion,                   \* deletion
          ChatRequests, MaxKeys,                                      \* chat
          Admins, Topics, Keys, CKeys, MaxTickets,                    \* support
          Travellers, RatedRides, Driver, Stars,                      \* ratings
          CodeProcesses, Emails, OwnEmail, MaxTries, MaxSends, MaxCodes, \* email codes
          MaxSessions,                                                \* identity
          SignupRequests, OldAccount, Phones, Reviewer, InviteCodes,  \* signing in
          MaxReviews, Inputs,
          DrivenRides, DayOf, LastDay, PageSize,                      \* lists
          Trips, RideOf, PassengerOf, Legacy,
          Travels, FreeSeats, MaxFaults,                              \* notices
          Soses, MonitorLimit, Gone,                                  \* the safety desk
          Messages, OwnMessages, PageLimit, Fine, MaxTime             \* pages of chat

VARIABLES running,
          sosRide, aboard, sos, calls, incidents, desk,
          account, requests, open, login, token, duty,
          chatBooking, commute, conversation, messages, sending, bus, heard,
          role, ticket, comments, told, supporting,
          completed, booked, travelled, task,
          holder, corporate, code, taken, coding,
          session, fresh, provider, sent, processed, generic, credits, verifying,
          user, referrals, points, signing, attempts,
          ride, trip, ledger, today, mine, shown, walk,
          kind, toldRide, toldBooking, claim, telling, notices, answers, faults,
          watched, emergency, car, own, publishing, view,
          time, created, stored, read, lastAt, reading, item

\* A driver without a key and a rider who retries with one.
KeyOfRider == [driver |-> "none", rider |-> "key"]

Sos == INSTANCE SosIncidents WITH trip <- sosRide

\* One device whose login is under way while the account is deleted.
Deletion == INSTANCE AccountDeletion WITH user <- account, work <- duty

\* Two requests at a time, of two processes that hear of messages by Redis.
Chat == INSTANCE ChatConversation WITH
          Requests <- ChatRequests, booking <- chatBooking, request <- sending

ASSUME ChatParameters == MaxKeys \in Nat \ {0}

\* Two keys about one ride, so that a key is repeated and another is new.
Support == INSTANCE SupportTickets WITH Rides <- Topics, work <- supporting

\* Two users who drive each other.
EachDrives == [r1 |-> "u1", r2 |-> "u2"]

Rated == INSTANCE Ratings WITH Rides <- RatedRides, Users <- Travellers

ASSUME RatingParameters == IsFiniteSet(RatedRides) /\ IsFiniteSet(Travellers) /\ Stars \subseteq Nat

\* One process: a request does not overlap another, an outside user interferes.
Codes == INSTANCE EmailCodes WITH
           Processes <- CodeProcesses, Own <- OwnEmail, MaxAttempts <- MaxTries,
           user <- holder, work <- coding

ASSUME CodesParameters == MaxTries \in Nat /\ MaxCodes \in Nat

Kyc == INSTANCE IdentityVerification WITH work <- verifying

ASSUME KycParameters == MaxSessions \in Nat

\* What a request to sign in brings along.
Brings(register, email, invited) == [register |-> register, email |-> email, code |-> invited]

ThreeInputs ==
  {Brings(FALSE, "none", "none"), Brings(TRUE, "e", "c1"), Brings(FALSE, "e", "c2")}

\* Two requests for the phones of a customer and of the store's reviewer, who
\* has an account already.
Signup == INSTANCE Registration WITH
            Requests <- SignupRequests, Old <- OldAccount, MaxAttempts <- MaxReviews,
            request <- signing

ASSUME SignupParameters ==
  OldAccount \notin SignupRequests /\ \A in \in Inputs : in.register \in BOOLEAN

\* Two rides of a driver on different days; a passenger of the second booked
\* before there were pickup codes.
OneADay == <<1, 2>>
TwoOnTheSecond == <<1, 2, 2>>
FirstTakesBoth == <<"p", "p", "q">>

Lists == INSTANCE RideLists WITH Rides <- DrivenRides, booking <- trip

ASSUME ListParameters ==
  /\ IsFiniteSet(Trips) /\ IsFiniteSet(DrivenRides) /\ RideOf \in [Trips -> DrivenRides]
  /\ DayOf \in [DrivenRides -> Nat] /\ PageSize \in Nat \ {0}

\* Two passengers want the one seat, one notice or process is lost.
Notices == INSTANCE RideNotices WITH
             Bookings <- Travels, Seats <- FreeSeats,
             ride <- toldRide, booking <- toldBooking, work <- telling

ASSUME NoticeParameters == Travels \in SUBSET Nat /\ IsFiniteSet(Travels)

\* Two emergencies, of which a page lists one.
Monitor == INSTANCE SosMonitor WITH Limit <- MonitorLimit, ride <- watched, sos <- emergency

ASSUME MonitorParameters ==
  /\ Soses \in SUBSET Nat /\ IsFiniteSet(Soses)
  /\ MonitorLimit \in Nat /\ Gone \in Nat \ {0}

\* Three messages, the second of the reader herself, two moments in a millisecond.
Pages == INSTANCE ChatPages WITH Own <- OwnMessages, Limit <- PageLimit

ASSUME PageParameters ==
  /\ Messages \in SUBSET Nat /\ IsFiniteSet(Messages)
  /\ PageLimit \in Nat \ {0} /\ Fine \in Nat \ {0}

sosVars == <<sosRide, aboard, sos, calls, incidents, desk>>
deletionVars == <<account, requests, open, login, token, duty>>
chatVars == <<chatBooking, commute, conversation, messages, sending, bus, heard>>
supportVars == <<role, ticket, comments, told, supporting>>
ratingVars == <<completed, booked, travelled, task>>
codeVars == <<holder, corporate, code, taken, coding>>
kycVars == <<session, fresh, provider, sent, processed, generic, credits, verifying>>
signupVars == <<user, referrals, points, signing, attempts>>
listVars == <<ride, trip, ledger, today, mine, shown, walk>>
noticeVars == <<kind, toldRide, toldBooking, claim, telling, notices, answers, faults>>
monitorVars == <<watched, emergency, car, own, publishing, view>>
pageVars == <<time, created, stored, read, lastAt, reading, item>>

Init ==
  /\ running \in Parts
  /\ Sos!Init /\ Deletion!Init /\ Chat!Init /\ Support!Init
  /\ Rated!Init /\ Codes!Init /\ Kyc!Init /\ Signup!Init /\ Lists!Init /\ Notices!Init
  /\ Monitor!Init /\ Pages!Init
  /\ running # "chat" => ~commute
  /\ running # "support" => \A r \in Topics : role[r] = "none"
  /\ running # "notices" => kind = "COMMUTE"
  /\ running # "ratings" => booked = [r \in RatedRides |-> {}]

deskVars == <<running, sosVars, deletionVars, chatVars, supportVars, ratingVars, codeVars,
              kycVars, signupVars, listVars, noticeVars, monitorVars, pageVars>>

Next ==
  /\ UNCHANGED running
  /\ \/ /\ running = "sos" /\ Sos!Next
        /\ UNCHANGED <<deletionVars, chatVars, supportVars, ratingVars, codeVars,
                       kycVars, signupVars, listVars, noticeVars, monitorVars, pageVars>>
     \/ /\ running = "deletion" /\ Deletion!Next
        /\ UNCHANGED <<sosVars, chatVars, supportVars, ratingVars, codeVars,
                       kycVars, signupVars, listVars, noticeVars, monitorVars, pageVars>>
     \/ /\ running = "chat" /\ Chat!Next
        /\ UNCHANGED <<sosVars, deletionVars, supportVars, ratingVars, codeVars,
                       kycVars, signupVars, listVars, noticeVars, monitorVars, pageVars>>
     \/ /\ running = "support" /\ Support!Next
        /\ UNCHANGED <<sosVars, deletionVars, chatVars, ratingVars, codeVars,
                       kycVars, signupVars, listVars, noticeVars, monitorVars, pageVars>>
     \/ /\ running = "ratings" /\ Rated!Next
        /\ UNCHANGED <<sosVars, deletionVars, chatVars, supportVars, codeVars,
                       kycVars, signupVars, listVars, noticeVars, monitorVars, pageVars>>
     \/ /\ running = "codes" /\ Codes!Next
        /\ UNCHANGED <<sosVars, deletionVars, chatVars, supportVars, ratingVars,
                       kycVars, signupVars, listVars, noticeVars, monitorVars, pageVars>>
     \/ /\ running = "kyc" /\ Kyc!Next
        /\ UNCHANGED <<sosVars, deletionVars, chatVars, supportVars, ratingVars,
                       codeVars, signupVars, listVars, noticeVars, monitorVars, pageVars>>
     \/ /\ running = "signup" /\ Signup!Next
        /\ UNCHANGED <<sosVars, deletionVars, chatVars, supportVars, ratingVars,
                       codeVars, kycVars, listVars, noticeVars, monitorVars, pageVars>>
     \/ /\ running = "lists" /\ Lists!Next
        /\ UNCHANGED <<sosVars, deletionVars, chatVars, supportVars, ratingVars,
                       codeVars, kycVars, signupVars, noticeVars, monitorVars, pageVars>>
     \/ /\ running = "notices" /\ Notices!Next
        /\ UNCHANGED <<sosVars, deletionVars, chatVars, supportVars, ratingVars,
                       codeVars, kycVars, signupVars, listVars, monitorVars, pageVars>>
     \/ /\ running = "monitor" /\ Monitor!Next
        /\ UNCHANGED <<sosVars, deletionVars, chatVars, supportVars, ratingVars, codeVars,
                       kycVars, signupVars, listVars, noticeVars, pageVars>>
     \/ /\ running = "pages" /\ Pages!Next
        /\ UNCHANGED <<sosVars, deletionVars, chatVars, supportVars, ratingVars, codeVars,
                       kycVars, signupVars, listVars, noticeVars, monitorVars>>

Spec == Init /\ [][Next]_deskVars

\* The processes are interchangeable.
Alike == Permutations(Processes)

\* The pages of a list are turned, passengers look at the bookings of the second
\* ride, or the ledger grows.
Looks == mine # Lists!Off \/ \E b \in DOMAIN shown : shown[b] # 0

\* Where everybody is matters for the first emergency alone, the second one and
\* the list of the active ones come without.
StandsStill(s) ==
  /\ ~emergency[s].located /\ car[s] = Monitor!Nowhere /\ own[s] = Monitor!Nowhere
  /\ watched[s] = "IN_PROGRESS" /\ publishing = {}
OneToFind ==
  /\ StandsStill(2)
  /\ emergency[2] # Monitor!NoSos \/ view.what = "list"
     => /\ StandsStill(1) /\ view.what \in {"none", "list"}
        /\ emergency[1].age = 0 /\ emergency[2].age = 0

\* Who reads pages looks at no list meanwhile.
PageOrList == reading = Pages!NotReading \/ item.todo = {"list"}

Small ==
  /\ OneToFind /\ PageOrList
  /\ Looks => walk = Lists!Closed /\ ledger = {} /\ ride[1].status = "PUBLISHED"
  /\ ledger # {} => walk = Lists!Closed /\ Cardinality(ledger) <= 3

-----------------------------------------------------------------------------
\* A call that is repeated or overtaken by another counts once: one emergency
\* of a ride is active, one deletion request undecided, one ticket and comment
\* stand for a key, a message is stored and told once to each process's sockets
\* and one code can be entered, tried no more than allowed, a referral rewards
\* both sides once.
RepeatsCountOnce ==
  /\ running = "sos" => Sos!OneEmergency
  /\ running = "deletion" => Deletion!OneRequest
  /\ running = "chat" => Chat!ToldOnce
  /\ running = "support" => Support!OneTicketPerKey
  /\ running = "codes" => Codes!OneActiveCode
  /\ running = "signup" => Signup!RewardsMatchReferrals

\* An email is nobody's before a code for just that email was entered, the
\* reward for an identity is credited once, to whom the provider has verified,
\* and who is signed in has proven the phone of that account.
NothingUnproven ==
  /\ running = "codes" => Codes!EmailsAreProven
  /\ running = "kyc" => Kyc!RewardedOnce /\ Kyc!SuccessCounts
  /\ running = "signup" => Signup!SignsInTheCaller

\* Users are told of every status and reply, their averages agree, and what a
\* driver and her passengers are shown of a ride agrees: no page of a history
\* hides a part of it, list and detail reckon alike, a shown code is the right one.
\* Everybody whom an answered cancellation ended for has been told, and told true.
\* The safety desk misses no emergency that stays active while it looks, and is
\* shown nobody's place of long ago as hers.  The pages of a conversation leave
\* out nothing but what shares a millisecond with the end of a page.
UsersSeeTheTruth ==
  /\ running = "support" => Support!UserIsTold
  /\ running = "ratings" => Rated!AveragesAgree
  /\ running = "lists" => /\ Lists!PagesMissNothing /\ Lists!HistoriesAgree
                          /\ Lists!LiveListsAgree /\ Lists!ShownCodesOpen
  /\ running = "notices" => Notices!ToldOrToldAgain /\ Notices!NoticesAreTrue
  /\ running = "monitor" => /\ Monitor!ActiveNeverMissed /\ Monitor!MapShowsTheActive
                            /\ Monitor!PositionsAreRecent
  /\ running = "pages" => Pages!PagesAreComplete /\ Pages!ListHoldsTogether

\* What has been decided stays: an emergency that ended, a deletion request
\* that was closed, a resolved ticket, a rating that was given, a pickup.
DecisionsStay ==
  /\ Sos!EmergenciesStayEnded /\ Deletion!RequestsStayClosed
  /\ Support!ResolvedIsFinal /\ Rated!RatingsStand /\ Lists!PickedUpStays

\* Nobody writes into a conversation that was closed.
NothingAfterClose == Chat!NothingAfterClose

\* The modules of the parts count with operators of their own that say the same.
LEMMA CountsAgree ==
  \A S : /\ Sos!Cardinality(S) = Cardinality(S)
         /\ Deletion!Cardinality(S) = Cardinality(S)
         /\ Chat!Cardinality(S) = Cardinality(S)
         /\ Codes!Cardinality(S) = Cardinality(S)
         /\ Signup!Cardinality(S) = Cardinality(S)
         /\ Lists!Cardinality(S) = Cardinality(S)
         /\ Notices!Cardinality(S) = Cardinality(S)
         /\ Monitor!Cardinality(S) = Cardinality(S)
         /\ Pages!Cardinality(S) = Cardinality(S)
         /\ Rated!Cardinality(S) = Cardinality(S)
         /\ Rated!AmountOf(S) = AmountOf(S)
BY DEF Cardinality, IsFiniteSet, Sos!Cardinality, Sos!IsFiniteSet, Deletion!Cardinality,
       Deletion!IsFiniteSet, Chat!Cardinality, Chat!IsFiniteSet, Codes!Cardinality,
       Codes!IsFiniteSet, Signup!Cardinality, Signup!IsFiniteSet, Lists!Cardinality,
       Lists!IsFiniteSet, Notices!Cardinality, Notices!IsFiniteSet, Monitor!Cardinality,
       Monitor!IsFiniteSet, Pages!Cardinality, Pages!IsFiniteSet, Rated!Cardinality,
       Rated!IsFiniteSet, AmountOf, Rated!AmountOf, MapThenSumSet, Rated!MapThenSumSet,
       MapThenFoldSet, Rated!MapThenFoldSet

\* What a list of members of a set has at its places.
LEMMA MembersOf ==
  \A S : \A s \in Seq(S) : Len(s) \in Nat /\ \A i \in 1..Len(s) : s[i] \in S
OBVIOUS

LEMMA ListOf ==
  ASSUME NEW S, NEW n \in Nat, NEW s \in [1..n -> S]
  PROVE  s \in Seq(S) /\ Len(s) = n
OBVIOUS


-----------------------------------------------------------------------------
(* An emergency of a ride.                                                 *)

SosStatus == Sos!Active \cup {"RESOLVED", "FALSE_ALARM"}

IncidentStatus == {"OPEN", "ACKNOWLEDGED", "ASSIGNED", "ESCALATED", "RESOLVED"}
Incident == [status : IncidentStatus, assigned : Officers \cup {"none"}]
Copy == [sos : Nat, status : IncidentStatus, assigned : Officers \cup {"none"}]

SosTypes ==
  /\ sos \in Seq(SosStatus)
  /\ incidents \in Seq(Incident)
  /\ Len(incidents) = Len(sos)
  /\ \A c \in calls : c.sos \in DOMAIN sos
  /\ desk \in [Officers -> Copy \cup {Sos!NotReading}]

OneActive == \A s, t \in Sos!ActiveSos : s = t

OneOpener ==
  \A s \in DOMAIN sos : \E c \in calls :
    c.sos = s /\ c.original /\ \A d \in calls : d.sos = s /\ d.original => d = c

KeysApart == \A c, d \in calls : c.key = d.key /\ c.key # "none" => c = d

SosInv == SosTypes /\ OneActive /\ OneOpener /\ KeysApart

LEMMA SosInitInv == Sos!Init => SosInv
<1> SUFFICES ASSUME Sos!Init PROVE SosInv
  OBVIOUS
<1>1. /\ sos = <<>>
      /\ calls = {}
      /\ incidents = <<>>
      /\ DOMAIN sos = {}
      /\ Len(sos) = 0
      /\ Len(incidents) = 0
  BY DEF Sos!Init
<1>3. SosTypes
  BY <1>1 DEF Sos!Init, SosTypes
<1> QED BY <1>1, <1>3 DEF SosInv, OneActive, OneOpener, KeysApart, Sos!ActiveSos

\* A set whose members are all the same has at most one.
LEMMA AtMostOne ==
  ASSUME NEW S, \A x, y \in S : x = y
  PROVE  IsFiniteSet(S) /\ Cardinality(S) <= 1
<1>1. CASE S = {}
  BY <1>1, FS_EmptySet
<1>2. CASE S # {}
  <2>1. PICK x \in S : TRUE
    BY <1>2
  <2>2. S = {x}
    BY <2>1
  <2>3. IsFiniteSet(S) /\ Cardinality(S) = 1
    BY <2>2, FS_Singleton
  <2> QED BY <2>3
<1> QED BY <1>1, <1>2

LEMMA SosInvOneEmergency == SosInv => Sos!OneEmergency
<1> SUFFICES ASSUME SosInv PROVE Sos!OneEmergency
  OBVIOUS
<1>1. Cardinality(Sos!ActiveSos) <= 1
  BY AtMostOne DEF SosInv, OneActive
<1>2. ASSUME NEW s \in DOMAIN sos
      PROVE  Cardinality({c \in calls : c.sos = s /\ c.original}) = 1
  <2>1. PICK c \in calls : {d \in calls : d.sos = s /\ d.original} = {c}
    BY <1>2 DEF SosInv, OneOpener
  <2> QED BY <2>1, FS_Singleton
<1> QED BY <1>1, <1>2, CountsAgree DEF Sos!OneEmergency, SosInv, KeysApart

LEMMA SosOpenKeeps ==
  ASSUME SosInv, NEW u \in Riders, NEW key, ~Sos!Replayed(u, key), Sos!Open(u, key),
         UNCHANGED <<sosRide, aboard, desk>>
  PROVE  SosInv'
<1> DEFINE n == Len(sos) + 1
           new == Sos!CallBy(u, n, key, TRUE)
<1>1. /\ sos \in Seq(SosStatus) /\ n \in Nat /\ n \notin DOMAIN sos
      /\ sos' = Append(sos, "TRIGGERED") /\ DOMAIN sos' = DOMAIN sos \cup {n}
      /\ sos'[n] = "TRIGGERED" /\ \A s \in DOMAIN sos : sos'[s] = sos[s]
      /\ sos' \in Seq(SosStatus) /\ Len(sos') = n
  BY DEF SosInv, SosTypes, Sos!Open, SosStatus, Sos!Active
<1>2. calls' = calls \cup {new} /\ new.sos = n /\ new.original /\ new.key = key
  BY DEF Sos!Open, Sos!CallBy
<1>3. SosTypes'
  <2>1. incidents \in Seq(Incident) /\ Len(incidents) = Len(sos)
    BY DEF SosInv, SosTypes
  <2>2. [status |-> "OPEN", assigned |-> "none"] \in Incident
    BY DEF Incident, IncidentStatus
  <2>3. incidents' = Append(incidents, [status |-> "OPEN", assigned |-> "none"])
    BY DEF Sos!Open
  <2>4. incidents' \in Seq(Incident) /\ Len(incidents') = Len(sos')
    BY <1>1, <2>1, <2>2, <2>3
  <2> QED BY <1>1, <1>2, <2>4 DEF SosInv, SosTypes
<1>4. OneActive'
  BY <1>1 DEF OneActive, Sos!ActiveSos, Sos!Open, Sos!Attachable
<1>5. OneOpener'
  <2> SUFFICES ASSUME NEW s \in DOMAIN sos'
               PROVE  \E c \in calls' : /\ c.sos = s /\ c.original
                                        /\ \A d \in calls' : d.sos = s /\ d.original => d = c
    BY DEF OneOpener
  <2>1. CASE s = n
    <3>1. \A d \in calls : d.sos # n
      BY <1>1 DEF SosInv, SosTypes
    <3>2. \A d \in calls' : d.sos = n => d = new
      BY <1>2, <3>1
    <3> QED BY <1>2, <2>1, <3>2
  <2>2. CASE s # n
    <3>1. PICK c \in calls : /\ c.sos = s /\ c.original
                             /\ \A d \in calls : d.sos = s /\ d.original => d = c
      BY <1>1, <2>2 DEF SosInv, OneOpener
    <3>2. \A d \in calls' : d.sos = s => d \in calls
      BY <1>2, <2>2
    <3> QED BY <1>2, <3>1, <3>2
  <2> QED BY <2>1, <2>2
<1>6. KeysApart'
  BY <1>2 DEF SosInv, KeysApart, Sos!Replayed
<1> QED BY <1>3, <1>4, <1>5, <1>6 DEF SosInv

LEMMA SosAttachKeeps ==
  ASSUME SosInv, NEW u \in Riders, NEW key, ~Sos!Replayed(u, key), Sos!Attach(u, key),
         UNCHANGED <<sosRide, aboard, desk>>
  PROVE  SosInv'
<1>1. PICK s \in Sos!ActiveSos : calls' = calls \cup {Sos!CallBy(u, s, key, FALSE)}
  BY DEF Sos!Attach, Sos!Attachable
<1> DEFINE new == Sos!CallBy(u, s, key, FALSE)
<1>2. /\ calls' = calls \cup {new} /\ new.sos = s /\ ~new.original /\ new.key = key
      /\ s \in DOMAIN sos
  BY <1>1 DEF Sos!CallBy, Sos!ActiveSos
<1>3. UNCHANGED <<sos, incidents, desk>>
  BY DEF Sos!Attach
<1>4. SosTypes' /\ OneActive'
  BY <1>2, <1>3 DEF SosInv, SosTypes, OneActive, Sos!ActiveSos
<1>5. OneOpener'
  <2> SUFFICES ASSUME NEW t \in DOMAIN sos
               PROVE  \E c \in calls' : /\ c.sos = t /\ c.original
                                        /\ \A d \in calls' : d.sos = t /\ d.original => d = c
    BY <1>3 DEF OneOpener
  <2>1. PICK c \in calls : /\ c.sos = t /\ c.original
                           /\ \A d \in calls : d.sos = t /\ d.original => d = c
    BY DEF SosInv, OneOpener
  <2>2. \A d \in calls' : d.original => d \in calls
    BY <1>2
  <2> QED BY <1>2, <2>1, <2>2
<1>6. KeysApart'
  BY <1>2 DEF SosInv, KeysApart, Sos!Replayed
<1> QED BY <1>4, <1>5, <1>6 DEF SosInv

LEMMA SosTransitionKeeps ==
  ASSUME SosInv, NEW s \in DOMAIN sos,
         NEW next \in {"ACKNOWLEDGED", "RESPONDING", "RESOLVED", "FALSE_ALARM"},
           Sos!transition(s, next)
  PROVE  /\ SosInv'
         /\ sos[s] \in Sos!Active
         /\ \A i \in DOMAIN incidents :
              incidents[i].status # "OPEN" => incidents'[i].status # "OPEN"
<1>1. sos[s] \in Sos!Active
  BY DEF Sos!transition, Sos!Allowed, Sos!Active
<1>2. /\ sos' \in Seq(SosStatus) /\ DOMAIN sos' = DOMAIN sos /\ Len(sos') = Len(sos)
      /\ \A t \in DOMAIN sos : t # s => sos'[t] = sos[t]
  BY DEF SosInv, SosTypes, Sos!transition, SosStatus, Sos!Active
<1>3. s \in DOMAIN incidents
  BY DEF SosInv, SosTypes
<1>4. /\ Sos!Followed(incidents[s], next) \in Incident
      /\ incidents[s].status # "OPEN" => Sos!Followed(incidents[s], next).status # "OPEN"
  <2>1. incidents[s] \in Incident
    BY <1>3 DEF SosInv, SosTypes
  <2> QED BY <2>1 DEF Sos!Followed, Incident, IncidentStatus
<1>5. /\ incidents' = [incidents EXCEPT ![s] = Sos!Followed(incidents[s], next)]
      /\ UNCHANGED <<sosRide, aboard, calls, desk>>
  BY DEF Sos!transition
<1>6. /\ incidents' \in Seq(Incident)
      /\ Len(incidents') = Len(incidents)
  BY <1>3, <1>4, <1>5 DEF SosInv, SosTypes
<1>7. SosTypes'
  BY <1>2, <1>5, <1>6 DEF SosInv, SosTypes
<1>8. OneActive'
  BY <1>1, <1>2 DEF SosInv, OneActive, Sos!ActiveSos
<1>9. OneOpener' /\ KeysApart'
  BY <1>2, <1>5 DEF SosInv, OneOpener, KeysApart
<1> QED BY <1>1, <1>3, <1>4, <1>5, <1>7, <1>8, <1>9 DEF SosInv, SosTypes

\* What an admin saves of an incident does not open it again.
LEMMA SosSaveKeeps ==
  ASSUME SosInv, NEW a \in Officers, NEW status \in IncidentStatus,
         NEW by \in Officers \cup {"none"},
         status # "OPEN", Sos!SaveIncident(a, status, by)
  PROVE  /\ SosInv' /\ sos' = sos
         /\ \A i \in DOMAIN incidents :
              incidents[i].status # "OPEN" => incidents'[i].status # "OPEN"
<1> DEFINE row == [status |-> status, assigned |-> by]
           s == desk[a].sos
<1>1. /\ incidents' = [incidents EXCEPT ![s] = row]
      /\ desk' = [desk EXCEPT ![a] = Sos!NotReading]
      /\ UNCHANGED <<sosRide, aboard, sos, calls>>
  BY DEF Sos!SaveIncident
<1>2. row \in Incident /\ row.status # "OPEN"
  BY DEF Incident
<1>t. incidents \in Seq(Incident)
  BY DEF SosInv, SosTypes
<1> HIDE DEF row, s
<1>3. /\ incidents' \in Seq(Incident)
      /\ Len(incidents') = Len(incidents)
      /\ \A i \in DOMAIN incidents :
              incidents[i].status # "OPEN" => incidents'[i].status # "OPEN"
  <2>1. CASE s \in DOMAIN incidents
    BY <1>1, <1>2, <1>t, <2>1
  <2>2. CASE s \notin DOMAIN incidents
    <3>1. incidents \in [1..Len(incidents) -> Incident]
      BY <1>t
    <3>2. incidents' = incidents
      BY <1>1, <2>2, <3>1
    <3> QED BY <1>t, <3>2
  <2> QED BY <2>1, <2>2
<1>4. SosTypes'
  <2> QED BY <1>1, <1>3 DEF SosInv, SosTypes
<1>5. OneActive' /\ OneOpener' /\ KeysApart'
  BY <1>1 DEF SosInv, OneActive, OneOpener, KeysApart, Sos!ActiveSos
<1> QED BY <1>1, <1>3, <1>4, <1>5 DEF SosInv

LEMMA SosStep ==
  ASSUME SosInv, [Sos!Next]_(Sos!sosVars)
  PROVE  /\ SosInv'
         /\ \A s \in DOMAIN sos : sos[s] \notin Sos!Active => sos'[s] = sos[s]
         /\ \A s \in DOMAIN incidents :
              incidents[s].status # "OPEN" => incidents'[s].status # "OPEN"
<1> DEFINE Stays == /\ \A s \in DOMAIN sos : sos[s] \notin Sos!Active => sos'[s] = sos[s]
                    /\ \A s \in DOMAIN incidents :
                         incidents[s].status # "OPEN" => incidents'[s].status # "OPEN"
<1>1. CASE UNCHANGED <<sos, calls, incidents, desk>>
  <2>1. SosInv'
    BY <1>1 DEF SosInv, SosTypes, OneActive, Sos!ActiveSos, OneOpener, KeysApart
  <2> QED BY <1>1, <2>1
<1>2. ASSUME NEW u \in Riders, Sos!trigger(u, SosKey[u]) PROVE SosInv' /\ Stays
  <2>1. CASE Sos!Open(u, SosKey[u])
    <3>1. SosInv'
      BY <1>2, <2>1, SosOpenKeeps DEF Sos!trigger
    <3>2. Stays
      BY <2>1 DEF SosInv, SosTypes, Sos!Open
    <3> QED BY <3>1, <3>2
  <2>2. CASE Sos!Attach(u, SosKey[u])
    <3>1. SosInv'
      BY <1>2, <2>2, SosAttachKeeps DEF Sos!trigger
    <3> QED BY <2>2, <3>1 DEF Sos!Attach
  <2> QED BY <1>2, <2>1, <2>2 DEF Sos!trigger
<1>3. ASSUME NEW s \in DOMAIN sos,
             NEW next \in {"ACKNOWLEDGED", "RESPONDING", "RESOLVED", "FALSE_ALARM"},
             Sos!transition(s, next)
      PROVE  SosInv' /\ Stays
  <2>1. /\ SosInv' /\ sos[s] \in Sos!Active
        /\ \A i \in DOMAIN incidents :
             incidents[i].status # "OPEN" => incidents'[i].status # "OPEN"
    BY <1>3, SosTransitionKeeps
  <2> QED BY <1>3, <2>1 DEF Sos!transition, SosInv, SosTypes
<1>4. ASSUME NEW s \in DOMAIN sos, NEW a \in Officers, Sos!FindIncident(a, s) PROVE SosInv' /\ Stays
  <2> DEFINE was == [sos |-> s, status |-> incidents[s].status, assigned |-> incidents[s].assigned]
  <2>1. desk' = [desk EXCEPT ![a] = was] /\ UNCHANGED <<sosRide, aboard, sos, calls, incidents>>
    BY <1>4 DEF Sos!FindIncident
  <2>2. incidents[s] \in Incident /\ s \in Nat
    BY DEF SosInv, SosTypes
  <2>3. was \in Copy
    BY <2>2 DEF Incident, Copy
  <2> HIDE DEF was
  <2>4. SosInv'
    BY <2>1, <2>3 DEF SosInv, SosTypes, OneActive, OneOpener, KeysApart, Sos!ActiveSos
  <2> QED BY <2>1, <2>4
<1>5. ASSUME NEW a \in Officers, Sos!Handle(a) PROVE SosInv' /\ Stays
  <2>1. \E status \in IncidentStatus : \E by \in Officers \cup {"none"} :
          status # "OPEN" /\ Sos!SaveIncident(a, status, by)
    <3>1. /\ desk[a].status \in IncidentStatus \cup {"none"}
          /\ desk[a].assigned \in Officers \cup {"none"}
          /\ desk[a].status = "none" => desk[a] = Sos!NotReading
      BY DEF SosInv, SosTypes, Copy, IncidentStatus, Sos!NotReading
    <3>2. CASE Sos!acknowledgeIncident(a) \/ Sos!escalateIncident(a) \/ Sos!resolveIncident(a)
      BY <3>1, <3>2 DEF Sos!acknowledgeIncident, Sos!escalateIncident, Sos!resolveIncident,
         IncidentStatus
    <3>3. CASE Sos!assignIncidentToMe(a)
      BY <3>1, <3>3 DEF Sos!assignIncidentToMe, IncidentStatus
    <3> QED BY <1>5, <3>2, <3>3 DEF Sos!Handle
  <2> QED BY <2>1, SosSaveKeeps
<1> QED BY <1>1, <1>2, <1>3, <1>4, <1>5 DEF Sos!Next, Sos!sosVars, Sos!LeaveRide, Sos!EndRide

-----------------------------------------------------------------------------
(* Closing an account.                                                     *)

RequestStatus == Deletion!ActiveRequest \cup {"CANCELLED", "COMPLETED"}

\* Of the requests at most one is undecided.
DeletionInv ==
  /\ requests \in Seq(RequestStatus)
  /\ \A r, q \in Deletion!ActiveRequests : r = q

LEMMA DeletionInitInv == Deletion!Init => DeletionInv
BY DEF Deletion!Init, DeletionInv, Deletion!ActiveRequests

\* A set whose members are all the same has at most one.
LEMMA DeletionInvOneRequest == DeletionInv => Deletion!OneRequest
BY AtMostOne, CountsAgree DEF DeletionInv, Deletion!OneRequest

\* A request that is undecided may be decided, and otherwise moved.
LEMMA RequestMoves ==
  ASSUME DeletionInv, NEW r \in DOMAIN requests, NEW status \in RequestStatus,
         requests[r] \in Deletion!ActiveRequest, requests' = [requests EXCEPT ![r] = status]
  PROVE  /\ DeletionInv'
         /\ \A q \in DOMAIN requests :
              requests[q] \in {"CANCELLED", "COMPLETED"} => requests'[q] = requests[q]
<1>1. /\ requests' \in Seq(RequestStatus) /\ DOMAIN requests' = DOMAIN requests
      /\ \A q \in DOMAIN requests : q # r => requests'[q] = requests[q]
  BY DEF DeletionInv
<1> QED BY <1>1 DEF DeletionInv, Deletion!ActiveRequests, Deletion!ActiveRequest

LEMMA DeletionStep ==
  ASSUME DeletionInv, [Deletion!Next]_(Deletion!accountVars)
  PROVE  /\ DeletionInv'
         /\ \A r \in DOMAIN requests :
              requests[r] \in {"CANCELLED", "COMPLETED"} => requests'[r] = requests[r]
<1> DEFINE Stays == \A r \in DOMAIN requests :
                      requests[r] \in {"CANCELLED", "COMPLETED"} => requests'[r] = requests[r]
<1>1. CASE UNCHANGED requests
  BY <1>1 DEF DeletionInv, Deletion!ActiveRequests
<1>2. ASSUME NEW d \in Devices, Deletion!submitRequest(d) PROVE DeletionInv' /\ Stays
  <2> DEFINE n == Len(requests) + 1
  <2>1. /\ requests' = Append(requests, "PENDING") /\ requests \in Seq(RequestStatus)
        /\ "PENDING" \in RequestStatus
    BY <1>2 DEF Deletion!submitRequest, DeletionInv, RequestStatus, Deletion!ActiveRequest
  <2>2. /\ requests' \in Seq(RequestStatus) /\ DOMAIN requests' = DOMAIN requests \cup {n}
        /\ \A r \in DOMAIN requests : requests'[r] = requests[r]
    BY <2>1
  <2> QED BY <1>2, <2>2 DEF DeletionInv, Deletion!ActiveRequests, Deletion!submitRequest
<1>3. ASSUME NEW d \in Devices, Deletion!cancelRequest(d) PROVE DeletionInv' /\ Stays
  <2>1. /\ Len(requests) \in DOMAIN requests /\ requests[Len(requests)] \in Deletion!ActiveRequest
        /\ requests' = [requests EXCEPT ![Len(requests)] = "CANCELLED"]
    BY <1>3 DEF Deletion!cancelRequest, DeletionInv
  <2> QED BY <2>1, RequestMoves DEF RequestStatus
<1>4. ASSUME NEW r \in DOMAIN requests,
             Deletion!adminReview(r) \/ Deletion!adminRequestUserAction(r) \/
               Deletion!adminApprove(r) \/ Deletion!adminComplete(r)
      PROVE  DeletionInv' /\ Stays
  <2>1. requests[r] \in Deletion!ActiveRequest
    BY <1>4 DEF DeletionInv, RequestStatus, Deletion!ActiveRequest, Deletion!adminReview,
       Deletion!adminRequestUserAction,
                Deletion!adminApprove, Deletion!adminComplete, Deletion!Undecided
  <2>2. \E status \in RequestStatus : requests' = [requests EXCEPT ![r] = status]
    BY <1>4 DEF RequestStatus, Deletion!ActiveRequest, Deletion!adminReview,
       Deletion!adminRequestUserAction,
                Deletion!adminApprove, Deletion!adminComplete
  <2> QED BY <2>1, <2>2, RequestMoves
<1> QED BY <1>1, <1>2, <1>3, <1>4
        DEF Deletion!Next, Deletion!accountVars, Deletion!LoginReads, Deletion!LoginSaves,
            Deletion!signAccessToken, Deletion!LetIn, Deletion!CommitWork, Deletion!Settle,
            Deletion!suspend, Deletion!unsuspend

-----------------------------------------------------------------------------
(* Chat.                                                                   *)

ChatTypes ==
  /\ conversation \in [status : {"NONE", "OPEN", "CLOSED"}, last : Nat]
  /\ IsFiniteSet(messages) /\ messages \subseteq [id : Chat!Ids, n : Nat, read : BOOLEAN]
  /\ sending \in [ChatRequests -> [at : {"idle", "open", "close", "checked", "stored"},
                               id : Chat!Ids, last : Nat, send : BOOLEAN]]
  /\ bus \subseteq Processes \X Chat!Ids
  /\ heard \in [Processes -> [Chat!Ids -> {0, 1}]]

\* Messages are numbered in the order of their ids' first arrival.
NumbersApart ==
  /\ \A m \in messages : m.n <= Cardinality(messages)
  /\ \A m, o \in messages : m.id = o.id \/ m.n = o.n => m = o

\* No socket has heard of a message that is still to be published, no process
\* of one Redis carries to it, and nobody of one that is not stored.
HeardOnce ==
  /\ \A r \in ChatRequests : sending[r].at = "stored" =>
       /\ Chat!Known(sending[r].id)
       /\ \A p \in Processes : heard[p][sending[r].id] = 0 /\ <<p, sending[r].id>> \notin bus
       /\ \A q \in ChatRequests : q # r /\ sending[q].at = "stored" => sending[q].id # sending[r].id
  /\ \A p \in Processes, id \in Chat!Ids :
       /\ <<p, id>> \in bus => heard[p][id] = 0 /\ Chat!Known(id)
       /\ heard[p][id] # 0 => Chat!Known(id)

ChatInv == ChatTypes /\ NumbersApart /\ HeardOnce

LEMMA ChatIdle ==
  ASSUME MaxKeys \in Nat \ {0}
  PROVE  /\ Chat!Idle \in [at : {"idle", "open", "close", "checked", "stored"},
                      id : Chat!Ids, last : Nat, send : BOOLEAN]
         /\ Chat!Idle.at = "idle"
BY DEF Chat!Idle, Chat!Ids, Chat!Users

LEMMA ChatInitInv ==
  ASSUME MaxKeys \in Nat \ {0}, Chat!Init PROVE ChatInv
<1>1. IsFiniteSet(messages) /\ messages = {} /\ bus = {}
  BY FS_EmptySet DEF Chat!Init
<1>2. ChatTypes
  BY <1>1, ChatIdle DEF Chat!Init, ChatTypes
<1> QED BY <1>1, <1>2 DEF Chat!Init, ChatInv, NumbersApart, HeardOnce, Chat!Idle, Chat!Known

LEMMA ChatInvToldOnce == ChatInv => Chat!ToldOnce
BY DEF ChatInv, ChatTypes, NumbersApart, Chat!ToldOnce

\* Of a request that goes back or on to what stores nothing.
LEMMA GoesKeeps ==
  ASSUME ChatInv, NEW r \in ChatRequests,
         NEW to \in [at : {"idle", "open", "close", "checked", "stored"},
                     id : Chat!Ids, last : Nat, send : BOOLEAN],
         to.at # "stored", Chat!Goes(r, to),
         UNCHANGED <<messages, bus, heard>>,
         conversation' \in [status : {"NONE", "OPEN", "CLOSED"}, last : Nat]
  PROVE  ChatInv'
<1>1. /\ sending' = [sending EXCEPT ![r] = to]
      /\ sending' \in [ChatRequests -> [at : {"idle", "open", "close", "checked", "stored"},
                                    id : Chat!Ids, last : Nat, send : BOOLEAN]]
      /\ sending'[r] = to /\ \A q \in ChatRequests : q # r => sending'[q] = sending[q]
  BY DEF Chat!Goes, ChatInv, ChatTypes
<1>2. ChatTypes'
  BY <1>1 DEF ChatInv, ChatTypes
<1>3. NumbersApart' /\ HeardOnce'
  BY <1>1 DEF ChatInv, NumbersApart, HeardOnce, Chat!Known
<1> QED BY <1>2, <1>3 DEF ChatInv

LEMMA StoreKeeps ==
  ASSUME MaxKeys \in Nat \ {0}, ChatInv, NEW r \in ChatRequests, Chat!Store(r)
  PROVE  ChatInv' /\ (conversation.status = "CLOSED" => UNCHANGED <<conversation, messages>>)
<1> DEFINE id == sending[r].id
           n == Cardinality(messages) + 1
           new == [id |-> id, n |-> n, read |-> FALSE]
<1>1. Chat!Idle \in [at : {"idle", "open", "close", "checked", "stored"},
                id : Chat!Ids, last : Nat, send : BOOLEAN]
  BY ChatIdle
<1>2. CASE Chat!Known(id) \/ ~Chat!StillOpen
  BY <1>1, <1>2, GoesKeeps DEF Chat!Store, ChatInv, ChatTypes, Chat!Idle
<1>3. CASE ~Chat!Known(id) /\ Chat!StillOpen
  <2>1. /\ sending[r].at = "checked" /\ id \in Chat!Ids
        /\ messages' = messages \cup {new}
        /\ conversation' = [conversation EXCEPT !.last = n]
        /\ sending' = [sending EXCEPT ![r] = [sending[r] EXCEPT !.at = "stored"]]
        /\ UNCHANGED <<bus, heard>>
    BY <1>3, CountsAgree DEF Chat!Store, Chat!Goes, ChatInv, ChatTypes
  <2>2. IsFiniteSet(messages) /\ Cardinality(messages) \in Nat /\ n \in Nat
    BY FS_CardinalityType DEF ChatInv, ChatTypes
  <2>3. \A m \in messages : m.id # id /\ m.n < n /\ m.n \in Nat
    BY <1>3, <2>2 DEF ChatInv, ChatTypes, NumbersApart, Chat!Known
  <2>4. new \notin messages /\ new.id = id /\ new.n = n /\ new.read = FALSE
    BY <2>3
  <2>5. IsFiniteSet(messages') /\ Cardinality(messages') = n
    BY <2>1, <2>2, <2>4, FS_AddElement
  <2>6. /\ sending' \in [ChatRequests -> [at : {"idle", "open", "close", "checked", "stored"},
                                      id : Chat!Ids, last : Nat, send : BOOLEAN]]
        /\ sending'[r].at = "stored" /\ sending'[r].id = id
        /\ \A q \in ChatRequests : q # r => sending'[q] = sending[q]
    BY <2>1 DEF ChatInv, ChatTypes
  <2>7. ChatTypes'
    <3>1. new \in [id : Chat!Ids, n : Nat, read : BOOLEAN]
      BY <2>1, <2>2
    <3>2. conversation' \in [status : {"NONE", "OPEN", "CLOSED"}, last : Nat]
      BY <2>1, <2>2 DEF ChatInv, ChatTypes
    <3> QED BY <2>1, <2>5, <2>6, <3>1, <3>2 DEF ChatInv, ChatTypes
  <2>8. NumbersApart'
    <3>1. \A m \in messages' : m.n <= n
      BY <2>1, <2>2, <2>3, <2>4
    <3>2. ASSUME NEW m \in messages', NEW o \in messages', m.id = o.id \/ m.n = o.n PROVE m = o
      <4> HIDE DEF new
      <4>1. CASE m \in messages /\ o \in messages
        BY <3>2, <4>1 DEF ChatInv, NumbersApart
      <4>2. CASE m \notin messages \/ o \notin messages
        <5>1. n \in Nat /\ \A l \in messages : l.id # new.id /\ l.n # new.n
          BY <2>2, <2>3, <2>4
        <5> QED BY <2>1, <3>2, <4>2, <5>1
      <4> QED BY <4>1, <4>2
    <3> QED BY <2>5, <3>1, <3>2 DEF NumbersApart
  <2>9. HeardOnce'
    <3> DEFINE After(i) == \E m \in messages' : m.id = i
    <3>1. After(id) /\ \A i : Chat!Known(i) => After(i)
      BY <2>1, <2>4 DEF Chat!Known
    <3> HIDE DEF After
    <3>2. \A p \in Processes : heard[p][id] = 0 /\ <<p, id>> \notin bus
      BY <1>3, <2>1 DEF ChatInv, HeardOnce
    <3>3. \A q \in ChatRequests : sending[q].at = "stored" => sending[q].id # id
      BY <1>3 DEF ChatInv, HeardOnce
    <3>5. ASSUME NEW q \in ChatRequests, sending'[q].at = "stored"
          PROVE  /\ After(sending'[q].id)
                 /\ \A p \in Processes :
                      heard[p][sending'[q].id] = 0 /\ <<p, sending'[q].id>> \notin bus
                 /\ \A s \in ChatRequests :
                      s # q /\ sending'[s].at = "stored" => sending'[s].id # sending'[q].id
      <4>1. CASE q = r
        BY <2>6, <3>1, <3>2, <3>3, <4>1
      <4>2. CASE q # r
        <5>1. sending'[q] = sending[q] /\ sending[q].at = "stored"
          BY <2>6, <3>5, <4>2
        <5>2. /\ Chat!Known(sending[q].id)
              /\ \A p \in Processes : heard[p][sending[q].id] = 0 /\ <<p, sending[q].id>> \notin bus
              /\ \A s \in ChatRequests : s # q /\ sending[s].at = "stored" =>
                   sending[s].id # sending[q].id
          BY <5>1 DEF ChatInv, HeardOnce
        <5>3. ASSUME NEW s \in ChatRequests, s # q, sending'[s].at = "stored"
              PROVE  sending'[s].id # sending[q].id
          <6>1. CASE s = r
            BY <2>6, <3>3, <5>1, <6>1
          <6>2. CASE s # r
            BY <2>6, <5>2, <5>3, <6>2
          <6> QED BY <6>1, <6>2
        <5> QED BY <3>1, <5>1, <5>2, <5>3
      <4> QED BY <4>1, <4>2
    <3>6. \A p \in Processes, i \in Chat!Ids :
            /\ <<p, i>> \in bus => heard[p][i] = 0 /\ After(i)
            /\ heard[p][i] # 0 => After(i)
      BY <3>1 DEF ChatInv, HeardOnce
    <3> QED BY <2>1, <3>5, <3>6 DEF HeardOnce, Chat!Known, After
  <2> QED BY <1>3, <2>7, <2>8, <2>9 DEF ChatInv, Chat!StillOpen
<1> QED BY <1>2, <1>3

\* The sockets of one process hear of one message.
LEMMA HeardChanges ==
  ASSUME heard \in [Processes -> [Chat!Ids -> {0, 1}]], NEW p \in Processes, NEW id \in Chat!Ids,
         heard[p][id] = 0, heard' = [heard EXCEPT ![p][id] = heard[p][id] + 1]
  PROVE  /\ heard' \in [Processes -> [Chat!Ids -> {0, 1}]]
         /\ \A q \in Processes : \A i \in Chat!Ids : q # p \/ i # id => heard'[q][i] = heard[q][i]
<1>1. heard' = [heard EXCEPT ![p] = [heard[p] EXCEPT ![id] = 1]]
  OBVIOUS
<1>2. [heard[p] EXCEPT ![id] = 1] \in [Chat!Ids -> {0, 1}]
  OBVIOUS
<1>3. heard' \in [Processes -> [Chat!Ids -> {0, 1}]]
  BY <1>1, <1>2
<1>4. ASSUME NEW q \in Processes, NEW i \in Chat!Ids, q # p \/ i # id
      PROVE  heard'[q][i] = heard[q][i]
  BY <1>1, <1>4
<1> QED BY <1>3, <1>4

LEMMA PublishKeeps ==
  ASSUME MaxKeys \in Nat \ {0}, ChatInv, NEW r \in ChatRequests, NEW p \in Processes,
         Chat!Publish(r, p)
  PROVE  ChatInv'
<1> DEFINE id == sending[r].id
           new == {<<q, id>> : q \in Chat!Others(p)}
<1>1. /\ sending[r].at = "stored" /\ id \in Chat!Ids /\ Chat!Known(id)
      /\ \A q \in Processes : heard[q][id] = 0 /\ <<q, id>> \notin bus
      /\ \A q \in ChatRequests : q # r /\ sending[q].at = "stored" => sending[q].id # id
  BY DEF Chat!Publish, ChatInv, ChatTypes, HeardOnce
<1>2. /\ heard' = [heard EXCEPT ![p][id] = heard[p][id] + 1]
      /\ bus' = bus \/ bus' = bus \cup new
      /\ sending' = [sending EXCEPT ![r] = Chat!Idle]
      /\ UNCHANGED <<conversation, messages>>
  BY DEF Chat!Publish, Chat!Goes
<1>3. /\ heard' \in [Processes -> [Chat!Ids -> {0, 1}]]
      /\ \A q \in Processes : \A i \in Chat!Ids : q # p \/ i # id => heard'[q][i] = heard[q][i]
  BY <1>1, <1>2, HeardChanges DEF ChatInv, ChatTypes
<1>4. new \subseteq Processes \X Chat!Ids /\ <<p, id>> \notin new
  BY <1>1 DEF Chat!Others
<1>5. bus' \subseteq bus \cup new /\ bus \subseteq bus'
  BY <1>2
<1>6. /\ sending' \in [ChatRequests -> [at : {"idle", "open", "close", "checked", "stored"},
                                    id : Chat!Ids, last : Nat, send : BOOLEAN]]
      /\ sending'[r].at = "idle" /\ \A q \in ChatRequests : q # r => sending'[q] = sending[q]
  <2>1. Chat!Idle \in [at : {"idle", "open", "close", "checked", "stored"},
                  id : Chat!Ids, last : Nat, send : BOOLEAN]
    BY ChatIdle
  <2> QED BY <1>2, <2>1 DEF ChatInv, ChatTypes, Chat!Idle
<1>7. ChatTypes'
  BY <1>2, <1>3, <1>4, <1>5, <1>6 DEF ChatInv, ChatTypes
<1>8. NumbersApart'
  BY <1>2 DEF ChatInv, NumbersApart
<1>9. HeardOnce'
  <2>0. UNCHANGED messages
    BY <1>2
  <2>3. ASSUME NEW q \in ChatRequests, sending'[q].at = "stored"
        PROVE  /\ Chat!Known(sending'[q].id)
               /\ \A s \in Processes :
                    heard'[s][sending'[q].id] = 0 /\ <<s, sending'[q].id>> \notin bus'
               /\ \A s \in ChatRequests :
                    s # q /\ sending'[s].at = "stored" => sending'[s].id # sending'[q].id
    <3>1. q # r /\ sending'[q] = sending[q] /\ sending[q].id # id /\ sending[q].id \in Chat!Ids
      BY <1>1, <1>6, <2>3 DEF ChatInv, ChatTypes
    <3>2. \A s \in Processes : <<s, sending[q].id>> \notin new
      BY <3>1
    <3>3. /\ Chat!Known(sending[q].id)
          /\ \A s \in Processes : heard[s][sending[q].id] = 0 /\ <<s, sending[q].id>> \notin bus
          /\ \A s \in ChatRequests : s # q /\ sending[s].at = "stored" =>
               sending[s].id # sending[q].id
      BY <2>3, <3>1 DEF ChatInv, HeardOnce
    <3>4. \A s \in ChatRequests : sending'[s].at = "stored" => s # r /\ sending'[s] = sending[s]
      BY <1>6
    <3>5. \A s \in Processes : heard'[s][sending[q].id] = heard[s][sending[q].id]
      BY <1>3, <3>1
    <3>6. \A s \in Processes : <<s, sending[q].id>> \notin bus'
      BY <1>5, <3>2, <3>3
    <3> QED BY <3>1, <3>3, <3>4, <3>5, <3>6
  <2>4. ASSUME NEW s \in Processes, NEW i \in Chat!Ids
        PROVE  /\ <<s, i>> \in bus' => heard'[s][i] = 0 /\ Chat!Known(i)
               /\ heard'[s][i] # 0 => Chat!Known(i)
    <3>1. <<s, i>> \in new => s # p /\ i = id
      BY <1>4
    <3>2. /\ <<s, i>> \in bus => heard[s][i] = 0 /\ Chat!Known(i)
          /\ heard[s][i] # 0 => Chat!Known(i)
      BY DEF ChatInv, HeardOnce
    <3>3. <<p, id>> \notin bus'
      BY <1>1, <1>4, <1>5
    <3>4. CASE s = p /\ i = id
      BY <1>1, <3>3, <3>4
    <3>5. CASE s # p \/ i # id
      <4>1. heard'[s][i] = heard[s][i]
        BY <1>3, <3>5
      <4>2. <<s, i>> \in new => heard[s][i] = 0 /\ Chat!Known(i)
        BY <1>1, <3>1
      <4> QED BY <1>5, <3>2, <4>1, <4>2
    <3> QED BY <3>4, <3>5
  <2> QED BY <2>0, <2>3, <2>4 DEF HeardOnce, Chat!Known
<1> QED BY <1>7, <1>8, <1>9 DEF ChatInv

LEMMA HearKeeps ==
  ASSUME ChatInv, NEW p \in Processes, NEW id \in Chat!Ids, Chat!Hear(p, id)
  PROVE  ChatInv'
<1>1. /\ <<p, id>> \in bus /\ bus' = bus \ {<<p, id>>}
      /\ heard' = [heard EXCEPT ![p][id] = heard[p][id] + 1] \/ heard' = heard
      /\ UNCHANGED <<conversation, messages, sending>>
  BY DEF Chat!Hear
<1>2. heard[p][id] = 0 /\ Chat!Known(id)
  BY <1>1 DEF ChatInv, HeardOnce
<1>3. /\ heard' \in [Processes -> [Chat!Ids -> {0, 1}]]
      /\ \A q \in Processes : \A i \in Chat!Ids : q # p \/ i # id => heard'[q][i] = heard[q][i]
  <2>1. heard \in [Processes -> [Chat!Ids -> {0, 1}]]
    BY DEF ChatInv, ChatTypes
  <2>2. CASE heard' = heard
    BY <2>1, <2>2
  <2>3. CASE heard' = [heard EXCEPT ![p][id] = heard[p][id] + 1]
    BY <1>2, <2>1, <2>3, HeardChanges
  <2> QED BY <1>1, <2>2, <2>3
<1>4. ChatTypes' /\ NumbersApart'
  BY <1>1, <1>3 DEF ChatInv, ChatTypes, NumbersApart
<1>5. HeardOnce'
  <2>2. ASSUME NEW q \in ChatRequests, sending[q].at = "stored"
        PROVE  \A s \in Processes : heard'[s][sending[q].id] = 0 /\ <<s, sending[q].id>> \notin bus'
    <3>1. /\ sending[q].id \in Chat!Ids
          /\ \A s \in Processes : heard[s][sending[q].id] = 0 /\ <<s, sending[q].id>> \notin bus
      BY <2>2 DEF ChatInv, ChatTypes, HeardOnce
    <3>2. sending[q].id # id
      BY <1>1, <3>1
    <3> QED BY <1>1, <1>3, <3>1, <3>2
  <2>3. ASSUME NEW s \in Processes, NEW i \in Chat!Ids
        PROVE  /\ <<s, i>> \in bus' => heard'[s][i] = 0 /\ Chat!Known(i)
               /\ heard'[s][i] # 0 => Chat!Known(i)
    <3>1. /\ <<s, i>> \in bus => heard[s][i] = 0 /\ Chat!Known(i)
          /\ heard[s][i] # 0 => Chat!Known(i)
      BY DEF ChatInv, HeardOnce
    <3>2. CASE s = p /\ i = id
      BY <1>1, <1>2, <3>2
    <3>3. CASE s # p \/ i # id
      BY <1>1, <1>3, <3>1, <3>3
    <3> QED BY <3>2, <3>3
  <2> QED BY <1>1, <2>2, <2>3 DEF ChatInv, HeardOnce, Chat!Known
<1> QED BY <1>4, <1>5 DEF ChatInv

\* Reading changes no message but that it was read.
LEMMA MarkReadKeeps ==
  ASSUME ChatInv, NEW u \in Chat!Users, Chat!markRead(u)
  PROVE  ChatInv' /\ Cardinality(messages') = Cardinality(messages)
<1> DEFINE Seen(m) == [m EXCEPT !.read = m.read \/ m.id[1] # u]
           f == [m \in messages |-> Seen(m)]
<1>1. messages' = {Seen(m) : m \in messages} /\ UNCHANGED <<conversation, sending, bus, heard>>
  BY DEF Chat!markRead
<1>2. \A m \in messages : /\ Seen(m) \in [id : Chat!Ids, n : Nat, read : BOOLEAN]
                          /\ Seen(m).id = m.id /\ Seen(m).n = m.n
  <2> SUFFICES ASSUME NEW m \in messages
               PROVE  /\ Seen(m) \in [id : Chat!Ids, n : Nat, read : BOOLEAN]
                      /\ Seen(m).id = m.id /\ Seen(m).n = m.n
    OBVIOUS
  <2>1. m \in [id : Chat!Ids, n : Nat, read : BOOLEAN]
    BY DEF ChatInv, ChatTypes
  <2>2. (m.read \/ m.id[1] # u) \in BOOLEAN
    BY <2>1
  <2> QED BY <2>1, <2>2
<1> HIDE DEF Seen
<1>3. \A m, o \in messages : Seen(m) = Seen(o) => m = o
  BY <1>2 DEF ChatInv, NumbersApart
<1>4. f \in Bijection(messages, messages')
  BY <1>1, <1>3 DEF Bijection, Injection, Surjection, IsInjective
<1>5. IsFiniteSet(messages') /\ Cardinality(messages') = Cardinality(messages)
  <2>1. ExistsBijection(messages, messages')
    BY <1>4 DEF ExistsBijection
  <2> QED BY <2>1, FS_Bijection DEF ChatInv, ChatTypes
<1>6. ChatTypes'
  BY <1>1, <1>2, <1>5 DEF ChatInv, ChatTypes
<1>7. NumbersApart'
  <2>1. \A m \in messages' : \E o \in messages : m = Seen(o) /\ m.id = o.id /\ m.n = o.n
    BY <1>1, <1>2
  <2>2. \A m \in messages' : m.n <= Cardinality(messages')
    BY <1>5, <2>1 DEF ChatInv, NumbersApart
  <2>3. \A m, o \in messages' : m.id = o.id \/ m.n = o.n => m = o
    BY <2>1 DEF ChatInv, NumbersApart
  <2> QED BY <2>2, <2>3 DEF NumbersApart
<1>8. HeardOnce'
  <2>1. \A i : Chat!Known(i)' <=> Chat!Known(i)
    BY <1>1, <1>2 DEF Chat!Known
  <2> QED BY <1>1, <2>1 DEF ChatInv, HeardOnce
<1> QED BY <1>5, <1>6, <1>7, <1>8 DEF ChatInv

LEMMA ChatStep ==
  ASSUME MaxKeys \in Nat \ {0}, ChatInv, [Chat!Next]_(Chat!chatVars)
  PROVE  /\ ChatInv'
         /\ conversation.status = "CLOSED" =>
              conversation'.status = "CLOSED" /\ Cardinality(messages') = Cardinality(messages)
<1> DEFINE Still == conversation.status = "CLOSED" =>
                      /\ conversation'.status = "CLOSED"
                      /\ Cardinality(messages') = Cardinality(messages)
           Row == [at : {"idle", "open", "close", "checked", "stored"},
                   id : Chat!Ids, last : Nat, send : BOOLEAN]
<1>1. CASE UNCHANGED <<conversation, messages, sending, bus, heard>>
  BY <1>1 DEF ChatInv, ChatTypes, NumbersApart, HeardOnce, Chat!Known
<1>t. /\ conversation \in [status : {"NONE", "OPEN", "CLOSED"}, last : Nat]
      /\ sending \in [ChatRequests -> Row] /\ Chat!Idle \in Row /\ Chat!Idle.at = "idle"
  BY ChatIdle DEF ChatInv, ChatTypes
<1>2. ASSUME NEW r \in ChatRequests,
             Chat!OpenReads(r) \/ Chat!CloseReads(r) \/ Chat!CloseFails(r) \/ Chat!Stop(r)
      PROVE  ChatInv' /\ Still
  <2>1. [Chat!Idle EXCEPT !.at = "open"] \in Row /\ [Chat!Idle EXCEPT !.at = "open"].at = "open"
    BY ChatIdle DEF Chat!Idle
  <2>2. /\ [Chat!Idle EXCEPT !.at = "close", !.last = conversation.last] \in Row
        /\ [Chat!Idle EXCEPT !.at = "close", !.last = conversation.last].at = "close"
    BY <1>t DEF Chat!Idle
  <2>3. CASE Chat!OpenReads(r)
    BY <1>t, <2>1, <2>3, GoesKeeps DEF Chat!OpenReads
  <2>4. CASE Chat!CloseReads(r)
    BY <1>t, <2>2, <2>4, GoesKeeps DEF Chat!CloseReads
  <2>5. CASE Chat!Stop(r)
    BY <1>t, <2>5, GoesKeeps DEF Chat!Stop
  <2>6. CASE Chat!CloseFails(r)
    <3>1. CASE sending[r].send
      <4> DEFINE to == [sending[r] EXCEPT !.at = "checked"]
      <4>1. to \in Row /\ to.at = "checked" 
        BY <1>t
      <4>2. Chat!Goes(r, to) /\ UNCHANGED <<conversation, messages, bus, heard>>
        BY <2>6, <3>1 DEF Chat!CloseFails
      <4> HIDE DEF to
      <4> QED BY <1>t, <4>1, <4>2, GoesKeeps
    <3>2. CASE ~sending[r].send
      BY <1>t, <2>6, <3>2, GoesKeeps DEF Chat!CloseFails
    <3> QED BY <3>1, <3>2
  <2> QED BY <1>2, <2>3, <2>4, <2>5, <2>6
<1>3. ASSUME NEW r \in ChatRequests, Chat!OpenSaves(r) \/ Chat!CloseSaves(r)
      PROVE  ChatInv' /\ Still
  <2>1. /\ conversation' \in [status : {"NONE", "OPEN", "CLOSED"}, last : Nat]
        /\ conversation.status = "CLOSED" => conversation'.status = "CLOSED"
    BY <1>3, <1>t DEF Chat!OpenSaves, Chat!CloseSaves
  <2>2. Chat!Goes(r, Chat!Idle) /\ UNCHANGED <<messages, bus, heard>>
    BY <1>3 DEF Chat!OpenSaves, Chat!CloseSaves
  <2> QED BY <1>t, <2>1, <2>2, GoesKeeps
<1>4. ASSUME NEW r \in ChatRequests, NEW id \in Chat!Ids, Chat!sendMessage(r, id)
      PROVE  ChatInv' /\ Still
  <2> DEFINE to == [at |-> IF chatBooking = "ENDED" THEN "close" ELSE "checked",
                    id |-> id, last |-> conversation.last, send |-> TRUE]
  <2>1. to \in Row /\ to.at # "stored" /\ to.id \in Chat!Ids
    BY <1>t
  <2>2. Chat!Goes(r, to) /\ UNCHANGED <<conversation, messages, bus, heard>>
    BY <1>4 DEF Chat!sendMessage
  <2> HIDE DEF to
  <2> QED BY <1>t, <2>1, <2>2, GoesKeeps
<1>5. ASSUME NEW r \in ChatRequests, Chat!Store(r) PROVE ChatInv' /\ Still
  BY <1>5, StoreKeeps
<1>6. ASSUME NEW r \in ChatRequests, NEW p \in Processes, Chat!Publish(r, p) PROVE ChatInv' /\ Still
  BY <1>6, PublishKeeps DEF Chat!Publish
<1>7. ASSUME NEW p \in Processes, NEW id \in Chat!Ids, Chat!Hear(p, id) PROVE ChatInv' /\ Still
  BY <1>7, HearKeeps DEF Chat!Hear
<1>8. ASSUME NEW u \in Chat!Users, Chat!markRead(u) PROVE ChatInv' /\ Still
  BY <1>8, MarkReadKeeps DEF Chat!markRead
<1> QED BY <1>1, <1>2, <1>3, <1>4, <1>5, <1>6, <1>7, <1>8
        DEF Chat!Next, Chat!chatVars, Chat!Confirm, Chat!EndBooking

-----------------------------------------------------------------------------
(* Support.                                                                *)

TicketStatus == {"CREATED", "IN_PROGRESS", "RESOLVED"}
Ticket ==
  [key : Keys \cup {"none"}, ride : Topics \cup {"none"}, status : TicketStatus \cup {"NONE"},
   assignee : Admins \cup {"none"}, history : Seq(TicketStatus)]
Pending ==
  {Support!Idle} \cup [does : {"create"}, key : Keys, ride : Topics]
         \cup [does : {"comment"}, ticket : Support!Ids, key : CKeys, by : {"USER", "ADMIN"}]

SupportTypes ==
  /\ ticket \in [Support!Ids -> Ticket]
  /\ supporting \in [Processes -> Pending]

HistoriesEnd ==
  \A t \in Support!Known :
    /\ ticket[t].history # << >>
    /\ Support!Last(ticket[t].history) = ticket[t].status

SupportInv == SupportTypes /\ HistoriesEnd /\ Support!OneTicketPerKey /\ Support!UserIsTold

LEMMA SupportInitInv == Support!Init => SupportInv
<1> SUFFICES ASSUME Support!Init PROVE SupportInv
  OBVIOUS
<1>1. Support!NoTicket \in Ticket /\ Support!Idle \in Pending
  BY DEF Support!NoTicket, Ticket, Pending
<1>2. Support!Known = {} /\ comments = {}
  BY DEF Support!Init, Support!Known, Support!NoTicket
<1> QED BY <1>1, <1>2 DEF Support!Init, SupportInv, SupportTypes, HistoriesEnd,
Support!OneTicketPerKey, Support!UserIsTold

\* What a row in a history becomes part of.
LEMMA HistoryGrows ==
  ASSUME NEW h \in Seq(TicketStatus), NEW to \in TicketStatus
  PROVE  /\ Append(h, to) \in Seq(TicketStatus) /\ Append(h, to) # << >>
         /\ Support!Last(Append(h, to)) = to
         /\ \A s \in Support!ToSet(Append(h, to)) : s = to \/ s \in Support!ToSet(h)
<1>1. /\ Append(h, to) \in Seq(TicketStatus) /\ Len(Append(h, to)) = Len(h) + 1
      /\ Append(h, to)[Len(h) + 1] = to
      /\ \A i \in DOMAIN Append(h, to) : i \in DOMAIN h \/ i = Len(h) + 1
      /\ \A i \in DOMAIN h : Append(h, to)[i] = h[i]
  OBVIOUS
<1>2. Support!Last(Append(h, to)) = to
  BY <1>1 DEF Support!Last
<1>3. \A s \in Support!ToSet(Append(h, to)) : s = to \/ s \in Support!ToSet(h)
  BY <1>1 DEF Support!ToSet
<1>4. Append(h, to) # << >>
  BY <1>1
<1> QED BY <1>1, <1>2, <1>3, <1>4

LEMMA TicketsKeep ==
  ASSUME SupportInv, UNCHANGED <<ticket, comments, told>>, supporting' \in [Processes -> Pending]
  PROVE  SupportInv' /\ ticket' = ticket
BY DEF SupportInv, SupportTypes, HistoriesEnd, Support!OneTicketPerKey, Support!UserIsTold,
   Support!Known

LEMMA CreateKeeps ==
  ASSUME SupportInv, NEW p \in Processes, Support!createTicket(p)
  PROVE  SupportInv' /\ \A t \in Support!Known : ticket'[t] = ticket[t]
<1> DEFINE w == supporting[p]
<1>1. supporting' \in [Processes -> Pending] /\ UNCHANGED comments
  BY DEF Support!createTicket, SupportInv, SupportTypes, Pending
<1>2. CASE Support!KeyUsed(w.key)
  BY <1>1, <1>2, TicketsKeep DEF Support!createTicket, Support!TakenMeanwhile
<1>3. CASE ~Support!KeyUsed(w.key)
  <2> DEFINE Row == [key |-> w.key, ride |-> w.ride, status |-> "CREATED",
                     assignee |-> "none", history |-> <<"CREATED">>]
  <2>1. PICK t \in Support!Ids \ Support!Known : /\ ticket' = [ticket EXCEPT ![t] = Row]
                                                 /\ told' = told \cup {<<t, "CREATED">>}
    BY <1>3 DEF Support!createTicket, Support!TakenMeanwhile
  <2>2. w.key \in Keys /\ w.ride \in Topics
    BY DEF Support!createTicket, SupportInv, SupportTypes, Pending, Support!Idle
  <2>3. Row \in Ticket /\ Row.history = <<"CREATED">> /\ Row.status = "CREATED" /\ Row.key = w.key
    BY <2>2 DEF Ticket, TicketStatus
  <2> HIDE DEF Row
  <2>4. /\ ticket' \in [Support!Ids -> Ticket] /\ ticket'[t] = Row
        /\ \A u \in Support!Ids : u # t => ticket'[u] = ticket[u]
    BY <2>1, <2>3 DEF SupportInv, SupportTypes
  <2>5. /\ Support!Known' = Support!Known \cup {t}
        /\ t \notin Support!Known
        /\ Support!Known \subseteq Support!Ids
    BY <2>1, <2>3, <2>4 DEF Support!Known
  <2>6. HistoriesEnd'
    <3>1. Row.history # << >> /\ Support!Last(Row.history) = Row.status
      BY <2>3 DEF Support!Last
    <3> QED BY <2>4, <2>5, <3>1 DEF SupportInv, HistoriesEnd
  <2>7. Support!OneTicketPerKey'
    <3>1. \A u \in Support!Known : ticket[u].key # w.key
      BY <1>3 DEF Support!KeyUsed
    <3>2. \A u, v \in Support!Known' : ticket'[u].key = ticket'[v].key => u = v
      BY <2>3, <2>4, <2>5, <3>1 DEF SupportInv, Support!OneTicketPerKey
    <3> QED BY <1>1, <3>2 DEF SupportInv, Support!OneTicketPerKey
  <2>8. Support!UserIsTold'
    <3>1. Support!ToSet(Row.history) = {"CREATED"}
      BY <2>3 DEF Support!ToSet
    <3>2. \A u \in Support!Known' : /\ Support!Last(ticket'[u].history) = ticket'[u].status
                                    /\ \A s \in Support!ToSet(ticket'[u].history) :
                                         <<u, s>> \in told'
      BY <2>1, <2>4, <2>5, <2>6, <3>1 DEF SupportInv, Support!UserIsTold, HistoriesEnd
    <3>3. \A c \in comments' : c.by = "ADMIN" => <<c.ticket, c.key>> \in told'
      BY <1>1, <2>1 DEF SupportInv, Support!UserIsTold
    <3> QED BY <3>2, <3>3 DEF Support!UserIsTold
  <2> QED BY <1>1, <2>4, <2>5, <2>6, <2>7, <2>8 DEF SupportInv, SupportTypes, Support!Known
<1> QED BY <1>2, <1>3

LEMMA UpdateStatusKeeps ==
  ASSUME SupportInv, NEW a \in Admins, NEW t \in Support!Ids,
         NEW to \in {"IN_PROGRESS", "RESOLVED"},
         Support!updateStatus(a, t, to)
  PROVE  /\ SupportInv' /\ ticket[t].status # "RESOLVED"
         /\ \A u \in Support!Ids : u # t => ticket'[u] = ticket[u]
<1> DEFINE row == ticket[t]
           Row == [row EXCEPT !.status = to, !.history = Append(row.history, to),
                              !.assignee = IF row.assignee = "none" THEN a ELSE row.assignee]
<1>1. /\ t \in Support!Known /\ to \in Support!SUPPORT_STATUS_TRANSITIONS[row.status]
      /\ ticket' = [ticket EXCEPT ![t] = Row] /\ told' = told \cup {<<t, to>>}
      /\ UNCHANGED <<comments, supporting>>
  BY DEF Support!updateStatus
<1>2. row \in Ticket /\ row.history \in Seq(TicketStatus) /\ to \in TicketStatus
  BY DEF SupportInv, SupportTypes, Ticket, TicketStatus
<1>3. row.status # "RESOLVED"
  BY <1>1 DEF Support!SUPPORT_STATUS_TRANSITIONS
<1>4. /\ Row \in Ticket /\ Row.history = Append(row.history, to) /\ Row.status = to
      /\ Row.key = row.key
  BY <1>2, HistoryGrows DEF Ticket
<1> HIDE DEF Row
<1>5. /\ ticket' \in [Support!Ids -> Ticket] /\ ticket'[t] = Row
      /\ \A u \in Support!Ids : u # t => ticket'[u] = ticket[u]
  BY <1>1, <1>4 DEF SupportInv, SupportTypes
<1>6. Support!Known' = Support!Known
  BY <1>1, <1>4, <1>5 DEF Support!Known
<1>7. HistoriesEnd'
  <2>1. Row.history # << >> /\ Support!Last(Row.history) = Row.status
    BY <1>2, <1>4, HistoryGrows
  <2> QED BY <1>5, <1>6, <2>1 DEF SupportInv, HistoriesEnd, Support!Known
<1>8. Support!OneTicketPerKey'
  <2>1. \A u \in Support!Known : ticket'[u].key = ticket[u].key
    BY <1>4, <1>5 DEF Support!Known
  <2> QED BY <1>1, <1>6, <2>1 DEF SupportInv, Support!OneTicketPerKey
<1>9. Support!UserIsTold'
  <2>1. \A s \in Support!ToSet(Row.history) : s = to \/ s \in Support!ToSet(row.history)
    BY <1>2, <1>4, HistoryGrows
  <2>2. \A s \in Support!ToSet(row.history) : <<t, s>> \in told
    BY <1>1 DEF SupportInv, Support!UserIsTold
  <2>3. \A u \in Support!Known : \A s \in Support!ToSet(ticket'[u].history) : <<u, s>> \in told'
    BY <1>1, <1>5, <2>1, <2>2 DEF SupportInv, Support!UserIsTold, Support!Known
  <2> QED BY <1>1, <1>6, <1>7, <2>3 DEF SupportInv, Support!UserIsTold, HistoriesEnd
<1> QED BY <1>1, <1>3, <1>5, <1>7, <1>8, <1>9 DEF SupportInv, SupportTypes

LEMMA CommentKeeps ==
  ASSUME SupportInv, NEW p \in Processes, Support!addComment(p)
  PROVE  SupportInv' /\ ticket' = ticket
<1> DEFINE w == supporting[p]
           new == [ticket |-> w.ticket, key |-> w.key, by |-> w.by]
<1>1. supporting' \in [Processes -> Pending] /\ UNCHANGED ticket
  BY DEF Support!addComment, SupportInv, SupportTypes, Pending
<1>2. CASE Support!CommentKeyUsed(w.ticket, w.key)
  BY <1>1, <1>2, TicketsKeep DEF Support!addComment
<1>3. CASE ~Support!CommentKeyUsed(w.ticket, w.key)
  <2>1. /\ comments' = comments \cup {new}
        /\ told' = IF w.by = "ADMIN" THEN told \cup {<<w.ticket, w.key>>} ELSE told
    BY <1>3 DEF Support!addComment
  <2>2. new.ticket = w.ticket /\ new.key = w.key /\ new.by = w.by
    OBVIOUS
  <2> HIDE DEF new
  <2>3. Support!OneTicketPerKey'
    <3>1. \A c \in comments : ~(c.ticket = new.ticket /\ c.key = new.key)
      BY <1>3, <2>2 DEF Support!CommentKeyUsed
    <3>2. \A c, e \in comments' : c.ticket = e.ticket /\ c.key = e.key => c = e
      BY <2>1, <3>1 DEF SupportInv, Support!OneTicketPerKey
    <3> QED BY <1>1, <3>2 DEF SupportInv, Support!OneTicketPerKey, Support!Known
  <2>4. Support!UserIsTold'
    <3>1. \A c \in comments' : c.by = "ADMIN" => <<c.ticket, c.key>> \in told'
      BY <2>1, <2>2 DEF SupportInv, Support!UserIsTold
    <3> QED BY <1>1, <2>1, <3>1 DEF SupportInv, Support!UserIsTold, Support!Known
  <2> QED BY <1>1, <2>3, <2>4 DEF SupportInv, SupportTypes, HistoriesEnd, Support!Known
<1> QED BY <1>2, <1>3

LEMMA SupportStep ==
  ASSUME SupportInv, [Support!Next]_(Support!supportVars)
  PROVE  SupportInv' /\ \A t \in Support!Ids : ticket[t].status = "RESOLVED" =>
           ticket'[t] = ticket[t]
<1> DEFINE Stays == \A t \in Support!Ids : ticket[t].status = "RESOLVED" => ticket'[t] = ticket[t]
<1>1. CASE UNCHANGED <<ticket, comments, told, supporting>>
  BY <1>1, TicketsKeep DEF SupportInv, SupportTypes
<1>2. ASSUME NEW p \in Processes, NEW key \in Keys, NEW r \in Topics, Support!CheckTicket(p, key, r)
      PROVE  SupportInv' /\ Stays
  BY <1>2, TicketsKeep DEF Support!CheckTicket, SupportInv, SupportTypes, Pending
<1>3. ASSUME NEW p \in Processes, Support!createTicket(p) PROVE SupportInv' /\ Stays
  BY <1>3, CreateKeeps DEF Support!Known
<1>4. ASSUME NEW p \in Processes, NEW t \in Support!Ids, NEW key \in CKeys,
             NEW by \in {"USER", "ADMIN"},
             Support!CheckComment(p, t, key, by)
      PROVE  SupportInv' /\ Stays
  BY <1>4, TicketsKeep DEF Support!CheckComment, SupportInv, SupportTypes, Pending
<1>5. ASSUME NEW p \in Processes, Support!addComment(p) PROVE SupportInv' /\ Stays
  BY <1>5, CommentKeeps
<1>6. ASSUME NEW a \in Admins, NEW t \in Support!Ids, NEW to \in {"IN_PROGRESS", "RESOLVED"},
             Support!updateStatus(a, t, to)
      PROVE  SupportInv' /\ Stays
  BY <1>6, UpdateStatusKeeps
<1> QED BY <1>1, <1>2, <1>3, <1>4, <1>5, <1>6 DEF Support!Next, Support!supportVars,
Support!TakePart

-----------------------------------------------------------------------------
(* Ratings.                                                                *)

TaskTypes ==
  task \in [Rated!Pairs -> [status : {"NONE", "PENDING", "COMPLETED"}, rating : Stars \cup {0},
                      skipped : BOOLEAN]]

LEMMA RatingsInitInv ==
  ASSUME Rated!Init PROVE TaskTypes
BY DEF Rated!Init, TaskTypes

LEMMA RatingsStep ==
  ASSUME TaskTypes, [Rated!Next]_(Rated!ratingVars)
  PROVE  /\ TaskTypes'
         /\ \A k \in Rated!Pairs : task[k].status = "COMPLETED" => task'[k] = task[k]
<1> DEFINE Row == [status : {"NONE", "PENDING", "COMPLETED"}, rating : Stars \cup {0},
                   skipped : BOOLEAN]
<1>t. task \in [Rated!Pairs -> Row]
  BY DEF TaskTypes
<1>1. ASSUME NEW r \in RatedRides, Rated!createRatingTasks(r)
      PROVE  /\ task' \in [Rated!Pairs -> Row]
             /\ \A k \in Rated!Pairs : task[k].status = "COMPLETED" => task'[k] = task[k]
  <2>1. \A k \in Rated!Pairs : task'[k] \in {task[k], [task[k] EXCEPT !.status = "PENDING"]}
    BY <1>1 DEF Rated!createRatingTasks
  <2>2. \A k \in Rated!Pairs : [task[k] EXCEPT !.status = "PENDING"] \in Row
    BY <1>t
  <2>3. \A k \in Rated!Pairs : task'[k] \in Row
    BY <1>t, <2>1, <2>2
  <2>4. task' = [k \in Rated!Pairs |-> task'[k]]
    BY <1>1 DEF Rated!createRatingTasks
  <2>5. \A k \in Rated!Pairs : task[k].status # "NONE" => task'[k] = task[k]
    BY <1>1 DEF Rated!createRatingTasks
  <2> QED BY <2>3, <2>4, <2>5
<1>2. ASSUME NEW k \in Rated!Pairs, Rated!skipRating(k)
      PROVE  /\ task' \in [Rated!Pairs -> Row]
             /\ \A l \in Rated!Pairs : task[l].status = "COMPLETED" => task'[l] = task[l]
  <2>1. [task[k] EXCEPT !.skipped = TRUE] \in Row
    BY <1>t
  <2> QED BY <1>t, <1>2, <2>1 DEF Rated!skipRating
<1>3. ASSUME NEW k \in Rated!Pairs, NEW stars \in Stars, Rated!submitRating(k, stars)
      PROVE  /\ task' \in [Rated!Pairs -> Row]
             /\ \A l \in Rated!Pairs : task[l].status = "COMPLETED" => task'[l] = task[l]
  <2>1. [task[k] EXCEPT !.status = "COMPLETED", !.rating = stars] \in Row
    BY <1>t
  <2>2. task' = [task EXCEPT ![k] = [task[k] EXCEPT !.status = "COMPLETED", !.rating = stars]]
    BY <1>3 DEF Rated!submitRating
  <2>3. task[k].status = "PENDING"
    BY <1>3 DEF Rated!submitRating, Rated!assertTaskPending
  <2> QED BY <1>t, <2>1, <2>2, <2>3
<1>4. CASE UNCHANGED Rated!ratingVars
  BY <1>4, <1>t DEF Rated!ratingVars, TaskTypes
<1>5. CASE Rated!Next
  <2>1. \/ \E r \in RatedRides : Rated!createRatingTasks(r)
        \/ \E k \in Rated!Pairs : Rated!skipRating(k) \/
             \E stars \in Stars : Rated!submitRating(k, stars)
    BY <1>5 DEF Rated!Next, Rated!CompleteAgain, Rated!CompleteRide
  <2> QED BY <1>1, <1>2, <1>3, <2>1 DEF TaskTypes
<1> QED BY <1>4, <1>5

\* Who has rated or was rated has travelled, and a ride that is not over has
\* taken nobody along yet.
TravelledTogether ==
  /\ completed \in [RatedRides -> BOOLEAN]
  /\ booked \in [RatedRides -> SUBSET Travellers] /\ travelled \in [RatedRides -> SUBSET Travellers]
  /\ \A r \in RatedRides : /\ travelled[r] \subseteq booked[r] /\ Driver[r] \notin booked[r]
                           /\ ~completed[r] => travelled[r] = {}
  /\ \A k \in Rated!Pairs : task[k].status = "COMPLETED" =>
       {k.from, k.to} \ {Driver[k.ride]} \subseteq travelled[k.ride]

RatedInv == TaskTypes /\ TravelledTogether

LEMMA RatedInitInv ==
  ASSUME Rated!Init PROVE RatedInv
BY RatingsInitInv DEF Rated!Init, RatedInv, TravelledTogether

LEMMA RatedStep ==
  ASSUME RatedInv, [Rated!Next]_(Rated!ratingVars)
  PROVE  RatedInv' /\ \A k \in Rated!Pairs : task[k].status = "COMPLETED" => task'[k] = task[k]
<1>t. /\ TaskTypes /\ TravelledTogether
      /\ task \in [Rated!Pairs -> [status : {"NONE", "PENDING", "COMPLETED"},
             rating : Stars \cup {0},
                             skipped : BOOLEAN]]
  BY DEF RatedInv, TaskTypes
<1>1. TaskTypes' /\ \A k \in Rated!Pairs : task[k].status = "COMPLETED" => task'[k] = task[k]
  BY <1>t, RatingsStep
<1>2. TravelledTogether'
  <2>1. CASE UNCHANGED Rated!ratingVars
    BY <1>t, <2>1 DEF Rated!ratingVars, TravelledTogether
  <2>2. ASSUME NEW r \in RatedRides, Rated!createRatingTasks(r), NEW k \in Rated!Pairs
        PROVE  task'[k].status = "COMPLETED" => task[k].status = "COMPLETED"
    BY <1>t, <2>2 DEF Rated!createRatingTasks
  <2>3. ASSUME NEW r \in RatedRides, Rated!CompleteAgain(r) PROVE TravelledTogether'
    BY <1>t, <2>2, <2>3 DEF Rated!CompleteAgain, TravelledTogether
  <2>4. ASSUME NEW r \in RatedRides, NEW ps \in SUBSET booked[r], Rated!CompleteRide(r, ps)
        PROVE  TravelledTogether'
    <3>1. /\ ~completed[r] /\ completed' = [completed EXCEPT ![r] = TRUE]
          /\ travelled' = [travelled EXCEPT ![r] = ps]
          /\ booked' = booked
          /\ Rated!createRatingTasks(r)
      BY <2>4 DEF Rated!CompleteRide
    <3>2. travelled[r] = {}
      BY <1>t, <3>1 DEF TravelledTogether
    <3>3. /\ travelled' \in [RatedRides -> SUBSET Travellers]
          /\ \A q \in RatedRides : travelled[q] \subseteq travelled'[q]
      BY <1>t, <2>4, <3>1, <3>2 DEF TravelledTogether
    <3>4. completed' \in [RatedRides -> BOOLEAN] /\ \A q \in RatedRides : ~completed'[q] =>
            q # r /\ ~completed[q]
      BY <1>t, <3>1 DEF TravelledTogether
    <3>5. \A k \in Rated!Pairs : k.ride \in RatedRides
      BY DEF Rated!Pairs
    <3>6. \A q \in RatedRides : /\ travelled'[q] \subseteq booked'[q] /\ Driver[q] \notin booked'[q]
                                /\ ~completed'[q] => travelled'[q] = {}
      BY <1>t, <3>1, <3>3, <3>4 DEF TravelledTogether
    <3> QED BY <1>t, <2>2, <3>1, <3>3, <3>5, <3>6 DEF TravelledTogether
  <2>5. ASSUME NEW k \in Rated!Pairs, Rated!skipRating(k) PROVE TravelledTogether'
    <3>1. /\ UNCHANGED <<completed, booked, travelled>>
          /\ \A l \in Rated!Pairs : task'[l].status = task[l].status
      BY <1>t, <2>5 DEF Rated!skipRating
    <3> QED BY <1>t, <3>1 DEF TravelledTogether
  <2>6. ASSUME NEW k \in Rated!Pairs, NEW stars \in Stars, Rated!submitRating(k, stars)
        PROVE  TravelledTogether'
    <3>1. /\ UNCHANGED <<completed, booked, travelled>>
          /\ \A l \in Rated!Pairs : l # k => task'[l] = task[l]
      BY <1>t, <2>6 DEF Rated!submitRating
    <3>2. {k.from, k.to} \ {Driver[k.ride]} \subseteq travelled[k.ride]
      BY <2>6 DEF Rated!submitRating, Rated!assertTaskParticipants
    <3> QED BY <1>t, <3>1, <3>2 DEF TravelledTogether
  <2> QED BY <2>1, <2>3, <2>4, <2>5, <2>6 DEF Rated!Next
<1> QED BY <1>1, <1>2 DEF RatedInv

-----------------------------------------------------------------------------
\* A factor keeps the order.
LEMMA TimesMore ==
  ASSUME NEW k \in Nat, NEW x \in Int, NEW y \in Int, x <= y PROVE k * x <= k * y
<1>1. k * (y - x) \in Nat
  OBVIOUS
<1>2. k * (y - x) = k * y - k * x /\ k * y \in Int /\ k * x \in Int
  OBVIOUS
<1> QED BY <1>1, <1>2

\* An average is what all are rated in tenths, rounded.
LEMMA AverageBounds ==
  ASSUME NEW s \in Nat, NEW n \in Nat \ {0}, NEW a \in Int, a = (20 * s + n) \div (2 * n)
  PROVE  a \in Nat /\ 2 * (n * a) <= 20 * s + n /\ 20 * s + n < 2 * (n * a) + 2 * n /\ n * a \in Nat
<1> DEFINE t == 20 * s + n
           d == 2 * n
<1>1. t \in Nat /\ d \in Nat \ {0} /\ a = t \div d
  OBVIOUS
<1>2. a \in Nat /\ d * a <= t /\ t < d * a + d
  <2> HIDE DEF t, d
  <2> QED BY <1>1
<1>3. d * a = 2 * (n * a) /\ n * a \in Nat
  BY <1>2
<1> QED BY <1>2, <1>3

\* The average of two parts lies between theirs.
LEMMA AverageBetween ==
  ASSUME NEW s \in Nat, NEW n \in Nat \ {0}, NEW a \in Int, a = (20 * s + n) \div (2 * n),
         NEW t \in Nat, NEW m \in Nat \ {0}, NEW b \in Int, b = (20 * t + m) \div (2 * m),
         NEW c \in Int, c = (20 * (s + t) + (n + m)) \div (2 * (n + m)),
         NEW low \in Int, low <= a, low <= b, NEW high \in Int, a <= high, b <= high
  PROVE  low <= c /\ c <= high
<1>1. a \in Nat /\ 2 * (n * a) <= 20 * s + n /\ 20 * s + n < 2 * (n * a) + 2 * n /\ n * a \in Nat
  BY AverageBounds
<1>2. b \in Nat /\ 2 * (m * b) <= 20 * t + m /\ 20 * t + m < 2 * (m * b) + 2 * m /\ m * b \in Nat
  BY AverageBounds
<1> DEFINE k == n + m
<1>3. k \in Nat \ {0} /\ s + t \in Nat
  OBVIOUS
<1>4. /\ c \in Nat /\ 2 * (k * c) <= 20 * (s + t) + k /\ 20 * (s + t) + k < 2 * (k * c) + 2 * k
      /\ k * c \in Nat
  <2> DEFINE u == s + t
  <2>1. c = (20 * u + k) \div (2 * k) /\ u \in Nat
    OBVIOUS
  <2> HIDE DEF k, u
  <2>2. c \in Nat /\ 2 * (k * c) <= 20 * u + k /\ 20 * u + k < 2 * (k * c) + 2 * k /\ k * c \in Nat
    BY <1>3, <2>1, AverageBounds
  <2> QED BY <2>2 DEF u
<1>5. c <= high
  <2> SUFFICES ASSUME high + 1 <= c PROVE FALSE
    OBVIOUS
  <2>1. k * (high + 1) <= k * c
    <3> HIDE DEF k
    <3> QED BY <1>3, TimesMore
  <2>2. n * a <= n * high /\ m * b <= m * high
    BY TimesMore
  <2>3. k * (high + 1) = n * high + m * high + n + m /\ n * high \in Int /\ m * high \in Int
    OBVIOUS
  <2> DEFINE na == n * a mb == m * b kc == k * c nh == n * high mh == m * high
  <2>4. /\ na \in Nat /\ mb \in Nat /\ kc \in Nat /\ nh \in Int /\ mh \in Int
        /\ 20 * s + n < 2 * na + 2 * n /\ 20 * t + m < 2 * mb + 2 * m
        /\ 2 * kc <= 20 * (s + t) + (n + m) /\ nh + mh + n + m <= kc /\ na <= nh /\ mb <= mh
    BY <1>1, <1>2, <1>4, <2>1, <2>2, <2>3
  <2> HIDE DEF na, mb, kc, nh, mh, k
  <2> QED BY <2>4
<1>6. low <= c
  <2> SUFFICES ASSUME c + 1 <= low PROVE FALSE
    OBVIOUS
  <2>1. k * (c + 1) <= k * low
    <3> HIDE DEF k
    <3> QED BY <1>3, TimesMore
  <2>2. n * low <= n * a /\ m * low <= m * b
    BY TimesMore
  <2>3. /\ k * low = n * low + m * low
        /\ k * (c + 1) = k * c + n + m
        /\ n * low \in Int
        /\ m * low \in Int
    OBVIOUS
  <2> DEFINE na == n * a mb == m * b kc == k * c nl == n * low ml == m * low
  <2>4. /\ na \in Nat /\ mb \in Nat /\ kc \in Nat /\ nl \in Int /\ ml \in Int
        /\ 2 * na <= 20 * s + n /\ 2 * mb <= 20 * t + m
        /\ 20 * (s + t) + (n + m) < 2 * kc + 2 * (n + m)
        /\ kc + n + m <= nl + ml /\ nl <= na /\ ml <= mb
    BY <1>1, <1>2, <1>4, <2>1, <2>2, <2>3
  <2> HIDE DEF na, mb, kc, nl, ml, k
  <2> QED BY <2>4
<1> QED BY <1>5, <1>6

StarsOf(ks) == AmountOf({[task |-> k, amount |-> task[k].rating] : k \in ks})

\* Tasks are finitely many, and so are the stars.
LEMMA StarsAdd ==
  ASSUME RatingParameters, RatedInv, NEW A \in SUBSET Rated!Pairs, NEW B \in SUBSET Rated!Pairs,
         A \cap B = {}
  PROVE  /\ IsFiniteSet(A) /\ Cardinality(A) \in Nat /\ StarsOf(A) \in Nat
         /\ Cardinality(A \cup B) = Cardinality(A) + Cardinality(B)
         /\ StarsOf(A \cup B) = StarsOf(A) + StarsOf(B)
<1> DEFINE row(k) == [task |-> k, amount |-> task[k].rating]
           rows(ks) == {row(k) : k \in ks}
<1>1. IsFiniteSet(Rated!Pairs)
  <2> DEFINE all == (RatedRides \X Travellers) \X Travellers
             f == [z \in all |-> [ride |-> z[1][1], from |-> z[1][2], to |-> z[2]]]
             S == {f[z] : z \in all}
  <2>1. IsFiniteSet(all)
    BY FS_Product DEF RatingParameters
  <2>2. f \in Surjection(all, S)
    BY DEF Surjection
  <2>3. IsFiniteSet(S)
    <3> HIDE DEF all, f, S
    <3> QED BY <2>1, <2>2, FS_Surjection
  <2>4. Rated!Pairs \subseteq S
    <3> SUFFICES ASSUME NEW k \in Rated!Pairs PROVE k \in S
      OBVIOUS
    <3>1. k = [ride |-> k.ride, from |-> k.from, to |-> k.to] /\ k.ride \in RatedRides
          /\ k.from \in Travellers /\ k.to \in Travellers
      BY DEF Rated!Pairs
    <3> DEFINE z == <<<<k.ride, k.from>>, k.to>>
    <3>2. z \in all /\ f[z] = k
      BY <3>1
    <3> QED BY <3>2
  <2> QED BY <2>3, <2>4, FS_Subset
<1>2. ASSUME NEW ks \in SUBSET Rated!Pairs
      PROVE  /\ IsFiniteSet(ks) /\ IsFiniteSet(rows(ks)) /\ Cardinality(ks) \in Nat
             /\ \A x \in rows(ks) : x.amount \in Nat
  <2>1. IsFiniteSet(ks) /\ Cardinality(ks) \in Nat
    BY <1>1, FS_Subset, FS_CardinalityType
  <2> DEFINE f == [k \in ks |-> row(k)]
             S == rows(ks)
  <2>2. f \in Surjection(ks, S)
    BY DEF Surjection
  <2>3. IsFiniteSet(S)
    <3> HIDE DEF f, S
    <3> QED BY <2>1, <2>2, FS_Surjection
  <2>4. \A k \in ks : task[k].rating \in Nat
    <3>1. \A k \in ks : task[k] \in [status : {"NONE", "PENDING", "COMPLETED"},
              rating : Stars \cup {0},
                                     skipped : BOOLEAN]
      BY DEF RatedInv, TaskTypes
    <3>2. ASSUME NEW k \in ks PROVE task[k].rating \in Stars \cup {0}
      BY <3>1
    <3>3. Stars \cup {0} \subseteq Nat
      BY DEF RatingParameters
    <3> QED BY <3>2, <3>3
  <2> QED BY <2>1, <2>3, <2>4
<1>3. rows(A) \cap rows(B) = {} /\ rows(A \cup B) = rows(A) \cup rows(B)
  <2>1. \A x \in rows(A) : x.task \in A
    OBVIOUS
  <2>2. \A x \in rows(B) : x.task \in B
    OBVIOUS
  <2> QED BY <2>1, <2>2
<1>4. StarsOf(A) = AmountOf(rows(A)) /\ StarsOf(B) = AmountOf(rows(B))
      /\ StarsOf(A \cup B) = AmountOf(rows(A \cup B))
  BY DEF StarsOf
<1>5. AmountOf(rows(A) \cup rows(B)) = AmountOf(rows(A)) + AmountOf(rows(B))
  <2>1. /\ IsFiniteSet(rows(A)) /\ IsFiniteSet(rows(B)) /\ rows(A) \cap rows(B) = {}
        /\ (\A x \in rows(A) : x.amount \in Int) /\ \A x \in rows(B) : x.amount \in Int
    <3> HIDE DEF rows
    <3> QED BY <1>2, <1>3
  <2> HIDE DEF rows
  <2> QED BY <2>1, TotalUnion
<1>6. AmountOf(rows(A)) \in Nat
  <2>1. IsFiniteSet(rows(A)) /\ \A x \in rows(A) : x.amount \in Nat
    BY <1>2
  <2> HIDE DEF rows
  <2> QED BY <2>1, TotalNat
<1>7. Cardinality(A \cup B) = Cardinality(A) + Cardinality(B)
  <2>1. Cardinality(A \cup B) = Cardinality(A) + Cardinality(B) - Cardinality(A \cap B)
        /\ Cardinality(A \cap B) = 0
    BY <1>2, FS_Union, FS_EmptySet
  <2>2. Cardinality(A) \in Nat /\ Cardinality(B) \in Nat
    BY <1>2
  <2> QED BY <2>1, <2>2
<1> HIDE DEF rows
<1> QED BY <1>2, <1>3, <1>4, <1>5, <1>6, <1>7

\* The least and the greatest of some numbers are among them.
LEMMA ExtremesOfTwo ==
  ASSUME NEW S, NEW a \in Int, NEW b \in Int, S = {a, b}
  PROVE  /\ Rated!Max(S) \in Int /\ a <= Rated!Max(S) /\ b <= Rated!Max(S)
         /\ Rated!Min(S) \in Int /\ Rated!Min(S) <= a /\ Rated!Min(S) <= b
<1>1. \E x \in S : \A y \in S : x >= y
  BY a <= b \/ b <= a
<1>2. \E x \in S : \A y \in S : x <= y
  BY a <= b \/ b <= a
<1>3. Rated!Max(S) \in S /\ \A y \in S : Rated!Max(S) >= y
  BY <1>1, Zenon DEF Rated!Max
<1>4. Rated!Min(S) \in S /\ \A y \in S : Rated!Min(S) <= y
  BY <1>2, Zenon DEF Rated!Min
<1> HIDE DEF Rated!Max, Rated!Min
<1> QED BY <1>3, <1>4

LEMMA RatedInvAverages ==
  ASSUME RatingParameters, RatedInv PROVE Rated!AveragesAgree
<1> SUFFICES ASSUME NEW u \in Travellers
             PROVE  LET a == Rated!getUserRatingRoleAverages(u)
                        roles == {x \in {a.asDriver, a.asRider} : x.total > 0}
                    IN /\ a.overall.total = a.asDriver.total + a.asRider.total
                       /\ \A k \in Rated!Received(u) : {k.from, k.to} \ {Driver[k.ride]} \subseteq
                            travelled[k.ride]
                       /\ roles # {} =>
                            /\ a.overall.average <= Rated!Max({x.average : x \in roles})
                            /\ a.overall.average >= Rated!Min({x.average : x \in roles})
  BY DEF Rated!AveragesAgree
<1> DEFINE all == Rated!Received(u)
           D == {k \in all : Driver[k.ride] = u}
           R == Rated!AsRider(u)
           n == Cardinality(D)
           m == Cardinality(R)
           s == StarsOf(D)
           t == StarsOf(R)
           a == Rated!toRatingAverage(D)
           b == Rated!toRatingAverage(R)
           c == Rated!toRatingAverage(all)
           roles == {x \in {a, b} : x.total > 0}
<1>1. all \in SUBSET Rated!Pairs /\ \A k \in all : k.to = u /\ k.ride \in RatedRides
        /\ {k.from, k.to} \ {Driver[k.ride]} \subseteq travelled[k.ride]
  BY DEF Rated!Received, Rated!Pairs, RatedInv, TravelledTogether
<1>2. D \cup R = all /\ D \cap R = {}
  BY <1>1 DEF Rated!AsRider, RatedInv, TravelledTogether
<1>3. /\ n \in Nat /\ m \in Nat /\ s \in Nat /\ t \in Nat
      /\ Cardinality(all) = n + m /\ StarsOf(all) = s + t
      /\ IsFiniteSet(D) /\ IsFiniteSet(R)
  <2>1. D \in SUBSET Rated!Pairs /\ R \in SUBSET Rated!Pairs /\ R \cap D = {}
    BY <1>1, <1>2
  <2> HIDE DEF D, R, all
  <2> QED BY <1>2, <2>1, StarsAdd
<1>4. /\ a = [total |-> n, average |-> IF n = 0 THEN 0 ELSE (20 * s + n) \div (2 * n)]
      /\ b = [total |-> m, average |-> IF m = 0 THEN 0 ELSE (20 * t + m) \div (2 * m)]
      /\ c = [total |-> n + m, average |-> IF n + m = 0 THEN 0
                                           ELSE (20 * (s + t) + (n + m)) \div (2 * (n + m))]
  BY <1>3, CountsAgree DEF Rated!toRatingAverage, StarsOf
<1> HIDE DEF all, D, R, n, m, s, t, a, b, c
<1>5. /\ a.total = n /\ b.total = m /\ c.total = n + m
      /\ n # 0 => a.average = (20 * s + n) \div (2 * n)
      /\ m # 0 => b.average = (20 * t + m) \div (2 * m)
      /\ n + m # 0 => c.average = (20 * (s + t) + (n + m)) \div (2 * (n + m))
  BY <1>4
<1>6. /\ n # 0 => a.average \in Nat
      /\ m # 0 => b.average \in Nat
      /\ n + m # 0 => c.average \in Nat
  <2>1. n # 0 => (20 * s + n) \div (2 * n) \in Nat
    BY <1>3, AverageBounds
  <2>2. m # 0 => (20 * t + m) \div (2 * m) \in Nat
    BY <1>3, AverageBounds
  <2>3. n + m # 0 => (20 * (s + t) + (n + m)) \div (2 * (n + m)) \in Nat
    <3> DEFINE k == n + m  v == s + t
    <3>1. k \in Nat /\ v \in Nat
      BY <1>3
    <3> HIDE DEF k, v
    <3>2. k # 0 => (20 * v + k) \div (2 * k) \in Nat
      BY <3>1, AverageBounds
    <3> QED BY <3>2 DEF k, v
  <2> QED BY <1>5, <2>1, <2>2, <2>3
<1>7. n = 0 => s = 0
  BY <1>3, FS_EmptySet, TotalNone DEF n, s, StarsOf
<1>8. m = 0 => t = 0
  BY <1>3, FS_EmptySet, TotalNone DEF m, t, StarsOf
<1>9. roles # {} =>
        /\ c.average <= Rated!Max({x.average : x \in roles})
        /\ c.average >= Rated!Min({x.average : x \in roles})
  <2> DEFINE S == {x.average : x \in roles}
  <2>1. CASE n # 0 /\ m # 0
    <3>1. S = {a.average, b.average}
      BY <1>3, <1>5, <2>1
    <3> HIDE DEF S
    <3>2. /\ Rated!Max(S) \in Int /\ a.average <= Rated!Max(S) /\ b.average <= Rated!Max(S)
          /\ Rated!Min(S) \in Int /\ Rated!Min(S) <= a.average /\ Rated!Min(S) <= b.average
      <4>1. a.average \in Int /\ b.average \in Int
        BY <1>6, <2>1
      <4> DEFINE x == a.average
                 y == b.average
      <4>2. x \in Int /\ y \in Int /\ S = {x, y}
        BY <3>1, <4>1
      <4> HIDE DEF x, y
      <4>3. /\ Rated!Max(S) \in Int /\ x <= Rated!Max(S) /\ y <= Rated!Max(S)
            /\ Rated!Min(S) \in Int /\ Rated!Min(S) <= x /\ Rated!Min(S) <= y
        BY <4>2, ExtremesOfTwo
      <4> QED BY <4>3 DEF x, y
    <3> DEFINE low == Rated!Min(S)
               high == Rated!Max(S)
    <3> HIDE DEF low, high
    <3>3. /\ low \in Int /\ high \in Int /\ a.average <= high /\ b.average <= high
          /\ low <= a.average /\ low <= b.average
      BY <3>2 DEF low, high
    <3>4. n + m # 0
      BY <1>3, <2>1
    <3>5. low <= c.average /\ c.average <= high
      BY <1>3, <1>5, <1>6, <2>1, <3>3, <3>4, AverageBetween
    <3> QED BY <1>6, <3>3, <3>4, <3>5 DEF low, high, S
  <2>2. CASE n = 0 /\ m # 0
    <3>1. S = {b.average, b.average}
      BY <1>3, <1>5, <2>2
    <3>2. c.average = b.average
      <4>1. n + m = m /\ s + t = t
        BY <1>3, <1>7, <2>2
      <4> QED BY <1>5, <2>2, <4>1
    <3> HIDE DEF S
    <3>3. /\ b.average <= Rated!Max(S)
          /\ Rated!Min(S) <= b.average
          /\ Rated!Max(S) \in Int
          /\ Rated!Min(S) \in Int
      <4> DEFINE x == b.average
      <4>1. x \in Int /\ S = {x, x}
        BY <1>6, <2>2, <3>1
      <4> HIDE DEF x
      <4>2. x <= Rated!Max(S) /\ Rated!Min(S) <= x /\ Rated!Max(S) \in Int /\ Rated!Min(S) \in Int
        BY <4>1, ExtremesOfTwo
      <4> QED BY <4>2 DEF x
    <3> HIDE DEF Rated!Max, Rated!Min
    <3> QED BY <1>6, <2>2, <3>2, <3>3 DEF S
  <2>3. CASE n # 0 /\ m = 0
    <3>1. S = {a.average, a.average}
      BY <1>3, <1>5, <2>3
    <3>2. c.average = a.average
      <4>1. n + m = n /\ s + t = s
        BY <1>3, <1>8, <2>3
      <4> QED BY <1>5, <2>3, <4>1
    <3> HIDE DEF S
    <3>3. /\ a.average <= Rated!Max(S)
          /\ Rated!Min(S) <= a.average
          /\ Rated!Max(S) \in Int
          /\ Rated!Min(S) \in Int
      <4> DEFINE x == a.average
      <4>1. x \in Int /\ S = {x, x}
        BY <1>6, <2>3, <3>1
      <4> HIDE DEF x
      <4>2. x <= Rated!Max(S) /\ Rated!Min(S) <= x /\ Rated!Max(S) \in Int /\ Rated!Min(S) \in Int
        BY <4>1, ExtremesOfTwo
      <4> QED BY <4>2 DEF x
    <3> HIDE DEF Rated!Max, Rated!Min
    <3> QED BY <1>6, <2>3, <3>2, <3>3 DEF S
  <2>4. CASE n = 0 /\ m = 0
    <3>1. roles = {}
      BY <1>5, <2>4
    <3> QED BY <3>1
  <2> QED BY <2>1, <2>2, <2>3, <2>4
<1>10. /\ Rated!getUserRatingRoleAverages(u).overall = c
       /\ Rated!getUserRatingRoleAverages(u).asDriver = a
       /\ Rated!getUserRatingRoleAverages(u).asRider = b
  BY DEF Rated!getUserRatingRoleAverages, a, b, c, D, R, all
<1> HIDE DEF roles, Rated!Max, Rated!Min
<1> QED BY <1>1, <1>5, <1>9, <1>10 DEF all, roles

-----------------------------------------------------------------------------
(* Emails.                                                                 *)

Purposes == {Codes!Change, Codes!Corporate, Codes!Personal}
Addresses == Emails \cup {OwnEmail, "none"}
Record ==
  [status : {"NOT_VERIFIED", "OTP_PENDING", "VERIFIED"}, email : Addresses, pending : Addresses]
StoredCode ==
  [purpose : Purposes \cup {"none"}, email : Addresses,
   state : {"none", "active", "invalid", "verified"}, attempts : Nat, recent : BOOLEAN]
CodeWork ==
  [does : Purposes \cup {"nothing", "mail", "mailCorporate", "verify"}, email : Addresses,
   read : Record, ids : SUBSET Codes!Ids]

CodeTypes ==
  /\ holder \in [email : Addresses, verified : BOOLEAN]
  /\ corporate \in Record
  /\ code \in [Codes!Ids -> StoredCode]
  /\ coding \in [CodeProcesses -> CodeWork]

StoredInOrder == \E k \in 0..MaxCodes : Codes!Stored = 1..k

ProvenEmails(purposes) ==
  {code[n].email : n \in
     {m \in Codes!Stored : code[m].purpose \in purposes /\ code[m].state = "verified"}}

\* A corporate record that was read proves as much as the record itself.
ReadIsProven ==
  \A p \in CodeProcesses : coding[p].read.email # "none" =>
    coding[p].read.email \in ProvenEmails({Codes!Corporate})

UserIsProven == holder.verified => holder.email \in ProvenEmails({Codes!Personal, Codes!Change})

\* Nobody else has the user's email.
EmailIsOwn == holder.email \notin taken

RecordIsProven == corporate.email # "none" => corporate.email \in ProvenEmails({Codes!Corporate})

CodesInv ==
  /\ CodeTypes /\ StoredInOrder /\ Codes!OneActiveCode
  /\ ReadIsProven /\ UserIsProven /\ RecordIsProven /\ EmailIsOwn

LEMMA CodesInitInv ==
  ASSUME CodesParameters, Codes!Init PROVE CodesInv
<1>1. Codes!Stored = {}
  BY DEF Codes!Init, Codes!Stored, Codes!NoCode
<1>2. CodeTypes
  BY DEF Codes!Init, CodeTypes, Codes!NoCode, Codes!NoRecord, Codes!Idle, Record, StoredCode,
     CodeWork, Addresses
<1>3. StoredInOrder
  BY <1>1 DEF StoredInOrder, CodesParameters
<1> QED BY <1>1, <1>2, <1>3 DEF Codes!Init, CodesInv, Codes!OneActiveCode, ReadIsProven,
             UserIsProven, RecordIsProven, EmailIsOwn, Codes!NoRecord, Codes!Idle

LEMMA CodesInvProven == CodesInv => Codes!OneActiveCode /\ Codes!EmailsAreProven
BY DEF CodesInv, UserIsProven, RecordIsProven, EmailIsOwn, Codes!EmailsAreProven, ProvenEmails

\* Codes that are stored: none is forgotten, none is put back, and what proved
\* an email goes on to prove it.
CodesMove ==
  /\ code' \in [Codes!Ids -> StoredCode]
  /\ StoredInOrder' /\ Codes!OneActiveCode'
  /\ \A purposes : ProvenEmails(purposes) \subseteq ProvenEmails(purposes)'

\* A step of codes that are stored already.
LEMMA StoredMove ==
  ASSUME CodesInv, code' \in [Codes!Ids -> StoredCode],
         \A n \in Codes!Ids : /\ code'[n].purpose = code[n].purpose /\
                                   code'[n].email = code[n].email
                              /\ \/ code'[n].state = code[n].state
                                 \/ code[n].state = "active" /\
                                      code'[n].state \in {"invalid", "verified"}
                              /\ \/ code'[n].attempts = code[n].attempts
                                 \/ code'[n].attempts <= MaxTries
  PROVE  CodesMove
<1>1. Codes!Stored' = Codes!Stored /\ Codes!Stored \subseteq Codes!Ids
  BY DEF Codes!Stored
<1>2. StoredInOrder'
  BY <1>1 DEF CodesInv, StoredInOrder
<1>3. Codes!OneActiveCode'
  <2>1. \A n \in Codes!Stored : code'[n].state = "active" => code[n].state = "active"
    BY <1>1
  <2>2. \A m, n \in Codes!Stored : {code[m].state, code[n].state} = {"active"}
                             <=> code[m].state = "active" /\ code[n].state = "active"
    OBVIOUS
  <2>3. \A m, n \in Codes!Stored : {code'[m].state, code'[n].state} = {"active"}
                             <=> code'[m].state = "active" /\ code'[n].state = "active"
    OBVIOUS
  <2>4. \A m, n \in Codes!Stored : /\ code'[m].state = "active" /\ code'[n].state = "active"
                                   /\ code'[m].purpose = code'[n].purpose
                                   /\ code'[m].purpose = Codes!Personal =>
                                        code'[m].email = code'[n].email
                                   => m = n
    BY <1>1, <2>1, <2>2 DEF CodesInv, Codes!OneActiveCode
  <2>5. \A n \in Codes!Stored : code'[n].attempts <= MaxTries
    BY <1>1 DEF CodesInv, Codes!OneActiveCode
  <2>6. ASSUME NEW m \in Codes!Stored', NEW n \in Codes!Stored',
               {code'[m].state, code'[n].state} = {"active"},
               code'[m].purpose = code'[n].purpose,
               code'[m].purpose = Codes!Personal => code'[m].email = code'[n].email
        PROVE  m = n
    <3>1. code'[m].state = "active" /\ code'[n].state = "active"
      BY <2>6
    <3> QED BY <1>1, <2>4, <2>6, <3>1
  <2>7. \A n \in Codes!Stored' : code'[n].attempts <= MaxTries
    BY <1>1, <2>5
  <2> QED BY <2>6, <2>7 DEF Codes!OneActiveCode
<1>4. \A purposes : ProvenEmails(purposes) \subseteq ProvenEmails(purposes)'
  <2> SUFFICES ASSUME NEW purposes, NEW m \in Codes!Stored,
                      code[m].purpose \in purposes, code[m].state = "verified"
               PROVE  code[m].email \in ProvenEmails(purposes)'
    BY DEF ProvenEmails
  <2>1. /\ m \in Codes!Stored' /\ code'[m].purpose \in purposes /\ code'[m].state = "verified"
        /\ code'[m].email = code[m].email
    BY <1>1
  <2> QED BY <2>1 DEF ProvenEmails
<1> QED BY <1>2, <1>3, <1>4 DEF CodesMove

LEMMA InvalidatedTyped ==
  ASSUME CodesInv, NEW ns
  PROVE  /\ Codes!Invalidated(ns) \in [Codes!Ids -> StoredCode]
         /\ \A n \in Codes!Ids :
              /\ Codes!Invalidated(ns)[n].purpose = code[n].purpose
              /\ Codes!Invalidated(ns)[n].email = code[n].email
              /\ Codes!Invalidated(ns)[n].attempts = code[n].attempts
              /\ Codes!Invalidated(ns)[n].state =
                   IF n \in ns /\ code[n].state = "active" THEN "invalid" ELSE code[n].state
BY DEF CodesInv, CodeTypes, Codes!Invalidated, StoredCode

\* The new code is the only active one of its kind.
LEMMA StoreMoves ==
  ASSUME CodesParameters, CodesInv, NEW p \in CodeProcesses, Codes!sendOtpForPurpose(p)
  PROVE  CodesMove /\ Cardinality(Codes!Stored) + 1 \in Codes!Ids
<1> DEFINE w == coding[p]
           ns == Codes!Superseded(w.does, w.email)
           k == Cardinality(Codes!Stored)
           old == Codes!Invalidated(ns)
           new == [purpose |-> w.does, email |-> w.email, state |-> "active", attempts |-> 0,
                   recent |-> TRUE]
<1>1. k \in Nat /\ k < MaxCodes /\ Codes!Stored = 1..k
  <2>1. PICK i \in 0..MaxCodes : Codes!Stored = 1..i
    BY DEF CodesInv, StoredInOrder
  <2>2. Cardinality(1..i) = i
    BY <2>1, FS_Interval DEF CodesParameters
  <2> QED BY <2>1, <2>2, CountsAgree DEF Codes!sendOtpForPurpose, CodesParameters
<1>2. k + 1 \in Codes!Ids /\ k + 1 \notin Codes!Stored
  BY <1>1 DEF Codes!Ids, CodesParameters
<1>3. w \in CodeWork /\ new \in StoredCode /\ new.state = "active" /\ new.purpose = w.does
      /\ new.email = w.email /\ new.attempts = 0
  <2>1. w \in CodeWork
    BY DEF CodesInv, CodeTypes
  <2>2. w.does \in Purposes
    BY DEF Codes!sendOtpForPurpose, Purposes
  <2> QED BY <2>1, <2>2 DEF CodeWork, StoredCode
<1>4. code' = [old EXCEPT ![k + 1] = new]
  BY CountsAgree DEF Codes!sendOtpForPurpose, Codes!WithNew
<1> HIDE DEF new, k, ns
<1>5. /\ code' \in [Codes!Ids -> StoredCode] /\ code'[k + 1] = new
      /\ \A n \in Codes!Ids : n # k + 1 => code'[n] = old[n]
  BY <1>2, <1>3, <1>4, InvalidatedTyped
<1>6. Codes!Stored' = Codes!Stored \cup {k + 1} /\ Codes!Stored \subseteq Codes!Ids
  BY <1>2, <1>3, <1>5, InvalidatedTyped DEF Codes!Stored
<1>7. StoredInOrder'
  <2>1. Codes!Stored' = 1..(k + 1) /\ k + 1 \in 0..MaxCodes
    BY <1>1, <1>6 DEF CodesParameters
  <2> QED BY <2>1 DEF StoredInOrder
<1>8. \A n \in Codes!Stored : /\ n \in Codes!Ids /\ n # k + 1 /\ code'[n] = old[n]
                              /\ code'[n].purpose = code[n].purpose
                              /\ code'[n].email = code[n].email
                              /\ code'[n].attempts = code[n].attempts
                              /\ code'[n].state = IF n \in ns /\ code[n].state = "active"
                                                  THEN "invalid" ELSE code[n].state
  BY <1>2, <1>5, <1>6, InvalidatedTyped
<1>9. Codes!OneActiveCode'
  <2>1. ASSUME NEW n \in Codes!Stored, code'[n].state = "active", code'[n].purpose = new.purpose,
               new.purpose = Codes!Personal => code'[n].email = new.email
        PROVE  FALSE
    <3>1. code[n].state = "active" /\ n \notin ns
      BY <1>8, <2>1
    <3>2. code[n].purpose = w.does /\ (w.does = Codes!Personal => code[n].email = w.email)
      BY <1>3, <1>8, <2>1
    <3>3. n \in ns
      BY <3>2 DEF ns, Codes!Superseded
    <3> QED BY <3>1, <3>3
  <2>2. ASSUME NEW m \in Codes!Stored', NEW n \in Codes!Stored',
               {code'[m].state, code'[n].state} = {"active"},
               code'[m].purpose = code'[n].purpose,
               code'[m].purpose = Codes!Personal => code'[m].email = code'[n].email
        PROVE  m = n
    <3>1. code'[m].state = "active" /\ code'[n].state = "active"
      BY <2>2
    <3>2. CASE m \in Codes!Stored /\ n \in Codes!Stored
      <4>1. code[m].state = "active" /\ code[n].state = "active"
        BY <1>8, <3>1, <3>2
      <4>2. {code[m].state, code[n].state} = {"active"}
        BY <4>1
      <4> QED BY <1>8, <2>2, <3>2, <4>2 DEF CodesInv, Codes!OneActiveCode
    <3>3. CASE m \notin Codes!Stored \/ n \notin Codes!Stored
      BY <1>5, <1>6, <2>1, <2>2, <3>1, <3>3
    <3> QED BY <3>2, <3>3
  <2>3. \A n \in Codes!Stored' : code'[n].attempts <= MaxTries
    BY <1>3, <1>5, <1>6, <1>8 DEF CodesInv, Codes!OneActiveCode, CodesParameters
  <2> QED BY <2>2, <2>3 DEF Codes!OneActiveCode
<1>10. \A purposes : ProvenEmails(purposes) \subseteq ProvenEmails(purposes)'
  <2> SUFFICES ASSUME NEW purposes, NEW m \in Codes!Stored,
                      code[m].purpose \in purposes, code[m].state = "verified"
               PROVE  code[m].email \in ProvenEmails(purposes)'
    BY DEF ProvenEmails
  <2>1. /\ m \in Codes!Stored' /\ code'[m].purpose \in purposes /\ code'[m].state = "verified"
        /\ code'[m].email = code[m].email
    BY <1>6, <1>8
  <2> QED BY <2>1 DEF ProvenEmails
<1> QED BY <1>2, <1>5, <1>7, <1>9, <1>10 DEF CodesMove, k

\* Wrong and right codes, expired and mailed ones.
LEMMA EvaluateMoves ==
  ASSUME CodesParameters, CodesInv, NEW purpose, NEW email, NEW right \in BOOLEAN,
         Codes!evaluateOtp(purpose, email, right)
  PROVE  CodesMove /\ (right => email \in ProvenEmails({purpose})')
<1>1. PICK n \in Codes!Active(purpose, email) :
        /\ code[n].attempts < MaxTries
        /\ code' = [code EXCEPT ![n].attempts = @ + 1,
                               ![n].state = IF right THEN "verified" ELSE @]
  BY DEF Codes!evaluateOtp
<1>2. /\ n \in Codes!Ids /\ n \in Codes!Stored /\ code[n].state = "active" /\ code[n] \in StoredCode
      /\ code[n].purpose = purpose /\ code[n].email = email
  BY DEF Codes!Active, Codes!Stored, CodesInv, CodeTypes
<1> DEFINE row == [code[n] EXCEPT !.attempts = code[n].attempts + 1,
                                  !.state = IF right THEN "verified" ELSE code[n].state]
<1>3. code' = [code EXCEPT ![n] = row]
  BY <1>1
<1>4. /\ row \in StoredCode /\ row.purpose = purpose /\ row.email = email
      /\ row.attempts <= MaxTries
      /\ row.state = IF right THEN "verified" ELSE code[n].state
  <2>1. /\ code[n].attempts \in Nat /\ code[n].attempts + 1 \in Nat
        /\ code[n].attempts + 1 <= MaxTries
    BY <1>1, <1>2 DEF StoredCode, CodesParameters
  <2>2. /\ row.attempts = code[n].attempts + 1 /\ row.purpose = code[n].purpose
        /\ row.email = code[n].email /\ row.recent = code[n].recent
        /\ row.state = IF right THEN "verified" ELSE code[n].state
    BY <1>2 DEF StoredCode
  <2>3. row \in StoredCode
    BY <1>2, <2>1 DEF StoredCode
  <2> QED BY <1>2, <2>1, <2>2, <2>3
<1> HIDE DEF row
<1>5. /\ code' \in [Codes!Ids -> StoredCode] /\ code'[n] = row
      /\ \A m \in Codes!Ids : m # n => code'[m] = code[m]
  BY <1>2, <1>3, <1>4 DEF CodesInv, CodeTypes
<1>6. CodesMove
  BY <1>2, <1>4, <1>5, StoredMove
<1>7. right => email \in ProvenEmails({purpose})'
  BY <1>2, <1>4, <1>5 DEF ProvenEmails, Codes!Stored
<1> QED BY <1>6, <1>7

\* What has proved an email before the step does so after it.
LEMMA CodesKeep ==
  ASSUME CodesInv, CodesMove,
         coding' \in [CodeProcesses -> CodeWork],
         \A p \in CodeProcesses : coding'[p].read \in {coding[p].read, Codes!NoRecord, corporate},
         holder' \in [email : Addresses, verified : BOOLEAN],
         holder' = holder \/ holder'.email \in ProvenEmails({Codes!Personal, Codes!Change})',
         holder'.email \notin taken',
         corporate' \in Record,
         \/ corporate'.email \in {"none", corporate.email}
         \/ \E p \in CodeProcesses : corporate'.email = coding[p].read.email
         \/ corporate'.email \in ProvenEmails({Codes!Corporate})'
  PROVE  CodesInv'
<1>1. CodeTypes' /\ StoredInOrder' /\ Codes!OneActiveCode'
  BY DEF CodesInv, CodeTypes, CodesMove
<1>2. /\ ProvenEmails({Codes!Corporate}) \subseteq ProvenEmails({Codes!Corporate})'
      /\ ProvenEmails({Codes!Personal, Codes!Change}) \subseteq
           ProvenEmails({Codes!Personal, Codes!Change})'
  BY DEF CodesMove
<1>3. ReadIsProven'
  <2> SUFFICES ASSUME NEW p \in CodeProcesses, coding'[p].read.email # "none"
               PROVE  coding'[p].read.email \in ProvenEmails({Codes!Corporate})'
    BY DEF ReadIsProven
  <2>1. CASE coding'[p].read = coding[p].read
    BY <1>2, <2>1 DEF CodesInv, ReadIsProven
  <2>2. CASE coding'[p].read = Codes!NoRecord
    BY <2>2 DEF Codes!NoRecord
  <2>3. CASE coding'[p].read = corporate
    BY <1>2, <2>3 DEF CodesInv, RecordIsProven
  <2> QED BY <2>1, <2>2, <2>3
<1>4. UserIsProven' /\ RecordIsProven' /\ EmailIsOwn'
  BY <1>2 DEF CodesInv, UserIsProven, RecordIsProven, ReadIsProven, EmailIsOwn
<1> QED BY <1>1, <1>3, <1>4 DEF CodesInv

LEMMA CodesStep ==
  ASSUME CodesParameters, CodesInv, [Codes!Next]_(Codes!codeVars)
  PROVE  CodesInv'
<1>t. /\ holder \in [email : Addresses, verified : BOOLEAN] /\ corporate \in Record
      /\ code \in [Codes!Ids -> StoredCode] /\ coding \in [CodeProcesses -> CodeWork]
      /\ Codes!Idle \in CodeWork /\ Codes!Idle.read = Codes!NoRecord /\ Emails \subseteq Addresses
      /\ holder.email \notin taken
  BY DEF CodesInv, CodeTypes, EmailIsOwn, Codes!Idle, Codes!NoRecord, CodeWork, Record, Addresses
<1>s. code' = code => CodesMove
  BY <1>t, StoredMove
<1>i. ASSUME NEW p \in CodeProcesses, coding' = [coding EXCEPT ![p] = Codes!Idle]
      PROVE  /\ coding' \in [CodeProcesses -> CodeWork]
             /\ \A q \in CodeProcesses : coding'[q].read \in
                  {coding[q].read, Codes!NoRecord, corporate}
  BY <1>t, <1>i
<1>v. ASSUME NEW ns, code' = Codes!Invalidated(ns) PROVE CodesMove
  BY <1>v, InvalidatedTyped, StoredMove
<1>1. CASE UNCHANGED <<holder, corporate, code, taken, coding>>
  BY <1>1, <1>s, <1>t, CodesKeep
<1>b. ASSUME NEW p \in CodeProcesses, NEW does \in Purposes \cup {"verify"},
             NEW email \in Addresses,
             Codes!Begin(p, does, email), UNCHANGED <<holder, corporate, code, taken>>
      PROVE  CodesInv'
  <2> DEFINE to == [does |-> does, email |-> email, read |-> corporate,
                    ids |-> {}]
  <2>1. coding' = [coding EXCEPT ![p] = to]
    BY <1>b DEF Codes!Begin
  <2>2. to \in CodeWork /\ to.read = corporate
    BY <1>t DEF CodeWork
  <2> HIDE DEF to
  <2>3. /\ coding' \in [CodeProcesses -> CodeWork]
        /\ \A q \in CodeProcesses : coding'[q].read \in {coding[q].read, Codes!NoRecord, corporate}
    BY <1>t, <2>1, <2>2
  <2> QED BY <1>b, <1>s, <1>t, <2>3, CodesKeep
<1>2. ASSUME NEW p \in CodeProcesses, NEW email \in Emails,
             NEW purpose \in {Codes!Personal, Codes!Change, Codes!Corporate},
             Codes!RequestCode(p, purpose, email)
      PROVE  CodesInv'
  BY <1>2, <1>b, <1>t DEF Codes!RequestCode, Purposes
<1>3. ASSUME NEW p \in CodeProcesses, Codes!sendOtpForPurpose(p) PROVE CodesInv'
  <2>3. CodesMove /\ Cardinality(Codes!Stored) + 1 \in Codes!Ids
    BY <1>3, StoreMoves
  <2> DEFINE to == [coding[p] EXCEPT
                      !.does = IF @ = Codes!Corporate THEN "mailCorporate" ELSE "mail",
                      !.ids = {Cardinality(Codes!Stored) + 1}]
  <2>4. coding' = [coding EXCEPT ![p] = to] /\ UNCHANGED <<holder, corporate, taken>>
    BY <1>3, CountsAgree DEF Codes!sendOtpForPurpose
  <2>5. to \in CodeWork /\ to.read = coding[p].read
    BY <1>t, <2>3 DEF CodeWork
  <2> HIDE DEF to
  <2>6. /\ coding' \in [CodeProcesses -> CodeWork]
        /\ \A q \in CodeProcesses : coding'[q].read \in {coding[q].read, Codes!NoRecord, corporate}
    BY <1>t, <2>4, <2>5
  <2> QED BY <1>t, <2>3, <2>4, <2>6, CodesKeep
<1>4. ASSUME NEW p \in CodeProcesses, Codes!Mailed(p) PROVE CodesInv'
  <2>1. /\ coding' = [coding EXCEPT ![p] = Codes!Idle] /\ UNCHANGED <<holder, code, taken>>
        /\ corporate' = corporate \/
             corporate' = [status |-> "OTP_PENDING", pending |-> coding[p].email,
                           email |-> IF coding[p].read.status = "VERIFIED"
                                     THEN coding[p].read.email ELSE "none"]
    BY <1>4 DEF Codes!Mailed
  <2>2. /\ corporate' \in Record
        /\ corporate'.email \in {"none", corporate.email, coding[p].read.email}
    BY <1>t, <2>1 DEF Record, CodeWork, Addresses
  <2> QED BY <1>i, <1>s, <1>t, <2>1, <2>2, CodesKeep
<1>5. ASSUME NEW p \in CodeProcesses, Codes!MailFails(p) PROVE CodesInv'
  BY <1>5, <1>i, <1>t, <1>v, CodesKeep DEF Codes!MailFails
<1>6. ASSUME NEW p \in CodeProcesses, Codes!ReadEmail(p) PROVE CodesInv'
  BY <1>6, <1>b, <1>t DEF Codes!ReadEmail
<1>7. ASSUME NEW p \in CodeProcesses, Codes!verifyCode(p) PROVE CodesInv'
  <2>1. /\ CodesMove /\ coding[p].email \in ProvenEmails({Codes!Personal})'
        /\ holder' = [email |-> coding[p].email, verified |-> TRUE] /\ coding[p].email \notin taken
        /\ coding' = [coding EXCEPT ![p] = Codes!Idle] /\ UNCHANGED <<corporate, taken>>
    BY <1>7, EvaluateMoves DEF Codes!verifyCode
  <2>2. holder' \in [email : Addresses, verified : BOOLEAN]
    BY <1>t, <2>1 DEF CodeWork
  <2>3. holder'.email \in ProvenEmails({Codes!Personal, Codes!Change})'
    BY <2>1 DEF ProvenEmails
  <2> QED BY <1>i, <1>t, <2>1, <2>2, <2>3, CodesKeep
<1>8. ASSUME NEW email \in Emails, Codes!verifyEmailChange(email) PROVE CodesInv'
  <2>1. /\ CodesMove /\ email \in ProvenEmails({Codes!Change})'
        /\ holder' = [email |-> email, verified |-> TRUE] /\ email \notin taken
        /\ UNCHANGED <<corporate, taken, coding>>
    BY <1>8, EvaluateMoves DEF Codes!verifyEmailChange
  <2>2. holder'.email \in ProvenEmails({Codes!Personal, Codes!Change})'
    BY <2>1 DEF ProvenEmails
  <2> QED BY <1>t, <2>1, <2>2, CodesKeep
<1>9. ASSUME NEW email \in Emails, Codes!verifyCorporate(email) PROVE CodesInv'
  <2>1. /\ CodesMove /\ email \in ProvenEmails({Codes!Corporate})'
        /\ corporate' = [status |-> "VERIFIED", email |-> email, pending |-> "none"]
        /\ UNCHANGED <<holder, taken, coding>>
    BY <1>9, EvaluateMoves DEF Codes!verifyCorporate
  <2>2. corporate' \in Record
    BY <1>t, <2>1 DEF Record, Addresses
  <2> QED BY <1>t, <2>1, <2>2, CodesKeep
<1>10. ASSUME NEW email, NEW purpose, Codes!Wrong(purpose, email) PROVE CodesInv'
  <2>1. CodesMove /\ UNCHANGED <<holder, corporate, taken, coding>>
    BY <1>10, EvaluateMoves DEF Codes!Wrong
  <2> QED BY <1>t, <2>1, CodesKeep
<1>11. ASSUME NEW n \in Codes!Ids, Codes!Expire(n) \/ Codes!Minute(n) PROVE CodesInv'
  <2>1. /\ \/ code[n].state = "active" /\ code' = [code EXCEPT ![n].state = "invalid"]
           \/ code' = [code EXCEPT ![n].recent = FALSE]
        /\ UNCHANGED <<holder, corporate, taken, coding>>
    BY <1>11 DEF Codes!Expire, Codes!Minute
  <2>2. code[n] \in StoredCode
    BY <1>t
  <2>3. CodesMove
    <3>1. code' \in [Codes!Ids -> StoredCode]
      <4>1. /\ [code[n] EXCEPT !.state = "invalid"] \in StoredCode
            /\ [code[n] EXCEPT !.recent = FALSE] \in StoredCode
        BY <2>2 DEF StoredCode
      <4> QED BY <1>t, <2>1, <4>1
    <3>2. \A m \in Codes!Ids : /\ code'[m].purpose = code[m].purpose /\
                                    code'[m].email = code[m].email
                               /\ \/ code'[m].state = code[m].state
                                  \/ code[m].state = "active" /\
                                       code'[m].state \in {"invalid", "verified"}
                               /\ code'[m].attempts = code[m].attempts
      BY <1>t, <2>1, <2>2 DEF StoredCode
    <3> QED BY <3>1, <3>2, StoredMove
  <2> QED BY <1>t, <2>1, <2>3, CodesKeep
<1>12. ASSUME NEW email \in Emails, Codes!Register(email) PROVE CodesInv'
  <2>1. holder'.email \notin taken' /\ UNCHANGED <<holder, corporate, code, coding>>
    BY <1>12, <1>t DEF Codes!Register
  <2> QED BY <1>s, <1>t, <2>1, CodesKeep
<1>13. ASSUME NEW p \in CodeProcesses, Codes!Stop(p) PROVE CodesInv'
  BY <1>13, <1>i, <1>s, <1>t, CodesKeep DEF Codes!Stop
<1> QED BY <1>1, <1>2, <1>3, <1>4, <1>5, <1>6, <1>7, <1>8, <1>9, <1>10, <1>11, <1>12, <1>13
        DEF Codes!Next, Codes!codeVars

-----------------------------------------------------------------------------
(* Identities.                                                             *)

SessionStatus == {"PENDING", "VERIFIED"} \cup Kyc!Failures
KycWork ==
  [does : {"nothing", "start", "refresh", "redirect", "AUTHENTICATED"} \cup Kyc!Failures,
   s : 0..MaxSessions, read : SessionStatus \cup {"none"}]

\* Sessions are opened one after the other, and nothing is about one that was
\* not opened.
KycTypes ==
  /\ session \in [Kyc!Sessions -> SessionStatus \cup {"none"}]
  /\ provider \in [Kyc!Sessions -> {"none", "PENDING", "AUTHENTICATED"} \cup Kyc!Failures]
  /\ sent \subseteq [s : Kyc!Sessions, status : {"AUTHENTICATED"} \cup Kyc!Failures]
  /\ verifying \in [Processes -> KycWork]

Opened(s) == s \in Kyc!Sessions /\ session[s] # "none"

SessionsInOrder ==
  /\ \E n \in 0..MaxSessions : \A s \in Kyc!Sessions : (session[s] # "none") = (s <= n)
  /\ \A s \in Kyc!Sessions : provider[s] # "none" => Opened(s)
  /\ \A e \in sent : Opened(e.s)
  /\ \A p \in Processes :
       /\ verifying[p].does \notin {"nothing", "start"} => Opened(verifying[p].s)
       /\ verifying[p].does \in {"refresh", "redirect"} => verifying[p].read # "none"

\* Whoever has read that a session is verified may rely on it.
RewardFollows ==
  /\ credits = (IF generic = "CASHFREE" THEN 1 ELSE 0)
  /\ \A s \in Kyc!Sessions : session[s] = "VERIFIED" => generic = "CASHFREE"
  /\ \A p \in Processes : verifying[p].read = "VERIFIED" => generic = "CASHFREE"
  /\ \A e \in processed : e.status = "AUTHENTICATED" => generic = "CASHFREE"

Agreed(s) == s \in Kyc!Sessions /\ Kyc!Authenticated(s)

\* The provider agreed before it said so, and before anything was credited.
RewardIsEarned ==
  /\ \A e \in sent : e.status = "AUTHENTICATED" => Agreed(e.s)
  /\ \A p \in Processes : verifying[p].does = "AUTHENTICATED" => Agreed(verifying[p].s)
  /\ credits > 0 => \E s \in Kyc!Sessions : Agreed(s)

KycInv == KycTypes /\ SessionsInOrder /\ RewardFollows /\ RewardIsEarned

LEMMA KycInitInv ==
  ASSUME MaxSessions \in Nat, Kyc!Init PROVE KycInv
<1>1. KycTypes
  BY DEF Kyc!Init, KycTypes, KycWork, Kyc!Idle
<1>2. SessionsInOrder
  BY DEF Kyc!Init, SessionsInOrder, Kyc!Sessions, Kyc!Idle
<1> QED BY <1>1, <1>2 DEF Kyc!Init, KycInv, RewardFollows, RewardIsEarned, Kyc!Idle

LEMMA KycInvRewards == KycInv => Kyc!RewardedOnce /\ Kyc!SuccessCounts
BY DEF KycInv, RewardFollows, RewardIsEarned, Agreed, Kyc!RewardedOnce, Kyc!SuccessCounts

LEMMA LatestIsSession ==
  ASSUME MaxSessions \in Nat, KycInv
  PROVE  /\ Kyc!Latest \in 0..MaxSessions
         /\ \A s \in Kyc!Sessions : (session[s] # "none") = (s <= Kyc!Latest)
BY DEF KycInv, SessionsInOrder, Kyc!Latest

\* A step that leaves the sessions and what is known of them alone but for one.
LEMMA SessionChanges ==
  ASSUME MaxSessions \in Nat, KycInv, NEW s \in 0..MaxSessions, NEW status \in SessionStatus,
         Opened(s), session' = [session EXCEPT ![s] = status],
         UNCHANGED <<provider, sent>>,
         NEW p \in Processes, verifying' = [verifying EXCEPT ![p] = Kyc!Idle]
  PROVE  KycTypes' /\ SessionsInOrder'
<1>1. /\ session' \in [Kyc!Sessions -> SessionStatus \cup {"none"}]
      /\ \A t \in Kyc!Sessions : (session'[t] # "none") = (session[t] # "none")
  BY DEF KycInv, KycTypes, Opened, SessionStatus, Kyc!Failures
<1>2. verifying' \in [Processes -> KycWork] /\ verifying'[p] = Kyc!Idle
      /\ \A q \in Processes : q # p => verifying'[q] = verifying[q]
  BY DEF KycInv, KycTypes, KycWork, Kyc!Idle
<1>3. KycTypes'
  BY <1>1, <1>2 DEF KycInv, KycTypes
<1>4. \A t : Opened(t)' <=> Opened(t)
  BY <1>1 DEF Opened
<1>5. SessionsInOrder'
  BY <1>1, <1>2, <1>4 DEF KycInv, SessionsInOrder, Kyc!Idle
<1> QED BY <1>3, <1>5

\* One process starts or gives up what touches no session.
LEMMA WorkChanges ==
  ASSUME KycInv, NEW p \in Processes, NEW to \in KycWork,
         to.does \notin {"nothing", "start"} => Opened(to.s),
         to.does \in {"refresh", "redirect"} => to.read # "none",
         to.read = "VERIFIED" => generic = "CASHFREE",
         to.does = "AUTHENTICATED" => Agreed(to.s),
         verifying' = [verifying EXCEPT ![p] = to],
         UNCHANGED <<session, provider, sent, processed, generic, credits>>
  PROVE  KycInv'
<1>1. verifying' \in [Processes -> KycWork] /\ verifying'[p] = to
      /\ \A q \in Processes : q # p => verifying'[q] = verifying[q]
  BY DEF KycInv, KycTypes
<1>2. KycTypes'
  BY <1>1 DEF KycInv, KycTypes
<1>3. SessionsInOrder'
  <2>1. \A t : Opened(t)' <=> Opened(t)
    BY DEF Opened
  <2> QED BY <1>1, <2>1 DEF KycInv, SessionsInOrder
<1>4. RewardFollows'
  BY <1>1 DEF KycInv, RewardFollows
<1>5. RewardIsEarned'
  <2>1. \A t : Agreed(t)' <=> Agreed(t)
    BY DEF Agreed, Kyc!Authenticated
  <2> QED BY <1>1, <2>1 DEF KycInv, RewardIsEarned
<1> QED BY <1>2, <1>3, <1>4, <1>5 DEF KycInv

\* A session is completed, or a copy of it saved, by a process that is done.
LEMMA OutcomeKeeps ==
  ASSUME MaxSessions \in Nat, KycInv, NEW p \in Processes, NEW s \in 0..MaxSessions, Opened(s),
         \/ Kyc!Complete(s) /\ Agreed(s)
         \/ \E status \in SessionStatus :
              Kyc!SaveCopy(s, status) /\ (status = "VERIFIED" => generic = "CASHFREE"),
         verifying' = [verifying EXCEPT ![p] = Kyc!Idle],
         UNCHANGED <<provider, sent>>,
         \A e \in processed' : \/ e \in processed
                               \/ e.status = "AUTHENTICATED" => generic' = "CASHFREE"
  PROVE  KycInv'
<1>1. KycTypes' /\ SessionsInOrder'
  BY SessionChanges DEF Kyc!Complete, Kyc!SaveCopy, SessionStatus
<1>2. /\ generic = "CASHFREE" => generic' = "CASHFREE"
      /\ credits' = (IF generic' = "CASHFREE" THEN 1 ELSE 0)
      /\ session'[s] = "VERIFIED" => generic' = "CASHFREE"
      /\ \A t \in Kyc!Sessions : t # s => session'[t] = session[t]
  BY DEF Kyc!Complete, Kyc!SaveCopy, Kyc!creditReward, KycInv, KycTypes, RewardFollows, Opened
<1>3. \A q \in Processes : verifying'[q] = verifying[q] \/ verifying'[q].read = "none"
  BY DEF KycInv, KycTypes, Kyc!Idle
<1>4. RewardFollows'
  BY <1>2, <1>3 DEF KycInv, RewardFollows
<1>5. RewardIsEarned'
  <2>1. \A t : Agreed(t)' <=> Agreed(t)
    BY DEF Agreed, Kyc!Authenticated
  <2>2. \A q \in Processes : verifying'[q] = verifying[q] \/ verifying'[q].does = "nothing"
    BY DEF KycInv, KycTypes, Kyc!Idle
  <2>3. credits' = credits \/ Agreed(s)
    BY DEF Kyc!SaveCopy
  <2> QED BY <2>1, <2>2, <2>3 DEF KycInv, RewardIsEarned, Agreed
<1> QED BY <1>1, <1>4, <1>5 DEF KycInv

LEMMA KycStep ==
  ASSUME MaxSessions \in Nat, KycInv, [Kyc!Next]_(Kyc!kycVars)
  PROVE  KycInv'
<1>t. /\ session \in [Kyc!Sessions -> SessionStatus \cup {"none"}]
      /\ verifying \in [Processes -> KycWork] /\ Kyc!Idle \in KycWork
      /\ Kyc!Idle.does = "nothing" /\ Kyc!Idle.read = "none"
  BY DEF KycInv, KycTypes, KycWork, Kyc!Idle
<1>1. CASE UNCHANGED <<session, provider, sent, processed, generic, credits, verifying>>
  BY <1>1 DEF KycInv, KycTypes, SessionsInOrder, Opened, RewardFollows, RewardIsEarned, Agreed,
     Kyc!Authenticated
<1>2. ASSUME NEW s \in Kyc!Sessions, Kyc!Conclude(s) PROVE KycInv'
  <2>1. PICK to \in {"AUTHENTICATED"} \cup Kyc!Failures :
          /\ provider[s] # "none" /\ provider' = [provider EXCEPT ![s] = to]
          /\ sent' = sent \cup {[s |-> s, status |-> to]}
    BY <1>2 DEF Kyc!Conclude
  <2>2. UNCHANGED <<session, processed, generic, credits, verifying>>
    BY <1>2 DEF Kyc!Conclude
  <2>3. Opened(s)
    BY <2>1 DEF KycInv, SessionsInOrder
  <2>4. /\ KycTypes'
        /\ \A t \in Kyc!Sessions : provider'[t] # "none" => t = s \/ provider[t] # "none"
    BY <2>1, <2>2 DEF KycInv, KycTypes
  <2>5. SessionsInOrder'
    BY <2>1, <2>2, <2>3, <2>4 DEF KycInv, SessionsInOrder, Opened
  <2>6. RewardIsEarned'
    <3>1. to = "CONSENT_EXPIRED" <=> provider[s] = "AUTHENTICATED"
      BY <1>2, <2>1 DEF Kyc!Conclude, KycInv, KycTypes, Kyc!Failures
    <3>2. provider[s] \in {"AUTHENTICATED", "PENDING"}
      BY <1>2 DEF Kyc!Conclude
    <3>3. \A t \in Kyc!Sessions : provider'[t] = IF t = s THEN to ELSE provider[t]
      BY <2>1 DEF KycInv, KycTypes
    <3>4. \A t : Agreed(t) => Agreed(t)'
      BY <3>1, <3>2, <3>3 DEF Agreed, Kyc!Authenticated
    <3>5. to = "AUTHENTICATED" => Agreed(s)'
      BY <3>3 DEF Agreed, Kyc!Authenticated
    <3> QED BY <2>1, <2>2, <3>4, <3>5 DEF KycInv, RewardIsEarned
  <2> QED BY <2>2, <2>4, <2>5, <2>6 DEF KycInv, RewardFollows
<1>3. CASE Kyc!submitIdentityVerification
  BY <1>3 DEF Kyc!submitIdentityVerification, KycInv, KycTypes, SessionsInOrder, Opened,
     RewardFollows, RewardIsEarned, Agreed, Kyc!Authenticated
<1>4. ASSUME NEW p \in Processes, Kyc!startVerification(p) PROVE KycInv'
  <2> DEFINE to == [does |-> "start", s |-> 0, read |-> "none"]
  <2>1. verifying' = [verifying EXCEPT ![p] = to]
    BY <1>4 DEF Kyc!startVerification, Kyc!Begin
  <2>2. to \in KycWork /\ to.does = "start" /\ to.read = "none"
    BY DEF KycWork
  <2> HIDE DEF to
  <2> QED BY <1>4, <2>1, <2>2, WorkChanges DEF Kyc!startVerification
<1>5. ASSUME NEW p \in Processes, Kyc!SaveSession(p) PROVE KycInv'
  <2> DEFINE s == Kyc!Latest + 1
  <2>1. /\ s \in Kyc!Sessions /\ session[s] = "none"
        /\ \A t \in Kyc!Sessions : (session[t] # "none") = (t <= Kyc!Latest)
        /\ Kyc!Latest \in 0..MaxSessions /\ s \in 0..MaxSessions
    BY <1>5, LatestIsSession DEF Kyc!SaveSession, Kyc!Sessions
  <2>2. /\ session' = [session EXCEPT ![s] = "PENDING"]
        /\ provider' = [provider EXCEPT ![s] = "PENDING"]
        /\ verifying' = [verifying EXCEPT ![p] = Kyc!Idle]
        /\ UNCHANGED <<sent, processed, generic, credits>>
    BY <1>5 DEF Kyc!SaveSession, Kyc!Finish
  <2> HIDE DEF s
  <2>3. KycTypes'
    BY <1>t, <2>1, <2>2 DEF KycInv, KycTypes, SessionStatus
  <2>4. /\ session'[s] = "PENDING" /\ \A t \in Kyc!Sessions : t # s => session'[t] = session[t]
        /\ \A t \in Kyc!Sessions : t # s => provider'[t] = provider[t]
        /\ \A q \in Processes : verifying'[q] = verifying[q] \/ verifying'[q] = Kyc!Idle
    BY <2>1, <2>2 DEF KycInv, KycTypes
  <2>5. \A t : Opened(t) => Opened(t)'
    BY <2>4 DEF Opened
  <2>6. \A t \in Kyc!Sessions : (session'[t] # "none") = (t <= s)
    BY <2>1, <2>4 DEF Kyc!Sessions, s
  <2>7. SessionsInOrder'
    <3>1. \E n \in 0..MaxSessions : \A t \in Kyc!Sessions : (session'[t] # "none") = (t <= n)
      BY <2>1, <2>6
    <3>2. \A t \in Kyc!Sessions : provider'[t] # "none" => Opened(t)'
      BY <2>4, <2>5 DEF KycInv, SessionsInOrder, Opened
    <3> QED BY <1>t, <2>2, <2>4, <2>5, <3>1, <3>2 DEF KycInv, SessionsInOrder
  <2>8. RewardFollows'
    BY <1>t, <2>2, <2>4 DEF KycInv, RewardFollows
  <2>9. RewardIsEarned'
    <3>1. \A t : Agreed(t) => t # s
      BY <2>1 DEF KycInv, SessionsInOrder, Opened, Agreed, Kyc!Authenticated
    <3>2. \A t : Agreed(t) => Agreed(t)'
      BY <2>4, <3>1 DEF Agreed, Kyc!Authenticated
    <3> QED BY <1>t, <2>2, <2>4, <3>2 DEF KycInv, RewardIsEarned
  <2> QED BY <2>3, <2>7, <2>8, <2>9 DEF KycInv
<1>6. ASSUME NEW p \in Processes, Kyc!refreshVerification(p) PROVE KycInv'
  <2>1. Kyc!Latest \in Kyc!Sessions /\ Kyc!Latest \in 0..MaxSessions /\ session[Kyc!Latest] # "none"
    BY <1>6, LatestIsSession DEF Kyc!refreshVerification, Kyc!Sessions, Kyc!Active
  <2>2. CASE session[Kyc!Latest] = "VERIFIED"
    <3>1. generic = "CASHFREE"
      BY <2>1, <2>2 DEF KycInv, RewardFollows
    <3>2. credits' = credits
      BY <1>6, <2>2, <3>1 DEF Kyc!refreshVerification, Kyc!creditReward, KycInv, RewardFollows
    <3> QED BY <1>1, <1>6, <2>2, <3>2 DEF Kyc!refreshVerification
  <2>3. CASE session[Kyc!Latest] # "VERIFIED"
    <3> DEFINE to == [does |-> "refresh", s |-> Kyc!Latest, read |-> session[Kyc!Latest]]
    <3>1. verifying' = [verifying EXCEPT ![p] = to]
      BY <1>6, <2>1, <2>3 DEF Kyc!refreshVerification, Kyc!Begin, Kyc!Sessions
    <3>2. /\ to \in KycWork /\ to.does = "refresh" /\ to.s = Kyc!Latest
          /\ to.read = session[Kyc!Latest]
      BY <1>t, <2>1 DEF KycWork
    <3> HIDE DEF to
    <3> QED BY <1>6, <2>1, <2>3, <3>1, <3>2, WorkChanges DEF Kyc!refreshVerification, Opened
  <2> QED BY <2>2, <2>3
<1>7. ASSUME NEW p \in Processes, Kyc!RefreshAnswered(p) PROVE KycInv'
  <2>1. /\ verifying[p].s \in 0..MaxSessions /\ Opened(verifying[p].s)
        /\ verifying[p].read \in SessionStatus
        /\ verifying[p].read = "VERIFIED" => generic = "CASHFREE"
    BY <1>7, <1>t DEF Kyc!RefreshAnswered, KycInv, SessionsInOrder, KycWork, RewardFollows
  <2>2. \/ Kyc!Complete(verifying[p].s) /\ Agreed(verifying[p].s)
        \/ \E status \in SessionStatus :
             Kyc!SaveCopy(verifying[p].s, status) /\ (status = "VERIFIED" => generic = "CASHFREE")
    BY <1>7, <2>1 DEF Kyc!RefreshAnswered, SessionStatus, Kyc!Failures, Agreed, Opened,
       Kyc!Authenticated
  <2> QED BY <1>7, <2>1, <2>2, OutcomeKeeps DEF Kyc!RefreshAnswered, Kyc!Finish
<1>8. ASSUME NEW p \in Processes, NEW s \in Kyc!Sessions, Kyc!handleRedirectCallback(p, s)
      PROVE  KycInv'
  <2> DEFINE to == [does |-> "redirect", s |-> s, read |-> session[s]]
  <2>0. s # 0
    BY DEF Kyc!Sessions
  <2>1. verifying' = [verifying EXCEPT ![p] = to] /\ session[s] # "none"
    BY <1>8, <2>0 DEF Kyc!handleRedirectCallback, Kyc!Begin
  <2>2. to \in KycWork /\ to.does = "redirect" /\ to.s = s /\ to.read = session[s]
    BY <1>t DEF KycWork, Kyc!Sessions
  <2>3. session[s] = "VERIFIED" => generic = "CASHFREE"
    BY DEF KycInv, RewardFollows
  <2> HIDE DEF to
  <2> QED BY <1>8, <2>1, <2>2, <2>3, WorkChanges DEF Kyc!handleRedirectCallback, Opened
<1>9. ASSUME NEW p \in Processes, Kyc!SaveReference(p) PROVE KycInv'
  <2>1. /\ verifying[p].s \in 0..MaxSessions /\ Opened(verifying[p].s)
        /\ verifying[p].read \in SessionStatus
        /\ verifying[p].read = "VERIFIED" => generic = "CASHFREE"
    BY <1>9, <1>t DEF Kyc!SaveReference, KycInv, SessionsInOrder, KycWork, RewardFollows
  <2> QED BY <1>9, <2>1, OutcomeKeeps DEF Kyc!SaveReference, Kyc!Finish
<1>10. ASSUME NEW p \in Processes, NEW e \in sent, Kyc!processWebhook(p, e) PROVE KycInv'
  <2> DEFINE to == [does |-> e.status, s |-> e.s, read |-> session[e.s]]
  <2>1. /\ e.s \in Kyc!Sessions /\ e.status \in {"AUTHENTICATED"} \cup Kyc!Failures /\ Opened(e.s)
        /\ e.s # 0 /\ e.s \in 0..MaxSessions
    BY DEF KycInv, KycTypes, SessionsInOrder, Kyc!Sessions
  <2>2. verifying' = [verifying EXCEPT ![p] = to]
    BY <1>10, <2>1 DEF Kyc!processWebhook, Kyc!Begin
  <2>3. to \in KycWork /\ to.s = e.s /\ to.read = session[e.s] /\ to.does = e.status
    BY <1>t, <2>1 DEF KycWork
  <2>4. session[e.s] = "VERIFIED" => generic = "CASHFREE"
    BY <2>1 DEF KycInv, RewardFollows
  <2> HIDE DEF to
  <2>5. to.does \notin {"refresh", "redirect"}
    BY <2>1, <2>3 DEF Kyc!Failures
  <2>6. to.does = "AUTHENTICATED" => Agreed(to.s)
    BY <2>3 DEF KycInv, RewardIsEarned
  <2> QED BY <1>10, <2>1, <2>2, <2>3, <2>4, <2>5, <2>6, WorkChanges DEF Kyc!processWebhook
<1>11. ASSUME NEW p \in Processes, Kyc!handleWebhookEvent(p) PROVE KycInv'
  <2> DEFINE s == verifying[p].s
             status == verifying[p].does
  <2>1. /\ s \in 0..MaxSessions /\ Opened(s) /\ status \in {"AUTHENTICATED"} \cup Kyc!Failures
        /\ verifying' = [verifying EXCEPT ![p] = Kyc!Idle] /\ UNCHANGED <<provider, sent>>
        /\ processed' = processed \cup {[s |-> s, status |-> status]}
    BY <1>11, <1>t DEF Kyc!handleWebhookEvent, Kyc!Finish, KycInv, SessionsInOrder, KycWork,
       Kyc!Failures
  <2>2. CASE verifying[p].read = "VERIFIED"
    <3>1. generic = "CASHFREE" /\ UNCHANGED <<session, generic, credits>>
      BY <1>11, <2>2 DEF Kyc!handleWebhookEvent, KycInv, RewardFollows
    <3>2. /\ verifying' \in [Processes -> KycWork]
          /\ \A q \in Processes : verifying'[q] = verifying[q] \/ verifying'[q] = Kyc!Idle
      BY <1>t, <2>1
    <3>3. KycTypes' /\ SessionsInOrder'
      BY <1>t, <2>1, <3>1, <3>2 DEF KycInv, KycTypes, SessionsInOrder, Opened
    <3>4. RewardFollows'
      BY <1>t, <2>1, <3>1, <3>2 DEF KycInv, RewardFollows
    <3>5. RewardIsEarned'
      BY <1>t, <2>1, <3>1, <3>2 DEF KycInv, RewardIsEarned, Agreed, Kyc!Authenticated
    <3> QED BY <3>3, <3>4, <3>5 DEF KycInv
  <2>3. CASE verifying[p].read # "VERIFIED" /\ status = "AUTHENTICATED"
    <3>1. Kyc!Complete(s) /\ Agreed(s)
      BY <1>11, <2>3 DEF Kyc!handleWebhookEvent, KycInv, RewardIsEarned
    <3>2. generic' = "CASHFREE"
      BY <2>1, <3>1 DEF Kyc!Complete, KycInv, RewardFollows, Opened
    <3> QED BY <2>1, <3>1, <3>2, OutcomeKeeps
  <2>4. CASE verifying[p].read # "VERIFIED" /\ status # "AUTHENTICATED"
    <3>1. Kyc!SaveCopy(s, status) /\ status \in SessionStatus /\ status # "VERIFIED"
      BY <1>11, <2>1, <2>4 DEF Kyc!handleWebhookEvent, SessionStatus, Kyc!Failures
    <3>2. \A e \in processed' : e \in processed \/ e.status # "AUTHENTICATED"
      BY <2>1, <2>4
    <3> QED BY <2>1, <3>1, <3>2, OutcomeKeeps
  <2> QED BY <2>2, <2>3, <2>4
<1>12. ASSUME NEW p \in Processes, Kyc!GiveUp(p) PROVE KycInv'
  BY <1>12, <1>t, WorkChanges DEF Kyc!GiveUp, Kyc!Finish
<1> QED BY <1>1, <1>2, <1>3, <1>4, <1>5, <1>6, <1>7, <1>8, <1>9, <1>10, <1>11, <1>12
        DEF Kyc!Next, Kyc!kycVars, Kyc!UrlExpires

-----------------------------------------------------------------------------
(* Signing in.                                                             *)

PhonesOfUsers == Phones \cup {Reviewer}
Mails == {in.email : in \in Inputs} \cup {"none"}
UserRow ==
  [status : {"ACTIVE", "SUSPENDED", "DELETED"}, phone : PhonesOfUsers, form : Signup!Forms,
   email : Mails, code : InviteCodes \cup {"none"}]

SignupRequest ==
  [step : {"none", "refused"}]
  \cup [step : {"find", "create"}, phone : PhonesOfUsers, form : Signup!Forms, register : BOOLEAN,
        email : Mails, code : {in.code : in \in Inputs}]
  \cup [step : {"insert"}, own : InviteCodes, referrers : SUBSET Signup!Accounts,
      phone : PhonesOfUsers,
        form : Signup!Forms, register : BOOLEAN, email : Mails]
  \cup [step : {"login"}, account : Signup!Accounts, copy : UserRow, phone : PhonesOfUsers,
        register : BOOLEAN, email : Mails]
  \cup [step : {"sign", "signed"}, account : Signup!Accounts, phone : PhonesOfUsers,
      register : BOOLEAN]

SignupTypes ==
  /\ user \in [Signup!Accounts -> UserRow \cup {Signup!NoUser}]
  /\ signing \in [SignupRequests -> SignupRequest]
  /\ points \in [Signup!Accounts -> Nat]
  /\ referrals \in SUBSET (Signup!Accounts \X Signup!Accounts) /\ IsFiniteSet(referrals)

\* A request creates its account when it is inserted, names at most one referrer,
\* and goes on with an account of the phone that was proven.
RequestFits(q) ==
  /\ signing[q].step \in {"none", "find", "create", "insert"} => user[q] = Signup!NoUser
  /\ signing[q].step = "insert" =>
       /\ signing[q].referrers \subseteq Signup!Known
       /\ \A a, b \in signing[q].referrers : a = b
  /\ signing[q].step \in {"login", "sign", "signed"} =>
       /\ signing[q].account \in Signup!Known /\ user[signing[q].account].phone = signing[q].phone
       /\ signing[q].register => signing[q].account = q
  /\ signing[q].step = "login" => signing[q].copy.phone = signing[q].phone

CodesDiffer ==
  \A a, b \in Signup!Known : user[a].code = user[b].code /\ user[a].code # "none" => a = b

ReferralsAreKnown == \A r \in referrals : r[1] \in Signup!Known /\ r[2] \in Signup!Known

SignupInv ==
  /\ SignupTypes /\ (\A q \in SignupRequests : RequestFits(q)) /\ CodesDiffer
  /\ ReferralsAreKnown /\ Signup!RewardsMatchReferrals

LEMMA SignupInitInv ==
  ASSUME SignupParameters, Signup!Init PROVE SignupInv
<1>1. Signup!Row(Reviewer, "91", "none", "none") \in UserRow
  BY DEF Signup!Row, UserRow, PhonesOfUsers, Mails, Signup!Forms
<1>2. SignupTypes
  <2>1. user \in [Signup!Accounts -> UserRow \cup {Signup!NoUser}]
    BY <1>1 DEF Signup!Init
  <2>2. signing \in [SignupRequests -> SignupRequest]
    BY DEF Signup!Init, SignupRequest
  <2>3. points \in [Signup!Accounts -> Nat]
    BY DEF Signup!Init
  <2>4. referrals = {} /\ IsFiniteSet(referrals)
    BY FS_EmptySet DEF Signup!Init
  <2> QED BY <2>1, <2>2, <2>3, <2>4 DEF SignupTypes
<1>3. \A q \in SignupRequests : signing[q].step = "none" /\ user[q] = Signup!NoUser
  BY DEF Signup!Init, SignupParameters, Signup!Accounts
<1>4. Signup!Known \subseteq {OldAccount}
  BY DEF Signup!Init, Signup!Known, Signup!NoUser
<1>5. Signup!RewardsMatchReferrals
  <2>1. referrals = {} /\ \A a \in Signup!Accounts : points[a] = 0
    BY DEF Signup!Init
  <2>2. \A a \in Signup!Accounts : {r \in referrals : a \in {r[1], r[2]}} = {}
    BY <2>1
  <2> QED BY <2>1, <2>2, FS_EmptySet, CountsAgree DEF Signup!RewardsMatchReferrals
<1>6. CodesDiffer /\ ReferralsAreKnown
  BY <1>4 DEF CodesDiffer, ReferralsAreKnown, Signup!Init
<1> QED BY <1>2, <1>3, <1>5, <1>6 DEF SignupInv, RequestFits

LEMMA SignupInvSignsIn ==
  ASSUME SignupInv PROVE Signup!SignsInTheCaller
BY DEF SignupInv, RequestFits, Signup!SignsInTheCaller

LEMMA KnownRow ==
  ASSUME SignupTypes
  PROVE  /\ \A a \in Signup!Accounts : a \in Signup!Known <=> user[a] \in UserRow
         /\ \A a \in Signup!Accounts : a \notin Signup!Known <=> user[a] = Signup!NoUser
         /\ Signup!Known \subseteq Signup!Accounts
<1>1. \A a \in Signup!Accounts : user[a] \in UserRow => user[a].status # "NONE"
  BY DEF UserRow
<1>2. Signup!NoUser.status = "NONE"
  BY DEF Signup!NoUser
<1>3. \A a \in Signup!Accounts : user[a] \in UserRow \/ user[a] = Signup!NoUser
  BY DEF SignupTypes
<1> QED BY <1>1, <1>2, <1>3 DEF Signup!Known

\* Users stay users, with their phone.
UsersKeep ==
  /\ user' \in [Signup!Accounts -> UserRow \cup {Signup!NoUser}]
  /\ \A a \in Signup!Known : user'[a] \in UserRow /\ user'[a].phone = user[a].phone

LEMMA KnownGrows ==
  ASSUME SignupInv, UsersKeep PROVE Signup!Known \subseteq Signup!Known'
<1>1. \A a \in Signup!Known : a \in Signup!Accounts /\ user'[a].status # "NONE"
  BY DEF Signup!Known, UsersKeep, UserRow
<1> QED BY <1>1 DEF Signup!Known

LEMMA RequestsStay ==
  ASSUME SignupInv, UsersKeep, NEW q \in SignupRequests, signing'[q] = signing[q],
         user[q] = Signup!NoUser => user'[q] = Signup!NoUser
  PROVE  RequestFits(q)'
<1>1. Signup!Known \subseteq Signup!Known' /\ \A a \in Signup!Known : user'[a].phone = user[a].phone
  BY KnownGrows DEF UsersKeep
<1>2. RequestFits(q)
  BY DEF SignupInv
<1> QED BY <1>1, <1>2 DEF RequestFits

\* A request goes on, and users may change.
LEMMA RequestGoes ==
  ASSUME SignupInv, UsersKeep, CodesDiffer', NEW q \in SignupRequests, NEW r \in SignupRequest,
         signing' = [signing EXCEPT ![q] = r], RequestFits(q)',
         \A p \in SignupRequests \ {q} : user[p] = Signup!NoUser => user'[p] = Signup!NoUser,
         UNCHANGED <<referrals, points>>
  PROVE  SignupInv'
<1>1. /\ signing' \in [SignupRequests -> SignupRequest]
      /\ \A p \in SignupRequests \ {q} : signing'[p] = signing[p]
  BY DEF SignupInv, SignupTypes
<1>2. \A p \in SignupRequests : RequestFits(p)'
  <2> SUFFICES ASSUME NEW p \in SignupRequests, p # q PROVE RequestFits(p)'
    OBVIOUS
  <2> QED BY <1>1, RequestsStay
<1>3. SignupTypes'
  BY <1>1 DEF SignupInv, SignupTypes, UsersKeep
<1>4. ReferralsAreKnown'
  BY KnownGrows DEF SignupInv, ReferralsAreKnown
<1>5. Signup!RewardsMatchReferrals'
  BY DEF SignupInv, Signup!RewardsMatchReferrals
<1> QED BY <1>2, <1>3, <1>4, <1>5 DEF SignupInv

LEMMA UsersSame ==
  ASSUME SignupInv, UNCHANGED user PROVE UsersKeep /\ CodesDiffer' /\ Signup!Known' = Signup!Known
<1>1. Signup!Known' = Signup!Known
  BY DEF Signup!Known
<1>2. UsersKeep
  BY KnownRow DEF UsersKeep, SignupInv, SignupTypes
<1> QED BY <1>1, <1>2 DEF SignupInv, CodesDiffer

\* Only the request moves.
LEMMA RequestAlone ==
  ASSUME SignupInv, NEW q \in SignupRequests, NEW r \in SignupRequest,
         signing' = [signing EXCEPT ![q] = r], RequestFits(q)',
         UNCHANGED <<user, referrals, points>>
  PROVE  SignupInv'
BY UsersSame, RequestGoes

LEMMA RefusedMoves ==
  ASSUME SignupInv, NEW q \in SignupRequests, Signup!Refused(q), UsersKeep, CodesDiffer',
         \A p \in SignupRequests \ {q} : user[p] = Signup!NoUser => user'[p] = Signup!NoUser,
         UNCHANGED <<referrals, points>>
  PROVE  SignupInv'
<1> DEFINE r == [step |-> "refused"]
<1>1. r \in SignupRequest /\ signing' = [signing EXCEPT ![q] = r]
  BY DEF Signup!Refused, Signup!Take, SignupRequest
<1>2. signing'[q].step = "refused"
  BY <1>1 DEF SignupInv, SignupTypes
<1>3. RequestFits(q)'
  BY <1>2 DEF RequestFits
<1> HIDE DEF r
<1> QED BY <1>1, <1>3, RequestGoes

LEMMA MeetMoves ==
  ASSUME SignupInv, NEW q \in SignupRequests, signing[q].step \in {"find", "insert"},
         NEW found \in Signup!ActiveUsersByPhone(signing[q].phone), Signup!MeetUser(q, found),
         UNCHANGED <<user, referrals, points>>
  PROVE  SignupInv'
<1>1. CASE signing[q].register
  BY <1>1, UsersSame, RefusedMoves DEF Signup!MeetUser
<1>2. CASE ~signing[q].register
  <2> DEFINE r == [step |-> "login", account |-> found, copy |-> user[found],
                   phone |-> signing[q].phone, register |-> signing[q].register,
                   email |-> signing[q].email]
  <2>1. signing' = [signing EXCEPT ![q] = r]
    BY <1>2 DEF Signup!MeetUser, Signup!Login
  <2>2. signing[q].phone \in PhonesOfUsers /\ signing[q].register \in BOOLEAN
        /\ signing[q].email \in Mails
    BY DEF SignupInv, SignupTypes, SignupRequest
  <2>3. found \in Signup!Known /\ found \in Signup!Accounts /\ user[found] \in UserRow
        /\ user[found].phone = signing[q].phone
    BY KnownRow DEF SignupInv, Signup!ActiveUsersByPhone, Signup!Present, Signup!Known
  <2>4. r \in SignupRequest
    BY <2>2, <2>3 DEF SignupRequest
  <2>5. signing'[q] = r
    BY <2>1 DEF SignupInv, SignupTypes
  <2>6. RequestFits(q)'
    <3>1. Signup!Known' = Signup!Known
      BY UsersSame
    <3> QED BY <1>2, <2>3, <2>5, <3>1 DEF RequestFits
  <2> HIDE DEF r
  <2> QED BY <2>1, <2>4, <2>6, RequestAlone
<1> QED BY <1>1, <1>2

LEMMA BeginMoves ==
  ASSUME SignupParameters, SignupInv, NEW q \in SignupRequests, NEW phone \in PhonesOfUsers,
         NEW form \in Signup!Forms, NEW in \in Inputs, Signup!Begin(q, phone, form, in),
         UNCHANGED <<user, referrals, points>>
  PROVE  SignupInv'
<1> DEFINE r == [step |-> "find", phone |-> phone, form |-> form, register |-> in.register,
                 email |-> in.email, code |-> in.code]
<1>1. signing' = [signing EXCEPT ![q] = r] /\ signing[q].step = "none"
  BY DEF Signup!Begin, Signup!Take
<1>2. r \in SignupRequest
  <2>1. in.register \in BOOLEAN /\ in.email \in Mails /\ in.code \in {i.code : i \in Inputs}
    BY DEF SignupParameters, Mails
  <2> QED BY <2>1 DEF SignupRequest
<1>3. signing'[q].step = "find"
  BY <1>1 DEF SignupInv, SignupTypes
<1>4. RequestFits(q)'
  BY <1>1, <1>3 DEF RequestFits, SignupInv
<1> HIDE DEF r
<1> QED BY <1>1, <1>2, <1>4, RequestAlone

LEMMA PrepareMoves ==
  ASSUME SignupInv, NEW q \in SignupRequests, NEW given \in InviteCodes, Signup!Prepare(q, given)
  PROVE  SignupInv'
<1> DEFINE referrers == {a \in Signup!Known : signing[q].code # "none" /\
               user[a].code = signing[q].code}
           r == [step |-> "insert", own |-> given, referrers |-> referrers,
                 phone |-> signing[q].phone, form |-> signing[q].form,
                 register |-> signing[q].register, email |-> signing[q].email]
<1>1. /\ Signup!Refused(q) \/ signing' = [signing EXCEPT ![q] = r]
      /\ signing[q].step = "create" /\ UNCHANGED <<user, referrals, points>>
  BY DEF Signup!Prepare, Signup!Take
<1>2. CASE Signup!Refused(q)
  BY <1>1, <1>2, UsersSame, RefusedMoves
<1>3. CASE signing' = [signing EXCEPT ![q] = r]
  <2>1. /\ signing[q].phone \in PhonesOfUsers /\ signing[q].form \in Signup!Forms
        /\ signing[q].register \in BOOLEAN /\ signing[q].email \in Mails
    BY <1>1 DEF SignupInv, SignupTypes, SignupRequest
  <2>2. referrers \subseteq Signup!Known /\ referrers \in SUBSET Signup!Accounts
    BY DEF Signup!Known
  <2>3. \A a, b \in referrers : a = b
    BY DEF SignupInv, CodesDiffer
  <2> HIDE DEF referrers
  <2>4. r \in SignupRequest
    BY <2>1, <2>2 DEF SignupRequest
  <2>5. signing'[q] = r
    BY <1>3 DEF SignupInv, SignupTypes
  <2>6. user[q] = Signup!NoUser
    BY <1>1 DEF SignupInv, RequestFits
  <2>7. RequestFits(q)'
    <3>1. Signup!Known' = Signup!Known
      BY <1>1, UsersSame
    <3> QED BY <1>1, <2>2, <2>3, <2>5, <2>6, <3>1 DEF RequestFits
  <2> HIDE DEF r
  <2> QED BY <1>1, <1>3, <2>4, <2>7, RequestAlone
<1> QED BY <1>1, <1>2, <1>3

\* A new user and her referral, if she names a referrer.
LEMMA CreateMoves ==
  ASSUME SignupParameters, SignupInv, NEW q \in SignupRequests, Signup!CreateUserWithWallet(q)
  PROVE  SignupInv'
<1> DEFINE made == Signup!Row(signing[q].phone, signing[q].form, signing[q].email, signing[q].own)
           refs == signing[q].referrers
           r == [step |-> "login", account |-> q, copy |-> made, phone |-> signing[q].phone,
                 register |-> signing[q].register, email |-> signing[q].email]
<1>1. /\ signing[q].step = "insert" /\ ~Signup!Clash(q, made) /\ user' = [user EXCEPT ![q] = made]
      /\ referrals' = referrals \cup (refs \X {q})
      /\ points' = Signup!ApplyReferralRewards(q, refs)
      /\ signing' = [signing EXCEPT ![q] = r]
  BY DEF Signup!CreateUserWithWallet
<1>2. /\ signing[q].phone \in PhonesOfUsers /\ signing[q].form \in Signup!Forms
      /\ signing[q].register \in BOOLEAN /\ signing[q].email \in Mails
      /\ signing[q].own \in InviteCodes
  BY <1>1 DEF SignupInv, SignupTypes, SignupRequest
<1>3. /\ user[q] = Signup!NoUser /\ q \notin Signup!Known /\ q \in Signup!Accounts
      /\ refs \subseteq Signup!Known /\ q \notin refs /\ \A a, b \in refs : a = b
  <2>1. user[q] = Signup!NoUser /\ q \in Signup!Accounts
    BY <1>1 DEF SignupInv, RequestFits, Signup!Accounts
  <2>2. refs \subseteq Signup!Known /\ \A a, b \in refs : a = b
    BY <1>1 DEF SignupInv, RequestFits
  <2>3. q \notin Signup!Known
    BY <2>1, KnownRow DEF SignupInv
  <2> QED BY <2>1, <2>2, <2>3
<1>4. made \in UserRow /\ made.phone = signing[q].phone /\ made.code = signing[q].own
  BY <1>2 DEF Signup!Row, UserRow
<1>5. r \in SignupRequest
  BY <1>2, <1>3, <1>4 DEF SignupRequest
<1>6. user' \in [Signup!Accounts -> UserRow \cup {Signup!NoUser}] /\ user'[q] = made
      /\ \A a \in Signup!Accounts \ {q} : user'[a] = user[a]
  BY <1>1, <1>3, <1>4 DEF SignupInv, SignupTypes
<1>7. UsersKeep
  BY <1>3, <1>6, KnownRow DEF UsersKeep, SignupInv
<1>8. Signup!Known' = Signup!Known \cup {q}
  <2>1. made.status # "NONE"
    BY DEF Signup!Row
  <2> QED BY <1>3, <1>6, <2>1 DEF Signup!Known
<1>9. CodesDiffer'
  <2>1. \A b \in Signup!Known : made.code # "none" => user[b].code # made.code
    BY <1>1, <1>3 DEF Signup!Clash
  <2> SUFFICES ASSUME NEW a \in Signup!Known', NEW b \in Signup!Known',
                      user'[a].code = user'[b].code, user'[a].code # "none"
               PROVE  a = b
    BY DEF CodesDiffer
  <2>2. CASE a \in Signup!Known /\ b \in Signup!Known
    <3>1. a # q /\ b # q /\ a \in Signup!Accounts /\ b \in Signup!Accounts
      BY <1>3, <2>2 DEF Signup!Known
    <3>2. user'[a] = user[a] /\ user'[b] = user[b]
      BY <1>6, <3>1
    <3> QED BY <2>2, <3>2 DEF SignupInv, CodesDiffer
  <2>3. CASE a = q /\ b \in Signup!Known
    <3>1. b # q /\ b \in Signup!Accounts
      BY <1>3, <2>3 DEF Signup!Known
    <3> QED BY <1>6, <2>1, <2>3, <3>1
  <2>4. CASE a \in Signup!Known /\ b = q
    <3>1. a # q /\ a \in Signup!Accounts
      BY <1>3, <2>4 DEF Signup!Known
    <3> QED BY <1>6, <2>1, <2>4, <3>1
  <2> QED BY <1>8, <2>2, <2>3, <2>4
<1> HIDE DEF made
<1>10. signing' \in [SignupRequests -> SignupRequest] /\ signing'[q] = r
       /\ \A p \in SignupRequests \ {q} : signing'[p] = signing[p]
  BY <1>1, <1>5 DEF SignupInv, SignupTypes
<1>11. \A p \in SignupRequests : RequestFits(p)'
  <2>1. RequestFits(q)'
    BY <1>4, <1>6, <1>8, <1>10 DEF RequestFits
  <2>2. ASSUME NEW p \in SignupRequests, p # q PROVE RequestFits(p)'
    <3>1. p \in Signup!Accounts /\ user'[p] = user[p] /\ signing'[p] = signing[p]
      BY <1>6, <1>10, <2>2 DEF Signup!Accounts
    <3> QED BY <1>7, <3>1, RequestsStay
  <2> QED BY <2>1, <2>2
<1> HIDE DEF r
<1>12. refs = {} \/ \E a \in Signup!Known : refs = {a}
  BY <1>3
<1>13. /\ referrals' \in SUBSET (Signup!Accounts \X Signup!Accounts) /\ IsFiniteSet(referrals')
       /\ points' \in [Signup!Accounts -> Nat]
       /\ ReferralsAreKnown'
       /\ Signup!RewardsMatchReferrals'
  <2>1. CASE refs = {}
    <3>1. referrals' = referrals
      BY <1>1, <2>1
    <3>2. points' = points
      <4>1. \A a \in Signup!Accounts : points[a] \in Nat /\ points'[a] = points[a] + 0
        BY <1>1, <2>1 DEF Signup!ApplyReferralRewards, SignupInv, SignupTypes
      <4>2. points' = [a \in Signup!Accounts |-> points'[a]]
        BY <1>1 DEF Signup!ApplyReferralRewards
      <4> QED BY <4>1, <4>2 DEF SignupInv, SignupTypes
    <3>3. ReferralsAreKnown'
      BY <1>8, <3>1 DEF SignupInv, ReferralsAreKnown
    <3> QED BY <3>1, <3>2, <3>3 DEF SignupInv, SignupTypes, Signup!RewardsMatchReferrals
  <2>2. ASSUME NEW f \in Signup!Known, refs = {f}
        PROVE  /\ referrals' \in SUBSET (Signup!Accounts \X Signup!Accounts) /\
                    IsFiniteSet(referrals')
               /\ points' \in [Signup!Accounts -> Nat]
               /\ ReferralsAreKnown'
               /\ Signup!RewardsMatchReferrals'
    <3> DEFINE n == <<f, q>>
    <3>1. referrals' = referrals \cup {n} /\ f # q /\ f \in Signup!Accounts
      BY <1>1, <1>3, <2>2 DEF Signup!Known
    <3>2. n \notin referrals /\ n[1] = f /\ n[2] = q /\ n \in Signup!Accounts \X Signup!Accounts
      BY <1>3, <3>1 DEF SignupInv, ReferralsAreKnown
    <3> HIDE DEF n
    <3>3. referrals' \in SUBSET (Signup!Accounts \X Signup!Accounts) /\ IsFiniteSet(referrals')
      BY <3>1, <3>2, FS_AddElement DEF SignupInv, SignupTypes
    <3>4. ReferralsAreKnown'
      BY <1>8, <3>1, <3>2 DEF SignupInv, ReferralsAreKnown
    <3>5. \A a \in Signup!Accounts : points'[a] = points[a] + (IF a \in {f, q} THEN 1 ELSE 0)
      BY <1>1, <2>2 DEF Signup!ApplyReferralRewards
    <3>6. points' \in [Signup!Accounts -> Nat]
      <4>1. points' = [a \in Signup!Accounts |-> points'[a]]
        BY <1>1 DEF Signup!ApplyReferralRewards
      <4>2. \A a \in Signup!Accounts : points[a] \in Nat
        BY DEF SignupInv, SignupTypes
      <4>3. \A a \in Signup!Accounts : points'[a] \in Nat
        BY <3>5, <4>2
      <4> QED BY <4>1, <4>3
    <3>7. ASSUME NEW a \in Signup!Accounts
          PROVE  points'[a] = Cardinality({s \in referrals' : a \in {s[1], s[2]}})
      <4> DEFINE old == {s \in referrals : a \in {s[1], s[2]}}
                 now == {s \in referrals' : a \in {s[1], s[2]}}
      <4>1. points[a] = Cardinality(old) /\ Cardinality(old) \in Nat
        BY CountsAgree DEF SignupInv, SignupTypes, Signup!RewardsMatchReferrals
      <4>2. IsFiniteSet(old) /\ n \notin old
        BY <3>2, FS_Subset DEF SignupInv, SignupTypes
      <4>3. CASE a \in {f, q}
        <5>1. now = old \cup {n}
          BY <3>1, <3>2, <4>3
        <5> HIDE DEF old, now
        <5>2. Cardinality(now) = Cardinality(old) + 1
          BY <4>2, <5>1, FS_AddElement
        <5> QED BY <3>5, <4>1, <4>3, <5>2 DEF now
      <4>4. CASE a \notin {f, q}
        <5>1. now = old
          BY <3>1, <3>2, <4>4
        <5>2. points'[a] = points[a] + 0 /\ points[a] \in Nat
          BY <3>5, <4>1, <4>4
        <5> HIDE DEF old, now
        <5>3. points'[a] = Cardinality(now)
          BY <4>1, <5>1, <5>2
        <5> QED BY <5>3 DEF now
      <4> QED BY <4>3, <4>4
    <3>8. \A s, t \in referrals' : s[1] # s[2] /\ (s[2] = t[2] => s = t)
      <4>1. \A s \in referrals : s[2] # q /\ s[1] # s[2]
        BY <1>3 DEF SignupInv, ReferralsAreKnown, Signup!RewardsMatchReferrals
      <4>2. \A s, t \in referrals : s[2] = t[2] => s = t
        BY DEF SignupInv, Signup!RewardsMatchReferrals
      <4> QED BY <3>1, <3>2, <4>1, <4>2
    <3>9. Signup!RewardsMatchReferrals'
      BY <3>7, <3>8, CountsAgree DEF Signup!RewardsMatchReferrals
    <3> QED BY <3>3, <3>4, <3>6, <3>9
  <2> QED BY <1>12, <2>1, <2>2
<1> QED BY <1>6, <1>9, <1>10, <1>11, <1>13 DEF SignupInv, SignupTypes

\* A row of a user that is there already changes.
LEMMA RowMoves ==
  ASSUME SignupInv, NEW a \in Signup!Known, NEW row \in UserRow, row.phone = user[a].phone,
         row.code # "none" => \A b \in Signup!Known \ {a} : user[b].code # row.code,
         user' = [user EXCEPT ![a] = row]
  PROVE  /\ UsersKeep /\ CodesDiffer' /\ Signup!Known' = Signup!Known
         /\ \A p \in Signup!Accounts : user[p] = Signup!NoUser => user'[p] = Signup!NoUser
<1>1. /\ a \in Signup!Accounts
      /\ \A b \in Signup!Accounts : b \in Signup!Known <=> user[b] \in UserRow
      /\ Signup!Known \subseteq Signup!Accounts
      /\ \A b \in Signup!Accounts : b \notin Signup!Known <=> user[b] = Signup!NoUser
  BY KnownRow DEF SignupInv
<1>2. user' \in [Signup!Accounts -> UserRow \cup {Signup!NoUser}] /\ user'[a] = row
      /\ \A b \in Signup!Accounts \ {a} : user'[b] = user[b]
  BY <1>1 DEF SignupInv, SignupTypes
<1>3. UsersKeep
  BY <1>1, <1>2 DEF UsersKeep
<1>4. Signup!Known' = Signup!Known
  <2>1. row.status # "NONE"
    BY DEF UserRow
  <2> QED BY <1>1, <1>2, <2>1 DEF Signup!Known
<1>5. CodesDiffer'
  <2> SUFFICES ASSUME NEW b \in Signup!Known, NEW c \in Signup!Known,
                      user'[b].code = user'[c].code, user'[b].code # "none"
               PROVE  b = c
    BY <1>4 DEF CodesDiffer
  <2>1. CASE b # a /\ c # a
    <3>1. user'[b] = user[b] /\ user'[c] = user[c]
      BY <1>1, <1>2, <2>1
    <3> QED BY <3>1 DEF SignupInv, CodesDiffer
  <2>2. CASE b = a /\ c # a
    BY <1>1, <1>2, <2>2
  <2>3. CASE b # a /\ c = a
    BY <1>1, <1>2, <2>3
  <2> QED BY <2>1, <2>2, <2>3
<1>6. \A p \in Signup!Accounts : user[p] = Signup!NoUser => user'[p] = Signup!NoUser
  BY <1>1, <1>2
<1> QED BY <1>3, <1>4, <1>5, <1>6

LEMMA SaveMoves ==
  ASSUME SignupInv, NEW q \in SignupRequests, Signup!SaveLogin(q) PROVE SignupInv'
<1>1. CASE Signup!Refused(q) /\ UNCHANGED user
  BY <1>1, UsersSame, RefusedMoves DEF Signup!SaveLogin
<1>2. CASE ~(Signup!Refused(q) /\ UNCHANGED user)
  <2> DEFINE a == signing[q].account
             row == Signup!LoggedIn(q)
             r == [step |-> "sign", account |-> a, phone |-> signing[q].phone,
                   register |-> signing[q].register]
  <2>1. /\ signing[q].step = "login" /\ ~Signup!Clash(a, row)
        /\ signing' = [signing EXCEPT ![q] = r] /\ user' = [user EXCEPT ![a] = row]
        /\ UNCHANGED <<referrals, points>>
    BY <1>2 DEF Signup!SaveLogin, Signup!Take
  <2>2. /\ a \in Signup!Accounts
        /\ signing[q].copy \in UserRow
        /\ signing[q].phone \in PhonesOfUsers
        /\ signing[q].register \in BOOLEAN /\ signing[q].email \in Mails
    BY <2>1 DEF SignupInv, SignupTypes, SignupRequest
  <2>3. /\ a \in Signup!Known
        /\ user[a].phone = signing[q].phone
        /\ signing[q].copy.phone = signing[q].phone
        /\ signing[q].register => a = q
    BY <2>1 DEF SignupInv, RequestFits
  <2>4. row \in UserRow /\ row.phone = user[a].phone
    BY <2>2, <2>3 DEF Signup!LoggedIn, UserRow
  <2> HIDE DEF row
  <2>5. row.code # "none" => \A b \in Signup!Known \ {a} : user[b].code # row.code
    BY <2>1 DEF Signup!Clash
  <2>6. /\ UsersKeep /\ CodesDiffer' /\ Signup!Known' = Signup!Known
        /\ \A p \in Signup!Accounts : user[p] = Signup!NoUser => user'[p] = Signup!NoUser
    BY <2>1, <2>3, <2>4, <2>5, RowMoves
  <2>7. r \in SignupRequest
    BY <2>2 DEF SignupRequest
  <2>8. signing'[q] = r /\ user'[a].phone = signing[q].phone
    BY <2>1, <2>3, <2>6 DEF SignupInv, SignupTypes, UsersKeep
  <2>9. RequestFits(q)'
    BY <2>3, <2>6, <2>8 DEF RequestFits
  <2> HIDE DEF r
  <2> QED BY <2>1, <2>6, <2>7, <2>9, RequestGoes DEF Signup!Accounts
<1> QED BY <1>1, <1>2

LEMMA SignMoves ==
  ASSUME SignupInv, NEW q \in SignupRequests, Signup!SignAccessToken(q) PROVE SignupInv'
<1>1. CASE Signup!Refused(q)
  BY <1>1, UsersSame, RefusedMoves DEF Signup!SignAccessToken
<1>2. CASE ~Signup!Refused(q)
  <2> DEFINE r == [signing[q] EXCEPT !.step = "signed"]
  <2>1. signing[q].step = "sign" /\ signing' = [signing EXCEPT ![q] = r]
        /\ UNCHANGED <<user, referrals, points>>
    BY <1>2 DEF Signup!SignAccessToken, Signup!Goes
  <2>2. signing[q] \in [step : {"sign", "signed"}, account : Signup!Accounts, phone : PhonesOfUsers,
                        register : BOOLEAN]
    BY <2>1 DEF SignupInv, SignupTypes, SignupRequest
  <2>3. r \in SignupRequest /\ r.step = "signed" /\ r.account = signing[q].account
        /\ r.phone = signing[q].phone /\ r.register = signing[q].register
    BY <2>2 DEF SignupRequest
  <2> HIDE DEF r
  <2>4. signing'[q] = r
    BY <2>1 DEF SignupInv, SignupTypes
  <2>5. RequestFits(q)'
    <3>1. Signup!Known' = Signup!Known
      BY <2>1, UsersSame
    <3> QED BY <2>1, <2>3, <2>4, <3>1 DEF RequestFits, SignupInv
  <2> QED BY <2>1, <2>3, <2>5, RequestAlone
<1> QED BY <1>1, <1>2

LEMMA FindMoves ==
  ASSUME SignupInv, NEW q \in SignupRequests, Signup!LoginOrRegisterWithVerifiedIdentity(q)
  PROVE  SignupInv'
<1>1. CASE Signup!Goes(q, "create")
  <2> DEFINE r == [signing[q] EXCEPT !.step = "create"]
  <2>1. signing[q].step = "find" /\ signing' = [signing EXCEPT ![q] = r]
        /\ UNCHANGED <<user, referrals, points>>
    BY <1>1 DEF Signup!LoginOrRegisterWithVerifiedIdentity, Signup!Goes
  <2>2. signing[q] \in [step : {"find", "create"}, phone : PhonesOfUsers, form : Signup!Forms,
                        register : BOOLEAN, email : Mails, code : {in.code : in \in Inputs}]
    BY <2>1 DEF SignupInv, SignupTypes, SignupRequest
  <2>3. r \in SignupRequest /\ r.step = "create"
    BY <2>2 DEF SignupRequest
  <2> HIDE DEF r
  <2>4. signing'[q] = r /\ user[q] = Signup!NoUser
    BY <2>1 DEF SignupInv, SignupTypes, RequestFits
  <2>5. RequestFits(q)'
    BY <2>1, <2>3, <2>4 DEF RequestFits
  <2> QED BY <2>1, <2>3, <2>5, RequestAlone
<1>2. CASE ~Signup!Goes(q, "create")
  BY <1>2, MeetMoves DEF Signup!LoginOrRegisterWithVerifiedIdentity
<1> QED BY <1>1, <1>2

LEMMA SignupStep ==
  ASSUME SignupParameters, SignupInv, [Signup!Next]_(Signup!vars) PROVE SignupInv'
<1>1. CASE UNCHANGED <<user, referrals, points, signing>>
  <2>1. UsersKeep /\ CodesDiffer' /\ Signup!Known' = Signup!Known
    BY <1>1, UsersSame
  <2>2. \A q \in SignupRequests : RequestFits(q)'
    BY <1>1, <2>1, RequestsStay
  <2> QED BY <1>1, <2>1, <2>2 DEF SignupInv, SignupTypes, ReferralsAreKnown,
  Signup!RewardsMatchReferrals
<1>2. ASSUME NEW a \in Signup!Accounts, NEW row, user' = [user EXCEPT ![a] = row],
             UNCHANGED <<referrals, points, signing>>,
             a \in Signup!Known /\ row \in UserRow /\ row.phone = user[a].phone,
             row.code # "none" => \A b \in Signup!Known \ {a} : user[b].code # row.code
      PROVE  SignupInv'
  <2>1. /\ UsersKeep /\ CodesDiffer' /\ Signup!Known' = Signup!Known
        /\ \A p \in Signup!Accounts : user[p] = Signup!NoUser => user'[p] = Signup!NoUser
    BY <1>2, RowMoves
  <2>2. \A q \in SignupRequests : RequestFits(q)'
    BY <1>2, <2>1, RequestsStay DEF Signup!Accounts
  <2> QED BY <1>2, <2>1, <2>2 DEF SignupInv, SignupTypes, ReferralsAreKnown,
            Signup!RewardsMatchReferrals, UsersKeep
<1>3. ASSUME NEW a \in Signup!Accounts, NEW given \in InviteCodes,
             Signup!EnsureUserReferralCode(a, given)
      PROVE  SignupInv'
  <2> DEFINE row == [user[a] EXCEPT !.code = given]
  <2>1. /\ user' = [user EXCEPT ![a] = row] /\ UNCHANGED <<referrals, points, signing>>
        /\ user[a].status # "NONE" /\ \A b \in Signup!Known : user[b].code # given
    BY <1>3 DEF Signup!EnsureUserReferralCode
  <2>2. a \in Signup!Known /\ user[a] \in UserRow
    BY <2>1, KnownRow DEF Signup!Known, SignupInv
  <2>3. row \in UserRow /\ row.phone = user[a].phone /\ row.code = given
    BY <2>2 DEF UserRow
  <2> HIDE DEF row
  <2> QED BY <1>2, <2>1, <2>2, <2>3
<1>4. ASSUME NEW a \in Signup!Accounts, NEW status \in {"ACTIVE", "SUSPENDED", "DELETED"},
             Signup!SetStatus(a, status)
      PROVE  SignupInv'
  <2> DEFINE row == [user[a] EXCEPT !.status = status]
  <2>1. /\ user' = [user EXCEPT ![a] = row] /\ UNCHANGED <<referrals, points, signing>>
        /\ user[a].status # "NONE"
    BY <1>4 DEF Signup!SetStatus
  <2>2. a \in Signup!Known /\ user[a] \in UserRow
    BY <2>1, KnownRow DEF Signup!Known, SignupInv
  <2>3. row \in UserRow /\ row.phone = user[a].phone /\ row.code = user[a].code
    BY <2>2 DEF UserRow
  <2>4. row.code # "none" => \A b \in Signup!Known \ {a} : user[b].code # row.code
    BY <2>2, <2>3 DEF SignupInv, CodesDiffer
  <2> HIDE DEF row
  <2> QED BY <1>2, <2>1, <2>2, <2>3, <2>4
<1>5. ASSUME NEW q \in SignupRequests, NEW in \in Inputs,
             \/ \E phone \in Phones : Signup!VerifyMsg91AccessToken(q, phone, in)
             \/ Signup!VerifyPlayReviewCredentials(q, in)
      PROVE  SignupInv'
  <2>1. PICK phone \in PhonesOfUsers, form \in Signup!Forms :
          Signup!Begin(q, phone, form, in) /\ UNCHANGED <<user, referrals, points>>
    BY <1>5 DEF Signup!VerifyMsg91AccessToken, Signup!VerifyPlayReviewCredentials, PhonesOfUsers,
       Signup!Forms
  <2> QED BY <2>1, BeginMoves
<1>6. ASSUME NEW q \in SignupRequests, Signup!IsUniquePhoneViolation(q) PROVE SignupInv'
  <2>1. signing[q].step = "insert" /\ UNCHANGED <<user, referrals, points>>
    BY <1>6 DEF Signup!IsUniquePhoneViolation
  <2>2. \/ Signup!Refused(q)
        \/ \E found \in Signup!ActiveUsersByPhone(signing[q].phone) : Signup!MeetUser(q, found)
    BY <1>6 DEF Signup!IsUniquePhoneViolation
  <2>3. CASE Signup!Refused(q)
    BY <2>1, <2>3, UsersSame, RefusedMoves
  <2> QED BY <2>1, <2>2, <2>3, MeetMoves
<1>7. CASE Signup!Next
  <2>1. CASE Signup!SendMsg91Otp \/ Signup!ReviewWindowPasses
    BY <1>1, <2>1 DEF Signup!SendMsg91Otp, Signup!ReviewWindowPasses
  <2> QED BY <1>3, <1>4, <1>5, <1>6, <1>7, <2>1, FindMoves, PrepareMoves, CreateMoves,
             SaveMoves, SignMoves DEF Signup!Next
<1> QED BY <1>1, <1>7 DEF Signup!vars

-----------------------------------------------------------------------------
(* Lists of rides and bookings.                                            *)

\* A finite set of naturals has a greatest member.
LEMMA GreatestNatural ==
  ASSUME NEW S \in SUBSET Nat, IsFiniteSet(S), S # {}
  PROVE  \E m \in S : \A n \in S : m >= n
<1>1. PICK n \in Nat : ExistsBijection(1..n, S)
  BY FS_NatBijection
<1>2. PICK f \in Bijection(1..n, S) : TRUE
  BY <1>1 DEF ExistsBijection
<1>3. (\A i \in 1..n : f[i] \in S) /\ \A s \in S : \E i \in 1..n : f[i] = s
  BY <1>2 DEF Bijection, Injection, Surjection
<1>4. SumTo(f, n) \in Nat /\ \A s \in S : s <= SumTo(f, n)
  <2>1. \A i \in 1..n : f[i] \in Nat
    BY <1>3
  <2> QED BY <1>3, <2>1, SumToNat, SumToAtLeast
<1> DEFINE Bounds == {u \in Nat : \A s \in S : s <= u}
<1>5. PICK u \in Bounds : \A v \in Bounds : u <= v
  BY <1>4, LeastNatural
<1>6. u \in S
  <2> SUFFICES ASSUME u \notin S PROVE FALSE
    OBVIOUS
  <2>1. \A s \in S : s \in Nat /\ s < u
    OBVIOUS
  <2>2. u - 1 \in Nat /\ \A s \in S : s <= u - 1
    <3>1. u \in Nat /\ \E s \in S : s \in Nat /\ s < u
      BY <2>1
    <3> QED BY <2>1, <3>1
  <2>3. u - 1 \in Bounds
    BY <2>2
  <2> QED BY <1>5, <2>3
<1> QED BY <1>6

\* What a finite set is mapped to is finite.
LEMMA ImageFinite ==
  ASSUME NEW S, IsFiniteSet(S), NEW f
  PROVE  IsFiniteSet({f[x] : x \in S})
<1> DEFINE T == {f[x] : x \in S}
           g == [x \in S |-> f[x]]
<1>1. g \in Surjection(S, T)
  BY DEF Surjection
<1> HIDE DEF T, g
<1>2. IsFiniteSet(T)
  BY <1>1, FS_Surjection
<1> QED BY <1>2 DEF T

LEMMA AfterMore ==
  ASSUME NEW S \in SUBSET Nat, IsFiniteSet(S) PROVE Lists!After(S) \in Nat /\ Lists!After(S) # 0
<1>1. S \cup {0} \in SUBSET Nat /\ S \cup {0} # {} /\ IsFiniteSet(S \cup {0})
  BY FS_AddElement
<1>2. PICK m \in S \cup {0} : \A n \in S \cup {0} : m >= n
  BY <1>1, GreatestNatural
<1>3. Lists!Max(S \cup {0}) \in S \cup {0}
  <2> DEFINE T == S \cup {0}
  <2>1. \E k \in T : \A n \in T : k >= n
    BY <1>2
  <2> HIDE DEF T
  <2>2. Lists!Max(T) \in T
    BY Zenon, <2>1 DEF Lists!Max
  <2> QED BY <2>2 DEF T
<1>4. Lists!Max(S \cup {0}) \in Nat
  BY <1>1, <1>3
<1> HIDE DEF Lists!Max
<1>5. Lists!After(S) = 1 + Lists!Max(S \cup {0})
  BY DEF Lists!After
<1> QED BY <1>4, <1>5

-----------------------------------------------------------------------------
Trip ==
  [status : {"NONE", "CONFIRMED", "COMPLETED", "CANCELLED"}, made : Nat,
   pickup : {"NULL", "WAITING_FOR_PICKUP", "PICKED_UP"}, code : Nat, place : Nat]

ListTypes ==
  /\ trip \in [Trips -> Trip] /\ shown \in [Trips -> Nat]
  /\ mine = [by |-> mine.by, rows |-> mine.rows]
  /\ DOMAIN mine.rows \subseteq Trips /\ mine.rows = [b \in DOMAIN mine.rows |-> mine.rows[b]]
  /\ \A b \in DOMAIN mine.rows : mine.rows[b] \in Trip

\* Whoever booked lately has a code from the start, so no list gives her one.
Coded(row) ==
  /\ row.status # "NONE" => row.code # 0
  /\ row.status = "NONE" => row.pickup = "NULL"

HaveCodes ==
  \A b \in Trips \ Legacy :
    /\ Coded(trip[b])
    /\ b \in DOMAIN mine.rows => mine.rows[b].code # 0

ListsInv == ListTypes /\ HaveCodes

LEMMA ListsInitInv ==
  ASSUME Lists!Init PROVE ListsInv
<1>1. Lists!NoTrip \in Trip /\ [Lists!NoTrip EXCEPT !.status = "CONFIRMED", !.made = 1] \in Trip
  BY DEF Lists!NoTrip, Trip
<1>2. trip \in [Trips -> Trip] /\ shown \in [Trips -> Nat]
  BY <1>1 DEF Lists!Init
<1>3. mine = [by |-> mine.by, rows |-> <<>>]
  BY DEF Lists!Init, Lists!Off
<1>4. DOMAIN mine.rows = {} /\ mine.rows = [b \in {} |-> mine.rows[b]]
  BY <1>3
<1>5. \A b \in Trips \ Legacy : trip[b] = Lists!NoTrip
  BY DEF Lists!Init
<1>6. HaveCodes
  BY <1>4, <1>5 DEF HaveCodes, Coded, Lists!NoTrip
<1> QED BY <1>2, <1>3, <1>4, <1>6 DEF ListsInv, ListTypes

LEMMA BuiltRow ==
  ASSUME ListParameters, ListTypes, NEW row \in Trip, NEW r
  PROVE  /\ Lists!buildRegularPickupFields(row, r) \in Trip
         /\ Lists!buildRegularPickupFields(row, r).code # 0
         /\ Lists!buildRegularPickupFields(row, r).status = row.status
<1>1. \A b \in Trips : trip[b] \in Trip /\ shown[b] \in Nat
  BY DEF ListTypes
<1>2. Lists!NewCode \in Nat /\ Lists!NewCode # 0
  <2> DEFINE C == {trip[b].code : b \in Trips}
             D == {shown[b] : b \in Trips}
  <2>1. C \subseteq Nat /\ D \subseteq Nat
    BY <1>1 DEF Trip
  <2>2. IsFiniteSet(C) /\ IsFiniteSet(D)
    <3> DEFINE f == [b \in Trips |-> trip[b].code]
    <3>1. C = {f[b] : b \in Trips}
      OBVIOUS
    <3>2. IsFiniteSet({f[b] : b \in Trips}) /\ IsFiniteSet({shown[b] : b \in Trips})
      BY ImageFinite DEF ListParameters
    <3> QED BY <3>1, <3>2
  <2>3. C \cup D \in SUBSET Nat /\ IsFiniteSet(C \cup D)
    BY <2>1, <2>2, FS_Union
  <2> HIDE DEF C, D
  <2>4. Lists!After(C \cup D) \in Nat /\ Lists!After(C \cup D) # 0
    BY <2>3, AfterMore
  <2> QED BY <2>4 DEF Lists!NewCode, C, D
<1>3. Lists!After({trip[b].place : b \in Lists!On(r)}) \in Nat
  <2> DEFINE P == {trip[b].place : b \in Lists!On(r)}
  <2>1. Lists!On(r) \subseteq Trips /\ IsFiniteSet(Lists!On(r))
    BY FS_Subset DEF Lists!On, ListParameters
  <2>2. P \in SUBSET Nat
    BY <1>1, <2>1 DEF Trip
  <2>3. IsFiniteSet(P)
    <3> DEFINE f == [b \in Lists!On(r) |-> trip[b].place]
    <3>1. P = {f[b] : b \in Lists!On(r)}
      OBVIOUS
    <3>2. IsFiniteSet({f[b] : b \in Lists!On(r)})
      BY <2>1, ImageFinite
    <3> QED BY <3>1, <3>2
  <2> HIDE DEF P
  <2>4. Lists!After(P) \in Nat
    BY <2>2, <2>3, AfterMore
  <2> QED BY <2>4 DEF P
<1> QED BY <1>2, <1>3 DEF Lists!buildRegularPickupFields, Trip

LEMMA EnsuredRow ==
  ASSUME ListParameters, ListTypes, NEW row \in Trip, NEW r
  PROVE  /\ Lists!ensurePickupOtpMaterial(row, r) \in Trip
         /\ row.status = "NONE" \/ row.code # 0 => Lists!ensurePickupOtpMaterial(row, r) = row
BY BuiltRow DEF Lists!ensurePickupOtpMaterial

\* What a step may do to the rows of the bookings.
RowsKeep ==
  /\ trip' \in [Trips -> Trip]
  /\ \A b \in Trips \ Legacy :
       /\ Coded(trip'[b])
       /\ trip[b].pickup = "PICKED_UP" => trip'[b].pickup = "PICKED_UP"

\* The status of some bookings that were made changes, and no other column but
\* the pickup, which waits.
LEMMA StatusMoves ==
  ASSUME ListsInv, trip' \in [Trips -> Trip],
         \A b \in Trips \ Legacy :
           \/ trip'[b] = trip[b]
           \/ /\ trip[b].status # "NONE" /\ trip'[b].status # "NONE"
              /\ trip'[b].code = trip[b].code
              /\ trip'[b].pickup \in {trip[b].pickup, "PICKED_UP"}
  PROVE  RowsKeep
BY DEF ListsInv, HaveCodes, Coded, RowsKeep

LEMMA ListsStep ==
  ASSUME ListParameters, ListsInv, [Lists!Next]_(Lists!vars)
  PROVE  /\ ListsInv'
         /\ \A b \in Trips \ Legacy : trip[b].pickup = "PICKED_UP" => trip'[b].pickup = "PICKED_UP"
<1>t. /\ ListTypes /\ trip \in [Trips -> Trip] /\ shown \in [Trips -> Nat]
      /\ \A b \in Trips : trip[b] \in Trip
  BY DEF ListsInv, ListTypes
<1>s. RowsKeep /\ UNCHANGED <<mine, shown>> =>
        ListsInv' /\ \A b \in Trips \ Legacy :
                       trip[b].pickup = "PICKED_UP" => trip'[b].pickup = "PICKED_UP"
  BY <1>t DEF RowsKeep, ListsInv, ListTypes, HaveCodes, Coded
<1>u. UNCHANGED trip => RowsKeep
  BY <1>t DEF RowsKeep, ListsInv, HaveCodes, Coded
<1>1. CASE UNCHANGED <<trip, mine, shown>>
  BY <1>1, <1>s, <1>u
<1>2. ASSUME NEW b \in Trips, Lists!Book(b) PROVE RowsKeep /\ UNCHANGED <<mine, shown>>
  <2> DEFINE old == [trip[b] EXCEPT !.status = "CONFIRMED",
                                    !.made = Lists!After({trip[c].made : c \in Trips})]
             new == Lists!buildRegularPickupFields(old, RideOf[b])
  <2>1. trip' = [trip EXCEPT ![b] = new] /\ trip[b].status = "NONE"
        /\ UNCHANGED <<mine, shown>>
    BY <1>2 DEF Lists!Book
  <2>2. Lists!After({trip[c].made : c \in Trips}) \in Nat
    <3> DEFINE M == {trip[c].made : c \in Trips}
    <3>1. M \in SUBSET Nat
      BY <1>t DEF Trip
    <3>2. IsFiniteSet(M)
      <4> DEFINE f == [c \in Trips |-> trip[c].made]
      <4>1. M = {f[c] : c \in Trips}
        OBVIOUS
      <4>2. IsFiniteSet({f[c] : c \in Trips})
        BY ImageFinite DEF ListParameters
      <4> QED BY <4>1, <4>2
    <3> HIDE DEF M
    <3>3. Lists!After(M) \in Nat
      BY <3>1, <3>2, AfterMore
    <3> QED BY <3>3 DEF M
  <2>3. old \in Trip /\ old.status = "CONFIRMED"
    BY <1>t, <2>2 DEF Trip
  <2> HIDE DEF old
  <2>4. new \in Trip /\ new.code # 0 /\ new.status = "CONFIRMED"
    BY <1>t, <2>3, BuiltRow
  <2> HIDE DEF new
  <2>5. trip' \in [Trips -> Trip] /\ trip'[b] = new
        /\ \A c \in Trips : c # b => trip'[c] = trip[c]
    BY <1>t, <2>1, <2>4
  <2>6. b \notin Legacy => trip[b].pickup = "NULL"
    BY <2>1 DEF ListsInv, HaveCodes, Coded
  <2>7. \A c \in Trips \ Legacy :
          /\ Coded(trip'[c])
          /\ trip[c].pickup = "PICKED_UP" => trip'[c].pickup = "PICKED_UP"
    <3> SUFFICES ASSUME NEW c \in Trips \ Legacy
                 PROVE  /\ Coded(trip'[c])
                        /\ trip[c].pickup = "PICKED_UP" => trip'[c].pickup = "PICKED_UP"
      OBVIOUS
    <3>1. CASE c = b
      BY <2>4, <2>5, <2>6, <3>1 DEF Coded
    <3>2. CASE c # b
      BY <2>5, <3>2 DEF ListsInv, HaveCodes
    <3> QED BY <3>1, <3>2
  <2> QED BY <2>1, <2>5, <2>7 DEF RowsKeep
<1>3. ASSUME NEW b \in Trips, Lists!CancelByRider(b) \/ Lists!VerifyPickup(b)
      PROVE  RowsKeep /\ UNCHANGED <<mine, shown>>
  <2>1. /\ \/ trip' = [trip EXCEPT ![b].status = "CANCELLED"]
           \/ trip' = [trip EXCEPT ![b].pickup = "PICKED_UP"]
        /\ trip[b].status = "CONFIRMED" /\ UNCHANGED <<mine, shown>>
    BY <1>3 DEF Lists!CancelByRider, Lists!VerifyPickup
  <2>2. trip' \in [Trips -> Trip]
    <3>1. /\ [trip[b] EXCEPT !.status = "CANCELLED"] \in Trip
          /\ [trip[b] EXCEPT !.pickup = "PICKED_UP"] \in Trip
      BY <1>t DEF Trip
    <3> QED BY <1>t, <2>1, <3>1
  <2>3. /\ \A c \in Trips : c # b => trip'[c] = trip[c]
        /\ trip'[b].code = trip[b].code /\ trip'[b].status # "NONE"
        /\ trip'[b].pickup \in {trip[b].pickup, "PICKED_UP"}
    BY <1>t, <2>1 DEF Trip
  <2> QED BY <2>1, <2>2, <2>3, StatusMoves
<1>4. ASSUME NEW r \in DrivenRides, Lists!Complete(r) \/ Lists!CallOff(r)
      PROVE  RowsKeep /\ UNCHANGED <<mine, shown>>
  <2>1. PICK status \in {"COMPLETED", "CANCELLED"} :
          trip' = [b \in Trips |-> IF b \in Lists!ConfirmedOn(r)
                                   THEN [trip[b] EXCEPT !.status = status] ELSE trip[b]]
    BY <1>4 DEF Lists!Complete, Lists!CallOff
  <2>2. UNCHANGED <<mine, shown>>
    BY <1>4 DEF Lists!Complete, Lists!CallOff
  <2>3. \A b \in Trips : [trip[b] EXCEPT !.status = status] \in Trip
    BY <1>t DEF Trip
  <2>4. trip' \in [Trips -> Trip]
    BY <1>t, <2>1, <2>3
  <2>5. \A b \in Trips :
           \/ trip'[b] = trip[b]
           \/ /\ trip[b].status # "NONE" /\ trip'[b].status # "NONE"
              /\ trip'[b].code = trip[b].code /\ trip'[b].pickup = trip[b].pickup
    <3> SUFFICES ASSUME NEW b \in Trips, b \in Lists!ConfirmedOn(r)
                 PROVE  /\ trip[b].status # "NONE" /\ trip'[b].status # "NONE"
                        /\ trip'[b].code = trip[b].code
                        /\ trip'[b].pickup = trip[b].pickup
      BY <2>1
    <3>1. trip'[b] = [trip[b] EXCEPT !.status = status]
      BY <2>1
    <3>2. trip[b].status = "CONFIRMED"
      BY DEF Lists!ConfirmedOn
    <3> QED BY <1>t, <3>1, <3>2 DEF Trip
  <2> QED BY <2>2, <2>4, <2>5, StatusMoves
<1>5. ASSUME NEW r \in DrivenRides, Lists!Start(r) PROVE RowsKeep /\ UNCHANGED <<mine, shown>>
  <2>1. /\ trip' = [b \in Trips |-> IF RideOf[b] = r
                                    THEN Lists!ensurePickupOtpMaterial(trip[b], r) ELSE trip[b]]
        /\ UNCHANGED <<mine, shown>>
    BY <1>5 DEF Lists!Start
  <2>2. \A b \in Trips : Lists!ensurePickupOtpMaterial(trip[b], r) \in Trip
    BY <1>t, EnsuredRow
  <2>3. \A b \in Trips \ Legacy : Lists!ensurePickupOtpMaterial(trip[b], r) = trip[b]
    BY <1>t, EnsuredRow DEF ListsInv, HaveCodes, Coded
  <2>4. trip' \in [Trips -> Trip]
    BY <1>t, <2>1, <2>2
  <2>5. \A b \in Trips \ Legacy : trip'[b] = trip[b]
    BY <2>1, <2>3
  <2> QED BY <2>1, <2>4, <2>5, StatusMoves
<1>6. ASSUME NEW p \in Lists!Passengers, Lists!ReadMine(p)
      PROVE  ListsInv' /\ UNCHANGED trip
  <2>1. /\ mine' = [by |-> p, rows |-> [b \in Lists!MyTrips(p) |-> trip[b]]]
        /\ UNCHANGED <<trip, shown>>
    BY <1>6 DEF Lists!ReadMine
  <2>2. Lists!MyTrips(p) \subseteq Trips /\ \A b \in Lists!MyTrips(p) : trip[b].status # "NONE"
    BY DEF Lists!MyTrips
  <2>3. ListTypes'
    BY <1>t, <2>1, <2>2 DEF ListTypes
  <2>4. HaveCodes'
    BY <2>1, <2>2 DEF ListsInv, HaveCodes, Coded
  <2> QED BY <2>1, <2>3, <2>4 DEF ListsInv
<1>7. ASSUME NEW b \in Trips, Lists!Ensure(b)
      PROVE  ListsInv' /\ \A c \in Trips \ Legacy : trip'[c] = trip[c]
  <2> DEFINE new == Lists!ensurePickupOtpMaterial(mine.rows[b], RideOf[b])
  <2>1. /\ b \in DOMAIN mine.rows /\ new # mine.rows[b]
        /\ trip' = [trip EXCEPT ![b] = new]
        /\ mine' = [mine EXCEPT !.rows[b] = trip'[b]] /\ UNCHANGED shown
    BY <1>7 DEF Lists!Ensure
  <2>2. mine.rows[b] \in Trip
    BY <2>1 DEF ListsInv, ListTypes
  <2>3. new \in Trip /\ mine.rows[b].code = 0
    BY <1>t, <2>1, <2>2, EnsuredRow
  <2>4. b \in Legacy
    BY <2>1, <2>3 DEF ListsInv, HaveCodes
  <2> HIDE DEF new
  <2>5. /\ trip' \in [Trips -> Trip] /\ trip'[b] = new
        /\ \A c \in Trips \ Legacy : trip'[c] = trip[c]
    BY <1>t, <2>1, <2>3, <2>4
  <2>6. /\ mine' = [by |-> mine.by, rows |-> [mine.rows EXCEPT ![b] = new]]
    BY <2>1, <2>5 DEF ListsInv, ListTypes
  <2>7. /\ DOMAIN mine'.rows = DOMAIN mine.rows /\ mine'.rows[b] = new
        /\ \A c \in DOMAIN mine.rows : c # b => mine'.rows[c] = mine.rows[c]
        /\ mine'.rows = [c \in DOMAIN mine.rows |-> mine'.rows[c]]
    BY <2>1, <2>6 DEF ListsInv, ListTypes
  <2>8. ListTypes'
    <3>1. DOMAIN mine'.rows \subseteq Trips /\ \A c \in DOMAIN mine'.rows : mine'.rows[c] \in Trip
      BY <2>3, <2>7 DEF ListsInv, ListTypes
    <3>2. mine' = [by |-> mine'.by, rows |-> mine'.rows]
      BY <2>6
    <3> QED BY <1>t, <2>1, <2>5, <2>7, <3>1, <3>2 DEF ListTypes
  <2>9. HaveCodes'
    BY <2>4, <2>5, <2>7 DEF ListsInv, HaveCodes
  <2> QED BY <2>5, <2>8, <2>9 DEF ListsInv
<1>8. ASSUME Lists!ShowMine PROVE ListsInv' /\ UNCHANGED trip
  <2>1. /\ shown' = [b \in Trips |-> IF b \in DOMAIN mine.rows
                                     THEN Lists!visiblePickupOtp(mine.rows[b]) ELSE shown[b]]
        /\ mine' = Lists!Off /\ UNCHANGED trip
    BY <1>8 DEF Lists!ShowMine
  <2>2. shown' \in [Trips -> Nat]
    <3>1. \A b \in DOMAIN mine.rows : Lists!visiblePickupOtp(mine.rows[b]) \in Nat
      BY DEF ListsInv, ListTypes, Lists!visiblePickupOtp, Trip
    <3> QED BY <1>t, <2>1, <3>1
  <2>3. mine' = [by |-> mine'.by, rows |-> <<>>]
    BY <2>1 DEF Lists!Off
  <2>4. DOMAIN mine'.rows = {} /\ mine'.rows = [b \in {} |-> mine'.rows[b]]
    BY <2>3
  <2>5. ListTypes'
    BY <1>t, <2>1, <2>2, <2>3, <2>4 DEF ListTypes
  <2>6. HaveCodes'
    BY <2>1, <2>4 DEF ListsInv, HaveCodes
  <2> QED BY <2>1, <2>5, <2>6 DEF ListsInv
<1>9. CASE Lists!Next
  <2>1. CASE Lists!NextDay \/ Lists!OpenList \/ Lists!TurnPage
    BY <1>1, <2>1 DEF Lists!NextDay, Lists!OpenList, Lists!TurnPage
  <2> QED BY <1>2, <1>3, <1>4, <1>5, <1>6, <1>7, <1>8, <1>9, <1>s, <2>1 DEF Lists!Next
<1> QED BY <1>1, <1>9 DEF Lists!vars

-----------------------------------------------------------------------------
\* What a list and its detail reckon of a ride follows from the same rows.
LEMMA HistoriesAlwaysAgree == Lists!HistoriesAgree
<1> SUFFICES ASSUME NEW r \in Lists!PastRides
             PROVE  /\ \A page \in SUBSET Lists!PastRides : r \in page =>
                         Lists!Bonuses(page, r) = Lists!Bonuses({r}, r)
                    /\ Lists!Bonuses({r}, r) =
                         {t \in ledger : t.to = "driver" /\
                             r = IF t.kind = "fill" THEN t.ref ELSE RideOf[t.ref]}
  BY DEF Lists!HistoriesAgree, Lists!HistoryDetail, Lists!HistoryItem
<1> QED BY DEF Lists!Bonuses

LEMMA LiveListsAlwaysAgree == Lists!LiveListsAgree
<1>1. ASSUME NEW r \in Lists!Driven
      PROVE  r \in Lists!MyRides /\ Lists!DriverItem(r) =
               {p \in Lists!Passengers : \E b \in Lists!Riding(p) : RideOf[b] = r}
  BY DEF Lists!Driven, Lists!MyRides, Lists!DriverItem, Lists!Riding, Lists!ConfirmedOn, Lists!On,
     Lists!Passengers
<1>2. ASSUME NEW p \in Lists!Passengers, NEW b \in Lists!Riding(p)
      PROVE  b \in Lists!MyTrips(p) /\ Lists!CoPassengers(b) = Lists!DriverItem(RideOf[b]) \ {p}
  BY DEF Lists!MyTrips, Lists!CoPassengers, Lists!DriverItem, Lists!Riding
<1> QED BY <1>1, <1>2 DEF Lists!LiveListsAgree

\* What was read of a booking is what is there but for its status, and what is
\* shown of one that has had a code from the start is that code.
RowsAreRead ==
  \A b \in DOMAIN mine.rows :
    /\ trip[b].status # "NONE" /\ mine.rows[b].status # "NONE"
    /\ mine.rows[b].made = trip[b].made
    /\ b \notin Legacy => mine.rows[b].code = trip[b].code

ShowsTheCode ==
  \A b \in Trips \ Legacy :
    /\ shown[b] \in {0, trip[b].code}
    /\ trip[b].status = "NONE" => shown[b] = 0

RideRow == [status : {"PUBLISHED", "IN_PROGRESS", "COMPLETED", "CANCELLED"}, ended : Nat]

\* How many items a list has before x.
Ahead(of, p, x) == Cardinality({y \in Lists!Listed(of, p) : Lists!Before(of, y, x)})

\* What was there at first and was not seen yet comes after the pages turned so far.
Unread(x) ==
  /\ ~walk.over /\ x \in Lists!Listed(walk.of, walk.by)
  /\ Ahead(walk.of, walk.by, x) >= walk.page * PageSize

MayLose(of, p) == of = "trips" /\ \E b \in Legacy : PassengerOf[b] = p

Walks ==
  /\ walk = [of |-> walk.of, by |-> walk.by, page |-> walk.page, had |-> walk.had,
             seen |-> walk.seen, over |-> walk.over]
  /\ walk.of \in {"none", "rides", "trips", "taken"} /\ walk.page \in Nat
  /\ MayLose(walk.of, walk.by) \/ \A x \in walk.had \ walk.seen : Unread(x)

ReadersInv ==
  /\ ListsInv /\ ride \in [DrivenRides -> RideRow]
  /\ RowsAreRead /\ ShowsTheCode /\ Walks

LEMMA ReadersInvShows ==
  ReadersInv => Lists!PagesMissNothing /\ Lists!HistoriesAgree /\ Lists!LiveListsAgree /\
    Lists!ShownCodesOpen
<1> SUFFICES ASSUME ReadersInv PROVE Lists!PagesMissNothing /\ Lists!ShownCodesOpen
  BY HistoriesAlwaysAgree, LiveListsAlwaysAgree
<1>1. Lists!PagesMissNothing
  BY DEF ReadersInv, Walks, Unread, MayLose, Lists!PagesMissNothing
<1>2. Lists!ShownCodesOpen
  BY DEF ReadersInv, ShowsTheCode, Lists!ShownCodesOpen
<1> QED BY <1>1, <1>2

LEMMA ReadersInitInv ==
  ASSUME ListParameters, Lists!Init PROVE ReadersInv
<1>1. ListsInv
  BY ListsInitInv
<1>2. ride \in [DrivenRides -> RideRow]
  BY DEF Lists!Init, RideRow
<1>3. RowsAreRead
  <2>1. mine.rows = <<>>
    BY DEF Lists!Init, Lists!Off
  <2>2. DOMAIN mine.rows = {}
    BY <2>1
  <2> QED BY <2>2 DEF RowsAreRead
<1>4. ShowsTheCode
  BY DEF Lists!Init, ShowsTheCode
<1>5. Walks
  BY DEF Lists!Init, Walks, Lists!Closed
<1> QED BY <1>1, <1>2, <1>3, <1>4, <1>5 DEF ReadersInv

\* What no step takes back.
NothingMoves ==
  /\ \A r \in Lists!PastRides : ride'[r] = ride[r]
  /\ \A b \in Trips : trip[b].status # "NONE" =>
       trip'[b].status # "NONE" /\ trip'[b].made = trip[b].made
  /\ \A b \in Trips \ Legacy :
       trip[b].status \in {"COMPLETED", "CANCELLED"} => trip'[b].status = trip[b].status

\* A list grows, what is on it stays in its order and moves back at most.
LEMMA ListsGrow ==
  ASSUME ListParameters, ReadersInv, NothingMoves, NEW of, NEW p, ~MayLose(of, p),
         NEW x \in Lists!Listed(of, p)
  PROVE  /\ IsFiniteSet(Lists!Listed(of, p)) /\ x \in Lists!Listed(of, p)' /\
              Ahead(of, p, x) \in Nat
         /\ Ahead(of, p, x)' \in Nat /\ Ahead(of, p, x)' >= Ahead(of, p, x)
<1>1. IsFiniteSet(Lists!Listed(of, p)) /\ IsFiniteSet(Lists!Listed(of, p)')
  BY FS_Subset, FS_EmptySet
  DEF Lists!Listed, Lists!PastRides, Lists!PastTrips, Lists!ForDriver, ListParameters
<1>2. \A y \in Lists!Listed(of, p) : y \in Lists!Listed(of, p)'
  <2>1. \A y \in Lists!PastRides : y \in Lists!PastRides'
    BY DEF NothingMoves, Lists!PastRides
  <2>2. of = "trips" => \A y \in Lists!PastTrips(p) : y \in Lists!PastTrips(p)'
    BY DEF NothingMoves, Lists!PastTrips, MayLose
  <2>3. \A y \in Lists!ForDriver : y \in Lists!ForDriver'
    BY DEF NothingMoves, Lists!ForDriver
  <2> QED BY <2>1, <2>2, <2>3 DEF Lists!Listed
<1>3. \A y \in Lists!Listed(of, p) : Lists!Before(of, y, x) => Lists!Before(of, y, x)'
  BY DEF NothingMoves, Lists!Before, Lists!Listed, Lists!PastRides, Lists!PastTrips, Lists!ForDriver
<1> DEFINE A == {y \in Lists!Listed(of, p) : Lists!Before(of, y, x)}
           B == {y \in Lists!Listed(of, p)' : Lists!Before(of, y, x)'}
<1>4. A \subseteq B /\ A \subseteq Lists!Listed(of, p) /\ B \subseteq Lists!Listed(of, p)'
  BY <1>2, <1>3
<1>5. IsFiniteSet(A) /\ Cardinality(A) \in Nat
  BY <1>1, <1>4, FS_Subset, FS_CardinalityType
<1>6. Cardinality(B) \in Nat /\ Cardinality(A) <= Cardinality(B)
  BY <1>1, <1>4, FS_Subset, FS_CardinalityType
<1> QED BY <1>1, <1>2, <1>5, <1>6 DEF Ahead

\* Between the pages.
LEMMA WalksOn ==
  ASSUME ListParameters, ReadersInv, NothingMoves, walk' = walk PROVE Walks'
<1> SUFFICES ASSUME ~MayLose(walk.of, walk.by), NEW x \in walk.had \ walk.seen
             PROVE  ~walk.over /\ x \in Lists!Listed(walk.of, walk.by)'
                    /\ Ahead(walk.of, walk.by, x)' >= walk.page * PageSize
  BY DEF ReadersInv, Walks, MayLose, Unread
<1>1. /\ ~walk.over
      /\ x \in Lists!Listed(walk.of, walk.by)
      /\ Ahead(walk.of, walk.by, x) >= walk.page * PageSize
  BY DEF ReadersInv, Walks, Unread
<1>2. walk.page * PageSize \in Nat
  BY DEF ReadersInv, Walks, ListParameters
<1> QED BY <1>1, <1>2, ListsGrow

\* Whoever is not on page n, nor before it, is at least as far as the next one.
LEMMA NextPagesStart ==
  ASSUME NEW a \in Nat, NEW n \in Nat, NEW size \in Nat \ {0}, a >= n * size, a \div size # n
  PROVE  a >= (n + 1) * size
<1> DEFINE d == a \div size
<1>1. d \in Nat /\ d * size <= a /\ a < d * size + size
  OBVIOUS
<1> HIDE DEF d
<1>2. CASE d < n
  <2>1. (d + 1) * size <= n * size
    BY <1>1, <1>2, SMTT(30)
  <2>2. (d + 1) * size = d * size + size
    BY <1>1
  <2> QED BY <1>1, <2>1, <2>2
<1>3. CASE d > n
  <2>1. (n + 1) * size <= d * size
    BY <1>1, <1>3, SMTT(30)
  <2> QED BY <1>1, <2>1
<1>4. d # n
  BY DEF d
<1> QED BY <1>1, <1>2, <1>3, <1>4

\* The next page shows who comes next, the last one all the others.
LEMMA PageShows ==
  ASSUME ListParameters, ReadersInv, NEW of, NEW p, NEW n \in Nat, NEW x \in Lists!Listed(of, p),
         Ahead(of, p, x) >= n * PageSize, x \notin Lists!PageOf(of, p, n + 1)
  PROVE  /\ Ahead(of, p, x) >= (n + 1) * PageSize
         /\ Cardinality(Lists!Listed(of, p)) > (n + 1) * PageSize
<1>1. IsFiniteSet(Lists!Listed(of, p))
  BY FS_Subset, FS_EmptySet
  DEF Lists!Listed, Lists!PastRides, Lists!PastTrips, Lists!ForDriver, ListParameters
<1> DEFINE A == {y \in Lists!Listed(of, p) : Lists!Before(of, y, x)}
<1>2. ~Lists!Before(of, x, x)
  <2>1. CASE of = "rides"
    <3>1. x \in DrivenRides /\ DayOf[x] \in Nat /\ ride[x].ended \in Nat
      BY <2>1 DEF Lists!Listed, Lists!PastRides, ListParameters, ReadersInv, RideRow
    <3> QED BY <2>1, <3>1 DEF Lists!Before
  <2>2. CASE of # "rides"
    <3>1. x \in Trips
      BY <2>2 DEF Lists!Listed, Lists!PastTrips, Lists!ForDriver
    <3>2. trip[x].made \in Nat
      BY <3>1 DEF ReadersInv, ListsInv, ListTypes, Trip
    <3> QED BY <2>2, <3>2 DEF Lists!Before
  <2> QED BY <2>1, <2>2
<1>3. A \subseteq Lists!Listed(of, p) \ {x} /\ IsFiniteSet(Lists!Listed(of, p) \ {x})
  BY <1>1, <1>2, FS_Subset
<1>4. /\ Cardinality(A) <= Cardinality(Lists!Listed(of, p) \ {x})
      /\ Cardinality(A) \in Nat
      /\ Cardinality(Lists!Listed(of, p) \ {x}) \in Nat
      /\ Cardinality(Lists!Listed(of, p) \ {x}) = Cardinality(Lists!Listed(of, p)) - 1
      /\ Cardinality(Lists!Listed(of, p)) \in Nat
  BY <1>1, <1>3, FS_Subset, FS_CardinalityType, FS_RemoveElement
<1>5. Cardinality(A) \div PageSize # n
  BY CountsAgree DEF Lists!PageOf
<1>6. Cardinality(A) >= (n + 1) * PageSize
  BY <1>4, <1>5, NextPagesStart DEF ListParameters, Ahead
<1>7. (n + 1) * PageSize \in Nat
  BY DEF ListParameters
<1> QED BY <1>4, <1>6, <1>7 DEF Ahead

LEMMA TurnWalks ==
  ASSUME ListParameters, ReadersInv, Lists!TurnPage PROVE Walks'
<1>1. /\ ~walk.over
      /\ walk' = [walk EXCEPT !.page = walk.page + 1,
                    !.seen = @ \cup Lists!PageOf(walk.of, walk.by, walk.page + 1),
                    !.over = (walk.page + 1) * PageSize
                                >= Cardinality(Lists!Listed(walk.of, walk.by))]
      /\ UNCHANGED <<ride, trip>>
  BY CountsAgree DEF Lists!TurnPage, Lists!Turn
<1>2. /\ walk'.of = walk.of /\ walk'.by = walk.by /\ walk'.page = walk.page + 1
      /\ walk'.had = walk.had
      /\ walk'.seen = walk.seen \cup Lists!PageOf(walk.of, walk.by, walk.page + 1)
      /\ walk'.over = ((walk.page + 1) * PageSize >= Cardinality(Lists!Listed(walk.of, walk.by)))
      /\ walk' = [of |-> walk'.of, by |-> walk'.by, page |-> walk'.page, had |-> walk'.had,
                  seen |-> walk'.seen, over |-> walk'.over]
  BY <1>1 DEF ReadersInv, Walks
<1>3. \A of, p, x : Lists!Listed(of, p)' = Lists!Listed(of, p) /\ Ahead(of, p, x)' = Ahead(of, p, x)
  BY <1>1 DEF Lists!Listed, Lists!PastRides, Lists!PastTrips, Lists!ForDriver, Ahead, Lists!Before
<1>4. ASSUME ~MayLose(walk.of, walk.by), NEW x \in walk'.had \ walk'.seen PROVE Unread(x)'
  <2>1. /\ x \in Lists!Listed(walk.of, walk.by)
        /\ Ahead(walk.of, walk.by, x) >= walk.page * PageSize
        /\ x \notin Lists!PageOf(walk.of, walk.by, walk.page + 1) /\ walk.page \in Nat
    BY <1>2, <1>4 DEF ReadersInv, Walks, Unread
  <2>2. /\ Ahead(walk.of, walk.by, x) >= (walk.page + 1) * PageSize
        /\ Cardinality(Lists!Listed(walk.of, walk.by)) > (walk.page + 1) * PageSize
    BY <2>1, PageShows
  <2>3. Cardinality(Lists!Listed(walk.of, walk.by)) \in Nat /\ (walk.page + 1) * PageSize \in Nat
    <3>1. IsFiniteSet(Lists!Listed(walk.of, walk.by))
      BY FS_Subset, FS_EmptySet
      DEF Lists!Listed, Lists!PastRides, Lists!PastTrips, Lists!ForDriver, ListParameters
    <3> QED BY <2>1, <3>1, FS_CardinalityType DEF ListParameters
  <2>4. PICK of, p : of = walk.of /\ p = walk.by
    OBVIOUS
  <2>5. x \in Lists!Listed(of, p)' /\ Ahead(of, p, x)' = Ahead(of, p, x)
    BY <1>3, <2>1, <2>4
  <2>6. ~walk'.over
    <3>1. ~((walk.page + 1) * PageSize >= Cardinality(Lists!Listed(walk.of, walk.by)))
      BY <2>2, <2>3
    <3> QED BY Zenon, <1>2, <3>1
  <2>7. Ahead(of, p, x)' >= walk'.page * PageSize /\ of = walk'.of /\ p = walk'.by
    BY <1>2, <2>2, <2>4, <2>5
  <2> QED BY <2>5, <2>6, <2>7 DEF Unread
<1> QED BY <1>2, <1>4 DEF ReadersInv, Walks, MayLose

LEMMA OpenWalks ==
  ASSUME ListParameters, ReadersInv, Lists!OpenList PROVE Walks'
<1>1. PICK of, p : of \in {"rides", "trips", "taken"} /\ Lists!Opens(of, p)
  BY DEF Lists!OpenList
<1>2. UNCHANGED <<ride, trip>>
  BY DEF Lists!OpenList
<1>3. walk' = [of |-> of, by |-> p, page |-> 1, had |-> Lists!Listed(of, p),
          seen |-> Lists!PageOf(of, p, 1),
               over |-> PageSize >= Cardinality(Lists!Listed(of, p))]
  BY <1>1, CountsAgree DEF Lists!Opens
<1>4. \A x : Lists!Listed(of, p)' = Lists!Listed(of, p) /\ Ahead(of, p, x)' = Ahead(of, p, x)
  BY <1>2 DEF Lists!Listed, Lists!PastRides, Lists!PastTrips, Lists!ForDriver, Ahead, Lists!Before
<1>5. ASSUME NEW x \in walk'.had \ walk'.seen PROVE Unread(x)'
  <2>1. x \in Lists!Listed(of, p) /\ x \notin Lists!PageOf(of, p, 0 + 1)
    BY <1>3, <1>5
  <2>2. IsFiniteSet(Lists!Listed(of, p)) /\ Cardinality(Lists!Listed(of, p)) \in Nat
    BY FS_Subset, FS_EmptySet, FS_CardinalityType
    DEF Lists!Listed, Lists!PastRides, Lists!PastTrips, Lists!ForDriver, ListParameters
  <2>3. Ahead(of, p, x) \in Nat
    BY <2>2, FS_Subset, FS_CardinalityType DEF Ahead
  <2>4. /\ 0 * PageSize = 0
        /\ (0 + 1) * PageSize = PageSize
        /\ 1 * PageSize = PageSize
        /\ PageSize \in Nat
    BY DEF ListParameters
  <2>5. Ahead(of, p, x) >= PageSize /\ Cardinality(Lists!Listed(of, p)) > PageSize
    <3>1. PICK n \in Nat : n = 0 /\ n + 1 = 1
      OBVIOUS
    <3>2. /\ x \in Lists!Listed(of, p) /\ x \notin Lists!PageOf(of, p, n + 1) /\ n * PageSize = 0
          /\ (n + 1) * PageSize = PageSize /\ Ahead(of, p, x) >= n * PageSize
      BY <2>1, <2>3, <2>4, <3>1
    <3>3. /\ Ahead(of, p, x) >= (n + 1) * PageSize
          /\ Cardinality(Lists!Listed(of, p)) > (n + 1) * PageSize
      BY <3>2, PageShows
    <3> QED BY <3>2, <3>3
  <2>6. x \in Lists!Listed(of, p)' /\ Ahead(of, p, x)' = Ahead(of, p, x)
    BY <1>4, <2>1
  <2>7. ~walk'.over
    <3>1. ~(PageSize >= Cardinality(Lists!Listed(of, p)))
      BY <2>2, <2>4, <2>5
    <3>2. walk'.over = (PageSize >= Cardinality(Lists!Listed(of, p)))
      BY <1>3
    <3> QED BY Zenon, <3>1, <3>2
  <2>8. Ahead(of, p, x)' >= walk'.page * PageSize /\ of = walk'.of /\ p = walk'.by
    BY <1>3, <2>4, <2>5, <2>6
  <2> QED BY <2>6, <2>7, <2>8 DEF Unread
<1> QED BY <1>1, <1>3, <1>5 DEF Walks

\* What the steps of the others do.
LEMMA RowsStay ==
  ASSUME ListParameters, ReadersInv, [Lists!Next]_(Lists!vars)
  PROVE  /\ NothingMoves /\ RowsAreRead' /\ ShowsTheCode' /\ ride' \in [DrivenRides -> RideRow]
         /\ walk' = walk \/ Lists!TurnPage \/ Lists!OpenList
<1>t. /\ ListTypes /\ trip \in [Trips -> Trip] /\ shown \in [Trips -> Nat]
      /\ (\A b \in Trips : trip[b] \in Trip) /\ ride \in [DrivenRides -> RideRow]
      /\ HaveCodes /\ RowsAreRead /\ ShowsTheCode
  BY DEF ReadersInv, ListsInv, ListTypes
<1> DEFINE Same(b) ==
      /\ trip[b].status # "NONE" =>
           trip'[b].status # "NONE" /\ trip'[b].made = trip[b].made
      /\ b \notin Legacy =>
           /\ trip[b].status \in {"COMPLETED", "CANCELLED"} => trip'[b].status = trip[b].status
           /\ trip[b].status # "NONE" => trip'[b].code = trip[b].code
           /\ trip'[b].status = "NONE" => trip[b].status = "NONE"
<1>s. ASSUME \A b \in Trips : Same(b)
      PROVE  /\ \A b \in Trips : trip[b].status # "NONE" =>
                  trip'[b].status # "NONE" /\ trip'[b].made = trip[b].made
             /\ \A b \in Trips \ Legacy :
                  trip[b].status \in {"COMPLETED", "CANCELLED"} => trip'[b].status = trip[b].status
             /\ mine' = mine => RowsAreRead'
             /\ shown' = shown => ShowsTheCode'
  <2>1. mine' = mine => RowsAreRead'
    BY <1>s, <1>t DEF RowsAreRead, ListTypes
  <2>2. shown' = shown => ShowsTheCode'
    BY <1>s, <1>t DEF ShowsTheCode
  <2> QED BY <1>s, <2>1, <2>2
<1> DEFINE Whole(b) == trip'[b] = trip[b]
<1>u. \A b \in Trips : Whole(b) => Same(b)
  BY <1>t DEF Trip
<1>v. ride' = ride =>
        ride' \in [DrivenRides -> RideRow] /\ \A r \in Lists!PastRides : ride'[r] = ride[r]
  BY <1>t
<1> DEFINE Goal == /\ NothingMoves /\ RowsAreRead' /\ ShowsTheCode' /\
                        ride' \in [DrivenRides -> RideRow]
                   /\ walk' = walk \/ Lists!TurnPage \/ Lists!OpenList
<1> HIDE DEF Same
<1>1. CASE UNCHANGED Lists!vars \/ Lists!NextDay \/ Lists!OpenList \/ Lists!TurnPage
  <2>1. UNCHANGED <<trip, mine, shown, ride>> /\ (walk' = walk \/ Lists!TurnPage \/ Lists!OpenList)
    BY <1>1 DEF Lists!vars, Lists!NextDay, Lists!OpenList, Lists!TurnPage
  <2> QED BY <1>s, <1>u, <1>v, <2>1 DEF NothingMoves
<1>2. ASSUME NEW b \in Trips, Lists!Book(b) PROVE Goal
  <2> DEFINE old == [trip[b] EXCEPT !.status = "CONFIRMED",
                                    !.made = Lists!After({trip[c].made : c \in Trips})]
             new == Lists!buildRegularPickupFields(old, RideOf[b])
  <2>1. trip' = [trip EXCEPT ![b] = new] /\ trip[b].status = "NONE"
        /\ UNCHANGED <<mine, shown, ride, walk>>
    BY <1>2 DEF Lists!Book
  <2>2. old.status = "CONFIRMED" /\ new.status = old.status
    BY <1>t DEF Trip, Lists!buildRegularPickupFields
  <2> HIDE DEF new
  <2>3. \A c \in Trips : Same(c)
    <3>1. \A c \in Trips : c # b => Whole(c)
      BY <1>t, <2>1
    <3>2. Same(b)
      BY <1>t, <2>1, <2>2 DEF Same
    <3> QED BY <1>u, <3>1, <3>2
  <2> QED BY <1>s, <1>v, <2>1, <2>3 DEF NothingMoves
<1>3. ASSUME NEW b \in Trips, Lists!CancelByRider(b) \/ Lists!VerifyPickup(b) PROVE Goal
  <2>1. /\ \/ trip' = [trip EXCEPT ![b].status = "CANCELLED"]
           \/ trip' = [trip EXCEPT ![b].pickup = "PICKED_UP"]
        /\ trip[b].status = "CONFIRMED" /\ UNCHANGED <<mine, shown, ride, walk>>
    BY <1>3 DEF Lists!CancelByRider, Lists!VerifyPickup
  <2>2. \A c \in Trips : Same(c)
    <3>1. \A c \in Trips : c # b => Whole(c)
      BY <1>t, <2>1
    <3>2. Same(b)
      BY <1>t, <2>1 DEF Same, Trip
    <3> QED BY <1>u, <3>1, <3>2
  <2> QED BY <1>s, <1>v, <2>1, <2>2 DEF NothingMoves
<1>4. ASSUME NEW r \in DrivenRides, Lists!Complete(r) \/ Lists!CallOff(r) PROVE Goal
  <2>1. PICK status \in {"COMPLETED", "CANCELLED"} :
          /\ trip' = [b \in Trips |-> IF b \in Lists!ConfirmedOn(r)
                                      THEN [trip[b] EXCEPT !.status = status] ELSE trip[b]]
          /\ Lists!Ends(r, status) /\ ride[r].status \in {"PUBLISHED", "IN_PROGRESS"}
          /\ UNCHANGED <<mine, shown, walk>>
    BY <1>4 DEF Lists!Complete, Lists!CallOff
  <2>2. ASSUME NEW b \in Trips PROVE Same(b)
    <3>1. CASE b \in Lists!ConfirmedOn(r)
      <4>1. trip'[b] = [trip[b] EXCEPT !.status = status] /\ trip[b].status = "CONFIRMED"
        BY <2>1, <3>1 DEF Lists!ConfirmedOn
      <4> QED BY <1>t, <4>1 DEF Same, Trip
    <3>2. CASE b \notin Lists!ConfirmedOn(r)
      BY <1>u, <2>1, <3>2
    <3> QED BY <3>1, <3>2
  <2>3. ride' \in [DrivenRides -> RideRow] /\ \A q \in Lists!PastRides : ride'[q] = ride[q]
    <3>1. Lists!After({ride[q].ended : q \in DrivenRides}) \in Nat
      <4> DEFINE M == {ride[q].ended : q \in DrivenRides}
      <4>1. M \in SUBSET Nat
        BY <1>t DEF RideRow
      <4>2. IsFiniteSet(M)
        <5> DEFINE f == [q \in DrivenRides |-> ride[q].ended]
        <5>1. M = {f[q] : q \in DrivenRides}
          OBVIOUS
        <5>2. IsFiniteSet({f[q] : q \in DrivenRides})
          BY ImageFinite DEF ListParameters
        <5> QED BY <5>1, <5>2
      <4> HIDE DEF M
      <4>3. Lists!After(M) \in Nat
        BY <4>1, <4>2, AfterMore
      <4> QED BY <4>3 DEF M
    <3> DEFINE row == [status |-> status, ended |-> Lists!After({ride[q].ended :
                   q \in DrivenRides})]
    <3>2. ride' = [ride EXCEPT ![r] = row] /\ row \in RideRow
      BY <2>1, <3>1 DEF Lists!Ends, RideRow
    <3> HIDE DEF row
    <3>3. r \notin Lists!PastRides
      BY <2>1 DEF Lists!PastRides
    <3> QED BY <1>t, <3>2, <3>3 DEF Lists!PastRides
  <2> QED BY <1>s, <2>1, <2>2, <2>3 DEF NothingMoves
<1>5. ASSUME NEW r \in DrivenRides, Lists!Start(r) PROVE Goal
  <2>1. /\ trip' = [b \in Trips |-> IF RideOf[b] = r
                                    THEN Lists!ensurePickupOtpMaterial(trip[b], r) ELSE trip[b]]
        /\ ride' = [ride EXCEPT ![r].status = "IN_PROGRESS"] /\ ride[r].status = "PUBLISHED"
        /\ UNCHANGED <<mine, shown, walk>>
    BY <1>5 DEF Lists!Start
  <2>2. ASSUME NEW b \in Trips PROVE Same(b)
    <3>1. /\ Lists!ensurePickupOtpMaterial(trip[b], r).status = trip[b].status
          /\ Lists!ensurePickupOtpMaterial(trip[b], r).made = trip[b].made
      BY <1>t DEF Lists!ensurePickupOtpMaterial, Lists!buildRegularPickupFields, Trip
    <3>2. b \notin Legacy => Lists!ensurePickupOtpMaterial(trip[b], r) = trip[b]
      BY <1>t, EnsuredRow DEF HaveCodes, Coded
    <3> QED BY <1>t, <2>1, <3>1, <3>2 DEF Same
  <2>3. ride' \in [DrivenRides -> RideRow] /\ \A q \in Lists!PastRides : ride'[q] = ride[q]
    <3>1. [ride[r] EXCEPT !.status = "IN_PROGRESS"] \in RideRow
      BY <1>t DEF RideRow
    <3> QED BY <1>t, <2>1, <3>1 DEF Lists!PastRides
  <2> QED BY <1>s, <2>1, <2>2, <2>3 DEF NothingMoves
<1>6. ASSUME NEW p \in Lists!Passengers, Lists!ReadMine(p) PROVE Goal
  <2>1. /\ mine' = [by |-> p, rows |-> [b \in Lists!MyTrips(p) |-> trip[b]]]
        /\ UNCHANGED <<trip, shown, ride, walk>>
    BY <1>6 DEF Lists!ReadMine
  <2>2. RowsAreRead'
    BY <2>1 DEF RowsAreRead, Lists!MyTrips
  <2> QED BY <1>s, <1>u, <1>v, <2>1, <2>2 DEF NothingMoves
<1>7. ASSUME NEW b \in Trips, Lists!Ensure(b) PROVE Goal
  <2> DEFINE new == Lists!ensurePickupOtpMaterial(mine.rows[b], RideOf[b])
  <2>1. /\ b \in DOMAIN mine.rows /\ new # mine.rows[b]
        /\ trip' = [trip EXCEPT ![b] = new]
        /\ mine' = [mine EXCEPT !.rows[b] = trip'[b]] /\ UNCHANGED <<shown, ride, walk>>
    BY <1>7 DEF Lists!Ensure
  <2>2. mine.rows[b] \in Trip
    BY <1>t, <2>1 DEF ListTypes
  <2>3. new.status = mine.rows[b].status /\ new.made = mine.rows[b].made /\ mine.rows[b].code = 0
    BY <1>t, <2>1, <2>2, EnsuredRow
    DEF Lists!ensurePickupOtpMaterial, Lists!buildRegularPickupFields, Trip
  <2>4. b \in Legacy
    BY <1>t, <2>1, <2>3 DEF HaveCodes
  <2>5. /\ new.status # "NONE" /\ new.made = trip[b].made /\ trip[b].status # "NONE"
    BY <1>t, <2>1, <2>3 DEF RowsAreRead
  <2> HIDE DEF new
  <2>6. trip'[b] = new /\ \A c \in Trips : c # b => Whole(c)
    BY <1>t, <2>1
  <2>7. \A c \in Trips : Same(c)
    <3>1. Same(b)
      BY <2>4, <2>5, <2>6 DEF Same
    <3> QED BY <1>u, <2>6, <3>1
  <2>8. /\ DOMAIN mine'.rows = DOMAIN mine.rows /\ mine'.rows[b] = new
        /\ \A c \in DOMAIN mine.rows : c # b => mine'.rows[c] = mine.rows[c]
    <3>1. mine' = [by |-> mine.by, rows |-> [mine.rows EXCEPT ![b] = new]]
      BY <1>t, <2>1, <2>6 DEF ListTypes
    <3> QED BY <1>t, <2>1, <3>1 DEF ListTypes
  <2>9. RowsAreRead'
    <3> SUFFICES ASSUME NEW c \in DOMAIN mine'.rows
                 PROVE  /\ trip'[c].status # "NONE" /\ mine'.rows[c].status # "NONE"
                        /\ mine'.rows[c].made = trip'[c].made
                        /\ c \notin Legacy => mine'.rows[c].code = trip'[c].code
      BY DEF RowsAreRead
    <3>1. CASE c = b
      BY <2>4, <2>5, <2>6, <2>8, <3>1
    <3>2. CASE c # b
      BY <1>t, <2>6, <2>8, <3>2 DEF RowsAreRead, ListTypes
    <3> QED BY <3>1, <3>2
  <2> QED BY <1>s, <1>v, <2>1, <2>7, <2>9 DEF NothingMoves
<1>8. ASSUME Lists!ShowMine PROVE Goal
  <2>1. /\ shown' = [b \in Trips |-> IF b \in DOMAIN mine.rows
                                     THEN Lists!visiblePickupOtp(mine.rows[b]) ELSE shown[b]]
        /\ mine' = Lists!Off /\ UNCHANGED <<trip, ride, walk>>
    BY <1>8 DEF Lists!ShowMine
  <2>2. RowsAreRead'
    <3>1. mine'.rows = <<>>
      BY <2>1 DEF Lists!Off
    <3>2. DOMAIN mine'.rows = {}
      BY <3>1
    <3> QED BY <3>2 DEF RowsAreRead
  <2>3. ShowsTheCode'
    BY <1>t, <2>1 DEF ShowsTheCode, RowsAreRead, Lists!visiblePickupOtp
  <2> QED BY <1>s, <1>u, <1>v, <2>1, <2>2, <2>3 DEF NothingMoves
<1>9. CASE Lists!Next
  BY <1>1, <1>2, <1>3, <1>4, <1>5, <1>6, <1>7, <1>8, <1>9 DEF Lists!Next
<1> QED BY <1>1, <1>9

LEMMA ReadersStep ==
  ASSUME ListParameters, ReadersInv, [Lists!Next]_(Lists!vars) PROVE ReadersInv'
<1>1. ListsInv'
  BY ListsStep DEF ReadersInv
<1>2. Walks'
  BY RowsStay, WalksOn, TurnWalks, OpenWalks
<1> QED BY <1>1, <1>2, RowsStay DEF ReadersInv

-----------------------------------------------------------------------------
(* Notices of a ride.                                                      *)

Reasons ==
  {"NULL", "DRIVER_REJECTED", "COMMUTE_RIDE_FULL", "RIDER_CANCELLED", "RIDE_CANCELLED",
   "ADMIN_CANCELLED", "DRIVER_NO_SHOW"}
Whats ==
  {"commute-requested", "commute-confirmed", "booking-received", "booking-confirmed",
   "commute-cancelled", "booking-cancelled", "admin-ops-cancel", "no-show-opened"}
Operations == {"none", "book", "accept", "reject", "leave", "cancel", "admin", "report", "settle"}

\* A notice is about a booking, or tells the driver of the ride as a whole.
Sayable ==
  {n \in [what : Whats, of : Travels \cup {0}, to : {"driver", "passenger"}] :
     n.of \in Travels \/ n.what = "no-show-opened" \/ (n.what = "admin-ops-cancel" /\
         n.to = "driver")}

Telling == [op : Operations, of : Travels \cup {0}, left : Seq(Sayable), failed : BOOLEAN]

TravelRow == [status : {"NONE", "PENDING", "CONFIRMED", "CANCELLED"}, reason : Reasons,
    took : BOOLEAN]

NoticeTypes ==
  /\ kind \in {"COMMUTE", "REGULAR", "ASSURED"}
  /\ toldRide \in [status : {"PUBLISHED", "CANCELLED"},
               reason : {"NULL", "DRIVER_CANCELLED", "ADMIN_CANCELLED", "DRIVER_NO_SHOW"}]
  /\ toldRide.status = "PUBLISHED" <=> toldRide.reason = "NULL"
  /\ toldBooking \in [Travels -> TravelRow]
  /\ \A b \in Travels : toldBooking[b].status = "CANCELLED" <=> toldBooking[b].reason # "NULL"
  /\ \A b \in Travels :
       toldBooking[b].reason \in {"RIDE_CANCELLED", "ADMIN_CANCELLED"} => toldRide.reason # "NULL"
  /\ claim \in {"none", "open", "settled"}
  /\ telling \in [Processes -> Telling]

\* Who has to know once an operation was answered.
MustKnow(op, b) ==
  CASE op = "cancel" -> Notices!CancelledFor("RIDE_CANCELLED") \X {"passenger"}
    [] op = "admin" -> (Notices!CancelledFor("ADMIN_CANCELLED") \X {"passenger"}) \cup
      {<<0, "driver">>}
    [] op = "reject" -> {<<b, "passenger">>}
    [] op = "leave" -> {<<b, "driver">>}
    [] OTHER -> {}

\* An operation on the ride has ended it in its own way.
Fits(op) ==
  /\ op = "cancel" => toldRide.reason = "DRIVER_CANCELLED"
  /\ op = "admin" => toldRide.reason = "ADMIN_CANCELLED"

\* The list holds a notice of the end for m.
Names(list, m) ==
  \E i \in 1..Len(list) :
    list[i] \in {Notices!Cancelled(m[1], m[2]), Notices!safeNotifyAdminRideCancelled(m[1], m[2])}

\* What waits to be told is true, and as long as no notice failed it names
\* everybody who has to know and does not yet.
WaitsRight(p) ==
  /\ \A i \in 1..Len(telling[p].left) : Notices!TrueOf(telling[p].left[i])
  /\ Fits(telling[p].op)
  /\ ~telling[p].failed =>
       \A m \in MustKnow(telling[p].op, telling[p].of) :
         Notices!Knows(m[1], m[2]) \/ Names(telling[p].left, m)

AnswersHold ==
  \A op \in Operations, b \in Travels \cup {0} :
    <<op, b>> \in answers => Fits(op) /\ \A m \in MustKnow(op, b) : Notices!Knows(m[1], m[2])

NoticesInv ==
  /\ NoticeTypes /\ (\A p \in Processes : WaitsRight(p)) /\ AnswersHold
  /\ notices \subseteq Sayable /\ Notices!NoticesAreTrue

LEMMA NoticesInitInv == Notices!Init => NoticesInv
<1> SUFFICES ASSUME Notices!Init PROVE NoticesInv
  OBVIOUS
<1>1. NoticeTypes
  BY DEF Notices!Init, NoticeTypes, Telling, TravelRow, Notices!Quiet, Reasons, Operations
<1>2. \A p \in Processes : WaitsRight(p)
  BY DEF Notices!Init, WaitsRight, Notices!Quiet, MustKnow, Fits
<1> QED BY <1>1, <1>2 DEF Notices!Init, NoticesInv, AnswersHold, Notices!NoticesAreTrue

LEMMA NoticesInvHold == NoticesInv => Notices!ToldOrToldAgain /\ Notices!NoticesAreTrue
<1> SUFFICES ASSUME NoticesInv PROVE Notices!ToldOrToldAgain /\ Notices!NoticesAreTrue
  OBVIOUS
<1>1. ASSUME <<"cancel", 0>> \in answers, NEW b \in Notices!CancelledFor("RIDE_CANCELLED")
      PROVE  Notices!Knows(b, "passenger")
  <2>1. <<b, "passenger">> \in MustKnow("cancel", 0)
    BY <1>1 DEF MustKnow
  <2>2. \A m \in MustKnow("cancel", 0) : Notices!Knows(m[1], m[2])
    BY <1>1 DEF NoticesInv, AnswersHold, Operations
  <2>3. Notices!Knows(<<b, "passenger">>[1], <<b, "passenger">>[2])
    BY <2>1, <2>2
  <2> QED BY <2>3
<1>2. ASSUME <<"admin", 0>> \in answers
      PROVE  (\A b \in Notices!CancelledFor("ADMIN_CANCELLED") : Notices!Knows(b, "passenger")) /\
               Notices!Knows(0, "driver")
  <2>2. \A m \in MustKnow("admin", 0) : Notices!Knows(m[1], m[2])
    BY <1>2 DEF NoticesInv, AnswersHold, Operations
  <2>3. MustKnow("admin", 0) =
          (Notices!CancelledFor("ADMIN_CANCELLED") \X {"passenger"}) \cup {<<0, "driver">>}
    BY DEF MustKnow
  <2>4. \A b \in Notices!CancelledFor("ADMIN_CANCELLED") :
          Notices!Knows(<<b, "passenger">>[1], <<b, "passenger">>[2])
    BY <2>2, <2>3
  <2>5. Notices!Knows(<<0, "driver">>[1], <<0, "driver">>[2])
    BY <2>2, <2>3
  <2> QED BY <2>4, <2>5
<1>3. ASSUME NEW b \in Travels
      PROVE  /\ <<"reject", b>> \in answers => Notices!Knows(b, "passenger")
             /\ <<"leave", b>> \in answers => Notices!Knows(b, "driver")
  <2>1. <<"reject", b>> \in answers => \A m \in {<<b, "passenger">>} : Notices!Knows(m[1], m[2])
    BY DEF NoticesInv, AnswersHold, Operations, MustKnow
  <2>2. <<"leave", b>> \in answers => \A m \in {<<b, "driver">>} : Notices!Knows(m[1], m[2])
    BY DEF NoticesInv, AnswersHold, Operations, MustKnow
  <2>3. <<"reject", b>> \in answers => Notices!Knows(<<b, "passenger">>[1], <<b, "passenger">>[2])
    BY <2>1
  <2>4. <<"leave", b>> \in answers => Notices!Knows(<<b, "driver">>[1], <<b, "driver">>[2])
    BY <2>2
  <2> QED BY <2>3, <2>4
<1> QED BY <1>1, <1>2, <1>3 DEF Notices!ToldOrToldAgain, NoticesInv

-----------------------------------------------------------------------------
\* What an operation does to the ride and its bookings.
Moves ==
  /\ kind' = kind
  /\ toldRide' \in [status : {"PUBLISHED", "CANCELLED"},
                reason : {"NULL", "DRIVER_CANCELLED", "ADMIN_CANCELLED", "DRIVER_NO_SHOW"}]
  /\ toldRide'.status = "PUBLISHED" <=> toldRide'.reason = "NULL"
  /\ toldRide.reason # "NULL" => toldRide'.reason = toldRide.reason
  /\ toldBooking' \in [Travels -> TravelRow]
  /\ \A b \in Travels :
       /\ toldBooking'[b].status = "CANCELLED" <=> toldBooking'[b].reason # "NULL"
       /\ toldBooking[b].status # "NONE" => toldBooking'[b].status # "NONE"
       /\ toldBooking[b].took => toldBooking'[b].took
       /\ toldBooking[b].reason # "NULL" => toldBooking'[b].reason = toldBooking[b].reason
       /\ /\ toldBooking'[b].reason \in {"RIDE_CANCELLED", "ADMIN_CANCELLED"}
          /\ toldBooking[b].reason = "NULL"
          => toldRide.reason = "NULL" /\ toldRide'.reason # "NULL"
  /\ claim' \in {"none", "open", "settled"} /\ (claim # "none" => claim' # "none")

LEMMA TrueStays ==
  ASSUME NoticeTypes, Moves, NEW n \in Sayable, Notices!TrueOf(n) PROVE Notices!TrueOf(n)'
<1>1. CASE n.of \in Travels
  BY <1>1 DEF Moves, Notices!TrueOf, Sayable, Whats, NoticeTypes
<1>2. CASE n.what = "no-show-opened"
  BY <1>2 DEF Moves, Notices!TrueOf, Sayable
<1>3. CASE n.what = "admin-ops-cancel" /\ n.to = "driver"
  BY <1>3 DEF Moves, Notices!TrueOf, Sayable
<1> QED BY <1>1, <1>2, <1>3 DEF Sayable

LEMMA MustKnowStays ==
  ASSUME NoticeTypes, Moves, NEW op, Fits(op), NEW b
  PROVE  Fits(op)' /\ MustKnow(op, b)' = MustKnow(op, b)
<1>1. Fits(op)'
  BY DEF Fits, Moves
<1>2. op = "cancel" => Notices!CancelledFor("RIDE_CANCELLED")' =
        Notices!CancelledFor("RIDE_CANCELLED")
  BY DEF Notices!CancelledFor, Fits, Moves, NoticeTypes, TravelRow
<1>3. op = "admin" => Notices!CancelledFor("ADMIN_CANCELLED")' =
        Notices!CancelledFor("ADMIN_CANCELLED")
  BY DEF Notices!CancelledFor, Fits, Moves, NoticeTypes, TravelRow
<1> QED BY <1>1, <1>2, <1>3 DEF MustKnow

\* An operation that ends as it must and lists all it has to tell.
LEMMA TellKeeps ==
  ASSUME NoticesInv, Moves, NEW p \in Processes, NEW op \in Operations \ {"none"},
         NEW b \in Travels \cup {0}, NEW list \in Seq(Sayable), Notices!Tell(p, op, b, list),
         \A i \in 1..Len(list) : Notices!TrueOf(list[i])', Fits(op)',
         \A m \in MustKnow(op, b)' : Names(list, m)'
  PROVE  NoticesInv'
<1> DEFINE new == [op |-> op, of |-> b, left |-> list, failed |-> FALSE]
<1>0. NoticeTypes /\ telling \in [Processes -> Telling] /\ new \in Telling /\ notices' = notices
  BY DEF NoticesInv, NoticeTypes, Telling, Notices!Tell
<1>1. notices' \subseteq Sayable /\ Notices!NoticesAreTrue'
  BY <1>0, TrueStays DEF NoticesInv, Notices!NoticesAreTrue
<1>2. \A c, to : Notices!Knows(c, to) => Notices!Knows(c, to)'
  BY <1>0 DEF Notices!Knows, Notices!Cancelled, Notices!safeNotifyAdminRideCancelled,
     Notices!safeNotifyCommuteCancelled,
              Notices!safeNotifyBookingCancelled, Moves
<1>3. \A l, m : Names(l, m)' = Names(l, m)
  BY DEF Names, Notices!Cancelled, Notices!safeNotifyAdminRideCancelled,
     Notices!safeNotifyCommuteCancelled,
         Notices!safeNotifyBookingCancelled, Moves
<1>4. ASSUME NEW q \in Processes, telling'[q] = telling[q] PROVE WaitsRight(q)'
  <2>1. WaitsRight(q) /\ telling[q] \in Telling
    BY <1>0 DEF NoticesInv
  <2>2. \A i \in 1..Len(telling[q].left) : Notices!TrueOf(telling[q].left[i])'
    <3> SUFFICES ASSUME NEW i \in 1..Len(telling[q].left) PROVE Notices!TrueOf(telling[q].left[i])'
      OBVIOUS
    <3>1. telling[q].left[i] \in Sayable /\ Notices!TrueOf(telling[q].left[i])
      BY <2>1 DEF Telling, WaitsRight
    <3>2. \A z \in Sayable : Notices!TrueOf(z) => Notices!TrueOf(z)'
      BY <1>0, TrueStays
    <3>3. PICK n \in Sayable : n = telling[q].left[i] /\ Notices!TrueOf(n)
      BY <3>1
    <3>4. Notices!TrueOf(n)' /\ n = telling[q].left[i]'
      BY <1>4, <3>2, <3>3
    <3> QED BY <3>4 DEF Notices!TrueOf
  <2>3. /\ Fits(telling[q].op)'
        /\ MustKnow(telling[q].op, telling[q].of)' = MustKnow(telling[q].op, telling[q].of)
    <3>1. \A o, c : Fits(o) => Fits(o)' /\ MustKnow(o, c)' = MustKnow(o, c)
      BY <1>0, MustKnowStays
    <3> QED BY <1>4, <2>1, <3>1 DEF WaitsRight, Fits, MustKnow, Notices!CancelledFor
  <2> QED BY <1>2, <1>3, <1>4, <2>1, <2>2, <2>3 DEF WaitsRight
<1>5. AnswersHold
  BY DEF NoticesInv
<1>6. \A o \in Operations, c \in Travels \cup {0} :
        <<o, c>> \in answers => Fits(o)' /\ \A m \in MustKnow(o, c)' : Notices!Knows(m[1], m[2])'
  BY <1>0, <1>2, <1>5, MustKnowStays DEF AnswersHold
<1>7. CASE list = <<>>
  <2>1. telling' = telling /\ answers' = answers \cup Notices!Ends(op, b)
    BY <1>7 DEF Notices!Tell
  <2>2. \A m \in MustKnow(op, b)' : FALSE
    <3>1. Len(list) = 0
      BY <1>7
    <3> QED BY <3>1 DEF Names
  <2>3. AnswersHold'
    <3> SUFFICES ASSUME NEW o \in Operations, NEW c \in Travels \cup {0}, <<o, c>> \in answers'
                 PROVE  Fits(o)' /\ \A m \in MustKnow(o, c)' : Notices!Knows(m[1], m[2])'
      BY DEF AnswersHold
    <3>1. CASE <<o, c>> \in answers
      BY <1>6, <3>1
    <3>2. CASE <<o, c>> \in Notices!Ends(op, b)
      BY <2>2, <3>2 DEF Notices!Ends
    <3> QED BY <2>1, <3>1, <3>2
  <2>4. NoticeTypes'
    BY <1>0, <2>1 DEF NoticeTypes, Moves
  <2> QED BY <1>1, <1>4, <2>1, <2>3, <2>4 DEF NoticesInv
<1>8. CASE list # <<>>
  <2>1. telling' = [telling EXCEPT ![p] = new] /\ answers' = answers
    BY <1>8 DEF Notices!Tell
  <2>2. NoticeTypes'
    BY <1>0, <2>1 DEF NoticeTypes, Moves
  <2>3. WaitsRight(p)'
    <3>1. telling'[p] = new
      BY <1>0, <2>1
    <3> QED BY <3>1 DEF WaitsRight, MustKnow, Fits, Names, Notices!CancelledFor
  <2>4. \A q \in Processes : WaitsRight(q)'
    BY <1>0, <1>4, <2>1, <2>3
  <2>5. AnswersHold'
    BY <1>6, <2>1 DEF AnswersHold
  <2> QED BY <1>1, <2>2, <2>4, <2>5 DEF NoticesInv
<1> QED BY <1>7, <1>8

\* The notices go out one after the other.
LEMMA SayKeeps ==
  ASSUME NoticesInv, NEW p \in Processes, Notices!safeEnqueue(p) PROVE NoticesInv'
<1> DEFINE w == telling[p]
           left == w.left
           more == [w EXCEPT !.left = Tail(left), !.failed = telling'[p].failed]
<1>0. /\ NoticeTypes /\ w \in Telling /\ left \in Seq(Sayable) /\ left # <<>>
      /\ Head(left) \in Sayable /\ Tail(left) \in Seq(Sayable) /\ Len(left) \in Nat \ {0}
      /\ Head(left) = left[1] /\ Len(Tail(left)) = Len(left) - 1
      /\ \A i \in 1..Len(left) - 1 : Tail(left)[i] = left[i + 1]
      /\ UNCHANGED <<kind, toldRide, toldBooking, claim>>
  BY DEF NoticesInv, NoticeTypes, Telling, Notices!safeEnqueue
<1>1. WaitsRight(p) /\ AnswersHold
  BY DEF NoticesInv
<1>2. /\ \A n : Notices!TrueOf(n)' = Notices!TrueOf(n)
      /\ \A o : Fits(o)' = Fits(o)
      /\ \A o, c : MustKnow(o, c)' = MustKnow(o, c)
      /\ \A l, m : Names(l, m)' = Names(l, m)
  BY <1>0 DEF Notices!TrueOf, Fits, MustKnow, Notices!CancelledFor, Names, Notices!Cancelled,
              Notices!safeNotifyAdminRideCancelled, Notices!safeNotifyCommuteCancelled,
                Notices!safeNotifyBookingCancelled
<1>3. /\ notices \subseteq notices'
      /\ notices' \subseteq notices \cup {Head(left)}
  BY DEF Notices!safeEnqueue
<1>4. \A c, to : Notices!Knows(c, to) => Notices!Knows(c, to)'
  BY <1>0, <1>3 DEF Notices!Knows, Notices!Cancelled, Notices!safeNotifyAdminRideCancelled,
     Notices!safeNotifyCommuteCancelled,
              Notices!safeNotifyBookingCancelled
<1>5. notices' \subseteq Sayable /\ Notices!NoticesAreTrue'
  <2>1. Notices!TrueOf(Head(left))
    BY <1>0, <1>1 DEF WaitsRight
  <2> QED BY <1>0, <1>2, <1>3, <2>1 DEF NoticesInv, Notices!NoticesAreTrue
<1>6. ASSUME NEW failed \in BOOLEAN, Notices!Told(p, failed), w.failed => failed,
             ~failed => Head(left) \in notices'
      PROVE  NoticesInv'
  <2>1. ASSUME NEW m \in MustKnow(w.op, w.of), ~failed
        PROVE  Notices!Knows(m[1], m[2])' \/ \E i \in 2..Len(left) :
                 left[i] \in {Notices!Cancelled(m[1], m[2]),
                     Notices!safeNotifyAdminRideCancelled(m[1], m[2])}
    <3>1. Notices!Knows(m[1], m[2]) \/ Names(left, m)
      BY <1>1, <1>6, <2>1 DEF WaitsRight
    <3>2. CASE Notices!Knows(m[1], m[2])
      BY <1>4, <3>2
    <3>3. CASE Names(left, m)
      <4>1. PICK i \in 1..Len(left) :
              left[i] \in {Notices!Cancelled(m[1], m[2]),
                  Notices!safeNotifyAdminRideCancelled(m[1], m[2])}
        BY <3>3 DEF Names
      <4>2. CASE i = 1
        <5>1. Head(left) \in notices' /\ Head(left) = left[i]
          BY <1>0, <1>6, <2>1, <4>2
        <5>2. Notices!Knows(m[1], m[2])'
          BY <1>0, <4>1, <5>1
          DEF Notices!Knows, Notices!Cancelled, Notices!safeNotifyAdminRideCancelled,
                     Notices!safeNotifyCommuteCancelled, Notices!safeNotifyBookingCancelled
        <5> QED BY <5>2
      <4>3. CASE i # 1
        BY <1>0, <4>1, <4>3
      <4> QED BY <4>2, <4>3
    <3> QED BY <3>1, <3>2, <3>3
  <2>2. ASSUME NEW q \in Processes, q # p PROVE WaitsRight(q)'
    <3>1. telling'[q] = telling[q] /\ WaitsRight(q)
      BY <1>0, <1>6, <2>2 DEF Notices!Told, NoticesInv, NoticeTypes
    <3> QED BY <1>2, <1>4, <3>1 DEF WaitsRight
  <2>3. CASE Len(left) > 1
    <3> DEFINE next == [w EXCEPT !.left = Tail(left), !.failed = failed]
    <3>1. telling' = [telling EXCEPT ![p] = next] /\ answers' = answers /\ telling'[p] = next
      BY <1>0, <1>6, <2>3 DEF Notices!Told, NoticeTypes, Telling
    <3>2. next \in Telling /\ next.op = w.op /\ next.of = w.of /\ next.left = Tail(left)
          /\ next.failed = failed
      BY <1>0, <1>6 DEF Telling
    <3> HIDE DEF next
    <3>3. NoticeTypes'
      BY <1>0, <3>1, <3>2 DEF NoticeTypes
    <3>4. \A i \in 1..Len(Tail(left)) : Notices!TrueOf(Tail(left)[i])
      BY <1>0, <1>1 DEF WaitsRight
    <3>5. ~failed => \A m \in MustKnow(w.op, w.of) :
                       Notices!Knows(m[1], m[2])' \/ Names(Tail(left), m)
      <4> SUFFICES ASSUME ~failed, NEW m \in MustKnow(w.op, w.of), ~Notices!Knows(m[1], m[2])'
                   PROVE  Names(Tail(left), m)
        OBVIOUS
      <4>1. PICK i \in 2..Len(left) :
              left[i] \in {Notices!Cancelled(m[1], m[2]),
                  Notices!safeNotifyAdminRideCancelled(m[1], m[2])}
        BY <2>1
      <4>2. i - 1 \in 1..Len(Tail(left)) /\ Tail(left)[i - 1] = left[i]
        BY <1>0, <4>1
      <4> QED BY <4>1, <4>2 DEF Names
    <3>6. WaitsRight(p)'
      BY <1>1, <1>2, <3>1, <3>2, <3>4, <3>5 DEF WaitsRight
    <3>7. AnswersHold'
      BY <1>1, <1>2, <1>4, <3>1 DEF AnswersHold
    <3> QED BY <1>5, <2>2, <3>3, <3>6, <3>7 DEF NoticesInv
  <2>4. CASE ~(Len(left) > 1)
    <3>1. /\ telling' = [telling EXCEPT ![p] = Notices!Quiet] /\ telling'[p] = Notices!Quiet
          /\ answers' = IF failed THEN answers ELSE answers \cup Notices!Ends(w.op, w.of)
      BY <1>0, <1>6, <2>4 DEF Notices!Told, NoticeTypes
    <3>2. NoticeTypes'
      BY <1>0, <3>1 DEF NoticeTypes, Notices!Quiet, Telling, Operations
    <3>3. WaitsRight(p)'
      BY <3>1 DEF WaitsRight, Notices!Quiet, Fits, MustKnow
    <3>4. AnswersHold'
      <4> SUFFICES ASSUME NEW o \in Operations, NEW c \in Travels \cup {0}, <<o, c>> \in answers'
                   PROVE  Fits(o)' /\ \A m \in MustKnow(o, c)' : Notices!Knows(m[1], m[2])'
        BY DEF AnswersHold
      <4>1. CASE <<o, c>> \in answers
        BY <1>1, <1>2, <1>4, <4>1 DEF AnswersHold
      <4>2. CASE ~failed /\ <<o, c>> \in Notices!Ends(w.op, w.of)
        <5>1. o = w.op /\ c = w.of
          BY <4>2 DEF Notices!Ends
        <5>2. \A m \in MustKnow(w.op, w.of) : Notices!Knows(m[1], m[2])'
          BY <1>0, <2>1, <2>4, <4>2
        <5> QED BY <1>1, <1>2, <5>1, <5>2 DEF WaitsRight
      <4> QED BY <3>1, <4>1, <4>2
    <3> QED BY <1>5, <2>2, <3>2, <3>3, <3>4 DEF NoticesInv
  <2> QED BY <2>3, <2>4
<1>7. CASE notices' = notices \cup {Head(left)} /\ Notices!Told(p, w.failed)
  BY <1>0, <1>6, <1>7 DEF Telling
<1>8. CASE Notices!Told(p, TRUE)
  BY <1>6, <1>8
<1> QED BY <1>7, <1>8 DEF Notices!safeEnqueue

\* A process that dies forgets its list.
LEMMA DieKeeps ==
  ASSUME NoticesInv, NEW p \in Processes, Notices!Crash(p) PROVE NoticesInv'
<1>0. /\ NoticeTypes /\ UNCHANGED <<kind, toldRide, toldBooking, claim, notices, answers>>
      /\ telling' = [telling EXCEPT ![p] = Notices!Quiet]
  BY DEF NoticesInv, Notices!Crash
<1>1. /\ NoticeTypes'
      /\ telling'[p] = Notices!Quiet
      /\ \A q \in Processes : q # p => telling'[q] = telling[q]
  BY <1>0 DEF NoticeTypes, Notices!Quiet, Telling, Operations
<1>2. /\ \A n : Notices!TrueOf(n)' = Notices!TrueOf(n)
      /\ \A o : Fits(o)' = Fits(o)
      /\ \A o, c : MustKnow(o, c)' = MustKnow(o, c)
      /\ \A l, m : Names(l, m)' = Names(l, m)
      /\ \A c, to : Notices!Knows(c, to)' = Notices!Knows(c, to)
  BY <1>0 DEF Notices!TrueOf, Fits, MustKnow, Notices!CancelledFor, Names, Notices!Knows,
     Notices!Cancelled,
              Notices!safeNotifyAdminRideCancelled, Notices!safeNotifyCommuteCancelled,
                Notices!safeNotifyBookingCancelled
<1>3. WaitsRight(p)'
  BY <1>1 DEF WaitsRight, Notices!Quiet, Fits, MustKnow
<1>4. ASSUME NEW q \in Processes, q # p PROVE WaitsRight(q)'
  BY <1>1, <1>2, <1>4 DEF WaitsRight, NoticesInv
<1>5. AnswersHold' /\ Notices!NoticesAreTrue' /\ notices' \subseteq Sayable
  BY <1>0, <1>2 DEF NoticesInv, AnswersHold, Notices!NoticesAreTrue
<1> QED BY <1>1, <1>3, <1>4, <1>5 DEF NoticesInv

-----------------------------------------------------------------------------
\* Every booking of a set is told once in its order.
LEMMA NoticesInOrderLists ==
  ASSUME NoticeParameters, NEW S \in SUBSET Travels
  PROVE  /\ Notices!InOrder(S) \in Seq(S)
         /\ \A b \in S : \E i \in 1..Len(Notices!InOrder(S)) : Notices!InOrder(S)[i] = b
<1> DEFINE R == {x \in Nat \X Nat : x[1] < x[2]}
           n == Cardinality(S)
<1>1. IsFiniteSet(S) /\ n \in Nat /\ S \subseteq Nat
  BY FS_Subset, FS_CardinalityType DEF NoticeParameters
<1>2. Orders(R, S)
  BY <1>1 DEF Orders
<1>3. \A x, y \in S : <<x, y>> \in R <=> x < y
  BY <1>1
<1> HIDE DEF R
<1>4. PICK s : Sorts(s, S, R)
  BY <1>1, <1>2, SortedExists
<1>5. s \in [1..n -> S] /\ \A i, j \in 1..n : i < j => s[i] < s[j]
  BY <1>3, <1>4 DEF Sorts
<1>6. /\ Notices!InOrder(S) \in [1..n -> S]
      /\ \A i, j \in 1..n : i < j => Notices!InOrder(S)[i] < Notices!InOrder(S)[j]
  BY <1>5, CountsAgree DEF Notices!InOrder
<1>7. Sorts(Notices!InOrder(S), S, R)
  BY <1>3, <1>6 DEF Sorts
<1>8. \A b \in S : \E i \in 1..n : Notices!InOrder(S)[i] = b
  BY <1>1, <1>2, <1>7, SortedApart
<1> QED BY <1>1, <1>6, <1>8

\* The notices of the ends of the bookings in S.
LEMMA EndedList ==
  ASSUME NoticeParameters, NoticeTypes, NEW S \in SUBSET Travels
  PROVE  /\ Notices!notifyRideCancelledPassengers(S) \in Seq(Sayable)
         /\ \A i \in 1..Len(Notices!notifyRideCancelledPassengers(S)) :
              \E b \in S : Notices!notifyRideCancelledPassengers(S)[i] =
                Notices!Cancelled(b, "passenger")
         /\ \A b \in S : Names(Notices!notifyRideCancelledPassengers(S), <<b, "passenger">>)
<1> DEFINE list == Notices!notifyRideCancelledPassengers(S)
           row == Notices!InOrder(S)
<1>1. row \in Seq(S) /\ \A b \in S : \E i \in 1..Len(row) : row[i] = b
  BY NoticesInOrderLists
<1>2. list = [i \in 1..Len(row) |-> Notices!Cancelled(row[i], "passenger")]
  BY <1>1 DEF Notices!notifyRideCancelledPassengers
<1>3. \A b \in S : Notices!Cancelled(b, "passenger") \in Sayable
  BY DEF Notices!Cancelled, Notices!safeNotifyCommuteCancelled, Notices!safeNotifyBookingCancelled,
     Notices!Notice, Sayable, Whats
<1> HIDE DEF row, list
<1>4. list \in Seq(Sayable) /\ Len(list) = Len(row)
      /\ \A i \in 1..Len(row) : list[i] = Notices!Cancelled(row[i], "passenger") /\ row[i] \in S
  <2>1. Len(row) \in Nat /\ \A i \in 1..Len(row) : row[i] \in S
    BY <1>1, MembersOf
  <2>2. \A i \in 1..Len(row) : list[i] = Notices!Cancelled(row[i], "passenger")
    BY <1>2
  <2>3. list \in [1..Len(row) -> Sayable]
    BY <1>2, <1>3, <2>1
  <2> QED BY <2>1, <2>2, <2>3, ListOf
<1>5. ASSUME NEW b \in S PROVE Names(list, <<b, "passenger">>)
  <2>1. PICK i \in 1..Len(row) : row[i] = b
    BY <1>1
  <2> QED BY <1>4, <2>1 DEF Names
<1> QED BY <1>4, <1>5 DEF list

\* ... and what Operations tells the driver and the passengers of S.
LEMMA OperationsList ==
  ASSUME NoticeParameters, NoticeTypes, NEW S \in SUBSET Travels
  PROVE  /\ Notices!dispatchSideEffects(S) \in Seq(Sayable)
         /\ \A i \in 1..Len(Notices!dispatchSideEffects(S)) :
              \/ Notices!dispatchSideEffects(S)[i] = Notices!safeNotifyAdminRideCancelled(0,
                     "driver")
              \/ \E b \in S : Notices!dispatchSideEffects(S)[i] =
                   Notices!safeNotifyAdminRideCancelled(b, "passenger")
         /\ \A b \in S : Names(Notices!dispatchSideEffects(S), <<b, "passenger">>)
         /\ Names(Notices!dispatchSideEffects(S), <<0, "driver">>)
<1> DEFINE list == Notices!dispatchSideEffects(S)
           row == Notices!InOrder(S)
           first == Notices!safeNotifyAdminRideCancelled(0, "driver")
           rest == [i \in 1..Len(row) |-> Notices!safeNotifyAdminRideCancelled(row[i], "passenger")]
<1>1. row \in Seq(S) /\ \A b \in S : \E i \in 1..Len(row) : row[i] = b
  BY NoticesInOrderLists
<1>2. list = <<first>> \o rest
  BY <1>1 DEF Notices!dispatchSideEffects
<1>3. /\ first \in Sayable
      /\ \A b \in S : Notices!safeNotifyAdminRideCancelled(b, "passenger") \in Sayable
  BY DEF Notices!safeNotifyAdminRideCancelled, Notices!Notice, Sayable, Whats
<1> HIDE DEF row
<1>4. rest \in Seq(Sayable) /\ Len(rest) = Len(row)
      /\ \A i \in 1..Len(row) :
           rest[i] = Notices!safeNotifyAdminRideCancelled(row[i], "passenger") /\ row[i] \in S
  <2>1. Len(row) \in Nat /\ \A i \in 1..Len(row) : row[i] \in S
    BY <1>1, MembersOf
  <2>2. \A i \in 1..Len(row) :
          rest[i] = Notices!safeNotifyAdminRideCancelled(row[i], "passenger")
    OBVIOUS
  <2>3. rest \in [1..Len(row) -> Sayable]
    BY <1>3, <2>1
  <2> QED BY <2>1, <2>2, <2>3, ListOf
<1> HIDE DEF rest, list, first
<1>5. /\ list \in Seq(Sayable) /\ Len(list) = Len(row) + 1
      /\ list[1] = first
      /\ \A i \in 1..Len(row) : list[i + 1] = rest[i]
      /\ \A i \in 2..Len(row) + 1 : list[i] = rest[i - 1]
  BY <1>1, <1>2, <1>3, <1>4
<1>6. ASSUME NEW b \in S PROVE Names(list, <<b, "passenger">>)
  <2>1. PICK i \in 1..Len(row) : row[i] = b
    BY <1>1
  <2>2. i + 1 \in 1..Len(list) /\ list[i + 1] = Notices!safeNotifyAdminRideCancelled(b, "passenger")
    BY <1>1, <1>4, <1>5, <2>1
  <2> QED BY <2>2 DEF Names
<1>7. Names(list, <<0, "driver">>)
  <2>1. 1 \in 1..Len(list) /\ list[1] = Notices!safeNotifyAdminRideCancelled(0, "driver")
    BY <1>1, <1>5 DEF first
  <2> QED BY <2>1 DEF Names
<1>8. ASSUME NEW i \in 1..Len(list)
      PROVE  list[i] = first \/ \E b \in S : list[i] = Notices!safeNotifyAdminRideCancelled(b,
                 "passenger")
  <2>1. CASE i = 1
    BY <1>5, <2>1
  <2>2. CASE i # 1
    <3>0. Len(row) \in Nat /\ i \in 2..Len(row) + 1
      BY <1>1, <1>5, <2>2
    <3>1. i - 1 \in 1..Len(row) /\ list[i] = rest[i - 1]
      BY <1>5, <3>0
    <3> QED BY <1>4, <3>1
  <2> QED BY <2>1, <2>2
<1> QED BY <1>5, <1>6, <1>7, <1>8 DEF first, list

\* Ending bookings that go on, or ended for that reason already.
LEMMA CancelMoves ==
  ASSUME NoticeTypes, NEW why \in Reasons \ {"NULL"}, NEW S \in SUBSET Travels,
         \A b \in S : Notices!Active(b) \/ toldBooking[b].reason = why,
         toldBooking' = Notices!Cancel(toldBooking, S, why),
         why \in {"RIDE_CANCELLED", "ADMIN_CANCELLED"} =>
           toldRide.reason = "NULL" /\ toldRide'.reason # "NULL",
         UNCHANGED <<kind, claim>>,
         UNCHANGED toldRide \/ (toldRide.reason = "NULL" /\
           toldRide' \in [status : {"CANCELLED"},
                      reason : {"DRIVER_CANCELLED", "ADMIN_CANCELLED", "DRIVER_NO_SHOW"}])
  PROVE  /\ Moves
         /\ \A b \in S : toldBooking'[b].reason = why
         /\ \A b \in Travels \ S : toldBooking'[b] = toldBooking[b]
<1>1. ASSUME NEW b \in S
      PROVE  /\ toldBooking'[b] \in TravelRow /\ toldBooking'[b].reason = why
             /\ toldBooking'[b].status = "CANCELLED"
             /\ toldBooking'[b].took = toldBooking[b].took
  BY <1>1 DEF Notices!Cancel, NoticeTypes, TravelRow
<1>2. \A b \in Travels \ S : toldBooking'[b] = toldBooking[b]
  BY DEF Notices!Cancel
<1>3. toldBooking' \in [Travels -> TravelRow]
  <2>1. \A b \in Travels : toldBooking'[b] \in TravelRow
    BY <1>1, <1>2 DEF NoticeTypes
  <2>2. toldBooking' = [b \in Travels |-> toldBooking'[b]]
    BY DEF Notices!Cancel
  <2> QED BY <2>1, <2>2
<1>4. ASSUME NEW b \in Travels
      PROVE  /\ toldBooking'[b].status = "CANCELLED" <=> toldBooking'[b].reason # "NULL"
             /\ toldBooking[b].status # "NONE" => toldBooking'[b].status # "NONE"
             /\ toldBooking[b].took => toldBooking'[b].took
             /\ toldBooking[b].reason # "NULL" => toldBooking'[b].reason = toldBooking[b].reason
             /\ /\ toldBooking'[b].reason \in {"RIDE_CANCELLED", "ADMIN_CANCELLED"}
                /\ toldBooking[b].reason = "NULL"
                => toldRide.reason = "NULL" /\ toldRide'.reason # "NULL"
  <2>1. CASE b \in S
    BY <1>1, <2>1 DEF NoticeTypes, Notices!Active
  <2>2. CASE b \notin S
    BY <1>2, <2>2 DEF NoticeTypes
  <2> QED BY <2>1, <2>2
<1>5. Moves
  BY <1>3, <1>4 DEF Moves, NoticeTypes
<1> QED BY <1>1, <1>2, <1>5

\* A notice that a booking ended is true once it has.
LEMMA EndIsTrue ==
  ASSUME NEW b,
         toldBooking'[b].reason \in {"DRIVER_REJECTED", "COMMUTE_RIDE_FULL", "RIDE_CANCELLED",
             "DRIVER_NO_SHOW"},
         kind' = kind
  PROVE  \A n : n = Notices!Cancelled(b, "passenger") => Notices!TrueOf(n)'
BY DEF Notices!TrueOf, Notices!Cancelled, Notices!safeNotifyCommuteCancelled,
   Notices!safeNotifyBookingCancelled, Notices!Notice

\* One booking that is made or confirmed.
LEMMA TakeMoves ==
  ASSUME NoticeTypes, NEW b \in Travels, NEW row \in TravelRow,
         toldBooking[b].reason = "NULL", row.reason = "NULL",
         row.status \in {"PENDING", "CONFIRMED"},
         toldBooking[b].took => row.took,
         toldBooking' = [toldBooking EXCEPT ![b] = row],
         UNCHANGED <<kind, toldRide>>, claim' = claim
  PROVE  Moves
BY DEF Moves, NoticeTypes, TravelRow

LEMMA BookKeeps ==
  ASSUME NoticesInv, NEW p \in Processes, NEW b \in Travels, Notices!Book(p, b) PROVE NoticesInv'
<1>0. NoticeTypes /\ toldBooking[b] \in TravelRow /\ toldBooking[b].reason = "NULL"
      /\ Notices!Tell(p, "book", b, Notices!afterBookingPersisted(b))
      /\ UNCHANGED <<kind, toldRide, claim>>
  BY DEF NoticesInv, NoticeTypes, Notices!Book, Notices!Tell
<1>1. PICK row \in TravelRow :
        /\ toldBooking' = [toldBooking EXCEPT ![b] = row]
        /\ toldBooking'[b] = row
        /\ row.reason = "NULL"
        /\ row.status = IF kind = "COMMUTE" THEN "PENDING" ELSE "CONFIRMED"
        /\ toldBooking[b].took => row.took
        /\ kind # "COMMUTE" => row.took
  <2>1. CASE kind = "COMMUTE"
    <3> DEFINE row == [toldBooking[b] EXCEPT !.status = "PENDING"]
    <3>1. row \in TravelRow /\ toldBooking' = [toldBooking EXCEPT ![b] = row]
      BY <1>0, <2>1 DEF Notices!Book, TravelRow
    <3> QED BY <1>0, <2>1, <3>1 DEF TravelRow, NoticeTypes
  <2>2. CASE kind # "COMMUTE"
    <3> DEFINE row == [toldBooking[b] EXCEPT !.status = "CONFIRMED", !.took = TRUE]
    <3>1. row \in TravelRow /\ toldBooking' = [toldBooking EXCEPT ![b] = row]
      BY <1>0, <2>2 DEF Notices!Book, Notices!Take, TravelRow
    <3> QED BY <1>0, <2>2, <3>1 DEF TravelRow, NoticeTypes
  <2> QED BY <2>1, <2>2
<1>2. Moves
  BY <1>0, <1>1, TakeMoves
<1>3. PICK list : list = Notices!afterBookingPersisted(b)
  OBVIOUS
<1>4. /\ \A n : n \in {Notices!safeNotifyCommuteRequested(b),
             Notices!safeNotifyBookingReceived(b)} =>
           n \in Sayable /\ Notices!TrueOf(n)'
      /\ \A n : n = Notices!safeNotifyBookingConfirmed(b) /\ kind # "COMMUTE" =>
           n \in Sayable /\ Notices!TrueOf(n)'
  BY <1>1 DEF Notices!safeNotifyCommuteRequested, Notices!safeNotifyBookingReceived,
     Notices!safeNotifyBookingConfirmed,
              Notices!Notice, Sayable, Whats, Notices!TrueOf
<1>5. list \in Seq(Sayable) /\ \A i \in 1..Len(list) : Notices!TrueOf(list[i])'
  <2>1. CASE kind = "COMMUTE"
    <3>1. PICK n : n = Notices!safeNotifyCommuteRequested(b) /\ list = <<n>>
      BY <1>3, <2>1 DEF Notices!afterBookingPersisted
    <3>2. n \in Sayable /\ Notices!TrueOf(n)'
      BY <1>4, <3>1
    <3>3. Len(list) = 1 /\ list[1] = n /\ list \in Seq(Sayable)
      BY <3>1, <3>2
    <3> QED BY <3>2, <3>3
  <2>2. CASE kind # "COMMUTE"
    <3>1. PICK n, m : /\ n = Notices!safeNotifyBookingReceived(b)
                      /\ m = Notices!safeNotifyBookingConfirmed(b)
                      /\ list = <<n, m>>
      BY <1>3, <2>2 DEF Notices!afterBookingPersisted
    <3>2. n \in Sayable /\ Notices!TrueOf(n)' /\ m \in Sayable /\ Notices!TrueOf(m)'
      BY <1>4, <2>2, <3>1
    <3>3. Len(list) = 2 /\ list[1] = n /\ list[2] = m /\ list \in Seq(Sayable)
      BY <3>1, <3>2
    <3> QED BY <3>2, <3>3
  <2> QED BY <2>1, <2>2
<1>6. /\ Notices!Tell(p, "book", b, list)
      /\ Fits("book")'
      /\ \A m \in MustKnow("book", b)' : Names(list, m)'
  BY <1>0, <1>3 DEF Fits, MustKnow
<1> QED BY <1>2, <1>5, <1>6, TellKeeps DEF Operations

\* The notices of ended bookings, told after they have.
LEMMA EndedListTrue ==
  ASSUME NoticeParameters, NoticeTypes, kind' = kind, NEW S \in SUBSET Travels,
         \A b \in S : toldBooking'[b].reason \in
           {"DRIVER_REJECTED", "COMMUTE_RIDE_FULL", "RIDE_CANCELLED", "DRIVER_NO_SHOW"},
         NEW list, list = Notices!notifyRideCancelledPassengers(S)
  PROVE  /\ list \in Seq(Sayable) /\ \A i \in 1..Len(list) : Notices!TrueOf(list[i])'
         /\ \A b \in S : \A m : m = <<b, "passenger">> => Names(list, m)'
<1>1. /\ list \in Seq(Sayable)
      /\ \A i \in 1..Len(list) : \E b \in S : list[i] = Notices!Cancelled(b, "passenger")
      /\ \A b \in S : Names(list, <<b, "passenger">>)
  BY EndedList
<1>2. ASSUME NEW i \in 1..Len(list) PROVE Notices!TrueOf(list[i])'
  <2>1. PICK b \in S : list[i] = Notices!Cancelled(b, "passenger")
    BY <1>1
  <2> QED BY <2>1, EndIsTrue
<1>3. \A l, m : Names(l, m)' = Names(l, m)
  BY DEF Names, Notices!Cancelled, Notices!safeNotifyAdminRideCancelled,
     Notices!safeNotifyCommuteCancelled,
         Notices!safeNotifyBookingCancelled
<1> QED BY <1>1, <1>2, <1>3

LEMMA AcceptKeeps ==
  ASSUME NoticeParameters, NoticesInv, NEW p \in Processes, NEW b \in Travels,
         Notices!acceptCommuteBookingByDriver(p, b)
  PROVE  NoticesInv'
<1>0. /\ NoticeTypes /\ toldBooking[b] \in TravelRow /\ UNCHANGED <<kind, toldRide, claim>>
      /\ Fits("accept")' /\ MustKnow("accept", b)' = {}
  BY DEF NoticesInv, NoticeTypes, Notices!acceptCommuteBookingByDriver, Notices!Tell, Fits, MustKnow
<1>1. CASE Notices!Tell(p, "accept", b, <<>>) /\ UNCHANGED toldBooking
  <2>1. Moves
    BY <1>0, <1>1 DEF Moves, NoticeTypes
  <2>2. PICK list : list = <<>>
    OBVIOUS
  <2>3. list \in Seq(Sayable) /\ Len(list) = 0 /\ Notices!Tell(p, "accept", b, list)
    BY <1>1, <2>2
  <2>4. /\ \A i \in 1..Len(list) : Notices!TrueOf(list[i])'
        /\ \A m \in MustKnow("accept", b)' : Names(list, m)'
    BY <1>0, <2>3
  <2> QED BY <1>0, <2>1, <2>3, <2>4, TellKeeps DEF Operations
<1>2. ASSUME toldBooking[b].status = "PENDING",
             NEW with, with = Notices!Take(toldBooking, b),
             NEW late \in SUBSET {c \in Travels : with[c].status = "PENDING"},
             toldBooking' = Notices!Cancel(with, late, "COMMUTE_RIDE_FULL"),
             NEW list, list = Notices!notifyRideCancelledPassengers(late),
             NEW said, said = Append(list, Notices!safeNotifyCommuteConfirmed(b)),
             Notices!Tell(p, "accept", b, said)
      PROVE  NoticesInv'
  <2> DEFINE row == [toldBooking[b] EXCEPT !.status = "CONFIRMED", !.took = TRUE]
  <2>1. /\ row \in TravelRow
        /\ with = [toldBooking EXCEPT ![b] = row]
        /\ toldBooking[b].reason = "NULL"
        /\ with \in [Travels -> TravelRow] /\ with[b] = row
    BY <1>0, <1>2 DEF Notices!Take, TravelRow, NoticeTypes
  <2>2. b \notin late /\ \A c \in late : c \in Travels /\ toldBooking[c].status = "PENDING"
    BY <1>2, <2>1
  <2>3. /\ \A c \in late : /\ toldBooking'[c] \in TravelRow /\ toldBooking'[c].status = "CANCELLED"
                           /\ toldBooking'[c].reason = "COMMUTE_RIDE_FULL"
                           /\ toldBooking'[c].took = with[c].took
        /\ \A c \in Travels \ late : toldBooking'[c] = with[c]
        /\ toldBooking' = [c \in Travels |-> toldBooking'[c]]
    <3>1. toldBooking' = Notices!Cancel(with, late, "COMMUTE_RIDE_FULL") /\ late \subseteq Travels
      BY <1>2
    <3> QED BY <2>1, <3>1 DEF Notices!Cancel, TravelRow, Reasons
  <2>9. \A c \in Travels : c # b => with[c] = toldBooking[c]
    BY <1>0, <2>1 DEF NoticeTypes
  <2>10. row.status = "CONFIRMED" /\ row.took /\ row.reason = "NULL"
    BY <1>0, <2>1 DEF TravelRow
  <2> HIDE DEF row
  <2>4. \A c \in Travels :
          /\ toldBooking'[c] \in TravelRow
          /\ toldBooking'[c].status = "CANCELLED" <=> toldBooking'[c].reason # "NULL"
          /\ toldBooking[c].status # "NONE" => toldBooking'[c].status # "NONE"
          /\ toldBooking[c].took => toldBooking'[c].took
          /\ toldBooking[c].reason # "NULL" => toldBooking'[c].reason = toldBooking[c].reason
          /\ toldBooking'[c].reason \in {"RIDE_CANCELLED", "ADMIN_CANCELLED"} =>
               toldBooking[c].reason # "NULL"
    <3> SUFFICES ASSUME NEW c \in Travels
                 PROVE  /\ toldBooking'[c] \in TravelRow
                        /\ toldBooking'[c].status = "CANCELLED" <=> toldBooking'[c].reason # "NULL"
                        /\ toldBooking[c].status # "NONE" => toldBooking'[c].status # "NONE"
                        /\ toldBooking[c].took => toldBooking'[c].took
                        /\ toldBooking[c].reason # "NULL" =>
                             toldBooking'[c].reason = toldBooking[c].reason
                        /\ toldBooking'[c].reason \in {"RIDE_CANCELLED", "ADMIN_CANCELLED"} =>
                             toldBooking[c].reason # "NULL"
      OBVIOUS
    <3>1. CASE c \in late
      BY <1>0, <2>2, <2>3, <2>9, <3>1 DEF NoticeTypes
    <3>2. CASE c = b
      BY <1>0, <2>1, <2>2, <2>3, <2>10, <3>2 DEF NoticeTypes
    <3>3. CASE c \notin late /\ c # b
      <4>1. toldBooking'[c] = toldBooking[c]
        BY <2>3, <2>9, <3>3
      <4> QED BY <1>0, <4>1 DEF NoticeTypes
    <3> QED BY <3>1, <3>2, <3>3
  <2>5. Moves
    BY <1>0, <2>3, <2>4 DEF Moves, NoticeTypes
  <2>6. list \in Seq(Sayable) /\ \A i \in 1..Len(list) : Notices!TrueOf(list[i])'
    <3>1. late \in SUBSET Travels /\ list = Notices!notifyRideCancelledPassengers(late)
      BY <1>2
    <3> QED BY <1>0, <2>3, <3>1, EndedListTrue
  <2>7. \A n : n = Notices!safeNotifyCommuteConfirmed(b) => n \in Sayable /\ Notices!TrueOf(n)'
    BY <2>1, <2>2, <2>3, <2>10
    DEF Notices!safeNotifyCommuteConfirmed, Notices!Notice, Sayable, Whats, Notices!TrueOf
  <2>8. said \in Seq(Sayable) /\ \A i \in 1..Len(said) : Notices!TrueOf(said[i])'
    <3>1. PICK n \in Sayable : n = Notices!safeNotifyCommuteConfirmed(b) /\ Notices!TrueOf(n)'
      BY <2>7
    <3>2. said = Append(list, n)
      BY <1>2, <3>1
    <3>3. said \in Seq(Sayable) /\ Len(said) = Len(list) + 1 /\ said[Len(list) + 1] = n
          /\ \A i \in 1..Len(list) : said[i] = list[i]
      BY <2>6, <3>2
    <3>4. ASSUME NEW i \in 1..Len(said) PROVE Notices!TrueOf(said[i])'
      <4>1. i \in 1..Len(list) \/ i = Len(list) + 1
        BY <2>6, <3>3
      <4> QED BY <2>6, <3>1, <3>3, <4>1
    <3> QED BY <3>3, <3>4
  <2> QED BY <1>0, <1>2, <2>5, <2>8, TellKeeps DEF Operations
<1> QED BY <1>1, <1>2 DEF Notices!acceptCommuteBookingByDriver

LEMMA RejectKeeps ==
  ASSUME NoticeParameters, NoticesInv, NEW p \in Processes, NEW b \in Travels,
         Notices!rejectCommuteBookingByDriver(p, b)
  PROVE  NoticesInv'
<1>0. NoticeTypes /\ UNCHANGED <<kind, toldRide, claim>>
      /\ toldBooking' = Notices!Cancel(toldBooking, {b}, "DRIVER_REJECTED")
      /\ (Notices!Active(b) \/ toldBooking[b].reason = "DRIVER_REJECTED")
  BY DEF NoticesInv, Notices!rejectCommuteBookingByDriver, Notices!Tell, Notices!Active,
     Notices!CancelledFor
<1>1. Moves /\ toldBooking'[b].reason = "DRIVER_REJECTED"
  <2>1. {b} \in SUBSET Travels /\ "DRIVER_REJECTED" \in Reasons \ {"NULL"}
    BY DEF Reasons
  <2>2. \A c \in {b} : Notices!Active(c) \/ toldBooking[c].reason = "DRIVER_REJECTED"
    BY <1>0
  <2> QED BY <1>0, <2>1, <2>2, CancelMoves
<1>2. PICK list : list = Notices!notifyRideCancelledPassengers({b})
  OBVIOUS
<1>3. /\ list \in Seq(Sayable) /\ \A i \in 1..Len(list) : Notices!TrueOf(list[i])'
      /\ \A m : m = <<b, "passenger">> => Names(list, m)'
  BY <1>0, <1>1, <1>2, EndedListTrue
<1>4. Notices!Tell(p, "reject", b, list) /\ Fits("reject")'
      /\ \A m \in MustKnow("reject", b)' : m = <<b, "passenger">>
  BY <1>2 DEF Notices!rejectCommuteBookingByDriver, Fits, MustKnow
<1> QED BY <1>1, <1>3, <1>4, TellKeeps DEF Operations

LEMMA LeaveKeeps ==
  ASSUME NoticesInv, NEW p \in Processes, NEW b \in Travels, Notices!cancelByPassenger(p, b)
  PROVE  NoticesInv'
<1>0. NoticeTypes /\ UNCHANGED <<kind, toldRide, claim>>
      /\ toldBooking' = Notices!Cancel(toldBooking, {b}, "RIDER_CANCELLED")
      /\ (Notices!Active(b) \/ toldBooking[b].reason = "RIDER_CANCELLED")
  BY DEF NoticesInv, Notices!cancelByPassenger, Notices!Tell, Notices!CancelledFor
<1>1. Moves /\ toldBooking'[b].reason = "RIDER_CANCELLED"
  BY <1>0, CancelMoves DEF Reasons
<1>2. PICK n : n = Notices!Cancelled(b, "driver")
  OBVIOUS
<1>3. n \in Sayable /\ Notices!TrueOf(n)'
  BY <1>1, <1>2 DEF Notices!Cancelled, Notices!safeNotifyCommuteCancelled,
     Notices!safeNotifyBookingCancelled, Notices!Notice,
                    Sayable, Whats, Notices!TrueOf
<1>4. PICK list : list = <<n>>
  OBVIOUS
<1>5. list \in Seq(Sayable) /\ Len(list) = 1 /\ list[1] = n
  BY <1>3, <1>4
<1>6. Notices!Tell(p, "leave", b, list) /\ Fits("leave")'
      /\ \A m \in MustKnow("leave", b)' : m = <<b, "driver">>
  BY <1>2, <1>4 DEF Notices!cancelByPassenger, Notices!notifyPassengerCancelledDriver, Fits,
     MustKnow
<1>7. \A m : m = <<b, "driver">> => Names(list, m)'
  BY <1>0, <1>2, <1>5
  DEF Names, Notices!Cancelled, Notices!safeNotifyCommuteCancelled,
      Notices!safeNotifyBookingCancelled
<1>8. \A i \in 1..Len(list) : Notices!TrueOf(list[i])'
  BY <1>3, <1>5
<1> QED BY <1>1, <1>5, <1>6, <1>7, <1>8, TellKeeps DEF Operations

\* Operations that tell a driver or nobody, or passengers of their bookings' end.
LEMMA ReportKeeps ==
  ASSUME NoticesInv, NEW p \in Processes, NEW b \in Travels, Notices!reportDriverDidNotCome(p, b)
  PROVE  NoticesInv'
<1>0. NoticeTypes /\ UNCHANGED <<kind, toldRide, toldBooking>> /\ claim' = "open"
      /\ Fits("report")' /\ MustKnow("report", b)' = {}
  BY DEF NoticesInv, Notices!reportDriverDidNotCome, Notices!Tell, Fits, MustKnow
<1>1. Moves
  BY <1>0 DEF Moves, NoticeTypes
<1>2. PICK n : n = Notices!safeNotifyNoShowClaimOpened
  OBVIOUS
<1>3. n \in Sayable /\ Notices!TrueOf(n)'
  BY <1>0, <1>2 DEF Notices!safeNotifyNoShowClaimOpened, Notices!Notice, Sayable, Whats,
     Notices!TrueOf
<1>4. CASE Notices!Tell(p, "report", b, <<n>>)
  <2>1. PICK list : list = <<n>>
    OBVIOUS
  <2>2. list \in Seq(Sayable) /\ \A i \in 1..Len(list) : Notices!TrueOf(list[i])'
    BY <1>3, <2>1
  <2> QED BY <1>0, <1>1, <1>4, <2>1, <2>2, TellKeeps DEF Operations
<1>5. CASE Notices!Tell(p, "report", b, <<>>)
  <2>2. PICK list : list = <<>>
    OBVIOUS
  <2>3. list \in Seq(Sayable) /\ Len(list) = 0 /\ Notices!Tell(p, "report", b, list)
    BY <1>5, <2>2
  <2>4. /\ \A i \in 1..Len(list) : Notices!TrueOf(list[i])'
        /\ \A m \in MustKnow("report", b)' : Names(list, m)'
    BY <1>0, <2>3
  <2> QED BY <1>0, <1>1, <2>3, <2>4, TellKeeps DEF Operations
<1> QED BY <1>2, <1>4, <1>5 DEF Notices!reportDriverDidNotCome

LEMMA CancelRideKeeps ==
  ASSUME NoticeParameters, NoticesInv, NEW p \in Processes, Notices!cancelRideByDriver(p)
  PROVE  NoticesInv'
<1>0. NoticeTypes /\ UNCHANGED <<kind, claim>>
  BY DEF NoticesInv, Notices!cancelRideByDriver, Notices!Tell
<1>1. PICK S \in SUBSET Travels :
        /\ Moves /\ toldRide'.reason = "DRIVER_CANCELLED"
        /\ \A b \in S : toldBooking'[b].reason = "RIDE_CANCELLED"
        /\ Notices!CancelledFor("RIDE_CANCELLED")' \subseteq S
        /\ Notices!Tell(p, "cancel", 0, Notices!notifyRideCancelledPassengers(S))
  <2>1. CASE UNCHANGED <<toldRide, toldBooking>> /\ toldRide.reason = "DRIVER_CANCELLED"
              /\ Notices!Tell(p, "cancel", 0,
                   Notices!notifyRideCancelledPassengers(Notices!ToldAgain("RIDE_CANCELLED")))
    <3>1. Moves
      BY <1>0, <2>1 DEF Moves, NoticeTypes
    <3> QED BY <2>1, <3>1 DEF Notices!ToldAgain, Notices!CancelledFor
  <2>2. CASE /\ Notices!CancelRide("DRIVER_CANCELLED", "RIDE_CANCELLED")
             /\ Notices!Tell(p, "cancel", 0, Notices!notifyRideCancelledPassengers({b \in
                    Travels : Notices!Active(b)}))
    <3> DEFINE S == {b \in Travels : Notices!Active(b)}
    <3>1. /\ toldRide.reason = "NULL"
          /\ toldRide' = [status |-> "CANCELLED", reason |-> "DRIVER_CANCELLED"]
          /\ toldBooking' = Notices!Cancel(toldBooking, S, "RIDE_CANCELLED")
      BY <1>0, <2>2 DEF Notices!CancelRide, NoticeTypes
    <3>2. Moves /\ (\A b \in S : toldBooking'[b].reason = "RIDE_CANCELLED")
          /\ \A b \in Travels \ S : toldBooking'[b] = toldBooking[b]
      <4>1. S \in SUBSET Travels /\ \A b \in S : Notices!Active(b)
        OBVIOUS
      <4> HIDE DEF S
      <4> QED BY <1>0, <3>1, <4>1, CancelMoves DEF Reasons
    <3>3. Notices!CancelledFor("RIDE_CANCELLED")' \subseteq S
      <4> SUFFICES ASSUME NEW c \in Travels \ S, toldBooking'[c].reason = "RIDE_CANCELLED"
                   PROVE  FALSE
        BY DEF Notices!CancelledFor
      <4>1. c \in Travels /\ toldBooking[c].reason = "RIDE_CANCELLED"
        BY <3>2
      <4> QED BY <1>0, <3>1, <4>1 DEF NoticeTypes
    <3> QED BY <2>2, <3>1, <3>2, <3>3
  <2> QED BY <2>1, <2>2 DEF Notices!cancelRideByDriver
<1>2. PICK list : list = Notices!notifyRideCancelledPassengers(S)
  OBVIOUS
<1>3. /\ list \in Seq(Sayable) /\ \A i \in 1..Len(list) : Notices!TrueOf(list[i])'
      /\ \A b \in S : \A m : m = <<b, "passenger">> => Names(list, m)'
  BY <1>0, <1>1, <1>2, EndedListTrue
<1>4. \A m \in MustKnow("cancel", 0)' : \E b \in S : m = <<b, "passenger">>
  BY <1>1 DEF MustKnow
<1>5. Fits("cancel")'
  BY <1>1 DEF Fits
<1>6. Notices!Tell(p, "cancel", 0, list)
  BY <1>1, <1>2
<1>7. \A m \in MustKnow("cancel", 0)' : Names(list, m)'
  BY <1>3, <1>4
<1> QED BY <1>1, <1>3, <1>5, <1>6, <1>7, TellKeeps DEF Operations

LEMMA CancelByAdminKeeps ==
  ASSUME NoticeParameters, NoticesInv, NEW p \in Processes, Notices!cancelByAdmin(p)
  PROVE  NoticesInv'
<1>0. NoticeTypes /\ UNCHANGED <<kind, claim>>
  BY DEF NoticesInv, Notices!cancelByAdmin, Notices!Tell
<1>1. PICK S \in SUBSET Travels :
        /\ Moves /\ toldRide'.reason = "ADMIN_CANCELLED"
        /\ \A b \in S : toldBooking'[b].reason = "ADMIN_CANCELLED"
        /\ Notices!CancelledFor("ADMIN_CANCELLED")' \subseteq S
        /\ Notices!Tell(p, "admin", 0, Notices!dispatchSideEffects(S))
  <2>1. CASE UNCHANGED <<toldRide, toldBooking>> /\ toldRide.reason = "ADMIN_CANCELLED"
              /\ Notices!Tell(p, "admin", 0,
                   Notices!dispatchSideEffects(Notices!CancelledFor("ADMIN_CANCELLED")))
    <3>1. Moves
      BY <1>0, <2>1 DEF Moves, NoticeTypes
    <3> QED BY <2>1, <3>1 DEF Notices!CancelledFor
  <2>2. CASE /\ Notices!CancelRide("ADMIN_CANCELLED", "ADMIN_CANCELLED")
             /\ Notices!Tell(p, "admin", 0, Notices!dispatchSideEffects({b \in Travels :
                    Notices!Active(b)}))
    <3> DEFINE S == {b \in Travels : Notices!Active(b)}
    <3>1. /\ toldRide.reason = "NULL"
          /\ toldRide' = [status |-> "CANCELLED", reason |-> "ADMIN_CANCELLED"]
          /\ toldBooking' = Notices!Cancel(toldBooking, S, "ADMIN_CANCELLED")
      BY <1>0, <2>2 DEF Notices!CancelRide, NoticeTypes
    <3>2. Moves /\ (\A b \in S : toldBooking'[b].reason = "ADMIN_CANCELLED")
          /\ \A b \in Travels \ S : toldBooking'[b] = toldBooking[b]
      <4>1. S \in SUBSET Travels /\ \A b \in S : Notices!Active(b)
        OBVIOUS
      <4> HIDE DEF S
      <4> QED BY <1>0, <3>1, <4>1, CancelMoves DEF Reasons
    <3>3. Notices!CancelledFor("ADMIN_CANCELLED")' \subseteq S
      <4> SUFFICES ASSUME NEW c \in Travels \ S, toldBooking'[c].reason = "ADMIN_CANCELLED"
                   PROVE  FALSE
        BY DEF Notices!CancelledFor
      <4>1. c \in Travels /\ toldBooking[c].reason = "ADMIN_CANCELLED"
        BY <3>2
      <4> QED BY <1>0, <3>1, <4>1 DEF NoticeTypes
    <3> QED BY <2>2, <3>1, <3>2, <3>3
  <2> QED BY <2>1, <2>2 DEF Notices!cancelByAdmin
<1>2. PICK list : list = Notices!dispatchSideEffects(S)
  OBVIOUS
<1>3. /\ list \in Seq(Sayable)
      /\ \A i \in 1..Len(list) :
           \/ list[i] = Notices!safeNotifyAdminRideCancelled(0, "driver")
           \/ \E b \in S : list[i] = Notices!safeNotifyAdminRideCancelled(b, "passenger")
      /\ \A b \in S : Names(list, <<b, "passenger">>)
      /\ Names(list, <<0, "driver">>)
  BY <1>0, <1>2, OperationsList
<1>4. \A i \in 1..Len(list) : Notices!TrueOf(list[i])'
  <2>1. /\ \A n : n = Notices!safeNotifyAdminRideCancelled(0, "driver") => Notices!TrueOf(n)'
        /\ \A n, b : b \in S /\ n = Notices!safeNotifyAdminRideCancelled(b, "passenger") =>
             Notices!TrueOf(n)'
    BY <1>1 DEF Notices!safeNotifyAdminRideCancelled, Notices!Notice, Notices!TrueOf
  <2> QED BY <1>3, <2>1
<1>5. \A l, m : Names(l, m)' = Names(l, m)
  BY <1>0 DEF Names, Notices!Cancelled, Notices!safeNotifyAdminRideCancelled,
     Notices!safeNotifyCommuteCancelled,
         Notices!safeNotifyBookingCancelled
<1>6. Notices!Tell(p, "admin", 0, list) /\ Fits("admin")'
  BY <1>1, <1>2 DEF Fits
<1>7. \A m \in MustKnow("admin", 0)' : Names(list, m)'
  <2>1. \A m \in MustKnow("admin", 0)' : m = <<0, "driver">> \/ \E b \in S : m = <<b, "passenger">>
    BY <1>1 DEF MustKnow
  <2> QED BY <1>3, <1>5, <2>1
<1> QED BY <1>1, <1>3, <1>4, <1>6, <1>7, TellKeeps DEF Operations

LEMMA SettleKeeps ==
  ASSUME NoticeParameters, NoticesInv, NEW p \in Processes, Notices!SettleDriverNoShow(p)
  PROVE  NoticesInv'
<1> DEFINE S == {b \in Travels : Notices!Active(b)}
<1>0. /\ NoticeTypes /\ kind' = kind /\ claim = "open" /\ claim' = "settled"
      /\ toldRide.reason = "NULL"
      /\ toldRide' = [status |-> "CANCELLED", reason |-> "DRIVER_NO_SHOW"]
      /\ toldBooking' = Notices!Cancel(toldBooking, S, "DRIVER_NO_SHOW")
      /\ Notices!Tell(p, "settle", 0, Notices!notifyRideCancelledPassengers(S))
  BY DEF NoticesInv, Notices!SettleDriverNoShow, Notices!Tell, Notices!CancelRide, NoticeTypes
<1>s. S \in SUBSET Travels /\ \A b \in S : Notices!Active(b)
  OBVIOUS
<1> HIDE DEF S
<1>1. Moves /\ \A b \in S : toldBooking'[b].reason = "DRIVER_NO_SHOW"
  <2>1. ASSUME NEW b \in S
        PROVE  /\ toldBooking'[b] \in TravelRow /\ toldBooking'[b].reason = "DRIVER_NO_SHOW"
               /\ toldBooking'[b].status = "CANCELLED" /\ toldBooking'[b].took = toldBooking[b].took
               /\ toldBooking[b].reason = "NULL"
    BY <1>0, <1>s, <2>1 DEF Notices!Cancel, NoticeTypes, TravelRow, Reasons, Notices!Active
  <2>2. \A b \in Travels \ S : toldBooking'[b] = toldBooking[b]
    BY <1>0 DEF Notices!Cancel
  <2>3. toldBooking' \in [Travels -> TravelRow]
    <3>1. ASSUME NEW b \in Travels PROVE toldBooking'[b] \in TravelRow
      <4>1. toldBooking[b] \in TravelRow
        BY <1>0 DEF NoticeTypes
      <4> QED BY <2>1, <2>2, <4>1
    <3>2. toldBooking' = [b \in Travels |-> toldBooking'[b]]
      BY <1>0 DEF Notices!Cancel
    <3> QED BY <3>1, <3>2
  <2>4. ASSUME NEW b \in Travels
        PROVE  /\ toldBooking'[b].status = "CANCELLED" <=> toldBooking'[b].reason # "NULL"
               /\ toldBooking[b].status # "NONE" => toldBooking'[b].status # "NONE"
               /\ toldBooking[b].took => toldBooking'[b].took
               /\ toldBooking[b].reason # "NULL" => toldBooking'[b].reason = toldBooking[b].reason
               /\ toldBooking'[b].reason \in {"RIDE_CANCELLED", "ADMIN_CANCELLED"} =>
                    toldBooking[b].reason # "NULL"
    <3>1. CASE b \in S
      BY <2>1, <3>1
    <3>2. CASE b \notin S
      BY <1>0, <2>2, <3>2 DEF NoticeTypes
    <3> QED BY <3>1, <3>2
  <2> QED BY <1>0, <2>1, <2>3, <2>4 DEF Moves, NoticeTypes
<1>2. PICK list : list = Notices!notifyRideCancelledPassengers(S)
  OBVIOUS
<1>3. list \in Seq(Sayable) /\ \A i \in 1..Len(list) : Notices!TrueOf(list[i])'
  BY <1>0, <1>s, <1>1, <1>2, EndedListTrue
<1>4. Notices!Tell(p, "settle", 0, list) /\ Fits("settle")' /\ MustKnow("settle", 0)' = {}
  BY <1>0, <1>2 DEF Fits, MustKnow
<1> QED BY <1>1, <1>3, <1>4, TellKeeps DEF Operations

LEMMA NoticesStep ==
  ASSUME NoticeParameters, NoticesInv, [Notices!Next]_(Notices!vars) PROVE NoticesInv'
<1>1. CASE UNCHANGED Notices!vars
  <2>1. NoticeTypes'
    BY <1>1 DEF Notices!vars, NoticesInv, NoticeTypes
  <2>2. AnswersHold' /\ Notices!NoticesAreTrue'
    BY <1>1 DEF Notices!vars, NoticesInv, AnswersHold, Notices!NoticesAreTrue, Fits, MustKnow,
       Notices!CancelledFor, Notices!Knows,
                Notices!Cancelled, Notices!TrueOf
  <2>3. \A p \in Processes : WaitsRight(p)'
    <3>1. /\ \A n : Notices!TrueOf(n)' = Notices!TrueOf(n)
          /\ \A o : Fits(o)' = Fits(o)
          /\ \A o, c : MustKnow(o, c)' = MustKnow(o, c)
          /\ \A l, m : Names(l, m)' = Names(l, m)
          /\ \A c, to : Notices!Knows(c, to)' = Notices!Knows(c, to)
      BY <1>1 DEF Notices!vars, Notices!TrueOf, Fits, MustKnow, Notices!CancelledFor, Names,
         Notices!Knows, Notices!Cancelled
    <3>2. telling' = telling
      BY <1>1 DEF Notices!vars
    <3> QED BY <3>1, <3>2 DEF NoticesInv, WaitsRight
  <2> QED BY <1>1, <2>1, <2>2, <2>3 DEF Notices!vars, NoticesInv
<1>2. ASSUME NEW p \in Processes, NEW b \in Travels,
             Notices!Book(p, b) \/ Notices!acceptCommuteBookingByDriver(p, b) \/
               Notices!rejectCommuteBookingByDriver(p, b)
             \/ Notices!cancelByPassenger(p, b) \/ Notices!reportDriverDidNotCome(p, b)
      PROVE  NoticesInv'
  BY <1>2, BookKeeps, AcceptKeeps, RejectKeeps, LeaveKeeps, ReportKeeps
<1>3. ASSUME NEW p \in Processes,
             Notices!cancelRideByDriver(p) \/ Notices!cancelByAdmin(p) \/
               Notices!SettleDriverNoShow(p)
             \/ Notices!safeEnqueue(p) \/ Notices!Crash(p)
      PROVE  NoticesInv'
  BY <1>3, CancelRideKeeps, CancelByAdminKeeps, SettleKeeps, SayKeeps, DieKeeps
<1> QED BY <1>1, <1>2, <1>3 DEF Notices!Next

-----------------------------------------------------------------------------
(* The safety desk.                                                        *)

SosRow == [status : {"NONE", "TRIGGERED", "ACKNOWLEDGED", "RESPONDING", "RESOLVED"},
           by : {"driver", "rider"}, located : BOOLEAN, age : 0..Gone]
KeyAge == (0..Gone - 1) \cup {Monitor!Nowhere}

MonitorTypes ==
  /\ watched \in [Soses -> {"IN_PROGRESS", "OVER"}]
  /\ emergency \in [Soses -> SosRow]
  /\ car \in [Soses -> KeyAge] /\ own \in [Soses -> KeyAge]
  /\ view.cars \in [Soses -> 0 .. Monitor!Nowhere] /\ view.rides \subseteq Soses
  /\ view.active \subseteq Soses /\ view.known \subseteq Soses
  /\ view = [what |-> view.what, at |-> view.at, of |-> view.of, cars |-> view.cars,
             rides |-> view.rides, shown |-> view.shown, active |-> view.active,
               known |-> view.known]

\* Each view takes its own steps.
InStep ==
  /\ view.what \in {"none", "list", "map", "positions", "tracking"}
  /\ view.what = "none" => view = Monitor!NoView
  /\ view.what = "list" => view.at \in {"TRIGGERED", "ACKNOWLEDGED", "RESPONDING", "answered"}
  /\ view.what = "map" => view.at \in {"rides", "locations", "soses", "answered"}
  /\ view.what = "positions" => view.of \in Soses /\ view.at \in {"driver", "rider", "answered"}
  /\ view.what = "tracking" => view.of \in Soses /\ view.at \in
       {"access", "key", "answered", "failed"}

Rank(status) ==
  CASE status = "TRIGGERED" -> 1
    [] status = "ACKNOWLEDGED" -> 2
    [] status = "RESPONDING" -> 3
    [] OTHER -> 4

\* s is shown, or a full page of newer ones is.
Covered(s) ==
  \/ Monitor!Shows(s)
  \/ Cardinality({r \in Soses : r > s /\ Monitor!Shows(r)}) >= MonitorLimit

\* The list has still to come to the status of who is active all along, or has been there.
ListComesBy ==
  view.what = "list" =>
    \A s \in view.active : Rank(emergency[s].status) >= Rank(view.at) \/ Covered(s)

\* The map knows the cars that are known all along.
MapKnows ==
  /\ view.at \notin {"answered", "failed"} => view.known \subseteq Monitor!Known
  /\ view.what = "map" /\ view.at = "locations" => view.known \subseteq view.rides
  /\ view.what = "map" /\ view.at = "soses" => \A s \in view.known : view.cars[s] # Monitor!Nowhere

MonitorInv ==
  /\ MonitorTypes /\ InStep /\ view.active \subseteq Monitor!Active
  /\ ListComesBy /\ MapKnows /\ Monitor!MapShowsTheActive /\ Monitor!PositionsAreRecent

LEMMA MonitorInitInv ==
  ASSUME MonitorParameters, Monitor!Init PROVE MonitorInv
<1>1. MonitorTypes
  BY DEF MonitorParameters, Monitor!Init, MonitorTypes, SosRow, KeyAge, Monitor!Nowhere,
     Monitor!NoSos, Monitor!NoView
<1>2. /\ InStep
      /\ view.active \subseteq Monitor!Active
      /\ ListComesBy
      /\ MapKnows
      /\ Monitor!MapShowsTheActive
      /\ Monitor!PositionsAreRecent
  BY DEF Monitor!Init, Monitor!NoView, InStep, ListComesBy, MapKnows, Monitor!MapShowsTheActive,
     Monitor!Answered, Monitor!PositionsAreRecent
<1> QED BY <1>1, <1>2 DEF MonitorInv

LEMMA MonitorInvShows == MonitorInv => Monitor!ActiveNeverMissed /\ Monitor!MapShowsTheActive /\
  Monitor!PositionsAreRecent
<1> SUFFICES ASSUME MonitorInv, Monitor!Answered("list"), NEW s \in view.active PROVE Covered(s)
  BY CountsAgree DEF MonitorInv, Monitor!ActiveNeverMissed, Covered
<1>1. emergency[s].status \in Monitor!ActiveStatuses /\ view.at = "answered" /\ view.what = "list"
  BY DEF MonitorInv, Monitor!Active, Monitor!Answered
<1>2. Rank(emergency[s].status) < 4 /\ Rank(view.at) = 4 /\ Rank(emergency[s].status) \in Nat
  BY <1>1 DEF Rank, Monitor!ActiveStatuses
<1>3. Rank(emergency[s].status) >= Rank(view.at) \/ Covered(s)
  BY <1>1 DEF MonitorInv, ListComesBy
<1> QED BY <1>2, <1>3

\* What is shown is shown on.
LEMMA CoveredStays ==
  ASSUME MonitorParameters, view.shown \subseteq view'.shown
  PROVE  (\A s : Monitor!Shows(s) => Monitor!Shows(s)') /\ \A s : Covered(s) => Covered(s)'
<1>1. \A s : Monitor!Shows(s) => Monitor!Shows(s)'
  BY DEF Monitor!Shows
<1>2. ASSUME NEW s, Cardinality({r \in Soses : r > s /\ Monitor!Shows(r)}) >= MonitorLimit
      PROVE  Cardinality({r \in Soses : r > s /\ Monitor!Shows(r)'}) >= MonitorLimit
  <2> DEFINE A == {r \in Soses : r > s /\ Monitor!Shows(r)}
             B == {r \in Soses : r > s /\ Monitor!Shows(r)'}
  <2>1. A \subseteq B /\ B \subseteq Soses
    BY <1>1
  <2>2. /\ IsFiniteSet(B)
        /\ Cardinality(A) <= Cardinality(B)
        /\ Cardinality(A) \in Nat
        /\ Cardinality(B) \in Nat
    BY <2>1, FS_Subset, FS_CardinalityType DEF MonitorParameters
  <2> QED BY <1>2, <2>2 DEF MonitorParameters
<1> QED BY <1>1, <1>2 DEF Covered

\* A page of a status shows who has it, or is full of newer ones.
LEMMA PageCovers ==
  ASSUME MonitorParameters, NEW status, NEW s \in Soses, emergency[s].status = status,
         view'.shown = view.shown \cup Monitor!list(status)
  PROVE  Covered(s)'
<1> DEFINE those == {t \in Soses : emergency[t].status = status}
           newer == {r \in those : r > s}
           R == {x \in Nat \X Nat : x[1] > x[2]}
           n == Cardinality(newer)
<1>1. \A t \in those : Cardinality({r \in those : r > t}) < MonitorLimit => Monitor!Shows(t)'
  <2> SUFFICES ASSUME NEW t \in those, Cardinality({r \in those : r > t}) < MonitorLimit
               PROVE  Monitor!Shows(t)'
    OBVIOUS
  <2>1. Monitor!Item("SOS", t, 0) \in view'.shown
    BY CountsAgree DEF Monitor!list
  <2> QED BY <2>1 DEF Monitor!Shows, Monitor!Item
<1>2. s \in those /\ newer \subseteq Soses /\ Soses \subseteq Nat /\ IsFiniteSet(newer) /\ n \in Nat
      /\ those \subseteq Nat /\ MonitorLimit \in Nat
  BY FS_Subset, FS_CardinalityType DEF MonitorParameters
<1>3. CASE n < MonitorLimit
  BY <1>1, <1>2, <1>3 DEF Covered
<1>4. CASE n >= MonitorLimit
  <2>1. \A x, y \in Nat : <<x, y>> \in R <=> x > y
    OBVIOUS
  <2> HIDE DEF R
  <2>2. Orders(R, newer)
    BY <1>2, <2>1 DEF Orders
  <2>3. PICK e : Sorts(e, newer, R)
    BY <1>2, <2>2, SortedExists
  <2>4. e \in [1..n -> newer]
    BY <2>3 DEF Sorts
  <2> DEFINE first == {e[j] : j \in 1 .. MonitorLimit}
  <2> HIDE DEF newer, n, those
  <2>5. ASSUME NEW j \in 1 .. MonitorLimit PROVE e[j] \in Soses /\ e[j] > s /\ Monitor!Shows(e[j])'
    <3> DEFINE k == j - 1
    <3>1. k \in 0..n /\ k < n /\ k + 1 = j /\ k < MonitorLimit /\ j \in 1..n
      BY <1>2, <1>4
    <3>2. /\ Cardinality({e[i] : i \in 1..k}) = k
          /\ {x \in newer : <<x, e[k + 1]>> \in R} = {e[i] : i \in 1..k}
      BY <1>2, <2>2, <2>3, <3>1, SortedPart DEF n
    <3>3. e[j] \in newer /\ e[j] \in those /\ e[j] \in Nat /\ e[j] > s /\ e[j] \in Soses
      BY <1>2, <2>4, <3>1 DEF newer, those
    <3>4. {r \in those : r > e[j]} = {x \in newer : <<x, e[j]>> \in R}
      <4>1. \A r \in those : r \in Nat /\ (r > e[j] <=> <<r, e[j]>> \in R)
        BY <1>2, <2>1, <3>3
      <4>2. ASSUME NEW r \in those, r > e[j] PROVE r > s
        <5>1. r \in Nat /\ e[j] \in Nat /\ s \in Nat /\ e[j] > s
          BY <1>2, <3>3
        <5> QED BY <4>2, <5>1
      <4> QED BY <4>1, <4>2 DEF newer
    <3>5. Cardinality({r \in those : r > e[j]}) < MonitorLimit
      BY <3>1, <3>2, <3>4
    <3> QED BY <1>1, <3>3, <3>5
  <2>6. Cardinality(first) = MonitorLimit
    <3>1. MonitorLimit \in 0..n
      BY <1>2, <1>4
    <3> QED BY <1>2, <2>2, <2>3, <3>1, SortedPart DEF n
  <2> DEFINE all == {r \in Soses : r > s /\ Monitor!Shows(r)'}
  <2>7. first \subseteq all /\ all \subseteq Soses
    BY <2>5
  <2>8. Cardinality(first) <= Cardinality(all)
    BY <2>7, FS_Subset DEF MonitorParameters
  <2> QED BY <2>6, <2>8 DEF Covered
<1> QED BY <1>2, <1>3, <1>4

\* What every step of the others keeps: what is seen, and who is listed.
LEMMA KeepView ==
  ASSUME MonitorParameters, MonitorInv, view'.what = view.what, view'.at = view.at,
         view'.shown = view.shown, view'.active \subseteq view.active,
         view'.known \subseteq view.known,
         \A s \in view'.active : Rank(emergency'[s].status) >= Rank(emergency[s].status),
         \A s \in view'.active : Monitor!Answered("map") =>
           emergency'[s].located = emergency[s].located
  PROVE  ListComesBy' /\ Monitor!MapShowsTheActive' /\ Monitor!PositionsAreRecent'
<1>1. (\A s : Monitor!Shows(s) => Monitor!Shows(s)') /\ \A s : Covered(s) => Covered(s)'
  BY CoveredStays
<1>2. ListComesBy'
  <2> SUFFICES ASSUME view'.what = "list", NEW s \in view'.active
               PROVE  Rank(emergency'[s].status) >= Rank(view'.at) \/ Covered(s)'
    BY DEF ListComesBy
  <2>1. Rank(emergency[s].status) >= Rank(view.at) \/ Covered(s)
    BY DEF MonitorInv, ListComesBy
  <2>2. /\ Rank(emergency[s].status) \in Nat
        /\ Rank(emergency'[s].status) \in Nat
        /\ Rank(view.at) \in Nat
    BY DEF Rank
  <2> QED BY <1>1, <2>1, <2>2
<1>3. Monitor!MapShowsTheActive'
  BY <1>1 DEF MonitorInv, Monitor!MapShowsTheActive, Monitor!Answered
<1>4. Monitor!PositionsAreRecent'
  BY DEF MonitorInv, Monitor!PositionsAreRecent
<1> QED BY <1>2, <1>3, <1>4

LEMMA RowsChange ==
  ASSUME MonitorParameters, MonitorInv, NEW s \in Soses,
         \/ \E by \in {"driver", "rider"}, located \in BOOLEAN : Monitor!trigger(s, by, located)
         \/ \E next \in {"ACKNOWLEDGED", "RESPONDING", "RESOLVED"} : Monitor!transition(s, next)
         \/ Monitor!EndRide(s) \/ Monitor!updateDriverLocation(s)
         \/ Monitor!requireActiveParticipantSos(s) \/ Monitor!publishLocation(s)
  PROVE  /\ watched' \in [Soses -> {"IN_PROGRESS", "OVER"}]
         /\ emergency' \in [Soses -> SosRow]
         /\ car' \in [Soses -> KeyAge] /\ own' \in [Soses -> KeyAge]
         /\ \A t \in Monitor!Active : emergency'[t].located = emergency[t].located
                                      /\ Rank(emergency'[t].status) >= Rank(emergency[t].status)
<1> USE DEF MonitorInv, MonitorTypes, KeyAge, Monitor!Nowhere, MonitorParameters
<1>0. \A status \in {"NONE", "TRIGGERED", "ACKNOWLEDGED", "RESPONDING", "RESOLVED"} :
        Rank(status) \in Nat
  BY DEF Rank
<1>1. CASE \E by \in {"driver", "rider"}, located \in BOOLEAN : Monitor!trigger(s, by, located)
  <2>1. PICK by \in {"driver", "rider"}, located \in BOOLEAN : Monitor!trigger(s, by, located)
    BY <1>1
  <2>2. emergency' \in [Soses -> SosRow] /\ \A t \in Soses \ {s} : emergency'[t] = emergency[t]
    BY <2>1 DEF Monitor!trigger, SosRow
  <2>3. s \notin Monitor!Active
    BY <2>1 DEF Monitor!trigger, Monitor!Active, Monitor!ActiveStatuses, Monitor!NoSos
  <2>4. \A t \in Monitor!Active : emergency'[t] = emergency[t] /\ Rank(emergency[t].status) \in Nat
    BY <1>0, <2>2, <2>3 DEF Monitor!Active, SosRow
  <2> QED BY <2>1, <2>2, <2>4 DEF Monitor!trigger
<1>2. CASE \E next \in {"ACKNOWLEDGED", "RESPONDING", "RESOLVED"} : Monitor!transition(s, next)
  <2>1. PICK next \in {"ACKNOWLEDGED", "RESPONDING", "RESOLVED"} : Monitor!transition(s, next)
    BY <1>2
  <2>2. emergency[s] \in SosRow /\ emergency' = [emergency EXCEPT ![s].status = next]
    BY <2>1 DEF Monitor!transition
  <2>3. emergency' \in [Soses -> SosRow] /\ (\A t \in Soses \ {s} : emergency'[t] = emergency[t])
        /\ emergency'[s].status = next /\ emergency'[s].located = emergency[s].located
    BY <2>1, <2>2 DEF SosRow
  <2>4. Rank(next) >= Rank(emergency[s].status)
    <3>1. emergency[s].status \in {"NONE", "TRIGGERED", "ACKNOWLEDGED", "RESPONDING", "RESOLVED"}
      BY <2>2 DEF SosRow
    <3> QED BY <2>1, <3>1 DEF Monitor!transition, Monitor!Forward, Rank
  <2>5. \A t \in Monitor!Active \ {s} : emergency'[t] = emergency[t] /\
          Rank(emergency[t].status) \in Nat
    BY <1>0, <2>3 DEF Monitor!Active, SosRow
  <2>6. \A t \in Monitor!Active : emergency'[t].located = emergency[t].located /\
          Rank(emergency'[t].status) >= Rank(emergency[t].status)
    BY <2>3, <2>4, <2>5
  <2> QED BY <2>1, <2>3, <2>6 DEF Monitor!transition
<1>3. CASE \/ Monitor!EndRide(s)
           \/ Monitor!updateDriverLocation(s)
           \/ Monitor!requireActiveParticipantSos(s)
           \/ Monitor!publishLocation(s)
  <2>1. emergency' = emergency
    BY <1>3 DEF Monitor!EndRide, Monitor!updateDriverLocation, Monitor!requireActiveParticipantSos,
       Monitor!publishLocation
  <2>2. \A t \in Monitor!Active : Rank(emergency[t].status) \in Nat
    BY <1>0 DEF Monitor!Active, SosRow
  <2>3. /\ watched' \in [Soses -> {"IN_PROGRESS", "OVER"}]
        /\ car' \in [Soses -> KeyAge]
        /\ own' \in [Soses -> KeyAge]
    BY <1>3 DEF Monitor!EndRide, Monitor!updateDriverLocation, Monitor!requireActiveParticipantSos,
       Monitor!publishLocation,
                Monitor!setParticipantLocation
  <2> QED BY <2>1, <2>2, <2>3
<1> QED BY <1>1, <1>2, <1>3

ViewIs(v) == [what |-> v.what, at |-> v.at, of |-> v.of, cars |-> v.cars,
              rides |-> v.rides, shown |-> v.shown, active |-> v.active, known |-> v.known]

LEMMA MeanwhileInv ==
  ASSUME MonitorParameters, MonitorInv, Monitor!Meanwhile PROVE MonitorInv'
<1>1. PICK s \in Soses :
         \/ \E by \in {"driver", "rider"}, located \in BOOLEAN : Monitor!trigger(s, by, located)
         \/ \E next \in {"ACKNOWLEDGED", "RESPONDING", "RESOLVED"} : Monitor!transition(s, next)
         \/ Monitor!EndRide(s) \/ Monitor!updateDriverLocation(s)
         \/ Monitor!requireActiveParticipantSos(s) \/ Monitor!publishLocation(s)
  BY DEF Monitor!Meanwhile
<1>2. /\ watched' \in [Soses -> {"IN_PROGRESS", "OVER"}]
      /\ emergency' \in [Soses -> SosRow]
      /\ car' \in [Soses -> KeyAge] /\ own' \in [Soses -> KeyAge]
      /\ \A t \in Monitor!Active : emergency'[t].located = emergency[t].located
                                   /\ Rank(emergency'[t].status) >= Rank(emergency[t].status)
  BY <1>1, RowsChange
<1>3. /\ view = ViewIs(view)
      /\ view' = [view EXCEPT !.active = @ \cap Monitor!Active', !.known = @ \cap Monitor!Known']
  BY DEF Monitor!Meanwhile, MonitorInv, MonitorTypes, ViewIs
<1>4. /\ view'.what = view.what
      /\ view'.at = view.at
      /\ view'.of = view.of
      /\ view'.cars = view.cars
      /\ view'.rides = view.rides /\ view'.shown = view.shown
      /\ view'.active = view.active \cap Monitor!Active'
      /\ view'.known = view.known \cap Monitor!Known'
      /\ view' = ViewIs(view')
  BY <1>3 DEF ViewIs
<1>5. MonitorTypes'
  BY <1>2, <1>4 DEF MonitorInv, MonitorTypes, ViewIs
<1>6. InStep' /\ view'.active \subseteq Monitor!Active'
  <2>1. view.what = "none" => view' = Monitor!NoView
    <3> SUFFICES ASSUME view = Monitor!NoView PROVE view' = Monitor!NoView
      BY DEF MonitorInv, InStep
    <3>1. view.active = {} /\ view.known = {}
      BY DEF Monitor!NoView
    <3> QED BY <1>3, <1>4, <3>1 DEF ViewIs
  <2> QED BY <1>4, <2>1 DEF MonitorInv, InStep
<1>7. ListComesBy' /\ Monitor!MapShowsTheActive' /\ Monitor!PositionsAreRecent'
  BY <1>2, <1>4, KeepView DEF MonitorInv
<1>8. MapKnows'
  BY <1>4 DEF MonitorInv, MapKnows, Monitor!Nowhere
<1> QED BY <1>5, <1>6, <1>7, <1>8 DEF MonitorInv

LEMMA TickInv ==
  ASSUME MonitorParameters, MonitorInv, Monitor!Tick PROVE MonitorInv'
<1>1. watched' = watched /\ emergency' \in [Soses -> SosRow]
      /\ \A s \in Soses : emergency'[s].status = emergency[s].status /\
           emergency'[s].located = emergency[s].located
  <2>1. \A age \in 0..Gone : Monitor!Older(age) \in 0..Gone
    BY DEF Monitor!Older, MonitorParameters
  <2>2. \A s \in Soses : emergency[s] \in SosRow
    BY DEF MonitorInv, MonitorTypes
  <2> DEFINE row(s) == [emergency[s] EXCEPT !.age = IF emergency[s] =
                 Monitor!NoSos THEN 0 ELSE Monitor!Older(@)]
  <2>3. emergency' = [s \in Soses |-> row(s)] /\ watched' = watched
    BY DEF Monitor!Tick
  <2>4. \A s \in Soses : row(s) \in SosRow /\ row(s).status = emergency[s].status /\
          row(s).located = emergency[s].located
    BY <2>1, <2>2 DEF SosRow, MonitorParameters
  <2> HIDE DEF row
  <2> QED BY <2>3, <2>4
<1>2. car' \in [Soses -> KeyAge] /\ own' \in [Soses -> KeyAge]
  <2>1. \A age \in KeyAge : Monitor!Expiring(age) \in KeyAge
    BY DEF KeyAge, Monitor!Expiring, Monitor!Nowhere, MonitorParameters
  <2> QED BY <2>1 DEF Monitor!Tick, MonitorInv, MonitorTypes
<1>3. Monitor!Active' = Monitor!Active
  BY <1>1 DEF Monitor!Active
<1>4. \A s \in Soses : Rank(emergency[s].status) \in Nat
  BY DEF Rank
<1>5. CASE view.at \in {"answered", "failed"}
  <2>1. view' = view
    BY <1>5 DEF Monitor!Tick
  <2>2. MonitorTypes' /\ InStep' /\ view'.active \subseteq Monitor!Active'
    BY <1>1, <1>2, <1>3, <2>1 DEF MonitorInv, MonitorTypes, InStep, Monitor!NoView, Monitor!Nowhere
  <2>3. ListComesBy' /\ Monitor!MapShowsTheActive' /\ Monitor!PositionsAreRecent'
    BY <1>1, <1>4, <2>1, KeepView DEF MonitorInv, MonitorTypes
  <2>4. MapKnows'
    BY <1>5, <2>1 DEF MonitorInv, MapKnows
  <2> QED BY <2>2, <2>3, <2>4 DEF MonitorInv
<1>6. CASE view.at \notin {"answered", "failed"}
  <2>1. view = ViewIs(view)
        /\ view' = [view EXCEPT !.cars = [s \in Soses |-> Monitor!Older(@[s])],
                                !.known = {s \in @ : car'[s] # Monitor!Nowhere}]
    BY <1>6 DEF Monitor!Tick, MonitorInv, MonitorTypes, ViewIs
  <2>2. /\ view'.what = view.what /\ view'.at = view.at /\ view'.of = view.of
        /\ view'.cars = [s \in Soses |-> Monitor!Older(view.cars[s])]
        /\ view'.rides = view.rides /\ view'.shown = view.shown /\ view'.active = view.active
        /\ view'.known = {s \in view.known : car'[s] # Monitor!Nowhere}
        /\ view' = ViewIs(view')
    BY <2>1 DEF ViewIs
  <2>3. view'.cars \in [Soses -> 0 .. Monitor!Nowhere]
        /\ \A s \in Soses : view.cars[s] # Monitor!Nowhere => view'.cars[s] # Monitor!Nowhere
    BY <2>2 DEF MonitorInv, MonitorTypes, MonitorParameters, Monitor!Older, Monitor!Nowhere
  <2>4. MonitorTypes'
    BY <1>1, <1>2, <2>2, <2>3 DEF MonitorInv, MonitorTypes, ViewIs, Monitor!Nowhere
  <2>5. InStep' /\ view'.active \subseteq Monitor!Active'
    BY <1>3, <1>6, <2>2 DEF MonitorInv, InStep, Monitor!NoView
  <2>6. ListComesBy' /\ Monitor!MapShowsTheActive' /\ Monitor!PositionsAreRecent'
    BY <1>1, <1>4, <2>2, KeepView DEF MonitorInv, MonitorTypes
  <2>7. MapKnows'
    <3>1. view'.known \subseteq Monitor!Known'
      BY <1>1, <1>6, <2>2 DEF MonitorInv, MapKnows, Monitor!Known, Monitor!Nowhere
    <3>2. view'.known \subseteq view.known /\ view.known \subseteq Soses
      BY <2>2 DEF MonitorInv, MonitorTypes
    <3> QED BY <2>2, <2>3, <3>1, <3>2 DEF MonitorInv, MapKnows, Monitor!Nowhere
  <2> QED BY <2>4, <2>5, <2>6, <2>7 DEF MonitorInv
<1> QED BY <1>5, <1>6

\* A view begins with what is active and known, and goes on reading.
LEMMA BeginInv ==
  ASSUME MonitorParameters, MonitorInv, NEW what, NEW first, NEW s, Monitor!Begin(what, first, s),
         \/ what = "list" /\ first = "TRIGGERED"
         \/ what = "map" /\ first = "rides"
         \/ what = "tracking" /\ first = "access" /\ s \in Soses
         \/ what = "positions" /\ first = "driver" /\ s \in Soses
  PROVE  MonitorInv'
<1>1. /\ view'.what = what /\ view'.at = first /\ view'.of = s /\ view'.cars = Monitor!NoView.cars
      /\ view'.rides = {}
      /\ view'.shown = {}
      /\ view'.active = Monitor!Active
      /\ view'.known = Monitor!Known
      /\ view' = ViewIs(view')
  BY DEF Monitor!Begin, Monitor!NoView, ViewIs
<1>2. /\ watched' = watched /\ emergency' = emergency /\ car' = car /\ own' = own
      /\ Monitor!Active' = Monitor!Active /\ Monitor!Known' = Monitor!Known
  BY DEF Monitor!Begin, Monitor!Active, Monitor!Known, Monitor!Nowhere
<1>3. MonitorTypes'
  BY <1>1, <1>2 DEF MonitorInv, MonitorTypes, ViewIs, Monitor!NoView, Monitor!Nowhere,
     MonitorParameters, Monitor!Active, Monitor!Known
<1>4. ListComesBy'
  <2> SUFFICES ASSUME what = "list", NEW t \in Monitor!Active
               PROVE  Rank(emergency[t].status) >= Rank(first)
    BY <1>1, <1>2 DEF ListComesBy
  <2>1. emergency[t].status \in Monitor!ActiveStatuses /\ first = "TRIGGERED"
    BY DEF Monitor!Active
  <2> QED BY <2>1 DEF Monitor!ActiveStatuses, Rank
<1>5. InStep' /\ view'.active \subseteq Monitor!Active' /\ MapKnows'
  BY <1>1, <1>2 DEF InStep, MapKnows
<1>6. Monitor!MapShowsTheActive' /\ Monitor!PositionsAreRecent'
  BY <1>1 DEF Monitor!MapShowsTheActive, Monitor!Answered, Monitor!PositionsAreRecent
<1> QED BY <1>3, <1>4, <1>5, <1>6 DEF MonitorInv

LEMMA CloseInv ==
  ASSUME MonitorParameters, MonitorInv, Monitor!Close PROVE MonitorInv'
<1>1. /\ watched' = watched
      /\ emergency' = emergency
      /\ car' = car
      /\ own' = own
      /\ view' = Monitor!NoView
      /\ Monitor!Nowhere' = Monitor!Nowhere
  BY DEF Monitor!Close, Monitor!Nowhere
<1>2. MonitorTypes'
  BY <1>1 DEF MonitorInv, MonitorTypes, Monitor!NoView, Monitor!Nowhere, MonitorParameters
<1>3. InStep' /\ view'.active \subseteq Monitor!Active' /\ MapKnows' /\ ListComesBy'
  BY <1>1 DEF InStep, MapKnows, ListComesBy, Monitor!NoView
<1>4. Monitor!MapShowsTheActive' /\ Monitor!PositionsAreRecent'
  BY <1>1 DEF Monitor!MapShowsTheActive, Monitor!Answered, Monitor!PositionsAreRecent,
     Monitor!NoView
<1> QED BY <1>2, <1>3, <1>4 DEF MonitorInv

\* What any look at the rows or the keys keeps.
LEMMA LookKeeps ==
  ASSUME MonitorParameters, MonitorInv, NEW at, NEW next, NEW new, Monitor!Look(at, next, new)
  PROVE  /\ view.at = at
         /\ view'.what = view.what
         /\ view'.at = next
         /\ view'.of = view.of
         /\ view'.cars = view.cars
         /\ view'.rides = view.rides /\ view'.shown = view.shown \cup new
         /\ view'.active = view.active /\ view'.known = view.known
         /\ watched' = watched
         /\ emergency' = emergency
         /\ car' = car
         /\ own' = own
         /\ Monitor!Active' = Monitor!Active
         /\ Monitor!Known' = Monitor!Known
         /\ MonitorTypes' /\ view'.active \subseteq Monitor!Active'
<1>1. view = ViewIs(view) /\ view' = [view EXCEPT !.at = next, !.shown = @ \cup new] /\ view.at = at
  BY DEF Monitor!Look, MonitorInv, MonitorTypes, ViewIs
<1>2. /\ view'.what = view.what /\ view'.at = next /\ view'.of = view.of /\ view'.cars = view.cars
      /\ view'.rides = view.rides /\ view'.shown = view.shown \cup new
      /\ view'.active = view.active /\ view'.known = view.known
      /\ view' = ViewIs(view')
  BY <1>1 DEF ViewIs
<1>3. /\ watched' = watched
      /\ emergency' = emergency
      /\ car' = car
      /\ own' = own
      /\ Monitor!Active' = Monitor!Active
      /\ Monitor!Known' = Monitor!Known
  BY DEF Monitor!Look, Monitor!Active, Monitor!Known, Monitor!Nowhere
<1>4. MonitorTypes'
  BY <1>2, <1>3 DEF MonitorInv, MonitorTypes, ViewIs, Monitor!Nowhere
<1> QED BY <1>1, <1>2, <1>3, <1>4 DEF MonitorInv

LEMMA ListInv ==
  ASSUME MonitorParameters, MonitorInv, Monitor!liveMonitoringActiveSos PROVE MonitorInv'
<1>1. PICK i \in 1..3 :
        Monitor!Look(Monitor!InTurn[i], IF i = 3 THEN "answered" ELSE Monitor!InTurn[i + 1],
                     Monitor!list(Monitor!InTurn[i]))
  BY DEF Monitor!liveMonitoringActiveSos
<1> DEFINE at == Monitor!InTurn[i]
           next == IF i = 3 THEN "answered" ELSE Monitor!InTurn[i + 1]
<1>2. /\ view.at = at /\ view.what = "list"
      /\ view'.what = view.what /\ view'.at = next /\ view'.of = view.of /\ view'.cars = view.cars
      /\ view'.rides = view.rides /\ view'.shown = view.shown \cup Monitor!list(at)
      /\ view'.active = view.active /\ view'.known = view.known
      /\ watched' = watched
      /\ emergency' = emergency
      /\ car' = car
      /\ own' = own
      /\ Monitor!Active' = Monitor!Active
      /\ Monitor!Known' = Monitor!Known
      /\ MonitorTypes' /\ view'.active \subseteq Monitor!Active'
  BY <1>1, LookKeeps DEF Monitor!liveMonitoringActiveSos
<1>3. /\ at \in {"TRIGGERED", "ACKNOWLEDGED", "RESPONDING"}
      /\ next \in {"ACKNOWLEDGED", "RESPONDING", "answered"}
      /\ Rank(next) = Rank(at) + 1 /\ Rank(at) \in Nat
      /\ \A status : Rank(status) \in Nat /\ (Rank(status) = Rank(at) => status = at)
  BY DEF Monitor!InTurn, Rank
<1> HIDE DEF at, next
<1>4. InStep' /\ MapKnows'
  BY <1>2, <1>3 DEF MonitorInv, InStep, MapKnows
<1>5. ListComesBy'
  <2> SUFFICES ASSUME NEW s \in view.active
               PROVE  Rank(emergency[s].status) >= Rank(next) \/ Covered(s)'
    BY <1>2 DEF ListComesBy
  <2>1. Rank(emergency[s].status) >= Rank(at) \/ Covered(s)
    BY <1>2 DEF MonitorInv, ListComesBy
  <2>2. CASE Covered(s)
    BY <1>2, <2>2, CoveredStays
  <2>3. CASE Rank(emergency[s].status) = Rank(at)
    <3>1. emergency[s].status = at /\ s \in Soses
      BY <1>3, <2>3 DEF MonitorInv, MonitorTypes
    <3> QED BY <1>2, <3>1, PageCovers
  <2> QED BY <1>3, <2>1, <2>2, <2>3
<1>6. Monitor!MapShowsTheActive'
  BY <1>2 DEF Monitor!MapShowsTheActive, Monitor!Answered
<1>7. Monitor!PositionsAreRecent'
  <2>1. ASSUME NEW x \in Monitor!list(at) PROVE x.kind = "SOS"
    <3>1. PICK s : x = Monitor!Item("SOS", s, 0)
      BY DEF Monitor!list
    <3> QED BY <3>1 DEF Monitor!Item
  <2> QED BY <1>2, <2>1 DEF MonitorInv, Monitor!PositionsAreRecent
<1> QED BY <1>2, <1>4, <1>5, <1>6, <1>7 DEF MonitorInv

LEMMA FindRidesInv ==
  ASSUME MonitorParameters, MonitorInv, Monitor!FindRides PROVE MonitorInv'
<1>1. /\ view = ViewIs(view) /\ view.at = "rides"
      /\ view' = [view EXCEPT !.at = "locations", !.rides =
             {s \in Soses : watched[s] = "IN_PROGRESS"}]
  BY DEF Monitor!FindRides, MonitorInv, MonitorTypes, ViewIs
<1>2. /\ view'.what = view.what
      /\ view'.at = "locations"
      /\ view'.of = view.of
      /\ view'.cars = view.cars
      /\ view'.rides = {s \in Soses : watched[s] = "IN_PROGRESS"} /\ view'.shown = view.shown
      /\ view'.active = view.active /\ view'.known = view.known /\ view' = ViewIs(view')
  BY <1>1 DEF ViewIs
<1>3. /\ watched' = watched /\ emergency' = emergency /\ car' = car /\ own' = own
      /\ Monitor!Active' = Monitor!Active
      /\ Monitor!Known' = Monitor!Known
      /\ Monitor!Nowhere' = Monitor!Nowhere
  BY DEF Monitor!FindRides, Monitor!Active, Monitor!Known, Monitor!Nowhere
<1>4. view.what = "map"
  BY <1>1 DEF MonitorInv, InStep, Monitor!NoView
<1>5. MonitorTypes'
  BY <1>2, <1>3 DEF MonitorInv, MonitorTypes, ViewIs, Monitor!Nowhere
<1>6. InStep' /\ ListComesBy' /\ Monitor!MapShowsTheActive' /\ Monitor!PositionsAreRecent'
  BY <1>2, <1>3, <1>4
  DEF MonitorInv, InStep, ListComesBy, Monitor!MapShowsTheActive, Monitor!Answered,
      Monitor!PositionsAreRecent
<1>7. MapKnows' /\ view'.active \subseteq Monitor!Active'
  <2>1. view.known \subseteq Monitor!Known
    BY <1>1 DEF MonitorInv, MapKnows
  <2> QED BY <1>2, <1>3, <2>1 DEF MonitorInv, MapKnows, Monitor!Known
<1> QED BY <1>5, <1>6, <1>7 DEF MonitorInv

LEMMA LocationsInv ==
  ASSUME MonitorParameters, MonitorInv, Monitor!getStoredLocationsForRides PROVE MonitorInv'
<1>1. PICK redisReady \in BOOLEAN :
        view' = [view EXCEPT !.at = "soses", !.known = IF redisReady THEN @ ELSE {},
                  !.cars = [s \in Soses |-> IF redisReady /\ s \in view.rides THEN car[s]
                                            ELSE Monitor!Nowhere]]
  BY DEF Monitor!getStoredLocationsForRides
<1>2. view = ViewIs(view) /\ view.at = "locations"
  BY DEF Monitor!getStoredLocationsForRides, MonitorInv, MonitorTypes, ViewIs
<1>3. /\ view'.what = view.what /\ view'.at = "soses" /\ view'.of = view.of
      /\ view'.cars = [s \in Soses |-> IF redisReady /\ s \in
             view.rides THEN car[s] ELSE Monitor!Nowhere]
      /\ view'.rides = view.rides /\ view'.shown = view.shown
      /\ view'.active = view.active /\ view'.known = (IF redisReady THEN view.known ELSE {})
      /\ view' = ViewIs(view')
  BY <1>1, <1>2 DEF ViewIs
<1>4. /\ watched' = watched /\ emergency' = emergency /\ car' = car /\ own' = own
      /\ Monitor!Active' = Monitor!Active
      /\ Monitor!Known' = Monitor!Known
      /\ Monitor!Nowhere' = Monitor!Nowhere
  BY DEF Monitor!getStoredLocationsForRides, Monitor!Active, Monitor!Known, Monitor!Nowhere
<1>5. view.what = "map"
  BY <1>2 DEF MonitorInv, InStep, Monitor!NoView
<1>6. MonitorTypes'
  <2>1. \A s \in Soses : car[s] \in 0 .. Monitor!Nowhere /\ Monitor!Nowhere \in 0 .. Monitor!Nowhere
    BY DEF MonitorInv, MonitorTypes, KeyAge, Monitor!Nowhere, MonitorParameters
  <2>2. view'.cars \in [Soses -> 0 .. Monitor!Nowhere]
    BY <1>3, <2>1
  <2> QED BY <1>3, <1>4, <2>2 DEF MonitorInv, MonitorTypes, ViewIs
<1>7. InStep' /\ ListComesBy' /\ Monitor!MapShowsTheActive' /\ Monitor!PositionsAreRecent'
  BY <1>3, <1>4, <1>5
  DEF MonitorInv, InStep, ListComesBy, Monitor!MapShowsTheActive, Monitor!Answered,
      Monitor!PositionsAreRecent
<1>8. MapKnows' /\ view'.active \subseteq Monitor!Active'
  <2>1. /\ view.known \subseteq Monitor!Known
        /\ view.known \subseteq view.rides
        /\ view.known \subseteq Soses
    BY <1>2, <1>5 DEF MonitorInv, MapKnows, Monitor!Known
  <2>2. \A s \in view'.known : view'.cars[s] # Monitor!Nowhere
    BY <1>3, <2>1 DEF Monitor!Known
  <2> QED BY <1>3, <1>4, <2>1, <2>2 DEF MonitorInv, MapKnows
<1> QED BY <1>6, <1>7, <1>8 DEF MonitorInv

\* Who is active has a place, if the call or the car gives one.
LEMMA AnswerMapInv ==
  ASSUME MonitorParameters, MonitorInv,
         Monitor!Look("soses", "answered",
          {Monitor!Item("RIDE", s, view.cars[s]) : s \in
              {r \in view.rides : view.cars[r] # Monitor!Nowhere}}
            \cup {Monitor!Item("SOS", s, Monitor!MarkedAt(s)) :
                s \in {r \in Monitor!Active : Monitor!MarkedAt(r) # Monitor!Nowhere}})
  PROVE  MonitorInv'
<1> DEFINE items == {Monitor!Item("RIDE", s, view.cars[s]) :
               s \in {r \in view.rides : view.cars[r] # Monitor!Nowhere}}
                      \cup {Monitor!Item("SOS", s, Monitor!MarkedAt(s)) :
                          s \in {r \in Monitor!Active : Monitor!MarkedAt(r) # Monitor!Nowhere}}
<1>1. /\ view.at = "soses"
      /\ view'.what = view.what
      /\ view'.at = "answered"
      /\ view'.of = view.of
      /\ view'.cars = view.cars
      /\ view'.rides = view.rides /\ view'.shown = view.shown \cup items
      /\ view'.active = view.active /\ view'.known = view.known
      /\ watched' = watched
      /\ emergency' = emergency
      /\ car' = car
      /\ own' = own
      /\ Monitor!Active' = Monitor!Active
      /\ Monitor!Known' = Monitor!Known
      /\ MonitorTypes' /\ view'.active \subseteq Monitor!Active'
  BY LookKeeps
<1>2. view.what = "map"
  BY <1>1 DEF MonitorInv, InStep, Monitor!NoView
<1>3. InStep' /\ ListComesBy' /\ MapKnows'
  BY <1>1, <1>2 DEF MonitorInv, InStep, ListComesBy, MapKnows
<1>4. Monitor!MapShowsTheActive'
  <2> SUFFICES ASSUME NEW s \in view.active, emergency[s].located \/ s \in view.known
               PROVE  Monitor!Shows(s)'
    BY <1>1 DEF Monitor!MapShowsTheActive
  <2>1. s \in Monitor!Active /\ s \in Soses /\ emergency[s].age \in 0..Gone
    BY DEF MonitorInv, MonitorTypes, Monitor!Active, SosRow
  <2>2. Monitor!MarkedAt(s) # Monitor!Nowhere
    BY <1>1, <1>2, <2>1
    DEF Monitor!MarkedAt, MonitorInv, MapKnows, Monitor!Nowhere, MonitorParameters
  <2>3. Monitor!Item("SOS", s, Monitor!MarkedAt(s)) \in items
    BY <2>1, <2>2
  <2>4. /\ Monitor!Item("SOS", s, Monitor!MarkedAt(s)).kind = "SOS"
        /\ Monitor!Item("SOS", s, Monitor!MarkedAt(s)).of = s
    BY DEF Monitor!Item
  <2> QED BY <1>1, <2>3, <2>4 DEF Monitor!Shows
<1>5. Monitor!PositionsAreRecent'
  <2>1. \A i \in items : i.kind # "PERSON"
    BY DEF Monitor!Item
  <2> QED BY <1>1, <2>1 DEF MonitorInv, Monitor!PositionsAreRecent
<1> QED BY <1>1, <1>3, <1>4, <1>5 DEF MonitorInv

\* An answer about people says only what is recent.
LEMMA PeopleInv ==
  ASSUME MonitorParameters, MonitorInv, Monitor!getLocationsForAdmin \/ Monitor!getRideTracking
  PROVE  MonitorInv'
<1>1. PICK at, next, new :
        /\ Monitor!Look(at, next, new)
        /\ \A i \in new : i.kind = "PERSON" => i.age < Gone
        /\ \/ view.what = "positions" /\ next \in {"rider", "answered"}
           \/ view.what = "tracking" /\ next \in {"key", "answered", "failed"}
  <2>1. CASE Monitor!getLocationsForAdmin
    <3>1. \A s, u, key : \A i \in Monitor!Positions(s, u, key) : i.age < Gone
      BY DEF Monitor!Positions, Monitor!IsRecent, Monitor!Item
    <3> QED BY <2>1, <3>1 DEF Monitor!getLocationsForAdmin
  <2>2. CASE Monitor!getRideTracking
    <3>1. view.what = "tracking" /\ view.of \in Soses
      BY <2>2 DEF Monitor!getRideTracking, MonitorInv, InStep
    <3>2. \A i \in Monitor!toResponse(car[view.of]) : i.age < Gone
      BY <3>1 DEF Monitor!toResponse, Monitor!Item, MonitorInv, MonitorTypes, KeyAge,
         Monitor!Nowhere, MonitorParameters
    <3> QED BY <2>2, <3>1, <3>2 DEF Monitor!getRideTracking
  <2> QED BY <2>1, <2>2
<1>2. /\ view.at = at
      /\ view'.what = view.what /\ view'.at = next /\ view'.of = view.of /\ view'.cars = view.cars
      /\ view'.rides = view.rides /\ view'.shown = view.shown \cup new
      /\ view'.active = view.active /\ view'.known = view.known
      /\ watched' = watched
      /\ emergency' = emergency
      /\ car' = car
      /\ own' = own
      /\ Monitor!Active' = Monitor!Active
      /\ Monitor!Known' = Monitor!Known
      /\ MonitorTypes' /\ view'.active \subseteq Monitor!Active'
  BY <1>1, LookKeeps
<1>3. InStep'
  BY <1>1, <1>2 DEF MonitorInv, InStep
<1>4. ListComesBy' /\ Monitor!MapShowsTheActive' /\ Monitor!PositionsAreRecent'
  BY <1>1, <1>2 DEF MonitorInv, ListComesBy, Monitor!MapShowsTheActive, Monitor!Answered,
     Monitor!PositionsAreRecent
<1>5. MapKnows'
  <2>1. view.at \notin {"answered", "failed"}
    BY <1>1 DEF Monitor!getLocationsForAdmin, Monitor!getRideTracking, Monitor!Look
  <2> QED BY <1>1, <1>2, <2>1 DEF MonitorInv, MapKnows
<1> QED BY <1>2, <1>3, <1>4, <1>5 DEF MonitorInv

\* Every step of the monitor keeps all of it.
LEMMA MonitorStep ==
  ASSUME MonitorParameters, MonitorInv, [Monitor!Next]_(Monitor!monitorVars) PROVE MonitorInv'
<1>1. CASE UNCHANGED Monitor!monitorVars
  BY <1>1 DEF Monitor!monitorVars, MonitorInv, MonitorTypes, InStep, ListComesBy, MapKnows,
     Monitor!MapShowsTheActive,
              Monitor!Answered, Monitor!PositionsAreRecent, Monitor!Active, Monitor!Known,
                Covered, Monitor!Shows, Monitor!Nowhere
<1>2. CASE Monitor!liveMonitoringMap
  BY <1>2, FindRidesInv, LocationsInv, AnswerMapInv DEF Monitor!liveMonitoringMap
<1>3. CASE \E s \in Soses : Monitor!Begin("tracking", "access", s)
  BY <1>3, BeginInv
<1>4. CASE \E s \in Monitor!Active : Monitor!Begin("positions", "driver", s)
  BY <1>4, BeginInv DEF Monitor!Active
<1>5. CASE Monitor!Begin("list", "TRIGGERED", 0)
  BY <1>5, BeginInv
<1>6. CASE Monitor!Begin("map", "rides", 0)
  BY <1>6, BeginInv
<1> QED BY <1>1, <1>2, <1>3, <1>4, <1>5, <1>6, MeanwhileInv, TickInv, ListInv, PeopleInv,
CloseInv DEF Monitor!Next

-----------------------------------------------------------------------------
(* Pages of a conversation.                                                *)

\* Messages are stored with the time they were created at, which stays.
StoredInTime ==
  /\ time \in Nat /\ created \in [Messages -> Nat] /\ stored \subseteq Messages
  /\ \A m \in stored : created[m] # 0

ReadingTypes ==
  /\ reading = [shown |-> reading.shown, cursors |-> reading.cursors, first |-> reading.first,
                more |-> reading.more]
  /\ reading.shown \in Seq(stored)
  /\ reading.cursors \subseteq stored
  /\ reading.first \subseteq stored
  /\ reading.more => Len(reading.shown) # 0

IsShown(m) == \E i \in DOMAIN reading.shown : reading.shown[i] = m

\* A cursor without its fraction may pass over what shares its time.
IsSkipped(m, cursors) ==
  \E c \in cursors :
    /\ Pages!Newer(c, m)
    /\ Pages!Truncated(created[m]) = Pages!Truncated(created[c])
    /\ created[c] # Pages!Truncated(created[c])

\* What was there at first and is not shown yet is older than all that is.
GoesOn ==
  /\ \A i, j \in DOMAIN reading.shown : i < j => Pages!Newer(reading.shown[i], reading.shown[j])
  /\ \A m \in reading.first :
       \/ IsShown(m) \/ IsSkipped(m, reading.cursors)
       \/ reading.more /\ Pages!Newer(reading.shown[Len(reading.shown)], m)

\* The time a list gives is that of a stored message.
ItemHolds ==
  /\ item = [lastAt |-> item.lastAt, last |-> item.last, unread |-> item.unread, todo |-> item.todo]
  /\ lastAt \in Nat /\ item.lastAt \in Nat /\ item.last \subseteq stored
  /\ lastAt # 0 => \E m \in stored : created[m] >= lastAt
  /\ item.lastAt # 0 => \E m \in stored : created[m] >= item.lastAt
  /\ "list" \in item.todo => item.todo = {"list"}
  /\ Pages!ListHoldsTogether

PagesInv == StoredInTime /\ ReadingTypes /\ GoesOn /\ ItemHolds

LEMMA PagesInvShows == PagesInv => Pages!PagesAreComplete /\ Pages!ListHoldsTogether
<1> SUFFICES ASSUME PagesInv PROVE Pages!PagesAreComplete
  BY DEF PagesInv, ItemHolds
<1> QED BY DEF PagesInv, GoesOn, IsShown, IsSkipped, Pages!PagesAreComplete

LEMMA PagesInitInv ==
  ASSUME PageParameters, Pages!Init PROVE PagesInv
<1>1. StoredInTime
  BY DEF Pages!Init, StoredInTime, PageParameters
<1>2. reading.shown = <<>> /\ reading.shown \in Seq(stored) /\ DOMAIN reading.shown = {}
  BY DEF Pages!Init, Pages!NotReading
<1>3. ReadingTypes /\ GoesOn
  BY <1>2 DEF Pages!Init, Pages!NotReading, ReadingTypes, GoesOn
<1>4. Cardinality(Messages \ OwnMessages) \in Nat
  BY FS_Subset, FS_CardinalityType DEF PageParameters
<1>5. ItemHolds
  BY <1>4, CountsAgree DEF Pages!Init, Pages!NoItem, ItemHolds, Pages!ListHoldsTogether
<1> QED BY <1>1, <1>3, <1>5 DEF PagesInv

-----------------------------------------------------------------------------
\* A time without its fraction is not later, and the order of times stays.
LEMMA TruncatedKeeps ==
  ASSUME PageParameters, NEW t \in Nat, NEW u \in Nat
  PROVE  /\ Pages!Truncated(t) \in Nat /\ Pages!Truncated(t) <= t
         /\ Pages!Truncated(u) <= t /\ t <= u => Pages!Truncated(t) = Pages!Truncated(u)
<1> DEFINE d == t \div Fine
           e == u \div Fine
<1>1. /\ d \in Nat
      /\ e \in Nat
      /\ d * Fine <= t
      /\ t < d * Fine + Fine
      /\ e * Fine <= u
      /\ u < e * Fine + Fine
  BY DEF PageParameters
<1> HIDE DEF d, e
<1>2. ASSUME e * Fine <= t, t <= u PROVE d = e
  <2>1. ~(d < e)
    <3> SUFFICES ASSUME d + 1 <= e PROVE FALSE
      BY <1>1
    <3>1. (d + 1) * Fine <= e * Fine
      BY <1>1, SMTT(30) DEF PageParameters
    <3>2. (d + 1) * Fine = d * Fine + Fine
      BY <1>1 DEF PageParameters
    <3> QED BY <1>1, <1>2, <3>1, <3>2 DEF PageParameters
  <2>2. ~(e < d)
    <3> SUFFICES ASSUME e + 1 <= d PROVE FALSE
      BY <1>1
    <3>1. (e + 1) * Fine <= d * Fine
      BY <1>1, SMTT(30) DEF PageParameters
    <3>2. (e + 1) * Fine = e * Fine + Fine
      BY <1>1 DEF PageParameters
    <3> QED BY <1>1, <1>2, <3>1, <3>2 DEF PageParameters
  <2> QED BY <1>1, <2>1, <2>2
<1>3. Pages!Truncated(t) = d * Fine /\ Pages!Truncated(u) = e * Fine
  BY DEF Pages!Truncated, d, e
<1>4. d * Fine \in Nat
  BY <1>1 DEF PageParameters
<1> QED BY <1>1, <1>2, <1>3, <1>4

\* Newer orders the messages.
LEMMA NewerOrders ==
  ASSUME PageParameters, StoredInTime
  PROVE  /\ \A x, y, z \in Messages : Pages!Newer(x, y) /\ Pages!Newer(y, z) => Pages!Newer(x, z)
         /\ \A x \in Messages : ~Pages!Newer(x, x)
         /\ \A x, y \in Messages : x = y \/ Pages!Newer(x, y) \/ Pages!Newer(y, x)
BY DEF PageParameters, StoredInTime, Pages!Newer

\* Any messages can be listed from the newest on.
LEMMA PagesInOrderLists ==
  ASSUME PageParameters, StoredInTime, NEW S \in SUBSET Messages
  PROVE  /\ Cardinality(S) \in Nat
         /\ Pages!InOrder(S) \in [1..Cardinality(S) -> S]
         /\ \A i, j \in 1..Cardinality(S) : i < j => Pages!Newer(Pages!InOrder(S)[i],
                Pages!InOrder(S)[j])
         /\ \A x \in S : \E i \in 1..Cardinality(S) : Pages!InOrder(S)[i] = x
<1> DEFINE R == {z \in Messages \X Messages : Pages!Newer(z[1], z[2])}
<1>1. \A x, y \in Messages : <<x, y>> \in R <=> Pages!Newer(x, y)
  OBVIOUS
<1> HIDE DEF R
<1>2. IsFiniteSet(S) /\ Orders(R, S) /\ Cardinality(S) \in Nat
  BY <1>1, NewerOrders, FS_Subset, FS_CardinalityType DEF Orders, PageParameters
<1>3. PICK s : Sorts(s, S, R)
  BY <1>2, SortedExists
<1> DEFINE Sorted(r) == \A i, j \in 1..Cardinality(S) : i < j => Pages!Newer(r[i], r[j])
<1>4. s \in [1..Cardinality(S) -> S] /\ Sorted(s)
  BY <1>1, <1>3 DEF Sorts
<1>5. Pages!InOrder(S) = CHOOSE r \in [1..Cardinality(S) -> S] : Sorted(r)
  BY CountsAgree DEF Pages!InOrder
<1> HIDE DEF Sorted
<1>6. Pages!InOrder(S) \in [1..Cardinality(S) -> S] /\ Sorted(Pages!InOrder(S))
  BY <1>4, <1>5
<1>7. Sorts(Pages!InOrder(S), S, R)
  BY <1>1, <1>2, <1>6 DEF Sorts, Sorted
<1> QED BY <1>2, <1>6, <1>7, SortedApart DEF Sorted

\* A page goes from newer to older and leaves out what comes after it.
LEMMA PageHolds ==
  ASSUME PageParameters, StoredInTime, NEW S \in SUBSET Messages
  PROVE  /\ Pages!Page(S).items \in Seq(S)
         /\ \A i, j \in 1..Len(Pages!Page(S).items) : i < j =>
              Pages!Newer(Pages!Page(S).items[i], Pages!Page(S).items[j])
         /\ Pages!Page(S).more => Len(Pages!Page(S).items) # 0
         /\ \A m \in S : \/ \E i \in 1..Len(Pages!Page(S).items) : Pages!Page(S).items[i] = m
                         \/ /\ Pages!Page(S).more
                            /\ Pages!Newer(Pages!Page(S).items[Len(Pages!Page(S).items)], m)
<1> DEFINE rows == Pages!InOrder(S)
           n == Cardinality(S)
           k == IF n > PageLimit THEN PageLimit ELSE n
           items == SubSeq(rows, 1, k)
<1>1. /\ n \in Nat /\ rows \in [1..n -> S]
      /\ \A i, j \in 1..n : i < j => Pages!Newer(rows[i], rows[j])
      /\ \A x \in S : \E i \in 1..n : rows[i] = x
  BY PagesInOrderLists
<1> HIDE DEF rows, n
<1>2. rows \in Seq(S) /\ Len(rows) = n
  BY <1>1
<1>3. k \in 0..n /\ PageLimit \in Nat \ {0}
  BY <1>1 DEF PageParameters
<1>4. items \in Seq(S) /\ Len(items) = k /\ \A i \in 1..k : items[i] = rows[i]
  BY <1>1, <1>2, <1>3
<1>5. Pages!Page(S) = [items |-> items, more |-> n > PageLimit]
  BY <1>2 DEF Pages!Page, rows
<1> HIDE DEF items, k
<1>6. Pages!Page(S).items = items /\ Pages!Page(S).more = (n > PageLimit)
  BY <1>5
<1>7. k = IF n > PageLimit THEN PageLimit ELSE n
  BY DEF k
<1>8. \A i, j \in 1..k : i < j => Pages!Newer(items[i], items[j])
  BY <1>1, <1>3, <1>4
<1>9. n > PageLimit => k # 0
  BY <1>3, <1>7
<1>10. \A m \in S : \/ \E i \in 1..k : items[i] = m
                    \/ n > PageLimit /\ Pages!Newer(items[k], m)
  <2> SUFFICES ASSUME NEW m \in S PROVE \/ \E i \in 1..k : items[i] = m
                                        \/ n > PageLimit /\ Pages!Newer(items[k], m)
    OBVIOUS
  <2>1. PICK i \in 1..n : rows[i] = m
    BY <1>1
  <2>2. CASE i \in 1..k
    BY <1>4, <2>1, <2>2
  <2>3. CASE i \notin 1..k
    <3>1. n > PageLimit /\ k \in 1..n /\ k < i /\ k \in 1..k
      BY <1>1, <1>3, <1>7, <2>1, <2>3
    <3>2. Pages!Newer(rows[k], rows[i])
      BY <1>1, <2>1, <3>1
    <3> QED BY <1>4, <2>1, <3>1, <3>2
  <2> QED BY <2>2, <2>3
<1> QED BY <1>4, <1>6, <1>8, <1>9, <1>10, Zenon

\* What comes after a cursor is older, and what is older and does not come is
\* of the unit of time that the cursor has lost the fraction of.
LEMMA AfterCursor ==
  ASSUME PageParameters, StoredInTime, NEW c \in stored, NEW m \in stored
  PROVE  /\ m \in Pages!After(c) => Pages!Newer(c, m)
         /\ Pages!Newer(c, m) /\ m \notin Pages!After(c) =>
              Pages!Truncated(created[m]) = Pages!Truncated(created[c]) /\
                created[c] # Pages!Truncated(created[c])
<1> DEFINE t == created[m]
           u == created[c]
<1>1. t \in Nat /\ u \in Nat /\ m \in Nat /\ c \in Nat
  BY DEF StoredInTime, PageParameters
<1>2. /\ Pages!Truncated(u) \in Nat /\ Pages!Truncated(u) <= u
      /\ Pages!Truncated(u) <= t /\ t <= u => Pages!Truncated(t) = Pages!Truncated(u)
  BY <1>1, TruncatedKeeps
<1>3. m \in Pages!After(c) <=> t < Pages!Truncated(u) \/ (t = Pages!Truncated(u) /\ m < c)
  BY DEF Pages!After
<1>4. Pages!Newer(c, m) <=> u > t \/ (u = t /\ c > m)
  BY DEF Pages!Newer
<1> HIDE DEF t, u
<1>5. m \in Pages!After(c) => Pages!Newer(c, m)
  BY <1>1, <1>2, <1>3, <1>4
<1>6. Pages!Newer(c, m) /\ m \notin Pages!After(c) => Pages!Truncated(t) = Pages!Truncated(u) /\
        u # Pages!Truncated(u)
  BY <1>1, <1>2, <1>3, <1>4
<1> QED BY <1>5, <1>6 DEF t, u

\* What is read is carried on in the order it is read in.
LEMMA ReadOn ==
  ASSUME NEW new, NEW cursors, NEW first, NEW more,
         reading' = [shown |-> new, cursors |-> cursors, first |-> first, more |-> more],
         stored \subseteq stored', \A m \in stored : created'[m] = created[m],
         new \in Seq(stored), cursors \subseteq stored, first \subseteq stored,
         more => Len(new) # 0,
         \A i, j \in 1..Len(new) : i < j => Pages!Newer(new[i], new[j]),
         \A m \in first : \/ \E i \in 1..Len(new) : new[i] = m
                          \/ IsSkipped(m, cursors)
                          \/ more /\ Pages!Newer(new[Len(new)], m)
  PROVE  ReadingTypes' /\ GoesOn'
<1>1. DOMAIN new = 1..Len(new) /\ Len(new) \in Nat /\ \A i \in 1..Len(new) : new[i] \in stored
  OBVIOUS
<1>2. \A m, n \in stored : Pages!Newer(m, n)' <=> Pages!Newer(m, n)
  BY DEF Pages!Newer
<1>3. /\ reading'.shown = new
      /\ reading'.cursors = cursors
      /\ reading'.first = first
      /\ reading'.more = more
  OBVIOUS
<1>4. ReadingTypes'
  <2>1. new \in Seq(stored')
    OBVIOUS
  <2> QED BY <1>3, <2>1 DEF ReadingTypes
<1>5. \A i, j \in 1..Len(new) : i < j => Pages!Newer(new[i], new[j])'
  BY <1>1, <1>2
<1>6. \A m \in first : IsSkipped(m, cursors) => IsSkipped(m, cursors)'
  BY <1>2 DEF IsSkipped, Pages!Truncated
<1>7. \A m \in first : more /\ Pages!Newer(new[Len(new)], m) => Pages!Newer(new[Len(new)], m)'
  BY <1>1, <1>2
<1>8. \A m \in first : (\E i \in 1..Len(new) : new[i] = m) => IsShown(m)'
  BY <1>1, <1>3 DEF IsShown
<1> DEFINE s == reading.shown
           f == reading.first
           cs == reading.cursors
           mr == reading.more
<1>9. \A i, j \in DOMAIN new : i < j => Pages!Newer(new[i], new[j])'
  BY <1>1, <1>5
<1>10. \A m \in first : \/ IsShown(m)' \/ IsSkipped(m, cursors)'
                        \/ more /\ Pages!Newer(new[Len(new)], m)'
  BY <1>6, <1>7, <1>8
<1>11. GoesOn'
  BY <1>3, <1>9, <1>10 DEF GoesOn, Pages!Newer, IsSkipped
<1> QED BY <1>4, <1>11

\* While messages come in, what is read and listed stays as it was.
LEMMA StoredStays ==
  ASSUME PageParameters, PagesInv, stored \subseteq stored',
         \A m \in stored : created'[m] = created[m]
  PROVE  /\ reading' = reading => ReadingTypes' /\ GoesOn'
         /\ \A x : (\E m \in stored : created[m] >= x) => \E m \in stored' : created'[m] >= x
<1>1. \A m, n \in stored : Pages!Newer(m, n)' <=> Pages!Newer(m, n)
  BY DEF Pages!Newer
<1>2. ASSUME reading' = reading PROVE ReadingTypes' /\ GoesOn'
  <2>1. PICK new, cursors, first, more :
          reading = [shown |-> new, cursors |-> cursors, first |-> first, more |-> more]
    BY DEF PagesInv, ReadingTypes
  <2>2. /\ reading.shown = new
        /\ reading.cursors = cursors
        /\ reading.first = first
        /\ reading.more = more
    BY <2>1
  <2>3. /\ new \in Seq(stored)
        /\ cursors \subseteq stored
        /\ first \subseteq stored
        /\ (more => Len(new) # 0)
    BY <2>2 DEF PagesInv, ReadingTypes
  <2>4. DOMAIN new = 1..Len(new)
    BY <2>3
  <2>5. /\ \A i, j \in 1..Len(new) : i < j => Pages!Newer(new[i], new[j])
        /\ \A m \in first : \/ \E i \in 1..Len(new) : new[i] = m
                            \/ IsSkipped(m, cursors)
                            \/ more /\ Pages!Newer(new[Len(new)], m)
    BY <2>2, <2>4 DEF PagesInv, GoesOn, IsShown
  <2> QED BY <1>2, <2>1, <2>3, <2>5, ReadOn
<1>3. \A x : (\E m \in stored : created[m] >= x) => \E m \in stored' : created'[m] >= x
  OBVIOUS
<1> QED BY <1>2, <1>3

LEMMA FirstPageInv ==
  ASSUME PageParameters, PagesInv, Pages!FirstPage PROVE ReadingTypes' /\ GoesOn'
<1> DEFINE page == Pages!Page(stored)
<1>1. /\ stored' = stored /\ created' = created /\ stored \in SUBSET Messages /\ StoredInTime
      /\ reading' = [shown |-> page.items, cursors |-> {}, first |-> stored, more |-> page.more]
  BY DEF Pages!FirstPage, PagesInv, StoredInTime
<1>2. /\ page.items \in Seq(stored)
      /\ \A i, j \in 1..Len(page.items) : i < j => Pages!Newer(page.items[i], page.items[j])
      /\ page.more => Len(page.items) # 0
      /\ \A m \in stored : \/ \E i \in 1..Len(page.items) : page.items[i] = m
                           \/ page.more /\ Pages!Newer(page.items[Len(page.items)], m)
  BY <1>1, PageHolds
<1> HIDE DEF page
<1>3. PICK new, more : new = page.items /\ more = page.more
  OBVIOUS
<1>4. /\ reading' = [shown |-> new, cursors |-> {}, first |-> stored, more |-> more]
      /\ new \in Seq(stored) /\ (more => Len(new) # 0)
      /\ \A i, j \in 1..Len(new) : i < j => Pages!Newer(new[i], new[j])
      /\ \A m \in stored : \/ \E i \in 1..Len(new) : new[i] = m
                           \/ more /\ Pages!Newer(new[Len(new)], m)
  BY <1>1, <1>2, <1>3
<1>5. PICK first, cursors : first = stored /\ cursors = {}
  OBVIOUS
<1>6. /\ reading' = [shown |-> new, cursors |-> cursors, first |-> first, more |-> more]
      /\ cursors \subseteq stored /\ first \subseteq stored
      /\ \A m \in first : \/ \E i \in 1..Len(new) : new[i] = m
                          \/ IsSkipped(m, cursors)
                          \/ more /\ Pages!Newer(new[Len(new)], m)
  BY <1>4, <1>5
<1> QED BY <1>1, <1>4, <1>6, ReadOn

\* The next page follows the last cursor.
LEMMA NextPageInv ==
  ASSUME PageParameters, PagesInv, Pages!NextPage PROVE ReadingTypes' /\ GoesOn'
<1> DEFINE was == reading.shown
           k == Len(was)
           c == was[k]
           page == Pages!Page(Pages!After(c))
           items == page.items
           more == page.more
<1>1. /\ was \in Seq(stored) /\ k \in Nat \ {0} /\ c \in stored /\ DOMAIN was = 1..k
      /\ stored \subseteq Messages /\ StoredInTime
      /\ reading.cursors \subseteq stored /\ reading.first \subseteq stored
  BY DEF PagesInv, ReadingTypes, Pages!NextPage, StoredInTime
<1>2. /\ stored' = stored /\ created' = created
      /\ reading' = [reading EXCEPT !.shown = @ \o items, !.cursors = @ \cup {c}, !.more = more]
  BY DEF Pages!NextPage
<1>3. Pages!After(c) \subseteq stored
  BY DEF Pages!After
<1>4. /\ items \in Seq(Pages!After(c))
      /\ \A i, j \in 1..Len(items) : i < j => Pages!Newer(items[i], items[j])
      /\ more => Len(items) # 0
      /\ \A m \in Pages!After(c) : \/ \E i \in 1..Len(items) : items[i] = m
                                   \/ more /\ Pages!Newer(items[Len(items)], m)
  <2> DEFINE S == Pages!After(c)
  <2>1. S \in SUBSET Messages
    BY <1>1, <1>3
  <2> HIDE DEF S
  <2>2. /\ Pages!Page(S).items \in Seq(S)
        /\ \A i, j \in 1..Len(Pages!Page(S).items) : i < j =>
             Pages!Newer(Pages!Page(S).items[i], Pages!Page(S).items[j])
        /\ Pages!Page(S).more => Len(Pages!Page(S).items) # 0
        /\ \A m \in S : \/ \E i \in 1..Len(Pages!Page(S).items) : Pages!Page(S).items[i] = m
                        \/ /\ Pages!Page(S).more
                           /\ Pages!Newer(Pages!Page(S).items[Len(Pages!Page(S).items)], m)
    BY <1>1, <2>1, PageHolds
  <2> QED BY <2>2 DEF S
<1>5. /\ reading'.shown = was \o items /\ reading'.cursors = reading.cursors \cup {c}
      /\ reading'.first = reading.first /\ reading'.more = more
      /\ reading' = [shown |-> reading'.shown, cursors |-> reading'.cursors,
                     first |-> reading'.first, more |-> reading'.more]
  BY <1>2 DEF PagesInv, ReadingTypes
<1> HIDE DEF page, items, more
<1> DEFINE l == Len(items)
           new == was \o items
<1>6. items \in Seq(stored) /\ l \in Nat /\ DOMAIN items = 1..l
  BY <1>3, <1>4
<1>7. /\ new \in Seq(stored) /\ Len(new) = k + l /\ DOMAIN new = 1..(k + l)
      /\ \A i \in 1..k : new[i] = was[i]
      /\ \A i \in 1..l : new[k + i] = items[i]
  BY <1>1, <1>6
<1>8. \A m, n : Pages!Newer(m, n)' <=> Pages!Newer(m, n)
  BY <1>2 DEF Pages!Newer
<1>9. ReadingTypes'
  BY <1>1, <1>2, <1>4, <1>5, <1>6, <1>7 DEF ReadingTypes
<1>10. \A i \in 1..l : items[i] \in stored /\ Pages!Newer(c, items[i])
  <2>1. \A i \in 1..l : items[i] \in Pages!After(c)
    BY <1>4, MembersOf
  <2> QED BY <1>1, <1>3, <2>1, AfterCursor
<1>11. \A i \in 1..k : was[i] = c \/ Pages!Newer(was[i], c)
  <2>1. \A i \in 1..k : i < k => Pages!Newer(was[i], was[k])
    BY <1>1 DEF PagesInv, GoesOn
  <2> QED BY <1>1, <2>1
<1>12. \A i \in 1..k : was[i] \in stored /\ was[i] \in Messages
  BY <1>1, MembersOf
<1>13. \A i \in 1..k, j \in 1..l : Pages!Newer(was[i], items[j])
  <2> TAKE i \in 1..k, j \in 1..l
  <2>1. was[i] \in Messages /\ c \in Messages /\ items[j] \in Messages
    BY <1>1, <1>10, <1>12
  <2>2. Pages!Newer(c, items[j]) /\ (was[i] = c \/ Pages!Newer(was[i], c))
    BY <1>10, <1>11
  <2> HIDE DEF was, c
  <2> QED BY <1>1, <2>1, <2>2, NewerOrders
<1>14. ASSUME NEW i \in DOMAIN new, NEW j \in DOMAIN new, i < j PROVE Pages!Newer(new[i], new[j])
  <2>1. CASE j <= k
    <3>1. i \in 1..k /\ j \in 1..k /\ Pages!Newer(was[i], was[j])
      BY <1>1, <1>7, <1>14, <2>1 DEF PagesInv, GoesOn
    <3> QED BY <1>7, <3>1
  <2>2. CASE j > k /\ i <= k
    <3>1. i \in 1..k /\ j - k \in 1..l /\ k + (j - k) = j
      <4> HIDE DEF k, l, new
      <4> QED BY <1>1, <1>6, <1>7, <2>2
    <3>2. new[i] = was[i] /\ new[k + (j - k)] = items[j - k]
      BY <1>7, <3>1
    <3> HIDE DEF new, k, l
    <3> QED BY <1>13, <3>1, <3>2
  <2>3. CASE i > k
    <3>1. i - k \in 1..l /\ j - k \in 1..l /\ k + (i - k) = i /\ k + (j - k) = j /\ i - k < j - k
      <4>1. i \in 1..(k + l) /\ j \in 1..(k + l) /\ i < j /\ k \in Nat /\ l \in Nat
        BY <1>1, <1>6, <1>7, <1>14
      <4> HIDE DEF k, l, new
      <4> QED BY <4>1, <2>3
    <3>2. new[k + (i - k)] = items[i - k] /\ new[k + (j - k)] = items[j - k]
      BY <1>7, <3>1
    <3> HIDE DEF new, k
    <3> QED BY <1>4, <3>1, <3>2
  <2> QED BY <1>1, <1>7, <2>1, <2>2, <2>3
<1>15. ASSUME NEW m \in reading.first
       PROVE  \/ \E i \in 1..Len(new) : new[i] = m
              \/ IsSkipped(m, reading.cursors \cup {c})
              \/ more /\ Pages!Newer(new[Len(new)], m)
  <2>1. \/ IsShown(m) \/ IsSkipped(m, reading.cursors) \/ Pages!Newer(c, m)
    BY DEF PagesInv, GoesOn
  <2>2. CASE IsShown(m)
    <3>1. PICK i \in 1..k : was[i] = m
      BY <1>1, <2>2 DEF IsShown
    <3>2. i \in 1..Len(new) /\ new[i] = m
      BY <1>1, <1>6, <1>7, <3>1
    <3> QED BY <3>2
  <2>3. CASE IsSkipped(m, reading.cursors)
    BY <2>3 DEF IsSkipped
  <2>4. CASE Pages!Newer(c, m) /\ m \notin Pages!After(c)
    <3>1. /\ Pages!Truncated(created[m]) = Pages!Truncated(created[c])
          /\ created[c] # Pages!Truncated(created[c])
      BY <1>1, <2>4, AfterCursor
    <3> QED BY <2>4, <3>1 DEF IsSkipped
  <2>5. CASE m \in Pages!After(c)
    <3>1. CASE \E i \in 1..l : items[i] = m
      <4>1. PICK i \in 1..l : items[i] = m
        BY <3>1
      <4>2. k + i \in 1..Len(new) /\ new[k + i] = m
        BY <1>1, <1>6, <1>7, <4>1
      <4> QED BY <4>2
    <3>2. CASE more /\ Pages!Newer(items[l], m)
      <4>1. l \in 1..l /\ Len(new) = k + l /\ new[k + l] = items[l]
        BY <1>4, <1>6, <1>7, <3>2
      <4> HIDE DEF new, l
      <4> QED BY <3>2, <4>1
    <3> QED BY <1>4, <2>5, <3>1, <3>2
  <2> QED BY <2>1, <2>2, <2>3, <2>4, <2>5
<1>16. more => Len(new) # 0
  BY <1>1, <1>6, <1>7
<1>17. reading' = [shown |-> new, cursors |-> reading.cursors \cup {c}, first |-> reading.first,
                   more |-> more]
  BY <1>5
<1>18. PICK sh, cs, fs, mr :
         sh = new /\ cs = reading.cursors \cup {c} /\ fs = reading.first /\ mr = more
  OBVIOUS
<1> HIDE DEF new, c
<1>19. /\ reading' = [shown |-> sh, cursors |-> cs, first |-> fs, more |-> mr]
       /\ sh \in Seq(stored) /\ cs \subseteq stored /\ fs \subseteq stored /\ (mr => Len(sh) # 0)
       /\ \A i, j \in 1..Len(sh) : i < j => Pages!Newer(sh[i], sh[j])
       /\ \A m \in fs : \/ \E i \in 1..Len(sh) : sh[i] = m
                        \/ IsSkipped(m, cs)
                        \/ mr /\ Pages!Newer(sh[Len(sh)], m)
  BY <1>1, <1>7, <1>14, <1>15, <1>16, <1>17, <1>18
<1> QED BY <1>2, <1>19, ReadOn

-----------------------------------------------------------------------------
\* While messages come in, the item of the list stays true.
LEMMA ItemStays ==
  ASSUME PageParameters, PagesInv, item' = item, stored \subseteq stored',
         \A m \in stored : created'[m] = created[m],
         lastAt' \in Nat, lastAt' # 0 => \E m \in stored' : created'[m] >= lastAt',
         read' \subseteq stored' \ OwnMessages
  PROVE  ItemHolds'
<1>1. item.lastAt # 0 => \E m \in stored' : created'[m] >= item.lastAt
  BY StoredStays DEF PagesInv, ItemHolds
<1>2. Pages!ListHoldsTogether'
  BY DEF PagesInv, ItemHolds, Pages!ListHoldsTogether
<1> QED BY <1>1, <1>2 DEF PagesInv, ItemHolds

LEMMA MessagesComeIn ==
  ASSUME PageParameters, PagesInv, NEW m \in Messages, Pages!BeginSend(m) \/ Pages!Store(m)
  PROVE  PagesInv'
<1>1. StoredInTime' /\ stored \subseteq stored' /\ \A n \in stored : created'[n] = created[n]
  BY DEF Pages!BeginSend, Pages!Store, PagesInv, StoredInTime
<1>2. reading' = reading /\ item' = item /\ read' = read
  BY DEF Pages!BeginSend, Pages!Store
<1>3. lastAt' \in Nat /\ (lastAt' # 0 => \E n \in stored' : created'[n] >= lastAt')
  <2>1. CASE Pages!BeginSend(m)
    <3>1. lastAt' = lastAt
      BY <2>1 DEF Pages!BeginSend
    <3>2. lastAt # 0 => \E n \in stored' : created'[n] >= lastAt
      BY <1>1, StoredStays DEF PagesInv, ItemHolds
    <3> QED BY <3>1, <3>2 DEF PagesInv, ItemHolds
  <2>2. CASE Pages!Store(m)
    <3>1. m \in stored' /\ created'[m] = lastAt' /\ lastAt' \in Nat
      BY <2>2 DEF Pages!Store, PagesInv, StoredInTime
    <3>2. created'[m] >= lastAt'
      BY <3>1
    <3> QED BY <3>1, <3>2
  <2> QED BY <2>1, <2>2
<1>4. read' \subseteq stored' \ OwnMessages
  BY <1>1, <1>2 DEF PagesInv, ItemHolds, Pages!ListHoldsTogether
<1>5. ReadingTypes' /\ GoesOn'
  BY <1>1, <1>2, StoredStays
<1>6. ItemHolds'
  BY <1>1, <1>2, <1>3, <1>4, ItemStays
<1> QED BY <1>1, <1>5, <1>6 DEF PagesInv

\* The newest message is as late as any.
LEMMA NewestExists ==
  ASSUME PageParameters, StoredInTime, NEW x \in Nat, \E m \in stored : created[m] >= x
  PROVE  \E m \in Pages!Newest : created[m] >= x
<1> DEFINE R == {z \in Messages \X Messages : Pages!Newer(z[2], z[1])}
<1>1. \A m, n \in Messages : <<m, n>> \in R <=> Pages!Newer(n, m)
  OBVIOUS
<1> HIDE DEF R
<1>2. IsFiniteSet(stored) /\ Orders(R, stored) /\ stored # {} /\ stored \subseteq Messages
  BY <1>1, NewerOrders, FS_Subset DEF Orders, PageParameters, StoredInTime
<1>3. PICK m \in stored : \A n \in stored \ {m} : <<n, m>> \in R
  <2> DEFINE S == stored
  <2>1. IsFiniteSet(S) /\ Orders(R, S) /\ S # {}
    BY <1>2
  <2> HIDE DEF S
  <2>2. \E m \in S : \A n \in S \ {m} : <<n, m>> \in R
    BY <2>1, LastExists
  <2> QED BY <2>2 DEF S
<1>4. \A n \in stored : n = m \/ Pages!Newer(m, n)
  BY <1>1, <1>2, <1>3
<1>5. m \in Pages!Newest
  BY <1>4 DEF Pages!Newest
<1>6. PICK n \in stored : created[n] >= x
  OBVIOUS
<1>7. created[m] >= created[n] /\ created[m] \in Nat /\ created[n] \in Nat
  BY <1>4 DEF Pages!Newer, StoredInTime
<1> QED BY <1>5, <1>6, <1>7

LEMMA ItemRead ==
  ASSUME PageParameters, PagesInv, Pages!listConversations \/ Pages!FindLast \/ Pages!CountUnread
  PROVE  PagesInv'
<1>1. /\ UNCHANGED <<time, created, stored, read, lastAt, reading>>
      /\ item = [lastAt |-> item.lastAt, last |-> item.last, unread |-> item.unread,
             todo |-> item.todo]
  BY DEF Pages!listConversations, Pages!FindLast, Pages!CountUnread, PagesInv, ItemHolds
<1>2. StoredInTime' /\ ReadingTypes' /\ GoesOn'
  BY <1>1, StoredStays DEF PagesInv, StoredInTime
<1>3. ItemHolds'
  <2>1. CASE Pages!listConversations
    <3>1. /\ item'.lastAt = lastAt /\ item'.last = item.last /\ item'.unread = item.unread
          /\ item'.todo = {"last", "count"}
          /\ item' = [lastAt |-> item'.lastAt, last |-> item'.last, unread |-> item'.unread,
                      todo |-> item'.todo]
      BY <1>1, <2>1 DEF Pages!listConversations
    <3>2. Pages!ListHoldsTogether'
      BY <1>1, <3>1 DEF PagesInv, ItemHolds, Pages!ListHoldsTogether
    <3> QED BY <1>1, <3>1, <3>2 DEF PagesInv, ItemHolds
  <2>2. CASE Pages!FindLast
    <3>1. /\ item'.lastAt = item.lastAt /\ item'.last = Pages!Newest /\ item'.unread = item.unread
          /\ item'.todo = item.todo \ {"last"}
          /\ item' = [lastAt |-> item'.lastAt, last |-> item'.last, unread |-> item'.unread,
                      todo |-> item'.todo]
      BY <1>1, <2>2 DEF Pages!FindLast
    <3>2. "list" \notin item.todo
      BY <2>2 DEF Pages!FindLast, PagesInv, ItemHolds
    <3>3. item.lastAt # 0 => \E m \in Pages!Newest : created[m] >= item.lastAt
      BY NewestExists DEF PagesInv, ItemHolds
    <3>4. Pages!Newest \subseteq stored
      BY DEF Pages!Newest
    <3>5. Pages!ListHoldsTogether'
      BY <1>1, <3>1, <3>3 DEF PagesInv, ItemHolds, Pages!ListHoldsTogether
    <3> QED BY <1>1, <3>1, <3>2, <3>4, <3>5 DEF PagesInv, ItemHolds
  <2>3. CASE Pages!CountUnread
    <3>1. /\ item'.lastAt = item.lastAt /\ item'.last = item.last /\ item'.unread = Pages!Unread
          /\ item'.todo = item.todo \ {"count"}
          /\ item' = [lastAt |-> item'.lastAt, last |-> item'.last, unread |-> item'.unread,
                      todo |-> item'.todo]
      BY <1>1, <2>3 DEF Pages!CountUnread
    <3>2. "list" \notin item.todo
      BY <2>3 DEF Pages!CountUnread, PagesInv, ItemHolds
    <3>3. Pages!Unread <= Pages!Cardinality(Messages \ OwnMessages)
      <4>1. /\ {m \in stored \ OwnMessages : m \notin read} \subseteq Messages \ OwnMessages
            /\ IsFiniteSet(Messages \ OwnMessages)
        BY FS_Subset DEF PageParameters, PagesInv, StoredInTime
      <4> QED BY <4>1, FS_Subset, CountsAgree DEF Pages!Unread
    <3>4. item'.todo \cap {"list", "last"} = item.todo \cap {"list", "last"}
      BY <3>1
    <3>5. Pages!ListHoldsTogether'
      BY <1>1, <3>1, <3>3, <3>4 DEF PagesInv, ItemHolds, Pages!ListHoldsTogether
    <3> QED BY <1>1, <3>1, <3>2, <3>5 DEF PagesInv, ItemHolds
  <2> QED BY <2>1, <2>2, <2>3
<1> QED BY <1>2, <1>3 DEF PagesInv

\* Every step of a reader and of the others keeps all of it.
LEMMA PagesStep ==
  ASSUME PageParameters, PagesInv, [Pages!Next]_(Pages!pageVars) PROVE PagesInv'
<1>1. ASSUME UNCHANGED <<created, stored, lastAt, item>>, read' \subseteq stored \ OwnMessages,
             time' \in Nat,
             ReadingTypes' /\ GoesOn'
      PROVE  PagesInv'
  <2>1. StoredInTime'
    BY <1>1 DEF PagesInv, StoredInTime
  <2>2. ItemHolds'
    BY <1>1, ItemStays DEF PagesInv, ItemHolds
  <2> QED BY <1>1, <2>1, <2>2 DEF PagesInv
<1>2. reading' = reading /\ UNCHANGED <<created, stored>> => ReadingTypes' /\ GoesOn'
  BY StoredStays
<1>3. read \subseteq stored \ OwnMessages /\ time \in Nat
  BY DEF PagesInv, ItemHolds, Pages!ListHoldsTogether, StoredInTime
<1>4. CASE UNCHANGED Pages!pageVars \/ Pages!Tick
  BY <1>1, <1>2, <1>3, <1>4 DEF Pages!pageVars, Pages!Tick
<1>5. CASE Pages!FirstPage
  BY <1>1, <1>3, <1>5, FirstPageInv DEF Pages!FirstPage
<1>6. CASE Pages!NextPage
  BY <1>1, <1>3, <1>6, NextPageInv DEF Pages!NextPage
<1>7. CASE Pages!Leave
  <2>1. reading' = Pages!NotReading /\ UNCHANGED <<time, created, stored, read, lastAt, item>>
    BY <1>7 DEF Pages!Leave
  <2>2. reading'.shown = <<>> /\ reading'.shown \in Seq(stored') /\ DOMAIN reading'.shown = {}
    BY <2>1 DEF Pages!NotReading
  <2>3. ReadingTypes' /\ GoesOn'
    BY <2>1, <2>2 DEF Pages!NotReading, ReadingTypes, GoesOn
  <2> QED BY <1>1, <1>3, <2>1, <2>3
<1>8. ASSUME NEW upTo, Pages!markRead(upTo) PROVE PagesInv'
  <2>1. /\ read' \subseteq stored \ OwnMessages
        /\ UNCHANGED <<time, created, stored, lastAt, reading, item>>
    BY <1>3, <1>8 DEF Pages!markRead
  <2> QED BY <1>1, <1>2, <1>3, <2>1
<1>9. CASE Pages!Next
  <2>1. \/ Pages!Tick \/ Pages!FirstPage \/ Pages!NextPage \/ Pages!Leave
        \/ \E m \in Messages : Pages!BeginSend(m) \/ Pages!Store(m)
        \/ \E upTo : Pages!markRead(upTo)
        \/ Pages!listConversations \/ Pages!FindLast \/ Pages!CountUnread
    BY <1>9 DEF Pages!Next
  <2> QED BY <1>4, <1>5, <1>6, <1>7, <1>8, <2>1, MessagesComeIn, ItemRead
<1> QED BY <1>4, <1>9

-----------------------------------------------------------------------------
(* All parts side by side.  A step of the composite is a step of one part  *)
(* and leaves the others alone.                                            *)

DeskInv ==
  /\ SosInv /\ DeletionInv /\ ChatInv /\ SupportInv /\ RatedInv
  /\ CodesInv /\ KycInv /\ SignupInv /\ ReadersInv
  /\ NoticesInv /\ MonitorInv /\ PagesInv

LEMMA DeskInitInv ==
  ASSUME Init PROVE DeskInv
<1>1. SosInv /\ DeletionInv /\ SupportInv
  BY SosInitInv, DeletionInitInv, SupportInitInv DEF Init
<1>2. ChatInv /\ RatedInv /\ KycInv
  BY ChatParameters, ChatInitInv, RatedInitInv, KycParameters, KycInitInv DEF Init
<1>3. CodesInv /\ SignupInv /\ ReadersInv
  BY CodesParameters, CodesInitInv, SignupParameters, SignupInitInv, ListParameters,
     ReadersInitInv DEF Init
<1>4. NoticesInv /\ MonitorInv /\ PagesInv
  BY NoticeParameters, NoticesInitInv, MonitorParameters, MonitorInitInv, PageParameters,
     PagesInitInv DEF Init
<1> QED BY <1>1, <1>2, <1>3, <1>4 DEF DeskInv

LEMMA DeskSteps ==
  ASSUME [Next]_deskVars
  PROVE  /\ [Sos!Next]_(Sos!sosVars) /\ [Deletion!Next]_(Deletion!accountVars)
         /\ [Chat!Next]_(Chat!chatVars) /\ [Support!Next]_(Support!supportVars)
         /\ [Rated!Next]_(Rated!ratingVars) /\ [Codes!Next]_(Codes!codeVars)
         /\ [Kyc!Next]_(Kyc!kycVars) /\ [Signup!Next]_(Signup!vars) /\ [Lists!Next]_(Lists!vars)
         /\ [Notices!Next]_(Notices!vars) /\ [Monitor!Next]_(Monitor!monitorVars)
         /\ [Pages!Next]_(Pages!pageVars)
BY DEF Next, deskVars, sosVars, deletionVars, chatVars, supportVars, ratingVars, codeVars,
       kycVars, signupVars, listVars, noticeVars, monitorVars, pageVars, Sos!sosVars,
       Deletion!accountVars, Chat!chatVars,
       Support!supportVars, Rated!ratingVars, Codes!codeVars, Kyc!kycVars, Signup!vars,
       Lists!vars, Notices!vars, Monitor!monitorVars, Pages!pageVars

LEMMA StepKeepsDeskInv ==
  ASSUME DeskInv, [Next]_deskVars PROVE DeskInv'
<1>1. SosInv' /\ DeletionInv' /\ SupportInv'
  BY DeskSteps, SosStep, DeletionStep, SupportStep DEF DeskInv
<1>2. ChatInv' /\ RatedInv' /\ KycInv'
  BY DeskSteps, ChatParameters, ChatStep, RatedStep, KycParameters, KycStep DEF DeskInv
<1>3. CodesInv' /\ SignupInv' /\ ReadersInv'
  BY DeskSteps, CodesParameters, CodesStep, SignupParameters, SignupStep, ListParameters,
     ReadersStep DEF DeskInv
<1>4. NoticesInv' /\ MonitorInv' /\ PagesInv'
  BY DeskSteps, NoticeParameters, NoticesStep, MonitorParameters, MonitorStep, PageParameters,
     PagesStep DEF DeskInv
<1> QED BY <1>1, <1>2, <1>3, <1>4 DEF DeskInv

\* All parts start and go on as they may.
THEOREM DeskInvariant == Spec => []DeskInv
<1>1. Init => DeskInv
  BY DeskInitInv
<1>2. DeskInv /\ [Next]_deskVars => DeskInv'
  BY StepKeepsDeskInv
<1> QED BY <1>1, <1>2, PTL DEF Spec

\* The services of sos, users, chat, support, auth and referrals: whatever is
\* repeated, retried or overtaken, it counts once.
THEOREM RepeatsAlwaysCountOnce == Spec => []RepeatsCountOnce
<1>1. DeskInv => RepeatsCountOnce
  BY SosInvOneEmergency, DeletionInvOneRequest, ChatInvToldOnce, CodesInvProven
  DEF DeskInv, SupportInv, SignupInv, RepeatsCountOnce
<1> QED BY <1>1, DeskInvariant, PTL

\* email-verification.service.ts, identity-verification.service.ts and
\* auth.service.ts: no email, identity or session without its proof.
THEOREM NothingIsEverUnproven == Spec => []NothingUnproven
<1>1. DeskInv => NothingUnproven
  BY CodesInvProven, KycInvRewards, SignupInvSignsIn DEF DeskInv, NothingUnproven
<1> QED BY <1>1, DeskInvariant, PTL

\* What users are told and shown is so: tickets of support, the averages of their
\* ratings, what rides.service.ts and bookings.service.ts list of a ride, who is
\* told of a cancellation, the safety desk's lists and the pages of a conversation.
THEOREM UsersAlwaysSeeTheTruth == Spec => []UsersSeeTheTruth
<1>1. DeskInv => UsersSeeTheTruth
  <2> SUFFICES ASSUME DeskInv PROVE UsersSeeTheTruth
    OBVIOUS
  <2>1. Support!UserIsTold /\ Rated!AveragesAgree
    BY RatingParameters, RatedInvAverages DEF DeskInv, SupportInv
  <2>2. /\ Lists!PagesMissNothing /\ Lists!HistoriesAgree
        /\ Lists!LiveListsAgree /\ Lists!ShownCodesOpen
    BY ListParameters, ReadersInvShows DEF DeskInv
  <2>3. Notices!ToldOrToldAgain /\ Notices!NoticesAreTrue
    BY NoticeParameters, NoticesInvHold DEF DeskInv
  <2>4. /\ Monitor!ActiveNeverMissed /\ Monitor!MapShowsTheActive /\ Monitor!PositionsAreRecent
        /\ Pages!PagesAreComplete /\ Pages!ListHoldsTogether
    BY MonitorParameters, MonitorInvShows, PageParameters, PagesInvShows DEF DeskInv
  <2> QED BY <2>1, <2>2, <2>3, <2>4 DEF UsersSeeTheTruth
<1> QED BY <1>1, DeskInvariant, PTL

\* What ended, was closed, resolved, rated or picked up is never taken back.
THEOREM DecisionsAlwaysStay == Spec => DecisionsStay
<1> DEFINE Ended == /\ \A s \in DOMAIN sos : sos[s] \notin Sos!Active => sos'[s] = sos[s]
                    /\ \A s \in DOMAIN incidents :
                         incidents[s].status # "OPEN" => incidents'[s].status # "OPEN"
           Closed == \A r \in DOMAIN requests :
                       requests[r] \in {"CANCELLED", "COMPLETED"} => requests'[r] = requests[r]
           Resolved == \A t \in Support!Ids : ticket[t].status = "RESOLVED" =>
             ticket'[t] = ticket[t]
           Given == \A k \in Rated!Pairs : task[k].status = "COMPLETED" => task'[k] = task[k]
           Aboard == \A b \in Trips \ Legacy :
                       trip[b].pickup = "PICKED_UP" => trip'[b].pickup = "PICKED_UP"
<1>1. DeskInv /\ [Next]_deskVars =>
        /\ [Ended]_(Sos!sosVars) /\ [Closed]_(Deletion!accountVars)
        /\ [Resolved]_(Support!supportVars) /\ [Given]_(Rated!ratingVars) /\ [Aboard]_(Lists!vars)
  <2> SUFFICES ASSUME DeskInv, [Next]_deskVars PROVE Ended /\ Closed /\ Resolved /\ Given /\ Aboard
    OBVIOUS
  <2>1. Ended /\ Closed /\ Resolved
    BY DeskSteps, SosStep, DeletionStep, SupportStep DEF DeskInv
  <2>2. Given /\ Aboard
    BY DeskSteps, RatedStep, ListParameters, ListsStep DEF DeskInv, ReadersInv
  <2> QED BY <2>1, <2>2
<1> HIDE DEF Ended, Closed, Resolved, Given, Aboard
<1>2. Spec =>
        /\ [][Ended]_(Sos!sosVars) /\ [][Closed]_(Deletion!accountVars)
        /\ [][Resolved]_(Support!supportVars) /\ [][Given]_(Rated!ratingVars)
        /\ [][Aboard]_(Lists!vars)
  BY <1>1, DeskInvariant, PTL DEF Spec
<1> QED BY <1>2
        DEF DecisionsStay, Sos!EmergenciesStayEnded, Deletion!RequestsStayClosed,
            Support!ResolvedIsFinal, Rated!RatingsStand, Lists!PickedUpStays,
            Ended, Closed, Resolved, Given, Aboard

\* conversations.service.ts: a message that was under way when the ride ended is
\* not stored any more, and no conversation opens again.
THEOREM NothingIsWrittenAfterClose == Spec => NothingAfterClose
<1> DEFINE Still == conversation.status = "CLOSED" =>
                      /\ conversation'.status = "CLOSED"
                      /\ Chat!Cardinality(messages') = Chat!Cardinality(messages)
<1>1. DeskInv /\ [Next]_deskVars => [Still]_(Chat!chatVars)
  BY DeskSteps, ChatParameters, ChatStep, CountsAgree DEF DeskInv
<1> HIDE DEF Still
<1>2. Spec => [][Still]_(Chat!chatVars)
  BY <1>1, DeskInvariant, PTL DEF Spec
<1> QED BY <1>2 DEF NothingAfterClose, Chat!NothingAfterClose, Still

=============================================================================

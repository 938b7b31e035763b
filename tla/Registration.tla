---------------------------- MODULE Registration ----------------------------
(***************************************************************************)
(* How people sign in and get their account (auth/auth.service.ts), with   *)
(* the referral that rewards both sides of an invitation                   *)
(* (referrals/referral.service.ts).  A provider proves the phone, a        *)
(* request looks for the account of any form of it and creates one         *)
(* otherwise.  Requests run side by side; indexes keep a form of a phone,  *)
(* an email and a referral code from being taken twice.  An account is     *)
(* named after the request that created it.  Profiles and what a login     *)
(* does to a status that changes (AccountDeletion) are left out.           *)
(***************************************************************************)
EXTENDS Naturals, FiniteSets

CONSTANTS Requests,
          Old,        \* an account from before there were referral codes
          Phones,     \* whose phone it is
          Reviewer,   \* the phone of the store's reviewer
          Inputs,     \* what a request brings: whether it registers, email, code
          InviteCodes, \* the referral codes that are generated
          MaxAttempts \* REVIEW_ATTEMPT_MAX

VARIABLES user,      \* account -> its row, NoUser before it exists
          referrals, \* pairs of a referrer and whom she referred
          points,    \* account -> REFERRAL_REWARD_COINS it was credited
          request,   \* request -> its input and how far it is
          attempts   \* credentials the reviewer's phone was tried with

vars == <<user, referrals, points, request, attempts>>

Accounts == Requests \cup {Old}

NoUser == [status |-> "NONE"]

\* A provider writes a phone without a plus; the reviewer's is configured with.
Forms == {"91", "+91"}

Row(phone, form, email, code) ==
  [status |-> "ACTIVE", phone |-> phone, form |-> form, email |-> email, code |-> code]

Init ==
  /\ user = [a \in Accounts |-> IF a = Old THEN Row(Reviewer, "91", "none", "none") ELSE NoUser]
  /\ referrals = {} /\ points = [a \in Accounts |-> 0]
  /\ request = [q \in Requests |-> [step |-> "none"]]
  /\ attempts = 0

\* UQ_users_phone_active and UQ_users_email_active leave out deleted users.
Present(a) == user[a].status \notin {"NONE", "DELETED"}

Known == {a \in Accounts : user[a].status # "NONE"}

\* findOne over getPhoneVariations: any form of the phone.
ActiveUsersByPhone(phone) == {a \in Accounts : Present(a) /\ user[a].phone = phone}

Take(q, fields) == request' = [request EXCEPT ![q] = fields]

Goes(q, step) == request' = [request EXCEPT ![q].step = step]

Refused(q) == Take(q, [step |-> "refused"])

-----------------------------------------------------------------------------
\* A request with the phone a provider has proven.
Begin(q, phone, form, in) ==
  /\ request[q].step = "none"
  /\ Take(q, [step |-> "find", phone |-> phone, form |-> form, register |-> in.register,
              email |-> in.email, code |-> in.code])

VerifyMsg91AccessToken(q, phone, in) ==
  /\ Begin(q, phone, "91", in)
  /\ UNCHANGED <<user, referrals, points, attempts>>

\* The reviewer's credentials count unless they were tried too often.
VerifyPlayReviewCredentials(q, in) ==
  /\ attempts' = attempts + 1 /\ attempts < MaxAttempts
  /\ Begin(q, Reviewer, "+91", in)
  /\ UNCHANGED <<user, referrals, points>>

\* Asking for a password counts as an attempt, too.
SendMsg91Otp ==
  /\ attempts < MaxAttempts /\ attempts' = attempts + 1
  /\ UNCHANGED <<user, referrals, points, request>>

ReviewWindowPasses ==
  /\ attempts > 0 /\ attempts' = 0
  /\ UNCHANGED <<user, referrals, points, request>>

Login(q, found) ==
  request' = [request EXCEPT ![q] =
    [step |-> "login", account |-> found, copy |-> user[found], phone |-> @.phone,
     register |-> @.register, email |-> @.email]]

\* Who registers is turned away from an account that exists.
MeetUser(q, found) == IF request[q].register THEN Refused(q) ELSE Login(q, found)

LoginOrRegisterWithVerifiedIdentity(q) ==
  /\ request[q].step = "find"
  /\ IF ActiveUsersByPhone(request[q].phone) = {} THEN Goes(q, "create")
     ELSE \E found \in ActiveUsersByPhone(request[q].phone) : MeetUser(q, found)
  /\ UNCHANGED <<user, referrals, points, attempts>>

-----------------------------------------------------------------------------
\* The transaction reads who referred and a code that is free, whatever the
\* referrer's status is.
Prepare(q, own) ==
  LET referrers == {a \in Known : request[q].code # "none" /\ user[a].code = request[q].code}
  IN /\ request[q].step = "create" /\ own \notin {user[a].code : a \in Known}
     /\ IF request[q].code # "none" /\ referrers = {} THEN Refused(q)
        ELSE Take(q, [step |-> "insert", own |-> own, referrers |-> referrers,
                      phone |-> request[q].phone, form |-> request[q].form,
                      register |-> request[q].register, email |-> request[q].email])
     /\ UNCHANGED <<user, referrals, points, attempts>>

\* What the unique indexes refuse for the row of account a.
Clash(a, row) ==
  \E b \in Known \ {a} :
    \/ Present(b) /\ row.status # "DELETED"
       /\ \/ user[b].phone = row.phone /\ user[b].form = row.form
          \/ row.email # "none" /\ user[b].email = row.email
    \/ row.code # "none" /\ user[b].code = row.code

\* Both sides of a referral are rewarded.
ApplyReferralRewards(q, referrers) ==
  [a \in Accounts |-> points[a] + (IF a \in referrers \/ (a = q /\ referrers # {}) THEN 1 ELSE 0)]

\* User, wallet, referral and rewards are written together.
CreateUserWithWallet(q) ==
  LET own == Row(request[q].phone, request[q].form, request[q].email, request[q].own)
  IN /\ request[q].step = "insert" /\ ~Clash(q, own)
     /\ user' = [user EXCEPT ![q] = own]
     /\ referrals' = referrals \cup (request[q].referrers \X {q})
     /\ points' = ApplyReferralRewards(q, request[q].referrers)
     /\ request' = [request EXCEPT ![q] =
          [step |-> "login", account |-> q, copy |-> own, phone |-> @.phone,
           register |-> @.register, email |-> @.email]]
     /\ UNCHANGED attempts

\* Every index of the users counts as that of the phone: the request meets the
\* account that was created in between, if there is one.
IsUniquePhoneViolation(q) ==
  /\ request[q].step = "insert"
  /\ Clash(q, Row(request[q].phone, request[q].form, request[q].email, request[q].own))
  /\ IF ActiveUsersByPhone(request[q].phone) = {} THEN Refused(q)
     ELSE \E found \in ActiveUsersByPhone(request[q].phone) : MeetUser(q, found)
  /\ UNCHANGED <<user, referrals, points, attempts>>

\* The copy is saved with the email, if it has none.
LoggedIn(q) ==
  [request[q].copy EXCEPT !.email = IF @ = "none" THEN request[q].email ELSE @]

SaveLogin(q) ==
  /\ request[q].step = "login"
  /\ IF request[q].copy.status # "ACTIVE" \/ Clash(request[q].account, LoggedIn(q))
     THEN Refused(q) /\ UNCHANGED user
     ELSE Take(q, [step |-> "sign", account |-> request[q].account, phone |-> request[q].phone,
                   register |-> request[q].register]) /\ user' = [user EXCEPT ![request[q].account] = LoggedIn(q)]
  /\ UNCHANGED <<referrals, points, attempts>>

SignAccessToken(q) ==
  /\ request[q].step = "sign"
  /\ IF user[request[q].account].status = "ACTIVE" THEN Goes(q, "signed") ELSE Refused(q)
  /\ UNCHANGED <<user, referrals, points, attempts>>

-----------------------------------------------------------------------------
\* An account without a code gets one when its owner looks; a code that is
\* taken spoils the transaction for the other tries, so nothing happens.
EnsureUserReferralCode(a, code) ==
  /\ Known # {} /\ user[a].status # "NONE" /\ user[a].code = "none"
  /\ code \notin {user[b].code : b \in Known}
  /\ user' = [user EXCEPT ![a].code = code]
  /\ UNCHANGED <<referrals, points, request, attempts>>

\* An administrator's decision.
SetStatus(a, status) ==
  /\ user[a].status \notin {"NONE", status, "DELETED"}
  /\ user' = [user EXCEPT ![a].status = status]
  /\ UNCHANGED <<referrals, points, request, attempts>>

Next ==
  \/ \E q \in Requests, in \in Inputs :
       \/ \E phone \in Phones : VerifyMsg91AccessToken(q, phone, in)
       \/ VerifyPlayReviewCredentials(q, in)
  \/ SendMsg91Otp \/ ReviewWindowPasses
  \/ \E q \in Requests :
       \/ LoginOrRegisterWithVerifiedIdentity(q)
       \/ \E own \in InviteCodes : Prepare(q, own)
       \/ CreateUserWithWallet(q) \/ IsUniquePhoneViolation(q)
       \/ SaveLogin(q) \/ SignAccessToken(q)
  \/ \E a \in Accounts :
       \/ \E code \in InviteCodes : EnsureUserReferralCode(a, code)
       \/ \E status \in {"ACTIVE", "SUSPENDED", "DELETED"} : SetStatus(a, status)

Spec == Init /\ [][Next]_vars

-----------------------------------------------------------------------------
\* Someone is signed in to an account of the phone that was proven, and to a
\* new one if she registers.
SignsInTheCaller ==
  \A q \in Requests : request[q].step = "signed" =>
    /\ user[request[q].account].phone = request[q].phone
    /\ request[q].register => request[q].account = q

\* Rewards match referrals: both sides of each are rewarded once, however the
\* requests race, and nobody is referred twice or by herself.
RewardsMatchReferrals ==
  /\ \A a \in Accounts : points[a] = Cardinality({r \in referrals : a \in {r[1], r[2]}})
  /\ \A r, s \in referrals : r[1] # r[2] /\ (r[2] = s[2] => r = s)

\* Nobody has two accounts.  Two requests for one phone in different forms break
\* it, no run checks it (README, section 6).
OneAccountEach == \A phone \in Phones : Cardinality(ActiveUsersByPhone(phone)) <= 1

=============================================================================

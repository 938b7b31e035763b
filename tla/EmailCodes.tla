----------------------------- MODULE EmailCodes -----------------------------
(***************************************************************************)
(* One user's emails and the codes that prove them:                        *)
(* src/src/email-verification/, src/src/users/email-change.service.ts and  *)
(* src/src/corporate-identity/.                                            *)
(*                                                                         *)
(* A code is for a purpose and an email.  Limits are looked at first, the  *)
(* code is stored in a transaction that supersedes the earlier ones and    *)
(* then mailed.  Codes for a change of the email and for the corporate     *)
(* identity are stored under an advisory lock, those for the user's own    *)
(* email not: unique indexes on what can be entered refuse the second of   *)
(* two that are stored at once (database/migrations), its request stops.   *)
(* A verification locks the code, counts the attempt, and changes the user *)
(* or the corporate record in the same transaction.  A code that is        *)
(* entered is right or wrong; its hash, its wording and the policy on      *)
(* corporate domains are left out, and all that happens does so within the *)
(* hour that sends are limited by.                                         *)
(***************************************************************************)
EXTENDS Naturals, FiniteSets

CONSTANTS Processes, Emails,
          Own,         \* the user's email at first
          MaxAttempts, \* EMAIL_OTP_MAX_ATTEMPTS
          MaxSends,    \* EMAIL_OTP_MAX_SENDS_PER_HOUR
          MaxCodes     \* bound: codes stored

VARIABLES user,      \* email and emailVerified
          corporate, \* status, corporateEmail and pendingCorporateEmail
          code,      \* stored codes in the order of sentAt
          taken,     \* emails of other users
          work       \* process |-> what it does, for which email, and what it read

codeVars == <<user, corporate, code, taken, work>>

Change == "CHANGE_EMAIL"
Corporate == "CORPORATE_IDENTITY"
Personal == "EMAIL_VERIFICATION"

Ids == 1..MaxCodes
NoCode == [purpose |-> "none", email |-> "none", state |-> "none", attempts |-> 0, recent |-> FALSE]
NoRecord == [status |-> "NOT_VERIFIED", email |-> "none", pending |-> "none"]
Idle == [does |-> "nothing", email |-> "none", read |-> NoRecord, ids |-> {}]

Init ==
  /\ user = [email |-> Own, verified |-> FALSE]
  /\ corporate = NoRecord
  /\ code = [n \in Ids |-> NoCode]
  /\ taken = {}
  /\ work = [p \in Processes |-> Idle]

Stored == {n \in Ids : code[n].state # "none"}
Newest(ns) == CHOOSE n \in ns : \A m \in ns : m <= n
Active(purpose, email) ==
  {n \in Stored : code[n].purpose = purpose /\ code[n].email = email /\ code[n].state = "active"}

Begin(p, does, email) ==
  /\ work[p] = Idle
  /\ work' = [work EXCEPT ![p] = [does |-> does, email |-> email, read |-> corporate, ids |-> {}]]

-----------------------------------------------------------------------------
(* Sending.                                                                *)

\* Personal codes are limited per email, the others per purpose.
assertSendLimits(purpose, email) ==
  LET scope == {n \in Stored : /\ code[n].purpose = purpose
                               /\ purpose = Personal => code[n].email = email}
  IN Cardinality(scope) < MaxSends /\ (scope # {} => ~code[Newest(scope)].recent)

mayRequest(purpose, email) ==
  CASE purpose = Personal -> email = user.email /\ ~user.verified
    [] purpose = Change -> email # user.email /\ email \notin taken
    [] purpose = Corporate -> ~(/\ corporate.status = "VERIFIED" /\ corporate.email = email
                                /\ corporate.pending = "none")

RequestCode(p, purpose, email) ==
  /\ mayRequest(purpose, email) /\ assertSendLimits(purpose, email)
  /\ Begin(p, purpose, email)
  /\ UNCHANGED <<user, corporate, code, taken>>

Superseded(purpose, email) ==
  {n \in Stored : code[n].purpose = purpose /\ (purpose = Personal => code[n].email = email)}

Invalidated(ns) ==
  [n \in Ids |-> IF n \in ns /\ code[n].state = "active"
                 THEN [code[n] EXCEPT !.state = "invalid"] ELSE code[n]]

WithNew(codes, purpose, email) ==
  [codes EXCEPT ![Cardinality(Stored) + 1] =
     [purpose |-> purpose, email |-> email, state |-> "active", attempts |-> 0, recent |-> TRUE]]

sendOtpForPurpose(p) ==
  LET w == work[p] IN
  /\ w.does \in {Personal, Change, Corporate} /\ Cardinality(Stored) < MaxCodes
  /\ code' = WithNew(Invalidated(Superseded(w.does, w.email)), w.does, w.email)
  /\ work' = [work EXCEPT ![p] = [w EXCEPT !.does = IF @ = Corporate THEN "mailCorporate" ELSE "mail",
                                           !.ids = {Cardinality(Stored) + 1}]]
  /\ UNCHANGED <<user, corporate, taken>>

\* Once mailed, CorporateIdentityService.send saves the record it read at first.
Mailed(p) ==
  LET w == work[p] IN
  /\ \/ w.does = "mail" /\ UNCHANGED corporate
     \/ /\ w.does = "mailCorporate"
        /\ corporate' = [status |-> "OTP_PENDING", pending |-> w.email,
                         email |-> IF w.read.status = "VERIFIED" THEN w.read.email ELSE "none"]
  /\ work' = [work EXCEPT ![p] = Idle]
  /\ UNCHANGED <<user, code, taken>>

\* The mail was not sent: the request fails and its code is invalidated.
MailFails(p) ==
  /\ work[p].does \in {"mail", "mailCorporate"}
  /\ code' = Invalidated(work[p].ids)
  /\ work' = [work EXCEPT ![p] = Idle]
  /\ UNCHANGED <<user, corporate, taken>>

-----------------------------------------------------------------------------
(* Verifying.                                                              *)

\* Expired codes are invalidated when they are entered; attempts are counted
\* whether the code is right or not.
evaluateOtp(purpose, email, right) ==
  \E n \in Active(purpose, email) :
    /\ n = Newest(Active(purpose, email)) /\ code[n].attempts < MaxAttempts
    /\ code' = [code EXCEPT ![n].attempts = @ + 1,
                            ![n].state = IF right THEN "verified" ELSE @]

Wrong(purpose, email) ==
  /\ evaluateOtp(purpose, email, FALSE) /\ UNCHANGED <<user, corporate, taken, work>>

Expire(n) ==
  /\ code[n].state = "active" /\ code' = [code EXCEPT ![n].state = "invalid"]
  /\ UNCHANGED <<user, corporate, taken, work>>

\* The user's email is read before the transaction.
ReadEmail(p) ==
  /\ ~user.verified /\ Begin(p, "verify", user.email)
  /\ UNCHANGED <<user, corporate, code, taken>>

\* The email that was read is saved again, unless it is another user's by now:
\* the unique index on users.email fails the transaction then.
verifyCode(p) ==
  /\ work[p].does = "verify" /\ evaluateOtp(Personal, work[p].email, TRUE)
  /\ work[p].email \notin taken
  /\ user' = [email |-> work[p].email, verified |-> TRUE]
  /\ work' = [work EXCEPT ![p] = Idle]
  /\ UNCHANGED <<corporate, taken>>

verifyEmailChange(email) ==
  /\ evaluateOtp(Change, email, TRUE) /\ email \notin taken
  /\ user' = [email |-> email, verified |-> TRUE]
  /\ UNCHANGED <<corporate, taken, work>>

verifyCorporate(email) ==
  /\ evaluateOtp(Corporate, email, TRUE)
  /\ corporate' = [status |-> "VERIFIED", email |-> email, pending |-> "none"]
  /\ UNCHANGED <<user, taken, work>>

-----------------------------------------------------------------------------

\* Somebody else registers an email.
Register(email) ==
  /\ email # user.email /\ email \notin taken /\ taken' = taken \cup {email}
  /\ UNCHANGED <<user, corporate, code, work>>

Minute(n) ==
  /\ code[n].recent /\ code' = [code EXCEPT ![n].recent = FALSE]
  /\ UNCHANGED <<user, corporate, taken, work>>

Stop(p) ==
  /\ work[p] # Idle /\ work' = [work EXCEPT ![p] = Idle]
  /\ UNCHANGED <<user, corporate, code, taken>>

Next ==
  \/ \E p \in Processes, email \in Emails, purpose \in {Personal, Change, Corporate} :
       RequestCode(p, purpose, email)
  \/ \E p \in Processes :
       \/ sendOtpForPurpose(p) \/ Mailed(p) \/ MailFails(p)
       \/ ReadEmail(p) \/ verifyCode(p) \/ Stop(p)
  \/ \E email \in Emails :
       \/ verifyEmailChange(email) \/ verifyCorporate(email) \/ Register(email)
       \/ \E purpose \in {Personal, Change, Corporate} : Wrong(purpose, email)
  \/ \E n \in Ids : Expire(n) \/ Minute(n)

Spec == Init /\ [][Next]_codeVars

-----------------------------------------------------------------------------
(* Properties.                                                             *)

\* At most one code can be entered, of each purpose for any email and of the
\* user's own for each email, so that only the email named last can win; no code
\* is tried more often than allowed.
OneActiveCode ==
  /\ \A m, n \in Stored : /\ {code[m].state, code[n].state} = {"active"}
                          /\ code[m].purpose = code[n].purpose
                          /\ code[m].purpose = Personal => code[m].email = code[n].email
                          => m = n
  /\ \A n \in Stored : code[n].attempts <= MaxAttempts

\* Whatever is read too early: an email counts as verified, or as the corporate
\* one, only when a code for just that email and use was entered; and the user's
\* email is never one that another user took meanwhile.
EmailsAreProven ==
  LET proven(purposes, email) ==
        \E n \in Stored : /\ code[n].purpose \in purposes /\ code[n].email = email
                          /\ code[n].state = "verified"
  IN /\ user.verified => proven({Personal, Change}, user.email)
     /\ corporate.email # "none" => proven({Corporate}, corporate.email)
     /\ user.email \notin taken

\* The verified corporate email remains while a change is pending.  A second code
\* for a change breaks it, requested before the first is entered, and a request
\* that saves a record it read too early; no run checks it (README, section 6).
PreviousEmailKept ==
  [][corporate.email # "none" => corporate'.email # "none"]_codeVars

=============================================================================

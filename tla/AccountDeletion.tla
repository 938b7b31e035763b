--------------------------- MODULE AccountDeletion ---------------------------
(***************************************************************************)
(* The status of one account: src/src/users/account-deletion/, suspension  *)
(* in src/src/admin/admin-users.service.ts, login in                       *)
(* src/src/auth/auth.service.ts and the guard of authenticated requests.   *)
(*                                                                         *)
(* The handlers of a deletion lock its request and the user.  A login      *)
(* locks nothing: it reads the user, saves the copy back with the time of  *)
(* the login and reads the user once more to sign a token.  Work that was  *)
(* let in while the account was active commits whenever it is done.        *)
(* Left out: notes, audit rows, notices and admin alerts.                  *)
(***************************************************************************)
EXTENDS Naturals, Sequences, FiniteSets

CONSTANTS Devices,
          Duties,      \* the kinds of obligation an account may have
          MaxRequests, \* bound: deletion requests
          MaxVersion   \* bound: token versions

VARIABLES user,     \* status and token version
          requests, \* status of the deletion requests, oldest first
          open,     \* kinds of obligations that are not settled
          login,    \* device |-> how far its login is, with the copy of the user
          token,    \* device |-> version and scope of its token
          work      \* device |-> the obligation its request is about to create

accountVars == <<user, requests, open, login, token, work>>

ActiveRequest == {"PENDING", "UNDER_REVIEW", "ACTION_REQUIRED", "APPROVED"}
Pending == {"DELETION_REQUESTED", "DELETION_ACTION_REQUIRED", "DELETION_APPROVED"}
Idle == [at |-> "none", status |-> "none", version |-> 0]

Init ==
  /\ user = [status |-> "ACTIVE", version |-> 0]
  /\ requests = <<>> /\ open = {}
  /\ login = [d \in Devices |-> Idle]
  /\ token = [d \in Devices |-> [version |-> 0, restricted |-> FALSE]]
  /\ work = [d \in Devices |-> "none"]

\* save() after tokenVersion += 1.
UserBecomes(status) ==
  /\ user.version < MaxVersion
  /\ user' = [status |-> status, version |-> user.version + 1]

-----------------------------------------------------------------------------
(* Tokens and logins.                                                      *)

\* JwtStrategy.validate.
Accepted(d) ==
  token[d].version = user.version /\ user.status \notin {"SUSPENDED", "DELETED"}

\* JwtAuthGuard for endpoints that do not allow a pending deletion.
FullAccess(d) ==
  Accepted(d) /\ user.status \notin Pending /\ ~token[d].restricted

LoginReads(d) ==
  /\ login[d] = Idle /\ user.status # "DELETED"
  /\ login' = [login EXCEPT ![d] = [at |-> "read", status |-> user.status, version |-> user.version]]
  /\ UNCHANGED <<user, requests, open, token, work>>

\* All columns of the copy that differ from the row are written back.
LoginSaves(d) ==
  /\ login[d].at = "read"
  /\ IF login[d].status = "SUSPENDED"
     THEN login' = [login EXCEPT ![d] = Idle] /\ UNCHANGED user
     ELSE /\ login' = [login EXCEPT ![d].at = "saved"]
          /\ user' = [status |-> login[d].status, version |-> login[d].version]
  /\ UNCHANGED <<requests, open, token, work>>

signAccessToken(d) ==
  /\ login[d].at = "saved"
  /\ login' = [login EXCEPT ![d] = Idle]
  /\ IF user.status \in {"SUSPENDED", "DELETED"} THEN UNCHANGED token
     ELSE token' = [token EXCEPT ![d] = [version |-> user.version,
                                         restricted |-> login[d].status \in Pending]]
  /\ UNCHANGED <<user, requests, open, work>>

-----------------------------------------------------------------------------
(* Obligations.                                                            *)

\* assertPassengerCanBook and its like look at the user without a lock.
LetIn(d, duty) ==
  /\ FullAccess(d) /\ work[d] = "none"
  /\ work' = [work EXCEPT ![d] = duty]
  /\ UNCHANGED <<user, requests, open, login, token>>

CommitWork(d) ==
  /\ work[d] # "none"
  /\ open' = open \cup {work[d]} /\ work' = [work EXCEPT ![d] = "none"]
  /\ UNCHANGED <<user, requests, login, token>>

Settle(duty) ==
  /\ duty \in open /\ open' = open \ {duty}
  /\ UNCHANGED <<user, requests, login, token, work>>

\* checkEligibility.
RideDuties == open \cap {"ride", "series", "booking"}
MoneyDuties == open \cap {"points", "hold", "order", "withdrawal"}
CaseDuties == open \cap {"emergency", "incident", "ticket", "claim"}

Eligible == RideDuties = {} /\ MoneyDuties = {} /\ CaseDuties = {}

-----------------------------------------------------------------------------
(* The deletion.                                                           *)

ActiveRequests == {r \in DOMAIN requests : requests[r] \in ActiveRequest}

submitRequest(d) ==
  /\ FullAccess(d) /\ ActiveRequests = {} /\ Len(requests) < MaxRequests
  /\ requests' = Append(requests, "PENDING")
  /\ UserBecomes("DELETION_REQUESTED")
  /\ UNCHANGED <<open, login, token, work>>

\* The user is active again, whatever the status was before.
cancelRequest(d) ==
  /\ Accepted(d) /\ requests # <<>> /\ requests[Len(requests)] \in ActiveRequest
  /\ requests' = [requests EXCEPT ![Len(requests)] = "CANCELLED"]
  /\ UserBecomes("ACTIVE")
  /\ UNCHANGED <<open, login, token, work>>

\* What admins refuse to touch.
Undecided(r) == requests[r] \notin {"CANCELLED", "COMPLETED"}

\* The user is not told apart from one whose deletion is approved.
adminReview(r) ==
  /\ Undecided(r)
  /\ requests' = [requests EXCEPT ![r] = "UNDER_REVIEW"]
  /\ UNCHANGED <<user, open, login, token, work>>

adminRequestUserAction(r) ==
  /\ Undecided(r) /\ user.status # "DELETED"
  /\ requests' = [requests EXCEPT ![r] = "ACTION_REQUIRED"]
  /\ user' = [user EXCEPT !.status = "DELETION_ACTION_REQUIRED"]
  /\ UNCHANGED <<open, login, token, work>>

\* No lock keeps the obligations from changing after they were counted.
adminApprove(r) ==
  /\ Undecided(r) /\ requests[r] # "APPROVED" /\ user.status # "DELETED" /\ Eligible
  /\ requests' = [requests EXCEPT ![r] = "APPROVED"]
  /\ user' = [user EXCEPT !.status = "DELETION_APPROVED"]
  /\ UNCHANGED <<open, login, token, work>>

adminComplete(r) ==
  /\ requests[r] = "APPROVED" /\ user.status = "DELETION_APPROVED" /\ Eligible
  /\ requests' = [requests EXCEPT ![r] = "COMPLETED"]
  /\ UserBecomes("DELETED")
  /\ UNCHANGED <<open, login, token, work>>

\* Every other status may be suspended, and a suspended user becomes active.
suspend ==
  /\ user.status # "SUSPENDED" /\ UserBecomes("SUSPENDED")
  /\ UNCHANGED <<requests, open, login, token, work>>

unsuspend ==
  /\ user.status = "SUSPENDED" /\ UserBecomes("ACTIVE")
  /\ UNCHANGED <<requests, open, login, token, work>>

Next ==
  \/ \E d \in Devices :
       \/ LoginReads(d) \/ LoginSaves(d) \/ signAccessToken(d)
       \/ \E duty \in Duties : LetIn(d, duty)
       \/ CommitWork(d) \/ submitRequest(d) \/ cancelRequest(d)
  \/ \E duty \in Duties : Settle(duty)
  \/ \E r \in DOMAIN requests :
       adminReview(r) \/ adminRequestUserAction(r) \/ adminApprove(r) \/ adminComplete(r)
  \/ suspend \/ unsuspend

Spec == Init /\ [][Next]_accountVars

-----------------------------------------------------------------------------
(* Properties.                                                             *)

\* An account has at most one request that is not decided, whatever devices,
\* admins and late logins do to its status.
OneRequest == Cardinality(ActiveRequests) <= 1

\* A cancelled or completed request is never worked on again.
RequestsStayClosed ==
  [][\A r \in DOMAIN requests :
       requests[r] \in {"CANCELLED", "COMPLETED"} => requests'[r] = requests[r]]_accountVars

\* A deleted account is not restored.  A login under way and an administrator's
\* unsuspend break it, no run checks it (README, section 6).
DeletedForGood == [][user.status = "DELETED" => user'.status = "DELETED"]_accountVars

=============================================================================

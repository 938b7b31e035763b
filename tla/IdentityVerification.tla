------------------------ MODULE IdentityVerification ------------------------
(***************************************************************************)
(* One user's identity verification with DigiLocker and its reward:        *)
(* src/src/verification/.                                                  *)
(*                                                                         *)
(* Sessions are opened by the user and concluded by webhooks and by        *)
(* refreshes, which race.  Only the completion locks the session; every    *)
(* other step reads it, and saves the copy it has read once the provider   *)
(* has answered.  Signatures, names and documents are left out, a failed   *)
(* call of the provider is a process that gives up.                        *)
(***************************************************************************)
EXTENDS Naturals

CONSTANTS Processes,
          MaxSessions \* bound: sessions opened

VARIABLES session,   \* statuses of user_identity_verifications, oldest first
          fresh,     \* sessions whose URL has not expired
          provider,  \* the provider's status of each session
          sent,      \* webhook events sent: session and status
          processed, \* events with processed = true
          generic,   \* provider of the VERIFIED user_verifications row, or "none"
          credits,   \* rewards credited
          work       \* process |-> what it does, for which session, and the status it read

kycVars == <<session, fresh, provider, sent, processed, generic, credits, work>>

Sessions == 1..MaxSessions
Latest == CHOOSE n \in 0..MaxSessions :
            \A s \in Sessions : (session[s] # "none") = (s <= n)

Active == {"INITIATED", "PENDING", "AUTHENTICATED", "DOCUMENT_FETCHING"}
\* EXPIRED and CONSENT_DENIED are handled as FAILED is.
Failures == {"FAILED", "CONSENT_EXPIRED"}

Idle == [does |-> "nothing", s |-> 0, read |-> "none"]

Init ==
  /\ session = [s \in Sessions |-> "none"] /\ provider = [s \in Sessions |-> "none"]
  /\ fresh = {} /\ sent = {} /\ processed = {}
  /\ generic = "none" /\ credits = 0
  /\ work = [p \in Processes |-> Idle]

Begin(p, does, s) ==
  /\ work[p] = Idle
  /\ work' = [work EXCEPT ![p] =
       [does |-> does, s |-> s, read |-> IF s = 0 THEN "none" ELSE session[s]]]

Finish(p) == work' = [work EXCEPT ![p] = Idle]

-----------------------------------------------------------------------------
(* The provider.                                                           *)

Conclude(s) ==
  /\ \E to \in {"AUTHENTICATED"} \cup Failures :
       /\ provider[s] = (IF to = "CONSENT_EXPIRED" THEN "AUTHENTICATED" ELSE "PENDING")
       /\ provider' = [provider EXCEPT ![s] = to]
       /\ sent' = sent \cup {[s |-> s, status |-> to]}
  /\ UNCHANGED <<session, fresh, processed, generic, credits, work>>

-----------------------------------------------------------------------------
(* Completion.                                                             *)

\* Mutant: the reward's idempotency key is the session's, not the user's.
CreditedEachTime(s) == credits' = credits + (IF session[s] = "VERIFIED" THEN 0 ELSE 1)

\* Its idempotency key names the user.
creditReward(s) == credits' = 1

\* completeAadhaarVerification, for a session in whatever status it is by then.
Complete(s) ==
  /\ session' = [session EXCEPT ![s] = "VERIFIED"]
  /\ generic' = IF session[s] = "VERIFIED" THEN generic ELSE "CASHFREE"
  /\ creditReward(s)

SaveCopy(s, status) ==
  /\ session' = [session EXCEPT ![s] = status] /\ UNCHANGED <<generic, credits>>

-----------------------------------------------------------------------------
(* Requests of the user.                                                   *)

isUserIdentityVerified == generic # "none" \/ \E s \in Sessions : session[s] = "VERIFIED"

\* An open session is handed out again as long as its URL is valid.
startVerification(p) ==
  /\ ~isUserIdentityVerified
  /\ LET active == {s \in Sessions : session[s] \in Active}
     IN ~\E s \in active : (\A t \in active : t <= s) /\ s \in fresh
  /\ Begin(p, "start", 0)
  /\ UNCHANGED <<session, fresh, provider, sent, processed, generic, credits>>

SaveSession(p) ==
  /\ work[p].does = "start" /\ Latest < MaxSessions
  /\ LET s == Latest + 1
     IN /\ session' = [session EXCEPT ![s] = "PENDING"]
        /\ provider' = [provider EXCEPT ![s] = "PENDING"]
        /\ fresh' = fresh \cup {s}
  /\ Finish(p)
  /\ UNCHANGED <<sent, processed, generic, credits>>

UrlExpires(s) ==
  /\ s \in fresh /\ fresh' = fresh \ {s}
  /\ UNCHANGED <<session, provider, sent, processed, generic, credits, work>>

refreshVerification(p) ==
  /\ Latest > 0 /\ session[Latest] \in Active \cup {"VERIFIED"}
  /\ IF session[Latest] = "VERIFIED"
     THEN creditReward(Latest) /\ UNCHANGED work
     ELSE Begin(p, "refresh", Latest) /\ UNCHANGED credits
  /\ UNCHANGED <<session, fresh, provider, sent, processed, generic>>

RefreshAnswered(p) ==
  LET s == work[p].s IN
  /\ work[p].does = "refresh" /\ Finish(p)
  /\ CASE provider[s] = "AUTHENTICATED" -> Complete(s)
       [] provider[s] = "FAILED" -> SaveCopy(s, "FAILED")
       [] OTHER -> SaveCopy(s, work[p].read)
  /\ UNCHANGED <<fresh, provider, sent, processed>>

\* The browser comes back: the reference is stored in a session that has none.
handleRedirectCallback(p, s) ==
  /\ session[s] # "none" /\ Begin(p, "redirect", s)
  /\ UNCHANGED <<session, fresh, provider, sent, processed, generic, credits>>

SaveReference(p) ==
  /\ work[p].does = "redirect" /\ SaveCopy(work[p].s, work[p].read) /\ Finish(p)
  /\ UNCHANGED <<fresh, provider, sent, processed>>

\* The stub provider verifies at once, and without a reward.
submitIdentityVerification ==
  /\ generic = "none" /\ generic' = "stub"
  /\ UNCHANGED <<session, fresh, provider, sent, processed, credits, work>>

-----------------------------------------------------------------------------
(* Webhooks: an event is delivered until it is processed.                  *)

processWebhook(p, e) ==
  /\ e \notin processed /\ Begin(p, e.status, e.s)
  /\ UNCHANGED <<session, fresh, provider, sent, processed, generic, credits>>

\* A session that was VERIFIED when it was read is left alone.
handleWebhookEvent(p) ==
  LET s == work[p].s   status == work[p].does IN
  /\ status \in {"AUTHENTICATED"} \cup Failures
  /\ CASE work[p].read = "VERIFIED" -> UNCHANGED <<session, generic, credits>>
       [] work[p].read # "VERIFIED" /\ status = "AUTHENTICATED" -> Complete(s)
       [] OTHER -> SaveCopy(s, status)
  /\ processed' = processed \cup {[s |-> s, status |-> status]}
  /\ Finish(p)
  /\ UNCHANGED <<fresh, provider, sent>>

\* A call of the provider fails, or the process stops.
GiveUp(p) ==
  /\ work[p] # Idle /\ Finish(p)
  /\ UNCHANGED <<session, fresh, provider, sent, processed, generic, credits>>

Next ==
  \/ \E s \in Sessions : Conclude(s) \/ UrlExpires(s)
  \/ submitIdentityVerification
  \/ \E p \in Processes :
       \/ startVerification(p) \/ SaveSession(p)
       \/ refreshVerification(p) \/ RefreshAnswered(p)
       \/ \E s \in Sessions : handleRedirectCallback(p, s)
       \/ SaveReference(p)
       \/ \E e \in sent : processWebhook(p, e)
       \/ handleWebhookEvent(p)
       \/ GiveUp(p)

Spec == Init /\ [][Next]_kycVars

-----------------------------------------------------------------------------
(* Properties.                                                             *)

\* The provider has authenticated the user in this session, whatever came after.
Authenticated(s) == provider[s] \in {"AUTHENTICATED", "CONSENT_EXPIRED"}

\* Whatever stale copies do to the sessions: the reward is credited once, exactly
\* to a user who counts as verified, and only if the provider has authenticated
\* the user in some session.
RewardedOnce ==
  /\ credits = (IF generic = "CASHFREE" \/ \E s \in Sessions : session[s] = "VERIFIED" THEN 1 ELSE 0)
  /\ credits > 0 => \E s \in Sessions : Authenticated(s)

\* An event of success that counts as processed has verified the user, and a
\* verified user stays verified whatever events follow.
SuccessCounts ==
  /\ \A e \in processed : e.status = "AUTHENTICATED" => generic = "CASHFREE"
  /\ (\E s \in Sessions : session[s] = "VERIFIED") => generic # "none"

=============================================================================

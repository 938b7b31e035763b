------------------------------ MODULE Vehicles ------------------------------
(***************************************************************************)
(* The vehicles of one user and the verification of their registration     *)
(* certificates (RC): src/src/vehicles/, and canPublishRide of             *)
(* src/src/verification/verification.service.ts.                           *)
(*                                                                         *)
(* A verification locks the vehicle while it opens an attempt, asks the    *)
(* provider without a lock, and then saves its outcome together with the   *)
(* vehicle as it was read.  Updates save the vehicle they have read too;   *)
(* all columns that differ from the row are written.  Left out: texts,     *)
(* aliases of makes and colours, how dates are parsed, the match of the    *)
(* owner's name, which decides nothing, and the identity of the user.      *)
(***************************************************************************)
EXTENDS Naturals, FiniteSets

CONSTANTS Processes,
          Ids,        \* vehicles
          Numbers,    \* registration numbers
          MaxAttempts \* bound: attempts of verification

VARIABLES vehicle, \* id |-> stored, active and number
          attempt, \* sequence number |-> vehicle, requested number, status, recent
          general, \* status of the user's current VEHICLE verification
          work     \* process |-> what it does, for which vehicle, and what it read

vehicleVars == <<vehicle, attempt, general, work>>

Attempts == 1..MaxAttempts
NoVehicle == [stored |-> "no", active |-> FALSE, number |-> "none"]
NoAttempt == [of |-> "none", number |-> "none", status |-> "NONE", recent |-> FALSE]
Idle == [does |-> "nothing", v |-> "none", n |-> 0, copy |-> NoVehicle, actives |-> {}]

Init ==
  /\ vehicle = [v \in Ids |-> NoVehicle]
  /\ attempt = [n \in Attempts |-> NoAttempt]
  /\ general = "NONE"
  /\ work = [p \in Processes |-> Idle]

Kept == {v \in Ids : vehicle[v].stored = "yes"}
Actives == {v \in Kept : vehicle[v].active}

Begin(p, w) == work[p] = Idle /\ work' = [work EXCEPT ![p] = w]
Finish(p) == work' = [work EXCEPT ![p] = Idle]

\* A number is unique among the vehicles that are not deleted.
Unique(v, row) ==
  row.stored = "yes" => \A u \in Kept \ {v} : vehicle[u].number # row.number

Save(v, row) == Unique(v, row) /\ vehicle' = [vehicle EXCEPT ![v] = row]

-----------------------------------------------------------------------------
(* Vehicles.                                                               *)

\* The first vehicle is active: others are counted, then the row is written.
CountVehicles(p, v) ==
  /\ vehicle[v].stored = "no"
  /\ Begin(p, [Idle EXCEPT !.does = "create", !.v = v, !.actives = Kept])
  /\ UNCHANGED <<vehicle, attempt, general>>

create(p, number) ==
  LET w == work[p] IN
  /\ w.does = "create" /\ vehicle[w.v].stored = "no"
  /\ Save(w.v, [stored |-> "yes", active |-> w.actives = {}, number |-> number])
  /\ Finish(p) /\ UNCHANGED <<attempt, general>>

requireOwnedVehicle(p, v) ==
  /\ v \in Kept /\ Begin(p, [Idle EXCEPT !.does = "update", !.v = v, !.copy = vehicle[v]])
  /\ UNCHANGED <<vehicle, attempt, general>>

\* A number that changed calls for a new verification, in a later transaction.
update(p, number) ==
  LET w == work[p] IN
  /\ w.does = "update"
  /\ Save(w.v, [w.copy EXCEPT !.number = number])
  /\ work' = [work EXCEPT ![p] =
       IF number = w.copy.number THEN Idle ELSE [Idle EXCEPT !.does = "invalidate"]]
  /\ UNCHANGED <<attempt, general>>

invalidateCurrentVerification(p) ==
  /\ work[p].does = "invalidate" /\ Finish(p)
  /\ general' = (IF general = "VERIFIED" THEN "REJECTED" ELSE general)
  /\ UNCHANGED <<vehicle, attempt>>

remove(v) ==
  /\ v \in Kept
  /\ vehicle' = [vehicle EXCEPT ![v].stored = "deleted", ![v].active = FALSE]
  /\ UNCHANGED <<attempt, general, work>>

\* The statement that deactivates the others acts on the rows it saw active.
SelectActives(p, v) ==
  /\ v \in Kept
  /\ Begin(p, [Idle EXCEPT !.does = "activate", !.v = v, !.copy = vehicle[v], !.actives = Actives])
  /\ UNCHANGED <<vehicle, attempt, general>>

setActiveVehicle(p) ==
  LET w == work[p] IN
  /\ w.does = "activate" /\ Unique(w.v, w.copy)
  /\ vehicle' = [v \in Ids |-> IF v = w.v THEN [w.copy EXCEPT !.active = TRUE]
                               ELSE IF v \in w.actives THEN [vehicle[v] EXCEPT !.active = FALSE]
                               ELSE vehicle[v]]
  /\ Finish(p) /\ UNCHANGED <<attempt, general>>

-----------------------------------------------------------------------------
(* What the provider reports: one check for each field.                    *)

Matched == [valid |-> TRUE, number |-> "MATCHED", make |-> "MATCHED", model |-> "MATCHED",
            colour |-> "MATCHED", type |-> "MATCHED", insurance |-> "MATCHED", status |-> "MATCHED"]
Fields == DOMAIN Matched \ {"valid"}
\* Reports that differ from a match in one field or in the make and one more.
Reports ==
  {[Matched EXCEPT !.make = m, ![f] = c] :
     m \in {"MATCHED", "NOT_AVAILABLE"}, f \in Fields, c \in {"MATCHED", "MISMATCHED", "NOT_AVAILABLE"}}
  \cup {[Matched EXCEPT !.valid = FALSE]}

combineNameCheck(r) ==
  IF "MISMATCHED" \in {r.make, r.model} THEN "MISMATCHED"
  ELSE IF {r.make, r.model} = {"NOT_AVAILABLE"} THEN "NOT_AVAILABLE" ELSE "MATCHED"

identityPassed(r) ==
  /\ r.number = "MATCHED" /\ combineNameCheck(r) = "MATCHED"
  /\ r.colour # "MISMATCHED" /\ r.type # "MISMATCHED"

compliancePassed(r) == r.status # "MISMATCHED" /\ r.insurance = "MATCHED"

evaluateVehicleRcChecks(r) == r.valid /\ identityPassed(r) /\ compliancePassed(r)

-----------------------------------------------------------------------------
(* Verification of an RC.                                                  *)

Used == {n \in Attempts : attempt[n].status # "NONE"}
Of(v) == {n \in Used : attempt[n].of = v}

Newest(ns) == CHOOSE n \in ns : \A m \in ns : m <= n

inFlight(v) ==
  LET pending == {n \in Of(v) : attempt[n].status = "PENDING"}
  IN pending # {} /\ attempt[Newest(pending)].recent

beginVerificationAttempt(p, v) ==
  /\ v \in Kept /\ ~inFlight(v)
  /\ \A n \in Of(v) : ~(attempt[n].status = "VALID" /\ attempt[n].number = vehicle[v].number)
  /\ \E n \in Attempts \ Used :
       /\ \A m \in Attempts \ Used : n <= m
       /\ attempt' = [attempt EXCEPT ![n] =
            [of |-> v, number |-> vehicle[v].number, status |-> "PENDING", recent |-> TRUE]]
       /\ Begin(p, [Idle EXCEPT !.does = "verify", !.v = v, !.n = n, !.copy = vehicle[v]])
  /\ UNCHANGED <<vehicle, general>>

\* The attempt alone is updated, by its id.
persistCompletedAttempt(n, status) == attempt' = [attempt EXCEPT ![n].status = status]

\* The provider has answered: the outcome, and the vehicle as it was.
verifyRc(p, report) ==
  LET w == work[p] IN
  /\ w.does = "verify" /\ Finish(p)
  /\ IF evaluateVehicleRcChecks(report)
     THEN Save(w.v, w.copy) /\ persistCompletedAttempt(w.n, "VALID")
     ELSE persistCompletedAttempt(w.n, "INVALID") /\ UNCHANGED vehicle
  /\ UNCHANGED general

markAttemptFailed(p) ==
  /\ work[p].does = "verify" /\ Finish(p)
  /\ attempt' = [attempt EXCEPT ![work[p].n].status = "FAILED"]
  /\ UNCHANGED <<vehicle, general>>

\* Two minutes have passed since an attempt began.
TimePasses(n) ==
  /\ attempt[n].recent /\ attempt' = [attempt EXCEPT ![n].recent = FALSE]
  /\ UNCHANGED <<vehicle, general, work>>

\* The stub provider verifies at once.
submitVehicleVerification ==
  /\ general \in {"NONE", "REJECTED"} /\ general' = "VERIFIED"
  /\ UNCHANGED <<vehicle, attempt, work>>

\* The process stops, or its last write violates the unique index.
Stop(p) ==
  /\ work[p] # Idle /\ Finish(p) /\ UNCHANGED <<vehicle, attempt, general>>

\* The newest attempt decides, whatever number it was for.
canPublishRide(v) ==
  /\ v \in Actives
  /\ IF Of(v) = {} THEN general = "VERIFIED" ELSE attempt[Newest(Of(v))].status = "VALID"

Next ==
  \/ \E p \in Processes :
       \/ \E v \in Ids : CountVehicles(p, v) \/ requireOwnedVehicle(p, v) \/ SelectActives(p, v)
                         \/ beginVerificationAttempt(p, v)
       \/ \E number \in Numbers : create(p, number) \/ update(p, number)
       \/ invalidateCurrentVerification(p) \/ setActiveVehicle(p)
       \/ \E report \in Reports : verifyRc(p, report)
       \/ markAttemptFailed(p) \/ Stop(p)
  \/ \E v \in Ids : remove(v)
  \/ \E n \in Attempts : TimePasses(n)
  \/ submitVehicleVerification

Spec == Init /\ [][Next]_vehicleVars

-----------------------------------------------------------------------------
(* Properties.                                                             *)

\* The provider is not asked about a vehicle while an attempt of less than two
\* minutes ago may still be answered, whoever asks and whatever changes.
OneAttempt ==
  \A v \in Ids : Cardinality({n \in Of(v) : attempt[n].status = "PENDING" /\ attempt[n].recent}) <= 1

\* A ride can only be published with a vehicle whose present registration
\* number has been verified; attempts and the general verification both count.
\* A verification that saves its copy after a correction breaks it, no run checks
\* it (README, section 6).
PublishesWhatIsVerified ==
  \A v \in Ids : canPublishRide(v) /\ Of(v) # {} =>
    \E n \in Of(v) : attempt[n].status = "VALID" /\ attempt[n].number = vehicle[v].number

=============================================================================

---------------------------- MODULE SosIncidents ----------------------------
(***************************************************************************)
(* Emergencies on one ride: src/src/safety/sos/sos.service.ts and          *)
(* admin-sos.service.ts.                                                   *)
(*                                                                         *)
(* A participant's call opens an SOS with its incident or is attached to   *)
(* the active one, in a transaction that locks the ride.  Admins move the  *)
(* SOS under its row lock, but an incident by reading it, deciding and     *)
(* saving the copy, so that of two admins the last one to save wins.       *)
(* Left out: locations, notes, the timeline (written with each change),    *)
(* sockets and alerts after the commit, and attachAfterRace, which the     *)
(* ride's lock leaves nothing to.                                          *)
(***************************************************************************)
EXTENDS Naturals, Sequences, FiniteSets

CONSTANTS Riders,   \* driver and passengers
          SosKey,   \* the key each of them sends, "none" for no key
          Officers, \* admins of the safety desk
          MaxSos    \* bound: emergencies of the ride

VARIABLES trip,      \* the ride is in progress
          aboard,    \* its driver and confirmed passengers
          sos,       \* status of each sos_events row, oldest first
          calls,     \* sos_triggers
          incidents, \* the safety incident of each SOS
          desk       \* admin |-> the incident as the admin read it

sosVars == <<trip, aboard, sos, calls, incidents, desk>>

Active == {"TRIGGERED", "ACKNOWLEDGED", "RESPONDING"}
ActiveSos == {s \in DOMAIN sos : sos[s] \in Active}
NotReading == [sos |-> 0, status |-> "none", assigned |-> "none"]

Init ==
  /\ trip = TRUE /\ aboard = Riders
  /\ sos = <<>> /\ calls = {} /\ incidents = <<>>
  /\ desk = [a \in Officers |-> NotReading]

-----------------------------------------------------------------------------
(* Calls.                                                                  *)

CallBy(u, s, key, original) == [user |-> u, sos |-> s, key |-> key, original |-> original]

\* A key answers with the call it was used for, an unkeyed call with the one before.
Replayed(u, key) ==
  \/ key # "none" /\ \E c \in calls : c.key = key
  \/ key = "none" /\ \E c \in calls : c.user = u /\ c.sos \in ActiveSos

\* What a call is attached to.
Attachable == ActiveSos

Open(u, key) ==
  /\ Attachable = {} /\ Len(sos) < MaxSos
  /\ sos' = Append(sos, "TRIGGERED")
  /\ calls' = calls \cup {CallBy(u, Len(sos) + 1, key, TRUE)}
  /\ incidents' = Append(incidents, [status |-> "OPEN", assigned |-> "none"])

Attach(u, key) ==
  /\ \E s \in Attachable : calls' = calls \cup {CallBy(u, s, key, FALSE)}
  /\ UNCHANGED <<sos, incidents>>

trigger(u, key) ==
  /\ trip /\ u \in aboard /\ ~Replayed(u, key)
  /\ Open(u, key) \/ Attach(u, key)
  /\ UNCHANGED <<trip, aboard, desk>>

\* Bookings and the ride end without regard to an SOS.
LeaveRide(u) ==
  /\ u \in aboard /\ aboard' = aboard \ {u}
  /\ UNCHANGED <<trip, sos, calls, incidents, desk>>

EndRide ==
  /\ trip /\ trip' = FALSE
  /\ UNCHANGED <<aboard, sos, calls, incidents, desk>>

-----------------------------------------------------------------------------
(* Admins.                                                                 *)

\* Mutant: a responder may still start on what was ended.
AllowedLoosely(status) ==
  IF status = "TRIGGERED" THEN {"ACKNOWLEDGED", "RESOLVED", "FALSE_ALARM"}
  ELSE {"RESPONDING", "RESOLVED", "FALSE_ALARM"}

\* assertTransition.
Allowed(status) ==
  CASE status = "TRIGGERED" -> {"ACKNOWLEDGED", "RESOLVED", "FALSE_ALARM"}
    [] status = "ACKNOWLEDGED" -> {"RESPONDING", "RESOLVED", "FALSE_ALARM"}
    [] status = "RESPONDING" -> {"RESOLVED", "FALSE_ALARM"}
    [] OTHER -> {}

\* The incident follows an acknowledgement and a false alarm, not a resolution.
Followed(i, next) ==
  CASE next = "ACKNOWLEDGED" /\ i.status = "OPEN" -> [i EXCEPT !.status = "ACKNOWLEDGED"]
    [] next = "FALSE_ALARM" -> [i EXCEPT !.status = "RESOLVED"]
    [] OTHER -> i

transition(s, next) ==
  /\ next \in Allowed(sos[s])
  /\ sos' = [sos EXCEPT ![s] = next]
  /\ incidents' = [incidents EXCEPT ![s] = Followed(@, next)]
  /\ UNCHANGED <<trip, aboard, calls, desk>>

FindIncident(a, s) ==
  /\ desk[a] = NotReading
  /\ desk' = [desk EXCEPT ![a] = [sos |-> s, status |-> incidents[s].status,
                                  assigned |-> incidents[s].assigned]]
  /\ UNCHANGED <<trip, aboard, sos, calls, incidents>>

\* All columns of the copy are written back.
SaveIncident(a, status, assigned) ==
  /\ incidents' = [incidents EXCEPT ![desk[a].sos] = [status |-> status, assigned |-> assigned]]
  /\ desk' = [desk EXCEPT ![a] = NotReading]
  /\ UNCHANGED <<trip, aboard, sos, calls>>

acknowledgeIncident(a) ==
  desk[a].status = "OPEN" /\ SaveIncident(a, "ACKNOWLEDGED", desk[a].assigned)

assignIncidentToMe(a) ==
  /\ desk[a] # NotReading /\ desk[a].assigned # a
  /\ SaveIncident(a, IF desk[a].status \in {"OPEN", "ACKNOWLEDGED"} THEN "ASSIGNED"
                     ELSE desk[a].status, a)

\* A resolved incident may be escalated again, an escalated one resolved.
escalateIncident(a) ==
  desk[a].status \notin {"none", "ESCALATED"} /\ SaveIncident(a, "ESCALATED", desk[a].assigned)

resolveIncident(a) ==
  desk[a].status \notin {"none", "RESOLVED"} /\ SaveIncident(a, "RESOLVED", desk[a].assigned)

Handle(a) ==
  acknowledgeIncident(a) \/ assignIncidentToMe(a) \/ escalateIncident(a) \/ resolveIncident(a)

Next ==
  \/ \E u \in Riders : LeaveRide(u) \/ trigger(u, SosKey[u])
  \/ EndRide
  \/ \E s \in DOMAIN sos :
       \/ \E next \in {"ACKNOWLEDGED", "RESPONDING", "RESOLVED", "FALSE_ALARM"} : transition(s, next)
       \/ \E a \in Officers : FindIncident(a, s)
  \/ \E a \in Officers : Handle(a)

Spec == Init /\ [][Next]_sosVars

-----------------------------------------------------------------------------
(* Properties.                                                             *)

\* However calls, retries, admins and the end of the ride interleave: one
\* emergency of the ride is active at a time, each was opened by one call, and
\* a key stands for one call.
OneEmergency ==
  /\ Cardinality(ActiveSos) <= 1
  /\ \A s \in DOMAIN sos : Cardinality({c \in calls : c.sos = s /\ c.original}) = 1
  /\ \A c, d \in calls : c.key = d.key /\ c.key # "none" => c = d

\* An emergency that ended does not come back, and an incident somebody took up
\* is not untouched again, although admins save stale copies of it.
EmergenciesStayEnded ==
  [][/\ \A s \in DOMAIN sos : sos[s] \notin Active => sos'[s] = sos[s]
     /\ \A s \in DOMAIN incidents : incidents[s].status # "OPEN" => incidents'[s].status # "OPEN"]_sosVars

=============================================================================

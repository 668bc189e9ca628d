------------------------------ MODULE Incidents ------------------------------
(***************************************************************************)
(* The incident tracker: the analytics_incidents table, the goroutines     *)
(* that synchronise it with the alerts that are firing, and the two        *)
(* requests an administrator can make (dismiss, delete).                   *)
(*   src/internal/services/analytics_incidents.go                          *)
(* Two goroutines synchronise: the analytics background loop (every 15     *)
(* minutes) and the nginx log ingester (at most every 5 minutes).  Each    *)
(* computes its alerts BEFORE it takes analyticsIncidentSyncMu, so it may  *)
(* apply alerts that are out of date; the administrator's requests never   *)
(* take the mutex.  Every SQL statement is one atomic step; the process    *)
(* may die between any two, and any statement may fail.  Mails are sent    *)
(* under the mutex over connections that have no deadline: a mail server   *)
(* that takes the connection and does not answer stops every later         *)
(* synchronisation, until it answers or closes.                            *)
(*                                                                         *)
(* The text of an incident and its times are left out.  last_seen matters  *)
(* only as the second key of the ORDER BY under the LIMIT; the rows the    *)
(* LIMIT keeps among equals are therefore left open.                       *)
(***************************************************************************)
EXTENDS Naturals, FiniteSets

CONSTANTS
  Fingerprints,  \* the alert ids (error-rate, latency, request-spike, ...)
  Syncers,       \* the goroutines that call SyncIncidents
  Background,    \* the one of them that is a timer loop
  None,          \* no goroutine
  MaxId,         \* bound: the AUTO_INCREMENT ids this model can hand out
  RowLimit,      \* the LIMIT of the Incidents query (100 in the code)
  NotifyOn,      \* the statuses whose notification setting is on
  MaxMoves       \* bound: alert changes, deletions and faults of a behaviour

ASSUME IncidentsAssumption ==
  /\ Background \in Syncers
  /\ None \notin Syncers
  /\ MaxId \in Nat /\ RowLimit \in Nat /\ MaxMoves \in Nat
  /\ NotifyOn \subseteq {"open", "resolved"}
  /\ IsFiniteSet(Fingerprints)
  /\ Cardinality(Fingerprints) <= RowLimit

VARIABLES
  rows,      \* the table: id -> [fp, status, notified]
  nextId,    \* its AUTO_INCREMENT counter
  firing,    \* the fingerprints whose alert condition holds now
  silent,    \* the mail server takes connections and does not answer
  mutex,     \* the holder of analyticsIncidentSyncMu, or None
  pc,        \* where each syncer is
  alerts,    \* the alerts it computed and has not applied yet
  existing,  \* what it read of the table when it took the mutex
  touched,   \* touchedIDs: the incidents it inserted, updated or resolved;
             \* after the last read, those of them it still has to announce
  updated,   \* what it read of the table after writing
  mailing,   \* the incident whose mail it has just sent
  mails,     \* history: mails accepted, by incident and status
  lost,      \* history: opening mails whose last_notified_at stamp was lost
  moves      \* alert changes, deletions and faults so far

tableVars == <<rows, nextId>>
localVars == <<alerts, existing, touched, updated, mailing>>
mailVars  == <<mails, lost>>
vars == <<tableVars, firing, silent, mutex, pc, localVars, mailVars, moves>>

-----------------------------------------------------------------------------
Ids      == 1 .. MaxId
Active   == {"open", "dismissed"}
Statuses == Active \cup {"resolved"}

\* An id of the table that holds no row; alerts carry a fingerprint, so the
\* fingerprint of an absent row is immaterial and kept as None.
Absent == [fp |-> None, status |-> "none", notified |-> FALSE]
Row    == [fp : Fingerprints, status : Statuses, notified : BOOLEAN]
            \cup {Absent}
NoRows == [i \in Ids |-> Absent]

\* UPDATE ... SET status = ? WHERE id = ?: nothing when there is no such row.
WithStatus(r, s) == IF r.status = "none" THEN r ELSE [r EXCEPT !.status = s]
WithStamp(r) == IF r.status = "none" THEN r ELSE [r EXCEPT !.notified = TRUE]

IsActive(r)      == r.status \in Active
Present(table)   == {i \in Ids : table[i].status # "none"}
ActiveIds(table) == {i \in Ids : IsActive(table[i])}
Tracked(f)       == \E i \in Ids : IsActive(rows[i]) /\ rows[i].fp = f

\* Variation: a query that sorts by last_seen alone.
RankByAgeOnly(r) == IF r.status = "none" THEN 3 ELSE 0

\* The ORDER BY of the Incidents query: open, dismissed, then the rest.
Rank(r) == CASE r.status = "open" -> 0
             [] r.status = "dismissed" -> 1
             [] OTHER -> 2

\* The sets of rows the query may return: as many as the LIMIT allows, and
\* none of a higher rank while one of a lower rank is left out.
Readable(table) ==
  {S \in SUBSET Present(table) :
     /\ \/ S = Present(table) /\ Cardinality(S) <= RowLimit
        \/ Cardinality(S) = RowLimit
     /\ \A i \in S, j \in Present(table) \ S : Rank(table[i]) <= Rank(table[j])}

Read(table, S) == [i \in Ids |-> IF i \in S THEN table[i] ELSE Absent]

\* Variation: a notification rule that does not look at last_notified_at.
NeedsNotificationUnstamped(before, now) ==
  /\ now.status \in NotifyOn
  /\ now.status = "open" \/ before.status \notin {"none", now.status}

\* analyticsIncidentNeedsNotification
NeedsNotification(before, now) ==
  /\ now.status \in NotifyOn
  /\ \/ before.status = "none" /\ now.status = "open"
     \/ before.status # "none" /\ before.status # now.status
     \/ before.status # "none" /\ now.status = "open" /\ ~before.notified

Count(f, x) == [f EXCEPT ![x] = @ + 1]

Init ==
  /\ rows = NoRows /\ nextId = 1
  /\ firing = {} /\ silent = FALSE
  /\ mutex = None
  /\ pc = [p \in Syncers |-> "idle"]
  /\ alerts = [p \in Syncers |-> {}]
  /\ existing = [p \in Syncers |-> NoRows]
  /\ touched = [p \in Syncers |-> {}]
  /\ updated = [p \in Syncers |-> NoRows]
  /\ mailing = [p \in Syncers |-> 0]
  /\ mails = [i \in Ids |-> [s \in {"open", "resolved"} |-> 0]]
  /\ lost = [i \in Ids |-> 0]
  /\ moves = 0

-----------------------------------------------------------------------------
(* A synchronisation *)

Goto(p, label) == pc' = [pc EXCEPT ![p] = label]

\* The locals of a syncer disappear when its call returns.
Forget(p) ==
  /\ alerts' = [alerts EXCEPT ![p] = {}]
  /\ existing' = [existing EXCEPT ![p] = NoRows]
  /\ touched' = [touched EXCEPT ![p] = {}]
  /\ updated' = [updated EXCEPT ![p] = NoRows]
  /\ mailing' = [mailing EXCEPT ![p] = 0]

\* SyncIncidents: buildAlerts runs before syncIncidents takes the mutex.
Build(p) ==
  /\ pc[p] = "idle"
  /\ alerts' = [alerts EXCEPT ![p] = firing]
  /\ Goto(p, "built")
  /\ UNCHANGED <<tableVars, firing, silent, mutex, existing, touched, updated,
                 mailing, mailVars, moves>>

\* Variation: a synchronisation that takes no mutex.
ReadWithoutLock(p) ==
  /\ pc[p] = "built"
  /\ mutex' = p
  /\ \E S \in Readable(rows) :
       existing' = [existing EXCEPT ![p] = Read(rows, S)]
  /\ Goto(p, "apply")
  /\ UNCHANGED <<tableVars, firing, silent, alerts, touched, updated,
                 mailing, mailVars, moves>>

\* syncIncidents: take the mutex and read the table.
LockAndRead(p) ==
  /\ pc[p] = "built" /\ mutex = None
  /\ mutex' = p
  /\ \E S \in Readable(rows) :
       existing' = [existing EXCEPT ![p] = Read(rows, S)]
  /\ Goto(p, "apply")
  /\ UNCHANGED <<tableVars, firing, silent, alerts, touched, updated,
                 mailing, mailVars, moves>>

\* Variation: a lookup that takes any incident of the fingerprint, resolved too.
AnyCandidates(p, f) ==
  {i \in Present(existing[p]) : existing[p][i].fp = f}

\* The row activeByFingerprint holds for f, if any.
Candidates(p, f) ==
  {i \in Ids : IsActive(existing[p][i]) /\ existing[p][i].fp = f}

\* An alert nobody tracks: INSERT an open incident.
InsertIncident(p, f) ==
  /\ pc[p] = "apply" /\ f \in alerts[p]
  /\ Candidates(p, f) = {}
  /\ nextId \in Ids
  /\ rows' = [rows EXCEPT ![nextId] =
                [fp |-> f, status |-> "open", notified |-> FALSE]]
  /\ nextId' = nextId + 1
  /\ alerts' = [alerts EXCEPT ![p] = @ \ {f}]
  /\ touched' = [touched EXCEPT ![p] = @ \cup {nextId}]
  /\ UNCHANGED <<firing, silent, mutex, pc, existing, updated, mailing,
                 mailVars, moves>>

\* An alert already tracked: UPDATE ... WHERE id = ?, which writes the status
\* read under the mutex, whatever the row holds by now, and does nothing when
\* the row has been deleted.
UpdateIncident(p, f, i) ==
  /\ pc[p] = "apply" /\ f \in alerts[p]
  /\ i \in Candidates(p, f)
  /\ rows' = [rows EXCEPT ![i] = WithStatus(@, existing[p][i].status)]
  /\ alerts' = [alerts EXCEPT ![p] = @ \ {f}]
  /\ touched' = [touched EXCEPT ![p] = @ \cup {i}]
  /\ UNCHANGED <<nextId, firing, silent, mutex, pc, existing, updated, mailing,
                 mailVars, moves>>

\* Variation: only open incidents are resolved, dismissed ones are forgotten.
UnseenOpen(p) == {i \in Ids : existing[p][i].status = "open"} \ touched[p]

\* The active rows read under the mutex that no alert mentioned.
Unseen(p) == ActiveIds(existing[p]) \ touched[p]

ResolveIncident(p, i) ==
  /\ pc[p] = "apply" /\ alerts[p] = {}
  /\ i \in Unseen(p)
  /\ rows' = [rows EXCEPT ![i] = WithStatus(@, "resolved")]
  /\ touched' = [touched EXCEPT ![p] = @ \cup {i}]
  /\ UNCHANGED <<nextId, firing, silent, mutex, pc, alerts, existing, updated,
                 mailing, mailVars, moves>>

\* What p has to announce, given what it has read of the table at last.
Due(p, table) ==
  {i \in touched[p] : NeedsNotification(existing[p][i], table[i])}

Reread(p) ==
  /\ pc[p] = "apply" /\ alerts[p] = {} /\ Unseen(p) = {}
  /\ \E S \in Readable(rows) :
       /\ updated' = [updated EXCEPT ![p] = Read(rows, S)]
       /\ touched' = [touched EXCEPT ![p] = Due(p, Read(rows, S))]
  /\ Goto(p, "notify")
  /\ UNCHANGED <<tableVars, firing, silent, mutex, alerts, existing, mailing,
                 mailVars, moves>>

\* sendAnalyticsIncidentMail runs under the mutex and reads the answers of the
\* mail server without a deadline: while the server is silent nothing happens.
SendMail(p, i) ==
  /\ pc[p] = "notify" /\ i \in touched[p] /\ ~silent
  /\ mails' = [mails EXCEPT ![i] = Count(@, updated[p][i].status)]
  /\ mailing' = [mailing EXCEPT ![p] = i]
  /\ touched' = [touched EXCEPT ![p] = @ \ {i}]
  /\ Goto(p, "stamp")
  /\ UNCHANGED <<tableVars, firing, silent, mutex, alerts, existing, updated,
                 lost, moves>>

\* The session has ended well (client.Quit waits for an answer too): UPDATE.
Stamp(p) ==
  /\ pc[p] = "stamp" /\ ~silent
  /\ rows' = [rows EXCEPT ![mailing[p]] = WithStamp(@)]
  /\ mailing' = [mailing EXCEPT ![p] = 0]
  /\ Goto(p, "notify")
  /\ UNCHANGED <<nextId, firing, silent, mutex, alerts, existing, touched,
                 updated, mailVars, moves>>

Unlock(p) ==
  /\ pc[p] = "notify" /\ touched[p] = {}
  /\ mutex' = None
  /\ Forget(p) /\ Goto(p, "idle")
  /\ UNCHANGED <<tableVars, firing, silent, mailVars, moves>>

-----------------------------------------------------------------------------
(* The administrator and the traffic *)

Move == moves < MaxMoves /\ moves' = moves + 1

\* DismissIncident: UPDATE ... WHERE id = ? AND status = 'open'.
DismissIncident(i) ==
  /\ rows[i].status = "open"
  /\ rows' = [rows EXCEPT ![i] = WithStatus(@, "dismissed")]
  /\ UNCHANGED <<nextId, firing, silent, mutex, pc, localVars, mailVars, moves>>

\* DeleteIncident: DELETE ... WHERE id = ? AND status <> 'open'.
DeleteIncident(i) ==
  /\ Move
  /\ rows[i].status \in {"dismissed", "resolved"}
  /\ rows' = [rows EXCEPT ![i] = Absent]
  /\ UNCHANGED <<nextId, firing, silent, mutex, pc, localVars, mailVars>>

\* The condition behind an alert starts or stops to hold.
ToggleAlert(f) ==
  /\ Move
  /\ firing' = IF f \in firing THEN firing \ {f} ELSE firing \cup {f}
  /\ UNCHANGED <<tableVars, silent, mutex, pc, localVars, mailVars>>

\* The mail server falls silent, or answers again; nobody can tell but a call
\* that sends mails.
MailServer ==
  /\ \E p \in Syncers : pc[p] \in {"notify", "stamp"}
  /\ silent' = ~silent
  /\ UNCHANGED <<tableVars, firing, mutex, pc, localVars, mailVars, moves>>

-----------------------------------------------------------------------------
(* Faults *)

\* The opening mail of the incident p is stamping is not remembered.
LoseStamp(p) ==
  lost' = IF pc[p] = "stamp" /\ updated[p][mailing[p]].status = "open"
          THEN Count(lost, mailing[p]) ELSE lost

\* A query of buildAlerts, or a statement before the mails, fails: the call
\* returns and releases the mutex, leaving what it has written.
StatementFails(p) ==
  /\ Move
  /\ pc[p] \in {"built", "apply"}
  /\ mutex' = IF mutex = p THEN None ELSE mutex
  /\ Forget(p) /\ Goto(p, "idle")
  /\ UNCHANGED <<tableVars, firing, silent, mailVars>>

\* The mail server refuses the mail or closes the connection: the loop goes on
\* with the next incident.
MailFails(p, i) ==
  /\ Move
  /\ pc[p] = "notify" /\ i \in touched[p]
  /\ touched' = [touched EXCEPT ![p] = @ \ {i}]
  /\ UNCHANGED <<tableVars, firing, silent, mutex, pc, alerts, existing, updated,
                 mailing, mailVars>>

\* The mail is accepted and then either the session ends with an error or the
\* UPDATE of last_notified_at fails: both are ignored.
StampFails(p) ==
  /\ Move
  /\ pc[p] = "stamp"
  /\ LoseStamp(p)
  /\ mailing' = [mailing EXCEPT ![p] = 0]
  /\ Goto(p, "notify")
  /\ UNCHANGED <<tableVars, firing, silent, mutex, alerts, existing, touched,
                 updated, mails>>

\* The process dies and is started again: the mutex and every local are gone.
Crash ==
  /\ Move
  /\ IF mutex = None THEN lost' = lost ELSE LoseStamp(mutex)
  /\ mutex' = None
  /\ pc' = [p \in Syncers |-> "idle"]
  /\ alerts' = [p \in Syncers |-> {}]
  /\ existing' = [p \in Syncers |-> NoRows]
  /\ touched' = [p \in Syncers |-> {}]
  /\ updated' = [p \in Syncers |-> NoRows]
  /\ mailing' = [p \in Syncers |-> 0]
  /\ UNCHANGED <<tableVars, firing, silent, mails>>

-----------------------------------------------------------------------------
\* What a syncer that has begun must go on doing.
Continue(p) ==
  \/ \E f \in Fingerprints : InsertIncident(p, f)
  \/ \E f \in Fingerprints, i \in Ids : UpdateIncident(p, f, i)
  \/ \E i \in Ids : ResolveIncident(p, i)
  \/ Reread(p)
  \/ \E i \in Ids : SendMail(p, i)
  \/ Stamp(p)
  \/ Unlock(p)

Admin == \E i \in Ids : DismissIncident(i) \/ DeleteIncident(i)

Fault ==
  \/ \E p \in Syncers : StatementFails(p) \/ StampFails(p)
  \/ \E p \in Syncers, i \in Ids : MailFails(p, i)
  \/ Crash

Next ==
  \/ \E p \in Syncers : Build(p) \/ LockAndRead(p) \/ Continue(p)
  \/ Admin
  \/ \E f \in Fingerprints : ToggleAlert(f)
  \/ MailServer
  \/ Fault

\* The timer loop synchronises again and again; a goroutine that waits for the
\* mutex gets it (sync.Mutex hands it over to a starving waiter) and one that
\* holds it goes on, unless it waits for the mail server.  Requests, alert
\* changes, the mail server and faults owe nothing.
Fairness ==
  /\ WF_vars(Build(Background))
  /\ \A p \in Syncers : SF_vars(LockAndRead(p)) /\ WF_vars(Continue(p))

Spec     == Init /\ [][Next]_vars
FairSpec == Spec /\ Fairness

-----------------------------------------------------------------------------
(* Properties *)

TypeOK ==
  /\ rows \in [Ids -> Row]
  /\ nextId \in 1 .. (MaxId + 1)
  /\ firing \in SUBSET Fingerprints /\ silent \in BOOLEAN
  /\ mutex \in Syncers \cup {None}
  /\ pc \in [Syncers -> {"idle", "built", "apply", "notify", "stamp"}]
  /\ alerts \in [Syncers -> SUBSET Fingerprints]
  /\ existing \in [Syncers -> [Ids -> Row]]
  /\ touched \in [Syncers -> SUBSET Ids]
  /\ updated \in [Syncers -> [Ids -> Row]]
  /\ mailing \in [Syncers -> Ids \cup {0}]
  /\ mails \in [Ids -> [{"open", "resolved"} -> Nat]]
  /\ lost \in [Ids -> Nat]
  /\ moves \in Nat

\* An alert is tracked by at most one open or dismissed incident, whatever the
\* two synchronisers, the administrator, crashes and failing statements do and
\* however much history the LIMIT has to cut off.  The unique index that would
\* guarantee it is dropped by ensureAnalyticsIncidentIndexes.
OneActivePerFingerprint ==
  \A i, j \in Ids :
    IsActive(rows[i]) /\ IsActive(rows[j]) /\ rows[i].fp = rows[j].fp => i = j

\* A resolved incident is history: nothing but its deletion changes its status,
\* although syncIncidents writes statuses it read many statements earlier.
ResolvedIsFinal ==
  [][\A i \in Ids : rows[i].status = "resolved"
                       => rows'[i].status \in {"resolved", "none"}]_vars

\* The opening of an incident is mailed once, and once more only for each time
\* the stamp that remembers it was lost between the mail and the UPDATE; its
\* resolution is mailed at most once, crashes included.
MailedOnce ==
  \A i \in Ids : mails[i]["open"] <= lost[i] + 1 /\ mails[i]["resolved"] <= 1

\* An alert that goes on firing ends up tracked for good, and one that has
\* stopped ends up without an active incident, although the two synchronisers
\* may apply out-of-date alerts one after the other.  It takes a mail server
\* that answers in the end, although it may have been silent any number of
\* times: mails are sent under the mutex and without a deadline, so that one
\* that is never answered ends synchronisation for good.
AlertsAreFollowed ==
  <>[]~silent => \A f \in Fingerprints :
    /\ <>[](f \in firing) => <>[]Tracked(f)
    /\ <>[](f \notin firing) => <>[]~Tracked(f)
=============================================================================

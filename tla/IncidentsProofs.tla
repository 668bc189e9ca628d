--------------------------- MODULE IncidentsProofs ---------------------------
(***************************************************************************)
(* Proofs about the incident tracker: for every set of fingerprints that   *)
(* the LIMIT of the query can hold, every number of synchronisers and any  *)
(* interleaving with requests and faults, an alert has at most one active  *)
(* incident, a resolved incident is never reopened, and what happens to an *)
(* incident is mailed once.                                                *)
(***************************************************************************)
EXTENDS Incidents, FiniteSetTheorems, TLAPS

-----------------------------------------------------------------------------
(* The inductive invariant *)

\* The goroutine inside the critical section is the one the mutex names.
MutexHeld ==
  \A p \in Syncers : pc[p] \in {"apply", "notify", "stamp"} <=> mutex = p

\* The table: no row beyond the counter, and every row has a fingerprint.
TableOK ==
  \A i \in Ids :
    /\ i >= nextId => rows[i].status = "none"
    /\ rows[i].status # "none" => rows[i].fp \in Fingerprints

\* A call that has not entered the critical section has touched nothing.
NothingTouched ==
  \A p \in Syncers : pc[p] \in {"idle", "built"} => touched[p] = {}

\* What a writing synchroniser saw active is one incident per fingerprint, and
\* stays so: rows keep their fingerprint, and nobody else resolves them.
SnapshotOK(p) ==
  /\ \A i \in Ids : IsActive(existing[p][i]) =>
       /\ i < nextId
       /\ rows[i].status # "none" => rows[i].fp = existing[p][i].fp
       /\ i \notin touched[p] => rows[i].status # "resolved"
       /\ i \in touched[p] => existing[p][i].fp \notin alerts[p]
  /\ \A i, j \in Ids :
       IsActive(existing[p][i]) /\ IsActive(existing[p][j])
         /\ existing[p][i].fp = existing[p][j].fp => i = j

\* Every other active row is one it has inserted itself, for an alert that is
\* done and that no row it saw active carries.
InsertedOK(p) ==
  \A i \in Ids : IsActive(rows[i]) /\ ~IsActive(existing[p][i]) =>
    /\ rows[i].fp \notin alerts[p]
    /\ \A j \in Ids : IsActive(existing[p][j]) => existing[p][j].fp # rows[i].fp

WriterOK ==
  \A p \in Syncers : pc[p] = "apply" => SnapshotOK(p) /\ InsertedOK(p)

IInv ==
  /\ TypeOK
  /\ MutexHeld
  /\ NothingTouched
  /\ TableOK
  /\ OneActivePerFingerprint
  /\ WriterOK

-----------------------------------------------------------------------------
(* Types *)

LEMMA InitTypeOK == Init => TypeOK
<1> SUFFICES ASSUME Init  PROVE TypeOK
  OBVIOUS
<1>1. silent \in BOOLEAN
  BY DEF Init
<1>2. /\ rows \in [Ids -> Row] /\ nextId \in 1 .. (MaxId + 1)
      /\ existing \in [Syncers -> [Ids -> Row]]
      /\ updated \in [Syncers -> [Ids -> Row]]
  BY IncidentsAssumption DEF Init, NoRows, Absent, Row, Statuses, Active
<1>3. /\ firing \in SUBSET Fingerprints /\ mutex \in Syncers \cup {None}
      /\ pc \in [Syncers -> {"idle", "built", "apply", "notify", "stamp"}]
      /\ alerts \in [Syncers -> SUBSET Fingerprints]
      /\ touched \in [Syncers -> SUBSET Ids]
      /\ mailing \in [Syncers -> Ids \cup {0}]
      /\ mails \in [Ids -> [{"open", "resolved"} -> Nat]]
      /\ lost \in [Ids -> Nat] /\ moves \in Nat
  BY DEF Init
<1> QED
  BY <1>1, <1>2, <1>3 DEF TypeOK

\* An UPDATE writes the one column it names.
LEMMA WithStatusRow ==
  ASSUME NEW r \in Row, NEW s \in Statuses
  PROVE  /\ WithStatus(r, s) \in Row
         /\ WithStatus(r, s).fp = r.fp
         /\ WithStatus(r, s).status = IF r.status = "none" THEN "none" ELSE s
<1>1. CASE r \in [fp : Fingerprints, status : Statuses, notified : BOOLEAN]
  BY <1>1 DEF WithStatus, Row, Statuses, Active
<1>2. CASE r = Absent
  BY <1>2 DEF WithStatus, Row, Absent
<1> QED
  BY <1>1, <1>2 DEF Row

LEMMA WithStampRow ==
  ASSUME NEW r \in Row
  PROVE  /\ WithStamp(r) \in Row
         /\ WithStamp(r).fp = r.fp
         /\ WithStamp(r).status = r.status
<1>1. CASE r \in [fp : Fingerprints, status : Statuses, notified : BOOLEAN]
  BY <1>1 DEF WithStamp, Row, Statuses, Active
<1>2. CASE r = Absent
  BY <1>2 DEF WithStamp, Row, Absent
<1> QED
  BY <1>1, <1>2 DEF Row

LEMMA CountType ==
  ASSUME NEW S, NEW f \in [S -> Nat], NEW x
  PROVE  Count(f, x) \in [S -> Nat]
<1>1. CASE x \in S
  BY <1>1 DEF Count
<1>2. CASE x \notin S
  BY <1>2 DEF Count
<1> QED
  BY <1>1, <1>2

LEMMA LoseStampType ==
  ASSUME lost \in [Ids -> Nat], NEW p, LoseStamp(p)
  PROVE  lost' \in [Ids -> Nat]
BY CountType DEF LoseStamp

LEMMA ReadType ==
  ASSUME NEW table \in [Ids -> Row], NEW S
  PROVE  Read(table, S) \in [Ids -> Row]
BY DEF Read, Absent, Row, Statuses, Active

\* The steps of one synchroniser keep the types.
LEMMA SyncTypeOK ==
  ASSUME TypeOK, NEW p \in Syncers,
         Build(p) \/ LockAndRead(p) \/ Continue(p)
  PROVE  TypeOK'
<1> USE DEF TypeOK, tableVars, localVars, mailVars, Goto
<1>1. CASE Build(p)
  BY <1>1 DEF Build
<1>2. CASE LockAndRead(p)
  BY <1>2, ReadType DEF LockAndRead
<1>3. ASSUME NEW f \in Fingerprints, InsertIncident(p, f)  PROVE TypeOK'
  <2>1. [fp |-> f, status |-> "open", notified |-> FALSE] \in Row
    BY DEF Row, Statuses, Active
  <2>2. /\ nextId \in Ids /\ nextId' = nextId + 1
        /\ rows' = [rows EXCEPT ![nextId] =
                       [fp |-> f, status |-> "open", notified |-> FALSE]]
        /\ alerts' = [alerts EXCEPT ![p] = @ \ {f}]
        /\ touched' = [touched EXCEPT ![p] = @ \cup {nextId}]
        /\ UNCHANGED <<firing, silent, mutex, pc, existing, updated, mailing,
                       mails, lost, moves>>
    BY <1>3 DEF InsertIncident
  <2>3. nextId' \in 1..(MaxId + 1)
    BY <2>2, IncidentsAssumption DEF Ids
  <2>4. rows' \in [Ids -> Row]
    BY <2>1, <2>2
  <2>5. alerts' \in [Syncers -> SUBSET Fingerprints]
    BY <2>2
  <2>6. touched' \in [Syncers -> SUBSET Ids]
    BY <2>2
  <2> QED
    BY <2>2, <2>3, <2>4, <2>5, <2>6
<1>4. ASSUME NEW f \in Fingerprints, NEW i \in Ids, UpdateIncident(p, f, i)
      PROVE  TypeOK'
  <2> existing[p][i].status \in Statuses
    BY <1>4 DEF UpdateIncident, Candidates, IsActive, Statuses
  <2> QED
    BY <1>4, WithStatusRow DEF UpdateIncident
<1>5. ASSUME NEW i \in Ids, ResolveIncident(p, i)  PROVE TypeOK'
  BY <1>5, WithStatusRow DEF ResolveIncident, Statuses
<1>6. CASE Reread(p)
  <2> PICK S \in Readable(rows) :
        /\ updated' = [updated EXCEPT ![p] = Read(rows, S)]
        /\ touched' = [touched EXCEPT ![p] = Due(p, Read(rows, S))]
    BY <1>6 DEF Reread
  <2>1. Read(rows, S) \in [Ids -> Row]
    BY ReadType
  <2>2. Due(p, Read(rows, S)) \subseteq Ids
    BY DEF Due
  <2> QED
    BY <1>6, <2>1, <2>2 DEF Reread
<1>7. ASSUME NEW i \in Ids, SendMail(p, i)  PROVE TypeOK'
  BY <1>7, CountType DEF SendMail
<1>8. CASE Stamp(p)
  <2>1. rows' \in [Ids -> Row]
    <3>1. CASE mailing[p] \in Ids
      BY <1>8, <3>1, WithStampRow DEF Stamp
    <3>2. CASE mailing[p] \notin Ids
      BY <1>8, <3>2 DEF Stamp
    <3> QED
      BY <3>1, <3>2
  <2> QED
    BY <1>8, <2>1 DEF Stamp
<1>9. CASE Unlock(p)
  BY <1>9 DEF Unlock, Forget, NoRows, Absent, Row, Statuses, Active
<1> QED
  BY <1>1, <1>2, <1>3, <1>4, <1>5, <1>6, <1>7, <1>8, <1>9 DEF Continue

\* So do the administrator, the traffic and the faults.
LEMMA EnvironmentTypeOK ==
  ASSUME TypeOK,
         Admin \/ (\E f \in Fingerprints : ToggleAlert(f)) \/ MailServer \/ Fault
  PROVE  TypeOK'
<1> USE DEF TypeOK, tableVars, localVars, mailVars, Goto, Move
<1>1. ASSUME NEW i \in Ids, DismissIncident(i)  PROVE TypeOK'
  BY <1>1, WithStatusRow DEF DismissIncident, Statuses, Active
<1>2. ASSUME NEW i \in Ids, DeleteIncident(i)  PROVE TypeOK'
  BY <1>2 DEF DeleteIncident, Absent, Row, Statuses, Active
<1>3. ASSUME NEW f \in Fingerprints, ToggleAlert(f)  PROVE TypeOK'
  BY <1>3 DEF ToggleAlert
<1>4. ASSUME NEW p \in Syncers, StatementFails(p)  PROVE TypeOK'
  BY <1>4 DEF StatementFails, Forget, NoRows, Absent, Row, Statuses, Active
<1>5. ASSUME NEW p \in Syncers, StampFails(p)  PROVE TypeOK'
  BY <1>5, LoseStampType DEF StampFails
<1>6. ASSUME NEW p \in Syncers, NEW i \in Ids, MailFails(p, i)  PROVE TypeOK'
  BY <1>6 DEF MailFails
<1>7. CASE Crash
  BY <1>7, LoseStampType DEF Crash, NoRows, Absent, Row, Statuses, Active
<1>8. CASE MailServer
  BY <1>8 DEF MailServer
<1> QED
  BY <1>1, <1>2, <1>3, <1>4, <1>5, <1>6, <1>7, <1>8 DEF Admin, Fault

LEMMA NextTypeOK == TypeOK /\ [Next]_vars => TypeOK'
<1>1. CASE UNCHANGED vars
  BY <1>1 DEF vars, TypeOK, tableVars, localVars, mailVars
<1> QED
  BY <1>1, SyncTypeOK, EnvironmentTypeOK DEF Next

\* Every variable keeps its type, the table and the locals of each
\* synchroniser included.
THEOREM TypeCorrect == Spec => []TypeOK
BY InitTypeOK, NextTypeOK, PTL DEF Spec

-----------------------------------------------------------------------------
(* The query *)

\* One active incident per fingerprint: no more of them than fingerprints.
LEMMA FewActive ==
  ASSUME TypeOK, TableOK, OneActivePerFingerprint
  PROVE  /\ IsFiniteSet(ActiveIds(rows))
         /\ Cardinality(ActiveIds(rows)) <= RowLimit
<1> DEFINE fpOf == [i \in ActiveIds(rows) |-> rows[i].fp]
<1>1. fpOf \in Injection(ActiveIds(rows), Fingerprints)
  <2>1. \A i \in ActiveIds(rows) : rows[i].fp \in Fingerprints
    BY DEF ActiveIds, IsActive, Active, TableOK
  <2>2. \A i, j \in ActiveIds(rows) : fpOf[i] = fpOf[j] => i = j
    BY DEF ActiveIds, OneActivePerFingerprint
  <2> QED
    BY <2>1, <2>2 DEF Injection, IsInjective
<1>2. /\ IsFiniteSet(ActiveIds(rows))
      /\ Cardinality(ActiveIds(rows)) <= Cardinality(Fingerprints)
  BY <1>1, FS_Injection, IncidentsAssumption
<1> QED
  BY <1>2, FS_CardinalityType, IncidentsAssumption

\* The LIMIT cuts off history only: the query returns every active incident.
LEMMA ActiveNotHidden ==
  ASSUME TypeOK, TableOK, OneActivePerFingerprint,
         NEW S \in Readable(rows)
  PROVE  ActiveIds(rows) \subseteq S
<1> SUFFICES ASSUME NEW j \in ActiveIds(rows), j \notin S  PROVE FALSE
  OBVIOUS
<1>1. /\ j \in Present(rows)
      /\ S \subseteq Present(rows) /\ S \subseteq Ids
      /\ Cardinality(S) = RowLimit
      /\ \A i \in S : Rank(rows[i]) <= Rank(rows[j])
  BY DEF Readable, ActiveIds, IsActive, Active, Present
<1>2. S \subseteq ActiveIds(rows) \ {j}
  <2> SUFFICES ASSUME NEW i \in S  PROVE rows[i].status \in Active
    BY <1>1 DEF ActiveIds, IsActive
  <2>1. Rank(rows[j]) \in {0, 1}
    BY DEF ActiveIds, IsActive, Active, Rank
  <2>2. Rank(rows[i]) \in {0, 1}
    BY <1>1, <2>1 DEF Rank
  <2> QED
    BY <2>2 DEF Rank, Active
<1>3. /\ Cardinality(ActiveIds(rows) \ {j}) = Cardinality(ActiveIds(rows)) - 1
      /\ IsFiniteSet(ActiveIds(rows) \ {j})
      /\ Cardinality(ActiveIds(rows)) \in Nat
  BY FewActive, FS_RemoveElement, FS_CardinalityType
<1>4. Cardinality(S) <= Cardinality(ActiveIds(rows) \ {j})
  BY <1>2, <1>3, FS_Subset
<1> QED
  BY <1>1, <1>3, <1>4, FewActive, IncidentsAssumption

-----------------------------------------------------------------------------
(* The steps of a synchroniser *)

\* A step that writes neither the table nor the locals of a writer.
LEMMA QuietStep ==
  ASSUME IInv, TypeOK', MutexHeld', NothingTouched', UNCHANGED tableVars,
         \A p \in Syncers : pc'[p] = "apply" =>
           pc[p] = "apply" /\ UNCHANGED <<existing[p], alerts[p], touched[p]>>
  PROVE  IInv'
<1> USE DEF IInv, tableVars
<1>1. TableOK' /\ OneActivePerFingerprint'
  BY DEF TableOK, OneActivePerFingerprint
<1>2. ASSUME NEW p \in Syncers, pc'[p] = "apply"
      PROVE  SnapshotOK(p)' /\ InsertedOK(p)'
  <2>1. SnapshotOK(p) /\ InsertedOK(p)
    BY <1>2 DEF WriterOK
  <2>2. /\ existing'[p] = existing[p] /\ alerts'[p] = alerts[p]
        /\ touched'[p] = touched[p] /\ rows' = rows /\ nextId' = nextId
    BY <1>2
  <2> QED
    BY <2>1, <2>2 DEF SnapshotOK, InsertedOK
<1> QED
  BY <1>1, <1>2 DEF WriterOK

LEMMA BuildIInv ==
  ASSUME IInv, NEW p \in Syncers, Build(p), TypeOK'
  PROVE  IInv'
<1> USE DEF IInv
<1>1. MutexHeld' /\ NothingTouched'
  BY DEF Build, MutexHeld, NothingTouched, TypeOK, Goto
<1>2. UNCHANGED tableVars
  BY DEF Build
<1>3. \A q \in Syncers : pc'[q] = "apply" =>
        pc[q] = "apply" /\ UNCHANGED <<existing[q], alerts[q], touched[q]>>
  BY DEF Build, TypeOK, Goto
<1> QED
  BY <1>1, <1>2, <1>3, QuietStep

\* Only the holder of the mutex writes.
LEMMA OneWriter ==
  ASSUME IInv, NEW p \in Syncers, NEW q \in Syncers,
         pc[p] \in {"apply", "notify", "stamp"},
         pc[q] \in {"apply", "notify", "stamp"}
  PROVE  p = q
BY DEF IInv, MutexHeld

LEMMA LockAndReadIInv ==
  ASSUME IInv, NEW p \in Syncers, LockAndRead(p), TypeOK'
  PROVE  IInv'
<1> USE DEF IInv
<1>1. /\ pc' = [pc EXCEPT ![p] = "apply"]
      /\ mutex = None /\ mutex' = p
      /\ rows' = rows /\ nextId' = nextId
      /\ alerts' = alerts /\ touched' = touched
  BY DEF LockAndRead, Goto, tableVars
<1>2. PICK S \in Readable(rows) :
        existing' = [existing EXCEPT ![p] = Read(rows, S)]
  BY DEF LockAndRead
<1>3. MutexHeld' /\ NothingTouched'
  BY <1>1, IncidentsAssumption DEF MutexHeld, NothingTouched, TypeOK
<1>4. TableOK' /\ OneActivePerFingerprint'
  BY <1>1 DEF TableOK, OneActivePerFingerprint
<1>5. ASSUME NEW q \in Syncers, pc'[q] = "apply"
      PROVE  SnapshotOK(q)' /\ InsertedOK(q)'
  <2>1. q = p
    BY <1>1, <1>5, IncidentsAssumption DEF MutexHeld, TypeOK
  <2>2. existing'[p] = Read(rows, S)
    BY <1>2 DEF TypeOK
  <2>3. \A i \in Ids : IsActive(existing'[p][i])
          => existing'[p][i] = rows[i] /\ IsActive(rows[i])
    BY <2>2 DEF Read, Absent, IsActive, Active
  <2>4. \A i \in Ids : IsActive(rows[i]) => existing'[p][i] = rows[i]
    BY <2>2, ActiveNotHidden DEF Read, ActiveIds
  <2>5. touched'[p] = {}
    BY <1>1 DEF NothingTouched, LockAndRead
  <2>6. SnapshotOK(p)'
    <3>1. ASSUME NEW i \in Ids, IsActive(existing'[p][i])
          PROVE  /\ i < nextId
                 /\ rows[i].fp = existing'[p][i].fp
                 /\ rows[i].status # "resolved"
      BY <2>3, <3>1 DEF TableOK, IsActive, Active, TypeOK, Ids
    <3> QED
      BY <1>1, <2>3, <2>5, <3>1 DEF SnapshotOK, OneActivePerFingerprint
  <2>7. InsertedOK(p)'
    BY <1>1, <2>4 DEF InsertedOK
  <2> QED
    BY <2>1, <2>6, <2>7
<1> QED
  BY <1>3, <1>4, <1>5 DEF WriterOK

LEMMA InsertIInv ==
  ASSUME IInv, NEW p \in Syncers, NEW f \in Fingerprints,
         InsertIncident(p, f), TypeOK'
  PROVE  IInv'
<1> USE DEF IInv
<1> DEFINE n == nextId
<1>1. /\ pc[p] = "apply" /\ f \in alerts[p] /\ Candidates(p, f) = {} /\ n \in Ids
      /\ nextId' = n + 1
      /\ pc' = pc /\ mutex' = mutex /\ existing' = existing
      /\ alerts' = [alerts EXCEPT ![p] = @ \ {f}]
      /\ touched' = [touched EXCEPT ![p] = @ \cup {n}]
  BY DEF InsertIncident
<1>2. /\ rows'[n].fp = f /\ rows'[n].status = "open"
      /\ \A i \in Ids \ {n} : rows'[i] = rows[i]
  BY DEF InsertIncident, TypeOK
<1>3. SnapshotOK(p) /\ InsertedOK(p)
  BY <1>1 DEF WriterOK
<1>4. n \in Nat /\ \A i \in Ids : i \in Nat
  BY IncidentsAssumption DEF TypeOK, Ids
<1>5. ~IsActive(rows[n]) /\ ~IsActive(existing[p][n])
  BY <1>1, <1>3, <1>4 DEF TableOK, SnapshotOK, IsActive, Active
\* No active row carries the fingerprint that is inserted.
<1>6. \A j \in Ids : IsActive(rows[j]) => rows[j].fp # f
  <2> SUFFICES ASSUME NEW j \in Ids, IsActive(rows[j]), rows[j].fp = f
               PROVE  FALSE
    OBVIOUS
  <2>1. CASE IsActive(existing[p][j])
    BY <1>1, <1>3, <2>1 DEF SnapshotOK, Candidates, IsActive, Active
  <2>2. CASE ~IsActive(existing[p][j])
    BY <1>1, <1>3, <2>2 DEF InsertedOK
  <2> QED
    BY <2>1, <2>2
<1>7. MutexHeld' /\ NothingTouched'
  BY <1>1 DEF MutexHeld, NothingTouched, TypeOK
<1>8. TableOK'
  BY <1>1, <1>2, <1>4 DEF TableOK
<1>9. OneActivePerFingerprint'
  BY <1>2, <1>6 DEF OneActivePerFingerprint
<1>10. ASSUME NEW q \in Syncers, pc'[q] = "apply"
       PROVE  SnapshotOK(q)' /\ InsertedOK(q)'
  <2>1. q = p
    BY <1>1, <1>10, OneWriter
  <2>2. alerts'[p] = alerts[p] \ {f} /\ touched'[p] = touched[p] \cup {n}
    BY <1>1 DEF TypeOK
  <2>3. SnapshotOK(p)'
    BY <1>1, <1>2, <1>3, <1>4, <1>5, <2>2 DEF SnapshotOK
  <2>4. InsertedOK(p)'
    <3>1. ASSUME NEW j \in Ids, IsActive(existing[p][j])
          PROVE  existing[p][j].fp # f
      BY <1>1, <3>1 DEF Candidates
    <3> QED
      BY <1>1, <1>2, <1>3, <2>2, <3>1 DEF InsertedOK
  <2> QED
    BY <2>1, <2>3, <2>4
<1> QED
  BY <1>7, <1>8, <1>9, <1>10 DEF WriterOK

LEMMA UpdateIInv ==
  ASSUME IInv, NEW p \in Syncers, NEW f \in Fingerprints, NEW i \in Ids,
         UpdateIncident(p, f, i), TypeOK'
  PROVE  IInv'
<1> USE DEF IInv
<1>1. /\ pc[p] = "apply" /\ f \in alerts[p]
      /\ IsActive(existing[p][i]) /\ existing[p][i].fp = f
      /\ nextId' = nextId /\ pc' = pc /\ mutex' = mutex /\ existing' = existing
      /\ alerts' = [alerts EXCEPT ![p] = @ \ {f}]
      /\ touched' = [touched EXCEPT ![p] = @ \cup {i}]
  BY DEF UpdateIncident, Candidates
<1>2. /\ rows'[i].fp = rows[i].fp
      /\ rows[i].status = "none" => rows'[i].status = "none"
      /\ rows[i].status # "none" => rows'[i].status = existing[p][i].status
      /\ \A j \in Ids \ {i} : rows'[j] = rows[j]
  <2>1. existing[p][i].status \in Statuses
    BY <1>1 DEF IsActive, Statuses
  <2> QED
    BY <2>1, WithStatusRow DEF UpdateIncident, TypeOK
<1>3. SnapshotOK(p) /\ InsertedOK(p)
  BY <1>1 DEF WriterOK
<1>4. \A j \in Ids : IsActive(rows'[j]) =>
        /\ rows'[j].fp = rows[j].fp
        /\ IsActive(rows[j]) \/ j = i
  BY <1>2 DEF IsActive, Active
<1>5. MutexHeld' /\ NothingTouched'
  BY <1>1 DEF MutexHeld, NothingTouched, TypeOK
<1>6. TableOK'
  BY <1>1, <1>2 DEF TableOK
\* The row written is the only one that may have become active again.
<1>7. \A j \in Ids : IsActive(rows'[j]) /\ IsActive(rows'[i])
                       /\ rows'[j].fp = rows'[i].fp => j = i
  <2> SUFFICES ASSUME NEW j \in Ids, j # i, IsActive(rows[j]),
                      IsActive(rows'[i]), rows[j].fp = rows[i].fp
               PROVE  FALSE
    BY <1>2, <1>4
  <2>1. rows[i].fp = f
    BY <1>1, <1>2, <1>3 DEF SnapshotOK, IsActive, Active
  <2>2. CASE IsActive(existing[p][j])
    BY <1>1, <1>3, <2>1, <2>2 DEF SnapshotOK, IsActive, Active
  <2>3. CASE ~IsActive(existing[p][j])
    BY <1>1, <1>3, <2>1, <2>3 DEF InsertedOK
  <2> QED
    BY <2>2, <2>3
<1>8. OneActivePerFingerprint'
  BY <1>4, <1>7 DEF OneActivePerFingerprint
<1>9. ASSUME NEW q \in Syncers, pc'[q] = "apply"
      PROVE  SnapshotOK(q)' /\ InsertedOK(q)'
  <2>1. q = p
    BY <1>1, <1>9, OneWriter
  <2>2. alerts'[p] = alerts[p] \ {f} /\ touched'[p] = touched[p] \cup {i}
    BY <1>1 DEF TypeOK
  <2>3. SnapshotOK(p)'
    BY <1>1, <1>2, <1>3, <2>2 DEF SnapshotOK
  <2>4. InsertedOK(p)'
    BY <1>1, <1>3, <1>4, <2>2 DEF InsertedOK
  <2> QED
    BY <2>1, <2>3, <2>4
<1> QED
  BY <1>5, <1>6, <1>8, <1>9 DEF WriterOK

LEMMA ResolveIInv ==
  ASSUME IInv, NEW p \in Syncers, NEW i \in Ids, ResolveIncident(p, i), TypeOK'
  PROVE  IInv'
<1> USE DEF IInv
<1>1. /\ pc[p] = "apply" /\ alerts[p] = {}
      /\ nextId' = nextId /\ pc' = pc /\ mutex' = mutex
      /\ existing' = existing /\ alerts' = alerts
      /\ touched' = [touched EXCEPT ![p] = @ \cup {i}]
  BY DEF ResolveIncident
<1>2. /\ rows'[i].fp = rows[i].fp
      /\ rows'[i].status \in {"none", "resolved"}
      /\ rows[i].status = "none" => rows'[i].status = "none"
      /\ \A j \in Ids \ {i} : rows'[j] = rows[j]
  BY WithStatusRow DEF ResolveIncident, TypeOK, Statuses
<1>3. SnapshotOK(p) /\ InsertedOK(p)
  BY <1>1 DEF WriterOK
<1>4. \A j \in Ids : IsActive(rows'[j]) => rows'[j] = rows[j]
  BY <1>2 DEF IsActive, Active
<1>5. MutexHeld' /\ NothingTouched'
  BY <1>1 DEF MutexHeld, NothingTouched, TypeOK
<1>6. TableOK' /\ OneActivePerFingerprint'
  BY <1>1, <1>2, <1>4 DEF TableOK, OneActivePerFingerprint
<1>7. ASSUME NEW q \in Syncers, pc'[q] = "apply"
      PROVE  SnapshotOK(q)' /\ InsertedOK(q)'
  <2>1. q = p
    BY <1>1, <1>7, OneWriter
  <2>2. touched'[p] = touched[p] \cup {i}
    BY <1>1 DEF TypeOK
  <2>3. SnapshotOK(p)' /\ InsertedOK(p)'
    BY <1>1, <1>2, <1>3, <1>4, <2>2 DEF SnapshotOK, InsertedOK
  <2> QED
    BY <2>1, <2>3
<1> QED
  BY <1>5, <1>6, <1>7 DEF WriterOK

\* After the last read a synchroniser writes no status any more.
LEMMA RereadIInv ==
  ASSUME IInv, NEW p \in Syncers, Reread(p), TypeOK'
  PROVE  IInv'
<1> USE DEF IInv
<1>1. MutexHeld' /\ NothingTouched'
  BY DEF Reread, MutexHeld, NothingTouched, TypeOK, Goto
<1>2. UNCHANGED tableVars
  BY DEF Reread
<1>3. \A q \in Syncers : pc'[q] = "apply" =>
        pc[q] = "apply" /\ UNCHANGED <<existing[q], alerts[q], touched[q]>>
  BY DEF Reread, TypeOK, Goto
<1> QED
  BY <1>1, <1>2, <1>3, QuietStep

LEMMA MailIInv ==
  ASSUME IInv, NEW p \in Syncers, NEW i \in Ids,
         SendMail(p, i) \/ MailFails(p, i), TypeOK'
  PROVE  IInv'
<1> USE DEF IInv
<1>1. MutexHeld' /\ NothingTouched'
  <2>1. pc[p] = "notify" /\ pc'[p] \in {"stamp", "notify"}
    BY DEF SendMail, MailFails, TypeOK, Goto
  <2>2. \A q \in Syncers \ {p} : pc'[q] = pc[q] /\ touched'[q] = touched[q]
    BY DEF SendMail, MailFails, TypeOK, Goto
  <2>3. mutex' = mutex
    BY DEF SendMail, MailFails
  <2>4. MutexHeld'
    BY <2>1, <2>2, <2>3 DEF MutexHeld
  <2>5. NothingTouched'
    BY <2>1, <2>2 DEF NothingTouched
  <2> QED
    BY <2>4, <2>5
<1>2. UNCHANGED tableVars
  BY DEF SendMail, MailFails
<1>3. \A q \in Syncers : pc'[q] = "apply" =>
        pc[q] = "apply" /\ UNCHANGED <<existing[q], alerts[q], touched[q]>>
  BY DEF SendMail, MailFails, TypeOK, Goto
<1> QED
  BY <1>1, <1>2, <1>3, QuietStep

LEMMA StampFailsIInv ==
  ASSUME IInv, NEW p \in Syncers, StampFails(p), TypeOK'
  PROVE  IInv'
<1> USE DEF IInv
<1>1. MutexHeld' /\ NothingTouched'
  BY DEF StampFails, MutexHeld, NothingTouched, TypeOK, Goto
<1>2. UNCHANGED tableVars
  BY DEF StampFails
<1>3. \A q \in Syncers : pc'[q] = "apply" =>
        pc[q] = "apply" /\ UNCHANGED <<existing[q], alerts[q], touched[q]>>
  BY DEF StampFails, TypeOK, Goto
<1> QED
  BY <1>1, <1>2, <1>3, QuietStep

LEMMA StatementFailsIInv ==
  ASSUME IInv, NEW p \in Syncers, StatementFails(p), TypeOK'
  PROVE  IInv'
<1> USE DEF IInv
<1>1. MutexHeld' /\ NothingTouched'
  BY IncidentsAssumption
  DEF StatementFails, Forget, MutexHeld, NothingTouched, TypeOK, Goto
<1>2. UNCHANGED tableVars
  BY DEF StatementFails
<1>3. \A q \in Syncers : pc'[q] = "apply" =>
        pc[q] = "apply" /\ UNCHANGED <<existing[q], alerts[q], touched[q]>>
  BY DEF StatementFails, Forget, TypeOK, Goto
<1> QED
  BY <1>1, <1>2, <1>3, QuietStep

LEMMA UnlockIInv ==
  ASSUME IInv, NEW p \in Syncers, Unlock(p), TypeOK'
  PROVE  IInv'
<1> USE DEF IInv
<1>1. MutexHeld' /\ NothingTouched'
  BY IncidentsAssumption
  DEF Unlock, Forget, MutexHeld, NothingTouched, TypeOK, Goto
<1>2. UNCHANGED tableVars
  BY DEF Unlock
<1>3. \A q \in Syncers : pc'[q] = "apply" =>
        pc[q] = "apply" /\ UNCHANGED <<existing[q], alerts[q], touched[q]>>
  BY DEF Unlock, Forget, TypeOK, Goto
<1> QED
  BY <1>1, <1>2, <1>3, QuietStep

-----------------------------------------------------------------------------
(* Everybody else *)

\* A write of one row that neither moves it to another fingerprint, nor opens,
\* reopens or resolves it, disturbs no synchroniser.
LEMMA OutsideWrite ==
  ASSUME IInv, TypeOK', NEW i \in Ids,
         UNCHANGED <<nextId, existing, alerts, mutex>>,
         \A q \in Syncers : pc'[q] = "apply" => pc[q] = "apply",
         MutexHeld', NothingTouched',
         \A q \in Syncers : pc'[q] = "apply" => touched'[q] = touched[q],
         \A j \in Ids \ {i} : rows'[j] = rows[j],
         rows'[i].status # "none" => rows'[i].fp = rows[i].fp,
         rows[i].status = "none" => rows'[i].status = "none",
         IsActive(rows'[i]) => IsActive(rows[i]),
         rows'[i].status = "resolved" => rows[i].status = "resolved"
  PROVE  IInv'
<1> USE DEF IInv
<1>1. \A j \in Ids : IsActive(rows'[j]) => IsActive(rows[j]) /\ rows'[j].fp = rows[j].fp
  BY DEF IsActive, Active
<1>2. TableOK'
  BY DEF TableOK
<1>3. OneActivePerFingerprint'
  BY <1>1 DEF OneActivePerFingerprint
<1>4. ASSUME NEW q \in Syncers, pc'[q] = "apply"
      PROVE  SnapshotOK(q)' /\ InsertedOK(q)'
  <2>1. SnapshotOK(q) /\ InsertedOK(q) /\ touched'[q] = touched[q]
    BY <1>4 DEF WriterOK
  <2>2. SnapshotOK(q)'
    BY <2>1 DEF SnapshotOK
  <2>3. InsertedOK(q)'
    BY <1>1, <2>1 DEF InsertedOK
  <2> QED
    BY <2>2, <2>3
<1> QED
  BY <1>2, <1>3, <1>4 DEF WriterOK

LEMMA StampIInv ==
  ASSUME IInv, NEW p \in Syncers, Stamp(p), TypeOK'
  PROVE  IInv'
<1> USE DEF IInv
<1>1. MutexHeld' /\ NothingTouched'
  BY DEF Stamp, MutexHeld, NothingTouched, TypeOK, Goto
<1>2. \A q \in Syncers : pc'[q] = "apply" =>
        pc[q] = "apply" /\ UNCHANGED <<existing[q], alerts[q], touched[q]>>
  BY DEF Stamp, TypeOK, Goto
<1>3. CASE mailing[p] \in Ids
  <2> DEFINE i == mailing[p]
  <2>1. /\ rows'[i] = WithStamp(rows[i])
        /\ \A j \in Ids \ {i} : rows'[j] = rows[j]
    BY <1>3 DEF Stamp, TypeOK
  <2>2. rows'[i].fp = rows[i].fp /\ rows'[i].status = rows[i].status
    BY <1>3, <2>1, WithStampRow DEF TypeOK
  <2>3. UNCHANGED <<nextId, existing, alerts, mutex>>
    BY DEF Stamp
  <2> HIDE DEF i
  <2>4. i \in Ids
    BY <1>3 DEF i
  <2>5. IsActive(rows'[i]) => IsActive(rows[i])
    BY <2>2 DEF IsActive
  <2> QED
    BY <1>1, <1>2, <2>1, <2>2, <2>3, <2>4, <2>5, OutsideWrite
<1>4. CASE mailing[p] \notin Ids
  <2>1. UNCHANGED tableVars
    BY <1>4 DEF Stamp, tableVars, TypeOK
  <2> QED
    BY <1>1, <1>2, <2>1, QuietStep
<1> QED
  BY <1>3, <1>4

LEMMA AdminIInv ==
  ASSUME IInv, NEW i \in Ids, DismissIncident(i) \/ DeleteIncident(i), TypeOK'
  PROVE  IInv'
<1> USE DEF IInv
<1>1. /\ pc' = pc /\ mutex' = mutex /\ nextId' = nextId
      /\ alerts' = alerts /\ existing' = existing /\ touched' = touched
  BY DEF DismissIncident, DeleteIncident, localVars
<1>2. MutexHeld' /\ NothingTouched'
  BY <1>1 DEF MutexHeld, NothingTouched
<1>3. \A j \in Ids \ {i} : rows'[j] = rows[j]
  BY DEF DismissIncident, DeleteIncident, TypeOK
<1>4. /\ rows'[i].status # "none" => rows'[i].fp = rows[i].fp
      /\ rows[i].status \in Active
           \/ rows'[i].status = "none"
      /\ rows'[i].status \in {"none", "dismissed"}
  <2>1. CASE DismissIncident(i)
    BY <2>1, WithStatusRow DEF DismissIncident, TypeOK, Active, Statuses
  <2>2. CASE DeleteIncident(i)
    BY <2>2 DEF DeleteIncident, TypeOK, Absent
  <2> QED
    BY <2>1, <2>2
<1>5. IsActive(rows'[i]) => IsActive(rows[i])
  BY <1>4 DEF IsActive, Active
<1>6. rows[i].status = "none" => rows'[i].status = "none"
  BY <1>4 DEF Active
<1> QED
  BY <1>1, <1>2, <1>3, <1>4, <1>5, <1>6, OutsideWrite

\* A change of the alerts, or of the mail server.
LEMMA TrafficIInv ==
  ASSUME IInv, (\E f \in Fingerprints : ToggleAlert(f)) \/ MailServer, TypeOK'
  PROVE  IInv'
<1> USE DEF IInv
<1>1. UNCHANGED tableVars /\ MutexHeld' /\ NothingTouched'
  BY DEF ToggleAlert, MailServer, localVars, tableVars, MutexHeld,
         NothingTouched
<1>2. \A q \in Syncers : pc'[q] = "apply" =>
        pc[q] = "apply" /\ UNCHANGED <<existing[q], alerts[q], touched[q]>>
  BY DEF ToggleAlert, MailServer, localVars
<1> QED
  BY <1>1, <1>2, QuietStep

LEMMA CrashIInv ==
  ASSUME IInv, Crash, TypeOK'
  PROVE  IInv'
<1> USE DEF IInv
<1>1. UNCHANGED tableVars /\ MutexHeld' /\ NothingTouched'
  BY IncidentsAssumption DEF Crash, MutexHeld, NothingTouched
<1>2. \A q \in Syncers : pc'[q] # "apply"
  BY DEF Crash
<1> QED
  BY <1>1, <1>2, QuietStep

-----------------------------------------------------------------------------
(* The invariant *)

LEMMA InitIInv == Init => IInv
<1> SUFFICES ASSUME Init  PROVE IInv
  OBVIOUS
<1>1. TypeOK
  BY InitTypeOK
<1>2. MutexHeld /\ NothingTouched
  BY IncidentsAssumption DEF Init, MutexHeld, NothingTouched
<1>3. TableOK /\ OneActivePerFingerprint
  BY DEF Init, NoRows, Absent, TableOK, OneActivePerFingerprint, IsActive, Active
<1>4. WriterOK
  BY DEF Init, WriterOK
<1> QED
  BY <1>1, <1>2, <1>3, <1>4 DEF IInv

LEMMA NextIInv == IInv /\ [Next]_vars => IInv'
<1> SUFFICES ASSUME IInv, [Next]_vars  PROVE IInv'
  OBVIOUS
<1>1. TypeOK'
  BY NextTypeOK DEF IInv
<1>2. CASE UNCHANGED vars
  <2>1. UNCHANGED tableVars /\ MutexHeld' /\ NothingTouched'
    BY <1>2 DEF vars, localVars, tableVars, MutexHeld, NothingTouched, IInv
  <2>2. \A q \in Syncers : pc'[q] = "apply" =>
          pc[q] = "apply" /\ UNCHANGED <<existing[q], alerts[q], touched[q]>>
    BY <1>2 DEF vars, localVars
  <2> QED
    BY <1>1, <2>1, <2>2, QuietStep
<1>3. ASSUME NEW p \in Syncers, Build(p) \/ LockAndRead(p)  PROVE IInv'
  BY <1>1, <1>3, BuildIInv, LockAndReadIInv
<1>4. ASSUME NEW p \in Syncers, Continue(p)  PROVE IInv'
  BY <1>1, <1>4, InsertIInv, UpdateIInv, ResolveIInv, RereadIInv, MailIInv,
     StampIInv, UnlockIInv DEF Continue
<1>5. CASE Admin
  BY <1>1, <1>5, AdminIInv DEF Admin
<1>6. CASE (\E f \in Fingerprints : ToggleAlert(f)) \/ MailServer
  BY <1>1, <1>6, TrafficIInv
<1>7. CASE Fault
  BY <1>1, <1>7, StatementFailsIInv, StampFailsIInv, MailIInv, CrashIInv DEF Fault
<1> QED
  BY <1>2, <1>3, <1>4, <1>5, <1>6, <1>7 DEF Next

\* syncIncidents: an alert has at most one open or dismissed incident, for every
\* number of alerts up to the LIMIT of the query and every number of goroutines
\* that synchronise; the table has no unique index that would guarantee it.
THEOREM OneActiveAlways == Spec => []OneActivePerFingerprint
<1>1. IInv => OneActivePerFingerprint
  BY DEF IInv
<1> QED
  BY <1>1, InitIInv, NextIInv, PTL DEF Spec

-----------------------------------------------------------------------------
(* Resolved incidents *)

\* A step changes the status of a resolved row only by deleting it.
LEMMA ResolvedStep ==
  ASSUME IInv, [Next]_vars, NEW i \in Ids, rows[i].status = "resolved"
  PROVE  rows'[i].status \in {"resolved", "none"}
<1> USE DEF IInv
<1>1. rows \in [Ids -> Row] /\ rows[i] \in Row
  BY DEF TypeOK
<1>2. ASSUME rows' = rows  PROVE rows'[i].status \in {"resolved", "none"}
  BY <1>2
<1>3. ASSUME NEW p \in Syncers, NEW f \in Fingerprints, InsertIncident(p, f)
      PROVE  rows'[i].status \in {"resolved", "none"}
  <2>1. nextId # i
    BY IncidentsAssumption DEF TableOK, TypeOK, Ids
  <2> QED
    BY <1>1, <1>3, <2>1 DEF InsertIncident
<1>4. ASSUME NEW p \in Syncers, NEW f \in Fingerprints, NEW j \in Ids,
             UpdateIncident(p, f, j)
      PROVE  rows'[i].status \in {"resolved", "none"}
  \* The row it writes is one it saw active and has not resolved since.
  <2>1. SnapshotOK(p) /\ f \in alerts[p]
        /\ IsActive(existing[p][j]) /\ existing[p][j].fp = f
    BY <1>4 DEF UpdateIncident, Candidates, WriterOK
  <2>2. j # i
    BY <2>1 DEF SnapshotOK
  <2> QED
    BY <1>1, <1>4, <2>2 DEF UpdateIncident
<1>5. ASSUME NEW p \in Syncers, NEW j \in Ids, ResolveIncident(p, j)
      PROVE  rows'[i].status \in {"resolved", "none"}
  BY <1>1, <1>5, WithStatusRow DEF ResolveIncident, Statuses
<1>6. ASSUME NEW p \in Syncers, Stamp(p)
      PROVE  rows'[i].status \in {"resolved", "none"}
  <2>1. CASE i = mailing[p]
    BY <1>1, <1>6, <2>1, WithStampRow DEF Stamp
  <2>2. CASE i # mailing[p]
    BY <1>1, <1>6, <2>2 DEF Stamp
  <2> QED
    BY <2>1, <2>2
<1>7. ASSUME NEW j \in Ids, DismissIncident(j) \/ DeleteIncident(j)
      PROVE  rows'[i].status \in {"resolved", "none"}
  BY <1>1, <1>7 DEF DismissIncident, DeleteIncident, Absent
<1>8. ASSUME NEW p \in Syncers, Build(p) \/ LockAndRead(p) \/ Reread(p) \/ Unlock(p)
                               \/ StatementFails(p) \/ StampFails(p)
      PROVE  rows' = rows
  BY <1>8 DEF Build, LockAndRead, Reread, Unlock, StatementFails, StampFails, tableVars
<1>9. ASSUME NEW p \in Syncers, NEW j \in Ids, SendMail(p, j) \/ MailFails(p, j)
      PROVE  rows' = rows
  BY <1>9 DEF SendMail, MailFails, tableVars
<1>10. ASSUME \/ UNCHANGED vars \/ Crash \/ MailServer
              \/ \E f \in Fingerprints : ToggleAlert(f)
       PROVE  rows' = rows
  BY <1>10 DEF vars, Crash, ToggleAlert, MailServer, tableVars
<1>11. ASSUME NEW p \in Syncers, Continue(p)
       PROVE  rows'[i].status \in {"resolved", "none"}
  BY <1>2, <1>3, <1>4, <1>5, <1>6, <1>8, <1>9, <1>11 DEF Continue
<1>12. ASSUME Admin \/ Fault
       PROVE  rows'[i].status \in {"resolved", "none"}
  BY <1>2, <1>7, <1>8, <1>9, <1>10, <1>12 DEF Admin, Fault
<1> QED
  BY <1>2, <1>8, <1>10, <1>11, <1>12 DEF Next

\* syncIncidents and DismissIncident never bring a resolved incident back,
\* although a synchroniser writes the statuses it read many statements earlier.
THEOREM ResolvedStaysResolved == Spec => ResolvedIsFinal
<1>1. IInv /\ [Next]_vars
        => [\A i \in Ids : rows[i].status = "resolved"
                             => rows'[i].status \in {"resolved", "none"}]_vars
  BY ResolvedStep
<1> QED
  BY <1>1, InitIInv, NextIInv, PTL DEF Spec, ResolvedIsFinal

-----------------------------------------------------------------------------
(* Mails *)

\* Somebody has mailed the opening of an incident and not yet stamped it.
Stamping(i) ==
  \E p \in Syncers : pc[p] = "stamp" /\ mailing[p] = i /\ updated[p][i].status = "open"

\* A row without a stamp has had no more opening mails than stamps were lost,
\* and one not resolved no mail of its resolution; ids to come have had none.
MailsOK ==
  \A i \in Ids :
    /\ (i < nextId => rows[i].status # "none" /\ ~rows[i].notified) /\ ~Stamping(i)
         => mails[i]["open"] <= lost[i]
    /\ (i < nextId => IsActive(rows[i])) => mails[i]["resolved"] = 0

\* What a writing synchroniser has read still tells which rows have a stamp;
\* the rows that it inserted have none, and it opens none it saw dismissed.
StampsRead(p) ==
  \A i \in Ids :
    /\ existing[p][i].status # "none" => i < nextId
    /\ existing[p][i].status # "none" /\ rows[i].status # "none"
         => rows[i].notified = existing[p][i].notified
    /\ IsActive(rows[i]) /\ ~IsActive(existing[p][i]) => ~rows[i].notified
    /\ existing[p][i].status = "dismissed" => rows[i].status # "open"
    /\ IsActive(existing[p][i]) => mails[i]["resolved"] = 0

\* What it still has to announce has not been announced.
DueOK(p) ==
  \A i \in touched[p] :
    /\ updated[p][i].status \in {"open", "resolved"}
    /\ updated[p][i].status = "open" => mails[i]["open"] <= lost[i]
    /\ updated[p][i].status = "resolved" => mails[i]["resolved"] = 0 /\ ~IsActive(rows[i])

\* The rows it has written, and the one it is stamping, are in the table.
HandledOK(p) ==
  /\ \A i \in touched[p] : i < nextId
  /\ pc[p] = "stamp" => mailing[p] \in Ids /\ mailing[p] < nextId /\ mailing[p] \notin touched[p]

MailInv ==
  /\ MailedOnce
  /\ MailsOK
  /\ \A p \in Syncers :
       /\ pc[p] = "apply" => StampsRead(p)
       /\ pc[p] \in {"notify", "stamp"} => DueOK(p)
       /\ HandledOK(p)

\* An UPDATE of the status leaves the stamp, a stamp of a row is there.
LEMMA StampKept ==
  ASSUME NEW r \in Row, NEW s
  PROVE  WithStatus(r, s).notified = r.notified /\ (r.status # "none" => WithStamp(r).notified)
<1>1. CASE r \in [fp : Fingerprints, status : Statuses, notified : BOOLEAN]
  BY <1>1 DEF WithStatus, WithStamp
<1>2. CASE r = Absent
  BY <1>2 DEF WithStatus, Absent
<1> QED
  BY <1>1, <1>2 DEF Row

LEMMA InitMailInv == Init => MailInv
<1> SUFFICES ASSUME Init PROVE MailInv
  OBVIOUS
<1>1. MailedOnce
  BY DEF Init, MailedOnce
<1>2. MailsOK
  BY DEF Init, MailsOK
<1> QED
  BY <1>1, <1>2 DEF Init, MailInv, HandledOK

\* A step that at most dismisses or deletes rows, and at most drops what there
\* is to do.
LEMMA NothingMailed ==
  ASSUME IInv, MailInv, UNCHANGED <<nextId, mails, lost>>,
         \A i \in Ids : Stamping(i) => Stamping(i)',
         \A i \in Ids :
           \/ rows'[i] = rows[i]
           \/ rows'[i].status = "none"
           \/ /\ rows[i].status = "open" /\ rows'[i].status = "dismissed"
              /\ rows'[i].notified = rows[i].notified,
         \A p \in Syncers :
           /\ touched'[p] \subseteq touched[p]
           /\ pc'[p] = "apply" => pc[p] = "apply" /\ existing'[p] = existing[p]
           /\ pc'[p] \in {"notify", "stamp"} =>
                pc[p] = pc'[p] /\ updated'[p] = updated[p] /\ mailing'[p] = mailing[p]
  PROVE  MailInv'
<1>1. MailedOnce'
  BY DEF MailInv, MailedOnce
<1>2. MailsOK'
  BY DEF MailInv, MailsOK, IsActive, Active
<1>3. ASSUME NEW p \in Syncers, pc'[p] = "apply"  PROVE StampsRead(p)'
  <2>1. StampsRead(p) /\ existing'[p] = existing[p]
    BY <1>3 DEF MailInv
  <2> QED
    BY <2>1 DEF StampsRead, IsActive, Active
<1>4. ASSUME NEW p \in Syncers, pc'[p] \in {"notify", "stamp"}  PROVE DueOK(p)'
  <2>1. DueOK(p) /\ updated'[p] = updated[p] /\ touched'[p] \subseteq touched[p]
        /\ touched[p] \subseteq Ids
    BY <1>4 DEF MailInv, IInv, TypeOK
  <2>2. \A i \in Ids : IsActive(rows'[i]) => IsActive(rows[i])
    BY DEF IsActive, Active
  <2> QED
    BY <2>1, <2>2 DEF DueOK
<1>5. ASSUME NEW p \in Syncers  PROVE HandledOK(p)'
  <2>1. HandledOK(p)
    BY DEF MailInv
  <2> QED
    BY <2>1 DEF HandledOK
<1> QED
  BY <1>1, <1>3, <1>2, <1>4, <1>5 DEF MailInv

\* Who holds the mutex is the only one inside.
LEMMA Inside ==
  ASSUME IInv, NEW p \in Syncers, pc[p] \in {"apply", "notify", "stamp"}
  PROVE  /\ \A q \in Syncers \ {p} : pc[q] \in {"idle", "built"}
         /\ pc[p] # "stamp" => \A i \in Ids : ~Stamping(i)
<1>1. ASSUME NEW q \in Syncers \ {p}  PROVE pc[q] \in {"idle", "built"}
  <2>1. pc[q] \notin {"apply", "notify", "stamp"}
    BY OneWriter
  <2> QED
    BY <2>1 DEF IInv, TypeOK
<1> QED
  BY <1>1 DEF Stamping

LEMMA BuildMails == ASSUME IInv, MailInv, NEW p \in Syncers, Build(p) PROVE MailInv'
<1>1. /\ UNCHANGED <<rows, nextId, mails, lost, touched, existing, updated, mailing>>
      /\ pc[p] = "idle" /\ pc' = [pc EXCEPT ![p] = "built"]
  BY DEF Build, tableVars, mailVars, Goto
<1>2. \A q \in Syncers : pc'[q] = pc[q] \/ (q = p /\ pc'[q] = "built")
  BY <1>1 DEF IInv, TypeOK
<1>3. \A i \in Ids : Stamping(i) => Stamping(i)'
  BY <1>1, <1>2 DEF Stamping
<1> QED
  BY <1>1, <1>2, <1>3, NothingMailed

LEMMA LockAndReadMails ==
  ASSUME IInv, MailInv, NEW p \in Syncers, LockAndRead(p) PROVE MailInv'
<1>1. /\ UNCHANGED <<rows, nextId, mails, lost, touched, updated, mailing>>
      /\ pc[p] = "built" /\ pc' = [pc EXCEPT ![p] = "apply"] /\ mutex = None
  BY DEF LockAndRead, tableVars, mailVars, Goto
<1>2. PICK S \in Readable(rows) : existing' = [existing EXCEPT ![p] = Read(rows, S)]
  BY DEF LockAndRead
<1>3. \A q \in Syncers : q # p => pc'[q] = pc[q] /\ pc[q] \in {"idle", "built"}
  BY <1>1, IncidentsAssumption DEF IInv, TypeOK, MutexHeld
<1>4. pc'[p] = "apply" /\ existing'[p] = Read(rows, S)
  BY <1>1, <1>2 DEF IInv, TypeOK
<1>5. \A i \in Ids : ~Stamping(i)
  BY <1>1, <1>3 DEF Stamping
<1>6. MailedOnce' /\ MailsOK'
  BY <1>1, <1>5 DEF MailInv, MailedOnce, MailsOK
<1>7. StampsRead(p)'
  <2>1. \A i \in Ids : existing'[p][i].status # "none" => existing'[p][i] = rows[i]
    BY <1>4 DEF Read, Absent
  <2>2. \A i \in Ids : IsActive(rows[i]) => existing'[p][i] = rows[i]
    BY <1>4, ActiveNotHidden DEF Read, ActiveIds, IInv
  <2>4. \A i \in Ids : rows[i].status # "none" => i < nextId
    BY IncidentsAssumption DEF IInv, TableOK, TypeOK, Ids
  <2>3. \A i \in Ids : IsActive(rows[i]) => mails[i]["resolved"] = 0
    BY DEF MailInv, MailsOK
  <2> QED
    BY <1>1, <2>1, <2>2, <2>3, <2>4 DEF StampsRead, IsActive, Active
<1>8. ASSUME NEW q \in Syncers  PROVE HandledOK(q)'
  BY <1>1, <1>3, <1>4 DEF MailInv, HandledOK
<1> QED
  BY <1>3, <1>4, <1>6, <1>7, <1>8 DEF MailInv

\* A step of a writing synchroniser that writes one row.
LEMMA WritesOne ==
  ASSUME IInv, MailInv, TypeOK', NEW p \in Syncers, NEW i \in Ids, pc[p] = "apply",
         UNCHANGED <<mails, lost, existing, updated, mailing, pc>>,
         nextId <= nextId', i < nextId', \A j \in Ids : j < nextId' => j < nextId \/ j = i,
         touched' = [touched EXCEPT ![p] = @ \cup {i}],
         \A j \in Ids \ {i} : rows'[j] = rows[j],
         StampsRead(p)',
         rows'[i].status # "none" /\ ~rows'[i].notified => mails[i]["open"] <= lost[i],
         IsActive(rows'[i]) => mails[i]["resolved"] = 0
  PROVE  MailInv'
<1>1. \A q \in Syncers \ {p} : pc[q] \in {"idle", "built"}
  BY Inside
<1>2. \A j \in Ids : ~Stamping(j)
  BY Inside
<1>3. MailedOnce'
  BY DEF MailInv, MailedOnce
<1>5. nextId \in Nat /\ nextId' \in Nat /\ \A j \in Ids : j \in Nat
  BY IncidentsAssumption DEF IInv, TypeOK, Ids
<1>4. MailsOK'
  <2> SUFFICES ASSUME NEW j \in Ids
               PROVE  /\ (j < nextId' => rows'[j].status # "none" /\ ~rows'[j].notified)
                            => mails[j]["open"] <= lost[j]
                      /\ (j < nextId' => IsActive(rows'[j])) => mails[j]["resolved"] = 0
    BY DEF MailsOK
  <2>1. CASE j = i
    BY <2>1
  <2>2. CASE j # i
    <3>1. (j < nextId => j < nextId') /\ rows'[j] = rows[j]
      BY <1>5, <2>2
    <3> QED
      BY <1>2, <3>1 DEF MailInv, MailsOK
  <2> QED
    BY <2>1, <2>2
<1>6. ASSUME NEW q \in Syncers  PROVE HandledOK(q)'
  <2>1. HandledOK(q) /\ touched'[q] \subseteq touched[q] \cup {i} /\ touched[q] \subseteq Ids
        /\ pc'[q] # "stamp"
    BY <1>1 DEF MailInv, IInv, TypeOK
  <2>2. \A j \in touched[q] : j < nextId
    BY <2>1 DEF HandledOK
  <2> QED
    BY <1>5, <2>1, <2>2 DEF HandledOK
<1> QED
  BY <1>1, <1>3, <1>4, <1>6 DEF MailInv

LEMMA InsertMails ==
  ASSUME IInv, MailInv, TypeOK', NEW p \in Syncers, NEW f \in Fingerprints, InsertIncident(p, f)
  PROVE  MailInv'
<1> DEFINE n == nextId
<1>1. /\ pc[p] = "apply" /\ n \in Ids /\ nextId' = n + 1
      /\ UNCHANGED <<mails, lost, existing, updated, mailing, pc>>
      /\ touched' = [touched EXCEPT ![p] = @ \cup {n}]
  BY DEF InsertIncident, mailVars
<1>2. /\ rows'[n].fp = f /\ rows'[n].status = "open" /\ rows'[n].notified = FALSE
      /\ \A i \in Ids \ {n} : rows'[i] = rows[i]
  BY DEF InsertIncident, IInv, TypeOK
<1>3. n \in Nat /\ \A i \in Ids : i \in Nat
  BY IncidentsAssumption DEF IInv, TypeOK, Ids
<1>4. n <= nextId' /\ n < nextId' /\ (\A j \in Ids : j < nextId' => j < n \/ j = n)
  BY <1>1, <1>3
<1>5. mails[n]["open"] <= lost[n] /\ mails[n]["resolved"] = 0
  BY <1>1, <1>3, Inside DEF MailInv, MailsOK
<1>6. StampsRead(p) /\ IInv /\ ~(n < n)
  BY <1>1, <1>3 DEF MailInv
<1>7. existing[p][n].status = "none"
  BY <1>1, <1>6 DEF StampsRead
<1>8. StampsRead(p)'
  <2> SUFFICES ASSUME NEW j \in Ids
               PROVE  /\ existing[p][j].status # "none" => j < nextId'
                      /\ existing[p][j].status # "none" /\ rows'[j].status # "none"
                           => rows'[j].notified = existing[p][j].notified
                      /\ IsActive(rows'[j]) /\ ~IsActive(existing[p][j]) => ~rows'[j].notified
                      /\ existing[p][j].status = "dismissed" => rows'[j].status # "open"
                      /\ IsActive(existing[p][j]) => mails[j]["resolved"] = 0
    BY <1>1 DEF StampsRead
  <2>1. CASE j = n
    BY <1>2, <1>7, <2>1 DEF IsActive, Active
  <2>2. CASE j # n
    <3>1. rows'[j] = rows[j]
      BY <1>2, <2>2
    <3>2. j < n => j < nextId'
      BY <1>1, <1>3
    <3> QED
      BY <1>6, <3>1, <3>2 DEF StampsRead
  <2> QED
    BY <2>1, <2>2
<1> QED
  BY <1>1, <1>2, <1>4, <1>5, <1>8, WritesOne

LEMMA UpdateMails ==
  ASSUME IInv, MailInv, TypeOK', NEW p \in Syncers, NEW f \in Fingerprints, NEW i \in Ids,
         UpdateIncident(p, f, i)
  PROVE  MailInv'
<1>1. /\ pc[p] = "apply" /\ IsActive(existing[p][i])
      /\ UNCHANGED <<nextId, mails, lost, existing, updated, mailing, pc>>
      /\ touched' = [touched EXCEPT ![p] = @ \cup {i}]
      /\ rows' = [rows EXCEPT ![i] = WithStatus(@, existing[p][i].status)]
  BY DEF UpdateIncident, Candidates, mailVars
<1>2. rows[i] \in Row /\ existing[p][i].status \in Statuses /\ nextId \in Nat
  BY <1>1, IncidentsAssumption DEF IInv, TypeOK, Statuses, IsActive
<1>3. /\ rows'[i].status = IF rows[i].status = "none" THEN "none" ELSE existing[p][i].status
      /\ rows'[i].notified = rows[i].notified
      /\ \A j \in Ids \ {i} : rows'[j] = rows[j]
  BY <1>1, <1>2, WithStatusRow, StampKept DEF IInv, TypeOK
<1>4. StampsRead(p)
  BY <1>1 DEF MailInv
<1>5. i < nextId /\ mails[i]["resolved"] = 0 /\ existing[p][i].status # "none"
  BY <1>1, <1>4 DEF StampsRead, IsActive, Active
<1>6. rows[i].status # "none" /\ ~rows[i].notified => mails[i]["open"] <= lost[i]
  BY <1>1, Inside DEF MailInv, MailsOK
<1>7. StampsRead(p)'
  <2>1. UNCHANGED <<nextId, mails, existing>>
    BY <1>1
  <2>2. ASSUME NEW j \in Ids \ {i}
        PROVE  /\ existing[p][j].status # "none" => j < nextId
               /\ existing[p][j].status # "none" /\ rows'[j].status # "none"
                    => rows'[j].notified = existing[p][j].notified
               /\ IsActive(rows'[j]) /\ ~IsActive(existing[p][j]) => ~rows'[j].notified
               /\ existing[p][j].status = "dismissed" => rows'[j].status # "open"
               /\ IsActive(existing[p][j]) => mails[j]["resolved"] = 0
    BY <1>3, <1>4, <2>2 DEF StampsRead
  <2>3. rows'[i].status # "none" => rows'[i].notified = existing[p][i].notified
    BY <1>3, <1>4, <1>5 DEF StampsRead
  <2>4. existing[p][i].status = "dismissed" => rows'[i].status # "open"
    BY <1>3
  <2>5. \A j \in Ids \cup {i} :
          /\ existing[p][j].status # "none" => j < nextId
          /\ existing[p][j].status # "none" /\ rows'[j].status # "none"
               => rows'[j].notified = existing[p][j].notified
          /\ IsActive(rows'[j]) /\ ~IsActive(existing[p][j]) => ~rows'[j].notified
          /\ existing[p][j].status = "dismissed" => rows'[j].status # "open"
          /\ IsActive(existing[p][j]) => mails[j]["resolved"] = 0
    BY <1>1, <1>5, <2>2, <2>3, <2>4
  <2> QED BY <2>1, <2>5 DEF StampsRead
<1>8. rows'[i].status # "none" /\ ~rows'[i].notified => mails[i]["open"] <= lost[i]
  BY <1>3, <1>6
<1>9. nextId <= nextId' /\ i < nextId' /\ \A j \in Ids : j < nextId' => j < nextId \/ j = i
  BY <1>1, <1>2, <1>5
<1> QED
  BY <1>1, <1>3, <1>5, <1>7, <1>8, <1>9, WritesOne

LEMMA ResolveMails ==
  ASSUME IInv, MailInv, TypeOK', NEW p \in Syncers, NEW i \in Ids, ResolveIncident(p, i)
  PROVE  MailInv'
<1>1. /\ pc[p] = "apply" /\ IsActive(existing[p][i])
      /\ UNCHANGED <<nextId, mails, lost, existing, updated, mailing, pc>>
      /\ touched' = [touched EXCEPT ![p] = @ \cup {i}]
      /\ rows' = [rows EXCEPT ![i] = WithStatus(@, "resolved")]
  BY DEF ResolveIncident, Unseen, ActiveIds, mailVars
<1>2. rows[i] \in Row /\ nextId \in Nat
  BY IncidentsAssumption DEF IInv, TypeOK
<1>3. /\ rows'[i].status = IF rows[i].status = "none" THEN "none" ELSE "resolved"
      /\ rows'[i].notified = rows[i].notified
      /\ \A j \in Ids \ {i} : rows'[j] = rows[j]
  BY <1>1, <1>2, WithStatusRow, StampKept DEF IInv, TypeOK, Statuses
<1>4. StampsRead(p)
  BY <1>1 DEF MailInv
<1>5. i < nextId /\ mails[i]["resolved"] = 0
  BY <1>1, <1>4 DEF StampsRead, IsActive, Active
<1>6. rows[i].status # "none" /\ ~rows[i].notified => mails[i]["open"] <= lost[i]
  BY <1>1, Inside DEF MailInv, MailsOK
<1>7. StampsRead(p)'
  BY <1>1, <1>3, <1>4 DEF StampsRead, IsActive, Active
<1>8. rows'[i].status # "none" /\ ~rows'[i].notified => mails[i]["open"] <= lost[i]
  BY <1>3, <1>6
<1>9. nextId <= nextId' /\ i < nextId' /\ \A j \in Ids : j < nextId' => j < nextId \/ j = i
  BY <1>1, <1>2, <1>5
<1> QED
  BY <1>1, <1>3, <1>5, <1>7, <1>8, <1>9, WritesOne

\* What is due at the last read has not been announced before.
LEMMA RereadMails == ASSUME IInv, MailInv, NEW p \in Syncers, Reread(p) PROVE MailInv'
<1>1. /\ pc[p] = "apply" /\ pc' = [pc EXCEPT ![p] = "notify"]
      /\ UNCHANGED <<rows, nextId, mails, lost, existing, mailing>>
  BY DEF Reread, Goto, tableVars, mailVars
<1>2. PICK S \in Readable(rows) :
        /\ updated' = [updated EXCEPT ![p] = Read(rows, S)]
        /\ touched' = [touched EXCEPT ![p] = Due(p, Read(rows, S))]
  BY DEF Reread
<1>3. \A q \in Syncers : q # p => pc'[q] = pc[q] /\ pc[q] \in {"idle", "built"}
                                   /\ touched'[q] = touched[q]
  BY <1>1, <1>2, Inside DEF IInv, TypeOK
<1>4. /\ pc'[p] = "notify" /\ updated'[p] = Read(rows, S)
      /\ touched'[p] = Due(p, Read(rows, S)) /\ touched'[p] \subseteq touched[p]
  BY <1>1, <1>2 DEF IInv, TypeOK, Due
<1>5. \A i \in Ids : ~Stamping(i)
  BY <1>1, Inside
<1>6. MailedOnce' /\ MailsOK'
  BY <1>1, <1>5 DEF MailInv, MailedOnce, MailsOK
<1>7. ASSUME NEW i \in touched'[p]
      PROVE  /\ updated'[p][i].status \in {"open", "resolved"}
             /\ updated'[p][i].status = "open" => mails[i]["open"] <= lost[i]
             /\ updated'[p][i].status = "resolved" => mails[i]["resolved"] = 0 /\ ~IsActive(rows[i])
  <2> DEFINE before == existing[p][i]  now == Read(rows, S)[i]
  <2>1. i \in Ids /\ NeedsNotification(before, now)
    BY <1>4 DEF Due, IInv, TypeOK
  <2>2. now.status \in {"open", "resolved"} /\ now = rows[i]
    BY <2>1, IncidentsAssumption DEF NeedsNotification, Read, Absent
  <2>3. StampsRead(p) /\ before.status \in Statuses \cup {"none"}
    BY <1>1, <2>1 DEF MailInv, IInv, TypeOK, Row, Absent
  <2>4. CASE now.status = "open"
    <3>1. IsActive(rows[i])
      BY <2>2, <2>4 DEF IsActive, Active
    <3>2. ~rows[i].notified
      BY <2>1, <2>2, <2>3, <2>4, <3>1
      DEF NeedsNotification, StampsRead, Statuses, IsActive, Active
    <3>3. mails[i]["open"] <= lost[i]
      BY <1>5, <2>1, <2>2, <2>4, <3>2 DEF MailInv, MailsOK
    <3> QED
      BY <1>4, <2>4, <3>3
  <2>5. CASE now.status = "resolved"
    <3>1. IsActive(before)
      BY <2>1, <2>3, <2>5 DEF NeedsNotification, Statuses, IsActive
    <3>2. mails[i]["resolved"] = 0
      BY <2>1, <2>3, <3>1 DEF StampsRead
    <3> QED
      BY <1>4, <2>2, <2>5, <3>2 DEF IsActive, Active
  <2> QED
    BY <2>2, <2>4, <2>5
<1>8. DueOK(p)'
  BY <1>1, <1>7 DEF DueOK
<1>9. ASSUME NEW q \in Syncers  PROVE HandledOK(q)'
  BY <1>1, <1>3, <1>4 DEF MailInv, HandledOK
<1> QED
  BY <1>3, <1>4, <1>6, <1>8, <1>9 DEF MailInv

LEMMA SendMails ==
  ASSUME IInv, MailInv, NEW p \in Syncers, NEW i \in Ids, SendMail(p, i) PROVE MailInv'
<1> DEFINE s == updated[p][i].status
<1>1. /\ pc[p] = "notify" /\ i \in touched[p] /\ pc' = [pc EXCEPT ![p] = "stamp"]
      /\ UNCHANGED <<rows, nextId, lost, existing, updated>>
      /\ mails' = [mails EXCEPT ![i] = Count(@, s)]
      /\ mailing' = [mailing EXCEPT ![p] = i]
      /\ touched' = [touched EXCEPT ![p] = @ \ {i}]
  BY DEF SendMail, Goto, tableVars
<1>2. \A q \in Syncers : q # p => pc'[q] = pc[q] /\ pc[q] \in {"idle", "built"}
                                 /\ touched'[q] = touched[q]
  BY <1>1, Inside DEF IInv, TypeOK
<1>3. pc'[p] = "stamp" /\ mailing'[p] = i /\ touched'[p] = touched[p] \ {i}
  BY <1>1 DEF IInv, TypeOK
<1>4. DueOK(p) /\ HandledOK(p) /\ MailedOnce /\ MailsOK
  BY <1>1 DEF MailInv
<1>5. /\ s \in {"open", "resolved"} /\ i < nextId
      /\ s = "open" => mails[i]["open"] <= lost[i]
      /\ s = "resolved" => mails[i]["resolved"] = 0 /\ ~IsActive(rows[i])
  BY <1>1, <1>4 DEF DueOK, HandledOK
<1>6. mails \in [Ids -> [{"open", "resolved"} -> Nat]] /\ lost \in [Ids -> Nat]
  BY DEF IInv, TypeOK
<1>7. mails'[i] = Count(mails[i], s) /\ \A j \in Ids \ {i} : mails'[j] = mails[j]
  BY <1>1, <1>6
<1>8. mails[i]["open"] \in Nat /\ mails[i]["resolved"] \in Nat /\ lost[i] \in Nat
  BY <1>6
<1>9. /\ s = "open" => mails'[i]["open"] = mails[i]["open"] + 1
                       /\ mails'[i]["resolved"] = mails[i]["resolved"]
      /\ s = "resolved" => mails'[i]["resolved"] = 1 /\ mails'[i]["open"] = mails[i]["open"]
  <2> HIDE DEF s
  <2>1. mails[i] \in [{"open", "resolved"} -> Nat]
    BY <1>6
  <2>2. CASE s = "open"
    BY <1>7, <2>1, <2>2 DEF Count
  <2>3. CASE s = "resolved"
    BY <1>5, <1>7, <2>1, <2>3 DEF Count
  <2> QED
    BY <1>5, <2>2, <2>3
<1>10. s = "open" => Stamping(i)'
  BY <1>1, <1>3 DEF Stamping
<1>11. \A j \in Ids : ~Stamping(j)
  BY <1>1, Inside
<1> HIDE DEF s
<1>12. MailedOnce'
  <2> SUFFICES ASSUME NEW j \in Ids
               PROVE  mails'[j]["open"] <= lost[j] + 1 /\ mails'[j]["resolved"] <= 1
    BY <1>1 DEF MailedOnce
  <2>1. CASE j # i
    BY <1>4, <1>7, <2>1 DEF MailedOnce
  <2>2. CASE j = i /\ s = "open"
    <3>1. mails[i]["resolved"] <= 1
      BY <1>4 DEF MailedOnce
    <3> QED
      BY <1>5, <1>8, <1>9, <2>2, <3>1
  <2>3. CASE j = i /\ s = "resolved"
    <3>1. mails[i]["open"] <= lost[i] + 1
      BY <1>4 DEF MailedOnce
    <3> QED
      BY <1>9, <2>3, <3>1
  <2> QED
    BY <1>5, <2>1, <2>2, <2>3
<1>13. MailsOK'
  <2> SUFFICES ASSUME NEW j \in Ids
               PROVE  /\ (j < nextId => rows[j].status # "none" /\ ~rows[j].notified)
                           /\ ~Stamping(j)' => mails'[j]["open"] <= lost[j]
                      /\ (j < nextId => IsActive(rows[j])) => mails'[j]["resolved"] = 0
    BY <1>1 DEF MailsOK
  <2>1. CASE j # i
    BY <1>4, <1>7, <1>11, <2>1 DEF MailsOK
  <2>2. CASE j = i /\ s = "open"
    BY <1>4, <1>9, <1>10, <2>2 DEF MailsOK
  <2>3. CASE j = i /\ s = "resolved"
    BY <1>4, <1>5, <1>9, <1>11, <2>3 DEF MailsOK
  <2> QED
    BY <1>5, <2>1, <2>2, <2>3
<1>14. DueOK(p)'
  <2>1. touched[p] \subseteq Ids
    BY DEF IInv, TypeOK
  <2> QED
    BY <1>1, <1>3, <1>4, <1>7, <2>1 DEF DueOK
<1>15. ASSUME NEW q \in Syncers  PROVE HandledOK(q)'
  <2>1. CASE q = p
    BY <1>1, <1>3, <1>4, <1>5, <2>1 DEF HandledOK
  <2>2. CASE q # p
    BY <1>1, <1>2, <2>2 DEF MailInv, HandledOK
  <2> QED
    BY <2>1, <2>2
<1> QED
  BY <1>2, <1>3, <1>12, <1>13, <1>14, <1>15 DEF MailInv

\* A stamp, written or lost, ends what SendMail began.
LEMMA StampMails == ASSUME IInv, MailInv, NEW p \in Syncers, Stamp(p) PROVE MailInv'
<1> DEFINE i == mailing[p]
<1>1. /\ pc[p] = "stamp" /\ pc' = [pc EXCEPT ![p] = "notify"]
      /\ UNCHANGED <<nextId, mails, lost, existing, updated, touched>>
      /\ rows' = [rows EXCEPT ![i] = WithStamp(@)]
  BY DEF Stamp, Goto, mailVars
<1>2. \A q \in Syncers : q # p => pc'[q] = pc[q] /\ pc[q] \in {"idle", "built"}
  BY <1>1, Inside DEF IInv, TypeOK
<1>3. pc'[p] = "notify" /\ DueOK(p) /\ HandledOK(p) /\ i \in Ids /\ i < nextId
  BY <1>1 DEF MailInv, HandledOK, IInv, TypeOK
<1>4. rows[i] \in Row
  BY <1>3 DEF IInv, TypeOK
<1>5. /\ rows'[i].status = rows[i].status /\ (rows[i].status # "none" => rows'[i].notified)
      /\ \A j \in Ids \ {i} : rows'[j] = rows[j]
  BY <1>1, <1>3, <1>4, WithStampRow, StampKept DEF IInv, TypeOK
<1>6. \A j \in Ids \ {i} : ~Stamping(j)
  BY <1>1, <1>2 DEF Stamping
<1> HIDE DEF i
<1>7. MailedOnce'
  BY <1>1 DEF MailInv, MailedOnce
<1>8. MailsOK'
  <2> SUFFICES ASSUME NEW j \in Ids
               PROVE  /\ (j < nextId => rows'[j].status # "none" /\ ~rows'[j].notified)
                            /\ ~Stamping(j)' => mails[j]["open"] <= lost[j]
                      /\ (j < nextId => IsActive(rows'[j])) => mails[j]["resolved"] = 0
    BY <1>1 DEF MailsOK
  <2>1. CASE j = i
    BY <1>3, <1>5, <2>1 DEF MailInv, MailsOK, IsActive
  <2>2. CASE j # i
    BY <1>5, <1>6, <2>2 DEF MailInv, MailsOK
  <2> QED
    BY <2>1, <2>2
<1>9. DueOK(p)'
  <2>1. touched[p] \subseteq Ids /\ \A j \in Ids : rows'[j].status = rows[j].status
    BY <1>5 DEF IInv, TypeOK
  <2> QED
    BY <1>1, <1>3, <2>1 DEF DueOK, IsActive
<1>10. ASSUME NEW q \in Syncers  PROVE HandledOK(q)'
  BY <1>1, <1>2, <1>3 DEF MailInv, HandledOK
<1> QED
  BY <1>2, <1>3, <1>7, <1>8, <1>9, <1>10 DEF MailInv

\* A stamp that is lost is counted, if it is one of an opening.
LEMMA LoseStampOK ==
  ASSUME IInv, MailInv, NEW p \in Syncers, LoseStamp(p), pc[p] \in {"apply", "notify", "stamp"},
         UNCHANGED <<rows, nextId, mails>>
  PROVE  /\ MailedOnce' /\ lost \in [Ids -> Nat] /\ \A j \in Ids : lost[j] <= lost'[j]
         /\ \A j \in Ids :
              /\ (j < nextId => rows[j].status # "none" /\ ~rows[j].notified)
                   => mails[j]["open"] <= lost'[j]
              /\ (j < nextId => IsActive(rows[j])) => mails[j]["resolved"] = 0
<1> DEFINE i == mailing[p]
           Open == pc[p] = "stamp" /\ updated[p][i].status = "open"
<1>1. lost \in [Ids -> Nat] /\ MailedOnce /\ MailsOK
  BY DEF IInv, TypeOK, MailInv
<1>2. lost' = IF Open THEN [lost EXCEPT ![i] = @ + 1] ELSE lost
  BY DEF LoseStamp, Count
<1>3. \A j \in Ids : Stamping(j) => Open /\ j = i
  BY Inside DEF Stamping
<1>4. \A j \in Ids : lost'[j] = IF Open /\ j = i THEN lost[j] + 1 ELSE lost[j]
  BY <1>1, <1>2
<1> HIDE DEF Open, i
<1>5. ASSUME NEW j \in Ids
      PROVE  /\ lost[j] \in Nat /\ lost[j] <= lost'[j] /\ mails[j]["open"] \in Nat
             /\ mails[j]["open"] <= lost[j] + 1
  <2>1. lost[j] \in Nat /\ mails[j] \in [{"open", "resolved"} -> Nat]
    BY DEF IInv, TypeOK
  <2>2. lost[j] <= lost'[j]
    BY <1>4, <2>1
  <2> QED
    BY <1>1, <2>1, <2>2 DEF MailedOnce
<1>6. ASSUME NEW j \in Ids  PROVE mails[j]["open"] <= lost'[j] + 1
  <2>1. lost'[j] \in Nat
    BY <1>1, <1>4
  <2> QED
    BY <1>5, <2>1
<1>7. MailedOnce'
  BY <1>1, <1>6 DEF MailedOnce
<1>8. ASSUME NEW j \in Ids, j < nextId => rows[j].status # "none" /\ ~rows[j].notified
      PROVE  mails[j]["open"] <= lost'[j]
  <2>1. CASE Open /\ j = i
    BY <1>4, <1>5, <2>1
  <2>2. CASE ~(Open /\ j = i)
    BY <1>1, <1>3, <1>4, <1>8, <2>2 DEF MailsOK
  <2> QED
    BY <2>1, <2>2
<1> QED
  BY <1>1, <1>5, <1>7, <1>8 DEF MailsOK

LEMMA StampFailsMails == ASSUME IInv, MailInv, NEW p \in Syncers, StampFails(p) PROVE MailInv'
<1>1. /\ pc[p] = "stamp" /\ pc' = [pc EXCEPT ![p] = "notify"] /\ LoseStamp(p)
      /\ UNCHANGED <<rows, nextId, mails, existing, updated, touched>>
  BY DEF StampFails, Goto, tableVars
<1>2. \A q \in Syncers : q # p => pc'[q] = pc[q] /\ pc[q] \in {"idle", "built"}
  BY <1>1, Inside DEF IInv, TypeOK
<1>3. pc'[p] = "notify" /\ DueOK(p) /\ touched[p] \subseteq Ids
  BY <1>1 DEF MailInv, IInv, TypeOK
<1>4. MailedOnce' /\ MailsOK'
  BY <1>1, LoseStampOK DEF MailsOK
<1>5. DueOK(p)'
  <2> SUFFICES ASSUME NEW i \in touched[p], updated[p][i].status = "open"
               PROVE  mails[i]["open"] <= lost'[i]
    BY <1>1, <1>3 DEF DueOK
  <2>1. mails[i]["open"] <= lost[i] /\ i \in Ids
    BY <1>3 DEF DueOK
  <2>2. mails[i]["open"] \in Nat /\ lost[i] \in Nat /\ lost'[i] \in Nat /\ lost[i] <= lost'[i]
    BY <1>1, <2>1, LoseStampOK, LoseStampType DEF IInv, TypeOK
  <2> QED
    BY <2>1, <2>2
<1>6. ASSUME NEW q \in Syncers  PROVE HandledOK(q)'
  BY <1>1, <1>2, <1>3 DEF MailInv, HandledOK
<1> QED
  BY <1>2, <1>3, <1>4, <1>5, <1>6 DEF MailInv

LEMMA CrashMails == ASSUME IInv, MailInv, Crash PROVE MailInv'
<1>1. UNCHANGED <<rows, nextId, mails>> /\ \A q \in Syncers : pc'[q] = "idle" /\ touched'[q] = {}
  BY DEF Crash, tableVars
<1>2. MailedOnce' /\ MailsOK'
  <2>1. CASE mutex = None
    <3>1. lost' = lost /\ \A i \in Ids : ~Stamping(i)
      BY <2>1, IncidentsAssumption DEF Crash, Stamping, IInv, MutexHeld
    <3> QED
      BY <1>1, <3>1 DEF MailInv, MailedOnce, MailsOK
  <2>2. CASE mutex # None
    <3>1. mutex \in Syncers /\ LoseStamp(mutex) /\ pc[mutex] \in {"apply", "notify", "stamp"}
      BY <2>2 DEF Crash, IInv, TypeOK, MutexHeld
    <3> QED
      BY <1>1, <3>1, LoseStampOK DEF MailsOK
  <2> QED
    BY <2>1, <2>2
<1> QED
  BY <1>1, <1>2 DEF MailInv, HandledOK

\* The steps that mail nothing.
LEMMA QuietMails ==
  ASSUME IInv, MailInv, [Next]_vars,
         \/ \E p \in Syncers : Unlock(p) \/ StatementFails(p)
         \/ \E p \in Syncers, i \in Ids : MailFails(p, i)
         \/ Admin
         \/ \E f \in Fingerprints : ToggleAlert(f)
         \/ MailServer
         \/ UNCHANGED vars
  PROVE  MailInv'
<1>1. ASSUME NEW p \in Syncers, Unlock(p) \/ StatementFails(p)  PROVE MailInv'
  <2>1. /\ UNCHANGED <<rows, nextId, mails, lost>> /\ pc[p] # "stamp"
        /\ pc' = [pc EXCEPT ![p] = "idle"] /\ Forget(p)
    BY <1>1 DEF Unlock, StatementFails, Goto, tableVars, mailVars
  <2>2. \A q \in Syncers : q # p => /\ pc'[q] = pc[q] /\ touched'[q] = touched[q]
                                    /\ existing'[q] = existing[q] /\ updated'[q] = updated[q]
                                    /\ mailing'[q] = mailing[q]
    BY <2>1 DEF Forget, IInv, TypeOK
  <2>3. pc'[p] = "idle" /\ touched'[p] = {}
    BY <2>1 DEF Forget, IInv, TypeOK
  <2>4. \A i \in Ids : Stamping(i) => Stamping(i)'
    BY <2>1, <2>2 DEF Stamping
  <2> QED
    BY <2>1, <2>2, <2>3, <2>4, NothingMailed
<1>2. ASSUME NEW p \in Syncers, NEW i \in Ids, MailFails(p, i)  PROVE MailInv'
  <2>1. UNCHANGED <<rows, nextId, mails, lost, pc, existing, updated, mailing>>
    BY <1>2 DEF MailFails, tableVars, mailVars
  <2>2. \A q \in Syncers : touched'[q] \subseteq touched[q]
    BY <1>2 DEF MailFails, IInv, TypeOK
  <2>3. \A j \in Ids : Stamping(j) => Stamping(j)'
    BY <2>1 DEF Stamping
  <2> QED
    BY <2>1, <2>2, <2>3, NothingMailed
<1>3. ASSUME NEW i \in Ids, DismissIncident(i) \/ DeleteIncident(i)  PROVE MailInv'
  <2>1. UNCHANGED <<nextId, mails, lost, pc, existing, updated, mailing, touched>>
    BY <1>3 DEF DismissIncident, DeleteIncident, localVars, mailVars
  <2>2. rows[i] \in Row /\ \A j \in Ids \ {i} : rows'[j] = rows[j]
    BY <1>3 DEF DismissIncident, DeleteIncident, IInv, TypeOK
  <2>3. \/ rows'[i].status = "none"
        \/ /\ rows[i].status = "open" /\ rows'[i].status = "dismissed"
           /\ rows'[i].notified = rows[i].notified
    <3>1. CASE DismissIncident(i)
      <4>1. rows[i].status = "open" /\ rows'[i] = WithStatus(rows[i], "dismissed")
        BY <3>1 DEF DismissIncident, IInv, TypeOK
      <4> QED
        BY <2>2, <4>1, WithStatusRow, StampKept DEF Statuses, Active
    <3>2. CASE DeleteIncident(i)
      BY <3>2 DEF DeleteIncident, Absent, IInv, TypeOK
    <3> QED
      BY <1>3, <3>1, <3>2
  <2>4. \A j \in Ids : Stamping(j) => Stamping(j)'
    BY <2>1 DEF Stamping
  <2> QED
    BY <2>1, <2>2, <2>3, <2>4, NothingMailed
<1>4. ASSUME \/ UNCHANGED vars \/ MailServer
             \/ \E f \in Fingerprints : ToggleAlert(f)
      PROVE  MailInv'
  <2>1. UNCHANGED <<rows, nextId, mails, lost, pc, existing, updated, mailing,
                    touched>>
    BY <1>4 DEF vars, ToggleAlert, MailServer, tableVars, localVars, mailVars
  <2>2. \A j \in Ids : Stamping(j) => Stamping(j)'
    BY <2>1 DEF Stamping
  <2> QED
    BY <2>1, <2>2, NothingMailed
<1> QED
  BY <1>1, <1>2, <1>3, <1>4 DEF Admin

LEMMA NextMailInv == IInv /\ MailInv /\ [Next]_vars => MailInv'
<1> SUFFICES ASSUME IInv, MailInv, [Next]_vars  PROVE MailInv'
  OBVIOUS
<1>1. TypeOK'
  BY NextTypeOK DEF IInv
<1>2. ASSUME NEW p \in Syncers, Build(p) \/ LockAndRead(p)  PROVE MailInv'
  BY <1>2, BuildMails, LockAndReadMails
<1>3. ASSUME NEW p \in Syncers, Continue(p)  PROVE MailInv'
  BY <1>1, <1>3, InsertMails, UpdateMails, ResolveMails, RereadMails, SendMails, StampMails,
     QuietMails DEF Continue
<1>4. CASE Fault
  BY <1>4, StampFailsMails, CrashMails, QuietMails DEF Fault
<1> QED
  BY <1>2, <1>3, <1>4, QuietMails DEF Next

\* syncIncidents mails the opening of an incident once, and again only for each
\* time the stamp that remembers it was lost; its resolution at most once, since
\* whoever resolves it still holds the mutex when it mails it.
THEOREM MailedOnceAlways == Spec => []MailedOnce
<1>1. MailInv => MailedOnce
  BY DEF MailInv
<1> QED
  BY <1>1, InitIInv, NextIInv, InitMailInv, NextMailInv, PTL DEF Spec
=============================================================================

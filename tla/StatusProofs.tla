---------------------------- MODULE StatusProofs -----------------------------
(***************************************************************************)
(* Proofs about the status monitor: for every number of keys, requests and *)
(* slots a key has one probe at a time, the limiter loses no slot, every   *)
(* entry is coherent, and each step of the monitor is a step of the board  *)
(* its callers see.                                                        *)
(***************************************************************************)
EXTENDS StatusMonitor, FiniteSetTheorems, TLAPS

-----------------------------------------------------------------------------
(* The inductive invariant *)

\* The clock has left the zero time.
Started == now >= 1

IInv ==
  /\ TypeOK
  /\ Started
  /\ SingleFlight
  /\ LimiterExact
  /\ BoardCoherent

-----------------------------------------------------------------------------
(* Entries and goroutines *)

LEMMA AskedEntry ==
  ASSUME NEW e \in Entry
  PROVE  /\ Asked(e) \in Entry
         /\ Asked(e).refreshing = TRUE
         /\ Asked(e).status = IF e.status = "unknown" THEN "Checking" ELSE e.status
         /\ Asked(e).checkedAt = e.checkedAt
         /\ Asked(e).since = e.since
BY DEF Asked, Entry

LEMMA AnsweredEntry ==
  ASSUME NEW e \in Entry, NEW result \in {"Online", "Offline"},
         now \in Times, Started
  PROVE  LET a == Answered(e, result) IN
         /\ a \in Entry
         /\ a.refreshing = FALSE
         /\ a.status = result
         /\ a.checkedAt = now
         /\ result = "Online" <=> a.since # 0
         /\ a.since \in {0, e.since, now}
         /\ e.status = "Online" /\ result = "Online" /\ e.since # 0
              => a.since = e.since
<1> DEFINE a == Answered(e, result)
<1>1. now \in Nat /\ now # 0
  BY DEF Times, Started
<1>2. CASE result = "Online"
  <2>1. /\ a.status = result /\ a.checkedAt = now /\ a.refreshing = FALSE
        /\ a.since = IF e.status = "Online" /\ e.since # 0 THEN e.since ELSE now
    BY <1>2 DEF Answered
  <2>2. a \in Entry
    BY <1>2 DEF Answered, Entry, Times
  <2> QED
    BY <1>1, <1>2, <2>1, <2>2
<1>3. CASE result = "Offline"
  <2>1. /\ a.status = result /\ a.checkedAt = now /\ a.refreshing = FALSE
        /\ a.since = 0
    BY <1>3 DEF Answered
  <2>2. a \in Entry
    BY <1>3, StatusAssumption DEF Answered, Entry, Times
  <2> QED
    BY <1>3, <2>1, <2>2
<1> QED
  BY <1>2, <1>3

\* A goroutine is one of its key.
LEMMA KeyOf == \A g \in Goroutines : g[1] \in Keys /\ g = <<g[1], g[2]>>
BY DEF Goroutines

LEMMA GoroutinesFinite == IsFiniteSet(Goroutines)
BY StatusAssumption, FS_Product DEF Goroutines

LEMMA HoldersFinite == IsFiniteSet(Holders) /\ Cardinality(Holders) \in Nat
<1>1. Holders \subseteq Goroutines
  BY DEF Holders
<1> QED
  BY <1>1, GoroutinesFinite, FS_Subset, FS_CardinalityType

\* A goroutine that moves without starting or ending keeps every key as alive
\* as it was.
LEMMA MoveAlive ==
  ASSUME NEW g \in Goroutines, NEW s, stage[g] # "gone", s # "gone",
         stage \in [Goroutines -> {"gone", "waiting", "probing", "publishing"}],
         stage' = [stage EXCEPT ![g] = s]
  PROVE  \A k \in Keys : Alive(k)' = Alive(k)
BY DEF Alive

-----------------------------------------------------------------------------
(* Scheduling *)

\* Starting a goroutine for a key that has none.
LEMMA SpawnStep ==
  ASSUME IInv, NEW k \in Keys, ~entries[k].refreshing, Spawn(k)
  PROVE  /\ entries' = [entries EXCEPT ![k] = Asked(@)]
         /\ entries' \in [Keys -> Entry]
         /\ stage' \in [Goroutines -> {"gone", "waiting", "probing", "publishing"}]
         /\ Holders' = Holders
         /\ \E g \in Goroutines : Alive(k)' = {g}
         /\ \A j \in Keys \ {k} : Alive(j)' = Alive(j)
<1> USE DEF IInv
<1>1. entries' = [entries EXCEPT ![k] = Asked(@)]
  BY DEF Spawn
<1>2. PICK n \in Copies : /\ stage[<<k, n>>] = "gone"
                          /\ stage' = [stage EXCEPT ![<<k, n>>] = "waiting"]
  BY DEF Spawn
<1> DEFINE g == <<k, n>>
<1>3. g \in Goroutines /\ g[1] = k
  BY DEF Goroutines
<1> HIDE DEF g
<1>4. /\ stage[g] = "gone"
      /\ stage' = [stage EXCEPT ![g] = "waiting"]
  BY <1>2 DEF g
<1>5. entries' \in [Keys -> Entry]
  BY <1>1, AskedEntry DEF TypeOK
<1>6. stage' \in [Goroutines -> {"gone", "waiting", "probing", "publishing"}]
  BY <1>4 DEF TypeOK
<1>7. Alive(k) = {}
  BY DEF SingleFlight
<1>8. Alive(k)' = {g}
  BY <1>3, <1>4, <1>7 DEF Alive, TypeOK
<1>9. \A j \in Keys \ {k} : Alive(j)' = Alive(j)
  BY <1>3, <1>4 DEF Alive, TypeOK
<1>10. Holders' = Holders
  BY <1>3, <1>4 DEF Holders, TypeOK
<1> QED
  BY <1>1, <1>3, <1>5, <1>6, <1>8, <1>9, <1>10

\* scheduleRefresh preserves everything, whoever calls it.
LEMMA ScheduleIInv ==
  ASSUME IInv, NEW k \in Keys, ScheduleRefresh(k),
         limiter' = limiter, now' = now,
         calls' \in [Requests -> Call], watched' \in SUBSET Keys,
         todo' \in SUBSET Keys, moves' \in Nat
  PROVE  IInv'
<1> USE DEF IInv
<1>1. CASE UNCHANGED <<entries, stage>>
  BY <1>1 DEF TypeOK, Started, SingleFlight, LimiterExact, BoardCoherent, Alive, Holders
<1>2. CASE ~entries[k].refreshing /\ Spawn(k)
  <2>1. TypeOK' /\ Started'
    BY <1>2, SpawnStep DEF TypeOK, Started
  <2>2. LimiterExact'
    BY <1>2, SpawnStep DEF LimiterExact
  <2>3. entries[k] \in Entry /\ entries'[k] = Asked(entries[k])
        /\ \A j \in Keys \ {k} : entries'[j] = entries[j]
    BY <1>2, SpawnStep DEF TypeOK
  <2>4. SingleFlight'
    <3>1. ASSUME NEW j \in Keys, j # k
          PROVE  /\ (entries[j].refreshing <=> Alive(j) # {})'
                 /\ \A g, h \in Alive(j)' : g = h
      BY <1>2, <2>3, <3>1, SpawnStep DEF SingleFlight
    <3>2. /\ (entries[k].refreshing <=> Alive(k) # {})'
          /\ \A g, h \in Alive(k)' : g = h
      <4>1. entries'[k].refreshing = TRUE
        BY <2>3, AskedEntry
      <4>2. \E g \in Goroutines : Alive(k)' = {g}
        BY <1>2, SpawnStep
      <4> QED
        BY <4>1, <4>2
    <3> QED
      BY <3>1, <3>2 DEF SingleFlight
  <2>5. BoardCoherent'
    <3>1. /\ entries'[k].status # "unknown"
          /\ entries'[k].refreshing
          /\ entries'[k].status
               = IF entries[k].status = "unknown" THEN "Checking" ELSE entries[k].status
          /\ entries'[k].checkedAt = entries[k].checkedAt
          /\ entries'[k].since = entries[k].since
      <4> DEFINE e == entries[k]
                 a == Asked(e)
      <4>1. e \in Entry /\ entries'[k] = a
        BY <2>3
      <4>2. /\ a.refreshing = TRUE
            /\ a.status = IF e.status = "unknown" THEN "Checking" ELSE e.status
            /\ a.checkedAt = e.checkedAt
            /\ a.since = e.since
        BY ONLY <4>1, AskedEntry
      <4>3. a.status # "unknown"
        BY ONLY <4>2
      <4> HIDE DEF a
      <4> QED
        BY <4>1, <4>2, <4>3
    <3> QED
      BY <2>3, <3>1 DEF BoardCoherent
  <2> QED
    BY <2>1, <2>2, <2>4, <2>5
<1> QED
  BY <1>1, <1>2 DEF ScheduleRefresh

-----------------------------------------------------------------------------
(* A probe *)

LEMMA AcquireIInv ==
  ASSUME IInv, NEW g \in Goroutines, Acquire(g)
  PROVE  IInv'
<1> USE DEF IInv
<1>1. /\ stage[g] = "waiting" /\ limiter < Slots /\ limiter' = limiter + 1
      /\ stage' = [stage EXCEPT ![g] = "probing"]
      /\ UNCHANGED <<entries, calls, watched, todo, now, moves>>
  BY DEF Acquire
<1>2. TypeOK' /\ Started'
  BY <1>1, StatusAssumption DEF TypeOK, Started
<1>3. \A k \in Keys : Alive(k)' = Alive(k)
  BY <1>1, MoveAlive DEF TypeOK
<1>4. SingleFlight' /\ BoardCoherent'
  BY <1>1, <1>3 DEF SingleFlight, BoardCoherent
<1>5. LimiterExact'
  <2>1. Holders' = Holders \cup {g} /\ g \notin Holders
    BY <1>1 DEF Holders, TypeOK
  <2> QED
    BY <1>1, <2>1, HoldersFinite, FS_AddElement DEF LimiterExact
<1> QED
  BY <1>2, <1>4, <1>5

LEMMA ReleaseIInv ==
  ASSUME IInv, NEW g \in Goroutines, Release(g)
  PROVE  IInv'
<1> USE DEF IInv
<1>1. /\ stage[g] = "probing" /\ limiter' = limiter - 1
      /\ stage' = [stage EXCEPT ![g] = "publishing"]
      /\ UNCHANGED <<entries, calls, watched, todo, now, moves>>
  BY DEF Release
<1>2. Holders' = Holders \ {g} /\ g \in Holders
  BY <1>1 DEF Holders, TypeOK
<1>3. /\ Cardinality(Holders') = Cardinality(Holders) - 1
      /\ IsFiniteSet(Holders')
  BY <1>2, HoldersFinite, FS_RemoveElement
<1>4. limiter' = Cardinality(Holders') /\ limiter' \in Nat
  BY <1>1, <1>3, FS_CardinalityType DEF LimiterExact
<1>5. TypeOK' /\ Started'
  <2>1. limiter' \in 0 .. Slots
    BY <1>1, <1>4, StatusAssumption DEF TypeOK
  <2> QED
    BY <1>1, <2>1 DEF TypeOK, Started
<1>6. \A k \in Keys : Alive(k)' = Alive(k)
  BY <1>1, MoveAlive DEF TypeOK
<1>7. SingleFlight' /\ BoardCoherent'
  BY <1>1, <1>6 DEF SingleFlight, BoardCoherent
<1> QED
  BY <1>4, <1>5, <1>7 DEF LimiterExact

\* A goroutine that publishes is the only one of its key, and the last.
LEMMA PublishStep ==
  ASSUME IInv, NEW g \in Goroutines, Publish(g)
  PROVE  /\ Alive(g[1]) = {g} /\ Alive(g[1])' = {}
         /\ \A j \in Keys \ {g[1]} : Alive(j)' = Alive(j) /\ entries'[j] = entries[j]
         /\ entries[g[1]] \in Entry
         /\ entries' \in [Keys -> Entry]
         /\ \E result \in {"Online", "Offline"} :
              entries'[g[1]] = Answered(entries[g[1]], result)
<1> USE DEF IInv
<1>1. /\ stage[g] = "publishing" /\ stage' = [stage EXCEPT ![g] = "gone"]
      /\ now' = now
  BY DEF Publish
<1>2. PICK result \in {"Online", "Offline"} :
        entries' = [entries EXCEPT ![g[1]] = Answered(@, result)]
  BY DEF Publish
<1> DEFINE k == g[1]
<1>3. k \in Keys
  BY KeyOf
<1>4. Alive(k) = {g}
  BY <1>1, <1>3 DEF Alive, SingleFlight, TypeOK
<1>5. Alive(k)' = {} /\ \A j \in Keys \ {k} : Alive(j)' = Alive(j)
  BY <1>1, <1>4 DEF Alive, TypeOK
<1>6. entries[k] \in Entry /\ entries'[k] = Answered(entries[k], result)
      /\ \A j \in Keys \ {k} : entries'[j] = entries[j]
  BY <1>2, <1>3 DEF TypeOK
<1>7. Answered(entries[k], result) \in Entry
  BY <1>6, AnsweredEntry DEF TypeOK
<1>8. entries' \in [Keys -> Entry]
  BY <1>2, <1>3, <1>7 DEF TypeOK
<1> QED
  BY <1>4, <1>5, <1>6, <1>8

LEMMA PublishIInv ==
  ASSUME IInv, NEW g \in Goroutines, Publish(g)
  PROVE  IInv'
<1> USE DEF IInv
<1>1. /\ stage[g] = "publishing" /\ stage' = [stage EXCEPT ![g] = "gone"]
      /\ UNCHANGED <<limiter, calls, watched, todo, now, moves>>
  BY DEF Publish
<1>2. TypeOK' /\ Started'
  BY <1>1, PublishStep DEF TypeOK, Started
<1>3. LimiterExact'
  <2>1. Holders' = Holders
    BY <1>1 DEF Holders, TypeOK
  <2> QED
    BY <1>1, <2>1 DEF LimiterExact
<1> DEFINE k == g[1]
<1>4. PICK result \in {"Online", "Offline"} :
        entries'[k] = Answered(entries[k], result)
  BY PublishStep
<1>5. /\ entries'[k].refreshing = FALSE
      /\ entries'[k].status = result
      /\ entries'[k].checkedAt = now
      /\ result = "Online" <=> entries'[k].since # 0
      /\ entries'[k].since \in {0, entries[k].since, now}
      /\ entries[k].since <= now
      /\ now \in Nat /\ now # 0
  <2>1. entries[k].since <= entries[k].checkedAt /\ entries[k].checkedAt <= now
    BY KeyOf DEF BoardCoherent
  <2>2. entries[k].since \in Nat /\ entries[k].checkedAt \in Nat /\ now \in Nat
    BY PublishStep DEF Entry, Times, TypeOK
  <2>3. entries[k] \in Entry /\ now \in Times /\ Started
    BY PublishStep DEF TypeOK
  <2> DEFINE a == Answered(entries[k], result)
  <2>4. /\ a.refreshing = FALSE /\ a.status = result /\ a.checkedAt = now
        /\ result = "Online" <=> a.since # 0
        /\ a.since \in {0, entries[k].since, now}
    BY <2>3, AnsweredEntry
  <2> HIDE DEF a
  <2>5. entries'[k] = a
    BY <1>4 DEF a
  <2> QED
    BY <2>1, <2>2, <2>4, <2>5 DEF Started
<1>6. SingleFlight'
  BY <1>5, PublishStep DEF SingleFlight
<1>7. BoardCoherent'
  <2>1. ASSUME NEW j \in Keys, j # k
        PROVE  entries'[j] = entries[j] /\ now' = now
    BY <1>1, <2>1, PublishStep
  <2>2. entries'[k].since <= entries'[k].checkedAt
    BY <1>5
  <2> QED
    BY <1>1, <1>5, <2>1, <2>2 DEF BoardCoherent
<1> QED
  BY <1>2, <1>3, <1>6, <1>7

-----------------------------------------------------------------------------
(* Requests, the loop, the surroundings *)

\* A step that leaves the board and the probes alone.
LEMMA QuietStep ==
  ASSUME IInv, UNCHANGED <<entries, limiter, stage>>, now' >= now, TypeOK'
  PROVE  IInv'
<1> USE DEF IInv
<1>1. Started'
  BY DEF Started, TypeOK, Times
<1>2. SingleFlight' /\ LimiterExact'
  BY DEF SingleFlight, LimiterExact, Alive, Holders
<1>3. BoardCoherent'
  <2>1. \A k \in Keys : entries[k].checkedAt \in Int /\ now \in Int /\ now' \in Int
    BY DEF TypeOK, Entry, Times
  <2> QED
    BY <2>1 DEF BoardCoherent
<1> QED
  BY <1>1, <1>2, <1>3

LEMMA RequestIInv ==
  ASSUME IInv, NEW r \in Requests, Ask(r) \/ Look(r) \/ Schedule(r)
  PROVE  IInv'
<1>1. calls \in [Requests -> Call] /\ now \in Times /\ 0 \in Times
  BY StatusAssumption DEF IInv, TypeOK, Times
<1>2. Idle \in Call
  BY <1>1 DEF Idle, Call
<1>3. CASE Ask(r)
  <2>1. [pc |-> "look", at |-> now] \in Call
    BY <1>1 DEF Call
  <2>2. TypeOK'
    BY <1>3, <2>1 DEF Ask, IInv, TypeOK
  <2>3. UNCHANGED <<entries, limiter, stage>> /\ now' >= now
    BY <1>1, <1>3 DEF Ask, Times
  <2> QED
    BY <2>2, <2>3, QuietStep
<1>4. CASE Look(r)
  <2>1. [pc |-> "schedule", at |-> calls[r].at] \in Call
    BY <1>1 DEF Call
  <2>2. calls' \in [Requests -> Call]
    BY <1>1, <1>2, <1>4, <2>1 DEF Look
  <2>3. TypeOK'
    BY <1>4, <2>2 DEF Look, IInv, TypeOK
  <2>4. UNCHANGED <<entries, limiter, stage>> /\ now' >= now
    BY <1>1, <1>4 DEF Look, Times
  <2> QED
    BY <2>3, <2>4, QuietStep
<1>5. CASE Schedule(r)
  <2>1. r[2] \in Keys
    BY DEF Requests
  <2>2. calls' \in [Requests -> Call]
    BY <1>1, <1>2, <1>5 DEF Schedule
  <2> QED
    BY <1>5, <2>1, <2>2, ScheduleIInv DEF Schedule, IInv, TypeOK
<1> QED
  BY <1>3, <1>4, <1>5

LEMMA LoopIInv ==
  ASSUME IInv, RefreshAll \/ RefreshConfigured \/ (\E k \in Keys : RefreshNext(k))
  PROVE  IInv'
<1>1. ASSUME NEW k \in Keys, RefreshNext(k)  PROVE IInv'
  BY <1>1, ScheduleIInv DEF RefreshNext, IInv, TypeOK
<1>2. ASSUME RefreshAll \/ RefreshConfigured  PROVE IInv'
  <2>1. TypeOK'
    BY <1>2, StatusAssumption DEF RefreshAll, RefreshConfigured, Move, IInv, TypeOK
  <2>2. UNCHANGED <<entries, limiter, stage>> /\ now' >= now
    BY <1>2 DEF RefreshAll, RefreshConfigured, IInv, TypeOK, Times
  <2> QED
    BY <2>1, <2>2, QuietStep
<1> QED
  BY <1>1, <1>2

LEMMA SurroundingsIInv ==
  ASSUME IInv, Tick \/ (\E k \in Keys : ChangeServers(k)) \/ UNCHANGED vars
  PROVE  IInv'
<1>1. TypeOK'
  <2>1. CASE Tick
    BY <2>1, StatusAssumption DEF Tick, IInv, TypeOK, Times
  <2>2. CASE \E k \in Keys : ChangeServers(k)
    BY <2>2 DEF ChangeServers, Move, IInv, TypeOK
  <2>3. CASE UNCHANGED vars
    BY <2>3 DEF vars, IInv, TypeOK
  <2> QED
    BY <2>1, <2>2, <2>3
<1>2. UNCHANGED <<entries, limiter, stage>> /\ now' >= now
  BY DEF Tick, ChangeServers, vars, IInv, TypeOK, Times
<1> QED
  BY <1>1, <1>2, QuietStep

-----------------------------------------------------------------------------
(* The invariant *)

LEMMA InitIInv == Init => IInv
<1> SUFFICES ASSUME Init  PROVE IInv
  OBVIOUS
<1>1. TypeOK
  BY StatusAssumption DEF Init, TypeOK, Unknown, Idle, Entry, Call, Times
<1>2. Started
  BY StatusAssumption DEF Init, Started
<1>3. SingleFlight
  BY DEF Init, SingleFlight, Alive, Unknown
<1>4. LimiterExact
  <2>1. Holders = {}
    BY DEF Init, Holders
  <2> QED
    BY <2>1, FS_EmptySet DEF Init, LimiterExact
<1>5. BoardCoherent
  BY StatusAssumption DEF Init, BoardCoherent, Unknown
<1> QED
  BY <1>1, <1>2, <1>3, <1>4, <1>5 DEF IInv

LEMMA NextIInv == IInv /\ [Next]_vars => IInv'
BY RequestIInv, LoopIInv, SurroundingsIInv, AcquireIInv, ReleaseIInv, PublishIInv
DEF Next

\* scheduleRefresh: however many requests find a key stale together, at most one
\* goroutine probes it; the probes running are those the limiter has counted, at
\* most statusProbeParallel; and every entry is coherent between two critical
\* sections, for every number of keys, requests and slots.
THEOREM MonitorSafe ==
  Spec => [](TypeOK /\ SingleFlight /\ LimiterExact /\ BoardCoherent)
<1>1. IInv => TypeOK /\ SingleFlight /\ LimiterExact /\ BoardCoherent
  BY DEF IInv
<1> QED
  BY <1>1, InitIInv, NextIInv, PTL DEF Spec

-----------------------------------------------------------------------------
(* Steps *)

\* scheduleRefresh keeps what a key has answered last.
LEMMA ScheduleKeeps ==
  ASSUME IInv, NEW k \in Keys, ScheduleRefresh(k), NEW j \in Keys
  PROVE  /\ entries'[j].checkedAt = entries[j].checkedAt
         /\ entries'[j].since = entries[j].since
<1>1. CASE UNCHANGED <<entries, stage>>
  BY <1>1
<1>2. CASE ~entries[k].refreshing /\ Spawn(k)
  <2>1. entries' = [entries EXCEPT ![k] = Asked(@)] /\ entries \in [Keys -> Entry]
    BY <1>2, SpawnStep DEF IInv, TypeOK
  <2> QED
    BY <2>1, AskedEntry
<1> QED
  BY <1>1, <1>2 DEF ScheduleRefresh

\* A step schedules a key, publishes an answer, or leaves the entries alone.
LEMMA StepKinds ==
  ASSUME [Next]_vars
  PROVE  \/ UNCHANGED entries
         \/ \E k \in Keys : ScheduleRefresh(k)
         \/ \E g \in Goroutines : Publish(g)
<1>1. ASSUME NEW r \in Requests, Schedule(r)
      PROVE  \E k \in Keys : ScheduleRefresh(k)
  BY <1>1 DEF Schedule, Requests
<1> QED
  BY <1>1 DEF Next, Ask, Look, RefreshAll, RefreshConfigured, RefreshNext,
              Acquire, Release, Tick, ChangeServers, vars

\* What UptimeKept says of one step.
Kept ==
  \A k \in Keys :
    /\ entries'[k].checkedAt >= entries[k].checkedAt
    /\ entries[k].status = "Online" /\ entries'[k].status = "Online"
         => entries'[k].since = entries[k].since

LEMMA PublishKeeps ==
  ASSUME IInv, NEW g \in Goroutines, Publish(g)
  PROVE  Kept
<1> USE DEF IInv
<1> DEFINE k == g[1]
<1>1. \A j \in Keys : entries[j].checkedAt \in Int /\ entries[j].checkedAt <= now
  BY DEF TypeOK, Entry, Times, BoardCoherent
<1>2. PICK result \in {"Online", "Offline"} :
        entries'[k] = Answered(entries[k], result)
  BY PublishStep
<1>3. entries[k] \in Entry /\ k \in Keys
  BY KeyOf, PublishStep
<1>4. entries'[k].checkedAt = now /\ entries'[k].status = result
  BY <1>2 DEF Answered
<1>5. entries[k].status = "Online" /\ entries'[k].status = "Online"
        => entries'[k].since = entries[k].since
  <2>1. entries[k].status = "Online" => entries[k].since # 0
    BY <1>3 DEF BoardCoherent
  <2> QED
    BY <1>2, <1>4, <2>1 DEF Answered
<1>6. \A j \in Keys \ {k} : entries'[j] = entries[j]
  BY PublishStep
<1>7. now \in Int /\ now >= now
  BY DEF TypeOK, Times
<1>8. \A j \in Keys : entries'[j].checkedAt >= entries[j].checkedAt
  BY <1>1, <1>4, <1>6, <1>7
<1> QED
  BY <1>5, <1>6, <1>8 DEF Kept

LEMMA StepKeeps ==
  ASSUME IInv, [Next]_vars
  PROVE  Kept
<1>1. \A k \in Keys : entries[k].checkedAt \in Int
  BY DEF IInv, TypeOK, Entry, Times
<1>2. CASE UNCHANGED entries
  BY <1>1, <1>2 DEF Kept
<1>3. CASE \E k \in Keys : ScheduleRefresh(k)
  BY <1>1, <1>3, ScheduleKeeps DEF Kept
<1>4. CASE \E g \in Goroutines : Publish(g)
  BY <1>4, PublishKeeps
<1> QED
  BY <1>2, <1>3, <1>4, StepKinds

\* The publication in scheduleRefresh: no answer, in whatever order the probes
\* return, turns the time of a check back or restarts an uptime being observed.
THEOREM UptimeIsKept == Spec => UptimeKept
<1>1. IInv /\ [Next]_vars => [Kept]_vars
  BY StepKeeps
<1> QED
  BY <1>1, InitIInv, NextIInv, PTL DEF Spec, UptimeKept, Kept

-----------------------------------------------------------------------------
(* Refinement *)

\* The board as its callers see it.
shown   == [k \in Keys |-> entries[k].status]
probing == {k \in Keys : Alive(k) # {}}

LEMMA ScheduleBoard ==
  ASSUME IInv, NEW k \in Keys, ScheduleRefresh(k)
  PROVE  Board!Begin(k) \/ UNCHANGED <<shown, probing>>
<1>1. CASE UNCHANGED <<entries, stage>>
  BY <1>1 DEF shown, probing, Alive
<1>2. CASE ~entries[k].refreshing /\ Spawn(k)
  <2>1. Alive(k) = {}
    BY <1>2 DEF IInv, SingleFlight
  <2>2. probing' = probing \cup {k} /\ k \notin probing
    BY <1>2, <2>1, SpawnStep DEF probing
  <2>3. entries' = [entries EXCEPT ![k] = Asked(@)] /\ entries \in [Keys -> Entry]
    BY <1>2, SpawnStep DEF IInv, TypeOK
  <2>4. shown' = [shown EXCEPT ![k] = IF @ = "unknown" THEN "Checking" ELSE @]
    BY <2>3, AskedEntry DEF shown
  <2> QED
    BY <2>2, <2>4 DEF Board!Begin, shown, probing
<1> QED
  BY <1>1, <1>2 DEF ScheduleRefresh

LEMMA PublishBoard ==
  ASSUME IInv, NEW g \in Goroutines, Publish(g)
  PROVE  Board!Finish(g[1])
<1> DEFINE k == g[1]
<1>1. k \in Keys
  BY KeyOf
<1>2. probing' = probing \ {k} /\ k \in probing
  BY <1>1, PublishStep DEF probing
<1>3. PICK result \in {"Online", "Offline"} :
        entries'[k] = Answered(entries[k], result)
  BY PublishStep
<1>4. entries'[k].status = result
  BY <1>3 DEF Answered
<1>5. shown' = [shown EXCEPT ![k] = result]
  BY <1>1, <1>4, PublishStep DEF shown
<1> QED
  BY <1>2, <1>5 DEF Board!Finish, Board!Results, shown, probing

\* Every other step is invisible on the board.
LEMMA OtherBoard ==
  ASSUME IInv,
         \/ \E r \in Requests : Ask(r) \/ Look(r)
         \/ RefreshAll \/ RefreshConfigured \/ Tick \/ UNCHANGED vars
         \/ \E k \in Keys : ChangeServers(k)
         \/ \E g \in Goroutines : Acquire(g) \/ Release(g)
  PROVE  UNCHANGED <<shown, probing>>
<1>1. entries' = entries
  BY DEF Ask, Look, RefreshAll, RefreshConfigured, Tick, vars, ChangeServers,
         Acquire, Release
<1>2. \A k \in Keys : Alive(k)' = Alive(k)
  <2>1. ASSUME NEW g \in Goroutines, Acquire(g) \/ Release(g)
        PROVE  \A k \in Keys : Alive(k)' = Alive(k)
    <3>1. CASE Acquire(g)
      BY <3>1, MoveAlive DEF Acquire, IInv, TypeOK
    <3>2. CASE Release(g)
      BY <3>2, MoveAlive DEF Release, IInv, TypeOK
    <3> QED
      BY <2>1, <3>1, <3>2
  <2>2. ASSUME stage' = stage  PROVE \A k \in Keys : Alive(k)' = Alive(k)
    BY <2>2 DEF Alive
  <2> QED
    BY <2>1, <2>2 DEF Ask, Look, RefreshAll, RefreshConfigured, Tick, vars,
                      ChangeServers
<1> QED
  BY <1>1, <1>2 DEF shown, probing

\* StatusMonitor implements the safety part of StatusBoard: each of its steps
\* begins one probe of a key that has none, finishes the one a key has, or
\* changes nothing on the board.
THEOREM ImplementsBoardSafety == Spec => Board!BoardSpec
<1>1. Init => Board!BoardInit
  BY DEF Init, Board!BoardInit, Unknown, Alive
<1>2. ASSUME IInv, [Next]_vars  PROVE [Board!BoardNext]_(Board!boardVars)
  <2>1. ASSUME NEW k \in Keys, ScheduleRefresh(k)
        PROVE  Board!BoardNext \/ UNCHANGED <<shown, probing>>
    BY <1>2, <2>1, ScheduleBoard DEF Board!BoardNext
  <2>2. ASSUME NEW g \in Goroutines, Publish(g)  PROVE Board!BoardNext
    BY <1>2, <2>2, PublishBoard, KeyOf DEF Board!BoardNext
  <2>3. ASSUME NEW r \in Requests, Schedule(r)
        PROVE  Board!BoardNext \/ UNCHANGED <<shown, probing>>
    BY <2>1, <2>3 DEF Schedule, Requests
  <2>4. ASSUME NEW k \in Keys, RefreshNext(k)
        PROVE  Board!BoardNext \/ UNCHANGED <<shown, probing>>
    BY <2>1, <2>4 DEF RefreshNext
  <2>5. Board!BoardNext \/ UNCHANGED <<shown, probing>>
    BY <1>2, <2>2, <2>3, <2>4, OtherBoard DEF Next
  <2> QED
    BY <2>5 DEF Board!boardVars, shown, probing
<1> QED
  BY <1>1, <1>2, InitIInv, NextIInv, PTL DEF Spec, Board!BoardSpec

=============================================================================

---------------------------- MODULE StatusMonitor ----------------------------
(***************************************************************************)
(* The status monitor: a board of ping and DNS probe results kept in       *)
(* memory, the goroutines that probe, the requests that read the board and *)
(* the loop that refreshes it.                                             *)
(*   src/internal/services/status_monitor.go                               *)
(* A request reads the board under the read lock and schedules a refresh   *)
(* under the write lock, two steps; a probe waits for a slot of the        *)
(* limiter, runs without any lock, gives the slot back and only then takes *)
(* the lock to publish.  Each critical section is one step.                *)
(*                                                                         *)
(* The clock counts ticks; 0 is Go's zero time, before every other.        *)
(***************************************************************************)
EXTENDS Integers, FiniteSets

CONSTANTS
  Keys,        \* what can be probed ("ping:" + ip, "dns:" + addr)
  Configured,  \* the keys named by settings rather than by the servers table
  Callers,     \* the requests about one key that can be under way at once
  Copies,      \* the goroutines of one key this model tells apart
  Slots,       \* statusProbeParallel: the capacity of the limiter
  StaleAfter,  \* statusStaleAfter, in ticks
  MaxTime,     \* bound: the last tick
  MaxMoves     \* bound: servers added or deleted and queries failed

ASSUME StatusAssumption ==
  /\ IsFiniteSet(Keys) /\ IsFiniteSet(Copies) /\ Copies # {}
  /\ Copies \subseteq Nat
  /\ Configured \subseteq Keys
  /\ Slots \in Nat \ {0}
  /\ StaleAfter \in Nat /\ MaxTime \in Nat /\ MaxMoves \in Nat
  /\ MaxTime > StaleAfter

VARIABLES
  entries,  \* m.entries: key -> [status, checkedAt, since, refreshing]
  limiter,  \* the number of tokens in m.probeLimiter
  stage,    \* where each goroutine is that scheduleRefresh may start
  calls,    \* where each request is
  watched,  \* the configured probe targets and the addresses of the servers
  todo,     \* the keys refreshAll has still to schedule
  now,      \* the clock
  moves     \* servers added or deleted and queries failed so far

vars == <<entries, limiter, stage, calls, watched, todo, now, moves>>

-----------------------------------------------------------------------------
Times      == 0 .. MaxTime
Goroutines == Keys \X Copies
Requests   == Callers \X Keys

\* The zero value of statusEntry, which a missing key yields as well.
Unknown == [status |-> "unknown", checkedAt |-> 0, since |-> 0,
            refreshing |-> FALSE]
Idle    == [pc |-> "idle", at |-> 0]

Alive(k) == {g \in Goroutines : g[1] = k /\ stage[g] # "gone"}
Holders  == {g \in Goroutines : stage[g] = "probing"}
Stale(e, t) == t - e.checkedAt > StaleAfter

Init ==
  /\ entries = [k \in Keys |-> Unknown]
  /\ limiter = 0
  /\ stage = [g \in Goroutines |-> "gone"]
  /\ calls = [r \in Requests |-> Idle]
  /\ watched = Configured
  /\ todo = {}
  /\ now = StaleAfter + 1
  /\ moves = 0

Move == moves < MaxMoves /\ moves' = moves + 1

-----------------------------------------------------------------------------
(* Scheduling a refresh *)

Asked(e) ==
  [e EXCEPT !.refreshing = TRUE,
            !.status = IF @ = "unknown" THEN "Checking" ELSE @]

\* Variation: the entry is marked and the goroutine forgotten.
SpawnNothing(k) ==
  /\ entries' = [entries EXCEPT ![k] = Asked(@)]
  /\ UNCHANGED stage

\* The entry is marked and a goroutine started: goroutines have no names, so it
\* is the first of the key that does not run.
Spawn(k) ==
  /\ entries' = [entries EXCEPT ![k] = Asked(@)]
  /\ \E n \in Copies : /\ stage[<<k, n>>] = "gone"
                       /\ \A m \in Copies : m < n => stage[<<k, m>>] # "gone"
                       /\ stage' = [stage EXCEPT ![<<k, n>>] = "waiting"]

\* Variation: the flag of the entry is not looked at.
ScheduleAlways(k) == Spawn(k)

\* scheduleRefresh: nothing when the entry is refreshing already.
ScheduleRefresh(k) ==
  \/ entries[k].refreshing /\ UNCHANGED <<entries, stage>>
  \/ ~entries[k].refreshing /\ Spawn(k)

-----------------------------------------------------------------------------
(* Requests: GetPingStatus, GetPingObservedUptime, GetDNSStatus *)

\* getStatus takes the time before it takes the lock.
Ask(r) ==
  /\ calls[r].pc = "idle"
  /\ calls' = [calls EXCEPT ![r] = [pc |-> "look", at |-> now]]
  /\ UNCHANGED <<entries, limiter, stage, watched, todo, now, moves>>

\* It answers from what it finds, and schedules when there is nothing or when
\* what there is has aged.
Look(r) ==
  /\ calls[r].pc = "look"
  /\ LET e == entries[r[2]]
         refresh == e.status = "unknown" \/ Stale(e, calls[r].at)
     IN  calls' = [calls EXCEPT ![r] =
                     IF refresh THEN [pc |-> "schedule", at |-> @.at] ELSE Idle]
  /\ UNCHANGED <<entries, limiter, stage, watched, todo, now, moves>>

Schedule(r) ==
  /\ calls[r].pc = "schedule"
  /\ ScheduleRefresh(r[2])
  /\ calls' = [calls EXCEPT ![r] = Idle]
  /\ UNCHANGED <<limiter, watched, todo, now, moves>>

-----------------------------------------------------------------------------
(* The loop: refreshAll *)

RefreshAll ==
  /\ todo = {}
  /\ todo' = watched
  /\ UNCHANGED <<entries, limiter, stage, calls, watched, now, moves>>

\* loadServerIPs fails: only the configured targets are refreshed.
RefreshConfigured ==
  /\ Move
  /\ todo = {}
  /\ todo' = Configured
  /\ UNCHANGED <<entries, limiter, stage, calls, watched, now>>

RefreshNext(k) ==
  /\ k \in todo
  /\ ScheduleRefresh(k)
  /\ todo' = todo \ {k}
  /\ UNCHANGED <<limiter, calls, watched, now, moves>>

-----------------------------------------------------------------------------
(* A probe *)

Acquire(g) ==
  /\ stage[g] = "waiting"
  /\ limiter < Slots
  /\ limiter' = limiter + 1
  /\ stage' = [stage EXCEPT ![g] = "probing"]
  /\ UNCHANGED <<entries, calls, watched, todo, now, moves>>

\* Variation: the slot is given back on one path only.
ReleaseSometimes(g) ==
  /\ stage[g] = "probing"
  /\ limiter' \in {limiter, limiter - 1}
  /\ stage' = [stage EXCEPT ![g] = "publishing"]
  /\ UNCHANGED <<entries, calls, watched, todo, now, moves>>

\* The probe returns, within statusProbeTimeout, and gives its slot back.
Release(g) ==
  /\ stage[g] = "probing"
  /\ limiter' = limiter - 1
  /\ stage' = [stage EXCEPT ![g] = "publishing"]
  /\ UNCHANGED <<entries, calls, watched, todo, now, moves>>

\* Variation: every answer Online restarts the observed uptime.
AnsweredAnew(e, result) ==
  [status |-> result, checkedAt |-> now,
   since |-> IF result = "Online" THEN now ELSE 0, refreshing |-> FALSE]

\* The entry after an answer: since is the first of the answers Online in a row.
Answered(e, result) ==
  [status |-> result, checkedAt |-> now,
   since |-> IF result # "Online" THEN 0
             ELSE IF e.status = "Online" /\ e.since # 0 THEN e.since ELSE now,
   refreshing |-> FALSE]

Publish(g) ==
  /\ stage[g] = "publishing"
  /\ \E result \in {"Online", "Offline"} :
       entries' = [entries EXCEPT ![g[1]] = Answered(@, result)]
  /\ stage' = [stage EXCEPT ![g] = "gone"]
  /\ UNCHANGED <<limiter, calls, watched, todo, now, moves>>

-----------------------------------------------------------------------------
(* The surroundings *)

Tick ==
  /\ now < MaxTime
  /\ now' = now + 1
  /\ UNCHANGED <<entries, limiter, stage, calls, watched, todo, moves>>

\* A server is added or deleted: its row of the table, not its entry.
ChangeServers(k) ==
  /\ Move
  /\ k \notin Configured
  /\ watched' = IF k \in watched THEN watched \ {k} ELSE watched \cup {k}
  /\ UNCHANGED <<entries, limiter, stage, calls, todo, now>>

-----------------------------------------------------------------------------
Next ==
  \/ \E r \in Requests : Ask(r) \/ Look(r) \/ Schedule(r)
  \/ RefreshAll \/ RefreshConfigured
  \/ \E k \in Keys : RefreshNext(k) \/ ChangeServers(k)
  \/ \E g \in Goroutines : Acquire(g) \/ Release(g) \/ Publish(g)
  \/ Tick

\* The loop runs on its ticker; a request inside getStatus goes on; a probe ends
\* because of its timeout and its goroutine then gets the lock.  A goroutine
\* waiting to send into the limiter is queued, so it is served although others
\* come and go.  Requests need not come and time need not pass.
Fairness ==
  /\ WF_vars(RefreshAll \/ \E k \in Keys : RefreshNext(k))
  /\ \A r \in Requests : WF_vars(Look(r) \/ Schedule(r))
  /\ \A g \in Goroutines : SF_vars(Acquire(g)) /\ WF_vars(Release(g) \/ Publish(g))

Spec     == Init /\ [][Next]_vars
FairSpec == Spec /\ Fairness

-----------------------------------------------------------------------------
(* Properties *)

Entry == [status : {"unknown", "Checking", "Online", "Offline"},
          checkedAt : Times, since : Times, refreshing : BOOLEAN]
Call  == [pc : {"idle", "look", "schedule"}, at : Times]

TypeOK ==
  /\ entries \in [Keys -> Entry]
  /\ limiter \in 0 .. Slots
  /\ stage \in [Goroutines -> {"gone", "waiting", "probing", "publishing"}]
  /\ calls \in [Requests -> Call]
  /\ watched \in SUBSET Keys
  /\ todo \in SUBSET Keys
  /\ now \in Times
  /\ moves \in Nat

\* However many requests and rounds of the loop find a key stale at once, one
\* goroutine probes it, and the flag of the entry says so as long as it runs.
SingleFlight ==
  \A k \in Keys :
    /\ entries[k].refreshing <=> Alive(k) # {}
    /\ \A g, h \in Alive(k) : g = h

\* The limiter holds a token for each running probe and no other, so that at
\* most statusProbeParallel of them run and no slot is ever lost.
LimiterExact == limiter = Cardinality(Holders)

\* An entry is coherent whenever the lock is free: Checking only until the first
\* answer, which is on its way; an uptime only while Online, and never ahead of
\* the answer it was observed by.
BoardCoherent ==
  \A k \in Keys : LET e == entries[k] IN
    /\ e.status = "unknown" => e = Unknown
    /\ e.status = "Checking" => e.refreshing
    /\ e.status \in {"unknown", "Checking"} <=> e.checkedAt = 0
    /\ e.status = "Online" <=> e.since # 0
    /\ e.since <= e.checkedAt /\ e.checkedAt <= now

\* Answers may come in any order, but the board never goes back in time and an
\* uptime that is being observed is neither restarted nor lengthened.
UptimeKept ==
  [][\A k \in Keys :
       /\ entries'[k].checkedAt >= entries[k].checkedAt
       /\ entries[k].status = "Online" /\ entries'[k].status = "Online"
            => entries'[k].since = entries[k].since]_vars

\* A request that found its key stale causes it to be answered again: by the
\* goroutine it starts, or by the one it finds under way.
StaleGetsFresh ==
  \A r \in Requests, t \in Times :
    calls[r] = [pc |-> "schedule", at |-> t] ~> entries[r[2]].checkedAt >= t

\* A target that stays in the servers table or the settings is probed for ever,
\* however few slots the limiter has.
WatchedIsProbed ==
  \A k \in Keys :
    <>[](k \in watched)
      => []<>(\E g \in Goroutines : g[1] = k /\ stage[g] = "publishing")

\* The board a caller sees.
Board == INSTANCE StatusBoard
  WITH status <- [k \in Keys |-> entries[k].status],
       inflight <- {k \in Keys : Alive(k) # {}}

\* The monitor implements the board: one probe per key, begun and then answered.
ImplementsBoard == Board!BoardFairSpec
=============================================================================

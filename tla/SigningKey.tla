----------------------------- MODULE SigningKey ------------------------------
(***************************************************************************)
(* The DNSSEC signing key: the rows of app_settings that hold it and the   *)
(* switch that enables it, the copy the DNS server keeps, and those who    *)
(* make keys: a DNS query that finds none, and a save of the settings that *)
(* enables DNSSEC without one.                                             *)
(*   src/cmd/server/main.go (getOrCreateDNSSECKey)                         *)
(*   src/internal/services/settings_service.go (GetValue, SetMany,         *)
(*   prepareSettingsValuesForSave)                                         *)
(* A query holds the mutex of the copy from its read to its write; a save  *)
(* reads the settings, prepares its values and commits them in one         *)
(* transaction, and holds nothing in between.  A read that fails is taken  *)
(* for an empty setting.                                                   *)
(*                                                                         *)
(* Keys are numbered in the order they are made; 0 is the empty setting.   *)
(* Which answers are signed, and what a key says, is left out.             *)
(***************************************************************************)
EXTENDS Naturals

CONSTANTS
  Queries,   \* goroutines that answer DNS queries
  Saves,     \* requests that save the settings
  Nobody,    \* holder of a free mutex
  MaxMoves   \* bound: saves and failing statements in a behaviour

ASSUME SigningKeyAssumption ==
  /\ Queries \cap Saves = {} /\ Nobody \notin Queries
  /\ MaxMoves \in Nat

VARIABLES
  stored,     \* dns.dnssec_private_key_pem
  enabled,    \* dns.dnssec_enabled
  cache,      \* dnssecCache.material
  mutex,      \* dnssecCache.mu
  made,       \* how many keys there have been
  pc,         \* where each goroutine is
  seen,       \* the key it has read, or made
  form,       \* what a save was posted with
  signed,     \* the key a query has signed its last answer with
  held,       \* history: the keys stored while a query held the mutex
  overlapped, \* history: a save has been at work along with somebody else
  failed,     \* history: a statement has failed
  moves       \* what MaxMoves bounds, so far

settings == <<stored, enabled>>
vars == <<settings, cache, mutex, made, pc, seen, form, signed, held,
          overlapped, failed, moves>>

-----------------------------------------------------------------------------
Actors  == Queries \cup Saves
Busy(S) == {a \in S : pc[a] # "idle"}
Move    == moves < MaxMoves /\ moves' = moves + 1
Blank   == [key |-> 0, on |-> FALSE]
Goto(a, label) == pc' = [pc EXCEPT ![a] = label]

\* The queries that hold the mutex take note of what is stored by now.
Note == held' = [q \in Queries |-> IF mutex = q THEN held[q] \cup {stored'} ELSE held[q]]

Init ==
  /\ stored \in {0, 1} /\ made = 1
  /\ enabled \in BOOLEAN
  /\ cache = 0 /\ mutex = Nobody
  /\ pc = [a \in Actors |-> "idle"]
  /\ seen = [a \in Actors |-> 0]
  /\ form = [s \in Saves |-> Blank]
  /\ signed = [q \in Queries |-> 0]
  /\ held = [q \in Queries |-> {}]
  /\ overlapped = FALSE /\ failed = FALSE
  /\ moves = 0

-----------------------------------------------------------------------------
(* A query that is to be signed: getOrCreateDNSSECKey *)

Ask(q) ==
  /\ pc[q] = "idle" /\ enabled
  /\ Goto(q, "lock")
  /\ signed' = [signed EXCEPT ![q] = 0]
  /\ held' = [held EXCEPT ![q] = {}]
  /\ overlapped' = (overlapped \/ Busy(Saves) # {})
  /\ UNCHANGED <<settings, cache, mutex, made, seen, form, failed, moves>>

\* DNSSEC is disabled, or GetValue has failed: the answer is not signed.
AnswerUnsigned(q) ==
  /\ pc[q] = "idle"
  /\ \/ ~enabled /\ UNCHANGED <<failed, moves>>
     \/ enabled /\ Move /\ failed' = TRUE
  /\ signed' = [signed EXCEPT ![q] = 0]
  /\ held' = [held EXCEPT ![q] = {}]
  /\ UNCHANGED <<settings, cache, mutex, made, pc, seen, form, overlapped>>

\* Variation: the mutex is not taken.
LockNothing(q) ==
  /\ pc[q] = "lock"
  /\ mutex' = q
  /\ held' = [held EXCEPT ![q] = {stored}]
  /\ Goto(q, "read")
  /\ UNCHANGED <<settings, cache, made, seen, form, signed, overlapped, failed, moves>>

Lock(q) ==
  /\ pc[q] = "lock" /\ mutex = Nobody
  /\ mutex' = q
  /\ held' = [held EXCEPT ![q] = {stored}]
  /\ Goto(q, "read")
  /\ UNCHANGED <<settings, cache, made, seen, form, signed, overlapped, failed, moves>>

Release(q) == mutex' = Nobody /\ Goto(q, "idle")

\* Variation: the copy is used as soon as there is one.
UseAnyCopy(q) ==
  /\ pc[q] = "read" /\ stored # 0
  /\ cache' = IF cache # 0 THEN cache ELSE stored
  /\ signed' = [signed EXCEPT ![q] = cache']
  /\ Release(q)
  /\ UNCHANGED <<settings, made, seen, form, held, overlapped, failed, moves>>

\* Variation: the copy is replaced, and the query begins again.
UseKeyAgain(q) ==
  /\ pc[q] = "read" /\ stored # 0
  /\ cache' = stored
  /\ mutex' = Nobody /\ Goto(q, "lock")
  /\ UNCHANGED <<settings, made, seen, form, signed, held, overlapped, failed, moves>>

\* There is a key: the copy is used if it is that key, and replaced if not.
UseKey(q) ==
  /\ pc[q] = "read" /\ stored # 0
  /\ cache' = stored
  /\ signed' = [signed EXCEPT ![q] = stored]
  /\ Release(q)
  /\ UNCHANGED <<settings, made, seen, form, held, overlapped, failed, moves>>

\* There is none, or GetValue has failed: one is made.
MakeKey(q) ==
  /\ pc[q] = "read"
  /\ \/ stored = 0 /\ UNCHANGED <<failed, moves>>
     \/ stored # 0 /\ Move /\ failed' = TRUE
  /\ made' = made + 1
  /\ seen' = [seen EXCEPT ![q] = made']
  /\ Goto(q, "store")
  /\ UNCHANGED <<settings, cache, mutex, form, signed, held, overlapped>>

\* SetMany stores it; if that fails the answer is not signed.
StoreKey(q) ==
  /\ pc[q] = "store"
  /\ \/ /\ stored' = seen[q] /\ cache' = seen[q]
        /\ signed' = [signed EXCEPT ![q] = seen[q]]
        /\ UNCHANGED <<failed, moves>>
     \/ /\ Move /\ failed' = TRUE
        /\ UNCHANGED <<stored, cache, signed>>
  /\ seen' = [seen EXCEPT ![q] = 0]
  /\ Release(q) /\ Note
  /\ UNCHANGED <<enabled, made, form, overlapped>>

-----------------------------------------------------------------------------
(* A save of the settings: SetMany *)

\* The form brings a key, the present one or another, or leaves the field empty.
\* GetAllWithDefaults reads the settings, and does without if that fails.
Save(s, on) ==
  /\ pc[s] = "idle" /\ Move
  /\ \E key \in 0 .. made + 1 :
       /\ form' = [form EXCEPT ![s] = [key |-> key, on |-> on]]
       /\ made' = IF key > made THEN key ELSE made
  /\ \/ seen' = [seen EXCEPT ![s] = stored] /\ UNCHANGED failed
     \/ seen' = [seen EXCEPT ![s] = 0] /\ stored # 0 /\ failed' = TRUE
  /\ Goto(s, "commit")
  /\ overlapped' = (overlapped \/ Busy(Actors) # {})
  /\ UNCHANGED <<settings, cache, mutex, signed, held>>

\* Variation: an empty field is written as it is.
PreparedAsPosted(s) ==
  IF form[s].key # 0 THEN {form[s].key}
  ELSE IF form[s].on THEN {made + 1}
  ELSE {0, stored}

\* Variation: a key is made only by the queries.
PreparedWithoutKey(s) ==
  IF form[s].key # 0 THEN {form[s].key}
  ELSE IF seen[s] # 0 THEN {stored}
  ELSE {0, stored}

\* prepareSettingsValuesForSave: what the commit may leave in the row.  An empty
\* field keeps the key there is; where there is none, enabling makes one, and
\* otherwise the empty field is written, if the form has it at all.
Prepared(s) ==
  IF form[s].key # 0 THEN {form[s].key}
  ELSE IF seen[s] # 0 THEN {stored}
  ELSE IF form[s].on THEN {made + 1}
  ELSE {0, stored}

Done(s) ==
  /\ Goto(s, "idle")
  /\ seen' = [seen EXCEPT ![s] = 0]
  /\ form' = [form EXCEPT ![s] = Blank]

Commit(s) ==
  /\ pc[s] = "commit"
  /\ stored' \in Prepared(s)
  /\ enabled' = form[s].on
  /\ made' = IF stored' > made THEN stored' ELSE made
  /\ Done(s) /\ Note
  /\ UNCHANGED <<cache, mutex, signed, overlapped, failed, moves>>

\* A statement of the transaction fails: it is rolled back.
Rollback(s) ==
  /\ pc[s] = "commit" /\ Move
  /\ failed' = TRUE
  /\ Done(s)
  /\ UNCHANGED <<settings, cache, mutex, made, signed, held, overlapped>>

-----------------------------------------------------------------------------
Answer(q) == Lock(q) \/ UseKey(q) \/ MakeKey(q) \/ StoreKey(q)

Next ==
  \/ \E q \in Queries : Ask(q) \/ Answer(q) \/ AnswerUnsigned(q)
  \/ \E s \in Saves : (\E on \in BOOLEAN : Save(s, on)) \/ Commit(s) \/ Rollback(s)

\* A query that has begun goes on, and the mutex is not withheld from it for ever.
Fairness == \A q \in Queries : SF_vars(Lock(q)) /\ WF_vars(Answer(q))

Spec     == Init /\ [][Next]_vars
FairSpec == Spec /\ Fairness

-----------------------------------------------------------------------------
(* Properties *)

TypeOK ==
  /\ made \in Nat
  /\ {stored, cache} \subseteq 0 .. made
  /\ enabled \in BOOLEAN
  /\ mutex \in Queries \cup {Nobody}
  /\ pc \in [Actors -> {"idle", "lock", "read", "store", "commit"}]
  /\ \A q \in Queries : pc[q] \in {"read", "store"} <=> mutex = q
  /\ seen \in [Actors -> 0 .. made]
  /\ form \in [Saves -> [key : 0 .. made, on : BOOLEAN]]
  /\ signed \in [Queries -> 0 .. made]
  /\ held \in [Queries -> SUBSET (0 .. made)]
  /\ overlapped \in BOOLEAN /\ failed \in BOOLEAN
  /\ moves \in 0 .. MaxMoves

Committed(s) == pc[s] = "commit" /\ pc'[s] = "idle"

\* A stored key gives way to another one, or to none, although no save was given
\* that one.
Rotated ==
  /\ stored # 0 /\ stored' # stored
  /\ \A s \in Saves : ~(Committed(s) /\ form[s].key = stored')

\* As long as no save overlaps with anything and nothing fails, the key is neither
\* erased nor silently rotated, by a save or by one of the queries, however many of
\* them find the setting empty at the same time; and a save that enables DNSSEC
\* leaves a key behind.
KeyKept ==
  [][~overlapped' /\ ~failed' =>
       /\ ~Rotated
       /\ \A s \in Saves : Committed(s) /\ form[s].on => stored' # 0]_vars

\* An answer is signed with a key that was stored while the query held the mutex,
\* not with a copy of one replaced before, whatever overlaps or fails.
SignedWithStored ==
  \A q \in Queries : pc[q] = "idle" /\ signed[q] # 0 => signed[q] \in held[q]

\* A query that waits for the key goes on, whatever fails.
QueryEnds ==
  \A q \in Queries : pc[q] = "lock" ~> pc[q] = "idle"
=============================================================================

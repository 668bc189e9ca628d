--------------------------- MODULE SigningKeyProofs ---------------------------
(***************************************************************************)
(* The signing key, proved for any number of queries and of saves: the     *)
(* types, that answers are signed with keys that were stored, and that the *)
(* key is kept as long as saves run alone and nothing fails.               *)
(***************************************************************************)
EXTENDS SigningKey, TLAPS

\* The parts of TypeOK: the keys there are, and who is where.
KeysOK ==
  /\ made \in Nat
  /\ stored \in 0 .. made /\ cache \in 0 .. made
  /\ seen \in [Actors -> 0 .. made]
  /\ form \in [Saves -> [key : 0 .. made, on : BOOLEAN]]
  /\ signed \in [Queries -> 0 .. made]
  /\ held \in [Queries -> SUBSET (0 .. made)]

PlacesOK ==
  /\ enabled \in BOOLEAN
  /\ mutex \in Queries \cup {Nobody}
  /\ pc \in [Actors -> {"idle", "lock", "read", "store", "commit"}]
  /\ \A q \in Queries : pc[q] \in {"read", "store"} <=> mutex = q
  /\ overlapped \in BOOLEAN /\ failed \in BOOLEAN
  /\ moves \in 0 .. MaxMoves

\* Queries do not save and saves do not query.
RolesOK ==
  /\ \A q \in Queries : pc[q] # "commit"
  /\ \A s \in Saves : pc[s] \in {"idle", "commit"}

\* Who holds the mutex knows of every key stored since, a query at work has
\* signed nothing yet, and one that has made a key holds a number a key has.
HeldNow == \A q \in Queries : mutex = q => stored \in held[q]
SeenOK  == \A q \in Queries : /\ pc[q] = "store" => seen[q] # 0
                              /\ pc[q] # "idle" => signed[q] = 0

\* As long as no save has overlapped with anything a save at work is alone, and
\* if nothing has failed it knows the key there is, and a query stores a key
\* only where there is none.
SavesAlone ==
  ~overlapped => \A s \in Saves : pc[s] # "idle" => \A a \in Actors \ {s} : pc[a] = "idle"
NothingStale ==
  ~overlapped /\ ~failed => /\ \A s \in Saves : pc[s] = "commit" => seen[s] = stored
                            /\ \A q \in Queries : pc[q] = "store" => stored = 0

IInv == /\ KeysOK /\ PlacesOK /\ RolesOK /\ HeldNow /\ SeenOK
        /\ SavesAlone /\ NothingStale /\ SignedWithStored

LEMMA Parts == (KeysOK /\ PlacesOK <=> TypeOK) /\ ((KeysOK /\ PlacesOK)' <=> TypeOK')
BY DEF TypeOK, KeysOK, PlacesOK

\* An actor that is not a query is a save, and none is both.
LEMMA Roles ==
  /\ \A q \in Queries : q \in Actors /\ q \notin Saves /\ q # Nobody
  /\ \A s \in Saves : s \in Actors /\ s \notin Queries
BY SigningKeyAssumption DEF Actors

LEMMA InitIInv == Init => IInv
<1> SUFFICES ASSUME Init PROVE IInv
  OBVIOUS
<1>1. KeysOK
  BY DEF Init, KeysOK, Blank
<1>2. PlacesOK
  <2>1. moves \in 0 .. MaxMoves
    BY SigningKeyAssumption DEF Init
  <2>2. \A q \in Queries : pc[q] \in {"read", "store"} <=> mutex = q
    BY Roles DEF Init
  <2>3. overlapped \in BOOLEAN /\ failed \in BOOLEAN /\ enabled \in BOOLEAN
    BY DEF Init
  <2>4. mutex \in Queries \cup {Nobody}
        /\ pc \in [Actors -> {"idle", "lock", "read", "store", "commit"}]
    BY DEF Init
  <2> QED BY <2>1, <2>2, <2>3, <2>4 DEF PlacesOK
<1>4. RolesOK
  BY Roles DEF Init, RolesOK
<1>3. HeldNow /\ SeenOK /\ SavesAlone /\ NothingStale /\ SignedWithStored
  BY Roles DEF Init, HeldNow, SeenOK, SavesAlone, NothingStale, SignedWithStored
<1> QED BY <1>1, <1>2, <1>3, <1>4 DEF IInv

\* A statement fails, or not; what has failed has failed.
LEMMA FailsOrNot ==
  ASSUME PlacesOK, UNCHANGED <<failed, moves>> \/ (Move /\ failed' = TRUE)
  PROVE  failed' \in BOOLEAN /\ (failed => failed') /\ moves' \in 0 .. MaxMoves
<1>1. CASE UNCHANGED <<failed, moves>>
  BY <1>1 DEF PlacesOK
<1>2. CASE Move /\ failed' = TRUE
  <2>1. moves \in 0 .. MaxMoves /\ moves < MaxMoves /\ moves' = moves + 1
    BY <1>2 DEF PlacesOK, Move
  <2>2. moves' \in 0 .. MaxMoves
    BY <2>1, SigningKeyAssumption
  <2> QED BY <1>2, <2>2
<1> QED BY <1>1, <1>2

-----------------------------------------------------------------------------
(* The queries.                                                            *)

LEMMA AskStep == ASSUME IInv, NEW q \in Queries, Ask(q) PROVE IInv'
<1>1. /\ pc[q] = "idle" /\ pc' = [pc EXCEPT ![q] = "lock"]
      /\ signed' = [signed EXCEPT ![q] = 0] /\ held' = [held EXCEPT ![q] = {}]
      /\ overlapped' = (overlapped \/ Busy(Saves) # {})
      /\ UNCHANGED <<stored, enabled, cache, mutex, made, seen, form, failed, moves>>
  BY DEF Ask, Goto, settings
<1>2. KeysOK'
  BY <1>1 DEF IInv, KeysOK
<1>3. PlacesOK' /\ RolesOK'
  BY <1>1, Roles DEF IInv, PlacesOK, RolesOK
<1>4. mutex # q
  BY <1>1 DEF IInv, PlacesOK
<1>5. HeldNow' /\ SignedWithStored'
  BY <1>1, <1>4, Roles DEF IInv, HeldNow, SignedWithStored, KeysOK, PlacesOK
<1>6. SeenOK'
  BY <1>1, Roles DEF IInv, SeenOK, PlacesOK, KeysOK
<1>7. SavesAlone'
  <2> SUFFICES ASSUME ~overlapped' PROVE SavesAlone'
    BY DEF SavesAlone
  <2>1. Busy(Saves) = {}
    BY <1>1
  <2>2. \A s \in Saves : pc[s] = "idle"
    BY <2>1 DEF Busy
  <2>3. \A s \in Saves : pc'[s] = "idle"
    BY <1>1, <2>2, Roles DEF IInv, PlacesOK
  <2> QED BY <2>3 DEF SavesAlone
<1>8. NothingStale'
  BY <1>1, Roles DEF IInv, NothingStale, PlacesOK
<1> QED BY <1>2, <1>3, <1>5, <1>6, <1>7, <1>8 DEF IInv

LEMMA AnswerUnsignedStep == ASSUME IInv, NEW q \in Queries, AnswerUnsigned(q) PROVE IInv'
<1>1. /\ pc[q] = "idle"
      /\ signed' = [signed EXCEPT ![q] = 0] /\ held' = [held EXCEPT ![q] = {}]
      /\ UNCHANGED <<stored, enabled, cache, mutex, made, pc, seen, form, overlapped>>
  BY DEF AnswerUnsigned, settings
<1>2. failed' \in BOOLEAN /\ (failed => failed') /\ moves' \in 0 .. MaxMoves
  BY FailsOrNot DEF AnswerUnsigned, IInv
<1>3. mutex # q
  BY <1>1 DEF IInv, PlacesOK
<1>4. KeysOK'
  BY <1>1 DEF IInv, KeysOK
<1>5. PlacesOK' /\ RolesOK'
  BY <1>1, <1>2 DEF IInv, PlacesOK, RolesOK
<1>6. HeldNow' /\ SignedWithStored'
  BY <1>1, <1>3 DEF IInv, HeldNow, SignedWithStored, KeysOK
<1>7. SeenOK' /\ SavesAlone' /\ NothingStale'
  BY <1>1, <1>2 DEF IInv, SeenOK, SavesAlone, NothingStale
<1> QED BY <1>4, <1>5, <1>6, <1>7 DEF IInv

LEMMA LockStep == ASSUME IInv, NEW q \in Queries, Lock(q) PROVE IInv'
<1>1. /\ pc[q] = "lock" /\ mutex = Nobody /\ mutex' = q
      /\ pc' = [pc EXCEPT ![q] = "read"] /\ held' = [held EXCEPT ![q] = {stored}]
      /\ UNCHANGED <<stored, enabled, cache, made, seen, form, signed, overlapped, failed, moves>>
  BY DEF Lock, Goto, settings
<1>2. KeysOK'
  BY <1>1 DEF IInv, KeysOK
<1>3. PlacesOK' /\ RolesOK'
  BY <1>1, Roles DEF IInv, PlacesOK, RolesOK
<1>4. HeldNow' /\ SignedWithStored'
  BY <1>1, Roles DEF IInv, HeldNow, SignedWithStored, KeysOK, PlacesOK
<1>5. SeenOK' /\ NothingStale'
  BY <1>1, Roles DEF IInv, SeenOK, NothingStale, PlacesOK
<1>6. SavesAlone'
  BY <1>1, Roles DEF IInv, SavesAlone, PlacesOK
<1> QED BY <1>2, <1>3, <1>4, <1>5, <1>6 DEF IInv

LEMMA UseKeyStep == ASSUME IInv, NEW q \in Queries, UseKey(q) PROVE IInv'
<1>1. /\ pc[q] = "read" /\ cache' = stored /\ signed' = [signed EXCEPT ![q] = stored]
      /\ mutex' = Nobody /\ pc' = [pc EXCEPT ![q] = "idle"]
      /\ UNCHANGED <<stored, enabled, made, seen, form, held, overlapped, failed, moves>>
  BY DEF UseKey, Release, Goto, settings
<1>2. mutex = q
  BY <1>1 DEF IInv, PlacesOK
<1>3. KeysOK'
  BY <1>1 DEF IInv, KeysOK
<1>4. PlacesOK' /\ RolesOK'
  BY <1>1, <1>2, Roles DEF IInv, PlacesOK, RolesOK
<1>5. HeldNow' /\ SignedWithStored'
  BY <1>1, <1>2, Roles DEF IInv, HeldNow, SignedWithStored, KeysOK, PlacesOK
<1>6. SeenOK' /\ NothingStale'
  BY <1>1, Roles DEF IInv, SeenOK, NothingStale, PlacesOK
<1>7. SavesAlone'
  BY <1>1, Roles DEF IInv, SavesAlone, PlacesOK
<1> QED BY <1>3, <1>4, <1>5, <1>6, <1>7 DEF IInv

LEMMA MakeKeyStep == ASSUME IInv, NEW q \in Queries, MakeKey(q) PROVE IInv'
<1>1. /\ pc[q] = "read" /\ made' = made + 1 /\ seen' = [seen EXCEPT ![q] = made']
      /\ pc' = [pc EXCEPT ![q] = "store"]
      /\ UNCHANGED <<stored, enabled, cache, mutex, form, signed, held, overlapped>>
  BY DEF MakeKey, Goto, settings
<1>2. /\ failed' \in BOOLEAN /\ (failed => failed') /\ moves' \in 0 .. MaxMoves
      /\ (~failed' => stored = 0)
  <2>1. ~failed' => stored = 0
    BY DEF MakeKey
  <2> QED BY <2>1, FailsOrNot DEF MakeKey, IInv
<1>3. mutex = q
  BY <1>1 DEF IInv, PlacesOK
<1>4. made \in Nat /\ made' \in Nat /\ made' # 0 /\ 0 .. made \subseteq 0 .. made'
  BY <1>1 DEF IInv, KeysOK
<1>5. KeysOK'
  <2>1. /\ stored' \in 0 .. made' /\ cache' \in 0 .. made'
        /\ signed' \in [Queries -> 0 .. made'] /\ held' \in [Queries -> SUBSET (0 .. made')]
    BY <1>1, <1>4 DEF IInv, KeysOK
  <2>2. form' \in [Saves -> [key : 0 .. made', on : BOOLEAN]]
    BY <1>1, <1>4 DEF IInv, KeysOK
  <2>3. seen' \in [Actors -> 0 .. made']
    <3>1. seen \in [Actors -> 0 .. made']
      BY <1>4 DEF IInv, KeysOK
    <3>2. made' \in 0 .. made'
      BY <1>4
    <3> QED BY <1>1, <3>1, <3>2
  <2> QED BY <1>4, <2>1, <2>2, <2>3 DEF KeysOK
<1>6. PlacesOK' /\ RolesOK'
  BY <1>1, <1>2, <1>3, Roles DEF IInv, PlacesOK, RolesOK
<1>7. HeldNow' /\ SignedWithStored'
  BY <1>1, Roles DEF IInv, HeldNow, SignedWithStored, PlacesOK
<1>8. SeenOK'
  BY <1>1, <1>4, Roles DEF IInv, SeenOK, KeysOK, PlacesOK
<1>9. SavesAlone'
  BY <1>1, Roles DEF IInv, SavesAlone, PlacesOK
<1>10. NothingStale'
  BY <1>1, <1>2, Roles DEF IInv, NothingStale, KeysOK, PlacesOK
<1> QED BY <1>5, <1>6, <1>7, <1>8, <1>9, <1>10 DEF IInv

LEMMA StoreKeyStep == ASSUME IInv, NEW q \in Queries, StoreKey(q) PROVE IInv'
<1>1. /\ pc[q] = "store" /\ seen' = [seen EXCEPT ![q] = 0]
      /\ mutex' = Nobody /\ pc' = [pc EXCEPT ![q] = "idle"]
      /\ held' = [p \in Queries |-> IF mutex = p THEN held[p] \cup {stored'} ELSE held[p]]
      /\ UNCHANGED <<enabled, made, form, overlapped>>
  BY DEF StoreKey, Release, Goto, Note
<1>2. mutex = q
  BY <1>1 DEF IInv, PlacesOK
<1>3. \/ stored' = seen[q] /\ cache' = seen[q] /\ signed' = [signed EXCEPT ![q] = seen[q]]
      \/ UNCHANGED <<stored, cache, signed>>
  BY DEF StoreKey
<1>4. failed' \in BOOLEAN /\ (failed => failed') /\ moves' \in 0 .. MaxMoves
  BY FailsOrNot DEF StoreKey, IInv
<1>5. KeysOK'
  <2>1. made \in Nat /\ seen[q] \in 0 .. made
    BY Roles DEF IInv, KeysOK
  <2>2. stored' \in 0 .. made' /\ cache' \in 0 .. made' /\ signed' \in [Queries -> 0 .. made']
    BY <1>1, <1>3, <2>1 DEF IInv, KeysOK
  <2>3. held' \in [Queries -> SUBSET (0 .. made')]
    BY <1>1, <2>2 DEF IInv, KeysOK
  <2>4. seen' \in [Actors -> 0 .. made']
    <3>1. 0 \in 0 .. made'
      BY <1>1, <2>1
    <3> QED BY <1>1, <3>1 DEF IInv, KeysOK
  <2>5. form' \in [Saves -> [key : 0 .. made', on : BOOLEAN]]
    BY <1>1 DEF IInv, KeysOK
  <2> QED BY <1>1, <2>1, <2>2, <2>3, <2>4, <2>5 DEF KeysOK
<1>6. PlacesOK' /\ RolesOK'
  BY <1>1, <1>2, <1>4, Roles DEF IInv, PlacesOK, RolesOK
<1>7. HeldNow' /\ SeenOK'
  <2>1. HeldNow'
    BY <1>1, Roles DEF HeldNow
  <2>2. \A p \in Queries \ {q} : /\ pc'[p] = pc[p] /\ seen'[p] = seen[p]
                                /\ signed'[p] = signed[p]
    BY <1>1, <1>3, Roles DEF IInv, PlacesOK, KeysOK
  <2>3. pc'[q] = "idle"
    BY <1>1, Roles DEF IInv, PlacesOK
  <2> QED BY <2>1, <2>2, <2>3 DEF IInv, SeenOK
<1>8. SignedWithStored'
  <2> SUFFICES ASSUME NEW p \in Queries, pc'[p] = "idle", signed'[p] # 0
               PROVE  signed'[p] \in held'[p]
    BY DEF SignedWithStored
  <2>1. CASE p = q
    <3>1. CASE stored' = seen[q] /\ signed' = [signed EXCEPT ![q] = seen[q]]
      BY <1>1, <1>2, <2>1, <3>1 DEF IInv, KeysOK
    <3>2. CASE UNCHANGED <<stored, signed>>
      BY <1>1, <2>1, <3>2 DEF IInv, SeenOK
    <3> QED BY <1>3, <3>1, <3>2
  <2>2. CASE p # q
    BY <1>1, <1>3, <2>2, Roles DEF IInv, SignedWithStored, PlacesOK, KeysOK
  <2> QED BY <2>1, <2>2
<1>9. SavesAlone'
  BY <1>1, Roles DEF IInv, SavesAlone, PlacesOK
<1>10. NothingStale'
  BY <1>1, <1>2, <1>4, Roles DEF IInv, NothingStale, SavesAlone, KeysOK, PlacesOK
<1> QED BY <1>5, <1>6, <1>7, <1>8, <1>9, <1>10 DEF IInv

-----------------------------------------------------------------------------
(* The saves.                                                              *)

\* Where a save is at work alone, nobody else is at work.
LEMMA BusyAlone == ASSUME NEW S, Busy(S) = {} PROVE \A a \in S : pc[a] = "idle"
BY DEF Busy

LEMMA SaveStep == ASSUME IInv, NEW s \in Saves, NEW on \in BOOLEAN, Save(s, on) PROVE IInv'
<1>1. /\ pc[s] = "idle" /\ Move /\ pc' = [pc EXCEPT ![s] = "commit"]
      /\ overlapped' = (overlapped \/ Busy(Actors) # {})
      /\ UNCHANGED <<stored, enabled, cache, mutex, signed, held>>
  BY DEF Save, Goto, settings
<1>2. PICK key \in 0 .. made + 1 :
        /\ form' = [form EXCEPT ![s] = [key |-> key, on |-> on]]
        /\ made' = IF key > made THEN key ELSE made
  BY DEF Save
<1>3. \/ seen' = [seen EXCEPT ![s] = stored] /\ UNCHANGED failed
      \/ seen' = [seen EXCEPT ![s] = 0] /\ failed' = TRUE
  BY DEF Save
<1>4. made \in Nat /\ made' \in Nat /\ 0 .. made \subseteq 0 .. made' /\ key \in 0 .. made'
  <2>1. made \in Nat
    BY DEF IInv, KeysOK
  <2> QED BY <1>2, <2>1
<1>5. KeysOK'
  <2>1. /\ stored' \in 0 .. made' /\ cache' \in 0 .. made'
        /\ signed' \in [Queries -> 0 .. made'] /\ held' \in [Queries -> SUBSET (0 .. made')]
    BY <1>1, <1>4 DEF IInv, KeysOK
  <2>2. form' \in [Saves -> [key : 0 .. made', on : BOOLEAN]]
    <3>1. form \in [Saves -> [key : 0 .. made', on : BOOLEAN]]
      BY <1>4 DEF IInv, KeysOK
    <3>2. [key |-> key, on |-> on] \in [key : 0 .. made', on : BOOLEAN]
      BY <1>4
    <3> QED BY <1>2, <3>1, <3>2
  <2>3. seen' \in [Actors -> 0 .. made']
    <3>1. seen \in [Actors -> 0 .. made'] /\ stored \in 0 .. made' /\ 0 \in 0 .. made'
      BY <1>4 DEF IInv, KeysOK
    <3> QED BY <1>3, <3>1
  <2> QED BY <1>4, <2>1, <2>2, <2>3 DEF KeysOK
<1>6. (UNCHANGED failed \/ failed' = TRUE) /\ failed' \in BOOLEAN /\ (failed => failed')
  BY <1>3 DEF IInv, PlacesOK
<1>7. PlacesOK' /\ RolesOK'
  <2>1. moves \in 0 .. MaxMoves /\ moves < MaxMoves /\ moves' = moves + 1
    BY <1>1 DEF IInv, PlacesOK, Move
  <2>2. moves' \in 0 .. MaxMoves
    BY <2>1, SigningKeyAssumption
  <2>3. overlapped' \in BOOLEAN
    BY <1>1 DEF IInv, PlacesOK
  <2> QED BY <1>1, <1>6, <2>2, <2>3, Roles DEF IInv, PlacesOK, RolesOK
<1>8. HeldNow' /\ SignedWithStored'
  BY <1>1, Roles DEF IInv, HeldNow, SignedWithStored, PlacesOK
<1>9. SeenOK'
  BY <1>1, <1>3, Roles DEF IInv, SeenOK, PlacesOK, KeysOK
<1>10. ~overlapped' => ~overlapped /\ \A a \in Actors : pc[a] = "idle"
  BY <1>1, BusyAlone
<1>11. SavesAlone'
  BY <1>1, <1>10, Roles DEF SavesAlone, IInv, PlacesOK
<1>12. NothingStale'
  <2> SUFFICES ASSUME ~overlapped', ~failed' PROVE NothingStale'
    BY DEF NothingStale
  <2>1. seen' = [seen EXCEPT ![s] = stored]
    BY <1>3
  <2>2. \A t \in Saves : pc'[t] = "commit" => t = s
    BY <1>1, <1>10, Roles DEF IInv, PlacesOK
  <2>3. \A q \in Queries : pc'[q] # "store"
    BY <1>1, <1>10, Roles DEF IInv, PlacesOK
  <2>4. seen'[s] = stored'
    BY <1>1, <2>1, Roles DEF IInv, KeysOK
  <2> QED BY <2>2, <2>3, <2>4 DEF NothingStale
<1> QED BY <1>5, <1>7, <1>8, <1>9, <1>11, <1>12 DEF IInv

LEMMA DoneOK ==
  ASSUME IInv, NEW s \in Saves, Done(s)
  PROVE  /\ seen' \in [Actors -> 0 .. made] /\ seen' = [seen EXCEPT ![s] = 0]
         /\ form' \in [Saves -> [key : 0 .. made, on : BOOLEAN]]
         /\ pc' = [pc EXCEPT ![s] = "idle"]
<1>1. made \in Nat /\ 0 \in 0 .. made
  BY DEF IInv, KeysOK
<1>2. Blank \in [key : 0 .. made, on : BOOLEAN]
  BY <1>1 DEF Blank
<1> QED BY <1>1, <1>2 DEF IInv, KeysOK, Done, Goto

\* What a commit may leave is a key there is or a new one; if the save knows the
\* key there is, it leaves that or the one it was given, and makes one only where
\* there is none.
LEMMA PreparedOK ==
  ASSUME IInv, NEW s \in Saves, NEW key \in Prepared(s)
  PROVE  /\ key \in 0 .. made + 1
         /\ seen[s] = stored => /\ stored # 0 /\ key # stored => key = form[s].key
                                /\ form[s].on => key # 0
<1>1. made \in Nat /\ stored \in 0 .. made /\ form[s] \in [key : 0 .. made, on : BOOLEAN]
  BY DEF IInv, KeysOK
<1> DEFINE k == form[s].key  b == form[s].on
<1>2. k \in 0 .. made /\ b \in BOOLEAN
  BY <1>1
<1>3. \/ k # 0 /\ key = k
      \/ k = 0 /\ seen[s] # 0 /\ key = stored
      \/ k = 0 /\ seen[s] = 0 /\ key = made + 1
      \/ k = 0 /\ seen[s] = 0 /\ ~b /\ key \in {0, stored}
  BY DEF Prepared
<1> HIDE DEF k, b
<1>4. key \in 0 .. made + 1
  BY <1>1, <1>2, <1>3
<1>5. seen[s] = stored /\ stored # 0 /\ key # stored => key = k
  BY <1>3
<1>6. seen[s] = stored /\ b => key # 0
  BY <1>1, <1>3
<1> QED BY <1>4, <1>5, <1>6 DEF k, b

LEMMA CommitStep == ASSUME IInv, NEW s \in Saves, Commit(s) PROVE IInv'
<1>1. /\ pc[s] = "commit" /\ stored' \in Prepared(s)
      /\ enabled' = form[s].on /\ made' = IF stored' > made THEN stored' ELSE made
      /\ Done(s)
      /\ held' = [q \in Queries |-> IF mutex = q THEN held[q] \cup {stored'} ELSE held[q]]
      /\ UNCHANGED <<cache, mutex, signed, overlapped, failed, moves>>
  BY DEF Commit, Note
<1>2. /\ seen' \in [Actors -> 0 .. made] /\ seen' = [seen EXCEPT ![s] = 0]
      /\ form' \in [Saves -> [key : 0 .. made, on : BOOLEAN]]
      /\ pc' = [pc EXCEPT ![s] = "idle"]
  BY <1>1, DoneOK
<1>3. made \in Nat /\ made' \in Nat /\ 0 .. made \subseteq 0 .. made' /\ stored' \in 0 .. made'
  <2>1. made \in Nat /\ stored' \in 0 .. made + 1
    BY <1>1, PreparedOK DEF IInv, KeysOK
  <2> QED BY <1>1, <2>1
<1>4. KeysOK'
  <2>1. cache' \in 0 .. made' /\ signed' \in [Queries -> 0 .. made']
    BY <1>1, <1>3 DEF IInv, KeysOK
  <2>2. held' \in [Queries -> SUBSET (0 .. made')]
    BY <1>1, <1>3 DEF IInv, KeysOK
  <2>3. seen' \in [Actors -> 0 .. made'] /\ form' \in [Saves -> [key : 0 .. made', on : BOOLEAN]]
    BY <1>2, <1>3
  <2> QED BY <1>3, <2>1, <2>2, <2>3 DEF KeysOK
<1>5. PlacesOK' /\ RolesOK'
  <2>1. enabled' \in BOOLEAN
    BY <1>1 DEF IInv, KeysOK
  <2> QED BY <1>1, <1>2, <2>1, Roles DEF IInv, PlacesOK, RolesOK
<1>6. HeldNow' /\ SignedWithStored'
  BY <1>1, <1>2, Roles DEF IInv, HeldNow, SignedWithStored, PlacesOK, KeysOK
<1>7. SeenOK'
  BY <1>1, <1>2, Roles DEF IInv, SeenOK, PlacesOK, KeysOK
<1>8. SavesAlone'
  BY <1>1, <1>2, Roles DEF IInv, SavesAlone, PlacesOK
<1>9. NothingStale'
  BY <1>1, <1>2, Roles DEF IInv, NothingStale, SavesAlone, PlacesOK
<1> QED BY <1>4, <1>5, <1>6, <1>7, <1>8, <1>9 DEF IInv

LEMMA RollbackStep == ASSUME IInv, NEW s \in Saves, Rollback(s) PROVE IInv'
<1>1. /\ pc[s] = "commit" /\ Move /\ failed' = TRUE /\ Done(s)
      /\ UNCHANGED <<stored, enabled, cache, mutex, made, signed, held, overlapped>>
  BY DEF Rollback, settings
<1>2. /\ seen' \in [Actors -> 0 .. made] /\ seen' = [seen EXCEPT ![s] = 0]
      /\ form' \in [Saves -> [key : 0 .. made, on : BOOLEAN]]
      /\ pc' = [pc EXCEPT ![s] = "idle"]
  BY <1>1, DoneOK
<1>3. failed' \in BOOLEAN /\ moves' \in 0 .. MaxMoves
  BY <1>1, FailsOrNot DEF IInv
<1>4. KeysOK'
  BY <1>1, <1>2 DEF IInv, KeysOK
<1>5. PlacesOK' /\ RolesOK'
  BY <1>1, <1>2, <1>3, Roles DEF IInv, PlacesOK, RolesOK
<1>6. HeldNow' /\ SignedWithStored' /\ SeenOK'
  BY <1>1, <1>2, Roles DEF IInv, HeldNow, SignedWithStored, SeenOK, PlacesOK, KeysOK
<1>7. SavesAlone' /\ NothingStale'
  BY <1>1, <1>2, Roles DEF IInv, SavesAlone, NothingStale, PlacesOK
<1> QED BY <1>4, <1>5, <1>6, <1>7 DEF IInv

-----------------------------------------------------------------------------
(* The theorems.                                                           *)

LEMMA NextIInv == IInv /\ [Next]_vars => IInv'
<1> SUFFICES ASSUME IInv, [Next]_vars PROVE IInv'
  OBVIOUS
<1>1. CASE \E q \in Queries : Ask(q) \/ Answer(q) \/ AnswerUnsigned(q)
  BY <1>1, AskStep, AnswerUnsignedStep, LockStep, UseKeyStep, MakeKeyStep, StoreKeyStep
     DEF Answer
<1>2. CASE \E s \in Saves : (\E on \in BOOLEAN : Save(s, on)) \/ Commit(s) \/ Rollback(s)
  BY <1>2, SaveStep, CommitStep, RollbackStep
<1>3. CASE UNCHANGED vars
  <2>1. KeysOK' /\ PlacesOK'
    BY <1>3 DEF IInv, KeysOK, PlacesOK, vars, settings
  <2>2. RolesOK' /\ HeldNow' /\ SeenOK' /\ SignedWithStored'
    BY <1>3 DEF IInv, RolesOK, HeldNow, SeenOK, SignedWithStored, vars, settings
  <2>3. SavesAlone' /\ NothingStale'
    BY <1>3 DEF IInv, SavesAlone, NothingStale, vars, settings
  <2> QED BY <2>1, <2>2, <2>3 DEF IInv
<1> QED BY <1>1, <1>2, <1>3 DEF Next

LEMMA Invariant == Spec => []IInv
BY InitIInv, NextIInv, PTL DEF Spec

\* The types, and that the mutex is with the query that reads or stores.
THEOREM TypeCorrect == Spec => []TypeOK
<1>1. IInv => TypeOK
  BY Parts DEF IInv
<1> QED BY <1>1, Invariant, PTL

\* Whatever overlaps or fails, an answer is signed with a key that was stored
\* while the query held the mutex of the copy (getOrCreateDNSSECKey).
THEOREM SignsWithStored == Spec => []SignedWithStored
<1>1. IInv => SignedWithStored
  BY DEF IInv
<1> QED BY <1>1, Invariant, PTL

\* A step after which no save has overlapped with anything and nothing has
\* failed keeps the key, but for a save that was given another one; and a save
\* that enables DNSSEC leaves one behind.
Keeps == /\ ~Rotated
         /\ \A s \in Saves : Committed(s) /\ form[s].on => stored' # 0

\* Only the commit of a save ends one without a failure.
LEMMA OthersKeep ==
  ASSUME IInv, stored # 0 => stored' = stored,
         \A s \in Saves : pc'[s] = pc[s] \/ pc'[s] # "idle"
  PROVE  Keeps
BY DEF Keeps, Rotated, Committed

LEMMA StepKeeps == ASSUME IInv, Next, ~overlapped', ~failed' PROVE Keeps
<1>1. ASSUME NEW q \in Queries, Ask(q) \/ Answer(q) \/ AnswerUnsigned(q) PROVE Keeps
  <2>1. \A s \in Saves : pc'[s] = pc[s]
    <3>1. \/ UNCHANGED pc
          \/ \E label : pc' = [pc EXCEPT ![q] = label]
      BY <1>1 DEF Ask, Answer, AnswerUnsigned, Lock, UseKey, MakeKey, StoreKey, Release, Goto
    <3> QED BY <3>1, Roles DEF IInv, PlacesOK
  <2>2. stored # 0 => stored' = stored
    <3>1. CASE StoreKey(q)
      <4>1. pc[q] = "store" /\ overlapped' = overlapped
        BY <3>1 DEF StoreKey
      <4>2. ~failed
        BY <3>1 DEF StoreKey
      <4> QED BY <4>1, <4>2 DEF IInv, NothingStale
    <3>2. CASE ~StoreKey(q)
      BY <1>1, <3>2 DEF Ask, Answer, AnswerUnsigned, Lock, UseKey, MakeKey, settings
    <3> QED BY <3>1, <3>2
  <2> QED BY <2>1, <2>2, OthersKeep
<1>2. ASSUME NEW s \in Saves, NEW on \in BOOLEAN, Save(s, on) PROVE Keeps
  <2>1. stored' = stored /\ pc' = [pc EXCEPT ![s] = "commit"]
    BY <1>2 DEF Save, Goto, settings
  <2> QED BY <2>1, Roles, OthersKeep DEF IInv, PlacesOK
<1>3. ASSUME NEW s \in Saves, Commit(s) PROVE Keeps
  <2>1. /\ pc[s] = "commit" /\ stored' \in Prepared(s) /\ pc' = [pc EXCEPT ![s] = "idle"]
        /\ overlapped' = overlapped /\ failed' = failed
    BY <1>3 DEF Commit, Done, Goto
  <2>2. seen[s] = stored
    BY <2>1 DEF IInv, NothingStale
  <2>3. /\ stored # 0 /\ stored' # stored => stored' = form[s].key
        /\ form[s].on => stored' # 0
    BY <2>1, <2>2, PreparedOK
  <2>4. Committed(s) /\ \A t \in Saves : Committed(t) => t = s
    BY <2>1, Roles DEF Committed, IInv, PlacesOK
  <2> QED BY <2>3, <2>4 DEF Keeps, Rotated
<1>4. ASSUME NEW s \in Saves PROVE ~Rollback(s)
  BY DEF Rollback
<1> QED BY <1>1, <1>2, <1>3, <1>4 DEF Next

\* The key is neither erased nor silently rotated while saves run alone and
\* nothing fails (prepareSettingsValuesForSave, getOrCreateDNSSECKey).
THEOREM KeepsItsKey == Spec => KeyKept
<1>1. IInv /\ [Next]_vars =>
        [~overlapped' /\ ~failed' =>
           /\ ~Rotated
           /\ \A s \in Saves : Committed(s) /\ form[s].on => stored' # 0]_vars
  BY StepKeeps DEF Keeps
<1> QED BY <1>1, Invariant, PTL DEF Spec, KeyKept
=============================================================================

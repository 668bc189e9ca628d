----------------------------- MODULE AccessProofs -----------------------------
(***************************************************************************)
(* Who may try again, and who is kept out, proved for any number of        *)
(* requests.                                                               *)
(*                                                                         *)
(* The login throttle: for any users, addresses, limits and durations the  *)
(* passwords compared between two waits or blocks are bounded.             *)
(*                                                                         *)
(* Fail2Ban: table and chain agree while goroutines take turns and nothing *)
(* fails, if no comment is part of another one; a ban in force is ended by *)
(* its time or by a request; no rule of others is deleted, whatever the    *)
(* comments find among the bans; and a ban whose rules no other comment    *)
(* finds has a rule while it is in force.                                  *)
(***************************************************************************)
EXTENDS LoginThrottle, Fail2Ban, FiniteSetTheorems, SequenceTheorems, WellFoundedInduction, TLAPS

-----------------------------------------------------------------------------
(* The inductive invariant *)

InFlight(k) == Cardinality(Comparing(k))
Together    == Cardinality(Attempts)

\* Once the wait is over, what has been compared since is still in flight.
BurstInv ==
  \A k \in Keys : /\ burst[k] <= Together
                  /\ nextTry[k] <= 0 => burst[k] <= InFlight(k)

\* A comparison is in flight or has become a failure.  A key at its limit has
\* failures to spare, but is blocked, or its block is over and the count is new.
GuessesInv ==
  \A k \in Keys :
    /\ failures[k] < Limit(k) => guesses[k] <= failures[k] + InFlight(k)
    /\ failures[k] = Limit(k) => /\ guesses[k] < Limit(k) + Together
                                 /\ blocked[k] <= 0 => guesses[k] <= InFlight(k)

LoginInv == LoginTypeOK /\ BurstInv /\ GuessesInv

-----------------------------------------------------------------------------
(* Constants, keys and the attempts in flight *)

LEMMA ConstantFacts ==
  /\ Never \in Int /\ Never <= 0 /\ -Never = MaxAge
  /\ Cooldown \in Nat /\ Block \in Nat /\ MaxAge \in Nat
  /\ MaxAge < Cooldown /\ Cooldown <= Block
  /\ IsFiniteSet(Attempts)
  /\ \A k \in Keys : Limit(k) \in Nat /\ Limit(k) >= 1
BY LoginThrottleAssumption DEF Never, Limit, Keys

LEMMA TogetherType == Together \in Nat
BY LoginThrottleAssumption, FS_CardinalityType DEF Together

LEMMA KeysOfType ==
  ASSUME LoginTypeOK, NEW a \in Attempts
  PROVE  KeysOf(a) \subseteq Keys
BY DEF KeysOf, Keys, LoginTypeOK

LEMMA InFlightType ==
  ASSUME NEW k
  PROVE  /\ IsFiniteSet(Comparing(k))
         /\ InFlight(k) \in Nat
         /\ InFlight(k) <= Together
<1>1. Comparing(k) \in SUBSET Attempts
  BY DEF Comparing
<1>2. IsFiniteSet(Attempts)
  BY LoginThrottleAssumption
<1>3. IsFiniteSet(Comparing(k)) /\ Cardinality(Comparing(k)) <= Cardinality(Attempts)
  BY <1>1, <1>2, FS_Subset
<1>4. Cardinality(Comparing(k)) \in Nat
  BY <1>3, FS_CardinalityType
<1> QED
  BY <1>3, <1>4 DEF InFlight, Together

LEMMA InFlightTypeNext ==
  ASSUME NEW k
  PROVE  InFlight(k)' \in Nat /\ InFlight(k)' <= Together
<1>1. Comparing(k)' \in SUBSET Attempts
  BY DEF Comparing
<1>2. IsFiniteSet(Attempts)
  BY LoginThrottleAssumption
<1>3. IsFiniteSet(Comparing(k)') /\ Cardinality(Comparing(k)') <= Cardinality(Attempts)
  BY <1>1, <1>2, FS_Subset
<1>4. Cardinality(Comparing(k)') \in Nat
  BY <1>3, FS_CardinalityType
<1> QED
  BY <1>3, <1>4 DEF InFlight, Together

\* An attempt that is not, and does not come to be, comparing changes no count.
LEMMA InFlightSame ==
  ASSUME LoginTypeOK, NEW a \in Attempts, NEW k,
         \A o \in Attempts \ {a} : at'[o] = at[o] /\ user'[o] = user[o] /\ ip'[o] = ip[o],
         at[a] # "compare", at'[a] # "compare"
  PROVE  InFlight(k)' = InFlight(k)
<1>1. Comparing(k)' = Comparing(k)
  BY DEF Comparing, KeysOf
<1> QED
  BY <1>1 DEF InFlight

LEMMA InFlightMore ==
  ASSUME LoginTypeOK, NEW a \in Attempts, NEW k, Admit(a)
  PROVE  InFlight(k)' = IF k \in KeysOf(a) THEN InFlight(k) + 1 ELSE InFlight(k)
<1>1. a \notin Comparing(k)
  BY DEF Comparing, Admit
<1>2. Comparing(k)' = IF k \in KeysOf(a) THEN Comparing(k) \cup {a} ELSE Comparing(k)
  BY DEF Comparing, KeysOf, Admit, LoginTypeOK
<1>3. IsFiniteSet(Comparing(k))
  BY InFlightType
<1>4. Cardinality(Comparing(k) \cup {a}) = Cardinality(Comparing(k)) + 1
  BY <1>1, <1>3, FS_AddElement
<1> QED
  BY <1>2, <1>4 DEF InFlight

LEMMA InFlightLess ==
  ASSUME LoginTypeOK, NEW a \in Attempts, NEW k, Leave(a)
  PROVE  /\ InFlight(k)' = Cardinality(Comparing(k) \ {a})
         /\ InFlight(k)' = IF at[a] = "compare" /\ k \in KeysOf(a)
                             THEN InFlight(k) - 1 ELSE InFlight(k)
<1>1. a \in Comparing(k) <=> at[a] = "compare" /\ k \in KeysOf(a)
  BY DEF Comparing
<1>2. Comparing(k)' = Comparing(k) \ {a}
  BY DEF Comparing, KeysOf, Leave, LoginTypeOK
<1>3. IsFiniteSet(Comparing(k))
  BY InFlightType
<1>4. Cardinality(Comparing(k) \ {a})
        = IF a \in Comparing(k) THEN Cardinality(Comparing(k)) - 1
                                ELSE Cardinality(Comparing(k))
  BY <1>3, FS_RemoveElement
<1> QED
  BY <1>1, <1>2, <1>4 DEF InFlight

-----------------------------------------------------------------------------
(* The two counts, where nothing but the attempts in flight has changed *)

LEMMA CountsSame ==
  ASSUME LoginInv, UNCHANGED <<limits, history>>,
         \A k \in Keys : InFlight(k)' = InFlight(k)
  PROVE  BurstInv' /\ GuessesInv'
<1>1. UNCHANGED <<failures, nextTry, blocked, guesses, burst>>
  BY DEF limits, history
<1>2. Together' = Together
  BY DEF Together
<1>3. \A k \in Keys : Limit(k)' = Limit(k)
  BY DEF Limit
<1> QED
  BY <1>1, <1>2, <1>3 DEF LoginInv, BurstInv, GuessesInv

-----------------------------------------------------------------------------
LEMMA InitInv == LoginInit => LoginInv
<1> SUFFICES ASSUME LoginInit PROVE LoginInv
  OBVIOUS
<1>1. LoginTypeOK
  BY ConstantFacts DEF LoginInit, LoginTypeOK
<1>2. \A k \in Keys : InFlight(k) >= 0 /\ Together >= 0
  BY InFlightType, TogetherType
<1>3. BurstInv
  BY <1>2, InFlightType, TogetherType DEF LoginInit, BurstInv
<1>4. GuessesInv
  BY <1>2, InFlightType, TogetherType, ConstantFacts DEF LoginInit, GuessesInv
<1> QED
  BY <1>1, <1>3, <1>4 DEF LoginInv

-----------------------------------------------------------------------------
(* The steps *)

LEMMA TypeStep == LoginTypeOK /\ [LoginNext]_loginVars => LoginTypeOK'
<1> SUFFICES ASSUME LoginTypeOK, [LoginNext]_loginVars PROVE LoginTypeOK'
  OBVIOUS
<1> USE ConstantFacts
<1>0. \A k : InFlight(k) \in Nat /\ Cardinality(Comparing(k)) \in Nat
  BY InFlightType DEF InFlight
<1>1. ASSUME NEW a \in Attempts, NEW u \in Users, NEW i \in IPs, Enter(a, u, i)
      PROVE  LoginTypeOK'
  BY <1>1 DEF Enter, limits, history, LoginTypeOK
<1>2. ASSUME NEW a \in Attempts, Refuse(a)
      PROVE  LoginTypeOK'
  BY <1>2 DEF Refuse, limits, history, LoginTypeOK
<1>3. ASSUME NEW a \in Attempts, Admit(a)
      PROVE  LoginTypeOK'
  BY <1>3 DEF Admit, limits, LoginTypeOK
<1>4. ASSUME NEW a \in Attempts, Fail(a)
      PROVE  LoginTypeOK'
  <2>1. failures' \in [Keys -> Nat] /\ \A k \in Keys : failures'[k] <= Limit(k)
    BY <1>4 DEF Fail, Count, LoginTypeOK
  <2>2. nextTry' \in [Keys -> Never .. Cooldown]
    BY <1>4 DEF Fail, LoginTypeOK
  <2>3. blocked' \in [Keys -> Never .. Block]
    BY <1>4 DEF Fail, LoginTypeOK
  <2> QED
    BY <1>4, <2>1, <2>2, <2>3 DEF Fail, Leave, history, LoginTypeOK
<1>5. ASSUME NEW a \in Attempts, Succeed(a)
      PROVE  LoginTypeOK'
  <2>1. ASSUME NEW k PROVE Cardinality(Comparing(k) \ {a}) \in Nat
    <3>1. IsFiniteSet(Comparing(k))
      BY InFlightType
    <3>2. IsFiniteSet(Comparing(k) \ {a})
      BY <3>1, FS_RemoveElement
    <3> QED
      BY <3>2, FS_CardinalityType
  <2>2. guesses' \in [Keys -> Nat] /\ burst' \in [Keys -> Nat]
    <3> DEFINE others == [k \in Keys |-> Cardinality(Comparing(k) \ {a})]
    <3>1. others \in [Keys -> Nat]
      BY <2>1
    <3>2. /\ guesses' = [k \in Keys |-> IF k \in KeysOf(a) THEN others[k] ELSE guesses[k]]
          /\ burst' = [k \in Keys |-> IF k \in KeysOf(a) THEN others[k] ELSE burst[k]]
      BY <1>5 DEF Succeed
    <3> HIDE DEF others
    <3> QED
      BY <3>1, <3>2 DEF LoginTypeOK
  <2>3. failures' \in [Keys -> Nat] /\ \A k \in Keys : failures'[k] <= Limit(k)
    BY <1>5 DEF Succeed, LoginTypeOK
  <2>4. /\ nextTry' \in [Keys -> Never .. Cooldown]
        /\ blocked' \in [Keys -> Never .. Block]
    BY <1>5 DEF Succeed, LoginTypeOK
  <2>5. Leave(a)
    BY <1>5 DEF Succeed
  <2>6. /\ at' \in [Attempts -> {"idle", "check", "refused", "compare"}]
        /\ user' \in [Attempts -> Users] /\ ip' \in [Attempts -> IPs]
        /\ age' \in [Attempts -> 0 .. MaxAge]
    BY <2>5 DEF Leave, LoginTypeOK
  <2>7. Keys' = Keys /\ Never' = Never /\ \A k \in Keys : Limit(k)' = Limit(k)
    BY DEF Keys, Never, Limit
  <2> QED
    BY <2>2, <2>3, <2>4, <2>6, <2>7 DEF LoginTypeOK
<1>6. CASE Tick
  <2>1. guesses' \in [Keys -> Nat] /\ burst' \in [Keys -> Nat]
    BY <1>0, <1>6 DEF Tick, LoginTypeOK
  <2>2. /\ nextTry' \in [Keys -> Never .. Cooldown]
        /\ blocked' \in [Keys -> Never .. Block]
    BY <1>6 DEF Tick, LoginTypeOK
  <2>3. age' \in [Attempts -> 0 .. MaxAge]
    BY <1>6 DEF Tick, LoginTypeOK
  <2> QED
    BY <1>6, <2>1, <2>2, <2>3 DEF Tick, LoginTypeOK
<1>7. CASE Restart
  BY <1>7 DEF Restart, LoginTypeOK
<1>8. CASE UNCHANGED loginVars
  BY <1>8 DEF loginVars, limits, attempts, history, LoginTypeOK
<1> QED
  BY <1>1, <1>2, <1>3, <1>4, <1>5, <1>6, <1>7, <1>8 DEF LoginNext, Serve

LEMMA EnterStep ==
  ASSUME LoginInv, NEW a \in Attempts, NEW u \in Users, NEW i \in IPs, Enter(a, u, i)
  PROVE  BurstInv' /\ GuessesInv'
<1>1. \A k \in Keys : InFlight(k)' = InFlight(k)
  BY InFlightSame DEF LoginInv, Enter, LoginTypeOK
<1> QED
  BY <1>1, CountsSame DEF Enter

LEMMA RefuseStep ==
  ASSUME LoginInv, NEW a \in Attempts, Refuse(a)
  PROVE  BurstInv' /\ GuessesInv'
<1>1. \A k \in Keys : InFlight(k)' = InFlight(k)
  BY InFlightSame DEF LoginInv, Refuse, LoginTypeOK
<1> QED
  BY <1>1, CountsSame DEF Refuse

\* An admitted attempt finds no wait and no block, so that what has been compared
\* since is in flight, and so is the attempt itself from now on.
LEMMA AdmitStep ==
  ASSUME LoginInv, NEW a \in Attempts, Admit(a)
  PROVE  BurstInv' /\ GuessesInv'
<1>1. LoginTypeOK /\ Together' = Together /\ Together \in Nat
  BY TogetherType DEF LoginInv, Together
<1>2. \A k \in Keys : /\ InFlight(k) \in Nat
                      /\ InFlight(k)' \in Nat /\ InFlight(k)' <= Together
                      /\ Limit(k) \in Nat /\ Limit(k) >= 1 /\ Limit(k)' = Limit(k)
  BY InFlightType, InFlightTypeNext, ConstantFacts DEF Limit
<1>3. \A k \in Keys : InFlight(k)' = IF k \in KeysOf(a) THEN InFlight(k) + 1 ELSE InFlight(k)
  BY <1>1, InFlightMore
<1>4. UNCHANGED <<failures, nextTry, blocked>>
  BY DEF Admit, limits
<1>5. \A k \in Keys :
        /\ guesses'[k] = IF k \in KeysOf(a) THEN guesses[k] + 1 ELSE guesses[k]
        /\ burst'[k] = IF k \in KeysOf(a) THEN burst[k] + 1 ELSE burst[k]
  BY DEF Admit
<1>6. \A k \in KeysOf(a) : nextTry[k] <= 0 /\ blocked[k] <= 0
  <2>1. age[a] \in Nat
    BY <1>1 DEF LoginTypeOK
  <2>2. \A k \in KeysOf(a) : nextTry[k] \in Int /\ blocked[k] \in Int
    BY <1>1, KeysOfType, ConstantFacts DEF LoginTypeOK
  <2> QED
    BY <2>1, <2>2 DEF Admit, Locked
<1>7. \A k \in Keys : failures[k] \in Nat /\ guesses[k] \in Nat /\ burst[k] \in Nat
                      /\ failures[k] <= Limit(k)
  BY <1>1 DEF LoginTypeOK
<1>8. BurstInv'
  BY <1>1, <1>2, <1>3, <1>4, <1>5, <1>6, <1>7 DEF LoginInv, BurstInv
<1>9. GuessesInv'
  BY <1>1, <1>2, <1>3, <1>4, <1>5, <1>6, <1>7 DEF LoginInv, GuessesInv
<1> QED
  BY <1>8, <1>9

\* A recorded failure leaves a wait, and at the limit a block, since an attempt
\* takes less time than either.
LEMMA FailStep ==
  ASSUME LoginInv, NEW a \in Attempts, Fail(a)
  PROVE  BurstInv' /\ GuessesInv'
<1>1. LoginTypeOK /\ Together' = Together /\ Together \in Nat
  BY TogetherType DEF LoginInv, Together
<1>2. \A k \in Keys : /\ InFlight(k) \in Nat /\ InFlight(k) <= Together
                      /\ Limit(k) \in Nat /\ Limit(k) >= 1 /\ Limit(k)' = Limit(k)
  BY InFlightType, ConstantFacts DEF Limit
<1>3. \A k \in Keys : InFlight(k)' = IF at[a] = "compare" /\ k \in KeysOf(a)
                                       THEN InFlight(k) - 1 ELSE InFlight(k)
  BY <1>1, InFlightLess DEF Fail
<1>4. \A k \in Keys : guesses'[k] = guesses[k] /\ burst'[k] = burst[k]
  BY DEF Fail, history
<1>5. \A k \in Keys : k \notin KeysOf(a) =>
        /\ failures'[k] = failures[k] /\ nextTry'[k] = nextTry[k]
        /\ blocked'[k] = blocked[k]
  BY DEF Fail
<1>6. \A k \in Keys : k \in KeysOf(a) =>
        /\ failures'[k] = IF failures[k] < Limit(k) THEN failures[k] + 1 ELSE failures[k]
        /\ nextTry'[k] > 0
        /\ failures'[k] >= Limit(k) => blocked'[k] > 0
  <2>1. age[a] \in Nat /\ age[a] <= MaxAge
    BY <1>1, ConstantFacts DEF LoginTypeOK
  <2>2. Cooldown - age[a] > 0 /\ Block - age[a] > 0
    BY <2>1, ConstantFacts
  <2> QED
    BY <2>2 DEF Fail, Count
<1>7. \A k \in Keys : failures[k] \in Nat /\ guesses[k] \in Nat /\ burst[k] \in Nat
                      /\ failures[k] <= Limit(k)
                      /\ nextTry[k] \in Int /\ blocked[k] \in Int
                      /\ nextTry'[k] \in Int /\ blocked'[k] \in Int
  <2>1. LoginTypeOK'
    BY <1>1, TypeStep DEF LoginNext, Serve
  <2> QED
    BY <1>1, <2>1, ConstantFacts DEF LoginTypeOK
<1>8. BurstInv'
  BY <1>1, <1>2, <1>3, <1>4, <1>5, <1>6, <1>7 DEF LoginInv, BurstInv
<1>9. GuessesInv'
  <2> SUFFICES ASSUME NEW k \in Keys
               PROVE  /\ failures'[k] < Limit(k)
                           => guesses'[k] <= failures'[k] + InFlight(k)'
                      /\ failures'[k] = Limit(k)
                           => /\ guesses'[k] < Limit(k) + Together
                              /\ blocked'[k] <= 0 => guesses'[k] <= InFlight(k)'
    BY <1>1, <1>2 DEF GuessesInv
  <2>1. /\ failures[k] < Limit(k) => guesses[k] <= failures[k] + InFlight(k)
        /\ failures[k] = Limit(k) => /\ guesses[k] < Limit(k) + Together
                                     /\ blocked[k] <= 0 => guesses[k] <= InFlight(k)
    BY DEF LoginInv, GuessesInv
  <2>2. CASE k \notin KeysOf(a)
    BY <1>3, <1>4, <1>5, <2>1, <2>2
  <2>3. CASE k \in KeysOf(a)
    BY <1>1, <1>2, <1>3, <1>4, <1>6, <1>7, <2>1, <2>3
  <2> QED
    BY <2>2, <2>3
<1> QED
  BY <1>8, <1>9

LEMMA SucceedStep ==
  ASSUME LoginInv, NEW a \in Attempts, Succeed(a)
  PROVE  BurstInv' /\ GuessesInv'
<1>1. LoginTypeOK /\ Together' = Together /\ Together \in Nat
  BY TogetherType DEF LoginInv, Together
<1>2. \A k \in Keys : /\ InFlight(k)' \in Nat /\ InFlight(k)' <= Together
                      /\ Limit(k) \in Nat /\ Limit(k) >= 1 /\ Limit(k)' = Limit(k)
  BY InFlightTypeNext, ConstantFacts DEF Limit
<1>3. \A k \in Keys : /\ InFlight(k)' = Cardinality(Comparing(k) \ {a})
                      /\ k \notin KeysOf(a) => InFlight(k)' = InFlight(k)
  BY <1>1, InFlightLess DEF Succeed
<1>4. \A k \in Keys : k \in KeysOf(a) =>
        /\ failures'[k] = 0
        /\ guesses'[k] = InFlight(k)' /\ burst'[k] = InFlight(k)'
  BY <1>3 DEF Succeed
<1>5. \A k \in Keys : k \notin KeysOf(a) =>
        /\ failures'[k] = failures[k] /\ nextTry'[k] = nextTry[k]
        /\ blocked'[k] = blocked[k]
        /\ guesses'[k] = guesses[k] /\ burst'[k] = burst[k]
  BY DEF Succeed
<1>6. BurstInv'
  <2> SUFFICES ASSUME NEW k \in Keys
               PROVE  /\ burst'[k] <= Together
                      /\ nextTry'[k] <= 0 => burst'[k] <= InFlight(k)'
    BY <1>1 DEF BurstInv
  <2>1. CASE k \in KeysOf(a)
    BY <1>2, <1>4, <2>1
  <2>2. CASE k \notin KeysOf(a)
    BY <1>3, <1>5, <2>2 DEF LoginInv, BurstInv
  <2> QED
    BY <2>1, <2>2
<1>7. GuessesInv'
  <2> SUFFICES ASSUME NEW k \in Keys
               PROVE  /\ failures'[k] < Limit(k)
                           => guesses'[k] <= failures'[k] + InFlight(k)'
                      /\ failures'[k] = Limit(k)
                           => /\ guesses'[k] < Limit(k) + Together
                              /\ blocked'[k] <= 0 => guesses'[k] <= InFlight(k)'
    BY <1>1, <1>2 DEF GuessesInv
  <2>1. CASE k \in KeysOf(a)
    BY <1>2, <1>4, <2>1
  <2>2. CASE k \notin KeysOf(a)
    BY <1>3, <1>5, <2>2 DEF LoginInv, GuessesInv
  <2> QED
    BY <2>1, <2>2
<1> QED
  BY <1>6, <1>7

LEMMA TickStep ==
  ASSUME LoginInv, Tick
  PROVE  BurstInv' /\ GuessesInv'
<1>1. LoginTypeOK /\ Together' = Together /\ Together \in Nat
  BY TogetherType DEF LoginInv, Together
<1>2. \A k \in Keys : /\ InFlight(k) \in Nat /\ InFlight(k) <= Together
                      /\ InFlight(k)' = InFlight(k)
                      /\ Limit(k) \in Nat /\ Limit(k) >= 1 /\ Limit(k)' = Limit(k)
  <2>1. \A k \in Keys : Comparing(k)' = Comparing(k)
    BY DEF Tick, Comparing, KeysOf
  <2> QED
    BY <2>1, InFlightType, ConstantFacts DEF InFlight, Limit
<1>3. \A k \in Keys :
        /\ failures'[k] = failures[k]
        /\ nextTry'[k] = IF nextTry[k] > Never THEN nextTry[k] - 1 ELSE Never
        /\ blocked'[k] = IF blocked[k] > Never THEN blocked[k] - 1 ELSE Never
        /\ guesses'[k] = IF blocked[k] = 1 THEN InFlight(k) ELSE guesses[k]
        /\ burst'[k] = IF nextTry[k] = 1 THEN InFlight(k) ELSE burst[k]
  BY DEF Tick, InFlight
<1>4. \A k \in Keys : failures[k] \in Nat /\ guesses[k] \in Nat /\ burst[k] \in Nat
                      /\ nextTry[k] \in Int /\ blocked[k] \in Int
  BY <1>1, ConstantFacts DEF LoginTypeOK
<1>5. BurstInv'
  BY <1>1, <1>2, <1>3, <1>4, ConstantFacts DEF LoginInv, BurstInv
<1>6. GuessesInv'
  BY <1>1, <1>2, <1>3, <1>4, ConstantFacts DEF LoginInv, GuessesInv
<1> QED
  BY <1>5, <1>6

LEMMA RestartStep ==
  ASSUME LoginInv, Restart
  PROVE  BurstInv' /\ GuessesInv'
<1>1. /\ Together' = Together /\ Together \in Nat
      /\ \A k \in Keys : InFlight(k)' \in Nat /\ Limit(k) \in Nat /\ Limit(k) >= 1
                         /\ Limit(k)' = Limit(k)
  BY TogetherType, InFlightTypeNext, ConstantFacts DEF Together, Limit
<1>2. \A k \in Keys : failures'[k] = 0 /\ guesses'[k] = 0 /\ burst'[k] = 0
  BY DEF Restart
<1> QED
  BY <1>1, <1>2 DEF BurstInv, GuessesInv

LEMMA StutterStep ==
  ASSUME LoginInv, UNCHANGED loginVars
  PROVE  BurstInv' /\ GuessesInv'
<1>1. \A k \in Keys : InFlight(k)' = InFlight(k)
  BY DEF loginVars, attempts, InFlight, Comparing, KeysOf
<1> QED
  BY <1>1, CountsSame DEF loginVars

LEMMA NextInv == LoginInv /\ [LoginNext]_loginVars => LoginInv'
<1> SUFFICES ASSUME LoginInv, [LoginNext]_loginVars PROVE LoginInv'
  OBVIOUS
<1>1. LoginTypeOK'
  BY TypeStep DEF LoginInv
<1>2. BurstInv' /\ GuessesInv'
  BY EnterStep, RefuseStep, AdmitStep, FailStep, SucceedStep, TickStep, RestartStep,
     StutterStep DEF LoginNext, Serve
<1> QED
  BY <1>1, <1>2 DEF LoginInv

-----------------------------------------------------------------------------
(* The theorems *)

\* The inductive invariant holds in every state the throttle reaches.
LEMMA Invariance == LoginSpec => []LoginInv
BY InitInv, NextInv, PTL DEF LoginSpec

\* The limits and the attempts keep their shape: no wait lasts longer than the
\* cooldown and no block longer than its day, whatever times are recorded late.
THEOREM LoginTypesCorrect == LoginSpec => []LoginTypeOK
<1>1. LoginInv => LoginTypeOK
  BY DEF LoginInv
<1> QED
  BY <1>1, Invariance, PTL

\* Between two successes or blocks, however many attempts come together, fewer
\* passwords are compared for a key than its limit and the attempts served at once.
THEOREM GuessesAreBounded == LoginSpec => []GuessesBounded
<1>1. LoginInv => GuessesBounded
  <2> SUFFICES ASSUME LoginInv, NEW k \in Keys
               PROVE  guesses[k] < Limit(k) + Together
    BY DEF GuessesBounded, Together
  <2>1. /\ failures[k] \in Nat /\ failures[k] <= Limit(k) /\ guesses[k] \in Nat
        /\ Limit(k) \in Nat /\ Limit(k) >= 1
    BY ConstantFacts DEF LoginInv, LoginTypeOK
  <2>2. InFlight(k) \in Nat /\ InFlight(k) <= Together /\ Together \in Nat
    BY InFlightType, TogetherType
  <2> QED
    BY <2>1, <2>2 DEF LoginInv, GuessesInv
<1> QED
  BY <1>1, Invariance, PTL

\* Between two waits only the attempts that come together are let through.
THEOREM BurstsAreBounded == LoginSpec => []BurstBounded
<1>1. LoginInv => BurstBounded
  BY DEF LoginInv, BurstInv, BurstBounded, Together
<1> QED
  BY <1>1, Invariance, PTL

-----------------------------------------------------------------------------
(* The chain: what an insertion and a deletion by number do to the rules.  *)

Below == {p \in Nat \X Nat : p[1] < p[2]}

LEMMA BelowWellFounded == IsWellFoundedOn(Below, Nat)
<1>1. OpToRel(<, Nat) = Below
  BY DEF OpToRel, Below
<1> QED BY <1>1, NatLessThanWellFounded

\* Numbers of a chain that are not none have a highest one.
LEMMA Highest ==
  ASSUME NEW n \in Nat, NEW S, S \subseteq 1 .. n, S # {}
  PROVE  Max(S) \in S /\ \A i \in S : i <= Max(S)
<1> DEFINE T == {n - i : i \in S}
<1>1. T \subseteq Nat /\ T # {}
  <2>1. \A i \in S : n - i \in Nat
    OBVIOUS
  <2> QED BY <2>1
<1>2. PICK x \in T : \A y \in T : <<y, x>> \notin Below
  BY <1>1, BelowWellFounded, WFMin
<1>3. PICK m \in S : x = n - m
  BY <1>2
<1>4. \A i \in S : i <= m
  <2> SUFFICES ASSUME NEW i \in S, ~(i <= m) PROVE FALSE
    OBVIOUS
  <2>1. i \in Int /\ m \in Int /\ n - i \in T /\ n - i \in Nat /\ x \in Nat
    BY <1>1, <1>2
  <2>2. n - i < x
    BY <1>3, <2>1
  <2> QED BY <1>2, <2>1, <2>2 DEF Below
<1>5. \E j \in S : \A i \in S : j >= i
  <2>1. \A i \in S : m >= i
    BY <1>4
  <2> QED BY <2>1
<1>6. Max(S) \in S /\ \A i \in S : Max(S) >= i
  BY <1>5 DEF Max
<1> QED BY <1>6

LEMMA RemoveAtOK ==
  ASSUME NEW S, NEW s \in Seq(S), NEW n \in 1 .. Len(s)
  PROVE  /\ RemoveAt(s, n) \in Seq(S) /\ Len(RemoveAt(s, n)) = Len(s) - 1
         /\ \A i \in 1 .. Len(s) - 1 : RemoveAt(s, n)[i] = IF i < n THEN s[i] ELSE s[i + 1]
<1> DEFINE a == SubSeq(s, 1, n - 1)  b == SubSeq(s, n + 1, Len(s))
<1>1. /\ a \in Seq(S) /\ Len(a) = n - 1 /\ \A i \in 1 .. n - 1 : a[i] = s[i]
  OBVIOUS
<1>2. /\ b \in Seq(S) /\ Len(b) = Len(s) - n /\ \A i \in 1 .. Len(s) - n : b[i] = s[n + i]
  OBVIOUS
<1>3. RemoveAt(s, n) = a \o b
  BY DEF RemoveAt
<1> HIDE DEF a, b
<1>4. a \o b \in Seq(S) /\ Len(a \o b) = Len(a) + Len(b)
      /\ \A i \in 1 .. Len(a) + Len(b) : (a \o b)[i] = IF i <= Len(a) THEN a[i] ELSE b[i - Len(a)]
  BY <1>1, <1>2, ConcatProperties
<1> QED BY <1>1, <1>2, <1>3, <1>4

\* What a chain holds once a rule of others is put before its n-th rule.
LEMMA InsertAtOK ==
  ASSUME chain \in Seq(Rules), NEW n \in 1 .. Len(chain) + 1
  PROVE  LET t == InsertAt(chain, n, Foreign)
         IN  /\ t \in Seq(Rules) /\ Len(t) = Len(chain) + 1
             /\ \A i \in 1 .. Len(chain) + 1 :
                  t[i] = IF i < n THEN chain[i]
                         ELSE IF i = n THEN Foreign ELSE chain[i - 1]
<1> DEFINE a == SubSeq(chain, 1, n - 1)  b == SubSeq(chain, n, Len(chain))  c == <<Foreign>>
<1>0. Foreign \in Rules /\ Len(chain) \in Nat
  BY DEF Rules
<1>1. /\ a \in Seq(Rules) /\ Len(a) = n - 1 /\ \A i \in 1 .. n - 1 : a[i] = chain[i]
  OBVIOUS
<1>2. /\ b \in Seq(Rules) /\ Len(b) = Len(chain) - n + 1
      /\ \A i \in 1 .. Len(chain) - n + 1 : b[i] = chain[n + i - 1]
  OBVIOUS
<1>3. c \in Seq(Rules) /\ Len(c) = 1 /\ c[1] = Foreign
  BY <1>0
<1>4. InsertAt(chain, n, Foreign) = (a \o c) \o b
  BY DEF InsertAt
<1> HIDE DEF a, b, c
<1> DEFINE d == a \o c
<1>5. d \in Seq(Rules) /\ Len(d) = Len(a) + Len(c)
      /\ \A i \in 1 .. Len(a) + Len(c) : d[i] = IF i <= Len(a) THEN a[i] ELSE c[i - Len(a)]
  BY <1>1, <1>3, ConcatProperties
<1>6. Len(d) = n /\ \A i \in 1 .. n : d[i] = IF i < n THEN chain[i] ELSE Foreign
  <2> HIDE DEF d
  <2>1. Len(a) + Len(c) = n /\ n \in Nat
    BY <1>1, <1>3
  <2>2. ASSUME NEW i \in 1 .. n PROVE d[i] = IF i < n THEN chain[i] ELSE Foreign
    BY <1>1, <1>3, <1>5, <2>1
  <2> QED BY <1>5, <2>1, <2>2
<1>7. InsertAt(chain, n, Foreign) = d \o b
  BY <1>4
<1> HIDE DEF d
<1>8. /\ d \o b \in Seq(Rules) /\ Len(d \o b) = Len(d) + Len(b)
      /\ \A i \in 1 .. Len(d) + Len(b) : (d \o b)[i] = IF i <= Len(d) THEN d[i] ELSE b[i - Len(d)]
  <2>1. d \in Seq(Rules) /\ b \in Seq(Rules)
    BY <1>2, <1>5
  <2> QED BY ONLY <2>1, ConcatProperties
<1>9. Len(d) + Len(b) = Len(chain) + 1 /\ n \in Nat /\ Len(chain) \in Nat
  BY <1>2, <1>6
<1>10. ASSUME NEW i \in 1 .. Len(chain) + 1
       PROVE  (d \o b)[i] = IF i < n THEN chain[i] ELSE IF i = n THEN Foreign ELSE chain[i - 1]
  <2>1. CASE i <= n
    BY <1>6, <1>8, <1>9, <2>1
  <2>2. CASE ~(i <= n)
    <3>1. i - n \in 1 .. Len(chain) - n + 1 /\ n + (i - n) - 1 = i - 1
      BY <1>9, <2>2
    <3>2. b[i - n] = chain[i - 1]
      BY <1>2, <3>1
    <3> QED BY <1>6, <1>8, <1>9, <2>2, <3>2
  <2> QED BY <2>1, <2>2
<1> QED BY <1>7, <1>8, <1>9, <1>10

\* A rule of others is inserted: no ban gets or loses any.
LEMMA Slipped ==
  ASSUME chain \in Seq(Rules), NEW n \in 1 .. Len(chain) + 1,
         chain' = InsertAt(chain, n, Foreign)
  PROVE  /\ chain' \in Seq(Rules)
         /\ \A b \in Bans : RulesOf(b)' # {} <=> RulesOf(b) # {}
<1> DEFINE t == InsertAt(chain, n, Foreign)
<1>1. Foreign \in Rules /\ Len(chain) \in Nat
  BY DEF Rules
<1>2. /\ t \in Seq(Rules) /\ Len(t) = Len(chain) + 1
      /\ \A i \in 1 .. Len(chain) + 1 :
           t[i] = IF i < n THEN chain[i] ELSE IF i = n THEN Foreign ELSE chain[i - 1]
  BY InsertAtOK
<1>3. chain' = t
  OBVIOUS
<1> HIDE DEF t
<1>4. \A b, i : i \in RulesOf(b) <=> i \in 1 .. Len(chain) /\ chain[i] = b
  BY <1>1 DEF RulesOf
<1>5. \A b, i : i \in RulesOf(b)' <=> i \in 1 .. Len(chain) + 1 /\ t[i] = b
  BY <1>2, <1>3 DEF RulesOf
<1>6. ASSUME NEW b \in Bans, NEW i \in RulesOf(b)' PROVE RulesOf(b) # {}
  <2>1. i \in 1 .. Len(chain) + 1 /\ t[i] = b /\ b # Foreign
    BY <1>5, Fail2BanAssumption
  <2>2. CASE i < n
    <3>1. i \in 1 .. Len(chain) /\ chain[i] = b
      BY <1>1, <1>2, <2>1, <2>2
    <3> QED BY <1>4, <3>1
  <2>3. CASE ~(i < n)
    <3>1. i # n
      BY <1>2, <2>1, <2>3
    <3>2. i - 1 \in 1 .. Len(chain) /\ chain[i - 1] = b
      BY <1>1, <1>2, <2>1, <2>3, <3>1
    <3> QED BY <1>4, <3>2
  <2> QED BY <2>2, <2>3
<1>7. ASSUME NEW b \in Bans, NEW i \in RulesOf(b) PROVE RulesOf(b)' # {}
  <2>1. i \in 1 .. Len(chain) /\ chain[i] = b
    BY <1>4
  <2>2. CASE i < n
    <3>1. i \in 1 .. Len(chain) + 1 /\ t[i] = b
      BY <1>1, <1>2, <2>1, <2>2
    <3> QED BY <1>5, <3>1
  <2>3. CASE ~(i < n)
    <3>1. i + 1 \in 1 .. Len(chain) + 1 /\ ~(i + 1 < n) /\ i + 1 # n /\ (i + 1) - 1 = i
      BY <1>1, <2>1, <2>3
    <3>2. t[i + 1] = b
      BY <1>2, <2>1, <3>1
    <3> QED BY <1>5, <3>1, <3>2
  <2> QED BY <2>2, <2>3
<1> QED BY <1>2, <1>3, <1>6, <1>7

\* A rule is inserted on top: only its ban gets one.
LEMMA Inserted ==
  ASSUME chain \in Seq(Rules), NEW x \in Rules, chain' = <<x>> \o chain
  PROVE  /\ chain' \in Seq(Rules)
         /\ \A b \in Bans : RulesOf(b)' # {} <=> b = x \/ RulesOf(b) # {}
<1>1. /\ chain' \in Seq(Rules) /\ Len(chain') = Len(chain) + 1 /\ Len(chain) \in Nat
      /\ chain'[1] = x /\ \A i \in 1 .. Len(chain) : chain'[i + 1] = chain[i]
  OBVIOUS
<1>2. DOMAIN chain' = 1 .. Len(chain) + 1 /\ DOMAIN chain = 1 .. Len(chain)
  BY <1>1
<1>3. ASSUME NEW b \in Bans, NEW i \in RulesOf(b)' PROVE b = x \/ RulesOf(b) # {}
  <2>1. i \in 1 .. Len(chain) + 1 /\ chain'[i] = b
    BY <1>2 DEF RulesOf
  <2>2. CASE i = 1
    BY <1>1, <2>1, <2>2
  <2>3. CASE i # 1
    <3>1. i - 1 \in 1 .. Len(chain) /\ (i - 1) + 1 = i
      BY <1>1, <2>1, <2>3
    <3>2. chain[i - 1] = b
      BY <1>1, <2>1, <3>1
    <3> QED BY <1>2, <3>1, <3>2 DEF RulesOf
  <2> QED BY <2>2, <2>3
<1>4. ASSUME NEW b \in Bans, b = x PROVE RulesOf(b)' # {}
  <2>1. 1 \in DOMAIN chain' /\ chain'[1] = b
    BY <1>1, <1>2, <1>4
  <2> QED BY <2>1 DEF RulesOf
<1>5. ASSUME NEW b \in Bans, NEW i \in RulesOf(b) PROVE RulesOf(b)' # {}
  <2>1. i \in 1 .. Len(chain) /\ chain[i] = b
    BY <1>2 DEF RulesOf
  <2>2. i + 1 \in DOMAIN chain' /\ chain'[i + 1] = b
    BY <1>1, <1>2, <2>1
  <2> QED BY <2>2 DEF RulesOf
<1> QED BY <1>1, <1>3, <1>4, <1>5

\* A rule that is deleted is the only one that goes.
LEMMA Removed ==
  ASSUME chain \in Seq(Rules), NEW n \in DOMAIN chain, chain' = RemoveAt(chain, n),
         NEW c, chain[n] # c
  PROVE  RulesOf(c)' # {} <=> RulesOf(c) # {}
<1> DEFINE t == RemoveAt(chain, n)
<1>1. Len(chain) \in Nat /\ DOMAIN chain = 1 .. Len(chain) /\ n \in 1 .. Len(chain)
  OBVIOUS
<1>2. /\ t \in Seq(Rules) /\ Len(t) = Len(chain) - 1
      /\ \A i \in 1 .. Len(chain) - 1 : t[i] = IF i < n THEN chain[i] ELSE chain[i + 1]
  BY <1>1, RemoveAtOK
<1>3. chain' = t
  OBVIOUS
<1> HIDE DEF t
<1>4. \A i : i \in RulesOf(c)' <=> i \in 1 .. Len(chain) - 1 /\ t[i] = c
  BY <1>1, <1>2, <1>3 DEF RulesOf
<1>5. \A i : i \in RulesOf(c) <=> i \in 1 .. Len(chain) /\ chain[i] = c
  BY <1>1 DEF RulesOf
<1>6. ASSUME NEW i \in RulesOf(c)' PROVE RulesOf(c) # {}
  <2>1. i \in 1 .. Len(chain) - 1 /\ t[i] = c
    BY <1>4
  <2>2. CASE i < n
    <3>1. i \in 1 .. Len(chain) /\ chain[i] = c
      BY <1>1, <1>2, <2>1, <2>2
    <3> QED BY <1>5, <3>1
  <2>3. CASE ~(i < n)
    <3>1. i + 1 \in 1 .. Len(chain) /\ chain[i + 1] = c
      BY <1>1, <1>2, <2>1, <2>3
    <3> QED BY <1>5, <3>1
  <2> QED BY <2>2, <2>3
<1>7. ASSUME NEW i \in RulesOf(c) PROVE RulesOf(c)' # {}
  <2>1. i \in 1 .. Len(chain) /\ chain[i] = c /\ i # n
    BY <1>5
  <2>2. CASE i < n
    <3>1. i \in 1 .. Len(chain) - 1 /\ t[i] = c
      BY <1>1, <1>2, <2>1, <2>2
    <3> QED BY <1>4, <3>1
  <2>3. CASE ~(i < n)
    <3>1. i - 1 \in 1 .. Len(chain) - 1 /\ ~(i - 1 < n) /\ (i - 1) + 1 = i
      BY <1>1, <2>1, <2>3
    <3>2. t[i - 1] = c
      BY <1>2, <2>1, <3>1
    <3> QED BY <1>4, <3>1, <3>2
  <2> QED BY <2>2, <2>3
<1> QED BY <1>6, <1>7

\* The last rule of a ban is deleted by its number: the others of the ban keep
\* theirs, and no other ban loses any.
LEMMA CutHighest ==
  ASSUME chain \in Seq(Rules), NEW b \in Bans, RulesOf(b) # {},
         chain' = RemoveAt(chain, Max(RulesOf(b)))
  PROVE  /\ Max(RulesOf(b)) \in DOMAIN chain
         /\ RulesOf(b)' = RulesOf(b) \ {Max(RulesOf(b))}
         /\ \A c \in Bans \ {b} : RulesOf(c)' # {} <=> RulesOf(c) # {}
<1> DEFINE S == RulesOf(b)  n == Max(S)
<1>1. Len(chain) \in Nat /\ DOMAIN chain = 1 .. Len(chain) /\ S \subseteq 1 .. Len(chain)
  BY DEF RulesOf
<1>2. n \in S /\ \A i \in S : i <= n
  BY <1>1, Highest
<1>3. n \in 1 .. Len(chain) /\ chain[n] = b
  BY <1>1, <1>2 DEF RulesOf
<1> DEFINE t == RemoveAt(chain, n)
<1>4. /\ t \in Seq(Rules) /\ Len(t) = Len(chain) - 1
      /\ \A i \in 1 .. Len(chain) - 1 : t[i] = IF i < n THEN chain[i] ELSE chain[i + 1]
  BY <1>3, RemoveAtOK
<1>5. chain' = t
  OBVIOUS
<1> HIDE DEF t
<1>6. DOMAIN chain' = 1 .. Len(chain) - 1
  BY <1>1, <1>4, <1>5
<1>7. \A c, i : i \in RulesOf(c) <=> i \in 1 .. Len(chain) /\ chain[i] = c
  BY <1>1 DEF RulesOf
<1>8. \A c, i : i \in RulesOf(c)' <=> i \in 1 .. Len(chain) - 1 /\ t[i] = c
  BY <1>5, <1>6 DEF RulesOf
<1> HIDE DEF n, S
<1>9. ASSUME NEW i PROVE i \in RulesOf(b)' <=> i \in S \ {n}
  <2>1. ASSUME i \in RulesOf(b)' PROVE i \in S \ {n}
    <3>1. i \in 1 .. Len(chain) - 1 /\ t[i] = b
      BY <1>8, <2>1
    <3>2. CASE i < n
      <4>1. i \in 1 .. Len(chain) /\ chain[i] = b /\ i # n
        BY <1>1, <1>3, <1>4, <3>1, <3>2
      <4> QED BY <1>7, <4>1 DEF S
    <3>3. CASE ~(i < n)
      <4>1. i + 1 \in 1 .. Len(chain) /\ chain[i + 1] = b
        BY <1>1, <1>4, <3>1, <3>3
      <4>2. i + 1 \in S
        BY <1>7, <4>1 DEF S
      <4>3. i + 1 <= n
        BY <1>2, <4>2
      <4>4. i \in Int /\ n \in Int
        BY <1>1, <1>3, <3>1
      <4> QED BY <3>3, <4>3, <4>4
    <3> QED BY <3>2, <3>3
  <2>2. ASSUME i \in S \ {n} PROVE i \in RulesOf(b)'
    <3>1. i \in 1 .. Len(chain) /\ chain[i] = b /\ i <= n /\ i # n
      BY <1>2, <1>7, <2>2 DEF S
    <3>2. i < n /\ i \in 1 .. Len(chain) - 1
      BY <1>1, <1>3, <3>1
    <3> QED BY <1>4, <1>8, <3>1, <3>2
  <2> QED BY <2>1, <2>2
<1>10. ASSUME NEW c \in Bans \ {b} PROVE RulesOf(c)' # {} <=> RulesOf(c) # {}
  <2>1. n \in DOMAIN chain /\ chain' = RemoveAt(chain, n)
    BY <1>1, <1>3 DEF n, S
  <2> QED BY <1>3, <2>1, Removed
<1>11. RulesOf(b)' = S \ {n}
  BY <1>9
<1> QED BY <1>1, <1>3, <1>10, <1>11 DEF n, S
-----------------------------------------------------------------------------
(* Where goroutines are. *)

Labels == {"idle", "begin", "sweep", "cut", "lift", "strike", "policies",
           "judge", "extend", "add", "record", "mail"}

USE DEF AtWork, Deleting

\* The parts of TypeOK: what is shared, and what each goroutine has.
SharedOK ==
  /\ table \in [Bans -> {"none", "active", "expired"}]
  /\ chain \in Seq(Rules)
  /\ enabled \subseteq Servers /\ offending \subseteq Bans /\ silent \in BOOLEAN
  /\ undone \subseteq Rules
  /\ overlapped \in BOOLEAN /\ torn \in BOOLEAN
  /\ moves \in 0 .. MaxMoves

\* A goroutine has a ban, or the rules of others, at hand exactly where it acts
\* on them.
JobsOK ==
  \A a \in Actors : /\ pc[a] \in AtWork <=> job[a] # None
                    /\ job[a] = Foreign => pc[a] = "strike"

LocalsOK ==
  /\ pc \in [Actors -> Labels]
  /\ policies \in [Actors -> SUBSET Servers]
  /\ todo \in [Actors -> SUBSET Bans]
  /\ job \in [Actors -> Rules \cup {None}]
  /\ JobsOK
  /\ nums \in [Actors -> SUBSET Nat]

\* The loop lifts no bans.
LoopLiftsNone == pc[Loop] # "lift"

\* What the clean-up has in hand is not in force.
SweptAreOver ==
  Calm => \A a \in Actors :
    /\ pc[a] \in {"sweep", "cut"} => \A b \in todo[a] : table[b] # "active"
    /\ pc[a] = "cut" => table[job[a]] # "active"

IInv == SharedOK /\ LocalsOK /\ LoopLiftsNone /\ SweptAreOver

LEMMA Parts == (SharedOK /\ LocalsOK <=> TypeOK) /\ ((SharedOK /\ LocalsOK)' <=> TypeOK')
BY DEF TypeOK, SharedOK, LocalsOK, JobsOK, Labels

LEMMA Moved ==
  ASSUME IInv, NEW a \in Actors, NEW l \in Labels, Goto(a, l)
  PROVE  /\ pc' \in [Actors -> Labels]
         /\ pc'[a] = l /\ \A o \in Actors \ {a} : pc'[o] = pc[o]
         /\ overlapped' \in BOOLEAN /\ (overlapped => overlapped')
         /\ ~overlapped' => \A o \in Actors \ {a} : pc[o] = "idle"
<1>1. pc \in [Actors -> Labels]
  BY DEF IInv, LocalsOK, JobsOK
<1>2. pc' = [pc EXCEPT ![a] = l]
  BY DEF Goto
<1>3. pc' \in [Actors -> Labels] /\ pc'[a] = l /\ \A o \in Actors \ {a} : pc'[o] = pc[o]
  BY <1>1, <1>2
<1>4. overlapped' = (overlapped \/ \E o \in Actors \ {a} : pc[o] # "idle")
  BY DEF Goto
<1>5. overlapped' \in BOOLEAN /\ (overlapped => overlapped')
      /\ (~overlapped' => \A o \in Actors \ {a} : pc[o] = "idle")
  BY <1>4, Zenon
<1> QED BY <1>3, <1>5

LEMMA Moving == ASSUME IInv, Move PROVE moves' \in 0 .. MaxMoves
BY Fail2BanAssumption DEF IInv, SharedOK, Move

\* A goroutine without a ban gets none and one with a ban keeps it or drops it:
\* the label it goes to says which.
LEMMA JobFits ==
  ASSUME IInv, NEW a \in Actors, NEW l \in Labels, Goto(a, l),
         NEW j \in Rules \cup {None}, job' = [job EXCEPT ![a] = j],
         l \in AtWork <=> j # None, j = Foreign => l = "strike"
  PROVE  /\ job' \in [Actors -> Rules \cup {None}]
         /\ job'[a] = j /\ \A o \in Actors \ {a} : job'[o] = job[o]
         /\ JobsOK'
<1>1. job \in [Actors -> Rules \cup {None}] /\ JobsOK
  BY DEF IInv, LocalsOK
<1>2. job' \in [Actors -> Rules \cup {None}]
      /\ job'[a] = j /\ \A o \in Actors \ {a} : job'[o] = job[o]
  BY <1>1
<1>3. pc'[a] = l /\ \A o \in Actors \ {a} : pc'[o] = pc[o]
  BY Moved
<1> QED BY <1>1, <1>2, <1>3 DEF JobsOK

\* The same of a step that leaves the ban alone.
LEMMA JobStays ==
  ASSUME IInv, NEW a \in Actors, NEW l \in Labels, Goto(a, l), job' = job,
         l \in AtWork <=> job[a] # None, job[a] = Foreign => l = "strike"
  PROVE  /\ job' \in [Actors -> Rules \cup {None}]
         /\ JobsOK'
<1>1. job \in [Actors -> Rules \cup {None}] /\ JobsOK
  BY DEF IInv, LocalsOK
<1>2. pc'[a] = l /\ \A o \in Actors \ {a} : pc'[o] = pc[o]
  BY Moved
<1> QED BY <1>1, <1>2 DEF JobsOK

\* A goroutine with nothing at hand goes where nothing is needed.
LEMMA JobNone ==
  ASSUME IInv, NEW a \in Actors, NEW l \in Labels \ AtWork, Goto(a, l), job' = job,
         pc[a] \notin AtWork
  PROVE  /\ job' \in [Actors -> Rules \cup {None}]
         /\ JobsOK'
<1>1. job[a] = None /\ None # Foreign
  BY Fail2BanAssumption DEF IInv, LocalsOK, JobsOK
<1> QED BY <1>1, JobStays

\* What is enforced or lifted is a ban.
LEMMA AtBan ==
  ASSUME IInv, NEW a \in Actors, pc[a] \in AtWork, pc[a] # "strike"
  PROVE  job[a] \in Bans /\ job[a] \in Rules /\ job[a] # Foreign
<1>1. job[a] \in Rules \cup {None} /\ job[a] # None /\ job[a] # Foreign
  BY DEF IInv, LocalsOK, JobsOK
<1> QED BY <1>1 DEF Rules

LEMMA Numbered == ASSUME SharedOK, NEW b PROVE Numbers(b) \subseteq Nat
<1>1. DOMAIN chain = 1 .. Len(chain) /\ Len(chain) \in Nat
  BY DEF SharedOK
<1> QED BY <1>1 DEF Numbers

LEMMA InitIInv == Init => IInv
<1> SUFFICES ASSUME Init PROVE IInv
  OBVIOUS
<1>1. SharedOK
  <2>1. chain \in Seq(Rules)
    BY DEF Init, Rules
  <2>2. moves \in 0 .. MaxMoves
    BY Fail2BanAssumption DEF Init
  <2>3. table \in [Bans -> {"none", "active", "expired"}]
    BY DEF Init
  <2> QED BY <2>1, <2>2, <2>3 DEF Init, SharedOK
<1>2. LocalsOK
  <2>1. JobsOK
    BY Fail2BanAssumption DEF Init, JobsOK
  <2> QED BY <2>1 DEF Init, LocalsOK, Labels
<1>3. \A a \in Actors : pc[a] = "idle"
  BY DEF Init
<1>4. LoopLiftsNone
  BY <1>3 DEF LoopLiftsNone, Actors
<1>5. SweptAreOver
  BY <1>3 DEF SweptAreOver
<1> QED BY <1>1, <1>2, <1>4, <1>5 DEF IInv
-----------------------------------------------------------------------------
(* The steps. *)

\* The requests.
LEMMA SavePolicyStep ==
  ASSUME IInv, NEW a \in Actors, NEW s \in Servers, NEW on \in BOOLEAN,
         SavePolicy(a, s, on)
  PROVE  IInv'
<1> DEFINE l == IF on THEN "begin" ELSE "idle"
<1>1. /\ l \in Labels /\ Goto(a, l) /\ Move /\ pc[a] = "idle" /\ a # Loop
      /\ l \notin AtWork \cup {"sweep"}
      /\ enabled' = (IF on THEN enabled \cup {s} ELSE enabled \ {s})
      /\ UNCHANGED <<table, chain, offending, silent, policies, todo, job, nums, undone,
                     torn>>
  BY Fail2BanAssumption DEF SavePolicy, Labels, locals
<1> HIDE DEF l
<1>2. /\ pc' \in [Actors -> Labels]
      /\ pc'[a] = l /\ \A o \in Actors \ {a} : pc'[o] = pc[o]
      /\ overlapped' \in BOOLEAN /\ (overlapped => overlapped')
  BY <1>1, Moved
<1>3. SharedOK'
  <2>1. moves' \in 0 .. MaxMoves
    BY <1>1, Moving
  <2>2. enabled' \subseteq Servers
    BY <1>1 DEF IInv, SharedOK
  <2> QED BY <1>1, <1>2, <2>1, <2>2 DEF IInv, SharedOK
<1>4. LocalsOK'
  <2>2. job' \in [Actors -> Rules \cup {None}] /\ JobsOK'
    BY <1>1, JobNone
  <2> QED BY <1>1, <1>2, <2>2 DEF IInv, LocalsOK, JobsOK
<1>5. LoopLiftsNone'
  BY <1>1, <1>2 DEF IInv, LoopLiftsNone, Actors
<1>6. SweptAreOver'
  BY <1>1, <1>2 DEF IInv, SweptAreOver, Calm
<1> QED BY <1>2, <1>3, <1>4, <1>5, <1>6 DEF IInv

LEMMA UnbanStep ==
  ASSUME IInv, NEW a \in Actors, NEW b \in Bans, Unban(a, b)
  PROVE  IInv'
<1>1. /\ "lift" \in Labels /\ Goto(a, "lift") /\ Move /\ pc[a] = "idle" /\ a # Loop
      /\ job' = [job EXCEPT ![a] = b] /\ nums' = [nums EXCEPT ![a] = Numbers(b)]
      /\ UNCHANGED <<table, chain, enabled, offending, silent, policies, todo, undone, torn>>
  BY Fail2BanAssumption DEF Unban, Labels, world
<1>2. /\ pc' \in [Actors -> Labels]
      /\ pc'[a] = "lift" /\ \A o \in Actors \ {a} : pc'[o] = pc[o]
      /\ overlapped' \in BOOLEAN /\ (overlapped => overlapped')
  BY <1>1, Moved
<1>3. b # None /\ b # Foreign /\ b \in Rules
  BY Fail2BanAssumption DEF Rules
<1>4. /\ job' \in [Actors -> Rules \cup {None}]
      /\ job'[a] = b /\ \A o \in Actors \ {a} : job'[o] = job[o]
      /\ JobsOK'
  BY <1>1, <1>3, JobFits
<1>5. SharedOK'
  <2>1. moves' \in 0 .. MaxMoves
    BY <1>1, Moving
  <2> QED BY <1>1, <1>2, <2>1 DEF IInv, SharedOK
<1>6. LocalsOK'
  <2>1. nums' \in [Actors -> SUBSET Nat]
    BY <1>1, Numbered DEF IInv, LocalsOK, JobsOK
  <2> QED BY <1>1, <1>2, <1>4, <2>1 DEF IInv, LocalsOK, JobsOK
<1>7. LoopLiftsNone'
  BY <1>1, <1>2 DEF IInv, LoopLiftsNone, Actors
<1>8. SweptAreOver'
  BY <1>1, <1>2, <1>4 DEF IInv, SweptAreOver, Calm
<1> QED BY <1>2, <1>5, <1>6, <1>7, <1>8 DEF IInv

\* Rules are listed by their comment and not for the sake of a row.
LEMMA StrikeStep ==
  ASSUME IInv, NEW a \in Requests, NEW x \in Rules, NEW S \in SUBSET Numbers(x),
         Move, pc[a] = "idle", Goto(a, "strike"), job' = [job EXCEPT ![a] = x],
         nums' = [nums EXCEPT ![a] = S],
         UNCHANGED <<table, chain, world, policies, todo, undone, torn>>
  PROVE  IInv'
<1>1. a \in Actors /\ a # Loop /\ "strike" \in Labels /\ x # None
      /\ UNCHANGED <<enabled, offending, silent>>
  BY Fail2BanAssumption DEF Actors, Labels, Rules, world
<1>2. /\ pc' \in [Actors -> Labels]
      /\ pc'[a] = "strike" /\ \A o \in Actors \ {a} : pc'[o] = pc[o]
      /\ overlapped' \in BOOLEAN /\ (overlapped => overlapped')
  BY <1>1, Moved
<1>3. /\ job' \in [Actors -> Rules \cup {None}]
      /\ \A o \in Actors \ {a} : job'[o] = job[o]
      /\ JobsOK'
  BY <1>1, JobFits
<1>4. SharedOK'
  <2>1. moves' \in 0 .. MaxMoves
    BY Moving
  <2> QED BY <1>1, <1>2, <2>1 DEF IInv, SharedOK
<1>5. LocalsOK'
  <2>1. nums' \in [Actors -> SUBSET Nat]
    BY Numbered DEF IInv, LocalsOK
  <2> QED BY <1>2, <1>3, <2>1 DEF IInv, LocalsOK
<1>6. LoopLiftsNone'
  BY <1>1, <1>2 DEF IInv, LoopLiftsNone, Actors
<1>7. SweptAreOver'
  BY <1>2, <1>3 DEF IInv, SweptAreOver, Calm
<1> QED BY <1>4, <1>5, <1>6, <1>7 DEF IInv

LEMMA DeleteRulesStep ==
  ASSUME IInv, NEW a \in Requests,
         DeleteOthers(a) \/ \E b \in Bans : DeleteRules(a, b)
  PROVE  IInv'
<1>1. ASSUME NEW b \in Bans, DeleteRules(a, b) PROVE IInv'
  BY <1>1, StrikeStep DEF DeleteRules, Rules
<1>2. CASE DeleteOthers(a)
  BY <1>2, StrikeStep DEF DeleteOthers, Rules
<1> QED BY <1>1, <1>2

LEMMA AddLimitStep == ASSUME IInv, NEW a \in Actors, AddLimit(a) PROVE IInv'
<1>1. /\ "strike" \in Labels /\ Goto(a, "strike") /\ pc[a] = "strike" /\ Move
      /\ UNCHANGED <<table, enabled, offending, silent, policies, todo, job, nums,
                     undone, torn>>
  BY DEF AddLimit, Labels, world, locals
<1>2. PICK n \in 1 .. Len(chain) + 1 : chain' = InsertAt(chain, n, Foreign)
  BY DEF AddLimit
<1>3. /\ pc' \in [Actors -> Labels]
      /\ pc'[a] = "strike" /\ \A o \in Actors \ {a} : pc'[o] = pc[o]
      /\ overlapped' \in BOOLEAN /\ (overlapped => overlapped')
  BY <1>1, Moved
<1>4. SharedOK'
  <2>1. moves' \in 0 .. MaxMoves
    BY <1>1, Moving
  <2>2. chain' \in Seq(Rules)
    BY <1>2, Slipped DEF IInv, SharedOK
  <2> QED BY <1>1, <1>3, <2>1, <2>2 DEF IInv, SharedOK
<1>5. LocalsOK'
  <2>1. job[a] # None
    BY <1>1 DEF IInv, LocalsOK, JobsOK
  <2>2. job' \in [Actors -> Rules \cup {None}] /\ JobsOK'
    BY <1>1, <2>1, JobStays
  <2> QED BY <1>1, <1>3, <2>2 DEF IInv, LocalsOK
<1>6. LoopLiftsNone'
  BY <1>3 DEF IInv, LoopLiftsNone, Actors
<1>7. SweptAreOver'
  BY <1>1, <1>3 DEF IInv, SweptAreOver, Calm
<1> QED BY <1>4, <1>5, <1>6, <1>7 DEF IInv

LEMMA StruckStep == ASSUME IInv, NEW a \in Actors, Struck(a) PROVE IInv'
<1>1. /\ "idle" \in Labels /\ Goto(a, "idle") /\ job' = [job EXCEPT ![a] = None]
      /\ UNCHANGED <<table, chain, enabled, offending, silent, policies, todo, nums,
                     undone, torn, moves>>
  BY DEF Struck, Labels, world
<1>2. /\ pc' \in [Actors -> Labels]
      /\ pc'[a] = "idle" /\ \A o \in Actors \ {a} : pc'[o] = pc[o]
      /\ overlapped' \in BOOLEAN /\ (overlapped => overlapped')
  BY <1>1, Moved
<1>3. /\ job' \in [Actors -> Rules \cup {None}]
      /\ \A o \in Actors \ {a} : job'[o] = job[o]
      /\ JobsOK'
  <2>1. None # Foreign
    BY Fail2BanAssumption
  <2> QED BY <1>1, <2>1, JobFits
<1>4. SharedOK'
  BY <1>1, <1>2 DEF IInv, SharedOK
<1>5. LocalsOK'
  BY <1>1, <1>2, <1>3 DEF IInv, LocalsOK
<1>6. LoopLiftsNone'
  BY <1>2 DEF IInv, LoopLiftsNone, Actors
<1>7. SweptAreOver'
  BY <1>1, <1>2, <1>3 DEF IInv, SweptAreOver, Calm
<1> QED BY <1>4, <1>5, <1>6, <1>7 DEF IInv

\* The clean-up.
LEMMA BeginStep == ASSUME IInv, NEW a \in Actors, Begin(a) PROVE IInv'
<1>1. /\ "sweep" \in Labels /\ Goto(a, "sweep") /\ pc[a] \in {"begin", "idle"}
      /\ todo' = [todo EXCEPT ![a] = {b \in Bans : table[b] = "expired"}]
      /\ UNCHANGED <<table, chain, enabled, offending, silent, policies, job, nums, undone, torn, moves>>
  BY DEF Begin, Labels, world
<1>2. /\ pc' \in [Actors -> Labels]
      /\ pc'[a] = "sweep" /\ \A o \in Actors \ {a} : pc'[o] = pc[o]
      /\ overlapped' \in BOOLEAN /\ (overlapped => overlapped')
  BY <1>1, Moved
<1>3. SharedOK'
  BY <1>1, <1>2 DEF IInv, SharedOK
<1>4. todo' \in [Actors -> SUBSET Bans]
      /\ todo'[a] = {b \in Bans : table[b] = "expired"}
      /\ \A o \in Actors \ {a} : todo'[o] = todo[o]
  BY <1>1 DEF IInv, LocalsOK, JobsOK
<1>5. LocalsOK'
  <2>2. job' \in [Actors -> Rules \cup {None}] /\ JobsOK'
    BY <1>1, JobNone
  <2> QED BY <1>1, <1>2, <1>4, <2>2 DEF IInv, LocalsOK, JobsOK
<1>6. LoopLiftsNone'
  BY <1>2 DEF IInv, LoopLiftsNone, Actors
<1>7. SweptAreOver'
  BY <1>1, <1>2, <1>4 DEF IInv, SweptAreOver, Calm
<1> QED BY <1>2, <1>3, <1>5, <1>6, <1>7 DEF IInv

LEMMA SweepStep ==
  ASSUME IInv, NEW a \in Actors, NEW b \in Bans, Sweep(a, b)
  PROVE  IInv'
<1>1. /\ "cut" \in Labels /\ Goto(a, "cut") /\ pc[a] = "sweep" /\ b \in todo[a]
      /\ job' = [job EXCEPT ![a] = b] /\ nums' = [nums EXCEPT ![a] = Numbers(b)]
      /\ todo' = [todo EXCEPT ![a] = @ \ {b}]
      /\ UNCHANGED <<table, chain, enabled, offending, silent, policies, undone, torn, moves>>
  BY DEF Sweep, Labels, world
<1>2. /\ pc' \in [Actors -> Labels]
      /\ pc'[a] = "cut" /\ \A o \in Actors \ {a} : pc'[o] = pc[o]
      /\ overlapped' \in BOOLEAN /\ (overlapped => overlapped')
  BY <1>1, Moved
<1>3. b # None /\ b # Foreign /\ b \in Rules
  BY Fail2BanAssumption DEF Rules
<1>4. /\ job' \in [Actors -> Rules \cup {None}]
      /\ job'[a] = b /\ \A o \in Actors \ {a} : job'[o] = job[o]
      /\ JobsOK'
  BY <1>1, <1>3, JobFits
<1>5. SharedOK'
  BY <1>1, <1>2 DEF IInv, SharedOK
<1>6. todo' \in [Actors -> SUBSET Bans]
      /\ \A o \in Actors : todo'[o] \subseteq todo[o]
  BY <1>1 DEF IInv, LocalsOK, JobsOK
<1>7. LocalsOK'
  <2>1. nums' \in [Actors -> SUBSET Nat]
    BY <1>1, Numbered DEF IInv, LocalsOK, JobsOK
  <2> QED BY <1>1, <1>2, <1>4, <1>6, <2>1 DEF IInv, LocalsOK, JobsOK
<1>8. LoopLiftsNone'
  BY <1>2 DEF IInv, LoopLiftsNone, Actors
<1>9. SweptAreOver'
  BY <1>1, <1>2, <1>4, <1>6 DEF IInv, SweptAreOver, Calm
<1> QED BY <1>2, <1>5, <1>7, <1>8, <1>9 DEF IInv

\* A deletion by number, of the clean-up or of a request.
LEMMA CutStep == ASSUME IInv, NEW a \in Actors, Cut(a) PROVE IInv'
<1> DEFINE n == Max(nums[a])
<1>1. /\ pc[a] \in Deleting /\ pc[a] \in Labels /\ Goto(a, pc[a]) /\ nums[a] # {}
      /\ chain' = (IF n \in DOMAIN chain THEN RemoveAt(chain, n) ELSE chain)
      /\ nums' = [nums EXCEPT ![a] = @ \ {n}]
      /\ undone' = (IF pc[a] = "strike" /\ n \in DOMAIN chain
                    THEN undone \cup {chain[n]} ELSE undone)
      /\ UNCHANGED <<table, enabled, offending, silent, policies, todo, job, torn, moves>>
  BY DEF Cut, Labels, world
<1> HIDE DEF n
<1>2. /\ pc' \in [Actors -> Labels]
      /\ pc'[a] = pc[a] /\ \A o \in Actors \ {a} : pc'[o] = pc[o]
      /\ overlapped' \in BOOLEAN /\ (overlapped => overlapped')
  BY <1>1, Moved
<1>3. SharedOK'
  <2>1. chain \in Seq(Rules) /\ DOMAIN chain = 1 .. Len(chain)
    BY DEF IInv, SharedOK
  <2>2. chain' \in Seq(Rules)
    BY <1>1, <2>1, RemoveAtOK
  <2>3. undone' \subseteq Rules
    <3>1. n \in DOMAIN chain => chain[n] \in Rules
      BY <2>1
    <3> QED BY <1>1, <3>1 DEF IInv, SharedOK
  <2> QED BY <1>1, <1>2, <2>2, <2>3 DEF IInv, SharedOK
<1>4. LocalsOK'
  <2>1. nums' \in [Actors -> SUBSET Nat]
    BY <1>1 DEF IInv, LocalsOK, JobsOK
  <2>2. job[a] # None /\ (job[a] = Foreign => pc[a] = "strike")
    BY <1>1 DEF IInv, LocalsOK, JobsOK
  <2>3. job' \in [Actors -> Rules \cup {None}] /\ JobsOK'
    BY <1>1, <2>2, JobStays
  <2> QED BY <1>1, <1>2, <2>1, <2>3 DEF IInv, LocalsOK, JobsOK
<1>5. LoopLiftsNone'
  BY <1>2 DEF IInv, LoopLiftsNone, Actors
<1>6. SweptAreOver'
  BY <1>1, <1>2 DEF IInv, SweptAreOver, Calm
<1> QED BY <1>2, <1>3, <1>4, <1>5, <1>6 DEF IInv

LEMMA DropRowStep == ASSUME IInv, NEW a \in Actors, DropRow(a) PROVE IInv'
<1> DEFINE l == IF pc[a] = "cut" THEN "sweep" ELSE "idle"
<1>1. /\ l \in {"sweep", "idle"} /\ l \in Labels /\ Goto(a, l)
      /\ pc[a] \in {"cut", "lift"} /\ (l = "sweep" => pc[a] = "cut")
      /\ table' = [table EXCEPT ![job[a]] = "none"]
      /\ undone' = undone \ {job[a]}
      /\ job' = [job EXCEPT ![a] = None]
      /\ UNCHANGED <<chain, enabled, offending, silent, policies, todo, nums, torn, moves>>
  BY DEF DropRow, Labels, world
<1> HIDE DEF l
<1>2. /\ pc' \in [Actors -> Labels]
      /\ pc'[a] = l /\ \A o \in Actors \ {a} : pc'[o] = pc[o]
      /\ overlapped' \in BOOLEAN /\ (overlapped => overlapped')
  BY <1>1, Moved
<1>3. /\ job' \in [Actors -> Rules \cup {None}]
      /\ job'[a] = None /\ \A o \in Actors \ {a} : job'[o] = job[o]
      /\ JobsOK'
  <2>1. None # Foreign
    BY Fail2BanAssumption
  <2> QED BY <1>1, <2>1, JobFits
<1>4. table' \in [Bans -> {"none", "active", "expired"}]
      /\ \A b \in Bans : table'[b] = "active" => table[b] = "active"
  BY <1>1 DEF IInv, SharedOK
<1>5. SharedOK'
  BY <1>1, <1>2, <1>4 DEF IInv, SharedOK
<1>6. LocalsOK'
  BY <1>1, <1>2, <1>3 DEF IInv, LocalsOK, JobsOK
<1>7. LoopLiftsNone'
  BY <1>1, <1>2 DEF IInv, LoopLiftsNone, Actors
<1>8. SweptAreOver'
  <2> SUFFICES ASSUME Calm', NEW o \in Actors
               PROVE  /\ pc'[o] \in {"sweep", "cut"} => \A b \in todo'[o] : table'[b] # "active"
                      /\ pc'[o] = "cut" => table'[job'[o]] # "active"
    BY DEF SweptAreOver
  <2>1. Calm
    BY <1>1, <1>2 DEF Calm
  <2>2. pc'[o] \in {"sweep", "cut"} => pc[o] \in {"sweep", "cut"}
    BY <1>1, <1>2
  <2>3. todo[o] \subseteq Bans
    BY DEF IInv, LocalsOK, JobsOK
  <2>4. pc'[o] \in {"sweep", "cut"} => \A b \in todo'[o] : table'[b] # "active"
    BY <1>1, <1>4, <2>1, <2>2, <2>3 DEF IInv, SweptAreOver
  <2>5. pc'[o] = "cut" => o # a /\ pc[o] = "cut" /\ job'[o] = job[o] /\ job[o] \in Bans
    BY <1>1, <1>2, <1>3, AtBan
  <2>6. pc'[o] = "cut" => table'[job'[o]] # "active"
    BY <1>4, <2>1, <2>5 DEF IInv, SweptAreOver
  <2> QED BY <2>4, <2>6
<1> QED BY <1>2, <1>5, <1>6, <1>7, <1>8 DEF IInv
\* The policies.
LEMMA LoadPoliciesStep == ASSUME IInv, NEW a \in Actors, LoadPolicies(a) PROVE IInv'
<1>1. /\ "policies" \in Labels /\ Goto(a, "policies") /\ pc[a] = "sweep"
      /\ policies' = [policies EXCEPT ![a] = enabled]
      /\ UNCHANGED <<table, chain, enabled, offending, silent, todo, job, nums, undone, torn, moves>>
  BY DEF LoadPolicies, Labels, world
<1>2. /\ pc' \in [Actors -> Labels]
      /\ pc'[a] = "policies" /\ \A o \in Actors \ {a} : pc'[o] = pc[o]
      /\ overlapped' \in BOOLEAN /\ (overlapped => overlapped')
  BY <1>1, Moved
<1>3. SharedOK'
  BY <1>1, <1>2 DEF IInv, SharedOK
<1>4. LocalsOK'
  <2>1. policies' \in [Actors -> SUBSET Servers]
    BY <1>1 DEF IInv, LocalsOK, JobsOK, SharedOK
  <2>3. job' \in [Actors -> Rules \cup {None}] /\ JobsOK'
    BY <1>1, JobNone
  <2> QED BY <1>1, <1>2, <2>1, <2>3 DEF IInv, LocalsOK, JobsOK
<1>5. LoopLiftsNone'
  BY <1>2 DEF IInv, LoopLiftsNone, Actors
<1>6. SweptAreOver'
  BY <1>1, <1>2 DEF IInv, SweptAreOver, Calm
<1> QED BY <1>2, <1>3, <1>4, <1>5, <1>6 DEF IInv

LEMMA FindOffendersStep ==
  ASSUME IInv, NEW a \in Actors, NEW s \in Servers, FindOffenders(a, s)
  PROVE  IInv'
<1>1. /\ "judge" \in Labels /\ Goto(a, "judge") /\ pc[a] = "policies"
      /\ policies' = [policies EXCEPT ![a] = @ \ {s}]
      /\ todo' = [todo EXCEPT ![a] = {b \in offending : ServerOf[b] = s}]
      /\ UNCHANGED <<table, chain, enabled, offending, silent, job, nums, undone, torn, moves>>
  BY DEF FindOffenders, Labels, world
<1>2. /\ pc' \in [Actors -> Labels]
      /\ pc'[a] = "judge" /\ \A o \in Actors \ {a} : pc'[o] = pc[o]
      /\ overlapped' \in BOOLEAN /\ (overlapped => overlapped')
  BY <1>1, Moved
<1>3. SharedOK'
  BY <1>1, <1>2 DEF IInv, SharedOK
<1>4. /\ todo' \in [Actors -> SUBSET Bans] /\ policies' \in [Actors -> SUBSET Servers]
      /\ \A o \in Actors \ {a} : todo'[o] = todo[o]
  BY <1>1 DEF IInv, LocalsOK, JobsOK, SharedOK
<1>5. LocalsOK'
  <2>2. job' \in [Actors -> Rules \cup {None}] /\ JobsOK'
    BY <1>1, JobNone
  <2> QED BY <1>1, <1>2, <1>4, <2>2 DEF IInv, LocalsOK, JobsOK
<1>6. LoopLiftsNone'
  BY <1>2 DEF IInv, LoopLiftsNone, Actors
<1>7. SweptAreOver'
  BY <1>1, <1>2, <1>4 DEF IInv, SweptAreOver, Calm
<1> QED BY <1>2, <1>3, <1>5, <1>6, <1>7 DEF IInv

LEMMA JudgeStep ==
  ASSUME IInv, NEW a \in Actors, NEW b \in Bans, Judge(a, b)
  PROVE  IInv'
<1> DEFINE l == IF table[b] = "active" THEN "extend" ELSE "add"
<1>1. /\ l \in {"extend", "add"} /\ l \in Labels /\ Goto(a, l) /\ pc[a] = "judge"
      /\ job' = [job EXCEPT ![a] = b] /\ todo' = [todo EXCEPT ![a] = @ \ {b}]
      /\ UNCHANGED <<table, chain, enabled, offending, silent, policies, nums, undone, torn, moves>>
  BY DEF Judge, Labels, world
<1> HIDE DEF l
<1>2. /\ pc' \in [Actors -> Labels]
      /\ pc'[a] = l /\ \A o \in Actors \ {a} : pc'[o] = pc[o]
      /\ overlapped' \in BOOLEAN /\ (overlapped => overlapped')
  BY <1>1, Moved
<1>3. b # None /\ b # Foreign /\ b \in Rules
  BY Fail2BanAssumption DEF Rules
<1>4. /\ job' \in [Actors -> Rules \cup {None}]
      /\ job'[a] = b /\ \A o \in Actors \ {a} : job'[o] = job[o]
      /\ JobsOK'
  BY <1>1, <1>3, JobFits
<1>5. SharedOK'
  BY <1>1, <1>2 DEF IInv, SharedOK
<1>6. todo' \in [Actors -> SUBSET Bans] /\ \A o \in Actors \ {a} : todo'[o] = todo[o]
  BY <1>1 DEF IInv, LocalsOK, JobsOK
<1>7. LocalsOK'
  BY <1>1, <1>2, <1>4, <1>6 DEF IInv, LocalsOK, JobsOK
<1>8. LoopLiftsNone'
  BY <1>1, <1>2 DEF IInv, LoopLiftsNone, Actors
<1>9. SweptAreOver'
  BY <1>1, <1>2, <1>4, <1>6 DEF IInv, SweptAreOver, Calm
<1> QED BY <1>2, <1>5, <1>7, <1>8, <1>9 DEF IInv

\* A row that is written makes a ban in force, and nobody else is at work.
LEMMA WrittenStep ==
  ASSUME IInv, NEW a \in Actors, pc[a] \in {"extend", "record"},
         NEW l \in {"judge", "mail"}, Goto(a, l),
         table' = [table EXCEPT ![job[a]] = table'[job[a]]],
         table'[job[a]] \in {"none", "active"},
         undone' \subseteq undone,
         job' = [job EXCEPT ![a] = None],
         UNCHANGED <<chain, world, policies, todo, nums, torn, moves>>
  PROVE  IInv'
<1>1. l \in Labels /\ l \notin AtWork /\ None # Foreign
      /\ UNCHANGED <<enabled, offending, silent>>
  BY Fail2BanAssumption DEF Labels, world
<1>2. /\ pc' \in [Actors -> Labels]
      /\ pc'[a] = l /\ \A o \in Actors \ {a} : pc'[o] = pc[o]
      /\ overlapped' \in BOOLEAN /\ (overlapped => overlapped')
      /\ (~overlapped' => \A o \in Actors \ {a} : pc[o] = "idle")
  BY <1>1, Moved
<1>3. /\ job' \in [Actors -> Rules \cup {None}]
      /\ JobsOK'
  BY <1>1, JobFits
<1>4. table' \in [Bans -> {"none", "active", "expired"}]
  BY DEF IInv, SharedOK
<1>5. SharedOK'
  BY <1>1, <1>2, <1>4 DEF IInv, SharedOK
<1>6. LocalsOK'
  BY <1>2, <1>3 DEF IInv, LocalsOK, JobsOK
<1>7. LoopLiftsNone'
  BY <1>2 DEF IInv, LoopLiftsNone, Actors
<1>8. SweptAreOver'
  BY <1>2 DEF SweptAreOver, Calm
<1> QED BY <1>2, <1>5, <1>6, <1>7, <1>8 DEF IInv

LEMMA ExtendStep == ASSUME IInv, NEW a \in Actors, Extend(a) PROVE IInv'
<1>1. pc[a] = "extend" /\ job[a] \in Bans
  BY AtBan DEF Extend
<1>2. table \in [Bans -> {"none", "active", "expired"}]
  BY DEF IInv, SharedOK
<1>3. table' = [table EXCEPT ![job[a]] = IF @ = "none" THEN "none" ELSE "active"]
  BY DEF Extend
<1>4. /\ table' = [table EXCEPT ![job[a]] = table'[job[a]]]
      /\ table'[job[a]] \in {"none", "active"}
  BY <1>1, <1>2, <1>3
<1> QED BY <1>1, <1>4, WrittenStep DEF Extend

LEMMA RecordStep == ASSUME IInv, NEW a \in Actors, Record(a) PROVE IInv'
<1>1. pc[a] = "record" /\ job[a] \in Bans
  BY AtBan DEF Record
<1>2. table \in [Bans -> {"none", "active", "expired"}]
  BY DEF IInv, SharedOK
<1>3. table' = [table EXCEPT ![job[a]] = "active"]
  BY DEF Record
<1>4. /\ table' = [table EXCEPT ![job[a]] = table'[job[a]]]
      /\ table'[job[a]] \in {"none", "active"}
  BY <1>1, <1>2, <1>3
<1> QED BY <1>1, <1>4, WrittenStep DEF Record

LEMMA AddRuleStep == ASSUME IInv, NEW a \in Actors, AddRule(a) PROVE IInv'
<1>1. /\ "record" \in Labels /\ Goto(a, "record") /\ pc[a] = "add"
      /\ chain' = <<job[a]>> \o chain
      /\ UNCHANGED <<table, enabled, offending, silent, policies, todo, job, nums, undone, torn, moves>>
  BY DEF AddRule, Labels, world
<1>2. /\ pc' \in [Actors -> Labels]
      /\ pc'[a] = "record" /\ \A o \in Actors \ {a} : pc'[o] = pc[o]
      /\ overlapped' \in BOOLEAN /\ (overlapped => overlapped')
  BY <1>1, Moved
<1>3. job[a] # None /\ job[a] \in Rules /\ job[a] # Foreign
  BY <1>1, AtBan, Fail2BanAssumption
<1>4. SharedOK'
  <2>1. chain' \in Seq(Rules)
    BY <1>1, <1>3 DEF IInv, SharedOK
  <2> QED BY <1>1, <1>2, <2>1 DEF IInv, SharedOK
<1>5. LocalsOK'
  <2>1. /\ job' \in [Actors -> Rules \cup {None}]
        /\ JobsOK'
    BY <1>1, <1>3, JobStays
  <2> QED BY <1>1, <1>2, <2>1 DEF IInv, LocalsOK, JobsOK
<1>6. LoopLiftsNone'
  BY <1>2 DEF IInv, LoopLiftsNone, Actors
<1>7. SweptAreOver'
  BY <1>1, <1>2 DEF IInv, SweptAreOver, Calm
<1> QED BY <1>2, <1>4, <1>5, <1>6, <1>7 DEF IInv

\* A mail, the next policy, and the end of a round.
LEMMA OnwardStep ==
  ASSUME IInv, NEW a \in Actors, Mail(a) \/ NextPolicy(a) \/ Finish(a)
  PROVE  IInv'
<1>1. PICK l \in {"judge", "policies", "idle"} :
        /\ Goto(a, l) /\ pc[a] \in {"mail", "judge", "policies"}
        /\ UNCHANGED <<table, chain, enabled, offending, silent, policies, todo, job, nums, undone, torn, moves>>
  BY DEF Mail, NextPolicy, Finish, world, locals
<1>2. l \in Labels
  BY DEF Labels
<1>3. /\ pc' \in [Actors -> Labels]
      /\ pc'[a] = l /\ \A o \in Actors \ {a} : pc'[o] = pc[o]
      /\ overlapped' \in BOOLEAN /\ (overlapped => overlapped')
  BY <1>1, <1>2, Moved
<1>4. SharedOK'
  BY <1>1, <1>3 DEF IInv, SharedOK
<1>5. LocalsOK'
  <2>2. job' \in [Actors -> Rules \cup {None}] /\ JobsOK'
    BY <1>1, <1>2, JobNone
  <2> QED BY <1>1, <1>3, <2>2 DEF IInv, LocalsOK, JobsOK
<1>6. LoopLiftsNone'
  BY <1>1, <1>3 DEF IInv, LoopLiftsNone, Actors
<1>7. SweptAreOver'
  BY <1>1, <1>3 DEF IInv, SweptAreOver, Calm
<1> QED BY <1>3, <1>4, <1>5, <1>6, <1>7 DEF IInv
\* Time, traffic and other rules.
LEMMA ExpireStep == ASSUME IInv, NEW b \in Bans, Expire(b) PROVE IInv'
<1>1. /\ table' = [table EXCEPT ![b] = "expired"] /\ (UNCHANGED moves \/ Move)
      /\ UNCHANGED <<chain, enabled, offending, silent, pc, policies, todo, job, nums,
                     undone, overlapped, torn>>
  BY DEF Expire, world, locals
<1>2. moves' \in 0 .. MaxMoves
  BY <1>1, Moving DEF IInv, SharedOK
<1>3. table' \in [Bans -> {"none", "active", "expired"}]
      /\ \A c \in Bans : table'[c] = "active" => table[c] = "active"
  BY <1>1 DEF IInv, SharedOK
<1>4. SharedOK' /\ LocalsOK' /\ LoopLiftsNone'
  BY <1>1, <1>2, <1>3 DEF IInv, SharedOK, LocalsOK, JobsOK, LoopLiftsNone
<1>5. \A a \in Actors : /\ todo[a] \subseteq Bans
                        /\ pc[a] = "cut" => job[a] \in Bans
  BY AtBan DEF IInv, LocalsOK
<1>6. SweptAreOver'
  BY <1>1, <1>3, <1>5 DEF IInv, SweptAreOver, Calm
<1> QED BY <1>4, <1>6 DEF IInv

LEMMA ToggleOffenceStep == ASSUME IInv, NEW b \in Bans, ToggleOffence(b) PROVE IInv'
<1>1. /\ Move
      /\ offending' = (IF b \in offending THEN offending \ {b} ELSE offending \cup {b})
      /\ UNCHANGED <<table, chain, enabled, silent, pc, policies, todo, job, nums, undone,
                     overlapped, torn>>
  BY DEF ToggleOffence, locals
<1>2. moves' \in 0 .. MaxMoves
  BY <1>1, Moving
<1>3. SharedOK' /\ LocalsOK' /\ LoopLiftsNone'
  BY <1>1, <1>2 DEF IInv, SharedOK, LocalsOK, JobsOK, LoopLiftsNone
<1>4. SweptAreOver'
  BY <1>1 DEF IInv, SweptAreOver, Calm
<1> QED BY <1>3, <1>4 DEF IInv

LEMMA MailServerStep == ASSUME IInv, MailServer PROVE IInv'
<1>1. /\ silent' = ~silent
      /\ UNCHANGED <<table, chain, enabled, offending, pc, policies, todo, job, nums,
                     undone, overlapped, torn, moves>>
  BY DEF MailServer, locals
<1>2. silent' \in BOOLEAN
  BY <1>1, Zenon
<1>3. SharedOK' /\ LocalsOK' /\ LoopLiftsNone'
  BY <1>1, <1>2 DEF IInv, SharedOK, LocalsOK, JobsOK, LoopLiftsNone
<1>4. SweptAreOver'
  BY <1>1 DEF IInv, SweptAreOver, Calm
<1> QED BY <1>3, <1>4 DEF IInv

LEMMA InsertForeignStep == ASSUME IInv, InsertForeign PROVE IInv'
<1>1. /\ Move /\ overlapped' = (overlapped \/ Busy # {})
      /\ UNCHANGED <<table, enabled, offending, silent, pc, policies, todo, job, nums,
                     undone, torn>>
  BY DEF InsertForeign, world, locals
<1>2. overlapped' \in BOOLEAN /\ (overlapped => overlapped')
  BY <1>1, Zenon DEF IInv, SharedOK
<1>3. moves' \in 0 .. MaxMoves
  BY <1>1, Moving
<1>4. chain' \in Seq(Rules)
  BY Slipped DEF InsertForeign, IInv, SharedOK
<1>5. SharedOK' /\ LocalsOK'
  BY <1>1, <1>2, <1>3, <1>4 DEF IInv, SharedOK, LocalsOK, JobsOK
<1>6. LoopLiftsNone'
  BY <1>1, <1>2 DEF IInv, LoopLiftsNone
<1>7. SweptAreOver'
  BY <1>1, <1>2 DEF IInv, SweptAreOver, Calm
<1> QED BY <1>5, <1>6, <1>7 DEF IInv

\* Faults.
LEMMA StepFailsStep == ASSUME IInv, NEW a \in Actors, StepFails(a) PROVE IInv'
<1>1. /\ Move /\ torn' = TRUE
      /\ UNCHANGED <<table, chain, enabled, offending, silent, undone>>
  BY DEF StepFails, world
<1>2. moves' \in 0 .. MaxMoves
  BY <1>1, Moving
<1>3. SweptAreOver'
  BY <1>1 DEF SweptAreOver, Calm
<1>4. ASSUME NEW l \in Labels \ {"lift"}, Goto(a, l), LocalsOK' PROVE IInv'
  <2>1. /\ pc' \in [Actors -> Labels]
        /\ pc'[a] = l /\ \A o \in Actors \ {a} : pc'[o] = pc[o]
        /\ overlapped' \in BOOLEAN
    BY <1>4, Moved
  <2>2. SharedOK'
    BY <1>1, <1>2, <2>1 DEF IInv, SharedOK
  <2>3. LoopLiftsNone'
    BY <2>1 DEF IInv, LoopLiftsNone, Actors
  <2> QED BY <1>3, <1>4, <2>2, <2>3 DEF IInv
<1>5. CASE DeletionFails(a)
  <2>1. pc[a] \in Labels /\ pc[a] \in Deleting /\ Goto(a, pc[a]) /\ job' = job
        /\ UNCHANGED <<policies, todo>>
    BY <1>5 DEF DeletionFails, Labels
  <2>2. job[a] # None /\ (job[a] = Foreign => pc[a] = "strike")
    BY <2>1 DEF IInv, LocalsOK, JobsOK
  <2>3. /\ job' \in [Actors -> Rules \cup {None}]
        /\ JobsOK'
    BY <2>1, <2>2, JobStays
  <2>4. nums' \in [Actors -> SUBSET Nat]
    BY <1>5 DEF DeletionFails, IInv, LocalsOK
  <2>5. /\ pc' \in [Actors -> Labels]
        /\ pc'[a] = pc[a] /\ \A o \in Actors \ {a} : pc'[o] = pc[o]
        /\ overlapped' \in BOOLEAN
    BY <2>1, Moved
  <2>6. LocalsOK'
    BY <2>1, <2>3, <2>4, <2>5 DEF IInv, LocalsOK
  <2>7. SharedOK'
    BY <1>1, <1>2, <2>5 DEF IInv, SharedOK
  <2>8. LoopLiftsNone'
    BY <2>5 DEF IInv, LoopLiftsNone, Actors
  <2> QED BY <1>3, <2>6, <2>7, <2>8 DEF IInv
<1>6. CASE StatementFails(a)
  <2>1. PICK l \in {"sweep", "idle", "judge"} : Goto(a, l)
    BY <1>6 DEF StatementFails
  <2>2. l \in Labels \ {"lift"} /\ l \notin AtWork
    BY DEF Labels
  <2>3. job' = [job EXCEPT ![a] = None] /\ UNCHANGED <<policies, todo, nums>>
    BY <1>6 DEF StatementFails
  <2>4. /\ job' \in [Actors -> Rules \cup {None}]
        /\ JobsOK'
    <3>1. None # Foreign
      BY Fail2BanAssumption
    <3> QED BY <2>1, <2>2, <2>3, <3>1, JobFits
  <2>5. pc' \in [Actors -> Labels]
    BY <2>1, <2>2, Moved
  <2>6. LocalsOK'
    BY <2>3, <2>4, <2>5 DEF IInv, LocalsOK
  <2> QED BY <1>4, <2>1, <2>2, <2>6
<1>7. CASE QueryFails(a)
  <2>1. /\ pc[a] \in {"sweep", "judge", "policies"} /\ pc[a] \in Labels \ {"lift"}
        /\ Goto(a, pc[a]) /\ job' = job /\ nums' = nums
    BY <1>7 DEF QueryFails, Labels
  <2>2. pc[a] \notin AtWork
    BY <2>1
  <2>3. /\ job' \in [Actors -> Rules \cup {None}]
        /\ JobsOK'
    BY <2>1, <2>2, JobNone
  <2>4. todo' \in [Actors -> SUBSET Bans] /\ policies' \in [Actors -> SUBSET Servers]
    BY <1>7 DEF QueryFails, IInv, LocalsOK
  <2>5. pc' \in [Actors -> Labels]
    BY <2>1, Moved
  <2>6. LocalsOK'
    BY <2>1, <2>3, <2>4, <2>5 DEF IInv, LocalsOK
  <2> QED BY <1>4, <2>1, <2>6
<1> QED BY <1>5, <1>6, <1>7 DEF StepFails

LEMMA CrashStep == ASSUME IInv, Crash PROVE IInv'
<1>1. /\ Move /\ chain' \in {chain, <<>>} /\ torn' = TRUE
      /\ UNCHANGED <<table, enabled, offending, silent, undone, overlapped>>
  BY DEF Crash, world
<1>2. /\ pc' = [a \in Actors |-> "idle"]
      /\ policies' = [a \in Actors |-> {}] /\ todo' = [a \in Actors |-> {}]
      /\ job' = [a \in Actors |-> None] /\ nums' = [a \in Actors |-> {}]
  BY DEF Crash
<1>3. moves' \in 0 .. MaxMoves
  BY <1>1, Moving
<1>4. chain' \in Seq(Rules)
  <2>1. <<>> \in Seq(Rules)
    OBVIOUS
  <2> QED BY <1>1, <2>1 DEF IInv, SharedOK
<1>5. SharedOK'
  BY <1>1, <1>3, <1>4 DEF IInv, SharedOK
<1>6. LocalsOK'
  <2>1. JobsOK'
    BY <1>2, Fail2BanAssumption DEF JobsOK
  <2> QED BY <1>2, <2>1 DEF LocalsOK, Labels
<1>7. LoopLiftsNone'
  BY <1>2 DEF LoopLiftsNone, Actors
<1>8. SweptAreOver'
  BY <1>1 DEF SweptAreOver, Calm
<1> QED BY <1>5, <1>6, <1>7, <1>8 DEF IInv

LEMMA EnforceStep == ASSUME IInv, NEW a \in Actors, Enforce(a) PROVE IInv'
<1>1. ASSUME NEW b \in Bans, Sweep(a, b) \/ Judge(a, b) PROVE IInv'
  BY <1>1, SweepStep, JudgeStep
<1>2. ASSUME Cut(a) \/ DropRow(a) \/ LoadPolicies(a) PROVE IInv'
  BY <1>2, CutStep, DropRowStep, LoadPoliciesStep
<1>3. ASSUME NEW s \in Servers, FindOffenders(a, s) PROVE IInv'
  BY <1>3, FindOffendersStep
<1>4. ASSUME \/ Struck(a) \/ Extend(a) \/ AddRule(a) \/ Record(a)
             \/ Mail(a) \/ NextPolicy(a) \/ Finish(a)
      PROVE  IInv'
  BY <1>4, StruckStep, ExtendStep, AddRuleStep, RecordStep, OnwardStep
<1> QED BY <1>1, <1>2, <1>3, <1>4 DEF Enforce

LEMMA NextIInv == IInv /\ [Next]_vars => IInv'
<1> SUFFICES ASSUME IInv, [Next]_vars PROVE IInv'
  OBVIOUS
<1>1. ASSUME NEW a \in Requests, NEW s \in Servers, NEW on \in BOOLEAN,
             SavePolicy(a, s, on)
      PROVE  IInv'
  BY <1>1, SavePolicyStep DEF Actors
<1>2. ASSUME NEW a \in Requests,
             \/ \E b \in Bans : Unban(a, b) \/ DeleteRules(a, b)
             \/ DeleteOthers(a) \/ AddLimit(a)
      PROVE  IInv'
  BY <1>2, UnbanStep, DeleteRulesStep, AddLimitStep DEF Actors
<1>3. ASSUME NEW a \in Actors, Begin(a) \/ Enforce(a) \/ StepFails(a) PROVE IInv'
  BY <1>3, BeginStep, EnforceStep, StepFailsStep
<1>4. ASSUME NEW b \in Bans, Expire(b) \/ ToggleOffence(b) PROVE IInv'
  BY <1>4, ExpireStep, ToggleOffenceStep
<1>5. ASSUME InsertForeign \/ MailServer \/ Crash PROVE IInv'
  BY <1>5, InsertForeignStep, MailServerStep, CrashStep
<1>6. ASSUME UNCHANGED vars PROVE IInv'
  <2>1. UNCHANGED <<table, chain, enabled, offending, silent, pc, policies, todo, job, nums,
                    undone, overlapped, torn, moves>>
    BY <1>6 DEF vars, world, locals
  <2>2. SharedOK' /\ LocalsOK' /\ LoopLiftsNone'
    BY <2>1 DEF IInv, SharedOK, LocalsOK, JobsOK, LoopLiftsNone
  <2>3. SweptAreOver'
    BY <2>1 DEF IInv, SweptAreOver, Calm
  <2> QED BY <2>2, <2>3 DEF IInv
<1> QED BY <1>1, <1>2, <1>3, <1>4, <1>5, <1>6 DEF Next

LEMMA Invariant == Spec => []IInv
BY InitIInv, NextIInv, PTL DEF Spec

\* The types, and that a goroutine has a ban at hand exactly where it acts on one.
THEOREM TypeCorrect == Spec => []TypeOK
<1>1. IInv => TypeOK
  BY Parts DEF IInv
<1> QED BY <1>1, Invariant, PTL

\* The row of a ban in force is deleted by the request that lifts it and by
\* nothing else, as long as goroutines take turns and nothing fails
\* (cleanupExpiredFail2BanBans, UnbanFail2BanIP).
THEOREM BanIsKept == Spec => BanKept
<1>1. ASSUME IInv, [Next]_vars, NEW b \in Bans, Calm, Calm',
             table[b] = "active", table'[b] = "none"
      PROVE  \E a \in Requests : pc[a] = "lift" /\ job[a] = b
  <2>1. table \in [Bans -> {"none", "active", "expired"}]
    BY <1>1 DEF IInv, SharedOK
  <2>2. table'[b] # table[b]
    BY <1>1
  <2>3. PICK a \in Actors : DropRow(a)
    <3>1. ASSUME NEW a \in Requests, NEW s \in Servers, NEW on \in BOOLEAN,
                 SavePolicy(a, s, on)
          PROVE  FALSE
      BY <2>2, <3>1 DEF SavePolicy
    <3>2. ASSUME NEW a \in Requests,
                 \/ \E c \in Bans : Unban(a, c) \/ DeleteRules(a, c)
                 \/ DeleteOthers(a) \/ AddLimit(a)
          PROVE  FALSE
      BY <2>2, <3>2 DEF Unban, DeleteRules, DeleteOthers, AddLimit
    <3>3. ASSUME NEW a \in Actors, Begin(a) \/ StepFails(a) PROVE FALSE
      BY <2>2, <3>3 DEF Begin, StepFails
    <3>4. ASSUME NEW c \in Bans, Expire(c) \/ ToggleOffence(c) PROVE FALSE
      BY <1>1, <2>1, <2>2, <3>4 DEF Expire, ToggleOffence
    <3>5. ASSUME InsertForeign \/ MailServer \/ Crash \/ UNCHANGED vars PROVE FALSE
      BY <2>2, <3>5 DEF InsertForeign, MailServer, Crash, vars
    <3>6. ASSUME NEW a \in Actors, Enforce(a), ~DropRow(a) PROVE FALSE
      <4>1. ASSUME NEW c \in Bans, Sweep(a, c) \/ Judge(a, c) PROVE FALSE
        BY <2>2, <4>1 DEF Sweep, Judge
      <4>2. ASSUME \/ Cut(a) \/ Struck(a) \/ LoadPolicies(a) \/ Mail(a)
                   \/ NextPolicy(a) \/ Finish(a) \/ AddRule(a)
            PROVE  FALSE
        BY <2>2, <4>2 DEF Cut, Struck, LoadPolicies, Mail, NextPolicy, Finish, AddRule
      <4>3. ASSUME NEW s \in Servers, FindOffenders(a, s) PROVE FALSE
        BY <2>2, <4>3 DEF FindOffenders
      <4>4. ASSUME Extend(a) PROVE FALSE
        BY <1>1, <2>1, <2>2, <4>4 DEF Extend
      <4>5. ASSUME Record(a) PROVE FALSE
        BY <1>1, <2>1, <2>2, <4>5 DEF Record
      <4> QED BY <3>6, <4>1, <4>2, <4>3, <4>4, <4>5 DEF Enforce
    <3> QED BY <1>1, <3>1, <3>2, <3>3, <3>4, <3>5, <3>6 DEF Next
  <2>4. pc[a] \in {"cut", "lift"} /\ table' = [table EXCEPT ![job[a]] = "none"]
    BY <2>3 DEF DropRow
  <2>5. job[a] = b
    BY <2>1, <2>2, <2>4
  <2>6. pc[a] = "lift"
    BY <1>1, <2>4, <2>5 DEF IInv, SweptAreOver
  <2>7. a \in Requests
    BY <1>1, <2>6 DEF IInv, LoopLiftsNone, Actors
  <2> QED BY <2>5, <2>6, <2>7
<1>2. IInv /\ [Next]_vars =>
        [\A b \in Bans : Calm /\ Calm' /\ table[b] = "active" /\ table'[b] = "none"
           => \E a \in Requests : pc[a] = "lift" /\ job[a] = b]_vars
  BY <1>1
<1> QED BY <1>2, Invariant, PTL DEF Spec, BanKept
-----------------------------------------------------------------------------
(* No rule of others is deleted, whatever else a comment finds. *)

Others == RulesOf(Foreign)

\* The numbers that are still to be deleted are of rules the comment has found.
NumsOK ==
  Calm => \A a \in Actors :
    pc[a] \in Deleting => nums[a] \subseteq Numbers(job[a])

FInv == IInv /\ NumsOK

\* A step after which nobody has come in between: nobody else is at a ban.
LEMMA AloneAtWork ==
  ASSUME IInv, NEW a \in Actors, NEW l \in Labels, Goto(a, l), torn' = torn, Calm'
  PROVE  /\ Calm /\ pc'[a] = l
         /\ \A o \in Actors \ {a} : pc[o] = "idle" /\ pc'[o] = "idle"
<1>1. /\ pc'[a] = l /\ \A o \in Actors \ {a} : pc'[o] = pc[o]
      /\ overlapped' \in BOOLEAN /\ (overlapped => overlapped')
      /\ ~overlapped' => \A o \in Actors \ {a} : pc[o] = "idle"
  BY Moved
<1>2. ~overlapped' /\ ~torn'
  BY DEF Calm
<1>3. Calm
  BY <1>1, <1>2 DEF Calm
<1> QED BY <1>1, <1>2, <1>3

\* A one-to-one renumbering of the rules of others keeps their number.
LEMMA SameMany ==
  ASSUME NEW n \in Nat, NEW S \in SUBSET (1 .. n), NEW T, NEW f \in [S -> T],
         \A i, j \in S : f[i] = f[j] => i = j, \A k \in T : \E i \in S : f[i] = k
  PROVE  Cardinality(T) = Cardinality(S)
<1>1. IsFiniteSet(S)
  <2>1. IsFiniteSet(1 .. n)
    BY FS_Interval
  <2> QED BY <2>1, FS_Subset
<1>2. f \in Injection(S, T)
  BY DEF Injection, IsInjective
<1>3. f \in Surjection(S, T)
  BY DEF Surjection
<1>4. ExistsBijection(S, T)
  BY <1>2, <1>3 DEF ExistsBijection, Bijection
<1> QED BY <1>1, <1>4, FS_Bijection

LEMMA OthersShift ==
  ASSUME chain \in Seq(Rules), NEW b \in Bans, chain' = <<b>> \o chain
  PROVE  Cardinality(Others') = Cardinality(Others)
<1>1. /\ Len(chain) \in Nat /\ Len(chain') = Len(chain) + 1
      /\ chain'[1] = b /\ \A i \in 1 .. Len(chain) : chain'[i + 1] = chain[i]
      /\ DOMAIN chain = 1 .. Len(chain) /\ DOMAIN chain' = 1 .. Len(chain) + 1
  OBVIOUS
<1>2. b # Foreign
  BY Fail2BanAssumption
<1> DEFINE f == [i \in Others |-> i + 1]
<1>3. \A i : i \in Others <=> i \in 1 .. Len(chain) /\ chain[i] = Foreign
  BY <1>1 DEF Others, RulesOf
<1>4. \A i : i \in Others' <=> i \in 1 .. Len(chain) + 1 /\ chain'[i] = Foreign
  BY <1>1 DEF Others, RulesOf
<1> DEFINE S == Others  T == Others'
<1> HIDE DEF S, T
<1>5. f \in [S -> T]
  <2>1. ASSUME NEW i \in S PROVE i + 1 \in T
    <3>1. i \in 1 .. Len(chain) /\ chain[i] = Foreign
      BY <1>3 DEF S
    <3>2. i + 1 \in 1 .. Len(chain) + 1
      BY <1>1, <3>1
    <3>3. chain'[i + 1] = Foreign
      BY <1>1, <3>1
    <3> QED BY <1>4, <3>2, <3>3 DEF T
  <2> QED BY <2>1 DEF S
<1>6. \A i, j \in S : f[i] = f[j] => i = j
  <2>1. S \subseteq Int
    BY <1>3 DEF S
  <2> QED BY <2>1 DEF S
<1>7. \A k \in T : \E i \in S : f[i] = k
  <2> SUFFICES ASSUME NEW k \in T PROVE \E i \in S : f[i] = k
    OBVIOUS
  <2>1. k \in 1 .. Len(chain) + 1 /\ chain'[k] = Foreign
    BY <1>4 DEF T
  <2>2. k # 1
    BY <1>1, <1>2, <2>1
  <2>3. k - 1 \in 1 .. Len(chain) /\ (k - 1) + 1 = k
    BY <1>1, <2>1, <2>2
  <2>4. k - 1 \in S
    BY <1>1, <1>3, <2>1, <2>3 DEF S
  <2> QED BY <2>3, <2>4 DEF S
<1>8. S \in SUBSET (1 .. Len(chain))
  BY <1>3 DEF S
<1> HIDE DEF f
<1>9. Cardinality(T) = Cardinality(S)
  BY <1>1, <1>5, <1>6, <1>7, <1>8, SameMany
<1> QED BY <1>9 DEF S, T

LEMMA OthersClose ==
  ASSUME chain \in Seq(Rules), NEW n \in DOMAIN chain, chain[n] # Foreign,
         chain' = RemoveAt(chain, n)
  PROVE  Cardinality(Others') = Cardinality(Others)
<1> DEFINE t == RemoveAt(chain, n)
<1>1. Len(chain) \in Nat /\ DOMAIN chain = 1 .. Len(chain) /\ n \in 1 .. Len(chain)
  OBVIOUS
<1>2. /\ t \in Seq(Rules) /\ Len(t) = Len(chain) - 1
      /\ \A i \in 1 .. Len(chain) - 1 : t[i] = IF i < n THEN chain[i] ELSE chain[i + 1]
  BY <1>1, RemoveAtOK
<1>3. chain' = t
  OBVIOUS
<1> HIDE DEF t
<1>4. DOMAIN chain' = 1 .. Len(chain) - 1
  BY <1>1, <1>2, <1>3
<1>5. \A i : i \in Others <=> i \in 1 .. Len(chain) /\ chain[i] = Foreign
  BY <1>1 DEF Others, RulesOf
<1>6. \A i : i \in Others' <=> i \in 1 .. Len(chain) - 1 /\ t[i] = Foreign
  BY <1>3, <1>4 DEF Others, RulesOf
<1> DEFINE S == Others  T == Others'  f == [i \in S |-> IF i < n THEN i ELSE i - 1]
<1> HIDE DEF S, T
<1>7. \A i \in S : i \in 1 .. Len(chain) /\ i # n /\ chain[i] = Foreign
  BY <1>5 DEF S
<1>8. f \in [S -> T]
  <2>1. ASSUME NEW i \in S PROVE (IF i < n THEN i ELSE i - 1) \in T
    <3>1. i \in 1 .. Len(chain) /\ i # n /\ chain[i] = Foreign
      BY <1>7
    <3>2. CASE i < n
      <4>1. i \in 1 .. Len(chain) - 1
        BY <1>1, <3>1, <3>2
      <4>2. t[i] = chain[i]
        BY <1>2, <3>2, <4>1
      <4> QED BY <1>6, <3>1, <3>2, <4>1, <4>2 DEF T
    <3>3. CASE ~(i < n)
      <4>1. i - 1 \in 1 .. Len(chain) - 1 /\ ~(i - 1 < n) /\ (i - 1) + 1 = i
        BY <1>1, <3>1, <3>3
      <4>2. t[i - 1] = chain[i]
        BY <1>2, <4>1
      <4> QED BY <1>6, <3>1, <3>3, <4>1, <4>2 DEF T
    <3> QED BY <3>2, <3>3
  <2> QED BY <2>1
<1>9. \A i, j \in S : f[i] = f[j] => i = j
  <2> SUFFICES ASSUME NEW i \in S, NEW j \in S, f[i] = f[j] PROVE i = j
    OBVIOUS
  <2>1. i \in Int /\ j \in Int /\ n \in Int /\ i # n /\ j # n
    BY <1>1, <1>7
  <2>2. (IF i < n THEN i ELSE i - 1) = (IF j < n THEN j ELSE j - 1)
    OBVIOUS
  <2> QED BY <2>1, <2>2
<1>10. \A k \in T : \E i \in S : f[i] = k
  <2> SUFFICES ASSUME NEW k \in T PROVE \E i \in S : f[i] = k
    OBVIOUS
  <2>1. k \in 1 .. Len(chain) - 1 /\ t[k] = Foreign
    BY <1>6 DEF T
  <2>2. CASE k < n
    <3>1. k \in 1 .. Len(chain) /\ chain[k] = Foreign
      BY <1>1, <1>2, <2>1, <2>2
    <3>2. k \in S
      BY <1>5, <3>1 DEF S
    <3> QED BY <2>2, <3>2
  <2>3. CASE ~(k < n)
    <3>1. k + 1 \in 1 .. Len(chain) /\ chain[k + 1] = Foreign
      BY <1>1, <1>2, <2>1, <2>3
    <3>2. k + 1 \in S
      BY <1>5, <3>1 DEF S
    <3>3. ~(k + 1 < n) /\ (k + 1) - 1 = k
      BY <1>1, <2>1, <2>3
    <3>4. f[k + 1] = k
      BY <3>2, <3>3
    <3> QED BY <3>2, <3>4
  <2> QED BY <2>2, <2>3
<1>11. S \in SUBSET (1 .. Len(chain))
  BY <1>5 DEF S
<1> HIDE DEF f
<1>12. Cardinality(T) = Cardinality(S)
  BY <1>1, <1>8, <1>9, <1>10, <1>11, SameMany
<1> QED BY <1>12 DEF S, T

\* Deleting the highest of the numbers leaves the others where they are.
LEMMA LowerStay ==
  ASSUME chain \in Seq(Rules), NEW x \in Rules, NEW N, N \subseteq Numbers(x), N # {},
         chain' = RemoveAt(chain, Max(N))
  PROVE  /\ Max(N) \in N /\ Max(N) \in DOMAIN chain /\ chain[Max(N)] \in Finds(x)
         /\ N \ {Max(N)} \subseteq Numbers(x)'
<1> DEFINE n == Max(N)  t == RemoveAt(chain, n)
<1>1. Len(chain) \in Nat /\ DOMAIN chain = 1 .. Len(chain) /\ N \subseteq 1 .. Len(chain)
  BY DEF Numbers
<1>2. n \in N /\ \A i \in N : i <= n
  BY <1>1, Highest
<1> HIDE DEF n
<1>3. n \in 1 .. Len(chain) /\ chain[n] \in Finds(x)
  BY <1>1, <1>2 DEF Numbers
<1>4. /\ t \in Seq(Rules) /\ Len(t) = Len(chain) - 1
      /\ \A i \in 1 .. Len(chain) - 1 : t[i] = IF i < n THEN chain[i] ELSE chain[i + 1]
  BY <1>3, RemoveAtOK
<1>5. chain' = t
  BY DEF n
<1> HIDE DEF t
<1>6. DOMAIN chain' = 1 .. Len(chain) - 1
  BY <1>1, <1>4, <1>5
<1>7. ASSUME NEW i \in N \ {n} PROVE i \in Numbers(x)'
  <2>1. i \in 1 .. Len(chain) /\ chain[i] \in Finds(x) /\ i <= n /\ i # n
    BY <1>1, <1>2 DEF Numbers
  <2>2. i < n /\ i \in 1 .. Len(chain) - 1
    BY <1>1, <1>3, <2>1
  <2>3. t[i] = chain[i]
    BY <1>4, <2>2
  <2> QED BY <1>5, <1>6, <2>1, <2>2, <2>3 DEF Numbers, Finds
<1> QED BY <1>1, <1>2, <1>3, <1>7 DEF n

\* A comment finds its own rules: those of others that of none of the bans.
LEMMA FindsOwn ==
  ASSUME NEW x \in Rules
  PROVE  /\ x \in Finds(x) /\ Finds(x) \subseteq Rules
         /\ x # Foreign => x \in Bans /\ Finds(x) = Found[x] /\ Foreign \notin Finds(x)
         /\ x = Foreign => Finds(x) = {Foreign}
<1>1. CASE x = Foreign
  BY <1>1 DEF Finds, Rules
<1>2. CASE x # Foreign
  <2>1. x \in Bans /\ Finds(x) = Found[x]
    BY <1>2 DEF Finds, Rules
  <2> QED BY <1>2, <2>1, Fail2BanAssumption DEF Rules
<1> QED BY <1>1, <1>2

LEMMA InitNums == Init => NumsOK
<1>1. Init => \A a \in Actors : pc[a] = "idle"
  BY DEF Init
<1> QED BY <1>1 DEF NumsOK

\* A step to or from a place where nothing is being deleted.
LEMMA NumsElsewhere ==
  ASSUME IInv, NEW a \in Actors, NEW l \in Labels \ Deleting, Goto(a, l), torn' = torn
  PROVE  NumsOK'
<1> SUFFICES ASSUME Calm' PROVE NumsOK'
  BY DEF NumsOK
<1>1. pc'[a] = l /\ \A o \in Actors \ {a} : pc'[o] = "idle"
  BY AloneAtWork
<1> QED BY <1>1 DEF NumsOK

LEMMA NumsListed ==
  ASSUME IInv, NEW a \in Actors, NEW x \in Rules, NEW l \in Deleting, Goto(a, l),
         job' = [job EXCEPT ![a] = x],
         NEW S \in SUBSET Numbers(x), nums' = [nums EXCEPT ![a] = S],
         chain' = chain, torn' = torn
  PROVE  NumsOK'
<1> SUFFICES ASSUME Calm' PROVE NumsOK'
  BY DEF NumsOK
<1>1. pc'[a] = l /\ \A o \in Actors \ {a} : pc'[o] = "idle"
  BY AloneAtWork DEF Labels
<1>2. job'[a] = x /\ nums'[a] = S
  BY DEF IInv, LocalsOK
<1>3. nums'[a] \subseteq (Numbers(job[a]))'
  BY <1>2 DEF Numbers, Finds
<1> QED BY <1>1, <1>3 DEF NumsOK

\* A deletion hits a rule that the comment has found.
LEMMA CutHits ==
  ASSUME FInv, NEW a \in Actors, Cut(a), Calm'
  PROVE  \E n \in DOMAIN chain :
           /\ n = Max(nums[a]) /\ chain[n] \in Finds(job[a])
           /\ chain' = RemoveAt(chain, n) /\ nums'[a] = nums[a] \ {n}
           /\ nums'[a] \subseteq (Numbers(job[a]))'
           /\ undone' = IF pc[a] = "strike" THEN undone \cup {chain[n]} ELSE undone
<1>1. pc[a] \in Deleting /\ Goto(a, pc[a]) /\ nums[a] # {} /\ pc[a] \in Labels
      /\ torn' = torn /\ job' = job
  BY DEF Cut, Labels
<1>2. Calm
  BY <1>1, AloneAtWork DEF FInv
<1> DEFINE x == job[a]  N == nums[a]  n == Max(N)
<1>3. x \in Rules /\ chain \in Seq(Rules) /\ nums \in [Actors -> SUBSET Nat]
  BY <1>1 DEF FInv, IInv, LocalsOK, JobsOK, SharedOK
<1>4. N \subseteq Numbers(x) /\ N # {}
  BY <1>1, <1>2 DEF FInv, NumsOK
<1>5. n \in DOMAIN chain
  <2>1. N \subseteq 1 .. Len(chain) /\ Len(chain) \in Nat /\ DOMAIN chain = 1 .. Len(chain)
    BY <1>3, <1>4 DEF Numbers
  <2> QED BY <1>4, <2>1, Highest
<1>6. /\ chain' = RemoveAt(chain, n) /\ nums' = [nums EXCEPT ![a] = @ \ {n}]
      /\ undone' = IF pc[a] = "strike" THEN undone \cup {chain[n]} ELSE undone
  BY <1>5 DEF Cut
<1>7. chain[n] \in Finds(x) /\ N \ {n} \subseteq (Numbers(job[a]))'
  <2>1. ASSUME NEW y \in Rules, y = x, NEW M, M = N
        PROVE  chain[Max(M)] \in Finds(y) /\ M \ {Max(M)} \subseteq Numbers(y)'
    BY <1>3, <1>4, <1>6, <2>1, LowerStay
  <2>2. job'[a] = x
    BY <1>1
  <2>3. \A y : y = job'[a] => Numbers(y)' = (Numbers(job[a]))'
    BY DEF Numbers, Finds
  <2> QED BY <1>3, <2>1, <2>2, <2>3
<1>8. nums'[a] = N \ {n}
  BY <1>3, <1>6
<1> QED BY <1>5, <1>6, <1>7, <1>8

LEMMA NumsCut ==
  ASSUME FInv, NEW a \in Actors, Cut(a), Calm'
  PROVE  /\ NumsOK'
         /\ job[a] # Foreign => Cardinality(Others') = Cardinality(Others)
<1>1. PICK n \in DOMAIN chain :
        /\ chain[n] \in Finds(job[a]) /\ chain' = RemoveAt(chain, n)
        /\ nums'[a] \subseteq (Numbers(job[a]))'
  BY CutHits
<1>2. pc[a] \in Deleting /\ Goto(a, pc[a]) /\ pc[a] \in Labels /\ torn' = torn
  BY DEF Cut, Labels
<1>3. pc'[a] = pc[a] /\ \A o \in Actors \ {a} : pc'[o] = "idle"
  BY <1>2, AloneAtWork DEF FInv
<1>4. NumsOK'
  BY <1>1, <1>3 DEF NumsOK
<1>5. ASSUME job[a] # Foreign PROVE Cardinality(Others') = Cardinality(Others)
  <2>1. job[a] \in Rules /\ chain \in Seq(Rules)
    BY <1>2 DEF FInv, IInv, LocalsOK, JobsOK, SharedOK
  <2>2. chain[n] # Foreign
    BY <1>1, <1>5, <2>1, FindsOwn
  <2> QED BY <1>1, <2>1, <2>2, OthersClose
<1> QED BY <1>4, <1>5

\* A step that moves no goroutine and leaves the rules.
LEMMA NumsStill ==
  ASSUME FInv, UNCHANGED <<chain, pc, job, nums, overlapped, torn>>
  PROVE  NumsOK'
<1>1. \A a : (Numbers(job[a]))' = Numbers(job[a])
  BY DEF Numbers, Finds
<1> QED BY <1>1 DEF FInv, NumsOK, Calm

\* A round, and a request, go through a chain in which they are alone.
LEMMA EnforceNums ==
  ASSUME FInv, NEW a \in Actors, Enforce(a), Calm'
  PROVE  /\ NumsOK'
         /\ job[a] # Foreign => Cardinality(Others') = Cardinality(Others)
<1>1. ASSUME NEW b \in Bans, Sweep(a, b)
      PROVE  NumsOK' /\ Cardinality(Others') = Cardinality(Others)
  <2>1. chain' = chain
    BY <1>1 DEF Sweep
  <2>2. NumsOK'
    BY <1>1, NumsListed DEF Sweep, FInv, Rules
  <2> QED BY <2>1, <2>2 DEF Others, RulesOf
<1>2. ASSUME AddRule(a) PROVE NumsOK' /\ Cardinality(Others') = Cardinality(Others)
  <2>1. pc[a] = "add" /\ Goto(a, "record") /\ chain' = <<job[a]>> \o chain /\ torn' = torn
    BY <1>2 DEF AddRule
  <2>2. job[a] \in Bans /\ chain \in Seq(Rules)
    BY <2>1, AtBan DEF FInv, IInv, SharedOK
  <2>3. Cardinality(Others') = Cardinality(Others)
    BY <2>1, <2>2, OthersShift
  <2>4. "record" \in Labels \ Deleting
    BY DEF Labels
  <2> QED BY <2>1, <2>3, <2>4, NumsElsewhere DEF FInv
<1>3. ASSUME \/ DropRow(a) \/ Struck(a) \/ LoadPolicies(a) \/ Mail(a) \/ NextPolicy(a)
             \/ Finish(a) \/ Extend(a) \/ Record(a)
             \/ \E s \in Servers : FindOffenders(a, s)
             \/ \E b \in Bans : Judge(a, b)
      PROVE  NumsOK' /\ Cardinality(Others') = Cardinality(Others)
  <2>1. \E l \in Labels \ Deleting : Goto(a, l)
    BY <1>3 DEF DropRow, Struck, LoadPolicies, Mail, NextPolicy, Finish, Extend, Record,
                FindOffenders, Judge, Labels
  <2>2. chain' = chain /\ torn' = torn
    BY <1>3 DEF DropRow, Struck, LoadPolicies, Mail, NextPolicy, Finish, Extend, Record,
                FindOffenders, Judge
  <2>3. NumsOK'
    BY <2>1, <2>2, NumsElsewhere DEF FInv
  <2> QED BY <2>2, <2>3 DEF Others, RulesOf
<1> QED BY <1>1, <1>2, <1>3, NumsCut DEF Enforce

LEMMA NextFInv == FInv /\ [Next]_vars => FInv'
<1> SUFFICES ASSUME FInv, [Next]_vars PROVE FInv'
  OBVIOUS
<1>1. IInv'
  BY NextIInv DEF FInv
<1>2. NumsOK'
  <2> SUFFICES ASSUME Calm' PROVE NumsOK'
    BY DEF NumsOK
  <2>1. ASSUME NEW a \in Requests, NEW s \in Servers, NEW on \in BOOLEAN,
               SavePolicy(a, s, on)
        PROVE  NumsOK'
    <3>1. \E l \in Labels \ Deleting : Goto(a, l)
      BY <2>1 DEF SavePolicy, Labels
    <3> QED BY <2>1, <3>1, NumsElsewhere DEF SavePolicy, FInv, Actors
  <2>2. ASSUME NEW a \in Requests,
               \/ \E b \in Bans : Unban(a, b) \/ DeleteRules(a, b)
               \/ DeleteOthers(a)
        PROVE  NumsOK'
    <3>1. a \in Actors /\ IInv
      BY DEF FInv, Actors
    <3>2. ASSUME NEW b \in Bans, Unban(a, b) \/ DeleteRules(a, b) PROVE NumsOK'
      BY <3>1, <3>2, NumsListed DEF Unban, DeleteRules, Rules
    <3>3. CASE DeleteOthers(a)
      BY <3>1, <3>3, NumsListed DEF DeleteOthers, Rules
    <3> QED BY <2>2, <3>2, <3>3
  <2>3. ASSUME NEW a \in Actors, Begin(a) PROVE NumsOK'
    <3>1. "sweep" \in Labels \ Deleting
      BY DEF Labels
    <3> QED BY <2>3, <3>1, NumsElsewhere DEF Begin, FInv
  <2>4. ASSUME NEW a \in Actors, Enforce(a) PROVE NumsOK'
    BY <2>4, EnforceNums
  <2>5. ASSUME (\E a \in Actors : StepFails(a)) \/ Crash PROVE NumsOK'
    <3>1. torn' = TRUE
      BY <2>5 DEF StepFails, Crash
    <3> QED BY <3>1 DEF Calm
  <2>6. ASSUME InsertForeign PROVE NumsOK'
    <3>1. overlapped' = (overlapped \/ Busy # {}) /\ pc' = pc
      BY <2>6 DEF InsertForeign
    <3>2. Busy = {}
      BY <3>1, Zenon DEF Calm
    <3>3. \A a \in Actors : pc'[a] = "idle"
      BY <3>1, <3>2 DEF Busy
    <3> QED BY <3>3 DEF NumsOK
  <2>7. ASSUME \/ \E b \in Bans : Expire(b) \/ ToggleOffence(b)
               \/ MailServer \/ UNCHANGED vars
        PROVE  NumsOK'
    <3>1. UNCHANGED <<chain, pc, job, nums, overlapped, torn>>
      BY <2>7 DEF Expire, ToggleOffence, MailServer, vars, locals, world
    <3> QED BY <3>1, NumsStill
  <2>8. ASSUME NEW a \in Requests, AddLimit(a) PROVE NumsOK'
    <3>1. a \in Actors /\ Goto(a, "strike") /\ "strike" \in Labels /\ torn' = torn
          /\ nums' = nums /\ nums[a] = {}
      BY <2>8 DEF AddLimit, Labels, locals, Actors
    <3>2. \A o \in Actors \ {a} : pc'[o] = "idle"
      BY <3>1, AloneAtWork DEF FInv
    <3> QED BY <3>1, <3>2 DEF NumsOK
  <2> QED BY <2>1, <2>2, <2>3, <2>4, <2>5, <2>6, <2>7, <2>8 DEF Next
<1> QED BY <1>1, <1>2 DEF FInv

\* No rule of others is deleted by the enforcement, by a lift or by a request that
\* deletes the rules of a ban, whatever comments find, as long as goroutines take
\* turns and nothing fails: each deletion is by a number of the listing that still
\* is the number of the rule it was listed for (DeleteRuleByComment,
\* UnbanFail2BanIP).
THEOREM OthersAreKept == Spec => ForeignKept
<1>1. Init => FInv
  BY InitIInv, InitNums DEF FInv
<1>2. FInv /\ [Next]_vars =>
        [\A a \in Actors :
           Enforce(a) /\ job[a] # Foreign /\ ~overlapped' /\ ~torn'
             => Cardinality(RulesOf(Foreign)') = Cardinality(RulesOf(Foreign))]_vars
  BY EnforceNums DEF Others, Calm
<1> QED BY <1>1, <1>2, NextFInv, PTL DEF Spec, ForeignKept
-----------------------------------------------------------------------------
(* Table and chain agree, if no comment is part of another one. *)

Exact   == \A b \in Bans : Found[b] = {b}
InHand  == Deleting \cup {"record"}

\* The numbers that are still to be deleted are those of the ban at hand; if they
\* are deleted for the sake of their comment, none is left of a ban with a row but
\* where one has been deleted so; and a row is written for a ban that has a rule.
HandsOK ==
  Calm => \A a \in Actors :
    /\ pc[a] \in Deleting /\ job[a] \in Bans => nums[a] = RulesOf(job[a])
    /\ pc[a] = "strike" /\ job[a] \in Bans =>
         RulesOf(job[a]) # {} \/ table[job[a]] = "none" \/ job[a] \in undone
    /\ pc[a] = "record" => RulesOf(job[a]) # {}

\* Only the ban a goroutine has in hand may have a rule and no row, or a row and
\* neither a rule nor one that a request has deleted.
Agree(b) == table[b] # "none" /\ b \notin undone <=> RulesOf(b) # {}

Matched ==
  Calm => \A b \in Bans :
    \/ \E a \in Actors : job[a] = b /\ pc[a] \in InHand
    \/ Agree(b)

EInv == FInv /\ HandsOK /\ Matched

\* A step with nothing in hand, before and after.
LEMMA QuietStep ==
  ASSUME EInv, NEW a \in Actors, NEW l \in Labels, Goto(a, l),
         l \notin InHand, pc[a] \notin InHand, chain' = chain, torn' = torn,
         undone' = undone, \A b \in Bans : table'[b] = "none" <=> table[b] = "none"
  PROVE  HandsOK' /\ Matched'
<1> SUFFICES ASSUME Calm' PROVE HandsOK' /\ Matched'
  BY DEF HandsOK, Matched
<1>1. /\ Calm /\ pc'[a] = l
      /\ \A o \in Actors \ {a} : pc[o] = "idle" /\ pc'[o] = "idle"
  BY AloneAtWork DEF EInv, FInv
<1>2. \A o \in Actors : pc[o] \notin InHand /\ pc'[o] \notin InHand
  BY <1>1 DEF InHand
<1>3. HandsOK'
  BY <1>2 DEF HandsOK, InHand
<1>4. \A b \in Bans : Agree(b)
  BY <1>1, <1>2 DEF EInv, Matched
<1>5. \A b \in Bans : RulesOf(b)' = RulesOf(b)
  BY DEF RulesOf
<1>6. Matched'
  BY <1>4, <1>5 DEF Matched, Agree
<1> QED BY <1>3, <1>6

\* The rules of a ban are listed.
LEMMA ListStep ==
  ASSUME EInv, Exact, NEW a \in Actors, NEW b \in Bans, NEW l \in Deleting,
         Goto(a, l), pc[a] \in {"sweep", "idle"},
         job' = [job EXCEPT ![a] = b], nums' = [nums EXCEPT ![a] = Numbers(b)],
         table' = table, chain' = chain, undone' = undone, torn' = torn
  PROVE  HandsOK' /\ Matched'
<1> SUFFICES ASSUME Calm' PROVE HandsOK' /\ Matched'
  BY DEF HandsOK, Matched
<1>1. /\ Calm /\ pc'[a] = l
      /\ \A o \in Actors \ {a} : pc[o] = "idle" /\ pc'[o] = "idle"
  BY AloneAtWork DEF EInv, FInv, Labels
<1>2. job'[a] = b /\ nums'[a] = Numbers(b)
  BY DEF EInv, FInv, IInv, LocalsOK
<1>3. Numbers(b) = RulesOf(b)
  <2>1. b # Foreign
    BY Fail2BanAssumption
  <2> QED BY <2>1 DEF Exact, Numbers, Finds, RulesOf
<1>4. \A c : RulesOf(c)' = RulesOf(c)
  BY DEF RulesOf
<1>5. nums'[a] = (RulesOf(job[a]))'
  BY <1>2, <1>3, <1>4
<1>6. \A o \in Actors : pc[o] \notin InHand
  BY <1>1 DEF InHand
<1>7. \A c \in Bans : Agree(c)
  BY <1>1, <1>6 DEF EInv, Matched
<1>8. (RulesOf(job[a]))' # {} \/ table'[job'[a]] = "none" \/ job'[a] \in undone'
  BY <1>2, <1>3, <1>5, <1>7 DEF Agree
<1>9. HandsOK'
  BY <1>1, <1>5, <1>8 DEF HandsOK
<1>10. Matched'
  BY <1>4, <1>7 DEF Matched, Agree
<1> QED BY <1>9, <1>10

\* Rules of others are listed: no ban is at hand.
LEMMA DeleteOthersHands ==
  ASSUME EInv, NEW a \in Actors, DeleteOthers(a)
  PROVE  HandsOK' /\ Matched'
<1> SUFFICES ASSUME Calm' PROVE HandsOK' /\ Matched'
  BY DEF HandsOK, Matched
<1>1. pc[a] = "idle" /\ Goto(a, "strike") /\ "strike" \in Labels
      /\ job' = [job EXCEPT ![a] = Foreign]
      /\ UNCHANGED <<table, chain, undone, torn>>
  BY DEF DeleteOthers, Labels
<1>2. /\ Calm /\ pc'[a] = "strike"
      /\ \A o \in Actors \ {a} : pc[o] = "idle" /\ pc'[o] = "idle"
  BY <1>1, AloneAtWork DEF EInv, FInv
<1>3. job'[a] = Foreign /\ Foreign \notin Bans
  BY <1>1, Fail2BanAssumption DEF EInv, FInv, IInv, LocalsOK
<1>4. HandsOK'
  BY <1>2, <1>3 DEF HandsOK
<1>5. \A c \in Bans : Agree(c)
  BY <1>1, <1>2 DEF EInv, Matched, InHand
<1>6. \A c : RulesOf(c)' = RulesOf(c)
  BY <1>1 DEF RulesOf
<1>7. Matched'
  BY <1>1, <1>5, <1>6 DEF Matched, Agree
<1> QED BY <1>4, <1>7

LEMMA CutHands ==
  ASSUME EInv, Exact, NEW a \in Actors, Cut(a)
  PROVE  HandsOK' /\ Matched'
<1> SUFFICES ASSUME Calm' PROVE HandsOK' /\ Matched'
  BY DEF HandsOK, Matched
<1>1. pc[a] \in Deleting /\ Goto(a, pc[a]) /\ nums[a] # {}
      /\ torn' = torn /\ job' = job /\ table' = table /\ pc[a] \in Labels
  BY DEF Cut, Labels
<1>2. /\ Calm /\ pc'[a] = pc[a]
      /\ \A o \in Actors \ {a} : pc[o] = "idle" /\ pc'[o] = "idle"
  BY <1>1, AloneAtWork DEF EInv, FInv
<1> DEFINE x == job[a]
<1>3. x \in Rules /\ chain \in Seq(Rules)
  BY <1>1 DEF EInv, FInv, IInv, LocalsOK, JobsOK, SharedOK
<1>4. PICK n \in DOMAIN chain :
        /\ n = Max(nums[a]) /\ chain[n] \in Finds(job[a])
        /\ chain' = RemoveAt(chain, n) /\ nums'[a] = nums[a] \ {n}
        /\ undone' = IF pc[a] = "strike" THEN undone \cup {chain[n]} ELSE undone
  BY CutHits DEF EInv
<1>5. chain[n] = x
  <2>1. Finds(x) = {x}
    <3>1. CASE x = Foreign
      BY <3>1, <1>3, FindsOwn
    <3>2. CASE x # Foreign
      BY <3>2, <1>3, FindsOwn DEF Exact
    <3> QED BY <3>1, <3>2
  <2> QED BY <1>4, <2>1
<1>6. \A c \in Bans \ {x} : RulesOf(c)' # {} <=> RulesOf(c) # {}
  BY <1>3, <1>4, <1>5, Removed
<1>7. \A c \in Bans \ {x} : c \in undone' <=> c \in undone
  BY <1>4, <1>5
<1>8. \A c \in Bans \ {x} : Agree(c)
  BY <1>2 DEF EInv, Matched, InHand
<1>9. \A c \in Bans \ {x} : Agree(c)'
  BY <1>1, <1>6, <1>7, <1>8 DEF Agree
<1>10. job'[a] = x /\ pc'[a] \in InHand
  BY <1>1, <1>2 DEF InHand
<1>11. Matched'
  BY <1>9, <1>10 DEF Matched
<1>12. HandsOK'
  <2>1. CASE x \notin Bans
    BY <1>1, <1>2, <1>10, <2>1 DEF HandsOK
  <2>2. CASE x \in Bans
    <3>1. nums[a] = RulesOf(x)
      BY <1>1, <1>2, <2>2 DEF EInv, HandsOK
    <3>2. chain' = RemoveAt(chain, Max(RulesOf(x))) /\ RulesOf(x) # {}
      BY <1>1, <1>4, <3>1
    <3>3. ASSUME NEW y \in Bans, y = x PROVE RulesOf(y)' = RulesOf(y) \ {Max(RulesOf(y))}
      BY <1>3, <3>2, <3>3, CutHighest
    <3>4. ASSUME NEW y \in Bans, y = x PROVE nums'[a] = RulesOf(y)'
      BY <1>4, <3>1, <3>3, <3>4
    <3>5. \A y : y = job'[a] => RulesOf(y)' = (RulesOf(job[a]))'
      BY DEF RulesOf
    <3>6. nums'[a] = (RulesOf(job[a]))'
      BY <1>10, <2>2, <3>4, <3>5
    <3>7. pc[a] = "strike" => job'[a] \in undone'
      BY <1>4, <1>5, <1>10
    <3> QED BY <1>1, <1>2, <3>6, <3>7 DEF HandsOK
  <2> QED BY <2>1, <2>2
<1> QED BY <1>11, <1>12

\* The rules of a comment are deleted.
LEMMA StruckHands == ASSUME EInv, NEW a \in Actors, Struck(a) PROVE HandsOK' /\ Matched'
<1> SUFFICES ASSUME Calm' PROVE HandsOK' /\ Matched'
  BY DEF HandsOK, Matched
<1>1. pc[a] = "strike" /\ nums[a] = {} /\ Goto(a, "idle") /\ "idle" \in Labels
      /\ UNCHANGED <<table, chain, undone, torn>>
  BY DEF Struck, Labels
<1>2. /\ Calm /\ pc'[a] = "idle"
      /\ \A o \in Actors \ {a} : pc[o] = "idle" /\ pc'[o] = "idle"
  BY <1>1, AloneAtWork DEF EInv, FInv
<1>3. HandsOK'
  BY <1>2 DEF HandsOK
<1>4. \A c \in Bans \ {job[a]} : Agree(c)
  BY <1>2 DEF EInv, Matched, InHand
<1>5. job[a] \in Bans => Agree(job[a])
  BY <1>1, <1>2 DEF EInv, HandsOK, Agree
<1>6. \A c : RulesOf(c)' = RulesOf(c)
  BY <1>1 DEF RulesOf
<1>7. \A c \in Bans : Agree(c)'
  BY <1>1, <1>4, <1>5, <1>6 DEF Agree
<1> QED BY <1>3, <1>7 DEF Matched

\* A limit is added.
LEMMA AddLimitHands == ASSUME EInv, NEW a \in Actors, AddLimit(a) PROVE HandsOK' /\ Matched'
<1> SUFFICES ASSUME Calm' PROVE HandsOK' /\ Matched'
  BY DEF HandsOK, Matched
<1>1. pc[a] = "strike" /\ job[a] = Foreign /\ Goto(a, "strike") /\ "strike" \in Labels
      /\ UNCHANGED <<table, job, undone, torn>>
  BY DEF AddLimit, Labels, locals
<1>2. /\ Calm /\ pc'[a] = "strike"
      /\ \A o \in Actors \ {a} : pc[o] = "idle" /\ pc'[o] = "idle"
  BY <1>1, AloneAtWork DEF EInv, FInv
<1>3. Foreign \notin Bans /\ chain \in Seq(Rules)
  BY Fail2BanAssumption DEF EInv, FInv, IInv, SharedOK
<1>4. HandsOK'
  BY <1>1, <1>2, <1>3 DEF HandsOK
<1>5. \A c \in Bans : Agree(c)
  BY <1>1, <1>2, <1>3 DEF EInv, Matched, InHand
<1>6. \A c \in Bans : RulesOf(c)' # {} <=> RulesOf(c) # {}
  BY <1>3, Slipped DEF AddLimit
<1>7. \A c \in Bans : Agree(c)'
  BY <1>1, <1>5, <1>6 DEF Agree
<1> QED BY <1>4, <1>7 DEF Matched

LEMMA DropRowHands == ASSUME EInv, NEW a \in Actors, DropRow(a) PROVE HandsOK' /\ Matched'
<1> SUFFICES ASSUME Calm' PROVE HandsOK' /\ Matched'
  BY DEF HandsOK, Matched
<1>1. PICK l \in {"sweep", "idle"} : Goto(a, l)
  BY DEF DropRow
<1>2. pc[a] \in {"cut", "lift"} /\ nums[a] = {} /\ chain' = chain /\ torn' = torn
      /\ table' = [table EXCEPT ![job[a]] = "none"] /\ l \in Labels
      /\ undone' = undone \ {job[a]}
  BY DEF DropRow, Labels
<1>3. /\ Calm /\ pc'[a] = l
      /\ \A o \in Actors \ {a} : pc[o] = "idle" /\ pc'[o] = "idle"
  BY <1>1, <1>2, AloneAtWork DEF EInv, FInv
<1>4. HandsOK'
  BY <1>3 DEF HandsOK
<1>5. job[a] \in Bans
  BY <1>2, AtBan DEF EInv, FInv
<1>6. RulesOf(job[a]) = {} /\ \A c \in Bans \ {job[a]} : Agree(c)
  BY <1>2, <1>3, <1>5 DEF EInv, HandsOK, Matched, InHand
<1>7. table \in [Bans -> {"none", "active", "expired"}]
  BY DEF EInv, FInv, IInv, SharedOK
<1>8. table'[job[a]] = "none" /\ \A c \in Bans \ {job[a]} : table'[c] = table[c]
  BY <1>2, <1>5, <1>7
<1>9. \A c : RulesOf(c)' = {} <=> RulesOf(c) = {}
  BY <1>2 DEF RulesOf
<1>10. \A c \in Bans : Agree(c)'
  BY <1>2, <1>5, <1>6, <1>8, <1>9 DEF Agree
<1>11. Matched'
  BY <1>10 DEF Matched
<1> QED BY <1>4, <1>11

LEMMA AddRuleHands == ASSUME EInv, NEW a \in Actors, AddRule(a) PROVE HandsOK' /\ Matched'
<1> SUFFICES ASSUME Calm' PROVE HandsOK' /\ Matched'
  BY DEF HandsOK, Matched
<1>1. pc[a] = "add" /\ Goto(a, "record") /\ chain' = <<job[a]>> \o chain /\ torn' = torn
      /\ UNCHANGED <<table, job, undone>> /\ "record" \in Labels
  BY DEF AddRule, Labels
<1>2. /\ Calm /\ pc'[a] = "record"
      /\ \A o \in Actors \ {a} : pc[o] = "idle" /\ pc'[o] = "idle"
  BY <1>1, AloneAtWork DEF EInv, FInv
<1> DEFINE b == job[a]
<1>3. b \in Bans /\ b \in Rules /\ chain \in Seq(Rules)
  BY <1>1, AtBan DEF EInv, FInv, IInv, SharedOK
<1> HIDE DEF b
<1>4. \A c \in Bans : RulesOf(c)' # {} <=> c = b \/ RulesOf(c) # {}
  <2>1. chain' = <<b>> \o chain
    BY <1>1 DEF b
  <2> QED BY <1>3, <2>1, Inserted
<1>5. job'[a] = b
  BY <1>1 DEF b
<1>6. (RulesOf(job[a]))' # {}
  <2>1. \A c : c = job'[a] => RulesOf(c)' = (RulesOf(job[a]))'
    BY DEF RulesOf
  <2> QED BY <1>3, <1>4, <1>5, <2>1
<1>7. HandsOK'
  BY <1>2, <1>6 DEF HandsOK
<1>8. \A c \in Bans : Agree(c)
  BY <1>1, <1>2 DEF EInv, Matched, InHand
<1>9. \A c \in Bans \ {b} : Agree(c)'
  BY <1>1, <1>4, <1>8 DEF Agree
<1>10. pc'[a] \in InHand
  BY <1>2 DEF InHand
<1>11. Matched'
  BY <1>5, <1>9, <1>10 DEF Matched
<1> QED BY <1>7, <1>11

LEMMA RecordHands == ASSUME EInv, NEW a \in Actors, Record(a) PROVE HandsOK' /\ Matched'
<1> SUFFICES ASSUME Calm' PROVE HandsOK' /\ Matched'
  BY DEF HandsOK, Matched
<1>1. pc[a] = "record" /\ Goto(a, "mail") /\ chain' = chain /\ torn' = torn
      /\ table' = [table EXCEPT ![job[a]] = "active"] /\ undone' = undone \ {job[a]}
      /\ "mail" \in Labels
  BY DEF Record, Labels
<1>2. /\ Calm /\ pc'[a] = "mail"
      /\ \A o \in Actors \ {a} : pc[o] = "idle" /\ pc'[o] = "idle"
  BY <1>1, AloneAtWork DEF EInv, FInv
<1>3. HandsOK'
  BY <1>2 DEF HandsOK
<1>4. job[a] \in Bans
  BY <1>1, AtBan DEF EInv, FInv
<1>5. RulesOf(job[a]) # {} /\ \A c \in Bans \ {job[a]} : Agree(c)
  BY <1>1, <1>2 DEF EInv, HandsOK, Matched, InHand
<1>6. table \in [Bans -> {"none", "active", "expired"}]
  BY DEF EInv, FInv, IInv, SharedOK
<1>7. table'[job[a]] = "active" /\ \A c \in Bans \ {job[a]} : table'[c] = table[c]
  BY <1>1, <1>4, <1>6
<1>8. \A c : RulesOf(c)' = {} <=> RulesOf(c) = {}
  BY <1>1 DEF RulesOf
<1>9. \A c \in Bans : Agree(c)'
  BY <1>1, <1>4, <1>5, <1>7, <1>8 DEF Agree
<1>10. Matched'
  BY <1>9 DEF Matched
<1> QED BY <1>3, <1>10

\* A step that moves no goroutine and leaves the rules.
LEMMA StillStep ==
  ASSUME EInv, UNCHANGED <<chain, pc, job, nums, undone, overlapped, torn>>,
         \A b \in Bans : table'[b] = "none" <=> table[b] = "none"
  PROVE  HandsOK' /\ Matched'
<1>1. \A c : RulesOf(c)' = RulesOf(c)
  BY DEF RulesOf
<1>2. \A a : (RulesOf(job[a]))' = RulesOf(job[a])
  BY DEF RulesOf
<1>3. HandsOK'
  BY <1>2 DEF EInv, HandsOK, Calm
<1>4. Matched'
  BY <1>1 DEF EInv, Matched, Agree, Calm
<1> QED BY <1>3, <1>4

LEMMA InsertForeignHands == ASSUME EInv, InsertForeign PROVE HandsOK' /\ Matched'
<1> SUFFICES ASSUME Calm' PROVE HandsOK' /\ Matched'
  BY DEF HandsOK, Matched
<1>1. /\ overlapped' = (overlapped \/ Busy # {})
      /\ UNCHANGED <<table, pc, undone, torn>>
  BY DEF InsertForeign, locals
<1>2. ~overlapped /\ Busy = {} /\ ~torn
  BY <1>1, Zenon DEF Calm
<1>3. \A a \in Actors : pc[a] = "idle" /\ pc'[a] = "idle"
  BY <1>1, <1>2 DEF Busy
<1>4. HandsOK'
  BY <1>3 DEF HandsOK
<1>5. \A c \in Bans : Agree(c)
  BY <1>2, <1>3 DEF EInv, Matched, InHand, Calm
<1>6. \A c \in Bans : RulesOf(c)' # {} <=> RulesOf(c) # {}
  BY Slipped DEF InsertForeign, EInv, FInv, IInv, SharedOK
<1>7. \A c \in Bans : Agree(c)'
  BY <1>1, <1>5, <1>6 DEF Agree
<1> QED BY <1>4, <1>7 DEF Matched

LEMMA EnforceHands ==
  ASSUME EInv, Exact, NEW a \in Actors, Begin(a) \/ Enforce(a)
  PROVE  HandsOK' /\ Matched'
<1>1. CASE \/ Begin(a) \/ LoadPolicies(a) \/ Mail(a) \/ NextPolicy(a) \/ Finish(a)
           \/ Extend(a)
           \/ \E s \in Servers : FindOffenders(a, s)
           \/ \E b \in Bans : Judge(a, b)
  <2>1. \E l \in Labels \ InHand : Goto(a, l)
    BY <1>1 DEF Begin, LoadPolicies, Mail, NextPolicy, Finish, Extend, FindOffenders,
                Judge, Labels, InHand
  <2>2. pc[a] \notin InHand /\ UNCHANGED <<chain, undone, torn>>
    BY <1>1 DEF Begin, LoadPolicies, Mail, NextPolicy, Finish, Extend, FindOffenders,
                Judge, InHand
  <2>3. CASE table' = table
    BY <2>1, <2>2, <2>3, QuietStep
  <2>4. CASE Extend(a)
    <3>1. /\ table \in [Bans -> {"none", "active", "expired"}]
          /\ table' = [table EXCEPT ![job[a]] = IF @ = "none" THEN "none" ELSE "active"]
      BY <2>4 DEF EInv, FInv, IInv, SharedOK, Extend
    <3>2. \A b \in Bans : table'[b] = "none" <=> table[b] = "none"
      BY <3>1
    <3> QED BY <2>1, <2>2, <3>2, QuietStep
  <2> QED BY <1>1, <2>3, <2>4
          DEF Begin, LoadPolicies, Mail, NextPolicy, Finish, FindOffenders, Judge
<1>2. ASSUME NEW b \in Bans, Sweep(a, b) PROVE HandsOK' /\ Matched'
  BY <1>2, ListStep DEF Sweep
<1> QED BY <1>1, <1>2, CutHands, DropRowHands, StruckHands, AddRuleHands, RecordHands
        DEF Enforce

LEMMA NextEInv == ASSUME Exact PROVE EInv /\ [Next]_vars => EInv'
<1> SUFFICES ASSUME EInv, [Next]_vars PROVE EInv'
  OBVIOUS
<1>1. FInv'
  BY NextFInv DEF EInv
<1>2. HandsOK' /\ Matched'
  <2>1. ASSUME NEW a \in Requests, NEW s \in Servers, NEW on \in BOOLEAN,
               SavePolicy(a, s, on)
        PROVE  HandsOK' /\ Matched'
    <3>1. \E l \in Labels \ InHand : Goto(a, l)
      BY <2>1 DEF SavePolicy, Labels, InHand
    <3>2. a \in Actors /\ pc[a] \notin InHand /\ UNCHANGED <<table, chain, undone, torn>>
      BY <2>1 DEF SavePolicy, InHand, Actors
    <3> QED BY <3>1, <3>2, QuietStep
  <2>2. ASSUME NEW a \in Requests,
               \/ \E b \in Bans : Unban(a, b) \/ DeleteRules(a, b)
               \/ DeleteOthers(a) \/ AddLimit(a)
        PROVE  HandsOK' /\ Matched'
    <3>1. a \in Actors
      BY DEF Actors
    <3>2. ASSUME NEW b \in Bans, Unban(a, b) \/ DeleteRules(a, b) PROVE HandsOK' /\ Matched'
      BY <3>1, <3>2, ListStep DEF Unban, DeleteRules
    <3> QED BY <2>2, <3>1, <3>2, DeleteOthersHands, AddLimitHands
  <2>3. ASSUME NEW a \in Actors, Begin(a) \/ Enforce(a) PROVE HandsOK' /\ Matched'
    BY <2>3, EnforceHands
  <2>4. ASSUME (\E a \in Actors : StepFails(a)) \/ Crash PROVE HandsOK' /\ Matched'
    <3>1. torn' = TRUE
      BY <2>4 DEF StepFails, Crash
    <3> QED BY <3>1 DEF HandsOK, Matched, Calm
  <2>5. ASSUME NEW b \in Bans, Expire(b) PROVE HandsOK' /\ Matched'
    <3>1. /\ table \in [Bans -> {"none", "active", "expired"}]
          /\ table' = [table EXCEPT ![b] = "expired"] /\ table[b] = "active"
          /\ UNCHANGED <<chain, pc, job, nums, undone, overlapped, torn>>
      BY <2>5 DEF EInv, FInv, IInv, SharedOK, Expire, locals
    <3>2. \A c \in Bans : table'[c] = "none" <=> table[c] = "none"
      BY <3>1
    <3> QED BY <3>1, <3>2, StillStep
  <2>6. ASSUME (\E b \in Bans : ToggleOffence(b)) \/ MailServer \/ UNCHANGED vars
        PROVE  HandsOK' /\ Matched'
    <3>1. UNCHANGED <<table, chain, pc, job, nums, undone, overlapped, torn>>
      BY <2>6 DEF ToggleOffence, MailServer, vars, locals
    <3> QED BY <3>1, StillStep
  <2> QED BY <2>1, <2>2, <2>3, <2>4, <2>5, <2>6, InsertForeignHands DEF Next
<1> QED BY <1>1, <1>2 DEF EInv

\* Table and chain agree on every ban nobody is at, but for the bans whose rules a
\* request has deleted by their comment, as long as goroutines take turns and
\* nothing fails, if the comment of a ban finds its rules alone
\* (cleanupExpiredFail2BanBans, banFail2BanIP, UnbanFail2BanIP, DeleteRule of the
\* panel).
THEOREM TableMatches == ASSUME Exact PROVE Spec => []TableMatchesChain
<1>1. Init => EInv
  <2> SUFFICES ASSUME Init PROVE EInv
    OBVIOUS
  <2>1. FInv
    BY InitIInv, InitNums DEF FInv
  <2>2. \A a \in Actors : pc[a] = "idle"
    BY DEF Init
  <2>3. \A b \in Bans : table[b] = "none" /\ RulesOf(b) = {}
    <3>1. chain = <<Foreign>> /\ DOMAIN chain = {1} /\ chain[1] = Foreign
      BY DEF Init
    <3> QED BY <3>1, Fail2BanAssumption DEF Init, RulesOf
  <2> QED BY <2>1, <2>2, <2>3 DEF EInv, HandsOK, Matched, Agree
<1>2. EInv => TableMatchesChain
  BY DEF EInv, Matched, Agree, TableMatchesChain
<1> QED BY <1>1, <1>2, NextEInv, PTL DEF Spec
-----------------------------------------------------------------------------
(* A ban whose rules no other comment finds has a rule while it is in force,   *)
(* whatever the other comments find.                                           *)

Unshared(b) == \A c \in Bans \ {b} : b \notin Found[c]

\* Such a ban loses its last rule to its own clean-up or lift alone, which goes on
\* to delete the row, or to a request that deletes it; and its row is written when
\* the rule is there.
Ruled ==
  Calm => \A b \in Bans : Unshared(b) =>
    /\ table[b] # "none" /\ b \notin undone =>
         RulesOf(b) # {} \/ \E a \in Actors : job[a] = b /\ pc[a] \in {"cut", "lift"}
    /\ (\E a \in Actors : job[a] = b /\ pc[a] = "record") => RulesOf(b) # {}

RInv == FInv /\ Ruled

Standing(b) == Unshared(b) /\ table[b] # "none" /\ b \notin undone

\* A step of a goroutine that is not deleting, deletes nothing and makes no row.
LEMMA RuledQuiet ==
  ASSUME RInv, NEW a \in Actors, NEW l \in Labels \ {"record"}, Goto(a, l),
         pc[a] \notin {"cut", "lift"}, chain' = chain, undone' = undone, torn' = torn,
         \A b \in Bans : table'[b] # "none" => table[b] # "none"
  PROVE  Ruled'
<1> SUFFICES ASSUME Calm' PROVE Ruled'
  BY DEF Ruled
<1>1. /\ Calm /\ pc'[a] = l
      /\ \A o \in Actors \ {a} : pc[o] = "idle" /\ pc'[o] = "idle"
  BY AloneAtWork DEF RInv, FInv
<1>2. \A o \in Actors : pc[o] \notin {"cut", "lift"} /\ pc'[o] # "record"
  BY <1>1
<1>3. \A b \in Bans : Standing(b) => RulesOf(b) # {}
  BY <1>1, <1>2 DEF RInv, Ruled, Standing
<1>4. \A b : RulesOf(b)' = RulesOf(b)
  BY DEF RulesOf
<1>5. \A b \in Bans : Standing(b)' => RulesOf(b)' # {}
  BY <1>3, <1>4 DEF Standing, Unshared
<1> QED BY <1>2, <1>5 DEF Ruled, Standing

LEMMA RuledCut == ASSUME RInv, NEW a \in Actors, Cut(a) PROVE Ruled'
<1> SUFFICES ASSUME Calm' PROVE Ruled'
  BY DEF Ruled
<1>1. pc[a] \in Deleting /\ Goto(a, pc[a]) /\ pc[a] \in Labels
      /\ torn' = torn /\ job' = job /\ table' = table
  BY DEF Cut, Labels
<1>2. /\ Calm /\ pc'[a] = pc[a]
      /\ \A o \in Actors \ {a} : pc[o] = "idle" /\ pc'[o] = "idle"
  BY <1>1, AloneAtWork DEF RInv, FInv
<1> DEFINE j == job[a]
<1>3. j \in Rules /\ chain \in Seq(Rules)
  BY <1>1 DEF RInv, FInv, IInv, LocalsOK, JobsOK, SharedOK
<1>4. PICK n \in DOMAIN chain :
        /\ chain[n] \in Finds(j) /\ chain' = RemoveAt(chain, n)
        /\ undone' = IF pc[a] = "strike" THEN undone \cup {chain[n]} ELSE undone
  BY CutHits DEF RInv
<1>5. undone \subseteq undone'
  BY <1>4
<1>6. ASSUME NEW c \in Bans, Standing(c)'
      PROVE  RulesOf(c)' # {} \/ \E o \in Actors : job'[o] = c /\ pc'[o] \in {"cut", "lift"}
  <2>1. Unshared(c) /\ table[c] # "none" /\ c \notin undone /\ c \notin undone'
    BY <1>1, <1>5, <1>6 DEF Standing, Unshared
  <2>2. CASE c = j /\ pc[a] \in {"cut", "lift"}
    BY <1>1, <1>2, <2>2
  <2>3. CASE ~(c = j /\ pc[a] \in {"cut", "lift"})
    <3>1. RulesOf(c) # {}
      BY <1>2, <2>1, <2>3 DEF RInv, Ruled
    <3>2. chain[n] # c
      <4> SUFFICES ASSUME chain[n] = c PROVE FALSE
        OBVIOUS
      <4>1. pc[a] # "strike"
        BY <1>4, <2>1
      <4>2. j # Foreign /\ c # j
        BY <1>1, <2>3, <4>1, AtBan DEF RInv, FInv
      <4>3. j \in Bans \ {c} /\ c \in Found[j]
        BY <1>3, <1>4, <4>2, FindsOwn
      <4> QED BY <2>1, <4>3 DEF Unshared
    <3> QED BY <1>3, <1>4, <3>1, <3>2, Removed
  <2> QED BY <2>2, <2>3
<1>7. \A o \in Actors : pc'[o] # "record"
  BY <1>1, <1>2
<1> QED BY <1>6, <1>7 DEF Ruled, Standing

LEMMA RuledDropRow == ASSUME RInv, NEW a \in Actors, DropRow(a) PROVE Ruled'
<1> SUFFICES ASSUME Calm' PROVE Ruled'
  BY DEF Ruled
<1>1. PICK l \in {"sweep", "idle"} : Goto(a, l)
  BY DEF DropRow
<1>2. pc[a] \in {"cut", "lift"} /\ chain' = chain /\ torn' = torn
      /\ table' = [table EXCEPT ![job[a]] = "none"] /\ undone' = undone \ {job[a]}
      /\ l \in Labels
  BY DEF DropRow, Labels
<1>3. /\ Calm /\ pc'[a] = l
      /\ \A o \in Actors \ {a} : pc[o] = "idle" /\ pc'[o] = "idle"
  BY <1>1, <1>2, AloneAtWork DEF RInv, FInv
<1>4. job[a] \in Bans /\ table \in [Bans -> {"none", "active", "expired"}]
  BY <1>2, AtBan DEF RInv, FInv, IInv, SharedOK
<1>5. table'[job[a]] = "none" /\ \A c \in Bans \ {job[a]} : table'[c] = table[c]
  BY <1>2, <1>4
<1>6. \A c \in Bans \ {job[a]} : Standing(c) => RulesOf(c) # {}
  BY <1>3 DEF RInv, Ruled, Standing
<1>7. \A c : RulesOf(c)' = RulesOf(c)
  BY <1>2 DEF RulesOf
<1>8. \A c \in Bans : Standing(c)' => RulesOf(c)' # {}
  BY <1>2, <1>5, <1>6, <1>7 DEF Standing, Unshared
<1>9. \A o \in Actors : pc'[o] # "record"
  BY <1>3
<1> QED BY <1>8, <1>9 DEF Ruled, Standing

LEMMA RuledAddRule == ASSUME RInv, NEW a \in Actors, AddRule(a) PROVE Ruled'
<1> SUFFICES ASSUME Calm' PROVE Ruled'
  BY DEF Ruled
<1>1. pc[a] = "add" /\ Goto(a, "record") /\ chain' = <<job[a]>> \o chain /\ torn' = torn
      /\ UNCHANGED <<table, job, undone>> /\ "record" \in Labels
  BY DEF AddRule, Labels
<1>2. /\ Calm /\ pc'[a] = "record"
      /\ \A o \in Actors \ {a} : pc[o] = "idle" /\ pc'[o] = "idle"
  BY <1>1, AloneAtWork DEF RInv, FInv
<1>3. job[a] \in Rules /\ chain \in Seq(Rules)
  BY <1>1, AtBan DEF RInv, FInv, IInv, SharedOK
<1>4. \A c \in Bans : RulesOf(c)' # {} <=> c = job[a] \/ RulesOf(c) # {}
  BY <1>1, <1>3, Inserted
<1>5. \A c \in Bans : Standing(c) => RulesOf(c) # {}
  BY <1>1, <1>2 DEF RInv, Ruled, Standing
<1>6. \A c \in Bans : Standing(c)' => RulesOf(c)' # {}
  BY <1>1, <1>4, <1>5 DEF Standing, Unshared
<1>7. \A c \in Bans : (\E o \in Actors : job'[o] = c /\ pc'[o] = "record") => RulesOf(c)' # {}
  BY <1>1, <1>2, <1>4
<1> QED BY <1>6, <1>7 DEF Ruled, Standing

LEMMA RuledRecord == ASSUME RInv, NEW a \in Actors, Record(a) PROVE Ruled'
<1> SUFFICES ASSUME Calm' PROVE Ruled'
  BY DEF Ruled
<1>1. pc[a] = "record" /\ Goto(a, "mail") /\ chain' = chain /\ torn' = torn
      /\ table' = [table EXCEPT ![job[a]] = "active"] /\ undone' = undone \ {job[a]}
      /\ "mail" \in Labels
  BY DEF Record, Labels
<1>2. /\ Calm /\ pc'[a] = "mail"
      /\ \A o \in Actors \ {a} : pc[o] = "idle" /\ pc'[o] = "idle"
  BY <1>1, AloneAtWork DEF RInv, FInv
<1>3. job[a] \in Bans /\ table \in [Bans -> {"none", "active", "expired"}]
  BY <1>1, AtBan DEF RInv, FInv, IInv, SharedOK
<1>4. \A c \in Bans \ {job[a]} : table'[c] = table[c]
  BY <1>1, <1>3
<1>5. /\ \A c \in Bans : Standing(c) => RulesOf(c) # {}
      /\ Unshared(job[a]) => RulesOf(job[a]) # {}
  BY <1>1, <1>2, <1>3 DEF RInv, Ruled, Standing
<1>6. \A c : RulesOf(c)' = RulesOf(c)
  BY <1>1 DEF RulesOf
<1>7. \A c \in Bans : Standing(c)' => RulesOf(c)' # {}
  BY <1>1, <1>4, <1>5, <1>6 DEF Standing, Unshared
<1>8. \A o \in Actors : pc'[o] # "record"
  BY <1>2
<1> QED BY <1>7, <1>8 DEF Ruled, Standing

\* A rule of others is inserted, by a request or by nobody who is at work.
LEMMA RuledSlip ==
  ASSUME RInv, InsertForeign \/ \E a \in Requests : AddLimit(a)
  PROVE  Ruled'
<1> SUFFICES ASSUME Calm' PROVE Ruled'
  BY DEF Ruled
<1>1. UNCHANGED <<table, undone, torn>>
  BY DEF InsertForeign, AddLimit
<1>2. Calm /\ \A o \in Actors : pc[o] \in {"idle", "strike"} /\ pc'[o] \in {"idle", "strike"}
  <2>1. CASE InsertForeign
    <3>1. overlapped' = (overlapped \/ Busy # {}) /\ pc' = pc
      BY <2>1 DEF InsertForeign
    <3>2. ~overlapped /\ Busy = {} /\ ~torn
      BY <1>1, <3>1, Zenon DEF Calm
    <3> QED BY <3>1, <3>2 DEF Busy, Calm
  <2>2. ASSUME NEW a \in Requests, AddLimit(a)
        PROVE  Calm /\ \A o \in Actors : /\ pc[o] \in {"idle", "strike"}
                                       /\ pc'[o] \in {"idle", "strike"}
    <3>1. a \in Actors /\ pc[a] = "strike" /\ Goto(a, "strike") /\ "strike" \in Labels
      BY <2>2 DEF AddLimit, Labels, Actors
    <3> QED BY <1>1, <3>1, AloneAtWork DEF RInv, FInv
  <2> QED BY <2>1, <2>2
<1>3. \A c \in Bans : Standing(c) => RulesOf(c) # {}
  BY <1>2 DEF RInv, Ruled, Standing
<1>4. \A c \in Bans : RulesOf(c)' # {} <=> RulesOf(c) # {}
  BY Slipped DEF InsertForeign, AddLimit, RInv, FInv, IInv, SharedOK
<1>5. \A c \in Bans : Standing(c)' => RulesOf(c)' # {}
  BY <1>1, <1>3, <1>4 DEF Standing, Unshared
<1> QED BY <1>2, <1>5 DEF Ruled, Standing

LEMMA RuledStill ==
  ASSUME RInv, UNCHANGED <<chain, pc, job, undone, overlapped, torn>>,
         \A b \in Bans : table'[b] # "none" => table[b] # "none"
  PROVE  Ruled'
<1>1. \A c : RulesOf(c)' = RulesOf(c)
  BY DEF RulesOf
<1> QED BY <1>1 DEF RInv, Ruled, Calm, Unshared

LEMMA RuledEnforce ==
  ASSUME RInv, NEW a \in Actors, Begin(a) \/ Enforce(a)
  PROVE  Ruled'
<1>1. CASE \/ Begin(a) \/ Struck(a) \/ LoadPolicies(a) \/ Mail(a) \/ NextPolicy(a)
           \/ Finish(a) \/ Extend(a)
           \/ \E s \in Servers : FindOffenders(a, s)
           \/ \E b \in Bans : Judge(a, b) \/ Sweep(a, b)
  <2>1. \E l \in Labels \ {"record"} : Goto(a, l)
    BY <1>1 DEF Begin, Struck, LoadPolicies, Mail, NextPolicy, Finish, Extend,
                FindOffenders, Judge, Sweep, Labels
  <2>2. pc[a] \notin {"cut", "lift"} /\ UNCHANGED <<chain, undone, torn>>
    BY <1>1 DEF Begin, Struck, LoadPolicies, Mail, NextPolicy, Finish, Extend,
                FindOffenders, Judge, Sweep
  <2>3. CASE table' = table
    BY <2>1, <2>2, <2>3, RuledQuiet
  <2>4. CASE Extend(a)
    <3>1. /\ table \in [Bans -> {"none", "active", "expired"}]
          /\ table' = [table EXCEPT ![job[a]] = IF @ = "none" THEN "none" ELSE "active"]
      BY <2>4 DEF RInv, FInv, IInv, SharedOK, Extend
    <3>2. \A b \in Bans : table'[b] # "none" => table[b] # "none"
      BY <3>1
    <3> QED BY <2>1, <2>2, <3>2, RuledQuiet
  <2> QED BY <1>1, <2>3, <2>4
          DEF Begin, Struck, LoadPolicies, Mail, NextPolicy, Finish, FindOffenders, Judge,
              Sweep
<1> QED BY <1>1, RuledCut, RuledDropRow, RuledAddRule, RuledRecord DEF Enforce

LEMMA NextRInv == RInv /\ [Next]_vars => RInv'
<1> SUFFICES ASSUME RInv, [Next]_vars PROVE RInv'
  OBVIOUS
<1>1. FInv'
  BY NextFInv DEF RInv
<1>2. Ruled'
  <2>1. ASSUME NEW a \in Requests,
               \/ \E s \in Servers, on \in BOOLEAN : SavePolicy(a, s, on)
               \/ \E b \in Bans : Unban(a, b) \/ DeleteRules(a, b)
               \/ DeleteOthers(a)
        PROVE  Ruled'
    <3>1. \E l \in Labels \ {"record"} : Goto(a, l)
      BY <2>1 DEF SavePolicy, Unban, DeleteRules, DeleteOthers, Labels
    <3>2. a \in Actors /\ pc[a] \notin {"cut", "lift"}
          /\ UNCHANGED <<table, chain, undone, torn>>
      BY <2>1 DEF SavePolicy, Unban, DeleteRules, DeleteOthers, Actors
    <3> QED BY <3>1, <3>2, RuledQuiet
  <2>2. ASSUME NEW a \in Actors, Begin(a) \/ Enforce(a) PROVE Ruled'
    BY <2>2, RuledEnforce
  <2>3. ASSUME (\E a \in Actors : StepFails(a)) \/ Crash PROVE Ruled'
    <3>1. torn' = TRUE
      BY <2>3 DEF StepFails, Crash
    <3> QED BY <3>1 DEF Ruled, Calm
  <2>4. ASSUME NEW b \in Bans, Expire(b) PROVE Ruled'
    <3>1. /\ table \in [Bans -> {"none", "active", "expired"}]
          /\ table' = [table EXCEPT ![b] = "expired"] /\ table[b] = "active"
          /\ UNCHANGED <<chain, pc, job, undone, overlapped, torn>>
      BY <2>4 DEF RInv, FInv, IInv, SharedOK, Expire, locals
    <3>2. \A c \in Bans : table'[c] # "none" => table[c] # "none"
      BY <3>1
    <3> QED BY <3>1, <3>2, RuledStill
  <2>5. ASSUME (\E b \in Bans : ToggleOffence(b)) \/ MailServer \/ UNCHANGED vars
        PROVE  Ruled'
    <3>1. UNCHANGED <<table, chain, pc, job, undone, overlapped, torn>>
      BY <2>5 DEF ToggleOffence, MailServer, vars, locals
    <3> QED BY <3>1, RuledStill
  <2> QED BY <2>1, <2>2, <2>3, <2>4, <2>5, RuledSlip DEF Next
<1> QED BY <1>1, <1>2 DEF RInv

\* Nothing a goroutine has left undone stands between a row and its rule.
UnsharedBansRuled ==
  Calm /\ Busy = {} => \A b \in Bans : Standing(b) => RulesOf(b) # {}

\* Of the bans whose rules no request has deleted, those alone may be in force
\* without a rule that the comment of another ban finds, as that of 10.0.0.1 finds
\* 10.0.0.10 (DeleteRuleByComment): every other one has a rule whenever no
\* goroutine is at work, if goroutines took turns and nothing failed.
THEOREM UnsharedRuled == Spec => []UnsharedBansRuled
<1>1. Init => RInv
  <2>1. Init => FInv
    BY InitIInv, InitNums DEF FInv
  <2>2. Init => Ruled
    <3>1. Init => /\ \A b \in Bans : table[b] = "none"
                  /\ \A a \in Actors : pc[a] = "idle"
      BY DEF Init
    <3> QED BY <3>1 DEF Ruled
  <2> QED BY <2>1, <2>2 DEF RInv
<1>2. RInv => UnsharedBansRuled
  BY DEF RInv, Ruled, UnsharedBansRuled, Standing, Busy
<1> QED BY <1>1, <1>2, NextRInv, PTL DEF Spec

\* The only cause of what ActiveBanHasRule is violated by: it holds if the comment
\* of a ban finds its own rules alone.
THEOREM ActiveBansRuled == ASSUME Exact PROVE Spec => []ActiveBanHasRule
<1>1. \A b \in Bans : Unshared(b)
  BY DEF Exact, Unshared
<1>2. UnsharedBansRuled => ActiveBanHasRule
  BY <1>1 DEF UnsharedBansRuled, Standing, ActiveBanHasRule
<1> QED BY <1>2, UnsharedRuled, PTL
===============================================================================

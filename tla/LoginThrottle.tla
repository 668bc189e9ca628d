---------------------------- MODULE LoginThrottle ----------------------------
(***************************************************************************)
(* The limits on login attempts: what LoginService keeps of each user name *)
(* and each address, and the requests that read and change it.             *)
(*   src/internal/services/login_service.go                                *)
(* An attempt takes the time once, when it begins, and uses it for both of *)
(* its critical sections: the check of the limits, and, after the password *)
(* has been compared outside the lock, the record of the outcome.  In      *)
(* between any number of other attempts may be checked and recorded.       *)
(*                                                                         *)
(* Time runs in ticks.  What the code keeps as a point in time is kept     *)
(* here as its distance from the present, which a tick diminishes; a point *)
(* that lies back further than any attempt does is as good as none, and so *)
(* is the zero time of a key that has no entry.  Failures count up to the  *)
(* limit, beyond which only the mails tell them apart.                     *)
(***************************************************************************)
EXTENDS Integers, FiniteSets

CONSTANTS
  Users,     \* user names, in lower case
  Known,     \* those that have an account
  IPs,       \* addresses
  Tracked,   \* those loginIPCanBeBlocked admits: not the loopback, say
  Attempts,  \* the goroutines that serve login requests
  UserMax, IPMax,  \* loginUserMaxFailures, loginIPMaxFailures
  Cooldown,  \* loginCooldown
  Block,     \* loginBlockDuration
  MaxAge     \* bound: how long an attempt takes

ASSUME LoginThrottleAssumption ==
  /\ Known \subseteq Users /\ Tracked \subseteq IPs /\ Users \cap IPs = {}
  /\ IsFiniteSet(Attempts)
  /\ UserMax \in Nat \ {0} /\ IPMax \in Nat \ {0}
  /\ Cooldown \in Nat /\ Block \in Nat /\ MaxAge \in Nat
  /\ MaxAge < Cooldown /\ Cooldown <= Block

VARIABLES
  failures,  \* of each key
  nextTry,   \* until when an attempt with the key has to wait,
  blocked,   \* and until when the key is blocked
  at,        \* where each attempt is
  user, ip,  \* what it was made with
  age,       \* how long ago it took the time; 0 when there is no request
  guesses,   \* history: passwords compared since the last success or block
  burst      \* history: passwords compared since the last wait was over

limits    == <<failures, nextTry, blocked>>
attempts  == <<at, user, ip, age>>
history   == <<guesses, burst>>
loginVars == <<limits, attempts, history>>

-----------------------------------------------------------------------------
Keys == Users \cup Tracked

\* The entries an attempt reads and writes: byUser, and byIP if it may be blocked.
KeysOf(a) == {user[a]} \cup ({ip[a]} \cap Tracked)

Limit(k)  == IF k \in Users THEN UserMax ELSE IPMax
Never     == -MaxAge
Comparing(k) == {a \in Attempts : at[a] = "compare" /\ k \in KeysOf(a)}

\* Variation: a key at its limit stays locked.
LockedAtLimit(k, sinceThen) ==
  nextTry[k] > -sinceThen \/ blocked[k] > -sinceThen \/ failures[k] >= Limit(k)

\* Variation: only blocks count.
LockedIfBlocked(k, sinceThen) == blocked[k] > -sinceThen

\* loginWait: a wait or a block that lasts beyond the time the attempt took.
Locked(k, sinceThen) == nextTry[k] > -sinceThen \/ blocked[k] > -sinceThen

LoginInit ==
  /\ failures = [k \in Keys |-> 0]
  /\ nextTry = [k \in Keys |-> Never]
  /\ blocked = [k \in Keys |-> Never]
  /\ at = [a \in Attempts |-> "idle"]
  /\ user \in [Attempts -> Users] /\ ip \in [Attempts -> IPs]
  /\ age = [a \in Attempts |-> 0]
  /\ guesses = [k \in Keys |-> 0]
  /\ burst = [k \in Keys |-> 0]

-----------------------------------------------------------------------------
\* A request comes in.  now := time.Now().
Enter(a, u, i) ==
  /\ at[a] = "idle"
  /\ at' = [at EXCEPT ![a] = "check"]
  /\ user' = [user EXCEPT ![a] = u]
  /\ ip' = [ip EXCEPT ![a] = i]
  /\ UNCHANGED <<limits, age, history>>

\* The check.
Refuse(a) ==
  /\ at[a] = "check"
  /\ \E k \in KeysOf(a) : Locked(k, age[a])
  /\ at' = [at EXCEPT ![a] = "refused"]
  /\ UNCHANGED <<limits, user, ip, age, history>>

Admit(a) ==
  /\ at[a] = "check"
  /\ \A k \in KeysOf(a) : ~Locked(k, age[a])
  /\ at' = [at EXCEPT ![a] = "compare"]
  /\ guesses' = [k \in Keys |-> IF k \in KeysOf(a) THEN guesses[k] + 1 ELSE guesses[k]]
  /\ burst' = [k \in Keys |-> IF k \in KeysOf(a) THEN burst[k] + 1 ELSE burst[k]]
  /\ UNCHANGED <<limits, user, ip, age>>

Leave(a) ==
  /\ at' = [at EXCEPT ![a] = "idle"]
  /\ age' = [age EXCEPT ![a] = 0]
  /\ UNCHANGED <<user, ip>>

Count(k) == IF failures[k] < Limit(k) THEN failures[k] + 1 ELSE failures[k]

\* Variation: a key is blocked by the failure after the last one allowed.
FailOneMore(a) ==
  /\ at[a] \in {"refused", "compare"}
  /\ failures' = [k \in Keys |-> IF k \in KeysOf(a) THEN Count(k) ELSE failures[k]]
  /\ nextTry' = [k \in Keys |-> IF k \in KeysOf(a) THEN Cooldown - age[a] ELSE nextTry[k]]
  /\ blocked' = [k \in Keys |-> IF k \in KeysOf(a) /\ failures[k] >= Limit(k)
                                  THEN Block - age[a] ELSE blocked[k]]
  /\ Leave(a)
  /\ UNCHANGED history

\* recordLoginFailure: of a refused attempt, an unknown user, a wrong password.
Fail(a) ==
  /\ at[a] \in {"refused", "compare"}
  /\ failures' = [k \in Keys |-> IF k \in KeysOf(a) THEN Count(k) ELSE failures[k]]
  /\ nextTry' = [k \in Keys |-> IF k \in KeysOf(a) THEN Cooldown - age[a] ELSE nextTry[k]]
  /\ blocked' = [k \in Keys |-> IF k \in KeysOf(a) /\ Count(k) >= Limit(k)
                                  THEN Block - age[a] ELSE blocked[k]]
  /\ Leave(a)
  /\ UNCHANGED history

\* The password is right: both entries are deleted, whatever they hold by now.
Succeed(a) ==
  /\ at[a] = "compare" /\ user[a] \in Known
  /\ failures' = [k \in Keys |-> IF k \in KeysOf(a) THEN 0 ELSE failures[k]]
  /\ nextTry' = [k \in Keys |-> IF k \in KeysOf(a) THEN Never ELSE nextTry[k]]
  /\ blocked' = [k \in Keys |-> IF k \in KeysOf(a) THEN Never ELSE blocked[k]]
  /\ Leave(a)
  /\ LET others(k) == Cardinality(Comparing(k) \ {a})
         since(h)  == [k \in Keys |-> IF k \in KeysOf(a) THEN others(k) ELSE h[k]]
     IN guesses' = since(guesses) /\ burst' = since(burst)

-----------------------------------------------------------------------------
\* Time passes.  The waits and blocks that are over begin a new count.
Tick ==
  /\ \A a \in Attempts : at[a] # "idle" => age[a] < MaxAge
  /\ LET less(h) == [k \in Keys |-> IF h[k] > Never THEN h[k] - 1 ELSE Never]
         anew(h, until) == [k \in Keys |-> IF until[k] = 1 THEN Cardinality(Comparing(k))
                                                        ELSE h[k]]
     IN /\ nextTry' = less(nextTry) /\ blocked' = less(blocked)
        /\ guesses' = anew(guesses, blocked) /\ burst' = anew(burst, nextTry)
  /\ age' = [a \in Attempts |-> IF at[a] = "idle" THEN 0 ELSE age[a] + 1]
  /\ UNCHANGED <<failures, at, user, ip>>

\* The entries are kept in memory only.
Restart ==
  /\ failures' = [k \in Keys |-> 0]
  /\ nextTry' = [k \in Keys |-> Never]
  /\ blocked' = [k \in Keys |-> Never]
  /\ at' = [a \in Attempts |-> "idle"] /\ age' = [a \in Attempts |-> 0]
  /\ guesses' = [k \in Keys |-> 0] /\ burst' = [k \in Keys |-> 0]
  /\ UNCHANGED <<user, ip>>

Serve(a) == Refuse(a) \/ Admit(a) \/ Fail(a) \/ Succeed(a)

LoginNext ==
  \/ \E a \in Attempts : Serve(a) \/ \E u \in Users, i \in IPs : Enter(a, u, i)
  \/ Tick \/ Restart

\* Attempts that have begun go on, and time passes.
LoginFairness == WF_loginVars(Tick) /\ \A a \in Attempts : WF_loginVars(Serve(a))

LoginSpec     == LoginInit /\ [][LoginNext]_loginVars
LoginFairSpec == LoginSpec /\ LoginFairness

-----------------------------------------------------------------------------
(* Properties *)

LoginTypeOK ==
  /\ failures \in [Keys -> Nat] /\ \A k \in Keys : failures[k] <= Limit(k)
  /\ nextTry \in [Keys -> Never .. Cooldown]
  /\ blocked \in [Keys -> Never .. Block]
  /\ at \in [Attempts -> {"idle", "check", "refused", "compare"}]
  /\ user \in [Attempts -> Users] /\ ip \in [Attempts -> IPs]
  /\ age \in [Attempts -> 0 .. MaxAge]
  /\ guesses \in [Keys -> Nat] /\ burst \in [Keys -> Nat]

\* Between two successes or blocks, no more passwords are compared for a user, or
\* from an address, than its limit and the attempts that slip in together before
\* the first of them is recorded.  After a block it is those alone, since the
\* failures stay counted.
GuessesBounded ==
  \A k \in Keys : guesses[k] < Limit(k) + Cardinality(Attempts)

\* Between the waits there are only the attempts that slip in together, although
\* a failure may be recorded late, with a time that lies back.
BurstBounded ==
  \A k \in Keys : burst[k] <= Cardinality(Attempts)

\* Once nobody tries it any more, a user or an address is let in again, whatever
\* it was locked for: refused attempts prolong a lock, but nothing makes it last.
LockoutEnds ==
  \A k \in Keys : <>[](\A a \in Attempts : at[a] = "idle" \/ k \notin KeysOf(a))
                    => <>[]~Locked(k, 0)
=============================================================================

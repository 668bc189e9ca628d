----------------------------- MODULE StatusBoard -----------------------------
(***************************************************************************)
(* What the status monitor promises to its callers: a board with one       *)
(* status per key, at most one probe per key at a time, and an answer to   *)
(* every probe that was begun.  How probes are scheduled, limited and      *)
(* published is the business of StatusMonitor, which implements this.      *)
(***************************************************************************)
CONSTANT Keys

VARIABLES
  status,    \* what the board shows for each key
  inflight   \* the keys being probed

boardVars == <<status, inflight>>

Results == {"Online", "Offline"}

BoardInit ==
  /\ status = [k \in Keys |-> "unknown"]
  /\ inflight = {}

\* A key nobody is probing is probed; the board shows its last answer meanwhile.
Begin(k) ==
  /\ k \notin inflight
  /\ inflight' = inflight \cup {k}
  /\ status' = [status EXCEPT ![k] = IF @ = "unknown" THEN "Checking" ELSE @]

Finish(k) ==
  /\ k \in inflight
  /\ inflight' = inflight \ {k}
  /\ \E s \in Results : status' = [status EXCEPT ![k] = s]

BoardNext == \E k \in Keys : Begin(k) \/ Finish(k)

BoardSpec == BoardInit /\ [][BoardNext]_boardVars

\* Every probe that was begun is answered.
BoardFairSpec == BoardSpec /\ \A k \in Keys : WF_boardVars(Finish(k))
=============================================================================

------------------------------ MODULE Fail2Ban -------------------------------
(***************************************************************************)
(* Fail2Ban enforcement: the rows of fail2ban_bans, the rules of the INPUT *)
(* chain of iptables that carry them out, and the goroutines that change   *)
(* both: the enforcement loop, and the requests that save a policy (which  *)
(* enforces at once), lift a ban, delete the rules of a comment or apply   *)
(* the DDoS limits.                                                        *)
(*   src/internal/services/serverconfiguration_fail2ban.go                 *)
(*   src/internal/services/serverconfiguration_service.go (AddRule,        *)
(*   DeleteRuleByComment, DeleteRule, ApplyDDoSIptables)                   *)
(*   src/internal/handlers/serverconfiguration_handler.go (DeleteRule,     *)
(*   AddRule)                                                              *)
(* Nothing is locked: every statement and every iptables command is a step *)
(* of its own.  Rules are found by comment and deleted by the numbers a    *)
(* listing gave them earlier, the highest first.  A listing finds a rule   *)
(* by looking for the comment anywhere in its line, so the comment of      *)
(* 10.0.0.1 also finds the rule of 10.0.0.10: Found[b] is what b finds.    *)
(*                                                                         *)
(* A ban is mailed in the middle of a round, over a connection that has no *)
(* deadline: a mail server that does not answer holds the goroutine up.    *)
(*                                                                         *)
(* The time a ban lasts is left open, and so is what makes an address an   *)
(* offender.  The FORWARD chain, which no ban enters, is left out, and so  *)
(* is what a mail says.  A notification that is switched off is one that   *)
(* takes no time.                                                          *)
(***************************************************************************)
EXTENDS Naturals, SequencesExt

CONSTANTS
  Servers,   \* the servers that may have a policy
  Bans,      \* (server, address) pairs: the unique key of fail2ban_bans
  ServerOf,  \* the server of each
  Found,     \* the bans whose rule the comment of a ban finds, itself included
  Foreign,   \* any rule of the chain that belongs to nobody's ban
  Loop,      \* the goroutine of StartFail2BanEnforcer
  Requests,  \* the request handlers
  None,      \* no ban
  MaxMoves   \* bound: requests, changes of traffic, faults, and bans that expire
             \* while a goroutine is at work, in a behaviour

ASSUME Fail2BanAssumption ==
  /\ ServerOf \in [Bans -> Servers]
  /\ Found \in [Bans -> SUBSET Bans]
  /\ \A b \in Bans : b \in Found[b]
  /\ Foreign \notin Bans /\ None \notin Bans \cup {Foreign}
  /\ Loop \notin Requests
  /\ MaxMoves \in Nat

VARIABLES
  table,      \* fail2ban_bans: no row, a row, or a row whose time is over
  chain,      \* the INPUT chain
  enabled,    \* the servers whose policy is enabled
  offending,  \* the bans the access log calls for
  silent,     \* the mail server takes connections and does not answer
  pc,         \* where each goroutine is
  policies,   \* the policies it has still to apply
  todo,       \* the rows it has still to clean up, or the offenders to judge
  job,        \* the ban it is at, or Foreign for rules of others
  nums,       \* the rule numbers it has still to delete
  undone,     \* history: whose rules a request has deleted by their comment,
              \* until the row of the ban is gone or written with a new rule
  overlapped, \* history: two goroutines have been at work at the same time
  torn,       \* history: a crash, a reboot or a failed step has happened
  moves       \* what MaxMoves bounds, so far

locals == <<policies, todo, job, nums>>
world  == <<enabled, offending, silent>>
vars   == <<table, chain, world, pc, locals, undone, overlapped, torn, moves>>

-----------------------------------------------------------------------------
Actors == {Loop} \cup Requests
Rules  == Bans \cup {Foreign}

\* The places where a goroutine deletes by number, and those where it is at
\* a ban, or at the rules of others.
Deleting == {"cut", "lift", "strike"}
AtWork   == Deleting \cup {"extend", "add", "record"}

RulesOf(x) == {i \in DOMAIN chain : chain[i] = x}
Finds(x)   == IF x = Foreign THEN {Foreign} ELSE Found[x]
Numbers(x) == {i \in DOMAIN chain : chain[i] \in Finds(x)}
Busy       == {a \in Actors : pc[a] # "idle"}

\* A step of a goroutine, and whether it is alone.
Goto(a, label) ==
  /\ pc' = [pc EXCEPT ![a] = label]
  /\ overlapped' = (overlapped \/ \E o \in Actors \ {a} : pc[o] # "idle")

Move == moves < MaxMoves /\ moves' = moves + 1

Init ==
  /\ table = [b \in Bans |-> "none"]
  /\ chain = <<Foreign>>
  /\ enabled = {} /\ offending = {} /\ silent = FALSE
  /\ pc = [a \in Actors |-> "idle"]
  /\ policies = [a \in Actors |-> {}]
  /\ todo = [a \in Actors |-> {}]
  /\ job = [a \in Actors |-> None]
  /\ nums = [a \in Actors |-> {}]
  /\ undone = {} /\ overlapped = FALSE /\ torn = FALSE
  /\ moves = 0

-----------------------------------------------------------------------------
(* Requests *)

\* SaveFail2BanPolicy, and EnforceFail2BanOnce when the policy is enabled.
SavePolicy(a, s, on) ==
  /\ Move
  /\ a \in Requests /\ pc[a] = "idle"
  /\ enabled' = IF on THEN enabled \cup {s} ELSE enabled \ {s}
  /\ Goto(a, IF on THEN "begin" ELSE "idle")
  /\ UNCHANGED <<table, chain, offending, silent, locals, undone, torn>>

\* UnbanFail2BanIP lists the rules to delete.
Unban(a, b) ==
  /\ Move
  /\ a \in Requests /\ pc[a] = "idle"
  /\ job' = [job EXCEPT ![a] = b]
  /\ nums' = [nums EXCEPT ![a] = Numbers(b)]
  /\ Goto(a, "lift")
  /\ UNCHANGED <<table, chain, world, policies, todo, undone, torn>>

\* DeleteRule of the panel: the rules of a ban, all that carry its comment, are
\* listed; its row is not looked at.
DeleteRules(a, b) ==
  /\ Move
  /\ a \in Requests /\ pc[a] = "idle"
  /\ job' = [job EXCEPT ![a] = b]
  /\ nums' = [nums EXCEPT ![a] = Numbers(b)]
  /\ Goto(a, "strike")
  /\ UNCHANGED <<table, chain, world, policies, todo, undone, torn>>

\* The same for a comment of rules of others, be it a request of the panel or
\* ApplyDDoSIptables, which deletes the old limits by the head of their comment.
DeleteOthers(a) ==
  /\ Move
  /\ a \in Requests /\ pc[a] = "idle"
  /\ job' = [job EXCEPT ![a] = Foreign]
  /\ \E S \in SUBSET Numbers(Foreign) : nums' = [nums EXCEPT ![a] = S]
  /\ Goto(a, "strike")
  /\ UNCHANGED <<table, chain, world, policies, todo, undone, torn>>

\* ApplyDDoSIptables then adds the new limits: after the rules of bans, or at the
\* end of the chain.
AddLimit(a) ==
  /\ Move
  /\ pc[a] = "strike" /\ job[a] = Foreign /\ nums[a] = {}
  /\ \E n \in 1 .. Len(chain) + 1 : chain' = InsertAt(chain, n, Foreign)
  /\ Goto(a, "strike")
  /\ UNCHANGED <<table, world, locals, undone, torn>>

\* The request has deleted what it listed.
Struck(a) ==
  /\ pc[a] = "strike" /\ nums[a] = {}
  /\ job' = [job EXCEPT ![a] = None]
  /\ Goto(a, "idle")
  /\ UNCHANGED <<table, chain, world, policies, todo, nums, undone, torn, moves>>

-----------------------------------------------------------------------------
(* EnforceFail2BanOnce: the clean-up *)

\* Variation: the clean-up takes every row, whatever its time.
BeginAll(a) ==
  /\ \/ pc[a] = "begin"
     \/ a = Loop /\ pc[a] = "idle"
  /\ todo' = [todo EXCEPT ![a] = {b \in Bans : table[b] # "none"}]
  /\ Goto(a, "sweep")
  /\ UNCHANGED <<table, chain, world, policies, job, nums, undone, torn, moves>>

\* Variation: the clean-up passes over the servers whose policy is disabled.
BeginEnabled(a) ==
  /\ \/ pc[a] = "begin"
     \/ a = Loop /\ pc[a] = "idle"
  /\ todo' = [todo EXCEPT ![a] =
                 {b \in Bans : table[b] = "expired" /\ ServerOf[b] \in enabled}]
  /\ Goto(a, "sweep")
  /\ UNCHANGED <<table, chain, world, policies, job, nums, undone, torn, moves>>

\* cleanupExpiredFail2BanBans reads the rows whose time is over.
Begin(a) ==
  /\ \/ pc[a] = "begin"
     \/ a = Loop /\ pc[a] = "idle"
  /\ todo' = [todo EXCEPT ![a] = {b \in Bans : table[b] = "expired"}]
  /\ Goto(a, "sweep")
  /\ UNCHANGED <<table, chain, world, policies, job, nums, undone, torn, moves>>

\* Variation: the clean-up deletes rows and leaves the rules behind.
SweepRowOnly(a, b) ==
  /\ pc[a] = "sweep" /\ b \in todo[a]
  /\ job' = [job EXCEPT ![a] = b]
  /\ nums' = [nums EXCEPT ![a] = {}]
  /\ todo' = [todo EXCEPT ![a] = @ \ {b}]
  /\ Goto(a, "cut")
  /\ UNCHANGED <<table, chain, world, policies, undone, torn, moves>>

\* DeleteRuleByComment lists the rules of the next one.
Sweep(a, b) ==
  /\ pc[a] = "sweep" /\ b \in todo[a]
  /\ job' = [job EXCEPT ![a] = b]
  /\ nums' = [nums EXCEPT ![a] = Numbers(b)]
  /\ todo' = [todo EXCEPT ![a] = @ \ {b}]
  /\ Goto(a, "cut")
  /\ UNCHANGED <<table, chain, world, policies, undone, torn, moves>>

\* Variation: the numbers are used in ascending order.
CutLowest(a) ==
  /\ pc[a] \in Deleting /\ nums[a] # {}
  /\ LET n == Min(nums[a]) IN
       /\ chain' = IF n \in DOMAIN chain THEN RemoveAt(chain, n) ELSE chain
       /\ nums' = [nums EXCEPT ![a] = @ \ {n}]
       /\ undone' = IF pc[a] = "strike" /\ n \in DOMAIN chain
                    THEN undone \cup {chain[n]} ELSE undone
  /\ Goto(a, pc[a])
  /\ UNCHANGED <<table, world, policies, todo, job, torn, moves>>

\* DeleteRule: the highest number first; a number beyond the chain is an error,
\* which is ignored.
Cut(a) ==
  /\ pc[a] \in Deleting /\ nums[a] # {}
  /\ LET n == Max(nums[a]) IN
       /\ chain' = IF n \in DOMAIN chain THEN RemoveAt(chain, n) ELSE chain
       /\ nums' = [nums EXCEPT ![a] = @ \ {n}]
       /\ undone' = IF pc[a] = "strike" /\ n \in DOMAIN chain
                    THEN undone \cup {chain[n]} ELSE undone
  /\ Goto(a, pc[a])
  /\ UNCHANGED <<table, world, policies, todo, job, torn, moves>>

\* Variation: the ban is still at hand after its row has gone.
DropRowOnly(a) ==
  /\ pc[a] \in {"cut", "lift"} /\ nums[a] = {}
  /\ table' = [table EXCEPT ![job[a]] = "none"]
  /\ undone' = undone \ {job[a]}
  /\ Goto(a, IF pc[a] = "cut" THEN "sweep" ELSE "idle")
  /\ UNCHANGED <<chain, world, policies, todo, job, nums, torn, moves>>

\* DELETE FROM fail2ban_bans: whatever the row holds by now.
DropRow(a) ==
  /\ pc[a] \in {"cut", "lift"} /\ nums[a] = {}
  /\ table' = [table EXCEPT ![job[a]] = "none"]
  /\ undone' = undone \ {job[a]}
  /\ job' = [job EXCEPT ![a] = None]
  /\ Goto(a, IF pc[a] = "cut" THEN "sweep" ELSE "idle")
  /\ UNCHANGED <<chain, world, policies, todo, nums, torn, moves>>

-----------------------------------------------------------------------------
(* EnforceFail2BanOnce: the policies *)

LoadPolicies(a) ==
  /\ pc[a] = "sweep" /\ todo[a] = {}
  /\ policies' = [policies EXCEPT ![a] = enabled]
  /\ Goto(a, "policies")
  /\ UNCHANGED <<table, chain, world, todo, job, nums, undone, torn, moves>>

\* findFail2BanOffenders for the next policy.
FindOffenders(a, s) ==
  /\ pc[a] = "policies" /\ s \in policies[a]
  /\ policies' = [policies EXCEPT ![a] = @ \ {s}]
  /\ todo' = [todo EXCEPT ![a] = {b \in offending : ServerOf[b] = s}]
  /\ Goto(a, "judge")
  /\ UNCHANGED <<table, chain, world, job, nums, undone, torn, moves>>

\* Variation: a missing row is taken for a ban in force.
JudgeMissing(a, b) ==
  /\ pc[a] = "judge" /\ b \in todo[a]
  /\ job' = [job EXCEPT ![a] = b]
  /\ todo' = [todo EXCEPT ![a] = @ \ {b}]
  /\ Goto(a, IF table[b] = "expired" THEN "add" ELSE "extend")
  /\ UNCHANGED <<table, chain, world, policies, nums, undone, torn, moves>>

\* banFail2BanIP reads the row: a ban in force is extended, any other added.
Judge(a, b) ==
  /\ pc[a] = "judge" /\ b \in todo[a]
  /\ job' = [job EXCEPT ![a] = b]
  /\ todo' = [todo EXCEPT ![a] = @ \ {b}]
  /\ Goto(a, IF table[b] = "active" THEN "extend" ELSE "add")
  /\ UNCHANGED <<table, chain, world, policies, nums, undone, torn, moves>>

\* UPDATE fail2ban_bans SET expires_at: only the row, and only if it is there.
Extend(a) ==
  /\ pc[a] = "extend"
  /\ table' = [table EXCEPT ![job[a]] = IF @ = "none" THEN "none" ELSE "active"]
  /\ job' = [job EXCEPT ![a] = None]
  /\ Goto(a, "judge")
  /\ UNCHANGED <<chain, world, policies, todo, nums, undone, torn, moves>>

\* AddRule inserts the rule at position 1.
AddRule(a) ==
  /\ pc[a] = "add"
  /\ chain' = <<job[a]>> \o chain
  /\ Goto(a, "record")
  /\ UNCHANGED <<table, world, policies, todo, job, nums, undone, torn, moves>>

\* INSERT ... ON DUPLICATE KEY UPDATE.
Record(a) ==
  /\ pc[a] = "record"
  /\ table' = [table EXCEPT ![job[a]] = "active"]
  /\ undone' = undone \ {job[a]}
  /\ job' = [job EXCEPT ![a] = None]
  /\ Goto(a, "mail")
  /\ UNCHANGED <<chain, world, policies, todo, nums, torn, moves>>

\* sendFail2BanBanMail: accepted, refused or broken off, it is all the same.
Mail(a) ==
  /\ pc[a] = "mail" /\ ~silent
  /\ Goto(a, "judge")
  /\ UNCHANGED <<table, chain, world, locals, undone, torn, moves>>

NextPolicy(a) ==
  /\ pc[a] = "judge" /\ todo[a] = {}
  /\ Goto(a, "policies")
  /\ UNCHANGED <<table, chain, world, locals, undone, torn, moves>>

Finish(a) ==
  /\ pc[a] = "policies" /\ policies[a] = {}
  /\ Goto(a, "idle")
  /\ UNCHANGED <<table, chain, world, locals, undone, torn, moves>>

-----------------------------------------------------------------------------
(* Time, traffic, other rules *)

\* The time of a ban is over; it may well be in the middle of a round.
Expire(b) ==
  /\ table[b] = "active"
  /\ \/ Busy = {} /\ UNCHANGED moves
     \/ Busy # {} /\ Move
  /\ table' = [table EXCEPT ![b] = "expired"]
  /\ UNCHANGED <<chain, world, pc, locals, undone, overlapped, torn>>

ToggleOffence(b) ==
  /\ Move
  /\ offending' = IF b \in offending THEN offending \ {b} ELSE offending \cup {b}
  /\ UNCHANGED <<table, chain, enabled, silent, pc, locals, undone, overlapped,
                 torn>>

\* The mail server falls silent, or answers again; nobody can tell but a
\* goroutine that mails.
MailServer ==
  /\ \E a \in Actors : pc[a] = "mail"
  /\ silent' = ~silent
  /\ UNCHANGED <<table, chain, enabled, offending, pc, locals, undone, overlapped,
                 torn, moves>>

\* AddRule of the panel inserts a rule where the administrator wants it.
InsertForeign ==
  /\ Move
  /\ \E n \in 1 .. Len(chain) + 1 : chain' = InsertAt(chain, n, Foreign)
  /\ overlapped' = (overlapped \/ Busy # {})
  /\ UNCHANGED <<table, world, pc, locals, undone, torn>>

-----------------------------------------------------------------------------
(* Faults *)

\* iptables does not list the rules, or does not delete the next one: the errors
\* are ignored.
DeletionFails(a) ==
  /\ pc[a] \in Deleting /\ nums[a] # {}
  /\ \E S \in {{}, nums[a] \ {Max(nums[a])}} : nums' = [nums EXCEPT ![a] = S]
  /\ Goto(a, pc[a])
  /\ UNCHANGED <<policies, todo, job>>

\* The row of a ban is not deleted, written or extended, or its rule is not
\* inserted: the next one has its turn.
StatementFails(a) ==
  /\ \/ pc[a] \in {"cut", "lift"} /\ nums[a] = {}
     \/ pc[a] \in {"extend", "add", "record"}
  /\ job' = [job EXCEPT ![a] = None]
  /\ Goto(a, CASE pc[a] = "cut" -> "sweep"
                [] pc[a] = "lift" -> "idle"
                [] OTHER -> "judge")
  /\ UNCHANGED <<policies, todo, nums>>

\* A query fails or breaks off: what it would have returned is passed over, be it
\* rows to clean up, policies, the offenders of one or the row of an offender.
QueryFails(a) ==
  /\ \/ /\ pc[a] \in {"sweep", "judge"}
        /\ \E S \in SUBSET todo[a] : todo' = [todo EXCEPT ![a] = S]
        /\ UNCHANGED policies
     \/ /\ pc[a] = "policies"
        /\ \E S \in SUBSET policies[a] : policies' = [policies EXCEPT ![a] = S]
        /\ UNCHANGED todo
  /\ Goto(a, pc[a])
  /\ UNCHANGED <<job, nums>>

StepFails(a) ==
  /\ Move
  /\ DeletionFails(a) \/ StatementFails(a) \/ QueryFails(a)
  /\ torn' = TRUE
  /\ UNCHANGED <<table, chain, world, undone>>

\* The process dies; on a reboot of the host the rules go with it.
Crash ==
  /\ Move
  /\ chain' \in {chain, <<>>}
  /\ pc' = [a \in Actors |-> "idle"]
  /\ policies' = [a \in Actors |-> {}]
  /\ todo' = [a \in Actors |-> {}]
  /\ job' = [a \in Actors |-> None]
  /\ nums' = [a \in Actors |-> {}]
  /\ torn' = TRUE
  /\ UNCHANGED <<table, world, undone, overlapped>>

-----------------------------------------------------------------------------
Enforce(a) ==
  \/ \E b \in Bans : Sweep(a, b) \/ Judge(a, b)
  \/ Cut(a) \/ DropRow(a) \/ Struck(a) \/ LoadPolicies(a)
  \/ \E s \in Servers : FindOffenders(a, s)
  \/ Extend(a) \/ AddRule(a) \/ Record(a) \/ Mail(a)
  \/ NextPolicy(a) \/ Finish(a)

Next ==
  \/ \E a \in Requests : \/ \E s \in Servers, on \in BOOLEAN : SavePolicy(a, s, on)
                         \/ \E b \in Bans : Unban(a, b) \/ DeleteRules(a, b)
                         \/ DeleteOthers(a) \/ AddLimit(a)
  \/ \E a \in Actors : Begin(a) \/ Enforce(a) \/ StepFails(a)
  \/ \E b \in Bans : Expire(b) \/ ToggleOffence(b)
  \/ InsertForeign \/ MailServer \/ Crash

\* The loop enforces again and again, a goroutine that has begun goes on, unless
\* it waits for the mail server, and the time of a ban that no traffic extends
\* passes, above all between two rounds of the loop.  Requests, traffic, the mail
\* server and faults owe nothing.
Fairness ==
  /\ WF_vars(Begin(Loop))
  /\ \A a \in Requests : WF_vars(Begin(a))
  /\ \A a \in Actors : WF_vars(Enforce(a))
  /\ \A b \in Bans : SF_vars(b \notin offending /\ Expire(b))

Spec     == Init /\ [][Next]_vars
FairSpec == Spec /\ Fairness

-----------------------------------------------------------------------------
(* Properties *)

TypeOK ==
  /\ table \in [Bans -> {"none", "active", "expired"}]
  /\ chain \in Seq(Rules)
  /\ enabled \subseteq Servers /\ offending \subseteq Bans /\ silent \in BOOLEAN
  /\ pc \in [Actors -> AtWork \cup
               {"idle", "begin", "sweep", "policies", "judge", "mail"}]
  /\ policies \in [Actors -> SUBSET Servers]
  /\ todo \in [Actors -> SUBSET Bans]
  /\ job \in [Actors -> Rules \cup {None}]
  /\ \A a \in Actors : /\ pc[a] \in AtWork <=> job[a] # None
                       /\ job[a] = Foreign => pc[a] = "strike"
  /\ nums \in [Actors -> SUBSET Nat]
  /\ undone \subseteq Rules
  /\ overlapped \in BOOLEAN /\ torn \in BOOLEAN
  /\ moves \in 0 .. MaxMoves

\* Nothing has gone wrong and nobody has come in between.
Calm == ~overlapped /\ ~torn

\* While goroutines take turns and nothing fails, a ban has a rule exactly as long
\* as it has a row, unless an administrator has deleted the rule and left the row;
\* except for the ban a goroutine is at: it lists numbers, deletes by number,
\* inserts on top and writes the row in steps of their own.  (A ban may have
\* several rules: one whose time is over between the clean-up and the judgement of
\* a round is added again.)
TableMatchesChain ==
  Calm => \A b \in Bans :
    (\A a \in Actors : job[a] # b)
      => (table[b] # "none" /\ b \notin undone <=> RulesOf(b) # {})

\* No goroutine that is at a ban deletes a rule of others, although it deletes by
\* positions that its earlier deletions have shifted, and although a ban may have
\* several rules with others in between.
ForeignKept ==
  [][\A a \in Actors :
       Enforce(a) /\ job[a] # Foreign /\ ~overlapped' /\ ~torn'
         => Cardinality(RulesOf(Foreign)') = Cardinality(RulesOf(Foreign))]_vars

\* A ban in force ends when its time is over or when it is lifted, never because
\* the clean-up or the enforcement of another one is under way.
BanKept ==
  [][\A b \in Bans :
       Calm /\ Calm' /\ table[b] = "active" /\ table'[b] = "none"
         => \E a \in Requests : pc[a] = "lift" /\ job[a] = b]_vars

\* An address that goes on offending a policy that stays enabled is blocked
\* again and again, as long as goroutines take turns, nothing fails and the mail
\* server answers in the end; unless an administrator has deleted its rule: the
\* row that stays in force keeps the loop from adding another one.
OffenderIsBlocked ==
  <>[]~silent => \A b \in Bans :
    <>[](b \in offending /\ ServerOf[b] \in enabled /\ b \notin undone) /\ []Calm
      => []<>(RulesOf(b) # {})

\* If the mail server answers in the end: a row whose time is over goes, or becomes
\* a ban again, whatever overlaps or fails, and although its policy may have been
\* disabled; and an address that has stopped offending gets through again for
\* good, as long as goroutines take turns and nothing fails.
EveryBanEnds ==
  <>[]~silent => \A b \in Bans :
    /\ table[b] = "expired" ~> table[b] # "expired"
    /\ <>[](b \notin offending) /\ []Calm => <>[](RulesOf(b) = {})

\* README: Fail2Ban-style automatic banning; the analytics page counts the rows
\* that have not expired as active bans.  A ban in force has a rule, at least as
\* long as goroutines take turns, nothing fails and no administrator deletes it.
ActiveBanHasRule ==
  Calm /\ Busy = {} => \A b \in Bans :
    table[b] = "active" /\ b \notin undone => RulesOf(b) # {}
=============================================================================

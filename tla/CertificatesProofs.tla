-------------------------- MODULE CertificatesProofs --------------------------
(***************************************************************************)
(* Sites and certificates, proved for any sites, names and requests and    *)
(* any size of the batch: the types, that a certificate of the table has   *)
(* its files, that nginx serves what the rows say, with certificates of    *)
(* its names, and that no certificate is overwritten with one of another   *)
(* name until rows and names are at odds (as after a renaming).            *)
(***************************************************************************)
EXTENDS Certificates, FiniteSetTheorems, SequenceTheorems, TLAPS

Labels == {"idle", "next", "lock", "generate", "write", "reload", "saved",
           "purge", "purge pairs", "purged", "obtain", "crt", "key", "row", "ssl",
           "revoke", "unssl", "drop", "files"}

\* What goroutines are at, and where: the fields each place reads are there.
Block    == [id : SiteIds, tls : Names \cup {Plain, Missing}]
Tasks    == [op : Locked, site : SiteIds, domain : Names, path : Names, pair : Nat]
Renewals == [op : {"renew"}, site : SiteIds, pair : {0}]
Purges   == [op : {"purge"}, sites : SUBSET Names, paths : SUBSET Names]
Plains   == {NoWork, [op |-> "save"], [op |-> "redeploy"]}
Jobs     == Plains \cup Purges \cup Tasks \cup Renewals

BusyAt(l)    == l \notin {"idle", "next", "lock"}
Holds(l, w)  == BusyAt(l) /\ w.op \in Locked
Fits(l, w, d) ==
  /\ l \in {"idle", "next"} => w = NoWork
  /\ l = "lock" => w \in Tasks \cup Renewals
  /\ l = "saved" => w.op = "save"
  /\ l \in {"generate", "write", "reload"} => w.op \in {"save", "redeploy"} \cup Locked
  /\ l \in {"purge", "purge pairs", "purged"} => w \in Purges
  /\ l \in {"obtain", "crt", "key", "row", "ssl"} => w \in Tasks /\ w.op \in {"issue", "renew"}
  /\ l \in {"revoke", "unssl", "drop", "files"} => w \in Tasks /\ w.op = "delete"
  /\ w \in Tasks /\ w.op = "issue" => w.path = w.domain
  /\ l \in {"generate", "write", "reload", "saved"} => d # << >>

LocalsOK ==
  /\ pc \in [Actors -> Labels] /\ work \in [Actors -> Jobs]
  /\ deploys \in [Actors -> Seq(Names)] /\ plan \in [Actors -> SUBSET Block]
  /\ mutex \in Actors \cup {Nobody}
  /\ \A p \in Actors : Fits(pc[p], work[p], deploys[p])
  /\ \A p \in Actors : mutex = p <=> Holds(pc[p], work[p])

TablesOK ==
  /\ site \in [SiteIds -> Row \cup {Unborn, Gone}]
  /\ cert \in [SiteIds -> [domain : Names, path : Names, expires : Pair \ {0}] \cup {NoRow}]
  /\ crt \in [Names -> Pair] /\ key \in [Names -> Pair]
  /\ issued \in Seq(Names) /\ revoked \subseteq Pair \ {0}
  /\ horizon \in Pair

NginxOK ==
  /\ conf \in [Names -> SUBSET Block]
  /\ live \in [Names -> SUBSET [id : SiteIds, pair : Pair]]
  /\ reachable \subseteq Names
  /\ todo \in Seq(SiteIds)

\* A pair that is being written has been issued.
PairsOK == \A p \in Actors : pc[p] \in {"crt", "key", "row"} => work[p].pair \in Pair \ {0}

IInv == TablesOK /\ NginxOK /\ LocalsOK /\ PairsOK

LEMMA TypesFollow == IInv /\ left \subseteq Names => TypeOK
BY DEF IInv, TablesOK, NginxOK, LocalsOK, TypeOK, Fits, Holds, BusyAt, Busy, Block

\* The goroutines other than the one that takes a step.
Others(p) ==
  \A q \in Actors \ {p} : /\ pc'[q] = pc[q] /\ work'[q] = work[q]
                          /\ deploys'[q] = deploys[q] /\ plan'[q] = plan[q]

\* What a local is set to that it is already.
LEMMA Kept ==
  ASSUME LocalsOK, NEW p \in Actors
  PROVE  /\ pc = [pc EXCEPT ![p] = pc[p]] /\ work = [work EXCEPT ![p] = work[p]]
         /\ deploys = [deploys EXCEPT ![p] = deploys[p]] /\ plan = [plan EXCEPT ![p] = plan[p]]
BY DEF LocalsOK

\* The locals of a goroutine are set, or are what they are set to.
Becomes(p, w, d, f) ==
  /\ (w = work[p] /\ work' = work) \/ work' = [work EXCEPT ![p] = w]
  /\ (d = deploys[p] /\ deploys' = deploys) \/ deploys' = [deploys EXCEPT ![p] = d]
  /\ (f = plan[p] /\ plan' = plan) \/ plan' = [plan EXCEPT ![p] = f]

LEMMA BecomesSet ==
  ASSUME LocalsOK, NEW p \in Actors, NEW w, NEW d, NEW f, Becomes(p, w, d, f)
  PROVE  /\ work' = [work EXCEPT ![p] = w] /\ deploys' = [deploys EXCEPT ![p] = d]
         /\ plan' = [plan EXCEPT ![p] = f]
<1>1. work' = [work EXCEPT ![p] = w]
  BY Kept DEF Becomes
<1>2. deploys' = [deploys EXCEPT ![p] = d]
  BY Kept DEF Becomes
<1>3. plan' = [plan EXCEPT ![p] = f]
  BY Kept DEF Becomes
<1> QED BY <1>1, <1>2, <1>3

\* One goroutine goes on, and takes or leaves the mutex for itself only.
LEMMA Onward ==
  ASSUME LocalsOK, NEW p \in Actors, NEW l \in Labels, NEW w \in Jobs,
         NEW d \in Seq(Names), NEW f \in SUBSET Block,
         Goto(p, l), Becomes(p, w, d, f), Fits(l, w, d), mutex' \in {mutex, p, Nobody},
         \A q \in Actors \ {p} : mutex' = q <=> mutex = q,
         mutex' = p <=> Holds(l, w)
  PROVE  /\ LocalsOK' /\ Others(p)
         /\ pc'[p] = l /\ work'[p] = w /\ deploys'[p] = d /\ plan'[p] = f
<1>1. /\ pc \in [Actors -> Labels] /\ work \in [Actors -> Jobs]
      /\ deploys \in [Actors -> Seq(Names)] /\ plan \in [Actors -> SUBSET Block]
  BY DEF LocalsOK
<1>a. /\ pc' = [pc EXCEPT ![p] = l] /\ work' = [work EXCEPT ![p] = w]
      /\ deploys' = [deploys EXCEPT ![p] = d] /\ plan' = [plan EXCEPT ![p] = f]
  BY BecomesSet DEF Goto
<1>2. /\ pc' \in [Actors -> Labels] /\ work' \in [Actors -> Jobs]
      /\ deploys' \in [Actors -> Seq(Names)] /\ plan' \in [Actors -> SUBSET Block]
  BY <1>1, <1>a
<1>3. pc'[p] = l /\ work'[p] = w /\ deploys'[p] = d /\ plan'[p] = f
  BY <1>1, <1>a
<1>4. \A q \in Actors \ {p} : pc'[q] = pc[q] /\ work'[q] = work[q]
                              /\ deploys'[q] = deploys[q] /\ plan'[q] = plan[q]
  BY <1>1, <1>a
<1>5. mutex' \in Actors \cup {Nobody}
  BY DEF LocalsOK
<1>6. \A q \in Actors : Fits(pc'[q], work'[q], deploys'[q])
  <2> SUFFICES ASSUME NEW q \in Actors PROVE Fits(pc'[q], work'[q], deploys'[q])
    OBVIOUS
  <2>1. CASE q = p
    BY <1>3, <2>1
  <2>2. CASE q # p
    <3>1. pc'[q] = pc[q] /\ work'[q] = work[q] /\ deploys'[q] = deploys[q]
      BY <1>4, <2>2
    <3>2. Fits(pc[q], work[q], deploys[q])
      BY DEF LocalsOK
    <3> QED BY <3>1, <3>2
  <2> QED BY <2>1, <2>2
<1>7. \A q \in Actors : mutex' = q <=> Holds(pc'[q], work'[q])
  <2> SUFFICES ASSUME NEW q \in Actors PROVE mutex' = q <=> Holds(pc'[q], work'[q])
    OBVIOUS
  <2>1. CASE q = p
    BY <1>3, <2>1
  <2>2. CASE q # p
    <3>1. pc'[q] = pc[q] /\ work'[q] = work[q] /\ q \in Actors \ {p}
      BY <1>4, <2>2
    <3>2. mutex = q <=> Holds(pc[q], work[q])
      BY DEF LocalsOK
    <3>3. mutex' = q <=> mutex = q
      BY <3>1
    <3> QED BY <3>1, <3>2, <3>3
  <2> QED BY <2>1, <2>2
<1>8. LocalsOK'
  BY <1>2, <1>5, <1>6, <1>7 DEF LocalsOK
<1> QED BY <1>3, <1>4, <1>8 DEF Others

\* Nobody is no goroutine.
LEMMA NobodyElse == \A p \in Actors : p # Nobody
BY CertificatesAssumption DEF Actors

Ended(p) == /\ pc'[p] \in {"idle", "next"} /\ work'[p] = NoWork
            /\ mutex' = IF mutex = p THEN Nobody ELSE mutex

LEMMA EndLocals ==
  ASSUME LocalsOK, NEW p \in Actors, End(p)
  PROVE  LocalsOK' /\ Others(p) /\ Ended(p)
<1> DEFINE l == IF p = Renewer THEN "next" ELSE "idle"
<1>1. l \in Labels /\ l \in {"idle", "next"} /\ NoWork \in Jobs /\ NoWork.op = "none"
  BY DEF Labels, Jobs, Plains, NoWork
<1>2. << >> \in Seq(Names) /\ {} \in SUBSET Block
  OBVIOUS
<1>3. /\ pc' = [pc EXCEPT ![p] = l] /\ work' = [work EXCEPT ![p] = NoWork]
      /\ deploys' = [deploys EXCEPT ![p] = << >>] /\ plan' = [plan EXCEPT ![p] = {}]
      /\ mutex' = IF mutex = p THEN Nobody ELSE mutex
  BY DEF End, Goto
<1> HIDE DEF l
<1>4. NoWork \notin Tasks
  BY <1>1 DEF Tasks, Locked
<1>5. Fits(l, NoWork, << >>)
  BY <1>1, <1>4 DEF Fits
<1>6. mutex' \in {mutex, p, Nobody} /\ mutex' # p
      /\ \A q \in Actors \ {p} : mutex' = q <=> mutex = q
  BY <1>3, NobodyElse
<1>7. ~Holds(l, NoWork)
  BY <1>1 DEF Holds, BusyAt
<1>a. Goto(p, l) /\ Becomes(p, NoWork, << >>, {})
  BY <1>3 DEF Goto, Becomes
<1>8. LocalsOK' /\ Others(p) /\ pc'[p] = l /\ work'[p] = NoWork
  BY <1>1, <1>2, <1>5, <1>6, <1>7, <1>a, Onward
<1> QED BY <1>1, <1>3, <1>8 DEF Ended

LEMMA GotoLocals ==
  ASSUME LocalsOK, NEW p \in Actors, NEW l \in Labels, Goto(p, l),
         UNCHANGED <<mutex, work, deploys, plan>>,
         Fits(l, work[p], deploys[p]), BusyAt(l) <=> BusyAt(pc[p])
  PROVE  LocalsOK' /\ Others(p) /\ pc'[p] = l
<1>1. work[p] \in Jobs /\ deploys[p] \in Seq(Names) /\ plan[p] \in SUBSET Block
  BY DEF LocalsOK
<1>2. mutex' = p <=> Holds(l, work[p])
  BY DEF LocalsOK, Holds
<1>3. Becomes(p, work[p], deploys[p], plan[p])
  BY DEF Becomes
<1>4. mutex' \in {mutex, p, Nobody} /\ \A q \in Actors \ {p} : mutex' = q <=> mutex = q
  OBVIOUS
<1> QED BY <1>1, <1>2, <1>3, <1>4, Onward

\* The locals change along with the place.
LEMMA TurnLocals ==
  ASSUME LocalsOK, NEW p \in Actors, NEW l \in Labels, Goto(p, l),
         NEW w \in Jobs, NEW d \in Seq(Names), NEW f \in SUBSET Block,
         Becomes(p, w, d, f), Fits(l, w, d),
         \/ mutex' = mutex /\ (Holds(l, w) <=> Holds(pc[p], work[p]))
         \/ mutex = Nobody /\ mutex' = p /\ Holds(l, w)
  PROVE  /\ LocalsOK' /\ Others(p)
         /\ pc'[p] = l /\ work'[p] = w /\ deploys'[p] = d /\ plan'[p] = f
<1>1. mutex' = p <=> Holds(l, w)
  <2>1. mutex = p <=> Holds(pc[p], work[p])
    BY DEF LocalsOK
  <2> QED BY <2>1
<1>2. mutex' \in {mutex, p, Nobody} /\ \A q \in Actors \ {p} : mutex' = q <=> mutex = q
  BY NobodyElse
<1> QED BY <1>1, <1>2, Onward

\* The names to deploy: a first one and the others.
LEMMA FirstAndOthers ==
  ASSUME NEW d \in Seq(Names), d # << >>
  PROVE  /\ Len(d) \in Nat \ {0} /\ Head(d) \in Names /\ Tail(d) \in Seq(Names)
         /\ Len(d) > 1 => Tail(d) # << >>
         /\ ToSet(Tail(d)) = {d[i] : i \in 2 .. Len(d)}
         /\ ToSet(d) = {Head(d)} \cup ToSet(Tail(d))
         /\ Len(d) = 1 => ToSet(Tail(d)) = {}
<1>1. Len(d) \in Nat /\ Len(d) # 0
  BY EmptySeq
<1>2. /\ Head(d) \in Names /\ Tail(d) \in Seq(Names) /\ Head(d) = d[1]
      /\ Len(Tail(d)) = Len(d) - 1 /\ \A i \in 1 .. Len(d) - 1 : Tail(d)[i] = d[i + 1]
  BY <1>1, HeadTailProperties
<1>3. Len(d) > 1 => Tail(d) # << >>
  BY <1>1, <1>2, EmptySeq
<1>4. DOMAIN Tail(d) = 1 .. Len(d) - 1 /\ DOMAIN d = 1 .. Len(d)
  BY <1>1, <1>2
<1>5. ToSet(Tail(d)) = {d[i] : i \in 2 .. Len(d)}
  <2>1. ASSUME NEW i \in 1 .. Len(d) - 1 PROVE Tail(d)[i] \in {d[j] : j \in 2 .. Len(d)}
    <3>1. i + 1 \in 2 .. Len(d)
      BY <1>1
    <3> QED BY <1>2, <3>1
  <2>2. ASSUME NEW j \in 2 .. Len(d) PROVE d[j] \in {Tail(d)[i] : i \in 1 .. Len(d) - 1}
    <3>1. j - 1 \in 1 .. Len(d) - 1 /\ (j - 1) + 1 = j
      BY <1>1
    <3> QED BY <1>2, <3>1
  <2> QED BY <1>4, <2>1, <2>2 DEF ToSet
<1>6. 1 .. Len(d) = {1} \cup 2 .. Len(d)
  BY <1>1
<1>7. ToSet(d) = {Head(d)} \cup ToSet(Tail(d))
  BY <1>2, <1>4, <1>5, <1>6 DEF ToSet
<1>8. Len(d) = 1 => 2 .. Len(d) = {}
  BY <1>1
<1> QED BY <1>1, <1>2, <1>3, <1>5, <1>7, <1>8

LEMMA NextNameLocals ==
  ASSUME LocalsOK, NEW p \in Actors, pc[p] \in {"generate", "write", "reload"}, NextName(p)
  PROVE  /\ LocalsOK' /\ Others(p)
         /\ \/ /\ Len(deploys[p]) > 1 /\ pc'[p] = "generate" /\ deploys'[p] = Tail(deploys[p])
               /\ work'[p] = work[p] /\ mutex' = mutex
            \/ Len(deploys[p]) = 1 /\ Ended(p)
<1>1. /\ deploys[p] \in Seq(Names) /\ deploys[p] # << >> /\ work[p] \in Jobs
      /\ Fits(pc[p], work[p], deploys[p]) /\ "generate" \in Labels /\ {} \in SUBSET Block
  BY DEF LocalsOK, Fits, Labels
<1>2. CASE Len(deploys[p]) > 1
  <2>1. /\ Goto(p, "generate") /\ deploys' = [deploys EXCEPT ![p] = Tail(deploys[p])]
        /\ plan' = [plan EXCEPT ![p] = {}] /\ work' = work /\ mutex' = mutex
    BY <1>2 DEF NextName, DeployAll
  <2>2. Tail(deploys[p]) \in Seq(Names) /\ Tail(deploys[p]) # << >>
    BY <1>1, <1>2, FirstAndOthers
  <2>3. Fits("generate", work[p], Tail(deploys[p]))
    BY <1>1, <2>2 DEF Fits
  <2>4. Holds("generate", work[p]) <=> Holds(pc[p], work[p])
    BY DEF Holds, BusyAt
  <2>5. Becomes(p, work[p], Tail(deploys[p]), {})
    BY <2>1 DEF Becomes
  <2>6. /\ LocalsOK' /\ Others(p) /\ pc'[p] = "generate" /\ work'[p] = work[p]
        /\ deploys'[p] = Tail(deploys[p])
    <3>1. Goto(p, "generate")
      BY <2>1
    <3>2. work[p] \in Jobs /\ "generate" \in Labels /\ {} \in SUBSET Block /\ Tail(deploys[p]) \in Seq(Names)
      BY <1>1, <2>2
    <3>3. \/ mutex' = mutex /\ (Holds("generate", work[p]) <=> Holds(pc[p], work[p]))
          \/ mutex = Nobody /\ mutex' = p /\ Holds("generate", work[p])
      BY <2>1, <2>4
    <3> DEFINE d == Tail(deploys[p])
    <3>4. d \in Seq(Names) /\ Fits("generate", work[p], d) /\ Becomes(p, work[p], d, {})
      BY <2>3, <2>5, <3>2
    <3> HIDE DEF d
    <3>5. LocalsOK' /\ Others(p) /\ pc'[p] = "generate" /\ work'[p] = work[p] /\ deploys'[p] = d
      BY <3>1, <3>2, <3>3, <3>4, TurnLocals
    <3> QED BY <3>5 DEF d
  <2> QED BY <1>2, <2>1, <2>6
<1>3. CASE ~(Len(deploys[p]) > 1)
  <2>1. End(p)
    BY <1>3 DEF NextName
  <2>2. Len(deploys[p]) = 1
    <3>1. Len(deploys[p]) \in Nat \ {0}
      BY <1>1, FirstAndOthers
    <3>2. \A k \in Nat \ {0} : ~(k > 1) => k = 1
      OBVIOUS
    <3> QED BY <1>3, <3>1, <3>2, Zenon
  <2> QED BY <2>1, <2>2, EndLocals
<1> QED BY <1>2, <1>3

-----------------------------------------------------------------------------
(* The types, step by step. *)

Tables == <<site, cert, crt, key, issued, revoked, horizon>>
Nginx  == <<conf, live, reachable, todo>>

LEMMA TablesSame == ASSUME TablesOK, UNCHANGED Tables PROVE TablesOK'
BY DEF TablesOK, Tables, Pair

LEMMA NginxSame == ASSUME NginxOK, UNCHANGED Nginx, issued' = issued PROVE NginxOK'
BY DEF NginxOK, Nginx, Pair

LEMMA PairsKept ==
  ASSUME PairsOK, NEW p \in Actors, Others(p), pc'[p] \notin {"crt", "key", "row"},
         issued' = issued
  PROVE  PairsOK'
BY DEF PairsOK, Others, Pair

\* An operation ends, or goes on with the next name.
LEMMA EndStep ==
  ASSUME IInv, NEW p \in Actors, End(p), UNCHANGED <<Tables, Nginx>>
  PROVE  IInv'
<1>1. LocalsOK' /\ Others(p) /\ Ended(p)
  BY EndLocals DEF IInv
<1>2. TablesOK' /\ NginxOK'
  BY TablesSame, NginxSame DEF IInv, Tables
<1>3. PairsOK'
  BY <1>1, PairsKept DEF IInv, Ended, Tables
<1> QED BY <1>1, <1>2, <1>3 DEF IInv

LEMMA NextNameStep ==
  ASSUME IInv, NEW p \in Actors, pc[p] \in {"generate", "write", "reload"}, NextName(p),
         UNCHANGED Tables, NginxOK'
  PROVE  IInv'
<1>1. LocalsOK' /\ Others(p) /\ pc'[p] \notin {"crt", "key", "row"}
  BY NextNameLocals DEF IInv, Ended
<1>2. TablesOK'
  BY TablesSame DEF IInv
<1>3. PairsOK'
  BY <1>1, PairsKept DEF IInv, Tables
<1> QED BY <1>1, <1>2, <1>3 DEF IInv

\* What a place says of a goroutine that is there.
LEMMA Placed ==
  ASSUME IInv, NEW p \in Actors
  PROVE  /\ Fits(pc[p], work[p], deploys[p]) /\ pc[p] \in Labels /\ work[p] \in Jobs
         /\ deploys[p] \in Seq(Names) /\ plan[p] \in SUBSET Block
         /\ mutex = p <=> Holds(pc[p], work[p])
BY DEF IInv, LocalsOK

LEMMA RenderedOK ==
  ASSUME TablesOK, NEW n \in Names
  PROVE  Rendered(n) \in SUBSET Block
<1>1. \A s \in SitesOf(n) : s \in SiteIds /\ site[s] \in Row
  BY DEF SitesOf, Alive, TablesOK
<1>2. \A s \in Certs : s \in SiteIds /\ cert[s].path \in Names
  BY DEF Certs, TablesOK
<1> QED BY <1>1, <1>2 DEF Rendered, Block

LEMMA LoadedOK ==
  ASSUME TablesOK, NginxOK, Accepted
  PROVE  Loaded \in [Names -> SUBSET [id : SiteIds, pair : Pair]]
<1>1. issued \in Seq(Names) /\ 0 \in Pair
  BY DEF TablesOK, Pair
<1>2. ASSUME NEW n \in Names, NEW b \in conf[n]
      PROVE  b.id \in SiteIds /\ (b.tls = Plain \/ crt[b.tls] \in Pair)
  <2>1. b.id \in SiteIds
    BY DEF NginxOK, Block
  <2>2. b.tls = Plain \/ b.tls \in Names
    BY DEF Accepted
  <2> QED BY <2>1, <2>2 DEF TablesOK
<1>3. \A n \in Names :
        {[id |-> b.id, pair |-> IF b.tls = Plain THEN 0 ELSE crt[b.tls]] : b \in conf[n]}
          \in SUBSET [id : SiteIds, pair : Pair]
  BY <1>1, <1>2
<1> QED BY <1>3 DEF Loaded

LEMMA GenerateStep == ASSUME IInv, NEW p \in Actors, Generate(p) PROVE IInv'
<1>1. pc[p] = "generate" /\ UNCHANGED <<Tables, Nginx>>
  BY DEF Generate, Tables, Nginx, rows, pairs, authority
<1>2. NginxOK'
  BY <1>1, NginxSame DEF IInv, Tables
<1>3. CASE NextName(p)
  BY <1>1, <1>2, <1>3, NextNameStep
<1>4. CASE /\ plan' = [plan EXCEPT ![p] = Rendered(Head(deploys[p]))]
           /\ Goto(p, "write") /\ UNCHANGED <<mutex, work, deploys>>
  <2>1. deploys[p] # << >> /\ deploys[p] \in Seq(Names) /\ work[p] \in Jobs
    BY <1>1, Placed DEF Fits
  <2>2. Rendered(Head(deploys[p])) \in SUBSET Block
    BY <2>1, FirstAndOthers, RenderedOK DEF IInv
  <2>3. /\ "write" \in Labels /\ Fits("write", work[p], deploys[p])
        /\ Holds("write", work[p]) <=> Holds(pc[p], work[p])
    BY <1>1, Placed DEF Fits, Holds, BusyAt, Labels
  <2>4. LocalsOK' /\ Others(p) /\ pc'[p] = "write"
    <3> DEFINE f == Rendered(Head(deploys[p]))
    <3>1. plan' = [plan EXCEPT ![p] = f] /\ f \in SUBSET Block
      BY <1>4, <2>2
    <3> HIDE DEF f
    <3>2. Becomes(p, work[p], deploys[p], f)
      BY <1>4, <3>1 DEF Becomes
    <3> QED BY <1>4, <2>1, <2>3, <3>1, <3>2, TurnLocals DEF IInv
  <2>5. PairsOK'
    BY <1>1, <2>4, PairsKept DEF IInv, Tables
  <2> QED BY <1>1, <1>2, <2>4, <2>5, TablesSame DEF IInv
<1> QED BY <1>3, <1>4 DEF Generate

LEMMA WriteConfStep == ASSUME IInv, NEW p \in Actors, WriteConf(p) PROVE IInv'
<1>1. /\ pc[p] = "write" /\ Goto(p, "reload") /\ UNCHANGED <<Tables, live, reachable, todo>>
      /\ conf' = [conf EXCEPT ![Head(deploys[p])] = plan[p]]
      /\ UNCHANGED <<mutex, work, deploys, plan>>
  BY DEF WriteConf, Tables, rows, pairs, authority
<1>2. plan[p] \in SUBSET Block
  BY Placed
<1>3. NginxOK'
  <2>1. conf' \in [Names -> SUBSET Block]
    BY <1>1, <1>2 DEF IInv, NginxOK
  <2> QED BY <1>1, <2>1 DEF IInv, NginxOK, Tables, Pair
<1>4. Fits("reload", work[p], deploys[p]) /\ "reload" \in Labels /\ (BusyAt("reload") <=> BusyAt(pc[p]))
  BY <1>1, Placed DEF Fits, Labels, BusyAt
<1>5. LocalsOK' /\ Others(p) /\ pc'[p] = "reload"
  BY <1>1, <1>4, GotoLocals DEF IInv
<1>6. PairsOK'
  BY <1>1, <1>5, PairsKept DEF IInv, Tables
<1> QED BY <1>1, <1>3, <1>5, <1>6, TablesSame DEF IInv

LEMMA ReloadStep == ASSUME IInv, NEW p \in Actors, Reload(p) PROVE IInv'
<1>1. /\ pc[p] = "reload" /\ NextName(p) /\ UNCHANGED <<Tables, conf, reachable, todo>>
      /\ live' = IF Accepted THEN Loaded ELSE live
  BY DEF Reload, Tables, rows, pairs, authority
<1>2. NginxOK'
  <2>1. live' \in [Names -> SUBSET [id : SiteIds, pair : Pair]]
    BY <1>1, LoadedOK DEF IInv, NginxOK
  <2> QED BY <1>1, <2>1 DEF IInv, NginxOK, Tables, Pair
<1> QED BY <1>1, <1>2, NextNameStep

-----------------------------------------------------------------------------
(* The types: requests that change sites. *)

\* A goroutine that is idle begins.
LEMMA IdleLocals ==
  ASSUME LocalsOK, NEW p \in Actors, pc[p] = "idle", NEW l \in Labels, Goto(p, l),
         NEW w \in Jobs, NEW d \in Seq(Names), Becomes(p, w, d, plan[p]),
         mutex' = mutex, Fits(l, w, d), ~Holds(l, w)
  PROVE  /\ LocalsOK' /\ Others(p)
         /\ pc'[p] = l /\ work'[p] = w /\ deploys'[p] = d /\ plan'[p] = plan[p]
<1>1. ~Holds(pc[p], work[p])
  BY DEF Holds, BusyAt
<1>2. plan[p] \in SUBSET Block
  BY DEF LocalsOK
<1> QED BY <1>1, <1>2, TurnLocals

\* A request that changes rows of sites, and has names to deploy.
LEMMA SaveStep ==
  ASSUME IInv, NEW p \in Actors, pc[p] = "idle", NEW l \in {"generate", "saved"}, Goto(p, l),
         NEW w \in {[op |-> "save"], [op |-> "redeploy"]}, l = "saved" => w.op = "save",
         work' = [work EXCEPT ![p] = w],
         NEW d \in Seq(Names), d # << >>, deploys' = [deploys EXCEPT ![p] = d],
         site' \in [SiteIds -> Row \cup {Unborn, Gone}],
         UNCHANGED <<cert, pairs, conf, live, authority, mutex, plan, todo>>
  PROVE  /\ IInv' /\ Others(p) /\ pc'[p] = l /\ work'[p] = w /\ deploys'[p] = d
<1>a. l \in Labels
  BY DEF Labels
<1>b. w \in Jobs
  BY Zenon DEF Jobs, Plains
<1>c. w.op \in {"save", "redeploy"}
  <2>1. CASE w = [op |-> "save"]
    BY <2>1
  <2>2. CASE w = [op |-> "redeploy"]
    BY <2>2
  <2> QED BY <2>1, <2>2, Zenon
<1>1. l \in Labels /\ w \in Jobs /\ w.op \in {"save", "redeploy"}
  BY <1>a, <1>b, <1>c
<1>2. w \notin Tasks /\ w.op \notin Locked
  BY <1>1 DEF Tasks, Locked
<1>3. Fits(l, w, d) /\ ~Holds(l, w)
  BY <1>1, <1>2 DEF Fits, Holds
<1>d. Becomes(p, w, d, plan[p])
  BY DEF Becomes
<1>4. LocalsOK' /\ Others(p) /\ pc'[p] = l /\ work'[p] = w /\ deploys'[p] = d
  BY <1>1, <1>3, <1>d, IdleLocals DEF IInv
<1>5. TablesOK' /\ NginxOK'
  BY DEF IInv, TablesOK, NginxOK, pairs, authority, Pair
<1>6. PairsOK'
  BY <1>4, PairsKept DEF IInv, authority
<1> QED BY <1>4, <1>5, <1>6 DEF IInv

LEMMA OneName == ASSUME NEW n \in Names PROVE <<n>> \in Seq(Names) /\ <<n>> # << >>
OBVIOUS

LEMMA TwoNames == ASSUME NEW m \in Names, NEW n \in Names
                  PROVE  <<m, n>> \in Seq(Names) /\ <<m, n>> # << >>
OBVIOUS

LEMMA InsertStep ==
  ASSUME IInv, NEW p \in Actors, NEW s \in SiteIds, NEW n \in Names,
         NEW ssl \in BOOLEAN, NEW on \in BOOLEAN, Insert(p, s, n, ssl, on)
  PROVE  IInv' /\ Others(p) /\ pc'[p] = "generate" /\ work'[p] = [op |-> "save"] /\ deploys'[p] = <<n>>
<1>1. site' \in [SiteIds -> Row \cup {Unborn, Gone}]
  <2>1. [name |-> n, ssl |-> ssl, on |-> on] \in Row
    BY DEF Row
  <2> QED BY <2>1 DEF Insert, IInv, TablesOK
<1>2. /\ pc[p] = "idle" /\ Goto(p, "generate") /\ work' = [work EXCEPT ![p] = [op |-> "save"]]
      /\ deploys' = [deploys EXCEPT ![p] = <<n>>]
      /\ UNCHANGED <<cert, pairs, conf, live, authority, mutex, plan, todo>>
  BY DEF Insert, DeployAll
<1> QED BY <1>1, <1>2, OneName, SaveStep

LEMMA UpdateStep ==
  ASSUME IInv, NEW p \in Actors, NEW s \in SiteIds, NEW n \in Names,
         NEW ssl \in BOOLEAN, NEW on \in BOOLEAN, Update(p, s, n, ssl, on)
  PROVE  /\ IInv' /\ Others(p) /\ pc'[p] = "saved" /\ work'[p] = [op |-> "save"]
         /\ site[s].name \in Names
<1>1. site' \in [SiteIds -> Row \cup {Unborn, Gone}]
  <2>1. [name |-> n, ssl |-> ssl, on |-> on] \in Row
    BY DEF Row
  <2> QED BY <2>1 DEF Update, IInv, TablesOK
<1>2. site[s].name \in Names
  BY DEF Update, Alive, IInv, TablesOK, Row
<1> DEFINE d == IF site[s].name # n THEN <<site[s].name, n>> ELSE <<n>>
<1>3. d \in Seq(Names) /\ d # << >>
  BY <1>2, OneName, TwoNames
<1>4. /\ pc[p] = "idle" /\ Goto(p, "saved") /\ work' = [work EXCEPT ![p] = [op |-> "save"]]
      /\ deploys' = [deploys EXCEPT ![p] = d]
      /\ UNCHANGED <<cert, pairs, conf, live, authority, mutex, plan, todo>>
  BY DEF Update
<1> HIDE DEF d
<1>5. IInv' /\ Others(p) /\ pc'[p] = "saved" /\ work'[p] = [op |-> "save"] /\ deploys'[p] = d
  BY <1>1, <1>3, <1>4, SaveStep
<1> QED BY <1>2, <1>5 DEF d

LEMMA DeleteSiteStep ==
  ASSUME IInv, NEW p \in Actors, NEW s \in SiteIds, NEW n \in Names, DeleteSite(p, s, n)
  PROVE  /\ IInv' /\ Others(p) /\ pc'[p] = "generate" /\ work'[p] = [op |-> "save"]
         /\ site[s].name \in Names /\ deploys'[p] = <<n>>
<1>1. site' \in [SiteIds -> Row \cup {Unborn, Gone}]
  BY DEF DeleteSite, IInv, TablesOK
<1>2. site[s].name \in Names
  BY DEF DeleteSite, Alive, IInv, TablesOK, Row
<1>3. /\ pc[p] = "idle" /\ Goto(p, "generate") /\ work' = [work EXCEPT ![p] = [op |-> "save"]]
      /\ deploys' = [deploys EXCEPT ![p] = <<n>>]
      /\ UNCHANGED <<cert, pairs, conf, live, authority, mutex, plan, todo>>
  BY DEF DeleteSite, DeployAll
<1> QED BY <1>1, <1>2, <1>3, OneName, SaveStep

\* A finite set as a sequence.
LEMMA SequenceOf ==
  ASSUME NEW S, IsFiniteSet(S)
  PROVE  /\ SetToSeq(S) \in [1 .. Cardinality(S) -> S] /\ IsInjective(SetToSeq(S))
         /\ Cardinality(S) \in Nat /\ SetToSeq(S) \in Seq(S) /\ Len(SetToSeq(S)) = Cardinality(S)
         /\ S # {} => SetToSeq(S) # << >>
<1>1. Cardinality(S) \in Nat /\ ExistsBijection(1 .. Cardinality(S), S)
  BY FS_CardinalityType
<1>2. \E f \in [1 .. Cardinality(S) -> S] : IsInjective(f)
  BY <1>1 DEF ExistsBijection, Bijection, Injection
<1> DEFINE q == SetToSeq(S)
<1>3. q \in [1 .. Cardinality(S) -> S] /\ IsInjective(q)
  BY <1>2 DEF SetToSeq
<1> HIDE DEF q
<1>4. q \in Seq(S) /\ Len(q) = Cardinality(S)
  BY <1>1, <1>3
<1>5. S # {} => Cardinality(S) # 0
  BY FS_EmptySet
<1>6. q = << >> => Len(q) = 0
  BY EmptySeq
<1> QED BY <1>1, <1>3, <1>4, <1>5, <1>6 DEF q

LEMMA RedeployStep ==
  ASSUME IInv, NEW p \in Actors, Redeploy(p)
  PROVE  /\ IInv' /\ Others(p) /\ pc'[p] = "generate" /\ work'[p] = [op |-> "redeploy"]
<1> DEFINE S == {site[s].name : s \in Alive}  d == SetToSeq(S)
<1>a. ASSUME NEW s \in Alive PROVE site[s].name \in Names
  <2>1. site[s] \in Row
    BY DEF Alive, IInv, TablesOK
  <2> QED BY <2>1 DEF Row
<1>b. \E s \in SiteIds : s \in Alive
  BY DEF Redeploy, Alive
<1>1. S \subseteq Names /\ S # {}
  BY <1>a, <1>b
<1>2. IsFiniteSet(S)
  BY <1>1, CertificatesAssumption, FS_Subset
<1> HIDE DEF S
<1>3. d \in Seq(S) /\ d # << >>
  BY <1>1, <1>2, SequenceOf
<1>4. d \in Seq(Names)
  <2> HIDE DEF d
  <2> QED BY <1>1, <1>3
<1>5. /\ pc[p] = "idle" /\ Goto(p, "generate") /\ work' = [work EXCEPT ![p] = [op |-> "redeploy"]]
      /\ deploys' = [deploys EXCEPT ![p] = d]
      /\ UNCHANGED <<cert, pairs, conf, live, authority, mutex, plan, todo>> /\ site' = site
  BY DEF Redeploy, DeployAll, rows, S
<1>6. site' \in [SiteIds -> Row \cup {Unborn, Gone}]
  BY <1>5 DEF IInv, TablesOK
<1> HIDE DEF d
<1> QED BY <1>3, <1>4, <1>5, <1>6, SaveStep

LEMMA UpdateServerStep ==
  ASSUME IInv, NEW p \in Actors, UpdateServer(p)
  PROVE  IInv' /\ Others(p) /\ pc'[p] = "generate" /\ work'[p] = work[p] /\ deploys'[p] = deploys[p]
<1>1. /\ pc[p] = "saved" /\ Goto(p, "generate") /\ UNCHANGED <<Tables, Nginx>>
      /\ UNCHANGED <<mutex, work, deploys, plan>>
  BY DEF UpdateServer, Tables, Nginx, rows, pairs, authority
<1>2. /\ Fits("generate", work[p], deploys[p]) /\ "generate" \in Labels
      /\ (BusyAt("generate") <=> BusyAt(pc[p]))
  BY <1>1, Placed DEF Fits, Labels, BusyAt
<1>3. LocalsOK' /\ Others(p) /\ pc'[p] = "generate"
  BY <1>1, <1>2, GotoLocals DEF IInv
<1>4. PairsOK'
  BY <1>1, <1>3, PairsKept DEF IInv, Tables
<1> QED BY <1>1, <1>3, <1>4, TablesSame, NginxSame DEF IInv, Tables

-----------------------------------------------------------------------------
(* The types: a server is deleted. *)

\* A goroutine ends, whatever it has changed.
LEMMA LastStep ==
  ASSUME IInv, NEW p \in Actors, End(p), TablesOK', NginxOK', issued' = issued
  PROVE  IInv' /\ Others(p) /\ Ended(p)
<1>1. LocalsOK' /\ Others(p) /\ Ended(p)
  BY EndLocals DEF IInv
<1>2. PairsOK'
  BY <1>1, PairsKept DEF IInv, Ended
<1> QED BY <1>1, <1>2 DEF IInv

\* Any other step of a goroutine.
LEMMA FurtherStep ==
  ASSUME IInv, NEW p \in Actors, LocalsOK', Others(p), pc'[p] \notin {"crt", "key", "row"},
         TablesOK', NginxOK', issued' = issued
  PROVE  IInv'
<1>1. PairsOK'
  BY PairsKept DEF IInv
<1> QED BY <1>1 DEF IInv

LEMMA DeleteServerStep ==
  ASSUME IInv, NEW p \in Actors, NEW v, DeleteServer(p, v)
  PROVE  LET its == {s \in Alive : ServerOf[s] = v}
         IN  /\ IInv' /\ Others(p) /\ pc'[p] = "purge" /\ work'[p] \in Purges
             /\ work'[p] = [op |-> "purge", sites |-> {site[s].name : s \in its},
                            paths |-> {cert[s].path : s \in its \cap Certs}]
<1> DEFINE its == {s \in Alive : ServerOf[s] = v}
           w == [op |-> "purge", sites |-> {site[s].name : s \in its},
                 paths |-> {cert[s].path : s \in its \cap Certs}]
<1>1. /\ site' = [s \in SiteIds |-> IF s \in its THEN Gone ELSE site[s]]
      /\ cert' = [s \in SiteIds |-> IF s \in its THEN NoRow ELSE cert[s]]
      /\ pc[p] = "idle" /\ Goto(p, "purge") /\ work' = [work EXCEPT ![p] = w]
      /\ UNCHANGED <<pairs, authority, conf, live, mutex, deploys, plan, todo>>
  BY DEF DeleteServer
<1>2. ASSUME NEW s \in its PROVE site[s].name \in Names
  <2>1. site[s] \in Row
    BY DEF Alive, IInv, TablesOK
  <2> QED BY <2>1 DEF Row
<1>3. ASSUME NEW s \in Certs PROVE cert[s].path \in Names
  BY DEF Certs, IInv, TablesOK
<1>4. w \in Purges /\ w.op = "purge"
  <2>1. {site[s].name : s \in its} \in SUBSET Names
    BY <1>2
  <2>2. {cert[s].path : s \in its \cap Certs} \in SUBSET Names
    BY <1>3
  <2> HIDE DEF its
  <2> QED BY <2>1, <2>2 DEF Purges
<1>5. TablesOK'
  <2>1. site' \in [SiteIds -> Row \cup {Unborn, Gone}]
    <3> HIDE DEF its
    <3> QED BY <1>1 DEF IInv, TablesOK
  <2>2. cert' \in [SiteIds -> [domain : Names, path : Names, expires : Pair \ {0}] \cup {NoRow}]
    <3> HIDE DEF its
    <3> QED BY <1>1 DEF IInv, TablesOK
  <2> HIDE DEF its, w
  <2>3. UNCHANGED <<crt, key, issued, revoked, horizon>>
    BY <1>1 DEF pairs, authority
  <2> QED BY <2>1, <2>2, <2>3 DEF IInv, TablesOK, Pair
<1> HIDE DEF w, its
<1>6. NginxOK' /\ issued' = issued
  BY <1>1, NginxSame DEF IInv, Nginx, authority
<1>7. w \in Jobs /\ "purge" \in Labels
  BY <1>4 DEF Jobs, Labels
<1>8. ~Holds("purge", w) /\ w \notin Tasks
  BY <1>4 DEF Holds, Locked, Tasks
<1>9. Fits("purge", w, deploys[p]) /\ Becomes(p, w, deploys[p], plan[p])
  BY <1>1, <1>4, <1>8 DEF Fits, Becomes
<1>10. LocalsOK' /\ Others(p) /\ pc'[p] = "purge" /\ work'[p] = w
  BY <1>1, <1>7, <1>8, <1>9, Placed, IdleLocals DEF IInv
<1> QED BY <1>4, <1>5, <1>6, <1>10, FurtherStep DEF w, its

LEMMA PurgeSitesStep ==
  ASSUME IInv, NEW p \in Actors, PurgeSites(p)
  PROVE  /\ IInv' /\ Others(p) /\ pc[p] = "purge" /\ pc'[p] = "purge pairs"
         /\ work[p] \in Purges /\ work'[p] \in Purges /\ work'[p].paths = work[p].paths
         /\ work'[p].sites = {n \in work[p].sites : conf[n] # {}}
<1> DEFINE w == [work[p] EXCEPT !.sites = {n \in work[p].sites : conf[n] # {}}]
<1>1. /\ conf' = [n \in Names |-> IF n \in work[p].sites THEN {} ELSE conf[n]]
      /\ pc[p] = "purge" /\ Goto(p, "purge pairs") /\ work' = [work EXCEPT ![p] = w]
      /\ UNCHANGED <<Tables, live, reachable, todo, mutex, deploys, plan>>
  BY DEF PurgeSites, Tables, rows, pairs, authority
<1>2. work[p] \in Purges
  BY <1>1, Placed DEF Fits
<1>3. w \in Purges /\ w.paths = work[p].paths /\ w.sites = {n \in work[p].sites : conf[n] # {}}
      /\ w.op = "purge"
  BY <1>2 DEF Purges
<1>a. work[p].op = "purge"
  BY <1>2 DEF Purges
<1> HIDE DEF w
<1>4. NginxOK'
  <2>1. conf' \in [Names -> SUBSET Block]
    BY <1>1 DEF IInv, NginxOK
  <2> QED BY <1>1, <2>1 DEF IInv, NginxOK, Tables, Pair
<1>5. TablesOK' /\ issued' = issued
  BY <1>1, TablesSame DEF IInv, Tables
<1>7. w \in Jobs /\ "purge pairs" \in Labels
  BY <1>3 DEF Jobs, Labels
<1>8. ~Holds("purge pairs", w) /\ ~Holds(pc[p], work[p]) /\ w \notin Tasks
  BY <1>3, <1>a DEF Holds, Locked, Tasks
<1>9. Fits("purge pairs", w, deploys[p]) /\ Becomes(p, w, deploys[p], plan[p])
  BY <1>1, <1>3, <1>8 DEF Fits, Becomes
<1>10. LocalsOK' /\ Others(p) /\ pc'[p] = "purge pairs" /\ work'[p] = w
  <2>1. LocalsOK /\ Goto(p, "purge pairs") /\ mutex' = mutex
    BY <1>1 DEF IInv
  <2>2. deploys[p] \in Seq(Names) /\ plan[p] \in SUBSET Block
    BY Placed
  <2>3. Holds("purge pairs", w) <=> Holds(pc[p], work[p])
    BY <1>8
  <2> QED BY <1>7, <1>9, <2>1, <2>2, <2>3, TurnLocals
<1> QED BY <1>1, <1>2, <1>3, <1>4, <1>5, <1>10, FurtherStep

LEMMA PurgePairsStep ==
  ASSUME IInv, NEW p \in Actors, PurgePairs(p)
  PROVE  /\ IInv' /\ Others(p) /\ pc[p] = "purge pairs" /\ pc'[p] = "purged"
         /\ work[p] \in Purges /\ work'[p] = work[p]
<1>1. /\ crt' = [n \in Names |-> IF n \in work[p].paths THEN 0 ELSE crt[n]]
      /\ key' = [n \in Names |-> IF n \in work[p].paths THEN 0 ELSE key[n]]
      /\ pc[p] = "purge pairs" /\ Goto(p, "purged")
      /\ UNCHANGED <<site, cert, issued, revoked, horizon, Nginx, mutex, work, deploys, plan>>
  BY DEF PurgePairs, Nginx, rows, authority
<1>2. work[p] \in Purges
  BY <1>1, Placed DEF Fits
<1>3. TablesOK'
  <2>1. crt' \in [Names -> Pair] /\ key' \in [Names -> Pair]
    <3>1. 0 \in Pair /\ crt \in [Names -> Pair] /\ key \in [Names -> Pair]
      BY DEF IInv, TablesOK, Pair
    <3> QED BY <1>1, <3>1
  <2> QED BY <1>1, <2>1 DEF IInv, TablesOK, Pair
<1>4. NginxOK'
  BY <1>1, NginxSame DEF IInv
<1>5. /\ Fits("purged", work[p], deploys[p]) /\ "purged" \in Labels
      /\ (BusyAt("purged") <=> BusyAt(pc[p]))
  BY <1>1, <1>2, Placed DEF Fits, Labels, BusyAt
<1>6. LocalsOK' /\ Others(p) /\ pc'[p] = "purged"
  BY <1>1, <1>5, GotoLocals DEF IInv
<1> QED BY <1>1, <1>2, <1>3, <1>4, <1>6, FurtherStep

LEMMA PurgedStep ==
  ASSUME IInv, NEW p \in Actors, Purged(p)
  PROVE  /\ IInv' /\ Others(p) /\ Ended(p) /\ pc[p] = "purged" /\ work[p] \in Purges
<1>1. /\ pc[p] = "purged" /\ End(p) /\ UNCHANGED <<Tables, conf, reachable, todo>>
      /\ live' = IF work[p].sites # {} /\ Accepted THEN Loaded ELSE live
  BY DEF Purged, Tables, rows, pairs, authority
<1>2. NginxOK'
  <2>1. live' \in [Names -> SUBSET [id : SiteIds, pair : Pair]]
    BY <1>1, LoadedOK DEF IInv, NginxOK
  <2> QED BY <1>1, <2>1 DEF IInv, NginxOK, Tables, Pair
<1>3. TablesOK' /\ issued' = issued
  BY <1>1, TablesSame DEF IInv, Tables
<1>4. work[p] \in Purges
  BY <1>1, Placed DEF Fits
<1> QED BY <1>1, <1>2, <1>3, <1>4, LastStep

-----------------------------------------------------------------------------
(* The types: operations on certificates. *)

LEMMA AskStep ==
  ASSUME IInv, NEW p \in Actors, NEW op \in Locked, NEW s \in SiteIds,
         NEW n \in Names \cup {site[s].name}, Ask(p, op, s, n)
  PROVE  IInv' /\ Others(p) /\ pc'[p] = "lock" /\ UNCHANGED <<Tables, Nginx, mutex>>
<1> DEFINE w == [op |-> op, site |-> s, domain |-> n, path |-> n, pair |-> 0]
<1>1. /\ pc[p] = "idle" /\ Goto(p, "lock") /\ work' = [work EXCEPT ![p] = w]
      /\ UNCHANGED <<Tables, Nginx, mutex, deploys, plan>>
  BY DEF Ask, Tables, Nginx, rows, pairs, authority
<1>2. n \in Names
  BY DEF Ask, Alive, IInv, TablesOK, Row
<1>3. w \in Tasks /\ w.path = w.domain
  BY <1>2 DEF Tasks
<1> HIDE DEF w
<1>4. w \in Jobs /\ "lock" \in Labels /\ ~Holds("lock", w)
  BY <1>3 DEF Jobs, Labels, Holds, BusyAt
<1>5. Fits("lock", w, deploys[p]) /\ Becomes(p, w, deploys[p], plan[p])
  BY <1>1, <1>3 DEF Fits, Becomes
<1>6. LocalsOK' /\ Others(p) /\ pc'[p] = "lock"
  BY <1>1, <1>4, <1>5, Placed, IdleLocals DEF IInv
<1>7. TablesOK' /\ NginxOK' /\ issued' = issued
  BY <1>1, TablesSame, NginxSame DEF IInv, Tables
<1> QED BY <1>1, <1>6, <1>7, FurtherStep

LEMMA ScanStep ==
  ASSUME IInv, Scan
  PROVE  /\ IInv' /\ Others(Renewer) /\ pc'[Renewer] = "next" /\ pc[Renewer] = "idle"
         /\ UNCHANGED <<Tables, conf, live, mutex, work>>
<1>1. /\ pc[Renewer] = "idle" /\ Goto(Renewer, "next") /\ todo' \in Batches
      /\ UNCHANGED <<Tables, conf, live, reachable, mutex, work, deploys, plan>>
  BY DEF Scan, Tables, rows, pairs, authority
<1>2. Renewer \in Actors
  BY DEF Actors
<1>3. IsFiniteSet(Due)
  <2>1. Due \subseteq SiteIds
    BY DEF Due, Certs
  <2> QED BY <2>1, CertificatesAssumption, FS_Subset
<1>4. BatchSize \in Nat
  BY <1>3, FS_CardinalityType, CertificatesAssumption DEF BatchSize
<1>5. todo' \in Seq(SiteIds)
  <2>1. todo' \in [1 .. BatchSize -> SiteIds]
    BY <1>1 DEF Batches, Due, Certs
  <2> QED BY <1>4, <2>1
<1>6. NginxOK' /\ TablesOK' /\ issued' = issued
  <2>1. TablesOK' /\ issued' = issued
    BY <1>1, TablesSame DEF IInv, Tables
  <2> QED BY <1>1, <1>5, <2>1 DEF IInv, NginxOK, Pair
<1>7. /\ Fits("next", work[Renewer], deploys[Renewer]) /\ "next" \in Labels
      /\ (BusyAt("next") <=> BusyAt(pc[Renewer]))
  <2>1. Fits("idle", work[Renewer], deploys[Renewer])
    BY <1>1, <1>2, Placed
  <2> QED BY <1>1, <2>1 DEF Fits, Labels, BusyAt
<1>8. LocalsOK' /\ Others(Renewer) /\ pc'[Renewer] = "next"
  BY <1>1, <1>2, <1>7, GotoLocals DEF IInv
<1> QED BY <1>1, <1>2, <1>6, <1>8, FurtherStep

LEMMA RenewNextStep ==
  ASSUME IInv, RenewNext
  PROVE  /\ IInv' /\ Others(Renewer) /\ pc'[Renewer] \in {"idle", "lock"} /\ pc[Renewer] = "next"
         /\ UNCHANGED <<Tables, conf, live, mutex>>
<1>1. Renewer \in Actors
  BY DEF Actors
<1>2. /\ pc[Renewer] = "next" /\ UNCHANGED <<Tables, conf, live, reachable, mutex, deploys, plan>>
  BY DEF RenewNext, Tables, rows, pairs, authority
<1>3. TablesOK' /\ issued' = issued
  BY <1>2, TablesSame DEF IInv, Tables
<1>4. CASE todo = << >>
  <2>1. Goto(Renewer, "idle") /\ UNCHANGED <<work, todo>>
    BY <1>4 DEF RenewNext
  <2>2. NginxOK'
    BY <1>2, <1>3, <2>1, NginxSame DEF IInv, Nginx
  <2>3. /\ Fits("idle", work[Renewer], deploys[Renewer]) /\ "idle" \in Labels
        /\ (BusyAt("idle") <=> BusyAt(pc[Renewer]))
    <3>1. Fits("next", work[Renewer], deploys[Renewer])
      BY <1>1, <1>2, Placed
    <3> QED BY <1>2, <3>1 DEF Fits, Labels, BusyAt
  <2>4. LocalsOK' /\ Others(Renewer) /\ pc'[Renewer] = "idle"
    BY <1>1, <1>2, <2>1, <2>3, GotoLocals DEF IInv
  <2> QED BY <1>1, <1>2, <1>3, <2>2, <2>4, FurtherStep
<1>5. CASE todo # << >>
  <2> DEFINE w == [op |-> "renew", site |-> Head(todo), pair |-> 0]
  <2>1. Goto(Renewer, "lock") /\ work' = [work EXCEPT ![Renewer] = w] /\ todo' = Tail(todo)
    BY <1>5 DEF RenewNext
  <2>2. todo \in Seq(SiteIds)
    BY DEF IInv, NginxOK
  <2>3. Head(todo) \in SiteIds /\ Tail(todo) \in Seq(SiteIds)
    BY <1>5, <2>2, HeadTailProperties
  <2>4. NginxOK'
    BY <1>2, <1>3, <2>1, <2>3 DEF IInv, NginxOK, Pair
  <2>5. w \in Renewals
    BY <2>3 DEF Renewals
  <2>a. w \notin Tasks \/ w.op # "issue"
    OBVIOUS
  <2> HIDE DEF w
  <2>6. w \in Jobs /\ "lock" \in Labels /\ ~Holds("lock", w) /\ ~Holds(pc[Renewer], work[Renewer])
    BY <1>2, <2>5 DEF Jobs, Labels, Holds, BusyAt
  <2>7. Fits("lock", w, deploys[Renewer]) /\ Becomes(Renewer, w, deploys[Renewer], plan[Renewer])
    BY <1>2, <2>1, <2>5, <2>a DEF Fits, Becomes
  <2>8. LocalsOK' /\ Others(Renewer) /\ pc'[Renewer] = "lock"
    BY <1>1, <1>2, <2>1, <2>6, <2>7, Placed, TurnLocals DEF IInv
  <2> QED BY <1>1, <1>2, <1>3, <2>4, <2>8, FurtherStep
<1> QED BY <1>4, <1>5

\* The mutex is taken, unless the certificate is gone.
LEMMA LockStep ==
  ASSUME IInv, NEW p \in Actors, Lock(p)
  PROVE  /\ IInv' /\ Others(p) /\ pc[p] = "lock" /\ mutex = Nobody
         /\ \/ Ended(p)
            \/ /\ mutex' = p /\ work'[p] \in Tasks /\ work'[p].op \in Locked
               /\ pc'[p] = IF work'[p].op = "delete" THEN "revoke" ELSE "obtain"
               /\ work'[p].op # "issue" =>
                    /\ work'[p].site \in Certs
                    /\ cert[work'[p].site].domain = work'[p].domain
                    /\ cert[work'[p].site].path = work'[p].path
<1>1. pc[p] = "lock" /\ mutex = Nobody /\ UNCHANGED <<Tables, Nginx>>
  BY DEF Lock, Tables, Nginx, rows, pairs, authority
<1>2. TablesOK' /\ NginxOK' /\ issued' = issued
  BY <1>1, TablesSame, NginxSame DEF IInv, Tables
<1>3. CASE End(p)
  BY <1>1, <1>2, <1>3, LastStep
<1>4. CASE ~End(p)
  <2> DEFINE w == IF work[p].op = "issue" THEN work[p] ELSE
                    [op |-> work[p].op, site |-> work[p].site, domain |-> cert[work[p].site].domain,
                     path |-> cert[work[p].site].path, pair |-> 0]
             l == IF work[p].op = "delete" THEN "revoke" ELSE "obtain"
  <2>1. /\ work[p].op = "issue" \/ work[p].site \in Certs
        /\ mutex' = p /\ work' = [work EXCEPT ![p] = w] /\ Goto(p, l) /\ UNCHANGED <<deploys, plan>>
    BY <1>4 DEF Lock
  <2>2. work[p] \in Tasks \cup Renewals /\ Fits(pc[p], work[p], deploys[p])
    BY <1>1, Placed DEF Fits
  <2>a. work[p].op \in Locked
    BY <2>2 DEF Tasks, Renewals, Locked
  <2>5. w \in Tasks /\ w.op = work[p].op
    <3>1. CASE work[p].op = "issue"
      <4>1. work[p] \in Tasks
        BY <2>2, <3>1 DEF Renewals
      <4> QED BY <3>1, <4>1
    <3>2. CASE work[p].op # "issue"
      <4>1. work[p].site \in Certs
        BY <2>1, <3>2
      <4>2. cert[work[p].site].domain \in Names /\ cert[work[p].site].path \in Names
            /\ work[p].site \in SiteIds
        BY <4>1 DEF Certs, IInv, TablesOK
      <4> QED BY <2>a, <3>2, <4>2 DEF Tasks
    <3> QED BY <3>1, <3>2
  <2>6. w.op = "issue" => w.path = w.domain
    <3>1. CASE work[p].op = "issue"
      <4>1. work[p] \in Tasks
        BY <2>2, <3>1 DEF Renewals
      <4> QED BY <2>2, <3>1, <4>1 DEF Fits
    <3> QED BY <2>5, <3>1
  <2>7. w.op # "issue" =>
          /\ w.site \in Certs /\ cert[w.site].domain = w.domain /\ cert[w.site].path = w.path
    BY <2>1, <2>5
  <2>8. l = IF w.op = "delete" THEN "revoke" ELSE "obtain"
    BY <2>5
  <2> HIDE DEF w, l
  <2>9. w \in Jobs /\ l \in Labels /\ w.op \in Locked
    BY <2>5, <2>8, <2>a DEF Jobs, Labels
  <2>10. Holds(l, w)
    BY <2>8, <2>9 DEF Holds, BusyAt
  <2>11. Fits(l, w, deploys[p]) /\ Becomes(p, w, deploys[p], plan[p])
    BY <2>1, <2>5, <2>6, <2>8, <2>9 DEF Fits, Locked, Becomes
  <2>12. LocalsOK' /\ Others(p) /\ pc'[p] = l /\ work'[p] = w
    BY <1>1, <2>1, <2>9, <2>10, <2>11, Placed, TurnLocals DEF IInv
  <2>13. l \notin {"crt", "key", "row"}
    BY <2>8
  <2>14. IInv'
    BY <1>2, <2>12, <2>13, FurtherStep
  <2>15. mutex' = p
    BY <2>1
  <2> QED BY <1>1, <2>5, <2>7, <2>8, <2>9, <2>12, <2>14, <2>15
<1> QED BY <1>3, <1>4

\* One more pair.
LEMMA ObtainStep ==
  ASSUME IInv, NEW p \in Actors, Obtain(p)
  PROVE  /\ IInv' /\ Others(p) /\ pc[p] = "obtain" /\ pc'[p] = "crt" /\ mutex = p /\ mutex' = p
         /\ work[p] \in Tasks /\ work'[p] \in Tasks
         /\ work'[p] = [work[p] EXCEPT !.pair = Len(issued) + 1]
         /\ work'[p].pair = Len(issued) + 1 /\ work'[p].op = work[p].op
         /\ work'[p].site = work[p].site /\ work'[p].domain = work[p].domain /\ work'[p].path = work[p].path
         /\ issued' = Append(issued, work[p].domain) /\ Pair \subseteq Pair'
         /\ issued'[work'[p].pair] = work'[p].domain
         /\ \A i \in Pair \ {0} : issued'[i] = issued[i]
<1> DEFINE w == [work[p] EXCEPT !.pair = Len(issued) + 1]
<1>1. /\ pc[p] = "obtain" /\ issued' = Append(issued, work[p].domain)
      /\ work' = [work EXCEPT ![p] = w] /\ Goto(p, "crt")
      /\ UNCHANGED <<site, cert, crt, key, revoked, horizon, Nginx, mutex, deploys, plan>>
  BY DEF Obtain, Nginx, rows, pairs
<1>2. work[p] \in Tasks /\ work[p].op \in {"issue", "renew"} /\ Fits(pc[p], work[p], deploys[p])
  BY <1>1, Placed DEF Fits
<1>3. issued \in Seq(Names) /\ Len(issued) \in Nat /\ work[p].domain \in Names
  BY <1>2 DEF IInv, TablesOK, Tasks
<1>4. issued' \in Seq(Names) /\ Len(issued') = Len(issued) + 1
      /\ (\A i \in 1 .. Len(issued) : issued'[i] = issued[i])
      /\ issued'[Len(issued) + 1] = work[p].domain
  BY <1>1, <1>3
<1>5. /\ Pair \subseteq Pair' /\ Len(issued) + 1 \in Pair' \ {0} /\ Len(issued) + 1 \in Nat
      /\ Pair \ {0} = 1 .. Len(issued) /\ (Pair \ {0}) \subseteq (Pair' \ {0})
  BY <1>3, <1>4 DEF Pair
<1>6. /\ w \in Tasks /\ w.pair = Len(issued) + 1 /\ w.op = work[p].op
      /\ w.site = work[p].site /\ w.domain = work[p].domain /\ w.path = work[p].path
  BY <1>2, <1>5 DEF Tasks
<1> HIDE DEF w
<1>7. w \in Jobs /\ "crt" \in Labels
  BY <1>6 DEF Jobs, Labels
<1>8. Holds("crt", w) /\ Holds(pc[p], work[p])
  BY <1>1, <1>2, <1>6 DEF Holds, BusyAt, Locked
<1>9. Fits("crt", w, deploys[p]) /\ Becomes(p, w, deploys[p], plan[p])
  BY <1>1, <1>2, <1>6 DEF Fits, Becomes
<1>10. LocalsOK' /\ Others(p) /\ pc'[p] = "crt" /\ work'[p] = w
  BY <1>1, <1>7, <1>8, <1>9, Placed, TurnLocals DEF IInv
<1>11. TablesOK'
  <2>1. cert' \in [SiteIds -> [domain : Names, path : Names, expires : Pair' \ {0}] \cup {NoRow}]
    <3>1. cert \in [SiteIds -> [domain : Names, path : Names, expires : Pair \ {0}] \cup {NoRow}]
      BY DEF IInv, TablesOK
    <3> QED BY <1>1, <1>5, <3>1
  <2>2. crt' \in [Names -> Pair'] /\ key' \in [Names -> Pair']
    BY <1>1, <1>5 DEF IInv, TablesOK
  <2>3. revoked' \subseteq Pair' \ {0} /\ horizon' \in Pair'
    BY <1>1, <1>5 DEF IInv, TablesOK
  <2> QED BY <1>1, <1>4, <2>1, <2>2, <2>3 DEF IInv, TablesOK
<1>12. NginxOK'
  <2>1. live' \in [Names -> SUBSET [id : SiteIds, pair : Pair']]
    <3>1. live \in [Names -> SUBSET [id : SiteIds, pair : Pair]]
      BY DEF IInv, NginxOK
    <3> QED BY <1>1, <1>5, <3>1 DEF Nginx
  <2> QED BY <1>1, <2>1 DEF IInv, NginxOK, Nginx
<1>13. PairsOK'
  <2> SUFFICES ASSUME NEW q \in Actors, pc'[q] \in {"crt", "key", "row"}
               PROVE  work'[q].pair \in Pair' \ {0}
    BY DEF PairsOK
  <2>1. CASE q = p
    BY <1>5, <1>6, <1>10, <2>1
  <2>2. CASE q # p
    <3>1. pc'[q] = pc[q] /\ work'[q] = work[q]
      BY <1>10, <2>2 DEF Others
    <3>2. work[q].pair \in Pair \ {0}
      BY <3>1 DEF IInv, PairsOK
    <3> QED BY <1>5, <3>1, <3>2
  <2> QED BY <2>1, <2>2
<1>14. mutex = p /\ mutex' = p
  BY <1>1, <1>8, Placed
<1>15. IInv'
  BY <1>10, <1>11, <1>12, <1>13 DEF IInv
<1>16. issued'[w.pair] = w.domain /\ \A i \in Pair \ {0} : issued'[i] = issued[i]
  BY <1>4, <1>5, <1>6
<1> QED BY <1>1, <1>2, <1>5, <1>6, <1>10, <1>14, <1>15, <1>16 DEF w

LEMMA RefusedStep ==
  ASSUME IInv, NEW p \in Actors, Refused(p)
  PROVE  IInv' /\ Others(p) /\ Ended(p) /\ pc[p] = "obtain" /\ mutex = p /\ UNCHANGED <<Tables, Nginx>>
<1>1. pc[p] = "obtain" /\ End(p) /\ UNCHANGED <<Tables, Nginx>>
  BY DEF Refused, Tables, Nginx, rows, pairs, authority
<1>2. TablesOK' /\ NginxOK' /\ issued' = issued
  BY <1>1, TablesSame, NginxSame DEF IInv, Tables
<1>3. mutex = p
  BY <1>1, Placed DEF Fits, Holds, BusyAt, Locked
<1> QED BY <1>1, <1>2, <1>3, LastStep

\* The mutex stays with a goroutine that goes on with a certificate.
LEMMA WithMutex ==
  ASSUME IInv, NEW p \in Actors,
         pc[p] \in {"obtain", "crt", "key", "row", "ssl", "revoke", "unssl", "drop", "files"}
  PROVE  /\ mutex = p /\ work[p] \in Tasks /\ work[p].op \in Locked /\ Fits(pc[p], work[p], deploys[p])
         /\ work[p].op = "issue" => work[p].path = work[p].domain
<1>1. Fits(pc[p], work[p], deploys[p]) /\ (mutex = p <=> Holds(pc[p], work[p]))
  BY Placed
<1>2. work[p] \in Tasks /\ work[p].op \in Locked
  BY <1>1 DEF Fits, Locked
<1> QED BY <1>1, <1>2 DEF Fits, Holds, BusyAt

LEMMA WriteCrtStep ==
  ASSUME IInv, NEW p \in Actors, WriteCrt(p)
  PROVE  /\ IInv' /\ Others(p) /\ pc[p] = "crt" /\ pc'[p] = "key" /\ work'[p] = work[p]
         /\ mutex = p /\ mutex' = p /\ work[p] \in Tasks
<1>1. /\ pc[p] = "crt" /\ Goto(p, "key") /\ crt' = [crt EXCEPT ![work[p].path] = work[p].pair]
      /\ UNCHANGED <<site, cert, key, issued, revoked, horizon, Nginx, mutex, work, deploys, plan>>
  BY DEF WriteCrt, Nginx, rows, authority
<1>2. mutex = p /\ work[p] \in Tasks /\ Fits("key", work[p], deploys[p])
  BY <1>1, WithMutex DEF Fits
<1>3. work[p].pair \in Pair \ {0}
  BY <1>1 DEF IInv, PairsOK
<1>4. TablesOK'
  <2>1. crt' \in [Names -> Pair]
    BY <1>1, <1>3 DEF IInv, TablesOK
  <2> QED BY <1>1, <2>1 DEF IInv, TablesOK, Pair
<1>5. NginxOK'
  BY <1>1, NginxSame DEF IInv
<1>6. "key" \in Labels /\ (BusyAt("key") <=> BusyAt(pc[p]))
  BY <1>1 DEF Labels, BusyAt
<1>7. LocalsOK' /\ Others(p) /\ pc'[p] = "key"
  BY <1>1, <1>2, <1>6, GotoLocals DEF IInv
<1>8. PairsOK'
  BY <1>1, <1>3, <1>7 DEF IInv, PairsOK, Others, Pair
<1> QED BY <1>1, <1>2, <1>4, <1>5, <1>7, <1>8 DEF IInv

LEMMA WriteKeyStep ==
  ASSUME IInv, NEW p \in Actors, WriteKey(p)
  PROVE  /\ IInv' /\ Others(p) /\ pc[p] = "key" /\ pc'[p] = "row" /\ work'[p] = work[p]
         /\ mutex = p /\ mutex' = p /\ work[p] \in Tasks
<1>1. /\ pc[p] = "key" /\ Goto(p, "row") /\ key' = [key EXCEPT ![work[p].path] = work[p].pair]
      /\ UNCHANGED <<site, cert, crt, issued, revoked, horizon, Nginx, mutex, work, deploys, plan>>
  BY DEF WriteKey, Nginx, rows, authority
<1>2. mutex = p /\ work[p] \in Tasks /\ Fits("row", work[p], deploys[p])
  BY <1>1, WithMutex DEF Fits
<1>3. work[p].pair \in Pair \ {0}
  BY <1>1 DEF IInv, PairsOK
<1>4. TablesOK'
  <2>1. key' \in [Names -> Pair]
    BY <1>1, <1>3 DEF IInv, TablesOK
  <2> QED BY <1>1, <2>1 DEF IInv, TablesOK, Pair
<1>5. NginxOK'
  BY <1>1, NginxSame DEF IInv
<1>6. "row" \in Labels /\ (BusyAt("row") <=> BusyAt(pc[p]))
  BY <1>1 DEF Labels, BusyAt
<1>7. LocalsOK' /\ Others(p) /\ pc'[p] = "row"
  BY <1>1, <1>2, <1>6, GotoLocals DEF IInv
<1>8. PairsOK'
  BY <1>1, <1>3, <1>7 DEF IInv, PairsOK, Others, Pair
<1> QED BY <1>1, <1>2, <1>4, <1>5, <1>7, <1>8 DEF IInv

LEMMA InsertCertStep ==
  ASSUME IInv, NEW p \in Actors, InsertCert(p)
  PROVE  /\ IInv' /\ Others(p) /\ pc[p] = "row" /\ pc'[p] = "ssl" /\ work'[p] = work[p]
         /\ mutex = p /\ mutex' = p /\ work[p] \in Tasks /\ work[p].op = "issue"
         /\ work[p].path = work[p].domain
         /\ cert' = [cert EXCEPT ![work[p].site] =
              [domain |-> IF work[p].site \in Certs THEN @.domain ELSE work[p].domain,
               path |-> work[p].path, expires |-> work[p].pair]]
<1>1. /\ pc[p] = "row" /\ Goto(p, "ssl") /\ work[p].op = "issue"
      /\ cert' = [cert EXCEPT ![work[p].site] =
           [domain |-> IF work[p].site \in Certs THEN @.domain ELSE work[p].domain,
            path |-> work[p].path, expires |-> work[p].pair]]
      /\ UNCHANGED <<site, crt, key, issued, revoked, horizon, Nginx, mutex, work, deploys, plan>>
  BY DEF InsertCert, Nginx, pairs, authority
<1>2. mutex = p /\ work[p] \in Tasks /\ Fits("ssl", work[p], deploys[p])
      /\ work[p].path = work[p].domain
  BY <1>1, WithMutex DEF Fits
<1>3. work[p].pair \in Pair \ {0}
  BY <1>1 DEF IInv, PairsOK
<1>4. TablesOK'
  <2> DEFINE s == work[p].site
             c == [domain |-> IF s \in Certs THEN cert[s].domain ELSE work[p].domain,
                   path |-> work[p].path, expires |-> work[p].pair]
  <2>1. s \in SiteIds /\ work[p].path \in Names /\ work[p].domain \in Names
    BY <1>2 DEF Tasks
  <2>2. s \in Certs => cert[s].domain \in Names
    BY DEF Certs, IInv, TablesOK
  <2>3. c \in [domain : Names, path : Names, expires : Pair \ {0}]
    BY <1>3, <2>1, <2>2
  <2>4. cert' = [cert EXCEPT ![s] = c]
    BY <1>1
  <2> HIDE DEF c, s
  <2>5. cert' \in [SiteIds -> [domain : Names, path : Names, expires : Pair \ {0}] \cup {NoRow}]
    BY <2>1, <2>3, <2>4 DEF IInv, TablesOK
  <2> QED BY <1>1, <2>5 DEF IInv, TablesOK, Pair
<1>5. NginxOK'
  BY <1>1, NginxSame DEF IInv
<1>6. "ssl" \in Labels /\ (BusyAt("ssl") <=> BusyAt(pc[p]))
  BY <1>1 DEF Labels, BusyAt
<1>7. LocalsOK' /\ Others(p) /\ pc'[p] = "ssl"
  BY <1>1, <1>2, <1>6, GotoLocals DEF IInv
<1>8. IInv'
  BY <1>1, <1>4, <1>5, <1>7, FurtherStep
<1> QED BY <1>1, <1>2, <1>7, <1>8

LEMMA UpdateCertStep ==
  ASSUME IInv, NEW p \in Actors, UpdateCert(p)
  PROVE  /\ IInv' /\ Others(p) /\ pc[p] = "row" /\ mutex = p /\ work[p] \in Tasks /\ work[p].op = "renew"
         /\ \/ Ended(p) /\ cert' = cert
               /\ ~(work[p].site \in Certs /\ cert[work[p].site].domain = work[p].domain)
            \/ /\ pc'[p] = "ssl" /\ work'[p] = work[p] /\ mutex' = p
               /\ work[p].site \in Certs /\ cert[work[p].site].domain = work[p].domain
               /\ cert' = [cert EXCEPT ![work[p].site] = [cert[work[p].site] EXCEPT
                             !.path = work[p].path, !.expires = work[p].pair]]
<1>1. /\ pc[p] = "row" /\ work[p].op = "renew"
      /\ UNCHANGED <<site, crt, key, issued, revoked, horizon, Nginx>>
  BY DEF UpdateCert, Nginx, pairs, authority
<1>2. mutex = p /\ work[p] \in Tasks /\ Fits(pc[p], work[p], deploys[p])
  BY <1>1, WithMutex
<1>3. work[p].pair \in Pair \ {0}
  BY <1>1 DEF IInv, PairsOK
<1>4. NginxOK' /\ issued' = issued
  BY <1>1, NginxSame DEF IInv
<1>5. CASE ~(work[p].site \in Certs /\ cert[work[p].site].domain = work[p].domain)
  <2>1. End(p) /\ cert' = cert
    BY <1>5 DEF UpdateCert
  <2>2. TablesOK'
    BY <1>1, <2>1, TablesSame DEF IInv, Tables
  <2> QED BY <1>1, <1>2, <1>4, <1>5, <2>1, <2>2, LastStep
<1>6. CASE work[p].site \in Certs /\ cert[work[p].site].domain = work[p].domain
  <2> DEFINE s == work[p].site
             c == [cert[s] EXCEPT !.path = work[p].path, !.expires = work[p].pair]
  <2>1. /\ Goto(p, "ssl") /\ UNCHANGED <<mutex, work, deploys, plan>>
        /\ cert' = [cert EXCEPT ![s].path = work[p].path, ![s].expires = work[p].pair]
    BY <1>6 DEF UpdateCert
  <2>2. s \in SiteIds /\ work[p].path \in Names /\ s \in Certs
    BY <1>2, <1>6 DEF Tasks
  <2>3. cert[s] \in [domain : Names, path : Names, expires : Pair \ {0}]
    BY <2>2 DEF Certs, IInv, TablesOK
  <2>4. c \in [domain : Names, path : Names, expires : Pair \ {0}]
    BY <1>3, <2>2, <2>3
  <2>5. cert' = [cert EXCEPT ![s] = c]
    <3>1. cert \in [SiteIds -> [domain : Names, path : Names, expires : Pair \ {0}] \cup {NoRow}]
      BY DEF IInv, TablesOK
    <3> QED BY <2>1, <2>2, <3>1
  <2>6. TablesOK'
    <3> HIDE DEF c, s
    <3>1. cert' \in [SiteIds -> [domain : Names, path : Names, expires : Pair \ {0}] \cup {NoRow}]
      BY <2>2, <2>4, <2>5 DEF IInv, TablesOK
    <3> QED BY <1>1, <3>1 DEF IInv, TablesOK, Pair
  <2>7. "ssl" \in Labels /\ (BusyAt("ssl") <=> BusyAt(pc[p])) /\ Fits("ssl", work[p], deploys[p])
    BY <1>1, <1>2 DEF Labels, BusyAt, Fits
  <2>8. LocalsOK' /\ Others(p) /\ pc'[p] = "ssl"
    BY <2>1, <2>7, GotoLocals DEF IInv
  <2>9. IInv'
    BY <1>4, <2>6, <2>8, FurtherStep
  <2> QED BY <1>1, <1>2, <1>6, <2>1, <2>5, <2>8, <2>9
<1> QED BY <1>5, <1>6

\* The names to deploy are set to the domain of the certificate.
LEMMA DeployDomain ==
  ASSUME IInv, NEW p \in Actors, pc[p] \in {"ssl", "files"}, Goto(p, "generate"),
         deploys' = [deploys EXCEPT ![p] = <<work[p].domain>>], UNCHANGED <<mutex, work, plan>>
  PROVE  /\ LocalsOK' /\ Others(p) /\ pc'[p] = "generate" /\ work'[p] = work[p]
         /\ deploys'[p] = <<work[p].domain>>
         /\ mutex = p /\ mutex' = p /\ work[p] \in Tasks /\ work[p].op \in Locked
<1>1. mutex = p /\ work[p] \in Tasks /\ work[p].op \in Locked /\ Fits(pc[p], work[p], deploys[p])
  BY WithMutex
<1> DEFINE d == <<work[p].domain>>
<1>2. d \in Seq(Names) /\ d # << >>
  BY <1>1 DEF Tasks
<1>3. deploys' = [deploys EXCEPT ![p] = d]
  OBVIOUS
<1>4. "generate" \in Labels /\ Holds("generate", work[p]) /\ Holds(pc[p], work[p]) /\ work[p] \in Jobs
  BY <1>1 DEF Labels, Holds, BusyAt, Jobs
<1> HIDE DEF d
<1>5. Fits("generate", work[p], d)
  BY <1>1, <1>2 DEF Fits
<1>6. Becomes(p, work[p], d, plan[p])
  BY <1>3 DEF Becomes
<1>7. LocalsOK' /\ Others(p) /\ pc'[p] = "generate" /\ work'[p] = work[p] /\ deploys'[p] = d
  BY <1>2, <1>4, <1>5, <1>6, Placed, TurnLocals DEF IInv
<1> QED BY <1>1, <1>7 DEF d

LEMMA ActivateSSLStep ==
  ASSUME IInv, NEW p \in Actors, ActivateSSL(p)
  PROVE  /\ IInv' /\ Others(p) /\ pc[p] = "ssl" /\ pc'[p] = "generate" /\ work'[p] = work[p]
         /\ deploys'[p] = <<work[p].domain>>
         /\ mutex = p /\ mutex' = p /\ work[p] \in Tasks
         /\ site' = IF work[p].site \in Alive THEN [site EXCEPT ![work[p].site].ssl = TRUE] ELSE site
<1>1. /\ pc[p] = "ssl" /\ Goto(p, "generate") /\ deploys' = [deploys EXCEPT ![p] = <<work[p].domain>>]
      /\ site' = IF work[p].site \in Alive THEN [site EXCEPT ![work[p].site].ssl = TRUE] ELSE site
      /\ UNCHANGED <<cert, crt, key, issued, revoked, horizon, Nginx, mutex, work, plan>>
  BY DEF ActivateSSL, DeployAll, Nginx, pairs, authority
<1>2. /\ LocalsOK' /\ Others(p) /\ pc'[p] = "generate" /\ work'[p] = work[p]
      /\ deploys'[p] = <<work[p].domain>>
      /\ mutex = p /\ mutex' = p /\ work[p] \in Tasks
  BY <1>1, DeployDomain
<1>3. site' \in [SiteIds -> Row \cup {Unborn, Gone}]
  <2>1. CASE work[p].site \in Alive
    <3> DEFINE s == work[p].site  r == [site[s] EXCEPT !.ssl = TRUE]
    <3>1. s \in SiteIds /\ site[s] \in Row
      BY <2>1 DEF Alive, IInv, TablesOK
    <3>2. r \in Row
      BY <3>1 DEF Row
    <3>3. site' = [site EXCEPT ![s] = r]
      BY <1>1, <2>1
    <3> HIDE DEF r, s
    <3> QED BY <3>1, <3>2, <3>3 DEF IInv, TablesOK
  <2>2. CASE work[p].site \notin Alive
    BY <1>1, <2>2 DEF IInv, TablesOK
  <2> QED BY <2>1, <2>2
<1>4. TablesOK' /\ NginxOK' /\ issued' = issued
  BY <1>1, <1>3, NginxSame DEF IInv, TablesOK, Pair
<1>5. IInv'
  BY <1>2, <1>4, FurtherStep
<1> QED BY <1>1, <1>2, <1>5

LEMMA RevokeStep ==
  ASSUME IInv, NEW p \in Actors, Revoke(p)
  PROVE  /\ IInv' /\ Others(p) /\ pc[p] = "revoke" /\ mutex = p /\ work[p] \in Tasks
         /\ \/ Ended(p) /\ revoked' = revoked
            \/ /\ pc'[p] = "unssl" /\ work'[p] = work[p] /\ mutex' = p
               /\ key[work[p].path] # 0
               /\ \/ crt[work[p].path] = 0
                  \/ crt[work[p].path] = key[work[p].path] /\ crt[work[p].path] \notin revoked
               /\ revoked' = revoked \cup ({crt[work[p].path]} \ {0})
<1> DEFINE n == work[p].path
           ok == key[n] # 0 /\ (crt[n] = 0 \/ (crt[n] = key[n] /\ crt[n] \notin revoked))
<1>1. /\ pc[p] = "revoke"
      /\ UNCHANGED <<site, cert, crt, key, issued, horizon, Nginx>>
  BY DEF Revoke, Nginx, rows, pairs
<1>2. mutex = p /\ work[p] \in Tasks /\ Fits(pc[p], work[p], deploys[p])
  BY <1>1, WithMutex
<1>3. NginxOK' /\ issued' = issued
  BY <1>1, NginxSame DEF IInv
<1>4. CASE ~ok
  <2>1. End(p) /\ revoked' = revoked
    BY <1>4 DEF Revoke
  <2>2. TablesOK'
    BY <1>1, <2>1, TablesSame DEF IInv, Tables
  <2> QED BY <1>1, <1>2, <1>3, <2>1, <2>2, LastStep
<1>5. CASE ok
  <2>1. /\ revoked' = revoked \cup ({crt[n]} \ {0}) /\ Goto(p, "unssl")
        /\ UNCHANGED <<mutex, work, deploys, plan>>
    BY <1>5 DEF Revoke
  <2>2. crt[n] \in Pair
    BY <1>2 DEF Tasks, IInv, TablesOK
  <2>3. TablesOK'
    BY <1>1, <2>1, <2>2 DEF IInv, TablesOK, Pair
  <2>4. "unssl" \in Labels /\ (BusyAt("unssl") <=> BusyAt(pc[p])) /\ Fits("unssl", work[p], deploys[p])
    BY <1>1, <1>2 DEF Labels, BusyAt, Fits
  <2>5. LocalsOK' /\ Others(p) /\ pc'[p] = "unssl"
    BY <2>1, <2>4, GotoLocals DEF IInv
  <2>6. IInv'
    BY <1>3, <2>3, <2>5, FurtherStep
  <2>7. work'[p] = work[p] /\ mutex' = p
    BY <1>2, <2>1
  <2> QED BY <1>1, <1>2, <1>5, <2>1, <2>5, <2>6, <2>7
<1> QED BY <1>4, <1>5

LEMMA DeactivateSSLStep ==
  ASSUME IInv, NEW p \in Actors, DeactivateSSL(p)
  PROVE  /\ IInv' /\ Others(p) /\ pc[p] = "unssl" /\ pc'[p] = "drop" /\ work'[p] = work[p]
         /\ mutex = p /\ mutex' = p /\ work[p] \in Tasks
         /\ site' = IF work[p].site \in Alive THEN [site EXCEPT ![work[p].site].ssl = FALSE] ELSE site
<1>1. /\ pc[p] = "unssl" /\ Goto(p, "drop")
      /\ site' = IF work[p].site \in Alive THEN [site EXCEPT ![work[p].site].ssl = FALSE] ELSE site
      /\ UNCHANGED <<cert, crt, key, issued, revoked, horizon, Nginx, mutex, work, deploys, plan>>
  BY DEF DeactivateSSL, Nginx, pairs, authority
<1>2. mutex = p /\ work[p] \in Tasks /\ Fits(pc[p], work[p], deploys[p])
  BY <1>1, WithMutex
<1>3. site' \in [SiteIds -> Row \cup {Unborn, Gone}]
  <2>1. CASE work[p].site \in Alive
    <3> DEFINE s == work[p].site  r == [site[s] EXCEPT !.ssl = FALSE]
    <3>1. s \in SiteIds /\ site[s] \in Row
      BY <2>1 DEF Alive, IInv, TablesOK
    <3>2. r \in Row
      BY <3>1 DEF Row
    <3>3. site' = [site EXCEPT ![s] = r]
      BY <1>1, <2>1
    <3> HIDE DEF r, s
    <3> QED BY <3>1, <3>2, <3>3 DEF IInv, TablesOK
  <2>2. CASE work[p].site \notin Alive
    BY <1>1, <2>2 DEF IInv, TablesOK
  <2> QED BY <2>1, <2>2
<1>4. TablesOK' /\ NginxOK' /\ issued' = issued
  BY <1>1, <1>3, NginxSame DEF IInv, TablesOK, Pair
<1>5. "drop" \in Labels /\ (BusyAt("drop") <=> BusyAt(pc[p])) /\ Fits("drop", work[p], deploys[p])
  BY <1>1, <1>2 DEF Labels, BusyAt, Fits
<1>6. LocalsOK' /\ Others(p) /\ pc'[p] = "drop"
  BY <1>1, <1>5, GotoLocals DEF IInv
<1>7. IInv'
  BY <1>4, <1>6, FurtherStep
<1> QED BY <1>1, <1>2, <1>6, <1>7

LEMMA DropCertStep ==
  ASSUME IInv, NEW p \in Actors, DropCert(p)
  PROVE  /\ IInv' /\ Others(p) /\ pc[p] = "drop" /\ pc'[p] = "files" /\ work'[p] = work[p]
         /\ mutex = p /\ mutex' = p /\ work[p] \in Tasks
         /\ cert' = [cert EXCEPT ![work[p].site] = NoRow]
<1>1. /\ pc[p] = "drop" /\ Goto(p, "files") /\ cert' = [cert EXCEPT ![work[p].site] = NoRow]
      /\ UNCHANGED <<site, crt, key, issued, revoked, horizon, Nginx, mutex, work, deploys, plan>>
  BY DEF DropCert, Nginx, pairs, authority
<1>2. mutex = p /\ work[p] \in Tasks /\ Fits(pc[p], work[p], deploys[p])
  BY <1>1, WithMutex
<1>3. TablesOK'
  <2>1. cert' \in [SiteIds -> [domain : Names, path : Names, expires : Pair \ {0}] \cup {NoRow}]
    BY <1>1 DEF IInv, TablesOK
  <2> QED BY <1>1, <2>1 DEF IInv, TablesOK, Pair
<1>4. NginxOK' /\ issued' = issued
  BY <1>1, NginxSame DEF IInv
<1>5. "files" \in Labels /\ (BusyAt("files") <=> BusyAt(pc[p])) /\ Fits("files", work[p], deploys[p])
  BY <1>1, <1>2 DEF Labels, BusyAt, Fits
<1>6. LocalsOK' /\ Others(p) /\ pc'[p] = "files"
  BY <1>1, <1>5, GotoLocals DEF IInv
<1>7. IInv'
  BY <1>3, <1>4, <1>6, FurtherStep
<1> QED BY <1>1, <1>2, <1>6, <1>7

LEMMA RemovePairStep ==
  ASSUME IInv, NEW p \in Actors, RemovePair(p)
  PROVE  /\ IInv' /\ Others(p) /\ pc[p] = "files" /\ pc'[p] = "generate" /\ work'[p] = work[p]
         /\ deploys'[p] = <<work[p].domain>>
         /\ mutex = p /\ mutex' = p /\ work[p] \in Tasks
<1>1. /\ pc[p] = "files" /\ Goto(p, "generate") /\ deploys' = [deploys EXCEPT ![p] = <<work[p].domain>>]
      /\ crt' = [crt EXCEPT ![work[p].domain] = 0] /\ key' = [key EXCEPT ![work[p].domain] = 0]
      /\ UNCHANGED <<site, cert, issued, revoked, horizon, Nginx, mutex, work, plan>>
  BY DEF RemovePair, DeployAll, Nginx, rows, authority
<1>2. /\ LocalsOK' /\ Others(p) /\ pc'[p] = "generate" /\ work'[p] = work[p]
      /\ deploys'[p] = <<work[p].domain>>
      /\ mutex = p /\ mutex' = p /\ work[p] \in Tasks
  BY <1>1, DeployDomain
<1>3. crt' \in [Names -> Pair] /\ key' \in [Names -> Pair]
  <2>1. issued \in Seq(Names) /\ 0 \in Pair /\ crt \in [Names -> Pair] /\ key \in [Names -> Pair]
    BY DEF IInv, TablesOK, Pair
  <2> QED BY <1>1, <2>1
<1>4. TablesOK' /\ NginxOK' /\ issued' = issued
  BY <1>1, <1>3, NginxSame DEF IInv, TablesOK, Pair
<1>5. IInv'
  BY <1>2, <1>4, FurtherStep
<1> QED BY <1>1, <1>2, <1>5

-----------------------------------------------------------------------------
(* The types: time and faults, and a start. *)

LEMMA LocalsSame == ASSUME LocalsOK, UNCHANGED <<locals, mutex>> PROVE LocalsOK'
BY DEF LocalsOK, locals, Fits, Holds, BusyAt

LEMMA AgeStep == ASSUME IInv, Age PROVE IInv' /\ UNCHANGED <<site, cert, crt, key, conf, live, issued, revoked, mutex, locals>>
<1>1. /\ UNCHANGED <<site, cert, crt, key, conf, live, issued, revoked, mutex, locals, reachable, todo>>
      /\ horizon < Len(issued) /\ horizon' = horizon + 1
  BY DEF Age, rows, pairs
<1>2. horizon' \in Pair
  <2>1. Len(issued) \in Nat /\ horizon \in 0 .. Len(issued)
    BY DEF IInv, TablesOK, Pair
  <2> QED BY <1>1, <2>1 DEF Pair
<1>3. TablesOK' /\ NginxOK'
  BY <1>1, <1>2, NginxSame DEF IInv, TablesOK, Pair, Nginx
<1>4. LocalsOK' /\ PairsOK'
  BY <1>1, LocalsSame DEF IInv, PairsOK, Pair, locals
<1> QED BY <1>1, <1>3, <1>4 DEF IInv

LEMMA LoseStep ==
  ASSUME IInv, NEW n \in Names, Lose(n)
  PROVE  IInv' /\ UNCHANGED <<site, cert, crt, key, conf, live, issued, revoked, mutex, locals>>
<1>1. /\ UNCHANGED <<site, cert, crt, key, conf, live, issued, revoked, horizon, mutex, locals, todo>>
      /\ reachable' = reachable \ {n}
  BY DEF Lose, rows, pairs
<1>2. TablesOK' /\ NginxOK'
  BY <1>1, TablesSame DEF IInv, NginxOK, Pair, Tables
<1>3. LocalsOK' /\ PairsOK'
  BY <1>1, LocalsSame DEF IInv, PairsOK, Pair, locals
<1> QED BY <1>1, <1>2, <1>3 DEF IInv

LEMMA StepFailsStep == ASSUME IInv, NEW p \in Actors, StepFails(p) PROVE IInv' /\ Others(p) /\ Ended(p)
<1>1. End(p) /\ UNCHANGED <<Tables, Nginx>>
  BY DEF StepFails, Tables, Nginx, rows, pairs, authority
<1>2. TablesOK' /\ NginxOK' /\ issued' = issued
  BY <1>1, TablesSame, NginxSame DEF IInv, Tables
<1> QED BY <1>1, <1>2, LastStep

LEMMA DeployFailsStep == ASSUME IInv, NEW p \in Actors, DeployFails(p) PROVE IInv' /\ Others(p)
<1>1. /\ pc[p] \in {"generate", "write", "reload"} /\ NextName(p) /\ UNCHANGED <<Tables, Nginx>>
  BY DEF DeployFails, Tables, Nginx, rows, pairs, authority
<1>2. NginxOK'
  BY <1>1, NginxSame DEF IInv, Tables
<1> QED BY <1>1, <1>2, NextNameStep, NextNameLocals DEF IInv

Idling == /\ pc = [p \in Actors |-> "idle"] /\ work = [p \in Actors |-> NoWork]
          /\ deploys = [p \in Actors |-> << >>] /\ plan = [p \in Actors |-> {}] /\ mutex = Nobody

LEMMA NothingRuns == Idling => LocalsOK /\ PairsOK
<1> SUFFICES ASSUME Idling PROVE LocalsOK /\ PairsOK
  OBVIOUS
<1> USE DEF Idling
<1>1. "idle" \in Labels /\ NoWork \in Jobs /\ NoWork \notin Tasks /\ << >> \in Seq(Names)
  BY DEF Labels, Jobs, Plains, NoWork, Tasks, Locked
<1>2. /\ pc \in [Actors -> Labels] /\ work \in [Actors -> Jobs]
      /\ deploys \in [Actors -> Seq(Names)] /\ plan \in [Actors -> SUBSET Block]
      /\ mutex \in Actors \cup {Nobody}
  BY <1>1
<1>3. Fits("idle", NoWork, << >>) /\ ~Holds("idle", NoWork)
  BY <1>1 DEF Fits, Holds, BusyAt
<1>4. \A p \in Actors : pc[p] = "idle" /\ work[p] = NoWork /\ deploys[p] = << >>
  OBVIOUS
<1>5. \A p \in Actors : Fits(pc[p], work[p], deploys[p])
  BY <1>3, <1>4
<1>6. \A p \in Actors : mutex = p <=> Holds(pc[p], work[p])
  BY <1>3, <1>4, NobodyElse
<1> QED BY <1>2, <1>4, <1>5, <1>6 DEF LocalsOK, PairsOK

LEMMA CrashStep == ASSUME IInv, Crash PROVE IInv'
<1>1. /\ UNCHANGED <<Tables, conf, live, reachable>> /\ todo' = << >> /\ mutex' = Nobody
      /\ pc' = [p \in Actors |-> "idle"] /\ work' = [p \in Actors |-> NoWork]
      /\ deploys' = [p \in Actors |-> << >>] /\ plan' = [p \in Actors |-> {}]
  BY DEF Crash, Tables, rows, pairs, authority
<1>a. Idling' => (LocalsOK /\ PairsOK)'
  BY NothingRuns, PTL
<1>2. (LocalsOK /\ PairsOK)'
  BY <1>1, <1>a DEF Idling
<1>3. TablesOK' /\ NginxOK'
  BY <1>1, TablesSame DEF IInv, NginxOK, Tables, Pair
<1> QED BY <1>2, <1>3 DEF IInv

LEMMA StutterStep == ASSUME IInv, UNCHANGED vars PROVE IInv'
<1>1. TablesOK' /\ NginxOK'
  BY TablesSame, NginxSame DEF IInv, vars, Tables, Nginx, rows, pairs, authority
<1>2. LocalsOK' /\ PairsOK'
  BY LocalsSame DEF IInv, vars, authority, PairsOK, Pair, locals
<1> QED BY <1>1, <1>2 DEF IInv

\* The sites there are at first, and their certificates, in some order.
LEMMA AtFirst ==
  ASSUME Init
  PROVE  /\ IInv
         /\ \A s \in Certs : /\ cert[s].domain = NameOf[s] /\ cert[s].path = NameOf[s]
                             /\ issued[cert[s].expires] = NameOf[s]
<1>1. PICK born \in Born :
        LET first   == SetToSeq(born)
            pair(s) == CHOOSE i \in 1..Len(first) : first[i] = s
        IN  /\ site = [s \in SiteIds |->
                 IF s \in born THEN [name |-> NameOf[s], ssl |-> TRUE, on |-> TRUE] ELSE Unborn]
            /\ cert = [s \in SiteIds |->
                 IF s \in born THEN [domain |-> NameOf[s], path |-> NameOf[s], expires |-> pair(s)] ELSE NoRow]
            /\ issued = [i \in 1..Len(first) |-> NameOf[first[i]]]
  BY DEF Init
<1> DEFINE first == SetToSeq(born)
           pair(s) == CHOOSE i \in 1..Len(first) : first[i] = s
<1>2. IsFiniteSet(born)
  BY CertificatesAssumption, FS_Subset
<1>3. /\ first \in [1 .. Cardinality(born) -> born] /\ IsInjective(first) /\ Cardinality(born) \in Nat
      /\ Len(first) = Cardinality(born)
  BY <1>2, SequenceOf
<1>4. ASSUME NEW s \in born PROVE \E i \in 1 .. Len(first) : first[i] = s
  <2> DEFINE I == 1 .. Cardinality(born)
  <2>1. IsFiniteSet(I) /\ Cardinality(I) = Cardinality(born)
    BY <1>3, FS_Interval
  <2>2. first \in Injection(I, born)
    BY <1>3 DEF Injection
  <2> HIDE DEF I, first
  <2>3. first \in Surjection(I, born)
    BY <1>2, <2>1, <2>2, FS_SurjSameCardinalityImpliesInj, FS_Injection, FS_Bijection
  <2> QED BY <1>3, <2>3 DEF Surjection, I
<1>5. ASSUME NEW s \in born PROVE pair(s) \in 1 .. Len(first) /\ first[pair(s)] = s
  BY <1>4
<1>6. /\ site = [s \in SiteIds |->
           IF s \in born THEN [name |-> NameOf[s], ssl |-> TRUE, on |-> TRUE] ELSE Unborn]
      /\ cert = [s \in SiteIds |->
           IF s \in born THEN [domain |-> NameOf[s], path |-> NameOf[s], expires |-> pair(s)] ELSE NoRow]
      /\ issued = [i \in 1..Len(first) |-> NameOf[first[i]]]
  BY <1>1
<1> HIDE DEF pair, first
<1>b. born \subseteq SiteIds
  BY CertificatesAssumption
<1>7. ASSUME NEW s \in SiteIds PROVE NameOf[s] \in Names
  BY CertificatesAssumption
<1>8. issued \in Seq(Names) /\ Len(issued) = Len(first)
  <2> DEFINE k == Len(first)
  <2>1. k \in Nat
    BY <1>3
  <2>2. \A i \in 1 .. k : NameOf[first[i]] \in Names
    BY <1>b, <1>3, <1>7
  <2>3. issued = [i \in 1 .. k |-> NameOf[first[i]]]
    BY <1>6
  <2> HIDE DEF k
  <2>4. issued \in [1 .. k -> Names]
    BY <2>2, <2>3
  <2>5. issued \in Seq(Names) /\ Len(issued) = k
    BY <2>1, <2>4
  <2> QED BY <2>5 DEF k
<1>9. Pair \ {0} = 1 .. Len(first) /\ 0 \in Pair
  BY <1>3, <1>8 DEF Pair
<1>10. site \in [SiteIds -> Row \cup {Unborn, Gone}]
  <2>1. \A s \in SiteIds : [name |-> NameOf[s], ssl |-> TRUE, on |-> TRUE] \in Row
    BY <1>7 DEF Row
  <2> QED BY <1>6, <2>1
<1>11. cert \in [SiteIds -> [domain : Names, path : Names, expires : Pair \ {0}] \cup {NoRow}]
  <2>1. ASSUME NEW s \in born
        PROVE  [domain |-> NameOf[s], path |-> NameOf[s], expires |-> pair(s)]
                 \in [domain : Names, path : Names, expires : Pair \ {0}]
    <3>1. NameOf[s] \in Names
      BY <1>b, <1>7
    <3>2. pair(s) \in Pair \ {0}
      BY <1>5, <1>9
    <3> QED BY <3>1, <3>2
  <2>2. ASSUME NEW s \in SiteIds
        PROVE  (IF s \in born THEN [domain |-> NameOf[s], path |-> NameOf[s], expires |-> pair(s)] ELSE NoRow)
                 \in [domain : Names, path : Names, expires : Pair \ {0}] \cup {NoRow}
    <3>1. CASE s \in born
      BY <2>1, <3>1
    <3>2. CASE s \notin born
      BY <3>2
    <3> QED BY <3>1, <3>2
  <2> QED BY <1>6, <2>2
<1>12. ASSUME NEW s \in Certs
       PROVE  /\ cert[s].domain = NameOf[s] /\ cert[s].path = NameOf[s]
              /\ cert[s].expires \in Pair \ {0}
              /\ issued[cert[s].expires] = NameOf[s]
  <2>1. s \in born /\ s \in SiteIds
    BY <1>6 DEF Certs
  <2>2. cert[s] = [domain |-> NameOf[s], path |-> NameOf[s], expires |-> pair(s)]
    BY <1>6, <2>1
  <2>3. cert[s].domain = NameOf[s] /\ cert[s].path = NameOf[s] /\ cert[s].expires = pair(s)
    BY <2>2
  <2>4. pair(s) \in 1 .. Len(first) /\ first[pair(s)] = s
    BY <1>5, <2>1
  <2>5. issued[pair(s)] = NameOf[s]
    BY <1>6, <2>4
  <2> QED BY <1>9, <2>3, <2>4, <2>5
<1>13. crt \in [Names -> Pair]
  <2>1. crt = [n \in Names |-> LET its == {s \in Certs : cert[s].path = n}
                               IN  IF its = {} THEN 0 ELSE cert[CHOOSE s \in its : TRUE].expires]
    BY DEF Init
  <2>2. ASSUME NEW n \in Names
        PROVE  LET its == {s \in Certs : cert[s].path = n}
               IN  (IF its = {} THEN 0 ELSE cert[CHOOSE s \in its : TRUE].expires) \in Pair
    <3> DEFINE its == {s \in Certs : cert[s].path = n}
    <3>1. CASE its = {}
      BY <1>9, <3>1
    <3>2. CASE its # {}
      <4>1. (CHOOSE s \in its : TRUE) \in its
        BY <3>2
      <4>2. (CHOOSE s \in its : TRUE) \in Certs
        BY <4>1
      <4> QED BY <1>12, <3>2, <4>2
    <3> QED BY <3>1, <3>2
  <2> QED BY <2>1, <2>2
<1>14. TablesOK
  BY <1>8, <1>9, <1>10, <1>11, <1>13 DEF TablesOK, Init
<1>15. NginxOK
  <2>1. conf \in [Names -> SUBSET Block]
    BY <1>14, RenderedOK DEF Init
  <2>2. live \in [Names -> SUBSET [id : SiteIds, pair : Pair]]
    <3>1. ASSUME NEW n \in Names, NEW b \in conf[n]
          PROVE  b.id \in SiteIds /\ (IF b.tls = Plain THEN 0 ELSE crt[b.tls]) \in Pair
      <4>1. b.id \in SiteIds
        BY <2>1 DEF Block
      <4>2. conf[n] = Rendered(n)
        BY DEF Init
      <4>3. PICK s \in SitesOf(n) :
              b = [id |-> s, tls |-> CASE ~site[s].ssl -> Plain
                                       [] site[s].ssl /\ s \in Certs -> cert[s].path
                                       [] OTHER -> Missing]
        BY <4>2 DEF Rendered
      <4>4. s \in SiteIds /\ s \in born
        BY <1>6 DEF SitesOf, Alive
      <4>5. cert[s] # NoRow
        <5>1. cert[s] = [domain |-> NameOf[s], path |-> NameOf[s], expires |-> pair(s)]
          BY <1>6, <4>4
        <5>2. pair(s) \in Nat /\ NameOf[s] \in Names
          BY <1>3, <1>5, <1>7, <4>4
        <5> QED BY <5>1, <5>2, CertificatesAssumption
      <4>6. site[s].ssl = TRUE
        BY <1>6, <4>4
      <4>7. s \in Certs
        BY <4>4, <4>5 DEF Certs
      <4>8. b.tls = cert[s].path
        BY <4>3, <4>6, <4>7
      <4>9. b.tls \in Names
        BY <1>7, <1>12, <4>4, <4>7, <4>8
      <4> QED BY <1>9, <1>13, <4>1, <4>9
    <3>2. \A n \in Names :
            {[id |-> b.id, pair |-> IF b.tls = Plain THEN 0 ELSE crt[b.tls]] : b \in conf[n]}
              \in SUBSET [id : SiteIds, pair : Pair]
      BY <3>1
    <3> QED BY <3>2 DEF Init, Loaded
  <2>3. reachable = Names /\ todo = << >>
    BY DEF Init
  <2>4. todo \in Seq(SiteIds)
    BY <2>3
  <2> QED BY <2>1, <2>2, <2>3, <2>4 DEF NginxOK
<1>16. LocalsOK /\ PairsOK
  BY NothingRuns DEF Init, Idling
<1> QED BY <1>12, <1>14, <1>15, <1>16 DEF IInv

LEMMA ContinueStep == ASSUME IInv, NEW p \in Actors, Continue(p) PROVE IInv'
<1>1. CASE Generate(p)      BY <1>1, GenerateStep
<1>2. CASE WriteConf(p)     BY <1>2, WriteConfStep
<1>3. CASE Reload(p)        BY <1>3, ReloadStep
<1>4. CASE UpdateServer(p)  BY <1>4, UpdateServerStep
<1>5. CASE PurgeSites(p)    BY <1>5, PurgeSitesStep
<1>6. CASE PurgePairs(p)    BY <1>6, PurgePairsStep
<1>7. CASE Purged(p)        BY <1>7, PurgedStep
<1>8. CASE Obtain(p)        BY <1>8, ObtainStep
<1>9. CASE Refused(p)       BY <1>9, RefusedStep
<1>10. CASE WriteCrt(p)     BY <1>10, WriteCrtStep
<1>11. CASE WriteKey(p)     BY <1>11, WriteKeyStep
<1>12. CASE InsertCert(p)   BY <1>12, InsertCertStep
<1>13. CASE UpdateCert(p)   BY <1>13, UpdateCertStep
<1>14. CASE ActivateSSL(p)  BY <1>14, ActivateSSLStep
<1>15. CASE Revoke(p)       BY <1>15, RevokeStep
<1>16. CASE DeactivateSSL(p) BY <1>16, DeactivateSSLStep
<1>17. CASE DropCert(p)     BY <1>17, DropCertStep
<1>18. CASE RemovePair(p)   BY <1>18, RemovePairStep
<1> QED BY <1>1, <1>2, <1>3, <1>4, <1>5, <1>6, <1>7, <1>8, <1>9, <1>10, <1>11, <1>12, <1>13,
           <1>14, <1>15, <1>16, <1>17, <1>18 DEF Continue

\* The forms of a request, with the name in the form of an operation on a certificate.
LEMMA RequestForms ==
  ASSUME NEW p, Request(p)
  PROVE  \/ \E s \in SiteIds, n \in Names, ssl \in BOOLEAN, on \in BOOLEAN :
              Insert(p, s, n, ssl, on) \/ Update(p, s, n, ssl, on)
         \/ \E s \in SiteIds, n \in Names : DeleteSite(p, s, n)
         \/ \E v : DeleteServer(p, v)
         \/ \E op \in Locked, s \in SiteIds : \E n \in Names \cup {site[s].name} : Ask(p, op, s, n)
         \/ Redeploy(p)
<1>1. CASE Redeploy(p)
  BY <1>1
<1>2. CASE ~Redeploy(p)
  <2>1. PICK s \in SiteIds :
          \/ \E n \in Names, ssl, on \in BOOLEAN : Insert(p, s, n, ssl, on) \/ Update(p, s, n, ssl, on)
          \/ \E n \in Names : DeleteSite(p, s, n) \/ Ask(p, "issue", s, n)
          \/ \E op \in {"renew", "delete"} : Ask(p, op, s, site[s].name)
          \/ DeleteServer(p, ServerOf[s])
    BY <1>2 DEF Request
  <2>2. ASSUME NEW n \in Names, Ask(p, "issue", s, n)
        PROVE  \E op \in Locked, t \in SiteIds : \E m \in Names \cup {site[t].name} : Ask(p, op, t, m)
    <3>1. "issue" \in Locked /\ n \in Names \cup {site[s].name}
      BY DEF Locked
    <3> QED BY <2>2, <3>1, Zenon
  <2>3. ASSUME NEW op \in {"renew", "delete"}, Ask(p, op, s, site[s].name)
        PROVE  \E o \in Locked, t \in SiteIds : \E m \in Names \cup {site[t].name} : Ask(p, o, t, m)
    <3>1. op \in Locked /\ site[s].name \in Names \cup {site[s].name}
      BY DEF Locked
    <3> QED BY <2>3, <3>1, Zenon
  <2> QED BY <2>1, <2>2, <2>3, Zenon
<1> QED BY <1>1, <1>2

LEMMA RequestStep == ASSUME IInv, NEW p \in Requests, Request(p) PROVE IInv'
<1>a. p \in Actors
  BY DEF Actors
<1>1. ASSUME NEW s \in SiteIds, NEW n \in Names, NEW ssl \in BOOLEAN, NEW on \in BOOLEAN,
             Insert(p, s, n, ssl, on) \/ Update(p, s, n, ssl, on)
      PROVE  IInv'
  BY <1>a, <1>1, InsertStep, UpdateStep
<1>2. ASSUME NEW s \in SiteIds, NEW n \in Names, DeleteSite(p, s, n) PROVE IInv'
  BY <1>a, <1>2, DeleteSiteStep
<1>3. ASSUME NEW v, DeleteServer(p, v) PROVE IInv'
  BY <1>a, <1>3, DeleteServerStep
<1>4. ASSUME NEW op \in Locked, NEW s \in SiteIds, NEW n \in Names \cup {site[s].name}, Ask(p, op, s, n)
        PROVE  IInv'
  BY <1>a, <1>4, AskStep
<1>5. CASE Redeploy(p)
  BY <1>a, <1>5, RedeployStep
<1> QED BY <1>1, <1>2, <1>3, <1>4, <1>5, RequestForms

LEMMA SurroundingsStep == ASSUME IInv, Surroundings PROVE IInv'
<1>1. CASE Age
  BY <1>1, AgeStep
<1>2. CASE Crash
  BY <1>2, CrashStep
<1>3. ASSUME NEW n \in Names, Lose(n) PROVE IInv'
  BY <1>3, LoseStep
<1>4. ASSUME NEW p \in Actors, StepFails(p) \/ DeployFails(p) PROVE IInv'
  BY <1>4, StepFailsStep, DeployFailsStep
<1> QED BY <1>1, <1>2, <1>3, <1>4 DEF Surroundings

LEMMA NextTypes == IInv /\ [Next]_vars => IInv'
<1> SUFFICES ASSUME IInv, [Next]_vars PROVE IInv'
  OBVIOUS
<1>1. ASSUME NEW p \in Requests, Request(p) PROVE IInv'
  BY <1>1, RequestStep
<1>2. ASSUME NEW p \in Actors, Continue(p) \/ Lock(p) PROVE IInv'
  BY <1>2, ContinueStep, LockStep
<1>3. CASE Scan \/ RenewNext
  BY <1>3, ScanStep, RenewNextStep
<1>4. CASE Surroundings
  BY <1>4, SurroundingsStep
<1>5. CASE UNCHANGED vars
  BY <1>5, StutterStep
<1> QED BY <1>1, <1>2, <1>3, <1>4, <1>5 DEF Next

LEMMA TypesAlways == Spec => []IInv
<1>1. Init => IInv
  BY AtFirst
<1> QED BY <1>1, NextTypes, PTL DEF Spec

\* Only the deletion of a site adds to the names that are left as they were.
LEMMA LeftTyped == IInv /\ left \subseteq Names /\ [Next]_vars => (left \subseteq Names)'
<1> SUFFICES ASSUME IInv, left \subseteq Names, [Next]_vars PROVE left' \subseteq Names
  OBVIOUS
<1>1. ASSUME NEW p \in Requests, Request(p) PROVE left' \subseteq Names
  <2>1. ASSUME NEW s, NEW n, NEW ssl, NEW on, Insert(p, s, n, ssl, on) \/ Update(p, s, n, ssl, on)
        PROVE  left' = left
    BY <2>1 DEF Insert, Update
  <2>2. ASSUME NEW s \in SiteIds, NEW n \in Names, DeleteSite(p, s, n) PROVE left' \subseteq Names
    <3>1. site[s].name \in Names
      BY <2>2, DeleteSiteStep DEF Actors
    <3>2. left' \subseteq left \cup {site[s].name}
      BY <2>2 DEF DeleteSite
    <3> QED BY <3>1, <3>2
  <2>3. ASSUME NEW v, DeleteServer(p, v) PROVE left' = left
    BY <2>3 DEF DeleteServer
  <2>4. ASSUME NEW op, NEW s, NEW n, Ask(p, op, s, n) PROVE left' = left
    BY <2>4 DEF Ask
  <2>5. ASSUME Redeploy(p) PROVE left' = left
    BY <2>5 DEF Redeploy
  <2> QED BY <1>1, <2>1, <2>2, <2>3, <2>4, <2>5, RequestForms
<1>2. ASSUME NEW p \in Actors, Continue(p) PROVE left' \subseteq left
  BY <1>2 DEF Continue, Generate, WriteConf, Reload, UpdateServer, PurgeSites, PurgePairs, Purged,
              Obtain, Refused, WriteCrt, WriteKey, InsertCert, UpdateCert, ActivateSSL,
              Revoke, DeactivateSSL, DropCert, RemovePair
<1>3. ASSUME NEW p \in Actors, Lock(p) PROVE left' = left
  BY <1>3 DEF Lock
<1>4. ASSUME Scan \/ RenewNext \/ Surroundings \/ UNCHANGED vars PROVE left' = left
  BY <1>4 DEF Scan, RenewNext, Surroundings, Age, Crash, Lose, StepFails, DeployFails, vars
<1> QED BY <1>1, <1>2, <1>3, <1>4 DEF Next

\* The tables, the files and the locals keep their types, and the mutex is held
\* by the one operation on certificates that has begun: a deferred unlock is
\* run wherever an operation ends, and by a crash.
THEOREM CertTypesCorrect == Spec => []TypeOK
<1>1. Init => left \subseteq Names
  BY DEF Init
<1>2. Spec => [](left \subseteq Names)
  BY <1>1, LeftTyped, TypesAlways, PTL DEF Spec
<1> QED BY <1>2, TypesAlways, TypesFollow, PTL

-----------------------------------------------------------------------------
(* What is remembered of the past. *)

Clean      == "purge" \notin met /\ ~failed /\ ~tangled
Noted      == ~tangled => ~Tangled
PurgeAlone == "purge" \notin met =>
                \A p, q \in Actors : p # q /\ Busy(p) /\ work[p].op = "purge" => ~Busy(q)
Alone      == met = {} => \A p, q \in Actors : Busy(p) /\ Busy(q) => p = q
Past       == Noted /\ PurgeAlone /\ Alone

LEMMA Remembered == ASSUME IInv', Remember PROVE Past'
<1>1. Noted'
  BY DEF Remember, Noted
<1>2. ASSUME NEW p \in Actors, NEW q \in Actors, p # q, Busy(p)', Busy(q)', work'[p].op \notin Locked
      PROVE  work'[p].op \in met'
  BY <1>2 DEF Remember
<1>3. PurgeAlone'
  BY <1>2 DEF PurgeAlone, Locked
<1>4. ASSUME NEW p \in Actors, NEW q \in Actors, p # q, Busy(p)', Busy(q)'
      PROVE  work'[p].op \notin Locked \/ work'[q].op \notin Locked
  BY <1>4 DEF IInv, LocalsOK, Holds, BusyAt, Busy
<1>5. Alone'
  BY <1>2, <1>4 DEF Alone
<1> QED BY <1>1, <1>3, <1>5 DEF Past

LEMMA FailedStays == ASSUME Next PROVE ~failed' => ~failed
<1>1. ASSUME NEW p \in Requests, Request(p) PROVE ~failed' => ~failed
  <2>1. ASSUME NEW s, NEW n, NEW ssl, NEW on, Insert(p, s, n, ssl, on) \/ Update(p, s, n, ssl, on)
        PROVE  failed' = failed
    BY <2>1 DEF Insert, Update
  <2>2. ASSUME NEW s, NEW n, DeleteSite(p, s, n) PROVE failed' = failed \/ failed' = TRUE
    BY <2>2 DEF DeleteSite
  <2>3. ASSUME NEW S, DeleteServer(p, S) PROVE failed' = failed
    BY <2>3 DEF DeleteServer
  <2>4. ASSUME NEW op, NEW s, NEW n, Ask(p, op, s, n) PROVE failed' = failed
    BY <2>4 DEF Ask
  <2>5. ASSUME Redeploy(p) PROVE failed' = failed
    BY <2>5 DEF Redeploy
  <2> QED BY <1>1, <2>1, <2>2, <2>3, <2>4, <2>5, RequestForms
<1>2. ASSUME NEW p \in Actors, Continue(p) PROVE failed' = failed
  BY <1>2 DEF Continue, Generate, WriteConf, Reload, UpdateServer, PurgeSites, PurgePairs, Purged,
              Obtain, Refused, WriteCrt, WriteKey, InsertCert, UpdateCert, ActivateSSL,
              Revoke, DeactivateSSL, DropCert, RemovePair
<1>3. ASSUME NEW p \in Actors, Lock(p) PROVE failed' = failed
  BY <1>3 DEF Lock
<1>4. CASE Scan \/ RenewNext
  BY <1>4 DEF Scan, RenewNext
<1>5. CASE Surroundings
  BY <1>5 DEF Surroundings, Age, Crash, Lose, StepFails, DeployFails
<1> QED BY <1>1, <1>2, <1>3, <1>4, <1>5 DEF Next

LEMMA CleanBefore == ASSUME Next PROVE Clean' => Clean /\ ~failed' /\ ~tangled' /\ "purge" \notin met'
<1>1. ~failed' => ~failed
  BY FailedStays
<1>2. Remember
  BY DEF Next
<1>3. met \subseteq met' /\ (tangled => tangled')
  BY <1>2 DEF Remember
<1> QED BY <1>1, <1>3 DEF Clean

LEMMA PastAtFirst == Init => Past
<1> SUFFICES ASSUME Init PROVE Past
  OBVIOUS
<1>1. \A s \in Certs : cert[s].domain = NameOf[s] /\ cert[s].path = NameOf[s]
  BY AtFirst
<1>2. \A s \in Alive : site[s].name = NameOf[s]
  <2>1. PICK born \in Born :
          site = [s \in SiteIds |->
            IF s \in born THEN [name |-> NameOf[s], ssl |-> TRUE, on |-> TRUE] ELSE Unborn]
    BY DEF Init
  <2>2. ASSUME NEW s \in Alive PROVE site[s].name = NameOf[s]
    BY <2>1, <2>2 DEF Alive
  <2> QED BY <2>2
<1>3. \A s, t \in SiteIds : NameOf[s] = NameOf[t] => s = t
  BY CertificatesAssumption DEF IsInjective
<1>4. Certs \subseteq SiteIds /\ Alive \subseteq SiteIds
  BY DEF Certs, Alive
<1>5. ~Tangled
  BY <1>1, <1>2, <1>3, <1>4 DEF Tangled
<1>6. \A p \in Actors : ~Busy(p)
  BY DEF Init, Busy
<1> QED BY <1>5, <1>6 DEF Past, Noted, PurgeAlone, Alone

-----------------------------------------------------------------------------
(* A certificate of the table has its files. *)

Good(s) ==
  /\ crt[cert[s].path] = cert[s].expires /\ key[cert[s].path] = cert[s].expires
  /\ issued[cert[s].expires] = cert[s].domain
  /\ cert[s].expires \notin revoked

AllGood == \A s \in Certs : Good(s)

\* The certificate that a goroutine read, or wrote, is still in the table.
InTable(w) == w.site \in Certs /\ cert[w.site].domain = w.domain
StillThere(w) == InTable(w) /\ cert[w.site].path = w.path

\* What is in order while a goroutine holds the mutex, by where it is.
HolderOK(p) ==
  LET w == work[p]
      l == pc[p]
  IN  /\ l \in {"obtain", "crt", "ssl", "generate", "write", "reload", "revoke"} => AllGood
      /\ l \in {"key", "row"} => \A s \in Certs : cert[s].path # w.path => Good(s)
      /\ l \in {"crt", "key", "row"} => issued[w.pair] = w.domain /\ w.pair \notin revoked
      /\ l \in {"key", "row"} => crt[w.path] = w.pair
      /\ l = "row" => key[w.path] = w.pair
      /\ l \in {"unssl", "drop"} => \A s \in Certs \ {w.site} : Good(s)
      /\ l \in {"obtain", "crt", "key", "row"} /\ w.op = "renew" => StillThere(w)
      /\ l \in {"revoke", "unssl", "drop"} => StillThere(w)
      /\ l = "ssl" => InTable(w)
      /\ l = "files" => AllGood /\ \A s \in Certs : cert[s].path # w.domain

\* The files that a deletion of a server is about to remove are of no certificate.
PurgerOK(p) == pc[p] \in {"purge", "purge pairs"} => \A s \in Certs : cert[s].path \notin work[p].paths

FilesOK ==
  Clean => /\ mutex = Nobody => AllGood
           /\ \A p \in Actors : mutex = p => HolderOK(p)
           /\ \A p \in Actors : PurgerOK(p)

Files == <<cert, crt, key, issued, revoked>>

LEMMA GoodSame == ASSUME UNCHANGED Files PROVE (AllGood' <=> AllGood) /\ Certs' = Certs
BY DEF Files, AllGood, Good, Certs

\* A step of a goroutine that leaves the certificates as they are.
LEMMA FilesSame ==
  ASSUME IInv, FilesOK, NEW p \in Actors, Others(p), Clean' => Clean, UNCHANGED Files,
         mutex' \in {mutex, p, Nobody},
         Clean /\ mutex' = Nobody => AllGood,
         Clean /\ mutex' = p => HolderOK(p)',
         Clean => PurgerOK(p)'
  PROVE  FilesOK'
<1> SUFFICES ASSUME Clean'
             PROVE  /\ mutex' = Nobody => AllGood'
                    /\ \A q \in Actors : mutex' = q => HolderOK(q)'
                    /\ \A q \in Actors : PurgerOK(q)'
  BY DEF FilesOK
<1>1. mutex' = Nobody => AllGood'
  BY GoodSame
<1>2. ASSUME NEW q \in Actors, q # p PROVE HolderOK(q) => HolderOK(q)'
  <2>1. pc'[q] = pc[q] /\ work'[q] = work[q]
    BY <1>2 DEF Others
  <2>2. (AllGood' <=> AllGood) /\ Certs' = Certs /\ UNCHANGED <<cert, crt, key, issued, revoked>>
    BY GoodSame DEF Files
  <2>3. \A s : Good(s)' <=> Good(s)
    BY <2>2 DEF Good
  <2>4. \A w : (InTable(w)' <=> InTable(w)) /\ (StillThere(w)' <=> StillThere(w))
    BY <2>2 DEF InTable, StillThere
  <2> QED BY <2>1, <2>2, <2>3, <2>4 DEF HolderOK
<1>3. ASSUME NEW q \in Actors, mutex' = q PROVE HolderOK(q)'
  <2>1. CASE q = p
    BY <1>3, <2>1
  <2>2. CASE q # p
    <3>1. mutex = q
      BY <1>3, <2>2, NobodyElse
    <3> QED BY <1>2, <2>2, <3>1 DEF FilesOK
  <2> QED BY <2>1, <2>2
<1>4. ASSUME NEW q \in Actors PROVE PurgerOK(q)'
  <2>1. CASE q = p
    BY <2>1
  <2>2. CASE q # p
    <3>1. pc'[q] = pc[q] /\ work'[q] = work[q] /\ Certs' = Certs /\ cert' = cert
      BY <2>2, GoodSame DEF Others, Files
    <3> QED BY <3>1 DEF FilesOK, PurgerOK
  <2> QED BY <2>1, <2>2
<1> QED BY <1>1, <1>3, <1>4

\* A step of the holder of the mutex: nobody deletes a server meanwhile.
LEMMA FilesHeld ==
  ASSUME IInv', Past', NEW p \in Actors, mutex' = p, Clean' => HolderOK(p)'
  PROVE  FilesOK'
<1> SUFFICES ASSUME Clean'
             PROVE  /\ mutex' = Nobody => AllGood'
                    /\ \A q \in Actors : mutex' = q => HolderOK(q)'
                    /\ \A q \in Actors : PurgerOK(q)'
  BY DEF FilesOK
<1>1. mutex' # Nobody
  BY NobodyElse
<1>2. Holds(pc'[p], work'[p])
  BY DEF IInv, LocalsOK
<1>3. ASSUME NEW q \in Actors PROVE PurgerOK(q)'
  <2> SUFFICES ASSUME pc'[q] \in {"purge", "purge pairs"} PROVE FALSE
    BY DEF PurgerOK
  <2>1. work'[q] \in Purges
    BY DEF IInv, LocalsOK, Fits
  <2>2. work'[q].op = "purge" /\ q # p /\ Busy(q)' /\ Busy(p)'
    BY <1>2, <2>1 DEF Purges, Holds, Locked, BusyAt, Busy
  <2> QED BY <2>2 DEF Past, PurgeAlone, Clean
<1> QED BY <1>1, <1>3

\* A step of the one who deletes a server: nobody else does anything meanwhile.
LEMMA FilesPurged ==
  ASSUME IInv', Past', NEW p \in Actors, pc'[p] \in {"purge", "purge pairs", "purged"},
         Clean' => AllGood' /\ PurgerOK(p)'
  PROVE  FilesOK'
<1> SUFFICES ASSUME Clean'
             PROVE  /\ AllGood'
                    /\ \A q \in Actors : mutex' # q
                    /\ \A q \in Actors : PurgerOK(q)'
  BY DEF FilesOK
<1>1. work'[p] \in Purges
  BY DEF IInv, LocalsOK, Fits
<1>2. Busy(p)' /\ work'[p].op = "purge"
  BY <1>1 DEF Busy, Purges
<1>3. \A q \in Actors : q # p => ~Busy(q)'
  BY <1>2 DEF Past, PurgeAlone, Clean
<1>4. ASSUME NEW q \in Actors PROVE mutex' # q
  <2>1. mutex' = q => Holds(pc'[q], work'[q])
    BY DEF IInv, LocalsOK
  <2> QED BY <1>2, <1>3, <2>1 DEF Holds, BusyAt, Busy, Locked
<1>5. ASSUME NEW q \in Actors PROVE PurgerOK(q)'
  BY <1>3 DEF PurgerOK, Busy
<1> QED BY <1>4, <1>5

\* Two certificates have nothing in common.
LEMMA Apart ==
  ASSUME ~Tangled, NEW s \in Certs, NEW t \in Certs, s # t
  PROVE  /\ cert[s].domain # cert[t].domain /\ cert[s].path # cert[t].path
         /\ cert[s].path # cert[t].domain /\ cert[s].domain # cert[t].path
BY DEF Tangled

LEMMA NotTangled == ASSUME Past, Clean PROVE ~Tangled
BY DEF Past, Noted, Clean

LEMMA HolderOf == ASSUME FilesOK, Clean, NEW p \in Actors, mutex = p PROVE HolderOK(p)
BY DEF FilesOK

-----------------------------------------------------------------------------
(* The steps of the holder. *)

LEMMA ObtainFiles ==
  ASSUME IInv, Past', FilesOK, Clean' => Clean, NEW p \in Actors, Obtain(p) PROVE FilesOK'
<1>1. /\ IInv' /\ pc[p] = "obtain" /\ pc'[p] = "crt" /\ mutex = p /\ mutex' = p
      /\ work'[p].pair = Len(issued) + 1 /\ work'[p].op = work[p].op
      /\ work'[p].site = work[p].site /\ work'[p].domain = work[p].domain /\ work'[p].path = work[p].path
      /\ issued'[work'[p].pair] = work'[p].domain
      /\ \A i \in Pair \ {0} : issued'[i] = issued[i]
  BY ObtainStep
<1>2. UNCHANGED <<cert, crt, key, revoked>>
  BY DEF Obtain, rows, pairs
<1>3. Len(issued) + 1 \notin revoked
  <2>1. Len(issued) \in Nat /\ revoked \subseteq Pair
    BY DEF IInv, TablesOK
  <2> QED BY <2>1 DEF Pair
<1>4. ASSUME Clean' PROVE HolderOK(p)'
  <2>1. HolderOK(p) /\ AllGood
    BY <1>1, <1>4, HolderOf DEF HolderOK
  <2>2. Certs' = Certs
    BY <1>2 DEF Certs
  <2>3. AllGood'
    <3> SUFFICES ASSUME NEW s \in Certs PROVE Good(s)'
      BY <2>2 DEF AllGood
    <3>1. Good(s)
      BY <2>1 DEF AllGood
    <3>2. cert[s].expires \in Pair \ {0}
      BY DEF Certs, IInv, TablesOK
    <3> QED BY <1>1, <1>2, <3>1, <3>2 DEF Good
  <2>4. work'[p].op = "renew" => StillThere(work[p])'
    <3>1. work[p].op = "renew" => StillThere(work[p])
      BY <1>1, <2>1 DEF HolderOK
    <3> QED BY <1>1, <1>2, <2>2, <3>1 DEF StillThere, InTable
  <2> QED BY <1>1, <1>2, <1>3, <2>3, <2>4 DEF HolderOK
<1> QED BY <1>1, <1>4, FilesHeld

LEMMA WriteCrtFiles ==
  ASSUME IInv, Past', FilesOK, Clean' => Clean, NEW p \in Actors, WriteCrt(p) PROVE FilesOK'
<1>1. /\ IInv' /\ pc[p] = "crt" /\ pc'[p] = "key" /\ work'[p] = work[p]
      /\ mutex = p /\ mutex' = p /\ work[p] \in Tasks
  BY WriteCrtStep
<1>2. /\ UNCHANGED <<cert, key, issued, revoked>>
      /\ crt' = [crt EXCEPT ![work[p].path] = work[p].pair]
  BY DEF WriteCrt, rows, authority
<1>3. ASSUME Clean' PROVE HolderOK(p)'
  <2>1. HolderOK(p) /\ AllGood
    BY <1>1, <1>3, HolderOf DEF HolderOK
  <2>2. Certs' = Certs
    BY <1>2 DEF Certs
  <2>3. crt \in [Names -> Pair] /\ work[p].path \in Names
    BY <1>1 DEF IInv, TablesOK, Tasks
  <2>4. ASSUME NEW s \in Certs, cert[s].path # work[p].path PROVE Good(s)'
    <3>1. Good(s) /\ cert[s].path \in Names
      BY <2>1 DEF AllGood, Certs, IInv, TablesOK
    <3> QED BY <1>2, <2>3, <2>4, <3>1 DEF Good
  <2>5. crt'[work[p].path] = work[p].pair
    BY <1>2, <2>3
  <2>6. work[p].op = "renew" => StillThere(work[p])'
    BY <1>1, <1>2, <2>1, <2>2 DEF HolderOK, StillThere, InTable
  <2> QED BY <1>1, <1>2, <2>1, <2>2, <2>4, <2>5, <2>6 DEF HolderOK
<1> QED BY <1>1, <1>3, FilesHeld

LEMMA WriteKeyFiles ==
  ASSUME IInv, Past', FilesOK, Clean' => Clean, NEW p \in Actors, WriteKey(p) PROVE FilesOK'
<1>1. /\ IInv' /\ pc[p] = "key" /\ pc'[p] = "row" /\ work'[p] = work[p]
      /\ mutex = p /\ mutex' = p /\ work[p] \in Tasks
  BY WriteKeyStep
<1>2. /\ UNCHANGED <<cert, crt, issued, revoked>>
      /\ key' = [key EXCEPT ![work[p].path] = work[p].pair]
  BY DEF WriteKey, rows, authority
<1>3. ASSUME Clean' PROVE HolderOK(p)'
  <2>1. HolderOK(p)
    BY <1>1, <1>3, HolderOf
  <2>2. Certs' = Certs
    BY <1>2 DEF Certs
  <2>3. key \in [Names -> Pair] /\ work[p].path \in Names
    BY <1>1 DEF IInv, TablesOK, Tasks
  <2>4. ASSUME NEW s \in Certs, cert[s].path # work[p].path PROVE Good(s)'
    <3>1. Good(s) /\ cert[s].path \in Names
      BY <1>1, <2>1, <2>4 DEF HolderOK, Certs, IInv, TablesOK
    <3> QED BY <1>2, <2>3, <2>4, <3>1 DEF Good
  <2>5. key'[work[p].path] = work[p].pair
    BY <1>2, <2>3
  <2>6. work[p].op = "renew" => StillThere(work[p])'
    BY <1>1, <1>2, <2>1, <2>2 DEF HolderOK, StillThere, InTable
  <2> QED BY <1>1, <1>2, <2>1, <2>2, <2>4, <2>5, <2>6 DEF HolderOK
<1> QED BY <1>1, <1>3, FilesHeld

\* The row that is written makes the pair that was written a good one.
LEMMA RowFiles ==
  ASSUME IInv, Past', NEW p \in Actors, pc[p] = "row", HolderOK(p), work[p] \in Tasks, Clean',
         NEW c \in [domain : Names, path : Names, expires : Pair \ {0}],
         cert' = [cert EXCEPT ![work[p].site] = c],
         c.path = work[p].path, c.domain = work[p].domain, c.expires = work[p].pair,
         UNCHANGED <<crt, key, issued, revoked>>, work'[p] = work[p]
  PROVE  AllGood' /\ InTable(work[p])'
<1> DEFINE s == work[p].site
<1>1. s \in SiteIds /\ cert \in [SiteIds -> [domain : Names, path : Names, expires : Pair \ {0}] \cup {NoRow}]
  BY DEF Tasks, IInv, TablesOK
<1>2. cert'[s] = c /\ \A t \in SiteIds \ {s} : cert'[t] = cert[t]
  BY <1>1
<1>3. c # NoRow
  <2>1. c \in [domain : Names, path : Names, expires : Nat]
    BY DEF IInv, TablesOK, Pair
  <2> QED BY <2>1, CertificatesAssumption
<1>4. s \in Certs' /\ Certs' = Certs \cup {s}
  BY <1>1, <1>2, <1>3 DEF Certs
<1>5. \A t : t = s => Good(t)'
  BY <1>2 DEF Good, HolderOK
<1>6. ASSUME NEW t \in Certs', t # s PROVE Good(t)'
  <2>1. t \in Certs /\ cert'[t] = cert[t]
    BY <1>2, <1>4, <1>6 DEF Certs
  <2>2. cert'[t].path # cert'[s].path
    <3>1. ~Tangled'
      BY DEF Past, Noted, Clean
    <3>2. s \in Certs' /\ t \in Certs' /\ s # t
      BY <1>4, <1>6
    <3>3. {cert'[s].domain, cert'[s].path} \cap {cert'[t].domain, cert'[t].path} = {}
      BY <3>1, <3>2 DEF Tangled
    <3> HIDE DEF s
    <3> QED BY <3>2, <3>3
  <2>3. Good(t)
    BY <1>2, <2>1, <2>2 DEF HolderOK
  <2> QED BY <2>1, <2>3 DEF Good
<1>7. InTable(work[p])'
  BY <1>2, <1>4 DEF InTable
<1> QED BY <1>5, <1>6, <1>7 DEF AllGood

LEMMA InsertCertFiles ==
  ASSUME IInv, Past', FilesOK, Clean' => Clean, NEW p \in Actors, InsertCert(p) PROVE FilesOK'
<1>1. /\ IInv' /\ pc[p] = "row" /\ pc'[p] = "ssl" /\ work'[p] = work[p]
      /\ mutex = p /\ mutex' = p /\ work[p] \in Tasks /\ work[p].op = "issue"
      /\ work[p].path = work[p].domain
      /\ cert' = [cert EXCEPT ![work[p].site] =
           [domain |-> IF work[p].site \in Certs THEN @.domain ELSE work[p].domain,
            path |-> work[p].path, expires |-> work[p].pair]]
  BY InsertCertStep
<1>2. UNCHANGED <<crt, key, issued, revoked>>
  BY DEF InsertCert, pairs, authority
<1>3. ASSUME Clean' PROVE HolderOK(p)'
  <2> DEFINE s == work[p].site
             c == [domain |-> IF s \in Certs THEN cert[s].domain ELSE work[p].domain,
                   path |-> work[p].path, expires |-> work[p].pair]
  <2>1. HolderOK(p)
    BY <1>1, <1>3, HolderOf
  <2>2. cert' = [cert EXCEPT ![s] = c]
    BY <1>1
  <2>3. c \in [domain : Names, path : Names, expires : Pair \ {0}] /\ s \in SiteIds
    <3>1. work[p].pair \in Pair \ {0}
      BY <1>1 DEF IInv, PairsOK
    <3>2. s \in SiteIds /\ work[p].path \in Names /\ work[p].domain \in Names
      BY <1>1 DEF Tasks
    <3>3. s \in Certs => cert[s].domain \in Names
      BY DEF Certs, IInv, TablesOK
    <3> QED BY <3>1, <3>2, <3>3
  <2>4. c.path = work[p].path /\ c.expires = work[p].pair
    OBVIOUS
  <2> HIDE DEF c, s
  <2>5. c.domain = work[p].domain
    <3>1. cert'[s] = c
      BY <2>2, <2>3 DEF IInv, TablesOK
    <3>2. s \in Certs'
      <4>1. c \in [domain : Names, path : Names, expires : Nat]
        BY <2>3 DEF IInv, TablesOK, Pair
      <4> QED BY <2>3, <3>1, <4>1, CertificatesAssumption DEF Certs
    <3>3. ~Tangled'
      BY <1>3 DEF Past, Noted, Clean
    <3>4. cert'[s].domain = cert'[s].path
      BY <3>2, <3>3 DEF Tangled
    <3> QED BY <1>1, <2>4, <3>1, <3>4
  <2>6. AllGood' /\ InTable(work[p])'
    BY <1>1, <1>2, <1>3, <2>1, <2>2, <2>3, <2>4, <2>5, RowFiles DEF s
  <2> QED BY <1>1, <2>6 DEF HolderOK
<1> QED BY <1>1, <1>3, FilesHeld

LEMMA UpdateCertFiles ==
  ASSUME IInv, Past', FilesOK, Clean' => Clean, NEW p \in Actors, UpdateCert(p) PROVE FilesOK'
<1>1. /\ IInv' /\ Others(p) /\ pc[p] = "row" /\ mutex = p /\ work[p] \in Tasks /\ work[p].op = "renew"
      /\ \/ Ended(p) /\ cert' = cert
            /\ ~(work[p].site \in Certs /\ cert[work[p].site].domain = work[p].domain)
         \/ /\ pc'[p] = "ssl" /\ work'[p] = work[p] /\ mutex' = p
            /\ work[p].site \in Certs /\ cert[work[p].site].domain = work[p].domain
            /\ cert' = [cert EXCEPT ![work[p].site] = [cert[work[p].site] EXCEPT
                          !.path = work[p].path, !.expires = work[p].pair]]
  BY UpdateCertStep
<1>2. UNCHANGED <<crt, key, issued, revoked>>
  BY DEF UpdateCert, pairs, authority
<1>3. Clean' => HolderOK(p) /\ InTable(work[p])
  <2>1. Clean' => HolderOK(p)
    BY <1>1, HolderOf
  <2> QED BY <1>1, <2>1 DEF HolderOK, StillThere
<1>4. CASE ~InTable(work[p])
  <2>1. ~Clean'
    BY <1>3, <1>4
  <2> QED BY <2>1 DEF FilesOK
<1>5. CASE InTable(work[p])
  <2> DEFINE s == work[p].site
             c == [cert[s] EXCEPT !.path = work[p].path, !.expires = work[p].pair]
  <2>1. /\ pc'[p] = "ssl" /\ work'[p] = work[p] /\ mutex' = p /\ cert' = [cert EXCEPT ![s] = c]
    BY <1>1, <1>5 DEF InTable
  <2>2. ASSUME Clean' PROVE HolderOK(p)'
    <3>1. cert[s] \in [domain : Names, path : Names, expires : Pair \ {0}]
      BY <1>5 DEF InTable, Certs, IInv, TablesOK
    <3>2. work[p].pair \in Pair \ {0} /\ work[p].path \in Names
      BY <1>1 DEF IInv, PairsOK, Tasks
    <3>3. /\ c \in [domain : Names, path : Names, expires : Pair \ {0}]
          /\ c.path = work[p].path /\ c.domain = cert[s].domain /\ c.expires = work[p].pair
      BY <3>1, <3>2
    <3>4. c.domain = work[p].domain
      BY <1>5, <3>3 DEF InTable
    <3> HIDE DEF c
    <3>5. AllGood' /\ InTable(work[p])'
      BY <1>1, <1>2, <1>3, <2>1, <2>2, <3>3, <3>4, RowFiles
    <3> QED BY <2>1, <3>5 DEF HolderOK
  <2> QED BY <1>1, <2>1, <2>2, FilesHeld
<1> QED BY <1>4, <1>5

LEMMA ActivateSSLFiles ==
  ASSUME IInv, Past', FilesOK, Clean' => Clean, NEW p \in Actors, ActivateSSL(p) PROVE FilesOK'
<1>1. IInv' /\ pc[p] = "ssl" /\ pc'[p] = "generate" /\ mutex = p /\ mutex' = p
  BY ActivateSSLStep
<1>2. UNCHANGED Files
  BY DEF ActivateSSL, pairs, authority, Files
<1>3. Clean' => HolderOK(p)'
  <2>1. Clean' => HolderOK(p)
    BY <1>1, HolderOf
  <2> QED BY <1>1, <1>2, <2>1, GoodSame DEF HolderOK
<1> QED BY <1>1, <1>3, FilesHeld

LEMMA RevokeFiles ==
  ASSUME IInv, Past, Past', FilesOK, Clean' => Clean, NEW p \in Actors, Revoke(p) PROVE FilesOK'
<1>1. /\ IInv' /\ Others(p) /\ pc[p] = "revoke" /\ mutex = p /\ work[p] \in Tasks
      /\ \/ Ended(p) /\ revoked' = revoked
         \/ /\ pc'[p] = "unssl" /\ work'[p] = work[p] /\ mutex' = p
            /\ revoked' = revoked \cup ({crt[work[p].path]} \ {0})
  BY RevokeStep
<1>2. UNCHANGED <<cert, crt, key, issued>>
  BY DEF Revoke, rows, pairs
<1>3. Clean => HolderOK(p) /\ AllGood /\ StillThere(work[p])
  <2>1. Clean => HolderOK(p)
    BY <1>1, HolderOf
  <2> QED BY <1>1, <2>1 DEF HolderOK
<1>4. CASE Ended(p) /\ revoked' = revoked
  <2>1. UNCHANGED Files /\ mutex' = Nobody
    BY <1>1, <1>2, <1>4 DEF Files, Ended
  <2>2. PurgerOK(p)'
    BY <1>4 DEF Ended, PurgerOK
  <2> QED BY <1>1, <1>3, <1>4, <2>1, <2>2, FilesSame, NobodyElse
<1>5. CASE /\ pc'[p] = "unssl" /\ work'[p] = work[p] /\ mutex' = p
           /\ revoked' = revoked \cup ({crt[work[p].path]} \ {0})
  <2> DEFINE s == work[p].site
  <2>1. ASSUME Clean' PROVE HolderOK(p)'
    <3>1. HolderOK(p) /\ AllGood /\ StillThere(work[p]) /\ ~Tangled
      BY <1>3, <2>1, NotTangled
    <3>2. s \in Certs /\ cert[s].domain = work[p].domain /\ cert[s].path = work[p].path
      BY <3>1 DEF StillThere, InTable
    <3>3. crt[work[p].path] = cert[s].expires /\ issued[cert[s].expires] = cert[s].domain
      BY <3>1, <3>2 DEF AllGood, Good
    <3>4. Certs' = Certs
      BY <1>2 DEF Certs
    <3>5. ASSUME NEW t \in Certs \ {s} PROVE Good(t)'
      <4>1. Good(t)
        BY <3>1 DEF AllGood
      <4>2. cert[t].domain # cert[s].domain
        BY <3>1, <3>2, <3>5, Apart
      <4>3. cert[t].expires # crt[work[p].path]
        BY <3>3, <4>1, <4>2 DEF Good
      <4> QED BY <1>2, <1>5, <4>1, <4>3 DEF Good
    <3>6. StillThere(work[p])'
      BY <1>2, <1>5, <3>1, <3>4 DEF StillThere, InTable
    <3> QED BY <1>5, <3>4, <3>5, <3>6 DEF HolderOK
  <2> QED BY <1>1, <1>5, <2>1, FilesHeld
<1> QED BY <1>1, <1>4, <1>5

LEMMA DeactivateSSLFiles ==
  ASSUME IInv, Past', FilesOK, Clean' => Clean, NEW p \in Actors, DeactivateSSL(p) PROVE FilesOK'
<1>1. IInv' /\ pc[p] = "unssl" /\ pc'[p] = "drop" /\ work'[p] = work[p] /\ mutex = p /\ mutex' = p
  BY DeactivateSSLStep
<1>2. UNCHANGED Files
  BY DEF DeactivateSSL, pairs, authority, Files
<1>3. ASSUME Clean' PROVE HolderOK(p)'
  <2>1. HolderOK(p)
    BY <1>1, <1>3, HolderOf
  <2>2. Certs' = Certs /\ \A s : Good(s)' <=> Good(s)
    BY <1>2 DEF Files, Certs, Good
  <2>3. StillThere(work[p])'
    BY <1>1, <1>2, <2>1, <2>2 DEF HolderOK, StillThere, InTable, Files
  <2> QED BY <1>1, <2>1, <2>2, <2>3 DEF HolderOK
<1> QED BY <1>1, <1>3, FilesHeld

LEMMA DropCertFiles ==
  ASSUME IInv, Past, Past', FilesOK, Clean' => Clean, NEW p \in Actors, DropCert(p) PROVE FilesOK'
<1>1. /\ IInv' /\ pc[p] = "drop" /\ pc'[p] = "files" /\ work'[p] = work[p]
      /\ mutex = p /\ mutex' = p /\ work[p] \in Tasks
      /\ cert' = [cert EXCEPT ![work[p].site] = NoRow]
  BY DropCertStep
<1>2. UNCHANGED <<crt, key, issued, revoked>>
  BY DEF DropCert, pairs, authority
<1>3. ASSUME Clean' PROVE HolderOK(p)'
  <2> DEFINE s == work[p].site
  <2>1. HolderOK(p) /\ ~Tangled
    BY <1>1, <1>3, HolderOf, NotTangled
  <2>2. s \in Certs /\ cert[s].domain = work[p].domain
    BY <1>1, <2>1 DEF HolderOK, StillThere, InTable
  <2>3. ASSUME NEW t \in Certs' PROVE t \in Certs /\ t # s /\ cert'[t] = cert[t]
    BY <1>1 DEF Certs, IInv, TablesOK
  <2>4. ASSUME NEW t \in Certs' PROVE Good(t)' /\ cert'[t].path # work[p].domain
    <3>1. t \in Certs /\ t # s /\ cert'[t] = cert[t]
      BY <2>3
    <3>2. Good(t)
      BY <1>1, <2>1, <3>1 DEF HolderOK
    <3>3. cert[t].path # cert[s].domain
      BY <2>1, <2>2, <3>1, Apart
    <3> QED BY <1>2, <2>2, <3>1, <3>2, <3>3 DEF Good
  <2> QED BY <1>1, <2>4 DEF HolderOK, AllGood
<1> QED BY <1>1, <1>3, FilesHeld

LEMMA RemovePairFiles ==
  ASSUME IInv, Past', FilesOK, Clean' => Clean, NEW p \in Actors, RemovePair(p) PROVE FilesOK'
<1>1. /\ IInv' /\ pc[p] = "files" /\ pc'[p] = "generate" /\ mutex = p /\ mutex' = p /\ work[p] \in Tasks
  BY RemovePairStep
<1>2. /\ UNCHANGED <<cert, issued, revoked>>
      /\ crt' = [crt EXCEPT ![work[p].domain] = 0] /\ key' = [key EXCEPT ![work[p].domain] = 0]
  BY DEF RemovePair, rows, authority
<1>3. ASSUME Clean' PROVE HolderOK(p)'
  <2>1. HolderOK(p)
    BY <1>1, <1>3, HolderOf
  <2>2. Certs' = Certs
    BY <1>2 DEF Certs
  <2>3. ASSUME NEW s \in Certs PROVE Good(s)'
    <3>1. Good(s) /\ cert[s].path # work[p].domain /\ cert[s].path \in Names
      BY <1>1, <2>1 DEF HolderOK, AllGood, Certs, IInv, TablesOK
    <3>2. crt'[cert[s].path] = crt[cert[s].path] /\ key'[cert[s].path] = key[cert[s].path]
      BY <1>2, <3>1 DEF IInv, TablesOK
    <3> QED BY <1>2, <3>1, <3>2 DEF Good
  <2>4. AllGood'
    BY <2>2, <2>3 DEF AllGood
  <2> QED BY <1>1, <2>4 DEF HolderOK
<1> QED BY <1>1, <1>3, FilesHeld

-----------------------------------------------------------------------------
(* The steps that leave the certificates as they are. *)

\* A request that has no mutex, and takes none.
LEMMA FilesApart ==
  ASSUME IInv, IInv', FilesOK, NEW p \in Actors, Others(p), Clean' => Clean, UNCHANGED <<Files, mutex>>,
         ~Holds(pc'[p], work'[p]), pc'[p] \notin {"purge", "purge pairs"}
  PROVE  FilesOK'
<1>1. mutex' # p
  BY DEF IInv, LocalsOK
<1>2. PurgerOK(p)'
  BY DEF PurgerOK
<1>3. Clean /\ mutex' = Nobody => AllGood
  BY DEF FilesOK
<1> QED BY <1>1, <1>2, <1>3, FilesSame

\* A goroutine that goes on deploying keeps the mutex, if it has it.
LEMMA FilesDeployed ==
  ASSUME IInv, IInv', FilesOK, NEW p \in Actors, Others(p), Clean' => Clean, UNCHANGED Files,
         pc[p] \in {"generate", "write", "reload", "saved", "purged", "obtain", "lock"},
         \/ Ended(p)
         \/ pc'[p] \in {"generate", "write", "reload"} /\ mutex' = mutex
  PROVE  FilesOK'
<1>1. mutex = p /\ Clean => AllGood
  <2>1. mutex = p => pc[p] \in {"generate", "write", "reload", "obtain"}
    BY DEF IInv, LocalsOK, Holds, BusyAt, Fits, Locked, Purges
  <2> QED BY <2>1, HolderOf DEF HolderOK
<1>2. PurgerOK(p)'
  BY DEF PurgerOK, Ended
<1>3. mutex = Nobody /\ Clean => AllGood
  BY DEF FilesOK
<1>4. CASE Ended(p)
  <2>1. mutex' = IF mutex = p THEN Nobody ELSE mutex
    BY <1>4 DEF Ended
  <2>2. mutex' # p
    BY <2>1, NobodyElse
  <2> QED BY <1>1, <1>2, <1>3, <2>1, <2>2, FilesSame
<1>5. CASE pc'[p] \in {"generate", "write", "reload"} /\ mutex' = mutex
  <2>1. Clean /\ mutex' = p => HolderOK(p)'
    BY <1>1, <1>5, GoodSame DEF HolderOK
  <2>2. Clean /\ mutex' = Nobody => AllGood
    BY <1>3, <1>5
  <2> QED BY <1>2, <1>5, <2>1, <2>2, FilesSame
<1> QED BY <1>4, <1>5

LEMMA NextNameFiles ==
  ASSUME IInv, IInv', FilesOK, NEW p \in Actors, Clean' => Clean, UNCHANGED Files,
         pc[p] \in {"generate", "write", "reload"}, NextName(p)
  PROVE  FilesOK'
<1>1. Others(p) /\ (Ended(p) \/ (pc'[p] = "generate" /\ mutex' = mutex))
  BY NextNameLocals DEF IInv
<1> QED BY <1>1, FilesDeployed

LEMMA GenerateFiles ==
  ASSUME IInv, IInv', FilesOK, NEW p \in Actors, Clean' => Clean, Generate(p)
  PROVE  FilesOK'
<1>1. pc[p] = "generate" /\ UNCHANGED Files
  BY DEF Generate, Files, rows, pairs, authority
<1>2. CASE NextName(p)
  BY <1>1, <1>2, NextNameFiles
<1>3. CASE /\ plan' = [plan EXCEPT ![p] = Rendered(Head(deploys[p]))]
           /\ Goto(p, "write") /\ UNCHANGED <<mutex, work, deploys>>
  <2>1. Others(p) /\ pc'[p] = "write" /\ mutex' = mutex
    BY <1>3 DEF Goto, Others, IInv, LocalsOK
  <2> QED BY <1>1, <2>1, FilesDeployed
<1> QED BY <1>2, <1>3 DEF Generate

LEMMA DeploymentFiles ==
  ASSUME IInv, IInv', FilesOK, NEW p \in Actors, Clean' => Clean,
         WriteConf(p) \/ Reload(p) \/ UpdateServer(p) \/ Purged(p) \/ Refused(p)
  PROVE  FilesOK'
<1>1. UNCHANGED Files
  BY DEF WriteConf, Reload, UpdateServer, Purged, Refused, Files, rows, pairs, authority
<1>2. CASE WriteConf(p)
  <2>1. Others(p) /\ pc[p] = "write" /\ pc'[p] = "reload" /\ mutex' = mutex
    BY <1>2 DEF WriteConf, Goto, Others, IInv, LocalsOK
  <2> QED BY <1>1, <2>1, FilesDeployed
<1>3. CASE Reload(p)
  <2>1. pc[p] = "reload" /\ NextName(p)
    BY <1>3 DEF Reload
  <2> QED BY <1>1, <2>1, NextNameFiles
<1>4. CASE UpdateServer(p)
  <2>1. pc[p] = "saved" /\ mutex' = mutex
    BY <1>4 DEF UpdateServer
  <2>2. Others(p) /\ pc'[p] = "generate"
    BY <1>4, UpdateServerStep
  <2> QED BY <1>1, <2>1, <2>2, FilesDeployed
<1>5. CASE Purged(p)
  BY <1>1, <1>5, PurgedStep, FilesDeployed
<1>6. CASE Refused(p)
  BY <1>1, <1>6, RefusedStep, FilesDeployed
<1> QED BY <1>2, <1>3, <1>4, <1>5, <1>6

LEMMA LockFiles ==
  ASSUME IInv, Past', FilesOK, NEW p \in Actors, Clean' => Clean, Lock(p)
  PROVE  FilesOK'
<1>1. UNCHANGED Files
  BY DEF Lock, Files, rows, pairs, authority
<1>2. /\ IInv' /\ Others(p) /\ pc[p] = "lock" /\ mutex = Nobody
      /\ \/ Ended(p)
         \/ /\ mutex' = p /\ work'[p] \in Tasks /\ work'[p].op \in Locked
            /\ pc'[p] = IF work'[p].op = "delete" THEN "revoke" ELSE "obtain"
            /\ work'[p].op # "issue" =>
                 /\ work'[p].site \in Certs
                 /\ cert[work'[p].site].domain = work'[p].domain
                 /\ cert[work'[p].site].path = work'[p].path
  BY LockStep
<1>3. CASE Ended(p)
  BY <1>1, <1>2, <1>3, FilesDeployed
<1>4. CASE ~Ended(p)
  <2>1. ASSUME Clean' PROVE HolderOK(p)'
    <3>1. AllGood' /\ Certs' = Certs /\ cert' = cert
      BY <1>1, <1>2, <2>1, GoodSame DEF FilesOK, Files
    <3>2. work'[p].op # "issue" => StillThere(work[p])'
      BY <1>2, <1>4, <3>1 DEF StillThere, InTable
    <3>3. work'[p].op \in {"renew", "delete"} => work'[p].op # "issue"
      OBVIOUS
    <3>4. pc'[p] = "revoke" => work'[p].op = "delete"
      BY <1>2, <1>4
    <3>5. pc'[p] \in {"obtain", "revoke"}
      BY <1>2, <1>4
    <3> QED BY <3>1, <3>2, <3>3, <3>4, <3>5 DEF HolderOK
  <2> QED BY <1>2, <1>4, <2>1, FilesHeld
<1> QED BY <1>3, <1>4

LEMMA SavesFiles ==
  ASSUME IInv, IInv', FilesOK, NEW p \in Actors, Clean' => Clean,
         NEW s \in SiteIds, NEW n \in Names, NEW ssl \in BOOLEAN, NEW on \in BOOLEAN,
         Insert(p, s, n, ssl, on) \/ Update(p, s, n, ssl, on) \/ DeleteSite(p, s, n) \/ Redeploy(p)
  PROVE  FilesOK'
<1>1. UNCHANGED <<Files, mutex>>
  BY DEF Insert, Update, DeleteSite, Redeploy, Files, rows, pairs, authority
<1>2. /\ Others(p) /\ pc'[p] \in {"generate", "saved"}
      /\ work'[p] \in {[op |-> "save"], [op |-> "redeploy"]}
  <2>1. CASE Insert(p, s, n, ssl, on)
    BY <2>1, InsertStep
  <2>2. CASE Update(p, s, n, ssl, on)
    BY <2>2, UpdateStep
  <2>3. CASE DeleteSite(p, s, n)
    BY <2>3, DeleteSiteStep
  <2>4. CASE Redeploy(p)
    BY <2>4, RedeployStep
  <2> QED BY <2>1, <2>2, <2>3, <2>4
<1>3. work'[p].op \in {"save", "redeploy"}
  <2>1. CASE work'[p] = [op |-> "save"]
    BY <2>1
  <2>2. CASE work'[p] = [op |-> "redeploy"]
    BY <2>2
  <2> QED BY <1>2, <2>1, <2>2, Zenon
<1>4. ~Holds(pc'[p], work'[p])
  BY <1>3 DEF Holds, Locked
<1> QED BY <1>1, <1>2, <1>4, FilesApart

LEMMA WaitingFiles ==
  ASSUME IInv, IInv', FilesOK, NEW p \in Actors, Clean' => Clean, Others(p),
         UNCHANGED <<Tables, mutex>>, pc'[p] \in {"idle", "next", "lock"}
  PROVE  FilesOK'
<1>1. UNCHANGED <<Files, mutex>>
  BY DEF Tables, Files
<1>2. ~Holds(pc'[p], work'[p])
  BY DEF Holds, BusyAt
<1> QED BY <1>1, <1>2, FilesApart

-----------------------------------------------------------------------------
(* The deletion of a server. *)

LEMMA DeleteServerFiles ==
  ASSUME IInv, Past, Past', FilesOK, NEW p \in Actors, Clean' => Clean, NEW v, DeleteServer(p, v)
  PROVE  FilesOK'
<1> DEFINE its == {s \in Alive : ServerOf[s] = v}
<1>1. /\ IInv' /\ Others(p) /\ pc'[p] = "purge" /\ work'[p] \in Purges
      /\ work'[p] = [op |-> "purge", sites |-> {site[s].name : s \in its},
                     paths |-> {cert[s].path : s \in its \cap Certs}]
  BY DeleteServerStep
<1>2. /\ cert' = [s \in SiteIds |-> IF s \in its THEN NoRow ELSE cert[s]]
      /\ UNCHANGED <<crt, key, issued, revoked, mutex>>
  BY DEF DeleteServer, pairs, authority
<1>3. work'[p].paths = {cert[s].path : s \in its \cap Certs}
  BY <1>1
<1>4. ASSUME Clean' PROVE AllGood' /\ PurgerOK(p)'
  <2>1. \A q \in Actors : mutex' # q
    <3>1. Busy(p)' /\ work'[p].op = "purge"
      BY <1>1 DEF Busy
    <3>2. \A q \in Actors : q # p => ~Busy(q)'
      BY <1>4, <3>1 DEF Past, PurgeAlone, Clean
    <3>3. \A q \in Actors : mutex' = q => Holds(pc'[q], work'[q])
      BY <1>1 DEF IInv, LocalsOK
    <3> QED BY <3>1, <3>2, <3>3 DEF Holds, BusyAt, Busy, Locked
  <2>2. mutex = Nobody
    BY <1>2, <2>1 DEF IInv, LocalsOK
  <2>3. AllGood /\ ~Tangled
    BY <1>4, <2>2, NotTangled DEF FilesOK
  <2> HIDE DEF its
  <2>4. ASSUME NEW s \in Certs' PROVE s \in Certs /\ s \notin its /\ cert'[s] = cert[s]
    BY <1>2 DEF Certs
  <2>5. ASSUME NEW s \in Certs' PROVE Good(s)'
    <3>1. Good(s) /\ cert'[s] = cert[s]
      BY <2>3, <2>4 DEF AllGood
    <3> QED BY <1>2, <3>1 DEF Good
  <2>6. ASSUME NEW s \in Certs' PROVE cert'[s].path \notin work'[p].paths
    <3>1. s \in Certs /\ s \notin its /\ cert'[s] = cert[s]
      BY <2>4
    <3>2. \A t \in its \cap Certs : cert[s].path # cert[t].path
      BY <2>3, <3>1, Apart
    <3> QED BY <1>3, <3>1, <3>2
  <2> QED BY <2>5, <2>6 DEF AllGood, PurgerOK
<1> QED BY <1>1, <1>4, FilesPurged

LEMMA PurgeSitesFiles ==
  ASSUME IInv, FilesOK, NEW p \in Actors, Clean' => Clean, PurgeSites(p)
  PROVE  FilesOK'
<1>1. /\ IInv' /\ Others(p) /\ pc[p] = "purge" /\ pc'[p] = "purge pairs"
      /\ work'[p] \in Purges /\ work'[p].paths = work[p].paths
  BY PurgeSitesStep
<1>2. UNCHANGED <<Files, mutex>>
  BY DEF PurgeSites, Files, rows, pairs, authority
<1>3. work'[p].op = "purge"
  BY <1>1 DEF Purges
<1>4. mutex' # p
  BY <1>1, <1>3 DEF IInv, LocalsOK, Holds, Locked
<1>5. Clean => PurgerOK(p)'
  <2>1. Certs' = Certs /\ cert' = cert
    BY <1>2, GoodSame DEF Files
  <2> QED BY <1>1, <2>1 DEF FilesOK, PurgerOK
<1>6. Clean /\ mutex' = Nobody => AllGood
  BY <1>2 DEF FilesOK
<1> QED BY <1>1, <1>2, <1>4, <1>5, <1>6, FilesSame

LEMMA PurgePairsFiles ==
  ASSUME IInv, Past', FilesOK, NEW p \in Actors, Clean' => Clean, PurgePairs(p)
  PROVE  FilesOK'
<1>1. /\ IInv' /\ Others(p) /\ pc[p] = "purge pairs" /\ pc'[p] = "purged"
      /\ work[p] \in Purges /\ work'[p] = work[p]
  BY PurgePairsStep
<1>2. /\ crt' = [n \in Names |-> IF n \in work[p].paths THEN 0 ELSE crt[n]]
      /\ key' = [n \in Names |-> IF n \in work[p].paths THEN 0 ELSE key[n]]
      /\ UNCHANGED <<cert, issued, revoked, mutex>>
  BY DEF PurgePairs, rows, authority
<1>3. ASSUME Clean' PROVE AllGood'
  <2>1. \A q \in Actors : mutex' # q
    <3>1. Busy(p)' /\ work'[p].op = "purge"
      BY <1>1 DEF Busy, Purges
    <3>2. \A q \in Actors : q # p => ~Busy(q)'
      BY <1>3, <3>1 DEF Past, PurgeAlone, Clean
    <3>3. \A q \in Actors : mutex' = q => Holds(pc'[q], work'[q])
      BY <1>1 DEF IInv, LocalsOK
    <3> QED BY <3>1, <3>2, <3>3 DEF Holds, BusyAt, Busy, Locked
  <2>2. mutex = Nobody
    BY <1>2, <2>1 DEF IInv, LocalsOK
  <2>3. AllGood /\ PurgerOK(p)
    BY <1>3, <2>2 DEF FilesOK
  <2>4. Certs' = Certs
    BY <1>2 DEF Certs
  <2>5. ASSUME NEW s \in Certs PROVE Good(s)'
    <3>1. Good(s) /\ cert[s].path \in Names /\ cert[s].path \notin work[p].paths
      BY <1>1, <2>3 DEF AllGood, PurgerOK, Certs, IInv, TablesOK
    <3> QED BY <1>2, <3>1 DEF Good
  <2> QED BY <2>4, <2>5 DEF AllGood
<1>4. PurgerOK(p)'
  BY <1>1 DEF PurgerOK
<1> QED BY <1>1, <1>3, <1>4, FilesPurged

-----------------------------------------------------------------------------
(* All steps. *)

LEMMA AroundFiles ==
  ASSUME FilesOK, Clean' => Clean, UNCHANGED <<Files, mutex, pc, work>>
  PROVE  FilesOK'
<1>1. (AllGood' <=> AllGood) /\ Certs' = Certs
  BY GoodSame
<1>2. UNCHANGED <<cert, crt, key, issued, revoked, mutex, pc, work>>
  BY DEF Files
<1>3. \A s : Good(s)' <=> Good(s)
  BY <1>2 DEF Good
<1>4. \A w : (InTable(w)' <=> InTable(w)) /\ (StillThere(w)' <=> StillThere(w))
  BY <1>1, <1>2 DEF InTable, StillThere
<1>5. ASSUME NEW p \in Actors PROVE (HolderOK(p) => HolderOK(p)') /\ (PurgerOK(p) => PurgerOK(p)')
  BY <1>1, <1>2, <1>3, <1>4 DEF HolderOK, PurgerOK
<1> QED BY <1>1, <1>2, <1>5 DEF FilesOK

LEMMA NextFiles == IInv /\ Past /\ FilesOK /\ [Next]_vars => FilesOK'
<1> SUFFICES ASSUME IInv, Past, FilesOK, [Next]_vars PROVE FilesOK'
  OBVIOUS
<1>1. IInv'
  BY NextTypes
<1>2. CASE UNCHANGED vars
  <2>1. UNCHANGED <<Files, mutex, pc, work>> /\ (Clean' => Clean)
    BY <1>2 DEF vars, Files, Clean, rows, pairs, authority, locals, past
  <2> QED BY <2>1, AroundFiles
<1>3. CASE Next
  <2>1. Past' /\ (Clean' => Clean /\ ~failed')
    <3>1. Past'
      BY <1>1, <1>3, Remembered DEF Next
    <3> QED BY <1>3, <3>1, CleanBefore
  <2>2. ASSUME NEW p \in Requests, Request(p) PROVE FilesOK'
    <3>a. p \in Actors
      BY DEF Actors
    <3>1. ASSUME NEW s \in SiteIds, NEW n \in Names, NEW ssl \in BOOLEAN, NEW on \in BOOLEAN,
                 Insert(p, s, n, ssl, on) \/ Update(p, s, n, ssl, on)
          PROVE  FilesOK'
      BY <1>1, <2>1, <3>a, <3>1, SavesFiles
    <3>2. ASSUME NEW s \in SiteIds, NEW n \in Names, DeleteSite(p, s, n) PROVE FilesOK'
      <4>1. TRUE \in BOOLEAN
        OBVIOUS
      <4> QED BY <1>1, <2>1, <3>a, <3>2, <4>1, SavesFiles
    <3>3. ASSUME NEW v, DeleteServer(p, v) PROVE FilesOK'
      BY <2>1, <3>a, <3>3, DeleteServerFiles
    <3>4. ASSUME NEW op \in Locked, NEW s \in SiteIds, NEW n \in Names \cup {site[s].name}, Ask(p, op, s, n)
        PROVE  FilesOK'
      <4>1. Others(p) /\ pc'[p] = "lock" /\ UNCHANGED <<Tables, mutex>>
        BY <3>a, <3>4, AskStep
      <4> QED BY <1>1, <2>1, <3>a, <4>1, WaitingFiles
    <3>5. CASE Redeploy(p)
      <4>1. PICK s : s \in SiteIds
        BY <3>5 DEF Redeploy, Alive
      <4>2. NameOf[s] \in Names /\ TRUE \in BOOLEAN
        BY <4>1, CertificatesAssumption
      <4> QED BY <1>1, <2>1, <3>a, <3>5, <4>1, <4>2, SavesFiles
    <3> QED BY <2>2, <3>1, <3>2, <3>3, <3>4, <3>5, RequestForms
  <2>3. ASSUME NEW p \in Actors, Continue(p) PROVE FilesOK'
    <3>1. CASE Generate(p)
      BY <1>1, <2>1, <3>1, GenerateFiles
    <3>2. CASE WriteConf(p) \/ Reload(p) \/ UpdateServer(p) \/ Purged(p) \/ Refused(p)
      BY <1>1, <2>1, <3>2, DeploymentFiles
    <3>3. CASE PurgeSites(p) \/ PurgePairs(p)
      BY <2>1, <3>3, PurgeSitesFiles, PurgePairsFiles
    <3>4. CASE Obtain(p) \/ WriteCrt(p) \/ WriteKey(p)
      BY <2>1, <3>4, ObtainFiles, WriteCrtFiles, WriteKeyFiles
    <3>5. CASE InsertCert(p) \/ UpdateCert(p) \/ ActivateSSL(p)
      BY <2>1, <3>5, InsertCertFiles, UpdateCertFiles, ActivateSSLFiles
    <3>6. CASE Revoke(p) \/ DeactivateSSL(p)
      BY <2>1, <3>6, RevokeFiles, DeactivateSSLFiles
    <3>7. CASE DropCert(p) \/ RemovePair(p)
      BY <2>1, <3>7, DropCertFiles, RemovePairFiles
    <3> QED BY <2>3, <3>1, <3>2, <3>3, <3>4, <3>5, <3>6, <3>7 DEF Continue
  <2>4. ASSUME NEW p \in Actors, Lock(p) PROVE FilesOK'
    BY <2>1, <2>4, LockFiles
  <2>5. CASE Scan \/ RenewNext
    <3>1. Renewer \in Actors
      BY DEF Actors
    <3>2. Others(Renewer) /\ pc'[Renewer] \in {"idle", "next", "lock"} /\ UNCHANGED <<Tables, mutex>>
      BY <2>5, ScanStep, RenewNextStep
    <3> QED BY <1>1, <2>1, <3>1, <3>2, WaitingFiles
  <2>6. CASE Surroundings
    <3>1. ASSUME failed' PROVE FilesOK'
      BY <2>1, <3>1 DEF FilesOK
    <3>2. ASSUME NEW n \in Names, Age \/ Lose(n) PROVE FilesOK'
      <4>1. UNCHANGED <<Files, mutex, pc, work>>
        BY <3>2 DEF Age, Lose, Files, rows, pairs, locals
      <4> QED BY <2>1, <4>1, AroundFiles
    <3>3. CASE Age
      <4>1. UNCHANGED <<Files, mutex, pc, work>>
        BY <3>3 DEF Age, Files, rows, pairs, locals
      <4> QED BY <2>1, <4>1, AroundFiles
    <3>4. ASSUME Crash \/ \E p \in Actors : StepFails(p) \/ DeployFails(p) PROVE failed'
      BY <3>4 DEF Crash, StepFails, DeployFails
    <3> QED BY <2>6, <3>1, <3>2, <3>3, <3>4 DEF Surroundings
  <2> QED BY <1>3, <2>2, <2>3, <2>4, <2>5, <2>6 DEF Next
<1> QED BY <1>2, <1>3

\* At first the file of a certificate's path is that certificate's.
LEMMA FilesAtFirst == Init => FilesOK
<1> SUFFICES ASSUME Init PROVE FilesOK
  OBVIOUS
<1>1. ~Tangled
  <2>1. Past
    BY PastAtFirst
  <2> QED BY <2>1 DEF Past, Noted, Init
<1>2. /\ IInv
      /\ \A s \in Certs : /\ cert[s].domain = NameOf[s] /\ cert[s].path = NameOf[s]
                          /\ issued[cert[s].expires] = NameOf[s]
  BY AtFirst
<1>3. ASSUME NEW s \in Certs PROVE Good(s)
  <2> DEFINE n == cert[s].path  its == {t \in Certs : cert[t].path = n}
  <2>1. n \in Names
    BY <1>2 DEF Certs, IInv, TablesOK
  <2>2. ASSUME NEW t \in its PROVE t = s
    BY <1>1, Apart
  <2>3. s \in its
    OBVIOUS
  <2>4. crt[n] = cert[CHOOSE t \in its : TRUE].expires
    <3>1. crt = [m \in Names |-> LET these == {t \in Certs : cert[t].path = m}
                                 IN  IF these = {} THEN 0 ELSE cert[CHOOSE t \in these : TRUE].expires]
      BY DEF Init
    <3> QED BY <2>1, <2>3, <3>1
  <2>5. (CHOOSE t \in its : TRUE) = s
    <3>1. (CHOOSE t \in its : TRUE) \in its
      BY <2>3
    <3> QED BY <2>2, <3>1
  <2>6. crt[n] = cert[s].expires /\ key = crt /\ revoked = {}
    BY <2>4, <2>5 DEF Init
  <2> QED BY <1>2, <2>6 DEF Good
<1>4. \A p \in Actors : mutex # p /\ pc[p] = "idle"
  BY NobodyElse DEF Init
<1> QED BY <1>3, <1>4 DEF FilesOK, AllGood, PurgerOK

LEMMA FilesAlways == Spec => [](IInv /\ Past /\ FilesOK)
<1>1. Init => IInv /\ Past /\ FilesOK
  BY AtFirst, PastAtFirst, FilesAtFirst
<1>2. IInv /\ Past /\ [Next]_vars => Past'
  <2> SUFFICES ASSUME IInv, Past, [Next]_vars PROVE Past'
    OBVIOUS
  <2>1. CASE Next
    BY <2>1, NextTypes, Remembered DEF Next
  <2>2. CASE UNCHANGED vars
    BY <2>2 DEF vars, past, rows, locals, Past, Noted, PurgeAlone, Alone, Tangled, Busy, Certs, Alive
  <2> QED BY <2>1, <2>2
<1> QED BY <1>1, <1>2, NextTypes, NextFiles, PTL DEF Spec

\* While nobody holds the mutex, every certificate of the table has the files
\* it names, however many goroutines save, redeploy, issue, renew and delete:
\* unless a server was deleted meanwhile, a step failed, or the table was at
\* odds with the names.
THEOREM RowsFilesKept == Spec => []RowsHaveFiles
<1>1. FilesOK => RowsHaveFiles
  BY DEF FilesOK, RowsHaveFiles, Clean, AllGood, Good
<1> QED BY <1>1, FilesAlways, PTL

-----------------------------------------------------------------------------
(* nginx serves what the rows say. *)

Quiet     == met = {} /\ ~failed /\ ~tangled
Serves(n) == n \in left \/ conf[n] = Rendered(n)
AllServed == \A n \in Names : Serves(n)
InForce   == Accepted => live = Loaded

\* What is in order while a goroutine is at work, and nobody else, by where it is.
ServerOK(p) ==
  LET w == work[p]
      l == pc[p]
      d == deploys[p]
  IN  /\ l \in {"obtain", "crt", "key", "row", "revoke", "unssl", "purge pairs", "purged"} => AllServed
      /\ l \in {"generate", "saved", "write"} => \A n \in Names \ ToSet(d) : Serves(n)
      /\ l = "write" => plan[p] = Rendered(Head(d))
      /\ l = "reload" => \A n \in Names \ ToSet(Tail(d)) : Serves(n)
      /\ l \in {"ssl", "drop", "files"} => \A n \in Names \ {w.domain} : Serves(n)
      /\ l = "purge" => /\ \A n \in Names \ w.sites : Serves(n)
                        /\ \A s \in Alive : site[s].name \notin w.sites
      /\ l \in {"obtain", "revoke", "purge"} => InForce
      /\ l \in {"purge pairs", "purged"} /\ w.sites = {} => InForce

\* What is in order before and after a step of a goroutine that is alone.
InOrder(p) == IF Busy(p) THEN ServerOK(p) ELSE AllServed /\ InForce

SitesOK ==
  Quiet => /\ (\A p \in Actors : ~Busy(p)) => AllServed /\ InForce
           /\ \A p \in Actors : Busy(p) => ServerOK(p)

LEMMA QuietIsClean == Quiet => Clean
BY DEF Quiet, Clean

\* A goroutine at work is alone: what its step does to its own place is all.
LEMMA SitesAlone ==
  ASSUME Past, Past', SitesOK, Quiet' => Quiet, NEW p \in Actors, Others(p), Busy(p) \/ Busy(p)',
         Quiet /\ Quiet' /\ InOrder(p) => InOrder(p)'
  PROVE  SitesOK'
<1> SUFFICES ASSUME Quiet'
             PROVE  /\ (\A q \in Actors : ~Busy(q)') => AllServed' /\ InForce'
                    /\ \A q \in Actors : Busy(q)' => ServerOK(q)'
  BY DEF SitesOK
<1>1. Quiet
  OBVIOUS
<1>2. \A q \in Actors \ {p} : Busy(q)' <=> Busy(q)
  BY DEF Others, Busy
<1>3. \A q \in Actors \ {p} : ~Busy(q) /\ ~Busy(q)'
  <2>1. CASE Busy(p)
    BY <1>1, <1>2, <2>1 DEF Past, Alone, Quiet
  <2>2. CASE Busy(p)'
    BY <1>2, <2>2 DEF Past, Alone, Quiet
  <2> QED BY <2>1, <2>2
<1>4. InOrder(p)
  BY <1>1, <1>3 DEF SitesOK, InOrder
<1>5. InOrder(p)'
  BY <1>1, <1>4
<1> QED BY <1>3, <1>5 DEF InOrder

\* Whoever waits, nothing changes.
SitesView == <<site, cert, crt, key, conf, left, live>>

LEMMA ServedSame ==
  ASSUME UNCHANGED SitesView
  PROVE  /\ AllServed' <=> AllServed
         /\ InForce' <=> InForce
         /\ \A n : (Serves(n)' <=> Serves(n)) /\ Rendered(n)' = Rendered(n)
         /\ Alive' = Alive /\ Certs' = Certs
<1>1. UNCHANGED <<site, cert, crt, key, conf, left, live>>
  BY DEF SitesView
<1>2. Alive' = Alive /\ Certs' = Certs
  BY <1>1 DEF Alive, Certs
<1>3. \A n : SitesOf(n)' = SitesOf(n)
  BY <1>1, <1>2 DEF SitesOf
<1>4. \A n : Rendered(n)' = Rendered(n)
  BY <1>1, <1>2, <1>3 DEF Rendered
<1>5. (Accepted' <=> Accepted) /\ Loaded' = Loaded
  BY <1>1 DEF Accepted, Loaded
<1> QED BY <1>1, <1>2, <1>4, <1>5 DEF AllServed, InForce, Serves

LEMMA SitesWait ==
  ASSUME SitesOK, Quiet' => Quiet, UNCHANGED SitesView,
         \A q \in Actors : \/ ~Busy(q) /\ ~Busy(q)'
                           \/ pc'[q] = pc[q] /\ work'[q] = work[q] /\ deploys'[q] = deploys[q]
                              /\ plan'[q] = plan[q]
  PROVE  SitesOK'
<1> SUFFICES ASSUME Quiet'
             PROVE  /\ (\A q \in Actors : ~Busy(q)') => AllServed' /\ InForce'
                    /\ \A q \in Actors : Busy(q)' => ServerOK(q)'
  BY DEF SitesOK
<1>1. \A q \in Actors : Busy(q)' <=> Busy(q)
  BY DEF Busy
<1>2. (\A q \in Actors : ~Busy(q)') => AllServed' /\ InForce'
  BY <1>1, ServedSame DEF SitesOK
<1>3. ASSUME NEW q \in Actors, Busy(q)' PROVE ServerOK(q)'
  <2>1. ServerOK(q)
    BY <1>1, <1>3 DEF SitesOK
  <2>2. pc'[q] = pc[q] /\ work'[q] = work[q] /\ deploys'[q] = deploys[q] /\ plan'[q] = plan[q]
    BY <1>3
  <2>3. site' = site
    BY DEF SitesView
  <2> QED BY <2>1, <2>2, <2>3, ServedSame DEF ServerOK
<1> QED BY <1>2, <1>3

\* The file of a name says the same if the rows that change have other names.
LEMMA RenderedSame ==
  ASSUME NEW n, NEW X,
         \A s \in SiteIds \ X : site'[s] = site[s] /\ cert'[s] = cert[s],
         X \cap SitesOf(n) = {}, X \cap SitesOf(n)' = {}
  PROVE  Rendered(n)' = Rendered(n)
<1>1. SitesOf(n)' = SitesOf(n)
  <2>1. ASSUME NEW s \in SiteIds \ X PROVE s \in SitesOf(n)' <=> s \in SitesOf(n)
    BY DEF SitesOf, Alive
  <2>2. SitesOf(n) \subseteq SiteIds /\ SitesOf(n)' \subseteq SiteIds
    BY DEF SitesOf, Alive
  <2> QED BY <2>1, <2>2
<1>2. ASSUME NEW s \in SitesOf(n)
      PROVE  site'[s] = site[s] /\ cert'[s] = cert[s] /\ (s \in Certs' <=> s \in Certs)
  <2>1. s \in SiteIds \ X
    BY DEF SitesOf, Alive
  <2> QED BY <2>1 DEF Certs
<1> QED BY <1>1, <1>2 DEF Rendered

\* While the table is not at odds with the names, a name is of one server.
LEMMA OneServer ==
  ASSUME ~Tangled, NEW n PROVE ~SpansServers(n)
<1> DEFINE S == {ServerOf[s] : s \in SitesOf(n)}
<1>1. ASSUME NEW s \in SitesOf(n), NEW t \in SitesOf(n) PROVE ServerOf[s] = ServerOf[t]
  BY DEF SitesOf, Tangled
<1>2. CASE SitesOf(n) = {}
  <2>1. S = {}
    BY <1>2
  <2> QED BY <2>1, FS_EmptySet DEF SpansServers
<1>3. CASE SitesOf(n) # {}
  <2>1. PICK s \in SitesOf(n) : TRUE
    BY <1>3
  <2>2. S = {ServerOf[s]}
    BY <1>1, <2>1
  <2>3. Cardinality(S) = 1
    BY <2>2, FS_Singleton
  <2> QED BY <2>3 DEF SpansServers
<1> QED BY <1>2, <1>3

-----------------------------------------------------------------------------
(* A deployment. *)

LEMMA ReloadInForce == ASSUME UNCHANGED <<crt, key, conf>>, live' = IF Accepted THEN Loaded ELSE live
                       PROVE  InForce'
<1>1. (Accepted' <=> Accepted) /\ Loaded' = Loaded
  BY DEF Accepted, Loaded
<1> QED BY <1>1 DEF InForce

LEMMA GenerateSites ==
  ASSUME IInv, Past, Past', SitesOK, Quiet' => Quiet, NEW p \in Actors, Generate(p) PROVE SitesOK'
<1>1. pc[p] = "generate" /\ UNCHANGED SitesView
  BY DEF Generate, SitesView, rows, pairs
<1>2. Busy(p)
  BY <1>1 DEF Busy
<1>3. Others(p)
  <2>1. CASE NextName(p)
    BY <1>1, <2>1, NextNameLocals DEF IInv
  <2>2. CASE /\ plan' = [plan EXCEPT ![p] = Rendered(Head(deploys[p]))]
             /\ Goto(p, "write") /\ UNCHANGED <<mutex, work, deploys>>
    BY <2>2 DEF Goto, Others, IInv, LocalsOK
  <2> QED BY <2>1, <2>2 DEF Generate
<1>4. ASSUME Quiet, InOrder(p) PROVE InOrder(p)'
  <2>1. ~SpansServers(Head(deploys[p]))
    BY <1>4, OneServer, NotTangled, QuietIsClean
  <2>2. /\ plan' = [plan EXCEPT ![p] = Rendered(Head(deploys[p]))]
        /\ Goto(p, "write") /\ UNCHANGED <<mutex, work, deploys>>
    BY <2>1 DEF Generate
  <2>3. pc'[p] = "write" /\ plan'[p] = Rendered(Head(deploys[p])) /\ deploys' = deploys
    BY <2>2 DEF Goto, IInv, LocalsOK
  <2>4. ServerOK(p)
    BY <1>2, <1>4 DEF InOrder
  <2>5. \A n \in Names \ ToSet(deploys[p]) : Serves(n)
    BY <1>1, <2>4 DEF ServerOK
  <2>6. /\ \A n : (Serves(n)' <=> Serves(n)) /\ Rendered(n)' = Rendered(n)
    BY <1>1, ServedSame
  <2>7. Rendered(Head(deploys[p]))' = Rendered(Head(deploys[p]))
    BY <2>3, <2>6
  <2>8. ServerOK(p)'
    BY <2>3, <2>5, <2>6, <2>7 DEF ServerOK
  <2> QED BY <2>3, <2>8 DEF InOrder, Busy
<1> QED BY <1>2, <1>3, <1>4, SitesAlone

LEMMA WriteConfSites ==
  ASSUME IInv, Past, Past', SitesOK, Quiet' => Quiet, NEW p \in Actors, WriteConf(p) PROVE SitesOK'
<1>1. /\ pc[p] = "write" /\ UNCHANGED <<site, cert, crt, key, live, deploys>>
      /\ conf' = [conf EXCEPT ![Head(deploys[p])] = plan[p]] /\ left' = left \ {Head(deploys[p])}
  BY DEF WriteConf, rows, pairs
<1>2. Others(p) /\ pc'[p] = "reload" /\ Busy(p)
  BY DEF WriteConf, Goto, Others, IInv, LocalsOK, Busy
<1>3. deploys[p] \in Seq(Names) /\ deploys[p] # << >>
  BY <1>1, Placed DEF Fits
<1>4. /\ Head(deploys[p]) \in Names /\ ToSet(deploys[p]) = {Head(deploys[p])} \cup ToSet(Tail(deploys[p]))
  BY <1>3, FirstAndOthers
<1>5. ASSUME InOrder(p) PROVE InOrder(p)'
  <2>1. ServerOK(p)
    BY <1>2, <1>5 DEF InOrder
  <2>2. /\ \A n \in Names \ ToSet(deploys[p]) : Serves(n)
        /\ plan[p] = Rendered(Head(deploys[p]))
    BY <1>1, <2>1 DEF ServerOK
  <2>3. \A n : Rendered(n)' = Rendered(n)
    <3>1. \A n : SitesOf(n)' = SitesOf(n)
      BY <1>1 DEF SitesOf, Alive
    <3> QED BY <1>1, <3>1 DEF Rendered, Certs
  <2>4. ASSUME NEW n \in Names \ ToSet(Tail(deploys[p])) PROVE Serves(n)'
    <3>1. conf \in [Names -> SUBSET Block]
      BY DEF IInv, NginxOK
    <3>2. CASE n = Head(deploys[p])
      <4>1. conf'[n] = plan[p]
        BY <1>1, <3>1, <3>2
      <4> QED BY <2>2, <2>3, <3>2, <4>1 DEF Serves
    <3>3. CASE n # Head(deploys[p])
      <4>1. conf'[n] = conf[n]
        BY <1>1, <3>1, <3>3
      <4>2. n \in Names \ ToSet(deploys[p])
        BY <1>4, <3>3
      <4>3. n \in left' <=> n \in left
        BY <1>1, <3>3
      <4> QED BY <2>2, <2>3, <4>1, <4>2, <4>3 DEF Serves
    <3> QED BY <3>2, <3>3
  <2>5. ServerOK(p)'
    BY <1>1, <1>2, <2>4 DEF ServerOK
  <2> QED BY <1>2, <2>5 DEF InOrder, Busy
<1> QED BY <1>2, <1>5, SitesAlone

LEMMA ReloadSites ==
  ASSUME IInv, Past, Past', SitesOK, Quiet' => Quiet, NEW p \in Actors, Reload(p) PROVE SitesOK'
<1>1. /\ pc[p] = "reload" /\ UNCHANGED <<site, cert, crt, key, conf, left>> /\ NextName(p)
      /\ live' = IF Accepted THEN Loaded ELSE live
  BY DEF Reload, rows, pairs
<1>2. /\ Others(p)
      /\ \/ Len(deploys[p]) > 1 /\ pc'[p] = "generate" /\ deploys'[p] = Tail(deploys[p])
         \/ Len(deploys[p]) = 1 /\ Ended(p)
  BY <1>1, NextNameLocals DEF IInv
<1>3. deploys[p] \in Seq(Names) /\ deploys[p] # << >>
  BY <1>1, Placed DEF Fits
<1>4. Busy(p)
  BY <1>1 DEF Busy
<1>5. ASSUME InOrder(p) PROVE InOrder(p)'
  <2>1. \A n \in Names \ ToSet(Tail(deploys[p])) : Serves(n)
    BY <1>1, <1>4, <1>5 DEF InOrder, ServerOK
  <2>2. \A n : Serves(n)' <=> Serves(n)
    <3>1. \A n : SitesOf(n)' = SitesOf(n)
      BY <1>1 DEF SitesOf, Alive
    <3>2. \A n : Rendered(n)' = Rendered(n)
      BY <1>1, <3>1 DEF Rendered, Certs
    <3> QED BY <1>1, <3>2 DEF Serves
  <2>3. InForce'
    BY <1>1, ReloadInForce
  <2>4. CASE pc'[p] = "generate" /\ deploys'[p] = Tail(deploys[p])
    <3>1. ServerOK(p)'
      BY <2>1, <2>2, <2>4 DEF ServerOK
    <3> QED BY <2>4, <3>1 DEF InOrder, Busy
  <2>5. CASE Len(deploys[p]) = 1 /\ Ended(p)
    <3>1. ToSet(Tail(deploys[p])) = {}
      BY <1>3, <2>5, FirstAndOthers
    <3>2. AllServed'
      BY <2>1, <2>2, <3>1 DEF AllServed
    <3> QED BY <2>3, <2>5, <3>2 DEF InOrder, Busy, Ended
  <2> QED BY <1>2, <2>4, <2>5
<1> QED BY <1>2, <1>4, <1>5, SitesAlone

-----------------------------------------------------------------------------
(* Requests that change sites. *)

\* An operation begins while all is in order, and has the names whose rows it
\* changes still to deploy.
LEMMA SavesSites ==
  ASSUME Past, Past', SitesOK, Quiet' => Quiet, NEW p \in Actors, Others(p),
         pc[p] = "idle", pc'[p] \in {"generate", "saved"},
         AllServed => \A n \in Names \ ToSet(deploys[p])' : Serves(n)'
  PROVE  SitesOK'
<1>1. ~Busy(p) /\ Busy(p)'
  BY DEF Busy
<1>2. ASSUME InOrder(p) PROVE InOrder(p)'
  <2>1. AllServed
    BY <1>1, <1>2 DEF InOrder
  <2>2. ServerOK(p)'
    BY <2>1 DEF ServerOK
  <2> QED BY <1>1, <2>2 DEF InOrder
<1> QED BY <1>1, <1>2, SitesAlone

LEMMA OneToSet == \A n : ToSet(<<n>>) = {n}
BY DEF ToSet

LEMMA TwoToSet == \A m, n : ToSet(<<m, n>>) = {m, n}
BY DEF ToSet

\* The rows of a site change, and those of other names stay.
LEMMA TwoNamesChange ==
  ASSUME NEW s \in SiteIds, NEW N, conf' = conf, left \subseteq left',
         \A t \in SiteIds \ {s} : site'[t] = site[t] /\ cert'[t] = cert[t],
         s \in Alive => site[s].name \in N, s \in Alive' => site'[s].name \in N
  PROVE  \A m \in Names \ N : Serves(m) => Serves(m)'
<1> SUFFICES ASSUME NEW m \in Names \ N PROVE Serves(m) => Serves(m)'
  OBVIOUS
<1>1. s \notin SitesOf(m) /\ s \notin SitesOf(m)'
  BY DEF SitesOf
<1>2. {s} \cap SitesOf(m) = {} /\ {s} \cap SitesOf(m)' = {}
  BY <1>1
<1> QED BY <1>2, RenderedSame DEF Serves

LEMMA InsertSites ==
  ASSUME IInv, Past, Past', SitesOK, Quiet' => Quiet, NEW p \in Actors,
         NEW s \in SiteIds, NEW n \in Names, NEW ssl \in BOOLEAN, NEW on \in BOOLEAN,
         Insert(p, s, n, ssl, on)
  PROVE  SitesOK'
<1>1. /\ pc[p] = "idle" /\ site[s] = Unborn /\ UNCHANGED <<cert, conf, left>>
      /\ site' = [site EXCEPT ![s] = [name |-> n, ssl |-> ssl, on |-> on]]
  BY DEF Insert
<1>2. Others(p) /\ pc'[p] = "generate" /\ deploys'[p] = <<n>>
  BY InsertStep
<1>3. ToSet(deploys[p])' = {n}
  BY <1>2, OneToSet
<1>4. /\ \A t \in SiteIds \ {s} : site'[t] = site[t] /\ cert'[t] = cert[t]
      /\ s \notin Alive /\ site'[s].name \in {n}
  BY <1>1 DEF IInv, TablesOK, Alive
<1>5. \A m \in Names \ {n} : Serves(m) => Serves(m)'
  BY <1>1, <1>4, TwoNamesChange
<1>6. AllServed => \A m \in Names \ ToSet(deploys[p])' : Serves(m)'
  BY <1>3, <1>5 DEF AllServed
<1> QED BY <1>1, <1>2, <1>6, SavesSites

LEMMA UpdateSites ==
  ASSUME IInv, Past, Past', SitesOK, Quiet' => Quiet, NEW p \in Actors,
         NEW s \in SiteIds, NEW n \in Names, NEW ssl \in BOOLEAN, NEW on \in BOOLEAN,
         Update(p, s, n, ssl, on)
  PROVE  SitesOK'
<1>1. /\ pc[p] = "idle" /\ s \in Alive /\ UNCHANGED <<cert, conf, left>>
      /\ site' = [site EXCEPT ![s] = [name |-> n, ssl |-> ssl, on |-> on]]
      /\ deploys' = [deploys EXCEPT ![p] = IF site[s].name # n THEN <<site[s].name, n>> ELSE <<n>>]
  BY DEF Update
<1>2. Others(p) /\ pc'[p] = "saved"
  BY UpdateStep
<1>3. ToSet(deploys[p])' = {site[s].name, n}
  <2>1. deploys'[p] = IF site[s].name # n THEN <<site[s].name, n>> ELSE <<n>>
    BY <1>1 DEF IInv, LocalsOK
  <2>2. CASE site[s].name # n
    BY <2>1, <2>2, TwoToSet
  <2>3. CASE site[s].name = n
    BY <2>1, <2>3, OneToSet
  <2> QED BY <2>2, <2>3
<1>4. /\ \A t \in SiteIds \ {s} : site'[t] = site[t] /\ cert'[t] = cert[t]
      /\ site'[s].name = n
  BY <1>1 DEF IInv, TablesOK
<1>5. \A m \in Names \ {site[s].name, n} : Serves(m) => Serves(m)'
  BY <1>1, <1>4, TwoNamesChange
<1>6. AllServed => \A m \in Names \ ToSet(deploys[p])' : Serves(m)'
  BY <1>3, <1>5 DEF AllServed
<1> QED BY <1>1, <1>2, <1>6, SavesSites

LEMMA DeleteSiteSites ==
  ASSUME IInv, Past, Past', SitesOK, Quiet' => Quiet, NEW p \in Actors, NEW s \in SiteIds,
         NEW n \in Names, DeleteSite(p, s, n)
  PROVE  SitesOK'
<1>1. /\ pc[p] = "idle" /\ s \in Alive /\ UNCHANGED <<cert, conf, pairs, live>>
      /\ \/ site' = [site EXCEPT ![s] = Gone] /\ left' = left \cup ({site[s].name} \ {n})
         \/ UNCHANGED <<site, left>>
  BY DEF DeleteSite
<1>2. Others(p) /\ pc'[p] = "generate" /\ deploys'[p] = <<n>>
  BY DeleteSiteStep
<1>3. ToSet(deploys[p])' = {n}
  BY <1>2, OneToSet
<1>4. ASSUME AllServed, NEW m \in Names \ {n} PROVE Serves(m)'
  <2>1. CASE UNCHANGED <<site, left>>
    BY <1>1, <1>4, <2>1, ServedSame DEF SitesView, pairs, AllServed
  <2>2. CASE site' = [site EXCEPT ![s] = Gone] /\ left' = left \cup ({site[s].name} \ {n})
    <3>1. CASE m = site[s].name
      BY <1>4, <2>2, <3>1 DEF Serves
    <3>2. CASE m # site[s].name
      <4>1. /\ \A t \in SiteIds \ {s} : site'[t] = site[t] /\ cert'[t] = cert[t]
            /\ s \notin Alive' /\ left \subseteq left'
        BY <1>1, <2>2 DEF IInv, TablesOK, Alive
      <4>2. \A k \in Names \ {site[s].name} : Serves(k) => Serves(k)'
        BY <1>1, <4>1, TwoNamesChange
      <4> QED BY <1>4, <3>2, <4>2 DEF AllServed
    <3> QED BY <3>1, <3>2
  <2> QED BY <1>1, <2>1, <2>2
<1>5. AllServed => \A m \in Names \ ToSet(deploys[p])' : Serves(m)'
  BY <1>3, <1>4
<1> QED BY <1>1, <1>2, <1>5, SavesSites

LEMMA RedeploySites ==
  ASSUME IInv, Past, Past', SitesOK, Quiet' => Quiet, NEW p \in Actors, Redeploy(p)
  PROVE  SitesOK'
<1>1. pc[p] = "idle" /\ UNCHANGED SitesView
  BY DEF Redeploy, SitesView, rows, pairs
<1>2. Others(p) /\ pc'[p] = "generate"
  BY RedeployStep
<1>3. AllServed => \A m \in Names \ ToSet(deploys[p])' : Serves(m)'
  BY <1>1, ServedSame DEF AllServed
<1> QED BY <1>1, <1>2, <1>3, SavesSites

LEMMA UpdateServerSites ==
  ASSUME IInv, Past, Past', SitesOK, Quiet' => Quiet, NEW p \in Actors, UpdateServer(p)
  PROVE  SitesOK'
<1>1. pc[p] = "saved" /\ UNCHANGED SitesView
  BY DEF UpdateServer, SitesView, rows, pairs
<1>2. Others(p) /\ pc'[p] = "generate" /\ deploys'[p] = deploys[p]
  BY UpdateServerStep
<1>3. Busy(p) /\ Busy(p)'
  BY <1>1, <1>2 DEF Busy
<1>4. ASSUME ServerOK(p) PROVE ServerOK(p)'
  BY <1>1, <1>2, <1>4, ServedSame DEF ServerOK
<1> QED BY <1>2, <1>3, <1>4, SitesAlone DEF InOrder

-----------------------------------------------------------------------------
(* The deletion of a server. *)

LEMMA DeleteServerSites ==
  ASSUME IInv, Past, Past', SitesOK, Quiet' => Quiet, NEW p \in Actors, NEW v, DeleteServer(p, v)
  PROVE  SitesOK'
<1> DEFINE its == {s \in Alive : ServerOf[s] = v}
<1>1. /\ pc[p] = "idle" /\ UNCHANGED <<crt, key, conf, left, live>>
      /\ site' = [s \in SiteIds |-> IF s \in its THEN Gone ELSE site[s]]
      /\ cert' = [s \in SiteIds |-> IF s \in its THEN NoRow ELSE cert[s]]
  BY DEF DeleteServer, pairs
<1>2. /\ Others(p) /\ pc'[p] = "purge"
      /\ work'[p] = [op |-> "purge", sites |-> {site[s].name : s \in its},
                     paths |-> {cert[s].path : s \in its \cap Certs}]
  BY DeleteServerStep
<1>3. work'[p].sites = {site[s].name : s \in its}
  BY <1>2
<1>4. ~Busy(p) /\ Busy(p)'
  BY <1>1, <1>2 DEF Busy
<1>5. ASSUME Quiet, InOrder(p) PROVE ServerOK(p)'
  <2>1. AllServed /\ InForce
    BY <1>4, <1>5 DEF InOrder
  <2>2. ~Tangled
    BY <1>5, NotTangled, QuietIsClean
  <2>3. \A s \in its : s \in Alive /\ ServerOf[s] = v
    OBVIOUS
  <2>4. \A s \in Alive \ its : ServerOf[s] # v
    OBVIOUS
  <2> HIDE DEF its
  <2>5. \A s \in SiteIds \ its : site'[s] = site[s] /\ cert'[s] = cert[s]
    BY <1>1
  <2>6. Alive' = Alive \ its
    BY <1>1, <2>3 DEF Alive
  <2>7. ASSUME NEW n \in Names \ work'[p].sites PROVE Serves(n)'
    <3>1. its \cap SitesOf(n) = {}
      BY <1>3, <2>7 DEF SitesOf
    <3>2. its \cap SitesOf(n)' = {}
      BY <2>6 DEF SitesOf
    <3>3. Rendered(n)' = Rendered(n)
      BY <2>5, <3>1, <3>2, RenderedSame
    <3> QED BY <1>1, <2>1, <3>3 DEF Serves, AllServed
  <2>8. ASSUME NEW s \in Alive' PROVE site'[s].name \notin work'[p].sites
    <3>1. s \in Alive /\ s \notin its /\ s \in SiteIds
      BY <2>6 DEF Alive
    <3>2. ASSUME NEW t \in its PROVE site[t].name # site[s].name
      <4>1. t \in Alive /\ ServerOf[t] # ServerOf[s]
        BY <2>3, <2>4, <3>1
      <4> QED BY <2>2, <3>1, <4>1 DEF Tangled
    <3> QED BY <1>3, <2>5, <3>1, <3>2
  <2>9. InForce'
    BY <1>1, <2>1 DEF InForce, Accepted, Loaded
  <2> QED BY <1>2, <2>7, <2>8, <2>9 DEF ServerOK
<1>6. ASSUME Quiet, InOrder(p) PROVE InOrder(p)'
  BY <1>4, <1>5, <1>6 DEF InOrder
<1> QED BY <1>2, <1>4, <1>6, SitesAlone

LEMMA PurgeSitesSites ==
  ASSUME IInv, Past, Past', SitesOK, Quiet' => Quiet, NEW p \in Actors, PurgeSites(p)
  PROVE  SitesOK'
<1>1. /\ UNCHANGED <<site, cert, crt, key, live>>
      /\ conf' = [n \in Names |-> IF n \in work[p].sites THEN {} ELSE conf[n]]
      /\ left' = left \ work[p].sites
  BY DEF PurgeSites, rows, pairs
<1>2. /\ Others(p) /\ pc[p] = "purge" /\ pc'[p] = "purge pairs"
      /\ work[p] \in Purges /\ work'[p].sites = {n \in work[p].sites : conf[n] # {}}
  BY PurgeSitesStep
<1>3. Busy(p) /\ Busy(p)'
  BY <1>2 DEF Busy
<1>4. ASSUME ServerOK(p) PROVE ServerOK(p)'
  <2>1. /\ \A n \in Names \ work[p].sites : Serves(n)
        /\ \A s \in Alive : site[s].name \notin work[p].sites
        /\ InForce
    BY <1>2, <1>4 DEF ServerOK
  <2>2. \A n : SitesOf(n)' = SitesOf(n) /\ Rendered(n)' = Rendered(n)
    <3>1. \A n : SitesOf(n)' = SitesOf(n)
      BY <1>1 DEF SitesOf, Alive
    <3> QED BY <1>1, <3>1 DEF Rendered, Certs
  <2>3. ASSUME NEW n \in Names PROVE Serves(n)'
    <3>1. CASE n \in work[p].sites
      <4>1. SitesOf(n) = {}
        BY <2>1, <3>1 DEF SitesOf
      <4>2. Rendered(n) = {}
        BY <4>1 DEF Rendered
      <4> QED BY <1>1, <2>2, <3>1, <4>2 DEF Serves
    <3>2. CASE n \notin work[p].sites
      BY <1>1, <2>1, <2>2, <3>2 DEF Serves
    <3> QED BY <3>1, <3>2
  <2>4. ASSUME work'[p].sites = {} PROVE InForce'
    <3>1. \A n \in work[p].sites : conf[n] = {}
      BY <1>2, <2>4
    <3>2. conf \in [Names -> SUBSET Block]
      BY DEF IInv, NginxOK
    <3>3. conf' = conf
      BY <1>1, <3>1, <3>2
    <3> QED BY <1>1, <2>1, <3>3 DEF InForce, Accepted, Loaded
  <2> QED BY <1>2, <2>3, <2>4 DEF ServerOK, AllServed
<1> QED BY <1>2, <1>3, <1>4, SitesAlone DEF InOrder

LEMMA PurgePairsSites ==
  ASSUME IInv, Past, Past', SitesOK, Quiet' => Quiet, NEW p \in Actors, PurgePairs(p)
  PROVE  SitesOK'
<1>1. /\ UNCHANGED <<site, cert, conf, left, live>>
      /\ crt' = [n \in Names |-> IF n \in work[p].paths THEN 0 ELSE crt[n]]
      /\ key' = [n \in Names |-> IF n \in work[p].paths THEN 0 ELSE key[n]]
  BY DEF PurgePairs, rows
<1>2. /\ Others(p) /\ pc[p] = "purge pairs" /\ pc'[p] = "purged"
      /\ work[p] \in Purges /\ work'[p] = work[p]
  BY PurgePairsStep
<1>3. Busy(p) /\ Busy(p)'
  BY <1>2 DEF Busy
<1>4. ASSUME ServerOK(p) PROVE ServerOK(p)'
  <2>1. AllServed /\ (work[p].sites = {} => InForce)
    BY <1>2, <1>4 DEF ServerOK
  <2>2. AllServed'
    <3>1. \A n : SitesOf(n)' = SitesOf(n)
      BY <1>1 DEF SitesOf, Alive
    <3>2. \A n : Rendered(n)' = Rendered(n)
      BY <1>1, <3>1 DEF Rendered, Certs
    <3> QED BY <1>1, <2>1, <3>2 DEF AllServed, Serves
  <2>3. ASSUME InForce PROVE InForce'
    <3> SUFFICES ASSUME Accepted' PROVE live' = Loaded'
      BY DEF InForce
    <3>1. ASSUME NEW n \in Names, NEW b \in conf[n], b.tls # Plain
          PROVE  b.tls \in Names /\ crt'[b.tls] # 0 /\ crt'[b.tls] = key'[b.tls]
      BY <1>1, <3>1 DEF Accepted
    <3>2. ASSUME NEW n \in Names, NEW b \in conf[n], b.tls # Plain
          PROVE  b.tls \in Names /\ crt'[b.tls] = crt[b.tls] /\ key'[b.tls] = key[b.tls]
      BY <1>1, <3>1, <3>2
    <3>3. ASSUME NEW n \in Names, NEW b \in conf[n]
          PROVE  (IF b.tls = Plain THEN 0 ELSE crt'[b.tls]) = (IF b.tls = Plain THEN 0 ELSE crt[b.tls])
      BY <3>2
    <3>a. ASSUME NEW n \in Names, NEW b \in conf[n], b.tls # Plain
          PROVE  b.tls \in Names /\ crt[b.tls] # 0 /\ crt[b.tls] = key[b.tls]
      BY <3>1, <3>2, <3>a
    <3>4. Accepted
      BY <3>a, Zenon DEF Accepted
    <3>5. Loaded' = Loaded
      <4>1. ASSUME NEW n \in Names
            PROVE  {[id |-> b.id, pair |-> IF b.tls = Plain THEN 0 ELSE crt'[b.tls]] : b \in conf[n]}
                     = {[id |-> b.id, pair |-> IF b.tls = Plain THEN 0 ELSE crt[b.tls]] : b \in conf[n]}
        BY <3>3
      <4> QED BY <1>1, <4>1 DEF Loaded
    <3> QED BY <1>1, <2>3, <3>4, <3>5 DEF InForce
  <2> QED BY <1>2, <2>1, <2>2, <2>3 DEF ServerOK
<1> QED BY <1>2, <1>3, <1>4, SitesAlone DEF InOrder

LEMMA PurgedSites ==
  ASSUME IInv, Past, Past', SitesOK, Quiet' => Quiet, NEW p \in Actors, Purged(p)
  PROVE  SitesOK'
<1>1. /\ UNCHANGED <<site, cert, crt, key, conf, left>>
      /\ live' = IF work[p].sites # {} /\ Accepted THEN Loaded ELSE live
  BY DEF Purged, rows, pairs
<1>2. Others(p) /\ Ended(p) /\ pc[p] = "purged"
  BY PurgedStep
<1>3. Busy(p) /\ ~Busy(p)'
  BY <1>2 DEF Busy, Ended
<1>4. ASSUME ServerOK(p) PROVE AllServed' /\ InForce'
  <2>1. AllServed /\ (work[p].sites = {} => InForce)
    BY <1>2, <1>4 DEF ServerOK
  <2>2. AllServed'
    <3>1. \A n : SitesOf(n)' = SitesOf(n)
      BY <1>1 DEF SitesOf, Alive
    <3>2. \A n : Rendered(n)' = Rendered(n)
      BY <1>1, <3>1 DEF Rendered, Certs
    <3> QED BY <1>1, <2>1, <3>2 DEF AllServed, Serves
  <2>3. ASSUME work[p].sites = {} PROVE InForce'
    BY <1>1, <2>1, <2>3 DEF InForce, Accepted, Loaded
  <2>4. ASSUME work[p].sites # {} PROVE InForce'
    <3>1. live' = IF Accepted THEN Loaded ELSE live
      BY <1>1, <2>4
    <3> QED BY <1>1, <3>1, ReloadInForce
  <2> QED BY <2>2, <2>3, <2>4
<1> QED BY <1>2, <1>3, <1>4, SitesAlone DEF InOrder

-----------------------------------------------------------------------------
(* Operations on certificates. *)

LEMMA LockSites ==
  ASSUME IInv, Past, Past', SitesOK, Quiet' => Quiet, NEW p \in Actors, Lock(p)
  PROVE  SitesOK'
<1>1. UNCHANGED SitesView
  BY DEF Lock, SitesView, rows, pairs
<1>2. /\ Others(p) /\ pc[p] = "lock"
      /\ Ended(p) \/ pc'[p] \in {"revoke", "obtain"}
  BY LockStep
<1>3. ~Busy(p)
  BY <1>2 DEF Busy
<1>4. CASE Ended(p)
  <2>1. ~Busy(p)'
    BY <1>4 DEF Ended, Busy
  <2> QED BY <1>1, <1>2, <1>3, <2>1, SitesWait DEF Others
<1>5. CASE pc'[p] \in {"revoke", "obtain"}
  <2>1. Busy(p)'
    BY <1>5 DEF Busy
  <2>2. ASSUME InOrder(p) PROVE InOrder(p)'
    <3>1. AllServed' /\ InForce'
      BY <1>1, <1>3, <2>2, ServedSame DEF InOrder
    <3>2. ServerOK(p)'
      BY <1>5, <3>1 DEF ServerOK
    <3> QED BY <2>1, <3>2 DEF InOrder
  <2> QED BY <1>2, <2>1, <2>2, SitesAlone
<1> QED BY <1>2, <1>4, <1>5

LEMMA WaitingSites ==
  ASSUME SitesOK, Quiet' => Quiet, NEW p \in Actors, Others(p), UNCHANGED SitesView,
         ~Busy(p), pc'[p] \in {"idle", "next", "lock"}
  PROVE  SitesOK'
<1>1. ~Busy(p)'
  BY DEF Busy
<1> QED BY <1>1, SitesWait DEF Others

\* The pair is issued and written: what the files of nginx say stays.
LEMMA WritingSites ==
  ASSUME IInv, Past, Past', SitesOK, Quiet' => Quiet, NEW p \in Actors,
         Obtain(p) \/ WriteCrt(p) \/ WriteKey(p)
  PROVE  SitesOK'
<1>1. UNCHANGED <<site, cert, conf, left>>
  BY DEF Obtain, WriteCrt, WriteKey, rows
<1>2. Others(p) /\ pc[p] \in {"obtain", "crt", "key"} /\ pc'[p] \in {"crt", "key", "row"}
  BY ObtainStep, WriteCrtStep, WriteKeyStep
<1>3. Busy(p) /\ Busy(p)'
  BY <1>2 DEF Busy
<1>4. ASSUME ServerOK(p) PROVE ServerOK(p)'
  <2>1. AllServed
    BY <1>2, <1>4 DEF ServerOK
  <2>2. AllServed'
    <3>1. \A n : SitesOf(n)' = SitesOf(n)
      BY <1>1 DEF SitesOf, Alive
    <3>2. \A n : Rendered(n)' = Rendered(n)
      BY <1>1, <3>1 DEF Rendered, Certs
    <3> QED BY <1>1, <2>1, <3>2 DEF AllServed, Serves
  <2> QED BY <1>2, <2>2 DEF ServerOK
<1> QED BY <1>2, <1>3, <1>4, SitesAlone DEF InOrder

LEMMA RefusedSites ==
  ASSUME IInv, Past, Past', SitesOK, Quiet' => Quiet, NEW p \in Actors, Refused(p)
  PROVE  SitesOK'
<1>1. UNCHANGED SitesView
  BY DEF Refused, SitesView, rows, pairs
<1>2. Others(p) /\ Ended(p) /\ pc[p] = "obtain"
  BY RefusedStep
<1>3. Busy(p) /\ ~Busy(p)'
  BY <1>2 DEF Busy, Ended
<1>4. ASSUME ServerOK(p) PROVE AllServed' /\ InForce'
  BY <1>1, <1>2, <1>4, ServedSame DEF ServerOK
<1> QED BY <1>2, <1>3, <1>4, SitesAlone DEF InOrder

\* While the table is not at odds with the names, a site has the name of its certificate.
LEMMA NameOfCert ==
  ASSUME ~Tangled, NEW s \in Certs, s \in Alive
  PROVE  site[s].name = cert[s].domain /\ cert[s].domain = cert[s].path
BY DEF Tangled

LEMMA InsertCertSites ==
  ASSUME IInv, Past, Past', SitesOK, Quiet' => Quiet, NEW p \in Actors, InsertCert(p)
  PROVE  SitesOK'
<1>1. UNCHANGED <<site, conf, left>>
  BY DEF InsertCert
<1>2. /\ Others(p) /\ pc[p] = "row" /\ pc'[p] = "ssl" /\ work'[p] = work[p]
      /\ work[p] \in Tasks /\ work[p].path = work[p].domain
      /\ cert' = [cert EXCEPT ![work[p].site] =
           [domain |-> IF work[p].site \in Certs THEN @.domain ELSE work[p].domain,
            path |-> work[p].path, expires |-> work[p].pair]]
  BY InsertCertStep
<1>3. Busy(p) /\ Busy(p)'
  BY <1>2 DEF Busy
<1>4. ASSUME Quiet', ServerOK(p) PROVE ServerOK(p)'
  <2> DEFINE s == work[p].site  n == work[p].domain
  <2>1. s \in SiteIds /\ n \in Names
    BY <1>2 DEF Tasks
  <2>2. /\ \A t \in SiteIds \ {s} : site'[t] = site[t] /\ cert'[t] = cert[t]
        /\ cert'[s].path = n
    BY <1>1, <1>2, <2>1 DEF IInv, TablesOK
  <2>3. ASSUME s \in Alive PROVE site[s].name = n
    <3>1. ~Tangled'
      BY <1>4 DEF Past, Noted, Quiet
    <3>2. s \in Certs'
      <4>1. cert'[s] # NoRow
        <5> DEFINE c == [domain |-> IF s \in Certs THEN cert[s].domain ELSE work[p].domain,
                         path |-> work[p].path, expires |-> work[p].pair]
        <5>1. c \in [domain : Names, path : Names, expires : Nat]
          <6>1. s \in Certs => cert[s].domain \in Names
            BY DEF Certs, IInv, TablesOK
          <6> QED BY <1>2, <6>1 DEF Tasks
        <5>2. cert'[s] = c
          BY <1>2, <2>1 DEF IInv, TablesOK
        <5> HIDE DEF c
        <5> QED BY <5>1, <5>2, CertificatesAssumption
      <4> QED BY <2>1, <4>1 DEF Certs
    <3>3. s \in Alive'
      BY <1>1, <2>3 DEF Alive
    <3>4. \A t : t \in Certs' /\ t \in Alive' =>
            site'[t].name = cert'[t].domain /\ cert'[t].domain = cert'[t].path
      BY <3>1 DEF Tangled
    <3> QED BY <1>1, <2>2, <3>2, <3>3, <3>4
  <2>4. AllServed
    BY <1>2, <1>4 DEF ServerOK
  <2>5. \A m \in Names \ {n} : Serves(m) => Serves(m)'
    <3>1. s \in Alive' => s \in Alive /\ site'[s] = site[s]
      BY <1>1 DEF Alive
    <3> HIDE DEF s, n
    <3>2. (s \in Alive => site[s].name \in {n}) /\ (s \in Alive' => site'[s].name \in {n})
      BY <2>3, <3>1
    <3> QED BY <1>1, <2>1, <2>2, <3>2, TwoNamesChange
  <2>6. \A m \in Names \ {n} : Serves(m)'
    BY <2>4, <2>5 DEF AllServed
  <2> QED BY <1>2, <2>6 DEF ServerOK
<1> QED BY <1>2, <1>3, <1>4, SitesAlone DEF InOrder

\* One row of a site, or of its certificate, changes: the other names stay.
LEMMA OneRowSites ==
  ASSUME NEW s \in SiteIds, NEW n \in Names, UNCHANGED <<conf, left>>,
         \A t \in SiteIds \ {s} : site'[t] = site[t] /\ cert'[t] = cert[t],
         s \in Alive => site[s].name = n, s \in Alive' => site'[s].name = n,
         \A m \in Names \ {n} : Serves(m)
  PROVE  \A m \in Names \ {n} : Serves(m)'
<1>1. (s \in Alive => site[s].name \in {n}) /\ (s \in Alive' => site'[s].name \in {n})
  OBVIOUS
<1>2. \A m \in Names \ {n} : Serves(m) => Serves(m)'
  BY <1>1, TwoNamesChange
<1> QED BY <1>2

LEMMA UpdateCertSites ==
  ASSUME IInv, Past, Past', FilesOK, SitesOK, Quiet' => Quiet, NEW p \in Actors, UpdateCert(p)
  PROVE  SitesOK'
<1>1. UNCHANGED <<site, conf, left>>
  BY DEF UpdateCert
<1>2. /\ Others(p) /\ pc[p] = "row" /\ mutex = p /\ work[p] \in Tasks /\ work[p].op = "renew"
      /\ \/ Ended(p) /\ cert' = cert
            /\ ~(work[p].site \in Certs /\ cert[work[p].site].domain = work[p].domain)
         \/ /\ pc'[p] = "ssl" /\ work'[p] = work[p] /\ mutex' = p
            /\ work[p].site \in Certs /\ cert[work[p].site].domain = work[p].domain
            /\ cert' = [cert EXCEPT ![work[p].site] = [cert[work[p].site] EXCEPT
                          !.path = work[p].path, !.expires = work[p].pair]]
  BY UpdateCertStep
<1>3. Busy(p)
  BY <1>2 DEF Busy
<1>4. ASSUME Quiet, ServerOK(p) PROVE InOrder(p)'
  <2> DEFINE s == work[p].site  n == work[p].domain
  <2>1. ~Tangled /\ HolderOK(p)
    BY <1>2, <1>4, NotTangled, QuietIsClean, HolderOf
  <2>2. s \in Certs /\ cert[s].domain = n
    BY <1>2, <2>1 DEF HolderOK, StillThere, InTable
  <2>3. /\ pc'[p] = "ssl" /\ work'[p] = work[p]
        /\ cert' = [cert EXCEPT ![s] = [cert[s] EXCEPT !.path = work[p].path, !.expires = work[p].pair]]
    BY <1>2, <2>2
  <2>4. /\ s \in SiteIds /\ n \in Names
        /\ \A t \in SiteIds \ {s} : site'[t] = site[t] /\ cert'[t] = cert[t]
    BY <1>1, <1>2, <2>3 DEF Tasks, IInv, TablesOK
  <2>5. (s \in Alive => site[s].name = n) /\ (s \in Alive' => site'[s].name = n)
    <3>1. s \in Alive => site[s].name = n
      BY <2>1, <2>2, NameOfCert
    <3> QED BY <1>1, <3>1 DEF Alive
  <2>6. \A m \in Names \ {n} : Serves(m)
    BY <1>2, <1>4 DEF ServerOK, AllServed
  <2>7. \A m \in Names \ {n} : Serves(m)'
    <3> HIDE DEF s, n
    <3> QED BY <1>1, <2>4, <2>5, <2>6, OneRowSites
  <2>8. ServerOK(p)'
    BY <2>3, <2>7 DEF ServerOK
  <2> QED BY <2>3, <2>8 DEF InOrder, Busy
<1> QED BY <1>2, <1>3, <1>4, SitesAlone DEF InOrder

LEMMA ActivateSSLSites ==
  ASSUME IInv, Past, Past', FilesOK, SitesOK, Quiet' => Quiet, NEW p \in Actors, ActivateSSL(p)
  PROVE  SitesOK'
<1>1. UNCHANGED <<cert, conf, left>>
  BY DEF ActivateSSL
<1>2. /\ Others(p) /\ pc[p] = "ssl" /\ pc'[p] = "generate" /\ work'[p] = work[p]
      /\ deploys'[p] = <<work[p].domain>> /\ mutex = p /\ work[p] \in Tasks
      /\ site' = IF work[p].site \in Alive THEN [site EXCEPT ![work[p].site].ssl = TRUE] ELSE site
  BY ActivateSSLStep
<1>3. Busy(p)
  BY <1>2 DEF Busy
<1>4. ASSUME Quiet, ServerOK(p) PROVE InOrder(p)'
  <2> DEFINE s == work[p].site  n == work[p].domain
  <2>1. ~Tangled /\ HolderOK(p)
    BY <1>2, <1>4, NotTangled, QuietIsClean, HolderOf
  <2>2. s \in Certs /\ cert[s].domain = n
    BY <1>2, <2>1 DEF HolderOK, InTable
  <2>3. s \in Alive => site[s].name = n
    BY <2>1, <2>2, NameOfCert
  <2>4. /\ s \in SiteIds /\ n \in Names
        /\ \A t \in SiteIds \ {s} : site'[t] = site[t] /\ cert'[t] = cert[t]
    BY <1>1, <1>2 DEF Tasks, IInv, TablesOK
  <2>5. s \in Alive' => site'[s].name = n
    <3>1. CASE s \in Alive
      <4>1. site[s] \in Row
        BY <3>1 DEF Alive, IInv, TablesOK
      <4>2. site'[s] = [site[s] EXCEPT !.ssl = TRUE]
        BY <1>2, <2>4, <3>1 DEF IInv, TablesOK
      <4> QED BY <2>3, <3>1, <4>1, <4>2 DEF Row
    <3>2. CASE s \notin Alive
      <4>1. site' = site
        BY <1>2, <3>2
      <4> QED BY <3>2, <4>1 DEF Alive
    <3> QED BY <3>1, <3>2
  <2>6. \A m \in Names \ {n} : Serves(m)
    BY <1>2, <1>4 DEF ServerOK
  <2>7. \A m \in Names \ {n} : Serves(m)'
    <3> HIDE DEF s, n
    <3> QED BY <1>1, <2>3, <2>4, <2>5, <2>6, OneRowSites
  <2>8. ToSet(deploys[p])' = {n}
    BY <1>2, OneToSet
  <2>9. ServerOK(p)'
    BY <1>2, <2>7, <2>8 DEF ServerOK
  <2> QED BY <1>2, <2>9 DEF InOrder, Busy
<1> QED BY <1>2, <1>3, <1>4, SitesAlone DEF InOrder

LEMMA RevokeSites ==
  ASSUME IInv, Past, Past', SitesOK, Quiet' => Quiet, NEW p \in Actors, Revoke(p)
  PROVE  SitesOK'
<1>1. UNCHANGED SitesView
  BY DEF Revoke, SitesView, rows, pairs
<1>2. /\ Others(p) /\ pc[p] = "revoke"
      /\ Ended(p) \/ pc'[p] = "unssl"
  BY RevokeStep
<1>3. Busy(p)
  BY <1>2 DEF Busy
<1>4. ASSUME ServerOK(p) PROVE InOrder(p)'
  <2>1. AllServed' /\ InForce'
    BY <1>1, <1>2, <1>4, ServedSame DEF ServerOK
  <2>2. CASE Ended(p)
    BY <2>1, <2>2 DEF InOrder, Busy, Ended
  <2>3. CASE pc'[p] = "unssl"
    <3>1. ServerOK(p)'
      BY <2>1, <2>3 DEF ServerOK
    <3> QED BY <2>3, <3>1 DEF InOrder, Busy
  <2> QED BY <1>2, <2>2, <2>3
<1> QED BY <1>2, <1>3, <1>4, SitesAlone DEF InOrder

LEMMA DeactivateSSLSites ==
  ASSUME IInv, Past, Past', FilesOK, SitesOK, Quiet' => Quiet, NEW p \in Actors, DeactivateSSL(p)
  PROVE  SitesOK'
<1>1. UNCHANGED <<cert, conf, left>>
  BY DEF DeactivateSSL
<1>2. /\ Others(p) /\ pc[p] = "unssl" /\ pc'[p] = "drop" /\ work'[p] = work[p]
      /\ mutex = p /\ work[p] \in Tasks
      /\ site' = IF work[p].site \in Alive THEN [site EXCEPT ![work[p].site].ssl = FALSE] ELSE site
  BY DeactivateSSLStep
<1>3. Busy(p)
  BY <1>2 DEF Busy
<1>4. ASSUME Quiet, ServerOK(p) PROVE InOrder(p)'
  <2> DEFINE s == work[p].site  n == work[p].domain
  <2>1. ~Tangled /\ HolderOK(p)
    BY <1>2, <1>4, NotTangled, QuietIsClean, HolderOf
  <2>2. s \in Certs /\ cert[s].domain = n
    BY <1>2, <2>1 DEF HolderOK, StillThere, InTable
  <2>3. s \in Alive => site[s].name = n
    BY <2>1, <2>2, NameOfCert
  <2>4. /\ s \in SiteIds /\ n \in Names
        /\ \A t \in SiteIds \ {s} : site'[t] = site[t] /\ cert'[t] = cert[t]
    BY <1>1, <1>2 DEF Tasks, IInv, TablesOK
  <2>5. s \in Alive' => site'[s].name = n
    <3>1. CASE s \in Alive
      <4>1. site[s] \in Row
        BY <3>1 DEF Alive, IInv, TablesOK
      <4>2. site'[s] = [site[s] EXCEPT !.ssl = FALSE]
        BY <1>2, <2>4, <3>1 DEF IInv, TablesOK
      <4> QED BY <2>3, <3>1, <4>1, <4>2 DEF Row
    <3>2. CASE s \notin Alive
      <4>1. site' = site
        BY <1>2, <3>2
      <4> QED BY <3>2, <4>1 DEF Alive
    <3> QED BY <3>1, <3>2
  <2>6. \A m \in Names \ {n} : Serves(m)
    BY <1>2, <1>4 DEF ServerOK, AllServed
  <2>7. \A m \in Names \ {n} : Serves(m)'
    <3> HIDE DEF s, n
    <3> QED BY <1>1, <2>3, <2>4, <2>5, <2>6, OneRowSites
  <2>8. ServerOK(p)'
    BY <1>2, <2>7 DEF ServerOK
  <2> QED BY <1>2, <2>8 DEF InOrder, Busy
<1> QED BY <1>2, <1>3, <1>4, SitesAlone DEF InOrder

LEMMA DropCertSites ==
  ASSUME IInv, Past, Past', FilesOK, SitesOK, Quiet' => Quiet, NEW p \in Actors, DropCert(p)
  PROVE  SitesOK'
<1>1. UNCHANGED <<site, conf, left>>
  BY DEF DropCert
<1>2. /\ Others(p) /\ pc[p] = "drop" /\ pc'[p] = "files" /\ work'[p] = work[p]
      /\ mutex = p /\ work[p] \in Tasks
      /\ cert' = [cert EXCEPT ![work[p].site] = NoRow]
  BY DropCertStep
<1>3. Busy(p)
  BY <1>2 DEF Busy
<1>4. ASSUME Quiet, ServerOK(p) PROVE InOrder(p)'
  <2> DEFINE s == work[p].site  n == work[p].domain
  <2>1. ~Tangled /\ HolderOK(p)
    BY <1>2, <1>4, NotTangled, QuietIsClean, HolderOf
  <2>2. s \in Certs /\ cert[s].domain = n
    BY <1>2, <2>1 DEF HolderOK, StillThere, InTable
  <2>3. (s \in Alive => site[s].name = n) /\ (s \in Alive' => site'[s].name = n)
    <3>1. s \in Alive => site[s].name = n
      BY <2>1, <2>2, NameOfCert
    <3> QED BY <1>1, <3>1 DEF Alive
  <2>4. /\ s \in SiteIds /\ n \in Names
        /\ \A t \in SiteIds \ {s} : site'[t] = site[t] /\ cert'[t] = cert[t]
    BY <1>1, <1>2 DEF Tasks, IInv, TablesOK
  <2>5. \A m \in Names \ {n} : Serves(m)
    BY <1>2, <1>4 DEF ServerOK
  <2>6. \A m \in Names \ {n} : Serves(m)'
    <3> HIDE DEF s, n
    <3> QED BY <1>1, <2>3, <2>4, <2>5, OneRowSites
  <2>7. ServerOK(p)'
    BY <1>2, <2>6 DEF ServerOK
  <2> QED BY <1>2, <2>7 DEF InOrder, Busy
<1> QED BY <1>2, <1>3, <1>4, SitesAlone DEF InOrder

LEMMA RemovePairSites ==
  ASSUME IInv, Past, Past', SitesOK, Quiet' => Quiet, NEW p \in Actors, RemovePair(p)
  PROVE  SitesOK'
<1>1. UNCHANGED <<site, cert, conf, left>>
  BY DEF RemovePair, rows
<1>2. /\ Others(p) /\ pc[p] = "files" /\ pc'[p] = "generate"
      /\ deploys'[p] = <<work[p].domain>>
  BY RemovePairStep
<1>3. Busy(p)
  BY <1>2 DEF Busy
<1>4. ASSUME ServerOK(p) PROVE InOrder(p)'
  <2>1. \A n : Serves(n)' <=> Serves(n)
    <3>1. \A n : SitesOf(n)' = SitesOf(n)
      BY <1>1 DEF SitesOf, Alive
    <3>2. \A n : Rendered(n)' = Rendered(n)
      BY <1>1, <3>1 DEF Rendered, Certs
    <3> QED BY <1>1, <3>2 DEF Serves
  <2>2. ToSet(deploys[p])' = {work[p].domain}
    BY <1>2, OneToSet
  <2>3. ServerOK(p)'
    BY <1>2, <1>4, <2>1, <2>2 DEF ServerOK
  <2> QED BY <1>2, <2>3 DEF InOrder, Busy
<1> QED BY <1>2, <1>3, <1>4, SitesAlone DEF InOrder

-----------------------------------------------------------------------------
(* All steps. *)

LEMMA NextSites == IInv /\ Past /\ FilesOK /\ SitesOK /\ [Next]_vars => SitesOK'
<1> SUFFICES ASSUME IInv, Past, FilesOK, SitesOK, [Next]_vars PROVE SitesOK'
  OBVIOUS
<1>1. IInv'
  BY NextTypes
<1>2. CASE UNCHANGED vars
  <2>1. UNCHANGED SitesView /\ (Quiet' => Quiet) /\ UNCHANGED <<pc, work, deploys, plan>>
    BY <1>2 DEF vars, SitesView, Quiet, rows, pairs, locals, past
  <2> QED BY <2>1, SitesWait
<1>3. CASE Next
  <2>1. Past' /\ (Quiet' => Quiet /\ ~failed')
    <3>1. Past'
      BY <1>1, <1>3, Remembered DEF Next
    <3>2. met \subseteq met' /\ (tangled => tangled')
      <4>1. Remember
        BY <1>3 DEF Next
      <4> QED BY <4>1 DEF Remember
    <3>3. ~failed' => ~failed
      BY <1>3, FailedStays
    <3> QED BY <3>1, <3>2, <3>3 DEF Quiet
  <2>2. ASSUME NEW p \in Requests, Request(p) PROVE SitesOK'
    <3>a. p \in Actors
      BY DEF Actors
    <3>1. ASSUME NEW s \in SiteIds, NEW n \in Names, NEW ssl \in BOOLEAN, NEW on \in BOOLEAN,
                 Insert(p, s, n, ssl, on) \/ Update(p, s, n, ssl, on)
          PROVE  SitesOK'
      BY <2>1, <3>a, <3>1, InsertSites, UpdateSites
    <3>2. ASSUME NEW s \in SiteIds, NEW n \in Names, DeleteSite(p, s, n) PROVE SitesOK'
      BY <2>1, <3>a, <3>2, DeleteSiteSites
    <3>3. ASSUME NEW v, DeleteServer(p, v) PROVE SitesOK'
      BY <2>1, <3>a, <3>3, DeleteServerSites
    <3>4. ASSUME NEW op \in Locked, NEW s \in SiteIds, NEW n \in Names \cup {site[s].name}, Ask(p, op, s, n)
        PROVE  SitesOK'
      <4>1. Others(p) /\ pc'[p] = "lock" /\ UNCHANGED SitesView
        BY <3>a, <3>4, AskStep DEF Tables, Nginx, SitesView, Ask
      <4>2. ~Busy(p)
        BY <3>4 DEF Ask, Busy
      <4> QED BY <2>1, <3>a, <4>1, <4>2, WaitingSites
    <3>5. CASE Redeploy(p)
      BY <2>1, <3>a, <3>5, RedeploySites
    <3> QED BY <2>2, <3>1, <3>2, <3>3, <3>4, <3>5, RequestForms
  <2>3. ASSUME NEW p \in Actors, Continue(p) PROVE SitesOK'
    <3>1. CASE Generate(p) \/ WriteConf(p) \/ Reload(p)
      BY <2>1, <3>1, GenerateSites, WriteConfSites, ReloadSites
    <3>2. CASE UpdateServer(p) \/ PurgeSites(p) \/ PurgePairs(p) \/ Purged(p)
      BY <2>1, <3>2, UpdateServerSites, PurgeSitesSites, PurgePairsSites, PurgedSites
    <3>3. CASE Obtain(p) \/ WriteCrt(p) \/ WriteKey(p) \/ Refused(p)
      BY <2>1, <3>3, WritingSites, RefusedSites
    <3>4. CASE InsertCert(p) \/ UpdateCert(p) \/ ActivateSSL(p)
      BY <2>1, <3>4, InsertCertSites, UpdateCertSites, ActivateSSLSites
    <3>5. CASE Revoke(p) \/ DeactivateSSL(p) \/ DropCert(p) \/ RemovePair(p)
      BY <2>1, <3>5, RevokeSites, DeactivateSSLSites, DropCertSites, RemovePairSites
    <3> QED BY <2>3, <3>1, <3>2, <3>3, <3>4, <3>5 DEF Continue
  <2>4. ASSUME NEW p \in Actors, Lock(p) PROVE SitesOK'
    BY <2>1, <2>4, LockSites
  <2>5. CASE Scan \/ RenewNext
    <3>1. Renewer \in Actors
      BY DEF Actors
    <3>2. Others(Renewer) /\ pc'[Renewer] \in {"idle", "next", "lock"} /\ ~Busy(Renewer)
      BY <2>5, ScanStep, RenewNextStep DEF Busy
    <3>3. UNCHANGED SitesView
      BY <2>5 DEF Scan, RenewNext, SitesView, rows, pairs
    <3> QED BY <2>1, <3>1, <3>2, <3>3, WaitingSites
  <2>6. CASE Surroundings
    <3>1. ASSUME failed' PROVE SitesOK'
      BY <2>1, <3>1 DEF SitesOK
    <3>2. ASSUME NEW n \in Names, Lose(n) PROVE SitesOK'
      <4>1. UNCHANGED SitesView /\ UNCHANGED <<pc, work, deploys, plan>>
        BY <3>2 DEF Lose, SitesView, rows, pairs, locals
      <4> QED BY <2>1, <4>1, SitesWait
    <3>3. CASE Age
      <4>1. UNCHANGED SitesView /\ UNCHANGED <<pc, work, deploys, plan>>
        BY <3>3 DEF Age, SitesView, rows, pairs, locals
      <4> QED BY <2>1, <4>1, SitesWait
    <3>4. ASSUME Crash \/ \E p \in Actors : StepFails(p) \/ DeployFails(p) PROVE failed'
      BY <3>4 DEF Crash, StepFails, DeployFails
    <3> QED BY <2>6, <3>1, <3>2, <3>3, <3>4 DEF Surroundings
  <2> QED BY <1>3, <2>2, <2>3, <2>4, <2>5, <2>6 DEF Next
<1> QED BY <1>2, <1>3

LEMMA SitesAtFirst == Init => SitesOK
<1> SUFFICES ASSUME Init PROVE SitesOK
  OBVIOUS
<1>1. AllServed /\ InForce
  BY DEF Init, AllServed, Serves, InForce
<1>2. \A p \in Actors : ~Busy(p)
  BY DEF Init, Busy
<1> QED BY <1>1, <1>2 DEF SitesOK

\* Once operations that did not overlap are over, the files of nginx are what
\* the rows say, and nginx has loaded them unless it refuses them: an operation
\* deploys all the names whose rows it changes, after it has changed them.  Only a
\* name whose site was deleted by a form with another name is excepted, until the
\* name is deployed again.
THEOREM RowsServed == Spec => []ServesRows
<1>1. SitesOK => ServesRows
  BY DEF SitesOK, ServesRows, Quiet, AllServed, Serves, InForce
<1> QED BY <1>1, FilesAlways, SitesAtFirst, NextSites, PTL DEF Spec

-----------------------------------------------------------------------------
(* A file keeps the certificate of its name.  Whatever fails, overlaps or   *)
(* crashes, what is written to a file has the name of the file, as long as  *)
(* the table was not at odds with the names where it was read.              *)

FilesNamed == \A n \in Names : crt[n] # 0 => issued[crt[n]] = n

\* Where a goroutine is about to write a certificate, it is for that file.
WritesNamed(p) ==
  /\ pc[p] \in {"obtain", "crt"} => work[p].path = work[p].domain
  /\ pc[p] = "crt" => issued[work[p].pair] = work[p].domain

NamesOK == ~tangled => FilesNamed /\ \A p \in Actors : WritesNamed(p)

\* Steps that bring no goroutine to a place where it writes, and write nothing.
LEMMA NamesStay ==
  ASSUME NamesOK, tangled => tangled', issued' = issued,
         \A n \in Names : crt'[n] \in {0, crt[n]},
         \A q \in Actors : pc'[q] \in {"obtain", "crt"} => pc'[q] = pc[q] /\ work'[q] = work[q]
  PROVE  NamesOK'
<1>1. FilesNamed => FilesNamed'
  BY DEF FilesNamed
<1>2. \A q \in Actors : WritesNamed(q) => WritesNamed(q)'
  BY DEF WritesNamed
<1> QED BY <1>1, <1>2 DEF NamesOK

LEMMA NamesOthers ==
  ASSUME NamesOK, tangled => tangled', issued' = issued,
         NEW p \in Actors, Others(p), pc'[p] \notin {"obtain", "crt"},
         \A n \in Names : crt'[n] \in {0, crt[n]}
  PROVE  NamesOK'
<1>1. \A q \in Actors : pc'[q] \in {"obtain", "crt"} => pc'[q] = pc[q] /\ work'[q] = work[q]
  BY DEF Others
<1> QED BY <1>1, NamesStay

LEMMA LockNames ==
  ASSUME IInv, Past, NamesOK, tangled => tangled', NEW p \in Actors, Lock(p)
  PROVE  NamesOK'
<1>1. /\ IInv' /\ Others(p) /\ UNCHANGED <<crt, issued>>
      /\ \/ Ended(p)
         \/ /\ work'[p] \in Tasks /\ work'[p].op \in Locked /\ pc'[p] # "crt"
            /\ work'[p].op # "issue" =>
                 /\ work'[p].site \in Certs
                 /\ cert[work'[p].site].domain = work'[p].domain
                 /\ cert[work'[p].site].path = work'[p].path
  <2>1. UNCHANGED <<crt, issued>>
    BY DEF Lock, pairs, authority
  <2> QED BY <2>1, LockStep
<1>2. CASE Ended(p)
  BY <1>1, <1>2, NamesOthers DEF Ended
<1>3. CASE /\ work'[p] \in Tasks /\ work'[p].op \in Locked /\ pc'[p] # "crt"
           /\ work'[p].op # "issue" =>
                /\ work'[p].site \in Certs
                /\ cert[work'[p].site].domain = work'[p].domain
                /\ cert[work'[p].site].path = work'[p].path
  <2> SUFFICES ASSUME ~tangled' PROVE FilesNamed' /\ \A q \in Actors : WritesNamed(q)'
    BY DEF NamesOK
  <2>1. FilesNamed /\ \A q \in Actors : WritesNamed(q)
    BY DEF NamesOK
  <2>2. ~Tangled
    BY DEF Past, Noted
  <2>3. work'[p].path = work'[p].domain
    <3>1. CASE work'[p].op = "issue"
      <4>1. Fits(pc'[p], work'[p], deploys'[p])
        BY <1>1 DEF IInv, LocalsOK
      <4> QED BY <1>3, <3>1, <4>1 DEF Fits
    <3>2. CASE work'[p].op # "issue"
      BY <1>3, <2>2, <3>2 DEF Tangled
    <3> QED BY <3>1, <3>2
  <2>4. WritesNamed(p)'
    BY <1>3, <2>3 DEF WritesNamed
  <2>5. \A q \in Actors \ {p} : WritesNamed(q)'
    BY <1>1, <2>1 DEF WritesNamed, Others
  <2>6. FilesNamed'
    BY <1>1, <2>1 DEF FilesNamed
  <2> QED BY <2>4, <2>5, <2>6
<1> QED BY <1>1, <1>2, <1>3

LEMMA ObtainNames ==
  ASSUME IInv, NamesOK, tangled => tangled', NEW p \in Actors, Obtain(p)
  PROVE  NamesOK'
<1> SUFFICES ASSUME ~tangled' PROVE FilesNamed' /\ \A q \in Actors : WritesNamed(q)'
  BY DEF NamesOK
<1>1. FilesNamed /\ \A q \in Actors : WritesNamed(q)
  BY DEF NamesOK
<1>2. /\ Others(p) /\ pc[p] = "obtain"
      /\ work'[p].domain = work[p].domain /\ work'[p].path = work[p].path
      /\ issued'[work'[p].pair] = work'[p].domain
      /\ \A i \in Pair \ {0} : issued'[i] = issued[i]
  BY ObtainStep
<1>3. crt' = crt /\ crt \in [Names -> Pair]
  BY DEF Obtain, pairs, IInv, TablesOK
<1>4. FilesNamed'
  BY <1>1, <1>2, <1>3 DEF FilesNamed
<1>5. WritesNamed(p)'
  BY <1>1, <1>2 DEF WritesNamed
<1>6. ASSUME NEW q \in Actors \ {p} PROVE WritesNamed(q)'
  <2>1. pc'[q] = pc[q] /\ work'[q] = work[q]
    BY <1>2 DEF Others
  <2>2. pc[q] = "crt" => work[q].pair \in Pair \ {0}
    BY DEF IInv, PairsOK
  <2> QED BY <1>1, <1>2, <2>1, <2>2 DEF WritesNamed
<1> QED BY <1>4, <1>5, <1>6

LEMMA WriteCrtNames ==
  ASSUME IInv, NamesOK, tangled => tangled', NEW p \in Actors, WriteCrt(p)
  PROVE  NamesOK'
<1> SUFFICES ASSUME ~tangled' PROVE FilesNamed' /\ \A q \in Actors : WritesNamed(q)'
  BY DEF NamesOK
<1>1. FilesNamed /\ \A q \in Actors : WritesNamed(q)
  BY DEF NamesOK
<1>2. Others(p) /\ pc[p] = "crt" /\ pc'[p] = "key"
  BY WriteCrtStep
<1>3. crt' = [crt EXCEPT ![work[p].path] = work[p].pair] /\ issued' = issued /\ crt \in [Names -> Pair]
  BY DEF WriteCrt, authority, IInv, TablesOK
<1>4. issued[work[p].pair] = work[p].path
  BY <1>1, <1>2 DEF WritesNamed
<1>5. FilesNamed'
  BY <1>1, <1>3, <1>4 DEF FilesNamed
<1>6. \A q \in Actors : WritesNamed(q)'
  BY <1>1, <1>2, <1>3 DEF WritesNamed, Others
<1> QED BY <1>5, <1>6

LEMMA ContinueNames ==
  ASSUME IInv, NamesOK, tangled => tangled', NEW p \in Actors, Continue(p)
  PROVE  NamesOK'
<1>1. CASE Generate(p)
  <2>1. UNCHANGED <<crt, issued>> /\ pc[p] = "generate"
    BY <1>1 DEF Generate, pairs, authority
  <2>2. Others(p) /\ pc'[p] \notin {"obtain", "crt"}
    <3>1. CASE NextName(p)
      BY <2>1, <3>1, NextNameLocals DEF IInv, Ended
    <3>2. CASE Goto(p, "write") /\ UNCHANGED <<work, deploys>>
               /\ plan' = [plan EXCEPT ![p] = Rendered(Head(deploys[p]))]
      BY <3>2 DEF Goto, Others, IInv, LocalsOK
    <3> QED BY <1>1, <3>1, <3>2 DEF Generate
  <2> QED BY <2>1, <2>2, NamesOthers
<1>2. CASE WriteConf(p)
  <2>1. UNCHANGED <<crt, issued>> /\ Others(p) /\ pc'[p] = "reload"
    BY <1>2 DEF WriteConf, pairs, authority, Goto, Others, IInv, LocalsOK
  <2> QED BY <2>1, NamesOthers
<1>3. CASE Reload(p)
  <2>1. UNCHANGED <<crt, issued>> /\ pc[p] = "reload" /\ NextName(p)
    BY <1>3 DEF Reload, pairs, authority
  <2>2. Others(p) /\ pc'[p] \notin {"obtain", "crt"}
    BY <2>1, NextNameLocals DEF IInv, Ended
  <2> QED BY <2>1, <2>2, NamesOthers
<1>4. CASE UpdateServer(p) \/ PurgeSites(p) \/ Purged(p)
  <2>1. UNCHANGED <<crt, issued>>
    BY <1>4 DEF UpdateServer, PurgeSites, Purged, pairs, authority
  <2>2. Others(p) /\ pc'[p] \notin {"obtain", "crt"}
    BY <1>4, UpdateServerStep, PurgeSitesStep, PurgedStep DEF Ended
  <2> QED BY <2>1, <2>2, NamesOthers
<1>5. CASE PurgePairs(p)
  <2>1. issued' = issued /\ \A n \in Names : crt'[n] \in {0, crt[n]}
    BY <1>5 DEF PurgePairs, authority
  <2>2. Others(p) /\ pc'[p] = "purged"
    BY <1>5, PurgePairsStep
  <2> QED BY <2>1, <2>2, NamesOthers
<1>6. CASE Obtain(p) \/ WriteCrt(p)
  BY <1>6, ObtainNames, WriteCrtNames
<1>7. CASE Refused(p) \/ WriteKey(p)
  <2>1. UNCHANGED <<crt, issued>>
    BY <1>7 DEF Refused, WriteKey, pairs, authority
  <2>2. Others(p) /\ pc'[p] \notin {"obtain", "crt"}
    BY <1>7, RefusedStep, WriteKeyStep DEF Ended
  <2> QED BY <2>1, <2>2, NamesOthers
<1>8. CASE InsertCert(p) \/ UpdateCert(p) \/ ActivateSSL(p)
  <2>1. UNCHANGED <<crt, issued>>
    BY <1>8 DEF InsertCert, UpdateCert, ActivateSSL, pairs, authority
  <2>2. Others(p) /\ pc'[p] \notin {"obtain", "crt"}
    BY <1>8, InsertCertStep, UpdateCertStep, ActivateSSLStep DEF Ended
  <2> QED BY <2>1, <2>2, NamesOthers
<1>9. CASE Revoke(p) \/ DeactivateSSL(p) \/ DropCert(p)
  <2>1. UNCHANGED <<crt, issued>>
    BY <1>9 DEF Revoke, DeactivateSSL, DropCert, pairs, authority
  <2>2. Others(p) /\ pc'[p] \notin {"obtain", "crt"}
    BY <1>9, RevokeStep, DeactivateSSLStep, DropCertStep DEF Ended
  <2> QED BY <2>1, <2>2, NamesOthers
<1>10. CASE RemovePair(p)
  <2>1. issued' = issued /\ \A n \in Names : crt'[n] \in {0, crt[n]}
    BY <1>10 DEF RemovePair, authority, IInv, TablesOK
  <2>2. Others(p) /\ pc'[p] = "generate"
    BY <1>10, RemovePairStep
  <2> QED BY <2>1, <2>2, NamesOthers
<1> QED BY <1>1, <1>2, <1>3, <1>4, <1>5, <1>6, <1>7, <1>8, <1>9, <1>10 DEF Continue

LEMMA RequestNames ==
  ASSUME IInv, NamesOK, tangled => tangled', NEW p \in Requests, Request(p)
  PROVE  NamesOK'
<1>a. p \in Actors
  BY DEF Actors
<1>1. ASSUME NEW s \in SiteIds, NEW n \in Names, NEW ssl \in BOOLEAN, NEW on \in BOOLEAN,
             Insert(p, s, n, ssl, on) \/ Update(p, s, n, ssl, on)
      PROVE  NamesOK'
  <2>1. UNCHANGED <<crt, issued>>
    BY <1>1 DEF Insert, Update, pairs, authority
  <2>2. Others(p) /\ pc'[p] \notin {"obtain", "crt"}
    BY <1>a, <1>1, InsertStep, UpdateStep
  <2> QED BY <1>a, <2>1, <2>2, NamesOthers
<1>2. ASSUME NEW s \in SiteIds, NEW n \in Names, DeleteSite(p, s, n) PROVE NamesOK'
  <2>1. UNCHANGED <<crt, issued>>
    BY <1>2 DEF DeleteSite, pairs, authority
  <2>2. Others(p) /\ pc'[p] = "generate"
    BY <1>a, <1>2, DeleteSiteStep
  <2> QED BY <1>a, <2>1, <2>2, NamesOthers
<1>3. ASSUME NEW v, DeleteServer(p, v) PROVE NamesOK'
  <2>1. UNCHANGED <<crt, issued>>
    BY <1>3 DEF DeleteServer, pairs, authority
  <2>2. Others(p) /\ pc'[p] = "purge"
    BY <1>a, <1>3, DeleteServerStep
  <2> QED BY <1>a, <2>1, <2>2, NamesOthers
<1>4. ASSUME NEW op \in Locked, NEW s \in SiteIds, NEW n \in Names \cup {site[s].name}, Ask(p, op, s, n)
        PROVE  NamesOK'
  <2>1. UNCHANGED <<crt, issued>> /\ Others(p) /\ pc'[p] = "lock"
    BY <1>a, <1>4, AskStep DEF Tables
  <2> QED BY <1>a, <2>1, NamesOthers
<1>5. CASE Redeploy(p)
  <2>1. UNCHANGED <<crt, issued>>
    BY <1>5 DEF Redeploy, pairs, authority
  <2>2. Others(p) /\ pc'[p] = "generate"
    BY <1>a, <1>5, RedeployStep
  <2> QED BY <1>a, <2>1, <2>2, NamesOthers
<1> QED BY <1>1, <1>2, <1>3, <1>4, <1>5, RequestForms

LEMMA SurroundingsNames ==
  ASSUME IInv, NamesOK, tangled => tangled', Surroundings
  PROVE  NamesOK'
<1>1. issued' = issued /\ crt' = crt
  BY DEF Surroundings, Age, Crash, Lose, StepFails, DeployFails, pairs, authority
<1>2. CASE Age \/ \E n \in Names : Lose(n)
  <2>1. UNCHANGED <<pc, work>>
    BY <1>2 DEF Age, Lose, locals
  <2> QED BY <1>1, <2>1, NamesStay
<1>3. CASE Crash
  <2>1. \A q \in Actors : pc'[q] = "idle"
    BY <1>3 DEF Crash
  <2> QED BY <1>1, <2>1, NamesStay
<1>4. ASSUME NEW p \in Actors, StepFails(p) PROVE NamesOK'
  BY <1>1, <1>4, StepFailsStep, NamesOthers DEF Ended
<1>5. ASSUME NEW p \in Actors, DeployFails(p) PROVE NamesOK'
  <2>1. pc[p] \in {"generate", "write", "reload"} /\ NextName(p)
    BY <1>5 DEF DeployFails
  <2>2. Others(p) /\ pc'[p] \notin {"obtain", "crt"}
    BY <2>1, NextNameLocals DEF IInv, Ended
  <2> QED BY <1>1, <2>2, NamesOthers
<1> QED BY <1>2, <1>3, <1>4, <1>5 DEF Surroundings

LEMMA NextNames == IInv /\ Past /\ NamesOK /\ [Next]_vars => NamesOK'
<1> SUFFICES ASSUME IInv, Past, NamesOK, [Next]_vars PROVE NamesOK'
  OBVIOUS
<1>1. CASE UNCHANGED vars
  <2>1. UNCHANGED <<pc, work, crt, issued, tangled>>
    BY <1>1 DEF vars, rows, pairs, authority, locals, past
  <2> QED BY <2>1, NamesStay
<1>2. CASE Next
  <2>1. tangled => tangled'
    BY <1>2 DEF Next, Remember
  <2>2. ASSUME NEW p \in Requests, Request(p) PROVE NamesOK'
    BY <2>1, <2>2, RequestNames
  <2>3. ASSUME NEW p \in Actors, Continue(p) PROVE NamesOK'
    BY <2>1, <2>3, ContinueNames
  <2>4. ASSUME NEW p \in Actors, Lock(p) PROVE NamesOK'
    BY <2>1, <2>4, LockNames
  <2>5. CASE Scan \/ RenewNext
    <3>1. Renewer \in Actors
      BY DEF Actors
    <3>2. Others(Renewer) /\ pc'[Renewer] \in {"idle", "next", "lock"} /\ UNCHANGED <<crt, issued>>
      BY <2>5, ScanStep, RenewNextStep DEF Tables
    <3> QED BY <2>1, <3>1, <3>2, NamesOthers
  <2>6. CASE Surroundings
    BY <2>1, <2>6, SurroundingsNames
  <2> QED BY <1>2, <2>2, <2>3, <2>4, <2>5, <2>6 DEF Next
<1> QED BY <1>1, <1>2

LEMMA NamesAtFirst == Init => NamesOK
<1> SUFFICES ASSUME Init PROVE NamesOK
  OBVIOUS
<1>1. \A p \in Actors : WritesNamed(p)
  BY DEF Init, WritesNamed
<1>2. ASSUME NEW n \in Names, crt[n] # 0 PROVE issued[crt[n]] = n
  <2> DEFINE its == {s \in Certs : cert[s].path = n}
  <2>1. crt[n] = IF its = {} THEN 0 ELSE cert[CHOOSE s \in its : TRUE].expires
    BY DEF Init
  <2>2. PICK s \in Certs : cert[s].path = n /\ crt[n] = cert[s].expires
    BY <1>2, <2>1
  <2> QED BY <2>2, AtFirst
<1> QED BY <1>1, <1>2 DEF NamesOK, FilesNamed

\* The only cause of what RenewalKeepsName is violated by: as long as rows and
\* names are not at odds, a file that holds the certificate of its name is never
\* overwritten with one of another name, whatever overlaps, fails or crashes.
THEOREM NamesKept == Spec /\ []~tangled => RenewalKeepsName
<1> DEFINE Keeps == \A n \in Names :
             crt[n] # 0 /\ issued[crt[n]] = n /\ crt'[n] # 0 => issued'[crt'[n]] = n
<1>1. ASSUME NamesOK', ~tangled' PROVE Keeps
  BY <1>1 DEF NamesOK, FilesNamed
<1>2. Spec => []NamesOK
  BY FilesAlways, NamesAtFirst, NextNames, PTL DEF Spec
<1>3. Spec /\ []~tangled => [][Keeps]_vars
  BY <1>1, <1>2, PTL DEF Spec
<1> QED BY <1>3 DEF RenewalKeepsName
-----------------------------------------------------------------------------
(* What nginx has loaded is of its own site, and in force. *)

\* A deletion has revoked the certificate of a name, and is to remove its files.
Removes(p, n) == pc[p] \in {"unssl", "drop", "files"} /\ work[p].domain = n

RevokedOK == Clean => \A n \in Names : crt[n] \in revoked => \E p \in Actors : Removes(p, n)

LEMMA RevokedStays ==
  ASSUME IInv, RevokedOK, Clean' => Clean, revoked' = revoked,
         \A n \in Names : crt'[n] \in {0, crt[n]},
         \A q \in Actors, n \in Names : Removes(q, n) => Removes(q, n)' \/ crt'[n] = 0
  PROVE  RevokedOK'
<1> SUFFICES ASSUME Clean', NEW n \in Names, crt'[n] \in revoked' PROVE \E p \in Actors : Removes(p, n)'
  BY DEF RevokedOK
<1>1. 0 \notin revoked
  BY DEF IInv, TablesOK
<1>2. crt'[n] # 0 /\ crt'[n] = crt[n]
  BY <1>1
<1>3. PICK p \in Actors : Removes(p, n)
  BY <1>2 DEF RevokedOK
<1> QED BY <1>2, <1>3

\* A goroutine takes a step that is not one of a deletion that has revoked.
LEMMA RevokedOthers ==
  ASSUME IInv, RevokedOK, Clean' => Clean, revoked' = revoked,
         NEW p \in Actors, Others(p), pc[p] \notin {"unssl", "drop", "files"},
         \A n \in Names : crt'[n] \in {0, crt[n]}
  PROVE  RevokedOK'
<1>1. ASSUME NEW q \in Actors, NEW n \in Names, Removes(q, n) PROVE Removes(q, n)'
  BY <1>1 DEF Removes, Others
<1> QED BY <1>1, RevokedStays

LEMMA WriteCrtRevoked ==
  ASSUME IInv, Past, FilesOK, RevokedOK, Clean' => Clean, NEW p \in Actors, WriteCrt(p)
  PROVE  RevokedOK'
<1> SUFFICES ASSUME Clean', NEW n \in Names, crt'[n] \in revoked' PROVE \E q \in Actors : Removes(q, n)'
  BY DEF RevokedOK
<1>1. Others(p) /\ pc[p] = "crt" /\ mutex = p
  BY WriteCrtStep
<1>2. /\ crt' = [crt EXCEPT ![work[p].path] = work[p].pair] /\ revoked' = revoked
      /\ crt \in [Names -> Pair]
  BY DEF WriteCrt, authority, IInv, TablesOK
<1>3. work[p].pair \notin revoked
  BY <1>1, HolderOf DEF HolderOK
<1>4. crt'[n] = crt[n]
  BY <1>2, <1>3
<1>5. PICK q \in Actors : Removes(q, n)
  BY <1>2, <1>4 DEF RevokedOK
<1> QED BY <1>1, <1>5 DEF Removes, Others

\* A pair is of one name, so that no other file holds what is revoked.
LEMMA RevokeRevoked ==
  ASSUME IInv, Past, FilesOK, NamesOK, RevokedOK, Clean' => Clean, NEW p \in Actors, Revoke(p)
  PROVE  RevokedOK'
<1>1. /\ Others(p) /\ pc[p] = "revoke" /\ mutex = p /\ work[p] \in Tasks
      /\ \/ Ended(p) /\ revoked' = revoked
         \/ /\ pc'[p] = "unssl" /\ work'[p] = work[p]
            /\ revoked' = revoked \cup ({crt[work[p].path]} \ {0})
  BY RevokeStep
<1>2. crt' = crt
  BY DEF Revoke, pairs
<1>3. CASE revoked' = revoked
  BY <1>1, <1>2, <1>3, RevokedOthers
<1>4. CASE /\ pc'[p] = "unssl" /\ work'[p] = work[p]
           /\ revoked' = revoked \cup ({crt[work[p].path]} \ {0})
  <2> SUFFICES ASSUME Clean', NEW n \in Names, crt'[n] \in revoked' PROVE \E q \in Actors : Removes(q, n)'
    BY DEF RevokedOK
  <2>1. CASE crt[n] \in revoked
    <3>1. PICK q \in Actors : Removes(q, n)
      BY <2>1 DEF RevokedOK
    <3> QED BY <1>1, <3>1 DEF Removes, Others
  <2>2. CASE crt[n] \notin revoked
    <3>1. crt[n] = crt[work[p].path] /\ crt[n] # 0
      BY <1>2, <1>4, <2>2
    <3>2. ~Tangled /\ HolderOK(p) /\ FilesNamed
      BY <1>1, NotTangled, HolderOf DEF NamesOK, Clean
    <3>3. work[p].site \in Certs /\ cert[work[p].site].domain = work[p].domain
          /\ cert[work[p].site].path = work[p].path
      BY <1>1, <3>2 DEF HolderOK, StillThere, InTable
    <3>4. work[p].domain = work[p].path
      BY <3>2, <3>3 DEF Tangled
    <3>5. work[p].path \in Names
      BY <1>1, <3>4 DEF Tasks
    <3>6. n = work[p].path
      BY <3>1, <3>2, <3>5 DEF FilesNamed
    <3>7. Removes(p, n)'
      BY <1>4, <3>4, <3>6 DEF Removes
    <3> QED BY <3>7
  <2> QED BY <2>1, <2>2
<1> QED BY <1>1, <1>3, <1>4

LEMMA RemovalRevoked ==
  ASSUME IInv, RevokedOK, Clean' => Clean, NEW p \in Actors,
         DeactivateSSL(p) \/ DropCert(p) \/ RemovePair(p)
  PROVE  RevokedOK'
<1>1. CASE DeactivateSSL(p) \/ DropCert(p)
  <2>1. revoked' = revoked /\ crt' = crt
    BY <1>1 DEF DeactivateSSL, DropCert, pairs, authority
  <2>2. Others(p) /\ pc'[p] \in {"unssl", "drop", "files"} /\ work'[p] = work[p]
    BY <1>1, DeactivateSSLStep, DropCertStep
  <2>3. ASSUME NEW q \in Actors, NEW n \in Names, Removes(q, n) PROVE Removes(q, n)'
    BY <2>2, <2>3 DEF Removes, Others
  <2> QED BY <2>1, <2>3, RevokedStays
<1>2. CASE RemovePair(p)
  <2>1. revoked' = revoked /\ crt' = [crt EXCEPT ![work[p].domain] = 0] /\ crt \in [Names -> Pair]
    BY <1>2 DEF RemovePair, authority, IInv, TablesOK
  <2>2. Others(p)
    BY <1>2, RemovePairStep
  <2>3. ASSUME NEW q \in Actors, NEW n \in Names, Removes(q, n) PROVE Removes(q, n)' \/ crt'[n] = 0
    BY <2>1, <2>2, <2>3 DEF Removes, Others
  <2> QED BY <2>1, <2>3, RevokedStays
<1> QED BY <1>1, <1>2

LEMMA ContinueRevoked ==
  ASSUME IInv, Past, FilesOK, NamesOK, RevokedOK, Clean' => Clean, NEW p \in Actors, Continue(p)
  PROVE  RevokedOK'
<1>1. CASE Generate(p) \/ Reload(p)
  <2>1. UNCHANGED <<crt, revoked>> /\ pc[p] \in {"generate", "reload"}
    BY <1>1 DEF Generate, Reload, pairs, authority
  <2>2. Others(p)
    <3>1. CASE NextName(p)
      BY <2>1, <3>1, NextNameLocals DEF IInv
    <3>2. CASE Goto(p, "write") /\ UNCHANGED <<work, deploys>>
               /\ plan' = [plan EXCEPT ![p] = Rendered(Head(deploys[p]))]
      BY <3>2 DEF Goto, Others, IInv, LocalsOK
    <3> QED BY <1>1, <3>1, <3>2 DEF Generate, Reload
  <2> QED BY <2>1, <2>2, RevokedOthers
<1>2. CASE WriteConf(p)
  <2>1. UNCHANGED <<crt, revoked>> /\ Others(p) /\ pc[p] = "write"
    BY <1>2 DEF WriteConf, pairs, authority, Goto, Others, IInv, LocalsOK
  <2> QED BY <2>1, RevokedOthers
<1>3. CASE UpdateServer(p) \/ PurgeSites(p) \/ PurgePairs(p) \/ Purged(p)
  <2>1. revoked' = revoked /\ \A n \in Names : crt'[n] \in {0, crt[n]}
    BY <1>3 DEF UpdateServer, PurgeSites, PurgePairs, Purged, pairs, authority
  <2>2. Others(p) /\ pc[p] \notin {"unssl", "drop", "files"}
    BY <1>3, UpdateServerStep, PurgeSitesStep, PurgePairsStep, PurgedStep DEF UpdateServer
  <2> QED BY <2>1, <2>2, RevokedOthers
<1>4. CASE Obtain(p) \/ Refused(p) \/ WriteKey(p)
  <2>1. UNCHANGED <<crt, revoked>>
    BY <1>4 DEF Obtain, Refused, WriteKey, pairs, authority
  <2>2. Others(p) /\ pc[p] \notin {"unssl", "drop", "files"}
    BY <1>4, ObtainStep, RefusedStep, WriteKeyStep
  <2> QED BY <2>1, <2>2, RevokedOthers
<1>5. CASE InsertCert(p) \/ UpdateCert(p) \/ ActivateSSL(p)
  <2>1. UNCHANGED <<crt, revoked>>
    BY <1>5 DEF InsertCert, UpdateCert, ActivateSSL, pairs, authority
  <2>2. Others(p) /\ pc[p] \notin {"unssl", "drop", "files"}
    BY <1>5, InsertCertStep, UpdateCertStep, ActivateSSLStep
  <2> QED BY <2>1, <2>2, RevokedOthers
<1>6. CASE WriteCrt(p) \/ Revoke(p) \/ DeactivateSSL(p) \/ DropCert(p) \/ RemovePair(p)
  BY <1>6, WriteCrtRevoked, RevokeRevoked, RemovalRevoked
<1> QED BY <1>1, <1>2, <1>3, <1>4, <1>5, <1>6 DEF Continue

LEMMA RequestRevoked ==
  ASSUME IInv, RevokedOK, Clean' => Clean, NEW p \in Requests, Request(p)
  PROVE  RevokedOK'
<1>a. p \in Actors
  BY DEF Actors
<1>1. ASSUME NEW s \in SiteIds, NEW n \in Names, NEW ssl \in BOOLEAN, NEW on \in BOOLEAN,
             Insert(p, s, n, ssl, on) \/ Update(p, s, n, ssl, on)
      PROVE  UNCHANGED <<crt, revoked>> /\ Others(p) /\ pc[p] = "idle"
  <2>1. UNCHANGED <<crt, revoked>> /\ pc[p] = "idle"
    BY <1>1 DEF Insert, Update, pairs, authority
  <2> QED BY <1>a, <1>1, <2>1, InsertStep, UpdateStep
<1>2. ASSUME NEW s \in SiteIds, NEW n \in Names, DeleteSite(p, s, n)
      PROVE  UNCHANGED <<crt, revoked>> /\ Others(p) /\ pc[p] = "idle"
  <2>1. UNCHANGED <<crt, revoked>> /\ pc[p] = "idle"
    BY <1>2 DEF DeleteSite, pairs, authority
  <2> QED BY <1>a, <1>2, <2>1, DeleteSiteStep
<1>3. ASSUME NEW v, DeleteServer(p, v) PROVE UNCHANGED <<crt, revoked>> /\ Others(p) /\ pc[p] = "idle"
  <2>1. UNCHANGED <<crt, revoked>> /\ pc[p] = "idle"
    BY <1>3 DEF DeleteServer, pairs, authority
  <2> QED BY <1>a, <1>3, <2>1, DeleteServerStep
<1>4. ASSUME NEW op \in Locked, NEW s \in SiteIds, NEW n \in Names \cup {site[s].name}, Ask(p, op, s, n)
      PROVE  UNCHANGED <<crt, revoked>> /\ Others(p) /\ pc[p] = "idle"
  <2>1. UNCHANGED <<crt, revoked>> /\ pc[p] = "idle"
    BY <1>4 DEF Ask, pairs, authority
  <2> QED BY <1>a, <1>4, <2>1, AskStep
<1>5. ASSUME Redeploy(p) PROVE UNCHANGED <<crt, revoked>> /\ Others(p) /\ pc[p] = "idle"
  <2>1. UNCHANGED <<crt, revoked>> /\ pc[p] = "idle"
    BY <1>5 DEF Redeploy, pairs, authority
  <2> QED BY <1>a, <1>5, <2>1, RedeployStep
<1>6. UNCHANGED <<crt, revoked>> /\ Others(p) /\ pc[p] = "idle"
  BY <1>1, <1>2, <1>3, <1>4, <1>5, RequestForms
<1> QED BY <1>a, <1>6, RevokedOthers

LEMMA NextRevoked ==
  IInv /\ Past /\ FilesOK /\ NamesOK /\ RevokedOK /\ [Next]_vars => RevokedOK'
<1> SUFFICES ASSUME IInv, Past, FilesOK, NamesOK, RevokedOK, [Next]_vars PROVE RevokedOK'
  OBVIOUS
<1>1. CASE UNCHANGED vars
  <2>1. UNCHANGED <<pc, work, crt, revoked>> /\ (Clean' => Clean)
    BY <1>1 DEF vars, rows, pairs, authority, locals, past, Clean
  <2> QED BY <2>1, RevokedStays DEF Removes
<1>2. CASE Next
  <2>1. Clean' => Clean /\ ~failed'
    BY <1>2, CleanBefore
  <2>2. ASSUME NEW p \in Requests, Request(p) PROVE RevokedOK'
    BY <2>1, <2>2, RequestRevoked
  <2>3. ASSUME NEW p \in Actors, Continue(p) PROVE RevokedOK'
    BY <2>1, <2>3, ContinueRevoked
  <2>4. ASSUME NEW p \in Actors, Lock(p) PROVE RevokedOK'
    <3>1. UNCHANGED <<crt, revoked>> /\ Others(p) /\ pc[p] = "lock"
      BY <2>4, LockStep DEF Lock, pairs, authority
    <3> QED BY <2>1, <3>1, RevokedOthers
  <2>5. CASE Scan \/ RenewNext
    <3>1. Renewer \in Actors
      BY DEF Actors
    <3>2. Others(Renewer) /\ UNCHANGED <<crt, revoked>> /\ pc[Renewer] \in {"idle", "next"}
      BY <2>5, ScanStep, RenewNextStep DEF Scan, RenewNext, pairs, authority
    <3> QED BY <2>1, <3>1, <3>2, RevokedOthers
  <2>6. CASE Surroundings
    <3>1. CASE Age \/ \E n \in Names : Lose(n)
      <4>1. UNCHANGED <<pc, work, crt, revoked>>
        BY <3>1 DEF Age, Lose, pairs, locals
      <4> QED BY <2>1, <4>1, RevokedStays DEF Removes
    <3>2. CASE Crash \/ \E p \in Actors : StepFails(p) \/ DeployFails(p)
      <4>1. failed'
        BY <3>2 DEF Crash, StepFails, DeployFails
      <4> QED BY <2>1, <4>1 DEF RevokedOK
    <3> QED BY <2>6, <3>1, <3>2 DEF Surroundings
  <2> QED BY <1>2, <2>2, <2>3, <2>4, <2>5, <2>6 DEF Next
<1> QED BY <1>1, <1>2

\* The file of a name asks for no certificate but that of the name.
ConfOK == Quiet => \A n \in Names : \A b \in conf[n] : b.tls \in {n, Plain, Missing}

LEMMA RenderedOwn ==
  ASSUME ~Tangled, NEW n, NEW b \in Rendered(n) PROVE b.tls \in {n, Plain, Missing}
<1>1. PICK s \in SitesOf(n) :
        b = [id |-> s, tls |-> CASE ~site[s].ssl -> Plain
                                 [] site[s].ssl /\ s \in Certs -> cert[s].path
                                 [] OTHER -> Missing]
  BY DEF Rendered
<1>2. s \in Alive /\ site[s].name = n
  BY DEF SitesOf
<1>3. s \in Certs => cert[s].path = n
  BY <1>2, NameOfCert
<1>4. CASE ~site[s].ssl
  BY <1>1, <1>4
<1>5. CASE site[s].ssl /\ s \in Certs
  BY <1>1, <1>3, <1>5
<1>6. CASE site[s].ssl /\ s \notin Certs
  BY <1>1, <1>6
<1> QED BY <1>4, <1>5, <1>6

LEMMA NextConf == IInv /\ Past /\ SitesOK /\ ConfOK /\ [Next]_vars => ConfOK'
<1> SUFFICES ASSUME IInv, Past, SitesOK, ConfOK, [Next]_vars, Quiet'
             PROVE  \A n \in Names : \A b \in conf'[n] : b.tls \in {n, Plain, Missing}
  BY DEF ConfOK
<1>1. Quiet
  <2>1. CASE UNCHANGED vars
    BY <2>1 DEF vars, past, Quiet
  <2>2. CASE Next
    <3>1. Remember
      BY <2>2 DEF Next
    <3>2. met \subseteq met' /\ (tangled => tangled')
      BY <3>1 DEF Remember
    <3> QED BY <2>2, <3>2, FailedStays DEF Quiet
  <2> QED BY <2>1, <2>2
<1>2. \A n \in Names : \A b \in conf[n] : b.tls \in {n, Plain, Missing}
  BY <1>1 DEF ConfOK
<1>3. conf \in [Names -> SUBSET Block]
  BY DEF IInv, NginxOK
<1>4. ASSUME NEW p \in Actors, WriteConf(p)
      PROVE  \A n \in Names : \A b \in conf'[n] : b.tls \in {n, Plain, Missing}
  <2>1. pc[p] = "write" /\ Busy(p) /\ conf' = [conf EXCEPT ![Head(deploys[p])] = plan[p]]
    BY <1>4 DEF WriteConf, Busy
  <2>2. plan[p] = Rendered(Head(deploys[p]))
    BY <1>1, <2>1 DEF SitesOK, ServerOK
  <2>3. ~Tangled
    BY <1>1, NotTangled, QuietIsClean
  <2>4. \A b \in plan[p] : b.tls \in {Head(deploys[p]), Plain, Missing}
    BY <2>2, <2>3, RenderedOwn
  <2> QED BY <1>2, <1>3, <2>1, <2>4
<1>5. ASSUME NEW p \in Actors, PurgeSites(p)
      PROVE  \A n \in Names : \A b \in conf'[n] : b.tls \in {n, Plain, Missing}
  BY <1>2, <1>5 DEF PurgeSites
<1>6. ASSUME NEW p \in Actors, Continue(p), ~WriteConf(p), ~PurgeSites(p) PROVE conf' = conf
  BY <1>6 DEF Continue, Generate, Reload, UpdateServer, PurgePairs, Purged,
              Obtain, Refused, WriteCrt, WriteKey, InsertCert, UpdateCert, ActivateSSL,
              Revoke, DeactivateSSL, DropCert, RemovePair
<1>7. ASSUME NEW p \in Requests, Request(p) PROVE conf' = conf
  BY <1>7 DEF Request, Insert, Update, DeleteSite, DeleteServer, Ask, Redeploy
<1>8. ASSUME NEW p \in Actors, Lock(p) PROVE conf' = conf
  BY <1>8 DEF Lock
<1>9. ASSUME Scan \/ RenewNext \/ Surroundings \/ UNCHANGED vars PROVE conf' = conf
  BY <1>9 DEF Scan, RenewNext, Surroundings, Age, Crash, Lose, StepFails, DeployFails, vars
<1> QED BY <1>2, <1>4, <1>5, <1>6, <1>7, <1>8, <1>9 DEF Next

LEMMA OwnAtFirst == Init => ConfOK /\ RevokedOK
<1> SUFFICES ASSUME Init PROVE ConfOK /\ RevokedOK
  OBVIOUS
<1>1. RevokedOK
  BY DEF Init, RevokedOK
<1>2. ~Tangled
  BY PastAtFirst DEF Init, Past, Noted
<1>3. ASSUME NEW n \in Names, NEW b \in conf[n] PROVE b.tls \in {n, Plain, Missing}
  <2>1. conf[n] = Rendered(n)
    BY DEF Init
  <2> QED BY <1>2, <2>1, RenderedOwn
<1> QED BY <1>1, <1>3 DEF ConfOK

\* Once operations that did not overlap are over, and nginx accepts its files, it
\* serves every name with pairs issued for that name, none of them revoked, also
\* a name that a deletion has left as it was: a certificate that is deleted is out
\* of use as soon as its deletion is over.
THEOREM OwnPairsServed == Spec => []ServesOwnPairs
<1>1. ASSUME SitesOK, NamesOK, RevokedOK, ConfOK PROVE ServesOwnPairs
  <2> SUFFICES ASSUME \A p \in Actors : ~Busy(p), Quiet, Accepted,
                      NEW n \in Names, NEW block \in live[n], block.pair # 0
               PROVE  issued[block.pair] = n /\ block.pair \notin revoked
    BY DEF ServesOwnPairs, Quiet
  <2>1. live = Loaded
    BY <1>1 DEF SitesOK, InForce
  <2>2. PICK b \in conf[n] : block = [id |-> b.id, pair |-> IF b.tls = Plain THEN 0 ELSE crt[b.tls]]
    BY <2>1 DEF Loaded
  <2>3. b.tls # Plain /\ block.pair = crt[b.tls]
    BY <2>2
  <2>4. b.tls = n
    BY <1>1, <2>3, CertificatesAssumption DEF Accepted, ConfOK
  <2>5. issued[block.pair] = n
    BY <1>1, <2>3, <2>4 DEF NamesOK, FilesNamed, Quiet
  <2>6. \A p \in Actors : ~Removes(p, n)
    BY DEF Removes, Busy
  <2>7. block.pair \notin revoked
    BY <1>1, <2>3, <2>4, <2>6, QuietIsClean DEF RevokedOK
  <2> QED BY <2>5, <2>7
<1>2. Spec => [](IInv /\ Past /\ FilesOK /\ NamesOK)
  BY FilesAlways, NamesAtFirst, NextNames, PTL DEF Spec
<1>3. Spec => []SitesOK
  BY FilesAlways, SitesAtFirst, NextSites, PTL DEF Spec
<1>4. Spec => [](RevokedOK /\ ConfOK)
  BY <1>2, <1>3, OwnAtFirst, NextRevoked, NextConf, PTL DEF Spec
<1> QED BY <1>1, <1>2, <1>3, <1>4, PTL
===============================================================================

---------------------------- MODULE Certificates -----------------------------
(***************************************************************************)
(* The sites nginx serves and their certificates: the rows of              *)
(* server_configuration and certificates, the files of nginx and of the    *)
(* certificates, and the goroutines that change them.                      *)
(*   src/internal/services/serverconfiguration_service.go                  *)
(*   src/internal/services/nginx_config.go (buildNginxConfig)              *)
(*   src/internal/services/certificate_renewal.go                          *)
(*   src/internal/services/server_service.go (DeleteServer)                *)
(* Operations on certificates share a mutex; saving, deleting and          *)
(* redeploying sites and deleting a server take none.  A deployment reads  *)
(* the rows of a name, writes its file, and reloads nginx if "nginx -t"    *)
(* accepts all files; the file stays as written if it does not.            *)
(*                                                                         *)
(* A certificate and its key are a pair, numbered as the authority issues  *)
(* them; 0 is no file.  All are valid for as long, so a smaller number     *)
(* expires earlier.  Certificate files are named after a domain: a path is *)
(* a name.  Ports, redirects and what else a file says are left out.       *)
(***************************************************************************)
EXTENDS Naturals, Sequences, FiniteSets, SequencesExt

CONSTANTS
  SiteIds,    \* ids of server_configuration, never used again
  ServerOf,   \* the server of each site
  NameOf,     \* the name each site has at first
  Born,       \* the sets of sites to begin with
  Names,      \* names of sites, domains of certificates
  Requests,   \* goroutines of HTTP requests
  Renewer,    \* the goroutine of the renewal loop
  BatchLimit, \* certificateRenewalBatchLimit
  Unborn, Gone, NoRow, Nobody, Plain, Missing,
  MaxMoves    \* bound: requests, faults and what time brings, in a behaviour

Row == [name : Names, ssl : BOOLEAN, on : BOOLEAN]

ASSUME CertificatesAssumption ==
  /\ ServerOf \in [SiteIds -> {ServerOf[s] : s \in SiteIds}]
  /\ NameOf \in [SiteIds -> Names] /\ IsInjective(NameOf)
  /\ IsFiniteSet(SiteIds) /\ IsFiniteSet(Names) /\ Born \subseteq SUBSET SiteIds
  /\ Renewer \notin Requests /\ Nobody \notin Requests \cup {Renewer}
  /\ Plain \notin Names /\ Missing \notin Names \cup {Plain}
  /\ {Unborn, Gone} \cap Row = {}
  /\ NoRow \notin [domain : Names, path : Names, expires : Nat]
  /\ BatchLimit \in Nat \ {0} /\ MaxMoves \in Nat

VARIABLES
  site,      \* server_configuration: the row of each id
  cert,      \* certificates: the row of each site id
  crt, key,  \* the files of the certificates: the pair each belongs to
  conf,      \* the files of nginx: the server blocks of each name
  live,      \* what nginx has loaded
  issued,    \* the authority: the domain of each pair
  revoked,   \* the authority: the pairs it has revoked
  reachable, \* the domains that lead to this host, so that a challenge succeeds
  horizon,   \* pairs up to this number expire within 30 days
  mutex,     \* certificateOperationMu
  pc,        \* where each goroutine is
  work,      \* its locals
  deploys,   \* the names it has still to deploy
  plan,      \* the file it has rendered
  todo,      \* the site ids the renewal loop has still to go through
  met,       \* history: operations without the mutex that met another one
  tangled,   \* history: see Tangled
  failed,    \* history: a step has failed, or the process died
  left,      \* history: the names that a deletion under another name has left as they were
  moves      \* what MaxMoves bounds, so far

rows      == <<site, cert>>
pairs     == <<crt, key>>
authority == <<issued, revoked, reachable, horizon>>
locals    == <<pc, work, deploys, plan>>
past      == <<met, tangled>>
vars == <<rows, pairs, conf, left, live, authority, mutex, locals, todo, past, failed, moves>>

-----------------------------------------------------------------------------
Actors == Requests \cup {Renewer}
NoWork == [op |-> "none"]
Locked == {"issue", "renew", "delete"}   \* operations under the mutex

Alive == {s \in SiteIds : site[s] \notin {Unborn, Gone}}
Certs == {s \in SiteIds : cert[s] # NoRow}

\* loadNginxSiteConfigurations: the enabled rows of a name.
SitesOf(n) == {s \in Alive : site[s].name = n /\ site[s].on}
SpansServers(n) == Cardinality({ServerOf[s] : s \in SitesOf(n)}) > 1

\* renderNginxSiteBundle: a server block for each row, with the path of its
\* certificate if SSL is on, and an empty path if there is no certificate.
Rendered(n) ==
  {[id |-> s, tls |-> CASE ~site[s].ssl -> Plain
                        [] site[s].ssl /\ s \in Certs -> cert[s].path
                        [] OTHER -> Missing] : s \in SitesOf(n)}

\* nginx -t: the certificates of all files exist, and match their keys.
Accepted ==
  \A n \in Names : \A b \in conf[n] :
    \/ b.tls = Plain
    \/ b.tls \in Names /\ crt[b.tls] # 0 /\ crt[b.tls] = key[b.tls]

\* nginx -s reload: all files are loaded, with the pairs they name.
Loaded ==
  [n \in Names |-> {[id |-> b.id, pair |-> IF b.tls = Plain THEN 0 ELSE crt[b.tls]] : b \in conf[n]}]

\* DueCertificateSiteIDs: those that expire soon, earliest first, so many of them.
Due == {s \in Certs : cert[s].expires <= horizon}

\* Variation: the last of the batch is left out.
BatchSizeOneLess == IF Cardinality(Due) < BatchLimit THEN Cardinality(Due) ELSE BatchLimit - 1

BatchSize == IF Cardinality(Due) < BatchLimit THEN Cardinality(Due) ELSE BatchLimit

\* The database orders those that expire together as it likes.
Batches ==
  {q \in [1 .. BatchSize -> Due] :
     /\ IsInjective(q)
     /\ \A i \in 1 .. BatchSize, s \in Due :
          cert[s].expires < cert[q[i]].expires => \E j \in 1 .. i - 1 : q[j] = s}

Move == moves < MaxMoves /\ moves' = moves + 1
Goto(p, label) == pc' = [pc EXCEPT ![p] = label]

\* An operation begins to deploy names, one after another.
DeployAll(p, names) == deploys' = [deploys EXCEPT ![p] = names] /\ Goto(p, "generate")

\* Variation: the mutex is unlocked only where a deployment ends.
EndKeep(p) ==
  /\ Goto(p, IF p = Renewer THEN "next" ELSE "idle")
  /\ work' = [work EXCEPT ![p] = NoWork]
  /\ deploys' = [deploys EXCEPT ![p] = << >>]
  /\ plan' = [plan EXCEPT ![p] = {}]
  /\ mutex' = IF mutex = p /\ pc[p] = "reload" THEN Nobody ELSE mutex

\* An operation returns, and its deferred unlock is run.
End(p) ==
  /\ Goto(p, IF p = Renewer THEN "next" ELSE "idle")
  /\ work' = [work EXCEPT ![p] = NoWork]
  /\ deploys' = [deploys EXCEPT ![p] = << >>]
  /\ plan' = [plan EXCEPT ![p] = {}]
  /\ mutex' = IF mutex = p THEN Nobody ELSE mutex

\* Some sites, each with a certificate, all deployed.
Init ==
  /\ \E born \in Born :
       LET first   == SetToSeq(born)
           pair(s) == CHOOSE i \in 1..Len(first) : first[i] = s
       IN  /\ site = [s \in SiteIds |->
                IF s \in born THEN [name |-> NameOf[s], ssl |-> TRUE, on |-> TRUE] ELSE Unborn]
           /\ cert = [s \in SiteIds |->
                IF s \in born THEN [domain |-> NameOf[s], path |-> NameOf[s], expires |-> pair(s)] ELSE NoRow]
           /\ issued = [i \in 1..Len(first) |-> NameOf[first[i]]]
  /\ crt = [n \in Names |-> LET its == {s \in Certs : cert[s].path = n}
                            IN  IF its = {} THEN 0 ELSE cert[CHOOSE s \in its : TRUE].expires]
  /\ key = crt
  /\ conf = [n \in Names |-> Rendered(n)] /\ live = Loaded
  /\ revoked = {} /\ reachable = Names /\ horizon = 0
  /\ mutex = Nobody
  /\ pc = [p \in Actors |-> "idle"] /\ work = [p \in Actors |-> NoWork]
  /\ deploys = [p \in Actors |-> << >>] /\ plan = [p \in Actors |-> {}]
  /\ todo = << >>
  /\ met = {} /\ tangled = FALSE /\ failed = FALSE /\ left = {} /\ moves = 0

-----------------------------------------------------------------------------
(* Deployment of a name: DeployNginxConfig *)

\* The next name, whether the last one succeeded or not; or the end.
NextName(p) ==
  IF Len(deploys[p]) > 1
    THEN DeployAll(p, Tail(deploys[p])) /\ plan' = [plan EXCEPT ![p] = {}] /\ UNCHANGED <<work, mutex>>
    ELSE End(p)

\* The rows are read and the file is rendered; a name of two servers is an error.
Generate(p) ==
  /\ pc[p] = "generate"
  /\ IF SpansServers(Head(deploys[p]))
       THEN NextName(p)
       ELSE /\ plan' = [plan EXCEPT ![p] = Rendered(Head(deploys[p]))]
            /\ Goto(p, "write")
            /\ UNCHANGED <<mutex, work, deploys>>
  /\ UNCHANGED <<rows, pairs, conf, left, live, authority, todo, failed, moves>>

\* The file is written and linked, or removed along with its link if there are
\* no rows (removeNginxSiteConfig).
WriteConf(p) ==
  /\ pc[p] = "write"
  /\ conf' = [conf EXCEPT ![Head(deploys[p])] = plan[p]]
  /\ left' = left \ {Head(deploys[p])}
  /\ Goto(p, "reload")
  /\ UNCHANGED <<rows, pairs, live, authority, mutex, work, deploys, plan, todo, failed, moves>>

\* Variation: nginx is reloaded only for a file that asks for TLS.
ReloadForTLS(p) ==
  /\ pc[p] = "reload"
  /\ live' = IF Accepted /\ (\E b \in conf[Head(deploys[p])] : b.tls # Plain) THEN Loaded ELSE live
  /\ NextName(p)
  /\ UNCHANGED <<rows, pairs, conf, left, authority, todo, failed, moves>>

\* testAndReloadNginx
Reload(p) ==
  /\ pc[p] = "reload"
  /\ live' = IF Accepted THEN Loaded ELSE live
  /\ NextName(p)
  /\ UNCHANGED <<rows, pairs, conf, left, authority, todo, failed, moves>>

-----------------------------------------------------------------------------
(* Requests that change sites, without the mutex *)

\* InsertServerConfiguration
Insert(p, s, n, ssl, on) ==
  /\ pc[p] = "idle" /\ site[s] = Unborn /\ Move
  /\ site' = [site EXCEPT ![s] = [name |-> n, ssl |-> ssl, on |-> on]]
  /\ work' = [work EXCEPT ![p] = [op |-> "save"]]
  /\ DeployAll(p, <<n>>)
  /\ UNCHANGED <<cert, pairs, conf, left, live, authority, mutex, plan, todo, failed>>

\* Variation: the old name is not deployed.
UpdateNewNameOnly(p, s, n, ssl, on) ==
  /\ pc[p] = "idle" /\ s \in Alive /\ Move
  /\ site' = [site EXCEPT ![s] = [name |-> n, ssl |-> ssl, on |-> on]]
  /\ work' = [work EXCEPT ![p] = [op |-> "save"]]
  /\ deploys' = [deploys EXCEPT ![p] = <<n>>]
  /\ Goto(p, "saved")
  /\ UNCHANGED <<cert, pairs, conf, left, live, authority, mutex, plan, todo, failed>>

\* UpdateServerConfiguration: the old name is read and the row updated; the row
\* of the server follows, and both names are deployed.
Update(p, s, n, ssl, on) ==
  /\ pc[p] = "idle" /\ s \in Alive /\ Move
  /\ site' = [site EXCEPT ![s] = [name |-> n, ssl |-> ssl, on |-> on]]
  /\ work' = [work EXCEPT ![p] = [op |-> "save"]]
  /\ deploys' = [deploys EXCEPT ![p] = IF site[s].name # n THEN <<site[s].name, n>> ELSE <<n>>]
  /\ Goto(p, "saved")
  /\ UNCHANGED <<cert, pairs, conf, left, live, authority, mutex, plan, todo, failed>>

UpdateServer(p) ==
  /\ pc[p] = "saved"
  /\ Goto(p, "generate")
  /\ UNCHANGED <<rows, pairs, conf, left, live, authority, mutex, work, deploys, plan, todo, failed, moves>>

\* Delete: the row of an id goes, and the name in the form is deployed, which is
\* what its field says at the time, saved or not.  The certificate of the site
\* stays; a failure does not end it.
DeleteSite(p, s, n) ==
  /\ pc[p] = "idle" /\ s \in Alive /\ Move
  /\ \/ /\ site' = [site EXCEPT ![s] = Gone]
        /\ left' = left \cup ({site[s].name} \ {n})
        /\ UNCHANGED failed
     \/ failed' = TRUE /\ UNCHANGED <<site, left>>
  /\ work' = [work EXCEPT ![p] = [op |-> "save"]]
  /\ DeployAll(p, <<n>>)
  /\ UNCHANGED <<cert, pairs, conf, live, authority, mutex, plan, todo>>

\* RedeployAllNginxConfigs
Redeploy(p) ==
  /\ pc[p] = "idle" /\ Alive # {} /\ Move
  /\ work' = [work EXCEPT ![p] = [op |-> "redeploy"]]
  /\ DeployAll(p, SetToSeq({site[s].name : s \in Alive}))
  /\ UNCHANGED <<rows, pairs, conf, left, live, authority, mutex, plan, todo, failed>>

\* DeleteServer: one transaction for the rows, then the files.
DeleteServer(p, v) ==
  LET its == {s \in Alive : ServerOf[s] = v}
  IN  /\ pc[p] = "idle" /\ its # {} /\ Move
      /\ site' = [s \in SiteIds |-> IF s \in its THEN Gone ELSE site[s]]
      /\ cert' = [s \in SiteIds |-> IF s \in its THEN NoRow ELSE cert[s]]
      /\ work' = [work EXCEPT ![p] =
           [op |-> "purge", sites |-> {site[s].name : s \in its},
            paths |-> {cert[s].path : s \in its \cap Certs}]]
      /\ Goto(p, "purge")
      /\ UNCHANGED <<pairs, conf, left, live, authority, mutex, deploys, plan, todo, failed>>

PurgeSites(p) ==
  /\ pc[p] = "purge"
  /\ conf' = [n \in Names |-> IF n \in work[p].sites THEN {} ELSE conf[n]]
  /\ left' = left \ work[p].sites
  /\ work' = [work EXCEPT ![p].sites = {n \in work[p].sites : conf[n] # {}}]
  /\ Goto(p, "purge pairs")
  /\ UNCHANGED <<rows, pairs, live, authority, mutex, deploys, plan, todo, failed, moves>>

PurgePairs(p) ==
  /\ pc[p] = "purge pairs"
  /\ crt' = [n \in Names |-> IF n \in work[p].paths THEN 0 ELSE crt[n]]
  /\ key' = [n \in Names |-> IF n \in work[p].paths THEN 0 ELSE key[n]]
  /\ Goto(p, "purged")
  /\ UNCHANGED <<rows, conf, left, live, authority, mutex, work, deploys, plan, todo, failed, moves>>

\* nginx is reloaded if a file of it has been removed.
Purged(p) ==
  /\ pc[p] = "purged"
  /\ live' = IF work[p].sites # {} /\ Accepted THEN Loaded ELSE live
  /\ End(p)
  /\ UNCHANGED <<rows, pairs, conf, left, authority, todo, failed, moves>>

-----------------------------------------------------------------------------
(* Operations on certificates, under the mutex *)

\* The page lists the sites with their certificates; an issue is for the name in
\* its form, which a page that is out of date has kept.
Ask(p, op, s, n) ==
  /\ pc[p] = "idle" /\ p \in Requests /\ op \in Locked /\ s \in Alive /\ Move
  /\ work' = [work EXCEPT ![p] = [op |-> op, site |-> s, domain |-> n, path |-> n, pair |-> 0]]
  /\ Goto(p, "lock")
  /\ UNCHANGED <<rows, pairs, conf, left, live, authority, mutex, deploys, plan, todo, failed>>

\* runOnce: the batch is read, then each of it is renewed.
Scan ==
  /\ pc[Renewer] = "idle"
  /\ todo' \in Batches
  /\ Goto(Renewer, "next")
  /\ UNCHANGED <<rows, pairs, conf, left, live, authority, mutex, work, deploys, plan, failed, moves>>

RenewNext ==
  /\ pc[Renewer] = "next"
  /\ IF todo = << >>
       THEN Goto(Renewer, "idle") /\ UNCHANGED <<work, todo>>
       ELSE /\ work' = [work EXCEPT ![Renewer] = [op |-> "renew", site |-> Head(todo), pair |-> 0]]
            /\ todo' = Tail(todo)
            /\ Goto(Renewer, "lock")
  /\ UNCHANGED <<rows, pairs, conf, left, live, authority, mutex, deploys, plan, failed, moves>>

\* Variation: the mutex is not taken.
LockNothing(p) ==
  /\ pc[p] = "lock"
  /\ IF work[p].op = "issue"
       THEN Goto(p, "obtain") /\ UNCHANGED <<mutex, work, deploys, plan>>
       ELSE IF work[p].site \in Certs
         THEN /\ work' = [work EXCEPT ![p] =
                   [op |-> work[p].op, site |-> work[p].site, domain |-> cert[work[p].site].domain,
                    path |-> cert[work[p].site].path, pair |-> 0]]
              /\ Goto(p, IF work[p].op = "renew" THEN "obtain" ELSE "revoke")
              /\ UNCHANGED <<mutex, deploys, plan>>
         ELSE End(p)
  /\ UNCHANGED <<rows, pairs, conf, left, live, authority, todo, failed, moves>>

\* The mutex is taken; a renewal or a deletion reads the row of the certificate,
\* and is over if there is none.
Lock(p) ==
  /\ pc[p] = "lock" /\ mutex = Nobody
  /\ IF work[p].op # "issue" /\ work[p].site \notin Certs
       THEN End(p)
       ELSE /\ mutex' = p
            /\ work' = [work EXCEPT ![p] = IF work[p].op = "issue" THEN @ ELSE
                 [op |-> work[p].op, site |-> work[p].site, domain |-> cert[work[p].site].domain,
                  path |-> cert[work[p].site].path, pair |-> 0]]
            /\ Goto(p, IF work[p].op = "delete" THEN "revoke" ELSE "obtain")
            /\ UNCHANGED <<deploys, plan>>
  /\ UNCHANGED <<rows, pairs, conf, left, live, authority, todo, failed, moves>>

\* The authority issues a pair for a domain it can reach.
Obtain(p) ==
  /\ pc[p] = "obtain" /\ work[p].domain \in reachable
  /\ issued' = Append(issued, work[p].domain)
  /\ work' = [work EXCEPT ![p].pair = Len(issued) + 1]
  /\ Goto(p, "crt")
  /\ UNCHANGED <<rows, pairs, conf, left, live, revoked, reachable, horizon, mutex, deploys, plan, todo, failed, moves>>

\* Variation: the challenge is tried again at once, with the mutex held.
RefusedRetry(p) ==
  /\ pc[p] = "obtain" /\ work[p].domain \notin reachable
  /\ UNCHANGED <<rows, pairs, conf, left, live, authority, mutex, locals, todo, failed, moves>>

Refused(p) ==
  /\ pc[p] = "obtain" /\ work[p].domain \notin reachable
  /\ End(p)
  /\ UNCHANGED <<rows, pairs, conf, left, live, authority, todo, failed, moves>>

WriteCrt(p) ==
  /\ pc[p] = "crt"
  /\ crt' = [crt EXCEPT ![work[p].path] = work[p].pair]
  /\ Goto(p, "key")
  /\ UNCHANGED <<rows, key, conf, left, live, authority, mutex, work, deploys, plan, todo, failed, moves>>

WriteKey(p) ==
  /\ pc[p] = "key"
  /\ key' = [key EXCEPT ![work[p].path] = work[p].pair]
  /\ Goto(p, "row")
  /\ UNCHANGED <<rows, crt, conf, left, live, authority, mutex, work, deploys, plan, todo, failed, moves>>

\* insertCert: a row that exists keeps its domain.
InsertCert(p) ==
  LET w == work[p]
  IN  /\ pc[p] = "row" /\ w.op = "issue"
      /\ cert' = [cert EXCEPT ![w.site] =
           [domain |-> IF w.site \in Certs THEN @.domain ELSE w.domain, path |-> w.path, expires |-> w.pair]]
      /\ Goto(p, "ssl")
      /\ UNCHANGED <<site, pairs, conf, left, live, authority, mutex, work, deploys, plan, todo, failed, moves>>

\* updateCert: an error if the row of this site and domain is gone.
UpdateCert(p) ==
  LET w == work[p]
  IN  /\ pc[p] = "row" /\ w.op = "renew"
      /\ IF w.site \in Certs /\ cert[w.site].domain = w.domain
           THEN /\ cert' = [cert EXCEPT ![w.site].path = w.path, ![w.site].expires = w.pair]
                /\ Goto(p, "ssl") /\ UNCHANGED <<mutex, work, deploys, plan>>
           ELSE End(p) /\ UNCHANGED cert
      /\ UNCHANGED <<site, pairs, conf, left, live, authority, todo, failed, moves>>

\* activateSSL: the row of a deleted site is not there, and the name of the
\* certificate is deployed all the same.
ActivateSSL(p) ==
  LET s == work[p].site
  IN  /\ pc[p] = "ssl"
      /\ site' = IF s \in Alive THEN [site EXCEPT ![s].ssl = TRUE] ELSE site
      /\ DeployAll(p, <<work[p].domain>>)
      /\ UNCHANGED <<cert, pairs, conf, left, live, authority, mutex, work, plan, todo, failed, moves>>

\* DeleteCert needs the key to have the certificate revoked; a certificate that
\* is missing is not revoked, one that is revoked already is refused.
Revoke(p) ==
  LET n == work[p].path
  IN  /\ pc[p] = "revoke"
      /\ IF key[n] # 0 /\ (crt[n] = 0 \/ (crt[n] = key[n] /\ crt[n] \notin revoked))
           THEN /\ revoked' = revoked \cup ({crt[n]} \ {0})
                /\ Goto(p, "unssl") /\ UNCHANGED <<mutex, work, deploys, plan>>
           ELSE End(p) /\ UNCHANGED revoked
      /\ UNCHANGED <<rows, pairs, conf, left, live, issued, reachable, horizon, todo, failed, moves>>

DeactivateSSL(p) ==
  LET s == work[p].site
  IN  /\ pc[p] = "unssl"
      /\ site' = IF s \in Alive THEN [site EXCEPT ![s].ssl = FALSE] ELSE site
      /\ Goto(p, "drop")
      /\ UNCHANGED <<cert, pairs, conf, left, live, authority, mutex, work, deploys, plan, todo, failed, moves>>

DropCert(p) ==
  /\ pc[p] = "drop"
  /\ cert' = [cert EXCEPT ![work[p].site] = NoRow]
  /\ Goto(p, "files")
  /\ UNCHANGED <<site, pairs, conf, left, live, authority, mutex, work, deploys, plan, todo, failed, moves>>

\* fsRemoveCert: the files of the domain, wherever the row said they were.
RemovePair(p) ==
  /\ pc[p] = "files"
  /\ crt' = [crt EXCEPT ![work[p].domain] = 0]
  /\ key' = [key EXCEPT ![work[p].domain] = 0]
  /\ DeployAll(p, <<work[p].domain>>)
  /\ UNCHANGED <<rows, conf, left, live, authority, mutex, work, plan, todo, failed, moves>>

-----------------------------------------------------------------------------
(* What happens around them *)

\* Time passes: the earliest pairs come within 30 days of their expiry.
Age ==
  /\ horizon < Len(issued) /\ Move
  /\ horizon' = horizon + 1
  /\ UNCHANGED <<rows, pairs, conf, left, live, issued, revoked, reachable, mutex, locals, todo, failed>>

\* A domain is pointed elsewhere.
Lose(n) ==
  /\ n \in reachable /\ Move
  /\ reachable' = reachable \ {n}
  /\ UNCHANGED <<rows, pairs, conf, left, live, issued, revoked, horizon, mutex, locals, todo, failed>>

\* A step fails, and the operation returns the error.
StepFails(p) ==
  /\ pc[p] \in {"saved", "obtain", "crt", "key", "row", "ssl", "revoke", "unssl", "drop", "files"}
  /\ Move /\ failed' = TRUE
  /\ End(p)
  /\ UNCHANGED <<rows, pairs, conf, left, live, authority, todo>>

\* A step of a deployment fails; the operation goes on to the next name.
DeployFails(p) ==
  /\ pc[p] \in {"generate", "write", "reload"}
  /\ Move /\ failed' = TRUE
  /\ NextName(p)
  /\ UNCHANGED <<rows, pairs, conf, left, live, authority, todo>>

\* The process dies and is started again; nginx goes on.
Crash ==
  /\ \E p \in Actors : pc[p] # "idle"
  /\ Move /\ failed' = TRUE
  /\ mutex' = Nobody
  /\ pc' = [p \in Actors |-> "idle"] /\ work' = [p \in Actors |-> NoWork]
  /\ deploys' = [p \in Actors |-> << >>] /\ plan' = [p \in Actors |-> {}]
  /\ todo' = << >>
  /\ UNCHANGED <<rows, pairs, conf, left, live, authority>>

-----------------------------------------------------------------------------
Busy(p) == pc[p] \notin {"idle", "next", "lock"}

\* The table is at odds with the names: the certificate of a site bears another
\* name than the site, two certificates have a domain or a path in common, or
\* sites of two servers have one name.
Tangled ==
  \/ \E s \in Certs :
       \/ cert[s].domain # cert[s].path
       \/ s \in Alive /\ site[s].name # cert[s].domain
       \/ \E t \in Certs \ {s} : {cert[s].domain, cert[s].path} \cap {cert[t].domain, cert[t].path} # {}
  \/ \E s, t \in Alive : site[s].name = site[t].name /\ ServerOf[s] # ServerOf[t]

Remember ==
  /\ met' = met \cup {work[p].op : p \in {p \in Actors :
       /\ Busy(p) /\ work[p].op \notin Locked
       /\ \E q \in Actors \ {p} : Busy(q)}}'
  /\ tangled' = (tangled \/ Tangled')

Continue(p) ==
  \/ Generate(p) \/ WriteConf(p) \/ Reload(p)
  \/ UpdateServer(p) \/ PurgeSites(p) \/ PurgePairs(p) \/ Purged(p)
  \/ Obtain(p) \/ Refused(p) \/ WriteCrt(p) \/ WriteKey(p)
  \/ InsertCert(p) \/ UpdateCert(p) \/ ActivateSSL(p)
  \/ Revoke(p) \/ DeactivateSSL(p) \/ DropCert(p) \/ RemovePair(p)

Request(p) ==
  \/ \E s \in SiteIds :
       \/ \E n \in Names, ssl, on \in BOOLEAN : Insert(p, s, n, ssl, on) \/ Update(p, s, n, ssl, on)
       \/ \E n \in Names : DeleteSite(p, s, n) \/ Ask(p, "issue", s, n)
       \/ \E op \in {"renew", "delete"} : Ask(p, op, s, site[s].name)
       \/ DeleteServer(p, ServerOf[s])
  \/ Redeploy(p)

Surroundings ==
  \/ Age \/ Crash
  \/ \E n \in Names : Lose(n)
  \/ \E p \in Actors : StepFails(p) \/ DeployFails(p)

Next ==
  /\ \/ \E p \in Requests : Request(p)
     \/ \E p \in Actors : Continue(p) \/ Lock(p)
     \/ Scan \/ RenewNext
     \/ Surroundings
  /\ Remember

Spec == Init /\ [][Next]_vars

\* What has begun goes on; a mutex is not kept from a waiter for ever; the loop
\* has a ticker.  Nobody has to ask for anything.
Fairness ==
  /\ \A p \in Actors : WF_pc(Continue(p)) /\ SF_pc(Lock(p))
  /\ WF_pc(Scan \/ RenewNext)

FairSpec == Spec /\ Fairness

-----------------------------------------------------------------------------
(* Properties *)

Pair == 0..Len(issued)

\* Type invariant of the tables, the files and the locals of the goroutines.
TypeOK ==
  /\ site \in [SiteIds -> Row \cup {Unborn, Gone}]
  /\ cert \in [SiteIds -> [domain : Names, path : Names, expires : Pair \ {0}] \cup {NoRow}]
  /\ crt \in [Names -> Pair] /\ key \in [Names -> Pair]
  /\ conf \in [Names -> SUBSET [id : SiteIds, tls : Names \cup {Plain, Missing}]]
  /\ live \in [Names -> SUBSET [id : SiteIds, pair : Pair]]
  /\ issued \in Seq(Names) /\ revoked \subseteq Pair \ {0}
  /\ reachable \subseteq Names /\ horizon \in Pair
  /\ mutex \in Actors \cup {Nobody}
  /\ \A p \in Actors : mutex = p <=> Busy(p) /\ work[p].op \in Locked
  /\ deploys \in [Actors -> Seq(Names)]
  /\ \A p \in Actors : pc[p] \in {"generate", "write", "reload"} => deploys[p] # << >>
  /\ plan \in [Actors -> SUBSET [id : SiteIds, tls : Names \cup {Plain, Missing}]]
  /\ todo \in Seq(SiteIds)
  /\ left \subseteq Names

\* Safety: while nobody holds the mutex, every certificate of the table has the
\* files it names: a key and a certificate that match, for its domain, with the
\* expiry of the row, not revoked.  That is so whatever saves and redeployments
\* overlap with the operations of certificates, as long as no step has failed,
\* no server is deleted meanwhile, and the table is not at odds with the names.
RowsHaveFiles ==
  mutex = Nobody /\ "purge" \notin met /\ ~failed /\ ~tangled =>
    \A s \in Certs :
      /\ crt[cert[s].path] = cert[s].expires /\ key[cert[s].path] = cert[s].expires
      /\ issued[cert[s].expires] = cert[s].domain
      /\ cert[s].expires \notin revoked

\* Safety: once operations that did not overlap are over, the files of nginx are
\* what the rows say, and nginx has loaded them, with the pairs in force, unless
\* it refuses them (a site may ask for SSL without a certificate).  The exception
\* is a name whose site was deleted by a form that bore another name: its file
\* stays, and goes on being served, until something deploys that name.
ServesRows ==
  (\A p \in Actors : ~Busy(p)) /\ met = {} /\ ~failed /\ ~tangled =>
    /\ \A n \in Names \ left : conf[n] = Rendered(n)
    /\ Accepted => live = Loaded

\* Safety: then nginx does not go on with a pair that has been revoked, and what
\* it has loaded for a name was issued for that name, if it accepts the files:
\* also for a name that a deletion has left as it was.
ServesOwnPairs ==
  (\A p \in Actors : ~Busy(p)) /\ met = {} /\ ~failed /\ ~tangled /\ Accepted =>
    \A n \in Names : \A block \in live[n] :
      block.pair # 0 => issued[block.pair] = n /\ block.pair \notin revoked

\* Liveness: a certificate that is due is renewed (or deleted), or its domain
\* leads elsewhere, if the batch has room for all.
DueIsRenewed ==
  \A s \in SiteIds : s \in Due ~> s \notin Due \/ cert[s].domain \notin reachable

\* Liveness: every operation ends, and with it the mutex is free again.
OperationsEnd ==
  \A p \in Actors : (pc[p] \notin {"idle", "next"}) ~> (pc[p] \in {"idle", "next"})

\* Renewing "for each proxy site": a file that holds a certificate of the site of
\* its name is not overwritten with a certificate of another name.
RenewalKeepsName ==
  [][\A n \in Names :
       crt[n] # 0 /\ issued[crt[n]] = n /\ crt'[n] # 0 => issued'[crt'[n]] = n]_vars
=============================================================================

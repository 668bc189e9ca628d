# GoResolver: specification, model checking and proofs

GoResolver is one Go process that is at the same time an authoritative DNS
server, the control panel of a fleet of nginx reverse proxies, and their
monitoring. It keeps its state in MariaDB, in files (`/etc/nginx`, certificate
directories, WireGuard) and in process memory. This directory models its
control logic in TLA+, checks the models with TLC and proves the central
theorems with TLAPS.

Paths below are relative to `src/`; `services/` stands for
`internal/services/`.

## 1. Inventory

### 1.1 Components

| component | code | state it keeps | operations |
|---|---|---|---|
| Incident tracker | `services/analytics_incidents.go`, `services/analytics_background.go`, alert rules in `services/analytics_observability.go` | table `analytics_incidents`, `analyticsIncidentSyncMu` | synchronise (two goroutines), notify by mail, dismiss, delete |
| Status monitor | `services/status_monitor.go` | in-memory board of probe results, a semaphore of 8 | read a status (refreshing it when stale), background refresh of every server and site |
| Fail2Ban enforcement | `services/serverconfiguration_fail2ban.go`, iptables helpers in `services/serverconfiguration_service.go` | tables `fail2ban_policies`, `fail2ban_bans`; the INPUT chain of iptables | save policy, enforce (timer and request), ban, unban, expire |
| DDoS rules | `services/serverconfiguration_service.go` (295-506) | table `ddos_policies`; INPUT chain; nginx include | save policy, apply rules |
| Settings and the DNSSEC key | `services/settings_service.go`, `cmd/server/main.go` (`getOrCreateDNSSECKey`) | table `app_settings` (secrets encrypted), the DNS server's copy of the key | read, save, create the zone signing key |
| DNS server | `cmd/server/main.go` | none of its own; reads `domains`, `records` | answer a query, sign it, deny existence (NSEC), SOA serial |
| Login throttle and sessions | `services/login_service.go`, `internal/app/auth.go`, `internal/session/store.go` | failure counters per address and per account; session cookies | log in, log out |
| nginx sites | `services/nginx_config.go`, `services/serverconfiguration_service.go` (580-1326) | table `server_configuration`; `/etc/nginx/sites-*`; the running nginx | insert, update, delete, deploy, redeploy all |
| System nginx configuration | `services/system_nginx_config.go` | `/etc/nginx/nginx.conf`, its setting | save with rollback, deploy |
| Certificates | `services/serverconfiguration_service.go` (1579-1997), `services/certificate_renewal.go` | tables `certificates`, columns of `server_configuration`; certificate directories under `/etc/ssl` | issue, renew, delete, renew what is due every 12 h |
| Servers and VPN | `services/server_service.go`, `services/serverconfiguration_service.go` (1328-1560) | tables `servers`, `server_vpn`; WireGuard interfaces | add, delete with everything attached, suggest an address, save and deploy VPN keys |
| Error pages | `services/serverconfiguration_service.go` (707-1029), `services/nginx_config.go` (464-591) | table `error_pages`, files | upload, delete, resolve for a site |
| Access log ingester | `internal/logging/nginx_ingester.go` | batch in memory; table `nginx_logs` | tail, flush (100 lines or 5 s), prune (at most every 15 min) |
| Analytics | `services/analytics_service.go`, `services/analytics_background.go` | snapshot cache, IP reputation cache, geo cache | snapshot, reputation of an address, background refresh |
| Domains and records | `services/domain_service.go`, `services/record_service.go` | tables `domains`, `records` | create, delete, check delegation |
| HTTP layer | `internal/handlers`, `internal/app` | none | one handler per operation above |
| Frontend: the shell | `web/frontend/src/app.tsx`, `common.tsx` | in each tab: the location, pages by route key, requests under way, effects to run | load a page, follow a link, go back and forward, send a form, handle its answer |
| Frontend: pages and forms | `web/frontend/src/pages/core-pages.tsx`, `server-config-page.tsx`, `server-config-helpers.ts` | the inputs on screen | edit, search in the settings, save, cancel |
| Frontend: the analytics page | `web/frontend/src/pages/analytics-page.tsx` | filters, their draft, search box, page of the log, timers, the load under way | filter, page, refresh, dismiss and delete incidents |
| Frontend: the rest | `web/frontend/src/types.ts`, `main.tsx`, `vite.config.ts`, charts and map of `common.tsx` | none | types, build, drawing |
| Templates, mail rendering, scripts | `web/assets.go`, `scripts/`, rest | none | presentation |

### 1.2 How they interact

* Every HTTP request and every DNS packet has a goroutine of its own; the
  background goroutines are the analytics loop (15 min), the log ingester (its
  5 s flush, after each flush perhaps a prune and an incident synchronisation,
  at most every 15 and 5 min), the status loop, the Fail2Ban loop (30 s unless
  `security.fail2ban_interval_seconds` says otherwise) and certificate renewal
  (12 h).
* They share MariaDB with one statement per step and almost no transactions,
  the files and commands of the host (nginx, iptables, wg) and the ACME server
  without any lock, and a few maps under mutexes.
* Mails are sent where they are decided on, in the goroutine that synchronises
  incidents (under its mutex) or enforces bans, over connections without a
  deadline. Everything else that goes over the network has one.
* Locks exist in a few places only: the incident synchronisation, the status
  board, certificate operations, the login counters, the DNSSEC key and the
  in-memory caches. Everything else relies
  on the order of independent statements and commands.
* A browser tab is one thread: what overlaps in it are requests, timers, the
  effects React runs after a render, and what the user does between two of
  them. Tabs share nothing but the session and the server; a tab learns of what
  others write only by loading a page again.

### 1.3 What is hard, and what makes each part correct

* **Incident tracker**: two goroutines apply alerts computed before the lock;
  requests bypass the lock; a mail and its stamp are two steps. Correct when an
  alert has one active incident, history stays history, mails are not repeated
  and the table converges to what is firing, as far as the mail server lets it.
* **Status monitor**: the board is read under one lock and the refresh is
  scheduled under another; probes finish in any order. Correct when a key has
  at most one probe, at most 8 probes run, times never go back and every
  started refresh ends.
* **Fail2Ban**: table and firewall are two stores updated by a loop and requests
  with no lock; rules are deleted by the numbers an earlier listing gave them, and
  the panel's list of rules deletes rules without looking at rows. Correct when a
  banned address has a rule and a rule has a row, unless an administrator has
  deleted the rule by itself, and every ban ends.
* **Settings and the DNSSEC key**: read, then write, of a generated key by
  concurrent goroutines. Correct when a stored key is neither erased nor rotated
  unless somebody posts another one, and answers are signed with a stored key.
* **Login throttle**: check, then a slow hash, then count, outside the lock.
  Correct when the number of passwords tried in a window is bounded.
* **nginx sites**: a deployment reads the rows of a name, writes its file and
  reloads nginx without a lock, and the file stays when nginx refuses it.
  Correct when, operations over, the files are what the rows say and nginx has
  loaded them if it accepts them.
* **Certificates**: an authority, two files and a row are changed one after the
  other, by requests and a loop that share a mutex with each other but not with
  the deletion of a server, and survive a crash between any two. Correct when a
  row has the files it names, matching and of its age, when what is due is
  renewed, and when the mutex comes back.
* **Servers, VPN**: a sequence of database, file and command steps with an error
  return after each. Correct when a failure leaves table and files consistent.
* **DNS server**: an answer is made of up to eight statements, none of them in a
  transaction, and a statement that fails counts as one that found nothing.
  Correct when a proof of absence is right, when what nobody changes meanwhile
  is honoured, and when the serial of a zone does not go back while it grows.
* **Shell of the frontend**: a page stays on screen until the next has arrived,
  loads are shared between effects by key and token, and what a mutation drops
  from the cache depends on where the user is when its answer comes. Correct
  when a tab at rest shows the page of its location, with its own writes in it.
* **Forms of the pages**: inputs are filled when they are mounted, or again from
  each page; pages come and go around them. Correct when late answers leave
  edits alone and a form sends nothing back that it did not mean to.
* **Analytics page**: two editors of one set of filters, each of which writes
  the other; loads that abort each other; two timers. Correct when what is shown
  is of the filters it says, what was dismissed is gone, every load ends, and
  the two editors come to agree.
* **Ingester**: batch, retry, prune against the size limit. Correct when a line
  read is stored once and the batch is bounded.

## 2. Plan

### 2.1 Order

Written so far, in this order because each shares state between goroutines that
no test of the repository runs together: `Incidents`, `StatusMonitor`,
`Fail2Ban`, `LoginThrottle`, `SigningKey`, `Certificates` (with the nginx sites
the certificates are for, since deployment joins the two tables), `ZoneAnswers`;
then the frontend, which holds the state an administrator acts upon:
`PageShell`, `PageForms` (which composes the shell with the forms of its pages)
and `AnalyticsPage`. What follows, most important first:

1. `SystemNginx`: the default site, the log format and `nginx.conf`, saved with
   a rollback, while sites are deployed; and saves of a page that is out of date.
2. `Firewall`: the DDoS policy and which of its rules are there, by composition
   with `Fail2Ban`, which has them as rules of others that come and go.
3. `LogIngester`: partial lines, rotation, batch, failed transactions, prune.
4. `Servers`: address suggestion and creation, deletion across tables and files.
5. `SnapshotCache`: the caches of the analytics.

### 2.2 Abstract specifications

`StatusBoard` exists and `StatusMonitor` implements it. `SystemNginx` is to
implement a configuration that nginx has accepted at all times, `SnapshotCache`
a value that is at most so old.

### 2.3 Theorems

Proved: every safety property the passing runs check, invariants and action
properties alike, and the safety half of the refinement (section 5); and of the
disagreements found in `Fail2Ban` and `Certificates`, that each has one cause:
comments that find the rules of other bans, and rows and names at odds. What is
left to TLC is liveness. Next: the safety of the modules of 2.1 as they are
written.

## 3. The modules

Every critical section, SQL statement and command of the host is one action;
what lies between two of them is where other goroutines come in. Values that no
property tells apart (texts, addresses, times of day) are model values, and a
decision taken on data that is left out is a free choice. Where one of the
modules says *Variation* above a definition, that definition is a plausible bug,
put in the place of the one that follows it to see that a property notices.

### 3.1 `Incidents`: the incident tracker

| state | code |
|---|---|
| `rows`, `nextId` | table `analytics_incidents` and its AUTO_INCREMENT |
| `firing` | the alerts `buildAlerts` would return now |
| `mutex` | `analyticsIncidentSyncMu` |
| `silent` | whether the mail server takes connections and does not answer |
| `pc`, `alerts`, `existing`, `touched`, `updated`, `mailing` | the locals of a `syncIncidents` call, per goroutine |
| `mails`, `lost` | history: mails accepted by the mail server, stamps lost |

A synchronisation is `Build` (alerts computed before the mutex), `LockAndRead`,
`InsertIncident` / `UpdateIncident` for each alert, `ResolveIncident` for each
row no alert mentions, `Reread`, then `SendMail` and `Stamp` for each incident
to announce, `Unlock`. `tls.Dial`, `smtp.Dial` and the dialogue after it have no
deadline and run under the mutex, so `SendMail` and `Stamp` wait as long as the
mail server is `silent` (`MailServer`, any number of times). The administrator has
`DismissIncident` and `DeleteIncident`, which take no mutex. Faults are `StatementFails`, `MailFails`,
`StampFails` and `Crash`. The query returns at most `RowLimit` rows in the order
open, dismissed, resolved; which of equals it cuts off is left open.

### 3.2 `StatusMonitor` and `StatusBoard`: the status monitor

| state | code |
|---|---|
| `entries` | `m.entries`, with `Refreshing`, `CheckedAt`, the start of the uptime |
| `limiter` | tokens in the channel `m.probeLimiter` |
| `stage` | the goroutines `scheduleRefresh` starts |
| `calls` | requests inside `getStatus` |
| `watched`, `todo` | the servers table and the settings; the keys `refreshAll` has still to go through |
| `now` | the clock |

A request is `Ask` (takes the time), `Look` (read lock), `Schedule` (write
lock). A probe is `Acquire`, `Release`, `Publish`: the slot goes back before the
result is published. The loop is `RefreshAll` (or `RefreshConfigured`, when the
servers cannot be read) and `RefreshNext`. `StatusBoard` is what a caller may
rely on: a status per key, one probe per key, every probe answered. The
refinement maps `status` to the status of the entry and `inflight` to the keys
with a goroutine.

### 3.3 `Fail2Ban`: the enforcement of bans

| state | code |
|---|---|
| `table` | `fail2ban_bans`: no row, `expires_at` ahead, or past |
| `chain` | the INPUT chain, top first |
| `enabled`, `offending` | `fail2ban_policies.enabled`; whom the access log calls for |
| `silent` | whether the mail server takes connections and does not answer |
| `pc`, `policies`, `todo`, `job`, `nums` | the locals of `EnforceFail2BanOnce` and what it calls, or of a request, per goroutine |
| `undone` | history: whose rules a request has deleted by their comment, until the row of the ban goes or is written with a new rule |
| `overlapped`, `torn` | history: whether goroutines overlapped, whether anything failed |

A round is `Begin` (rows whose time is over), `Sweep` / `Cut` / `DropRow` for
each of them, `LoadPolicies`, `FindOffenders`, then `Judge` and `Extend` or
`AddRule` / `Record` / `Mail` for each offender, `NextPolicy`, `Finish`. The mail
is sent in the middle of the round and waits as long as the mail server is
`silent`. The requests are `SavePolicy` (which starts a round), `Unban` (lists
rules and goes through `Cut` and `DropRow` as well), `DeleteRules` (the panel
deletes the rules of one comment: `Cut`, then `Struck`, and the row stays),
`DeleteOthers` and `AddLimit` (the same for rules that are not of bans, and what
`ApplyDDoSIptables` adds after it deleted the old limits) and `InsertForeign`
(the panel adds a rule, anywhere in the chain).

`Found[b]` is the set of bans whose rule a listing for `b` finds: the code looks
for the comment anywhere in the line, so it is more than `{b}` when one address
begins with another. Deletions are by number, highest first, as listed. A failing
step (`StepFails`) is one of three: a listing or a deletion of rules, after which
the numbers left are used all the same or there are none (`DeletionFails`); a
statement that writes, or the command that adds a rule (`StatementFails`); a query
that returns less than there is (`QueryFails`). `Crash` may take the chain with
it, as a reboot does.

### 3.4 `LoginThrottle`: limits on logins

| state | code |
|---|---|
| `failures`, `nextTry`, `blocked` | the entries of `byUser` and `byIP` |
| `at`, `user`, `ip`, `age` | a request inside `AuthenticateFrom`, and how long ago it took `now` |
| `guesses`, `burst` | history: passwords compared since the last block or success, since the last wait |

`Enter`, then `Refuse` or `Admit` (first critical section), then, after the
password has been compared outside the lock, `Fail` or `Succeed` (second critical
section). A refused attempt is recorded as a failure too. Points in time are kept
as distances from the present, so that the state space is finite although time
goes on. `Restart` empties the counters, which live in memory only. The names of
its specification begin with `Login`, so that it can be read beside `Fail2Ban`.

### 3.5 `SigningKey`: the DNSSEC key

| state | code |
|---|---|
| `stored`, `enabled` | `dns.dnssec_private_key_pem`, `dns.dnssec_enabled` in `app_settings` |
| `cache`, `mutex` | `dnssecCache.material`, `dnssecCache.mu` |
| `pc`, `seen`, `form` | the locals of a query, or of a save |
| `made`, `signed`, `held` | history: keys made, the key an answer was signed with, the keys stored while it held the mutex |

A query is `Ask`, `Lock`, then `UseKey`, or `MakeKey` and `StoreKey`; a save is
`Save` (the read of the present settings) and `Commit` or `Rollback`. A read that
fails is an empty setting, as `GetValue` and `GetAllWithDefaults` make it.

### 3.6 `Certificates`: sites, certificates and their renewal

| state | code |
|---|---|
| `site`, `cert` | the rows of `server_configuration` and `certificates` |
| `crt`, `key` | the files of the certificates: for each path the pair it belongs to |
| `conf`, `live` | the files of nginx, by name; what nginx has loaded |
| `issued`, `revoked`, `reachable`, `horizon` | the authority and the world: pairs issued and revoked, domains whose challenge succeeds, which pairs expire soon |
| `mutex` | `certificateOperationMu` |
| `pc`, `work`, `deploys`, `plan`, `todo` | the locals of an operation, per goroutine; the batch of the loop |
| `met`, `tangled`, `failed` | history: operations without the mutex that overlapped another one, whether rows and names have been at odds, whether anything failed |
| `left` | history: names whose site a deletion took away under another name, until they are deployed |

A certificate and its key have one number, given out in order, which stands for
the expiry as well. A deployment (`Generate`, `WriteConf`, `Reload`) is part of
every operation and goes through the names in `deploys`. The loop takes one of
the `Batches` of `BatchSize`: those that expire first, and of those that expire
together the ones the database likes. Without the mutex run
`Insert`, `Update` (with `UpdateServer`), `DeleteSite`, `Redeploy` and
`DeleteServer` (`PurgeSites`, `PurgePairs`, `Purged`); with it, from `Lock` on,
an issue or a renewal (`Obtain` or `Refused`, `WriteCrt`, `WriteKey`,
`InsertCert` or `UpdateCert`, `ActivateSSL`) and a deletion (`Revoke`,
`DeactivateSSL`, `DropCert`, `RemovePair`). The loop is `Scan` and `RenewNext`.
Faults are `StepFails`, `DeployFails` and `Crash`.

`DeleteSite` and `Ask` take the name from the form, not from the row, as the
handlers do: the field may have been edited and not saved, or the page be out of
date. A deletion then deploys the name of the form, and the file of the name the
row had stays, and is served, until that name is deployed (`left`); an issue makes
a certificate of the name of the form for the row.

Some neighbouring steps are one: the old name is read and the row updated, a file
is written and linked, the files of a deletion are removed. `RowsHaveFiles`,
`ServesRows` and `ServesOwnPairs` are claimed under the conditions the code needs,
and no wider: no step has failed; the deletion of a server, which ignores the
mutex, does not overlap (for the two about nginx no operation without the mutex
does); and rows and names are not at odds (`Tangled`), which renaming a site
brings about, or issuing a certificate under another name. `ServesRows` leaves out
the names in `left`; `ServesOwnPairs` does not: a site that goes on being served
after its deletion is served with a certificate of its own name that is in force.

### 3.7 `ZoneAnswers`: the answers of the DNS server

| state | code |
|---|---|
| `domain`, `record` | the tables `domains` (with `created_at`) and `records` (with `updated_at`) |
| `dnssec`, `now` | `dns.dnssec_enabled`; the clock of the database, which goes on until something is written, since only such statements read it |
| `pc`, `question`, `zone`, `reply` | the locals of `handleDNSQuery` and what it calls |
| `keptRows`, `keptZones`, `failed` | history: what has not changed since the question came, whether a statement of it has failed |
| `skipped` | history: whether the query has passed over a void row of the name and type asked for |
| `told` | history: the zone and serial of the last answer that bore one and was put together while nothing changed, forgotten at a deletion in that zone |

A query is `Ask`, `FindZone`, then one action for the kind of question:
`Lookup` (A stands for the types of which one record is served, TXT for those of
which all are), `Synthesize` (NS, CAA), `AskSOA`, `AskKey`, `AskDS`, `AskOther`.
What is missing goes through `Exists`, the two statements of the serial
(`Created`, `Updated`), `Deny`, and, when signatures are asked for, `ProveSpan`
and `ProveTypes`; what is there through `Sign`. Then `Return`. A parameter `ok`
says whether the statement succeeds. Queries only read the tables (the key they
may create is the subject of `SigningKey`), so one goroutine that asks again and
again shows what many would. Administrators create, change and delete domains
and records and switch the signatures.

A name is the sequence of its labels, top first, so that being in a zone is
having it as a prefix, and the canonical order goes from left to right. The
contents of a record are good; or bad, which is found and cannot be put into an
answer; or void, which counts as absent: its ttl does not scan into a `uint32` (the
form of the records takes a negative one), or one record is served and this one
has no content. Of the settings the switch and whether there are hosts in
`dns.ns_hosts` (`Synthesize`) matter; the others are taken to be well-formed. The
read of the type bits and of the switch beside it are one step. The model keeps what is unusual about
the code: a CAA record is made up for any name in a zone, NS is answered with
the name of the zone whatever was asked, a DNSKEY below the zone is NXDOMAIN
without a proof, and so is a name that only has names below it (with one),
records whose names lie outside their zone take part in its proofs, and a void
row is denied with an NSEC record that lists its type, because
`queryTypesByName` does not look at what it holds.

`DenialIsProved` compares the proof with the definition of RFC 4034, for a query
during which nothing changes or fails: with a change in between, the code and
the proof may contradict each other. `KeptRowsCount` is what then remains: rows
and domains nobody has touched are honoured by every part of the answer. Both
make an exception of what the void rows do: where one has been passed over
(`skipped`), the type in question may be denied and listed at once, or be denied
although another row of it could have been served; everything else they claim
still holds, and void rows count for the name, the span and the serial.

### 3.8 `PageShell`: the shell of the frontend

| state | code |
|---|---|
| `window` | the browser: the history of the tab and the place in it |
| `loc`, `cache`, `token`, `state` | `locationState`, `pageCache`, `refreshToken`, and `pageData`, `error`, `loading` of `App` |
| `pending`, `live` | `pendingPageLoads`; the request whose answer the present effect has not cancelled |
| `due` | the effects of the last render that have still to run |
| `posts` | mutations sent and not answered, with the key of the route they were sent from |
| `stored`, `signedIn` | the server: the version of the data of each view, the session |
| `owed` | history: for each key the own write its page has to show |

`RunEffects` is the load effect and, on the server configuration page, the one
that writes the tab into the address bar without the shell's knowledge. A
request is `Serve`d (read, failed or denied), then `Deliver`, `Fail` or `Deny`
(a new document, the login). The user has `Click`, `PopState`, `Enter` (a new
document: an address, a reload, signing out) and `Submit`; the server `Apply`s
or `Refuse`s a mutation, and `Answer` is `handleMutationResponse`: an alert, a
`Refresh` of where the tab is, or `Leave` for another location. Others write
(`ElsewhereWritten`), and sessions end.

Two things about React and the browser are supposed: the effects of a render
have run before the next event of the user (answers may come in between), and a
response is handled in one step. Paths the server has no document for are left
out. The forms are those of the pages with what each writes and where the
handler redirects: `to` is `"here"` when the page calls `refresh`, `"referer"`
when the handler sends back to where the form was, `"document"` when the browser
and not the shell loads the answer.

`OwnWritesShown` leaves two cases out, in which a write is not shown: a load of
the same key and token is under way when the answer comes, so that the new
effect joins it and keeps what it read before the write; and `refresh`, which
drops the key the route had when the form was sent, while the tab has moved on
and come to the address of the answer. A third thing the code does shows in
`ShownIsOfRoute`, which excludes loads that failed: `App` shows the error only
when it has no page at all, so a failed load leaves the page of the location
before on screen.

### 3.9 `PageForms`: the forms inside the shell

`PageForms` extends `PageShell`: each of its actions is one of the shell
together with what it does to the form on screen. `draft` stands for the inputs
of the settings (of which it follows the private DNSSEC key) or the fields of
the server configuration (of which it keeps whether they hold edits), `keys` for
the key each version of the settings holds. `Remounted` is a new key of the error
boundary or another component; `Mounted` what `defaultValue` and `useState` make
of the page there is at that moment, which may be that of another address;
`Follows` the effect that fills the fields of the server configuration from
every page object it is given. `Search` takes inputs out of the settings and
puts them back; `TypeKey`, `EditFields` and `Cancel` are the user's. An input
that is missing or empty keeps the stored key (`Saved`).

### 3.10 `AnalyticsPage`: filters, loads and timers

| state | code |
|---|---|
| `filters`, `draft`, `quick`, `page`, `interval` | `filters`, `draftFilters`, `quickSearch`, `logPage`, `refreshInterval` |
| `timer` | the 250 ms of the search box: its text, whether they are over |
| `load`, `inFlight`, `loading` | the load that was not aborted, with the answers it has; `inFlightRef`; `loading` |
| `shown`, `failed` | what is on screen; whether the last load ended in an alert (history) |
| `due` | the effects to run: of the filters, of the search box, of the loads (`"tick"` when the timer asked) |
| `posts`, `incidents`, `owed` | dismissals and deletions under way; the version of the incidents on the server; history: the version that has to be shown |

`RunEffects` runs what is due in the order of the source: `FollowFilters` writes
the search box and goes to the first page, the search box sets its timer, and
`StartLoad` aborts the load under way and begins another. A load is
`ServeLogs`, `ServeIncidents`, then `Arrive`, or `LoadFails`. `RunOut` and
`Debounce` are the search, `Tick` the interval, which asks for a load unless
`inFlightRef` says that one is under way; the `finally` of an aborted load
clears that flag after the new load has set it, which is why `Start` leaves
`inFlight` false then. The user has `Search`, `UpdateDraft`, `ApplyFilters`,
`ResetFilters`, `PickPage`, `Refresh`, `SetInterval` and `Dismiss`.

All filters but the search are one value, the slice, one of which `ApplyFilters`
cleans (`"untidy"`, letters in the status; the run has it). `default` says whether the filters
are the `defaultFilters` object itself: to set it again renders nothing. Of the
five requests of a load the log (with the number of its pages) and the incidents
remain; dialogs, hosts, profiles of addresses, charts and the map are left out.
`RunOut` supposes that effects take less than 250 ms, `Tick` that they take less
than the interval.

## 4. The runs

### 4.1 Runs that pass

| run | instance | what it shows |
|---|---|---|
| `incidents` | 2 alerts, 2 synchronisers, 2 moves, 5 ids, LIMIT 2 | one active incident per alert, resolved is final, no mail twice, whatever fails or dies; the table converges to the alerts that go on firing, if the mail server answers in the end |
| `status` | 2 keys, 1 slot, 1 request besides the loop, 2 goroutines of a key told apart, time 0..2 | single flight, uptime kept, a stale key is answered again, a watched key probed for ever, `StatusBoard` implemented with its fairness |
| `fail2ban` | 2 bans of a server, loop and a request, 4 moves | table and chain agree while goroutines take turns, but for rules the panel has deleted; rules of others and bans in force are kept; if the mail server answers in the end, expired rows go whatever overlaps or fails, offenders are blocked again and again and every ban ends |
| `login` | a known and an unknown user, 1 address, 2 requests, limits 2 and 2 | passwords compared are bounded although check and record are apart; a lock-out ends once nobody tries |
| `key` | 2 queries, 1 save, 3 moves | one key from many queries; kept and present after saves that do not overlap; answers signed with a stored key; the mutex comes back on every path |
| `certificates` | 2 sites of 2 servers, 2 names, a request at a time and the loop, batch of 2, 3 moves | rows have their files, nginx serves the rows but for sites deleted under another name, each name with certificates of its own that are not revoked; every operation ends, what is due is renewed while the batch has room for all |
| `zone_answers` | 3 names, 2 of them possible zones, one in the other, 2 records, clock 1..2, a change or failure | proofs of absence are right in every zone of this size, but for a void row; what stays is honoured whatever else changes during the query; serials go back through deletions only |
| `shell` | one tab, 6 paths with and without the tab parameter, 3 moves, a mutation at a time | a tab at rest shows the page of its location, with its own writes in it; late answers spare edits; every load ends |
| `analytics` | 2 texts, 3 slices, 2 pages of the log, 3 moves, a dismissal at a time, loads shorter than the interval | the page at rest shows the slice and page it says, without what was dismissed; every load ends; search box and filters come to agree |

### 4.2 Bounds, and why they are enough

* `MaxMoves` (all but `LoginThrottle`) bounds what the surroundings do: changes
  of alerts, servers or traffic, requests, failing steps, crashes. The steps of
  the goroutines themselves are not bounded. It is 2 for `incidents`, a fault in
  each half of a synchronisation; 1 for the status monitor, whose servers come
  and go but whose races are among its own goroutines; 4 for `fail2ban`, since a
  ban needs a policy, an offender and its end before anything can go wrong with
  it; 3 for `key`; 3 for `certificates`: a certificate comes due, a request
  meets its renewal, and a step of either fails; 1 for `zone_answers`, whose
  initial states are all fillings of the tables with good rows, so that a change
  falls between any two statements of any query, and a bad or void row is written
  before or during one; 3 for `shell` and `analytics`: something is
  under way, the user goes elsewhere and comes back. Requests, effects, timers
  and answers are not bounded.
* `Routes` of `shell` are a path with a key of its own parameters, a list a form
  leads back to, the settings with and without `saved=1`, the server
  configuration with and without its tab, and the login; the other lists behave
  as these do. `MaxPosts` is 1 in both: a second mutation of the same tab is one
  more write from elsewhere.
* `Slow` is how many times the interval may go off during a load. With 1, which
  is a load of less than the interval (5 s at least), `LoadsEnd` holds; with 2 it does not: after one
  abort the flag is clear although a load is under way, every tick aborts it and
  starts another, and loads that take longer than the interval never end. The
  page then shows what it had.
* `MaxId` bounds the ids of incidents. It is never reached: a synchroniser that
  needed an id and had none would be stuck, and the run checks for deadlock.
* `RowLimit` is 100 in the code and 2 here, so that history outgrows it.
  The assumption that there are no more alerts than `RowLimit` is the code's
  situation: it has fewer than a dozen alert ids.
* `Slots` is 8 in the code; 1 makes two keys compete. `Copies` tells two
  goroutines of one key apart so that a second one would be seen; a new
  goroutine is the first of its key that does not run.
* `MaxTime` bounds the clock of the status monitor, which starts at
  `StaleAfter + 1`, when the zero time of a missing entry has aged. With
  `StaleAfter` 0 the one tick there is makes every answer stale that came before
  it, so that it is asked for and answered again. Liveness of probes does not
  need time to pass.
* `UserMax`, `IPMax` are 5 and 3 in the code, 2 and 2 here; `Cooldown` and
  `Block` a minute and a day, 2 and 3 ticks here. `MaxAge` bounds the age of an
  attempt; it is smaller than `Cooldown`, that is, a comparison of passwords
  takes less than a minute.
* `Born` is the sets of sites there may be to begin with. Of the two sites of
  `certificates` it is none, the first, or both: they are alike.
* `BatchLimit` is 25 in the code. With 2 the batch holds both certificates; with
  1 `DueIsRenewed` does not hold: a certificate whose domain leads elsewhere
  expires first, fills every batch, and the one behind it is never renewed. In
  the code it takes 25 of them, and the rows of deleted sites count.
* Three names, one below the other, and two records give a zone of up to three
  names: a span in its middle and one around its end, and, with a record outside
  the zone, one around its beginning. The places of the table are symmetric
  (`IdSymmetry`, used in this run only, which has no liveness property).
* Two goroutines of each kind are where all the races described in this code
  happen; the proofs of section 5 do not have this bound. In `certificates` one
  of the two is the loop; with a single goroutine of requests, what overlaps is
  a request and the renewal of a certificate, not two requests.

### 4.3 Fairness

Goroutines that have begun go on (`WF` of their continuing steps). What they
wait for is: locks; the limiter; the database and the commands of the host, which
are supposed to return; calls over the network with a deadline (probes, the
authority, look-ups); and mails, which have none. So a mail is only sent while the
mail server is not `silent`, and what `incidents` and `fail2ban` claim to happen in
the end is claimed under `<>[]~silent`: the mail server may stop answering any
number of times, but not for ever. Without that condition none of it holds: one mail
that is never answered stops the synchronisation of incidents, or the round of bans
and with it every later expiry.

Waiting for a lock or for the limiter is strongly fair, because Go hands a mutex to
a starving waiter and queues senders on a channel. The loops of `incidents`,
`status`, `fail2ban` and `certificates` begin again for ever because of their
tickers. In `fail2ban` a ban that no traffic extends expires: the disabled interval
in which a row is being renewed calls for `SF`. In `login` time passes. Requests,
alerts, traffic, the mail server, faults and crashes are never assumed to happen. In
a tab, effects run after their render and requests end in an answer or an error
(`WF`). In `analytics` the 250 ms of the search pass between the renders although
these may go on for ever (`SF` of `RunOut`); the interval need not go off.

### 4.4 Runs that show a disagreement

| run | what the repository says | what the code does |
|---|---|---|
| `fail2ban_prefix` | "Fail2Ban-style automatic banning" | lifting the ban of 10.0.0.1 also deletes the rule of 10.0.0.10, whose row stays and keeps the rule from being added again while it is in force |
| `settings_key` | "An ordinary settings save must never erase or silently rotate an existing DNSSEC signing key." | the answer to a save at `/settings` mounts the form again, under the key of `/settings?saved=1`, while the page on screen is still the old one; the inputs keep its values when the new one arrives, and the next save posts the old key back over the new one |
| `certificates_reissue` | "Issue, renew, or remove certificates for each proxy site." | when a site that has a certificate is given another one under another name (it has been renamed in between, and the page asked from is out of date), the row keeps the old domain, and a renewal writes a certificate of the old name over the one of the new |

Others are not runs. The same sentence about the key is not true of the server
either: a save that enables DNSSEC and read an empty key writes its own over the
one a query has made meanwhile, which is why `KeyKept` supposes that saves do not
overlap. The analytics page asks to dismiss an incident "and move
it to history", but a synchronisation that has read the row before writes `open`
back (`UpdateIncident` after `DismissIncident`). No property claims that a
dismissal lasts.

The properties that hold are stated with the conditions the code needs: `Calm`
in `Fail2Ban` (goroutines take turns and nothing fails) and `undone`, `overlapped` and
`failed` in `SigningKey`, `met`, `failed`, `tangled` and `left` in
`Certificates`, `failed`, `skipped` and what is kept in `ZoneAnswers`. So
nothing is claimed where a request lifts a ban while the loop renews it (its row
may go and its rule stay), or where a save of the settings could not list them
(it takes the key for empty and makes another).

## 5. The proofs

All constants are arbitrary, subject to the assumption of the module.

* `IncidentsProofs` assumes `IncidentsAssumption` (finitely many alerts, no more
  than the LIMIT). `TypeCorrect` is the type invariant. `OneActiveAlways` needs
  a strengthening, `IInv`: the goroutine that writes holds the mutex; what it
  read under it still contains every active row of the table, with its
  fingerprint (rows may have been dismissed or deleted by requests, never
  activated); what it has inserted since is in `touched` and no alert is left
  for it. The lemma that makes the LIMIT harmless is `ActiveNotHidden`: active
  rows sort first and there are no more of them than alerts.
  `ResolvedStaysResolved` follows from the same invariant, because a row that is
  resolved can only be in the hands of the goroutine that resolved it.
  `MailedOnceAlways` needs what a goroutine knows of stamps (`MailInv`): rows it
  read carry the stamps the table has, since only the holder of the mutex stamps;
  an incident it has still to announce as open has had no more such mails than
  stamps were lost, and one it resolved has had no mail of that.
* `StatusProofs` assumes `StatusAssumption`. `MonitorSafe` proves the types,
  single flight, an exact limiter and coherent entries (which the run does not
  check again) from an invariant that adds the
  progress of the requests and the finiteness of the goroutines to them;
  `UptimeIsKept` the action property, `ImplementsBoardSafety` that every step
  maps to a step of `StatusBoard` or to none.
* `PageShellProofs` assumes `PageShellAssumption`. `RestsOnItsRoute` needs that
  a tab with no effect of the route due shows the page of its location, or waits
  for a request of its key, or reports an error, and that a request that is
  waited for is one of those under way; what makes that inductive is `TypeCorrect`:
  one entry of `pendingPageLoads` per key and token, so that the answer that
  settles the load is the one the present effect asked for.
  `OwnWritesStay` needs, besides that invariant, `Writes`: what a key owes has
  been written; neither its entry of the cache nor an answer that can still be
  taken for the key (of the present `refreshToken`, or awaited by the effect) is
  older. Answers of older tokens may be, and the token only grows: that is why
  `refresh` advances it. Where an answer only drops the entry of a key
  (`invalidateRouteCache`), the condition `~Overlaps` stands in for the token,
  and without it the theorem is false.

  All of this is proved of `FormsSpec`, the shell with the forms in it: each of
  its steps is one of the shell or leaves the shell alone. `FormsTypeCorrect`
  needs that every page in the cache, on its way or on screen is of a version the
  server has had (`FromServer`), so that the key a form is mounted with exists.
  `EditsSpared` follows from the invariant that the form followed is the one on
  screen: with no effect due and no answer awaited, only the user changes the page.
* `AnalyticsProofs` assumes `AnalyticsAssumption`. `RestsOnItsFilters` and
  `ShowsTheConfirmed` follow from one invariant: unless the effect of the loads
  is due, the load under way is for the filters and the page there are, and has
  not read the incidents, or has read them after everything that is owed; and
  without a load or an error what is shown was loaded so. Each step either
  makes the effect due (`MadeDue`) or leaves all of that alone (`LeftAlone`).

* `SigningKeyProofs` assumes `SigningKeyAssumption`. `SignsWithStored` needs that
  whoever holds the mutex of the copy knows every key stored since
  (`HeldNow`): saves store keys without that mutex. `KeepsItsKey` needs
  that, as long as no save has overlapped with anything, a save at work is
  alone, and that, if nothing has failed either, it knows the key there is and a
  query stores one only where there is none (`SavesAlone`, `NothingStale`).

* `AccessProofs` holds the two mechanisms that decide who may try again.
  Of the login throttle it assumes `LoginThrottleAssumption`, among it that an
  attempt takes less than the cooldown. `GuessesAreBounded` and `BurstsAreBounded`
  rest on `LoginInv`: as long as a key is not locked, what has been compared is
  covered by what has been counted and what is still being compared; as long as
  it is, nothing more is admitted but what took its time before.

  Of Fail2Ban it assumes `Fail2BanAssumption`. `BanIsKept` needs that what the
  clean-up has in hand is not in force (`SweptAreOver`). All that follows rests on
  one more clause (`NumsOK`): whatever a comment finds, and whoever lists it, the
  numbers still to be deleted are of rules it has found, after every shift, because
  to delete the highest of a set of numbers leaves what the lower ones stand for as
  it is (`CutHits`). `OthersAreKept` follows from it,
  because what a deletion or an insertion does to the rules of others is to renumber
  them, one to one.

  `TableMatches` assumes besides that no comment is part of another one (`Exact`;
  without it the run `fail2ban_prefix` is a counterexample). Its invariant is that
  table and chain agree on a ban but for the one that is in hand (`Matched`), that
  the numbers still to be deleted are *those* of the rules of the ban in hand, that
  a row is written only for a ban that has a rule, and that a request which deletes
  the rules of a ban by their comment cannot end without having taken note of it, if
  there is a row (`HandsOK`); the lemma is `CutHighest`: no other ban loses a rule. A
  ban whose rule the panel has deleted is in `undone`
  and agrees, with a row and no rule, until its row goes or is written again.

  `UnsharedRuled` does without `Exact`: a ban whose rules no *other* comment finds
  has a rule while it has a row, nobody is at work, and no request has deleted its
  rule. The comment of 10.0.0.1 finds the rule of 10.0.0.10 and not the reverse, so
  that in such a pair only the longer address is ever banned without a rule. The
  invariant, `Ruled`, says that such a ban loses its last rule to its own clean-up
  or lift, which goes on to delete the row, or to a request that `undone` remembers.
  `ActiveBansRuled` concludes that, with requests that delete rules by themselves set
  apart, what a comment finds is the only cause of what `fail2ban_prefix` shows.

* `CertificatesProofs` assumes `CertificatesAssumption`: finitely many sites and
  names, different names for the sites at first (`NameOf` is injective; any of the
  sites may be there, `Born`), and markers (no row, no certificate, not born, gone)
  that are no rows. There may be any number of
  goroutines that serve requests. It has three layers, each with
  an invariant that is inductive over the one below.
  `CertTypesCorrect`: `IInv` says for each place in an operation what work and
  which names may be at hand there (`Fits`), and that the mutex is held by `p`
  exactly where `p` is between `Lock` and the end of an operation on
  certificates (`LocalsOK`). `RowsFilesKept`: `FilesOK` says, for each place of
  the holder of the mutex, what is in order and what it has in hand
  (`HolderOK`): while it writes the two files all other certificates are whole,
  and the pair it writes was issued for the domain it will enter; that the
  certificate it renews is still in the table, with its path, holds because
  nobody without the mutex changes certificates but the deletion of a server,
  which removes its rows in one step and is excluded while it overlaps (`PurgerOK`
  says what that deletion may still remove when it is alone). Distinct
  certificates have distinct paths as long as rows and names are not at odds,
  which is what `~tangled` is for (`Noted`). `RowsServed`: `SitesOK` says, for a
  goroutine that is alone (`Alone` follows from `met = {}`), which names its
  operation may have left behind (`ServerOK`): those still to deploy, and the
  last step of each operation leaves none but those in `left`, which nothing has
  touched since a deletion under another name. That the row an operation on
  certificates changes is the one of the name it deploys, it has from `FilesOK`.
  `NamesKept` states the cause of `certificates_reissue`, and needs none of
  this, nor that anything runs alone or succeeds: `NamesOK` says that a file
  written at rest or by the holder of the mutex is of its name, because an issue
  takes path and domain from one form and a renewal from one certificate (`Noted`
  keeps these together until the table is at odds with the names).
  `OwnPairsServed` joins all of it, and holds for the names in `left` too, of which
  no row speaks any more: with the mutex free no file is of a pair that is revoked,
  since a deletion that revokes one goes on to remove it (`RevokedOK`); the files are
  of their names (`NamesOK`); and whatever the configuration of a name says, it says
  of no certificate but that of the name (`ConfOK`). So a certificate that is deleted
  is out of use when its deletion is over.

* `ZoneAnswersProofs` assumes `ZoneAnswersAssumption`: finitely many names, each a
  sequence of numbers that is not empty, and a `None` that is none of them.
  `DenialsAreProved` first shows that `CanonicalLess` is a strict total order, that the
  names of a zone can therefore be put in a sequence with no name in between two
  neighbours, and that the span the code finds in that sequence, around its end
  too, covers what is asked and no name that is there; `DInv` carries that
  through the statement that reads the types, for a query nothing disturbs.
  `KeptCount` rests on `KInv`, which says at each place of the query what the
  statements so far owe to the rows nobody has touched since it came: each
  clause is about what stays, so that it survives any change of the rest. One of
  them (`NothingWanted`) is that a type is denied only if every row of it that stays
  has gone by as void, or hidden by one that has. `DenialsAreProved` has the same
  exception, where the void row of the type is in the types of the span's owner.
  `SerialKept` rests on `SInv`: the serial last told, by an answer nothing
  disturbed, is not greater than the creation of the zone or the stamp of one of
  its records, and only a deletion in that zone can take that away, at which it is
  forgotten. `TInv` holds
  the types they share.

Only model-checked is liveness, which is beyond the prover: `AlertsAreFollowed`,
`StaleGetsFresh`, `WatchedIsProbed`, `OffenderIsBlocked`, `EveryBanEnds`,
`LockoutEnds`, `QueryEnds`, `DueIsRenewed`, `OperationsEnd`, `LoadsEnd` (of the
shell and of the analytics page), `SearchSettles`, and the fairness of
`StatusBoard` in `ImplementsBoard`. The type invariants of `Incidents`,
`StatusMonitor`, `LoginThrottle`, `SigningKey`, `PageShell` and `AnalyticsPage` are proved and
not checked by a run; those of the other modules are both.

## 6. What is not modelled

Section 2.1 lists what is planned. Not planned: sessions (a signed cookie), the
routing and parsing of HTTP, the aggregation behind the analytics (SQL and
arithmetic), mails, templates, the installation, and of the frontend its types,
build and drawing: the charts, the map (whose markers are drawn when the points
change, and not when the library arrives after them), the dialogs of profiles
(of two that are asked for, the answer that comes last is shown) and of hosts,
the clipboard. In the modelled
parts: the thresholds that make an alert or an offender, the contents of probes
and keys, the FORWARD chain (no ban enters it), ports, redirects and
authentication of sites, the accounts and challenges of the authority, the text
of DNS records and what their ttl is, DNS packets that do not parse, the delegation check
of the list of domains, the wording of anything.

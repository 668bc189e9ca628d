------------------------------ MODULE PageShell ------------------------------
(***************************************************************************)
(* The shell of the web frontend: which page a browser tab shows of the    *)
(* location it is at, and what the answer to a form does to the pages it   *)
(* has loaded before.                                                      *)
(*   src/web/frontend/src/app.tsx, common.tsx                              *)
(* A tab keeps every page it loaded until a mutation of its own drops it.  *)
(* A page is loaded by an effect, which React runs after the render that   *)
(* asks for it; events of the user find no effect left to run, answers may *)
(* come in between.  While the page of a new location loads, the tab goes  *)
(* on showing the page of the old one, forms and all.                      *)
(*                                                                         *)
(* A page is its view and the version of the data it was made of: each     *)
(* write makes a new version of the data of one view.  Of the search part  *)
(* of a URL the model keeps what tells two pages apart: "saved" is         *)
(* /settings?saved=1, "denied" is /login?error=..., and `tab' says whether *)
(* the parameter is there that the server configuration page puts into the *)
(* address bar behind the shell's back.  Paths resolveRoute does not know  *)
(* are left out: the server has no document for them.                      *)
(***************************************************************************)
EXTENDS Naturals, Sequences, FiniteSets

CONSTANTS
  Routes,    \* the paths that are visited
  MaxMoves,  \* bound: what users do, here and elsewhere
  MaxPosts   \* bound: mutations without an answer yet

ASSUME PageShellAssumption ==
  /\ Routes \subseteq {"login", "denied", "analytics", "dashboard", "domains",
                       "records", "servers", "serverconf", "settings", "saved"}
  /\ "login" \in Routes
  /\ MaxMoves \in Nat /\ MaxPosts \in Nat

VARIABLES
  window,    \* the browser: the history of the tab and where in it it is
  loc,       \* locationState
  cache,     \* pageCache: of each key, the version of its page; 0 is none
  token,     \* refreshToken
  pending,   \* pendingPageLoads, with what has become of each request
  live,      \* the request whose answer the current effect waits for
  state,     \* the page shown, whether its load failed, whether one is under way
  due,       \* the effects of the last render that have not run yet
  posts,     \* mutations under way
  stored,    \* the server: the version of the data of each view,
  signedIn,  \* and whether the session is good
  owed,      \* history: the own write that the page of a key has to show
  moves

client == <<window, loc, cache, token, pending, live, state, due>>
server == <<stored, signedIn>>
vars   == <<client, posts, server, owed, moves>>

-----------------------------------------------------------------------------
\* resolveRoute: what each path shows, and which of them need no request.
View(r) == CASE r = "saved" -> "settings" [] r = "denied" -> "login" [] OTHER -> r

StaticRoutes == {"login", "denied", "analytics"}
Views        == {View(r) : r \in Routes \ StaticRoutes}

\* The paths whose key holds the search part as well.
SearchKeyed  == {"login", "denied", "settings", "saved", "serverconf"}

Locations == [route : Routes, tab : BOOLEAN]
At(r)     == [route |-> r, tab |-> FALSE]
Key(l)    == IF l.route \in SearchKeyed THEN l ELSE At(l.route)
Keys      == {Key(l) : l \in Locations}
Url       == window.history[window.at]

NoPage     == [view |-> "none", version |-> 0]
Page(k, v) == [view |-> View(k.route), version |-> v]

\* A request is found again by its key and its token; one that no effect
\* waits for has been cancelled.
Request(k, t)  == [key |-> k, token |-> t]
RequestOf(r)   == Request(r.key, r.token)
None           == Request(At("none"), 0)
Outcomes       == {"asked", "read", "failed", "denied"}

\* The component on screen.  The page of the login, shown on while another
\* location loads, has none there: it comes out as an error.
Shown ==
  IF state.page = NoPage THEN "none"
  ELSE IF View(loc.route) = "login" THEN "login"
  ELSE IF state.page.view = "login" THEN "none"
  ELSE state.page.view

-----------------------------------------------------------------------------
(* The forms of the pages: what each writes and where its answer leads.    *)
Form(page, data, to) == [on |-> page, writes |-> data, to |-> to]

LoginForm       == Form("login", "session", "dashboard")
DomainForm      == Form("domains", "domains", "domains")
RecordForm      == Form("records", "records", "referer")
ServerForm      == Form("servers", "servers", "servers")
RedeployAll     == Form("servers", "nothing", "alert")
SettingsForm    == Form("settings", "settings", "saved")
TestMail        == Form("settings", "nothing", "here")
SaveErrorFile   == Form("serverconf", "serverconf", "here")
UploadErrorFile == Form("serverconf", "serverconf", "referer")

\* ActionForm, and the form that saves the page, leave the shell out of it on
\* the server configuration page: the browser loads a new document.
ServerConfigForm == Form("serverconf", "serverconf", "document")

Forms == {LoginForm, DomainForm, RecordForm, ServerForm, RedeployAll, SettingsForm,
          TestMail, SaveErrorFile, UploadErrorFile, ServerConfigForm}

\* What is asked of /api is refused with a status, all else with a redirect.
ByAPI(f) == f \in {RedeployAll, TestMail}

\* The links of the frame, and those of the pages.
NavItems     == {"dashboard", "domains", "servers", "analytics", "settings"}
LinksOn(page) == CASE page = "domains" -> {"records"}
                   [] page = "servers" -> {"serverconf"}
                   [] OTHER -> {}
Links == IF View(loc.route) = "login" THEN {}
         ELSE (NavItems \cup LinksOn(Shown)) \cap Routes

-----------------------------------------------------------------------------
(* Documents: the state of a tab that has just loaded one.                 *)
FirstState(l) ==
  [page |-> IF l.route \in StaticRoutes THEN Page(l, 0) ELSE NoPage,
   error |-> FALSE, loading |-> l.route \notin StaticRoutes]

Document(l) ==
  /\ window' = [history |-> <<l>>, at |-> 1]
  /\ loc' = l
  /\ cache' = [k \in Keys |-> 0]
  /\ token' = 0
  /\ pending' = {}
  /\ live' = None
  /\ state' = FirstState(l)
  /\ due' = {"load"}
  /\ posts' = {}

Init ==
  /\ \E r \in Routes : loc = At(r)
  /\ window = [history |-> <<loc>>, at |-> 1]
  /\ cache = [k \in Keys |-> 0]
  /\ token = 0
  /\ pending = {}
  /\ live = None
  /\ state = FirstState(loc)
  /\ due = {"load"}
  /\ posts = {}
  /\ stored = [v \in Views |-> 1]
  /\ signedIn = TRUE
  /\ owed = [k \in Keys |-> 0]
  /\ moves = 0

-----------------------------------------------------------------------------
(* Effects.                                                                *)

\* What a render leaves to be run: the effect of the route when something it
\* depends on has changed, and that of the server configuration page when the
\* page is mounted, which every new key does, since it names the boundary.
Remounts(l, page) ==
  page.view = "serverconf" /\ (Key(l) # Key(loc) \/ state.page.view # "serverconf")
Renders(l, page, reload) ==
  due \cup (IF reload \/ Key(l) # Key(loc) THEN {"load"} ELSE {})
      \cup (IF Remounts(l, page) THEN {"mount"} ELSE {})

\* The page writes its tab into the address bar; App hears nothing of it.
WithTab == [window EXCEPT !.history[window.at].tab = TRUE]

\* Variation: whoever asks for a key waits for any request for it.
StartLoadByKey(k) ==
  /\ state' = [state EXCEPT !.error = FALSE, !.loading = TRUE]
  /\ live' = Request(k, token)
  /\ IF \E r \in pending : r.key = k
     THEN UNCHANGED pending
     ELSE pending' = pending \cup {[key |-> k, token |-> token, is |-> "asked", version |-> 0]}

\* Variation: every load makes a request of its own.
StartLoadAgain(k) ==
  /\ state' = [state EXCEPT !.error = FALSE, !.loading = TRUE]
  /\ live' = Request(k, token)
  /\ pending' = pending \cup {[key |-> k, token |-> token, is |-> "asked", version |-> 0]}

\* A load waits for the request of its key and token, made now or before.
StartLoad(k) ==
  /\ state' = [state EXCEPT !.error = FALSE, !.loading = TRUE]
  /\ live' = Request(k, token)
  /\ IF \E r \in pending : RequestOf(r) = Request(k, token)
     THEN UNCHANGED pending
     ELSE pending' = pending \cup {[key |-> k, token |-> token, is |-> "asked", version |-> 0]}

ShowAtOnce(page) ==
  /\ state' = [page |-> page, error |-> FALSE, loading |-> FALSE]
  /\ live' = None
  /\ UNCHANGED pending

RunEffects ==
  /\ due # {}
  /\ window' = IF "mount" \in due /\ View(loc.route) # "login" THEN WithTab ELSE window
  /\ LET k == Key(loc)
     IN  \/ "load" \notin due /\ UNCHANGED <<state, live, pending>>
         \/ "load" \in due /\ k.route \in StaticRoutes /\ ShowAtOnce(Page(k, 0))
         \/ "load" \in due /\ k.route \notin StaticRoutes
            /\ \/ cache[k] # 0 /\ ShowAtOnce(Page(k, cache[k]))
               \/ cache[k] = 0 /\ StartLoad(k)
  /\ due' = IF Remounts(loc, state'.page) THEN {"mount"} ELSE {}
  /\ UNCHANGED <<loc, cache, token, posts, server, owed, moves>>

-----------------------------------------------------------------------------
(* Page requests.                                                          *)
Settle(r, outcome, v) ==
  pending' = (pending \ {r}) \cup {[r EXCEPT !.is = outcome, !.version = v]}

\* The server answers a request, or it does not get there.
Serve(r) ==
  /\ r.is = "asked"
  /\ \/ signedIn /\ Settle(r, "read", stored[View(r.key.route)])
     \/ signedIn /\ Settle(r, "failed", 0)
     \/ ~signedIn /\ Settle(r, "denied", 0)
  /\ UNCHANGED <<window, loc, cache, token, live, state, due, posts, server, owed, moves>>

\* Variation: nobody looks whether the effect that asked is still current.
DeliverAnyway(r) ==
  /\ r.is = "read"
  /\ pending' = pending \ {r}
  /\ live' = IF live = RequestOf(r) THEN None ELSE live
  /\ cache' = [cache EXCEPT ![r.key] = r.version]
  /\ state' = [page |-> Page(r.key, r.version), error |-> FALSE, loading |-> FALSE]
  /\ due' = Renders(loc, state'.page, FALSE)
  /\ UNCHANGED <<window, loc, token, posts, server, owed, moves>>

\* An answer becomes the page if the effect that asked for it is still current.
Deliver(r) ==
  /\ r.is = "read"
  /\ pending' = pending \ {r}
  /\ IF live = RequestOf(r)
     THEN /\ live' = None
          /\ cache' = [cache EXCEPT ![r.key] = r.version]
          /\ state' = [page |-> Page(r.key, r.version), error |-> FALSE, loading |-> FALSE]
          /\ due' = Renders(loc, state'.page, FALSE)
     ELSE UNCHANGED <<live, cache, state, due>>
  /\ UNCHANGED <<window, loc, token, posts, server, owed, moves>>

\* A load that fails leaves the page there is, of whatever location, on screen.
Fail(r) ==
  /\ r.is = "failed"
  /\ pending' = pending \ {r}
  /\ IF live = RequestOf(r)
     THEN /\ live' = None
          /\ state' = [state EXCEPT !.error = TRUE, !.loading = FALSE]
     ELSE UNCHANGED <<live, state>>
  /\ UNCHANGED <<window, loc, cache, token, due, posts, server, owed, moves>>

\* fetchJSON leaves for the login, whether or not anybody still waits.
Deny(r) ==
  /\ r.is = "denied"
  /\ Document(At("login"))
  /\ UNCHANGED <<server, owed, moves>>

-----------------------------------------------------------------------------
(* Navigation.                                                             *)
Push(l) == [history |-> Append(SubSeq(window.history, 1, window.at), l),
            at |-> window.at + 1]

\* navigate: nothing happens to a tab whose address bar is there already.
Navigate(l) ==
  IF l = Url
  THEN UNCHANGED <<window, loc, due>>
  ELSE /\ window' = Push(l)
       /\ loc' = l
       /\ due' = Renders(l, state.page, cache'[Key(l)] # cache[Key(l)])

Moves == moves < MaxMoves /\ moves' = moves + 1

Click(r) ==
  /\ Moves
  /\ due = {}
  /\ r \in Links
  /\ At(r) # Url
  /\ cache' = cache
  /\ Navigate(At(r))
  /\ UNCHANGED <<token, pending, live, state, posts, server, owed>>

\* Back and forward.
PopState(i) ==
  /\ Moves
  /\ due = {}
  /\ i \in {window.at - 1, window.at + 1}
  /\ window' = [window EXCEPT !.at = i]
  /\ loc' = window.history[i]
  /\ due' = Renders(loc', state.page, FALSE)
  /\ UNCHANGED <<cache, token, pending, live, state, posts, server, owed>>

\* An address typed in, a reload, the link that signs out: a new document.
Enter(r) ==
  /\ Moves
  /\ \/ /\ Document(IF signedIn \/ View(r) = "login" THEN At(r) ELSE At("login"))
        /\ UNCHANGED signedIn
     \/ r = "login" /\ View(loc.route) # "login" /\ Document(At(r)) /\ signedIn' = FALSE
  /\ UNCHANGED <<stored, owed>>

-----------------------------------------------------------------------------
(* Mutations.                                                              *)

\* handleSubmit, and the fetches of the pages: the answer is handled with the
\* key the route has now.
Submit(f, carried) ==
  /\ Moves
  /\ due = {}
  /\ f \in Forms /\ f.on = Shown
  /\ f.to \in {"here", "alert", "referer", "document"} \cup Routes
  /\ Cardinality(posts) < MaxPosts
  /\ posts' = posts \cup {[id |-> moves, form |-> f, key |-> Key(loc), referer |-> Url,
                           carried |-> carried, is |-> "sent", version |-> 0]}
  /\ UNCHANGED <<client, server, owed>>

Becomes(p, outcome, v) ==
  posts' = (posts \ {p}) \cup {[p EXCEPT !.is = outcome, !.version = v]}

\* The server does what a form asks for, refuses it, or sends to the login.
Apply(p) ==
  /\ p.is = "sent"
  /\ IF p.form.writes \in Views /\ signedIn
     THEN /\ stored' = [stored EXCEPT ![p.form.writes] = @ + 1]
          /\ Becomes(p, "done", stored'[p.form.writes])
          /\ UNCHANGED signedIn
     ELSE /\ UNCHANGED stored
          /\ signedIn' = (signedIn \/ p.form = LoginForm)
          /\ Becomes(p, IF signedIn' THEN "done" ELSE "denied", 0)
  /\ UNCHANGED <<client, owed, moves>>

Refuse(p) ==
  /\ p.is = "sent" /\ p.form.to # "document"
  /\ p.form = LoginForm => "denied" \in Routes
  /\ Becomes(p, "refused", 0)
  /\ UNCHANGED <<client, server, owed, moves>>

\* Where the answer to a form has been redirected to, if it has.
Target(p) ==
  IF p.is = "denied" THEN At("login")
  ELSE IF p.is = "refused" THEN At("denied")
  ELSE IF p.form.to = "here" THEN Url
  ELSE IF p.form.to = "referer" THEN p.referer
  ELSE At(p.form.to)

\* Answers that change nothing here: an alert shows them.
OnlyAlerts(p) == p.form.to = "alert" \/ (p.is = "refused" /\ p.form # LoginForm)

\* A load of the key whose answer would be taken for one that knows the write.
Overlaps(k, t) ==
  \E r \in pending : r.key = k /\ (r.token = t \/ live = RequestOf(r))

\* From here on the page of this key has to show the write.
Owes(k, p) ==
  IF p.form.writes = View(k.route) /\ p.is = "done" /\ ~Overlaps(k, token')
  THEN [owed EXCEPT ![k] = p.version] ELSE owed

\* refresh, as the answer to a form calls it: with the key of its time.
Refresh(p) ==
  /\ cache' = [cache EXCEPT ![p.key] = 0]
  /\ token' = token + 1
  /\ due' = Renders(loc, state.page, TRUE)
  /\ owed' = IF p.key = Key(loc) THEN Owes(p.key, p) ELSE owed
  /\ UNCHANGED <<window, loc>>

\* Variation: the page the answer leads to is taken from the cache.
LeaveStale(l, p) ==
  /\ UNCHANGED <<cache, token>>
  /\ Navigate(l)
  /\ owed' = Owes(Key(l), p)

\* invalidateRouteCache and navigate.
Leave(l, p) ==
  /\ cache' = [cache EXCEPT ![Key(l)] = 0]
  /\ UNCHANGED token
  /\ Navigate(l)
  /\ owed' = Owes(Key(l), p)

\* handleMutationResponse.  A refusal is shown in an alert, and that is all.
Answer(p) ==
  /\ p.is # "sent"
  /\ IF p.form.to = "document" \/ (p.is = "denied" /\ ByAPI(p.form))
     THEN /\ Document(IF p.is = "denied" THEN At("login")
                      ELSE [route |-> "serverconf", tab |-> TRUE])
          /\ UNCHANGED owed
     ELSE /\ posts' = posts \ {p}
          /\ UNCHANGED <<pending, live, state>>
          /\ IF OnlyAlerts(p)
             THEN UNCHANGED <<window, loc, cache, token, due, owed>>
             ELSE IF Target(p) = Url THEN Refresh(p) ELSE Leave(Target(p), p)
  /\ UNCHANGED <<server, moves>>

-----------------------------------------------------------------------------
(* The rest of the world.                                                  *)

\* Somebody else changes the data of a page.
ElsewhereWritten(v) ==
  /\ Moves
  /\ stored' = [stored EXCEPT ![v] = @ + 1]
  /\ UNCHANGED <<client, posts, signedIn, owed>>

SessionEnds ==
  /\ Moves
  /\ signedIn /\ signedIn' = FALSE
  /\ UNCHANGED <<client, posts, stored, owed>>

Tab ==
  \/ RunEffects
  \/ \E r \in pending : Serve(r) \/ Deliver(r) \/ Fail(r) \/ Deny(r)
  \/ \E p \in posts : Apply(p) \/ Refuse(p) \/ Answer(p)

User ==
  \/ \E r \in Routes : Click(r) \/ Enter(r)
  \/ \E i \in DOMAIN window.history : PopState(i)
  \/ \E f \in Forms : Submit(f, 0)
  \/ \E v \in Views : ElsewhereWritten(v)
  \/ SessionEnds

Next == Tab \/ User
Spec == Init /\ [][Next]_vars

-----------------------------------------------------------------------------
\* What is sent, and what becomes of it.
PostOK(p) ==
  /\ DOMAIN p = {"id", "form", "key", "referer", "carried", "is", "version"}
  /\ p.id \in Nat /\ p.form \in Forms /\ p.key \in Keys /\ p.referer \in Locations
  /\ p.is \in {"sent", "done", "refused", "denied"} /\ p.version \in Nat
  /\ p.form.to \in {"here", "alert", "referer", "document"} \cup Routes
  /\ p.form.to = "document" => "serverconf" \in Routes
  /\ p.is = "refused" /\ p.form = LoginForm => "denied" \in Routes

\* One entry of pendingPageLoads per key and token, none for a page that needs
\* no request, and an answer has a page in it.
RequestsOK ==
  /\ pending \subseteq [key : Keys, token : Nat, is : Outcomes, version : Nat]
  /\ \A r \in pending :
       r.key.route \notin StaticRoutes /\ (r.is = "read" => r.version # 0)
  /\ \A r, s \in pending : RequestOf(r) = RequestOf(s) => r = s

\* Every variable has its type, and the requests and mutations under way are
\* those the code can have: useRef({}) holds one request per key and token.
TypeOK ==
  /\ window \in [history : Seq(Locations), at : Nat]
  /\ window.at \in 1..Len(window.history)
  /\ loc \in Locations
  /\ cache \in [Keys -> Nat]
  /\ token \in Nat
  /\ RequestsOK
  /\ live \in [key : Keys, token : Nat] \cup {None}
  /\ state \in [page : [view : {View(r) : r \in Routes} \cup {"none"}, version : Nat],
                error : BOOLEAN, loading : BOOLEAN]
  /\ due \subseteq {"load", "mount"}
  /\ \A p \in posts : PostOK(p)
  /\ stored \in [Views -> Nat \ {0}] /\ signedIn \in BOOLEAN
  /\ owed \in [Keys -> Nat]
  /\ moves \in Nat

\* The page of a location: the answer kept for its key, if it has one.
IsPageOf(l) ==
  IF l.route \in StaticRoutes
  THEN state.page = Page(Key(l), 0)
  ELSE cache[Key(l)] # 0 /\ state.page = Page(Key(l), cache[Key(l)])

\* A tab that has nothing to run or to wait for and reports no error shows the
\* page of the location it is at, as the cache has it: answers that come late,
\* in another order, or while the user goes on and comes back, do not replace
\* it.  (A load that fails leaves the page of another location on screen.)
ShownIsOfRoute == due = {} /\ ~state.loading /\ ~state.error => IsPageOf(loc)

\* After an answer to a mutation the tab comes to rest on a page that has the
\* write in it, and never goes back behind it, whatever it had cached.  Two
\* cases are left out, in which the code does not: a load of the same key is
\* under way when the answer comes, and the key is no longer that of the route
\* the form was sent from (refresh, app.tsx:176, drops the old one).
OwnWritesShown ==
  due = {} /\ ~state.loading /\ ~state.error /\ loc.route \notin StaticRoutes
  => state.page.version >= owed[Key(loc)]

\* A load the tab shows as under way ends, in a page, an error or another
\* document, also when the request it waits for was somebody else's.
LoadsEnd == state.loading ~> ~state.loading
=============================================================================

--------------------------- MODULE PageShellProofs ---------------------------
(***************************************************************************)
(* What the shell shows, proved for any set of paths, any number of        *)
(* mutations under way and any history of the tab: the types, that a tab   *)
(* at rest shows the page of its location and its own writes, and what     *)
(* becomes of the forms in it.  The lemmas about the steps of the shell    *)
(* hold whatever the forms carry: of the shell alone, and with the forms.  *)
(***************************************************************************)
EXTENDS PageForms, SequenceTheorems, TLAPS

\* The parts of TypeOK.
WindowOK == window \in [history : Seq(Locations), at : Nat]
            /\ window.at \in 1..Len(window.history)
PageSet  == [view : {View(r) : r \in Routes} \cup {"none"}, version : Nat]
StateOK  == state \in [page : PageSet, error : BOOLEAN, loading : BOOLEAN]
LiveOK   == live \in [key : Keys, token : Nat] \cup {None}
CacheOK  == cache \in [Keys -> Nat] /\ token \in Nat /\ due \subseteq {"load", "mount"}
PostsOK  == \A p \in posts : PostOK(p)
ServerOK == stored \in [Views -> Nat \ {0}] /\ signedIn \in BOOLEAN
CountsOK == owed \in [Keys -> Nat] /\ moves \in Nat

LEMMA Parts ==
  /\ TypeOK <=> WindowOK /\ loc \in Locations /\ CacheOK /\ RequestsOK /\ LiveOK
                 /\ StateOK /\ PostsOK /\ ServerOK /\ CountsOK
  /\ TypeOK' <=> WindowOK' /\ loc' \in Locations /\ CacheOK' /\ RequestsOK' /\ LiveOK'
                  /\ StateOK' /\ PostsOK' /\ ServerOK' /\ CountsOK'
BY DEF TypeOK, WindowOK, CacheOK, LiveOK, StateOK, PostsOK, ServerOK, CountsOK, PageSet

\* The steps of the shell, with forms that carry anything.
ShellStep == Tab \/ User \/ (\E f \in Forms : \E c : Submit(f, c))

-----------------------------------------------------------------------------
(* Locations, keys and pages.                                              *)

\* A path that is visited has a location; the key of a location is the key of
\* itself and has the same path.
LEMMA Places ==
  /\ \A r \in Routes : At(r) \in Locations
  /\ \A l \in Locations : /\ l.route \in Routes
                          /\ Key(l) \in Keys /\ Key(l) \in Locations
                          /\ Key(l).route = l.route /\ Key(Key(l)) = Key(l)
<1>1. \A r \in Routes : At(r) \in Locations /\ At(r).route = r /\ Key(At(r)) = At(r)
  BY DEF At, Locations, Key
<1>2. \A l \in Locations : l.route \in Routes /\ Key(l) \in Keys
  BY DEF Locations, Keys
<1>3. ASSUME NEW l \in Locations PROVE Key(l) \in Locations /\ Key(l).route = l.route
                                       /\ Key(Key(l)) = Key(l)
  <2>1. CASE l.route \in SearchKeyed
    BY <2>1 DEF Key
  <2>2. CASE l.route \notin SearchKeyed
    BY <1>1, <1>2, <2>2 DEF Key
  <2> QED BY <2>1, <2>2
<1> QED BY <1>1, <1>2, <1>3

\* A key is a location, and the key of itself.
LEMMA KeyOfKey == ASSUME NEW k \in Keys PROVE k \in Locations /\ Key(k) = k /\ k.route \in Routes
<1>1. PICK l \in Locations : k = Key(l)
  BY DEF Keys
<1> QED BY <1>1, Places

\* No request is the one that stands for none.
LEMMA NoneIsNone == ASSUME NEW k \in Keys, NEW t PROVE Request(k, t) # None
<1>1. k.route \in Routes
  BY KeyOfKey
<1>2. "none" \notin Routes
  BY PageShellAssumption
<1> QED BY <1>1, <1>2 DEF Request, None, At

\* The pages of the model are pages.
LEMMA Pages ==
  /\ NoPage \in PageSet
  /\ \A k \in Keys, v \in Nat : Page(k, v) \in PageSet
<1>1. NoPage \in PageSet
  BY DEF NoPage, PageSet
<1>2. ASSUME NEW k \in Keys, NEW v \in Nat PROVE Page(k, v) \in PageSet
  BY KeyOfKey DEF Page, PageSet
<1> QED BY <1>1, <1>2

\* A page that needs a request is of one of the views the server has data of.
LEMMA ViewOfKey == ASSUME NEW k \in Keys, k.route \notin StaticRoutes PROVE View(k.route) \in Views
BY KeyOfKey DEF Views

-----------------------------------------------------------------------------
(* The browser.                                                            *)

\* Where the tab is, and any place of its history, is a location.
LEMMA UrlOK ==
  ASSUME WindowOK
  PROVE Url \in Locations /\ \A i \in DOMAIN window.history : window.history[i] \in Locations
BY DEF WindowOK, Url

\* A push keeps the history a history.
LEMMA PushOK ==
  ASSUME WindowOK, NEW l \in Locations, window' = Push(l)
  PROVE WindowOK'
<1> DEFINE h == window.history  i == window.at  s == SubSeq(h, 1, i)
<1>1. h \in Seq(Locations) /\ i \in 1..Len(h) /\ i \in Nat
  BY DEF WindowOK
<1>2. s \in Seq(Locations) /\ Len(s) = i
  BY <1>1
<1>3. Append(s, l) \in Seq(Locations) /\ Len(Append(s, l)) = i + 1
  BY <1>2, AppendProperties
<1>4. window' = [history |-> Append(s, l), at |-> i + 1]
  BY DEF Push
<1> HIDE DEF h, i, s
<1> QED BY <1>1, <1>3, <1>4 DEF WindowOK

\* A tab of the page in the address bar keeps it too.
LEMMA WithTabOK ==
  ASSUME WindowOK, window' = WithTab
  PROVE WindowOK'
<1> DEFINE h == window.history  i == window.at
           g == [h EXCEPT ![i] = [h[i] EXCEPT !.tab = TRUE]]
<1>1. h \in Seq(Locations) /\ i \in 1..Len(h) /\ i \in Nat
  BY DEF WindowOK
<1>2. h[i] \in Locations
  BY <1>1
<1>3. [h[i] EXCEPT !.tab = TRUE] \in Locations
  BY <1>2 DEF Locations
<1>4. g \in Seq(Locations) /\ Len(g) = Len(h)
  BY <1>1, <1>3, ExceptSeq
<1>5. window' = [window EXCEPT !.history = g]
  BY DEF WithTab
<1>6. window'.history = g /\ window'.at = i /\ window' \in [history : Seq(Locations), at : Nat]
  BY <1>1, <1>4, <1>5 DEF WindowOK
<1> QED BY <1>1, <1>4, <1>6 DEF WindowOK

-----------------------------------------------------------------------------
(* The invariant: unless the effect of the route has still to run, what is *)
(* waited for is the page of the location, and what is shown without a     *)
(* load or an error is that page.                                          *)
LiveIsOfRoute ==
  live = None \/ (live.key = Key(loc) /\ loc.route \notin StaticRoutes)

ShowsRoute == ~state.loading /\ ~state.error => IsPageOf(loc)

Current == "load" \notin due => LiveIsOfRoute /\ ShowsRoute

IInv == TypeOK /\ Current

\* What a tab shows stays right when nothing it depends on has changed.
LEMMA CurrentKept ==
  ASSUME IInv, loc' \in Locations,
         UNCHANGED <<live, state>>,
         "load" \notin due' => /\ "load" \notin due
                               /\ Key(loc') = Key(loc)
                               /\ cache'[Key(loc)] = cache[Key(loc)]
  PROVE Current'
<1> SUFFICES ASSUME "load" \notin due' PROVE Current'
  BY DEF Current
<1>1. loc \in Locations /\ loc'.route = loc.route /\ Key(loc') = Key(loc)
  BY Places DEF IInv, TypeOK
<1>2. LiveIsOfRoute'
  BY <1>1 DEF IInv, Current, LiveIsOfRoute
<1>3. IsPageOf(loc) => IsPageOf(loc)'
  BY <1>1 DEF IsPageOf
<1> QED BY <1>2, <1>3 DEF IInv, Current, ShowsRoute

\* What a render leaves to be run.
LEMMA RendersOK ==
  ASSUME CacheOK, NEW l, NEW page, NEW b \in BOOLEAN, due' = Renders(l, page, b)
  PROVE /\ due' \subseteq {"load", "mount"}
        /\ due \subseteq due'
        /\ "load" \notin due' => ~b /\ Key(l) = Key(loc)
BY DEF CacheOK, Renders

\* Navigation to another address.
LEMMA NavigateOK ==
  ASSUME IInv, NEW l \in Locations, l # Url, Navigate(l)
  PROVE /\ WindowOK' /\ loc' \in Locations /\ due' \subseteq {"load", "mount"}
        /\ "load" \notin due' => /\ "load" \notin due
                                 /\ Key(loc') = Key(loc)
                                 /\ cache'[Key(loc)] = cache[Key(loc)]
<1>1. WindowOK /\ CacheOK
  BY Parts DEF IInv
<1>2. /\ window' = Push(l) /\ loc' = l
      /\ due' = Renders(l, state.page, cache'[Key(l)] # cache[Key(l)])
  BY DEF Navigate
<1>3. WindowOK'
  BY <1>1, <1>2, PushOK
<1>4. /\ due' \subseteq {"load", "mount"}
      /\ "load" \notin due' => "load" \notin due /\ Key(l) = Key(loc)
                               /\ cache'[Key(l)] = cache[Key(l)]
  BY <1>1, <1>2 DEF CacheOK, Renders
<1> QED BY <1>2, <1>3, <1>4

\* A new document.
LEMMA DocumentOK ==
  ASSUME NEW l \in Locations, Document(l)
  PROVE WindowOK' /\ loc' \in Locations /\ CacheOK' /\ RequestsOK' /\ LiveOK' /\ StateOK'
        /\ PostsOK' /\ Current'
<1>1. WindowOK'
  BY DEF Document, WindowOK
<1>2. StateOK'
  <2>1. FirstState(l).page \in PageSet
    BY Pages DEF FirstState, Page, Locations, PageSet
  <2>2. (l.route \notin StaticRoutes) \in BOOLEAN
    OBVIOUS
  <2>3. FirstState(l) \in [page : PageSet, error : BOOLEAN, loading : BOOLEAN]
    BY <2>1, <2>2 DEF FirstState
  <2> QED BY <2>3 DEF Document, StateOK, PageSet
<1>3. CacheOK' /\ LiveOK' /\ RequestsOK' /\ PostsOK'
  BY DEF Document, CacheOK, LiveOK, RequestsOK, PostsOK
<1> QED BY <1>1, <1>2, <1>3 DEF Document, Current

-----------------------------------------------------------------------------
(* The steps of the tab.                                                   *)

LEMMA EffectsStep == ASSUME IInv, RunEffects PROVE IInv'
<1> DEFINE k == Key(loc)
<1>1. WindowOK /\ CacheOK /\ RequestsOK /\ LiveOK /\ StateOK /\ PostsOK /\ ServerOK
      /\ CountsOK /\ loc \in Locations
  BY Parts DEF IInv
<1>2. k \in Keys /\ k.route = loc.route /\ k.route \in Routes
  BY <1>1, Places, KeyOfKey
<1>3. WindowOK'
  BY <1>1, WithTabOK DEF RunEffects, WindowOK
<1>4. due' \subseteq {"mount"}
  BY DEF RunEffects
<1>5. PostsOK' /\ ServerOK' /\ CountsOK' /\ loc' \in Locations /\ CacheOK'
  BY <1>1, <1>4 DEF RunEffects, server, PostsOK, ServerOK, CountsOK, CacheOK
<1>6. RequestsOK' /\ LiveOK' /\ StateOK' /\ (LiveIsOfRoute /\ ShowsRoute)'
  <2>1. CASE "load" \notin due
    <3>1. UNCHANGED <<state, live, pending, loc, cache>>
      BY <2>1 DEF RunEffects
    <3>2. (LiveIsOfRoute /\ ShowsRoute)'
      BY <2>1, <3>1 DEF IInv, Current, LiveIsOfRoute, ShowsRoute, IsPageOf
    <3> QED BY <1>1, <3>1, <3>2 DEF RequestsOK, LiveOK, StateOK
  <2>2. CASE "load" \in due /\ k.route \in StaticRoutes
    <3>1. ShowAtOnce(Page(k, 0)) /\ UNCHANGED <<loc, cache>>
      BY <2>2 DEF RunEffects
    <3>2. Page(k, 0) \in PageSet
      BY <1>2, Pages
    <3>3. RequestsOK' /\ LiveOK' /\ StateOK'
      BY <1>1, <3>1, <3>2 DEF ShowAtOnce, RequestsOK, LiveOK, StateOK
    <3> QED BY <1>2, <2>2, <3>1, <3>3
            DEF ShowAtOnce, LiveIsOfRoute, ShowsRoute, IsPageOf
  <2>3. CASE "load" \in due /\ k.route \notin StaticRoutes /\ cache[k] # 0
    <3>1. ShowAtOnce(Page(k, cache[k])) /\ UNCHANGED <<loc, cache>>
      BY <2>3 DEF RunEffects
    <3>2. Page(k, cache[k]) \in PageSet
      BY <1>1, <1>2, Pages DEF CacheOK
    <3>3. RequestsOK' /\ LiveOK' /\ StateOK'
      BY <1>1, <3>1, <3>2 DEF ShowAtOnce, RequestsOK, LiveOK, StateOK
    <3> QED BY <1>2, <2>3, <3>1, <3>3
            DEF ShowAtOnce, LiveIsOfRoute, ShowsRoute, IsPageOf
  <2>4. CASE "load" \in due /\ k.route \notin StaticRoutes /\ cache[k] = 0
    <3>1. StartLoad(k) /\ UNCHANGED <<loc, cache>>
      BY <2>4 DEF RunEffects
    <3>2. live' = Request(k, token) /\ state' = [state EXCEPT !.error = FALSE, !.loading = TRUE]
      BY <3>1 DEF StartLoad
    <3>3. LiveOK' /\ StateOK'
      BY <1>1, <1>2, <3>2 DEF LiveOK, StateOK, Request, CacheOK
    <3>4. RequestsOK'
      <4>1. CASE \E r \in pending : RequestOf(r) = Request(k, token)
        BY <1>1, <3>1, <4>1 DEF StartLoad, RequestsOK
      <4>2. CASE ~ \E r \in pending : RequestOf(r) = Request(k, token)
        <5> DEFINE n == [key |-> k, token |-> token, is |-> "asked", version |-> 0]
        <5>1. pending' = pending \cup {n}
          BY <3>1, <4>2 DEF StartLoad
        <5>2. /\ n \in [key : Keys, token : Nat, is : Outcomes, version : Nat]
              /\ n.key.route \notin StaticRoutes /\ n.is # "read"
              /\ RequestOf(n) = Request(k, token)
          BY <1>1, <1>2, <2>4 DEF Outcomes, CacheOK, RequestOf
        <5> HIDE DEF n
        <5> QED BY <1>1, <4>2, <5>1, <5>2 DEF RequestsOK
      <4> QED BY <4>1, <4>2
    <3>5. state'.loading
      BY <1>1, <3>2 DEF StateOK
    <3>6. live'.key = k
      BY <3>2 DEF Request
    <3> QED BY <1>2, <2>4, <3>1, <3>3, <3>4, <3>5, <3>6 DEF LiveIsOfRoute, ShowsRoute
  <2> QED BY <2>1, <2>2, <2>3, <2>4
<1> HIDE DEF k
<1> QED BY <1>3, <1>5, <1>6, Parts DEF IInv, Current

\* The requests stay in order when one of them is answered, or is dropped.
LEMMA SettleOK ==
  ASSUME RequestsOK, NEW r \in pending, NEW outcome \in Outcomes, NEW v \in Nat,
         outcome = "read" => v # 0, Settle(r, outcome, v)
  PROVE RequestsOK'
<1> DEFINE n == [r EXCEPT !.is = outcome, !.version = v]
<1>1. pending' = (pending \ {r}) \cup {n}
  BY DEF Settle
<1>2. n \in [key : Keys, token : Nat, is : Outcomes, version : Nat] /\ n.is = outcome
      /\ n.version = v /\ n.key = r.key /\ RequestOf(n) = RequestOf(r)
  BY DEF RequestsOK, RequestOf, Request
<1> HIDE DEF n
<1> QED BY <1>1, <1>2 DEF RequestsOK

LEMMA DropOK ==
  ASSUME RequestsOK, NEW r \in pending, pending' = pending \ {r} PROVE RequestsOK'
BY DEF RequestsOK

LEMMA ServeStep == ASSUME IInv, NEW r \in pending, Serve(r) PROVE IInv'
<1>1. RequestsOK /\ ServerOK /\ r.key \in Keys /\ r.key.route \notin StaticRoutes
  BY Parts DEF IInv, RequestsOK
<1>2. stored[View(r.key.route)] \in Nat /\ stored[View(r.key.route)] # 0
  BY <1>1, ViewOfKey DEF ServerOK
<1>3. RequestsOK'
  BY <1>1, <1>2, SettleOK DEF Serve, Outcomes
<1>4. UNCHANGED <<window, loc, cache, token, live, state, due, posts, server, owed, moves>>
  BY DEF Serve
<1>5. TypeOK'
  BY <1>3, <1>4, Parts
     DEF IInv, WindowOK, CacheOK, LiveOK, StateOK, PostsOK, ServerOK, CountsOK, server
<1> QED BY <1>4, <1>5, CurrentKept, Parts DEF IInv

LEMMA DeliverStep == ASSUME IInv, NEW r \in pending, Deliver(r) PROVE IInv'
<1>1. WindowOK /\ CacheOK /\ RequestsOK /\ LiveOK /\ StateOK /\ PostsOK /\ ServerOK
      /\ CountsOK /\ loc \in Locations
  BY Parts DEF IInv
<1>2. UNCHANGED <<window, loc, token, posts, server, owed, moves>> /\ pending' = pending \ {r}
  BY DEF Deliver
<1>3. WindowOK' /\ loc' \in Locations /\ RequestsOK' /\ PostsOK' /\ ServerOK' /\ CountsOK'
  BY <1>1, <1>2, DropOK DEF WindowOK, PostsOK, ServerOK, CountsOK, server
<1>4. CASE live # RequestOf(r)
  <2>1. UNCHANGED <<live, cache, state, due>>
    BY <1>4 DEF Deliver
  <2>2. TypeOK'
    BY <1>1, <1>2, <1>3, <2>1, Parts DEF CacheOK, LiveOK, StateOK
  <2> QED BY <1>1, <1>2, <2>1, <2>2, CurrentKept DEF IInv
<1>5. CASE live = RequestOf(r)
  <2> DEFINE page == Page(r.key, r.version)
  <2>1. r.key \in Keys /\ r.version \in Nat /\ r.version # 0 /\ page \in PageSet
    BY <1>1, Pages DEF RequestsOK, Deliver
  <2>2. /\ live' = None /\ cache' = [cache EXCEPT ![r.key] = r.version]
        /\ state' = [page |-> page, error |-> FALSE, loading |-> FALSE]
        /\ due' = Renders(loc, state'.page, FALSE)
    BY <1>5 DEF Deliver
  <2>3. due' \subseteq {"load", "mount"} /\ due \subseteq due'
    BY <1>1, <2>2 DEF CacheOK, Renders
  <2>4. CacheOK' /\ LiveOK' /\ StateOK'
    BY <1>1, <1>2, <2>1, <2>2, <2>3 DEF CacheOK, LiveOK, StateOK
  <2>5. ASSUME "load" \notin due' PROVE (LiveIsOfRoute /\ ShowsRoute)'
    <3>1. live.key = r.key /\ live # None
      BY <1>5, <2>1, NoneIsNone DEF RequestOf, Request
    <3>2. r.key = Key(loc) /\ loc.route \notin StaticRoutes
      BY <2>3, <2>5, <3>1 DEF IInv, Current, LiveIsOfRoute
    <3>3. cache'[r.key] = r.version
      BY <1>1, <2>1, <2>2 DEF CacheOK
    <3> QED BY <1>2, <2>1, <2>2, <3>2, <3>3 DEF LiveIsOfRoute, ShowsRoute, IsPageOf
  <2> QED BY <1>3, <2>4, <2>5, Parts DEF IInv, Current
<1> QED BY <1>4, <1>5

LEMMA FailStep == ASSUME IInv, NEW r \in pending, Fail(r) PROVE IInv'
<1>1. WindowOK /\ CacheOK /\ RequestsOK /\ LiveOK /\ StateOK /\ PostsOK /\ ServerOK
      /\ CountsOK /\ loc \in Locations
  BY Parts DEF IInv
<1>2. UNCHANGED <<window, loc, cache, token, due, posts, server, owed, moves>>
      /\ pending' = pending \ {r}
  BY DEF Fail
<1>3. WindowOK' /\ loc' \in Locations /\ CacheOK' /\ RequestsOK' /\ PostsOK' /\ ServerOK'
      /\ CountsOK'
  BY <1>1, <1>2, DropOK DEF WindowOK, CacheOK, PostsOK, ServerOK, CountsOK, server
<1>4. CASE live # RequestOf(r)
  <2>1. UNCHANGED <<live, state>>
    BY <1>4 DEF Fail
  <2>2. TypeOK'
    BY <1>1, <1>3, <2>1, Parts DEF LiveOK, StateOK
  <2> QED BY <1>1, <1>2, <2>1, <2>2, CurrentKept DEF IInv
<1>5. CASE live = RequestOf(r)
  <2>1. live' = None /\ state' = [state EXCEPT !.error = TRUE, !.loading = FALSE]
    BY <1>5 DEF Fail
  <2>2. LiveOK' /\ StateOK' /\ state'.error
    BY <1>1, <2>1 DEF LiveOK, StateOK
  <2> QED BY <1>3, <2>1, <2>2, Parts DEF IInv, Current, LiveIsOfRoute, ShowsRoute
<1> QED BY <1>4, <1>5

\* A new document leaves the invariant behind it, wherever it is.
LEMMA DocumentStep ==
  ASSUME IInv, NEW l \in Locations, Document(l), ServerOK', CountsOK' PROVE IInv'
BY DocumentOK, Parts DEF IInv

LEMMA DenyStep == ASSUME IInv, NEW r \in pending, Deny(r) PROVE IInv'
<1>1. At("login") \in Locations
  BY Places, PageShellAssumption
<1>2. ServerOK' /\ CountsOK'
  BY Parts DEF IInv, Deny, server, ServerOK, CountsOK
<1> QED BY <1>1, <1>2, DocumentStep DEF Deny

-----------------------------------------------------------------------------
(* Navigation.                                                             *)

LEMMA ClickStep == ASSUME IInv, NEW r \in Routes, Click(r) PROVE IInv'
<1>1. At(r) \in Locations /\ At(r) # Url /\ Navigate(At(r))
  BY Places DEF Click
<1>2. UNCHANGED <<cache, token, pending, live, state, posts, server, owed>> /\ moves' = moves + 1
  BY DEF Click, Moves
<1>3. /\ WindowOK' /\ loc' \in Locations /\ due' \subseteq {"load", "mount"}
      /\ "load" \notin due' => "load" \notin due /\ Key(loc') = Key(loc)
                               /\ cache'[Key(loc)] = cache[Key(loc)]
  BY <1>1, NavigateOK
<1>4. TypeOK'
  BY <1>2, <1>3, Parts
     DEF IInv, CacheOK, RequestsOK, LiveOK, StateOK, PostsOK, ServerOK, CountsOK, server
<1> QED BY <1>2, <1>3, <1>4, CurrentKept DEF IInv

LEMMA PopStateStep ==
  ASSUME IInv, NEW i \in DOMAIN window.history, PopState(i) PROVE IInv'
<1>1. WindowOK /\ CacheOK /\ loc \in Locations
  BY Parts DEF IInv
<1>2. UNCHANGED <<cache, token, pending, live, state, posts, server, owed>> /\ moves' = moves + 1
  BY DEF PopState, Moves
<1>3. WindowOK' /\ loc' \in Locations
  BY <1>1, UrlOK DEF PopState, WindowOK
<1>4. /\ due' \subseteq {"load", "mount"}
      /\ "load" \notin due' => "load" \notin due /\ Key(loc') = Key(loc)
  BY <1>1 DEF PopState, Renders, CacheOK
<1>5. TypeOK'
  BY <1>2, <1>3, <1>4, Parts
     DEF IInv, CacheOK, RequestsOK, LiveOK, StateOK, PostsOK, ServerOK, CountsOK, server
<1> QED BY <1>2, <1>3, <1>4, <1>5, CurrentKept DEF IInv

LEMMA EnterStep == ASSUME IInv, NEW r \in Routes, Enter(r) PROVE IInv'
<1>1. At(r) \in Locations /\ At("login") \in Locations
  BY Places, PageShellAssumption
<1>2. ServerOK /\ CountsOK
  BY Parts DEF IInv
<1>3. stored' = stored /\ owed' = owed /\ moves' = moves + 1 /\ signedIn' \in BOOLEAN
  <2>1. signedIn' = signedIn \/ signedIn' = FALSE
    BY DEF Enter
  <2> QED BY <1>2, <2>1 DEF Enter, Moves, ServerOK
<1>4. ServerOK' /\ CountsOK'
  BY <1>2, <1>3 DEF ServerOK, CountsOK
<1>5. PICK l \in Locations : Document(l)
  BY <1>1 DEF Enter
<1> QED BY <1>4, <1>5, DocumentStep

-----------------------------------------------------------------------------
(* Mutations, and the rest of the world.                                   *)

\* What leaves the tab alone leaves what it shows alone.
LEMMA TabAlone ==
  ASSUME IInv, UNCHANGED client, PostsOK', ServerOK', CountsOK' PROVE IInv'
<1>1. TypeOK'
  BY Parts DEF IInv, client, WindowOK, CacheOK, RequestsOK, LiveOK, StateOK
<1> QED BY <1>1, CurrentKept, Parts DEF IInv, client

LEMMA SubmitStep == ASSUME IInv, NEW f \in Forms, NEW c, Submit(f, c) PROVE IInv'
<1>1. WindowOK /\ StateOK /\ PostsOK /\ ServerOK /\ CountsOK /\ loc \in Locations
  BY Parts DEF IInv
<1> DEFINE n == [id |-> moves, form |-> f, key |-> Key(loc), referer |-> Url,
                 carried |-> c, is |-> "sent", version |-> 0]
<1>2. posts' = posts \cup {n} /\ UNCHANGED <<client, server, owed>> /\ moves' = moves + 1
  BY DEF Submit, Moves
<1>3. f.to = "document" => "serverconf" \in Routes
  <2>1. SUFFICES ASSUME f.to = "document" PROVE "serverconf" \in Routes
    OBVIOUS
  <2>2. Shown = "serverconf"
    BY <2>1 DEF Submit, Forms, Form, LoginForm, DomainForm, RecordForm, ServerForm, RedeployAll,
                SettingsForm, TestMail, SaveErrorFile, UploadErrorFile, ServerConfigForm
  <2>3. state.page.view = "serverconf"
    BY <2>2 DEF Shown
  <2> QED BY <1>1, <2>3 DEF StateOK, PageSet, View
<1>4. Key(loc) \in Keys /\ Url \in Locations /\ moves \in Nat
      /\ f.to \in {"here", "alert", "referer", "document"} \cup Routes
  BY <1>1, Places, UrlOK DEF CountsOK, Submit
<1>5. PostOK(n)
  BY <1>3, <1>4 DEF PostOK
<1> HIDE DEF n
<1>6. PostsOK'
  BY <1>1, <1>2, <1>5 DEF PostsOK, PostOK
<1> QED BY <1>1, <1>2, <1>6, TabAlone DEF ServerOK, CountsOK, server

\* A mutation that is answered by the server keeps its shape.
LEMMA BecomesOK ==
  ASSUME PostsOK, NEW p \in posts, NEW outcome \in {"done", "refused", "denied"}, NEW v \in Nat,
         outcome = "refused" /\ p.form = LoginForm => "denied" \in Routes,
         Becomes(p, outcome, v)
  PROVE PostsOK'
<1> DEFINE n == [p EXCEPT !.is = outcome, !.version = v]
<1>1. PostOK(p) /\ posts' = (posts \ {p}) \cup {n}
  BY DEF PostsOK, Becomes
<1>2. PostOK(n)
  BY <1>1 DEF PostOK
<1> HIDE DEF n
<1> QED BY <1>1, <1>2 DEF PostsOK, PostOK

LEMMA ApplyStep == ASSUME IInv, NEW p \in posts, Apply(p) PROVE IInv'
<1>1. PostsOK /\ ServerOK /\ CountsOK
  BY Parts DEF IInv
<1>2. UNCHANGED <<client, owed, moves>>
  BY DEF Apply
<1>3. CASE p.form.writes \in Views /\ signedIn
  <2>1. /\ stored' = [stored EXCEPT ![p.form.writes] = @ + 1]
        /\ Becomes(p, "done", stored'[p.form.writes]) /\ UNCHANGED signedIn
    BY <1>3 DEF Apply
  <2>2. ServerOK' /\ stored'[p.form.writes] \in Nat
    BY <1>1, <1>3, <2>1 DEF ServerOK
  <2>3. PostsOK'
    BY <1>1, <2>1, <2>2, BecomesOK
  <2> QED BY <1>1, <1>2, <2>2, <2>3, TabAlone DEF CountsOK
<1>4. CASE ~(p.form.writes \in Views /\ signedIn)
  <2>1. /\ stored' = stored /\ signedIn' = (signedIn \/ p.form = LoginForm)
        /\ Becomes(p, IF signedIn' THEN "done" ELSE "denied", 0)
    BY <1>4 DEF Apply
  <2>2. ServerOK'
    BY <1>1, <2>1 DEF ServerOK
  <2>3. PostsOK'
    <3>1. CASE signedIn'
      BY <1>1, <2>1, <3>1, BecomesOK
    <3>2. CASE ~signedIn'
      BY <1>1, <2>1, <3>2, BecomesOK
    <3> QED BY <3>1, <3>2
  <2> QED BY <1>1, <1>2, <2>2, <2>3, TabAlone DEF CountsOK
<1> QED BY <1>3, <1>4

LEMMA RefuseStep == ASSUME IInv, NEW p \in posts, Refuse(p) PROVE IInv'
<1>1. PostsOK /\ ServerOK /\ CountsOK
  BY Parts DEF IInv
<1>2. PostsOK'
  BY <1>1, BecomesOK DEF Refuse
<1> QED BY <1>1, <1>2, TabAlone DEF Refuse, ServerOK, CountsOK, server

\* Where an answer that does more than alert leads is a location.
LEMMA TargetOK ==
  ASSUME WindowOK, NEW p, PostOK(p), ~OnlyAlerts(p), p.form.to # "document" PROVE Target(p) \in Locations
<1>1. Url \in Locations /\ p.referer \in Locations
  BY UrlOK DEF PostOK
<1>2. CASE p.is = "denied"
  BY <1>2, Places, PageShellAssumption DEF Target
<1>3. CASE p.is = "refused"
  BY <1>3, Places DEF Target, OnlyAlerts, PostOK
<1>4. CASE p.is \notin {"denied", "refused"}
  <2>1. CASE p.form.to \in {"here", "referer"}
    BY <1>1, <1>4, <2>1 DEF Target
  <2>2. CASE p.form.to \notin {"here", "referer"}
    <3>1. p.form.to \in Routes
      BY <2>2 DEF PostOK, OnlyAlerts
    <3>2. Target(p) = At(p.form.to)
      BY <1>4, <2>2 DEF Target
    <3> QED BY <3>1, <3>2, Places
  <2> QED BY <2>1, <2>2
<1> QED BY <1>2, <1>3, <1>4

\* The history of what is owed stays one.
LEMMA OwesOK ==
  ASSUME CountsOK, NEW k \in Keys, NEW p, PostOK(p) PROVE Owes(k, p) \in [Keys -> Nat]
BY DEF CountsOK, Owes, PostOK

LEMMA AnswerStep == ASSUME IInv, NEW p \in posts, Answer(p) PROVE IInv'
<1>1. WindowOK /\ CacheOK /\ RequestsOK /\ LiveOK /\ StateOK /\ PostsOK /\ ServerOK
      /\ CountsOK /\ loc \in Locations
  BY Parts DEF IInv
<1>2. PostOK(p) /\ ServerOK' /\ moves' = moves
  BY <1>1 DEF PostsOK, Answer, ServerOK, server
<1>3. CASE p.form.to = "document" \/ (p.is = "denied" /\ ByAPI(p.form))
  <2>1. owed' = owed /\ Document(IF p.is = "denied" THEN At("login")
                                ELSE [route |-> "serverconf", tab |-> TRUE])
    BY <1>3 DEF Answer
  <2>2. At("login") \in Locations
    BY Places, PageShellAssumption
  <2>3. p.is # "denied" => [route |-> "serverconf", tab |-> TRUE] \in Locations
    BY <1>2, <1>3 DEF PostOK, Locations
  <2>4. PICK l \in Locations : Document(l)
    BY <2>1, <2>2, <2>3
  <2> QED BY <1>1, <1>2, <2>1, <2>4, DocumentStep DEF CountsOK
<1>4. CASE ~(p.form.to = "document" \/ (p.is = "denied" /\ ByAPI(p.form)))
  <2>1. posts' = posts \ {p} /\ UNCHANGED <<pending, live, state>>
    BY <1>4 DEF Answer
  <2>2. PostsOK' /\ RequestsOK' /\ LiveOK' /\ StateOK'
    BY <1>1, <2>1 DEF PostsOK, PostOK, RequestsOK, LiveOK, StateOK
  <2>3. CASE OnlyAlerts(p)
    <3>1. UNCHANGED <<window, loc, cache, token, due, owed>>
      BY <1>4, <2>3 DEF Answer
    <3>2. TypeOK'
      BY <1>1, <1>2, <2>2, <3>1, Parts DEF WindowOK, CacheOK, CountsOK
    <3> QED BY <1>1, <2>1, <3>1, <3>2, CurrentKept DEF IInv
  <2>4. CASE ~OnlyAlerts(p) /\ Target(p) = Url
    <3>1. Refresh(p)
      BY <1>4, <2>4 DEF Answer
    <3>2. cache' = [cache EXCEPT ![p.key] = 0] /\ token' = token + 1 /\ UNCHANGED <<window, loc>>
          /\ due' = Renders(loc, state.page, TRUE)
      BY <3>1 DEF Refresh
    <3>5. cache' \in [Keys -> Nat] /\ token' \in Nat
      <4>1. cache \in [Keys -> Nat] /\ token \in Nat /\ p.key \in Keys
        BY <1>1, <1>2 DEF CacheOK, PostOK
      <4>2. cache' \in [Keys -> Nat]
        BY <3>2, <4>1
      <4>3. token' \in Nat
        BY <3>2, <4>1
      <4> QED BY <4>2, <4>3
    <3>6. WindowOK' /\ loc' \in Locations
      BY <1>1, <3>2 DEF WindowOK
    <3>3. due' \subseteq {"load", "mount"} /\ "load" \in due'
      BY <1>1, <3>2 DEF Renders, CacheOK
    <3>4. CountsOK'
      <4>1. Owes(p.key, p) \in [Keys -> Nat]
        BY <1>1, <1>2, OwesOK DEF PostOK
      <4> QED BY <1>1, <1>2, <3>1, <4>1 DEF Refresh, CountsOK
    <3> QED BY <1>2, <2>2, <3>3, <3>4, <3>5, <3>6, Parts DEF IInv, Current, CacheOK
  <2>5. CASE ~OnlyAlerts(p) /\ Target(p) # Url
    <3> DEFINE l == Target(p)
    <3>1. l \in Locations
      BY <1>1, <1>2, <1>4, <2>5, TargetOK
    <3>2. Leave(l, p)
      BY <1>4, <2>5 DEF Answer
    <3> HIDE DEF l
    <3>3. /\ WindowOK' /\ loc' \in Locations /\ due' \subseteq {"load", "mount"}
          /\ "load" \notin due' => "load" \notin due /\ Key(loc') = Key(loc)
                                   /\ cache'[Key(loc)] = cache[Key(loc)]
      BY <2>5, <3>1, <3>2, NavigateOK DEF Leave, l
    <3>4. Key(l) \in Keys
      BY <3>1, Places
    <3>5. CacheOK'
      BY <1>1, <3>2, <3>3 DEF Leave, CacheOK
    <3>6. CountsOK'
      BY <1>1, <1>2, <3>2, <3>4, OwesOK DEF Leave, CountsOK
    <3>7. TypeOK'
      BY <1>2, <2>2, <3>3, <3>5, <3>6, Parts
    <3> QED BY <2>1, <3>3, <3>7, CurrentKept DEF IInv
  <2> QED BY <2>3, <2>4, <2>5
<1> QED BY <1>3, <1>4

LEMMA WorldStep ==
  ASSUME IInv, (\E v \in Views : ElsewhereWritten(v)) \/ SessionEnds PROVE IInv'
<1>1. PostsOK /\ ServerOK /\ CountsOK
  BY Parts DEF IInv
<1>2. CASE \E v \in Views : ElsewhereWritten(v)
  <2>1. PICK v \in Views : ElsewhereWritten(v)
    BY <1>2
  <2>2. /\ UNCHANGED client /\ posts' = posts /\ signedIn' = signedIn /\ owed' = owed
        /\ moves' = moves + 1 /\ stored' = [stored EXCEPT ![v] = @ + 1]
    BY <2>1 DEF ElsewhereWritten, Moves
  <2>3. ServerOK' /\ CountsOK'
    BY <1>1, <2>2 DEF ServerOK, CountsOK
  <2>4. PostsOK'
    BY <1>1, <2>2 DEF PostsOK, PostOK
  <2> QED BY <2>2, <2>3, <2>4, TabAlone
<1>3. CASE SessionEnds
  <2>1. /\ UNCHANGED client /\ posts' = posts /\ stored' = stored /\ owed' = owed
        /\ moves' = moves + 1 /\ signedIn' = FALSE
    BY <1>3 DEF SessionEnds, Moves
  <2>2. CountsOK'
    BY <1>1, <2>1 DEF CountsOK
  <2>4. signedIn' \in BOOLEAN
    BY <2>1
  <2>5. ServerOK'
    BY <1>1, <2>1, <2>4 DEF ServerOK
  <2>3. PostsOK'
    BY <1>1, <2>1 DEF PostsOK, PostOK
  <2> QED BY <2>1, <2>2, <2>3, <2>5, TabAlone
<1> QED BY <1>2, <1>3

-----------------------------------------------------------------------------
(* The theorems.                                                           *)

LEMMA InitIInv == Init => IInv
<1> SUFFICES ASSUME Init PROVE IInv
  OBVIOUS
<1>1. loc \in Locations
  BY Places DEF Init
<1>2. WindowOK
  BY <1>1 DEF Init, WindowOK
<1>3. StateOK
  <2>1. FirstState(loc).page \in PageSet
    BY <1>1, Pages DEF FirstState, Page, Locations, PageSet
  <2>2. FirstState(loc) \in [page : PageSet, error : BOOLEAN, loading : BOOLEAN]
    BY <2>1 DEF FirstState
  <2> QED BY <2>2 DEF Init, StateOK
<1>4. CacheOK /\ LiveOK /\ RequestsOK /\ PostsOK /\ ServerOK /\ CountsOK
  BY DEF Init, CacheOK, LiveOK, RequestsOK, PostsOK, ServerOK, CountsOK
<1> QED BY <1>1, <1>2, <1>3, <1>4, Parts DEF Init, IInv, Current

LEMMA StutterStep == ASSUME IInv, UNCHANGED vars PROVE IInv'
BY TabAlone, Parts DEF IInv, vars, server, PostsOK, ServerOK, CountsOK

LEMMA ShellPreserves == ASSUME IInv, ShellStep PROVE IInv'
<1>1. CASE Tab
  BY <1>1, EffectsStep, ServeStep, DeliverStep, FailStep, DenyStep, ApplyStep, RefuseStep,
     AnswerStep DEF Tab
<1>2. CASE User
  BY <1>2, ClickStep, EnterStep, PopStateStep, SubmitStep, WorldStep DEF User
<1>3. CASE \E f \in Forms : \E c : Submit(f, c)
  BY <1>3, SubmitStep
<1> QED BY <1>1, <1>2, <1>3 DEF ShellStep

\* Every step of the shell with the forms in it is a step of the shell.
LEMMA FormsNextIsShellStep == FormsNext => ShellStep \/ UNCHANGED vars
<1>1. Effects => ShellStep
  BY DEF Effects, ShellStep, Tab
<1>2. Requests => ShellStep
  BY DEF Requests, Delivery, Around, ShellStep, Tab
<1>3. Mutations => ShellStep
  BY DEF Mutations, Save, Send, Around, ShellStep, Tab
<1>4. Travels => ShellStep
  BY DEF Travels, Around, ShellStep, User
<1>5. World => ShellStep
  BY DEF World, SettingsWritten, Around, ShellStep, User
<1>6. Typing => UNCHANGED vars
  BY DEF Typing, TypeKey, Search, EditFields, Cancel, Edits
<1> QED BY <1>1, <1>2, <1>3, <1>4, <1>5, <1>6 DEF FormsNext

\* The types of the shell, in the shell with the forms in it.
THEOREM TypeCorrect == FormsSpec => []TypeOK
<1>1. FormsInit => IInv
  BY InitIInv DEF FormsInit
<1>2. IInv /\ [FormsNext]_formVars => IInv'
  BY FormsNextIsShellStep, ShellPreserves, StutterStep DEF formVars
<1> QED BY <1>1, <1>2, PTL DEF FormsSpec, IInv

\* A tab that has nothing to run or to wait for and reports no error shows the
\* page of its location: the effect of app.tsx:313 drops what it gave up.
THEOREM RestsOnItsRoute == FormsSpec => []ShownIsOfRoute
<1>1. FormsInit => IInv
  BY InitIInv DEF FormsInit
<1>2. IInv /\ [FormsNext]_formVars => IInv'
  BY FormsNextIsShellStep, ShellPreserves, StutterStep DEF formVars
<1>3. IInv => ShownIsOfRoute
  BY DEF IInv, Current, ShowsRoute, ShownIsOfRoute
<1> QED BY <1>1, <1>2, <1>3, PTL DEF FormsSpec

-----------------------------------------------------------------------------
(* That a tab shows its own writes.                                        *)

\* A request whose answer the tab can still take: an effect waits for it, or
\* one that asks for its key now would.
Counts(r) == r.token = token \/ live = RequestOf(r)

\* What is owed has been written, by the server; neither the cache nor an answer
\* that counts is from before it; no request is of a token yet to come.
OwedIsStored  == \A k \in Keys : k.route \notin StaticRoutes => owed[k] <= stored[View(k.route)]
CacheHasOwed  == \A k \in Keys : cache[k] # 0 => owed[k] <= cache[k]
AnswersHaveIt == \A r \in pending : r.is = "read" /\ Counts(r) => owed[r.key] <= r.version
TokensPassed  == \A r \in pending : r.token <= token
DoneIsStored  == \A p \in posts : p.is = "done" /\ p.form.writes \in Views
                                    => p.version <= stored[p.form.writes]

Writes == OwedIsStored /\ CacheHasOwed /\ AnswersHaveIt /\ TokensPassed /\ DoneIsStored

-----------------------------------------------------------------------------
LEMMA InitWrites == Init => Writes
<1> SUFFICES ASSUME Init PROVE Writes
  OBVIOUS
<1>1. OwedIsStored
  BY ViewOfKey DEF Init, OwedIsStored
<1>2. CacheHasOwed
  BY DEF Init, CacheHasOwed
<1>3. AnswersHaveIt /\ TokensPassed /\ DoneIsStored
  BY DEF Init, AnswersHaveIt, TokensPassed, DoneIsStored
<1> QED BY <1>1, <1>2, <1>3 DEF Writes

\* Nothing of it changes when the user only moves about.
LEMMA MovesAbout ==
  ASSUME Writes, UNCHANGED <<cache, token, pending, live, posts, stored, owed>> PROVE Writes'
BY DEF Writes, OwedIsStored, CacheHasOwed, AnswersHaveIt, TokensPassed, DoneIsStored, Counts

\* A new document has nothing but what is owed.
LEMMA NewDocument ==
  ASSUME Writes, NEW l, Document(l), UNCHANGED <<stored, owed>> PROVE Writes'
<1>1. OwedIsStored'
  BY DEF Writes, OwedIsStored
<1>2. CacheHasOwed'
  BY DEF Document, CacheHasOwed
<1>3. AnswersHaveIt' /\ TokensPassed' /\ DoneIsStored'
  BY DEF Document, AnswersHaveIt, TokensPassed, DoneIsStored
<1> QED BY <1>1, <1>2, <1>3 DEF Writes

\* The data of a view only grow.
LEMMA Grows ==
  ASSUME TypeOK, NEW v \in Views, stored' = [stored EXCEPT ![v] = @ + 1]
  PROVE  stored'[v] = stored[v] + 1 /\ \A u \in Views : stored[u] <= stored'[u]
<1>1. stored \in [Views -> Nat \ {0}]
  BY Parts DEF ServerOK
<1>2. \A u \in Views : stored[u] \in Nat
  BY <1>1
<1> QED BY <1>1, <1>2

LEMMA OwedStaysStored ==
  ASSUME TypeOK, OwedIsStored, owed' = owed, TypeOK',
         \A u \in Views : stored[u] <= stored'[u]
  PROVE  OwedIsStored'
<1> SUFFICES ASSUME NEW k \in Keys, k.route \notin StaticRoutes
             PROVE  owed[k] <= stored'[View(k.route)]
  BY DEF OwedIsStored
<1>1. View(k.route) \in Views
  BY ViewOfKey
<1>2. owed[k] \in Nat /\ stored[View(k.route)] \in Nat /\ stored'[View(k.route)] \in Nat
  BY <1>1, Parts DEF ServerOK, CountsOK
<1>3. owed[k] <= stored[View(k.route)] /\ stored[View(k.route)] <= stored'[View(k.route)]
  BY <1>1 DEF OwedIsStored
<1> QED BY <1>2, <1>3

-----------------------------------------------------------------------------
(* The steps of the tab.                                                   *)

LEMMA EffectsKeep == ASSUME IInv, Writes, RunEffects PROVE Writes'
<1> DEFINE k == Key(loc)
<1>1. UNCHANGED <<cache, token, posts, stored, owed>>
  BY DEF RunEffects, server
<1>2. OwedIsStored' /\ CacheHasOwed' /\ DoneIsStored'
  BY <1>1 DEF Writes, OwedIsStored, CacheHasOwed, DoneIsStored
<1>3. /\ live' = live \/ live' = None \/ live' = Request(k, token)
      /\ \A r \in pending' : r \in pending \/ (r.is = "asked" /\ r.token = token)
  <2>1. CASE "load" \notin due
    BY <2>1 DEF RunEffects
  <2>2. CASE \E page : ShowAtOnce(page)
    BY <2>2 DEF ShowAtOnce
  <2>3. CASE StartLoad(k)
    BY <2>3 DEF StartLoad
  <2> QED BY <2>1, <2>2, <2>3 DEF RunEffects
<1>4. \A r \in pending : Counts(r)' => Counts(r)
  <2> SUFFICES ASSUME NEW r \in pending, Counts(r)' PROVE Counts(r)
    OBVIOUS
  <2>1. CASE r.token = token
    BY <2>1 DEF Counts
  <2>2. CASE live' = RequestOf(r) /\ r.token # token
    <3>1. r.key \in Keys
      BY Parts DEF IInv, RequestsOK
    <3>2. live' # None
      BY <2>2, <3>1, NoneIsNone DEF RequestOf
    <3>3. live' # Request(k, token)
      BY <2>2 DEF RequestOf, Request
    <3> QED BY <1>3, <2>2, <3>2, <3>3 DEF Counts
  <2> QED BY <1>1, <2>1, <2>2 DEF Counts
<1>5. AnswersHaveIt'
  BY <1>1, <1>3, <1>4 DEF Writes, AnswersHaveIt
<1>6. TokensPassed'
  <2>1. token \in Nat
    BY Parts DEF IInv, CacheOK
  <2> QED BY <1>1, <1>3, <2>1 DEF Writes, TokensPassed
<1> QED BY <1>2, <1>5, <1>6 DEF Writes

LEMMA ServeKeeps == ASSUME IInv, Writes, NEW r \in pending, Serve(r) PROVE Writes'
<1>1. UNCHANGED <<cache, token, live, posts, stored, owed>>
  BY DEF Serve, server
<1>2. OwedIsStored' /\ CacheHasOwed' /\ DoneIsStored'
  BY <1>1 DEF Writes, OwedIsStored, CacheHasOwed, DoneIsStored
<1>3. r.key \in Keys /\ r.key.route \notin StaticRoutes
      /\ r \in [key : Keys, token : Nat, is : Outcomes, version : Nat]
  BY Parts DEF IInv, RequestsOK
<1>4. PICK outcome, v : /\ Settle(r, outcome, v)
                        /\ outcome = "read" => v = stored[View(r.key.route)]
  BY DEF Serve
<1> DEFINE n == [r EXCEPT !.is = outcome, !.version = v]
<1>5. pending' = (pending \ {r}) \cup {n}
  BY <1>4 DEF Settle
<1>6. n.key = r.key /\ n.token = r.token /\ n.is = outcome /\ n.version = v
  BY <1>3
<1> HIDE DEF n
<1>7. AnswersHaveIt'
  <2> SUFFICES ASSUME NEW s \in pending', s.is = "read", Counts(s)' PROVE owed[s.key] <= s.version
    BY <1>1 DEF AnswersHaveIt
  <2>1. CASE s = n
    BY <1>3, <1>4, <1>6, <2>1 DEF Writes, OwedIsStored
  <2>2. CASE s # n
    BY <1>1, <1>5, <2>2 DEF Writes, AnswersHaveIt, Counts
  <2> QED BY <2>1, <2>2
<1>8. TokensPassed'
  BY <1>1, <1>5, <1>6 DEF Writes, TokensPassed
<1> QED BY <1>2, <1>7, <1>8 DEF Writes

\* A request that is dropped takes nothing along that counts.
LEMMA Dropped ==
  ASSUME Writes, pending' \subseteq pending, live' \in {live, None}, token' = token,
         \A r \in pending : r.key \in Keys, owed' = owed
  PROVE  AnswersHaveIt' /\ TokensPassed'
<1>1. \A r \in pending : Counts(r)' => Counts(r)
  BY NoneIsNone DEF Counts, RequestOf
<1> QED BY <1>1 DEF Writes, AnswersHaveIt, TokensPassed

LEMMA DeliverKeeps == ASSUME IInv, Writes, NEW r \in pending, Deliver(r) PROVE Writes'
<1>1. UNCHANGED <<token, posts, stored, owed>> /\ pending' = pending \ {r} /\ live' \in {live, None}
  BY DEF Deliver, server
<1>2. CacheOK /\ \A s \in pending : s.key \in Keys /\ s.version \in Nat
  BY Parts DEF IInv, RequestsOK
<1>3. OwedIsStored' /\ DoneIsStored' /\ AnswersHaveIt' /\ TokensPassed'
  BY <1>1, <1>2, Dropped DEF Writes, OwedIsStored, DoneIsStored
<1>4. CacheHasOwed'
  <2>1. CASE live # RequestOf(r)
    BY <1>1, <2>1 DEF Deliver, Writes, CacheHasOwed
  <2>2. CASE live = RequestOf(r)
    <3>1. cache' = [cache EXCEPT ![r.key] = r.version]
      BY <2>2 DEF Deliver
    <3>2. owed[r.key] <= r.version
      BY <2>2 DEF Deliver, Writes, AnswersHaveIt, Counts
    <3> QED BY <1>1, <1>2, <3>1, <3>2 DEF Writes, CacheHasOwed, CacheOK
  <2> QED BY <2>1, <2>2
<1> QED BY <1>3, <1>4 DEF Writes

LEMMA FailKeeps == ASSUME IInv, Writes, NEW r \in pending, Fail(r) PROVE Writes'
<1>1. UNCHANGED <<cache, token, posts, stored, owed>> /\ pending' = pending \ {r}
      /\ live' \in {live, None}
  BY DEF Fail, server
<1>2. \A s \in pending : s.key \in Keys
  BY Parts DEF IInv, RequestsOK
<1> QED BY <1>1, <1>2, Dropped DEF Writes, OwedIsStored, CacheHasOwed, DoneIsStored

-----------------------------------------------------------------------------
(* The mutations.                                                          *)

LEMMA SubmitKeeps == ASSUME IInv, Writes, NEW f \in Forms, NEW c, Submit(f, c) PROVE Writes'
<1> DEFINE n == [id |-> moves, form |-> f, key |-> Key(loc), referer |-> Url,
                 carried |-> c, is |-> "sent", version |-> 0]
<1>1. posts' = posts \cup {n} /\ UNCHANGED <<cache, token, pending, live, stored, owed>>
  BY DEF Submit, client, server
<1>2. n.is # "done"
  OBVIOUS
<1> HIDE DEF n
<1>3. DoneIsStored'
  BY <1>1, <1>2 DEF Writes, DoneIsStored
<1> QED BY <1>1, <1>3
        DEF Writes, OwedIsStored, CacheHasOwed, AnswersHaveIt, TokensPassed, Counts

\* An answer of the server to a mutation: what it wrote is there by then.
LEMMA BecomesKeeps ==
  ASSUME IInv, IInv', Writes, NEW p \in posts, NEW outcome, NEW v \in Nat,
         Becomes(p, outcome, v), UNCHANGED <<cache, token, pending, live, owed>>,
         \A u \in Views : stored[u] <= stored'[u],
         outcome = "done" /\ p.form.writes \in Views => v <= stored'[p.form.writes]
  PROVE  Writes'
<1> DEFINE n == [p EXCEPT !.is = outcome, !.version = v]
<1>1. PostsOK /\ ServerOK /\ ServerOK'
  BY Parts DEF IInv
<1>2. PostOK(p) /\ posts' = (posts \ {p}) \cup {n}
  BY <1>1 DEF PostsOK, Becomes
<1>3. n.is = outcome /\ n.version = v /\ n.form = p.form
  BY <1>2 DEF PostOK
<1> HIDE DEF n
<1>4. ASSUME NEW q \in posts', q.is = "done", q.form.writes \in Views
      PROVE  q.version <= stored'[q.form.writes]
  <2>1. CASE q = n
    BY <1>3, <1>4, <2>1
  <2>2. CASE q # n
    <3> DEFINE u == q.form.writes
    <3>1. q \in posts /\ q.version \in Nat
      BY <1>1, <1>2, <2>2 DEF PostsOK, PostOK
    <3>2. q.version <= stored[u]
      BY <1>4, <3>1 DEF Writes, DoneIsStored
    <3>3. stored[u] <= stored'[u]
      BY <1>4
    <3>4. stored[u] \in Nat /\ stored'[u] \in Nat
      BY <1>1, <1>4 DEF ServerOK
    <3> HIDE DEF u
    <3>5. q.version <= stored'[u]
      BY <3>1, <3>2, <3>3, <3>4
    <3> QED BY <3>5 DEF u
  <2> QED BY <2>1, <2>2
<1>5. DoneIsStored'
  BY <1>4 DEF DoneIsStored
<1>6. OwedIsStored'
  BY OwedStaysStored DEF IInv, Writes
<1> QED BY <1>5, <1>6 DEF Writes, CacheHasOwed, AnswersHaveIt, TokensPassed, Counts

LEMMA ApplyKeeps == ASSUME IInv, IInv', Writes, NEW p \in posts, Apply(p) PROVE Writes'
<1>1. UNCHANGED <<cache, token, pending, live, owed>>
  BY DEF Apply, client
<1>2. CASE p.form.writes \in Views /\ signedIn
  <2> DEFINE v == p.form.writes
  <2>1. stored' = [stored EXCEPT ![v] = @ + 1] /\ Becomes(p, "done", stored'[v])
    BY <1>2 DEF Apply
  <2>2. \A u \in Views : stored[u] <= stored'[u]
    BY <1>2, <2>1, Grows DEF IInv
  <2>3. stored'[v] \in Nat
    BY <1>2, Parts DEF IInv, ServerOK
  <2> QED BY <1>1, <2>1, <2>2, <2>3, BecomesKeeps
<1>3. CASE ~(p.form.writes \in Views /\ signedIn)
  <2>1. stored' = stored /\ \E outcome : Becomes(p, outcome, 0)
    BY <1>3 DEF Apply
  <2>2. \A u \in Views : stored[u] \in Nat
    BY Parts DEF IInv, ServerOK
  <2> QED BY <1>1, <2>1, <2>2, BecomesKeeps
<1> QED BY <1>2, <1>3

LEMMA RefuseKeeps == ASSUME IInv, IInv', Writes, NEW p \in posts, Refuse(p) PROVE Writes'
<1>1. /\ UNCHANGED <<cache, token, pending, live, stored, owed>>
      /\ Becomes(p, "refused", 0)
  BY DEF Refuse, client, server
<1>2. \A u \in Views : stored[u] \in Nat
  BY Parts DEF IInv, ServerOK
<1> QED BY <1>1, <1>2, BecomesKeeps

\* What becomes owed with an answer is the write it answers, and only of a key
\* no load of which counts.
LEMMA OwesKeeps ==
  ASSUME IInv, Writes, NEW p \in posts, NEW k \in Keys, UNCHANGED <<pending, live, stored>>,
         owed' = owed \/ owed' = Owes(k, p),
         posts' \subseteq posts, cache' = [cache EXCEPT ![k] = 0],
         token' \in Nat, token <= token'
  PROVE  Writes'
<1> DEFINE Owed == p.form.writes = View(k.route) /\ p.is = "done" /\ ~Overlaps(k, token')
<1>1. CacheOK /\ PostOK(p) /\ CountsOK /\ ServerOK
      /\ \A r \in pending : r.token \in Nat /\ r.key \in Keys
  BY Parts DEF IInv, PostsOK, RequestsOK
<1>2. owed' = owed \/ (Owed /\ owed' = [owed EXCEPT ![k] = p.version])
  BY DEF Owes
<1>3. \A j \in Keys : owed'[j] = owed[j] \/ (j = k /\ Owed /\ owed'[k] = p.version)
  BY <1>1, <1>2 DEF CountsOK
<1>4. OwedIsStored'
  <2> SUFFICES ASSUME NEW j \in Keys, j.route \notin StaticRoutes
               PROVE  owed'[j] <= stored[View(j.route)]
    BY DEF OwedIsStored
  <2>1. CASE owed'[j] = owed[j]
    BY <2>1 DEF Writes, OwedIsStored
  <2>2. CASE j = k /\ Owed /\ owed'[k] = p.version
    BY <2>2, ViewOfKey DEF Writes, DoneIsStored
  <2> QED BY <1>3, <2>1, <2>2
<1>5. CacheHasOwed'
  BY <1>1, <1>3 DEF Writes, CacheHasOwed, CacheOK
<1>6. TokensPassed'
  <2>1. token \in Nat
    BY <1>1 DEF CacheOK
  <2> QED BY <1>1, <2>1 DEF Writes, TokensPassed
<1>7. AnswersHaveIt'
  <2> SUFFICES ASSUME NEW r \in pending, r.is = "read", Counts(r)' PROVE owed'[r.key] <= r.version
    BY DEF AnswersHaveIt
  <2>1. r.token = token' \/ live = RequestOf(r)
    BY DEF Counts
  <2>2. Counts(r)
    <3>1. r.token <= token /\ r.token \in Nat /\ token \in Nat
      BY <1>1 DEF Writes, TokensPassed, CacheOK
    <3>2. r.token = token' => r.token = token
      BY <3>1
    <3> QED BY <2>1, <3>2 DEF Counts
  <2>3. r.key = k => ~Owed
    BY <2>1 DEF Overlaps
  <2>4. owed'[r.key] = owed[r.key]
    BY <1>1, <1>3, <2>3
  <2> QED BY <2>2, <2>4 DEF Writes, AnswersHaveIt
<1>8. DoneIsStored'
  BY DEF Writes, DoneIsStored
<1> QED BY <1>4, <1>5, <1>6, <1>7, <1>8 DEF Writes

LEMMA AnswerKeeps == ASSUME IInv, IInv', Writes, NEW p \in posts, Answer(p) PROVE Writes'
<1>1. WindowOK /\ CacheOK /\ PostOK(p) /\ stored' = stored
  BY Parts DEF IInv, PostsOK, Answer, server
<1>2. CASE p.form.to = "document" \/ (p.is = "denied" /\ ByAPI(p.form))
  BY <1>1, <1>2, NewDocument DEF Answer
<1>3. CASE ~(p.form.to = "document" \/ (p.is = "denied" /\ ByAPI(p.form)))
  <2>1. posts' = posts \ {p} /\ UNCHANGED <<pending, live>>
    BY <1>3 DEF Answer
  <2>2. CASE OnlyAlerts(p)
    <3>1. UNCHANGED <<cache, token, owed>>
      BY <1>3, <2>2 DEF Answer
    <3> QED BY <1>1, <2>1, <3>1
            DEF Writes, OwedIsStored, CacheHasOwed, AnswersHaveIt, TokensPassed, DoneIsStored,
                Counts
  <2>3. CASE ~OnlyAlerts(p) /\ Target(p) = Url
    <3>1. /\ cache' = [cache EXCEPT ![p.key] = 0] /\ token' = token + 1
          /\ owed' = owed \/ owed' = Owes(p.key, p)
      BY <1>3, <2>3 DEF Answer, Refresh
    <3>2. p.key \in Keys
      BY <1>1 DEF PostOK
    <3>3. token \in Nat
      BY <1>1 DEF CacheOK
    <3>4. token' \in Nat /\ token <= token'
      BY <3>1, <3>3
    <3> QED BY <1>1, <2>1, <3>1, <3>2, <3>4, OwesKeeps
  <2>4. CASE ~OnlyAlerts(p) /\ Target(p) # Url
    <3> DEFINE k == Key(Target(p))
    <3>1. k \in Keys
      BY <1>1, <1>3, <2>4, TargetOK, Places
    <3>2. cache' = [cache EXCEPT ![k] = 0] /\ token' = token /\ owed' = Owes(k, p)
      BY <1>3, <2>4 DEF Answer, Leave
    <3> HIDE DEF k
    <3>3. token' \in Nat /\ token <= token'
      BY <1>1, <3>2 DEF CacheOK
    <3> QED BY <1>1, <2>1, <3>1, <3>2, <3>3, OwesKeeps
  <2> QED BY <2>2, <2>3, <2>4
<1> QED BY <1>2, <1>3

-----------------------------------------------------------------------------
(* The user and the rest of the world.                                     *)

LEMMA ElsewhereKeeps ==
  ASSUME IInv, IInv', Writes, NEW v \in Views, ElsewhereWritten(v) PROVE Writes'
<1>1. /\ UNCHANGED <<cache, token, pending, live, posts, owed>>
      /\ stored' = [stored EXCEPT ![v] = @ + 1]
  BY DEF ElsewhereWritten, client
<1>2. \A u \in Views : stored[u] <= stored'[u]
  BY <1>1, Grows DEF IInv
<1>3. OwedIsStored'
  BY <1>1, <1>2, OwedStaysStored DEF IInv, Writes
<1>4. DoneIsStored'
  <2> SUFFICES ASSUME NEW q \in posts, q.is = "done", q.form.writes \in Views
               PROVE  q.version <= stored'[q.form.writes]
    BY <1>1 DEF DoneIsStored
  <2> DEFINE u == q.form.writes
  <2>1. q.version \in Nat
    BY Parts DEF IInv, PostsOK, PostOK
  <2>2. stored[u] \in Nat /\ stored'[u] \in Nat
    BY Parts DEF IInv, ServerOK
  <2>3. q.version <= stored[u] /\ stored[u] <= stored'[u]
    BY <1>2 DEF Writes, DoneIsStored
  <2> HIDE DEF u
  <2>4. q.version <= stored'[u]
    BY <2>1, <2>2, <2>3
  <2> QED BY <2>4 DEF u
<1> QED BY <1>1, <1>3, <1>4 DEF Writes, CacheHasOwed, AnswersHaveIt, TokensPassed, Counts

LEMMA TravelKeeps ==
  ASSUME Writes,
         \/ \E r \in Routes : Click(r) \/ Enter(r)
         \/ \E i \in DOMAIN window.history : PopState(i)
         \/ SessionEnds
         \/ \E r \in pending : Deny(r)
  PROVE  Writes'
<1>1. CASE \E r \in Routes : Click(r)
  BY <1>1, MovesAbout DEF Click, server
<1>2. CASE \E r \in Routes : Enter(r)
  <2>1. UNCHANGED <<stored, owed>> /\ \E l : Document(l)
    BY <1>2 DEF Enter
  <2> QED BY <2>1, NewDocument
<1>3. CASE \E i \in DOMAIN window.history : PopState(i)
  BY <1>3, MovesAbout DEF PopState, server
<1>4. CASE SessionEnds
  BY <1>4, MovesAbout DEF SessionEnds, client
<1>5. CASE \E r \in pending : Deny(r)
  BY <1>5, NewDocument DEF Deny, server
<1> QED BY <1>1, <1>2, <1>3, <1>4, <1>5

-----------------------------------------------------------------------------
(* The theorem.                                                            *)

LEMMA ShellKeeps == ASSUME IInv, IInv', Writes, ShellStep PROVE Writes'
<1>1. CASE Tab
  BY <1>1, EffectsKeep, ServeKeeps, DeliverKeeps, FailKeeps, TravelKeeps, ApplyKeeps,
     RefuseKeeps, AnswerKeeps DEF Tab
<1>2. CASE User
  BY <1>2, TravelKeeps, SubmitKeeps, ElsewhereKeeps DEF User
<1>3. CASE \E f \in Forms : \E c : Submit(f, c)
  BY <1>3, SubmitKeeps
<1> QED BY <1>1, <1>2, <1>3 DEF ShellStep

\* After an answer to a mutation the tab comes to rest on a page that has the
\* write in it, whatever it had cached and whatever loads it had begun
\* (app.tsx:176 and 204), but for the two cases OwnWritesShown leaves out.
THEOREM OwnWritesStay == FormsSpec => []OwnWritesShown
<1>1. FormsInit => IInv /\ Writes
  BY InitIInv, InitWrites DEF FormsInit
<1>2. IInv /\ Writes /\ [FormsNext]_formVars => (IInv /\ Writes)'
  <2> SUFFICES ASSUME IInv, Writes, [FormsNext]_formVars PROVE IInv' /\ Writes'
    OBVIOUS
  <2>1. IInv' /\ (ShellStep \/ UNCHANGED vars)
    BY FormsNextIsShellStep, ShellPreserves, StutterStep DEF formVars
  <2>2. CASE ShellStep
    BY <2>1, <2>2, ShellKeeps
  <2>3. CASE UNCHANGED vars
    BY <2>1, <2>3, MovesAbout DEF vars, client, server
  <2> QED BY <2>1, <2>2, <2>3
<1>3. IInv /\ Writes => OwnWritesShown
  <2> SUFFICES ASSUME IInv, Writes, due = {}, ~state.loading, ~state.error,
                      loc.route \notin StaticRoutes
               PROVE  state.page.version >= owed[Key(loc)]
    BY DEF OwnWritesShown
  <2> DEFINE k == Key(loc)
  <2>1. k \in Keys /\ cache \in [Keys -> Nat] /\ owed \in [Keys -> Nat]
    BY Places, Parts DEF IInv, CacheOK, CountsOK
  <2>2. cache[k] # 0 /\ state.page = Page(k, cache[k])
    BY DEF IInv, Current, ShowsRoute, IsPageOf
  <2>3. state.page.version = cache[k]
    BY <2>2 DEF Page
  <2>4. owed[k] <= cache[k] /\ owed[k] \in Nat /\ cache[k] \in Nat
    BY <2>1, <2>2 DEF Writes, CacheHasOwed
  <2> HIDE DEF k
  <2>5. state.page.version >= owed[k]
    BY <2>3, <2>4
  <2> QED BY <2>5 DEF k
<1> QED BY <1>1, <1>2, <1>3, PTL DEF FormsSpec

-----------------------------------------------------------------------------
(* The forms: a page is of a version of the data that the server has had,  *)
(* so that the inputs of the settings find the key they are mounted with.  *)

KeyValues == {FirstKey, TypedKey} \cup OthersKeys

\* Pages are of versions there have been, in the cache, in answers, on screen.
CacheIsStored == \A k \in Keys : k.route \notin StaticRoutes => cache[k] <= stored[View(k.route)]
ReadsAreStored ==
  \A r \in pending : r.is = "read" => r.version <= stored[View(r.key.route)]
PageIsStored ==
  state.page.view \in Views => state.page.version \in 1..stored[state.page.view]

FromServer == CacheIsStored /\ ReadsAreStored /\ PageIsStored

\* The form followed is the one on screen, and holds edits only while it is open.
OnScreen == IF Shown \in {"settings", "serverconf"} THEN Shown ELSE "none"
DraftOK ==
  /\ draft \in [of : {"none", "settings", "serverconf"}, open : BOOLEAN, edited : BOOLEAN,
                key : KeyValues \cup {0}]
  /\ draft.of = OnScreen
  /\ draft.of = "serverconf" /\ draft.edited => draft.open

\* The settings have as many keys as versions; a save carries one, or none.
KeysOK ==
  /\ keys \in Seq(KeyValues) /\ keys # <<>>
  /\ "settings" \in Views => Len(keys) = stored["settings"]
CarriedOK == \A p \in posts : p.carried.key \in KeyValues \cup {0}

FInv == IInv /\ FromServer /\ DraftOK /\ KeysOK /\ CarriedOK

\* A page that needs no request is of none of the views the server has data of.
LEMMA StaticViews ==
  /\ "none" \notin Views
  /\ \A r \in Routes : r \in StaticRoutes <=> View(r) \notin Views
<1>1. "none" \notin Views
  BY PageShellAssumption DEF Views, View
<1>2. ASSUME NEW r \in Routes, r \in StaticRoutes PROVE View(r) \notin Views
  BY <1>2, PageShellAssumption DEF Views, View, StaticRoutes
<1>3. ASSUME NEW r \in Routes, r \notin StaticRoutes PROVE View(r) \in Views
  BY <1>3 DEF Views
<1> QED BY <1>1, <1>2, <1>3

\* Where nothing new is taken over, pages stay of versions there have been.
LEMMA StaysFromServer ==
  ASSUME IInv, IInv', FromServer, \A v \in Views : stored[v] <= stored'[v],
         \A k \in Keys : cache'[k] = cache[k] \/ cache'[k] = 0,
         \A r \in pending' : r.is = "read" => r \in pending,
         state'.page = state.page \/ state'.page.view \notin Views
  PROVE  FromServer'
<1>1. ServerOK /\ ServerOK' /\ CacheOK /\ RequestsOK /\ RequestsOK' /\ StateOK
  BY Parts DEF IInv
<1>2. \A v \in Views : stored[v] \in Nat /\ stored'[v] \in Nat /\ stored[v] <= stored'[v]
  BY <1>1 DEF ServerOK
<1>3. CacheIsStored'
  <2> SUFFICES ASSUME NEW k \in Keys, k.route \notin StaticRoutes
               PROVE  cache'[k] <= stored'[View(k.route)]
    BY DEF CacheIsStored
  <2> DEFINE v == View(k.route)
  <2>1. v \in Views
    BY ViewOfKey
  <2>2. cache[k] <= stored[v] /\ cache[k] \in Nat
    BY <1>1 DEF FromServer, CacheIsStored, CacheOK
  <2> HIDE DEF v
  <2>3. cache'[k] <= stored'[v]
    BY <1>2, <2>1, <2>2
  <2> QED BY <2>3 DEF v
<1>4. ReadsAreStored'
  <2> SUFFICES ASSUME NEW r \in pending', r.is = "read"
               PROVE  r.version <= stored'[View(r.key.route)]
    BY DEF ReadsAreStored
  <2> DEFINE v == View(r.key.route)
  <2>1. v \in Views /\ r.version \in Nat
    BY <1>1, ViewOfKey DEF RequestsOK
  <2>2. r.version <= stored[v]
    BY DEF FromServer, ReadsAreStored
  <2> HIDE DEF v
  <2>3. r.version <= stored'[v]
    BY <1>2, <2>1, <2>2
  <2> QED BY <2>3 DEF v
<1>5. PageIsStored'
  <2> SUFFICES ASSUME state'.page = state.page, state.page.view \in Views
               PROVE  state.page.version \in 1..stored'[state.page.view]
    BY DEF PageIsStored
  <2> DEFINE v == state.page.view
  <2>1. state.page.version \in 1..stored[v] /\ stored[v] \in Nat /\ stored'[v] \in Nat
        /\ stored[v] <= stored'[v]
    BY <1>2 DEF FromServer, PageIsStored
  <2> HIDE DEF v
  <2>2. state.page.version \in 1..stored'[v]
    BY <2>1
  <2> QED BY <2>2 DEF v
<1> QED BY <1>3, <1>4, <1>5 DEF FromServer

\* A new document has no page but one that needs no request.
LEMMA DocumentFromServer ==
  ASSUME IInv, IInv', FromServer, NEW l \in Locations, Document(l), stored' = stored
  PROVE  FromServer'
<1>1. state'.page.view \notin Views
  BY StaticViews, Places DEF Document, FirstState, Page, NoPage, Key, At, Locations
<1>2. \A v \in Views : stored[v] <= stored'[v]
  BY Parts DEF IInv, ServerOK
<1>3. \A k \in Keys : cache'[k] = 0
  BY DEF Document
<1>4. pending' = {}
  BY DEF Document
<1> QED BY <1>1, <1>2, <1>3, <1>4, StaysFromServer

LEMMA EffectsFromServer ==
  ASSUME IInv, IInv', FromServer, RunEffects PROVE FromServer'
<1> DEFINE k == Key(loc)
<1>1. k \in Keys /\ k.route \in Routes /\ ServerOK /\ CacheOK
  BY Places, KeyOfKey, Parts DEF IInv
<1>2. UNCHANGED <<cache, stored>> /\ \A v \in Views : stored[v] <= stored'[v]
  BY <1>1 DEF RunEffects, server, ServerOK
<1>3. CASE \/ "load" \notin due
           \/ k.route \in StaticRoutes /\ ShowAtOnce(Page(k, 0))
           \/ StartLoad(k)
  <2>1. \A r \in pending' : r.is = "read" => r \in pending
    BY <1>3 DEF RunEffects, ShowAtOnce, StartLoad
  <2>2. state'.page = state.page \/ state'.page.view \notin Views
    <3>1. CASE "load" \notin due
      BY <3>1 DEF RunEffects
    <3>2. CASE k.route \in StaticRoutes /\ ShowAtOnce(Page(k, 0))
      BY <1>1, <3>2, StaticViews DEF ShowAtOnce, Page
    <3>3. CASE StartLoad(k)
      BY <3>3, Parts DEF StartLoad, IInv, StateOK
    <3> QED BY <1>3, <3>1, <3>2, <3>3
  <2> QED BY <1>2, <2>1, <2>2, StaysFromServer
<1>4. CASE k.route \notin StaticRoutes /\ cache[k] # 0 /\ ShowAtOnce(Page(k, cache[k]))
  <2>1. state'.page = Page(k, cache[k]) /\ UNCHANGED pending
    BY <1>4 DEF ShowAtOnce
  <2>2. View(k.route) \in Views /\ cache[k] \in Nat /\ cache[k] # 0
        /\ cache[k] <= stored[View(k.route)] /\ stored[View(k.route)] \in Nat
    BY <1>1, <1>4, ViewOfKey DEF FromServer, CacheIsStored, CacheOK, ServerOK
  <2>3. cache[k] \in 1..stored[View(k.route)]
    BY <2>2
  <2>4. PageIsStored'
    BY <1>2, <2>1, <2>3 DEF PageIsStored, Page
  <2> QED BY <1>2, <2>1, <2>4 DEF FromServer, CacheIsStored, ReadsAreStored
<1> QED BY <1>3, <1>4 DEF RunEffects

LEMMA ServeFromServer ==
  ASSUME IInv, IInv', FromServer, NEW r \in pending, Serve(r) PROVE FromServer'
<1>1. UNCHANGED <<cache, state, stored>>
  BY DEF Serve, server
<1>2. r.key \in Keys /\ r.key.route \notin StaticRoutes
      /\ r \in [key : Keys, token : Nat, is : Outcomes, version : Nat]
  BY Parts DEF IInv, RequestsOK
<1>3. PICK outcome, v : /\ Settle(r, outcome, v)
                        /\ outcome = "read" => v = stored[View(r.key.route)]
  BY DEF Serve
<1> DEFINE n == [r EXCEPT !.is = outcome, !.version = v]
<1>4. pending' = (pending \ {r}) \cup {n} /\ n.key = r.key /\ n.is = outcome /\ n.version = v
  BY <1>2, <1>3 DEF Settle
<1> HIDE DEF n
<1>5. stored[View(r.key.route)] \in Nat
  BY <1>2, ViewOfKey, Parts DEF IInv, ServerOK
<1>6. ReadsAreStored'
  BY <1>1, <1>3, <1>4, <1>5 DEF FromServer, ReadsAreStored
<1> QED BY <1>1, <1>6 DEF FromServer, CacheIsStored, PageIsStored

LEMMA DeliverFromServer ==
  ASSUME IInv, IInv', FromServer, NEW r \in pending, Deliver(r) PROVE FromServer'
<1>1. stored' = stored /\ pending' = pending \ {r} /\ r.is = "read"
  BY DEF Deliver, server
<1>2. /\ r.key \in Keys /\ r.key.route \notin StaticRoutes /\ r.version \in Nat /\ r.version # 0
      /\ CacheOK /\ ServerOK
  BY <1>1, Parts DEF IInv, RequestsOK
<1>3. View(r.key.route) \in Views /\ stored[View(r.key.route)] \in Nat
      /\ r.version <= stored[View(r.key.route)]
  BY <1>1, <1>2, ViewOfKey DEF FromServer, ReadsAreStored, ServerOK
<1>4. r.version \in 1..stored[View(r.key.route)]
  BY <1>2, <1>3
<1>5. CASE live = RequestOf(r)
  <2>1. cache' = [cache EXCEPT ![r.key] = r.version] /\ state'.page = Page(r.key, r.version)
    BY <1>5 DEF Deliver
  <2>2. CacheIsStored'
    BY <1>1, <1>2, <1>3, <2>1 DEF FromServer, CacheIsStored, CacheOK
  <2>3. PageIsStored'
    BY <1>1, <1>4, <2>1 DEF PageIsStored, Page
  <2> QED BY <1>1, <2>2, <2>3 DEF FromServer, ReadsAreStored
<1>6. CASE live # RequestOf(r)
  BY <1>1, <1>6 DEF Deliver, FromServer, CacheIsStored, ReadsAreStored, PageIsStored
<1> QED BY <1>5, <1>6

LEMMA AnswerFromServer ==
  ASSUME IInv, IInv', FromServer, NEW p \in posts, Answer(p) PROVE FromServer'
<1>1. WindowOK /\ CacheOK /\ ServerOK /\ PostOK(p) /\ stored' = stored
  BY Parts DEF IInv, PostsOK, Answer, server
<1>2. \A v \in Views : stored[v] <= stored'[v]
  BY <1>1 DEF ServerOK
<1>3. CASE p.form.to = "document" \/ (p.is = "denied" /\ ByAPI(p.form))
  <2>1. Document(IF p.is = "denied" THEN At("login") ELSE [route |-> "serverconf", tab |-> TRUE])
    BY <1>3 DEF Answer
  <2>2. At("login") \in Locations
    BY Places, PageShellAssumption
  <2>3. p.is # "denied" => [route |-> "serverconf", tab |-> TRUE] \in Locations
    BY <1>1, <1>3 DEF PostOK, Locations
  <2>4. PICK l \in Locations : Document(l)
    BY <2>1, <2>2, <2>3
  <2> QED BY <1>1, <2>4, DocumentFromServer
<1>4. CASE ~(p.form.to = "document" \/ (p.is = "denied" /\ ByAPI(p.form)))
  <2>1. UNCHANGED <<pending, state>>
    BY <1>4 DEF Answer
  <2>2. \A k \in Keys : cache'[k] = cache[k] \/ cache'[k] = 0
    <3>1. cache' = cache \/ \E k : cache' = [cache EXCEPT ![k] = 0]
      BY <1>4 DEF Answer, Refresh, Leave
    <3> QED BY <1>1, <3>1 DEF CacheOK
  <2> QED BY <1>2, <2>1, <2>2, StaysFromServer
<1> QED BY <1>3, <1>4

\* What leaves the cache, the requests and the page alone, or starts again.
LEMMA OthersFromServer ==
  ASSUME IInv, IInv', FromServer,
         \/ \E r \in pending : Fail(r) \/ Deny(r)
         \/ \E p \in posts : Apply(p) \/ Refuse(p)
         \/ \E r \in Routes : Click(r) \/ Enter(r)
         \/ \E i \in DOMAIN window.history : PopState(i)
         \/ \E f \in Forms : \E c : Submit(f, c)
         \/ \E v \in Views : ElsewhereWritten(v)
         \/ SessionEnds
  PROVE  FromServer'
<1>1. TypeOK /\ StateOK /\ \A v \in Views : stored[v] \in Nat
  BY Parts DEF IInv, ServerOK
<1>2. At("login") \in Locations /\ \A r \in Routes : At(r) \in Locations
  BY Places, PageShellAssumption
<1>3. CASE \E r \in pending : Fail(r)
  <2>1. PICK r \in pending : Fail(r)
    BY <1>3
  <2>2. UNCHANGED <<cache, stored>> /\ pending' = pending \ {r} /\ state'.page = state.page
    BY <1>1, <2>1 DEF Fail, server, StateOK
  <2> QED BY <1>1, <2>2, StaysFromServer
<1>4. CASE \E r \in pending : Deny(r)
  BY <1>2, <1>4, DocumentFromServer DEF Deny, server
<1>5. CASE \E p \in posts : Apply(p)
  <2>1. PICK p \in posts : Apply(p)
    BY <1>5
  <2>2. UNCHANGED <<cache, pending, state>>
    BY <2>1 DEF Apply, client
  <2>3. stored' = stored \/ \E v \in Views : stored' = [stored EXCEPT ![v] = @ + 1]
    BY <2>1 DEF Apply
  <2>4. \A v \in Views : stored[v] <= stored'[v]
    BY <1>1, <2>3, Grows
  <2> QED BY <2>2, <2>4, StaysFromServer
<1>6. CASE \E v \in Views : ElsewhereWritten(v)
  <2>1. PICK v \in Views : ElsewhereWritten(v)
    BY <1>6
  <2>2. UNCHANGED <<cache, pending, state>> /\ stored' = [stored EXCEPT ![v] = @ + 1]
    BY <2>1 DEF ElsewhereWritten, client
  <2>3. \A u \in Views : stored[u] <= stored'[u]
    BY <1>1, <2>2, Grows
  <2> QED BY <2>2, <2>3, StaysFromServer
<1>7. CASE \E r \in Routes : Enter(r)
  BY <1>2, <1>7, DocumentFromServer DEF Enter
<1>8. CASE \/ \E p \in posts : Refuse(p)
           \/ \E r \in Routes : Click(r)
           \/ \E i \in DOMAIN window.history : PopState(i)
           \/ \E f \in Forms : \E c : Submit(f, c)
           \/ SessionEnds
  <2>1. UNCHANGED <<cache, pending, state, stored>>
    BY <1>8 DEF Refuse, Click, PopState, Submit, SessionEnds, client, server
  <2> QED BY <1>1, <2>1, StaysFromServer
<1> QED BY <1>3, <1>4, <1>5, <1>6, <1>7, <1>8

LEMMA ShellFromServer == ASSUME IInv, IInv', FromServer, ShellStep PROVE FromServer'
BY EffectsFromServer, ServeFromServer, DeliverFromServer, AnswerFromServer, OthersFromServer
   DEF ShellStep, Tab, User

-----------------------------------------------------------------------------
(* What the steps do to the form and to the keys.                          *)

\* Whatever is on screen after a step, a form that has been mounted is its form.
LEMMA FollowsOK ==
  ASSUME FInv, IInv', FromServer', NEW given, Follows(given), keys' = keys, KeysOK'
  PROVE  DraftOK'
<1>2. StateOK' /\ keys \in Seq(KeyValues) /\ draft.of = OnScreen
      /\ draft \in [of : {"none", "settings", "serverconf"}, open : BOOLEAN, edited : BOOLEAN,
                    key : KeyValues \cup {0}]
  BY Parts DEF IInv, FInv, KeysOK, DraftOK
<1> DEFINE Type == [of : {"none", "settings", "serverconf"}, open : BOOLEAN, edited : BOOLEAN,
                    key : KeyValues \cup {0}]
<1>3. NoDraft \in Type
  BY DEF NoDraft
<1>4. CASE Shown' \notin {"settings", "serverconf"}
  <2>1. draft' = NoDraft
    BY <1>4 DEF Follows
  <2> QED BY <1>3, <1>4, <2>1 DEF DraftOK, OnScreen, NoDraft
<1>5. CASE Shown' \in {"settings", "serverconf"} /\ Remounted
  <2>1. draft' = Mounted(state'.page)
    BY <1>5 DEF Follows
  <2>2. state'.page.view = Shown'
    BY <1>5 DEF Shown
  <2>3. CASE Shown' = "settings"
    <3>1. "settings" \in Views
      <4>1. PICK r \in Routes : View(r) = "settings"
        BY <1>2, <2>2, <2>3 DEF StateOK, PageSet
      <4>2. r \in {"settings", "saved"}
        BY <4>1 DEF View
      <4> QED BY <4>1, <4>2 DEF Views, StaticRoutes
    <3>2. state'.page.version \in 1..Len(keys)
      BY <2>2, <2>3, <3>1 DEF FromServer, PageIsStored, KeysOK
    <3>3. keys[state'.page.version] \in KeyValues
      BY <1>2, <3>2
    <3>4. draft' = [of |-> "settings", open |-> TRUE, edited |-> FALSE,
                    key |-> keys[state'.page.version]]
      BY <2>1, <2>2, <2>3 DEF Mounted
    <3> QED BY <2>3, <3>3, <3>4 DEF DraftOK, OnScreen
  <2>4. CASE Shown' = "serverconf"
    <3>1. draft' = [NoDraft EXCEPT !.of = "serverconf"]
      BY <2>1, <2>2, <2>4 DEF Mounted
    <3>2. draft' = [of |-> "serverconf", open |-> FALSE, edited |-> FALSE, key |-> 0]
      BY <3>1 DEF NoDraft
    <3> QED BY <2>4, <3>2 DEF DraftOK, OnScreen
  <2> QED BY <1>5, <2>3, <2>4
<1>6. CASE Shown' \in {"settings", "serverconf"} /\ ~Remounted
  <2>1. Shown' = draft.of
    BY <1>6 DEF Remounted
  <2>2. draft' \in {draft, Filled}
    BY <1>6 DEF Follows
  <2>3. draft' \in Type /\ draft'.of = draft.of /\ draft'.open = draft.open
        /\ (draft'.edited => draft.edited)
    BY <1>2, <2>2 DEF Filled
  <2> QED BY <1>6, <2>1, <2>3 DEF FInv, DraftOK, OnScreen
<1> QED BY <1>4, <1>5, <1>6

LEMMA FormsInitOK == FormsInit => FInv
<1> SUFFICES ASSUME FormsInit PROVE FInv
  OBVIOUS
<1>1. IInv /\ WindowOK /\ loc \in Locations
  BY InitIInv, Parts DEF FormsInit, IInv
<1>2. state.page.view \notin Views
  BY <1>1, StaticViews, Places DEF FormsInit, Init, FirstState, Page, NoPage
<1>3. FromServer
  BY <1>2, ViewOfKey DEF FormsInit, Init, FromServer, CacheIsStored, ReadsAreStored, PageIsStored
<1>4. DraftOK
  <2>1. Shown \notin {"settings", "serverconf"}
    <3>1. loc.route \in StaticRoutes => View(loc.route) \notin {"settings", "serverconf"}
      BY DEF StaticRoutes, View
    <3> QED BY <3>1 DEF FormsInit, Init, FirstState, Shown, Page, Key, At, NoPage
  <2> QED BY <2>1 DEF FormsInit, DraftOK, NoDraft, OnScreen
<1>5. KeysOK
  <2>1. keys = <<FirstKey>> /\ FirstKey \in KeyValues
    BY DEF FormsInit, KeyValues
  <2>2. "settings" \in Views => stored["settings"] = 1
    BY DEF FormsInit, Init
  <2> QED BY <2>1, <2>2 DEF KeysOK
<1>6. CarriedOK
  BY DEF FormsInit, Init, CarriedOK
<1> QED BY <1>1, <1>3, <1>4, <1>5, <1>6 DEF FInv

\* The keys stay where nobody writes the settings.
LEMMA KeysStay ==
  ASSUME KeysOK, keys' = keys, "settings" \in Views => stored'["settings"] = stored["settings"]
  PROVE  KeysOK'
BY DEF KeysOK

LEMMA KeysGrow ==
  ASSUME KeysOK, ServerOK, NEW key \in KeyValues, keys' = Append(keys, key),
         "settings" \in Views => stored'["settings"] = stored["settings"] + 1
  PROVE  KeysOK'
<1>1. keys \in Seq(KeyValues)
  BY DEF KeysOK
<1>2. keys' \in Seq(KeyValues) /\ Len(keys') = Len(keys) + 1
  BY <1>1, AppendProperties
<1> QED BY <1>1, <1>2, EmptySeq DEF KeysOK

\* The steps of the shell that the form follows.
LEMMA AroundOK ==
  ASSUME FInv, IInv', FromServer', NEW given, Follows(given), keys' = keys,
         "settings" \in Views => stored'["settings"] = stored["settings"],
         \A q \in posts' : \E p \in posts : q.carried = p.carried
  PROVE  FInv'
<1>1. KeysOK'
  BY KeysStay DEF FInv
<1>2. CarriedOK'
  BY DEF FInv, CarriedOK
<1> QED BY <1>1, <1>2, FollowsOK DEF FInv

\* A mutation on its way carries what it did.
LEMMA StillCarried ==
  ASSUME PostsOK, NEW p \in posts, NEW outcome, NEW v, Becomes(p, outcome, v)
  PROVE  \A q \in posts' : \E s \in posts : q.carried = s.carried
<1> DEFINE n == [p EXCEPT !.is = outcome, !.version = v]
<1>1. PostOK(p) /\ posts' = (posts \ {p}) \cup {n}
  BY DEF PostsOK, Becomes
<1>2. n.carried = p.carried
  BY <1>1 DEF PostOK
<1> HIDE DEF n
<1> QED BY <1>1, <1>2

\* What a step of the shell does not touch, the form keeps.
LEMMA FormStays ==
  ASSUME FInv, IInv', FromServer', UNCHANGED <<draft, loc, state>>, KeysOK', CarriedOK'
  PROVE  FInv'
<1>1. OnScreen' = OnScreen
  BY DEF OnScreen, Shown
<1>2. DraftOK'
  BY <1>1 DEF FInv, DraftOK
<1> QED BY <1>2 DEF FInv

LEMMA SaveOK == ASSUME FInv, IInv', FromServer', NEW p \in posts, Save(p) PROVE FInv'
<1>1. PostsOK /\ ServerOK /\ PostOK(p) /\ KeysOK /\ p.carried.key \in KeyValues \cup {0}
  BY Parts DEF FInv, IInv, PostsOK, CarriedOK
<1>2. Apply(p) /\ UNCHANGED <<draft, loc, state>>
  BY DEF Save, Apply, client
<1>3. \E outcome, v : Becomes(p, outcome, v)
  BY <1>2 DEF Apply
<1>4. CarriedOK'
  BY <1>1, <1>3, StillCarried DEF FInv, CarriedOK
<1>5. CASE stored' # stored /\ p.form = SettingsForm
  <2>1. p.form.writes = "settings"
    BY <1>5 DEF SettingsForm, Form
  <2>2. "settings" \in Views /\ stored' = [stored EXCEPT !["settings"] = @ + 1]
    BY <1>2, <1>5, <2>1 DEF Apply
  <2>3. stored'["settings"] = stored["settings"] + 1
    BY <1>1, <2>2 DEF ServerOK
  <2>4. StoredKey \in KeyValues
    BY <1>1, EmptySeq DEF KeysOK, StoredKey
  <2>5. Saved(p.carried.key) \in KeyValues
    BY <1>1, <2>4 DEF Saved
  <2>6. keys' = Append(keys, Saved(p.carried.key))
    BY <1>5 DEF Save
  <2>7. KeysOK'
    BY <1>1, <2>3, <2>5, <2>6, KeysGrow
  <2> QED BY <1>2, <1>4, <2>7, FormStays
<1>6. CASE ~(stored' # stored /\ p.form = SettingsForm)
  <2>1. keys' = keys
    BY <1>6 DEF Save
  <2>2. "settings" \in Views => stored'["settings"] = stored["settings"]
    <3>1. CASE stored' = stored
      BY <3>1
    <3>2. CASE p.form # SettingsForm /\ stored' # stored
      <4>1. p.form.writes # "settings"
        BY <1>1, <3>2
        DEF PostOK, Forms, Form, LoginForm, DomainForm, RecordForm, ServerForm, RedeployAll,
            SettingsForm, TestMail, SaveErrorFile, UploadErrorFile, ServerConfigForm
      <4>2. stored' = [stored EXCEPT ![p.form.writes] = @ + 1]
        BY <1>2, <3>2 DEF Apply
      <4> QED BY <1>1, <4>1, <4>2 DEF ServerOK
    <3> QED BY <1>6, <3>1, <3>2
  <2>3. KeysOK'
    BY <1>1, <2>1, <2>2, KeysStay
  <2> QED BY <1>2, <1>4, <2>3, FormStays
<1> QED BY <1>5, <1>6

LEMMA SendOK == ASSUME FInv, IInv', FromServer', NEW f \in Forms, Send(f) PROVE FInv'
<1> DEFINE n == [id |-> moves, form |-> f, key |-> Key(loc), referer |-> Url,
                 carried |-> Sends, is |-> "sent", version |-> 0]
<1>1. posts' = posts \cup {n} /\ UNCHANGED <<draft, keys, loc, state, stored>>
  BY DEF Send, Submit, client, server
<1>2. n.carried.key \in KeyValues \cup {0}
  BY DEF FInv, DraftOK, Sends
<1> HIDE DEF n
<1>3. CarriedOK'
  BY <1>1, <1>2 DEF FInv, CarriedOK
<1>4. KeysOK'
  BY <1>1, KeysStay DEF FInv
<1> QED BY <1>1, <1>3, <1>4, FormStays

LEMMA SettingsWrittenOK ==
  ASSUME FInv, IInv', FromServer', NEW key \in OthersKeys \cup {StoredKey}, SettingsWritten(key)
  PROVE  FInv'
<1>1. ServerOK /\ KeysOK
  BY Parts DEF FInv, IInv
<1>2. /\ "settings" \in Views /\ stored' = [stored EXCEPT !["settings"] = @ + 1]
      /\ keys' = Append(keys, key) /\ UNCHANGED <<draft, loc, state, posts>>
  BY DEF SettingsWritten, ElsewhereWritten, client
<1>3. StoredKey \in KeyValues
  BY <1>1, EmptySeq DEF KeysOK, StoredKey
<1>4. key \in KeyValues
  BY <1>3 DEF KeyValues
<1>5. stored'["settings"] = stored["settings"] + 1
  BY <1>1, <1>2 DEF ServerOK
<1>6. KeysOK'
  BY <1>1, <1>2, <1>4, <1>5, KeysGrow
<1>7. CarriedOK'
  BY <1>2 DEF FInv, CarriedOK
<1> QED BY <1>2, <1>6, <1>7, FormStays

\* What the user types reaches nothing but the form.
LEMMA TypingOK == ASSUME FInv, IInv', FromServer', Typing PROVE FInv'
<1>1. UNCHANGED <<keys, posts, stored, loc, state>>
  BY DEF Typing, TypeKey, Search, EditFields, Cancel, Edits, vars, client, server
<1>2. KeysOK' /\ CarriedOK' /\ OnScreen' = OnScreen
  BY <1>1, KeysStay DEF FInv, CarriedOK, OnScreen, Shown
<1>3. DraftOK
  BY DEF FInv
<1>4. CASE TypeKey
  BY <1>2, <1>3, <1>4 DEF TypeKey, Edits, DraftOK, KeyValues, FInv
<1>5. CASE Search
  <2>1. draft.of = "settings" /\ Shown = "settings" /\ state.page.view = "settings"
    BY <1>3, <1>5 DEF Search, Edits, DraftOK, OnScreen, Shown
  <2>2. CASE draft.open
    BY <1>2, <1>3, <1>5, <2>1, <2>2 DEF Search, DraftOK, FInv
  <2>3. CASE ~draft.open
    <3>1. "settings" \in Views
      <4>1. PICK r \in Routes : View(r) = "settings"
        BY <2>1, Parts DEF FInv, IInv, StateOK, PageSet
      <4>2. r \in {"settings", "saved"}
        BY <4>1 DEF View
      <4> QED BY <4>1, <4>2 DEF Views, StaticRoutes
    <3>2. state.page.version \in 1..Len(keys) /\ keys \in Seq(KeyValues)
      BY <2>1, <3>1 DEF FInv, FromServer, PageIsStored, KeysOK
    <3>3. draft' = [of |-> "settings", open |-> TRUE, edited |-> FALSE,
                    key |-> keys[state.page.version]]
      BY <1>5, <2>1, <2>3 DEF Search, Mounted
    <3>4. DraftOK'
      BY <1>2, <1>3, <2>1, <3>2, <3>3 DEF DraftOK
    <3> QED BY <1>2, <3>4 DEF FInv
  <2> QED BY <2>2, <2>3
<1>6. CASE EditFields
  BY <1>2, <1>3, <1>6 DEF EditFields, Edits, DraftOK, FInv
<1>7. CASE Cancel
  BY <1>2, <1>3, <1>7 DEF Cancel, Edits, Filled, DraftOK, FInv
<1> QED BY <1>4, <1>5, <1>6, <1>7 DEF Typing

-----------------------------------------------------------------------------
(* The theorems about the forms.                                           *)

LEMMA FormsStep == ASSUME FInv, [FormsNext]_formVars PROVE FInv'
<1>1. IInv' /\ (ShellStep \/ UNCHANGED vars)
  BY FormsNextIsShellStep, ShellPreserves, StutterStep DEF formVars, FInv
<1>2. FromServer'
  <2>1. CASE ShellStep
    BY <1>1, <2>1, ShellFromServer DEF FInv
  <2>2. CASE UNCHANGED vars
    BY <2>2 DEF vars, client, server, FInv, FromServer, CacheIsStored, ReadsAreStored, PageIsStored
  <2> QED BY <1>1, <2>1, <2>2
<1>3. PostsOK /\ ServerOK
  BY Parts DEF FInv, IInv
<1>4. CASE Effects
  <2>1. stored' = stored /\ posts' = posts /\ keys' = keys /\ \E given : Follows(given)
    BY <1>4 DEF Effects, RunEffects, server
  <2> QED BY <1>1, <1>2, <2>1, AroundOK
<1>5. CASE Requests
  <2>1. PICK r \in pending : Delivery(r) \/ Around(Serve(r) \/ Fail(r) \/ Deny(r))
    BY <1>5 DEF Requests
  <2>2. stored' = stored /\ posts' \subseteq posts /\ keys' = keys /\ \E given : Follows(given)
    BY <2>1 DEF Delivery, Around, Deliver, Serve, Fail, Deny, Document, server
  <2> QED BY <1>1, <1>2, <2>2, AroundOK
<1>6. CASE Mutations
  <2>1. CASE \E p \in posts : Save(p)
    BY <1>1, <1>2, <2>1, SaveOK
  <2>2. CASE \E p \in posts : Around(Refuse(p) \/ Answer(p))
    <3>1. PICK p \in posts : Around(Refuse(p) \/ Answer(p))
      BY <2>2
    <3>2. stored' = stored /\ keys' = keys /\ \E given : Follows(given)
      BY <3>1 DEF Around, Refuse, Answer, server
    <3>3. \A q \in posts' : \E s \in posts : q.carried = s.carried
      <4>1. CASE Refuse(p)
        BY <1>3, <4>1, StillCarried DEF Refuse
      <4>2. CASE Answer(p)
        BY <4>2 DEF Answer, Document
      <4> QED BY <3>1, <4>1, <4>2 DEF Around
    <3> QED BY <1>1, <1>2, <3>2, <3>3, AroundOK
  <2>3. CASE \E f \in Forms : Send(f)
    BY <1>1, <1>2, <2>3, SendOK
  <2> QED BY <1>6, <2>1, <2>2, <2>3 DEF Mutations
<1>7. CASE Travels
  <2>1. stored' = stored /\ posts' \subseteq posts /\ keys' = keys /\ \E given : Follows(given)
    BY <1>7 DEF Travels, Around, Click, Enter, PopState, Document, server
  <2> QED BY <1>1, <1>2, <2>1, AroundOK
<1>8. CASE World
  <2>1. CASE \E v \in Views \ {"settings"} : Around(ElsewhereWritten(v))
    <3>1. PICK v \in Views \ {"settings"} : Around(ElsewhereWritten(v))
      BY <2>1
    <3>2. stored' = [stored EXCEPT ![v] = @ + 1] /\ posts' = posts /\ keys' = keys
          /\ \E given : Follows(given)
      BY <3>1 DEF Around, ElsewhereWritten
    <3>3. "settings" \in Views => stored'["settings"] = stored["settings"]
      BY <1>3, <3>1, <3>2 DEF ServerOK
    <3> QED BY <1>1, <1>2, <3>2, <3>3, AroundOK
  <2>2. CASE \E key \in OthersKeys \cup {StoredKey} : SettingsWritten(key)
    BY <1>1, <1>2, <2>2, SettingsWrittenOK
  <2>3. CASE Around(SessionEnds)
    <3>1. stored' = stored /\ posts' = posts /\ keys' = keys /\ \E given : Follows(given)
      BY <2>3 DEF Around, SessionEnds
    <3> QED BY <1>1, <1>2, <3>1, AroundOK
  <2> QED BY <1>8, <2>1, <2>2, <2>3 DEF World
<1>9. CASE Typing
  BY <1>1, <1>2, <1>9, TypingOK
<1>10. CASE UNCHANGED formVars
  <2>1. UNCHANGED <<draft, keys, loc, state, posts, stored>>
    BY <1>10 DEF formVars, vars, client, server
  <2>2. KeysOK' /\ CarriedOK'
    BY <2>1, KeysStay DEF FInv, CarriedOK
  <2> QED BY <1>1, <1>2, <2>1, <2>2, FormStays
<1> QED BY <1>4, <1>5, <1>6, <1>7, <1>8, <1>9, <1>10 DEF FormsNext

\* The form followed is the one on screen, and the settings have a key for each
\* of their versions: that of the page the inputs are mounted with is there
\* (core-pages.tsx:280), whatever page that is.
THEOREM FormsTypeCorrect == FormsSpec => []FormsTypeOK
<1>1. FormsInit => FInv
  BY FormsInitOK
<1>2. FInv /\ [FormsNext]_formVars => FInv'
  BY FormsStep
<1>3. FInv => FormsTypeOK
  BY DEF FInv, IInv, DraftOK, KeysOK, OnScreen, KeyValues, FormsTypeOK
<1> QED BY <1>1, <1>2, <1>3, PTL DEF FormsSpec

\* Edits of the server configuration stay in a tab with nothing under way of its
\* own until the user does something: an answer that has been given up does not
\* reach the fields (app.tsx:352), and what others do is on the server.
THEOREM EditsSpared == FormsSpec => LateAnswersSpareEdits
<1> DEFINE Holds == draft.of = "serverconf" /\ draft.edited /\ live = None /\ posts = {} /\ due = {}
                    /\ \A r \in pending : r.is # "denied"
           Kept  == \/ draft'.edited
                    \/ moves' # moves
                    \/ draft' = [draft EXCEPT !.edited = FALSE, !.open = FALSE]
<1>1. FormsInit => FInv
  BY FormsInitOK
<1>2. FInv /\ [FormsNext]_formVars => FInv'
  BY FormsStep
<1>3. FInv /\ [FormsNext]_formVars => [Holds => Kept]_formVars
  <2> SUFFICES ASSUME FInv, FormsNext, Holds PROVE Kept
    OBVIOUS
  <2>1. moves \in Nat /\ RequestsOK /\ DraftOK
    BY Parts DEF FInv, IInv, CountsOK
  <2>2. ~Effects
    BY DEF Effects, RunEffects
  <2>3. Moves => Kept
    BY <2>1 DEF Moves
  <2>4. CASE Requests
    <3>1. PICK r \in pending : Delivery(r) \/ Around(Serve(r) \/ Fail(r) \/ Deny(r))
      BY <2>4 DEF Requests
    <3>2. live # RequestOf(r) /\ ~Deny(r)
      BY <2>1, NoneIsNone DEF RequestsOK, RequestOf, Deny
    <3>3. UNCHANGED <<loc, state>> /\ Follows(FALSE)
      BY <3>1, <3>2 DEF Delivery, Around, Deliver, Serve, Fail
    <3>4. Shown' = Shown /\ Key(loc)' = Key(loc) /\ Shown = "serverconf"
      BY <2>1, <3>3 DEF Shown, DraftOK, OnScreen
    <3>5. draft' = draft
      BY <3>3, <3>4 DEF Follows, Remounted
    <3> QED BY <3>5
  <2>5. CASE Mutations
    BY <2>3, <2>5 DEF Mutations, Send, Submit
  <2>6. CASE Travels
    BY <2>3, <2>6 DEF Travels, Around, Click, Enter, PopState
  <2>7. CASE World
    BY <2>3, <2>7 DEF World, Around, SettingsWritten, ElsewhereWritten, SessionEnds
  <2>8. CASE Typing
    <3>1. ~TypeKey /\ ~Search /\ draft.open
      BY <2>1 DEF TypeKey, Search, Edits, DraftOK
    <3>2. EditFields => draft'.edited
      BY <2>1, <3>1 DEF EditFields, DraftOK
    <3>3. Cancel => draft' = [draft EXCEPT !.edited = FALSE, !.open = FALSE]
      BY <2>1 DEF Cancel, Filled, DraftOK
    <3> QED BY <2>8, <3>1, <3>2, <3>3 DEF Typing
  <2> QED BY <2>2, <2>4, <2>5, <2>6, <2>7, <2>8 DEF FormsNext
<1> QED BY <1>1, <1>2, <1>3, PTL DEF FormsSpec, LateAnswersSpareEdits
=============================================================================

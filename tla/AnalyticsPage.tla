---------------------------- MODULE AnalyticsPage ----------------------------
(***************************************************************************)
(* The analytics page of the frontend: the filters and their two editors,  *)
(* the loads that follow them, and the timers beside them.                 *)
(*   src/web/frontend/src/pages/analytics-page.tsx                         *)
(* Filters are set in a dialog, which edits a draft, and in a search box,  *)
(* which applies what has been typed a moment later; filters that change   *)
(* write the search box in turn.  Every change of the filters, of the page *)
(* of the log or of the reload token aborts the load under way and starts  *)
(* another; a timer asks for a reload when none is under way, as a mutable *)
(* reference has it.                                                       *)
(*                                                                         *)
(* Of the filters the model keeps the text of the search and one value for *)
(* all the rest, the slice; texts that differ in the spaces around them    *)
(* are one.  Of the five requests of a load it keeps two: that for the log *)
(* of the slice, with the number of its pages, and that for the incidents, *)
(* which come in versions.  Every render runs its effects before the user  *)
(* does anything else; timers and answers may come in between.  Dialogs    *)
(* are left out: what they let the user do can always be done.             *)
(***************************************************************************)
EXTENDS Naturals, FiniteSets

CONSTANTS
  Texts,     \* what can be searched for
  Slices,    \* the values of all other filters together
  MaxPages,  \* bound: pages of the log
  Slow,      \* a load ends before the timer has gone off Slow + 1 times
  MaxMoves,  \* bound: what the user does, and others
  MaxPosts   \* bound: dismissals without an answer yet

ASSUME AnalyticsAssumption ==
  /\ "" \in Texts /\ "off" \notin Texts
  /\ Slices \subseteq {"all", "tidy", "untidy"} /\ "all" \in Slices
  /\ "untidy" \in Slices => "tidy" \in Slices
  /\ MaxPages \in Nat \ {0} /\ Slow \in Nat /\ MaxMoves \in Nat /\ MaxPosts \in Nat

VARIABLES
  filters,   \* filters, and whether they are the defaultFilters object itself
  draft,     \* draftFilters
  quick,     \* quickSearch
  timer,     \* the text the search is to apply, or "off", and whether its time is up
  page,      \* logPage
  interval,  \* whether refreshInterval is on
  load,      \* the load under way, with the answers it has
  inFlight,  \* inFlightRef
  loading,
  shown,     \* what is on screen: the query and the page of the log, the number
             \* of its pages, and the version of the incidents
  due,       \* the effects of the last render that have not run yet
  posts,     \* dismissals and deletions under way
  incidents, \* the server: the version of its incidents
  failed,    \* history: whether the last load ended in an alert
  owed,      \* history: the version of the incidents that has to be shown
  moves

editors == <<filters, draft, quick, timer>>
loads   == <<load, inFlight, loading, shown, failed>>
vars    == <<editors, page, interval, loads, due, posts, incidents, owed, moves>>

-----------------------------------------------------------------------------
Filters == [q : Texts, slice : Slices, default : BOOLEAN]
DefaultFilters == [q |-> "", slice |-> "all", default |-> TRUE]

\* What is asked for: two filters with the same values ask the same.
Query(f) == [q |-> f.q, slice |-> f.slice]

\* The status that is applied has its digits only.
Cleaned(slice) == IF slice = "untidy" THEN "tidy" ELSE slice

Off == [text |-> "off", ripe |-> FALSE]

NoLoad  == [query |-> Query(DefaultFilters), page |-> 0, age |-> 0, pages |-> 0, incidents |-> 0]
Nothing == [query |-> Query(DefaultFilters), page |-> 0, pages |-> 0, incidents |-> 0]

Init ==
  /\ filters = DefaultFilters /\ draft = Query(DefaultFilters)
  /\ quick = "" /\ timer = Off
  /\ page = 1 /\ interval = TRUE
  /\ load = NoLoad /\ inFlight = FALSE /\ loading = TRUE
  /\ shown = Nothing /\ failed = FALSE
  /\ due = {"filters", "quick", "load"}
  /\ posts = {}
  /\ incidents = 1 /\ owed = 0 /\ moves = 0

-----------------------------------------------------------------------------
(* Effects.                                                                *)

\* The cleanup of the effect aborts the load under way, whose `finally' clears
\* the reference that the new load has just set.
Start ==
  /\ load' = [NoLoad EXCEPT !.query = Query(filters), !.page = page,
                            !.age = IF "tick" \in due THEN 1 ELSE 0]
  /\ inFlight' = (load = NoLoad)
  /\ loading' = TRUE
  /\ UNCHANGED <<shown, failed>>

\* Variation: a load is not started while one is under way.
StartLoadIfIdle ==
  IF load = NoLoad THEN Start ELSE UNCHANGED loads

\* The effect of filters, logPage and reloadToken.
StartLoad == Start

\* Variation: changed filters are not written to the search box.
FollowFiltersOnly ==
  IF "filters" \in due
  THEN page' = 1 /\ UNCHANGED quick
  ELSE UNCHANGED <<quick, page>>

\* Filters that have changed go to the search box, and the log to its start.
FollowFilters ==
  IF "filters" \in due
  THEN quick' = filters.q /\ page' = 1
  ELSE UNCHANGED <<quick, page>>

LoadDue == {"load", "tick"} \cap due # {}

RunEffects ==
  /\ due # {}
  /\ FollowFilters
  /\ timer' = IF "quick" \in due THEN [text |-> quick, ripe |-> FALSE] ELSE timer
  /\ IF LoadDue THEN StartLoad ELSE UNCHANGED loads
  /\ due' = (IF quick' # quick THEN {"quick"} ELSE {})
            \cup (IF page' # page THEN {"load"} ELSE {})
  /\ UNCHANGED <<filters, draft, interval, posts, incidents, owed, moves>>

-----------------------------------------------------------------------------
(* The load under way.                                                     *)

ServeLogs ==
  /\ load # NoLoad /\ load.pages = 0
  /\ \E n \in 1..MaxPages : load' = [load EXCEPT !.pages = n]
  /\ UNCHANGED <<editors, page, interval, inFlight, loading, shown, failed, due,
                 posts, incidents, owed, moves>>

ServeIncidents ==
  /\ load # NoLoad /\ load.incidents = 0
  /\ load' = [load EXCEPT !.incidents = incidents]
  /\ UNCHANGED <<editors, page, interval, inFlight, loading, shown, failed, due,
                 posts, incidents, owed, moves>>

\* The end of a load, one that was not aborted.
Finish == load' = NoLoad /\ inFlight' = FALSE /\ loading' = FALSE

Arrive ==
  /\ load.pages # 0 /\ load.incidents # 0
  /\ shown' = [query |-> load.query, page |-> load.page, pages |-> load.pages,
               incidents |-> load.incidents]
  /\ failed' = FALSE
  /\ Finish
  /\ UNCHANGED <<editors, page, interval, due, posts, incidents, owed, moves>>

\* Variation: an error leaves the page loading.
LoadFailsOpen ==
  /\ load # NoLoad
  /\ failed' = TRUE
  /\ load' = NoLoad /\ inFlight' = FALSE
  /\ UNCHANGED <<editors, page, interval, loading, shown, due, posts, incidents, owed, moves>>

\* One request that fails ends the load in an alert; what was shown stays.
LoadFails ==
  /\ load # NoLoad
  /\ failed' = TRUE
  /\ Finish
  /\ UNCHANGED <<editors, page, interval, shown, due, posts, incidents, owed, moves>>

-----------------------------------------------------------------------------
(* Timers.                                                                 *)

\* The 250 ms after the last keystroke are longer than it takes effects to run:
\* a timer that has just been set does not run out before they have.
RunOut ==
  /\ timer # Off /\ ~timer.ripe
  /\ due = {}
  /\ timer' = [timer EXCEPT !.ripe = TRUE]
  /\ UNCHANGED <<filters, draft, quick, page, interval, loads, due, posts, incidents, owed, moves>>

\* The search is applied, to the draft as well.
Debounce ==
  /\ timer.ripe /\ timer' = Off
  /\ draft' = [draft EXCEPT !.q = timer.text]
  /\ IF filters.q = timer.text
     THEN UNCHANGED <<filters, due>>
     ELSE /\ filters' = [filters EXCEPT !.q = timer.text, !.default = FALSE]
          /\ due' = due \cup {"filters", "load"}
  /\ UNCHANGED <<quick, page, interval, loads, posts, incidents, owed, moves>>

\* The refresh interval.  It is longer than it takes effects to run.
Tick ==
  /\ interval /\ "tick" \notin due
  /\ load # NoLoad => load.age < Slow
  /\ load' = IF load = NoLoad THEN NoLoad ELSE [load EXCEPT !.age = @ + 1]
  /\ due' = IF inFlight THEN due ELSE due \cup {"tick"}
  /\ UNCHANGED <<editors, page, interval, inFlight, loading, shown, failed,
                 posts, incidents, owed, moves>>

-----------------------------------------------------------------------------
(* The user.                                                               *)
Moves == moves < MaxMoves /\ moves' = moves + 1 /\ due = {}

Search(text) ==
  /\ Moves
  /\ text # quick /\ quick' = text
  /\ due' = {"quick"}
  /\ UNCHANGED <<filters, draft, timer, page, interval, loads, posts, incidents, owed>>

UpdateDraft(d) ==
  /\ Moves
  /\ d # draft /\ draft' = d
  /\ UNCHANGED <<filters, quick, timer, page, interval, loads, due, posts, incidents, owed>>

\* The filters are a new object each time; that alone loads them again.
ApplyFilters ==
  /\ Moves
  /\ filters' = [q |-> draft.q, slice |-> Cleaned(draft.slice), default |-> FALSE]
  /\ due' = {"filters", "load"}
  /\ UNCHANGED <<draft, quick, timer, page, interval, loads, posts, incidents, owed>>

\* The one object of the defaults: to set it again changes nothing.
ResetFilters ==
  /\ Moves
  /\ filters' = DefaultFilters /\ draft' = Query(DefaultFilters) /\ quick' = ""
  /\ due' = {"load"} \cup (IF filters.default THEN {} ELSE {"filters"})
                     \cup (IF quick = "" THEN {} ELSE {"quick"})
  /\ UNCHANGED <<timer, page, interval, loads, posts, incidents, owed>>

\* The pages there are to pick from are those of what is on screen.
PickPage(n) ==
  /\ Moves
  /\ shown.pages > 1 /\ n \in 1..shown.pages /\ n # page
  /\ page' = n
  /\ due' = {"load"}
  /\ UNCHANGED <<editors, interval, loads, posts, incidents, owed>>

\* The button, which is disabled while a load is under way.
Refresh ==
  /\ Moves
  /\ ~loading
  /\ due' = {"load"}
  /\ UNCHANGED <<editors, page, interval, loads, posts, incidents, owed>>

SetInterval ==
  /\ Moves
  /\ interval' = ~interval
  /\ UNCHANGED <<editors, page, loads, due, posts, incidents, owed>>

\* dismissIncident, deleteHistoryIncident.
Dismiss ==
  /\ Moves
  /\ shown.incidents # 0 /\ Cardinality(posts) < MaxPosts
  /\ posts' = posts \cup {[id |-> moves, version |-> 0]}
  /\ UNCHANGED <<editors, page, interval, loads, due, incidents, owed>>

-----------------------------------------------------------------------------
(* What becomes of a dismissal, and the rest of the world.                 *)

Dismissed(p) ==
  /\ p.version = 0
  /\ incidents' = incidents + 1
  /\ posts' = (posts \ {p}) \cup {[p EXCEPT !.version = incidents']}
  /\ UNCHANGED <<editors, page, interval, loads, due, owed, moves>>

\* From here on the page has to show it.
Owes(p) == owed' = IF p.version > owed THEN p.version ELSE owed

\* Variation: an answer asks for a reload as the timer does.
ConfirmedIfIdle(p) ==
  /\ p.version # 0
  /\ posts' = posts \ {p}
  /\ Owes(p)
  /\ due' = IF inFlight THEN due ELSE due \cup {"load"}
  /\ UNCHANGED <<editors, page, interval, loads, incidents, moves>>

Confirmed(p) ==
  /\ p.version # 0
  /\ posts' = posts \ {p}
  /\ Owes(p)
  /\ due' = due \cup {"load"}
  /\ UNCHANGED <<editors, page, interval, loads, incidents, moves>>

\* It did not work, or its answer is lost: an alert.
Refused(p) ==
  /\ posts' = posts \ {p}
  /\ UNCHANGED <<editors, page, interval, loads, due, incidents, owed, moves>>

IncidentsChange ==
  /\ Moves
  /\ incidents' = incidents + 1
  /\ UNCHANGED <<editors, page, interval, loads, due, posts, owed>>

Load == ServeLogs \/ ServeIncidents \/ Arrive \/ LoadFails

User ==
  \/ \E text \in Texts : Search(text)
  \/ \E d \in [q : Texts, slice : Slices] : UpdateDraft(d)
  \/ ApplyFilters \/ ResetFilters
  \/ \E n \in 1..MaxPages : PickPage(n)
  \/ Refresh \/ SetInterval \/ Dismiss

Next ==
  \/ RunEffects \/ Load \/ RunOut \/ Debounce \/ Tick \/ User \/ IncidentsChange
  \/ \E p \in posts : Dismissed(p) \/ Confirmed(p) \/ Refused(p)

Spec == Init /\ [][Next]_vars

\* Effects are run, requests end, and time passes between the renders, of which
\* there may be no end; users may stop, and so may the refresh interval.
Fairness == WF_vars(RunEffects) /\ WF_vars(Load) /\ SF_vars(RunOut) /\ WF_vars(Debounce)

FairSpec == Spec /\ Fairness

-----------------------------------------------------------------------------
\* Every variable has its type, and the log is on a page there can be.
TypeOK ==
  /\ filters \in Filters /\ draft \in [q : Texts, slice : Slices]
  /\ quick \in Texts /\ timer \in [text : Texts \cup {"off"}, ripe : BOOLEAN]
  /\ page \in 1..MaxPages /\ interval \in BOOLEAN
  /\ load \in [query : [q : Texts, slice : Slices], page : 0..MaxPages, age : Nat,
               pages : 0..MaxPages, incidents : Nat]
  /\ inFlight \in BOOLEAN /\ loading \in BOOLEAN /\ failed \in BOOLEAN
  /\ shown \in [query : [q : Texts, slice : Slices], page : 0..MaxPages,
                pages : 0..MaxPages, incidents : Nat]
  /\ due \subseteq {"filters", "quick", "load", "tick"}
  /\ \A p \in posts : p.id \in Nat /\ p.version \in Nat
  /\ incidents \in Nat \ {0} /\ owed \in Nat /\ moves \in Nat

\* A page that has nothing to run and shows no load under way, the last of
\* which did not fail, shows the slice its filters are for, at the page of the
\* log it says: whatever changed, and went back, while loads were under way.
ShownIsOfFilters ==
  due = {} /\ ~loading /\ ~failed
  => shown.query = Query(filters) /\ shown.page = page

\* It also shows every dismissal and deletion that the server has confirmed to
\* it, though a load that was under way may have read the incidents before.
ConfirmedIsShown ==
  due = {} /\ ~loading /\ ~failed => shown.incidents >= owed

\* When no load takes longer than the interval, the page comes out of every
\* load, however filters, refreshes and answers abort one another.
LoadsEnd == loading ~> ~loading

\* The search box and the filters come to agree: what one writes to the other
\* does not come back as a change.
SearchSettles == (quick # filters.q) ~> (quick = filters.q)
=============================================================================

--------------------------- MODULE AnalyticsProofs ---------------------------
(***************************************************************************)
(* What the analytics page shows when it is at rest, proved for any texts, *)
(* slices and pages, any number of dismissals under way and any order of   *)
(* answers, aborts and timers.                                             *)
(***************************************************************************)
EXTENDS AnalyticsPage, TLAPS

Queries == [q : Texts, slice : Slices]

\* The parts of TypeOK.
EditorsOK == filters \in Filters /\ draft \in Queries /\ quick \in Texts
             /\ timer \in [text : Texts \cup {"off"}, ripe : BOOLEAN]
PageOK    == page \in 1..MaxPages /\ interval \in BOOLEAN
LoadOK    == load \in [query : Queries, page : 0..MaxPages, age : Nat,
                       pages : 0..MaxPages, incidents : Nat]
FlagsOK   == inFlight \in BOOLEAN /\ loading \in BOOLEAN /\ failed \in BOOLEAN
ShownOK   == shown \in [query : Queries, page : 0..MaxPages, pages : 0..MaxPages,
                        incidents : Nat]
DueOK     == due \subseteq {"filters", "quick", "load", "tick"}
PostsOK   == \A p \in posts : p.id \in Nat /\ p.version \in Nat
CountsOK  == incidents \in Nat \ {0} /\ owed \in Nat /\ moves \in Nat

LEMMA Parts ==
  /\ TypeOK <=> EditorsOK /\ PageOK /\ LoadOK /\ FlagsOK /\ ShownOK /\ DueOK /\ PostsOK /\ CountsOK
  /\ TypeOK' <=> EditorsOK' /\ PageOK' /\ LoadOK' /\ FlagsOK' /\ ShownOK' /\ DueOK' /\ PostsOK'
                 /\ CountsOK'
BY DEF TypeOK, EditorsOK, PageOK, LoadOK, FlagsOK, ShownOK, DueOK, PostsOK, CountsOK, Queries

-----------------------------------------------------------------------------
(* The invariant.  Unless the effect of the loads is due, what is loading  *)
(* is for the filters and the page there are, and has read the incidents   *)
(* after all that was confirmed; what is shown without a load or an error  *)
(* was loaded so.                                                          *)
Loading == load # NoLoad

LoadsCurrent ==
  Loading => /\ load.query = Query(filters) /\ load.page = page
             /\ load.incidents # 0 => load.incidents >= owed

ShowsCurrent ==
  ~Loading /\ ~failed => /\ shown.query = Query(filters) /\ shown.page = page
                         /\ shown.incidents >= owed

Current == ~LoadDue => LoadsCurrent /\ ShowsCurrent

\* The flag shows every load, a load is of some page of the log, a timer that
\* is set has a text, and no write is known that the server does not have.
Flagged == (Loading => loading /\ load.page # 0)
           /\ (loading => Loading \/ LoadDue)
Timed   == timer = Off \/ timer.text \in Texts
Known   == owed <= incidents /\ \A p \in posts : p.version <= incidents

IInv == TypeOK /\ Current /\ Flagged /\ Timed /\ Known

-----------------------------------------------------------------------------
LEMMA Pages == /\ 0 \in 0..MaxPages /\ 1 \in 1..MaxPages
               /\ \A n \in 1..MaxPages : n \in 0..MaxPages /\ n # 0
<1>1. MaxPages \in Nat \ {0}
  BY AnalyticsAssumption, Zenon
<1> QED BY <1>1

LEMMA QueryOK == ASSUME NEW f \in Filters PROVE Query(f) \in Queries
BY DEF Query, Filters, Queries

LEMMA DefaultsOK == DefaultFilters \in Filters /\ Query(DefaultFilters) \in Queries
BY AnalyticsAssumption DEF DefaultFilters, Filters, Query, Queries

LEMMA CleanedOK == ASSUME NEW s \in Slices PROVE Cleaned(s) \in Slices
BY AnalyticsAssumption DEF Cleaned

Loads == [query : Queries, page : 0..MaxPages, age : Nat, pages : 0..MaxPages, incidents : Nat]

LEMMA NoLoadOK ==
  NoLoad \in Loads /\ NoLoad.page = 0 /\ NoLoad.incidents = 0 /\ NoLoad.pages = 0
BY Pages, DefaultsOK DEF NoLoad, Loads

\* What is left of TypeOK when all but the editors is as it was.
LEMMA EditorsOnly ==
  ASSUME TypeOK, EditorsOK', DueOK', CountsOK', UNCHANGED <<page, interval, loads, posts>>
  PROVE  TypeOK'
BY Parts DEF PageOK, LoadOK, FlagsOK, ShownOK, PostsOK, loads

LEMMA InitIInv == Init => IInv
<1> SUFFICES ASSUME Init PROVE IInv
  OBVIOUS
<1>1. EditorsOK
  <2>1. "" \in Texts
    BY AnalyticsAssumption
  <2> QED BY <2>1, DefaultsOK DEF Init, EditorsOK, Off
<1>2. LoadOK /\ ShownOK
  BY Pages, NoLoadOK, DefaultsOK DEF Init, LoadOK, Loads, ShownOK, Nothing
<1>3. PageOK /\ FlagsOK /\ DueOK /\ PostsOK /\ CountsOK
  BY Pages DEF Init, PageOK, FlagsOK, DueOK, PostsOK, CountsOK
<1>4. LoadDue /\ ~Loading
  BY DEF Init, LoadDue, Loading
<1>5. Known /\ Timed
  <2>1. owed = 0 /\ incidents = 1
    BY Zenon DEF Init
  <2>2. owed <= incidents
    BY <2>1
  <2> QED BY <2>2 DEF Init, Known, Timed
<1> QED BY <1>1, <1>2, <1>3, <1>4, <1>5, Parts DEF IInv, Current, Flagged

\* What makes the effect of the loads due, and touches nothing the loads have,
\* keeps the invariant whatever else it does.
LEMMA MadeDue ==
  ASSUME IInv, TypeOK', UNCHANGED <<load, loading>>, LoadDue', Timed', Known' PROVE IInv'
BY DEF IInv, Current, Flagged, Loading

\* So does what leaves the loads, the filters and what is owed alone.
LEMMA LeftAlone ==
  ASSUME IInv, TypeOK', UNCHANGED <<filters, page, loads, owed>>, LoadDue' <=> LoadDue,
         Timed', Known'
  PROVE  IInv'
BY DEF IInv, Current, Flagged, Loading, LoadsCurrent, ShowsCurrent, loads

\* A step of the load has to keep its own parts only.
LEMMA OfTheLoad ==
  ASSUME IInv, UNCHANGED <<editors, page, interval, due, posts, incidents, owed, moves>>,
         LoadOK', FlagsOK', ShownOK', Current', Flagged'
  PROVE  IInv'
<1>1. UNCHANGED <<filters, draft, quick, timer>>
  BY DEF editors
<1>2. TypeOK'
  BY <1>1, Parts DEF IInv, EditorsOK, PageOK, DueOK, PostsOK, CountsOK
<1>3. Timed' /\ Known'
  BY <1>1 DEF IInv, Timed, Known
<1> QED BY <1>2, <1>3 DEF IInv

-----------------------------------------------------------------------------
(* The effects and the load.                                               *)

LEMMA EffectsStep == ASSUME IInv, RunEffects PROVE IInv'
<1>1. EditorsOK /\ PageOK /\ LoadOK /\ FlagsOK /\ ShownOK /\ DueOK /\ PostsOK /\ CountsOK
  BY Parts DEF IInv
<1>2. UNCHANGED <<filters, draft, interval, posts, incidents, owed, moves>>
      /\ quick' \in {quick, filters.q} /\ page' \in {page, 1}
      /\ timer' \in {timer, [text |-> quick, ripe |-> FALSE]}
      /\ due' = (IF quick' # quick THEN {"quick"} ELSE {})
                \cup (IF page' # page THEN {"load"} ELSE {})
  BY DEF RunEffects, FollowFilters
<1>3. EditorsOK' /\ Timed'
  <2>1. quick' \in Texts
    BY <1>1, <1>2 DEF EditorsOK, Filters
  <2>2. [text |-> quick, ripe |-> FALSE] \in [text : Texts \cup {"off"}, ripe : BOOLEAN]
    BY <1>1 DEF EditorsOK
  <2>3. timer' \in [text : Texts \cup {"off"}, ripe : BOOLEAN]
    BY <1>1, <1>2, <2>2 DEF EditorsOK
  <2>4. Timed'
    BY <1>1, <1>2 DEF IInv, Timed, EditorsOK, Off
  <2> QED BY <1>1, <1>2, <2>1, <2>3, <2>4 DEF EditorsOK
<1>4. PageOK'
  BY <1>1, <1>2, Pages DEF PageOK
<1>5. DueOK' /\ PostsOK' /\ CountsOK' /\ Known'
  BY <1>1, <1>2 DEF DueOK, PostsOK, CountsOK, IInv, Known
<1>6. page' # page => LoadDue'
  BY <1>2 DEF LoadDue
<1>7. CASE LoadDue
  <2> DEFINE n == [NoLoad EXCEPT !.query = Query(filters), !.page = page,
                                 !.age = IF "tick" \in due THEN 1 ELSE 0]
  <2>1. load' = n /\ inFlight' = (load = NoLoad) /\ loading' = TRUE /\ UNCHANGED <<shown, failed>>
    BY <1>7 DEF RunEffects, StartLoad, Start
  <2>2. Query(filters) \in Queries /\ page \in 0..MaxPages /\ page # 0
    <3>1. Query(filters) \in Queries
      BY <1>1, QueryOK DEF EditorsOK
    <3>2. page \in 0..MaxPages /\ page # 0
      BY <1>1, Pages DEF PageOK
    <3> QED BY <3>1, <3>2
  <2>3. n \in Loads /\ n.query = Query(filters) /\ n.page = page /\ n.incidents = 0 /\ n # NoLoad
    <3>1. (IF "tick" \in due THEN 1 ELSE 0) \in Nat
      OBVIOUS
    <3>2. n \in Loads
      BY <2>2, <3>1, NoLoadOK DEF Loads
    <3>3. n.query = Query(filters) /\ n.page = page /\ n.incidents = 0
      BY NoLoadOK DEF Loads
    <3> QED BY <2>2, <3>2, <3>3, NoLoadOK
  <2> HIDE DEF n
  <2>4. LoadOK' /\ ShownOK' /\ FlagsOK'
    BY <1>1, <2>1, <2>3 DEF LoadOK, Loads, ShownOK, FlagsOK
  <2>5. Loading' /\ Flagged'
    BY <2>1, <2>2, <2>3 DEF Loading, Flagged
  <2>6. Current'
    BY <1>2, <1>6, <2>1, <2>3, <2>5 DEF Current, LoadsCurrent, ShowsCurrent
  <2> QED BY <1>3, <1>4, <1>5, <2>4, <2>5, <2>6, Parts DEF IInv
<1>8. CASE ~LoadDue
  <2>1. UNCHANGED loads
    BY <1>8 DEF RunEffects
  <2>2. LoadOK' /\ ShownOK' /\ FlagsOK'
    BY <1>1, <2>1 DEF LoadOK, ShownOK, FlagsOK, loads
  <2>3. Current' /\ Flagged'
    BY <1>2, <1>6, <1>8, <2>1
       DEF IInv, Current, Flagged, Loading, LoadsCurrent, ShowsCurrent, loads
  <2> QED BY <1>3, <1>4, <1>5, <2>2, <2>3, Parts DEF IInv
<1> QED BY <1>7, <1>8

LEMMA ServeLogsStep == ASSUME IInv, ServeLogs PROVE IInv'
<1>1. PICK n \in 1..MaxPages : load' = [load EXCEPT !.pages = n]
  BY DEF ServeLogs
<1>2. UNCHANGED <<editors, page, interval, due, posts, incidents, owed, moves>>
      /\ UNCHANGED <<inFlight, loading, shown, failed>> /\ load # NoLoad /\ filters' = filters
  BY DEF ServeLogs, editors
<1>3. LoadOK /\ FlagsOK /\ ShownOK /\ LoadOK' /\ FlagsOK' /\ ShownOK'
  BY <1>1, <1>2, Pages, Parts DEF IInv, LoadOK, FlagsOK, ShownOK
<1>4. load'.query = load.query /\ load'.page = load.page /\ load'.incidents = load.incidents
  BY <1>1, <1>3 DEF LoadOK
<1>5. Loading /\ Loading' /\ Flagged'
  BY <1>2, <1>4, NoLoadOK DEF IInv, Flagged, Loading
<1>6. Current'
  BY <1>2, <1>4, <1>5 DEF IInv, Current, LoadDue, LoadsCurrent, ShowsCurrent
<1> QED BY <1>2, <1>3, <1>5, <1>6, OfTheLoad

LEMMA ServeIncidentsStep == ASSUME IInv, ServeIncidents PROVE IInv'
<1>1. load' = [load EXCEPT !.incidents = incidents] /\ load # NoLoad
  BY DEF ServeIncidents
<1>2. UNCHANGED <<editors, page, interval, due, posts, incidents, owed, moves>>
      /\ UNCHANGED <<inFlight, loading, shown, failed>> /\ filters' = filters
  BY DEF ServeIncidents, editors
<1>3. LoadOK /\ FlagsOK /\ ShownOK /\ LoadOK' /\ FlagsOK' /\ ShownOK'
  BY <1>1, <1>2, Parts DEF IInv, LoadOK, FlagsOK, ShownOK, CountsOK
<1>4. load'.query = load.query /\ load'.page = load.page /\ load'.incidents = incidents
  BY <1>1, <1>3 DEF LoadOK
<1>5. Loading /\ Loading' /\ Flagged'
  BY <1>1, <1>2, <1>4, NoLoadOK DEF IInv, Flagged, Loading
<1>6. incidents >= owed
  BY Parts DEF IInv, Known, CountsOK
<1>7. Current'
  BY <1>2, <1>4, <1>5, <1>6 DEF IInv, Current, LoadDue, LoadsCurrent, ShowsCurrent
<1> QED BY <1>2, <1>3, <1>5, <1>7, OfTheLoad

LEMMA ArriveStep == ASSUME IInv, Arrive PROVE IInv'
<1>1. /\ load.pages # 0 /\ load.incidents # 0
      /\ shown' = [query |-> load.query, page |-> load.page, pages |-> load.pages,
                   incidents |-> load.incidents]
      /\ failed' = FALSE /\ load' = NoLoad /\ inFlight' = FALSE /\ loading' = FALSE
  BY DEF Arrive, Finish
<1>2. UNCHANGED <<editors, page, interval, due, posts, incidents, owed, moves>> /\ filters' = filters
  BY DEF Arrive, editors
<1>3. Loading /\ ~Loading' /\ Flagged'
  BY <1>1, NoLoadOK DEF Loading, Flagged
<1>4. LoadOK /\ LoadOK' /\ FlagsOK'
  BY <1>1, NoLoadOK, Parts DEF IInv, LoadOK, Loads, FlagsOK
<1>5. ShownOK'
  BY <1>1, <1>4 DEF LoadOK, ShownOK
<1>6. /\ shown'.query = load.query /\ shown'.page = load.page
      /\ shown'.incidents = load.incidents
  BY <1>1
<1>7. Current'
  BY <1>1, <1>2, <1>3, <1>6 DEF IInv, Current, LoadDue, LoadsCurrent, ShowsCurrent
<1> QED BY <1>2, <1>3, <1>4, <1>5, <1>7, OfTheLoad

LEMMA LoadFailsStep == ASSUME IInv, LoadFails PROVE IInv'
<1>1. /\ failed' = TRUE /\ load' = NoLoad /\ inFlight' = FALSE /\ loading' = FALSE
      /\ shown' = shown
  BY DEF LoadFails, Finish
<1>2. UNCHANGED <<editors, page, interval, due, posts, incidents, owed, moves>>
  BY DEF LoadFails
<1>3. LoadOK' /\ ShownOK' /\ FlagsOK'
  BY <1>1, NoLoadOK, Parts DEF IInv, LoadOK, Loads, ShownOK, FlagsOK
<1>4. Current' /\ Flagged'
  BY <1>1 DEF Current, Flagged, Loading, LoadsCurrent, ShowsCurrent
<1> QED BY <1>2, <1>3, <1>4, OfTheLoad

-----------------------------------------------------------------------------
(* The timers.                                                             *)

LEMMA RunOutStep == ASSUME IInv, RunOut PROVE IInv'
<1>1. /\ timer # Off /\ timer' = [timer EXCEPT !.ripe = TRUE]
      /\ UNCHANGED <<filters, draft, quick, page, interval, loads, due, posts, incidents,
                     owed, moves>>
  BY DEF RunOut
<1>2. EditorsOK' /\ Timed'
  <2>1. EditorsOK /\ Timed
    BY Parts DEF IInv
  <2>2. timer'.text = timer.text /\ timer' \in [text : Texts \cup {"off"}, ripe : BOOLEAN]
    BY <1>1, <2>1 DEF EditorsOK
  <2> QED BY <1>1, <2>1, <2>2 DEF EditorsOK, Timed
<1>3. TypeOK' /\ Known' /\ (LoadDue' <=> LoadDue)
  BY <1>1, <1>2, Parts, EditorsOnly DEF IInv, DueOK, CountsOK, Known, LoadDue
<1> QED BY <1>1, <1>2, <1>3, LeftAlone

LEMMA DebounceStep == ASSUME IInv, Debounce PROVE IInv'
<1>1. /\ timer.ripe /\ timer' = Off /\ draft' = [draft EXCEPT !.q = timer.text]
      /\ UNCHANGED <<quick, page, interval, loads, posts, incidents, owed, moves>>
      /\ UNCHANGED <<load, loading>>
  BY DEF Debounce, loads
<1>2. /\ timer.text \in Texts /\ EditorsOK /\ DueOK /\ CountsOK /\ TypeOK /\ draft \in Queries
      /\ filters \in Filters
  BY <1>1, Parts DEF IInv, Timed, Off, EditorsOK
<1>3. draft' \in Queries
  BY <1>1, <1>2 DEF Queries
<1>4. timer' \in [text : Texts \cup {"off"}, ripe : BOOLEAN] /\ Timed'
  BY <1>1 DEF Off, Timed
<1>5. Known'
  BY <1>1 DEF IInv, Known
<1>6. CASE filters.q = timer.text
  <2>1. UNCHANGED <<filters, due>>
    BY <1>6 DEF Debounce
  <2>2. EditorsOK' /\ DueOK' /\ CountsOK'
    BY <1>1, <1>2, <1>3, <1>4, <2>1 DEF EditorsOK, DueOK, CountsOK
  <2>3. TypeOK'
    BY <1>1, <1>2, <2>2, EditorsOnly
  <2> QED BY <1>1, <1>4, <1>5, <2>1, <2>3, LeftAlone DEF LoadDue
<1>7. CASE filters.q # timer.text
  <2>1. filters' = [filters EXCEPT !.q = timer.text, !.default = FALSE]
        /\ due' = due \cup {"filters", "load"}
    BY <1>7 DEF Debounce
  <2>2. filters' \in Filters
    BY <1>2, <2>1 DEF Filters
  <2>3. EditorsOK' /\ DueOK' /\ CountsOK'
    BY <1>1, <1>2, <1>3, <1>4, <2>1, <2>2 DEF EditorsOK, DueOK, CountsOK
  <2>4. TypeOK'
    BY <1>1, <1>2, <2>3, EditorsOnly
  <2>5. LoadDue'
    BY <2>1 DEF LoadDue
  <2> QED BY <1>1, <1>4, <1>5, <2>4, <2>5, MadeDue
<1> QED BY <1>6, <1>7

LEMMA TickStep == ASSUME IInv, Tick PROVE IInv'
<1>1. /\ load' = IF load = NoLoad THEN NoLoad ELSE [load EXCEPT !.age = @ + 1]
      /\ due' = IF inFlight THEN due ELSE due \cup {"tick"}
      /\ UNCHANGED <<filters, draft, quick, timer, page, interval, inFlight, loading, shown,
                     failed, posts, incidents, owed, moves>>
  BY DEF Tick, editors
<1>2. LoadOK /\ LoadOK'
  BY <1>1, NoLoadOK, Parts DEF IInv, LoadOK, Loads
<1>3. TypeOK'
  BY <1>1, <1>2, Parts DEF IInv, EditorsOK, PageOK, FlagsOK, ShownOK, DueOK, PostsOK, CountsOK
<1>4. load'.query = load.query /\ load'.page = load.page /\ load'.incidents = load.incidents
  BY <1>1, <1>2 DEF LoadOK
<1>5. Loading' <=> Loading
  BY <1>1, <1>4, NoLoadOK DEF IInv, Flagged, Loading
<1>6. Timed' /\ Known'
  BY <1>1 DEF IInv, Timed, Known
<1>7. LoadDue => LoadDue'
  BY <1>1 DEF LoadDue
<1>8. Current' /\ Flagged'
  BY <1>1, <1>4, <1>5, <1>7 DEF IInv, Current, Flagged, LoadsCurrent, ShowsCurrent
<1> QED BY <1>3, <1>6, <1>8 DEF IInv

-----------------------------------------------------------------------------
(* The user.                                                               *)

LEMMA SearchStep == ASSUME IInv, NEW text \in Texts, Search(text) PROVE IInv'
<1>1. /\ due = {} /\ quick' = text /\ due' = {"quick"} /\ moves' = moves + 1
      /\ UNCHANGED <<filters, draft, timer, page, interval, loads, posts, incidents, owed>>
  BY DEF Search, Moves
<1>2. EditorsOK' /\ DueOK' /\ CountsOK' /\ TypeOK
  BY <1>1, Parts DEF IInv, EditorsOK, DueOK, CountsOK
<1>3. TypeOK'
  BY <1>1, <1>2, EditorsOnly
<1>4. Timed' /\ Known' /\ (LoadDue' <=> LoadDue)
  BY <1>1 DEF IInv, Timed, Known, LoadDue
<1> QED BY <1>1, <1>3, <1>4, LeftAlone

LEMMA UpdateDraftStep == ASSUME IInv, NEW d \in Queries, UpdateDraft(d) PROVE IInv'
<1>1. /\ draft' = d /\ moves' = moves + 1
      /\ UNCHANGED <<filters, quick, timer, page, interval, loads, due, posts, incidents, owed>>
  BY DEF UpdateDraft, Moves
<1>2. EditorsOK' /\ DueOK' /\ CountsOK' /\ TypeOK
  BY <1>1, Parts DEF IInv, EditorsOK, DueOK, CountsOK
<1>3. TypeOK'
  BY <1>1, <1>2, EditorsOnly
<1>4. Timed' /\ Known' /\ (LoadDue' <=> LoadDue)
  BY <1>1 DEF IInv, Timed, Known, LoadDue
<1> QED BY <1>1, <1>3, <1>4, LeftAlone

LEMMA ApplyFiltersStep == ASSUME IInv, ApplyFilters PROVE IInv'
<1>1. /\ filters' = [q |-> draft.q, slice |-> Cleaned(draft.slice), default |-> FALSE]
      /\ due' = {"filters", "load"} /\ moves' = moves + 1
      /\ UNCHANGED <<draft, quick, timer, page, interval, loads, posts, incidents, owed>>
      /\ UNCHANGED <<load, loading>>
  BY DEF ApplyFilters, Moves, loads
<1>2. EditorsOK /\ CountsOK /\ TypeOK /\ draft \in Queries
  BY Parts DEF IInv, EditorsOK
<1>3. filters' \in Filters
  BY <1>1, <1>2, CleanedOK DEF Filters, Queries
<1>4. EditorsOK' /\ DueOK' /\ CountsOK'
  BY <1>1, <1>2, <1>3 DEF EditorsOK, DueOK, CountsOK
<1>5. TypeOK'
  BY <1>1, <1>2, <1>4, EditorsOnly
<1>6. Timed' /\ Known' /\ LoadDue'
  BY <1>1 DEF IInv, Timed, Known, LoadDue
<1> QED BY <1>1, <1>5, <1>6, MadeDue

LEMMA ResetFiltersStep == ASSUME IInv, ResetFilters PROVE IInv'
<1>1. /\ filters' = DefaultFilters /\ draft' = Query(DefaultFilters) /\ quick' = ""
      /\ due' \subseteq {"load", "filters", "quick"} /\ "load" \in due' /\ moves' = moves + 1
      /\ UNCHANGED <<timer, page, interval, loads, posts, incidents, owed>>
      /\ UNCHANGED <<load, loading>>
  BY DEF ResetFilters, Moves, loads
<1>2. EditorsOK /\ TypeOK /\ "" \in Texts
  BY AnalyticsAssumption, Parts DEF IInv
<1>3. EditorsOK' /\ DueOK' /\ CountsOK'
  <2>1. EditorsOK'
    BY <1>1, <1>2, DefaultsOK DEF EditorsOK
  <2>2. DueOK'
    BY <1>1 DEF DueOK
  <2>3. incidents' = incidents /\ owed' = owed /\ moves' = moves + 1
    BY <1>1, Zenon
  <2>4. CountsOK'
    BY <2>3, Parts DEF IInv, CountsOK
  <2> QED BY <2>1, <2>2, <2>4
<1>4. TypeOK'
  BY <1>1, <1>2, <1>3, EditorsOnly
<1>5. Timed' /\ Known' /\ LoadDue'
  BY <1>1 DEF IInv, Timed, Known, LoadDue
<1> QED BY <1>1, <1>4, <1>5, MadeDue

LEMMA PickPageStep == ASSUME IInv, NEW n \in 1..MaxPages, PickPage(n) PROVE IInv'
<1>1. /\ page' = n /\ due' = {"load"} /\ moves' = moves + 1
      /\ UNCHANGED <<filters, draft, quick, timer, interval, posts, incidents, owed>>
      /\ UNCHANGED <<load, inFlight, loading, shown, failed>>
  BY DEF PickPage, Moves, editors, loads
<1>2. TypeOK'
  BY <1>1, Parts DEF IInv, EditorsOK, PageOK, LoadOK, FlagsOK, ShownOK, DueOK, PostsOK, CountsOK
<1>3. Timed' /\ Known' /\ LoadDue'
  BY <1>1 DEF IInv, Timed, Known, LoadDue
<1> QED BY <1>1, <1>2, <1>3, MadeDue

LEMMA RefreshStep == ASSUME IInv, Refresh PROVE IInv'
<1>1. /\ due' = {"load"} /\ moves' = moves + 1
      /\ UNCHANGED <<filters, draft, quick, timer, page, interval, posts, incidents, owed>>
      /\ UNCHANGED <<load, inFlight, loading, shown, failed>>
  BY DEF Refresh, Moves, editors, loads
<1>2. TypeOK'
  BY <1>1, Parts DEF IInv, EditorsOK, PageOK, LoadOK, FlagsOK, ShownOK, DueOK, PostsOK, CountsOK
<1>3. Timed' /\ Known' /\ LoadDue'
  BY <1>1 DEF IInv, Timed, Known, LoadDue
<1> QED BY <1>1, <1>2, <1>3, MadeDue

LEMMA SetIntervalStep == ASSUME IInv, SetInterval PROVE IInv'
<1>1. /\ interval' = ~interval /\ moves' = moves + 1
      /\ UNCHANGED <<filters, draft, quick, timer, page, due, posts, incidents, owed>>
      /\ UNCHANGED <<load, inFlight, loading, shown, failed>>
  BY DEF SetInterval, Moves, editors, loads
<1>2. TypeOK'
  BY <1>1, Parts DEF IInv, EditorsOK, PageOK, LoadOK, FlagsOK, ShownOK, DueOK, PostsOK, CountsOK
<1>3. Timed' /\ Known' /\ (LoadDue' <=> LoadDue) /\ UNCHANGED loads
  BY <1>1 DEF IInv, Timed, Known, LoadDue, loads
<1> QED BY <1>1, <1>2, <1>3, LeftAlone

LEMMA DismissStep == ASSUME IInv, Dismiss PROVE IInv'
<1>1. /\ posts' = posts \cup {[id |-> moves, version |-> 0]} /\ moves' = moves + 1
      /\ UNCHANGED <<filters, draft, quick, timer, page, interval, due, incidents, owed>>
      /\ UNCHANGED <<load, inFlight, loading, shown, failed>>
  BY DEF Dismiss, Moves, editors, loads
<1>2. PostsOK' /\ CountsOK /\ CountsOK'
  BY <1>1, Parts DEF IInv, PostsOK, CountsOK
<1>3. TypeOK'
  BY <1>1, <1>2, Parts DEF IInv, EditorsOK, PageOK, LoadOK, FlagsOK, ShownOK, DueOK
<1>4. Known'
  BY <1>1, <1>2 DEF IInv, Known, CountsOK
<1>5. Timed' /\ (LoadDue' <=> LoadDue) /\ UNCHANGED loads
  BY <1>1 DEF IInv, Timed, LoadDue, loads
<1> QED BY <1>1, <1>3, <1>4, <1>5, LeftAlone

-----------------------------------------------------------------------------
(* What becomes of a dismissal.                                            *)

LEMMA DismissedStep == ASSUME IInv, NEW p \in posts, Dismissed(p) PROVE IInv'
<1>1. /\ incidents' = incidents + 1
      /\ posts' = (posts \ {p}) \cup {[p EXCEPT !.version = incidents']}
      /\ UNCHANGED <<filters, draft, quick, timer, page, interval, due, owed, moves>>
      /\ UNCHANGED <<load, inFlight, loading, shown, failed>>
  BY DEF Dismissed, editors, loads
<1>2. PostsOK /\ CountsOK /\ Known
  BY Parts DEF IInv
<1>3. CountsOK' /\ incidents' \in Nat
  BY <1>1, <1>2 DEF CountsOK
<1>4. \A r \in posts' : r.id \in Nat /\ r.version \in Nat /\ r.version <= incidents'
  <2> SUFFICES ASSUME NEW r \in posts'
               PROVE  r.id \in Nat /\ r.version \in Nat /\ r.version <= incidents'
    OBVIOUS
  <2>1. CASE r \in posts
    BY <1>1, <1>2, <2>1 DEF PostsOK, CountsOK, Known
  <2>2. CASE r = [p EXCEPT !.version = incidents']
    BY <1>1, <1>2, <1>3, <2>2 DEF PostsOK
  <2> QED BY <1>1, <2>1, <2>2
<1>5. PostsOK' /\ Known'
  BY <1>1, <1>2, <1>3, <1>4 DEF PostsOK, CountsOK, Known
<1>6. TypeOK'
  BY <1>1, <1>3, <1>5, Parts DEF IInv, EditorsOK, PageOK, LoadOK, FlagsOK, ShownOK, DueOK
<1>7. Timed' /\ (LoadDue' <=> LoadDue) /\ UNCHANGED loads
  BY <1>1 DEF IInv, Timed, LoadDue, loads
<1> QED BY <1>1, <1>5, <1>6, <1>7, LeftAlone

LEMMA ConfirmedStep == ASSUME IInv, NEW p \in posts, Confirmed(p) PROVE IInv'
<1>1. /\ posts' = posts \ {p} /\ due' = due \cup {"load"}
      /\ owed' = IF p.version > owed THEN p.version ELSE owed
      /\ UNCHANGED <<filters, draft, quick, timer, page, interval, incidents, moves>>
      /\ UNCHANGED <<load, inFlight, loading, shown, failed>>
  BY DEF Confirmed, Owes, editors, loads
<1>2. PostsOK /\ CountsOK /\ Known
  BY Parts DEF IInv
<1>3. PostsOK' /\ CountsOK' /\ Known'
  BY <1>1, <1>2 DEF PostsOK, CountsOK, Known
<1>4. TypeOK'
  BY <1>1, <1>3, Parts DEF IInv, EditorsOK, PageOK, LoadOK, FlagsOK, ShownOK, DueOK
<1>5. Timed' /\ LoadDue'
  BY <1>1 DEF IInv, Timed, LoadDue
<1> QED BY <1>1, <1>3, <1>4, <1>5, MadeDue

LEMMA RefusedStep == ASSUME IInv, NEW p \in posts, Refused(p) PROVE IInv'
<1>1. /\ posts' = posts \ {p}
      /\ UNCHANGED <<filters, draft, quick, timer, page, interval, due, incidents, owed, moves>>
      /\ UNCHANGED <<load, inFlight, loading, shown, failed>>
  BY DEF Refused, editors, loads
<1>2. TypeOK'
  BY <1>1, Parts DEF IInv, EditorsOK, PageOK, LoadOK, FlagsOK, ShownOK, DueOK, PostsOK, CountsOK
<1>3. Timed' /\ Known' /\ (LoadDue' <=> LoadDue) /\ UNCHANGED loads
  BY <1>1 DEF IInv, Timed, Known, LoadDue, loads
<1> QED BY <1>1, <1>2, <1>3, LeftAlone

LEMMA IncidentsChangeStep == ASSUME IInv, IncidentsChange PROVE IInv'
<1>1. /\ incidents' = incidents + 1 /\ moves' = moves + 1
      /\ UNCHANGED <<filters, draft, quick, timer, page, interval, due, posts, owed>>
      /\ UNCHANGED <<load, inFlight, loading, shown, failed>>
  BY DEF IncidentsChange, Moves, editors, loads
<1>2. PostsOK /\ CountsOK /\ Known /\ CountsOK'
  BY <1>1, Parts DEF IInv, CountsOK
<1>3. Known'
  BY <1>1, <1>2 DEF Known, PostsOK, CountsOK
<1>4. TypeOK'
  BY <1>1, <1>2, Parts DEF IInv, EditorsOK, PageOK, LoadOK, FlagsOK, ShownOK, DueOK, PostsOK
<1>5. Timed' /\ (LoadDue' <=> LoadDue) /\ UNCHANGED loads
  BY <1>1 DEF IInv, Timed, LoadDue, loads
<1> QED BY <1>1, <1>3, <1>4, <1>5, LeftAlone

LEMMA StutterStep == ASSUME IInv, UNCHANGED vars PROVE IInv'
<1>1. /\ UNCHANGED <<filters, draft, quick, timer, page, interval, due, posts, incidents, owed, moves>>
      /\ UNCHANGED <<load, inFlight, loading, shown, failed>>
  BY DEF vars, editors, loads
<1>2. TypeOK'
  BY <1>1, Parts DEF IInv, EditorsOK, PageOK, LoadOK, FlagsOK, ShownOK, DueOK, PostsOK, CountsOK
<1>3. Timed' /\ Known' /\ (LoadDue' <=> LoadDue) /\ UNCHANGED loads
  BY <1>1 DEF IInv, Timed, Known, LoadDue, loads
<1> QED BY <1>1, <1>2, <1>3, LeftAlone

LEMMA UserStep == ASSUME IInv, User PROVE IInv'
BY SearchStep, UpdateDraftStep, ApplyFiltersStep, ResetFiltersStep, PickPageStep, RefreshStep,
   SetIntervalStep, DismissStep DEF User, Queries

LEMMA NextIInv == IInv /\ [Next]_vars => IInv'
<1> SUFFICES ASSUME IInv, [Next]_vars PROVE IInv'
  OBVIOUS
<1>1. CASE RunEffects
  BY <1>1, EffectsStep
<1>2. CASE Load
  BY <1>2, ServeLogsStep, ServeIncidentsStep, ArriveStep, LoadFailsStep DEF Load
<1>3. CASE RunOut \/ Debounce \/ Tick
  BY <1>3, RunOutStep, DebounceStep, TickStep
<1>4. CASE User
  BY <1>4, UserStep
<1>5. CASE IncidentsChange
  BY <1>5, IncidentsChangeStep
<1>6. CASE \E p \in posts : Dismissed(p) \/ Confirmed(p) \/ Refused(p)
  BY <1>6, DismissedStep, ConfirmedStep, RefusedStep
<1>7. CASE UNCHANGED vars
  BY <1>7, StutterStep
<1> QED BY <1>1, <1>2, <1>3, <1>4, <1>5, <1>6, <1>7 DEF Next

LEMMA Invariant == Spec => []IInv
BY InitIInv, NextIInv, PTL DEF Spec

-----------------------------------------------------------------------------
\* A page that has nothing to run and shows no load, the last of which did not
\* fail, shows the slice of its filters, at the page of the log it says
\* (analytics-page.tsx: the load that changed filters abort and start again).
THEOREM RestsOnItsFilters == Spec => []ShownIsOfFilters
<1>1. IInv => ShownIsOfFilters
  <2> SUFFICES ASSUME IInv, due = {}, ~loading, ~failed
               PROVE  shown.query = Query(filters) /\ shown.page = page
    BY DEF ShownIsOfFilters
  <2>1. ~LoadDue
    BY DEF LoadDue
  <2> QED BY <2>1 DEF IInv, Current, Flagged, ShowsCurrent
<1> QED BY <1>1, Invariant, PTL

\* And it shows every dismissal and deletion the server has confirmed to it, for
\* the answer starts a load whatever load there is (dismissIncident).
THEOREM ShowsTheConfirmed == Spec => []ConfirmedIsShown
<1>1. IInv => ConfirmedIsShown
  <2> SUFFICES ASSUME IInv, due = {}, ~loading, ~failed PROVE shown.incidents >= owed
    BY DEF ConfirmedIsShown
  <2>1. ~LoadDue
    BY DEF LoadDue
  <2> QED BY <2>1 DEF IInv, Current, Flagged, ShowsCurrent
<1> QED BY <1>1, Invariant, PTL
=============================================================================

--------------------------- MODULE ScreenDashboard ---------------------------
(***************************************************************************)
(* The dashboard of the data screen (MainDashboard): the map with a marker *)
(* for each project that is searched for and has a place, whose script     *)
(* comes before or after the projects, or never; and the panels, whose     *)
(* numbers run from what they showed to what a poll brings.                *)
(***************************************************************************)
EXTENDS Naturals

CONSTANTS MapSites,       \* projects
          Placed,         \* those with a longitude and a latitude
          SearchTerms,
          TermMatches,    \* the projects each term finds
          Counts,         \* what a panel counts
          MaxReloads,     \* bound: how often the page is left, or the script fails
          NOSITE

ASSUME ScreenDashboardAssumption ==
  /\ Placed \subseteq MapSites
  /\ TermMatches \in [SearchTerms -> SUBSET MapSites] /\ "" \in SearchTerms
  /\ Counts \subseteq Nat /\ 0 \in Counts
  /\ NOSITE \notin MapSites
  /\ MaxReloads \in Nat

VARIABLES
  open,       \* the page is there
  script,     \* baiduPromise, which outlives the page: "none", "loading" or "loaded"
  map,        \* "none", "waiting", "there", or "failed"
  mapReady,
  projects,   \* the answer for the map, or none yet
  term,       \* searchTerm
  markers,
  selected,   \* whose tooltip is open
  panel,      \* one of the columns: whether it has bars instead of numbers while it loads
  overview,   \* its cached answer,
  polling,    \* and the request for it
  number,     \* AnimatedNumber: what it shows, where it runs to, whether a frame is asked for
  reloads

dashboardVars == <<open, script, map, mapReady, projects, term, markers, selected,
                   panel, overview, polling, number, reloads>>

None == [has |-> FALSE, of |-> {}]
NoCount == [has |-> FALSE, of |-> 0]
NoNumber == [drawn |-> FALSE, shows |-> 0, to |-> 0, runs |-> FALSE]

\* What each column shows while its first answer is on its way.
LeftColumn == "bars"
RightColumn == "bars"
AlertDonut == "numbers"

ScreenDashboardInit ==
  /\ open = FALSE
  /\ script = "none" /\ map = "none" /\ mapReady = FALSE
  /\ projects = None /\ term = ""
  /\ markers = {} /\ selected = NOSITE
  /\ panel \in {LeftColumn, RightColumn, AlertDonut}
  /\ overview = NoCount /\ polling = FALSE
  /\ number = NoNumber
  /\ reloads = 0

mapVars == <<script, map, mapReady, projects, term, markers, selected>>
panelVars == <<overview, polling, number>>
-----------------------------------------------------------------------------
(* The panels. *)

\* A number that comes is shown at once; another one is run to from what is shown.
Run(value) ==
  number' = IF ~number.drawn THEN [drawn |-> TRUE, shows |-> value, to |-> value, runs |-> FALSE]
            ELSE IF number.to /= value THEN [number EXCEPT !.to = value, !.runs = TRUE] ELSE number

\* isLoading && !data: bars, which take the numbers away. Without an answer the
\* others show a zero.
Bars(answer, waits) == panel = "bars" /\ waits /\ ~answer.has
DrawPanel(answer, waits) ==
  IF Bars(answer, waits) THEN number' = NoNumber ELSE Run(answer.of)

PollNumbers ==
  /\ open /\ ~polling
  /\ polling' = TRUE
  /\ DrawPanel(overview, TRUE)
  /\ UNCHANGED <<open, mapVars, panel, overview, reloads>>

TakeNumbers(value) ==
  /\ polling
  /\ polling' = FALSE
  /\ overview' = [has |-> TRUE, of |-> value]
  /\ IF open THEN DrawPanel(overview', FALSE) ELSE UNCHANGED number
  /\ UNCHANGED <<open, mapVars, panel, reloads>>

NumbersFail ==
  /\ polling
  /\ polling' = FALSE
  /\ IF open THEN DrawPanel(overview, FALSE) ELSE UNCHANGED number
  /\ UNCHANGED <<open, mapVars, panel, overview, reloads>>

\* Mutant: the last frame shows what its share of the way makes.
LastFrameOnTheWay ==
  /\ number.runs
  /\ \E shows \in Counts : number' = [number EXCEPT !.shows = shows, !.runs = FALSE]
  /\ UNCHANGED <<open, mapVars, panel, overview, polling, reloads>>

\* A frame: on the way anything between, at the end the number itself.
Frame ==
  /\ number.runs
  /\ \/ number' = [number EXCEPT !.shows = number.to, !.runs = FALSE]
     \/ \E shows \in Counts :
          /\ shows \in number.shows..number.to \cup number.to..number.shows
          /\ number' = [number EXCEPT !.shows = shows]
  /\ UNCHANGED <<open, mapVars, panel, overview, polling, reloads>>
-----------------------------------------------------------------------------
(* The map. *)

Searched(answer, t) == answer.of \cap TermMatches[t]

\* The page opens: its map waits for the script, which is asked for once; numbers
\* that are fresh are not asked for.
OpenScreen ==
  /\ ~open
  /\ open' = TRUE
  /\ script' = IF script = "none" THEN "loading" ELSE script
  /\ map' = "waiting" /\ mapReady' = FALSE
  /\ polling' \in {TRUE} \cup (IF overview.has THEN {polling} ELSE {})
  /\ DrawPanel(overview, polling')
  /\ term' = ""
  /\ UNCHANGED <<projects, markers, selected, panel, overview, reloads>>

\* A map that still waits is given up (disposed).
LeaveScreen ==
  /\ open
  /\ reloads < MaxReloads /\ reloads' = reloads + 1
  /\ open' = FALSE
  /\ map' = "none" /\ mapReady' = FALSE
  /\ markers' = {} /\ selected' = NOSITE
  /\ number' = NoNumber
  /\ UNCHANGED <<script, projects, term, panel, overview, polling>>

ScriptLoads ==
  /\ script = "loading"
  /\ script' = "loaded"
  /\ UNCHANGED <<open, map, mapReady, projects, term, markers, selected, panel, panelVars, reloads>>

\* Mutant: the projects the page had when it opened.
MakeEmptyMap ==
  /\ map = "waiting" /\ script = "loaded"
  /\ map' = "there" /\ mapReady' = TRUE
  /\ markers' = {}
  /\ UNCHANGED <<open, script, projects, term, selected, panel, panelVars, reloads>>

\* The map is made with the projects of now (projectsRef), and the splash goes.
MakeMap ==
  /\ map = "waiting" /\ script = "loaded"
  /\ map' = "there" /\ mapReady' = TRUE
  /\ markers' = Searched(projects, term) \cap Placed
  /\ UNCHANGED <<open, script, projects, term, selected, panel, panelVars, reloads>>

\* Without the script the splash goes all the same; the next map asks for it again.
ScriptFails ==
  /\ script = "loading"
  /\ reloads < MaxReloads /\ reloads' = reloads + 1
  /\ script' = "none"
  /\ IF map = "waiting" THEN map' = "failed" /\ mapReady' = TRUE ELSE UNCHANGED <<map, mapReady>>
  /\ UNCHANGED <<open, projects, term, markers, selected, panel, panelVars>>

\* The markers are made anew whenever the projects on the map are others.
Redraw(answer, t) == markers' = IF map = "there" THEN Searched(answer, t) \cap Placed ELSE markers

TakeMapProjects(found) ==
  /\ open
  /\ projects' = [has |-> TRUE, of |-> found]
  /\ Redraw(projects', term)
  /\ UNCHANGED <<open, script, map, mapReady, term, selected, panel, panelVars, reloads>>

SearchMap(t) ==
  /\ mapReady /\ t /= term
  /\ term' = t
  /\ Redraw(projects, t)
  /\ UNCHANGED <<open, script, map, mapReady, projects, selected, panel, panelVars, reloads>>

\* handleProjectClick; the tooltip stays when its marker goes.
ClickMarker(s) ==
  /\ s \in markers
  /\ selected' = s
  /\ UNCHANGED <<open, script, map, mapReady, projects, term, markers, panel, panelVars, reloads>>

CloseTooltip ==
  /\ selected /= NOSITE
  /\ selected' = NOSITE
  /\ UNCHANGED <<open, script, map, mapReady, projects, term, markers, panel, panelVars, reloads>>

ScreenDashboardNext ==
  \/ OpenScreen \/ LeaveScreen
  \/ PollNumbers \/ (\E value \in Counts : TakeNumbers(value)) \/ NumbersFail \/ Frame
  \/ ScriptLoads \/ ScriptFails \/ MakeMap
  \/ \E found \in SUBSET MapSites : TakeMapProjects(found)
  \/ \E t \in SearchTerms : SearchMap(t)
  \/ \E s \in MapSites : ClickMarker(s)
  \/ CloseTooltip
-----------------------------------------------------------------------------
ScreenDashboardTypeOK ==
  /\ open \in BOOLEAN
  /\ script \in {"none", "loading", "loaded"}
  /\ map \in {"none", "waiting", "there", "failed"} /\ mapReady \in BOOLEAN
  /\ projects \in [has : BOOLEAN, of : SUBSET MapSites] /\ term \in SearchTerms
  /\ markers \subseteq Placed /\ selected \in Placed \cup {NOSITE}
  /\ panel \in {LeftColumn, RightColumn, AlertDonut}
  /\ overview \in [has : BOOLEAN, of : Counts] /\ polling \in BOOLEAN
  /\ number \in [drawn : BOOLEAN, shows : Counts, to : Counts, runs : BOOLEAN]
  /\ reloads \in 0..MaxReloads

\* Whatever came first, the script, the projects or the search: the markers are
\* those of the projects that are searched for and have a place.
MarkersAreThere == map = "there" => markers = Searched(projects, term) \cap Placed

\* A panel at rest shows the number that came last, or the bars until one has.
NumbersArrive ==
  open /\ ~Bars(overview, polling) /\ ~number.runs => number.drawn /\ number.shows = overview.of
=============================================================================

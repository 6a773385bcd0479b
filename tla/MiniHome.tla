------------------------------- MODULE MiniHome -------------------------------
(***************************************************************************)
(* The mini program's session and its home page: the storage of the phone  *)
(* (token, projects of the login, selected project), the requests of the   *)
(* home page, which come back after the page was left, the project was     *)
(* switched or somebody else has logged in, and config/api.js, which logs  *)
(* out whoever is logged in when any answer is a 401, and shows the login  *)
(* page unless it has just done so.                                        *)
(***************************************************************************)
EXTENDS Naturals, FiniteSets, Sequences

CONSTANTS Users, Projects, NULL,
          Managed,        \* the projects the server lets each user manage
          MaxExpiries,    \* bound: tokens that run out
          MaxRequests     \* bound: requests on their way at a time

ASSUME MiniHomeAssumption ==
  /\ Managed \in [Users -> SUBSET Projects]
  /\ NULL \notin Users \cup Projects
  /\ MaxExpiries \in Nat /\ MaxRequests \in Nat \ {0}

VARIABLES
  store,     \* wx storage: token (its user), whether it ran out, the projects of
             \* the login, and the selected project
  screen,    \* "login", "home" or "profile", and
  above,     \* the pages on top of it
  home,      \* data of the home page
  requests,  \* what the home pages have asked for and not yet heard
  expiries,  \* bounds the tokens that run out
  redirecting,   \* config/api.js: a 401 has just opened the login page
  behind,    \* a switch found a load of counts on its way, or a load failed
  crossed    \* an answer for an earlier login came in under a later one

homeVars == <<store, screen, above, home, requests, expiries, redirecting, behind, crossed>>

NoStore == [token |-> NULL, expired |-> FALSE, managed |-> {}, selected |-> NULL]

\* stats is the project the counts are of; busy is _loadingStats; loading is
\* loadingProjects; access is the project whose points are being asked for.
NewHome == [selected |-> NULL, options |-> {}, stats |-> NULL, busy |-> FALSE,
            loading |-> FALSE, access |-> NULL]

\* gone: the page that asked is closed. expired: the token had run out by then, or
\* there was none.
Asked(kind, project) ==
  [kind |-> kind, project |-> project, who |-> store.token,
   expired |-> store.expired \/ store.token = NULL, gone |-> FALSE]

MiniHomeInit ==
  /\ store = NoStore
  /\ screen = "login" /\ above = <<>>
  /\ home = NewHome
  /\ requests = {}
  /\ expiries = 0
  /\ redirecting = FALSE /\ behind = FALSE /\ crossed = FALSE

On(page) == screen = page /\ above = <<>>

\* The page that asked is closed: its counts no longer count, unless by a 401.
Orphans(rs) == {[r EXCEPT !.gone = TRUE] : r \in {x \in rs : x.kind /= "stats" \/ x.expired}}
Asking(rs) == requests' = rs /\ Cardinality(rs) <= MaxRequests

\* getSelectedProject: the stored one, or the first of the login's list.
Selected(p) ==
  IF store.selected /= NULL \/ store.managed = {} THEN p = store.selected ELSE p \in store.managed

\* loadProjects and loadHomeStats start.
AskProjects == {Asked("projects", NULL)}
AskStats(p) == {Asked("stats", p)}
-----------------------------------------------------------------------------
(* The login page. *)

\* A token that ran out by its own clock is removed when the login page loads,
\* and the selected project stays; the server answers with the user's projects.
SubmitLogin(u) ==
  /\ On("login")
  /\ store' = [token |-> u, expired |-> FALSE, managed |-> Managed[u], selected |-> store.selected]
  /\ screen' = "home"
  /\ home' = [NewHome EXCEPT !.loading = TRUE]
  /\ Asking(Orphans(requests) \cup
       {[kind |-> "projects", project |-> NULL, who |-> u, expired |-> FALSE, gone |-> FALSE]})
  /\ behind' = FALSE /\ crossed' = FALSE
  /\ UNCHANGED <<above, expiries, redirecting>>

\* Started again, the program finds a token that still runs and goes home, or
\* removes one that does not. What was on its way is lost.
Relaunch ==
  /\ screen' = IF store.token /= NULL /\ ~store.expired THEN "home" ELSE "login"
  /\ store' = IF screen' = "home" THEN store
                ELSE [NoStore EXCEPT !.selected = store.selected]
  /\ home' = [NewHome EXCEPT !.loading = screen' = "home"]
  /\ requests' = IF screen' = "home" THEN AskProjects ELSE {}
  /\ above' = <<>>
  /\ redirecting' = FALSE /\ behind' = FALSE /\ crossed' = FALSE
  /\ UNCHANGED expiries

\* A token lasts longer than the second in which the login page is not opened again.
TokenExpires ==
  /\ expiries < MaxExpiries /\ ~redirecting
  /\ store.token /= NULL /\ ~store.expired
  /\ store' = [store EXCEPT !.expired = TRUE]
  /\ expiries' = expiries + 1
  /\ UNCHANGED <<screen, above, home, requests, redirecting, behind, crossed>>
-----------------------------------------------------------------------------
(* The home page. *)

Leave ==
  /\ home' = NewHome
  /\ requests' = Orphans(requests)
  /\ UNCHANGED <<above, expiries, redirecting, crossed>>

\* Both logouts empty the storage without telling the server.
LogOut ==
  /\ On("home") \/ On("profile")
  /\ store' = NoStore
  /\ screen' = "login"
  /\ behind' = FALSE
  /\ Leave

\* The profile replaces the home page, and the home page the profile.
OpenProfile ==
  /\ On("home")
  /\ \E p \in Projects : Selected(p) /\ store' = [store EXCEPT !.selected = p]
  /\ screen' = "profile" /\ behind' = FALSE
  /\ Leave

\* Without a token it goes on to the login page.
GoHome ==
  /\ On("profile")
  /\ IF store.token = NULL
       THEN screen' = "login" /\ home' = NewHome /\ UNCHANGED requests
       ELSE /\ screen' = "home"
            /\ home' = [NewHome EXCEPT !.loading = TRUE]
            /\ Asking(requests \cup AskProjects)
  /\ UNCHANGED <<store, above, expiries, redirecting, behind, crossed>>

\* onShow: projects that are missing, or counts that are not of the last 15
\* seconds; counts that are being loaded are not asked for twice.
Show ==
  /\ On("home") /\ store.token /= NULL
  /\ IF home.options = {}
       THEN /\ ~home.loading
            /\ home' = [home EXCEPT !.loading = TRUE]
            /\ Asking(requests \cup AskProjects)
       ELSE /\ ~home.busy
            /\ home' = [home EXCEPT !.busy = TRUE]
            /\ Asking(requests \cup AskStats(home.selected))
  /\ UNCHANGED <<store, screen, above, expiries, redirecting, behind, crossed>>

\* Mutant: the counts of the project before are taken for the new one's.
SelectProjectNoLoad(p) ==
  /\ On("home") /\ p \in home.options
  /\ home' = [home EXCEPT !.selected = p]
  /\ store' = [store EXCEPT !.selected = p]
  /\ UNCHANGED <<screen, above, requests, expiries, redirecting, behind, crossed>>

\* selectProject: loadHomeStats does nothing while counts are being loaded.
SelectProject(p) ==
  /\ On("home") /\ p \in home.options
  /\ store' = [store EXCEPT !.selected = p]
  /\ home' = [home EXCEPT !.selected = p, !.busy = TRUE]
  /\ Asking(IF home.busy THEN requests ELSE requests \cup AskStats(p))
  /\ behind' = (behind \/ home.busy)
  /\ UNCHANGED <<screen, above, expiries, redirecting, crossed>>

\* openMobileFaceMachine.
AskMachine ==
  /\ On("home") /\ home.access = NULL
  /\ \E p \in Projects :
       /\ Selected(p)
       /\ store' = [store EXCEPT !.selected = p]
       /\ home' = [home EXCEPT !.access = p]
       /\ Asking(requests \cup {Asked("points", p)})
  /\ UNCHANGED <<screen, above, expiries, redirecting, behind, crossed>>

Back ==
  /\ above /= <<>>
  /\ above' = SubSeq(above, 1, Len(above) - 1)
  /\ UNCHANGED <<store, screen, home, requests, expiries, redirecting, behind, crossed>>

OpenModule ==
  /\ On("home")
  /\ \E p \in Projects : Selected(p) /\ store' = [store EXCEPT !.selected = p]
  /\ above' = <<"module">>
  /\ UNCHANGED <<screen, home, requests, expiries, redirecting, behind, crossed>>
-----------------------------------------------------------------------------
(* Answers. *)

Heard(r) == requests' = requests \ {r}

\* A page hears that its request failed: its counts stay as they were.
Failed(r) ==
  /\ home' = IF r.gone THEN home
             ELSE CASE r.kind = "stats" -> [home EXCEPT !.busy = FALSE]
                    [] r.kind = "projects" -> [home EXCEPT !.loading = FALSE]
                    [] r.kind = "points" -> [home EXCEPT !.access = NULL]
  /\ behind' = (behind \/ (r.kind = "stats" /\ ~r.gone))
  /\ Heard(r)

\* handleUnauthorized: every key is removed, whoever it belongs to by now, and the login
\* page is opened instead of all others.
Unauthorized(r) ==
  /\ r.expired /\ ~redirecting
  /\ store' = NoStore
  /\ screen' = "login" /\ above' = <<>>
  /\ redirecting' = TRUE
  /\ home' = NewHome
  /\ requests' = Orphans(requests \ {r})
  /\ crossed' = (crossed \/ store.token /= r.who)
  /\ behind' = FALSE
  /\ UNCHANGED expiries

\* Within a second of the one before: the keys are removed, and the page stays, though
\* somebody may have logged in on it.
UnauthorizedAgain(r) ==
  /\ r.expired /\ redirecting
  /\ store' = NoStore
  /\ Failed(r)
  /\ crossed' = TRUE
  /\ UNCHANGED <<screen, above, expiries, redirecting>>

SecondPasses ==
  /\ redirecting
  /\ redirecting' = FALSE
  /\ UNCHANGED <<store, screen, above, home, requests, expiries, behind, crossed>>

\* Mutant: the first project is shown, the stored one is left as it was.
TakeProjectsUnstored(r) ==
  /\ r.kind = "projects" /\ ~r.expired /\ Managed[r.who] /= {} /\ ~r.gone
  /\ \E p \in Managed[r.who] :
       /\ (store.selected \in Managed[r.who]) => p = store.selected
       /\ home' = [home EXCEPT !.loading = FALSE, !.options = Managed[r.who], !.selected = p, !.busy = TRUE]
       /\ requests' = (requests \ {r}) \cup (IF home.busy THEN {} ELSE AskStats(p))
  /\ behind' = (behind \/ home.busy)
  /\ UNCHANGED <<store, screen, above, expiries, redirecting, crossed>>

\* loadProjects: the stored project if the user has it, else the first. It is
\* stored even if the page that asked has closed.
TakeProjects(r) ==
  /\ r.kind = "projects" /\ ~r.expired /\ Managed[r.who] /= {}
  /\ \E p \in Managed[r.who] :
       /\ (store.selected \in Managed[r.who]) => p = store.selected
       /\ store' = [store EXCEPT !.selected = p]
       /\ IF r.gone
            THEN Heard(r) /\ UNCHANGED <<home, behind>>
            ELSE /\ home' = [home EXCEPT !.loading = FALSE, !.options = Managed[r.who],
                                         !.selected = p, !.busy = TRUE]
                 /\ requests' = (requests \ {r}) \cup (IF home.busy THEN {} ELSE AskStats(p))
                 /\ behind' = (behind \/ home.busy)
  /\ crossed' = (crossed \/ store.token /= r.who)
  /\ UNCHANGED <<screen, above, expiries, redirecting>>

\* A user without projects is logged out, after a word.
TakeNoProjects(r) ==
  /\ r.kind = "projects" /\ ~r.expired /\ Managed[r.who] = {}
  /\ store' = NoStore
  /\ screen' = "login" /\ above' = <<>>
  /\ home' = NewHome
  /\ requests' = Orphans(requests \ {r})
  /\ crossed' = (crossed \/ store.token /= r.who)
  /\ behind' = FALSE
  /\ UNCHANGED <<expiries, redirecting>>

TakeStats(r) ==
  /\ r.kind = "stats" /\ ~r.expired
  /\ home' = IF r.gone THEN home ELSE [home EXCEPT !.stats = r.project, !.busy = FALSE]
  /\ behind' = (behind /\ (r.gone \/ r.project /= home.selected))
  /\ Heard(r)
  /\ UNCHANGED <<store, screen, above, expiries, redirecting, crossed>>

\* A connection fails, or there are no points.
FailRequest(r) ==
  /\ Failed(r)
  /\ UNCHANGED <<store, screen, above, expiries, redirecting, crossed>>

\* The points open on top of what is shown, if the project they were asked for is
\* still selected.
TakePoints(r) ==
  /\ r.kind = "points" /\ ~r.expired
  /\ home' = IF r.gone THEN home ELSE [home EXCEPT !.access = NULL]
  /\ above' = IF store.selected = r.project THEN Append(above, "points") ELSE above
  /\ Heard(r)
  /\ UNCHANGED <<store, screen, expiries, redirecting, behind, crossed>>

AnswerComes ==
  \E r \in requests :
    \/ Unauthorized(r) \/ UnauthorizedAgain(r) \/ TakeProjects(r) \/ TakeNoProjects(r)
    \/ TakeStats(r) \/ FailRequest(r) \/ TakePoints(r)

MiniHomeNext ==
  \/ \E u \in Users : SubmitLogin(u)
  \/ Relaunch \/ TokenExpires \/ LogOut \/ OpenProfile \/ GoHome \/ Show
  \/ \E p \in Projects : SelectProject(p)
  \/ AskMachine \/ Back \/ OpenModule \/ AnswerComes \/ SecondPasses
-----------------------------------------------------------------------------
MiniHomeTypeOK ==
  /\ store \in [token : Users \cup {NULL}, expired : BOOLEAN, managed : SUBSET Projects,
                selected : Projects \cup {NULL}]
  /\ screen \in {"login", "home", "profile"} /\ above \in Seq({"module", "points"})
  /\ home \in [selected : Projects \cup {NULL}, options : SUBSET Projects,
               stats : Projects \cup {NULL}, busy : BOOLEAN, loading : BOOLEAN,
               access : Projects \cup {NULL}]
  /\ requests \subseteq [kind : {"projects", "stats", "points"}, project : Projects \cup {NULL},
                         who : Users \cup {NULL}, expired : BOOLEAN, gone : BOOLEAN]
  /\ expiries \in 0..MaxExpiries /\ redirecting \in BOOLEAN /\ behind \in BOOLEAN /\ crossed \in BOOLEAN

\* At rest the home page and the pages behind it are of one project: the people
\* and devices it counts are those of the project it names, that is the project
\* stored for the other pages, and the user manages it. The exceptions: a switch
\* that found a load of counts on its way, which is not repeated, or a load that
\* failed; and an answer for an earlier login that came in under this one.
HomeIsOfOneProject ==
  /\ home.selected /= NULL /\ ~home.busy /\ ~behind => home.stats = home.selected
  /\ home.selected /= NULL /\ ~crossed =>
       store.selected = home.selected /\ store.selected \in Managed[store.token]
=============================================================================

----------------------------- MODULE ScreenBoard -----------------------------
(***************************************************************************)
(* The board of one project on the data screen (ProjectBoard with          *)
(* TodayAttendanceFeed): its panels and the list of today's punches, which *)
(* merges every answer into the rows it has. The route has no key, so that *)
(* another project comes onto the same board; the list goes when its panel *)
(* goes, and nothing but an answer that has changed makes it look again.   *)
(***************************************************************************)
EXTENDS Naturals, FiniteSets

CONSTANTS Sites,        \* projects
          Punches,      \* records, as natural numbers in the order of their times
          SiteOf, DayOf,
          FeedCap,      \* FEED_DISPLAY_CAP; the answer's own limit is above it
          MaxTurns,     \* bound: projects, tabs and pages chosen
          MaxNews       \* bound: punches that come or go, requests that fail

ASSUME ScreenBoardAssumption ==
  /\ Punches \subseteq Nat /\ IsFiniteSet(Punches)
  /\ SiteOf \in [Punches -> Sites] /\ DayOf \in [Punches -> 1..2]
  /\ FeedCap \in Nat \ {0} /\ MaxTurns \in Nat /\ MaxNews \in Nat

VARIABLES
  site,      \* projectId
  tab,       \* activeTab: the labor tab, or one of those that are not built yet
  boards,    \* projects whose board is in the cache
  broken,    \* the request for the board has failed for good
  feeds,     \* the cached answers of the feed
  asked,     \* boards and feeds on their way
  live,      \* liveList
  onServer,   \* the records the server has
  today,
  kept,      \* projects whose rows were on the list when another came onto the board
  turns, news

boardVars == <<site, tab, boards, broken, feeds, asked, live, onServer, today, kept, turns, news>>

NoFeed == [has |-> FALSE, rows |-> {}]

\* The panels, and in them the list: until the board has come there are three
\* dots instead, the first time.
PanelsOf(s, t, bs, failed) == t = "labor" /\ (s \in bs \/ failed)
Panels == PanelsOf(site, tab, boards, broken)

\* Of today, the newest first, no more than the cap.
Newest(rows) == {r \in rows : Cardinality({q \in rows : q > r}) < FeedCap}
Todays(rows) == Newest({r \in rows : DayOf[r] = today})

\* Mutant: rows that were on the list once are not looked at again.
MergedFeedAsIs(rows) == Newest(Todays(rows) \cup live)

\* Rows that are there stay if they are of today, until newer ones push them out.
MergedFeed(rows) == Todays(Todays(rows) \cup live)

\* The list as it comes with its panel, and what it becomes with another project.
Drawn(s, t, bs, failed) ==
  /\ live' = IF ~PanelsOf(s, t, bs, failed) THEN {}
             ELSE IF Panels THEN MergedFeed(feeds[s].rows) ELSE Todays(feeds[s].rows)
  /\ kept' = IF Panels /\ PanelsOf(s, t, bs, failed) /\ live /= {} THEN (kept \cup {site}) \ {s} ELSE {}

ScreenBoardInit ==
  /\ site \in Sites /\ tab = "labor"
  /\ boards = {} /\ broken = FALSE
  /\ feeds = [s \in Sites |-> NoFeed]
  /\ asked = {<<"board", site>>, <<"feed", site>>}
  /\ live = {}
  /\ onServer \in SUBSET {r \in Punches : DayOf[r] = 1}
  /\ today = 1
  /\ kept = {}
  /\ turns = 0 /\ news = 0

Turn == turns < MaxTurns /\ turns' = turns + 1 /\ UNCHANGED <<onServer, today, news>>
News == news < MaxNews /\ news' = news + 1
-----------------------------------------------------------------------------
\* ProjectSwitcher, or the browser's own buttons.
SwitchProject(s) ==
  /\ s /= site
  /\ Turn
  /\ site' = s /\ broken' = FALSE
  /\ Drawn(s, tab, boards, FALSE)
  /\ asked' = asked \cup {<<"feed", s>>} \cup (IF s \in boards THEN {} ELSE {<<"board", s>>})
  /\ UNCHANGED <<tab, boards, feeds>>

ChooseTab(t) ==
  /\ t /= tab
  /\ Turn
  /\ tab' = t
  /\ Drawn(site, t, boards, broken)
  /\ UNCHANGED <<site, boards, broken, feeds, asked>>

\* Ten minutes without an observer.
Collect(s) ==
  /\ s /= site
  /\ \/ <<"board", s>> \notin asked /\ s \in boards
        /\ boards' = boards \ {s} /\ UNCHANGED feeds
     \/ <<"feed", s>> \notin asked /\ feeds[s].has
        /\ feeds' = [feeds EXCEPT ![s] = NoFeed] /\ UNCHANGED boards
  /\ Turn
  /\ UNCHANGED <<site, tab, broken, asked, live, kept>>
-----------------------------------------------------------------------------
\* What is asked for is kept under its project, also when another is on the board by then.
TakeBoard(s) ==
  /\ <<"board", s>> \in asked
  /\ asked' = asked \ {<<"board", s>>}
  /\ boards' = boards \cup {s}
  /\ IF s = site THEN Drawn(site, tab, boards', broken) ELSE UNCHANGED <<live, kept>>
  /\ UNCHANGED <<site, tab, broken, feeds, onServer, today, turns, news>>

\* The panels are drawn without numbers; the next poll takes them away again.
BoardFails(s) ==
  /\ <<"board", s>> \in asked
  /\ News
  /\ asked' = asked \ {<<"board", s>>}
  /\ IF s = site THEN broken' = TRUE /\ Drawn(site, tab, boards, TRUE) ELSE UNCHANGED <<broken, live, kept>>
  /\ UNCHANGED <<site, tab, boards, feeds, onServer, today, turns>>

AskBoardAgain ==
  /\ broken
  /\ broken' = FALSE
  /\ asked' = asked \cup {<<"board", site>>}
  /\ Drawn(site, tab, boards, FALSE)
  /\ UNCHANGED <<site, tab, boards, feeds, onServer, today, turns, news>>

\* The feed of the project on the board is polled.
PollFeed ==
  /\ <<"feed", site>> \notin asked
  /\ asked' = asked \cup {<<"feed", site>>}
  /\ UNCHANGED <<site, tab, boards, broken, feeds, live, onServer, today, kept, turns, news>>

\* The last records of the project, of any day. An answer like the one before is
\* the same object for the list, which then does nothing.
TakeFeed(s) ==
  LET rows == {r \in onServer : SiteOf[r] = s}
  IN  /\ <<"feed", s>> \in asked
      /\ asked' = asked \ {<<"feed", s>>}
      /\ feeds' = [feeds EXCEPT ![s] = [has |-> TRUE, rows |-> rows]]
      /\ live' = IF s = site /\ Panels /\ feeds' /= feeds THEN MergedFeed(rows) ELSE live
      /\ UNCHANGED <<site, tab, boards, broken, onServer, today, kept, turns, news>>

FeedFails(s) ==
  /\ <<"feed", s>> \in asked
  /\ asked' = asked \ {<<"feed", s>>}
  /\ UNCHANGED <<site, tab, boards, broken, feeds, live, onServer, today, kept, turns, news>>

\* Without an answer the list is given a new empty one whenever the board is drawn.
DrawAgain ==
  /\ Panels /\ ~feeds[site].has
  /\ live' = MergedFeed({})
  /\ UNCHANGED <<site, tab, boards, broken, feeds, asked, onServer, today, kept, turns, news>>
-----------------------------------------------------------------------------
\* Somebody punches, or a device reports what it could not before; a record is deleted.
ChangeRecord(r) ==
  /\ DayOf[r] <= today
  /\ News
  /\ onServer' = IF r \in onServer THEN onServer \ {r} ELSE onServer \cup {r}
  /\ UNCHANGED <<site, tab, boards, broken, feeds, asked, live, today, kept, turns>>

Midnight ==
  /\ today = 1
  /\ today' = 2
  /\ UNCHANGED <<site, tab, boards, broken, feeds, asked, live, onServer, kept, turns, news>>

ScreenBoardNext ==
  \/ \E s \in Sites : SwitchProject(s) \/ Collect(s)
  \/ \E s \in Sites : TakeBoard(s) \/ BoardFails(s) \/ TakeFeed(s) \/ FeedFails(s)
  \/ \E t \in {"labor", "other"} : ChooseTab(t)
  \/ AskBoardAgain \/ PollFeed \/ DrawAgain
  \/ \E r \in Punches : ChangeRecord(r)
  \/ Midnight
-----------------------------------------------------------------------------
ScreenBoardTypeOK ==
  /\ site \in Sites /\ tab \in {"labor", "other"}
  /\ boards \subseteq Sites /\ broken \in BOOLEAN
  /\ feeds \in [Sites -> [has : BOOLEAN, rows : SUBSET Punches]]
  /\ asked \subseteq {"board", "feed"} \X Sites
  /\ live \subseteq Punches /\ onServer \subseteq Punches
  /\ today \in 1..2
  /\ kept \subseteq Sites
  /\ turns \in 0..MaxTurns /\ news \in 0..MaxNews

\* The list shows the punches of the project on the board, but for rows that
\* another project left there when both boards were in the cache; yesterday's
\* are gone when the first of today has come, though not before; and of the
\* answer nothing is missing that newer rows have not pushed out.
PunchesAreTheBoards ==
  LET answer == feeds[site].rows
  IN  Panels =>
        /\ \A r \in live : SiteOf[r] \in {site} \cup kept
        /\ (\E r \in answer : DayOf[r] = today) => \A r \in live : DayOf[r] = today
        /\ \A r \in Todays(answer) : r \in live \/ Cardinality({q \in live : q > r}) >= FeedCap
=============================================================================

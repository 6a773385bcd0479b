----------------------------- MODULE ScreenPerson -----------------------------
(***************************************************************************)
(* The details of a person on the data screen (WorkerDetailModal): the     *)
(* person, and on a tab of its own their attendance in the project and the *)
(* month that are chosen. Every choice asks again, and the answer to the   *)
(* one before may still come.                                              *)
(***************************************************************************)
EXTENDS Naturals, FiniteSets

CONSTANTS CardProjects, CardMonths,
          MaxPicks       \* bound: cards opened, tabs, projects and months chosen

ASSUME ScreenPersonAssumption ==
  CardProjects /= {} /\ CardMonths /= {} /\ MaxPicks \in Nat

VARIABLES
  card,          \* whether it is open,
  cardTab,       \* its tab,
  worker,        \* "loading", "there" or "missing"
  filterProject, filterMonth,
  calendarRow,   \* the project and the month it was asked for
  attLoading,
  inFlight,      \* on their way; live unless cancelled
  picks

cardVars == <<card, cardTab, worker, filterProject, filterMonth, calendarRow, attLoading, inFlight, picks>>

NoRow == <<>>
Worker == <<"worker">>

ScreenPersonInit ==
  /\ card = FALSE /\ cardTab = "history" /\ worker = "missing"
  /\ filterProject = CHOOSE p \in CardProjects : TRUE
  /\ filterMonth = CHOOSE m \in CardMonths : TRUE
  /\ calendarRow = NoRow /\ attLoading = FALSE
  /\ inFlight = {}
  /\ picks = 0

Pick == picks < MaxPicks /\ picks' = picks + 1
Request(of) == [nth |-> picks', of |-> of, live |-> TRUE]
Cancelled == {[r EXCEPT !.live = FALSE] : r \in inFlight}

\* The project is that of the board, the month this one.
OpenCard(p) ==
  /\ ~card
  /\ Pick
  /\ card' = TRUE /\ cardTab' = "history" /\ worker' = "loading"
  /\ filterProject' = p /\ filterMonth' = CHOOSE m \in CardMonths : TRUE
  /\ calendarRow' = NoRow /\ attLoading' = FALSE
  /\ inFlight' = inFlight \cup {Request(Worker)}

CloseCard ==
  /\ card
  /\ card' = FALSE
  /\ inFlight' = Cancelled
  /\ UNCHANGED <<cardTab, worker, filterProject, filterMonth, calendarRow, attLoading, picks>>

\* The effect of a choice: what was asked for before is cancelled, and on the
\* tab the attendance is asked for again.
Ask(t, p, m) ==
  /\ card /\ worker = "there"
  /\ Pick
  /\ cardTab' = t /\ filterProject' = p /\ filterMonth' = m
  /\ inFlight' = Cancelled \cup (IF t = "attendance" THEN {Request(<<p, m>>)} ELSE {})
  /\ attLoading' = (attLoading \/ t = "attendance")
  /\ UNCHANGED <<card, worker, calendarRow>>

ChooseCardTab(t) == t /= cardTab /\ Ask(t, filterProject, filterMonth)
ChooseProject(p) == cardTab = "attendance" /\ p /= filterProject /\ Ask(cardTab, p, filterMonth)
ChooseMonth(m) == cardTab = "attendance" /\ m /= filterMonth /\ Ask(cardTab, filterProject, m)

TakeWorker(r, found) ==
  /\ r.of = Worker
  /\ worker' = IF r.live THEN found ELSE worker
  /\ inFlight' = inFlight \ {r}
  /\ UNCHANGED <<card, cardTab, filterProject, filterMonth, calendarRow, attLoading, picks>>

\* Mutant: an answer to an earlier choice is taken.
TakeAnyCalendar(r, found) ==
  /\ r.of /= Worker
  /\ calendarRow' = IF found THEN r.of ELSE NoRow
  /\ attLoading' = FALSE
  /\ inFlight' = inFlight \ {r}
  /\ UNCHANGED <<card, cardTab, worker, filterProject, filterMonth, picks>>

\* The row, or none: there is none, or the request has failed.
TakeCardCalendar(r, found) ==
  /\ r.of /= Worker
  /\ IF r.live THEN calendarRow' = (IF found THEN r.of ELSE NoRow) /\ attLoading' = FALSE
     ELSE UNCHANGED <<calendarRow, attLoading>>
  /\ inFlight' = inFlight \ {r}
  /\ UNCHANGED <<card, cardTab, worker, filterProject, filterMonth, picks>>

ScreenPersonNext ==
  \/ \E p \in CardProjects : OpenCard(p) \/ ChooseProject(p)
  \/ CloseCard
  \/ \E t \in {"history", "attendance"} : ChooseCardTab(t)
  \/ \E m \in CardMonths : ChooseMonth(m)
  \/ \E r \in inFlight : (\E found \in {"there", "missing"} : TakeWorker(r, found))
                         \/ (\E found \in BOOLEAN : TakeCardCalendar(r, found))
-----------------------------------------------------------------------------
ScreenPersonTypeOK ==
  /\ card \in BOOLEAN /\ cardTab \in {"history", "attendance"}
  /\ worker \in {"loading", "there", "missing"}
  /\ filterProject \in CardProjects /\ filterMonth \in CardMonths
  /\ calendarRow \in (CardProjects \X CardMonths) \cup {NoRow} /\ attLoading \in BOOLEAN
  /\ \A r \in inFlight : r.nth \in 1..MaxPicks /\ r.live \in BOOLEAN
  /\ picks \in 0..MaxPicks

\* The attendance on the card is of the project and the month that are chosen, or
\* is being asked for: no answer to an earlier choice is shown, and a card that
\* says it loads does, also when its tab was left and opened again.
CardIsOfTheChoice ==
  card /\ cardTab = "attendance" =>
    IF attLoading THEN \E r \in inFlight : r.live /\ r.of = <<filterProject, filterMonth>>
    ELSE calendarRow \in {NoRow, <<filterProject, filterMonth>>}
=============================================================================

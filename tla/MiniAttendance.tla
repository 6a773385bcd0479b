---------------------------- MODULE MiniAttendance ----------------------------
(***************************************************************************)
(* The attendance page of the mini program (pages/attendance): one date is *)
(* active, the records of the dates seen and the calendars of their months *)
(* are kept on the page, and every answer comes back after the date, or    *)
(* the person whose details are open, may have changed.                    *)
(***************************************************************************)
EXTENDS Naturals, FiniteSets

CONSTANTS Dates, Months,
          MonthOf,       \* the month of each date
          People,
          NONE,
          MaxTouches     \* bound: dates chosen and people opened

ASSUME MiniAttendanceAssumption ==
  /\ MonthOf \in [Dates -> Months]
  /\ NONE \notin Dates \cup Months \cup People
  /\ MaxTouches \in Nat

VARIABLES
  active,     \* activeDateValue
  stage,      \* "stats" until the counts of the first date have come, then "data"
  shown,      \* the date whose records the list shows
  summary,    \* the date and month the list's times were taken from
  stats,      \* the date the counts are of
  days,       \* dailyRecordsByDate: the date of the records kept for each date
  months,     \* calendarRowsByMonth
  detail,     \* the open details: the person, and whose records and calendar they hold
  calls,      \* requests on their way
  overtaken,  \* the date was changed under the load of everything
  touches

attendanceVars == <<active, stage, shown, summary, stats, days, months, detail, calls, overtaken, touches>>

\* records is the date of the records a call brings, or NONE for what it must ask for.
Call(kind, date, who, records) == [kind |-> kind, date |-> date, who |-> who, records |-> records]

Shut == [visible |-> FALSE, who |-> NONE, records |-> NONE, calendar |-> NONE]

\* onLoad asks for the counts first.
MiniAttendanceInit ==
  /\ active \in Dates
  /\ stage = "stats"
  /\ shown = NONE /\ summary = NONE /\ stats = NONE
  /\ days = [d \in Dates |-> NONE]
  /\ months = {}
  /\ detail = Shut
  /\ calls = {Call("stats", active, NONE, NONE)}
  /\ overtaken = FALSE
  /\ touches = 0

Touch == touches < MaxTouches /\ touches' = touches + 1

\* What a list of records is drawn from: its times come from the calendar of
\* the month, for the date.
DrawList(records, date) == shown' = records /\ summary' = date

\* setDate: the records and calendar that are kept are shown, or asked for;
\* the counts always are. Nothing but the counts is before loadData.
SetDate(d) ==
  /\ Touch
  /\ active' = d
  /\ detail' = [detail EXCEPT !.visible = FALSE]
  /\ LET asked == {Call("stats", d, NONE, NONE)}
         kept == days[d] /= NONE /\ MonthOf[d] \in months
     IN  /\ IF stage = "data" /\ kept THEN DrawList(days[d], d) ELSE UNCHANGED <<shown, summary>>
         /\ calls' = calls \cup asked \cup
              (IF stage = "stats" \/ kept THEN {} ELSE {Call("day", d, NONE, days[d])})
  /\ overtaken' = (overtaken \/ \E c \in calls : c.kind = "all" /\ c.date /= d)
  /\ UNCHANGED <<stage, stats, days, months>>

\* openWorkerAttendance: the records of the list, until those of the person come.
OpenDetail(w) ==
  /\ Touch
  /\ shown /= NONE
  /\ ~detail.visible
  /\ detail' = [visible |-> TRUE, who |-> w, records |-> w,
                calendar |-> IF MonthOf[active] \in months THEN w ELSE NONE]
  /\ calls' = calls \cup {Call("person", active, w, NONE)} \cup
       (IF MonthOf[active] \in months THEN {} ELSE {Call("calendar", active, w, NONE)})
  /\ UNCHANGED <<active, stage, shown, summary, stats, days, months, overtaken>>

CloseDetail ==
  /\ detail.visible
  /\ detail' = Shut
  /\ UNCHANGED <<active, stage, shown, summary, stats, days, months, calls, overtaken, touches>>
-----------------------------------------------------------------------------
Answered(c) == calls' = calls \ {c}

\* loadStats; the first one is followed by loadData, also when it fails.
TakeCounts(c, ok) ==
  /\ c.kind = "stats"
  /\ stats' = IF ok THEN c.date ELSE shown
  /\ IF stage = "stats"
       THEN stage' = "data" /\ calls' = (calls \ {c}) \cup {Call("all", active, NONE, NONE)}
       ELSE Answered(c) /\ UNCHANGED stage
  /\ UNCHANGED <<active, shown, summary, days, months, detail, overtaken, touches>>

\* loadData files its records under the date that is active when they come.
TakeAll(c) ==
  /\ c.kind = "all"
  /\ DrawList(c.date, active)
  /\ days' = [days EXCEPT ![active] = c.date]
  /\ months' = months \cup {MonthOf[c.date]}
  /\ Answered(c)
  /\ UNCHANGED <<active, stage, stats, detail, overtaken, touches>>

\* Mutant: as loadData does.
TakeDayUnderActive(c) ==
  /\ c.kind = "day"
  /\ DrawList(c.date, c.date)
  /\ days' = [days EXCEPT ![active] = c.date]
  /\ months' = months \cup {MonthOf[c.date]}
  /\ Answered(c)
  /\ UNCHANGED <<active, stage, stats, detail, overtaken, touches>>

\* applyDay keeps the date of its call; the records that were kept stay.
TakeDay(c) ==
  /\ c.kind = "day"
  /\ LET records == IF c.records = NONE THEN c.date ELSE c.records
     IN  /\ DrawList(records, c.date)
         /\ days' = [days EXCEPT ![c.date] = records]
  /\ months' = months \cup {MonthOf[c.date]}
  /\ Answered(c)
  /\ UNCHANGED <<active, stage, stats, detail, overtaken, touches>>

\* loadWorkerDayRecords: heard only by the details of the same person.
TakePerson(c) ==
  /\ c.kind = "person"
  /\ detail' = IF detail.who = c.who THEN [detail EXCEPT !.records = c.who] ELSE detail
  /\ Answered(c)
  /\ UNCHANGED <<active, stage, shown, summary, stats, days, months, overtaken, touches>>

\* loadWorkerMonthCalendar: heard by whatever is open.
TakeCalendar(c) ==
  /\ c.kind = "calendar"
  /\ months' = months \cup {MonthOf[c.date]}
  /\ summary' = active
  /\ detail' = [detail EXCEPT !.calendar = c.who]
  /\ Answered(c)
  /\ UNCHANGED <<active, stage, shown, stats, days, overtaken, touches>>

FailCall(c) ==
  /\ c.kind /= "stats"
  /\ Answered(c)
  /\ UNCHANGED <<active, stage, shown, summary, stats, days, months, detail, overtaken, touches>>

MiniAttendanceNext ==
  \/ \E d \in Dates : SetDate(d)
  \/ \E w \in People : OpenDetail(w)
  \/ CloseDetail
  \/ \E c \in calls :
       \/ \E ok \in BOOLEAN : TakeCounts(c, ok)
       \/ TakeAll(c) \/ TakeDay(c) \/ TakePerson(c) \/ TakeCalendar(c) \/ FailCall(c)
-----------------------------------------------------------------------------
MiniAttendanceTypeOK ==
  /\ active \in Dates
  /\ stage \in {"stats", "data"}
  /\ {shown, summary, stats} \subseteq Dates \cup {NONE}
  /\ days \in [Dates -> Dates \cup {NONE}]
  /\ months \subseteq Months
  /\ detail \in [visible : BOOLEAN, who : People \cup {NONE}, records : People \cup {NONE},
                 calendar : People \cup {NONE}]
  /\ calls \subseteq [kind : {"stats", "all", "day", "person", "calendar"}, date : Dates,
                      who : People \cup {NONE}, records : Dates \cup {NONE}]
  /\ overtaken \in BOOLEAN
  /\ touches \in 0..MaxTouches

\* However the answers for several dates and people cross, what the page keeps
\* of a date are that date's records, and the records in somebody's details
\* are theirs: a person is not shown as present on another date's records. The
\* exception is the first load, which files what it asked for before under the
\* date that is active when it comes.
RecordsAreFiledRight ==
  /\ ~overtaken => \A d \in Dates : days[d] \in {NONE, d}
  /\ detail.visible => detail.records = detail.who
=============================================================================

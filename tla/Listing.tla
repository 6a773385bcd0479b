------------------------------- MODULE Listing -------------------------------
(***************************************************************************)
(* The list of a page of the web console: the rows of a filter, page by    *)
(* page, asked for and kept as query-client.ts does, while rows come and   *)
(* go. How the pages differ is a record (Lists has those there are). The   *)
(* answers of two pages of one list may be of different ages, so that the  *)
(* number of the page and the rows there are do not always agree. A page   *)
(* of the list is one row long here. The age of a single answer is         *)
(* QueryCache's.                                                           *)
(***************************************************************************)
EXTENDS Lists, Order, SequencesExt

CONSTANTS ListRows,      \* identifiers; a list is in their order
          ListFilters,
          ListMatches,   \* the rows of each filter
          MaxMoves,      \* bound: filters and pages chosen
          MaxChanges     \* bound: rows that come or go

ASSUME ListingAssumption ==
  /\ ListRows \subseteq Nat /\ IsFiniteSet(ListRows)
  /\ ListMatches \in [ListFilters -> SUBSET ListRows]
  /\ MaxMoves \in Nat /\ MaxChanges \in Nat

VARIABLES
  listed,    \* what kind of list it is
  there,     \* the rows there are
  view,      \* the filter and the page that are chosen
  before,    \* the view whose rows were shown last
  answers,   \* the cache: what was last answered for each view
  asking,    \* views that are being asked for
  gone,      \* a row has gone, or a page beyond the first was kept, or asked for, for
             \* another filter
  moves, changes

listingVars == <<listed, there, view, before, answers, asking, gone, moves, changes>>

Views == [filter : ListFilters, page : 1..Cardinality(ListRows)]
Unasked == [has |-> FALSE, rows |-> <<>>, total |-> 0, due |-> FALSE]

\* A list that is cut into pages here, or not at all, is asked for whole.
Key(v) == IF listed.paging = "server" THEN v ELSE [v EXCEPT !.page = 1]
Need(v) == IF ~answers[Key(v)].has \/ answers[Key(v)].due THEN {Key(v)} ELSE {}

\* What is on the screen, and how many pages that makes. Some pages keep the
\* rows of the last view while those of the next are asked for.
ShownAt(v, was, pending) ==
  IF listed.keeps /\ ~was[Key(v)].has /\ Key(v) \in pending THEN was[Key(before)] ELSE was[Key(v)]
Shown == ShownAt(view, answers, asking)
PageCount(a) == IF a.total = 0 THEN 1 ELSE a.total

\* Some pages turn to the last page there is when theirs is beyond it; where
\* the list is asked for page by page, only if it has rows at all.
Settled(v, was) ==
  LET settle[p \in 1..Cardinality(ListRows)] ==
        LET a == ShownAt([v EXCEPT !.page = p], was, {Key([v EXCEPT !.page = p])})
        IN  IF p <= PageCount(a) \/ (listed.paging = "server" /\ a.total = 0) THEN p ELSE settle[PageCount(a)]
  IN  IF listed.clamps = "last" THEN [v EXCEPT !.page = settle[v.page]] ELSE v

ListingInit ==
  /\ listed \in ListKinds
  /\ there \in SUBSET ListRows
  /\ view \in {v \in Views : v.page = 1}
  /\ before = view
  /\ answers = [v \in Views |-> Unasked]
  /\ asking = {Key(view)}
  /\ gone = FALSE
  /\ moves = 0 /\ changes = 0
-----------------------------------------------------------------------------
Choose(v, passing) ==
  /\ moves < MaxMoves /\ moves' = moves + 1
  /\ before' = IF answers[Key(view)].has THEN view ELSE before
  /\ view' = Settled(v, answers)
  /\ asking' = asking \cup Need(view') \cup UNION {Need(u) : u \in passing}
  /\ UNCHANGED <<listed, there, answers, changes>>

\* Mutant: the page stays the same under another filter.
SelectFilterOnly(f) ==
  /\ f /= view.filter
  /\ Choose([view EXCEPT !.filter = f], {})
  /\ gone' = gone

\* Another filter is shown from its first page on, on most pages; some ask for
\* the page they are on before they turn back.
SelectFilter(f) ==
  LET same == [view EXCEPT !.filter = f]
  IN  /\ f /= view.filter
      /\ Choose(IF listed.resets = "no" THEN same ELSE [same EXCEPT !.page = 1],
                IF listed.resets = "after a request" THEN {same} ELSE {})
      /\ gone' = (gone \/ (listed.resets /= "at once" /\ view.page /= 1))

\* The buttons of the pager count with the rows that are shown; some are
\* disabled while their first rows, or any, are asked for.
TurnPage(p) ==
  /\ listed.paging /= "none"
  /\ CASE listed.waits = "no"    -> TRUE
       [] listed.waits = "first" -> answers[Key(view)].has \/ Key(view) \notin asking
       [] listed.waits = "every" -> Key(view) \notin asking
  /\ \/ p = view.page - 1 /\ p >= 1
     \/ p = view.page + 1 /\ p <= PageCount(Shown)
  /\ Choose([view EXCEPT !.page = p], {})
  /\ UNCHANGED gone

\* The rows are read and shown. The tables that cut their rows themselves go
\* back to the first page when the rows are others.
TakeAnswer(v) ==
  LET found == InOrder(there \cap ListMatches[v.filter])
      rows == IF listed.paging = "server" THEN Slice(found, v.page) ELSE found
      back == listed.clamps = "first" /\ v = Key(view) /\ rows /= answers[v].rows
  IN  /\ v \in asking
      /\ answers' = [answers EXCEPT ![v] = [has |-> TRUE, rows |-> rows, total |-> Len(found), due |-> FALSE]]
      /\ view' = IF back THEN [view EXCEPT !.page = 1] ELSE Settled(view, answers')
      /\ asking' = (asking \ {v}) \cup (IF view' = view THEN {} ELSE Need(view'))
      /\ UNCHANGED <<listed, there, before, gone, moves, changes>>

\* The list is asked for again when the user comes back.
AskAgain ==
  /\ asking = {} /\ Need(view) /= {}
  /\ asking' = Need(view)
  /\ UNCHANGED <<listed, there, view, before, answers, gone, moves, changes>>

AnswerFails(v) ==
  /\ v \in asking
  /\ asking' = asking \ {v}
  /\ UNCHANGED <<listed, there, view, before, answers, gone, moves, changes>>

\* staleTime passes.
GrowOld(v) ==
  /\ answers[v].has /\ ~answers[v].due
  /\ answers' = [answers EXCEPT ![v].due = TRUE]
  /\ UNCHANGED <<listed, there, view, before, asking, gone, moves, changes>>
-----------------------------------------------------------------------------
Marked == [v \in Views |-> [answers[v] EXCEPT !.due = answers[v].has]]

\* One row after a confirmation, or all that are ticked; ticks survive a
\* change of the page, so that any rows may be ticked. The lists are marked.
RemoveRows(rows) ==
  /\ rows /= {} /\ rows \subseteq there
  /\ \/ listed.removes = "one" /\ \E r \in ToSet(Shown.rows) : rows = {r}
     \/ listed.removes = "ticked"
  /\ changes < MaxChanges /\ changes' = changes + 1
  /\ there' = there \ rows
  /\ answers' = Marked
  /\ asking' = asking \cup {Key(view)}
  /\ gone' = TRUE
  /\ UNCHANGED <<listed, view, before, moves>>

\* Somebody else removes or adds a row.
ChangeThere(r) ==
  /\ changes < MaxChanges /\ changes' = changes + 1
  /\ there' = IF r \in there THEN there \ {r} ELSE there \cup {r}
  /\ gone' = (gone \/ r \in there)
  /\ UNCHANGED <<listed, view, before, answers, asking, moves>>

ListingNext ==
  \/ \E f \in ListFilters : SelectFilter(f)
  \/ \E p \in 1..Cardinality(ListRows) : TurnPage(p)
  \/ \E v \in Views : TakeAnswer(v) \/ AnswerFails(v) \/ GrowOld(v)
  \/ AskAgain
  \/ \E rows \in SUBSET ListRows : RemoveRows(rows)
  \/ \E r \in ListRows : ChangeThere(r)
-----------------------------------------------------------------------------
Answers == [has : BOOLEAN, rows : Seq(ListRows), total : 0..Cardinality(ListRows), due : BOOLEAN]

ListingTypeOK ==
  /\ listed \in ListKinds
  /\ there \subseteq ListRows
  /\ view \in Views /\ before \in Views
  /\ answers \in [Views -> Answers]
  /\ asking \subseteq Views
  /\ gone \in BOOLEAN
  /\ moves \in 0..MaxMoves /\ changes \in 0..MaxChanges

\* What the list shows of its pages: cut here, or as it was answered.
RowsOnScreen ==
  LET a == answers[Key(view)]
  IN  IF listed.paging = "here" THEN Slice(a.rows, view.page) ELSE a.rows

\* A list at rest whose filter has rows shows some: the number of its page is
\* not beyond them, however the answers of several pages and filters crossed
\* while rows went. The exceptions are pages that do not turn back by
\* themselves when the rows of theirs have gone.
ListShowsRows ==
  LET a == answers[Key(view)]
  IN  asking = {} /\ a.has /\ ~a.due /\ a.total > 0 /\ (listed.clamps = "no" => ~gone) =>
        RowsOnScreen /= <<>>
=============================================================================

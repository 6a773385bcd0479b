------------------------------- MODULE MiniList -------------------------------
(***************************************************************************)
(* The list pages of the mini program: units, teams and devices            *)
(* (utils/module-page.js) and workers (pages/workers/workers.js). A page   *)
(* loads the first rows of its filter, appends more when the user scrolls, *)
(* and loads again after it has changed a row. Its flags loading and       *)
(* loadingMore are the only order between these requests, and either   *)
(* answer clears both. What is typed into the search box is part of the    *)
(* next request, whether or not it was searched for. A row is edited as    *)
(* the list shows it, and saved whole. A page of the list is one row long  *)
(* here.                                                                   *)
(***************************************************************************)
EXTENDS Order, SequencesExt

CONSTANTS Rows,         \* identifiers; the list is in their order
          Tabs, Words,  \* what can be chosen, and searched for,
          ByTab, ByWord,    \* and the rows each of them asks for
          MaxLoads,     \* bound: requests for rows on their way at a time
          MaxSaves,     \* bound: changes this page makes to a row
          MaxTaps       \* bound: what the user does

ASSUME MiniListAssumption ==
  /\ Rows \subseteq Nat /\ IsFiniteSet(Rows)
  /\ ByTab \in [Tabs -> SUBSET Rows] /\ ByWord \in [Words -> SUBSET Rows]
  /\ MaxLoads \in Nat \ {0} /\ MaxSaves \in Nat /\ MaxTaps \in Nat

\* How the kinds of page differ: whether a request carries the tab (sends),
\* whether the rows of another tab are hidden when they come (client), and
\* whether rows that were changed are loaded whatever else is loading, before
\* the form closes (always).
ModulePage == [sends |-> TRUE, client |-> TRUE, always |-> TRUE]
DevicePage == [sends |-> FALSE, client |-> TRUE, always |-> TRUE]
WorkersPage == [sends |-> TRUE, client |-> FALSE, always |-> FALSE]
ListPages == {ModulePage, DevicePage, WorkersPage}

VARIABLES
  kind,      \* which of them
  here,      \* the server: the rows there are,
  ver,       \* and how often each was saved
  list,      \* the rows the page has, as they were read, and whether there are more
  filter,
  loading, loadingMore,   \* the flags
  loads,     \* requests for rows
  form,      \* the form: its row, the version it was filled from, saving
  write,     \* the change on its way
  told,      \* the latest version of each row this page was told it had saved
  stale,     \* a load was skipped, failed, or crossed another
  typed,     \* the word was changed after the first rows were asked for
  taps       \* bounds what the user does

listVars == <<kind, here, ver, list, filter, loading, loadingMore, loads, form, write, told, stale, typed, taps>>

Filters == [tab : Tabs, word : Words]

\* The rows that a request with this filter asks for, and those it stands for.
AskedRows(f) == ByWord[f.word] \cap IF kind.sends THEN ByTab[f.tab] ELSE Rows
WantedRows(f) == ByWord[f.word] \cap ByTab[f.tab]

Load(why, f, page) == [why |-> why, filter |-> f, page |-> page, read |-> FALSE, rows |-> <<>>, total |-> 0]

NoForm == [open |-> FALSE, id |-> 0, ver |-> 0, doubtful |-> FALSE]
NoWrite == [stage |-> "none", id |-> 0, remove |-> FALSE]

\* The first request carries what was chosen and typed while the page fetched
\* the names that it needs.
MiniListInit ==
  /\ kind \in ListPages
  /\ here = Rows
  /\ ver = [r \in Rows |-> 0]
  /\ list = [rows |-> <<>>, more |-> FALSE]
  /\ filter \in Filters
  /\ loading = TRUE /\ loadingMore = FALSE
  /\ loads = {Load("reload", filter, 1)}
  /\ form = NoForm
  /\ write = NoWrite
  /\ told = ver
  /\ stale = FALSE /\ typed = FALSE
  /\ taps = 0

\* The places of the rows that are shown: filterRecords, on the module pages.
Displayed == {i \in DOMAIN list.rows : kind.client => list.rows[i].id \in ByTab[filter.tab]}
-----------------------------------------------------------------------------
(* Loading. *)

\* Mutant: the rows are not loaded again while a page of more is on its way.
ReloadUnlessMore(f) ==
  IF loading \/ loadingMore
    THEN UNCHANGED <<loading, loads, list, stale, typed>>
    ELSE /\ loading' = TRUE
         /\ list' = [list EXCEPT !.more = FALSE]
         /\ loads' = loads \cup {Load("reload", f, 1)}
         /\ stale' = (loads /= {}) /\ typed' = FALSE

\* reloadRecords, reloadWorkers: nothing happens while one is on its way.
Reload(f) ==
  IF loading
    THEN stale' = TRUE /\ UNCHANGED <<loading, loads, list, typed>>
    ELSE /\ loading' = TRUE
         /\ list' = [list EXCEPT !.more = FALSE]
         /\ loads' = loads \cup {Load("reload", f, 1)}
         /\ stale' = (loads /= {}) /\ typed' = FALSE

Tap == taps < MaxTaps /\ taps' = taps + 1
Bounded == Cardinality(loads') <= MaxLoads

\* setFilter, and the pickers of the workers.
SetFilter(t) ==
  /\ Tap
  /\ t /= filter.tab
  /\ filter' = [filter EXCEPT !.tab = t]
  /\ Reload(filter') /\ Bounded
  /\ UNCHANGED <<kind, here, ver, loadingMore, form, write, told>>

\* onKeywordInput: every request from now on carries the word, and none is made.
TypeKeyword(w) ==
  /\ Tap
  /\ w /= filter.word
  /\ filter' = [filter EXCEPT !.word = w]
  /\ typed' = TRUE
  /\ UNCHANGED <<kind, here, ver, list, loading, loadingMore, loads, form, write, told, stale>>

\* submitSearch.
Search ==
  /\ Tap
  /\ ~loading
  /\ Reload(filter) /\ Bounded
  /\ UNCHANGED <<kind, here, ver, filter, loadingMore, form, write, told>>

OnReachBottom ==
  /\ Tap
  /\ ~loading /\ ~loadingMore /\ list.more
  /\ kind = WorkersPage => ~form.open
  /\ loadingMore' = TRUE
  /\ loads' = loads \cup {Load("more", filter, Len(list.rows) + 1)} /\ Bounded
  /\ stale' = (stale \/ loads /= {})
  /\ UNCHANGED <<kind, here, ver, list, filter, loading, form, write, told, typed>>

\* The server counts the rows of the filter the request carries and reads a page of
\* them: two statements, between which only this page's own deletion could come, and
\* that is followed by another load.
Read(q) ==
  LET found == InOrder(here \cap AskedRows(q.filter))
  IN  /\ ~q.read
      /\ loads' = (loads \ {q}) \cup
           {[q EXCEPT !.read = TRUE, !.total = Len(found),
                      !.rows = Slice([i \in DOMAIN found |-> [id |-> found[i], ver |-> ver[found[i]]]], q.page)]}
      /\ UNCHANGED <<kind, here, ver, list, filter, loading, loadingMore, form, write, told, stale, typed, taps>>

Apply(q) ==
  LET rows == IF q.why = "more" THEN list.rows \o q.rows ELSE q.rows
  IN  list' = [rows |-> rows, more |-> Len(rows) < q.total]

\* Either answer clears both flags. The load after a change clears none, and
\* closes the form of a module page when it was a save's.
Receive(q) ==
  /\ q.read
  /\ Apply(q)
  /\ loads' = loads \ {q}
  /\ IF q.why = "after"
       THEN /\ form' = IF write.remove THEN form ELSE NoForm
            /\ write' = NoWrite
            /\ UNCHANGED <<loading, loadingMore>>
       ELSE /\ loading' = FALSE /\ loadingMore' = FALSE
            /\ UNCHANGED <<form, write>>
  /\ UNCHANGED <<kind, here, ver, filter, told, stale, typed, taps>>

\* The rows stay as they were. A save whose load fails counts as failed.
FailLoad(q) ==
  /\ loads' = loads \ {q}
  /\ IF q.why = "after"
       THEN write' = NoWrite /\ UNCHANGED <<loading, loadingMore>>
       ELSE loading' = FALSE /\ loadingMore' = FALSE /\ UNCHANGED write
  /\ stale' = TRUE
  /\ UNCHANGED <<kind, here, ver, list, filter, form, told, typed, taps>>
-----------------------------------------------------------------------------
(* Changing a row. *)

\* openEdit, openEditWorker: the form is filled from the row of the list.
OpenEdit(i) ==
  /\ Tap
  /\ ~form.open
  /\ form' = [open |-> TRUE, id |-> list.rows[i].id, ver |-> list.rows[i].ver,
              doubtful |-> stale \/ loads /= {} \/ write.stage /= "none"]
  /\ UNCHANGED <<kind, here, ver, list, filter, loading, loadingMore, loads, write, told, stale, typed>>

\* The workers' form stays open while it is saved.
CloseForm ==
  /\ form.open
  /\ kind = WorkersPage => write.stage = "none" \/ write.remove
  /\ form' = NoForm
  /\ UNCHANGED <<kind, here, ver, list, filter, loading, loadingMore, loads, write, told, stale, typed, taps>>

\* saveRecord, submitEditWorker: one at a time.
Save ==
  /\ Tap
  /\ form.open
  /\ write = NoWrite
  /\ write' = [stage |-> "sent", id |-> form.id, remove |-> FALSE]
  /\ UNCHANGED <<kind, here, ver, list, filter, loading, loadingMore, loads, form, told, stale, typed>>

\* deleteRecord, deleteWorker, and retireWorker, whose row leaves this list;
\* each after a confirmation.
Delete(i) ==
  /\ Tap
  /\ ~form.open
  /\ write = NoWrite
  /\ write' = [stage |-> "sent", id |-> list.rows[i].id, remove |-> TRUE]
  /\ UNCHANGED <<kind, here, ver, list, filter, loading, loadingMore, loads, form, told, stale, typed>>

\* A row that has gone is refused.
CarryWrite ==
  /\ write.stage = "sent"
  /\ IF write.id \in here
       THEN /\ write' = [write EXCEPT !.stage = "done"]
            /\ IF write.remove
                 THEN here' = here \ {write.id} /\ UNCHANGED ver
                 ELSE /\ ver[write.id] < MaxSaves
                      /\ ver' = [ver EXCEPT ![write.id] = @ + 1]
                      /\ UNCHANGED here
       ELSE write' = [write EXCEPT !.stage = "refused"] /\ UNCHANGED <<here, ver>>
  /\ UNCHANGED <<kind, list, filter, loading, loadingMore, loads, form, told, stale, typed, taps>>

\* Mutant: the workers are not loaded again after a save.
AfterWriteUnread ==
  /\ write.stage = "done"
  /\ told' = IF write.remove THEN told ELSE [told EXCEPT ![write.id] = ver[write.id]]
  /\ write' = NoWrite /\ form' = IF write.remove THEN form ELSE NoForm
  /\ UNCHANGED <<kind, here, ver, list, filter, loading, loadingMore, loads, stale, typed, taps>>

\* The page is told. A module page loads its first rows and then closes the
\* form, which shows what was saved; the workers close it, and load unless they
\* are loading.
AfterWrite ==
  /\ write.stage = "done"
  /\ told' = IF write.remove THEN told ELSE [told EXCEPT ![write.id] = ver[write.id]]
  /\ IF kind.always
       THEN /\ loads' = loads \cup {Load("after", filter, 1)}
            /\ write' = [write EXCEPT !.stage = "loading"]
            /\ stale' = (loads /= {}) /\ typed' = FALSE
            /\ form' = IF form.id = write.id THEN [form EXCEPT !.ver = told'[write.id]] ELSE form
            /\ UNCHANGED <<loading, list>>
       ELSE /\ form' = IF write.remove THEN form ELSE NoForm
            /\ write' = NoWrite
            /\ Reload(filter)
  /\ UNCHANGED <<kind, here, ver, filter, loadingMore, taps>>

\* Refused, or the answer is lost: the form stays open.
WriteFails ==
  /\ write.stage \in {"sent", "done", "refused"}
  /\ write' = NoWrite
  /\ stale' = TRUE
  /\ UNCHANGED <<kind, here, ver, list, filter, loading, loadingMore, loads, form, told, typed, taps>>

MiniListNext ==
  \/ \E t \in Tabs : SetFilter(t)
  \/ \E w \in Words : TypeKeyword(w)
  \/ Search \/ OnReachBottom
  \/ \E q \in loads : Read(q) \/ Receive(q) \/ FailLoad(q)
  \/ \E i \in DOMAIN list.rows : OpenEdit(i) \/ Delete(i)
  \/ CloseForm \/ Save \/ CarryWrite \/ AfterWrite \/ WriteFails
-----------------------------------------------------------------------------
RowsRead == Seq([id : Rows, ver : 0..MaxSaves])

MiniListTypeOK ==
  /\ kind \in ListPages
  /\ here \subseteq Rows
  /\ ver \in [Rows -> 0..MaxSaves] /\ told \in [Rows -> 0..MaxSaves]
  /\ list.rows \in RowsRead /\ list.more \in BOOLEAN
  /\ filter \in Filters
  /\ {loading, loadingMore, stale, typed} \subseteq BOOLEAN
  /\ \A q \in loads : /\ q.why \in {"reload", "more", "after"} /\ q.filter \in Filters
                       /\ q.page \in Nat \ {0} /\ q.rows \in RowsRead
  /\ form \in [open : BOOLEAN, id : Rows \cup {0}, ver : 0..MaxSaves, doubtful : BOOLEAN]
  /\ write \in [stage : {"none", "sent", "done", "refused", "loading"}, id : Rows \cup {0}, remove : BOOLEAN]
  /\ taps \in 0..MaxTaps

Fresh == ~stale /\ loads = {} /\ write = NoWrite

\* A form that was opened on a list at rest shows every change the page was
\* told it had made to the row, so that saving it whole undoes none of them.
EditsStartFromOwnChanges ==
  form.open /\ ~form.doubtful => form.ver >= told[form.id]

\* A list at rest shows the rows of its filter, each once and, if no more are
\* to come, all of them. The exceptions are loads that crossed, were skipped
\* or failed, as the two flags do not keep the answer for an earlier filter
\* out, and a word that was typed since the first rows were asked for, as the
\* next page is then of that word.
ListIsOfItsFilter ==
  Fresh /\ ~typed =>
    LET ids == [i \in Displayed |-> list.rows[i].id]
    IN  /\ Range(ids) \subseteq here \cap WantedRows(filter)
        /\ IsInjective(ids)
        /\ ~list.more => Range(ids) = here \cap WantedRows(filter)
=============================================================================

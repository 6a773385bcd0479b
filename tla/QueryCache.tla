----------------------------- MODULE QueryCache -----------------------------
(***************************************************************************)
(* One entry of the query cache of the web console, under the defaults of  *)
(* lib/query-client.ts: fresh for a while, one retry, kept a while after   *)
(* its page is left. Entries do not touch each other, so one stands for    *)
(* all: a polled one, which any change may reach that reaches some entry   *)
(* (News), so that it does all that each of them can do. The request, the  *)
(* answer of the server and its arrival are separate steps, and so are     *)
(* those of a change: an answer may be older than a change confirmed       *)
(* before it comes.                                                        *)
(***************************************************************************)
EXTENDS ConsoleKeys, ConsoleUsers, Naturals

CONSTANT MaxWrites   \* bound: changes of the rows of the entry

ASSUME QueryCacheAssumption == MaxWrites \in Nat

VARIABLES
  version,   \* how often its rows have changed at the server
  entry,     \* the cached answer: its version, whose rights it was read with, and
             \* whether it is due again: marked, or older than staleTime
  fetch,     \* the request of the entry
  shown,     \* a page that reads the entry is mounted
  change,    \* the change being made in this console
  known      \* the latest version this console was told it had made itself

cacheVars == <<version, entry, fetch, shown, change, known>>

Versions == 0..MaxWrites

\* How a change can concern an entry: it owes it news, or marks it, or both.
News ==
  {[owes |-> Owes(m, q), marks |-> Marked(q, m)] : q \in Queries, m \in Mutations}
    \ {[owes |-> FALSE, marks |-> FALSE]}

Nothing == [has |-> FALSE, version |-> 0, whose |-> NULL, due |-> FALSE]

\* "asked", "answered" with what the server read, or "refused" for want of a
\* valid token; overtaken: a change was confirmed while it was on its way and
\* could not restart it.
Resting == [stage |-> "idle", version |-> 0, whose |-> NULL, overtaken |-> FALSE]
Asking == [Resting EXCEPT !.stage = "asked"]

Still == [stage |-> "none", version |-> 0, owes |-> FALSE, marks |-> FALSE]

CacheInit ==
  /\ version = 0
  /\ entry = Nothing
  /\ fetch = Resting
  /\ shown = FALSE
  /\ change = Still
  /\ known = 0
-----------------------------------------------------------------------------
(* The page. *)

\* A page that mounts fetches what is missing, old or marked, and joins a
\* request that is on its way.
Mount ==
  /\ ~shown
  /\ shown' = TRUE
  /\ fetch' = IF fetch.stage \in {"idle", "failed"} /\ (~entry.has \/ entry.due)
                THEN Asking ELSE fetch
  /\ UNCHANGED <<version, entry, change, known>>

\* A request goes on when its page is left.
Unmount ==
  /\ shown
  /\ shown' = FALSE
  /\ UNCHANGED <<version, entry, fetch, change, known>>

\* The interval of a polled entry.
Poll ==
  /\ shown
  /\ fetch.stage \in {"idle", "failed"}
  /\ fetch' = Asking
  /\ UNCHANGED <<version, entry, shown, change, known>>

\* staleTime passes.
GrowStale ==
  /\ entry.has /\ ~entry.due
  /\ entry' = [entry EXCEPT !.due = TRUE]
  /\ UNCHANGED <<version, fetch, shown, change, known>>

\* gcTime passes after the page was left.
Collect ==
  /\ ~shown /\ entry.has /\ fetch.stage \in {"idle", "failed"}
  /\ entry' = Nothing
  /\ UNCHANGED <<version, fetch, shown, change, known>>
-----------------------------------------------------------------------------
(* The request. who is the user whose token it carries. *)

Answer(who) ==
  /\ fetch.stage = "asked"
  /\ fetch' = [fetch EXCEPT !.stage = "answered", !.version = version, !.whose = who]
  /\ UNCHANGED <<version, entry, shown, change, known>>

Refuse ==
  /\ fetch.stage = "asked"
  /\ fetch' = [fetch EXCEPT !.stage = "refused"]
  /\ UNCHANGED <<version, entry, shown, change, known>>

\* The interceptor sends a refused request again under a new token.
AskAgain ==
  fetch' = IF fetch.stage = "refused" THEN [fetch EXCEPT !.stage = "asked"] ELSE fetch

\* The answer becomes the data, whatever was marked meanwhile.
Receive ==
  /\ fetch.stage = "answered"
  /\ entry' = [has |-> TRUE, version |-> fetch.version, whose |-> fetch.whose,
               due |-> FALSE]
  /\ fetch' = [Resting EXCEPT !.overtaken = fetch.overtaken]
  /\ UNCHANGED <<version, shown, change, known>>

\* The connection fails: it is tried once more (here any number of times), and
\* then the old data stays.
FailFetch ==
  /\ fetch.stage \in {"asked", "answered"}
  /\ \/ /\ fetch' = [Asking EXCEPT !.overtaken = fetch.overtaken]
        /\ UNCHANGED entry
     \/ /\ fetch' = [Resting EXCEPT !.stage = "failed"]
        /\ entry' = [entry EXCEPT !.due = entry.has]
  /\ UNCHANGED <<version, shown, change, known>>

\* A failed entry is fetched again when the user asks, or comes back.
Retry ==
  /\ fetch.stage = "failed" /\ shown
  /\ fetch' = Asking
  /\ UNCHANGED <<version, entry, shown, change, known>>
-----------------------------------------------------------------------------
(* Changes. *)

\* Somebody else, or a worker of the server, changes the rows.
ChangeElsewhere ==
  /\ version < MaxWrites
  /\ version' = version + 1
  /\ UNCHANGED <<entry, fetch, shown, change, known>>

Submit(n) ==
  /\ n \in News
  /\ change.stage = "none"
  /\ change' = [stage |-> "sent", version |-> 0, owes |-> n.owes, marks |-> n.marks]
  /\ UNCHANGED <<version, entry, fetch, shown, known>>

\* The server carries the change out.
Apply ==
  /\ change.stage = "sent"
  /\ IF change.owes
       THEN /\ version < MaxWrites
            /\ version' = version + 1
       ELSE UNCHANGED version
  /\ change' = [change EXCEPT !.stage = "applied", !.version = version']
  /\ UNCHANGED <<entry, fetch, shown, known>>

\* The request or its answer is lost: the console reports an error and marks
\* nothing, whether the change was carried out or not.
LoseChange ==
  /\ change.stage \in {"sent", "applied"}
  /\ change' = Still
  /\ UNCHANGED <<version, entry, fetch, shown, known>>

\* invalidateQueries: the entry is marked, and fetched again if a page shows
\* it. A request that is on its way is cancelled and sent again, unless the
\* entry has no data yet: then its old answer is waited for.
Invalidated ==
  /\ entry' = [entry EXCEPT !.due = entry.has]
  /\ fetch' = CASE shown /\ (entry.has \/ fetch.stage \in {"idle", "failed"}) -> Asking
                [] fetch.stage \notin {"idle", "failed"} /\ ~(shown /\ entry.has)
                     -> [fetch EXCEPT !.overtaken = TRUE]
                [] OTHER -> fetch

\* onSuccess.
Confirm ==
  /\ change.stage = "applied"
  /\ known' = IF change.owes /\ known < change.version THEN change.version ELSE known
  /\ change' = Still
  /\ IF change.marks THEN Invalidated ELSE UNCHANGED <<entry, fetch>>
  /\ UNCHANGED <<version, shown>>

\* queryClient.clear(): the entry and its request are gone; what this console
\* knew belongs to the user who leaves.
Clear ==
  /\ entry' = Nothing
  /\ fetch' = Resting
  /\ shown' = FALSE
  /\ known' = 0
-----------------------------------------------------------------------------
CacheTypeOK ==
  /\ version \in Versions
  /\ entry \in [has : BOOLEAN, version : Versions, whose : Users \cup {NULL},
                due : BOOLEAN]
  /\ fetch \in [stage : {"idle", "asked", "refused", "answered", "failed"}, version : Versions,
                whose : Users \cup {NULL}, overtaken : BOOLEAN]
  /\ shown \in BOOLEAN
  /\ change \in [stage : {"none", "sent", "applied"}, version : Versions, owes : BOOLEAN,
                 marks : BOOLEAN]
  /\ known \in Versions

\* Once a page has loaded what it shows, with no request on its way and none
\* failed, it shows every change of these rows that this console was told it
\* had made: the hooks mark the right entries, and marking loses nothing. The
\* exception is a first request that a change overtook: its old answer is
\* taken, and clears the mark.
SeesOwnChanges ==
  shown /\ entry.has /\ fetch.stage = "idle" /\ ~fetch.overtaken => entry.version >= known
=============================================================================

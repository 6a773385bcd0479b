------------------------------ MODULE Previews ------------------------------
(***************************************************************************)
(* Two tools of the attendance page that show what they will write before  *)
(* they write it: the generator (AttendanceGeneratorDialog), whose records *)
(* the server makes up or a file brings, and the repair of the reports to  *)
(* Yongxin (ProjectDetailPage), which asks for records to be sent again.   *)
(* Between the preview and the confirmation the choice, the page's project *)
(* and the server go on. Of the repair: how its events make jobs; the      *)
(* events are Outbox's and Dispatch's.                                     *)
(***************************************************************************)
EXTENDS Naturals

CONSTANTS Crew, Yards, YardOf,   \* workers, projects, and whose worker one is
          MaxClicks              \* bound: what users do with the tool

ASSUME PreviewsAssumption == YardOf \in [Crew -> Yards] /\ MaxClicks \in Nat

VARIABLES
  tool,        \* the tool that is used: "generator" or "repair"
  yard,        \* the page's project
  toolOpen,
  staff,      \* the workers that are chosen; their days are with them
  preview,     \* what is shown: nothing, or one preview
  askings,     \* previews that are asked for, and files that are read
  sendings,    \* confirmations that are on their way, and those nobody waits for any more
  departed,    \* workers that were deleted
  stamped,     \* records the generator has made
  lastJob,     \* of a worker's record: how its last job for Yongxin stands
  recordEvents,  \* the record's events: "pending", "taken" by the dispatcher
  retaken,     \* history: records that were taken up otherwise while asked for again
  sentAgain,   \* history: records that were given a job when they had one
  clicks

previewsJobs == <<departed, lastJob, recordEvents, retaken, sentAgain>>
previewsServer == <<departed, stamped, lastJob, recordEvents, retaken, sentAgain>>
previewsVars == <<tool, yard, toolOpen, staff, preview, askings, sendings, previewsServer, clicks>>

OfYard(y) == {p \in Crew : YardOf[p] = y}

\* Jobs that are neither at work nor done: nobody has sent the record. One that waits
\* for its photo counts as such, though the worker takes it up again of itself.
IsUnsent(p) == lastJob[p] \in {"none", "failed", "waiting"}

PreviewsInit ==
  /\ tool \in {"generator", "repair"} /\ yard \in Yards
  /\ toolOpen = FALSE /\ staff = {} /\ preview = {} /\ askings = {} /\ sendings = {}
  /\ departed = {} /\ stamped = {}
  /\ lastJob \in [Crew -> {"none", "failed", "waiting", "done"}]
  /\ recordEvents \in [Crew -> {{}, {"pending"}}]
  /\ \A p \in Crew : recordEvents[p] # {} => lastJob[p] = "none"
  /\ tool = "generator" => \A p \in Crew : lastJob[p] = "none" /\ recordEvents[p] = {}
  /\ retaken = {} /\ sentAgain = {}
  /\ clicks = 0

Click == clicks < MaxClicks /\ clicks' = clicks + 1
-----------------------------------------------------------------------------
(* The tool and what is chosen in it. *)

\* Mutant: the repair comes with the preview it went with.
OpenToolAsItWas ==
  /\ ~toolOpen
  /\ Click
  /\ toolOpen' = TRUE
  /\ staff' = IF tool = "repair" THEN {} ELSE staff
  /\ UNCHANGED <<tool, yard, preview, askings, sendings, previewsServer>>

\* The repair starts anew; the generator comes with what was chosen.
OpenTool ==
  /\ ~toolOpen
  /\ Click
  /\ toolOpen' = TRUE
  /\ IF tool = "repair" THEN staff' = {} /\ preview' = {} ELSE UNCHANGED <<staff, preview>>
  /\ UNCHANGED <<tool, yard, askings, sendings, previewsServer>>

\* committing, and the mutation's isPending.
IsSending == \E s \in sendings : s.heard

\* changeOpen: the generator stays while it writes, and closes without its preview.
CloseTool ==
  /\ toolOpen
  /\ tool = "generator" => ~IsSending
  /\ toolOpen' = FALSE
  /\ preview' = IF tool = "generator" THEN {} ELSE preview
  /\ UNCHANGED <<tool, yard, staff, askings, sendings, previewsServer, clicks>>

\* Workers, teams, all, none: those of the page's project. Only without a preview.
PickWorkers(S) ==
  /\ toolOpen /\ preview = {}
  /\ Click
  /\ staff' \in {staff \cup S, staff \ S, S, {}} /\ staff' # staff
  /\ UNCHANGED <<tool, yard, toolOpen, preview, askings, sendings, previewsServer>>

Overtaken(p) == [p EXCEPT !.late = TRUE]

\* The page goes to another project and keeps its state.
GoToYard(y) ==
  /\ y # yard
  /\ Click
  /\ yard' = y
  /\ preview' = {Overtaken(p) : p \in preview}
  /\ UNCHANGED <<tool, toolOpen, staff, askings, sendings, previewsServer>>
-----------------------------------------------------------------------------
(* The preview. *)

PreviewRequest(of, n, rows, stage) == [of |-> of, from |-> yard, nth |-> n, rows |-> rows, stage |-> stage]

\* A mutation may wait for the network; the generator's request goes at once.
FirstStage == IF tool = "repair" THEN "waiting" ELSE "sent"

CreatePreview ==
  /\ toolOpen /\ preview = {} /\ staff # {}
  /\ \A q \in askings : q.nth = 0
  /\ Click
  /\ askings' = askings \cup {PreviewRequest(staff, clicks', {}, FirstStage)}
  /\ UNCHANGED <<tool, yard, toolOpen, staff, preview, sendings, previewsServer>>

\* handleFileSelect: what it finds of the workers on the page; the same file, the same records.
ReadFile(S) ==
  /\ tool = "generator" /\ toolOpen /\ preview = {}
  /\ \A q \in askings : q.nth # 0
  /\ Click
  /\ S # {}
  /\ askings' = askings \cup {PreviewRequest({}, 0, S, "answered")}
  /\ UNCHANGED <<tool, yard, toolOpen, staff, preview, sendings, previewsServer>>

\* It is sent for the project that the page has by then.
AskingGoesOut(q) ==
  /\ q.stage = "waiting"
  /\ askings' = (askings \ {q}) \cup {[q EXCEPT !.from = yard, !.stage = "sent"]}
  /\ UNCHANGED <<tool, yard, toolOpen, staff, preview, sendings, previewsServer, clicks>>

CanBeMade(S, y) == \A p \in S : YardOf[p] = y /\ p \notin departed
CanBeRepaired(S, y) == {p \in S : YardOf[p] = y /\ p \notin departed /\ IsUnsent(p)}

\* The server makes up records for all, or shows which are to be sent.
PreviewIsMade(q) ==
  /\ q.stage = "sent"
  /\ tool = "generator" => CanBeMade(q.of, q.from)
  /\ askings' = (askings \ {q}) \cup
                  {[q EXCEPT !.rows = IF tool = "generator" THEN q.of ELSE CanBeRepaired(q.of, q.from),
                             !.stage = "answered"]}
  /\ UNCHANGED <<tool, yard, toolOpen, staff, preview, sendings, previewsServer, clicks>>

\* The preview is shown whatever is chosen by now.
PreviewComes(q) ==
  /\ q.stage = "answered"
  /\ askings' = askings \ {q}
  /\ preview' = {[of |-> q.of, from |-> q.from, nth |-> q.nth, rows |-> q.rows,
                  late |-> q.of # staff \/ q.from # yard]}
  /\ UNCHANGED <<tool, yard, toolOpen, staff, sendings, previewsServer, clicks>>

\* A refusal, a broken connection, a file that cannot be read.
PreviewFails(q) ==
  /\ askings' = askings \ {q}
  /\ UNCHANGED <<tool, yard, toolOpen, staff, preview, sendings, previewsServer, clicks>>

BackToChoice ==
  /\ toolOpen /\ preview # {}
  /\ tool = "repair" => ~IsSending
  /\ preview' = {}
  /\ UNCHANGED <<tool, yard, toolOpen, staff, askings, sendings, previewsServer, clicks>>
-----------------------------------------------------------------------------
(* The confirmation. *)

ConfirmPreview(p) ==
  /\ toolOpen /\ p.rows # {} /\ ~IsSending
  /\ Click
  /\ sendings' = sendings \cup {[of |-> staff, from |-> yard, nth |-> p.nth, rows |-> p.rows, copy |-> clicks',
                                 stage |-> FirstStage, heard |-> TRUE]}
  /\ UNCHANGED <<tool, yard, toolOpen, staff, preview, askings, previewsServer>>

SendingGoesOut(s) ==
  /\ s.stage = "waiting"
  /\ sendings' = (sendings \ {s}) \cup {[s EXCEPT !.from = yard, !.stage = "sent"]}
  /\ UNCHANGED <<tool, yard, toolOpen, staff, preview, askings, previewsServer, clicks>>

\* The server is done with it; nobody may be there to hear.
SendingSettles(s, stage) == sendings' = (sendings \ {s}) \cup {t \in {[s EXCEPT !.stage = stage]} : t.heard}

RecordsOf(s) == {[of |-> p, from |-> s.from, nth |-> s.nth, copy |-> s.copy] : p \in s.rows}
IsSameRecord(r, t) == r.of = t.of /\ r.from = t.from /\ r.nth = t.nth

\* Mutant: whoever's the workers are.
CommitAnyones(s) ==
  /\ tool = "generator" /\ s.stage = "sent"
  /\ stamped' = stamped \cup {r \in RecordsOf(s) : \A t \in stamped : ~IsSameRecord(r, t)}
  /\ SendingSettles(s, "done")
  /\ UNCHANGED <<tool, yard, toolOpen, staff, preview, askings, previewsJobs, clicks>>

\* Mutant: a record that is there is inserted again.
CommitTwice(s) ==
  /\ tool = "generator" /\ s.stage = "sent"
  /\ CanBeMade(s.rows, s.from)
  /\ stamped' = stamped \cup RecordsOf(s)
  /\ SendingSettles(s, "done")
  /\ UNCHANGED <<tool, yard, toolOpen, staff, preview, askings, previewsJobs, clicks>>

\* commit_generated_attendance: all of them, each once.
CommitRecords(s) ==
  /\ tool = "generator" /\ s.stage = "sent"
  /\ CanBeMade(s.rows, s.from)
  /\ stamped' = stamped \cup {r \in RecordsOf(s) : \A t \in stamped : ~IsSameRecord(r, t)}
  /\ SendingSettles(s, "done")
  /\ UNCHANGED <<tool, yard, toolOpen, staff, preview, askings, previewsJobs, clicks>>

\* An event that is pending takes the request, one that is taken does not.
Enqueued(S) == [p \in Crew |-> IF p \in S THEN recordEvents[p] \cup {"pending"} ELSE recordEvents[p]]

\* Mutant: what was to be sent when it was shown is sent.
QueueWhatWasShown(s, T) ==
  /\ tool = "repair" /\ s.stage = "sent"
  /\ LET targets == {p \in s.rows \cap s.of : YardOf[p] = s.from}
     IN  T \subseteq targets /\ SendingSettles(s, IF T = targets THEN "done" ELSE "failed")
  /\ recordEvents' = Enqueued(T)
  /\ retaken' = retaken \cup {p \in T : "taken" \in recordEvents[p]}
  /\ UNCHANGED <<tool, yard, toolOpen, staff, preview, askings, departed, stamped, lastJob, sentAgain, clicks>>

\* repair_yongxin_attendance_reporting: of what was shown, what is chosen and still to
\* be sent, an event each; one that fails ends it after those before.
QueueRepairs(s, T) ==
  /\ tool = "repair" /\ s.stage = "sent"
  /\ LET targets == CanBeRepaired(s.rows \cap s.of, s.from)
     IN  T \subseteq targets /\ SendingSettles(s, IF T = targets THEN "done" ELSE "failed")
  /\ recordEvents' = Enqueued(T)
  /\ retaken' = retaken \cup {p \in T : "taken" \in recordEvents[p]}
  /\ UNCHANGED <<tool, yard, toolOpen, staff, preview, askings, departed, stamped, lastJob, sentAgain, clicks>>

\* The tool closes; the generator's preview goes, whichever it is.
SendingIsAnswered(s) ==
  /\ s.stage = "done" /\ s.heard
  /\ sendings' = sendings \ {s}
  /\ toolOpen' = FALSE
  /\ preview' = IF tool = "generator" THEN {} ELSE preview
  /\ UNCHANGED <<tool, yard, staff, askings, previewsServer, clicks>>

\* The preview stays and may be confirmed again, also when the server was done, or will be.
SendingFails(s) ==
  /\ s.heard
  /\ \/ sendings' = sendings \ {s}
     \/ s.stage = "sent" /\ sendings' = (sendings \ {s}) \cup {[s EXCEPT !.heard = FALSE]}
  /\ UNCHANGED <<tool, yard, toolOpen, staff, preview, askings, previewsServer, clicks>>
-----------------------------------------------------------------------------
(* The server goes on. *)

previewsPage == <<tool, yard, toolOpen, staff, preview, askings, sendings, stamped>>

\* delete_worker: nobody comes back.
WorkerLeaves(p) ==
  /\ p \notin departed
  /\ Click
  /\ departed' = departed \cup {p}
  /\ UNCHANGED <<previewsPage, lastJob, recordEvents, retaken, sentAgain>>

\* claim_event: one event of a record at a time.
TakeRepair(p) ==
  /\ "pending" \in recordEvents[p] /\ "taken" \notin recordEvents[p]
  /\ recordEvents' = [recordEvents EXCEPT ![p] = {"taken"}]
  /\ UNCHANGED <<previewsPage, departed, lastJob, retaken, sentAgain, clicks>>

\* enqueue_job: an event makes a job, whatever the jobs before it do.
MakeRepairJob(p) ==
  /\ "taken" \in recordEvents[p]
  /\ recordEvents' = [recordEvents EXCEPT ![p] = @ \ {"taken"}]
  /\ lastJob' = [lastJob EXCEPT ![p] = "at work"]
  /\ sentAgain' = IF IsUnsent(p) THEN sentAgain ELSE sentAgain \cup {p}
  /\ UNCHANGED <<previewsPage, departed, retaken, clicks>>

RepairJobEnds(p) ==
  /\ lastJob[p] = "at work"
  /\ \E s \in {"done", "failed", "waiting"} : lastJob' = [lastJob EXCEPT ![p] = s]
  /\ UNCHANGED <<previewsPage, departed, recordEvents, retaken, sentAgain, clicks>>

TakenUpAgain(p) ==
  /\ lastJob' = [lastJob EXCEPT ![p] = "at work"]
  /\ retaken' = IF recordEvents[p] = {} THEN retaken ELSE retaken \cup {p}
  /\ UNCHANGED <<previewsPage, departed, recordEvents, sentAgain>>

\* The button of the platform's page, for the last job or one before it, whose status
\* is looked at before the statement that resets it.
RetryJobByHand(p) ==
  /\ lastJob[p] # "none"
  /\ Click
  /\ TakenUpAgain(p)

\* claim_job: a job that waited for its photo.
TakeJobAgain(p) ==
  /\ lastJob[p] = "waiting"
  /\ TakenUpAgain(p)
  /\ UNCHANGED clicks

PreviewsNext ==
  \/ OpenTool \/ CloseTool \/ BackToChoice \/ CreatePreview
  \/ \E S \in SUBSET OfYard(yard) : PickWorkers(S) \/ ReadFile(S)
  \/ \E y \in Yards : GoToYard(y)
  \/ \E q \in askings : AskingGoesOut(q) \/ PreviewIsMade(q) \/ PreviewComes(q) \/ PreviewFails(q)
  \/ \E p \in preview : ConfirmPreview(p)
  \/ \E s \in sendings :
       \/ SendingGoesOut(s) \/ CommitRecords(s) \/ SendingIsAnswered(s) \/ SendingFails(s)
       \/ \E T \in SUBSET s.rows : QueueRepairs(s, T)
  \/ \E p \in Crew :
       \/ WorkerLeaves(p) \/ TakeRepair(p) \/ MakeRepairJob(p)
       \/ RepairJobEnds(p) \/ RetryJobByHand(p) \/ TakeJobAgain(p)
-----------------------------------------------------------------------------
AskingsTyped == [of : SUBSET Crew, from : Yards, nth : 0..MaxClicks, rows : SUBSET Crew,
                 stage : {"waiting", "sent", "answered"}]
PreviewsTyped == [of : SUBSET Crew, from : Yards, nth : 0..MaxClicks, rows : SUBSET Crew, late : BOOLEAN]
SendingsTyped == [of : SUBSET Crew, from : Yards, nth : 0..MaxClicks, rows : SUBSET Crew, copy : 1..MaxClicks,
                  stage : {"waiting", "sent", "done", "failed"}, heard : BOOLEAN]
RecordsTyped == [of : Crew, from : Yards, nth : 0..MaxClicks, copy : 1..MaxClicks]

PreviewsTypeOK ==
  /\ tool \in {"generator", "repair"} /\ yard \in Yards /\ toolOpen \in BOOLEAN
  /\ staff \subseteq Crew /\ departed \subseteq Crew
  /\ preview \subseteq PreviewsTyped /\ askings \subseteq AskingsTyped
  /\ sendings \subseteq SendingsTyped /\ stamped \subseteq RecordsTyped
  /\ lastJob \in [Crew -> {"none", "failed", "waiting", "at work", "done"}]
  /\ recordEvents \in [Crew -> SUBSET {"pending", "taken"}]
  /\ retaken \subseteq Crew /\ sentAgain \subseteq Crew
  /\ clicks \in 0..MaxClicks

\* Whenever previews and confirmations are answered, and wherever the page has gone:
\* a preview on the screen is of the choice and the project on the screen, but for one
\* that came or stayed when they had changed; the generator writes for a project's own
\* workers, and nothing twice, however often it is confirmed; and a record is sent to
\* Yongxin again only if it was taken up otherwise while it was asked for.
WhatIsShownIsWritten ==
  /\ \A p \in preview : p.late \/ p.nth = 0 \/ (p.of = staff /\ p.from = yard)
  /\ \A r \in stamped : YardOf[r.of] = r.from
  /\ \A r, t \in stamped : IsSameRecord(r, t) => r = t
  /\ sentAgain \subseteq retaken
=============================================================================

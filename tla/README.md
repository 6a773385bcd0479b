# TLA+ models of li-gc

li-gc keeps the people of construction sites, forwards them to the platforms of the
authorities, and puts them on the attendance devices of the sites. The hard part of that
is not the forms and the queries but what runs behind them: rows in PostgreSQL that
several worker tasks, in one or more API processes, lease, work on and settle, while
people are edited, platforms are reconfigured, devices answer late and processes stop.
The second hard part is at the edges: pages of a web console and of a mini program whose
answers come back after their user has gone on, a browser that forwards reports, photos
that are pushed to devices. These modules model both. TLC checks them on small instances.
TLAPS proves, for every instance, each safety property of each run that holds: of the outbox,
which also implements an abstract queue, of the dispatcher, the Xinleda worker, the device
commands, the face queue, the console's session with its cache, and of the sixteen parts
at the edges. Liveness, and the four properties that the code violates, are left to TLC.

    tlasany M.tla                        parse
    tlc -workers 2 -config X.cfg M.tla   model-check (the runs are listed below)
    tlapm OutboxProofs.tla               check the proofs; in the same way DispatchProofs,
                                         XinledaProofs, DeviceProofs, FaceProofs,
                                         ConsoleProofs, PartsProofs and EdgesProofs;
                                         the last two take twenty minutes each

## The system

| component | state it keeps | operations | what is hard | correct when |
|---|---|---|---|---|
| Integration outbox (`integration/outbox_worker.rs`, migration 023) | `integration_outbox_events` | trigger, coalescing enqueue, enqueue under a dedupe key; claim, handle, complete or fail | four tasks per process, leases, backoff, restarts, coalescing into a row while it is taken | events of one object are handled one at a time and in order; no request is lost; everything settles |
| Dispatcher (`integration/dispatcher.rs`, migrations 038, 040, 043) | `integration_project_bindings`, `integration_jobs` | make a binding, make jobs, bootstrap or disable a binding | no transaction around a dispatch; edits between its statements | every enabled platform gets its job; bindings follow configurations |
| Xinleda worker (`integration/xinleda_job_worker.rs`) | jobs, mappings, account of a binding | claim, load, write, poll, save, retry by hand | writes whose fate is unknown, tokens, changed accounts, jobs that wait for each other | one job of a person at a time; nothing is sent twice without a reason; the last word is true |
| Device issue (`device_mqtt`: `issuer.rs`, `publisher.rs`, `retry.rs`, `worker.rs`) | `construction_attendance_device_issue_reports`, topics | publish a command, retry it, apply an answer | retries overtaking newer commands, answers before the publish is recorded, several retry workers | the device has the person as they are; sends are bounded; answers stay |
| Face library (`face/mod.rs`, migrations 058 and 066, `face-service/app.py`) | `construction_face_enrollments`, the service's files, a project lock | queue, enroll, delete, switch on and off, clear | photos that change during a call, calls carried out after their timeout, switching | a library in use is complete; one that is not needed is empty |
| Yongxin worker (`integration/yongxin_job_worker.rs`, `http_retry.rs`) | the same job table | claim with a rate slot, write, wait for the response | retries inside the HTTP client | as Xinleda |
| Managed attendance dispatcher (`admin/managed_attendance_dispatcher.rs`) | `device_dispatch_jobs` of a record, 2 minute lease of a batch | claim, push, mark; disable, delete, generate again, resend | settling by id alone, batches longer than their lease, cancelling what is on its way | a photo is repeated only for a reason; a cancelled job is not pushed; a record is done when all devices have it |
| Report worker (`report-worker/`, Python) and report forwarding (`admin/report_forwarding.rs`) | `report_forward_runs`, heartbeats | schedule, claim, heartbeat, complete, retry; create, cancel, change of a type | one run at a time over all hosts, lost and stalled workers | one browser at a time; a manual run once; a cancelled run is not queued again |
| Console, session (`lib/api/axios-instance.ts`, `AuthProvider.tsx`, `LoginForm.tsx`) | store, refresh cookie, a waiting renewal | restore, log in by password or scan, renew, log out | tabs share the cookie; answers for an earlier login | what is shown was read with the rights of the user shown |
| Console, query cache (`lib/query-client.ts`, the hooks and services) | cached answers | fetch, poll, mark, refetch | answers older than a confirmed change; keys that nobody marks | a page at rest shows the user's own changes |
| Console, forms, lists, windows (pages of `features/`, `AdminWindowTabs`) | drafts, pages and filters, tabs in the storage, menus of a role | open, fill, type, upload, save; turn, filter, remove; open, close; toggle | late confirmations, fillings, uploads, titles | a save writes its own row and nobody else's change; a list with rows shows some; choices stay |
| Console, places and previews (`AMapPickerField`, `AttendanceGeneratorDialog`, the repair dialog of `ProjectDetailPage`) | the marked place, requests for names; a choice, its preview | mark, search, confirm; choose, preview, confirm | names and previews that come late; a confirmation that is repeated | a place has its own name; what is written is what was shown, once |
| Console, data screen (`features/data-screen`, `lib/baidu-map.ts`) | map, script of the map, cached panels, list of punches, details of a person | search, poll, count up, merge, choose | the script comes late or never; a board and a list go on under another project | markers are of the search; numbers arrive; punches are the project's; a row is of the choice |
| Mini program (`src/wx`) | storage of the phone, page data, flags | log in, switch project, load, append, edit, punch | every answer comes after the page may have changed | the pages are of one project; answers are filed under what was asked |
| Integration mock (`integration-mock/`) | SQLite: nonces, faults, log, what was reported | authenticate, log, fail on order, answer; order, reset | a delayed answer and a reset; nonces that are forgotten | a signed request passes once; the log says what was answered |
| Vendor B endpoint (`device_vendor_b/mod.rs`) | leased device work | pull, report | leases that run out while the device works | the job identifier is stable; nothing is lost |
| Administration API | tables of the domain | CRUD | - | - |

They meet in the database and nowhere else: a handler's transaction, or a trigger in it,
inserts an outbox event; an outbox worker hands it to the dispatcher, which makes jobs, or
to the device issuer, which publishes commands; the platform workers take the jobs; the
trigger on people queues face enrollments. The console and the mini program see the system
through the API only, the pushes and the report runs share nothing but the database with
the rest. `PROJECT.json` lists all components and, under
"hazards", what can go wrong at which line and which property would notice.

## Modules

    EventQueue                        what a queue of events promises
    Outbox  <-- OutboxProofs          the queue of events, its invariants, and the
                                      proof that it implements EventQueue
    Dispatch  <-- DispatchProofs      events to bindings and jobs
    XinledaJobs  <-- XinledaProofs    jobs to the platform
    DeviceIssue  <-- DeviceProofs     a person on a device
    FaceEnrollment  <-- FaceProofs    a project's face library

    ConsoleUsers <-- ConsoleKeys <-- QueryCache
                 <-- Session              Console = QueryCache + Session  <-- ConsoleProofs
    Forms <-- Editor,  Fields             the console's and the mini program's forms
    PlacePicker, Previews                 a place on the map; what is shown, then written
    Lists, Order <-- Listing              the console's lists
    Workspace                             its windows and a role's menus
    MiniHome, MiniAttendance, MiniCamera,  Order <-- MiniList
    ScreenDashboard, ScreenBoard, ScreenPerson
                                      the console's data screen
    MockPlatforms, ManagedDispatch, ReportRuns
    Edges = Editor | Fields | ... | Previews, one at a time  <-- PartsProofs <-- EdgesProofs

    MC<module>.tla, MC<module>*.cfg   instances for TLC

The modules have interfaces rather than a common state. `Dispatch`, `XinledaJobs` and
`DeviceIssue` take from `Outbox` what it promises (the events of an object are handled one
at a time, in order, each at least once; a pending one may absorb a request) and model
only the events they need. Composed in one state space they would be out of TLC's reach;
that `Outbox` keeps the promise is a theorem (`OutboxIsAQueue`).

Conventions: a row is a record; the order `(created_at, id)` is the row's index;
`locked_until` against `NOW()` is `none`, `live` or `expired`, and time is an action that
moves a row from one to the next; a payload is the number of the request that wrote it.
History variables are marked as such and no guard reads them. A definition that follows
the comment "Mutant:" is a faulty variant of the one after it: putting it in its place
must break a property, which `PROJECT.json` names.

**Outbox.** `EmitDomainEvent` is the trigger's row, `EnqueueDomainEventTx` an insert under
a dedupe key, `EnqueueEvent` the UPDATE of a pending row or else an INSERT, `ClaimEvent`
the claim statement (due, nobody active on the object, nothing earlier unsettled),
`HandleOk` and `HandleErr` the end of the handler, `CompleteEvent` and `FailEvent` the
settling UPDATEs. `SettleLost` is a settling statement that fails, which the code only
logs. `Restart`, `Panic`, `BackoffEnds`, `LeaseEnds` and `LeaseOverrun` are what happens to
the tasks and with time. A row may become visible after one that is later in the order:
`created_at` is the start of its transaction (variable `late`).

**Dispatch.** A task reads the plan (`LoadPlan`, or `LoadConfig` for an edited
configuration), then for each configuration ensures its binding and enqueues the job, each
a statement of its own; `Interrupt` fails the event between any two. `EditConfig` and
`RepairPerson` come in between. An event's `only` is the `platform_config_id` of a repair
request; `rewound` and `absorbed` record the two ways the promise is known to break.

**XinledaJobs.** The steps of a task are the statements of `process_claimed_job`: claim,
look for a disabled binding, a synced person, missing data, a dependency, compose and
send, then save the token, the mapping, the follow-up entry job and the result. `Accepted`
and `Refused` are the platform's answers, `IssueLost` a connection that broke,
`StatementFails` and `Restart` the faults. `AskRetry` and `RetryPlatformJob` are the two statements of
the operator's button. `accepted` counts what reached the platform.

**DeviceIssue.** `ChangePerson`, `CompareFields` and `EnqueueReissue` are `update_worker`:
the transaction, the comparison after it, the coalescing enqueue. What is compared with was read
before the transaction and its lock: it is any row there has been (`rows`), and one older than
the row that is written over is the slip `"outdated"`. An issuer inserts a
report, publishes, saves the result. A retry worker fails what needs no retry, claims a
batch, publishes each and saves it under its claim. The device takes its topic in order
and answers; answers arrive in any order. Lost messages, failed publishes, refused
commands and stopped processes share one bound with the changes of the person.

**FaceEnrollment.** `EditPhoto` and `CommitEdit` are the two ends of the transaction with
the trigger in it. `WriteSwitch` and `FillLibrary` are the two statements of a handler under
the project lock; `RequestSwitch` is what it reads before. `ClaimTasks`, `SkipTask`,
`ReadTask` and `FinishTask` are `process_pending_enrollments` and `finish_enrollment`,
`ListDisabled` and `CleanProject` the cleaning task. A call without an answer was carried
out, or will be at any later time (`CallLands`), or neither: the service computes before it
takes its lock.

**EventQueue.** The queue without leases, attempts and tasks: `Record`,
`Replace` the request of waiting events nobody handles, `Take` the earliest of an object that
nobody handles, `Return`, `Settle`, `GiveUp`. `Outbox!Queue` is the mapping: a pending or
processing row is a waiting event, a busy task is a call. An event may be recorded before
others of its object (a late transaction), and the promise ends with the first overrun lease
(`unreliable`).

**ConsoleKeys, QueryCache.** `ConsoleKeys` is data: for each part of the API the tables its
requests read or write, the entries the hooks cache and the paths a confirmed change marks.
`QueryCache` is one polled entry that any change may concern as some change concerns some
entry (`News`): mount, fetch, answer, arrive, fail, retry, grow stale, collect, and a change
that is submitted, applied and confirmed. Fetch and answer are separate steps, so an answer
can be older than a change confirmed before it comes.

**Session, Console.** The store, the restoration of a session when the page loads, the
interceptor's renewal, logging out, the login form with its two ways in; around it the
cookie that tabs share and the one session a user has at the server. `Console` runs the
two together: a fetch is answered with the rights of the token it carries.

**Forms, Editor, Fields.** Nearly every page has the same kind of form, and the pages differ
in a dozen ways that matter (what is filled when, what is sent, which row is written, when it
closes, what is locked, where an upload goes). `Forms` has a record of those for each page,
`Editor` is the form: opened, filled, typed into, helped, submitted, carried out, told, then
the second request if there is one, each a step. `Fields` is what happens to one value:
row to text (`WebText`, `MiniText`), what the controls let a user do, and text to payload
(`Refused`, `Payload`, `Sent`), for every field of every record form.

**PlacePicker.** A point that is pressed is marked at once and its name asked for afterwards:
`FillLocationName` gives the request the next number, `NameOfPlaceComes`, `NameOfPlaceFails` and
`AttemptAgain` are the answer, its failures and the two repeats, each with its look at the
number. `HandleSearch`, `SearchComes` and `ChoosePoi` are the search, `ConfirmPlace` the form's new
place. The script of the map is a promise that outlives the overlay (`amap`).

**Previews.** Two tools that show what they will write: the generator of attendance, whose records
the server makes up (`PreviewIsMade`) or a file brings (`ReadFile`), and the repair of the reports
to Yongxin. A preview and a confirmation are each asked for, sent, answered and heard of in steps
of their own; meanwhile the choice changes, the page goes to another project (`GoToYard`), workers
leave, and the server goes on with the jobs the records have: a job that waits for its photo is
taken up again when it has it, any that is over may be retried by hand. `CommitRecords` is
`commit_generated_attendance`, `QueueRepairs` is `repair_yongxin_attendance_reporting` with the
events it coalesces into.

**Lists, Order, Listing.** The same for lists: filters, paging here or at the server, clamping,
removal. Answers of several pages and filters are on their way while rows go. `Order` is the
order in which the API answers, and a page of it.

**Workspace.** It has the permissions and the sidebar, goes to pages, opens, names, closes and
restores windows, keeps them in the browser's storage and draws them from a copy, and gives or
takes menus of the role.

**MiniHome, MiniList, MiniAttendance, MiniCamera.** The mini program's pages as their
`setData` calls and requests; each answer is a step of its own, and what the code compares
(or does not) when it comes is the step's guard. `MiniHome` keeps the pages that lie on top of
the first (`above`) and whether the login page has just been opened (`redirecting`). The filter of
`MiniList` is a tab, which loads the list again, and a word, which is sent with the next request as
soon as it is typed (`TypeKeyword`), searched for or not; its three kinds of pages differ in whether
they send the tab, hide the rows of another, and load after every change.

**MockPlatforms.** The stand-in for the three platforms: `Auth` with its checks of time and
nonces, `Ordered` faults with and without delay, what is reported, `Reset` and `Restart`.

**ManagedDispatch.** The jobs of one record, one for each device. `ClaimPushes` is the claim
statement over all due jobs, `SendPhoto` the request (accepted, refused, or accepted with the
answer lost), `SumUp` the statements of `mark_success` or `mark_failure` up to the summary of the
record, which sees its own settlement and those that are committed (`drafts`), `Settle` the commit that
writes the job and what was summed up, `DropBatch` a death or a failed statement. `ToggleManaged`, `DeleteManaged`,
`DeleteDevice` with `DeviceIsGone`, `DeleteRecord`, `Regenerate` and `Resend` are the handlers
of the desk; a regeneration that leaves the day out is two statements, `LeaveOutDay` and `DropRecord`.
`torn` says that the status of the record was written without a settlement committed meanwhile. `unrecorded` counts deliveries that no row tells of, `shelved` are the jobs that
were cancelled while nobody had them in hand.

**ReportRuns.** `ClaimRun` with what it does first to manual runs that were interrupted,
`Heartbeat`, the stages of an execution as far as they look at the run (`StartRun`,
`CheckCancelled`, `EndRun`), `ScheduleRetry`, and what follows the end: the event after a success is
in the same `try`, so that its failure (`LastEventFails`) puts the run back (`putBack`), `Trail` is the rest,
and `MainFails` an exception out of the handlers, after which the main loop closes the run; the desk's `CreateRun`, `CancelRun`, `RetryRun` and the
change of a configuration's type in its two statements (`FindNoRun`, `SwitchMode`).

**ScreenDashboard, ScreenBoard, ScreenPerson.** The data screen. The map's script is a promise
that outlives the page (`script`); the markers are drawn in the step that brings the map, the
projects or the search (`Redraw`); a number runs from what it shows to what the last poll brought.
The board has no key: another project comes onto the same panels, and the list of punches
merges what an answer brings into what it shows (`kept`). The details of a person ask again for
every choice, and cancel the request before.

**Edges** puts these last parts side by side. They share no state, so a behaviour moves one
of them (`part`) and the others stay at their initial state: one state space of the sum of
their sizes, in which each part is checked as it would be alone.

## What the runs check

| run | instance | what it shows |
|---|---|---|
| `outbox` | 2 workers, 1 object, 1 type, 2 rows, 2 requests, 2 attempts, 1 restart or lost settlement, 1 panic, 1 overrun lease | `OneHandlerPerAggregate`, `SettledInOrder`, `CompletedCarriesHandledRequest`, `PendingHasBudget`, `SettledIsFinal`, `EventuallySettled`, `ImplementsEventQueue` |
| `xinleda_order` | 2 workers, 1 person, 2 events, a punch, 2 accounts, 1 fault or switch | `OneJobPerEntity`, `ReportedInOrder`, `MappingIsOfThisAccount`, `TokenIsPolled` |
| `xinleda_faults` | 1 worker, 1 event, 2 attempts, 2 faults or switches, 1 manual retry | `RedeliveryIsExplained`, `JobsComeToRest` |
| `xinleda_removed` | 2 workers, 2 events | violated: `RemovedHasLeft` |
| `dispatch` | 2 workers, 2 configurations, 2 accounts, 1 write, 2 edits, 1 repair or interruption | `EachPlatformGetsAJobUnlessAbsorbed`, `BindingFollowsConfigUnlessRewound`, `EverybodyIsSentAgain` |
| `dispatch_absorbed` | the same without edits | violated: `EachPlatformGetsAJob` |
| `device_issue` | 2 retry workers, 1 retry, 2 reports, 2 changes or disturbances | `SendsAreBounded`, `AckShows`, `DeviceFollowsThePerson` |
| `device_stopped` | 1 retry worker, 1 report, 2 changes | violated: `StoppedIsNotRetried` |
| `face` | 2 workers, 1 person, 2 photos, 3 requests, 1 failure | `EnabledMeansEnrolled`, `ClearedStaysEmpty`, `UnneededLibraryIsEmptied` |
| `face_switched_on` | 1 worker, 1 person, 1 photo, 3 requests | violated: `SwitchingOnEnrollsAll` |
| `console` | 2 users, 1 change of the entry's rows, 1 expiry, ended session or other tab | `SeesOwnChanges`, `OnlyOwnData` |
| `edges` | 2 rows, openings and submits of a form; 2 edits of a field; 2 rows, 2 filters, 3 moves of a list; 3 choices in the windows; 2 users and 2 projects at home; 2 tabs, 2 words and 4 taps on a list page; 2 dates and people; 2 acts at the camera; 2 calls of the mock at 3 times, 1 fault, 1 reset; 2 devices, 2 dispatchers, 2 attempts, 2 upsets; 2 runs, 2 workers, 1 retry, 1 upset; 3 projects, 2 of them on the map, 2 searches, 2 reloads; 2 projects, 3 punches, a list of 2, 2 choices and 2 pieces of news on a board; 2 projects, 2 months, 4 choices of a person; 2 points and 4 presses on a map; 2 workers of 2 projects, 5 clicks in a tool with a preview | `FormsKeepToTheirRow`, `UntouchedStays`, `ListsAreTrue`, `ChoicesStay`, `MiniPagesAreCurrent`, `AnswersAreFiledRight`, `ReplaysAreRefused`, `PushesAreRight`, `RunsKeepApart` |

Each passing module has its type invariant in a run as well. The conjuncts of the
properties of `edges` are defined, with their exceptions, in the modules of the parts. `CHECK_DEADLOCK FALSE` is
in every configuration: the bounds end all activity, and a system with nothing to do rests.

### Why the bounds are enough

Interference is pairwise in this code: two tasks on one row or one object, a request
against a task, a late statement against a new one. Two workers therefore suffice, and the
third is one of the first two after a restart. Order on an object needs two rows, one of which coalesces a second request or is retried;
a second object may have rows in `outbox` of no run. Its safety is proved for any number of
objects; that neither starves the other, `EventuallySettled` with two objects, holds in
1,178,542 states and takes four minutes alone. Two attempts separate
"one is left" from "none is left". For Xinleda, two events are an entry and an exit, the
shortest history with an order to get wrong; the account may change once, and a fault and
a switch exclude each other in `xinleda_order` (`MaxEither`), where both together are out of
reach; `xinleda_faults` has both, for one worker: what it asks (is a delivery repeated, does a
job end) is about a task and its own faults, and the interference of two is in `xinleda_order`. A binding must be edited twice to be rewound. A device needs an old
and a new report. A face library must be switched on, off, and on again. The bound of 5
attempts of the code is a constant everywhere. In a page two of everything that can cross suffice: two openings of a form, a filter
before and one after, two people. A dispatcher and a report worker need a second one to
take over, and two upsets let a lease end while a job is cancelled; for the runs, two upsets
make 1,674,228 states of `edges` where one makes 1,066,333, with no violation of the same properties,
and one is kept for time. Two points on a map are one whose name comes late and one it may be put under, and two
workers of two projects one that leaves and one that is another project's; five clicks are a choice, a preview,
two confirmations and a change of project. What a bound of one fault hides is two
faults in one history; the proofs of the outbox hold for any values of its bounds.

### Fairness

`Outbox` and `XinledaJobs`: a task's loop goes on (weak fairness of its steps: the loops of
`spawn_*` have no exit), and the clock does (weak fairness of the end of a backoff and of a
lease). `XinledaJobs` adds strong fairness for claiming a job, which the claim's `ORDER BY
created_at` gives, and for a platform that resolves a token in the end. `FaceEnrollment`
asks only that the holder of the lock finishes its call, which has a timeout, and that the
30 second timer of the cleaning goes on. `Console` and `Edges` ask for none: a user may stop,
and an answer may never come; what they promise is about a page at rest. No fairness is asked of users, edits, messages or
failures.

### What the violations say

* `xinleda_removed`: a deleted person is never reported as gone. Deleting is an update of
  `is_deleted`; the job that follows finds no row and waits for data.
* `dispatch_absorbed`: a repair request for one platform takes the place of the pending
  event for all of them, and the others get no job.
* `device_stopped`: commands whose retries "have stopped" are retried when the person
  comes back, an old delete among them.
* `face_switched_on`: the geofence settings look whether the library is on before they
  wait for its lock. If the last attendance point is switched off meanwhile, the library
  goes on again and nobody is enrolled.

Two more disagreements are in no run of their own, because the properties except them. A place that
is chosen from a search does not end the request for the name of a point pressed before
(`choosePoi` leaves `geocodeSeqRef` as it is, AMapPickerField.tsx:314), so that this point's name is
put under the chosen place. And the repair dialog says that records being processed or sent are not
sent again (ProjectDetailPage.tsx:1978), but a confirmation that comes while the record's event
is in the dispatcher's hands, or before a job has ended that was retried by hand or has waited for its photo, makes a second job.

The passing properties name their exceptions, each a history variable set by the action
that causes it: an overrun lease (`overruns`), a row visible late (`late`), a manual retry
(`retried`), a job in flight across a change of account (`straddled`), a change dispatched to
a disabled binding (`missed`), a rewound binding (`rewound`), an absorbed event
(`absorbed`), commands out of order, or a change compared with an outdated row (`slips`), a face call carried out late or a change that
the trigger did not queue (`slips` of `FaceEnrollment`), a filling skipped (`stale`). At the
edges: a token of somebody else that came in under the user shown (`crossed`), a first
request that a change overtook (`overtaken`), a form that was filled late, told of a failure
that was none, or not locked (`late`, `unsure`), loads of a list that crossed (`stale`), a
word that was typed and not searched for (`typed`), a choice before the list was read again (`undone`), a switch of projects during a load
(`behind`), a delivery that no row tells of (`unrecorded`), a record whose status was written over a
settlement not seen (`torn`), a report worker that outlived its
lease (`stalls`), a run that was put back after its success (`putBack`), a configuration whose type changed after it had been checked (`raced`), the rows of
the project before when both boards were in the cache (`kept`), yesterday's rows until the
first punch of today, an empty page of another filter (`gone`), a place that was chosen while a name
was asked for (`overnamed`), a preview that came late (`late` of `Previews`), a record that was taken up
while it was asked for again (`retaken`). One is no matter of order: a time in a form of the console moves with every save of a user
outside Greenwich (`FieldsStay`). They are the known limits of the code, and each is a hazard in `PROJECT.json`.

## What is proved

For every value of the constants that the assumptions allow: any number of workers, rows,
people, retries and disturbances.

    OutboxProofs      Invariance                Spec => []Inv
                      TypeCorrect               Spec => []TypeOK
                      HandlersExcludeEachOther  Spec => []OneHandlerPerAggregate
                      SettlementIsInOrder       Spec => []SettledInOrder
                      NoRequestIsLost           Spec => []CompletedCarriesHandledRequest
                      RetriesAreBounded         Spec => []PendingHasBudget
                      SettlementIsFinal         Spec => SettledIsFinal
                      OutboxIsAQueue            Spec => ImplementsEventQueue
    DispatchProofs    DispatchInvHolds          Spec => []DispatchInv
                      DispatchIsTyped           Spec => []TypeOK
                      NoPlatformIsMissed        Spec => []EachPlatformGetsAJobUnlessAbsorbed
                      BindingsFollow            Spec => []BindingFollowsConfigUnlessRewound
                      NobodyIsLeftOut           Spec => []EverybodyIsSentAgain
    XinledaProofs     JobsInvHolds              Spec => []JobsInv
                      JobsAreTyped              Spec => []TypeOK
                      TasksStayApart            Spec => []OneJobPerEntity
                      MappingsFollow            Spec => []MappingIsOfThisAccount
                      NothingIsSentTwice        Spec => []RedeliveryIsExplained
                      ReportsFollow             Spec => []ReportedInOrder
                      TokensArePolled           Spec => TokenIsPolled
    DeviceProofs      DeviceInvHolds            Spec => []DeviceInv
                      DeviceIsTyped             Spec => []TypeOK
                      AnswersStay               Spec => []AckShows
                      CommandsAreFew            Spec => []SendsAreBounded
                      DeviceFollows             Spec => []DeviceFollowsThePerson
    FaceProofs        FaceInvHolds              Spec => []FaceInv
                      QueueIsTyped              Spec => []TypeOK
                      NobodyIsForgotten         Spec => []EnabledMeansEnrolled
                      NoFaceComesBack           Spec => []ClearedStaysEmpty
    ConsoleProofs     ConsoleIsTyped            Spec => []TypeOK
                      OwnDataIsShown            Spec => []OnlyOwnData
                      TheHooksMark              what a change owes to an entry it marks
                      OwnChangesAreShown        Spec => []SeesOwnChanges
    PartsProofs       RunsStayApart             the three promises of ReportRuns, alone
    EdgesProofs       PartsKeepTheirInvariants  EdgesSpec => []EdgesInv
                      EdgesAreTyped             EdgesSpec => []TypeOK
                      EdgesKeepRunsApart        EdgesSpec => []RunsKeepApart
                      NoCallPassesTwice         EdgesSpec => []ReplaysAreRefused
                      PushesStayRight           EdgesSpec => []PushesAreRight
                      FormsStayWithTheirRow     EdgesSpec => []FormsKeepToTheirRow
                      UntouchedSurvives         EdgesSpec => []UntouchedStays
                      ListsStayTrue             EdgesSpec => []ListsAreTrue
                      WindowsAndMenusStay       EdgesSpec => []ChoicesStay
                      MiniPagesStayCurrent      EdgesSpec => []MiniPagesAreCurrent
                      AnswersStayFiledRight     EdgesSpec => []AnswersAreFiledRight

`PartsProofs` has the inductive invariants of one half of the parts (pushes, runs, the mock,
the mini program, the windows, places and previews), `EdgesProofs` those of the other half and the theorems.

### Assumptions

They are those that the modules declare, and TLC evaluates them in every run. Bounds are
natural numbers, attempts at least one. `NULL`, `NOBODY` and `NOSITE` are nothing else; in
`FaceEnrollment` the two sources of a switch are no people or workers (`HoldersAssumption`), in
`Dispatch` people are no configurations. People are finitely many where the code makes a row for
each of them (`Dispatch`, `FaceEnrollment`), and so are retry workers, jobs and dispatchers where
rows or hands are counted (`DeviceIssue`, `ManagedDispatch`): there is one for each process or row.
The rows of a list (`Listing`, `MiniList`) and the punches of a board (`ScreenBoard`) are finitely
many natural numbers, in the order in which the API lists them; a person has a project and a month
to look at (`ScreenPerson`); the mock's clock can reach 1 (`MockPlatforms`).

### The inductive invariants, and why they are needed

None of the safety invariants of the runs is inductive. Each inductive invariant was checked by
TLC before it was proved, mostly on the instance of a run, in up to three million states.

**Outbox (`Inv`).** The settling UPDATEs are keyed by the row's id and
nothing else, so that they settle the right claim depends on who else could hold the row.
`Inv` adds three facts. `Owned`: as long as no lease was overrun, a busy worker holds the
live lease of the row it claimed, with the payload and the attempt number it read; then
nobody else can be busy on the row (leases have one holder), a coalescing request cannot
reach it (it is not pending), and a failure counts from the right number. `Ordered`: a row
that is processed or settled has no earlier unsettled row of its object, late ones apart;
this is what the claim's `NOT EXISTS` establishes, and what every later step keeps, since
rows only become unsettled by being inserted, which is what `late` marks. `OkIsForThisRequest`:
an Ok belongs to the payload the worker holds. `InvStep` goes through the actions, with one
lemma for each group (`InsertStep`, `CoalesceStep`, `ClaimStep`, `HandleStep`, `SettleStep`,
`TimeStep`, `FailureStep`); the row operators have typing lemmas of their own.

`OutboxIsAQueue` maps a row to an event of `EventQueue` that is waiting while the row is pending
or processing, and a busy task to a call. An insert is `Record`, a coalescing request is
`Replace`, a claim is `Take` or, for the row of a dead task, nothing; a settling UPDATE is
`Settle`, a retry, a restart or a panic is `GiveUp`. Each has a lemma, and each needs `Inv`: that
a pending row is in nobody's hands (`PendingIsFree`), that the row a task settles is that of
its call and no second task's (`CallIsOnes`), that nothing earlier of the object is unsettled.
After an overrun lease the queue promises nothing, and the code keeps nothing.

**Dispatch (`DispatchInv`).** An event owes a job to every configuration that was enabled when it
was claimed and has been since. `Progress`: what it owes has its job or is still in the task's plan;
`Tasks` and `Claims` say what a plan is for and whose event is whose. That bindings follow needs
the versions of a configuration: whoever knows the last one knows what it says (`Copies`), and a
binding without it has an event under way that will bring it (`Bound`), which stays true over the
edit itself, because the edit enqueues. That everybody is sent again needs the same of the events that
send (`SentAgain`), what those events owe (`Keys`), and that a job of the last version is of the
account the binding has (`Lives`).

**XinledaJobs (`JobsInv`).** `Leases`: who works on a job has its lease, and no earlier job of the
entity opens behind its back, but by the operator's reset or a change of account. `Current`: tokens
and what a task has read are of the account of now. `Sends`: a request that may still go out has not
been delivered more often than something excuses, in every phase of a task and for every job that can be
claimed. For the order of entries and exits, `ReportsCatchUp`: of each person the outbox still has an event
to tell, or a job that has not told it and that no task behind it can overtake, or the platform was told
where they are and nobody is about to say otherwise. It rests on `Spoken` (success means said),
`Ledger` (an event is dispatched once) and `Reporting` (only an entry job speaks).
`TokenIsPolled` is an action property, from the same invariant.

**DeviceIssue (`DeviceInv` and `Follows`).** `SendsAreBounded` counts. What a command has in all is what was sent,
the first publish still to come, the retries that the next worker to claim it has, and those
left to each of the workers that hold it (`InAll`; the last is the cardinality of a set of pairs,
`LeftOf`). A retry moves one from the right to the left of the sum; a new claim needs the lock, and only
a lock that was taken from its worker (`freed`), or a pass that was interrupted, adds something. As
long as no lock was taken a report is in the hands of one worker that knows its count (`Alone`). The
proof corrected the property: it used to say `1 + MaxRetries + interrupts + freed`, which the runs
(one retry) cannot tell from the truth. With two retries TLC finds 5 publishes where that
allows 4: `update_retry_success` updates by the id and the missing answer, not by the lock, so two
workers that hold one report each go through the retries. After a lost lock the
bound is `MaxRetries * (1 + freed + interrupts)` and the first publish.

`DeviceFollowsThePerson` needs an invariant of its own, `Follows`, in two halves that hold as long
as nothing slipped. `Track` relates the reports to the person: `Open` is what the device may still
have to show, namely the person as they are and every state that is written over and not yet told;
a change that was compared with the row it wrote over opens that row, one with an older row has slipped; the
last event of the queue announces one of these (`Announced`), a handler that has compared two
states issues for one of them (`Compared`), the operator has read one of them or a later report
overtakes theirs (`Fetched`), and each report tells one of them, unless it has a successor or
there is still something to issue (`Current`). `Arrived` relates the reports to
the topic: no command stands in it before one that it should follow (`Orderly`), and what the device
took last is later than whatever was acknowledged, and earlier than whatever is on its way
(`Showing`). `Past` says that reports and their revisions are no newer than the person. When all is
told, taken and acknowledged, `Open` is the person alone, the newest report tells it, and the device
shows the newest report. Each of the three parts has one lemma for its step (`PastStep`, `TrackStep`,
`ArrivedStep`), the last two over what the actions do to it.

**FaceEnrollment (`FaceInv`).** The lock is held by whoever works under it (`Held`), so that while a
call is made the library stays in use and the task in process (`InHand`). `ReadIsCurrent`: the photo of a
call is still the person's, unless the task has a new revision or another task waits.
`Enrolled` is `EnabledMeansEnrolled` in every state: between the two statements that switch a
library on, the filling is what is still to come. `EnabledMeansEnrolled` is proved without the guard that
nothing is in progress.

**Console (`OwnInv`, `FreshInv`).** `OnlyOwnData` says what a page shows, its invariant what may
still come to be shown. With an empty store nothing is cached, on its way or shown (`Emptied`):
this is what `queryClient.clear()` and the page loaded anew are for. While the page loads nobody
is in the store and no login is on its way (`AtDoor`), so that who enters finds the cache empty.
Under a user the token is theirs, and what is cached or answered was read with it (`HeldBy`),
but for a token or a login of somebody else that came in (`crossed`).

`SeesOwnChanges` needs the requests on their way (`Fresh`): an answer that has not arrived is as new as
what this console knows to be done, or a change overtook its request; a cached answer that nobody
asks for again is as new, or is due and will be asked for when its page is shown. No version is
ahead of the server's (`Versioned`), so that an answer read later is new enough. All this is worth
what the hooks mark: `TheHooksMark` says of the 56 changes and 63 entries of `ConsoleKeys` that
a change marks what it owes to an entry. The pairs are thousands, so each
table has its `Places` among the keys, each entry of its rows is at a place or below (`Placed`, one
lemma for each group of entries), and each change of it marks the places that are in a feature it marks
anything of (`Marking`, one lemma for each group of changes).

**ManagedDispatch (`PushInv`).** `Deliveries` counts, for each job, what the device has taken and
the dispatchers that may still deliver it: together no more than one and the deliveries no row
tells of, and one less when the job can be claimed. A lease that ends under a dispatcher pays for the
next claim. `Sums`: what an open transaction has summed up is what
its commit makes true, unless another has committed since (`missed`). `Shelf`: what was cancelled in nobody's hands stays so. The type of `attempts` is a natural
number here: the type invariant of the run has a bound of the instance.

**ReportRuns (`RunsInv`).** A worker that has not outlived its lease has a live run, and claims look
at all of them over all hosts (`BusyIsLive`, `Alone`). The type that the executor read still
holds, but for a race (`TypeReadHolds`); a manual run that waits was not executed, unless it was put back (`WaitingIsUntried`); a run that has
ended and is still being wound up is cooling, so that no other is claimed (`TrailingCools`);
a number that is not used has no past (`UnusedIsFresh`).

**MockPlatforms (`MockInv`).** `NoncesCover`: a call found valid is known by its nonce, with the time
until which it would be valid, or that time is over. What a call does to the rest of the database
is one lemma for each operation: none touches the nonces. `LogInv`, for the log: a row's number is
given once, and is no greater than the last; each answered call has one (`RepliesAreNumbered`), an
answer that is delayed knows its call's (`DelayedIsOfItsCall`), so that finishing writes that call's
row or, after a reset, none. `MockTyped`: the requests number as many as the calls.

**Editor (`EditorInv`).** The openings of a form are numbered, and who holds fields, a file or a row
says of which opening. `NumbersAreFresh`: an opening that still waits for its data is nobody's yet.
`OwnRows`: unless something late has met another opening, the form, the upload, each save on its
way and each row written have the fields of one opening, and its row. `OneRow`: on a page that
locks its form while it is saved, and closes it then, there is one save at a time, and the form on
the screen has made no row that it could make again, but for the one whose answer will close it.

**Fields (`FieldsInv`).** The first text of an open form is the text of what is stored; what is
stored after a save is what the payload made of the text at that moment. The rest is a lemma for
each kind of field: what a payload makes of the text of a value is the value, a region and a file
included, but for a time of a zone that is not Greenwich.

**Listing (`ListingInv`).** An answer counts the rows it has (`AnswerFits`). A page that turns back
has done so, as often as it must (`PageRests`; that turning back ends is an induction over the number
of the page). Where a page does not turn back, no page is asked for that is beyond the rows of its
filter, unless something has gone (`OnlyWhatIsThere`). This proof corrected the property: with two
rows TLC had found nothing, with three a list that goes to its first page after the request for the
new filter leaves an empty page of that filter in the cache, which is shown when the
user comes back to it after rows were added. The history variable `gone` now tells of it.

**Workspace (`WorkspaceInv`).** A window the user closed is neither stored, drawn nor shown, unless
they clicked while a page was being gone to; a menu that is being written is what the choices make.
The window lists have each page once, which is what taking one out, and finding its neighbour, rest on.

**MiniHome (`HomeInv`).** A page waits for one load of counts at a time, and knows that it does
(`OneLoad`); what is loaded, or is on its way, is of the project that is shown, unless it was switched
meanwhile; that project is the stored one and one of the user's. A page that was left waits for nothing.

**MiniList (`ListInv`).** Unless loads crossed there is one, for the chosen filter, and it continues
the rows there are (`LoadFitsTheList`); a word typed on the way ends the promise until the first rows are
asked for again. The list is the first of the rows of its filter in the order of
the server (`ListIsFirstRows`), an answer is the page after it (`AnswerIsOfRowsThere`), and both have the
user's own changes (`RowsHaveOwnChanges`). `Order`'s lemmas say that finitely many numbers have one order,
and what a removed row leaves of it.

**MiniAttendance, MiniCamera (`AttendanceInv`, `CameraInv`).** A call for a date with records carries
that date's; the first load is of the active date until it is overtaken. A remembered zoom was
chosen for its side; the place is that of the last request since the user came, and a punch keeps
the place of the visit in which it was made; a punch that was shown as a success is in the list or
comes with a list that is on its way.

**ScreenDashboard, ScreenBoard, ScreenPerson (`DashboardInv`, `BoardInv`, `CardInv`).** A number runs
to the last answer of its panel, and rests there. An answer has punches of the project it was asked
for; the list has those of the panels and, among today's rows, the newest (a row that is missing was
pushed out by as many newer ones as the list can hold). Of the requests of a person's card the last one
is the only one that is heard, and it is for the choice.

**PlacePicker (`PickerInv`).** The numbers of requests do not exceed the presses. The request with
the last number asks for the marked point, unless a place was chosen from a search since
(`LastAsksForMarked`); so what it brings is that point's name.

**Previews (`PreviewsInv`).** Besides the property it has `EventsAreExplained`: a record that has an
event and need not be sent any more was taken up otherwise while it was asked for. This is what the
server's second look, in the confirmation, establishes, and what every later step of the jobs keeps.

**Edges (`EdgesInv`).** The parts share no state, so an invariant of a part is one of the
composition: its step is the part's step or leaves the part's variables alone (`PartsMove`).

### How the models meet the prover

Two updates of one row in one `EXCEPT` (`![r].status = .., ![r].locked = ..`) are written as one
(`![r] = [t[r] EXCEPT !.status = .., !.locked = ..]`), which is the same in TLA+ and which the
SMT backend encodes rightly; with two updates of one element it does not. Claims of several
rows are in the order of their numbers by a function from `1..n`, and not by a recursion.
A `CASE` has arms that exclude each other, and an `OTHER`. Induction over the numbers is possible where
its step is a set: a least counterexample exists (`WFMin`), as in `Order` and where a page turns
back. What is proved about a part's operator once (`FinishWrites`, `WithoutRemoves`, `PushedOut`,
`TailOfABatch`, `SliceIsRows`) is a lemma with its own hypotheses, and cited by name.

### Only model-checked

* All liveness (`EventuallySettled`, `JobsComeToRest`, `UnneededLibraryIsEmptied`): fairness is
  beyond the prover.
* The four properties that are violated, each in its own run.

Every other property of a run is the conclusion of a theorem.

## What is left out, and why it may be

* SQL statements are atomic and see the latest commit; where a transaction sums up what others are
  changing, it is modelled in two steps (`ManagedDispatch`). Two claims that run on overlapping
  snapshots are not modelled (`FOR UPDATE SKIP LOCKED` keeps them from the same row, not
  from two rows of one object); a hazard says so.
* Times are kept only as orders. Two of them are facts of `DeviceIssue`: the 5 seconds of a
  publish end within the minute after which a report is due, and 20 publishes within the 2
  minutes a batch is locked for.
* The platform's answers are any of the code's own classes. An HTTP 5xx counts as not
  carried out, as the code takes it.
* Units, teams and attachments take the path of people in `Dispatch` and `XinledaJobs`;
  several devices of a person are independent in `DeviceIssue`; attendance points are one
  switch in `FaceEnrollment`.
* Message formats, signatures, images and all queries: sequential, without shared state.
* In the console: rendering, charts, exports and file formats; what the pages without
  a form or a list do. One project, one customer and one record stand for all in
  `ConsoleKeys`: that keys of different projects differ is in their code (`detail(projectId)`).
* A list page is one row long in `Listing` and `MiniList`: what matters is the number of the
  page against the rows there are.
* In `ManagedDispatch` the choice of photos and times, the new record after a deleted one and a
  device that changes its vendor; in `ReportRuns` test modes, verification codes and the deletion
  of a configuration.

## Not modelled

* The Yongxin worker and the repeats inside its HTTP client (`yongxin_job_worker.rs`,
  `http_retry.rs`): the same job table as Xinleda's; a module of its own is planned.
* The Vendor B endpoint, the Qianyi worker, the Ningbo and Zhenhai adapters: message formats,
  and a lease that is `ManagedDispatch`'s with another transport.
* The MQTT poll loop and its channel, the connection pool under the face lock: they depend on
  buffering inside libraries that are not in the repository.
* The server's side of authentication, the CRUD of the administration API, warnings and
  alerts: transactions of one statement, whose constraints the database keeps.

## Plan

Written, with proofs: `EventQueue`, `Outbox`, `Dispatch`, `XinledaJobs`, `DeviceIssue`,
`FaceEnrollment`, the console (`ConsoleUsers` to `Console`), and `Edges` with its sixteen parts.
To come, in this order:

1. `YongxinJobs`: what `XinledaJobs` has, with the rate slot, the awaited response and the
   repeats inside the HTTP client; shares the claim with `XinledaJobs` where the SQL does.
2. Claims on snapshots: `ClaimEvent` in two steps, to see what `SKIP LOCKED` leaves open.
3. `VendorBLease`: a lease of 5 minutes, a stable job identifier, a growing attempt count.
4. More of what is there: the missing entry job after a failed statement, and units and teams
   in `XinledaJobs`; `EveryReportComesToRest` (liveness) in `DeviceIssue`; the face that an
   emptied library gets back from a call carried out late.

---------------------------- MODULE XinledaJobs ----------------------------
(***************************************************************************)
(* The job queue of the Xinleda platform (integration_jobs) and the worker *)
(* tasks of xinleda_job_worker.rs that push one account's personnel and    *)
(* attendance to it.  A job is leased, its input is read from the local    *)
(* tables, the platform is called, and the outcome is saved statement by   *)
(* statement; a platform that answers with a token is polled later.  The   *)
(* operator's retry button and a change of the account race with that.     *)
(*                                                                         *)
(* One binding (platform account) is modelled; its jobs are independent of *)
(* those of other bindings.  The outbox in front of the queue is reduced   *)
(* to what Outbox shows of it: the events of one person are dispatched in  *)
(* order, each at least once, under an idempotency key.  Waiting times     *)
(* (backoff, polling interval, rate slots) are left out: a job may be      *)
(* claimed at any moment after it was released.                            *)
(***************************************************************************)
EXTENDS Naturals, Sequences, FiniteSets

CONSTANTS
  Workers,      \* the worker tasks
  People,       \* rows of construction_workers
  MaxAttempts,  \* max_attempts of a job
  MaxEvents,    \* bound: domain events
  MaxFaults,    \* bound: restarts, failed and lost statements
  MaxPunches,   \* bound: attendance records
  MaxRetries,   \* bound: presses of the operator's retry button
  MaxSwitches,  \* bound: times the binding is disabled, or given another account
  MaxAccounts,  \* bound: accounts the binding is ever given
  MaxEither     \* bound: faults and switches together

ASSUME AttemptsAssumption == MaxAttempts \in Nat \ {0}
ASSUME BoundsAssumption   == /\ MaxEvents \in Nat  /\ MaxFaults \in Nat
                             /\ MaxPunches \in Nat /\ MaxSwitches \in Nat
                             /\ MaxRetries \in Nat /\ MaxAccounts \in Nat \ {0}
                             /\ MaxEither \in Nat

VARIABLES
  person,    \* the local row: is it there, and is its owner on the site
  changes,   \* outbox events of a person that were not dispatched yet
  events,    \* domain events so far
  jobs,      \* the table, in (created_at, id) order
  account,   \* the account in the binding's credentials
  enabled,   \* is_enabled of the binding
  mapped,    \* mapping of a person: the account it was made with, or 0
  attended,  \* attendance events that have a mapping
  workers,
  asked,     \* retry requests that have read a job's status and not yet written
  retries, faults, switches,
  reported,  \* history: the last entry or exit of a person that reached the platform
  straddled, \* history: jobs a task was working on when the account changed
  retried,   \* history: jobs the operator has reset
  missed     \* history: people with a change that was dispatched to a disabled binding

outside == <<person, changes, events, account, enabled>>
bounds  == <<asked, retries, faults, switches>>
history == <<reported, straddled, retried, missed>>
vars    == <<jobs, mapped, attended, outside, workers, bounds, history>>

JobIds   == DOMAIN jobs
Accounts == 1..MaxAccounts
MaxJobs  == 2 * MaxEvents * Cardinality(People)
Active   == {"pending", "retry", "awaiting_result", "waiting_dependency", "processing"}
Finished == {"success", "failed", "delivery_unknown", "disabled"}

Job == [op : {"worker.sync", "entry_exit.sync", "attendance.sync"},
        person : People, event : 1..MaxEvents,
        update : BOOLEAN,                    \* the event's operation is "update"
        status : {"waiting_data"} \cup Active \cup Finished,
        lease : {"none", "live", "expired"},  \* locked_until against NOW()
        attempts : Nat,
        token : 0..MaxAccounts,              \* external_request_id: the account that issued it
        accepted : Nat,                      \* history: its writes that reached the platform
        excused : Nat]                       \* history: losses and retries that explain a further one

Worker == [pc : {"idle", "claimed", "push", "answered", "mapped", "finishing"},
           job : Nat, polls : BOOLEAN, attempts : Nat,
           account : 0..MaxAccounts,         \* the credentials that were loaded
           report : {"none", "entry", "exit"},
           answer : {"none", "token", "done", "pending", "retryable", "permanent", "unknown"}]

Event == [event : 1..MaxEvents, update : BOOLEAN, entryExit : BOOLEAN]

Idle == [pc |-> "idle", job |-> 0, polls |-> FALSE, attempts |-> 0, account |-> 0,
         report |-> "none", answer |-> "none"]

Working(w) == workers[w].pc # "idle"
JobOf(w)   == jobs[workers[w].job]

TypeOK ==
  /\ person \in [People -> {"none", "working", "left", "removed"}]
  /\ changes \in [People -> Seq(Event)]
  /\ events \in 0..MaxEvents
  /\ jobs \in Seq(Job)
  /\ account \in Accounts /\ enabled \in BOOLEAN
  /\ mapped \in [People -> 0..MaxAccounts]
  /\ attended \subseteq 1..MaxEvents
  /\ workers \in [Workers -> Worker]
  /\ \A w \in Workers : Working(w) => workers[w].job \in JobIds
  /\ asked \subseteq JobIds /\ retries \in Nat /\ faults \in Nat /\ switches \in Nat
  /\ reported \in [People -> {"none", "entry", "exit"}]
  /\ straddled \subseteq JobIds /\ retried \subseteq JobIds /\ missed \subseteq People

Init ==
  /\ person = [p \in People |-> "none"] /\ changes = [p \in People |-> <<>>] /\ events = 0
  /\ jobs = <<>>
  /\ account = 1 /\ enabled = TRUE
  /\ mapped = [p \in People |-> 0] /\ attended = {}
  /\ workers = [w \in Workers |-> Idle]
  /\ asked = {} /\ retries = 0 /\ faults = 0 /\ switches = 0
  /\ reported = [p \in People |-> "none"] /\ straddled = {} /\ retried = {} /\ missed = {}

-----------------------------------------------------------------------------
(* Domain writes and their dispatch *)

(* A write to a person's row, with the event its trigger inserts. *)
Written(p, from, to, update, entryExit) ==
  /\ events < MaxEvents
  /\ person[p] \in from
  /\ person' = [person EXCEPT ![p] = to]
  /\ events' = events + 1
  /\ changes' = [changes EXCEPT ![p] = Append(@,
                   [event |-> events + 1, update |-> update, entryExit |-> entryExit])]
  /\ UNCHANGED <<jobs, mapped, attended, account, enabled, workers, bounds, history>>

\* Mutant: the trigger does not notice that the entry or exit time changed.
LeaveUnnoticed(p) == Written(p, {"working"}, "left", TRUE, FALSE)

Hire(p)   == Written(p, {"none"}, "working", FALSE, FALSE)
Leave(p)  == Written(p, {"working"}, "left", TRUE, TRUE)
Return(p) == Written(p, {"left"}, "working", TRUE, TRUE)

\* Deleting a person sets is_deleted: for the trigger an update like any other.
Remove(p) == Written(p, {"working", "left"}, "removed", TRUE, FALSE)

NewJob(op, p, e, update) ==
  [op |-> op, person |-> p, event |-> e, update |-> update, status |-> "pending",
   lease |-> "none", attempts |-> 0, token |-> 0, accepted |-> 0, excused |-> 0]

(* INSERT ... ON CONFLICT (idempotency_key) DO NOTHING into the table s. *)
Inserted(s, op, p, e, update) ==
  IF \E j \in DOMAIN s : s[j].op = op /\ s[j].person = p /\ s[j].event = e
  THEN s
  ELSE Append(s, NewJob(op, p, e, update))

(* The dispatcher turns the oldest event of a person into jobs. *)
Dispatch(p) ==
  /\ changes[p] # <<>>
  /\ LET c == Head(changes[p])
         s == Inserted(jobs, "worker.sync", p, c.event, c.update)
     IN  jobs' = IF ~enabled THEN jobs
                 ELSE IF c.entryExit THEN Inserted(s, "entry_exit.sync", p, c.event, c.update)
                 ELSE s
  /\ changes' = [changes EXCEPT ![p] = Tail(@)]
  /\ missed' = missed \cup {q \in {p} : ~enabled}
  /\ UNCHANGED <<person, events, account, enabled, mapped, attended, workers, bounds, reported, straddled, retried>>

RecordAttendance(p) ==
  /\ events < MaxEvents /\ person[p] = "working" /\ enabled
  /\ Cardinality({j \in JobIds : jobs[j].op = "attendance.sync"}) < MaxPunches
  /\ events' = events + 1
  /\ jobs' = Inserted(jobs, "attendance.sync", p, events + 1, FALSE)
  /\ UNCHANGED <<person, changes, account, enabled, mapped, attended, workers, bounds, history>>

Switch == /\ switches < MaxSwitches /\ faults + switches < MaxEither
          /\ switches' = switches + 1

DisableBinding ==
  /\ enabled
  /\ Switch
  /\ enabled' = FALSE
  /\ UNCHANGED <<jobs, mapped, attended, person, changes, events, account, workers, asked,
                 retries, faults, history>>

(* The bootstrap of an enabled configuration sends everybody present again. *)
Bootstrapping ==
  /\ events < MaxEvents
  /\ events' = events + 1
  /\ changes' = [p \in People |->
                   IF person[p] \in {"working", "left"}
                   THEN Append(changes[p], [event |-> events + 1, update |-> FALSE, entryExit |-> FALSE])
                   ELSE changes[p]]
  /\ enabled' = TRUE
  /\ UNCHANGED <<person, workers, asked, retries, faults, reported, retried, missed>>

EnableBinding ==
  /\ ~enabled /\ Bootstrapping
  /\ UNCHANGED <<jobs, mapped, attended, account, switches, straddled>>

Retired(e) == IF e.status \in Finished THEN e
              ELSE [e EXCEPT !.status = "disabled", !.lease = "none"]

\* Mutant: the mappings of the old account stay.
ChangeAccountOnly ==
  /\ account < MaxAccounts /\ Bootstrapping
  /\ Switch
  /\ account' = account + 1
  /\ UNCHANGED <<mapped, attended>>
  /\ jobs' = [j \in JobIds |-> Retired(jobs[j])]
  /\ straddled' = straddled \cup {workers[w].job : w \in {v \in Workers : Working(v)}}

(* With a changed account or project code, the mappings of the old one are  *)
(* dropped and its open jobs disabled, those being processed included.      *)
ChangeAccount ==
  /\ account < MaxAccounts /\ Bootstrapping
  /\ Switch
  /\ account' = account + 1
  /\ mapped' = [p \in People |-> 0] /\ attended' = {}
  /\ jobs' = [j \in JobIds |-> Retired(jobs[j])]
  /\ straddled' = straddled \cup {workers[w].job : w \in {v \in Workers : Working(v)}}

-----------------------------------------------------------------------------
(* Claiming and preparing *)

SameEntity(i, j) ==
  /\ jobs[i].person = jobs[j].person
  /\ jobs[i].op = "attendance.sync" <=> jobs[j].op = "attendance.sync"
  /\ jobs[i].op = "attendance.sync" => jobs[i].event = jobs[j].event

EarlierActive(j) == \E i \in JobIds : i < j /\ SameEntity(i, j) /\ jobs[i].status \in Active

\* Mutant: the claim query does not look at locked_until.
ClaimableThoughLocked(j) == enabled /\ jobs[j].status \in Active /\ ~EarlierActive(j)

\* Mutant: a job left behind by a dead task is not taken over.
ClaimableOnce(j) ==
  enabled /\ jobs[j].status \in Active \ {"processing"} /\ ~EarlierActive(j)

Claimable(j) == /\ enabled
                /\ jobs[j].status \in Active /\ jobs[j].lease # "live"
                /\ ~EarlierActive(j)

Leased(e) == [e EXCEPT !.status = "processing", !.lease = "live",
                          !.attempts = e.attempts + 1]

\* Mutant: only the status says that there is a token to poll.
ClaimJobByStatus(w, j) ==
  /\ workers[w].pc = "idle"
  /\ Claimable(j)
  /\ jobs' = [jobs EXCEPT ![j] = Leased(jobs[j])]
  /\ workers' = [workers EXCEPT ![w] =
       [Idle EXCEPT !.pc = "claimed", !.job = j, !.attempts = jobs[j].attempts + 1,
                    !.account = jobs[j].token,
                    !.polls = jobs[j].status = "awaiting_result"]]
  /\ UNCHANGED <<mapped, attended, outside, bounds, history>>

ClaimJob(w, j) ==
  /\ workers[w].pc = "idle"
  /\ Claimable(j)
  /\ jobs' = [jobs EXCEPT ![j] = Leased(jobs[j])]
  /\ workers' = [workers EXCEPT ![w] =
       [Idle EXCEPT !.pc = "claimed", !.job = j, !.attempts = jobs[j].attempts + 1,
                    !.account = jobs[j].token,
                    !.polls = jobs[j].status = "awaiting_result" \/ jobs[j].token # 0]]
  /\ UNCHANGED <<mapped, attended, outside, bounds, history>>

(* A settling UPDATE: keyed by the job alone, whoever holds its lease. *)
Settle(w, e) ==
  /\ jobs' = [jobs EXCEPT ![workers[w].job] = [e EXCEPT !.lease = "none"]]
  /\ workers' = [workers EXCEPT ![w] = Idle]

\* Mutant: a lost connection is retried like a refusal.
IssueRetryingUnknown(w, issue) ==
  Settle(w, CASE issue = "data"       -> [JobOf(w) EXCEPT !.status = "waiting_data"]
              [] issue = "dependency" -> [JobOf(w) EXCEPT !.status = "waiting_dependency"]
              [] issue # "permanent" /\ workers[w].attempts < MaxAttempts
                                      -> [JobOf(w) EXCEPT !.status = "retry"]
              [] OTHER                -> [JobOf(w) EXCEPT !.status = "failed"])

(* handle_issue: a failed job waits for the next try, for data, or forever. *)
Issue(w, issue) ==
  Settle(w, CASE issue = "data"       -> [JobOf(w) EXCEPT !.status = "waiting_data"]
              [] issue = "dependency" -> [JobOf(w) EXCEPT !.status = "waiting_dependency",
                                            !.attempts = IF JobOf(w).attempts > 0
                                                         THEN JobOf(w).attempts - 1 ELSE 0]
              [] issue = "retryable" /\ workers[w].attempts < MaxAttempts
                                      -> [JobOf(w) EXCEPT !.status = "retry"]
              [] issue = "unknown"    -> [JobOf(w) EXCEPT !.status = "delivery_unknown"]
              [] OTHER                -> [JobOf(w) EXCEPT !.status = "failed"])

Preparing(w) == workers[w].pc = "claimed"

\* Mutant: a status that the table does not know.
FindDisabledSkipped(w) ==
  /\ Preparing(w) /\ ~enabled
  /\ Settle(w, [JobOf(w) EXCEPT !.status = "skipped"])
  /\ UNCHANGED <<mapped, attended, outside, bounds, history>>

(* load_binding_config finds nothing. *)
FindDisabled(w) ==
  /\ Preparing(w) /\ ~enabled
  /\ Settle(w, [JobOf(w) EXCEPT !.status = "disabled"])
  /\ UNCHANGED <<mapped, attended, outside, bounds, history>>

AlreadySynced(w) ==
  LET j == JobOf(w) IN
  \/ j.op = "worker.sync" /\ ~j.update /\ mapped[j.person] # 0
  \/ j.op = "attendance.sync" /\ j.event \in attended

SkipSynced(w) ==
  /\ Preparing(w) /\ enabled /\ ~workers[w].polls /\ AlreadySynced(w)
  /\ Settle(w, [JobOf(w) EXCEPT !.status = "success"])
  /\ UNCHANGED <<mapped, attended, outside, bounds, history>>

(* The credentials are unusable, the person is gone or lacks a field; or a  *)
(* read failed.                                                             *)
LackData(w) ==
  /\ Preparing(w) /\ enabled
  /\ \E issue \in {"data", "retryable"} : Issue(w, issue)
  /\ UNCHANGED <<mapped, attended, outside, bounds, history>>

AwaitDependency(w) ==
  /\ Preparing(w) /\ enabled /\ ~workers[w].polls /\ ~AlreadySynced(w)
  /\ JobOf(w).op = "attendance.sync" /\ mapped[JobOf(w).person] = 0
  /\ Issue(w, "dependency")
  /\ UNCHANGED <<mapped, attended, outside, bounds, history>>

Loadable(p) == person[p] \in {"working", "left"}

Presence(p) == IF person[p] = "left" THEN "exit" ELSE "entry"

(* The request is composed from what the tables hold now. *)
Compose(w) ==
  /\ Preparing(w) /\ enabled /\ ~workers[w].polls /\ ~AlreadySynced(w)
  /\ Loadable(JobOf(w).person)
  /\ JobOf(w).op = "attendance.sync" => mapped[JobOf(w).person] # 0
  /\ workers' = [workers EXCEPT ![w] = [@ EXCEPT !.pc = "push", !.account = account,
       !.report = IF JobOf(w).op # "entry_exit.sync" THEN "none" ELSE Presence(JobOf(w).person)]]
  /\ UNCHANGED <<jobs, mapped, attended, outside, bounds, history>>

-----------------------------------------------------------------------------
(* Calling the platform *)

Answered(w, answer) ==
  workers' = [workers EXCEPT ![w] = [@ EXCEPT !.pc = "answered", !.answer = answer]]

Pushing(w) == workers[w].pc = "push"

(* The write reaches the platform, whatever the caller gets to see of that: *)
(* a token, a result, or a broken connection.                               *)
Accepted(w, answer) ==
  /\ Pushing(w)
  /\ Answered(w, answer)
  /\ jobs' = [jobs EXCEPT ![workers[w].job].accepted = @ + 1]
  /\ reported' = IF workers[w].report = "none" THEN reported
                 ELSE [reported EXCEPT ![JobOf(w).person] = workers[w].report]
  /\ UNCHANGED <<mapped, attended, outside, bounds, straddled, retried, missed>>

(* The platform refuses (429, 5xx or code -5; any other code), the photo    *)
(* could not be uploaded, or the connection broke before the request.       *)
Refused(w, answer) ==
  /\ Pushing(w)
  /\ Answered(w, answer)
  /\ UNCHANGED <<jobs, mapped, attended, outside, bounds, history>>

Push(w) == \/ \E a \in {"token", "done", "unknown"} : Accepted(w, a)
           \/ \E a \in {"retryable", "permanent", "unknown"} : Refused(w, a)

(* unifiedlog.get: still running, done, or failed; 24 hours have passed; or *)
(* the call itself failed.                                                  *)
PollResult(w, answer) ==
  /\ Preparing(w) /\ enabled /\ workers[w].polls
  /\ Answered(w, answer)
  /\ UNCHANGED <<jobs, mapped, attended, outside, bounds, history>>

PollResolved(w) == \E a \in {"done", "permanent"} : PollResult(w, a)
Poll(w) == PollResolved(w) \/ \E a \in {"pending", "retryable"} : PollResult(w, a)

-----------------------------------------------------------------------------
(* Saving the outcome, one statement at a time *)

Got(w, answer) == workers[w].pc = "answered" /\ workers[w].answer = answer

SaveToken(w) ==
  /\ Got(w, "token")
  /\ Settle(w, [JobOf(w) EXCEPT !.status = "awaiting_result", !.token = workers[w].account])
  /\ UNCHANGED <<mapped, attended, outside, bounds, history>>

KeepPolling(w) ==
  /\ Got(w, "pending")
  /\ Settle(w, [JobOf(w) EXCEPT !.status = "awaiting_result", !.attempts = 0])
  /\ UNCHANGED <<mapped, attended, outside, bounds, history>>

SaveMapping(w) ==
  /\ Got(w, "done")
  /\ workers' = [workers EXCEPT ![w].pc = "mapped"]
  /\ mapped' = IF JobOf(w).op = "worker.sync"
               THEN [mapped EXCEPT ![JobOf(w).person] = workers[w].account] ELSE mapped
  /\ attended' = attended \cup {e \in {JobOf(w).event} : JobOf(w).op = "attendance.sync"}
  /\ UNCHANGED <<jobs, outside, bounds, history>>

(* A person the platform knows now is entered next. *)
EnqueueEntry(w) ==
  /\ workers[w].pc = "mapped"
  /\ workers' = [workers EXCEPT ![w].pc = "finishing"]
  /\ jobs' = IF JobOf(w).op # "worker.sync" THEN jobs
             ELSE Inserted(jobs, "entry_exit.sync", JobOf(w).person, JobOf(w).event, JobOf(w).update)
  /\ UNCHANGED <<mapped, attended, outside, bounds, history>>

CompleteJob(w) ==
  /\ workers[w].pc = "finishing"
  /\ Settle(w, [JobOf(w) EXCEPT !.status = "success"])
  /\ UNCHANGED <<mapped, attended, outside, bounds, history>>

HandleIssue(w) ==
  /\ \E a \in {"retryable", "permanent", "unknown"} : Got(w, a) /\ Issue(w, a)
  /\ UNCHANGED <<mapped, attended, outside, bounds, history>>

-----------------------------------------------------------------------------
(* Failures, the operator, and time *)

Saving(w) == workers[w].pc \in {"answered", "mapped", "finishing"}

(* What was written to the platform in this claim is not on record yet. *)
Unrecorded(w) == /\ Saving(w) /\ ~workers[w].polls
                 /\ workers[w].answer \in {"token", "done", "unknown"}

Excused(s, W) == [j \in DOMAIN s |->
  IF \E w \in W : Unrecorded(w) /\ workers[w].job = j THEN [s[j] EXCEPT !.excused = s[j].excused + 1] ELSE s[j]]

Fault == /\ faults < MaxFaults /\ faults + switches < MaxEither
         /\ faults' = faults + 1 /\ UNCHANGED <<asked, retries, switches>>

(* A statement fails: the token is lost (delivery unknown), anything later  *)
(* is an ordinary retry.                                                    *)
StatementFails(w) ==
  /\ Fault
  /\ \/ Got(w, "token") /\ Answered(w, "unknown") /\ UNCHANGED jobs
     \/ /\ Got(w, "done") \/ Got(w, "pending") \/ workers[w].pc \in {"mapped", "finishing"}
        /\ Answered(w, "retryable")
        /\ jobs' = Excused(jobs, {w})
  /\ UNCHANGED <<mapped, attended, outside, history>>

(* handle_issue could not write: the job stays leased. *)
IssueLost(w) ==
  /\ Fault
  /\ \E a \in {"retryable", "permanent", "unknown"} : Got(w, a)
  /\ jobs' = Excused(jobs, {w})
  /\ workers' = [workers EXCEPT ![w] = Idle]
  /\ UNCHANGED <<mapped, attended, outside, history>>

Restart ==
  /\ Fault
  /\ jobs' = Excused(jobs, Workers)
  /\ workers' = [w \in Workers |-> Idle]
  /\ UNCHANGED <<mapped, attended, outside, history>>

(* retry_platform_job reads the status, and later resets the job by id. *)
AskRetry(j) ==
  /\ retries < MaxRetries
  /\ jobs[j].status \notin {"delivery_unknown", "success", "processing"}
  /\ asked' = asked \cup {j} /\ retries' = retries + 1
  /\ UNCHANGED <<jobs, mapped, attended, outside, workers, faults, switches, history>>

RetryPlatformJob(j) ==
  /\ j \in asked
  /\ asked' = asked \ {j}
  /\ jobs' = [jobs EXCEPT ![j] = [@ EXCEPT !.status = "pending", !.lease = "none",
                                           !.attempts = 0, !.token = 0]]
  /\ retried' = retried \cup {j}
  /\ UNCHANGED <<mapped, attended, outside, workers, retries, faults, switches,
                 reported, straddled, missed>>

(* Ten minutes pass after a claim whose worker is gone. *)
LeaseEnds(j) ==
  /\ jobs[j].status = "processing" /\ jobs[j].lease = "live"
  /\ \A w \in Workers : ~(Working(w) /\ workers[w].job = j)
  /\ jobs' = [jobs EXCEPT ![j].lease = "expired"]
  /\ UNCHANGED <<mapped, attended, outside, workers, bounds, history>>

-----------------------------------------------------------------------------
DomainStep == \E p \in People : Hire(p) \/ Leave(p) \/ Return(p) \/ Remove(p) \/ RecordAttendance(p)

BindingStep == DisableBinding \/ EnableBinding \/ ChangeAccount

ProcessJob(w) ==
  \/ FindDisabled(w) \/ SkipSynced(w) \/ LackData(w) \/ AwaitDependency(w)
  \/ Compose(w) \/ Push(w) \/ Poll(w)
  \/ SaveToken(w) \/ KeepPolling(w) \/ SaveMapping(w) \/ EnqueueEntry(w)
  \/ CompleteJob(w) \/ HandleIssue(w)

ProcessOnePending(w) == ProcessJob(w) \/ \E j \in JobIds : ClaimJob(w, j)

Failure == Restart \/ \E w \in Workers : StatementFails(w) \/ IssueLost(w)

Operator == \E j \in JobIds : AskRetry(j) \/ RetryPlatformJob(j)

Next == \/ DomainStep \/ BindingStep
        \/ \E p \in People : Dispatch(p)
        \/ \E w \in Workers : ProcessOnePending(w)
        \/ Failure \/ Operator
        \/ \E j \in JobIds : LeaseEnds(j)

Spec == Init /\ [][Next]_vars

(* The tasks keep polling, the job that waits longest is claimed first,     *)
(* calls end (30 second timeouts), leases run out, and a poll is not        *)
(* answered "running" for ever: after 24 hours it fails.                    *)
Fairness ==
  /\ \A w \in Workers : WF_vars(ProcessJob(w)) /\ SF_vars(PollResolved(w))
  /\ \A j \in 1..MaxJobs :
       /\ SF_vars(j \in JobIds /\ \E w \in Workers : ClaimJob(w, j))
       /\ WF_vars(j \in JobIds /\ LeaseEnds(j))

FairSpec == Spec /\ Fairness

-----------------------------------------------------------------------------
(* What the queue promises. *)

(* "Not sent again, to keep the platform from getting duplicates", says the *)
(* message for a lost connection.  Each delivery of a job after the first   *)
(* is explained by a process that died, or a statement that failed, between *)
(* the delivery and its record.  Tokens, mappings and delivery_unknown keep *)
(* every other path from sending a job again that nobody has reset.         *)
RedeliveryIsExplained == \A j \in JobIds \ retried : jobs[j].accepted <= 1 + jobs[j].excused

(* Two tasks never work on the same person, or the same record, at a time,  *)
(* except on a job that was reset by hand, or overtaken by a new account.   *)
OneJobPerEntity ==
  \A v, w \in Workers : Working(v) /\ Working(w) /\ v # w =>
    \/ ~SameEntity(workers[v].job, workers[w].job)
    \/ {workers[v].job, workers[w].job} \cap (retried \cup straddled) # {}

(* Once nothing of a person is in flight and all entry and exit jobs have   *)
(* succeeded, what the platform was last told is where the person is:       *)
(* provided no change was dispatched while the binding was disabled, which  *)
(* enabling it does not make up for.                                        *)
ReportedInOrder ==
  \A p \in People \ missed :
    /\ account = 1 /\ changes[p] = <<>>
    /\ person[p] \in {"working", "left"} /\ reported[p] # "none"
    /\ \A j \in JobIds : jobs[j].person = p =>
         j \notin retried /\ (jobs[j].op = "entry_exit.sync" => jobs[j].status = "success")
    => reported[p] = Presence(p)

(* A person who was entered and is deleted afterwards is reported as gone,  *)
(* once everything that the deletion caused has come to rest.               *)
RemovedHasLeft ==
  \A p \in People :
    /\ person[p] = "removed" /\ changes[p] = <<>>
    /\ \A j \in JobIds : jobs[j].person = p => jobs[j].status \notin Active
    => reported[p] # "entry"

(* A mapping belongs to the account it is used with, unless a task was      *)
(* working on its job while the account changed.                            *)
MappingIsOfThisAccount ==
  \A p \in People :
    mapped[p] \in {0, account}
      \/ \E j \in straddled : jobs[j].person = p /\ jobs[j].op = "worker.sync"

(* A job with a token is polled, never written again, as long as the        *)
(* operator does not take the token away.                                   *)
TokenIsPolled ==
  [][\A j \in JobIds \ retried :
       jobs[j].token # 0 => jobs'[j].accepted = jobs[j].accepted]_vars

Open(j) == j \in JobIds /\ jobs[j].status \in Active

(* Every personnel job comes to rest as long as its binding is enabled:     *)
(* retries are counted, polling ends, and a lease whose holder died is      *)
(* taken over.                                                              *)
JobsComeToRest ==
  \A j \in 1..MaxJobs :
    (Open(j) /\ jobs[j].op # "attendance.sync") ~> (~Open(j) \/ ~enabled)

=============================================================================

------------------------------ MODULE ReportRuns ------------------------------
(***************************************************************************)
(* The runs that forward reports: the desk and the schedule put them into  *)
(* a queue (admin/report_forwarding.rs), and the workers, each with one    *)
(* browser, take them under a lease of two minutes that a thread of their  *)
(* own renews (report-worker: repository.py, executor.py, main.py). All    *)
(* runs here are production runs of the workers' own target.               *)
(***************************************************************************)
EXTENDS Naturals, FiniteSets

CONSTANTS Reports,      \* runs, numbered as they are created
          ReportConfigs, Browsers,
          MaxRunRetries,    \* REPORT_FORWARD_MAX_RETRIES
          MaxUpsets,        \* deaths, stalls, cancellations and changes of a type
          NOBODY

ASSUME ReportRunsAssumption ==
  /\ Reports \subseteq Nat \ {0} /\ ReportConfigs # {}
  /\ MaxRunRetries \in Nat /\ MaxUpsets \in Nat
  /\ NOBODY \notin Browsers

VARIABLES runs,     \* [Reports -> a row of report_forward_runs]
          byHand,   \* configurations whose verification_type is manual
          switching,    \* configurations an update of that type found without an active run
          scheduledToday,
          cooling,  \* a run has ended, or begun to wait for its retry, within the cooldown
          browser,  \* [Browsers -> the run it executes, its phase, the type it read]
          stalls, upsets, raced, putBack
\* stalls counts the leases and cooldowns that ended before their worker had, raced the
\* runs whose configuration changed its type after all, putBack those that had succeeded.

reportVars == <<runs, byHand, switching, scheduledToday, cooling, browser, stalls, upsets, raced, putBack>>

RunStatuses == {"none", "pending", "running", "cancelling", "cancelled", "success", "failed"}
ActiveRun == {"pending", "running", "cancelling"}
Resting == [run |-> 0, phase |-> "idle", manual |-> FALSE]

ReportRow == [status : RunStatuses, config : ReportConfigs, by : {"scheduled", "manual", "retry"},
              cancel : BOOLEAN, attempts : Nat, lease : {"none", "live", "over"},
              owner : Browsers \cup {NOBODY}]
BrowserWork == [run : Reports \cup {0}, manual : BOOLEAN,
                phase : {"idle", "starting", "working", "finishing", "failing", "cancelling",
                         "completed", "closing"}]

\* A worker with a row to close; after that it writes the last event and tidies up.
Busy(b) == browser[b].phase \in {"starting", "working", "finishing", "failing", "cancelling"}
Trailing(b) == browser[b].phase \in {"completed", "closing"}

ReportRunsTypeOK ==
  /\ runs \in [Reports -> ReportRow]
  /\ byHand \subseteq ReportConfigs /\ switching \subseteq ReportConfigs /\ scheduledToday \subseteq ReportConfigs
  /\ cooling \in BOOLEAN
  /\ browser \in [Browsers -> BrowserWork]
  /\ \A b \in Browsers : browser[b].run = 0 <=> browser[b].phase = "idle"
  /\ stalls \in 0 .. MaxUpsets /\ upsets \in 0 .. MaxUpsets
  /\ raced \subseteq Reports /\ putBack \subseteq Reports

ReportRunsInit ==
  /\ runs = [r \in Reports |-> [status |-> "none", config |-> CHOOSE c \in ReportConfigs : TRUE, by |-> "manual",
                                cancel |-> FALSE, attempts |-> 0, lease |-> "none", owner |-> NOBODY]]
  /\ byHand \in SUBSET ReportConfigs /\ switching = {} /\ scheduledToday = {} /\ cooling = FALSE
  /\ browser = [b \in Browsers |-> Resting]
  /\ stalls = 0 /\ upsets = 0 /\ raced = {} /\ putBack = {}
-----------------------------------------------------------------------------
Manual(r) == runs[r].config \in byHand
Live == {r \in Reports : runs[r].status \in {"running", "cancelling"} /\ runs[r].lease = "live"}

\* A manual run whose worker died is over.
Interrupted == {r \in Reports : Manual(r) /\ runs[r].status \in {"running", "cancelling"} /\ runs[r].lease = "over"}
Interrupt == [r \in Reports |-> IF r \in Interrupted THEN [runs[r] EXCEPT !.status = "failed", !.lease = "none"]
                                ELSE runs[r]]

\* Mutant: a run that is being cancelled does not count as one that runs.
ClaimableWhileCancelling(r) ==
  /\ \/ runs[r].status = "pending"
     \/ runs[r].status \in {"running", "cancelling"} /\ runs[r].lease = "over" /\ ~Manual(r)
  /\ ~(runs[r].by = "scheduled" /\ Manual(r))
  /\ ~runs[r].cancel
  /\ ~cooling /\ Interrupted = {}
  /\ \A s \in Live : runs[s].status /= "running"

\* Mutant: manual runs are recovered like the others.
ClaimableByHand(r) ==
  /\ \/ runs[r].status = "pending"
     \/ runs[r].status \in {"running", "cancelling"} /\ runs[r].lease = "over"
  /\ ~runs[r].cancel
  /\ ~cooling
  /\ Live = {}

Claimable(r) ==
  /\ \/ runs[r].status = "pending"
     \/ runs[r].status \in {"running", "cancelling"} /\ runs[r].lease = "over" /\ ~Manual(r)
  /\ ~(runs[r].by = "scheduled" /\ Manual(r))
  /\ ~runs[r].cancel
  /\ ~cooling /\ Interrupted = {}
  /\ Live = {}

Priority(r) == CASE runs[r].by = "retry" -> 90 [] runs[r].by = "manual" -> 80 [] runs[r].by = "scheduled" -> 50
Before(r, s) == Priority(r) > Priority(s) \/ (Priority(r) = Priority(s) /\ r < s)

Claimed(row, b) == [row EXCEPT !.status = "running", !.lease = "live", !.owner = b, !.attempts = @ + 1]

\* claim_run, whose statements the advisory lock keeps apart from other claims.
ClaimRun(b) ==
  /\ browser[b] = Resting
  /\ \/ /\ Interrupted # {}
        /\ runs' = Interrupt /\ cooling' = TRUE
        /\ UNCHANGED browser
     \/ \E r \in Reports :
          /\ Claimable(r) /\ \A s \in Reports \ {r} : Claimable(s) => Before(r, s)
          /\ runs' = [runs EXCEPT ![r] = Claimed(runs[r], b)]
          /\ browser' = [browser EXCEPT ![b] = [run |-> r, phase |-> "starting", manual |-> FALSE]]
          /\ UNCHANGED cooling
  /\ UNCHANGED <<byHand, switching, scheduledToday, stalls, upsets, raced, putBack>>

Upset == upsets < MaxUpsets /\ upsets' = upsets + 1

Phased(b, phase) == [browser EXCEPT ![b].phase = phase]

\* The executor reads its configuration once; a stage begins with a look at cancel_requested.
StartRun(b) ==
  /\ browser[b].phase = "starting"
  /\ browser' = [browser EXCEPT ![b] = [@ EXCEPT !.phase = "working", !.manual = Manual(browser[b].run)]]
  /\ UNCHANGED <<runs, byHand, switching, scheduledToday, cooling, stalls, upsets, raced, putBack>>

CheckCancelled(b) ==
  /\ browser[b].phase = "working"
  /\ browser' = Phased(b, IF runs[browser[b].run].cancel THEN "cancelling" ELSE "finishing")
  /\ UNCHANGED <<runs, byHand, switching, scheduledToday, cooling, stalls, upsets, raced, putBack>>

\* The statement that completes a run may be what fails.
RunFails(b) ==
  /\ browser[b].phase \in {"working", "finishing"}
  /\ browser' = Phased(b, "failing")
  /\ UNCHANGED <<runs, byHand, switching, scheduledToday, cooling, stalls, upsets, raced, putBack>>

\* complete, by id alone; its worker then has that phase.
Complete(b, status, phase) ==
  /\ runs' = [runs EXCEPT ![browser[b].run] = [@ EXCEPT !.status = status, !.lease = "none"]]
  /\ browser' = IF phase = "idle" THEN [browser EXCEPT ![b] = Resting] ELSE Phased(b, phase)
  /\ cooling' = TRUE
  /\ UNCHANGED <<byHand, switching, scheduledToday, stalls, raced>>

\* Mutant: a cancelled run is retried.
RetriableThoughCancelled(r) == runs[r].attempts <= MaxRunRetries

Retriable(r) == ~runs[r].cancel /\ runs[r].attempts <= MaxRunRetries

\* schedule_retry, whatever the status of the row
ScheduleRetry(b) ==
  /\ ~browser[b].manual /\ Retriable(browser[b].run)
  /\ runs' = [runs EXCEPT ![browser[b].run] =
                [@ EXCEPT !.status = "pending", !.lease = "none", !.owner = NOBODY]]
  /\ browser' = Phased(b, "closing")
  /\ cooling' = TRUE
  /\ UNCHANGED <<byHand, switching, scheduledToday, stalls, raced>>

\* What becomes of a run whose execution raised an exception
GiveUp(b) ==
  /\ browser[b].manual \/ ~Retriable(browser[b].run)
  /\ Complete(b, "failed", "closing")

\* A run that cannot begin is not retried: main closes it.
EndRun(b) ==
  /\ \/ browser[b].phase = "starting" /\ Complete(b, "failed", "idle")
     \/ browser[b].phase = "finishing" /\ Complete(b, "success", "completed")
     \/ browser[b].phase = "cancelling" /\ Complete(b, "cancelled", "closing")
     \/ browser[b].phase = "failing" /\ (ScheduleRetry(b) \/ GiveUp(b))
  /\ UNCHANGED <<upsets, putBack>>

\* The event that follows the success is inside the same try.
LastEventFails(b) ==
  /\ browser[b].phase = "completed" /\ Upset
  /\ \/ ScheduleRetry(b) /\ putBack' = putBack \cup {browser[b].run}
     \/ GiveUp(b) /\ UNCHANGED putBack

\* The event is written, the finally clause done.
Trail(b) ==
  /\ Trailing(b)
  /\ browser' = IF browser[b].phase = "completed" THEN Phased(b, "closing") ELSE [browser EXCEPT ![b] = Resting]
  /\ UNCHANGED <<runs, byHand, switching, scheduledToday, cooling, stalls, upsets, raced, putBack>>

\* An except or finally clause fails itself: main closes the run, whatever it is by then.
MainFails(b) ==
  /\ browser[b].phase \in {"cancelling", "failing", "completed", "closing"} /\ Upset
  /\ Complete(b, "failed", "idle") /\ UNCHANGED putBack

Heartbeat(b) ==
  /\ browser[b].phase # "idle"
  /\ LET row == runs[browser[b].run] IN
     /\ row.owner = b /\ row.status \in {"running", "cancelling"} /\ row.lease = "over"
     /\ runs' = [runs EXCEPT ![browser[b].run].lease = "live"]
  /\ UNCHANGED <<byHand, switching, scheduledToday, cooling, browser, stalls, upsets, raced, putBack>>

\* Two minutes without a heartbeat: the worker is dead, or stalled.
LeaseRunsOut(r) ==
  /\ runs[r].lease = "live"
  /\ runs' = [runs EXCEPT ![r].lease = "over"]
  /\ IF \E b \in Browsers : Busy(b) /\ browser[b].run = r
       THEN Upset /\ stalls' = stalls + 1
       ELSE UNCHANGED <<stalls, upsets>>
  /\ UNCHANGED <<byHand, switching, scheduledToday, cooling, browser, raced, putBack>>

\* Or it cannot write that the run failed, and forgets it.
WorkerDies(b) ==
  /\ browser[b].phase # "idle" /\ Upset
  /\ browser' = [browser EXCEPT ![b] = Resting]
  /\ UNCHANGED <<runs, byHand, switching, scheduledToday, cooling, stalls, raced, putBack>>

\* Ten minutes, unless configured otherwise; a worker that is not done by then has stalled.
CooldownEnds ==
  /\ cooling /\ cooling' = FALSE
  /\ IF \E b \in Browsers : Trailing(b)
       THEN Upset /\ stalls' = stalls + 1
       ELSE UNCHANGED <<stalls, upsets>>
  /\ UNCHANGED <<runs, byHand, switching, scheduledToday, browser, raced, putBack>>
-----------------------------------------------------------------------------
Unused == {r \in Reports : runs[r].status = "none"}
Insert(c, by) ==
  /\ \E r \in Unused :
       /\ \A s \in Unused : r <= s
       /\ runs' = [runs EXCEPT ![r] = [@ EXCEPT !.status = "pending", !.config = c, !.by = by]]
  /\ UNCHANGED <<byHand, switching, cooling, browser, stalls, upsets, raced, putBack>>

\* schedule_due: an automatic configuration has one run a day.
ScheduleDue(c) ==
  /\ c \notin byHand \cup scheduledToday
  /\ Insert(c, "scheduled") /\ scheduledToday' = scheduledToday \cup {c}

CreateRun(c) == Insert(c, "manual") /\ UNCHANGED scheduledToday

RetryRun(r) ==
  /\ runs[r].status \in {"failed", "cancelled"}
  /\ Insert(runs[r].config, "retry") /\ UNCHANGED scheduledToday

Withdrawn(row) ==
  [row EXCEPT !.cancel = TRUE, !.status = IF @ = "pending" THEN "cancelled" ELSE "cancelling"]

CancelRun(r) ==
  /\ runs[r].status \in {"pending", "running"} /\ Upset
  /\ runs' = [runs EXCEPT ![r] = Withdrawn(runs[r])]
  /\ cooling' = (cooling \/ runs[r].status = "pending")
  /\ UNCHANGED <<byHand, switching, scheduledToday, browser, stalls, raced, putBack>>

RunsOf(c) == {r \in Reports : runs[r].config = c /\ runs[r].status \in ActiveRun}

\* update_config refuses another type while a run is active, and then writes it.
FindNoRun(c) ==
  /\ RunsOf(c) = {} /\ c \notin switching /\ Upset
  /\ switching' = switching \cup {c}
  /\ UNCHANGED <<runs, byHand, scheduledToday, cooling, browser, stalls, raced, putBack>>
SwitchMode(c) ==
  /\ c \in switching
  /\ switching' = switching \ {c}
  /\ byHand' = IF c \in byHand THEN byHand \ {c} ELSE byHand \cup {c}
  /\ raced' = raced \cup RunsOf(c)
  /\ UNCHANGED <<runs, scheduledToday, cooling, browser, stalls, upsets, putBack>>

ReportRunsNext ==
  \/ \E b \in Browsers : \/ ClaimRun(b) \/ StartRun(b) \/ CheckCancelled(b) \/ RunFails(b)
                         \/ EndRun(b) \/ LastEventFails(b) \/ Trail(b) \/ MainFails(b)
                         \/ Heartbeat(b) \/ WorkerDies(b)
  \/ \E r \in Reports : LeaseRunsOut(r) \/ RetryRun(r) \/ CancelRun(r)
  \/ \E c \in ReportConfigs : ScheduleDue(c) \/ CreateRun(c) \/ FindNoRun(c) \/ SwitchMode(c)
  \/ CooldownEnds
-----------------------------------------------------------------------------
\* Both as long as no worker outlives its lease or the cooldown: what it does then it
\* does by the id of a run that may be another's, or over.

\* One run at a time, over all workers.
OneBrowserAtATime == stalls = 0 => Cardinality({b \in Browsers : Busy(b)}) <= 1

\* A run of a configuration that is verified by hand is executed once: a worker that
\* dies or fails does not have it taken up again, unless the configuration changed its
\* type after its update had found no run, or the run was put back after its success.
ManualRunsOnce ==
  stalls = 0 => \A r \in Reports \ (raced \cup putBack) :
    runs[r].status \in {"running", "cancelling"} /\ Manual(r) => runs[r].attempts <= 1

\* A run that was cancelled is not put back into the queue.
CancelledStaysOut == \A r \in Reports : runs[r].cancel => runs[r].status # "pending"
=============================================================================

--------------------------- MODULE ManagedDispatch ---------------------------
(***************************************************************************)
(* The photos of one managed attendance record, pushed to the devices of a *)
(* project (managed_attendance_dispatcher.rs): each device has a job, a    *)
(* dispatcher claims all that are due under one lease of two minutes and   *)
(* pushes them one after the other, thirty seconds each, so that a batch   *)
(* can outlive its lease; a job is settled by its id alone, in a           *)
(* transaction that sums up the jobs as READ COMMITTED shows them: without *)
(* what another one has not committed. Meanwhile the desk disables,        *)
(* deletes, regenerates and resends (construction/handler.rs,              *)
(* supplemental_attendance.rs); of its handlers each is one step, but for  *)
(* the two statements of a regeneration that leaves the day out.           *)
(***************************************************************************)
EXTENDS Naturals, Sequences, FiniteSets

CONSTANTS PushJobs,         \* one for each device, in the order they are claimed
          Pushers, MaxPushAttempts,
          MaxPushUpsets     \* lost answers, deaths, failed statements, overrun leases, and
                            \* what people do at the desk

ASSUME ManagedDispatchAssumption ==
  /\ PushJobs \subseteq Nat /\ IsFiniteSet(PushJobs) /\ PushJobs # {}
  /\ IsFiniteSet(Pushers) /\ MaxPushAttempts \in Nat \ {0} /\ MaxPushUpsets \in Nat

VARIABLES push,      \* [PushJobs -> a row of device_dispatch_jobs]; leased: locked_until is ahead
          sheet,     \* the record: planned_at has come, is_deleted, dispatch_status
          managed,   \* the configuration: enabled, deleted
          scrapped,   \* deleted devices
          removing,  \* devices whose deletion has skipped their jobs and not yet itself happened
          batch, pushed,    \* of each dispatcher: what it claimed and has left, how the first went
          drafts,    \* of each dispatcher: the status that its open transaction has summed up
          missed,    \* the dispatchers whose sum lacks what another committed since
          dropping,  \* of a regeneration that found nothing begun: the jobs it is to skip
          torn,      \* the status of the record was written without such a commit
          taken, unrecorded, shelved, pushUpsets
\* taken counts what a device was given since its job was last asked for, unrecorded
\* those of them that no row may tell of; shelved are the jobs that were cancelled
\* while nobody had them in hand.

summingVars == <<drafts, missed, dropping, torn>>
pushVars == <<push, sheet, managed, scrapped, removing, batch, pushed,
              drafts, missed, dropping, torn, taken, unrecorded, shelved, pushUpsets>>

PushStatuses == {"pending", "processing", "delivered", "failed", "skipped"}
PushResults == {"pending", "success", "failed"}
SheetStatuses == {"pending", "processing", "success", "failed", "skipped"}
Claims == [id : PushJobs, attempts : 1 .. MaxPushAttempts]

ManagedDispatchTypeOK ==
  /\ push \in [PushJobs -> [status : PushStatuses, result : PushResults, attempts : 0 .. MaxPushAttempts,
                            due : BOOLEAN, leased : BOOLEAN]]
  /\ sheet \in [planned : BOOLEAN, deleted : BOOLEAN, status : SheetStatuses]
  /\ managed \in [enabled : BOOLEAN, deleted : BOOLEAN]
  /\ scrapped \subseteq PushJobs /\ removing \subseteq PushJobs
  /\ batch \in [Pushers -> Seq(Claims)]
  /\ pushed \in [Pushers -> {"none", "accepted", "refused"}]
  /\ drafts \in [Pushers -> SheetStatuses \cup {"none"}] /\ missed \subseteq Pushers
  /\ dropping \subseteq SUBSET PushJobs /\ torn \in BOOLEAN
  /\ taken \in [PushJobs -> Nat] /\ unrecorded \in [PushJobs -> Nat] /\ shelved \subseteq PushJobs
  /\ pushUpsets \in 0 .. MaxPushUpsets

AskedFor == [status |-> "pending", result |-> "pending", attempts |-> 0, due |-> TRUE, leased |-> FALSE]

ManagedDispatchInit ==
  /\ push = [j \in PushJobs |-> AskedFor]
  /\ sheet = [planned |-> FALSE, deleted |-> FALSE, status |-> "pending"]
  /\ managed = [enabled |-> TRUE, deleted |-> FALSE]
  /\ scrapped = {} /\ removing = {}
  /\ batch = [d \in Pushers |-> <<>>] /\ pushed = [d \in Pushers |-> "none"]
  /\ drafts = [d \in Pushers |-> "none"] /\ missed = {} /\ dropping = {} /\ torn = FALSE
  /\ taken = [j \in PushJobs |-> 0] /\ unrecorded = [j \in PushJobs |-> 0] /\ shelved = {}
  /\ pushUpsets = 0
-----------------------------------------------------------------------------
InHand(j) == \E d \in Pushers : \E i \in DOMAIN batch[d] : batch[d][i].id = j
Skipped(row) == [row EXCEPT !.status = "skipped", !.leased = FALSE]

\* Whose transaction is open; the rows that such transactions have locked.
Summing == {d \in Pushers : drafts[d] # "none"}
Locked == {Head(batch[d]).id : d \in Summing} \cup UNION dropping

\* refresh_record_status: what the jobs of a record amount to.
SheetStatusOf(rows) ==
  IF \A j \in PushJobs : rows[j].result = "success" THEN "success"
  ELSE IF \E j \in PushJobs : rows[j].status \in {"pending", "processing"} THEN "processing"
  ELSE IF \E j \in PushJobs : rows[j].result = "failed" THEN "failed" ELSE "pending"

\* A claim passes over what is locked.
Eligible(j) ==
  /\ j \notin Locked
  /\ ~sheet.deleted /\ managed.enabled /\ ~managed.deleted /\ sheet.planned
  /\ push[j].attempts < MaxPushAttempts

\* Mutant: a lease is not looked at.
PushableThoughLeased(j) ==
  /\ Eligible(j)
  /\ (push[j].status = "pending" /\ push[j].due) \/ push[j].status = "processing"

Pushable(j) ==
  /\ Eligible(j)
  /\ \/ push[j].status = "pending" /\ push[j].due
     \/ push[j].status = "processing" /\ ~push[j].leased

\* The limit of a claim, twenty, is more than the jobs here.
ClaimPushes(d) ==
  LET claimed == {j \in PushJobs : Pushable(j)} IN
  /\ batch[d] = <<>> /\ claimed # {}
  /\ push' = [j \in PushJobs |->
                IF j \in claimed
                  THEN [push[j] EXCEPT !.status = "processing", !.attempts = @ + 1, !.leased = TRUE]
                  ELSE push[j]]
  /\ \E inOrder \in [1 .. Cardinality(claimed) -> claimed] :
       /\ \A a, b \in DOMAIN inOrder : a < b => inOrder[a] < inOrder[b]
       /\ batch' = [batch EXCEPT ![d] = [i \in DOMAIN inOrder |-> [id |-> inOrder[i], attempts |-> push[inOrder[i]].attempts + 1]]]
  /\ UNCHANGED <<sheet, managed, scrapped, removing, pushed, taken, unrecorded, shelved, pushUpsets, summingVars>>

PushUpset == pushUpsets < MaxPushUpsets /\ pushUpsets' = pushUpsets + 1

\* The device's service is given the photo, and its answer arrives or not.
SendPhoto(d) ==
  /\ batch[d] # <<>> /\ pushed[d] = "none"
  /\ LET j == Head(batch[d]).id IN
     \/ /\ pushed' = [pushed EXCEPT ![d] = "accepted"]
        /\ taken' = [taken EXCEPT ![j] = @ + 1]
        /\ UNCHANGED <<unrecorded, pushUpsets>>
     \/ pushed' = [pushed EXCEPT ![d] = "refused"] /\ UNCHANGED <<taken, unrecorded, pushUpsets>>
     \/ /\ PushUpset
        /\ pushed' = [pushed EXCEPT ![d] = "refused"]
        /\ taken' = [taken EXCEPT ![j] = @ + 1] /\ unrecorded' = [unrecorded EXCEPT ![j] = @ + 1]
  /\ UNCHANGED <<push, sheet, managed, scrapped, removing, batch, shelved, summingVars>>

\* Whether it was the last attempt is what the claim read; the row may be anybody's by now.
SettledRow(d) ==
  LET row == push[Head(batch[d]).id]
      end == IF Head(batch[d]).attempts >= MaxPushAttempts THEN "failed" ELSE "pending" IN
  IF pushed[d] = "accepted"
    THEN [row EXCEPT !.status = "delivered", !.result = "success", !.leased = FALSE]
    ELSE [row EXCEPT !.status = end, !.result = end, !.due = FALSE, !.leased = FALSE]

\* mark_success and mark_failure: the job is written, and the jobs are summed up as far as
\* they are committed.
SumUp(d) ==
  /\ pushed[d] # "none" /\ drafts[d] = "none" /\ Head(batch[d]).id \notin Locked
  /\ drafts' = [drafts EXCEPT ![d] = SheetStatusOf([push EXCEPT ![Head(batch[d]).id] = SettledRow(d)])]
  /\ UNCHANGED <<push, sheet, managed, scrapped, removing, batch, pushed, missed, dropping, torn,
                 taken, unrecorded, shelved, pushUpsets>>

\* Mutant: the record is not brought up to date.
SettleUnsummed(d) ==
  /\ drafts[d] # "none"
  /\ push' = [push EXCEPT ![Head(batch[d]).id] = SettledRow(d)]
  /\ batch' = [batch EXCEPT ![d] = Tail(@)] /\ pushed' = [pushed EXCEPT ![d] = "none"]
  /\ drafts' = [drafts EXCEPT ![d] = "none"]
  /\ missed' = (missed \cup Summing) \ {d} /\ torn' = (d \in missed)
  /\ UNCHANGED <<sheet, managed, scrapped, removing, dropping, taken, unrecorded, shelved, pushUpsets>>

\* The commit. The lock on the record orders these, and none of them looks again.
Settle(d) ==
  /\ drafts[d] # "none"
  /\ push' = [push EXCEPT ![Head(batch[d]).id] = SettledRow(d)]
  /\ sheet' = [sheet EXCEPT !.status = drafts[d]]
  /\ batch' = [batch EXCEPT ![d] = Tail(@)] /\ pushed' = [pushed EXCEPT ![d] = "none"]
  /\ drafts' = [drafts EXCEPT ![d] = "none"]
  /\ missed' = (missed \cup Summing) \ {d} /\ torn' = (d \in missed)
  /\ UNCHANGED <<managed, scrapped, removing, dropping, taken, unrecorded, shelved, pushUpsets>>

\* The process dies, or a statement fails: what is open is rolled back, and the rest of the
\* batch dropped.
DropBatch(d) ==
  /\ batch[d] # <<>> /\ PushUpset
  /\ unrecorded' = IF pushed[d] = "accepted" THEN [unrecorded EXCEPT ![Head(batch[d]).id] = @ + 1] ELSE unrecorded
  /\ batch' = [batch EXCEPT ![d] = <<>>] /\ pushed' = [pushed EXCEPT ![d] = "none"]
  /\ drafts' = [drafts EXCEPT ![d] = "none"] /\ missed' = missed \ {d}
  /\ UNCHANGED <<push, sheet, managed, scrapped, removing, dropping, torn, taken, shelved>>

LeaseEnds(j) ==
  /\ push[j].leased
  /\ push' = [push EXCEPT ![j].leased = FALSE]
  /\ IF InHand(j)
       THEN /\ PushUpset
            /\ unrecorded' = [unrecorded EXCEPT ![j] = @ + 1]
       ELSE UNCHANGED <<unrecorded, pushUpsets>>
  /\ UNCHANGED <<sheet, managed, scrapped, removing, batch, pushed, taken, shelved, summingVars>>

PushBackoffEnds(j) ==
  /\ push[j].status = "pending" /\ ~push[j].due
  /\ push' = [push EXCEPT ![j].due = TRUE]
  /\ UNCHANGED <<sheet, managed, scrapped, removing, batch, pushed, taken, unrecorded, shelved, pushUpsets, summingVars>>

PlannedTimeComes ==
  /\ ~sheet.planned
  /\ sheet' = [sheet EXCEPT !.planned = TRUE]
  /\ UNCHANGED <<push, managed, scrapped, removing, batch, pushed, taken, unrecorded, shelved, pushUpsets, summingVars>>
-----------------------------------------------------------------------------
AtTheDesk == PushUpset /\ UNCHANGED <<batch, pushed, drafts, missed>>

\* A handler waits for the rows that it is to write.
Waits(jobs) == jobs \cap Locked # {}

\* These jobs are skipped; those in nobody's hand are then out of the way.
Cancel(jobs) ==
  /\ push' = [j \in PushJobs |-> IF j \in jobs THEN Skipped(push[j]) ELSE push[j]]
  /\ shelved' = shelved \cup {j \in jobs : ~InHand(j)}
  /\ UNCHANGED <<taken, unrecorded>>

JobsIn(statuses) == {j \in PushJobs : push[j].status \in statuses}

\* update_managed_attendance_config with another is_enabled; what it generates
\* afterwards, in a transaction of its own, is Regenerate.
ToggleManaged ==
  LET jobs == IF managed.enabled THEN {j \in JobsIn({"pending"}) : push[j].result # "success"} ELSE {} IN
  /\ AtTheDesk /\ ~managed.deleted /\ ~Waits(jobs)
  /\ managed' = [managed EXCEPT !.enabled = ~@]
  /\ Cancel(jobs)
  /\ sheet' = IF managed.enabled /\ sheet.status # "success" /\ \E j \in PushJobs : push'[j].status = "skipped"
                THEN [sheet EXCEPT !.status = "skipped"] ELSE sheet
  /\ UNCHANGED <<scrapped, removing, dropping, torn>>

DeleteManaged ==
  LET jobs == JobsIn({"pending", "processing"}) IN
  /\ AtTheDesk /\ ~managed.deleted /\ ~Waits(jobs)
  /\ managed' = [enabled |-> FALSE, deleted |-> TRUE]
  /\ Cancel(jobs)
  /\ sheet' = IF sheet.deleted \/ sheet.status = "success" THEN sheet ELSE [sheet EXCEPT !.status = "skipped"]
  /\ UNCHANGED <<scrapped, removing, dropping, torn>>

\* Mutant: only pending jobs are skipped.
DeleteDevicePending(j) ==
  /\ AtTheDesk /\ j \notin scrapped \cup removing
  /\ push' = IF push[j].status = "pending" THEN [push EXCEPT ![j] = Skipped(@)] ELSE push
  /\ shelved' = IF InHand(j) THEN shelved ELSE shelved \cup {j}
  /\ sheet' = sheet /\ removing' = removing \cup {j}
  /\ UNCHANGED <<managed, scrapped, dropping, torn, taken, unrecorded>>

\* A deleted device: its jobs are skipped, then the row is deleted.
DeleteDevice(j) ==
  LET jobs == {k \in {j} : push[k].result # "success" /\ push[k].status \in {"pending", "processing", "delivered"}} IN
  /\ AtTheDesk /\ j \notin scrapped \cup removing /\ ~Waits(jobs)
  /\ Cancel(jobs)
  /\ sheet' = IF sheet.status # "success" /\ \E k \in PushJobs : push'[k].status = "skipped"
                THEN [sheet EXCEPT !.status = "skipped"] ELSE sheet
  /\ removing' = removing \cup {j}
  /\ UNCHANGED <<managed, scrapped, dropping, torn>>

DeviceIsGone(j) ==
  /\ j \in removing
  /\ removing' = removing \ {j} /\ scrapped' = scrapped \cup {j}
  /\ UNCHANGED <<push, sheet, managed, batch, pushed, taken, unrecorded, shelved, pushUpsets, summingVars>>

\* delete_dispatch_records, which writes every job of the record
DeleteRecord ==
  /\ AtTheDesk /\ ~sheet.deleted /\ ~Waits(PushJobs)
  /\ Cancel(JobsIn({"pending", "processing"}))
  /\ sheet' = [sheet EXCEPT !.deleted = TRUE]
  /\ UNCHANGED <<managed, scrapped, removing, dropping, torn>>

Begun == \E j \in PushJobs : push[j].status = "processing" \/ push[j].result = "success"

\* A month is generated again, without this day: pending jobs are skipped, and a record
\* of which nothing is begun is deleted, by a statement that may wait for the record.
LeaveOutDay ==
  LET jobs == JobsIn({"pending"}) IN
  /\ AtTheDesk /\ managed.enabled /\ ~sheet.deleted /\ dropping = {} /\ ~Waits(jobs)
  /\ IF Begun THEN Cancel(jobs) /\ UNCHANGED dropping
     ELSE dropping' = {jobs} /\ UNCHANGED <<push, taken, unrecorded, shelved>>
  /\ UNCHANGED <<sheet, managed, scrapped, removing, torn>>
DropRecord ==
  /\ \E jobs \in dropping : Cancel(jobs)
  /\ sheet' = IF sheet.deleted THEN sheet ELSE [sheet EXCEPT !.deleted = TRUE, !.status = "skipped"]
  /\ dropping' = {}
  /\ torn' = (torn \/ \E j \in PushJobs : push[j].result = "success")
  /\ UNCHANGED <<managed, scrapped, removing, batch, pushed, drafts, missed, pushUpsets>>

\* With this day, a record that nothing was sent for gets a fresh job for every device,
\* to be skipped when its time has passed.
Regenerate ==
  LET targets == PushJobs \ scrapped
      fresh == [AskedFor EXCEPT !.status = IF sheet.planned THEN "skipped" ELSE "pending"] IN
  /\ AtTheDesk /\ managed.enabled /\ ~sheet.deleted /\ ~Waits(PushJobs)
  /\ \/ Begun /\ UNCHANGED <<push, sheet, torn, taken, unrecorded, shelved>>
     \/ /\ ~Begun
        /\ push' = [j \in PushJobs |-> IF j \in targets THEN fresh
                                       ELSE IF push[j].status = "pending" THEN Skipped(push[j]) ELSE push[j]]
        /\ sheet' = [sheet EXCEPT !.status = IF targets = {} THEN "skipped" ELSE fresh.status]
        /\ torn' = FALSE
        /\ shelved' = (shelved \ targets) \cup
                      {j \in PushJobs : ~InHand(j) /\ push'[j].status = "skipped"}
        /\ UNCHANGED <<taken, unrecorded>>
  /\ UNCHANGED <<managed, scrapped, removing, dropping>>

\* resend_managed_attendance_day: every job is asked for again, whatever became of it.
Resend ==
  /\ AtTheDesk /\ managed.enabled /\ ~sheet.deleted /\ sheet.planned /\ ~Waits(PushJobs)
  /\ JobsIn({"processing"}) = {}
  /\ push' = [j \in PushJobs |-> AskedFor]
  /\ sheet' = [sheet EXCEPT !.status = "pending"]
  /\ taken' = [j \in PushJobs |-> 0]
  /\ unrecorded' = [j \in PushJobs |-> Cardinality({d \in Pushers : \E i \in DOMAIN batch[d] : batch[d][i].id = j})]
  /\ shelved' = {} /\ torn' = FALSE
  /\ UNCHANGED <<managed, scrapped, removing, dropping>>

ManagedDispatchNext ==
  \/ \E d \in Pushers : ClaimPushes(d) \/ SendPhoto(d) \/ SumUp(d) \/ Settle(d) \/ DropBatch(d)
  \/ \E j \in PushJobs : LeaseEnds(j) \/ PushBackoffEnds(j) \/ DeleteDevice(j) \/ DeviceIsGone(j)
  \/ PlannedTimeComes \/ ToggleManaged \/ DeleteManaged \/ DeleteRecord
  \/ LeaveOutDay \/ DropRecord \/ Regenerate \/ Resend
-----------------------------------------------------------------------------
\* A device is given a photo again only for a delivery no row could tell of: its
\* answer was lost, its dispatcher died or it outlived its lease.
RepeatsAreExplained == \A j \in PushJobs : taken[j] <= 1 + unrecorded[j]

\* A job that was cancelled before anybody had it in hand is not pushed until
\* somebody asks for it again. (One that is cancelled on its way is pushed, and
\* pending again when that fails.)
CancelledIsNotSent == \A j \in shelved : ~InHand(j)

\* A record says that it was dispatched exactly when every device has taken it, unless
\* its status was written over a settlement that the writer had not seen.
SuccessIsOfAll == ~torn => (sheet.status = "success" <=> \A j \in PushJobs : push[j].result = "success")
=============================================================================

----------------------------- MODULE DeviceIssue -----------------------------
(***************************************************************************)
(* Keeping a person on an MQTT attendance device: issuer.rs, publisher.rs, *)
(* retry.rs and the acknowledgements of worker.rs (device_mqtt), and the   *)
(* handler that changes the person.  One person and one device: commands   *)
(* of different people meet nowhere but in the order of the topic.         *)
(*                                                                         *)
(* A change of the person makes an outbox event; the outbox worker and an  *)
(* operator's bulk issue write a report, publish its command and save what *)
(* became of it.  The retry workers publish again the commands that nobody *)
(* acknowledged.  The device takes the commands in the order of its topic. *)
(*                                                                         *)
(* Time is left out: a command is due, and a pass finds the device online, *)
(* at any moment.  Two facts about time are kept: the 5 s of publish_json  *)
(* end within the minute after which a new report is due, and 20 times 5 s *)
(* within the 2 minutes a batch is locked for.                             *)
(***************************************************************************)
EXTENDS Naturals, Sequences, FiniteSets

CONSTANTS
  Retriers,      \* retry workers: one in each API process
  MaxRetries,    \* max_retries of a report
  MaxReports,    \* bound: reports
  MaxEvents      \* bound: changes of the person, publishes that do not succeed, commands
                 \* the device refuses, lost messages, processes that stop half-way

ASSUME RetriesAssumption == MaxRetries \in Nat /\ IsFiniteSet(Retriers)
ASSUME BoundsAssumption  == /\ MaxReports \in Nat /\ MaxEvents \in Nat


VARIABLES
  person,      \* the row of construction_workers
  rows,        \* the rows it was, and is: what a request may have read of it
  handlers,    \* calls of update_worker that have written the row and are not done
  queue,       \* the person's unsettled attendance_device.worker.reconcile events
  issuing,     \* what each issuer is doing
  reports,     \* construction_attendance_device_issue_reports
  retrying,    \* what each retry worker is doing
  topic, acks, \* commands on their way to the device, answers on their way back
  device,      \* the card the device lets in, or Nobody
  changes, faults, interrupts,
  sent,        \* history: how often each command was published
  verdict,     \* history: the last answer saved in each report, and those that were
               \* written over when the publish they answer came to its end
  freed,       \* history: locks that were taken from a retry worker at work
  stopped,     \* history: reports whose retries were said to have stopped
  told, slips  \* history: the last change enqueued, what happened out of order

bounds  == <<changes, faults, interrupts>>
MoreToCome == changes + faults + interrupts < MaxEvents
history == <<sent, verdict, freed, stopped, told, slips>>
ledger  == <<reports, topic, acks, device>>
vars    == <<person, rows, handlers, queue, issuing, retrying, ledger, bounds, history>>

Revs    == 0..MaxEvents
Nobody  == MaxEvents + 1
Person  == [rev : Revs, card : Revs, active : BOOLEAN]
Actions == {"update", "delete"}
Issuers == {"outbox", "operator"}
Answers == {"success", "failed"}
Ids     == DOMAIN reports
Report  == [action : Actions, rev : Revs, card : Revs, status : {"pending"} \cup Answers,
            acked : BOOLEAN, count : 0..MaxRetries, locked : BOOLEAN]
Handler == [stage : {"wrote"}, before : Person, over : Person]   \* over: history, the row written over
             \cup [stage : {"compared"}, action : Actions, rev : Revs, over : Person]
Issuing == [stage : {"idle", "read", "inserted", "sent"}, of : Person,
            report : 0..MaxReports, ok : BOOLEAN]
Retry   == [batch : UNION {[B -> 0..MaxRetries] : B \in SUBSET Ids},   \* counts as claimed
            report : 0..MaxReports, ok : BOOLEAN]    \* the one published, not yet saved

Enrolled == [rev |-> 0, card |-> 0, active |-> TRUE]
Resting  == [stage |-> "idle", of |-> Enrolled, report |-> 0, ok |-> FALSE]
Pass(batch) == [batch |-> batch, report |-> 0, ok |-> FALSE]
Sleeping == Pass(<<>>)

TypeOK ==
  /\ person \in Person /\ rows \subseteq Person /\ handlers \subseteq Handler /\ queue \in Seq(Actions)
  /\ issuing \in [Issuers -> Issuing] /\ retrying \in [Retriers -> Retry]
  /\ reports \in Seq(Report) /\ topic \in Seq(Ids) /\ acks \subseteq Ids \X Answers
  /\ device \in Revs \cup {Nobody}
  /\ changes \in 0..MaxEvents /\ faults \in 0..MaxEvents /\ interrupts \in 0..MaxEvents
  /\ sent \in [Ids -> Nat] /\ verdict \in [Ids -> Answers \cup {"none", "overwritten"}]
  /\ freed \in Nat /\ stopped \subseteq Ids /\ told \in Revs
  /\ slips \subseteq {"outdated", "crossed", "forgotten", "overtaken"}

(* An enrolled person whom the device knows, and nothing to be done. *)
Init ==
  /\ person = Enrolled /\ rows = {Enrolled} /\ device = 0
  /\ handlers = {} /\ queue = <<>> /\ reports = <<>> /\ topic = <<>> /\ acks = {}
  /\ issuing = [i \in Issuers |-> Resting]
  /\ retrying = [w \in Retriers |-> Sleeping]
  /\ changes = 0 /\ faults = 0 /\ interrupts = 0
  /\ sent = <<>> /\ verdict = <<>> /\ freed = 0 /\ stopped = {} /\ told = 0 /\ slips = {}

-----------------------------------------------------------------------------
(* update_worker. *)

(* issue_action_after_change; "none" when the device need not be told. *)
IssueActionAfterChange(before, after) ==
  CASE ~after.active -> IF before.active THEN "delete" ELSE "none"
    [] after.active /\ (~before.active \/ after.card # before.card) -> "update"
    [] OTHER -> "none"

(* The row is committed before anything else. What it will be compared     *)
(* with was read before the transaction and its lock: whatever the row was *)
(* while the request was on its way. A new card, a departure, a return, or *)
(* what a form held of the row that was read.                              *)
ChangePerson ==
  /\ MoreToCome
  /\ changes' = changes + 1
  /\ \E before \in rows :
       /\ \E to \in {[person EXCEPT !.card = changes + 1], [person EXCEPT !.active = ~@], before} :
            person' = [to EXCEPT !.rev = changes + 1]
       /\ handlers' = handlers \cup {[stage |-> "wrote", before |-> before, over |-> person]}
  /\ rows' = rows \cup {person'}
  /\ UNCHANGED <<queue, issuing, retrying, ledger, faults, interrupts, history>>

(* The row is read again and compared with what was read before: that may  *)
(* hide what this call has changed.                                        *)
CompareFields(h) ==
  /\ h.stage = "wrote"
  /\ LET action == IssueActionAfterChange(h.before, person)
         next   == IF action = "none" THEN {}
                   ELSE {[stage |-> "compared", action |-> action, rev |-> person.rev, over |-> h.over]}
         hides  == action = "none" /\ IssueActionAfterChange(h.over, person) # "none"
     IN /\ handlers' = (handlers \ {h}) \cup next
        /\ slips' = IF hides THEN slips \cup {"outdated"} ELSE slips
  /\ UNCHANGED <<person, rows, queue, issuing, retrying, ledger, bounds,
                 sent, verdict, freed, stopped, told>>

(* enqueue_event: every pending event of the person takes the new action; *)
(* an event that is being handled is not pending.                         *)
\* Mutant: the pending event keeps the action it has.
CoalescedFirstWins(action) ==
  IF Len(queue) = (IF issuing["outbox"].stage = "idle" THEN 0 ELSE 1)
  THEN Append(queue, action) ELSE queue
Coalesced(action) ==
  LET handled == IF issuing["outbox"].stage = "idle" THEN 0 ELSE 1
  IN IF Len(queue) = handled THEN Append(queue, action)
     ELSE [i \in DOMAIN queue |-> IF i > handled THEN action ELSE queue[i]]
EnqueueReissue(h) ==
  /\ h.stage = "compared"
  /\ queue' = Coalesced(h.action)
  /\ handlers' = handlers \ {h}
  /\ told' = IF h.rev > told THEN h.rev ELSE told
  /\ slips' = IF h.rev < told THEN slips \cup {"crossed"} ELSE slips
  /\ UNCHANGED <<person, rows, issuing, retrying, ledger, bounds, sent, verdict, freed, stopped>>

(* The process stops after the commit: nothing remembers what was to be done. *)
ForgetReissue(h) ==
  /\ MoreToCome
  /\ interrupts' = interrupts + 1
  /\ handlers' = handlers \ {h}
  /\ slips' = slips \cup {"forgotten"}
  /\ UNCHANGED <<person, rows, queue, issuing, retrying, ledger, changes, faults,
                 sent, verdict, freed, stopped, told>>

-----------------------------------------------------------------------------
(* Publishing.  A publish that timed out may have reached the broker all   *)
(* the same; a command that overtakes none that was issued later, or from  *)
(* a later state of the person, leaves the order of the topic alone.       *)

Overtakes(r) ==
  \E s \in Ids : sent[s] > 0 /\ (s > r \/ reports[s].rev > reports[r].rev)
Publish(r, ok) ==
  /\ faults' = IF ok THEN faults ELSE faults + 1
  /\ ok \/ MoreToCome
  /\ \/ /\ topic' = Append(topic, r)
        /\ slips' = IF Overtakes(r) THEN slips \cup {"overtaken"} ELSE slips
     \/ ~ok /\ UNCHANGED <<topic, slips>>
  /\ sent' = [sent EXCEPT ![r] = @ + 1]

-----------------------------------------------------------------------------
(* Issuing. *)

NewReport(action, of) ==
  [action |-> action, rev |-> of.rev, card |-> of.card, status |-> "pending",
   acked |-> FALSE, count |-> 0, locked |-> FALSE]
InsertReport(i, action, of) ==
  /\ Len(reports) < MaxReports
  /\ reports' = Append(reports, NewReport(action, of))
  /\ issuing' = [issuing EXCEPT ![i] = [Resting EXCEPT !.stage = "inserted", !.report = Len(reports) + 1]]
  /\ sent' = Append(sent, 0) /\ verdict' = Append(verdict, "none")

(* The outbox worker claims the person's oldest event, reads the person    *)
(* and writes the report.  issue_preflight_error: only a removal is issued *)
(* for somebody who is not there; the event fails, and after its attempts  *)
(* it is abandoned.  What it leaves is a report without a payload, which   *)
(* neither the device nor the retry workers ever see.                      *)
IssueSingleWorker ==
  /\ queue # <<>> /\ issuing["outbox"].stage = "idle"
  /\ \/ /\ person.active \/ Head(queue) = "delete"
        /\ InsertReport("outbox", Head(queue), person)
        /\ UNCHANGED queue
     \/ /\ ~person.active /\ Head(queue) = "update"
        /\ queue' = Tail(queue)
        /\ UNCHANGED <<issuing, reports, sent, verdict>>
  /\ UNCHANGED <<person, rows, handlers, retrying, topic, acks, device, bounds,
                 freed, stopped, told, slips>>

(* issue_device_workers_via_broker: an operator sends everybody present to *)
(* the device again.  The people are read once, before the first of them   *)
(* is issued; only what was read then says who may be issued.  A device    *)
(* without any report that comes online has it done for it in the same way *)
(* (auto_issue_device_workers_via_client).                                 *)
FetchProjectWorkers ==
  /\ issuing["operator"].stage = "idle" /\ person.active /\ Len(reports) < MaxReports
  /\ issuing' = [issuing EXCEPT !["operator"] = [Resting EXCEPT !.stage = "read", !.of = person]]
  /\ UNCHANGED <<person, rows, handlers, queue, retrying, ledger, bounds, history>>
IssueFetched ==
  /\ issuing["operator"].stage = "read"
  /\ InsertReport("operator", "update", issuing["operator"].of)
  /\ UNCHANGED <<person, rows, handlers, queue, retrying, topic, acks, device, bounds,
                 freed, stopped, told, slips>>

PublishReport(i, ok) ==
  /\ issuing[i].stage = "inserted"
  /\ Publish(issuing[i].report, ok)
  /\ issuing' = [issuing EXCEPT ![i] = [issuing[i] EXCEPT !.stage = "sent", !.ok = ok]]
  /\ UNCHANGED <<person, rows, handlers, queue, retrying, reports, acks, device, changes, interrupts,
                 verdict, freed, stopped, told>>

(* update_issue_publish_result: the status is written whatever it has become; *)
(* the outbox event is completed even when the command was not sent.          *)
SavePublishResult(i) ==
  /\ issuing[i].stage = "sent"
  /\ LET r == issuing[i].report
     IN /\ reports' = [reports EXCEPT ![r].status = IF issuing[i].ok THEN "pending" ELSE "failed"]
        /\ verdict' = [verdict EXCEPT ![r] = IF reports[r].acked THEN "overwritten" ELSE @]
  /\ issuing' = [issuing EXCEPT ![i] = Resting]
  /\ queue' = IF i = "outbox" THEN Tail(queue) ELSE queue
  /\ UNCHANGED <<person, rows, handlers, retrying, topic, acks, device, bounds,
                 sent, freed, stopped, told, slips>>

(* The outbox hands an interrupted event out again; an operator's request is gone. *)
InterruptIssue(i) ==
  /\ issuing[i].stage # "idle"
  /\ MoreToCome
  /\ interrupts' = interrupts + 1
  /\ issuing' = [issuing EXCEPT ![i] = Resting]
  /\ UNCHANGED <<person, rows, handlers, queue, retrying, ledger, changes, faults, history>>

-----------------------------------------------------------------------------
(* Retrying. *)

Unanswered(r) == ~reports[r].acked
AtFirstSend(r) == \E i \in Issuers : issuing[i].stage # "idle" /\ issuing[i].report = r
Exhausted(r)  == Unanswered(r) /\ reports[r].status = "pending" /\ reports[r].count >= MaxRetries
\* Mutant: the lock of another worker is not looked at.
ClaimableThoughLocked(r) ==
  /\ Unanswered(r) /\ reports[r].count < MaxRetries
  /\ person.active /\ ~AtFirstSend(r)
\* Mutant: one retry too many.
ClaimableOnceMore(r) ==
  /\ Unanswered(r) /\ ~reports[r].locked /\ reports[r].count <= MaxRetries
  /\ person.active /\ ~AtFirstSend(r)
Claimable(r)  ==
  /\ Unanswered(r) /\ ~reports[r].locked
  /\ reports[r].count < MaxRetries
  /\ person.active
  /\ ~AtFirstSend(r)

(* The three statements a pass begins with: the commands for somebody who  *)
(* is gone stop, whatever they are and whoever is working on them; those   *)
(* whose retries are used up fail; a batch of the others is locked.        *)
StartPass(w) ==
  /\ retrying[w] = Sleeping
  /\ \E used \in SUBSET {r \in Ids : Exhausted(r)} :
     \E batch \in SUBSET {r \in Ids : Claimable(r)} :
       LET gone == IF person.active THEN {} ELSE {r \in Ids : Unanswered(r)}
       IN /\ used \cup batch \cup gone # {}
          /\ reports' = [r \in Ids |->
               IF r \in gone \cup used THEN [reports[r] EXCEPT !.status = "failed", !.locked = FALSE]
               ELSE IF r \in batch THEN [reports[r] EXCEPT !.locked = TRUE]
               ELSE reports[r]]
          /\ retrying' = [retrying EXCEPT ![w] = Pass([r \in batch |-> reports[r].count])]
          /\ stopped' = stopped \cup gone
          /\ freed' = freed + Cardinality({r \in gone : reports[r].locked})
  /\ UNCHANGED <<person, rows, handlers, queue, issuing, topic, acks, device, bounds,
                 sent, verdict, told, slips>>

(* retry_issue_report: the payload that was stored, under the same message id. *)
PublishRetry(w, r, ok) ==
  /\ r \in DOMAIN retrying[w].batch /\ retrying[w].report = 0
  /\ Publish(r, ok)
  /\ retrying' = [retrying EXCEPT ![w] = [retrying[w] EXCEPT !.report = r, !.ok = ok]]
  /\ UNCHANGED <<person, rows, handlers, queue, issuing, reports, acks, device, changes, interrupts,
                 verdict, freed, stopped, told>>

Retried(w, r) ==
  [reports[r] EXCEPT !.status = IF retrying[w].ok THEN "pending" ELSE "failed",
                     !.count = retrying[w].batch[r] + 1, !.locked = FALSE]

\* Mutant: the result of a retry is saved over an answer.
SaveRetryUnguarded(w) ==
  /\ retrying[w].report # 0
  /\ LET r == retrying[w].report
     IN /\ reports' = [reports EXCEPT ![r] = Retried(w, r)]
        /\ retrying' = [retrying EXCEPT ![w] =
                          Pass([s \in DOMAIN retrying[w].batch \ {r} |-> retrying[w].batch[s]])]
  /\ UNCHANGED <<person, rows, handlers, queue, issuing, topic, acks, device, bounds, history>>

(* update_retry_success, update_retry_failure: an answer that came first stays. *)
SaveRetry(w) ==
  /\ retrying[w].report # 0
  /\ LET r == retrying[w].report
     IN /\ reports' = IF reports[r].acked THEN reports
                      ELSE [reports EXCEPT ![r] = Retried(w, r)]
        /\ retrying' = [retrying EXCEPT ![w] =
                          Pass([s \in DOMAIN retrying[w].batch \ {r} |-> retrying[w].batch[s]])]
  /\ UNCHANGED <<person, rows, handlers, queue, issuing, topic, acks, device, bounds, history>>

(* A pass that ends early, by an error or with its process: the locks run out. *)
InterruptPass(w) ==
  /\ retrying[w] # Sleeping
  /\ MoreToCome
  /\ interrupts' = interrupts + 1
  /\ reports' = [r \in Ids |-> IF r \in DOMAIN retrying[w].batch
                               THEN [reports[r] EXCEPT !.locked = FALSE] ELSE reports[r]]
  /\ retrying' = [retrying EXCEPT ![w] = Sleeping]
  /\ UNCHANGED <<person, rows, handlers, queue, issuing, topic, acks, device, changes, faults, history>>

-----------------------------------------------------------------------------
(* The device, from how the code uses it, and its answers. *)

TakeCommand ==
  /\ topic # <<>>
  /\ LET r == Head(topic)
     IN \/ /\ device' = IF reports[r].action = "delete" THEN Nobody ELSE reports[r].card
           /\ acks' = acks \cup {<<r, "success">>}
           /\ UNCHANGED faults
        \/ /\ MoreToCome /\ faults' = faults + 1
           /\ acks' = acks \cup {<<r, "failed">>}
           /\ UNCHANGED device
  /\ topic' = Tail(topic)
  /\ UNCHANGED <<person, rows, handlers, queue, issuing, retrying, reports, changes, interrupts, history>>

LoseMessage ==
  /\ MoreToCome
  /\ faults' = faults + 1
  /\ \/ topic # <<>> /\ topic' = Tail(topic) /\ UNCHANGED acks
     \/ \E a \in acks : acks' = acks \ {a} /\ UNCHANGED topic
  /\ UNCHANGED <<person, rows, handlers, queue, issuing, retrying, reports, device, changes, interrupts,
                 history>>

ApplyIssueAck(r, answer) ==
  /\ <<r, answer>> \in acks
  /\ acks' = acks \ {<<r, answer>>}
  /\ reports' = [reports EXCEPT ![r] = [reports[r] EXCEPT !.status = answer, !.acked = TRUE, !.locked = FALSE]]
  /\ verdict' = [verdict EXCEPT ![r] = answer]
  /\ UNCHANGED <<person, rows, handlers, queue, issuing, retrying, topic, device, bounds,
                 sent, freed, stopped, told, slips>>

Issuer(i) ==
  SavePublishResult(i) \/ \E ok \in BOOLEAN : PublishReport(i, ok)
Retrier(w) ==
  StartPass(w) \/ SaveRetry(w) \/ \E r \in Ids, ok \in BOOLEAN : PublishRetry(w, r, ok)
Disturbance ==
  \/ ChangePerson \/ FetchProjectWorkers \/ LoseMessage
  \/ \E h \in handlers : ForgetReissue(h)
  \/ \E i \in Issuers : InterruptIssue(i)
  \/ \E w \in Retriers : InterruptPass(w)
Next ==
  \/ \E h \in handlers : CompareFields(h) \/ EnqueueReissue(h)
  \/ IssueSingleWorker \/ IssueFetched \/ \E i \in Issuers : Issuer(i)
  \/ \E w \in Retriers : Retrier(w)
  \/ TakeCommand \/ \E r \in Ids, answer \in Answers : ApplyIssueAck(r, answer)
  \/ Disturbance

Spec == Init /\ [][Next]_vars

-----------------------------------------------------------------------------
(* A command is published once, and once more for each of its retries; an  *)
(* interruption between a publish and the record of it can add one to      *)
(* that.  Once the lock of a worker that has the command in hand was taken *)
(* away, because the person was seen to be gone, two workers may retry it  *)
(* side by side: then each such lock, and each interruption, is worth a    *)
(* whole series of retries.                                                *)
SendsAreBounded ==
  \A r \in Ids : sent[r] <= IF freed = 0 THEN 1 + MaxRetries + interrupts
                            ELSE 1 + MaxRetries * (1 + freed + interrupts)

(* An acknowledged report shows what the device last answered: no late     *)
(* retry takes that back.  Only the end of the very first publish does,    *)
(* when it is saved after the answer has come.                             *)
AckShows ==
  \A r \in Ids : reports[r].acked /\ verdict[r] # "overwritten" => reports[r].status = verdict[r]

Settled == /\ handlers = {} /\ queue = <<>> /\ topic = <<>> /\ acks = {}
           /\ \A i \in Issuers : issuing[i].stage = "idle"
           /\ \A w \in Retriers : retrying[w] = Sleeping
Newest  == {r \in Ids : \A s \in Ids : reports[s].rev <= reports[r].rev}

(* When everything has been told and taken, and the commands for the last  *)
(* state of the person were acknowledged as done, the device lets the      *)
(* person in as they are, and not at all once they have left: unless a     *)
(* command of an older state was sent after one of a newer one (a retry,   *)
(* or a bulk issue of people read before), two changes were enqueued in    *)
(* the other order, or one never was, because its process stopped or       *)
(* compared it with a row older than the one it wrote over.                *)
DeviceFollowsThePerson ==
  /\ Settled /\ slips = {} /\ Newest # {}
  /\ \A r \in Newest : reports[r].acked /\ verdict[r] = "success"
  => device = IF person.active THEN person.card ELSE Nobody

(* "人员已离场或已删除，停止重试下发" (gone, the retries have stopped): no     *)
(* retry worker takes such a command up again.                             *)
StoppedIsNotRetried ==
  [][\A w \in Retriers :
       DOMAIN retrying'[w].batch \cap stopped \subseteq DOMAIN retrying[w].batch]_vars
=============================================================================

---------------------------- MODULE DeviceProofs -----------------------------
(***************************************************************************)
(* What DeviceIssue promises, proved for any number of retry workers,      *)
(* retries, reports and changes.                                           *)
(***************************************************************************)
EXTENDS DeviceIssue, FiniteSetTheorems, TLAPS

-----------------------------------------------------------------------------
(* Types. A batch keeps counts below the limit, a result that is waited    *)
(* for is of a command in the batch, an issuer's report is there, and the  *)
(* event that is handled is in the queue.                                  *)

Batches ==
  \A w \in Retriers :
    /\ \A r \in DOMAIN retrying[w].batch : retrying[w].batch[r] < MaxRetries
    /\ retrying[w].report # 0 => retrying[w].report \in DOMAIN retrying[w].batch

Publishing(i) == issuing[i].stage \in {"inserted", "sent"}
Firsts ==
  \A i \in Issuers : Publishing(i) =>
    /\ issuing[i].report \in Ids
    /\ \A j \in Issuers : Publishing(j) /\ issuing[j].report = issuing[i].report => j = i

\* The event that is handled is the first of the queue.
Handling == issuing["outbox"].stage # "idle" => queue # <<>>

Typed == TypeOK /\ Batches /\ Firsts /\ Handling /\ Len(reports) <= MaxReports

USE DEF Ids

LEMMA IdsAreNumbers ==
  ASSUME NEW T, NEW s \in Seq(T)
  PROVE  /\ DOMAIN s = 1..Len(s) /\ Len(s) \in Nat
         /\ \A r \in DOMAIN s : s[r] \in T /\ r \in Nat /\ r >= 1 /\ r <= Len(s)
OBVIOUS

\* A table that is written keeps its rows.
LEMMA TableWritten ==
  ASSUME NEW T, NEW s \in Seq(T), NEW t, t = [r \in DOMAIN s |-> t[r]], \A r \in DOMAIN s : t[r] \in T
  PROVE  t \in Seq(T) /\ DOMAIN t = DOMAIN s /\ Len(t) = Len(s)
OBVIOUS

LEMMA TableGrown ==
  ASSUME NEW T, NEW s \in Seq(T), NEW e \in T
  PROVE  /\ Append(s, e) \in Seq(T) /\ Len(Append(s, e)) = Len(s) + 1
         /\ DOMAIN Append(s, e) = DOMAIN s \cup {Len(s) + 1} /\ Len(s) + 1 \notin DOMAIN s
         /\ \A r \in DOMAIN s : Append(s, e)[r] = s[r]
         /\ Append(s, e)[Len(s) + 1] = e
OBVIOUS

LEMMA SequencesAreFunctions ==
  ASSUME NEW T, NEW n \in Nat, NEW s
  PROVE  s \in [1..n -> T] <=> s \in Seq(T) /\ Len(s) = n
OBVIOUS

LEMMA TailIsOf ==
  ASSUME NEW T, NEW s \in Seq(T), s # <<>>
  PROVE  Tail(s) \in Seq(T) /\ Head(s) \in T
OBVIOUS

LEMMA PassIsRetry ==
  ASSUME NEW b, DOMAIN b \subseteq Ids, b \in [DOMAIN b -> 0..MaxRetries]
  PROVE  Pass(b) \in Retry
  BY BoundsAssumption DEF Pass, Retry

LEMMA SleepingIsRetry == Sleeping \in Retry /\ DOMAIN Sleeping.batch = {} /\ Sleeping.report = 0
  <1> DEFINE b == <<>>
  <1>1. DOMAIN b = {} /\ b \in [{} -> 0..MaxRetries]
    OBVIOUS
  <1>2. Sleeping = Pass(b)
    BY DEF Sleeping
  <1> HIDE DEF b
  <1> QED
    BY <1>1, <1>2, PassIsRetry DEF Pass

LEMMA RestingIsIssuing == Resting \in Issuing /\ Enrolled \in Person
  BY BoundsAssumption DEF Resting, Issuing, Enrolled, Person, Revs

\* Of a retry worker's state the batch only says which reports there are.
LEMMA RetryIsOf ==
  ASSUME NEW x
  PROVE  x \in Retry <=>
           /\ x = [batch |-> x.batch, report |-> x.report, ok |-> x.ok]
           /\ DOMAIN x.batch \subseteq Ids /\ x.batch \in [DOMAIN x.batch -> 0..MaxRetries]
           /\ x.report \in 0..MaxReports /\ x.ok \in BOOLEAN
  BY DEF Retry

LEMMA ReportsAreTyped ==
  ASSUME Typed
  PROVE  reports \in Seq(Report) /\ \A r \in Ids : reports[r] \in Report /\ r \in Nat /\ r # 0
  <1>1. reports \in Seq(Report)
    BY DEF Typed, TypeOK
  <1> QED
    BY <1>1, IdsAreNumbers

LEMMA BatchCounts ==
  ASSUME Typed, NEW w \in Retriers, NEW r \in DOMAIN retrying[w].batch
  PROVE  retrying[w].batch[r] \in 0..MaxRetries /\ retrying[w].batch[r] < MaxRetries
  <1>1. retrying[w] \in Retry
    BY DEF Typed, TypeOK
  <1>2. retrying[w].batch \in [DOMAIN retrying[w].batch -> 0..MaxRetries]
    BY <1>1, RetryIsOf
  <1> QED
    BY <1>2 DEF Typed, Batches

LEMMA TypedInit == Init => Typed
  <1> SUFFICES ASSUME Init PROVE Typed
    OBVIOUS
  <1>1. Ids = {} /\ reports \in Seq(Report) /\ Len(reports) = 0
    BY DEF Init
  <1>2. TypeOK
    <2>1. /\ person \in Person /\ rows \subseteq Person /\ handlers \subseteq Handler
          /\ queue \in Seq(Actions)
          /\ topic \in Seq(Ids) /\ acks \subseteq Ids \X Answers
          /\ device \in Revs \cup {Nobody} /\ freed \in Nat /\ stopped \subseteq Ids /\ told \in Revs
          /\ changes \in 0..MaxEvents /\ faults \in 0..MaxEvents /\ interrupts \in 0..MaxEvents
          /\ slips \subseteq {"outdated", "crossed", "forgotten", "overtaken"}
      BY RestingIsIssuing, BoundsAssumption DEF Init, Revs
    <2>2. sent \in [Ids -> Nat] /\ verdict \in [Ids -> Answers \cup {"none", "overwritten"}]
      BY <1>1 DEF Init
    <2>3. issuing \in [Issuers -> Issuing] /\ retrying \in [Retriers -> Retry]
      BY RestingIsIssuing, SleepingIsRetry DEF Init
    <2> QED
      BY <1>1, <2>1, <2>2, <2>3 DEF TypeOK
  <1> QED
    BY <1>1, <1>2, BoundsAssumption, SleepingIsRetry DEF Init, Typed, Batches, Firsts, Handling, Issuers, Publishing, Resting

-----------------------------------------------------------------------------
(* Each group of actions keeps the types. *)

\* Where the reports and the retry workers stay, so does most.
LEMMA SameTables ==
  ASSUME Typed, UNCHANGED <<reports, retrying, issuing>>
  PROVE  /\ issuing' \in [Issuers -> Issuing] /\ retrying' \in [Retriers -> Retry']
         /\ reports' \in Seq(Report) /\ Batches' /\ Firsts' /\ Ids' = Ids
         /\ queue' = queue => Handling'
         /\ Len(reports)' <= MaxReports
  BY DEF Typed, TypeOK, Batches, Firsts, Handling, Publishing, Retry

LEMMA ReturningTyped ==
  ASSUME Typed,
         \/ ChangePerson
         \/ \E h \in handlers : CompareFields(h) \/ EnqueueReissue(h) \/ ForgetReissue(h)
  PROVE  Typed'
  <1>1. UNCHANGED <<reports, retrying, issuing>>
    BY DEF ChangePerson, CompareFields, EnqueueReissue, ForgetReissue, ledger
  <1>2. CASE ChangePerson
    <2>1. changes + 1 \in Revs /\ changes + 1 \in Nat
      BY <1>2, BoundsAssumption DEF ChangePerson, MoreToCome, Typed, TypeOK, Revs
    <2>2. PICK before \in rows :
            /\ \E to \in {[person EXCEPT !.card = changes + 1], [person EXCEPT !.active = ~@], before} :
                 person' = [to EXCEPT !.rev = changes + 1]
            /\ handlers' = handlers \cup {[stage |-> "wrote", before |-> before, over |-> person]}
      BY <1>2 DEF ChangePerson
    <2>3. person \in Person /\ before \in Person /\ handlers \subseteq Handler
      BY <2>2 DEF Typed, TypeOK
    <2>4. person' \in Person
      BY <2>1, <2>2, <2>3 DEF Person
    <2>5. handlers' \subseteq Handler
      BY <2>2, <2>3 DEF Handler
    <2>6. rows' \subseteq Person
      BY <1>2, <2>4 DEF ChangePerson, Typed, TypeOK
    <2>7. changes' \in 0..MaxEvents
      BY <1>2, <2>1 DEF ChangePerson, Revs
    <2> QED
      BY <1>1, <1>2, <2>4, <2>5, <2>6, <2>7, SameTables
      DEF ChangePerson, ledger, history, Typed, TypeOK
  <1>3. ASSUME NEW h \in handlers, CompareFields(h) PROVE Typed'
    <2> DEFINE action == IssueActionAfterChange(h.before, person)
               g == [stage |-> "compared", action |-> action, rev |-> person.rev, over |-> h.over]
    <2>1. action \in Actions \cup {"none"}
      BY DEF IssueActionAfterChange, Actions
    <2>2. handlers' = (handlers \ {h}) \cup (IF action = "none" THEN {} ELSE {g}) /\ h.stage = "wrote"
      BY <1>3 DEF CompareFields
    <2>3. h.over \in Person /\ person.rev \in Revs
      BY <2>2 DEF Typed, TypeOK, Handler, Person
    <2>4. action # "none" => g \in Handler
      BY <2>1, <2>3 DEF Handler
    <2>5. handlers' \subseteq Handler
      <3> HIDE DEF action, g
      <3> QED
        BY <2>2, <2>4 DEF Typed, TypeOK
    <2>6. slips' \subseteq {"outdated", "crossed", "forgotten", "overtaken"}
      BY <1>3 DEF CompareFields, Typed, TypeOK
    <2> QED
      BY <1>1, <1>3, <2>5, <2>6, SameTables DEF CompareFields, ledger, bounds, Typed, TypeOK
  <1>4. ASSUME NEW h \in handlers, EnqueueReissue(h) PROVE Typed'
    <2>1. h.action \in Actions /\ h.rev \in Revs
      BY <1>4 DEF EnqueueReissue, Typed, TypeOK, Handler
    <2>2. queue' \in Seq(Actions) /\ (queue # <<>> => queue' # <<>>)
      <3> DEFINE handled == IF issuing["outbox"].stage = "idle" THEN 0 ELSE 1
                 put == [i \in DOMAIN queue |-> IF i > handled THEN h.action ELSE queue[i]]
      <3>1. queue' = IF Len(queue) = handled THEN Append(queue, h.action) ELSE put
        BY <1>4 DEF EnqueueReissue, Coalesced
      <3>2. \A i \in DOMAIN queue : put[i] \in Actions
        BY <2>1 DEF Typed, TypeOK
      <3>3. put \in Seq(Actions) /\ Len(put) = Len(queue)
        <4> HIDE DEF handled
        <4>1. queue \in Seq(Actions) /\ put = [i \in DOMAIN queue |-> put[i]]
          BY DEF Typed, TypeOK
        <4> HIDE DEF put
        <4> QED
          BY <3>2, <4>1, TableWritten
      <3>4. Append(queue, h.action) \in Seq(Actions) /\ Append(queue, h.action) # <<>>
        <4>1. queue \in Seq(Actions)
          BY DEF Typed, TypeOK
        <4> QED
          BY <2>1, <4>1
      <3>5. queue # <<>> => put # <<>>
        BY <3>3 DEF Typed, TypeOK
      <3> HIDE DEF put
      <3> QED
        BY <3>1, <3>3, <3>4, <3>5
    <2>3. Handling'
      BY <1>4, <2>2 DEF EnqueueReissue, Handling, Typed
    <2> QED
      BY <1>1, <1>4, <2>1, <2>2, <2>3, SameTables DEF EnqueueReissue, ledger, bounds, Typed, TypeOK
  <1>5. ASSUME NEW h \in handlers, ForgetReissue(h) PROVE Typed'
    <2>1. interrupts' \in 0..MaxEvents
      BY <1>5, BoundsAssumption DEF ForgetReissue, MoreToCome, Typed, TypeOK
    <2>2. handlers' \subseteq Handler /\ slips' \subseteq {"outdated", "crossed", "forgotten", "overtaken"}
      BY <1>5 DEF ForgetReissue, Typed, TypeOK
    <2> QED
      BY <1>1, <1>5, <2>1, <2>2, SameTables DEF ForgetReissue, ledger, Typed, TypeOK
  <1> QED
    BY <1>2, <1>3, <1>4, <1>5

LEMMA DeviceTyped ==
  ASSUME Typed,
         \/ TakeCommand \/ LoseMessage
  PROVE  Typed'
  <1>1. UNCHANGED <<reports, retrying, issuing>>
    BY DEF TakeCommand, LoseMessage
  <1>2. CASE TakeCommand
    <2>1. topic # <<>> /\ topic' = Tail(topic)
      BY <1>2 DEF TakeCommand
    <2>2. topic' \in Seq(Ids) /\ Head(topic) \in Ids
      BY <2>1, TailIsOf DEF Typed, TypeOK
    <2>3. acks' \subseteq Ids \X Answers
      BY <1>2, <2>2 DEF TakeCommand, Typed, TypeOK, Answers
    <2>4. reports[Head(topic)] \in Report
      BY <2>2 DEF Typed, TypeOK
    <2>5. device' \in Revs \cup {Nobody}
      BY <1>2, <2>4 DEF TakeCommand, Typed, TypeOK, Report
    <2>6. faults' \in 0..MaxEvents
      <3>1. faults \in 0..MaxEvents /\ changes \in Nat /\ interrupts \in Nat /\ MaxEvents \in Nat
        BY BoundsAssumption DEF Typed, TypeOK
      <3>2. faults' = faults \/ (faults' = faults + 1 /\ changes + faults + interrupts < MaxEvents)
        BY <1>2 DEF TakeCommand, MoreToCome
      <3> QED
        BY <3>1, <3>2
    <2> QED
      BY <1>1, <1>2, <2>2, <2>3, <2>5, <2>6, SameTables DEF TakeCommand, history, Typed, TypeOK
  <1>3. CASE LoseMessage
    <2>1. topic' \in Seq(Ids)
      <3>1. topic \in Seq(Ids)
        BY DEF Typed, TypeOK
      <3>2. CASE topic # <<>> /\ topic' = Tail(topic)
        BY <3>1, <3>2, TailIsOf
      <3>3. CASE topic' = topic
        BY <3>1, <3>3
      <3> QED
        BY <1>3, <3>2, <3>3 DEF LoseMessage
    <2>2. acks' \subseteq Ids \X Answers
      BY <1>3 DEF LoseMessage, Typed, TypeOK
    <2>3. faults' \in 0..MaxEvents
      BY <1>3, BoundsAssumption DEF LoseMessage, MoreToCome, Typed, TypeOK
    <2> QED
      BY <1>1, <1>3, <2>1, <2>2, <2>3, SameTables DEF LoseMessage, history, Typed, TypeOK
  <1> QED
    BY <1>2, <1>3

\* A report is inserted by an issuer who has none.
LEMMA InsertTyped ==
  ASSUME Typed, NEW i \in Issuers, NEW action \in Actions, NEW of \in Person,
         ~ Publishing(i), InsertReport(i, action, of)
  PROVE  /\ reports' \in Seq(Report) /\ Len(reports)' = Len(reports) + 1
         /\ Ids' = Ids \cup {Len(reports) + 1}
         /\ issuing' \in [Issuers -> Issuing] /\ Firsts'
         /\ sent' \in [Ids' -> Nat] /\ verdict' \in [Ids' -> Answers \cup {"none", "overwritten"}]
  <1> DEFINE n == Len(reports) + 1
             e == NewReport(action, of)
  <1>1. e \in Report
    BY RetriesAssumption DEF NewReport, Report, Person, Answers
  <1>2. reports \in Seq(Report) /\ Len(reports) < MaxReports
    BY DEF Typed, TypeOK, InsertReport
  <1>3. reports' = Append(reports, e)
    BY DEF InsertReport
  <1>4. /\ reports' \in Seq(Report) /\ Len(reports)' = n
        /\ Ids' = Ids \cup {n} /\ n \notin Ids
    BY <1>1, <1>2, <1>3, TableGrown
  <1>5. n \in 0..MaxReports /\ n # 0
    BY <1>2, BoundsAssumption
  <1>6. issuing' = [issuing EXCEPT ![i] = [Resting EXCEPT !.stage = "inserted", !.report = n]]
    BY DEF InsertReport
  <1>7. [Resting EXCEPT !.stage = "inserted", !.report = n] \in Issuing
    BY <1>5, RestingIsIssuing DEF Resting, Issuing
  <1>8. issuing' \in [Issuers -> Issuing]
    BY <1>6, <1>7 DEF Typed, TypeOK
  <1>9. Firsts'
    <2>1. /\ issuing'[i].stage = "inserted" /\ issuing'[i].report = n
          /\ \A j \in Issuers \ {i} : issuing'[j] = issuing[j]
      BY <1>6 DEF Typed, TypeOK, Resting
    <2>2. \A j \in Issuers \ {i} : Publishing(j) => issuing[j].report \in Ids
      BY DEF Typed, Firsts
    <2> QED
      BY <1>4, <2>1, <2>2 DEF Typed, Firsts, Publishing
  <1>10. Ids = 1..Len(reports) /\ Ids' = 1..n /\ Len(reports) \in Nat /\ n \in Nat
    BY <1>2, <1>4, IdsAreNumbers
  <1>11. /\ sent \in Seq(Nat) /\ verdict \in Seq(Answers \cup {"none", "overwritten"})
         /\ Len(sent) = Len(reports) /\ Len(verdict) = Len(reports)
    <2>1. sent \in [1..Len(reports) -> Nat]
          /\ verdict \in [1..Len(reports) -> Answers \cup {"none", "overwritten"}]
      BY <1>10 DEF Typed, TypeOK
    <2> QED
      BY <1>10, <2>1, SequencesAreFunctions
  <1>12. sent' = Append(sent, 0) /\ verdict' = Append(verdict, "none")
    BY DEF InsertReport
  <1>13. /\ sent' \in Seq(Nat) /\ verdict' \in Seq(Answers \cup {"none", "overwritten"})
         /\ Len(sent') = n /\ Len(verdict') = n
    BY <1>11, <1>12, TableGrown
  <1>14. sent' \in [Ids' -> Nat] /\ verdict' \in [Ids' -> Answers \cup {"none", "overwritten"}]
    BY <1>10, <1>13, SequencesAreFunctions
  <1> QED
    BY <1>4, <1>8, <1>9, <1>14

\* What is set in a row of a function.
LEMMA RowSet ==
  ASSUME NEW S, NEW T, NEW f \in [S -> T], NEW x \in S, NEW y \in T
  PROVE  [f EXCEPT ![x] = y] \in [S -> T]
OBVIOUS

LEMMA PublishTyped ==
  ASSUME Typed, NEW r \in Ids, NEW ok \in BOOLEAN, Publish(r, ok), UNCHANGED reports
  PROVE  /\ topic' \in Seq(Ids) /\ slips' \subseteq {"outdated", "crossed", "forgotten", "overtaken"}
         /\ faults' \in 0..MaxEvents /\ sent' \in [Ids -> Nat]
  <1>1. faults' \in 0..MaxEvents
    BY BoundsAssumption DEF Publish, MoreToCome, Typed, TypeOK
  <1>2. topic' \in Seq(Ids) /\ slips' \subseteq {"outdated", "crossed", "forgotten", "overtaken"}
    <2>1. topic \in Seq(Ids) /\ Append(topic, r) \in Seq(Ids)
      BY DEF Typed, TypeOK
    <2>2. \/ topic' = Append(topic, r) /\ slips' \in {slips, slips \cup {"overtaken"}}
          \/ UNCHANGED <<topic, slips>>
      BY DEF Publish
    <2> QED
      BY <2>1, <2>2 DEF Typed, TypeOK
  <1>3. sent' \in [Ids -> Nat]
    BY DEF Publish, Typed, TypeOK
  <1> QED
    BY <1>1, <1>2, <1>3

LEMMA IssuingTyped ==
  ASSUME Typed,
         \/ IssueSingleWorker \/ FetchProjectWorkers \/ IssueFetched
         \/ \E i \in Issuers : \/ SavePublishResult(i) \/ InterruptIssue(i)
                              \/ \E ok \in BOOLEAN : PublishReport(i, ok)
  PROVE  Typed'
  <1>1. retrying' = retrying
    BY DEF IssueSingleWorker, FetchProjectWorkers, IssueFetched, SavePublishResult, InterruptIssue,
           PublishReport
  <1>2. ASSUME Ids \subseteq Ids' PROVE retrying' \in [Retriers -> Retry'] /\ Batches'
    BY <1>1, <1>2 DEF Typed, TypeOK, Batches, Retry
  <1>3. ASSUME NEW i \in Issuers, NEW action \in Actions, NEW of \in Person,
               ~ Publishing(i), InsertReport(i, action, of),
               UNCHANGED <<person, rows, handlers, queue, topic, acks, device, bounds,
                           freed, stopped, told, slips>>, Handling'
        PROVE  Typed'
    <2>1. /\ reports' \in Seq(Report) /\ Ids \subseteq Ids'
          /\ issuing' \in [Issuers -> Issuing] /\ Firsts'
          /\ sent' \in [Ids' -> Nat] /\ verdict' \in [Ids' -> Answers \cup {"none", "overwritten"}]
      BY <1>3, InsertTyped
    <2>9. Len(reports)' <= MaxReports
      <3>1. Len(reports)' = Len(reports) + 1 /\ Len(reports) < MaxReports
        BY <1>3, InsertTyped DEF InsertReport
      <3>2. Len(reports) \in Nat
        BY DEF Typed, TypeOK
      <3> QED
        BY <3>1, <3>2, BoundsAssumption
    <2>2. topic' \in Seq(Ids') /\ acks' \subseteq Ids' \X Answers /\ stopped' \subseteq Ids'
      BY <1>3, <2>1 DEF Typed, TypeOK
    <2> QED
      BY <1>2, <1>3, <2>1, <2>2, <2>9 DEF Typed, TypeOK, bounds
  <1>4. CASE IssueSingleWorker
    <2>1. queue # <<>> /\ ~ Publishing("outbox") /\ person \in Person
      BY <1>4 DEF IssueSingleWorker, Publishing, Typed, TypeOK
    <2>2. Head(queue) \in Actions /\ Tail(queue) \in Seq(Actions)
      BY <2>1, TailIsOf DEF Typed, TypeOK
    <2>3. CASE InsertReport("outbox", Head(queue), person) /\ UNCHANGED queue
      BY <1>3, <1>4, <2>1, <2>2, <2>3 DEF IssueSingleWorker, Issuers, Handling
    <2>4. CASE queue' = Tail(queue) /\ UNCHANGED <<issuing, reports, sent, verdict>>
      <3>1. Handling'
        BY <1>4, <2>4 DEF IssueSingleWorker, Handling
      <3> QED
        BY <1>1, <1>4, <2>2, <2>4, <3>1, SameTables DEF IssueSingleWorker, bounds, Typed, TypeOK
    <2> QED
      BY <1>4, <2>3, <2>4 DEF IssueSingleWorker
  <1>5. CASE FetchProjectWorkers
    <2>1. [Resting EXCEPT !.stage = "read", !.of = person] \in Issuing
      BY RestingIsIssuing DEF Typed, TypeOK, Resting, Issuing
    <2>2. issuing' \in [Issuers -> Issuing]
      BY <1>5, <2>1 DEF FetchProjectWorkers, Typed, TypeOK
    <2>3. Firsts'
      BY <1>5 DEF FetchProjectWorkers, ledger, Typed, TypeOK, Firsts, Publishing, Resting
    <2>4. Handling'
      BY <1>5 DEF FetchProjectWorkers, Typed, TypeOK, Handling, Issuers
    <2> QED
      BY <1>2, <1>5, <2>2, <2>3, <2>4 DEF FetchProjectWorkers, ledger, bounds, history, Typed, TypeOK, Issuing, Retry
  <1>6. CASE IssueFetched
    <2>1. issuing["operator"].of \in Person /\ ~ Publishing("operator")
      BY <1>6 DEF IssueFetched, Typed, TypeOK, Issuing, Issuers, Publishing
    <2>2. Handling'
      BY <1>6 DEF IssueFetched, InsertReport, Typed, TypeOK, Handling, Issuers
    <2> QED
      BY <1>3, <1>6, <2>1, <2>2 DEF IssueFetched, Issuers, Actions
  <1>7. ASSUME NEW i \in Issuers, SavePublishResult(i) PROVE Typed'
    <2> DEFINE r == issuing[i].report
               e == [reports[r] EXCEPT !.status = IF issuing[i].ok THEN "pending" ELSE "failed"]
    <2>1. r \in Ids
      BY <1>7 DEF SavePublishResult, Typed, Firsts, Publishing
    <2>2. e \in Report
      <3>1. reports[r] \in Report
        BY <2>1, ReportsAreTyped
      <3> QED
        BY <3>1 DEF Report, Answers
    <2>3. reports' = [reports EXCEPT ![r] = e]
      BY <1>7, <2>1 DEF SavePublishResult
    <2>4. reports' \in Seq(Report) /\ Ids' = Ids /\ Len(reports)' <= MaxReports
      BY <2>1, <2>2, <2>3 DEF Typed, TypeOK
    <2>5. issuing' \in [Issuers -> Issuing]
      BY <1>7, RestingIsIssuing, RowSet DEF SavePublishResult, Typed, TypeOK
    <2>6. Firsts'
      BY <1>7, <2>4 DEF SavePublishResult, Typed, TypeOK, Firsts, Publishing, Resting
    <2>7. verdict' \in [Ids -> Answers \cup {"none", "overwritten"}]
      BY <1>7, <2>1 DEF SavePublishResult, Typed, TypeOK
    <2>8. queue' \in Seq(Actions)
      <3>1. i = "outbox" => queue # <<>>
        BY <1>7 DEF SavePublishResult, Typed, Handling
      <3> QED
        BY <1>7, <3>1, TailIsOf DEF SavePublishResult, Typed, TypeOK
    <2>9. Handling'
      BY <1>7 DEF SavePublishResult, Typed, TypeOK, Handling, Issuers, Resting
    <2> QED
      BY <1>2, <1>7, <2>4, <2>5, <2>6, <2>7, <2>8, <2>9 DEF SavePublishResult, bounds, Typed, TypeOK
  <1>8. ASSUME NEW i \in Issuers, InterruptIssue(i) PROVE Typed'
    <2>1. issuing' \in [Issuers -> Issuing]
      BY <1>8, RestingIsIssuing, RowSet DEF InterruptIssue, Typed, TypeOK
    <2>2. Firsts'
      BY <1>8 DEF InterruptIssue, ledger, Typed, TypeOK, Firsts, Publishing, Resting
    <2>3. interrupts' \in 0..MaxEvents
      BY <1>8, BoundsAssumption DEF InterruptIssue, MoreToCome, Typed, TypeOK
    <2>4. Handling'
      BY <1>8 DEF InterruptIssue, Typed, TypeOK, Handling, Issuers, Resting
    <2> QED
      BY <1>2, <1>8, <2>1, <2>2, <2>3, <2>4 DEF InterruptIssue, ledger, history, Typed, TypeOK
  <1>9. ASSUME NEW i \in Issuers, NEW ok \in BOOLEAN, PublishReport(i, ok) PROVE Typed'
    <2>1. issuing[i].report \in Ids
      BY <1>9 DEF PublishReport, Typed, Firsts, Publishing
    <2>2. /\ topic' \in Seq(Ids) /\ slips' \subseteq {"outdated", "crossed", "forgotten", "overtaken"}
          /\ faults' \in 0..MaxEvents /\ sent' \in [Ids -> Nat]
      BY <1>9, <2>1, PublishTyped DEF PublishReport
    <2> DEFINE e == [issuing[i] EXCEPT !.stage = "sent", !.ok = ok]
    <2>3. e \in Issuing /\ e.stage = "sent" /\ e.report = issuing[i].report
      <3>1. issuing[i] \in Issuing
        BY DEF Typed, TypeOK
      <3> QED
        BY <3>1 DEF Issuing
    <2>4. issuing' = [issuing EXCEPT ![i] = e]
      BY <1>9 DEF PublishReport
    <2> HIDE DEF e
    <2>5. issuing' \in [Issuers -> Issuing]
      BY <2>3, <2>4 DEF Typed, TypeOK
    <2>6. /\ Publishing(i) /\ Publishing(i)'
          /\ \A j \in Issuers : /\ Publishing(j)' <=> Publishing(j)
                                /\ issuing'[j].report = issuing[j].report
      BY <1>9, <2>3, <2>4 DEF PublishReport, Typed, TypeOK, Publishing
    <2>7. Firsts'
      BY <1>9, <2>6 DEF PublishReport, Typed, Firsts
    <2>8. Handling'
      BY <1>9, <2>3, <2>4 DEF PublishReport, Typed, TypeOK, Handling, Issuers
    <2> QED
      BY <1>2, <1>9, <2>2, <2>5, <2>7, <2>8 DEF PublishReport, Typed, TypeOK
  <1> QED
    BY <1>4, <1>5, <1>6, <1>7, <1>8, <1>9

\* A pass: what it writes to the rows and what it takes along.
PassBy(w, used, batch, gone) ==
  /\ \A r \in used : Exhausted(r)
  /\ \A r \in batch : Claimable(r)
  /\ \A r \in gone : Unanswered(r)
  /\ gone = {} \/ batch = {}
  /\ reports' \in Seq(Report) /\ Ids' = Ids /\ Len(reports') = Len(reports)
  /\ \A r \in gone \cup used :
       reports'[r] = [reports[r] EXCEPT !.status = "failed", !.locked = FALSE]
  /\ \A r \in batch \ (gone \cup used) : reports'[r] = [reports[r] EXCEPT !.locked = TRUE]
  /\ \A r \in Ids \ (gone \cup used \cup batch) : reports'[r] = reports[r]
  /\ retrying' = [retrying EXCEPT ![w] = Pass([r \in batch |-> reports[r].count])]
  /\ stopped' = stopped \cup gone
  /\ freed' = freed + Cardinality({r \in gone : reports[r].locked})

LEMMA PassWrites ==
  ASSUME Typed, NEW w \in Retriers, StartPass(w)
  PROVE  \E used, batch, gone \in SUBSET Ids : PassBy(w, used, batch, gone)
  <1> DEFINE gone == IF person.active THEN {} ELSE {r \in Ids : Unanswered(r)}
             t(used, batch) ==
               [r \in Ids |->
                  IF r \in gone \cup used THEN [reports[r] EXCEPT !.status = "failed", !.locked = FALSE]
                  ELSE IF r \in batch THEN [reports[r] EXCEPT !.locked = TRUE]
                  ELSE reports[r]]
  <1>1. PICK used \in SUBSET {r \in Ids : Exhausted(r)}, batch \in SUBSET {r \in Ids : Claimable(r)} :
          /\ reports' = t(used, batch)
          /\ retrying' = [retrying EXCEPT ![w] = Pass([r \in batch |-> reports[r].count])]
          /\ stopped' = stopped \cup gone
          /\ freed' = freed + Cardinality({r \in gone : reports[r].locked})
    BY DEF StartPass
  <1>2. used \in SUBSET Ids /\ batch \in SUBSET Ids /\ gone \in SUBSET Ids
    OBVIOUS
  <1>3. /\ \A r \in used : Exhausted(r)
        /\ \A r \in batch : Claimable(r)
        /\ \A r \in gone : Unanswered(r)
        /\ gone = {} \/ batch = {}
    BY DEF Claimable
  <1>5. reports \in Seq(Report)
    BY DEF Typed, TypeOK
  <1>6. /\ \A r \in gone \cup used :
             reports'[r] = [reports[r] EXCEPT !.status = "failed", !.locked = FALSE]
        /\ \A r \in batch \ (gone \cup used) : reports'[r] = [reports[r] EXCEPT !.locked = TRUE]
        /\ \A r \in Ids \ (gone \cup used \cup batch) : reports'[r] = reports[r]
        /\ reports' = [r \in DOMAIN reports |-> reports'[r]]
    BY <1>1, <1>2
  <1>7. \A r \in Ids : reports'[r] \in Report
    <2> SUFFICES ASSUME NEW r \in Ids PROVE reports'[r] \in Report
      OBVIOUS
    <2>1. reports[r] \in Report
      BY <1>5
    <2>2. [reports[r] EXCEPT !.status = "failed", !.locked = FALSE] \in Report
      BY <2>1 DEF Report, Answers
    <2>3. [reports[r] EXCEPT !.locked = TRUE] \in Report
      BY <2>1 DEF Report
    <2> HIDE DEF gone
    <2> QED
      BY <1>6, <2>1, <2>2, <2>3
  <1>8. reports' \in Seq(Report) /\ Ids' = Ids /\ Len(reports') = Len(reports)
    BY <1>5, <1>6, <1>7, TableWritten
  <1> HIDE DEF gone, t
  <1>9. PassBy(w, used, batch, gone)
    BY <1>1, <1>3, <1>6, <1>8 DEF PassBy
  <1> QED
    BY <1>2, <1>9

LEMMA RetryingTyped ==
  ASSUME Typed, NEW w \in Retriers,
         \/ StartPass(w) \/ SaveRetry(w) \/ InterruptPass(w)
         \/ \E r \in Ids, ok \in BOOLEAN : PublishRetry(w, r, ok)
  PROVE  Typed'
  <1>1. UNCHANGED <<issuing, queue, handlers, person>>
    BY DEF StartPass, SaveRetry, InterruptPass, PublishRetry
  <1>2. ASSUME Ids' = Ids PROVE issuing' \in [Issuers -> Issuing] /\ Firsts' /\ Handling'
    BY <1>1, <1>2 DEF Typed, TypeOK, Firsts, Handling, Publishing
  <1>3. ASSUME NEW x \in Retry, Ids' = Ids, retrying' = [retrying EXCEPT ![w] = x],
               \A r \in DOMAIN x.batch : x.batch[r] < MaxRetries,
               x.report # 0 => x.report \in DOMAIN x.batch
        PROVE  retrying' \in [Retriers -> Retry'] /\ Batches'
    BY <1>3 DEF Typed, TypeOK, Batches, Retry
  <1>4. \A r \in Ids : r \in 0..MaxReports /\ reports[r] \in Report
    BY BoundsAssumption, IdsAreNumbers DEF Typed, TypeOK
  <1>5. retrying[w] \in Retry
    BY DEF Typed, TypeOK
  <1>6. CASE StartPass(w)
    <2>1. PICK used \in SUBSET Ids, batch \in SUBSET Ids, gone \in SUBSET Ids :
            PassBy(w, used, batch, gone)
      BY <1>6, PassWrites
    <2>7. Ids' = Ids /\ Len(reports') = Len(reports) /\ reports' \in Seq(Report) /\ stopped' = stopped \cup gone
      BY <2>1 DEF PassBy
    <2> DEFINE b == [r \in batch |-> reports[r].count]
    <2>2. \A r \in batch : b[r] \in 0..MaxRetries /\ b[r] < MaxRetries
      BY <1>4, <2>1 DEF PassBy, Claimable, Report
    <2>3. b \in [batch -> 0..MaxRetries] /\ DOMAIN b = batch
      BY <2>2
    <2>4. Pass(b) \in Retry
      BY <2>3, PassIsRetry
    <2>5. retrying' \in [Retriers -> Retry'] /\ Batches'
      BY <1>3, <2>1, <2>2, <2>3, <2>4, <2>7 DEF PassBy, Pass
    <2>6. freed' \in Nat
      <3>1. IsFiniteSet(Ids)
        BY IdsAreNumbers, FS_Interval DEF Typed, TypeOK
      <3> QED
        <4>1. Cardinality({r \in gone : reports[r].locked}) \in Nat
          BY <3>1, FS_Subset, FS_CardinalityType
        <4> QED
          <5> DEFINE k == Cardinality({r \in gone : reports[r].locked})
          <5>1. freed' = freed + k
            BY <2>1 DEF PassBy
          <5> HIDE DEF k
          <5>2. freed \in Nat
            BY DEF Typed, TypeOK
          <5> QED
            BY <4>1, <5>1, <5>2 DEF k
    <2> QED
      BY <1>2, <1>6, <2>7, <2>5, <2>6 DEF StartPass, bounds, Typed, TypeOK
  <1>7. CASE SaveRetry(w)
    <2> DEFINE r == retrying[w].report
               left == [s \in DOMAIN retrying[w].batch \ {r} |-> retrying[w].batch[s]]
               x == Pass(left)
    <2>1. r \in DOMAIN retrying[w].batch /\ r \in Ids /\ retrying[w].batch[r] \in 0..MaxRetries
          /\ retrying[w].batch[r] < MaxRetries
      BY <1>5, <1>7, RetryIsOf DEF SaveRetry, Typed, Batches
    <2>2. x.batch = left /\ x.report = 0
      BY DEF Pass
    <2>3. DOMAIN left \subseteq Ids /\ left \in [DOMAIN left -> 0..MaxRetries]
          /\ \A s \in DOMAIN left : left[s] < MaxRetries
      BY <1>5, RetryIsOf DEF Typed, Batches
    <2>4. x \in Retry
      <3> HIDE DEF left
      <3> QED
        BY <2>3, PassIsRetry
    <2>5. Retried(w, r) \in Report
      <3>1. reports[r] \in Report /\ retrying[w].batch[r] + 1 \in 0..MaxRetries
        BY <1>4, <2>1, RetriesAssumption
      <3> HIDE DEF r
      <3> QED
        BY <3>1 DEF Retried, Report, Answers
    <2>6. /\ retrying' = [retrying EXCEPT ![w] = x]
          /\ reports' = IF reports[r].acked THEN reports ELSE [reports EXCEPT ![r] = Retried(w, r)]
      BY <1>7 DEF SaveRetry
    <2> HIDE DEF r, left, x
    <2>7. reports' \in Seq(Report) /\ Ids' = Ids /\ Len(reports') = Len(reports)
      BY <2>1, <2>5, <2>6 DEF Typed, TypeOK
    <2>8. retrying' \in [Retriers -> Retry'] /\ Batches'
      BY <1>3, <2>2, <2>3, <2>4, <2>6, <2>7
    <2> QED
      BY <1>2, <1>7, <2>7, <2>8 DEF SaveRetry, bounds, history, Typed, TypeOK
  <1>8. CASE InterruptPass(w)
    <2> DEFINE t == [r \in Ids |-> IF r \in DOMAIN retrying[w].batch
                               THEN [reports[r] EXCEPT !.locked = FALSE] ELSE reports[r]]
    <2>1. reports' = t
      BY <1>8 DEF InterruptPass
    <2>2. \A r \in Ids : t[r] \in Report
      <3> SUFFICES ASSUME NEW r \in Ids PROVE t[r] \in Report
        OBVIOUS
      <3>1. reports[r] \in Report /\ [reports[r] EXCEPT !.locked = FALSE] \in Report
        BY <1>4 DEF Report
      <3> QED
        BY <3>1
    <2>3. t = [r \in DOMAIN reports |-> t[r]] /\ reports \in Seq(Report)
      BY DEF Typed, TypeOK
    <2> HIDE DEF t
    <2>4. reports' \in Seq(Report) /\ Ids' = Ids /\ Len(reports') = Len(reports)
      BY <2>1, <2>2, <2>3, TableWritten
    <2>5. retrying' \in [Retriers -> Retry'] /\ Batches'
      BY <1>3, <1>8, <2>4, SleepingIsRetry DEF InterruptPass
    <2>6. interrupts' \in 0..MaxEvents
      BY <1>8, BoundsAssumption DEF InterruptPass, MoreToCome, Typed, TypeOK
    <2> QED
      BY <1>2, <1>8, <2>4, <2>5, <2>6 DEF InterruptPass, history, Typed, TypeOK
  <1>9. ASSUME NEW r \in Ids, NEW ok \in BOOLEAN, PublishRetry(w, r, ok) PROVE Typed'
    <2>1. /\ topic' \in Seq(Ids) /\ slips' \subseteq {"outdated", "crossed", "forgotten", "overtaken"}
          /\ faults' \in 0..MaxEvents /\ sent' \in [Ids -> Nat]
      BY <1>9, PublishTyped DEF PublishRetry
    <2> DEFINE x == [retrying[w] EXCEPT !.report = r, !.ok = ok]
    <2>2. x \in Retry /\ x.batch = retrying[w].batch /\ x.report = r
      BY <1>4, <1>5 DEF Retry
    <2>3. retrying' = [retrying EXCEPT ![w] = x] /\ r \in DOMAIN retrying[w].batch
      BY <1>9 DEF PublishRetry
    <2> HIDE DEF x
    <2>4. retrying' \in [Retriers -> Retry'] /\ Batches'
      BY <1>3, <1>9, <2>2, <2>3 DEF PublishRetry, Typed, Batches
    <2> QED
      BY <1>2, <1>9, <2>1, <2>4 DEF PublishRetry, Typed, TypeOK
  <1> QED
    BY <1>6, <1>7, <1>8, <1>9

LEMMA AnswerTyped ==
  ASSUME Typed, NEW r \in Ids, NEW answer \in Answers, ApplyIssueAck(r, answer)
  PROVE  Typed'
  <1> DEFINE e == [reports[r] EXCEPT !.status = answer, !.acked = TRUE, !.locked = FALSE]
  <1>1. e \in Report
    <2>1. reports[r] \in Report
      BY ReportsAreTyped
    <2> QED
      BY <2>1 DEF Report
  <1>2. reports' = [reports EXCEPT ![r] = e]
    BY DEF ApplyIssueAck
  <1> HIDE DEF e
  <1>3. reports' \in Seq(Report) /\ Ids' = Ids /\ Len(reports') = Len(reports)
    BY <1>1, <1>2 DEF Typed, TypeOK
  <1>4. /\ issuing' \in [Issuers -> Issuing] /\ Firsts' /\ Handling'
        /\ retrying' \in [Retriers -> Retry'] /\ Batches'
    BY <1>3 DEF ApplyIssueAck, Typed, TypeOK, Firsts, Handling, Publishing, Batches, Retry
  <1>5. verdict' \in [Ids -> Answers \cup {"none", "overwritten"}]
    BY DEF ApplyIssueAck, Typed, TypeOK
  <1> QED
    BY <1>3, <1>4, <1>5 DEF ApplyIssueAck, bounds, Typed, TypeOK

LEMMA TypedStep == Typed /\ [Next]_vars => Typed'
  <1> SUFFICES ASSUME Typed, [Next]_vars PROVE Typed'
    OBVIOUS
  <1>1. CASE UNCHANGED vars
    <2>1. UNCHANGED <<reports, retrying, issuing>>
      BY <1>1 DEF vars, ledger
    <2> QED
      BY <1>1, <2>1, SameTables DEF vars, ledger, bounds, history, Typed, TypeOK
  <1>2. CASE Next
    BY <1>2, ReturningTyped, DeviceTyped, IssuingTyped, RetryingTyped, AnswerTyped
    DEF Next, Issuer, Retrier, Disturbance
  <1> QED
    BY <1>1, <1>2

\* Every variable stays within its type: no count passes its limit, no table its bound, and
\* what an issuer, a retry worker, a message or an answer speaks of is there.
THEOREM DeviceIsTyped == Spec => []TypeOK
<1>1. Typed => TypeOK
  BY DEF Typed
<1> QED
  BY <1>1, TypedInit, TypedStep, PTL DEF Spec

-----------------------------------------------------------------------------
(* Answers. *)

LEMMA AckShowsStep == Typed /\ AckShows /\ [Next]_vars => AckShows'
  <1> SUFFICES ASSUME Typed, AckShows, [Next]_vars PROVE AckShows'
    OBVIOUS
  <1> USE DEF AckShows
  <1>1. CASE UNCHANGED <<reports, verdict>>
    BY <1>1
  <1>2. ASSUME NEW i \in Issuers, NEW action, NEW of, InsertReport(i, action, of) PROVE AckShows'
    <2> DEFINE n == Len(reports) + 1
               e == NewReport(action, of)
    <2>1. /\ Len(verdict) = Len(reports) /\ verdict \in Seq(Answers \cup {"none", "overwritten"})
          /\ Ids = 1..Len(reports) /\ reports \in Seq(Report) /\ Len(reports) \in Nat
      <3>1. Ids = 1..Len(reports) /\ reports \in Seq(Report) /\ Len(reports) \in Nat
        BY IdsAreNumbers DEF Typed, TypeOK
      <3>2. verdict \in [1..Len(reports) -> Answers \cup {"none", "overwritten"}]
        BY <3>1 DEF Typed, TypeOK
      <3> QED
        BY <3>1, <3>2, SequencesAreFunctions
    <2>2. reports' = Append(reports, e) /\ verdict' = Append(verdict, "none") /\ e.acked = FALSE
      BY <1>2 DEF InsertReport, NewReport
    <2> HIDE DEF e
    <2>3. \A r \in Ids : reports'[r] = reports[r] /\ verdict'[r] = verdict[r]
      BY <2>1, <2>2
    <2>4. Ids' = Ids \cup {n} /\ reports'[n] = e
      BY <2>1, <2>2
    <2> QED
      BY <2>2, <2>3, <2>4
  <1>3. ASSUME NEW i \in Issuers, SavePublishResult(i) PROVE AckShows'
    <2> DEFINE q == issuing[i].report
    <2>1. q \in Ids
      BY <1>3 DEF SavePublishResult, Typed, Firsts, Publishing
    <2>2. /\ reports' = [reports EXCEPT ![q].status = IF issuing[i].ok THEN "pending" ELSE "failed"]
          /\ verdict' = [verdict EXCEPT ![q] = IF reports[q].acked THEN "overwritten" ELSE @]
      BY <1>3 DEF SavePublishResult
    <2> HIDE DEF q
    <2>3. /\ Ids' = Ids /\ \A r \in Ids \ {q} : reports'[r] = reports[r] /\ verdict'[r] = verdict[r]
          /\ reports'[q].acked = reports[q].acked /\ (reports[q].acked => verdict'[q] = "overwritten")
      BY <2>1, <2>2, ReportsAreTyped DEF Report, Typed, TypeOK
    <2> QED
      BY <2>1, <2>3 DEF AckShows
  <1>4. ASSUME NEW w \in Retriers, StartPass(w) PROVE AckShows'
    <2>1. PICK used \in SUBSET Ids, batch \in SUBSET Ids, gone \in SUBSET Ids :
            PassBy(w, used, batch, gone)
      BY <1>4, PassWrites
    <2>2. verdict' = verdict /\ Ids' = Ids
      BY <1>4, <2>1 DEF StartPass, PassBy
    <2> SUFFICES ASSUME NEW r \in Ids, reports'[r].acked, verdict[r] # "overwritten"
                 PROVE  reports'[r].status = verdict[r]
      BY <2>2
    <2>3. reports[r] \in Report
      BY ReportsAreTyped
    <2>4. r \notin gone \cup used
      <3> SUFFICES ASSUME r \in gone \cup used PROVE FALSE
        OBVIOUS
      <3>1. ~ reports[r].acked
        BY <2>1 DEF PassBy, Exhausted, Unanswered
      <3>2. reports'[r] = [reports[r] EXCEPT !.status = "failed", !.locked = FALSE]
        BY <2>1 DEF PassBy
      <3>3. reports'[r].acked = reports[r].acked
        BY <2>3, <3>2 DEF Report
      <3> QED
        BY <3>1, <3>3
    <2>5. reports'[r] = reports[r] \/ reports'[r] = [reports[r] EXCEPT !.locked = TRUE]
      BY <2>1, <2>4 DEF PassBy
    <2>6. reports'[r].acked = reports[r].acked /\ reports'[r].status = reports[r].status
      BY <2>3, <2>5 DEF Report
    <2> QED
      BY <2>6
  <1>5. ASSUME NEW w \in Retriers, SaveRetry(w) PROVE AckShows'
    <2> DEFINE q == retrying[w].report
    <2>1. q \in Ids
      BY <1>5, RetryIsOf DEF SaveRetry, Typed, TypeOK, Batches
    <2>2. CASE reports[q].acked
      BY <1>5, <2>2 DEF SaveRetry, history
    <2>3. CASE ~ reports[q].acked
      <3>1. reports' = [reports EXCEPT ![q] = Retried(w, q)] /\ verdict' = verdict
        BY <1>5, <2>3 DEF SaveRetry, history
      <3>2. ~ Retried(w, q).acked
        <4>1. reports[q] \in Report
          BY <2>1, ReportsAreTyped
        <4> HIDE DEF q
        <4> QED
          BY <2>3, <4>1 DEF Retried, Report
      <3> QED
        BY <2>1, <3>1, <3>2 DEF Typed, TypeOK
    <2> QED
      BY <2>2, <2>3
  <1>6. ASSUME NEW w \in Retriers, InterruptPass(w) PROVE AckShows'
    <2>1. verdict' = verdict /\ Ids' = Ids
      BY <1>6 DEF InterruptPass, history
    <2>2. \A r \in Ids : reports'[r] = [reports[r] EXCEPT !.locked = FALSE] \/ reports'[r] = reports[r]
      BY <1>6 DEF InterruptPass
    <2>3. \A r \in Ids : reports[r] \in Report
      BY ReportsAreTyped
    <2>4. \A r \in Ids : reports'[r].acked = reports[r].acked /\ reports'[r].status = reports[r].status
      BY <2>2, <2>3 DEF Report
    <2> QED
      BY <2>1, <2>4
  <1>7. ASSUME NEW r \in Ids, NEW answer \in Answers, ApplyIssueAck(r, answer) PROVE AckShows'
    <2> DEFINE e == [reports[r] EXCEPT !.status = answer, !.acked = TRUE, !.locked = FALSE]
    <2>1. e.status = answer
      <3>1. reports[r] \in Report
        BY ReportsAreTyped
      <3> QED
        BY <3>1 DEF Report
    <2>2. reports' = [reports EXCEPT ![r] = e] /\ verdict' = [verdict EXCEPT ![r] = answer]
      BY <1>7 DEF ApplyIssueAck
    <2> HIDE DEF e
    <2> QED
      BY <2>1, <2>2 DEF Typed, TypeOK
  <1>8. CASE UNCHANGED vars
    BY <1>1, <1>8 DEF vars, ledger, history
  <1>9. CASE Next
    <2>1. \/ UNCHANGED <<reports, verdict>>
          \/ \E i \in Issuers : \/ SavePublishResult(i)
                               \/ \E action, of : InsertReport(i, action, of)
          \/ \E w \in Retriers : StartPass(w) \/ SaveRetry(w) \/ InterruptPass(w)
          \/ \E r \in Ids, answer \in Answers : ApplyIssueAck(r, answer)
      BY <1>9 DEF Next, Issuer, Retrier, Disturbance, ChangePerson, FetchProjectWorkers, LoseMessage,
                  ForgetReissue, InterruptIssue, CompareFields, EnqueueReissue, IssueSingleWorker,
                  IssueFetched, PublishReport, PublishRetry, TakeCommand, ledger, history, Issuers
    <2> QED
      BY <1>1, <1>2, <1>3, <1>4, <1>5, <1>6, <1>7, <2>1
  <1> QED
    BY <1>8, <1>9

\* What a report shows is what the device answered last: no retry, pass or interruption takes
\* an answer back, only the end of the first publish does.
THEOREM AnswersStay == Spec => []AckShows
<1>1. Init => AckShows
  BY DEF Init, AckShows
<1> QED
  BY <1>1, TypedInit, TypedStep, AckShowsStep, PTL DEF Spec

-----------------------------------------------------------------------------
(* Sends. What may still be sent of a command: its first publish, the      *)
(* retries of the workers that have it in hand, each up to the last, and   *)
(* those of the next worker that claims it. Whoever publishes takes one of *)
(* these, whoever claims takes over what was left for the next, and who    *)
(* saves leaves that behind for the next. Only a lock that is taken from a *)
(* worker, or a pass that is interrupted, leaves something for the next    *)
(* that was somebody's already.                                            *)

Begun(x, r) == IF x.report = r THEN x.batch[r] + 1 ELSE x.batch[r]
Share(x, r) == IF r \in DOMAIN x.batch THEN MaxRetries - Begun(x, r) ELSE 0
LeftOf(all, r) == {p \in Retriers \X (1..MaxRetries) :
                     r \in DOMAIN all[p[1]].batch /\ p[2] > Begun(all[p[1]], r)}
Left(r)  == Cardinality(LeftOf(retrying, r))
Spare(r) == IF reports[r].acked \/ reports[r].locked THEN 0 ELSE MaxRetries - reports[r].count
First(r) == IF \E i \in Issuers : issuing[i].stage = "inserted" /\ issuing[i].report = r THEN 1 ELSE 0
InAll(r) == sent[r] + First(r) + Spare(r) + Left(r)

Budget(f, i) == MaxRetries * (1 + f + i)

\* A lock is held for a retry that is allowed.
Locks == \A r \in Ids : reports[r].locked /\ ~ reports[r].acked => reports[r].count < MaxRetries

\* Before any lock is taken from a worker a command is in one worker's hands, who has it locked
\* and knows its count.
Alone ==
  freed = 0 =>
    \A w \in Retriers : \A r \in DOMAIN retrying[w].batch :
      /\ \A v \in Retriers : r \in DOMAIN retrying[v].batch => v = w
      /\ ~ reports[r].acked => reports[r].locked /\ reports[r].count = retrying[w].batch[r]

Sends    == \A r \in Ids : InAll(r) <= 1 + Budget(freed, interrupts)
FewSends == freed = 0 => \A r \in Ids : InAll(r) <= 1 + MaxRetries + interrupts

Counts == Locks /\ Alone /\ Sends /\ FewSends
DeviceInv == Typed /\ AckShows /\ Counts

LEMMA BudgetGrows ==
  ASSUME NEW f \in Nat, NEW i \in Nat, NEW g \in Nat, NEW j \in Nat, g >= f, j >= i
  PROVE  /\ Budget(f, i) \in Nat /\ Budget(f, i) <= Budget(g, j) /\ MaxRetries <= Budget(f, i)
         /\ g + j > f + i => Budget(f, i) + MaxRetries <= Budget(g, j)
  <1> DEFINE a == 1 + f + i
             b == 1 + g + j
  <1>1. a \in Nat /\ b \in Nat /\ a >= 1 /\ b >= a
    OBVIOUS
  <1>2. \A x, y \in Nat : x <= y => MaxRetries * x \in Nat /\ MaxRetries * x <= MaxRetries * y
    BY RetriesAssumption, Z3
  <1>3. \A x \in Nat : MaxRetries * (x + 1) = MaxRetries * x + MaxRetries
    BY RetriesAssumption
  <1>4. MaxRetries * 1 = MaxRetries
    BY RetriesAssumption
  <1>5. g + j > f + i => a + 1 <= b
    OBVIOUS
  <1> HIDE DEF a, b
  <1>6. /\ MaxRetries * a \in Nat /\ MaxRetries * a <= MaxRetries * b /\ MaxRetries <= MaxRetries * a
        /\ a + 1 <= b => MaxRetries * a + MaxRetries <= MaxRetries * b
    <2>1. a + 1 <= b => MaxRetries * (a + 1) <= MaxRetries * b
      BY <1>1, <1>2
    <2> QED
      BY <1>1, <1>2, <1>3, <1>4, <2>1
  <1> QED
    BY <1>5, <1>6 DEF Budget, a, b

Series(w, c) == {w} \X ((c + 1)..MaxRetries)

LEMMA SeriesCounts ==
  ASSUME NEW w, NEW c \in Nat, c <= MaxRetries
  PROVE  IsFiniteSet(Series(w, c)) /\ Cardinality(Series(w, c)) = MaxRetries - c
  <1>1. IsFiniteSet((c + 1)..MaxRetries) /\ Cardinality((c + 1)..MaxRetries) = MaxRetries - c
    <2> DEFINE a == c + 1
    <2>1. a \in Int /\ MaxRetries \in Int /\ a - 1 = c /\ a <= MaxRetries + 1
      BY RetriesAssumption
    <2> HIDE DEF a
    <2>2. IsFiniteSet(a..MaxRetries)
          /\ Cardinality(a..MaxRetries) = IF a > MaxRetries THEN 0 ELSE MaxRetries - a + 1
      BY <2>1, FS_Interval
    <2>3. Cardinality(a..MaxRetries) = MaxRetries - c
      BY <2>1, <2>2
    <2> QED
      BY <2>2, <2>3 DEF a
  <1>2. IsFiniteSet({w}) /\ Cardinality({w}) = 1
    BY FS_Singleton
  <1>3. /\ IsFiniteSet({w} \X ((c + 1)..MaxRetries))
        /\ Cardinality({w} \X ((c + 1)..MaxRetries)) = 1 * (MaxRetries - c)
    <2> DEFINE of == (c + 1)..MaxRetries
    <2>1. IsFiniteSet(of) /\ Cardinality(of) = MaxRetries - c
      BY <1>1
    <2> HIDE DEF of
    <2>2. IsFiniteSet({w} \X of) /\ Cardinality({w} \X of) = Cardinality({w}) * Cardinality(of)
      BY <1>2, <2>1, FS_Product
    <2>3. IsFiniteSet({w} \X of) /\ Cardinality({w} \X of) = 1 * (MaxRetries - c)
      BY <1>2, <2>1, <2>2
    <2> QED
      BY <2>3 DEF of
  <1> QED
    BY <1>3, RetriesAssumption DEF Series

LEMMA LeftIsFinite ==
  ASSUME NEW all, NEW r, NEW S \in SUBSET LeftOf(all, r)
  PROVE  IsFiniteSet(S) /\ Cardinality(S) \in Nat
  <1>1. IsFiniteSet(Retriers) /\ IsFiniteSet(1..MaxRetries)
    BY RetriesAssumption, FS_Interval
  <1>2. IsFiniteSet(Retriers \X (1..MaxRetries))
    BY <1>1, FS_Product
  <1>3. S \subseteq Retriers \X (1..MaxRetries)
    BY DEF LeftOf
  <1> QED
    BY <1>2, <1>3, FS_Subset, FS_CardinalityType

\* What is left of the others, and of one worker.
LEMMA LeftIsShared ==
  ASSUME NEW all, NEW w \in Retriers, NEW r,
         r \in DOMAIN all[w].batch => Begun(all[w], r) \in 0..MaxRetries
  PROVE  /\ Share(all[w], r) \in Nat
         /\ Cardinality(LeftOf(all, r))
               = Cardinality({p \in LeftOf(all, r) : p[1] # w}) + Share(all[w], r)
         /\ Cardinality({p \in LeftOf(all, r) : p[1] # w}) \in Nat
  <1> DEFINE others == {p \in LeftOf(all, r) : p[1] # w}
             own    == {p \in LeftOf(all, r) : p[1] = w}
  <1>1. IsFiniteSet(others) /\ IsFiniteSet(own) /\ Cardinality(others) \in Nat
    BY LeftIsFinite
  <1>2. LeftOf(all, r) = others \cup own /\ others \cap own = {}
    OBVIOUS
  <1>3. Cardinality(LeftOf(all, r)) = Cardinality(others) + Cardinality(own)
    <2>1. Cardinality(others \cap own) = 0
      BY <1>2, FS_EmptySet
    <2>2. Cardinality(own) \in Nat
      BY <1>1, FS_CardinalityType
    <2>3. Cardinality(others \cup own) = Cardinality(others) + Cardinality(own) - Cardinality(others \cap own)
      BY <1>1, FS_Union
    <2> HIDE DEF others, own
    <2> QED
      BY <1>1, <1>2, <2>1, <2>2, <2>3
  <1>4. Cardinality(own) = Share(all[w], r) /\ Share(all[w], r) \in Nat
    <2>1. CASE r \in DOMAIN all[w].batch
      <3>1. own = Series(w, Begun(all[w], r))
        <4>1. \A p : p \in own <=> p \in Retriers \X (1..MaxRetries) /\ p[1] = w /\ p[2] > Begun(all[w], r)
          BY <2>1 DEF LeftOf
        <4>2. \A p : p \in Series(w, Begun(all[w], r)) <=>
                p \in Retriers \X (1..MaxRetries) /\ p[1] = w /\ p[2] > Begun(all[w], r)
          BY <2>1, RetriesAssumption DEF Series
        <4> HIDE DEF own
        <4> QED
          BY <4>1, <4>2
      <3>2. Begun(all[w], r) \in Nat /\ Begun(all[w], r) <= MaxRetries
        BY <2>1, RetriesAssumption
      <3> HIDE DEF own
      <3> QED
        BY <2>1, <3>1, <3>2, SeriesCounts, RetriesAssumption DEF Share
    <2>2. CASE r \notin DOMAIN all[w].batch
      <3>1. own = {}
        BY <2>2 DEF LeftOf
      <3> QED
        BY <2>2, <3>1, FS_EmptySet DEF Share
    <2> QED
      BY <2>1, <2>2
  <1> QED
    BY <1>1, <1>3, <1>4

\* One worker's state changes: the others keep theirs.
LEMMA LeftChanges ==
  ASSUME NEW all, NEW new, NEW w \in Retriers, NEW r,
         \A v \in Retriers \ {w} : new[v] = all[v],
         r \in DOMAIN all[w].batch => Begun(all[w], r) \in 0..MaxRetries,
         r \in DOMAIN new[w].batch => Begun(new[w], r) \in 0..MaxRetries
  PROVE  /\ Share(new[w], r) \in Nat /\ Share(all[w], r) \in Nat
         /\ Cardinality(LeftOf(all, r)) \in Nat /\ Cardinality(LeftOf(new, r)) \in Nat
         /\ Cardinality(LeftOf(new, r)) + Share(all[w], r) = Cardinality(LeftOf(all, r)) + Share(new[w], r)
  <1> DEFINE others(f) == {p \in LeftOf(f, r) : p[1] # w}
  <1>2. others(new) = others(all)
    BY DEF LeftOf
  <1>3. /\ Share(all[w], r) \in Nat /\ Cardinality(others(all)) \in Nat
        /\ Cardinality(LeftOf(all, r)) = Cardinality(others(all)) + Share(all[w], r)
    BY LeftIsShared
  <1>4. /\ Share(new[w], r) \in Nat
        /\ Cardinality(LeftOf(new, r)) = Cardinality(others(new)) + Share(new[w], r)
    BY LeftIsShared
  <1> HIDE DEF others
  <1> QED
    BY <1>2, <1>3, <1>4

\* The four numbers.
LEMMA SharesAreNumbers ==
  ASSUME Typed, NEW r \in Ids
  PROVE  /\ \A w \in Retriers : r \in DOMAIN retrying[w].batch => Begun(retrying[w], r) \in 0..MaxRetries
         /\ sent[r] \in Nat /\ First(r) \in {0, 1} /\ Spare(r) \in Nat /\ Left(r) \in Nat
         /\ InAll(r) \in Nat
  <1>1. \A w \in Retriers : r \in DOMAIN retrying[w].batch => Begun(retrying[w], r) \in 0..MaxRetries
    <2> SUFFICES ASSUME NEW w \in Retriers, r \in DOMAIN retrying[w].batch
                 PROVE  Begun(retrying[w], r) \in 0..MaxRetries
      OBVIOUS
    <2>1. retrying[w].batch[r] \in 0..MaxRetries /\ retrying[w].batch[r] < MaxRetries
      BY BatchCounts
    <2> QED
      BY <2>1, RetriesAssumption DEF Begun
  <1>2. Spare(r) \in Nat
    <2>1. reports[r] \in Report
      BY ReportsAreTyped
    <2> QED
      BY <2>1, RetriesAssumption DEF Spare, Report
  <1>3. sent[r] \in Nat /\ First(r) \in {0, 1} /\ Left(r) \in Nat
    BY LeftIsFinite DEF Typed, TypeOK, First, Left
  <1> QED
    BY <1>1, <1>2, <1>3 DEF InAll

LEMMA AtMost ==
  ASSUME NEW old \in Nat, NEW new \in Nat, NEW i \in Nat, NEW j \in Nat,
         old <= 1 + MaxRetries + i, i <= j, new <= old \/ (new <= old + 1 /\ j > i)
  PROVE  new <= 1 + MaxRetries + j
  BY RetriesAssumption

\* It is enough to look at what each command has in all.
LEMMA SendsAreKept ==
  ASSUME Typed, Typed', Sends, FewSends, freed' >= freed, interrupts' >= interrupts,
         \A r \in Ids' : InAll(r)' \in Nat,
         \A r \in Ids' :
           \/ r \in Ids /\ InAll(r)' <= InAll(r)
           \/ InAll(r)' <= 1 + MaxRetries
           \/ /\ r \in Ids /\ InAll(r)' <= InAll(r) + MaxRetries
              /\ freed' + interrupts' > freed + interrupts
              /\ freed' = 0 => InAll(r)' <= InAll(r) + 1 /\ interrupts' > interrupts
  PROVE  Sends' /\ FewSends'
  <1>1. freed \in Nat /\ freed' \in Nat /\ interrupts \in Nat /\ interrupts' \in Nat
    BY BoundsAssumption DEF Typed, TypeOK
  <1> DEFINE b == Budget(freed, interrupts)
             c == Budget(freed', interrupts')
  <1>2. /\ b \in Nat /\ c \in Nat /\ b <= c /\ MaxRetries <= c
        /\ freed' + interrupts' > freed + interrupts => b + MaxRetries <= c
    <2> DEFINE g == freed'
               j == interrupts'
    <2>1. g \in Nat /\ j \in Nat /\ freed <= g /\ interrupts <= j
      BY <1>1
    <2> HIDE DEF g, j
    <2>2. Budget(g, j) \in Nat /\ MaxRetries <= Budget(g, j)
      BY <2>1, BudgetGrows
    <2>3. /\ Budget(freed, interrupts) \in Nat /\ Budget(freed, interrupts) <= Budget(g, j)
          /\ g + j > freed + interrupts => Budget(freed, interrupts) + MaxRetries <= Budget(g, j)
      BY <1>1, <2>1, BudgetGrows
    <2> QED
      BY <2>2, <2>3 DEF g, j
  <1>3. ASSUME NEW r \in Ids'
        PROVE  /\ InAll(r)' <= 1 + c
               /\ freed' = 0 => InAll(r)' <= 1 + MaxRetries + interrupts'
    <2> DEFINE old == InAll(r)
               new == InAll(r)'
    <2>1. new \in Nat
      BY <1>3
    <2>2. r \in Ids => /\ old \in Nat /\ old <= 1 + b
                      /\ (freed = 0 => old <= 1 + MaxRetries + interrupts)
      BY SharesAreNumbers DEF Sends, FewSends
    <2>3. freed' = 0 => freed = 0
      BY <1>1
    <2>4. \/ r \in Ids /\ new <= old
          \/ new <= 1 + MaxRetries
          \/ /\ r \in Ids /\ new <= old + MaxRetries
             /\ freed' + interrupts' > freed + interrupts
             /\ freed' = 0 => new <= old + 1 /\ interrupts' > interrupts
      BY <1>3
    <2> SUFFICES new <= 1 + c /\ (freed' = 0 => new <= 1 + MaxRetries + interrupts')
      OBVIOUS
    <2> HIDE DEF old, new, b, c
    <2>5. CASE r \in Ids /\ new <= old
      <3>1. old \in Nat /\ old <= 1 + b /\ (freed = 0 => old <= 1 + MaxRetries + interrupts)
        BY <2>2, <2>5
      <3>2. new <= 1 + c
        BY <1>2, <2>1, <2>5, <3>1
      <3>3. ASSUME freed' = 0 PROVE new <= 1 + MaxRetries + interrupts'
        <4>1. old <= 1 + MaxRetries + interrupts /\ interrupts <= interrupts'
          BY <1>1, <2>3, <3>1, <3>3
        <4>2. new <= old \/ (new <= old + 1 /\ interrupts' > interrupts)
          BY <2>5, <3>3
        <4> QED
          BY <1>1, <2>1, <3>1, <4>1, <4>2, AtMost
      <3> QED
        BY <3>2, <3>3
    <2>6. CASE new <= 1 + MaxRetries
      <3>1. MaxRetries \in Nat /\ c \in Nat /\ MaxRetries <= c /\ interrupts' \in Nat
        BY <1>1, <1>2, RetriesAssumption
      <3>2. new <= 1 + c
        BY <2>1, <2>6, <3>1
      <3>3. new <= 1 + MaxRetries + interrupts'
        <4>1. ASSUME NEW k \in Nat PROVE new <= 1 + MaxRetries + k
          BY <2>1, <2>6, <3>1
        <4> QED
          BY <3>1, <4>1
      <3> QED
        BY <3>2, <3>3
    <2>7. CASE /\ r \in Ids /\ new <= old + MaxRetries
               /\ freed' + interrupts' > freed + interrupts
               /\ freed' = 0 => new <= old + 1 /\ interrupts' > interrupts
      <3>1. old \in Nat /\ old <= 1 + b /\ (freed = 0 => old <= 1 + MaxRetries + interrupts)
        BY <2>2, <2>7
      <3>2. new <= 1 + c
        BY <1>2, <2>1, <2>7, <3>1, RetriesAssumption
      <3>3. ASSUME freed' = 0 PROVE new <= 1 + MaxRetries + interrupts'
        <4>1. old <= 1 + MaxRetries + interrupts /\ interrupts <= interrupts'
          BY <1>1, <2>3, <3>1, <3>3
        <4>2. new <= old \/ (new <= old + 1 /\ interrupts' > interrupts)
          BY <2>7, <3>3
        <4> QED
          BY <1>1, <2>1, <3>1, <4>1, <4>2, AtMost
      <3> QED
        BY <3>2, <3>3
    <2> QED
      BY <2>4, <2>5, <2>6, <2>7
  <1> QED
    BY <1>3 DEF Sends, FewSends

\* The steps that have nothing to do with it, and the ends of an issuer's work.
LEMMA QuietCounts ==
  ASSUME Typed, Typed', Counts, UNCHANGED <<retrying, sent, freed>>, interrupts' >= interrupts,
         Ids' = Ids,
         \A r \in Ids : /\ reports'[r].acked = reports[r].acked /\ reports'[r].locked = reports[r].locked
                       /\ reports'[r].count = reports[r].count
                       /\ First(r)' <= First(r)
  PROVE  Counts'
  <1>1. Locks' /\ Alone'
    <2>1. \A w \in Retriers : DOMAIN retrying[w].batch \subseteq Ids
      BY RetryIsOf DEF Typed, TypeOK
    <2>2. Locks'
      BY DEF Counts, Locks
    <2> QED
      BY <2>1, <2>2 DEF Counts, Alone
  <1>2. ASSUME NEW r \in Ids PROVE InAll(r)' \in Nat /\ InAll(r)' <= InAll(r)
    <2>1. Spare(r)' = Spare(r) /\ Left(r)' = Left(r) /\ sent'[r] = sent[r]
      BY DEF Spare, Left
    <2>2. First(r)' \in {0, 1}
      BY DEF First
    <2> QED
      BY <2>1, <2>2, SharesAreNumbers DEF InAll
  <1>3. freed \in Nat
    BY DEF Typed, TypeOK
  <1> QED
    BY <1>1, <1>2, <1>3, SendsAreKept DEF Counts

LEMMA OthersCount ==
  ASSUME Typed, Typed', Counts,
         \/ ChangePerson \/ TakeCommand \/ LoseMessage \/ FetchProjectWorkers
         \/ \E h \in handlers : CompareFields(h) \/ EnqueueReissue(h) \/ ForgetReissue(h)
         \/ \E i \in Issuers : SavePublishResult(i) \/ InterruptIssue(i)
         \/ UNCHANGED vars
         \/ IssueSingleWorker /\ UNCHANGED <<issuing, reports, sent, verdict>>
  PROVE  Counts'
  <1>1. interrupts \in Nat /\ \A r \in Ids : First(r) \in {0, 1}
    BY BoundsAssumption DEF Typed, TypeOK, First
  <1>2. CASE /\ UNCHANGED <<retrying, sent, freed, reports>> /\ interrupts' >= interrupts
             /\ \A i \in Issuers : issuing'[i].stage = "inserted" => issuing'[i] = issuing[i]
    <2>1. \A r \in Ids : First(r)' <= First(r)
      BY <1>2 DEF First
    <2> QED
      BY <1>2, <2>1, QuietCounts
  <1>3. ASSUME NEW i \in Issuers, SavePublishResult(i) PROVE Counts'
    <2> DEFINE q == issuing[i].report
    <2>1. q \in Ids /\ reports \in Seq(Report)
      BY <1>3 DEF SavePublishResult, Typed, TypeOK, Firsts, Publishing
    <2>2. reports[q] \in Report
      BY <2>1
    <2> DEFINE e == [reports[q] EXCEPT !.status = IF issuing[i].ok THEN "pending" ELSE "failed"]
    <2>3. e.acked = reports[q].acked /\ e.locked = reports[q].locked /\ e.count = reports[q].count
      BY <2>2 DEF Report
    <2>4. reports' = [reports EXCEPT ![q] = e]
      BY <1>3 DEF SavePublishResult
    <2> HIDE DEF e
    <2>5. /\ Ids' = Ids
          /\ \A r \in Ids : /\ reports'[r].acked = reports[r].acked /\ reports'[r].locked = reports[r].locked
                            /\ reports'[r].count = reports[r].count
      BY <2>1, <2>3, <2>4
    <2>6. \A r \in Ids : First(r)' <= First(r)
      <3>1. issuing' = [issuing EXCEPT ![i] = Resting]
        BY <1>3 DEF SavePublishResult
      <3>2. \A j \in Issuers : issuing'[j].stage = "inserted" => issuing'[j] = issuing[j]
        BY <3>1 DEF Typed, TypeOK, Resting
      <3> QED
        BY <3>2 DEF First
    <2>7. UNCHANGED <<retrying, sent, freed, interrupts>>
      BY <1>3 DEF SavePublishResult, bounds
    <2> QED
      BY <1>1, <2>5, <2>6, <2>7, QuietCounts
  <1>4. ASSUME NEW i \in Issuers, InterruptIssue(i) PROVE Counts'
    <2>1. \A j \in Issuers : issuing'[j].stage = "inserted" => issuing'[j] = issuing[j]
      BY <1>4 DEF InterruptIssue, Typed, TypeOK, Resting
    <2> QED
      BY <1>1, <1>2, <1>4, <2>1 DEF InterruptIssue, ledger, history
  <1>5. CASE FetchProjectWorkers
    <2>1. \A j \in Issuers : issuing'[j].stage = "inserted" => issuing'[j] = issuing[j]
      BY <1>5 DEF FetchProjectWorkers, Typed, TypeOK, Resting
    <2> QED
      BY <1>1, <1>2, <1>5, <2>1 DEF FetchProjectWorkers, ledger, bounds, history
  <1>6. ASSUME \/ ChangePerson \/ TakeCommand \/ LoseMessage
               \/ \E h \in handlers : CompareFields(h) \/ EnqueueReissue(h) \/ ForgetReissue(h)
               \/ UNCHANGED vars
               \/ IssueSingleWorker /\ UNCHANGED <<issuing, reports, sent, verdict>>
        PROVE Counts'
    <2>1. UNCHANGED <<retrying, sent, freed, reports, issuing>> /\ interrupts' >= interrupts
      BY <1>1, <1>6 DEF ChangePerson, TakeCommand, LoseMessage, CompareFields, EnqueueReissue,
         ForgetReissue, IssueSingleWorker, vars, ledger, bounds, history
    <2> QED
      BY <1>2, <2>1
  <1> QED
    BY <1>3, <1>4, <1>5, <1>6

\* A new report: its first publish and its retries are to come.
LEMMA InsertCounts ==
  ASSUME Typed, Typed', Counts, NEW i \in Issuers, NEW action, NEW of, InsertReport(i, action, of),
         ~ Publishing(i), UNCHANGED <<retrying, freed, interrupts>>
  PROVE  Counts'
  <1>0. PICK n : n = Len(reports) + 1
    OBVIOUS
  <1> DEFINE e == NewReport(action, of)
  <1>1. /\ reports \in Seq(Report) /\ Ids = 1..Len(reports) /\ Len(reports) \in Nat
        /\ sent \in Seq(Nat) /\ Len(sent) = Len(reports)
    <2>1. reports \in Seq(Report) /\ Ids = 1..Len(reports) /\ Len(reports) \in Nat
      BY IdsAreNumbers DEF Typed, TypeOK
    <2>2. sent \in [1..Len(reports) -> Nat]
      BY <2>1 DEF Typed, TypeOK
    <2> QED
      BY <2>1, <2>2, SequencesAreFunctions
  <1>2. /\ reports' = Append(reports, e) /\ sent' = Append(sent, 0)
        /\ issuing' = [issuing EXCEPT ![i] = [Resting EXCEPT !.stage = "inserted", !.report = n]]
    BY <1>0 DEF InsertReport
  <1>3. e.count = 0 /\ e.acked = FALSE /\ e.locked = FALSE
    BY DEF NewReport
  <1> HIDE DEF e
  <1>4. /\ Ids' = Ids \cup {n} /\ n \notin Ids /\ n \in Nat
        /\ reports'[n] = e /\ sent'[n] = 0
        /\ \A r \in Ids : reports'[r] = reports[r] /\ sent'[r] = sent[r]
    BY <1>0, <1>1, <1>2
  <1>5. \A w \in Retriers : DOMAIN retrying[w].batch \subseteq Ids
    BY RetryIsOf DEF Typed, TypeOK
  <1>6. Locks' /\ Alone'
    BY <1>3, <1>4, <1>5 DEF Counts, Locks, Alone
  <1>7. ASSUME NEW r \in Ids PROVE InAll(r)' \in Nat /\ InAll(r)' <= InAll(r)
    <2>1. Spare(r)' = Spare(r) /\ Left(r)' = Left(r) /\ sent'[r] = sent[r]
      BY <1>4 DEF Spare, Left
    <2>2. First(r)' \in {0, 1} /\ First(r)' <= First(r)
      <3>1. \A j \in Issuers : issuing'[j].report = r => issuing'[j] = issuing[j]
        BY <1>2, <1>4 DEF Typed, TypeOK, Resting
      <3> QED
        BY <3>1 DEF First
    <2> QED
      BY <2>1, <2>2, SharesAreNumbers DEF InAll
  <1>8. InAll(n)' \in Nat /\ InAll(n)' <= 1 + MaxRetries
    <2>1. Left(n)' = 0
      <3>1. LeftOf(retrying, n) = {}
        BY <1>4, <1>5 DEF LeftOf
      <3> QED
        BY <3>1, FS_EmptySet DEF Left
    <2>2. Spare(n)' = MaxRetries /\ sent'[n] = 0
      BY <1>3, <1>4, RetriesAssumption DEF Spare
    <2>3. First(n)' \in {0, 1}
      BY DEF First
    <2> QED
      BY <2>1, <2>2, <2>3, RetriesAssumption DEF InAll
  <1>9. freed \in Nat /\ interrupts \in Nat
    BY BoundsAssumption DEF Typed, TypeOK
  <1> QED
    BY <1>4, <1>6, <1>7, <1>8, <1>9, SendsAreKept DEF Counts

\* The first publish.
LEMMA FirstCounts ==
  ASSUME Typed, Typed', Counts, NEW i \in Issuers, NEW ok \in BOOLEAN, PublishReport(i, ok)
  PROVE  Counts'
  <1> DEFINE q == issuing[i].report
             e == [issuing[i] EXCEPT !.stage = "sent", !.ok = ok]
  <1>1. q \in Ids /\ issuing[i].stage = "inserted" /\ UNCHANGED <<reports, retrying, freed, interrupts>>
    BY DEF PublishReport, Typed, Firsts, Publishing
  <1>2. issuing' = [issuing EXCEPT ![i] = e] /\ sent' = [sent EXCEPT ![q] = @ + 1]
    BY DEF PublishReport, Publish
  <1>3. e.stage = "sent"
    BY DEF Typed, TypeOK, Issuing
  <1> HIDE DEF e
  <1>4. Locks' /\ Alone'
    BY <1>1 DEF Counts, Locks, Alone
  <1>5. issuing'[i].stage = "sent" /\ \A j \in Issuers \ {i} : issuing'[j] = issuing[j]
    BY <1>2, <1>3 DEF Typed, TypeOK
  <1>6. ASSUME NEW r \in Ids PROVE InAll(r)' \in Nat /\ InAll(r)' <= InAll(r)
    <2>1. Spare(r)' = Spare(r) /\ Left(r)' = Left(r)
      BY <1>1 DEF Spare, Left
    <2>2. First(r)' \in {0, 1} /\ First(r)' <= First(r)
      BY <1>5 DEF First
    <2>3. CASE r = q
      <3>1. First(r) = 1 /\ First(r)' = 0
        BY <1>1, <1>5, <2>3 DEF First, Typed, Firsts, Publishing
      <3>2. sent'[r] = sent[r] + 1
        BY <1>1, <1>2, <2>3 DEF Typed, TypeOK
      <3> QED
        BY <2>1, <3>1, <3>2, SharesAreNumbers DEF InAll
    <2>4. CASE r # q
      <3>1. sent'[r] = sent[r]
        BY <1>2, <2>4 DEF Typed, TypeOK
      <3> QED
        BY <2>1, <2>2, <3>1, SharesAreNumbers DEF InAll
    <2> QED
      BY <2>3, <2>4
  <1>7. freed \in Nat /\ interrupts \in Nat
    BY BoundsAssumption DEF Typed, TypeOK
  <1> QED
    BY <1>1, <1>4, <1>6, <1>7, SendsAreKept DEF Counts

\* What a retry worker that changes its state does to what is left.
LEMMA LeftOfWorker ==
  ASSUME Typed, NEW w \in Retriers, NEW x, retrying' = [retrying EXCEPT ![w] = x], NEW r \in Ids,
         r \in DOMAIN x.batch => Begun(x, r) \in 0..MaxRetries
  PROVE  /\ Share(x, r) \in Nat /\ Share(retrying[w], r) \in Nat /\ Left(r) \in Nat /\ Left(r)' \in Nat
         /\ Left(r)' + Share(retrying[w], r) = Left(r) + Share(x, r)
  <1>1. r \in DOMAIN retrying[w].batch => Begun(retrying[w], r) \in 0..MaxRetries
    BY SharesAreNumbers
  <1>2. PICK all, new : all = retrying /\ new = retrying'
    OBVIOUS
  <1>3. new[w] = x
    BY <1>2 DEF Typed, TypeOK
  <1>8. \A v \in Retriers \ {w} : new[v] = all[v]
    BY <1>2 DEF Typed, TypeOK
  <1>4. /\ r \in DOMAIN all[w].batch => Begun(all[w], r) \in 0..MaxRetries
        /\ r \in DOMAIN new[w].batch => Begun(new[w], r) \in 0..MaxRetries
    BY <1>1, <1>2, <1>3 DEF Begun
  <1>5. /\ Share(new[w], r) \in Nat /\ Share(all[w], r) \in Nat
        /\ Cardinality(LeftOf(all, r)) \in Nat /\ Cardinality(LeftOf(new, r)) \in Nat
        /\ Cardinality(LeftOf(new, r)) + Share(all[w], r) = Cardinality(LeftOf(all, r)) + Share(new[w], r)
    BY <1>4, <1>8, LeftChanges
  <1>6. Share(retrying[w], r) = Share(all[w], r) /\ Share(x, r) = Share(new[w], r)
    BY <1>2, <1>3 DEF Share, Begun
  <1>7. Left(r) = Cardinality(LeftOf(all, r)) /\ Left(r)' = Cardinality(LeftOf(new, r))
    BY <1>2 DEF Left, LeftOf, Begun
  <1> QED
    BY <1>5, <1>6, <1>7

\* A retry.
LEMMA RetryCounts ==
  ASSUME Typed, Typed', Counts, NEW w \in Retriers, NEW q \in Ids, NEW ok \in BOOLEAN,
         PublishRetry(w, q, ok)
  PROVE  Counts'
  <1> DEFINE x == [retrying[w] EXCEPT !.report = q, !.ok = ok]
  <1>1. /\ UNCHANGED <<reports, issuing, freed, interrupts>>
        /\ q \in DOMAIN retrying[w].batch /\ retrying[w].report = 0
        /\ retrying' = [retrying EXCEPT ![w] = x] /\ sent' = [sent EXCEPT ![q] = @ + 1]
    BY DEF PublishRetry, Publish
  <1>2. x.batch = retrying[w].batch /\ x.report = q
    BY DEF Typed, TypeOK, Retry
  <1> HIDE DEF x
  <1>3. retrying'[w] = x /\ \A v \in Retriers \ {w} : retrying'[v] = retrying[v]
    BY <1>1 DEF Typed, TypeOK
  <1>4. \A v \in Retriers : retrying'[v].batch = retrying[v].batch
    BY <1>2, <1>3
  <1>5. Locks' /\ Alone'
    BY <1>1, <1>4 DEF Counts, Locks, Alone
  <1>6. \A r \in Ids : r # 0
    BY ReportsAreTyped
  <1>7. ASSUME NEW r \in Ids PROVE InAll(r)' \in Nat /\ InAll(r)' <= InAll(r)
    <2>1. r \in DOMAIN retrying[w].batch =>
            retrying[w].batch[r] \in 0..MaxRetries /\ retrying[w].batch[r] < MaxRetries
      BY BatchCounts
    <2>2. r \in DOMAIN x.batch => Begun(x, r) \in 0..MaxRetries
      BY <1>2, <2>1, RetriesAssumption DEF Begun
    <2>3. /\ Share(x, r) \in Nat /\ Share(retrying[w], r) \in Nat /\ Left(r) \in Nat /\ Left(r)' \in Nat
          /\ Left(r)' + Share(retrying[w], r) = Left(r) + Share(x, r)
      BY <1>1, <2>2, LeftOfWorker
    <2>4. Spare(r)' = Spare(r) /\ First(r)' = First(r)
      BY <1>1 DEF Spare, First
    <2>5. CASE r = q
      <3>1. Share(retrying[w], r) = Share(x, r) + 1
        BY <1>1, <1>2, <1>6, <2>1, <2>5, RetriesAssumption DEF Share, Begun
      <3>2. sent'[r] = sent[r] + 1
        BY <1>1, <2>5 DEF Typed, TypeOK
      <3> QED
        BY <2>3, <2>4, <3>1, <3>2, SharesAreNumbers DEF InAll
    <2>6. CASE r # q
      <3>1. Share(retrying[w], r) = Share(x, r)
        BY <1>1, <1>2, <1>6, <2>6 DEF Share, Begun
      <3>2. sent'[r] = sent[r]
        BY <1>1, <2>6 DEF Typed, TypeOK
      <3> QED
        BY <2>3, <2>4, <3>1, <3>2, SharesAreNumbers DEF InAll
    <2> QED
      BY <2>5, <2>6
  <1>8. freed \in Nat /\ interrupts \in Nat
    BY BoundsAssumption DEF Typed, TypeOK
  <1> QED
    BY <1>1, <1>5, <1>7, <1>8, SendsAreKept DEF Counts

\* The result of a retry: what was left to the worker is left to the next.
LEMMA SaveCounts ==
  ASSUME Typed, Typed', Counts, NEW w \in Retriers, SaveRetry(w)
  PROVE  Counts'
  <1>0. PICK q : q = retrying[w].report
    OBVIOUS
  <1> DEFINE left == [s \in DOMAIN retrying[w].batch \ {q} |-> retrying[w].batch[s]]
             x == Pass(left)
             e == Retried(w, q)
             b == retrying[w].batch[q]
  <1>1. /\ UNCHANGED <<issuing, sent, freed, interrupts>> /\ q # 0
        /\ retrying' = [retrying EXCEPT ![w] = x]
        /\ reports' = IF reports[q].acked THEN reports ELSE [reports EXCEPT ![q] = e]
    BY <1>0 DEF SaveRetry, bounds, history
  <1>2. q \in DOMAIN retrying[w].batch /\ q \in Ids /\ b \in 0..MaxRetries /\ b < MaxRetries
    BY <1>0, <1>1, RetryIsOf DEF Typed, TypeOK, Batches
  <1>3. /\ DOMAIN x.batch = DOMAIN retrying[w].batch \ {q} /\ x.report = 0
        /\ \A s \in DOMAIN x.batch : x.batch[s] = retrying[w].batch[s]
    BY DEF Pass
  <1>4. reports \in Seq(Report) /\ reports[q] \in Report
    BY <1>2, ReportsAreTyped
  <1>5. e.count = b + 1 /\ e.locked = FALSE /\ e.acked = reports[q].acked
    BY <1>0, <1>4 DEF Retried, Report
  <1> HIDE DEF x, e, left
  <1>6. retrying'[w] = x /\ \A v \in Retriers \ {w} : retrying'[v] = retrying[v]
    BY <1>1 DEF Typed, TypeOK
  <1>7. /\ Ids' = Ids /\ \A r \in Ids \ {q} : reports'[r] = reports[r]
        /\ reports[q].acked => reports'[q] = reports[q]
        /\ ~ reports[q].acked => reports'[q] = e
    BY <1>1, <1>2, <1>4
  <1>8. Locks'
    BY <1>2, <1>5, <1>7 DEF Counts, Locks
  <1>9. Alone'
    <2> SUFFICES ASSUME freed = 0, NEW v \in Retriers, NEW r \in DOMAIN retrying'[v].batch
                 PROVE  /\ \A u \in Retriers : r \in DOMAIN retrying'[u].batch => u = v
                        /\ ~ reports'[r].acked => reports'[r].locked /\ reports'[r].count = retrying'[v].batch[r]
      BY <1>1 DEF Alone
    <2>1. \A u \in Retriers : /\ DOMAIN retrying'[u].batch \subseteq DOMAIN retrying[u].batch
                             /\ \A s \in DOMAIN retrying'[u].batch : retrying'[u].batch[s] = retrying[u].batch[s]
      BY <1>3, <1>6
    <2>2. r \in DOMAIN retrying[v].batch /\ r \in Ids
      BY <2>1, RetryIsOf DEF Typed, TypeOK
    <2>3. r # q
      <3>1. CASE v = w
        BY <1>3, <1>6, <3>1
      <3>2. CASE v # w
        BY <1>2, <2>2, <3>2 DEF Counts, Alone
      <3> QED
        BY <3>1, <3>2
    <2> QED
      BY <1>7, <2>1, <2>2, <2>3 DEF Counts, Alone
  <1>10. \A r \in Ids : r # 0
    BY ReportsAreTyped
  <1>11. ASSUME NEW r \in Ids PROVE InAll(r)' \in Nat /\ InAll(r)' <= InAll(r)
    <2>1. r \in DOMAIN retrying[w].batch =>
            retrying[w].batch[r] \in 0..MaxRetries /\ retrying[w].batch[r] < MaxRetries
      BY BatchCounts
    <2>2. r \in DOMAIN x.batch => Begun(x, r) \in 0..MaxRetries
      BY <1>3, <2>1, RetriesAssumption DEF Begun
    <2>3. /\ Share(x, r) \in Nat /\ Share(retrying[w], r) \in Nat /\ Left(r) \in Nat /\ Left(r)' \in Nat
          /\ Left(r)' + Share(retrying[w], r) = Left(r) + Share(x, r)
      BY <1>1, <2>2, LeftOfWorker
    <2>4. sent'[r] = sent[r] /\ First(r)' = First(r)
      BY <1>1 DEF First
    <2>5. CASE r = q
      <3>1. Share(retrying[w], r) = MaxRetries - (b + 1) /\ Share(x, r) = 0
        BY <1>0, <1>2, <1>3, <2>5 DEF Share, Begun
      <3>2. CASE reports[q].acked
        <4>1. Spare(r)' = Spare(r)
          BY <1>7, <2>5, <3>2 DEF Spare
        <4> QED
          BY <2>3, <2>4, <3>1, <4>1, SharesAreNumbers DEF InAll
      <3>3. CASE ~ reports[q].acked
        <4>1. Spare(r)' = MaxRetries - (b + 1)
          BY <1>5, <1>7, <2>5, <3>3 DEF Spare
        <4>2. MaxRetries - (b + 1) \in Nat
          BY <1>2, RetriesAssumption
        <4> QED
          BY <2>3, <2>4, <3>1, <4>1, <4>2, SharesAreNumbers DEF InAll
      <3> QED
        BY <3>2, <3>3
    <2>6. CASE r # q
      <3>1. Share(retrying[w], r) = Share(x, r)
        BY <1>0, <1>3, <1>10, <2>6 DEF Share, Begun
      <3>2. Spare(r)' = Spare(r)
        BY <1>7, <2>6 DEF Spare
      <3> QED
        BY <2>3, <2>4, <3>1, <3>2, SharesAreNumbers DEF InAll
    <2> QED
      BY <2>5, <2>6
  <1>12. freed \in Nat /\ interrupts \in Nat
    BY BoundsAssumption DEF Typed, TypeOK
  <1> QED
    BY <1>1, <1>7, <1>8, <1>9, <1>11, <1>12, SendsAreKept DEF Counts

\* A pass that is interrupted: the next worker may begin again what this one had begun.
LEMMA InterruptCounts ==
  ASSUME Typed, Typed', Counts, NEW w \in Retriers, InterruptPass(w)
  PROVE  Counts'
  <1>1. /\ UNCHANGED <<issuing, sent, freed>> /\ interrupts' = interrupts + 1
        /\ retrying' = [retrying EXCEPT ![w] = Sleeping]
    BY DEF InterruptPass, history
  <1>2. /\ Ids' = Ids
        /\ \A r \in Ids : /\ reports'[r].acked = reports[r].acked /\ reports'[r].count = reports[r].count
                          /\ reports'[r].locked = (reports[r].locked /\ r \notin DOMAIN retrying[w].batch)
    <2>1. \A r \in Ids : reports[r] \in Report
      BY ReportsAreTyped
    <2>2. /\ Ids' = Ids
          /\ \A r \in Ids : reports'[r] = IF r \in DOMAIN retrying[w].batch
                               THEN [reports[r] EXCEPT !.locked = FALSE] ELSE reports[r]
      BY DEF InterruptPass
    <2> QED
      BY <2>1, <2>2 DEF Report
  <1>3. /\ DOMAIN retrying'[w].batch = {}
        /\ \A v \in Retriers \ {w} : retrying'[v] = retrying[v]
    BY <1>1, SleepingIsRetry DEF Typed, TypeOK
  <1>4. Locks'
    BY <1>2 DEF Counts, Locks
  <1>5. Alone'
    <2> SUFFICES ASSUME freed = 0, NEW v \in Retriers, NEW r \in DOMAIN retrying'[v].batch
                 PROVE  /\ \A u \in Retriers : r \in DOMAIN retrying'[u].batch => u = v
                        /\ ~ reports'[r].acked => reports'[r].locked /\ reports'[r].count = retrying'[v].batch[r]
      BY <1>1 DEF Alone
    <2>1. v # w /\ r \in DOMAIN retrying[v].batch
      BY <1>3
    <2>2. r \in Ids /\ r \notin DOMAIN retrying[w].batch
      BY <2>1, RetryIsOf DEF Typed, TypeOK, Counts, Alone
    <2>3. \A u \in Retriers : r \in DOMAIN retrying'[u].batch => r \in DOMAIN retrying[u].batch
      BY <1>3
    <2>4. /\ \A u \in Retriers : r \in DOMAIN retrying[u].batch => u = v
          /\ ~ reports[r].acked => reports[r].locked /\ reports[r].count = retrying[v].batch[r]
      BY <2>1 DEF Counts, Alone
    <2>5. reports'[r].acked = reports[r].acked /\ reports'[r].count = reports[r].count
          /\ reports'[r].locked = reports[r].locked
      <3>1. reports[r] \in Report
        BY <2>2, ReportsAreTyped
      <3> QED
        BY <1>2, <2>2, <3>1 DEF Report
    <2> QED
      BY <1>3, <2>1, <2>3, <2>4, <2>5
  <1>6. ASSUME NEW r \in Ids
        PROVE  /\ InAll(r)' \in Nat /\ InAll(r)' <= InAll(r) + MaxRetries
               /\ freed = 0 => InAll(r)' <= InAll(r) + 1
    <2>1. /\ Share(Sleeping, r) = 0
          /\ Share(retrying[w], r) \in Nat /\ Left(r) \in Nat /\ Left(r)' \in Nat
          /\ Left(r)' + Share(retrying[w], r) = Left(r) + Share(Sleeping, r)
      BY <1>1, LeftOfWorker, SleepingIsRetry DEF Share
    <2>2. sent'[r] = sent[r] /\ First(r)' = First(r)
      BY <1>1 DEF First
    <2>3. reports[r] \in Report
      BY ReportsAreTyped
    <2>4. CASE r \notin DOMAIN retrying[w].batch
      <3>1. Spare(r)' = Spare(r)
        BY <1>2, <2>3, <2>4 DEF Spare, Report
      <3> QED
        BY <2>1, <2>2, <3>1, SharesAreNumbers, RetriesAssumption DEF InAll
    <2>5. CASE r \in DOMAIN retrying[w].batch
      <3>1. Spare(r)' = IF reports[r].acked THEN 0 ELSE MaxRetries - reports[r].count
        BY <1>2, <2>3, <2>5 DEF Spare
      <3>2. reports[r].count \in 0..MaxRetries
        BY <2>3 DEF Report
      <3>3. Spare(r)' \in Nat /\ Spare(r)' <= MaxRetries
        BY <3>1, <3>2, RetriesAssumption
      <3>4. ASSUME freed = 0, ~ reports[r].acked
            PROVE  Spare(r)' <= Share(retrying[w], r) + 1
        <4>1. reports[r].count = retrying[w].batch[r]
          BY <2>5, <3>4 DEF Counts, Alone
        <4>2. Begun(retrying[w], r) <= reports[r].count + 1 /\ Begun(retrying[w], r) \in Nat
          BY <3>2, <4>1, RetriesAssumption DEF Begun
        <4> QED
          BY <2>5, <3>1, <3>2, <3>4, <4>2, RetriesAssumption DEF Share
      <3>5. Spare(r) \in Nat /\ sent[r] \in Nat /\ First(r) \in {0, 1}
        BY SharesAreNumbers
      <3>6. InAll(r)' \in Nat /\ InAll(r)' <= InAll(r) + MaxRetries
        BY <2>1, <2>2, <3>3, <3>5, RetriesAssumption DEF InAll
      <3>7. freed = 0 => InAll(r)' <= InAll(r) + 1
        <4>1. reports[r].acked => Spare(r)' = 0
          BY <3>1
        <4> QED
          BY <2>1, <2>2, <3>3, <3>4, <3>5, <4>1 DEF InAll
      <3> QED
        BY <3>6, <3>7
    <2> QED
      BY <2>4, <2>5
  <1>7. freed \in Nat /\ interrupts \in Nat
    BY BoundsAssumption DEF Typed, TypeOK
  <1>8. freed' >= freed /\ interrupts' >= interrupts /\ freed' + interrupts' > freed + interrupts
        /\ interrupts' > interrupts
    BY <1>1, <1>7
  <1> QED
    BY <1>1, <1>2, <1>4, <1>5, <1>6, <1>8, SendsAreKept DEF Counts

\* A pass: what is left to the next is now this worker's; a lock that is taken leaves something
\* for the next although somebody has it.
LEMMA PassCounts ==
  ASSUME Typed, Typed', Counts, NEW w \in Retriers, StartPass(w)
  PROVE  Counts'
  <1>1. PICK used \in SUBSET Ids, batch \in SUBSET Ids, gone \in SUBSET Ids :
          PassBy(w, used, batch, gone)
    BY PassWrites
  <1>2. UNCHANGED <<issuing, sent, interrupts>> /\ retrying[w] = Sleeping
    BY DEF StartPass, bounds
  <1> DEFINE b == [r \in batch |-> reports[r].count]
             x == Pass(b)
             taken == {r \in gone : reports[r].locked}
  <1>3. /\ Ids' = Ids /\ retrying' = [retrying EXCEPT ![w] = x] /\ freed' = freed + Cardinality(taken)
    BY <1>1 DEF PassBy
  <1>4. DOMAIN x.batch = batch /\ x.report = 0 /\ \A r \in batch : x.batch[r] = reports[r].count
    BY DEF Pass
  <1> HIDE DEF b, x
  <1>5. \A r \in Ids : reports[r] \in Report
    BY ReportsAreTyped
  <1>6. \A r \in gone : ~ reports[r].acked
    BY <1>1 DEF PassBy, Unanswered
  <1>7. \A r \in used : ~ reports[r].acked /\ ~ reports[r].locked
    <2> SUFFICES ASSUME NEW r \in used PROVE ~ reports[r].acked /\ ~ reports[r].locked
      OBVIOUS
    <2>1. r \in Ids /\ ~ reports[r].acked /\ reports[r].count >= MaxRetries
      BY <1>1 DEF PassBy, Exhausted, Unanswered
    <2>2. reports[r].count \in Nat /\ reports[r].locked \in BOOLEAN
      BY <1>5, <2>1 DEF Report
    <2>3. reports[r].locked => reports[r].count < MaxRetries
      BY <2>1 DEF Counts, Locks
    <2> QED
      BY <2>1, <2>2, <2>3, RetriesAssumption
  <1>8. \A r \in batch : ~ reports[r].acked /\ ~ reports[r].locked /\ reports[r].count < MaxRetries
                        /\ r \notin gone /\ r \notin used
    <2> SUFFICES ASSUME NEW r \in batch
                 PROVE  /\ ~ reports[r].acked /\ ~ reports[r].locked /\ reports[r].count < MaxRetries
                        /\ r \notin gone /\ r \notin used
      OBVIOUS
    <2>1. ~ reports[r].acked /\ ~ reports[r].locked /\ reports[r].count < MaxRetries /\ r \notin gone
      BY <1>1 DEF PassBy, Claimable, Unanswered
    <2>2. r \in used => reports[r].count >= MaxRetries
      BY <1>1 DEF PassBy, Exhausted
    <2>3. reports[r].count \in Nat
      BY <1>5 DEF Report
    <2> QED
      BY <2>1, <2>2, <2>3, RetriesAssumption
  <1>9. \A r \in Ids : /\ reports'[r].acked = reports[r].acked /\ reports'[r].count = reports[r].count
                      /\ reports'[r].locked = ((reports[r].locked /\ r \notin gone) \/ r \in batch)
    <2> SUFFICES ASSUME NEW r \in Ids
                 PROVE  /\ reports'[r].acked = reports[r].acked /\ reports'[r].count = reports[r].count
                        /\ reports'[r].locked = ((reports[r].locked /\ r \notin gone) \/ r \in batch)
      OBVIOUS
    <2>1. CASE r \in gone \cup used
      <3>1. reports'[r] = [reports[r] EXCEPT !.status = "failed", !.locked = FALSE]
        BY <1>1, <2>1 DEF PassBy
      <3> QED
        BY <1>5, <1>7, <1>8, <2>1, <3>1 DEF Report
    <2>2. CASE r \in batch
      <3>1. reports'[r] = [reports[r] EXCEPT !.locked = TRUE]
        BY <1>1, <1>8, <2>2 DEF PassBy
      <3> QED
        BY <1>5, <2>2, <3>1 DEF Report
    <2>3. CASE r \notin gone \cup used \cup batch
      <3>1. reports'[r] = reports[r]
        BY <1>1, <2>3 DEF PassBy
      <3> QED
        BY <1>5, <2>3, <3>1 DEF Report
    <2> QED
      BY <2>1, <2>2, <2>3
  <1>10. IsFiniteSet(taken) /\ Cardinality(taken) \in Nat
    <2>1. IsFiniteSet(Ids)
      BY IdsAreNumbers, FS_Interval DEF Typed, TypeOK
    <2>2. taken \subseteq Ids
      OBVIOUS
    <2> QED
      BY <2>1, <2>2, FS_Subset, FS_CardinalityType
  <1>11. ASSUME NEW r \in taken PROVE Cardinality(taken) >= 1
    BY <1>10, FS_EmptySet
  <1>12. freed \in Nat /\ interrupts \in Nat
    BY BoundsAssumption DEF Typed, TypeOK
  <1>13. freed' >= freed /\ (taken # {} => freed' > freed)
    BY <1>3, <1>10, <1>11, <1>12
  <1>14. retrying'[w] = x /\ \A v \in Retriers \ {w} : retrying'[v] = retrying[v]
    BY <1>3 DEF Typed, TypeOK
  <1> HIDE DEF taken
  <1>15. Locks'
    BY <1>3, <1>8, <1>9 DEF Counts, Locks
  <1>16. Alone'
    <2> SUFFICES ASSUME freed' = 0, NEW v \in Retriers, NEW r \in DOMAIN retrying'[v].batch
                 PROVE  /\ \A u \in Retriers : r \in DOMAIN retrying'[u].batch => u = v
                        /\ ~ reports'[r].acked => reports'[r].locked /\ reports'[r].count = retrying'[v].batch[r]
      BY DEF Alone
    <2>1. freed = 0 /\ taken = {}
      BY <1>12, <1>13
    <2>2. \A u \in Retriers : DOMAIN retrying[u].batch \subseteq Ids
      BY RetryIsOf DEF Typed, TypeOK
    <2>3. \A u \in Retriers : \A s \in DOMAIN retrying[u].batch : s \notin batch
      BY <1>8, <2>1 DEF Counts, Alone
    <2>4. CASE v = w
      <3>1. r \in batch
        BY <1>4, <1>14, <2>4
      <3> QED
        BY <1>4, <1>9, <1>14, <2>3, <2>4, <3>1
    <2>5. CASE v # w
      <3>1. r \in DOMAIN retrying[v].batch /\ retrying'[v] = retrying[v]
        BY <1>14, <2>5
      <3>2. r \notin batch /\ r \in Ids
        BY <2>2, <2>3, <3>1
      <3>3. \A u \in Retriers : r \in DOMAIN retrying'[u].batch => r \in DOMAIN retrying[u].batch
        BY <1>4, <1>14, <3>2
      <3>4. ~ reports[r].acked => reports[r].locked /\ reports[r].count = retrying[v].batch[r]
        BY <2>1, <3>1 DEF Counts, Alone
      <3>5. ~ reports[r].acked => r \notin gone
        BY <2>1, <3>4 DEF taken
      <3> QED
        BY <1>9, <2>1, <3>1, <3>2, <3>3, <3>4, <3>5 DEF Counts, Alone
    <2> QED
      BY <2>4, <2>5
  <1>17. ASSUME NEW r \in Ids
         PROVE  /\ InAll(r)' \in Nat
                /\ \/ InAll(r)' <= InAll(r)
                   \/ InAll(r)' <= InAll(r) + MaxRetries /\ taken # {}
    <2>1. r # 0
      BY IdsAreNumbers DEF Typed, TypeOK
    <2>2. r \in DOMAIN x.batch => Begun(x, r) \in 0..MaxRetries
      BY <1>4, <1>5, <2>1 DEF Begun, Report
    <2>3. /\ Share(retrying[w], r) = 0
          /\ Share(x, r) \in Nat /\ Left(r) \in Nat /\ Left(r)' \in Nat
          /\ Left(r)' + Share(retrying[w], r) = Left(r) + Share(x, r)
      BY <1>2, <1>3, <2>2, LeftOfWorker, SleepingIsRetry DEF Share
    <2>4. sent'[r] = sent[r] /\ First(r)' = First(r)
      BY <1>2 DEF First
    <2>5. Spare(r) \in Nat /\ sent[r] \in Nat /\ First(r) \in {0, 1}
      BY SharesAreNumbers
    <2>6. reports[r].count \in 0..MaxRetries
      BY <1>5 DEF Report
    <2>7. CASE r \in batch
      <3>1. Share(x, r) = Spare(r) /\ Spare(r)' = 0
        BY <1>4, <1>8, <1>9, <2>1, <2>7 DEF Share, Begun, Spare
      <3> QED
        BY <2>3, <2>4, <2>5, <3>1 DEF InAll
    <2>8. CASE r \notin batch
      <3>1. Share(x, r) = 0
        BY <1>4, <2>8 DEF Share
      <3>2. CASE r \in taken
        <4>1. Spare(r)' \in Nat /\ Spare(r)' <= MaxRetries
          BY <1>9, <2>6, RetriesAssumption DEF Spare
        <4> QED
          BY <2>3, <2>4, <2>5, <3>1, <3>2, <4>1, RetriesAssumption DEF InAll
      <3>3. CASE r \notin taken
        <4>1. Spare(r)' = Spare(r)
          BY <1>5, <1>9, <2>8, <3>3 DEF Spare, taken, Report
        <4> QED
          BY <2>3, <2>4, <2>5, <3>1, <4>1 DEF InAll
      <3> QED
        BY <3>2, <3>3
    <2> QED
      BY <2>7, <2>8
  <1>18. taken # {} => freed' + interrupts' > freed + interrupts /\ freed' # 0
    <2> SUFFICES ASSUME taken # {} PROVE freed' + interrupts' > freed + interrupts /\ freed' # 0
      OBVIOUS
    <2>1. freed' > freed /\ interrupts' = interrupts /\ freed' \in Nat
      BY <1>2, <1>3, <1>10, <1>12, <1>13
    <2>2. freed' # 0
      BY <1>12, <2>1
    <2>3. \A k, m, n \in Nat : k > m => k + n > m + n
      OBVIOUS
    <2>4. freed' + interrupts > freed + interrupts
      BY <1>12, <2>1, <2>3
    <2> QED
      BY <2>1, <2>2, <2>4
  <1> QED
    BY <1>2, <1>3, <1>12, <1>13, <1>15, <1>16, <1>17, <1>18, SendsAreKept DEF Counts

\* An answer: nothing is left for the next.
LEMMA AnswerCounts ==
  ASSUME Typed, Typed', Counts, NEW q \in Ids, NEW answer \in Answers, ApplyIssueAck(q, answer)
  PROVE  Counts'
  <1> DEFINE e == [reports[q] EXCEPT !.status = answer, !.acked = TRUE, !.locked = FALSE]
  <1>1. UNCHANGED <<issuing, retrying, sent, freed, interrupts>> /\ reports' = [reports EXCEPT ![q] = e]
    BY DEF ApplyIssueAck, bounds
  <1>2. e.acked
    <2>1. reports[q] \in Report
      BY ReportsAreTyped
    <2> QED
      BY <2>1 DEF Report
  <1> HIDE DEF e
  <1>3. Ids' = Ids /\ reports'[q].acked /\ \A r \in Ids \ {q} : reports'[r] = reports[r]
    BY <1>1, <1>2 DEF Typed, TypeOK
  <1>4. \A w \in Retriers : DOMAIN retrying[w].batch \subseteq Ids
    BY RetryIsOf DEF Typed, TypeOK
  <1>5. Locks' /\ Alone'
    BY <1>1, <1>3, <1>4 DEF Counts, Locks, Alone
  <1>6. ASSUME NEW r \in Ids PROVE InAll(r)' \in Nat /\ InAll(r)' <= InAll(r)
    <2>1. sent'[r] = sent[r] /\ First(r)' = First(r) /\ Left(r)' = Left(r)
      BY <1>1 DEF First, Left
    <2>2. Spare(r)' \in {0, Spare(r)}
      BY <1>3 DEF Spare
    <2> QED
      BY <2>1, <2>2, SharesAreNumbers DEF InAll
  <1>7. freed \in Nat /\ interrupts \in Nat
    BY BoundsAssumption DEF Typed, TypeOK
  <1> QED
    BY <1>1, <1>3, <1>5, <1>6, <1>7, SendsAreKept DEF Counts

LEMMA CountsInit == Init => Counts
  <1> SUFFICES ASSUME Init PROVE Counts
    OBVIOUS
  <1>1. Ids = {} /\ \A w \in Retriers : DOMAIN retrying[w].batch = {}
    BY SleepingIsRetry DEF Init
  <1> QED
    BY <1>1 DEF Counts, Locks, Alone, Sends, FewSends

LEMMA CountsStep == Typed /\ Counts /\ [Next]_vars => Counts'
  <1> SUFFICES ASSUME Typed, Counts, [Next]_vars PROVE Counts'
    OBVIOUS
  <1>1. Typed'
    BY TypedStep
  <1>2. CASE IssueSingleWorker \/ IssueFetched
    <2>1. \/ \E i \in Issuers : \E action, of :
                InsertReport(i, action, of) /\ ~ Publishing(i) /\ UNCHANGED <<retrying, freed, interrupts>>
          \/ IssueSingleWorker /\ UNCHANGED <<issuing, reports, sent, verdict>>
      BY <1>2 DEF IssueSingleWorker, IssueFetched, Issuers, Publishing, bounds
    <2> QED
      BY <1>1, <2>1, InsertCounts, OthersCount
  <1>3. CASE \/ \E w \in Retriers : Retrier(w) \/ InterruptPass(w)
             \/ \E r \in Ids, answer \in Answers : ApplyIssueAck(r, answer)
             \/ \E i \in Issuers, ok \in BOOLEAN : PublishReport(i, ok)
    BY <1>1, <1>3, PassCounts, SaveCounts, RetryCounts, InterruptCounts, AnswerCounts, FirstCounts DEF Retrier
  <1>4. CASE \/ ChangePerson \/ TakeCommand \/ LoseMessage \/ FetchProjectWorkers
             \/ \E h \in handlers : CompareFields(h) \/ EnqueueReissue(h) \/ ForgetReissue(h)
             \/ \E i \in Issuers : SavePublishResult(i) \/ InterruptIssue(i)
             \/ UNCHANGED vars
    BY <1>1, <1>4, OthersCount
  <1> QED
    BY <1>2, <1>3, <1>4 DEF Next, Issuer, Disturbance

\* The invariant: what an issuer, a retry worker and a report know of each other, and how often a
\* command was and may yet be sent.
THEOREM DeviceInvHolds == Spec => []DeviceInv
<1>1. Init => DeviceInv
  BY TypedInit, CountsInit DEF DeviceInv, Init, AckShows
<1>2. DeviceInv /\ [Next]_vars => DeviceInv'
  BY TypedStep, AckShowsStep, CountsStep DEF DeviceInv
<1> QED
  BY <1>1, <1>2, PTL DEF Spec

\* A command is sent once and once for each retry, and once more for each interruption; after a
\* lock was taken from a worker, a series for each such lock and each interruption.
THEOREM CommandsAreFew == Spec => []SendsAreBounded
<1>1. DeviceInv => SendsAreBounded
  <2> SUFFICES ASSUME DeviceInv, NEW r \in Ids
               PROVE  sent[r] <= IF freed = 0 THEN 1 + MaxRetries + interrupts
                                 ELSE 1 + MaxRetries * (1 + freed + interrupts)
    BY DEF SendsAreBounded
  <2>1. sent[r] <= InAll(r) /\ sent[r] \in Nat /\ InAll(r) \in Nat
    BY SharesAreNumbers DEF DeviceInv, InAll
  <2>2. freed \in Nat /\ interrupts \in Nat
    BY BoundsAssumption DEF DeviceInv, Typed, TypeOK
  <2>3. CASE freed = 0
    BY <2>1, <2>2, <2>3, RetriesAssumption DEF DeviceInv, Counts, FewSends
  <2>4. CASE freed # 0
    <3>1. sent[r] <= 1 + Budget(freed, interrupts)
      <4>1. InAll(r) <= 1 + Budget(freed, interrupts)
        BY DEF DeviceInv, Counts, Sends
      <4>2. Budget(freed, interrupts) \in Nat
        BY <2>2, BudgetGrows
      <4> QED
        BY <2>1, <4>1, <4>2
    <3> QED
      BY <2>4, <3>1 DEF Budget
  <2> QED
    BY <2>3, <2>4
<1> QED
  BY <1>1, DeviceInvHolds, PTL

-----------------------------------------------------------------------------
(* The device and the person, as long as nothing was out of order. A value *)
(* is what the device lets in, or Nobody. What was told last, what was     *)
(* fetched and what a report says is either what the person is, or a call  *)
(* of update_worker that has not enqueued yet will see the difference.     *)

Shows(p) == IF p.active THEN p.card ELSE Nobody
Does(r)  == IF reports[r].action = "delete" THEN Nobody ELSE reports[r].card
Values   == Revs \cup {Nobody}
Says(action, v) == action = "delete" <=> v = Nobody
Last(q)  == q[Len(q)]

\* An event that no report was written for yet.
ToIssue == Len(queue) > IF issuing["outbox"].stage = "idle" THEN 0 ELSE 1

\* The value v that was known at k is that of now, or a call will tell that it is not.
Wrote(v) == \E h \in handlers : h.stage = "wrote" /\ Shows(h.over) = v
Tells(k) == \E h \in handlers : h.stage = "compared" /\ h.rev > k
Ends(v, k) == v = Shows(person) \/ (k < person.rev /\ Wrote(v)) \/ Tells(k)

\* What the person may turn out to be, of all that was ever told; they cannot be two things.
Open == {v \in Values : Ends(v, told)}
Undecided == \E u, v \in Open : u # v

Past ==
  /\ told <= person.rev /\ person.rev <= changes
  /\ \A h \in handlers : h.stage = "compared" => h.rev <= person.rev
  /\ \A r \in Ids : reports[r].rev <= person.rev
  /\ issuing["operator"].stage = "read" =>
       /\ issuing["operator"].of.rev <= person.rev /\ issuing["operator"].of.active
       /\ issuing["operator"].of.rev = person.rev => issuing["operator"].of = person

Announced == \E v \in Open : queue # <<>> => Says(Last(queue), v)
Compared ==
  \A h \in handlers : h.stage = "compared" /\ h.rev >= told =>
    \E v \in Values : Says(h.action, v) /\ Ends(v, h.rev)
Overtaken(k) == \E s \in Ids : reports[s].rev > k
Fetched ==
  issuing["operator"].stage = "read" =>
    \/ ToIssue \/ Undecided
    \/ Shows(issuing["operator"].of) \in Open \/ Overtaken(issuing["operator"].of.rev)
Superseded(r) ==
  \E s \in Ids : reports[s].rev > reports[r].rev \/ (reports[s].rev = reports[r].rev /\ s > r)
Current(r) == ToIssue \/ Undecided \/ Does(r) \in Open \/ Superseded(r)
Track == Announced /\ Compared /\ Fetched /\ \A r \in Ids : Current(r)

\* What a report tells never changes.
OrdersStay ==
  /\ Ids \subseteq Ids'
  /\ \A r \in Ids : /\ reports'[r].action = reports[r].action
                    /\ reports'[r].rev = reports[r].rev /\ reports'[r].card = reports[r].card

\* A report that is written comes last.
LEMMA Inserted ==
  ASSUME Typed, NEW e, reports' = Append(reports, e), NEW n, n = Len(reports) + 1
  PROVE  /\ n \in Nat /\ Ids' = Ids \cup {n} /\ n \notin Ids /\ reports'[n] = e
         /\ \A r \in Ids : r \in Nat /\ n > r /\ reports'[r] = reports[r]
  <1>1. Ids = 1..Len(reports) /\ Len(reports) \in Nat /\ reports \in Seq(Report)
    BY IdsAreNumbers, ReportsAreTyped
  <1> QED
    BY <1>1

\* What an issuer inserts.
LEMMA InsertIs ==
  ASSUME NEW i, NEW action, NEW of, InsertReport(i, action, of)
  PROVE  \E e, n : /\ reports' = Append(reports, e) /\ n = Len(reports) + 1
                   /\ e.action = action /\ e.rev = of.rev /\ e.card = of.card
  <1>1. PICK e, n : e = NewReport(action, of) /\ n = Len(reports) + 1
    OBVIOUS
  <1>2. reports' = Append(reports, e)
    BY <1>1 DEF InsertReport
  <1>3. e.action = action /\ e.rev = of.rev /\ e.card = of.card
    BY <1>1 DEF NewReport
  <1> QED
    BY <1>1, <1>2, <1>3

LEMMA OrdersAreKept ==
  ASSUME Typed, [Next]_vars
  PROVE  OrdersStay /\ (Ids' = Ids \/ IssueSingleWorker \/ IssueFetched)
  <1> DEFINE Same == OrdersStay /\ Ids' = Ids
  <1>1. \A r \in Ids : reports[r] \in Report
    BY DEF Typed, TypeOK
  <1>2. reports' = reports => Same
    BY DEF OrdersStay
  <1>3. ASSUME NEW i, NEW action, NEW of, InsertReport(i, action, of) PROVE OrdersStay
    <2>1. PICK e, n : reports' = Append(reports, e) /\ n = Len(reports) + 1
      BY <1>3, InsertIs
    <2>2. Ids' = Ids \cup {n} /\ \A r \in Ids : reports'[r] = reports[r]
      BY <2>1, Inserted
    <2> QED
      BY <2>2 DEF OrdersStay
  <1>4. ASSUME NEW r \in Ids, NEW x \in Report, reports' = [reports EXCEPT ![r] = x],
               x.action = reports[r].action, x.rev = reports[r].rev, x.card = reports[r].card
        PROVE  Same
    BY <1>4 DEF OrdersStay, Typed, TypeOK
  <1>5. ASSUME NEW t, reports' = [r \in Ids |-> t[r]],
               \A r \in Ids : /\ t[r].action = reports[r].action
                              /\ t[r].rev = reports[r].rev /\ t[r].card = reports[r].card
        PROVE  Same
    BY <1>5 DEF OrdersStay
  <1>6. CASE IssueSingleWorker
    BY <1>2, <1>3, <1>6 DEF IssueSingleWorker
  <1>7. CASE IssueFetched
    BY <1>3, <1>7 DEF IssueFetched
  <1>8. ASSUME NEW i \in Issuers, SavePublishResult(i) PROVE Same
    <2> DEFINE r == issuing[i].report
               x == [reports[r] EXCEPT !.status = IF issuing[i].ok THEN "pending" ELSE "failed"]
    <2>1. r \in Ids
      BY <1>8 DEF SavePublishResult, Typed, Firsts, Publishing
    <2>2. x \in Report /\ x.action = reports[r].action /\ x.rev = reports[r].rev /\ x.card = reports[r].card
      BY <1>1, <2>1 DEF Report, Answers
    <2>3. reports' = [reports EXCEPT ![r] = x]
      BY <1>8, <2>1 DEF SavePublishResult
    <2> HIDE DEF r, x
    <2> QED
      BY <1>4, <2>1, <2>2, <2>3
  <1>9. ASSUME NEW w \in Retriers, StartPass(w) PROVE Same
    <2>1. PICK used \in SUBSET Ids, batch \in SUBSET Ids, gone \in SUBSET Ids :
            PassBy(w, used, batch, gone)
      BY <1>9, PassWrites
    <2>2. Ids' = Ids
      BY <2>1 DEF PassBy
    <2>3. \A r \in Ids : \/ reports'[r] = reports[r]
                        \/ reports'[r] = [reports[r] EXCEPT !.locked = TRUE]
                        \/ reports'[r] = [reports[r] EXCEPT !.status = "failed", !.locked = FALSE]
      BY <2>1 DEF PassBy
    <2> QED
      BY <1>1, <2>2, <2>3 DEF OrdersStay, Report
  <1>10. ASSUME NEW w \in Retriers, SaveRetry(w) PROVE Same
    <2> DEFINE r == retrying[w].report
    <2>1. r \in Ids /\ retrying[w].batch[r] \in Nat /\ retrying[w].batch[r] < MaxRetries
      <3>1. retrying[w] \in Retry
        BY DEF Typed, TypeOK
      <3> QED
        BY <1>10, <3>1, RetryIsOf DEF SaveRetry, Typed, Batches
    <2>2. reports[r] \in Report /\ retrying[w].batch[r] + 1 \in 0..MaxRetries
      BY <1>1, <2>1, RetriesAssumption
    <2>3. Retried(w, r) \in Report
          /\ Retried(w, r).action = reports[r].action /\ Retried(w, r).rev = reports[r].rev
          /\ Retried(w, r).card = reports[r].card
      <3> HIDE DEF r
      <3> QED
        BY <2>2 DEF Retried, Report, Answers
    <2>4. reports' = reports \/ reports' = [reports EXCEPT ![r] = Retried(w, r)]
      BY <1>10 DEF SaveRetry
    <2> HIDE DEF r
    <2> QED
      BY <1>2, <1>4, <2>1, <2>3, <2>4
  <1>11. ASSUME NEW w \in Retriers, InterruptPass(w) PROVE Same
    BY <1>1, <1>11 DEF InterruptPass, OrdersStay, Report
  <1>12. ASSUME NEW r \in Ids, NEW answer \in Answers, ApplyIssueAck(r, answer) PROVE Same
    <2> DEFINE x == [reports[r] EXCEPT !.status = answer, !.acked = TRUE, !.locked = FALSE]
    <2>1. x \in Report /\ x.action = reports[r].action /\ x.rev = reports[r].rev /\ x.card = reports[r].card
      BY <1>1 DEF Report, Answers
    <2>2. reports' = [reports EXCEPT ![r] = x]
      BY <1>12 DEF ApplyIssueAck
    <2> HIDE DEF x
    <2> QED
      BY <1>4, <2>1, <2>2
  <1>13. CASE \/ ChangePerson \/ FetchProjectWorkers \/ TakeCommand \/ LoseMessage
              \/ \E h \in handlers : CompareFields(h) \/ EnqueueReissue(h) \/ ForgetReissue(h)
              \/ \E i \in Issuers : InterruptIssue(i) \/ \E ok \in BOOLEAN : PublishReport(i, ok)
              \/ \E w \in Retriers : \E r \in Ids, ok \in BOOLEAN : PublishRetry(w, r, ok)
              \/ UNCHANGED vars
    BY <1>2, <1>13 DEF ChangePerson, FetchProjectWorkers, TakeCommand, LoseMessage, CompareFields,
         EnqueueReissue, ForgetReissue, InterruptIssue, PublishReport, PublishRetry, ledger, vars
  <1> QED
    BY <1>6, <1>7, <1>8, <1>9, <1>10, <1>11, <1>12, <1>13 DEF Next, Issuer, Retrier, Disturbance

\* Only the operator's fetching makes an operator's reading.
LEMMA OperatorStays ==
  ASSUME Typed, [Next]_vars
  PROVE  \/ FetchProjectWorkers \/ issuing'["operator"].stage # "read"
         \/ issuing'["operator"] = issuing["operator"]
  <1>1. ASSUME NEW i \in Issuers, NEW x, issuing' = [issuing EXCEPT ![i] = x], x.stage # "read"
        PROVE  issuing'["operator"].stage # "read" \/ issuing'["operator"] = issuing["operator"]
    BY <1>1 DEF Typed, TypeOK, Issuers
  <1>2. ASSUME NEW i \in Issuers, NEW action, NEW of, InsertReport(i, action, of)
        PROVE  issuing'["operator"].stage # "read" \/ issuing'["operator"] = issuing["operator"]
    <2>1. [Resting EXCEPT !.stage = "inserted", !.report = Len(reports) + 1].stage # "read"
      BY DEF Resting
    <2> QED
      BY <1>1, <1>2, <2>1 DEF InsertReport
  <1>3. CASE IssueSingleWorker
    BY <1>2, <1>3 DEF IssueSingleWorker, Issuers
  <1>4. CASE IssueFetched
    BY <1>2, <1>4 DEF IssueFetched, Issuers
  <1>5. ASSUME NEW i \in Issuers, NEW ok \in BOOLEAN, PublishReport(i, ok)
        PROVE  issuing'["operator"].stage # "read" \/ issuing'["operator"] = issuing["operator"]
    <2>1. [issuing[i] EXCEPT !.stage = "sent", !.ok = ok].stage # "read"
      BY DEF Typed, TypeOK, Issuing
    <2> QED
      BY <1>1, <1>5, <2>1 DEF PublishReport
  <1>6. ASSUME NEW i \in Issuers, SavePublishResult(i) \/ InterruptIssue(i)
        PROVE  issuing'["operator"].stage # "read" \/ issuing'["operator"] = issuing["operator"]
    <2>1. Resting.stage # "read" /\ issuing' = [issuing EXCEPT ![i] = Resting]
      BY <1>6 DEF SavePublishResult, InterruptIssue, Resting
    <2> QED
      BY <1>1, <2>1
  <1>7. CASE issuing' = issuing
    BY <1>7
  <1>8. CASE \/ ChangePerson \/ TakeCommand \/ LoseMessage
             \/ \E h \in handlers : CompareFields(h) \/ EnqueueReissue(h) \/ ForgetReissue(h)
             \/ \E w \in Retriers :
                  \/ StartPass(w) \/ SaveRetry(w) \/ InterruptPass(w)
                  \/ \E r \in Ids, ok \in BOOLEAN : PublishRetry(w, r, ok)
             \/ \E r \in Ids, answer \in Answers : ApplyIssueAck(r, answer)
             \/ UNCHANGED vars
    BY <1>7, <1>8 DEF ChangePerson, TakeCommand, LoseMessage, CompareFields, EnqueueReissue, ForgetReissue,
         StartPass, SaveRetry, InterruptPass, PublishRetry, ApplyIssueAck, vars
  <1> QED
    BY <1>3, <1>4, <1>5, <1>6, <1>8 DEF Next, Issuer, Retrier, Disturbance

LEMMA PersonIsTyped ==
  ASSUME Typed
  PROVE  /\ person \in Person /\ person.rev \in Nat /\ person.card \in Revs /\ person.active \in BOOLEAN
         /\ told \in Nat /\ changes \in Nat /\ Nobody \notin Revs
         /\ \A r \in Ids : reports[r] \in Report /\ reports[r].rev \in Nat /\ r \in Nat /\ Does(r) \in Values
         /\ \A h \in handlers : h.stage = "wrote" => h.before \in Person /\ h.over \in Person
         /\ \A h \in handlers : h.stage = "compared" => h.rev \in Nat /\ h.action \in Actions
         /\ issuing["operator"] \in Issuing /\ issuing["operator"].of \in Person
         /\ issuing["operator"].of.rev \in Nat
         /\ \A p \in Person : Shows(p) \in Values
  <1>1. Revs \subseteq Nat /\ Nobody \notin Revs
    BY BoundsAssumption DEF Revs, Nobody
  <1>2. \A p \in Person : Shows(p) \in Values /\ p.rev \in Nat /\ p.card \in Revs /\ p.active \in BOOLEAN
    BY <1>1 DEF Person, Shows, Values
  <1>3. \A r \in Ids : reports[r] \in Report /\ r \in Nat
    BY IdsAreNumbers DEF Typed, TypeOK
  <1>4. \A r \in Ids : reports[r].rev \in Nat /\ Does(r) \in Values
    BY <1>1, <1>3 DEF Report, Does, Values
  <1>5. \A h \in handlers : /\ h.stage = "wrote" => h.before \in Person /\ h.over \in Person
                            /\ h.stage = "compared" => h.rev \in Nat /\ h.action \in Actions
    BY <1>1 DEF Typed, TypeOK, Handler
  <1>6. issuing["operator"] \in Issuing /\ issuing["operator"].of \in Person
    BY DEF Typed, TypeOK, Issuers, Issuing
  <1>7. person \in Person /\ told \in Nat /\ changes \in Nat
    BY <1>1, BoundsAssumption DEF Typed, TypeOK
  <1> QED
    BY <1>1, <1>2, <1>3, <1>4, <1>5, <1>6, <1>7

\* A change writes a row of its own, and a call that will compare it.
LEMMA ChangedRow ==
  ASSUME Typed, ChangePerson
  PROVE  /\ person'.rev = changes + 1
         /\ \E g \in handlers' : g.stage = "wrote" /\ g.over = person
         /\ handlers \subseteq handlers'
  <1>1. PICK before \in rows :
          /\ \E to \in {[person EXCEPT !.card = changes + 1], [person EXCEPT !.active = ~@], before} :
               person' = [to EXCEPT !.rev = changes + 1]
          /\ handlers' = handlers \cup {[stage |-> "wrote", before |-> before, over |-> person]}
    BY DEF ChangePerson
  <1>2. person \in Person /\ before \in Person
    BY DEF Typed, TypeOK
  <1>3. person'.rev = changes + 1
    BY <1>1, <1>2 DEF Person
  <1>4. \E g \in handlers' : g.stage = "wrote" /\ g.over = person
    <2> DEFINE g == [stage |-> "wrote", before |-> before, over |-> person]
    <2>1. g \in handlers' /\ g.stage = "wrote" /\ g.over = person
      BY <1>1
    <2> QED
      BY <2>1
  <1>5. handlers \subseteq handlers'
    BY <1>1
  <1> QED
    BY <1>3, <1>4, <1>5

\* Nothing comes from a state of the person that is still to be.
LEMMA PastStep ==
  ASSUME Typed, Typed', Past, [Next]_vars
  PROVE  Past'
  <1> USE PersonIsTyped
  <1>1. OrdersStay /\ (Ids' = Ids \/ IssueSingleWorker \/ IssueFetched)
    BY OrdersAreKept
  <1>2. ASSUME person' = person \/ (person'.rev > person.rev), told' <= person'.rev,
               person'.rev <= changes',
               \A h \in handlers' : h.stage = "compared" => h \in handlers \/ h.rev <= person'.rev,
               \A r \in Ids' \ Ids : reports'[r].rev <= person'.rev,
               issuing'["operator"] = issuing["operator"] \/ issuing'["operator"].stage # "read"
               \/ (FetchProjectWorkers /\ person' = person)
        PROVE  Past'
    <2>1. person'.rev \in Nat /\ person'.rev >= person.rev
      <3>1. person'.rev \in Nat
        BY BoundsAssumption DEF Typed, TypeOK, Person, Revs
      <3> QED
        BY <1>2, <3>1
    <2>2. \A h \in handlers' : h.stage = "compared" => h.rev <= person'.rev
      BY <1>2, <2>1 DEF Past
    <2>3. \A r \in Ids' : reports'[r].rev <= person'.rev
      BY <1>1, <1>2, <2>1 DEF Past, OrdersStay
    <2>4. ASSUME issuing'["operator"].stage = "read"
          PROVE  /\ issuing'["operator"].of.rev <= person'.rev /\ issuing'["operator"].of.active
                 /\ issuing'["operator"].of.rev = person'.rev => issuing'["operator"].of = person'
      <3>1. CASE issuing'["operator"] = issuing["operator"]
        BY <1>2, <2>1, <2>4, <3>1 DEF Past
      <3>2. CASE FetchProjectWorkers /\ person' = person
        <4>1. issuing'["operator"].of = person /\ person.active
          BY <3>2 DEF FetchProjectWorkers, Typed, TypeOK, Issuers, Resting
        <4> QED
          BY <3>2, <4>1
      <3> QED
        BY <1>2, <2>4, <3>1, <3>2
    <2> QED
      BY <1>2, <2>2, <2>3, <2>4 DEF Past
  <1>3. \/ issuing'["operator"] = issuing["operator"] \/ issuing'["operator"].stage # "read"
        \/ FetchProjectWorkers
    BY OperatorStays
  <1>4. told <= person.rev /\ person.rev <= changes
    BY DEF Past
  <1>5. CASE ChangePerson
    <2>1. person'.rev = changes + 1 /\ changes' = changes + 1 /\ told' = told /\ Ids' = Ids
          /\ issuing' = issuing
      BY <1>5, ChangedRow DEF ChangePerson, history, ledger
    <2>2. \A h \in handlers' : h \in handlers \/ h.stage = "wrote"
      BY <1>5 DEF ChangePerson
    <2> QED
      BY <1>2, <1>4, <2>1, <2>2
  <1>6. ASSUME NEW h \in handlers, CompareFields(h) PROVE Past'
    <2>1. person' = person /\ told' = told /\ changes' = changes /\ Ids' = Ids /\ issuing' = issuing
      BY <1>6 DEF CompareFields, ledger, bounds
    <2>2. \A g \in handlers' : g \in handlers \/ g.rev = person.rev
      BY <1>6 DEF CompareFields
    <2> QED
      BY <1>2, <1>4, <2>1, <2>2
  <1>7. ASSUME NEW h \in handlers, EnqueueReissue(h) \/ ForgetReissue(h) PROVE Past'
    <2>1. person' = person /\ changes' = changes /\ Ids' = Ids /\ issuing' = issuing /\ handlers' \subseteq handlers
      BY <1>7 DEF EnqueueReissue, ForgetReissue, ledger, bounds
    <2>2. told' <= person.rev
      BY <1>4, <1>7 DEF EnqueueReissue, ForgetReissue, Past
    <2> QED
      BY <1>2, <1>4, <2>1, <2>2
  <1>8. CASE IssueSingleWorker \/ IssueFetched
    <2>1. person' = person /\ told' = told /\ changes' = changes /\ handlers' = handlers
      BY <1>8 DEF IssueSingleWorker, IssueFetched, bounds
    <2>2. \A r \in Ids' \ Ids : reports'[r].rev <= person.rev
      <3>1. Ids' = Ids \/ \E of : /\ of.rev <= person.rev
                                  /\ \E i \in Issuers : \E action : InsertReport(i, action, of)
        BY <1>8 DEF IssueSingleWorker, IssueFetched, Past, Issuers
      <3>2. ASSUME NEW i, NEW action, NEW of, of.rev <= person.rev, InsertReport(i, action, of)
            PROVE  \A r \in Ids' \ Ids : reports'[r].rev <= person.rev
        <4>1. PICK e, n : reports' = Append(reports, e) /\ n = Len(reports) + 1 /\ e.rev = of.rev
          BY <3>2, InsertIs
        <4>2. Ids' = Ids \cup {n} /\ reports'[n] = e
          BY <4>1, Inserted
        <4> QED
          BY <3>2, <4>1, <4>2
      <3> QED
        BY <3>1, <3>2
    <2>3. ~ FetchProjectWorkers \/ person' = person
      BY <2>1
    <2> QED
      BY <1>2, <1>3, <1>4, <2>1, <2>2
  <1>9. CASE UNCHANGED <<person, told, changes, handlers>> /\ ~ IssueSingleWorker /\ ~ IssueFetched
    BY <1>1, <1>2, <1>3, <1>4, <1>9
  <1>10. CASE \/ FetchProjectWorkers \/ TakeCommand \/ LoseMessage
              \/ \E i \in Issuers : \/ InterruptIssue(i) \/ SavePublishResult(i)
                                    \/ \E ok \in BOOLEAN : PublishReport(i, ok)
              \/ \E w \in Retriers :
                   \/ StartPass(w) \/ SaveRetry(w) \/ InterruptPass(w)
                   \/ \E r \in Ids, ok \in BOOLEAN : PublishRetry(w, r, ok)
              \/ \E r \in Ids, answer \in Answers : ApplyIssueAck(r, answer)
              \/ UNCHANGED vars
    <2>1. UNCHANGED <<person, told, changes, handlers>>
      BY <1>10 DEF FetchProjectWorkers, TakeCommand, LoseMessage, InterruptIssue, SavePublishResult,
           PublishReport, StartPass, SaveRetry, InterruptPass, PublishRetry, ApplyIssueAck, vars,
           history, bounds
    <2> QED
      BY <1>8, <1>9, <2>1
  <1> QED
    BY <1>5, <1>6, <1>7, <1>8, <1>10 DEF Next, Issuer, Retrier, Disturbance

LEMMA ActionsSay ==
  ASSUME NEW before \in Person, NEW after \in Person, NEW action,
         action = IssueActionAfterChange(before, after)
  PROVE  /\ action \in Actions \cup {"none"}
         /\ action = "none" => Shows(before) = Shows(after)
         /\ action # "none" => Says(action, Shows(after))
  <1>1. before.card # Nobody /\ after.card # Nobody /\ before.active \in BOOLEAN /\ after.active \in BOOLEAN
    BY BoundsAssumption DEF Person, Revs, Nobody
  <1>2. CASE ~ after.active
    BY <1>1, <1>2 DEF IssueActionAfterChange, Actions, Shows, Says
  <1>3. CASE after.active /\ (~ before.active \/ after.card # before.card)
    BY <1>1, <1>3 DEF IssueActionAfterChange, Actions, Shows, Says
  <1>4. CASE after.active /\ before.active /\ after.card = before.card
    BY <1>1, <1>4 DEF IssueActionAfterChange, Actions, Shows, Says
  <1> QED
    BY <1>1, <1>2, <1>3, <1>4

\* What may be the case stays so until it is told again.
LEMMA EndsGoOn ==
  ASSUME Typed, Past, NEW v \in Values, NEW k \in Nat, k <= person.rev, Ends(v, k),
         slips' = {},
         ChangePerson \/ (\E h \in handlers : CompareFields(h)) \/ UNCHANGED <<person, handlers>>
  PROVE  Ends(v, k)'
  <1> USE PersonIsTyped
  <1>1. CASE UNCHANGED <<person, handlers>>
    BY <1>1 DEF Ends, Wrote, Tells
  <1>2. CASE ChangePerson
    <2>1. PICK g \in handlers' : g.stage = "wrote" /\ g.over = person
      BY <1>2, ChangedRow
    <2>2. person'.rev = changes + 1 /\ handlers \subseteq handlers'
      BY <1>2, ChangedRow
    <2>3. k < person'.rev
      BY <2>2 DEF Past
    <2>4. Tells(k) => Tells(k)'
      BY <2>2 DEF Tells
    <2>5. Wrote(v) \/ v = Shows(person) => Wrote(v)'
      BY <2>1, <2>2 DEF Wrote
    <2> QED
      BY <2>3, <2>4, <2>5 DEF Ends
  <1>3. ASSUME NEW h \in handlers, CompareFields(h) PROVE Ends(v, k)'
    <2> DEFINE action == IssueActionAfterChange(h.before, person)
               g == [stage |-> "compared", action |-> action, rev |-> person.rev, over |-> h.over]
    <2>1. /\ handlers' = (handlers \ {h}) \cup (IF action = "none" THEN {} ELSE {g})
          /\ h.stage = "wrote" /\ person' = person
      BY <1>3 DEF CompareFields
    <2>2. g.stage = "compared" /\ g.rev = person.rev
      OBVIOUS
    <2>3. action = "none" => Shows(h.over) = Shows(person)
      <3>1. action = "none" => IssueActionAfterChange(h.over, person) = "none"
        BY <1>3 DEF CompareFields
      <3> QED
        BY <2>1, <3>1, ActionsSay
    <2> HIDE DEF action, g
    <2>4. CASE v = Shows(person)
      BY <2>1, <2>4 DEF Ends
    <2>5. CASE Tells(k)
      BY <2>1, <2>5 DEF Ends, Tells
    <2>6. CASE k < person.rev /\ Wrote(v)
      <3>1. PICK x \in handlers : x.stage = "wrote" /\ Shows(x.over) = v
        BY <2>6 DEF Wrote
      <3>2. CASE x # h
        BY <2>1, <2>6, <3>1, <3>2 DEF Ends, Wrote
      <3>3. CASE x = h /\ action = "none"
        BY <2>1, <2>3, <3>1, <3>3 DEF Ends
      <3>4. CASE x = h /\ action # "none"
        BY <2>1, <2>2, <2>6, <3>4 DEF Ends, Tells
      <3> QED
        BY <3>2, <3>3, <3>4
    <2> QED
      BY <2>4, <2>5, <2>6 DEF Ends
  <1> QED
    BY <1>1, <1>2, <1>3

\* All that goes on between two things told leaves what they say alone.
LEMMA TrackStays ==
  ASSUME Typed, Past, Track, OrdersStay, Ids' = Ids, told' = told, slips' = {},
         ChangePerson \/ (\E h \in handlers : CompareFields(h)) \/ UNCHANGED <<person, handlers>>,
         ToIssue => ToIssue', queue' # <<>> => queue # <<>> /\ Last(queue)' = Last(queue),
         \/ issuing'["operator"] = issuing["operator"] \/ issuing'["operator"].stage # "read"
         \/ FetchProjectWorkers
  PROVE  Track'
  <1> USE PersonIsTyped
  <1>1. PICK k \in Nat : k = told /\ told' = k /\ k <= person.rev
    BY DEF Past
  <1>2. Open \subseteq Open'
    <2> SUFFICES ASSUME NEW v \in Values, Ends(v, told) PROVE Ends(v, told)'
      BY DEF Open
    <2>1. Ends(v, k)
      BY <1>1
    <2>2. Ends(v, k)'
      BY <1>1, <2>1, EndsGoOn
    <2> QED
      BY <1>1, <2>2 DEF Ends, Tells
  <1>3. Undecided => Undecided'
    BY <1>2 DEF Undecided
  <1>4. Announced'
    BY <1>2 DEF Track, Announced
  <1>5. Compared'
    <2> SUFFICES ASSUME NEW h \in handlers', h.stage = "compared", h.rev >= told'
                 PROVE  \E v \in Values : Says(h.action, v) /\ Ends(v, h.rev)'
      BY DEF Compared
    <2>1. CASE h \in handlers
      <3>1. PICK v \in Values : Says(h.action, v) /\ Ends(v, h.rev)
        BY <2>1 DEF Track, Compared
      <3>2. h.rev \in Nat /\ h.rev <= person.rev
        BY <2>1 DEF Past
      <3>3. PICK m \in Nat : m = h.rev /\ m <= person.rev
        BY <3>2
      <3>4. Ends(v, m)'
        BY <3>1, <3>3, EndsGoOn
      <3> QED
        BY <3>1, <3>3, <3>4
    <2>2. CASE h \notin handlers
      <3>1. ~ ChangePerson
        BY <2>2 DEF ChangePerson
      <3>2. PICK c \in handlers : CompareFields(c)
        BY <2>2, <3>1
      <3>3. /\ h.action = IssueActionAfterChange(c.before, person) /\ h.action # "none"
            /\ h.rev = person.rev /\ c.stage = "wrote" /\ person' = person
        BY <2>2, <3>2 DEF CompareFields
      <3>4. Says(h.action, Shows(person)) /\ Shows(person) \in Values
        BY <3>3, ActionsSay
      <3> QED
        BY <3>3, <3>4 DEF Ends
    <2> QED
      BY <2>1, <2>2
  <1>6. Fetched'
    <2> SUFFICES ASSUME issuing'["operator"].stage = "read"
                 PROVE  \/ ToIssue' \/ Undecided'
                        \/ Shows(issuing'["operator"].of) \in Open' \/ Overtaken(issuing["operator"].of.rev)'
      BY DEF Fetched
    <2>1. CASE issuing'["operator"] = issuing["operator"]
      <3>1. Overtaken(issuing["operator"].of.rev) => Overtaken(issuing["operator"].of.rev)'
        BY <2>1 DEF Overtaken, OrdersStay
      <3> QED
        BY <1>2, <1>3, <2>1, <3>1 DEF Track, Fetched
    <2>2. CASE FetchProjectWorkers
      <3>1. issuing'["operator"].of = person /\ person' = person
        BY <2>2 DEF FetchProjectWorkers, Typed, TypeOK, Issuers, Resting
      <3>2. Shows(person) \in Open
        BY DEF Open, Ends
      <3> QED
        BY <1>2, <3>1, <3>2
    <2> QED
      BY <2>1, <2>2
  <1>7. ASSUME NEW r \in Ids PROVE Current(r)'
    <2>1. Current(r)
      BY DEF Track
    <2>2. Does(r)' = Does(r) /\ (Superseded(r) => Superseded(r)')
      BY DEF Does, OrdersStay, Superseded
    <2> QED
      BY <1>2, <1>3, <2>1, <2>2 DEF Current
  <1> QED
    BY <1>4, <1>5, <1>6, <1>7 DEF Track

\* What is enqueued comes last in the queue, and is still to be handled.
LEMMA Enqueued ==
  ASSUME Typed, NEW h \in handlers, EnqueueReissue(h)
  PROVE  ToIssue' /\ queue' # <<>> /\ Last(queue)' = h.action
  <1> DEFINE handled == IF issuing["outbox"].stage = "idle" THEN 0 ELSE 1
             put == [i \in DOMAIN queue |-> IF i > handled THEN h.action ELSE queue[i]]
  <1>1. /\ queue' = IF Len(queue) = handled THEN Append(queue, h.action) ELSE put
        /\ issuing' = issuing /\ h.stage = "compared"
    BY DEF EnqueueReissue, Coalesced
  <1>2. queue \in Seq(Actions) /\ Len(queue) \in Nat /\ Len(queue) >= handled /\ h.action \in Actions
    <2>1. queue \in Seq(Actions) /\ (issuing["outbox"].stage # "idle" => queue # <<>>)
      BY DEF Typed, TypeOK, Handling
    <2>2. h.action \in Actions
      BY <1>1, PersonIsTyped
    <2>3. queue # <<>> => Len(queue) >= 1
      BY <2>1
    <2> QED
      BY <2>1, <2>2, <2>3
  <1>3. handled \in {0, 1} /\ handled' = handled
    BY <1>1
  <1>4. CASE Len(queue) = handled
    <2>1. queue' = Append(queue, h.action)
      BY <1>1, <1>4
    <2>2. Len(queue)' = handled + 1 /\ queue'[handled + 1] = h.action
      BY <1>2, <1>3, <1>4, <2>1
    <2>3. queue' # <<>>
      BY <1>2, <2>1
    <2> QED
      BY <1>3, <2>2, <2>3 DEF ToIssue, Last
  <1>5. CASE Len(queue) > handled
    <2>1. queue' = put /\ \A i \in DOMAIN queue : put[i] \in Actions
      BY <1>1, <1>2, <1>3, <1>5
    <2>2. put \in Seq(Actions) /\ Len(put) = Len(queue)
      <3>1. put = [i \in DOMAIN queue |-> put[i]]
        OBVIOUS
      <3> HIDE DEF put
      <3> QED
        BY <1>2, <2>1, <3>1, TableWritten
    <2>3. Len(queue) \in DOMAIN queue
      BY <1>2, <1>3, <1>5
    <2>4. put[Len(queue)] = h.action
      BY <1>5, <2>3
    <2>5. Len(queue)' > handled /\ queue' # <<>> /\ queue'[Len(queue)'] = h.action
      <3> HIDE DEF put, handled
      <3> QED
        BY <1>2, <1>3, <1>5, <2>1, <2>2, <2>4
    <2> QED
      BY <1>3, <2>5 DEF ToIssue, Last
  <1> HIDE DEF handled, put
  <1>6. Len(queue) = handled \/ Len(queue) > handled
    BY <1>2, <1>3
  <1> QED
    BY <1>4, <1>5, <1>6

LEMMA TrackTold ==
  ASSUME Typed, Past, Track, NEW h \in handlers, EnqueueReissue(h), ~ (h.rev < told)
  PROVE  Track'
  <1> USE PersonIsTyped
  <1>1. /\ h.stage = "compared" /\ handlers' = handlers \ {h} /\ person' = person
        /\ told' = h.rev /\ Ids' = Ids /\ h.rev >= told /\ h.rev \in Nat
    BY DEF EnqueueReissue, ledger
  <1>2. PICK v \in Values : Says(h.action, v) /\ Ends(v, h.rev)
    BY <1>1 DEF Track, Compared
  <1>3. PICK k \in Nat : k = h.rev /\ told' = k
    BY <1>1
  <1>4. ASSUME NEW u \in Values, NEW m \in Nat, m >= k, Ends(u, m) PROVE Ends(u, m)'
    <2>1. Wrote(u) => Wrote(u)'
      BY <1>1 DEF Wrote
    <2>2. Tells(m) => Tells(m)'
      <3>1. \A g \in handlers : g.stage = "compared" /\ g.rev > m => g # h
        BY <1>3, <1>4
      <3> QED
        BY <1>1, <3>1 DEF Tells
    <2> QED
      BY <1>1, <1>4, <2>1, <2>2 DEF Ends
  <1>5. Announced'
    <2>1. Ends(v, k)'
      BY <1>2, <1>3, <1>4
    <2>2. v \in Open'
      BY <1>3, <2>1 DEF Open, Ends, Tells
    <2> QED
      BY <1>2, <2>2, Enqueued DEF Announced
  <1>6. Compared'
    <2> SUFFICES ASSUME NEW g \in handlers', g.stage = "compared", g.rev >= told'
                 PROVE  \E u \in Values : Says(g.action, u) /\ Ends(u, g.rev)'
      BY DEF Compared
    <2>1. PICK m \in Nat : m = g.rev /\ m >= k /\ m >= told
      BY <1>1, <1>3
    <2>2. PICK u \in Values : Says(g.action, u) /\ Ends(u, g.rev)
      BY <1>1, <2>1 DEF Track, Compared
    <2>3. Ends(u, m)'
      BY <1>4, <2>1, <2>2
    <2> QED
      BY <2>1, <2>2, <2>3
  <1> QED
    BY <1>5, <1>6, Enqueued DEF Track, Fetched, Current

\* A report that is inserted while another event waits says what it says.
LEMMA TrackInserted ==
  ASSUME Typed, Past, Track, NEW e, reports' = Append(reports, e), NEW n, n = Len(reports) + 1,
         UNCHANGED <<person, handlers, queue, told>>
  PROVE  /\ Open' = Open /\ Announced' /\ Compared' /\ Ids' = Ids \cup {n} /\ reports'[n] = e
         /\ \A r \in Ids : (ToIssue => ToIssue') => Current(r)'
         /\ \A r \in Ids : e.rev \in Nat /\ e.rev >= reports[r].rev => Superseded(r)'
         /\ \A s \in Ids : reports[s].rev > e.rev => Superseded(n)'
  <1>1. /\ n \in Nat /\ Ids' = Ids \cup {n} /\ n \notin Ids /\ reports'[n] = e
        /\ \A r \in Ids : r \in Nat /\ n > r /\ reports'[r] = reports[r]
    BY Inserted
  <1>2. Open' = Open
    BY DEF Open, Ends, Wrote, Tells
  <1>3. Announced' /\ (Undecided' <=> Undecided)
    BY <1>2 DEF Track, Announced, Undecided
  <1>4. Compared'
    BY DEF Track, Compared, Ends, Wrote, Tells
  <1>5. ASSUME NEW r \in Ids, ToIssue => ToIssue' PROVE Current(r)'
    <2>1. Does(r)' = Does(r)
      BY <1>1 DEF Does
    <2>2. Superseded(r) => Superseded(r)'
      BY <1>1 DEF Superseded
    <2>3. Current(r)
      BY DEF Track
    <2> QED
      BY <1>2, <1>3, <1>5, <2>1, <2>2, <2>3 DEF Current
  <1>6. ASSUME NEW r \in Ids, e.rev \in Nat, e.rev >= reports[r].rev PROVE Superseded(r)'
    <2>1. reports[r].rev \in Nat
      BY PersonIsTyped
    <2>2. PICK k, m \in Nat : k = e.rev /\ m = reports[r].rev /\ (k > m \/ k = m)
      BY <1>6, <2>1
    <2>3. reports'[n].rev = k /\ reports'[r].rev = m /\ n > r /\ n \in Ids'
      BY <1>1, <2>2
    <2> QED
      BY <2>2, <2>3 DEF Superseded
  <1>7. ASSUME NEW s \in Ids, reports[s].rev > e.rev PROVE Superseded(n)'
    BY <1>1, <1>7 DEF Superseded
  <1> QED
    BY <1>1, <1>2, <1>3, <1>4, <1>5, <1>6, <1>7

\* Inserting leaves what waits to be issued alone, unless it takes the last event.
LEMMA InsertWaits ==
  ASSUME Typed, NEW i \in Issuers, NEW action, NEW of, InsertReport(i, action, of), queue' = queue,
         i = "outbox" => issuing["outbox"].stage = "idle" /\ Len(queue) > 1,
         ToIssue
  PROVE  ToIssue'
  <1>1. CASE i = "operator"
    <2>1. issuing'["outbox"] = issuing["outbox"]
      BY <1>1 DEF InsertReport, Typed, TypeOK, Issuers
    <2> QED
      BY <2>1 DEF ToIssue
  <1>2. CASE i = "outbox"
    <2>1. Len(queue)' > 1
      BY <1>2
    <2> QED
      BY <2>1 DEF ToIssue, Typed, TypeOK
  <1> QED
    BY <1>1, <1>2 DEF Issuers

LEMMA TrackIssued ==
  ASSUME Typed, Past, Track, IssueSingleWorker
  PROVE  Track'
  <1>1. /\ queue # <<>> /\ issuing["outbox"].stage = "idle" /\ UNCHANGED <<person, handlers, told>>
        /\ queue \in Seq(Actions) /\ Len(queue) \in Nat
    BY DEF IssueSingleWorker, Typed, TypeOK
  <1>2. Len(queue) >= 1 /\ Head(queue) \in Actions /\ (Len(queue) = 1 => Last(queue) = Head(queue))
        /\ ToIssue
    BY <1>1 DEF Last, ToIssue
  <1>3. Shows(person) \in Open
    BY PersonIsTyped DEF Open, Ends
  <1>4. PICK v \in Open : Says(Last(queue), v)
    BY <1>1 DEF Track, Announced
  <1>5. Len(queue) = 1 \/ Len(queue) > 1
    <2> DEFINE l == Len(queue)
    <2>1. l \in Nat /\ l >= 1
      BY <1>1, <1>2
    <2> HIDE DEF l
    <2>2. l = 1 \/ l > 1
      BY <2>1
    <2> QED
      BY <2>2 DEF l
  <1>6. CASE /\ person.active \/ Head(queue) = "delete"
             /\ InsertReport("outbox", Head(queue), person) /\ queue' = queue
    <2>1. PICK action, of : /\ action = Head(queue) /\ of = person
                            /\ InsertReport("outbox", action, of)
      BY <1>6
    <2>2. PICK e, n : /\ reports' = Append(reports, e) /\ n = Len(reports) + 1
                      /\ e.action = action /\ e.rev = of.rev /\ e.card = of.card
      BY <2>1, InsertIs
    <2>3. /\ Open' = Open /\ Announced' /\ Compared' /\ Ids' = Ids \cup {n} /\ reports'[n] = e
          /\ \A r \in Ids : (ToIssue => ToIssue') => Current(r)'
          /\ \A r \in Ids : e.rev \in Nat /\ e.rev >= reports[r].rev => Superseded(r)'
      <3>1. UNCHANGED <<person, handlers, queue, told>>
        BY <1>1, <1>6
      <3> QED
        BY <2>2, <3>1, TrackInserted
    <2>4. CASE Len(queue) > 1
      <3>1. "outbox" \in Issuers /\ queue' = queue
        BY <1>6 DEF Issuers
      <3>2. ToIssue'
        BY <1>1, <1>2, <2>1, <2>4, <3>1, InsertWaits
      <3> QED
        BY <2>3, <3>2 DEF Track, Fetched, Current
    <2>5. CASE Len(queue) = 1
      <3>1. e.rev = person.rev /\ e.rev \in Nat /\ \A r \in Ids : e.rev >= reports[r].rev
        <4>1. e.rev = person.rev /\ person.rev \in Nat
          BY <2>1, <2>2, PersonIsTyped
        <4>2. \A r \in Ids : reports[r].rev \in Nat /\ reports[r].rev <= person.rev
          BY PersonIsTyped DEF Past
        <4> QED
          BY <4>1, <4>2
      <3>2. \A r \in Ids : Current(r)'
        BY <2>3, <3>1 DEF Current
      <3>3. Does(n)' \in Open
        <4>1. Does(n)' = IF action = "delete" THEN Nobody ELSE person.card
          BY <2>1, <2>2, <2>3 DEF Does
        <4>2. CASE action = "delete"
          BY <1>2, <1>4, <2>1, <2>5, <4>1, <4>2 DEF Says
        <4>3. CASE action # "delete"
          BY <1>3, <1>6, <2>1, <4>1, <4>3 DEF Shows
        <4> QED
          BY <4>2, <4>3
      <3>4. Current(n)'
        BY <2>3, <3>3 DEF Current
      <3>5. Fetched'
        <4>1. issuing'["operator"] = issuing["operator"]
          BY <2>1 DEF InsertReport, Typed, TypeOK, Issuers
        <4> SUFFICES ASSUME issuing["operator"].stage = "read"
                     PROVE  \/ Shows(issuing["operator"].of) \in Open'
                            \/ \E s \in Ids' : reports'[s].rev > issuing["operator"].of.rev
          BY <4>1 DEF Fetched, Overtaken
        <4>2. CASE issuing["operator"].of.rev = person.rev
          BY <1>3, <2>3, <4>2 DEF Past
        <4>3. CASE issuing["operator"].of.rev # person.rev
          <5>1. issuing["operator"].of.rev < person.rev
            BY <4>3, PersonIsTyped DEF Past
          <5>2. n \in Ids' /\ reports'[n].rev = person.rev
            BY <2>3, <3>1
          <5> QED
            BY <5>1, <5>2
        <4> QED
          BY <4>2, <4>3
      <3> QED
        BY <2>3, <3>2, <3>4, <3>5 DEF Track
    <2> QED
      BY <1>5, <2>4, <2>5
  <1>7. CASE /\ ~ person.active /\ Head(queue) = "update" /\ queue' = Tail(queue)
             /\ UNCHANGED <<issuing, reports>>
    <2>1. Open' = Open
      BY <1>1 DEF Open, Ends, Wrote, Tells
    <2>2. Compared'
      BY <1>1 DEF Track, Compared, Ends, Wrote, Tells
    <2>3. CASE Len(queue) > 1
      <3>1. Len(queue)' = Len(queue) - 1 /\ queue'[Len(queue)'] = queue[Len(queue)]
        BY <1>1, <1>7, <2>3
      <3>2. Last(queue)' = Last(queue)
        BY <3>1 DEF Last
      <3>3. ToIssue'
        BY <1>1, <1>7, <2>3, <3>1 DEF ToIssue
      <3>4. Announced'
        BY <1>4, <2>1, <3>2 DEF Announced
      <3> QED
        BY <2>2, <3>3, <3>4 DEF Track, Fetched, Current
    <2>4. CASE Len(queue) = 1
      <3>1. queue' = <<>>
        BY <1>1, <1>7, <2>4
      <3>2. Announced'
        BY <1>4, <2>1, <3>1 DEF Announced
      <3>3. Shows(person) = Nobody /\ v # Nobody
        BY <1>2, <1>4, <1>7, <2>4 DEF Shows, Says
      <3>4. Undecided'
        BY <1>3, <2>1, <3>3 DEF Undecided
      <3> QED
        BY <2>2, <3>2, <3>4 DEF Track, Fetched, Current
    <2> QED
      BY <1>5, <2>3, <2>4
  <1> QED
    BY <1>6, <1>7 DEF IssueSingleWorker

LEMMA TrackFetched ==
  ASSUME Typed, Past, Track, IssueFetched
  PROVE  Track'
  <1>1. PICK of : /\ of = issuing["operator"].of /\ issuing["operator"].stage = "read"
                  /\ InsertReport("operator", "update", of)
    BY DEF IssueFetched
  <1>2. UNCHANGED <<person, handlers, queue, told>> /\ of.active
    BY <1>1 DEF IssueFetched, Past
  <1>3. PICK e, n : /\ reports' = Append(reports, e) /\ n = Len(reports) + 1
                    /\ e.action = "update" /\ e.rev = of.rev /\ e.card = of.card
    BY <1>1, InsertIs
  <1>4. /\ Open' = Open /\ Announced' /\ Compared' /\ Ids' = Ids \cup {n} /\ reports'[n] = e
        /\ \A r \in Ids : (ToIssue => ToIssue') => Current(r)'
        /\ \A s \in Ids : reports[s].rev > e.rev => Superseded(n)'
    BY <1>2, <1>3, TrackInserted
  <1>5. ToIssue => ToIssue'
    <2>1. "operator" \in Issuers /\ queue' = queue
      BY <1>2 DEF Issuers
    <2> QED
      BY <1>1, <2>1, InsertWaits
  <1>6. Fetched'
    <2>1. issuing'["operator"].stage = "inserted"
      BY <1>1 DEF InsertReport, Typed, TypeOK, Issuers, Resting
    <2> QED
      BY <2>1 DEF Fetched
  <1>7. Current(n)'
    <2>1. Does(n)' = Shows(of)
      BY <1>2, <1>3, <1>4 DEF Does, Shows
    <2>2. ToIssue \/ Undecided \/ Shows(of) \in Open \/ Overtaken(of.rev)
      BY <1>1 DEF Track, Fetched
    <2>3. CASE Overtaken(of.rev)
      BY <1>3, <1>4, <2>3 DEF Overtaken, Current
    <2>4. CASE ToIssue
      BY <1>5, <2>4 DEF Current
    <2>5. CASE Undecided
      BY <1>4, <2>5 DEF Undecided, Current
    <2>6. CASE Shows(of) \in Open
      BY <1>4, <2>1, <2>6 DEF Current
    <2> QED
      BY <2>2, <2>3, <2>4, <2>5, <2>6
  <1> QED
    BY <1>4, <1>5, <1>6, <1>7 DEF Track

LEMMA SlipsStay == ASSUME [Next]_vars PROVE slips \subseteq slips'
  <1>1. ASSUME NEW h \in handlers, CompareFields(h) \/ EnqueueReissue(h) \/ ForgetReissue(h)
        PROVE  slips \subseteq slips'
    BY <1>1 DEF CompareFields, EnqueueReissue, ForgetReissue
  <1>2. ASSUME NEW r, NEW ok, Publish(r, ok) PROVE slips \subseteq slips'
    BY <1>2 DEF Publish
  <1>3. CASE slips' = slips
    BY <1>3
  <1>4. CASE \/ \E i \in Issuers : \E ok \in BOOLEAN : PublishReport(i, ok)
             \/ \E w \in Retriers : \E r \in Ids, ok \in BOOLEAN : PublishRetry(w, r, ok)
    BY <1>2, <1>4 DEF PublishReport, PublishRetry
  <1>5. CASE \/ ChangePerson \/ FetchProjectWorkers \/ TakeCommand \/ LoseMessage
             \/ IssueSingleWorker \/ IssueFetched
             \/ \E i \in Issuers : InterruptIssue(i) \/ SavePublishResult(i)
             \/ \E w \in Retriers : StartPass(w) \/ SaveRetry(w) \/ InterruptPass(w)
             \/ \E r \in Ids, answer \in Answers : ApplyIssueAck(r, answer)
             \/ UNCHANGED vars
    BY <1>3, <1>5 DEF ChangePerson, FetchProjectWorkers, TakeCommand, LoseMessage,
         IssueSingleWorker, IssueFetched, InterruptIssue, SavePublishResult, StartPass, SaveRetry,
         InterruptPass, ApplyIssueAck, vars, history
  <1> QED
    BY <1>1, <1>4, <1>5 DEF Next, Issuer, Retrier, Disturbance

\* What was told, what is to be issued and what the reports say stay together.
LEMMA TrackStep ==
  ASSUME Typed, Past, slips = {} => Track, [Next]_vars, slips' = {}
  PROVE  Track'
  <1>1. Track
    BY SlipsStay
  <1>2. OrdersStay /\ (Ids' = Ids \/ IssueSingleWorker \/ IssueFetched)
    BY OrdersAreKept
  <1>3. \/ issuing'["operator"] = issuing["operator"] \/ issuing'["operator"].stage # "read"
        \/ FetchProjectWorkers
    BY OperatorStays
  <1>4. CASE IssueSingleWorker \/ IssueFetched
    BY <1>1, <1>4, TrackIssued, TrackFetched
  <1>5. ASSUME NEW h \in handlers, EnqueueReissue(h) PROVE Track'
    <2>1. ~ (h.rev < told)
      BY <1>5 DEF EnqueueReissue
    <2> QED
      BY <1>1, <1>5, <2>1, TrackTold
  <1>6. ASSUME NEW h \in handlers, ForgetReissue(h) PROVE Track'
    BY <1>6 DEF ForgetReissue
  <1>7. ASSUME told' = told, queue' = queue, ToIssue => ToIssue', ~ IssueSingleWorker, ~ IssueFetched,
               ChangePerson \/ (\E h \in handlers : CompareFields(h)) \/ UNCHANGED <<person, handlers>>
        PROVE  Track'
    <2>1. Last(queue)' = Last(queue)
      BY <1>7 DEF Last
    <2> QED
      BY <1>1, <1>2, <1>3, <1>7, <2>1, TrackStays
  <1>8. ASSUME NEW i \in Issuers, SavePublishResult(i) PROVE Track'
    <2>1. UNCHANGED <<person, handlers, told>> /\ Ids' = Ids
          /\ issuing' = [issuing EXCEPT ![i] = Resting] /\ issuing[i].stage = "sent"
      BY <1>8 DEF SavePublishResult
    <2>2. CASE i = "operator"
      <3>1. queue' = queue /\ issuing'["outbox"] = issuing["outbox"]
        BY <1>8, <2>1, <2>2 DEF SavePublishResult, Typed, TypeOK, Issuers
      <3>2. ToIssue => ToIssue'
        BY <3>1 DEF ToIssue
      <3>3. Last(queue)' = Last(queue)
        BY <3>1 DEF Last
      <3> QED
        BY <1>1, <1>2, <1>3, <2>1, <3>1, <3>2, <3>3, TrackStays
    <2>3. CASE i = "outbox"
      <3>1. queue' = Tail(queue) /\ queue \in Seq(Actions) /\ queue # <<>>
            /\ issuing'["outbox"].stage = "idle" /\ issuing["outbox"].stage = "sent"
        BY <1>8, <2>1, <2>3 DEF SavePublishResult, Typed, TypeOK, Issuers, Resting, Handling
      <3>2. ToIssue => ToIssue'
        BY <3>1 DEF ToIssue
      <3>3. ASSUME queue' # <<>> PROVE Last(queue)' = Last(queue)
        <4>1. Len(queue)' = Len(queue) - 1 /\ Len(queue) \in Nat /\ Len(queue) > 1
          BY <3>1, <3>3
        <4>2. queue'[Len(queue)'] = queue[Len(queue)]
          BY <3>1, <4>1
        <4> QED
          BY <4>2 DEF Last
      <3> QED
        BY <1>1, <1>2, <1>3, <2>1, <3>1, <3>2, <3>3, TrackStays
    <2> QED
      BY <2>2, <2>3 DEF Issuers
  <1>9. ASSUME NEW i \in Issuers, InterruptIssue(i) PROVE Track'
    <2>1. /\ UNCHANGED <<person, handlers, queue, told>> /\ Ids' = Ids
          /\ issuing' = [issuing EXCEPT ![i] = Resting]
      BY <1>9 DEF InterruptIssue, history, ledger
    <2>2. issuing'["outbox"] = issuing["outbox"] \/ issuing'["outbox"].stage = "idle"
      BY <2>1 DEF Typed, TypeOK, Issuers, Resting
    <2>3. ToIssue => ToIssue'
      BY <2>1, <2>2 DEF ToIssue, Typed, TypeOK
    <2>4. Last(queue)' = Last(queue)
      BY <2>1 DEF Last
    <2> QED
      BY <1>1, <1>2, <1>3, <2>1, <2>3, <2>4, TrackStays
  <1>10. ASSUME NEW i \in Issuers, NEW ok \in BOOLEAN, PublishReport(i, ok) PROVE Track'
    <2>1. UNCHANGED <<person, handlers, queue, told>> /\ Ids' = Ids
      BY <1>10 DEF PublishReport
    <2>2. issuing'["outbox"].stage = "idle" <=> issuing["outbox"].stage = "idle"
      BY <1>10 DEF PublishReport, Typed, TypeOK, Issuers, Issuing
    <2>3. ToIssue => ToIssue'
      BY <2>1, <2>2 DEF ToIssue
    <2>4. Last(queue)' = Last(queue)
      BY <2>1 DEF Last
    <2> QED
      BY <1>1, <1>2, <1>3, <2>1, <2>3, <2>4, TrackStays
  <1>11. CASE \/ ChangePerson \/ FetchProjectWorkers \/ TakeCommand \/ LoseMessage
              \/ \E h \in handlers : CompareFields(h)
              \/ \E w \in Retriers :
                   \/ StartPass(w) \/ SaveRetry(w) \/ InterruptPass(w)
                   \/ \E r \in Ids, ok \in BOOLEAN : PublishRetry(w, r, ok)
              \/ \E r \in Ids, answer \in Answers : ApplyIssueAck(r, answer)
              \/ UNCHANGED vars
    <2>1. /\ UNCHANGED <<queue, told>>
          /\ ChangePerson \/ (\E h \in handlers : CompareFields(h)) \/ UNCHANGED <<person, handlers>>
          /\ issuing' = issuing \/ FetchProjectWorkers
      BY <1>11 DEF ChangePerson, FetchProjectWorkers, TakeCommand, LoseMessage, CompareFields,
         StartPass, SaveRetry, InterruptPass, PublishRetry, ApplyIssueAck, vars, history
    <2>2. issuing'["outbox"] = issuing["outbox"]
      BY <2>1 DEF FetchProjectWorkers, Typed, TypeOK, Issuers
    <2>3. ToIssue => ToIssue'
      BY <2>1, <2>2 DEF ToIssue
    <2> QED
      BY <1>4, <1>7, <2>1, <2>3
  <1> QED
    BY <1>4, <1>5, <1>6, <1>8, <1>9, <1>10, <1>11 DEF Next, Issuer, Retrier, Disturbance

-----------------------------------------------------------------------------
(* Arrivals, as long as no command overtook another: the topic is in the   *)
(* order of the commands and of the states they tell, and the device shows *)
(* the last of those that were taken.                                      *)

NotLater(r, s) == r <= s /\ reports[r].rev <= reports[s].rev
Orderly ==
  \A i \in DOMAIN topic :
    sent[topic[i]] > 0 /\ \A j \in DOMAIN topic : i < j => NotLater(topic[i], topic[j])
Done(r) == <<r, "success">> \in acks \/ verdict[r] = "success"
Showing(k) ==
  /\ sent[k] > 0 /\ device = Does(k)
  /\ \A r \in Ids : Done(r) => NotLater(r, k)
  /\ \A i \in DOMAIN topic : NotLater(k, topic[i])
Arrived == Orderly /\ ((device = 0 /\ \A r \in Ids : ~ Done(r)) \/ \E k \in Ids : Showing(k))

Follows == Typed /\ Past /\ (slips = {} => Track /\ Arrived)

LEMMA TopicIs ==
  ASSUME Typed
  PROVE  /\ topic \in Seq(Ids) /\ Len(topic) \in Nat /\ DOMAIN topic = 1..Len(topic)
         /\ \A i \in DOMAIN topic : topic[i] \in Ids
         /\ \A r \in Ids : sent[r] \in Nat /\ r \in Nat /\ reports[r].rev \in Nat
  BY PersonIsTyped DEF Typed, TypeOK

\* What leaves a sequence or is appended to it, and where that puts the rest.
LEMMA TailMoves ==
  ASSUME NEW s \in Seq(Nat), s # <<>>, NEW t, t = Tail(s)
  PROVE  /\ \A i \in DOMAIN t : i + 1 \in DOMAIN s /\ t[i] = s[i + 1] /\ i \in Nat /\ i >= 1
         /\ 1 \in DOMAIN s /\ Head(s) = s[1]
OBVIOUS

LEMMA AppendMoves ==
  ASSUME NEW s \in Seq(Nat), NEW r \in Nat, NEW t, t = Append(s, r), NEW l, l = Len(s) + 1
  PROVE  /\ l \in Nat
         /\ \A i \in DOMAIN t : i \in Nat /\ i <= l /\ ((i \in DOMAIN s /\ t[i] = s[i]) \/ (i = l /\ t[i] = r))
OBVIOUS

LEMMA NotLaterStays ==
  ASSUME OrdersStay, NEW r \in Ids, NEW s \in Ids, NotLater(r, s)
  PROVE  NotLater(r, s)'
  BY DEF OrdersStay, NotLater

LEMMA ArrivedStays ==
  ASSUME Typed, Arrived, OrdersStay, device' = device,
         \A r \in Ids : sent[r] > 0 => sent'[r] > 0,
         \A r \in Ids' : Done(r)' => r \in Ids /\ Done(r),
         \/ topic' = topic
         \/ topic # <<>> /\ topic' = Tail(topic)
         \/ \E r \in Ids : /\ topic' = Append(topic, r) /\ sent'[r] > 0
                           /\ \A s \in Ids : sent[s] > 0 => NotLater(s, r)
  PROVE  Arrived'
  <1>1. ASSUME NEW r \in Ids, NEW s \in Ids, NotLater(r, s) PROVE NotLater(r, s)'
    BY <1>1, NotLaterStays
  <1>2. topic \in Seq(Nat) /\ \A i \in DOMAIN topic : topic[i] \in Ids
    BY TopicIs
  <1>3. PICK t : t = topic'
    OBVIOUS
  <1>4. CASE topic' = topic
    <2>1. Orderly'
      BY <1>1, <1>2, <1>4 DEF Arrived, Orderly
    <2>2. ASSUME NEW k \in Ids, Showing(k) PROVE Showing(k)'
      <3>1. Does(k)' = Does(k) /\ Ids \subseteq Ids'
        BY DEF Does, OrdersStay
      <3> QED
        BY <1>1, <1>2, <1>4, <2>2, <3>1 DEF Showing
    <2> QED
      BY <2>1, <2>2 DEF Arrived, OrdersStay
  <1>5. CASE topic # <<>> /\ topic' = Tail(topic)
    <2>1. \A i \in DOMAIN t : i + 1 \in DOMAIN topic /\ t[i] = topic[i + 1] /\ i \in Nat
      BY <1>2, <1>3, <1>5, TailMoves
    <2>2. Orderly'
      <3>1. \A i \in DOMAIN t : sent'[t[i]] > 0
        BY <1>2, <2>1 DEF Arrived, Orderly
      <3>2. \A i, j \in DOMAIN t : i < j => NotLater(t[i], t[j])
        BY <2>1 DEF Arrived, Orderly
      <3>3. \A i, j \in DOMAIN t : i < j => NotLater(t[i], t[j])'
        BY <1>1, <1>2, <2>1, <3>2
      <3> QED
        BY <1>3, <3>1, <3>3 DEF Orderly, NotLater
    <2>3. ASSUME NEW k \in Ids, Showing(k) PROVE Showing(k)'
      <3>1. Does(k)' = Does(k) /\ Ids \subseteq Ids'
        BY DEF Does, OrdersStay
      <3>2. \A i \in DOMAIN t : NotLater(k, t[i])'
        BY <1>1, <1>2, <2>1, <2>3 DEF Showing
      <3>3. \A r \in Ids' : Done(r)' => NotLater(r, k)'
        BY <1>1, <2>3 DEF Showing
      <3> QED
        BY <1>3, <2>3, <3>1, <3>2, <3>3 DEF Showing, NotLater
    <2> QED
      BY <2>2, <2>3 DEF Arrived, OrdersStay
  <1>6. CASE \E r \in Ids : /\ topic' = Append(topic, r) /\ sent'[r] > 0
                            /\ \A s \in Ids : sent[s] > 0 => NotLater(s, r)
    <2>1. PICK r \in Ids : /\ topic' = Append(topic, r) /\ sent'[r] > 0
                           /\ \A s \in Ids : sent[s] > 0 => NotLater(s, r)
      BY <1>6
    <2>2. PICK q, l : q = topic /\ l = Len(q) + 1 /\ q \in Seq(Nat) /\ t = Append(q, r) /\ r \in Nat
      BY <1>2, <1>3, <2>1, TopicIs
    <2>3. l \in Nat /\ \A i \in DOMAIN t : i \in Nat /\ i <= l
      BY <2>2, AppendMoves
    <2>4. \A i \in DOMAIN t : (i \in DOMAIN topic /\ t[i] = topic[i]) \/ (i = l /\ t[i] = r)
      <3>1. \A i \in DOMAIN t : (i \in DOMAIN q /\ t[i] = q[i]) \/ (i = l /\ t[i] = r)
        BY <2>2, AppendMoves
      <3>2. q = topic
        BY <2>2
      <3> QED
        BY <3>1, <3>2
    <2>5. Orderly'
      <3>1. \A i \in DOMAIN t : sent'[t[i]] > 0
        BY <1>2, <2>1, <2>4 DEF Arrived, Orderly
      <3>2. \A i, j \in DOMAIN t : i < j => NotLater(t[i], t[j])
        <4> SUFFICES ASSUME NEW i \in DOMAIN t, NEW j \in DOMAIN t, i < j PROVE NotLater(t[i], t[j])
          OBVIOUS
        <4>1. i \in DOMAIN topic /\ t[i] = topic[i]
          BY <2>3, <2>4
        <4>2. CASE j \in DOMAIN topic /\ t[j] = topic[j]
          BY <4>1, <4>2 DEF Arrived, Orderly
        <4>3. CASE t[j] = r
          BY <1>2, <2>1, <4>1, <4>3 DEF Arrived, Orderly
        <4> QED
          BY <2>4, <4>2, <4>3
      <3>3. \A i, j \in DOMAIN t : i < j => NotLater(t[i], t[j])'
        BY <1>1, <1>2, <2>4, <3>2
      <3> QED
        BY <1>3, <3>1, <3>3 DEF Orderly, NotLater
    <2>6. ASSUME NEW k \in Ids, Showing(k) PROVE Showing(k)'
      <3>1. Does(k)' = Does(k) /\ Ids \subseteq Ids'
        BY DEF Does, OrdersStay
      <3>2. \A i \in DOMAIN t : NotLater(k, t[i])
        BY <2>1, <2>4, <2>6 DEF Showing
      <3>3. \A i \in DOMAIN t : NotLater(k, t[i])'
        BY <1>1, <1>2, <2>4, <3>2
      <3>4. \A x \in Ids' : Done(x)' => NotLater(x, k)'
        BY <1>1, <2>6 DEF Showing
      <3> QED
        BY <1>3, <2>6, <3>1, <3>3, <3>4 DEF Showing, NotLater
    <2> QED
      BY <2>5, <2>6 DEF Arrived, OrdersStay
  <1> QED
    BY <1>4, <1>5, <1>6

\* A command that is published overtakes none.
LEMMA Published ==
  ASSUME Typed, Arrived, NEW r \in Ids, NEW ok \in BOOLEAN, Publish(r, ok), slips' = {}, slips = {},
         OrdersStay, Ids' = Ids, UNCHANGED <<device, acks, verdict>>
  PROVE  Arrived'
  <1>1. sent' = [sent EXCEPT ![r] = @ + 1] /\ sent \in [Ids -> Nat]
    BY DEF Publish, Typed, TypeOK
  <1>2. sent'[r] > 0 /\ \A s \in Ids : sent[s] > 0 => sent'[s] > 0
    BY <1>1
  <1>3. \A s \in Ids : Done(s)' => s \in Ids /\ Done(s)
    BY DEF Done
  <1>4. topic' = topic \/ (topic' = Append(topic, r) /\ ~ Overtakes(r))
    BY DEF Publish
  <1>5. ASSUME ~ Overtakes(r), NEW s \in Ids, sent[s] > 0 PROVE NotLater(s, r)
    <2>1. PICK k, m \in Nat : k = reports[s].rev /\ m = reports[r].rev
      BY PersonIsTyped
    <2>2. s \in Nat /\ r \in Nat /\ ~ (s > r) /\ ~ (k > m)
      BY <1>5, <2>1, PersonIsTyped DEF Overtakes
    <2> QED
      BY <2>1, <2>2 DEF NotLater
  <1> QED
    BY <1>2, <1>3, <1>4, <1>5, ArrivedStays

\* The device takes the first of the topic, which is the last it has taken.
LEMMA Taken ==
  ASSUME Typed, Arrived, TakeCommand
  PROVE  Arrived'
  <1>1. /\ OrdersStay /\ Ids' = Ids /\ topic # <<>> /\ topic' = Tail(topic)
        /\ UNCHANGED <<reports, sent, verdict>>
    BY DEF TakeCommand, history, OrdersStay
  <1>2. CASE device' = device /\ acks' = acks \cup {<<Head(topic), "failed">>}
    <2>1. \A r \in Ids' : Done(r)' => r \in Ids /\ Done(r)
      BY <1>1, <1>2 DEF Done
    <2> QED
      BY <1>1, <1>2, <2>1, ArrivedStays
  <1>3. CASE /\ device' = IF reports[Head(topic)].action = "delete" THEN Nobody ELSE reports[Head(topic)].card
             /\ acks' = acks \cup {<<Head(topic), "success">>}
    <2>1. PICK t, k : t = topic' /\ k = Head(topic)
      OBVIOUS
    <2>2. topic \in Seq(Nat) /\ \A i \in DOMAIN topic : topic[i] \in Ids
      BY TopicIs
    <2>3. /\ \A i \in DOMAIN t : i + 1 \in DOMAIN topic /\ t[i] = topic[i + 1] /\ i \in Nat /\ i >= 1
          /\ 1 \in DOMAIN topic /\ k = topic[1]
      BY <1>1, <2>1, <2>2, TailMoves
    <2>4. k \in Ids /\ sent[k] > 0
      BY <2>2, <2>3 DEF Arrived, Orderly
    <2>5. device' = Does(k)' /\ \A r \in Ids : Done(r)' => Done(r) \/ r = k
      BY <1>1, <1>3, <2>1 DEF Does, Done
    <2>6. \A r \in Ids : Done(r) => NotLater(r, k)
      <3>1. CASE \A r \in Ids : ~ Done(r)
        BY <3>1
      <3>2. ASSUME NEW m \in Ids, Showing(m), NEW r \in Ids, Done(r) PROVE NotLater(r, k)
        <4>1. NotLater(r, m) /\ NotLater(m, k)
          BY <2>3, <3>2 DEF Showing
        <4>2. \A x \in Ids : x \in Nat /\ reports[x].rev \in Nat
          BY TopicIs
        <4>3. PICK a, b, c \in Nat : a = reports[r].rev /\ b = reports[m].rev /\ c = reports[k].rev
          BY <2>4, <4>2
        <4>4. r <= m /\ m <= k /\ a <= b /\ b <= c
          BY <4>1, <4>3 DEF NotLater
        <4>5. r <= k /\ a <= c
          BY <2>4, <4>2, <4>3, <4>4
        <4> QED
          BY <4>3, <4>5 DEF NotLater
      <3> QED
        BY <3>1, <3>2 DEF Arrived
    <2>7. NotLater(k, k)
      BY <2>4, TopicIs DEF NotLater
    <2>8. \A i \in DOMAIN t : NotLater(k, t[i])
      <3> SUFFICES ASSUME NEW i \in DOMAIN t PROVE NotLater(topic[1], topic[i + 1])
        BY <2>3
      <3>1. 1 < i + 1 /\ i + 1 \in DOMAIN topic /\ 1 \in DOMAIN topic
        BY <2>3
      <3> QED
        BY <3>1 DEF Arrived, Orderly
    <2>9. Orderly'
      <3>1. \A i \in DOMAIN t : sent[t[i]] > 0
        BY <2>3 DEF Arrived, Orderly
      <3>2. \A i, j \in DOMAIN t : i < j => NotLater(t[i], t[j])
        <4> SUFFICES ASSUME NEW i \in DOMAIN t, NEW j \in DOMAIN t, i < j
                     PROVE  NotLater(topic[i + 1], topic[j + 1])
          BY <2>3
        <4>1. i + 1 < j + 1 /\ i + 1 \in DOMAIN topic /\ j + 1 \in DOMAIN topic
          BY <2>3
        <4> QED
          BY <4>1 DEF Arrived, Orderly
      <3> QED
        BY <1>1, <2>1, <3>1, <3>2 DEF Orderly, NotLater
    <2>10. Showing(k)'
      BY <1>1, <2>1, <2>4, <2>5, <2>6, <2>7, <2>8 DEF Showing, NotLater
    <2> QED
      BY <1>1, <2>4, <2>9, <2>10 DEF Arrived
  <1> QED
    BY <1>2, <1>3 DEF TakeCommand

LEMMA ArrivedStep ==
  ASSUME Typed, slips = {} => Arrived, [Next]_vars, slips' = {}
  PROVE  Arrived'
  <1>1. Arrived /\ slips = {}
    BY SlipsStay
  <1>2. OrdersStay /\ (Ids' = Ids \/ IssueSingleWorker \/ IssueFetched)
    BY OrdersAreKept
  <1>3. CASE UNCHANGED <<topic, acks, device, sent, verdict>> /\ Ids' = Ids
    <2>1. \A r \in Ids' : Done(r)' => r \in Ids /\ Done(r)
      BY <1>3 DEF Done
    <2> QED
      BY <1>1, <1>2, <1>3, <2>1, ArrivedStays
  <1>4. CASE IssueSingleWorker \/ IssueFetched
    <2>1. \/ UNCHANGED <<topic, acks, device, sent, verdict, reports>>
          \/ \E i, action, of : InsertReport(i, action, of) /\ UNCHANGED <<topic, acks, device>>
      BY <1>4 DEF IssueSingleWorker, IssueFetched
    <2>2. ASSUME NEW i, NEW action, NEW of, InsertReport(i, action, of), UNCHANGED <<topic, acks, device>>
          PROVE  Arrived'
      <3>1. PICK e, n : reports' = Append(reports, e) /\ n = Len(reports) + 1
        BY <2>2, InsertIs
      <3>2. Ids' = Ids \cup {n} /\ n \notin Ids
        BY <3>1, Inserted
      <3>3. /\ \A r \in Ids : sent'[r] = sent[r] /\ verdict'[r] = verdict[r]
            /\ verdict'[n] = "none"
        <4>1. Ids = 1..Len(reports) /\ Len(reports) \in Nat
          BY IdsAreNumbers, ReportsAreTyped
        <4>2. sent \in [1..Len(reports) -> Nat]
              /\ verdict \in [1..Len(reports) -> Answers \cup {"none", "overwritten"}]
          BY <4>1 DEF Typed, TypeOK
        <4>3. /\ sent \in Seq(Nat) /\ verdict \in Seq(Answers \cup {"none", "overwritten"})
              /\ Len(sent) = Len(reports) /\ Len(verdict) = Len(reports)
          BY <4>1, <4>2, SequencesAreFunctions
        <4>4. sent' = Append(sent, 0) /\ verdict' = Append(verdict, "none")
          BY <2>2 DEF InsertReport
        <4> QED
          BY <3>1, <4>1, <4>3, <4>4
      <3>4. <<n, "success">> \notin acks
        BY <3>2 DEF Typed, TypeOK
      <3>5. \A r \in Ids' : Done(r)' => r \in Ids /\ Done(r)
        BY <2>2, <3>2, <3>3, <3>4 DEF Done
      <3> QED
        BY <1>1, <1>2, <2>2, <3>3, <3>5, ArrivedStays
    <2> QED
      BY <1>3, <2>1, <2>2
  <1>5. CASE \/ \E i \in Issuers : \E ok \in BOOLEAN : PublishReport(i, ok)
             \/ \E w \in Retriers : \E r \in Ids, ok \in BOOLEAN : PublishRetry(w, r, ok)
    <2>1. PICK r \in Ids, ok \in BOOLEAN : Publish(r, ok) /\ UNCHANGED <<reports, device, acks, verdict>>
      BY <1>5 DEF PublishReport, PublishRetry, Typed, Firsts, Publishing
    <2>2. Ids' = Ids /\ UNCHANGED <<device, acks, verdict>>
      BY <2>1
    <2> QED
      BY <1>1, <1>2, <2>1, <2>2, Published
  <1>6. CASE LoseMessage
    <2>1. /\ UNCHANGED <<device, sent, verdict, reports>> /\ acks' \subseteq acks
          /\ topic' = topic \/ (topic # <<>> /\ topic' = Tail(topic))
      BY <1>6 DEF LoseMessage, history
    <2>2. \A r \in Ids' : Done(r)' => r \in Ids /\ Done(r)
      BY <2>1 DEF Done
    <2> QED
      BY <1>1, <1>2, <2>1, <2>2, ArrivedStays
  <1>7. ASSUME NEW q \in Ids, NEW answer \in Answers, ApplyIssueAck(q, answer) PROVE Arrived'
    <2>1. /\ UNCHANGED <<device, sent, topic>> /\ acks' \subseteq acks /\ <<q, answer>> \in acks
          /\ verdict' = [verdict EXCEPT ![q] = answer] /\ Ids' = Ids
      BY <1>7 DEF ApplyIssueAck
    <2>2. \A r \in Ids' : Done(r)' => r \in Ids /\ Done(r)
      BY <2>1 DEF Done, Typed, TypeOK
    <2> QED
      BY <1>1, <1>2, <2>1, <2>2, ArrivedStays
  <1>8. ASSUME NEW i \in Issuers, SavePublishResult(i) PROVE Arrived'
    <2>1. PICK q : /\ verdict' = [verdict EXCEPT ![q] = IF reports[q].acked THEN "overwritten" ELSE @]
                   /\ UNCHANGED <<device, sent, topic, acks>> /\ Ids' = Ids
      BY <1>8 DEF SavePublishResult
    <2>2. \A r \in Ids' : Done(r)' => r \in Ids /\ Done(r)
      BY <2>1 DEF Done, Typed, TypeOK
    <2> QED
      BY <1>1, <1>2, <2>1, <2>2, ArrivedStays
  <1>9. CASE TakeCommand
    BY <1>1, <1>9, Taken
  <1>10. CASE \/ ChangePerson \/ FetchProjectWorkers
              \/ \E h \in handlers : CompareFields(h) \/ EnqueueReissue(h) \/ ForgetReissue(h)
              \/ \E i \in Issuers : InterruptIssue(i)
              \/ \E w \in Retriers : StartPass(w) \/ SaveRetry(w) \/ InterruptPass(w)
              \/ UNCHANGED vars
    <2>1. UNCHANGED <<topic, acks, device, sent, verdict>>
      BY <1>10 DEF ChangePerson, FetchProjectWorkers, CompareFields, EnqueueReissue, ForgetReissue,
         InterruptIssue, StartPass, SaveRetry, InterruptPass, vars, ledger, history
    <2> QED
      BY <1>2, <1>3, <1>4, <2>1
  <1> QED
    BY <1>4, <1>5, <1>6, <1>7, <1>8, <1>9, <1>10 DEF Next, Issuer, Retrier, Disturbance

LEMMA FollowsInit == Init => Follows
  <1> SUFFICES ASSUME Init PROVE Follows
    OBVIOUS
  <1>1. Typed /\ Ids = {} /\ Past
    BY TypedInit, PersonIsTyped DEF Init, Past, Enrolled, Resting, Issuers
  <1>2. Track
    <2>1. Shows(person) \in Open
      BY <1>1, PersonIsTyped DEF Open, Ends
    <2> QED
      BY <1>1, <2>1 DEF Init, Track, Announced, Compared, Fetched, Issuers, Resting
  <1>3. Arrived
    BY <1>1 DEF Init, Arrived, Orderly, Done
  <1> QED
    BY <1>1, <1>2, <1>3 DEF Follows

LEMMA FollowsStep == Follows /\ [Next]_vars => Follows'
  <1> SUFFICES ASSUME Follows, [Next]_vars PROVE Follows'
    OBVIOUS
  <1>1. Typed /\ Typed' /\ Past'
    BY TypedStep, PastStep DEF Follows
  <1> QED
    BY <1>1, TrackStep, ArrivedStep DEF Follows

\* When everything is told and taken, the device lets the person in as they are: unless a
\* change was enqueued in the wrong order, forgotten by a process that stopped, or hidden by a
\* comparison with a row older than the one written over, or a command was overtaken.
THEOREM DeviceFollows == Spec => []DeviceFollowsThePerson
<1>1. Follows => DeviceFollowsThePerson
  <2> SUFFICES ASSUME Follows, Settled, slips = {}, Newest # {},
                      \A r \in Newest : reports[r].acked /\ verdict[r] = "success"
               PROVE  device = Shows(person)
    BY DEF DeviceFollowsThePerson, Shows
  <2>1. Typed /\ Track /\ Arrived
    BY DEF Follows
  <2>2. \A r \in Ids : reports[r].rev \in Nat /\ r \in Nat
    BY <2>1, TopicIs
  <2>3. PICK m \in Newest : Done(m)
    BY DEF Done
  <2>4. PICK k \in Ids : Showing(k)
    BY <2>1, <2>3 DEF Arrived, Newest
  <2>5. k \in Newest
    <3> SUFFICES ASSUME NEW s \in Ids PROVE reports[s].rev <= reports[k].rev
      BY DEF Newest
    <3>1. reports[s].rev <= reports[m].rev /\ reports[m].rev <= reports[k].rev /\ m \in Ids
      BY <2>3, <2>4 DEF Newest, Showing, NotLater
    <3> QED
      BY <2>2, <3>1
  <2>6. ~ Superseded(k)
    <3> SUFFICES ASSUME NEW s \in Ids,
                        reports[s].rev > reports[k].rev \/ (reports[s].rev = reports[k].rev /\ s > k)
                 PROVE  FALSE
      BY DEF Superseded
    <3>1. reports[s].rev <= reports[k].rev
      BY <2>5 DEF Newest
    <3>2. reports[s].rev = reports[k].rev /\ s > k
      BY <2>2, <3>1
    <3>3. s \in Newest
      BY <2>5, <3>2 DEF Newest
    <3>4. s <= k
      BY <2>4, <3>3 DEF Showing, Done, NotLater
    <3> QED
      BY <2>2, <3>2, <3>4
  <2>7. ~ ToIssue
    BY DEF Settled, ToIssue, Issuers
  <2>8. Open \subseteq {Shows(person)}
    BY DEF Settled, Open, Ends, Wrote, Tells
  <2>9. ~ Undecided
    BY <2>8 DEF Undecided
  <2>10. Does(k) = Shows(person)
    BY <2>1, <2>6, <2>7, <2>8, <2>9 DEF Track, Current
  <2> QED
    BY <2>4, <2>10 DEF Showing
<1> QED
  BY <1>1, FollowsInit, FollowsStep, PTL DEF Spec
=============================================================================

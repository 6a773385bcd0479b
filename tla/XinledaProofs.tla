---------------------------- MODULE XinledaProofs ----------------------------
(***************************************************************************)
(* Proofs about XinledaJobs, for every number of tasks, people, events,    *)
(* attempts, faults, presses of the retry button, and accounts. The        *)
(* promises of XinledaJobs are not inductive: that two tasks stay apart    *)
(* rests on the leases they hold and on what is open behind them; that     *)
(* nothing is sent twice rests on the tokens, on who polls, and on what a  *)
(* task has sent and not written down; that the last report is the right   *)
(* one rests on the events in the outbox and on the jobs that still owe    *)
(* one.  Each part of the invariant is a conjunct of its own; a lemma says *)
(* for each kind of step what the part asks of it.  Then every action of   *)
(* the queue is a step of one of these kinds, one lemma for each action.   *)
(***************************************************************************)
EXTENDS XinledaJobs, SequenceTheorems, TLAPS

\* The table is a sequence of rows: what the library says of sequences, in the
\* words the proofs use.
LEMMA SeqOfJobs ==
  ASSUME NEW s \in Seq(Job)
  PROVE  DOMAIN s = 1 .. Len(s) /\ Len(s) \in Nat /\ \A j \in DOMAIN s : s[j] \in Job /\ j \in Nat /\ j > 0
BY LenProperties, ElementOfSeq

\* UPDATE of one row.
LEMMA Replaced ==
  ASSUME NEW s \in Seq(Job), NEW j \in DOMAIN s, NEW e \in Job
  PROVE  /\ [s EXCEPT ![j] = e] \in Seq(Job)
         /\ DOMAIN [s EXCEPT ![j] = e] = DOMAIN s
         /\ \A i \in DOMAIN s : [s EXCEPT ![j] = e][i] = IF i = j THEN e ELSE s[i]
BY ExceptSeq, SeqOfJobs

\* UPDATE of all rows.
LEMMA Mapping ==
  ASSUME NEW s \in Seq(Job), NEW t \in [DOMAIN s -> Job]
  PROVE  t \in Seq(Job)
<1>1. DOMAIN s = 1 .. Len(s) /\ Len(s) \in Nat
  BY SeqOfJobs
<1>2. t \in [1 .. Len(s) -> Job]
  BY <1>1
<1> QED
  BY <1>1, <1>2, SeqDef

(* What an INSERT leaves of a table: its rows, and perhaps a new one behind them. *)
Fresh(e) == e.status = "pending" /\ e.lease = "none" /\ e.token = 0 /\ e.accepted = 0 /\ e.excused = 0
Grown(s, t) ==
  /\ t \in Seq(Job) /\ DOMAIN s \subseteq DOMAIN t
  /\ \A j \in DOMAIN s : t[j] = s[j]
  /\ \A j \in DOMAIN t \ DOMAIN s : Fresh(t[j]) /\ \A i \in DOMAIN s : i < j

\* INSERT ... ON CONFLICT DO NOTHING leaves the rows there are, and there is a row
\* under the key afterwards (outbox_v2.rs, enqueue_platform_job).
LEMMA InsertedGrows ==
  ASSUME NEW s \in Seq(Job), NEW op \in {"worker.sync", "entry_exit.sync", "attendance.sync"},
         NEW p \in People, NEW e \in 1 .. MaxEvents, NEW update \in BOOLEAN,
         NEW t, t = Inserted(s, op, p, e, update)
  PROVE  /\ Grown(s, t)
         /\ \A j \in DOMAIN t \ DOMAIN s : t[j].op = op /\ t[j].person = p /\ t[j].event = e
         /\ \E j \in DOMAIN t : t[j].op = op /\ t[j].person = p /\ t[j].event = e
<1> DEFINE n == NewJob(op, p, e, update)
<1>1. n \in Job /\ Fresh(n) /\ n.op = op /\ n.person = p /\ n.event = e
  BY BoundsAssumption DEF NewJob, Job, Fresh, Active
<1>2. CASE t = s
  <2>1. \E j \in DOMAIN s : s[j].op = op /\ s[j].person = p /\ s[j].event = e
    <3>1. s # Append(s, n)
      BY <1>1, AppendProperties
    <3> QED
      BY <3>1, <1>2 DEF Inserted
  <2> QED
    BY <2>1, <1>2 DEF Grown
<1>3. CASE t = Append(s, n)
  <2> HIDE DEF n
  <2>1. /\ Append(s, n) \in Seq(Job) /\ Len(Append(s, n)) = Len(s) + 1
        /\ \A i \in 1 .. Len(s) : Append(s, n)[i] = s[i]
        /\ Append(s, n)[Len(s) + 1] = n
    BY <1>1, AppendProperties
  <2>2. /\ DOMAIN t = 1 .. Len(s) + 1 /\ DOMAIN s = 1 .. Len(s) /\ Len(s) \in Nat
        /\ \A i \in DOMAIN s : t[i] = s[i]
        /\ t[Len(s) + 1] = n /\ t \in Seq(Job)
    BY <2>1, <1>3, SeqOfJobs, LenProperties
  <2>3. \A j \in DOMAIN t \ DOMAIN s : j = Len(s) + 1
    BY <2>2
  <2>4. Len(s) + 1 \in DOMAIN t
    BY <2>2
  <2>5. Grown(s, t)
    BY <2>2, <2>3, <1>1 DEF Grown
  <2> QED
    BY <2>2, <2>3, <2>4, <2>5, <1>1
<1> QED
  BY <1>2, <1>3 DEF Inserted
-----------------------------------------------------------------------------
(* The leases *)

\* A task has the lease of its job, but for a job that was reset by hand, and one
\* whose account is gone.
Held ==
  \A w \in Workers : Working(w) =>
    \/ workers[w].job \in retried
    \/ JobOf(w).status = "processing" /\ JobOf(w).lease = "live"
    \/ workers[w].job \in straddled /\ JobOf(w).status = "disabled"

\* Only a job that was reset is worked on by two.
HeldOnce ==
  \A v, w \in Workers :
    Working(v) /\ Working(w) /\ v # w /\ workers[v].job = workers[w].job => workers[w].job \in retried

\* No earlier job of the same entity opens behind a task's back, but by the same two ways.
Ahead ==
  \A w \in Workers : Working(w) =>
    \A i \in JobIds : i < workers[w].job /\ SameEntity(i, workers[w].job) /\ jobs[i].status \in Active
      => i \in retried \cup straddled

Leases == Held /\ HeldOnce /\ Ahead

(* The account *)

\* An open job's token comes from the present account.
TokensAreCurrent ==
  \A j \in JobIds : jobs[j].token \in {0, account} \/ j \in straddled \/ jobs[j].status \in Finished

\* So do the token and the credentials a task has read.
TasksAreCurrent ==
  \A w \in Workers : Working(w) /\ workers[w].job \notin straddled =>
    JobOf(w).token \in {0, account} /\ workers[w].account \in {0, account}

\* The first account overtakes nobody.
AccountOne == account = 1 => straddled = {}

Current == TokensAreCurrent /\ TasksAreCurrent /\ MappingIsOfThisAccount /\ AccountOne

(* What was sent *)

\* A task polls when its job has a token, and a job that awaits a result has one.
PollsMeansToken ==
  /\ \A w \in Workers : Working(w) /\ workers[w].job \notin retried =>
       (workers[w].polls <=> JobOf(w).token # 0)
  /\ \A j \in JobIds \ retried : jobs[j].status = "awaiting_result" => jobs[j].token # 0

\* What a task has in hand in each of its phases.
Phases ==
  \A w \in Workers :
    /\ workers[w].pc = "push" => ~workers[w].polls /\ workers[w].account # 0
    /\ Got(w, "token") => ~workers[w].polls /\ workers[w].account # 0
    /\ Got(w, "pending") => workers[w].polls
    /\ workers[w].pc \in {"mapped", "finishing"} => workers[w].answer = "done"

\* Every delivery so far is excused: one more is what the promise allows.
Unsent(j) == jobs[j].accepted <= jobs[j].excused

\* So it is for a job without token that can be claimed again ...
RestingIsUnsent ==
  \A j \in JobIds \ retried :
    /\ jobs[j].token = 0 /\ jobs[j].status \in Active \cup {"waiting_data"}
    /\ \A w \in Workers : Working(w) => workers[w].job # j
    => Unsent(j)

\* ... and for the job of a task that may still write to the platform.
TaskIsUnsent ==
  \A w \in Workers :
    Working(w) /\ workers[w].job \notin retried /\ ~workers[w].polls /\ ~Unrecorded(w)
      => Unsent(workers[w].job)

Sends == PollsMeansToken /\ Phases /\ RedeliveryIsExplained /\ RestingIsUnsent /\ TaskIsUnsent

(* Entries and exits *)

\* A token or a result means that the write has reached the platform ...
SpokenIsSettled ==
  \A w \in Workers :
    /\ Working(w) /\ workers[w].job \notin retried
    /\ Saving(w) /\ workers[w].answer \in {"token", "done"} /\ JobOf(w).op = "entry_exit.sync"
    => JobOf(w).accepted > 0

\* ... and so does a job's success.
SuccessSpoke ==
  \A j \in JobIds \ retried :
    jobs[j].op = "entry_exit.sync" /\ (jobs[j].status = "success" \/ jobs[j].token # 0)
      => jobs[j].accepted > 0

Spoken == SpokenIsSettled /\ SuccessSpoke

\* An event of a person is in the outbox once, or in the table.
EventsOnce ==
  \A p \in People :
    /\ \A k \in DOMAIN changes[p] : changes[p][k].event <= events
    /\ \A k, l \in DOMAIN changes[p] : k # l => changes[p][k].event # changes[p][l].event
    /\ \A k \in DOMAIN changes[p] : \A j \in JobIds :
         jobs[j].person = p => jobs[j].event # changes[p][k].event

EventsBelow == \A j \in JobIds : jobs[j].event <= events

\* Nobody has heard of a person before he is hired.
Unknown ==
  \A p \in People : person[p] = "none" =>
    changes[p] = <<>> /\ reported[p] = "none" /\ \A j \in JobIds : jobs[j].person # p

Ledger == EventsOnce /\ EventsBelow /\ Unknown

\* Only a request for entry or exit says one.
Reporting ==
  \A w \in Workers : workers[w].pc = "push" =>
    (workers[w].report # "none" <=> JobOf(w).op = "entry_exit.sync")

\* A task is about to report p.
Says(w, p) == workers[w].pc = "push" /\ JobOf(w).op = "entry_exit.sync" /\ JobOf(w).person = p

\* The outbox still holds an entry or exit of p.
Announced(p) == \E k \in DOMAIN changes[p] : changes[p][k].entryExit

\* A job of p has not reported yet, and no task that has fallen behind p works on it or
\* on a later one.
Owed(p) ==
  \E j \in JobIds :
    /\ jobs[j].person = p /\ jobs[j].op = "entry_exit.sync" /\ jobs[j].accepted = 0
    /\ \A w \in Workers : Says(w, p) /\ workers[w].job >= j => workers[w].report = Presence(p)

\* The platform knows where p is, and nobody is about to tell it otherwise.
Told(p) ==
  /\ reported[p] \in {"none", Presence(p)}
  /\ \A w \in Workers : Says(w, p) => workers[w].report = Presence(p)

\* The operator, a new account and a disabled binding have left p alone.
Untouched(p) ==
  p \notin missed /\ account = 1 /\ \A j \in JobIds : jobs[j].person = p => j \notin retried

\* Where p is will be said, or is said.
CatchesUp(p) ==
  Untouched(p) /\ person[p] \in {"working", "left"} => Announced(p) \/ Owed(p) \/ Told(p)

ReportsCatchUp == \A p \in People : CatchesUp(p)

-----------------------------------------------------------------------------
SameKey(a, b) == a.op = b.op /\ a.person = b.person /\ a.event = b.event

\* What a step leaves of the table and of the tasks, as long as it is no claim.
RowsKeep ==
  /\ JobIds \subseteq JobIds'
  /\ \A j \in JobIds : SameKey(jobs[j], jobs'[j])
  /\ \A j \in JobIds' \ JobIds : Fresh(jobs'[j]) /\ \A i \in JobIds : i < j
TasksContinue ==
  \A w \in Workers : workers'[w].pc # "idle" => Working(w) /\ workers'[w].job = workers[w].job
LeasesKeep ==
  \A w \in Workers : workers'[w].pc # "idle" =>
    \/ workers[w].job \in retried'
    \/ jobs'[workers[w].job].status = JobOf(w).status /\ jobs'[workers[w].job].lease = JobOf(w).lease
    \/ workers[w].job \in straddled' /\ jobs'[workers[w].job].status = "disabled"
NoneReopens ==
  \A j \in JobIds : jobs'[j].status \in Active => jobs[j].status \in Active \/ j \in retried' \cup straddled'
HistoryGrows == retried \subseteq retried' /\ straddled \subseteq straddled'

WorkersHaveJobs == \A w \in Workers : Working(w) => workers[w].job \in JobIds /\ workers[w].job \in Nat

\* A step that claims nothing keeps the leases apart.
LEMMA LeasesGoOn ==
  ASSUME Leases, WorkersHaveJobs, JobIds \subseteq Nat, RowsKeep, TasksContinue, LeasesKeep, NoneReopens,
         HistoryGrows
  PROVE  Leases'
<1>1. Held'
  BY DEF Leases, Held, WorkersHaveJobs, TasksContinue, LeasesKeep, HistoryGrows, Working, JobOf
<1>2. HeldOnce'
  BY DEF Leases, HeldOnce, TasksContinue, HistoryGrows, Working
<1>3. Ahead'
  <2> SUFFICES ASSUME NEW w \in Workers, workers'[w].pc # "idle", NEW i \in JobIds', i < workers'[w].job,
                      SameEntity(i, workers[w].job)', jobs'[i].status \in Active
               PROVE  i \in retried' \cup straddled'
    BY DEF Ahead, Working, SameEntity
  <2>1. Working(w) /\ workers'[w].job = workers[w].job /\ workers[w].job \in JobIds
    BY DEF TasksContinue, WorkersHaveJobs
  <2>2. i \in JobIds
    BY <2>1 DEF RowsKeep, WorkersHaveJobs
  <2>3. SameEntity(i, workers[w].job)
    BY <2>1, <2>2 DEF SameEntity, RowsKeep, SameKey
  <2> QED
    BY <2>1, <2>2, <2>3 DEF Leases, Ahead, NoneReopens, HistoryGrows
<1> QED
  BY <1>1, <1>2, <1>3 DEF Leases

\* A claim keeps them apart: the query takes the first open job of an entity, and
\* none whose lease is live.
LEMMA LeasesClaimed ==
  ASSUME Leases, WorkersHaveJobs, JobIds \subseteq Nat, NEW w \in Workers, NEW j \in JobIds, ~Working(w),
         Claimable(j),
         JobIds' = JobIds, \A i \in JobIds : i # j => jobs'[i] = jobs[i],
         SameKey(jobs[j], jobs'[j]), jobs'[j].status = "processing", jobs'[j].lease = "live",
         \A v \in Workers : v # w => workers'[v] = workers[v],
         workers'[w].job = j, workers'[w].pc # "idle", retried' = retried, straddled' = straddled
  PROVE  Leases'
<1>1. \A v \in Workers : v # w /\ Working(v) /\ workers[v].job = j => j \in retried
  BY DEF Leases, Held, Claimable, JobOf, Active
<1>2. Held'
  BY DEF Leases, Held, WorkersHaveJobs, Working, JobOf
<1>3. HeldOnce'
  BY <1>1 DEF Leases, HeldOnce, Working
<1>4. Ahead'
  <2> SUFFICES ASSUME NEW v \in Workers, workers'[v].pc # "idle", NEW i \in JobIds, i < workers'[v].job,
                      SameEntity(i, workers[v].job)', jobs'[i].status \in Active
               PROVE  i \in retried \cup straddled
    BY DEF Ahead, Working, SameEntity
  <2>1. workers'[v].job \in JobIds /\ SameEntity(i, workers'[v].job)
    BY DEF SameEntity, SameKey, WorkersHaveJobs, Working
  <2>2. jobs[i].status \in Active
    BY DEF Claimable
  <2>3. CASE v = w
    BY <2>1, <2>2, <2>3 DEF Claimable, EarlierActive
  <2>4. CASE v # w
    BY <2>1, <2>2, <2>4 DEF Leases, Ahead, Working
  <2> QED
    BY <2>3, <2>4
<1> QED
  BY <1>2, <1>3, <1>4 DEF Leases

-----------------------------------------------------------------------------
\* Tokens, credentials and mappings stay those of the present account, as long as
\* a task writes only the credentials it has loaded.
LEMMA CurrentGoesOn ==
  ASSUME Current, WorkersHaveJobs, straddled \subseteq JobIds, RowsKeep, TasksContinue, HistoryGrows,
         account' = account,
         \A j \in JobIds :
           \/ jobs'[j].token \in {0, jobs[j].token}
           \/ \E w \in Workers : Working(w) /\ workers[w].job = j /\ jobs'[j].token = workers[w].account,
         \A j \in JobIds : jobs[j].status \in Finished =>
           \/ jobs'[j].status \in Finished \/ jobs'[j].token = 0
           \/ \E w \in Workers : Working(w) /\ workers[w].job = j,
         \A w \in Workers : workers'[w].pc # "idle" => workers'[w].account \in {workers[w].account, account},
         \A p \in People :
           \/ mapped'[p] = mapped[p]
           \/ \E w \in Workers : /\ Working(w) /\ JobOf(w).op = "worker.sync" /\ JobOf(w).person = p
                                 /\ mapped'[p] = workers[w].account,
         account = 1 => straddled' = straddled
  PROVE  Current'
<1>1. \A j \in JobIds, w \in Workers : Working(w) /\ workers[w].job = j /\ j \notin straddled =>
        jobs'[j].token \in {0, account}
  BY DEF Current, TasksAreCurrent, JobOf
<1>2. \A j \in JobIds : jobs'[j].token \in {0, account} \/ j \in straddled' \/ jobs'[j].status \in Finished
  BY <1>1 DEF Current, TokensAreCurrent, TasksAreCurrent, HistoryGrows
<1>3. TokensAreCurrent'
  BY <1>2 DEF TokensAreCurrent, RowsKeep, Fresh
<1>4. TasksAreCurrent'
  BY <1>1 DEF Current, TasksAreCurrent, TasksContinue, HistoryGrows, Working, JobOf, WorkersHaveJobs
<1>5. MappingIsOfThisAccount'
  <2> SUFFICES ASSUME NEW p \in People, mapped'[p] \notin {0, account}
               PROVE  \E j \in straddled' : jobs'[j].person = p /\ jobs'[j].op = "worker.sync"
    BY DEF MappingIsOfThisAccount
  <2>1. PICK j \in straddled : jobs[j].person = p /\ jobs[j].op = "worker.sync" /\ j \in JobIds
    <3>1. CASE mapped'[p] = mapped[p]
      BY <3>1 DEF Current, MappingIsOfThisAccount
    <3>2. CASE mapped'[p] # mapped[p]
      BY <3>2 DEF Current, TasksAreCurrent, WorkersHaveJobs, JobOf
    <3> QED
      BY <3>1, <3>2
  <2> QED
    BY <2>1 DEF RowsKeep, SameKey, HistoryGrows
<1>6. AccountOne'
  BY DEF Current, AccountOne
<1> QED
  BY <1>3, <1>4, <1>5, <1>6 DEF Current

\* A claim hands the token of the row to the task.
LEMMA CurrentClaimed ==
  ASSUME Current, WorkersHaveJobs, straddled \subseteq JobIds,
         NEW w \in Workers, NEW j \in JobIds, ~Working(w), jobs[j].status \in Active,
         JobIds' = JobIds, \A i \in JobIds : i # j => jobs'[i] = jobs[i],
         SameKey(jobs[j], jobs'[j]), jobs'[j].token = jobs[j].token,
         \A v \in Workers : v # w => workers'[v] = workers[v],
         workers'[w].job = j, workers'[w].account = jobs[j].token,
         UNCHANGED <<account, mapped, straddled>>
  PROVE  Current'
<1>1. jobs[j].token \in {0, account} \/ j \in straddled
  BY DEF Current, TokensAreCurrent, Active, Finished
<1>2. TokensAreCurrent'
  BY <1>1 DEF Current, TokensAreCurrent
<1>3. TasksAreCurrent'
  BY <1>1 DEF Current, TasksAreCurrent, Working, JobOf, WorkersHaveJobs
<1>4. MappingIsOfThisAccount' /\ AccountOne'
  BY DEF Current, MappingIsOfThisAccount, AccountOne, SameKey
<1> QED
  BY <1>2, <1>3, <1>4 DEF Current

\* A new account disables the open jobs, drops the mappings, and overtakes the jobs
\* that are being worked on.
LEMMA CurrentChanged ==
  ASSUME WorkersHaveJobs, account \in Nat \ {0}, account' = account + 1,
         JobIds' = JobIds, \A j \in JobIds : jobs'[j].status \in Finished,
         \A p \in People : mapped'[p] = 0,
         workers' = workers, \A w \in Workers : Working(w) => workers[w].job \in straddled'
  PROVE  Current'
BY DEF Current, TokensAreCurrent, TasksAreCurrent, MappingIsOfThisAccount, AccountOne, Working

-----------------------------------------------------------------------------
Counted == \A j \in JobIds : jobs[j].accepted \in Nat /\ jobs[j].excused \in Nat

\* Steps of the operator, the dispatcher and the clock send nothing.
LEMMA SendsRest ==
  ASSUME Sends, WorkersHaveJobs, RowsKeep, retried \subseteq retried', workers' = workers,
         \A j \in JobIds \ retried' :
           /\ jobs'[j].token = jobs[j].token
           /\ jobs'[j].accepted = jobs[j].accepted /\ jobs'[j].excused = jobs[j].excused
           /\ jobs'[j].status = jobs[j].status \/ jobs'[j].status \in Finished
  PROVE  Sends'
<1>1. PollsMeansToken'
  BY DEF Sends, PollsMeansToken, Working, JobOf, WorkersHaveJobs, RowsKeep, Fresh, Finished
<1>2. Phases'
  BY DEF Sends, Phases, Got
<1>3. RedeliveryIsExplained'
  BY DEF Sends, RedeliveryIsExplained, RowsKeep, Fresh
<1>4. RestingIsUnsent'
  BY DEF Sends, RestingIsUnsent, Unsent, Working, RowsKeep, Fresh, Active, Finished
<1>5. TaskIsUnsent'
  BY DEF Sends, TaskIsUnsent, Unsent, Working, WorkersHaveJobs, Unrecorded, Saving
<1> QED
  BY <1>1, <1>2, <1>3, <1>4, <1>5 DEF Sends

\* A task that proceeds without writing its row.
LEMMA SendsProgress ==
  ASSUME Sends, WorkersHaveJobs, RowsKeep, retried' = retried, \A j \in JobIds : jobs'[j] = jobs[j],
         NEW w \in Workers, Working(w), \A v \in Workers : v # w => workers'[v] = workers[v],
         workers'[w].pc # "idle", workers'[w].job = workers[w].job, workers'[w].polls = workers[w].polls,
         workers'[w].pc = "push" => ~workers[w].polls /\ workers'[w].account # 0,
         ~Got(w, "token")', Got(w, "pending")' => workers[w].polls,
         workers'[w].pc \in {"mapped", "finishing"} => workers'[w].answer = "done",
         ~workers[w].polls /\ ~Unrecorded(w)' => ~Unrecorded(w)
  PROVE  Sends'
<1>1. PollsMeansToken'
  BY DEF Sends, PollsMeansToken, Working, JobOf, WorkersHaveJobs, RowsKeep, Fresh
<1>2. Phases'
  BY DEF Sends, Phases, Got
<1>3. RedeliveryIsExplained'
  BY DEF Sends, RedeliveryIsExplained, RowsKeep, Fresh
<1>4. RestingIsUnsent'
  BY DEF Sends, RestingIsUnsent, Unsent, Working, RowsKeep, Fresh
<1>5. TaskIsUnsent'
  BY DEF Sends, TaskIsUnsent, Unsent, Working, WorkersHaveJobs, Unrecorded, Saving
<1> QED
  BY <1>1, <1>2, <1>3, <1>4, <1>5 DEF Sends

\* A claim: a job without token that rests has no unexplained delivery, so it may
\* be sent.
LEMMA SendsClaimed ==
  ASSUME Sends, WorkersHaveJobs, Held, NEW w \in Workers, NEW j \in JobIds, ~Working(w), Claimable(j),
         JobIds' = JobIds, \A i \in JobIds : i # j => jobs'[i] = jobs[i],
         jobs'[j].token = jobs[j].token, jobs'[j].accepted = jobs[j].accepted,
         jobs'[j].excused = jobs[j].excused, jobs'[j].status = "processing",
         \A v \in Workers : v # w => workers'[v] = workers[v],
         workers'[w].job = j, workers'[w].pc = "claimed",
         workers'[w].polls <=> (jobs[j].status = "awaiting_result" \/ jobs[j].token # 0),
         retried' = retried
  PROVE  Sends'
<1>1. \A v \in Workers : Working(v) /\ workers[v].job = j => j \in retried
  BY DEF Held, Claimable, JobOf, Active
<1>2. PollsMeansToken'
  BY DEF Sends, PollsMeansToken, Working, JobOf, WorkersHaveJobs
<1>3. Phases'
  BY DEF Sends, Phases, Got
<1>4. RedeliveryIsExplained'
  BY DEF Sends, RedeliveryIsExplained
<1>5. RestingIsUnsent'
  BY DEF Sends, RestingIsUnsent, Unsent, Working
<1>6. TaskIsUnsent'
  <2>1. j \notin retried /\ jobs[j].token = 0 => Unsent(j)
    BY <1>1 DEF Sends, RestingIsUnsent, Claimable
  <2>2. ASSUME NEW v \in Workers, v # w, Working(v), workers[v].job \notin retried, ~workers[v].polls,
          ~Unrecorded(v)
        PROVE  Unsent(workers[v].job)'
    BY <2>2, <1>1 DEF Sends, TaskIsUnsent, Unsent, WorkersHaveJobs
  <2> QED
    BY <2>1, <2>2 DEF Sends, TaskIsUnsent, Unsent, Working, Unrecorded, Saving
<1> QED
  BY <1>2, <1>3, <1>4, <1>5, <1>6 DEF Sends

\* A delivery: the one step that counts one.
LEMMA SendsAccepted ==
  ASSUME Sends, HeldOnce, WorkersHaveJobs, Counted, NEW w \in Workers, Pushing(w), NEW j, j = workers[w].job,
         JobIds' = JobIds, \A i \in JobIds : i # j => jobs'[i] = jobs[i],
         jobs'[j].token = jobs[j].token, jobs'[j].accepted = jobs[j].accepted + 1,
         jobs'[j].excused = jobs[j].excused, jobs'[j].status = jobs[j].status,
         \A v \in Workers : v # w => workers'[v] = workers[v],
         workers'[w].job = j, workers'[w].pc = "answered", workers'[w].polls = workers[w].polls,
         workers'[w].account = workers[w].account, workers'[w].answer \in {"token", "done", "unknown"},
         retried' = retried
  PROVE  Sends'
<1>1. j \in JobIds /\ Working(w) /\ ~workers[w].polls /\ workers[w].account # 0
  BY DEF WorkersHaveJobs, Pushing, Working, Sends, Phases
<1>2. j \notin retried => Unsent(j) /\ \A v \in Workers : Working(v) /\ workers[v].job = j => v = w
  BY <1>1 DEF Sends, TaskIsUnsent, Unrecorded, Saving, Pushing, HeldOnce
<1>3. PollsMeansToken'
  BY <1>1 DEF Sends, PollsMeansToken, Working, JobOf, WorkersHaveJobs
<1>4. Phases'
  BY <1>1 DEF Sends, Phases, Got
<1>5. RedeliveryIsExplained'
  BY <1>1, <1>2 DEF Sends, RedeliveryIsExplained, Unsent, Counted
<1>6. RestingIsUnsent'
  BY <1>1 DEF Sends, RestingIsUnsent, Unsent, Working
<1>7. TaskIsUnsent'
  BY <1>1, <1>2 DEF Sends, TaskIsUnsent, Unsent, Working, WorkersHaveJobs, Unrecorded, Saving
<1> QED
  BY <1>3, <1>4, <1>5, <1>6, <1>7 DEF Sends

\* A task dies, or a statement fails: a delivery that is not on record is excused.
LEMMA SendsExcused ==
  ASSUME Sends, HeldOnce, WorkersHaveJobs, Counted, NEW W \in SUBSET Workers,
         JobIds' = JobIds, retried' = retried,
         \A j \in JobIds : /\ jobs'[j].token = jobs[j].token /\ jobs'[j].status = jobs[j].status
                           /\ jobs'[j].accepted = jobs[j].accepted
                           /\ jobs'[j].excused \in {jobs[j].excused, jobs[j].excused + 1}
                           /\ (\E w \in W : Unrecorded(w) /\ workers[w].job = j)
                                => jobs'[j].excused = jobs[j].excused + 1,
         \A w \in Workers : workers'[w] = workers[w] \/ w \in W,
         \A w \in W : \/ workers'[w] = Idle
                      \/ /\ workers'[w].pc = "answered" /\ workers'[w].answer = "retryable" /\ Working(w)
                         /\ workers'[w].job = workers[w].job /\ workers'[w].polls = workers[w].polls
  PROVE  Sends'
<1>1. \A j \in JobIds \ retried : Unsent(j) => jobs'[j].accepted <= jobs'[j].excused
  BY DEF Counted, Unsent
<1>2. \A w \in W : Working(w) /\ workers[w].job \notin retried /\ ~workers[w].polls
        => jobs'[workers[w].job].accepted <= jobs'[workers[w].job].excused
  <2> SUFFICES ASSUME NEW w \in W, Working(w), workers[w].job \notin retried, ~workers[w].polls
               PROVE  jobs'[workers[w].job].accepted <= jobs'[workers[w].job].excused
    OBVIOUS
  <2>1. CASE Unrecorded(w)
    BY <2>1 DEF WorkersHaveJobs, Counted, Sends, RedeliveryIsExplained
  <2>2. CASE ~Unrecorded(w)
    BY <2>2, <1>1 DEF WorkersHaveJobs, Sends, TaskIsUnsent
  <2> QED
    BY <2>1, <2>2
<1>3. \A w \in Workers : workers'[w].pc # "idle" =>
        Working(w) /\ workers'[w].job = workers[w].job /\ workers'[w].polls = workers[w].polls
  BY DEF Working, Idle
<1>4. PollsMeansToken'
  BY <1>3 DEF Sends, PollsMeansToken, Working, JobOf, WorkersHaveJobs
<1>5. Phases'
  BY DEF Sends, Phases, Got, Idle
<1>6. RedeliveryIsExplained'
  BY DEF Sends, RedeliveryIsExplained, Counted
<1>7. RestingIsUnsent'
  <2> SUFFICES ASSUME NEW j \in JobIds, j \notin retried, jobs[j].token = 0,
                      jobs[j].status \in Active \cup {"waiting_data"},
                      \A w \in Workers : workers'[w].pc # "idle" => workers'[w].job # j
               PROVE  jobs'[j].accepted <= jobs'[j].excused
    BY DEF RestingIsUnsent, Unsent, Working
  <2>1. CASE \E w \in Workers : Working(w) /\ workers[w].job = j
    <3>1. PICK w \in Workers : Working(w) /\ workers[w].job = j
      BY <2>1
    <3>2. w \in W
      BY <3>1 DEF Working
    <3>3. ~workers[w].polls
      BY <3>1 DEF Sends, PollsMeansToken, JobOf
    <3> QED
      BY <3>1, <3>2, <3>3, <1>2
  <2>2. CASE ~ \E w \in Workers : Working(w) /\ workers[w].job = j
    BY <2>2, <1>1 DEF Sends, RestingIsUnsent
  <2> QED
    BY <2>1, <2>2
<1>8. TaskIsUnsent'
  <2> SUFFICES ASSUME NEW w \in Workers, workers'[w].pc # "idle", workers'[w].job \notin retried,
                      ~workers'[w].polls, ~Unrecorded(w)'
               PROVE  jobs'[workers'[w].job].accepted <= jobs'[workers'[w].job].excused
    BY DEF TaskIsUnsent, Unsent, Working
  <2>1. CASE w \in W
    BY <2>1, <1>2, <1>3
  <2>2. CASE workers'[w] = workers[w]
    BY <2>2, <1>1, <1>3 DEF Sends, TaskIsUnsent, Unrecorded, Saving, WorkersHaveJobs
  <2> QED
    BY <2>1, <2>2
<1> QED
  BY <1>4, <1>5, <1>6, <1>7, <1>8 DEF Sends

\* What a task may leave on the row of its job when it lets go of it.
Outcome(w, e) ==
  /\ SameKey(JobOf(w), e) /\ e.accepted = JobOf(w).accepted /\ e.excused = JobOf(w).excused
  /\ \/ e.token = JobOf(w).token
     \/ Got(w, "token") /\ e.token = workers[w].account
  /\ e.status = "awaiting_result" => workers[w].polls \/ (Got(w, "token") /\ e.token = workers[w].account)
  /\ e.status \in Active \cup {"waiting_data"} /\ ~workers[w].polls /\ e.status # "awaiting_result"
       => ~Unrecorded(w)
  /\ e.status = "success" /\ e.op = "entry_exit.sync" => Saving(w) /\ workers[w].answer = "done"
  /\ e.status # "processing"

\* A task that lets go of its job with one of the outcomes leaves it explained.
LEMMA SendsSettled ==
  ASSUME Sends, HeldOnce, WorkersHaveJobs, NEW w \in Workers, Working(w), NEW e, Outcome(w, e),
         JobIds' = JobIds, \A i \in JobIds : jobs'[i] = IF i = workers[w].job THEN e ELSE jobs[i],
         \A v \in Workers : workers'[v] = IF v = w THEN Idle ELSE workers[v],
         retried' = retried
  PROVE  Sends'
<1> DEFINE j == workers[w].job
<1>1. j \in JobIds
  BY DEF WorkersHaveJobs
<1>2. j \notin retried =>
        /\ \A v \in Workers : Working(v) /\ workers[v].job = j => v = w
        /\ e.status = "awaiting_result" => e.token # 0
        /\ workers[w].polls => e.token # 0
  BY DEF HeldOnce, Outcome, Sends, PollsMeansToken, Phases, Got, JobOf
<1>3. PollsMeansToken'
  BY <1>1, <1>2 DEF Sends, PollsMeansToken, Working, JobOf, WorkersHaveJobs, Idle
<1>4. Phases'
  BY DEF Sends, Phases, Got, Idle
<1>5. RedeliveryIsExplained'
  BY <1>1 DEF Sends, RedeliveryIsExplained, Outcome, JobOf
<1>6. RestingIsUnsent'
  <2> SUFFICES ASSUME NEW i \in JobIds, i \notin retried, jobs'[i].token = 0,
                      jobs'[i].status \in Active \cup {"waiting_data"},
                      \A v \in Workers : workers'[v].pc # "idle" => workers'[v].job # i
               PROVE  jobs'[i].accepted <= jobs'[i].excused
    BY DEF RestingIsUnsent, Unsent, Working
  <2>1. CASE i = j
    <3>1. jobs'[i] = e /\ e.accepted = jobs[j].accepted /\ e.excused = jobs[j].excused
      BY <2>1 DEF Outcome, JobOf
    <3>2. ~workers[w].polls /\ ~Unrecorded(w)
      BY <2>1, <3>1, <1>2 DEF Outcome
    <3> QED
      BY <2>1, <3>1, <3>2 DEF Sends, TaskIsUnsent, Unsent
  <2>2. CASE i # j
    <3>1. jobs'[i] = jobs[i] /\ \A v \in Workers : Working(v) => workers[v].job # i
      BY <2>2 DEF Working, Idle
    <3> QED
      BY <3>1 DEF Sends, RestingIsUnsent, Unsent
  <2> QED
    BY <2>1, <2>2
<1>7. TaskIsUnsent'
  <2> SUFFICES ASSUME NEW v \in Workers, workers'[v].pc # "idle", workers'[v].job \notin retried,
                      ~workers'[v].polls, ~Unrecorded(v)'
               PROVE  jobs'[workers'[v].job].accepted <= jobs'[workers'[v].job].excused
    BY DEF TaskIsUnsent, Unsent, Working
  <2>1. v # w /\ workers'[v] = workers[v]
    BY DEF Idle
  <2>2. Working(v) /\ workers[v].job \in JobIds /\ workers[v].job # j
    BY <2>1, <1>2 DEF Working, WorkersHaveJobs
  <2> QED
    BY <2>1, <2>2 DEF Sends, TaskIsUnsent, Unsent, Unrecorded, Saving
<1> QED
  BY <1>3, <1>4, <1>5, <1>6, <1>7 DEF Sends

-----------------------------------------------------------------------------
\* The same steps, for what entry and exit jobs have told the platform.
LEMMA SpokenRest ==
  ASSUME Spoken, WorkersHaveJobs, RowsKeep, retried \subseteq retried', workers' = workers,
         \A j \in JobIds \ retried' :
           /\ jobs'[j].token = jobs[j].token /\ jobs'[j].accepted = jobs[j].accepted
           /\ jobs'[j].status = "success" => jobs[j].status = "success"
  PROVE  Spoken'
<1>1. SpokenIsSettled'
  BY DEF Spoken, SpokenIsSettled, WorkersHaveJobs, RowsKeep, SameKey, Working, Saving, JobOf
<1>2. SuccessSpoke'
  BY DEF Spoken, SuccessSpoke, RowsKeep, SameKey, Fresh
<1> QED
  BY <1>1, <1>2 DEF Spoken

\* A task proceeds.
LEMMA SpokenProgress ==
  ASSUME Spoken, Sends, WorkersHaveJobs, RowsKeep, retried' = retried, \A j \in JobIds : jobs'[j] = jobs[j],
         NEW w \in Workers, Working(w), \A v \in Workers : v # w => workers'[v] = workers[v],
         workers'[w].job = workers[w].job,
         Saving(w)' /\ workers'[w].answer \in {"token", "done"}
           => workers[w].polls \/ (Saving(w) /\ workers[w].answer \in {"token", "done"})
  PROVE  Spoken'
<1>1. SuccessSpoke'
  BY DEF Spoken, SuccessSpoke, RowsKeep, Fresh
<1>2. workers[w].polls /\ workers[w].job \notin retried /\ JobOf(w).op = "entry_exit.sync"
        => JobOf(w).accepted > 0
  BY DEF Spoken, SuccessSpoke, WorkersHaveJobs, Sends, PollsMeansToken, JobOf
<1>3. SpokenIsSettled'
  BY <1>2 DEF Spoken, SpokenIsSettled, WorkersHaveJobs, Working, Saving, JobOf
<1> QED
  BY <1>1, <1>3 DEF Spoken

\* A claim.
LEMMA SpokenClaimed ==
  ASSUME Spoken, WorkersHaveJobs, NEW w \in Workers, NEW j \in JobIds,
         JobIds' = JobIds, \A i \in JobIds : i # j => jobs'[i] = jobs[i], SameKey(jobs[j], jobs'[j]),
         jobs'[j].token = jobs[j].token, jobs'[j].accepted = jobs[j].accepted, jobs'[j].status = "processing",
         \A v \in Workers : v # w => workers'[v] = workers[v],
         workers'[w].pc = "claimed", retried' = retried
  PROVE  Spoken'
<1>1. SpokenIsSettled'
  BY DEF Spoken, SpokenIsSettled, WorkersHaveJobs, SameKey, Working, Saving, JobOf
<1>2. SuccessSpoke'
  BY DEF Spoken, SuccessSpoke, SameKey
<1> QED
  BY <1>1, <1>2 DEF Spoken

\* A delivery.
LEMMA SpokenAccepted ==
  ASSUME Spoken, WorkersHaveJobs, Counted, NEW w \in Workers, Working(w), NEW j, j = workers[w].job,
         JobIds' = JobIds, \A i \in JobIds : i # j => jobs'[i] = jobs[i], SameKey(jobs[j], jobs'[j]),
         jobs'[j].accepted = jobs[j].accepted + 1,
         \A v \in Workers : v # w => workers'[v] = workers[v],
         workers'[w].job = j, retried' = retried
  PROVE  Spoken'
<1>1. j \in JobIds /\ jobs'[j].accepted > 0
  BY DEF WorkersHaveJobs, Counted
<1>2. SpokenIsSettled'
  BY <1>1 DEF Spoken, SpokenIsSettled, WorkersHaveJobs, SameKey, Working, Saving, JobOf
<1>3. SuccessSpoke'
  BY <1>1 DEF Spoken, SuccessSpoke, SameKey
<1> QED
  BY <1>2, <1>3 DEF Spoken

\* A failure.
LEMMA SpokenExcused ==
  ASSUME Spoken, WorkersHaveJobs, NEW W \in SUBSET Workers,
         JobIds' = JobIds, retried' = retried,
         \A j \in JobIds : /\ jobs'[j].token = jobs[j].token /\ jobs'[j].status = jobs[j].status
                           /\ jobs'[j].accepted = jobs[j].accepted /\ SameKey(jobs[j], jobs'[j]),
         \A w \in Workers : workers'[w] = workers[w] \/ w \in W,
         \A w \in W : workers'[w] = Idle \/ (workers'[w].pc = "answered" /\ workers'[w].answer = "retryable")
  PROVE  Spoken'
<1>1. SpokenIsSettled'
  BY DEF Spoken, SpokenIsSettled, WorkersHaveJobs, SameKey, Working, Saving, JobOf, Idle
<1>2. SuccessSpoke'
  BY DEF Spoken, SuccessSpoke, SameKey
<1> QED
  BY <1>1, <1>2 DEF Spoken

\* An outcome: an entry or exit job ends in success only behind an answer "done".
LEMMA SpokenSettled ==
  ASSUME Spoken, Sends, HeldOnce, WorkersHaveJobs, NEW w \in Workers, Working(w), NEW e, Outcome(w, e),
         JobIds' = JobIds, \A i \in JobIds : jobs'[i] = IF i = workers[w].job THEN e ELSE jobs[i],
         \A v \in Workers : workers'[v] = IF v = w THEN Idle ELSE workers[v],
         retried' = retried
  PROVE  Spoken'
<1>1. workers[w].job \notin retried => \A v \in Workers : Working(v) /\ workers[v].job = workers[w].job => v = w
  BY DEF HeldOnce
<1>2. SpokenIsSettled'
  BY <1>1 DEF Spoken, SpokenIsSettled, WorkersHaveJobs, SameKey, Working, Saving, JobOf, Idle
<1>3. SuccessSpoke'
  BY DEF Spoken, SuccessSpoke, SpokenIsSettled, SameKey, Outcome, WorkersHaveJobs, JobOf, Got, Saving
<1> QED
  BY <1>2, <1>3 DEF Spoken
-----------------------------------------------------------------------------
\* Steps that write no event.
LEMMA LedgerRests ==
  ASSUME Ledger, UNCHANGED <<person, changes, events>>, JobIds \subseteq JobIds',
         \A j \in JobIds : SameKey(jobs[j], jobs'[j]),
         \A j \in JobIds' \ JobIds :
           \E i \in JobIds : jobs'[j].person = jobs[i].person /\ jobs'[j].event = jobs[i].event,
         \A p \in People : reported'[p] = reported[p] \/ \E j \in JobIds : jobs[j].person = p
  PROVE  Ledger'
<1>1. EventsOnce'
  BY DEF Ledger, EventsOnce, SameKey
<1>2. EventsBelow'
  BY DEF Ledger, EventsBelow, SameKey
<1>3. Unknown'
  BY DEF Ledger, Unknown, SameKey
<1> QED
  BY <1>1, <1>2, <1>3 DEF Ledger

ChangesTyped == \A p \in People : changes[p] \in Seq(Event)

\* A change that was appended, and the one that was taken.
LEMMA Appended ==
  ASSUME NEW s \in Seq(Event), NEW c \in Event
  PROVE  /\ Append(s, c) \in Seq(Event) /\ DOMAIN Append(s, c) = DOMAIN s \cup {Len(s) + 1}
         /\ \A k \in DOMAIN s : Append(s, c)[k] = s[k] /\ k # Len(s) + 1
         /\ Append(s, c)[Len(s) + 1] = c
<1>1. /\ Append(s, c) \in Seq(Event) /\ Len(Append(s, c)) = Len(s) + 1
      /\ \A k \in 1 .. Len(s) : Append(s, c)[k] = s[k]
      /\ Append(s, c)[Len(s) + 1] = c
  BY AppendProperties
<1>2. DOMAIN s = 1 .. Len(s) /\ Len(s) \in Nat /\ DOMAIN Append(s, c) = 1 .. Len(s) + 1
  BY <1>1, LenProperties
<1> QED
  BY <1>1, <1>2

\* The change that is dispatched is the oldest one.
LEMMA Taken ==
  ASSUME NEW s \in Seq(Event), s # <<>>
  PROVE  /\ Tail(s) \in Seq(Event) /\ 1 \in DOMAIN s /\ Head(s) = s[1] /\ s[1] \in Event
         /\ \A k \in DOMAIN Tail(s) : k + 1 \in DOMAIN s /\ k \in Nat /\ Tail(s)[k] = s[k + 1] /\ k + 1 # 1
         /\ \A k \in DOMAIN s : k # 1 => \E l \in DOMAIN Tail(s) : k = l + 1
<1>1. /\ Tail(s) \in Seq(Event) /\ Len(Tail(s)) = Len(s) - 1
      /\ \A i \in 1 .. Len(Tail(s)) : Tail(s)[i] = s[i + 1]
  BY HeadTailProperties
<1>2. Len(s) \in Nat \ {0} /\ DOMAIN s = 1 .. Len(s) /\ DOMAIN Tail(s) = 1 .. Len(Tail(s))
  BY <1>1, LenProperties, EmptySeq
<1>3. s[1] \in Event
  BY <1>2, ElementOfSeq
<1>4. \A k \in DOMAIN s : k # 1 => k - 1 \in DOMAIN Tail(s) /\ k = (k - 1) + 1
  BY <1>1, <1>2
<1>5. Head(s) = s[1]
  BY <1>2
<1> QED
  BY <1>1, <1>2, <1>3, <1>4, <1>5

\* A write to a person: its event is a new one.
LEMMA LedgerWritten ==
  ASSUME Ledger, ChangesTyped, \A j \in JobIds : jobs[j].event \in Nat, events \in Nat,
         events + 1 \in 1 .. MaxEvents, changes \in [People -> Seq(Event)],
         person \in [People -> {"none", "working", "left", "removed"}],
         NEW p \in People, NEW from \in SUBSET {"none", "working", "left"},
         NEW to \in {"working", "left", "removed"},
         NEW update \in BOOLEAN, NEW entryExit \in BOOLEAN, Written(p, from, to, update, entryExit)
  PROVE  Ledger'
<1> DEFINE c == [event |-> events + 1, update |-> update, entryExit |-> entryExit]
<1>1. c \in Event /\ c.event = events + 1
  BY DEF Event
<1>2. changes' = [changes EXCEPT ![p] = Append(changes[p], c)]
  BY DEF Written
<1> HIDE DEF c
<1>3. /\ DOMAIN changes'[p] = DOMAIN changes[p] \cup {Len(changes[p]) + 1}
      /\ \A k \in DOMAIN changes[p] : changes'[p][k] = changes[p][k] /\ k # Len(changes[p]) + 1
      /\ changes'[p][Len(changes[p]) + 1] = c
      /\ \A q \in People : q # p => changes'[q] = changes[q]
  BY <1>1, <1>2, Appended DEF ChangesTyped
<1>4. \A q \in People : \A k \in DOMAIN changes[q] : changes[q][k].event \in Nat
  <2> SUFFICES ASSUME NEW q \in People, NEW k \in DOMAIN changes[q] PROVE changes[q][k].event \in Nat
    OBVIOUS
  <2>1. changes[q][k] \in Event
    BY LenProperties, ElementOfSeq DEF ChangesTyped
  <2> QED
    BY <2>1 DEF Event
<1>5. UNCHANGED <<jobs, reported, JobIds>> /\ events' = events + 1
  BY DEF Written, history, JobIds
<1>6. EventsOnce'
  <2>1. ASSUME NEW q \in People, q # p
        PROVE  /\ \A k \in DOMAIN changes'[q] : changes'[q][k].event <= events'
               /\ \A k, l \in DOMAIN changes'[q] : k # l => changes'[q][k].event # changes'[q][l].event
               /\ \A k \in DOMAIN changes'[q] : \A j \in JobIds : jobs[j].person = q
                    => jobs[j].event # changes'[q][k].event
    <3>1. changes'[q] = changes[q] /\ \A k \in DOMAIN changes[q] : changes[q][k].event <= events + 1
      BY <2>1, <1>3, <1>4 DEF Ledger, EventsOnce
    <3> QED
      BY <3>1, <1>5 DEF Ledger, EventsOnce
  <2>2. \A k \in DOMAIN changes'[p] : changes'[p][k].event <= events'
    BY <1>1, <1>3, <1>4, <1>5 DEF Ledger, EventsOnce
  <2>3. \A k, l \in DOMAIN changes'[p] : k # l => changes'[p][k].event # changes'[p][l].event
    BY <1>1, <1>3, <1>4 DEF Ledger, EventsOnce
  <2>4. \A k \in DOMAIN changes'[p] : \A j \in JobIds : jobs[j].person = p
          => jobs[j].event # changes'[p][k].event
    BY <1>1, <1>3, <1>5 DEF Ledger, EventsOnce, EventsBelow
  <2> QED
    BY <2>1, <2>2, <2>3, <2>4, <1>5 DEF EventsOnce
<1>7. EventsBelow'
  BY <1>5 DEF Ledger, EventsBelow
<1>8. Unknown'
  <2>1. \A q \in People : person'[q] = "none" => q # p /\ person[q] = "none"
    BY DEF Written
  <2> QED
    BY <2>1, <1>3, <1>5 DEF Ledger, Unknown
<1> QED
  BY <1>6, <1>7, <1>8 DEF Ledger

\* A punch: its event is a new one, and goes to a job at once.
LEMMA LedgerRecorded ==
  ASSUME Ledger, ChangesTyped, \A j \in JobIds : jobs[j].event \in Nat, events \in Nat,
         UNCHANGED <<person, changes, reported>>, events' = events + 1, RowsKeep, NEW p \in People,
                     person[p] = "working",
         \A j \in JobIds' \ JobIds : jobs'[j].person = p /\ jobs'[j].event = events + 1
  PROVE  Ledger'
<1>1. \A q \in People : \A k \in DOMAIN changes[q] : changes[q][k].event \in Nat
  <2> SUFFICES ASSUME NEW q \in People, NEW k \in DOMAIN changes[q] PROVE changes[q][k].event \in Nat
    OBVIOUS
  <2>1. changes[q][k] \in Event
    BY LenProperties, ElementOfSeq DEF ChangesTyped
  <2> QED
    BY <2>1 DEF Event
<1>2. EventsOnce'
  BY <1>1 DEF Ledger, EventsOnce, RowsKeep, SameKey
<1>3. EventsBelow'
  BY DEF Ledger, EventsBelow, RowsKeep, SameKey
<1>4. Unknown'
  BY DEF Ledger, Unknown, RowsKeep, SameKey
<1> QED
  BY <1>2, <1>3, <1>4 DEF Ledger

\* Sending everybody again: one new event for all of them.
LEMMA LedgerBootstrapped ==
  ASSUME Ledger, ChangesTyped, \A j \in JobIds : jobs[j].event \in Nat, events \in Nat,
         events + 1 \in 1 .. MaxEvents,
         Bootstrapping, JobIds' = JobIds, \A j \in JobIds : SameKey(jobs[j], jobs'[j])
  PROVE  Ledger'
<1> DEFINE c == [event |-> events + 1, update |-> FALSE, entryExit |-> FALSE]
<1>1. c \in Event /\ c.event = events + 1
  BY DEF Event
<1>2. \A q \in People : changes'[q] = IF person[q] \in {"working", "left"} THEN Append(changes[q], c)
                                     ELSE changes[q]
  BY DEF Bootstrapping
<1> HIDE DEF c
<1>3. \A q \in People : person[q] \in {"working", "left"} =>
        /\ DOMAIN changes'[q] = DOMAIN changes[q] \cup {Len(changes[q]) + 1}
        /\ \A k \in DOMAIN changes[q] : changes'[q][k] = changes[q][k] /\ k # Len(changes[q]) + 1
        /\ changes'[q][Len(changes[q]) + 1] = c
  <2> SUFFICES ASSUME NEW q \in People, person[q] \in {"working", "left"}
               PROVE  /\ DOMAIN changes'[q] = DOMAIN changes[q] \cup {Len(changes[q]) + 1}
                      /\ \A k \in DOMAIN changes[q] : changes'[q][k] = changes[q][k] /\ k # Len(changes[q]) + 1
                      /\ changes'[q][Len(changes[q]) + 1] = c
    OBVIOUS
  <2>1. changes[q] \in Seq(Event) /\ changes'[q] = Append(changes[q], c)
    BY <1>2 DEF ChangesTyped
  <2> QED
    BY <2>1, <1>1, Appended
<1>4. \A q \in People : \A k \in DOMAIN changes[q] : changes[q][k].event \in Nat
  <2> SUFFICES ASSUME NEW q \in People, NEW k \in DOMAIN changes[q] PROVE changes[q][k].event \in Nat
    OBVIOUS
  <2>1. changes[q][k] \in Event
    BY LenProperties, ElementOfSeq DEF ChangesTyped
  <2> QED
    BY <2>1 DEF Event
<1>5. UNCHANGED <<person, reported>> /\ events' = events + 1
  BY DEF Bootstrapping
<1>6. EventsOnce'
  <2> SUFFICES ASSUME NEW q \in People
        PROVE  /\ \A k \in DOMAIN changes'[q] : changes'[q][k].event <= events'
               /\ \A k, l \in DOMAIN changes'[q] : k # l => changes'[q][k].event # changes'[q][l].event
               /\ \A k \in DOMAIN changes'[q] : \A j \in JobIds : jobs[j].person = q
                    => jobs[j].event # changes'[q][k].event
    BY DEF EventsOnce, SameKey
  <2>1. CASE person[q] \in {"working", "left"}
    <3>1. \A k \in DOMAIN changes'[q] : changes'[q][k].event <= events'
      BY <2>1, <1>1, <1>3, <1>4, <1>5 DEF Ledger, EventsOnce
    <3>2. \A k, l \in DOMAIN changes'[q] : k # l => changes'[q][k].event # changes'[q][l].event
      BY <2>1, <1>1, <1>3, <1>4 DEF Ledger, EventsOnce
    <3>3. \A k \in DOMAIN changes'[q] : \A j \in JobIds : jobs[j].person = q
            => jobs[j].event # changes'[q][k].event
      BY <2>1, <1>1, <1>3 DEF Ledger, EventsOnce, EventsBelow
    <3> QED
      BY <3>1, <3>2, <3>3
  <2>2. CASE person[q] \notin {"working", "left"}
    BY <2>2, <1>2, <1>4, <1>5 DEF Ledger, EventsOnce
  <2> QED
    BY <2>1, <2>2
<1>7. EventsBelow'
  BY <1>5 DEF Ledger, EventsBelow, SameKey
<1>8. Unknown'
  BY <1>2, <1>5 DEF Ledger, Unknown, SameKey
<1> QED
  BY <1>6, <1>7, <1>8 DEF Ledger

\* A dispatched event leaves the outbox for the table.
LEMMA LedgerDispatched ==
  ASSUME Ledger, ChangesTyped, changes \in [People -> Seq(Event)], UNCHANGED <<person, reported, events>>,
         RowsKeep, NEW p \in People, changes[p] # <<>>, changes' = [changes EXCEPT ![p] = Tail(changes[p])],
         \A j \in JobIds' \ JobIds : jobs'[j].person = p /\ jobs'[j].event = changes[p][1].event
  PROVE  Ledger'
<1>1. /\ 1 \in DOMAIN changes[p]
      /\ \A k \in DOMAIN changes'[p] : k + 1 \in DOMAIN changes[p] /\ k \in Nat /\ changes'[p][k] = changes[p][k + 1]
                                       /\ k + 1 # 1
      /\ \A q \in People : q # p => changes'[q] = changes[q]
  BY Taken DEF ChangesTyped
<1>2. EventsOnce'
  <2>1. ASSUME NEW q \in People, q # p
        PROVE  /\ \A k \in DOMAIN changes'[q] : changes'[q][k].event <= events'
               /\ \A k, l \in DOMAIN changes'[q] : k # l => changes'[q][k].event # changes'[q][l].event
               /\ \A k \in DOMAIN changes'[q] : \A j \in JobIds' : jobs'[j].person = q
                    => jobs'[j].event # changes'[q][k].event
    <3>1. changes'[q] = changes[q]
      BY <2>1, <1>1
    <3>2. \A j \in JobIds' : jobs'[j].person = q
            => j \in JobIds /\ jobs[j].person = q /\ jobs[j].event = jobs'[j].event
      BY <2>1 DEF RowsKeep, SameKey
    <3> QED
      BY <3>1, <3>2 DEF Ledger, EventsOnce
  <2>2. \A k \in DOMAIN changes'[p] : changes'[p][k].event <= events'
    BY <1>1 DEF Ledger, EventsOnce
  <2>3. \A k, l \in DOMAIN changes'[p] : k # l => changes'[p][k].event # changes'[p][l].event
    <3> SUFFICES ASSUME NEW k \in DOMAIN changes'[p], NEW l \in DOMAIN changes'[p], k # l
                 PROVE  changes'[p][k].event # changes'[p][l].event
      OBVIOUS
    <3>1. k + 1 # l + 1
      BY <1>1
    <3> QED
      BY <3>1, <1>1 DEF Ledger, EventsOnce
  <2>4. \A k \in DOMAIN changes'[p] : \A j \in JobIds' : jobs'[j].person = p
          => jobs'[j].event # changes'[p][k].event
    <3> SUFFICES ASSUME NEW k \in DOMAIN changes'[p], NEW j \in JobIds', jobs'[j].person = p
                 PROVE  jobs'[j].event # changes'[p][k].event
      OBVIOUS
    <3>1. CASE j \in JobIds
      <4>1. jobs[j].person = p /\ jobs[j].event = jobs'[j].event
        BY <3>1 DEF RowsKeep, SameKey
      <4> QED
        BY <3>1, <4>1, <1>1 DEF Ledger, EventsOnce
    <3>2. CASE j \notin JobIds
      <4>1. jobs'[j].event = changes[p][1].event
        BY <3>2
      <4> QED
        BY <4>1, <1>1 DEF Ledger, EventsOnce
    <3> QED
      BY <3>1, <3>2
  <2> QED
    BY <2>1, <2>2, <2>3, <2>4 DEF EventsOnce
<1>3. EventsBelow'
  BY <1>1 DEF Ledger, EventsBelow, EventsOnce, RowsKeep, SameKey
<1>4. Unknown'
  BY <1>1 DEF Ledger, Unknown, RowsKeep, SameKey
<1> QED
  BY <1>2, <1>3, <1>4 DEF Ledger
-----------------------------------------------------------------------------
\* What the leases are for: two tasks are never at work on the same entity.
LEMMA OneJobEach == Leases /\ WorkersHaveJobs /\ JobIds \subseteq Nat => OneJobPerEntity
<1> SUFFICES ASSUME Leases, WorkersHaveJobs, JobIds \subseteq Nat,
                    NEW v \in Workers, NEW w \in Workers, Working(v), Working(w), v # w,
                    SameEntity(workers[v].job, workers[w].job)
             PROVE  workers[v].job \in retried \cup straddled \/ workers[w].job \in retried \cup straddled
  BY DEF OneJobPerEntity
<1>1. workers[v].job \in Nat /\ workers[w].job \in Nat /\ workers[v].job \in JobIds /\ workers[w].job \in JobIds
  BY DEF WorkersHaveJobs
<1>2. SameEntity(workers[w].job, workers[v].job)
  BY DEF SameEntity
<1>3. CASE workers[v].job = workers[w].job
  BY <1>3 DEF Leases, HeldOnce
<1>4. CASE workers[v].job < workers[w].job
  BY <1>1, <1>4 DEF Leases, Ahead, Held, JobOf, Active
<1>5. CASE workers[w].job < workers[v].job
  BY <1>1, <1>2, <1>5 DEF Leases, Ahead, Held, JobOf, Active
<1> QED
  BY <1>1, <1>3, <1>4, <1>5

\* A request for entry_exit.sync says entry or exit, any other nothing.
LEMMA ReportingKeeps ==
  ASSUME Reporting, WorkersHaveJobs, RowsKeep,
         \A w \in Workers : workers'[w].pc = "push" =>
           \/ workers'[w] = workers[w]
           \/ /\ workers'[w].job \in JobIds
              /\ workers'[w].report # "none" <=> jobs[workers'[w].job].op = "entry_exit.sync"
  PROVE  Reporting'
BY DEF Reporting, WorkersHaveJobs, RowsKeep, SameKey, Working, JobOf

\* Steps that tell the platform nothing about a person who stays where he is.
LEMMA PersonCatchesUp ==
  ASSUME NEW p \in People, CatchesUp(p), WorkersHaveJobs, RowsKeep, retried \subseteq retried',
         person'[p] = person[p], reported'[p] = reported[p], Announced(p) => Announced(p)',
         account' = 1 => account = 1, p \in missed => p \in missed',
         \A j \in JobIds : jobs[j].op = "entry_exit.sync" /\ jobs[j].person = p /\ j \notin retried'
           => jobs'[j].accepted = jobs[j].accepted,
         \A w \in Workers : workers'[w].pc = "push" =>
           \/ workers'[w] = workers[w]
           \/ /\ workers'[w].job \in JobIds
              /\ jobs[workers'[w].job].op = "entry_exit.sync" /\ jobs[workers'[w].job].person = p
                   => workers'[w].report = Presence(p)
  PROVE  CatchesUp(p)'
<1> SUFFICES ASSUME Untouched(p)', person'[p] \in {"working", "left"}, ~Announced(p)'
             PROVE  Owed(p)' \/ Told(p)'
  BY DEF CatchesUp
<1>1. Presence(p)' = Presence(p)
  BY DEF Presence
<1>2. Untouched(p)
  BY DEF Untouched, RowsKeep, SameKey
<1>3. \A w \in Workers : Says(w, p)' =>
        \/ Says(w, p) /\ workers'[w] = workers[w]
        \/ workers'[w].report = Presence(p)
  BY DEF Says, WorkersHaveJobs, RowsKeep, SameKey, Working, JobOf
<1>4. CASE Owed(p)
  <2>1. PICK j \in JobIds : /\ jobs[j].person = p /\ jobs[j].op = "entry_exit.sync" /\ jobs[j].accepted = 0
                            /\ \A w \in Workers : Says(w, p) /\ workers[w].job >= j
                                 => workers[w].report = Presence(p)
    BY <1>4 DEF Owed
  <2>2. j \in JobIds' /\ jobs'[j].person = p /\ jobs'[j].op = "entry_exit.sync"
    BY <2>1 DEF RowsKeep, SameKey
  <2>3. jobs'[j].accepted = 0
    BY <2>1, <2>2 DEF Untouched
  <2>4. \A w \in Workers : Says(w, p)' /\ workers'[w].job >= j => workers'[w].report = Presence(p)'
    BY <2>1, <1>1, <1>3
  <2> QED
    BY <2>2, <2>3, <2>4 DEF Owed
<1>5. CASE Told(p)
  BY <1>5, <1>1, <1>3 DEF Told
<1> QED
  BY <1>2, <1>4, <1>5 DEF CatchesUp

\* A report reaches the platform.
LEMMA SayingCatchesUp ==
  ASSUME NEW p \in People, CatchesUp(p), WorkersHaveJobs, JobIds \subseteq Nat, OneJobPerEntity, AccountOne,
         NEW w \in Workers, Says(w, p), workers[w].report # "none",
         JobIds' = JobIds, \A i \in JobIds : i # workers[w].job => jobs'[i] = jobs[i],
         \A j \in JobIds : SameKey(jobs[j], jobs'[j]),
         UNCHANGED <<person, changes, missed, account, retried, straddled>>,
         reported'[p] = workers[w].report,
         \A v \in Workers : v # w => workers'[v] = workers[v], workers'[w].pc # "push"
  PROVE  CatchesUp(p)'
<1> SUFFICES ASSUME Untouched(p)', person'[p] \in {"working", "left"}, ~Announced(p)'
             PROVE  Owed(p)' \/ Told(p)'
  BY DEF CatchesUp
<1>1. Presence(p)' = Presence(p) /\ ~Announced(p)
  BY DEF Presence, Announced
<1>2. Untouched(p)
  BY DEF Untouched, SameKey
<1>3. /\ Working(w) /\ workers[w].job \in JobIds
      /\ jobs[workers[w].job].person = p /\ jobs[workers[w].job].op = "entry_exit.sync"
  BY DEF Says, Working, WorkersHaveJobs, JobOf
<1>4. \A v \in Workers : ~Says(v, p)'
  <2> SUFFICES ASSUME NEW v \in Workers, Says(v, p)' PROVE FALSE
    OBVIOUS
  <2>1. /\ v # w /\ Working(v) /\ workers[v].job \in JobIds
        /\ jobs[workers[v].job].person = p /\ jobs[workers[v].job].op = "entry_exit.sync"
    BY DEF Says, Working, WorkersHaveJobs, JobOf, SameKey
  <2>2. SameEntity(workers[v].job, workers[w].job)
    BY <1>3, <2>1 DEF SameEntity
  <2>3. workers[v].job \notin retried \cup straddled /\ workers[w].job \notin retried \cup straddled
    BY <1>2, <1>3, <2>1 DEF Untouched, AccountOne
  <2> QED
    BY <1>3, <2>1, <2>2, <2>3 DEF OneJobPerEntity
<1>5. CASE workers[w].report = Presence(p)
  BY <1>1, <1>4, <1>5 DEF Told
<1>6. CASE workers[w].report # Presence(p)
  <2>1. PICK j \in JobIds : /\ jobs[j].person = p /\ jobs[j].op = "entry_exit.sync" /\ jobs[j].accepted = 0
                            /\ \A v \in Workers : Says(v, p) /\ workers[v].job >= j
                                 => workers[v].report = Presence(p)
    BY <1>1, <1>2, <1>6 DEF CatchesUp, Owed, Told
  <2>2. j # workers[w].job
    BY <1>6, <2>1, <1>3
  <2> QED
    BY <2>1, <2>2, <1>4 DEF Owed
<1> QED
  BY <1>5, <1>6

\* The change that has just been dispatched.
LEMMA DispatchCatchesUp ==
  ASSUME NEW p \in People, CatchesUp(p), WorkersHaveJobs, RowsKeep, EventsOnce, ChangesTyped,
         (JobIds \subseteq Nat)',
         UNCHANGED <<person, reported, account, retried, workers>>, missed' = missed,
         changes[p] # <<>>, changes'[p] = Tail(changes[p]),
         \A j \in JobIds : jobs'[j] = jobs[j],
         changes[p][1].entryExit =>
           \E j \in JobIds' : /\ jobs'[j].op = "entry_exit.sync" /\ jobs'[j].person = p
                              /\ jobs'[j].event = changes[p][1].event
  PROVE  CatchesUp(p)'
<1>1. /\ 1 \in DOMAIN changes[p]
      /\ \A k \in DOMAIN changes[p] : k # 1 =>
           \E l \in DOMAIN changes'[p] : k = l + 1 /\ changes'[p][l] = changes[p][k]
  BY Taken DEF ChangesTyped
<1>2. CASE changes[p][1].entryExit
  <2>1. PICK j \in JobIds' : /\ jobs'[j].op = "entry_exit.sync" /\ jobs'[j].person = p
                             /\ jobs'[j].event = changes[p][1].event
    BY <1>2
  <2>2. j \notin JobIds
    <3> SUFFICES ASSUME j \in JobIds PROVE FALSE
      OBVIOUS
    <3>1. jobs[j].person = p /\ jobs[j].event = changes[p][1].event
      BY <2>1
    <3> QED
      BY <3>1, <1>1 DEF EventsOnce
  <2>3. jobs'[j].accepted = 0 /\ \A i \in JobIds : i < j
    BY <2>1, <2>2 DEF RowsKeep, Fresh
  <2>4. \A w \in Workers : ~(Says(w, p)' /\ workers'[w].job >= j)
    <3> SUFFICES ASSUME NEW w \in Workers, workers[w].pc = "push", workers[w].job >= j PROVE FALSE
      BY DEF Says
    <3>1. workers[w].job \in JobIds /\ workers[w].job \in Nat
      BY DEF WorkersHaveJobs, Working
    <3> QED
      BY <2>3, <3>1, <2>1
  <2> QED
    BY <2>1, <2>3, <2>4 DEF CatchesUp, Owed
<1>3. CASE ~changes[p][1].entryExit
  <2>1. Announced(p) => Announced(p)'
    BY <1>1, <1>3 DEF Announced
  <2> QED
    BY <2>1, PersonCatchesUp
<1> QED
  BY <1>2, <1>3

\* What a person who was just written has ahead.
LEMMA WrittenCatchesUp ==
  ASSUME NEW p \in People, Unknown, WorkersHaveJobs, ChangesTyped, changes \in [People -> Seq(Event)],
         person \in [People -> {"none", "working", "left", "removed"}], events + 1 \in 1 .. MaxEvents,
         Hire(p) \/ Leave(p) \/ Return(p) \/ Remove(p)
  PROVE  CatchesUp(p)'
<1>1. CASE Hire(p)
  <2>1. person[p] = "none" /\ UNCHANGED <<jobs, workers, reported>> /\ JobIds' = JobIds
    BY <1>1 DEF Hire, Written, history, JobIds
  <2>2. \A w \in Workers : ~Says(w, p)'
    BY <2>1 DEF Says, Unknown, WorkersHaveJobs, Working, JobOf
  <2>3. reported'[p] = "none"
    BY <2>1 DEF Unknown
  <2> QED
    BY <2>2, <2>3 DEF CatchesUp, Told
<1>2. CASE Remove(p)
  BY <1>2 DEF Remove, Written, CatchesUp
<1>3. CASE Leave(p) \/ Return(p)
  <2> DEFINE c == [event |-> events + 1, update |-> TRUE, entryExit |-> TRUE]
  <2>1. c \in Event /\ c.entryExit
    BY DEF Event
  <2>2. changes' = [changes EXCEPT ![p] = Append(changes[p], c)]
    BY <1>3 DEF Leave, Return, Written
  <2> HIDE DEF c
  <2>3. \E k \in DOMAIN changes'[p] : changes'[p][k] = c
    BY <2>1, <2>2, Appended DEF ChangesTyped
  <2> QED
    BY <2>1, <2>3 DEF CatchesUp, Announced
<1> QED
  BY <1>1, <1>2, <1>3

\* A change appended behind the others leaves them there.
LEMMA AnnouncedStays ==
  ASSUME NEW p \in People, ChangesTyped, NEW c \in Event, changes'[p] \in {changes[p], Append(changes[p], c)}
  PROVE  Announced(p) => Announced(p)'
<1>1. CASE changes'[p] = changes[p]
  BY <1>1 DEF Announced
<1>2. CASE changes'[p] = Append(changes[p], c)
  BY <1>2, Appended DEF Announced, ChangesTyped
<1> QED
  BY <1>1, <1>2

\* Once nothing is announced and nothing owed, what was told is true.
LEMMA CaughtUp ==
  ASSUME ReportsCatchUp, SuccessSpoke
  PROVE  ReportedInOrder
<1> SUFFICES ASSUME NEW p \in People, p \notin missed, account = 1, changes[p] = <<>>,
        person[p] \in {"working", "left"},
                    reported[p] # "none",
                    \A j \in JobIds : jobs[j].person = p =>
                      j \notin retried /\ (jobs[j].op = "entry_exit.sync" => jobs[j].status = "success")
             PROVE  reported[p] = Presence(p)
  BY DEF ReportedInOrder
<1>1. Untouched(p)
  BY DEF Untouched
<1>2. ~Announced(p)
  BY DEF Announced
<1>3. ~Owed(p)
  <2> SUFFICES ASSUME NEW j \in JobIds, jobs[j].person = p, jobs[j].op = "entry_exit.sync", jobs[j].accepted = 0
               PROVE  FALSE
    BY DEF Owed
  <2> QED
    BY DEF SuccessSpoke
<1> QED
  BY <1>1, <1>2, <1>3 DEF ReportsCatchUp, CatchesUp, Told

-----------------------------------------------------------------------------
(* The actions, in their order. *)

JobsInv == TypeOK /\ Leases /\ Current /\ Sends /\ Spoken /\ Ledger /\ Reporting /\ ReportsCatchUp

\* What the type invariant tells the lemmas above.
LEMMA Known ==
  ASSUME TypeOK
  PROVE  /\ WorkersHaveJobs /\ JobIds \subseteq Nat /\ Counted /\ ChangesTyped /\ straddled \subseteq JobIds
         /\ \A j \in JobIds : jobs[j] \in Job /\ jobs[j].event \in Nat
         /\ \A w \in Workers : workers[w] \in Worker
         /\ account \in Nat \ {0} /\ events \in Nat
<1>1. /\ \A j \in JobIds : jobs[j] \in Job /\ j \in Nat
      /\ JobIds \subseteq Nat
  BY SeqOfJobs DEF TypeOK, JobIds
<1>2. \A e \in Job : e.accepted \in Nat /\ e.excused \in Nat /\ e.event \in Nat
  BY BoundsAssumption DEF Job
<1>3. Counted /\ \A j \in JobIds : jobs[j].event \in Nat
  BY <1>1, <1>2 DEF Counted
<1>4. WorkersHaveJobs
  BY <1>1 DEF TypeOK, WorkersHaveJobs
<1>5. account \in Nat \ {0} /\ events \in Nat
  BY BoundsAssumption DEF TypeOK, Accounts
<1>6. ChangesTyped /\ straddled \subseteq JobIds /\ \A w \in Workers : workers[w] \in Worker
  BY DEF TypeOK, ChangesTyped
<1> QED
  BY <1>1, <1>3, <1>4, <1>5, <1>6

\* NextKeepsJobsInv that touch neither the table nor the tasks.
LEMMA QuietKeeps ==
  ASSUME Leases, Current, Sends, Spoken, Reporting, UNCHANGED <<jobs, workers, retried, straddled, account,
                                                                mapped>>
  PROVE  Leases' /\ Current' /\ Sends' /\ Spoken' /\ Reporting'
<1>1. UNCHANGED JobIds
  BY DEF JobIds
<1>2. Leases'
  BY <1>1 DEF Leases, Held, HeldOnce, Ahead, Working, JobOf, SameEntity
<1>3. Current'
  BY <1>1 DEF Current, TokensAreCurrent, TasksAreCurrent, MappingIsOfThisAccount, AccountOne, Working, JobOf
<1>4. Sends'
  BY <1>1 DEF Sends, PollsMeansToken, Phases, RedeliveryIsExplained, RestingIsUnsent, TaskIsUnsent, Working,
     JobOf,
              Got, Unsent, Unrecorded, Saving
<1>5. Spoken' /\ Reporting'
  BY <1>1 DEF Spoken, SpokenIsSettled, SuccessSpoke, Reporting, Working, JobOf, Saving
<1> QED
  BY <1>2, <1>3, <1>4, <1>5

\* ... nor what a person has been reported as.
LEMMA QuietCatchesUp ==
  ASSUME JobsInv, UNCHANGED <<jobs, workers, retried, account, reported>>, missed \subseteq missed',
         NEW p \in People, person'[p] = person[p], Announced(p) => Announced(p)'
  PROVE  CatchesUp(p)'
<1>1. CatchesUp(p) /\ WorkersHaveJobs
  BY Known DEF JobsInv, ReportsCatchUp
<1>2. RowsKeep
  BY DEF RowsKeep, SameKey, JobIds
<1> QED
  BY <1>1, <1>2, PersonCatchesUp

\* The domain writes.
LEMMA WrittenTyped ==
  ASSUME TypeOK, NEW p \in People, NEW from \in SUBSET {"none", "working", "left"},
         NEW to \in {"working", "left", "removed"},
         NEW update \in BOOLEAN, NEW entryExit \in BOOLEAN, Written(p, from, to, update, entryExit)
  PROVE  TypeOK' /\ events + 1 \in 1 .. MaxEvents
<1> DEFINE c == [event |-> events + 1, update |-> update, entryExit |-> entryExit]
<1>1. events + 1 \in 1 .. MaxEvents
  BY BoundsAssumption DEF TypeOK, Written
<1>2. c \in Event
  BY <1>1 DEF Event
<1>3. changes' = [changes EXCEPT ![p] = Append(changes[p], c)]
  BY DEF Written
<1> HIDE DEF c
<1>4. changes' \in [People -> Seq(Event)]
  BY <1>2, <1>3, Appended DEF TypeOK
<1>5. events' \in 0 .. MaxEvents /\ person' \in [People -> {"none", "working", "left", "removed"}]
  BY <1>1, BoundsAssumption DEF TypeOK, Written
<1>6. UNCHANGED <<jobs, JobIds, account, enabled, mapped, attended, workers, asked, retries, faults, switches,
                  reported, straddled, retried, missed>>
  BY DEF Written, JobIds, bounds, history
<1>7. \A w \in Workers : Working(w)' = Working(w)
  BY <1>6 DEF Working
<1> QED
  BY <1>1, <1>4, <1>5, <1>6, <1>7 DEF TypeOK, Accounts

\* Hire, Leave, Return and Remove.
LEMMA DomainWriteKeeps ==
  ASSUME JobsInv, NEW p \in People, Hire(p) \/ Leave(p) \/ Return(p) \/ Remove(p)
  PROVE  JobsInv'
<1>1. PICK from \in SUBSET {"none", "working", "left"}, to \in {"working", "left", "removed"},
           update \in BOOLEAN, entryExit \in BOOLEAN : Written(p, from, to, update, entryExit)
  BY DEF Hire, Leave, Return, Remove
<1>2. TypeOK' /\ events + 1 \in 1 .. MaxEvents
  BY <1>1, WrittenTyped DEF JobsInv
<1>3. UNCHANGED <<jobs, workers, retried, straddled, account, mapped, reported, missed>>
  BY <1>1 DEF Written, history
<1>4. Leases' /\ Current' /\ Sends' /\ Spoken' /\ Reporting'
  BY <1>3, QuietKeeps DEF JobsInv
<1>5. Ledger'
  <2>1. /\ Ledger /\ ChangesTyped /\ events \in Nat /\ changes \in [People -> Seq(Event)]
        /\ person \in [People -> {"none", "working", "left", "removed"}]
        /\ \A j \in JobIds : jobs[j].event \in Nat
    BY Known DEF JobsInv, TypeOK
  <2> QED
    BY <1>1, <1>2, <2>1, LedgerWritten
<1>6. ReportsCatchUp'
  <2> SUFFICES ASSUME NEW q \in People PROVE CatchesUp(q)'
    BY DEF ReportsCatchUp
  <2>1. CASE q = p
    BY <2>1, <1>2, WrittenCatchesUp, Known DEF JobsInv, Ledger, TypeOK
  <2>2. CASE q # p
    <3>1. person'[q] = person[q] /\ changes'[q] = changes[q]
      BY <1>1, <2>2 DEF Written, JobsInv, TypeOK
    <3>2. Announced(q) => Announced(q)'
      BY <3>1 DEF Announced
    <3> QED
      BY <1>3, <3>1, <3>2, QuietCatchesUp
  <2> QED
    BY <2>1, <2>2
<1> QED
  BY <1>2, <1>4, <1>5, <1>6 DEF JobsInv

\* NextKeepsJobsInv that the platform's jobs do not notice.
LEMMA AsideKeeps ==
  ASSUME JobsInv, UNCHANGED <<person, changes, events, jobs, account, mapped, attended, workers, reported,
                              straddled, retried, missed>>,
         enabled' \in BOOLEAN, asked' \subseteq JobIds, retries' \in Nat, faults' \in Nat, switches' \in Nat
  PROVE  JobsInv'
<1>1. UNCHANGED JobIds /\ \A w \in Workers : Working(w)' = Working(w)
  BY DEF JobIds, Working
<1>2. TypeOK'
  BY <1>1 DEF JobsInv, TypeOK, Accounts
<1>3. Leases' /\ Current' /\ Sends' /\ Spoken' /\ Reporting'
  BY QuietKeeps DEF JobsInv
<1>4. Ledger'
  BY <1>1, LedgerRests DEF JobsInv, SameKey
<1>5. ReportsCatchUp'
  BY QuietCatchesUp DEF ReportsCatchUp, Announced
<1> QED
  BY <1>2, <1>3, <1>4, <1>5 DEF JobsInv
-----------------------------------------------------------------------------
\* The switch in the configuration.
LEMMA DisableBindingKeeps == JobsInv /\ DisableBinding => JobsInv'
<1> SUFFICES ASSUME JobsInv, DisableBinding PROVE JobsInv'
  OBVIOUS
<1>1. UNCHANGED <<person, changes, events, jobs, account, mapped, attended, workers, reported, straddled,
                  retried,
                  missed, asked, retries, faults>> /\ enabled' = FALSE /\ switches' = switches + 1
  BY DEF DisableBinding, Switch, history
<1>2. enabled' \in BOOLEAN
  BY <1>1
<1>3. asked' \subseteq JobIds /\ retries' \in Nat /\ faults' \in Nat /\ switches' \in Nat
  <2>1. asked \subseteq JobIds /\ retries \in Nat /\ faults \in Nat /\ switches \in Nat
    BY DEF JobsInv, TypeOK
  <2> QED
    BY <1>1, <2>1
<1> QED
  BY <1>1, <1>2, <1>3, AsideKeeps

\* The retry button has read a status.
LEMMA AskRetryKeeps ==
  ASSUME JobsInv, NEW j \in JobIds, AskRetry(j)
  PROVE  JobsInv'
<1>1. UNCHANGED <<person, changes, events, jobs, account, enabled, mapped, attended, workers, reported,
                  straddled,
                  retried, missed, faults, switches>>
      /\ asked' = asked \cup {j} /\ retries' = retries + 1
  BY DEF AskRetry, history, outside
<1> QED
  BY <1>1, AsideKeeps DEF JobsInv, TypeOK, JobIds

\* Nothing happens.
LEMMA StutterKeeps == JobsInv /\ UNCHANGED vars => JobsInv'
<1> SUFFICES ASSUME JobsInv, UNCHANGED vars PROVE JobsInv'
  OBVIOUS
<1>1. UNCHANGED <<person, changes, events, jobs, account, enabled, mapped, attended, workers, reported,
                  straddled,
                  retried, missed, asked, retries, faults, switches>>
  BY DEF vars, outside, bounds, history
<1> QED
  BY <1>1, AsideKeeps DEF JobsInv, TypeOK, JobIds

\* Everybody present is sent again.
LEMMA BootstrappingTyped ==
  ASSUME TypeOK, Bootstrapping
  PROVE  /\ events + 1 \in 1 .. MaxEvents /\ events' \in 0 .. MaxEvents /\ enabled' \in BOOLEAN
         /\ changes' \in [People -> Seq(Event)]
         /\ \A p \in People : Announced(p) => Announced(p)'
<1> DEFINE c == [event |-> events + 1, update |-> FALSE, entryExit |-> FALSE]
<1>1. events + 1 \in 1 .. MaxEvents /\ events' \in 0 .. MaxEvents /\ enabled' \in BOOLEAN
  BY BoundsAssumption DEF TypeOK, Bootstrapping
<1>2. c \in Event
  BY <1>1 DEF Event
<1>3. changes' = [p \in People |-> IF person[p] \in {"working", "left"} THEN Append(changes[p], c) ELSE changes[p]]
  BY DEF Bootstrapping
<1> HIDE DEF c
<1>4. \A p \in People : changes'[p] \in Seq(Event)
  BY <1>2, <1>3, Appended DEF TypeOK
<1>5. changes' \in [People -> Seq(Event)]
  BY <1>3, <1>4
<1>6. ASSUME NEW p \in People PROVE Announced(p) => Announced(p)'
  <2>1. changes'[p] \in {changes[p], Append(changes[p], c)}
    BY <1>3
  <2> QED
    BY <2>1, <1>2, AnnouncedStays, Known
<1> QED
  BY <1>1, <1>5, <1>6

\* The configuration is enabled again.
LEMMA EnableBindingKeeps == JobsInv /\ EnableBinding => JobsInv'
<1> SUFFICES ASSUME JobsInv, EnableBinding PROVE JobsInv'
  OBVIOUS
<1>1. Bootstrapping /\ UNCHANGED <<person, jobs, account, mapped, attended, workers, reported, straddled,
                                   retried,
                                   missed, asked, retries, faults, switches>>
  BY DEF EnableBinding, Bootstrapping
<1>2. UNCHANGED JobIds /\ \A w \in Workers : Working(w)' = Working(w)
  BY <1>1 DEF JobIds, Working
<1>3. TypeOK'
  BY <1>1, <1>2, BootstrappingTyped DEF JobsInv, TypeOK, Accounts
<1>4. Leases' /\ Current' /\ Sends' /\ Spoken' /\ Reporting'
  BY <1>1, QuietKeeps DEF JobsInv
<1>5. Ledger'
  <2>1. \A j \in JobIds : SameKey(jobs[j], jobs'[j])
    BY <1>1 DEF SameKey
  <2> QED
    BY <1>1, <1>2, <2>1, LedgerBootstrapped, BootstrappingTyped, Known DEF JobsInv
<1>6. ReportsCatchUp'
  BY <1>1, BootstrappingTyped, QuietCatchesUp DEF JobsInv, ReportsCatchUp
<1> QED
  BY <1>3, <1>4, <1>5, <1>6 DEF JobsInv

\* The rows of the old account.
LEMMA RetiredRow ==
  ASSUME NEW e \in Job
  PROVE  /\ Retired(e) \in Job /\ SameKey(e, Retired(e)) /\ Retired(e).token = e.token
         /\ Retired(e).accepted = e.accepted /\ Retired(e).excused = e.excused
         /\ Retired(e).status \in Finished
         /\ Retired(e).status = "disabled" \/ Retired(e) = e
         /\ e.status \in Active => Retired(e).status = "disabled"
<1>1. CASE e.status \in Finished
  BY <1>1 DEF Retired, SameKey, Finished, Active
<1>2. CASE e.status \notin Finished
  <2>1. "disabled" \in {"waiting_data"} \cup Active \cup Finished /\ "disabled" \in Finished
    BY DEF Finished
  <2> QED
    BY <1>2, <2>1 DEF Retired, SameKey, Job
<1> QED
  BY <1>1, <1>2

\* The configuration is given another account.
LEMMA ChangeAccountKeeps == JobsInv /\ ChangeAccount => JobsInv'
<1> SUFFICES ASSUME JobsInv, ChangeAccount PROVE JobsInv'
  OBVIOUS
<1>1. /\ Bootstrapping /\ UNCHANGED <<person, workers, asked, retries, faults, reported, retried, missed>>
      /\ account' = account + 1 /\ account < MaxAccounts /\ switches' = switches + 1
      /\ mapped' = [p \in People |-> 0] /\ attended' = {}
      /\ jobs' = [j \in JobIds |-> Retired(jobs[j])]
      /\ straddled' = straddled \cup {workers[w].job : w \in {v \in Workers : Working(v)}}
  BY DEF ChangeAccount, Bootstrapping, Switch
<1>2. /\ WorkersHaveJobs /\ JobIds \subseteq Nat /\ Counted /\ ChangesTyped /\ straddled \subseteq JobIds
      /\ \A j \in JobIds : jobs[j] \in Job /\ jobs[j].event \in Nat
      /\ account \in Nat \ {0} /\ events \in Nat
  BY Known DEF JobsInv
<1>3. JobIds' = JobIds
  BY <1>1 DEF JobIds
<1>4. \A j \in JobIds : /\ jobs'[j] \in Job /\ SameKey(jobs[j], jobs'[j]) /\ jobs'[j].token = jobs[j].token
                        /\ jobs'[j].accepted = jobs[j].accepted /\ jobs'[j].excused = jobs[j].excused
                        /\ jobs'[j].status \in Finished
                        /\ jobs'[j].status = "disabled" \/ jobs'[j] = jobs[j]
                        /\ jobs[j].status \in Active => jobs'[j].status = "disabled"
  BY <1>1, <1>2, RetiredRow
<1>5. \A w \in Workers : Working(w) => workers[w].job \in straddled'
  BY <1>1
<1>6. straddled' \subseteq JobIds
  BY <1>1, <1>2 DEF WorkersHaveJobs
<1>7. TypeOK'
  <2>1. jobs' \in Seq(Job)
    <3>1. jobs' \in [DOMAIN jobs -> Job]
      BY <1>1, <1>4 DEF JobIds
    <3> QED
      BY <3>1, Mapping DEF JobsInv, TypeOK
  <2>2. account' \in Accounts
    BY <1>1, <1>2, BoundsAssumption DEF Accounts
  <2>3. mapped' \in [People -> 0 .. MaxAccounts] /\ attended' \subseteq 1 .. MaxEvents /\ switches' \in Nat
    BY <1>1, BoundsAssumption DEF JobsInv, TypeOK
  <2>4. \A w \in Workers : Working(w)' = Working(w)
    BY <1>1 DEF Working
  <2> QED
    BY <1>1, <1>3, <1>6, <2>1, <2>2, <2>3, <2>4, BootstrappingTyped DEF JobsInv, TypeOK
<1>8. RowsKeep /\ TasksContinue /\ HistoryGrows
  BY <1>1, <1>3, <1>4 DEF RowsKeep, TasksContinue, HistoryGrows, Working
<1>9. Leases'
  <2>1. LeasesKeep
    BY <1>1, <1>2, <1>4, <1>5 DEF LeasesKeep, WorkersHaveJobs, Working, JobsInv, Leases, Held, JobOf, Active
  <2>2. NoneReopens
    BY <1>4 DEF NoneReopens, Active, Finished
  <2> QED
    BY <1>2, <1>8, <2>1, <2>2, LeasesGoOn DEF JobsInv
<1>10. Current'
  BY <1>1, <1>2, <1>3, <1>4, <1>5, CurrentChanged
<1>11. Sends'
  BY <1>1, <1>2, <1>4, <1>8, SendsRest DEF JobsInv
<1>12. Spoken'
  BY <1>1, <1>2, <1>4, <1>8, SpokenRest DEF JobsInv
<1>13. Ledger'
  BY <1>1, <1>2, <1>3, <1>4, LedgerBootstrapped, BootstrappingTyped DEF JobsInv
<1>14. Reporting'
  BY <1>1, <1>2, <1>8, ReportingKeeps DEF JobsInv
<1>15. ReportsCatchUp'
  <2>1. account' # 1
    BY <1>1, <1>2
  <2> QED
    BY <2>1 DEF ReportsCatchUp, CatchesUp, Untouched
<1> QED
  BY <1>7, <1>9, <1>10, <1>11, <1>12, <1>13, <1>14, <1>15 DEF JobsInv
-----------------------------------------------------------------------------
\* Rows that were added leave the ones before them alone.
LEMMA GrownKeeps ==
  ASSUME TypeOK, Grown(jobs, jobs')
  PROVE  /\ RowsKeep /\ JobIds \subseteq JobIds' /\ (JobIds \subseteq Nat)'
         /\ \A j \in JobIds : jobs'[j] = jobs[j]
<1>1. (JobIds \subseteq Nat)'
  BY SeqOfJobs DEF Grown, JobIds
<1> QED
  BY <1>1 DEF Grown, RowsKeep, SameKey, JobIds

\* ... and so everything that is said of them stays.
LEMMA GrowingKeeps ==
  ASSUME JobsInv, Grown(jobs, jobs'), UNCHANGED <<workers, retried, straddled, account, mapped>>
  PROVE  Leases' /\ Current' /\ Sends' /\ Spoken' /\ Reporting'
<1>1. RowsKeep /\ JobIds \subseteq JobIds' /\ \A j \in JobIds : jobs'[j] = jobs[j]
  BY GrownKeeps DEF JobsInv
<1>2. WorkersHaveJobs /\ JobIds \subseteq Nat /\ straddled \subseteq JobIds
  BY Known DEF JobsInv
<1>3. TasksContinue /\ HistoryGrows /\ NoneReopens /\ LeasesKeep
  BY <1>1, <1>2 DEF TasksContinue, HistoryGrows, NoneReopens, LeasesKeep, WorkersHaveJobs, Working, JobOf
<1>4. Leases'
  BY <1>1, <1>2, <1>3, LeasesGoOn DEF JobsInv
<1>5. Current'
  BY <1>1, <1>2, <1>3, CurrentGoesOn DEF JobsInv
<1>6. Sends' /\ Spoken'
  BY <1>1, <1>2, SendsRest, SpokenRest DEF JobsInv
<1>7. Reporting'
  BY <1>1, <1>2, ReportingKeeps DEF JobsInv
<1> QED
  BY <1>4, <1>5, <1>6, <1>7

\* ... and the table stays a table.
LEMMA GrowingTyped ==
  ASSUME TypeOK, Grown(jobs, jobs'), UNCHANGED <<person, account, enabled, mapped, attended, workers, asked,
                                                 retries, faults,
                                               switches, reported, straddled, retried>>,
         changes' \in [People -> Seq(Event)], events' \in 0 .. MaxEvents, missed' \subseteq People
  PROVE  TypeOK'
<1>1. JobIds \subseteq JobIds'
  BY GrownKeeps
<1>2. jobs' \in Seq(Job)
  BY DEF Grown
<1>3. \A w \in Workers : Working(w)' = Working(w)
  BY DEF Working
<1> QED
  BY <1>1, <1>2, <1>3 DEF TypeOK, Accounts

\* A punch becomes a job.
LEMMA RecordAttendanceGrows ==
  ASSUME TypeOK, NEW p \in People, RecordAttendance(p)
  PROVE  /\ events + 1 \in 1 .. MaxEvents /\ events' = events + 1 /\ events' \in 0 .. MaxEvents
         /\ Grown(jobs, jobs')
         /\ \A j \in JobIds' \ JobIds : jobs'[j].person = p /\ jobs'[j].event = events + 1
<1>1. /\ events < MaxEvents /\ events' = events + 1
      /\ jobs' = Inserted(jobs, "attendance.sync", p, events + 1, FALSE)
  BY DEF RecordAttendance
<1>2. events + 1 \in 1 .. MaxEvents /\ events' \in 0 .. MaxEvents
  BY <1>1, Known, BoundsAssumption
<1>3. jobs \in Seq(Job) /\ FALSE \in BOOLEAN
  BY DEF TypeOK
<1>4. "attendance.sync" \in {"worker.sync", "entry_exit.sync", "attendance.sync"}
  OBVIOUS
<1>5. \A u \in BOOLEAN : jobs' = Inserted(jobs, "attendance.sync", p, events + 1, u) =>
        /\ Grown(jobs, jobs')
        /\ \A j \in DOMAIN jobs' \ DOMAIN jobs : jobs'[j].person = p /\ jobs'[j].event = events + 1
  BY <1>2, <1>3, <1>4, InsertedGrows
<1> QED
  BY <1>1, <1>2, <1>3, <1>5 DEF JobIds

\* RecordAttendance.
LEMMA RecordAttendanceKeeps ==
  ASSUME JobsInv, NEW p \in People, RecordAttendance(p)
  PROVE  JobsInv'
<1>1. /\ person[p] = "working"
      /\ UNCHANGED <<person, changes, account, enabled, mapped, attended, workers, asked, retries, faults,
                     switches,
                     reported, straddled, retried, missed>>
  BY DEF RecordAttendance, bounds, history
<1>2. /\ WorkersHaveJobs /\ JobIds \subseteq Nat /\ ChangesTyped /\ events \in Nat
      /\ \A j \in JobIds : jobs[j].event \in Nat
  BY Known DEF JobsInv
<1>3. /\ events' = events + 1 /\ events' \in 0 .. MaxEvents /\ Grown(jobs, jobs')
      /\ \A j \in JobIds' \ JobIds : jobs'[j].person = p /\ jobs'[j].event = events + 1
  BY RecordAttendanceGrows DEF JobsInv
<1>4. TypeOK'
  BY <1>1, <1>3, GrowingTyped DEF JobsInv, TypeOK
<1>5. Leases' /\ Current' /\ Sends' /\ Spoken' /\ Reporting'
  BY <1>1, <1>3, GrowingKeeps
<1>6. RowsKeep /\ \A j \in JobIds : jobs'[j] = jobs[j]
  BY <1>3, GrownKeeps DEF JobsInv
<1>7. Ledger'
  BY <1>1, <1>2, <1>3, <1>6, LedgerRecorded DEF JobsInv
<1>8. ReportsCatchUp'
  <2> SUFFICES ASSUME NEW q \in People PROVE CatchesUp(q)'
    BY DEF ReportsCatchUp
  <2>1. CatchesUp(q) /\ (Announced(q) => Announced(q)')
    BY <1>1 DEF JobsInv, ReportsCatchUp, Announced
  <2> QED
    BY <1>1, <1>2, <1>6, <2>1, PersonCatchesUp
<1> QED
  BY <1>4, <1>5, <1>7, <1>8 DEF JobsInv

\* One event becomes one or two jobs.
LEMMA DispatchGrows ==
  ASSUME TypeOK, NEW p \in People, Dispatch(p)
  PROVE  /\ Grown(jobs, jobs') /\ changes[p] # <<>> /\ changes' = [changes EXCEPT ![p] = Tail(changes[p])]
         /\ \A j \in JobIds' \ JobIds : jobs'[j].person = p /\ jobs'[j].event = changes[p][1].event
         /\ changes[p][1].entryExit /\ enabled =>
              \E j \in JobIds' : /\ jobs'[j].op = "entry_exit.sync" /\ jobs'[j].person = p
                                 /\ jobs'[j].event = changes[p][1].event
<1> DEFINE c == changes[p][1]
<1> DEFINE s == Inserted(jobs, "worker.sync", p, c.event, c.update)
<1> DEFINE t == Inserted(s, "entry_exit.sync", p, c.event, c.update)
<1>1. changes[p] # <<>> /\ changes[p] \in Seq(Event) /\ Head(changes[p]) = c /\ c \in Event
  BY Taken DEF Dispatch, TypeOK
<1>2. c.event \in 1 .. MaxEvents /\ c.update \in BOOLEAN
  BY <1>1 DEF Event
<1>3. jobs' = IF ~enabled THEN jobs ELSE IF c.entryExit THEN t ELSE s
  BY <1>1 DEF Dispatch
<1>4. c.entryExit \in BOOLEAN /\ enabled \in BOOLEAN
  BY <1>1 DEF Event, TypeOK
<1> HIDE DEF c
<1>5. /\ Grown(jobs, s) /\ \A j \in DOMAIN s \ DOMAIN jobs : s[j].person = p /\ s[j].event = c.event
  BY <1>2, InsertedGrows DEF TypeOK
<1> HIDE DEF s
<1>6. /\ Grown(s, t) /\ \A j \in DOMAIN t \ DOMAIN s : t[j].person = p /\ t[j].event = c.event
      /\ \E j \in DOMAIN t : t[j].op = "entry_exit.sync" /\ t[j].person = p /\ t[j].event = c.event
  <2>1. s \in Seq(Job)
    BY <1>5 DEF Grown
  <2>2. "entry_exit.sync" \in {"worker.sync", "entry_exit.sync", "attendance.sync"}
    OBVIOUS
  <2> HIDE DEF t
  <2>3. t = Inserted(s, "entry_exit.sync", p, c.event, c.update)
    BY DEF t
  <2> QED
    BY <1>2, <2>1, <2>2, <2>3, InsertedGrows
<1> HIDE DEF t
<1>7. /\ Grown(jobs, t) /\ \A j \in DOMAIN t \ DOMAIN jobs : t[j].person = p /\ t[j].event = c.event
  BY <1>5, <1>6 DEF Grown, Fresh
<1>8. Grown(jobs, jobs)
  BY DEF Grown, TypeOK
<1>9. changes' = [changes EXCEPT ![p] = Tail(changes[p])]
  BY DEF Dispatch
<1> QED
  BY <1>1, <1>3, <1>4, <1>5, <1>6, <1>7, <1>8, <1>9 DEF JobIds, c

\* Dispatch.
LEMMA DispatchKeeps ==
  ASSUME JobsInv, NEW p \in People, Dispatch(p)
  PROVE  JobsInv'
<1>1. /\ Grown(jobs, jobs') /\ changes[p] # <<>> /\ changes' = [changes EXCEPT ![p] = Tail(changes[p])]
      /\ \A j \in JobIds' \ JobIds : jobs'[j].person = p /\ jobs'[j].event = changes[p][1].event
      /\ changes[p][1].entryExit /\ enabled =>
           \E j \in JobIds' : /\ jobs'[j].op = "entry_exit.sync" /\ jobs'[j].person = p
                              /\ jobs'[j].event = changes[p][1].event
  BY DispatchGrows DEF JobsInv
<1>2. /\ UNCHANGED <<person, events, account, enabled, mapped, attended, workers, asked, retries, faults,
                     switches,
                     reported, straddled, retried>>
      /\ missed' = missed \cup {q \in {p} : ~enabled}
  BY DEF Dispatch, bounds
<1>3. WorkersHaveJobs /\ ChangesTyped
  BY Known DEF JobsInv
<1>4. changes \in [People -> Seq(Event)] /\ changes' \in [People -> Seq(Event)]
  BY <1>1, Taken DEF JobsInv, TypeOK
<1>5. TypeOK'
  BY <1>1, <1>2, <1>4, GrowingTyped DEF JobsInv, TypeOK
<1>6. Leases' /\ Current' /\ Sends' /\ Spoken' /\ Reporting'
  BY <1>1, <1>2, GrowingKeeps
<1>7. RowsKeep /\ (JobIds \subseteq Nat)' /\ \A j \in JobIds : jobs'[j] = jobs[j]
  BY <1>1, GrownKeeps DEF JobsInv
<1>8. Ledger'
  BY <1>1, <1>2, <1>3, <1>4, <1>7, LedgerDispatched DEF JobsInv
<1>9. ReportsCatchUp'
  <2> SUFFICES ASSUME NEW q \in People PROVE CatchesUp(q)'
    BY DEF ReportsCatchUp
  <2>1. CatchesUp(q)
    BY DEF JobsInv, ReportsCatchUp
  <2>2. CASE q # p
    <3>1. (Announced(q) => Announced(q)') /\ (q \in missed => q \in missed')
      BY <1>1, <1>2, <1>4, <2>2 DEF Announced
    <3> QED
      BY <1>2, <1>3, <1>7, <2>1, <3>1, PersonCatchesUp
  <2>3. CASE q = p /\ ~enabled
    BY <1>2, <2>3 DEF CatchesUp, Untouched
  <2>4. CASE q = p /\ enabled
    <3>1. missed' = missed /\ changes'[p] = Tail(changes[p])
      BY <1>1, <1>2, <1>4, <2>4
    <3> QED
      BY <1>1, <1>2, <1>3, <1>7, <2>1, <2>4, <3>1, DispatchCatchesUp DEF JobsInv, Ledger
  <2> QED
    BY <2>2, <2>3, <2>4
<1> QED
  BY <1>5, <1>6, <1>8, <1>9 DEF JobsInv
-----------------------------------------------------------------------------
\* A step that writes one row, a task that turns to something else, and what is
\* left of the type.
LEMMA RowStep ==
  ASSUME TypeOK, NEW j \in JobIds, NEW e \in Job, jobs' = [jobs EXCEPT ![j] = e]
  PROVE  /\ jobs' \in Seq(Job) /\ JobIds' = JobIds
         /\ \A i \in JobIds : jobs'[i] = IF i = j THEN e ELSE jobs[i]
BY Replaced DEF TypeOK, JobIds

\* A step of one task.
LEMMA TaskStep ==
  ASSUME TypeOK, NEW w \in Workers, NEW r \in Worker, workers' = [workers EXCEPT ![w] = r],
         JobIds \subseteq JobIds', r.pc # "idle" => r.job \in JobIds
  PROVE  /\ workers' \in [Workers -> Worker]
         /\ \A v \in Workers : workers'[v] = IF v = w THEN r ELSE workers[v]
         /\ \A v \in Workers : Working(v)' => workers'[v].job \in JobIds'
<1>1. /\ workers' \in [Workers -> Worker]
      /\ \A v \in Workers : workers'[v] = IF v = w THEN r ELSE workers[v]
  BY DEF TypeOK
<1> QED
  BY <1>1 DEF TypeOK, Working

\* A task without a job.
LEMMA IdleIsWorker == Idle \in Worker /\ Idle.pc = "idle"
BY BoundsAssumption DEF Idle, Worker

\* The type of what a task, the operator or the clock may write.
LEMMA TableTyped ==
  ASSUME TypeOK, jobs' \in Seq(Job), JobIds \subseteq JobIds', UNCHANGED <<person, changes, events, account,
                                                                           enabled>>,
         workers' \in [Workers -> Worker], \A v \in Workers : Working(v)' => workers'[v].job \in JobIds',
         mapped' \in [People -> 0 .. MaxAccounts], attended' \subseteq 1 .. MaxEvents,
         asked' \subseteq JobIds, retries' \in Nat, faults' \in Nat, switches' \in Nat,
         reported' \in [People -> {"none", "entry", "exit"}],
         straddled' = straddled, retried' \subseteq JobIds, missed' = missed
  PROVE  TypeOK'
BY DEF TypeOK, Accounts

\* A claim.
LEMMA LeasedRow ==
  ASSUME NEW e \in Job
  PROVE  /\ Leased(e) \in Job /\ SameKey(e, Leased(e)) /\ Leased(e).token = e.token
         /\ Leased(e).accepted = e.accepted /\ Leased(e).excused = e.excused
         /\ Leased(e).status = "processing" /\ Leased(e).lease = "live"
<1> DEFINE n == e.attempts + 1
<1>1. n \in Nat /\ "processing" \in {"waiting_data"} \cup Active \cup Finished
  BY DEF Job, Active
<1>2. Leased(e) = [e EXCEPT !.status = "processing", !.lease = "live", !.attempts = n]
  BY DEF Leased
<1> HIDE DEF n
<1> QED
  BY <1>1, <1>2 DEF Job, SameKey

\* ClaimJob.
LEMMA ClaimJobKeeps ==
  ASSUME JobsInv, NEW w \in Workers, NEW j \in JobIds, ClaimJob(w, j)
  PROVE  JobsInv'
<1> DEFINE r == [Idle EXCEPT !.pc = "claimed", !.job = j, !.attempts = jobs[j].attempts + 1,
                             !.account = jobs[j].token,
                             !.polls = jobs[j].status = "awaiting_result" \/ jobs[j].token # 0]
<1>1. /\ ~Working(w) /\ Claimable(j) /\ jobs' = [jobs EXCEPT ![j] = Leased(jobs[j])]
      /\ workers' = [workers EXCEPT ![w] = r]
      /\ UNCHANGED <<person, changes, events, account, enabled, mapped, attended, asked, retries, faults,
                     switches,
                     reported, straddled, retried, missed>>
  BY DEF ClaimJob, Working, outside, bounds, history
<1>2. /\ WorkersHaveJobs /\ JobIds \subseteq Nat /\ straddled \subseteq JobIds /\ jobs[j] \in Job /\ j \in Nat
  BY Known DEF JobsInv
<1>3. /\ r \in Worker /\ r.pc = "claimed" /\ r.job = j /\ r.account = jobs[j].token
      /\ r.polls <=> (jobs[j].status = "awaiting_result" \/ jobs[j].token # 0)
  <2> DEFINE n == jobs[j].attempts + 1
  <2> DEFINE p == jobs[j].status = "awaiting_result" \/ jobs[j].token # 0
  <2>1. n \in Nat /\ p \in BOOLEAN /\ jobs[j].token \in 0 .. MaxAccounts
    BY <1>2 DEF Job
  <2>5. r = [Idle EXCEPT !.pc = "claimed", !.job = j, !.attempts = n, !.account = jobs[j].token, !.polls = p]
    BY Zenon
  <2> HIDE DEF n, p, r
  <2>2. r = [pc |-> "claimed", job |-> j, polls |-> p, attempts |-> n, account |-> jobs[j].token,
             report |-> "none", answer |-> "none"]
    BY <2>5 DEF Idle
  <2>3. r \in Worker
    BY <1>2, <2>1, <2>2 DEF Worker
  <2>4. r.polls = p
    BY <2>2
  <2> QED
    BY <2>2, <2>3, <2>4 DEF p
<1> HIDE DEF r
<1>4. /\ jobs' \in Seq(Job) /\ JobIds' = JobIds
      /\ \A i \in JobIds : i # j => jobs'[i] = jobs[i]
      /\ SameKey(jobs[j], jobs'[j]) /\ jobs'[j].token = jobs[j].token
      /\ jobs'[j].accepted = jobs[j].accepted /\ jobs'[j].excused = jobs[j].excused
      /\ jobs'[j].status = "processing" /\ jobs'[j].lease = "live"
  <2> DEFINE e == Leased(jobs[j])
  <2>1. /\ e \in Job /\ SameKey(jobs[j], e) /\ e.token = jobs[j].token
        /\ e.accepted = jobs[j].accepted /\ e.excused = jobs[j].excused
        /\ e.status = "processing" /\ e.lease = "live"
    BY <1>2, LeasedRow
  <2>2. jobs' = [jobs EXCEPT ![j] = e]
    BY <1>1
  <2> HIDE DEF e
  <2>3. /\ jobs' \in Seq(Job) /\ JobIds' = JobIds
        /\ \A i \in JobIds : jobs'[i] = IF i = j THEN e ELSE jobs[i]
    BY <2>1, <2>2, RowStep DEF JobsInv
  <2> QED
    BY <2>1, <2>3
<1>5. /\ workers' \in [Workers -> Worker] /\ workers'[w] = r
      /\ \A v \in Workers : v # w => workers'[v] = workers[v]
      /\ \A v \in Workers : Working(v)' => workers'[v].job \in JobIds'
  BY <1>1, <1>3, <1>4, TaskStep DEF JobsInv
<1>6. RowsKeep
  BY <1>4 DEF RowsKeep, SameKey
<1>7. TypeOK'
  BY <1>1, <1>4, <1>5, TableTyped DEF JobsInv, TypeOK
<1>8. Leases'
  BY <1>1, <1>2, <1>3, <1>4, <1>5, LeasesClaimed DEF JobsInv
<1>9. Current'
  BY <1>1, <1>2, <1>3, <1>4, <1>5, CurrentClaimed DEF JobsInv, Claimable
<1>10. Sends'
  BY <1>1, <1>2, <1>3, <1>4, <1>5, SendsClaimed DEF JobsInv, Leases
<1>11. Spoken'
  BY <1>1, <1>2, <1>3, <1>4, <1>5, SpokenClaimed DEF JobsInv
<1>12. Ledger'
  <2>1. \A i \in JobIds : SameKey(jobs[i], jobs'[i])
    BY <1>6 DEF RowsKeep
  <2> QED
    BY <1>1, <1>4, <2>1, LedgerRests DEF JobsInv
<1>13. \A v \in Workers : workers'[v].pc = "push" => workers'[v] = workers[v]
  BY <1>3, <1>5
<1>14. Reporting'
  BY <1>2, <1>6, <1>13, ReportingKeeps DEF JobsInv
<1>15. ReportsCatchUp'
  <2> SUFFICES ASSUME NEW p \in People PROVE CatchesUp(p)'
    BY DEF ReportsCatchUp
  <2>1. CatchesUp(p) /\ (Announced(p) => Announced(p)')
    BY <1>1 DEF JobsInv, ReportsCatchUp, Announced
  <2> QED
    BY <1>1, <1>2, <1>4, <1>6, <1>13, <2>1, PersonCatchesUp
<1> QED
  BY <1>7, <1>8, <1>9, <1>10, <1>11, <1>12, <1>14, <1>15 DEF JobsInv

\* A step that touches one row, and no task.
LEMMA RowKeeps ==
  ASSUME JobsInv, NEW j \in JobIds, NEW e \in Job, jobs' = [jobs EXCEPT ![j] = e], SameKey(jobs[j], e),
         UNCHANGED <<person, changes, events, account, enabled, mapped, attended, workers, faults, switches,
                     reported, straddled, missed>>,
         asked' \subseteq JobIds, retries' \in Nat, retried \subseteq retried', retried' \subseteq JobIds,
         \/ j \in retried' /\ e.token = 0
         \/ /\ e.token = jobs[j].token /\ e.accepted = jobs[j].accepted /\ e.excused = jobs[j].excused
            /\ e.status = jobs[j].status
            /\ \A w \in Workers : Working(w) => workers[w].job # j
  PROVE  JobsInv'
<1>1. /\ WorkersHaveJobs /\ JobIds \subseteq Nat /\ straddled \subseteq JobIds
  BY Known DEF JobsInv
<1>2. /\ jobs' \in Seq(Job) /\ JobIds' = JobIds
      /\ \A i \in JobIds : jobs'[i] = IF i = j THEN e ELSE jobs[i]
  BY RowStep DEF JobsInv
<1>3. RowsKeep /\ TasksContinue /\ HistoryGrows /\ \A i \in JobIds : SameKey(jobs[i], jobs'[i])
  BY <1>2 DEF RowsKeep, SameKey, TasksContinue, HistoryGrows, Working
<1>4. TypeOK'
  <2>1. \A v \in Workers : Working(v)' => workers'[v].job \in JobIds'
    BY <1>1, <1>2 DEF WorkersHaveJobs, Working
  <2> QED
    BY <1>2, <2>1, TableTyped DEF JobsInv, TypeOK
<1>5. Leases'
  <2>1. LeasesKeep /\ NoneReopens
    BY <1>1, <1>2 DEF LeasesKeep, NoneReopens, Working, JobOf
  <2> QED
    BY <1>1, <1>3, <2>1, LeasesGoOn DEF JobsInv
<1>6. Current'
  BY <1>1, <1>2, <1>3, CurrentGoesOn DEF JobsInv
<1>7. Sends'
  BY <1>1, <1>2, <1>3, SendsRest DEF JobsInv
<1>8. Spoken'
  BY <1>1, <1>2, <1>3, SpokenRest DEF JobsInv
<1>9. Ledger'
  BY <1>2, <1>3, LedgerRests DEF JobsInv
<1>10. Reporting'
  BY <1>1, <1>3, ReportingKeeps DEF JobsInv
<1>11. ReportsCatchUp'
  <2> SUFFICES ASSUME NEW p \in People PROVE CatchesUp(p)'
    BY DEF ReportsCatchUp
  <2>1. CatchesUp(p) /\ (Announced(p) => Announced(p)')
    BY DEF JobsInv, ReportsCatchUp, Announced
  <2> QED
    BY <1>1, <1>2, <1>3, <2>1, PersonCatchesUp
<1> QED
  BY <1>4, <1>5, <1>6, <1>7, <1>8, <1>9, <1>10, <1>11 DEF JobsInv

\* The retry button resets a job, whoever works on it.
LEMMA RetryPlatformJobKeeps ==
  ASSUME JobsInv, NEW j \in JobIds, RetryPlatformJob(j)
  PROVE  JobsInv'
<1> DEFINE e == [jobs[j] EXCEPT !.status = "pending", !.lease = "none", !.attempts = 0, !.token = 0]
<1>1. jobs[j] \in Job
  BY Known DEF JobsInv
<1>2. e \in Job /\ SameKey(jobs[j], e) /\ e.token = 0
  <2>1. "pending" \in {"waiting_data"} \cup Active \cup Finished /\ 0 \in 0 .. MaxAccounts
    BY BoundsAssumption DEF Active
  <2> QED
    BY <1>1, <2>1 DEF Job, SameKey
<1>3. jobs' = [jobs EXCEPT ![j] = e]
  BY DEF RetryPlatformJob
<1> HIDE DEF e
<1>4. /\ UNCHANGED <<person, changes, events, account, enabled, mapped, attended, workers, faults, switches,
                     reported, straddled, missed>>
      /\ asked' \subseteq JobIds /\ retries' \in Nat /\ retried' = retried \cup {j} /\ retried' \subseteq JobIds
  BY DEF RetryPlatformJob, outside, JobsInv, TypeOK
<1> QED
  BY <1>2, <1>3, <1>4, RowKeeps

\* The lease of a task that is gone runs out.
LEMMA LeaseEndsKeeps ==
  ASSUME JobsInv, NEW j \in JobIds, LeaseEnds(j)
  PROVE  JobsInv'
<1> DEFINE e == [jobs[j] EXCEPT !.lease = "expired"]
<1>1. jobs[j] \in Job
  BY Known DEF JobsInv
<1>2. /\ e \in Job /\ SameKey(jobs[j], e) /\ e.token = jobs[j].token /\ e.accepted = jobs[j].accepted
      /\ e.excused = jobs[j].excused /\ e.status = jobs[j].status
  BY <1>1 DEF Job, SameKey
<1>3. jobs' = [jobs EXCEPT ![j] = e]
  BY DEF LeaseEnds
<1> HIDE DEF e
<1>4. /\ UNCHANGED <<person, changes, events, account, enabled, mapped, attended, workers, faults, switches,
                     reported, straddled, missed, asked, retries, retried>>
      /\ \A w \in Workers : Working(w) => workers[w].job # j
  BY DEF LeaseEnds, outside, bounds, history
<1>5. asked \subseteq JobIds /\ retries \in Nat /\ retried \subseteq JobIds
  BY DEF JobsInv, TypeOK
<1> QED
  BY <1>2, <1>3, <1>4, <1>5, RowKeeps
-----------------------------------------------------------------------------
SettlesWith(w, e) ==
  /\ Working(w) /\ Outcome(w, e)
  /\ jobs' = [jobs EXCEPT ![workers[w].job] = e]
  /\ workers' = [workers EXCEPT ![w] = Idle]

\* A settling UPDATE keeps the invariant.
LEMMA SettledKeeps ==
  ASSUME JobsInv, NEW w \in Workers, NEW e \in Job, SettlesWith(w, e),
         UNCHANGED <<mapped, attended, outside, bounds, history>>
  PROVE  JobsInv'
<1> DEFINE j == workers[w].job
<1>1. /\ WorkersHaveJobs /\ JobIds \subseteq Nat /\ straddled \subseteq JobIds /\ j \in JobIds
      /\ Working(w) /\ Outcome(w, e)
  BY Known DEF JobsInv, SettlesWith, WorkersHaveJobs
<1>2. UNCHANGED <<person, changes, events, account, enabled, mapped, attended, asked, retries, faults, switches,
                  reported, straddled, retried, missed>>
  BY DEF outside, bounds, history
<1>3. /\ jobs' \in Seq(Job) /\ JobIds' = JobIds
      /\ \A i \in JobIds : jobs'[i] = IF i = j THEN e ELSE jobs[i]
  BY <1>1, RowStep DEF SettlesWith, JobsInv
<1>4. /\ workers' \in [Workers -> Worker]
      /\ \A v \in Workers : workers'[v] = IF v = w THEN Idle ELSE workers[v]
      /\ \A v \in Workers : Working(v)' => workers'[v].job \in JobIds'
  BY <1>3, IdleIsWorker, TaskStep DEF SettlesWith, JobsInv
<1>5. /\ SameKey(jobs[j], e) /\ e.accepted = jobs[j].accepted /\ e.token \in {jobs[j].token, workers[w].account}
      /\ e.status # "processing"
  BY <1>1 DEF Outcome, JobOf
<1>6. RowsKeep /\ TasksContinue /\ HistoryGrows /\ \A i \in JobIds : SameKey(jobs[i], jobs'[i])
  BY <1>2, <1>3, <1>4, <1>5, IdleIsWorker DEF RowsKeep, SameKey, TasksContinue, HistoryGrows, Working
<1>7. TypeOK'
  BY <1>2, <1>3, <1>4, TableTyped DEF JobsInv, TypeOK
<1>8. Leases'
  <2>1. LeasesKeep
    BY <1>1, <1>2, <1>3, <1>4, IdleIsWorker DEF LeasesKeep, JobsInv, Leases, HeldOnce, Working, JobOf,
       WorkersHaveJobs
  <2>2. NoneReopens
    BY <1>1, <1>2, <1>3 DEF NoneReopens, JobsInv, Leases, Held, JobOf, Active
  <2> QED
    BY <1>1, <1>6, <2>1, <2>2, LeasesGoOn DEF JobsInv
<1>9. Current'
  BY <1>1, <1>2, <1>3, <1>4, <1>5, <1>6, IdleIsWorker, CurrentGoesOn DEF JobsInv
<1>10. Sends'
  BY <1>1, <1>2, <1>3, <1>4, SendsSettled DEF JobsInv, Leases
<1>11. Spoken'
  BY <1>1, <1>2, <1>3, <1>4, SpokenSettled DEF JobsInv, Leases
<1>12. Ledger'
  BY <1>2, <1>3, <1>6, LedgerRests DEF JobsInv
<1>13. \A v \in Workers : workers'[v].pc = "push" => workers'[v] = workers[v]
  BY <1>4, IdleIsWorker
<1>14. Reporting'
  BY <1>1, <1>6, <1>13, ReportingKeeps DEF JobsInv
<1>15. ReportsCatchUp'
  <2> SUFFICES ASSUME NEW p \in People PROVE CatchesUp(p)'
    BY DEF ReportsCatchUp
  <2>1. CatchesUp(p) /\ (Announced(p) => Announced(p)')
    BY <1>2 DEF JobsInv, ReportsCatchUp, Announced
  <2>2. \A i \in JobIds : jobs'[i].accepted = jobs[i].accepted
    BY <1>3, <1>5
  <2> QED
    BY <1>1, <1>2, <1>6, <1>13, <2>1, <2>2, PersonCatchesUp
<1> QED
  BY <1>7, <1>8, <1>9, <1>10, <1>11, <1>12, <1>14, <1>15 DEF JobsInv

\* What Settle makes of a row.
LEMMA SettledRow ==
  ASSUME NEW d \in Job, NEW s \in {"waiting_data"} \cup Active \cup Finished, NEW n \in Nat,
         NEW t \in 0 .. MaxAccounts,
         NEW b, b \in {[d EXCEPT !.status = s], [d EXCEPT !.status = s, !.attempts = n],
                       [d EXCEPT !.status = s, !.token = t]},
         NEW e, e = [b EXCEPT !.lease = "none"]
  PROVE  /\ e \in Job /\ SameKey(d, e) /\ e.accepted = d.accepted /\ e.excused = d.excused /\ e.status = s
         /\ e.token \in {d.token, t}
         /\ b # [d EXCEPT !.status = s, !.token = t] => e.token = d.token
         /\ b = [d EXCEPT !.status = s, !.token = t] => e.token = t
<1>1. CASE b = [d EXCEPT !.status = s]
  <2>1. /\ b \in Job /\ SameKey(d, b) /\ b.accepted = d.accepted /\ b.excused = d.excused
        /\ b.status = s /\ b.token = d.token
    BY <1>1 DEF Job, SameKey
  <2> QED
    BY <1>1, <2>1 DEF Job, SameKey
<1>2. CASE b = [d EXCEPT !.status = s, !.attempts = n]
  <2>1. /\ b \in Job /\ SameKey(d, b) /\ b.accepted = d.accepted /\ b.excused = d.excused
        /\ b.status = s /\ b.token = d.token
    BY <1>2 DEF Job, SameKey
  <2> QED
    BY <1>2, <2>1 DEF Job, SameKey
<1>3. CASE b = [d EXCEPT !.status = s, !.token = t]
  <2>1. /\ b \in Job /\ SameKey(d, b) /\ b.accepted = d.accepted /\ b.excused = d.excused
        /\ b.status = s /\ b.token = t
    BY <1>3 DEF Job, SameKey
  <2> QED
    BY <1>3, <2>1 DEF Job, SameKey
<1> QED
  BY <1>1, <1>2, <1>3
-----------------------------------------------------------------------------
\* Which settling UPDATEs have one of the outcomes that Outcome allows.
LEMMA SettleIsOutcome ==
  ASSUME TypeOK, NEW w \in Workers, Working(w), NEW s, NEW n \in Nat, NEW b, Settle(w, b),
         s \in {"waiting_data"} \cup Active \cup Finished, s # "processing",
         b = [JobOf(w) EXCEPT !.status = s] \/ b = [JobOf(w) EXCEPT !.status = s, !.attempts = n],
         s = "awaiting_result" => workers[w].polls,
         s \in Active \cup {"waiting_data"} /\ ~workers[w].polls => ~Unrecorded(w),
         s = "success" /\ JobOf(w).op = "entry_exit.sync" => Saving(w) /\ workers[w].answer = "done"
  PROVE  \E e \in Job : SettlesWith(w, e)
<1> DEFINE d == JobOf(w)
<1> DEFINE e == [b EXCEPT !.lease = "none"]
<1>1. d \in Job
  BY Known DEF WorkersHaveJobs, JobOf
<1>2. /\ b \in Job /\ SameKey(d, b) /\ b.accepted = d.accepted /\ b.excused = d.excused
      /\ b.status = s /\ b.token = d.token
  <2> HIDE DEF d
  <2>1. b = [d EXCEPT !.status = s] \/ b = [d EXCEPT !.status = s, !.attempts = n]
    BY DEF d
  <2>2. CASE b = [d EXCEPT !.status = s]
    BY <1>1, <2>2 DEF Job, SameKey
  <2>3. CASE b = [d EXCEPT !.status = s, !.attempts = n]
    BY <1>1, <2>3 DEF Job, SameKey
  <2> QED
    BY <2>1, <2>2, <2>3
<1>3. /\ e \in Job /\ SameKey(d, e) /\ e.accepted = d.accepted /\ e.excused = d.excused
      /\ e.status = s /\ e.token = d.token
  BY <1>2 DEF Job, SameKey
<1>4. jobs' = [jobs EXCEPT ![workers[w].job] = e] /\ workers' = [workers EXCEPT ![w] = Idle]
  BY DEF Settle
<1> HIDE DEF e
<1>5. Outcome(w, e)
  <2>1. e.op = d.op
    BY <1>3 DEF SameKey
  <2>2. /\ s = "awaiting_result" => workers[w].polls \/ (Got(w, "token") /\ e.token = workers[w].account)
        /\ s \in Active \cup {"waiting_data"} /\ ~workers[w].polls /\ s # "awaiting_result" => ~Unrecorded(w)
        /\ s = "success" /\ d.op = "entry_exit.sync" => Saving(w) /\ workers[w].answer = "done"
        /\ s # "processing"
    OBVIOUS
  <2> HIDE DEF d
  <2>3. Outcome(w, e) <=>
          /\ SameKey(d, e) /\ e.accepted = d.accepted /\ e.excused = d.excused
          /\ \/ e.token = d.token
             \/ Got(w, "token") /\ e.token = workers[w].account
          /\ e.status = "awaiting_result" =>
               workers[w].polls \/ (Got(w, "token") /\ e.token = workers[w].account)
          /\ e.status \in Active \cup {"waiting_data"} /\ ~workers[w].polls /\ e.status # "awaiting_result"
               => ~Unrecorded(w)
          /\ e.status = "success" /\ e.op = "entry_exit.sync" => Saving(w) /\ workers[w].answer = "done"
          /\ e.status # "processing"
    BY Zenon DEF Outcome, d
  <2> QED
    BY <1>3, <2>1, <2>2, <2>3
<1> QED
  BY <1>3, <1>4, <1>5 DEF SettlesWith

\* handle_issue: it waits, or the job is over; a lost connection is never retried.
LEMMA IssueIsOutcome ==
  ASSUME TypeOK, NEW w \in Workers, Working(w),
         NEW issue \in {"data", "dependency", "retryable", "permanent", "unknown"},
         Issue(w, issue), issue \in {"permanent", "unknown"} \/ ~Unrecorded(w)
  PROVE  \E e \in Job : SettlesWith(w, e)
<1> DEFINE d == JobOf(w)
<1> DEFINE n == IF d.attempts > 0 THEN d.attempts - 1 ELSE 0
<1> DEFINE b == CASE issue = "data"       -> [d EXCEPT !.status = "waiting_data"]
                  [] issue = "dependency" -> [d EXCEPT !.status = "waiting_dependency", !.attempts = n]
                  [] issue = "retryable" /\ workers[w].attempts < MaxAttempts -> [d EXCEPT !.status = "retry"]
                  [] issue = "unknown"    -> [d EXCEPT !.status = "delivery_unknown"]
                  [] OTHER                -> [d EXCEPT !.status = "failed"]
<1>1. d \in Job
  BY Known DEF WorkersHaveJobs, JobOf
<1>2. n \in Nat
  BY <1>1 DEF Job
<1>3. Settle(w, b)
  BY DEF Issue
<1> HIDE DEF n
<1>4. \/ /\ b \in {[d EXCEPT !.status = "waiting_data"], [d EXCEPT !.status = "waiting_dependency", !.attempts = n],
                  [d EXCEPT !.status = "retry"]}
         /\ issue \in {"data", "dependency", "retryable"}
      \/ b \in {[d EXCEPT !.status = "delivery_unknown"], [d EXCEPT !.status = "failed"]}
  OBVIOUS
<1> HIDE DEF b
<1> DEFINE Rests == {"waiting_data", "waiting_dependency", "retry", "delivery_unknown", "failed"}
<1>5. PICK s \in Rests : /\ b \in {[d EXCEPT !.status = s], [d EXCEPT !.status = s, !.attempts = n]}
                         /\ s \in {"waiting_data", "waiting_dependency", "retry"} => ~Unrecorded(w)
  BY <1>4
<1>6. /\ s \in {"waiting_data"} \cup Active \cup Finished /\ s # "processing" /\ s # "awaiting_result" /\ s # "success"
      /\ s \in Active \cup {"waiting_data"} => ~Unrecorded(w)
  BY <1>5 DEF Active, Finished
<1> QED
  BY <1>2, <1>3, <1>5, <1>6, SettleIsOutcome

\* A job that ends, disabled or done.
LEMMA RestIsOutcome ==
  ASSUME TypeOK, NEW w \in Workers, Working(w), NEW s \in {"disabled", "success"},
         Settle(w, [JobOf(w) EXCEPT !.status = s]),
         s = "success" /\ JobOf(w).op = "entry_exit.sync" => Saving(w) /\ workers[w].answer = "done"
  PROVE  \E e \in Job : SettlesWith(w, e)
<1>1. s \in {"waiting_data"} \cup Active \cup Finished /\ s # "processing" /\ s \notin Active \cup {"waiting_data"}
      /\ s # "awaiting_result"
  BY DEF Active, Finished
<1>2. 0 \in Nat
  OBVIOUS
<1> QED
  BY <1>1, <1>2, SettleIsOutcome

Settling(w) == FindDisabled(w) \/ SkipSynced(w) \/ LackData(w) \/ AwaitDependency(w) \/ SaveToken(w) \/ KeepPolling(w)
               \/ CompleteJob(w) \/ HandleIssue(w)

\* Every step in which a task lets go of its job has one of the outcomes.
LEMMA SettlingIsOutcome ==
  ASSUME JobsInv, NEW w \in Workers, Settling(w)
  PROVE  /\ \E e \in Job : SettlesWith(w, e)
         /\ UNCHANGED <<mapped, attended, outside, bounds, history>>
<1>1. TypeOK /\ Phases /\ UNCHANGED <<mapped, attended, outside, bounds, history>>
  BY DEF JobsInv, Sends, Settling, FindDisabled, SkipSynced, LackData, AwaitDependency, SaveToken, KeepPolling,
     CompleteJob, HandleIssue
<1>2. Working(w)
  BY DEF Settling, FindDisabled, SkipSynced, LackData, AwaitDependency, SaveToken, KeepPolling, CompleteJob,
     HandleIssue,
         Working, Preparing, Got
<1>3. Preparing(w) => ~Unrecorded(w)
  BY DEF Preparing, Unrecorded, Saving
<1>4. \E e \in Job : SettlesWith(w, e)
  <2>1. CASE FindDisabled(w)
    <3>1. \A s \in {"disabled", "success"} : s = "disabled" /\ Settle(w, [JobOf(w) EXCEPT !.status = s])
            => \E e \in Job : SettlesWith(w, e)
      BY <1>1, <1>2, RestIsOutcome
    <3> QED
      BY <2>1, <3>1 DEF FindDisabled
  <2>2. CASE SkipSynced(w)
    <3>1. JobOf(w).op # "entry_exit.sync"
      BY <2>2 DEF SkipSynced, AlreadySynced
    <3>2. \A s \in {"disabled", "success"} : Settle(w, [JobOf(w) EXCEPT !.status = s])
            => \E e \in Job : SettlesWith(w, e)
      BY <1>1, <1>2, <3>1, RestIsOutcome
    <3> QED
      BY <2>2, <3>2 DEF SkipSynced
  <2>3. CASE LackData(w)
    <3>1. PICK issue \in {"data", "retryable"} : Issue(w, issue)
      BY <2>3 DEF LackData
    <3>2. ~Unrecorded(w)
      BY <1>3, <2>3 DEF LackData
    <3> QED
      BY <1>1, <1>2, <3>1, <3>2, IssueIsOutcome
  <2>4. CASE AwaitDependency(w)
    <3>1. ~Unrecorded(w)
      BY <1>3, <2>4 DEF AwaitDependency
    <3>2. \A issue \in {"data", "dependency", "retryable", "permanent", "unknown"} :
            Issue(w, issue) => \E e \in Job : SettlesWith(w, e)
      BY <1>1, <1>2, <3>1, IssueIsOutcome
    <3> QED
      BY <2>4, <3>2 DEF AwaitDependency
  <2>5. CASE SaveToken(w)
    <3> DEFINE t == workers[w].account
    <3> DEFINE b == [JobOf(w) EXCEPT !.status = "awaiting_result", !.token = t]
    <3> DEFINE e == [b EXCEPT !.lease = "none"]
    <3>1. JobOf(w) \in Job /\ t \in 0 .. MaxAccounts /\ Got(w, "token")
      BY <1>1, <1>2, <2>5, Known DEF WorkersHaveJobs, JobOf, Worker, SaveToken
    <3>2. /\ e \in Job /\ SameKey(JobOf(w), e) /\ e.accepted = JobOf(w).accepted /\ e.excused = JobOf(w).excused
          /\ e.status = "awaiting_result" /\ e.token = t
      <4>1. b \in Job /\ SameKey(JobOf(w), b) /\ b.accepted = JobOf(w).accepted /\ b.excused = JobOf(w).excused
            /\ b.status = "awaiting_result" /\ b.token = t
        <5>1. "awaiting_result" \in {"waiting_data"} \cup Active \cup Finished
          BY DEF Active
        <5> QED
          BY <3>1, <5>1 DEF Job, SameKey
      <4> QED
        BY <4>1 DEF Job, SameKey
    <3>3. jobs' = [jobs EXCEPT ![workers[w].job] = e] /\ workers' = [workers EXCEPT ![w] = Idle]
      BY <2>5 DEF SaveToken, Settle
    <3> HIDE DEF e
    <3>4. Outcome(w, e)
      BY <3>1, <3>2 DEF Outcome, SameKey
    <3> QED
      BY <1>2, <3>2, <3>3, <3>4 DEF SettlesWith
  <2>6. CASE KeepPolling(w)
    <3>1. workers[w].polls
      BY <1>1, <2>6 DEF Phases, KeepPolling
    <3>2. \A s \in {"waiting_data"} \cup Active \cup Finished, n \in Nat :
            s = "awaiting_result" /\ Settle(w, [JobOf(w) EXCEPT !.status = s, !.attempts = n])
              => \E e \in Job : SettlesWith(w, e)
      BY <1>1, <1>2, <3>1, SettleIsOutcome
    <3>3. "awaiting_result" \in {"waiting_data"} \cup Active \cup Finished /\ 0 \in Nat
      BY DEF Active
    <3>4. Settle(w, [JobOf(w) EXCEPT !.status = "awaiting_result", !.attempts = 0])
      BY <2>6 DEF KeepPolling
    <3> QED
      BY <3>2, <3>3, <3>4
  <2>7. CASE CompleteJob(w)
    <3>1. Saving(w) /\ workers[w].answer = "done"
      BY <1>1, <2>7 DEF Phases, CompleteJob, Saving
    <3>2. \A s \in {"disabled", "success"} : Settle(w, [JobOf(w) EXCEPT !.status = s])
            => \E e \in Job : SettlesWith(w, e)
      BY <1>1, <1>2, <3>1, RestIsOutcome
    <3> QED
      BY <2>7, <3>2 DEF CompleteJob
  <2>8. CASE HandleIssue(w)
    <3>1. PICK a \in {"retryable", "permanent", "unknown"} : Got(w, a) /\ Issue(w, a)
      BY <2>8 DEF HandleIssue
    <3>2. a \in {"permanent", "unknown"} \/ ~Unrecorded(w)
      BY <3>1 DEF Got, Unrecorded
    <3> QED
      BY <1>1, <1>2, <3>1, <3>2, IssueIsOutcome
  <2> QED
    BY <2>1, <2>2, <2>3, <2>4, <2>5, <2>6, <2>7, <2>8 DEF Settling
<1> QED
  BY <1>1, <1>4

\* ... and keeps the invariant.
LEMMA SettlingKeeps ==
  ASSUME JobsInv, NEW w \in Workers, Settling(w)
  PROVE  JobsInv'
BY SettlingIsOutcome, SettledKeeps
-----------------------------------------------------------------------------
\* What a task may become while it keeps its job and leaves its row alone.
Proceeds(w, r) ==
  /\ Working(w) /\ r.pc # "idle" /\ r.job = workers[w].job /\ r.polls = workers[w].polls
  /\ r.account \in {workers[w].account, account}
  /\ r.pc = "push" => /\ ~r.polls /\ r.account # 0
                      /\ r.report # "none" <=> JobOf(w).op = "entry_exit.sync"
                      /\ JobOf(w).op = "entry_exit.sync" => r.report = Presence(JobOf(w).person)
  /\ r.pc = "answered" => r.answer # "token" /\ (r.answer = "pending" => r.polls)
  /\ r.pc \in {"mapped", "finishing"} => r.answer = "done"
  /\ r.pc \in {"answered", "mapped", "finishing"} /\ r.answer \in {"token", "done"}
       => r.polls \/ (Saving(w) /\ workers[w].answer \in {"token", "done"})
  /\ Unrecorded(w) => r.pc \in {"answered", "mapped", "finishing"} /\ r.answer \in {"token", "done", "unknown"}

\* A task that proceeds keeps the invariant.
LEMMA ProceedingKeeps ==
  ASSUME JobsInv, NEW w \in Workers, NEW r \in Worker, Proceeds(w, r), workers' = [workers EXCEPT ![w] = r],
         Grown(jobs, jobs'),
         \A j \in JobIds' \ JobIds :
           \E i \in JobIds : jobs'[j].person = jobs[i].person /\ jobs'[j].event = jobs[i].event,
         UNCHANGED <<person, changes, events, account, enabled, asked, retries, switches, reported, straddled,
                     retried, missed>>,
         faults' \in Nat, attended' \subseteq 1 .. MaxEvents, mapped' \in [People -> 0 .. MaxAccounts],
         \A p \in People :
           \/ mapped'[p] = mapped[p]
           \/ JobOf(w).op = "worker.sync" /\ JobOf(w).person = p /\ mapped'[p] = workers[w].account
  PROVE  JobsInv'
<1>1. /\ WorkersHaveJobs /\ JobIds \subseteq Nat /\ straddled \subseteq JobIds
      /\ Working(w) /\ r.pc # "idle" /\ r.job = workers[w].job /\ r.polls = workers[w].polls
      /\ workers[w].job \in JobIds
  BY Known DEF JobsInv, Proceeds, WorkersHaveJobs
<1>2. RowsKeep /\ JobIds \subseteq JobIds' /\ \A j \in JobIds : jobs'[j] = jobs[j]
  BY GrownKeeps DEF JobsInv
<1>3. /\ workers' \in [Workers -> Worker] /\ workers'[w] = r
      /\ \A v \in Workers : v # w => workers'[v] = workers[v]
      /\ \A v \in Workers : Working(v)' => workers'[v].job \in JobIds'
  BY <1>1, <1>2, TaskStep DEF JobsInv
<1>4. TasksContinue /\ HistoryGrows /\ NoneReopens /\ LeasesKeep
  BY <1>1, <1>2, <1>3 DEF TasksContinue, HistoryGrows, NoneReopens, LeasesKeep, WorkersHaveJobs, Working, JobOf
<1>5. TypeOK'
  <2>1. jobs' \in Seq(Job) /\ asked \subseteq JobIds /\ retries \in Nat /\ switches \in Nat /\ retried \subseteq JobIds
        /\ reported \in [People -> {"none", "entry", "exit"}]
    BY DEF Grown, JobsInv, TypeOK
  <2>2. retried \subseteq JobIds' /\ asked \subseteq JobIds
    BY <1>2, <2>1
  <2> QED
    BY <1>2, <1>3, <2>1, <2>2, TableTyped DEF JobsInv
<1>6. Leases'
  BY <1>1, <1>2, <1>4, LeasesGoOn DEF JobsInv
<1>7. Current'
  <2>1. \A v \in Workers : workers'[v].account \in {workers[v].account, account}
    BY <1>3 DEF Proceeds
  <2>2. \A j \in JobIds : jobs'[j].token \in {0, jobs[j].token} /\ (jobs[j].status \in Finished
          => jobs'[j].status \in Finished)
    BY <1>2
  <2> QED
    BY <1>1, <1>2, <1>4, <2>1, <2>2, CurrentGoesOn DEF JobsInv
<1>8. Sends'
  <2>1. /\ workers'[w].pc = "push" => ~workers[w].polls /\ workers'[w].account # 0
        /\ ~Got(w, "token")' /\ (Got(w, "pending")' => workers[w].polls)
        /\ workers'[w].pc \in {"mapped", "finishing"} => workers'[w].answer = "done"
        /\ ~workers[w].polls /\ ~Unrecorded(w)' => ~Unrecorded(w)
    BY <1>1, <1>3 DEF Proceeds, Got, Unrecorded, Saving
  <2> QED
    BY <1>1, <1>2, <1>3, <2>1, SendsProgress DEF JobsInv
<1>9. Spoken'
  <2>1. Saving(w)' /\ workers'[w].answer \in {"token", "done"}
          => workers[w].polls \/ (Saving(w) /\ workers[w].answer \in {"token", "done"})
    BY <1>1, <1>3 DEF Proceeds, Saving
  <2> QED
    BY <1>1, <1>2, <1>3, <2>1, SpokenProgress DEF JobsInv
<1>10. Ledger'
  <2>1. \A j \in JobIds : SameKey(jobs[j], jobs'[j])
    BY <1>2 DEF SameKey
  <2> QED
    BY <1>2, <2>1, LedgerRests DEF JobsInv
<1>11. Reporting'
  <2>1. \A v \in Workers : workers'[v].pc = "push" =>
          \/ workers'[v] = workers[v]
          \/ /\ workers'[v].job \in JobIds
             /\ workers'[v].report # "none" <=> jobs[workers'[v].job].op = "entry_exit.sync"
    BY <1>1, <1>3 DEF Proceeds, JobOf
  <2> QED
    BY <1>1, <1>2, <2>1, ReportingKeeps DEF JobsInv
<1>12. ReportsCatchUp'
  <2> SUFFICES ASSUME NEW p \in People PROVE CatchesUp(p)'
    BY DEF ReportsCatchUp
  <2>1. CatchesUp(p) /\ (Announced(p) => Announced(p)')
    BY DEF JobsInv, ReportsCatchUp, Announced
  <2>2. \A v \in Workers : workers'[v].pc = "push" =>
          \/ workers'[v] = workers[v]
          \/ /\ workers'[v].job \in JobIds
             /\ jobs[workers'[v].job].op = "entry_exit.sync" /\ jobs[workers'[v].job].person = p
                  => workers'[v].report = Presence(p)
    BY <1>1, <1>3 DEF Proceeds, JobOf
  <2> QED
    BY <1>1, <1>2, <2>1, <2>2, PersonCatchesUp
<1> QED
  BY <1>5, <1>6, <1>7, <1>8, <1>9, <1>10, <1>11, <1>12 DEF JobsInv

\* A task that proceeds without inserting anything.
LEMMA TurnKeeps ==
  ASSUME JobsInv, NEW w \in Workers, NEW r \in Worker, Proceeds(w, r), workers' = [workers EXCEPT ![w] = r],
         UNCHANGED <<jobs, person, changes, events, account, enabled, asked, retries, switches, reported,
                     straddled,
                     retried, missed>>,
         faults' \in Nat, attended' \subseteq 1 .. MaxEvents, mapped' \in [People -> 0 .. MaxAccounts],
         \A p \in People :
           \/ mapped'[p] = mapped[p]
           \/ JobOf(w).op = "worker.sync" /\ JobOf(w).person = p /\ mapped'[p] = workers[w].account
  PROVE  JobsInv'
<1>1. Grown(jobs, jobs')
  BY DEF Grown, JobsInv, TypeOK
<1>2. JobIds' = JobIds
  BY DEF JobIds
<1> QED
  BY <1>1, <1>2, ProceedingKeeps
-----------------------------------------------------------------------------
\* The request is composed.
LEMMA ComposeKeeps ==
  ASSUME JobsInv, NEW w \in Workers, Compose(w)
  PROVE  JobsInv'
<1> DEFINE q == IF JobOf(w).op # "entry_exit.sync" THEN "none" ELSE Presence(JobOf(w).person)
<1> DEFINE r == [workers[w] EXCEPT !.pc = "push", !.account = account, !.report = q]
<1>1. workers[w] \in Worker /\ account \in Nat \ {0} /\ account \in 0 .. MaxAccounts
  BY Known DEF JobsInv, TypeOK, Accounts
<1>2. /\ q \in {"none", "entry", "exit"} /\ (q # "none" <=> JobOf(w).op = "entry_exit.sync")
      /\ JobOf(w).op = "entry_exit.sync" => q = Presence(JobOf(w).person)
  BY DEF Presence
<1>3. workers' = [workers EXCEPT ![w] = r]
  BY DEF Compose
<1> HIDE DEF q
<1>4. /\ r \in Worker /\ r.pc = "push" /\ r.job = workers[w].job /\ r.polls = workers[w].polls /\ r.account = account
      /\ r.report = q
  BY <1>1, <1>2 DEF Worker
<1> HIDE DEF r
<1>5. workers[w].pc = "claimed" /\ ~workers[w].polls
  BY DEF Compose, Preparing
<1>6. Proceeds(w, r)
  BY <1>1, <1>2, <1>4, <1>5 DEF Proceeds, Working, Unrecorded, Saving
<1>7. /\ UNCHANGED <<jobs, person, changes, events, account, enabled, asked, retries, faults, switches,
                     reported,
                     straddled, retried, missed, mapped, attended>>
      /\ faults \in Nat /\ attended \subseteq 1 .. MaxEvents /\ mapped \in [People -> 0 .. MaxAccounts]
  BY DEF Compose, outside, bounds, history, JobsInv, TypeOK
<1> QED
  BY <1>3, <1>4, <1>6, <1>7, TurnKeeps

\* The platform, or the connection to it, gives an answer, and the table is not touched.
LEMMA AnswerKeeps ==
  ASSUME JobsInv, NEW w \in Workers, Working(w),
         NEW a \in {"done", "pending", "retryable", "permanent", "unknown"}, Answered(w, a),
         a \in {"done", "pending"} => workers[w].polls,
         a \in {"retryable", "permanent"} => ~Unrecorded(w),
         UNCHANGED <<jobs, mapped, attended, outside, asked, retries, switches, history>>, faults' \in Nat
  PROVE  JobsInv'
<1> DEFINE r == [workers[w] EXCEPT !.pc = "answered", !.answer = a]
<1>1. workers[w] \in Worker /\ Phases
  BY DEF JobsInv, TypeOK, Sends
<1>2. workers' = [workers EXCEPT ![w] = r]
  BY DEF Answered
<1>3. /\ r \in Worker /\ r.pc = "answered" /\ r.job = workers[w].job /\ r.polls = workers[w].polls
      /\ r.account = workers[w].account /\ r.answer = a
  BY <1>1 DEF Worker
<1> HIDE DEF r
<1>4. a = "done" => ~Unrecorded(w)
  BY DEF Unrecorded
<1>5. Proceeds(w, r)
  BY <1>3, <1>4 DEF Proceeds, Unrecorded
<1>6. /\ UNCHANGED <<jobs, person, changes, events, account, enabled, asked, retries, switches, reported,
                     straddled, retried, missed, mapped, attended>>
      /\ attended \subseteq 1 .. MaxEvents /\ mapped \in [People -> 0 .. MaxAccounts]
  BY DEF outside, history, JobsInv, TypeOK
<1> QED
  BY <1>2, <1>3, <1>5, <1>6, TurnKeeps

\* The platform refuses, or is not reached.
LEMMA RefusedKeeps ==
  ASSUME JobsInv, NEW w \in Workers, NEW a \in {"retryable", "permanent", "unknown"}, Refused(w, a)
  PROVE  JobsInv'
<1>1. Working(w) /\ ~Unrecorded(w) /\ Answered(w, a)
  BY DEF Refused, Pushing, Working, Unrecorded, Saving
<1>2. UNCHANGED <<jobs, mapped, attended, outside, asked, retries, switches, history>> /\ faults' \in Nat
  BY DEF Refused, bounds, JobsInv, TypeOK
<1> QED
  BY <1>1, <1>2, AnswerKeeps

\* An answer to a poll.
LEMMA PollResultKeeps ==
  ASSUME JobsInv, NEW w \in Workers, NEW a \in {"done", "pending", "retryable", "permanent"}, PollResult(w, a)
  PROVE  JobsInv'
<1>1. Working(w) /\ ~Unrecorded(w) /\ Answered(w, a) /\ workers[w].polls
  BY DEF PollResult, Preparing, Working, Unrecorded, Saving
<1>2. UNCHANGED <<jobs, mapped, attended, outside, asked, retries, switches, history>> /\ faults' \in Nat
  BY DEF PollResult, bounds, JobsInv, TypeOK
<1> QED
  BY <1>1, <1>2, AnswerKeeps

\* The token could not be saved.
LEMMA TokenLostKeeps ==
  ASSUME JobsInv, NEW w \in Workers, Fault, Got(w, "token"), Answered(w, "unknown"),
         UNCHANGED <<jobs, mapped, attended, outside, history>>
  PROVE  JobsInv'
<1>1. Working(w)
  BY DEF Got, Working
<1>2. UNCHANGED <<asked, retries, switches>> /\ faults' \in Nat
  BY DEF Fault, JobsInv, TypeOK
<1>3. \A a \in {"done", "pending", "retryable", "permanent", "unknown"} : a = "unknown" /\ Answered(w, a)
        => JobsInv'
  BY <1>1, <1>2, AnswerKeeps
<1> QED
  BY <1>3

\* SaveMapping.
LEMMA SaveMappingKeeps ==
  ASSUME JobsInv, NEW w \in Workers, SaveMapping(w)
  PROVE  JobsInv'
<1> DEFINE r == [workers[w] EXCEPT !.pc = "mapped"]
<1>1. workers[w] \in Worker /\ JobOf(w) \in Job /\ workers[w].account \in 0 .. MaxAccounts
  <2>1. Working(w)
    BY DEF SaveMapping, Got, Working
  <2> QED
    BY <2>1, Known DEF JobsInv, WorkersHaveJobs, JobOf, Worker
<1>2. workers' = [workers EXCEPT ![w] = r] /\ workers[w].pc = "answered" /\ workers[w].answer = "done"
  BY DEF SaveMapping, Got
<1>3. /\ r \in Worker /\ r.pc = "mapped" /\ r.job = workers[w].job /\ r.polls = workers[w].polls
      /\ r.account = workers[w].account /\ r.answer = workers[w].answer
  BY <1>1 DEF Worker
<1> HIDE DEF r
<1>4. Proceeds(w, r)
  BY <1>2, <1>3 DEF Proceeds, Unrecorded, Working, Saving
<1>5. mapped \in [People -> 0 .. MaxAccounts] /\ attended \subseteq 1 .. MaxEvents /\ faults \in Nat
  BY DEF JobsInv, TypeOK
<1>6. /\ mapped' \in [People -> 0 .. MaxAccounts]
      /\ \A p \in People :
           \/ mapped'[p] = mapped[p]
           \/ JobOf(w).op = "worker.sync" /\ JobOf(w).person = p /\ mapped'[p] = workers[w].account
  BY <1>1, <1>5 DEF SaveMapping
<1>7. attended' \subseteq 1 .. MaxEvents
  BY <1>1, <1>5 DEF SaveMapping, Job
<1>8. UNCHANGED <<jobs, person, changes, events, account, enabled, asked, retries, faults, switches, reported,
                  straddled, retried, missed>>
  BY DEF SaveMapping, outside, bounds, history
<1> QED
  BY <1>2, <1>3, <1>4, <1>5, <1>6, <1>7, <1>8, TurnKeeps

\* The entry job behind a person who is known now.
LEMMA EnqueueEntryGrows ==
  ASSUME TypeOK, NEW w \in Workers, EnqueueEntry(w)
  PROVE  /\ Grown(jobs, jobs')
         /\ \A j \in JobIds' \ JobIds :
              \E i \in JobIds : jobs'[j].person = jobs[i].person /\ jobs'[j].event = jobs[i].event
<1> DEFINE d == JobOf(w)
<1>1. workers[w].pc = "mapped" /\ jobs' = IF d.op # "worker.sync" THEN jobs
                                          ELSE Inserted(jobs, "entry_exit.sync", d.person, d.event, d.update)
  BY DEF EnqueueEntry
<1>2. workers[w].job \in JobIds /\ d = jobs[workers[w].job] /\ d \in Job /\ jobs \in Seq(Job)
  BY <1>1, Known DEF WorkersHaveJobs, JobOf, Working, TypeOK
<1> HIDE DEF d
<1>3. d.person \in People /\ d.event \in 1 .. MaxEvents /\ d.update \in BOOLEAN
  BY <1>2 DEF Job
<1>4. /\ Grown(jobs, jobs')
      /\ \A j \in DOMAIN jobs' \ DOMAIN jobs : jobs'[j].person = d.person /\ jobs'[j].event = d.event
  <2>1. CASE jobs' = jobs
    BY <1>2, <2>1 DEF Grown
  <2>2. CASE jobs' = Inserted(jobs, "entry_exit.sync", d.person, d.event, d.update)
    <3>1. "entry_exit.sync" \in {"worker.sync", "entry_exit.sync", "attendance.sync"}
      OBVIOUS
    <3> QED
      <4>1. PICK p, ev, up, t : p = d.person /\ ev = d.event /\ up = d.update /\ t = jobs'
        OBVIOUS
      <4>2. t = Inserted(jobs, "entry_exit.sync", p, ev, up)
        BY <2>2, <4>1
      <4>3. p \in People /\ ev \in 1 .. MaxEvents /\ up \in BOOLEAN
        BY <1>3, <4>1
      <4>4. Grown(jobs, t) /\ \A j \in DOMAIN t \ DOMAIN jobs : t[j].person = p /\ t[j].event = ev
        BY <1>2, <3>1, <4>2, <4>3, InsertedGrows
      <4> QED
        BY <4>1, <4>4
  <2> QED
    BY <1>1, <2>1, <2>2
<1> QED
  BY <1>2, <1>4 DEF JobIds

\* EnqueueEntry.
LEMMA EnqueueEntryKeeps ==
  ASSUME JobsInv, NEW w \in Workers, EnqueueEntry(w)
  PROVE  JobsInv'
<1> DEFINE r == [workers[w] EXCEPT !.pc = "finishing"]
<1>1. workers[w] \in Worker /\ workers[w].pc = "mapped" /\ workers[w].answer = "done"
  BY DEF EnqueueEntry, JobsInv, TypeOK, Sends, Phases
<1>2. workers' = [workers EXCEPT ![w] = r]
  BY DEF EnqueueEntry
<1>3. /\ r \in Worker /\ r.pc = "finishing" /\ r.job = workers[w].job /\ r.polls = workers[w].polls
      /\ r.account = workers[w].account /\ r.answer = workers[w].answer
  BY <1>1 DEF Worker
<1> HIDE DEF r
<1>4. Proceeds(w, r)
  BY <1>1, <1>3 DEF Proceeds, Unrecorded, Working, Saving
<1>5. /\ Grown(jobs, jobs')
      /\ \A j \in JobIds' \ JobIds :
           \E i \in JobIds : jobs'[j].person = jobs[i].person /\ jobs'[j].event = jobs[i].event
  BY EnqueueEntryGrows DEF JobsInv
<1>6. /\ UNCHANGED <<mapped, attended, person, changes, events, account, enabled, asked, retries, faults,
                     switches,
                     reported, straddled, retried, missed>>
      /\ mapped \in [People -> 0 .. MaxAccounts] /\ attended \subseteq 1 .. MaxEvents /\ faults \in Nat
  BY DEF EnqueueEntry, outside, bounds, history, JobsInv, TypeOK
<1> QED
  BY <1>2, <1>3, <1>4, <1>5, <1>6, ProceedingKeeps
-----------------------------------------------------------------------------
\* The write reaches the platform.
LEMMA AcceptedKeeps ==
  ASSUME JobsInv, NEW w \in Workers, NEW a \in {"token", "done", "unknown"}, Accepted(w, a)
  PROVE  JobsInv'
<1> DEFINE j == workers[w].job
<1> DEFINE n == jobs[j].accepted + 1
<1> DEFINE e == [jobs[j] EXCEPT !.accepted = n]
<1> DEFINE r == [workers[w] EXCEPT !.pc = "answered", !.answer = a]
<1>1. /\ WorkersHaveJobs /\ JobIds \subseteq Nat /\ Counted /\ straddled \subseteq JobIds
      /\ workers[w].pc = "push" /\ Working(w) /\ workers[w] \in Worker
  BY Known DEF JobsInv, Accepted, Pushing, Working
<1>2. j \in JobIds /\ jobs[j] \in Job
  BY <1>1, Known DEF JobsInv, WorkersHaveJobs
<1>3. n \in Nat /\ n = jobs[j].accepted + 1
  BY <1>2 DEF Job
<1>4. /\ jobs' = [jobs EXCEPT ![j] = e] /\ workers' = [workers EXCEPT ![w] = r]
      /\ reported' = IF workers[w].report = "none" THEN reported
                     ELSE [reported EXCEPT ![jobs[j].person] = workers[w].report]
      /\ UNCHANGED <<mapped, attended, person, changes, events, account, enabled, asked, retries, faults,
                     switches,
                     straddled, retried, missed>>
  BY DEF Accepted, Answered, outside, bounds, JobOf
<1> HIDE DEF n
<1>5. /\ e \in Job /\ SameKey(jobs[j], e) /\ e.token = jobs[j].token /\ e.accepted = n
      /\ e.excused = jobs[j].excused /\ e.status = jobs[j].status /\ e.lease = jobs[j].lease
  BY <1>2, <1>3 DEF Job, SameKey
<1>6. /\ r \in Worker /\ r.pc = "answered" /\ r.job = j /\ r.polls = workers[w].polls
      /\ r.account = workers[w].account /\ r.answer = a
  BY <1>1 DEF Worker
<1> HIDE DEF e, r
<1>7. /\ jobs' \in Seq(Job) /\ JobIds' = JobIds
      /\ \A i \in JobIds : jobs'[i] = IF i = j THEN e ELSE jobs[i]
  BY <1>2, <1>4, <1>5, RowStep DEF JobsInv
<1>8. /\ workers' \in [Workers -> Worker] /\ workers'[w] = r
      /\ \A v \in Workers : v # w => workers'[v] = workers[v]
      /\ \A v \in Workers : Working(v)' => workers'[v].job \in JobIds'
  BY <1>2, <1>4, <1>6, <1>7, TaskStep DEF JobsInv
<1>9. RowsKeep /\ TasksContinue /\ HistoryGrows /\ NoneReopens /\ LeasesKeep
      /\ \A i \in JobIds : SameKey(jobs[i], jobs'[i])
  BY <1>1, <1>2, <1>4, <1>5, <1>6, <1>7, <1>8 DEF RowsKeep, SameKey, TasksContinue, HistoryGrows, NoneReopens,
     LeasesKeep,
     WorkersHaveJobs, Working, JobOf
<1>10. TypeOK'
  <2>1. reported' \in [People -> {"none", "entry", "exit"}]
    BY <1>1, <1>4 DEF JobsInv, TypeOK, Worker
  <2> QED
    BY <1>4, <1>7, <1>8, <2>1, TableTyped DEF JobsInv, TypeOK
<1>11. Leases'
  BY <1>1, <1>9, LeasesGoOn DEF JobsInv
<1>12. Current'
  BY <1>1, <1>4, <1>5, <1>6, <1>7, <1>8, <1>9, CurrentGoesOn DEF JobsInv
<1>13. Sends'
  BY <1>1, <1>3, <1>4, <1>5, <1>6, <1>7, <1>8, SendsAccepted DEF JobsInv, Leases, Pushing
<1>14. Spoken'
  BY <1>1, <1>2, <1>3, <1>4, <1>5, <1>6, <1>7, <1>8, SpokenAccepted DEF JobsInv
<1>15. Ledger'
  <2>1. \A p \in People : reported'[p] = reported[p] \/ \E i \in JobIds : jobs[i].person = p
    BY <1>2, <1>4 DEF JobsInv, TypeOK
  <2> QED
    BY <1>4, <1>7, <1>9, <2>1, LedgerRests DEF JobsInv
<1>16. \A v \in Workers : workers'[v].pc = "push" => workers'[v] = workers[v]
  BY <1>6, <1>8
<1>17. Reporting'
  BY <1>1, <1>9, <1>16, ReportingKeeps DEF JobsInv
<1>18. ReportsCatchUp'
  <2> SUFFICES ASSUME NEW p \in People PROVE CatchesUp(p)'
    BY DEF ReportsCatchUp
  <2>1. CatchesUp(p) /\ (Announced(p) => Announced(p)')
    BY <1>4 DEF JobsInv, ReportsCatchUp, Announced
  <2>2. workers[w].report # "none" <=> jobs[j].op = "entry_exit.sync"
    BY <1>1 DEF JobsInv, Reporting, JobOf
  <2>3. CASE Says(w, p)
    <3>1. workers[w].report # "none" /\ reported'[p] = workers[w].report
      BY <1>4, <2>2, <2>3 DEF Says, JobOf, JobsInv, TypeOK
    <3>2. OneJobPerEntity /\ AccountOne
      BY <1>1, OneJobEach DEF JobsInv, Current
    <3>3. \A i \in JobIds : i # workers[w].job => jobs'[i] = jobs[i]
      BY <1>7
    <3>4. workers'[w].pc # "push"
      BY <1>6, <1>8
    <3> QED
      BY <1>1, <1>4, <1>7, <1>8, <1>9, <2>1, <2>3, <3>1, <3>2, <3>3, <3>4, SayingCatchesUp
  <2>4. CASE ~Says(w, p)
    <3>1. reported'[p] = reported[p]
      BY <1>1, <1>4, <2>2, <2>4 DEF Says, JobOf, JobsInv, TypeOK
    <3>2. \A i \in JobIds : jobs[i].op = "entry_exit.sync" /\ jobs[i].person = p
            => jobs'[i].accepted = jobs[i].accepted
      BY <1>1, <1>7, <2>4 DEF Says, JobOf
    <3> QED
      BY <1>1, <1>4, <1>9, <1>16, <2>1, <3>1, <3>2, PersonCatchesUp
  <2> QED
    BY <2>3, <2>4
<1> QED
  BY <1>10, <1>11, <1>12, <1>13, <1>14, <1>15, <1>17, <1>18 DEF JobsInv

\* What a failure leaves of the table.
LEMMA ExcusedRows ==
  ASSUME TypeOK, NEW W \in SUBSET Workers, jobs' = Excused(jobs, W)
  PROVE  /\ jobs' \in Seq(Job) /\ JobIds' = JobIds
         /\ \A j \in JobIds :
              /\ SameKey(jobs[j], jobs'[j]) /\ jobs'[j].token = jobs[j].token /\ jobs'[j].accepted = jobs[j].accepted
              /\ jobs'[j].status = jobs[j].status /\ jobs'[j].lease = jobs[j].lease
              /\ jobs'[j].excused \in {jobs[j].excused, jobs[j].excused + 1}
              /\ (\E w \in W : Unrecorded(w) /\ workers[w].job = j) => jobs'[j].excused = jobs[j].excused + 1
<1> DEFINE Late(j) == \E w \in W : Unrecorded(w) /\ workers[w].job = j
<1>1. /\ DOMAIN jobs' = JobIds
      /\ \A j \in JobIds :
           jobs'[j] = IF Late(j) THEN [jobs[j] EXCEPT !.excused = jobs[j].excused + 1] ELSE jobs[j]
  BY DEF Excused, JobIds
<1>2. jobs' \in [JobIds -> Job]
      /\ \A j \in JobIds :
              /\ SameKey(jobs[j], jobs'[j]) /\ jobs'[j].token = jobs[j].token /\ jobs'[j].accepted = jobs[j].accepted
              /\ jobs'[j].status = jobs[j].status /\ jobs'[j].lease = jobs[j].lease
              /\ jobs'[j].excused \in {jobs[j].excused, jobs[j].excused + 1}
              /\ Late(j) => jobs'[j].excused = jobs[j].excused + 1
  <2> HIDE DEF Late
  <2>1. ASSUME NEW j \in JobIds
        PROVE  /\ jobs'[j] \in Job
               /\ SameKey(jobs[j], jobs'[j]) /\ jobs'[j].token = jobs[j].token /\ jobs'[j].accepted = jobs[j].accepted
               /\ jobs'[j].status = jobs[j].status /\ jobs'[j].lease = jobs[j].lease
               /\ jobs'[j].excused \in {jobs[j].excused, jobs[j].excused + 1}
               /\ Late(j) => jobs'[j].excused = jobs[j].excused + 1
    <3> DEFINE n == jobs[j].excused + 1
    <3>1. jobs[j] \in Job /\ n \in Nat
      BY Known DEF Job
    <3>2. jobs'[j] = IF Late(j) THEN [jobs[j] EXCEPT !.excused = n] ELSE jobs[j]
      BY <1>1
    <3> HIDE DEF n
    <3>3. /\ jobs'[j] \in Job
          /\ SameKey(jobs[j], jobs'[j]) /\ jobs'[j].token = jobs[j].token /\ jobs'[j].accepted = jobs[j].accepted
          /\ jobs'[j].status = jobs[j].status /\ jobs'[j].lease = jobs[j].lease
          /\ jobs'[j].excused \in {jobs[j].excused, n}
          /\ Late(j) => jobs'[j].excused = n
      BY <3>1, <3>2 DEF Job, SameKey
    <3> QED
      BY <3>3 DEF n
  <2>2. jobs' = [j \in JobIds |-> jobs'[j]]
    BY DEF Excused, JobIds
  <2> QED
    BY <2>1, <2>2
<1>3. jobs' \in Seq(Job)
  BY <1>2, Mapping DEF TypeOK, JobIds
<1> QED
  BY <1>1, <1>2, <1>3 DEF JobIds

\* A failure keeps the invariant: what it leaves unrecorded is excused.
LEMMA ExcusedKeeps ==
  ASSUME JobsInv, Fault, NEW W \in SUBSET Workers, jobs' = Excused(jobs, W),
         UNCHANGED <<mapped, attended, outside, history>>,
         workers' \in [Workers -> Worker],
         \A w \in Workers : workers'[w] = workers[w] \/ w \in W,
         \A w \in W : \/ workers'[w] = Idle
                      \/ /\ workers'[w].pc = "answered" /\ workers'[w].answer = "retryable" /\ Working(w)
                         /\ workers'[w].job = workers[w].job /\ workers'[w].polls = workers[w].polls
                         /\ workers'[w].account = workers[w].account
  PROVE  JobsInv'
<1>1. WorkersHaveJobs /\ JobIds \subseteq Nat /\ Counted /\ straddled \subseteq JobIds
  BY Known DEF JobsInv
<1>2. /\ jobs' \in Seq(Job) /\ JobIds' = JobIds
      /\ \A j \in JobIds :
           /\ SameKey(jobs[j], jobs'[j]) /\ jobs'[j].token = jobs[j].token /\ jobs'[j].accepted = jobs[j].accepted
           /\ jobs'[j].status = jobs[j].status /\ jobs'[j].lease = jobs[j].lease
           /\ jobs'[j].excused \in {jobs[j].excused, jobs[j].excused + 1}
           /\ (\E w \in W : Unrecorded(w) /\ workers[w].job = j) => jobs'[j].excused = jobs[j].excused + 1
  BY ExcusedRows DEF JobsInv
<1>3. /\ UNCHANGED <<mapped, attended, person, changes, events, account, enabled, asked, retries, switches,
                     reported, straddled, retried, missed>>
      /\ faults' \in Nat
  BY DEF Fault, outside, history, JobsInv, TypeOK
<1>4. \A w \in Workers : workers'[w].pc # "idle" =>
        /\ Working(w) /\ workers'[w].job = workers[w].job /\ workers'[w].account = workers[w].account
        /\ workers'[w].pc = "push" => workers'[w] = workers[w]
  BY IdleIsWorker DEF Working
<1>5. RowsKeep /\ TasksContinue /\ HistoryGrows /\ NoneReopens /\ LeasesKeep
  BY <1>1, <1>2, <1>3, <1>4 DEF RowsKeep, TasksContinue, HistoryGrows, NoneReopens, LeasesKeep,
     WorkersHaveJobs, Working, JobOf
<1>6. TypeOK'
  <2>1. \A w \in Workers : Working(w)' => workers'[w].job \in JobIds'
    BY <1>1, <1>2, <1>4 DEF WorkersHaveJobs, Working
  <2> QED
    BY <1>2, <1>3, <2>1, TableTyped DEF JobsInv, TypeOK
<1>7. Leases'
  BY <1>1, <1>5, LeasesGoOn DEF JobsInv
<1>8. Current'
  <2>1. \A w \in Workers : workers'[w].pc # "idle" => workers'[w].account \in {workers[w].account, account}
    BY <1>4
  <2> QED
    BY <1>1, <1>2, <1>3, <1>5, <2>1, CurrentGoesOn DEF JobsInv
<1>9. Sends'
  BY <1>1, <1>2, <1>3, SendsExcused DEF JobsInv, Leases
<1>10. Spoken'
  BY <1>1, <1>2, <1>3, SpokenExcused DEF JobsInv
<1>11. Ledger'
  BY <1>2, <1>3, LedgerRests DEF JobsInv
<1>12. Reporting'
  <2>1. \A w \in Workers : workers'[w].pc = "push" => workers'[w] = workers[w]
    BY <1>4
  <2> QED
    BY <1>1, <1>5, <2>1, ReportingKeeps DEF JobsInv
<1>13. ReportsCatchUp'
  <2> SUFFICES ASSUME NEW p \in People PROVE CatchesUp(p)'
    BY DEF ReportsCatchUp
  <2>1. CatchesUp(p) /\ (Announced(p) => Announced(p)')
    BY <1>3 DEF JobsInv, ReportsCatchUp, Announced
  <2>2. \A w \in Workers : workers'[w].pc = "push" => workers'[w] = workers[w]
    BY <1>4
  <2> QED
    BY <1>1, <1>2, <1>3, <1>5, <2>1, <2>2, PersonCatchesUp
<1> QED
  BY <1>6, <1>7, <1>8, <1>9, <1>10, <1>11, <1>12, <1>13 DEF JobsInv

\* Restarts, failed statements and lost outcomes.
LEMMA FailureKeeps ==
  ASSUME JobsInv, Failure
  PROVE  JobsInv'
<1>1. workers \in [Workers -> Worker] /\ Idle \in Worker
  BY IdleIsWorker DEF JobsInv, TypeOK
<1>2. CASE Restart
  <2>1. workers' \in [Workers -> Worker] /\ \A w \in Workers : workers'[w] = Idle
    BY <1>1, <1>2 DEF Restart
  <2>2. Workers \in SUBSET Workers
    OBVIOUS
  <2> QED
    BY <1>2, <2>1, <2>2, ExcusedKeeps DEF Restart
<1>3. ASSUME NEW w \in Workers, IssueLost(w)
      PROVE  JobsInv'
  <2>1. workers' \in [Workers -> Worker] /\ \A v \in Workers : workers'[v] = IF v = w THEN Idle ELSE workers[v]
    BY <1>1, <1>3 DEF IssueLost
  <2>2. {w} \in SUBSET Workers
    OBVIOUS
  <2> QED
    BY <1>3, <2>1, <2>2, ExcusedKeeps DEF IssueLost
<1>4. ASSUME NEW w \in Workers, StatementFails(w)
      PROVE  JobsInv'
  <2>1. CASE Got(w, "token") /\ Answered(w, "unknown") /\ UNCHANGED jobs
    BY <1>4, <2>1, TokenLostKeeps DEF StatementFails
  <2>2. CASE ~(Got(w, "token") /\ Answered(w, "unknown") /\ UNCHANGED jobs)
    <3> DEFINE r == [workers[w] EXCEPT !.pc = "answered", !.answer = "retryable"]
    <3>1. /\ Working(w) /\ workers' = [workers EXCEPT ![w] = r] /\ jobs' = Excused(jobs, {w})
          /\ Fault /\ UNCHANGED <<mapped, attended, outside, history>>
      BY <1>4, <2>2 DEF StatementFails, Got, Working, Answered
    <3>2. /\ r \in Worker /\ r.pc = "answered" /\ r.answer = "retryable" /\ r.job = workers[w].job
          /\ r.polls = workers[w].polls /\ r.account = workers[w].account
      BY <1>1 DEF Worker
    <3> HIDE DEF r
    <3>3. workers' \in [Workers -> Worker] /\ \A v \in Workers : workers'[v] = IF v = w THEN r ELSE workers[v]
      BY <1>1, <3>1, <3>2
    <3>4. {w} \in SUBSET Workers
      OBVIOUS
    <3> QED
      BY <3>1, <3>2, <3>3, <3>4, ExcusedKeeps
  <2> QED
    BY <2>1, <2>2
<1> QED
  BY <1>2, <1>3, <1>4 DEF Failure
-----------------------------------------------------------------------------
\* An empty table.
LEMMA InitHasJobsInv == Init => JobsInv
<1> SUFFICES ASSUME Init PROVE JobsInv
  OBVIOUS
<1>1. jobs = <<>> /\ JobIds = {} /\ \A w \in Workers : workers[w] = Idle
  BY DEF Init, JobIds
<1>2. \A w \in Workers : ~Working(w) /\ workers[w].pc = "idle"
  BY <1>1, IdleIsWorker DEF Working
<1>3. TypeOK
  <2>1. jobs \in Seq(Job) /\ workers \in [Workers -> Worker]
    BY <1>1, IdleIsWorker DEF Init
  <2>2. changes \in [People -> Seq(Event)]
    BY DEF Init
  <2> QED
    BY <1>1, <1>2, <2>1, <2>2, BoundsAssumption DEF Init, TypeOK, Accounts
<1>4. Leases
  BY <1>2 DEF Leases, Held, HeldOnce, Ahead
<1>5. Current
  BY <1>1, <1>2 DEF Current, TokensAreCurrent, TasksAreCurrent, MappingIsOfThisAccount, AccountOne, Init
<1>6. Sends
  BY <1>1, <1>2 DEF Sends, PollsMeansToken, Phases, RedeliveryIsExplained, RestingIsUnsent, TaskIsUnsent, Got,
     Working
<1>7. Spoken
  BY <1>1, <1>2 DEF Spoken, SpokenIsSettled, SuccessSpoke
<1>8. Ledger
  BY <1>1 DEF Ledger, EventsOnce, EventsBelow, Unknown, Init
<1>9. Reporting
  BY <1>2 DEF Reporting
<1>10. ReportsCatchUp
  BY <1>2 DEF ReportsCatchUp, CatchesUp, Told, Says, Init
<1> QED
  BY <1>3, <1>4, <1>5, <1>6, <1>7, <1>8, <1>9, <1>10 DEF JobsInv

\* One case for each disjunct of the next-state relation.
LEMMA NextKeepsJobsInv == JobsInv /\ [Next]_vars => JobsInv'
<1> SUFFICES ASSUME JobsInv, [Next]_vars PROVE JobsInv'
  OBVIOUS
<1>1. CASE DomainStep
  BY <1>1, DomainWriteKeeps, RecordAttendanceKeeps DEF DomainStep
<1>2. CASE BindingStep
  BY <1>2, DisableBindingKeeps, EnableBindingKeeps, ChangeAccountKeeps DEF BindingStep
<1>3. CASE \E p \in People : Dispatch(p)
  BY <1>3, DispatchKeeps
<1>4. ASSUME NEW w \in Workers, ProcessJob(w)
      PROVE  JobsInv'
  <2>1. CASE Settling(w)
    BY <2>1, SettlingKeeps
  <2>2. CASE Compose(w)
    BY <2>2, ComposeKeeps
  <2>3. CASE Push(w)
    BY <2>3, AcceptedKeeps, RefusedKeeps DEF Push
  <2>4. CASE Poll(w)
    BY <2>4, PollResultKeeps DEF Poll, PollResolved
  <2>5. CASE SaveMapping(w)
    BY <2>5, SaveMappingKeeps
  <2>6. CASE EnqueueEntry(w)
    BY <2>6, EnqueueEntryKeeps
  <2> QED
    BY <1>4, <2>1, <2>2, <2>3, <2>4, <2>5, <2>6 DEF ProcessJob, Settling
<1>5. ASSUME NEW w \in Workers, NEW j \in JobIds, ClaimJob(w, j)
      PROVE  JobsInv'
  BY <1>5, ClaimJobKeeps
<1>6. CASE Failure
  BY <1>6, FailureKeeps
<1>7. CASE Operator
  BY <1>7, AskRetryKeeps, RetryPlatformJobKeeps DEF Operator
<1>8. ASSUME NEW j \in JobIds, LeaseEnds(j)
      PROVE  JobsInv'
  BY <1>8, LeaseEndsKeeps
<1>9. CASE UNCHANGED vars
  BY <1>9, StutterKeeps
<1> QED
  BY <1>1, <1>2, <1>3, <1>4, <1>5, <1>6, <1>7, <1>8, <1>9 DEF Next, ProcessOnePending

\* The inductive invariant holds in every state of the queue, for any number of tasks,
\* people, events, attempts, faults, presses of the retry button and accounts.
THEOREM JobsInvHolds == Spec => []JobsInv
<1>1. Init => JobsInv
  BY InitHasJobsInv
<1>2. JobsInv /\ [Next]_vars => JobsInv'
  BY NextKeepsJobsInv
<1> QED
  BY <1>1, <1>2, PTL DEF Spec

\* The table, the mappings and the tasks keep their types: no status, attempt count or
\* token outside of what the schema and the worker know (xinleda_job_worker.rs).
THEOREM JobsAreTyped == Spec => []TypeOK
<1>1. JobsInv => TypeOK
  BY DEF JobsInv
<1> QED
  BY <1>1, JobsInvHolds, PTL

\* However tasks claim, die and are overtaken, two of them never work on the same person
\* or record: the claim query of process_one_pending and its 10 minute lease see to it.
THEOREM TasksStayApart == Spec => []OneJobPerEntity
<1>1. JobsInv => OneJobPerEntity
  BY OneJobEach, Known DEF JobsInv
<1> QED
  BY <1>1, JobsInvHolds, PTL

\* A mapping that is used belongs to the account it is used with (handle_success), but for
\* a job that was being worked on while the account changed.
THEOREM MappingsFollow == Spec => []MappingIsOfThisAccount
<1>1. JobsInv => MappingIsOfThisAccount
  BY DEF JobsInv, Current
<1> QED
  BY <1>1, JobsInvHolds, PTL

\* No job is delivered again without a failure that explains it, or the retry button:
\* neither by the claim query, nor by handle_issue, nor by a lost token.
THEOREM NothingIsSentTwice == Spec => []RedeliveryIsExplained
<1>1. JobsInv => RedeliveryIsExplained
  BY DEF JobsInv, Sends
<1> QED
  BY <1>1, JobsInvHolds, PTL

\* Whatever order jobs are created, claimed, refused, retried and completed in: once all is
\* quiet, the last entry or exit the platform was told is where the person is.
THEOREM ReportsFollow == Spec => []ReportedInOrder
<1>1. JobsInv => ReportedInOrder
  BY CaughtUp DEF JobsInv, Spoken
<1> QED
  BY <1>1, JobsInvHolds, PTL

\* Only a platform's acceptance counts as one, and only a task that does not poll gets there.
LEMMA OnlyPushesAreAccepted ==
  ASSUME JobsInv, [Next]_vars, NEW j \in JobIds, jobs'[j].accepted # jobs[j].accepted
  PROVE  \E w \in Workers : Pushing(w) /\ workers[w].job = j
<1>1. TypeOK /\ jobs[j] \in Job
  BY Known DEF JobsInv
<1>2. ~UNCHANGED jobs
  OBVIOUS
<1>3. ~Grown(jobs, jobs')
  BY DEF Grown, JobIds
<1>4. ASSUME NEW k \in JobIds, NEW e \in Job, e.accepted = jobs[k].accepted, jobs' = [jobs EXCEPT ![k] = e]
      PROVE  FALSE
  BY <1>1, <1>4, RowStep
<1>5. ASSUME NEW W \in SUBSET Workers, jobs' = Excused(jobs, W)
      PROVE  FALSE
  BY <1>1, <1>5, ExcusedRows
<1>6. CASE DomainStep
  <2>1. PICK p \in People : RecordAttendance(p)
    BY <1>2, <1>6 DEF DomainStep, Hire, Leave, Return, Remove, Written
  <2> QED
    BY <1>1, <1>3, <2>1, RecordAttendanceGrows
<1>7. CASE BindingStep
  <2>1. ChangeAccount
    BY <1>2, <1>7 DEF BindingStep, DisableBinding, EnableBinding
  <2>2. jobs'[j] = Retired(jobs[j])
    BY <2>1 DEF ChangeAccount
  <2> QED
    BY <1>1, <2>2, RetiredRow
<1>8. ASSUME NEW p \in People, Dispatch(p)
      PROVE  FALSE
  BY <1>1, <1>3, <1>8, DispatchGrows
<1>9. ASSUME NEW w \in Workers, ProcessJob(w)
      PROVE  Pushing(w) /\ workers[w].job = j
  <2>1. CASE Settling(w)
    <3>1. PICK e \in Job : SettlesWith(w, e)
      BY <2>1, SettlingIsOutcome
    <3>2. workers[w].job \in JobIds /\ e.accepted = jobs[workers[w].job].accepted
      BY <1>1, <3>1, Known DEF SettlesWith, Outcome, WorkersHaveJobs, JobOf
    <3> QED
      BY <1>4, <3>1, <3>2 DEF SettlesWith
  <2>2. CASE EnqueueEntry(w)
    BY <1>1, <1>3, <2>2, EnqueueEntryGrows
  <2>3. CASE \E a \in {"token", "done", "unknown"} : Accepted(w, a)
    <3>1. PICK a \in {"token", "done", "unknown"} : Accepted(w, a)
      BY <2>3
    <3> DEFINE k == workers[w].job
    <3>2. Pushing(w) /\ k \in JobIds /\ jobs[k] \in Job
      BY <1>1, <3>1, Known DEF Accepted, Pushing, Working, WorkersHaveJobs
    <3>3. \A i \in JobIds : i # k => jobs'[i] = jobs[i]
      BY <3>1, <3>2 DEF Accepted, JobIds
    <3> QED
      BY <3>2, <3>3
  <2>4. CASE Compose(w) \/ Poll(w) \/ SaveMapping(w) \/ \E a \in {"retryable", "permanent", "unknown"} : Refused(w, a)
    BY <1>2, <2>4 DEF Compose, Poll, PollResolved, PollResult, SaveMapping, Refused
  <2> QED
    BY <1>9, <2>1, <2>2, <2>3, <2>4 DEF ProcessJob, Settling, Push
<1>10. ASSUME NEW w \in Workers, NEW k \in JobIds, ClaimJob(w, k)
       PROVE  FALSE
  <2>1. jobs[k] \in Job
    BY <1>1, Known
  <2>2. Leased(jobs[k]) \in Job /\ Leased(jobs[k]).accepted = jobs[k].accepted
    BY <2>1, LeasedRow
  <2> QED
    BY <1>4, <1>10, <2>2 DEF ClaimJob
<1>11. ~Failure
  <2>1. ~Restart
    BY <1>5 DEF Restart
  <2>2. ASSUME NEW w \in Workers, StatementFails(w) \/ IssueLost(w)
        PROVE  FALSE
    <3>1. jobs' = Excused(jobs, {w})
      BY <1>2, <2>2 DEF StatementFails, IssueLost
    <3>2. {w} \in SUBSET Workers
      OBVIOUS
    <3> QED
      BY <1>5, <3>1, <3>2
  <2> QED
    BY <2>1, <2>2 DEF Failure
<1>12. ASSUME NEW k \in JobIds, RetryPlatformJob(k) \/ LeaseEnds(k)
       PROVE  FALSE
  <2>1. jobs[k] \in Job
    BY <1>1, Known
  <2>2. CASE RetryPlatformJob(k)
    <3> DEFINE e == [jobs[k] EXCEPT !.status = "pending", !.lease = "none", !.attempts = 0, !.token = 0]
    <3>1. e.accepted = jobs[k].accepted /\ jobs' = [jobs EXCEPT ![k] = e] /\ e \in Job
      <4>1. "pending" \in {"waiting_data"} \cup Active \cup Finished /\ 0 \in 0 .. MaxAccounts
        BY BoundsAssumption DEF Active
      <4> QED
        BY <2>1, <2>2, <4>1 DEF RetryPlatformJob, Job
    <3> QED
      BY <1>4, <3>1
  <2>3. CASE LeaseEnds(k)
    <3> DEFINE e == [jobs[k] EXCEPT !.lease = "expired"]
    <3>1. e.accepted = jobs[k].accepted /\ jobs' = [jobs EXCEPT ![k] = e] /\ e \in Job
      BY <2>1, <2>3 DEF LeaseEnds, Job
    <3> QED
      BY <1>4, <3>1
  <2> QED
    BY <1>12, <2>2, <2>3
<1>13. ASSUME NEW k \in JobIds, AskRetry(k)
       PROVE  FALSE
  BY <1>2, <1>13 DEF AskRetry
<1> QED
  BY <1>2, <1>6, <1>7, <1>8, <1>9, <1>10, <1>11, <1>12, <1>13 DEF Next, ProcessOnePending, Operator, vars

\* A job with a token is polled, never written again (poll_async_result), as long as the
\* operator leaves the token where it is.
THEOREM TokensArePolled == Spec => TokenIsPolled
<1>1. JobsInv /\ [Next]_vars =>
        \A j \in JobIds \ retried : jobs[j].token # 0 => jobs'[j].accepted = jobs[j].accepted
  <2> SUFFICES ASSUME JobsInv, [Next]_vars, NEW j \in JobIds, j \notin retried, jobs[j].token # 0,
                      jobs'[j].accepted # jobs[j].accepted
               PROVE  FALSE
    OBVIOUS
  <2>1. PICK w \in Workers : workers[w].pc = "push" /\ workers[w].job = j
    BY OnlyPushesAreAccepted DEF Pushing
  <2> QED
    BY <2>1 DEF JobsInv, Sends, Phases, PollsMeansToken, Working, JobOf
<1> QED
  BY <1>1, JobsInvHolds, PTL DEF TokenIsPolled, Spec
=============================================================================

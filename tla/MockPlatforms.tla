--------------------------- MODULE MockPlatforms ----------------------------
(***************************************************************************)
(* integration-mock: one server that stands in for the three platforms in  *)
(* test environments. It checks who calls, logs the call, fails it if a    *)
(* fault was ordered, and keeps what was reported in SQLite. One process   *)
(* handles one request at a time, except that a fault may ask for a delay: *)
(* until then other requests, and a reset, go on. What is only returned to *)
(* be read (names, lists, the answers of the administration) is left out.  *)
(***************************************************************************)
EXTENDS Integers, FiniteSets, Sequences

CONSTANTS Nonces,
          Called,      \* bound: the operations that are called,
          Faulted,     \* bound: and those that faults are ordered for
          MaxClock,    \* bound: the clock, in tens of minutes
          MaxCalls,    \* bound: requests of clients
          MaxOrders,   \* bound: faults ordered
          MaxResets    \* bound: resets and restarts, together


\* catalog.js
NingboRoutes ==
  {"Attendance/Add", "EnterpriseWorker/GetWorkerCode", "EnterpriseWorker/AddOrUpdateWorker",
   "EnterpriseWorker/AddEnterpriseOfWorker", "EnterpriseWorker/AddContract", "Project/GetByFgwCode",
   "Project/AddTeam", "Project/TeamExit", "Project/ListTeams", "Project/AddWorkerV2",
   "Project/EditWorker", "Project/ProjectWorkerExit"}
XinledaMethods ==
  {"unifiedlog.get", "company.import", "company.safeguard", "project.import",
   "project.labourer.entry", "project.labourer.attendance", "project.commission",
   "project.billboard", "project.agreement", "project.manager.entry", "labourer.import"}
YongxinRoutes ==
  {"project/V2/query", "projectCorp/V2/add", "team/V2/add", "worker/V2/add", "entryExit/V2/add",
   "attend/V2/add", "asyncHandleResult/V2/query", "sysFile/V2/uploadImg"}

\* Every call there is; any other path is answered with 404 and not logged.
Operations == NingboRoutes \cup XinledaMethods \cup {"openapi", "upfiles"} \cup YongxinRoutes

ASSUME MockAssumption ==
  /\ Called \subseteq Operations /\ Faulted \subseteq Operations
  /\ MaxClock \in Nat \ {0} /\ MaxCalls \in Nat /\ MaxOrders \in Nat /\ MaxResets \in Nat

YongxinJobs == {"worker/V2/add", "entryExit/V2/add", "attend/V2/add"}

\* What the server has numbered or is replies of: a worker by identity card, a team,
\* a project's worker, a job by its method, a file.
Thing(kind, n) == [kind |-> kind, n |-> n]
Nothing == Thing("nothing", 0)
Card == Thing("identity card", 1)

Answer(status, code, of) == [status |-> status, code |-> code, of |-> of]
Ok(of) == Answer(200, 0, of)
Unanswered == Answer(0, 0, Nothing)

\* seed: the numbers begin after 1000.
Counters == {"ningbo_team", "ningbo_worker", "ningbo_project_worker", "file", "job"}
EmptyDb ==
  [sequences |-> [name \in Counters |-> 1000],
   things    |-> {},      \* the rows of workers, teams, project workers, jobs and files
   exited    |-> {},      \* of these, teams and workers that have left
   nonces    |-> {},
   faults    |-> <<>>,
   requests  |-> {}]

VARIABLES
  strict,       \* authMode
  clock,
  db,           \* the database, which outlives the process
  lastRequest,  \* the last identifier of a request: SQLite's AUTOINCREMENT survives DELETE
  delayed,      \* answers that wait for the delay of their fault
  replies,         \* what each call was answered; it is known by its number
  accepted,     \* signed requests that were found valid since the last reset
  replayed,     \* one of them was found valid again
  orders, mockStops

mockVars == <<strict, clock, db, lastRequest, delayed, replies, accepted, replayed, orders, mockStops>>

MockInit ==
  /\ strict \in BOOLEAN
  /\ clock = 1
  /\ db = EmptyDb
  /\ lastRequest = 0
  /\ delayed = {}
  /\ replies = <<>>
  /\ accepted = {} /\ replayed = FALSE
  /\ orders = 0 /\ mockStops = 0
-----------------------------------------------------------------------------
(* Who calls. What is wrong with a request: a parameter that is missing, a *)
(* key, a project or a version that is not known, a signature that is not  *)
(* its own. Each platform looks in its order and answers in its own codes. *)

Flaws == {"none", "missing", "key", "project", "version", "signature"}
Valid(d) == [valid |-> TRUE, answer |-> Unanswered, db |-> d]
Refusal(d, status, code) == [valid |-> FALSE, answer |-> Answer(status, code, Nothing), db |-> d]

\* How old, or how far ahead of the clock, the time of a request may be.
TwoHours == 12
TenMinutes == 1
Expired(q, window) == q.time < clock - window \/ q.time > clock + window

NingboAuth(d, q) ==
  IF q.flaw \in {"missing", "key", "signature"} \/ Expired(q, TwoHours)
    THEN Refusal(d, 401, 0) ELSE Valid(d)

\* Nonces are forgotten when their request could not be accepted any more.
Remembered(d) == {n \in d.nonces : n.expires >= clock}
\* Mutant: the nonce is kept for ten minutes from now.
ConsumeNonceFromNow(d, q) ==
  [d EXCEPT !.nonces = Remembered(d) \cup {[nonce |-> q.nonce, expires |-> clock + TenMinutes]}]

ConsumeNonce(d, q) ==
  [d EXCEPT !.nonces = Remembered(d) \cup {[nonce |-> q.nonce, expires |-> q.time + TenMinutes]}]

XinledaAuth(d, q) ==
  IF q.flaw = "missing" THEN Refusal(d, 200, -1)
  ELSE IF q.flaw = "key" THEN Refusal(d, 200, -3)
  ELSE IF q.flaw = "version" THEN Refusal(d, 200, 5)
  ELSE IF Expired(q, TenMinutes) THEN Refusal(d, 200, -1)
  ELSE IF q.flaw = "signature" THEN Refusal(d, 200, -2)
  ELSE IF \E n \in Remembered(d) : n.nonce = q.nonce
    THEN Refusal([d EXCEPT !.nonces = Remembered(d)], 200, 4)
  ELSE Valid(ConsumeNonce(d, q))

XinledaUploadAuth(d, q) ==
  IF q.flaw = "missing" THEN Refusal(d, 200, -1)
  ELSE IF q.flaw = "key" THEN Refusal(d, 200, -3)
  ELSE IF Expired(q, TenMinutes) THEN Refusal(d, 200, -1)
  ELSE IF q.flaw = "signature" THEN Refusal(d, 200, -2)
  ELSE Valid(d)

\* Of an upload only the key is looked at.
YongxinAuth(d, q) ==
  LET upload == q.operation = "sysFile/V2/uploadImg"
  IN  IF q.flaw = "missing" THEN Refusal(d, 200, 2007)
      ELSE IF q.flaw = "key" THEN Refusal(d, 200, 2002)
      ELSE IF upload THEN Valid(d)
      ELSE IF q.flaw = "project" THEN Refusal(d, 200, 2006)
      ELSE IF Expired(q, TenMinutes) THEN Refusal(d, 200, 2004)
      ELSE IF q.flaw = "signature" THEN Refusal(d, 200, 2005)
      ELSE Valid(d)

Signed(q) == q.operation \in XinledaMethods \cup {"openapi"}

Auth(d, q) ==
  CASE q.operation \in NingboRoutes  -> NingboAuth(d, q)
    [] q.operation \in YongxinRoutes -> YongxinAuth(d, q)
    [] q.operation = "upfiles"       -> XinledaUploadAuth(d, q)
    [] OTHER                         -> XinledaAuth(d, q)
-----------------------------------------------------------------------------
(* What the platforms do. *)

Numbered(d, name) == [d EXCEPT !.sequences[name] = @ + 1]
Result(d, answer) == [db |-> d, answer |-> answer]

\* The next number of its sequence makes a new row.
Add(d, name, kind) ==
  LET numbered == Numbered(d, name)
      thing == Thing(kind, numbered.sequences[name])
  IN  Result([numbered EXCEPT !.things = @ \cup {thing}], Ok(thing))

Exit(d, thing) == Result([d EXCEPT !.exited = @ \cup (d.things \cap {thing})], Ok(Nothing))

\* A worker without identity card gets one; with one the worker's code, which
\* is made from it, stays the same. A field that is missing where the database
\* needs one is an internal error, and the number is used up.
HandleNingbo(d, q) ==
  CASE q.operation = "EnterpriseWorker/GetWorkerCode" ->
         Result(d, Ok(IF q.about \in d.things THEN q.about ELSE Nothing))
    [] q.operation = "EnterpriseWorker/AddOrUpdateWorker" ->
         IF q.about = Nothing THEN Add(d, "ningbo_worker", "identity card")
         ELSE Result([d EXCEPT !.things = @ \cup {q.about}], Ok(q.about))
    [] q.operation = "Project/AddTeam"  -> Add(d, "ningbo_team", "team")
    [] q.operation = "Project/TeamExit" -> Exit(d, q.about)
    [] q.operation = "Project/AddWorkerV2" ->
         IF q.about = Nothing
           THEN Result(Numbered(d, "ningbo_project_worker"), Answer(500, 0, Nothing))
           ELSE Add(d, "ningbo_project_worker", "project worker")
    [] q.operation = "Project/EditWorker" ->
         Result(d, IF q.about = Nothing THEN Answer(500, 0, Nothing) ELSE Ok(Nothing))
    [] q.operation = "Project/ProjectWorkerExit" -> Exit(d, q.about)
    [] OTHER -> Result(d, Ok(Nothing))

\* A token that is asked about is answered with its job, or with a code.
Query(d, q, unknown) ==
  Result(d, IF q.about \in d.things THEN Ok(q.about) ELSE Answer(200, unknown, Nothing))

\* Every method but the query makes a job that is done at once; the import of a
\* project also numbers the project.
HandleXinleda(d, q) ==
  CASE q.operation = "openapi"        -> Result(d, Answer(200, 1, Nothing))
    [] q.operation = "upfiles"        -> Add(d, "file", "file")
    [] q.operation = "unifiedlog.get" -> Query(d, q, 2)
    [] q.operation = "project.import" -> Add(Numbered(d, "job"), "job", q.operation)
    [] OTHER -> LET made == Add(d, "job", q.operation)
                IN  [made EXCEPT !.answer.code = 20]

\* The teams of Yongxin are numbered with those of Ningbo.
HandleYongxin(d, q) ==
  CASE q.operation = "team/V2/add"                -> Add(d, "ningbo_team", "Yongxin team")
    [] q.operation \in YongxinJobs                -> Add(d, "job", q.operation)
    [] q.operation = "asyncHandleResult/V2/query" -> Query(d, q, 2011)
    [] q.operation = "sysFile/V2/uploadImg"       -> Add(d, "file", "file")
    [] OTHER -> Result(d, Ok(Nothing))

Handled(d, q) ==
  CASE q.operation \in NingboRoutes  -> HandleNingbo(d, q)
    [] q.operation \in YongxinRoutes -> HandleYongxin(d, q)
    [] OTHER                         -> HandleXinleda(d, q)
-----------------------------------------------------------------------------
(* A request: it is checked and logged, then refused, failed or handled. *)

\* Mutant: the identifiers begin anew when the log was emptied.
RequestIdReused(d) == Cardinality(d.requests) + 1

RequestId(d) == lastRequest + 1

Record(d, id, valid) ==
  [d EXCEPT !.requests = @ \cup {[id |-> id, valid |-> valid, answer |-> Unanswered]}]

\* The log is left alone where its row has gone.
Finish(d, id, answer) ==
  [d EXCEPT !.requests =
     {IF r.id = id THEN [r EXCEPT !.answer = answer] ELSE r : r \in @}]

\* Mutant: a fault that is used up is ordered once more.
OrderedOnceMore(d, q) == {k \in DOMAIN d.faults : d.faults[k].operation = q.operation /\ d.faults[k].remaining >= 0}

\* The oldest fault of an operation that is not used up.
Ordered(d, q) == {k \in DOMAIN d.faults : d.faults[k].operation = q.operation /\ d.faults[k].remaining > 0}
First(ks) == CHOOSE k \in ks : \A j \in ks : k <= j

\* A call that is valid uses up its nonce whatever becomes of it afterwards.
Received(q) ==
  LET auth == Auth(db, q)
      signed == [nonce |-> q.nonce, time |-> q.time]
  IN  /\ Len(replies) < MaxCalls
      /\ lastRequest' = RequestId(db)
      /\ IF Signed(q) /\ auth.valid
           THEN accepted' = accepted \cup {signed} /\ replayed' = (replayed \/ signed \in accepted)
           ELSE UNCHANGED <<accepted, replayed>>
      /\ UNCHANGED <<strict, clock, orders, mockStops>>

Logged(q) == LET auth == Auth(db, q) IN Record(auth.db, RequestId(db), auth.valid)
Passes(q) == strict => Auth(db, q).valid

Reply(d, id, answer) == db' = Finish(d, id, answer) /\ replies' = Append(replies, [id |-> id, answer |-> answer])

Refuse(q) ==
  /\ Received(q)
  /\ ~Passes(q)
  /\ Reply(Logged(q), RequestId(db), Auth(db, q).answer)
  /\ UNCHANGED delayed

\* One of the fault's calls is used up at once, the answer may be given later.
FailAsOrdered(q) ==
  LET k == First(Ordered(db, q))
      spent == [Logged(q) EXCEPT !.faults[k].remaining = @ - 1]
      answer == Answer(db.faults[k].status, 503, Nothing)
  IN  /\ Received(q)
      /\ Passes(q) /\ Ordered(db, q) /= {}
      /\ IF db.faults[k].delay
           THEN /\ db' = spent
                /\ replies' = Append(replies, [id |-> RequestId(db), answer |-> Unanswered])
                /\ delayed' = delayed \cup {[id |-> RequestId(db), call |-> Len(replies'), answer |-> answer]}
           ELSE Reply(spent, RequestId(db), answer) /\ UNCHANGED delayed

Handle(q) ==
  LET handled == Handled(Logged(q), q)
  IN  /\ Received(q)
      /\ Passes(q) /\ Ordered(db, q) = {}
      /\ Reply(handled.db, RequestId(db), handled.answer)
      /\ UNCHANGED delayed

\* The delay is over.
Wake(w) ==
  /\ w \in delayed
  /\ delayed' = delayed \ {w}
  /\ db' = Finish(db, w.id, w.answer)
  /\ replies' = [replies EXCEPT ![w.call].answer = w.answer]
  /\ UNCHANGED <<strict, clock, lastRequest, accepted, replayed, orders, mockStops>>
-----------------------------------------------------------------------------
(* The administration, and time. *)

\* At least one call fails, with a status that HTTP has.
OrderFault(operation, remaining, delay) ==
  /\ orders < MaxOrders /\ orders' = orders + 1
  /\ db' = [db EXCEPT !.faults = Append(@, [operation |-> operation, remaining |-> remaining,
                                            status |-> 503, delay |-> delay])]
  /\ UNCHANGED <<strict, clock, lastRequest, delayed, replies, accepted, replayed, mockStops>>

\* Everything is deleted and the numbers begin anew; a call that is delayed goes on.
Reset ==
  /\ mockStops < MaxResets /\ mockStops' = mockStops + 1
  /\ db' = EmptyDb
  /\ accepted' = {}
  /\ UNCHANGED <<strict, clock, lastRequest, delayed, replies, replayed, orders>>

\* The process is stopped and another started with the same database.
Restart ==
  /\ mockStops < MaxResets /\ mockStops' = mockStops + 1
  /\ delayed' = {}
  /\ UNCHANGED <<strict, clock, db, lastRequest, replies, accepted, replayed, orders>>

MockTick ==
  /\ clock < MaxClock /\ clock' = clock + 1
  /\ UNCHANGED <<strict, db, lastRequest, delayed, replies, accepted, replayed, orders, mockStops>>

\* What a request of each kind may be about: what the server has answered before,
\* a card, or nothing.
Abouts(operation) ==
  LET given == {t.answer.of : t \in {replies[k] : k \in DOMAIN replies}}
  IN  CASE operation \in {"EnterpriseWorker/GetWorkerCode", "EnterpriseWorker/AddOrUpdateWorker"} -> {Nothing, Card}
        [] operation \in {"unifiedlog.get", "asyncHandleResult/V2/query", "Project/TeamExit",
                          "Project/AddWorkerV2", "Project/EditWorker", "Project/ProjectWorkerExit"} -> given \cup {Nothing}
        [] OTHER -> {Nothing}

\* The clocks of the clients may be ten minutes ahead or behind.
Requests(operation) ==
  [operation : {operation}, flaw : Flaws, time : 0..MaxClock, nonce : Nonces, about : Abouts(operation)]

MockNext ==
  \/ \E operation \in Called : \E q \in Requests(operation) : Refuse(q) \/ FailAsOrdered(q) \/ Handle(q)
  \/ \E w \in delayed : Wake(w)
  \/ \E operation \in Faulted, remaining \in 1..2, delay \in BOOLEAN : OrderFault(operation, remaining, delay)
  \/ Reset \/ Restart \/ MockTick
-----------------------------------------------------------------------------
ThingKinds == {"nothing", "identity card", "team", "project worker", "file", "Yongxin team"}
           \cup XinledaMethods \cup YongxinJobs
Things == [kind : ThingKinds, n : Nat]
MockAnswers == [status : {0, 200, 401, 500, 503}, code : Int, of : Things]
Tokens == [nonce : Nonces, expires : Nat]
Faults == [operation : Faulted, remaining : 0..2, status : {503}, delay : BOOLEAN]
Entries == [id : 1..MaxCalls, valid : BOOLEAN, answer : MockAnswers]
MockReplies == [id : 1..MaxCalls, answer : MockAnswers]
Databases ==
  [sequences : [Counters -> Nat], things : SUBSET Things, exited : SUBSET Things,
   nonces : SUBSET Tokens, faults : Seq(Faults), requests : SUBSET Entries]

MockTypeOK ==
  /\ strict \in BOOLEAN /\ clock \in 1..MaxClock
  /\ db \in Databases /\ db.exited \subseteq db.things
  /\ lastRequest \in 0..MaxCalls
  /\ delayed \subseteq [id : 1..MaxCalls, call : DOMAIN replies, answer : MockAnswers]
  /\ replies \in Seq(MockReplies)
  /\ accepted \subseteq [nonce : Nonces, time : 0..MaxClock] /\ replayed \in BOOLEAN
  /\ orders \in 0..MaxOrders /\ mockStops \in 0..MaxResets

\* Replay protection: in strict mode a signed request is accepted once, until a
\* reset: no age, restart or clock that is ahead makes a copy of it pass later,
\* although nonces are forgotten.
ReplaysAreRefused == strict => ~replayed

\* The log shows for each request the answer its client was given, also when the
\* answer was delayed and the log was emptied and filled anew meanwhile.
LogIsRight ==
  \A r \in db.requests : \A k \in DOMAIN replies :
    replies[k].id = r.id => r.answer \in {Unanswered, replies[k].answer}
=============================================================================

------------------------------- MODULE Outbox -------------------------------
(***************************************************************************)
(* The integration outbox: the table integration_outbox_events and the     *)
(* worker tasks of api/src/feature/integration/outbox_worker.rs that drain *)
(* it.  Business writes insert events (a trigger, a coalescing UPDATE, or  *)
(* an insert under a dedupe key); a worker task leases one event, runs its *)
(* handler, and settles the row.                                           *)
(*                                                                         *)
(* A row's payload is the number of the enqueue that wrote it: nothing     *)
(* here depends on more than which request the row carries.  An event's    *)
(* identifier is its place in (created_at, id) order; created_at is the    *)
(* start of the inserting transaction, so a row can become visible after a *)
(* row with a greater identifier.                                          *)
(***************************************************************************)
EXTENDS Naturals, FiniteSets

CONSTANTS
  Workers,      \* the worker tasks of one API process
  Aggregates,   \* pairs (aggregate_type, aggregate_id)
  EventTypes,   \* values of event_type
  Keys,         \* non-null dedupe keys
  NULL,         \* SQL's NULL
  MaxAttempts,  \* MAX_ATTEMPTS of the code
  MaxEvents,    \* bound: rows ever inserted
  MaxEnqueues,  \* bound: enqueue requests ever made
  MaxCrashes,   \* bound: restarts of the API process, and lost settlements
  MaxPanics,    \* bound: worker tasks that end in a panic
  MaxOverruns   \* bound: handlers that run past their 15 minute lease

ASSUME NullAssumption      == NULL \notin Workers \cup Keys \cup Aggregates \cup EventTypes
ASSUME AttemptsAssumption  == MaxAttempts \in Nat \ {0}
ASSUME BoundsAssumption    == /\ MaxEvents \in Nat   /\ MaxEnqueues \in Nat
                              /\ MaxCrashes \in Nat  /\ MaxPanics \in Nat
                              /\ MaxOverruns \in Nat

VARIABLES
  events,    \* the table: a row per identifier, "absent" before its insert
  late,      \* history: rows that became visible after a later row of their object
  workers,   \* what each worker task is doing
  handled,   \* history: the last payload of the row its handler returned Ok for
  enqueues,  \* enqueue requests so far (the bound, and the next payload)
  crashes, panics, overruns

vars == <<events, late, workers, handled, enqueues, crashes, panics, overruns>>

Ids == 1..MaxEvents
Unsettled == {"pending", "processing"}
Settled   == {"completed", "failed"}

Event == [agg : Aggregates \cup {NULL}, type : EventTypes \cup {NULL},
          key : Keys \cup {NULL}, payload : 0..MaxEnqueues, status : {"absent"} \cup Unsettled \cup Settled,
          lockedBy : Workers \cup {NULL},
          lease : {"none", "live", "expired"},   \* locked_until against NOW()
          attempts : Nat]

Worker == [pc : {"idle", "working", "ok", "err", "down"},
           event : Nat, payload : 0..MaxEnqueues, attempts : Nat]

Absent == [agg |-> NULL, type |-> NULL, key |-> NULL, payload |-> 0, status |-> "absent",
           lockedBy |-> NULL, lease |-> "none", attempts |-> 0]

Idle == [pc |-> "idle", event |-> 0, payload |-> 0, attempts |-> 0]

Busy(w) == workers[w].pc \in {"working", "ok", "err"}

TypeOK ==
  /\ events \in [Ids -> Event]
  /\ late \subseteq Ids
  /\ workers \in [Workers -> Worker]
  /\ \A w \in Workers : Busy(w) => workers[w].event \in Ids
  /\ handled \in [Ids -> 0..MaxEnqueues]
  /\ enqueues \in 0..MaxEnqueues
  /\ crashes \in Nat /\ panics \in Nat /\ overruns \in Nat

Init ==
  /\ events = [i \in Ids |-> Absent]
  /\ late = {}
  /\ workers = [w \in Workers |-> Idle]
  /\ handled = [i \in Ids |-> 0]
  /\ enqueues = 0 /\ crashes = 0 /\ panics = 0 /\ overruns = 0

-----------------------------------------------------------------------------
(* Producers *)

NewEvent(a, t, k) ==
  [agg |-> a, type |-> t, key |-> k, payload |-> enqueues + 1, status |-> "pending",
   lockedBy |-> NULL, lease |-> "none", attempts |-> 0]

Insert(a, t, k) ==
  /\ \E i \in Ids :
       /\ events[i].status = "absent"
       /\ events' = [events EXCEPT ![i] = NewEvent(a, t, k)]
       /\ late' = late \cup {m \in {i} : \E j \in Ids : m < j /\ events[j].agg = a}
  /\ UNCHANGED handled

Enqueuing ==
  /\ enqueues < MaxEnqueues
  /\ enqueues' = enqueues + 1
  /\ UNCHANGED <<workers, crashes, panics, overruns>>

(* The trigger on construction_units, _teams, _workers: always a new row. *)
EmitDomainEvent(a, t) == Enqueuing /\ Insert(a, t, NULL)

(* An insert that is dropped when its dedupe key is already in the table. *)
EnqueueDomainEventTx(a, t, k) ==
  /\ Enqueuing
  /\ IF \E i \in Ids : events[i].status # "absent" /\ events[i].key = k
     THEN UNCHANGED <<events, late, handled>>
     ELSE Insert(a, t, k)

\* Mutant: coalesces into the row that a worker is handling, too.
CoalescibleInFlight(i, a, t) ==
  events[i].status \in Unsettled /\ events[i].agg = a /\ events[i].type = t

\* Mutant: the status filter only leaves out the row being handled.
CoalescibleSettled(i, a, t) ==
  /\ events[i].status \in {"pending"} \cup Settled
  /\ events[i].agg = a /\ events[i].type = t

Coalescible(i, a, t) ==
  events[i].status = "pending" /\ events[i].agg = a /\ events[i].type = t

Recharged(e, p) == [e EXCEPT !.payload = p, !.attempts = 0, !.lockedBy = NULL,
                             !.lease = "none"]

(* A coalescing request: every pending row of that object and type takes the *)
(* new payload, a fresh attempt budget and no lock; else a row is inserted.  *)
EnqueueEvent(a, t) ==
  /\ Enqueuing
  /\ IF \E i \in Ids : Coalescible(i, a, t)
     THEN /\ events' = [i \in Ids |->
               IF Coalescible(i, a, t)
               THEN Recharged(events[i], enqueues + 1)
               ELSE events[i]]
          /\ UNCHANGED <<late, handled>>
     ELSE Insert(a, t, NULL)

-----------------------------------------------------------------------------
(* Consumers *)

SameAggregate(i, j) == events[i].agg = events[j].agg

\* Mutant: only an earlier event that is being handled blocks.
ActiveBefore(i) ==
  \E j \in Ids : /\ j < i /\ SameAggregate(i, j)
                 /\ events[j].status = "processing" /\ events[j].lease = "live"

ActiveElsewhere(i) ==
  \E j \in Ids : /\ j # i /\ SameAggregate(i, j)
                 /\ events[j].status = "processing" /\ events[j].lease = "live"

\* Mutant: an earlier event that waits out its backoff no longer blocks.
EarlierProcessing(i) ==
  \E j \in Ids : j < i /\ SameAggregate(i, j) /\ events[j].status = "processing"

EarlierUnsettled(i) ==
  \E j \in Ids : j < i /\ SameAggregate(i, j) /\ events[j].status \in Unsettled

\* Mutant: a processing row is taken over whether or not its lease has ended.
DueIgnoringLease(i) ==
  \/ events[i].status = "pending" /\ events[i].lease # "live"
  \/ events[i].status = "processing"

\* Mutant: the event of a dead worker is never taken over.
DueOnlyPending(i) == events[i].status = "pending" /\ events[i].lease # "live"

Due(i) ==
  \/ events[i].status = "pending"    /\ events[i].lease # "live"
  \/ events[i].status = "processing" /\ events[i].lease = "expired"

Claimable(i) == Due(i) /\ ~ActiveElsewhere(i) /\ ~EarlierUnsettled(i)

Leased(e, w) == [e EXCEPT !.status = "processing", !.lockedBy = w, !.lease = "live",
                          !.attempts = e.attempts + 1]

(* SKIP LOCKED passes over a row that another transaction holds for an      *)
(* instant, so any claimable row may be the one taken.                      *)
ClaimEvent(w, i) ==
  /\ workers[w].pc = "idle"
  /\ Claimable(i)
  /\ events' = [events EXCEPT ![i] = Leased(events[i], w)]
  /\ workers' = [workers EXCEPT ![w] = [pc |-> "working", event |-> i,
                                        payload |-> events[i].payload,
                                        attempts |-> events[i].attempts + 1]]
  /\ UNCHANGED <<late, handled, enqueues, crashes, panics, overruns>>

(* The handler or the dispatcher returned. *)
HandleOk(w) ==
  /\ workers[w].pc = "working"
  /\ workers' = [workers EXCEPT ![w].pc = "ok"]
  /\ handled' = [handled EXCEPT ![workers[w].event] = workers[w].payload]
  /\ UNCHANGED <<events, late, enqueues, crashes, panics, overruns>>

HandleErr(w) ==
  /\ workers[w].pc = "working"
  /\ workers' = [workers EXCEPT ![w].pc = "err"]
  /\ UNCHANGED <<events, late, handled, enqueues, crashes, panics, overruns>>

Released(e, status, lease) == [e EXCEPT !.status = status, !.lockedBy = NULL, !.lease = lease]

Settle(w, status, lease) ==
  /\ events' = [events EXCEPT ![workers[w].event] = Released(events[workers[w].event], status, lease)]
  /\ workers' = [workers EXCEPT ![w] = Idle]
  /\ UNCHANGED <<late, handled, enqueues, crashes, panics, overruns>>

(* Both settlements are keyed by the row only, not by who holds its lease.  *)
CompleteEvent(w) == workers[w].pc = "ok" /\ Settle(w, "completed", "none")

\* Mutant: one attempt too many.
FailEventLate(w) ==
  /\ workers[w].pc = "err"
  /\ IF workers[w].attempts <= MaxAttempts
     THEN Settle(w, "pending", "live")
     ELSE Settle(w, "failed", "none")

\* Mutant: a retried event gets a status that the claim query does not know.
FailEventRetryStatus(w) ==
  /\ workers[w].pc = "err"
  /\ IF workers[w].attempts < MaxAttempts
     THEN Settle(w, "retry", "live")
     ELSE Settle(w, "failed", "none")

FailEvent(w) ==
  /\ workers[w].pc = "err"
  /\ IF workers[w].attempts < MaxAttempts
     THEN Settle(w, "pending", "live")      \* a 15 second backoff
     ELSE Settle(w, "failed", "none")

(* The settling UPDATE itself failed: it is logged and the row stays leased. *)
SettleLost(w) ==
  /\ workers[w].pc \in {"ok", "err"}
  /\ crashes < MaxCrashes
  /\ crashes' = crashes + 1
  /\ workers' = [workers EXCEPT ![w] = Idle]
  /\ UNCHANGED <<events, late, handled, enqueues, panics, overruns>>

-----------------------------------------------------------------------------
(* Time and failures *)

HeldBy(w, i) == Busy(w) /\ workers[w].event = i /\ events[i].lockedBy = w

BackoffEnds(i) ==
  /\ events[i].status = "pending" /\ events[i].lease = "live"
  /\ events' = [events EXCEPT ![i].lease = "expired"]
  /\ UNCHANGED <<late, workers, handled, enqueues, crashes, panics, overruns>>

(* Fifteen minutes pass after the claim, and nobody works on the event. *)
LeaseEnds(i) ==
  /\ events[i].status = "processing" /\ events[i].lease = "live"
  /\ \A w \in Workers : ~HeldBy(w, i)
  /\ events' = [events EXCEPT ![i].lease = "expired"]
  /\ UNCHANGED <<late, workers, handled, enqueues, crashes, panics, overruns>>

(* Fifteen minutes pass while its worker is still running the handler. *)
LeaseOverrun(i) ==
  /\ overruns < MaxOverruns
  /\ events[i].status = "processing" /\ events[i].lease = "live"
  /\ \E w \in Workers : HeldBy(w, i)
  /\ events' = [events EXCEPT ![i].lease = "expired"]
  /\ overruns' = overruns + 1
  /\ UNCHANGED <<late, workers, handled, enqueues, crashes, panics>>

(* The process restarts: every task starts again, with nothing in hand. *)
Restart ==
  /\ crashes < MaxCrashes
  /\ crashes' = crashes + 1
  /\ workers' = [w \in Workers |-> Idle]
  /\ UNCHANGED <<events, late, handled, enqueues, panics, overruns>>

(* A panic in a handler ends that task; nothing respawns it. *)
Panic(w) ==
  /\ panics < MaxPanics
  /\ workers[w].pc = "working"
  /\ panics' = panics + 1
  /\ workers' = [workers EXCEPT ![w] = [Idle EXCEPT !.pc = "down"]]
  /\ UNCHANGED <<events, late, handled, enqueues, crashes, overruns>>

-----------------------------------------------------------------------------
Produce == \E a \in Aggregates, t \in EventTypes :
             \/ EmitDomainEvent(a, t)
             \/ EnqueueEvent(a, t)
             \/ \E k \in Keys : EnqueueDomainEventTx(a, t, k)

ProcessOnePending(w) ==
  \/ \E i \in Ids : ClaimEvent(w, i)
  \/ HandleOk(w) \/ HandleErr(w)
  \/ CompleteEvent(w) \/ FailEvent(w)

TimePasses == \E i \in Ids : BackoffEnds(i) \/ LeaseEnds(i) \/ LeaseOverrun(i)

Failure == Restart \/ \E w \in Workers : SettleLost(w) \/ Panic(w)

Next == \/ Produce
        \/ \E w \in Workers : ProcessOnePending(w)
        \/ TimePasses
        \/ Failure

Spec == Init /\ [][Next]_vars

(* The worker loops never stop polling and every handler call returns (each *)
(* outbound request has a timeout); time passes.  Producers owe nothing.    *)
Fairness ==
  /\ \A w \in Workers : WF_vars(ProcessOnePending(w))
  /\ \A i \in Ids : WF_vars(BackoffEnds(i)) /\ WF_vars(LeaseEnds(i))

FairSpec == Spec /\ Fairness

-----------------------------------------------------------------------------
(* What the queue promises.  Everything below except the last holds as long  *)
(* as no handler has outlived its lease (overruns = 0): restarts, panics and *)
(* lost settlements are tolerated, a slow handler is not.                    *)

(* Two tasks never handle events of one business object at the same time,   *)
(* although leases of dead workers are taken over.                          *)
OneHandlerPerAggregate ==
  overruns = 0 =>
    \A v, w \in Workers : Busy(v) /\ Busy(w) /\ v # w =>
      ~SameAggregate(workers[v].event, workers[w].event)

(* Events of one object settle in the order in which they were recorded,    *)
(* whatever retries, backoffs, coalescing and take-overs happen in between; *)
(* a row that was not visible yet when a later one was is the exception.    *)
SettledInOrder ==
  overruns = 0 =>
    \A i, j \in Ids : /\ i < j /\ SameAggregate(i, j) /\ i \notin late
                      /\ events[i].status # "absent" /\ events[j].status \in Settled
                      => events[i].status \in Settled

(* A completed row had a handler return Ok for the request it carries now,  *)
(* not for one that a later coalescing enqueue has overwritten.             *)
CompletedCarriesHandledRequest ==
  overruns = 0 =>
    \A i \in Ids : events[i].status = "completed" => handled[i] = events[i].payload

(* A row waiting for another try still has one: lease take-overs count as   *)
(* attempts, and never leave a pending row over its budget.                 *)
PendingHasBudget ==
  overruns = 0 =>
    \A i \in Ids : events[i].status = "pending" => events[i].attempts < MaxAttempts

(* A settled row is never reopened or changed by a late worker.             *)
SettledIsFinal ==
  [][overruns = 0 =>
       \A i \in Ids : events[i].status \in Settled => events'[i] = events[i]]_vars

(* Every recorded event is eventually completed or failed, restarts, lost   *)
(* settlements and overrun leases included, as long as one task survives.   *)
EventuallySettled ==
  \A i \in Ids : events[i].status \in Unsettled ~> events[i].status \in Settled

-----------------------------------------------------------------------------
(* The queue that these leases, attempts and tasks implement.               *)

RecordedAs(e) ==
  [object |-> e.agg, request |-> e.payload,
   state |-> IF e.status \in Unsettled THEN "waiting" ELSE e.status]

CallOf(w) == [event |-> workers[w].event, stage |-> workers[w].pc]

Queue == INSTANCE EventQueue WITH
  Numbers    <- Ids,
  Objects    <- Aggregates,
  Requests   <- 0..MaxEnqueues,
  recorded   <- [i \in Ids |-> RecordedAs(events[i])],
  handling   <- {CallOf(w) : w \in {v \in Workers : Busy(v)}},
  unreliable <- overruns > 0

(* To those outside, the table and its tasks are a queue that handles one   *)
(* event of an object at a time, the earliest there is, and settles it with *)
(* the request it carries, restarts, panics and take-overs included, up to  *)
(* the first lease that a handler outlives.                                 *)
ImplementsEventQueue == Queue!QueueSpec
=============================================================================

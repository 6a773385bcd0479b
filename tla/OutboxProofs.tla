---------------------------- MODULE OutboxProofs ----------------------------
(***************************************************************************)
(* Proofs about Outbox, for every number of workers, objects, events,      *)
(* attempts and failures.  The inductive invariant adds to the promised    *)
(* invariants what makes them hold: as long as no lease was overrun, a     *)
(* busy worker is the holder of a live lease on exactly the row it claimed *)
(* (Owned), so the settling UPDATEs keyed by the row alone hit no one      *)
(* else's claim.                                                           *)
(***************************************************************************)
EXTENDS Outbox, TLAPS

(* A worker at work holds the live lease of the row it claimed, and the row *)
(* still carries the request and the attempt number the worker read.        *)
Owned ==
  overruns = 0 =>
    \A w \in Workers : Busy(w) =>
      LET e == events[workers[w].event] IN
      /\ e.status = "processing" /\ e.lockedBy = w /\ e.lease = "live"
      /\ e.payload = workers[w].payload /\ e.attempts = workers[w].attempts

(* No event of an object is processed or settled ahead of an earlier one, *)
(* unless the earlier one was not visible yet.                            *)
Ordered ==
  overruns = 0 =>
    \A i, j \in Ids :
      /\ i < j /\ SameAggregate(i, j) /\ i \notin late
      /\ events[i].status # "absent" /\ events[j].status \in Settled \cup {"processing"}
      => events[i].status \in Settled

(* The handler's Ok belongs to the request that the row carries. *)
OkIsForThisRequest ==
  overruns = 0 =>
    \A w \in Workers : workers[w].pc = "ok" => handled[workers[w].event] = workers[w].payload

Inv == /\ TypeOK /\ Owned /\ Ordered /\ OkIsForThisRequest
       /\ OneHandlerPerAggregate /\ CompletedCarriesHandledRequest /\ PendingHasBudget

LEMMA InsertTypes ==
  ASSUME TypeOK, NEW a \in Aggregates, NEW t \in EventTypes, NEW k \in Keys \cup {NULL},
         Enqueuing, Insert(a, t, k)
  PROVE  TypeOK'
<1>1. enqueues + 1 \in 0..MaxEnqueues /\ enqueues' \in 0..MaxEnqueues
  BY BoundsAssumption DEF TypeOK, Enqueuing
<1>2. NewEvent(a, t, k) \in Event
  BY <1>1 DEF NewEvent, Event, Unsettled
<1>3. events' \in [Ids -> Event] /\ late' \subseteq Ids
  BY <1>2 DEF TypeOK, Insert
<1> QED
  BY <1>1, <1>3 DEF TypeOK, Enqueuing, Insert, Busy

(* What the UPDATEs of the code write into a row keeps it a row. *)
LEMMA LeasedType ==
  ASSUME NEW e \in Event, NEW w \in Workers PROVE Leased(e, w) \in Event
<1> DEFINE n == e.attempts + 1
<1>1. n \in Nat
  BY DEF Event
<1>2. "processing" \in Unsettled
  BY DEF Unsettled
<1>3. Leased(e, w) = [e EXCEPT !.status = "processing", !.lockedBy = w, !.lease = "live",
                               !.attempts = n]
  BY DEF Leased
<1> HIDE DEF n
<1>4. QED
  BY <1>1, <1>2, <1>3 DEF Event

LEMMA ReleasedType ==
  ASSUME NEW e \in Event, NEW s \in {"pending", "completed", "failed"},
         NEW l \in {"none", "live"}
  PROVE  Released(e, s, l) \in Event
  BY DEF Event, Released, Unsettled, Settled

LEMMA RechargedType ==
  ASSUME NEW e \in Event, NEW p \in 0..MaxEnqueues PROVE Recharged(e, p) \in Event
  BY DEF Event, Recharged

LEMMA SettleTypes ==
  ASSUME TypeOK, NEW w \in Workers, Busy(w),
         NEW s \in {"completed", "failed", "pending"}, NEW l \in {"none", "live"},
         Settle(w, s, l)
  PROVE  TypeOK'
<1>1. workers[w].event \in Ids
  BY DEF TypeOK
<1>2. Released(events[workers[w].event], s, l) \in Event
  BY <1>1, ReleasedType DEF TypeOK
<1>3. events' \in [Ids -> Event]
  BY <1>1, <1>2 DEF TypeOK, Settle
<1>4. Idle \in Worker
  BY BoundsAssumption DEF Idle, Worker
<1>5. workers' \in [Workers -> Worker] /\ \A v \in Workers : Busy(v)' => workers'[v].event \in Ids
  BY <1>4 DEF TypeOK, Settle, Busy, Idle
<1>6. QED
  BY <1>3, <1>5 DEF TypeOK, Settle

LEMMA ClaimTypes ==
  ASSUME TypeOK, NEW w \in Workers, NEW i \in Ids, ClaimEvent(w, i)
  PROVE  TypeOK'
<1> DEFINE n == events[i].attempts + 1
<1>1. events[i] \in Event /\ n \in Nat
  BY DEF TypeOK, Event
<1>2. events' \in [Ids -> Event]
  BY <1>1, LeasedType DEF TypeOK, ClaimEvent
<1>4. [pc |-> "working", event |-> i, payload |-> events[i].payload, attempts |-> n] \in Worker
  BY <1>1, BoundsAssumption DEF Worker, Event, Ids
<1>5. workers' \in [Workers -> Worker]
  BY <1>4 DEF TypeOK, ClaimEvent
<1>6. ASSUME NEW v \in Workers, Busy(v)' PROVE workers'[v].event \in Ids
  <2>1. CASE v = w
    BY <2>1 DEF TypeOK, ClaimEvent
  <2>2. CASE v # w
    BY <1>6, <2>2 DEF TypeOK, ClaimEvent, Busy
  <2>3. QED
    BY <2>1, <2>2
<1>7. QED
  BY <1>2, <1>5, <1>6 DEF TypeOK, ClaimEvent

(* Every value stays in the range the table and the tasks can hold. *)
LEMMA TypeStep == TypeOK /\ [Next]_vars => TypeOK'
<1> SUFFICES ASSUME TypeOK, [Next]_vars PROVE TypeOK'
  OBVIOUS
<1>1. ASSUME NEW a \in Aggregates, NEW t \in EventTypes, EmitDomainEvent(a, t) PROVE TypeOK'
  BY <1>1, InsertTypes DEF EmitDomainEvent
<1>2. ASSUME NEW a \in Aggregates, NEW t \in EventTypes, NEW k \in Keys,
             EnqueueDomainEventTx(a, t, k)
      PROVE  TypeOK'
  <2>1. CASE \E i \in Ids : events[i].status # "absent" /\ events[i].key = k
    BY <1>2, <2>1, BoundsAssumption DEF EnqueueDomainEventTx, TypeOK, Enqueuing, Busy, Event, Worker
  <2>2. CASE ~\E i \in Ids : events[i].status # "absent" /\ events[i].key = k
    BY <1>2, <2>2, InsertTypes DEF EnqueueDomainEventTx
  <2>3. QED BY <2>1, <2>2
<1>3. ASSUME NEW a \in Aggregates, NEW t \in EventTypes, EnqueueEvent(a, t) PROVE TypeOK'
  <2>1. CASE \E i \in Ids : Coalescible(i, a, t)
    <3>1. enqueues + 1 \in 0..MaxEnqueues
      BY <1>3, BoundsAssumption DEF EnqueueEvent, Enqueuing, TypeOK
    <3>3. events' \in [Ids -> Event]
      <4>1. events' = [i \in Ids |-> IF Coalescible(i, a, t)
                                      THEN Recharged(events[i], enqueues + 1) ELSE events[i]]
        BY <1>3, <2>1 DEF EnqueueEvent
      <4>2. \A i \in Ids : events[i] \in Event /\ Recharged(events[i], enqueues + 1) \in Event
        BY <3>1, RechargedType DEF TypeOK
      <4> QED
        BY <4>1, <4>2
    <3>4. QED
      BY <1>3, <2>1, <3>1, <3>3 DEF EnqueueEvent, TypeOK, Enqueuing, Busy
  <2>2. CASE ~\E i \in Ids : Coalescible(i, a, t)
    BY <1>3, <2>2, InsertTypes DEF EnqueueEvent
  <2>3. QED BY <2>1, <2>2
<1>4. ASSUME NEW w \in Workers, NEW i \in Ids, ClaimEvent(w, i) PROVE TypeOK'
  BY <1>4, ClaimTypes
<1>5. ASSUME NEW w \in Workers, HandleOk(w) \/ HandleErr(w) PROVE TypeOK'
  BY <1>5 DEF HandleOk, HandleErr, TypeOK, Busy, Worker
<1>6. ASSUME NEW w \in Workers, CompleteEvent(w) \/ FailEvent(w) PROVE TypeOK'
  BY <1>6, SettleTypes DEF CompleteEvent, FailEvent, Busy
<1>7. ASSUME NEW i \in Ids, BackoffEnds(i) \/ LeaseEnds(i) \/ LeaseOverrun(i) PROVE TypeOK'
  BY <1>7 DEF BackoffEnds, LeaseEnds, LeaseOverrun, TypeOK, Busy, Event
<1>8. ASSUME Restart \/ \E w \in Workers : SettleLost(w) \/ Panic(w) PROVE TypeOK'
  BY <1>8, BoundsAssumption DEF Restart, SettleLost, Panic, TypeOK, Busy, Worker, Idle
<1>9. CASE UNCHANGED vars
  BY <1>9 DEF vars, TypeOK, Busy
<1>10. QED
  BY <1>1, <1>2, <1>3, <1>4, <1>5, <1>6, <1>7, <1>8, <1>9
  DEF Next, Produce, ProcessOnePending, TimePasses, Failure

LEMMA InitInv == Init => Inv
  BY BoundsAssumption, AttemptsAssumption
  DEF Init, Inv, TypeOK, Owned, Ordered, OkIsForThisRequest, OneHandlerPerAggregate,
      CompletedCarriesHandledRequest, PendingHasBudget, Event, Worker, Ids, Absent, Idle,
      Busy, Unsettled, Settled

(* A new row is pending: nobody holds it, and it is behind every earlier     *)
(* event of its object or counted as late.                                   *)
LEMMA InsertStep ==
  ASSUME Inv, NEW a \in Aggregates, NEW t \in EventTypes, NEW k \in Keys \cup {NULL},
         Enqueuing, Insert(a, t, k)
  PROVE  Inv'
<1>1. PICK n \in Ids :
        /\ events[n].status = "absent"
        /\ events' = [events EXCEPT ![n] = NewEvent(a, t, k)]
        /\ late' = late \cup {m \in {n} : \E j \in Ids : m < j /\ events[j].agg = a}
  BY DEF Insert
<1>2. /\ \A i \in Ids : i # n => events'[i] = events[i]
      /\ events'[n].status = "pending" /\ events'[n].attempts = 0 /\ events'[n].agg = a
  BY <1>1 DEF Inv, TypeOK, NewEvent
<1>3. workers' = workers /\ overruns' = overruns /\ handled' = handled
  BY DEF Enqueuing, Insert
<1>4. \A w \in Workers : Busy(w)' <=> Busy(w)
  BY <1>3 DEF Busy
<1>5. overruns = 0 => \A w \in Workers : Busy(w) => workers[w].event \in Ids \ {n}
  BY <1>1 DEF Inv, Owned, TypeOK
<1>6. TypeOK'
  BY InsertTypes DEF Inv
<1>7. Owned' /\ OneHandlerPerAggregate'
  BY <1>2, <1>3, <1>4, <1>5 DEF Inv, Owned, OneHandlerPerAggregate, SameAggregate
<1>8. Ordered'
  <2> SUFFICES ASSUME overruns = 0, NEW i \in Ids, NEW j \in Ids,
                      i < j, SameAggregate(i, j)', i \notin late', events'[i].status # "absent",
                      events'[j].status \in Settled \cup {"processing"}
               PROVE  events'[i].status \in Settled
    BY <1>3 DEF Ordered
  <2>1. j # n
    BY <1>2 DEF Settled
  <2>2. CASE i = n
    BY <1>1, <1>2, <2>1, <2>2 DEF SameAggregate
  <2>3. CASE i # n
    BY <1>1, <1>2, <2>1, <2>3 DEF Inv, Ordered, SameAggregate
  <2>4. QED
    BY <2>2, <2>3
<1>9. OkIsForThisRequest'
  BY <1>3 DEF Inv, OkIsForThisRequest
<1>10. CompletedCarriesHandledRequest' /\ PendingHasBudget'
  BY <1>2, <1>3, AttemptsAssumption
  DEF Inv, CompletedCarriesHandledRequest, PendingHasBudget
<1> QED
  BY <1>6, <1>7, <1>8, <1>9, <1>10 DEF Inv

(* A coalescing request touches pending rows only, and leaves their status. *)
LEMMA CoalesceStep ==
  ASSUME Inv, NEW a \in Aggregates, NEW t \in EventTypes, EnqueueEvent(a, t),
         \E i \in Ids : Coalescible(i, a, t), TypeOK'
  PROVE  Inv'
<1>1. /\ workers' = workers /\ overruns' = overruns /\ late' = late /\ handled' = handled
      /\ \A i \in Ids : events'[i] = IF Coalescible(i, a, t)
                                     THEN Recharged(events[i], enqueues + 1) ELSE events[i]
  BY DEF EnqueueEvent, Enqueuing
<1>2. ASSUME NEW i \in Ids
      PROVE  /\ events'[i].status = events[i].status /\ events'[i].agg = events[i].agg
             /\ events[i].status # "pending" => events'[i] = events[i]
             /\ events'[i].attempts = 0 \/ events'[i] = events[i]
  <2>1. events[i] \in Event
    BY DEF Inv, TypeOK
  <2>2. CASE Coalescible(i, a, t)
    BY <1>1, <2>1, <2>2 DEF Event, Recharged, Coalescible
  <2>3. CASE ~ Coalescible(i, a, t)
    BY <1>1, <2>3
  <2> QED
    BY <2>2, <2>3
<1>3. \A w \in Workers : Busy(w)' <=> Busy(w)
  BY <1>1 DEF Busy
<1>4. OneHandlerPerAggregate'
  BY <1>1, <1>2, <1>3 DEF Inv, OneHandlerPerAggregate, SameAggregate, TypeOK
<1>5. Owned'
  BY <1>1, <1>2, <1>3 DEF Inv, Owned, TypeOK
<1>6. Ordered'
  BY <1>1, <1>2 DEF Inv, Ordered, SameAggregate
<1>7. OkIsForThisRequest'
  BY <1>1 DEF Inv, OkIsForThisRequest
<1>8. CompletedCarriesHandledRequest' /\ PendingHasBudget'
  BY <1>1, <1>2, AttemptsAssumption DEF Inv, CompletedCarriesHandledRequest, PendingHasBudget
<1> QED
  BY <1>4, <1>5, <1>6, <1>7, <1>8 DEF Inv

(* A claim takes the first unsettled event of an object, which no one else   *)
(* holds: a busy worker's row is processing under a live lease.              *)
LEMMA ClaimStep ==
  ASSUME Inv, NEW w \in Workers, NEW i \in Ids, ClaimEvent(w, i)
  PROVE  Inv'
<1>1. /\ overruns' = overruns /\ late' = late /\ handled' = handled
      /\ Due(i) /\ ~EarlierUnsettled(i) /\ ~ActiveElsewhere(i) /\ ~Busy(w)
      /\ \A j \in Ids : j # i => events'[j] = events[j]
      /\ \A v \in Workers : v # w => workers'[v] = workers[v]
      /\ events'[i] = Leased(events[i], w)
      /\ workers'[w] = [pc |-> "working", event |-> i, payload |-> events[i].payload,
                        attempts |-> events[i].attempts + 1]
  BY DEF ClaimEvent, Claimable, Inv, TypeOK, Busy
<1>2. /\ events'[i].status = "processing" /\ events'[i].lockedBy = w
      /\ events'[i].lease = "live" /\ events'[i].payload = events[i].payload
      /\ events'[i].attempts = events[i].attempts + 1 /\ events'[i].agg = events[i].agg
  BY <1>1 DEF Leased, Inv, TypeOK, Event
<1>3. overruns = 0 => \A v \in Workers : Busy(v) => workers[v].event \in Ids \ {i}
  BY <1>1 DEF Inv, Owned, TypeOK, Due
<1>4. \A v \in Workers : v # w => (Busy(v)' <=> Busy(v))
  BY <1>1 DEF Busy
<1>5. TypeOK'
  BY ClaimTypes DEF Inv
<1>6. OneHandlerPerAggregate'
  <2>1. ASSUME overruns = 0, NEW v \in Workers, Busy(v), v # w
        PROVE  ~SameAggregate(i, workers[v].event)
    BY <1>1, <1>3, <2>1 DEF ActiveElsewhere, Inv, Owned
  <2>2. \A h \in Ids : events'[h].agg = events[h].agg
    BY <1>1, <1>2
  <2>3. \A v \in Workers : v # w /\ Busy(v)' =>
          Busy(v) /\ workers'[v] = workers[v] /\ workers[v].event \in Ids
    BY <1>1, <1>4 DEF Inv, TypeOK
  <2>4. SUFFICES ASSUME overruns = 0, NEW u \in Workers, NEW v \in Workers,
                        Busy(u)', Busy(v)', u # v
                 PROVE  events'[workers'[u].event].agg # events'[workers'[v].event].agg
    BY <1>1 DEF OneHandlerPerAggregate, SameAggregate
  <2>5. CASE u = w
    BY <1>1, <2>1, <2>2, <2>3, <2>4, <2>5 DEF SameAggregate
  <2>6. CASE v = w
    BY <1>1, <2>1, <2>2, <2>3, <2>4, <2>6 DEF SameAggregate
  <2>7. CASE u # w /\ v # w
    BY <2>2, <2>3, <2>4, <2>7 DEF Inv, OneHandlerPerAggregate, SameAggregate
  <2> QED
    BY <2>5, <2>6, <2>7
<1>7. Owned'
  <2> SUFFICES ASSUME overruns = 0, NEW v \in Workers, Busy(v)'
               PROVE  /\ events'[workers'[v].event].status = "processing"
                      /\ events'[workers'[v].event].lockedBy = v
                      /\ events'[workers'[v].event].lease = "live"
                      /\ events'[workers'[v].event].payload = workers'[v].payload
                      /\ events'[workers'[v].event].attempts = workers'[v].attempts
    BY <1>1 DEF Owned
  <2>1. CASE v = w
    BY <1>1, <1>2, <2>1
  <2>2. CASE v # w
    BY <1>1, <1>3, <1>4, <2>2 DEF Inv, Owned
  <2> QED BY <2>1, <2>2
<1>8. Ordered'
  <2> SUFFICES ASSUME overruns = 0, NEW h \in Ids, NEW j \in Ids,
                      h < j, SameAggregate(h, j)', h \notin late, events'[h].status # "absent",
                      events'[j].status \in Settled \cup {"processing"}
               PROVE  events'[h].status \in Settled
    BY <1>1 DEF Ordered
  <2>0. SameAggregate(h, j)
    BY <1>1, <1>2 DEF SameAggregate
  <2>1. CASE j = i
    <3>1. h # i /\ events'[h] = events[h] /\ events[h].status \notin Unsettled
      BY <1>1, <2>0, <2>1, BoundsAssumption DEF EarlierUnsettled, SameAggregate, Ids
    <3>2. QED
      BY <3>1 DEF Inv, TypeOK, Event
  <2>2. CASE j # i /\ h = i
    BY <1>1, <2>0, <2>2 DEF Inv, Ordered, Due, Settled
  <2>3. CASE j # i /\ h # i
    BY <1>1, <2>0, <2>3 DEF Inv, Ordered
  <2> QED BY <2>1, <2>2, <2>3
<1>9. OkIsForThisRequest'
  <2> SUFFICES ASSUME overruns = 0, NEW v \in Workers, workers'[v].pc = "ok"
               PROVE  handled[workers'[v].event] = workers'[v].payload
    BY <1>1 DEF OkIsForThisRequest
  <2>1. v # w
    BY <1>1
  <2> QED BY <1>1, <2>1 DEF Inv, OkIsForThisRequest
<1>10. CompletedCarriesHandledRequest' /\ PendingHasBudget'
  BY <1>1, <1>2 DEF Inv, CompletedCarriesHandledRequest, PendingHasBudget
<1> QED
  BY <1>5, <1>6, <1>7, <1>8, <1>9, <1>10 DEF Inv

(* A handler's outcome changes the worker's state only, and for an Ok the    *)
(* history of the row it holds alone.                                        *)
LEMMA HandleStep ==
  ASSUME Inv, NEW w \in Workers, HandleOk(w) \/ HandleErr(w), TypeOK'
  PROVE  Inv'
<1>1. /\ overruns' = overruns /\ late' = late /\ events' = events
      /\ workers[w].pc = "working" /\ workers[w].event \in Ids
      /\ \A v \in Workers : v # w => workers'[v] = workers[v]
      /\ workers'[w].event = workers[w].event /\ workers'[w].payload = workers[w].payload
      /\ workers'[w].attempts = workers[w].attempts
      /\ workers'[w].pc = "ok" => handled'[workers[w].event] = workers[w].payload
      /\ \A i \in Ids : i # workers[w].event => handled'[i] = handled[i]
  BY DEF HandleOk, HandleErr, Inv, TypeOK, Worker, Busy
<1>2. \A v \in Workers : Busy(v)' => Busy(v)
  BY <1>1 DEF Busy
<1>3. overruns = 0 => \A v \in Workers : Busy(v) /\ v # w => workers[v].event \in Ids \ {workers[w].event}
  BY <1>1 DEF Inv, Owned, TypeOK, Busy
<1>4. overruns = 0 => events[workers[w].event].status = "processing"
  BY <1>1 DEF Inv, Owned, Busy
<1>5. OneHandlerPerAggregate' /\ Ordered' /\ PendingHasBudget'
  BY <1>1, <1>2 DEF Inv, OneHandlerPerAggregate, Ordered, PendingHasBudget, SameAggregate
<1>6. Owned'
  BY <1>1, <1>2 DEF Inv, Owned
<1>7. OkIsForThisRequest'
  <2> SUFFICES ASSUME overruns = 0, NEW v \in Workers, workers'[v].pc = "ok"
               PROVE  handled'[workers'[v].event] = workers'[v].payload
    BY <1>1 DEF OkIsForThisRequest
  <2>1. CASE v = w
    BY <1>1, <2>1
  <2>2. CASE v # w
    BY <1>1, <1>3, <2>2 DEF Inv, OkIsForThisRequest, Busy
  <2> QED BY <2>1, <2>2
<1>8. CompletedCarriesHandledRequest'
  BY <1>1, <1>4 DEF Inv, CompletedCarriesHandledRequest
<1> QED
  BY <1>5, <1>6, <1>7, <1>8 DEF Inv

(* A settlement hits the worker's own row, which is the first unsettled one  *)
(* of its object.                                                            *)
LEMMA SettleStep ==
  ASSUME Inv, NEW w \in Workers, CompleteEvent(w) \/ FailEvent(w), TypeOK'
  PROVE  Inv'
<1> DEFINE n == workers[w].event
<1>1. PICK s \in {"pending", "completed", "failed"}, l \in {"none", "live"} :
         /\ Settle(w, s, l) /\ Busy(w) /\ n \in Ids
         /\ s = "completed" => workers[w].pc = "ok"
         /\ s = "pending" => workers[w].attempts < MaxAttempts
  BY DEF CompleteEvent, FailEvent, Inv, TypeOK, Busy
<1>2. /\ overruns' = overruns /\ late' = late /\ handled' = handled
      /\ workers'[w] = Idle
      /\ \A v \in Workers : v # w => workers'[v] = workers[v]
      /\ \A i \in Ids : i # n => events'[i] = events[i]
      /\ events'[n] = Released(events[n], s, l)
  BY <1>1 DEF Settle, Inv, TypeOK
<1>3. /\ events'[n].status = s /\ events'[n].payload = events[n].payload
      /\ events'[n].attempts = events[n].attempts /\ events'[n].agg = events[n].agg
  BY <1>1, <1>2 DEF Released, Inv, TypeOK, Event
<1>4. ~Busy(w)' /\ \A v \in Workers : v # w => (Busy(v)' <=> Busy(v))
  BY <1>2 DEF Busy, Idle
<1>5. overruns = 0 => /\ events[n].status = "processing"
                      /\ events[n].payload = workers[w].payload
                      /\ events[n].attempts = workers[w].attempts
                      /\ \A v \in Workers : Busy(v) /\ v # w => workers[v].event \in Ids \ {n}
  BY <1>1 DEF Inv, Owned, TypeOK
<1>6. OneHandlerPerAggregate'
  <2>1. \A h, j \in Ids : SameAggregate(h, j)' <=> SameAggregate(h, j)
    BY <1>1, <1>2, <1>3 DEF SameAggregate
  <2>2. \A v \in Workers : Busy(v) => workers[v].event \in Ids
    BY DEF Inv, TypeOK
  <2> QED
    BY <1>2, <1>4, <2>1, <2>2 DEF Inv, OneHandlerPerAggregate
<1>7. Owned'
  BY <1>2, <1>4, <1>5 DEF Inv, Owned
<1>8. Ordered'
  <2> SUFFICES ASSUME overruns = 0, NEW h \in Ids, NEW j \in Ids,
                      h < j, SameAggregate(h, j)', h \notin late, events'[h].status # "absent",
                      events'[j].status \in Settled \cup {"processing"}
               PROVE  events'[h].status \in Settled
    BY <1>2 DEF Ordered
  <2>0. SameAggregate(h, j)
    BY <1>1, <1>2, <1>3 DEF SameAggregate
  <2>1. CASE j = n
    BY <1>1, <1>2, <1>5, <2>0, <2>1, BoundsAssumption DEF Inv, Ordered, Ids
  <2>2. CASE j # n /\ h = n
    BY <1>1, <1>2, <1>5, <2>0, <2>2 DEF Inv, Ordered, Settled
  <2>3. CASE j # n /\ h # n
    BY <1>2, <2>0, <2>3 DEF Inv, Ordered
  <2> QED BY <2>1, <2>2, <2>3
<1>9. OkIsForThisRequest'
  <2> SUFFICES ASSUME overruns = 0, NEW v \in Workers, workers'[v].pc = "ok"
               PROVE  handled[workers'[v].event] = workers'[v].payload
    BY <1>2 DEF OkIsForThisRequest
  <2> QED BY <1>2 DEF Inv, OkIsForThisRequest, Idle
<1>10. CompletedCarriesHandledRequest'
  BY <1>1, <1>2, <1>3, <1>5 DEF Inv, CompletedCarriesHandledRequest, OkIsForThisRequest
<1>11. PendingHasBudget'
  BY <1>1, <1>2, <1>3, <1>5 DEF Inv, PendingHasBudget
<1> QED
  BY <1>6, <1>7, <1>8, <1>9, <1>10, <1>11 DEF Inv

(* Time takes a lease from nobody but a dead worker, unless it overruns. *)
LEMMA TimeStep ==
  ASSUME Inv, NEW i \in Ids, BackoffEnds(i) \/ LeaseEnds(i) \/ LeaseOverrun(i), TypeOK'
  PROVE  Inv'
<1>1. /\ late' = late /\ handled' = handled /\ workers' = workers
      /\ \A j \in Ids : j # i => events'[j] = events[j]
      /\ events'[i] = [events[i] EXCEPT !.lease = "expired"]
      /\ \A w \in Workers : Busy(w)' <=> Busy(w)
  BY DEF BackoffEnds, LeaseEnds, LeaseOverrun, Inv, TypeOK, Busy
<1>2. /\ events'[i].status = events[i].status /\ events'[i].payload = events[i].payload
      /\ events'[i].attempts = events[i].attempts /\ events'[i].agg = events[i].agg
  BY <1>1 DEF Inv, TypeOK, Event
<1>3. \A h, j \in Ids : SameAggregate(h, j)' <=> SameAggregate(h, j)
  BY <1>1, <1>2 DEF SameAggregate
<1>4. CASE LeaseOverrun(i)
  <2>1. overruns' # 0
    BY <1>4 DEF LeaseOverrun, Inv, TypeOK
  <2> QED
    BY <2>1 DEF Inv, Owned, Ordered, OkIsForThisRequest, OneHandlerPerAggregate,
                CompletedCarriesHandledRequest, PendingHasBudget
<1>5. CASE BackoffEnds(i) \/ LeaseEnds(i)
  <2>1. overruns' = overruns
    BY <1>5 DEF BackoffEnds, LeaseEnds
  <2>2. overruns = 0 => \A w \in Workers : Busy(w) => workers[w].event \in Ids \ {i}
    BY <1>5 DEF BackoffEnds, LeaseEnds, HeldBy, Inv, Owned, TypeOK
  <2>3. Owned' /\ OneHandlerPerAggregate'
    BY <1>1, <1>3, <2>1, <2>2 DEF Inv, Owned, OneHandlerPerAggregate
  <2>4. Ordered' /\ PendingHasBudget'
    <3>1. \A j \in Ids : events'[j].status = events[j].status /\ events'[j].attempts = events[j].attempts
      BY <1>1, <1>2
    <3> QED
      BY <1>1, <1>3, <2>1, <3>1 DEF Inv, Ordered, PendingHasBudget
  <2>5. OkIsForThisRequest'
    BY <1>1, <2>1 DEF Inv, OkIsForThisRequest
  <2>6. CompletedCarriesHandledRequest'
    <3>1. \A j \in Ids : /\ events'[j].status = events[j].status
                        /\ events'[j].payload = events[j].payload
      BY <1>1, <1>2
    <3> QED
      BY <1>1, <2>1, <3>1 DEF Inv, CompletedCarriesHandledRequest
  <2> QED
    BY <2>3, <2>4, <2>5, <2>6 DEF Inv
<1> QED
  BY <1>4, <1>5

(* A failure only makes workers forget what they had in hand. *)
LEMMA FailureStep ==
  ASSUME Inv, Failure, TypeOK'
  PROVE  Inv'
<1>1. /\ overruns' = overruns /\ late' = late /\ handled' = handled /\ events' = events
      /\ \A v \in Workers : workers'[v] = workers[v] \/ workers'[v].pc \in {"idle", "down"}
  BY DEF Failure, Restart, SettleLost, Panic, Idle, Inv, TypeOK
<1>2. Ordered' /\ CompletedCarriesHandledRequest' /\ PendingHasBudget'
  BY <1>1 DEF Inv, Ordered, CompletedCarriesHandledRequest, PendingHasBudget, SameAggregate
<1>3. Owned' /\ OkIsForThisRequest' /\ OneHandlerPerAggregate'
  BY <1>1 DEF Inv, Owned, OkIsForThisRequest, OneHandlerPerAggregate, SameAggregate, Busy
<1> QED
  BY <1>2, <1>3 DEF Inv

LEMMA InvStep == Inv /\ [Next]_vars => Inv'
<1> SUFFICES ASSUME Inv, [Next]_vars PROVE Inv'
  OBVIOUS
<1>0. TypeOK'
  BY TypeStep DEF Inv
<1>1. ASSUME NEW a \in Aggregates, NEW t \in EventTypes, EmitDomainEvent(a, t) PROVE Inv'
  BY <1>1, InsertStep DEF EmitDomainEvent
<1>2. ASSUME NEW a \in Aggregates, NEW t \in EventTypes, EnqueueEvent(a, t) PROVE Inv'
  BY <1>0, <1>2, InsertStep, CoalesceStep DEF EnqueueEvent
<1>3. ASSUME NEW a \in Aggregates, NEW t \in EventTypes, NEW k \in Keys,
             EnqueueDomainEventTx(a, t, k)
      PROVE  Inv'
  <2>1. CASE Insert(a, t, k)
    BY <1>3, <2>1, InsertStep DEF EnqueueDomainEventTx
  <2>2. CASE UNCHANGED <<events, late, handled>>
    BY <1>0, <1>3, <2>2
    DEF EnqueueDomainEventTx, Enqueuing, Inv, OneHandlerPerAggregate, Owned, Ordered, OkIsForThisRequest,
        CompletedCarriesHandledRequest, PendingHasBudget, SameAggregate, Busy
  <2> QED
    BY <1>3, <2>1, <2>2 DEF EnqueueDomainEventTx
<1>4. ASSUME NEW w \in Workers, ProcessOnePending(w) PROVE Inv'
  BY <1>0, <1>4, ClaimStep, HandleStep, SettleStep DEF ProcessOnePending
<1>5. CASE TimePasses
  BY <1>0, <1>5, TimeStep DEF TimePasses
<1>6. CASE Failure
  BY <1>0, <1>6, FailureStep
<1>7. CASE UNCHANGED vars
  BY <1>0, <1>7
  DEF vars, Inv, OneHandlerPerAggregate, Owned, Ordered, OkIsForThisRequest,
      CompletedCarriesHandledRequest, PendingHasBudget, SameAggregate, Busy
<1> QED
  BY <1>1, <1>2, <1>3, <1>4, <1>5, <1>6, <1>7 DEF Next, Produce

(* The inductive invariant. *)
THEOREM Invariance == Spec => []Inv
  BY InitInv, InvStep, PTL DEF Spec

(* Every variable stays within its type, for any instance of the queue. *)
THEOREM TypeCorrect == Spec => []TypeOK
<1>1. Inv => TypeOK
  BY DEF Inv
<1> QED
  BY <1>1, Invariance, PTL

(* Without an overrun lease no two tasks handle events of one object: a claim *)
(* looks for a live lease among the object's rows, and every task at work     *)
(* has one.                                                                   *)
THEOREM HandlersExcludeEachOther == Spec => []OneHandlerPerAggregate
<1>1. Inv => OneHandlerPerAggregate
  BY DEF Inv
<1> QED
  BY <1>1, Invariance, PTL

(* Without an overrun lease the events of an object settle in their order. *)
THEOREM SettlementIsInOrder == Spec => []SettledInOrder
<1>1. Inv => SettledInOrder
  BY DEF Inv, Ordered, SettledInOrder
<1> QED
  BY <1>1, Invariance, PTL

(* Without an overrun lease no completed row hides a request that was never *)
(* handled: the coalescing UPDATE only reaches rows nobody is handling.      *)
THEOREM NoRequestIsLost == Spec => []CompletedCarriesHandledRequest
<1>1. Inv => CompletedCarriesHandledRequest
  BY DEF Inv
<1> QED
  BY <1>1, Invariance, PTL

(* Without an overrun lease a pending row has an attempt left.              *)
THEOREM RetriesAreBounded == Spec => []PendingHasBudget
<1>1. Inv => PendingHasBudget
  BY DEF Inv
<1> QED
  BY <1>1, Invariance, PTL

(* Without an overrun lease a settled row never changes again: enqueues and *)
(* claims pass settled rows by, and a worker settles only the row it holds. *)
THEOREM SettlementIsFinal == Spec => SettledIsFinal
<1>1. ASSUME Inv, [Next]_vars, overruns = 0, NEW i \in Ids, events[i].status \in Settled
      PROVE  events'[i] = events[i]
  <2>1. ASSUME NEW a \in Aggregates, NEW t \in EventTypes, NEW k \in Keys \cup {NULL},
               Insert(a, t, k)
        PROVE  events'[i] = events[i]
    BY <1>1, <2>1 DEF Insert, Inv, TypeOK, Settled
  <2>2. ASSUME NEW a \in Aggregates, NEW t \in EventTypes, EnqueueEvent(a, t)
        PROVE  events'[i] = events[i]
    BY <1>1, <2>1, <2>2 DEF EnqueueEvent, Coalescible, Settled
  <2>3. ASSUME Produce PROVE events'[i] = events[i]
    BY <2>1, <2>2, <2>3 DEF Produce, EmitDomainEvent, EnqueueDomainEventTx
  <2>4. ASSUME NEW w \in Workers, NEW j \in Ids, ClaimEvent(w, j)
        PROVE  events'[i] = events[i]
    BY <1>1, <2>4 DEF ClaimEvent, Claimable, Due, Inv, TypeOK, Settled
  <2>5. ASSUME NEW w \in Workers, CompleteEvent(w) \/ FailEvent(w)
        PROVE  events'[i] = events[i]
    <3>1. workers[w].event # i
      BY <1>1, <2>5 DEF CompleteEvent, FailEvent, Inv, Owned, Busy, Settled
    <3> QED
      BY <1>1, <2>5, <3>1 DEF CompleteEvent, FailEvent, Settle, Inv, TypeOK
  <2>6. ASSUME NEW w \in Workers, HandleOk(w) \/ HandleErr(w) PROVE events'[i] = events[i]
    BY <2>6 DEF HandleOk, HandleErr
  <2>7. ASSUME TimePasses PROVE events'[i] = events[i]
    BY <1>1, <2>7 DEF TimePasses, BackoffEnds, LeaseEnds, LeaseOverrun, Inv, TypeOK, Settled
  <2>8. ASSUME Failure \/ UNCHANGED vars PROVE events'[i] = events[i]
    BY <2>8 DEF Failure, Restart, SettleLost, Panic, vars
  <2> QED
    BY <1>1, <2>3, <2>4, <2>5, <2>6, <2>7, <2>8 DEF Next, ProcessOnePending
<1>2. Inv /\ [Next]_vars =>
        [overruns = 0 => \A i \in Ids : events[i].status \in Settled => events'[i] = events[i]]_vars
  BY <1>1
<1> QED
  BY <1>2, Invariance, PTL DEF Spec, SettledIsFinal

-----------------------------------------------------------------------------
(* The outbox implements the queue of EventQueue. The mapping forgets      *)
(* leases, attempts and who works: a row that is pending or processing is  *)
(* a waiting event, and the calls are those of the busy tasks. Each step   *)
(* of the outbox is one step of the queue or none: the invariant above     *)
(* tells that the rows a task settles are those of its call.               *)

Calls == {CallOf(w) : w \in {v \in Workers : Busy(v)}}

LEMMA QueueStarts == Init => Queue!QueueInit
<1> SUFFICES ASSUME Init PROVE Queue!QueueInit
  OBVIOUS
<1>1. \A i \in Ids : RecordedAs(events[i]).state = "absent"
  BY DEF Init, Absent, RecordedAs, Unsettled
<1>2. \A w \in Workers : ~Busy(w)
  BY DEF Init, Busy, Idle
<1> QED
  BY <1>1, <1>2, BoundsAssumption DEF Init, Queue!QueueInit

Rows == [i \in Ids |-> RecordedAs(events[i])]

\* An insert records one event.
LEMMA InsertRecords ==
  ASSUME Inv, NEW a \in Aggregates, NEW t \in EventTypes, NEW k \in Keys \cup {NULL},
         Enqueuing, Insert(a, t, k)
  PROVE  Queue!QueueStep
<1>1. PICK n \in Ids :
        /\ events[n].status = "absent"
        /\ events' = [events EXCEPT ![n] = NewEvent(a, t, k)]
  BY DEF Insert
<1>2. enqueues + 1 \in 0..MaxEnqueues /\ workers' = workers
  BY BoundsAssumption DEF Enqueuing, Inv, TypeOK
<1>3. RecordedAs(events[n]).state = "absent"
  BY <1>1 DEF RecordedAs, Unsettled
<1>4. RecordedAs(NewEvent(a, t, k)) = [object |-> a, request |-> enqueues + 1, state |-> "waiting"]
  BY DEF RecordedAs, NewEvent, Unsettled
<1>5. Rows' = [Rows EXCEPT ![n] = [object |-> a, request |-> enqueues + 1, state |-> "waiting"]]
  BY <1>1, <1>4 DEF Rows, Inv, TypeOK
<1>6. Calls' = Calls
  BY <1>2 DEF Calls, CallOf, Busy
<1>7. Queue!Record(n, a, enqueues + 1)
  BY <1>3, <1>5, <1>6 DEF Queue!Record, Rows, Calls
<1> QED
  BY <1>2, <1>7 DEF Queue!QueueStep

\* A row that is pending is in nobody's hands.
LEMMA PendingIsFree ==
  ASSUME Inv, overruns = 0, NEW i \in Ids, events[i].status = "pending", NEW w \in Workers, Busy(w)
  PROVE  workers[w].event # i
  BY DEF Inv, Owned

\* A coalescing request replaces those of waiting events that nobody handles.
LEMMA CoalesceReplaces ==
  ASSUME Inv, overruns = 0, NEW a \in Aggregates, NEW t \in EventTypes, EnqueueEvent(a, t),
         \E i \in Ids : Coalescible(i, a, t)
  PROVE  Queue!QueueStep
<1> DEFINE S == {i \in Ids : Coalescible(i, a, t)}
<1>1. enqueues + 1 \in 0..MaxEnqueues /\ workers' = workers
  BY BoundsAssumption DEF EnqueueEvent, Enqueuing, Inv, TypeOK
<1>2. \A i \in S : RecordedAs(events[i]).state = "waiting"
  BY DEF Coalescible, RecordedAs, Unsettled
<1>3. \A i \in S : \A c \in Calls : c.event # i
  BY PendingIsFree DEF Coalescible, Calls, CallOf
<1>4. ASSUME NEW i \in Ids
      PROVE  RecordedAs(events'[i]) = IF i \in S THEN [RecordedAs(events[i]) EXCEPT !.request = enqueues + 1]
                                      ELSE RecordedAs(events[i])
  <2>1. events[i] \in Event
    BY DEF Inv, TypeOK
  <2>2. CASE i \in S
    <3>1. events'[i] = Recharged(events[i], enqueues + 1)
      BY <2>2 DEF EnqueueEvent
    <3> QED
      BY <2>1, <2>2, <3>1 DEF RecordedAs, Recharged, Event
  <2>3. CASE i \notin S
    BY <2>3 DEF EnqueueEvent
  <2> QED
    BY <2>2, <2>3
<1>5. Rows' = [i \in Ids |-> IF i \in S THEN [Rows[i] EXCEPT !.request = enqueues + 1] ELSE Rows[i]]
  BY <1>4 DEF Rows
<1>6. Calls' = Calls
  BY <1>1 DEF Calls, CallOf, Busy
<1>7. Queue!Replace(S, enqueues + 1)
  BY <1>2, <1>3, <1>5, <1>6 DEF Queue!Replace, Queue!Being, Rows, Calls
<1> QED
  BY <1>1, <1>7 DEF Queue!QueueStep
\* A claim takes the earliest waiting event of an object in nobody's hands.
LEMMA ClaimTakes ==
  ASSUME Inv, overruns = 0, NEW w \in Workers, NEW i \in Ids, ClaimEvent(w, i)
  PROVE  Queue!QueueStep
<1>1. /\ Due(i) /\ ~ActiveElsewhere(i) /\ ~EarlierUnsettled(i) /\ ~Busy(w)
      /\ \A j \in Ids : j # i => events'[j] = events[j]
      /\ events'[i] = Leased(events[i], w)
      /\ \A v \in Workers : v # w => workers'[v] = workers[v]
      /\ workers'[w].pc = "working" /\ workers'[w].event = i
  BY DEF ClaimEvent, Claimable, Inv, TypeOK, Busy
<1>2. RecordedAs(events[i]).state = "waiting"
  BY <1>1 DEF Due, RecordedAs, Unsettled
<1>3. ASSUME NEW c \in Calls PROVE events[c.event].agg # events[i].agg
  <2>1. PICK v \in Workers : Busy(v) /\ c = CallOf(v)
    BY DEF Calls
  <2>2. c.event = workers[v].event /\ workers[v].event \in Ids
    BY <2>1 DEF CallOf, Inv, TypeOK
  <2>3. /\ events[workers[v].event].status = "processing"
        /\ events[workers[v].event].lease = "live"
    BY <2>1 DEF Inv, Owned
  <2>4. workers[v].event # i
    BY <1>1, <2>3 DEF Due
  <2> QED
    BY <1>1, <2>2, <2>3, <2>4 DEF ActiveElsewhere, SameAggregate
<1>4. \A c \in Calls : c.event \in Ids
  BY DEF Calls, CallOf, Inv, TypeOK
<1>5. \A j \in Ids : j < i /\ RecordedAs(events[j]).state = "waiting" => events[j].agg # events[i].agg
  <2>1. ASSUME NEW j \in Ids, RecordedAs(events[j]).state = "waiting" PROVE events[j].status \in Unsettled
    <3>1. events[j].status # "waiting"
      BY DEF Inv, TypeOK, Event, Unsettled, Settled
    <3> QED
      BY <2>1, <3>1 DEF RecordedAs
  <2> QED
    BY <1>1, <2>1 DEF EarlierUnsettled, SameAggregate
<1>6. Rows' = Rows
  <2>1. RecordedAs(events'[i]) = RecordedAs(events[i])
    BY <1>1, <1>2 DEF RecordedAs, Leased, Inv, TypeOK, Event, Unsettled, Due
  <2> QED
    BY <1>1, <2>1 DEF Rows
<1>7. Calls' = Calls \cup {[event |-> i, stage |-> "working"]}
  BY <1>1 DEF Calls, CallOf, Busy
<1>8. Queue!Take(i)
  BY <1>2, <1>3, <1>4, <1>5, <1>6, <1>7
  DEF Queue!Take, Queue!SameObject, Rows, Calls, RecordedAs
<1> QED
  BY <1>8 DEF Queue!QueueStep

\* The call of a busy task is no other's.
LEMMA CallIsOnes ==
  ASSUME Inv, overruns = 0, NEW v \in Workers, NEW w \in Workers, Busy(v), Busy(w), v # w
  PROVE  CallOf(v).event # CallOf(w).event
  BY DEF CallOf, Inv, OneHandlerPerAggregate, SameAggregate

\* A handler returns, one way or the other.
LEMMA HandlerReturns ==
  ASSUME Inv, overruns = 0, NEW w \in Workers, HandleOk(w) \/ HandleErr(w)
  PROVE  Queue!QueueStep
<1> DEFINE c == CallOf(w)
           d == CallOf(w)'
<1>1. /\ events' = events
      /\ workers[w].pc = "working" /\ workers'[w].pc \in {"ok", "err"}
      /\ workers'[w].event = workers[w].event
      /\ \A v \in Workers : v # w => workers'[v] = workers[v]
  BY DEF HandleOk, HandleErr, Inv, TypeOK, Worker
<1>2. Busy(w) /\ Busy(w)' /\ \A v \in Workers : v # w => (Busy(v)' <=> Busy(v)) /\ CallOf(v)' = CallOf(v)
  BY <1>1 DEF Busy, CallOf
<1>3. c \in Calls /\ c.stage = "working" /\ d = [c EXCEPT !.stage = workers'[w].pc]
  BY <1>1, <1>2 DEF Calls, CallOf
<1>4. \A v \in Workers : v # w /\ Busy(v) => CallOf(v) # c
  BY <1>2, CallIsOnes
<1>5. Calls' = (Calls \ {c}) \cup {d}
  BY <1>2, <1>4 DEF Calls
<1>6. Rows' = Rows
  BY <1>1 DEF Rows
<1>7. Queue!Return(c, "ok") \/ Queue!Return(c, "err")
  BY <1>1, <1>3, <1>5, <1>6 DEF Queue!Return, Rows, Calls
<1> QED
  BY <1>3, <1>7 DEF Queue!QueueStep, Calls

\* Calls that are no more, of events that stay as they are.
LEMMA CallsEnd ==
  ASSUME Rows' = Rows, Calls' \in SUBSET Calls
  PROVE  Queue!QueueStep
<1>1. Calls \ Calls' \in SUBSET Calls /\ Calls' = Calls \ (Calls \ Calls')
  OBVIOUS
<1>2. Queue!GiveUp(Calls \ Calls')
  BY <1>1 DEF Queue!GiveUp, Rows, Calls
<1> QED
  BY <1>1, <1>2 DEF Queue!QueueStep, Calls

\* A settlement settles its call's event, or leaves it for another try.
LEMMA SettlementSettles ==
  ASSUME Inv, overruns = 0, NEW w \in Workers, CompleteEvent(w) \/ FailEvent(w)
  PROVE  Queue!QueueStep
<1> DEFINE n == workers[w].event
           c == CallOf(w)
<1>1. PICK s \in {"pending", "completed", "failed"}, l \in {"none", "live"} :
         /\ Settle(w, s, l)
         /\ s = "completed" => workers[w].pc = "ok"
         /\ s # "completed" => workers[w].pc = "err"
  BY DEF CompleteEvent, FailEvent
<1>2. Busy(w) /\ n \in Ids /\ workers[w].pc \in {"ok", "err"}
  BY <1>1 DEF Busy, Inv, TypeOK
<1>3. /\ workers'[w] = Idle
      /\ \A v \in Workers : v # w => workers'[v] = workers[v]
      /\ \A i \in Ids : i # n => events'[i] = events[i]
      /\ events'[n] = Released(events[n], s, l)
  BY <1>1, <1>2 DEF Settle, Inv, TypeOK
<1>4. ~Busy(w)' /\ \A v \in Workers : v # w => (Busy(v)' <=> Busy(v)) /\ CallOf(v)' = CallOf(v)
  BY <1>3 DEF Busy, CallOf, Idle
<1>5. \A v \in Workers : v # w /\ Busy(v) => CallOf(v) # c
  BY <1>2, CallIsOnes
<1>6. c \in Calls /\ Calls' = Calls \ {c} /\ c.event = n /\ c.stage = workers[w].pc
  BY <1>2, <1>4, <1>5 DEF Calls, CallOf
<1>7. events[n] \in Event /\ events[n].status = "processing"
  BY <1>2 DEF Inv, TypeOK, Owned
<1>8. RecordedAs(events'[n]) =
        [RecordedAs(events[n]) EXCEPT !.state = IF s = "pending" THEN "waiting" ELSE s]
  BY <1>3, <1>7 DEF RecordedAs, Released, Event, Unsettled
<1>9. CASE s = "pending"
  <2>1. RecordedAs(events'[n]) = RecordedAs(events[n])
    BY <1>7, <1>8, <1>9 DEF RecordedAs, Unsettled
  <2>2. Rows' = Rows
    BY <1>3, <2>1 DEF Rows
  <2> QED
    BY <1>6, <2>2, CallsEnd
<1>10. CASE s # "pending"
  <2>1. Rows' = [Rows EXCEPT ![n].state = IF c.stage = "ok" THEN "completed" ELSE "failed"]
    <3>1. s = IF c.stage = "ok" THEN "completed" ELSE "failed"
      BY <1>1, <1>6, <1>10
    <3>2. RecordedAs(events'[n]) = [Rows[n] EXCEPT !.state = s]
      BY <1>2, <1>8, <1>10 DEF Rows
    <3>3. \A i \in Ids : RecordedAs(events'[i]) = IF i = n THEN [Rows[n] EXCEPT !.state = s] ELSE Rows[i]
      BY <1>3, <3>2 DEF Rows
    <3>4. Rows' = [i \in Ids |-> IF i = n THEN [Rows[n] EXCEPT !.state = s] ELSE Rows[i]]
      BY <3>3 DEF Rows
    <3> QED
      BY <1>2, <3>1, <3>4 DEF Rows
  <2>2. Queue!Settle(c)
    BY <1>2, <1>6, <2>1 DEF Queue!Settle, Rows, Calls
  <2> QED
    BY <1>6, <2>2 DEF Queue!QueueStep, Calls
<1> QED
  BY <1>9, <1>10

\* Time without an overrun, and failures, change no row and start no call.
LEMMA TimePassesBy ==
  ASSUME Inv, NEW i \in Ids, BackoffEnds(i) \/ LeaseEnds(i)
  PROVE  Queue!QueueStep
<1>1. /\ workers' = workers
      /\ events' = [events EXCEPT ![i] = [events[i] EXCEPT !.lease = "expired"]]
  BY DEF BackoffEnds, LeaseEnds, Inv, TypeOK
<1>2. RecordedAs([events[i] EXCEPT !.lease = "expired"]) = RecordedAs(events[i])
  BY DEF RecordedAs, Inv, TypeOK, Event
<1>3. Rows' = Rows
  BY <1>1, <1>2 DEF Rows, Inv, TypeOK
<1>4. Calls' = Calls
  BY <1>1 DEF Calls, CallOf, Busy
<1> QED
  BY <1>3, <1>4, CallsEnd

LEMMA FailureGivesUp ==
  ASSUME Inv, Failure
  PROVE  Queue!QueueStep
<1>1. /\ events' = events
      /\ \A v \in Workers : workers'[v] = workers[v] \/ workers'[v].pc \in {"idle", "down"}
  BY DEF Failure, Restart, SettleLost, Panic, Idle, Inv, TypeOK
<1>2. Rows' = Rows /\ Calls' \in SUBSET Calls
  BY <1>1 DEF Rows, Calls, CallOf, Busy
<1> QED
  BY <1>2, CallsEnd

\* No step but an overrun changes their number.
LEMMA OverrunsAreCounted ==
  ASSUME Next, \A i \in Ids : ~LeaseOverrun(i)
  PROVE  overruns' = overruns
<1>1. ASSUME NEW a \in Aggregates, NEW t \in EventTypes, EmitDomainEvent(a, t)
      PROVE  overruns' = overruns
  BY <1>1 DEF EmitDomainEvent, Enqueuing
<1>2. ASSUME NEW a \in Aggregates, NEW t \in EventTypes, EnqueueEvent(a, t)
      PROVE  overruns' = overruns
  BY <1>2 DEF EnqueueEvent, Enqueuing
<1>3. ASSUME NEW a \in Aggregates, NEW t \in EventTypes, NEW k \in Keys, EnqueueDomainEventTx(a, t, k)
      PROVE  overruns' = overruns
  BY <1>3 DEF EnqueueDomainEventTx, Enqueuing
<1>4. ASSUME NEW w \in Workers, ProcessOnePending(w)
      PROVE  overruns' = overruns
  BY <1>4 DEF ProcessOnePending, ClaimEvent, HandleOk, HandleErr, CompleteEvent, FailEvent, Settle
<1>5. CASE TimePasses
  BY <1>5 DEF TimePasses, BackoffEnds, LeaseEnds
<1>6. CASE Failure
  BY <1>6 DEF Failure, Restart, SettleLost, Panic
<1> QED
  BY <1>1, <1>2, <1>3, <1>4, <1>5, <1>6 DEF Next, Produce

LEMMA StepIsOfQueue == Inv /\ Inv' /\ [Next]_vars => [Queue!QueueNext]_(Queue!queueVars)
<1> SUFFICES ASSUME Inv, Inv', [Next]_vars PROVE [Queue!QueueNext]_(Queue!queueVars)
  OBVIOUS
<1>1. CASE overruns' > 0
  BY <1>1 DEF Queue!QueueNext
<1>2. CASE UNCHANGED vars
  <2>1. Rows' = Rows /\ Calls' = Calls /\ overruns' = overruns
    BY <1>2 DEF vars, Rows, Calls, CallOf, Busy
  <2> QED
    BY <2>1 DEF Queue!queueVars, Rows, Calls
<1>3. CASE Next /\ ~(overruns' > 0)
  <2>1. overruns = 0 /\ overruns' = 0 /\ \A i \in Ids : ~LeaseOverrun(i)
    <3>1. overruns \in Nat /\ overruns' \in Nat /\ overruns' = 0
      BY <1>3 DEF Inv, TypeOK
    <3>2. \A i \in Ids : ~LeaseOverrun(i)
      BY <3>1 DEF LeaseOverrun
    <3>3. overruns' = overruns
      BY <1>3, <3>2, OverrunsAreCounted
    <3> QED
      BY <3>1, <3>2, <3>3
  <2>2. Queue!QueueStep
    <3>1. ASSUME NEW a \in Aggregates, NEW t \in EventTypes, EmitDomainEvent(a, t) PROVE Queue!QueueStep
      BY <3>1, InsertRecords DEF EmitDomainEvent
    <3>2. ASSUME NEW a \in Aggregates, NEW t \in EventTypes, EnqueueEvent(a, t) PROVE Queue!QueueStep
      BY <2>1, <3>2, InsertRecords, CoalesceReplaces DEF EnqueueEvent
    <3>3. ASSUME NEW a \in Aggregates, NEW t \in EventTypes, NEW k \in Keys, EnqueueDomainEventTx(a, t, k)
          PROVE  Queue!QueueStep
      <4>1. CASE Insert(a, t, k)
        BY <3>3, <4>1, InsertRecords DEF EnqueueDomainEventTx
      <4>2. CASE UNCHANGED <<events, late, handled>>
        <5>1. Rows' = Rows /\ Calls' = Calls
          BY <3>3, <4>2 DEF EnqueueDomainEventTx, Enqueuing, Rows, Calls, CallOf, Busy
        <5> QED
          BY <5>1, CallsEnd
      <4> QED
        BY <3>3, <4>1, <4>2 DEF EnqueueDomainEventTx
    <3>4. ASSUME NEW w \in Workers, ProcessOnePending(w) PROVE Queue!QueueStep
      BY <2>1, <3>4, ClaimTakes, HandlerReturns, SettlementSettles DEF ProcessOnePending
    <3>5. CASE TimePasses
      BY <2>1, <3>5, TimePassesBy DEF TimePasses
    <3>6. CASE Failure
      BY <3>6, FailureGivesUp
    <3> QED
      BY <1>3, <3>1, <3>2, <3>3, <3>4, <3>5, <3>6 DEF Next, Produce
  <2> QED
    BY <2>1, <2>2 DEF Queue!QueueNext
<1> QED
  BY <1>1, <1>2, <1>3

(* Whatever its instance, the outbox keeps the queue's promise up to the    *)
(* first lease that a handler outlives.                                     *)
THEOREM OutboxIsAQueue == Spec => ImplementsEventQueue
  BY QueueStarts, StepIsOfQueue, Invariance, PTL DEF Spec, ImplementsEventQueue, Queue!QueueSpec
=============================================================================

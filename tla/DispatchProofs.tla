---------------------------- MODULE DispatchProofs ----------------------------
(***************************************************************************)
(* What the dispatcher promises, proved for any number of tasks, people,   *)
(* configurations and accounts, any number of changes, edits, repairs and  *)
(* interruptions.                                                          *)
(***************************************************************************)
EXTENDS Dispatch, FiniteSetTheorems, SequenceTheorems, TLAPS

Busy(w) == workers[w].pc # "idle"

(* A configuration has a version for each of its edits. *)
Counted == \A c \in Configs : config[c].version <= edits + 1

(* What is planned at each point: a person's event is for configurations   *)
(* that were enabled when they were read, that of a configuration for this *)
(* one only, and whose binding was ensured is still planned.               *)
Tasks ==
  \A w \in Workers :
    /\ workers[w].pc \in {"idle", "claimed"} => DOMAIN workers[w].plan = {}
    /\ workers[w].pc = "bound" => ~IsConfig(w)
    /\ workers[w].pc = "sending" => IsConfig(w)
    /\ workers[w].pc \in {"bound", "sending"} =>
         workers[w].at \in DOMAIN workers[w].plan /\ workers[w].plan[workers[w].at].on
    /\ Busy(w) /\ IsConfig(w) => DOMAIN workers[w].plan \subseteq {EventOf(w).of}
    /\ Busy(w) /\ ~IsConfig(w) => \A c \in DOMAIN workers[w].plan : workers[w].plan[c].on

(* An event in process is one task's, with the payload it was claimed with. *)
Claims ==
  \A w \in Workers : Busy(w) =>
    /\ EventOf(w).status = "processing"
    /\ workers[w].only = EventOf(w).only
    /\ \A v \in Workers : Busy(v) /\ workers[v].event = workers[w].event => v = w

(* Only enabled configurations are owed a job, and that of the payload. *)
Debts ==
  \A i \in EventIds :
    /\ owed[i] \subseteq On
    /\ outbox[i].of \in Configs => owed[i] = {}
    /\ i \notin absorbed /\ outbox[i].only # NULL => owed[i] \subseteq {outbox[i].only}

(* What an event owes has its job, or is still planned. *)
Progress ==
  \A w \in Workers :
    workers[w].pc \in {"planned", "bound", "sending"} /\ workers[w].event \notin absorbed =>
      owed[workers[w].event] \subseteq JobsOfEvent(workers[w].event) \cup DOMAIN workers[w].plan

(* Nobody knows a version that is not there yet, and who knows the version *)
(* there is knows what it says.                                            *)
Copies ==
  /\ \A c \in Configs :
       /\ binding[c].version <= config[c].version
       /\ binding[c].version = config[c].version => Follows(c)
  /\ \A w \in Workers : \A c \in DOMAIN workers[w].plan :
       /\ workers[w].plan[c].version <= config[c].version
       /\ workers[w].plan[c].version = config[c].version => workers[w].plan[c] = config[c]

(* A binding has the last version, or an event of its configuration is     *)
(* under way that will bring it.                                           *)
HasCurrent(w, c) ==
  c \in DOMAIN workers[w].plan /\ workers[w].plan[c].version = config[c].version
Binds(i, c) ==
  \A w \in Workers : Busy(w) /\ workers[w].event = i =>
    workers[w].pc = "claimed" \/ (workers[w].pc = "planned" /\ HasCurrent(w, c))
Opened(i, c) == outbox[i].of = c /\ outbox[i].status # "completed"
Bound ==
  \A c \in Configs \ rewound :
    binding[c].version = config[c].version \/ \E i \in EventIds : Opened(i, c) /\ Binds(i, c)

(* The same of the events that send everybody again. *)
Key(c) == <<c, config[c].version>>
Sends(i, c) ==
  \A w \in Workers : Busy(w) /\ workers[w].event = i => workers[w].pc = "claimed" \/ HasCurrent(w, c)
SentAgain ==
  \A c \in Configs : config[c].on /\ config[c].version > 1 =>
    \/ \A p \in People : \E i \in EventIds : outbox[i].of = p /\ outbox[i].key = Key(c)
    \/ \E i \in EventIds : Opened(i, c) /\ Sends(i, c)

(* What the event of a version owes, and that its binding has the version. *)
Keys ==
  /\ \A w \in Workers : workers[w].pc = "sending" /\ workers[w].at \notin rewound =>
       workers[w].plan[workers[w].at].version <= binding[workers[w].at].version
  /\ \A i \in EventIds, c \in Configs : \A v \in Versions : outbox[i].key = <<c, v>> =>
       /\ v <= config[c].version
       /\ c \notin rewound => v <= binding[c].version
       /\ v = config[c].version /\ config[c].on => c \in owed[i]

(* A job is for the person of its event, and that of the last version is   *)
(* for the account that the binding has.                                   *)
Lives ==
  \A j \in jobs :
    /\ j.event \in EventIds /\ j.person = outbox[j.event].of
    /\ j.config \notin rewound /\ config[j.config].on /\ outbox[j.event].key = Key(j.config) => j.live

(* The inductive invariant. *)
DispatchInv ==
  /\ TypeOK /\ Counted /\ Tasks /\ Claims /\ Debts /\ EachPlatformGetsAJobUnlessAbsorbed /\ Progress
  /\ Copies /\ Bound /\ SentAgain /\ Keys /\ Lives
-----------------------------------------------------------------------------
(* A function over 1..n is a sequence. *)
LEMMA SeqIsFunction ==
  ASSUME NEW S, NEW n \in Nat, NEW f \in [1..n -> S]
  PROVE  f \in Seq(S) /\ Len(f) = n /\ DOMAIN f = 1..n
BY SeqDef

(* The fields of the records. *)
LEMMA ConfigFields ==
  ASSUME NEW r \in Config
  PROVE  r.on \in BOOLEAN /\ r.account \in Accounts /\ r.version \in Versions /\ r.version \in Nat
BY BoundsAssumption DEF Config, Versions

(* Those of an event. *)
LEMMA EventFields ==
  ASSUME NEW e \in Event
  PROVE  /\ e.of \in Configs \cup People /\ e.only \in Configs \cup {NULL}
         /\ e.key \in (Configs \X Versions) \cup {NULL}
         /\ e.status \in {"pending", "processing", "completed", "failed"}
BY DEF Event

(* A plan maps some of the configurations to copies of them. *)
LEMMA PlanFields ==
  ASSUME NEW plan
  PROVE  plan \in Plan <=> /\ plan = [c \in DOMAIN plan |-> plan[c]] /\ DOMAIN plan \subseteq Configs
                           /\ \A c \in DOMAIN plan : plan[c] \in Config
BY DEF Plan

(* Those of a task. *)
LEMMA WorkerFields ==
  ASSUME NEW k \in Worker
  PROVE  /\ k.pc \in {"idle", "claimed", "planned", "bound", "sending"} /\ k.event \in Nat
         /\ k.only \in Configs \cup {NULL} /\ k.plan \in Plan /\ k.at \in Configs \cup {NULL}
         /\ DOMAIN k.plan \subseteq Configs /\ \A c \in DOMAIN k.plan : k.plan[c] \in Config
<1>1. k.plan \in Plan
  BY DEF Worker
<1> QED
  BY <1>1, PlanFields DEF Worker

(* What the types say of the events and of the tasks. *)
LEMMA Typed ==
  ASSUME TypeOK
  PROVE  /\ Len(outbox) \in Nat /\ EventIds = 1..Len(outbox)
         /\ \A i \in EventIds : /\ outbox[i] \in Event /\ owed[i] \subseteq Configs
                                /\ outbox[i].of \in Configs \cup People
                                /\ outbox[i].only \in Configs \cup {NULL}
         /\ \A c \in Configs : /\ config[c] \in Config /\ binding[c] \in Config
                               /\ config[c].version \in Nat /\ binding[c].version \in Nat
         /\ \A w \in Workers : /\ workers[w] \in Worker /\ DOMAIN workers[w].plan \subseteq Configs
                               /\ workers[w].pc \in {"idle", "claimed", "planned", "bound", "sending"}
                               /\ workers[w].only \in Configs \cup {NULL}
                               /\ Busy(w) => workers[w].event \in EventIds
         /\ \A w \in Workers : \A c \in DOMAIN workers[w].plan :
              workers[w].plan[c] \in Config /\ workers[w].plan[c].version \in Nat
<1>1. Len(outbox) \in Nat /\ EventIds = 1..Len(outbox) /\ \A i \in EventIds : outbox[i] \in Event
  BY LenProperties, ElementOfSeq DEF TypeOK, EventIds
<1>2. \A i \in EventIds : /\ outbox[i] \in Event /\ owed[i] \subseteq Configs
                          /\ outbox[i].of \in Configs \cup People
                          /\ outbox[i].only \in Configs \cup {NULL}
  BY <1>1, EventFields DEF TypeOK
<1>3. \A c \in Configs : config[c] \in Config /\ binding[c] \in Config
  BY DEF TypeOK
<1>4. \A w \in Workers : workers[w] \in Worker /\ (Busy(w) => workers[w].event \in EventIds)
  BY DEF TypeOK, Busy
<1> QED
  BY <1>1, <1>2, <1>3, <1>4, ConfigFields, WorkerFields

(* What a task that goes on does. *)
LEMMA TaskGoesOn ==
  ASSUME TypeOK, NEW w \in Workers, NEW pc, NEW plan, NEW at, GoOn(w, pc, plan, at)
  PROVE  /\ workers'[w] = [pc |-> pc, event |-> workers[w].event, only |-> workers[w].only,
                           plan |-> plan, at |-> at]
         /\ \A v \in Workers \ {w} : workers'[v] = workers[v]
         /\ (/\ pc \in {"planned", "bound", "sending"} /\ plan \in Plan /\ at \in Configs \cup {NULL}
             /\ Busy(w))
            => workers' \in [Workers -> Worker]
<1> DEFINE k == workers[w]
           k1 == [k EXCEPT !.pc = pc]
           k2 == [k1 EXCEPT !.plan = plan]
           k3 == [k2 EXCEPT !.at = at]
           new == [pc |-> pc, event |-> k.event, only |-> k.only, plan |-> plan, at |-> at]
<1>1. k \in Worker /\ workers \in [Workers -> Worker]
  BY DEF TypeOK
<1>2. k3 = new
  <2> HIDE DEF k
  <2>1. k = [pc |-> k.pc, event |-> k.event, only |-> k.only, plan |-> k.plan, at |-> k.at]
    BY <1>1 DEF Worker
  <2>2. k1 = [pc |-> pc, event |-> k.event, only |-> k.only, plan |-> k.plan, at |-> k.at]
    BY <2>1
  <2> HIDE DEF k1
  <2>3. k2 = [pc |-> pc, event |-> k.event, only |-> k.only, plan |-> plan, at |-> k.at]
    BY <2>2
  <2> HIDE DEF k2
  <2> QED
    BY <2>3
<1>3. workers' = [workers EXCEPT ![w] = k3]
  BY DEF GoOn
<1>4. workers' = [workers EXCEPT ![w] = new]
  BY <1>2, <1>3
<1>5. ASSUME pc \in {"planned", "bound", "sending"}, plan \in Plan, at \in Configs \cup {NULL}
      PROVE  new \in Worker
  BY <1>1, <1>5 DEF Worker
<1> HIDE DEF new
<1>6. workers'[w] = new /\ \A v \in Workers \ {w} : workers'[v] = workers[v]
  BY <1>1, <1>4
<1> QED
  BY <1>1, <1>4, <1>5, <1>6 DEF new

(* What another status does to the outbox. *)
LEMMA StatusIsSet ==
  ASSUME TypeOK, NEW i \in EventIds,
         NEW s \in {"pending", "processing", "completed", "failed"},
         outbox' = [outbox EXCEPT ![i].status = s]
  PROVE  /\ outbox' \in Seq(Event) /\ EventIds' = EventIds
         /\ \A j \in EventIds : /\ outbox'[j].of = outbox[j].of /\ outbox'[j].only = outbox[j].only
                                /\ outbox'[j].key = outbox[j].key
                                /\ outbox'[j].status = IF j = i THEN s ELSE outbox[j].status
<1>1. Len(outbox) \in Nat /\ EventIds = 1..Len(outbox) /\ \A j \in EventIds : outbox[j] \in Event
  BY Typed
<1> DEFINE e == [outbox[i] EXCEPT !.status = s]
<1>2. /\ e \in Event /\ e.of = outbox[i].of /\ e.only = outbox[i].only /\ e.key = outbox[i].key
      /\ e.status = s
  BY <1>1 DEF Event
<1>3. outbox' = [outbox EXCEPT ![i] = e]
  OBVIOUS
<1> HIDE DEF e
<1>4. outbox' \in [1..Len(outbox) -> Event] /\ outbox'[i] = e
      /\ \A j \in EventIds \ {i} : outbox'[j] = outbox[j]
  <2>1. outbox \in [1..Len(outbox) -> Event]
    BY <1>1, LenProperties DEF TypeOK
  <2> QED
    BY <2>1, <1>1, <1>2, <1>3
<1>5. outbox' \in Seq(Event) /\ EventIds' = EventIds
  BY <1>1, <1>4, SeqIsFunction DEF EventIds
<1> QED
  BY <1>2, <1>4, <1>5

(* A plan of configurations as they are. *)
LEMMA PlanOfNow ==
  ASSUME TypeOK, NEW C \in SUBSET Configs
  PROVE  /\ Restrict(config, C) \in Plan /\ DOMAIN Restrict(config, C) = C
         /\ \A c \in C : Restrict(config, C)[c] = config[c]
<1>1. DOMAIN Restrict(config, C) = C /\ \A c \in C : Restrict(config, C)[c] = config[c]
  BY DEF Restrict
<1>2. Restrict(config, C) = [c \in DOMAIN Restrict(config, C) |-> Restrict(config, C)[c]]
  BY DEF Restrict
<1>3. \A c \in C : config[c] \in Config
  BY Typed
<1> QED
  BY <1>1, <1>2, <1>3, PlanFields

(* The plan of a task at rest is empty. *)
LEMMA NoPlanIsPlan == NoPlan \in Plan /\ DOMAIN NoPlan = {}
<1>1. DOMAIN NoPlan = {} /\ NoPlan = [c \in DOMAIN NoPlan |-> NoPlan[c]]
  BY DEF NoPlan
<1> QED
  BY <1>1, PlanFields

-----------------------------------------------------------------------------
(* The steps of the dispatcher. *)

(* An event that is claimed is in process, and nobody else has it. *)
LEMMA ClaimEventKeeps ==
  ASSUME DispatchInv, NEW w \in Workers, NEW i \in EventIds, ClaimEvent(w, i)
  PROVE  DispatchInv'
<1> DEFINE new == [pc |-> "claimed", event |-> i, only |-> outbox[i].only, plan |-> NoPlan, at |-> NULL]
<1> USE DEF DispatchInv
<1>0. /\ UNCHANGED <<config, binding, jobs, bounds, history>>
      /\ workers[w].pc = "idle" /\ outbox[i].status = "pending"
  BY DEF ClaimEvent, Claimable
<1>1. /\ outbox' \in Seq(Event) /\ EventIds' = EventIds
      /\ \A j \in EventIds : /\ outbox'[j].of = outbox[j].of /\ outbox'[j].only = outbox[j].only
                             /\ outbox'[j].key = outbox[j].key
                             /\ outbox'[j].status = IF j = i THEN "processing" ELSE outbox[j].status
  BY StatusIsSet DEF ClaimEvent
<1>2. [Idle EXCEPT !.pc = "claimed", !.event = i, !.only = outbox[i].only] = new
  <2> DEFINE k1 == [Idle EXCEPT !.pc = "claimed"]
             k2 == [k1 EXCEPT !.event = i]
             k3 == [k2 EXCEPT !.only = outbox[i].only]
  <2>1. k1 = [pc |-> "claimed", event |-> 0, only |-> NULL, plan |-> NoPlan, at |-> NULL]
    BY DEF Idle
  <2> HIDE DEF k1
  <2>2. k2 = [pc |-> "claimed", event |-> i, only |-> NULL, plan |-> NoPlan, at |-> NULL]
    BY <2>1
  <2> HIDE DEF k2
  <2>3. k3 = new
    BY <2>2
  <2> QED
    BY <2>3 DEF k1, k2
<1>3. workers' = [workers EXCEPT ![w] = new]
  BY <1>2 DEF ClaimEvent
<1>4. outbox[i].only \in Configs \cup {NULL} /\ EventIds = 1..Len(outbox) /\ Len(outbox) \in Nat
  BY Typed
<1>5. new \in Worker
  BY <1>4, NoPlanIsPlan DEF Worker
<1> HIDE DEF new
<1>6. /\ workers' \in [Workers -> Worker] /\ workers'[w] = new
      /\ \A v \in Workers \ {w} : workers'[v] = workers[v]
  BY <1>3, <1>5 DEF TypeOK
<1>7. new.pc = "claimed" /\ new.event = i /\ new.only = outbox[i].only /\ new.plan = NoPlan
  BY DEF new
<1>8. \A v \in Workers : Busy(v) => workers[v].event \in EventIds /\ workers[v].event # i
  BY <1>0, Typed DEF Claims, EventOf
<1>9. TypeOK'
  BY <1>0, <1>1, <1>6, <1>7 DEF TypeOK, bounds, history
<1>10. Counted' /\ Keys' /\ Lives'
  <2>1. Counted'
    BY <1>0 DEF Counted, bounds
  <2>2. Keys'
    BY <1>0, <1>1, <1>6, <1>7 DEF Keys, history
  <2>3. Lives'
    BY <1>0, <1>1 DEF Lives, Key, history
  <2> QED
    BY <2>1, <2>2, <2>3
<1>11. Tasks'
  BY <1>1, <1>6, <1>7, <1>8, NoPlanIsPlan DEF Tasks, Busy, IsConfig, EventOf
<1>12. Claims'
  BY <1>1, <1>6, <1>7, <1>8 DEF Claims, Busy, EventOf
<1>13. Debts'
  BY <1>0, <1>1 DEF Debts, On, history
<1>14. EachPlatformGetsAJobUnlessAbsorbed'
  BY <1>0, <1>1 DEF EachPlatformGetsAJobUnlessAbsorbed, JobsOfEvent, history
<1>15. Progress'
  BY <1>0, <1>6, <1>7 DEF Progress, JobsOfEvent, history
<1>16. Copies'
  BY <1>0, <1>6, <1>7, NoPlanIsPlan DEF Copies, Follows
<1>17. \A c \in Configs, j \in EventIds :
         Opened(j, c) => Opened(j, c)' /\ (Binds(j, c) => Binds(j, c)') /\ (Sends(j, c) => Sends(j, c)')
  BY <1>0, <1>1, <1>6, <1>7 DEF Opened, Binds, Sends, Busy, HasCurrent
<1>18. Bound'
  BY <1>0, <1>1, <1>17 DEF Bound, history
<1>19. SentAgain'
  <2>1. \A c \in Configs : Key(c)' = Key(c)
    BY <1>0 DEF Key
  <2>2. \A c \in Configs : (\A p \in People : \E j \in EventIds : outbox[j].of = p /\ outbox[j].key = Key(c))
          => \A p \in People : \E j \in EventIds : outbox'[j].of = p /\ outbox'[j].key = Key(c)'
    BY <1>1, <2>1
  <2> QED
    BY <1>0, <1>1, <1>17, <2>2 DEF SentAgain
<1> QED
  BY <1>9, <1>10, <1>11, <1>12, <1>13, <1>14, <1>15, <1>16, <1>18, <1>19

(* A task that has claimed an event reads what it will do with it. *)
LEMMA LoadKeeps ==
  ASSUME DispatchInv, NEW w \in Workers, workers[w].pc = "claimed",
         UNCHANGED <<config, binding, outbox, jobs, bounds, history>>,
         NEW C \in SUBSET Configs, GoOn(w, "planned", Restrict(config, C), NULL),
         IsConfig(w) => C = {EventOf(w).of},
         ~IsConfig(w) => C = {c \in On : workers[w].only \in {NULL, c}}
  PROVE  DispatchInv'
<1> DEFINE plan == Restrict(config, C)
<1> USE DEF DispatchInv
<1>1. plan \in Plan /\ DOMAIN plan = C /\ \A c \in C : plan[c] = config[c]
  BY PlanOfNow
<1>2. Busy(w) /\ workers[w].event \in EventIds
  BY Typed DEF Busy
<1> HIDE DEF plan
<1>3. /\ workers' \in [Workers -> Worker]
      /\ workers'[w] = [pc |-> "planned", event |-> workers[w].event, only |-> workers[w].only,
                        plan |-> plan, at |-> NULL]
      /\ \A v \in Workers \ {w} : workers'[v] = workers[v]
  BY <1>1, <1>2, TaskGoesOn DEF plan
<1>4. /\ workers'[w].pc = "planned" /\ workers'[w].event = workers[w].event
      /\ workers'[w].only = workers[w].only /\ workers'[w].plan = plan
  BY <1>3
<1>5. EventIds' = EventIds
  BY DEF EventIds
<1>6. TypeOK'
  BY <1>2, <1>3, <1>4, <1>5 DEF TypeOK, bounds, history
<1>7. Counted' /\ Keys' /\ Lives'
  <2>1. Counted' /\ Lives'
    BY <1>5 DEF Counted, Lives, Key, bounds, history
  <2>2. Keys'
    BY <1>3, <1>4, <1>5 DEF Keys, history
  <2> QED
    BY <2>1, <2>2
<1>8. Tasks'
  BY <1>1, <1>2, <1>3, <1>4, <1>5, Typed DEF Tasks, Busy, IsConfig, EventOf, On
<1>9. Claims'
  BY <1>2, <1>3, <1>4, <1>5 DEF Claims, Busy, EventOf
<1>10. Debts' /\ EachPlatformGetsAJobUnlessAbsorbed'
  BY <1>5 DEF Debts, On, EachPlatformGetsAJobUnlessAbsorbed, JobsOfEvent, history
<1>11. Progress'
  <2>1. workers[w].event \notin absorbed => owed[workers[w].event] \subseteq C
    <3>1. CASE IsConfig(w)
      BY <1>2, <3>1 DEF Debts, IsConfig, EventOf
    <3>2. CASE ~IsConfig(w)
      BY <1>2, <3>2 DEF Debts, Claims, EventOf
    <3> QED
      BY <3>1, <3>2
  <2>2. \A k : JobsOfEvent(k)' = JobsOfEvent(k)
    BY DEF JobsOfEvent
  <2> QED
    BY <1>1, <1>3, <1>4, <2>1, <2>2 DEF Progress, history
<1>12. Copies'
  BY <1>1, <1>3, <1>4, Typed DEF Copies, Follows
<1>13. \A c \in Configs, j \in EventIds :
         Opened(j, c) => Opened(j, c)' /\ (Binds(j, c) => Binds(j, c)') /\ (Sends(j, c) => Sends(j, c)')
  <2> SUFFICES ASSUME NEW c \in Configs, NEW j \in EventIds, Opened(j, c)
               PROVE  Opened(j, c)' /\ (Binds(j, c) => Binds(j, c)') /\ (Sends(j, c) => Sends(j, c)')
    OBVIOUS
  <2>1. Opened(j, c)'
    BY DEF Opened
  <2>2. workers[w].event = j => HasCurrent(w, c)'
    BY <1>1, <1>2, <1>4 DEF Opened, HasCurrent, IsConfig, EventOf
  <2>3. \A v \in Workers \ {w} : HasCurrent(v, c)' <=> HasCurrent(v, c)
    BY <1>3 DEF HasCurrent
  <2> QED
    BY <1>3, <1>4, <2>1, <2>2, <2>3 DEF Binds, Sends, Busy
<1>14. Bound'
  BY <1>5, <1>13 DEF Bound, history
<1>15. SentAgain'
  BY <1>5, <1>13 DEF SentAgain, Key
<1> QED
  BY <1>6, <1>7, <1>8, <1>9, <1>10, <1>11, <1>12, <1>14, <1>15

(* What is planned for a person is what the event owes. *)
LEMMA LoadPlanKeeps ==
  ASSUME DispatchInv, NEW w \in Workers, LoadPlan(w)
  PROVE  DispatchInv'
<1> DEFINE C == {c \in On : workers[w].only \in {NULL, c}}
<1>1. C \in SUBSET Configs
  BY DEF On
<1>2. /\ workers[w].pc = "claimed" /\ ~IsConfig(w) /\ GoOn(w, "planned", Restrict(config, C), NULL)
      /\ UNCHANGED <<config, binding, outbox, jobs, bounds, history>>
  BY DEF LoadPlan
<1> QED
  BY <1>1, <1>2, LoadKeeps

(* A bootstrap plans its configuration as it is. *)
LEMMA LoadConfigKeeps ==
  ASSUME DispatchInv, NEW w \in Workers, LoadConfig(w)
  PROVE  DispatchInv'
<1> DEFINE C == {EventOf(w).of}
<1>1. /\ workers[w].pc = "claimed" /\ IsConfig(w) /\ GoOn(w, "planned", Restrict(config, C), NULL)
      /\ UNCHANGED <<config, binding, outbox, jobs, bounds, history>>
  BY DEF LoadConfig
<1>2. C \in SUBSET Configs
  BY <1>1 DEF IsConfig
<1> QED
  BY <1>1, <1>2, LoadKeeps

(* A job that ends stays the job of its event and configuration. *)
LEMMA EndedJob ==
  ASSUME NEW k \in Job, NEW c \in Configs
  PROVE  /\ Ended(k, c) \in Job /\ Ended(k, c).event = k.event /\ Ended(k, c).config = k.config
         /\ Ended(k, c).person = k.person /\ (k.config # c => Ended(k, c) = k)
<1> DEFINE x == (k.live /\ k.config # c)
<1>1. k.live \in BOOLEAN
  BY DEF Job
<1>2. k = [event |-> k.event, config |-> k.config, person |-> k.person, live |-> k.live]
  BY DEF Job
<1>3. x \in BOOLEAN /\ (k.config # c => x = k.live)
  BY <1>1
<1>4. Ended(k, c) = [k EXCEPT !.live = x]
  BY DEF Ended
<1> HIDE DEF x
<1>5. Ended(k, c) = [event |-> k.event, config |-> k.config, person |-> k.person, live |-> x]
  BY <1>2, <1>4
<1>6. Ended(k, c) \in Job
  BY <1>3, <1>5 DEF Job
<1>7. k.config # c => Ended(k, c) = k
  BY <1>2, <1>3, <1>5
<1> QED
  BY <1>5, <1>6, <1>7

(* A binding that is written has the version of the plan, which is not     *)
(* older than the one it had unless that is recorded.                      *)
LEMMA BindingRises ==
  ASSUME DispatchInv, NEW w \in Workers, NEW c \in Configs, c \in DOMAIN workers[w].plan,
         UNCHANGED <<config, outbox, owed>>, rewound' = rewound \cup Overtaken(w, c),
         binding'[c].version = workers[w].plan[c].version,
         \A e \in Configs \ {c} : binding'[e] = binding[e],
         workers'[w].pc = "sending" => workers'[w].at = c /\ workers'[w].plan = workers[w].plan,
         \A v \in Workers \ {w} : workers'[v] = workers[v]
  PROVE  Keys'
<1> USE DEF DispatchInv
<1>1. \A e \in Configs \ rewound' : e \notin rewound /\ binding[e].version <= binding'[e].version
  BY Typed DEF Overtaken
<1>2. /\ \A e \in Configs : binding[e].version \in Nat /\ binding'[e].version \in Nat
      /\ \A v \in Versions : v \in Nat
  BY Typed DEF Versions
<1>3. \A v \in Workers : workers'[v].pc = "sending" /\ workers'[v].at \notin rewound' =>
        workers'[v].plan[workers'[v].at].version <= binding'[workers'[v].at].version
  <2> SUFFICES ASSUME NEW v \in Workers, workers'[v].pc = "sending", workers'[v].at \notin rewound'
               PROVE  workers'[v].plan[workers'[v].at].version <= binding'[workers'[v].at].version
    OBVIOUS
  <2>1. CASE v = w
    BY <1>2, <2>1
  <2>2. CASE v # w
    <3> DEFINE e == workers[v].at
    <3>1. workers'[v] = workers[v] /\ workers[v].pc = "sending" /\ e \notin rewound'
      BY <2>2
    <3>2. e \in DOMAIN workers[v].plan /\ e \in Configs /\ workers[v].plan[e].version \in Nat
      BY <3>1, Typed DEF Tasks
    <3>3. e \notin rewound /\ binding[e].version <= binding'[e].version
      BY <1>1, <3>1, <3>2
    <3>4. workers[v].plan[e].version <= binding[e].version
      BY <3>1, <3>3 DEF Keys
    <3> QED
      BY <1>2, <3>1, <3>2, <3>3, <3>4
  <2> QED
    BY <2>1, <2>2
<1>4. \A i \in EventIds, e \in Configs : \A v \in Versions : outbox[i].key = <<e, v>> =>
        (e \notin rewound' => v <= binding'[e].version)
  BY <1>1, <1>2 DEF Keys
<1>5. EventIds' = EventIds
  BY DEF EventIds
<1> QED
  BY <1>3, <1>4, <1>5 DEF Keys

(* The binding takes the copy; the jobs that end are of an older version. *)
LEMMA EnsureBindingKeeps ==
  ASSUME DispatchInv, NEW w \in Workers, NEW c \in Configs, EnsureBinding(w, c)
  PROVE  DispatchInv'
<1> DEFINE plan == workers[w].plan
           d == plan[c]
           pc == IF IsConfig(w) THEN "sending" ELSE "bound"
<1> USE DEF DispatchInv
<1>1. /\ workers[w].pc = "planned" /\ c \in DOMAIN plan /\ d.on /\ binding' = [binding EXCEPT ![c] = d]
      /\ jobs' = IF binding[c].account = d.account THEN jobs
                 ELSE {Ended(j, c) : j \in jobs}
      /\ rewound' = rewound \cup Overtaken(w, c) /\ GoOn(w, pc, plan, c)
      /\ UNCHANGED <<config, outbox, bounds, owed, absorbed>>
  BY DEF EnsureBinding, EnsuredBinding, Planned
<1>2. /\ Busy(w) /\ workers[w].event \in EventIds /\ d \in Config /\ d.version \in Nat /\ plan \in Plan
      /\ d.version <= config[c].version /\ (d.version = config[c].version => d = config[c])
  BY <1>1, Typed, WorkerFields DEF Busy, Copies
<1>3. EventIds' = EventIds /\ pc \in {"bound", "sending"}
  BY <1>1 DEF EventIds
<1>4. /\ workers' \in [Workers -> Worker]
      /\ workers'[w] = [pc |-> pc, event |-> workers[w].event, only |-> workers[w].only,
                        plan |-> plan, at |-> c]
      /\ \A v \in Workers \ {w} : workers'[v] = workers[v]
  BY <1>1, <1>2, <1>3, TaskGoesOn
<1>5. /\ workers'[w].pc = pc /\ workers'[w].event = workers[w].event
      /\ workers'[w].only = workers[w].only /\ workers'[w].plan = plan /\ workers'[w].at = c
  BY <1>4
<1>6. /\ binding' \in [Configs -> Config] /\ binding'[c] = d
      /\ \A e \in Configs \ {c} : binding'[e] = binding[e]
  BY <1>1, <1>2 DEF TypeOK
<1>7. /\ c \notin rewound' => binding[c].version <= d.version
      /\ rewound \subseteq rewound' /\ rewound' \subseteq Configs
  BY <1>1, <1>2, Typed DEF Overtaken, TypeOK
<1>8. /\ jobs' \subseteq Job
      /\ \A j \in jobs' : \E k \in jobs :
           /\ j.event = k.event /\ j.config = k.config /\ j.person = k.person
           /\ j = k \/ (k.config = c /\ binding[c].account # d.account)
      /\ \A k \in jobs : \E j \in jobs' : j.event = k.event /\ j.config = k.config
  <2>1. jobs \subseteq Job
    BY DEF TypeOK
  <2>2. CASE binding[c].account = d.account
    BY <1>1, <2>1, <2>2
  <2>3. CASE binding[c].account # d.account
    <3>1. jobs' = {Ended(j, c) : j \in jobs}
      BY <1>1, <2>3
    <3>2. \A k \in jobs : /\ Ended(k, c) \in Job /\ Ended(k, c).event = k.event /\ Ended(k, c).config = k.config
                          /\ Ended(k, c).person = k.person /\ (k.config # c => Ended(k, c) = k)
      BY <2>1, EndedJob
    <3> QED
      BY <2>3, <3>1, <3>2
  <2> QED
    BY <2>2, <2>3
<1>9. \A i : JobsOfEvent(i)' = JobsOfEvent(i)
  BY <1>8 DEF JobsOfEvent
<1> HIDE DEF plan, d, pc
<1>10. TypeOK'
  BY <1>1, <1>2, <1>3, <1>4, <1>5, <1>6, <1>7, <1>8 DEF TypeOK, bounds
<1>11. Counted' /\ Debts' /\ EachPlatformGetsAJobUnlessAbsorbed'
  BY <1>1, <1>3, <1>9 DEF Counted, Debts, On, EachPlatformGetsAJobUnlessAbsorbed, bounds
<1>12. Tasks'
  <2>1. \A v \in Workers : /\ workers'[v].event = workers[v].event
                          /\ EventOf(v)' = EventOf(v) /\ (IsConfig(v)' <=> IsConfig(v))
    BY <1>1, <1>4, <1>5 DEF IsConfig, EventOf
  <2>2. /\ pc = "bound" => ~ IsConfig(w)
        /\ pc = "sending" => IsConfig(w)
        /\ c \in DOMAIN plan /\ plan[c].on
    BY <1>1 DEF pc, d
  <2>3. /\ IsConfig(w) => DOMAIN plan \subseteq {EventOf(w).of}
        /\ ~ IsConfig(w) => \A e \in DOMAIN plan : plan[e].on
    BY <1>2 DEF Tasks, plan
  <2>4. \A v \in Workers \ {w} : Busy(v)' <=> Busy(v)
    BY <1>4 DEF Busy
  <2> QED
    BY <1>3, <1>4, <1>5, <2>1, <2>2, <2>3, <2>4 DEF Tasks
<1>13. Claims'
  BY <1>1, <1>2, <1>3, <1>4, <1>5 DEF Claims, Busy, EventOf
<1>14. Progress'
  BY <1>1, <1>4, <1>5, <1>9 DEF Progress, plan
<1>15. Copies'
  BY <1>1, <1>2, <1>4, <1>5, <1>6 DEF Copies, Follows, plan
<1>16. \A e \in Configs, i \in EventIds :
         Opened(i, e) => /\ Opened(i, e)' /\ (Sends(i, e) => Sends(i, e)')
                         /\ Binds(i, e) => Binds(i, e)' \/ (d.version = config[e].version /\ e = c)
  <2> SUFFICES ASSUME NEW e \in Configs, NEW i \in EventIds, Opened(i, e)
               PROVE  /\ Opened(i, e)' /\ (Sends(i, e) => Sends(i, e)')
                      /\ Binds(i, e) => Binds(i, e)' \/ (d.version = config[e].version /\ e = c)
    OBVIOUS
  <2>1. Opened(i, e)'
    BY <1>1 DEF Opened
  <2>2. \A v \in Workers : (HasCurrent(v, e)' <=> HasCurrent(v, e)) /\ (Busy(v)' <=> Busy(v))
                           /\ workers'[v].event = workers[v].event
    BY <1>1, <1>2, <1>3, <1>4, <1>5 DEF HasCurrent, Busy, plan
  <2>3. Sends(i, e) => Sends(i, e)'
    BY <1>1, <1>2, <1>3, <1>4, <1>5, <2>2 DEF Sends
  <2>4. ASSUME Binds(i, e), ~(d.version = config[e].version /\ e = c)
        PROVE  Binds(i, e)'
    <3>1. workers[w].event # i
      <4> SUFFICES ASSUME workers[w].event = i PROVE FALSE
        OBVIOUS
      <4>1. HasCurrent(w, e)
        BY <1>1, <1>2, <2>4 DEF Binds
      <4>2. IsConfig(w) /\ EventOf(w).of = e
        BY DEF Opened, IsConfig, EventOf
      <4>3. e = c
        BY <1>1, <1>2, <4>2 DEF Tasks, plan
      <4> QED
        BY <2>4, <4>1, <4>3 DEF HasCurrent, plan, d
    <3> QED
      BY <1>4, <2>2, <2>4, <3>1 DEF Binds
  <2> QED
    BY <2>1, <2>3, <2>4
<1>17. Bound'
  BY <1>1, <1>3, <1>6, <1>7, <1>16, <1>2, Typed DEF Bound
<1>18. SentAgain'
  BY <1>1, <1>3, <1>16 DEF SentAgain, Key
<1>19. Keys'
  BY <1>1, <1>4, <1>5, <1>6, BindingRises DEF plan, d
<1>20. Lives'
  <2> SUFFICES ASSUME NEW j \in jobs'
               PROVE  /\ j.event \in EventIds /\ j.person = outbox[j.event].of
                      /\ j.config \notin rewound' /\ config[j.config].on /\ outbox[j.event].key = Key(j.config)
                         => j.live
    BY <1>1, <1>3 DEF Lives, Key
  <2>1. PICK k \in jobs : /\ j.event = k.event /\ j.config = k.config /\ j.person = k.person
                          /\ j = k \/ (k.config = c /\ binding[c].account # d.account)
    BY <1>8
  <2>2. k.event \in EventIds /\ k.person = outbox[k.event].of /\ k.config \in Configs
    BY DEF Lives, TypeOK, Job
  <2>3. ASSUME c \notin rewound', config[c].on, outbox[j.event].key = Key(c)
        PROVE  binding[c].account = d.account
    <3>1. c \notin rewound /\ binding[c].version <= d.version
      BY <1>7, <2>3
    <3>2. config[c].version \in Versions
      BY Typed, ConfigFields
    <3>3. config[c].version <= binding[c].version
      BY <2>1, <2>2, <2>3, <3>1, <3>2 DEF Keys, Key
    <3>4. binding[c].version = config[c].version /\ d.version = config[c].version
      BY <1>2, <3>1, <3>3, Typed
    <3>5. binding[c] = config[c] /\ d = config[c]
      BY <1>2, <2>3, <3>4 DEF Copies, Follows
    <3> QED
      BY <3>5
  <2>4. CASE j = k
    BY <1>7, <2>2, <2>4 DEF Lives
  <2>5. CASE k.config = c /\ binding[c].account # d.account
    BY <2>1, <2>2, <2>3, <2>5
  <2> QED
    BY <2>1, <2>4, <2>5
<1> QED
  BY <1>10, <1>11, <1>12, <1>13, <1>14, <1>15, <1>17, <1>18, <1>19, <1>20

(* What is left of a plan without c. *)
LEMMA PlanWithout ==
  ASSUME TypeOK, NEW w \in Workers, NEW c \in Configs, Busy(w), Unplanned(w, c)
  PROVE  /\ workers' \in [Workers -> Worker]
         /\ workers'[w].pc = "planned" /\ workers'[w].event = workers[w].event
         /\ workers'[w].only = workers[w].only
         /\ DOMAIN workers'[w].plan = DOMAIN workers[w].plan \ {c}
         /\ \A e \in DOMAIN workers'[w].plan : workers'[w].plan[e] = workers[w].plan[e]
         /\ \A v \in Workers \ {w} : workers'[v] = workers[v]
<1> DEFINE plan == workers[w].plan
           rest == Restrict(plan, DOMAIN plan \ {c})
<1>1. plan \in Plan /\ DOMAIN plan \subseteq Configs /\ \A e \in DOMAIN plan : plan[e] \in Config
  BY Typed, WorkerFields
<1>2. DOMAIN rest = DOMAIN plan \ {c} /\ \A e \in DOMAIN rest : rest[e] = plan[e]
  BY DEF Restrict
<1>3. rest = [e \in DOMAIN rest |-> rest[e]]
  BY DEF Restrict
<1>4. GoOn(w, "planned", rest, NULL)
  BY DEF Unplanned
<1> HIDE DEF rest
<1>5. rest \in Plan
  BY <1>1, <1>2, <1>3, PlanFields
<1>6. /\ workers'[w] = [pc |-> "planned", event |-> workers[w].event, only |-> workers[w].only,
                        plan |-> rest, at |-> NULL]
      /\ \A v \in Workers \ {w} : workers'[v] = workers[v]
      /\ workers' \in [Workers -> Worker]
  BY <1>4, <1>5, TaskGoesOn
<1> QED
  BY <1>2, <1>6

(* What taking c from the plan of a task leaves as it was. *)
LEMMA UnplannedKeeps ==
  ASSUME DispatchInv, NEW w \in Workers, NEW c \in DOMAIN workers[w].plan, Busy(w), Unplanned(w, c),
         UNCHANGED config, EventIds \subseteq EventIds', outbox' \in Seq(Event),
         \A i \in EventIds : outbox'[i] = outbox[i]
  PROVE  /\ Tasks' /\ Claims'
         /\ \A v \in Workers : workers'[v].pc # "idle" => workers'[v].event \in EventIds'
         /\ \A v \in Workers : \A e \in DOMAIN workers'[v].plan :
              /\ workers'[v].plan[e].version <= config[e].version
              /\ workers'[v].plan[e].version = config[e].version => workers'[v].plan[e] = config[e]
         /\ \A e \in Configs, i \in EventIds :
              Opened(i, e) => /\ Opened(i, e)' /\ (Binds(i, e) => Binds(i, e)' \/ workers[w].event = i)
                              /\ Sends(i, e) => Sends(i, e)' \/ workers[w].event = i
<1> USE DEF DispatchInv
<1>0. c \in Configs
  BY Typed
<1>1. /\ workers' \in [Workers -> Worker]
      /\ workers'[w].pc = "planned" /\ workers'[w].event = workers[w].event
      /\ workers'[w].only = workers[w].only
      /\ DOMAIN workers'[w].plan = DOMAIN workers[w].plan \ {c}
      /\ \A e \in DOMAIN workers'[w].plan : workers'[w].plan[e] = workers[w].plan[e]
      /\ \A v \in Workers \ {w} : workers'[v] = workers[v]
  BY <1>0, PlanWithout
<1>2. \A v \in Workers : /\ Busy(v)' <=> Busy(v)
                         /\ workers'[v].event = workers[v].event /\ workers'[v].only = workers[v].only
                         /\ Busy(v) => workers[v].event \in EventIds /\ EventOf(v)' = EventOf(v)
  BY <1>1, Typed DEF Busy, EventOf
<1>3. Tasks'
  BY <1>1, <1>2 DEF Tasks, IsConfig, Busy
<1>4. Claims'
  BY <1>1, <1>2 DEF Claims
<1>5. \A v \in Workers : workers'[v].pc # "idle" => workers'[v].event \in EventIds'
  BY <1>2 DEF Busy
<1>6. \A v \in Workers : \A e \in DOMAIN workers'[v].plan :
        /\ workers'[v].plan[e].version <= config[e].version
        /\ workers'[v].plan[e].version = config[e].version => workers'[v].plan[e] = config[e]
  BY <1>1 DEF Copies
<1>7. ASSUME NEW e \in Configs, NEW i \in EventIds, Opened(i, e)
      PROVE  /\ Opened(i, e)' /\ (Binds(i, e) => Binds(i, e)' \/ workers[w].event = i)
             /\ Sends(i, e) => Sends(i, e)' \/ workers[w].event = i
  <2>1. Opened(i, e)'
    BY <1>7 DEF Opened
  <2>2. \A v \in Workers \ {w} : HasCurrent(v, e)' <=> HasCurrent(v, e)
    BY <1>1 DEF HasCurrent
  <2> QED
    BY <1>1, <1>2, <2>1, <2>2 DEF Binds, Sends
<1> QED
  BY <1>3, <1>4, <1>5, <1>6, <1>7

(* What is taken from the plan has a job. *)
LEMMA EnqueueJobKeeps ==
  ASSUME DispatchInv, NEW w \in Workers, EnqueueJob(w)
  PROVE  DispatchInv'
<1> DEFINE c == workers[w].at
           i == workers[w].event
           job == [event |-> i, config |-> c, person |-> EventOf(w).of, live |-> TRUE]
<1> USE DEF DispatchInv
<1>1. /\ workers[w].pc = "bound" /\ Unplanned(w, c)
      /\ UNCHANGED <<config, binding, outbox, bounds, history>>
      /\ jobs' = IF \E j \in jobs : j.event = i /\ j.config = c THEN jobs ELSE jobs \cup {job}
  BY DEF EnqueueJob
<1>2. /\ Busy(w) /\ i \in EventIds /\ i \in Nat /\ c \in DOMAIN workers[w].plan /\ c \in Configs
      /\ EventOf(w).of \in People /\ EventOf(w).of \notin Configs
  BY <1>1, Typed DEF Busy, Tasks, IsConfig, EventOf
<1>3. EventIds' = EventIds /\ outbox' \in Seq(Event)
  BY <1>1 DEF EventIds, TypeOK
<1>4. /\ job \in Job /\ job.event = i /\ job.config = c /\ job.person = outbox[i].of /\ job.live
  BY <1>2 DEF Job, EventOf
<1> HIDE DEF job
<1>5. /\ jobs' \subseteq Job /\ \A j \in jobs' : j \in jobs \/ j = job
      /\ jobs \subseteq jobs' /\ \E j \in jobs' : j.event = i /\ j.config = c
  BY <1>1, <1>4 DEF TypeOK
<1>6. /\ \A k : JobsOfEvent(k) \subseteq JobsOfEvent(k)'
      /\ \A k, e : (\E j \in jobs' : j.event = k /\ j.config = e) => e \in JobsOfEvent(k)'
  <2>1. \A k, e : e \in JobsOfEvent(k)' <=> \E j \in jobs' : j.event = k /\ j.config = e
    BY DEF JobsOfEvent
  <2>2. \A k, e : e \in JobsOfEvent(k) <=> \E j \in jobs : j.event = k /\ j.config = e
    BY DEF JobsOfEvent
  <2>3. \A k : JobsOfEvent(k) \subseteq JobsOfEvent(k)'
    BY <1>5, <2>1, <2>2
  <2> QED
    BY <2>1, <2>3
<1>7. /\ workers' \in [Workers -> Worker]
      /\ workers'[w].pc = "planned" /\ workers'[w].event = workers[w].event
      /\ DOMAIN workers'[w].plan = DOMAIN workers[w].plan \ {c}
      /\ \A v \in Workers \ {w} : workers'[v] = workers[v]
  BY <1>1, <1>2, PlanWithout
<1>8. /\ Tasks' /\ Claims'
      /\ \A v \in Workers : workers'[v].pc # "idle" => workers'[v].event \in EventIds'
      /\ \A v \in Workers : \A e \in DOMAIN workers'[v].plan :
           /\ workers'[v].plan[e].version <= config[e].version
           /\ workers'[v].plan[e].version = config[e].version => workers'[v].plan[e] = config[e]
      /\ \A e \in Configs, j \in EventIds :
           Opened(j, e) => /\ Opened(j, e)' /\ (Binds(j, e) => Binds(j, e)' \/ workers[w].event = j)
                           /\ Sends(j, e) => Sends(j, e)' \/ workers[w].event = j
  BY <1>1, <1>2, <1>3, UnplannedKeeps
<1> HIDE DEF c, i
<1>9. TypeOK'
  BY <1>1, <1>3, <1>5, <1>7, <1>8 DEF TypeOK, bounds, history
<1>10. Counted' /\ Debts' /\ EachPlatformGetsAJobUnlessAbsorbed'
  BY <1>1, <1>3, <1>6 DEF Counted, Debts, On, EachPlatformGetsAJobUnlessAbsorbed, bounds, history
<1>11. Progress'
  <2>1. i \notin absorbed => owed[i] \subseteq JobsOfEvent(i) \cup DOMAIN workers[w].plan
    BY <1>1 DEF Progress, i
  <2> QED
    BY <1>1, <1>5, <1>6, <1>7, <2>1 DEF Progress, history, i
<1>12. Copies'
  BY <1>1, <1>8 DEF Copies, Follows
<1>13. \A e \in Configs, j \in EventIds :
         Opened(j, e) => Opened(j, e)' /\ (Binds(j, e) => Binds(j, e)') /\ (Sends(j, e) => Sends(j, e)')
  BY <1>2, <1>8 DEF Opened, EventOf, i
<1>14. Bound'
  BY <1>1, <1>3, <1>13 DEF Bound, history
<1>15. SentAgain'
  BY <1>1, <1>3, <1>13 DEF SentAgain, Key
<1>16. Keys'
  BY <1>1, <1>3, <1>7 DEF Keys, history
<1>17. Lives'
  BY <1>1, <1>2, <1>3, <1>4, <1>5 DEF Lives, Key, history
<1> QED
  BY <1>8, <1>9, <1>10, <1>11, <1>12, <1>14, <1>15, <1>16, <1>17

(* Only the bootstrap of a configuration disables its binding. *)
LEMMA DisableBindingKeeps ==
  ASSUME DispatchInv, NEW w \in Workers, NEW c \in Configs, DisableBinding(w, c)
  PROVE  DispatchInv'
<1> DEFINE d == workers[w].plan[c]
           copy == [binding[c] EXCEPT !.on = FALSE, !.version = d.version]
<1> USE DEF DispatchInv
<1>1. /\ workers[w].pc = "planned" /\ c \in DOMAIN workers[w].plan /\ ~d.on
      /\ binding' = [binding EXCEPT ![c] = copy]
      /\ rewound' = rewound \cup Overtaken(w, c) /\ Unplanned(w, c)
      /\ UNCHANGED <<config, outbox, jobs, bounds, owed, absorbed>>
  BY DEF DisableBinding, Planned
<1>2. /\ Busy(w) /\ workers[w].event \in EventIds /\ d \in Config
      /\ d.version <= config[c].version /\ (d.version = config[c].version => d = config[c])
  BY <1>1, Typed DEF Busy, Copies
<1>3. copy \in Config /\ copy.on = FALSE /\ copy.version = d.version
  <2> DEFINE r1 == [binding[c] EXCEPT !.on = FALSE]
  <2>1. r1 \in Config /\ r1.on = FALSE
    BY DEF TypeOK, Config
  <2> HIDE DEF r1
  <2>2. [r1 EXCEPT !.version = d.version] \in Config /\ [r1 EXCEPT !.version = d.version].on = FALSE
        /\ [r1 EXCEPT !.version = d.version].version = d.version
    BY <1>2, <2>1, ConfigFields DEF Config
  <2>3. copy = [r1 EXCEPT !.version = d.version]
    BY DEF r1
  <2> QED
    BY <2>2, <2>3
<1> HIDE DEF copy
<1>4. /\ binding' \in [Configs -> Config] /\ binding'[c] = copy
      /\ \A e \in Configs \ {c} : binding'[e] = binding[e]
  BY <1>1, <1>3 DEF TypeOK
<1>5. EventIds' = EventIds /\ outbox' \in Seq(Event) /\ IsConfig(w) /\ EventOf(w).of = c
  BY <1>1, <1>2 DEF EventIds, TypeOK, Tasks
<1>6. /\ workers' \in [Workers -> Worker]
      /\ workers'[w].pc = "planned" /\ workers'[w].event = workers[w].event
      /\ DOMAIN workers'[w].plan = DOMAIN workers[w].plan \ {c}
      /\ \A v \in Workers \ {w} : workers'[v] = workers[v]
  BY <1>1, <1>2, PlanWithout
<1>7. /\ Tasks' /\ Claims'
      /\ \A v \in Workers : workers'[v].pc # "idle" => workers'[v].event \in EventIds'
      /\ \A v \in Workers : \A e \in DOMAIN workers'[v].plan :
           /\ workers'[v].plan[e].version <= config[e].version
           /\ workers'[v].plan[e].version = config[e].version => workers'[v].plan[e] = config[e]
      /\ \A e \in Configs, j \in EventIds :
           Opened(j, e) => /\ Opened(j, e)' /\ (Binds(j, e) => Binds(j, e)' \/ workers[w].event = j)
                           /\ Sends(j, e) => Sends(j, e)' \/ workers[w].event = j
  BY <1>1, <1>2, <1>5, UnplannedKeeps
<1>8. /\ c \notin rewound' => binding[c].version <= d.version
      /\ rewound \subseteq rewound' /\ rewound' \subseteq Configs
  BY <1>1, <1>2, Typed DEF Overtaken, TypeOK
<1>9. TypeOK'
  BY <1>1, <1>4, <1>5, <1>6, <1>7, <1>8 DEF TypeOK, bounds
<1>10. Counted' /\ Debts' /\ EachPlatformGetsAJobUnlessAbsorbed'
  BY <1>1, <1>5 DEF Counted, Debts, On, EachPlatformGetsAJobUnlessAbsorbed, JobsOfEvent, bounds
<1>11. Progress'
  <2>1. owed[workers[w].event] = {}
    BY <1>2, <1>5 DEF Debts, EventOf
  <2>2. \A k : JobsOfEvent(k)' = JobsOfEvent(k)
    BY <1>1 DEF JobsOfEvent
  <2> QED
    BY <1>1, <1>6, <2>1, <2>2 DEF Progress
<1>12. Copies'
  <2>1. \A e \in Configs : /\ binding'[e].version <= config[e].version
                           /\ binding'[e].version = config[e].version => Follows(e)'
    <3>1. CASE d.version = config[c].version
      <4>1. d = config[c] /\ config[c].on = FALSE
        BY <1>1, <1>2, <3>1, ConfigFields
      <4> QED
        BY <1>1, <1>3, <1>4, <3>1, <4>1 DEF Copies, Follows
    <3>2. CASE d.version # config[c].version
      BY <1>1, <1>2, <1>3, <1>4, <3>2 DEF Copies, Follows
    <3> QED
      BY <3>1, <3>2
  <2> QED
    BY <1>1, <1>7, <2>1 DEF Copies
<1>13. Bound'
  <2> SUFFICES ASSUME NEW e \in Configs \ rewound'
               PROVE  binding'[e].version = config[e].version \/ \E i \in EventIds : Opened(i, e)' /\ Binds(i, e)'
    BY <1>1, <1>5 DEF Bound
  <2>1. CASE binding[e].version = config[e].version
    <3>1. CASE e = c
      <4>1. binding[c].version \in Nat /\ d.version \in Nat /\ config[c].version \in Nat
        BY <1>2, Typed, ConfigFields
      <4>2. d.version = config[c].version
        BY <1>2, <1>8, <2>1, <3>1, <4>1
      <4> QED
        BY <1>3, <1>4, <3>1, <4>2
    <3>2. CASE e # c
      BY <1>4, <2>1, <3>2
    <3> QED
      BY <3>1, <3>2
  <2>2. CASE \E i \in EventIds : Opened(i, e) /\ Binds(i, e)
    <3>1. PICK i \in EventIds : Opened(i, e) /\ Binds(i, e)
      BY <2>2
    <3>2. CASE workers[w].event = i
      BY <1>1, <1>2, <1>3, <1>4, <1>5, <3>1, <3>2 DEF Opened, Binds, HasCurrent, EventOf
    <3>3. CASE workers[w].event # i
      BY <1>7, <3>1, <3>3
    <3> QED
      BY <3>2, <3>3
  <2> QED
    BY <1>8, <2>1, <2>2 DEF Bound
<1>14. SentAgain'
  <2>1. \A e \in Configs : config[e].on => \A i \in EventIds :
          Opened(i, e) /\ Sends(i, e) => Opened(i, e)' /\ Sends(i, e)'
    <3> SUFFICES ASSUME NEW e \in Configs, config[e].on, NEW i \in EventIds, Opened(i, e), Sends(i, e)
                 PROVE  Opened(i, e)' /\ Sends(i, e)'
      OBVIOUS
    <3>1. workers[w].event # i
      BY <1>1, <1>2, <1>5 DEF Opened, Sends, HasCurrent, EventOf
    <3> QED
      BY <1>7, <3>1
  <2>2. \A e \in Configs : Key(e)' = Key(e)
    BY <1>1 DEF Key
  <2> SUFFICES ASSUME NEW e \in Configs, config[e].on, config[e].version > 1
               PROVE  \/ \A p \in People : \E i \in EventIds : outbox[i].of = p /\ outbox[i].key = Key(e)
                      \/ \E i \in EventIds : Opened(i, e)' /\ Sends(i, e)'
    BY <1>1, <1>5, <2>2 DEF SentAgain
  <2> QED
    BY <2>1 DEF SentAgain
<1>15. Keys'
  BY <1>1, <1>3, <1>4, <1>6, BindingRises
<1>16. Lives'
  BY <1>1, <1>5, <1>8 DEF Lives, Key
<1> QED
  BY <1>7, <1>9, <1>10, <1>11, <1>12, <1>13, <1>14, <1>15, <1>16

(* The sequence of a finite set has all its elements. *)
LEMMA SetToSeqIsOnto ==
  ASSUME NEW S, IsFiniteSet(S)
  PROVE  /\ SetToSeq(S) \in Seq(S) /\ Len(SetToSeq(S)) = Cardinality(S)
         /\ \A x \in S : \E i \in 1..Len(SetToSeq(S)) : SetToSeq(S)[i] = x
<1>1. Cardinality(S) \in Nat /\ ExistsBijection(1..Cardinality(S), S)
  BY FS_CardinalityType
<1>2. PICK f : f \in Bijection(1..Cardinality(S), S)
  BY <1>1 DEF ExistsBijection
<1>3. f \in [1..Cardinality(S) -> S] /\ IsInjective(f)
  BY <1>2 DEF Bijection, Injection, IsInjective, Surjection
<1>4. SetToSeq(S) \in [1..Cardinality(S) -> S] /\ IsInjective(SetToSeq(S))
  BY <1>3 DEF SetToSeq
<1>5. SetToSeq(S) \in Injection(1..Cardinality(S), S)
  BY <1>4 DEF Injection, IsInjective
<1>6. IsFiniteSet(1..Cardinality(S)) /\ Cardinality(1..Cardinality(S)) = Cardinality(S)
  BY <1>1, FS_Interval
<1>7. SetToSeq(S) \in Surjection(1..Cardinality(S), S)
  BY <1>5, <1>6, FS_Injection
<1> QED
  BY <1>1, <1>4, <1>7, SeqIsFunction DEF Surjection

(* An event that is put into the outbox. *)
LEMMA NewEventFields ==
  ASSUME NEW x \in Configs \cup People, NEW only \in Configs \cup {NULL},
         NEW key \in (Configs \X Versions) \cup {NULL}
  PROVE  /\ NewEvent(x, only, key) \in Event /\ NewEvent(x, only, key).of = x
         /\ NewEvent(x, only, key).only = only /\ NewEvent(x, only, key).key = key
         /\ NewEvent(x, only, key).status = "pending"
BY DEF NewEvent, Event

(* Everybody gets the event of the version, once. *)
LEMMA SendAgainNotes ==
  ASSUME DispatchInv, NEW w \in Workers, NEW c \in Configs, c = workers[w].at,
         NEW key \in Configs \X Versions, SendAgain(w, key)
  PROVE  /\ outbox' \in Seq(Event) /\ EventIds \subseteq EventIds'
         /\ owed' \in [EventIds' -> SUBSET Configs]
         /\ \A i \in EventIds : outbox'[i] = outbox[i] /\ owed'[i] = owed[i]
         /\ \A i \in EventIds' \ EventIds :
              /\ outbox'[i].of \in People /\ outbox'[i].only = c /\ outbox'[i].key = key
              /\ outbox'[i].status = "pending" /\ owed'[i] = {c} \cap On
         /\ \A p \in People : \E i \in EventIds' : outbox'[i].of = p /\ outbox'[i].key = key
<1> DEFINE unsent == {p \in People : \A i \in EventIds : outbox[i].of = p => outbox[i].key # key}
           s == SetToSeq(unsent)
           more == [k \in DOMAIN s |-> NewEvent(s[k], c, key)]
           owes == [k \in DOMAIN s |-> {c} \cap On]
<1> USE DEF DispatchInv
<1>1. outbox' = outbox \o more /\ owed' = owed \o owes
  BY DEF SendAgain
<1>2. IsFiniteSet(unsent)
  BY PeopleAssumption, FS_Subset
<1>3. s \in Seq(unsent) /\ Len(s) \in Nat /\ DOMAIN s = 1..Len(s)
      /\ \A x \in unsent : \E i \in 1..Len(s) : s[i] = x
  <2> HIDE DEF unsent
  <2> QED
    BY <1>2, SetToSeqIsOnto, LenProperties
<1>4. \A k \in DOMAIN s : s[k] \in People
  BY <1>3, ElementOfSeq
<1> HIDE DEF s
<1>5. \A k \in DOMAIN s : /\ more[k] \in Event /\ more[k].of = s[k] /\ more[k].only = c /\ more[k].key = key
                          /\ more[k].status = "pending"
  BY <1>4, NewEventFields
<1>6. more \in Seq(Event) /\ Len(more) = Len(s)
  <2>1. more \in [1..Len(s) -> Event]
    BY <1>3, <1>5
  <2> QED
    BY <1>3, <2>1, SeqIsFunction
<1>7. owes \in Seq(SUBSET Configs) /\ Len(owes) = Len(s)
  <2>1. owes \in [1..Len(s) -> SUBSET Configs]
    BY <1>3 DEF On
  <2> QED
    BY <1>3, <2>1, SeqIsFunction
<1>8. /\ outbox \in Seq(Event) /\ Len(outbox) \in Nat /\ EventIds = 1..Len(outbox)
      /\ owed \in Seq(SUBSET Configs) /\ Len(owed) = Len(outbox)
  <2>1. Len(outbox) \in Nat /\ EventIds = 1..Len(outbox)
    BY Typed
  <2>2. owed \in [1..Len(outbox) -> SUBSET Configs]
    BY <2>1 DEF TypeOK
  <2> QED
    BY <2>1, <2>2, SeqIsFunction DEF TypeOK
<1> DEFINE n == Len(outbox)
<1>9. /\ outbox' \in Seq(Event) /\ Len(outbox') = n + Len(s)
      /\ owed' \in Seq(SUBSET Configs) /\ Len(owed') = n + Len(s)
      /\ \A i \in 1..n : outbox'[i] = outbox[i] /\ owed'[i] = owed[i]
      /\ \A k \in 1..Len(s) : outbox'[n + k] = more[k] /\ owed'[n + k] = {c} \cap On
  <2> HIDE DEF more
  <2>1. \A k \in 1..Len(s) : owes[k] = {c} \cap On
    BY <1>3
  <2> HIDE DEF owes
  <2>2. /\ outbox' \in Seq(Event) /\ Len(outbox') = n + Len(s)
        /\ owed' \in Seq(SUBSET Configs) /\ Len(owed') = n + Len(s)
    <3>1. outbox' \in Seq(Event) /\ Len(outbox') = n + Len(s)
      <4>1. outbox \o more \in Seq(Event) /\ Len(outbox \o more) = Len(outbox) + Len(more)
        BY <1>6, <1>8, ConcatProperties
      <4> QED
        BY <1>1, <1>6, <4>1
    <3>2. owed' \in Seq(SUBSET Configs) /\ Len(owed') = n + Len(s)
      <4>1. owed \o owes \in Seq(SUBSET Configs) /\ Len(owed \o owes) = Len(owed) + Len(owes)
        BY <1>7, <1>8, ConcatProperties
      <4> QED
        BY <1>1, <1>7, <1>8, <4>1
    <3> QED
      BY <3>1, <3>2
  <2>3. \A i \in 1..(n + Len(s)) : /\ outbox'[i] = IF i <= n THEN outbox[i] ELSE more[i - n]
                                   /\ owed'[i] = IF i <= n THEN owed[i] ELSE owes[i - n]
    BY <1>1, <1>3, <1>6, <1>7, <1>8, ConcatProperties
  <2>4. \A i \in 1..n : outbox'[i] = outbox[i] /\ owed'[i] = owed[i]
    BY <1>3, <1>8, <2>3
  <2>5. \A k \in 1..Len(s) : outbox'[n + k] = more[k] /\ owed'[n + k] = owes[k]
    <3> TAKE k \in 1..Len(s)
    <3> HIDE DEF n
    <3>1. n \in Nat
      BY <1>8 DEF n
    <3>2. n + k \in 1..(n + Len(s)) /\ ~(n + k <= n) /\ (n + k) - n = k
      BY <1>3, <3>1
    <3> QED
      BY <2>3, <3>2
  <2> QED
    BY <2>1, <2>2, <2>4, <2>5
<1>10. EventIds' = 1..(n + Len(s)) /\ owed' \in [EventIds' -> SUBSET Configs]
  BY <1>9, LenProperties DEF EventIds
<1>11. \A i \in EventIds' \ EventIds : \E k \in 1..Len(s) : i = n + k
  <2> TAKE i \in EventIds' \ EventIds
  <2>1. i - n \in 1..Len(s) /\ i = n + (i - n)
    BY <1>3, <1>8, <1>10
  <2> QED
    BY <2>1
<1>12. \A i \in EventIds' \ EventIds :
         /\ outbox'[i].of \in People /\ outbox'[i].only = c /\ outbox'[i].key = key
         /\ outbox'[i].status = "pending" /\ owed'[i] = {c} \cap On
  <2> TAKE i \in EventIds' \ EventIds
  <2>1. PICK k \in 1..Len(s) : i = n + k
    BY <1>11
  <2>2. k \in DOMAIN s /\ outbox'[i] = more[k] /\ owed'[i] = {c} \cap On
    BY <1>3, <1>9, <2>1
  <2> HIDE DEF more
  <2> QED
    BY <1>4, <1>5, <2>2
<1>13. \A p \in People : \E i \in EventIds' : outbox'[i].of = p /\ outbox'[i].key = key
  <2> SUFFICES ASSUME NEW p \in People
               PROVE  \E i \in EventIds' : outbox'[i].of = p /\ outbox'[i].key = key
    OBVIOUS
  <2>1. CASE p \in unsent
    <3>1. PICK k \in 1..Len(s) : s[k] = p
      BY <1>3, <2>1
    <3>2. n + k \in EventIds'
      BY <1>3, <1>8, <1>10
    <3>3. k \in DOMAIN s /\ outbox'[n + k] = more[k]
      BY <1>3, <1>9
    <3> HIDE DEF more
    <3> QED
      BY <1>5, <3>1, <3>2, <3>3
  <2>2. CASE p \notin unsent
    <3>1. PICK i \in EventIds : outbox[i].of = p /\ outbox[i].key = key
      BY <2>2
    <3>2. i \in EventIds' /\ outbox'[i] = outbox[i]
      BY <1>3, <1>8, <1>9, <1>10
    <3> QED
      BY <3>1, <3>2
  <2> QED
    BY <2>1, <2>2
<1>14. EventIds \subseteq EventIds' /\ \A i \in EventIds : outbox'[i] = outbox[i] /\ owed'[i] = owed[i]
  BY <1>3, <1>8, <1>9, <1>10
<1> QED
  BY <1>9, <1>10, <1>12, <1>13, <1>14

(* What is taken from the plan of a bootstrap has its events. *)
LEMMA EnqueueBootstrapEventsKeeps ==
  ASSUME DispatchInv, NEW w \in Workers, EnqueueBootstrapEvents(w)
  PROVE  DispatchInv'
<1> DEFINE c == workers[w].at
           v == workers[w].plan[c].version
           key == <<c, v>>
<1> USE DEF DispatchInv
<1>1. /\ workers[w].pc = "sending" /\ SendAgain(w, key) /\ Unplanned(w, c)
      /\ UNCHANGED <<config, binding, jobs, bounds, absorbed, rewound>>
  BY DEF EnqueueBootstrapEvents, SendAgain
<1>2. /\ Busy(w) /\ workers[w].event \in EventIds /\ IsConfig(w) /\ c \in DOMAIN workers[w].plan
      /\ c \in Configs /\ EventOf(w).of = c
  BY <1>1, Typed DEF Busy, Tasks, IsConfig
<1>3. v \in Versions /\ v <= config[c].version /\ (c \notin rewound => v <= binding[c].version)
  BY <1>1, <1>2, Typed, ConfigFields DEF Copies, Keys
<1>4. /\ outbox' \in Seq(Event) /\ EventIds \subseteq EventIds'
      /\ owed' \in [EventIds' -> SUBSET Configs]
      /\ \A i \in EventIds : outbox'[i] = outbox[i] /\ owed'[i] = owed[i]
      /\ \A i \in EventIds' \ EventIds :
           /\ outbox'[i].of \in People /\ outbox'[i].only = c /\ outbox'[i].key = key
           /\ outbox'[i].status = "pending" /\ owed'[i] = {c} \cap On
      /\ \A p \in People : \E i \in EventIds' : outbox'[i].of = p /\ outbox'[i].key = key
  <2>1. c = workers[w].at
    OBVIOUS
  <2>2. key \in Configs \X Versions
    BY <1>2, <1>3
  <2> HIDE DEF c, v, key, DispatchInv
  <2> QED
    BY <1>1, <1>2, <2>1, <2>2, SendAgainNotes
<1>5. /\ workers' \in [Workers -> Worker]
      /\ workers'[w].pc = "planned" /\ workers'[w].event = workers[w].event
      /\ DOMAIN workers'[w].plan = DOMAIN workers[w].plan \ {c}
      /\ \A u \in Workers \ {w} : workers'[u] = workers[u]
  BY <1>1, <1>2, PlanWithout
<1>6. /\ Tasks' /\ Claims'
      /\ \A u \in Workers : workers'[u].pc # "idle" => workers'[u].event \in EventIds'
      /\ \A u \in Workers : \A e \in DOMAIN workers'[u].plan :
           /\ workers'[u].plan[e].version <= config[e].version
           /\ workers'[u].plan[e].version = config[e].version => workers'[u].plan[e] = config[e]
      /\ \A e \in Configs, i \in EventIds :
           Opened(i, e) => /\ Opened(i, e)' /\ (Binds(i, e) => Binds(i, e)' \/ workers[w].event = i)
                           /\ Sends(i, e) => Sends(i, e)' \/ workers[w].event = i
  BY <1>1, <1>2, <1>4, UnplannedKeeps
<1>7. \A k : JobsOfEvent(k)' = JobsOfEvent(k)
  BY <1>1 DEF JobsOfEvent
<1> HIDE DEF c, v, key
<1>8. TypeOK'
  BY <1>1, <1>4, <1>5, <1>6 DEF TypeOK, bounds
<1>9. Counted'
  BY <1>1 DEF Counted, bounds
<1>10. Debts'
  <2>1. On' = On
    BY <1>1 DEF On
  <2> QED
    BY <1>1, <1>2, <1>4, <2>1, PeopleAssumption DEF Debts
<1>11. EachPlatformGetsAJobUnlessAbsorbed'
  BY <1>1, <1>4, <1>7 DEF EachPlatformGetsAJobUnlessAbsorbed
<1>12. Progress'
  <2>1. owed[workers[w].event] = {}
    BY <1>2 DEF Debts, EventOf
  <2> QED
    <3> SUFFICES ASSUME NEW u \in Workers, workers'[u].pc \in {"planned", "bound", "sending"},
                        workers'[u].event \notin absorbed
                 PROVE  owed'[workers'[u].event] \subseteq
                          JobsOfEvent(workers'[u].event) \cup DOMAIN workers'[u].plan
      BY <1>1, <1>7 DEF Progress
    <3>1. CASE u = w
      BY <1>2, <1>4, <1>5, <2>1, <3>1
    <3>2. CASE u # w
      <4>1. workers'[u] = workers[u] /\ workers[u].event \in EventIds
        BY <1>5, <3>2, Typed DEF Busy
      <4>2. owed'[workers[u].event] = owed[workers[u].event]
        BY <1>4, <4>1
      <4> QED
        BY <4>1, <4>2 DEF Progress
    <3> QED
      BY <3>1, <3>2
<1>13. Copies'
  BY <1>1, <1>6 DEF Copies, Follows
<1>14. Bound'
  <2>1. \A e \in Configs, i \in EventIds : Opened(i, e) /\ Binds(i, e) => Opened(i, e)' /\ Binds(i, e)'
    BY <1>1, <1>2, <1>6 DEF Binds
  <2> QED
    BY <1>1, <1>4, <2>1 DEF Bound
<1>15. SentAgain'
  <2> SUFFICES ASSUME NEW e \in Configs, config[e].on, config[e].version > 1
               PROVE  \/ \A p \in People : \E i \in EventIds' : outbox'[i].of = p /\ outbox'[i].key = Key(e)
                      \/ \E i \in EventIds' : Opened(i, e)' /\ Sends(i, e)'
    BY <1>1 DEF SentAgain, Key
  <2>1. CASE \A p \in People : \E i \in EventIds : outbox[i].of = p /\ outbox[i].key = Key(e)
    BY <1>4, <2>1
  <2>2. CASE \E i \in EventIds : Opened(i, e) /\ Sends(i, e)
    <3>1. PICK i \in EventIds : Opened(i, e) /\ Sends(i, e)
      BY <2>2
    <3>2. CASE workers[w].event # i
      BY <1>4, <1>6, <3>1, <3>2
    <3>3. CASE workers[w].event = i
      <4>1. e = c /\ HasCurrent(w, e)
        BY <1>1, <1>2, <3>1, <3>3 DEF Opened, Sends, EventOf
      <4>2. Key(e) = key
        BY <4>1 DEF Key, HasCurrent, v, key
      <4>3. \A p \in People : \E j \in EventIds' : outbox'[j].of = p /\ outbox'[j].key = Key(e)
        BY <1>4, <4>2
      <4> QED
        BY <4>3
    <3> QED
      BY <3>2, <3>3
  <2> QED
    BY <2>1, <2>2 DEF SentAgain
<1>16. Keys'
  <2>1. \A u \in Workers : workers'[u].pc = "sending" /\ workers'[u].at \notin rewound =>
          workers'[u].plan[workers'[u].at].version <= binding[workers'[u].at].version
    BY <1>5 DEF Keys
  <2>2. \A i \in EventIds', e \in Configs : \A u \in Versions : outbox'[i].key = <<e, u>> =>
          /\ u <= config[e].version
          /\ e \notin rewound => u <= binding[e].version
          /\ u = config[e].version /\ config[e].on => e \in owed'[i]
    <3> SUFFICES ASSUME NEW i \in EventIds', NEW e \in Configs, NEW u \in Versions, outbox'[i].key = <<e, u>>
                 PROVE  /\ u <= config[e].version
                        /\ e \notin rewound => u <= binding[e].version
                        /\ u = config[e].version /\ config[e].on => e \in owed'[i]
      OBVIOUS
    <3>1. CASE i \in EventIds
      BY <1>4, <3>1 DEF Keys
    <3>2. CASE i \notin EventIds
      <4>1. e = c /\ u = v /\ owed'[i] = {c} \cap On
        BY <1>4, <3>2 DEF key
      <4> QED
        BY <1>2, <1>3, <4>1 DEF On
    <3> QED
      BY <3>1, <3>2
  <2> QED
    BY <1>1, <2>1, <2>2 DEF Keys
<1>17. Lives'
  BY <1>1, <1>4 DEF Lives, Key
<1> QED
  BY <1>6, <1>8, <1>9, <1>10, <1>11, <1>12, <1>13, <1>14, <1>15, <1>16, <1>17

(* An event that a task is done with.  It is complete only when nothing is *)
(* left of its plan.                                                       *)
LEMMA FinishedKeeps ==
  ASSUME DispatchInv, NEW w \in Workers, Busy(w),
         NEW s \in {"pending", "completed", "failed"}, Finished(w, s), UNCHANGED <<writes, edits>>,
         extras' \in 0..MaxExtras,
         s = "completed" => workers[w].pc = "planned" /\ DOMAIN workers[w].plan = {}
  PROVE  DispatchInv'
<1> DEFINE i == workers[w].event
<1> USE DEF DispatchInv
<1>1. /\ outbox' = [outbox EXCEPT ![i].status = s] /\ workers' = [workers EXCEPT ![w] = Idle]
      /\ UNCHANGED <<config, binding, jobs, history>>
  BY DEF Finished
<1>2. i \in EventIds /\ s \in {"pending", "processing", "completed", "failed"}
  BY Typed
<1>3. /\ outbox' \in Seq(Event) /\ EventIds' = EventIds
      /\ \A j \in EventIds : /\ outbox'[j].of = outbox[j].of /\ outbox'[j].only = outbox[j].only
                             /\ outbox'[j].key = outbox[j].key
                             /\ outbox'[j].status = IF j = i THEN s ELSE outbox[j].status
  BY <1>1, <1>2, StatusIsSet
<1>4. Idle \in Worker /\ Idle.pc = "idle" /\ DOMAIN Idle.plan = {}
  BY NoPlanIsPlan DEF Idle, Worker
<1>5. /\ workers' \in [Workers -> Worker] /\ workers'[w] = Idle
      /\ \A v \in Workers \ {w} : workers'[v] = workers[v]
  BY <1>1, <1>4 DEF TypeOK
<1>6. \A v \in Workers \ {w} : Busy(v) => workers[v].event \in EventIds /\ workers[v].event # i
  BY Typed DEF Claims
<1>7. \A k : JobsOfEvent(k)' = JobsOfEvent(k)
  BY <1>1 DEF JobsOfEvent
<1> HIDE DEF i
<1>8. TypeOK'
  BY <1>1, <1>3, <1>4, <1>5 DEF TypeOK, history
<1>9. Counted' /\ Debts'
  BY <1>1, <1>3 DEF Counted, Debts, On, history
<1>10. Tasks' /\ Claims'
  <2>1. Tasks'
    BY <1>3, <1>4, <1>5, <1>6 DEF Tasks, Busy, IsConfig, EventOf
  <2>2. Claims'
    BY <1>3, <1>4, <1>5, <1>6 DEF Claims, Busy, EventOf
  <2> QED
    BY <2>1, <2>2
<1>11. EachPlatformGetsAJobUnlessAbsorbed'
  <2>1. s = "completed" /\ i \notin absorbed => owed[i] \subseteq JobsOfEvent(i)
    BY DEF Progress, i
  <2> QED
    BY <1>1, <1>3, <1>7, <2>1 DEF EachPlatformGetsAJobUnlessAbsorbed, history
<1>12. Progress'
  BY <1>1, <1>4, <1>5, <1>7 DEF Progress, history
<1>13. Copies'
  BY <1>1, <1>4, <1>5 DEF Copies, Follows
<1>14. \A e \in Configs, j \in EventIds : Opened(j, e) =>
         /\ (Binds(j, e) => Opened(j, e)' /\ Binds(j, e)')
         /\ (Sends(j, e) => Opened(j, e)' /\ Sends(j, e)')
  <2> SUFFICES ASSUME NEW e \in Configs, NEW j \in EventIds, Opened(j, e)
               PROVE  /\ (Binds(j, e) => Opened(j, e)' /\ Binds(j, e)')
                      /\ (Sends(j, e) => Opened(j, e)' /\ Sends(j, e)')
    OBVIOUS
  <2>1. Binds(j, e) \/ Sends(j, e) => ~(j = i /\ s = "completed")
    BY DEF Binds, Sends, HasCurrent, i
  <2>2. ~(j = i /\ s = "completed") => Opened(j, e)'
    BY <1>3 DEF Opened
  <2>3. \A v \in Workers \ {w} : HasCurrent(v, e)' <=> HasCurrent(v, e)
    BY <1>1, <1>5 DEF HasCurrent
  <2> QED
    BY <1>4, <1>5, <2>1, <2>2, <2>3 DEF Binds, Sends, Busy
<1>15. Bound'
  BY <1>1, <1>3, <1>14 DEF Bound, history
<1>16. SentAgain'
  <2>1. \A c \in Configs : Key(c)' = Key(c)
    BY <1>1 DEF Key
  <2>2. \A c \in Configs : (\A p \in People : \E j \in EventIds : outbox[j].of = p /\ outbox[j].key = Key(c))
          => \A p \in People : \E j \in EventIds : outbox'[j].of = p /\ outbox'[j].key = Key(c)'
    BY <1>3, <2>1
  <2> QED
    BY <1>1, <1>3, <1>14, <2>2 DEF SentAgain
<1>17. Keys'
  BY <1>1, <1>3, <1>4, <1>5 DEF Keys, history
<1>18. Lives'
  BY <1>1, <1>3 DEF Lives, Key, history
<1> QED
  BY <1>8, <1>9, <1>10, <1>11, <1>12, <1>13, <1>15, <1>16, <1>17, <1>18

(* A task completes its event. *)
LEMMA CompleteEventKeeps ==
  ASSUME DispatchInv, NEW w \in Workers, CompleteEvent(w)
  PROVE  DispatchInv'
<1>1. /\ workers[w].pc = "planned" /\ DOMAIN workers[w].plan = {} /\ Finished(w, "completed")
      /\ UNCHANGED <<writes, edits, extras>>
  BY DEF CompleteEvent, bounds
<1>2. extras' \in 0..MaxExtras
  BY <1>1 DEF DispatchInv, TypeOK
<1> QED
  BY <1>1, <1>2, FinishedKeeps DEF Busy

(* A task is interrupted. *)
LEMMA InterruptKeeps ==
  ASSUME DispatchInv, NEW w \in Workers, Interrupt(w)
  PROVE  DispatchInv'
<1>1. PICK s \in {"pending", "failed"} : Interrupted(w, s)
  BY DEF Interrupt
<1>2. /\ workers[w].pc # "idle" /\ Finished(w, s) /\ UNCHANGED <<writes, edits>>
      /\ extras < MaxExtras /\ extras' = extras + 1
  BY <1>1 DEF Interrupted
<1>3. extras' \in 0..MaxExtras
  BY <1>2, BoundsAssumption DEF DispatchInv, TypeOK
<1> QED
  BY <1>2, <1>3, FinishedKeeps DEF Busy

-----------------------------------------------------------------------------
(* The steps of those who make events. *)

(* An event more in the outbox. *)
LEMMA AppendNotes ==
  ASSUME TypeOK, NEW e \in Event, outbox' = Append(outbox, e)
  PROVE  /\ outbox' \in Seq(Event) /\ EventIds' = EventIds \cup {Len(outbox) + 1}
         /\ Len(outbox) + 1 \notin EventIds /\ Len(outbox) \in Nat
         /\ outbox'[Len(outbox) + 1] = e /\ \A i \in EventIds : outbox'[i] = outbox[i]
<1>1. outbox \in Seq(Event) /\ Len(outbox) \in Nat /\ EventIds = 1..Len(outbox)
  BY Typed DEF TypeOK
<1>2. /\ outbox' \in Seq(Event) /\ Len(outbox') = Len(outbox) + 1
      /\ \A i \in 1..Len(outbox) : outbox'[i] = outbox[i]
      /\ outbox'[Len(outbox) + 1] = e
  BY <1>1, AppendProperties
<1>3. EventIds' = 1..(Len(outbox) + 1)
  BY <1>2, LenProperties DEF EventIds
<1> QED
  BY <1>1, <1>2, <1>3

(* What it owes is noted with it. *)
LEMMA AppendOwed ==
  ASSUME TypeOK, NEW o \in [EventIds -> SUBSET Configs], NEW d \in SUBSET Configs
  PROVE  /\ Append(o, d) \in [EventIds \cup {Len(outbox) + 1} -> SUBSET Configs]
         /\ Append(o, d)[Len(outbox) + 1] = d /\ \A i \in EventIds : Append(o, d)[i] = o[i]
<1>1. Len(outbox) \in Nat /\ EventIds = 1..Len(outbox)
  BY Typed
<1>2. o \in Seq(SUBSET Configs) /\ Len(o) = Len(outbox)
  BY <1>1, SeqIsFunction
<1>3. /\ Append(o, d) \in Seq(SUBSET Configs) /\ Len(Append(o, d)) = Len(outbox) + 1
      /\ \A i \in 1..Len(outbox) : Append(o, d)[i] = o[i]
      /\ Append(o, d)[Len(outbox) + 1] = d
  BY <1>2, AppendProperties
<1>4. Append(o, d) \in [1..(Len(outbox) + 1) -> SUBSET Configs]
  BY <1>3, LenProperties
<1>5. 1..(Len(outbox) + 1) = EventIds \cup {Len(outbox) + 1}
  BY <1>1
<1> QED
  BY <1>1, <1>3, <1>4, <1>5

(* What a new event leaves as it was. *)
LEMMA AppendKeeps ==
  ASSUME DispatchInv, NEW e \in Event, outbox' = Append(outbox, e), UNCHANGED workers
  PROVE  /\ Tasks' /\ Claims'
         /\ \A w \in Workers : Busy(w) => workers[w].event \in EventIds /\ EventOf(w)' = EventOf(w)
         /\ \A i \in EventIds, c \in Configs : Opened(i, c) => Opened(i, c)'
         /\ \A w \in Workers : Busy(w) => workers[w].event # Len(outbox) + 1
<1> USE DEF DispatchInv
<1>1. /\ EventIds' = EventIds \cup {Len(outbox) + 1} /\ Len(outbox) + 1 \notin EventIds
      /\ \A i \in EventIds : outbox'[i] = outbox[i]
  BY AppendNotes
<1>2. \A w \in Workers : Busy(w) => workers[w].event \in EventIds /\ EventOf(w)' = EventOf(w)
  BY <1>1, Typed DEF EventOf
<1>3. Tasks'
  BY <1>2 DEF Tasks, IsConfig, Busy
<1>4. Claims'
  BY <1>2 DEF Claims, Busy
<1>5. \A i \in EventIds, c \in Configs : Opened(i, c) => Opened(i, c)'
  BY <1>1 DEF Opened
<1> QED
  BY <1>1, <1>2, <1>3, <1>4, <1>5

(* An event of a person, without a key. *)
LEMMA PersonEventKeeps ==
  ASSUME DispatchInv, NEW p \in People, NEW only \in Configs \cup {NULL}, NEW d \in SUBSET Configs,
         outbox' = Append(outbox, NewEvent(p, only, NULL)), owed' = Append(owed, d),
         d \subseteq On, only # NULL => d \subseteq {only},
         UNCHANGED <<config, binding, jobs, workers, edits, absorbed, rewound>>,
         writes' \in 0..MaxWrites, extras' \in 0..MaxExtras
  PROVE  DispatchInv'
<1> DEFINE e == NewEvent(p, only, NULL)
<1> USE DEF DispatchInv
<1>0. PICK n : n = Len(outbox) + 1
  OBVIOUS
<1>1. e \in Event /\ e.of = p /\ e.only = only /\ e.key = NULL /\ e.status = "pending"
  BY NewEventFields
<1> HIDE DEF e
<1>2. outbox' = Append(outbox, e)
  BY DEF e
<1>3. /\ outbox' \in Seq(Event) /\ EventIds' = EventIds \cup {n} /\ n \notin EventIds
      /\ outbox'[n] = e /\ \A i \in EventIds : outbox'[i] = outbox[i]
  BY <1>1, <1>2, <1>0, AppendNotes
<1>4. owed' \in [EventIds' -> SUBSET Configs] /\ owed'[n] = d /\ \A i \in EventIds : owed'[i] = owed[i]
  <2>1. TypeOK /\ owed \in [EventIds -> SUBSET Configs]
    BY DEF TypeOK
  <2>2. /\ Append(owed, d) \in [EventIds \cup {n} -> SUBSET Configs]
        /\ Append(owed, d)[n] = d /\ \A i \in EventIds : Append(owed, d)[i] = owed[i]
    BY <1>0, <2>1, AppendOwed
  <2> QED
    BY <1>3, <2>2
<1>5. /\ Tasks' /\ Claims'
      /\ \A w \in Workers : Busy(w) => workers[w].event \in EventIds /\ EventOf(w)' = EventOf(w)
      /\ \A i \in EventIds, c \in Configs : Opened(i, c) => Opened(i, c)'
      /\ \A w \in Workers : Busy(w) => workers[w].event # n
  BY <1>1, <1>2, <1>0, AppendKeeps
<1>6. /\ On' = On /\ \A k : JobsOfEvent(k)' = JobsOfEvent(k)
      /\ \A c \in Configs : Key(c)' = Key(c)
  BY DEF On, JobsOfEvent, Key
<1>7. TypeOK'
  BY <1>3, <1>4, <1>5 DEF TypeOK, Busy
<1>8. Counted' /\ Copies'
  BY DEF Counted, Copies, Follows
<1>9. Debts'
  <2> SUFFICES ASSUME NEW i \in EventIds'
               PROVE  /\ owed'[i] \subseteq On
                      /\ outbox'[i].of \in Configs => owed'[i] = {}
                      /\ i \notin absorbed /\ outbox'[i].only # NULL => owed'[i] \subseteq {outbox'[i].only}
    BY <1>6 DEF Debts
  <2>1. CASE i = n
    BY <1>1, <1>3, <1>4, <2>1, PeopleAssumption
  <2>2. CASE i \in EventIds
    BY <1>3, <1>4, <2>2 DEF Debts
  <2> QED
    BY <1>3, <2>1, <2>2
<1>10. EachPlatformGetsAJobUnlessAbsorbed'
  BY <1>1, <1>3, <1>4, <1>6 DEF EachPlatformGetsAJobUnlessAbsorbed
<1>11. Progress'
  <2>1. \A w \in Workers : workers[w].pc \in {"planned", "bound", "sending"} => Busy(w)
    BY DEF Busy
  <2> QED
    BY <1>4, <1>5, <1>6, <2>1 DEF Progress
<1>12. \A i, c : (Binds(i, c)' <=> Binds(i, c)) /\ (Sends(i, c)' <=> Sends(i, c))
  BY DEF Binds, Sends, HasCurrent, Busy
<1>13. Bound'
  BY <1>3, <1>5, <1>12 DEF Bound
<1>14. SentAgain'
  <2>1. \A c \in Configs : (\A q \in People : \E i \in EventIds : outbox[i].of = q /\ outbox[i].key = Key(c))
          => \A q \in People : \E i \in EventIds' : outbox'[i].of = q /\ outbox'[i].key = Key(c)'
    <3> SUFFICES ASSUME NEW c \in Configs, NEW q \in People,
                        NEW i \in EventIds, outbox[i].of = q, outbox[i].key = Key(c)
                 PROVE  \E j \in EventIds' : outbox'[j].of = q /\ outbox'[j].key = Key(c)'
      OBVIOUS
    <3> QED
      BY <1>3, <1>6
  <2>2. \A c \in Configs : (\E i \in EventIds : Opened(i, c) /\ Sends(i, c))
          => \E i \in EventIds' : Opened(i, c)' /\ Sends(i, c)'
    BY <1>3, <1>5, <1>12
  <2> QED
    BY <2>1, <2>2 DEF SentAgain
<1>15. Keys'
  <2>1. \A c \in Configs, v \in Versions : NULL # <<c, v>>
    BY NullAssumption DEF Versions
  <2> SUFFICES ASSUME NEW i \in EventIds', NEW c \in Configs, NEW v \in Versions, outbox'[i].key = <<c, v>>
               PROVE  /\ v <= config[c].version
                      /\ c \notin rewound => v <= binding[c].version
                      /\ v = config[c].version /\ config[c].on => c \in owed'[i]
    BY DEF Keys
  <2>2. i \in EventIds
    BY <1>1, <1>3, <2>1
  <2> QED
    BY <1>3, <1>4, <2>2 DEF Keys
<1>16. Lives'
  BY <1>3, <1>6 DEF Lives, TypeOK, Job
<1> QED
  BY <1>5, <1>7, <1>8, <1>9, <1>10, <1>11, <1>13, <1>14, <1>15, <1>16

(* A person changes. *)
LEMMA WritePersonKeeps ==
  ASSUME DispatchInv, NEW p \in People, WritePerson(p)
  PROVE  DispatchInv'
<1>1. /\ writes < MaxWrites /\ writes' = writes + 1
      /\ outbox' = Append(outbox, NewEvent(p, NULL, NULL)) /\ owed' = Append(owed, On)
      /\ UNCHANGED <<config, binding, jobs, workers, edits, extras, absorbed, rewound>>
  BY DEF WritePerson
<1>2. writes' \in 0..MaxWrites /\ extras' \in 0..MaxExtras /\ On \in SUBSET Configs
  BY <1>1, BoundsAssumption DEF DispatchInv, TypeOK, On
<1> QED
  BY <1>1, <1>2, PersonEventKeeps

(* A repair that a pending event absorbs changes nothing but its payload. *)
LEMMA AbsorbKeeps ==
  ASSUME DispatchInv, NEW p \in People, NEW c \in Configs,
         outbox' = [i \in EventIds |-> IF i \in Pending(p) THEN [outbox[i] EXCEPT !.only = c] ELSE outbox[i]],
         absorbed' = absorbed \cup Pending(p),
         UNCHANGED <<config, binding, jobs, workers, writes, edits, rewound, owed>>,
         extras' \in 0..MaxExtras
  PROVE  DispatchInv'
<1> USE DEF DispatchInv
<1>1. Pending(p) \subseteq EventIds /\ \A i \in Pending(p) : outbox[i].status = "pending"
  BY DEF Pending
<1>2. Len(outbox) \in Nat /\ EventIds = 1..Len(outbox) /\ \A i \in EventIds : outbox[i] \in Event
  BY Typed
<1>3. \A i \in EventIds :
        /\ outbox'[i] \in Event /\ outbox'[i].of = outbox[i].of /\ outbox'[i].key = outbox[i].key
        /\ outbox'[i].status = outbox[i].status
        /\ i \notin Pending(p) => outbox'[i] = outbox[i]
  <2> TAKE i \in EventIds
  <2> DEFINE e == [outbox[i] EXCEPT !.only = c]
  <2>1. e \in Event /\ e.of = outbox[i].of /\ e.key = outbox[i].key /\ e.status = outbox[i].status
    BY <1>2 DEF Event
  <2> QED
    BY <1>2, <2>1
<1>4. outbox' \in Seq(Event) /\ EventIds' = EventIds
  <2>1. outbox' \in [1..Len(outbox) -> Event]
    BY <1>2, <1>3
  <2> QED
    BY <1>2, <2>1, SeqIsFunction DEF EventIds
<1>5. \A w \in Workers : Busy(w) => /\ workers[w].event \in EventIds
                                    /\ workers[w].event \notin Pending(p) /\ EventOf(w)' = EventOf(w)
  BY <1>1, <1>3, Typed DEF Claims, EventOf
<1>6. /\ On' = On /\ \A k : JobsOfEvent(k)' = JobsOfEvent(k)
      /\ \A e \in Configs : Key(e)' = Key(e)
  BY DEF On, JobsOfEvent, Key
<1>7. TypeOK'
  BY <1>1, <1>4, <1>5 DEF TypeOK, Busy
<1>8. Counted' /\ Copies'
  BY DEF Counted, Copies, Follows
<1>9. Tasks' /\ Claims'
  <2>1. Tasks'
    BY <1>5 DEF Tasks, Busy, IsConfig
  <2>2. Claims'
    BY <1>5 DEF Claims, Busy
  <2> QED
    BY <2>1, <2>2
<1>10. Debts'
  BY <1>3, <1>4, <1>6 DEF Debts
<1>11. EachPlatformGetsAJobUnlessAbsorbed' /\ Progress'
  BY <1>3, <1>4, <1>6 DEF EachPlatformGetsAJobUnlessAbsorbed, Progress
<1>12. \A i \in EventIds, e \in Configs :
         Opened(i, e) => Opened(i, e)' /\ (Binds(i, e) => Binds(i, e)') /\ (Sends(i, e) => Sends(i, e)')
  BY <1>3 DEF Opened, Binds, Sends, Busy, HasCurrent
<1>13. Bound'
  BY <1>4, <1>12 DEF Bound
<1>14. SentAgain'
  <2>1. \A e \in Configs : (\A q \in People : \E i \in EventIds : outbox[i].of = q /\ outbox[i].key = Key(e))
          => \A q \in People : \E i \in EventIds' : outbox'[i].of = q /\ outbox'[i].key = Key(e)'
    BY <1>3, <1>4, <1>6
  <2>2. \A e \in Configs : (\E i \in EventIds : Opened(i, e) /\ Sends(i, e))
          => \E i \in EventIds' : Opened(i, e)' /\ Sends(i, e)'
    BY <1>4, <1>12
  <2> QED
    BY <2>1, <2>2 DEF SentAgain
<1>15. Keys'
  BY <1>3, <1>4 DEF Keys
<1>16. Lives'
  BY <1>3, <1>4, <1>6 DEF Lives, TypeOK, Job
<1> QED
  BY <1>7, <1>8, <1>9, <1>10, <1>11, <1>13, <1>14, <1>15, <1>16

(* A repair is absorbed, or makes an event. *)
LEMMA RepairPersonKeeps ==
  ASSUME DispatchInv, NEW p \in People, NEW c \in Configs, RepairPerson(p, c)
  PROVE  DispatchInv'
<1>1. /\ config[c].on /\ extras < MaxExtras /\ extras' = extras + 1
      /\ UNCHANGED <<config, binding, jobs, workers, writes, edits, rewound>>
  BY DEF RepairPerson
<1>2. extras' \in 0..MaxExtras /\ writes' \in 0..MaxWrites /\ c \in On
  BY <1>1, BoundsAssumption DEF DispatchInv, TypeOK, On
<1>3. CASE Pending(p) # {}
  BY <1>1, <1>2, <1>3, AbsorbKeeps DEF RepairPerson
<1>4. CASE Pending(p) = {}
  <2>1. outbox' = Append(outbox, NewEvent(p, c, NULL)) /\ owed' = Append(owed, {c}) /\ UNCHANGED absorbed
    BY <1>4 DEF RepairPerson
  <2>2. {c} \in SUBSET Configs /\ {c} \subseteq On /\ c \in Configs \cup {NULL}
    BY <1>2
  <2> QED
    BY <1>1, <1>2, <2>1, <2>2, PersonEventKeeps
<1> QED
  BY <1>3, <1>4

(* An edit brings a version nobody has seen, and the event that will. *)
LEMMA EditConfigKeeps ==
  ASSUME DispatchInv, NEW c \in Configs, EditConfig(c)
  PROVE  DispatchInv'
<1> DEFINE e == NewEvent(c, NULL, NULL)
<1> USE DEF DispatchInv
<1>0. PICK n : n = Len(outbox) + 1
  OBVIOUS
<1>1. /\ edits < MaxEdits /\ edits' = edits + 1 /\ outbox' = Append(outbox, e)
      /\ UNCHANGED <<binding, jobs, workers, writes, extras, absorbed, rewound>>
  BY DEF EditConfig
<1>2. PICK on \in BOOLEAN, a \in Accounts :
        /\ config' = [config EXCEPT ![c] = [on |-> on, account |-> a, version |-> @.version + 1]]
        /\ owed' = Append(IF on THEN owed ELSE [i \in EventIds |-> owed[i] \ {c}], {})
  BY DEF EditConfig
<1> DEFINE r == [on |-> on, account |-> a, version |-> config[c].version + 1]
           o == IF on THEN owed ELSE [i \in EventIds |-> owed[i] \ {c}]
<1>3. config[c].version \in Nat /\ edits \in Nat /\ config[c].version <= edits + 1
  BY Typed DEF TypeOK, Counted
<1>4. r \in Config /\ r.version = config[c].version + 1 /\ r.on = on
  <2>1. config[c].version + 1 \in Versions
    <3>1. 1 <= config[c].version
      BY Typed, ConfigFields DEF Versions
    <3> QED
      BY <1>1, <1>3, <3>1, BoundsAssumption DEF Versions
  <2> QED
    BY <2>1 DEF Config
<1>5. config' = [config EXCEPT ![c] = r]
  BY <1>2
<1> HIDE DEF r
<1>6. /\ config' \in [Configs -> Config] /\ config'[c] = r
      /\ \A d \in Configs \ {c} : config'[d] = config[d]
  BY <1>4, <1>5 DEF TypeOK
<1>7. e \in Event /\ e.of = c /\ e.only = NULL /\ e.key = NULL /\ e.status = "pending"
  BY NewEventFields
<1> HIDE DEF e
<1>8. /\ outbox' \in Seq(Event) /\ EventIds' = EventIds \cup {n} /\ n \notin EventIds
      /\ outbox'[n] = e /\ \A i \in EventIds : outbox'[i] = outbox[i]
  BY <1>1, <1>7, <1>0, AppendNotes
<1>9. o \in [EventIds -> SUBSET Configs]
      /\ \A i \in EventIds : o[i] \subseteq owed[i] /\ owed[i] \subseteq o[i] \cup {c} /\ (on => o[i] = owed[i])
                             /\ (~on => c \notin o[i])
  BY Typed DEF TypeOK
<1> HIDE DEF o
<1>10. owed' \in [EventIds' -> SUBSET Configs] /\ owed'[n] = {} /\ \A i \in EventIds : owed'[i] = o[i]
  <2>1. owed' = Append(o, {})
    BY <1>2 DEF o
  <2>2. {} \in SUBSET Configs
    OBVIOUS
  <2>3. /\ Append(o, {}) \in [EventIds \cup {n} -> SUBSET Configs]
        /\ Append(o, {})[n] = {} /\ \A i \in EventIds : Append(o, {})[i] = o[i]
    BY <1>0, <1>9, <2>2, AppendOwed
  <2> QED
    BY <1>8, <2>1, <2>3
<1>11. /\ Tasks' /\ Claims'
       /\ \A w \in Workers : Busy(w) => workers[w].event \in EventIds /\ EventOf(w)' = EventOf(w)
       /\ \A i \in EventIds, d \in Configs : Opened(i, d) => Opened(i, d)'
       /\ \A w \in Workers : Busy(w) => workers[w].event # n
  BY <1>1, <1>7, <1>0, AppendKeeps
<1>12. \A k : JobsOfEvent(k)' = JobsOfEvent(k)
  BY <1>1 DEF JobsOfEvent
<1>13. TypeOK'
  BY <1>1, <1>6, <1>8, <1>10, <1>11, BoundsAssumption DEF TypeOK, Busy
<1>14. Counted'
  BY <1>1, <1>3, <1>4, <1>6, Typed DEF Counted
<1>15. Debts'
  <2>1. \A i \in EventIds : owed'[i] \subseteq On'
    BY <1>4, <1>6, <1>9, <1>10 DEF Debts, On
  <2>2. \A i \in EventIds : /\ outbox'[i].of \in Configs => owed'[i] = {}
                            /\ i \notin absorbed /\ outbox'[i].only # NULL => owed'[i] \subseteq {outbox'[i].only}
    BY <1>8, <1>9, <1>10 DEF Debts
  <2> QED
    BY <1>1, <1>8, <1>10, <2>1, <2>2 DEF Debts
<1>16. EachPlatformGetsAJobUnlessAbsorbed'
  BY <1>1, <1>7, <1>8, <1>9, <1>10, <1>12 DEF EachPlatformGetsAJobUnlessAbsorbed
<1>17. Progress'
  <2>1. \A w \in Workers : workers[w].pc \in {"planned", "bound", "sending"} => Busy(w)
    BY DEF Busy
  <2> QED
    BY <1>1, <1>9, <1>10, <1>11, <1>12, <2>1 DEF Progress
<1>18. Copies'
  <2>1. \A d \in Configs : /\ binding[d].version <= config'[d].version
                           /\ binding[d].version = config'[d].version => Follows(d)'
    BY <1>1, <1>3, <1>4, <1>6, Typed DEF Copies, Follows
  <2>2. \A w \in Workers : \A d \in DOMAIN workers[w].plan :
          /\ workers[w].plan[d].version <= config'[d].version
          /\ workers[w].plan[d].version = config'[d].version => workers[w].plan[d] = config'[d]
    <3> SUFFICES ASSUME NEW w \in Workers, NEW d \in DOMAIN workers[w].plan
                 PROVE  /\ workers[w].plan[d].version <= config'[d].version
                        /\ workers[w].plan[d].version = config'[d].version => workers[w].plan[d] = config'[d]
      OBVIOUS
    <3>1. /\ workers[w].plan[d].version <= config[d].version
          /\ workers[w].plan[d].version = config[d].version => workers[w].plan[d] = config[d]
      BY DEF Copies
    <3>2. d \in Configs /\ workers[w].plan[d].version \in Nat
      BY Typed
    <3>3. d # c => config'[d] = config[d]
      BY <1>6, <3>2
    <3> QED
      BY <1>3, <1>4, <1>6, <3>1, <3>2, <3>3
  <2> QED
    BY <1>1, <2>1, <2>2 DEF Copies
<1>19. Opened(n, c)' /\ Binds(n, c)' /\ Sends(n, c)'
  BY <1>1, <1>7, <1>8, <1>11 DEF Opened, Binds, Sends, Busy
<1>20. \A d \in Configs \ {c}, i \in EventIds :
         (Binds(i, d) => Binds(i, d)') /\ (Sends(i, d) => Sends(i, d)')
  BY <1>1, <1>6 DEF Binds, Sends, HasCurrent, Busy
<1>21. Bound'
  BY <1>1, <1>6, <1>8, <1>11, <1>19, <1>20 DEF Bound
<1>22. SentAgain'
  <2>1. \A d \in Configs \ {c} : Key(d)' = Key(d)
    BY <1>6 DEF Key
  <2>2. \A d \in Configs \ {c} : (\A q \in People : \E i \in EventIds : outbox[i].of = q /\ outbox[i].key = Key(d))
          => \A q \in People : \E i \in EventIds' : outbox'[i].of = q /\ outbox'[i].key = Key(d)'
    BY <1>8, <2>1
  <2>3. \A d \in Configs \ {c} : (\E i \in EventIds : Opened(i, d) /\ Sends(i, d))
          => \E i \in EventIds' : Opened(i, d)' /\ Sends(i, d)'
    BY <1>8, <1>11, <1>20
  <2>4. \E i \in EventIds' : Opened(i, c)' /\ Sends(i, c)'
    BY <1>8, <1>19
  <2> QED
    BY <1>6, <2>2, <2>3, <2>4 DEF SentAgain
<1>23. Keys'
  <2> SUFFICES ASSUME NEW i \in EventIds', NEW d \in Configs, NEW v \in Versions, outbox'[i].key = <<d, v>>
               PROVE  /\ v <= config'[d].version
                      /\ d \notin rewound => v <= binding[d].version
                      /\ v = config'[d].version /\ config'[d].on => d \in owed'[i]
    BY <1>1 DEF Keys
  <2>1. NULL # <<d, v>> /\ v \in Nat
    BY NullAssumption DEF Versions
  <2>2. i \in EventIds /\ outbox[i].key = <<d, v>>
    BY <1>7, <1>8, <2>1
  <2>3. /\ v <= config[d].version /\ (d \notin rewound => v <= binding[d].version)
        /\ (v = config[d].version /\ config[d].on => d \in owed[i])
    BY <2>2 DEF Keys
  <2>4. CASE d = c
    BY <1>3, <1>4, <1>6, <2>1, <2>3, <2>4
  <2>5. CASE d # c
    BY <1>6, <1>9, <1>10, <2>2, <2>3, <2>5
  <2> QED
    BY <2>4, <2>5
<1>24. Lives'
  <2> SUFFICES ASSUME NEW j \in jobs, j.config \notin rewound, config'[j.config].on,
                      outbox'[j.event].key = Key(j.config)'
               PROVE  j.live
    BY <1>1, <1>8 DEF Lives
  <2>1. j.event \in EventIds /\ j.config \in Configs
    BY DEF Lives, TypeOK, Job
  <2>2. CASE j.config = c
    <3>1. outbox[j.event].key = <<c, config[c].version + 1>> /\ config[c].version + 1 \in Versions
      BY <1>4, <1>6, <1>8, <2>1, <2>2, ConfigFields DEF Key
    <3>2. config[c].version + 1 <= config[c].version
      BY <2>1, <3>1 DEF Keys
    <3> QED
      BY <1>3, <3>2
  <2>3. CASE j.config # c
    BY <1>6, <1>8, <2>1, <2>3 DEF Lives, Key
  <2> QED
    BY <2>2, <2>3
<1> QED
  BY <1>11, <1>13, <1>14, <1>15, <1>16, <1>17, <1>18, <1>21, <1>22, <1>23, <1>24

-----------------------------------------------------------------------------
(* At the start. *)
LEMMA DispatchInvInit == Init => DispatchInv
<1> SUFFICES ASSUME Init PROVE DispatchInv
  OBVIOUS
<1>1. PICK a \in Accounts : config = [c \in Configs |-> [on |-> TRUE, account |-> a, version |-> 1]]
  BY DEF Init
<1>2. /\ binding = config /\ outbox = <<>> /\ jobs = {} /\ workers = [w \in Workers |-> Idle]
      /\ writes = 0 /\ edits = 0 /\ extras = 0 /\ owed = <<>> /\ absorbed = {} /\ rewound = {}
  BY DEF Init
<1>3. \A c \in Configs : config[c] \in Config /\ config[c].version = 1
  BY <1>1, BoundsAssumption DEF Config, Versions
<1>4. config \in [Configs -> Config]
  BY <1>1, <1>3
<1>5. Idle \in Worker /\ Idle.pc = "idle" /\ DOMAIN Idle.plan = {}
  BY NoPlanIsPlan DEF Idle, Worker
<1>6. EventIds = {} /\ outbox \in Seq(Event) /\ owed \in [EventIds -> SUBSET Configs]
  BY <1>2, EmptySeq DEF EventIds
<1>7. \A w \in Workers : workers[w] = Idle
  BY <1>2
<1>8. TypeOK
  BY <1>2, <1>4, <1>5, <1>6, <1>7, BoundsAssumption DEF TypeOK
<1>9. Counted /\ Copies /\ Bound
  BY <1>2, <1>3, <1>5, <1>7 DEF Counted, Copies, Bound, Follows
<1>10. Tasks /\ Claims /\ Progress
  BY <1>5, <1>7 DEF Tasks, Claims, Progress, Busy
<1>11. Debts /\ EachPlatformGetsAJobUnlessAbsorbed /\ Keys
  BY <1>5, <1>6, <1>7 DEF Debts, EachPlatformGetsAJobUnlessAbsorbed, Keys
<1>12. SentAgain /\ Lives
  BY <1>2, <1>3 DEF SentAgain, Lives
<1> QED
  BY <1>8, <1>9, <1>10, <1>11, <1>12 DEF DispatchInv

(* In every step. *)
LEMMA DispatchInvStep == DispatchInv /\ [Next]_vars => DispatchInv'
<1> SUFFICES ASSUME DispatchInv, [Next]_vars PROVE DispatchInv'
  OBVIOUS
<1>1. CASE Produce
  BY <1>1, WritePersonKeeps, RepairPersonKeeps, EditConfigKeeps DEF Produce
<1>2. ASSUME NEW w \in Workers, ProcessOnePending(w) PROVE DispatchInv'
  BY <1>2, ClaimEventKeeps, LoadPlanKeeps, LoadConfigKeeps, EnsureBindingKeeps, DisableBindingKeeps,
     EnqueueJobKeeps, EnqueueBootstrapEventsKeeps, CompleteEventKeeps DEF ProcessOnePending
<1>3. ASSUME NEW w \in Workers, Interrupt(w) PROVE DispatchInv'
  BY <1>3, InterruptKeeps
<1>4. CASE UNCHANGED vars
  <2>1. UNCHANGED <<config, binding, outbox, jobs, workers, bounds, history>>
    BY <1>4 DEF vars
  <2>2. \A w, c : HasCurrent(w, c)' <=> HasCurrent(w, c)
    BY <2>1 DEF HasCurrent
  <2>3. \A i, c : /\ Opened(i, c)' <=> Opened(i, c)
                  /\ Binds(i, c)' <=> Binds(i, c)
                  /\ Sends(i, c)' <=> Sends(i, c)
    BY <2>1, <2>2 DEF Opened, Binds, Sends, Busy
  <2>4. EventIds' = EventIds
    BY <2>1 DEF EventIds
  <2>5. TypeOK' /\ Counted' /\ Tasks' /\ Claims' /\ Debts'
    BY <2>1, <2>4 DEF DispatchInv, TypeOK, Counted, Tasks, Claims, Debts, Busy, EventOf, IsConfig, On,
                      bounds, history
  <2>6. EachPlatformGetsAJobUnlessAbsorbed' /\ Progress' /\ Copies' /\ Keys' /\ Lives'
    BY <2>1, <2>4 DEF DispatchInv, EachPlatformGetsAJobUnlessAbsorbed, Progress, JobsOfEvent, Copies,
                      Follows, Keys, Lives, Key, history
  <2>7. Bound'
    BY <2>1, <2>3, <2>4 DEF DispatchInv, Bound, history
  <2>8. SentAgain'
    BY <2>1, <2>3, <2>4 DEF DispatchInv, SentAgain, Key
  <2> QED
    BY <2>5, <2>6, <2>7, <2>8 DEF DispatchInv
<1> QED
  BY <1>1, <1>2, <1>3, <1>4 DEF Next

(* The inductive invariant holds. *)
THEOREM DispatchInvHolds == Spec => []DispatchInv
<1> QED
  BY DispatchInvInit, DispatchInvStep, PTL DEF Spec

(* The tables and what the tasks remember keep their types: a task works   *)
(* on an event there is, versions are counted, and history keeps in step   *)
(* with the outbox.                                                        *)
THEOREM DispatchIsTyped == Spec => []TypeOK
<1>1. DispatchInv => TypeOK
  BY DEF DispatchInv
<1> QED
  BY <1>1, DispatchInvHolds, PTL

(* A completed event, that no repair request was coalesced into, has made  *)
(* a job for every platform that was enabled all along, however often it   *)
(* was interrupted and handled again (dispatch_pending).                   *)
THEOREM NoPlatformIsMissed == Spec => []EachPlatformGetsAJobUnlessAbsorbed
<1>1. DispatchInv => EachPlatformGetsAJobUnlessAbsorbed
  BY DEF DispatchInv
<1> QED
  BY <1>1, DispatchInvHolds, PTL

(* At rest, the binding of a configuration is what the configuration says, *)
(* unless a task was seen to write an older version over a newer one.      *)
THEOREM BindingsFollow == Spec => []BindingFollowsConfigUnlessRewound
<1>1. ASSUME DispatchInv PROVE BindingFollowsConfigUnlessRewound
  <2> SUFFICES ASSUME NEW c \in Configs \ rewound, AtRest(c) PROVE Follows(c)
    BY DEF BindingFollowsConfigUnlessRewound
  <2>1. ~ \E i \in EventIds : Opened(i, c)
    BY DEF AtRest, Opened
  <2> QED
    BY <1>1, <2>1 DEF DispatchInv, Bound, Copies
<1> QED
  BY <1>1, DispatchInvHolds, PTL

(* After an edit that has come to rest, everybody present has a job that   *)
(* is for the account the binding has.                                     *)
THEOREM NobodyIsLeftOut == Spec => []EverybodyIsSentAgain
<1>1. ASSUME DispatchInv PROVE EverybodyIsSentAgain
  <2> SUFFICES ASSUME NEW c \in Configs \ rewound, AtRest(c), config[c].on, config[c].version > 1,
                      absorbed = {}, \A i \in EventIds : outbox[i].status = "completed",
                      NEW p \in People
               PROVE  \E j \in jobs : j.config = c /\ j.person = p /\ j.live
    BY DEF EverybodyIsSentAgain
  <2> USE <1>1 DEF DispatchInv
  <2>1. ~ \E i \in EventIds : Opened(i, c)
    BY DEF AtRest, Opened
  <2>2. PICK i \in EventIds : outbox[i].of = p /\ outbox[i].key = Key(c)
    BY <2>1 DEF SentAgain
  <2>3. c \in owed[i]
    BY <2>2, Typed, ConfigFields DEF Keys, Key
  <2>4. PICK j \in jobs : j.event = i /\ j.config = c
    BY <2>2, <2>3 DEF EachPlatformGetsAJobUnlessAbsorbed, JobsOfEvent
  <2>5. j.person = p /\ j.live
    BY <2>2, <2>4 DEF Lives
  <2> QED
    BY <2>4, <2>5
<1> QED
  BY <1>1, DispatchInvHolds, PTL
=============================================================================

------------------------------ MODULE Dispatch ------------------------------
(***************************************************************************)
(* From domain events to platform jobs: dispatcher.rs.  A project has      *)
(* several platform configurations; each has a binding, the copy of it     *)
(* that the platform workers run with.  A person's event is turned into a  *)
(* job for every enabled configuration, and refreshes their bindings on    *)
(* the way; an edited configuration emits an event of its own, whose       *)
(* bootstrap updates the binding and sends everybody present again.        *)
(*                                                                         *)
(* The outbox is the one Outbox describes: the events of one object are    *)
(* handled one at a time, in order, and a pending one absorbs a coalescing *)
(* request.  What happens to a job afterwards is the platform worker's     *)
(* business (XinledaJobs); each event makes one job per configuration      *)
(* here, and every person of the project is present.                       *)
(***************************************************************************)
EXTENDS Naturals, Sequences, SequencesExt, FiniteSets, Functions

CONSTANTS
  Workers,     \* outbox worker tasks
  Configs,     \* rows of construction_platform_configs of one project
  People,      \* its rows of construction_workers
  NULL,
  Accounts,    \* identities: credentials, address and project code
  MaxWrites,   \* bound: changes of people
  MaxEdits,    \* bound: edits of configurations
  MaxExtras    \* bound: repair requests, and events whose handling is interrupted

ASSUME NullAssumption   == /\ NULL \notin Configs \cup People
                           /\ \A c \in Configs, v \in 1..(MaxEdits + 1) : NULL # <<c, v>>
ASSUME PeopleAssumption == IsFiniteSet(People) /\ People \cap Configs = {}
ASSUME BoundsAssumption == /\ MaxWrites \in Nat /\ MaxEdits \in Nat /\ MaxExtras \in Nat

VARIABLES
  config,     \* the configurations, each with a version (updated_at)
  binding,    \* integration_project_bindings, with the version they were copied from
  outbox,     \* integration_outbox_events, in (created_at, id) order
  jobs,       \* integration_jobs; not live once the account they are for was replaced
  workers,    \* what each task is doing
  writes, edits, extras,
  owed,       \* history: the configurations that must get a job out of an event
  absorbed,   \* history: events whose payload a repair request replaced
  rewound     \* history: bindings that were given an older version than they had

bounds  == <<writes, edits, extras>>
history == <<owed, absorbed, rewound>>
vars    == <<config, binding, outbox, jobs, workers, bounds, history>>

Versions == 1..(MaxEdits + 1)
Config   == [on : BOOLEAN, account : Accounts, version : Versions]
Event    == [of : Configs \cup People,
             only : Configs \cup {NULL},    \* platform_config_id of the payload
             key : (Configs \X Versions) \cup {NULL},    \* dedupe_key of a bootstrap event
             status : {"pending", "processing", "completed", "failed"}]
EventIds == DOMAIN outbox
Job      == [event : Nat, config : Configs, person : People, live : BOOLEAN]
Plan     == UNION {[C -> Config] : C \in SUBSET Configs}
Worker   == [pc : {"idle", "claimed", "planned", "bound", "sending"}, event : Nat,
             only : Configs \cup {NULL},    \* of the payload that was claimed
             plan : Plan,                   \* the configurations as they were read
             at : Configs \cup {NULL}]      \* the one whose binding was ensured

NoPlan == [c \in {} |-> NULL]
Idle   == [pc |-> "idle", event |-> 0, only |-> NULL, plan |-> NoPlan, at |-> NULL]

TypeOK ==
  /\ config \in [Configs -> Config] /\ binding \in [Configs -> Config]
  /\ outbox \in Seq(Event)
  /\ jobs \subseteq Job
  /\ workers \in [Workers -> Worker]
  /\ \A w \in Workers : workers[w].pc # "idle" => workers[w].event \in EventIds
  /\ writes \in 0..MaxWrites /\ edits \in 0..MaxEdits /\ extras \in 0..MaxExtras
  /\ owed \in [EventIds -> SUBSET Configs] /\ absorbed \subseteq EventIds
  /\ rewound \subseteq Configs

(* A project at rest: every configuration is enabled and bound. *)
Init ==
  /\ \E a \in Accounts : config = [c \in Configs |-> [on |-> TRUE, account |-> a, version |-> 1]]
  /\ binding = config
  /\ outbox = <<>> /\ jobs = {}
  /\ workers = [w \in Workers |-> Idle]
  /\ writes = 0 /\ edits = 0 /\ extras = 0
  /\ owed = <<>> /\ absorbed = {} /\ rewound = {}

-----------------------------------------------------------------------------
(* Producers *)

On == {c \in Configs : config[c].on}

NewEvent(x, only, key) == [of |-> x, only |-> only, key |-> key, status |-> "pending"]

(* The trigger on construction_workers. *)
WritePerson(p) ==
  /\ writes < MaxWrites /\ writes' = writes + 1
  /\ outbox' = Append(outbox, NewEvent(p, NULL, NULL))
  /\ owed' = Append(owed, On)
  /\ UNCHANGED <<config, binding, jobs, workers, edits, extras, absorbed, rewound>>

(* An edit of a configuration, and the trigger's bootstrap event.  What is  *)
(* dispatched afterwards owes nothing to a configuration that is disabled.  *)
EditConfig(c) ==
  /\ edits < MaxEdits /\ edits' = edits + 1
  /\ \E on \in BOOLEAN, a \in Accounts :
       /\ on # config[c].on \/ a # config[c].account
       /\ config' = [config EXCEPT ![c] = [on |-> on, account |-> a, version |-> @.version + 1]]
       /\ owed' = Append(IF on THEN owed ELSE [i \in EventIds |-> owed[i] \ {c}], {})
  /\ outbox' = Append(outbox, NewEvent(c, NULL, NULL))
  /\ UNCHANGED <<binding, jobs, workers, writes, extras, absorbed, rewound>>

Pending(p) == {i \in EventIds : outbox[i].of = p /\ outbox[i].status = "pending"}

(* enqueue_worker_platform_repair: send one person to one platform again.   *)
(* A pending event of that person, whatever it was for, takes the payload.  *)
RepairPerson(p, c) ==
  /\ config[c].on
  /\ extras < MaxExtras /\ extras' = extras + 1
  /\ IF Pending(p) # {}
     THEN /\ outbox' = [i \in EventIds |-> IF i \in Pending(p)
                                           THEN [outbox[i] EXCEPT !.only = c] ELSE outbox[i]]
          /\ absorbed' = absorbed \cup Pending(p)
          /\ UNCHANGED owed
     ELSE /\ outbox' = Append(outbox, NewEvent(p, c, NULL))
          /\ owed' = Append(owed, {c})
          /\ UNCHANGED absorbed
  /\ UNCHANGED <<config, binding, jobs, workers, writes, edits, rewound>>

-----------------------------------------------------------------------------
(* The dispatcher *)

Claimable(i) ==
  /\ outbox[i].status = "pending"
  /\ \A j \in EventIds : j < i /\ outbox[j].of = outbox[i].of =>
       outbox[j].status \in {"completed", "failed"}

ClaimEvent(w, i) ==
  /\ workers[w].pc = "idle" /\ Claimable(i)
  /\ outbox' = [outbox EXCEPT ![i].status = "processing"]
  /\ workers' = [workers EXCEPT ![w] = [Idle EXCEPT !.pc = "claimed", !.event = i,
                                                    !.only = outbox[i].only]]
  /\ UNCHANGED <<config, binding, jobs, bounds, history>>

EventOf(w)  == outbox[workers[w].event]
IsConfig(w) == EventOf(w).of \in Configs

GoOn(w, pc, plan, at) ==
  workers' = [workers EXCEPT ![w] = [@ EXCEPT !.pc = pc, !.plan = plan, !.at = at]]

(* A person's event: the enabled configurations are read once; a repair's   *)
(* payload, as it was claimed, narrows them down to one.                    *)
LoadPlan(w) ==
  /\ workers[w].pc = "claimed" /\ ~IsConfig(w)
  /\ LET C == {c \in On : workers[w].only \in {NULL, c}}
     IN  GoOn(w, "planned", Restrict(config, C), NULL)
  /\ UNCHANGED <<config, binding, outbox, jobs, bounds, history>>

(* A bootstrap reads its configuration, enabled or not. *)
LoadConfig(w) ==
  /\ workers[w].pc = "claimed" /\ IsConfig(w)
  /\ GoOn(w, "planned", Restrict(config, {EventOf(w).of}), NULL)
  /\ UNCHANGED <<config, binding, outbox, jobs, bounds, history>>

Planned(w, c) == workers[w].pc = "planned" /\ c \in DOMAIN workers[w].plan

Overtaken(w, c) == {d \in {c} : workers[w].plan[c].version < binding[c].version}

Ended(j, c) == [j EXCEPT !.live = @ /\ j.config # c]

EnsuredBinding(w, c, copy) ==
  /\ Planned(w, c) /\ workers[w].plan[c].on
  /\ binding' = [binding EXCEPT ![c] = copy]
  /\ jobs' = IF binding[c].account = copy.account THEN jobs
             ELSE {Ended(j, c) : j \in jobs}
  /\ rewound' = rewound \cup Overtaken(w, c)
  /\ GoOn(w, IF IsConfig(w) THEN "sending" ELSE "bound", workers[w].plan, c)
  /\ UNCHANGED <<config, outbox, bounds, owed, absorbed>>

\* Mutant: an existing binding keeps its copy of the configuration.
EnsureBindingOnce(w, c) == EnsuredBinding(w, c, [binding[c] EXCEPT !.on = TRUE])

(* ensure_binding copies the configuration as it was read, and starts over  *)
(* when that is for another account.                                        *)
EnsureBinding(w, c) == EnsuredBinding(w, c, workers[w].plan[c])

Unplanned(w, c) ==
  LET plan == workers[w].plan IN GoOn(w, "planned", Restrict(plan, DOMAIN plan \ {c}), NULL)

(* enqueue_job: an event makes at most one job for a binding, ever. *)
EnqueueJob(w) ==
  /\ workers[w].pc = "bound"
  /\ LET c == workers[w].at
         i == workers[w].event
     IN  /\ jobs' = IF \E j \in jobs : j.event = i /\ j.config = c THEN jobs
                    ELSE jobs \cup {[event |-> i, config |-> c, person |-> EventOf(w).of,
                                     live |-> TRUE]}
         /\ Unplanned(w, c)
  /\ UNCHANGED <<config, binding, outbox, bounds, history>>

(* The configuration is disabled, or gone. *)
DisableBinding(w, c) ==
  /\ Planned(w, c) /\ ~workers[w].plan[c].on
  /\ binding' = [binding EXCEPT ![c] = [@ EXCEPT !.on = FALSE,
                                                 !.version = workers[w].plan[c].version]]
  /\ rewound' = rewound \cup Overtaken(w, c)
  /\ Unplanned(w, c)
  /\ UNCHANGED <<config, outbox, jobs, bounds, owed, absorbed>>

SendAgain(w, key) ==
  LET c      == workers[w].at
      unsent == {p \in People : \A i \in EventIds : outbox[i].of = p => outbox[i].key # key}
      s      == SetToSeq(unsent)
  IN  /\ workers[w].pc = "sending"
      /\ outbox' = outbox \o [k \in DOMAIN s |-> NewEvent(s[k], c, key)]
      /\ owed'   = owed \o [k \in DOMAIN s |-> {c} \cap On]
      /\ Unplanned(w, c)
      /\ UNCHANGED <<config, binding, jobs, bounds, absorbed, rewound>>

\* Mutant: the dedupe key is that of the configuration, not of its version.
EnqueueBootstrapEventsOnce(w) == SendAgain(w, <<workers[w].at, 1>>)

(* enqueue_bootstrap_events: an event per person, once for each version of  *)
(* the configuration.                                                       *)
EnqueueBootstrapEvents(w) ==
  /\ workers[w].pc = "sending"
  /\ SendAgain(w, <<workers[w].at, workers[w].plan[workers[w].at].version>>)

Finished(w, status) ==
  /\ outbox' = [outbox EXCEPT ![workers[w].event].status = status]
  /\ workers' = [workers EXCEPT ![w] = Idle]
  /\ UNCHANGED <<config, binding, jobs, history>>

\* Mutant: the first platform that fails ends the event as if all were done.
CompleteEventEarly(w) ==
  /\ workers[w].pc = "planned" /\ Finished(w, "completed") /\ UNCHANGED bounds

CompleteEvent(w) ==
  /\ workers[w].pc = "planned" /\ DOMAIN workers[w].plan = {}
  /\ Finished(w, "completed") /\ UNCHANGED bounds

Interrupted(w, status) ==
  /\ workers[w].pc # "idle"
  /\ extras < MaxExtras /\ extras' = extras + 1
  /\ Finished(w, status) /\ UNCHANGED <<writes, edits>>

\* Mutant: a status that the claim query does not know.
InterruptRetry(w) == Interrupted(w, "retry") \/ Interrupted(w, "failed")

(* A statement fails or the process dies; the event is handled again from   *)
(* the start, or has used up its attempts.                                  *)
Interrupt(w) == Interrupted(w, "pending") \/ Interrupted(w, "failed")

-----------------------------------------------------------------------------
Produce == \/ \E p \in People : WritePerson(p) \/ \E c \in Configs : RepairPerson(p, c)
           \/ \E c \in Configs : EditConfig(c)

ProcessOnePending(w) ==
  \/ \E i \in EventIds : ClaimEvent(w, i)
  \/ LoadPlan(w) \/ LoadConfig(w)
  \/ \E c \in Configs : EnsureBinding(w, c) \/ DisableBinding(w, c)
  \/ EnqueueJob(w) \/ EnqueueBootstrapEvents(w) \/ CompleteEvent(w)

Next == Produce \/ \E w \in Workers : ProcessOnePending(w) \/ Interrupt(w)

Spec == Init /\ [][Next]_vars

-----------------------------------------------------------------------------
(* What the dispatcher promises. *)

JobsOfEvent(i) == {j.config : j \in {k \in jobs : k.event = i}}

(* A change of a person becomes a job of its own for every platform that    *)
(* was enabled all along, retries and repair requests notwithstanding.      *)
EachPlatformGetsAJob ==
  \A i \in EventIds : outbox[i].status = "completed" => owed[i] \subseteq JobsOfEvent(i)

(* That holds for the events that no repair request was coalesced into.     *)
EachPlatformGetsAJobUnlessAbsorbed ==
  \A i \in EventIds \ absorbed :
    outbox[i].status = "completed" => owed[i] \subseteq JobsOfEvent(i)

(* Nothing under way can still change the binding of c. *)
AtRest(c) ==
  /\ \A i \in EventIds : outbox[i].of = c => outbox[i].status = "completed"
  /\ \A w \in Workers : c \notin DOMAIN workers[w].plan

Follows(c) == /\ binding[c].on = config[c].on
              /\ config[c].on => binding[c] = config[c]

(* The configuration decides what its binding is, whether it is enabled and *)
(* for which account, once its edits have been handled: until a task that   *)
(* had read the configuration before an edit writes what it read over the   *)
(* binding after the edit's own bootstrap.                                  *)
BindingFollowsConfigUnlessRewound == \A c \in Configs \ rewound : AtRest(c) => Follows(c)

(* After an edit, everybody present has a job for the account that the      *)
(* binding has now, however often it was edited and handled again.          *)
EverybodyIsSentAgain ==
  \A c \in Configs \ rewound :
    /\ AtRest(c) /\ config[c].on /\ config[c].version > 1 /\ absorbed = {}
    /\ \A i \in EventIds : outbox[i].status = "completed"
    => \A p \in People : \E j \in jobs : j.config = c /\ j.person = p /\ j.live
=============================================================================

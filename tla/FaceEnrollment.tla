--------------------------- MODULE FaceEnrollment ---------------------------
(***************************************************************************)
(* The face library of a project: face/mod.rs, the trigger on the people   *)
(* (migrations 058 and 066), and the handlers that switch the library on   *)
(* and off.  Changes of photos are queued as enrollments; the enrollment   *)
(* workers take a project's lock, read the photo as it is then, and call   *)
(* the face service; a cleaning task empties the library of a project that *)
(* needs it no more.                                                       *)
(*                                                                         *)
(* A call of the service that times out may be carried out later.  The     *)
(* changes of a person are transactions: what the trigger saw when the     *)
(* statement ran is what the commit makes visible.                         *)
(***************************************************************************)
EXTENDS Naturals, Sequences, SequencesExt, FiniteSets, FiniteSetsExt

CONSTANTS
  Workers,      \* enrollment workers: one in each API process
  People,       \* the rows of construction_workers of the project
  NULL,
  MaxAttempts,  \* MAX_ATTEMPTS
  MaxPhotos,    \* bound: changes of photos
  MaxRequests,  \* bound: requests to switch a source, or to retry
  MaxFailures   \* bound: failed or late calls, interrupted processes, overrun claims

ASSUME AttemptsAssumption == MaxAttempts \in Nat \ {0}
ASSUME PeopleAssumption   == IsFiniteSet(People)
ASSUME HoldersAssumption  == NULL \notin People \cup Workers \cup {"point", "settings"}
                             /\ Workers \cap {"point", "settings"} = {}
ASSUME BoundsAssumption   == /\ MaxPhotos \in Nat /\ MaxRequests \in Nat /\ MaxFailures \in Nat

VARIABLES
  switch,    \* what the library is needed for: an attendance point, the geofence settings
  photo,     \* the photo of each person; 0 when there is none, or no such person
  edits,     \* open transactions that change a photo
  queue,     \* construction_face_enrollments, oldest first
  lock,      \* lock_project: who holds the project's advisory lock
  handlers,  \* the request that switches each source
  retrying,  \* a request to retry has found the library in use
  enrolling, \* what each enrollment worker is doing
  cleaning,  \* cleanup_disabled_projects has listed the project
  library,   \* the face service: the photo each person was enrolled with, or 0
  late,      \* calls whose caller has given up waiting
  photos, requests, failures,
  cleared,   \* history: the library was emptied, and not switched on since
  stale,     \* history: it was switched on by a request that saw it on before
  slips      \* history: people for whom something happened that nobody queued

bounds  == <<photos, requests, failures>>
history == <<cleared, stale, slips>>
vars    == <<switch, photo, edits, queue, lock, handlers, retrying, enrolling, cleaning, library,
             late, bounds, history>>

Sources == {"point", "settings"}
Photos  == 0..MaxPhotos
Active  == {"pending", "processing"}
Task    == [person : People, action : {"upsert", "delete"}, revision : Nat,
            status : Active \cup {"synced", "failed", "cancelled"}, attempts : 0..MaxAttempts]
Tasks   == DOMAIN queue
Edit    == [person : People, photo : Photos, queued : BOOLEAN]
Handler == [stage : {"idle", "waiting", "written"}, on : BOOLEAN, was : BOOLEAN]
Worker  == [batch : SUBSET Tasks, task : {0} \cup Tasks, revision : Nat, photo : Photos]
Call    == [person : People \cup {NULL}, photo : Photos]   \* NULL: clear-project

NoHandler == [stage |-> "idle", on |-> FALSE, was |-> FALSE]
Idle      == [batch |-> {}, task |-> 0, revision |-> 0, photo |-> 0]
Enabled   == \E s \in Sources : switch[s]
Empty     == [p \in People |-> 0]

TypeOK ==
  /\ switch \in [Sources -> BOOLEAN] /\ photo \in [People -> Photos]
  /\ edits \subseteq Edit /\ queue \in Seq(Task) /\ lock \in Sources \cup Workers \cup {NULL}
  /\ handlers \in [Sources -> Handler] /\ enrolling \in [Workers -> Worker]
  /\ retrying \in BOOLEAN /\ cleaning \in BOOLEAN
  /\ library \in [People -> Photos] /\ late \subseteq Call
  /\ photos \in 0..MaxPhotos /\ requests \in 0..MaxRequests /\ failures \in 0..MaxFailures
  /\ cleared \in BOOLEAN /\ stale \in BOOLEAN /\ slips \subseteq People

(* A project that has never needed a library. *)
Init ==
  /\ switch = [s \in Sources |-> FALSE]
  /\ photo = Empty /\ edits = {} /\ queue = <<>> /\ lock = NULL
  /\ handlers = [s \in Sources |-> NoHandler] /\ retrying = FALSE
  /\ enrolling = [w \in Workers |-> Idle] /\ cleaning = FALSE
  /\ library = Empty /\ late = {}
  /\ photos = 0 /\ requests = 0 /\ failures = 0
  /\ cleared = TRUE /\ stale = FALSE /\ slips = {}

Fail == failures < MaxFailures /\ failures' = failures + 1

-----------------------------------------------------------------------------
(* Queueing. *)

NewTask(p, action) ==
  [person |-> p, action |-> action, revision |-> 1, status |-> "pending", attempts |-> 0]
ActiveTask(q, p, action) ==
  {t \in DOMAIN q : q[t].person = p /\ q[t].action = action /\ q[t].status \in Active}

(* ON CONFLICT ... DO UPDATE: the active task of the person gets a new revision. *)
Queued(q, p, action) ==
  IF ActiveTask(q, p, action) = {} THEN Append(q, NewTask(p, action))
  ELSE [t \in DOMAIN q |-> IF t \in ActiveTask(q, p, action)
                           THEN [q[t] EXCEPT !.revision = @ + 1, !.attempts = 0] ELSE q[t]]

(* enqueue_project_face_enrollments: everybody with a photo, DO NOTHING on conflict. *)
QueuedForAll(q) ==
  LET missing == SetToSeq({p \in People : photo[p] # 0 /\ ActiveTask(q, p, "upsert") = {}})
  IN q \o [i \in DOMAIN missing |-> NewTask(missing[i], "upsert")]

(* The UPDATE of a person, with its trigger. *)
EditPhoto(p) ==
  /\ photos < MaxPhotos /\ photos' = photos + 1
  /\ \A e \in edits : e.person # p
  /\ \E to \in {0, photos + 1} \ {photo[p]} :
       edits' = edits \cup {[person |-> p, photo |-> to, queued |-> Enabled]}
  /\ UNCHANGED <<switch, photo, queue, lock, handlers, retrying, enrolling, cleaning, library,
                 late, requests, failures, history>>

(* A change whose trigger saw the library switched off is not queued.  It  *)
(* is forgotten when the library was switched on before the commit.        *)
CommitEdit(e) ==
  /\ edits' = edits \ {e}
  /\ photo' = [photo EXCEPT ![e.person] = e.photo]
  /\ queue' = IF e.queued THEN Queued(queue, e.person, IF e.photo = 0 THEN "delete" ELSE "upsert")
              ELSE queue
  /\ slips' = IF ~e.queued /\ Enabled THEN slips \cup {e.person} ELSE slips
  /\ UNCHANGED <<switch, lock, handlers, retrying, enrolling, cleaning, library, late, bounds,
                 cleared, stale>>

-----------------------------------------------------------------------------
(* Switching.  update_attendance_point reads what the point was under the  *)
(* lock; update_attendance_geofence_settings reads what the library was    *)
(* before it waits for the lock.                                           *)

RequestSwitch(s) ==
  /\ handlers[s] = NoHandler /\ requests < MaxRequests
  /\ requests' = requests + 1
  /\ handlers' = [handlers EXCEPT ![s] = [stage |-> "waiting", on |-> ~switch[s], was |-> Enabled]]
  /\ UNCHANGED <<switch, photo, edits, queue, lock, retrying, enrolling, cleaning, library, late,
                 photos, failures, history>>

Was(s) == IF s = "point" THEN switch[s] ELSE handlers[s].was
Waiting(p) == \E t \in Tasks : queue[t].person = p /\ queue[t].status \in Active \cup {"failed"}

(* Nothing queues the removal of a person whose photo is gone when the     *)
(* library is switched on: a library that has not been emptied keeps them. *)
Remembered == {p \in People : photo[p] = 0 /\ library[p] # 0 /\ ~Waiting(p)}

WriteSwitch(s) ==
  /\ handlers[s].stage = "waiting" /\ lock = NULL
  /\ lock' = s
  /\ switch' = [switch EXCEPT ![s] = handlers[s].on]
  /\ handlers' = [handlers EXCEPT ![s] = [stage |-> "written", on |-> handlers[s].on, was |-> Was(s)]]
  /\ cleared' = (cleared /\ ~handlers[s].on)
  /\ stale' = (stale \/ (handlers[s].on /\ s = "settings" /\ handlers[s].was /\ ~Enabled))
  /\ slips' = IF handlers[s].on /\ ~Enabled THEN slips \cup Remembered ELSE slips
  /\ UNCHANGED <<photo, edits, queue, retrying, enrolling, cleaning, library, late, bounds>>

Fills(s) == ~handlers[s].was /\ IF s = "point" THEN handlers[s].on ELSE Enabled

(* What was switched on is filled, and the lock released. *)
FillLibrary(s) ==
  /\ handlers[s].stage = "written"
  /\ queue' = IF Fills(s) THEN QueuedForAll(queue) ELSE queue
  /\ lock' = NULL
  /\ handlers' = [handlers EXCEPT ![s] = NoHandler]
  /\ UNCHANGED <<switch, photo, edits, retrying, enrolling, cleaning, library, late, bounds, history>>

(* The process stops, or the bulk request fails and is only logged. *)
FillInterrupted(s) ==
  /\ handlers[s].stage = "written" /\ Fills(s) /\ Fail
  /\ lock' = NULL
  /\ handlers' = [handlers EXCEPT ![s] = NoHandler]
  /\ slips' = People
  /\ UNCHANGED <<switch, photo, edits, queue, retrying, enrolling, cleaning, library, late,
                 photos, requests, cleared, stale>>

(* The two retry requests check the library, and then fill it, without the lock. *)
RequestRetry ==
  /\ Enabled /\ ~retrying /\ requests < MaxRequests
  /\ requests' = requests + 1 /\ retrying' = TRUE
  /\ UNCHANGED <<switch, photo, edits, queue, lock, handlers, enrolling, cleaning, library, late,
                 photos, failures, history>>
RetryFaces ==
  /\ retrying /\ retrying' = FALSE
  /\ queue' = QueuedForAll(queue)
  /\ UNCHANGED <<switch, photo, edits, lock, handlers, enrolling, cleaning, library, late, bounds,
                 history>>

-----------------------------------------------------------------------------
(* Enrolling: process_pending_enrollments. *)

Abandoned(t) == \A w \in Workers : t \notin enrolling[w].batch

(* A task in process is claimed again after ten minutes: its worker has    *)
(* been interrupted, or the calls before it in the batch took that long.   *)
ClaimTasks(w) ==
  /\ enrolling[w] = Idle /\ Enabled
  /\ \E overrun \in BOOLEAN :
       /\ IF overrun THEN Fail ELSE UNCHANGED failures
       /\ LET due == {t \in Tasks : /\ queue[t].attempts < MaxAttempts
                                    /\ \/ queue[t].status \in {"pending", "failed"}
                                       \/ queue[t].status = "processing" /\ (overrun \/ Abandoned(t))}
          IN /\ due # {} /\ (overrun => \E t \in due : ~Abandoned(t))
             /\ queue' = [t \in Tasks |-> IF t \in due THEN [queue[t] EXCEPT !.status = "processing"]
                                          ELSE queue[t]]
             /\ enrolling' = [enrolling EXCEPT ![w].batch = due]
  /\ UNCHANGED <<switch, photo, edits, lock, handlers, retrying, cleaning, library, late,
                 photos, requests, history>>

Released(w, t) == [Idle EXCEPT !.batch = enrolling[w].batch \ {t}]

(* Under the lock: a task that was settled or cancelled while it waited is *)
(* left alone; one whose project needs no library any more is cancelled.   *)
SkipTask(w, t) ==
  /\ t \in enrolling[w].batch /\ enrolling[w].task = 0 /\ lock = NULL
  /\ queue[t].status # "processing" \/ ~Enabled
  /\ queue' = IF queue[t].status = "processing" THEN [queue EXCEPT ![t].status = "cancelled"]
              ELSE queue
  /\ enrolling' = [enrolling EXCEPT ![w] = Released(w, t)]
  /\ UNCHANGED <<switch, photo, edits, lock, handlers, retrying, cleaning, library, late, bounds,
                 history>>

Reading(w, t) == [enrolling[w] EXCEPT !.task = t, !.revision = queue[t].revision,
                                      !.photo = photo[queue[t].person]]
ToEnroll(w, t) == /\ t \in enrolling[w].batch /\ enrolling[w].task = 0
                  /\ queue[t].status = "processing" /\ Enabled
\* Mutant: the person is read, and the service called, without the lock.
ReadUnlocked(w, t) ==
  /\ ToEnroll(w, t)
  /\ enrolling' = [enrolling EXCEPT ![w] = Reading(w, t)]
  /\ UNCHANGED <<switch, photo, edits, queue, lock, handlers, retrying, cleaning, library, late,
                 bounds, history>>
(* The task's person as they are now, whatever it was queued for. *)
ReadTask(w, t) ==
  /\ ToEnroll(w, t) /\ lock = NULL
  /\ lock' = w
  /\ enrolling' = [enrolling EXCEPT ![w] = Reading(w, t)]
  /\ UNCHANGED <<switch, photo, edits, queue, handlers, retrying, cleaning, library, late, bounds,
                 history>>

Called(w) == queue[enrolling[w].task].person
Carried(w) == [library EXCEPT ![Called(w)] = enrolling[w].photo]

(* A call that brings no answer was carried out, or will be, or neither. *)
NoAnswer(done, call) == \/ library' \in {library, done} /\ UNCHANGED late
                        \/ late' = late \cup {call} /\ UNCHANGED library
EnrollCall(w) == [person |-> Called(w), photo |-> enrolling[w].photo]

\* Mutant: what has changed since it was read is not looked at.
FinishedAsRead(task, w, ok) ==
  IF ok THEN [task EXCEPT !.status = "synced"]
  ELSE [task EXCEPT !.status = IF task.attempts + 1 >= MaxAttempts THEN "failed" ELSE "pending",
                    !.attempts = @ + 1]
\* Mutant: a failed task waits as "retry", as in the tables of the integration jobs.
FinishedToRetry(task, w, ok) ==
  IF task.revision # enrolling[w].revision THEN [task EXCEPT !.status = "pending", !.attempts = 0]
  ELSE IF ok THEN [task EXCEPT !.status = "synced"]
  ELSE [task EXCEPT !.status = IF task.attempts + 1 >= MaxAttempts THEN "failed" ELSE "retry",
                    !.attempts = @ + 1]
Finished(task, w, ok) ==
  IF task.revision # enrolling[w].revision THEN [task EXCEPT !.status = "pending", !.attempts = 0]
  ELSE IF ok THEN [task EXCEPT !.status = "synced"]
  ELSE [task EXCEPT !.status = IF task.attempts + 1 >= MaxAttempts THEN "failed" ELSE "pending",
                    !.attempts = @ + 1]

(* The service answers or not, and finish_enrollment settles the task. *)
FinishTask(w) ==
  /\ enrolling[w].task # 0
  /\ LET t == enrolling[w].task
     IN \E ok \in BOOLEAN :
          /\ IF ok THEN library' = Carried(w) /\ UNCHANGED <<late, failures>>
                   ELSE NoAnswer(Carried(w), EnrollCall(w)) /\ Fail
          /\ queue' = IF queue[t].status = "processing"
                      THEN [queue EXCEPT ![t] = Finished(queue[t], w, ok)] ELSE queue
          /\ enrolling' = [enrolling EXCEPT ![w] = Released(w, t)]
  /\ lock' = IF lock = w THEN NULL ELSE lock
  /\ UNCHANGED <<switch, photo, edits, handlers, retrying, cleaning, photos, requests, history>>

(* The process of a worker stops; its session's lock goes with it. *)
InterruptWorker(w) ==
  /\ enrolling[w] # Idle /\ Fail
  /\ IF enrolling[w].task = 0 THEN UNCHANGED <<library, late>>
     ELSE NoAnswer(Carried(w), EnrollCall(w))
  /\ enrolling' = [enrolling EXCEPT ![w] = Idle]
  /\ lock' = IF lock = w THEN NULL ELSE lock
  /\ UNCHANGED <<switch, photo, edits, queue, handlers, retrying, cleaning, photos, requests,
                 history>>

(* A call given up takes effect: the service computes first, and only then *)
(* takes its own lock.                                                     *)
CallLands(c) ==
  /\ late' = late \ {c}
  /\ library' = IF c.person = NULL THEN Empty ELSE [library EXCEPT ![c.person] = c.photo]
  /\ slips' = IF c.person # NULL THEN slips \cup {c.person}
              ELSE IF Enabled THEN People ELSE slips
  /\ UNCHANGED <<switch, photo, edits, queue, lock, handlers, retrying, enrolling, cleaning, bounds,
                 cleared, stale>>

-----------------------------------------------------------------------------
(* Cleaning: cleanup_disabled_projects. *)

\* Mutant: a project all of whose tasks are cancelled has been cleaned before.
ListUncancelled ==
  /\ ~Enabled /\ ~cleaning /\ \E t \in Tasks : queue[t].status # "cancelled"
  /\ cleaning' = TRUE
  /\ UNCHANGED <<switch, photo, edits, queue, lock, handlers, retrying, enrolling, library, late,
                 bounds, history>>
ListDisabled ==
  /\ ~Enabled /\ ~cleaning
  /\ cleaning' = TRUE
  /\ UNCHANGED <<switch, photo, edits, queue, lock, handlers, retrying, enrolling, library, late,
                 bounds, history>>

CleanProject ==
  /\ cleaning /\ lock = NULL
  /\ cleaning' = FALSE
  /\ \/ /\ ~Enabled
        /\ library' = Empty
        /\ queue' = [t \in Tasks |-> [queue[t] EXCEPT !.status = "cancelled"]]
        /\ cleared' = TRUE /\ stale' = FALSE /\ slips' = {}
        /\ UNCHANGED <<late, failures>>
     \/ /\ ~Enabled /\ Fail
        /\ NoAnswer(Empty, [person |-> NULL, photo |-> 0])
        /\ UNCHANGED <<queue, history>>
     \/ Enabled /\ UNCHANGED <<library, queue, late, failures, history>>
  /\ UNCHANGED <<switch, photo, edits, lock, handlers, retrying, enrolling, photos, requests>>

-----------------------------------------------------------------------------
Enroll(w) == \/ ClaimTasks(w) \/ FinishTask(w)
             \/ \E t \in Tasks : SkipTask(w, t) \/ ReadTask(w, t)

Next ==
  \/ \E p \in People : EditPhoto(p)
  \/ \E e \in edits : CommitEdit(e)
  \/ \E s \in Sources : RequestSwitch(s) \/ WriteSwitch(s) \/ FillLibrary(s) \/ FillInterrupted(s)
  \/ RequestRetry \/ RetryFaces
  \/ \E w \in Workers : Enroll(w) \/ InterruptWorker(w)
  \/ \E c \in late : CallLands(c)
  \/ ListDisabled \/ CleanProject

(* Who holds the lock comes to an end, and the cleaning task's timer goes  *)
(* on.  Nothing is assumed of transactions, of other requests, of calls    *)
(* carried out late, or of the enrollment workers beyond the call they     *)
(* make.                                                                   *)
Fairness ==
  /\ \A s \in Sources : WF_vars(FillLibrary(s))
  /\ \A w \in Workers : WF_vars(FinishTask(w))
  /\ WF_vars(ListDisabled) /\ WF_vars(CleanProject)

Spec     == Init /\ [][Next]_vars
FairSpec == Spec /\ Fairness

-----------------------------------------------------------------------------
(* Properties. *)

Settled(p) == \A e \in edits : e.person # p
Filled     == Enabled /\ \A s \in Sources : handlers[s].stage # "written"

(* While a library is in use, each person in it has the photo they have    *)
(* now, or a task says that it is still to come or could not be done:      *)
(* neither a photo changed during a call, nor a task cancelled, nor the    *)
(* cleaning that was listed before the library was switched on again       *)
(* loses anybody.  Excused are calls carried out too late, changes whose   *)
(* trigger ran before the switching on, removals the switching on did not  *)
(* know of, and a filling that was interrupted or left out by a request    *)
(* that had looked too early.                                              *)
EnabledMeansEnrolled ==
  Filled /\ ~stale =>
    \A p \in People \ slips : library[p] = photo[p] \/ Waiting(p)

(* What the comment on enqueue_project_face_enrollments says: switching    *)
(* the library on arranges the enrollment of everybody with a photo.       *)
SwitchingOnEnrollsAll ==
  Filled => \A p \in People \ slips :
    Settled(p) /\ photo[p] # 0 => (library[p] # 0 \/ Waiting(p))

(* What the comment on lock_project says of the lock: once the library of  *)
(* a project has been emptied, no task that was running puts a face back.  *)
(* The pass excuses a call that was carried out after its caller gave up.  *)
ClearedStaysEmpty == cleared => \A p \in People \ slips : library[p] = 0

(* A library that nothing needs any more is empty in the end, whatever     *)
(* failed, was interrupted, or was carried out late: the cleaning comes    *)
(* back every 30 seconds to any project that needs none.                   *)
UnneededLibraryIsEmptied == <>[](~Enabled) => <>[](library = Empty)
=============================================================================

------------------------------ MODULE FaceProofs ------------------------------
(***************************************************************************)
(* What the enrollment queue promises, proved for any number of workers    *)
(* and people, any number of changes, requests and failures.               *)
(***************************************************************************)
EXTENDS FaceEnrollment, FiniteSetTheorems, SequenceTheorems, TLAPS

(* The advisory lock is held by who is working under it. *)
Held ==
  /\ \A s \in Sources : handlers[s].stage = "written" <=> lock = s
  /\ \A w \in Workers : enrolling[w].task # 0 <=> lock = w

(* While a call to the face service is made the library stays in use, and  *)
(* its task stays in process: it can get a new revision, no other outcome. *)
InHand ==
  \A w \in Workers : enrolling[w].task # 0 =>
    /\ Enabled /\ enrolling[w].task \in enrolling[w].batch
    /\ queue[enrolling[w].task].status = "processing"
    /\ enrolling[w].revision <= queue[enrolling[w].task].revision

(* A task in process has an attempt left. *)
Spared == \A t \in Tasks : queue[t].status = "processing" => queue[t].attempts < MaxAttempts

(* Another task than t is about p. *)
WaitingBut(p, t) ==
  \E u \in Tasks \ {t} : queue[u].person = p /\ queue[u].status \in Active \cup {"failed"}

(* The photo a call was made with is still the person's, unless the task   *)
(* or another one tells that it has changed.                               *)
ReadIsCurrent ==
  \A w \in Workers : enrolling[w].task # 0 =>
    \/ Called(w) \in slips
    \/ enrolling[w].revision < queue[enrolling[w].task].revision
    \/ enrolling[w].photo = photo[Called(w)]
    \/ WaitingBut(Called(w), enrolling[w].task)

(* The library was switched on, and is still to be filled. *)
ToFill == \E s \in Sources : handlers[s].stage = "written" /\ Fills(s)
(* EnabledMeansEnrolled in every state of a library in use: until it has   *)
(* been filled, those without a photo are not in it.                       *)
Enrolled ==
  Enabled /\ ~stale => \A p \in People \ slips :
     library[p] = photo[p] \/ Waiting(p) \/ (photo[p] # 0 /\ ToFill)
(* ClearedStaysEmpty, and why: nothing enrolls in a library not in use. *)
OffAndEmpty == cleared => ~Enabled /\ \A p \in People \ slips : library[p] = 0
(* The inductive invariant. *)
FaceInv == TypeOK /\ Held /\ InHand /\ Spared /\ ReadIsCurrent /\ Enrolled /\ OffAndEmpty

-----------------------------------------------------------------------------
(* A function over 1..n is a sequence. *)
LEMMA SeqIsFunction ==
  ASSUME NEW S, NEW n \in Nat, NEW f \in [1..n -> S]
  PROVE  f \in Seq(S) /\ Len(f) = n /\ DOMAIN f = 1..n
BY SeqDef

(* The queue maps the numbers from 1 on to tasks. *)
LEMMA QueueIsFunction ==
  ASSUME NEW q \in Seq(Task)
  PROVE  /\ Len(q) \in Nat /\ DOMAIN q = 1..Len(q)
         /\ \A t \in DOMAIN q : q[t] \in Task
         /\ 0 \notin DOMAIN q
BY LenProperties, ElementOfSeq

(* r is q with tasks put behind it, or revised where they are. *)
Extends(q, r) ==
  /\ r \in Seq(Task) /\ DOMAIN q \subseteq DOMAIN r
  /\ \A t \in DOMAIN q : /\ r[t].person = q[t].person /\ r[t].status = q[t].status
                         /\ r[t].revision >= q[t].revision /\ r[t].attempts <= q[t].attempts
  /\ \A t \in DOMAIN r \ DOMAIN q : r[t].status = "pending"

(* r has a task of p that is new, or newer than it was in q. *)
Noted(q, r, p) ==
  \E t \in DOMAIN r : /\ r[t].person = p /\ r[t].status \in Active
                      /\ t \in DOMAIN q => q[t].revision < r[t].revision

(* The fields of a task. *)
LEMMA TaskFields ==
  ASSUME NEW x \in Task
  PROVE  /\ x.person \in People /\ x.action \in {"upsert", "delete"} /\ x.revision \in Nat
         /\ x.status \in Active \cup {"synced", "failed", "cancelled"}
         /\ x.attempts \in 0..MaxAttempts /\ x.attempts \in Nat
BY AttemptsAssumption DEF Task

(* ON CONFLICT ... DO UPDATE of enqueue_construction_face_enrollment. *)
LEMMA RevisedTask ==
  ASSUME NEW x \in Task
  PROVE  LET y == [x EXCEPT !.revision = x.revision + 1, !.attempts = 0]
         IN y \in Task /\ y.person = x.person /\ y.status = x.status /\ x.revision < y.revision
            /\ y.attempts <= x.attempts
<1> DEFINE y == [x EXCEPT !.revision = x.revision + 1, !.attempts = 0]
<1>1. /\ y.person = x.person /\ y.status = x.status /\ y.revision = x.revision + 1 /\ y.attempts = 0
  BY DEF Task
<1>2. y \in Task
  <2> DEFINE z == [x EXCEPT !.revision = x.revision + 1]
  <2>1. z \in Task
    BY DEF Task
  <2>2. \A v \in Task : [v EXCEPT !.attempts = 0] \in Task
    BY AttemptsAssumption DEF Task
  <2>3. [z EXCEPT !.attempts = 0] \in Task
    <3> HIDE DEF z
    <3> QED
      BY <2>1, <2>2
  <2> QED
    BY <2>3
<1> HIDE DEF y
<1> QED
  BY <1>1, <1>2, TaskFields DEF y

(* Queueing a change keeps the tasks there are, and notes the person. *)
LEMMA QueuedNotes ==
  ASSUME NEW q \in Seq(Task), NEW p \in People, NEW action \in {"upsert", "delete"}
  PROVE  Extends(q, Queued(q, p, action)) /\ Noted(q, Queued(q, p, action), p)
<1> DEFINE r == Queued(q, p, action)
<1>0. Len(q) \in Nat /\ DOMAIN q = 1..Len(q) /\ \A t \in DOMAIN q : q[t] \in Task
  BY QueueIsFunction
<1>1. NewTask(p, action) \in Task
  BY AttemptsAssumption DEF NewTask, Task, Active
<1>2. CASE ActiveTask(q, p, action) = {}
  <2>1. r = Append(q, NewTask(p, action))
    BY <1>2 DEF Queued
  <2>2. /\ r \in Seq(Task) /\ DOMAIN r = 1..(Len(q) + 1)
        /\ \A t \in DOMAIN q : r[t] = q[t]
        /\ r[Len(q) + 1] = NewTask(p, action)
    BY <2>1, <1>0, <1>1, AppendProperties
  <2>3. Extends(q, r)
    BY <2>2, <1>0, <1>1 DEF Extends, NewTask, Task
  <2>4. Noted(q, r, p)
    BY <2>2, <1>0 DEF Noted, NewTask, Active
  <2> QED
    BY <2>3, <2>4
<1>3. CASE ActiveTask(q, p, action) # {}
  <2>1. r = [t \in DOMAIN q |-> IF t \in ActiveTask(q, p, action)
                           THEN [q[t] EXCEPT !.revision = @ + 1, !.attempts = 0] ELSE q[t]]
    BY <1>3 DEF Queued
  <2>2. \A t \in DOMAIN q : r[t] = IF t \in ActiveTask(q, p, action)
                           THEN [q[t] EXCEPT !.revision = q[t].revision + 1, !.attempts = 0] ELSE q[t]
    BY <2>1
  <2> HIDE DEF r
  <2>3. \A t \in DOMAIN q : r[t] \in Task
    BY <2>2, <1>0, RevisedTask
  <2>4. r \in Seq(Task) /\ DOMAIN r = DOMAIN q
    BY <2>1, <2>3, <1>0, SeqIsFunction
  <2>5. \A t \in DOMAIN q : /\ r[t].person = q[t].person /\ r[t].status = q[t].status
                            /\ r[t].revision >= q[t].revision /\ r[t].attempts <= q[t].attempts
    <3> TAKE t \in DOMAIN q
    <3>0. q[t] \in Task
      BY <1>0
    <3>1. CASE t \in ActiveTask(q, p, action)
      <4>1. r[t] = [q[t] EXCEPT !.revision = q[t].revision + 1, !.attempts = 0]
        BY <3>1, <2>2
      <4>2. q[t].revision \in Nat /\ r[t] \in Task /\ q[t].revision < r[t].revision
        BY <3>0, <4>1, RevisedTask, TaskFields
      <4>3. r[t].revision \in Nat
        BY <4>2, TaskFields
      <4>4. r[t].person = q[t].person /\ r[t].status = q[t].status /\ r[t].attempts <= q[t].attempts
        BY <3>0, <4>1, RevisedTask
      <4> QED
        BY <4>2, <4>3, <4>4
    <3>2. CASE t \notin ActiveTask(q, p, action)
      <4>1. r[t] = q[t]
        BY <3>2, <2>2
      <4>2. q[t].revision \in Nat /\ q[t].attempts \in Nat
        BY <3>0, TaskFields
      <4> QED
        BY <4>1, <4>2
    <3> QED
      BY <3>1, <3>2
  <2>6. Extends(q, r)
    BY <2>4, <2>5 DEF Extends
  <2>7. PICK t \in DOMAIN q : t \in ActiveTask(q, p, action)
    BY <1>3 DEF ActiveTask
  <2>8. q[t].revision < r[t].revision
    BY <2>2, <2>7, <1>0, RevisedTask
  <2>9. Noted(q, r, p)
    BY <2>4, <2>5, <2>7, <2>8 DEF Noted, ActiveTask
  <2> QED
    BY <2>6, <2>9 DEF r
<1> QED
  BY <1>2, <1>3

(* The sequence of a finite set has all its elements. *)
LEMMA SetToSeqIsOnto ==
  ASSUME NEW S, IsFiniteSet(S)
  PROVE  /\ SetToSeq(S) \in Seq(S) /\ Len(SetToSeq(S)) = Cardinality(S)
         /\ \A x \in S : \E i \in 1..Len(SetToSeq(S)) : SetToSeq(S)[i] = x
<1>1. Cardinality(S) \in Nat /\ ExistsBijection(1..Cardinality(S), S)
  BY FS_CardinalityType
<1>2. PICK f : f \in Bijection(1..Cardinality(S), S)
  BY <1>1 DEF ExistsBijection
<1>3. f \in [1..Cardinality(S) -> S] /\ IsInjective(f)
  BY <1>2 DEF Bijection, Injection, IsInjective, Surjection
<1>4. SetToSeq(S) \in [1..Cardinality(S) -> S] /\ IsInjective(SetToSeq(S))
  BY <1>3 DEF SetToSeq
<1>5. SetToSeq(S) \in Injection(1..Cardinality(S), S)
  BY <1>4 DEF Injection, IsInjective
<1>6. IsFiniteSet(1..Cardinality(S)) /\ Cardinality(1..Cardinality(S)) = Cardinality(S)
  BY <1>1, FS_Interval
<1>7. SetToSeq(S) \in Surjection(1..Cardinality(S), S)
  BY <1>5, <1>6, FS_Injection
<1> QED
  BY <1>1, <1>4, <1>7, SeqIsFunction DEF Surjection

(* Filling keeps the tasks there are, and leaves a task to each person     *)
(* with a photo.                                                           *)
LEMMA QueuedForAllNotes ==
  ASSUME NEW q \in Seq(Task)
  PROVE  /\ Extends(q, QueuedForAll(q))
         /\ \A p \in People : photo[p] # 0 =>
              \E t \in DOMAIN QueuedForAll(q) :
                 QueuedForAll(q)[t].person = p /\ QueuedForAll(q)[t].status \in Active
<1> DEFINE M == {p \in People : photo[p] # 0 /\ ActiveTask(q, p, "upsert") = {}}
           m == SetToSeq(M)
           n == [i \in DOMAIN m |-> NewTask(m[i], "upsert")]
<1>0. Len(q) \in Nat /\ DOMAIN q = 1..Len(q) /\ \A t \in DOMAIN q : q[t] \in Task
  BY QueueIsFunction
<1>1. IsFiniteSet(M)
  BY PeopleAssumption, FS_Subset
<1>2. /\ m \in Seq(M) /\ Len(m) \in Nat /\ DOMAIN m = 1..Len(m)
      /\ \A x \in M : \E i \in 1..Len(m) : m[i] = x
  <2> HIDE DEF M
  <2> QED
    BY <1>1, SetToSeqIsOnto, LenProperties
<1>3. \A i \in DOMAIN m : m[i] \in People
  BY <1>2, ElementOfSeq
<1> HIDE DEF m
<1>4. \A i \in DOMAIN m : n[i] \in Task /\ n[i].person = m[i] /\ n[i].status = "pending"
  <2>1. \A i \in DOMAIN m : n[i] = NewTask(m[i], "upsert")
    OBVIOUS
  <2>2. \A x \in People : NewTask(x, "upsert") \in Task
    BY AttemptsAssumption DEF NewTask, Task, Active
  <2> QED
    BY <1>3, <2>1, <2>2 DEF NewTask
<1>5. n \in Seq(Task) /\ Len(n) = Len(m) /\ DOMAIN n = 1..Len(m)
  <2>1. n \in [1..Len(m) -> Task]
    BY <1>2, <1>4
  <2> QED
    BY <2>1, <1>2, SeqIsFunction
<1>6. QueuedForAll(q) = q \o n
  BY DEF QueuedForAll, m
<1> HIDE DEF n
<1>7. /\ q \o n \in Seq(Task) /\ Len(q \o n) = Len(q) + Len(m)
      /\ \A i \in 1 .. Len(q) + Len(m) : (q \o n)[i] = IF i <= Len(q) THEN q[i] ELSE n[i - Len(q)]
  <2>1. /\ q \o n \in Seq(Task) /\ Len(q \o n) = Len(q) + Len(n)
        /\ \A i \in 1 .. Len(q) + Len(n) : (q \o n)[i] = IF i <= Len(q) THEN q[i] ELSE n[i - Len(q)]
    BY <1>5, ConcatProperties
  <2> QED
    BY <2>1, <1>5
<1>8. DOMAIN (q \o n) = 1 .. Len(q) + Len(m)
  BY <1>7, LenProperties
<1>9. Extends(q, q \o n)
  <2>1. \A t \in DOMAIN q : (q \o n)[t] = q[t]
    BY <1>0, <1>2, <1>7
  <2>2. \A t \in DOMAIN (q \o n) \ DOMAIN q : (q \o n)[t] = n[t - Len(q)] /\ t - Len(q) \in DOMAIN m
    BY <1>0, <1>2, <1>7, <1>8
  <2>3. \A t \in DOMAIN (q \o n) \ DOMAIN q : (q \o n)[t].status = "pending"
    BY <2>2, <1>4
  <2> QED
    BY <2>1, <2>3, <1>0, <1>2, <1>7, <1>8 DEF Extends, Task
<1>10. ASSUME NEW p \in People, photo[p] # 0
       PROVE \E t \in DOMAIN (q \o n) : (q \o n)[t].person = p /\ (q \o n)[t].status \in Active
  <2>1. CASE p \in M
    <3>1. PICK i \in 1..Len(m) : m[i] = p
      BY <2>1, <1>2
    <3>2. Len(q) + i \in DOMAIN (q \o n) /\ (q \o n)[Len(q) + i] = n[i]
      BY <3>1, <1>0, <1>2, <1>7, <1>8
    <3> QED
      BY <3>1, <3>2, <1>2, <1>4 DEF Active
  <2>2. CASE p \notin M
    <3>1. PICK t \in DOMAIN q : q[t].person = p /\ q[t].status \in Active
      BY <2>2, <1>10 DEF ActiveTask
    <3> QED
      BY <3>1, <1>9 DEF Extends
  <2> QED
    BY <2>1, <2>2
<1> QED
  BY <1>6, <1>9, <1>10

-----------------------------------------------------------------------------
(* What the invariant speaks of besides the types. *)
rest == <<switch, photo, queue, lock, handlers, enrolling, library, history>>

(* Steps that change nothing the invariant speaks of. *)
LEMMA Frame ==
  ASSUME FaceInv, UNCHANGED rest
  PROVE  Held' /\ InHand' /\ Spared' /\ ReadIsCurrent' /\ Enrolled' /\ OffAndEmpty'
<1> USE DEF FaceInv, rest, history
<1>1. Held'
  BY DEF Held
<1>2. InHand'
  BY DEF InHand, Enabled
<1>3. Spared'
  BY DEF Spared, Tasks
<1>4. ReadIsCurrent'
  BY DEF ReadIsCurrent, Called, WaitingBut, Tasks
<1>5. Enrolled'
  BY DEF Enrolled, Enabled, Waiting, Tasks, ToFill, Fills
<1>6. OffAndEmpty'
  BY DEF OffAndEmpty, Enabled
<1> QED
  BY <1>1, <1>2, <1>3, <1>4, <1>5, <1>6

(* What the types say of the tasks, and of those in hand. *)
LEMMA Typed ==
  ASSUME TypeOK
  PROVE  /\ queue \in Seq(Task) /\ Tasks = DOMAIN queue /\ 0 \notin Tasks
         /\ \A t \in Tasks : queue[t] \in Task
         /\ \A w \in Workers : /\ enrolling[w].task # 0 => enrolling[w].task \in Tasks
                               /\ enrolling[w].revision \in Nat /\ enrolling[w].photo \in Photos
                               /\ enrolling[w].batch \subseteq Tasks
         /\ \A w \in Workers : enrolling[w].task # 0 => Called(w) \in People
<1>1. queue \in Seq(Task) /\ Tasks = DOMAIN queue
  BY DEF TypeOK, Tasks
<1>2. 0 \notin Tasks /\ \A t \in Tasks : queue[t] \in Task
  BY <1>1, QueueIsFunction
<1>3. \A w \in Workers : /\ enrolling[w].task # 0 => enrolling[w].task \in Tasks
                         /\ enrolling[w].revision \in Nat /\ enrolling[w].photo \in Photos
                         /\ enrolling[w].batch \subseteq Tasks
  BY DEF TypeOK, Worker
<1>4. \A w \in Workers : enrolling[w].task # 0 => Called(w) \in People
  BY <1>2, <1>3, TaskFields DEF Called
<1> QED
  BY <1>1, <1>2, <1>3, <1>4

(* When the queue grows, what workers have in hand stays so. *)
LEMMA Grown ==
  ASSUME FaceInv, Extends(queue, queue'), UNCHANGED <<switch, enrolling>>
  PROVE  /\ InHand' /\ Spared'
         /\ \A p \in People : Waiting(p) => Waiting(p)'
         /\ UNCHANGED photo /\ slips \subseteq slips' => ReadIsCurrent'
         /\ \A w \in Workers : enrolling[w].task # 0 => Called(w)' = Called(w)
         /\ queue' \in Seq(Task) /\ enrolling' \in [Workers -> Worker']
<1>0. /\ queue \in Seq(Task) /\ Tasks = DOMAIN queue /\ 0 \notin Tasks
      /\ \A t \in Tasks : queue[t] \in Task
      /\ \A w \in Workers : /\ enrolling[w].task # 0 => enrolling[w].task \in Tasks
                            /\ enrolling[w].revision \in Nat
  BY Typed DEF FaceInv
<1>1. /\ queue' \in Seq(Task) /\ Tasks' = DOMAIN queue' /\ Tasks \subseteq Tasks'
      /\ \A t \in Tasks : /\ queue'[t].person = queue[t].person /\ queue'[t].status = queue[t].status
                          /\ queue'[t].revision >= queue[t].revision /\ queue'[t].attempts <= queue[t].attempts
      /\ \A t \in Tasks' \ Tasks : queue'[t].status = "pending"
  BY <1>0 DEF Extends, Tasks
<1>2. \A t \in Tasks' : queue'[t] \in Task
  BY <1>1, QueueIsFunction
<1>3. InHand'
  <2> SUFFICES ASSUME NEW w \in Workers, enrolling[w].task # 0
               PROVE  /\ Enabled' /\ enrolling'[w].task \in enrolling'[w].batch
                      /\ queue'[enrolling'[w].task].status = "processing"
                      /\ enrolling'[w].revision <= queue'[enrolling'[w].task].revision
    BY DEF InHand
  <2> DEFINE t == enrolling[w].task
  <2>1. /\ Enabled /\ t \in enrolling[w].batch /\ queue[t].status = "processing"
        /\ enrolling[w].revision <= queue[t].revision
    BY DEF FaceInv, InHand
  <2>2. t \in Tasks /\ enrolling[w].revision \in Nat
    BY <1>0
  <2>3. queue[t].revision \in Nat /\ queue'[t].revision \in Nat
    BY <2>2, <1>0, <1>1, <1>2, TaskFields
  <2>4. enrolling[w].revision <= queue'[t].revision
    BY <2>1, <2>2, <2>3, <1>1
  <2> QED
    BY <2>1, <2>2, <2>4, <1>1 DEF Enabled
<1>4. Spared'
  <2> SUFFICES ASSUME NEW t \in Tasks', queue'[t].status = "processing"
               PROVE  queue'[t].attempts < MaxAttempts
    BY DEF Spared
  <2>1. t \in Tasks /\ queue[t].status = "processing"
    BY <1>1
  <2>2. queue[t].attempts < MaxAttempts
    BY <2>1 DEF FaceInv, Spared
  <2>3. queue[t].attempts \in Nat /\ queue'[t].attempts \in Nat
    BY <2>1, <1>0, <1>2, TaskFields
  <2> QED
    BY <2>1, <2>2, <2>3, <1>1, AttemptsAssumption
<1>5. \A p \in People : Waiting(p) => Waiting(p)'
  BY <1>1 DEF Waiting
<1>6. \A w \in Workers : enrolling[w].task # 0 => Called(w)' = Called(w)
  BY <1>0, <1>1 DEF Called
<1>7. ASSUME UNCHANGED photo, slips \subseteq slips'
      PROVE  ReadIsCurrent'
  <2> SUFFICES ASSUME NEW w \in Workers, enrolling[w].task # 0
               PROVE  \/ Called(w) \in slips'
                      \/ enrolling[w].revision < queue'[enrolling[w].task].revision
                      \/ enrolling[w].photo = photo[Called(w)]
                      \/ \E u \in Tasks' \ {enrolling[w].task} :
                           queue'[u].person = Called(w) /\ queue'[u].status \in Active \cup {"failed"}
    BY <1>6, <1>7 DEF ReadIsCurrent, WaitingBut
  <2> DEFINE t == enrolling[w].task
  <2>1. t \in Tasks /\ enrolling[w].revision \in Nat /\ queue[t].revision \in Nat
    BY <1>0, TaskFields
  <2>2. queue'[t].revision \in Nat /\ queue[t].revision <= queue'[t].revision
    BY <2>1, <1>1, <1>2, TaskFields
  <2>3. WaitingBut(Called(w), t) =>
          \E u \in Tasks' \ {t} : queue'[u].person = Called(w) /\ queue'[u].status \in Active \cup {"failed"}
    BY <1>1 DEF WaitingBut
  <2>4. enrolling[w].revision < queue[t].revision => enrolling[w].revision < queue'[t].revision
    BY <2>1, <2>2
  <2> QED
    BY <2>3, <2>4, <1>7 DEF FaceInv, ReadIsCurrent
<1>8. Worker \subseteq Worker'
  BY <1>1 DEF Worker
<1>9. enrolling' \in [Workers -> Worker']
  BY <1>8 DEF FaceInv, TypeOK
<1> QED
  BY <1>1, <1>3, <1>4, <1>5, <1>6, <1>7, <1>9

-----------------------------------------------------------------------------
(* A transaction that is open has changed nothing that others see. *)
LEMMA EditPhotoKeeps ==
  ASSUME FaceInv, NEW p \in People, EditPhoto(p)
  PROVE  FaceInv'
<1>1. TypeOK'
  <2>1. photos' \in 0..MaxPhotos /\ photos + 1 \in Photos
    BY BoundsAssumption DEF FaceInv, TypeOK, EditPhoto, Photos
  <2>2. PICK to \in {0, photos + 1} \ {photo[p]} :
          edits' = edits \cup {[person |-> p, photo |-> to, queued |-> Enabled]}
    BY DEF EditPhoto
  <2>3. to \in Photos
    BY <2>1, <2>2, BoundsAssumption DEF Photos
  <2>4. Enabled \in BOOLEAN
    BY DEF Enabled
  <2>5. [person |-> p, photo |-> to, queued |-> Enabled] \in Edit
    BY <2>3, <2>4 DEF Edit
  <2>6. edits' \subseteq Edit
    BY <2>2, <2>5 DEF FaceInv, TypeOK
  <2> QED
    BY <2>1, <2>6 DEF FaceInv, TypeOK, EditPhoto, history, Worker, Tasks
<1>2. UNCHANGED rest
  BY DEF EditPhoto, rest, history
<1> QED
  BY <1>1, <1>2, Frame DEF FaceInv

(* A change that was queued is noted, another is a slip if the library is  *)
(* in use: a photo read before it is not taken for the person's.           *)
LEMMA CommitEditKeeps ==
  ASSUME FaceInv, NEW e \in edits, CommitEdit(e)
  PROVE  FaceInv'
<1>0. TypeOK /\ Held /\ InHand /\ Spared /\ ReadIsCurrent /\ Enrolled /\ OffAndEmpty
  BY DEF FaceInv
<1>1. e.person \in People /\ e.photo \in Photos /\ e.queued \in BOOLEAN
  BY <1>0 DEF TypeOK, Edit
<1>2. queue \in Seq(Task) /\ (\A t \in Tasks : queue[t] \in Task) /\ Tasks = DOMAIN queue
  BY <1>0, Typed
<1>3. Extends(queue, queue') /\ (e.queued => Noted(queue, queue', e.person))
  <2>1. CASE e.queued
    BY <2>1, <1>1, <1>2, QueuedNotes DEF CommitEdit
  <2>2. CASE ~e.queued
    <3>1. queue' = queue
      BY <2>2 DEF CommitEdit
    <3>2. Extends(queue, queue)
      BY <1>2, TaskFields DEF Extends
    <3> QED
      BY <2>2, <3>1, <3>2
  <2> QED
    BY <2>1, <2>2
<1>4. UNCHANGED <<switch, lock, handlers, retrying, enrolling, cleaning, library, late, bounds, cleared, stale>>
  BY DEF CommitEdit
<1>5. /\ InHand' /\ Spared'
      /\ \A p \in People : Waiting(p) => Waiting(p)'
      /\ \A w \in Workers : enrolling[w].task # 0 => Called(w)' = Called(w)
      /\ queue' \in Seq(Task) /\ enrolling' \in [Workers -> Worker']
  BY <1>3, <1>4, Grown
<1>6. slips \subseteq slips' /\ (Enabled /\ ~e.queued => e.person \in slips')
      /\ slips' \subseteq slips \cup {e.person}
  BY DEF CommitEdit
<1>7. \A p \in People \ {e.person} : photo'[p] = photo[p]
  BY <1>0 DEF CommitEdit, TypeOK
<1>8. TypeOK'
  <2>1. photo' \in [People -> Photos] /\ slips' \subseteq People /\ edits' \subseteq Edit
    BY <1>0, <1>1, <1>6 DEF TypeOK, CommitEdit
  <2> QED
    BY <2>1, <1>0, <1>4, <1>5 DEF TypeOK, bounds
<1>9. Held'
  BY <1>0, <1>4 DEF Held
<1>10. ReadIsCurrent'
  <2> SUFFICES ASSUME NEW w \in Workers, enrolling[w].task # 0
               PROVE  \/ Called(w) \in slips'
                      \/ enrolling[w].revision < queue'[enrolling[w].task].revision
                      \/ enrolling[w].photo = photo'[Called(w)]
                      \/ \E u \in Tasks' \ {enrolling[w].task} :
                           queue'[u].person = Called(w) /\ queue'[u].status \in Active \cup {"failed"}
    BY <1>4, <1>5 DEF ReadIsCurrent, WaitingBut
  <2> DEFINE t == enrolling[w].task
  <2>1. t \in Tasks /\ Called(w) \in People /\ enrolling[w].revision \in Nat /\ queue[t].revision \in Nat
    BY <1>0, <1>2, Typed, TaskFields
  <2>2. queue'[t].revision \in Nat /\ queue[t].revision <= queue'[t].revision
    BY <2>1, <1>2, <1>3, QueueIsFunction, TaskFields DEF Extends
  <2>3. Enabled /\ enrolling[w].revision <= queue[t].revision
    BY <1>0 DEF InHand
  <2>4. CASE Called(w) # e.person
    <3>1. WaitingBut(Called(w), t) =>
            \E u \in Tasks' \ {t} : queue'[u].person = Called(w) /\ queue'[u].status \in Active \cup {"failed"}
      BY <1>2, <1>3 DEF WaitingBut, Extends, Tasks
    <3>2. enrolling[w].revision < queue[t].revision => enrolling[w].revision < queue'[t].revision
      BY <2>1, <2>2
    <3> QED
      BY <2>1, <2>4, <3>1, <3>2, <1>0, <1>6, <1>7 DEF ReadIsCurrent
  <2>5. CASE Called(w) = e.person /\ ~e.queued
    BY <2>3, <2>5, <1>6
  <2>6. CASE Called(w) = e.person /\ e.queued
    <3>1. PICK u \in DOMAIN queue' : /\ queue'[u].person = e.person /\ queue'[u].status \in Active
                                     /\ u \in DOMAIN queue => queue[u].revision < queue'[u].revision
      BY <2>6, <1>3 DEF Noted
    <3>2. CASE u = t
      BY <3>1, <3>2, <2>1, <2>2, <2>3, <1>2
    <3>3. CASE u # t
      BY <3>1, <3>3, <2>6 DEF WaitingBut, Tasks
    <3> QED
      BY <3>2, <3>3
  <2> QED
    BY <2>4, <2>5, <2>6
<1>11. Enrolled'
  <2> SUFFICES ASSUME Enabled, ~stale, NEW p \in People \ slips'
               PROVE  library[p] = photo'[p] \/ Waiting(p)' \/ (photo'[p] # 0 /\ ToFill')
    BY <1>4 DEF Enrolled, Enabled
  <2>1. ToFill' <=> ToFill
    BY <1>4 DEF ToFill, Fills, Enabled
  <2>2. CASE p # e.person
    BY <2>1, <2>2, <1>0, <1>5, <1>6, <1>7 DEF Enrolled
  <2>3. CASE p = e.person
    <3>1. e.queued
      BY <2>3, <1>6
    <3> QED
      BY <3>1, <2>3, <1>3 DEF Noted, Waiting, Tasks
  <2> QED
    BY <2>2, <2>3
<1>12. OffAndEmpty'
  BY <1>0, <1>4, <1>6 DEF OffAndEmpty, Enabled
<1> QED
  BY <1>5, <1>8, <1>9, <1>10, <1>11, <1>12 DEF FaceInv

(* A request that waits for the lock changes nothing. *)
LEMMA RequestSwitchKeeps ==
  ASSUME FaceInv, NEW s \in Sources, RequestSwitch(s)
  PROVE  FaceInv'
<1>0. TypeOK /\ Held /\ InHand /\ Spared /\ ReadIsCurrent /\ Enrolled /\ OffAndEmpty
  BY DEF FaceInv
<1>1. UNCHANGED <<switch, photo, edits, queue, lock, retrying, enrolling, cleaning, library, late, photos, failures, history>>
  BY DEF RequestSwitch
<1>2. /\ handlers' = [handlers EXCEPT ![s] = [stage |-> "waiting", on |-> ~switch[s], was |-> Enabled]]
      /\ handlers[s].stage = "idle"
  BY DEF RequestSwitch, NoHandler
<1>3. TypeOK'
  <2>1. Enabled \in BOOLEAN /\ (~switch[s]) \in BOOLEAN
    <3>1. Enabled \in BOOLEAN
      BY DEF Enabled
    <3>2. switch[s] \in BOOLEAN
      BY <1>0 DEF TypeOK
    <3> QED
      BY <3>1, <3>2
  <2>2. [stage |-> "waiting", on |-> ~switch[s], was |-> Enabled] \in Handler
    BY <2>1 DEF Handler
  <2>3. handlers' \in [Sources -> Handler]
    BY <2>2, <1>0, <1>2 DEF TypeOK
  <2>4. requests' \in 0..MaxRequests
    BY <1>0, BoundsAssumption DEF TypeOK, RequestSwitch
  <2> QED
    BY <2>3, <2>4, <1>0, <1>1 DEF TypeOK, history, Worker, Tasks
<1>4. \A r \in Sources \ {s} : handlers'[r] = handlers[r]
  BY <1>0, <1>2 DEF TypeOK
<1>5. handlers'[s].stage = "waiting"
  BY <1>0, <1>2 DEF TypeOK
<1>6. Held'
  BY <1>0, <1>1, <1>2, <1>4, <1>5 DEF Held
<1>7. InHand' /\ Spared' /\ ReadIsCurrent' /\ OffAndEmpty'
  BY <1>0, <1>1 DEF InHand, Spared, ReadIsCurrent, OffAndEmpty, Enabled, Called, WaitingBut, Tasks, history
<1>8. ToFill => ToFill'
  BY <1>1, <1>2, <1>4 DEF ToFill, Fills, Enabled
<1>9. Enrolled'
  BY <1>0, <1>1, <1>8 DEF Enrolled, Enabled, Waiting, Tasks, history
<1> QED
  BY <1>3, <1>6, <1>7, <1>9 DEF FaceInv

(* Nobody is enrolling while a source is switched.  What switches the      *)
(* library on either fills it, or had seen it on before.                   *)
LEMMA WriteSwitchKeeps ==
  ASSUME FaceInv, NEW s \in Sources, WriteSwitch(s)
  PROVE  FaceInv'
<1>0. TypeOK /\ Held /\ InHand /\ Spared /\ ReadIsCurrent /\ Enrolled /\ OffAndEmpty
  BY DEF FaceInv
<1>1. UNCHANGED <<photo, edits, queue, retrying, enrolling, cleaning, library, late, bounds>>
  BY DEF WriteSwitch
<1>2. /\ handlers' = [handlers EXCEPT ![s] = [stage |-> "written", on |-> handlers[s].on, was |-> Was(s)]]
      /\ lock = NULL /\ lock' = s
      /\ switch' = [switch EXCEPT ![s] = handlers[s].on]
  BY DEF WriteSwitch
<1>3. handlers[s].on \in BOOLEAN /\ handlers[s].was \in BOOLEAN /\ Was(s) \in BOOLEAN
  BY <1>0 DEF TypeOK, Handler, Was
<1>4. /\ handlers'[s].stage = "written" /\ handlers'[s].on = handlers[s].on /\ handlers'[s].was = Was(s)
      /\ \A r \in Sources \ {s} : handlers'[r] = handlers[r]
  BY <1>0, <1>2 DEF TypeOK
<1>5. /\ \A r \in Sources \ {s} : handlers'[r].stage # "written"
      /\ \A w \in Workers : enrolling[w].task = 0 /\ w # s
  BY <1>0, <1>2, <1>4, HoldersAssumption DEF Held, Sources
<1>6. switch'[s] = handlers[s].on /\ \A r \in Sources \ {s} : switch'[r] = switch[r]
  BY <1>0, <1>2 DEF TypeOK
<1>7. TypeOK'
  <2>1. [stage |-> "written", on |-> handlers[s].on, was |-> Was(s)] \in Handler
    BY <1>3 DEF Handler
  <2>2. handlers' \in [Sources -> Handler] /\ switch' \in [Sources -> BOOLEAN]
    BY <2>1, <1>0, <1>2, <1>3 DEF TypeOK
  <2>3. cleared' \in BOOLEAN /\ stale' \in BOOLEAN
    BY <1>0 DEF TypeOK, WriteSwitch
  <2>4. slips' \subseteq People
    BY <1>0 DEF TypeOK, WriteSwitch, Remembered
  <2> QED
    BY <2>2, <2>3, <2>4, <1>0, <1>1, <1>2 DEF TypeOK, bounds, Worker, Tasks
<1>8. Held'
  BY <1>1, <1>2, <1>4, <1>5 DEF Held
<1>9. InHand' /\ Spared' /\ ReadIsCurrent'
  BY <1>0, <1>1, <1>5 DEF InHand, Spared, ReadIsCurrent, Tasks
<1>10. slips \subseteq slips' /\ (stale => stale')
  BY DEF WriteSwitch
<1>11. Enrolled'
  <2> SUFFICES ASSUME Enabled', ~stale', NEW p \in People \ slips'
               PROVE  library[p] = photo[p] \/ Waiting(p)' \/ (photo[p] # 0 /\ ToFill')
    BY <1>1 DEF Enrolled
  <2>1. Waiting(p)' <=> Waiting(p)
    BY <1>1 DEF Waiting, Tasks
  <2>2. ~ToFill
    BY <1>0, <1>2, HoldersAssumption DEF ToFill, Held, Sources
  <2>3. CASE Enabled
    BY <2>1, <2>2, <2>3, <1>0, <1>10 DEF Enrolled
  <2>4. CASE ~Enabled
    <3>1. \A r \in Sources : switch[r] = FALSE
      BY <2>4, <1>0 DEF Enabled, TypeOK
    <3>2. handlers[s].on
      BY <3>1, <1>6 DEF Enabled
    <3>3. slips' = slips \cup Remembered
      BY <3>2, <2>4 DEF WriteSwitch
    <3>4. photo[p] = 0 => library[p] = 0 \/ Waiting(p)
      BY <3>3 DEF Remembered
    <3>5. ~(s = "settings" /\ handlers[s].was)
      BY <3>2, <2>4 DEF WriteSwitch
    <3>6. ~Was(s)
      BY <3>1, <3>5 DEF Was, Sources
    <3>7. ToFill'
      BY <3>2, <3>6, <1>4 DEF ToFill, Fills
    <3> QED
      BY <3>4, <3>7, <2>1
  <2> QED
    BY <2>3, <2>4
<1>12. OffAndEmpty'
  <2> SUFFICES ASSUME cleared' PROVE ~Enabled' /\ \A p \in People \ slips' : library[p] = 0
    BY <1>1 DEF OffAndEmpty
  <2>1. cleared /\ ~handlers[s].on
    BY DEF WriteSwitch
  <2>2. ~Enabled /\ \A p \in People \ slips : library[p] = 0
    BY <2>1, <1>0 DEF OffAndEmpty
  <2> QED
    BY <2>1, <2>2, <1>6, <1>10 DEF Enabled
<1> QED
  BY <1>7, <1>8, <1>9, <1>11, <1>12 DEF FaceInv

(* Filling leaves a task to everybody with a photo. *)
LEMMA FillLibraryKeeps ==
  ASSUME FaceInv, NEW s \in Sources, FillLibrary(s)
  PROVE  FaceInv'
<1>0. TypeOK /\ Held /\ InHand /\ Spared /\ ReadIsCurrent /\ Enrolled /\ OffAndEmpty
  BY DEF FaceInv
<1>1. UNCHANGED <<switch, photo, edits, retrying, enrolling, cleaning, library, late, bounds, history>>
  BY DEF FillLibrary
<1>2. /\ handlers[s].stage = "written" /\ lock' = NULL /\ handlers' = [handlers EXCEPT ![s] = NoHandler]
      /\ queue' = IF Fills(s) THEN QueuedForAll(queue) ELSE queue
  BY DEF FillLibrary
<1>3. queue \in Seq(Task) /\ (\A t \in Tasks : queue[t] \in Task) /\ Tasks = DOMAIN queue
  BY <1>0, Typed
<1>4. Extends(queue, queue')
  <2>1. Extends(queue, queue)
    BY <1>3, TaskFields DEF Extends
  <2> QED
    BY <2>1, <1>2, <1>3, QueuedForAllNotes
<1>5. /\ InHand' /\ Spared' /\ ReadIsCurrent'
      /\ \A p \in People : Waiting(p) => Waiting(p)'
      /\ queue' \in Seq(Task) /\ enrolling' \in [Workers -> Worker']
  BY <1>1, <1>4, Grown DEF history
<1>6. lock = s /\ \A r \in Sources \ {s} : handlers[r].stage # "written"
  BY <1>0, <1>2 DEF Held
<1>7. \A r \in Sources : handlers'[r].stage # "written"
  BY <1>0, <1>2, <1>6 DEF NoHandler, TypeOK
<1>8. \A w \in Workers : enrolling[w].task = 0 /\ w # NULL
  BY <1>0, <1>6, HoldersAssumption DEF Held, Sources
<1>9. TypeOK'
  <2>1. handlers' \in [Sources -> Handler]
    BY <1>0, <1>2 DEF TypeOK, NoHandler, Handler
  <2> QED
    BY <2>1, <1>0, <1>1, <1>2, <1>5 DEF TypeOK, bounds, history
<1>10. Held'
  BY <1>1, <1>2, <1>7, <1>8, HoldersAssumption DEF Held, Sources
<1>11. Enrolled'
  <2> SUFFICES ASSUME Enabled, ~stale, NEW p \in People \ slips
               PROVE  library[p] = photo[p] \/ Waiting(p)'
    BY <1>1 DEF Enrolled, Enabled, history
  <2>1. library[p] = photo[p] \/ Waiting(p) \/ (photo[p] # 0 /\ ToFill)
    BY <1>0 DEF Enrolled
  <2>2. CASE photo[p] # 0 /\ ToFill
    <3>1. Fills(s)
      BY <2>2, <1>6 DEF ToFill
    <3>2. \E t \in DOMAIN queue' : queue'[t].person = p /\ queue'[t].status \in Active
      BY <3>1, <2>2, <1>2, <1>3, QueuedForAllNotes
    <3> QED
      BY <3>2 DEF Waiting, Tasks
  <2> QED
    BY <2>1, <2>2, <1>5
<1>12. OffAndEmpty'
  BY <1>0, <1>1 DEF OffAndEmpty, Enabled, history
<1> QED
  BY <1>5, <1>9, <1>10, <1>11, <1>12 DEF FaceInv

(* An interrupted filling excuses everybody. *)
LEMMA FillInterruptedKeeps ==
  ASSUME FaceInv, NEW s \in Sources, FillInterrupted(s)
  PROVE  FaceInv'
<1>0. TypeOK /\ Held /\ InHand /\ Spared /\ ReadIsCurrent /\ Enrolled /\ OffAndEmpty
  BY DEF FaceInv
<1>1. /\ UNCHANGED <<switch, photo, edits, queue, retrying, enrolling, cleaning, library, late, photos, requests, cleared, stale>>
      /\ handlers[s].stage = "written" /\ lock' = NULL /\ handlers' = [handlers EXCEPT ![s] = NoHandler]
      /\ slips' = People /\ failures < MaxFailures /\ failures' = failures + 1
  BY DEF FillInterrupted, Fail
<1>2. lock = s /\ \A r \in Sources \ {s} : handlers[r].stage # "written"
  BY <1>0, <1>1 DEF Held
<1>3. \A r \in Sources : handlers'[r].stage # "written"
  BY <1>0, <1>1, <1>2 DEF NoHandler, TypeOK
<1>4. \A w \in Workers : enrolling[w].task = 0 /\ w # NULL
  BY <1>0, <1>2, HoldersAssumption DEF Held, Sources
<1>5. TypeOK'
  <2>1. handlers' \in [Sources -> Handler]
    BY <1>0, <1>1 DEF TypeOK, NoHandler, Handler
  <2>2. failures' \in 0..MaxFailures
    BY <1>0, <1>1, BoundsAssumption DEF TypeOK
  <2> QED
    BY <2>1, <2>2, <1>0, <1>1 DEF TypeOK, Worker, Tasks
<1>6. Held'
  BY <1>1, <1>3, <1>4, HoldersAssumption DEF Held, Sources
<1>7. InHand' /\ Spared' /\ ReadIsCurrent'
  BY <1>0, <1>1, <1>4 DEF InHand, Spared, ReadIsCurrent, Tasks
<1>8. Enrolled' /\ OffAndEmpty'
  BY <1>0, <1>1 DEF Enrolled, OffAndEmpty, Enabled
<1> QED
  BY <1>5, <1>6, <1>7, <1>8 DEF FaceInv

(* The retry request looks, *)
LEMMA RequestRetryKeeps ==
  ASSUME FaceInv, RequestRetry
  PROVE  FaceInv'
<1>1. TypeOK'
  BY BoundsAssumption DEF FaceInv, TypeOK, RequestRetry, history, Worker, Tasks
<1>2. UNCHANGED rest
  BY DEF RequestRetry, rest, history
<1> QED
  BY <1>1, <1>2, Frame DEF FaceInv

(* and then fills, whatever has become of the library. *)
LEMMA RetryFacesKeeps ==
  ASSUME FaceInv, RetryFaces
  PROVE  FaceInv'
<1>0. TypeOK /\ Held /\ InHand /\ Spared /\ ReadIsCurrent /\ Enrolled /\ OffAndEmpty
  BY DEF FaceInv
<1>1. /\ UNCHANGED <<switch, photo, edits, lock, handlers, enrolling, cleaning, library, late, bounds, history>>
      /\ queue' = QueuedForAll(queue) /\ retrying' = FALSE
  BY DEF RetryFaces
<1>2. Extends(queue, queue')
  BY <1>0, <1>1, Typed, QueuedForAllNotes
<1>3. /\ InHand' /\ Spared' /\ ReadIsCurrent'
      /\ \A p \in People : Waiting(p) => Waiting(p)'
      /\ queue' \in Seq(Task) /\ enrolling' \in [Workers -> Worker']
  BY <1>1, <1>2, Grown DEF history
<1>4. TypeOK'
  BY <1>0, <1>1, <1>3 DEF TypeOK, bounds, history
<1>5. Held' /\ OffAndEmpty'
  BY <1>0, <1>1 DEF Held, OffAndEmpty, Enabled, history
<1>6. ToFill' <=> ToFill
  BY <1>1 DEF ToFill, Fills, Enabled
<1>7. Enrolled'
  BY <1>0, <1>1, <1>3, <1>6 DEF Enrolled, Enabled, history
<1> QED
  BY <1>3, <1>4, <1>5, <1>7 DEF FaceInv

-----------------------------------------------------------------------------
(* A task that is claimed, again or not, is as active as before. *)
LEMMA ClaimTasksKeeps ==
  ASSUME FaceInv, NEW w \in Workers, ClaimTasks(w)
  PROVE  FaceInv'
<1>0. TypeOK /\ Held /\ InHand /\ Spared /\ ReadIsCurrent /\ Enrolled /\ OffAndEmpty
  BY DEF FaceInv
<1>1. UNCHANGED <<switch, photo, edits, lock, handlers, retrying, cleaning, library, late, photos, requests, history>>
  BY DEF ClaimTasks
<1>2. PICK due \in SUBSET Tasks :
        /\ \A t \in due : queue[t].attempts < MaxAttempts /\ queue[t].status \in {"pending", "failed", "processing"}
        /\ queue' = [t \in Tasks |-> IF t \in due THEN [queue[t] EXCEPT !.status = "processing"] ELSE queue[t]]
        /\ enrolling' = [enrolling EXCEPT ![w].batch = due]
        /\ failures' \in {failures, failures + 1} /\ (failures' # failures => failures < MaxFailures)
  <2>1. PICK overrun \in BOOLEAN :
       /\ IF overrun THEN Fail ELSE UNCHANGED failures
       /\ LET due == {t \in Tasks : /\ queue[t].attempts < MaxAttempts
                                    /\ \/ queue[t].status \in {"pending", "failed"}
                                       \/ queue[t].status = "processing" /\ (overrun \/ Abandoned(t))}
          IN /\ queue' = [t \in Tasks |-> IF t \in due THEN [queue[t] EXCEPT !.status = "processing"]
                                          ELSE queue[t]]
             /\ enrolling' = [enrolling EXCEPT ![w].batch = due]
    BY DEF ClaimTasks
  <2>2. failures' \in {failures, failures + 1} /\ (failures' # failures => failures < MaxFailures)
    BY <2>1 DEF Fail
  <2> QED
    BY <2>1, <2>2
<1>3. /\ queue \in Seq(Task) /\ Tasks = DOMAIN queue /\ Len(queue) \in Nat /\ Tasks = 1..Len(queue)
      /\ \A t \in Tasks : queue[t] \in Task
      /\ \A v \in Workers : enrolling[v].task # 0 => enrolling[v].task \in Tasks
  BY <1>0, Typed, QueueIsFunction
<1>4. \A t \in Tasks : queue'[t] = IF t \in due THEN [queue[t] EXCEPT !.status = "processing"] ELSE queue[t]
  BY <1>2
<1>5. \A t \in Tasks : queue'[t] \in Task
  <2>1. \A x \in Task : [x EXCEPT !.status = "processing"] \in Task
    BY DEF Task, Active
  <2> QED
    BY <2>1, <1>3, <1>4
<1>6. queue' \in Seq(Task) /\ Tasks' = Tasks
  BY <1>2, <1>3, <1>5, SeqIsFunction DEF Tasks
<1>7. \A t \in Tasks : /\ queue'[t].person = queue[t].person /\ queue'[t].revision = queue[t].revision
                       /\ queue'[t].attempts = queue[t].attempts
                       /\ queue'[t].status = IF t \in due THEN "processing" ELSE queue[t].status
  <2>1. \A x \in Task : LET y == [x EXCEPT !.status = "processing"]
                        IN y.person = x.person /\ y.revision = x.revision /\ y.attempts = x.attempts
                           /\ y.status = "processing"
    BY DEF Task
  <2> QED
    BY <2>1, <1>3, <1>4
<1>8. /\ enrolling[w].task = 0 /\ enrolling'[w].task = 0
      /\ \A v \in Workers : enrolling'[v].task = enrolling[v].task /\ (v # w => enrolling'[v] = enrolling[v])
  BY <1>0, <1>2 DEF ClaimTasks, Idle, TypeOK, Worker
<1>9. TypeOK'
  <2>1. enrolling' \in [Workers -> Worker]
    BY <1>0, <1>2 DEF TypeOK, Worker
  <2>2. Worker' = Worker
    BY <1>6 DEF Worker
  <2>3. failures' \in 0..MaxFailures
    BY <1>0, <1>2, BoundsAssumption DEF TypeOK
  <2> QED
    BY <2>1, <2>2, <2>3, <1>0, <1>1, <1>6 DEF TypeOK, history
<1>10. Held'
  BY <1>0, <1>1, <1>8 DEF Held
<1>11. InHand'
  BY <1>0, <1>1, <1>3, <1>7, <1>8 DEF InHand, Enabled
<1>12. Spared'
  BY <1>0, <1>2, <1>6, <1>7 DEF Spared
<1>13. \A p \in People : Waiting(p) => Waiting(p)'
  BY <1>6, <1>7 DEF Waiting, Active
<1>14. ReadIsCurrent'
  <2> SUFFICES ASSUME NEW v \in Workers, enrolling[v].task # 0
               PROVE  \/ Called(v) \in slips
                      \/ enrolling[v].revision < queue[enrolling[v].task].revision
                      \/ enrolling[v].photo = photo[Called(v)]
                      \/ \E u \in Tasks \ {enrolling[v].task} :
                           queue'[u].person = Called(v) /\ queue'[u].status \in Active \cup {"failed"}
    BY <1>1, <1>3, <1>6, <1>7, <1>8 DEF ReadIsCurrent, WaitingBut, Called, history
  <2>1. WaitingBut(Called(v), enrolling[v].task) =>
          \E u \in Tasks \ {enrolling[v].task} :
             queue'[u].person = Called(v) /\ queue'[u].status \in Active \cup {"failed"}
    BY <1>7 DEF WaitingBut, Active
  <2> QED
    BY <2>1, <1>0 DEF ReadIsCurrent
<1>15. ToFill' <=> ToFill
  BY <1>1 DEF ToFill, Fills, Enabled
<1>16. Enrolled' /\ OffAndEmpty'
  BY <1>0, <1>1, <1>13, <1>15 DEF Enrolled, OffAndEmpty, Enabled, history
<1> QED
  BY <1>9, <1>10, <1>11, <1>12, <1>14, <1>16 DEF FaceInv

(* A worker between two tasks of its batch. *)
LEMMA ReleasedIsIdle ==
  ASSUME TypeOK, NEW w \in Workers, NEW t \in Tasks
  PROVE  Released(w, t) \in Worker /\ Released(w, t).task = 0
<1>1. Released(w, t) = [batch |-> enrolling[w].batch \ {t}, task |-> 0, revision |-> 0, photo |-> 0]
  BY DEF Released, Idle
<1>2. enrolling[w].batch \ {t} \in SUBSET Tasks /\ 0 \in Photos
  BY BoundsAssumption DEF TypeOK, Worker, Photos
<1> QED
  BY <1>1, <1>2 DEF Worker

(* A task is cancelled only when the library is not in use. *)
LEMMA SkipTaskKeeps ==
  ASSUME FaceInv, NEW w \in Workers, NEW t \in Tasks, SkipTask(w, t)
  PROVE  FaceInv'
<1>0. TypeOK /\ Held /\ InHand /\ Spared /\ ReadIsCurrent /\ Enrolled /\ OffAndEmpty
  BY DEF FaceInv
<1>1. UNCHANGED <<switch, photo, edits, lock, handlers, retrying, cleaning, library, late, bounds, history>>
  BY DEF SkipTask
<1>2. /\ lock = NULL /\ (queue[t].status # "processing" \/ ~Enabled)
      /\ queue' = IF queue[t].status = "processing" THEN [queue EXCEPT ![t].status = "cancelled"] ELSE queue
      /\ enrolling' = [enrolling EXCEPT ![w] = Released(w, t)]
  BY DEF SkipTask
<1>3. /\ queue \in Seq(Task) /\ Tasks = DOMAIN queue /\ Len(queue) \in Nat /\ Tasks = 1..Len(queue)
      /\ \A u \in Tasks : queue[u] \in Task
  BY <1>0, Typed, QueueIsFunction
<1>4. /\ queue' \in Seq(Task) /\ Tasks' = Tasks
      /\ \A u \in Tasks : queue'[u].status \in {queue[u].status, "cancelled"} /\ queue'[u].attempts = queue[u].attempts
  <2>1. [queue[t] EXCEPT !.status = "cancelled"] \in Task
    BY <1>3 DEF Task
  <2>2. [queue EXCEPT ![t].status = "cancelled"] = [queue EXCEPT ![t] = [queue[t] EXCEPT !.status = "cancelled"]]
    OBVIOUS
  <2>3. queue' \in Seq(Task) /\ DOMAIN queue' = DOMAIN queue
    BY <2>1, <2>2, <1>2, <1>3, ExceptSeq, LenProperties
  <2> QED
    BY <2>3, <1>2, <1>3, TaskFields DEF Tasks, Task
<1>5. \A v \in Workers : enrolling[v].task = 0 /\ enrolling'[v].task = 0
  BY <1>0, <1>2, ReleasedIsIdle, HoldersAssumption DEF Held, TypeOK
<1>6. TypeOK'
  <2>1. enrolling' \in [Workers -> Worker]
    BY <1>0, <1>2, ReleasedIsIdle DEF TypeOK
  <2>2. Worker' = Worker
    BY <1>4 DEF Worker
  <2> QED
    BY <2>1, <2>2, <1>0, <1>1, <1>4 DEF TypeOK, bounds, history
<1>7. Held' /\ InHand' /\ ReadIsCurrent'
  BY <1>0, <1>1, <1>5 DEF Held, InHand, ReadIsCurrent
<1>8. Spared'
  BY <1>0, <1>4 DEF Spared
<1>9. Enrolled'
  <2>1. Enabled => queue' = queue
    BY <1>2
  <2>2. ToFill' <=> ToFill
    BY <1>1 DEF ToFill, Fills, Enabled
  <2>3. \A p \in People : Enabled => (Waiting(p)' <=> Waiting(p))
    BY <2>1, <1>4 DEF Waiting
  <2> QED
    BY <2>2, <2>3, <1>0, <1>1 DEF Enrolled, Enabled, history
<1>10. OffAndEmpty'
  BY <1>0, <1>1 DEF OffAndEmpty, Enabled, history
<1> QED
  BY <1>6, <1>7, <1>8, <1>9, <1>10 DEF FaceInv

(* The worker that gets the lock reads the person as they are. *)
LEMMA ReadTaskKeeps ==
  ASSUME FaceInv, NEW w \in Workers, NEW t \in Tasks, ReadTask(w, t)
  PROVE  FaceInv'
<1>0. TypeOK /\ Held /\ InHand /\ Spared /\ ReadIsCurrent /\ Enrolled /\ OffAndEmpty
  BY DEF FaceInv
<1>1. UNCHANGED <<switch, photo, edits, queue, handlers, retrying, cleaning, library, late, bounds, history>>
  BY DEF ReadTask
<1>2. /\ lock = NULL /\ lock' = w /\ Enabled /\ queue[t].status = "processing"
      /\ t \in enrolling[w].batch /\ enrolling[w].task = 0
      /\ enrolling' = [enrolling EXCEPT ![w] = Reading(w, t)]
  BY DEF ReadTask, ToEnroll
<1>3. queue[t] \in Task /\ t # 0 /\ queue[t].person \in People /\ queue[t].revision \in Nat
  BY <1>0, Typed, TaskFields
<1>4. /\ Reading(w, t) \in Worker
      /\ Reading(w, t).task = t /\ Reading(w, t).revision = queue[t].revision
      /\ Reading(w, t).photo = photo[queue[t].person] /\ Reading(w, t).batch = enrolling[w].batch
  <2>1. enrolling[w] \in Worker /\ photo[queue[t].person] \in Photos
    BY <1>0, <1>3 DEF TypeOK
  <2>2. /\ Reading(w, t).task = t /\ Reading(w, t).revision = queue[t].revision
        /\ Reading(w, t).photo = photo[queue[t].person] /\ Reading(w, t).batch = enrolling[w].batch
    BY <2>1 DEF Reading, Worker
  <2>3. \A x \in Worker : [x EXCEPT !.task = t] \in Worker
    BY DEF Worker
  <2>4. \A x \in Worker : [x EXCEPT !.revision = queue[t].revision] \in Worker
    BY <1>3 DEF Worker
  <2>5. \A x \in Worker : [x EXCEPT !.photo = photo[queue[t].person]] \in Worker
    BY <2>1 DEF Worker
  <2>6. Reading(w, t) = [[[enrolling[w] EXCEPT !.task = t] EXCEPT !.revision = queue[t].revision]
                           EXCEPT !.photo = photo[queue[t].person]]
    BY DEF Reading
  <2>7. Reading(w, t) \in Worker
    BY <2>1, <2>3, <2>4, <2>5, <2>6
  <2> QED
    BY <2>2, <2>7
<1>5. /\ enrolling'[w] = Reading(w, t)
      /\ \A v \in Workers \ {w} : enrolling'[v] = enrolling[v] /\ enrolling[v].task = 0
  BY <1>0, <1>2, HoldersAssumption DEF TypeOK, Held
<1>6. TypeOK'
  <2>1. enrolling' \in [Workers -> Worker]
    BY <1>0, <1>2, <1>4 DEF TypeOK
  <2> QED
    BY <2>1, <1>0, <1>1, <1>2 DEF TypeOK, bounds, history, Worker, Tasks
<1>7. Held'
  BY <1>0, <1>1, <1>2, <1>3, <1>4, <1>5, HoldersAssumption DEF Held, Sources
<1>8. InHand'
  BY <1>1, <1>2, <1>3, <1>4, <1>5 DEF InHand, Enabled
<1>9. ReadIsCurrent'
  BY <1>1, <1>4, <1>5 DEF ReadIsCurrent, Called
<1>10. Spared' /\ OffAndEmpty'
  BY <1>0, <1>1 DEF Spared, Tasks, OffAndEmpty, Enabled, history
<1>11. Enrolled'
  BY <1>0, <1>1 DEF Enrolled, Enabled, Waiting, Tasks, ToFill, Fills, history
<1> QED
  BY <1>6, <1>7, <1>8, <1>9, <1>10, <1>11 DEF FaceInv

(* The person for whom the service is called has a task: the call may fail *)
(* or not, and change nobody else.                                         *)
LEMMA CalledIsWaiting ==
  ASSUME FaceInv, NEW w \in Workers, enrolling[w].task # 0
  PROVE  /\ enrolling[w].task \in Tasks /\ queue[enrolling[w].task].status = "processing"
         /\ Called(w) \in People /\ Waiting(Called(w)) /\ Enabled /\ lock = w /\ ~cleared
         /\ Carried(w) \in [People -> Photos] /\ Carried(w)[Called(w)] = enrolling[w].photo
         /\ \A p \in People \ {Called(w)} : Carried(w)[p] = library[p]
         /\ EnrollCall(w) \in Call
<1>0. TypeOK /\ Held /\ InHand /\ OffAndEmpty
  BY DEF FaceInv
<1>1. /\ enrolling[w].task \in Tasks /\ queue[enrolling[w].task].status = "processing"
      /\ Called(w) \in People /\ Enabled /\ lock = w /\ ~cleared /\ enrolling[w].photo \in Photos
  BY <1>0, Typed DEF InHand, Held, OffAndEmpty
<1>2. Waiting(Called(w))
  BY <1>1 DEF Waiting, Called, Active
<1>3. /\ Carried(w) \in [People -> Photos] /\ Carried(w)[Called(w)] = enrolling[w].photo
      /\ \A p \in People \ {Called(w)} : Carried(w)[p] = library[p]
  BY <1>0, <1>1 DEF Carried, TypeOK
<1>4. EnrollCall(w) \in Call
  BY <1>1 DEF EnrollCall, Call
<1> QED
  BY <1>1, <1>2, <1>3, <1>4

(* finish_enrollment settles a task only if it is still what was read. *)
LEMMA FinishedTask ==
  ASSUME NEW x \in Task, x.attempts < MaxAttempts, NEW w, NEW ok \in BOOLEAN
  PROVE  LET y == Finished(x, w, ok)
         IN /\ y \in Task /\ y.person = x.person /\ y.status \in {"pending", "synced", "failed"}
            /\ y.status = "synced" => ok /\ x.revision = enrolling[w].revision
<1> DEFINE y == Finished(x, w, ok)
<1>0. x.attempts \in Nat /\ x.attempts + 1 \in 0..MaxAttempts /\ 0 \in 0..MaxAttempts
  BY TaskFields, AttemptsAssumption
<1>1. \A z \in Task : \A s \in {"pending", "synced", "failed"} :
        /\ [z EXCEPT !.status = s] \in Task /\ [z EXCEPT !.status = s].person = z.person
        /\ [z EXCEPT !.status = s].status = s /\ [z EXCEPT !.status = s].attempts = z.attempts
  BY DEF Task, Active
<1>2. \A z \in Task : \A n \in 0..MaxAttempts :
        /\ [z EXCEPT !.attempts = n] \in Task /\ [z EXCEPT !.attempts = n].person = z.person
        /\ [z EXCEPT !.attempts = n].status = z.status
  BY DEF Task
<1>3. CASE x.revision # enrolling[w].revision
  <2> DEFINE z == [x EXCEPT !.status = "pending"]
  <2>1. y = [z EXCEPT !.attempts = 0]
    BY <1>3 DEF Finished
  <2>2. z \in Task /\ z.person = x.person /\ z.status = "pending"
    BY <1>1
  <2> HIDE DEF y, z
  <2>3. y \in Task /\ y.person = z.person /\ y.status = z.status
    BY <2>1, <2>2, <1>0, <1>2
  <2> QED
    BY <2>2, <2>3 DEF y
<1>4. CASE x.revision = enrolling[w].revision /\ ok
  <2>1. y = [x EXCEPT !.status = "synced"]
    BY <1>4 DEF Finished
  <2> HIDE DEF y
  <2>2. y \in Task /\ y.person = x.person /\ y.status = "synced"
    BY <2>1, <1>1
  <2> QED
    BY <2>2, <1>4 DEF y
<1>5. CASE x.revision = enrolling[w].revision /\ ~ok
  <2> DEFINE s == IF x.attempts + 1 >= MaxAttempts THEN "failed" ELSE "pending"
         z == [x EXCEPT !.status = s]
  <2>1. y = [z EXCEPT !.attempts = x.attempts + 1]
    BY <1>5 DEF Finished
  <2>2. s \in {"pending", "failed"}
    OBVIOUS
  <2> HIDE DEF s
  <2>3. z \in Task /\ z.person = x.person /\ z.status = s
    BY <2>2, <1>1
  <2> HIDE DEF y, z
  <2>4. y \in Task /\ y.person = z.person /\ y.status = z.status
    BY <2>1, <2>3, <1>0, <1>2
  <2> QED
    BY <2>2, <2>3, <2>4 DEF y
<1> QED
  BY <1>3, <1>4, <1>5

(* A task that is settled has brought the person's photo, or leaves        *)
(* another one behind it.                                                  *)
LEMMA FinishTaskKeeps ==
  ASSUME FaceInv, NEW w \in Workers, FinishTask(w)
  PROVE  FaceInv'
<1>0. TypeOK /\ Held /\ InHand /\ Spared /\ ReadIsCurrent /\ Enrolled /\ OffAndEmpty
  BY DEF FaceInv
<1>1. UNCHANGED <<switch, photo, edits, handlers, retrying, cleaning, photos, requests, history>>
  BY DEF FinishTask
<1> DEFINE t == enrolling[w].task
           p == Called(w)
<1>2. /\ t # 0 /\ t \in Tasks /\ queue[t].status = "processing" /\ queue[t].person = p
      /\ p \in People /\ Enabled /\ lock = w /\ ~cleared
      /\ Carried(w) \in [People -> Photos] /\ Carried(w)[p] = enrolling[w].photo
      /\ \A q \in People \ {p} : Carried(w)[q] = library[q]
      /\ EnrollCall(w) \in Call
  <2>1. enrolling[w].task # 0
    BY DEF FinishTask
  <2> QED
    BY <2>1, CalledIsWaiting DEF Called
<1>3. PICK ok \in BOOLEAN :
        /\ IF ok THEN library' = Carried(w) /\ UNCHANGED <<late, failures>>
                 ELSE NoAnswer(Carried(w), EnrollCall(w)) /\ Fail
        /\ queue' = [queue EXCEPT ![t] = Finished(queue[t], w, ok)]
        /\ enrolling' = [enrolling EXCEPT ![w] = Released(w, t)]
  BY <1>2 DEF FinishTask
<1>4. lock' = NULL
  BY <1>2 DEF FinishTask
<1>5. /\ queue \in Seq(Task) /\ Tasks = DOMAIN queue /\ Len(queue) \in Nat /\ Tasks = 1..Len(queue)
      /\ \A u \in Tasks : queue[u] \in Task
  BY <1>0, Typed, QueueIsFunction
<1>6. /\ Finished(queue[t], w, ok) \in Task /\ Finished(queue[t], w, ok).person = p
      /\ Finished(queue[t], w, ok).status \in {"pending", "synced", "failed"}
      /\ Finished(queue[t], w, ok).status = "synced" => ok /\ queue[t].revision = enrolling[w].revision
  <2>1. queue[t] \in Task /\ queue[t].attempts < MaxAttempts
    BY <1>0, <1>2, <1>5 DEF Spared
  <2> QED
    BY <2>1, <1>2, FinishedTask
<1>7. /\ queue' \in Seq(Task) /\ Tasks' = Tasks
      /\ \A u \in Tasks \ {t} : queue'[u] = queue[u]
      /\ queue'[t].person = p /\ queue'[t].status \in {"pending", "synced", "failed"}
      /\ queue'[t].status = "synced" => ok /\ queue[t].revision = enrolling[w].revision
  <2> HIDE DEF t, p
  <2>1. queue' \in Seq(Task) /\ DOMAIN queue' = DOMAIN queue
    BY <1>2, <1>3, <1>5, <1>6, ExceptSeq, LenProperties
  <2> QED
    BY <2>1, <1>2, <1>3, <1>5, <1>6 DEF Tasks
<1>8. /\ library' \in [People -> Photos] /\ (ok => library'[p] = enrolling[w].photo)
      /\ \A q \in People \ {p} : library'[q] = library[q]
      /\ late' \subseteq late \cup {EnrollCall(w)} /\ failures' \in 0..MaxFailures
  <2>1. library' \in {library, Carried(w)} /\ (ok => library' = Carried(w))
        /\ late' \subseteq late \cup {EnrollCall(w)}
    BY <1>3 DEF NoAnswer
  <2>2. failures' \in 0..MaxFailures
    BY <1>0, <1>3, BoundsAssumption DEF TypeOK, Fail
  <2> QED
    BY <2>1, <2>2, <1>0, <1>2 DEF TypeOK
<1>9. \A v \in Workers : enrolling[v].task # 0 => v = w
  BY <1>0, <1>2 DEF Held
<1>10. \A v \in Workers : enrolling'[v].task = 0
  BY <1>0, <1>2, <1>3, <1>9, ReleasedIsIdle DEF TypeOK
<1> HIDE DEF t, p
<1>11. TypeOK'
  <2>1. enrolling' \in [Workers -> Worker]
    BY <1>0, <1>2, <1>3, ReleasedIsIdle DEF TypeOK
  <2>2. Worker' = Worker
    BY <1>7 DEF Worker
  <2>3. late' \subseteq Call
    BY <1>0, <1>2, <1>8 DEF TypeOK
  <2> QED
    BY <2>1, <2>2, <2>3, <1>0, <1>1, <1>4, <1>7, <1>8 DEF TypeOK, history
<1>12. Held'
  <2>1. \A s \in Sources : handlers[s].stage # "written"
    BY <1>0, <1>2, HoldersAssumption DEF Held, Sources
  <2> QED
    BY <2>1, <1>1, <1>4, <1>10, HoldersAssumption DEF Held, Sources
<1>13. InHand' /\ ReadIsCurrent'
  BY <1>10 DEF InHand, ReadIsCurrent
<1>14. Spared'
  BY <1>0, <1>7 DEF Spared
<1>15. Enrolled'
  <2> SUFFICES ASSUME ~stale, NEW q \in People \ slips
               PROVE  library'[q] = photo[q] \/ \E u \in Tasks :
                        queue'[u].person = q /\ queue'[u].status \in Active \cup {"failed"}
    BY <1>1, <1>7 DEF Enrolled, Waiting, history
  <2>1. library[q] = photo[q] \/ Waiting(q)
    <3>1. ~ToFill
      BY <1>0, <1>2, HoldersAssumption DEF ToFill, Held, Sources
    <3> QED
      BY <3>1, <1>0, <1>2 DEF Enrolled
  <2>2. CASE q # p
    BY <2>1, <2>2, <1>2, <1>7, <1>8 DEF Waiting
  <2>3. CASE q = p /\ queue'[t].status # "synced"
    BY <2>3, <1>2, <1>7 DEF Active
  <2>4. CASE q = p /\ queue'[t].status = "synced"
    <3>1. ok /\ queue[t].revision = enrolling[w].revision /\ enrolling[w].revision \in Nat
      BY <2>4, <1>0, <1>7, Typed
    <3>2. enrolling[w].photo = photo[p] \/ WaitingBut(p, t)
      BY <3>1, <2>4, <1>0, <1>2 DEF ReadIsCurrent, t, p
    <3> QED
      BY <3>1, <3>2, <2>4, <1>7, <1>8 DEF WaitingBut
  <2> QED
    BY <2>2, <2>3, <2>4
<1>16. OffAndEmpty'
  BY <1>1, <1>2 DEF OffAndEmpty, history
<1> QED
  BY <1>11, <1>12, <1>13, <1>14, <1>15, <1>16 DEF FaceInv

(* A task whose worker is interrupted stays in process. *)
LEMMA InterruptWorkerKeeps ==
  ASSUME FaceInv, NEW w \in Workers, InterruptWorker(w)
  PROVE  FaceInv'
<1>0. TypeOK /\ Held /\ InHand /\ Spared /\ ReadIsCurrent /\ Enrolled /\ OffAndEmpty
  BY DEF FaceInv
<1>1. /\ UNCHANGED <<switch, photo, edits, queue, handlers, retrying, cleaning, photos, requests, history>>
      /\ enrolling' = [enrolling EXCEPT ![w] = Idle] /\ lock' = IF lock = w THEN NULL ELSE lock
      /\ failures < MaxFailures /\ failures' = failures + 1
  BY DEF InterruptWorker, Fail
<1>2. /\ library' \in [People -> Photos] /\ late' \subseteq Call
      /\ \A q \in People : library'[q] # library[q] => Waiting(q) /\ ~cleared
  <2>1. CASE enrolling[w].task = 0
    <3>1. library' = library /\ late' = late
      BY <2>1 DEF InterruptWorker
    <3> QED
      BY <3>1, <1>0 DEF TypeOK
  <2>2. CASE enrolling[w].task # 0
    <3>1. library' \in {library, Carried(w)} /\ late' \subseteq late \cup {EnrollCall(w)}
      BY <2>2 DEF InterruptWorker, NoAnswer
    <3> QED
      BY <2>2, <3>1, <1>0, CalledIsWaiting DEF TypeOK
  <2> QED
    BY <2>1, <2>2
<1>3. Idle \in Worker /\ Idle.task = 0
  BY BoundsAssumption DEF Idle, Worker, Photos
<1>4. enrolling'[w].task = 0 /\ \A v \in Workers \ {w} : enrolling'[v] = enrolling[v]
  BY <1>0, <1>1, <1>3 DEF TypeOK
<1>5. TypeOK'
  <2>1. enrolling' \in [Workers -> Worker]
    BY <1>0, <1>1, <1>3 DEF TypeOK
  <2>2. failures' \in 0..MaxFailures
    BY <1>0, <1>1, BoundsAssumption DEF TypeOK
  <2> QED
    BY <2>1, <2>2, <1>0, <1>1, <1>2 DEF TypeOK, history, Worker, Tasks
<1>6. Held'
  <2>1. \A s \in Sources : handlers'[s].stage = "written" <=> lock' = s
    BY <1>0, <1>1, HoldersAssumption DEF Held, Sources
  <2>2. \A v \in Workers : enrolling'[v].task # 0 <=> lock' = v
    BY <1>0, <1>1, <1>4, HoldersAssumption DEF Held
  <2> QED
    BY <2>1, <2>2 DEF Held
<1>7. InHand'
  BY <1>0, <1>1, <1>4 DEF InHand, Enabled
<1>8. Spared'
  BY <1>0, <1>1 DEF Spared, Tasks
<1>9. ReadIsCurrent'
  <2> SUFFICES ASSUME NEW v \in Workers \ {w}, enrolling[v].task # 0
               PROVE  \/ Called(v) \in slips
                      \/ enrolling[v].revision < queue[enrolling[v].task].revision
                      \/ enrolling[v].photo = photo[Called(v)]
                      \/ WaitingBut(Called(v), enrolling[v].task)
    BY <1>1, <1>4 DEF ReadIsCurrent, WaitingBut, Called, Tasks, history
  <2> QED
    BY <1>0 DEF ReadIsCurrent
<1>10. Enrolled'
  <2>1. (ToFill' <=> ToFill) /\ \A p \in People : Waiting(p)' <=> Waiting(p)
    BY <1>1 DEF ToFill, Fills, Enabled, Waiting, Tasks
  <2> QED
    BY <2>1, <1>0, <1>1, <1>2 DEF Enrolled, Enabled, history
<1>11. OffAndEmpty'
  BY <1>0, <1>1, <1>2 DEF OffAndEmpty, Enabled, history
<1> QED
  BY <1>5, <1>6, <1>7, <1>8, <1>9, <1>10, <1>11 DEF FaceInv

(* A call that comes late excuses its person, or all of a library in use. *)
LEMMA CallLandsKeeps ==
  ASSUME FaceInv, NEW c \in late, CallLands(c)
  PROVE  FaceInv'
<1>0. TypeOK /\ Held /\ InHand /\ Spared /\ ReadIsCurrent /\ Enrolled /\ OffAndEmpty
  BY DEF FaceInv
<1>1. /\ UNCHANGED <<switch, photo, edits, queue, lock, handlers, retrying, enrolling, cleaning, bounds, cleared, stale>>
      /\ late' = late \ {c}
      /\ library' = IF c.person = NULL THEN Empty ELSE [library EXCEPT ![c.person] = c.photo]
      /\ slips' = IF c.person # NULL THEN slips \cup {c.person} ELSE IF Enabled THEN People ELSE slips
  BY DEF CallLands
<1>2. c.person \in People \cup {NULL} /\ c.photo \in Photos
  BY <1>0 DEF TypeOK, Call
<1>3. library' \in [People -> Photos] /\ slips' \subseteq People /\ slips \subseteq slips'
  BY <1>0, <1>1, <1>2, BoundsAssumption DEF TypeOK, Empty, Photos
<1>4. TypeOK'
  BY <1>0, <1>1, <1>3 DEF TypeOK, bounds, Worker, Tasks
<1>5. Held' /\ InHand' /\ Spared'
  BY <1>0, <1>1 DEF Held, InHand, Spared, Enabled, Tasks
<1>6. ReadIsCurrent'
  BY <1>0, <1>1, <1>3 DEF ReadIsCurrent, WaitingBut, Called, Tasks
<1>7. \A p \in People \ slips' : Enabled => library'[p] = library[p]
  BY <1>0, <1>1, <1>2 DEF TypeOK
<1>8. Enrolled'
  <2>1. (ToFill' <=> ToFill) /\ \A p \in People : Waiting(p)' <=> Waiting(p)
    BY <1>1 DEF ToFill, Fills, Enabled, Waiting, Tasks
  <2> QED
    BY <2>1, <1>0, <1>1, <1>3, <1>7 DEF Enrolled, Enabled
<1>9. OffAndEmpty'
  <2>1. \A p \in People \ slips' : library'[p] \in {library[p], 0}
    BY <1>0, <1>1, <1>2 DEF TypeOK, Empty
  <2> QED
    BY <2>1, <1>0, <1>1, <1>3 DEF OffAndEmpty, Enabled
<1> QED
  BY <1>4, <1>5, <1>6, <1>8, <1>9 DEF FaceInv

(* The cleaning looks, *)
LEMMA ListDisabledKeeps ==
  ASSUME FaceInv, ListDisabled
  PROVE  FaceInv'
<1>1. TypeOK'
  BY DEF FaceInv, TypeOK, ListDisabled, bounds, history, Worker, Tasks
<1>2. UNCHANGED rest
  BY DEF ListDisabled, rest, history
<1> QED
  BY <1>1, <1>2, Frame DEF FaceInv

(* and looks again under the lock, when nobody is enrolling. *)
LEMMA CleanProjectKeeps ==
  ASSUME FaceInv, CleanProject
  PROVE  FaceInv'
<1>0. TypeOK /\ Held /\ InHand /\ Spared /\ ReadIsCurrent /\ Enrolled /\ OffAndEmpty
  BY DEF FaceInv
<1>1. /\ UNCHANGED <<switch, photo, edits, lock, handlers, retrying, enrolling, photos, requests>>
      /\ cleaning' = FALSE /\ lock = NULL
  BY DEF CleanProject
<1>2. \A w \in Workers : enrolling[w].task = 0
  BY <1>0, <1>1, HoldersAssumption DEF Held
<1>3. /\ queue \in Seq(Task) /\ Tasks = DOMAIN queue /\ Len(queue) \in Nat /\ Tasks = 1..Len(queue)
      /\ \A u \in Tasks : queue[u] \in Task
  BY <1>0, Typed, QueueIsFunction
<1>4. Empty \in [People -> Photos] /\ [person |-> NULL, photo |-> 0] \in Call
  BY BoundsAssumption DEF Empty, Photos, Call
<1>5. CASE /\ ~Enabled
           /\ library' = Empty
           /\ queue' = [t \in Tasks |-> [queue[t] EXCEPT !.status = "cancelled"]]
           /\ cleared' = TRUE /\ stale' = FALSE /\ slips' = {}
           /\ UNCHANGED <<late, failures>>
  <2>1. \A x \in Task : [x EXCEPT !.status = "cancelled"] \in Task /\ [x EXCEPT !.status = "cancelled"].status = "cancelled"
    BY DEF Task
  <2>2. \A t \in Tasks : queue'[t] \in Task /\ queue'[t].status = "cancelled"
    BY <2>1, <1>3, <1>5
  <2>3. queue' \in Seq(Task) /\ Tasks' = Tasks
    BY <2>2, <1>3, <1>5, SeqIsFunction DEF Tasks
  <2>4. TypeOK'
    BY <2>3, <1>0, <1>1, <1>4, <1>5 DEF TypeOK, Worker
  <2>5. Held' /\ InHand' /\ ReadIsCurrent'
    BY <1>0, <1>1, <1>2 DEF Held, InHand, ReadIsCurrent
  <2>6. Spared'
    BY <2>2, <2>3 DEF Spared
  <2>7. Enrolled' /\ OffAndEmpty'
    BY <1>1, <1>5 DEF Enrolled, OffAndEmpty, Enabled, Empty
  <2> QED
    BY <2>4, <2>5, <2>6, <2>7 DEF FaceInv
<1>6. CASE /\ ~Enabled /\ Fail
           /\ NoAnswer(Empty, [person |-> NULL, photo |-> 0])
           /\ UNCHANGED <<queue, history>>
  <2>1. library' \in {library, Empty} /\ late' \subseteq late \cup {[person |-> NULL, photo |-> 0]}
    BY <1>6 DEF NoAnswer
  <2>2. failures' \in 0..MaxFailures
    BY <1>0, <1>6, BoundsAssumption DEF TypeOK, Fail
  <2>3. TypeOK'
    BY <2>1, <2>2, <1>0, <1>1, <1>4, <1>6 DEF TypeOK, Worker, Tasks, history
  <2>4. Held' /\ InHand' /\ ReadIsCurrent' /\ Spared'
    BY <1>0, <1>1, <1>2, <1>6 DEF Held, InHand, ReadIsCurrent, Spared, Tasks
  <2>5. Enrolled' /\ OffAndEmpty'
    BY <2>1, <1>0, <1>1, <1>6 DEF Enrolled, OffAndEmpty, Enabled, Empty, history
  <2> QED
    BY <2>3, <2>4, <2>5 DEF FaceInv
<1>7. CASE Enabled /\ UNCHANGED <<library, queue, late, failures, history>>
  <2>1. TypeOK'
    BY <1>0, <1>1, <1>7 DEF TypeOK, Worker, Tasks, history
  <2>2. UNCHANGED rest
    BY <1>1, <1>7 DEF rest
  <2> QED
    BY <2>1, <2>2, Frame DEF FaceInv
<1> QED
  BY <1>5, <1>6, <1>7 DEF CleanProject

-----------------------------------------------------------------------------
(* A project that has never needed a library. *)
LEMMA FaceInvInit == Init => FaceInv
<1> SUFFICES ASSUME Init PROVE FaceInv
  OBVIOUS
<1>1. TypeOK
  <2>1. Idle \in Worker /\ NoHandler \in Handler /\ Empty \in [People -> Photos]
    BY BoundsAssumption DEF Idle, Worker, NoHandler, Handler, Empty, Photos
  <2>2. queue \in Seq(Task)
    BY EmptySeq DEF Init
  <2>3. /\ enrolling \in [Workers -> Worker] /\ handlers \in [Sources -> Handler]
        /\ switch \in [Sources -> BOOLEAN] /\ photo \in [People -> Photos] /\ library \in [People -> Photos]
    BY <2>1 DEF Init
  <2>4. /\ edits \subseteq Edit /\ late \subseteq Call /\ slips \subseteq People
        /\ photos \in 0..MaxPhotos /\ requests \in 0..MaxRequests /\ failures \in 0..MaxFailures
    BY BoundsAssumption DEF Init
  <2> QED
    BY <2>2, <2>3, <2>4 DEF Init, TypeOK
<1>2. Held /\ InHand /\ ReadIsCurrent
  BY HoldersAssumption DEF Init, Held, InHand, ReadIsCurrent, Idle, NoHandler, Sources
<1>3. Spared /\ Enrolled /\ OffAndEmpty
  <2>1. Tasks = {}
    BY EmptySeq DEF Init, Tasks
  <2>2. ~Enabled
    BY DEF Init, Enabled
  <2> QED
    BY <2>1, <2>2 DEF Init, Spared, Enrolled, OffAndEmpty, Empty
<1> QED
  BY <1>1, <1>2, <1>3 DEF FaceInv

(* Every step keeps the invariant. *)
LEMMA FaceInvStep == FaceInv /\ [Next]_vars => FaceInv'
<1> SUFFICES ASSUME FaceInv, [Next]_vars PROVE FaceInv'
  OBVIOUS
<1>1. CASE \E p \in People : EditPhoto(p)
  BY <1>1, EditPhotoKeeps
<1>2. CASE \E e \in edits : CommitEdit(e)
  BY <1>2, CommitEditKeeps
<1>3. CASE \E s \in Sources : RequestSwitch(s) \/ WriteSwitch(s) \/ FillLibrary(s) \/ FillInterrupted(s)
  BY <1>3, RequestSwitchKeeps, WriteSwitchKeeps, FillLibraryKeeps, FillInterruptedKeeps
<1>4. CASE RequestRetry \/ RetryFaces
  BY <1>4, RequestRetryKeeps, RetryFacesKeeps
<1>5. CASE \E w \in Workers : Enroll(w) \/ InterruptWorker(w)
  BY <1>5, ClaimTasksKeeps, FinishTaskKeeps, SkipTaskKeeps, ReadTaskKeeps, InterruptWorkerKeeps DEF Enroll
<1>6. CASE \E c \in late : CallLands(c)
  BY <1>6, CallLandsKeeps
<1>7. CASE ListDisabled \/ CleanProject
  BY <1>7, ListDisabledKeeps, CleanProjectKeeps
<1>8. CASE UNCHANGED vars
  <2>1. TypeOK'
    BY <1>8 DEF FaceInv, TypeOK, vars, bounds, history, Worker, Tasks
  <2>2. UNCHANGED rest
    BY <1>8 DEF vars, rest
  <2> QED
    BY <2>1, <2>2, Frame DEF FaceInv
<1> QED
  BY <1>1, <1>2, <1>3, <1>4, <1>5, <1>6, <1>7, <1>8 DEF Next

(* The inductive invariant of the enrollment queue holds. *)
THEOREM FaceInvHolds == Spec => []FaceInv
BY FaceInvInit, FaceInvStep, PTL DEF Spec

(* Every variable stays within its type: revisions count up, attempts do   *)
(* not pass MAX_ATTEMPTS.                                                  *)
THEOREM QueueIsTyped == Spec => []TypeOK
<1>1. FaceInv => TypeOK
  BY DEF FaceInv
<1> QED
  BY <1>1, FaceInvHolds, PTL

(* In a library in use, everybody has the photo they have now or a task    *)
(* (finish_enrollment, the trigger and the filling between them).          *)
THEOREM NobodyIsForgotten == Spec => []EnabledMeansEnrolled
<1>1. FaceInv => EnabledMeansEnrolled
  BY DEF FaceInv, Enrolled, EnabledMeansEnrolled, Filled, ToFill
<1> QED
  BY <1>1, FaceInvHolds, PTL

(* Once cleanup_disabled_projects has emptied a library, no worker that    *)
(* was at work puts a face back (lock_project).                            *)
THEOREM NoFaceComesBack == Spec => []ClearedStaysEmpty
<1>1. FaceInv => ClearedStaysEmpty
  BY DEF FaceInv, OffAndEmpty, ClearedStaysEmpty
<1> QED
  BY <1>1, FaceInvHolds, PTL
=============================================================================

----------------------------- MODULE PartsProofs -----------------------------
(***************************************************************************)
(* What the parts at the edges promise, proved: the report runs, the       *)
(* pushes, the mock, the pages of the mini program, the windows of the     *)
(* console, its places and its previews. Of each an invariant that its     *)
(* first state has and that every step keeps, for any values of the        *)
(* constants and any number of steps. EdgesProofs takes them to the        *)
(* composition.                                                            *)
(***************************************************************************)
EXTENDS ReportRuns, ManagedDispatch, MockPlatforms, MiniHome, MiniList, MiniAttendance, MiniCamera,
        Workspace, PlacePicker, Previews,
        FiniteSetTheorems, SequenceTheorems, WellFoundedInduction, TLAPS

(***************************************************************************)
(* The order of the rows of a list: what InOrder chooses is there, lists   *)
(* all the rows, and lists them once, for any finite set of rows.          *)
(***************************************************************************)

\* A set of numbers has a smallest one.
LEMMA SmallestNumber ==
  ASSUME NEW T \in SUBSET Nat, T # {}
  PROVE  \E x \in T : \A y \in T : x <= y
<1> DEFINE R == {ss \in Nat \X Nat : ss[1] < ss[2]}
<1>1. IsWellFoundedOn(R, Nat)
  BY NatLessThanWellFounded DEF OpToRel
<1> HIDE DEF R
<1>2. PICK x \in T : \A y \in T : ~ (<<y, x>> \in R)
  BY <1>1, WFMin
<1>3. ASSUME NEW y \in T PROVE x <= y
  <2>1. x \in Nat /\ y \in Nat /\ <<y, x>> \notin R
    BY <1>2
  <2>2. ~ y < x
    BY <2>1 DEF R
  <2> QED
    BY <2>1, <2>2
<1> QED
  BY <1>3

\* s lists the n numbers of S, the smaller before the larger.
Lists(s, S, n) == s \in [1..n -> S] /\ \A i, j \in 1..n : i < j => s[i] < s[j]

\* One number more, smaller than the others, is listed first.
LEMMA ListedFirst ==
  ASSUME NEW S \in SUBSET Nat, NEW n \in Nat \ {0}, NEW m \in S, \A y \in S : m <= y,
         NEW t, Lists(t, S \ {m}, n - 1)
  PROVE  \E s : Lists(s, S, n)
<1> DEFINE s == [i \in 1..n |-> IF i = 1 THEN m ELSE t[i - 1]]
<1>1. ASSUME NEW i \in 1..n, i # 1 PROVE i - 1 \in 1..(n - 1) /\ t[i - 1] \in S /\ m < t[i - 1]
  <2>1. i - 1 \in 1..(n - 1)
    BY <1>1
  <2>2. t[i - 1] \in S \ {m}
    BY <2>1 DEF Lists
  <2>3. m <= t[i - 1] /\ m # t[i - 1] /\ m \in Nat /\ t[i - 1] \in Nat
    BY <2>2
  <2> QED
    BY <2>1, <2>2, <2>3
<1>2. s \in [1..n -> S]
  BY <1>1
<1>3. ASSUME NEW i \in 1..n, NEW j \in 1..n, i < j PROVE s[i] < s[j]
  <2>1. j # 1 /\ j - 1 \in 1..(n - 1) /\ s[j] = t[j - 1] /\ m < t[j - 1]
    BY <1>1, <1>3
  <2>2. CASE i = 1
    BY <2>1, <2>2
  <2>3. CASE i # 1
    <3>1. i - 1 \in 1..(n - 1) /\ s[i] = t[i - 1] /\ i - 1 < j - 1
      BY <1>1, <1>3, <2>3
    <3> QED
      BY <2>1, <3>1 DEF Lists
  <2> QED
    BY <2>2, <2>3
<1> HIDE DEF s
<1> QED
  BY <1>2, <1>3 DEF Lists

\* Every finite set of numbers can be listed: the smallest set that could not
\* would lose its first number.
LEMMA EveryListExists ==
  ASSUME NEW S \in SUBSET Nat, IsFiniteSet(S)
  PROVE  \E s : Lists(s, S, Cardinality(S))
<1> DEFINE Bad == {n \in Nat : \E T \in SUBSET Nat : /\ IsFiniteSet(T) /\ Cardinality(T) = n
                                                     /\ ~ \E s : Lists(s, T, n)}
<1>1. SUFFICES Bad = {}
  <2>1. Cardinality(S) \in Nat
    BY FS_CardinalityType
  <2> QED
    BY <1>1, <2>1
<1>2. SUFFICES ASSUME Bad # {} PROVE FALSE
  OBVIOUS
<1>3. PICK n \in Bad : \A k \in Bad : n <= k
  BY <1>2, SmallestNumber
<1>4. PICK T \in SUBSET Nat : IsFiniteSet(T) /\ Cardinality(T) = n /\ ~ \E s : Lists(s, T, n)
  BY <1>3
<1>5. T # {}
  <2>1. SUFFICES ASSUME T = {} PROVE FALSE
    OBVIOUS
  <2>2. n = 0
    BY <1>4, <2>1, FS_EmptySet
  <2>3. Lists([i \in 1..0 |-> 0], {}, 0)
    BY DEF Lists
  <2> QED
    BY <1>4, <2>1, <2>2, <2>3
<1>6. PICK m \in T : \A y \in T : m <= y
  BY <1>5, SmallestNumber
<1>7. IsFiniteSet(T \ {m}) /\ Cardinality(T \ {m}) = n - 1 /\ n \in Nat \ {0}
  <2>1. IsFiniteSet(T \ {m}) /\ Cardinality(T \ {m}) = n - 1
    BY <1>4, <1>6, FS_RemoveElement
  <2>2. Cardinality(T \ {m}) \in Nat /\ n \in Nat
    BY <2>1, <1>3, FS_CardinalityType
  <2> QED
    BY <2>1, <2>2
<1>8. n - 1 \notin Bad
  BY <1>3, <1>7
<1>9. \E t : Lists(t, T \ {m}, n - 1)
  BY <1>7, <1>8
<1> QED
  BY <1>4, <1>6, <1>7, <1>9, ListedFirst

\* The rows of an answer are those there are, each once and in their order.
LEMMA InOrderLists ==
  ASSUME NEW S \in SUBSET Nat, IsFiniteSet(S)
  PROVE  /\ InOrder(S) \in [1..Cardinality(S) -> S]
         /\ \A i, j \in 1..Cardinality(S) : i < j => InOrder(S)[i] < InOrder(S)[j]
<1>1. PICK s : Lists(s, S, Cardinality(S))
  BY EveryListExists
<1>2. s \in [1..Cardinality(S) -> S] /\ \A i, j \in DOMAIN s : i < j => s[i] < s[j]
  BY <1>1 DEF Lists
<1>3. /\ InOrder(S) \in [1..Cardinality(S) -> S]
      /\ \A i, j \in DOMAIN InOrder(S) : i < j => InOrder(S)[i] < InOrder(S)[j]
  BY <1>2 DEF InOrder
<1> QED
  BY <1>3

\* And none is missing.
LEMMA InOrderIsAll ==
  ASSUME NEW S \in SUBSET Nat, IsFiniteSet(S)
  PROVE  \A r \in S : \E i \in 1..Cardinality(S) : InOrder(S)[i] = r
<1> DEFINE n == Cardinality(S)
<1> DEFINE f == InOrder(S)
<1>1. n = Cardinality(S) /\ n \in Nat /\ f \in [1..n -> S] /\ \A i, j \in 1..n : i < j => f[i] < f[j]
  BY InOrderLists, FS_CardinalityType
<1>2. IsFiniteSet(1..n) /\ Cardinality(1..n) = n
  BY <1>1, FS_Interval
<1>3. \A i, j \in 1..n : i # j => f[i] # f[j]
  <2>1. ASSUME NEW i \in 1..n, NEW j \in 1..n, i # j PROVE f[i] # f[j]
    <3>1. f[i] \in Nat /\ f[j] \in Nat
      BY <1>1
    <3>2. CASE i < j
      BY <1>1, <3>1, <3>2
    <3>3. CASE j < i
      BY <1>1, <3>1, <3>3
    <3> QED
      BY <1>1, <2>1, <3>2, <3>3
  <2> QED
    BY <2>1
<1> HIDE DEF n, f
<1>4. f \in Injection(1..n, S)
  BY <1>1, <1>3 DEF Injection, IsInjective
<1>5. f \in Surjection(1..n, S)
  BY <1>1, <1>2, <1>4, FS_Injection
<1>6. ASSUME NEW r \in S PROVE \E i \in 1..n : f[i] = r
  BY <1>5 DEF Surjection
<1> QED
  BY <1>6 DEF n, f

-----------------------------------------------------------------------------
(***************************************************************************)
(* Report runs, for any number of runs, configurations and workers and any *)
(* budget of retries and upsets.                                           *)
(***************************************************************************)

\* A run that is not there yet has no past.
UnusedIsFresh == \A r \in Unused : runs[r].attempts = 0 /\ ~runs[r].cancel

\* A worker that has not outlived its lease executes a run that is in progress, under a
\* live lease: nobody else may claim one.
BusyIsLive == stalls = 0 => \A b \in Browsers : Busy(b) => browser[b].run \in Live

\* At most one worker has not done with a run; one whose row is closed is within the cooldown.
Alone == stalls = 0 => \A b, c \in Browsers : browser[b].phase # "idle" /\ browser[c].phase # "idle" => b = c
TrailingCools == stalls = 0 => \A b \in Browsers : Trailing(b) => cooling

\* The type that the executor read still holds, but for a race.
TypeReadHolds ==
  stalls = 0 => \A b \in Browsers :
    Busy(b) /\ browser[b].phase # "starting" /\ browser[b].run \notin raced
      => (browser[b].manual <=> Manual(browser[b].run))

\* A manual run that waits has not been executed.
WaitingIsUntried ==
  stalls = 0 => \A r \in Reports \ (raced \cup putBack) :
    runs[r].status = "pending" /\ Manual(r) => runs[r].attempts = 0

RunsInv ==
  /\ ReportRunsTypeOK /\ stalls <= upsets
  /\ UnusedIsFresh /\ CancelledStaysOut /\ BusyIsLive /\ Alone /\ TrailingCools /\ TypeReadHolds
  /\ WaitingIsUntried /\ ManualRunsOnce

ReportRunsSpec == ReportRunsInit /\ [][ReportRunsNext]_reportVars
-----------------------------------------------------------------------------
\* The steps of a worker on the run that it executes.
LEMMA StartRunKeeps ==
  ASSUME RunsInv, NEW b \in Browsers, StartRun(b)
  PROVE  RunsInv'
<1>1. ReportRunsTypeOK'
  <2>1. Manual(browser[b].run) \in BOOLEAN
    BY DEF Manual
  <2>2. PICK m \in BOOLEAN : browser' = [browser EXCEPT ![b] = [@ EXCEPT !.phase = "working", !.manual = m]]
    BY <2>1 DEF StartRun
  <2>3. browser[b].run # 0 /\ browser[b] \in BrowserWork
    BY DEF StartRun, RunsInv, ReportRunsTypeOK
  <2>4. [browser[b] EXCEPT !.phase = "working", !.manual = m] \in BrowserWork
    BY <2>3 DEF BrowserWork
  <2>5. browser' = [browser EXCEPT ![b] = [browser[b] EXCEPT !.phase = "working", !.manual = m]]
    BY <2>2 DEF RunsInv, ReportRunsTypeOK, BrowserWork
  <2>6. /\ browser' \in [Browsers -> BrowserWork]
        /\ \A c \in Browsers : browser'[c].run = 0 <=> browser'[c].phase = "idle"
    BY <2>3, <2>4, <2>5 DEF RunsInv, ReportRunsTypeOK, BrowserWork
  <2> QED
    BY <2>6 DEF RunsInv, ReportRunsTypeOK, StartRun
<1>2. (stalls <= upsets)'
  BY DEF RunsInv, ReportRunsTypeOK, StartRun, Phased
<1>3. UnusedIsFresh'
  BY DEF RunsInv, ReportRunsTypeOK, ReportRow, BrowserWork, UnusedIsFresh, Unused, StartRun, Phased
<1>4. CancelledStaysOut'
  BY DEF RunsInv, ReportRunsTypeOK, ReportRow, BrowserWork, CancelledStaysOut, StartRun, Phased
<1>5. BusyIsLive'
  BY DEF RunsInv, ReportRunsTypeOK, ReportRow, BrowserWork, BusyIsLive, Busy, Live, StartRun, Phased
<1>6. Alone'
  BY DEF RunsInv, ReportRunsTypeOK, ReportRow, BrowserWork, Alone, StartRun, Phased
<1>7. TypeReadHolds'
  BY DEF RunsInv, ReportRunsTypeOK, ReportRow, BrowserWork, TypeReadHolds, Busy, Manual, StartRun,
         Phased
<1>8. WaitingIsUntried'
  BY DEF RunsInv, ReportRunsTypeOK, ReportRow, BrowserWork, WaitingIsUntried, Manual, StartRun, Phased
<1>9. ManualRunsOnce'
  BY DEF RunsInv, ReportRunsTypeOK, ReportRow, BrowserWork, ManualRunsOnce, Manual, StartRun, Phased
<1>10. TrailingCools'
  BY DEF RunsInv, ReportRunsTypeOK, ReportRow, BrowserWork, TrailingCools, Trailing, StartRun, Phased
<1> QED
  BY <1>1, <1>2, <1>3, <1>4, <1>5, <1>6, <1>7, <1>8, <1>9, <1>10 DEF RunsInv

LEMMA CheckCancelledKeeps ==
  ASSUME RunsInv, NEW b \in Browsers, CheckCancelled(b)
  PROVE  RunsInv'
<1>1. ReportRunsTypeOK'
  BY DEF RunsInv, ReportRunsTypeOK, ReportRow, BrowserWork, CheckCancelled, Phased
<1>2. (stalls <= upsets)'
  BY DEF RunsInv, ReportRunsTypeOK, CheckCancelled, Phased
<1>3. UnusedIsFresh'
  BY DEF RunsInv, ReportRunsTypeOK, ReportRow, BrowserWork, UnusedIsFresh, Unused, CheckCancelled,
         Phased
<1>4. CancelledStaysOut'
  BY DEF RunsInv, ReportRunsTypeOK, ReportRow, BrowserWork, CancelledStaysOut, CheckCancelled, Phased
<1>5. BusyIsLive'
  BY DEF RunsInv, ReportRunsTypeOK, ReportRow, BrowserWork, BusyIsLive, Busy, Live, CheckCancelled,
         Phased
<1>6. Alone'
  BY DEF RunsInv, ReportRunsTypeOK, ReportRow, BrowserWork, Alone, CheckCancelled, Phased
<1>7. TypeReadHolds'
  BY DEF RunsInv, ReportRunsTypeOK, ReportRow, BrowserWork, TypeReadHolds, Busy, Manual,
         CheckCancelled, Phased
<1>8. WaitingIsUntried'
  BY DEF RunsInv, ReportRunsTypeOK, ReportRow, BrowserWork, WaitingIsUntried, Manual,
         CheckCancelled, Phased
<1>9. ManualRunsOnce'
  BY DEF RunsInv, ReportRunsTypeOK, ReportRow, BrowserWork, ManualRunsOnce, Manual, CheckCancelled,
         Phased
<1>10. TrailingCools'
  BY DEF RunsInv, ReportRunsTypeOK, ReportRow, BrowserWork, TrailingCools, Trailing, CheckCancelled, Phased
<1> QED
  BY <1>1, <1>2, <1>3, <1>4, <1>5, <1>6, <1>7, <1>8, <1>9, <1>10 DEF RunsInv

LEMMA TrailKeeps ==
  ASSUME RunsInv, NEW b \in Browsers, Trail(b)
  PROVE  RunsInv'
<1>1. ReportRunsTypeOK'
  BY DEF RunsInv, ReportRunsTypeOK, ReportRow, BrowserWork, Trail, Trailing, Phased, Resting
<1>2. (stalls <= upsets)'
  BY DEF RunsInv, ReportRunsTypeOK, Trail, Trailing, Phased, Resting
<1>3. UnusedIsFresh'
  BY DEF RunsInv, ReportRunsTypeOK, ReportRow, BrowserWork, UnusedIsFresh, Unused, Trail, Trailing,
         Phased, Resting
<1>4. CancelledStaysOut'
  BY DEF RunsInv, ReportRunsTypeOK, ReportRow, BrowserWork, CancelledStaysOut, Trail, Trailing, Phased, Resting
<1>5. BusyIsLive'
  BY DEF RunsInv, ReportRunsTypeOK, ReportRow, BrowserWork, BusyIsLive, Busy, Live, Trail, Trailing,
         Phased, Resting
<1>6. Alone'
  BY DEF RunsInv, ReportRunsTypeOK, ReportRow, BrowserWork, Alone, Trail, Trailing, Phased, Resting
<1>7. TypeReadHolds'
  BY DEF RunsInv, ReportRunsTypeOK, ReportRow, BrowserWork, TypeReadHolds, Busy, Manual,
         Trail, Trailing, Phased, Resting
<1>8. WaitingIsUntried'
  BY DEF RunsInv, ReportRunsTypeOK, ReportRow, BrowserWork, WaitingIsUntried, Manual,
         Trail, Trailing, Phased, Resting
<1>9. ManualRunsOnce'
  BY DEF RunsInv, ReportRunsTypeOK, ReportRow, BrowserWork, ManualRunsOnce, Manual, Trail, Trailing,
         Phased, Resting
<1>10. TrailingCools'
  BY DEF RunsInv, ReportRunsTypeOK, ReportRow, BrowserWork, TrailingCools, Trailing, Trail, Phased, Resting
<1> QED
  BY <1>1, <1>2, <1>3, <1>4, <1>5, <1>6, <1>7, <1>8, <1>9, <1>10 DEF RunsInv

LEMMA RunFailsKeeps ==
  ASSUME RunsInv, NEW b \in Browsers, RunFails(b)
  PROVE  RunsInv'
<1>1. ReportRunsTypeOK'
  BY DEF RunsInv, ReportRunsTypeOK, ReportRow, BrowserWork, RunFails, Phased
<1>2. (stalls <= upsets)'
  BY DEF RunsInv, ReportRunsTypeOK, RunFails, Phased
<1>3. UnusedIsFresh'
  BY DEF RunsInv, ReportRunsTypeOK, ReportRow, BrowserWork, UnusedIsFresh, Unused, RunFails, Phased
<1>4. CancelledStaysOut'
  BY DEF RunsInv, ReportRunsTypeOK, ReportRow, BrowserWork, CancelledStaysOut, RunFails, Phased
<1>5. BusyIsLive'
  BY DEF RunsInv, ReportRunsTypeOK, ReportRow, BrowserWork, BusyIsLive, Busy, Live, RunFails, Phased
<1>6. Alone'
  BY DEF RunsInv, ReportRunsTypeOK, ReportRow, BrowserWork, Alone, RunFails, Phased
<1>7. TypeReadHolds'
  BY DEF RunsInv, ReportRunsTypeOK, ReportRow, BrowserWork, TypeReadHolds, Busy, Manual, RunFails,
         Phased
<1>8. WaitingIsUntried'
  BY DEF RunsInv, ReportRunsTypeOK, ReportRow, BrowserWork, WaitingIsUntried, Manual, RunFails, Phased
<1>9. ManualRunsOnce'
  BY DEF RunsInv, ReportRunsTypeOK, ReportRow, BrowserWork, ManualRunsOnce, Manual, RunFails, Phased
<1>10. TrailingCools'
  BY DEF RunsInv, ReportRunsTypeOK, ReportRow, BrowserWork, TrailingCools, Trailing, RunFails, Phased
<1> QED
  BY <1>1, <1>2, <1>3, <1>4, <1>5, <1>6, <1>7, <1>8, <1>9, <1>10 DEF RunsInv

LEMMA WorkerDiesKeeps ==
  ASSUME RunsInv, NEW b \in Browsers, WorkerDies(b)
  PROVE  RunsInv'
<1>1. ReportRunsTypeOK'
  BY ReportRunsAssumption DEF RunsInv, ReportRunsTypeOK, ReportRow, BrowserWork, WorkerDies, Upset,
                              Resting
<1>2. (stalls <= upsets)'
  BY ReportRunsAssumption DEF RunsInv, ReportRunsTypeOK, WorkerDies, Upset
<1>3. UnusedIsFresh'
  BY DEF RunsInv, ReportRunsTypeOK, ReportRow, BrowserWork, UnusedIsFresh, Unused, WorkerDies
<1>4. CancelledStaysOut'
  BY DEF RunsInv, ReportRunsTypeOK, ReportRow, BrowserWork, CancelledStaysOut, WorkerDies
<1>5. BusyIsLive'
  BY DEF RunsInv, ReportRunsTypeOK, ReportRow, BrowserWork, BusyIsLive, Busy, Live, WorkerDies, Resting
<1>6. Alone'
  BY DEF RunsInv, ReportRunsTypeOK, ReportRow, BrowserWork, Alone, WorkerDies
<1>7. TypeReadHolds'
  BY DEF RunsInv, ReportRunsTypeOK, ReportRow, BrowserWork, TypeReadHolds, Busy, Manual,
         WorkerDies, Resting
<1>8. WaitingIsUntried'
  BY DEF RunsInv, ReportRunsTypeOK, ReportRow, BrowserWork, WaitingIsUntried, Manual, WorkerDies
<1>9. ManualRunsOnce'
  BY DEF RunsInv, ReportRunsTypeOK, ReportRow, BrowserWork, ManualRunsOnce, Manual, WorkerDies
<1>10. TrailingCools'
  BY DEF RunsInv, ReportRunsTypeOK, ReportRow, BrowserWork, TrailingCools, Trailing, WorkerDies, Resting
<1> QED
  BY <1>1, <1>2, <1>3, <1>4, <1>5, <1>6, <1>7, <1>8, <1>9, <1>10 DEF RunsInv

LEMMA HeartbeatKeeps ==
  ASSUME RunsInv, NEW b \in Browsers, Heartbeat(b)
  PROVE  RunsInv'
<1>1. ReportRunsTypeOK'
  BY DEF RunsInv, ReportRunsTypeOK, ReportRow, BrowserWork, Heartbeat
<1>2. (stalls <= upsets)'
  BY DEF RunsInv, ReportRunsTypeOK, Heartbeat
<1>3. UnusedIsFresh'
  BY DEF RunsInv, ReportRunsTypeOK, ReportRow, BrowserWork, UnusedIsFresh, Unused, Heartbeat
<1>4. CancelledStaysOut'
  BY DEF RunsInv, ReportRunsTypeOK, ReportRow, BrowserWork, CancelledStaysOut, Heartbeat
<1>5. BusyIsLive'
  BY DEF RunsInv, ReportRunsTypeOK, ReportRow, BrowserWork, BusyIsLive, Busy, Live, Heartbeat
<1>6. Alone'
  BY DEF RunsInv, ReportRunsTypeOK, ReportRow, BrowserWork, Alone, Heartbeat
<1>7. TypeReadHolds'
  BY DEF RunsInv, ReportRunsTypeOK, ReportRow, BrowserWork, TypeReadHolds, Busy, Manual, Heartbeat
<1>8. WaitingIsUntried'
  BY DEF RunsInv, ReportRunsTypeOK, ReportRow, BrowserWork, WaitingIsUntried, Manual, Heartbeat
<1>9. ManualRunsOnce'
  BY DEF RunsInv, ReportRunsTypeOK, ReportRow, BrowserWork, ManualRunsOnce, Manual, Heartbeat
<1>10. TrailingCools'
  BY DEF RunsInv, ReportRunsTypeOK, ReportRow, BrowserWork, TrailingCools, Trailing, Heartbeat
<1> QED
  BY <1>1, <1>2, <1>3, <1>4, <1>5, <1>6, <1>7, <1>8, <1>9, <1>10 DEF RunsInv

\* The end of a run, and its return to the queue.
LEMMA CompleteKeeps ==
  ASSUME RunsInv, NEW b \in Browsers, NEW status \in {"failed", "success", "cancelled"},
         NEW phase \in {"idle", "completed", "closing"}, browser[b].phase # "idle",
         Complete(b, status, phase), upsets' \in 0 .. MaxUpsets, upsets <= upsets', UNCHANGED putBack
  PROVE  RunsInv'
<1>1. ReportRunsTypeOK'
  <2>1. browser[b].run \in Reports /\ runs[browser[b].run] \in ReportRow /\ browser[b].run # 0
    BY DEF RunsInv, ReportRunsTypeOK, BrowserWork
  <2>2. [runs[browser[b].run] EXCEPT !.status = status, !.lease = "none"] \in ReportRow
    BY <2>1 DEF ReportRow, RunStatuses
  <2>3. runs' = [runs EXCEPT ![browser[b].run] = [runs[browser[b].run] EXCEPT !.status = status, !.lease = "none"]]
    BY <2>1 DEF RunsInv, ReportRunsTypeOK, ReportRow, Complete, Resting, Phased
  <2>4. runs' \in [Reports -> ReportRow]
    BY <2>2, <2>3 DEF RunsInv, ReportRunsTypeOK
  <2>5. /\ browser' \in [Browsers -> BrowserWork]
        /\ \A c \in Browsers : browser'[c].run = 0 <=> browser'[c].phase = "idle"
    BY DEF RunsInv, ReportRunsTypeOK, BrowserWork, Resting, Phased, Complete
  <2> QED
    BY <2>4, <2>5 DEF RunsInv, ReportRunsTypeOK, Complete, Resting, Phased
<1>2. (stalls <= upsets)'
  BY ReportRunsAssumption DEF RunsInv, ReportRunsTypeOK, Complete, Resting, Phased
<1>3. UnusedIsFresh'
  BY DEF RunsInv, ReportRunsTypeOK, ReportRow, BrowserWork, UnusedIsFresh, Unused, Complete, Resting, Phased
<1>4. CancelledStaysOut'
  BY DEF RunsInv, ReportRunsTypeOK, ReportRow, BrowserWork, CancelledStaysOut, Complete, Resting, Phased
<1>5. BusyIsLive'
  BY DEF RunsInv, ReportRunsTypeOK, ReportRow, BrowserWork, BusyIsLive, Busy, Alone, Complete, Resting, Phased
<1>6. Alone'
  BY DEF RunsInv, ReportRunsTypeOK, ReportRow, BrowserWork, Alone, Complete, Resting, Phased
<1>7. TypeReadHolds'
  BY DEF RunsInv, ReportRunsTypeOK, ReportRow, BrowserWork, TypeReadHolds, Busy, Manual, Complete, Resting, Phased
<1>8. WaitingIsUntried'
  BY DEF RunsInv, ReportRunsTypeOK, ReportRow, BrowserWork, WaitingIsUntried, Manual, Complete, Resting, Phased
<1>9. ManualRunsOnce'
  BY DEF RunsInv, ReportRunsTypeOK, ReportRow, BrowserWork, ManualRunsOnce, Manual, Complete, Resting, Phased
<1>10. TrailingCools'
  BY DEF RunsInv, ReportRunsTypeOK, ReportRow, BrowserWork, TrailingCools, Trailing, Complete, Resting, Phased
<1> QED
  BY <1>1, <1>2, <1>3, <1>4, <1>5, <1>6, <1>7, <1>8, <1>9, <1>10 DEF RunsInv

LEMMA ScheduleRetryKeeps ==
  ASSUME RunsInv, NEW b \in Browsers, ScheduleRetry(b), upsets' \in 0 .. MaxUpsets,
         upsets <= upsets', putBack' \subseteq Reports, putBack \subseteq putBack',
         \/ browser[b].phase = "failing"
         \/ browser[b].phase = "completed" /\ browser[b].run \in putBack'
  PROVE  RunsInv'
<1>1. ReportRunsTypeOK'
  <2>1. browser[b].run \in Reports /\ runs[browser[b].run] \in ReportRow /\ browser[b].run # 0
    BY DEF RunsInv, ReportRunsTypeOK, BrowserWork
  <2>2. [runs[browser[b].run] EXCEPT !.status = "pending", !.lease = "none", !.owner = NOBODY] \in ReportRow
    BY <2>1 DEF ReportRow, RunStatuses
  <2>3. runs' = [runs EXCEPT ![browser[b].run] = [runs[browser[b].run] EXCEPT !.status = "pending", !.lease = "none", !.owner = NOBODY]]
    BY <2>1 DEF RunsInv, ReportRunsTypeOK, ReportRow, ScheduleRetry, Phased
  <2>4. runs' \in [Reports -> ReportRow]
    BY <2>2, <2>3 DEF RunsInv, ReportRunsTypeOK
  <2>5. /\ browser' \in [Browsers -> BrowserWork]
        /\ \A c \in Browsers : browser'[c].run = 0 <=> browser'[c].phase = "idle"
    BY DEF RunsInv, ReportRunsTypeOK, BrowserWork, ScheduleRetry, Phased
  <2> QED
    BY <2>4, <2>5 DEF RunsInv, ReportRunsTypeOK, ScheduleRetry, Phased
<1>2. (stalls <= upsets)'
  BY ReportRunsAssumption DEF RunsInv, ReportRunsTypeOK, ScheduleRetry, Phased
<1>3. UnusedIsFresh'
  BY DEF RunsInv, ReportRunsTypeOK, ReportRow, BrowserWork, UnusedIsFresh, Unused, ScheduleRetry, Phased
<1>4. CancelledStaysOut'
  BY DEF RunsInv, ReportRunsTypeOK, ReportRow, BrowserWork, CancelledStaysOut, ScheduleRetry, Phased, Retriable
<1>5. BusyIsLive'
  BY DEF RunsInv, ReportRunsTypeOK, ReportRow, BrowserWork, BusyIsLive, Busy, Alone, ScheduleRetry, Phased
<1>6. Alone'
  BY DEF RunsInv, ReportRunsTypeOK, ReportRow, BrowserWork, Alone, ScheduleRetry, Phased
<1>7. TypeReadHolds'
  BY DEF RunsInv, ReportRunsTypeOK, ReportRow, BrowserWork, TypeReadHolds, Busy, Manual,
         ScheduleRetry, Phased
<1>8. WaitingIsUntried'
  BY DEF RunsInv, ReportRunsTypeOK, ReportRow, BrowserWork, WaitingIsUntried, Manual,
         ScheduleRetry, TypeReadHolds, Busy
<1>9. ManualRunsOnce'
  BY DEF RunsInv, ReportRunsTypeOK, ReportRow, BrowserWork, ManualRunsOnce, Manual, ScheduleRetry, Phased
<1>10. TrailingCools'
  BY DEF RunsInv, ReportRunsTypeOK, ReportRow, BrowserWork, TrailingCools, Trailing, ScheduleRetry, Phased
<1> QED
  BY <1>1, <1>2, <1>3, <1>4, <1>5, <1>6, <1>7, <1>8, <1>9, <1>10 DEF RunsInv

\* What happens to a run besides.
LEMMA LeaseRunsOutKeeps ==
  ASSUME RunsInv, NEW r \in Reports, LeaseRunsOut(r)
  PROVE  RunsInv'
<1>1. ReportRunsTypeOK'
  BY ReportRunsAssumption DEF RunsInv, ReportRunsTypeOK, ReportRow, BrowserWork, LeaseRunsOut, Upset
<1>2. (stalls <= upsets)'
  BY ReportRunsAssumption DEF RunsInv, ReportRunsTypeOK, LeaseRunsOut, Upset
<1>3. UnusedIsFresh'
  BY DEF RunsInv, ReportRunsTypeOK, ReportRow, BrowserWork, UnusedIsFresh, Unused, LeaseRunsOut
<1>4. CancelledStaysOut'
  BY DEF RunsInv, ReportRunsTypeOK, ReportRow, BrowserWork, CancelledStaysOut, LeaseRunsOut
<1>5. BusyIsLive'
  BY DEF RunsInv, ReportRunsTypeOK, ReportRow, BrowserWork, BusyIsLive, Busy, Live, LeaseRunsOut
<1>6. Alone'
  BY DEF RunsInv, ReportRunsTypeOK, ReportRow, BrowserWork, Alone, LeaseRunsOut
<1>7. TypeReadHolds'
  BY DEF RunsInv, ReportRunsTypeOK, ReportRow, BrowserWork, TypeReadHolds, Busy, Manual, LeaseRunsOut
<1>8. WaitingIsUntried'
  BY DEF RunsInv, ReportRunsTypeOK, ReportRow, BrowserWork, WaitingIsUntried, Manual, LeaseRunsOut
<1>9. ManualRunsOnce'
  BY DEF RunsInv, ReportRunsTypeOK, ReportRow, BrowserWork, ManualRunsOnce, Manual, LeaseRunsOut
<1>10. TrailingCools'
  BY DEF RunsInv, ReportRunsTypeOK, ReportRow, BrowserWork, TrailingCools, Trailing, LeaseRunsOut
<1> QED
  BY <1>1, <1>2, <1>3, <1>4, <1>5, <1>6, <1>7, <1>8, <1>9, <1>10 DEF RunsInv

LEMMA CancelRunKeeps ==
  ASSUME RunsInv, NEW r \in Reports, CancelRun(r)
  PROVE  RunsInv'
<1> DEFINE cancelled == Withdrawn(runs[r])
<1>1. runs[r] \in ReportRow /\ runs' = [runs EXCEPT ![r] = cancelled]
  BY DEF CancelRun, RunsInv, ReportRunsTypeOK
<1>2. CASE runs[r].status = "pending"
  <2>1. cancelled \in ReportRow
    BY <1>1, <1>2 DEF ReportRow, RunStatuses, Withdrawn
  <2>2. ReportRunsTypeOK' /\ (stalls <= upsets)'
    BY <1>1, <2>1, ReportRunsAssumption DEF RunsInv, ReportRunsTypeOK, CancelRun, Upset
  <2>3. /\ cancelled.status = "cancelled" /\ cancelled.cancel /\ cancelled.config = runs[r].config
    BY <1>1, <1>2 DEF ReportRow, Withdrawn
  <2>4. UnusedIsFresh' /\ CancelledStaysOut'
    BY <1>1, <2>3 DEF RunsInv, ReportRunsTypeOK, UnusedIsFresh, Unused, CancelledStaysOut
  <2>5. BusyIsLive'
    BY <1>1, <1>2 DEF RunsInv, ReportRunsTypeOK, BusyIsLive, Busy, Live, CancelRun
  <2>6. Alone' /\ TrailingCools' /\ TypeReadHolds'
    BY <1>1, <2>3 DEF RunsInv, ReportRunsTypeOK, Alone, TrailingCools, Trailing, TypeReadHolds, Busy,
                      Manual, CancelRun
  <2>7. WaitingIsUntried' /\ ManualRunsOnce'
    BY <1>1, <2>3 DEF RunsInv, ReportRunsTypeOK, WaitingIsUntried, ManualRunsOnce, Manual, CancelRun
  <2> QED
    BY <2>2, <2>4, <2>5, <2>6, <2>7 DEF RunsInv
<1>3. CASE runs[r].status = "running"
  <2>1. cancelled \in ReportRow
    BY <1>1, <1>3 DEF ReportRow, RunStatuses, Withdrawn
  <2>2. ReportRunsTypeOK' /\ (stalls <= upsets)'
    BY <1>1, <2>1, ReportRunsAssumption DEF RunsInv, ReportRunsTypeOK, CancelRun, Upset
  <2>3. /\ cancelled.status = "cancelling" /\ cancelled.cancel /\ cancelled.config = runs[r].config
        /\ cancelled.lease = runs[r].lease /\ cancelled.attempts = runs[r].attempts
    BY <1>1, <1>3 DEF ReportRow, Withdrawn
  <2>4. UnusedIsFresh' /\ CancelledStaysOut'
    BY <1>1, <2>3 DEF RunsInv, ReportRunsTypeOK, UnusedIsFresh, Unused, CancelledStaysOut
  <2>5. BusyIsLive'
    BY <1>1, <1>3, <2>3 DEF RunsInv, ReportRunsTypeOK, BusyIsLive, Busy, Live, CancelRun
  <2>6. Alone' /\ TrailingCools' /\ TypeReadHolds'
    BY <1>1, <2>3 DEF RunsInv, ReportRunsTypeOK, Alone, TrailingCools, Trailing, TypeReadHolds, Busy,
                      Manual, CancelRun
  <2>7. WaitingIsUntried' /\ ManualRunsOnce'
    BY <1>1, <1>3, <2>3 DEF RunsInv, ReportRunsTypeOK, WaitingIsUntried, ManualRunsOnce, Manual,
                            CancelRun
  <2> QED
    BY <2>2, <2>4, <2>5, <2>6, <2>7 DEF RunsInv
<1> QED
  BY <1>2, <1>3 DEF CancelRun

\* A new run takes the place of one that was not there.
LEMMA InsertKeeps ==
  ASSUME RunsInv, NEW c \in ReportConfigs, NEW by \in {"scheduled", "manual", "retry"}, Insert(c,
         by), scheduledToday' \subseteq ReportConfigs
  PROVE  RunsInv'
<1>1. ReportRunsTypeOK'
  <2>1. PICK r \in Unused : runs' = [runs EXCEPT ![r] = [@ EXCEPT !.status = "pending", !.config = c, !.by = by]]
    BY DEF Insert
  <2>2. runs' \in [Reports -> ReportRow]
    <3>1. [runs[r] EXCEPT !.status = "pending", !.config = c, !.by = by] \in ReportRow
      <4>1. runs[r] \in ReportRow /\ "pending" \in RunStatuses
        BY DEF RunsInv, ReportRunsTypeOK, Unused, RunStatuses
      <4> QED
        BY <4>1 DEF ReportRow
    <3>2. runs' = [runs EXCEPT ![r] = [runs[r] EXCEPT !.status = "pending", !.config = c, !.by = by]]
      BY <2>1 DEF RunsInv, ReportRunsTypeOK, ReportRow
    <3> QED
      BY <3>1, <3>2 DEF RunsInv, ReportRunsTypeOK
  <2> QED
    BY <2>2 DEF RunsInv, ReportRunsTypeOK, ReportRow, BrowserWork, Insert
<1>2. (stalls <= upsets)'
  BY DEF RunsInv, ReportRunsTypeOK, Insert
<1>3. UnusedIsFresh'
  BY DEF RunsInv, ReportRunsTypeOK, ReportRow, BrowserWork, UnusedIsFresh, Unused, Insert
<1>4. CancelledStaysOut'
  BY DEF RunsInv, ReportRunsTypeOK, ReportRow, BrowserWork, CancelledStaysOut, Insert, UnusedIsFresh
<1>5. BusyIsLive'
  BY DEF RunsInv, ReportRunsTypeOK, ReportRow, BrowserWork, BusyIsLive, Busy, Live, Insert, Unused
<1>6. Alone'
  BY DEF RunsInv, ReportRunsTypeOK, ReportRow, BrowserWork, Alone, Insert
<1>7. TypeReadHolds'
  BY DEF RunsInv, ReportRunsTypeOK, ReportRow, BrowserWork, TypeReadHolds, BusyIsLive, Live, Busy,
         Manual, Insert, Unused
<1>8. WaitingIsUntried'
  BY DEF RunsInv, ReportRunsTypeOK, ReportRow, BrowserWork, WaitingIsUntried, Manual, Insert,
         UnusedIsFresh
<1>9. ManualRunsOnce'
  BY DEF RunsInv, ReportRunsTypeOK, ReportRow, BrowserWork, ManualRunsOnce, Manual, Insert
<1>10. TrailingCools'
  BY DEF RunsInv, ReportRunsTypeOK, ReportRow, BrowserWork, TrailingCools, Trailing, Insert
<1> QED
  BY <1>1, <1>2, <1>3, <1>4, <1>5, <1>6, <1>7, <1>8, <1>9, <1>10 DEF RunsInv

\* The end of the cooldown.
LEMMA CooldownEndsKeeps ==
  ASSUME RunsInv, CooldownEnds
  PROVE  RunsInv'
<1>1. ReportRunsTypeOK'
  <2>1. stalls' \in 0 .. MaxUpsets /\ upsets' \in 0 .. MaxUpsets
    <3>1. stalls \in 0 .. MaxUpsets /\ upsets \in 0 .. MaxUpsets /\ stalls <= upsets
      BY DEF RunsInv, ReportRunsTypeOK
    <3>2. \/ upsets < MaxUpsets /\ upsets' = upsets + 1 /\ stalls' = stalls + 1
          \/ UNCHANGED <<stalls, upsets>>
      BY DEF CooldownEnds, Upset
    <3> QED
      BY <3>1, <3>2, ReportRunsAssumption
  <2> QED
    BY <2>1 DEF RunsInv, ReportRunsTypeOK, CooldownEnds
<1>2. (stalls <= upsets)'
  BY ReportRunsAssumption DEF RunsInv, ReportRunsTypeOK, CooldownEnds, Upset
<1>3. UnusedIsFresh'
  BY DEF RunsInv, ReportRunsTypeOK, ReportRow, BrowserWork, UnusedIsFresh, Unused, CooldownEnds
<1>4. CancelledStaysOut'
  BY DEF RunsInv, ReportRunsTypeOK, ReportRow, BrowserWork, CancelledStaysOut, CooldownEnds
<1>5. BusyIsLive'
  BY DEF RunsInv, ReportRunsTypeOK, ReportRow, BrowserWork, BusyIsLive, Busy, Live, CooldownEnds
<1>6. Alone'
  BY DEF RunsInv, ReportRunsTypeOK, ReportRow, BrowserWork, Alone, CooldownEnds
<1>7. TypeReadHolds'
  BY DEF RunsInv, ReportRunsTypeOK, ReportRow, BrowserWork, TypeReadHolds, Busy, Manual, CooldownEnds
<1>8. WaitingIsUntried'
  BY DEF RunsInv, ReportRunsTypeOK, ReportRow, BrowserWork, WaitingIsUntried, Manual, CooldownEnds
<1>9. ManualRunsOnce'
  BY DEF RunsInv, ReportRunsTypeOK, ReportRow, BrowserWork, ManualRunsOnce, Manual, CooldownEnds
<1>10. TrailingCools'
  BY DEF RunsInv, ReportRunsTypeOK, ReportRow, BrowserWork, TrailingCools, Trailing, CooldownEnds
<1> QED
  BY <1>1, <1>2, <1>3, <1>4, <1>5, <1>6, <1>7, <1>8, <1>9, <1>10 DEF RunsInv

\* The change of a configuration's type, in its two steps.
LEMMA FindNoRunKeeps ==
  ASSUME RunsInv, NEW c \in ReportConfigs, FindNoRun(c)
  PROVE  RunsInv'
<1>1. ReportRunsTypeOK'
  BY ReportRunsAssumption DEF RunsInv, ReportRunsTypeOK, ReportRow, BrowserWork, FindNoRun, Upset
<1>2. (stalls <= upsets)'
  BY ReportRunsAssumption DEF RunsInv, ReportRunsTypeOK, FindNoRun, Upset
<1>3. UnusedIsFresh'
  BY DEF RunsInv, ReportRunsTypeOK, ReportRow, BrowserWork, UnusedIsFresh, Unused, FindNoRun
<1>4. CancelledStaysOut'
  BY DEF RunsInv, ReportRunsTypeOK, ReportRow, BrowserWork, CancelledStaysOut, FindNoRun
<1>5. BusyIsLive'
  BY DEF RunsInv, ReportRunsTypeOK, ReportRow, BrowserWork, BusyIsLive, Busy, Live, FindNoRun
<1>6. Alone'
  BY DEF RunsInv, ReportRunsTypeOK, ReportRow, BrowserWork, Alone, FindNoRun
<1>7. TypeReadHolds'
  BY DEF RunsInv, ReportRunsTypeOK, ReportRow, BrowserWork, TypeReadHolds, Busy, Manual, FindNoRun
<1>8. WaitingIsUntried'
  BY DEF RunsInv, ReportRunsTypeOK, ReportRow, BrowserWork, WaitingIsUntried, Manual, FindNoRun
<1>9. ManualRunsOnce'
  BY DEF RunsInv, ReportRunsTypeOK, ReportRow, BrowserWork, ManualRunsOnce, Manual, FindNoRun
<1>10. TrailingCools'
  BY DEF RunsInv, ReportRunsTypeOK, ReportRow, BrowserWork, TrailingCools, Trailing, FindNoRun
<1> QED
  BY <1>1, <1>2, <1>3, <1>4, <1>5, <1>6, <1>7, <1>8, <1>9, <1>10 DEF RunsInv

LEMMA SwitchModeKeeps ==
  ASSUME RunsInv, NEW c \in ReportConfigs, SwitchMode(c)
  PROVE  RunsInv'
<1>1. ReportRunsTypeOK'
  BY DEF RunsInv, ReportRunsTypeOK, ReportRow, BrowserWork, SwitchMode, RunsOf, ActiveRun
<1>2. (stalls <= upsets)'
  BY DEF RunsInv, ReportRunsTypeOK, SwitchMode, RunsOf, ActiveRun
<1>3. UnusedIsFresh'
  BY DEF RunsInv, ReportRunsTypeOK, ReportRow, BrowserWork, UnusedIsFresh, Unused, SwitchMode,
         RunsOf, ActiveRun
<1>4. CancelledStaysOut'
  BY DEF RunsInv, ReportRunsTypeOK, ReportRow, BrowserWork, CancelledStaysOut, SwitchMode, RunsOf,
         ActiveRun
<1>5. BusyIsLive'
  BY DEF RunsInv, ReportRunsTypeOK, ReportRow, BrowserWork, BusyIsLive, Busy, Live, SwitchMode,
         RunsOf, ActiveRun
<1>6. Alone'
  BY DEF RunsInv, ReportRunsTypeOK, ReportRow, BrowserWork, Alone, SwitchMode, RunsOf, ActiveRun
<1>7. TypeReadHolds'
  BY DEF RunsInv, ReportRunsTypeOK, ReportRow, BrowserWork, TypeReadHolds, BusyIsLive, Live, Busy,
         Manual, SwitchMode, RunsOf, ActiveRun
<1>8. WaitingIsUntried'
  BY DEF RunsInv, ReportRunsTypeOK, ReportRow, BrowserWork, WaitingIsUntried, Manual, SwitchMode,
         RunsOf, ActiveRun
<1>9. ManualRunsOnce'
  BY DEF RunsInv, ReportRunsTypeOK, ReportRow, BrowserWork, ManualRunsOnce, Manual, SwitchMode,
         RunsOf, ActiveRun
<1>10. TrailingCools'
  BY DEF RunsInv, ReportRunsTypeOK, ReportRow, BrowserWork, TrailingCools, Trailing, SwitchMode, RunsOf, ActiveRun
<1> QED
  BY <1>1, <1>2, <1>3, <1>4, <1>5, <1>6, <1>7, <1>8, <1>9, <1>10 DEF RunsInv

\* The claim: the runs by hand that it ends, and the one it takes.
LEMMA InterruptKeeps ==
  ASSUME RunsInv, runs' = Interrupt, UNCHANGED <<browser, byHand, switching, scheduledToday, stalls,
         upsets, raced, putBack>>, cooling' = TRUE
  PROVE  RunsInv'
<1>0. \A r \in Reports :
        /\ runs[r] \in ReportRow
        /\ runs'[r] \in {runs[r], [runs[r] EXCEPT !.status = "failed", !.lease = "none"]}
  BY DEF RunsInv, ReportRunsTypeOK, Interrupt
<1>2a. \A r \in Reports :
        /\ runs'[r].config = runs[r].config /\ runs'[r].attempts = runs[r].attempts
        /\ runs'[r].cancel = runs[r].cancel
        /\ runs'[r].status \in {runs[r].status, "failed"}
  <2> SUFFICES ASSUME NEW r \in Reports
               PROVE  /\ runs'[r].config = runs[r].config /\ runs'[r].attempts = runs[r].attempts
                      /\ runs'[r].cancel = runs[r].cancel
                      /\ runs'[r].status \in {runs[r].status, "failed"}
    OBVIOUS
  <2>1. CASE runs'[r] = runs[r]
    BY <2>1
  <2>2. CASE runs'[r] = [runs[r] EXCEPT !.status = "failed", !.lease = "none"]
    BY <1>0, <2>2 DEF ReportRow
  <2> QED
    BY <1>0, <2>1, <2>2
<1>2b. \A r \in Live : runs'[r] = runs[r]
  BY DEF Live, Interrupt, Interrupted
<1>1. ReportRunsTypeOK'
  <2>1. \A r \in Reports : runs[r] \in ReportRow => [runs[r] EXCEPT !.status = "failed", !.lease = "none"] \in ReportRow
    <3>1. "failed" \in RunStatuses
      BY DEF RunStatuses
    <3> QED
      BY <3>1 DEF ReportRow
  <2>2. runs' \in [Reports -> ReportRow]
    BY <1>0, <2>1 DEF Interrupt
  <2> QED
    BY <2>2 DEF RunsInv, ReportRunsTypeOK
<1>2. (stalls <= upsets)'
  BY DEF RunsInv
<1>3. UnusedIsFresh'
  BY <1>2a DEF RunsInv, UnusedIsFresh, Unused
<1>4. CancelledStaysOut'
  BY <1>2a DEF RunsInv, CancelledStaysOut
<1>5. BusyIsLive'
  BY <1>2b DEF RunsInv, BusyIsLive, Busy, Live
<1>6. Alone'
  BY <1>2a DEF RunsInv, Alone
<1>7. TypeReadHolds'
  BY <1>2a DEF RunsInv, TypeReadHolds, BusyIsLive, Live, Busy, Manual
<1>8. WaitingIsUntried'
  BY <1>2a DEF RunsInv, WaitingIsUntried, Manual
<1>9. ManualRunsOnce'
  BY <1>2a DEF RunsInv, ManualRunsOnce, Manual
<1>10. TrailingCools'
  BY <1>2a DEF RunsInv, TrailingCools, Trailing
<1> QED
  BY <1>1, <1>2, <1>3, <1>4, <1>5, <1>6, <1>7, <1>8, <1>9, <1>10 DEF RunsInv

LEMMA TakeKeeps ==
  ASSUME RunsInv, NEW b \in Browsers, NEW r \in Reports, browser[b] = Resting, Claimable(r),
         runs' = [runs EXCEPT ![r] = Claimed(runs[r], b)],
         browser' = [browser EXCEPT ![b] = [run |-> r, phase |-> "starting", manual |-> FALSE]],
         UNCHANGED <<cooling, byHand, switching, scheduledToday, stalls, upsets, raced, putBack>>
  PROVE  RunsInv'
<1> DEFINE claimed == Claimed(runs[r], b)
<1>1. runs[r] \in ReportRow /\ runs' = [runs EXCEPT ![r] = claimed] /\ r # 0
  BY ReportRunsAssumption DEF RunsInv, ReportRunsTypeOK
<1>2. claimed \in ReportRow
  <2> DEFINE next == runs[r].attempts + 1
  <2>1. next \in Nat /\ "running" \in RunStatuses
    BY <1>1 DEF ReportRow, RunStatuses
  <2>2. claimed = [runs[r] EXCEPT !.status = "running", !.lease = "live", !.owner = b, !.attempts = next]
    BY DEF Claimed
  <2> HIDE DEF next
  <2> QED
    BY <1>1, <2>1, <2>2 DEF ReportRow
<1>3. /\ claimed.status = "running" /\ claimed.lease = "live" /\ claimed.attempts = runs[r].attempts + 1
      /\ claimed.cancel = runs[r].cancel /\ claimed.config = runs[r].config
  BY <1>1 DEF ReportRow, Claimed
<1>4. browser' \in [Browsers -> BrowserWork] /\ \A c \in Browsers : browser'[c].run = 0 <=> browser'[c].phase = "idle"
  BY <1>1 DEF RunsInv, ReportRunsTypeOK, BrowserWork
<1>5. ReportRunsTypeOK' /\ (stalls <= upsets)'
  BY <1>1, <1>2, <1>4 DEF RunsInv, ReportRunsTypeOK
<1>6. UnusedIsFresh' /\ CancelledStaysOut'
  BY <1>1, <1>3 DEF RunsInv, ReportRunsTypeOK, UnusedIsFresh, Unused, CancelledStaysOut, Claimable
<1>7. BusyIsLive'
  BY <1>1, <1>3 DEF RunsInv, ReportRunsTypeOK, BusyIsLive, Busy, Live
<1>8. Alone' /\ TrailingCools'
  <2>1. stalls = 0 => \A c \in Browsers : browser[c].phase = "idle"
    BY DEF RunsInv, ReportRunsTypeOK, BrowserWork, BusyIsLive, Busy, TrailingCools, Trailing, Claimable
  <2> QED
    BY <2>1 DEF RunsInv, ReportRunsTypeOK, Alone, TrailingCools, Trailing
<1>9. TypeReadHolds'
  BY <1>1, <1>3 DEF RunsInv, ReportRunsTypeOK, TypeReadHolds, Busy, BusyIsLive, Claimable
<1>10. WaitingIsUntried'
  BY <1>1, <1>3 DEF RunsInv, ReportRunsTypeOK, WaitingIsUntried, Manual
<1>11. stalls = 0 /\ r \notin raced \cup putBack /\ Manual(r) => runs[r].attempts = 0
  BY DEF RunsInv, WaitingIsUntried, Claimable
<1>12. ManualRunsOnce'
  BY <1>1, <1>3, <1>11 DEF RunsInv, ReportRunsTypeOK, ManualRunsOnce, Manual
<1> QED
  BY <1>5, <1>6, <1>7, <1>8, <1>9, <1>10, <1>12 DEF RunsInv

\* The actions, from the statements they are made of.
LEMMA EndRunKeeps ==
  ASSUME RunsInv, NEW b \in Browsers, EndRun(b)
  PROVE  RunsInv'
<1>0. upsets' \in 0 .. MaxUpsets /\ upsets <= upsets' /\ putBack' \subseteq Reports /\ putBack' = putBack
  BY ReportRunsAssumption DEF EndRun, RunsInv, ReportRunsTypeOK
<1>1. CASE \E status \in {"failed", "success", "cancelled"}, phase \in {"idle", "completed", "closing"} :
             browser[b].phase # "idle" /\ Complete(b, status, phase)
  BY <1>0, <1>1, CompleteKeeps
<1>2. CASE browser[b].phase = "failing" /\ ScheduleRetry(b)
  BY <1>0, <1>2, ScheduleRetryKeeps
<1> QED
  BY <1>1, <1>2 DEF EndRun, GiveUp

LEMMA LastEventFailsKeeps ==
  ASSUME RunsInv, NEW b \in Browsers, LastEventFails(b)
  PROVE  RunsInv'
<1>0. upsets' \in 0 .. MaxUpsets /\ upsets <= upsets' /\ browser[b].run \in Reports /\ browser[b].phase = "completed"
  BY ReportRunsAssumption DEF LastEventFails, Upset, RunsInv, ReportRunsTypeOK, BrowserWork
<1>1. CASE ScheduleRetry(b) /\ putBack' = putBack \cup {browser[b].run}
  <2>1. putBack' \subseteq Reports /\ putBack \subseteq putBack' /\ browser[b].run \in putBack'
    BY <1>0, <1>1 DEF RunsInv, ReportRunsTypeOK
  <2> QED
    BY <1>0, <1>1, <2>1, ScheduleRetryKeeps
<1>2. CASE GiveUp(b) /\ UNCHANGED putBack
  BY <1>0, <1>2, CompleteKeeps DEF GiveUp
<1> QED
  BY <1>1, <1>2 DEF LastEventFails

LEMMA MainFailsKeeps ==
  ASSUME RunsInv, NEW b \in Browsers, MainFails(b)
  PROVE  RunsInv'
<1>1. upsets' \in 0 .. MaxUpsets /\ upsets <= upsets' /\ browser[b].phase # "idle"
  BY ReportRunsAssumption DEF MainFails, Upset, RunsInv, ReportRunsTypeOK
<1> QED
  BY <1>1, CompleteKeeps DEF MainFails

LEMMA ClaimRunKeeps ==
  ASSUME RunsInv, NEW b \in Browsers, ClaimRun(b)
  PROVE  RunsInv'
<1>1. CASE runs' = Interrupt /\ cooling' = TRUE /\ UNCHANGED browser
  BY <1>1, InterruptKeeps DEF ClaimRun
<1>2. ASSUME NEW r \in Reports, Claimable(r),
             runs' = [runs EXCEPT ![r] = Claimed(runs[r], b)],
             browser' = [browser EXCEPT ![b] = [run |-> r, phase |-> "starting", manual |-> FALSE]],
             UNCHANGED cooling
      PROVE  RunsInv'
  BY <1>2, TakeKeeps DEF ClaimRun
<1> QED
  BY <1>1, <1>2 DEF ClaimRun

LEMMA RequestKeeps ==
  ASSUME RunsInv, NEW c \in ReportConfigs, ScheduleDue(c) \/ CreateRun(c)
  PROVE  RunsInv'
<1>1. scheduledToday \subseteq ReportConfigs
  BY DEF RunsInv, ReportRunsTypeOK
<1>2. CASE ScheduleDue(c)
  <2>1. Insert(c, "scheduled") /\ scheduledToday' \subseteq ReportConfigs
    BY <1>1, <1>2 DEF ScheduleDue
  <2> QED
    BY <2>1, InsertKeeps
<1>3. CASE CreateRun(c)
  <2>1. Insert(c, "manual") /\ scheduledToday' \subseteq ReportConfigs
    BY <1>1, <1>3 DEF CreateRun
  <2> QED
    BY <2>1, InsertKeeps
<1> QED
  BY <1>2, <1>3

LEMMA RetryRunKeeps ==
  ASSUME RunsInv, NEW r \in Reports, RetryRun(r)
  PROVE  RunsInv'
<1>1. runs[r].config \in ReportConfigs /\ Insert(runs[r].config, "retry") /\ scheduledToday' \subseteq ReportConfigs
  BY DEF RunsInv, ReportRunsTypeOK, ReportRow, BrowserWork, RetryRun
<1> QED
  BY <1>1, InsertKeeps

LEMMA RestKeeps ==
  ASSUME RunsInv, UNCHANGED <<runs, byHand, switching, scheduledToday, browser, stalls, upsets, raced, putBack>>,
         UNCHANGED cooling
  PROVE  RunsInv'
<1>1. ReportRunsTypeOK' /\ (stalls <= upsets)'
  BY DEF RunsInv, ReportRunsTypeOK
<1>2. Live' = Live /\ Unused' = Unused
  BY DEF Live, Unused
<1>3. UnusedIsFresh' /\ CancelledStaysOut'
  BY <1>2 DEF RunsInv, UnusedIsFresh, CancelledStaysOut
<1>4. BusyIsLive' /\ Alone' /\ TrailingCools' /\ TypeReadHolds'
  BY <1>2 DEF RunsInv, BusyIsLive, Alone, TrailingCools, Trailing, TypeReadHolds, Busy, Manual
<1>5. WaitingIsUntried' /\ ManualRunsOnce'
  BY DEF RunsInv, WaitingIsUntried, ManualRunsOnce, Manual
<1> QED
  BY <1>1, <1>3, <1>4, <1>5 DEF RunsInv

\* The invariant holds at first, and every step keeps it.
LEMMA RunsInvInit == ReportRunsInit => RunsInv
<1> SUFFICES ASSUME ReportRunsInit PROVE RunsInv
  OBVIOUS
<1>1. ReportRunsTypeOK /\ stalls <= upsets
  <2> DEFINE c == CHOOSE d \in ReportConfigs : TRUE
  <2>1. c \in ReportConfigs
    BY ReportRunsAssumption
  <2>2. runs \in [Reports -> ReportRow]
    BY <2>1 DEF ReportRunsInit, ReportRow, RunStatuses
  <2>3. browser \in [Browsers -> BrowserWork] /\ \A b \in Browsers : browser[b].run = 0 /\ browser[b].phase = "idle"
    BY DEF ReportRunsInit, BrowserWork, Resting
  <2>4. byHand \subseteq ReportConfigs /\ switching = {} /\ scheduledToday = {} /\ cooling = FALSE /\ raced = {} /\ putBack = {}
    BY DEF ReportRunsInit
  <2>5. stalls = 0 /\ upsets = 0 /\ 0 \in 0 .. MaxUpsets /\ 0 <= 0
    BY ReportRunsAssumption DEF ReportRunsInit
  <2> QED
    BY <2>2, <2>3, <2>4, <2>5 DEF ReportRunsTypeOK
<1>2. \A b \in Browsers : browser[b].phase = "idle" /\ ~Busy(b) /\ ~Trailing(b)
  BY DEF ReportRunsInit, Busy, Trailing, Resting
<1>3. \A r \in Reports : runs[r].status = "none" /\ runs[r].attempts = 0 /\ ~runs[r].cancel
  BY DEF ReportRunsInit
<1>4. UnusedIsFresh /\ CancelledStaysOut /\ WaitingIsUntried /\ ManualRunsOnce
  BY <1>3 DEF UnusedIsFresh, Unused, CancelledStaysOut, WaitingIsUntried, ManualRunsOnce
<1>5. BusyIsLive /\ Alone /\ TrailingCools /\ TypeReadHolds
  BY <1>2 DEF BusyIsLive, Alone, TrailingCools, TypeReadHolds
<1> QED
  BY <1>1, <1>4, <1>5 DEF RunsInv

LEMMA RunsInvStep == RunsInv /\ [ReportRunsNext]_reportVars => RunsInv'
<1> SUFFICES ASSUME RunsInv, [ReportRunsNext]_reportVars PROVE RunsInv'
  OBVIOUS
<1>1. ASSUME NEW b \in Browsers,
             ClaimRun(b) \/ StartRun(b) \/ CheckCancelled(b) \/ RunFails(b) \/ EndRun(b) \/ LastEventFails(b)
             \/ Trail(b) \/ MainFails(b) \/ Heartbeat(b) \/ WorkerDies(b)
      PROVE  RunsInv'
  BY <1>1, ClaimRunKeeps, StartRunKeeps, CheckCancelledKeeps, RunFailsKeeps, EndRunKeeps,
     LastEventFailsKeeps, TrailKeeps, MainFailsKeeps, HeartbeatKeeps, WorkerDiesKeeps
<1>2. ASSUME NEW r \in Reports, LeaseRunsOut(r) \/ RetryRun(r) \/ CancelRun(r)
      PROVE  RunsInv'
  BY <1>2, LeaseRunsOutKeeps, RetryRunKeeps, CancelRunKeeps
<1>3. ASSUME NEW c \in ReportConfigs, ScheduleDue(c) \/ CreateRun(c) \/ FindNoRun(c) \/ SwitchMode(c)
      PROVE  RunsInv'
  BY <1>3, RequestKeeps, FindNoRunKeeps, SwitchModeKeeps
<1>4. CASE CooldownEnds
  BY <1>4, CooldownEndsKeeps
<1>5. CASE UNCHANGED reportVars
  BY <1>5, RestKeeps DEF reportVars
<1> QED
  BY <1>1, <1>2, <1>3, <1>4, <1>5 DEF ReportRunsNext

\* At most one worker is busy: the same, counted.
LEMMA AloneIsOne == RunsInv => OneBrowserAtATime
<1> SUFFICES ASSUME RunsInv, stalls = 0
             PROVE  Cardinality({b \in Browsers : Busy(b)}) <= 1
  BY DEF OneBrowserAtATime
<1> DEFINE B == {b \in Browsers : Busy(b)}
<1>1. CASE B = {}
  BY <1>1, FS_EmptySet
<1>2. CASE B # {}
  <2>1. PICK b \in B : TRUE
    BY <1>2
  <2>2. B = {b}
    BY <2>1 DEF RunsInv, Alone, Busy
  <2>3. Cardinality({b}) = 1
    BY FS_Singleton
  <2> QED
    BY <2>2, <2>3
<1> QED
  BY <1>1, <1>2

(* One browser at a time, a manual run once, and a cancelled run out of the *)
(* queue: for as long as no worker outlives its lease or the cooldown,      *)
(* however many workers die or cannot close a run, runs are cancelled and   *)
(* configurations change. A run put back after its success is excepted.     *)
THEOREM RunsStayApart == ReportRunsSpec => [](OneBrowserAtATime /\ ManualRunsOnce /\ CancelledStaysOut)
<1>1. RunsInv => OneBrowserAtATime /\ ManualRunsOnce /\ CancelledStaysOut
  BY AloneIsOne DEF RunsInv
<1> QED
  BY <1>1, RunsInvInit, RunsInvStep, PTL DEF ReportRunsSpec

-----------------------------------------------------------------------------
(***************************************************************************)
(* The pushes. Askers are the dispatchers that have a job in hand and have *)
(* not brought a delivery home: each is good for one more delivery of it,  *)
(* and so is the next claim of a job that can be claimed. Deliveries that  *)
(* no row tells of pay for all of these but one.                           *)
(***************************************************************************)
Has(claims, j) == \E i \in DOMAIN claims : claims[i].id = j
Once(claims) == \A a, b \in DOMAIN claims : claims[a].id = claims[b].id => a = b

Delivered(d, j) == pushed[d] = "accepted" /\ Head(batch[d]).id = j
Askers(j) == {d \in Pushers : Has(batch[d], j) /\ ~ Delivered(d, j)}

\* Nobody has to let go of the job before it is claimed.
IsFree(j) ==
  \/ push[j].status = "pending"
  \/ push[j].status = "processing" /\ (~ push[j].leased \/ ~ InHand(j))

\* How often a job has been tried, and that it was when somebody had it in hand.
Tries == 0 .. MaxPushAttempts
Trials == 1 .. MaxPushAttempts
PushRows == [status : PushStatuses, result : PushResults, attempts : Tries, due : BOOLEAN, leased : BOOLEAN]

PushTyped ==
  /\ push \in [PushJobs -> PushRows]
  /\ sheet \in [planned : BOOLEAN, deleted : BOOLEAN, status : SheetStatuses]
  /\ managed \in [enabled : BOOLEAN, deleted : BOOLEAN]
  /\ batch \in [Pushers -> Seq([id : PushJobs, attempts : Trials])]
  /\ pushed \in [Pushers -> {"none", "accepted", "refused"}]
  /\ taken \in [PushJobs -> Nat] /\ unrecorded \in [PushJobs -> Nat]
  /\ shelved \subseteq PushJobs
  /\ drafts \in [Pushers -> SheetStatuses \cup {"none"}] /\ missed \subseteq Pushers
  /\ dropping \subseteq SUBSET PushJobs /\ torn \in BOOLEAN

Batches ==
  \A d \in Pushers : /\ Once(batch[d]) /\ (batch[d] = <<>> => pushed[d] = "none")
                     /\ pushed[d] = "none" => drafts[d] = "none"

Deliveries ==
  \A j \in PushJobs :
    /\ taken[j] + Cardinality(Askers(j)) <= 1 + unrecorded[j]
    /\ IsFree(j) => taken[j] + Cardinality(Askers(j)) <= unrecorded[j]

Shelf == \A j \in shelved : push[j].status = "skipped" /\ ~ InHand(j)

BeforeItsTime == ~ sheet.planned => /\ \A d \in Pushers : batch[d] = <<>>
                                    /\ \A j \in PushJobs : taken[j] = 0

\* What an open transaction has summed up is what its commit makes true, unless another
\* has committed since.
Sums ==
  /\ missed \subseteq Summing
  /\ \A d \in Summing \ missed :
       drafts[d] = "success" <=> /\ pushed[d] = "accepted"
                                 /\ \A j \in PushJobs \ {Head(batch[d]).id} : push[j].result = "success"

PushInv == PushTyped /\ Batches /\ Deliveries /\ Shelf /\ BeforeItsTime /\ Sums /\ SuccessIsOfAll

LEMMA NoTry == 0 \in Tries
BY ManagedDispatchAssumption DEF Tries

\* Pushers are finitely many, and so are those that have a job in hand.
LEMMA PushersAreFinite ==
  ASSUME NEW S \in SUBSET Pushers PROVE IsFiniteSet(S) /\ Cardinality(S) \in Nat
BY ManagedDispatchAssumption, FS_Subset, FS_CardinalityType

\* A batch is its head and what is left, and has each job once.
LEMMA TailOfABatch ==
  ASSUME NEW T, NEW s \in Seq(T), s # <<>>
  PROVE  /\ \A j : Has(s, j) <=> Head(s).id = j \/ Has(Tail(s), j)
         /\ Once(s) => Once(Tail(s)) /\ ~ Has(Tail(s), Head(s).id)
<1>1. /\ Len(s) \in Nat /\ Len(s) > 0 /\ Head(s) = s[1] /\ DOMAIN s = 1 .. Len(s)
      /\ Tail(s) \in Seq(T) /\ Len(Tail(s)) = Len(s) - 1 /\ DOMAIN Tail(s) = 1 .. Len(s) - 1
      /\ \A i \in 1 .. Len(s) - 1 : Tail(s)[i] = s[i + 1]
  BY HeadTailProperties, EmptySeq
<1>2. ASSUME NEW i \in DOMAIN s PROVE i = 1 \/ (i - 1 \in DOMAIN Tail(s) /\ Tail(s)[i - 1] = s[i])
  <2>1. CASE i # 1
    <3>1. i - 1 \in 1 .. Len(s) - 1 /\ (i - 1) + 1 = i
      BY <1>1, <2>1
    <3> QED
      BY <1>1, <3>1
  <2> QED
    BY <2>1
<1>3. \A i \in DOMAIN Tail(s) : i + 1 \in DOMAIN s /\ i + 1 # 1 /\ Tail(s)[i] = s[i + 1]
  BY <1>1
<1>4. ASSUME NEW j PROVE Has(s, j) <=> Head(s).id = j \/ Has(Tail(s), j)
  <2>1. ASSUME NEW i \in DOMAIN s, s[i].id = j PROVE Head(s).id = j \/ Has(Tail(s), j)
    BY <1>1, <1>2, <2>1 DEF Has
  <2>2. ASSUME Head(s).id = j PROVE Has(s, j)
    BY <1>1, <2>2 DEF Has
  <2>3. ASSUME NEW i \in DOMAIN Tail(s), Tail(s)[i].id = j PROVE Has(s, j)
    BY <1>3, <2>3 DEF Has
  <2> QED
    BY <2>1, <2>2, <2>3 DEF Has
<1>5. ASSUME Once(s) PROVE Once(Tail(s))
  <2> SUFFICES ASSUME NEW a \in DOMAIN Tail(s), NEW b \in DOMAIN Tail(s), Tail(s)[a].id = Tail(s)[b].id
               PROVE  a = b
    BY DEF Once
  <2>1. a + 1 = b + 1
    BY <1>3, <1>5 DEF Once
  <2> QED
    BY <1>1, <2>1
<1>6. ASSUME Once(s), Has(Tail(s), Head(s).id) PROVE FALSE
  <2>1. PICK i \in DOMAIN Tail(s) : Tail(s)[i].id = Head(s).id
    BY <1>6 DEF Has
  <2>2. 1 \in DOMAIN s
    BY <1>1
  <2>3. i + 1 = 1
    BY <1>1, <1>3, <1>6, <2>1, <2>2 DEF Once
  <2> QED
    BY <1>3, <2>3
<1> QED
  BY <1>4, <1>5, <1>6

\* Rows move and the hands keep what they have: a job becomes free only for a delivery more.
LEMMA RowsMove ==
  ASSUME PushInv, PushTyped', UNCHANGED <<batch, pushed, taken, drafts>>,
         \A j \in PushJobs : unrecorded'[j] >= unrecorded[j],
         \A j \in PushJobs : IsFree(j)' => \/ IsFree(j) \/ unrecorded'[j] > unrecorded[j]
                                           \/ taken[j] = 0 /\ Askers(j) = {}
  PROVE  Deliveries' /\ Batches'
<1>1. Batches'
  BY DEF PushInv, Batches
<1>2. ASSUME NEW j \in PushJobs
      PROVE  /\ taken'[j] + Cardinality(Askers(j)') <= 1 + unrecorded'[j]
             /\ IsFree(j)' => taken'[j] + Cardinality(Askers(j)') <= unrecorded'[j]
  <2> DEFINE n == Cardinality(Askers(j))
  <2>1. Askers(j)' = Askers(j) /\ n \in Nat
    BY PushersAreFinite DEF Askers, Delivered
  <2>2. Askers(j) = {} => n = 0
    BY FS_EmptySet
  <2>3. /\ taken[j] \in Nat /\ unrecorded[j] \in Nat /\ unrecorded'[j] \in Nat
        /\ taken[j] + n <= 1 + unrecorded[j]
        /\ IsFree(j) => taken[j] + n <= unrecorded[j]
    BY DEF PushInv, PushTyped, Deliveries
  <2> HIDE DEF n
  <2>4. taken'[j] = taken[j] /\ Cardinality(Askers(j)') = n
    BY <2>1 DEF n
  <2> QED
    BY <2>1, <2>2, <2>3, <2>4
<1> QED
  BY <1>1, <1>2 DEF Deliveries

\* Jobs that are cancelled are out of the way, or on theirs; no result is lost.
LEMMA CancelStep ==
  ASSUME PushInv, NEW jobs \in SUBSET PushJobs, Cancel(jobs), UNCHANGED <<batch, pushed, drafts, missed>>,
         dropping' \subseteq SUBSET PushJobs, torn' \in BOOLEAN,
         sheet' \in [planned : BOOLEAN, deleted : BOOLEAN, status : SheetStatuses],
         managed' \in [enabled : BOOLEAN, deleted : BOOLEAN], sheet'.planned = sheet.planned
  PROVE  /\ PushTyped' /\ Batches' /\ Deliveries' /\ Shelf' /\ BeforeItsTime' /\ Sums'
         /\ \A j \in PushJobs : push'[j].result = push[j].result
<1>1. \A j \in PushJobs : /\ Skipped(push[j]) \in PushRows
                          /\ Skipped(push[j]).status = "skipped"
                          /\ Skipped(push[j]).result = push[j].result
  <2>1. ASSUME NEW row \in PushRows
        PROVE  /\ Skipped(row) \in PushRows
               /\ Skipped(row).status = "skipped" /\ Skipped(row).result = row.result
    BY DEF Skipped, PushRows, PushStatuses
  <2> QED
    BY <2>1 DEF PushInv, PushTyped
<1>2. \A j \in PushJobs : push'[j] = IF j \in jobs THEN Skipped(push[j]) ELSE push[j]
  BY DEF Cancel
<1>3. PushTyped'
  <2>1. push' \in [PushJobs -> PushRows]
    BY <1>1 DEF Cancel, PushInv, PushTyped
  <2> QED
    BY <2>1 DEF Cancel, PushInv, PushTyped
<1>4. \A j \in PushJobs : InHand(j)' <=> InHand(j)
  BY DEF InHand
<1>5. \A j \in PushJobs : IsFree(j)' => IsFree(j)
  BY <1>1, <1>2, <1>4 DEF IsFree
<1>6. \A j \in PushJobs : unrecorded'[j] >= unrecorded[j]
  BY DEF Cancel, PushInv, PushTyped
<1>7. UNCHANGED <<batch, pushed, taken, drafts>>
  BY DEF Cancel
<1>8. Deliveries' /\ Batches'
  BY <1>3, <1>5, <1>6, <1>7, RowsMove
<1>9. Shelf'
  <2> SUFFICES ASSUME NEW j \in shelved' PROVE push'[j].status = "skipped" /\ ~ InHand(j)'
    BY DEF Shelf
  <2>1. j \in PushJobs /\ (j \in shelved \/ (j \in jobs /\ ~ InHand(j)))
    BY DEF Cancel, PushInv, PushTyped
  <2> QED
    BY <1>1, <1>2, <1>4, <2>1 DEF PushInv, Shelf
<1>10. BeforeItsTime'
  BY <1>7 DEF PushInv, BeforeItsTime
<1>11. \A j \in PushJobs : push'[j].result = push[j].result
  BY <1>1, <1>2
<1>12. Sums'
  BY <1>11 DEF PushInv, Sums, Summing
<1> QED
  BY <1>3, <1>8, <1>9, <1>10, <1>11, <1>12

\* Success is about the results and the status of the record alone.
LEMMA SuccessStays ==
  ASSUME PushInv, \A j \in PushJobs : push'[j].result = push[j].result,
         sheet'.status = "success" <=> sheet.status = "success", torn => torn'
  PROVE  SuccessIsOfAll'
BY DEF PushInv, SuccessIsOfAll

\* The first invariant: nothing was claimed, and the record has jobs.
LEMMA PushInvInit == ManagedDispatchInit => PushInv
<1> SUFFICES ASSUME ManagedDispatchInit PROVE PushInv
  OBVIOUS
<1>1. PushTyped /\ Sums
  <2>1. PushTyped
    <3>1. push \in [PushJobs -> PushRows]
      BY NoTry DEF ManagedDispatchInit, AskedFor, PushRows, PushStatuses, PushResults
    <3>2. batch \in [Pushers -> Seq([id : PushJobs, attempts : Trials])]
      BY DEF ManagedDispatchInit
    <3>3. taken \in [PushJobs -> Nat] /\ unrecorded \in [PushJobs -> Nat]
      BY DEF ManagedDispatchInit
    <3>4. /\ pushed \in [Pushers -> {"none", "accepted", "refused"}]
          /\ drafts \in [Pushers -> SheetStatuses \cup {"none"}]
      BY DEF ManagedDispatchInit
    <3> QED
      BY <3>1, <3>2, <3>3, <3>4 DEF ManagedDispatchInit, PushTyped, SheetStatuses
  <2>2. Summing = {}
    BY DEF ManagedDispatchInit, Summing
  <2> QED
    BY <2>1, <2>2 DEF ManagedDispatchInit, Sums
<1>2. \A d \in Pushers : \A j : ~ Has(batch[d], j)
  BY DEF ManagedDispatchInit, Has
<1>3. Batches /\ Shelf /\ BeforeItsTime
  BY DEF ManagedDispatchInit, Batches, Once, Shelf, BeforeItsTime
<1>4. Deliveries
  <2>1. \A j : Cardinality(Askers(j)) = 0
    BY <1>2, FS_EmptySet DEF Askers
  <2> QED
    BY <2>1 DEF Deliveries, ManagedDispatchInit
<1>5. SuccessIsOfAll
  BY ManagedDispatchAssumption DEF ManagedDispatchInit, SuccessIsOfAll, AskedFor
<1> QED
  BY <1>1, <1>3, <1>4, <1>5 DEF PushInv

\* What a claim has taken nobody held, or its lease had ended, which was counted.
LEMMA ClaimKeepsPushInv ==
  ASSUME PushInv, NEW d \in Pushers, ClaimPushes(d)
  PROVE  PushInv'
<1> DEFINE claimed == {j \in PushJobs : Pushable(j)}
<1> DEFINE mine == batch'[d]
<1>1. PICK inOrder \in [1 .. Cardinality(claimed) -> claimed] :
        /\ \A a, b \in DOMAIN inOrder : a < b => inOrder[a] < inOrder[b]
        /\ batch' = [batch EXCEPT ![d] = [i \in DOMAIN inOrder |->
                        [id |-> inOrder[i], attempts |-> push[inOrder[i]].attempts + 1]]]
  BY DEF ClaimPushes
<1>2. Cardinality(claimed) \in Nat
  BY ManagedDispatchAssumption, FS_Subset, FS_CardinalityType
<1>3. /\ batch[d] = <<>> /\ pushed[d] = "none"
      /\ UNCHANGED <<sheet, managed, scrapped, removing, pushed, taken, unrecorded, shelved, pushUpsets>>
      /\ UNCHANGED <<drafts, missed, dropping, torn>>
  BY DEF ClaimPushes, PushInv, Batches, summingVars
<1>4. /\ \A j \in claimed : push'[j].status = "processing" /\ push'[j].leased /\ push'[j].result = push[j].result
      /\ \A j \in PushJobs \ claimed : push'[j] = push[j]
      /\ push' \in [PushJobs -> PushRows]
  <2>1. push' = [j \in PushJobs |->
                   IF j \in claimed
                     THEN [push[j] EXCEPT !.status = "processing", !.attempts = @ + 1, !.leased = TRUE]
                     ELSE push[j]]
    BY DEF ClaimPushes
  <2>0. \A k \in Tries : k < MaxPushAttempts => k + 1 \in Tries /\ k + 1 \in Trials
    BY ManagedDispatchAssumption DEF Tries, Trials
  <2>2. ASSUME NEW row \in PushRows, row.attempts < MaxPushAttempts
        PROVE  LET new == [row EXCEPT !.status = "processing", !.attempts = @ + 1, !.leased = TRUE]
               IN  new \in PushRows /\ new.status = "processing" /\ new.leased /\ new.result = row.result
    <3> DEFINE taking == [row EXCEPT !.status = "processing"]
    <3> DEFINE trying == [taking EXCEPT !.attempts = @ + 1]
    <3> DEFINE new == [trying EXCEPT !.leased = TRUE]
    <3>1. /\ taking \in PushRows /\ taking.status = "processing" /\ taking.result = row.result
          /\ taking.attempts \in Tries /\ taking.attempts + 1 \in Tries
      BY <2>0, <2>2 DEF PushRows, PushStatuses
    <3> HIDE DEF taking
    <3>2. trying \in PushRows /\ trying.status = "processing" /\ trying.result = row.result
      BY <3>1 DEF PushRows
    <3> HIDE DEF trying
    <3>3. new \in PushRows /\ new.status = "processing" /\ new.leased /\ new.result = row.result
      BY <3>2 DEF PushRows
    <3> HIDE DEF new
    <3>4. new = [row EXCEPT !.status = "processing", !.attempts = @ + 1, !.leased = TRUE]
      BY <3>1 DEF taking, trying, new, PushRows
    <3> QED
      BY <3>3, <3>4
  <2>3. push \in [PushJobs -> PushRows] /\ \A j \in claimed : push[j].attempts < MaxPushAttempts
    BY DEF PushInv, PushTyped, Pushable, Eligible
  <2> QED
    BY <2>1, <2>2, <2>3
<1>5. /\ mine = [i \in 1 .. Cardinality(claimed) |-> [id |-> inOrder[i], attempts |-> push[inOrder[i]].attempts + 1]]
      /\ \A e \in Pushers \ {d} : batch'[e] = batch[e]
  BY <1>1 DEF PushInv, PushTyped
<1>6. mine \in Seq([id : PushJobs, attempts : Trials])
  <2>1. \A i \in 1 .. Cardinality(claimed) : [id |-> inOrder[i], attempts |-> push[inOrder[i]].attempts + 1] \in [id : PushJobs, attempts : Trials]
    <3> SUFFICES ASSUME NEW i \in 1 .. Cardinality(claimed)
                 PROVE  inOrder[i] \in PushJobs /\ push[inOrder[i]].attempts + 1 \in Trials
      OBVIOUS
    <3>1. inOrder[i] \in PushJobs /\ Pushable(inOrder[i])
      BY <1>1
    <3>2. push[inOrder[i]].attempts \in Tries /\ push[inOrder[i]].attempts < MaxPushAttempts
      BY <3>1 DEF PushInv, PushTyped, PushRows, Pushable, Eligible
    <3>3. \A k \in Tries : k < MaxPushAttempts => k + 1 \in Trials
      BY ManagedDispatchAssumption DEF Tries, Trials
    <3> QED
      BY <3>1, <3>2, <3>3
  <2> DEFINE n == Cardinality(claimed)
  <2> DEFINE C == [id : PushJobs, attempts : Trials]
  <2>2. mine \in [1 .. n -> C]
    BY <1>5, <2>1
  <2>3. n \in Nat
    BY <1>2
  <2> HIDE DEF claimed, mine, n, C
  <2>4. mine \in Seq(C)
    BY <2>2, <2>3, SeqDef
  <2> QED
    BY <2>4 DEF C
<1>7. Once(mine) /\ \A j : Has(mine, j) => j \in claimed
  <2>1. DOMAIN mine = 1 .. Cardinality(claimed) /\ \A i \in DOMAIN mine : mine[i].id = inOrder[i] /\ inOrder[i] \in claimed
    <3>1. \A i \in 1 .. Cardinality(claimed) : inOrder[i] \in claimed
      BY <1>1
    <3> HIDE DEF claimed, mine
    <3> QED
      BY <1>5, <3>1
  <2>2. \A a, b \in DOMAIN mine : a < b => inOrder[a] # inOrder[b]
    <3> SUFFICES ASSUME NEW a \in DOMAIN mine, NEW b \in DOMAIN mine, a < b PROVE inOrder[a] # inOrder[b]
      OBVIOUS
    <3>1. inOrder[a] < inOrder[b] /\ inOrder[a] \in Nat /\ inOrder[b] \in Nat
      BY <1>1, <2>1, ManagedDispatchAssumption
    <3> QED
      BY <3>1
  <2> HIDE DEF claimed, mine
  <2>3. \A a, b \in DOMAIN mine : a = b \/ a < b \/ b < a
    BY <1>2, <2>1
  <2> QED
    BY <2>1, <2>2, <2>3 DEF Once, Has
<1>8. batch' \in [Pushers -> Seq([id : PushJobs, attempts : Trials])]
  BY <1>1, <1>6 DEF PushInv, PushTyped
<1>9. PushTyped'
  BY <1>3, <1>4, <1>8 DEF PushInv, PushTyped
<1>10. Batches'
  BY <1>3, <1>5, <1>7 DEF PushInv, Batches
<1> HIDE DEF claimed, mine
<1>11. \A j \in PushJobs : j \notin claimed => (InHand(j)' <=> InHand(j)) /\ Askers(j)' = Askers(j)
  <2> SUFFICES ASSUME NEW j \in PushJobs, j \notin claimed
               PROVE  (InHand(j)' <=> InHand(j)) /\ Askers(j)' = Askers(j)
    OBVIOUS
  <2>1. ~ Has(mine, j) /\ ~ Has(batch[d], j)
    BY <1>3, <1>7 DEF Has
  <2>2. \A e \in Pushers : (Has(batch'[e], j) <=> Has(batch[e], j))
    BY <1>5, <2>1 DEF mine
  <2>3. \A e \in Pushers \ {d} : Delivered(e, j)' <=> Delivered(e, j)
    BY <1>3, <1>5 DEF Delivered
  <2>4. Askers(j)' = {e \in Pushers : Has(batch'[e], j) /\ ~ Delivered(e, j)'}
    BY DEF Askers
  <2>5. Askers(j)' = Askers(j)
    BY <2>1, <2>2, <2>3, <2>4 DEF Askers, mine
  <2> QED
    BY <2>2, <2>5 DEF InHand, Has
<1>12. Deliveries'
  <2> SUFFICES ASSUME NEW j \in PushJobs
               PROVE  /\ taken'[j] + Cardinality(Askers(j)') <= 1 + unrecorded'[j]
                      /\ IsFree(j)' => taken'[j] + Cardinality(Askers(j)') <= unrecorded'[j]
    BY DEF Deliveries
  <2>1. /\ taken'[j] \in Nat /\ unrecorded'[j] \in Nat /\ taken'[j] = taken[j] /\ unrecorded'[j] = unrecorded[j]
        /\ taken[j] + Cardinality(Askers(j)) <= 1 + unrecorded[j]
        /\ IsFree(j) => taken[j] + Cardinality(Askers(j)) <= unrecorded[j]
    BY <1>3 DEF PushInv, PushTyped, Deliveries
  <2>2. CASE j \notin claimed
    <3>1. IsFree(j)' => IsFree(j)
      BY <1>4, <1>11, <2>2 DEF IsFree
    <3> QED
      BY <1>11, <2>1, <2>2, <3>1
  <2>3. CASE j \in claimed
    <3>1. IsFree(j)
      BY <2>3 DEF claimed, Pushable, IsFree
    <3>2. Askers(j)' \subseteq Askers(j) \cup {d}
      <4>1. \A e \in Pushers \ {d} : (Delivered(e, j)' <=> Delivered(e, j)) /\ batch'[e] = batch[e]
        BY <1>3, <1>5 DEF Delivered
      <4>2. Askers(j)' = {e \in Pushers : Has(batch'[e], j) /\ ~ Delivered(e, j)'}
        BY DEF Askers
      <4> QED
        BY <4>1, <4>2 DEF Askers
    <3>3. Askers(j) \subseteq Pushers /\ Askers(j)' \subseteq Pushers
      BY DEF Askers
    <3>4. /\ IsFiniteSet(Askers(j)) /\ Cardinality(Askers(j)) \in Nat
          /\ IsFiniteSet(Askers(j)') /\ Cardinality(Askers(j)') \in Nat
      BY <3>3, PushersAreFinite
    <3>5. CASE ~ Has(mine, j)
      <4>1. d \notin Askers(j)'
        BY <3>5 DEF Askers, mine
      <4>2. Askers(j)' \subseteq Askers(j)
        BY <3>2, <4>1
      <4>3. Cardinality(Askers(j)') <= Cardinality(Askers(j))
        BY <3>4, <4>2, FS_Subset
      <4> QED
        BY <2>1, <3>1, <3>4, <4>3
    <3>6. CASE Has(mine, j)
      <4>1. InHand(j)'
        BY <3>6 DEF InHand, Has, mine
      <4>2. ~ IsFree(j)'
        BY <1>4, <2>3, <4>1 DEF IsFree
      <4>3. Cardinality(Askers(j)') <= Cardinality(Askers(j)) + 1
        <5>1. /\ IsFiniteSet(Askers(j) \cup {d})
              /\ Cardinality(Askers(j) \cup {d}) \in {Cardinality(Askers(j)), Cardinality(Askers(j)) + 1}
          BY <3>4, FS_AddElement
        <5>2. Cardinality(Askers(j)') <= Cardinality(Askers(j) \cup {d})
          BY <3>2, <5>1, FS_Subset
        <5> QED
          BY <3>4, <5>1, <5>2
      <4> QED
        BY <2>1, <3>1, <3>4, <4>2, <4>3
    <3> QED
      BY <3>5, <3>6
  <2> QED
    BY <2>2, <2>3
<1>13. Shelf'
  <2> SUFFICES ASSUME NEW j \in shelved PROVE push'[j].status = "skipped" /\ ~ InHand(j)'
    BY <1>3 DEF Shelf
  <2>1. j \in PushJobs /\ push[j].status = "skipped" /\ ~ InHand(j)
    BY DEF PushInv, PushTyped, Shelf
  <2>2. j \notin claimed
    BY <2>1 DEF claimed, Pushable
  <2> QED
    BY <1>4, <1>11, <2>1, <2>2
<1>14. sheet.planned
  BY DEF ClaimPushes, Pushable, Eligible
<1>15. BeforeItsTime'
  BY <1>3, <1>14 DEF BeforeItsTime
<1>16. SuccessIsOfAll'
  BY <1>3, <1>4, SuccessStays
<1>17. Sums'
  <2>1. \A j \in PushJobs : push'[j].result = push[j].result
    BY <1>4
  <2>2. \A e \in Summing : e \in Pushers /\ batch'[e] = batch[e]
    BY <1>3, <1>5 DEF Summing, PushInv, Batches
  <2> QED
    BY <1>3, <2>1, <2>2 DEF PushInv, Sums, Summing
<1> QED
  BY <1>9, <1>10, <1>12, <1>13, <1>15, <1>16, <1>17 DEF PushInv

\* A photo that arrives is paid for by its dispatcher, who may bring it home, or by
\* the answer that was lost.
LEMMA SendKeepsPushInv ==
  ASSUME PushInv, NEW d \in Pushers, SendPhoto(d)
  PROVE  PushInv'
<1> DEFINE h == Head(batch[d]).id
<1>1. /\ batch[d] # <<>> /\ pushed[d] = "none"
      /\ UNCHANGED <<push, sheet, managed, batch, shelved, drafts, missed, dropping, torn>>
  BY DEF SendPhoto, summingVars
<1>2. batch[d] \in Seq([id : PushJobs, attempts : Trials])
  BY DEF PushInv, PushTyped
<1>3. h \in PushJobs /\ Has(batch[d], h)
  <2>1. Head(batch[d]) \in [id : PushJobs, attempts : Trials]
    BY <1>1, <1>2, HeadTailProperties
  <2> QED
    BY <1>1, <1>2, <2>1, TailOfABatch
<1>4. \E r \in {"accepted", "refused"} : pushed' = [pushed EXCEPT ![d] = r]
  BY DEF SendPhoto
<1>5. /\ pushed'[d] \in {"accepted", "refused"}
      /\ \A e \in Pushers \ {d} : pushed'[e] = pushed[e]
      /\ pushed' \in [Pushers -> {"none", "accepted", "refused"}]
  BY <1>4 DEF PushInv, PushTyped
<1>6. /\ \A j \in PushJobs \ {h} : taken'[j] = taken[j] /\ unrecorded'[j] = unrecorded[j]
      /\ taken' \in [PushJobs -> Nat] /\ unrecorded' \in [PushJobs -> Nat]
      /\ \/ taken'[h] = taken[h] + 1 /\ unrecorded'[h] = unrecorded[h] /\ pushed'[d] = "accepted"
         \/ taken'[h] = taken[h] /\ unrecorded'[h] = unrecorded[h]
         \/ taken'[h] = taken[h] + 1 /\ unrecorded'[h] = unrecorded[h] + 1
  <2>1. taken \in [PushJobs -> Nat] /\ unrecorded \in [PushJobs -> Nat] /\ pushed \in [Pushers -> {"none", "accepted", "refused"}]
    BY DEF PushInv, PushTyped
  <2>2. CASE pushed' = [pushed EXCEPT ![d] = "accepted"] /\ taken' = [taken EXCEPT ![h] = @ + 1] /\ unrecorded' = unrecorded
    BY <1>3, <2>1, <2>2
  <2>3. CASE taken' = taken /\ unrecorded' = unrecorded
    BY <1>3, <2>1, <2>3
  <2>4. CASE taken' = [taken EXCEPT ![h] = @ + 1] /\ unrecorded' = [unrecorded EXCEPT ![h] = @ + 1]
    BY <1>3, <2>1, <2>4
  <2> QED
    BY <2>2, <2>3, <2>4 DEF SendPhoto
<1> HIDE DEF h
<1>7. PushTyped'
  BY <1>1, <1>5, <1>6 DEF PushInv, PushTyped
<1>8. Batches'
  BY <1>1, <1>5 DEF PushInv, Batches
<1>9. \A j \in PushJobs : (InHand(j)' <=> InHand(j)) /\ (IsFree(j)' <=> IsFree(j))
  BY <1>1 DEF InHand, IsFree
<1>10. \A j \in PushJobs : Askers(j)' = IF pushed'[d] = "accepted" /\ j = h THEN Askers(j) \ {d} ELSE Askers(j)
  <2> SUFFICES ASSUME NEW j \in PushJobs
               PROVE  Askers(j)' = IF pushed'[d] = "accepted" /\ j = h THEN Askers(j) \ {d} ELSE Askers(j)
    OBVIOUS
  <2>1. Askers(j)' = {e \in Pushers : Has(batch[e], j) /\ ~ Delivered(e, j)'}
    BY <1>1 DEF Askers
  <2>2. \A e \in Pushers \ {d} : Delivered(e, j)' <=> Delivered(e, j)
    BY <1>1, <1>5 DEF Delivered
  <2>3. ~ Delivered(d, j) /\ (Delivered(d, j)' <=> pushed'[d] = "accepted" /\ j = h)
    BY <1>1 DEF Delivered, h
  <2> QED
    BY <2>1, <2>2, <2>3 DEF Askers
<1>11. Deliveries'
  <2> SUFFICES ASSUME NEW j \in PushJobs
               PROVE  /\ taken'[j] + Cardinality(Askers(j)') <= 1 + unrecorded'[j]
                      /\ IsFree(j)' => taken'[j] + Cardinality(Askers(j)') <= unrecorded'[j]
    BY DEF Deliveries
  <2>1. /\ taken[j] \in Nat /\ unrecorded[j] \in Nat
        /\ taken[j] + Cardinality(Askers(j)) <= 1 + unrecorded[j]
        /\ IsFree(j) => taken[j] + Cardinality(Askers(j)) <= unrecorded[j]
    BY DEF PushInv, PushTyped, Deliveries
  <2>2. IsFiniteSet(Askers(j)) /\ Cardinality(Askers(j)) \in Nat
    BY PushersAreFinite DEF Askers
  <2>3. CASE j = h /\ pushed'[d] = "accepted"
    <3>1. d \in Askers(j)
      BY <1>1, <1>3, <2>3 DEF Askers, Delivered
    <3>2. Cardinality(Askers(j)') = Cardinality(Askers(j)) - 1
      BY <1>10, <2>2, <2>3, <3>1, FS_RemoveElement
    <3> QED
      BY <1>6, <1>9, <2>1, <2>2, <2>3, <3>2
  <2>4. CASE ~ (j = h /\ pushed'[d] = "accepted")
    <3>1. Cardinality(Askers(j)') = Cardinality(Askers(j))
      BY <1>10, <2>4
    <3> QED
      BY <1>6, <1>9, <2>1, <2>2, <2>4, <3>1
  <2> QED
    BY <2>3, <2>4
<1>12. Shelf'
  BY <1>1, <1>9 DEF PushInv, PushTyped, Shelf
<1>13. BeforeItsTime'
  BY <1>1 DEF PushInv, BeforeItsTime
<1>14. SuccessIsOfAll'
  BY <1>1, SuccessStays
<1>15. Sums'
  <2>1. d \notin Summing
    BY <1>1 DEF Summing, PushInv, Batches
  <2> QED
    BY <1>1, <1>5, <2>1 DEF PushInv, Sums, Summing
<1> QED
  BY <1>7, <1>8, <1>11, <1>12, <1>13, <1>14, <1>15 DEF PushInv

\* The row that a dispatcher settles a job with: a success for one that was accepted only.
LEMMA SettledRows ==
  ASSUME PushInv, NEW d \in Pushers, pushed[d] # "none"
  PROVE  /\ batch[d] # <<>> /\ Head(batch[d]).id \in PushJobs
         /\ SettledRow(d) \in PushRows
         /\ SettledRow(d).result = "success" <=> pushed[d] = "accepted"
         /\ pushed[d] = "accepted" => SettledRow(d).status = "delivered"
<1> DEFINE end == IF Head(batch[d]).attempts >= MaxPushAttempts THEN "failed" ELSE "pending"
<1> DEFINE row == push[Head(batch[d]).id]
<1>1. batch[d] # <<>>
  BY DEF PushInv, Batches
<1>2. Head(batch[d]) \in [id : PushJobs, attempts : Trials]
  BY <1>1, HeadTailProperties DEF PushInv, PushTyped
<1>3. row \in PushRows /\ end \in PushStatuses /\ end \in PushResults /\ end # "success"
  BY <1>2 DEF PushInv, PushTyped, PushStatuses, PushResults
<1>4. SettledRow(d) = IF pushed[d] = "accepted"
                        THEN [row EXCEPT !.status = "delivered", !.result = "success", !.leased = FALSE]
                        ELSE [row EXCEPT !.status = end, !.result = end, !.due = FALSE, !.leased = FALSE]
  BY DEF SettledRow
<1> HIDE DEF row, end
<1>5. "delivered" \in PushStatuses /\ "success" \in PushResults
  BY DEF PushStatuses, PushResults
<1>6. CASE pushed[d] = "accepted"
  BY <1>1, <1>2, <1>3, <1>4, <1>5, <1>6 DEF PushRows
<1>7. CASE pushed[d] # "accepted"
  BY <1>1, <1>2, <1>3, <1>4, <1>7 DEF PushRows
<1> QED
  BY <1>6, <1>7

\* What is summed up is what is committed, with the row that is to be.
LEMMA SumUpKeepsPushInv ==
  ASSUME PushInv, NEW d \in Pushers, SumUp(d)
  PROVE  PushInv'
<1> DEFINE h == Head(batch[d]).id
<1> DEFINE row == SettledRow(d)
<1>1. /\ h \in PushJobs /\ row \in PushRows /\ (row.result = "success" <=> pushed[d] = "accepted")
  BY SettledRows DEF SumUp
<1> HIDE DEF row
<1> DEFINE rows == [push EXCEPT ![h] = row]
<1>2. /\ drafts' = [drafts EXCEPT ![d] = SheetStatusOf(rows)]
      /\ pushed[d] # "none" /\ drafts[d] = "none"
      /\ UNCHANGED <<push, sheet, managed, batch, pushed, missed, dropping, torn, taken, unrecorded, shelved>>
  BY DEF SumUp, row
<1>3. SheetStatusOf(rows) \in SheetStatuses /\ SheetStatusOf(rows) # "none"
  BY DEF SheetStatusOf, SheetStatuses
<1>4. rows[h] = row /\ \A j \in PushJobs \ {h} : rows[j] = push[j]
  BY <1>1 DEF PushInv, PushTyped
<1> HIDE DEF h, rows
<1>5. SheetStatusOf(rows) = "success" <=> pushed[d] = "accepted" /\ \A j \in PushJobs \ {h} : push[j].result = "success"
  <2>1. SheetStatusOf(rows) = "success" <=> \A j \in PushJobs : rows[j].result = "success"
    BY DEF SheetStatusOf
  <2> QED
    BY <1>1, <1>4, <2>1
<1>6. drafts'[d] = SheetStatusOf(rows) /\ \A e \in Pushers \ {d} : drafts'[e] = drafts[e]
  BY <1>2 DEF PushInv, PushTyped
<1>7. PushTyped' /\ Batches'
  BY <1>2, <1>3, <1>6 DEF PushInv, PushTyped, Batches
<1>8. Sums'
  <2>1. Summing' = Summing \cup {d} /\ d \notin missed
    BY <1>2, <1>3, <1>6 DEF Summing, PushInv, Sums
  <2>2. d \in Summing' \ missed' => (drafts'[d] = "success" <=> /\ pushed'[d] = "accepted"
                                   /\ \A j \in PushJobs \ {Head(batch'[d]).id} : push'[j].result = "success")
    BY <1>2, <1>5, <1>6 DEF h
  <2> QED
    BY <1>2, <1>6, <2>1, <2>2 DEF PushInv, Sums, Summing
<1>9. \A j : (InHand(j)' <=> InHand(j)) /\ Askers(j)' = Askers(j)
  BY <1>2 DEF InHand, Askers, Delivered
<1>10. Deliveries' /\ Shelf' /\ BeforeItsTime' /\ SuccessIsOfAll'
  BY <1>2, <1>9 DEF PushInv, Deliveries, Shelf, IsFree, BeforeItsTime, SuccessIsOfAll
<1> QED
  BY <1>7, <1>8, <1>10 DEF PushInv

\* Who settles a job lets go of it: a delivery that was made stays counted, and a
\* failure makes the job free with one dispatcher less.
LEMMA SettleKeepsPushInv ==
  ASSUME PushInv, NEW d \in Pushers, Settle(d)
  PROVE  PushInv'
<1> DEFINE row == SettledRow(d)
<1>0. /\ pushed[d] # "none" /\ drafts[d] # "none" /\ batch[d] # <<>> /\ row \in PushRows
      /\ row.result = "success" <=> pushed[d] = "accepted"
      /\ \/ pushed[d] = "accepted" /\ row.status = "delivered"
         \/ pushed[d] = "refused"
  BY SettledRows DEF Settle, PushInv, PushTyped, Batches
<1> HIDE DEF row
<1>1. batch[d] \in Seq([id : PushJobs, attempts : Trials])
  BY DEF PushInv, PushTyped
<1>2. PICK h \in PushJobs : h = Head(batch[d]).id
  <2>1. Head(batch[d]) \in [id : PushJobs, attempts : Trials]
    BY <1>0, <1>1, HeadTailProperties
  <2> QED
    BY <2>1
<1>3. /\ push' = [push EXCEPT ![h] = row]
      /\ sheet' = [sheet EXCEPT !.status = drafts[d]]
      /\ drafts' = [drafts EXCEPT ![d] = "none"] /\ dropping' = dropping
      /\ missed' = (missed \cup Summing) \ {d} /\ torn' = (d \in missed)
      /\ batch' = [batch EXCEPT ![d] = Tail(batch[d])] /\ pushed' = [pushed EXCEPT ![d] = "none"]
      /\ UNCHANGED <<managed, taken, unrecorded, shelved>>
      /\ Has(batch[d], h) /\ Tail(batch[d]) \in Seq([id : PushJobs, attempts : Trials])
  BY <1>0, <1>1, <1>2, TailOfABatch, HeadTailProperties DEF Settle, row
<1>4. /\ batch'[d] = Tail(batch[d]) /\ pushed'[d] = "none"
      /\ \A e \in Pushers \ {d} : batch'[e] = batch[e] /\ pushed'[e] = pushed[e]
      /\ push'[h] = row /\ \A j \in PushJobs \ {h} : push'[j] = push[j]
      /\ sheet'.planned = sheet.planned /\ sheet'.status = drafts[d]
      /\ drafts'[d] = "none" /\ \A e \in Pushers \ {d} : drafts'[e] = drafts[e]
  BY <1>3 DEF PushInv, PushTyped
<1>5. /\ \A j : Has(batch[d], j) <=> j = h \/ Has(batch'[d], j)
      /\ Once(batch'[d]) /\ ~ Has(batch'[d], h)
  BY <1>0, <1>1, <1>2, <1>4, TailOfABatch DEF PushInv, Batches
<1>6. PushTyped'
  <2>1. drafts[d] \in SheetStatuses
    BY <1>0 DEF PushInv, PushTyped
  <2>2. push' \in [PushJobs -> PushRows]
    BY <1>0, <1>3 DEF PushInv, PushTyped
  <2>3. sheet' \in [planned : BOOLEAN, deleted : BOOLEAN, status : SheetStatuses]
    BY <1>3, <2>1 DEF PushInv, PushTyped
  <2>4. batch' \in [Pushers -> Seq([id : PushJobs, attempts : Trials])]
    BY <1>3 DEF PushInv, PushTyped
  <2>5. pushed' \in [Pushers -> {"none", "accepted", "refused"}]
    BY <1>3 DEF PushInv, PushTyped
  <2>6. drafts' \in [Pushers -> SheetStatuses \cup {"none"}]
    BY <1>3 DEF PushInv, PushTyped
  <2>7. missed' \subseteq Pushers /\ torn' \in BOOLEAN /\ dropping' = dropping
    BY <1>3 DEF PushInv, PushTyped, Summing
  <2> QED
    BY <1>3, <2>2, <2>3, <2>4, <2>5, <2>6, <2>7 DEF PushInv, PushTyped
<1>7. Batches'
  BY <1>4, <1>5 DEF PushInv, Batches
<1>8. \A j \in PushJobs \ {h} : (InHand(j)' <=> InHand(j)) /\ (IsFree(j)' <=> IsFree(j))
  <2> SUFFICES ASSUME NEW j \in PushJobs \ {h}
               PROVE  (InHand(j)' <=> InHand(j)) /\ (IsFree(j)' <=> IsFree(j))
    OBVIOUS
  <2>1. \A e \in Pushers : Has(batch'[e], j) <=> Has(batch[e], j)
    BY <1>4, <1>5
  <2>2. InHand(j)' <=> InHand(j)
    BY <2>1 DEF InHand, Has
  <2> QED
    BY <1>4, <2>2 DEF IsFree
<1>9. \A j \in PushJobs \ {h} : Askers(j)' = Askers(j)
  <2> SUFFICES ASSUME NEW j \in PushJobs \ {h} PROVE Askers(j)' = Askers(j)
    OBVIOUS
  <2>1. Askers(j)' = {e \in Pushers : Has(batch'[e], j) /\ ~ Delivered(e, j)'}
    BY DEF Askers
  <2>2. \A e \in Pushers \ {d} : (Delivered(e, j)' <=> Delivered(e, j)) /\ batch'[e] = batch[e]
    BY <1>4 DEF Delivered
  <2>3. ~ Delivered(d, j)' /\ ~ Delivered(d, j)
    BY <1>2, <1>4 DEF Delivered
  <2>4. Has(batch'[d], j) <=> Has(batch[d], j)
    BY <1>5
  <2> QED
    BY <2>1, <2>2, <2>3, <2>4 DEF Askers
<1>10. Askers(h)' = Askers(h) \ {d}
  <2>1. Askers(h)' = {e \in Pushers : Has(batch'[e], h) /\ ~ Delivered(e, h)'}
    BY DEF Askers
  <2>2. \A e \in Pushers \ {d} : (Delivered(e, h)' <=> Delivered(e, h)) /\ batch'[e] = batch[e]
    BY <1>4 DEF Delivered
  <2> QED
    BY <1>5, <2>1, <2>2 DEF Askers
<1>11. Deliveries'
  <2> SUFFICES ASSUME NEW j \in PushJobs
               PROVE  /\ taken'[j] + Cardinality(Askers(j)') <= 1 + unrecorded'[j]
                      /\ IsFree(j)' => taken'[j] + Cardinality(Askers(j)') <= unrecorded'[j]
    BY DEF Deliveries
  <2>1. /\ taken[j] \in Nat /\ unrecorded[j] \in Nat /\ taken'[j] = taken[j] /\ unrecorded'[j] = unrecorded[j]
        /\ taken[j] + Cardinality(Askers(j)) <= 1 + unrecorded[j]
        /\ IsFree(j) => taken[j] + Cardinality(Askers(j)) <= unrecorded[j]
    BY <1>3 DEF PushInv, PushTyped, Deliveries
  <2>2. IsFiniteSet(Askers(j)) /\ Cardinality(Askers(j)) \in Nat
    BY PushersAreFinite DEF Askers
  <2>3. CASE j # h
    <3>1. Askers(j)' = Askers(j) /\ (IsFree(j)' <=> IsFree(j))
      BY <1>8, <1>9, <2>3
    <3> QED
      BY <2>1, <3>1
  <2>4. CASE j = h /\ pushed[d] = "accepted" /\ row.status = "delivered"
    <3>1. d \notin Askers(h) /\ ~ IsFree(h)'
      BY <1>2, <1>4, <2>4 DEF Askers, Delivered, IsFree
    <3>2. Askers(h)' = Askers(h)
      BY <1>10, <3>1
    <3> QED
      BY <2>1, <2>4, <3>1, <3>2
  <2>5. CASE j = h /\ pushed[d] = "refused"
    <3>1. d \in Askers(h)
      BY <1>3, <2>5 DEF Askers, Delivered
    <3>2. Cardinality(Askers(h)') = Cardinality(Askers(h)) - 1
      BY <1>10, <2>2, <2>5, <3>1, FS_RemoveElement
    <3> QED
      BY <2>1, <2>2, <2>5, <3>2
  <2> QED
    BY <1>0, <2>3, <2>4, <2>5
<1>12. Shelf'
  <2> SUFFICES ASSUME NEW j \in shelved PROVE push'[j].status = "skipped" /\ ~ InHand(j)'
    BY <1>3 DEF Shelf
  <2>1. j \in PushJobs /\ push[j].status = "skipped" /\ ~ InHand(j)
    BY DEF PushInv, PushTyped, Shelf
  <2>2. j # h
    BY <1>3, <2>1 DEF InHand, Has
  <2> QED
    BY <1>4, <1>8, <2>1, <2>2
<1>13. BeforeItsTime'
  BY <1>3, <1>4 DEF PushInv, BeforeItsTime
<1>14. SuccessIsOfAll'
  <2> SUFFICES ASSUME ~ torn'
               PROVE  sheet'.status = "success" <=> \A j \in PushJobs : push'[j].result = "success"
    BY DEF SuccessIsOfAll
  <2>1. d \in Summing \ missed
    BY <1>0, <1>3 DEF Summing
  <2>2. drafts[d] = "success" <=> pushed[d] = "accepted" /\ \A j \in PushJobs \ {h} : push[j].result = "success"
    BY <1>2, <2>1 DEF PushInv, Sums
  <2> QED
    BY <1>0, <1>4, <2>2
<1>15. Sums'
  <2>1. Summing' = Summing \ {d}
    BY <1>4 DEF Summing
  <2>2. missed' = Summing'
    BY <1>3, <2>1 DEF PushInv, Sums
  <2> QED
    BY <2>2 DEF Sums
<1> QED
  BY <1>6, <1>7, <1>11, <1>12, <1>13, <1>14, <1>15 DEF PushInv

\* A batch that is dropped frees its jobs; a delivery that was not noted is counted.
LEMMA DropKeepsPushInv ==
  ASSUME PushInv, NEW d \in Pushers, DropBatch(d)
  PROVE  PushInv'
<1>1. batch[d] \in Seq([id : PushJobs, attempts : Trials]) /\ batch[d] # <<>>
  BY DEF PushInv, PushTyped, DropBatch
<1>2. PICK h \in PushJobs : h = Head(batch[d]).id
  <2>1. Head(batch[d]) \in [id : PushJobs, attempts : Trials]
    BY <1>1, HeadTailProperties
  <2> QED
    BY <2>1
<1>3. Has(batch[d], h)
  BY <1>1, <1>2, TailOfABatch
<1>4. /\ batch' = [batch EXCEPT ![d] = <<>>] /\ pushed' = [pushed EXCEPT ![d] = "none"]
      /\ unrecorded' = IF pushed[d] = "accepted" THEN [unrecorded EXCEPT ![h] = @ + 1] ELSE unrecorded
      /\ drafts' = [drafts EXCEPT ![d] = "none"] /\ missed' = missed \ {d}
      /\ UNCHANGED <<push, sheet, managed, taken, shelved, dropping, torn>>
  BY <1>2 DEF DropBatch
<1>5. /\ batch'[d] = <<>> /\ pushed'[d] = "none"
      /\ \A e \in Pushers \ {d} : batch'[e] = batch[e] /\ pushed'[e] = pushed[e] /\ drafts'[e] = drafts[e]
      /\ drafts'[d] = "none"
      /\ pushed[d] = "accepted" => unrecorded'[h] = unrecorded[h] + 1
      /\ \A j \in PushJobs : unrecorded'[j] \in Nat /\ unrecorded'[j] >= unrecorded[j]
  BY <1>4 DEF PushInv, PushTyped
<1>6. PushTyped'
  <2>1. batch' \in [Pushers -> Seq([id : PushJobs, attempts : Trials])]
    <3>1. <<>> \in Seq([id : PushJobs, attempts : Trials])
      BY EmptySeq
    <3> QED
      BY <1>4, <3>1 DEF PushInv, PushTyped
  <2>2. unrecorded' \in [PushJobs -> Nat] /\ pushed' \in [Pushers -> {"none", "accepted", "refused"}]
    BY <1>4 DEF PushInv, PushTyped
  <2>3. drafts' \in [Pushers -> SheetStatuses \cup {"none"}]
    BY <1>4 DEF PushInv, PushTyped
  <2> QED
    BY <1>4, <2>1, <2>2, <2>3 DEF PushInv, PushTyped
<1>7. Batches'
  BY <1>5 DEF PushInv, Batches, Once
<1>8. \A j \in PushJobs : /\ InHand(j)' => InHand(j)
                          /\ InHand(j) /\ ~ InHand(j)' => Has(batch[d], j)
                          /\ Askers(j)' = Askers(j) \ {d}
  <2> SUFFICES ASSUME NEW j \in PushJobs
               PROVE  /\ InHand(j)' => InHand(j)
                      /\ InHand(j) /\ ~ InHand(j)' => Has(batch[d], j)
                      /\ Askers(j)' = Askers(j) \ {d}
    OBVIOUS
  <2>1. ~ Has(batch'[d], j)
    BY <1>5 DEF Has
  <2>2. \A e \in Pushers \ {d} : (Delivered(e, j)' <=> Delivered(e, j)) /\ batch'[e] = batch[e]
    BY <1>5 DEF Delivered
  <2>3. Askers(j)' = {e \in Pushers : Has(batch'[e], j) /\ ~ Delivered(e, j)'}
    BY DEF Askers
  <2>4. (InHand(j) <=> \E e \in Pushers : Has(batch[e], j)) /\ (InHand(j)' <=> \E e \in Pushers : Has(batch'[e], j))
    BY DEF InHand, Has
  <2>5. Askers(j)' = Askers(j) \ {d}
    BY <2>1, <2>2, <2>3 DEF Askers
  <2> QED
    BY <2>1, <2>2, <2>4, <2>5
<1>9. Deliveries'
  <2> SUFFICES ASSUME NEW j \in PushJobs
               PROVE  /\ taken'[j] + Cardinality(Askers(j)') <= 1 + unrecorded'[j]
                      /\ IsFree(j)' => taken'[j] + Cardinality(Askers(j)') <= unrecorded'[j]
    BY DEF Deliveries
  <2>1. /\ taken[j] \in Nat /\ unrecorded[j] \in Nat /\ taken'[j] = taken[j]
        /\ taken[j] + Cardinality(Askers(j)) <= 1 + unrecorded[j]
        /\ IsFree(j) => taken[j] + Cardinality(Askers(j)) <= unrecorded[j]
    BY <1>4 DEF PushInv, PushTyped, Deliveries
  <2>2. IsFiniteSet(Askers(j)) /\ Cardinality(Askers(j)) \in Nat
    BY PushersAreFinite DEF Askers
  <2>3. Cardinality(Askers(j)') = IF d \in Askers(j) THEN Cardinality(Askers(j)) - 1 ELSE Cardinality(Askers(j))
    BY <1>8, <2>2, FS_RemoveElement
  <2>4. CASE ~ Has(batch[d], j)
    <3>1. IsFree(j)' => IsFree(j)
      BY <1>4, <1>8, <2>4 DEF IsFree
    <3> QED
      BY <1>5, <2>1, <2>2, <2>3, <3>1
  <2>5. CASE d \in Askers(j)
    BY <1>5, <2>1, <2>2, <2>3, <2>5
  <2>6. CASE Has(batch[d], j) /\ d \notin Askers(j)
    <3>1. j = h /\ pushed[d] = "accepted"
      BY <1>2, <2>6 DEF Askers, Delivered
    <3> QED
      BY <1>5, <2>1, <2>2, <2>3, <2>6, <3>1
  <2> QED
    BY <2>4, <2>5, <2>6
<1>10. Shelf'
  BY <1>4, <1>8 DEF PushInv, PushTyped, Shelf
<1>11. BeforeItsTime'
  BY <1>1, <1>4 DEF PushInv, BeforeItsTime
<1>12. SuccessIsOfAll'
  BY <1>4, SuccessStays
<1>13. Sums'
  <2>1. Summing' = Summing \ {d}
    BY <1>5 DEF Summing
  <2> QED
    BY <1>4, <1>5, <2>1 DEF PushInv, Sums, Summing
<1> QED
  BY <1>6, <1>7, <1>9, <1>10, <1>11, <1>12, <1>13 DEF PushInv

\* A lease that ends over a job in hand is counted; one that nobody holds was free.
LEMMA LeaseKeepsPushInv ==
  ASSUME PushInv, NEW j \in PushJobs, LeaseEnds(j) \/ PushBackoffEnds(j)
  PROVE  PushInv'
<1>0. UNCHANGED <<drafts, missed, dropping, torn>>
  BY DEF LeaseEnds, PushBackoffEnds, summingVars
<1>1. /\ UNCHANGED <<sheet, managed, batch, pushed, taken, shelved>>
      /\ unrecorded' \in [PushJobs -> Nat]
      /\ \A k \in PushJobs : unrecorded'[k] >= unrecorded[k]
      /\ LeaseEnds(j) /\ InHand(j) => unrecorded'[j] > unrecorded[j]
  <2>1. unrecorded \in [PushJobs -> Nat]
    BY DEF PushInv, PushTyped
  <2>2. \A k \in PushJobs : unrecorded[k] >= unrecorded[k]
    BY <2>1
  <2>3. CASE unrecorded' = unrecorded /\ ~ (LeaseEnds(j) /\ InHand(j))
    BY <2>1, <2>2, <2>3 DEF LeaseEnds, PushBackoffEnds
  <2>4. CASE unrecorded' = [unrecorded EXCEPT ![j] = @ + 1]
    <3>1. unrecorded'[j] = unrecorded[j] + 1 /\ \A k \in PushJobs \ {j} : unrecorded'[k] = unrecorded[k]
      BY <2>1, <2>4
    <3> QED
      BY <2>1, <2>4, <3>1 DEF LeaseEnds, PushBackoffEnds
  <2> QED
    BY <2>3, <2>4 DEF LeaseEnds, PushBackoffEnds
<1>2. /\ push'[j].status = push[j].status /\ push'[j].result = push[j].result
      /\ PushBackoffEnds(j) => push'[j].status = "pending"
      /\ push' \in [PushJobs -> PushRows] /\ \A k \in PushJobs \ {j} : push'[k] = push[k]
  <2>1. push \in [PushJobs -> PushRows]
    BY DEF PushInv, PushTyped
  <2>2. CASE push' = [push EXCEPT ![j].leased = FALSE] /\ LeaseEnds(j) /\ ~ PushBackoffEnds(j)
    BY <2>1, <2>2 DEF PushRows
  <2>3. CASE push' = [push EXCEPT ![j].due = TRUE] /\ push[j].status = "pending"
    BY <2>1, <2>3 DEF PushRows
  <2> QED
    BY <2>2, <2>3 DEF LeaseEnds, PushBackoffEnds
<1>3. PushTyped'
  BY <1>0, <1>1, <1>2 DEF PushInv, PushTyped
<1>4. \A k \in PushJobs : InHand(k)' <=> InHand(k)
  BY <1>1 DEF InHand
<1>5. \A k \in PushJobs : IsFree(k)' => IsFree(k) \/ unrecorded'[k] > unrecorded[k]
  BY <1>1, <1>2, <1>4 DEF IsFree
<1>6. Deliveries' /\ Batches'
  BY <1>0, <1>1, <1>3, <1>5, RowsMove
<1>7. Shelf'
  BY <1>1, <1>2, <1>4 DEF PushInv, PushTyped, Shelf
<1>8. BeforeItsTime'
  BY <1>1 DEF PushInv, BeforeItsTime
<1>9. SuccessIsOfAll'
  BY <1>0, <1>1, <1>2, SuccessStays
<1>10. Sums'
  <2>1. \A k \in PushJobs : push'[k].result = push[k].result
    BY <1>2
  <2> QED
    BY <1>0, <1>1, <2>1 DEF PushInv, Sums, Summing
<1> QED
  BY <1>3, <1>6, <1>7, <1>8, <1>9, <1>10 DEF PushInv

\* What the desk cancels: the record is successful as before.
LEMMA DeskCancels ==
  ASSUME PushInv, NEW jobs \in SUBSET PushJobs, Cancel(jobs), UNCHANGED <<batch, pushed, drafts, missed>>,
         dropping' \subseteq SUBSET PushJobs, torn' \in BOOLEAN,
         sheet' \in [planned : BOOLEAN, deleted : BOOLEAN, status : SheetStatuses],
         managed' \in [enabled : BOOLEAN, deleted : BOOLEAN], sheet'.planned = sheet.planned,
         sheet'.status = "success" <=> sheet.status = "success", torn => torn'
  PROVE  PushInv'
BY CancelStep, SuccessStays DEF PushInv

\* The desk and the devices may do what no job is concerned in.
LEMMA NothingMoves ==
  ASSUME PushInv, UNCHANGED <<push, sheet, managed, batch, pushed, taken, unrecorded, shelved>>,
         UNCHANGED <<drafts, missed, torn>>, dropping' \subseteq SUBSET PushJobs
  PROVE  PushInv'
<1>1. PushTyped' /\ Batches' /\ BeforeItsTime' /\ Sums' /\ SuccessIsOfAll'
  BY DEF PushInv, PushTyped, Batches, BeforeItsTime, Sums, Summing, SuccessIsOfAll
<1>2. \A j : (InHand(j)' <=> InHand(j)) /\ Askers(j)' = Askers(j)
  BY DEF InHand, Askers, Delivered
<1>3. Deliveries' /\ Shelf'
  BY <1>2 DEF PushInv, Deliveries, Shelf, IsFree
<1> QED
  BY <1>1, <1>3 DEF PushInv

\* The handlers of the desk that cancel, and what happens to nobody's job.
LEMMA DeskKeepsPushInv ==
  ASSUME PushInv,
         \/ PlannedTimeComes \/ ToggleManaged \/ DeleteManaged \/ DeleteRecord
         \/ \E j \in PushJobs : DeleteDevice(j) \/ DeviceIsGone(j)
  PROVE  PushInv'
<1> DEFINE Sheets == [planned : BOOLEAN, deleted : BOOLEAN, status : SheetStatuses]
<1> DEFINE ManagedRows == [enabled : BOOLEAN, deleted : BOOLEAN]
<1>1. sheet \in Sheets /\ managed \in ManagedRows
  BY DEF PushInv, PushTyped
<1>0. dropping \subseteq SUBSET PushJobs /\ torn \in BOOLEAN
  BY DEF PushInv, PushTyped
<1>2. [sheet EXCEPT !.status = "skipped"] \in Sheets
  BY <1>1 DEF SheetStatuses
<1>3. CASE PlannedTimeComes
  <2>1. /\ UNCHANGED <<push, managed, batch, pushed, taken, unrecorded, shelved>>
        /\ UNCHANGED <<drafts, missed, dropping, torn>>
        /\ sheet' \in Sheets /\ sheet'.planned /\ sheet'.status = sheet.status
    BY <1>1, <1>3 DEF PlannedTimeComes, summingVars
  <2>2. PushTyped'
    BY <2>1 DEF PushInv, PushTyped
  <2>3. Batches' /\ BeforeItsTime' /\ Sums'
    BY <2>1 DEF PushInv, Batches, BeforeItsTime, Sums, Summing
  <2>4. \A j : (InHand(j)' <=> InHand(j)) /\ Askers(j)' = Askers(j)
    BY <2>1 DEF InHand, Askers, Delivered
  <2>5. Deliveries' /\ Shelf'
    BY <2>1, <2>4 DEF PushInv, Deliveries, Shelf, IsFree
  <2>6. SuccessIsOfAll'
    BY <2>1, SuccessStays
  <2> QED
    BY <2>2, <2>3, <2>5, <2>6 DEF PushInv
<1>4. CASE ToggleManaged
  <2> DEFINE jobs == IF managed.enabled THEN {j \in JobsIn({"pending"}) : push[j].result # "success"} ELSE {}
  <2>1. jobs \in SUBSET PushJobs
    BY DEF JobsIn
  <2>2. /\ Cancel(jobs) /\ UNCHANGED <<batch, pushed, drafts, missed, dropping, torn>>
        /\ managed' = [managed EXCEPT !.enabled = ~ managed.enabled]
        /\ \/ sheet' = sheet
           \/ sheet.status # "success" /\ sheet' = [sheet EXCEPT !.status = "skipped"]
    BY <1>4 DEF ToggleManaged, AtTheDesk
  <2> HIDE DEF jobs
  <2>3. managed' \in ManagedRows
    BY <1>1, <2>2
  <2>4. sheet' \in Sheets /\ sheet'.planned = sheet.planned /\ (sheet'.status = "success" <=> sheet.status = "success")
    BY <1>1, <1>2, <2>2
  <2> QED
    BY <1>0, <2>1, <2>2, <2>3, <2>4, DeskCancels
<1>5. CASE DeleteManaged
  <2> DEFINE jobs == JobsIn({"pending", "processing"})
  <2>1. jobs \in SUBSET PushJobs
    BY DEF JobsIn
  <2>2. /\ Cancel(jobs) /\ UNCHANGED <<batch, pushed, drafts, missed, dropping, torn>> /\ managed' \in ManagedRows
        /\ \/ sheet' = sheet
           \/ sheet.status # "success" /\ sheet' = [sheet EXCEPT !.status = "skipped"]
    BY <1>5 DEF DeleteManaged, AtTheDesk
  <2> HIDE DEF jobs
  <2>3. sheet' \in Sheets /\ sheet'.planned = sheet.planned /\ (sheet'.status = "success" <=> sheet.status = "success")
    BY <1>1, <1>2, <2>2
  <2> QED
    BY <1>0, <2>1, <2>2, <2>3, DeskCancels
<1>6. CASE DeleteRecord
  <2> DEFINE jobs == JobsIn({"pending", "processing"})
  <2>1. jobs \in SUBSET PushJobs
    BY DEF JobsIn
  <2>2. /\ Cancel(jobs) /\ UNCHANGED <<batch, pushed, managed, drafts, missed, dropping, torn>>
        /\ sheet' = [sheet EXCEPT !.deleted = TRUE]
    BY <1>6 DEF DeleteRecord, AtTheDesk
  <2> HIDE DEF jobs
  <2>3. sheet' \in Sheets /\ sheet'.planned = sheet.planned /\ (sheet'.status = "success" <=> sheet.status = "success")
    BY <1>1, <2>2
  <2>4. managed' \in ManagedRows
    BY <1>1, <2>2
  <2> QED
    BY <1>0, <2>1, <2>2, <2>3, <2>4, DeskCancels
<1>7. ASSUME NEW j \in PushJobs, DeleteDevice(j) PROVE PushInv'
  <2> DEFINE jobs == {k \in {j} : push[k].result # "success" /\ push[k].status \in {"pending", "processing", "delivered"}}
  <2>1. jobs \in SUBSET PushJobs
    OBVIOUS
  <2>2. /\ Cancel(jobs) /\ UNCHANGED <<batch, pushed, managed, drafts, missed, dropping, torn>>
        /\ \/ sheet' = sheet
           \/ sheet.status # "success" /\ sheet' = [sheet EXCEPT !.status = "skipped"]
    BY <1>7 DEF DeleteDevice, AtTheDesk
  <2> HIDE DEF jobs
  <2>3. sheet' \in Sheets /\ sheet'.planned = sheet.planned /\ (sheet'.status = "success" <=> sheet.status = "success")
    BY <1>1, <1>2, <2>2
  <2>4. managed' \in ManagedRows
    BY <1>1, <2>2
  <2> QED
    BY <1>0, <2>1, <2>2, <2>3, <2>4, DeskCancels
<1>8. ASSUME NEW j \in PushJobs, DeviceIsGone(j) PROVE PushInv'
  <2>1. UNCHANGED <<push, sheet, managed, batch, pushed, taken, unrecorded, shelved, drafts, missed, dropping, torn>>
    BY <1>8 DEF DeviceIsGone, summingVars
  <2> QED
    BY <1>0, <2>1, NothingMoves
<1> QED
  BY <1>3, <1>4, <1>5, <1>6, <1>7, <1>8

\* While a handler waits for no row, no dispatcher's transaction is open.
LEMMA NobodySums ==
  ASSUME PushInv, ~ Waits(PushJobs)
  PROVE  Summing = {}
<1> SUFFICES ASSUME NEW d \in Summing PROVE FALSE
  OBVIOUS
<1>1. d \in Pushers /\ pushed[d] # "none"
  BY DEF Summing, PushInv, Batches
<1>2. Head(batch[d]).id \in PushJobs /\ Head(batch[d]).id \in Locked
  BY <1>1, SettledRows DEF Locked
<1> QED
  BY <1>2 DEF Waits

\* A day that is left out: a record that is deleted over a success is told apart.
LEMMA LeaveOutKeepsPushInv ==
  ASSUME PushInv, LeaveOutDay
  PROVE  PushInv'
<1> DEFINE jobs == JobsIn({"pending"})
<1>1. jobs \in SUBSET PushJobs
  BY DEF JobsIn
<1>2. /\ UNCHANGED <<batch, pushed, drafts, missed, sheet, managed, torn>>
      /\ \/ Cancel(jobs) /\ UNCHANGED dropping
         \/ dropping' = {jobs} /\ UNCHANGED <<push, taken, unrecorded, shelved>>
  BY DEF LeaveOutDay, AtTheDesk
<1> HIDE DEF jobs
<1>3. /\ dropping' \subseteq SUBSET PushJobs /\ torn' \in BOOLEAN
      /\ sheet' \in [planned : BOOLEAN, deleted : BOOLEAN, status : SheetStatuses]
      /\ managed' \in [enabled : BOOLEAN, deleted : BOOLEAN]
  BY <1>1, <1>2 DEF PushInv, PushTyped
<1>4. CASE Cancel(jobs)
  BY <1>1, <1>2, <1>3, <1>4, DeskCancels
<1>5. CASE UNCHANGED <<push, taken, unrecorded, shelved>>
  BY <1>2, <1>3, <1>5, NothingMoves
<1> QED
  BY <1>2, <1>4, <1>5

LEMMA DropRecordKeepsPushInv ==
  ASSUME PushInv, DropRecord
  PROVE  PushInv'
<1>1. PICK jobs \in SUBSET PushJobs : Cancel(jobs)
  BY DEF DropRecord, PushInv, PushTyped
<1>2. /\ UNCHANGED <<batch, pushed, drafts, missed, managed>> /\ dropping' = {}
      /\ torn' = (torn \/ \E j \in PushJobs : push[j].result = "success")
      /\ sheet' = IF sheet.deleted THEN sheet ELSE [sheet EXCEPT !.deleted = TRUE, !.status = "skipped"]
  BY DEF DropRecord
<1>3. /\ sheet' \in [planned : BOOLEAN, deleted : BOOLEAN, status : SheetStatuses]
      /\ sheet'.planned = sheet.planned /\ managed' \in [enabled : BOOLEAN, deleted : BOOLEAN]
      /\ dropping' \subseteq SUBSET PushJobs /\ torn' \in BOOLEAN
      /\ sheet' = sheet \/ sheet'.status # "success"
  BY <1>2 DEF PushInv, PushTyped, SheetStatuses
<1>4. /\ PushTyped' /\ Batches' /\ Deliveries' /\ Shelf' /\ BeforeItsTime' /\ Sums'
      /\ \A j \in PushJobs : push'[j].result = push[j].result
  BY <1>1, <1>2, <1>3, CancelStep
<1>5. SuccessIsOfAll'
  BY <1>2, <1>3, <1>4, ManagedDispatchAssumption DEF PushInv, SuccessIsOfAll
<1> QED
  BY <1>4, <1>5 DEF PushInv

\* Fresh jobs are pending only when the time of their record has not come, and then
\* nobody has them or was given anything.
LEMMA RegenerateKeepsPushInv ==
  ASSUME PushInv, Regenerate
  PROVE  PushInv'
<1> DEFINE Sheets == [planned : BOOLEAN, deleted : BOOLEAN, status : SheetStatuses]
<1> DEFINE targets == PushJobs \ scrapped
<1> DEFINE fresh == [AskedFor EXCEPT !.status = IF sheet.planned THEN "skipped" ELSE "pending"]
<1>1. sheet \in Sheets /\ managed \in [enabled : BOOLEAN, deleted : BOOLEAN] /\ push \in [PushJobs -> PushRows]
  BY DEF PushInv, PushTyped
<1>2. UNCHANGED <<batch, pushed, managed, drafts, missed, dropping>> /\ ~ Waits(PushJobs)
  BY DEF Regenerate, AtTheDesk
<1>3. Summing = {}
  BY <1>2, NobodySums
<1>4. dropping \subseteq SUBSET PushJobs
  BY DEF PushInv, PushTyped
<1>5. CASE UNCHANGED <<push, sheet, torn, taken, unrecorded, shelved>>
  BY <1>2, <1>4, <1>5, NothingMoves
<1>6. CASE /\ ~ Begun
           /\ push' = [j \in PushJobs |-> IF j \in targets THEN fresh
                                          ELSE IF push[j].status = "pending" THEN Skipped(push[j]) ELSE push[j]]
           /\ sheet' = [sheet EXCEPT !.status = IF targets = {} THEN "skipped" ELSE fresh.status]
           /\ shelved' = (shelved \ targets) \cup {j \in PushJobs : ~ InHand(j) /\ push'[j].status = "skipped"}
           /\ torn' = FALSE /\ UNCHANGED <<taken, unrecorded>>
  <2>1. /\ fresh \in PushRows /\ fresh.result = "pending"
        /\ fresh.status = IF sheet.planned THEN "skipped" ELSE "pending"
    BY NoTry DEF AskedFor, PushRows, PushStatuses, PushResults
  <2>2. ASSUME NEW row \in PushRows
        PROVE  Skipped(row) \in PushRows /\ Skipped(row).status = "skipped" /\ Skipped(row).result = row.result
    BY DEF Skipped, PushRows, PushStatuses
  <2> HIDE DEF fresh
  <2>3. /\ \A j \in targets : push'[j] = fresh
        /\ \A j \in PushJobs \ targets :
             push'[j] = IF push[j].status = "pending" THEN Skipped(push[j]) ELSE push[j]
        /\ push' \in [PushJobs -> PushRows]
    BY <1>1, <1>6, <2>1, <2>2
  <2>4. sheet' \in Sheets /\ sheet'.planned = sheet.planned /\ sheet'.status # "success"
    BY <1>1, <1>6, <2>1 DEF SheetStatuses
  <2>5. \A j \in PushJobs : push'[j].result # "success"
    BY <1>1, <1>6, <2>1, <2>2, <2>3 DEF Begun
  <2>6. PushTyped'
    BY <1>1, <1>2, <1>6, <2>3, <2>4 DEF PushInv, PushTyped
  <2>7. \A j \in PushJobs : InHand(j)' <=> InHand(j)
    BY <1>2 DEF InHand
  <2>8. \A j \in PushJobs : IsFree(j)' => IsFree(j) \/ (taken[j] = 0 /\ Askers(j) = {})
    <3> SUFFICES ASSUME NEW j \in PushJobs, IsFree(j)' PROVE IsFree(j) \/ (taken[j] = 0 /\ Askers(j) = {})
      OBVIOUS
    <3>1. CASE j \in targets
      <4>1. ~ sheet.planned
        BY <2>1, <2>3, <3>1 DEF IsFree
      <4> QED
        BY <4>1 DEF PushInv, BeforeItsTime, Askers, Has
    <3>2. CASE j \notin targets
      BY <1>1, <2>2, <2>3, <2>7, <3>2 DEF IsFree
    <3> QED
      BY <3>1, <3>2
  <2>9. \A j \in PushJobs : unrecorded'[j] >= unrecorded[j]
    BY <1>6 DEF PushInv, PushTyped
  <2>10. Deliveries' /\ Batches'
    BY <1>2, <1>6, <2>6, <2>8, <2>9, RowsMove
  <2>11. Shelf'
    <3> SUFFICES ASSUME NEW j \in shelved' PROVE push'[j].status = "skipped" /\ ~ InHand(j)'
      BY DEF Shelf
    <3>1. CASE j \in shelved \ targets
      <4>1. j \in PushJobs \ targets /\ push[j].status = "skipped" /\ ~ InHand(j)
        BY <3>1 DEF PushInv, PushTyped, Shelf
      <4> QED
        BY <2>3, <2>7, <4>1
    <3>2. CASE j \in PushJobs /\ ~ InHand(j) /\ push'[j].status = "skipped"
      BY <2>7, <3>2
    <3> QED
      BY <1>6, <3>1, <3>2
  <2>12. BeforeItsTime'
    BY <1>2, <1>6, <2>4 DEF PushInv, BeforeItsTime
  <2>13. SuccessIsOfAll'
    BY <2>4, <2>5, ManagedDispatchAssumption DEF SuccessIsOfAll
  <2>14. Sums'
    BY <1>2, <1>3 DEF PushInv, Sums, Summing
  <2> QED
    BY <2>6, <2>10, <2>11, <2>12, <2>13, <2>14 DEF PushInv
<1> QED
  BY <1>5, <1>6 DEF Regenerate

\* After a resend those that still have a job in hand are what may come on top.
LEMMA ResendKeepsPushInv ==
  ASSUME PushInv, Resend
  PROVE  PushInv'
<1>1. /\ push' = [j \in PushJobs |-> AskedFor]
      /\ sheet' = [sheet EXCEPT !.status = "pending"]
      /\ taken' = [j \in PushJobs |-> 0]
      /\ unrecorded' = [j \in PushJobs |-> Cardinality({d \in Pushers : Has(batch[d], j)})]
      /\ shelved' = {} /\ torn' = FALSE /\ UNCHANGED <<batch, pushed, managed, drafts, missed, dropping>>
      /\ sheet.planned /\ ~ Waits(PushJobs)
  BY DEF Resend, AtTheDesk, Has
<1>2. AskedFor \in PushRows /\ AskedFor.result = "pending"
  BY NoTry DEF AskedFor, PushRows, PushStatuses, PushResults
<1>3. \A j : Cardinality({d \in Pushers : Has(batch[d], j)}) \in Nat
  BY PushersAreFinite
<1>4. PushTyped'
  <2>1. sheet' \in [planned : BOOLEAN, deleted : BOOLEAN, status : SheetStatuses]
    BY <1>1 DEF PushInv, PushTyped, SheetStatuses
  <2>2. push' \in [PushJobs -> PushRows] /\ taken' \in [PushJobs -> Nat] /\ unrecorded' \in [PushJobs -> Nat]
    BY <1>1, <1>2, <1>3
  <2> QED
    BY <1>1, <2>1, <2>2 DEF PushInv, PushTyped
<1>5. Batches'
  BY <1>1 DEF PushInv, Batches
<1>6. Deliveries'
  <2> SUFFICES ASSUME NEW j \in PushJobs
               PROVE  /\ taken'[j] + Cardinality(Askers(j)') <= 1 + unrecorded'[j]
                      /\ IsFree(j)' => taken'[j] + Cardinality(Askers(j)') <= unrecorded'[j]
    BY DEF Deliveries
  <2> DEFINE holders == {d \in Pushers : Has(batch[d], j)}
  <2>1. Askers(j)' \subseteq holders /\ holders \subseteq Pushers
    BY <1>1 DEF Askers
  <2>2. /\ IsFiniteSet(holders) /\ Cardinality(holders) \in Nat
        /\ Cardinality(Askers(j)') \in Nat
    BY <2>1, PushersAreFinite
  <2>3. Cardinality(Askers(j)') <= Cardinality(holders)
    BY <2>1, <2>2, FS_Subset
  <2>4. taken'[j] = 0 /\ unrecorded'[j] = Cardinality(holders)
    BY <1>1
  <2> QED
    BY <2>2, <2>3, <2>4
<1>7. Shelf' /\ BeforeItsTime'
  BY <1>1 DEF Shelf, BeforeItsTime, PushInv, PushTyped
<1>8. SuccessIsOfAll'
  <2>1. sheet'.status # "success"
    BY <1>1 DEF PushInv, PushTyped
  <2>2. \A j \in PushJobs : push'[j].result # "success"
    BY <1>1, <1>2
  <2> QED
    BY <2>1, <2>2, ManagedDispatchAssumption DEF SuccessIsOfAll
<1>9. Sums'
  BY <1>1, NobodySums DEF PushInv, Sums, Summing
<1> QED
  BY <1>4, <1>5, <1>6, <1>7, <1>8, <1>9 DEF PushInv

\* Dispatchers, leases, backoffs, devices and the desk keep the invariant.
LEMMA PushInvStep == PushInv /\ [ManagedDispatchNext]_pushVars => PushInv'
<1> SUFFICES ASSUME PushInv, [ManagedDispatchNext]_pushVars PROVE PushInv'
  OBVIOUS
<1>1. ASSUME NEW d \in Pushers, ClaimPushes(d) PROVE PushInv'
  BY <1>1, ClaimKeepsPushInv
<1>2. ASSUME NEW d \in Pushers, SendPhoto(d) PROVE PushInv'
  BY <1>2, SendKeepsPushInv
<1>3. ASSUME NEW d \in Pushers, SumUp(d) PROVE PushInv'
  BY <1>3, SumUpKeepsPushInv
<1>4. ASSUME NEW d \in Pushers, Settle(d) PROVE PushInv'
  BY <1>4, SettleKeepsPushInv
<1>6. ASSUME NEW d \in Pushers, DropBatch(d) PROVE PushInv'
  BY <1>6, DropKeepsPushInv
<1>7. ASSUME NEW j \in PushJobs, LeaseEnds(j) \/ PushBackoffEnds(j) PROVE PushInv'
  BY <1>7, LeaseKeepsPushInv
<1>8. CASE \/ PlannedTimeComes \/ ToggleManaged \/ DeleteManaged \/ DeleteRecord
           \/ \E j \in PushJobs : DeleteDevice(j) \/ DeviceIsGone(j)
  BY <1>8, DeskKeepsPushInv
<1>9. CASE LeaveOutDay \/ DropRecord \/ Regenerate
  BY <1>9, LeaveOutKeepsPushInv, DropRecordKeepsPushInv, RegenerateKeepsPushInv
<1>10. CASE Resend
  BY <1>10, ResendKeepsPushInv
<1>11. CASE UNCHANGED pushVars
  <2>1. dropping' \subseteq SUBSET PushJobs
    BY <1>11 DEF pushVars, PushInv, PushTyped
  <2> QED
    BY <1>11, <2>1, NothingMoves DEF pushVars
<1> QED
  BY <1>1, <1>2, <1>3, <1>4, <1>6, <1>7, <1>8, <1>9, <1>10, <1>11 DEF ManagedDispatchNext

\* What the desk and the budget may be.
DeskTyped == scrapped \subseteq PushJobs /\ removing \subseteq PushJobs /\ pushUpsets \in 0 .. MaxPushUpsets

LEMMA DeskTypedInit == ManagedDispatchInit => DeskTyped
BY ManagedDispatchAssumption DEF ManagedDispatchInit, DeskTyped

LEMMA DeskTypedStep == DeskTyped /\ [ManagedDispatchNext]_pushVars => DeskTyped'
<1> SUFFICES ASSUME DeskTyped, [ManagedDispatchNext]_pushVars
             PROVE  DeskTyped'
  OBVIOUS
<1>1. pushUpsets' = pushUpsets \/ PushUpset
  BY DEF ManagedDispatchNext, ClaimPushes, SendPhoto, SumUp, Settle, DropBatch, LeaseEnds,
         PushBackoffEnds, PlannedTimeComes, AtTheDesk, ToggleManaged, DeleteManaged, DeleteDevice,
         DeviceIsGone, DeleteRecord, LeaveOutDay, DropRecord, Regenerate, Resend, pushVars
<1>2. UNCHANGED <<scrapped, removing>> \/ \E j \in PushJobs : DeleteDevice(j) \/ DeviceIsGone(j)
  BY DEF ManagedDispatchNext, ClaimPushes, SendPhoto, SumUp, Settle, DropBatch, LeaseEnds,
         PushBackoffEnds, PlannedTimeComes, ToggleManaged, DeleteManaged, DeleteRecord, LeaveOutDay,
         DropRecord, Regenerate, Resend, pushVars
<1>3. scrapped' \subseteq PushJobs /\ removing' \subseteq PushJobs
  BY <1>2 DEF DeskTyped, DeleteDevice, DeviceIsGone
<1>4. pushUpsets' \in 0 .. MaxPushUpsets
  <2>1. pushUpsets' = pushUpsets \/ (pushUpsets < MaxPushUpsets /\ pushUpsets' = pushUpsets + 1)
    BY <1>1 DEF PushUpset
  <2>2. pushUpsets \in 0 .. MaxPushUpsets
    BY DEF DeskTyped
  <2> QED
    BY ONLY <2>1, <2>2, ManagedDispatchAssumption
<1> QED
  BY <1>3, <1>4 DEF DeskTyped

LEMMA PushesAreTyped == PushInv /\ DeskTyped => ManagedDispatchTypeOK
BY DEF PushInv, PushTyped, PushRows, DeskTyped, ManagedDispatchTypeOK, Claims, Tries, Trials

\* The conjuncts that the runs check follow.
LEMMA PushInvSuffices == PushInv => RepeatsAreExplained /\ CancelledIsNotSent /\ SuccessIsOfAll
<1> SUFFICES ASSUME PushInv PROVE RepeatsAreExplained /\ CancelledIsNotSent
  BY DEF PushInv
<1>1. ASSUME NEW j \in PushJobs PROVE taken[j] <= 1 + unrecorded[j]
  <2>1. Cardinality(Askers(j)) \in Nat
    BY PushersAreFinite DEF Askers
  <2> QED
    BY <2>1 DEF PushInv, PushTyped, Deliveries
<1>2. CancelledIsNotSent
  BY DEF PushInv, Shelf, CancelledIsNotSent
<1> QED
  BY <1>1, <1>2 DEF RepeatsAreExplained

-----------------------------------------------------------------------------
(***************************************************************************)
(* The mock. A call that was found valid is known by its nonce until it is *)
(* too old to be found valid: NoncesCover is what Remembered keeps while   *)
(* the clock goes on, and what a reset empties together with the calls.    *)
(***************************************************************************)

IsDb(d) == d = [sequences |-> d.sequences, things |-> d.things, exited |-> d.exited,
                nonces |-> d.nonces, faults |-> d.faults, requests |-> d.requests]

NoncesCover(d) ==
  \A s \in accepted :
    \/ s.time + TenMinutes < clock
    \/ \E n \in d.nonces : n.nonce = s.nonce /\ n.expires = s.time + TenMinutes

MockInv ==
  /\ clock \in Nat /\ accepted \subseteq [nonce : Nonces, time : Nat]
  /\ IsDb(db) /\ \A n \in db.nonces : n.expires \in Nat
  /\ NoncesCover(db)
  /\ ~replayed

SameNonces(d, e) == IsDb(d) => IsDb(e) /\ e.nonces = d.nonces
SameBooks(d, e) == IsDb(d) => IsDb(e) /\ e.nonces = d.nonces /\ e.requests = d.requests

(* Numbering something does not touch the books, nor does adding a row,   *)
(* marking it as left, or an operation of one of the three platforms.      *)
LEMMA NumberedKeepsBooks ==
  ASSUME NEW d, NEW name PROVE SameBooks(d, Numbered(d, name))
BY DEF SameBooks, IsDb, Numbered

\* A new row: the books stay.
LEMMA AddKeepsBooks ==
  ASSUME NEW d, NEW name, NEW sort PROVE SameBooks(d, Add(d, name, sort).db)
<1> DEFINE n == Numbered(d, name)
<1> DEFINE t == Thing(sort, n.sequences[name])
<1>1. SameBooks(d, n)
  BY NumberedKeepsBooks
<1>2. Add(d, name, sort).db = [n EXCEPT !.things = @ \cup {t}]
  BY DEF Add, Result
<1> HIDE DEF n, t
<1> QED
  BY <1>1, <1>2 DEF SameBooks, IsDb

\* A team or a worker leaves: the books stay.
LEMMA ExitKeepsBooks ==
  ASSUME NEW d, NEW thing PROVE SameBooks(d, Exit(d, thing).db)
BY DEF SameBooks, IsDb, Exit, Result

\* Every route of Ningbo leaves the books.
LEMMA NingboKeepsBooks ==
  ASSUME NEW d, NEW q PROVE SameBooks(d, HandleNingbo(d, q).db)
<1>1. SameBooks(d, d)
  BY DEF SameBooks
<1>2. SameBooks(d, [d EXCEPT !.things = @ \cup {q.about}])
  BY DEF SameBooks, IsDb
<1>3. SameBooks(d, Numbered(d, "ningbo_project_worker"))
  BY NumberedKeepsBooks
<1>4. /\ SameBooks(d, Add(d, "ningbo_worker", "identity card").db)
      /\ SameBooks(d, Add(d, "ningbo_team", "team").db)
      /\ SameBooks(d, Add(d, "ningbo_project_worker", "project worker").db)
  BY AddKeepsBooks
<1>5. SameBooks(d, Exit(d, q.about).db)
  BY ExitKeepsBooks
<1>6. HandleNingbo(d, q).db \in
        {d, [d EXCEPT !.things = @ \cup {q.about}], Numbered(d, "ningbo_project_worker"),
         Add(d, "ningbo_worker", "identity card").db, Add(d, "ningbo_team", "team").db,
         Add(d, "ningbo_project_worker", "project worker").db, Exit(d, q.about).db}
  <2> DEFINE more == [d EXCEPT !.things = @ \cup {q.about}]
  <2> HIDE DEF more
  <2>1. \A e, a : Result(e, a).db = e
    BY DEF Result
  <2>2. CASE q.operation = "EnterpriseWorker/GetWorkerCode"
    BY <2>1, <2>2 DEF HandleNingbo
  <2>3. CASE q.operation = "EnterpriseWorker/AddOrUpdateWorker"
    <3>1. HandleNingbo(d, q) = IF q.about = Nothing THEN Add(d, "ningbo_worker", "identity card")
                               ELSE Result(more, Ok(q.about))
      BY <2>3 DEF HandleNingbo, more
    <3>2. HandleNingbo(d, q).db \in {Add(d, "ningbo_worker", "identity card").db, more}
      BY <2>1, <3>1
    <3> QED
      BY <3>2 DEF more
  <2>4. CASE q.operation = "Project/AddTeam"
    BY <2>4 DEF HandleNingbo
  <2>5. CASE q.operation = "Project/TeamExit"
    BY <2>5 DEF HandleNingbo
  <2>6. CASE q.operation = "Project/AddWorkerV2"
    <3>1. HandleNingbo(d, q) =
            IF q.about = Nothing
              THEN Result(Numbered(d, "ningbo_project_worker"), Answer(500, 0, Nothing))
              ELSE Add(d, "ningbo_project_worker", "project worker")
      BY <2>6 DEF HandleNingbo
    <3>2. Result(Numbered(d, "ningbo_project_worker"), Answer(500, 0, Nothing)).db = Numbered(d, "ningbo_project_worker")
      BY <2>1
    <3>3. CASE q.about = Nothing
      <4>1. HandleNingbo(d, q).db = Numbered(d, "ningbo_project_worker")
        BY <3>1, <3>2, <3>3
      <4> QED
        BY <4>1
    <3>4. CASE q.about /= Nothing
      BY <3>1, <3>4
    <3> QED
      BY <3>3, <3>4
  <2>7. CASE q.operation = "Project/EditWorker"
    <3>1. HandleNingbo(d, q) = Result(d, IF q.about = Nothing THEN Answer(500, 0, Nothing) ELSE Ok(Nothing))
      BY <2>7 DEF HandleNingbo
    <3> QED
      BY <3>1 DEF Result
  <2>8. CASE q.operation = "Project/ProjectWorkerExit"
    BY <2>8 DEF HandleNingbo
  <2>9. CASE q.operation \notin
               {"EnterpriseWorker/GetWorkerCode", "EnterpriseWorker/AddOrUpdateWorker",
                "Project/AddTeam", "Project/TeamExit", "Project/AddWorkerV2",
                "Project/EditWorker", "Project/ProjectWorkerExit"}
    BY <2>1, <2>9 DEF HandleNingbo
  <2> QED
    BY <2>2, <2>3, <2>4, <2>5, <2>6, <2>7, <2>8, <2>9
<1> DEFINE done == HandleNingbo(d, q).db
<1> HIDE DEF done
<1> QED
  BY <1>1, <1>2, <1>3, <1>4, <1>5, <1>6 DEF done

\* Every method of Xinleda leaves the books.
LEMMA XinledaKeepsBooks ==
  ASSUME NEW d, NEW q PROVE SameBooks(d, HandleXinleda(d, q).db)
<1> DEFINE n == Numbered(d, "job")
<1> DEFINE job == Add(d, "job", q.operation)
<1>1. SameBooks(d, d)
  BY DEF SameBooks
<1>2. SameBooks(d, Add(n, "job", q.operation).db)
  BY NumberedKeepsBooks, AddKeepsBooks DEF SameBooks
<1>3. SameBooks(d, Add(d, "file", "file").db) /\ SameBooks(d, job.db)
  BY AddKeepsBooks
<1>4. [job EXCEPT !.answer.code = 20].db = job.db
  BY DEF Add, Result
<1>5. \A e, a : Result(e, a).db = e
  BY DEF Result
<1>6. Query(d, q, 2).db = d
  BY DEF Query, Result
<1> QED
  BY <1>1, <1>2, <1>3, <1>4, <1>5, <1>6 DEF HandleXinleda

\* Every route of Yongxin leaves the books.
LEMMA YongxinKeepsBooks ==
  ASSUME NEW d, NEW q PROVE SameBooks(d, HandleYongxin(d, q).db)
<1> DEFINE query == Query(d, q, 2011)
<1>1. SameBooks(d, d)
  BY DEF SameBooks
<1>2. \A name, sort : SameBooks(d, Add(d, name, sort).db)
  BY AddKeepsBooks
<1>3. Result(d, Ok(Nothing)).db = d
  BY DEF Result
<1>4. query.db = d
  BY DEF Query, Result
<1> HIDE DEF query
<1>5. HandleYongxin(d, q).db \in
        {d, Add(d, "ningbo_team", "Yongxin team").db, Add(d, "job", q.operation).db, Add(d, "file", "file").db}
  <2> DEFINE done == HandleYongxin(d, q)
  <2>1. done \in {Add(d, "ningbo_team", "Yongxin team"), Add(d, "job", q.operation), query,
                  Add(d, "file", "file"), Result(d, Ok(Nothing))}
    BY DEF HandleYongxin, query
  <2> HIDE DEF done
  <2>2. CASE done = query
    BY <1>4, <2>2 DEF done
  <2>3. CASE done = Result(d, Ok(Nothing))
    BY <1>3, <2>3 DEF done
  <2>4. CASE done \in {Add(d, "ningbo_team", "Yongxin team"), Add(d, "job", q.operation), Add(d, "file", "file")}
    BY <2>4 DEF done
  <2> QED
    BY <2>1, <2>2, <2>3, <2>4
<1>6. /\ SameBooks(d, Add(d, "ningbo_team", "Yongxin team").db)
      /\ SameBooks(d, Add(d, "job", q.operation).db)
      /\ SameBooks(d, Add(d, "file", "file").db)
  BY <1>2
<1> DEFINE done == HandleYongxin(d, q).db
<1> HIDE DEF done
<1> QED
  BY <1>1, <1>5, <1>6 DEF done

(* Only the check of a call touches the books: what handles it does not.  *)
LEMMA HandlingKeepsBooks ==
  ASSUME NEW d, NEW q PROVE SameBooks(d, Handled(d, q).db)
BY NingboKeepsBooks, XinledaKeepsBooks, YongxinKeepsBooks DEF Handled

\* The answer is written to the log.
LEMMA FinishKeepsNonces ==
  ASSUME NEW d, NEW id, NEW reply PROVE SameNonces(d, Finish(d, id, reply))
<1> DEFINE log == {IF r.id = id THEN [r EXCEPT !.answer = reply] ELSE r : r \in d.requests}
<1>1. Finish(d, id, reply) = [d EXCEPT !.requests = log]
  BY DEF Finish
<1> HIDE DEF log
<1> QED
  BY <1>1 DEF SameNonces, IsDb

\* The call is written to the log.
LEMMA RecordKeepsNonces ==
  ASSUME NEW d, NEW id, NEW valid PROVE SameNonces(d, Record(d, id, valid))
BY DEF SameNonces, IsDb, Record

\* A call of an ordered fault is used up.
LEMMA SpendingKeepsBooks ==
  ASSUME NEW d, NEW k PROVE SameBooks(d, [d EXCEPT !.faults[k].remaining = @ - 1])
BY DEF SameBooks, IsDb

(* Whatever becomes of a call, its check decides on the nonces.            *)
LEMMA NoncesAreOfTheCheck ==
  ASSUME NEW q, Refuse(q) \/ FailAsOrdered(q) \/ Handle(q)
  PROVE  SameNonces(Auth(db, q).db, db')
<1> DEFINE logged == Logged(q)
<1> DEFINE auth == Auth(db, q)
<1>1. SameNonces(auth.db, logged)
  BY RecordKeepsNonces DEF Logged
<1> HIDE DEF logged, auth
<1>2. CASE Refuse(q)
  <2>1. db' = Finish(logged, RequestId(db), Auth(db, q).answer)
    BY <1>2 DEF Refuse, Reply, logged
  <2> QED
    BY <2>1, <1>1, FinishKeepsNonces DEF SameNonces, auth
<1>3. CASE FailAsOrdered(q)
  <2> DEFINE k == First(Ordered(db, q))
  <2> DEFINE spent == [logged EXCEPT !.faults[k].remaining = @ - 1]
  <2>1. SameNonces(logged, spent)
    BY SpendingKeepsBooks DEF SameBooks, SameNonces
  <2>2. \/ db' = spent
        \/ db' = Finish(spent, RequestId(db), Answer(db.faults[k].status, 503, Nothing))
    BY <1>3 DEF FailAsOrdered, Reply, logged
  <2> HIDE DEF k, spent
  <2>3. SameNonces(spent, db')
    BY <2>2, FinishKeepsNonces DEF SameNonces
  <2> QED
    BY <2>1, <2>3, <1>1 DEF SameNonces, auth
<1>4. CASE Handle(q)
  <2> DEFINE handled == Handled(logged, q)
  <2>1. db' = Finish(handled.db, RequestId(db), handled.answer)
    BY <1>4 DEF Handle, Reply, logged
  <2>2. SameNonces(logged, handled.db)
    BY HandlingKeepsBooks DEF SameBooks, SameNonces
  <2> HIDE DEF handled
  <2>3. SameNonces(handled.db, db')
    BY <2>1, FinishKeepsNonces
  <2> QED
    BY <2>2, <2>3, <1>1 DEF SameNonces, auth
<1> QED
  BY <1>2, <1>3, <1>4

(* The check either leaves the nonces, drops those that are too old, or    *)
(* also writes down that of a signed call that it found valid.             *)
LEMMA CheckOfACall ==
  ASSUME NEW q, q.operation \in Operations, IsDb(db)
  PROVE  LET auth == Auth(db, q)
         IN  /\ IsDb(auth.db) /\ auth.db.requests = db.requests
             /\ Signed(q) /\ auth.valid =>
                  /\ ~ Expired(q, TenMinutes)
                  /\ ~ \E n \in Remembered(db) : n.nonce = q.nonce
                  /\ auth.db.nonces = Remembered(db) \cup {[nonce |-> q.nonce, expires |-> q.time + TenMinutes]}
             /\ ~ (Signed(q) /\ auth.valid) => auth.db.nonces \in {db.nonces, Remembered(db)}
<1> DEFINE dropped == [db EXCEPT !.nonces = Remembered(db)]
<1> DEFINE used == ConsumeNonce(db, q)
<1>1. IsDb(dropped) /\ dropped.nonces = Remembered(db) /\ dropped.requests = db.requests
  BY DEF IsDb
<1>2. /\ IsDb(used) /\ used.requests = db.requests
      /\ used.nonces = Remembered(db) \cup {[nonce |-> q.nonce, expires |-> q.time + TenMinutes]}
  BY DEF IsDb, ConsumeNonce
<1>3. /\ \A d, s, c : Refusal(d, s, c).db = d /\ Refusal(d, s, c).valid = FALSE
      /\ \A d : Valid(d).db = d /\ Valid(d).valid = TRUE
  BY DEF Refusal, Valid
<1> HIDE DEF dropped, used
<1>4. XinledaAuth(db, q).valid =>
        /\ ~ Expired(q, TenMinutes)
        /\ ~ \E n \in Remembered(db) : n.nonce = q.nonce
        /\ XinledaAuth(db, q).db = used
  BY <1>3 DEF XinledaAuth, used
<1>5. ~ XinledaAuth(db, q).valid => XinledaAuth(db, q).db \in {db, dropped}
  BY <1>3 DEF XinledaAuth, dropped
<1>6. /\ NingboAuth(db, q).db = db
      /\ XinledaUploadAuth(db, q).db = db
      /\ YongxinAuth(db, q).db = db
  BY <1>3 DEF NingboAuth, XinledaUploadAuth, YongxinAuth
<1>7. Signed(q) => Auth(db, q) = XinledaAuth(db, q)
  BY DEF Signed, Auth, XinledaMethods, NingboRoutes, YongxinRoutes
<1>8. Signed(q) \/ Auth(db, q) \in {NingboAuth(db, q), XinledaUploadAuth(db, q), YongxinAuth(db, q)}
  BY DEF Signed, Auth, Operations
<1>9. CASE Signed(q)
  <2>1. CASE XinledaAuth(db, q).valid
    BY <1>9, <2>1, <1>2, <1>4, <1>7
  <2>2. CASE ~ XinledaAuth(db, q).valid
    BY <1>9, <2>2, <1>1, <1>5, <1>7
  <2> QED
    BY <2>1, <2>2
<1>10. CASE ~ Signed(q)
  BY <1>10, <1>6, <1>8
<1> QED
  BY <1>9, <1>10

(* A signed call that is found valid was not found valid before: it is not *)
(* too old, so its nonce would still be remembered.                        *)
LEMMA CallStep ==
  ASSUME MockInv, NEW q, q.operation \in Operations, q.time \in Nat, q.nonce \in Nonces,
         Refuse(q) \/ FailAsOrdered(q) \/ Handle(q)
  PROVE  MockInv'
<1> DEFINE auth == Auth(db, q)
<1> DEFINE signed == [nonce |-> q.nonce, time |-> q.time]
<1> DEFINE record == [nonce |-> q.nonce, expires |-> q.time + TenMinutes]
<1> DEFINE valid == Signed(q) /\ auth.valid
<1>1. SameNonces(auth.db, db')
  BY NoncesAreOfTheCheck
<1>2. /\ clock' = clock
      /\ IF valid THEN accepted' = accepted \cup {signed} /\ replayed' = (replayed \/ signed \in accepted)
                  ELSE accepted' = accepted /\ replayed' = replayed
  BY DEF Refuse, FailAsOrdered, Handle, Received
<1>3. /\ IsDb(auth.db)
      /\ valid => /\ ~ Expired(q, TenMinutes)
                  /\ ~ \E n \in Remembered(db) : n.nonce = q.nonce
                  /\ auth.db.nonces = Remembered(db) \cup {record}
      /\ ~ valid => auth.db.nonces \in {db.nonces, Remembered(db)}
  BY CheckOfACall DEF MockInv
<1> HIDE DEF auth, valid
<1>4. IsDb(db') /\ db'.nonces = auth.db.nonces
  BY <1>1, <1>3 DEF SameNonces
<1>5. \A n \in db'.nonces : n.expires \in Nat
  BY <1>3, <1>4 DEF MockInv, Remembered, TenMinutes
<1>6. CASE valid
  <2>1. q.time + TenMinutes >= clock
    BY <1>3, <1>6 DEF Expired, TenMinutes, MockInv
  <2>2. signed \notin accepted
    <3> SUFFICES ASSUME signed \in accepted PROVE FALSE
      OBVIOUS
    <3>1. PICK n \in db.nonces : n.nonce = signed.nonce /\ n.expires = signed.time + TenMinutes
      BY <2>1 DEF MockInv, NoncesCover, TenMinutes
    <3>2. n \in Remembered(db)
      BY <2>1, <3>1 DEF Remembered
    <3> QED
      BY <1>3, <1>6, <3>1, <3>2
  <2>3. \A s \in accepted' : \/ s.time + TenMinutes < clock
                             \/ \E n \in db'.nonces : n.nonce = s.nonce /\ n.expires = s.time + TenMinutes
    <3> SUFFICES ASSUME NEW s \in accepted', ~ s.time + TenMinutes < clock
                 PROVE  \E n \in db'.nonces : n.nonce = s.nonce /\ n.expires = s.time + TenMinutes
      OBVIOUS
    <3>1. CASE s = signed
      <4>1. record \in db'.nonces
        BY <1>3, <1>4, <1>6
      <4> QED
        BY <3>1, <4>1
    <3>2. CASE s \in accepted
      <4>1. PICK n \in db.nonces : n.nonce = s.nonce /\ n.expires = s.time + TenMinutes
        BY <3>2 DEF MockInv, NoncesCover
      <4>2. n \in Remembered(db)
        BY <3>2, <4>1 DEF Remembered, MockInv, TenMinutes
      <4> QED
        BY <1>3, <1>4, <1>6, <4>1, <4>2
    <3> QED
      BY <1>2, <1>6, <3>1, <3>2
  <2>4. accepted' \subseteq [nonce : Nonces, time : Nat]
    BY <1>2, <1>6 DEF MockInv
  <2> QED
    BY <1>2, <1>4, <1>5, <1>6, <2>2, <2>3, <2>4 DEF MockInv, NoncesCover
<1>7. CASE ~ valid
  <2>1. \A s \in accepted' : \/ s.time + TenMinutes < clock
                             \/ \E n \in db'.nonces : n.nonce = s.nonce /\ n.expires = s.time + TenMinutes
    <3> SUFFICES ASSUME NEW s \in accepted, ~ s.time + TenMinutes < clock
                 PROVE  \E n \in db'.nonces : n.nonce = s.nonce /\ n.expires = s.time + TenMinutes
      BY <1>2, <1>7
    <3>1. PICK n \in db.nonces : n.nonce = s.nonce /\ n.expires = s.time + TenMinutes
      BY DEF MockInv, NoncesCover
    <3>2. n \in Remembered(db)
      BY <3>1 DEF Remembered, MockInv, TenMinutes
    <3> QED
      BY <1>3, <1>4, <1>7, <3>1, <3>2
  <2> QED
    BY <1>2, <1>4, <1>5, <1>7, <2>1 DEF MockInv, NoncesCover
<1> QED
  BY <1>6, <1>7

\* Nothing was called yet.
LEMMA MockInvInit == MockInit => MockInv
BY DEF MockInit, MockInv, EmptyDb, IsDb, NoncesCover

\* Calls, delayed answers, faults, resets, restarts and time keep the invariant.
LEMMA MockInvStep == MockInv /\ [MockNext]_mockVars => MockInv'
<1> SUFFICES ASSUME MockInv, [MockNext]_mockVars PROVE MockInv'
  OBVIOUS
<1>1. ASSUME NEW operation \in Called, NEW q \in Requests(operation),
             Refuse(q) \/ FailAsOrdered(q) \/ Handle(q)
      PROVE  MockInv'
  <2>1. q.operation \in Operations /\ q.time \in Nat /\ q.nonce \in Nonces
    BY MockAssumption DEF Requests
  <2> QED
    BY <1>1, <2>1, CallStep
<1>2. ASSUME IsDb(db'), db'.nonces = db.nonces, UNCHANGED <<clock, accepted, replayed>>
      PROVE  MockInv'
  BY <1>2 DEF MockInv, NoncesCover
<1>3. ASSUME NEW w \in delayed, Wake(w) PROVE MockInv'
  <2>1. SameNonces(db, db')
    BY <1>3, FinishKeepsNonces DEF Wake
  <2> QED
    BY <1>2, <1>3, <2>1 DEF Wake, SameNonces, MockInv
<1>4. ASSUME NEW operation \in Faulted, NEW remaining \in 1..2, NEW delay \in BOOLEAN,
             OrderFault(operation, remaining, delay)
      PROVE  MockInv'
  <2> DEFINE more == Append(db.faults, [operation |-> operation, remaining |-> remaining,
                                        status |-> 503, delay |-> delay])
  <2>1. db' = [db EXCEPT !.faults = more]
    BY <1>4 DEF OrderFault
  <2> HIDE DEF more
  <2>2. IsDb(db') /\ db'.nonces = db.nonces
    BY <2>1 DEF MockInv, IsDb
  <2> QED
    BY <1>2, <1>4, <2>2 DEF OrderFault
<1>5. CASE Reset
  BY <1>5 DEF Reset, MockInv, EmptyDb, IsDb, NoncesCover
<1>6. CASE Restart
  BY <1>6 DEF Restart, MockInv, NoncesCover, IsDb
<1>7. CASE MockTick
  BY <1>7 DEF MockTick, MockInv, NoncesCover, IsDb, TenMinutes
<1>8. CASE UNCHANGED mockVars
  BY <1>8 DEF mockVars, MockInv, NoncesCover, IsDb
<1> QED
  BY <1>1, <1>3, <1>4, <1>5, <1>6, <1>7, <1>8 DEF MockNext

-----------------------------------------------------------------------------
(***************************************************************************)
(* The log of the calls. Every row has an identifier of its own, which no  *)
(* later one is given again, and an answer that is delayed knows the call  *)
(* it is for.                                                              *)
(***************************************************************************)

IsEntry(r) == r = [id |-> r.id, valid |-> r.valid, answer |-> r.answer] /\ r.id \in 1..lastRequest
IsReply(r) == r = [id |-> r.id, answer |-> r.answer] /\ r.id \in 1..lastRequest

\* One number, one call.
RepliesAreNumbered ==
  /\ \A k \in DOMAIN replies : IsReply(replies[k])
  /\ \A j, k \in DOMAIN replies : replies[j].id = replies[k].id => j = k

DelayedIsOfItsCall == \A w \in delayed : w.call \in DOMAIN replies /\ replies[w.call].id = w.id

LogInv ==
  /\ IsDb(db) /\ lastRequest \in Nat
  /\ replies \in Seq({replies[k] : k \in DOMAIN replies})
  /\ \A r \in db.requests : IsEntry(r)
  /\ RepliesAreNumbered /\ DelayedIsOfItsCall
  /\ LogIsRight

\* The log with one answer more: that row has it, the others are as they were.
LEMMA FinishWrites ==
  ASSUME NEW d, NEW id, NEW reply, IsDb(d),
         \A r \in d.requests : r = [id |-> r.id, valid |-> r.valid, answer |-> r.answer]
  PROVE  /\ IsDb(Finish(d, id, reply))
         /\ \A r \in Finish(d, id, reply).requests :
              \E e \in d.requests :
                /\ r.id = e.id
                /\ r = [id |-> r.id, valid |-> r.valid, answer |-> r.answer]
                /\ r.answer = IF e.id = id THEN reply ELSE e.answer
<1> DEFINE log == {IF r.id = id THEN [r EXCEPT !.answer = reply] ELSE r : r \in d.requests}
<1>1. Finish(d, id, reply) = [d EXCEPT !.requests = log]
  BY DEF Finish
<1>2. ASSUME NEW r \in log
      PROVE  \E e \in d.requests :
                /\ r.id = e.id
                /\ r = [id |-> r.id, valid |-> r.valid, answer |-> r.answer]
                /\ r.answer = IF e.id = id THEN reply ELSE e.answer
  <2>1. PICK e \in d.requests : r = IF e.id = id THEN [e EXCEPT !.answer = reply] ELSE e
    OBVIOUS
  <2>2. e = [id |-> e.id, valid |-> e.valid, answer |-> e.answer]
    OBVIOUS
  <2>3. CASE e.id = id
    <3>1. r = [e EXCEPT !.answer = reply]
      BY <2>1, <2>3
    <3>2. r = [id |-> e.id, valid |-> e.valid, answer |-> reply]
      BY <2>2, <3>1
    <3> QED
      BY <3>2, <2>3
  <2>4. CASE e.id # id
    BY <2>1, <2>2, <2>4
  <2> QED
    BY <2>3, <2>4
<1> HIDE DEF log
<1>3. IsDb(Finish(d, id, reply)) /\ Finish(d, id, reply).requests = log
  BY <1>1 DEF IsDb
<1> QED
  BY <1>2, <1>3

\* One reply more.
LEMMA OneMore ==
  ASSUME NEW s, NEW x, s \in Seq({s[k] : k \in DOMAIN s})
  PROVE  /\ Append(s, x) \in Seq({Append(s, x)[k] : k \in DOMAIN Append(s, x)})
         /\ Len(s) \in Nat /\ DOMAIN s = 1..Len(s) /\ DOMAIN Append(s, x) = 1..(Len(s) + 1)
         /\ Len(Append(s, x)) = Len(s) + 1
         /\ \A k \in 1..Len(s) : Append(s, x)[k] = s[k]
         /\ Append(s, x)[Len(s) + 1] = x
<1> DEFINE S == {s[k] : k \in DOMAIN s} \cup {x}
<1>1. s \in Seq(S) /\ x \in S
  <2>1. {s[k] : k \in DOMAIN s} \subseteq S
    OBVIOUS
  <2> HIDE DEF S
  <2>2. s \in Seq(S)
    BY <2>1
  <2> QED
    BY <2>2 DEF S
<1> HIDE DEF S
<1>2. /\ Append(s, x) \in Seq(S)
      /\ Len(s) \in Nat /\ DOMAIN s = 1..Len(s) /\ DOMAIN Append(s, x) = 1..(Len(s) + 1)
      /\ Len(Append(s, x)) = Len(s) + 1
      /\ \A k \in 1..Len(s) : Append(s, x)[k] = s[k]
      /\ Append(s, x)[Len(s) + 1] = x
  BY <1>1
<1> DEFINE t == Append(s, x)
<1> HIDE DEF t
<1>3. t \in Seq({t[k] : k \in DOMAIN t})
  <2>1. t \in [1..(Len(s) + 1) -> {t[k] : k \in DOMAIN t}] /\ Len(s) + 1 \in Nat
    <3>1. t = [k \in 1..(Len(s) + 1) |-> t[k]]
      <4>1. t \in Seq(S) /\ DOMAIN t = 1..(Len(s) + 1)
        BY <1>2 DEF t
      <4>2. PICK n \in Nat : t \in [1..n -> S]
        BY <4>1, SeqDef
      <4> QED
        BY <4>1, <4>2
    <3> QED
      BY <3>1, <1>2 DEF t
  <2> QED
    BY <2>1
<1> QED
  BY <1>2, <1>3 DEF t

\* A call is in the log, without an answer.
Entered(d, e, id, valid) ==
  IsDb(e) /\ e.requests = d.requests \cup {[id |-> id, valid |-> valid, answer |-> Unanswered]}

\* A call that is answered at once, or later.
LEMMA CallIsFiled ==
  ASSUME LogInv, NEW reply, NEW later, NEW valid, NEW e, NEW id, id = lastRequest + 1,
         Entered(db, e, id, valid),
         lastRequest' = id, replies' = Append(replies, [id |-> id, answer |-> reply]),
         \/ db' = Finish(e, id, reply) /\ delayed' = delayed
         \/ /\ reply = Unanswered /\ db' = e
            /\ delayed' = delayed \cup {[id |-> id, call |-> Len(replies'), answer |-> later]}
  PROVE  LogInv'
<1> DEFINE n == Len(replies)
<1>1. /\ lastRequest \in Nat /\ id \in 1..id /\ id \notin 1..lastRequest
      /\ 1..lastRequest \subseteq 1..id
  BY DEF LogInv
<1>2. /\ replies' \in Seq({replies'[k] : k \in DOMAIN replies'})
      /\ n \in Nat /\ DOMAIN replies = 1..n /\ DOMAIN replies' = 1..(n + 1) /\ Len(replies') = n + 1
      /\ \A k \in 1..n : replies'[k] = replies[k]
      /\ replies'[n + 1] = [id |-> id, answer |-> reply]
  <2>1. PICK s, x : s = replies /\ x = [id |-> id, answer |-> reply] /\ replies' = Append(s, x)
    OBVIOUS
  <2>2. s \in Seq({s[k] : k \in DOMAIN s})
    BY <2>1 DEF LogInv
  <2>3. /\ Append(s, x) \in Seq({Append(s, x)[k] : k \in DOMAIN Append(s, x)})
        /\ Len(s) \in Nat /\ DOMAIN s = 1..Len(s) /\ DOMAIN Append(s, x) = 1..(Len(s) + 1)
        /\ Len(Append(s, x)) = Len(s) + 1
        /\ \A k \in 1..Len(s) : Append(s, x)[k] = s[k]
        /\ Append(s, x)[Len(s) + 1] = x
    BY <2>2, OneMore
  <2>4. PICK t : t = Append(s, x) /\ t = replies'
    BY <2>1
  <2>5. /\ t \in Seq({t[k] : k \in DOMAIN t})
        /\ Len(s) \in Nat /\ DOMAIN s = 1..Len(s) /\ DOMAIN t = 1..(Len(s) + 1) /\ Len(t) = Len(s) + 1
        /\ \A k \in 1..Len(s) : t[k] = s[k]
        /\ t[Len(s) + 1] = x
    BY <2>3, <2>4
  <2> QED
    BY <2>1, <2>4, <2>5
<1> HIDE DEF n
<1>3. \A k \in 1..n : IsReply(replies[k]) /\ replies[k].id # id
  BY <1>1, <1>2 DEF LogInv, RepliesAreNumbered, IsReply
<1>4. RepliesAreNumbered'
  <2>1. ASSUME NEW k \in 1..(n + 1)
        PROVE  replies'[k] = [id |-> replies'[k].id, answer |-> replies'[k].answer] /\ replies'[k].id \in 1..id
    <3>1. CASE k = n + 1
      BY <3>1, <1>1, <1>2
    <3>2. CASE k # n + 1
      <4>1. k \in 1..n
        BY <3>2, <1>2
      <4> QED
        BY <4>1, <1>1, <1>2, <1>3 DEF IsReply
    <3> QED
      BY <3>1, <3>2
  <2>2. ASSUME NEW j \in 1..(n + 1), NEW k \in 1..(n + 1), replies'[j].id = replies'[k].id
        PROVE  j = k
    <3>1. \A i \in 1..(n + 1) : i \in 1..n \/ i = n + 1
      BY <1>2
    <3>2. \A i \in 1..n : replies'[i].id # id
      BY <1>2, <1>3
    <3>3. replies'[n + 1].id = id
      BY <1>2
    <3>4. CASE j \in 1..n /\ k \in 1..n
      BY <3>4, <2>2, <1>2 DEF LogInv, RepliesAreNumbered
    <3> QED
      BY <3>1, <3>2, <3>3, <3>4, <2>2
  <2> QED
    BY <2>1, <2>2, <1>2 DEF RepliesAreNumbered, IsReply
<1>5. DelayedIsOfItsCall'
  <2>1. \A w \in delayed : w.call \in 1..n /\ w.call \in 1..(n + 1) /\ replies'[w.call].id = w.id
    BY <1>2 DEF LogInv, DelayedIsOfItsCall
  <2>2. \A w \in delayed' : w \in delayed \/ w = [id |-> id, call |-> n + 1, answer |-> later]
    BY <1>2
  <2>3. n + 1 \in 1..(n + 1) /\ replies'[n + 1].id = id
    BY <1>2
  <2> QED
    BY <2>1, <2>2, <2>3, <1>2 DEF DelayedIsOfItsCall
<1>6. /\ \A r \in e.requests : r = [id |-> r.id, valid |-> r.valid, answer |-> r.answer]
      /\ \A r \in e.requests : \/ r \in db.requests /\ r.id \in 1..lastRequest /\ r.id # id
                               \/ r.id = id /\ r.answer = Unanswered
  <2> SUFFICES ASSUME NEW r \in e.requests
               PROVE  /\ r = [id |-> r.id, valid |-> r.valid, answer |-> r.answer]
                      /\ \/ r \in db.requests /\ r.id \in 1..lastRequest /\ r.id # id
                         \/ r.id = id /\ r.answer = Unanswered
    OBVIOUS
  <2>1. CASE r \in db.requests
    BY <2>1, <1>1 DEF LogInv, IsEntry
  <2>2. CASE r = [id |-> id, valid |-> valid, answer |-> Unanswered]
    BY <2>2
  <2> QED
    BY <2>1, <2>2 DEF Entered
<1>7. /\ IsDb(db')
      /\ \A r \in db'.requests :
           \E x \in e.requests :
             /\ r.id = x.id
             /\ r = [id |-> r.id, valid |-> r.valid, answer |-> r.answer]
             /\ r.answer = IF x.id = id THEN reply ELSE x.answer
  <2>1. CASE db' = Finish(e, id, reply)
    <3>1. IsDb(e)
      BY DEF Entered
    <3> QED
      BY <2>1, <3>1, <1>6, FinishWrites
  <2>2. CASE reply = Unanswered /\ db' = e
    BY <2>2, <1>6 DEF Entered
  <2> QED
    BY <2>1, <2>2
<1>8. \A r \in db'.requests : IsEntry(r)'
  BY <1>1, <1>6, <1>7 DEF IsEntry
<1>9. LogIsRight'
  <2> SUFFICES ASSUME NEW r \in db'.requests, NEW k \in DOMAIN replies', replies'[k].id = r.id
               PROVE  r.answer \in {Unanswered, replies'[k].answer}
    BY DEF LogIsRight
  <2>1. PICK x \in e.requests : r.id = x.id /\ r.answer = IF x.id = id THEN reply ELSE x.answer
    BY <1>7
  <2>2. CASE k = n + 1
    BY <2>1, <2>2, <1>2
  <2>3. CASE k # n + 1
    <3>1. k \in 1..n /\ replies'[k] = replies[k] /\ replies[k].id # id
      BY <2>3, <1>2, <1>3
    <3>2. x \in db.requests /\ r.answer = x.answer /\ replies[k].id = x.id
      BY <2>1, <3>1, <1>6
    <3>3. x.answer \in {Unanswered, replies[k].answer}
      BY <3>1, <3>2, <1>2 DEF LogInv, LogIsRight
    <3> QED
      BY <3>1, <3>2, <3>3
  <2> QED
    BY <2>2, <2>3
<1> QED
  BY <1>1, <1>2, <1>4, <1>5, <1>7, <1>8, <1>9 DEF LogInv

\* A call enters the log with the next identifier, whatever is then made of it.
LEMMA LogCallStep ==
  ASSUME LogInv, NEW q, q.operation \in Operations, Refuse(q) \/ FailAsOrdered(q) \/ Handle(q)
  PROVE  LogInv'
<1> DEFINE auth == Auth(db, q)
<1> DEFINE logged == Logged(q)
<1>1. PICK id : id = lastRequest + 1
  OBVIOUS
<1>2. RequestId(db) = id
  BY <1>1 DEF RequestId
<1>3. IsDb(auth.db) /\ auth.db.requests = db.requests
  BY CheckOfACall DEF LogInv
<1>4. Entered(db, logged, id, auth.valid)
  <2>1. logged = Record(auth.db, id, auth.valid)
    BY <1>2 DEF Logged
  <2> HIDE DEF auth, logged
  <2> QED
    BY <2>1, <1>3 DEF Entered, Record, IsDb
<1> HIDE DEF auth, logged
<1>5. lastRequest' = id
  BY <1>2 DEF Refuse, FailAsOrdered, Handle, Received
<1>6. ASSUME NEW e, SameBooks(logged, e)
      PROVE  Entered(db, e, id, auth.valid)
  BY <1>4, <1>6 DEF Entered, SameBooks
<1>7. CASE Refuse(q)
  <2>1. PICK reply : reply = Auth(db, q).answer
    OBVIOUS
  <2>2. /\ db' = Finish(logged, id, reply) /\ delayed' = delayed
        /\ replies' = Append(replies, [id |-> id, answer |-> reply])
    BY <1>2, <1>7, <2>1 DEF Refuse, Reply, logged
  <2> QED
    BY <2>2, <1>1, <1>4, <1>5, CallIsFiled
<1>8. CASE FailAsOrdered(q)
  <2> DEFINE k == First(Ordered(db, q))
  <2> DEFINE spent == [logged EXCEPT !.faults[k].remaining = @ - 1]
  <2>1. PICK reply : reply = Answer(db.faults[k].status, 503, Nothing)
    OBVIOUS
  <2>2. \/ /\ db' = spent /\ replies' = Append(replies, [id |-> id, answer |-> Unanswered])
           /\ delayed' = delayed \cup {[id |-> id, call |-> Len(replies'), answer |-> reply]}
        \/ /\ db' = Finish(spent, id, reply) /\ delayed' = delayed
           /\ replies' = Append(replies, [id |-> id, answer |-> reply])
    BY <1>2, <1>8, <2>1 DEF FailAsOrdered, Reply, logged
  <2>3. SameBooks(logged, spent)
    BY SpendingKeepsBooks
  <2> HIDE DEF k, spent
  <2>4. Entered(db, spent, id, auth.valid)
    BY <2>3, <1>6
  <2> QED
    BY <2>2, <2>4, <1>1, <1>5, CallIsFiled
<1>9. CASE Handle(q)
  <2> DEFINE handled == Handled(logged, q)
  <2>1. PICK reply : reply = handled.answer
    OBVIOUS
  <2>2. /\ db' = Finish(handled.db, id, reply) /\ delayed' = delayed
        /\ replies' = Append(replies, [id |-> id, answer |-> reply])
    BY <1>2, <1>9, <2>1 DEF Handle, Reply, logged
  <2>3. SameBooks(logged, handled.db)
    BY HandlingKeepsBooks
  <2> HIDE DEF handled
  <2>4. Entered(db, handled.db, id, auth.valid)
    BY <2>3, <1>6
  <2> QED
    BY <2>2, <2>4, <1>1, <1>5, CallIsFiled
<1> QED
  BY <1>7, <1>8, <1>9

\* A delay is over: the row of the call, if it is still there, and the call get the answer.
LEMMA LogWakeStep ==
  ASSUME LogInv, NEW w \in delayed, Wake(w)
  PROVE  LogInv'
<1>1. PICK c, reply, id : c = w.call /\ reply = w.answer /\ id = w.id
  OBVIOUS
<1>2. /\ c \in DOMAIN replies /\ replies[c].id = id
      /\ delayed' = delayed \ {w} /\ db' = Finish(db, id, reply)
      /\ replies' = [replies EXCEPT ![c] = [replies[c] EXCEPT !.answer = reply]]
      /\ lastRequest' = lastRequest
  BY <1>1 DEF Wake, LogInv, DelayedIsOfItsCall
<1>3. PICK n \in Nat : DOMAIN replies = 1..n /\ replies = [k \in 1..n |-> replies[k]]
  <2>1. PICK n \in Nat : replies \in [1..n -> {replies[k] : k \in DOMAIN replies}]
    BY SeqDef DEF LogInv
  <2> QED
    BY <2>1
<1>4. replies[c] = [id |-> id, answer |-> replies[c].answer]
  BY <1>2 DEF LogInv, RepliesAreNumbered, IsReply
<1>5. [replies[c] EXCEPT !.answer = reply] = [id |-> id, answer |-> reply]
  BY <1>4
<1>6. /\ replies'[c] = [id |-> id, answer |-> reply]
      /\ \A k \in DOMAIN replies : k # c => replies'[k] = replies[k]
      /\ DOMAIN replies' = DOMAIN replies
      /\ replies' = [k \in 1..n |-> replies'[k]]
  BY <1>2, <1>3, <1>5
<1>7. replies' \in Seq({replies'[k] : k \in DOMAIN replies'})
  <2>1. replies' \in [1..n -> {replies'[k] : k \in DOMAIN replies'}]
    BY <1>3, <1>6
  <2>2. PICK S : S = {replies'[k] : k \in DOMAIN replies'}
    OBVIOUS
  <2>3. replies' \in Seq(S)
    BY <2>1, <2>2, SeqDef
  <2> QED
    BY <2>2, <2>3
<1>8. \A k \in DOMAIN replies : replies'[k].id = replies[k].id
  <2> SUFFICES ASSUME NEW k \in DOMAIN replies PROVE replies'[k].id = replies[k].id
    OBVIOUS
  <2>1. CASE k = c
    BY <2>1, <1>2, <1>6
  <2>2. CASE k # c
    BY <2>2, <1>6
  <2> QED
    BY <2>1, <2>2
<1>9. RepliesAreNumbered'
  <2>1. \A k \in DOMAIN replies : replies'[k] = [id |-> replies'[k].id, answer |-> replies'[k].answer]
    BY <1>6 DEF LogInv, RepliesAreNumbered, IsReply
  <2>2. \A k \in DOMAIN replies : IsReply(replies[k])'
    BY <1>2, <1>8, <2>1 DEF LogInv, RepliesAreNumbered, IsReply
  <2>3. \A j, k \in DOMAIN replies : replies'[j].id = replies'[k].id => j = k
    BY <1>8 DEF LogInv, RepliesAreNumbered
  <2> QED
    BY <1>6, <2>2, <2>3 DEF RepliesAreNumbered
<1>10. DelayedIsOfItsCall'
  BY <1>8, <1>2, <1>6 DEF LogInv, DelayedIsOfItsCall
<1>11. /\ IsDb(db')
       /\ \A r \in db'.requests :
            \E x \in db.requests :
              /\ r.id = x.id
              /\ r = [id |-> r.id, valid |-> r.valid, answer |-> r.answer]
              /\ r.answer = IF x.id = id THEN reply ELSE x.answer
  <2>1. IsDb(db) /\ \A r \in db.requests : r = [id |-> r.id, valid |-> r.valid, answer |-> r.answer]
    BY DEF LogInv, IsEntry
  <2> QED
    BY <2>1, <1>2, FinishWrites
<1>12. \A r \in db'.requests : IsEntry(r)'
  BY <1>2, <1>11 DEF LogInv, IsEntry
<1>13. LogIsRight'
  <2> SUFFICES ASSUME NEW r \in db'.requests, NEW k \in DOMAIN replies, replies'[k].id = r.id
               PROVE  r.answer \in {Unanswered, replies'[k].answer}
    BY <1>6 DEF LogIsRight
  <2>1. PICK x \in db.requests : r.id = x.id /\ r.answer = IF x.id = id THEN reply ELSE x.answer
    BY <1>11
  <2>2. CASE k = c
    BY <2>1, <2>2, <1>6
  <2>3. CASE k # c
    <3>1. replies'[k] = replies[k] /\ replies[k].id = x.id /\ x.id # id
      BY <2>1, <2>3, <1>2, <1>6 DEF LogInv, RepliesAreNumbered
    <3> QED
      BY <2>1, <3>1 DEF LogInv, LogIsRight
  <2> QED
    BY <2>2, <2>3
<1> QED
  BY <1>2, <1>7, <1>9, <1>10, <1>11, <1>12, <1>13 DEF LogInv

\* Nothing was called yet.
LEMMA LogInvInit == MockInit => LogInv
<1> SUFFICES ASSUME MockInit PROVE LogInv
  OBVIOUS
<1>1. db = EmptyDb /\ lastRequest = 0 /\ delayed = {} /\ replies = << >>
  BY DEF MockInit
<1>2. << >> \in Seq({replies[k] : k \in DOMAIN replies}) /\ DOMAIN replies = {}
  BY <1>1
<1> QED
  BY <1>1, <1>2 DEF LogInv, EmptyDb, IsDb, RepliesAreNumbered, DelayedIsOfItsCall, LogIsRight

\* Calls, delayed answers, faults, resets, restarts and time keep the invariant.
LEMMA LogInvStep == LogInv /\ [MockNext]_mockVars => LogInv'
<1> SUFFICES ASSUME LogInv, [MockNext]_mockVars PROVE LogInv'
  OBVIOUS
<1>1. ASSUME NEW operation \in Called, NEW q \in Requests(operation),
             Refuse(q) \/ FailAsOrdered(q) \/ Handle(q)
      PROVE  LogInv'
  <2>1. q.operation \in Operations
    BY MockAssumption DEF Requests
  <2> QED
    BY <1>1, <2>1, LogCallStep
<1>2. ASSUME NEW w \in delayed, Wake(w) PROVE LogInv'
  BY <1>2, LogWakeStep
<1>3. ASSUME IsDb(db'), db'.requests \subseteq db.requests, delayed' \subseteq delayed,
             UNCHANGED <<lastRequest, replies>>
      PROVE  LogInv'
  <2>1. RepliesAreNumbered'
    BY <1>3 DEF LogInv, RepliesAreNumbered, IsReply
  <2>2. DelayedIsOfItsCall'
    BY <1>3 DEF LogInv, DelayedIsOfItsCall
  <2>3. LogIsRight'
    BY <1>3 DEF LogInv, LogIsRight
  <2>4. \A r \in db'.requests : IsEntry(r)'
    BY <1>3 DEF LogInv, IsEntry
  <2>5. replies' \in Seq({replies'[k] : k \in DOMAIN replies'})
    BY <1>3 DEF LogInv
  <2> QED
    BY <1>3, <2>1, <2>2, <2>3, <2>4, <2>5 DEF LogInv
<1>4. ASSUME NEW operation \in Faulted, NEW remaining \in 1..2, NEW delay \in BOOLEAN,
             OrderFault(operation, remaining, delay)
      PROVE  LogInv'
  <2> DEFINE more == Append(db.faults, [operation |-> operation, remaining |-> remaining,
                                        status |-> 503, delay |-> delay])
  <2>1. db' = [db EXCEPT !.faults = more]
    BY <1>4 DEF OrderFault
  <2> HIDE DEF more
  <2>2. IsDb(db') /\ db'.requests = db.requests
    BY <2>1 DEF LogInv, IsDb
  <2> QED
    BY <1>3, <1>4, <2>2 DEF OrderFault
<1>5. CASE Reset
  <2>1. IsDb(EmptyDb) /\ EmptyDb.requests = {}
    BY DEF IsDb, EmptyDb
  <2> QED
    BY <2>1, <1>3, <1>5 DEF Reset
<1>6. CASE Restart
  BY <1>3, <1>6 DEF Restart, LogInv, IsDb
<1>7. CASE MockTick
  BY <1>3, <1>7 DEF MockTick, LogInv, IsDb
<1>8. CASE UNCHANGED mockVars
  BY <1>3, <1>8 DEF mockVars, LogInv, IsDb
<1> QED
  BY <1>1, <1>2, <1>4, <1>5, <1>6, <1>7, <1>8 DEF MockNext

-----------------------------------------------------------------------------
(***************************************************************************)
(* The types of the mock. Every request has the number of its call, and so *)
(* there are no more rows in the log than calls.                           *)
(***************************************************************************)

MockTyped == MockTypeOK /\ lastRequest = Len(replies)

Typed(d) == d \in Databases /\ d.exited \subseteq d.things

\* What an operation leaves and what it answers.
Gives(result) == Typed(result.db) /\ result.answer \in MockAnswers

LEMMA AnswersAreTyped ==
  ASSUME NEW status \in {0, 200, 401, 500, 503}, NEW code \in Int, NEW of \in Things
  PROVE  Answer(status, code, of) \in MockAnswers
BY DEF Answer, MockAnswers

LEMMA NothingIsTyped ==
  /\ Nothing \in Things /\ Card \in Things /\ Unanswered \in MockAnswers
  /\ \A of \in Things : Ok(of) \in MockAnswers
<1>1. Nothing \in Things /\ Card \in Things
  BY DEF Nothing, Card, Thing, Things, ThingKinds
<1> QED
  BY <1>1, AnswersAreTyped DEF Unanswered, Ok

LEMMA NumberedIsTyped ==
  ASSUME NEW d, Typed(d), NEW name \in Counters
  PROVE  Typed(Numbered(d, name)) /\ Numbered(d, name).sequences[name] \in Nat
<1>1. PICK numbers : numbers = d.sequences
  OBVIOUS
<1>2. numbers \in [Counters -> Nat]
  BY <1>1 DEF Typed, Databases
<1>3. PICK more : more = [numbers EXCEPT ![name] = numbers[name] + 1]
  OBVIOUS
<1>4. more \in [Counters -> Nat] /\ more[name] \in Nat
  BY <1>2, <1>3
<1>5. Numbered(d, name) = [d EXCEPT !.sequences = more]
  BY <1>1, <1>3 DEF Numbered
<1> QED
  BY <1>4, <1>5 DEF Typed, Databases

\* A row that is added, or is there already.
LEMMA RowIsTyped ==
  ASSUME NEW d, Typed(d), NEW thing \in Things
  PROVE  Typed([d EXCEPT !.things = @ \cup {thing}])
BY DEF Typed, Databases

LEMMA AddIsTyped ==
  ASSUME NEW d, Typed(d), NEW name \in Counters, NEW sort \in ThingKinds
  PROVE  Gives(Add(d, name, sort))
<1>1. PICK numbered : numbered = Numbered(d, name)
  OBVIOUS
<1>2. PICK thing : thing = Thing(sort, numbered.sequences[name])
  OBVIOUS
<1>3. Typed(numbered) /\ thing \in Things
  BY <1>1, <1>2, NumberedIsTyped DEF Thing, Things
<1>4. PICK e : e = [numbered EXCEPT !.things = @ \cup {thing}]
  OBVIOUS
<1>5. Typed(e)
  BY <1>3, <1>4, RowIsTyped
<1>6. Ok(thing) \in MockAnswers
  BY <1>3, NothingIsTyped
<1>7. Add(d, name, sort) = Result(e, Ok(thing))
  BY <1>1, <1>2, <1>4 DEF Add
<1> QED
  BY <1>5, <1>6, <1>7 DEF Gives, Result

LEMMA ResultIsTyped ==
  ASSUME NEW d, Typed(d), NEW said \in MockAnswers
  PROVE  Gives(Result(d, said))
BY DEF Gives, Result

LEMMA ExitIsTyped ==
  ASSUME NEW d, Typed(d), NEW thing \in Things
  PROVE  Gives(Exit(d, thing))
<1>1. Typed([d EXCEPT !.exited = @ \cup (d.things \cap {thing})])
  BY DEF Typed, Databases
<1> QED
  BY <1>1, ResultIsTyped, NothingIsTyped DEF Exit

LEMMA CodesAreTyped ==
  /\ Answer(500, 0, Nothing) \in MockAnswers
  /\ Answer(200, 1, Nothing) \in MockAnswers
  /\ \A code \in Int : Answer(200, code, Nothing) \in MockAnswers
BY NothingIsTyped, AnswersAreTyped

LEMMA NingboIsTyped ==
  ASSUME NEW d, NEW q, Typed(d), q.about \in Things
  PROVE  Gives(HandleNingbo(d, q))
<1>1. \A of \in Things : Gives(Result(d, Ok(of)))
  BY ResultIsTyped, NothingIsTyped
<1>2. PICK about : about = q.about
  OBVIOUS
<1>3. /\ Gives(Result(d, Ok(IF about \in d.things THEN about ELSE Nothing)))
      /\ Gives(Result(d, Ok(Nothing)))
  BY <1>1, <1>2, NothingIsTyped
<1>4. Gives(Result([d EXCEPT !.things = @ \cup {about}], Ok(about)))
  BY <1>2, RowIsTyped, NothingIsTyped, ResultIsTyped
<1>5. /\ Gives(Add(d, "ningbo_worker", "identity card"))
      /\ Gives(Add(d, "ningbo_team", "team"))
      /\ Gives(Add(d, "ningbo_project_worker", "project worker"))
  BY AddIsTyped DEF Counters, ThingKinds
<1>6. Gives(Exit(d, about))
  BY <1>2, ExitIsTyped
<1>7. Gives(Result(Numbered(d, "ningbo_project_worker"), Answer(500, 0, Nothing)))
  BY NumberedIsTyped, CodesAreTyped, ResultIsTyped DEF Counters
<1>8. Gives(Result(d, IF about = Nothing THEN Answer(500, 0, Nothing) ELSE Ok(Nothing)))
  BY CodesAreTyped, NothingIsTyped, ResultIsTyped
<1>9. CASE q.operation = "EnterpriseWorker/GetWorkerCode"
  BY <1>2, <1>3, <1>9 DEF HandleNingbo
<1>10. CASE q.operation = "EnterpriseWorker/AddOrUpdateWorker"
  <2>1. HandleNingbo(d, q) = IF about = Nothing THEN Add(d, "ningbo_worker", "identity card")
                             ELSE Result([d EXCEPT !.things = @ \cup {about}], Ok(about))
    BY <1>2, <1>10 DEF HandleNingbo
  <2> QED
    BY <1>4, <1>5, <2>1
<1>11. CASE q.operation = "Project/AddWorkerV2"
  <2>1. HandleNingbo(d, q) = IF about = Nothing
                             THEN Result(Numbered(d, "ningbo_project_worker"), Answer(500, 0, Nothing))
                             ELSE Add(d, "ningbo_project_worker", "project worker")
    BY <1>2, <1>11 DEF HandleNingbo
  <2> QED
    BY <1>5, <1>7, <2>1
<1>12. CASE q.operation = "Project/AddTeam"
  BY <1>5, <1>12 DEF HandleNingbo
<1>13. CASE q.operation \in {"Project/TeamExit", "Project/ProjectWorkerExit"}
  BY <1>2, <1>6, <1>13 DEF HandleNingbo
<1>14. CASE q.operation = "Project/EditWorker"
  BY <1>2, <1>8, <1>14 DEF HandleNingbo
<1>15. CASE q.operation \notin {"EnterpriseWorker/GetWorkerCode", "EnterpriseWorker/AddOrUpdateWorker",
                               "Project/AddWorkerV2", "Project/AddTeam", "Project/TeamExit",
                               "Project/ProjectWorkerExit", "Project/EditWorker"}
  <2>1. HandleNingbo(d, q) = Result(d, Ok(Nothing))
    BY <1>15 DEF HandleNingbo
  <2> QED
    BY <1>3, <2>1
<1> QED
  BY <1>9, <1>10, <1>11, <1>12, <1>13, <1>14, <1>15

LEMMA QueryIsTyped ==
  ASSUME NEW d, NEW q, Typed(d), NEW unknown \in Int
  PROVE  Gives(Query(d, q, unknown))
<1>1. q.about \in d.things => q.about \in Things
  BY DEF Typed, Databases
<1>2. (IF q.about \in d.things THEN Ok(q.about) ELSE Answer(200, unknown, Nothing)) \in MockAnswers
  BY <1>1, NothingIsTyped, CodesAreTyped
<1> QED
  BY <1>2, ResultIsTyped DEF Query

LEMMA XinledaIsTyped ==
  ASSUME NEW d, NEW q, Typed(d), q.operation \in XinledaMethods \cup {"openapi", "upfiles"}
  PROVE  Gives(HandleXinleda(d, q))
<1>1. Gives(Result(d, Answer(200, 1, Nothing)))
  BY ResultIsTyped, CodesAreTyped
<1>2. Gives(Add(d, "file", "file"))
  BY AddIsTyped DEF Counters, ThingKinds
<1>3. Gives(Query(d, q, 2))
  BY QueryIsTyped
<1>4. ASSUME NEW e, Typed(e), q.operation \in XinledaMethods
      PROVE  Gives(Add(e, "job", q.operation))
  BY <1>4, AddIsTyped DEF Counters, ThingKinds
<1>5. q.operation \in XinledaMethods => Gives(Add(Numbered(d, "job"), "job", q.operation))
  BY <1>4, NumberedIsTyped DEF Counters
<1>6. PICK made : made = Add(d, "job", q.operation)
  OBVIOUS
<1>7. PICK numbered, said : made = [db |-> numbered, answer |-> said]
  BY <1>6 DEF Add, Result
<1>8. q.operation \in XinledaMethods => Gives([made EXCEPT !.answer.code = 20])
  <2> SUFFICES ASSUME q.operation \in XinledaMethods PROVE Gives([made EXCEPT !.answer.code = 20])
    OBVIOUS
  <2>1. Typed(numbered) /\ said \in MockAnswers
    BY <1>4, <1>6, <1>7 DEF Gives
  <2>2. [said EXCEPT !.code = 20] \in MockAnswers
    BY <2>1 DEF MockAnswers
  <2>3. [made EXCEPT !.answer.code = 20] = [db |-> numbered, answer |-> [said EXCEPT !.code = 20]]
    BY <1>7
  <2> QED
    BY <2>1, <2>2, <2>3 DEF Gives
<1>9. \/ HandleXinleda(d, q) \in {Result(d, Answer(200, 1, Nothing)), Add(d, "file", "file"), Query(d, q, 2)}
      \/ /\ q.operation \in XinledaMethods
         /\ HandleXinleda(d, q) \in {Add(Numbered(d, "job"), "job", q.operation), [made EXCEPT !.answer.code = 20]}
  BY <1>6 DEF HandleXinleda
<1> QED
  BY <1>1, <1>2, <1>3, <1>5, <1>8, <1>9

LEMMA YongxinIsTyped ==
  ASSUME NEW d, NEW q, Typed(d)
  PROVE  Gives(HandleYongxin(d, q))
<1>1. Gives(Add(d, "ningbo_team", "Yongxin team")) /\ Gives(Add(d, "file", "file"))
  BY AddIsTyped DEF Counters, ThingKinds
<1>2. q.operation \in YongxinJobs => Gives(Add(d, "job", q.operation))
  BY AddIsTyped DEF Counters, ThingKinds
<1>3. Gives(Query(d, q, 2011))
  BY QueryIsTyped
<1>4. Gives(Result(d, Ok(Nothing)))
  BY ResultIsTyped, NothingIsTyped
<1>5. CASE q.operation = "team/V2/add"
  <2>1. HandleYongxin(d, q) = Add(d, "ningbo_team", "Yongxin team")
    BY <1>5 DEF HandleYongxin, YongxinJobs
  <2> QED
    BY <1>1, <2>1
<1>6. CASE q.operation \in YongxinJobs
  <2>1. HandleYongxin(d, q) = Add(d, "job", q.operation)
    BY <1>6 DEF HandleYongxin, YongxinJobs
  <2> QED
    BY <1>2, <1>6, <2>1
<1>7. CASE q.operation = "asyncHandleResult/V2/query"
  BY <1>3, <1>7 DEF HandleYongxin, YongxinJobs
<1>8. CASE q.operation = "sysFile/V2/uploadImg"
  <2>1. HandleYongxin(d, q) = Add(d, "file", "file")
    BY <1>8 DEF HandleYongxin, YongxinJobs
  <2> QED
    BY <1>1, <2>1
<1>9. CASE /\ q.operation \notin YongxinJobs
           /\ q.operation \notin {"team/V2/add", "asyncHandleResult/V2/query", "sysFile/V2/uploadImg"}
  <2>1. PICK o : q.operation = o
    OBVIOUS
  <2>2. /\ o # "team/V2/add" /\ o # "asyncHandleResult/V2/query" /\ o # "sysFile/V2/uploadImg"
        /\ o \notin YongxinJobs
    BY <1>9, <2>1
  <2>3. HandleYongxin(d, q) = Result(d, Ok(Nothing))
    BY ONLY <2>1, <2>2 DEF HandleYongxin
  <2> QED
    BY <1>4, <2>3
<1> QED
  BY <1>5, <1>6, <1>7, <1>8, <1>9

\* What the platforms do.
LEMMA HandlingIsTyped ==
  ASSUME NEW d, NEW q, Typed(d), q.operation \in Operations, q.about \in Things
  PROVE  Gives(Handled(d, q))
BY NingboIsTyped, XinledaIsTyped, YongxinIsTyped DEF Handled, Operations

-----------------------------------------------------------------------------
\* What a request brings with it.
IsAsked(q) ==
  q.operation \in Operations /\ q.time \in 0..MaxClock /\ q.nonce \in Nonces /\ q.about \in Things

\* What the check leaves, and what it answers if it refuses.
Checks(d, auth) ==
  /\ Typed(auth.db) /\ auth.db.faults = d.faults
  /\ auth.answer \in MockAnswers /\ auth.valid \in BOOLEAN

LEMMA VerdictsAreTyped ==
  ASSUME NEW d, NEW e, Typed(e), e.faults = d.faults
  PROVE  /\ Checks(d, Valid(e))
         /\ \A code \in Int : Checks(d, Refusal(e, 200, code)) /\ Checks(d, Refusal(e, 401, code))
<1>1. \A code \in Int : Answer(200, code, Nothing) \in MockAnswers /\ Answer(401, code, Nothing) \in MockAnswers
  BY NothingIsTyped, AnswersAreTyped
<1> QED
  BY <1>1, NothingIsTyped DEF Checks, Valid, Refusal

LEMMA CheckIsTyped ==
  ASSUME NEW d, NEW q, Typed(d), IsAsked(q)
  PROVE  Checks(d, Auth(d, q))
<1>1. PICK dropped : dropped = [d EXCEPT !.nonces = Remembered(d)]
  OBVIOUS
<1>2. Typed(dropped) /\ dropped.faults = d.faults
  BY <1>1 DEF Typed, Databases, Remembered
<1>3. Typed(ConsumeNonce(d, q)) /\ ConsumeNonce(d, q).faults = d.faults
  <2>1. PICK token : token = [nonce |-> q.nonce, expires |-> q.time + TenMinutes]
    OBVIOUS
  <2>2. token \in Tokens
    BY <2>1, MockAssumption DEF IsAsked, TenMinutes, Tokens
  <2>3. ConsumeNonce(d, q) = [d EXCEPT !.nonces = Remembered(d) \cup {token}]
    BY <2>1 DEF ConsumeNonce
  <2> QED
    BY <2>2, <2>3 DEF Typed, Databases, Remembered
<1>4. Checks(d, Valid(d)) /\ Checks(d, Valid(ConsumeNonce(d, q)))
  BY <1>3, VerdictsAreTyped
<1>5. \A code \in Int : /\ Checks(d, Refusal(d, 200, code)) /\ Checks(d, Refusal(d, 401, code))
                        /\ Checks(d, Refusal(dropped, 200, code))
  BY <1>2, VerdictsAreTyped
<1>6. Checks(d, NingboAuth(d, q))
  BY <1>4, <1>5 DEF NingboAuth
<1>7. Checks(d, XinledaAuth(d, q))
  BY <1>1, <1>4, <1>5 DEF XinledaAuth
<1>8. Checks(d, XinledaUploadAuth(d, q))
  BY <1>4, <1>5 DEF XinledaUploadAuth
<1>9. Checks(d, YongxinAuth(d, q))
  BY <1>4, <1>5 DEF YongxinAuth
<1> QED
  BY <1>6, <1>7, <1>8, <1>9 DEF Auth

LEMMA RecordIsTyped ==
  ASSUME NEW d, Typed(d), NEW id \in 1..MaxCalls, NEW valid \in BOOLEAN
  PROVE  Typed(Record(d, id, valid))
<1>1. [id |-> id, valid |-> valid, answer |-> Unanswered] \in Entries
  BY NothingIsTyped DEF Entries
<1> QED
  BY <1>1 DEF Typed, Databases, Record

LEMMA FinishIsTyped ==
  ASSUME NEW d, Typed(d), NEW id, NEW reply \in MockAnswers
  PROVE  Typed(Finish(d, id, reply))
<1>1. \A r \in Entries : [r EXCEPT !.answer = reply] \in Entries
  BY DEF Entries
<1>2. PICK log : log = {IF r.id = id THEN [r EXCEPT !.answer = reply] ELSE r : r \in d.requests}
  OBVIOUS
<1>3. log \subseteq Entries
  BY <1>1, <1>2 DEF Typed, Databases
<1>4. Finish(d, id, reply) = [d EXCEPT !.requests = log]
  BY <1>2 DEF Finish
<1> QED
  BY <1>3, <1>4 DEF Typed, Databases

\* The fault that is ordered for a call, of which one call is used up.
LEMMA OrderedIsThere ==
  ASSUME NEW d, NEW q, Typed(d), Ordered(d, q) # {}
  PROVE  First(Ordered(d, q)) \in Ordered(d, q)
<1>1. PICK ks : ks = Ordered(d, q)
  OBVIOUS
<1>2. ks \in SUBSET Nat
  <2>1. PICK faults \in Seq(Faults) : faults = d.faults
    BY DEF Typed, Databases
  <2> QED
    BY <1>1, <2>1 DEF Ordered
<1>3. \E x \in ks : \A y \in ks : x <= y
  BY <1>1, <1>2, SmallestNumber
<1> QED
  BY <1>1, <1>3 DEF First

LEMMA SpendingIsTyped ==
  ASSUME NEW d, NEW e, NEW q, Typed(d), Typed(e), e.faults = d.faults, NEW k \in Ordered(d, q)
  PROVE  /\ Typed([e EXCEPT !.faults[k].remaining = @ - 1])
         /\ Answer(d.faults[k].status, 503, Nothing) \in MockAnswers
<1>1. PICK faults \in Seq(Faults) : faults = e.faults
  BY DEF Typed, Databases
<1>2. k \in DOMAIN faults /\ faults[k] \in Faults /\ faults[k].remaining > 0
  BY <1>1 DEF Ordered
<1>3. PICK fault \in Faults : fault = faults[k]
  BY <1>2
<1>4. [fault EXCEPT !.remaining = fault.remaining - 1] \in Faults
  <2>1. fault.remaining \in 0..2 /\ fault.remaining > 0
    BY <1>2, <1>3 DEF Faults
  <2>2. fault.remaining - 1 \in 0..2
    BY <2>1
  <2> QED
    BY <2>2 DEF Faults
<1>5. PICK spent : spent = [faults EXCEPT ![k] = [fault EXCEPT !.remaining = fault.remaining - 1]]
  OBVIOUS
<1>6. spent \in Seq(Faults)
  BY <1>2, <1>4, <1>5
<1>7. [e EXCEPT !.faults[k].remaining = @ - 1] = [e EXCEPT !.faults = spent]
  BY <1>1, <1>3, <1>5
<1>8. Typed([e EXCEPT !.faults = spent])
  BY <1>6 DEF Typed, Databases
<1>9. fault.status = 503 /\ d.faults[k] = fault
  BY <1>1, <1>3 DEF Faults
<1>10. Answer(503, 503, Nothing) \in MockAnswers
  BY NothingIsTyped, AnswersAreTyped
<1> QED
  BY <1>7, <1>8, <1>9, <1>10

-----------------------------------------------------------------------------
\* One call more, with its number: what it is told, now or later, is an answer.
LEMMA CallIsTyped ==
  ASSUME MockTyped, NEW e, NEW reply \in MockAnswers, NEW later \in MockAnswers, Typed(e),
         NEW id, id = lastRequest + 1, Len(replies) < MaxCalls,
         lastRequest' = id, replies' = Append(replies, [id |-> id, answer |-> reply]),
         db' = e,
         \/ delayed' = delayed
         \/ delayed' = delayed \cup {[id |-> id, call |-> Len(replies'), answer |-> later]},
         accepted' \subseteq [nonce : Nonces, time : 0..MaxClock], replayed' \in BOOLEAN,
         UNCHANGED <<strict, clock, orders, mockStops>>
  PROVE  MockTyped'
<1>1. /\ Len(replies) \in Nat /\ id \in 1..MaxCalls /\ id = Len(replies) + 1
      /\ replies \in Seq(MockReplies)
  BY MockAssumption DEF MockTyped, MockTypeOK
<1>2. PICK said : said = [id |-> id, answer |-> reply]
  OBVIOUS
<1>3. said \in MockReplies
  BY <1>1, <1>2 DEF MockReplies
<1>4. /\ replies' \in Seq(MockReplies) /\ Len(replies') = id
      /\ DOMAIN replies \subseteq DOMAIN replies' /\ id \in DOMAIN replies'
  BY <1>1, <1>2, <1>3
<1>5. [id |-> id, call |-> Len(replies'), answer |-> later]
        \in [id : 1..MaxCalls, call : DOMAIN replies', answer : MockAnswers]
  BY <1>1, <1>4
<1>6. delayed \subseteq [id : 1..MaxCalls, call : DOMAIN replies', answer : MockAnswers]
  BY <1>4 DEF MockTyped, MockTypeOK
<1>7. delayed' \subseteq [id : 1..MaxCalls, call : DOMAIN replies', answer : MockAnswers]
  BY <1>5, <1>6
<1>8. lastRequest' \in 0..MaxCalls /\ lastRequest' = Len(replies')
  BY <1>1, <1>4
<1> QED
  BY <1>4, <1>7, <1>8 DEF MockTyped, MockTypeOK, Typed

LEMMA CallTypedStep ==
  ASSUME MockTyped, NEW q, IsAsked(q), Refuse(q) \/ FailAsOrdered(q) \/ Handle(q)
  PROVE  MockTyped'
<1> DEFINE auth == Auth(db, q)
<1> DEFINE logged == Logged(q)
<1>1. PICK id : id = lastRequest + 1
  OBVIOUS
<1>2. RequestId(db) = id
  BY <1>1 DEF RequestId
<1>3. Typed(db)
  BY DEF MockTyped, MockTypeOK, Typed
<1>4. Checks(db, auth)
  BY <1>3, CheckIsTyped
<1>5. Received(q)
  BY DEF Refuse, FailAsOrdered, Handle
<1>6. /\ Len(replies) < MaxCalls /\ lastRequest' = id
      /\ UNCHANGED <<strict, clock, orders, mockStops>>
  BY <1>2, <1>5 DEF Received
<1>7. accepted' \subseteq [nonce : Nonces, time : 0..MaxClock] /\ replayed' \in BOOLEAN
  <2>1. PICK signed : signed = [nonce |-> q.nonce, time |-> q.time]
    OBVIOUS
  <2>2. signed \in [nonce : Nonces, time : 0..MaxClock]
    BY <2>1 DEF IsAsked
  <2>3. \/ accepted' = accepted /\ replayed' = replayed
        \/ accepted' = accepted \cup {signed} /\ replayed' = (replayed \/ signed \in accepted)
    BY <1>5, <2>1 DEF Received
  <2>4. accepted \subseteq [nonce : Nonces, time : 0..MaxClock] /\ replayed \in BOOLEAN
    BY DEF MockTyped, MockTypeOK
  <2> QED
    BY <2>2, <2>3, <2>4
<1>8. Typed(logged) /\ logged.faults = db.faults
  <2>1. id \in 1..MaxCalls
    BY <1>1, <1>6, MockAssumption DEF MockTyped, MockTypeOK
  <2>2. logged = Record(auth.db, id, auth.valid)
    BY <1>2 DEF Logged
  <2> HIDE DEF auth, logged
  <2> QED
    BY <1>4, <2>1, <2>2, RecordIsTyped DEF Checks, Record, Typed, Databases
<1> HIDE DEF logged
<1>9. CASE Refuse(q)
  <2>1. PICK reply : reply = auth.answer
    OBVIOUS
  <2>2. reply \in MockAnswers
    BY <1>4, <2>1 DEF Checks
  <2>3. PICK e : e = Finish(logged, id, reply)
    OBVIOUS
  <2>4. /\ db' = e /\ delayed' = delayed
        /\ replies' = Append(replies, [id |-> id, answer |-> reply])
    BY <1>2, <1>9, <2>1, <2>3 DEF Refuse, Reply, logged
  <2>5. Typed(e)
    BY <1>8, <2>2, <2>3, FinishIsTyped
  <2> QED
    BY <1>1, <1>6, <1>7, <2>2, <2>4, <2>5, CallIsTyped
<1>10. CASE FailAsOrdered(q)
  <2>1. PICK k : k = First(Ordered(db, q))
    OBVIOUS
  <2>2. k \in Ordered(db, q)
    BY <1>3, <1>10, <2>1, OrderedIsThere DEF FailAsOrdered
  <2>3. PICK spent : spent = [logged EXCEPT !.faults[k].remaining = @ - 1]
    OBVIOUS
  <2>4. PICK reply : reply = Answer(db.faults[k].status, 503, Nothing)
    OBVIOUS
  <2>6. Typed(spent) /\ reply \in MockAnswers
    BY <1>3, <1>8, <2>2, <2>3, <2>4, SpendingIsTyped
  <2>7. PICK finished : finished = Finish(spent, id, reply)
    OBVIOUS
  <2>8. Typed(finished) /\ Unanswered \in MockAnswers
    BY <2>6, <2>7, FinishIsTyped, NothingIsTyped
  <2>9. \/ /\ db' = spent /\ replies' = Append(replies, [id |-> id, answer |-> Unanswered])
           /\ delayed' = delayed \cup {[id |-> id, call |-> Len(replies'), answer |-> reply]}
        \/ /\ db' = finished /\ delayed' = delayed
           /\ replies' = Append(replies, [id |-> id, answer |-> reply])
    BY <1>2, <1>10, <2>1, <2>3, <2>4, <2>7 DEF FailAsOrdered, Reply, logged
  <2>10. CASE db' = spent /\ replies' = Append(replies, [id |-> id, answer |-> Unanswered])
                /\ delayed' = delayed \cup {[id |-> id, call |-> Len(replies'), answer |-> reply]}
    BY <1>1, <1>6, <1>7, <2>6, <2>8, <2>10, CallIsTyped
  <2>11. CASE /\ db' = finished /\ delayed' = delayed
              /\ replies' = Append(replies, [id |-> id, answer |-> reply])
    BY <1>1, <1>6, <1>7, <2>6, <2>8, <2>11, CallIsTyped
  <2> QED
    BY <2>9, <2>10, <2>11
<1>11. CASE Handle(q)
  <2>1. PICK handled : handled = Handled(logged, q)
    OBVIOUS
  <2>2. PICK reply, left : reply = handled.answer /\ left = handled.db
    OBVIOUS
  <2>3. Typed(left) /\ reply \in MockAnswers
    BY <1>8, <2>1, <2>2, HandlingIsTyped DEF IsAsked, Gives
  <2>4. PICK e : e = Finish(left, id, reply)
    OBVIOUS
  <2>5. Typed(e)
    BY <2>3, <2>4, FinishIsTyped
  <2>6. /\ db' = e /\ delayed' = delayed
        /\ replies' = Append(replies, [id |-> id, answer |-> reply])
    BY <1>2, <1>11, <2>1, <2>2, <2>4 DEF Handle, Reply, logged
  <2> QED
    BY <1>1, <1>6, <1>7, <2>3, <2>5, <2>6, CallIsTyped
<1> QED
  BY <1>9, <1>10, <1>11

LEMMA WakeTypedStep ==
  ASSUME MockTyped, NEW w \in delayed, Wake(w)
  PROVE  MockTyped'
<1>1. PICK reply, c : reply = w.answer /\ c = w.call
  OBVIOUS
<1>2. reply \in MockAnswers /\ c \in DOMAIN replies
  BY <1>1 DEF MockTyped, MockTypeOK
<1>3. Typed(Finish(db, w.id, reply))
  BY <1>2, FinishIsTyped DEF MockTyped, MockTypeOK, Typed
<1>4. PICK said \in Seq(MockReplies) : said = replies
  BY DEF MockTyped, MockTypeOK
<1>5. [said[c] EXCEPT !.answer = reply] \in MockReplies
  <2>1. PICK old \in MockReplies : old = said[c]
    BY <1>2, <1>4
  <2>2. [old EXCEPT !.answer = reply] \in MockReplies
    BY <1>2 DEF MockReplies
  <2> QED
    BY <2>1, <2>2
<1>6. PICK more : more = [said EXCEPT ![c] = [said[c] EXCEPT !.answer = reply]]
  OBVIOUS
<1>7. more \in Seq(MockReplies) /\ Len(more) = Len(said) /\ DOMAIN more = DOMAIN said
  BY <1>2, <1>4, <1>5, <1>6
<1>8. replies' = more
  BY <1>1, <1>4, <1>6 DEF Wake
<1>9. Typed(db') /\ delayed' \subseteq delayed /\ UNCHANGED <<strict, clock, lastRequest, accepted, replayed, orders, mockStops>>
  BY <1>1, <1>3 DEF Wake
<1>10. delayed \subseteq [id : 1..MaxCalls, call : DOMAIN replies', answer : MockAnswers]
  BY <1>4, <1>7, <1>8 DEF MockTyped, MockTypeOK
<1> QED
  BY <1>4, <1>7, <1>8, <1>9, <1>10 DEF MockTyped, MockTypeOK, Typed

\* What a client asks about is what the mock has told somebody, a card, or nothing.
LEMMA RequestsAreTyped ==
  ASSUME MockTyped, NEW operation \in Called, NEW q \in Requests(operation)
  PROVE  IsAsked(q)
<1>1. PICK said \in Seq(MockReplies) : said = replies
  BY DEF MockTyped, MockTypeOK
<1>2. \A k \in DOMAIN said : said[k].answer.of \in Things
  <2> SUFFICES ASSUME NEW k \in DOMAIN said PROVE said[k].answer.of \in Things
    OBVIOUS
  <2>1. PICK t \in MockReplies : t = said[k]
    BY <1>1
  <2>2. PICK reply \in MockAnswers : reply = t.answer
    BY DEF MockReplies
  <2>3. reply.of \in Things
    BY DEF MockAnswers
  <2> QED
    BY <2>1, <2>2, <2>3
<1>3. {t.answer.of : t \in {replies[k] : k \in DOMAIN replies}} \subseteq Things
  BY <1>1, <1>2
<1>4. Abouts(operation) \subseteq Things
  BY <1>3, NothingIsTyped DEF Abouts
<1> QED
  BY <1>4, MockAssumption DEF Requests, IsAsked

LEMMA EmptyIsTyped == Typed(EmptyDb)
<1>1. [name \in Counters |-> 1000] \in [Counters -> Nat]
  OBVIOUS
<1>2. <<>> \in Seq(Faults)
  OBVIOUS
<1> QED
  BY <1>1, <1>2 DEF EmptyDb, Typed, Databases

LEMMA MockTypedInit == MockInit => MockTyped
<1> SUFFICES ASSUME MockInit PROVE MockTyped
  OBVIOUS
<1>1. db \in Databases /\ db.exited \subseteq db.things
  BY EmptyIsTyped DEF MockInit, Typed
<1>2. replies \in Seq(MockReplies) /\ Len(replies) = 0
  BY DEF MockInit
<1>3. clock \in 1..MaxClock /\ lastRequest \in 0..MaxCalls /\ orders \in 0..MaxOrders /\ mockStops \in 0..MaxResets
  BY MockAssumption DEF MockInit
<1>4. strict \in BOOLEAN /\ delayed = {} /\ accepted = {} /\ replayed \in BOOLEAN /\ lastRequest = 0
  BY DEF MockInit
<1> QED
  BY <1>1, <1>2, <1>3, <1>4 DEF MockTyped, MockTypeOK

LEMMA MockTypedStep == MockTyped /\ [MockNext]_mockVars => MockTyped'
<1> SUFFICES ASSUME MockTyped, [MockNext]_mockVars PROVE MockTyped'
  OBVIOUS
<1>1. ASSUME NEW operation \in Called, NEW q \in Requests(operation),
             Refuse(q) \/ FailAsOrdered(q) \/ Handle(q)
      PROVE  MockTyped'
  BY <1>1, RequestsAreTyped, CallTypedStep
<1>2. ASSUME NEW w \in delayed, Wake(w) PROVE MockTyped'
  BY <1>2, WakeTypedStep
<1>3. ASSUME NEW operation \in Faulted, NEW remaining \in 1..2, NEW delay \in BOOLEAN,
             OrderFault(operation, remaining, delay)
      PROVE  MockTyped'
  <2>1. PICK fault : fault = [operation |-> operation, remaining |-> remaining, status |-> 503, delay |-> delay]
    OBVIOUS
  <2>2. fault \in Faults
    BY <2>1 DEF Faults
  <2>3. PICK d : d = db
    OBVIOUS
  <2>4. Typed(d) /\ db' = [d EXCEPT !.faults = Append(d.faults, fault)]
    BY <1>3, <2>1, <2>3 DEF OrderFault, MockTyped, MockTypeOK, Typed
  <2>5. Append(d.faults, fault) \in Seq(Faults)
    BY <2>2, <2>4 DEF Typed, Databases
  <2>6. Typed(db')
    BY <2>4, <2>5 DEF Typed, Databases
  <2>7. orders' \in 0..MaxOrders
    BY <1>3, MockAssumption DEF OrderFault, MockTyped, MockTypeOK
  <2>8. UNCHANGED <<strict, clock, lastRequest, delayed, replies, accepted, replayed, mockStops>>
    BY <1>3 DEF OrderFault
  <2> QED
    BY <2>6, <2>7, <2>8 DEF MockTyped, MockTypeOK, Typed
<1>4. CASE Reset
  <2>1. Typed(db') /\ accepted' = {}
    BY <1>4, EmptyIsTyped DEF Reset
  <2>2. mockStops' \in 0..MaxResets
    BY <1>4, MockAssumption DEF Reset, MockTyped, MockTypeOK
  <2> QED
    BY <1>4, <2>1, <2>2 DEF Reset, MockTyped, MockTypeOK, Typed
<1>5. CASE Restart
  <2>1. mockStops' \in 0..MaxResets /\ delayed' = {}
    BY <1>5, MockAssumption DEF Restart, MockTyped, MockTypeOK
  <2> QED
    BY <1>5, <2>1 DEF Restart, MockTyped, MockTypeOK
<1>6. CASE MockTick
  <2>1. clock' \in 1..MaxClock
    BY <1>6, MockAssumption DEF MockTick, MockTyped, MockTypeOK
  <2> QED
    BY <1>6, <2>1 DEF MockTick, MockTyped, MockTypeOK
<1>7. CASE UNCHANGED mockVars
  BY <1>7 DEF mockVars, MockTyped, MockTypeOK
<1> QED
  BY <1>1, <1>2, <1>3, <1>4, <1>5, <1>6, <1>7 DEF MockNext

-----------------------------------------------------------------------------
(***************************************************************************)
(* The home page of the mini program, for any users, projects, tokens that *)
(* run out and requests on their way.                                      *)
(***************************************************************************)

\* A request without a token is refused.
HomeRequests ==
  {r \in [kind : {"projects", "stats", "points"}, project : Projects \cup {NULL},
          who : Users \cup {NULL}, expired : BOOLEAN, gone : BOOLEAN] : r.who = NULL => r.expired}
PagesAbove == Seq({"module", "points"})
Stores == [token : Users \cup {NULL}, expired : BOOLEAN, managed : SUBSET Projects,
           selected : Projects \cup {NULL}]
HomePages == [selected : Projects \cup {NULL}, options : SUBSET Projects,
              stats : Projects \cup {NULL}, busy : BOOLEAN, loading : BOOLEAN,
              access : Projects \cup {NULL}]

\* The counts that this page waits for.
IsLoad(r) == r.kind = "stats" /\ ~r.gone

Requested == requests \subseteq HomeRequests

\* Where there is no home page nothing is waited for.
AwayIsQuiet == screen \in {"login", "profile"} => \A r \in requests : r.gone

\* A page waits for one load of counts at a time, and knows that it does.
OneLoad ==
  /\ \A r, q \in requests : IsLoad(r) /\ IsLoad(q) => r = q
  /\ home.busy <=> \E r \in requests : IsLoad(r)

\* The counts that are shown, or on their way, are of the project that is shown.
CountsAreOfTheProject ==
  ~behind => /\ \A r \in requests : IsLoad(r) => r.project = home.selected
             /\ home.selected # NULL /\ ~home.busy => home.stats = home.selected

\* The projects that are offered are the user's, and the one that is shown is the stored one.
ProjectIsStored ==
  ~crossed => /\ home.options # {} => store.token \in Users /\ home.options \subseteq Managed[store.token]
              /\ home.selected # NULL =>
                   /\ store.token \in Users
                   /\ store.selected = home.selected /\ home.selected \in Managed[store.token]

HomeInv ==
  MiniHomeTypeOK /\ Requested /\ AwayIsQuiet /\ OneLoad /\ CountsAreOfTheProject /\ ProjectIsStored

LEMMA BlankPages ==
  /\ NoStore \in Stores /\ NoStore.token = NULL
  /\ NewHome \in HomePages /\ NewHome.selected = NULL /\ NewHome.options = {} /\ NewHome.busy = FALSE
BY DEF NoStore, Stores, NewHome, HomePages

\* A page that is opened, loading or not, knows nothing yet.
LEMMA BlankHome ==
  ASSUME NEW h, NEW l \in BOOLEAN, h = [NewHome EXCEPT !.loading = l]
  PROVE  h \in HomePages /\ h.selected = NULL /\ h.options = {} /\ h.busy = FALSE
BY DEF NewHome, HomePages

\* What is left of the requests of a page that has closed.
LEMMA OrphansAreGone ==
  ASSUME NEW rs \in SUBSET HomeRequests
  PROVE  Orphans(rs) \subseteq HomeRequests /\ \A r \in Orphans(rs) : r.gone
<1>1. ASSUME NEW x \in HomeRequests
      PROVE  [x EXCEPT !.gone = TRUE] \in HomeRequests /\ [x EXCEPT !.gone = TRUE].gone
  BY DEF HomeRequests
<1> QED
  BY <1>1 DEF Orphans

LEMMA AskedIsARequest ==
  ASSUME store \in Stores, NEW k \in {"projects", "stats", "points"},
         NEW p \in Projects \cup {NULL}
  PROVE  LET r == Asked(k, p) IN r \in HomeRequests /\ r.kind = k /\ r.project = p /\ r.gone = FALSE
BY DEF Asked, HomeRequests, Stores

\* A page that begins anew.
LEMMA HomeIsTyped ==
  ASSUME store' \in Stores, screen' \in {"login", "home", "profile"}, above' \in PagesAbove,
         home' \in HomePages, requests' \subseteq HomeRequests,
         expiries' \in 0..MaxExpiries, redirecting' \in BOOLEAN, behind' \in BOOLEAN, crossed' \in BOOLEAN
  PROVE  MiniHomeTypeOK' /\ Requested'
BY DEF MiniHomeTypeOK, Requested, Stores, HomePages, HomeRequests, PagesAbove

LEMMA FreshPage ==
  ASSUME HomeInv, store' \in Stores, screen' \in {"login", "home", "profile"}, above' \in PagesAbove,
         home' \in HomePages, home'.selected = NULL, home'.options = {}, home'.busy = FALSE,
         requests' \subseteq HomeRequests, screen' \in {"login", "profile"} => \A r \in requests' : r.gone,
         \A r \in requests' : ~ IsLoad(r),
         expiries' \in 0..MaxExpiries, redirecting' \in BOOLEAN, behind' \in BOOLEAN, crossed' \in BOOLEAN
  PROVE  HomeInv'
<1>1. MiniHomeTypeOK' /\ Requested'
  BY HomeIsTyped
<1> QED
  BY <1>1 DEF HomeInv, AwayIsQuiet, OneLoad, CountsAreOfTheProject, ProjectIsStored, IsLoad

LEMMA HomeInvInit == MiniHomeInit => HomeInv
<1> SUFFICES ASSUME MiniHomeInit PROVE HomeInv
  OBVIOUS
<1>1. MiniHomeTypeOK
  <2>1. store \in Stores /\ home \in HomePages /\ requests = {} /\ screen = "login" /\ above \in PagesAbove
    BY BlankPages DEF MiniHomeInit, PagesAbove
  <2>2. expiries \in 0..MaxExpiries /\ redirecting = FALSE /\ behind = FALSE /\ crossed = FALSE
    BY MiniHomeAssumption DEF MiniHomeInit
  <2> QED
    BY <2>1, <2>2 DEF MiniHomeTypeOK, Stores, HomePages, PagesAbove
<1> QED
  BY <1>1, BlankPages DEF HomeInv, Requested, AwayIsQuiet, OneLoad, CountsAreOfTheProject, ProjectIsStored, IsLoad, MiniHomeInit
-----------------------------------------------------------------------------
LEMMA PartsOfHome ==
  ASSUME HomeInv
  PROVE  /\ store \in Stores /\ screen \in {"login", "home", "profile"} /\ above \in PagesAbove
         /\ home \in HomePages /\ requests \in SUBSET HomeRequests
         /\ expiries \in 0..MaxExpiries /\ redirecting \in BOOLEAN
         /\ behind \in BOOLEAN /\ crossed \in BOOLEAN
BY DEF HomeInv, MiniHomeTypeOK, Requested, Stores, HomePages, PagesAbove

LEMMA OrphansAreNoLoads ==
  ASSUME NEW rs \in SUBSET HomeRequests
  PROVE  \A r \in Orphans(rs) : r \in HomeRequests /\ r.gone /\ ~ IsLoad(r)
BY OrphansAreGone DEF IsLoad

LEMMA SubmitLoginKeeps ==
  ASSUME HomeInv, NEW u \in Users, SubmitLogin(u)
  PROVE  HomeInv'
<1> DEFINE req == [kind |-> "projects", project |-> NULL, who |-> u, expired |-> FALSE, gone |-> FALSE]
<1>1. req \in HomeRequests /\ ~ IsLoad(req)
  BY MiniHomeAssumption DEF HomeRequests, IsLoad
<1>2. requests' = Orphans(requests) \cup {req}
  BY DEF SubmitLogin, Asking
<1> HIDE DEF req
<1>3. store' \in Stores /\ store'.token = u
  BY PartsOfHome, MiniHomeAssumption DEF SubmitLogin, Stores
<1>4. home' \in HomePages /\ home'.selected = NULL /\ home'.options = {} /\ home'.busy = FALSE
  BY BlankHome DEF SubmitLogin
<1>5. /\ screen' = "home" /\ behind' = FALSE /\ crossed' = FALSE
      /\ UNCHANGED <<above, expiries, redirecting>>
  BY DEF SubmitLogin
<1>6. \A r \in requests' : r \in HomeRequests /\ ~ IsLoad(r)
  BY <1>1, <1>2, PartsOfHome, OrphansAreNoLoads
<1> QED
  BY <1>3, <1>4, <1>5, <1>6, PartsOfHome, FreshPage

LEMMA RelaunchKeeps ==
  ASSUME HomeInv, Relaunch
  PROVE  HomeInv'
<1>1. home' \in HomePages /\ home'.selected = NULL /\ home'.options = {} /\ home'.busy = FALSE
  BY BlankHome DEF Relaunch
<1>2. behind' = FALSE /\ crossed' = FALSE /\ redirecting' = FALSE /\ expiries' = expiries /\ above' \in PagesAbove
  BY DEF Relaunch, PagesAbove
<1>3. CASE store.token # NULL /\ ~store.expired
  <2>1. screen' = "home" /\ store' = store /\ requests' = {Asked("projects", NULL)}
    BY <1>3 DEF Relaunch, AskProjects
  <2>2. store \in Stores
    BY PartsOfHome
  <2>3. \A r \in requests' : r \in HomeRequests /\ ~ IsLoad(r)
    <3>1. PICK req : req = Asked("projects", NULL)
      OBVIOUS
    <3>2. req \in HomeRequests /\ req.kind = "projects"
      BY <2>2, <3>1, AskedIsARequest
    <3>3. ~ IsLoad(req)
      BY <3>2 DEF IsLoad
    <3> QED
      BY <2>1, <3>1, <3>2, <3>3
  <2> QED
    BY <1>1, <1>2, <2>1, <2>2, <2>3, PartsOfHome, FreshPage
<1>4. CASE ~ (store.token # NULL /\ ~store.expired)
  <2>1. screen' = "login" /\ store' = [NoStore EXCEPT !.selected = store.selected] /\ requests' = {}
    BY <1>4 DEF Relaunch
  <2>2. store' \in Stores
    BY <2>1, PartsOfHome DEF NoStore, Stores
  <2> QED
    BY <1>1, <1>2, <2>1, <2>2, PartsOfHome, FreshPage
<1> QED
  BY <1>3, <1>4

\* The page is closed by logging out, here or by an answer.
LEMMA LoggedOut ==
  ASSUME HomeInv, NEW rs \in SUBSET requests, store' = NoStore, screen' = "login", home' = NewHome,
         above' \in PagesAbove, requests' = Orphans(rs), behind' = FALSE, crossed' \in BOOLEAN,
         redirecting' \in BOOLEAN, expiries' = expiries
  PROVE  HomeInv'
<1>1. \A r \in requests' : r \in HomeRequests /\ r.gone /\ ~ IsLoad(r)
  BY PartsOfHome, OrphansAreNoLoads
<1> QED
  BY <1>1, BlankPages, PartsOfHome, FreshPage

LEMMA LogOutKeeps ==
  ASSUME HomeInv, LogOut
  PROVE  HomeInv'
BY LoggedOut, PartsOfHome DEF LogOut, Leave

LEMMA LogOutByAnswerKeeps ==
  ASSUME HomeInv, NEW r \in requests, Unauthorized(r) \/ TakeNoProjects(r)
  PROVE  HomeInv'
<1>1. requests \ {r} \in SUBSET requests
  OBVIOUS
<1>2. /\ store' = NoStore /\ screen' = "login" /\ home' = NewHome /\ requests' = Orphans(requests \ {r})
      /\ behind' = FALSE /\ expiries' = expiries /\ crossed' = (crossed \/ store.token # r.who)
      /\ above' = <<>> /\ (redirecting' = TRUE \/ redirecting' = redirecting)
  BY DEF Unauthorized, TakeNoProjects
<1>3. above' \in PagesAbove /\ redirecting' \in BOOLEAN /\ crossed' \in BOOLEAN
  <2>1. above' \in PagesAbove
    BY <1>2 DEF PagesAbove
  <2>2. redirecting' \in BOOLEAN
    BY <1>2, PartsOfHome
  <2>3. (crossed \/ store.token # r.who) \in BOOLEAN
    OBVIOUS
  <2> QED
    BY <1>2, <2>1, <2>2, <2>3
<1> QED
  BY <1>1, <1>2, <1>3, LoggedOut

LEMMA OpenProfileKeeps ==
  ASSUME HomeInv, OpenProfile
  PROVE  HomeInv'
<1>1. PICK p \in Projects : store' = [store EXCEPT !.selected = p]
  BY DEF OpenProfile
<1>2. store' \in Stores /\ store'.token = store.token
  BY <1>1, PartsOfHome DEF Stores
<1>3. screen' = "profile" /\ behind' = FALSE /\ home' = NewHome /\ requests' = Orphans(requests)
      /\ UNCHANGED <<above, expiries, redirecting, crossed>>
  BY DEF OpenProfile, Leave
<1>4. \A r \in requests' : r \in HomeRequests /\ r.gone /\ ~ IsLoad(r)
  BY <1>3, PartsOfHome, OrphansAreNoLoads
<1> QED
  BY <1>2, <1>3, <1>4, BlankPages, PartsOfHome, FreshPage

LEMMA GoHomeKeeps ==
  ASSUME HomeInv, GoHome
  PROVE  HomeInv'
<1>1. /\ store \in Stores /\ \A r \in requests : r \in HomeRequests /\ r.gone /\ ~ IsLoad(r)
      /\ UNCHANGED <<store, above, expiries, redirecting, behind, crossed>>
  BY PartsOfHome DEF GoHome, On, HomeInv, AwayIsQuiet, IsLoad
<1>2. CASE store.token = NULL
  <2>1. screen' = "login" /\ home' = NewHome /\ requests' = requests
    BY <1>2 DEF GoHome
  <2> QED
    BY <1>1, <2>1, BlankPages, PartsOfHome, FreshPage
<1>3. CASE store.token # NULL
  <2>1. home' \in HomePages /\ home'.selected = NULL /\ home'.options = {} /\ home'.busy = FALSE
    BY <1>3, BlankHome DEF GoHome
  <2>2. requests' = requests \cup {Asked("projects", NULL)} /\ screen' = "home"
    BY <1>3 DEF GoHome, Asking, AskProjects
  <2>3. Asked("projects", NULL) \in HomeRequests /\ ~ IsLoad(Asked("projects", NULL))
    BY <1>1, AskedIsARequest DEF IsLoad
  <2>4. \A r \in requests' : r \in HomeRequests /\ ~ IsLoad(r)
    BY <1>1, <2>2, <2>3
  <2> QED
    BY <1>1, <2>1, <2>2, <2>4, PartsOfHome, FreshPage
<1> QED
  BY <1>2, <1>3

LEMMA TokenExpiresKeeps ==
  ASSUME HomeInv, TokenExpires
  PROVE  HomeInv'
<1>1. store' \in Stores /\ store'.token = store.token /\ store'.selected = store.selected
  BY PartsOfHome DEF TokenExpires, Stores
<1>2. expiries' \in 0..MaxExpiries
  BY PartsOfHome, MiniHomeAssumption DEF TokenExpires
<1>3. MiniHomeTypeOK' /\ Requested'
  BY <1>1, <1>2, PartsOfHome, HomeIsTyped DEF TokenExpires
<1> QED
  BY <1>1, <1>3 DEF TokenExpires, HomeInv, AwayIsQuiet, OneLoad, CountsAreOfTheProject, ProjectIsStored
-----------------------------------------------------------------------------
Loads(rs) == {r \in rs : IsLoad(r)}

\* No load begins or ends.
LEMMA LoadGoesOn ==
  ASSUME HomeInv, Loads(requests') = Loads(requests), home'.busy = home.busy
  PROVE  OneLoad'
BY DEF HomeInv, OneLoad, Loads

\* A load begins where there was none.
LEMMA LoadBegins ==
  ASSUME HomeInv, ~ home.busy, home'.busy = TRUE, NEW l, IsLoad(l), Loads(requests') = Loads(requests) \cup {l}
  PROVE  OneLoad' /\ \A r \in requests' : IsLoad(r) => r = l
BY DEF HomeInv, OneLoad, Loads

\* What is left to show where neither login nor logout changes the page.
LEMMA PageMoves ==
  ASSUME HomeInv, store' \in Stores, screen' = "home", above' \in PagesAbove, home' \in HomePages,
         requests' \subseteq HomeRequests, UNCHANGED <<expiries, redirecting>>,
         behind' \in BOOLEAN, crossed' \in BOOLEAN,
         OneLoad', CountsAreOfTheProject', ProjectIsStored'
  PROVE  HomeInv'
<1>1. MiniHomeTypeOK' /\ Requested'
  BY PartsOfHome, HomeIsTyped
<1> QED
  BY <1>1 DEF HomeInv, AwayIsQuiet

LEMMA AskStatsIsALoad ==
  ASSUME HomeInv, NEW p \in Projects \cup {NULL}
  PROVE  LET l == Asked("stats", p)
         IN  l \in HomeRequests /\ IsLoad(l) /\ l.project = p /\ Loads(requests \cup {l}) = Loads(requests) \cup {l}
<1>1. Asked("stats", p) \in HomeRequests /\ IsLoad(Asked("stats", p)) /\ Asked("stats", p).project = p
  BY PartsOfHome, AskedIsARequest DEF IsLoad
<1> QED
  BY <1>1 DEF Loads

LEMMA ShowKeeps ==
  ASSUME HomeInv, Show
  PROVE  HomeInv'
<1>1. screen = "home" /\ UNCHANGED <<store, screen, above, expiries, redirecting, behind, crossed>>
  BY DEF Show, On
<1>2. CASE home.options = {}
  <2>1. home' = [home EXCEPT !.loading = TRUE] /\ requests' = requests \cup {Asked("projects", NULL)}
    BY <1>2 DEF Show, Asking, AskProjects
  <2>2. /\ home' \in HomePages /\ home'.busy = home.busy /\ home'.selected = home.selected
        /\ home'.options = home.options /\ home'.stats = home.stats
    BY <2>1, PartsOfHome DEF HomePages
  <2>3. Asked("projects", NULL) \in HomeRequests /\ ~ IsLoad(Asked("projects", NULL))
    BY <1>1, PartsOfHome, AskedIsARequest DEF IsLoad
  <2>4. Loads(requests') = Loads(requests)
    BY <2>1, <2>3 DEF Loads
  <2>5. OneLoad'
    BY <2>2, <2>4, LoadGoesOn
  <2>6. CountsAreOfTheProject' /\ ProjectIsStored'
    BY <1>1, <2>1, <2>2, <2>3 DEF HomeInv, CountsAreOfTheProject, ProjectIsStored
  <2> QED
    BY <1>1, <2>1, <2>2, <2>3, <2>5, <2>6, PartsOfHome, PageMoves
<1>3. CASE home.options # {}
  <2> DEFINE l == Asked("stats", home.selected)
  <2>1. ~home.busy /\ home' = [home EXCEPT !.busy = TRUE] /\ requests' = requests \cup {l}
    BY <1>3 DEF Show, Asking, AskStats
  <2>2. /\ home' \in HomePages /\ home'.busy = TRUE /\ home'.selected = home.selected
        /\ home'.options = home.options /\ home.selected \in Projects \cup {NULL}
    BY <2>1, PartsOfHome DEF HomePages
  <2>3. l \in HomeRequests /\ IsLoad(l) /\ l.project = home.selected /\ Loads(requests') = Loads(requests) \cup {l}
    BY <1>1, <2>1, <2>2, AskStatsIsALoad
  <2> HIDE DEF l
  <2>4. OneLoad' /\ \A r \in requests' : IsLoad(r) => r = l
    BY <2>1, <2>2, <2>3, LoadBegins
  <2>5. CountsAreOfTheProject'
    BY <2>2, <2>3, <2>4 DEF CountsAreOfTheProject
  <2>6. ProjectIsStored'
    BY <1>1, <2>2 DEF HomeInv, ProjectIsStored
  <2> QED
    BY <1>1, <2>1, <2>2, <2>3, <2>4, <2>5, <2>6, PartsOfHome, PageMoves
<1> QED
  BY <1>2, <1>3

\* The page turns to a project, and its counts are loaded unless others are.
LEMMA ProjectTurns ==
  ASSUME HomeInv, NEW p \in Projects, NEW rs \in SUBSET requests, Loads(rs) = Loads(requests),
         store' \in Stores, store'.token = store.token, store'.selected = p,
         home' \in HomePages, home'.selected = p, home'.busy = TRUE,
         requests' = rs \cup (IF home.busy THEN {} ELSE AskStats(p)), behind' = (behind \/ home.busy)
  PROVE  OneLoad' /\ CountsAreOfTheProject' /\ requests' \subseteq HomeRequests
<1> DEFINE l == Asked("stats", p)
<1>1. l \in HomeRequests /\ IsLoad(l) /\ l.project = p
  BY PartsOfHome, AskedIsARequest DEF IsLoad
<1>2. home.busy \in BOOLEAN
  BY PartsOfHome DEF HomePages
<1>3. CASE home.busy
  <2>1. requests' = rs /\ Loads(requests') = Loads(requests)
    BY <1>3
  <2> QED
    BY <1>3, <2>1, PartsOfHome, LoadGoesOn DEF CountsAreOfTheProject
<1>4. CASE ~ home.busy
  <2>1. requests' = rs \cup {l}
    BY <1>4 DEF AskStats
  <2> HIDE DEF l
  <2>2. Loads(requests') = Loads(requests) \cup {l}
    BY <1>1, <2>1 DEF Loads
  <2>3. OneLoad' /\ \A r \in requests' : IsLoad(r) => r = l
    BY <1>1, <1>4, <2>2, LoadBegins
  <2> QED
    BY <1>1, <2>1, <2>3, PartsOfHome DEF CountsAreOfTheProject
<1> QED
  BY <1>2, <1>3, <1>4

LEMMA SelectProjectKeeps ==
  ASSUME HomeInv, NEW p \in Projects, SelectProject(p)
  PROVE  HomeInv'
<1>1. /\ screen = "home" /\ p \in home.options /\ UNCHANGED <<screen, above, expiries, redirecting, crossed>>
      /\ store' = [store EXCEPT !.selected = p] /\ home' = [home EXCEPT !.selected = p, !.busy = TRUE]
      /\ behind' = (behind \/ home.busy)
      /\ requests' = requests \cup (IF home.busy THEN {} ELSE AskStats(p))
  BY DEF SelectProject, Asking, On
<1>3. store' \in Stores /\ store'.token = store.token /\ store'.selected = p
  BY <1>1, PartsOfHome DEF Stores
<1>4. home' \in HomePages /\ home'.selected = p /\ home'.busy = TRUE /\ home'.options = home.options
  BY <1>1, PartsOfHome DEF HomePages
<1>5. OneLoad' /\ CountsAreOfTheProject' /\ requests' \subseteq HomeRequests
  BY <1>1, <1>3, <1>4, ProjectTurns
<1>6. ProjectIsStored'
  BY <1>1, <1>3, <1>4 DEF HomeInv, ProjectIsStored
<1>7. behind' \in BOOLEAN
  BY <1>1, PartsOfHome DEF HomePages
<1> QED
  BY <1>1, <1>3, <1>4, <1>5, <1>6, <1>7, PartsOfHome, PageMoves

\* Where a project is needed, it is the stored one, if there is one.
LEMMA SelectedIsStored ==
  ASSUME HomeInv, NEW p \in Projects, Selected(p), store' = [store EXCEPT !.selected = p]
  PROVE  store' \in Stores /\ store'.token = store.token /\ (store.selected # NULL => store'.selected = store.selected)
BY PartsOfHome DEF Selected, Stores

LEMMA OpenModuleKeeps ==
  ASSUME HomeInv, OpenModule
  PROVE  HomeInv'
<1>1. PICK p \in Projects : Selected(p) /\ store' = [store EXCEPT !.selected = p]
  BY DEF OpenModule
<1>2. /\ screen = "home" /\ above' = <<"module">>
      /\ UNCHANGED <<screen, home, requests, expiries, redirecting, behind, crossed>>
  BY DEF OpenModule, On
<1>6. above' \in PagesAbove
  BY <1>2 DEF PagesAbove
<1>3. store' \in Stores /\ store'.token = store.token /\ (store.selected # NULL => store'.selected = store.selected)
  BY <1>1, SelectedIsStored
<1>4. OneLoad' /\ CountsAreOfTheProject'
  BY <1>2 DEF HomeInv, OneLoad, CountsAreOfTheProject
<1>5. ProjectIsStored'
  BY <1>2, <1>3 DEF HomeInv, ProjectIsStored
<1> QED
  BY <1>2, <1>3, <1>4, <1>5, <1>6, PartsOfHome, PageMoves

LEMMA AskMachineKeeps ==
  ASSUME HomeInv, AskMachine
  PROVE  HomeInv'
<1>1. PICK p \in Projects : /\ Selected(p) /\ store' = [store EXCEPT !.selected = p]
                            /\ home' = [home EXCEPT !.access = p]
                            /\ requests' = requests \cup {Asked("points", p)}
  BY DEF AskMachine, Asking
<1>2. screen = "home" /\ UNCHANGED <<screen, above, expiries, redirecting, behind, crossed>>
  BY DEF AskMachine, On
<1>3. store' \in Stores /\ store'.token = store.token /\ (store.selected # NULL => store'.selected = store.selected)
  BY <1>1, SelectedIsStored
<1>4. /\ home' \in HomePages /\ home'.busy = home.busy /\ home'.selected = home.selected
      /\ home'.options = home.options /\ home'.stats = home.stats
  BY <1>1, PartsOfHome DEF HomePages
<1>5. Asked("points", p) \in HomeRequests /\ ~ IsLoad(Asked("points", p))
  BY PartsOfHome, AskedIsARequest DEF IsLoad
<1>6. Loads(requests') = Loads(requests)
  BY <1>1, <1>5 DEF Loads
<1>7. OneLoad'
  BY <1>4, <1>6, LoadGoesOn
<1>8. CountsAreOfTheProject'
  BY <1>1, <1>2, <1>4, <1>5 DEF HomeInv, CountsAreOfTheProject
<1>9. ProjectIsStored'
  BY <1>2, <1>3, <1>4 DEF HomeInv, ProjectIsStored
<1> QED
  BY <1>1, <1>2, <1>3, <1>4, <1>5, <1>7, <1>8, <1>9, PartsOfHome, PageMoves
-----------------------------------------------------------------------------
\* An answer that leaves the screen as it is.
LEMMA AnswerMoves ==
  ASSUME HomeInv, store' \in Stores, UNCHANGED <<screen, expiries>>, above' \in PagesAbove,
         home' \in HomePages, requests' \subseteq requests,
         redirecting' \in BOOLEAN, behind' \in BOOLEAN, crossed' \in BOOLEAN,
         OneLoad', CountsAreOfTheProject', ProjectIsStored'
  PROVE  HomeInv'
<1>1. MiniHomeTypeOK' /\ Requested'
  BY PartsOfHome, HomeIsTyped
<1> QED
  BY <1>1 DEF HomeInv, AwayIsQuiet

LEMMA BackKeeps ==
  ASSUME HomeInv, Back
  PROVE  HomeInv'
<1>1. UNCHANGED <<store, screen, home, requests, expiries, redirecting, behind, crossed>>
  BY DEF Back
<1>2. above' \in PagesAbove
  <2>1. above \in Seq({"module", "points"}) /\ above # <<>> /\ above' = SubSeq(above, 1, Len(above) - 1)
    BY PartsOfHome DEF Back, PagesAbove
  <2>2. Len(above) \in Nat /\ \A i \in 1..(Len(above) - 1) : i \in 1..Len(above)
    BY <2>1, LenProperties
  <2> QED
    BY <2>1, <2>2, SubSeqProperties DEF PagesAbove
<1>3. OneLoad' /\ CountsAreOfTheProject' /\ ProjectIsStored'
  BY <1>1 DEF HomeInv, OneLoad, CountsAreOfTheProject, ProjectIsStored
<1> QED
  BY <1>1, <1>2, <1>3, PartsOfHome, AnswerMoves

LEMMA SecondPassesKeeps ==
  ASSUME HomeInv, SecondPasses
  PROVE  HomeInv'
<1>1. redirecting' = FALSE /\ UNCHANGED <<store, screen, above, home, requests, expiries, behind, crossed>>
  BY DEF SecondPasses
<1>2. OneLoad' /\ CountsAreOfTheProject' /\ ProjectIsStored'
  BY <1>1 DEF HomeInv, OneLoad, CountsAreOfTheProject, ProjectIsStored
<1> QED
  BY <1>1, <1>2, PartsOfHome, AnswerMoves

\* One that is no load is taken away.
LEMMA OtherHeard ==
  ASSUME HomeInv, NEW r \in requests, ~ IsLoad(r), Heard(r), home'.busy = home.busy
  PROVE  OneLoad' /\ requests' \subseteq requests /\ Loads(requests') = Loads(requests)
<1>1. Loads(requests') = Loads(requests) /\ requests' \subseteq requests
  BY DEF Heard, Loads
<1> QED
  BY <1>1, LoadGoesOn

\* The load is taken away, and none is left.
LEMMA LoadHeard ==
  ASSUME HomeInv, NEW r \in requests, IsLoad(r), Heard(r), home'.busy = FALSE
  PROVE  OneLoad' /\ requests' \subseteq requests /\ \A q \in requests' : ~ IsLoad(q)
BY DEF Heard, HomeInv, OneLoad

LEMMA TakeProjectsKeeps ==
  ASSUME HomeInv, NEW r \in requests, TakeProjects(r)
  PROVE  HomeInv'
<1>1. r \in HomeRequests /\ r.who \in Users /\ Managed[r.who] \in SUBSET Projects /\ ~ IsLoad(r)
  <2>1. r \in HomeRequests /\ ~ r.expired /\ r.kind = "projects"
    BY PartsOfHome DEF TakeProjects
  <2>2. r.who \in Users
    BY <2>1 DEF HomeRequests
  <2> QED
    BY <2>1, <2>2, MiniHomeAssumption DEF IsLoad
<1>2. PICK p \in Managed[r.who] :
        /\ (store.selected \in Managed[r.who]) => p = store.selected
        /\ store' = [store EXCEPT !.selected = p]
        /\ IF r.gone
             THEN Heard(r) /\ UNCHANGED <<home, behind>>
             ELSE /\ home' = [home EXCEPT !.loading = FALSE, !.options = Managed[r.who],
                                          !.selected = p, !.busy = TRUE]
                  /\ requests' = (requests \ {r}) \cup (IF home.busy THEN {} ELSE AskStats(p))
                  /\ behind' = (behind \/ home.busy)
  BY DEF TakeProjects
<1>3. /\ p \in Projects /\ crossed' = (crossed \/ store.token # r.who)
      /\ UNCHANGED <<screen, above, expiries, redirecting>>
  BY <1>1 DEF TakeProjects
<1>4. store' \in Stores /\ store'.token = store.token /\ store'.selected = p
  BY <1>2, <1>3, PartsOfHome DEF Stores
<1>5. crossed' \in BOOLEAN
  BY <1>3, PartsOfHome
<1>6. CASE r.gone
  <2>1. Heard(r) /\ UNCHANGED <<home, behind>>
    BY <1>2, <1>6
  <2>2. OneLoad' /\ requests' \subseteq requests
    BY <1>1, <2>1, OtherHeard
  <2>3. CountsAreOfTheProject'
    BY <2>1, <2>2 DEF HomeInv, CountsAreOfTheProject
  <2>4. ProjectIsStored'
    BY <1>2, <1>3, <1>4, <2>1 DEF HomeInv, ProjectIsStored
  <2> QED
    BY <1>3, <1>4, <1>5, <2>1, <2>2, <2>3, <2>4, PartsOfHome, AnswerMoves
<1>7. CASE ~ r.gone
  <2>1. screen = "home"
    BY <1>7, PartsOfHome DEF HomeInv, AwayIsQuiet
  <2>2. /\ home' = [home EXCEPT !.loading = FALSE, !.options = Managed[r.who], !.selected = p, !.busy = TRUE]
        /\ requests' = (requests \ {r}) \cup (IF home.busy THEN {} ELSE AskStats(p))
        /\ behind' = (behind \/ home.busy)
    BY <1>2, <1>7
  <2>3. home' \in HomePages /\ home'.selected = p /\ home'.busy = TRUE /\ home'.options = Managed[r.who]
    BY <1>1, <1>3, <2>2, PartsOfHome DEF HomePages
  <2>4. requests \ {r} \in SUBSET requests /\ Loads(requests \ {r}) = Loads(requests)
    BY <1>1 DEF Loads
  <2>5. OneLoad' /\ CountsAreOfTheProject' /\ requests' \subseteq HomeRequests
    BY <1>3, <1>4, <2>1, <2>2, <2>3, <2>4, ProjectTurns
  <2>6. ProjectIsStored'
    BY <1>1, <1>3, <1>4, <2>1, <2>3 DEF HomeInv, ProjectIsStored
  <2>7. behind' \in BOOLEAN
    BY <2>2, PartsOfHome DEF HomePages
  <2> QED
    BY <1>3, <1>4, <1>5, <2>1, <2>3, <2>5, <2>6, <2>7, PartsOfHome, PageMoves
<1> QED
  BY <1>6, <1>7

LEMMA TakeStatsKeeps ==
  ASSUME HomeInv, NEW r \in requests, TakeStats(r)
  PROVE  HomeInv'
<1>1. /\ r \in HomeRequests /\ Heard(r) /\ UNCHANGED <<store, screen, above, expiries, redirecting, crossed>>
      /\ r.kind = "stats" /\ behind' = (behind /\ (r.gone \/ r.project # home.selected))
  BY PartsOfHome DEF TakeStats
<1>2. behind' \in BOOLEAN
  BY <1>1, PartsOfHome
<1>3. CASE r.gone
  <2>1. home' = home /\ ~ IsLoad(r)
    BY <1>3 DEF TakeStats, IsLoad
  <2>2. OneLoad' /\ requests' \subseteq requests
    BY <1>1, <2>1, OtherHeard
  <2>3. CountsAreOfTheProject' /\ ProjectIsStored'
    BY <1>1, <1>3, <2>1, <2>2 DEF HomeInv, CountsAreOfTheProject, ProjectIsStored
  <2> QED
    BY <1>1, <1>2, <2>1, <2>2, <2>3, PartsOfHome, AnswerMoves
<1>4. CASE ~ r.gone
  <2>1. home' = [home EXCEPT !.stats = r.project, !.busy = FALSE] /\ IsLoad(r)
    BY <1>1, <1>4 DEF TakeStats, IsLoad
  <2>2. /\ home' \in HomePages /\ home'.stats = r.project /\ home'.busy = FALSE
        /\ home'.selected = home.selected /\ home'.options = home.options
    BY <1>1, <2>1, PartsOfHome DEF HomePages, HomeRequests
  <2>3. OneLoad' /\ requests' \subseteq requests /\ \A q \in requests' : ~ IsLoad(q)
    BY <1>1, <2>1, <2>2, LoadHeard
  <2>4. CountsAreOfTheProject'
    BY <1>1, <1>4, <2>1, <2>2, <2>3 DEF HomeInv, CountsAreOfTheProject
  <2>5. ProjectIsStored'
    BY <1>1, <2>2 DEF HomeInv, ProjectIsStored
  <2> QED
    BY <1>1, <1>2, <2>2, <2>3, <2>4, <2>5, PartsOfHome, AnswerMoves
<1> QED
  BY <1>3, <1>4

\* A page that hears of a failure still waits for one load of counts or none.
LEMMA FailedKeeps ==
  ASSUME HomeInv, NEW r \in requests, Failed(r)
  PROVE  /\ home' \in HomePages /\ home'.selected = home.selected /\ home'.options = home.options
         /\ behind' \in BOOLEAN /\ requests' \subseteq requests /\ OneLoad' /\ CountsAreOfTheProject'
<1>1. r \in HomeRequests /\ Heard(r) /\ behind' = (behind \/ (r.kind = "stats" /\ ~r.gone))
  BY PartsOfHome DEF Failed
<1>2. behind' \in BOOLEAN
  BY <1>1, PartsOfHome
<1>3. CASE IsLoad(r)
  <2>1. home' = [home EXCEPT !.busy = FALSE]
    BY <1>3 DEF Failed, IsLoad
  <2>2. /\ home' \in HomePages /\ home'.busy = FALSE
        /\ home'.selected = home.selected /\ home'.options = home.options
    BY <2>1, PartsOfHome DEF HomePages
  <2>3. OneLoad' /\ requests' \subseteq requests
    BY <1>1, <1>3, <2>2, LoadHeard
  <2>4. CountsAreOfTheProject'
    BY <1>1, <1>3 DEF CountsAreOfTheProject, IsLoad
  <2> QED
    BY <1>2, <2>2, <2>3, <2>4
<1>4. CASE ~ IsLoad(r)
  <2>1. /\ home' \in HomePages /\ home'.busy = home.busy /\ home'.stats = home.stats
        /\ home'.selected = home.selected /\ home'.options = home.options
    <3>1. r.gone \/ r.kind = "projects" \/ r.kind = "points"
      BY <1>1, <1>4 DEF IsLoad, HomeRequests
    <3>2. home' \in {home, [home EXCEPT !.loading = FALSE], [home EXCEPT !.access = NULL]}
      BY <3>1 DEF Failed
    <3> QED
      BY <3>2, PartsOfHome DEF HomePages
  <2>2. OneLoad' /\ requests' \subseteq requests
    BY <1>1, <1>4, <2>1, OtherHeard
  <2>3. CountsAreOfTheProject'
    BY <1>1, <1>4, <2>1, <2>2 DEF HomeInv, CountsAreOfTheProject, IsLoad
  <2> QED
    BY <1>2, <2>1, <2>2, <2>3
<1> QED
  BY <1>3, <1>4

LEMMA FailRequestKeeps ==
  ASSUME HomeInv, NEW r \in requests, FailRequest(r)
  PROVE  HomeInv'
<1>1. Failed(r) /\ UNCHANGED <<store, screen, above, expiries, redirecting, crossed>>
  BY DEF FailRequest
<1>2. /\ home' \in HomePages /\ home'.selected = home.selected /\ home'.options = home.options
      /\ behind' \in BOOLEAN /\ requests' \subseteq requests /\ OneLoad' /\ CountsAreOfTheProject'
  BY <1>1, FailedKeeps
<1>3. ProjectIsStored'
  BY <1>1, <1>2 DEF HomeInv, ProjectIsStored
<1> QED
  BY <1>1, <1>2, <1>3, PartsOfHome, AnswerMoves

\* The keys are gone, and the page is not: after that nothing is said of the stored project.
LEMMA UnauthorizedAgainKeeps ==
  ASSUME HomeInv, NEW r \in requests, UnauthorizedAgain(r)
  PROVE  HomeInv'
<1>1. /\ Failed(r) /\ store' = NoStore /\ crossed' = TRUE
      /\ UNCHANGED <<screen, above, expiries, redirecting>>
  BY DEF UnauthorizedAgain
<1>2. /\ home' \in HomePages /\ behind' \in BOOLEAN /\ requests' \subseteq requests
      /\ OneLoad' /\ CountsAreOfTheProject'
  BY <1>1, FailedKeeps
<1>3. ProjectIsStored' /\ store' \in Stores
  BY <1>1, BlankPages DEF ProjectIsStored
<1> QED
  BY <1>1, <1>2, <1>3, PartsOfHome, AnswerMoves

LEMMA TakePointsKeeps ==
  ASSUME HomeInv, NEW r \in requests, TakePoints(r)
  PROVE  HomeInv'
<1>1. Heard(r) /\ UNCHANGED <<store, screen, expiries, redirecting, behind, crossed>> /\ ~ IsLoad(r)
  BY DEF TakePoints, IsLoad
<1>2. /\ home' \in {home, [home EXCEPT !.access = NULL]}
      /\ above' \in {above, Append(above, "points")}
  BY DEF TakePoints
<1>3. /\ home' \in HomePages /\ home'.busy = home.busy /\ home'.stats = home.stats
      /\ home'.selected = home.selected /\ home'.options = home.options
  BY <1>2, PartsOfHome DEF HomePages
<1>4. OneLoad' /\ requests' \subseteq requests
  BY <1>1, <1>3, OtherHeard
<1>5. CountsAreOfTheProject' /\ ProjectIsStored'
  BY <1>1, <1>3, <1>4 DEF HomeInv, CountsAreOfTheProject, ProjectIsStored
<1>6. above' \in PagesAbove
  BY <1>2, PartsOfHome DEF PagesAbove
<1> QED
  BY <1>1, <1>3, <1>4, <1>5, <1>6, PartsOfHome, AnswerMoves

LEMMA HomeInvStep == HomeInv /\ [MiniHomeNext]_homeVars => HomeInv'
<1> SUFFICES ASSUME HomeInv, [MiniHomeNext]_homeVars PROVE HomeInv'
  OBVIOUS
<1>1. ASSUME NEW u \in Users, SubmitLogin(u) PROVE HomeInv'
  BY <1>1, SubmitLoginKeeps
<1>2. ASSUME NEW p \in Projects, SelectProject(p) PROVE HomeInv'
  BY <1>2, SelectProjectKeeps
<1>3. ASSUME NEW r \in requests,
             \/ Unauthorized(r) \/ UnauthorizedAgain(r) \/ TakeProjects(r) \/ TakeNoProjects(r)
             \/ TakeStats(r) \/ FailRequest(r) \/ TakePoints(r)
      PROVE  HomeInv'
  BY <1>3, LogOutByAnswerKeeps, UnauthorizedAgainKeeps, TakeProjectsKeeps, TakeStatsKeeps, FailRequestKeeps,
     TakePointsKeeps
<1>4. CASE Relaunch \/ TokenExpires \/ LogOut \/ OpenProfile \/ GoHome \/ Show
  BY <1>4, RelaunchKeeps, TokenExpiresKeeps, LogOutKeeps, OpenProfileKeeps, GoHomeKeeps, ShowKeeps
<1>5. CASE AskMachine \/ Back \/ OpenModule \/ SecondPasses
  BY <1>5, AskMachineKeeps, BackKeeps, OpenModuleKeeps, SecondPassesKeeps
<1>6. CASE UNCHANGED homeVars
  BY <1>6 DEF homeVars, HomeInv, MiniHomeTypeOK, Requested, AwayIsQuiet, OneLoad, CountsAreOfTheProject, ProjectIsStored
<1> QED
  BY <1>1, <1>2, <1>3, <1>4, <1>5, <1>6 DEF MiniHomeNext, AnswerComes

LEMMA HomeInvSuffices == HomeInv => HomeIsOfOneProject
BY DEF HomeInv, CountsAreOfTheProject, ProjectIsStored, HomeIsOfOneProject

-----------------------------------------------------------------------------
(***************************************************************************)
(* The lists of the mini program, for any rows, filters and taps, and any  *)
(* number of requests and changes on their way.                            *)
(***************************************************************************)

ListRecords == [id : Rows, ver : 0..MaxSaves]
RowRequests == [why : {"reload", "more", "after"}, filter : Filters, page : Nat \ {0}, read : BOOLEAN,
                rows : Seq(ListRecords), total : Nat]

\* The rows of the filter that is chosen, as the server has them now.
FoundNow == InOrder(here \cap AskedRows(filter))
FoundCount == Cardinality(here \cap AskedRows(filter))

\* The page has not been told yet that a row is gone.
Removing == write.stage = "done" /\ write.remove

\* Only additional rows are on their way: those there are stay.
OnlyMore == \A q \in loads : q.why = "more"

RowForms == [open : BOOLEAN, id : Rows \cup {0}, ver : 0..MaxSaves, doubtful : BOOLEAN]
RowWrites == [stage : {"none", "sent", "done", "refused", "loading"}, id : Rows \cup {0}, remove : BOOLEAN]

MiniListTyped ==
  /\ kind \in ListPages
  /\ here \subseteq Rows
  /\ ver \in [Rows -> 0..MaxSaves] /\ told \in [Rows -> 0..MaxSaves]
  /\ list \in [rows : Seq(ListRecords), more : BOOLEAN]
  /\ filter \in Filters
  /\ loading \in BOOLEAN /\ loadingMore \in BOOLEAN
  /\ stale \in BOOLEAN /\ typed \in BOOLEAN
  /\ loads \subseteq RowRequests
  /\ form \in RowForms /\ write \in RowWrites
  /\ taps \in 0..MaxTaps

\* A change, and an open form, is of a row, and the page is told of nothing that was not saved.
ChangesAreOfRows ==
  /\ write.stage # "none" => write.id \in Rows
  /\ form.open => form.id \in Rows
  /\ \A r \in Rows : told[r] <= ver[r]

\* Unless loads crossed there is one at a time. It is for the filter that is chosen, if no
\* word was typed since, and continues the rows there are, and that after a change keeps
\* the change on its way.
LoadFitsTheList ==
  ~stale => /\ \A p, q \in loads : p = q
            /\ \A q \in loads : /\ ~typed => q.filter = filter
                                /\ q.page = IF q.why = "more" THEN Len(list.rows) + 1 ELSE 1
                                /\ q.why = "after" => write.stage = "loading"

\* Rows that are shown, or were answered, have the user's own changes.
OwnChanges(rs) == \A i \in DOMAIN rs : rs[i].ver >= told[rs[i].id]

RowsHaveOwnChanges ==
  ~stale => /\ OnlyMore => OwnChanges(list.rows)
            /\ \A q \in loads : q.read => OwnChanges(q.rows)

\* The list is the first of the rows there are, and what was answered continues it.
ListIsFirstRows ==
  ~stale /\ ~typed /\ ~Removing /\ OnlyMore =>
     /\ Len(list.rows) <= FoundCount
     /\ \A i \in 1..Len(list.rows) : list.rows[i].id = FoundNow[i]
     /\ list.more <=> Len(list.rows) < FoundCount

AnswerIsOfRowsThere ==
  ~stale /\ ~typed /\ ~Removing =>
     \A q \in loads : q.read =>
        /\ q.total = FoundCount
        /\ Len(q.rows) = IF q.page <= FoundCount THEN 1 ELSE 0
        /\ \A i \in 1..Len(q.rows) : q.rows[i].id = FoundNow[q.page]

\* The property, which is inductive with the rest.
ListInv ==
  /\ MiniListTyped /\ ChangesAreOfRows /\ LoadFitsTheList /\ RowsHaveOwnChanges
  /\ ListIsFirstRows /\ AnswerIsOfRowsThere /\ EditsStartFromOwnChanges

LEMMA LoadThatWasRead ==
  ASSUME NEW q \in RowRequests, NEW n \in Nat, NEW rs \in Seq(ListRecords), NEW p,
         p = [q EXCEPT !.read = TRUE, !.total = n, !.rows = rs]
  PROVE  /\ p \in RowRequests /\ p.read = TRUE /\ p.total = n /\ p.rows = rs
         /\ p.why = q.why /\ p.filter = q.filter /\ p.page = q.page
BY DEF RowRequests

\* A page of the rows, of one row or none.
LEMMA SliceIsRows ==
  ASSUME NEW n \in Nat, NEW s \in [1..n -> ListRecords], NEW p \in Nat \ {0}
  PROVE  /\ Slice(s, p) \in Seq(ListRecords)
         /\ Len(Slice(s, p)) = IF p <= n THEN 1 ELSE 0
         /\ \A i \in 1..Len(Slice(s, p)) : Slice(s, p)[i] = s[p] /\ p \in 1..n
<1>1. CASE p <= n
  <2>1. p \in 1..n /\ s[p] \in ListRecords
    BY <1>1
  <2>2. Slice(s, p) = <<s[p]>>
    BY <2>1 DEF Slice
  <2>3. <<s[p]>> \in [1..1 -> ListRecords]
    BY <2>1
  <2>4. <<s[p]>> \in Seq(ListRecords) /\ Len(<<s[p]>>) = 1 /\ <<s[p]>>[1] = s[p]
    BY <2>3
  <2> QED
    BY <1>1, <2>1, <2>2, <2>4
<1>2. CASE ~ p <= n
  <2>1. Slice(s, p) = <<>>
    BY <1>2 DEF Slice
  <2> QED
    BY <1>2, <2>1
<1> QED
  BY <1>1, <1>2

\* The rows that a request finds.
LEMMA RowsThatAreFound ==
  ASSUME MiniListTyped, NEW f \in Filters,
         NEW n, n = Cardinality(here \cap AskedRows(f)),
         NEW s, s = InOrder(here \cap AskedRows(f))
  PROVE  n \in Nat /\ Len(s) = n /\ s \in [1..n -> Rows]
<1> DEFINE K == here \cap AskedRows(f)
<1>1. K \subseteq Rows /\ K \in SUBSET Nat
  BY MiniListAssumption DEF MiniListTyped
<1>2. IsFiniteSet(K) /\ n \in Nat
  BY <1>1, MiniListAssumption, FS_Subset, FS_CardinalityType
<1>3. s \in [1..n -> K]
  BY <1>1, <1>2, InOrderLists
<1>4. s \in [1..n -> Rows] /\ DOMAIN s = 1..n
  BY <1>1, <1>3
<1> HIDE DEF K
<1>5. Len(s) = n
  BY <1>2, <1>4
<1> QED
  BY <1>2, <1>4, <1>5

\* What is typed here is what the module calls typed.
LEMMA ListIsTyped ==
  ASSUME MiniListTyped
  PROVE  MiniListTypeOK
<1>1. list.rows \in RowsRead /\ list.more \in BOOLEAN
  BY DEF MiniListTyped, RowsRead, ListRecords
<1>2. ASSUME NEW q \in loads
      PROVE  /\ q.why \in {"reload", "more", "after"} /\ q.filter \in Filters
             /\ q.page \in Nat \ {0} /\ q.rows \in RowsRead
  BY <1>2 DEF MiniListTyped, RowRequests, RowsRead, ListRecords
<1> QED
  BY <1>1, <1>2 DEF MiniListTyped, MiniListTypeOK, RowForms, RowWrites

LEMMA TypedList ==
  ASSUME MiniListTyped
  PROVE  /\ list.rows \in Seq(ListRecords) /\ list.more \in BOOLEAN
         /\ Len(list.rows) \in Nat /\ DOMAIN list.rows = 1..Len(list.rows)
         /\ \A i \in DOMAIN list.rows : list.rows[i].id \in Rows /\ list.rows[i].ver \in 0..MaxSaves
<1>1. list.rows \in Seq(ListRecords) /\ list.more \in BOOLEAN
  BY DEF MiniListTyped
<1>2. Len(list.rows) \in Nat /\ DOMAIN list.rows = 1..Len(list.rows)
  BY <1>1, LenProperties
<1>3. \A i \in DOMAIN list.rows : list.rows[i] \in ListRecords
  BY <1>1, <1>2, ElementOfSeq
<1> QED
  BY <1>1, <1>2, <1>3 DEF ListRecords

\* After a load that crossed another, was skipped or failed nothing is said.
LEMMA StaleSaysNothing ==
  ASSUME stale' = TRUE
  PROVE  LoadFitsTheList' /\ RowsHaveOwnChanges' /\ ListIsFirstRows' /\ AnswerIsOfRowsThere'
BY DEF LoadFitsTheList, RowsHaveOwnChanges, ListIsFirstRows, AnswerIsOfRowsThere

\* The first rows are asked for when nothing else is on its way, or crossing it.
LEMMA ReloadStarts ==
  ASSUME NEW q, loads' = loads \cup {q}, stale' = (loads # {}),
         q.why # "more", q.read = FALSE, q.filter = filter', q.page = 1,
         q.why = "after" => write'.stage = "loading"
  PROVE  LoadFitsTheList' /\ RowsHaveOwnChanges' /\ ListIsFirstRows' /\ AnswerIsOfRowsThere'
<1>1. ~stale' => loads' = {q}
  OBVIOUS
<1>2. ~stale' => ~OnlyMore'
  BY <1>1 DEF OnlyMore
<1>3. LoadFitsTheList'
  BY <1>1 DEF LoadFitsTheList
<1>4. RowsHaveOwnChanges'
  BY <1>1, <1>2 DEF RowsHaveOwnChanges
<1>5. ListIsFirstRows'
  BY <1>2 DEF ListIsFirstRows
<1>6. AnswerIsOfRowsThere'
  BY <1>1 DEF AnswerIsOfRowsThere
<1> QED
  BY <1>3, <1>4, <1>5, <1>6

LEMMA ReloadKeeps ==
  ASSUME MiniListTyped, NEW f \in Filters, filter' = f, Reload(f)
  PROVE  /\ LoadFitsTheList' /\ RowsHaveOwnChanges' /\ ListIsFirstRows' /\ AnswerIsOfRowsThere'
         /\ loading' \in BOOLEAN /\ stale' \in BOOLEAN /\ typed' \in BOOLEAN /\ loads' \subseteq RowRequests
         /\ list' \in [rows : Seq(ListRecords), more : BOOLEAN]
<1>1. CASE loading
  <2>1. stale' = TRUE /\ UNCHANGED <<loading, loads, list, typed>>
    BY <1>1 DEF Reload
  <2> QED
    BY <2>1, StaleSaysNothing DEF MiniListTyped
<1>2. CASE ~loading
  <2> DEFINE q == Load("reload", f, 1)
  <2>1. /\ loading' = TRUE /\ list' = [list EXCEPT !.more = FALSE]
        /\ loads' = loads \cup {q} /\ stale' = (loads # {}) /\ typed' = FALSE
    BY <1>2 DEF Reload
  <2>2. /\ q \in RowRequests /\ q.why = "reload" /\ q.filter = f /\ q.page = 1 /\ q.read = FALSE
    BY DEF Load, RowRequests, Filters
  <2> HIDE DEF q
  <2>3. LoadFitsTheList' /\ RowsHaveOwnChanges' /\ ListIsFirstRows' /\ AnswerIsOfRowsThere'
    BY <2>1, <2>2, ReloadStarts
  <2> QED
    BY <2>1, <2>2, <2>3 DEF MiniListTyped
<1> QED
  BY <1>1, <1>2

LEMMA ListInvInit ==
  ASSUME MiniListInit
  PROVE  ListInv
<1> USE DEF MiniListInit
<1> DEFINE q == Load("reload", filter, 1)
<1>1. filter \in Filters /\ loads = {q} /\ list = [rows |-> <<>>, more |-> FALSE]
  OBVIOUS
<1>2. /\ q \in RowRequests /\ q.why = "reload" /\ q.filter = filter /\ q.page = 1 /\ q.read = FALSE
  BY <1>1 DEF Load, RowRequests, Filters
<1> HIDE DEF q
<1>3. MiniListTyped
  <2>1. list \in [rows : Seq(ListRecords), more : BOOLEAN]
    BY <1>1
  <2>2. NoForm \in RowForms /\ NoWrite \in RowWrites
    BY MiniListAssumption DEF NoForm, NoWrite, RowForms, RowWrites
  <2>3. ver \in [Rows -> 0..MaxSaves] /\ told \in [Rows -> 0..MaxSaves]
    BY MiniListAssumption
  <2> QED
    <3>1. here \subseteq Rows /\ loads \subseteq RowRequests /\ taps \in 0..MaxTaps
      BY <1>1, <1>2, MiniListAssumption
    <3>2. loading \in BOOLEAN /\ loadingMore \in BOOLEAN /\ stale \in BOOLEAN /\ typed \in BOOLEAN /\ kind \in ListPages
      OBVIOUS
    <3>3. form \in RowForms /\ write \in RowWrites
      BY <2>2
    <3> QED
      BY <1>1, <2>1, <2>3, <3>1, <3>2, <3>3 DEF MiniListTyped
<1>4. ChangesAreOfRows
  BY DEF ChangesAreOfRows, NoWrite, NoForm
<1>5. ~OnlyMore
  BY <1>1, <1>2 DEF OnlyMore
<1>6. LoadFitsTheList
  BY <1>1, <1>2 DEF LoadFitsTheList
<1>7. RowsHaveOwnChanges /\ ListIsFirstRows /\ AnswerIsOfRowsThere
  BY <1>1, <1>2, <1>5 DEF RowsHaveOwnChanges, ListIsFirstRows, AnswerIsOfRowsThere
<1>8. EditsStartFromOwnChanges
  BY DEF EditsStartFromOwnChanges, NoForm
<1> QED
  BY <1>3, <1>4, <1>6, <1>7, <1>8 DEF ListInv

\* Where nothing but the filter and the loads change, a form shows what it showed.
LEMMA FormUnchanged ==
  ASSUME ListInv, UNCHANGED <<ver, form, write, told>>
  PROVE  ChangesAreOfRows' /\ EditsStartFromOwnChanges'
BY DEF ListInv, ChangesAreOfRows, EditsStartFromOwnChanges

LEMMA SetFilterKeeps ==
  ASSUME ListInv, NEW t \in Tabs, SetFilter(t)
  PROVE  ListInv'
<1>1. PICK f : f = [filter EXCEPT !.tab = t]
  OBVIOUS
<1>2. /\ filter' = f /\ Reload(f) /\ taps < MaxTaps /\ taps' = taps + 1
      /\ UNCHANGED <<kind, here, ver, loadingMore, form, write, told>>
  BY <1>1 DEF SetFilter, Tap
<1>3. MiniListTyped /\ f \in Filters
  BY <1>1 DEF ListInv, MiniListTyped, Filters
<1>4. /\ LoadFitsTheList' /\ RowsHaveOwnChanges' /\ ListIsFirstRows' /\ AnswerIsOfRowsThere'
      /\ loading' \in BOOLEAN /\ stale' \in BOOLEAN /\ typed' \in BOOLEAN /\ loads' \subseteq RowRequests
      /\ list' \in [rows : Seq(ListRecords), more : BOOLEAN]
  BY <1>2, <1>3, ReloadKeeps
<1>5. MiniListTyped'
  BY <1>2, <1>3, <1>4, MiniListAssumption DEF MiniListTyped
<1>6. ChangesAreOfRows' /\ EditsStartFromOwnChanges'
  BY <1>2, FormUnchanged
<1> QED
  BY <1>4, <1>5, <1>6 DEF ListInv

\* A word that is typed says nothing of the versions of the rows.
LEMMA TypeKeywordKeeps ==
  ASSUME ListInv, NEW w \in Words, TypeKeyword(w)
  PROVE  ListInv'
<1>1. /\ filter' = [filter EXCEPT !.word = w] /\ typed' = TRUE /\ taps < MaxTaps /\ taps' = taps + 1
      /\ UNCHANGED <<kind, here, ver, list, loading, loadingMore, loads, form, write, told, stale>>
  BY DEF TypeKeyword, Tap
<1>2. MiniListTyped'
  <2>1. filter' \in Filters
    BY <1>1 DEF ListInv, MiniListTyped, Filters
  <2> QED
    BY <1>1, <2>1, MiniListAssumption DEF ListInv, MiniListTyped
<1>3. ChangesAreOfRows' /\ EditsStartFromOwnChanges'
  BY <1>1, FormUnchanged
<1>4. LoadFitsTheList'
  BY <1>1 DEF ListInv, LoadFitsTheList
<1>5. RowsHaveOwnChanges'
  BY <1>1 DEF ListInv, RowsHaveOwnChanges, OwnChanges, OnlyMore
<1>6. ListIsFirstRows' /\ AnswerIsOfRowsThere'
  BY <1>1 DEF ListIsFirstRows, AnswerIsOfRowsThere
<1> QED
  BY <1>2, <1>3, <1>4, <1>5, <1>6 DEF ListInv

LEMMA SearchKeeps ==
  ASSUME ListInv, Search
  PROVE  ListInv'
<1>1. /\ filter' = filter /\ Reload(filter) /\ taps < MaxTaps /\ taps' = taps + 1
      /\ UNCHANGED <<kind, here, ver, loadingMore, form, write, told>>
  BY DEF Search, Tap
<1>2. MiniListTyped /\ filter \in Filters
  BY DEF ListInv, MiniListTyped
<1>3. /\ LoadFitsTheList' /\ RowsHaveOwnChanges' /\ ListIsFirstRows' /\ AnswerIsOfRowsThere'
      /\ loading' \in BOOLEAN /\ stale' \in BOOLEAN /\ typed' \in BOOLEAN /\ loads' \subseteq RowRequests
      /\ list' \in [rows : Seq(ListRecords), more : BOOLEAN]
  BY <1>1, <1>2, ReloadKeeps
<1>4. MiniListTyped'
  BY <1>1, <1>2, <1>3, MiniListAssumption DEF MiniListTyped
<1>5. ChangesAreOfRows' /\ EditsStartFromOwnChanges'
  BY <1>1, FormUnchanged
<1> QED
  BY <1>3, <1>4, <1>5 DEF ListInv

LEMMA OnReachBottomKeeps ==
  ASSUME ListInv, OnReachBottom
  PROVE  ListInv'
<1> DEFINE q == Load("more", filter, Len(list.rows) + 1)
<1>1. /\ loads' = loads \cup {q} /\ stale' = (stale \/ loads # {}) /\ loadingMore' = TRUE
      /\ taps < MaxTaps /\ taps' = taps + 1
      /\ UNCHANGED <<kind, here, ver, list, filter, loading, form, write, told, typed>>
  BY DEF OnReachBottom, Tap
<1>2. MiniListTyped
  BY DEF ListInv
<1>3. /\ q \in RowRequests /\ q.why = "more" /\ q.filter = filter /\ q.page = Len(list.rows) + 1
      /\ q.read = FALSE
  <2>1. Len(list.rows) + 1 \in Nat \ {0} /\ filter \in Filters
    BY <1>2, TypedList DEF MiniListTyped
  <2> QED
    BY <2>1 DEF Load, RowRequests, Filters
<1> HIDE DEF q
<1>4. MiniListTyped'
  BY <1>1, <1>2, <1>3, MiniListAssumption DEF MiniListTyped
<1>5. ChangesAreOfRows' /\ EditsStartFromOwnChanges'
  BY <1>1, FormUnchanged
<1>6. CASE stale'
  BY <1>4, <1>5, <1>6, StaleSaysNothing DEF ListInv
<1>7. CASE ~stale'
  <2>1. ~stale /\ loads = {} /\ loads' = {q} /\ stale' = FALSE
    BY <1>1, <1>2, <1>7 DEF MiniListTyped
  <2>2. OnlyMore
    BY <2>1 DEF OnlyMore
  <2>3. LoadFitsTheList'
    BY <1>1, <1>3, <2>1 DEF LoadFitsTheList
  <2>4. RowsHaveOwnChanges'
    BY <1>1, <1>3, <2>1, <2>2 DEF ListInv, RowsHaveOwnChanges, OwnChanges
  <2>5. ListIsFirstRows'
    BY <1>1, <2>1, <2>2 DEF ListInv, ListIsFirstRows, Removing, FoundNow, FoundCount, AskedRows
  <2>6. AnswerIsOfRowsThere'
    BY <1>1, <1>3, <2>1 DEF AnswerIsOfRowsThere
  <2> QED
    BY <1>4, <1>5, <2>3, <2>4, <2>5, <2>6 DEF ListInv
<1> QED
  BY <1>6, <1>7

\* The server answers with the rows as they are: the changes it told of are among them.
LEMMA ReadKeeps ==
  ASSUME ListInv, NEW q \in loads, Read(q)
  PROVE  ListInv'
<1>1. PICK found, rs, n, p, some :
        /\ found = InOrder(here \cap AskedRows(q.filter))
        /\ rs = [i \in DOMAIN found |-> [id |-> found[i], ver |-> ver[found[i]]]]
        /\ n = Cardinality(here \cap AskedRows(q.filter))
        /\ some = Slice(rs, q.page)
        /\ p = [q EXCEPT !.read = TRUE, !.total = Len(found), !.rows = some]
        /\ ~q.read /\ loads' = (loads \ {q}) \cup {p}
        /\ UNCHANGED <<kind, here, ver, list, filter, loading, loadingMore, form, write, told, stale, typed, taps>>
  BY DEF Read
<1>2. MiniListTyped
  BY DEF ListInv
<1>3. q \in RowRequests /\ q.filter \in Filters /\ q.page \in Nat \ {0}
  BY <1>2 DEF MiniListTyped, RowRequests
<1>4. /\ n \in Nat /\ Len(found) = n /\ rs \in [1..n -> ListRecords]
      /\ \A i \in 1..n : rs[i].id = found[i] /\ rs[i].ver = ver[found[i]] /\ found[i] \in Rows
  <2>1. /\ found = InOrder(here \cap AskedRows(q.filter)) /\ n = Cardinality(here \cap AskedRows(q.filter))
    BY <1>1
  <2>2. n \in Nat /\ Len(found) = n /\ found \in [1..n -> Rows]
    BY <1>2, <1>3, <2>1, RowsThatAreFound
  <2>3. ver \in [Rows -> 0..MaxSaves]
    BY <1>2 DEF MiniListTyped
  <2>4. rs = [i \in 1..n |-> [id |-> found[i], ver |-> ver[found[i]]]]
    BY <1>1, <2>2
  <2>5. \A i \in 1..n : rs[i] = [id |-> found[i], ver |-> ver[found[i]]] /\ found[i] \in Rows /\ rs[i] \in ListRecords
    BY <2>2, <2>3, <2>4 DEF ListRecords
  <2>6. rs \in [1..n -> ListRecords]
    BY <2>4, <2>5
  <2> QED
    BY <2>2, <2>5, <2>6
<1>5. /\ some \in Seq(ListRecords) /\ Len(some) = IF q.page <= n THEN 1 ELSE 0
      /\ \A i \in 1..Len(some) : some[i] = rs[q.page] /\ q.page \in 1..n
  <2>1. n \in Nat /\ rs \in [1..n -> ListRecords] /\ q.page \in Nat \ {0}
    BY <1>3, <1>4
  <2>2. /\ Slice(rs, q.page) \in Seq(ListRecords)
        /\ Len(Slice(rs, q.page)) = IF q.page <= n THEN 1 ELSE 0
        /\ \A i \in 1..Len(Slice(rs, q.page)) : Slice(rs, q.page)[i] = rs[q.page] /\ q.page \in 1..n
    BY <2>1, SliceIsRows
  <2> QED
    BY <1>1, <2>2
<1>6. /\ p \in RowRequests /\ p.read = TRUE /\ p.total = n /\ p.rows = some
      /\ p.why = q.why /\ p.filter = q.filter /\ p.page = q.page
  <2>1. p = [q EXCEPT !.read = TRUE, !.total = n, !.rows = some] /\ n \in Nat /\ some \in Seq(ListRecords)
    BY <1>1, <1>4, <1>5
  <2> QED
    BY <1>3, <2>1 DEF RowRequests
<1>7. MiniListTyped'
  BY <1>1, <1>2, <1>6 DEF MiniListTyped
<1>8. ChangesAreOfRows' /\ EditsStartFromOwnChanges'
  BY <1>1, FormUnchanged
<1>9. CASE stale
  BY <1>1, <1>2, <1>7, <1>8, <1>9, StaleSaysNothing DEF ListInv, MiniListTyped
<1>10. CASE ~stale
  <2>1. loads = {q} /\ loads' = {p} /\ (~typed => q.filter = filter)
    BY <1>1, <1>10 DEF ListInv, LoadFitsTheList
  <2>2. OnlyMore' <=> OnlyMore
    BY <1>6, <2>1 DEF OnlyMore
  <2>3. LoadFitsTheList'
    BY <1>1, <1>6, <1>10, <2>1 DEF ListInv, LoadFitsTheList
  <2>4. RowsHaveOwnChanges'
    <3>1. ASSUME NEW i \in 1..Len(some) PROVE some[i].ver >= told[some[i].id]
      <4>1. some[i].id = found[q.page] /\ some[i].ver = ver[found[q.page]] /\ found[q.page] \in Rows
        BY <1>4, <1>5
      <4>2. told[found[q.page]] <= ver[found[q.page]]
        BY <4>1 DEF ListInv, ChangesAreOfRows
      <4>3. told[found[q.page]] \in 0..MaxSaves /\ ver[found[q.page]] \in 0..MaxSaves
        BY <1>2, <4>1 DEF MiniListTyped
      <4> QED
        BY <4>1, <4>2, <4>3
    <3>2. DOMAIN some = 1..Len(some)
      BY <1>5, LenProperties
    <3>3. OwnChanges(p.rows)'
      BY <1>1, <1>6, <3>1, <3>2 DEF OwnChanges
    <3>4. OnlyMore' => OwnChanges(list.rows)'
      BY <1>1, <1>10, <2>2 DEF ListInv, RowsHaveOwnChanges, OwnChanges
    <3> QED
      BY <2>1, <3>3, <3>4 DEF RowsHaveOwnChanges
  <2>5. ListIsFirstRows'
    BY <1>1, <2>2 DEF ListInv, ListIsFirstRows, Removing, FoundNow, FoundCount, AskedRows
  <2>6. ASSUME ~typed PROVE AnswerIsOfRowsThere'
    <3>1. FoundNow' = found /\ FoundCount' = n
      BY <1>1, <2>1, <2>6 DEF FoundNow, FoundCount, AskedRows
    <3>2. \A i \in 1..Len(some) : some[i].id = found[q.page]
      BY <1>4, <1>5
    <3>3. /\ p.total = FoundCount' /\ Len(p.rows) = IF p.page <= FoundCount' THEN 1 ELSE 0
          /\ \A i \in 1..Len(p.rows) : p.rows[i].id = FoundNow'[p.page]
      BY <1>5, <1>6, <3>1, <3>2
    <3> QED
      BY <2>1, <3>3 DEF AnswerIsOfRowsThere
  <2>7. ASSUME typed PROVE AnswerIsOfRowsThere'
    BY <1>1, <2>7 DEF AnswerIsOfRowsThere
  <2> QED
    BY <1>7, <1>8, <2>3, <2>4, <2>5, <2>6, <2>7 DEF ListInv
<1> QED
  BY <1>9, <1>10

LEMMA AppendedOwnChanges ==
  ASSUME NEW xs \in Seq(ListRecords), NEW ys \in Seq(ListRecords), NEW zs, zs = xs \o ys,
         OwnChanges(xs), OwnChanges(ys)
  PROVE  OwnChanges(zs)
<1>1. /\ zs \in Seq(ListRecords) /\ Len(zs) = Len(xs) + Len(ys) /\ Len(xs) \in Nat /\ Len(ys) \in Nat
      /\ \A i \in 1..(Len(xs) + Len(ys)) : zs[i] = IF i <= Len(xs) THEN xs[i] ELSE ys[i - Len(xs)]
      /\ DOMAIN xs = 1..Len(xs) /\ DOMAIN ys = 1..Len(ys) 
  BY ConcatProperties, LenProperties
<1>2. DOMAIN zs = 1..Len(zs)
  BY <1>1, LenProperties
<1>3. ASSUME NEW i \in 1..Len(zs) PROVE zs[i].ver >= told[zs[i].id]
  <2>1. CASE i <= Len(xs)
    BY <1>1, <2>1 DEF OwnChanges
  <2>2. CASE ~ i <= Len(xs)
    <3>1. i - Len(xs) \in 1..Len(ys) /\ zs[i] = ys[i - Len(xs)]
      BY <1>1, <2>2
    <3> QED
      BY <1>1, <3>1 DEF OwnChanges
  <2> QED
    BY <2>1, <2>2
<1> QED
  BY <1>2, <1>3 DEF OwnChanges

LEMMA ReceiveKeeps ==
  ASSUME ListInv, NEW q \in loads, Receive(q)
  PROVE  ListInv'
<1>1. PICK zs :
        /\ q.read /\ loads' = loads \ {q}
        /\ zs = IF q.why = "more" THEN list.rows \o q.rows ELSE q.rows
        /\ list' = [rows |-> zs, more |-> Len(zs) < q.total]
        /\ IF q.why = "after"
             THEN /\ form' = IF write.remove THEN form ELSE NoForm
                  /\ write' = NoWrite
                  /\ UNCHANGED <<loading, loadingMore>>
             ELSE /\ loading' = FALSE /\ loadingMore' = FALSE
                  /\ UNCHANGED <<form, write>>
        /\ UNCHANGED <<kind, here, ver, filter, told, stale, typed, taps>>
  BY DEF Receive, Apply
<1>2. MiniListTyped
  BY DEF ListInv
<1>3. /\ q \in RowRequests /\ q.rows \in Seq(ListRecords) /\ q.total \in Nat
      /\ list.rows \in Seq(ListRecords)
  BY <1>2, TypedList DEF MiniListTyped, RowRequests
<1>4. zs \in Seq(ListRecords) /\ Len(zs) \in Nat /\ list'.rows = zs /\ list'.more = (Len(zs) < q.total)
  BY <1>1, <1>3, ConcatProperties, LenProperties
<1>5. NoForm \in RowForms /\ NoWrite \in RowWrites /\ NoWrite.stage = "none" /\ ~NoForm.open
  BY MiniListAssumption DEF NoForm, NoWrite, RowForms, RowWrites
<1>6. MiniListTyped'
  <2>1. list' \in [rows : Seq(ListRecords), more : BOOLEAN]
    BY <1>1, <1>4
  <2>2. form' \in RowForms /\ write' \in RowWrites /\ loading' \in BOOLEAN /\ loadingMore' \in BOOLEAN
    BY <1>1, <1>2, <1>5 DEF MiniListTyped
  <2> QED
    BY <1>1, <1>2, <2>1, <2>2 DEF MiniListTyped
<1>7. ChangesAreOfRows' /\ EditsStartFromOwnChanges'
  <2>1. write' = write \/ write'.stage = "none"
    BY <1>1, <1>5
  <2>2. form' = form \/ ~form'.open
    BY <1>1, <1>5
  <2>3. ChangesAreOfRows'
    BY <1>1, <2>1, <2>2 DEF ListInv, ChangesAreOfRows
  <2>4. EditsStartFromOwnChanges'
    BY <1>1, <2>2 DEF ListInv, EditsStartFromOwnChanges
  <2> QED
    BY <2>3, <2>4
<1>8. CASE stale
  BY <1>1, <1>2, <1>6, <1>7, <1>8, StaleSaysNothing DEF ListInv, MiniListTyped
<1>9. CASE ~stale
  <2>1. loads = {q} /\ loads' = {}
    BY <1>1, <1>9 DEF ListInv, LoadFitsTheList
  <2>2. LoadFitsTheList' /\ AnswerIsOfRowsThere'
    BY <2>1 DEF LoadFitsTheList, AnswerIsOfRowsThere
  <2>3. OwnChanges(q.rows) /\ (q.why = "more" => OwnChanges(list.rows))
    BY <1>1, <1>9, <2>1 DEF ListInv, RowsHaveOwnChanges, OnlyMore
  <2>4. OwnChanges(zs)
    BY <1>1, <1>3, <2>3, AppendedOwnChanges
  <2>5. RowsHaveOwnChanges'
    BY <1>1, <1>4, <2>1, <2>4 DEF RowsHaveOwnChanges, OwnChanges
  <2>6. ListIsFirstRows'
    <3>1. SUFFICES ASSUME ~Removing', ~typed
                   PROVE  /\ Len(zs) <= FoundCount
                          /\ \A i \in 1..Len(zs) : zs[i].id = FoundNow[i]
                          /\ q.total = FoundCount
      BY <1>1, <1>4 DEF ListIsFirstRows, FoundNow, FoundCount, AskedRows
    <3>2. ~Removing
      BY <1>1, <1>9, <3>1 DEF ListInv, LoadFitsTheList, Removing
    <3>3. /\ q.total = FoundCount
          /\ Len(q.rows) = IF q.page <= FoundCount THEN 1 ELSE 0
          /\ \A i \in 1..Len(q.rows) : q.rows[i].id = FoundNow[q.page]
      BY <1>1, <1>9, <3>1, <3>2 DEF ListInv, AnswerIsOfRowsThere
    <3>4. CASE q.why = "more"
      <4>1. q.page = Len(list.rows) + 1 /\ zs = list.rows \o q.rows
        BY <1>1, <1>9, <3>4 DEF ListInv, LoadFitsTheList
      <4>2. Len(list.rows) <= FoundCount /\ \A i \in 1..Len(list.rows) : list.rows[i].id = FoundNow[i]
        BY <1>9, <2>1, <3>1, <3>2, <3>4 DEF ListInv, ListIsFirstRows, OnlyMore
      <4>3. FoundCount \in Nat
        BY <1>3, <3>3
      <4>4. /\ Len(q.rows) = IF Len(list.rows) + 1 <= FoundCount THEN 1 ELSE 0
            /\ \A i \in 1..Len(q.rows) : q.rows[i].id = FoundNow[Len(list.rows) + 1]
        BY <3>3, <4>1
      <4>5. PICK F, c, xs, ys : F = FoundNow /\ c = FoundCount /\ xs = list.rows /\ ys = q.rows
        OBVIOUS
      <4>6. Len(zs) <= c /\ \A i \in 1..Len(zs) : zs[i].id = F[i]
        <5>1. xs \in Seq(ListRecords) /\ ys \in Seq(ListRecords) /\ zs = xs \o ys /\ c \in Nat
          BY <1>3, <4>1, <4>3, <4>5
        <5>2. Len(xs) <= c /\ \A i \in 1..Len(xs) : xs[i].id = F[i]
          BY <4>2, <4>5
        <5>3. Len(ys) = (IF Len(xs) + 1 <= c THEN 1 ELSE 0) /\ \A i \in 1..Len(ys) : ys[i].id = F[Len(xs) + 1]
          BY <4>4, <4>5
        <5>4. /\ Len(zs) = Len(xs) + Len(ys) /\ Len(xs) \in Nat /\ Len(ys) \in Nat
              /\ \A i \in 1..(Len(xs) + Len(ys)) : zs[i] = IF i <= Len(xs) THEN xs[i] ELSE ys[i - Len(xs)]
          BY <5>1, ConcatProperties, LenProperties
        <5>5. Len(zs) <= c
          BY <5>1, <5>2, <5>3, <5>4
        <5>6. ASSUME NEW i \in 1..Len(zs) PROVE zs[i].id = F[i]
          <6>1. CASE i <= Len(xs)
            <7>1. i \in 1..Len(xs) /\ zs[i] = xs[i]
              BY <5>4, <6>1
            <7> QED
              BY <5>2, <7>1
          <6>2. CASE ~ i <= Len(xs)
            <7>1. i = Len(xs) + 1 /\ i - Len(xs) = 1 /\ 1 \in 1..Len(ys)
              BY <5>3, <5>4, <6>2
            <7>2. zs[i] = ys[1]
              BY <5>4, <6>2, <7>1
            <7> QED
              BY <5>3, <7>1, <7>2
          <6> QED
            BY <6>1, <6>2
        <5> QED
          BY <5>5, <5>6
      <4> QED
        BY <3>3, <4>5, <4>6
    <3>5. CASE q.why # "more"
      <4>1. q.page = 1 /\ zs = q.rows
        BY <1>1, <1>9, <3>5 DEF ListInv, LoadFitsTheList
      <4>2. Len(zs) <= 1
        BY <3>3, <4>1
      <4>3. ASSUME NEW i \in 1..Len(zs) PROVE zs[i].id = FoundNow[i]
        <5>1. i = 1
          BY <1>4, <4>2
        <5> QED
          BY <3>3, <4>1, <5>1
      <4>4. Len(zs) <= FoundCount
        BY <1>3, <3>3, <4>1
      <4> QED
        BY <3>3, <4>3, <4>4
    <3> QED
      BY <3>4, <3>5
  <2> QED
    BY <1>6, <1>7, <2>2, <2>5, <2>6 DEF ListInv
<1> QED
  BY <1>8, <1>9

LEMMA FailLoadKeeps ==
  ASSUME ListInv, NEW q \in loads, FailLoad(q)
  PROVE  ListInv'
<1>1. /\ stale' = TRUE /\ loads' \subseteq loads /\ (write' = write \/ write' = NoWrite)
      /\ loading' \in {loading, FALSE} /\ loadingMore' \in {loadingMore, FALSE}
      /\ UNCHANGED <<kind, here, ver, list, filter, form, told, typed, taps>>
  BY DEF FailLoad
<1>2. NoWrite \in RowWrites /\ NoWrite.stage = "none"
  BY DEF NoWrite, RowWrites
<1>3. MiniListTyped'
  BY <1>1, <1>2 DEF ListInv, MiniListTyped
<1>4. ChangesAreOfRows'
  BY <1>1, <1>2 DEF ListInv, ChangesAreOfRows
<1>5. EditsStartFromOwnChanges'
  BY <1>1 DEF ListInv, EditsStartFromOwnChanges
<1> QED
  BY <1>1, <1>3, <1>4, <1>5, StaleSaysNothing DEF ListInv

LEMMA WriteFailsKeeps ==
  ASSUME ListInv, WriteFails
  PROVE  ListInv'
<1>1. /\ stale' = TRUE /\ write' = NoWrite
      /\ UNCHANGED <<kind, here, ver, list, filter, loading, loadingMore, loads, form, told, typed, taps>>
  BY DEF WriteFails
<1>2. NoWrite \in RowWrites /\ NoWrite.stage = "none"
  BY DEF NoWrite, RowWrites
<1>3. MiniListTyped'
  BY <1>1, <1>2 DEF ListInv, MiniListTyped
<1>4. ChangesAreOfRows'
  BY <1>1, <1>2 DEF ListInv, ChangesAreOfRows
<1>5. EditsStartFromOwnChanges'
  BY <1>1 DEF ListInv, EditsStartFromOwnChanges
<1> QED
  BY <1>1, <1>3, <1>4, <1>5, StaleSaysNothing DEF ListInv

\* A form is filled from the list: on a list at rest, with all that was saved.
LEMMA OpenEditKeeps ==
  ASSUME ListInv, NEW i \in DOMAIN list.rows, OpenEdit(i)
  PROVE  ListInv'
<1> DEFINE d == stale \/ loads # {} \/ write.stage # "none"
<1>1. /\ form' = [open |-> TRUE, id |-> list.rows[i].id, ver |-> list.rows[i].ver, doubtful |-> d]
      /\ taps < MaxTaps /\ taps' = taps + 1
      /\ UNCHANGED <<kind, here, ver, list, filter, loading, loadingMore, loads, write, told, stale, typed>>
  BY DEF OpenEdit, Tap
<1>2. MiniListTyped
  BY DEF ListInv
<1>3. list.rows[i].id \in Rows /\ list.rows[i].ver \in 0..MaxSaves
  BY <1>2, TypedList
<1>4. d \in BOOLEAN
  OBVIOUS
<1>5. d = FALSE => ~stale /\ loads = {}
  OBVIOUS
<1> HIDE DEF d
<1>6. /\ form' \in RowForms /\ form'.open = TRUE /\ form'.id = list.rows[i].id
      /\ form'.ver = list.rows[i].ver /\ form'.doubtful = d
  BY <1>1, <1>3, <1>4 DEF RowForms
<1>7. MiniListTyped'
  BY <1>1, <1>2, <1>6, MiniListAssumption DEF MiniListTyped
<1>8. ChangesAreOfRows'
  BY <1>1, <1>3, <1>6 DEF ListInv, ChangesAreOfRows
<1>9. EditsStartFromOwnChanges'
  <2>1. d = FALSE => OwnChanges(list.rows)
    BY <1>5 DEF ListInv, RowsHaveOwnChanges, OnlyMore
  <2>2. d = FALSE => list.rows[i].ver >= told[list.rows[i].id]
    BY <2>1 DEF OwnChanges
  <2> QED
    BY <1>1, <1>4, <1>6, <2>2 DEF EditsStartFromOwnChanges
<1>10. LoadFitsTheList'
  BY <1>1 DEF ListInv, LoadFitsTheList
<1>11. RowsHaveOwnChanges'
  BY <1>1 DEF ListInv, RowsHaveOwnChanges, OwnChanges, OnlyMore
<1>12. ListIsFirstRows'
  BY <1>1 DEF ListInv, ListIsFirstRows, OnlyMore, Removing, FoundNow, FoundCount, AskedRows
<1>13. AnswerIsOfRowsThere'
  BY <1>1 DEF ListInv, AnswerIsOfRowsThere, Removing, FoundNow, FoundCount, AskedRows
<1> QED
  BY <1>7, <1>8, <1>9, <1>10, <1>11, <1>12, <1>13 DEF ListInv

\* What is not about the rows or their loads leaves them as they are.
LEMMA LoadsUnchanged ==
  ASSUME ListInv,
         UNCHANGED <<kind, here, list, filter, loads, told, stale, typed>>,
         write.stage # "loading" \/ write'.stage = "loading",
         Removing => Removing'
  PROVE  LoadFitsTheList' /\ RowsHaveOwnChanges' /\ ListIsFirstRows' /\ AnswerIsOfRowsThere'
<1>1. LoadFitsTheList'
  BY DEF ListInv, LoadFitsTheList
<1>2. RowsHaveOwnChanges'
  BY DEF ListInv, RowsHaveOwnChanges, OwnChanges, OnlyMore
<1>3. ListIsFirstRows'
  BY DEF ListInv, ListIsFirstRows, OnlyMore, FoundNow, FoundCount, AskedRows
<1>4. AnswerIsOfRowsThere'
  BY DEF ListInv, AnswerIsOfRowsThere, FoundNow, FoundCount, AskedRows
<1> QED
  BY <1>1, <1>2, <1>3, <1>4

LEMMA CloseFormKeeps ==
  ASSUME ListInv, CloseForm
  PROVE  ListInv'
<1>1. /\ form' = NoForm
      /\ UNCHANGED <<kind, here, ver, list, filter, loading, loadingMore, loads, write, told, stale, typed, taps>>
  BY DEF CloseForm
<1>2. NoForm \in RowForms /\ ~NoForm.open
  BY MiniListAssumption DEF NoForm, RowForms
<1>3. MiniListTyped' /\ ChangesAreOfRows' /\ EditsStartFromOwnChanges'
  BY <1>1, <1>2 DEF ListInv, MiniListTyped, ChangesAreOfRows, EditsStartFromOwnChanges
<1> QED
  BY <1>1, <1>3, LoadsUnchanged DEF ListInv, Removing

LEMMA SentKeeps ==
  ASSUME ListInv, NEW r \in Rows, NEW b \in BOOLEAN, write = NoWrite,
         write' = [stage |-> "sent", id |-> r, remove |-> b],
         taps < MaxTaps, taps' = taps + 1,
         UNCHANGED <<kind, here, ver, list, filter, loading, loadingMore, loads, form, told, stale, typed>>
  PROVE  ListInv'
<1>1. /\ write.stage = "none" /\ write' \in RowWrites /\ write'.id \in Rows
      /\ write'.stage = "sent"
  BY DEF NoWrite, RowWrites
<1>2. MiniListTyped'
  BY <1>1, MiniListAssumption DEF ListInv, MiniListTyped
<1>3. ChangesAreOfRows'
  BY <1>1 DEF ListInv, ChangesAreOfRows
<1>4. EditsStartFromOwnChanges'
  BY DEF ListInv, EditsStartFromOwnChanges
<1>5. LoadFitsTheList' /\ RowsHaveOwnChanges' /\ ListIsFirstRows' /\ AnswerIsOfRowsThere'
  BY <1>1, LoadsUnchanged DEF Removing
<1> QED
  BY <1>2, <1>3, <1>4, <1>5 DEF ListInv

LEMMA SaveKeeps ==
  ASSUME ListInv, Save
  PROVE  ListInv'
<1>1. /\ form.open /\ write = NoWrite
      /\ write' = [stage |-> "sent", id |-> form.id, remove |-> FALSE]
      /\ taps < MaxTaps /\ taps' = taps + 1
      /\ UNCHANGED <<kind, here, ver, list, filter, loading, loadingMore, loads, form, told, stale, typed>>
  BY DEF Save, Tap
<1>2. form.id \in Rows
  BY <1>1 DEF ListInv, ChangesAreOfRows
<1> QED
  BY <1>1, <1>2, SentKeeps

LEMMA DeleteKeeps ==
  ASSUME ListInv, NEW i \in DOMAIN list.rows, Delete(i)
  PROVE  ListInv'
<1>1. /\ write = NoWrite
      /\ write' = [stage |-> "sent", id |-> list.rows[i].id, remove |-> TRUE]
      /\ taps < MaxTaps /\ taps' = taps + 1
      /\ UNCHANGED <<kind, here, ver, list, filter, loading, loadingMore, loads, form, told, stale, typed>>
  BY DEF Delete, Tap
<1>2. list.rows[i].id \in Rows
  BY TypedList DEF ListInv
<1> QED
  BY <1>1, <1>2, SentKeeps

\* The row is changed, and the page not told yet: versions only grow.
LEMMA CarryWriteKeeps ==
  ASSUME ListInv, CarryWrite
  PROVE  ListInv'
<1>1. /\ write.stage = "sent"
      /\ UNCHANGED <<kind, list, filter, loading, loadingMore, loads, form, told, stale, typed, taps>>
  BY DEF CarryWrite
<1>2. write \in RowWrites /\ write.id \in Rows /\ ver \in [Rows -> 0..MaxSaves]
  BY <1>1 DEF ListInv, MiniListTyped, ChangesAreOfRows
<1>3. CASE write.id \in here /\ write.remove
  <2>1. write' = [write EXCEPT !.stage = "done"] /\ here' = here \ {write.id} /\ ver' = ver
    BY <1>1, <1>3 DEF CarryWrite
  <2>2. write' \in RowWrites /\ write'.stage = "done" /\ write'.id = write.id /\ write'.remove
    BY <1>2, <1>3, <2>1 DEF RowWrites
  <2>3. MiniListTyped'
    BY <1>1, <2>1, <2>2 DEF ListInv, MiniListTyped
  <2>4. ChangesAreOfRows' /\ EditsStartFromOwnChanges'
    BY <1>1, <1>2, <2>1, <2>2 DEF ListInv, ChangesAreOfRows, EditsStartFromOwnChanges
  <2>5. LoadFitsTheList'
    BY <1>1 DEF ListInv, LoadFitsTheList
  <2>6. RowsHaveOwnChanges'
    BY <1>1 DEF ListInv, RowsHaveOwnChanges, OwnChanges, OnlyMore
  <2>7. ListIsFirstRows' /\ AnswerIsOfRowsThere'
    BY <2>2 DEF ListIsFirstRows, AnswerIsOfRowsThere, Removing
  <2> QED
    BY <2>3, <2>4, <2>5, <2>6, <2>7 DEF ListInv
<1>4. CASE ~(write.id \in here /\ write.remove)
  <2>1. /\ here' = here
        /\ \/ ver' = ver
           \/ ver[write.id] < MaxSaves /\ ver' = [ver EXCEPT ![write.id] = @ + 1]
        /\ \/ write' = [write EXCEPT !.stage = "done"] /\ ~write.remove
           \/ write' = [write EXCEPT !.stage = "refused"]
    BY <1>1, <1>4 DEF CarryWrite
  <2>2. write' \in RowWrites /\ write'.id = write.id /\ ~Removing'
    BY <1>2, <2>1 DEF RowWrites, Removing
  <2>3. ver' \in [Rows -> 0..MaxSaves] /\ \A r \in Rows : ver[r] <= ver'[r]
    BY <1>2, <2>1, MiniListAssumption
  <2>4. MiniListTyped'
    BY <1>1, <2>1, <2>2, <2>3 DEF ListInv, MiniListTyped
  <2>5. ChangesAreOfRows'
    <3>1. ASSUME NEW r \in Rows PROVE told[r] <= ver'[r]
      <4>1. told[r] <= ver[r] /\ ver[r] <= ver'[r]
        BY <2>3 DEF ListInv, ChangesAreOfRows
      <4>2. told[r] \in 0..MaxSaves /\ ver[r] \in 0..MaxSaves /\ ver'[r] \in 0..MaxSaves
        BY <1>2, <2>3 DEF ListInv, MiniListTyped
      <4> QED
        BY <4>1, <4>2
    <3> QED
      BY <1>1, <1>2, <2>2, <3>1 DEF ListInv, ChangesAreOfRows
  <2>6. EditsStartFromOwnChanges'
    BY <1>1 DEF ListInv, EditsStartFromOwnChanges
  <2>7. LoadFitsTheList' /\ RowsHaveOwnChanges' /\ ListIsFirstRows' /\ AnswerIsOfRowsThere'
    <3>1. ~Removing
      BY <1>1 DEF Removing
    <3> QED
      BY <1>1, <2>1, <3>1, LoadsUnchanged
  <2> QED
    BY <2>4, <2>5, <2>6, <2>7 DEF ListInv
<1> QED
  BY <1>3, <1>4

\* The page is told, and loads again; an open form of the row shows what was saved.
LEMMA AfterWriteKeeps ==
  ASSUME ListInv, AfterWrite
  PROVE  ListInv'
<1>1. /\ write.stage = "done"
      /\ told' = IF write.remove THEN told ELSE [told EXCEPT ![write.id] = ver[write.id]]
      /\ UNCHANGED <<kind, here, ver, filter, loadingMore, taps>>
  BY DEF AfterWrite
<1>2. MiniListTyped /\ write \in RowWrites /\ form \in RowForms /\ filter \in Filters
  BY DEF ListInv, MiniListTyped
<1>3. /\ write.id \in Rows
      /\ told \in [Rows -> 0..MaxSaves] /\ ver \in [Rows -> 0..MaxSaves]
  BY <1>1, <1>2 DEF ListInv, ChangesAreOfRows, MiniListTyped
<1>4. /\ told' \in [Rows -> 0..MaxSaves]
      /\ \A r \in Rows : r # write.id => told'[r] = told[r]
  BY <1>1, <1>3
<1>5. \A r \in Rows : told'[r] <= ver[r]
  <2>1. ASSUME NEW r \in Rows PROVE told'[r] <= ver[r]
    <3>1. told[r] <= ver[r] /\ ver[r] \in 0..MaxSaves
      BY <1>3 DEF ListInv, ChangesAreOfRows
    <3>2. told'[r] = told[r] \/ told'[r] = ver[r]
      BY <1>1, <1>3
    <3> QED
      BY <3>1, <3>2
  <2> QED
    BY <2>1
<1>6. CASE kind.always
  <2> DEFINE q == Load("after", filter, 1)
  <2>1. /\ loads' = loads \cup {q} /\ write' = [write EXCEPT !.stage = "loading"]
        /\ stale' = (loads # {}) /\ typed' = FALSE
        /\ form' = IF form.id = write.id THEN [form EXCEPT !.ver = told'[write.id]] ELSE form
        /\ UNCHANGED <<loading, list>>
    BY <1>6 DEF AfterWrite
  <2>2. q \in RowRequests /\ q.why = "after" /\ q.filter = filter /\ q.page = 1 /\ q.read = FALSE
    BY <1>2 DEF Load, RowRequests, Filters
  <2>3. write' \in RowWrites /\ write'.stage = "loading" /\ write'.id = write.id
    BY <1>2, <2>1 DEF RowWrites
  <2> HIDE DEF q
  <2>4. LoadFitsTheList' /\ RowsHaveOwnChanges' /\ ListIsFirstRows' /\ AnswerIsOfRowsThere'
    BY <1>1, <2>1, <2>2, <2>3, ReloadStarts
  <2>5. /\ form' \in RowForms /\ form'.id = form.id /\ form'.open = form.open /\ form'.doubtful = form.doubtful
        /\ form'.ver = IF form.id = write.id THEN told'[write.id] ELSE form.ver
    <3>1. told'[write.id] \in 0..MaxSaves
      BY <1>3, <1>4
    <3> QED
      BY <1>2, <2>1, <3>1 DEF RowForms
  <2>6. MiniListTyped'
    BY <1>1, <1>2, <1>4, <2>1, <2>2, <2>3, <2>5 DEF MiniListTyped
  <2>7. ChangesAreOfRows'
    BY <1>1, <1>3, <1>5, <2>3, <2>5 DEF ListInv, ChangesAreOfRows
  <2>8. EditsStartFromOwnChanges'
    <3>1. SUFFICES ASSUME form.open, ~form.doubtful PROVE form'.ver >= told'[form.id]
      BY <2>5 DEF EditsStartFromOwnChanges
    <3>2. form.id \in Rows /\ form.ver >= told[form.id]
      BY <3>1 DEF ListInv, ChangesAreOfRows, EditsStartFromOwnChanges
    <3>3. CASE form.id = write.id
      <4>1. form'.ver = told'[form.id] /\ told'[form.id] \in 0..MaxSaves
        BY <1>4, <2>5, <3>2, <3>3
      <4> QED
        BY <4>1
    <3>4. CASE form.id # write.id
      BY <1>4, <2>5, <3>2, <3>4
    <3> QED
      BY <3>3, <3>4
  <2> QED
    BY <2>4, <2>6, <2>7, <2>8 DEF ListInv
<1>7. CASE ~kind.always
  <2>1. /\ form' = IF write.remove THEN form ELSE NoForm
        /\ write' = NoWrite /\ Reload(filter) /\ filter' = filter
    BY <1>1, <1>7 DEF AfterWrite
  <2>2. /\ LoadFitsTheList' /\ RowsHaveOwnChanges' /\ ListIsFirstRows' /\ AnswerIsOfRowsThere'
        /\ loading' \in BOOLEAN /\ stale' \in BOOLEAN /\ typed' \in BOOLEAN /\ loads' \subseteq RowRequests
        /\ list' \in [rows : Seq(ListRecords), more : BOOLEAN]
    BY <1>2, <2>1, ReloadKeeps
  <2>3. NoForm \in RowForms /\ NoWrite \in RowWrites /\ NoWrite.stage = "none" /\ ~NoForm.open
    BY MiniListAssumption DEF NoForm, NoWrite, RowForms, RowWrites
  <2>4. MiniListTyped'
    BY <1>1, <1>2, <1>4, <2>1, <2>2, <2>3 DEF MiniListTyped
  <2>5. ChangesAreOfRows'
    BY <1>1, <1>5, <2>1, <2>3 DEF ListInv, ChangesAreOfRows
  <2>6. EditsStartFromOwnChanges'
    BY <1>1, <2>1, <2>3 DEF ListInv, EditsStartFromOwnChanges
  <2> QED
    BY <2>2, <2>4, <2>5, <2>6 DEF ListInv
<1> QED
  BY <1>6, <1>7

LEMMA ListInvStep ==
  ASSUME ListInv, [MiniListNext]_listVars
  PROVE  ListInv'
<1>1. CASE UNCHANGED listVars
  <2>1. UNCHANGED <<kind, here, ver, list, filter, loading, loadingMore, loads, form, write, told, stale, typed, taps>>
    BY <1>1 DEF listVars
  <2>2. MiniListTyped' /\ ChangesAreOfRows' /\ EditsStartFromOwnChanges'
    BY <2>1 DEF ListInv, MiniListTyped, ChangesAreOfRows, EditsStartFromOwnChanges
  <2> QED
    BY <2>1, <2>2, LoadsUnchanged DEF ListInv, Removing
<1>2. ASSUME NEW t \in Tabs, SetFilter(t) PROVE ListInv'
  BY <1>2, SetFilterKeeps
<1>15. ASSUME NEW w \in Words, TypeKeyword(w) PROVE ListInv'
  BY <1>15, TypeKeywordKeeps
<1>3. CASE Search
  BY <1>3, SearchKeeps
<1>4. CASE OnReachBottom
  BY <1>4, OnReachBottomKeeps
<1>5. ASSUME NEW q \in loads, Read(q) PROVE ListInv'
  BY <1>5, ReadKeeps
<1>6. ASSUME NEW q \in loads, Receive(q) PROVE ListInv'
  BY <1>6, ReceiveKeeps
<1>7. ASSUME NEW q \in loads, FailLoad(q) PROVE ListInv'
  BY <1>7, FailLoadKeeps
<1>8. ASSUME NEW i \in DOMAIN list.rows, OpenEdit(i) PROVE ListInv'
  BY <1>8, OpenEditKeeps
<1>9. ASSUME NEW i \in DOMAIN list.rows, Delete(i) PROVE ListInv'
  BY <1>9, DeleteKeeps
<1>10. CASE CloseForm
  BY <1>10, CloseFormKeeps
<1>11. CASE Save
  BY <1>11, SaveKeeps
<1>12. CASE CarryWrite
  BY <1>12, CarryWriteKeeps
<1>13. CASE AfterWrite
  BY <1>13, AfterWriteKeeps
<1>14. CASE WriteFails
  BY <1>14, WriteFailsKeeps
<1> QED
  BY <1>1, <1>2, <1>3, <1>4, <1>5, <1>6, <1>7, <1>8, <1>9, <1>10, <1>11, <1>12, <1>13, <1>14, <1>15 DEF MiniListNext

\* A list at rest is the first of the rows that were asked for: so it shows those of its
\* tab, each once, and all of them when no more are to come.
LEMMA ListInvSuffices ==
  ASSUME ListInv
  PROVE  MiniListTypeOK /\ EditsStartFromOwnChanges /\ ListIsOfItsFilter
<1>1. MiniListTyped
  BY DEF ListInv
<1>2. ASSUME Fresh, ~typed
      PROVE  LET ids == [i \in Displayed |-> list.rows[i].id]
             IN  /\ Range(ids) \subseteq here \cap WantedRows(filter)
                 /\ IsInjective(ids)
                 /\ ~list.more => Range(ids) = here \cap WantedRows(filter)
  <2> DEFINE W == here \cap WantedRows(filter)
  <2> DEFINE K == here \cap AskedRows(filter)
  <2> DEFINE ids == [i \in Displayed |-> list.rows[i].id]
  <2>1. /\ Len(list.rows) <= FoundCount
        /\ \A i \in 1..Len(list.rows) : list.rows[i].id = FoundNow[i]
        /\ list.more <=> Len(list.rows) < FoundCount
    <3>1. ~stale /\ ~typed /\ ~Removing /\ OnlyMore
      BY <1>2 DEF Fresh, Removing, NoWrite, OnlyMore
    <3> QED
      BY <3>1 DEF ListInv, ListIsFirstRows
  <2>2. K \in SUBSET Nat /\ IsFiniteSet(K) /\ FoundCount = Cardinality(K) /\ FoundNow = InOrder(K) /\ FoundCount \in Nat
    <3>1. K \subseteq Rows /\ K \in SUBSET Nat
      BY <1>1, MiniListAssumption DEF MiniListTyped
    <3>2. IsFiniteSet(K) /\ Cardinality(K) \in Nat
      BY <3>1, MiniListAssumption, FS_Subset, FS_CardinalityType
    <3> QED
      BY <3>1, <3>2 DEF FoundNow, FoundCount, AskedRows
  <2> HIDE DEF K
  <2>3. /\ FoundNow \in [1..FoundCount -> K]
        /\ \A i, j \in 1..FoundCount : i < j => FoundNow[i] < FoundNow[j]
    BY <2>2, InOrderLists
  <2>4. \A r \in K : \E i \in 1..FoundCount : FoundNow[i] = r
    BY <2>2, InOrderIsAll
  <2>5. Len(list.rows) \in Nat /\ DOMAIN list.rows = 1..Len(list.rows)
    BY <1>1, TypedList
  <2>6. ASSUME NEW i \in DOMAIN list.rows PROVE i \in 1..FoundCount /\ list.rows[i].id = FoundNow[i] /\ FoundNow[i] \in K
    BY <2>1, <2>2, <2>3, <2>5
  <2>7. /\ Displayed \subseteq DOMAIN list.rows
        /\ \A i \in DOMAIN list.rows : i \in Displayed <=> list.rows[i].id \in W
    <3>1. kind.client \/ kind.sends
      BY <1>1 DEF MiniListTyped, ListPages, ModulePage, DevicePage, WorkersPage
    <3>2. ASSUME NEW r \in K PROVE r \in W <=> (kind.client => r \in ByTab[filter.tab])
      BY <3>1, <3>2 DEF K, W, AskedRows, WantedRows
    <3> QED
      BY <2>6, <3>2 DEF Displayed
  <2>8. W \subseteq K
    <3>1. ByTab[filter.tab] \subseteq Rows
      BY <1>1, MiniListAssumption DEF MiniListTyped, Filters
    <3> QED
      BY <3>1 DEF W, K, AskedRows, WantedRows
  <2>12. DOMAIN ids = Displayed /\ \A i \in Displayed : ids[i] = FoundNow[i] /\ ids[i] \in W
    BY <2>6, <2>7
  <2> HIDE DEF ids, W
  <2>9. Range(ids) \subseteq W
    BY <2>12 DEF Range
  <2>10. IsInjective(ids)
    <3>1. ASSUME NEW i \in DOMAIN ids, NEW j \in DOMAIN ids, i # j PROVE ids[i] # ids[j]
      <4>1. /\ i \in 1..FoundCount /\ j \in 1..FoundCount /\ ids[i] = FoundNow[i] /\ ids[j] = FoundNow[j]
            /\ FoundNow[i] \in Nat /\ FoundNow[j] \in Nat
        BY <2>2, <2>6, <2>7, <2>12
      <4>2. CASE i < j
        BY <2>3, <4>1, <4>2
      <4>3. CASE j < i
        BY <2>3, <4>1, <4>3
      <4> QED
        BY <3>1, <4>1, <4>2, <4>3
    <3> QED
      BY <3>1 DEF IsInjective
  <2>11. ~list.more => W \subseteq Range(ids)
    <3>1. SUFFICES ASSUME ~list.more, NEW r \in W PROVE r \in Range(ids)
      OBVIOUS
    <3>2. PICK i \in 1..FoundCount : FoundNow[i] = r
      BY <2>4, <2>8
    <3>3. i \in DOMAIN list.rows /\ list.rows[i].id = r
      BY <2>1, <2>2, <2>5, <3>1, <3>2
    <3>4. i \in Displayed
      BY <2>7, <3>3
    <3> QED
      BY <2>12, <3>2, <3>4 DEF Range
  <2> QED
    BY <2>9, <2>10, <2>11 DEF W, ids
<1> QED
  BY <1>1, <1>2, ListIsTyped DEF ListInv, ListIsOfItsFilter

-----------------------------------------------------------------------------
(***************************************************************************)
(* The attendance page of the mini program, for any dates, people and      *)
(* touches, and any number of answers on their way.                        *)
(***************************************************************************)

Details == [visible : BOOLEAN, who : People \cup {NONE}, records : People \cup {NONE},
            calendar : People \cup {NONE}]
AttendanceCalls == [kind : {"stats", "all", "day", "person", "calendar"}, date : Dates,
                    who : People \cup {NONE}, records : Dates \cup {NONE}]

AttendanceTyped ==
  /\ active \in Dates /\ stage \in {"stats", "data"}
  /\ shown \in Dates \cup {NONE} /\ summary \in Dates \cup {NONE} /\ stats \in Dates \cup {NONE}
  /\ days \in [Dates -> Dates \cup {NONE}]
  /\ months \subseteq Months
  /\ detail \in Details
  /\ calls \subseteq AttendanceCalls
  /\ overtaken \in BOOLEAN
  /\ touches \in 0..MaxTouches

\* The first load, unless it was overtaken, is for the date that is active.
FirstLoadIsOfActive ==
  ~overtaken => \A c \in calls : c.kind = "all" => c.date = active

\* A call for a date that has records carries that date's.
CallsCarryTheirOwn ==
  ~overtaken => \A c \in calls : c.kind = "day" => c.records \in {NONE, c.date}

\* The property, which is inductive with the rest.
AttendanceInv ==
  /\ AttendanceTyped /\ FirstLoadIsOfActive /\ CallsCarryTheirOwn
  /\ RecordsAreFiledRight

LEMMA AttendanceInvInit ==
  ASSUME MiniAttendanceInit
  PROVE  AttendanceInv
<1>1. PICK c : c = Call("stats", active, NONE, NONE) /\ calls = {c}
  BY DEF MiniAttendanceInit
<1>2. c \in AttendanceCalls /\ c.kind = "stats"
  BY <1>1 DEF MiniAttendanceInit, Call, AttendanceCalls
<1>3. detail \in Details /\ ~detail.visible
  BY DEF MiniAttendanceInit, Shut, Details
<1>4. AttendanceTyped
  <2>1. /\ active \in Dates /\ stage \in {"stats", "data"}
        /\ shown \in Dates \cup {NONE} /\ summary \in Dates \cup {NONE} /\ stats \in Dates \cup {NONE}
    BY DEF MiniAttendanceInit
  <2>2. days \in [Dates -> Dates \cup {NONE}] /\ months \subseteq Months /\ overtaken \in BOOLEAN
    BY DEF MiniAttendanceInit
  <2>3. touches \in 0..MaxTouches
    BY MiniAttendanceAssumption DEF MiniAttendanceInit
  <2> QED
    BY <1>1, <1>2, <1>3, <2>1, <2>2, <2>3 DEF AttendanceTyped
<1>5. RecordsAreFiledRight
  BY <1>3 DEF MiniAttendanceInit, RecordsAreFiledRight
<1> QED
  BY <1>1, <1>2, <1>4, <1>5 DEF AttendanceInv, FirstLoadIsOfActive, CallsCarryTheirOwn

LEMMA AttendanceIsTyped ==
  ASSUME AttendanceTyped
  PROVE  MiniAttendanceTypeOK
BY DEF AttendanceTyped, MiniAttendanceTypeOK, Details, AttendanceCalls

LEMMA SetDateKeeps ==
  ASSUME AttendanceInv, NEW d \in Dates, SetDate(d)
  PROVE  AttendanceInv'
<1> DEFINE keeps == days[d] # NONE /\ MonthOf[d] \in months
<1>1. PICK new, c :
        /\ new = Call("stats", d, NONE, NONE) /\ c = Call("day", d, NONE, days[d])
        /\ calls' = calls \cup {new} \cup (IF stage = "stats" \/ keeps THEN {} ELSE {c})
  BY DEF SetDate
<1>2. /\ touches < MaxTouches /\ touches' = touches + 1
      /\ active' = d /\ detail' = [detail EXCEPT !.visible = FALSE]
      /\ IF stage = "data" /\ keeps THEN shown' = days[d] /\ summary' = d ELSE UNCHANGED <<shown, summary>>
      /\ overtaken' = (overtaken \/ \E k \in calls : k.kind = "all" /\ k.date # d)
      /\ UNCHANGED <<stage, stats, days, months>>
  BY DEF SetDate, Touch, DrawList
<1>3. AttendanceTyped
  BY DEF AttendanceInv
<1>4. days[d] \in Dates \cup {NONE}
  BY <1>3 DEF AttendanceTyped
<1>5. /\ new \in AttendanceCalls /\ new.kind = "stats"
      /\ c \in AttendanceCalls /\ c.kind = "day" /\ c.date = d /\ c.records = days[d]
  BY <1>1, <1>4 DEF Call, AttendanceCalls
<1>6. calls' \subseteq AttendanceCalls /\ calls' \subseteq calls \cup {new, c}
  BY <1>1, <1>3, <1>5 DEF AttendanceTyped
<1>7. detail' \in Details /\ ~detail'.visible
  BY <1>2, <1>3 DEF AttendanceTyped, Details
<1>8. AttendanceTyped'
  <2>1. touches' \in 0..MaxTouches
    BY <1>2, <1>3, MiniAttendanceAssumption DEF AttendanceTyped
  <2>2. shown' \in Dates \cup {NONE} /\ summary' \in Dates \cup {NONE} /\ overtaken' \in BOOLEAN
    BY <1>2, <1>3, <1>4 DEF AttendanceTyped
  <2> QED
    BY <1>2, <1>3, <1>6, <1>7, <2>1, <2>2 DEF AttendanceTyped
<1>9. FirstLoadIsOfActive'
  BY <1>2, <1>5, <1>6 DEF FirstLoadIsOfActive
<1>10. ~overtaken' => ~overtaken
  BY <1>2, <1>3 DEF AttendanceTyped
<1>11. ~overtaken => days[d] \in {NONE, d}
  BY DEF AttendanceInv, RecordsAreFiledRight
<1>12. CallsCarryTheirOwn'
  BY <1>5, <1>6, <1>10, <1>11 DEF AttendanceInv, CallsCarryTheirOwn
<1>13. RecordsAreFiledRight'
  BY <1>2, <1>7, <1>10 DEF AttendanceInv, RecordsAreFiledRight
<1> QED
  BY <1>8, <1>9, <1>12, <1>13 DEF AttendanceInv

LEMMA OpenDetailKeeps ==
  ASSUME AttendanceInv, NEW w \in People, OpenDetail(w)
  PROVE  AttendanceInv'
<1>1. PICK a, b :
        /\ a = Call("person", active, w, NONE) /\ b = Call("calendar", active, w, NONE)
        /\ calls' \subseteq calls \cup {a, b}
  BY DEF OpenDetail
<1>2. /\ touches < MaxTouches /\ touches' = touches + 1
      /\ detail' = [visible |-> TRUE, who |-> w, records |-> w,
                    calendar |-> IF MonthOf[active] \in months THEN w ELSE NONE]
      /\ UNCHANGED <<active, stage, shown, summary, stats, days, months, overtaken>>
  BY DEF OpenDetail, Touch
<1>3. AttendanceTyped /\ active \in Dates
  BY DEF AttendanceInv, AttendanceTyped
<1>4. a \in AttendanceCalls /\ a.kind = "person" /\ b \in AttendanceCalls /\ b.kind = "calendar"
  BY <1>1, <1>3 DEF Call, AttendanceCalls
<1>5. detail' \in Details /\ detail'.records = detail'.who
  BY <1>2 DEF Details
<1>6. touches' \in 0..MaxTouches
  BY <1>2, <1>3, MiniAttendanceAssumption DEF AttendanceTyped
<1>7. calls' \subseteq AttendanceCalls
  BY <1>1, <1>3, <1>4 DEF AttendanceTyped
<1>8. AttendanceTyped'
  BY <1>2, <1>3, <1>5, <1>6, <1>7 DEF AttendanceTyped
<1>9. FirstLoadIsOfActive' /\ CallsCarryTheirOwn'
  BY <1>1, <1>2, <1>4 DEF AttendanceInv, FirstLoadIsOfActive, CallsCarryTheirOwn
<1>10. RecordsAreFiledRight'
  BY <1>2, <1>5 DEF AttendanceInv, RecordsAreFiledRight
<1> QED
  BY <1>8, <1>9, <1>10 DEF AttendanceInv

\* The counts that come first are followed by the load of everything.
LEMMA TakeCountsKeeps ==
  ASSUME AttendanceInv, NEW c \in calls, NEW ok \in BOOLEAN, TakeCounts(c, ok)
  PROVE  AttendanceInv'
<1>1. PICK a :
        /\ a = Call("all", active, NONE, NONE)
        /\ calls' \subseteq calls \cup {a}
        /\ stage' \in {stage, "data"}
  BY DEF TakeCounts, Answered
<1>2. /\ stats' = (IF ok THEN c.date ELSE shown)
      /\ UNCHANGED <<active, shown, summary, days, months, detail, overtaken, touches>>
  BY DEF TakeCounts
<1>3. AttendanceTyped /\ active \in Dates /\ c \in AttendanceCalls /\ c.date \in Dates
  BY DEF AttendanceInv, AttendanceTyped, AttendanceCalls
<1>4. a \in AttendanceCalls /\ a.kind = "all" /\ a.date = active
  BY <1>1, <1>3 DEF Call, AttendanceCalls
<1>5. AttendanceTyped'
  BY <1>1, <1>2, <1>3, <1>4 DEF AttendanceTyped
<1>6. FirstLoadIsOfActive' /\ CallsCarryTheirOwn'
  BY <1>1, <1>2, <1>4 DEF AttendanceInv, FirstLoadIsOfActive, CallsCarryTheirOwn
<1>7. RecordsAreFiledRight'
  BY <1>2 DEF AttendanceInv, RecordsAreFiledRight
<1> QED
  BY <1>5, <1>6, <1>7 DEF AttendanceInv

\* Records come, for some date, and are filed under one.
LEMMA FiledKeeps ==
  ASSUME AttendanceInv, NEW c \in calls, NEW d \in Dates, NEW r \in Dates, NEW e \in Dates,
         days' = [days EXCEPT ![d] = r], ~overtaken => r = d,
         shown' = r, summary' = e, months' = months \cup {MonthOf[c.date]}, calls' = calls \ {c},
         UNCHANGED <<active, stage, stats, detail, overtaken, touches>>
  PROVE  AttendanceInv'
<1>1. AttendanceTyped /\ c.date \in Dates
  BY DEF AttendanceInv, AttendanceTyped, AttendanceCalls
<1>2. days \in [Dates -> Dates \cup {NONE}] /\ MonthOf[c.date] \in Months
  BY <1>1, MiniAttendanceAssumption DEF AttendanceTyped
<1>3. AttendanceTyped'
  BY <1>1, <1>2 DEF AttendanceTyped
<1>4. FirstLoadIsOfActive' /\ CallsCarryTheirOwn'
  BY DEF AttendanceInv, FirstLoadIsOfActive, CallsCarryTheirOwn
<1>5. RecordsAreFiledRight'
  BY <1>2 DEF AttendanceInv, RecordsAreFiledRight
<1> QED
  BY <1>3, <1>4, <1>5 DEF AttendanceInv

LEMMA TakeAllKeeps ==
  ASSUME AttendanceInv, NEW c \in calls, TakeAll(c)
  PROVE  AttendanceInv'
<1>1. /\ c.kind = "all" /\ shown' = c.date /\ summary' = active
      /\ days' = [days EXCEPT ![active] = c.date] /\ months' = months \cup {MonthOf[c.date]}
      /\ calls' = calls \ {c} /\ UNCHANGED <<active, stage, stats, detail, overtaken, touches>>
  BY DEF TakeAll, DrawList, Answered
<1>2. active \in Dates /\ c.date \in Dates
  BY DEF AttendanceInv, AttendanceTyped, AttendanceCalls
<1>3. ~overtaken => c.date = active
  BY <1>1 DEF AttendanceInv, FirstLoadIsOfActive
<1> QED
  BY <1>1, <1>2, <1>3, FiledKeeps

LEMMA TakeDayKeeps ==
  ASSUME AttendanceInv, NEW c \in calls, TakeDay(c)
  PROVE  AttendanceInv'
<1>1. PICK r :
        /\ c.kind = "day" /\ r = (IF c.records = NONE THEN c.date ELSE c.records)
        /\ shown' = r /\ summary' = c.date
        /\ days' = [days EXCEPT ![c.date] = r] /\ months' = months \cup {MonthOf[c.date]}
        /\ calls' = calls \ {c} /\ UNCHANGED <<active, stage, stats, detail, overtaken, touches>>
  BY DEF TakeDay, DrawList, Answered
<1>2. c.date \in Dates /\ r \in Dates
  BY <1>1 DEF AttendanceInv, AttendanceTyped, AttendanceCalls
<1>3. ~overtaken => r = c.date
  BY <1>1 DEF AttendanceInv, CallsCarryTheirOwn
<1> QED
  BY <1>1, <1>2, <1>3, FiledKeeps

\* The details change, and the calls that have been answered go.
LEMMA DetailsKeep ==
  ASSUME AttendanceInv, calls' \subseteq calls, detail' \in Details,
         detail'.visible => detail'.records = detail'.who,
         months' \subseteq Months, summary' \in Dates \cup {NONE},
         UNCHANGED <<active, stage, shown, stats, days, overtaken, touches>>
  PROVE  AttendanceInv'
<1>1. AttendanceTyped'
  BY DEF AttendanceInv, AttendanceTyped
<1>2. FirstLoadIsOfActive' /\ CallsCarryTheirOwn'
  BY DEF AttendanceInv, FirstLoadIsOfActive, CallsCarryTheirOwn
<1>3. RecordsAreFiledRight'
  BY DEF AttendanceInv, RecordsAreFiledRight
<1> QED
  BY <1>1, <1>2, <1>3 DEF AttendanceInv

LEMMA AttendanceInvStep ==
  ASSUME AttendanceInv, [MiniAttendanceNext]_attendanceVars
  PROVE  AttendanceInv'
<1>1. /\ detail \in Details /\ (detail.visible => detail.records = detail.who)
      /\ months \subseteq Months /\ summary \in Dates \cup {NONE} /\ active \in Dates
  BY DEF AttendanceInv, AttendanceTyped, RecordsAreFiledRight
<1>2. CASE UNCHANGED attendanceVars
  BY <1>1, <1>2, DetailsKeep DEF attendanceVars
<1>3. ASSUME NEW d \in Dates, SetDate(d) PROVE AttendanceInv'
  BY <1>3, SetDateKeeps
<1>4. ASSUME NEW w \in People, OpenDetail(w) PROVE AttendanceInv'
  BY <1>4, OpenDetailKeeps
<1>5. CASE CloseDetail
  <2>1. Shut \in Details /\ ~Shut.visible
    BY DEF Shut, Details
  <2> QED
    BY <1>1, <1>5, <2>1, DetailsKeep DEF CloseDetail
<1>6. ASSUME NEW c \in calls, NEW ok \in BOOLEAN, TakeCounts(c, ok) PROVE AttendanceInv'
  BY <1>6, TakeCountsKeeps
<1>7. ASSUME NEW c \in calls, TakeAll(c) PROVE AttendanceInv'
  BY <1>7, TakeAllKeeps
<1>8. ASSUME NEW c \in calls, TakeDay(c) PROVE AttendanceInv'
  BY <1>8, TakeDayKeeps
<1>9. ASSUME NEW c \in calls, TakePerson(c) PROVE AttendanceInv'
  <2>1. c \in AttendanceCalls /\ c.who \in People \cup {NONE}
    BY DEF AttendanceInv, AttendanceTyped, AttendanceCalls
  <2>2. /\ detail' = IF detail.who = c.who THEN [detail EXCEPT !.records = c.who] ELSE detail
        /\ calls' \subseteq calls
        /\ UNCHANGED <<active, stage, shown, summary, stats, days, months, overtaken, touches>>
    BY <1>9 DEF TakePerson, Answered
  <2>3. detail' \in Details /\ (detail'.visible => detail'.records = detail'.who)
    BY <1>1, <2>1, <2>2 DEF Details
  <2> QED
    BY <1>1, <2>2, <2>3, DetailsKeep
<1>10. ASSUME NEW c \in calls, TakeCalendar(c) PROVE AttendanceInv'
  <2>1. c.who \in People \cup {NONE} /\ MonthOf[c.date] \in Months
    BY MiniAttendanceAssumption DEF AttendanceInv, AttendanceTyped, AttendanceCalls
  <2>2. /\ detail' = [detail EXCEPT !.calendar = c.who] /\ calls' \subseteq calls
        /\ months' = months \cup {MonthOf[c.date]} /\ summary' = active
        /\ UNCHANGED <<active, stage, shown, stats, days, overtaken, touches>>
    BY <1>10 DEF TakeCalendar, Answered
  <2>3. detail' \in Details /\ (detail'.visible => detail'.records = detail'.who)
    BY <1>1, <2>1, <2>2 DEF Details
  <2> QED
    BY <1>1, <2>1, <2>2, <2>3, DetailsKeep
<1>11. ASSUME NEW c \in calls, FailCall(c) PROVE AttendanceInv'
  <2>1. calls' \subseteq calls /\ UNCHANGED <<active, stage, shown, summary, stats, days, months, detail, overtaken, touches>>
    BY <1>11 DEF FailCall, Answered
  <2> QED
    BY <1>1, <2>1, DetailsKeep
<1> QED
  BY <1>2, <1>3, <1>4, <1>5, <1>6, <1>7, <1>8, <1>9, <1>10, <1>11 DEF MiniAttendanceNext

-----------------------------------------------------------------------------
(***************************************************************************)
(* The camera page of the mini program, for any zooms its cameras have,    *)
(* acts of the user and answers on their way.                              *)
(***************************************************************************)

\* Nothing, or one number.
Seen == {<<>>} \cup {<<k>> : k \in Nat}

Cameras == [alive : BOOLEAN, blocked : BOOLEAN, ready : BOOLEAN, inited : BOOLEAN, remounting : BOOLEAN,
            mountDue : BOOLEAN, stopDue : BOOLEAN, side : Sides, zoom : Zooms, changing : BOOLEAN]
ZoomCalls == [zoom : Zooms, side : Sides, persist : BOOLEAN]
PunchStates == [stage : {"photo", "sent", "punched"}, location : Seen, since : Nat]
ListRequests == [after : {"show", "punch"}, n : Nat, found : Seen]

CameraIsTyped == camera \in Cameras /\ acts \in 0..MaxActs

ZoomsTyped == saved \in [Sides -> Zooms] /\ zoomings \subseteq ZoomCalls /\ picked \subseteq Sides \X Zooms

\* A zoom that is set to be remembered was chosen for the side it is set for.
ZoomsWerePicked ==
  /\ \A c \in zoomings : c.persist => <<c.side, c.zoom>> \in picked
  /\ \A s \in Sides : saved[s] = 1 \/ <<s, saved[s]>> \in picked

\* The place is the one last asked for, and that was since the user came.
PlaceIsOfNow ==
  /\ version \in Nat \ {0} /\ locatings \subseteq 1..version
  /\ visit \in [hidden : BOOLEAN, remountDue : BOOLEAN, since : 1..version]
  /\ location \in {<<>>, <<version>>}

\* A punch keeps the place of the visit in which it was made.
PunchIsOfItsVisit ==
  /\ punch # <<>> => punch \in PunchStates /\ (punch.location # <<>> => punch.location[1] >= punch.since)
  /\ sent # <<>> /\ sent.location # <<>> => sent.location[1] >= sent.since

ListTyped ==
  /\ punched \in Nat /\ assured \in 0..punched
  /\ records \in [holds : 0..punched, loading : BOOLEAN]
  /\ listings \subseteq ListRequests
  /\ \A c \in listings : c.found # <<>> => c.found[1] \in 0..punched
  /\ unlisted \in BOOLEAN

\* What a success was shown for is in the list or will come with an answer.
ListWillHavePunches ==
  ~unlisted => \/ records.holds >= assured
               \/ \E c \in listings : c.found = <<>> \/ c.found[1] >= assured

\* The properties follow, part by part.
CameraInv ==
  /\ CameraIsTyped /\ ZoomsTyped /\ ZoomsWerePicked /\ PlaceIsOfNow /\ PunchIsOfItsVisit
  /\ ListTyped /\ ListWillHavePunches

LEMMA WhatIsSeen ==
  /\ <<>> \in Seen
  /\ \A x \in Seen : x # <<>> => x[1] \in Nat
  /\ \A k \in Nat : <<k>> \in Seen /\ <<k>> # <<>> /\ <<k>>[1] = k
BY DEF Seen

LEMMA CameraInvSuffices ==
  ASSUME CameraInv
  PROVE  MiniCameraTypeOK /\ PunchesAreRight
<1>1. version \in Nat \ {0} /\ location \in {<<>>} \cup {<<v>> : v \in 1..version}
  BY DEF CameraInv, PlaceIsOfNow
<1>2. punch = <<>> \/ punch.stage \in {"photo", "sent", "punched"}
  BY DEF CameraInv, PunchIsOfItsVisit, PunchStates
<1>3. /\ assured \in 0..punched /\ records.holds \in 0..punched /\ unlisted \in BOOLEAN
      /\ \A c \in listings : c.found = <<>> \/ c.found[1] \in 0..punched
  BY DEF CameraInv, ListTyped
<1>4. MiniCameraTypeOK
  BY <1>1, <1>2, <1>3 DEF CameraInv, CameraIsTyped, ZoomsTyped, PlaceIsOfNow, MiniCameraTypeOK, Cameras, ZoomCalls
<1>5. PunchesAreRight
  BY DEF CameraInv, ZoomsWerePicked, PunchIsOfItsVisit, ListWillHavePunches, PunchesAreRight
<1> QED
  BY <1>4, <1>5

LEMMA CameraInvInit ==
  ASSUME MiniCameraInit
  PROVE  CameraInv
<1> USE DEF MiniCameraInit
<1>1. CameraIsTyped
  BY MiniCameraAssumption DEF CameraIsTyped, Cameras, Sides, Zooms
<1>2. ZoomsTyped /\ ZoomsWerePicked
  BY DEF ZoomsTyped, ZoomsWerePicked, Zooms
<1>3. PlaceIsOfNow
  BY DEF PlaceIsOfNow
<1>4. PunchIsOfItsVisit
  BY DEF PunchIsOfItsVisit
<1>5. PICK c : c = Asks("show", 1) /\ listings = {c}
  OBVIOUS
<1>6. c \in ListRequests /\ c.found = <<>>
  BY <1>5, WhatIsSeen DEF Asks, ListRequests
<1>7. ListTyped
  <2>1. records \in [holds : 0..0, loading : BOOLEAN] /\ punched = 0 /\ assured = 0 /\ unlisted = FALSE
    OBVIOUS
  <2>2. listings \subseteq ListRequests /\ \A k \in listings : k.found = <<>>
    BY <1>5, <1>6
  <2> HIDE DEF MiniCameraInit
  <2>3. punched \in Nat /\ assured \in 0..punched /\ records \in [holds : 0..punched, loading : BOOLEAN]
    BY <2>1
  <2> QED
    BY <2>1, <2>2, <2>3 DEF ListTyped
<1>8. ListWillHavePunches
  BY DEF ListWillHavePunches
<1> QED
  BY <1>1, <1>2, <1>3, <1>4, <1>7, <1>8 DEF CameraInv

\* What each group of variables says, while it does not change.
LEMMA ZoomsStay == ASSUME CameraInv, UNCHANGED zoomVars PROVE ZoomsTyped' /\ ZoomsWerePicked'
BY DEF CameraInv, zoomVars, ZoomsTyped, ZoomsWerePicked

LEMMA PlaceStays == ASSUME CameraInv, UNCHANGED placeVars PROVE PlaceIsOfNow'
BY DEF CameraInv, placeVars, PlaceIsOfNow

LEMMA PunchStays == ASSUME CameraInv, punch' \in {punch, <<>>}, sent' = sent PROVE PunchIsOfItsVisit'
BY DEF CameraInv, PunchIsOfItsVisit

LEMMA RecordsStay == ASSUME CameraInv, UNCHANGED <<punched, assured, recordVars>> PROVE ListTyped' /\ ListWillHavePunches'
BY DEF CameraInv, recordVars, ListTyped, ListWillHavePunches

LEMMA ActsAreCounted == ASSUME CameraInv, Act PROVE acts' \in 0..MaxActs
BY MiniCameraAssumption DEF CameraInv, CameraIsTyped, Act

\* The camera is mounted again.
LEMMA RemountedIsTyped == ASSUME NEW c \in Cameras PROVE Remounted(c) \in Cameras
BY DEF Remounted, Cameras

\* Steps of the camera alone.
LEMMA CameraAloneKeeps ==
  ASSUME CameraInv, camera' \in Cameras, acts' \in 0..MaxActs,
         UNCHANGED <<zoomVars, placeVars, punchVars, recordVars>>
  PROVE  CameraInv'
<1>1. UNCHANGED zoomVars /\ UNCHANGED placeVars /\ UNCHANGED <<punch, punched, sent, assured, recordVars>>
  BY DEF punchVars
<1>2. CameraIsTyped'
  BY DEF CameraIsTyped
<1>3. UNCHANGED <<punched, assured, recordVars>> /\ punch' \in {punch, <<>>} /\ sent' = sent
  BY <1>1
<1> QED
  BY <1>1, <1>2, <1>3, ZoomsStay, PlaceStays, PunchStays, RecordsStay DEF CameraInv

\* applyZoom: a zoom that is to be remembered was picked just now.
LEMMA ApplyZoomKeeps ==
  ASSUME CameraInv, NEW c \in Cameras, NEW z \in Zooms, NEW persist \in BOOLEAN,
         ApplyZoom(c, z, persist), saved' = saved, picked \subseteq picked', picked' \subseteq Sides \X Zooms,
         persist => <<c.side, z>> \in picked',
         acts' \in 0..MaxActs, UNCHANGED <<placeVars, punchVars, recordVars>>
  PROVE  CameraInv'
<1>1. PICK k : /\ k = [zoom |-> z, side |-> c.side, persist |-> persist]
               /\ \/ camera' = c /\ zoomings' = zoomings
                  \/ camera' = [c EXCEPT !.changing = TRUE] /\ zoomings' = zoomings \cup {k}
  BY DEF ApplyZoom
<1>2. camera' \in Cameras /\ c.side \in Sides
  BY <1>1 DEF Cameras
<1>3. k \in ZoomCalls /\ k.persist = persist /\ k.side = c.side /\ k.zoom = z
  BY <1>1, <1>2 DEF ZoomCalls
<1>4. CameraIsTyped'
  BY <1>2 DEF CameraIsTyped
<1>5. ZoomsTyped'
  BY <1>1, <1>3 DEF CameraInv, ZoomsTyped
<1>6. ZoomsWerePicked'
  BY <1>1, <1>3 DEF CameraInv, ZoomsWerePicked
<1>7. punch' \in {punch, <<>>} /\ sent' = sent /\ UNCHANGED <<punched, assured, recordVars>>
  BY DEF punchVars
<1> QED
  BY <1>4, <1>5, <1>6, <1>7, PlaceStays, PunchStays, RecordsStay DEF CameraInv

LEMMA InitDoneKeeps ==
  ASSUME CameraInv, InitDone
  PROVE  CameraInv'
<1>1. PICK c, z :
        /\ c = [camera EXCEPT !.ready = TRUE, !.inited = TRUE, !.zoom = 1]
        /\ z = (IF saved[camera.side] > MaxZoom[camera.side] THEN MaxZoom[camera.side] ELSE saved[camera.side])
        /\ ApplyZoom(c, z, FALSE)
        /\ UNCHANGED <<saved, picked, placeVars, punchVars, recordVars, acts>>
  BY DEF InitDone
<1>2. camera \in Cameras /\ camera.side \in Sides /\ acts' \in 0..MaxActs
  BY <1>1 DEF CameraInv, CameraIsTyped, Cameras
<1>3. c \in Cameras
  <2>1. c = [camera EXCEPT !.ready = TRUE, !.inited = TRUE, !.zoom = 1] /\ 1 \in Zooms
    BY <1>1 DEF Zooms
  <2> QED
    BY <1>2, <2>1 DEF Cameras
<1>4. z \in Zooms
  BY <1>1, <1>2, MiniCameraAssumption DEF CameraInv, ZoomsTyped
<1>5. picked \subseteq picked' /\ picked' \subseteq Sides \X Zooms /\ saved' = saved
  BY <1>1 DEF CameraInv, ZoomsTyped
<1>6. UNCHANGED <<placeVars, punchVars, recordVars>>
  BY <1>1
<1> QED
  BY <1>1, <1>2, <1>3, <1>4, <1>5, <1>6, ApplyZoomKeeps

LEMMA SelectZoomKeeps ==
  ASSUME CameraInv, NEW z \in Zooms, SelectZoom(z)
  PROVE  CameraInv'
<1>1. /\ Act /\ ApplyZoom(camera, z, TRUE) /\ picked' = picked \cup {<<camera.side, z>>}
      /\ UNCHANGED <<saved, placeVars, punchVars, recordVars>>
  BY DEF SelectZoom
<1>2. camera \in Cameras /\ camera.side \in Sides /\ acts' \in 0..MaxActs
  BY <1>1, ActsAreCounted DEF CameraInv, CameraIsTyped, Cameras
<1>3. /\ picked \subseteq picked' /\ picked' \subseteq Sides \X Zooms /\ saved' = saved
      /\ <<camera.side, z>> \in picked'
  BY <1>1, <1>2 DEF CameraInv, ZoomsTyped
<1>4. UNCHANGED <<placeVars, punchVars, recordVars>>
  BY <1>1
<1> QED
  BY <1>1, <1>2, <1>3, <1>4, ApplyZoomKeeps

\* The zoom is remembered for the side it was set for.
LEMMA ZoomSetKeeps ==
  ASSUME CameraInv, NEW c \in zoomings, NEW ok \in BOOLEAN, ZoomSet(c, ok)
  PROVE  CameraInv'
<1>1. /\ zoomings' = zoomings \ {c}
      /\ camera' = [camera EXCEPT !.changing = FALSE, !.zoom = IF ok THEN c.zoom ELSE @]
      /\ saved' = (IF ok /\ c.persist THEN [saved EXCEPT ![c.side] = c.zoom] ELSE saved)
      /\ picked' = picked /\ acts' = acts /\ UNCHANGED <<placeVars, punchVars, recordVars>>
  BY DEF ZoomSet
<1>2. c.zoom \in Zooms /\ c.side \in Sides /\ saved \in [Sides -> Zooms]
  BY DEF CameraInv, ZoomsTyped, ZoomCalls
<1>3. camera \in Cameras /\ acts' \in 0..MaxActs
  BY <1>1 DEF CameraInv, CameraIsTyped
<1>4. CameraIsTyped'
  <2>1. camera' \in Cameras
    BY <1>1, <1>2, <1>3 DEF Cameras
  <2> QED
    BY <1>3, <2>1 DEF CameraIsTyped
<1>5. ZoomsTyped'
  BY <1>1, <1>2 DEF CameraInv, ZoomsTyped
<1>6. ZoomsWerePicked'
  <2>1. c.persist => <<c.side, c.zoom>> \in picked
    BY DEF CameraInv, ZoomsWerePicked
  <2>2. ASSUME NEW s \in Sides PROVE saved'[s] = 1 \/ <<s, saved'[s]>> \in picked
    <3>1. saved[s] = 1 \/ <<s, saved[s]>> \in picked
      BY DEF CameraInv, ZoomsWerePicked
    <3>2. saved'[s] = saved[s] \/ (c.persist /\ s = c.side /\ saved'[s] = c.zoom)
      BY <1>1, <1>2
    <3> QED
      BY <2>1, <3>1, <3>2
  <2> QED
    BY <1>1, <2>2 DEF CameraInv, ZoomsWerePicked
<1>7. punch' \in {punch, <<>>} /\ sent' = sent /\ UNCHANGED <<punched, assured, recordVars>> /\ UNCHANGED placeVars
  BY <1>1 DEF punchVars
<1> QED
  BY <1>4, <1>5, <1>6, <1>7, PlaceStays, PunchStays, RecordsStay DEF CameraInv

LEMMA CameraStepsKeep ==
  ASSUME CameraInv,
         \/ MountTimer \/ RemountTimer \/ ToggleCamera \/ CameraStops \/ StopTimer
         \/ CameraBlocked \/ OpenSystemSetting
  PROVE  CameraInv'
<1>1. camera \in Cameras /\ acts \in 0..MaxActs
  BY DEF CameraInv, CameraIsTyped
<1>2. CASE MountTimer
  <2>1. camera' \in Cameras /\ acts' \in 0..MaxActs /\ UNCHANGED <<zoomVars, placeVars, punchVars, recordVars>>
    BY <1>1, <1>2 DEF MountTimer, Cameras
  <2> QED
    BY <2>1, CameraAloneKeeps
<1>3. CASE RemountTimer
  <2>1. camera' \in Cameras /\ acts' \in 0..MaxActs /\ UNCHANGED <<zoomVars, placeVars, punchVars, recordVars>>
    BY <1>1, <1>3 DEF RemountTimer, Cameras
  <2> QED
    BY <2>1, CameraAloneKeeps
<1>4. CASE ToggleCamera
  <2>1. PICK c : c = [camera EXCEPT !.side = IF @ = "front" THEN "back" ELSE "front"] /\ camera' = Remounted(c)
    BY <1>4 DEF ToggleCamera
  <2>2. c \in Cameras
    BY <1>1, <2>1 DEF Cameras, Sides
  <2>3. acts' \in 0..MaxActs /\ UNCHANGED <<zoomVars, placeVars, punchVars, recordVars>>
    BY <1>4, ActsAreCounted DEF ToggleCamera
  <2> QED
    BY <2>1, <2>2, <2>3, RemountedIsTyped, CameraAloneKeeps
<1>5. CASE CameraStops
  <2>1. camera' \in Cameras
    BY <1>1, <1>5 DEF CameraStops, Cameras
  <2>2. acts' \in 0..MaxActs /\ UNCHANGED <<zoomVars, placeVars, punchVars, recordVars>>
    BY <1>5, ActsAreCounted DEF CameraStops
  <2> QED
    BY <2>1, <2>2, CameraAloneKeeps
<1>6. CASE StopTimer
  <2>1. PICK c : c = [camera EXCEPT !.stopDue = FALSE] /\ camera' = Remounted(c)
    BY <1>6 DEF StopTimer
  <2>2. c \in Cameras
    BY <1>1, <2>1 DEF Cameras
  <2>3. acts' \in 0..MaxActs /\ UNCHANGED <<zoomVars, placeVars, punchVars, recordVars>>
    BY <1>1, <1>6 DEF StopTimer
  <2> QED
    BY <2>1, <2>2, <2>3, RemountedIsTyped, CameraAloneKeeps
<1>7. CASE CameraBlocked
  <2>1. camera' \in Cameras
    BY <1>1, <1>7 DEF CameraBlocked, Cameras
  <2>2. acts' \in 0..MaxActs /\ UNCHANGED <<zoomVars, placeVars, punchVars, recordVars>>
    BY <1>7, ActsAreCounted DEF CameraBlocked
  <2> QED
    BY <2>1, <2>2, CameraAloneKeeps
<1>8. CASE OpenSystemSetting
  <2>1. camera' \in Cameras /\ acts' \in 0..MaxActs /\ UNCHANGED <<zoomVars, placeVars, punchVars, recordVars>>
    BY <1>1, <1>8 DEF OpenSystemSetting, Cameras
  <2> QED
    BY <2>1, CameraAloneKeeps
<1> QED
  BY <1>2, <1>3, <1>4, <1>5, <1>6, <1>7, <1>8

\* Steps of the place, and coming back.
LEMMA PlaceMovesKeep ==
  ASSUME CameraInv, PlaceIsOfNow', camera' \in Cameras, acts' \in 0..MaxActs,
         UNCHANGED <<zoomVars, punchVars>>, ListTyped', ListWillHavePunches'
  PROVE  CameraInv'
<1>1. punch' \in {punch, <<>>} /\ sent' = sent
  BY DEF punchVars
<1>2. CameraIsTyped'
  BY DEF CameraIsTyped
<1> QED
  BY <1>1, <1>2, ZoomsStay, PunchStays DEF CameraInv

\* What was located for an earlier version is not the place.
LEMMA LocateKeeps ==
  ASSUME PlaceIsOfNow, version' = version + 1, location' = <<>>, locatings' \subseteq locatings \cup {version'},
         visit' = visit \/ visit' \in [hidden : BOOLEAN, remountDue : BOOLEAN, since : {visit.since, version'}]
  PROVE  PlaceIsOfNow'
<1>1. /\ version \in Nat \ {0} /\ locatings \subseteq 1..version
      /\ visit \in [hidden : BOOLEAN, remountDue : BOOLEAN, since : 1..version] /\ visit.since \in 1..version
  BY DEF PlaceIsOfNow
<1>2. version' \in Nat \ {0} /\ 1..version \subseteq 1..version' /\ version' \in 1..version'
  BY <1>1
<1>3. locatings' \subseteq 1..version'
  BY <1>1, <1>2
<1>4. visit' \in [hidden : BOOLEAN, remountDue : BOOLEAN, since : 1..version']
  BY <1>1, <1>2
<1> QED
  BY <1>2, <1>3, <1>4 DEF PlaceIsOfNow

LEMMA PlaceStepsKeep ==
  ASSUME CameraInv,
         RefreshLocation \/ OnHide \/ \E v \in locatings, ok \in BOOLEAN : Located(v, ok)
  PROVE  CameraInv'
<1>1. camera \in Cameras /\ acts \in 0..MaxActs /\ PlaceIsOfNow
  BY DEF CameraInv, CameraIsTyped
<1>2. CASE RefreshLocation
  <2>1. /\ version' = version + 1 /\ location' = <<>> /\ locatings' = locatings \cup {version'}
        /\ camera' = camera /\ visit' = visit /\ UNCHANGED <<zoomVars, punchVars, recordVars>>
    BY <1>2 DEF RefreshLocation, Locate
  <2>2. PlaceIsOfNow'
    BY <1>1, <2>1, LocateKeeps
  <2>3. ListTyped' /\ ListWillHavePunches'
    BY <2>1, RecordsStay DEF punchVars
  <2>4. acts' \in 0..MaxActs
    BY <1>2, ActsAreCounted DEF RefreshLocation
  <2> QED
    BY <1>1, <2>1, <2>2, <2>3, <2>4, PlaceMovesKeep
<1>3. CASE OnHide
  <2>1. /\ version' = version + 1 /\ location' = <<>> /\ locatings' = locatings
        /\ visit' = [visit EXCEPT !.hidden = TRUE, !.remountDue = TRUE]
        /\ camera' = camera /\ UNCHANGED <<zoomVars, punchVars, recordVars>>
    BY <1>3 DEF OnHide
  <2>2. visit' \in [hidden : BOOLEAN, remountDue : BOOLEAN, since : {visit.since, version'}]
    BY <1>1, <2>1 DEF PlaceIsOfNow
  <2>3. PlaceIsOfNow'
    BY <1>1, <2>1, <2>2, LocateKeeps
  <2>4. ListTyped' /\ ListWillHavePunches'
    BY <2>1, RecordsStay DEF punchVars
  <2>5. acts' \in 0..MaxActs
    BY <1>3, ActsAreCounted DEF OnHide
  <2> QED
    BY <1>1, <2>1, <2>3, <2>4, <2>5, PlaceMovesKeep
<1>4. ASSUME NEW v \in locatings, NEW ok \in BOOLEAN, Located(v, ok) PROVE CameraInv'
  <2>1. /\ locatings' = locatings \ {v} /\ location' = (IF ok /\ v = version THEN <<v>> ELSE location)
        /\ UNCHANGED <<camera, zoomVars, visit, version, punchVars, recordVars, acts>>
    BY <1>4 DEF Located
  <2>2. PlaceIsOfNow'
    BY <1>1, <2>1 DEF PlaceIsOfNow
  <2>3. ListTyped' /\ ListWillHavePunches'
    BY <2>1, RecordsStay DEF punchVars
  <2> QED
    BY <1>1, <2>1, <2>2, <2>3, PlaceMovesKeep
<1> QED
  BY <1>2, <1>3, <1>4

\* A request for the list that is new finds what there is by then.
LEMMA AskedIsUnread ==
  ASSUME NEW after \in {"show", "punch"}, NEW n \in Nat, NEW c, c = Asks(after, n)
  PROVE  c \in ListRequests /\ c.found = <<>>
BY WhatIsSeen DEF Asks, ListRequests

LEMMA OnShowKeeps ==
  ASSUME CameraInv, OnShow
  PROVE  CameraInv'
<1>1. /\ version' = version + 1 /\ location' = <<>> /\ locatings' = locatings \cup {version'}
      /\ visit' = [hidden |-> FALSE, remountDue |-> FALSE, since |-> version']
      /\ camera' = (IF visit.remountDue THEN Remounted(camera) ELSE camera)
      /\ UNCHANGED <<zoomVars, punchVars, records, unlisted, acts>>
  BY DEF OnShow, Locate
<1>2. PICK c : c = Asks("show", version') /\ (listings' = listings \/ listings' = listings \cup {c})
  BY DEF OnShow
<1>3. PlaceIsOfNow /\ camera \in Cameras /\ version' \in Nat
  BY <1>1 DEF CameraInv, CameraIsTyped, PlaceIsOfNow
<1>4. c \in ListRequests /\ c.found = <<>>
  BY <1>2, <1>3, AskedIsUnread
<1>5. camera' \in Cameras /\ acts' \in 0..MaxActs
  BY <1>1, <1>3, RemountedIsTyped DEF CameraInv, CameraIsTyped
<1>6. PlaceIsOfNow'
  <2>1. visit' \in [hidden : BOOLEAN, remountDue : BOOLEAN, since : {visit.since, version'}]
    BY <1>1
  <2> QED
    BY <1>1, <1>3, <2>1, LocateKeeps
<1>7. UNCHANGED <<punched, assured>> /\ UNCHANGED <<zoomVars, punchVars>>
  BY <1>1 DEF punchVars
<1>8. ListTyped'
  BY <1>1, <1>2, <1>4, <1>7 DEF CameraInv, ListTyped
<1>9. ListWillHavePunches'
  BY <1>1, <1>2, <1>4, <1>7 DEF CameraInv, ListWillHavePunches
<1> QED
  BY <1>5, <1>6, <1>7, <1>8, <1>9, PlaceMovesKeep

\* Steps of the punch.
LEMMA PunchMovesKeep ==
  ASSUME CameraInv, PunchIsOfItsVisit', acts' \in 0..MaxActs, ListTyped', ListWillHavePunches',
         UNCHANGED <<camera, zoomVars, placeVars>>
  PROVE  CameraInv'
<1>1. CameraIsTyped'
  BY DEF CameraInv, CameraIsTyped
<1> QED
  BY <1>1, ZoomsStay, PlaceStays DEF CameraInv

LEMMA CaptureKeeps ==
  ASSUME CameraInv, Capture
  PROVE  CameraInv'
<1>1. /\ punch' = [stage |-> "photo", location |-> location, since |-> visit.since]
      /\ UNCHANGED <<camera, zoomVars, placeVars, punched, sent, assured, recordVars>> /\ Act
  BY DEF Capture
<1>2. /\ location \in Seen /\ visit.since \in Nat
      /\ location # <<>> => location[1] >= visit.since
  <2>1. version \in Nat /\ visit.since \in 1..version /\ location \in {<<>>, <<version>>}
    BY DEF CameraInv, PlaceIsOfNow
  <2> QED
    BY <2>1, WhatIsSeen
<1>3. punch' \in PunchStates /\ punch'.location = location /\ punch'.since = visit.since
  BY <1>1, <1>2 DEF PunchStates
<1>4. PunchIsOfItsVisit'
  BY <1>1, <1>2, <1>3 DEF CameraInv, PunchIsOfItsVisit
<1>5. ListTyped' /\ ListWillHavePunches'
  BY <1>1, RecordsStay
<1> QED
  BY <1>1, <1>4, <1>5, ActsAreCounted, PunchMovesKeep

LEMMA PhotoTakenKeeps ==
  ASSUME CameraInv, PhotoTaken
  PROVE  CameraInv'
<1>1. /\ punch # <<>> /\ punch' = [punch EXCEPT !.stage = "sent"]
      /\ sent' = [location |-> punch.location, since |-> punch.since]
      /\ UNCHANGED <<camera, zoomVars, placeVars, punched, assured, recordVars, acts>>
  BY DEF PhotoTaken
<1>2. punch \in PunchStates /\ (punch.location # <<>> => punch.location[1] >= punch.since)
  BY <1>1 DEF CameraInv, PunchIsOfItsVisit
<1>3. punch' \in PunchStates /\ punch'.location = punch.location /\ punch'.since = punch.since
  BY <1>1, <1>2 DEF PunchStates
<1>4. sent'.location = punch.location /\ sent'.since = punch.since
  BY <1>1
<1>5. PunchIsOfItsVisit'
  BY <1>2, <1>3, <1>4 DEF PunchIsOfItsVisit
<1>6. ListTyped' /\ ListWillHavePunches'
  BY <1>1, RecordsStay
<1> QED
  BY <1>1, <1>5, <1>6, PunchMovesKeep DEF CameraInv, CameraIsTyped

LEMMA RecognizedKeeps ==
  ASSUME CameraInv, Recognized
  PROVE  CameraInv'
<1>1. /\ punch # <<>> /\ punch' = [punch EXCEPT !.stage = "punched"] /\ punched' = punched + 1
      /\ UNCHANGED <<camera, zoomVars, placeVars, sent, assured, recordVars, acts>>
  BY DEF Recognized
<1>2. punch \in PunchStates /\ (punch.location # <<>> => punch.location[1] >= punch.since)
  BY <1>1 DEF CameraInv, PunchIsOfItsVisit
<1>3. punch' \in PunchStates /\ punch'.location = punch.location /\ punch'.since = punch.since
  BY <1>1, <1>2 DEF PunchStates
<1>4. PunchIsOfItsVisit'
  BY <1>1, <1>2, <1>3 DEF CameraInv, PunchIsOfItsVisit
<1>5. punched \in Nat /\ punched' \in Nat /\ 0..punched \subseteq 0..punched'
  BY <1>1 DEF CameraInv, ListTyped
<1>6. ListTyped'
  BY <1>1, <1>5 DEF CameraInv, ListTyped, recordVars
<1>7. ListWillHavePunches'
  BY <1>1 DEF CameraInv, ListWillHavePunches, recordVars
<1> QED
  BY <1>1, <1>4, <1>6, <1>7, PunchMovesKeep DEF CameraInv, CameraIsTyped

\* The list is asked for after the punch: it will have it.
LEMMA PunchShownKeeps ==
  ASSUME CameraInv, PunchShown
  PROVE  CameraInv'
<1>1. PICK c :
        /\ c = Asks("punch", punched) /\ listings' = listings \cup {c}
        /\ punch' = <<>> /\ assured' = punched
        /\ UNCHANGED <<camera, zoomVars, placeVars, punched, sent, records, unlisted, acts>>
  BY DEF PunchShown
<1>2. punched \in Nat /\ acts' \in 0..MaxActs
  BY <1>1 DEF CameraInv, ListTyped, CameraIsTyped
<1>3. c \in ListRequests /\ c.found = <<>>
  BY <1>1, <1>2, AskedIsUnread
<1>4. ListTyped'
  BY <1>1, <1>2, <1>3 DEF CameraInv, ListTyped
<1>5. ListWillHavePunches'
  BY <1>1, <1>3 DEF ListWillHavePunches
<1> QED
  BY <1>1, <1>2, <1>4, <1>5, PunchStays, PunchMovesKeep

LEMMA PunchFailsKeeps ==
  ASSUME CameraInv, PunchFails
  PROVE  CameraInv'
<1>1. punch' = <<>> /\ UNCHANGED <<camera, zoomVars, placeVars, punched, sent, assured, recordVars, acts>>
  BY DEF PunchFails
<1>2. ListTyped' /\ ListWillHavePunches' /\ acts' \in 0..MaxActs
  BY <1>1, RecordsStay DEF CameraInv, CameraIsTyped
<1> QED
  BY <1>1, <1>2, PunchStays, PunchMovesKeep

\* The list is read, brought, or not.
LEMMA ListMovesKeep ==
  ASSUME CameraInv, ListTyped', ListWillHavePunches',
         UNCHANGED <<camera, zoomVars, placeVars, punchVars, acts>>
  PROVE  CameraInv'
<1>1. punch' = punch /\ sent' = sent /\ acts' \in 0..MaxActs /\ UNCHANGED <<camera, zoomVars, placeVars>>
  BY DEF CameraInv, CameraIsTyped, punchVars
<1> QED
  BY <1>1, PunchStays, PunchMovesKeep

LEMMA FindKeeps ==
  ASSUME CameraInv, NEW c \in listings, Find(c)
  PROVE  CameraInv'
<1>1. PICK d :
        /\ d = [c EXCEPT !.found = <<punched>>] /\ listings' = (listings \ {c}) \cup {d}
        /\ UNCHANGED <<camera, zoomVars, placeVars, punchVars, records, unlisted, acts>>
  BY DEF Find
<1>2. punched \in Nat /\ assured \in 0..punched /\ c \in ListRequests /\ UNCHANGED <<punched, assured>>
  BY <1>1 DEF CameraInv, ListTyped, punchVars
<1>3. <<punched>> \in Seen /\ <<punched>> # <<>> /\ <<punched>>[1] = punched
  BY <1>2, WhatIsSeen
<1>4. d \in ListRequests /\ d.found = <<punched>>
  BY <1>1, <1>2, <1>3 DEF ListRequests
<1>5. ListTyped'
  <2>1. listings' \subseteq ListRequests
    BY <1>1, <1>4 DEF CameraInv, ListTyped
  <2>2. ASSUME NEW k \in listings', k.found # <<>> PROVE k.found[1] \in 0..punched
    <3>1. CASE k = d
      BY <1>2, <1>3, <1>4, <3>1
    <3>2. CASE k # d
      BY <1>1, <2>2, <3>2 DEF CameraInv, ListTyped
    <3> QED
      BY <3>1, <3>2
  <2> QED
    BY <1>1, <1>2, <2>1, <2>2 DEF CameraInv, ListTyped
<1>6. d.found[1] >= assured
  BY <1>2, <1>3, <1>4
<1>7. ListWillHavePunches'
  BY <1>1, <1>2, <1>6 DEF CameraInv, ListWillHavePunches
<1> QED
  BY <1>1, <1>5, <1>7, ListMovesKeep

LEMMA TakeRecordsKeeps ==
  ASSUME CameraInv, NEW c \in listings, TakeRecords(c)
  PROVE  CameraInv'
<1>1. /\ c.found # <<>> /\ records' = [holds |-> c.found[1], loading |-> FALSE]
      /\ listings' = listings \ {c} /\ unlisted' = (unlisted \/ c.found[1] < records.holds)
      /\ UNCHANGED <<camera, zoomVars, placeVars, punchVars, acts>>
  BY DEF TakeRecords
<1>2. /\ UNCHANGED <<punched, assured>> /\ c.found[1] \in 0..punched /\ records.holds \in 0..punched
      /\ punched \in Nat /\ assured \in 0..punched
  BY <1>1 DEF CameraInv, ListTyped, punchVars
<1>3. ListTyped'
  BY <1>1, <1>2 DEF CameraInv, ListTyped
<1>4. ListWillHavePunches'
  <2>1. CASE c.found[1] >= assured
    BY <1>1, <1>2, <2>1 DEF ListWillHavePunches
  <2>2. CASE ~ c.found[1] >= assured
    <3>1. unlisted' \/ records.holds < assured
      <4>1. SUFFICES ASSUME ~unlisted' PROVE records.holds < assured
        OBVIOUS
      <4>2. ~(c.found[1] < records.holds)
        BY <1>1, <4>1
      <4> QED
        BY <1>2, <2>2, <4>2
    <3>2. ~unlisted' => \E k \in listings : k.found = <<>> \/ k.found[1] >= assured
      BY <1>1, <1>2, <3>1 DEF CameraInv, ListTyped, ListWillHavePunches
    <3>3. ~unlisted' => \E k \in listings' : k.found = <<>> \/ k.found[1] >= assured
      BY <1>1, <2>2, <3>2
    <3> QED
      BY <1>2, <3>3 DEF ListWillHavePunches
  <2> QED
    BY <2>1, <2>2
<1> QED
  BY <1>1, <1>3, <1>4, ListMovesKeep

LEMMA RecordsFailKeeps ==
  ASSUME CameraInv, NEW c \in listings, RecordsFail(c)
  PROVE  CameraInv'
<1>1. /\ records' = [records EXCEPT !.loading = FALSE] /\ listings' = listings \ {c} /\ unlisted' = TRUE
      /\ UNCHANGED <<camera, zoomVars, placeVars, punchVars, acts>>
  BY DEF RecordsFail
<1>2. UNCHANGED <<punched, assured>>
  BY <1>1 DEF punchVars
<1>3. ListTyped'
  BY <1>1, <1>2 DEF CameraInv, ListTyped
<1>4. ListWillHavePunches'
  BY <1>1 DEF ListWillHavePunches
<1> QED
  BY <1>1, <1>3, <1>4, ListMovesKeep

LEMMA CameraInvStep ==
  ASSUME CameraInv, [MiniCameraNext]_cameraVars
  PROVE  CameraInv'
<1>1. CASE UNCHANGED cameraVars
  <2>1. camera' \in Cameras /\ acts' \in 0..MaxActs /\ UNCHANGED <<zoomVars, placeVars, punchVars, recordVars>>
    BY <1>1 DEF cameraVars, zoomVars, placeVars, punchVars, recordVars, CameraInv, CameraIsTyped
  <2> QED
    BY <2>1, CameraAloneKeeps
<1>2. CASE MountTimer \/ RemountTimer \/ ToggleCamera \/ CameraStops \/ StopTimer \/ CameraBlocked \/ OpenSystemSetting
  BY <1>2, CameraStepsKeep
<1>3. CASE InitDone
  BY <1>3, InitDoneKeeps
<1>4. ASSUME NEW z \in Zooms, SelectZoom(z) PROVE CameraInv'
  BY <1>4, SelectZoomKeeps
<1>5. ASSUME NEW c \in zoomings, NEW ok \in BOOLEAN, ZoomSet(c, ok) PROVE CameraInv'
  BY <1>5, ZoomSetKeeps
<1>6. CASE RefreshLocation \/ OnHide
  BY <1>6, PlaceStepsKeep
<1>7. ASSUME NEW v \in locatings, NEW ok \in BOOLEAN, Located(v, ok) PROVE CameraInv'
  BY <1>7, PlaceStepsKeep
<1>8. CASE OnShow
  BY <1>8, OnShowKeeps
<1>9. CASE Capture
  BY <1>9, CaptureKeeps
<1>10. CASE PhotoTaken
  BY <1>10, PhotoTakenKeeps
<1>11. CASE Recognized
  BY <1>11, RecognizedKeeps
<1>12. CASE PunchShown
  BY <1>12, PunchShownKeeps
<1>13. CASE PunchFails
  BY <1>13, PunchFailsKeeps
<1>14. ASSUME NEW c \in listings, Find(c) PROVE CameraInv'
  BY <1>14, FindKeeps
<1>15. ASSUME NEW c \in listings, TakeRecords(c) PROVE CameraInv'
  BY <1>15, TakeRecordsKeeps
<1>16. ASSUME NEW c \in listings, RecordsFail(c) PROVE CameraInv'
  BY <1>16, RecordsFailKeeps
<1> QED
  BY <1>1, <1>2, <1>3, <1>4, <1>5, <1>6, <1>7, <1>8, <1>9, <1>10, <1>11, <1>12, <1>13, <1>14, <1>15, <1>16
     DEF MiniCameraNext

-----------------------------------------------------------------------------
(***************************************************************************)
(* The windows and menus of the console, for any menus and choices of the  *)
(* user.                                                                   *)
(***************************************************************************)

\* A list of windows: pages, each once.
WindowList(ws) == ws \in Seq(Pages) /\ IsInjective(ws)

\* The page that is shown gets a window, unless it has one.
LEMMA MergedAdds ==
  ASSUME NEW ws, WindowList(ws), NEW p \in Pages
  PROVE  WindowList(Merged(ws, p)) /\ ToSet(Merged(ws, p)) = ToSet(ws) \cup {p}
<1>1. CASE Contains(ws, p)
  BY <1>1 DEF WindowList, Merged, Contains, ToSet
<1>2. CASE ~ Contains(ws, p)
  <2> DEFINE more == Append(ws, p)
  <2>1. /\ more \in Seq(Pages) /\ Len(more) = Len(ws) + 1 /\ more[Len(ws) + 1] = p
        /\ \A i \in 1..Len(ws) : more[i] = ws[i]
    BY AppendProperties DEF WindowList
  <2>2. /\ DOMAIN ws = 1..Len(ws) /\ DOMAIN more = 1..(Len(ws) + 1) /\ Len(ws) \in Nat
    BY <2>1, LenProperties DEF WindowList
  <2>3. Merged(ws, p) = more
    BY <1>2 DEF Merged
  <2> HIDE DEF more
  <2>4. IsInjective(more)
    BY <1>2, <2>1, <2>2 DEF IsInjective, WindowList, Contains
  <2>5. ToSet(more) = ToSet(ws) \cup {p}
    BY <2>1, <2>2 DEF ToSet
  <2> QED
    BY <2>1, <2>3, <2>4, <2>5 DEF WindowList
<1> QED
  BY <1>1, <1>2

\* The first place of a page among the windows.
LEMMA PlaceOfAPage ==
  ASSUME NEW ws \in Seq(Pages), NEW p, Contains(ws, p)
  PROVE  LET I == {i \in 1..Len(ws) : ws[i] = p} IN I # {} /\ Min(I) \in I
<1> DEFINE I == {i \in 1..Len(ws) : ws[i] = p}
<1>1. I # {} /\ I \in SUBSET Nat
  BY DEF Contains
<1>2. Min(I) \in I
  BY <1>1, SmallestNumber DEF Min
<1> QED
  BY <1>1, <1>2

\* A page that is taken out is gone, and the others stay.
LEMMA WithoutRemoves ==
  ASSUME NEW ws, WindowList(ws), NEW p
  PROVE  /\ WindowList(Without(ws, p)) /\ ToSet(Without(ws, p)) = ToSet(ws) \ {p}
         /\ Contains(ws, p) => Len(Without(ws, p)) = Len(ws) - 1
<1>1. CASE ~ Contains(ws, p)
  <2>1. Without(ws, p) = ws
    BY <1>1 DEF Without, RemoveFirst, Contains
  <2>2. p \notin ToSet(ws)
    BY <1>1 DEF ToSet, WindowList, Contains
  <2> QED
    BY <1>1, <2>1, <2>2
<1>2. CASE Contains(ws, p)
  <2> DEFINE k == SelectInSeq(ws, LAMBDA q : q = p)
  <2> DEFINE rest == RemoveAt(ws, k)
  <2>1. k \in 1..Len(ws) /\ ws[k] = p
    BY <1>2, PlaceOfAPage DEF WindowList, SelectInSeq
  <2>2. Without(ws, p) = rest
    BY <1>2 DEF Without, RemoveFirst, Contains
  <2> HIDE DEF k
  <2>3. ws \in Seq(Pages) /\ Len(ws) \in Nat /\ DOMAIN ws = 1..Len(ws)
    BY LenProperties DEF WindowList
  <2> DEFINE h == SubSeq(ws, 1, k - 1)
  <2> DEFINE t == SubSeq(ws, k + 1, Len(ws))
  <2>4. h \in Seq(Pages) /\ Len(h) = k - 1 /\ \A i \in 1..(k - 1) : h[i] = ws[i]
    BY <2>1, <2>3, ElementOfSeq, SubSeqProperties
  <2>5. t \in Seq(Pages) /\ Len(t) = Len(ws) - k /\ \A i \in 1..(Len(ws) - k) : t[i] = ws[i + k]
    <3>1. \A i \in (k + 1)..Len(ws) : ws[i] \in Pages
      BY <2>1, <2>3, ElementOfSeq
    <3>2. /\ t \in Seq(Pages)
          /\ Len(t) = IF k + 1 <= Len(ws) THEN Len(ws) - (k + 1) + 1 ELSE 0
          /\ \A i \in 1..(Len(ws) - (k + 1) + 1) : t[i] = ws[(k + 1) + i - 1]
      BY <2>1, <2>3, <3>1, SubSeqProperties
    <3>3. Len(t) = Len(ws) - k
      <4>1. Len(t) = IF k + 1 <= Len(ws) THEN Len(ws) - (k + 1) + 1 ELSE 0
        BY <3>2
      <4>2. k \in Nat /\ k <= Len(ws) /\ Len(ws) \in Nat
        BY <2>1, <2>3
      <4> QED
        BY <4>1, <4>2
    <3>4. ASSUME NEW i \in 1..(Len(ws) - k) PROVE t[i] = ws[i + k]
      <4>1. i \in 1..(Len(ws) - (k + 1) + 1) /\ (k + 1) + i - 1 = i + k
        BY <2>1, <2>3
      <4> QED
        BY <3>2, <4>1
    <3> QED
      BY <3>2, <3>3, <3>4
  <2>6. rest = h \o t
    BY DEF RemoveAt
  <2> HIDE DEF h, t, rest
  <2>7. /\ rest \in Seq(Pages) /\ Len(rest) = Len(ws) - 1
        /\ \A i \in 1..(Len(ws) - 1) : rest[i] = IF i < k THEN ws[i] ELSE ws[i + 1]
    <3>1. /\ rest \in Seq(Pages) /\ Len(rest) = Len(h) + Len(t)
          /\ \A i \in 1..(Len(h) + Len(t)) : rest[i] = IF i <= Len(h) THEN h[i] ELSE t[i - Len(h)]
      BY <2>4, <2>5, <2>6, ConcatProperties
    <3>2. ASSUME NEW i \in 1..(Len(ws) - 1) PROVE rest[i] = IF i < k THEN ws[i] ELSE ws[i + 1]
      <4>3. k \in Nat /\ Len(ws) \in Nat /\ k <= Len(ws) /\ Len(h) = k - 1 /\ Len(t) = Len(ws) - k
        BY <2>1, <2>3, <2>4, <2>5
      <4>4. i \in 1..(Len(h) + Len(t))
        BY <4>3
      <4>5. rest[i] = IF i <= Len(h) THEN h[i] ELSE t[i - Len(h)]
        BY <3>1, <4>4
      <4>1. CASE i < k
        <5>1. i \in 1..(k - 1) /\ i <= Len(h)
          BY <4>1, <4>3
        <5> QED
          BY <2>4, <4>1, <4>5, <5>1
      <4>2. CASE ~ i < k
        <5>1. i - (k - 1) \in 1..(Len(ws) - k)
          BY <2>1, <2>3, <4>2
        <5>2. rest[i] = t[i - (k - 1)]
          <6>1. ~ (i <= Len(h))
            BY <4>2, <4>3
          <6> QED
            BY <4>3, <4>5, <6>1
        <5> QED
          BY <2>1, <2>3, <2>5, <4>2, <5>1, <5>2
      <4> QED
        BY <4>1, <4>2
    <3> QED
      BY <2>1, <2>3, <2>4, <2>5, <3>1, <3>2
  <2>8. DOMAIN rest = 1..(Len(ws) - 1)
    BY <2>7
  <2> DEFINE from(i) == IF i < k THEN i ELSE i + 1
  <2>20. \A i \in DOMAIN rest : from(i) \in DOMAIN ws /\ rest[i] = ws[from(i)] /\ from(i) # k
    BY <2>1, <2>3, <2>7, <2>8
  <2>21. \A i, j \in DOMAIN rest : from(i) = from(j) => i = j
    BY <2>1, <2>3, <2>8
  <2>22. \A i, j \in DOMAIN ws : ws[i] = ws[j] => i = j
    BY DEF IsInjective, WindowList
  <2> HIDE DEF from
  <2>9. IsInjective(rest)
    BY <2>20, <2>21, <2>22 DEF IsInjective
  <2>10. ToSet(rest) \subseteq ToSet(ws) \ {p}
    BY <2>1, <2>3, <2>20, <2>22 DEF ToSet
  <2>11. ASSUME NEW q \in ToSet(ws), q # p PROVE q \in ToSet(rest)
    <3>1. PICK i \in 1..Len(ws) : ws[i] = q
      BY <2>3 DEF ToSet
    <3>2. i # k
      BY <2>1, <2>11, <3>1
    <3>3. CASE i < k
      <4>1. i \in 1..(Len(ws) - 1) /\ rest[i] = ws[i]
        BY <2>1, <2>3, <2>7, <3>3
      <4> QED
        BY <2>8, <3>1, <4>1 DEF ToSet
    <3>4. CASE i > k
      <4>1. i - 1 \in 1..(Len(ws) - 1) /\ rest[i - 1] = ws[i]
        BY <2>1, <2>3, <2>7, <3>4
      <4> QED
        BY <2>8, <3>1, <4>1 DEF ToSet
    <3> QED
      BY <2>1, <3>2, <3>3, <3>4
  <2> QED
    BY <2>2, <2>7, <2>9, <2>10, <2>11 DEF WindowList
<1> QED
  BY <1>1, <1>2

\* The tabs are drawn with the stored windows and the page that is shown.
LEMMA DrawKeeps ==
  ASSUME NEW laid, WindowList(laid), NEW p \in Pages, NEW seen, NEW failed, Draw(laid, p, seen, failed)
  PROVE  /\ WindowList(windows') /\ ToSet(windows') \subseteq ToSet(laid) \cup {p}
         /\ WindowList(drawn') /\ ToSet(drawn') \subseteq ToSet(laid) \cup {p}
<1>1. CASE Layout(p, seen, failed) = "page"
  BY <1>1, MergedAdds DEF Draw
<1>2. CASE Layout(p, seen, failed) # "page"
  BY <1>2 DEF Draw, WindowList, ToSet, IsInjective
<1> QED
  BY <1>1, <1>2

LEMMA FirstMenu == menuPermissions[1] = "admin_overview" /\ 1 \in 1..Len(menuPermissions)
BY DEF menuPermissions, officeMenus, enterpriseMenus, labourMenus, siteMenus, personnelMenus, systemMenus

\* The user's first page is a page.
LEMMA DefaultIsAPage ==
  ASSUME role \in Roles, NEW seen \in {<<>>} \cup {<<ms>> : ms \in SUBSET GivenMenus}
  PROVE  DefaultPage(seen) \in Pages
<1> DEFINE I == {i \in 1..Len(menuPermissions) : menuPermissions[i] \in Allowed(seen)}
<1> DEFINE least == SelectInSeq(menuPermissions, LAMBDA m : m \in Allowed(seen))
<1>1. least = IF I # {} THEN Min(I) ELSE 0
  BY DEF SelectInSeq
<1>2. I \in SUBSET Nat
  OBVIOUS
<1>3. ASSUME I # {} PROVE least \in I /\ \A i \in I : least <= i
  <2>1. \E x \in I : \A y \in I : x <= y
    BY <1>2, <1>3, SmallestNumber
  <2> QED
    BY <1>1, <1>3, <2>1 DEF Min
<1>4. DefaultPage(seen) = IF least = 0 THEN Home ELSE PageOf(menuPermissions[least])
  BY DEF DefaultPage
<1>5. ASSUME NEW m \in GivenMenus PROVE PageOf(m) \in Pages
  BY DEF PageOf, Pages
<1>6. Home \in Pages
  BY <1>5, WorkspaceAssumption DEF Home
<1>7. CASE role = "admin"
  <2>1. 1 \in I
    BY <1>7, FirstMenu DEF Allowed, adminDefaults, MenuKeys, ToSet
  <2>2. least = 1
    <3>1. least \in I /\ least <= 1
      BY <1>3, <2>1
    <3>2. least \in Nat /\ least >= 1
      BY <3>1
    <3> QED
      BY <3>1, <3>2
  <2> QED
    BY <1>4, <1>5, <2>2, FirstMenu, WorkspaceAssumption
<1>8. CASE role # "admin"
  <2>1. Allowed(seen) \subseteq GivenMenus
    <3>1. seen # <<>> => seen[1] \in SUBSET GivenMenus
      OBVIOUS
    <3>2. MenuOf(Home) \in GivenMenus
      BY WorkspaceAssumption DEF MenuOf, Home, PageOf
    <3> QED
      BY <1>8, <3>1, <3>2 DEF Allowed, Roles, Configured
  <2>2. least # 0 => menuPermissions[least] \in Allowed(seen)
    BY <1>1, <1>3
  <2> QED
    BY <1>4, <1>5, <1>6, <2>1, <2>2
<1> QED
  BY <1>7, <1>8

\* So is the window that takes the place of the one that is shown.
LEMMA NeighbourIsAPage ==
  ASSUME WorkspaceTypeOK, drawn # <<>>
  PROVE  Neighbour(at) \in Pages
<1> DEFINE rest == Without(drawn, at)
<1> DEFINE i == SelectInSeq(drawn, LAMBDA q : q = at)
<1>1. WindowList(drawn)
  BY DEF WorkspaceTypeOK, WindowList
<1>2. rest \in Seq(Pages)
  BY <1>1, WithoutRemoves DEF WindowList
<1>3. DefaultPage(answer) \in Pages
  BY DefaultIsAPage DEF WorkspaceTypeOK
<1>4. drawn \in Seq(Pages) /\ Len(drawn) \in Nat
  BY <1>1 DEF WindowList
<1>5. CASE i > 1
  <2>1. Contains(drawn, at)
    BY <1>5 DEF SelectInSeq, Contains
  <2>2. i \in 1..Len(drawn)
    BY <1>4, <2>1, PlaceOfAPage DEF SelectInSeq
  <2>3. Len(rest) = Len(drawn) - 1
    BY <1>1, <2>1, WithoutRemoves
  <2> HIDE DEF rest, i
  <2>4. i - 1 \in 1..Len(rest)
    BY <1>4, <1>5, <2>2, <2>3
  <2>5. rest[i - 1] \in Pages
    BY <1>2, <2>4, ElementOfSeq
  <2> QED
    BY <1>5, <2>5 DEF Neighbour, rest, i
<1>6. CASE ~ i > 1
  <2>1. rest # <<>> => 1 \in 1..Len(rest)
    BY <1>2
  <2>2. rest # <<>> => rest[1] \in Pages
    BY <1>2, <2>1, ElementOfSeq
  <2> HIDE DEF rest, i
  <2> QED
    BY <1>3, <1>6, <2>2 DEF Neighbour, rest, i
<1> QED
  BY <1>5, <1>6

\* What was closed is not among the stored windows, and where no page is being gone to
\* neither among those that are drawn, nor shown.
WindowsKept ==
  ~hurried => /\ closed \cap ToSet(windows) = {}
              /\ going = NOWHERE => closed \cap ToSet(drawn) = {} /\ at \notin closed

\* What is being written is what the administrator's choices make.
MenusKept == ~undone => wanted = IF toggle = <<>> THEN granted ELSE toggle[1]

WorkspaceInv == WorkspaceTypeOK /\ WindowsKept /\ MenusKept

LEMMA WorkspaceInvInit == WorkspaceInit => WorkspaceInv
<1> SUFFICES ASSUME WorkspaceInit PROVE WorkspaceInv
  OBVIOUS
<1>1. PageOf("admin_overview") \in Pages /\ PageOf("projects") \in Pages
  BY WorkspaceAssumption DEF Pages, PageOf
<1>2. at \in Pages
  BY <1>1 DEF WorkspaceInit, Home, Fallback
<1>3. WindowList(<<>>) /\ WindowList(<<at>>)
  <2>1. <<at>> \in [1..1 -> Pages] /\ <<at>> \in Seq(Pages)
    BY <1>2
  <2> QED
    BY <2>1 DEF WindowList, IsInjective
<1>4. WindowList(drawn)
  BY <1>3 DEF WorkspaceInit
<1>5. WorkspaceTypeOK
  <2>1. windows = drawn /\ closed = {} /\ going = NOWHERE /\ role \in Roles /\ choices = 0
    BY DEF WorkspaceInit
  <2>2. {menusDue, unread, nameless, hurried, roleDue, undone} \subseteq BOOLEAN
    BY DEF WorkspaceInit, Nameless
  <2>3. {granted, roleMenus, wanted} \subseteq SUBSET GivenMenus
    BY DEF WorkspaceInit
  <2>4. {answer, toggle} \subseteq {<<>>} \cup {<<ms>> : ms \in SUBSET GivenMenus}
    BY DEF WorkspaceInit
  <2> QED
    BY <1>2, <1>4, <2>1, <2>2, <2>3, <2>4, WorkspaceAssumption DEF WorkspaceTypeOK, WindowList
<1> QED
  BY <1>5 DEF WorkspaceInv, WindowsKept, MenusKept, WorkspaceInit
-----------------------------------------------------------------------------
\* Each action, first those that leave the tabs alone.
UserTypes ==
  /\ answer' \in {<<>>} \cup {<<ms>> : ms \in SUBSET GivenMenus}
  /\ {menusDue', unread', nameless', hurried'} \subseteq BOOLEAN
  /\ at' \in Pages /\ going' \in Pages \cup {NOWHERE}
  /\ WindowList(windows') /\ WindowList(drawn') /\ closed' \subseteq Pages

\* What the user does leaves the administrator's page alone.
LEMMA UserStep ==
  ASSUME WorkspaceInv, role' = role, UNCHANGED roleVars, UserTypes, choices' \in 0..MaxChoices, WindowsKept'
  PROVE  WorkspaceInv'
<1>1. WorkspaceTypeOK'
  BY DEF WorkspaceInv, WorkspaceTypeOK, roleVars, UserTypes, WindowList
<1>2. MenusKept'
  BY DEF WorkspaceInv, MenusKept, roleVars
<1> QED
  BY <1>1, <1>2 DEF WorkspaceInv

LEMMA Counted ==
  ASSUME WorkspaceInv, choices < MaxChoices, choices' = choices + 1
  PROVE  choices' \in 0..MaxChoices
BY WorkspaceAssumption DEF WorkspaceInv, WorkspaceTypeOK

\* A page is gone to, and the tabs are as they were.
LEMMA GoingKeeps ==
  ASSUME WorkspaceInv, NEW p \in Pages, GoTo(p),
         UNCHANGED <<role, answer, menusDue, unread, at, nameless, windows, drawn, closed, hurried, roleVars>>
  PROVE  WorkspaceInv'
<1>1. p # NOWHERE
  BY DEF Pages, NOWHERE
<1>2. WindowsKept'
  BY <1>1 DEF WorkspaceInv, WindowsKept, GoTo
<1>3. UserTypes
  BY DEF WorkspaceInv, WorkspaceTypeOK, UserTypes, WindowList, GoTo
<1>4. choices' \in 0..MaxChoices
  BY Counted DEF GoTo
<1> QED
  BY <1>2, <1>3, <1>4, UserStep

LEMMA LinkKeeps ==
  ASSUME WorkspaceInv, NEW p \in Pages, FollowLink(p)
  PROVE  WorkspaceInv'
BY GoingKeeps DEF FollowLink

LEMMA RedirectKeeps ==
  ASSUME WorkspaceInv, Redirect
  PROVE  WorkspaceInv'
BY GoingKeeps, DefaultIsAPage DEF Redirect, WorkspaceInv, WorkspaceTypeOK

LEMMA AskMenusKeeps ==
  ASSUME WorkspaceInv, AskMenus
  PROVE  WorkspaceInv'
<1>1. WindowsKept'
  BY DEF WorkspaceInv, WindowsKept, AskMenus
<1>2. UserTypes
  BY DEF WorkspaceInv, WorkspaceTypeOK, UserTypes, WindowList, AskMenus
<1>3. choices' \in 0..MaxChoices
  BY DEF WorkspaceInv, WorkspaceTypeOK, AskMenus
<1> QED
  BY <1>1, <1>2, <1>3, UserStep DEF AskMenus

\* The tabs are drawn for a page that is come to.
LEMMA ComingKeeps ==
  ASSUME WorkspaceInv, NEW p \in Pages, NEW seen, NEW failed,
         Draw(windows, p, seen, failed),
         at' = p, going' = NOWHERE, nameless' = Nameless(p), closed' = closed \ {p},
         answer' \in {<<>>} \cup {<<ms>> : ms \in SUBSET GivenMenus}, menusDue' \in BOOLEAN, unread' \in BOOLEAN,
         choices' \in 0..MaxChoices, UNCHANGED <<role, hurried, roleVars>>
  PROVE  WorkspaceInv'
<1>1. WindowList(windows)
  BY DEF WorkspaceInv, WorkspaceTypeOK, WindowList
<1>2. /\ WindowList(windows') /\ ToSet(windows') \subseteq ToSet(windows) \cup {p}
      /\ WindowList(drawn') /\ ToSet(drawn') \subseteq ToSet(windows) \cup {p}
  BY <1>1, DrawKeeps
<1>3. WindowsKept'
  <2> SUFFICES ASSUME ~hurried' PROVE closed' \cap ToSet(windows') = {} /\ closed' \cap ToSet(drawn') = {} /\ at' \notin closed'
    BY DEF WindowsKept
  <2>1. closed \cap ToSet(windows) = {}
    BY DEF WorkspaceInv, WindowsKept
  <2> QED
    BY <1>2, <2>1
<1>4. UserTypes
  BY <1>2 DEF WorkspaceInv, WorkspaceTypeOK, UserTypes, Nameless
<1> QED
  BY <1>3, <1>4, UserStep

LEMMA OpenAddressKeeps ==
  ASSUME WorkspaceInv, NEW p \in Pages, OpenAddress(p)
  PROVE  WorkspaceInv'
<1>1. choices' \in 0..MaxChoices
  BY Counted DEF OpenAddress
<1>2. answer' = <<>> /\ menusDue' \in BOOLEAN /\ unread' \in BOOLEAN
  BY DEF OpenAddress
<1>3. Draw(windows, p, answer', FALSE)
  BY DEF OpenAddress
<1>4. at' = p /\ going' = NOWHERE /\ nameless' = Nameless(p) /\ closed' = closed \ {p} /\ UNCHANGED <<role, hurried, roleVars>>
  BY DEF OpenAddress
<1> QED
  BY <1>1, <1>2, <1>3, <1>4, ComingKeeps

LEMMA ArriveKeeps ==
  ASSUME WorkspaceInv, Arrive
  PROVE  WorkspaceInv'
<1>1. /\ going \in Pages /\ answer \in {<<>>} \cup {<<ms>> : ms \in SUBSET GivenMenus}
      /\ menusDue \in BOOLEAN /\ unread \in BOOLEAN /\ choices \in 0..MaxChoices
  BY DEF Arrive, WorkspaceInv, WorkspaceTypeOK
<1>2. Draw(windows, going, answer, unread)
  BY DEF Arrive
<1>3. /\ at' = going /\ going' = NOWHERE /\ nameless' = Nameless(going) /\ closed' = closed \ {going}
      /\ UNCHANGED <<role, answer, menusDue, unread, hurried, roleVars, choices>>
  BY DEF Arrive
<1> QED
  BY <1>1, <1>2, <1>3, ComingKeeps

\* The tabs are drawn again for the page that is shown, unless one is being gone to.
LEMMA DrawnAgain ==
  ASSUME WorkspaceInv, NEW laid, WindowList(laid), ToSet(laid) \subseteq ToSet(windows) \cup {at},
         NEW seen, NEW failed, Draw(laid, at, seen, failed),
         hurried' = (hurried \/ going # NOWHERE), UNCHANGED <<at, going, closed>>
  PROVE  WindowList(windows') /\ WindowList(drawn') /\ hurried' \in BOOLEAN /\ WindowsKept'
<1>1. at \in Pages
  BY DEF WorkspaceInv, WorkspaceTypeOK
<1>2. /\ WindowList(windows') /\ ToSet(windows') \subseteq ToSet(windows) \cup {at}
      /\ WindowList(drawn') /\ ToSet(drawn') \subseteq ToSet(windows) \cup {at}
  BY <1>1, DrawKeeps
<1>3. WindowsKept'
  BY <1>2 DEF WorkspaceInv, WindowsKept
<1>4. hurried' \in BOOLEAN
  BY DEF WorkspaceInv, WorkspaceTypeOK
<1> QED
  BY <1>2, <1>3, <1>4

LEMMA NameComesKeeps ==
  ASSUME WorkspaceInv, NameComes
  PROVE  WorkspaceInv'
<1>1. WindowList(windows) /\ at \in Pages
  BY DEF WorkspaceInv, WorkspaceTypeOK, WindowList
<1>2. WindowList(Merged(windows, at)) /\ ToSet(Merged(windows, at)) = ToSet(windows) \cup {at}
  BY <1>1, MergedAdds
<1>3. Draw(Merged(windows, at), at, answer, unread) /\ hurried' = (hurried \/ going # NOWHERE)
  BY DEF NameComes
<1>4. UNCHANGED <<role, answer, menusDue, unread, at, going, closed, roleVars, choices>> /\ nameless' = FALSE
  BY DEF NameComes
<1>5. WindowList(windows') /\ WindowList(drawn') /\ hurried' \in BOOLEAN /\ WindowsKept'
  BY <1>2, <1>3, <1>4, DrawnAgain
<1>6. UserTypes /\ choices' \in 0..MaxChoices
  BY <1>4, <1>5 DEF UserTypes, WorkspaceInv, WorkspaceTypeOK
<1> QED
  BY <1>4, <1>5, <1>6, UserStep

LEMMA RedrawnKeeps ==
  ASSUME WorkspaceInv, NEW seen, NEW failed, Redrawn(seen, failed), UNCHANGED <<at, going, closed>>
  PROVE  WindowList(windows') /\ WindowList(drawn') /\ hurried' \in BOOLEAN /\ WindowsKept'
<1>1. WindowList(windows) /\ WindowList(drawn) /\ hurried \in BOOLEAN /\ WindowsKept
  BY DEF WorkspaceInv, WorkspaceTypeOK, WindowList
<1>2. CASE UNCHANGED <<windows, drawn, hurried>>
  BY <1>1, <1>2 DEF WindowsKept
<1>3. CASE Draw(windows, at, seen, failed) /\ hurried' = (hurried \/ going # NOWHERE)
  BY <1>1, <1>3, DrawnAgain
<1> QED
  BY <1>2, <1>3 DEF Redrawn

LEMMA MenusComeKeeps ==
  ASSUME WorkspaceInv, TakeMenus \/ MenusFail
  PROVE  WorkspaceInv'
<1>1. /\ UNCHANGED <<role, at, going, nameless, closed, roleVars, choices>>
      /\ menusDue' = FALSE /\ unread' \in BOOLEAN
  BY DEF TakeMenus, MenusFail
<1>2. answer' \in {<<>>} \cup {<<ms>> : ms \in SUBSET GivenMenus}
  BY DEF TakeMenus, MenusFail, WorkspaceInv, WorkspaceTypeOK
<1>3. \E seen, failed : Redrawn(seen, failed)
  BY DEF TakeMenus, MenusFail
<1>4. WindowList(windows') /\ WindowList(drawn') /\ hurried' \in BOOLEAN /\ WindowsKept'
  BY <1>1, <1>3, RedrawnKeeps
<1>5. UserTypes /\ choices' \in 0..MaxChoices
  BY <1>1, <1>2, <1>4 DEF UserTypes, WorkspaceInv, WorkspaceTypeOK
<1> QED
  BY <1>1, <1>4, <1>5, UserStep
-----------------------------------------------------------------------------
\* The tabs: windows are closed, of those that are drawn.
LEMMA ClosingKeeps ==
  ASSUME WorkspaceInv, NEW ps, ps \subseteq Pages, NEW next, WindowList(next), Close(ps, next),
         WindowList(drawn'), going' \in Pages \cup {NOWHERE}, choices' \in 0..MaxChoices,
         ~hurried /\ going = NOWHERE =>
           /\ closed' \cap ToSet(next) = {}
           /\ going' = NOWHERE => closed' \cap ToSet(drawn') = {} /\ at \notin closed'
  PROVE  WorkspaceInv'
<1>1. /\ windows' = next /\ hurried' = (hurried \/ going # NOWHERE) /\ closed' = closed \cup ps
      /\ UNCHANGED <<role, answer, menusDue, unread, at, nameless, roleVars>>
  BY DEF Close
<1>2. WindowsKept'
  BY <1>1 DEF WindowsKept
<1>3. UserTypes
  BY <1>1 DEF UserTypes, WorkspaceInv, WorkspaceTypeOK
<1> QED
  BY <1>1, <1>2, <1>3, UserStep

\* What is known of the windows that are drawn.
LEMMA DrawnAreOpen ==
  ASSUME WorkspaceInv
  PROVE  /\ WindowList(drawn) /\ at \in Pages /\ ToSet(drawn) \subseteq Pages /\ closed \subseteq Pages
         /\ going \in Pages \cup {NOWHERE} /\ choices \in 0..MaxChoices
         /\ \A p : Contains(drawn, p) => p \in ToSet(drawn)
         /\ ~hurried /\ going = NOWHERE => closed \cap ToSet(drawn) = {} /\ at \notin closed
<1>1. WindowList(drawn) /\ at \in Pages /\ closed \subseteq Pages /\ going \in Pages \cup {NOWHERE} /\ choices \in 0..MaxChoices
  BY DEF WorkspaceInv, WorkspaceTypeOK, WindowList
<1>2. DOMAIN drawn = 1..Len(drawn)
  BY <1>1, LenProperties DEF WindowList
<1>3. ToSet(drawn) \subseteq Pages
  BY <1>1, <1>2, ElementOfSeq DEF WindowList, ToSet
<1>4. \A p : Contains(drawn, p) => p \in ToSet(drawn)
  BY <1>2 DEF Contains, ToSet
<1> QED
  BY <1>1, <1>3, <1>4 DEF WorkspaceInv, WindowsKept

LEMMA OneWindow ==
  ASSUME NEW p \in Pages
  PROVE  WindowList(<<p>>) /\ ToSet(<<p>>) = {p}
<1>1. <<p>> \in [1..1 -> Pages] /\ <<p>> \in Seq(Pages)
  OBVIOUS
<1> QED
  BY <1>1 DEF WindowList, IsInjective, ToSet

LEMMA NoWindow == WindowList(<<>>) /\ ToSet(<<>>) = {}
BY DEF WindowList, IsInjective, ToSet

LEMMA PagesAreSomewhere == NOWHERE \notin Pages
BY DEF Pages, NOWHERE

LEMMA OpenWindowKeeps ==
  ASSUME WorkspaceInv, NEW p \in Pages, OpenWindow(p)
  PROVE  WorkspaceInv'
<1>1. /\ windows' = drawn /\ hurried' = (hurried \/ going # NOWHERE) /\ going' = p
      /\ UNCHANGED <<role, answer, menusDue, unread, at, nameless, drawn, closed, roleVars>>
  BY DEF OpenWindow, GoTo
<1>2. choices' \in 0..MaxChoices
  BY Counted DEF OpenWindow, GoTo
<1>3. WindowsKept'
  BY <1>1, DrawnAreOpen, PagesAreSomewhere DEF WindowsKept
<1>4. UserTypes
  BY <1>1, DrawnAreOpen DEF UserTypes, WorkspaceInv, WorkspaceTypeOK
<1> QED
  BY <1>1, <1>2, <1>3, <1>4, UserStep

LEMMA CloseWindowKeeps ==
  ASSUME WorkspaceInv, NEW p \in Pages, CloseWindow(p)
  PROVE  WorkspaceInv'
<1> DEFINE rest == Without(drawn, p)
<1>1. /\ Close({p}, rest) /\ drawn' = windows' /\ UNCHANGED <<going, choices>> /\ p # at
  BY DEF CloseWindow
<1>2. windows' = rest /\ closed' = closed \cup {p}
  BY <1>1 DEF Close
<1>3. WindowList(rest) /\ ToSet(rest) = ToSet(drawn) \ {p}
  BY DrawnAreOpen, WithoutRemoves
<1> HIDE DEF rest
<1> QED
  BY <1>1, <1>2, <1>3, DrawnAreOpen, ClosingKeeps

LEMMA CloseShownKeeps ==
  ASSUME WorkspaceInv, CloseShown
  PROVE  WorkspaceInv'
<1> DEFINE target == Neighbour(at)
<1> DEFINE rest == Without(drawn, at)
<1>1. target \in Pages
  BY NeighbourIsAPage DEF WorkspaceInv, CloseShown
<1>2. WindowList(rest) /\ ToSet(rest) = ToSet(drawn) \ {at}
  BY DrawnAreOpen, WithoutRemoves
<1>3. /\ Close({at} \ {target}, rest) /\ drawn' = drawn
      /\ IF target = at THEN UNCHANGED <<going, choices>> ELSE GoTo(target)
  BY DEF CloseShown
<1>4. closed' = closed \cup ({at} \ {target})
  BY <1>3 DEF Close
<1> HIDE DEF rest, target
<1>5. CASE target = at
  BY <1>2, <1>3, <1>4, <1>5, DrawnAreOpen, ClosingKeeps
<1>6. CASE target # at
  <2>1. going' = target /\ choices' \in 0..MaxChoices
    BY <1>3, <1>6, Counted DEF GoTo
  <2> QED
    BY <1>1, <1>2, <1>3, <1>4, <2>1, DrawnAreOpen, PagesAreSomewhere, ClosingKeeps
<1> QED
  BY <1>5, <1>6

LEMMA CloseOthersKeeps ==
  ASSUME WorkspaceInv, NEW p \in Pages, CloseOthers(p)
  PROVE  WorkspaceInv'
<1>1. /\ p \in ToSet(drawn)
      /\ Close(ToSet(drawn) \ {p}, <<p>>)
      /\ IF p = at THEN drawn' = <<p>> /\ UNCHANGED <<going, choices>> ELSE GoTo(p) /\ UNCHANGED drawn
  BY DrawnAreOpen DEF CloseOthers
<1>2. closed' = closed \cup (ToSet(drawn) \ {p})
  BY <1>1 DEF Close
<1>3. ToSet(drawn) \ {p} \subseteq Pages
  BY DrawnAreOpen
<1>4. CASE p = at
  BY <1>1, <1>2, <1>3, <1>4, DrawnAreOpen, OneWindow, ClosingKeeps
<1>5. CASE p # at
  <2>1. going' = p /\ choices' \in 0..MaxChoices /\ drawn' = drawn
    BY <1>1, <1>5, Counted DEF GoTo
  <2> QED
    BY <1>1, <1>2, <1>3, <2>1, DrawnAreOpen, OneWindow, PagesAreSomewhere, ClosingKeeps
<1> QED
  BY <1>4, <1>5

LEMMA CloseAllKeeps ==
  ASSUME WorkspaceInv, CloseAll
  PROVE  WorkspaceInv'
<1> DEFINE landing == DefaultPage(answer)
<1>1. landing \in Pages
  BY DefaultIsAPage DEF WorkspaceInv, WorkspaceTypeOK
<1>2. /\ Close(ToSet(drawn) \ {landing}, IF landing = at THEN <<at>> ELSE <<>>)
      /\ IF landing = at THEN drawn' = <<at>> /\ UNCHANGED <<going, choices>> ELSE GoTo(landing) /\ UNCHANGED drawn
  BY DEF CloseAll
<1>3. closed' = closed \cup (ToSet(drawn) \ {landing})
  BY <1>2 DEF Close
<1> HIDE DEF landing
<1>4. ToSet(drawn) \ {landing} \subseteq Pages
  BY DrawnAreOpen
<1>5. CASE landing = at
  <2>1. Close(ToSet(drawn) \ {landing}, <<at>>)
    BY <1>2, <1>5
  <2> QED
    BY <1>2, <1>3, <1>4, <1>5, <2>1, DrawnAreOpen, OneWindow, ClosingKeeps
<1>6. CASE landing # at
  <2>1. Close(ToSet(drawn) \ {landing}, <<>>)
    BY <1>2, <1>6
  <2>2. going' = landing /\ choices' \in 0..MaxChoices /\ drawn' = drawn
    BY <1>2, <1>6, Counted DEF GoTo
  <2> QED
    BY <1>1, <1>3, <1>4, <2>1, <2>2, DrawnAreOpen, NoWindow, PagesAreSomewhere, ClosingKeeps
<1> QED
  BY <1>5, <1>6

\* The administrator's page: one choice at a time is written.
LEMMA AdminKeeps ==
  ASSUME WorkspaceInv,
         (\E m \in GivenMenus : ToggleMenu(m)) \/ (\E ok \in BOOLEAN : WriteMenus(ok)) \/ MenuWriteFails \/ TakeList
  PROVE  WorkspaceInv'
<1> USE DEF WorkspaceInv
<1>1. UNCHANGED userVars
  BY DEF ToggleMenu, WriteMenus, MenuWriteFails, TakeList
<1>2. WindowsKept'
  BY <1>1 DEF WindowsKept, userVars
<1>3. ASSUME NEW m \in GivenMenus, ToggleMenu(m) PROVE MenusKept' /\ WorkspaceTypeOK'
  <2>1. Flip(roleMenus, m) \in SUBSET GivenMenus /\ wanted' \in SUBSET GivenMenus
    BY <1>3 DEF Flip, ToggleMenu, WorkspaceTypeOK
  <2>2. choices' \in 0..MaxChoices
    BY <1>3, Counted DEF ToggleMenu
  <2>3. toggle' = <<Flip(roleMenus, m)>> /\ undone' \in BOOLEAN /\ UNCHANGED <<granted, roleMenus, roleDue>>
    BY <1>3 DEF ToggleMenu, WorkspaceTypeOK
  <2>4. WorkspaceTypeOK'
    BY <1>1, <2>1, <2>2, <2>3 DEF WorkspaceTypeOK, userVars
  <2>5. MenusKept'
    <3> SUFFICES ASSUME ~undone' PROVE wanted' = Flip(roleMenus, m)
      BY <2>3 DEF MenusKept
    <3>1. wanted = granted /\ roleMenus = granted
      BY <1>3 DEF MenusKept, ToggleMenu
    <3> QED
      BY <1>3, <3>1 DEF ToggleMenu, Flip
  <2> QED
    BY <2>4, <2>5
<1>4. ASSUME NEW ok \in BOOLEAN, WriteMenus(ok) PROVE MenusKept' /\ WorkspaceTypeOK'
  <2>1. toggle[1] \in SUBSET GivenMenus
    BY <1>4 DEF WriteMenus, WorkspaceTypeOK
  <2>2. WorkspaceTypeOK'
    BY <1>1, <1>4, <2>1 DEF WriteMenus, WorkspaceTypeOK, userVars
  <2> QED
    BY <1>4, <2>2 DEF MenusKept, WriteMenus
<1>5. CASE MenuWriteFails
  <2>1. WorkspaceTypeOK'
    BY <1>1, <1>5 DEF MenuWriteFails, WorkspaceTypeOK, userVars
  <2> QED
    BY <1>2, <1>5, <2>1 DEF MenusKept, MenuWriteFails
<1>6. CASE TakeList
  <2>1. WorkspaceTypeOK'
    BY <1>1, <1>6 DEF TakeList, WorkspaceTypeOK, userVars
  <2> QED
    BY <1>2, <1>6, <2>1 DEF MenusKept, TakeList
<1> QED
  BY <1>2, <1>3, <1>4, <1>5, <1>6

LEMMA WorkspaceInvStep == WorkspaceInv /\ [WorkspaceNext]_workspaceVars => WorkspaceInv'
<1> SUFFICES ASSUME WorkspaceInv, [WorkspaceNext]_workspaceVars PROVE WorkspaceInv'
  OBVIOUS
<1>1. ASSUME NEW p \in Pages, FollowLink(p) \/ OpenAddress(p) \/ OpenWindow(p) \/ CloseWindow(p) \/ CloseOthers(p)
      PROVE  WorkspaceInv'
  BY <1>1, LinkKeeps, OpenAddressKeeps, OpenWindowKeeps, CloseWindowKeeps, CloseOthersKeeps
<1>2. CASE Arrive \/ Redirect \/ NameComes
  BY <1>2, ArriveKeeps, RedirectKeeps, NameComesKeeps
<1>3. CASE TakeMenus \/ MenusFail \/ AskMenus
  BY <1>3, MenusComeKeeps, AskMenusKeeps
<1>4. CASE CloseShown \/ CloseAll
  BY <1>4, CloseShownKeeps, CloseAllKeeps
<1>5. CASE (\E m \in GivenMenus : ToggleMenu(m)) \/ (\E ok \in BOOLEAN : WriteMenus(ok)) \/ MenuWriteFails \/ TakeList
  BY <1>5, AdminKeeps
<1>6. CASE UNCHANGED workspaceVars
  BY <1>6 DEF workspaceVars, userVars, roleVars, WorkspaceInv, WorkspaceTypeOK, WindowsKept, MenusKept
<1> QED
  BY <1>1, <1>2, <1>3, <1>4, <1>5, <1>6 DEF WorkspaceNext

LEMMA WorkspaceInvSuffices == WorkspaceInv => ChoicesStay
BY DEF WorkspaceInv, WindowsKept, MenusKept, ChoicesStay

-----------------------------------------------------------------------------
(***************************************************************************)
(* The picker of a place on the map, for any places, presses, searches and *)
(* failures: a request that is the last one asks for the point that is     *)
(* marked, unless a place was chosen over it.                              *)
(***************************************************************************)

PickerCounts ==
  /\ geocodeSeq \in 0..presses /\ searches \in 0..presses
  /\ \A c \in namings : c.seq <= geocodeSeq /\ (c.stage # "asked" => c.left > 0)
  /\ overlay # "there" => namings = {} /\ nameStatus = "idle"

LastAsksForMarked == ~overnamed => \A c \in namings : IsCurrent(c) => c.at = marked.at

PickerInv == PlacePickerTypeOK /\ PickerCounts /\ LastAsksForMarked /\ PlacesAreNamedRight

LEMMA PickerInvInit ==
  ASSUME PlacePickerInit
  PROVE  PickerInv
<1>1. PlacePickerTypeOK
  <2>1. spot \in Locations /\ NoSpot \in Locations
    BY DEF PlacePickerInit, Locations, NoSpot
  <2>2. /\ amap = "none" /\ overlay = "closed" /\ marked = NoSpot /\ nameStatus = "idle"
        /\ geocodeSeq = 0 /\ namings = {} /\ places = {} /\ searches = 0
        /\ overnamed = FALSE /\ presses = 0
    BY DEF PlacePickerInit
  <2>3. 0 \in 0..MaxPresses
    BY PlacePickerAssumption
  <2>4. namings \subseteq Namings /\ places \subseteq MapPlaces
    BY <2>2
  <2>5. spot \in Locations /\ marked \in Locations
    BY <2>1, <2>2
  <2> QED
    BY <2>2, <2>3, <2>4, <2>5 DEF PlacePickerTypeOK
<1>2. PickerCounts
  BY DEF PlacePickerInit, PickerCounts
<1>3. LastAsksForMarked /\ PlacesAreNamedRight
  BY DEF PlacePickerInit, LastAsksForMarked, PlacesAreNamedRight, NoSpot, IsNamedRight
<1> QED
  BY <1>1, <1>2, <1>3 DEF PickerInv

LEMMA PressCounts ==
  ASSUME presses \in 0..MaxPresses, Press
  PROVE  presses' = presses + 1 /\ presses' \in 0..MaxPresses /\ presses \in Nat
BY PlacePickerAssumption DEF Press

LEMMA ClosedKeeps ==
  ASSUME PickerInv, Unmounted, overlay' = "closed", spot' \in {spot, marked, NoSpot},
         UNCHANGED <<amap, overnamed, presses>>
  PROVE  PickerInv'
<1>1. NoSpot \in Locations /\ IsNamedRight(NoSpot)
  BY DEF NoSpot, Locations, IsNamedRight
<1>2. /\ marked' = NoSpot /\ nameStatus' = "idle" /\ geocodeSeq' = 0 /\ namings' = {}
      /\ places' = {} /\ searches' = 0
  BY DEF Unmounted
<1>3. PlacePickerTypeOK'
  BY <1>1, <1>2, PlacePickerAssumption DEF PickerInv, PlacePickerTypeOK
<1>4. PickerCounts' /\ LastAsksForMarked'
  BY <1>2 DEF PickerInv, PlacePickerTypeOK, PickerCounts, LastAsksForMarked
<1>5. PlacesAreNamedRight'
  BY <1>1, <1>2 DEF PickerInv, PlacesAreNamedRight, IsNamedRight
<1> QED
  BY <1>3, <1>4, <1>5 DEF PickerInv

LEMMA OverlayKeeps ==
  ASSUME PickerInv, OpenPicker \/ AMapLoads \/ AMapFails \/ MapIsMade
  PROVE  PickerInv'
<1>1. presses' \in {presses, presses + 1} /\ presses' \in 0..MaxPresses
  BY PlacePickerAssumption
     DEF PickerInv, PlacePickerTypeOK, Press, OpenPicker, AMapLoads, AMapFails, MapIsMade
<1>2. /\ amap' \in {"none", "loading", "loaded"} /\ overlay' \in {"closed", "waiting", "there", "failed"}
      /\ UNCHANGED <<spot, nameStatus, geocodeSeq, namings, places, searches, overnamed>>
  BY DEF PickerInv, PlacePickerTypeOK, OpenPicker, AMapLoads, AMapFails, MapIsMade
<1>3. marked' = marked \/ (overlay = "closed" /\ marked' = spot)
  BY DEF OpenPicker, AMapLoads, AMapFails, MapIsMade
<1>4. PlacePickerTypeOK'
  BY <1>1, <1>2, <1>3 DEF PickerInv, PlacePickerTypeOK
<1>5. overlay' # "there" => overlay # "there"
  BY DEF OpenPicker, AMapLoads, AMapFails, MapIsMade
<1>6. PickerCounts'
  BY <1>1, <1>2, <1>5 DEF PickerInv, PlacePickerTypeOK, PickerCounts
<1>7. LastAsksForMarked'
  BY <1>2, <1>3 DEF PickerInv, PickerCounts, LastAsksForMarked, IsCurrent
<1>8. PlacesAreNamedRight'
  BY <1>2, <1>3 DEF PickerInv, PlacesAreNamedRight, IsNamedRight, IsCurrent
<1> QED
  BY <1>4, <1>6, <1>7, <1>8 DEF PickerInv

LEMMA OverlayClosingKeeps ==
  ASSUME PickerInv, ConfirmPlace \/ CancelPicker
  PROVE  PickerInv'
BY ClosedKeeps DEF ConfirmPlace, CancelPicker

LEMMA ClearLocationKeeps ==
  ASSUME PickerInv, ClearLocation
  PROVE  PickerInv'
<1>1. /\ spot' = NoSpot
      /\ UNCHANGED <<amap, overlay, marked, nameStatus, geocodeSeq, namings, places, searches, overnamed,
                     presses>>
  BY DEF ClearLocation
<1>2. NoSpot \in Locations /\ IsNamedRight(NoSpot)
  BY DEF NoSpot, Locations, IsNamedRight
<1>3. PlacePickerTypeOK' /\ PickerCounts'
  BY <1>1, <1>2 DEF PickerInv, PlacePickerTypeOK, PickerCounts
<1>4. LastAsksForMarked' /\ PlacesAreNamedRight'
  BY <1>1, <1>2 DEF PickerInv, LastAsksForMarked, PlacesAreNamedRight, IsNamedRight, IsCurrent
<1> QED
  BY <1>3, <1>4 DEF PickerInv

\* A new request is the last one, and those before it are not.
LEMMA FillKeeps ==
  ASSUME PickerInv, overlay = "there", NEW p \in MapPlaces, Press, FillLocationName(p),
         marked' \in Locations, marked'.at = p, marked'.name = NOPLACE,
         UNCHANGED <<amap, spot, overlay, places, searches, overnamed>>
  PROVE  PickerInv'
<1>1. presses' = presses + 1 /\ presses' \in 0..MaxPresses
  BY PressCounts DEF PickerInv, PlacePickerTypeOK
<1>2. PICK c : c = [seq |-> geocodeSeq + 1, at |-> p, left |-> Retries, stage |-> "asked"]
  OBVIOUS
<1>3. geocodeSeq' = geocodeSeq + 1 /\ geocodeSeq' \in 1..presses' /\ geocodeSeq' \in 1..MaxPresses
  BY <1>1, PlacePickerAssumption DEF FillLocationName, PickerInv, PlacePickerTypeOK, PickerCounts
<1>4. \A d \in {c, [c EXCEPT !.stage = "plugin"]} : 
        d \in Namings /\ d.seq = geocodeSeq' /\ d.at = p /\ d.left > 0
  BY <1>2, <1>3 DEF Namings, Retries
<1>5. PICK added \in {c, [c EXCEPT !.stage = "plugin"]} :
        \/ nameStatus' = "loading" /\ namings' = namings \cup {added}
        \/ nameStatus' = "failed" /\ namings' = namings
  BY <1>2 DEF FillLocationName
<1>6. \A d \in namings : d \in Namings /\ d.seq <= geocodeSeq /\ d.seq # geocodeSeq'
  BY <1>3 DEF PickerInv, PlacePickerTypeOK, PickerCounts, Namings
<1>7. PlacePickerTypeOK'
  BY <1>1, <1>3, <1>4, <1>5 DEF PickerInv, PlacePickerTypeOK
<1>8. PickerCounts'
  <2>1. searches' \in 0..presses' /\ geocodeSeq' \in 0..presses'
    BY <1>1, <1>3 DEF PickerInv, PlacePickerTypeOK, PickerCounts
  <2>2. \A d \in namings : d.seq <= geocodeSeq' /\ (d.stage # "asked" => d.left > 0)
    BY <1>3, <1>6 DEF PickerInv, PlacePickerTypeOK, PickerCounts, Namings
  <2>3. geocodeSeq' <= geocodeSeq'
    BY <1>3
  <2>4. \A d \in {c, [c EXCEPT !.stage = "plugin"]} : d.seq <= geocodeSeq' /\ d.left > 0
    BY <2>3, <1>4
  <2>5. \A d \in namings' : d.seq <= geocodeSeq' /\ (d.stage # "asked" => d.left > 0)
    BY <1>5, <2>2, <2>4
  <2> QED
    BY <2>1, <2>5 DEF PickerCounts
<1>9. LastAsksForMarked'
  BY <1>4, <1>5, <1>6 DEF LastAsksForMarked, IsCurrent
<1>10. PlacesAreNamedRight'
  BY <1>4, <1>5 DEF PickerInv, PlacesAreNamedRight, IsNamedRight, IsCurrent
<1> QED
  BY <1>7, <1>8, <1>9, <1>10 DEF PickerInv

LEMMA PressMapKeeps ==
  ASSUME PickerInv, NEW p \in MapPlaces, PressMap(p)
  PROVE  PickerInv'
<1>1. marked' \in Locations /\ marked'.at = p /\ marked'.name = NOPLACE
  BY DEF PressMap, Locations
<1> QED
  BY <1>1, FillKeeps DEF PressMap

\* A name is asked for again only where the map is there.
LEMMA AskNameAgainKeeps ==
  ASSUME PickerInv, AskNameAgain
  PROVE  PickerInv'
<1>1. marked.at \in MapPlaces /\ marked' = marked /\ marked \in Locations /\ marked.name = NOPLACE
  BY DEF PickerInv, PlacePickerTypeOK, AskNameAgain, Locations
<1>2. overlay = "there"
  BY DEF AskNameAgain, PickerInv, PickerCounts
<1> QED
  BY <1>1, <1>2, FillKeeps DEF AskNameAgain

\* What a request becomes: it goes, or waits to be repeated.
LEMMA NamingKeeps ==
  ASSUME PickerInv, NEW c \in namings, NEW rest, rest \subseteq Namings,
         \A d \in rest : d.seq = c.seq /\ d.at = c.at /\ (d.stage # "asked" => d.left > 0),
         namings' = (namings \ {c}) \cup rest, nameStatus' \in {nameStatus, "idle", "failed"},
         nameStatus' = "loading" => ~IsCurrent(c) \/ rest # {},
         marked' \in Locations, marked'.at = marked.at,
         marked'.name = marked.name \/ (IsCurrent(c) /\ marked'.name = c.at),
         UNCHANGED <<amap, spot, overlay, geocodeSeq, places, searches, overnamed, presses>>
  PROVE  PickerInv'
<1>1. c.seq <= geocodeSeq /\ overlay = "there"
  BY DEF PickerInv, PickerCounts
<1>2. PlacePickerTypeOK'
  BY DEF PickerInv, PlacePickerTypeOK
<1>3. PickerCounts'
  BY <1>1 DEF PickerInv, PickerCounts
<1>4. LastAsksForMarked'
  BY DEF PickerInv, LastAsksForMarked, IsCurrent
<1>5. ~overnamed' => (IsNamedRight(spot) /\ IsNamedRight(marked))'
  BY DEF PickerInv, LastAsksForMarked, PlacesAreNamedRight, IsNamedRight
<1>6. ASSUME nameStatus' = "loading" PROVE \E d \in namings' : d.seq = geocodeSeq'
  <2>1. nameStatus = "loading"
    BY <1>6
  <2>2. PICK d \in namings : d.seq = geocodeSeq
    BY <2>1 DEF PickerInv, PlacesAreNamedRight, IsCurrent
  <2>3. CASE d # c
    BY <2>2, <2>3
  <2>4. CASE d = c
    <3>1. PICK e : e \in rest
      BY <1>6, <2>2, <2>4 DEF IsCurrent
    <3> QED
      BY <2>2, <2>4, <3>1
  <2> QED
    BY <2>3, <2>4
<1> QED
  BY <1>2, <1>3, <1>4, <1>5, <1>6 DEF PickerInv, PlacesAreNamedRight, IsCurrent

LEMMA NameOfPlaceComesKeeps ==
  ASSUME PickerInv, NEW c \in namings, NEW known \in BOOLEAN, NameOfPlaceComes(c, known)
  PROVE  PickerInv'
<1>1. c \in Namings /\ marked \in Locations
  BY DEF PickerInv, PlacePickerTypeOK
<1>2. PICK rest \in {{}} :
        namings' = (namings \ {c}) \cup rest
  BY DEF NameOfPlaceComes
<1>3. /\ nameStatus' \in {nameStatus, "idle"} /\ (IsCurrent(c) => nameStatus' = "idle")
      /\ UNCHANGED <<amap, spot, overlay, geocodeSeq, places, searches, overnamed, presses>>
  BY DEF NameOfPlaceComes
<1>4. marked' = marked \/ (IsCurrent(c) /\ marked' = [marked EXCEPT !.name = c.at])
  BY DEF NameOfPlaceComes
<1>5. /\ marked' \in Locations /\ marked'.at = marked.at
      /\ marked'.name = marked.name \/ (IsCurrent(c) /\ marked'.name = c.at)
  BY <1>1, <1>4 DEF Locations, Namings
<1>6. rest \subseteq Namings /\ \A d \in rest : d.seq = c.seq /\ d.at = c.at /\ (d.stage # "asked" => d.left > 0)
  OBVIOUS
<1> QED
  BY <1>2, <1>3, <1>5, <1>6, NamingKeeps

LEMMA NameOfPlaceFailsKeeps ==
  ASSUME PickerInv, NEW c \in namings, NameOfPlaceFails(c)
  PROVE  PickerInv'
<1>1. c \in Namings /\ marked \in Locations
  BY DEF PickerInv, PlacePickerTypeOK
<1>2. PICK d : d = [c EXCEPT !.stage = "pause"]
  OBVIOUS
<1>3. d \in Namings /\ d.seq = c.seq /\ d.at = c.at /\ d.left = c.left
  BY <1>1, <1>2 DEF Namings
<1>4. PICK rest \in IF c.left > 0 THEN {{}, {d}} ELSE {{}} :
        /\ namings' = (namings \ {c}) \cup rest
        /\ nameStatus' \in {nameStatus, "failed"}
        /\ IsCurrent(c) /\ rest = {} => nameStatus' = "failed"
  BY <1>2 DEF NameOfPlaceFails
<1>5. UNCHANGED <<amap, spot, overlay, marked, geocodeSeq, places, searches, overnamed, presses>>
  BY DEF NameOfPlaceFails
<1>6. rest \subseteq Namings /\ \A e \in rest : e.seq = c.seq /\ e.at = c.at /\ (e.stage # "asked" => e.left > 0)
  BY <1>3, <1>4
<1> QED
  BY <1>1, <1>4, <1>5, <1>6, NamingKeeps

\* A request that waits has one more attempt, so what is left of them is a number.
LEMMA AttemptAgainKeeps ==
  ASSUME PickerInv, NEW c \in namings, AttemptAgain(c)
  PROVE  PickerInv'
<1>1. c \in Namings /\ marked \in Locations /\ c.left > 0
  BY DEF PickerInv, PlacePickerTypeOK, PickerCounts, AttemptAgain
<1>2. PICK less : less = [c EXCEPT !.left = @ - 1]
  OBVIOUS
<1>3. less \in Namings /\ less.seq = c.seq /\ less.at = c.at
  BY <1>1, <1>2 DEF Namings, Retries
<1>4. PICK a, b : a = [less EXCEPT !.stage = "asked"] /\ b = [less EXCEPT !.stage = "plugin"]
  OBVIOUS
<1>5. /\ a \in Namings /\ a.seq = c.seq /\ a.at = c.at /\ a.stage = "asked"
      /\ b \in Namings /\ b.seq = c.seq /\ b.at = c.at /\ b.left = less.left
  BY <1>3, <1>4 DEF Namings
<1>6. PICK rest \in {{}, {a}} \cup (IF less.left > 0 THEN {{b}} ELSE {}) :
        /\ namings' = (namings \ {c}) \cup rest
        /\ nameStatus' \in {nameStatus, "failed"}
        /\ IsCurrent(c) /\ rest = {} => nameStatus' = "failed"
  <2>1. CASE IsCurrent(c)
    BY <1>2, <1>4, <2>1 DEF AttemptAgain, Attempt
  <2>2. CASE ~IsCurrent(c)
    <3>1. namings' = (namings \ {c}) \cup {} /\ nameStatus' = nameStatus
      BY <2>2 DEF AttemptAgain
    <3> QED
      BY <2>2, <3>1
  <2> QED
    BY <2>1, <2>2
<1>7. UNCHANGED <<amap, spot, overlay, marked, geocodeSeq, places, searches, overnamed, presses>>
  BY DEF AttemptAgain
<1>8. rest \subseteq Namings /\ \A d \in rest : d.seq = c.seq /\ d.at = c.at /\ (d.stage # "asked" => d.left > 0)
  BY <1>5, <1>6
<1> QED
  BY <1>1, <1>6, <1>7, <1>8, NamingKeeps

LEMMA PlaceSearchKeeps ==
  ASSUME PickerInv, HandleSearch \/ \E pois \in SUBSET MapPlaces : SearchComes(pois)
  PROVE  PickerInv'
<1>1. UNCHANGED <<amap, spot, overlay, marked, nameStatus, geocodeSeq, namings, overnamed>>
  BY DEF HandleSearch, SearchComes
<1>2. /\ presses' \in 0..MaxPresses /\ searches' \in 0..presses' /\ presses <= presses'
      /\ presses \in Nat /\ places' \subseteq MapPlaces
  <2>1. CASE HandleSearch
    BY <2>1, PressCounts, PlacePickerAssumption DEF HandleSearch, PickerInv, PlacePickerTypeOK, PickerCounts
  <2>2. CASE \E pois \in SUBSET MapPlaces : SearchComes(pois)
    BY <2>2 DEF SearchComes, PickerInv, PlacePickerTypeOK, PickerCounts
  <2> QED
    BY <2>1, <2>2
<1>3. searches' \in 0..MaxPresses /\ geocodeSeq' \in 0..presses'
  BY <1>1, <1>2, PlacePickerAssumption DEF PickerInv, PickerCounts
<1>4. PlacePickerTypeOK'
  BY <1>1, <1>2, <1>3 DEF PickerInv, PlacePickerTypeOK
<1>5. PickerCounts'
  BY <1>1, <1>2, <1>3 DEF PickerInv, PickerCounts
<1>6. LastAsksForMarked' /\ PlacesAreNamedRight'
  BY <1>1 DEF PickerInv, LastAsksForMarked, PlacesAreNamedRight, IsNamedRight, IsCurrent
<1> QED
  BY <1>4, <1>5, <1>6 DEF PickerInv

\* A place that is chosen has its name, and no request is for it but those overnamed tells of.
LEMMA ChoosePoiKeeps ==
  ASSUME PickerInv, NEW p \in MapPlaces, ChoosePoi(p)
  PROVE  PickerInv'
<1>1. /\ marked' \in Locations /\ IsNamedRight(marked')
      /\ nameStatus' = "idle" /\ places' = {}
      /\ UNCHANGED <<amap, spot, overlay, geocodeSeq, namings, searches, presses>>
  BY DEF ChoosePoi, Locations, IsNamedRight
<1>2. overnamed' = (overnamed \/ \E c \in namings : IsCurrent(c))
  BY DEF ChoosePoi
<1>3. overnamed' \in BOOLEAN
  BY <1>2
<1>4. PlacePickerTypeOK' /\ PickerCounts'
  BY <1>1, <1>3 DEF PickerInv, PlacePickerTypeOK, PickerCounts
<1>5. LastAsksForMarked'
  BY <1>1, <1>2 DEF LastAsksForMarked, IsCurrent
<1>6. PlacesAreNamedRight'
  BY <1>1, <1>2 DEF PickerInv, PlacesAreNamedRight, IsNamedRight
<1> QED
  BY <1>4, <1>5, <1>6 DEF PickerInv

LEMMA PickerInvStep ==
  ASSUME PickerInv, [PlacePickerNext]_pickerVars
  PROVE  PickerInv'
<1>1. CASE OpenPicker \/ AMapLoads \/ AMapFails \/ MapIsMade
  BY <1>1, OverlayKeeps
<1>2. CASE ConfirmPlace \/ CancelPicker
  BY <1>2, OverlayClosingKeeps
<1>3. CASE ClearLocation
  BY <1>3, ClearLocationKeeps
<1>4. CASE \E p \in MapPlaces : PressMap(p)
  BY <1>4, PressMapKeeps
<1>5. CASE AskNameAgain
  BY <1>5, AskNameAgainKeeps
<1>6. CASE \E c \in namings : \E known \in BOOLEAN : NameOfPlaceComes(c, known)
  BY <1>6, NameOfPlaceComesKeeps
<1>7. CASE \E c \in namings : NameOfPlaceFails(c)
  BY <1>7, NameOfPlaceFailsKeeps
<1>8. CASE \E c \in namings : AttemptAgain(c)
  BY <1>8, AttemptAgainKeeps
<1>9. CASE HandleSearch \/ \E pois \in SUBSET MapPlaces : SearchComes(pois)
  BY <1>9, PlaceSearchKeeps
<1>10. CASE \E p \in MapPlaces : ChoosePoi(p)
  BY <1>10, ChoosePoiKeeps
<1>11. CASE UNCHANGED pickerVars
  BY <1>11 DEF pickerVars, PickerInv, PlacePickerTypeOK, PickerCounts, LastAsksForMarked,
               PlacesAreNamedRight, IsNamedRight, IsCurrent
<1> QED
  BY <1>1, <1>2, <1>3, <1>4, <1>5, <1>6, <1>7, <1>8, <1>9, <1>10, <1>11 DEF PlacePickerNext

-----------------------------------------------------------------------------
(***************************************************************************)
(* The tools with a preview, for any workers, projects and clicks: two     *)
(* events of a record at once, or one of a record that has its job, mean   *)
(* that it was taken up otherwise.                                         *)
(***************************************************************************)

EventsAreExplained ==
  \A p \in Crew :
    /\ recordEvents[p] # {} /\ ~IsUnsent(p) => p \in retaken
    /\ "pending" \in recordEvents[p] /\ "taken" \in recordEvents[p] => p \in retaken

PreviewsInv == PreviewsTypeOK /\ EventsAreExplained /\ WhatIsShownIsWritten

ToolTyped ==
  /\ tool \in {"generator", "repair"} /\ yard \in Yards /\ toolOpen \in BOOLEAN
  /\ staff \subseteq Crew /\ clicks \in 0..MaxClicks
ShownTyped == preview \subseteq PreviewsTyped
ShownIsOfChoice == \A p \in preview : p.late \/ p.nth = 0 \/ (p.of = staff /\ p.from = yard)
StampedRight ==
  /\ stamped \subseteq RecordsTyped
  /\ \A r \in stamped : YardOf[r.of] = r.from
  /\ \A r, t \in stamped : IsSameRecord(r, t) => r = t
JobsRight ==
  /\ departed \subseteq Crew
  /\ lastJob \in [Crew -> {"none", "failed", "waiting", "at work", "done"}]
  /\ recordEvents \in [Crew -> SUBSET {"pending", "taken"}]
  /\ retaken \subseteq Crew /\ sentAgain \subseteq Crew
  /\ sentAgain \subseteq retaken
  /\ EventsAreExplained

LEMMA PreviewsInvParts ==
  /\ PreviewsInv <=> /\ ToolTyped /\ ShownTyped /\ ShownIsOfChoice /\ askings \subseteq AskingsTyped
                     /\ sendings \subseteq SendingsTyped /\ StampedRight /\ JobsRight
  /\ PreviewsInv' <=> /\ ToolTyped' /\ ShownTyped' /\ ShownIsOfChoice' /\ askings' \subseteq AskingsTyped
                      /\ sendings' \subseteq SendingsTyped /\ StampedRight' /\ JobsRight'
<1>1. PreviewsInv <=> /\ ToolTyped /\ ShownTyped /\ ShownIsOfChoice /\ askings \subseteq AskingsTyped
                      /\ sendings \subseteq SendingsTyped /\ StampedRight /\ JobsRight
  BY DEF PreviewsInv, PreviewsTypeOK, WhatIsShownIsWritten, ToolTyped, ShownTyped, ShownIsOfChoice,
         StampedRight, JobsRight
<1>2. PreviewsInv' <=> /\ ToolTyped' /\ ShownTyped' /\ ShownIsOfChoice' /\ askings' \subseteq AskingsTyped
                       /\ sendings' \subseteq SendingsTyped /\ StampedRight' /\ JobsRight'
  BY DEF PreviewsInv, PreviewsTypeOK, WhatIsShownIsWritten, ToolTyped, ShownTyped, ShownIsOfChoice,
         StampedRight, JobsRight
<1> QED
  BY <1>1, <1>2

LEMMA PreviewsInvInit ==
  ASSUME PreviewsInit
  PROVE  PreviewsInv
<1>1. 0 \in 0..MaxClicks
  BY PreviewsAssumption
<1>2. ToolTyped /\ ShownTyped /\ ShownIsOfChoice /\ askings \subseteq AskingsTyped
      /\ sendings \subseteq SendingsTyped /\ StampedRight
  BY <1>1 DEF PreviewsInit, ToolTyped, ShownTyped, ShownIsOfChoice, StampedRight
<1>3. EventsAreExplained
  <2> SUFFICES ASSUME NEW p \in Crew
               PROVE  /\ recordEvents[p] # {} /\ ~IsUnsent(p) => p \in retaken
                      /\ "pending" \in recordEvents[p] /\ "taken" \in recordEvents[p] => p \in retaken
    BY DEF EventsAreExplained
  <2>1. recordEvents[p] = {} \/ recordEvents[p] = {"pending"}
    BY DEF PreviewsInit
  <2> QED
    BY <2>1 DEF PreviewsInit, IsUnsent
<1>4. recordEvents \in [Crew -> SUBSET {"pending", "taken"}]
  BY DEF PreviewsInit
<1>5. lastJob \in [Crew -> {"none", "failed", "waiting", "at work", "done"}]
  BY DEF PreviewsInit
<1>6. JobsRight
  BY <1>3, <1>4, <1>5 DEF PreviewsInit, JobsRight
<1> QED
  BY <1>2, <1>6, PreviewsInvParts

\* What a step leaves alone stays right.
LEMMA StampedStays == ASSUME StampedRight, UNCHANGED stamped PROVE StampedRight'
BY DEF StampedRight, IsSameRecord

LEMMA JobsStay ==
  ASSUME JobsRight, UNCHANGED <<lastJob, recordEvents, retaken, sentAgain>>, departed' \subseteq Crew
  PROVE  JobsRight'
BY DEF JobsRight, EventsAreExplained, IsUnsent

LEMMA ServerStays ==
  ASSUME StampedRight, JobsRight, UNCHANGED previewsServer
  PROVE  StampedRight' /\ JobsRight'
<1>1. departed' \subseteq Crew
  BY DEF previewsServer, JobsRight
<1> QED
  BY <1>1, StampedStays, JobsStay DEF previewsServer

LEMMA ShownStays ==
  ASSUME ShownTyped, ShownIsOfChoice, UNCHANGED <<staff, yard, preview>>
  PROVE  ShownTyped' /\ ShownIsOfChoice'
BY DEF ShownTyped, ShownIsOfChoice

LEMMA ClickCounts ==
  ASSUME clicks \in 0..MaxClicks, Click
  PROVE  clicks' \in 1..MaxClicks /\ clicks' \in 0..MaxClicks
BY PreviewsAssumption DEF Click

LEMMA ToolKeeps ==
  ASSUME PreviewsInv,
         OpenTool \/ CloseTool \/ BackToChoice \/ \E S \in SUBSET OfYard(yard) : PickWorkers(S)
  PROVE  PreviewsInv'
<1> USE PreviewsInvParts
<1>1. StampedRight' /\ JobsRight'
  BY ServerStays DEF OpenTool, CloseTool, BackToChoice, PickWorkers
<1>2. UNCHANGED <<askings, sendings, tool, yard>>
  BY DEF OpenTool, CloseTool, BackToChoice, PickWorkers
<1>3. CASE OpenTool
  <2>1. clicks' \in 0..MaxClicks
    BY <1>3, ClickCounts DEF OpenTool, ToolTyped
  <2>2. ToolTyped' /\ ShownTyped' /\ ShownIsOfChoice'
    BY <1>3, <2>1 DEF OpenTool, ToolTyped, ShownTyped, ShownIsOfChoice
  <2> QED
    BY <1>1, <1>2, <2>2
<1>4. CASE CloseTool \/ BackToChoice
  <2>1. ToolTyped' /\ ShownTyped' /\ ShownIsOfChoice'
    BY <1>4 DEF CloseTool, BackToChoice, ToolTyped, ShownTyped, ShownIsOfChoice
  <2> QED
    BY <1>1, <1>2, <2>1
<1>5. CASE \E S \in SUBSET OfYard(yard) : PickWorkers(S)
  <2>1. PICK S \in SUBSET OfYard(yard) : PickWorkers(S)
    BY <1>5
  <2>2. S \subseteq Crew
    BY DEF OfYard
  <2>3. staff' \subseteq Crew /\ toolOpen' \in BOOLEAN /\ preview' = {} /\ Click
    BY <2>1, <2>2 DEF PickWorkers, ToolTyped
  <2>4. clicks' \in 0..MaxClicks
    BY <2>3, ClickCounts DEF ToolTyped
  <2> QED
    BY <1>1, <1>2, <2>3, <2>4 DEF ToolTyped, ShownTyped, ShownIsOfChoice
<1> QED
  BY <1>3, <1>4, <1>5

LEMMA GoToYardKeeps ==
  ASSUME PreviewsInv, \E y \in Yards : GoToYard(y)
  PROVE  PreviewsInv'
<1> USE PreviewsInvParts
<1>1. PICK y \in Yards : GoToYard(y)
  OBVIOUS
<1>2. StampedRight' /\ JobsRight'
  BY <1>1, ServerStays DEF GoToYard
<1>3. clicks' \in 0..MaxClicks
  BY <1>1, ClickCounts DEF GoToYard, ToolTyped
<1>4. ToolTyped'
  BY <1>1, <1>3 DEF GoToYard, ToolTyped
<1>5. \A p \in PreviewsTyped : Overtaken(p) \in PreviewsTyped /\ Overtaken(p).late
  BY DEF PreviewsTyped, Overtaken
<1>6. ShownTyped' /\ ShownIsOfChoice'
  BY <1>1, <1>5 DEF GoToYard, ShownTyped, ShownIsOfChoice
<1> QED
  BY <1>1, <1>2, <1>4, <1>6 DEF GoToYard

LEMMA PreviewAskedKeeps ==
  ASSUME PreviewsInv, CreatePreview \/ \E S \in SUBSET OfYard(yard) : ReadFile(S)
  PROVE  PreviewsInv'
<1> USE PreviewsInvParts
<1>1. UNCHANGED <<tool, yard, toolOpen, staff, preview, sendings, previewsServer>> /\ Click
  BY DEF CreatePreview, ReadFile
<1>2. StampedRight' /\ JobsRight' /\ ShownTyped' /\ ShownIsOfChoice'
  BY <1>1, ServerStays, ShownStays
<1>3. clicks' \in 0..MaxClicks /\ ToolTyped'
  BY <1>1, ClickCounts DEF ToolTyped
<1>4. \A S, T \in SUBSET Crew, n \in 0..MaxClicks, g \in {"waiting", "sent", "answered"} :
        PreviewRequest(S, n, T, g) \in AskingsTyped
  BY DEF PreviewRequest, AskingsTyped, ToolTyped
<1>5. 0 \in 0..MaxClicks /\ OfYard(yard) \subseteq Crew /\ FirstStage \in {"waiting", "sent", "answered"}
  BY PreviewsAssumption DEF OfYard, FirstStage
<1>6. askings' \subseteq AskingsTyped
  <2>1. CASE CreatePreview
    <3>1. PreviewRequest(staff, clicks', {}, FirstStage) \in AskingsTyped
      BY <1>3, <1>4, <1>5 DEF ToolTyped
    <3> QED
      BY <2>1, <3>1 DEF CreatePreview
  <2>2. CASE \E S \in SUBSET OfYard(yard) : ReadFile(S)
    <3>1. PICK S \in SUBSET OfYard(yard) : ReadFile(S)
      BY <2>2
    <3>2. PreviewRequest({}, 0, S, "answered") \in AskingsTyped
      BY <1>4, <1>5
    <3> QED
      BY <3>1, <3>2 DEF ReadFile
  <2> QED
    BY <2>1, <2>2
<1> QED
  BY <1>1, <1>2, <1>3, <1>6

LEMMA AskingKeeps ==
  ASSUME PreviewsInv, NEW q \in askings, AskingGoesOut(q) \/ PreviewIsMade(q) \/ PreviewFails(q)
  PROVE  PreviewsInv'
<1> USE PreviewsInvParts
<1>1. UNCHANGED <<tool, yard, toolOpen, staff, preview, sendings, previewsServer, clicks>>
  BY DEF AskingGoesOut, PreviewIsMade, PreviewFails
<1>2. StampedRight' /\ JobsRight' /\ ShownTyped' /\ ShownIsOfChoice' /\ ToolTyped'
  BY <1>1, ServerStays, ShownStays DEF ToolTyped
<1>3. q \in AskingsTyped
  OBVIOUS
<1>4. [q EXCEPT !.from = yard, !.stage = "sent"] \in AskingsTyped
  BY <1>3 DEF AskingsTyped, ToolTyped
<1>5. \A T \in SUBSET Crew : [q EXCEPT !.rows = T, !.stage = "answered"] \in AskingsTyped
  BY <1>3 DEF AskingsTyped
<1>6. q.of \subseteq Crew /\ CanBeRepaired(q.of, q.from) \subseteq Crew
  BY <1>3 DEF AskingsTyped, CanBeRepaired
<1>7. askings' \subseteq AskingsTyped
  <2>1. CASE AskingGoesOut(q)
    BY <2>1, <1>4 DEF AskingGoesOut
  <2>2. CASE PreviewIsMade(q)
    <3>1. PICK T \in SUBSET Crew : T = IF tool = "generator" THEN q.of ELSE CanBeRepaired(q.of, q.from)
      BY <1>6
    <3> QED
      BY <2>2, <3>1, <1>5 DEF PreviewIsMade
  <2>3. CASE PreviewFails(q)
    BY <2>3 DEF PreviewFails
  <2> QED
    BY <2>1, <2>2, <2>3
<1> QED
  BY <1>1, <1>2, <1>7

LEMMA PreviewComesKeeps ==
  ASSUME PreviewsInv, NEW q \in askings, PreviewComes(q)
  PROVE  PreviewsInv'
<1> USE PreviewsInvParts
<1>1. UNCHANGED <<tool, yard, toolOpen, staff, sendings, previewsServer, clicks>>
      /\ askings' = askings \ {q}
  BY DEF PreviewComes
<1>2. StampedRight' /\ JobsRight' /\ ToolTyped'
  BY <1>1, ServerStays DEF ToolTyped
<1>3. PICK b \in BOOLEAN : b = (q.of # staff \/ q.from # yard)
  OBVIOUS
<1>4. q.of \in SUBSET Crew /\ q.from \in Yards /\ q.nth \in 0..MaxClicks /\ q.rows \in SUBSET Crew
  BY DEF AskingsTyped
<1>5. preview' = {[of |-> q.of, from |-> q.from, nth |-> q.nth, rows |-> q.rows, late |-> b]}
  BY <1>3 DEF PreviewComes
<1>6. ShownTyped'
  BY <1>4, <1>5 DEF ShownTyped, PreviewsTyped
<1>7. ShownIsOfChoice'
  <2>1. staff' = staff /\ yard' = yard
    BY <1>1
  <2>2. b \/ (q.of = staff /\ q.from = yard)
    BY <1>3
  <2> QED
    BY <1>5, <2>1, <2>2 DEF ShownIsOfChoice
<1> QED
  BY <1>1, <1>2, <1>6, <1>7

LEMMA ConfirmPreviewKeeps ==
  ASSUME PreviewsInv, NEW p \in preview, ConfirmPreview(p)
  PROVE  PreviewsInv'
<1> USE PreviewsInvParts
<1>1. UNCHANGED <<tool, yard, toolOpen, staff, preview, askings, previewsServer>> /\ Click
  BY DEF ConfirmPreview
<1>2. StampedRight' /\ JobsRight' /\ ShownTyped' /\ ShownIsOfChoice'
  BY <1>1, ServerStays, ShownStays
<1>3. clicks' \in 1..MaxClicks /\ ToolTyped'
  BY <1>1, ClickCounts DEF ToolTyped
<1>4. p.nth \in 0..MaxClicks /\ p.rows \in SUBSET Crew /\ FirstStage \in {"waiting", "sent", "done", "failed"}
  BY DEF ShownTyped, PreviewsTyped, FirstStage
<1>5. [of |-> staff, from |-> yard, nth |-> p.nth, rows |-> p.rows, copy |-> clicks',
       stage |-> FirstStage, heard |-> TRUE] \in SendingsTyped
  BY <1>3, <1>4 DEF SendingsTyped, ToolTyped
<1>6. sendings' \subseteq SendingsTyped
  BY <1>5 DEF ConfirmPreview
<1> QED
  BY <1>1, <1>2, <1>3, <1>6

LEMMA SettlingTyped ==
  ASSUME sendings \subseteq SendingsTyped, NEW s \in sendings, NEW g \in {"done", "failed"}, SendingSettles(s, g)
  PROVE  sendings' \subseteq SendingsTyped
<1>1. [s EXCEPT !.stage = g] \in SendingsTyped
  BY DEF SendingsTyped
<1> QED
  BY <1>1 DEF SendingSettles

LEMMA SendingKeeps ==
  ASSUME PreviewsInv, NEW s \in sendings, SendingGoesOut(s) \/ SendingFails(s) \/ SendingIsAnswered(s)
  PROVE  PreviewsInv'
<1> USE PreviewsInvParts
<1>1. UNCHANGED <<tool, yard, staff, askings, previewsServer, clicks>> /\ preview' \in {preview, {}}
      /\ toolOpen' \in BOOLEAN
  BY DEF SendingGoesOut, SendingFails, SendingIsAnswered, ToolTyped
<1>2. StampedRight' /\ JobsRight' /\ ShownTyped' /\ ShownIsOfChoice' /\ ToolTyped'
  BY <1>1, ServerStays DEF ToolTyped, ShownTyped, ShownIsOfChoice
<1>3. s \in SendingsTyped
  OBVIOUS
<1>4. /\ [s EXCEPT !.from = yard, !.stage = "sent"] \in SendingsTyped
      /\ [s EXCEPT !.heard = FALSE] \in SendingsTyped
  BY <1>3 DEF SendingsTyped, ToolTyped
<1>5. sendings' \subseteq SendingsTyped
  BY <1>4 DEF SendingGoesOut, SendingFails, SendingIsAnswered
<1> QED
  BY <1>1, <1>2, <1>5

LEMMA CommitKeeps ==
  ASSUME PreviewsInv, NEW s \in sendings, CommitRecords(s)
  PROVE  PreviewsInv'
<1> USE PreviewsInvParts
<1>1. UNCHANGED <<tool, yard, toolOpen, staff, preview, askings, clicks>>
      /\ UNCHANGED <<departed, lastJob, recordEvents, retaken, sentAgain>>
  BY DEF CommitRecords, previewsJobs
<1>2. ShownTyped' /\ ShownIsOfChoice' /\ ToolTyped'
  BY <1>1, ShownStays DEF ToolTyped
<1>3. JobsRight'
  <2>1. departed' \subseteq Crew
    BY <1>1 DEF JobsRight
  <2> QED
    BY <1>1, <2>1, JobsStay
<1>4. sendings' \subseteq SendingsTyped
  BY SettlingTyped DEF CommitRecords
<1>5. /\ s.rows \in SUBSET Crew /\ s.from \in Yards /\ s.nth \in 0..MaxClicks /\ s.copy \in 1..MaxClicks
  BY DEF SendingsTyped
<1>6. \A r \in RecordsOf(s) : /\ r \in RecordsTyped /\ r.of \in s.rows
                              /\ r.from = s.from /\ r.nth = s.nth /\ r.copy = s.copy
  BY <1>5 DEF RecordsOf, RecordsTyped
<1>7. \A r \in RecordsOf(s) : YardOf[r.of] = r.from
  BY <1>6 DEF CommitRecords, CanBeMade
<1>8. \A r, t \in RecordsOf(s) : IsSameRecord(r, t) => r = t
  BY DEF RecordsOf, IsSameRecord
<1>9. stamped' = stamped \cup {r \in RecordsOf(s) : \A t \in stamped : ~IsSameRecord(r, t)}
  BY DEF CommitRecords
<1>10. \A r, t \in stamped' : IsSameRecord(r, t) => r = t
  <2> SUFFICES ASSUME NEW r \in stamped', NEW t \in stamped', IsSameRecord(r, t) PROVE r = t
    OBVIOUS
  <2>1. IsSameRecord(t, r)
    BY DEF IsSameRecord
  <2>2. CASE r \in stamped /\ t \in stamped
    BY <2>2 DEF StampedRight
  <2>3. CASE r \in RecordsOf(s) /\ t \in RecordsOf(s)
    BY <2>3, <1>8
  <2>4. r \in stamped \/ (r \in RecordsOf(s) /\ \A u \in stamped : ~IsSameRecord(r, u))
    BY <1>9
  <2>5. t \in stamped \/ (t \in RecordsOf(s) /\ \A u \in stamped : ~IsSameRecord(t, u))
    BY <1>9
  <2> QED
    BY <2>1, <2>2, <2>3, <2>4, <2>5
<1>11. stamped' \subseteq RecordsTyped /\ \A r \in stamped' : YardOf[r.of] = r.from
  BY <1>6, <1>7, <1>9 DEF StampedRight
<1>12. StampedRight'
  BY <1>10, <1>11 DEF StampedRight, IsSameRecord
<1> QED
  BY <1>1, <1>2, <1>3, <1>4, <1>12

LEMMA QueueKeeps ==
  ASSUME PreviewsInv, NEW s \in sendings, NEW T \in SUBSET s.rows, QueueRepairs(s, T)
  PROVE  PreviewsInv'
<1> USE PreviewsInvParts
<1>1. UNCHANGED <<tool, yard, toolOpen, staff, preview, askings, departed, stamped, lastJob, sentAgain, clicks>>
  BY DEF QueueRepairs
<1>2. ShownTyped' /\ ShownIsOfChoice' /\ ToolTyped' /\ StampedRight'
  BY <1>1, ShownStays, StampedStays DEF ToolTyped
<1>3. sendings' \subseteq SendingsTyped
  <2>1. PICK g \in {"done", "failed"} : SendingSettles(s, g)
    BY DEF QueueRepairs
  <2> QED
    BY <2>1, SettlingTyped
<1>4. T \subseteq CanBeRepaired(s.rows \cap s.of, s.from)
  BY DEF QueueRepairs
<1>5. s.rows \subseteq Crew
  BY DEF SendingsTyped
<1>6. \A p \in T : p \in Crew /\ IsUnsent(p)
  BY <1>4, <1>5 DEF CanBeRepaired
<1>7. recordEvents' = Enqueued(T) /\ retaken' = retaken \cup {p \in T : "taken" \in recordEvents[p]}
  BY DEF QueueRepairs
<1>8. recordEvents \in [Crew -> SUBSET {"pending", "taken"}]
  BY DEF JobsRight
<1>9. recordEvents' \in [Crew -> SUBSET {"pending", "taken"}]
      /\ \A p \in Crew : recordEvents'[p] = IF p \in T THEN recordEvents[p] \cup {"pending"} ELSE recordEvents[p]
  BY <1>7, <1>8 DEF Enqueued
<1>10. EventsAreExplained'
  <2> SUFFICES ASSUME NEW p \in Crew
               PROVE  /\ recordEvents'[p] # {} /\ ~IsUnsent(p) => p \in retaken'
                      /\ "pending" \in recordEvents'[p] /\ "taken" \in recordEvents'[p] => p \in retaken'
    BY <1>1 DEF EventsAreExplained, IsUnsent
  <2>1. CASE p \in T
    BY <2>1, <1>6, <1>7, <1>9
  <2>2. CASE p \notin T
    BY <2>2, <1>7, <1>9 DEF JobsRight, EventsAreExplained
  <2> QED
    BY <2>1, <2>2
<1>11. JobsRight'
  BY <1>1, <1>5, <1>7, <1>9, <1>10 DEF JobsRight
<1> QED
  BY <1>1, <1>2, <1>3, <1>11

\* What the server does to one record leaves the others alone.
LEMMA ServerKeeps ==
  ASSUME PreviewsInv, NEW p \in Crew,
         \/ WorkerLeaves(p) \/ TakeRepair(p) \/ MakeRepairJob(p)
         \/ RepairJobEnds(p) \/ RetryJobByHand(p) \/ TakeJobAgain(p)
  PROVE  PreviewsInv'
<1> USE PreviewsInvParts
<1>1. UNCHANGED previewsPage
  BY DEF WorkerLeaves, TakeRepair, MakeRepairJob, RepairJobEnds, RetryJobByHand, TakeJobAgain, TakenUpAgain
<1>2. clicks' \in 0..MaxClicks
  BY ClickCounts DEF ToolTyped, WorkerLeaves, TakeRepair, MakeRepairJob, RepairJobEnds, RetryJobByHand,
                    TakeJobAgain, TakenUpAgain
<1>3. ShownTyped' /\ ShownIsOfChoice' /\ ToolTyped' /\ StampedRight'
  BY <1>1, <1>2, ShownStays, StampedStays DEF ToolTyped, previewsPage
<1>4. /\ departed \subseteq Crew
      /\ lastJob \in [Crew -> {"none", "failed", "waiting", "at work", "done"}]
      /\ recordEvents \in [Crew -> SUBSET {"pending", "taken"}]
      /\ retaken \subseteq Crew /\ sentAgain \subseteq Crew /\ sentAgain \subseteq retaken
  BY DEF JobsRight
<1>5. \A o \in Crew : /\ recordEvents[o] # {} /\ ~IsUnsent(o) => o \in retaken
                      /\ "pending" \in recordEvents[o] /\ "taken" \in recordEvents[o] => o \in retaken
  BY DEF JobsRight, EventsAreExplained
<1>6. CASE WorkerLeaves(p)
  <2>1. departed' \subseteq Crew
    BY <1>4, <1>6 DEF WorkerLeaves
  <2> QED
    BY <1>1, <1>3, <1>6, <2>1, JobsStay DEF WorkerLeaves, previewsPage
<1>7. CASE TakeRepair(p)
  <2>1. UNCHANGED <<departed, lastJob, retaken, sentAgain>>
    BY <1>7 DEF TakeRepair
  <2>2. recordEvents' \in [Crew -> SUBSET {"pending", "taken"}] /\ recordEvents'[p] = {"taken"}
        /\ \A o \in Crew \ {p} : recordEvents'[o] = recordEvents[o]
    BY <1>4, <1>7 DEF TakeRepair
  <2>3. recordEvents[p] # {}
    BY <1>7 DEF TakeRepair
  <2>4. EventsAreExplained'
    BY <1>5, <2>1, <2>2, <2>3 DEF EventsAreExplained, IsUnsent
  <2> QED
    BY <1>1, <1>3, <1>4, <2>1, <2>2, <2>4 DEF JobsRight, previewsPage
<1>8. CASE MakeRepairJob(p)
  <2>1. UNCHANGED <<departed, retaken>> /\ "taken" \in recordEvents[p]
        /\ sentAgain' = IF IsUnsent(p) THEN sentAgain ELSE sentAgain \cup {p}
    BY <1>8 DEF MakeRepairJob
  <2>2. recordEvents' \in [Crew -> SUBSET {"pending", "taken"}] /\ recordEvents'[p] = recordEvents[p] \ {"taken"}
        /\ \A o \in Crew \ {p} : recordEvents'[o] = recordEvents[o]
    BY <1>4, <1>8 DEF MakeRepairJob
  <2>3. lastJob' \in [Crew -> {"none", "failed", "waiting", "at work", "done"}]
        /\ \A o \in Crew \ {p} : lastJob'[o] = lastJob[o]
    BY <1>4, <1>8 DEF MakeRepairJob
  <2>4. sentAgain' \subseteq retaken' /\ sentAgain' \subseteq Crew
    BY <1>4, <1>5, <2>1
  <2>5. recordEvents'[p] = {} \/ p \in retaken'
    BY <1>4, <1>5, <2>1, <2>2
  <2>6. EventsAreExplained'
    BY <1>5, <2>1, <2>2, <2>3, <2>5 DEF EventsAreExplained, IsUnsent
  <2> QED
    BY <1>1, <1>3, <1>4, <2>1, <2>2, <2>3, <2>4, <2>6 DEF JobsRight, previewsPage
<1>9. CASE RepairJobEnds(p)
  <2>1. UNCHANGED <<departed, recordEvents, retaken, sentAgain>> /\ ~IsUnsent(p)
    BY <1>9 DEF RepairJobEnds, IsUnsent
  <2>2. lastJob' \in [Crew -> {"none", "failed", "waiting", "at work", "done"}]
        /\ \A o \in Crew \ {p} : lastJob'[o] = lastJob[o]
    BY <1>4, <1>9 DEF RepairJobEnds
  <2>3. EventsAreExplained'
    BY <1>5, <2>1, <2>2 DEF EventsAreExplained, IsUnsent
  <2> QED
    BY <1>1, <1>3, <1>4, <2>1, <2>2, <2>3 DEF JobsRight, previewsPage
<1>10. CASE RetryJobByHand(p) \/ TakeJobAgain(p)
  <2>1. UNCHANGED <<departed, recordEvents, sentAgain>>
        /\ retaken' = IF recordEvents[p] = {} THEN retaken ELSE retaken \cup {p}
    BY <1>10 DEF RetryJobByHand, TakeJobAgain, TakenUpAgain
  <2>2. lastJob' \in [Crew -> {"none", "failed", "waiting", "at work", "done"}]
        /\ \A o \in Crew \ {p} : lastJob'[o] = lastJob[o]
    BY <1>4, <1>10 DEF RetryJobByHand, TakeJobAgain, TakenUpAgain
  <2>3. retaken \subseteq retaken' /\ retaken' \subseteq Crew /\ (recordEvents[p] = {} \/ p \in retaken')
    BY <1>4, <2>1
  <2>4. EventsAreExplained'
    BY <1>5, <2>1, <2>2, <2>3 DEF EventsAreExplained, IsUnsent
  <2> QED
    BY <1>1, <1>3, <1>4, <2>1, <2>2, <2>3, <2>4 DEF JobsRight, previewsPage
<1> QED
  BY <1>6, <1>7, <1>8, <1>9, <1>10

LEMMA PreviewsInvStep ==
  ASSUME PreviewsInv, [PreviewsNext]_previewsVars
  PROVE  PreviewsInv'
<1>1. CASE OpenTool \/ CloseTool \/ BackToChoice \/ \E S \in SUBSET OfYard(yard) : PickWorkers(S)
  BY <1>1, ToolKeeps
<1>2. CASE CreatePreview \/ \E S \in SUBSET OfYard(yard) : ReadFile(S)
  BY <1>2, PreviewAskedKeeps
<1>3. CASE \E y \in Yards : GoToYard(y)
  BY <1>3, GoToYardKeeps
<1>4. CASE \E q \in askings : AskingGoesOut(q) \/ PreviewIsMade(q) \/ PreviewFails(q)
  BY <1>4, AskingKeeps
<1>5. CASE \E q \in askings : PreviewComes(q)
  BY <1>5, PreviewComesKeeps
<1>6. CASE \E p \in preview : ConfirmPreview(p)
  BY <1>6, ConfirmPreviewKeeps
<1>7. CASE \E s \in sendings : SendingGoesOut(s) \/ SendingFails(s) \/ SendingIsAnswered(s)
  BY <1>7, SendingKeeps
<1>8. CASE \E s \in sendings : CommitRecords(s)
  BY <1>8, CommitKeeps
<1>9. CASE \E s \in sendings : \E T \in SUBSET s.rows : QueueRepairs(s, T)
  BY <1>9, QueueKeeps
<1>10. CASE \E p \in Crew : \/ WorkerLeaves(p) \/ TakeRepair(p) \/ MakeRepairJob(p)
                            \/ RepairJobEnds(p) \/ RetryJobByHand(p) \/ TakeJobAgain(p)
  BY <1>10, ServerKeeps
<1>11. CASE UNCHANGED previewsVars
  <2>1. UNCHANGED <<tool, yard, toolOpen, staff, preview, askings, sendings, previewsServer, clicks>>
    BY <1>11 DEF previewsVars
  <2>2. ToolTyped' /\ ShownTyped' /\ ShownIsOfChoice' /\ StampedRight' /\ JobsRight'
    BY <2>1, PreviewsInvParts, ServerStays, ShownStays DEF ToolTyped
  <2> QED
    BY <2>1, <2>2, PreviewsInvParts
<1> QED
  BY <1>1, <1>2, <1>3, <1>4, <1>5, <1>6, <1>7, <1>8, <1>9, <1>10, <1>11 DEF PreviewsNext
=============================================================================

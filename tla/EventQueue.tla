----------------------------- MODULE EventQueue -----------------------------
(***************************************************************************)
(* What the integration outbox promises to those who record events and to  *)
(* those who handle them, without leases, attempts and worker tasks: the   *)
(* events of one business object are handled one at a time, the earliest   *)
(* first, each with the request it carries when it is settled. The promise *)
(* ends when a handler outlives its lease (unreliable).                    *)
(***************************************************************************)
EXTENDS Naturals

CONSTANTS Numbers,   \* the places of events in the order they were recorded in
          Objects, Requests

VARIABLES
  recorded,   \* for each place: its object, its request and what became of it
  handling,   \* the calls of handlers that are running or have just returned
  unreliable

queueVars == <<recorded, handling, unreliable>>

\* "working", or how the handler returned.
Call == [event : Numbers, stage : {"working", "ok", "err"}]

QueueInit ==
  /\ \A i \in Numbers : recorded[i].state = "absent"
  /\ handling = {}
  /\ ~unreliable

Being(i) == \E c \in handling : c.event = i
SameObject(i, j) == recorded[i].object = recorded[j].object

\* An event becomes visible, perhaps after later ones of its object.
Record(i, o, r) ==
  /\ recorded[i].state = "absent"
  /\ recorded' = [recorded EXCEPT ![i] = [object |-> o, request |-> r, state |-> "waiting"]]
  /\ UNCHANGED handling

\* A request takes the place of those of waiting events that nobody handles.
Replace(S, r) ==
  /\ \A i \in S : recorded[i].state = "waiting" /\ ~Being(i)
  /\ recorded' = [i \in Numbers |-> IF i \in S THEN [recorded[i] EXCEPT !.request = r]
                                    ELSE recorded[i]]
  /\ UNCHANGED handling

\* The earliest event of an object that nobody handles an event of.
Take(i) ==
  /\ recorded[i].state = "waiting"
  /\ \A c \in handling : ~SameObject(c.event, i)
  /\ \A j \in Numbers : j < i /\ recorded[j].state = "waiting" => ~SameObject(i, j)
  /\ handling' = handling \cup {[event |-> i, stage |-> "working"]}
  /\ UNCHANGED recorded

Return(c, stage) ==
  /\ c \in handling /\ c.stage = "working"
  /\ handling' = (handling \ {c}) \cup {[c EXCEPT !.stage = stage]}
  /\ UNCHANGED recorded

\* A successful call completes its event, a failed one may fail it for good.
Settle(c) ==
  /\ c \in handling /\ c.stage /= "working"
  /\ recorded' = [recorded EXCEPT ![c.event].state = IF c.stage = "ok" THEN "completed" ELSE "failed"]
  /\ handling' = handling \ {c}

\* Calls that failed, or whose process ended, leave their events waiting.
GiveUp(C) ==
  /\ handling' = handling \ C
  /\ UNCHANGED recorded

QueueStep ==
  \/ \E i \in Numbers, o \in Objects, r \in Requests : Record(i, o, r)
  \/ \E S \in SUBSET Numbers, r \in Requests : Replace(S, r)
  \/ \E i \in Numbers : Take(i)
  \/ \E c \in handling : Return(c, "ok") \/ Return(c, "err") \/ Settle(c)
  \/ \E C \in SUBSET handling : GiveUp(C)

QueueNext == unreliable' \/ (QueueStep /\ UNCHANGED unreliable)

QueueSpec == QueueInit /\ [][QueueNext]_queueVars
=============================================================================

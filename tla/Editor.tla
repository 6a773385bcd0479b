-------------------------------- MODULE Editor --------------------------------
(***************************************************************************)
(* The form of a page, as nearly every page of the web console and of the  *)
(* mini program has one: it is opened for a new row or for one of the list *)
(* and filled, typed into, helped by an upload or a recognition that comes *)
(* back later, saved, and closed when the save is confirmed. How the pages *)
(* differ is a record (Forms lists those there are). The hard part is what *)
(* is late: a confirmation after the form was closed and another opened, a *)
(* filling after another, an upload after both.                            *)
(***************************************************************************)
EXTENDS Forms, Naturals, Sequences, FiniteSets

CONSTANTS FormRows,      \* rows there are, as natural numbers
          MaxOpenings,   \* bound: how often a form is opened
          MaxSubmits,    \* bound: how often one is saved
          MaxElsewhere   \* bound: changes somebody else makes to a row

ASSUME EditorAssumption ==
  /\ FormRows \subseteq Nat \ {0}
  /\ MaxOpenings \in Nat /\ MaxSubmits \in Nat /\ MaxElsewhere \in Nat

NewRow == 0

VARIABLES
  page,      \* what kind of form it is
  opened,    \* the row each opening was for, in their order; an opening is known by its number
  fillings,  \* openings that wait for the data of their form
  draft,     \* the form on the screen
  helper,    \* the upload or recognition on its way, with the form it was started in
  submits,   \* how often a form was saved,
  saves,     \* and the saves on their way
  rows,      \* the rows, with the openings their fields were typed in
  made,      \* the rows that were made
  elsewhere, \* how often somebody else has changed a field of each row
  unsure,    \* openings whose save the page reported as failed though it was carried out
  late       \* a filling, a helper or a save that waited has met the form of another opening

editorVars == <<page, opened, fillings, draft, helper, submits, saves, rows, made, elsewhere,
                unsure, late>>

\* for is the opening the user has before them, row what a save will change,
\* main and file the openings the fields come from; lost says that something
\* typed is no longer in the fields, other what the form saw of the rest.
BlankDraft == [open |-> FALSE, for |-> 0, row |-> NewRow, main |-> 0, file |-> 0,
               typed |-> FALSE, lost |-> FALSE, other |-> 0]
NoHelper == [on |-> FALSE, draft |-> BlankDraft]

EditorInit ==
  /\ page \in Kinds
  /\ opened = <<>>
  /\ fillings = {}
  /\ draft = BlankDraft
  /\ helper = NoHelper
  /\ submits = 0 /\ saves = {}
  /\ rows = [r \in FormRows |-> [main |-> 0, file |-> 0, other |-> 0]]
  /\ made = {}
  /\ elsewhere = [r \in FormRows |-> 0]
  /\ unsure = {}
  /\ late = FALSE

Filled(k, r) ==
  [BlankDraft EXCEPT !.open = TRUE, !.for = k, !.row = r, !.main = k, !.file = k,
                     !.other = IF r = NewRow THEN 0 ELSE rows[r].other]

\* A form that is closed keeps which row it was for; its fields are not seen
\* again, for it is filled anew when it opens.
Closed(d) == [BlankDraft EXCEPT !.for = d.for, !.row = d.row]
-----------------------------------------------------------------------------
(* Opening, typing, closing. *)

\* The form is filled from the list and shown; or its data are asked for, and
\* for a new row the form forgets at once which row it was for.
OpenDraft(r) ==
  /\ ~draft.open
  /\ Len(opened) < MaxOpenings
  /\ r = NewRow => page.creates
  /\ r /= NewRow => page.edits
  /\ opened' = Append(opened, r)
  /\ IF page.fills = "at once"
       THEN draft' = Filled(Len(opened'), r) /\ UNCHANGED <<fillings, late>>
       ELSE /\ fillings' = fillings \cup {Len(opened')}
            /\ draft' = IF r = NewRow THEN [draft EXCEPT !.row = NewRow] ELSE draft
            /\ late' = (late \/ fillings /= {})
  /\ UNCHANGED <<page, helper, submits, saves, rows, made, elsewhere, unsure>>

\* The data come and the form opens. For a new row nothing says again that it
\* is new.
Fill(k) ==
  /\ k \in fillings
  /\ fillings' = fillings \ {k}
  /\ draft' = IF opened[k] = NewRow THEN [Filled(k, NewRow) EXCEPT !.row = draft.row]
              ELSE Filled(k, opened[k])
  /\ late' = (late \/ draft.open)
  /\ UNCHANGED <<page, opened, helper, submits, saves, rows, made, elsewhere, unsure>>

\* For a new row the form opens all the same (Fill).
FillFails(k) ==
  /\ k \in fillings /\ opened[k] /= NewRow
  /\ fillings' = fillings \ {k}
  /\ UNCHANGED <<page, opened, draft, helper, submits, saves, rows, made, elsewhere, unsure, late>>

\* Only what is typed while a helper is at work can be lost again.
Type ==
  /\ draft.open /\ helper.on /\ ~draft.typed
  /\ draft' = [draft EXCEPT !.typed = TRUE]
  /\ UNCHANGED <<page, opened, fillings, helper, submits, saves, rows, made, elsewhere, unsure, late>>

CloseDraft ==
  /\ draft.open
  /\ page.closable \/ saves = {}
  /\ draft' = Closed(draft)
  /\ UNCHANGED <<page, opened, fillings, helper, submits, saves, rows, made, elsewhere, unsure, late>>
-----------------------------------------------------------------------------
(* Uploads and recognitions. *)

StartHelper ==
  /\ page.helper /= "none"
  /\ draft.open /\ ~helper.on
  /\ helper' = [on |-> TRUE, draft |-> draft]
  /\ UNCHANGED <<page, opened, fillings, draft, submits, saves, rows, made, elsewhere, unsure, late>>

\* The result goes into the form that is there by now; or the whole form is
\* put back as it was when the upload began, with the result added.
FinishHelper ==
  /\ helper.on
  /\ draft' = IF ~draft.open THEN draft
              ELSE IF page.helper = "into the form of now" THEN [draft EXCEPT !.file = helper.draft.for]
              ELSE [draft EXCEPT !.main = helper.draft.main, !.file = helper.draft.for,
                                 !.lost = draft.typed /\ ~helper.draft.typed]
  /\ helper' = NoHelper
  /\ late' = (late \/ draft.for /= helper.draft.for)
  /\ UNCHANGED <<page, opened, fillings, submits, saves, rows, made, elsewhere, unsure>>

HelperFails ==
  /\ helper.on
  /\ helper' = NoHelper
  /\ UNCHANGED <<page, opened, fillings, draft, submits, saves, rows, made, elsewhere, unsure, late>>
-----------------------------------------------------------------------------
(* Saving. *)

\* Without a network the console's saves wait (query-client.ts leaves the
\* networkMode of the library); those of the mini program fail.
Submitted ==
  /\ submits < MaxSubmits
  /\ submits' = submits + 1
  /\ \E stage \in {"sent"} \cup (IF page.row = "at once" THEN {} ELSE {"waiting"}) :
       saves' = saves \cup {[nth |-> submits', draft |-> draft, stage |-> stage]}
  /\ UNCHANGED <<page, opened, fillings, draft, helper, rows, made, elsewhere, unsure, late>>

\* Mutant: the button is not disabled while a save is on its way.
SaveTwice == draft.open /\ Submitted

\* The row and its fields are read when the form is submitted.
SaveDraft ==
  /\ draft.open
  /\ page.lock => \A s \in saves : s.stage = "told"
  /\ Submitted

\* The network is back. The library then runs the function the page has given it
\* last. Where that reads the row of the form, and not the save, it is the form's
\* row by now, on some pages also when that is a new one; on one page it reads
\* all of the form.
Found(d) ==
  CASE page.row = "of now" /\ d.row /= NewRow -> [d EXCEPT !.row = draft.row]
    [] page.row = "of now or new" -> [d EXCEPT !.row = draft.row]
    [] page.row = "form of now" ->
         [d EXCEPT !.for = draft.for, !.row = draft.row, !.main = draft.for, !.file = draft.for]
    [] OTHER -> d

\* A request to change a row that is none is refused.
Resume(s) ==
  LET found == Found(s.draft)
      refused == page.row = "of now" /\ s.draft.row /= NewRow /\ found.row = NewRow
  IN  /\ s.stage = "waiting"
      /\ saves' = (saves \ {s}) \cup
           (IF refused THEN {} ELSE {[s EXCEPT !.stage = "sent", !.draft = found]})
      /\ late' = (late \/ found /= s.draft)
      /\ UNCHANGED <<page, opened, fillings, draft, helper, submits, rows, made, elsewhere, unsure>>

CarriedOut(s) == saves' = (saves \ {s}) \cup {[s EXCEPT !.stage = "carried out"]}

Made(s) == made' = made \cup {[nth |-> s.nth, draft |-> s.draft]} /\ UNCHANGED rows

\* Mutant: the row the form is for when the server is reached.
CarryToTheRowShown(s) ==
  /\ s.stage = "sent"
  /\ CarriedOut(s)
  /\ IF draft.row = NewRow
       THEN Made(s)
       ELSE /\ rows' = [rows EXCEPT ![draft.row].main = s.draft.main, ![draft.row].file = s.draft.file]
            /\ UNCHANGED made
  /\ UNCHANGED <<page, opened, fillings, draft, helper, submits, elsewhere, unsure, late>>

\* Mutant: the whole form is sent though only the changes should be.
CarryWhole(s) ==
  /\ s.stage = "sent"
  /\ CarriedOut(s)
  /\ IF s.draft.row = NewRow
       THEN Made(s)
       ELSE /\ rows' = [rows EXCEPT ![s.draft.row] =
                          [main |-> s.draft.main, file |-> s.draft.file, other |-> s.draft.other]]
            /\ UNCHANGED made
  /\ UNCHANGED <<page, opened, fillings, draft, helper, submits, elsewhere, unsure, late>>

\* The server makes or changes the row. A form that is sent whole writes the
\* fields nobody touched as it found them.
Carry(s) ==
  /\ s.stage = "sent"
  /\ CarriedOut(s)
  /\ IF s.draft.row = NewRow
       THEN Made(s)
       ELSE /\ rows' = [rows EXCEPT ![s.draft.row] =
                          [main |-> s.draft.main, file |-> s.draft.file,
                           other |-> IF page.sends = "changes" THEN @.other ELSE s.draft.other]]
            /\ UNCHANGED made
  /\ UNCHANGED <<page, opened, fillings, draft, helper, submits, elsewhere, unsure, late>>

\* The page is told. It closes the form, whichever is open by then, after what
\* the page does next (page.next), if it closes it at all.
Told(s) ==
  /\ s.stage = "carried out"
  /\ IF page.next = "nothing"
       THEN /\ saves' = saves \ {s}
            /\ draft' = IF page.closes THEN Closed(draft) ELSE draft
       ELSE /\ saves' = (saves \ {s}) \cup
                 {[s EXCEPT !.stage = IF page.next = "unlocked" THEN "told" ELSE "next"]}
            /\ UNCHANGED draft
  /\ UNCHANGED <<page, opened, fillings, helper, submits, rows, made, elsewhere, unsure, late>>

\* What the page does next is done; where it is locked a failure counts as a
\* failed save, and the form stays.
NextDone(s, ok) ==
  /\ s.stage \in {"told", "next"}
  /\ saves' = saves \ {s}
  /\ IF ok \/ s.stage = "told"
       THEN draft' = Closed(draft) /\ UNCHANGED unsure
       ELSE unsure' = unsure \cup {s.draft.for} /\ UNCHANGED draft
  /\ UNCHANGED <<page, opened, fillings, helper, submits, rows, made, elsewhere, late>>

\* The request, or the answer to it, is lost: an error is shown and the form stays.
SaveFails(s) ==
  /\ s.stage \in {"sent", "carried out"}
  /\ saves' = saves \ {s}
  /\ unsure' = IF s.stage = "sent" THEN unsure ELSE unsure \cup {s.draft.for}
  /\ UNCHANGED <<page, opened, fillings, draft, helper, submits, rows, made, elsewhere, late>>

\* Of pages that send the whole form nothing is claimed about others' changes.
ChangeElsewhere(r) ==
  /\ page.sends = "changes"
  /\ elsewhere[r] < MaxElsewhere
  /\ elsewhere' = [elsewhere EXCEPT ![r] = @ + 1]
  /\ rows' = [rows EXCEPT ![r].other = elsewhere'[r]]
  /\ UNCHANGED <<page, opened, fillings, draft, helper, submits, saves, made, unsure, late>>

EditorNext ==
  \/ \E r \in FormRows \cup {NewRow} : OpenDraft(r)
  \/ \E k \in fillings : Fill(k) \/ FillFails(k)
  \/ Type \/ CloseDraft
  \/ StartHelper \/ FinishHelper \/ HelperFails
  \/ SaveDraft
  \/ \E s \in saves :
       Resume(s) \/ Carry(s) \/ Told(s) \/ (\E ok \in BOOLEAN : NextDone(s, ok)) \/ SaveFails(s)
  \/ \E r \in FormRows : ChangeElsewhere(r)
-----------------------------------------------------------------------------
Drafts ==
  [open : BOOLEAN, for : 0..MaxOpenings, row : FormRows \cup {NewRow}, main : 0..MaxOpenings,
   file : 0..MaxOpenings, typed : BOOLEAN, lost : BOOLEAN, other : 0..MaxElsewhere]

EditorTypeOK ==
  /\ page \in Kinds
  /\ opened \in Seq(FormRows \cup {NewRow}) /\ Len(opened) <= MaxOpenings
  /\ fillings \subseteq DOMAIN opened
  /\ draft \in Drafts
  /\ helper \in [on : BOOLEAN, draft : Drafts]
  /\ submits \in 0..MaxSubmits
  /\ saves \subseteq [nth : 1..MaxSubmits, draft : Drafts,
                      stage : {"waiting", "sent", "carried out", "told", "next"}]
  /\ rows \in [FormRows -> [main : 0..MaxOpenings, file : 0..MaxOpenings, other : 0..MaxElsewhere]]
  /\ made \subseteq [nth : 1..MaxSubmits, draft : Drafts]
  /\ elsewhere \in [FormRows -> 0..MaxElsewhere]
  /\ unsure \subseteq DOMAIN opened
  /\ late \in BOOLEAN

IsFor(k, r) == k = 0 \/ opened[k] = r

\* What is saved in a row was typed in forms opened for that row, and all of
\* it: a form that was closed and followed by another while it was saved, or
\* filled, does not write into the other's row. The exceptions are uploads
\* that come back into another form, or put the form back as it was, fillings
\* that overtake each other, and saves that waited for the network on a page
\* that finds the row to write when they go.
RowsKeepTheirOwn ==
  ~late =>
    /\ \A r \in FormRows : IsFor(rows[r].main, r) /\ IsFor(rows[r].file, r)
    /\ \A m \in made : m.draft.main = m.draft.for /\ m.draft.file = m.draft.for
    /\ page.helper /= "into the form of then" => \A s \in saves : ~s.draft.lost

\* A form that was opened once makes one row at most, unless the page said that
\* a save had failed which was carried out. The exceptions are pages that do not
\* lock their form while it is saved, or until they close it.
OneRowPerForm ==
  page.lock /\ page.closes /\ page.next /= "unlocked" =>
    \A k \in DOMAIN opened \ unsure : Cardinality({m \in made : m.draft.for = k}) <= 1

\* A page that sends only what was changed undoes nobody else's change.
OthersChangesSurvive ==
  page.sends = "changes" => \A r \in FormRows : rows[r].other = elsewhere[r]
=============================================================================

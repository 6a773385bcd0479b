----------------------------- MODULE EdgesProofs -----------------------------
(***************************************************************************)
(* What Edges promises, proved: first the pages that PartsProofs leaves,   *)
(* the forms, the fields, the lists and the data screen; then the          *)
(* composition. The parts at the edges share no state, and so an invariant *)
(* of a part is one of the composition.                                    *)
(***************************************************************************)
EXTENDS Edges, PartsProofs

(***************************************************************************)
(* The form of a page, for any number of rows, openings and saves.         *)
(***************************************************************************)
Openings == 0..MaxOpenings
Submits == 1..MaxSubmits
Others == 0..MaxElsewhere
Drafts1 ==
  [open : BOOLEAN, for : Openings, row : FormRows \cup {NewRow}, main : Openings, file : Openings,
   typed : BOOLEAN, lost : BOOLEAN, other : Others]
Stages == {"waiting", "sent", "carried out", "told", "next"}
Saves1 == [nth : Submits, draft : Drafts1, stage : Stages]
Made1 == [nth : Submits, draft : Drafts1]
Rows1 == [main : Openings, file : Openings, other : Others]

LEMMA NoughtIsThere == 0 \in Openings /\ 0 \in Others
BY EditorAssumption DEF Openings, Others

LEMMA HelpersAre == \A k \in Kinds : k.helper \in {"none", "into the form of now", "into the form of then"}
<1> DEFINE Given == {RecordAttachment, TemplateFile, PhotoPair, UploadInRecord, ModuleUpload, WxWorkerUpload,
                     OnboardingUpload}
<1>1. \A o, s, d, h : FormOf(o, s, d, h).helper = h
  BY DEF FormOf
<1>2. Given \subseteq {"into the form of now", "into the form of then"}
  BY DEF RecordAttachment, TemplateFile, PhotoPair, UploadInRecord, ModuleUpload, WxWorkerUpload, OnboardingUpload
<1>3. \A k \in Kinds : k.helper = "none" \/ k.helper \in Given
  BY <1>1 DEF Kinds
<1> QED
  BY <1>2, <1>3

\* The numbers of the openings there were.
Numbers == 1..Len(opened)

EditorTyped ==
  /\ page \in Kinds
  /\ opened \in Seq(FormRows \cup {NewRow}) /\ Numbers \subseteq Openings
  /\ fillings \subseteq Numbers
  /\ draft \in Drafts1
  /\ helper \in [on : BOOLEAN, draft : Drafts1]
  /\ submits \in 0..MaxSubmits
  /\ saves \subseteq Saves1
  /\ rows \in [FormRows -> Rows1]
  /\ made \subseteq Made1
  /\ elsewhere \in [FormRows -> Others]
  /\ late \in BOOLEAN
  /\ helper.on => page.helper # "none"

\* The form of an opening, and a form that was closed.
LEMMA BlankIs == BlankDraft \in Drafts1 /\ ~BlankDraft.open /\ ~BlankDraft.lost /\ BlankDraft.for = 0
BY NoughtIsThere DEF BlankDraft, Drafts1

LEMMA FilledIs ==
  ASSUME EditorTyped, NEW k \in Openings, NEW r \in FormRows \cup {NewRow}
  PROVE  /\ Filled(k, r) \in Drafts1
         /\ Filled(k, r).open /\ ~Filled(k, r).lost
         /\ Filled(k, r).for = k /\ Filled(k, r).row = r
         /\ Filled(k, r).main = k /\ Filled(k, r).file = k
<1>1. PICK o : o = IF r = NewRow THEN 0 ELSE rows[r].other
  OBVIOUS
<1>2. o \in Others
  BY <1>1, NoughtIsThere DEF EditorTyped, Rows1
<1>3. PICK b \in Drafts1 : b = BlankDraft /\ ~b.lost
  BY BlankIs
<1>4. Filled(k, r) = [b EXCEPT !.open = TRUE, !.for = k, !.row = r, !.main = k, !.file = k, !.other = o]
  BY <1>1, <1>3 DEF Filled
<1> QED
  BY <1>2, <1>3, <1>4 DEF Drafts1

LEMMA ClosedIs ==
  ASSUME NEW d \in Drafts1
  PROVE  /\ Closed(d) \in Drafts1
         /\ ~Closed(d).open /\ ~Closed(d).lost
         /\ Closed(d).for = d.for /\ Closed(d).row = d.row
<1>1. PICK b \in Drafts1 : b = BlankDraft /\ ~b.open /\ ~b.lost
  BY BlankIs
<1>2. Closed(d) = [b EXCEPT !.for = d.for, !.row = d.row]
  BY <1>1 DEF Closed
<1> QED
  BY <1>1, <1>2 DEF Drafts1

\* What a save that waited finds.
LEMMA FoundIs ==
  ASSUME EditorTyped, NEW d \in Drafts1
  PROVE  /\ Found(d) \in Drafts1 /\ Found(d).lost = d.lost
         /\ Found(d).for = d.for \/ Found(d).for = draft.for
<1>1. draft.row \in FormRows \cup {NewRow} /\ draft.for \in Openings
  BY DEF EditorTyped, Drafts1
<1>2. CASE page.row = "of now" /\ d.row # NewRow
  <2>1. Found(d) = [d EXCEPT !.row = draft.row]
    BY <1>2 DEF Found
  <2> QED
    BY <1>1, <2>1 DEF Drafts1
<1>3. CASE page.row = "of now or new"
  <2>1. Found(d) = [d EXCEPT !.row = draft.row]
    BY <1>3 DEF Found
  <2> QED
    BY <1>1, <2>1 DEF Drafts1
<1>4. CASE page.row = "form of now"
  <2>1. Found(d) = [d EXCEPT !.for = draft.for, !.row = draft.row, !.main = draft.for, !.file = draft.for]
    BY <1>4 DEF Found
  <2> QED
    BY <1>1, <2>1 DEF Drafts1
<1>5. CASE ~(page.row = "of now" /\ d.row # NewRow) /\ page.row \notin {"of now or new", "form of now"}
  BY <1>5 DEF Found
<1> QED
  BY <1>2, <1>3, <1>4, <1>5

\* A number that waits for its data is nobody's yet.
NumbersAreFresh ==
  /\ page.fills = "at once" => fillings = {}
  /\ draft.open => draft.for \in Numbers
  /\ draft.for \in {0} \cup (Numbers \ fillings)
  /\ helper.on => helper.draft.for \in Numbers
  /\ \A s \in saves : s.draft.for \in Numbers \ fillings
  /\ saves # {} => draft.for # 0
  /\ unsure \subseteq Numbers
  /\ \A m \in made : m.draft.for \in {0} \cup (Numbers \ fillings)

\* Where nothing late has met another form: a form has its own fields and the row
\* it was opened for, and so have its saves, and what they wrote.
Own(d) == d.for \in Numbers /\ d.main = d.for /\ d.file = d.for /\ opened[d.for] = d.row
IsOf(k, r) == k = 0 \/ (k \in Numbers /\ opened[k] = r)

OwnRows ==
  /\ ~late =>
       /\ fillings \subseteq {Len(opened)}
       /\ \A k \in fillings : ~draft.open /\ (opened[k] = NewRow => draft.row = NewRow)
       /\ draft.open => Own(draft)
       /\ helper.on => helper.draft.main = helper.draft.for
       /\ \A s \in saves : Own(s.draft)
       /\ \A r \in FormRows : IsOf(rows[r].main, r) /\ IsOf(rows[r].file, r)
       /\ \A m \in made : m.draft.main = m.draft.for /\ m.draft.file = m.draft.for
  /\ page.helper # "into the form of then" => ~draft.lost /\ \A s \in saves : ~s.draft.lost

\* On a page that locks its form while it is saved, and closes it then, there is
\* one save at a time, and the form on the screen has made no row that it could
\* make again: but for the one whose answer is on its way, which closes it.
Unmade(k) == k = 0 \/ k \in unsure \/ \A m \in made : m.draft.for # k

OneRow ==
  page.lock /\ page.closes /\ page.next # "unlocked" =>
    /\ \A s, t \in saves : s = t
    /\ \A m, n \in made : m.draft.for = n.draft.for /\ m.draft.for \notin unsure \cup {0} => m = n
    /\ saves = {} /\ draft.open => Unmade(draft.for)
    /\ \A s \in saves :
         /\ s.stage # "told"
         /\ s.stage \in {"waiting", "sent"} => Unmade(s.draft.for) /\ Unmade(draft.for)
         /\ Unmade(draft.for) \/ draft.for = s.draft.for

EditorInv == EditorTyped /\ NumbersAreFresh /\ OwnRows /\ OneRow /\ OthersChangesSurvive

LEMMA EditorInvInit == EditorInit => EditorInv
<1> SUFFICES ASSUME EditorInit
             PROVE  EditorInv
  OBVIOUS
<1>1. BlankDraft \in Drafts1 /\ ~BlankDraft.open /\ ~BlankDraft.lost /\ BlankDraft.for = 0
  BY BlankIs
<1>2. NoHelper \in [on : BOOLEAN, draft : Drafts1] /\ ~NoHelper.on
  BY <1>1 DEF NoHelper
<1>3. rows \in [FormRows -> Rows1]
  BY NoughtIsThere DEF EditorInit, Rows1
<1>4. EditorTyped
  <2>1. /\ opened \in Seq(FormRows \cup {NewRow}) /\ Numbers \subseteq Openings
        /\ elsewhere \in [FormRows -> Others]
    BY NoughtIsThere DEF EditorInit, Numbers
  <2>2. /\ fillings \subseteq Numbers /\ submits \in 0..MaxSubmits
        /\ saves \subseteq Saves1 /\ made \subseteq Made1
    BY EditorAssumption DEF EditorInit
  <2>3. page \in Kinds /\ draft \in Drafts1 /\ late \in BOOLEAN
        /\ helper \in [on : BOOLEAN, draft : Drafts1] /\ ~helper.on
    BY <1>1, <1>2 DEF EditorInit
  <2> QED
    BY <1>3, <2>1, <2>2, <2>3 DEF EditorTyped
<1>5. NumbersAreFresh
  BY <1>1, <1>2 DEF EditorInit, NumbersAreFresh
<1>6. OwnRows
  BY <1>1, <1>2 DEF EditorInit, OwnRows, IsOf
<1>7. OneRow
  BY <1>1 DEF EditorInit, OneRow, Unmade
<1>8. OthersChangesSurvive
  BY DEF EditorInit, OthersChangesSurvive
<1> QED
  BY <1>4, <1>5, <1>6, <1>7, <1>8 DEF EditorInv

\* Another opening.
LEMMA Appended ==
  ASSUME EditorTyped, NEW r \in FormRows \cup {NewRow}, Len(opened) < MaxOpenings, opened' = Append(opened, r)
  PROVE  /\ Numbers' \subseteq Openings
         /\ opened' \in Seq(FormRows \cup {NewRow})
         /\ Len(opened') = Len(opened) + 1 /\ Len(opened) \in Nat
         /\ Len(opened') \in Nat /\ Len(opened') \in Openings
         /\ \A k \in Numbers : k \in Numbers' /\ opened'[k] = opened[k]
         /\ Len(opened') \in Numbers' /\ Len(opened') \notin Numbers /\ Len(opened') # 0
         /\ opened'[Len(opened')] = r
<1>1. opened \in Seq(FormRows \cup {NewRow}) /\ Len(opened) \in Nat
  BY DEF EditorTyped
<1>2. opened' \in Seq(FormRows \cup {NewRow}) /\ Len(opened') = Len(opened) + 1
  BY <1>1
<1>3. \A k \in Numbers : k \in Numbers' /\ opened'[k] = opened[k]
  BY <1>1, <1>2 DEF Numbers
<1>4. /\ Len(opened') \in Numbers' /\ Len(opened') \notin Numbers /\ Len(opened') # 0
      /\ Len(opened') \in Nat
  BY <1>1, <1>2 DEF Numbers
<1>5. opened'[Len(opened')] = r
  BY <1>1, <1>2
<1>6. Numbers' \subseteq Openings
  BY <1>1, <1>2, EditorAssumption DEF Numbers, Openings
<1> QED
  BY <1>1, <1>2, <1>3, <1>4, <1>5, <1>6

LEMMA TypedStep == EditorTyped /\ EditorNext => EditorTyped'
<1> SUFFICES ASSUME EditorTyped, EditorNext
             PROVE  EditorTyped'
  OBVIOUS
<1>0. /\ \A k \in Numbers : k \in Openings /\ opened[k] \in FormRows \cup {NewRow}
      /\ draft.row \in FormRows \cup {NewRow} /\ \A d \in Drafts1 : Closed(d) \in Drafts1
  <2>1. \A k \in Numbers : k \in Openings /\ opened[k] \in FormRows \cup {NewRow}
    BY DEF EditorTyped, Numbers
  <2>2. draft.row \in FormRows \cup {NewRow}
    BY DEF EditorTyped, Drafts1
  <2>3. \A d \in Drafts1 : Closed(d) \in Drafts1
    BY ClosedIs
  <2> QED
    BY <2>1, <2>2, <2>3
<1>1. ASSUME NEW r \in FormRows \cup {NewRow}, OpenDraft(r)
      PROVE  EditorTyped'
  <2> USE <1>1 DEF OpenDraft
  <2>1. opened' = Append(opened, r)
    OBVIOUS
  <2>2. PICK k : k = Len(opened')
    OBVIOUS
  <2>3. /\ opened' \in Seq(FormRows \cup {NewRow}) /\ k \in Openings /\ Numbers' \subseteq Openings
        /\ Numbers \subseteq Numbers' /\ k \in Numbers'
    BY <2>1, <2>2, Appended
  <2>4. CASE page.fills = "at once"
    <3>1. draft' = Filled(k, r) /\ fillings' = fillings /\ late' = late
      BY <2>2, <2>4
    <3>2. draft' \in Drafts1
      BY <2>3, <3>1, FilledIs
    <3> QED
      BY <2>3, <3>1, <3>2 DEF EditorTyped
  <2>5. CASE page.fills # "at once"
    <3>1. fillings' = fillings \cup {k} /\ late' \in BOOLEAN
      BY <2>2, <2>5
    <3>2. draft' \in Drafts1
      BY <2>5 DEF EditorTyped, Drafts1
    <3> QED
      BY <2>3, <3>1, <3>2 DEF EditorTyped
  <2> QED
    BY <2>4, <2>5
<1>2. ASSUME NEW k \in fillings, Fill(k)
      PROVE  EditorTyped'
  <2> USE <1>2 DEF Fill
  <2>1. k \in Openings /\ opened[k] \in FormRows \cup {NewRow} /\ k \in Numbers
    BY <1>0 DEF EditorTyped
  <2>2. Filled(k, opened[k]) \in Drafts1
    BY <2>1, FilledIs
  <2>3. draft' \in Drafts1
    BY <1>0, <2>2 DEF Drafts1
  <2>4. fillings' \subseteq Numbers' /\ Numbers' \subseteq Openings /\ late' \in BOOLEAN
    BY DEF EditorTyped, Numbers
  <2> QED
    BY <2>3, <2>4 DEF EditorTyped
<1>3. ASSUME NEW k \in fillings, FillFails(k)
      PROVE  EditorTyped'
  BY <1>3 DEF FillFails, EditorTyped, Numbers
<1>4. CASE Type
  <2>1. draft' \in Drafts1
    BY <1>4 DEF Type, EditorTyped, Drafts1
  <2> QED
    BY <1>4, <2>1 DEF Type, EditorTyped, Numbers
<1>5. CASE CloseDraft
  <2>1. draft' \in Drafts1
    BY <1>0, <1>5 DEF CloseDraft, EditorTyped
  <2> QED
    BY <1>5, <2>1 DEF CloseDraft, EditorTyped, Numbers
<1>6. CASE StartHelper
  <2>1. helper' \in [on : BOOLEAN, draft : Drafts1]
    BY <1>6 DEF StartHelper, EditorTyped
  <2> QED
    BY <1>6, <2>1 DEF StartHelper, EditorTyped, Numbers
<1>7. NoHelper \in [on : BOOLEAN, draft : Drafts1] /\ ~NoHelper.on
  BY BlankIs DEF NoHelper
<1>8. CASE FinishHelper
  <2> USE <1>8 DEF FinishHelper
  <2>1. /\ helper.draft.for \in Openings /\ helper.draft.main \in Openings
    BY DEF EditorTyped, Drafts1
  <2>2. PICK l \in BOOLEAN : l = (draft.typed /\ ~helper.draft.typed)
    OBVIOUS
  <2>3. [draft EXCEPT !.file = helper.draft.for] \in Drafts1
    BY <2>1 DEF EditorTyped, Drafts1
  <2>4. [draft EXCEPT !.main = helper.draft.main, !.file = helper.draft.for, !.lost = l] \in Drafts1
    BY <2>1 DEF EditorTyped, Drafts1
  <2>5. draft' \in Drafts1
    BY <2>2, <2>3, <2>4 DEF EditorTyped
  <2>6. late' \in BOOLEAN
    OBVIOUS
  <2> QED
    BY <1>7, <2>5, <2>6 DEF EditorTyped, Numbers
<1>9. CASE HelperFails
  BY <1>7, <1>9 DEF HelperFails, EditorTyped, Numbers
<1>10. CASE SaveDraft
  <2> USE <1>10 DEF SaveDraft, Submitted
  <2>1. PICK now \in {"sent", "waiting"} :
          saves' = saves \cup {[nth |-> submits', draft |-> draft, stage |-> now]}
    OBVIOUS
  <2>2. submits' \in 0..MaxSubmits /\ submits' \in Submits
    <3>1. submits \in 0..MaxSubmits /\ submits' = submits + 1 /\ submits < MaxSubmits
      BY DEF EditorTyped
    <3> QED
      BY ONLY <3>1, EditorAssumption DEF Submits
  <2>3. saves' \subseteq Saves1
    <3>1. [nth |-> submits', draft |-> draft, stage |-> now] \in Saves1
      BY <2>1, <2>2 DEF EditorTyped, Saves1, Stages
    <3> QED
      BY <2>1, <3>1 DEF EditorTyped
  <2> QED
    BY <2>2, <2>3 DEF EditorTyped, Numbers
<1>11. ASSUME NEW s \in saves, Resume(s)
       PROVE  EditorTyped'
  <2> USE <1>11 DEF Resume
  <2>1. s \in Saves1
    BY DEF EditorTyped
  <2>2. PICK found : found = Found(s.draft)
    OBVIOUS
  <2>3. found \in Drafts1
    BY <2>1, <2>2, FoundIs DEF Saves1
  <2>4. [s EXCEPT !.stage = "sent", !.draft = found] \in Saves1
    BY <2>1, <2>3 DEF Saves1, Stages
  <2>5. saves' \subseteq Saves1
    BY <2>2, <2>4 DEF EditorTyped
  <2>6. late' \in BOOLEAN
    OBVIOUS
  <2> QED
    BY <2>5, <2>6 DEF EditorTyped, Numbers
<1>12. ASSUME NEW s \in saves, Carry(s)
       PROVE  EditorTyped'
  <2> USE <1>12 DEF Carry
  <2>1. s \in Saves1 /\ s.draft \in Drafts1 /\ s.nth \in Submits
    BY DEF EditorTyped, Saves1
  <2>2. [s EXCEPT !.stage = "carried out"] \in Saves1
    BY <2>1 DEF Saves1, Stages
  <2>3. saves' \subseteq Saves1
    BY <2>2 DEF CarriedOut, EditorTyped
  <2>4. rows' \in [FormRows -> Rows1] /\ made' \subseteq Made1
    <3>1. CASE s.draft.row = NewRow
      <4>1. [nth |-> s.nth, draft |-> s.draft] \in Made1
        BY <2>1 DEF Made1
      <4> QED
        BY <3>1, <4>1 DEF Made, EditorTyped
    <3>2. CASE s.draft.row # NewRow
      <4>1. s.draft.row \in FormRows
        BY <2>1, <3>2 DEF Drafts1
      <4>2. PICK o : o = IF page.sends = "changes" THEN rows[s.draft.row].other ELSE s.draft.other
        OBVIOUS
      <4>3. o \in Others
        BY <2>1, <4>1, <4>2 DEF EditorTyped, Rows1, Drafts1
      <4>4. [main |-> s.draft.main, file |-> s.draft.file, other |-> o] \in Rows1
        BY <2>1, <4>3 DEF Rows1, Drafts1
      <4>5. rows' = [rows EXCEPT ![s.draft.row] = [main |-> s.draft.main, file |-> s.draft.file, other |-> o]]
        BY <3>2, <4>1, <4>2 DEF EditorTyped
      <4> QED
        BY <3>2, <4>1, <4>4, <4>5 DEF EditorTyped
    <3> QED
      BY <3>1, <3>2
  <2> QED
    BY <2>3, <2>4 DEF EditorTyped, Numbers
<1>13. ASSUME NEW s \in saves, Told(s)
       PROVE  EditorTyped'
  <2> USE <1>13 DEF Told
  <2>1. s \in Saves1
    BY DEF EditorTyped
  <2>2. PICK now \in {"told", "next"} : now = IF page.next = "unlocked" THEN "told" ELSE "next"
    OBVIOUS
  <2>3. [s EXCEPT !.stage = now] \in Saves1
    BY <2>1 DEF Saves1, Stages
  <2>4. saves' \subseteq Saves1
    BY <2>2, <2>3 DEF EditorTyped
  <2>5. draft' \in Drafts1
    BY <1>0 DEF EditorTyped
  <2> QED
    BY <2>4, <2>5 DEF EditorTyped, Numbers
<1>14. ASSUME NEW s \in saves, NEW ok \in BOOLEAN, NextDone(s, ok)
       PROVE  EditorTyped'
  <2>1. draft' \in Drafts1
    BY <1>0, <1>14 DEF NextDone, EditorTyped
  <2> QED
    BY <1>14, <2>1 DEF NextDone, EditorTyped, Numbers
<1>15. ASSUME NEW s \in saves, SaveFails(s)
       PROVE  EditorTyped'
  BY <1>15 DEF SaveFails, EditorTyped, Numbers
<1>16. ASSUME NEW r \in FormRows, ChangeElsewhere(r)
       PROVE  EditorTyped'
  <2> USE <1>16 DEF ChangeElsewhere
  <2>1. elsewhere[r] + 1 \in Others
    <3>1. elsewhere[r] \in Others /\ elsewhere[r] < MaxElsewhere
      BY DEF EditorTyped
    <3> QED
      BY ONLY <3>1, EditorAssumption DEF Others
  <2>2. elsewhere' \in [FormRows -> Others]
    BY <2>1 DEF EditorTyped
  <2>3. PICK o \in Others : o = elsewhere'[r]
    BY <2>2
  <2>4. rows' = [rows EXCEPT ![r].other = o]
    BY <2>3
  <2>5. rows' \in [FormRows -> Rows1]
    <3>1. rows \in [FormRows -> Rows1] /\ rows[r] \in Rows1
      BY DEF EditorTyped
    <3>2. [rows[r] EXCEPT !.other = o] \in Rows1
      BY <2>3, <3>1 DEF Rows1
    <3>3. rows' = [rows EXCEPT ![r] = [rows[r] EXCEPT !.other = o]]
      BY <2>4, <3>1
    <3> QED
      BY <3>1, <3>2, <3>3
  <2> QED
    BY <2>2, <2>5 DEF EditorTyped, Numbers
<1> QED
  BY <1>1, <1>2, <1>3, <1>4, <1>5, <1>6, <1>8, <1>9, <1>10, <1>11, <1>12, <1>13, <1>14, <1>15, <1>16
  DEF EditorNext

LEMMA FreshStep == EditorTyped /\ NumbersAreFresh /\ EditorNext => NumbersAreFresh'
<1> SUFFICES ASSUME EditorTyped, NumbersAreFresh, EditorNext
             PROVE  NumbersAreFresh'
  OBVIOUS
<1>0. /\ \A d \in Drafts1 : Closed(d).for = d.for /\ ~Closed(d).open
      /\ draft \in Drafts1 /\ saves \subseteq Saves1 /\ fillings \subseteq Numbers
      /\ \A k \in Numbers : k \in Openings /\ k # 0 /\ opened[k] \in FormRows \cup {NewRow}
  BY ClosedIs DEF EditorTyped, Numbers
<1>1. ASSUME NEW r \in FormRows \cup {NewRow}, OpenDraft(r)
      PROVE  NumbersAreFresh'
  <2> USE <1>1 DEF OpenDraft
  <2>1. opened' = Append(opened, r)
    OBVIOUS
  <2>2. PICK k : k = Len(opened')
    OBVIOUS
  <2>3. /\ k \in Openings /\ k # 0 /\ Numbers \subseteq Numbers' /\ k \in Numbers' /\ k \notin Numbers
    BY <2>1, <2>2, Appended
  <2>4. CASE page.fills = "at once"
    <3>1. draft' = Filled(k, r) /\ fillings' = fillings /\ fillings = {}
      BY <2>2, <2>4 DEF NumbersAreFresh
    <3>2. draft'.for = k
      BY <2>3, <3>1, FilledIs
    <3> QED
      BY <2>3, <3>1, <3>2 DEF NumbersAreFresh
  <2>5. CASE page.fills # "at once"
    <3>1. fillings' = fillings \cup {k}
      BY <2>2, <2>5
    <3>2. draft'.for = draft.for /\ draft'.open = draft.open
      BY <1>0, <2>5 DEF Drafts1
    <3>3. \A j \in Numbers \ fillings : j \in Numbers' \ fillings'
      BY <2>3, <3>1
    <3>4. Numbers \subseteq Numbers'
      BY <2>3
    <3> QED
      BY <2>5, <3>2, <3>3, <3>4 DEF NumbersAreFresh
  <2> QED
    BY <2>4, <2>5
<1>2. ASSUME NEW k \in fillings, Fill(k)
      PROVE  NumbersAreFresh'
  <2> USE <1>2 DEF Fill
  <2>1. k \in Openings /\ opened[k] \in FormRows \cup {NewRow} /\ k \in Numbers
    BY <1>0
  <2>2. Filled(k, opened[k]) \in Drafts1 /\ Filled(k, opened[k]).for = k
    BY <2>1, FilledIs
  <2>3. draft'.for = k
    BY <2>2 DEF Drafts1
  <2>4. fillings' = fillings \ {k} /\ Numbers' = Numbers /\ UNCHANGED <<page, helper, saves, made, unsure>>
    BY DEF Numbers
  <2> HIDE <1>2
  <2> QED
    BY <1>0, <2>1, <2>3, <2>4 DEF NumbersAreFresh
<1>3. ASSUME NEW k \in fillings, FillFails(k)
      PROVE  NumbersAreFresh'
  BY <1>3 DEF FillFails, NumbersAreFresh, Numbers
<1>4. CASE Type
  <2>1. draft'.for = draft.for /\ draft'.open = draft.open
    BY <1>0, <1>4 DEF Type, Drafts1
  <2> QED
    BY <1>4, <2>1 DEF Type, NumbersAreFresh, Numbers
<1>5. CASE CloseDraft
  BY <1>0, <1>5 DEF CloseDraft, NumbersAreFresh, Numbers
<1>6. CASE StartHelper
  <2>1. helper'.draft = draft
    BY <1>6 DEF StartHelper
  <2> QED
    BY <1>6, <2>1 DEF StartHelper, NumbersAreFresh, Numbers
<1>7. ~NoHelper.on
  BY DEF NoHelper
<1>8. CASE FinishHelper
  <2>1. draft'.for = draft.for /\ draft'.open = draft.open
    BY <1>0, <1>8 DEF FinishHelper, Drafts1
  <2> QED
    BY <1>7, <1>8, <2>1 DEF FinishHelper, NumbersAreFresh, Numbers
<1>9. CASE HelperFails
  BY <1>7, <1>9 DEF HelperFails, NumbersAreFresh, Numbers
<1>10. CASE SaveDraft
  <2>1. PICK n, now : saves' = saves \cup {[nth |-> n, draft |-> draft, stage |-> now]}
    BY <1>10 DEF SaveDraft, Submitted
  <2>2. \A s \in saves' : s \in saves \/ s.draft = draft
    BY <2>1
  <2>3. draft.for \in Numbers \ fillings /\ draft.for # 0
    BY <1>0, <1>10 DEF SaveDraft, NumbersAreFresh
  <2> QED
    BY <1>10, <2>2, <2>3 DEF SaveDraft, Submitted, NumbersAreFresh, Numbers
<1>11. ASSUME NEW s \in saves, Resume(s)
       PROVE  NumbersAreFresh'
  <2> USE <1>11 DEF Resume
  <2>1. PICK found : found = Found(s.draft)
    OBVIOUS
  <2>2. found.for \in Numbers \ fillings
    <3>1. s.draft \in Drafts1
      BY <1>0 DEF Saves1
    <3> QED
      BY <2>1, <3>1, FoundIs DEF NumbersAreFresh
  <2>3. \A t \in saves' : t \in saves \/ t.draft = found
    <3>1. [s EXCEPT !.stage = "sent", !.draft = found].draft = found
      BY <1>0 DEF Saves1
    <3> QED
      BY <2>1, <3>1
  <2>4. saves # {} /\ UNCHANGED <<page, opened, fillings, draft, helper, made, unsure>>
    OBVIOUS
  <2> HIDE <1>11
  <2> QED
    BY <2>2, <2>3, <2>4 DEF NumbersAreFresh, Numbers
<1>12. ASSUME NEW s \in saves, Carry(s)
       PROVE  NumbersAreFresh'
  <2> USE <1>12 DEF Carry
  <2>1. \A t \in saves' : t \in saves \/ t.draft = s.draft
    <3>1. [s EXCEPT !.stage = "carried out"].draft = s.draft
      BY <1>0 DEF Saves1
    <3> QED
      BY <3>1 DEF CarriedOut
  <2>2. \A m \in made' : m \in made \/ m.draft = s.draft
    BY DEF Made
  <2> QED
    BY <2>1, <2>2 DEF NumbersAreFresh, Numbers
<1>13. ASSUME NEW s \in saves, Told(s)
       PROVE  NumbersAreFresh'
  <2> USE <1>13 DEF Told
  <2>1. \A t \in saves' : t \in saves \/ t.draft = s.draft
    <3>1. PICK now : now = IF page.next = "unlocked" THEN "told" ELSE "next"
      OBVIOUS
    <3>2. [s EXCEPT !.stage = now].draft = s.draft
      BY <1>0 DEF Saves1
    <3>3. saves' \subseteq saves \cup {[s EXCEPT !.stage = now]}
      BY <3>1
    <3> QED
      BY <3>2, <3>3
  <2>2. draft'.for = draft.for /\ (draft'.open => draft.open)
    BY <1>0
  <2> QED
    BY <2>1, <2>2 DEF NumbersAreFresh, Numbers
<1>14. ASSUME NEW s \in saves, NEW ok \in BOOLEAN, NextDone(s, ok)
       PROVE  NumbersAreFresh'
  <2>1. draft'.for = draft.for /\ (draft'.open => draft.open)
    BY <1>0, <1>14 DEF NextDone
  <2> QED
    BY <1>14, <2>1 DEF NextDone, NumbersAreFresh, Numbers
<1>15. ASSUME NEW s \in saves, SaveFails(s)
       PROVE  NumbersAreFresh'
  BY <1>15 DEF SaveFails, NumbersAreFresh, Numbers
<1>16. ASSUME NEW r \in FormRows, ChangeElsewhere(r)
       PROVE  NumbersAreFresh'
  BY <1>16 DEF ChangeElsewhere, NumbersAreFresh, Numbers
<1> QED
  BY <1>1, <1>2, <1>3, <1>4, <1>5, <1>6, <1>8, <1>9, <1>10, <1>11, <1>12, <1>13, <1>14, <1>15, <1>16
  DEF EditorNext

\* Own forms, saves and rows, by step.
LEMMA OwnStep == EditorTyped /\ NumbersAreFresh /\ OwnRows /\ EditorNext => OwnRows'
<1> SUFFICES ASSUME EditorTyped, NumbersAreFresh, OwnRows, EditorNext
             PROVE  OwnRows'
  OBVIOUS
<1>0. /\ \A d \in Drafts1 : Closed(d).for = d.for /\ Closed(d).row = d.row /\ ~Closed(d).open /\ ~Closed(d).lost
      /\ draft \in Drafts1 /\ saves \subseteq Saves1 /\ fillings \subseteq Numbers
      /\ \A k \in Numbers : k \in Openings /\ k # 0 /\ opened[k] \in FormRows \cup {NewRow}
  BY ClosedIs DEF EditorTyped, Numbers
<1>1. ASSUME NEW r \in FormRows \cup {NewRow}, OpenDraft(r)
      PROVE  OwnRows'
  <2>0. \A j \in Openings : /\ Filled(j, r).for = j /\ Filled(j, r).main = j /\ Filled(j, r).file = j
                       /\ Filled(j, r).row = r /\ ~Filled(j, r).lost
    BY FilledIs
  <2> USE <1>1 DEF OpenDraft
  <2>1. opened' = Append(opened, r)
    OBVIOUS
  <2>2. PICK k : k = Len(opened')
    OBVIOUS
  <2>3. /\ k \in Openings /\ k # 0 /\ k \in Numbers' /\ k \notin Numbers /\ opened'[k] = r
        /\ \A j \in Numbers : j \in Numbers' /\ opened'[j] = opened[j]
    BY <2>1, <2>2, Appended
  <2>4. /\ \A d : Own(d) => Own(d)'
        /\ \A j, q : IsOf(j, q) => IsOf(j, q)'
    BY <2>3 DEF Own, IsOf
  <2>5. UNCHANGED <<page, helper, saves, rows, made>> /\ ~draft.open
    OBVIOUS
  <2>6. CASE page.fills = "at once"
    <3>1. draft' = Filled(k, r) /\ fillings' = {} /\ late' = late
      BY <2>2, <2>6 DEF NumbersAreFresh
    <3>2. /\ draft'.for = k /\ draft'.main = k /\ draft'.file = k /\ draft'.row = r /\ ~draft'.lost
      <4> HIDE <1>1
      <4> QED
        BY <2>0, <2>3, <3>1
    <3>3. Own(draft)'
      BY <2>3, <3>2 DEF Own
    <3> HIDE <1>1
    <3> QED
      BY <2>4, <2>5, <3>1, <3>2, <3>3 DEF OwnRows
  <2>7. CASE page.fills # "at once"
    <3>1. fillings' = fillings \cup {k} /\ (~late' => ~late /\ fillings = {})
      BY <2>2, <2>7
    <3>2. draft'.open = draft.open /\ draft'.lost = draft.lost /\ (r = NewRow => draft'.row = NewRow)
      BY <1>0, <2>7 DEF Drafts1
    <3> HIDE <1>1
    <3> QED
      BY <2>2, <2>3, <2>4, <2>5, <3>1, <3>2 DEF OwnRows
  <2> QED
    BY <2>6, <2>7
<1>e. ASSUME opened' = opened
      PROVE  (\A d : Own(d) => Own(d)') /\ (\A j, q : IsOf(j, q) => IsOf(j, q)')
  BY <1>e DEF Own, IsOf, Numbers
<1>2. ASSUME NEW k \in fillings, Fill(k)
      PROVE  OwnRows'
  <2> USE <1>2 DEF Fill
  <2>1. k \in Openings /\ opened[k] \in FormRows \cup {NewRow} /\ k \in Numbers
    BY <1>0
  <2>2. /\ Filled(k, opened[k]) \in Drafts1
        /\ Filled(k, opened[k]).for = k /\ Filled(k, opened[k]).main = k /\ Filled(k, opened[k]).file = k
        /\ Filled(k, opened[k]).row = opened[k] /\ ~Filled(k, opened[k]).lost
    BY <2>1, FilledIs
  <2>3. /\ draft'.for = k /\ draft'.main = k /\ draft'.file = k /\ ~draft'.lost
        /\ draft'.row = IF opened[k] = NewRow THEN draft.row ELSE opened[k]
    BY <2>2 DEF Drafts1
  <2>4. /\ fillings' = fillings \ {k} /\ UNCHANGED <<page, opened, helper, saves, made, rows>>
        /\ ~late' => ~late
    OBVIOUS
  <2> HIDE <1>2
  <2>5. Numbers' = Numbers
    BY <2>4 DEF Numbers
  <2>6. ~late' => Own(draft)' /\ fillings' = {}
    BY <2>1, <2>3, <2>4, <2>5 DEF OwnRows, Own
  <2> QED
    BY <1>e, <2>3, <2>4, <2>6 DEF OwnRows
<1>3. ASSUME NEW k \in fillings, FillFails(k)
      PROVE  OwnRows'
  BY <1>3, <1>e DEF FillFails, OwnRows
<1>4. CASE Type
  <2>1. /\ draft'.for = draft.for /\ draft'.open = draft.open /\ draft'.main = draft.main
        /\ draft'.file = draft.file /\ draft'.row = draft.row /\ draft'.lost = draft.lost
    BY <1>0, <1>4 DEF Type, Drafts1
  <2>2. Own(draft) => Own(draft)'
    BY <1>4, <2>1 DEF Type, Own, Numbers
  <2> QED
    BY <1>4, <1>e, <2>1, <2>2 DEF Type, OwnRows
<1>5. CASE CloseDraft
  BY <1>0, <1>5, <1>e DEF CloseDraft, OwnRows
<1>6. CASE StartHelper
  <2>1. helper'.draft = draft
    BY <1>6 DEF StartHelper
  <2> QED
    BY <1>6, <1>e, <2>1 DEF StartHelper, OwnRows, Own
<1>7. ~NoHelper.on
  BY DEF NoHelper
<1>8. CASE FinishHelper
  <2> USE <1>8 DEF FinishHelper
  <2>1. PICK l \in BOOLEAN : l = (draft.typed /\ ~helper.draft.typed)
    OBVIOUS
  <2>2. page.helper \in {"into the form of now", "into the form of then"}
    BY HelpersAre DEF EditorTyped
  <2>3. CASE ~draft.open
    <3>1. draft' = draft /\ helper' = NoHelper /\ (~late' => ~late) /\ UNCHANGED <<page, opened, fillings, saves, rows, made>>
      BY <2>3
    <3> HIDE <1>8
    <3> QED
      BY <1>7, <1>e, <2>3, <3>1 DEF OwnRows
  <2>4. CASE draft.open /\ page.helper = "into the form of now"
    <3>1. /\ draft' = [draft EXCEPT !.file = helper.draft.for]
          /\ helper' = NoHelper /\ (~late' => ~late /\ draft.for = helper.draft.for)
          /\ UNCHANGED <<page, opened, fillings, saves, rows, made>>
      BY <2>4
    <3> HIDE <1>8
    <3>2. /\ draft'.for = draft.for /\ draft'.open = draft.open /\ draft'.main = draft.main
          /\ draft'.row = draft.row /\ draft'.lost = draft.lost /\ draft'.file = helper.draft.for
      BY <1>0, <3>1 DEF Drafts1
    <3>3. ~late' => Own(draft)'
      BY <2>4, <3>1, <3>2 DEF OwnRows, Own, Numbers
    <3> QED
      BY <1>7, <1>e, <2>4, <3>1, <3>2, <3>3 DEF OwnRows
  <2>5. CASE draft.open /\ page.helper = "into the form of then"
    <3>1. /\ draft' = [draft EXCEPT !.main = helper.draft.main, !.file = helper.draft.for, !.lost = l]
          /\ helper' = NoHelper /\ (~late' => ~late /\ draft.for = helper.draft.for) /\ helper.on
          /\ UNCHANGED <<page, opened, fillings, saves, rows, made>>
      BY <2>1, <2>5
    <3> HIDE <1>8
    <3>2. /\ draft'.for = draft.for /\ draft'.open = draft.open /\ draft'.main = helper.draft.main
          /\ draft'.row = draft.row /\ draft'.file = helper.draft.for
      BY <1>0, <3>1 DEF Drafts1
    <3>3. ~late' => Own(draft)'
      BY <2>5, <3>1, <3>2 DEF OwnRows, Own, Numbers
    <3> QED
      BY <1>7, <1>e, <2>5, <3>1, <3>2, <3>3 DEF OwnRows
  <2> QED
    BY <2>2, <2>3, <2>4, <2>5
<1>9. CASE HelperFails
  BY <1>7, <1>9, <1>e DEF HelperFails, OwnRows
<1>10. CASE SaveDraft
  <2>1. PICK n, now : saves' = saves \cup {[nth |-> n, draft |-> draft, stage |-> now]}
    BY <1>10 DEF SaveDraft, Submitted
  <2>2. \A s \in saves' : s \in saves \/ s.draft = draft
    BY <2>1
  <2>3. draft.open /\ UNCHANGED <<page, opened, fillings, draft, helper, rows, made, late>>
    BY <1>10 DEF SaveDraft, Submitted
  <2> QED
    BY <1>e, <2>2, <2>3 DEF OwnRows
<1>11. ASSUME NEW s \in saves, Resume(s)
       PROVE  OwnRows'
  <2> USE <1>11 DEF Resume
  <2>1. PICK found : found = Found(s.draft)
    OBVIOUS
  <2>2. found.lost = s.draft.lost
    <3>1. s.draft \in Drafts1
      BY <1>0 DEF Saves1
    <3> QED
      BY <2>1, <3>1, FoundIs
  <2>3. \A t \in saves' : t \in saves \/ t.draft = found
    <3>1. [s EXCEPT !.stage = "sent", !.draft = found].draft = found
      BY <1>0 DEF Saves1
    <3> QED
      BY <2>1, <3>1
  <2>4. /\ ~late' => ~late /\ found = s.draft
        /\ UNCHANGED <<page, opened, fillings, draft, helper, rows, made>>
    BY <2>1
  <2> HIDE <1>11
  <2> QED
    BY <1>e, <2>2, <2>3, <2>4 DEF OwnRows
<1>12. ASSUME NEW s \in saves, Carry(s)
       PROVE  OwnRows'
  <2> USE <1>12 DEF Carry
  <2>1. \A t \in saves' : t \in saves \/ t.draft = s.draft
    <3>1. [s EXCEPT !.stage = "carried out"].draft = s.draft
      BY <1>0 DEF Saves1
    <3> QED
      BY <3>1 DEF CarriedOut
  <2>2. \A m \in made' : m \in made \/ m.draft = s.draft
    BY DEF Made
  <2>3. s.draft \in Drafts1
    BY <1>0 DEF Saves1
  <2>4. \A q \in FormRows :
          \/ rows'[q].main = rows[q].main /\ rows'[q].file = rows[q].file
          \/ q = s.draft.row /\ rows'[q].main = s.draft.main /\ rows'[q].file = s.draft.file
    <3>1. CASE s.draft.row = NewRow
      BY <3>1 DEF Made
    <3>2. CASE s.draft.row # NewRow
      <4>1. PICK o : o = IF page.sends = "changes" THEN rows[s.draft.row].other ELSE s.draft.other
        OBVIOUS
      <4>2. s.draft.row \in FormRows
        BY <2>3, <3>2 DEF Drafts1
      <4>3. rows' = [rows EXCEPT ![s.draft.row] = [main |-> s.draft.main, file |-> s.draft.file, other |-> o]]
        BY <3>2, <4>1, <4>2 DEF EditorTyped
      <4> QED
        BY <4>2, <4>3 DEF EditorTyped
    <3> QED
      BY <3>1, <3>2
  <2>5. UNCHANGED <<page, opened, fillings, draft, helper, late>>
    OBVIOUS
  <2> HIDE <1>12
  <2>6. ~late => \A q \in FormRows : IsOf(rows'[q].main, q) /\ IsOf(rows'[q].file, q)
    <3>1. ~late => /\ s.draft.main \in Numbers /\ opened[s.draft.main] = s.draft.row
                   /\ s.draft.file \in Numbers /\ opened[s.draft.file] = s.draft.row
      BY <1>12 DEF OwnRows, Own
    <3>2. ~late => \A q \in FormRows : IsOf(rows[q].main, q) /\ IsOf(rows[q].file, q)
      BY DEF OwnRows
    <3> QED
      BY <2>4, <3>1, <3>2 DEF IsOf
  <2>7. /\ ~late => Own(s.draft)
        /\ page.helper # "into the form of then" => ~s.draft.lost
    BY <1>12 DEF OwnRows
  <2>8. \A q \in FormRows : (IsOf(rows'[q].main, q) => IsOf(rows[q].main, q)')
                         /\ (IsOf(rows'[q].file, q) => IsOf(rows[q].file, q)')
    BY <2>5 DEF IsOf, Numbers
  <2>9. ~late => \A q \in FormRows : IsOf(rows[q].main, q)' /\ IsOf(rows[q].file, q)'
    BY <2>6, <2>8
  <2> QED
    BY <1>e, <2>1, <2>2, <2>5, <2>7, <2>9 DEF OwnRows, Own
<1>13. ASSUME NEW s \in saves, Told(s)
       PROVE  OwnRows'
  <2> USE <1>13 DEF Told
  <2>1. \A t \in saves' : t \in saves \/ t.draft = s.draft
    <3>1. PICK now : now = IF page.next = "unlocked" THEN "told" ELSE "next"
      OBVIOUS
    <3>2. [s EXCEPT !.stage = now].draft = s.draft
      BY <1>0 DEF Saves1
    <3>3. saves' \subseteq saves \cup {[s EXCEPT !.stage = now]}
      BY <3>1
    <3> QED
      BY <3>2, <3>3
  <2>2. draft' = draft \/ (draft'.row = draft.row /\ ~draft'.open /\ ~draft'.lost)
    BY <1>0
  <2>3. UNCHANGED <<page, opened, fillings, helper, rows, made, late>>
    OBVIOUS
  <2> HIDE <1>13
  <2>4. draft' = draft => (Own(draft) => Own(draft)')
    BY <2>3 DEF Own, Numbers
  <2>5. ~late /\ draft'.open => Own(draft)'
    BY <2>2, <2>4 DEF OwnRows
  <2>6. \A t \in saves' : (~late => Own(t.draft)) /\ (page.helper # "into the form of then" => ~t.draft.lost)
    BY <1>13, <2>1 DEF OwnRows
  <2> QED
    BY <1>e, <2>2, <2>3, <2>5, <2>6 DEF OwnRows
<1>14. ASSUME NEW s \in saves, NEW ok \in BOOLEAN, NextDone(s, ok)
       PROVE  OwnRows'
  <2>1. draft' = draft \/ (draft'.row = draft.row /\ ~draft'.open /\ ~draft'.lost)
    BY <1>0, <1>14 DEF NextDone
  <2>2. saves' \subseteq saves /\ UNCHANGED <<page, opened, fillings, helper, rows, made, late>>
    BY <1>14 DEF NextDone
  <2> QED
    BY <1>e, <2>1, <2>2 DEF OwnRows
<1>15. ASSUME NEW s \in saves, SaveFails(s)
       PROVE  OwnRows'
  BY <1>15, <1>e DEF SaveFails, OwnRows
<1>16. ASSUME NEW q \in FormRows, ChangeElsewhere(q)
       PROVE  OwnRows'
  <2>1. PICK o : rows' = [rows EXCEPT ![q].other = o]
    BY <1>16 DEF ChangeElsewhere
  <2>2. \A r \in FormRows : rows'[r].main = rows[r].main /\ rows'[r].file = rows[r].file
    BY <2>1 DEF EditorTyped, Rows1
  <2>3. UNCHANGED <<page, opened, fillings, draft, helper, saves, made, late>>
    BY <1>16 DEF ChangeElsewhere
  <2> QED
    BY <1>e, <2>2, <2>3 DEF OwnRows
<1> QED
  BY <1>1, <1>2, <1>3, <1>4, <1>5, <1>6, <1>8, <1>9, <1>10, <1>11, <1>12, <1>13, <1>14, <1>15, <1>16
  DEF EditorNext

\* A form makes one row, by step.
LEMMA OneStep == EditorTyped /\ NumbersAreFresh /\ OneRow /\ EditorNext => OneRow'
<1> SUFFICES ASSUME EditorTyped, NumbersAreFresh, OneRow, EditorNext
             PROVE  OneRow'
  OBVIOUS
<1>0. /\ \A d \in Drafts1 : Closed(d).for = d.for /\ ~Closed(d).open
      /\ draft \in Drafts1 /\ saves \subseteq Saves1 /\ fillings \subseteq Numbers
      /\ \A k \in Numbers : k \in Openings /\ k # 0 /\ opened[k] \in FormRows \cup {NewRow}
  BY ClosedIs DEF EditorTyped, Numbers
<1>p. page' = page
  BY DEF EditorNext, OpenDraft, Fill, FillFails, Type, CloseDraft, StartHelper, FinishHelper, HelperFails,
         SaveDraft, Submitted, Resume, Carry, Told, NextDone, SaveFails, ChangeElsewhere
<1> SUFFICES ASSUME page.lock, page.closes, page.next # "unlocked"
             PROVE  OneRow'
  BY <1>p DEF OneRow
\* What does not touch the saves.
<1>k. ASSUME UNCHANGED <<saves, made>>, unsure \subseteq unsure',
             draft'.open => draft.open,
             draft'.for = draft.for
      PROVE  OneRow'
  <2>1. \A k : Unmade(k) => Unmade(k)'
    BY <1>k DEF Unmade
  <2>2. Unmade(draft.for) => Unmade(draft.for)'
    BY <1>k, <2>1 DEF Unmade
  <2>3. \A s \in saves : Unmade(s.draft.for) => Unmade(s.draft.for)'
    BY <2>1
  <2> QED
    BY <1>k, <1>p, <2>2, <2>3 DEF OneRow
\* Nor what opens a form that has a number of its own.
<1>f. ASSUME NEW k, k \notin {0} \cup (Numbers \ fillings), UNCHANGED <<saves, made, unsure>>, draft'.for = k
      PROVE  OneRow'
  <2>1. \A m \in made : m.draft.for # k
    BY <1>f DEF NumbersAreFresh
  <2>2. Unmade(draft.for)'
    BY <1>f, <2>1 DEF Unmade
  <2>3. \A s \in saves : Unmade(s.draft.for) => Unmade(s.draft.for)'
    BY <1>f DEF Unmade
  <2> QED
    BY <1>f, <1>p, <2>2, <2>3 DEF OneRow
<1>1. ASSUME NEW r \in FormRows \cup {NewRow}, OpenDraft(r)
      PROVE  OneRow'
  <2> USE <1>1 DEF OpenDraft
  <2>1. opened' = Append(opened, r)
    OBVIOUS
  <2>2. PICK k : k = Len(opened')
    OBVIOUS
  <2>3. k \in Openings /\ k # 0 /\ k \notin Numbers
    BY <2>1, <2>2, Appended
  <2>4. UNCHANGED <<saves, made, unsure>>
    OBVIOUS
  <2>5. CASE page.fills = "at once"
    <3>1. draft' = Filled(k, r)
      BY <2>2, <2>5
    <3>2. Filled(k, r).for = k
      BY <2>3, FilledIs
    <3> HIDE <1>1
    <3> QED
      BY <1>f, <2>3, <2>4, <3>1, <3>2
  <2>6. CASE page.fills # "at once"
    <3>1. draft'.open = draft.open /\ draft'.for = draft.for
      BY <1>0, <2>6 DEF Drafts1
    <3> HIDE <1>1
    <3> QED
      BY <1>k, <2>4, <3>1
  <2> QED
    BY <2>5, <2>6
<1>2. ASSUME NEW k \in fillings, Fill(k)
      PROVE  OneRow'
  <2> USE <1>2 DEF Fill
  <2>1. k \in Openings /\ opened[k] \in FormRows \cup {NewRow} /\ k \in Numbers /\ k # 0
    BY <1>0
  <2>2. Filled(k, opened[k]) \in Drafts1 /\ Filled(k, opened[k]).for = k
    BY <2>1, FilledIs
  <2>3. draft'.for = k
    BY <2>2 DEF Drafts1
  <2>4. UNCHANGED <<saves, made, unsure>>
    OBVIOUS
  <2> HIDE <1>2
  <2> QED
    BY <1>2, <1>f, <2>1, <2>3, <2>4
<1>3. ASSUME NEW k \in fillings, FillFails(k)
      PROVE  OneRow'
  BY <1>3, <1>k DEF FillFails
<1>4. CASE Type
  <2>1. draft'.for = draft.for /\ draft'.open = draft.open
    BY <1>0, <1>4 DEF Type, Drafts1
  <2> QED
    BY <1>4, <1>k, <2>1 DEF Type
<1>5. CASE CloseDraft
  BY <1>0, <1>5, <1>k DEF CloseDraft
<1>6. CASE StartHelper
  BY <1>6, <1>k DEF StartHelper
<1>7. CASE FinishHelper
  <2>1. draft'.for = draft.for /\ draft'.open = draft.open
    BY <1>0, <1>7 DEF FinishHelper, Drafts1
  <2> QED
    BY <1>7, <1>k, <2>1 DEF FinishHelper
<1>8. CASE HelperFails
  BY <1>8, <1>k DEF HelperFails
<1>9. CASE SaveDraft
  <2>1. PICK n, now : /\ saves' = saves \cup {[nth |-> n, draft |-> draft, stage |-> now]}
                        /\ now \in {"sent", "waiting"}
    BY <1>9 DEF SaveDraft, Submitted
  <2>2. saves = {}
    BY <1>9 DEF SaveDraft, OneRow
  <2>3. draft.open /\ UNCHANGED <<draft, made, unsure>>
    BY <1>9 DEF SaveDraft, Submitted
  <2>4. Unmade(draft.for)
    BY <2>2, <2>3 DEF OneRow
  <2>5. \A s \in saves' : s.draft = draft /\ s.stage \in {"sent", "waiting"}
    BY <2>1, <2>2
  <2>6. \A s, t \in saves' : s = t
    BY <2>1, <2>2
  <2>7. Unmade(draft.for)' /\ \A s \in saves' : Unmade(s.draft.for)'
    BY <2>3, <2>4, <2>5 DEF Unmade
  <2> QED
    BY <2>1, <2>3, <2>5, <2>6, <2>7 DEF OneRow
\* A save that is told from the others is the only one there is.
<1>s. ASSUME NEW s \in saves
      PROVE  /\ saves = {s} /\ s \in Saves1 /\ s.stage # "told"
             /\ s.stage \in {"waiting", "sent"} => Unmade(s.draft.for) /\ Unmade(draft.for)
             /\ Unmade(draft.for) \/ draft.for = s.draft.for
  <2>1. \A t \in saves : t = s
    BY DEF OneRow
  <2> QED
    BY <1>0, <2>1 DEF OneRow
<1>10. ASSUME NEW s \in saves, Resume(s)
       PROVE  OneRow'
  <2> USE <1>10 DEF Resume
  <2>1. PICK found : found = Found(s.draft)
    OBVIOUS
  <2>2. found.for = s.draft.for \/ found.for = draft.for
    <3>1. s.draft \in Drafts1
      BY <1>s DEF Saves1
    <3> QED
      BY <2>1, <3>1, FoundIs
  <2>3. PICK t : t = [s EXCEPT !.stage = "sent", !.draft = found]
    OBVIOUS
  <2>4. t.stage = "sent" /\ t.draft = found
    BY <1>s, <2>3 DEF Saves1
  <2>5. saves' \subseteq {t}
    BY <1>s, <2>1, <2>3
  <2>6. UNCHANGED <<made, unsure, draft>> /\ s.stage = "waiting"
    OBVIOUS
  <2> HIDE <1>10
  <2>7. Unmade(found.for) /\ Unmade(draft.for)
    BY <1>10, <1>s, <2>2, <2>6
  <2>8. Unmade(draft.for)' /\ \A u \in saves' : u = t /\ Unmade(u.draft.for)'
    BY <2>4, <2>5, <2>6, <2>7 DEF Unmade
  <2> QED
    BY <2>4, <2>6, <2>8 DEF OneRow
<1>11. ASSUME NEW s \in saves, Carry(s)
       PROVE  OneRow'
  <2> USE <1>11 DEF Carry
  <2>1. PICK t : t = [s EXCEPT !.stage = "carried out"]
    OBVIOUS
  <2>2. t.stage = "carried out" /\ t.draft = s.draft
    BY <1>s, <2>1 DEF Saves1
  <2>3. saves' = {t}
    BY <1>s, <2>1 DEF CarriedOut
  <2>4. PICK m : m = [nth |-> s.nth, draft |-> s.draft]
    OBVIOUS
  <2>5. m.draft = s.draft /\ made' \subseteq made \cup {m}
    BY <2>4 DEF Made
  <2>6. UNCHANGED <<unsure, draft>> /\ s.stage = "sent"
    OBVIOUS
  <2> HIDE <1>11
  <2>7. Unmade(s.draft.for) /\ Unmade(draft.for)
    BY <1>11, <1>s, <2>6
  <2>8. \A a, b \in made' : a.draft.for = b.draft.for /\ a.draft.for \notin unsure' \cup {0} => a = b
    BY <2>5, <2>6, <2>7 DEF OneRow, Unmade
  <2>9. Unmade(draft.for)' \/ draft'.for = t.draft.for
    BY <2>2, <2>5, <2>6, <2>7 DEF Unmade
  <2> QED
    BY <2>2, <2>3, <2>8, <2>9 DEF OneRow
<1>12. ASSUME NEW s \in saves, Told(s)
       PROVE  OneRow'
  <2> USE <1>12 DEF Told
  <2>1. UNCHANGED <<made, unsure>> /\ s.stage = "carried out"
    OBVIOUS
  <2>2. CASE page.next = "nothing"
    <3>1. saves' = {} /\ draft' = Closed(draft)
      BY <1>s, <2>2
    <3>2. ~draft'.open
      BY <1>0, <3>1
    <3> HIDE <1>12
    <3> QED
      BY <2>1, <3>1, <3>2 DEF OneRow
  <2>3. CASE page.next # "nothing"
    <3>1. PICK t : t = [s EXCEPT !.stage = "next"]
      OBVIOUS
    <3>2. t.stage = "next" /\ t.draft = s.draft
      BY <1>s, <3>1 DEF Saves1
    <3>3. saves' = {t} /\ draft' = draft
      BY <1>s, <2>3, <3>1
    <3> HIDE <1>12
    <3>4. Unmade(draft.for)' \/ draft'.for = t.draft.for
      BY <1>12, <1>s, <2>1, <3>2, <3>3 DEF Unmade
    <3> QED
      BY <2>1, <3>2, <3>3, <3>4 DEF OneRow
  <2> QED
    BY <2>2, <2>3
<1>13. ASSUME NEW s \in saves, NEW ok \in BOOLEAN, NextDone(s, ok)
       PROVE  OneRow'
  <2>1. saves' = {} /\ made' = made
    BY <1>13, <1>s DEF NextDone
  <2>2. CASE ok
    <3>1. draft' = Closed(draft) /\ unsure' = unsure
      BY <1>13, <2>2 DEF NextDone
    <3> QED
      BY <1>0, <2>1, <3>1 DEF OneRow
  <2>3. CASE ~ok
    <3>1. draft' = draft /\ unsure' = unsure \cup {s.draft.for}
      BY <1>13, <1>s, <2>3 DEF NextDone
    <3>2. Unmade(draft.for)'
      BY <1>13, <1>s, <2>1, <3>1 DEF Unmade
    <3> QED
      BY <2>1, <3>1, <3>2 DEF OneRow
  <2> QED
    BY <2>2, <2>3
<1>14. ASSUME NEW s \in saves, SaveFails(s)
       PROVE  OneRow'
  <2>1. saves' = {} /\ made' = made /\ draft' = draft /\ s.stage \in {"sent", "carried out"}
    BY <1>14, <1>s DEF SaveFails
  <2>2. (unsure' = unsure /\ s.stage = "sent") \/ unsure' = unsure \cup {s.draft.for}
    BY <1>14 DEF SaveFails
  <2>3. Unmade(draft.for)'
    BY <1>14, <1>s, <2>1, <2>2 DEF Unmade
  <2> QED
    BY <2>1, <2>2, <2>3 DEF OneRow
<1>15. ASSUME NEW r \in FormRows, ChangeElsewhere(r)
       PROVE  OneRow'
  BY <1>15, <1>k DEF ChangeElsewhere
<1> QED
  BY <1>1, <1>2, <1>3, <1>4, <1>5, <1>6, <1>7, <1>8, <1>9, <1>10, <1>11, <1>12, <1>13, <1>14, <1>15
  DEF EditorNext

LEMMA OthersStep == EditorTyped /\ OthersChangesSurvive /\ EditorNext => OthersChangesSurvive'
<1> SUFFICES ASSUME EditorTyped, OthersChangesSurvive, EditorNext
             PROVE  OthersChangesSurvive'
  OBVIOUS
<1>p. page' = page
  BY DEF EditorNext, OpenDraft, Fill, FillFails, Type, CloseDraft, StartHelper, FinishHelper, HelperFails,
         SaveDraft, Submitted, Resume, Carry, Told, NextDone, SaveFails, ChangeElsewhere
<1> SUFFICES ASSUME page.sends = "changes"
             PROVE  \A r \in FormRows : rows'[r].other = elsewhere'[r]
  BY <1>p DEF OthersChangesSurvive
<1>1. \A r \in FormRows : rows[r].other = elsewhere[r]
  BY DEF OthersChangesSurvive
<1>2. ASSUME NEW s \in saves, Carry(s)
      PROVE  \A r \in FormRows : rows'[r].other = elsewhere'[r]
  <2> USE <1>2 DEF Carry
  <2>1. CASE s.draft.row = NewRow
    BY <1>1, <2>1 DEF Made
  <2>2. CASE s.draft.row # NewRow
    <3>1. s.draft.row \in FormRows
      BY <2>2 DEF EditorTyped, Saves1, Drafts1
    <3>2. rows' = [rows EXCEPT ![s.draft.row] = [main |-> s.draft.main, file |-> s.draft.file,
                                                 other |-> rows[s.draft.row].other]]
      BY <2>2, <3>1 DEF EditorTyped
    <3>3. elsewhere' = elsewhere
      OBVIOUS
    <3> HIDE <1>2
    <3> QED
      BY <1>1, <3>1, <3>2, <3>3 DEF EditorTyped
  <2> QED
    BY <2>1, <2>2
<1>3. ASSUME NEW q \in FormRows, ChangeElsewhere(q)
      PROVE  \A r \in FormRows : rows'[r].other = elsewhere'[r]
  <2>1. PICK o : o = elsewhere'[q]
    OBVIOUS
  <2>2. rows' = [rows EXCEPT ![q].other = o]
    BY <1>3, <2>1 DEF ChangeElsewhere
  <2>3. rows'[q].other = o /\ \A r \in FormRows \ {q} : rows'[r] = rows[r]
    BY <2>2 DEF EditorTyped, Rows1
  <2>4. \A r \in FormRows \ {q} : elsewhere'[r] = elsewhere[r]
    BY <1>3 DEF ChangeElsewhere, EditorTyped
  <2> QED
    BY <1>1, <2>1, <2>3, <2>4
<1>4. ASSUME UNCHANGED <<rows, elsewhere>>
      PROVE  \A r \in FormRows : rows'[r].other = elsewhere'[r]
  BY <1>1, <1>4
<1> QED
  BY <1>2, <1>3, <1>4
  DEF EditorNext, OpenDraft, Fill, FillFails, Type, CloseDraft, StartHelper, FinishHelper, HelperFails,
      SaveDraft, Submitted, Resume, Told, NextDone, SaveFails

LEMMA EditorInvStep == EditorInv /\ [EditorNext]_editorVars => EditorInv'
<1> SUFFICES ASSUME EditorInv, [EditorNext]_editorVars
             PROVE  EditorInv'
  OBVIOUS
<1>1. CASE EditorNext
  BY <1>1, TypedStep, FreshStep, OwnStep, OneStep, OthersStep DEF EditorInv
<1>2. CASE UNCHANGED editorVars
  <2>1. UNCHANGED <<page, opened, fillings, draft, helper, submits, saves, rows, made, elsewhere, unsure, late>>
    BY <1>2 DEF editorVars
  <2>2. EditorTyped' /\ NumbersAreFresh'
    BY <2>1 DEF EditorInv, EditorTyped, NumbersAreFresh, Numbers
  <2>3. OwnRows'
    BY <2>1 DEF EditorInv, OwnRows, Own, IsOf, Numbers
  <2>4. OneRow' /\ OthersChangesSurvive'
    BY <2>1 DEF EditorInv, OneRow, Unmade, OthersChangesSurvive
  <2> QED
    BY <2>2, <2>3, <2>4 DEF EditorInv
<1> QED
  BY <1>1, <1>2

LEMMA EditorIsTyped == EditorInv => EditorTypeOK
<1> SUFFICES ASSUME EditorInv
             PROVE  EditorTypeOK
  OBVIOUS
<1>1. Drafts1 = Drafts
  BY DEF Drafts1, Drafts, Openings, Others
<1>2. Len(opened) <= MaxOpenings
  <2>1. Len(opened) \in Nat /\ 1..Len(opened) \subseteq 0..MaxOpenings
    BY DEF EditorInv, EditorTyped, Numbers, Openings
  <2>2. Len(opened) = 0 \/ Len(opened) \in 1..Len(opened)
    BY <2>1
  <2> QED
    BY <2>1, <2>2, EditorAssumption
<1>3. DOMAIN opened = Numbers
  BY DEF EditorInv, EditorTyped, Numbers
<1>4. /\ Saves1 = [nth : 1..MaxSubmits, draft : Drafts, stage : {"waiting", "sent", "carried out", "told", "next"}]
      /\ Made1 = [nth : 1..MaxSubmits, draft : Drafts]
      /\ Rows1 = [main : 0..MaxOpenings, file : 0..MaxOpenings, other : 0..MaxElsewhere]
  BY <1>1 DEF Saves1, Made1, Rows1, Stages, Submits, Openings, Others
<1> QED
  BY <1>1, <1>2, <1>3, <1>4 DEF EditorInv, EditorTyped, EditorTypeOK, NumbersAreFresh, Others

LEMMA EditorInvSuffices == EditorInv => RowsKeepTheirOwn /\ OneRowPerForm /\ OthersChangesSurvive
<1> SUFFICES ASSUME EditorInv
             PROVE  RowsKeepTheirOwn /\ OneRowPerForm
  BY DEF EditorInv
<1>1. RowsKeepTheirOwn
  BY DEF EditorInv, OwnRows, RowsKeepTheirOwn, IsOf, IsFor
<1>2. OneRowPerForm
  <2> SUFFICES ASSUME page.lock, page.closes, page.next # "unlocked", NEW k \in DOMAIN opened \ unsure
               PROVE  Cardinality({m \in made : m.draft.for = k}) <= 1
    BY DEF OneRowPerForm
  <2> DEFINE Rs == {m \in made : m.draft.for = k}
  <2>1. k # 0
    BY DEF EditorInv, EditorTyped
  <2>2. \A m, n \in Rs : m = n
    BY <2>1 DEF EditorInv, OneRow
  <2> HIDE DEF Rs
  <2>3. Cardinality(Rs) <= 1
    <3>1. CASE Rs = {}
      <4>1. Cardinality({}) = 0
        BY FS_EmptySet
      <4> QED
        BY <3>1, <4>1
    <3>2. CASE Rs # {}
      <4>1. PICK m : Rs = {m}
        BY <2>2, <3>2
      <4>2. Cardinality({m}) = 1
        BY FS_Singleton
      <4> QED
        BY <4>1, <4>2
    <3> QED
      BY <3>1, <3>2
  <2> QED
    BY <2>3 DEF Rs
<1> QED
  BY <1>1, <1>2

-----------------------------------------------------------------------------
(***************************************************************************)
(* The fields of the forms, for users of any zone and any number of edits. *)
(***************************************************************************)
Marks == [n : Int, rough : BOOLEAN]
Marked1 == {<<m>> : m \in Marks}
Vals == {<<>>} \cup Marked1
Forms1 == [open : BOOLEAN, value : Vals, manages : BOOLEAN]

\* What the fields have in common.
IsField(f) ==
  /\ f.default \in {<<>>, Of(0)}
  /\ f.type = "boolean" => f.default = Of(0)
  /\ f.type = "datetime" => f.default = <<>>
  /\ f.with = "management" => f.type = "number" /\ f.required = TRUE

LEMMA FieldsAreSound ==
  \A r \in RecordForms : IsField(r.field) /\ (r.field.with = "management" => r.sends = "all")
<1>1. /\ IsField(Required(Plain("string")))
      /\ IsField(Default(Plain("number")))
      /\ IsField(Plain("string"))
      /\ IsField(Plain("date"))
      /\ IsField(Plain("number"))
      /\ IsField(Plain("json"))
      /\ IsField(Depends(Plain("string"), "map"))
      /\ IsField(Required(Plain("number")))
      /\ IsField(Required(Plain("date")))
      /\ IsField(Depends(Required(Plain("string")), "district"))
      /\ IsField(Default(Plain("boolean")))
      /\ IsField(Default(Required(Plain("string"))))
      /\ IsField(Depends(Required(Plain("number")), "management"))
      /\ IsField(Default(Plain("string")))
      /\ IsField(Default(Required(Plain("number"))))
      /\ IsField(Depends(Required(Plain("string")), "worker type"))
      /\ IsField(Required(Plain("datetime")))
  <2>1. IsField(Required(Plain("string")))
    BY DEF IsField, Plain, Required, Default, Depends
  <2>2. IsField(Default(Plain("number")))
    BY DEF IsField, Plain, Required, Default, Depends
  <2>3. IsField(Plain("string"))
    BY DEF IsField, Plain, Required, Default, Depends
  <2>4. IsField(Plain("date"))
    BY DEF IsField, Plain, Required, Default, Depends
  <2>5. IsField(Plain("number"))
    BY DEF IsField, Plain, Required, Default, Depends
  <2>6. IsField(Plain("json"))
    BY DEF IsField, Plain, Required, Default, Depends
  <2>7. IsField(Depends(Plain("string"), "map"))
    BY DEF IsField, Plain, Required, Default, Depends
  <2>8. IsField(Required(Plain("number")))
    BY DEF IsField, Plain, Required, Default, Depends
  <2>9. IsField(Required(Plain("date")))
    BY DEF IsField, Plain, Required, Default, Depends
  <2>10. IsField(Depends(Required(Plain("string")), "district"))
    BY DEF IsField, Plain, Required, Default, Depends
  <2>11. IsField(Default(Plain("boolean")))
    BY DEF IsField, Plain, Required, Default, Depends
  <2>12. IsField(Default(Required(Plain("string"))))
    BY DEF IsField, Plain, Required, Default, Depends
  <2>13. IsField(Depends(Required(Plain("number")), "management"))
    BY DEF IsField, Plain, Required, Default, Depends
  <2>14. IsField(Default(Plain("string")))
    BY DEF IsField, Plain, Required, Default, Depends
  <2>15. IsField(Default(Required(Plain("number"))))
    BY DEF IsField, Plain, Required, Default, Depends
  <2>16. IsField(Depends(Required(Plain("string")), "worker type"))
    BY DEF IsField, Plain, Required, Default, Depends
  <2>17. IsField(Required(Plain("datetime")))
    BY DEF IsField, Plain, Required, Default, Depends
  <2> QED
    BY <2>1, <2>2, <2>3, <2>4, <2>5, <2>6, <2>7, <2>8, <2>9, <2>10, <2>11, <2>12, <2>13, <2>14, <2>15, <2>16, <2>17
<1>2. \A f \in projectFormFields : IsField(f) /\ f.with # "management"
  <2>1. \A f \in projectFormFields : IsField(f)
    BY <1>1 DEF projectFormFields
  <2>2. \A f \in projectFormFields : f.with # "management"
    BY DEF projectFormFields, Plain, Required, Default, Depends
  <2> QED
    BY <2>1, <2>2
<1>3. \A f \in unitFormFields : IsField(f)
  BY <1>1 DEF unitFormFields
<1>4. \A f \in teamFormFields : IsField(f)
  BY <1>1 DEF teamFormFields
<1>5. \A f \in workerFormFields : IsField(f)
  BY <1>1 DEF workerFormFields
<1>6. \A f \in attendanceFormFields : IsField(f)
  BY <1>1 DEF attendanceFormFields
<1>7. \A f \in deviceFields : IsField(f)
  BY <1>1 DEF deviceFields
<1>8. \A f \in unitFields \cup teamFields \cup workerFields \cup attendanceFields \cup deviceFields : IsField(f)
  BY <1>1, <1>3, <1>4, <1>5, <1>6, <1>7 DEF unitFields, teamFields, workerFields, attendanceFields
<1> QED
  BY <1>2, <1>3, <1>4, <1>5, <1>6, <1>8 DEF RecordForms

\* A value that is there.
Mark(n, rough) == <<[n |-> n, rough |-> rough]>>

LEMMA ValueIs ==
  ASSUME NEW v \in Vals, v # <<>>
  PROVE  \E n \in Int, r \in BOOLEAN : v = Mark(n, r)
<1>1. PICK m \in Marks : v = <<m>>
  BY DEF Vals, Marked1
<1>2. m = [n |-> m.n, rough |-> m.rough] /\ m.n \in Int /\ m.rough \in BOOLEAN
  BY DEF Marks
<1> QED
  BY <1>1, <1>2 DEF Mark

LEMMA RoughOf ==
  ASSUME NEW n, NEW r, NEW q
  PROVE  [[n |-> n, rough |-> r] EXCEPT !.rough = q] = [n |-> n, rough |-> q]
OBVIOUS

\* Making a value smooth, and moving it.
LEMMA SmoothOf ==
  ASSUME NEW n \in Int, NEW r \in BOOLEAN
  PROVE  /\ Mark(n, r) # <<>> /\ Mark(n, r) \in Vals /\ Mark(n, r)[1].n = n
         /\ Smooth(Mark(n, r)) = Mark(n, FALSE)
<1> DEFINE v == Mark(n, r)
<1>1. v # <<>> /\ v[1] = [n |-> n, rough |-> r]
  BY DEF Mark
<1> HIDE DEF v
<1>2. [v[1] EXCEPT !.rough = FALSE] = [n |-> n, rough |-> FALSE]
  <2>1. [[n |-> n, rough |-> r] EXCEPT !.rough = FALSE] = [n |-> n, rough |-> FALSE]
    BY RoughOf
  <2> QED
    BY <1>1, <2>1
<1>3. Smooth(v) = Mark(n, FALSE)
  BY <1>1, <1>2 DEF Smooth, Mark
<1>4. [n |-> n, rough |-> r] \in Marks
  BY DEF Marks
<1>5. v \in Vals
  BY <1>4 DEF Vals, Marked1, v, Mark
<1>6. v[1].n = n
  BY <1>1
<1> QED
  BY <1>1, <1>3, <1>5, <1>6 DEF v

LEMMA MovedOf ==
  ASSUME NEW n \in Int, NEW r \in BOOLEAN, NEW by \in Int
  PROVE  Moved(Mark(n, r), by) = Mark(n + by, r)
<1> DEFINE v == Mark(n, r)
<1>1. v # <<>> /\ v[1] = [n |-> n, rough |-> r]
  BY DEF Mark
<1> HIDE DEF v
<1>2. [v[1] EXCEPT !.n = @ + by] = [n |-> n + by, rough |-> r]
  BY <1>1
<1>3. Moved(v, by) = Mark(n + by, r)
  BY <1>1, <1>2 DEF Moved, Mark
<1> QED
  BY <1>3 DEF v

LEMMA OfIs ==
  ASSUME NEW n \in Int
  PROVE  Of(n) \in Vals /\ Of(n) # <<>> /\ Of(n)[1].n = n /\ Smooth(Of(n)) = Of(n)
<1>1. PICK r \in BOOLEAN : r = FALSE
  OBVIOUS
<1>2. Of(n) = Mark(n, r)
  BY <1>1 DEF Of, Mark
<1>3. /\ Mark(n, r) # <<>> /\ Mark(n, r) \in Vals /\ Mark(n, r)[1].n = n
      /\ Smooth(Mark(n, r)) = Mark(n, FALSE)
  BY SmoothOf
<1> QED
  BY <1>1, <1>2, <1>3

\* What makes values smooth or moves them keeps them values.
LEMMA ValuesStay ==
  ASSUME NEW v \in Vals, NEW by \in Int
  PROVE  /\ Smooth(v) \in Vals /\ Moved(v, by) \in Vals
         /\ Smooth(v) = <<>> <=> v = <<>>
         /\ Moved(v, by) = <<>> <=> v = <<>>
         /\ v # <<>> => Smooth(v)[1].n = v[1].n
<1>1. CASE v = <<>>
  BY <1>1 DEF Smooth, Moved
<1>2. CASE v # <<>>
  <2>1. PICK n \in Int, r \in BOOLEAN : v = Mark(n, r)
    BY <1>2, ValueIs
  <2>2. Smooth(v) = Mark(n, FALSE) /\ v[1].n = n
    BY <2>1, SmoothOf
  <2>3. Moved(v, by) = Mark(n + by, r)
    BY <2>1, MovedOf
  <2>4. n + by \in Int
    BY <2>1
  <2>5. Smooth(v) \in Vals /\ Smooth(v) # <<>> /\ Smooth(v)[1].n = n
    BY <2>1, <2>2, SmoothOf
  <2>6. Moved(v, by) \in Vals /\ Moved(v, by) # <<>>
    BY <2>1, <2>3, <2>4, SmoothOf
  <2> QED
    BY <1>2, <2>2, <2>5, <2>6
<1> QED
  BY <1>1, <1>2

\* What is smooth stays as it is, and a time that is moved there and back too.
LEMMA ThereAndBack ==
  ASSUME NEW v \in Vals, NEW z \in Int
  PROVE  /\ Smooth(Smooth(v)) = Smooth(v)
         /\ z = 0 => Moved(v, z) = v /\ Moved(v, -z) = v
         /\ Moved(Smooth(Moved(Smooth(v), z)), -z) = Smooth(v)
         /\ Moved(Smooth(Moved(Smooth(v), -z)), z) = Smooth(v)
<1>1. CASE v = <<>>
  BY <1>1 DEF Smooth, Moved
<1>2. CASE v # <<>>
  <2>1. PICK n \in Int, r \in BOOLEAN : v = Mark(n, r)
    BY <1>2, ValueIs
  <2>2. Smooth(v) = Mark(n, FALSE)
    BY <2>1, SmoothOf
  <2>3. /\ n + z \in Int /\ -z \in Int /\ n + (-z) \in Int
        /\ (n + z) + (-z) = n /\ (n + (-z)) + z = n
        /\ z = 0 => n + z = n /\ n + (-z) = n
    BY <2>1
  <2>4. z = 0 => Moved(v, z) = v /\ Moved(v, -z) = v
    <3>1. Moved(v, z) = Mark(n + z, r) /\ Moved(v, -z) = Mark(n + (-z), r)
      BY <2>1, <2>3, MovedOf
    <3> QED
      BY <2>1, <2>3, <3>1
  <2>5. Moved(Smooth(Moved(Smooth(v), z)), -z) = Smooth(v)
    <3>1. Moved(Smooth(v), z) = Mark(n + z, FALSE)
      BY <2>1, <2>2, MovedOf
    <3>2. Smooth(Moved(Smooth(v), z)) = Mark(n + z, FALSE)
      BY <2>3, <3>1, SmoothOf
    <3>3. Moved(Mark(n + z, FALSE), -z) = Mark((n + z) + (-z), FALSE)
      BY <2>3, MovedOf
    <3> QED
      BY <2>2, <2>3, <3>2, <3>3
  <2>6. Moved(Smooth(Moved(Smooth(v), -z)), z) = Smooth(v)
    <3>1. Moved(Smooth(v), -z) = Mark(n + (-z), FALSE)
      BY <2>1, <2>2, <2>3, MovedOf
    <3>2. Smooth(Moved(Smooth(v), -z)) = Mark(n + (-z), FALSE)
      BY <2>3, <3>1, SmoothOf
    <3>3. Moved(Mark(n + (-z), FALSE), z) = Mark((n + (-z)) + z, FALSE)
      BY <2>3, MovedOf
    <3> QED
      BY <2>2, <2>3, <3>2, <3>3
  <2>7. Smooth(Smooth(v)) = Smooth(v)
    BY <2>1, <2>2, SmoothOf
  <2> QED
    BY <2>4, <2>5, <2>6, <2>7
<1> QED
  BY <1>1, <1>2

\* A field that says the work of a team: the work agrees with the kind.
Agrees(v, manages) == v # <<>> /\ v = Smooth(v) /\ (manages <=> v[1].n = ManagersWork)

(***************************************************************************)
(* What holds in every state: the form that is open was opened from the    *)
(* row as it is, the row is what the last form that was saved made of it,  *)
(* and a form nobody touched has the text of the row that was.             *)
(***************************************************************************)
FieldsInv ==
  LET f == recordForm.field
  IN  /\ recordForm \in RecordForms /\ zone \in Zones
      /\ stored \in [value : Vals, manages : BOOLEAN]
      /\ text \in Forms1 /\ first \in Forms1
      /\ lastSave \in [done : BOOLEAN, sent : BOOLEAN, text : Forms1, touched : BOOLEAN, was : Vals]
      /\ text.open => first = [open |-> TRUE, value |-> TextOf(stored.value), manages |-> stored.manages]
      /\ lastSave.done => stored.value = IF lastSave.sent THEN Payload(f, lastSave.text.value) ELSE lastSave.was
      /\ lastSave.done /\ ~lastSave.touched => lastSave.text.value = TextOf(lastSave.was)
      /\ f.with = "management" =>
           /\ Agrees(stored.value, stored.manages)
           /\ text.open => text.value = <<>> \/ Agrees(text.value, text.manages)

LEMMA FieldsInvInit == FieldsInit => FieldsInv
<1> SUFFICES ASSUME FieldsInit
             PROVE  FieldsInv
  OBVIOUS
<1>1. \A v \in Values : v \in Vals
  <2>1. SUFFICES ASSUME NEW n \in 0..2, NEW r \in BOOLEAN
                 PROVE  <<[n |-> n, rough |-> r]>> \in Vals
    BY DEF Values, Vals
  <2>2. n \in Int
    OBVIOUS
  <2> QED
    BY <2>2, SmoothOf DEF Mark
<1>2. stored \in [value : Vals, manages : BOOLEAN]
  BY <1>1 DEF FieldsInit
<1>3. NoText \in Forms1 /\ ~NoText.open
  BY DEF NoText, Forms1, Vals
<1>4. NoSave \in [done : BOOLEAN, sent : BOOLEAN, text : Forms1, touched : BOOLEAN, was : Vals] /\ ~NoSave.done
  <2>1. <<>> \in Vals
    BY DEF Vals
  <2> QED
    BY <1>3, <2>1 DEF NoSave
<1>5. recordForm.field.with = "management" => Agrees(stored.value, stored.manages)
  <2>1. recordForm \in RecordForms
    BY DEF FieldsInit
  <2>2. recordForm.field.with = "management" => recordForm.field.type = "number"
    BY <2>1, FieldsAreSound DEF IsField
  <2> QED
    BY <2>2 DEF FieldsInit, Agrees
<1> QED
  BY <1>2, <1>3, <1>4, <1>5 DEF FieldsInit, FieldsInv

\* The text of a value is a value, and so is what a text becomes.
LEMMA TextsAreValues ==
  ASSUME FieldsInv, NEW v \in Vals
  PROVE  TextOf(v) \in Vals /\ Payload(recordForm.field, v) \in Vals
<1> DEFINE f == recordForm.field
<1>1. IsField(f) /\ zone \in Int /\ -zone \in Int
  BY FieldsAreSound, FieldsAssumption DEF FieldsInv
<1>2. Of(0) \in Vals /\ <<>> \in Vals
  BY OfIs DEF Vals
<1>3. f.default \in Vals
  BY <1>1, <1>2 DEF IsField
<1>4. Smooth(v) \in Vals
  BY <1>1, ValuesStay
<1>5. Moved(Smooth(v), zone) \in Vals /\ Moved(Smooth(v), -zone) \in Vals
  BY <1>1, <1>4, ValuesStay
<1>6. TextOf(v) \in Vals
  BY <1>3, <1>4, <1>5 DEF TextOf, WebText, MiniText
<1>7. Payload(f, v) \in Vals
  BY <1>2, <1>4, <1>5 DEF Payload
<1> QED
  BY <1>6, <1>7

\* The fields, the form and the row, by step.
LEMMA FieldsInvStep == FieldsInv /\ [FieldsNext]_fieldVars => FieldsInv'
<1> SUFFICES ASSUME FieldsInv, [FieldsNext]_fieldVars
             PROVE  FieldsInv'
  OBVIOUS
<1> DEFINE f == recordForm.field
<1>0. /\ IsField(f) /\ (f.with = "management" => recordForm.sends = "all")
      /\ zone \in Int
  BY FieldsAreSound, FieldsAssumption DEF FieldsInv
<1>b. NoText \in Forms1 /\ ~NoText.open
  BY DEF NoText, Forms1, Vals
<1>c. Agrees(Of(ManagersWork), TRUE) /\ Of(ManagersWork) \in Vals /\ <<>> \in Vals
  BY OfIs DEF Agrees, ManagersWork, Vals
<1>1. CASE OpenRecord
  <2> USE <1>1 DEF OpenRecord
  <2>1. text' = [open |-> TRUE, value |-> TextOf(stored.value), manages |-> stored.manages]
    OBVIOUS
  <2>2. stored.value \in Vals /\ stored.manages \in BOOLEAN
    BY DEF FieldsInv
  <2>3. text' \in Forms1
    BY <2>1, <2>2, TextsAreValues DEF Forms1
  <2>4. f.with = "management" => TextOf(stored.value) = stored.value
    BY <1>0 DEF FieldsInv, Agrees, IsField, TextOf, WebText, MiniText
  <2>5. TextOf(stored.value)' = TextOf(stored.value) /\ TextOf(lastSave.was)' = TextOf(lastSave.was)
    BY DEF TextOf, WebText, MiniText
  <2>6. Payload(f, lastSave.text.value)' = Payload(f, lastSave.text.value)
    BY DEF Payload
  <2> QED
    BY <2>1, <2>3, <2>4, <2>5, <2>6 DEF FieldsInv, Agrees
<1>2. ASSUME NEW x \in Values, EnterText(x)
      PROVE  FieldsInv'
  <2> USE <1>2 DEF EnterText
  <2>1. x \in Vals
    <3>1. SUFFICES ASSUME NEW n \in 0..2, NEW r \in BOOLEAN
                   PROVE  Mark(n, r) \in Vals
      BY DEF Values, Vals, Mark
    <3>2. n \in Int
      OBVIOUS
    <3> QED
      BY <3>2, SmoothOf
  <2>2. text' = [text EXCEPT !.value = x]
    OBVIOUS
  <2>3. text' \in Forms1 /\ text'.value = x /\ text'.manages = text.manages /\ text'.open = text.open
    BY <2>1, <2>2 DEF FieldsInv, Forms1
  <2>4. f.with = "management" => Agrees(x, text.manages)
    BY <1>0 DEF IsField, Offered, Chosen, Agrees
  <2>5. TextOf(stored.value)' = TextOf(stored.value) /\ TextOf(lastSave.was)' = TextOf(lastSave.was)
    BY DEF TextOf, WebText, MiniText
  <2>6. Payload(f, lastSave.text.value)' = Payload(f, lastSave.text.value)
    BY DEF Payload
  <2> QED
    BY <2>3, <2>4, <2>5, <2>6 DEF FieldsInv, Agrees
<1>3. CASE SwitchKind
  <2> USE <1>3 DEF SwitchKind
  <2>1. PICK w : w = IF f.with /= "management" THEN text.value
                     ELSE IF ~text.manages THEN Of(ManagersWork)
                     ELSE IF text.value = Of(ManagersWork) THEN <<>> ELSE text.value
    OBVIOUS
  <2>2. text' = [text EXCEPT !.manages = ~text.manages, !.value = w]
    BY <2>1
  <2>3. text.value \in Vals /\ text.manages \in BOOLEAN
    BY DEF FieldsInv, Forms1
  <2>4. w \in Vals
    BY <1>c, <2>1, <2>3
  <2>5. text' \in Forms1 /\ text'.value = w /\ text'.manages = ~text.manages /\ text'.open = text.open
    BY <2>2, <2>4 DEF FieldsInv, Forms1
  <2>6. f.with = "management" => w = <<>> \/ Agrees(w, ~text.manages)
    <3>1. CASE ~text.manages
      BY <1>c, <2>1, <3>1
    <3>2. CASE text.manages /\ Agrees(text.value, text.manages)
      <4>1. PICK n \in Int, r \in BOOLEAN : text.value = Mark(n, r)
        BY <2>3, <3>2, ValueIs DEF Agrees
      <4>2. /\ Mark(n, r)[1].n = n /\ Smooth(Mark(n, r)) = Mark(n, FALSE)
        BY SmoothOf
      <4>4. n = 1 /\ text.value = Mark(n, FALSE)
        BY <3>2, <4>1, <4>2 DEF Agrees, ManagersWork
      <4>3. text.value = Of(ManagersWork)
        BY <4>4 DEF Of, Mark, ManagersWork
      <4> QED
        BY <2>1, <3>2, <4>3
    <3>3. CASE text.value = <<>>
      BY <1>c, <2>1, <3>3 DEF Agrees
    <3> QED
      BY <3>1, <3>2, <3>3 DEF FieldsInv
  <2>7. TextOf(stored.value)' = TextOf(stored.value) /\ TextOf(lastSave.was)' = TextOf(lastSave.was)
    BY DEF TextOf, WebText, MiniText
  <2>8. Payload(f, lastSave.text.value)' = Payload(f, lastSave.text.value)
    BY DEF Payload
  <2> QED
    BY <2>5, <2>6, <2>7, <2>8 DEF FieldsInv, Agrees
<1>4. CASE AddFile
  <2> USE <1>4 DEF AddFile
  <2>1. PICK w : w = IF text.value = <<>> THEN Of(1) ELSE Listable(Moved(text.value, 1))
    OBVIOUS
  <2>2. text' = [text EXCEPT !.value = w]
    BY <2>1
  <2>3. text.value \in Vals
    BY DEF FieldsInv, Forms1
  <2>4. w \in Vals
    <3>1. Of(1) \in Vals
      BY <1>c DEF ManagersWork
    <3>2. \A v \in Vals, by \in Int : Moved(v, by) \in Vals
      BY ValuesStay
    <3>5. \A v \in Vals : Smooth(v) \in Vals
      <4>1. 0 \in Int
        OBVIOUS
      <4> QED
        BY <4>1, ValuesStay
    <3>3. Moved(text.value, 1) \in Vals
      BY <2>3, <3>2
    <3>4. Listable(Moved(text.value, 1)) \in Vals
      BY <3>5, <3>3 DEF Listable
    <3> QED
      BY <2>1, <3>1, <3>4
  <2>5. text' \in Forms1 /\ text'.value = w /\ text'.manages = text.manages /\ text'.open = text.open
    BY <2>2, <2>4 DEF FieldsInv, Forms1
  <2>6. f.with # "management"
    BY <1>0 DEF IsField
  <2>7. TextOf(stored.value)' = TextOf(stored.value) /\ TextOf(lastSave.was)' = TextOf(lastSave.was)
    BY DEF TextOf, WebText, MiniText
  <2>8. Payload(f, lastSave.text.value)' = Payload(f, lastSave.text.value)
    BY DEF Payload
  <2> QED
    BY <2>5, <2>6, <2>7, <2>8 DEF FieldsInv, Agrees
<1>5. CASE SaveRecord
  <2> USE <1>5 DEF SaveRecord
  <2>1. PICK w, posted, touched :
          /\ w = (IF posted THEN Payload(f, text.value) ELSE stored.value)
          /\ posted = Sent(f, text) /\ touched = (text /= first)
    OBVIOUS
  <2>2. stored' = [value |-> w, manages |-> text.manages]
    BY <2>1
  <2>3. lastSave' = [done |-> TRUE, sent |-> posted, text |-> text, touched |-> touched, was |-> stored.value]
    BY <2>1
  <2>4. text.value \in Vals /\ text.manages \in BOOLEAN /\ stored.value \in Vals /\ posted \in BOOLEAN /\ touched \in BOOLEAN
    BY <2>1 DEF FieldsInv, Forms1, Sent
  <2>5. w \in Vals
    BY <2>1, <2>4, TextsAreValues
  <2>6. stored' \in [value : Vals, manages : BOOLEAN]
    BY <2>2, <2>4, <2>5
  <2>7. lastSave' \in [done : BOOLEAN, sent : BOOLEAN, text : Forms1, touched : BOOLEAN, was : Vals]
    BY <2>3, <2>4 DEF FieldsInv
  <2>9. stored'.value = IF lastSave'.sent THEN Payload(f, lastSave'.text.value) ELSE lastSave'.was
    BY <2>1, <2>2, <2>3
  <2>10. ~lastSave'.touched => lastSave'.text.value = TextOf(lastSave'.was)
    <3>1. text = first => text.value = TextOf(stored.value)
      BY DEF FieldsInv
    <3>2. lastSave'.touched = touched /\ lastSave'.text = text /\ lastSave'.was = stored.value
      BY <2>3
    <3>3. ~touched => text = first
      BY <2>1
    <3> QED
      BY <3>1, <3>2, <3>3
  <2>11. f.with = "management" => Agrees(w, text.manages)
    <3> SUFFICES ASSUME f.with = "management"
                 PROVE  Agrees(w, text.manages)
      OBVIOUS
    <3>1. text.value # <<>> /\ Agrees(text.value, text.manages)
      BY <1>0 DEF FieldsInv, IsField, Refused, Visible
    <3>2. posted
      BY <1>0, <2>1 DEF Sent, Visible
    <3>3. w = Smooth(text.value)
      BY <1>0, <2>1, <3>2 DEF Payload, IsField
    <3> QED
      BY <3>1, <3>3 DEF Agrees
  <2>13. recordForm' = recordForm /\ zone' = zone /\ text' = NoText /\ first' = NoText
    OBVIOUS
  <2>14. Payload(f, lastSave.text.value)' = Payload(f, lastSave'.text.value)
    BY <2>13 DEF Payload
  <2>15. TextOf(lastSave.was)' = TextOf(lastSave'.was)
    BY <2>13 DEF TextOf, WebText, MiniText
  <2> QED
    BY <1>b, <2>2, <2>6, <2>7, <2>9, <2>10, <2>11, <2>13, <2>14, <2>15 DEF FieldsInv
<1>6. CASE DropForm
  <2> USE <1>6 DEF DropForm
  <2>1. TextOf(stored.value)' = TextOf(stored.value) /\ TextOf(lastSave.was)' = TextOf(lastSave.was)
    BY DEF TextOf, WebText, MiniText
  <2>2. Payload(f, lastSave.text.value)' = Payload(f, lastSave.text.value)
    BY DEF Payload
  <2> QED
    BY <1>b, <2>1, <2>2 DEF FieldsInv
<1>7. CASE UNCHANGED fieldVars
  <2>1. TextOf(stored.value)' = TextOf(stored.value) /\ TextOf(lastSave.was)' = TextOf(lastSave.was)
    BY <1>7 DEF TextOf, WebText, MiniText, fieldVars
  <2>2. Payload(f, lastSave.text.value)' = Payload(f, lastSave.text.value)
    BY <1>7 DEF Payload, fieldVars
  <2> QED
    BY <1>7, <2>1, <2>2 DEF FieldsInv, fieldVars
<1> QED
  BY <1>1, <1>2, <1>3, <1>4, <1>5, <1>6, <1>7 DEF FieldsNext

\* What is saved untouched, and what is shown of what was saved, but for times
\* in the console of a user who is not in Greenwich.
LEMMA TextAndBack ==
  ASSUME FieldsInv, NEW v \in Vals,
         ~(recordForm.client = "web" /\ recordForm.field.type = "datetime" /\ zone # 0)
  PROVE  LET f == recordForm.field
             tidy(x) == IF f.type = "json" THEN x ELSE Smooth(x)
             full == IF v = <<>> THEN f.default ELSE v
         IN  /\ tidy(Payload(f, TextOf(v))) = tidy(full)
             /\ tidy(TextOf(Payload(f, v))) = tidy(full)
<1> DEFINE f == recordForm.field
           tidy(x) == IF f.type = "json" THEN x ELSE Smooth(x)
           full == IF v = <<>> THEN f.default ELSE v
<1>1. IsField(f) /\ zone \in Int /\ recordForm.client \in {"web", "mini"}
  <2>1. recordForm \in RecordForms /\ zone \in Int
    BY FieldsAssumption DEF FieldsInv
  <2> QED
    BY <2>1, FieldsAreSound DEF RecordForms
<1>2. Of(0) \in Vals /\ Of(0) # <<>> /\ Smooth(Of(0)) = Of(0) /\ Smooth(<<>>) = <<>>
      /\ \A k \in Int : Moved(<<>>, k) = <<>>
  BY OfIs DEF Smooth, Moved
<1>3. /\ Smooth(Smooth(v)) = Smooth(v) /\ (Smooth(v) = <<>> <=> v = <<>>)
      /\ Moved(Smooth(Moved(Smooth(v), zone)), -zone) = Smooth(v)
      /\ Moved(Smooth(Moved(Smooth(v), -zone)), zone) = Smooth(v)
      /\ Smooth(Smooth(v)) = Smooth(v)
  BY <1>1, ThereAndBack, ValuesStay
<1>4. CASE f.type = "datetime"
  <2>1. f.default = <<>>
    BY <1>1, <1>4 DEF IsField
  <2>2. tidy(full) = Smooth(v)
    BY <1>2, <1>4, <2>1
  <2>3. /\ -zone \in Int
        /\ Moved(Smooth(v), -zone) \in Vals /\ Smooth(v) \in Vals
        /\ (Moved(Smooth(v), -zone) = <<>> <=> v = <<>>)
        /\ Smooth(Moved(Smooth(v), -zone)) \in Vals
    <3>1. -zone \in Int
      BY <1>1
    <3> QED
      BY <3>1, ValuesStay
  <2>4. recordForm.client = "web" => zone = 0 /\ Moved(Smooth(v), zone) = Smooth(v) /\ Moved(Smooth(v), -zone) = Smooth(v)
    BY <1>1, <1>4, <2>3, ThereAndBack
  <2>5. CASE v = <<>>
    <3>1. TextOf(v) = <<>> /\ Payload(f, v) = <<>>
      BY <1>1, <1>2, <1>4, <2>1, <2>3, <2>5 DEF TextOf, WebText, MiniText, Payload
    <3> QED
      BY <1>4, <2>1, <2>5, <3>1
  <2>6. CASE v # <<>>
    <3>1. Payload(f, v) = Moved(Smooth(v), -zone)
      BY <1>4 DEF Payload
    <3>2. CASE recordForm.client = "web"
      <4>1. TextOf(v) = Smooth(v) /\ Payload(f, v) = Smooth(v)
        BY <1>4, <2>4, <2>6, <3>1, <3>2 DEF TextOf, WebText
      <4>2. Payload(f, Smooth(v)) = Smooth(v)
        BY <1>3, <1>4, <2>4, <3>2 DEF Payload
      <4>3. TextOf(Smooth(v)) = Smooth(v)
        BY <1>3, <1>4, <2>6, <3>2 DEF TextOf, WebText
      <4> QED
        BY <1>3, <1>4, <2>2, <4>1, <4>2, <4>3
    <3>3. CASE recordForm.client = "mini"
      <4>1. TextOf(v) = Moved(Smooth(v), zone)
        BY <1>4, <2>6, <3>3 DEF TextOf, MiniText
      <4>2. Payload(f, TextOf(v)) = Smooth(v)
        BY <1>3, <1>4, <4>1 DEF Payload
      <4>3. TextOf(Payload(f, v)) = Smooth(v)
        BY <1>3, <1>4, <2>3, <2>6, <3>1, <3>3 DEF TextOf, MiniText
      <4> QED
        BY <1>3, <1>4, <2>2, <4>2, <4>3
    <3> QED
      BY <1>1, <3>2, <3>3
  <2> QED
    BY <2>5, <2>6
<1>5. CASE f.type # "datetime"
  <2>1. \A x : TextOf(x) = IF x = <<>> THEN f.default ELSE x
    BY <1>5 DEF TextOf, WebText, MiniText
  <2>2. \A x : Payload(f, x) = IF f.type = "boolean" /\ recordForm.client = "web" /\ x = <<>> THEN Of(0)
                               ELSE IF f.type = "json" THEN x ELSE Smooth(x)
    BY <1>5 DEF Payload
  <2>3. /\ f.default = <<>> \/ f.default = Of(0)
        /\ f.type = "boolean" => f.default = Of(0)
    BY <1>1 DEF IsField
  <2>4. TextOf(v) = full
    BY <2>1
  <2>5. Smooth(Smooth(full)) = Smooth(full)
    BY <1>2, <1>3, <2>3
  <2>6. tidy(Payload(f, TextOf(v))) = tidy(full)
    BY <1>2, <2>2, <2>3, <2>4, <2>5
  <2>7. tidy(TextOf(Payload(f, v))) = tidy(full)
    BY <1>2, <1>3, <2>1, <2>2, <2>3
  <2> QED
    BY <2>6, <2>7
<1> QED
  BY <1>4, <1>5

\* The forms that are opened are counted up to their bound.
LEMMA EditsInit == FieldsInit => edits \in 0..MaxEdits
<1>1. FieldsInit => edits = 0
  BY Zenon DEF FieldsInit
<1> QED
  BY <1>1, FieldsAssumption

LEMMA EditsStep == edits \in 0..MaxEdits /\ [FieldsNext]_fieldVars => edits' \in 0..MaxEdits
<1> SUFFICES ASSUME edits \in 0..MaxEdits, [FieldsNext]_fieldVars
             PROVE  edits' \in 0..MaxEdits
  OBVIOUS
<1>1. edits' = edits \/ (edits < MaxEdits /\ edits' = edits + 1)
  BY DEF FieldsNext, OpenRecord, Edit, EnterText, SwitchKind, AddFile, SaveRecord, DropForm, fieldVars
<1> QED
  BY ONLY <1>1, edits \in 0..MaxEdits, FieldsAssumption

LEMMA FieldsAreTyped == FieldsInv /\ edits \in 0..MaxEdits => FieldsTypeOK
<1> SUFFICES ASSUME FieldsInv
             PROVE  edits \in 0..MaxEdits => FieldsTypeOK
  OBVIOUS
<1>1. Vals \subseteq Times
  <2>1. /\ <<>> \in Seq([n : Int, rough : BOOLEAN]) /\ Len(<<>>) <= 1
        /\ \A m \in [n : Int, rough : BOOLEAN] :
             <<m>> \in Seq([n : Int, rough : BOOLEAN]) /\ Len(<<m>>) <= 1
    OBVIOUS
  <2> QED
    BY <2>1 DEF Vals, Marked1, Marks, Times
<1>2. Forms1 \subseteq Texts
  BY <1>1 DEF Forms1, Texts
<1>3. lastSave.text \in Forms1 /\ lastSave.was \in Vals /\ stored.value \in Vals
  BY DEF FieldsInv
<1> QED
  BY <1>1, <1>2, <1>3 DEF FieldsInv, FieldsTypeOK

LEMMA FieldsInvSuffices == FieldsInv => FieldsStay /\ ManagementAgrees
<1> SUFFICES ASSUME FieldsInv
             PROVE  FieldsStay /\ ManagementAgrees
  OBVIOUS
<1>1. ManagementAgrees
  BY DEF FieldsInv, Agrees, ManagementAgrees
<1>2. FieldsStay
  <2> DEFINE f == recordForm.field
             shifts == recordForm.client = "web" /\ f.type = "datetime" /\ zone /= 0
             tidy(v) == IF f.type = "json" THEN v ELSE Smooth(v)
             filled(v) == IF v = <<>> /\ lastSave.sent THEN f.default ELSE v
  <2> SUFFICES ASSUME lastSave.done, ~shifts
               PROVE  /\ ~lastSave.touched => tidy(stored.value) = tidy(filled(lastSave.was))
                      /\ text.open /\ text = first /\ lastSave.sent =>
                           tidy(text.value) =
                             tidy(IF lastSave.text.value = <<>> THEN f.default ELSE lastSave.text.value)
    BY DEF FieldsStay
  <2>1. lastSave.was \in Vals /\ lastSave.text.value \in Vals
    BY DEF FieldsInv, Forms1
  <2>2. ASSUME ~lastSave.touched
        PROVE  tidy(stored.value) = tidy(filled(lastSave.was))
    <3>1. CASE lastSave.sent
      <4>1. stored.value = Payload(f, TextOf(lastSave.was))
        BY <2>2, <3>1 DEF FieldsInv
      <4>2. tidy(Payload(f, TextOf(lastSave.was)))
              = tidy(IF lastSave.was = <<>> THEN f.default ELSE lastSave.was)
        BY <2>1, TextAndBack
      <4> QED
        BY <3>1, <4>1, <4>2
    <3>2. CASE ~lastSave.sent
      BY <3>2 DEF FieldsInv
    <3> QED
      BY <3>1, <3>2
  <2>3. ASSUME text.open, text = first, lastSave.sent
        PROVE  tidy(text.value) = tidy(IF lastSave.text.value = <<>> THEN f.default ELSE lastSave.text.value)
    <3>1. text.value = TextOf(stored.value)
      BY <2>3 DEF FieldsInv
    <3>2. stored.value = Payload(f, lastSave.text.value)
      BY <2>3 DEF FieldsInv
    <3>3. tidy(TextOf(Payload(f, lastSave.text.value)))
            = tidy(IF lastSave.text.value = <<>> THEN f.default ELSE lastSave.text.value)
      BY <2>1, TextAndBack
    <3> QED
      BY <3>1, <3>2, <3>3
  <2> QED
    BY <2>2, <2>3
<1> QED
  BY <1>1, <1>2

-----------------------------------------------------------------------------
(***************************************************************************)
(* The lists of the console, for any kind of list there is, any rows and   *)
(* filters, and any number of answers of any age.                          *)
(***************************************************************************)

IsKind(k) ==
  /\ k.paging \in {"server", "here", "none"} /\ k.clamps \in {"no", "first", "last"}
  /\ k.paging = "here" <=> k.clamps = "first"
  /\ k.paging = "here" => k.resets = "at once"
  /\ k.clamps = "last" => k.paging = "server"
  /\ k.keeps => k.waits = "every"
  /\ k.waits \in {"no", "first", "every"}

LEMMA KindsAreSound == \A k \in ListKinds : IsKind(k)
<1>1. \A r : /\ IsKind(ListOf(CustomersQuery, CustomersFilters, CustomersTable, r))
             /\ IsKind(ListOf(EnterpriseProjectsQuery, EnterpriseProjectsFilters, EnterpriseProjectsTable, r))
             /\ IsKind(ListOf(EntitiesQuery, EntitiesFilters, EntitiesTable, r))
             /\ IsKind(ListOf(RecordsQuery, RecordsFilters, RecordsTable, r))
  BY DEF IsKind, ListOf, CustomersQuery, CustomersFilters, CustomersTable, EnterpriseProjectsQuery,
         EnterpriseProjectsFilters, EnterpriseProjectsTable, EntitiesQuery, EntitiesFilters,
         EntitiesTable, RecordsQuery, RecordsFilters, RecordsTable
<1>2. \A r : /\ IsKind(ListOf(TemplatesQuery, TemplatesFilters, TemplatesTable, r))
             /\ IsKind(ListOf(PlatformsQuery, PlatformFilters, PlatformsTable, r))
             /\ IsKind(ListOf(PlatformLogsQuery, PlatformLogsFilters, PlatformLogsTable, r))
             /\ IsKind(ListOf(BindingsQuery, BindingsFilters, BindingsTable, r))
  BY DEF IsKind, ListOf, TemplatesQuery, TemplatesFilters, TemplatesTable, PlatformsQuery,
         PlatformFilters, PlatformsTable, PlatformLogsQuery, PlatformLogsFilters, PlatformLogsTable,
         BindingsQuery, BindingsFilters, BindingsTable
<1>3. \A r : /\ IsKind(ListOf(ReportsQuery, ReportsFilters, ReportsTable, r))
             /\ IsKind(ListOf(AlertsQuery, AlertsFilters, AlertsTable, r))
             /\ IsKind(ListOf(AlertsQuery, AlertsFilters, AlertLogsTable, r))
             /\ IsKind(ListOf(ProjectsQuery, ProjectsFilters, ProjectsTable, r))
  BY DEF IsKind, ListOf, ReportsQuery, ReportsFilters, ReportsTable, AlertsQuery, AlertsFilters,
         AlertsTable, AlertLogsTable, ProjectsQuery, ProjectsFilters, ProjectsTable
<1>4. \A r : /\ IsKind(ListOf(PersonsQuery, PersonsFilters, PersonsTable, r))
             /\ IsKind(ListOf(SupplementalQuery, SupplementalFilters, SupplementalTable, r))
             /\ IsKind(ListOf(ManagedQuery, ManagedFilters, ManagedTable, r))
             /\ IsKind(ListOf(ReportingQuery, ConfigPanelFilters, ReportingConfigsTable, r))
  BY DEF IsKind, ListOf, PersonsQuery, PersonsFilters, PersonsTable, SupplementalQuery,
         SupplementalFilters, SupplementalTable, ManagedQuery, ManagedFilters, ManagedTable,
         ReportingQuery, ConfigPanelFilters, ReportingConfigsFilters, ReportingConfigsTable,
         ResultPagination
<1>5. \A r : /\ IsKind(ListOf(ReportingQuery, RunsPanelFilters, ReportingRunsTable, r))
             /\ IsKind(ListOf(ReportingQuery, ReportingDataFilters, ReportingDataTable, r))
             /\ IsKind(ListOf(ResourcesQuery, UnitsFilters, UnitsTable, r))
             /\ IsKind(ListOf(ResourcesQuery, TeamsFilters, TeamsTable, r))
  BY DEF IsKind, ListOf, ReportingQuery, RunsPanelFilters, ReportingRunsFilters, ReportingRunsTable,
         ResultPagination, ReportingDataFilters, ReportingDataTable, ResourcesQuery, UnitsFilters,
         ResourcesFilters, UnitsTable, PagedTable, TeamsFilters, TeamsTable
<1>6. \A r : /\ IsKind(ListOf(ResourcesQuery, WorkersFilters, WorkersTable, r))
             /\ IsKind(ListOf(ResourcesQuery, AttendanceFilters, AttendanceTable, r))
             /\ IsKind(ListOf(ResourcesQuery, WageFiltersBar, WagesTable, r))
             /\ IsKind(ListOf(PersonAttendanceQuery, PersonAttendanceFilters, PersonAttendanceTable, r))
  BY DEF IsKind, ListOf, ResourcesQuery, WorkersFilters, ResourcesFilters, WorkersTable, PagedTable,
         AttendanceFilters, AttendanceTable, WageFiltersBar, WagesFilters, WagesTable,
         PersonAttendanceQuery, PersonAttendanceFilters, PersonAttendanceTable
<1>7. \A r : /\ IsKind(ListOf(MachinesQuery, NoFilters, MachinesTable, r))
             /\ IsKind(ListOf(AreasQuery, NoFilters, AreasTable, r))
             /\ IsKind(ListOf(UsersQuery, UsersFilters, UsersTable, r))
             /\ IsKind(ListOf(ApiKeysQuery, ApiKeysFilters, ApiKeysTable, r))
  BY DEF IsKind, ListOf, MachinesQuery, NoFilters, MachinesTable, AreasQuery, AreasTable,
         UsersQuery, UsersFilters, UsersTable, ApiKeysQuery, ApiKeysFilters, ApiKeysTable
<1>8. \A r : /\ IsKind(ListOf(UploadsQuery, UploadsFilters, UploadsTable, r))
             /\ IsKind(ListOf(WarningsQuery, WarningsFilters, WarningsTable, r))
             /\ IsKind(ListOf(LeadsQuery, NoFilters, LeadsTable, r))
             /\ IsKind(ListOf(RecognitionsQuery, RecognitionsFilters, RecognitionsTable, r))
  BY DEF IsKind, ListOf, UploadsQuery, UploadsFilters, UploadsTable, WarningsQuery, WarningsFilters,
         WarningsTable, LeadsQuery, NoFilters, LeadsTable, RecognitionsQuery, RecognitionsFilters,
         RecognitionsTable
<1>9. \A r : /\ IsKind(ListOf(LibrariesQuery, LibrariesFilters, LibrariesTable, r))
             /\ IsKind(ListOf(CustomerProjectsQuery, NoFilters, CustomerProjectsTable, r))
             /\ IsKind(ListOf(FindCustomerQuery, FindCustomerFilters, FindCustomerTable, r))
             /\ IsKind(ListOf(FindProjectQuery, FindProjectFilters, FindProjectTable, r))
  BY DEF IsKind, ListOf, LibrariesQuery, LibrariesFilters, LibrariesTable, CustomerProjectsQuery,
         NoFilters, CustomerProjectsTable, FindCustomerQuery, FindCustomerFilters,
         FindCustomerTable, FindProjectQuery, FindProjectFilters, FindProjectTable
<1>10. \A r : /\ IsKind(ListOf(FindEntityQuery, FindEntityFilters, FindEntityTable, r))
  BY DEF IsKind, ListOf, FindEntityQuery, FindEntityFilters, FindEntityTable
<1> QED
  BY <1>1, <1>2, <1>3, <1>4, <1>5, <1>6, <1>7, <1>8, <1>9, <1>10 DEF ListKinds

-----------------------------------------------------------------------------
\* Each of N pages is one to rest on, or turns to an earlier one; f is where that ends.
TurnsBack(N, rest, to) ==
  /\ N \in Nat /\ rest \in [1..N -> BOOLEAN] /\ to \in [1..N -> 1..N]
  /\ \A p \in 1..N : ~rest[p] => to[p] < p
Follows(f, N, rest, to) == \A p \in 1..N : f[p] = IF rest[p] THEN p ELSE f[to[p]]

\* A page where turning back comes to rest is one to rest on.
LEMMA TurningBackRests ==
  ASSUME NEW N, NEW rest, NEW to, TurnsBack(N, rest, to), NEW f, Follows(f, N, rest, to)
  PROVE  \A p \in 1..N : f[p] \in 1..N /\ rest[f[p]]
<1> USE DEF TurnsBack, Follows
<1> DEFINE astray == {p \in 1..N : ~ (f[p] \in 1..N /\ rest[f[p]])}
<1> SUFFICES ASSUME astray # {} PROVE FALSE
  OBVIOUS
<1>1. astray \subseteq Nat
  OBVIOUS
<1> HIDE DEF astray
<1>2. PICK p \in astray : \A q \in astray : p <= q
  BY <1>1, SmallestNumber
<1>3. p \in 1..N /\ ~ (f[p] \in 1..N /\ rest[f[p]])
  BY <1>2 DEF astray
<1>4. f[p] = IF rest[p] THEN p ELSE f[to[p]]
  BY <1>3
<1>5. ~rest[p] /\ to[p] \in 1..N /\ to[p] < p
  BY <1>3, <1>4
<1>6. to[p] \notin astray
  BY <1>2, <1>3, <1>5
<1> QED
  BY <1>3, <1>4, <1>5, <1>6 DEF astray
(* Turning back ends: a page that is not there turns to an earlier one, so *)
(* that for every page there is one where it comes to rest.                *)
LEMMA TurningBackEnds ==
  ASSUME NEW N, NEW rest, NEW to, TurnsBack(N, rest, to)
  PROVE  \E f : f \in [1..N -> 1..N] /\ Follows(f, N, rest, to)
<1>6. /\ N \in Nat /\ rest \in [1..N -> BOOLEAN] /\ to \in [1..N -> 1..N]
      /\ \A p \in 1..N : ~rest[p] => to[p] < p
  BY DEF TurnsBack
<1> USE <1>6
<1> DEFINE Turns(f, n) == \A p \in 1..n : f[p] = IF rest[p] THEN p ELSE f[to[p]]
<1> DEFINE short == {n \in 0..N : ~ \E f : Turns(f, n)}
<1>1. short = {}
  <2> SUFFICES ASSUME short # {} PROVE FALSE
    OBVIOUS
  <2> HIDE DEF Turns
  <2>1. short \subseteq Nat
    OBVIOUS
  <2>2. PICK n \in short : \A m \in short : n <= m
    BY <2>1, SmallestNumber
  <2>3. n \in 0..N /\ ~ \E f : Turns(f, n)
    BY <2>2
  <2>4. n # 0
    <3>1. \A f : Turns(f, 0)
      BY DEF Turns
    <3> QED
      BY <2>3, <3>1
  <2>5. n - 1 \in 0..N /\ n - 1 \notin short /\ n \in 1..N
    <3>1. n - 1 \in 0..N /\ n \in 1..N
      BY <2>3, <2>4
    <3> HIDE DEF short
    <3>2. ~ n <= n - 1
      BY <3>1
    <3> QED
      BY <2>2, <3>1, <3>2
  <2>6. PICK f : Turns(f, n - 1)
    BY <2>5
  <2> DEFINE g == [p \in 1..N |-> IF p = n THEN IF rest[n] THEN n ELSE f[to[n]] ELSE f[p]]
  <2>7. \A p \in 1..(n - 1) : p \in 1..N /\ g[p] = f[p]
    BY <2>5
  <2>8. g[n] = IF rest[n] THEN n ELSE f[to[n]]
    BY <2>5
  <2> HIDE DEF g
  <2>9. ASSUME NEW p \in 1..n
        PROVE  g[p] = IF rest[p] THEN p ELSE g[to[p]]
    <3>1. p \in 1..N /\ to[p] \in 1..N /\ (~rest[p] => to[p] \in 1..(n - 1))
      <4>1. p \in 1..N
        BY <2>5
      <4>2. to[p] \in 1..N
        BY <4>1
      <4>3. ~rest[p] => to[p] < p
        BY <4>1
      <4> QED
        BY <2>5, <4>1, <4>2, <4>3
    <3>2. ~rest[p] => g[to[p]] = f[to[p]]
      BY <2>7, <3>1
    <3>3. CASE p = n
      BY <2>8, <3>1, <3>2, <3>3
    <3>4. CASE p # n
      <4>1. p \in 1..(n - 1)
        BY <2>5, <3>4
      <4>2. f[p] = (IF rest[p] THEN p ELSE f[to[p]]) /\ g[p] = f[p]
        BY <2>6, <2>7, <4>1 DEF Turns
      <4> QED
        BY <3>2, <4>2
    <3> QED
      BY <3>3, <3>4
  <2>10. Turns(g, n)
    BY <2>9 DEF Turns
  <2> QED
    BY <2>3, <2>10
<1>2. PICK f : Turns(f, N)
  <2> HIDE DEF Turns
  <2>1. N \in 0..N /\ ~ (N \in short)
    <3>1. N \in 0..N
      OBVIOUS
    <3> HIDE DEF short
    <3> QED
      BY <1>1, <3>1
  <2> QED
    BY <2>1
<1> DEFINE g == [p \in 1..N |-> f[p]]
<1>3. \A p \in 1..N : g[p] = IF rest[p] THEN p ELSE g[to[p]]
  BY <1>2
<1>4. Follows(g, N, rest, to)
  BY <1>3 DEF Follows
<1>5. \A p \in 1..N : g[p] \in 1..N
  BY <1>4, TurningBackRests
<1>7. g \in [1..N -> 1..N]
  BY <1>5 DEF g
<1> QED
  BY <1>4, <1>7
-----------------------------------------------------------------------------
PageNumbers == 1..Cardinality(ListRows)
Turned(v, p) == [v EXCEPT !.page = p]

\* A view that a page of the console may show has rows, or its list has none.
Rests(v, was) == v.page <= PageCount(was) \/ (listed.paging = "server" /\ was.total = 0)

\* The answer that a view shows while it is asked for.
Standing(v, was) == ShownAt(v, was, {Key(v)})

\* Its own parts of a view.
LEMMA ViewsTurn ==
  ASSUME NEW v \in Views, NEW p \in PageNumbers
  PROVE  Turned(v, p) \in Views /\ Turned(v, p).page = p /\ Turned(v, p).filter = v.filter
BY DEF Views, PageNumbers, Turned

\* How many pages, and views, there are.
LEMMA KeysAreViews ==
  ASSUME ListingTypeOK
  PROVE  /\ Cardinality(ListRows) \in Nat /\ 1 \in PageNumbers
         /\ \A v \in Views : Key(v) \in Views /\ v.page \in PageNumbers /\ v.filter \in ListFilters
         /\ \A v \in Views : Key(v) = IF listed.paging = "server" THEN v ELSE Turned(v, 1)
<1>1. Cardinality(ListRows) \in Nat
  BY ListingAssumption, FS_CardinalityType
<1>2. \A v \in Views : v.page \in PageNumbers /\ v.filter \in ListFilters
  BY DEF Views, PageNumbers
<1>3. view \in Views
  BY DEF ListingTypeOK
<1>4. 1 \in PageNumbers
  BY <1>1, <1>2, <1>3 DEF PageNumbers
<1>5. \A v \in Views : Key(v) = IF listed.paging = "server" THEN v ELSE Turned(v, 1)
  BY DEF Key, Turned
<1> QED
  BY <1>1, <1>2, <1>4, <1>5, ViewsTurn

\* What an answer is.
LEMMA AnswersAreRecords ==
  ASSUME ListingTypeOK, NEW a \in Answers
  PROVE  /\ a.has \in BOOLEAN /\ a.due \in BOOLEAN /\ a.rows \in Seq(ListRows)
         /\ a.total \in Nat /\ a.total <= Cardinality(ListRows)
         /\ PageCount(a) \in PageNumbers /\ (a.total > 0 => PageCount(a) = a.total)
<1>1. Cardinality(ListRows) \in Nat /\ 1 \in PageNumbers
  BY KeysAreViews
<1>2. /\ a.has \in BOOLEAN /\ a.due \in BOOLEAN /\ a.rows \in Seq(ListRows)
      /\ a.total \in 0..Cardinality(ListRows)
  BY DEF Answers
<1> QED
  BY <1>1, <1>2 DEF PageCount, PageNumbers

(* A page that turns back by itself ends on one that its answer, where it  *)
(* has come, has rows for; the others stay.                                *)
LEMMA SettledRests ==
  ASSUME ListingTypeOK, NEW v \in Views, NEW was \in [Views -> Answers]
  PROVE  /\ Settled(v, was) \in Views /\ Settled(v, was).filter = v.filter
         /\ listed.clamps # "last" => Settled(v, was) = v
         /\ listed.clamps = "last" =>
              LET w == Settled(v, was) IN was[Key(w)].has => Rests(w, was[Key(w)])
<1>1. /\ Cardinality(ListRows) \in Nat /\ v.page \in PageNumbers
      /\ \A x \in Views : Key(x) \in Views
  BY KeysAreViews
<1>2. CASE listed.clamps # "last"
  BY <1>2 DEF Settled
<1>3. CASE listed.clamps = "last"
  <2>1. ASSUME NEW p \in PageNumbers
        PROVE  /\ Turned(v, p) \in Views /\ Turned(v, p).page = p /\ Turned(v, p).filter = v.filter
               /\ Standing(Turned(v, p), was) \in Answers
               /\ PageCount(Standing(Turned(v, p), was)) \in PageNumbers
    <3>1. /\ Turned(v, p) \in Views /\ Turned(v, p).page = p /\ Turned(v, p).filter = v.filter
      BY ViewsTurn
    <3>2. Standing(Turned(v, p), was) \in Answers
      <4>1. before \in Views
        BY DEF ListingTypeOK
      <4> QED
        BY <1>1, <3>1, <4>1 DEF Standing, ShownAt
    <3> QED
      BY <3>1, <3>2, AnswersAreRecords
  <2> DEFINE rest == [p \in PageNumbers |-> Rests(Turned(v, p), Standing(Turned(v, p), was))]
  <2> DEFINE to == [p \in PageNumbers |-> PageCount(Standing(Turned(v, p), was))]
  <2>2. rest \in [PageNumbers -> BOOLEAN] /\ to \in [PageNumbers -> PageNumbers]
    BY <2>1 DEF Rests
  <2>3. \A p \in PageNumbers : /\ rest[p] = Rests(Turned(v, p), Standing(Turned(v, p), was))
                         /\ to[p] = PageCount(Standing(Turned(v, p), was))
    OBVIOUS
  <2> HIDE DEF rest, to
  <2>4. \A p \in PageNumbers : ~rest[p] => to[p] < p
    <3> SUFFICES ASSUME NEW p \in PageNumbers, ~rest[p] PROVE to[p] < p
      OBVIOUS
    <3>1. to[p] \in PageNumbers
      BY <2>2
    <3>2. ~ p <= to[p]
      BY <2>1, <2>3 DEF Rests
    <3> QED
      BY <1>1, <3>1, <3>2 DEF PageNumbers
  <2>13. PICK N \in Nat : N = Cardinality(ListRows) /\ PageNumbers = 1..N
    BY <1>1 DEF PageNumbers
  <2>14. TurnsBack(N, rest, to)
    BY <2>2, <2>4, <2>13 DEF TurnsBack
  <2>5. PICK f : f = [p \in PageNumbers |-> IF rest[p] THEN p ELSE f[to[p]]]
    <3>1. PICK f : f \in [1..N -> 1..N] /\ Follows(f, N, rest, to)
      BY <2>14, TurningBackEnds
    <3>2. f = [p \in 1..N |-> IF rest[p] THEN p ELSE f[to[p]]]
      BY <3>1 DEF Follows
    <3> QED
      BY <2>13, <3>2
  <2> DEFINE Settles(g) ==
        g = [p \in 1..Cardinality(ListRows) |->
               LET a == ShownAt([v EXCEPT !.page = p], was, {Key([v EXCEPT !.page = p])})
               IN  IF p <= PageCount(a) \/ (listed.paging = "server" /\ a.total = 0) THEN p ELSE g[PageCount(a)]]
  <2>6. \A g : Settles(g) <=> g = [p \in PageNumbers |-> IF rest[p] THEN p ELSE g[to[p]]]
    <3>1. \A g : [p \in PageNumbers |-> IF rest[p] THEN p ELSE g[to[p]]] =
                 [p \in PageNumbers |-> LET a == Standing(Turned(v, p), was)
                                  IN  IF Turned(v, p).page <= PageCount(a) \/ (listed.paging = "server" /\ a.total = 0)
                                        THEN p ELSE g[PageCount(a)]]
      BY <2>3 DEF Rests
    <3>2. \A g : [p \in PageNumbers |-> LET a == Standing(Turned(v, p), was)
                                  IN  IF Turned(v, p).page <= PageCount(a) \/ (listed.paging = "server" /\ a.total = 0)
                                        THEN p ELSE g[PageCount(a)]] =
                 [p \in PageNumbers |-> LET a == Standing(Turned(v, p), was)
                                  IN  IF p <= PageCount(a) \/ (listed.paging = "server" /\ a.total = 0)
                                        THEN p ELSE g[PageCount(a)]]
      BY <2>1
    <3>3. \A g : Settles(g) <=>
                 g = [p \in PageNumbers |-> LET a == Standing(Turned(v, p), was)
                                      IN  IF p <= PageCount(a) \/ (listed.paging = "server" /\ a.total = 0)
                                            THEN p ELSE g[PageCount(a)]]
      BY DEF Standing, Turned, PageNumbers
    <3> HIDE DEF Settles
    <3> QED
      BY <3>1, <3>2, <3>3
  <2>7. PICK g : Settles(g) /\ Settled(v, was) = [v EXCEPT !.page = g[v.page]]
    <3>1. \E g : Settles(g)
      <4> HIDE DEF Settles
      <4>1. Settles(f)
        BY <2>5, <2>6
      <4> QED
        BY <4>1
    <3> QED
      BY <1>3, <3>1 DEF Settled
  <2>8. g = [p \in PageNumbers |-> IF rest[p] THEN p ELSE g[to[p]]]
    BY <2>6, <2>7
  <2> HIDE DEF Settles
  <2>9. \A p \in PageNumbers : g[p] \in PageNumbers /\ rest[g[p]]
    <3>1. g = [p \in 1..N |-> IF rest[p] THEN p ELSE g[to[p]]]
      BY <2>8, <2>13
    <3>2. Follows(g, N, rest, to)
      BY <3>1 DEF Follows
    <3>3. \A p \in 1..N : g[p] \in 1..N /\ rest[g[p]]
      BY <2>14, <3>2, TurningBackRests
    <3> QED
      BY <2>13, <3>3
  <2>10. g[v.page] \in PageNumbers /\ rest[g[v.page]]
    BY <1>1, <2>9
  <2> DEFINE w == Turned(v, g[v.page])
  <2>11. /\ Settled(v, was) = w /\ w \in Views /\ w.filter = v.filter
         /\ Rests(w, Standing(w, was))
    BY <2>1, <2>3, <2>7, <2>10 DEF Turned
  <2> HIDE DEF w
  <2>12. was[Key(w)].has => Standing(w, was) = was[Key(w)]
    BY DEF Standing, ShownAt
  <2> QED
    BY <1>3, <2>11, <2>12
<1> QED
  BY <1>2, <1>3
-----------------------------------------------------------------------------
RowsOf(f) == Cardinality(there \cap ListMatches[f])

\* An answer tells of rows, and has those of its page.
AnswerFits(v, a) ==
  /\ ~a.has => a.total = 0
  /\ a.has /\ listed.paging # "server" => Len(a.rows) = a.total
  /\ a.has /\ listed.paging = "server" /\ v.page <= a.total => a.rows # << >>

\* Pages that turn back have done so.
PageRests ==
  /\ listed.clamps = "last" => (answers[Key(view)].has => Rests(view, answers[Key(view)]))
  /\ listed.clamps = "first" => view.page = 1 \/ view.page <= answers[Key(view)].total

\* Where a page does not turn back: while nothing goes, no page is asked for that is
\* beyond the rows, and no answer tells of more rows than there are.
Grows == listed.clamps = "no" /\ listed.paging = "server" /\ ~gone
Reachable(v) == v.page = 1 \/ v.page <= RowsOf(v.filter)
OnlyWhatIsThere ==
  Grows => /\ Reachable(view) /\ \A v \in asking : Reachable(v)
           /\ \A v \in Views : /\ answers[v].total <= RowsOf(v.filter)
                               /\ answers[v].total > 0 => answers[v].rows # << >>

ListingInv ==
  /\ ListingTypeOK
  /\ \A v \in Views : AnswerFits(v, answers[v])
  /\ PageRests /\ OnlyWhatIsThere

\* Rows that are there are counted.
LEMMA RowsAreCounted ==
  ASSUME NEW S, S \subseteq ListRows, NEW f \in ListFilters
  PROVE  /\ S \cap ListMatches[f] \in SUBSET ListRows /\ S \cap ListMatches[f] \in SUBSET Nat
         /\ IsFiniteSet(S \cap ListMatches[f])
         /\ Cardinality(S \cap ListMatches[f]) \in 0..Cardinality(ListRows)
         /\ Cardinality(S \cap ListMatches[f]) \in Nat
<1>1. S \cap ListMatches[f] \subseteq ListRows /\ ListRows \subseteq Nat /\ IsFiniteSet(ListRows)
  BY ListingAssumption
<1>2. /\ IsFiniteSet(S \cap ListMatches[f])
      /\ Cardinality(S \cap ListMatches[f]) <= Cardinality(ListRows)
  BY <1>1, FS_Subset
<1>3. Cardinality(S \cap ListMatches[f]) \in Nat /\ Cardinality(ListRows) \in Nat
  BY <1>1, <1>2, FS_CardinalityType
<1>4. \A c, n \in Nat : c <= n => c \in 0..n
  OBVIOUS
<1>5. Cardinality(S \cap ListMatches[f]) \in 0..Cardinality(ListRows)
  BY <1>2, <1>3, <1>4
<1>6. S \cap ListMatches[f] \in SUBSET ListRows /\ S \cap ListMatches[f] \in SUBSET Nat
  <2>1. S \cap ListMatches[f] \subseteq Nat
    BY <1>1, Zenon
  <2> QED
    BY <1>1, <2>1, Zenon
<1> QED
  BY <1>2, <1>3, <1>5, <1>6

\* Another view is chosen, and with it perhaps others asked for.
LEMMA ChoiceStep ==
  ASSUME ListingInv, NEW v \in Views, NEW passing \in SUBSET Views, Choose(v, passing), gone' \in BOOLEAN,
         listed.clamps = "first" => v.page = 1 \/ v.page <= answers[Key(v)].total,
         Grows /\ ~gone' => Reachable(v) /\ \A u \in passing : Reachable(u),
         ~gone' => ~gone
  PROVE  ListingInv'
<1>1. ListingTypeOK /\ answers \in [Views -> Answers] /\ view \in Views /\ before \in Views /\ asking \subseteq Views
  BY DEF ListingInv, ListingTypeOK
<1>2. \A u \in Views : Key(u) \in Views /\ (listed.paging = "server" => Key(u) = u) /\ Key(u)' = Key(u)
  <2>1. \A u \in Views : Key(u) \in Views /\ (listed.paging = "server" => Key(u) = u)
    BY <1>1, KeysAreViews
  <2>2. \A u : Key(u)' = Key(u)
    BY DEF Choose, Key
  <2> QED
    BY <2>1, <2>2
<1>3. PICK w : w = Settled(v, answers)
  OBVIOUS
<1>4. PICK was \in [Views -> Answers] : was = answers
  BY <1>1
<1>5. /\ w \in Views
      /\ listed.clamps # "last" => w = v
      /\ listed.clamps = "last" => (answers[Key(w)].has => Rests(w, answers[Key(w)]))
  BY <1>1, <1>3, <1>4, SettledRests
<1>6. /\ view' = w /\ before' \in Views
      /\ asking' = asking \cup Need(w) \cup UNION {Need(u) : u \in passing}
      /\ UNCHANGED <<listed, there, answers, changes>>
      /\ moves' \in 0..MaxMoves
  <2>1. moves' \in 0..MaxMoves
    <3>1. MaxMoves \in Nat /\ moves \in 0..MaxMoves
      BY ListingAssumption DEF ListingInv, ListingTypeOK
    <3>2. moves < MaxMoves /\ moves' = moves + 1
      BY DEF Choose
    <3> QED
      BY <3>1, <3>2
  <2> QED
    BY <1>1, <1>3, <2>1 DEF Choose
<1>7. \A u \in asking' : u \in asking \/ u = Key(w) \/ \E x \in passing : u = Key(x)
  BY <1>6 DEF Need
<1>8. asking' \subseteq Views
  BY <1>1, <1>2, <1>5, <1>7
<1>9. ListingTypeOK'
  BY <1>1, <1>5, <1>6, <1>8 DEF ListingTypeOK
<1>10. \A u \in Views : AnswerFits(u, answers[u])'
  BY <1>6 DEF ListingInv, AnswerFits
<1>11. PageRests'
  <2>1. Key(view)' = Key(w)
    BY <1>2, <1>5, <1>6 DEF Key
  <2>2. PICK a : a = answers[Key(w)]
    OBVIOUS
  <2>3. answers'[Key(view)'] = a /\ answers'[Key(w)] = a
    BY <1>6, <2>1, <2>2
  <2>4. listed'.clamps = "last" => (a.has => Rests(w, a)')
    BY <1>5, <1>6, <2>2 DEF Rests, PageCount
  <2>5. listed'.clamps = "first" => w.page = 1 \/ w.page <= a.total
    BY <1>5, <1>6, <2>2
  <2> QED
    BY <1>6, <2>3, <2>4, <2>5 DEF PageRests, Rests, PageCount
<1>12. OnlyWhatIsThere'
  <2> SUFFICES ASSUME Grows' PROVE OnlyWhatIsThere'
    BY DEF OnlyWhatIsThere
  <2>1. Grows /\ ~gone'
    BY <1>6 DEF Grows
  <2>2. \A u : Reachable(u) => Reachable(u)'
    BY <1>6 DEF Reachable, RowsOf
  <2>3. \A u \in Views : RowsOf(u.filter)' = RowsOf(u.filter)
    BY <1>6 DEF RowsOf
  <2>4. w = v /\ Key(w) = w /\ \A x \in passing : Key(x) = x
    BY <1>2, <1>5, <2>1 DEF Grows
  <2>5. Reachable(view') /\ \A u \in asking' : Reachable(u)
    BY <1>6, <1>7, <2>1, <2>4 DEF ListingInv, OnlyWhatIsThere
  <2>6. Reachable(view)' /\ \A u \in asking' : Reachable(u)'
    BY <1>6, <2>2, <2>5 DEF Reachable, RowsOf
  <2> QED
    BY <1>6, <2>1, <2>3, <2>6 DEF ListingInv, OnlyWhatIsThere
<1> QED
  BY <1>9, <1>10, <1>11, <1>12 DEF ListingInv

\* A filter, or a page of it, is chosen.
LEMMA FilterStep ==
  ASSUME ListingInv, NEW f \in ListFilters, SelectFilter(f)
  PROVE  ListingInv'
<1>1. PICK same, firstPage : same = [view EXCEPT !.filter = f] /\ firstPage = [same EXCEPT !.page = 1]
  OBVIOUS
<1>2. view \in Views /\ ListingTypeOK /\ 1 \in PageNumbers
  BY KeysAreViews DEF ListingInv, ListingTypeOK
<1>3. same \in Views /\ same.page = view.page /\ firstPage \in Views /\ firstPage.page = 1
  BY <1>1, <1>2 DEF Views, PageNumbers
<1>4. PICK v, passing : /\ v = IF listed.resets = "no" THEN same ELSE firstPage
                        /\ passing = IF listed.resets = "after a request" THEN {same} ELSE {}
  OBVIOUS
<1>5. Choose(v, passing) /\ gone' = (gone \/ (listed.resets # "at once" /\ view.page # 1))
  BY <1>1, <1>4 DEF SelectFilter
<1>6. v \in Views /\ passing \in SUBSET Views
  BY <1>3, <1>4
<1>7. IsKind(listed)
  BY <1>2, KindsAreSound DEF ListingTypeOK
<1>8. listed.clamps = "first" => v.page = 1
  BY <1>3, <1>4, <1>7 DEF IsKind
<1>9. ~gone' => ~gone /\ v.page = 1 /\ \A u \in passing : u.page = 1
  BY <1>3, <1>4, <1>5
<1>10. gone' \in BOOLEAN
  BY <1>5
<1> QED
  BY <1>5, <1>6, <1>8, <1>9, <1>10, ChoiceStep DEF Reachable

\* Another page is turned to.
LEMMA PagerStep ==
  ASSUME ListingInv, NEW p \in 1..Cardinality(ListRows), TurnPage(p)
  PROVE  ListingInv'
<1>1. /\ view \in Views /\ view.page \in PageNumbers /\ ListingTypeOK /\ p \in PageNumbers
      /\ Cardinality(ListRows) \in Nat
      /\ Key(view) \in Views
  BY KeysAreViews DEF ListingInv, ListingTypeOK, PageNumbers
<1>2. PICK v : v = Turned(view, p)
  OBVIOUS
<1>3. v \in Views /\ v.page = p /\ v.filter = view.filter
  BY <1>1, <1>2, ViewsTurn
<1>4. Choose(v, {}) /\ gone' = gone
  BY <1>2 DEF TurnPage, Turned
<1>5. IsKind(listed)
  BY <1>1, KindsAreSound DEF ListingTypeOK
<1>6. PICK a : a = answers[Key(view)]
  OBVIOUS
<1>7. Shown = a
  <2>1. listed.keeps => Key(view) \notin asking
    BY <1>5 DEF IsKind, TurnPage
  <2> QED
    BY <1>6, <2>1 DEF Shown, ShownAt
<1>8. a \in Answers
  BY <1>1, <1>6 DEF ListingTypeOK
<1>9. a.total \in Nat /\ PageCount(a) = IF a.total = 0 THEN 1 ELSE a.total
  BY <1>1, <1>8, AnswersAreRecords DEF PageCount
<1>10. \/ p = view.page - 1
       \/ p = view.page + 1 /\ p <= PageCount(a)
  BY <1>7 DEF TurnPage
<1>11. view.page \in Nat /\ view.page >= 1 /\ p >= 1 /\ p \in Nat
  BY <1>1 DEF PageNumbers
<1>12. p <= a.total \/ (p = view.page - 1 /\ view.page > 1)
  BY <1>9, <1>10, <1>11
<1>13. listed.clamps = "first" => v.page = 1 \/ v.page <= answers[Key(v)].total
  <2> SUFFICES ASSUME listed.clamps = "first" PROVE v.page <= answers[Key(v)].total
    OBVIOUS
  <2>1. listed.paging = "here"
    BY <1>5 DEF IsKind
  <2>2. Key(v) = Key(view)
    BY <1>1, <1>2, <2>1 DEF Key, Turned, Views
  <2>3. view.page = 1 \/ view.page <= a.total
    BY <1>6 DEF ListingInv, PageRests
  <2> QED
    BY <1>3, <1>6, <1>9, <1>11, <1>12, <2>2, <2>3
<1>14. Grows => Reachable(v)
  <2> SUFFICES ASSUME Grows PROVE Reachable(v)
    OBVIOUS
  <2>1. Key(view) = view
    BY DEF Grows, Key
  <2>2. PICK n : n = RowsOf(view.filter)
    OBVIOUS
  <2>3. n \in Nat
    <3>1. there \subseteq ListRows /\ view.filter \in ListFilters
      BY <1>1 DEF ListingTypeOK, Views
    <3>2. PICK S : S = there
      OBVIOUS
    <3>3. Cardinality(S \cap ListMatches[view.filter]) \in Nat
      BY <3>1, <3>2, RowsAreCounted
    <3> QED
      BY <2>2, <3>2, <3>3 DEF RowsOf
  <2>4. a.total <= n /\ (view.page = 1 \/ view.page <= n)
    BY <1>1, <1>6, <2>1, <2>2 DEF ListingInv, OnlyWhatIsThere, Reachable
  <2>5. p <= n
    BY <1>9, <1>11, <1>12, <2>3, <2>4
  <2> QED
    BY <1>3, <2>2, <2>5 DEF Reachable
<1>15. gone' \in BOOLEAN /\ (~gone' => ~gone) /\ {} \in SUBSET Views
  BY <1>1, <1>4 DEF ListingTypeOK
<1> QED
  BY <1>3, <1>4, <1>13, <1>14, <1>15, ChoiceStep

(* The answers say the same, though they may be due by now; rows go only   *)
(* where that is known.                                                    *)
LEMMA SameAnswersStep ==
  ASSUME ListingInv, UNCHANGED <<listed, view, before>>,
         answers' \in [Views -> Answers],
         \A v \in Views : /\ answers'[v].has = answers[v].has /\ answers'[v].rows = answers[v].rows
                          /\ answers'[v].total = answers[v].total,
         asking' \subseteq asking \cup {Key(view)},
         there' \subseteq ListRows, gone' \in BOOLEAN, ~gone' => ~gone /\ there \subseteq there',
         moves' \in 0..MaxMoves, changes' \in 0..MaxChanges
  PROVE  ListingInv'
<1>1. ListingTypeOK /\ view \in Views /\ asking \subseteq Views /\ Key(view) \in Views
      /\ answers \in [Views -> Answers] /\ there \subseteq ListRows
  BY KeysAreViews DEF ListingInv, ListingTypeOK
<1>2. ListingTypeOK'
  <2>1. asking' \subseteq Views
    BY <1>1
  <2> QED
    BY <1>1, <2>1 DEF ListingTypeOK
<1>3. \A v \in Views : AnswerFits(v, answers[v])'
  BY DEF ListingInv, AnswerFits
<1>4. Key(view)' = Key(view)
  BY DEF Key
<1>5. PageRests'
  BY <1>1, <1>4 DEF ListingInv, PageRests, Rests, PageCount
<1>6. OnlyWhatIsThere'
  <2> SUFFICES ASSUME Grows' PROVE OnlyWhatIsThere'
    BY DEF OnlyWhatIsThere
  <2>1. Grows /\ there \subseteq there' /\ Key(view) = view
    BY DEF Grows, Key
  <2>2. ASSUME NEW f \in ListFilters
        PROVE  RowsOf(f) \in Nat /\ RowsOf(f)' \in Nat /\ RowsOf(f) <= RowsOf(f)'
    <3>1. PICK S : S = there'
      OBVIOUS
    <3>2. /\ there \cap ListMatches[f] \subseteq S \cap ListMatches[f]
          /\ IsFiniteSet(S \cap ListMatches[f])
          /\ Cardinality(S \cap ListMatches[f]) \in Nat /\ Cardinality(there \cap ListMatches[f]) \in Nat
      <4>1. PICK T : T = there
        OBVIOUS
      <4>2. S \subseteq ListRows /\ T \subseteq ListRows /\ T \subseteq S
        BY <1>1, <2>1, <3>1, <4>1
      <4>3. IsFiniteSet(S \cap ListMatches[f]) /\ Cardinality(S \cap ListMatches[f]) \in Nat
        BY <4>2, RowsAreCounted
      <4>4. Cardinality(T \cap ListMatches[f]) \in Nat
        BY <4>2, RowsAreCounted
      <4> QED
        BY <4>1, <4>2, <4>3, <4>4
    <3>3. Cardinality(there \cap ListMatches[f]) <= Cardinality(S \cap ListMatches[f])
      BY <3>2, FS_Subset
    <3> QED
      BY <3>1, <3>2, <3>3 DEF RowsOf
  <2>3. ASSUME NEW v \in Views, Reachable(v)
        PROVE  Reachable(v)'
    <3>1. v.filter \in ListFilters /\ v.page \in Nat
      BY DEF Views
    <3>2. RowsOf(v.filter) \in Nat /\ RowsOf(v.filter)' \in Nat /\ RowsOf(v.filter) <= RowsOf(v.filter)'
      BY <2>2, <3>1
    <3> QED
      BY <2>3, <3>1, <3>2 DEF Reachable
  <2>4. Reachable(view)' /\ \A v \in asking' : Reachable(v)'
    <3>1. Reachable(view) /\ \A v \in asking : Reachable(v)
      BY <2>1 DEF ListingInv, OnlyWhatIsThere
    <3>2. Reachable(view)'
      <4>1. PICK v \in Views : v = view /\ view' = v
        BY <1>1
      <4>2. Reachable(v)'
        BY <2>3, <3>1, <4>1
      <4> QED
        BY <4>1, <4>2 DEF Reachable
    <3> QED
      BY <1>1, <2>1, <2>3, <3>1, <3>2
  <2>5. ASSUME NEW v \in Views
        PROVE  /\ answers'[v].total <= RowsOf(v.filter)'
               /\ answers'[v].total > 0 => answers'[v].rows # << >>
    <3>1. v.filter \in ListFilters
      BY DEF Views
    <3>2. answers[v].total \in Nat
      BY <1>1, AnswersAreRecords
    <3>3. answers[v].total <= RowsOf(v.filter) /\ (answers[v].total > 0 => answers[v].rows # << >>)
      BY <2>1 DEF ListingInv, OnlyWhatIsThere
    <3>4. RowsOf(v.filter) \in Nat /\ RowsOf(v.filter)' \in Nat /\ RowsOf(v.filter) <= RowsOf(v.filter)'
      BY <2>2, <3>1
    <3> QED
      BY <3>2, <3>3, <3>4
  <2> QED
    BY <2>4, <2>5 DEF OnlyWhatIsThere
<1> QED
  BY <1>2, <1>3, <1>5, <1>6 DEF ListingInv

\* What is read of a filter, whole and page by page.
LEMMA RowsAreRead ==
  ASSUME ListingTypeOK, NEW f \in ListFilters, NEW pageNo \in PageNumbers, NEW found,
         found = InOrder(there \cap ListMatches[f])
  PROVE  /\ found \in Seq(ListRows) /\ Len(found) = RowsOf(f) /\ RowsOf(f) \in 0..Cardinality(ListRows)
         /\ Slice(found, pageNo) \in Seq(ListRows)
         /\ pageNo <= RowsOf(f) => Slice(found, pageNo) # << >>
<1>1. PICK S : S = there \cap ListMatches[f]
  OBVIOUS
<1>2. S \in SUBSET Nat /\ S \in SUBSET ListRows /\ IsFiniteSet(S) /\ Cardinality(S) \in 0..Cardinality(ListRows)
      /\ Cardinality(S) \in Nat
  <2>1. PICK T : T = there /\ T \subseteq ListRows
    BY DEF ListingTypeOK
  <2> QED
    BY <1>1, <2>1, RowsAreCounted
<1>3. PICK n \in Nat : n = Cardinality(S) /\ n = RowsOf(f)
  BY <1>1, <1>2 DEF RowsOf
<1>4. found \in [1..n -> S]
  BY <1>1, <1>2, <1>3, InOrderLists
<1>5. found \in [1..n -> ListRows] /\ DOMAIN found = 1..n
  BY <1>2, <1>4
<1>6. found \in Seq(ListRows) /\ Len(found) = n
  <2>1. found \in Seq(ListRows)
    BY <1>5, SeqDef
  <2>2. Len(found) = n
    BY <1>3, <1>5
  <2> QED
    BY <2>1, <2>2
<1>7. pageNo \in Nat /\ pageNo >= 1
  <2>1. Cardinality(ListRows) \in Nat
    BY KeysAreViews
  <2> QED
    BY <2>1 DEF PageNumbers
<1>8. pageNo <= n => pageNo \in DOMAIN found
  BY <1>5, <1>7
<1>9. pageNo \in DOMAIN found => Slice(found, pageNo) = <<found[pageNo]>> /\ found[pageNo] \in ListRows
  BY <1>5 DEF Slice
<1>10. pageNo \notin DOMAIN found => Slice(found, pageNo) = << >>
  BY DEF Slice
<1>11. \A x \in ListRows : <<x>> \in Seq(ListRows) /\ <<x>> # << >>
  <2>1. \A x \in ListRows : <<x>> \in [1..1 -> ListRows]
    OBVIOUS
  <2> QED
    BY <2>1, SeqDef
<1>12. << >> \in Seq(ListRows)
  OBVIOUS
<1> QED
  BY <1>2, <1>3, <1>6, <1>8, <1>9, <1>10, <1>11, <1>12

\* The rows are read and shown.
LEMMA AnswerStep ==
  ASSUME ListingInv, NEW v \in Views, TakeAnswer(v)
  PROVE  ListingInv'
<1>1. /\ ListingTypeOK /\ view \in Views /\ asking \subseteq Views
      /\ answers \in [Views -> Answers] /\ listed \in ListKinds
  BY DEF ListingInv, ListingTypeOK
<1>2. /\ \A u \in Views : Key(u) \in Views /\ u.page \in PageNumbers /\ u.filter \in ListFilters
      /\ 1 \in PageNumbers
      /\ \A u \in Views : Key(u) = IF listed.paging = "server" THEN u ELSE Turned(u, 1)
  BY <1>1, KeysAreViews
<1>3. PICK found : found = InOrder(there \cap ListMatches[v.filter])
  OBVIOUS
<1>4. PICK n : n = RowsOf(v.filter)
  OBVIOUS
<1>5. /\ found \in Seq(ListRows) /\ Len(found) = n /\ n \in 0..Cardinality(ListRows)
      /\ Slice(found, v.page) \in Seq(ListRows)
      /\ v.page <= n => Slice(found, v.page) # << >>
  BY <1>1, <1>2, <1>3, <1>4, RowsAreRead
<1>6. PICK cut : cut = IF listed.paging = "server" THEN Slice(found, v.page) ELSE found
  OBVIOUS
<1>7. PICK a : a = [has |-> TRUE, rows |-> cut, total |-> n, due |-> FALSE]
  OBVIOUS
<1>8. a \in Answers /\ a.has /\ a.rows = cut /\ a.total = n /\ n \in Nat
  <2>1. cut \in Seq(ListRows)
    BY <1>5, <1>6
  <2>2. n \in Nat
    BY <1>1, <1>5, KeysAreViews
  <2> QED
    BY <1>5, <1>7, <2>1, <2>2 DEF Answers
<1>9. PICK was : was = [answers EXCEPT ![v] = a]
  OBVIOUS
<1>10. was \in [Views -> Answers] /\ was[v] = a /\ \A u \in Views : u # v => was[u] = answers[u]
  BY <1>1, <1>8, <1>9
<1>11. PICK back \in BOOLEAN : back <=> listed.clamps = "first" /\ v = Key(view) /\ cut # answers[v].rows
  OBVIOUS
<1>12. /\ v \in asking /\ answers' = was
       /\ view' = IF back THEN Turned(view, 1) ELSE Settled(view, was)
       /\ asking' = (asking \ {v}) \cup (IF view' = view THEN {} ELSE Need(view'))
       /\ UNCHANGED <<listed, there, before, gone, moves, changes>>
  <2>1. answers' = was
    BY <1>3, <1>5, <1>6, <1>7, <1>9 DEF TakeAnswer
  <2>2. view' = IF back THEN Turned(view, 1) ELSE Settled(view, answers')
    BY <1>3, <1>6, <1>11 DEF TakeAnswer, Turned
  <2> QED
    BY <2>1, <2>2 DEF TakeAnswer
<1>13. PICK w : w = view'
  OBVIOUS
<1>14. /\ Settled(view, was) \in Views /\ Settled(view, was).filter = view.filter
       /\ listed.clamps # "last" => Settled(view, was) = view
       /\ listed.clamps = "last" =>
            (was[Key(Settled(view, was))].has => Rests(Settled(view, was), was[Key(Settled(view, was))]))
  BY <1>1, <1>10, SettledRests
<1>15. /\ Turned(view, 1) \in Views /\ Turned(view, 1).page = 1
  BY <1>1, <1>2, ViewsTurn
<1>16. w \in Views
  BY <1>12, <1>13, <1>14, <1>15
<1>17. \A u \in asking' : u \in asking \/ (u = Key(w) /\ w # view)
  BY <1>12, <1>13 DEF Need
<1>18. asking' \subseteq Views
  BY <1>1, <1>2, <1>16, <1>17
<1>19. ListingTypeOK'
  BY <1>1, <1>10, <1>12, <1>13, <1>16, <1>18 DEF ListingTypeOK
<1>20. \A u \in Views : AnswerFits(u, answers[u])'
  <2>1. ASSUME NEW u \in Views PROVE AnswerFits(u, was[u])
    <3>1. CASE u = v
      BY <1>5, <1>6, <1>8, <1>10, <3>1 DEF AnswerFits
    <3>2. CASE u # v
      BY <1>10, <3>2 DEF ListingInv, AnswerFits
    <3> QED
      BY <3>1, <3>2
  <2> QED
    BY <1>12, <2>1 DEF AnswerFits
<1>21. IsKind(listed)
  BY <1>1, KindsAreSound
<1>22. Key(view)' = Key(w)
  BY <1>12, <1>13 DEF Key
<1>23. listed.clamps = "last" => (was[Key(w)].has => Rests(w, was[Key(w)]))
  BY <1>11, <1>12, <1>13, <1>14
<1>24. listed.clamps = "first" => w.page = 1 \/ w.page <= was[Key(w)].total
  <2> SUFFICES ASSUME listed.clamps = "first", ~back PROVE w.page = 1 \/ w.page <= was[Key(w)].total
    BY <1>12, <1>13, <1>15
  <2>1. w = view
    BY <1>12, <1>13, <1>14
  <2>2. view.page = 1 \/ view.page <= answers[Key(view)].total
    BY DEF ListingInv, PageRests
  <2>3. CASE v # Key(view)
    BY <1>1, <1>2, <1>10, <2>1, <2>2, <2>3
  <2>4. CASE v = Key(view)
    <3>1. cut = answers[v].rows /\ listed.paging = "here"
      BY <1>11, <1>21, <2>4 DEF IsKind
    <3>2. cut = found /\ Len(cut) = n
      BY <1>5, <1>6, <3>1
    <3>3. CASE answers[v].has
      <4>1. Len(answers[v].rows) = answers[v].total
        BY <3>1, <3>3 DEF ListingInv, AnswerFits
      <4> QED
        BY <1>8, <1>10, <2>1, <2>2, <2>4, <3>1, <3>2, <4>1
    <3>4. CASE ~answers[v].has
      <4>1. answers[v].total = 0
        BY <3>4 DEF ListingInv, AnswerFits
      <4>2. view.page \in Nat /\ view.page >= 1
        <5>1. Cardinality(ListRows) \in Nat
          BY <1>1, KeysAreViews
        <5> QED
          BY <1>1, <1>2, <5>1 DEF PageNumbers
      <4> QED
        BY <2>1, <2>2, <2>4, <4>1, <4>2
    <3> QED
      BY <3>3, <3>4
  <2> QED
    BY <2>3, <2>4
<1>25. PageRests'
  <2>1. PICK b : b = was[Key(w)]
    OBVIOUS
  <2>2. answers'[Key(view)'] = b
    BY <1>12, <1>22, <2>1
  <2>3. listed'.clamps = "last" => (b.has => Rests(w, b)')
    BY <1>12, <1>23, <2>1 DEF Rests, PageCount
  <2>4. listed'.clamps = "first" => w.page = 1 \/ w.page <= b.total
    BY <1>12, <1>24, <2>1
  <2> QED
    BY <1>13, <2>2, <2>3, <2>4 DEF PageRests, Rests, PageCount
<1>26. OnlyWhatIsThere'
  <2> SUFFICES ASSUME Grows' PROVE OnlyWhatIsThere'
    BY DEF OnlyWhatIsThere
  <2>1. Grows
    BY <1>12 DEF Grows
  <2>2. w = view
    BY <1>11, <1>12, <1>13, <1>14, <2>1 DEF Grows
  <2>3. \A f : RowsOf(f)' = RowsOf(f)
    BY <1>12 DEF RowsOf
  <2>4. Reachable(view) /\ \A u \in asking : Reachable(u)
    BY <2>1 DEF ListingInv, OnlyWhatIsThere
  <2>5. Reachable(w) /\ \A u \in asking' : Reachable(u)
    BY <1>17, <2>2, <2>4
  <2>6. Reachable(view)' /\ \A u \in asking' : Reachable(u)'
    BY <1>13, <2>3, <2>5 DEF Reachable
  <2>7. ASSUME NEW u \in Views
        PROVE  was[u].total <= RowsOf(u.filter) /\ (was[u].total > 0 => was[u].rows # << >>)
    <3>1. CASE u # v
      BY <1>10, <2>1, <3>1 DEF ListingInv, OnlyWhatIsThere
    <3>2. CASE u = v
      <4>1. was[u].total = n /\ was[u].rows = Slice(found, v.page)
        BY <1>6, <1>8, <1>10, <2>1, <3>2 DEF Grows
      <4>2. v.page = 1 \/ v.page <= n
        BY <1>4, <1>12, <2>4 DEF Reachable
      <4>3. n > 0 => Slice(found, v.page) # << >>
        BY <1>5, <1>8, <4>2
      <4> QED
        BY <1>4, <1>8, <3>2, <4>1, <4>3
    <3> QED
      BY <3>1, <3>2
  <2> QED
    BY <1>12, <2>3, <2>6, <2>7 DEF OnlyWhatIsThere
<1> QED
  BY <1>19, <1>20, <1>25, <1>26 DEF ListingInv

LEMMA ListingInvInit == ListingInit => ListingInv
<1> SUFFICES ASSUME ListingInit PROVE ListingInv
  OBVIOUS
<1>1. /\ listed \in ListKinds /\ there \subseteq ListRows /\ view \in Views /\ view.page = 1 /\ before = view
      /\ answers = [v \in Views |-> Unasked] /\ asking = {Key(view)} /\ gone = FALSE /\ moves = 0 /\ changes = 0
  BY DEF ListingInit
<1>2. Cardinality(ListRows) \in Nat
  BY ListingAssumption, FS_CardinalityType
<1>3. Unasked \in Answers /\ Unasked.has = FALSE /\ Unasked.total = 0
  <2>1. 0 \in 0..Cardinality(ListRows)
    BY <1>2
  <2>2. << >> \in Seq(ListRows)
    OBVIOUS
  <2> QED
    BY <2>1, <2>2 DEF Unasked, Answers
<1>4. answers \in [Views -> Answers] /\ \A v \in Views : answers[v] = Unasked
  BY <1>1, <1>3
<1>5. Key(view) = view
  BY <1>1 DEF Key, Views
<1>6. 0 \in 0..MaxMoves /\ 0 \in 0..MaxChanges
  BY ListingAssumption
<1>7. ListingTypeOK
  BY <1>1, <1>4, <1>5, <1>6 DEF ListingTypeOK
<1>8. \A v \in Views : AnswerFits(v, answers[v])
  <2>1. ASSUME NEW v \in Views PROVE AnswerFits(v, answers[v])
    <3>1. v.page \in Nat /\ v.page >= 1
      BY <1>2 DEF Views
    <3>2. answers[v].has = FALSE /\ answers[v].total = 0
      BY <1>3, <1>4
    <3> QED
      BY <3>1, <3>2 DEF AnswerFits
  <2> QED
    BY <2>1
<1>9. PageRests
  BY <1>1, <1>3, <1>4, <1>5 DEF PageRests
<1>10. OnlyWhatIsThere
  <2>1. \A f \in ListFilters : RowsOf(f) \in Nat
    <3>1. PICK T : T = there /\ T \subseteq ListRows
      BY <1>1
    <3>2. \A f \in ListFilters : Cardinality(T \cap ListMatches[f]) \in Nat
      BY <3>1, RowsAreCounted
    <3> QED
      BY <3>1, <3>2 DEF RowsOf
  <2>2. \A v \in Views : v.filter \in ListFilters /\ answers[v].total = 0
    BY <1>3, <1>4 DEF Views
  <2>3. \A v \in Views : answers[v].total <= RowsOf(v.filter) /\ ~ (answers[v].total > 0)
    BY <2>1, <2>2
  <2>4. Reachable(view) /\ \A v \in asking : Reachable(v)
    BY <1>1, <1>5 DEF Reachable
  <2> QED
    BY <2>3, <2>4 DEF OnlyWhatIsThere
<1> QED
  BY <1>7, <1>8, <1>9, <1>10 DEF ListingInv

\* A step that leaves the list alone.
LEMMA ListingStutter == ListingInv /\ UNCHANGED listingVars => ListingInv'
<1> SUFFICES ASSUME ListingInv, UNCHANGED listingVars PROVE ListingInv'
  OBVIOUS
<1>1. /\ UNCHANGED <<listed, view, before>> /\ answers' = answers /\ asking' = asking /\ there' = there
      /\ gone' = gone /\ moves' = moves /\ changes' = changes
  BY DEF listingVars
<1>2. /\ answers \in [Views -> Answers] /\ there \subseteq ListRows /\ gone \in BOOLEAN
      /\ moves \in 0..MaxMoves /\ changes \in 0..MaxChanges
  BY DEF ListingInv, ListingTypeOK
<1>3. PICK x \in [Views -> Answers] : answers' = x /\ answers = x
  BY <1>1, <1>2
<1> QED
  BY <1>1, <1>2, <1>3, SameAnswersStep

LEMMA ListingInvStep == ListingInv /\ [ListingNext]_listingVars => ListingInv'
<1> SUFFICES ASSUME ListingInv, [ListingNext]_listingVars PROVE ListingInv'
  OBVIOUS
<1>1. /\ answers \in [Views -> Answers] /\ there \subseteq ListRows /\ gone \in BOOLEAN
      /\ moves \in 0..MaxMoves /\ changes \in 0..MaxChanges /\ view \in Views /\ asking \subseteq Views
  BY DEF ListingInv, ListingTypeOK
<1>2. Key(view) \in Views
  BY <1>1, KeysAreViews DEF ListingInv
<1>3. ASSUME changes < MaxChanges, changes' = changes + 1 PROVE changes' \in 0..MaxChanges
  BY <1>1, <1>3, ListingAssumption
<1>4. ASSUME NEW f \in ListFilters, SelectFilter(f) PROVE ListingInv'
  BY <1>4, FilterStep
<1>5. ASSUME NEW p \in 1..Cardinality(ListRows), TurnPage(p) PROVE ListingInv'
  BY <1>5, PagerStep
<1>6. ASSUME NEW v \in Views, TakeAnswer(v) PROVE ListingInv'
  BY <1>6, AnswerStep
<1>7. ASSUME NEW v \in Views, AnswerFails(v) PROVE ListingInv'
  <2>1. /\ UNCHANGED <<listed, view, before>> /\ answers' = answers /\ asking' \subseteq asking
        /\ there' = there /\ gone' = gone /\ moves' = moves /\ changes' = changes
    BY <1>7 DEF AnswerFails
  <2> QED
    BY <1>1, <2>1, SameAnswersStep
<1>8. ASSUME NEW v \in Views, GrowOld(v) PROVE ListingInv'
  <2>1. /\ UNCHANGED <<listed, view, before>> /\ asking' = asking
        /\ there' = there /\ gone' = gone /\ moves' = moves /\ changes' = changes
        /\ answers' = [answers EXCEPT ![v].due = TRUE]
    BY <1>8 DEF GrowOld
  <2>2. \A u \in Views : answers'[u] = IF u = v THEN [answers[u] EXCEPT !.due = TRUE] ELSE answers[u]
    BY <1>1, <2>1
  <2>3. DOMAIN answers' = Views /\ answers' = [u \in Views |-> answers'[u]]
    BY <1>1, <2>1
  <2>4. ASSUME NEW u \in Views
        PROVE  /\ answers'[u] \in Answers /\ answers'[u].has = answers[u].has
               /\ answers'[u].rows = answers[u].rows /\ answers'[u].total = answers[u].total
    <3>1. answers[u] \in Answers
      BY <1>1
    <3>2. CASE u = v
      BY <2>2, <3>1, <3>2 DEF Answers
    <3>3. CASE u # v
      BY <2>2, <3>1, <3>3
    <3> QED
      BY <3>2, <3>3
  <2>5. answers' \in [Views -> Answers]
    BY <2>3, <2>4
  <2> QED
    BY <1>1, <2>1, <2>4, <2>5, SameAnswersStep
<1>9. ASSUME AskAgain PROVE ListingInv'
  <2>1. /\ UNCHANGED <<listed, view, before>> /\ answers' = answers /\ asking' \subseteq asking \cup {Key(view)}
        /\ there' = there /\ gone' = gone /\ moves' = moves /\ changes' = changes
    BY <1>9 DEF AskAgain, Need
  <2> QED
    BY <1>1, <2>1, SameAnswersStep
<1>10. ASSUME NEW cut \in SUBSET ListRows, RemoveRows(cut) PROVE ListingInv'
  <2>1. /\ UNCHANGED <<listed, view, before>> /\ answers' = Marked /\ asking' = asking \cup {Key(view)}
        /\ there' = there \ cut /\ gone' = TRUE /\ moves' = moves
        /\ changes < MaxChanges /\ changes' = changes + 1
    BY <1>10 DEF RemoveRows
  <2>2. ASSUME NEW u \in Views
        PROVE  /\ answers'[u] \in Answers /\ answers'[u].has = answers[u].has
               /\ answers'[u].rows = answers[u].rows /\ answers'[u].total = answers[u].total
    <3>1. answers[u] \in Answers /\ answers'[u] = [answers[u] EXCEPT !.due = answers[u].has]
      BY <1>1, <2>1 DEF Marked
    <3> QED
      BY <3>1 DEF Answers
  <2>3. answers' \in [Views -> Answers]
    <3>1. answers' = [u \in Views |-> answers'[u]]
      BY <2>1 DEF Marked
    <3> QED
      BY <2>2, <3>1
  <2>4. changes' \in 0..MaxChanges /\ there' \subseteq ListRows
    BY <1>1, <1>3, <2>1
  <2> QED
    BY <1>1, <2>1, <2>2, <2>3, <2>4, SameAnswersStep
<1>11. ASSUME NEW r \in ListRows, ChangeThere(r) PROVE ListingInv'
  <2>1. /\ UNCHANGED <<listed, view, before>> /\ answers' = answers /\ asking' = asking /\ moves' = moves
        /\ there' = (IF r \in there THEN there \ {r} ELSE there \cup {r})
        /\ gone' = (gone \/ r \in there)
        /\ changes < MaxChanges /\ changes' = changes + 1
    BY <1>11 DEF ChangeThere
  <2>2. changes' \in 0..MaxChanges /\ there' \subseteq ListRows /\ gone' \in BOOLEAN
    BY <1>1, <1>3, <2>1
  <2>3. ~gone' => ~gone /\ there \subseteq there'
    BY <2>1
  <2> QED
    BY <1>1, <2>1, <2>2, <2>3, SameAnswersStep
<1>12. CASE UNCHANGED listingVars
  BY <1>12, ListingStutter
<1> QED
  BY <1>4, <1>5, <1>6, <1>7, <1>8, <1>9, <1>10, <1>11, <1>12 DEF ListingNext

LEMMA ListingInvSuffices == ListingInv => ListingTypeOK /\ ListShowsRows
<1> SUFFICES ASSUME ListingInv PROVE ListingTypeOK /\ ListShowsRows
  OBVIOUS
<1>1. ListingTypeOK /\ view \in Views /\ answers \in [Views -> Answers] /\ listed \in ListKinds
  BY DEF ListingInv, ListingTypeOK
<1>2. /\ Key(view) \in Views /\ view.page \in PageNumbers /\ Cardinality(ListRows) \in Nat
      /\ listed.paging = "server" => Key(view) = view
  BY <1>1, KeysAreViews
<1>3. IsKind(listed)
  BY <1>1, KindsAreSound
<1>4. PICK a \in Answers : a = answers[Key(view)]
  BY <1>1, <1>2
<1>5. a.total \in Nat /\ a.rows \in Seq(ListRows) /\ (a.total > 0 => PageCount(a) = a.total)
  BY <1>1, AnswersAreRecords
<1>6. view.page \in Nat /\ view.page >= 1
  BY <1>2 DEF PageNumbers
<1>7. SUFFICES ASSUME asking = {}, a.has, ~a.due, a.total > 0, listed.clamps = "no" => ~gone
               PROVE  RowsOnScreen # << >>
  BY <1>1, <1>4 DEF ListShowsRows
<1>8. Len(a.rows) > 0 => a.rows # << >>
  BY <1>5
<1>9. CASE listed.paging = "here"
  <2>1. Len(a.rows) = a.total /\ view.page <= a.total
    <3>1. Len(a.rows) = a.total
      BY <1>2, <1>4, <1>7, <1>9 DEF ListingInv, AnswerFits
    <3>2. listed.clamps = "first"
      BY <1>3, <1>9 DEF IsKind
    <3>3. view.page = 1 \/ view.page <= a.total
      BY <1>4, <3>2 DEF ListingInv, PageRests
    <3> QED
      BY <1>5, <1>6, <1>7, <3>1, <3>3
  <2>2. view.page \in DOMAIN a.rows
    BY <1>5, <1>6, <2>1
  <2>3. RowsOnScreen = <<a.rows[view.page]>>
    BY <1>4, <1>9, <2>2 DEF RowsOnScreen, Slice
  <2> QED
    BY <2>3
<1>10. CASE listed.paging = "none"
  <2>1. Len(a.rows) = a.total
    BY <1>2, <1>4, <1>7, <1>10 DEF ListingInv, AnswerFits
  <2> QED
    BY <1>4, <1>7, <1>8, <1>10, <2>1 DEF RowsOnScreen
<1>11. CASE listed.paging = "server" /\ listed.clamps = "last"
  <2>1. view.page <= a.total
    BY <1>4, <1>5, <1>7, <1>11 DEF ListingInv, PageRests, Rests
  <2>2. a.rows # << >>
    BY <1>1, <1>2, <1>4, <1>7, <1>11, <2>1 DEF ListingInv, AnswerFits
  <2> QED
    BY <1>4, <1>11, <2>2 DEF RowsOnScreen
<1>12. CASE listed.paging = "server" /\ listed.clamps = "no"
  <2>1. Grows
    BY <1>7, <1>12 DEF Grows
  <2>2. a.rows # << >>
    BY <1>2, <1>4, <1>7, <2>1 DEF ListingInv, OnlyWhatIsThere
  <2> QED
    BY <1>4, <1>12, <2>2 DEF RowsOnScreen
<1>13. listed.paging = "server" => listed.clamps = "last" \/ listed.clamps = "no"
  BY <1>3 DEF IsKind
<1> QED
  BY <1>3, <1>9, <1>10, <1>11, <1>12, <1>13 DEF IsKind

-----------------------------------------------------------------------------
(***************************************************************************)
(* The dashboard of the data screen, for any projects, searches and        *)
(* numbers, and however often it is left.                                  *)
(***************************************************************************)

Drawings == [drawn : BOOLEAN, shows : Counts, to : Counts, runs : BOOLEAN]

\* What is shown runs to the last answer; with bars there is no number.
NumberIsOfItsPanel ==
  open => IF Bars(overview, polling) THEN number = NoNumber
          ELSE number.drawn /\ number.to = overview.of

RestsAtItsEnd == number.drawn /\ ~number.runs => number.shows = number.to

DashboardInv ==
  /\ ScreenDashboardTypeOK /\ NumberIsOfItsPanel /\ RestsAtItsEnd
  /\ MarkersAreThere

\* A panel is drawn with an answer: its numbers are of that answer, or there are bars.
LEMMA PanelIsDrawn ==
  ASSUME number \in Drawings, RestsAtItsEnd,
         NEW ans \in [has : BOOLEAN, of : Counts], NEW waits \in BOOLEAN, DrawPanel(ans, waits)
  PROVE  /\ number' \in Drawings /\ RestsAtItsEnd'
         /\ IF Bars(ans, waits) THEN number' = NoNumber
            ELSE number'.drawn /\ number'.to = ans.of
<1>1. 0 \in Counts /\ ans.of \in Counts
  BY ScreenDashboardAssumption
<1>2. CASE Bars(ans, waits)
  <2>1. number' = [drawn |-> FALSE, shows |-> 0, to |-> 0, runs |-> FALSE]
    BY <1>2 DEF DrawPanel, NoNumber
  <2>2. number' \in Drawings /\ number'.drawn = FALSE
    BY <1>1, <2>1 DEF Drawings
  <2> QED
    BY <1>2, <2>1, <2>2 DEF NoNumber, RestsAtItsEnd
<1>3. CASE ~Bars(ans, waits)
  <2>1. PICK v \in Counts : v = ans.of
    BY <1>1
  <2>2. number' = IF ~number.drawn THEN [drawn |-> TRUE, shows |-> v, to |-> v, runs |-> FALSE]
                  ELSE IF number.to # v THEN [number EXCEPT !.to = v, !.runs = TRUE] ELSE number
    <3>1. Run(ans.of)
      BY <1>3 DEF DrawPanel
    <3>2. Run(v)
      BY <2>1, <3>1
    <3> HIDE <2>1
    <3>3. number.drawn \in BOOLEAN
      BY DEF Drawings
    <3> QED
      BY <3>2, <3>3 DEF Run
  <2>3. CASE ~number.drawn
    BY <1>3, <2>1, <2>2, <2>3 DEF Drawings, RestsAtItsEnd
  <2>4. CASE number.drawn /\ number.to # v
    <3>1. number' = [number EXCEPT !.to = v, !.runs = TRUE]
      BY <2>2, <2>4
    <3>2. number' \in Drawings /\ number'.to = v /\ number'.runs = TRUE /\ number'.drawn = number.drawn
      BY <3>1 DEF Drawings
    <3> QED
      BY <1>3, <2>1, <2>4, <3>2 DEF RestsAtItsEnd
  <2>5. CASE number.drawn /\ number.to = v
    BY <1>3, <2>1, <2>2, <2>5 DEF RestsAtItsEnd
  <2> QED
    BY <2>3, <2>4, <2>5
<1> QED
  BY <1>2, <1>3

\* The dashboard begins closed.
LEMMA DashboardInvInit == ScreenDashboardInit => DashboardInv
<1> SUFFICES ASSUME ScreenDashboardInit PROVE DashboardInv
  OBVIOUS
<1>1. 0 \in Counts /\ MaxReloads \in Nat
  BY ScreenDashboardAssumption
<1>2. term \in SearchTerms
  BY ScreenDashboardAssumption DEF ScreenDashboardInit
<1>3. number = [drawn |-> FALSE, shows |-> 0, to |-> 0, runs |-> FALSE] /\ overview = [has |-> FALSE, of |-> 0]
  BY DEF ScreenDashboardInit, NoNumber, NoCount
<1>4. /\ number \in [drawn : BOOLEAN, shows : Counts, to : Counts, runs : BOOLEAN]
      /\ overview \in [has : BOOLEAN, of : Counts]
  BY <1>1, <1>3
<1>5. projects = [has |-> FALSE, of |-> {}]
  BY DEF ScreenDashboardInit, None
<1>6. projects \in [has : BOOLEAN, of : SUBSET MapSites]
  BY <1>5
<1>7. 0 \in 0..MaxReloads
  BY <1>1
<1>8. ScreenDashboardTypeOK
  BY <1>1, <1>2, <1>4, <1>6, <1>7 DEF ScreenDashboardInit, ScreenDashboardTypeOK
<1>9. open = FALSE /\ map = "none"
  BY DEF ScreenDashboardInit
<1>10. number.drawn = FALSE
  BY <1>3
<1> QED
  BY <1>8, <1>9, <1>10 DEF DashboardInv, NumberIsOfItsPanel, RestsAtItsEnd, MarkersAreThere

\* The panels: what comes, what does not, and the frames.
LEMMA PanelStep ==
  ASSUME DashboardInv,
         PollNumbers \/ (\E value \in Counts : TakeNumbers(value)) \/ NumbersFail \/ Frame
  PROVE  DashboardInv'
<1>1. number \in Drawings /\ overview \in [has : BOOLEAN, of : Counts] /\ RestsAtItsEnd
  BY DEF DashboardInv, ScreenDashboardTypeOK, Drawings
<1>2. /\ UNCHANGED <<open, mapVars, panel, reloads>>
      /\ overview' \in [has : BOOLEAN, of : Counts] /\ polling' \in BOOLEAN
  <2>1. CASE PollNumbers
    BY <2>1, <1>1 DEF PollNumbers
  <2>2. CASE \E value \in Counts : TakeNumbers(value)
    <3>1. PICK value \in Counts : TakeNumbers(value)
      BY <2>2
    <3>2. overview' = [has |-> TRUE, of |-> value] /\ polling' = FALSE /\ UNCHANGED <<open, mapVars, panel, reloads>>
      BY <3>1 DEF TakeNumbers
    <3>3. overview' \in [has : BOOLEAN, of : Counts]
      BY <3>2
    <3> QED
      BY <3>2, <3>3
  <2>3. CASE NumbersFail
    BY <2>3, <1>1 DEF NumbersFail
  <2>4. CASE Frame
    BY <2>4, <1>1 DEF Frame, DashboardInv, ScreenDashboardTypeOK
  <2> QED
    BY <2>1, <2>2, <2>3, <2>4
<1>3. number' \in Drawings /\ RestsAtItsEnd' /\ NumberIsOfItsPanel'
  <2>1. ASSUME NEW ans \in [has : BOOLEAN, of : Counts], NEW waits \in BOOLEAN,
               DrawPanel(ans, waits), overview' = ans, polling' = waits
        PROVE  number' \in Drawings /\ RestsAtItsEnd' /\ NumberIsOfItsPanel'
    <3>1. /\ number' \in Drawings /\ RestsAtItsEnd'
          /\ IF Bars(ans, waits) THEN number' = NoNumber ELSE number'.drawn /\ number'.to = ans.of
      BY <1>1, <2>1, PanelIsDrawn
    <3> QED
      BY <3>1, <1>2, <2>1 DEF NumberIsOfItsPanel, Bars
  <2>2. ASSUME ~open, number' = number
        PROVE  number' \in Drawings /\ RestsAtItsEnd' /\ NumberIsOfItsPanel'
    BY <1>1, <1>2, <2>2 DEF RestsAtItsEnd, NumberIsOfItsPanel
  <2>3. CASE PollNumbers
    BY <2>1, <2>3, <1>1 DEF PollNumbers
  <2>4. CASE \E value \in Counts : TakeNumbers(value)
    <3>1. PICK value \in Counts : TakeNumbers(value)
      BY <2>4
    <3>2. PICK ans : ans = [has |-> TRUE, of |-> value]
      OBVIOUS
    <3>3. ans \in [has : BOOLEAN, of : Counts]
      BY <3>2
    <3>4. /\ overview' = ans /\ polling' = FALSE
          /\ IF open THEN DrawPanel(ans, FALSE) ELSE number' = number
      BY <3>1, <3>2 DEF TakeNumbers
    <3> QED
      BY <2>1, <2>2, <3>3, <3>4
  <2>5. CASE NumbersFail
    BY <2>1, <2>2, <2>5, <1>1 DEF NumbersFail
  <2>6. CASE Frame
    <3>1. PICK shows \in Counts, goes \in BOOLEAN :
             /\ number' = [number EXCEPT !.shows = shows, !.runs = goes]
             /\ ~goes => shows = number.to
      <4>1. CASE number' = [number EXCEPT !.shows = number.to, !.runs = FALSE]
        BY <4>1, <1>1 DEF Drawings
      <4>2. CASE \E shows \in Counts : number' = [number EXCEPT !.shows = shows]
        <5>1. PICK shows \in Counts : number' = [number EXCEPT !.shows = shows]
          BY <4>2
        <5>2. number.runs = TRUE
          BY <2>6, <1>1 DEF Frame, Drawings
        <5>3. [number EXCEPT !.shows = shows] = [number EXCEPT !.shows = shows, !.runs = TRUE]
          BY <5>2, <1>1 DEF Drawings
        <5> QED
          BY <5>1, <5>3
      <4> QED
        BY <2>6, <4>1, <4>2 DEF Frame
    <3>2. number' \in Drawings /\ number'.drawn = number.drawn /\ number'.to = number.to
      BY <3>1, <1>1 DEF Drawings
    <3>3. number'.shows = shows /\ number'.runs = goes
      BY <3>1, <1>1 DEF Drawings
    <3>4. overview' = overview /\ polling' = polling /\ open' = open /\ panel' = panel /\ number.runs
      BY <2>6 DEF Frame
    <3>5. NumberIsOfItsPanel'
      BY <3>2, <3>4 DEF NumberIsOfItsPanel, DashboardInv, Bars, NoNumber
    <3> QED
      BY <3>1, <3>2, <3>3, <3>5 DEF RestsAtItsEnd
  <2> QED
    BY <2>3, <2>4, <2>5, <2>6
<1>4. ScreenDashboardTypeOK'
  BY <1>2, <1>3 DEF DashboardInv, ScreenDashboardTypeOK, mapVars, Drawings
<1>5. MarkersAreThere'
  BY <1>2 DEF DashboardInv, MarkersAreThere, Searched, mapVars
<1> QED
  BY <1>3, <1>4, <1>5 DEF DashboardInv

\* The page opens, or is left.
LEMMA PageStep ==
  ASSUME DashboardInv, OpenScreen \/ LeaveScreen
  PROVE  DashboardInv'
<1>1. number \in Drawings /\ overview \in [has : BOOLEAN, of : Counts] /\ RestsAtItsEnd
  BY DEF DashboardInv, ScreenDashboardTypeOK, Drawings
<1>2. CASE OpenScreen
  <2>1. polling' \in BOOLEAN /\ overview' = overview
    BY <1>2 DEF OpenScreen, DashboardInv, ScreenDashboardTypeOK
  <2>2. PICK waits \in BOOLEAN : waits = polling' /\ DrawPanel(overview, waits)
    BY <1>2, <2>1 DEF OpenScreen
  <2>3. /\ number' \in Drawings /\ RestsAtItsEnd'
        /\ IF Bars(overview, waits) THEN number' = NoNumber ELSE number'.drawn /\ number'.to = overview.of
    BY <1>1, <2>2, PanelIsDrawn
  <2>4. NumberIsOfItsPanel'
    BY <1>2, <2>1, <2>2, <2>3 DEF NumberIsOfItsPanel, Bars, OpenScreen
  <2>5. ScreenDashboardTypeOK'
    BY <1>2, <2>1, <2>3, ScreenDashboardAssumption
       DEF OpenScreen, DashboardInv, ScreenDashboardTypeOK, Drawings
  <2>6. MarkersAreThere'
    BY <1>2 DEF OpenScreen, MarkersAreThere
  <2> QED
    BY <2>3, <2>4, <2>5, <2>6 DEF DashboardInv
<1>3. CASE LeaveScreen
  <2>1. number' = NoNumber /\ number' \in Drawings
    BY <1>3, ScreenDashboardAssumption DEF LeaveScreen, NoNumber, Drawings
  <2>2. reloads' \in 0..MaxReloads
    <3>1. MaxReloads \in Nat
      BY ScreenDashboardAssumption
    <3>2. reloads \in 0..MaxReloads
      BY DEF DashboardInv, ScreenDashboardTypeOK
    <3>3. reloads < MaxReloads /\ reloads' = reloads + 1
      BY <1>3 DEF LeaveScreen
    <3> QED
      BY <3>1, <3>2, <3>3
  <2>3. ScreenDashboardTypeOK'
    BY <1>3, <2>1, <2>2 DEF LeaveScreen, DashboardInv, ScreenDashboardTypeOK, Drawings
  <2> QED
    BY <1>3, <2>1, <2>3
       DEF LeaveScreen, DashboardInv, NumberIsOfItsPanel, RestsAtItsEnd, NoNumber, MarkersAreThere
<1> QED
  BY <1>2, <1>3

\* The map: its script, its projects, and what is searched for and clicked.
LEMMA MapStep ==
  ASSUME DashboardInv,
         \/ ScriptLoads \/ ScriptFails \/ MakeMap
         \/ \E found \in SUBSET MapSites : TakeMapProjects(found)
         \/ \E t \in SearchTerms : SearchMap(t)
         \/ \E s \in MapSites : ClickMarker(s)
         \/ CloseTooltip
  PROVE  DashboardInv'
<1>1. UNCHANGED <<open, panel, overview, polling, number>>
  BY DEF ScriptLoads, ScriptFails, MakeMap, TakeMapProjects, SearchMap, ClickMarker, CloseTooltip, panelVars
<1>2. NumberIsOfItsPanel' /\ RestsAtItsEnd'
  BY <1>1 DEF DashboardInv, NumberIsOfItsPanel, RestsAtItsEnd, Bars
<1>3. ASSUME UNCHANGED <<reloads, markers, projects, term>>, map' = map,
             script' \in {"none", "loading", "loaded"}, mapReady' \in BOOLEAN, selected' \in Placed \cup {NOSITE}
      PROVE  DashboardInv'
  BY <1>1, <1>2, <1>3 DEF DashboardInv, ScreenDashboardTypeOK, MarkersAreThere, Searched
<1>4. ASSUME ScreenDashboardTypeOK', MarkersAreThere'
      PROVE  DashboardInv'
  BY <1>2, <1>4 DEF DashboardInv
<1>5. CASE ScriptLoads
  BY <1>3, <1>5 DEF ScriptLoads, DashboardInv, ScreenDashboardTypeOK
<1>6. CASE ScriptFails
  <2>1. reloads' \in 0..MaxReloads
    <3>1. MaxReloads \in Nat
      BY ScreenDashboardAssumption
    <3>2. reloads \in 0..MaxReloads
      BY DEF DashboardInv, ScreenDashboardTypeOK
    <3>3. reloads < MaxReloads /\ reloads' = reloads + 1
      BY <1>6 DEF ScriptFails
    <3> QED
      BY <3>1, <3>2, <3>3
  <2>2. ScreenDashboardTypeOK'
    <3>1. ScreenDashboardTypeOK
      BY DEF DashboardInv
    <3>2. /\ script' = "none" /\ map' \in {"failed", map} /\ mapReady' \in {TRUE, mapReady}
          /\ UNCHANGED <<open, projects, term, markers, selected, panel, overview, polling, number>>
      BY <1>1, <1>6 DEF ScriptFails
    <3>3. /\ script' \in {"none", "loading", "loaded"}
          /\ map' \in {"none", "waiting", "there", "failed"} /\ mapReady' \in BOOLEAN
      BY <3>1, <3>2 DEF ScreenDashboardTypeOK
    <3>4. /\ projects' = projects /\ term' = term /\ markers' = markers /\ selected' = selected
          /\ panel' = panel /\ overview' = overview /\ polling' = polling /\ number' = number /\ open' = open
      BY <3>2
    <3> QED
      BY <2>1, <3>1, <3>3, <3>4, Zenon DEF ScreenDashboardTypeOK
  <2>3. MarkersAreThere'
    BY <1>6 DEF ScriptFails, DashboardInv, MarkersAreThere, Searched
  <2> QED
    BY <1>4, <2>2, <2>3
<1>7. CASE MakeMap
  <2>1. ScreenDashboardTypeOK'
    BY <1>1, <1>7 DEF MakeMap, DashboardInv, ScreenDashboardTypeOK
  <2>2. MarkersAreThere'
    BY <1>7 DEF MakeMap, MarkersAreThere, Searched
  <2> QED
    BY <1>4, <2>1, <2>2
<1>8. ASSUME NEW found \in SUBSET MapSites, TakeMapProjects(found)
      PROVE  DashboardInv'
  <2>1. projects' \in [has : BOOLEAN, of : SUBSET MapSites]
    BY <1>8 DEF TakeMapProjects
  <2>2. markers' = IF map = "there" THEN Searched(projects, term)' \cap Placed ELSE markers
    BY <1>8 DEF TakeMapProjects, Redraw, Searched
  <2>3. ScreenDashboardTypeOK'
    BY <1>1, <1>8, <2>1, <2>2 DEF TakeMapProjects, DashboardInv, ScreenDashboardTypeOK
  <2>4. MarkersAreThere'
    BY <1>8, <2>2 DEF TakeMapProjects, MarkersAreThere
  <2> QED
    BY <1>4, <2>3, <2>4
<1>9. ASSUME NEW t \in SearchTerms, SearchMap(t)
      PROVE  DashboardInv'
  <2>1. markers' = IF map = "there" THEN Searched(projects, term)' \cap Placed ELSE markers
    BY <1>9 DEF SearchMap, Redraw, Searched
  <2>2. ScreenDashboardTypeOK'
    BY <1>1, <1>9, <2>1 DEF SearchMap, DashboardInv, ScreenDashboardTypeOK
  <2>3. MarkersAreThere'
    BY <1>9, <2>1 DEF SearchMap, MarkersAreThere
  <2> QED
    BY <1>4, <2>2, <2>3
<1>10. ASSUME NEW s \in MapSites, ClickMarker(s)
       PROVE  DashboardInv'
  BY <1>3, <1>10 DEF ClickMarker, DashboardInv, ScreenDashboardTypeOK
<1>11. CASE CloseTooltip
  BY <1>3, <1>11 DEF CloseTooltip, DashboardInv, ScreenDashboardTypeOK
<1> QED
  BY <1>5, <1>6, <1>7, <1>8, <1>9, <1>10, <1>11

\* Every step keeps the invariant.
LEMMA DashboardInvStep == DashboardInv /\ [ScreenDashboardNext]_dashboardVars => DashboardInv'
<1>1. ASSUME DashboardInv, UNCHANGED dashboardVars
      PROVE  DashboardInv'
  BY <1>1 DEF dashboardVars, DashboardInv, ScreenDashboardTypeOK, NumberIsOfItsPanel, RestsAtItsEnd,
              MarkersAreThere, Bars, Searched
<1> QED
  BY <1>1, PanelStep, PageStep, MapStep DEF ScreenDashboardNext

\* A panel at rest shows what came last, and the map has the markers it should.
LEMMA DashboardInvSuffices == DashboardInv => ScreenDashboardTypeOK /\ NumbersArrive /\ MarkersAreThere
<1> SUFFICES ASSUME DashboardInv PROVE NumbersArrive
  BY DEF DashboardInv
<1> QED
  BY DEF DashboardInv, NumberIsOfItsPanel, RestsAtItsEnd, NumbersArrive

-----------------------------------------------------------------------------
(***************************************************************************)
(* The board of one project, for any projects, punches and cap of the      *)
(* list, and however often projects, tabs and days change.                 *)
(***************************************************************************)

\* An answer has its own project's records, and none of tomorrow.
AnswersAreOfTheirSite ==
  /\ \A r \in onServer : DayOf[r] <= today
  /\ \A s \in Sites : /\ \A r \in feeds[s].rows : SiteOf[r] = s /\ DayOf[r] <= today
                      /\ ~feeds[s].has => feeds[s].rows = {}

\* The list is there with its panels, and has none of tomorrow.
ListIsOfThePanels ==
  /\ \A r \in live : DayOf[r] <= today
  /\ ~Panels => live = {}

BoardInv ==
  /\ ScreenBoardTypeOK /\ AnswersAreOfTheirSite /\ ListIsOfThePanels
  /\ PunchesAreTheBoards

(* What is not among the newest was pushed out by some of them that are    *)
(* newer, as many as the list can show: the newest of the others has that  *)
(* many above it, and these are all among the newest.                      *)
LEMMA PushedOut ==
  ASSUME NEW S, S \subseteq Punches, NEW r \in S, r \notin Newest(S)
  PROVE  Cardinality({q \in Newest(S) : q > r}) >= FeedCap
<1> DEFINE Above(x) == {q \in S : q > x}
<1> DEFINE newer == {q \in Newest(S) : q > r}
<1>1. S \subseteq Nat /\ IsFiniteSet(S) /\ FeedCap \in Nat
  BY FS_Subset, ScreenBoardAssumption
<1>2. \A x \in S : IsFiniteSet(Above(x)) /\ Cardinality(Above(x)) \in Nat
  BY <1>1, FS_Subset, FS_CardinalityType
<1>3. Newest(S) = {x \in S : Cardinality(Above(x)) < FeedCap}
  BY DEF Newest
<1>4. IsFiniteSet(newer) /\ Cardinality(newer) \in Nat
  <2>1. newer \subseteq S
    BY <1>3
  <2> QED
    BY <2>1, <1>1, FS_Subset, FS_CardinalityType
<1> DEFINE hidden == {Cardinality(Above(x)) : x \in {y \in S : y >= r /\ y \notin Newest(S)}}
<1>5. hidden \subseteq Nat /\ Cardinality(Above(r)) \in hidden
  <2>1. r \in {y \in S : y >= r /\ y \notin Newest(S)}
    BY <1>1
  <2> HIDE DEF Above
  <2> QED
    BY <2>1, <1>2
<1> HIDE DEF hidden
<1>6. PICK n \in hidden : \A m \in hidden : n <= m
  BY <1>5, SmallestNumber
<1>7. PICK x \in S : x >= r /\ x \notin Newest(S) /\ n = Cardinality(Above(x))
  BY <1>6 DEF hidden
<1>8. Above(x) \subseteq newer
  <2>0. ASSUME NEW q \in S, q > x
        PROVE  q > r
    <3>1. q \in Nat /\ x \in Nat /\ r \in Nat
      BY <1>1, <1>7
    <3> QED
      BY <3>1, <2>0, <1>7
  <2> SUFFICES ASSUME NEW q \in Above(x), q \notin Newest(S)
               PROVE  FALSE
    BY <2>0
  <2>1. q \in S /\ q > x /\ q > r
    BY <2>0
  <2>2. Cardinality(Above(q)) \in hidden
    <3>1. q \in {y \in S : y >= r /\ y \notin Newest(S)}
      BY <2>1, <1>1
    <3> HIDE DEF Above
    <3> QED
      BY <3>1 DEF hidden
  <2>3. Above(q) \subseteq Above(x) \ {q}
    <3>1. ASSUME NEW p \in S, p > q
          PROVE  p > x /\ p # q
      <4>1. p \in Nat /\ q \in Nat /\ x \in Nat
        BY <1>1, <1>7, <2>1
      <4> QED
        BY <4>1, <3>1, <2>1
    <3> QED
      BY <3>1
  <2>4. Cardinality(Above(x) \ {q}) = Cardinality(Above(x)) - 1
    BY <2>1, <1>2, FS_RemoveElement
  <2>5. Cardinality(Above(q)) <= Cardinality(Above(x) \ {q})
    <3>1. IsFiniteSet(Above(x) \ {q})
      BY <1>2, FS_Subset
    <3> QED
      BY <2>3, <3>1, FS_Subset
  <2>6. Cardinality(Above(q)) \in Nat /\ Cardinality(Above(x)) \in Nat
    BY <1>2, <2>1
  <2>7. Cardinality(Above(x)) <= Cardinality(Above(q))
    BY <1>6, <1>7, <2>2
  <2> HIDE DEF Above
  <2> QED
    BY <2>4, <2>5, <2>6, <2>7
<1>9. Cardinality(Above(x)) <= Cardinality(newer)
  BY <1>4, <1>8, FS_Subset
<1>10. ~ Cardinality(Above(x)) < FeedCap
  BY <1>3, <1>7
<1>11. Cardinality(Above(x)) \in Nat
  BY <1>2
<1> HIDE DEF Above
<1> QED
  BY <1>1, <1>4, <1>9, <1>10, <1>11

(* The list that an answer is merged into: of that answer nothing of today *)
(* is missing but what newer rows have pushed out.                         *)
LEMMA MergingKeepsTheNewest ==
  ASSUME ScreenBoardTypeOK, NEW rs, rs \subseteq Punches
  PROVE  LET merged == MergedFeed(rs)
         IN  /\ merged \subseteq Punches /\ merged \subseteq rs \cup live
             /\ \A r \in merged : DayOf[r] = today
             /\ \A r \in Todays(rs) : r \in merged \/ Cardinality({q \in merged : q > r}) >= FeedCap
<1> DEFINE merged == MergedFeed(rs)
<1> DEFINE both == {r \in Todays(rs) \cup live : DayOf[r] = today}
<1>1. merged = Newest(both)
  BY DEF MergedFeed, Todays
<1>2. Todays(rs) \subseteq {r \in rs : DayOf[r] = today}
  BY DEF Todays, Newest
<1>3. both \subseteq Punches /\ both \subseteq rs \cup live
  BY <1>2 DEF ScreenBoardTypeOK
<1>4. merged \subseteq both
  BY <1>1 DEF Newest
<1>5. \A r \in Todays(rs) : r \in both
  BY <1>2
<1>6. \A r \in both : DayOf[r] = today
  OBVIOUS
<1> HIDE DEF both, merged
<1>7. \A r \in both : r \in merged \/ Cardinality({q \in merged : q > r}) >= FeedCap
  BY <1>1, <1>3, PushedOut
<1> QED
  BY <1>3, <1>4, <1>5, <1>6, <1>7 DEF merged

(* The board is drawn, of the same project or of another.                  *)
LEMMA DrawnBoard ==
  ASSUME BoardInv, NEW s \in Sites, NEW t, NEW bs, NEW failed, Drawn(s, t, bs, failed),
         site' = s, tab' = t, boards' = bs, broken' = failed, UNCHANGED <<feeds, onServer, today>>
  PROVE  live' \subseteq Punches /\ kept' \subseteq Sites /\ ListIsOfThePanels' /\ PunchesAreTheBoards'
<1>1. PICK rs : rs = feeds[s].rows
  OBVIOUS
<1>2. PICK todays : todays = Todays(rs)
  OBVIOUS
<1>3. rs \subseteq Punches /\ \A r \in rs : SiteOf[r] = s /\ DayOf[r] <= today
  BY <1>1 DEF BoardInv, ScreenBoardTypeOK, AnswersAreOfTheirSite
<1>4. Panels' = PanelsOf(s, t, bs, failed) /\ feeds'[site'].rows = rs /\ today' = today
  BY <1>1 DEF Panels, PanelsOf
<1>5. Todays(feeds[site].rows)' = todays
  BY <1>4, <1>2 DEF Todays, Newest
<1>6. today \in 1..2
  BY DEF BoardInv, ScreenBoardTypeOK
<1>7. CASE ~PanelsOf(s, t, bs, failed)
  <2>1. live' = {} /\ kept' = {}
    BY <1>7 DEF Drawn
  <2> QED
    BY <2>1, <1>4, <1>7 DEF ListIsOfThePanels, PunchesAreTheBoards
<1>8. CASE PanelsOf(s, t, bs, failed) /\ ~Panels
  <2>1. live' = todays /\ kept' = {}
    BY <1>1, <1>8, <1>2 DEF Drawn
  <2>2. todays \subseteq {r \in rs : DayOf[r] = today}
    BY <1>2 DEF Todays, Newest
  <2>3. \A r \in live' : r \in Punches /\ SiteOf[r] = s /\ DayOf[r] = today
    BY <1>3, <2>1, <2>2
  <2>4. PunchesAreTheBoards'
    BY <1>4, <1>5, <2>1, <2>3 DEF PunchesAreTheBoards
  <2>5. ListIsOfThePanels'
    BY <1>4, <1>6, <1>8, <2>3 DEF ListIsOfThePanels
  <2> QED
    BY <2>1, <2>3, <2>4, <2>5
<1>9. CASE PanelsOf(s, t, bs, failed) /\ Panels
  <2>1. live' = MergedFeed(rs) /\ kept' = IF live # {} THEN (kept \cup {site}) \ {s} ELSE {}
    BY <1>1, <1>9 DEF Drawn
  <2>2. ScreenBoardTypeOK
    BY DEF BoardInv
  <2>3. /\ live' \subseteq Punches /\ live' \subseteq rs \cup live
        /\ \A r \in live' : DayOf[r] = today
        /\ \A r \in todays : r \in live' \/ Cardinality({q \in live' : q > r}) >= FeedCap
    BY <1>3, <1>2, <2>1, <2>2, MergingKeepsTheNewest
  <2>4. \A r \in live' : SiteOf[r] \in {s} \cup kept'
    <3> SUFFICES ASSUME NEW r \in live' PROVE SiteOf[r] \in {s} \cup kept'
      OBVIOUS
    <3>1. CASE r \in rs
      BY <3>1, <1>3
    <3>2. CASE r \in live
      <4>1. SiteOf[r] \in {site} \cup kept
        BY <3>2, <1>9 DEF BoardInv, PunchesAreTheBoards
      <4> QED
        BY <4>1, <3>2, <2>1
    <3> QED
      BY <2>3, <3>1, <3>2
  <2>5. PunchesAreTheBoards'
    BY <1>4, <1>5, <2>3, <2>4 DEF PunchesAreTheBoards
  <2>6. ListIsOfThePanels'
    BY <1>4, <1>6, <1>9, <2>3 DEF ListIsOfThePanels
  <2>7. kept' \subseteq Sites
    BY <2>1, <2>2 DEF ScreenBoardTypeOK
  <2> QED
    BY <2>3, <2>5, <2>6, <2>7
<1> QED
  BY <1>7, <1>8, <1>9

\* The board begins empty, of today.
LEMMA BoardInvInit == ScreenBoardInit => BoardInv
<1> SUFFICES ASSUME ScreenBoardInit PROVE BoardInv
  OBVIOUS
<1>1. \A s \in Sites : feeds[s] = [has |-> FALSE, rows |-> {}]
  BY DEF ScreenBoardInit, NoFeed
<1>2. feeds \in [Sites -> [has : BOOLEAN, rows : SUBSET Punches]]
  BY DEF ScreenBoardInit, NoFeed
<1>3. 0 \in 0..MaxTurns /\ 0 \in 0..MaxNews
  BY ScreenBoardAssumption
<1>4. asked \subseteq {"board", "feed"} \X Sites
  BY DEF ScreenBoardInit
<1>5. ScreenBoardTypeOK
  <2>1. /\ site \in Sites /\ tab = "labor" /\ boards = {} /\ broken = FALSE
        /\ live = {} /\ onServer \subseteq Punches /\ today = 1 /\ kept = {} /\ turns = 0 /\ news = 0
    BY DEF ScreenBoardInit
  <2>2. today \in 1..2
    BY <2>1
  <2> QED
    BY <1>2, <1>3, <1>4, <2>1, <2>2 DEF ScreenBoardTypeOK
<1>6. AnswersAreOfTheirSite
  BY <1>1, ScreenBoardAssumption DEF ScreenBoardInit, AnswersAreOfTheirSite
<1>7. feeds[site].rows = {} /\ live = {}
  BY <1>1 DEF ScreenBoardInit
<1>8. ListIsOfThePanels /\ PunchesAreTheBoards
  BY <1>7 DEF ListIsOfThePanels, PunchesAreTheBoards, Todays, Newest
<1> QED
  BY <1>5, <1>6, <1>8 DEF BoardInv

(* The project, the tab, or what is in the cache of the board changes: the *)
(* board is drawn, or is not the one that is looked at.                    *)
LEMMA BoardDrawingStep ==
  ASSUME BoardInv,
         \/ \E s \in Sites : SwitchProject(s) \/ TakeBoard(s) \/ BoardFails(s)
         \/ \E t \in {"labor", "other"} : ChooseTab(t)
         \/ AskBoardAgain
  PROVE  BoardInv'
<1>1. /\ UNCHANGED <<feeds, onServer, today>>
      /\ turns' \in 0..MaxTurns /\ news' \in 0..MaxNews
  <2>1. MaxTurns \in Nat /\ MaxNews \in Nat
    BY ScreenBoardAssumption
  <2>2. turns \in 0..MaxTurns /\ news \in 0..MaxNews
    BY DEF BoardInv, ScreenBoardTypeOK
  <2>3. /\ UNCHANGED <<feeds, onServer, today>>
        /\ turns' = turns \/ (turns < MaxTurns /\ turns' = turns + 1)
        /\ news' = news \/ (news < MaxNews /\ news' = news + 1)
    BY DEF SwitchProject, TakeBoard, BoardFails, ChooseTab, AskBoardAgain, Turn, News
  <2> QED
    BY <2>1, <2>2, <2>3
<1>2. ASSUME ScreenBoardTypeOK', ListIsOfThePanels', PunchesAreTheBoards'
      PROVE  BoardInv'
  BY <1>1, <1>2 DEF BoardInv, AnswersAreOfTheirSite
<1>3. ASSUME NEW s \in Sites, NEW t \in {"labor", "other"}, NEW bs \in SUBSET Sites, NEW failed \in BOOLEAN,
             Drawn(s, t, bs, failed),
             site' = s, tab' = t, boards' = bs, broken' = failed, asked' \subseteq {"board", "feed"} \X Sites
      PROVE  BoardInv'
  <2>1. live' \subseteq Punches /\ kept' \subseteq Sites /\ ListIsOfThePanels' /\ PunchesAreTheBoards'
    BY <1>1, <1>3, DrawnBoard
  <2>2. ScreenBoardTypeOK'
    BY <1>1, <1>3, <2>1 DEF BoardInv, ScreenBoardTypeOK
  <2> QED
    BY <1>2, <2>1, <2>2
<1>4. ASSUME UNCHANGED <<site, tab, broken, live, kept>>, site \in boards' <=> site \in boards,
             boards' \subseteq Sites, asked' \subseteq {"board", "feed"} \X Sites
      PROVE  BoardInv'
  <2>1. ScreenBoardTypeOK'
    BY <1>1, <1>4 DEF BoardInv, ScreenBoardTypeOK
  <2>2. Panels' <=> Panels
    BY <1>4 DEF Panels, PanelsOf
  <2>3. ListIsOfThePanels'
    BY <1>1, <1>4, <2>2 DEF BoardInv, ListIsOfThePanels
  <2>4. PICK rs : rs = feeds[site].rows
    OBVIOUS
  <2>5. feeds'[site'].rows = rs
    BY <1>1, <1>4, <2>4
  <2>6. Todays(feeds[site].rows)' = Todays(rs)
    BY <1>1, <2>5 DEF Todays, Newest
  <2>7. PunchesAreTheBoards'
    BY <1>1, <1>4, <2>2, <2>4, <2>5, <2>6 DEF BoardInv, PunchesAreTheBoards
  <2> QED
    BY <1>2, <2>1, <2>3, <2>7
<1>5. /\ site \in Sites /\ tab \in {"labor", "other"} /\ boards \in SUBSET Sites /\ broken \in BOOLEAN
      /\ asked \subseteq {"board", "feed"} \X Sites
      /\ \A s \in Sites : <<"board", s>> \in {"board", "feed"} \X Sites /\ <<"feed", s>> \in {"board", "feed"} \X Sites
  BY DEF BoardInv, ScreenBoardTypeOK
<1>6. ASSUME NEW s \in Sites, SwitchProject(s) PROVE BoardInv'
  <2>1. asked' \subseteq {"board", "feed"} \X Sites
    BY <1>5, <1>6 DEF SwitchProject
  <2> QED
    BY <1>3, <1>5, <1>6, <2>1 DEF SwitchProject
<1>7. ASSUME NEW s \in Sites, TakeBoard(s) PROVE BoardInv'
  <2>1. PICK bs \in SUBSET Sites : bs = boards \cup {s}
    BY <1>5
  <2>2. asked' \subseteq {"board", "feed"} \X Sites
    BY <1>5, <1>7 DEF TakeBoard
  <2>3. UNCHANGED <<site, tab, broken>> /\ boards' = bs
    BY <1>7, <2>1 DEF TakeBoard
  <2>4. CASE s = site
    <3>1. Drawn(site, tab, bs, broken)
      BY <1>7, <2>1, <2>3, <2>4 DEF TakeBoard, Drawn, PanelsOf
    <3> QED
      BY <1>3, <1>5, <2>2, <2>3, <3>1
  <2>5. CASE s # site
    BY <1>4, <1>7, <2>1, <2>2, <2>3, <2>5 DEF TakeBoard
  <2> QED
    BY <2>4, <2>5
<1>8. ASSUME NEW s \in Sites, BoardFails(s) PROVE BoardInv'
  <2>1. asked' \subseteq {"board", "feed"} \X Sites
    BY <1>5, <1>8 DEF BoardFails
  <2>2. UNCHANGED <<site, tab, boards>>
    BY <1>8 DEF BoardFails
  <2>3. CASE s = site
    BY <1>3, <1>5, <1>8, <2>1, <2>2, <2>3 DEF BoardFails
  <2>4. CASE s # site
    BY <1>4, <1>5, <1>8, <2>1, <2>2, <2>4 DEF BoardFails
  <2> QED
    BY <2>3, <2>4
<1>9. ASSUME NEW t \in {"labor", "other"}, ChooseTab(t) PROVE BoardInv'
  BY <1>3, <1>5, <1>9 DEF ChooseTab
<1>10. CASE AskBoardAgain
  <2>1. asked' \subseteq {"board", "feed"} \X Sites
    BY <1>5, <1>10 DEF AskBoardAgain
  <2> QED
    BY <1>3, <1>5, <1>10, <2>1 DEF AskBoardAgain
<1> QED
  BY <1>6, <1>7, <1>8, <1>9, <1>10

\* Answers that are forgotten, polled, that come or fail, and the list that is drawn again.
LEMMA FeedStep ==
  ASSUME BoardInv,
         \/ \E s \in Sites : Collect(s) \/ TakeFeed(s) \/ FeedFails(s)
         \/ PollFeed \/ DrawAgain
  PROVE  BoardInv'
<1>1. ScreenBoardTypeOK /\ site \in Sites
  BY DEF BoardInv, ScreenBoardTypeOK
<1>2. /\ asked' \subseteq {"board", "feed"} \X Sites /\ boards' \subseteq Sites
      /\ UNCHANGED <<site, tab, broken, onServer, today, kept>>
      /\ site \in boards' <=> site \in boards
      /\ turns' \in 0..MaxTurns /\ news' \in 0..MaxNews
  <2>1. MaxTurns \in Nat /\ MaxNews \in Nat
    BY ScreenBoardAssumption
  <2>2. turns \in 0..MaxTurns /\ news \in 0..MaxNews
    BY DEF BoardInv, ScreenBoardTypeOK
  <2>3. /\ UNCHANGED <<site, tab, broken, onServer, today, kept>>
        /\ news' = news
        /\ turns' = turns \/ (turns < MaxTurns /\ turns' = turns + 1)
    BY DEF Collect, TakeFeed, FeedFails, PollFeed, DrawAgain, Turn
  <2>4. boards' \subseteq boards /\ (site \in boards' <=> site \in boards)
    BY DEF Collect, TakeFeed, FeedFails, PollFeed, DrawAgain
  <2>5. asked' \subseteq asked \cup {<<"feed", site>>}
    BY DEF Collect, TakeFeed, FeedFails, PollFeed, DrawAgain
  <2>6. boards \subseteq Sites /\ asked \subseteq {"board", "feed"} \X Sites
    BY <1>1 DEF ScreenBoardTypeOK
  <2>7. <<"feed", site>> \in {"board", "feed"} \X Sites
    BY <1>1
  <2> QED
    BY <2>1, <2>2, <2>3, <2>4, <2>5, <2>6, <2>7
<1>3. Panels' <=> Panels
  BY <1>2 DEF Panels, PanelsOf
<1>4. ASSUME feeds' \in [Sites -> [has : BOOLEAN, rows : SUBSET Punches]], live' \subseteq Punches,
             \A s \in Sites : feeds'[s] # feeds[s] =>
               /\ \A r \in feeds'[s].rows : SiteOf[r] = s /\ DayOf[r] <= today
               /\ ~feeds'[s].has => feeds'[s].rows = {},
             \A r \in live' : DayOf[r] <= today, ~Panels => live' = {}, PunchesAreTheBoards'
      PROVE  BoardInv'
  <2>1. ScreenBoardTypeOK'
    BY <1>1, <1>2, <1>4 DEF ScreenBoardTypeOK
  <2>2. AnswersAreOfTheirSite'
    BY <1>2, <1>4 DEF BoardInv, AnswersAreOfTheirSite
  <2>3. ListIsOfThePanels'
    BY <1>2, <1>3, <1>4 DEF ListIsOfThePanels
  <2> QED
    BY <1>4, <2>1, <2>2, <2>3 DEF BoardInv
<1>5. PICK rs : rs = feeds[site].rows
  OBVIOUS
<1>6. /\ rs \subseteq Punches /\ live \subseteq Punches /\ today \in 1..2
      /\ feeds \in [Sites -> [has : BOOLEAN, rows : SUBSET Punches]]
      /\ \A r \in live : DayOf[r] <= today
      /\ ~Panels => live = {}
      /\ ~feeds[site].has => rs = {}
  BY <1>1, <1>5 DEF BoardInv, ScreenBoardTypeOK, AnswersAreOfTheirSite, ListIsOfThePanels
<1>7. ASSUME feeds'[site] = feeds[site], live' = live
      PROVE  PunchesAreTheBoards'
  <2>1. feeds'[site'].rows = rs
    BY <1>2, <1>5, <1>7
  <2>2. Todays(feeds[site].rows)' = Todays(rs)
    BY <1>2, <2>1 DEF Todays, Newest
  <2> QED
    BY <1>2, <1>3, <1>5, <1>7, <2>1, <2>2 DEF BoardInv, PunchesAreTheBoards
<1>8. ASSUME NEW more, more \subseteq Punches, feeds'[site].rows = more, live' = MergedFeed(more),
             \A r \in more : SiteOf[r] = site, Panels
      PROVE  /\ PunchesAreTheBoards' /\ live' \subseteq Punches
             /\ \A r \in live' : DayOf[r] <= today
  <2>1. PICK todays : todays = Todays(more)
    OBVIOUS
  <2>2. /\ live' \subseteq Punches /\ live' \subseteq more \cup live
        /\ \A r \in live' : DayOf[r] = today
        /\ \A r \in todays : r \in live' \/ Cardinality({q \in live' : q > r}) >= FeedCap
    BY <1>1, <1>8, <2>1, MergingKeepsTheNewest
  <2>3. Todays(feeds[site].rows)' = todays
    BY <1>2, <1>8, <2>1 DEF Todays, Newest
  <2>4. \A r \in live' : SiteOf[r] \in {site} \cup kept
    BY <1>8, <2>2 DEF BoardInv, PunchesAreTheBoards
  <2>5. PunchesAreTheBoards'
    BY <1>2, <2>2, <2>3, <2>4 DEF PunchesAreTheBoards
  <2>6. \A r \in live' : DayOf[r] <= today
    BY <1>6, <2>2
  <2> QED
    BY <2>2, <2>5, <2>6
<1>9. ASSUME NEW s \in Sites, Collect(s) PROVE BoardInv'
  <2>1. /\ feeds' = feeds \/ feeds' = [feeds EXCEPT ![s] = NoFeed]
        /\ s # site /\ live' = live
    BY <1>9 DEF Collect
  <2>2. NoFeed = [has |-> FALSE, rows |-> {}] /\ NoFeed \in [has : BOOLEAN, rows : SUBSET Punches]
    BY DEF NoFeed
  <2>3. /\ feeds' \in [Sites -> [has : BOOLEAN, rows : SUBSET Punches]]
        /\ \A x \in Sites : feeds'[x] # feeds[x] => feeds'[x].rows = {} /\ feeds'[x].has = FALSE
    <3>1. CASE feeds' = feeds
      BY <1>6, <3>1
    <3>2. CASE feeds' = [feeds EXCEPT ![s] = NoFeed]
      <4>1. NoFeed.rows = {} /\ NoFeed.has = FALSE
        BY <2>2
      <4> QED
        BY <1>6, <2>2, <3>2, <4>1
    <3> QED
      BY <2>1, <3>1, <3>2
  <2>4. feeds'[site] = feeds[site]
    BY <1>1, <1>6, <2>1
  <2> QED
    BY <1>4, <1>6, <1>7, <2>1, <2>3, <2>4
<1>10. ASSUME NEW s \in Sites, TakeFeed(s) PROVE BoardInv'
  <2>1. PICK more : more = {r \in onServer : SiteOf[r] = s}
    OBVIOUS
  <2>2. /\ more \subseteq Punches
        /\ \A r \in more : SiteOf[r] = s /\ DayOf[r] <= today
    BY <1>1, <2>1 DEF BoardInv, ScreenBoardTypeOK, AnswersAreOfTheirSite
  <2>3. /\ feeds' = [feeds EXCEPT ![s] = [has |-> TRUE, rows |-> more]]
        /\ live' = IF s = site /\ Panels /\ feeds' # feeds THEN MergedFeed(more) ELSE live
    BY <1>10, <2>1 DEF TakeFeed
  <2>4. PICK ans : ans = [has |-> TRUE, rows |-> more]
    OBVIOUS
  <2>5. ans \in [has : BOOLEAN, rows : SUBSET Punches] /\ ans.rows = more /\ ans.has = TRUE
    BY <2>2, <2>4
  <2>6. /\ feeds' = [feeds EXCEPT ![s] = ans] /\ feeds'[s] = ans
        /\ \A x \in Sites : x # s => feeds'[x] = feeds[x]
        /\ feeds' \in [Sites -> [has : BOOLEAN, rows : SUBSET Punches]]
    BY <1>6, <2>3, <2>4, <2>5
  <2>7. \A x \in Sites : feeds'[x] # feeds[x] =>
               /\ \A r \in feeds'[x].rows : SiteOf[r] = x /\ DayOf[r] <= today
               /\ ~feeds'[x].has => feeds'[x].rows = {}
    BY <2>2, <2>5, <2>6
  <2>8. CASE s = site /\ Panels /\ feeds' # feeds
    <3>1. /\ PunchesAreTheBoards' /\ live' \subseteq Punches
          /\ \A r \in live' : DayOf[r] <= today
      BY <1>8, <2>2, <2>3, <2>5, <2>6, <2>8
    <3> QED
      BY <1>4, <2>6, <2>7, <2>8, <3>1
  <2>9. CASE ~(s = site /\ Panels /\ feeds' # feeds)
    <3>1. live' = live
      BY <2>3, <2>9
    <3>2. CASE feeds' = feeds \/ s # site
      <4>1. feeds'[site] = feeds[site]
        BY <1>1, <2>6, <3>2
      <4> QED
        BY <1>4, <1>6, <1>7, <2>6, <2>7, <3>1, <4>1
    <3>3. CASE ~Panels
      <4>1. PunchesAreTheBoards'
        BY <1>3, <3>3 DEF PunchesAreTheBoards
      <4> QED
        BY <1>4, <1>6, <2>6, <2>7, <3>1, <4>1
    <3> QED
      BY <2>9, <3>2, <3>3
  <2> QED
    BY <2>8, <2>9
<1>11. ASSUME feeds' = feeds, live' = live PROVE BoardInv'
  BY <1>4, <1>6, <1>7, <1>11
<1>12. ASSUME NEW s \in Sites, FeedFails(s) PROVE BoardInv'
  BY <1>11, <1>12 DEF FeedFails
<1>13. CASE PollFeed
  BY <1>11, <1>13 DEF PollFeed
<1>14. CASE DrawAgain
  <2>1. Panels /\ ~feeds[site].has /\ live' = MergedFeed({}) /\ feeds' = feeds
    BY <1>14 DEF DrawAgain
  <2>2. feeds'[site].rows = {}
    BY <1>5, <1>6, <2>1
  <2>3. /\ PunchesAreTheBoards' /\ live' \subseteq Punches
        /\ \A r \in live' : DayOf[r] <= today
    BY <1>8, <2>1, <2>2
  <2> QED
    BY <1>4, <1>6, <2>1, <2>3
<1> QED
  BY <1>9, <1>10, <1>12, <1>13, <1>14

\* Records change on the server, and days.
LEMMA ServerStep ==
  ASSUME BoardInv, (\E r \in Punches : ChangeRecord(r)) \/ Midnight
  PROVE  BoardInv'
<1>1. /\ UNCHANGED <<site, tab, boards, broken, feeds, asked, live, kept, turns>>
      /\ onServer' \subseteq Punches /\ \A r \in onServer' : DayOf[r] <= today
      /\ today' = today \/ (today = 1 /\ today' = 2)
      /\ news' \in 0..MaxNews
  <2>1. onServer \subseteq Punches /\ \A r \in onServer : DayOf[r] <= today
    BY DEF BoardInv, ScreenBoardTypeOK, AnswersAreOfTheirSite
  <2>2. MaxNews \in Nat /\ news \in 0..MaxNews
    BY ScreenBoardAssumption DEF BoardInv, ScreenBoardTypeOK
  <2>3. CASE \E r \in Punches : ChangeRecord(r)
    <3>1. PICK r \in Punches : ChangeRecord(r)
      BY <2>3
    <3>2. DayOf[r] <= today /\ onServer' \subseteq onServer \cup {r}
      BY <3>1 DEF ChangeRecord
    <3>3. UNCHANGED <<site, tab, boards, broken, feeds, asked, live, kept, turns, today>>
      BY <3>1 DEF ChangeRecord
    <3>4. news < MaxNews /\ news' = news + 1
      BY <3>1 DEF ChangeRecord, News
    <3>5. news' \in 0..MaxNews
      BY <2>2, <3>4
    <3> QED
      BY <2>1, <3>2, <3>3, <3>5
  <2>4. CASE Midnight
    BY <2>1, <2>2, <2>4 DEF Midnight
  <2> QED
    BY <2>3, <2>4
<1>2. /\ today \in 1..2 /\ today' \in 1..2 /\ today <= today'
      /\ DayOf \in [Punches -> 1..2]
  BY <1>1, ScreenBoardAssumption DEF BoardInv, ScreenBoardTypeOK
<1>3. ScreenBoardTypeOK'
  BY <1>1, <1>2 DEF BoardInv, ScreenBoardTypeOK
<1>4. \A r \in Punches : DayOf[r] <= today => DayOf[r] <= today'
  BY <1>2
<1>5. site \in Sites /\ feeds[site].rows \subseteq Punches /\ live \subseteq Punches
  BY DEF BoardInv, ScreenBoardTypeOK
<1>6. AnswersAreOfTheirSite'
  <2>1. \A r \in onServer' : DayOf[r] <= today'
    BY <1>1, <1>4
  <2>2. \A s \in Sites : \A r \in feeds[s].rows : r \in Punches
    BY DEF BoardInv, ScreenBoardTypeOK
  <2> QED
    BY <1>1, <1>4, <2>1, <2>2 DEF BoardInv, AnswersAreOfTheirSite
<1>7. Panels' <=> Panels
  BY <1>1 DEF Panels, PanelsOf
<1>8. ListIsOfThePanels'
  BY <1>1, <1>4, <1>5, <1>7 DEF BoardInv, ListIsOfThePanels
<1>9. PICK rs : rs = feeds[site].rows
  OBVIOUS
<1>10. feeds'[site'].rows = rs
  BY <1>1, <1>9
<1>11. CASE today' = today
  <2>1. Todays(feeds[site].rows)' = Todays(rs)
    BY <1>10, <1>11 DEF Todays, Newest
  <2> QED
    <3>1. PunchesAreTheBoards'
      BY <1>1, <1>7, <1>9, <1>10, <1>11, <2>1 DEF BoardInv, PunchesAreTheBoards
    <3> QED
      BY <1>3, <1>6, <1>8, <3>1 DEF BoardInv
<1>12. CASE today = 1 /\ today' = 2
  <2>1. \A r \in rs : DayOf[r] # 2
    BY <1>2, <1>5, <1>9, <1>12 DEF BoardInv, AnswersAreOfTheirSite
  <2>2. Todays(feeds[site].rows)' = {}
    BY <1>10, <1>12, <2>1 DEF Todays, Newest
  <2>3. PunchesAreTheBoards'
    BY <1>1, <1>7, <1>10, <1>12, <2>1, <2>2 DEF BoardInv, PunchesAreTheBoards
  <2> QED
    BY <1>3, <1>6, <1>8, <2>3 DEF BoardInv
<1> QED
  BY <1>1, <1>11, <1>12

\* Every step keeps the invariant.
LEMMA BoardInvStep == BoardInv /\ [ScreenBoardNext]_boardVars => BoardInv'
<1>1. ASSUME BoardInv, UNCHANGED boardVars
      PROVE  BoardInv'
  <2>1. /\ ScreenBoardTypeOK' /\ AnswersAreOfTheirSite' /\ ListIsOfThePanels'
    BY <1>1 DEF boardVars, BoardInv, ScreenBoardTypeOK, AnswersAreOfTheirSite, ListIsOfThePanels, Panels, PanelsOf
  <2>2. PunchesAreTheBoards'
    BY <1>1 DEF boardVars, BoardInv, PunchesAreTheBoards, Panels, PanelsOf, Todays, Newest
  <2> QED
    BY <2>1, <2>2 DEF BoardInv
<1> QED
  BY <1>1, BoardDrawingStep, FeedStep, ServerStep DEF ScreenBoardNext

-----------------------------------------------------------------------------
(***************************************************************************)
(* The card of a person on the data screen, for any projects, months and   *)
(* choices.                                                                *)
(***************************************************************************)

CardRows == CardProjects \X CardMonths
CardRequests == [nth : 1..MaxPicks, of : CardRows \cup {Worker}, live : BOOLEAN]

CardTyped ==
  /\ card \in BOOLEAN /\ cardTab \in {"history", "attendance"}
  /\ worker \in {"loading", "there", "missing"}
  /\ filterProject \in CardProjects /\ filterMonth \in CardMonths
  /\ calendarRow \in CardRows \cup {NoRow} /\ attLoading \in BOOLEAN
  /\ inFlight \subseteq CardRequests
  /\ picks \in 0..MaxPicks

\* What is not cancelled is of an open card, and attendance of the choice that is shown.
LiveIsOfTheChoice ==
  \A r \in inFlight : r.live => /\ card
                                /\ r.of # Worker => cardTab = "attendance" /\ r.of = <<filterProject, filterMonth>>

\* The property, which is inductive with the rest.
CardInv == CardTyped /\ LiveIsOfTheChoice /\ CardIsOfTheChoice

LEMMA CardIsTyped ==
  ASSUME CardTyped
  PROVE  ScreenPersonTypeOK
<1>1. ASSUME NEW r \in inFlight PROVE r.nth \in 1..MaxPicks /\ r.live \in BOOLEAN
  BY <1>1 DEF CardTyped, CardRequests
<1> QED
  BY <1>1 DEF CardTyped, ScreenPersonTypeOK, CardRows

\* A row is neither missing nor the person.
LEMMA RowsAreRows ==
  ASSUME NEW p \in CardProjects, NEW m \in CardMonths
  PROVE  <<p, m>> \in CardRows /\ <<p, m>> # Worker /\ <<p, m>> # NoRow
BY DEF CardRows, Worker, NoRow

LEMMA CardRequest ==
  ASSUME NEW of \in CardRows \cup {Worker}, picks' \in 1..MaxPicks, NEW r, r = Request(of)
  PROVE  r \in CardRequests /\ r.of = of /\ r.live = TRUE
BY DEF Request, CardRequests

\* What was cancelled is heard by nobody.
LEMMA CancelledIsDead ==
  ASSUME inFlight \subseteq CardRequests
  PROVE  Cancelled \subseteq CardRequests /\ \A r \in Cancelled : r.live = FALSE
<1>1. ASSUME NEW r \in inFlight
      PROVE  [r EXCEPT !.live = FALSE] \in CardRequests /\ [r EXCEPT !.live = FALSE].live = FALSE
  BY DEF CardRequests
<1> QED
  BY <1>1 DEF Cancelled

LEMMA CardInvInit ==
  ASSUME ScreenPersonInit
  PROVE  CardInv
<1>1. CardTyped
  <2>1. (CHOOSE p \in CardProjects : TRUE) \in CardProjects /\ (CHOOSE m \in CardMonths : TRUE) \in CardMonths
    BY ScreenPersonAssumption
  <2>2. filterProject \in CardProjects /\ filterMonth \in CardMonths /\ picks \in 0..MaxPicks
    BY <2>1, ScreenPersonAssumption DEF ScreenPersonInit
  <2> QED
    BY <2>2 DEF ScreenPersonInit, CardTyped
<1> QED
  BY <1>1 DEF ScreenPersonInit, CardInv, LiveIsOfTheChoice, CardIsOfTheChoice

LEMMA OpenCardKeeps ==
  ASSUME CardInv, NEW p \in CardProjects, OpenCard(p)
  PROVE  CardInv'
<1>1. PICK q : q = Request(Worker) /\ inFlight' = inFlight \cup {q}
  BY DEF OpenCard
<1>2. /\ ~card /\ picks < MaxPicks /\ picks' = picks + 1
      /\ card' = TRUE /\ cardTab' = "history" /\ worker' = "loading"
      /\ filterProject' = p /\ filterMonth' = CHOOSE m \in CardMonths : TRUE
      /\ calendarRow' = NoRow /\ attLoading' = FALSE
  BY DEF OpenCard, Pick
<1>3. picks' \in 1..MaxPicks /\ picks' \in 0..MaxPicks
  BY <1>2, ScreenPersonAssumption DEF CardInv, CardTyped
<1>4. q \in CardRequests /\ q.of = Worker
  BY <1>1, <1>3, CardRequest
<1>5. CardTyped'
  BY <1>1, <1>2, <1>3, <1>4, ScreenPersonAssumption DEF CardInv, CardTyped
<1>6. LiveIsOfTheChoice'
  BY <1>1, <1>2, <1>4 DEF CardInv, LiveIsOfTheChoice
<1>7. CardIsOfTheChoice'
  BY <1>2 DEF CardIsOfTheChoice
<1> QED
  BY <1>5, <1>6, <1>7 DEF CardInv

LEMMA CloseCardKeeps ==
  ASSUME CardInv, CloseCard
  PROVE  CardInv'
<1>1. /\ card' = FALSE /\ inFlight' = Cancelled
      /\ UNCHANGED <<cardTab, worker, filterProject, filterMonth, calendarRow, attLoading, picks>>
  BY DEF CloseCard
<1>2. inFlight' \subseteq CardRequests /\ \A r \in inFlight' : r.live = FALSE
  BY <1>1, CancelledIsDead DEF CardInv, CardTyped
<1>3. CardTyped'
  BY <1>1, <1>2 DEF CardInv, CardTyped
<1> QED
  BY <1>1, <1>2, <1>3 DEF CardInv, LiveIsOfTheChoice, CardIsOfTheChoice

LEMMA AskKeeps ==
  ASSUME CardInv, NEW t \in {"history", "attendance"}, NEW p \in CardProjects, NEW m \in CardMonths,
         Ask(t, p, m)
  PROVE  CardInv'
<1>1. /\ card /\ card' /\ cardTab' = t /\ filterProject' = p /\ filterMonth' = m
      /\ picks < MaxPicks /\ picks' = picks + 1
      /\ attLoading' = (attLoading \/ t = "attendance") /\ UNCHANGED <<card, worker, calendarRow>>
  BY DEF Ask, Pick
<1>2. picks' \in 1..MaxPicks /\ picks' \in 0..MaxPicks
  BY <1>1, ScreenPersonAssumption DEF CardInv, CardTyped
<1>3. PICK q : q = Request(<<p, m>>) /\ inFlight' = Cancelled \cup (IF t = "attendance" THEN {q} ELSE {})
  BY DEF Ask
<1>4. <<p, m>> \in CardRows /\ <<p, m>> # Worker
  BY RowsAreRows
<1>5. q \in CardRequests /\ q.of = <<p, m>> /\ q.live = TRUE
  BY <1>2, <1>3, <1>4, CardRequest
<1>6. Cancelled \subseteq CardRequests /\ \A r \in Cancelled : r.live = FALSE
  BY CancelledIsDead DEF CardInv, CardTyped
<1>7. inFlight' \subseteq CardRequests /\ \A r \in inFlight' : r.live => t = "attendance" /\ r.of = <<p, m>>
  BY <1>3, <1>5, <1>6
<1>8. CardTyped'
  BY <1>1, <1>2, <1>7 DEF CardInv, CardTyped
<1>9. LiveIsOfTheChoice'
  BY <1>1, <1>7 DEF LiveIsOfTheChoice
<1>10. CardIsOfTheChoice'
  BY <1>1, <1>3, <1>5 DEF CardIsOfTheChoice
<1> QED
  BY <1>8, <1>9, <1>10 DEF CardInv

LEMMA TakeWorkerKeeps ==
  ASSUME CardInv, NEW r \in inFlight, NEW found \in {"there", "missing"}, TakeWorker(r, found)
  PROVE  CardInv'
<1>1. /\ r.of = Worker /\ worker' \in {worker, found} /\ inFlight' = inFlight \ {r}
      /\ UNCHANGED <<card, cardTab, filterProject, filterMonth, calendarRow, attLoading, picks>>
  BY DEF TakeWorker
<1>2. CardTyped'
  BY <1>1 DEF CardInv, CardTyped
<1>3. LiveIsOfTheChoice'
  BY <1>1 DEF CardInv, LiveIsOfTheChoice
<1>4. <<filterProject, filterMonth>> # Worker
  BY RowsAreRows DEF CardInv, CardTyped
<1>5. CardIsOfTheChoice'
  BY <1>1, <1>4 DEF CardInv, CardIsOfTheChoice
<1> QED
  BY <1>2, <1>3, <1>5 DEF CardInv

\* Only the answer to the last choice is heard, and it ends the loading.
LEMMA TakeCardCalendarKeeps ==
  ASSUME CardInv, NEW r \in inFlight, NEW found \in BOOLEAN, TakeCardCalendar(r, found)
  PROVE  CardInv'
<1>1. /\ r.of # Worker /\ inFlight' = inFlight \ {r}
      /\ IF r.live THEN calendarRow' = (IF found THEN r.of ELSE NoRow) /\ attLoading' = FALSE
         ELSE UNCHANGED <<calendarRow, attLoading>>
      /\ UNCHANGED <<card, cardTab, worker, filterProject, filterMonth, picks>>
  BY DEF TakeCardCalendar
<1>2. r \in CardRequests /\ r.of \in CardRows
  BY <1>1 DEF CardInv, CardTyped, CardRequests
<1>3. CardTyped'
  BY <1>1, <1>2 DEF CardInv, CardTyped
<1>4. LiveIsOfTheChoice'
  BY <1>1 DEF CardInv, LiveIsOfTheChoice
<1>5. CASE r.live
  <2>1. r.of = <<filterProject, filterMonth>>
    BY <1>1, <1>5 DEF CardInv, LiveIsOfTheChoice
  <2>2. CardIsOfTheChoice'
    BY <1>1, <1>5, <2>1 DEF CardIsOfTheChoice
  <2> QED
    BY <1>3, <1>4, <2>2 DEF CardInv
<1>6. CASE ~r.live
  <2>1. CardIsOfTheChoice'
    BY <1>1, <1>6 DEF CardInv, CardIsOfTheChoice
  <2> QED
    BY <1>3, <1>4, <2>1 DEF CardInv
<1> QED
  BY <1>5, <1>6

LEMMA CardInvStep ==
  ASSUME CardInv, [ScreenPersonNext]_cardVars
  PROVE  CardInv'
<1>1. CASE UNCHANGED cardVars
  BY <1>1 DEF cardVars, CardInv, CardTyped, LiveIsOfTheChoice, CardIsOfTheChoice
<1>2. ASSUME NEW p \in CardProjects, OpenCard(p) PROVE CardInv'
  BY <1>2, OpenCardKeeps
<1>3. CASE CloseCard
  BY <1>3, CloseCardKeeps
<1>4. filterProject \in CardProjects /\ filterMonth \in CardMonths /\ cardTab \in {"history", "attendance"}
  BY DEF CardInv, CardTyped
<1>5. ASSUME NEW p \in CardProjects, ChooseProject(p) PROVE CardInv'
  BY <1>4, <1>5, AskKeeps DEF ChooseProject
<1>6. ASSUME NEW m \in CardMonths, ChooseMonth(m) PROVE CardInv'
  BY <1>4, <1>6, AskKeeps DEF ChooseMonth
<1>7. ASSUME NEW t \in {"history", "attendance"}, ChooseCardTab(t) PROVE CardInv'
  BY <1>4, <1>7, AskKeeps DEF ChooseCardTab
<1>8. ASSUME NEW r \in inFlight, NEW found \in {"there", "missing"}, TakeWorker(r, found) PROVE CardInv'
  BY <1>8, TakeWorkerKeeps
<1>9. ASSUME NEW r \in inFlight, NEW found \in BOOLEAN, TakeCardCalendar(r, found) PROVE CardInv'
  BY <1>9, TakeCardCalendarKeeps
<1> QED
  BY <1>1, <1>2, <1>3, <1>5, <1>6, <1>7, <1>8, <1>9 DEF ScreenPersonNext

-----------------------------------------------------------------------------
(***************************************************************************)
(* The composition. A step of it is a step of one part: the other parts    *)
(* stutter, and so each keeps its invariant.                               *)
(***************************************************************************)

LEMMA PartsMove ==
  ASSUME [EdgesNext]_edgeVars
  PROVE  /\ [EditorNext]_editorVars /\ [FieldsNext]_fieldVars /\ [ListingNext]_listingVars
         /\ [WorkspaceNext]_workspaceVars /\ [MiniHomeNext]_homeVars /\ [MiniListNext]_listVars
         /\ [MiniAttendanceNext]_attendanceVars /\ [MiniCameraNext]_cameraVars /\ [MockNext]_mockVars
         /\ [ManagedDispatchNext]_pushVars /\ [ReportRunsNext]_reportVars
         /\ [ScreenDashboardNext]_dashboardVars /\ [ScreenBoardNext]_boardVars /\ [ScreenPersonNext]_cardVars
         /\ [PlacePickerNext]_pickerVars /\ [PreviewsNext]_previewsVars
<1>1. \/ UNCHANGED edgeVars
      \/ EdgesNext
  OBVIOUS
<1> QED
  BY <1>1 DEF EdgesNext, Moves, edgeVars, screenVars

\* What all the parts keep.
EdgesInv ==
  /\ EditorInv /\ FieldsInv /\ ListingInv /\ WorkspaceInv /\ HomeInv /\ ListInv
  /\ AttendanceInv /\ CameraInv /\ MockInv /\ LogInv /\ PushInv /\ RunsInv
  /\ DashboardInv /\ BoardInv /\ CardInv /\ PickerInv /\ PreviewsInv
  /\ part \in Parts /\ edits \in 0..MaxEdits /\ MockTyped /\ DeskTyped

(* Whichever part moves, each keeps its invariant. *)
THEOREM PartsKeepTheirInvariants == EdgesSpec => []EdgesInv
<1>1. EdgesInit => EdgesInv
  <2> SUFFICES ASSUME EdgesInit PROVE EdgesInv
    OBVIOUS
  <2>1. /\ EditorInit /\ FieldsInit /\ ListingInit /\ WorkspaceInit /\ MiniHomeInit /\ MiniListInit
        /\ MiniAttendanceInit /\ MiniCameraInit /\ MockInit /\ ManagedDispatchInit /\ ReportRunsInit
        /\ ScreenDashboardInit /\ ScreenBoardInit /\ ScreenPersonInit /\ PlacePickerInit
        /\ PreviewsInit
    BY DEF EdgesInit
  <2>2. EditorInv /\ FieldsInv /\ ListingInv /\ WorkspaceInv /\ HomeInv /\ ListInv
    BY <2>1, EditorInvInit, FieldsInvInit, ListingInvInit, WorkspaceInvInit, HomeInvInit, ListInvInit
  <2>3. AttendanceInv /\ CameraInv /\ MockInv /\ LogInv /\ PushInv /\ RunsInv
    BY <2>1, AttendanceInvInit, CameraInvInit, MockInvInit, LogInvInit, PushInvInit, RunsInvInit
  <2>4. DashboardInv /\ BoardInv /\ CardInv /\ PickerInv /\ PreviewsInv
    BY <2>1, DashboardInvInit, BoardInvInit, CardInvInit, PickerInvInit, PreviewsInvInit
  <2>5. part \in Parts /\ edits \in 0..MaxEdits /\ MockTyped /\ DeskTyped
    BY <2>1, EditsInit, MockTypedInit, DeskTypedInit DEF EdgesInit
  <2> QED
    BY <2>2, <2>3, <2>4, <2>5 DEF EdgesInv
<1>2. EdgesInv /\ [EdgesNext]_edgeVars => EdgesInv'
  <2> SUFFICES ASSUME EdgesInv, [EdgesNext]_edgeVars PROVE EdgesInv'
    OBVIOUS
  <2>1. (EditorInv /\ FieldsInv /\ ListingInv /\ WorkspaceInv /\ HomeInv)'
    BY PartsMove, EditorInvStep, FieldsInvStep, ListingInvStep, WorkspaceInvStep, HomeInvStep DEF EdgesInv
  <2>2. (ListInv /\ AttendanceInv /\ CameraInv /\ MockInv /\ LogInv)'
    BY PartsMove, ListInvStep, AttendanceInvStep, CameraInvStep, MockInvStep, LogInvStep DEF EdgesInv
  <2>3. (PushInv /\ RunsInv /\ DashboardInv /\ BoardInv /\ CardInv)'
    BY PartsMove, PushInvStep, RunsInvStep, DashboardInvStep, BoardInvStep, CardInvStep DEF EdgesInv
  <2>4. (PickerInv /\ PreviewsInv /\ edits \in 0..MaxEdits /\ MockTyped /\ DeskTyped)'
    BY PartsMove, PickerInvStep, PreviewsInvStep, EditsStep, MockTypedStep, DeskTypedStep DEF EdgesInv
  <2>5. (part \in Parts)'
    BY DEF EdgesInv, EdgesNext, edgeVars
  <2> QED
    BY <2>1, <2>2, <2>3, <2>4, <2>5 DEF EdgesInv
<1> QED
  BY <1>1, <1>2, PTL DEF EdgesSpec

(* Types: what any part holds is of its kind and within its bound, in     *)
(* every behaviour, also the numbers of calls, rows and attempts.          *)
THEOREM EdgesAreTyped == EdgesSpec => []TypeOK
<1>1. EdgesInv => EditorTypeOK /\ FieldsTypeOK /\ ManagedDispatchTypeOK /\ MockTypeOK
  BY EditorIsTyped, FieldsAreTyped, PushesAreTyped DEF EdgesInv, MockTyped
<1>2. EdgesInv => ListingTypeOK /\ MiniListTypeOK /\ MiniCameraTypeOK /\ ScreenDashboardTypeOK
  BY ListingInvSuffices, ListInvSuffices, CameraInvSuffices, DashboardInvSuffices DEF EdgesInv
<1>3. EdgesInv => MiniAttendanceTypeOK /\ ScreenPersonTypeOK
  BY AttendanceIsTyped, CardIsTyped DEF EdgesInv, AttendanceInv, CardInv
<1>4. EdgesInv => /\ WorkspaceTypeOK /\ MiniHomeTypeOK /\ ReportRunsTypeOK /\ ScreenBoardTypeOK
                  /\ PlacePickerTypeOK /\ PreviewsTypeOK
  BY DEF EdgesInv, WorkspaceInv, HomeInv, RunsInv, BoardInv, PickerInv, PreviewsInv
<1>5. EdgesInv => TypeOK
  BY <1>1, <1>2, <1>3, <1>4 DEF TypeOK, EdgesInv
<1> QED
  BY <1>5, PartsKeepTheirInvariants, PTL

(* Report runs keep apart: for as long as no worker outlives its lease,    *)
(* however many workers die, runs are cancelled and configurations change. *)
(* A run that was put back after its success is excepted.                  *)
THEOREM EdgesKeepRunsApart == EdgesSpec => []RunsKeepApart
<1>1. EdgesInv => RunsKeepApart
  BY AloneIsOne DEF EdgesInv, RunsInv, RunsKeepApart
<1> QED
  BY <1>1, PartsKeepTheirInvariants, PTL

(* Replay protection of the mock, whatever the numbers of calls, faults,   *)
(* resets and restarts are, and however far the clock runs.                *)
THEOREM NoCallPassesTwice == EdgesSpec => []ReplaysAreRefused
<1>1. EdgesInv => ReplaysAreRefused
  BY DEF EdgesInv, MockInv, ReplaysAreRefused
<1> QED
  BY <1>1, PartsKeepTheirInvariants, PTL

(* Pushes: a photo is repeated only for a delivery that no row tells of,   *)
(* what was cancelled on the shelf stays there, and a record that says so  *)
(* was taken by every device, unless its status was written by one who had *)
(* not seen another settlement.                                            *)
THEOREM PushesStayRight == EdgesSpec => []PushesAreRight
<1>1. EdgesInv => PushesAreRight
  BY PushInvSuffices DEF EdgesInv, PushesAreRight
<1> QED
  BY <1>1, PartsKeepTheirInvariants, PTL

(* Forms: what the user of one row typed is neither shown nor saved under  *)
(* another row, and a form makes at most one row, however many forms are   *)
(* open one after the other, saved and answered late.                      *)
THEOREM FormsStayWithTheirRow == EdgesSpec => []FormsKeepToTheirRow
<1>1. EdgesInv => FormsKeepToTheirRow
  BY EditorInvSuffices DEF EdgesInv, FormsKeepToTheirRow
<1> QED
  BY <1>1, PartsKeepTheirInvariants, PTL

(* Saves: what others changed meanwhile survives them, each page according *)
(* to what it sends, and what nobody touched comes out of a form as it     *)
(* went in, for users of any zone and any number of edits.                 *)
THEOREM UntouchedSurvives == EdgesSpec => []UntouchedStays
<1>1. EdgesInv => UntouchedStays
  BY EditorInvSuffices, FieldsInvSuffices DEF EdgesInv, UntouchedStays
<1> QED
  BY <1>1, PartsKeepTheirInvariants, PTL

(* Lists: the page that is shown is not beyond the rows of its filter, the *)
(* rows that were appended as the user scrolled are its filter's, each     *)
(* once, unless another word was typed and not searched for, and the       *)
(* markers of a map are those that are searched for, for any rows and any  *)
(* number of changes and answers.                                          *)
THEOREM ListsStayTrue == EdgesSpec => []ListsAreTrue
<1>1. EdgesInv => ListsAreTrue
  BY ListingInvSuffices, ListInvSuffices, DashboardInvSuffices DEF EdgesInv, ListsAreTrue
<1> QED
  BY <1>1, PartsKeepTheirInvariants, PTL

(* The windows and menus of the console: those that the user opened stay   *)
(* until the user closes them or may not see them any more.                *)
THEOREM WindowsAndMenusStay == EdgesSpec => []ChoicesStay
<1>1. EdgesInv => ChoicesStay
  BY WorkspaceInvSuffices DEF EdgesInv
<1> QED
  BY <1>1, PartsKeepTheirInvariants, PTL

(* The mini program: its home page shows one project of the user whose     *)
(* session it is, and its forms start from rows with the user's own        *)
(* changes, for any users, projects, rows and answers on their way.        *)
THEOREM MiniPagesStayCurrent == EdgesSpec => []MiniPagesAreCurrent
<1>1. EdgesInv => MiniPagesAreCurrent
  BY HomeInvSuffices, ListInvSuffices DEF EdgesInv, MiniPagesAreCurrent
<1> QED
  BY <1>1, PartsKeepTheirInvariants, PTL

(* Answers are shown as what they are, whenever they come: records under   *)
(* their date and person, punches with their place and in their list, the  *)
(* numbers, the punches and the attendance of the data screen as the last  *)
(* that came of what is chosen, the name of a point under that point, a    *)
(* preview under its choice, what is written after it once, and in the log *)
(* of the mock what the client of the platform was told.                   *)
THEOREM AnswersStayFiledRight == EdgesSpec => []AnswersAreFiledRight
<1>1. EdgesInv => RecordsAreFiledRight /\ PunchesAreTheBoards /\ CardIsOfTheChoice /\ LogIsRight
  BY DEF EdgesInv, AttendanceInv, BoardInv, CardInv, LogInv
<1>2. EdgesInv => PunchesAreRight /\ NumbersArrive /\ PlacesAreNamedRight
             /\ WhatIsShownIsWritten
  BY CameraInvSuffices, DashboardInvSuffices DEF EdgesInv, PickerInv, PreviewsInv
<1>3. EdgesInv => AnswersAreFiledRight
  BY <1>1, <1>2 DEF AnswersAreFiledRight
<1> QED
  BY <1>3, PartsKeepTheirInvariants, PTL
=============================================================================

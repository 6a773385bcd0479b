--------------------------------- MODULE Fields ---------------------------------
(***************************************************************************)
(* The fields of the console's and the mini program's forms: how the value *)
(* of a row becomes the text of a form, what a user can do to it, and how  *)
(* the text becomes a value again (construction-form-fields.ts, form-      *)
(* utils.js). A form is a set of fields that are treated alike one by one, *)
(* so that there is one field here, of one form of one client; what makes  *)
(* fields differ is a record, and a form the set of those it has.          *)
(***************************************************************************)
EXTENDS Integers, Sequences

CONSTANTS Zones,      \* hours the clocks of the users are ahead
          MaxEdits    \* bound: forms opened

ASSUME FieldsAssumption == Zones \subseteq 0..14 /\ MaxEdits \in Nat

\* A value is <<>>, or <<x>> with a number that stands for it: the hour of a
\* time, the number of the choice. What is rough has blanks around it, or
\* seconds, or a region that is no district, or a file without an address.
Values == {<<>>} \cup {<<[n |-> n, rough |-> r]>> : n \in 0..2, r \in BOOLEAN}
Smooth(v) == IF v = <<>> THEN v ELSE <<[v[1] EXCEPT !.rough = FALSE]>>
Of(n) == <<[n |-> n, rough |-> FALSE]>>

\* with is what else the field depends on: the kind of the worker or of the
\* team, which a field of its own says, a map, or the districts there are.
Plain(type) == [type |-> type, required |-> FALSE, default |-> <<>>, with |-> "nothing"]
Required(f) == [f EXCEPT !.required = TRUE]
Default(f) == [f EXCEPT !.default = Of(0)]
Depends(f, on) == [f EXCEPT !.with = on]

ManagersWork == 1    \* the work of a team that manages, which no other has

projectFormFields ==
  {Required(Plain("string")), Default(Plain("number")), Plain("string"), Plain("date"), Plain("number"),
   Plain("json"), Depends(Plain("string"), "map")}
unitFormFields ==
  {Required(Plain("string")), Required(Plain("number")), Required(Plain("date")),
   Depends(Required(Plain("string")), "district"), Plain("string"), Plain("number"), Plain("json")}
teamFormFields ==
  {Default(Plain("boolean")), Default(Required(Plain("string"))), Required(Plain("string")),
   Depends(Required(Plain("number")), "management"), Plain("number"), Default(Plain("string")), Plain("string")}
\* A worker without a team gets the first there is.
workerFormFields ==
  {Default(Required(Plain("string"))), Required(Plain("string")), Plain("string"), Plain("date"),
   Default(Plain("number")), Plain("number"), Default(Plain("boolean")), Required(Plain("number")),
   Default(Required(Plain("number"))), Depends(Required(Plain("string")), "worker type"), Plain("json")}
attendanceFormFields ==
  {Default(Required(Plain("string"))), Default(Plain("number")), Required(Plain("datetime")), Plain("string")}

unitFields == unitFormFields
teamFields == (teamFormFields \ {Default(Required(Plain("string")))}) \cup {Required(Plain("string"))}
workerFields == (workerFormFields \ {Default(Required(Plain("string")))}) \cup {Required(Plain("string"))}
attendanceFields == (attendanceFormFields \ {Default(Required(Plain("string")))}) \cup {Required(Plain("string"))}
deviceFields == {Default(Required(Plain("string"))), Required(Plain("string")), Default(Plain("number")), Plain("string")}

\* The console sends of a project only what was changed.
RecordForms ==
  [client : {"web"}, sends : {"changes"}, field : projectFormFields] \cup
  [client : {"web"}, sends : {"all"},
   field : unitFormFields \cup teamFormFields \cup workerFormFields \cup attendanceFormFields] \cup
  [client : {"mini"}, sends : {"all"},
   field : unitFields \cup teamFields \cup workerFields \cup attendanceFields \cup deviceFields]
-----------------------------------------------------------------------------
VARIABLES
  recordForm,  \* the field
  zone,        \* of its user
  stored,      \* the value of the row, and whether the worker or team is of the kind that manages
  text,        \* the form: the same, as text
  first,       \* the form as it was opened
  lastSave,    \* history: the form that was saved last, with the row before and after
  edits

fieldVars == <<recordForm, zone, stored, text, first, lastSave, edits>>

NoText == [open |-> FALSE, value |-> <<>>, manages |-> FALSE]
NoSave == [done |-> FALSE, sent |-> FALSE, text |-> NoText, touched |-> FALSE, was |-> <<>>]

\* A row agrees with what the forms let be chosen; a value that is required is there.
FieldsInit ==
  /\ recordForm \in RecordForms
  /\ zone \in Zones
  /\ stored \in [value : Values, manages : BOOLEAN]
  /\ recordForm.field.type \in {"number", "boolean", "date"} => stored.value = Smooth(stored.value)
  /\ recordForm.field.with \notin {"management", "worker type"} => ~stored.manages
  /\ recordForm.field.with = "management" =>
       stored.value /= <<>> /\ (stored.manages <=> stored.value[1].n = ManagersWork)
  /\ text = NoText /\ first = NoText
  /\ lastSave = NoSave
  /\ edits = 0
-----------------------------------------------------------------------------
Moved(v, by) == IF v = <<>> THEN v ELSE <<[v[1] EXCEPT !.n = @ + by]>>

\* valueToFormString and toDatetimeLocal of the console: the text of a time is
\* its text in Greenwich.
WebText(f, v) ==
  IF v = <<>> THEN f.default ELSE IF f.type = "datetime" THEN Smooth(v) ELSE v

\* Mutant: as the console does.
MiniTextUnmoved(f, v) ==
  IF v = <<>> THEN f.default ELSE IF f.type = "datetime" THEN Smooth(v) ELSE v

\* buildDefaultForm and toDatetimeLocal of the mini program.
MiniText(f, v) ==
  IF v = <<>> THEN f.default ELSE IF f.type = "datetime" THEN Moved(Smooth(v), zone) ELSE v

TextOf(v) == IF recordForm.client = "web" THEN WebText(recordForm.field, v) ELSE MiniText(recordForm.field, v)

\* isFieldVisible.
Visible(f, manages) == f.with /= "worker type" \/ manages

\* What cannot be saved: an empty field that is required, a region that is no district.
Refused(f, t) ==
  /\ Visible(f, t.manages)
  /\ \/ f.required /\ t.value = <<>>
     \/ f.with = "district" /\ t.value /= <<>> /\ t.value[1].rough

\* buildPayloadFromForm: both clients read a time as one of the user's clock.
\* Only the console makes an empty choice of yes and no a no.
Payload(f, t) ==
  CASE f.type = "boolean" /\ recordForm.client = "web" /\ t = <<>> -> Of(0)
    [] f.type = "datetime" -> Moved(Smooth(t), -zone)
    [] f.type = "json"     -> t
    [] OTHER               -> Smooth(t)

\* What is not in the payload stays as it is.
Sent(f, t) ==
  /\ Visible(f, t.manages)
  /\ recordForm.client = "web" => f.with /= "map"
  /\ recordForm.sends = "changes" => Smooth(t.value) /= Smooth(first.value)
-----------------------------------------------------------------------------
Edit == edits < MaxEdits /\ edits' = edits + 1

OpenRecord ==
  /\ ~text.open
  /\ Edit
  /\ text' = [open |-> TRUE, value |-> TextOf(stored.value), manages |-> stored.manages]
  /\ first' = text'
  /\ UNCHANGED <<recordForm, zone, stored, lastSave>>

\* A choice offers what there is; a region is complete or none, and the work of
\* a team that manages is for it only.
Chosen(x) == x = Smooth(x)
WholeRegion(f, x) == f.with = "district" => x = Smooth(x)
Offered(f, x) == f.with = "management" => x /= <<>> /\ (text.manages <=> x[1].n = ManagersWork)

EnterText(x) ==
  LET f == recordForm.field
  IN  /\ text.open /\ x /= text.value
      /\ f.type \in {"number", "boolean", "date", "json"} => Chosen(x)
      /\ WholeRegion(f, x) /\ Offered(f, x)
      /\ text' = [text EXCEPT !.value = x]
      /\ UNCHANGED <<recordForm, zone, stored, first, lastSave, edits>>

\* A team that begins to manage gets that work, and loses it when it ends.
SwitchKind ==
  LET f == recordForm.field
      on == ~text.manages
  IN  /\ text.open
      /\ f.with \in {"management", "worker type"}
      /\ text' = [text EXCEPT !.manages = on,
                    !.value = IF f.with /= "management" THEN @
                              ELSE IF on THEN Of(ManagersWork)
                              ELSE IF @ = Of(ManagersWork) THEN <<>> ELSE @]
      /\ UNCHANGED <<recordForm, zone, stored, first, lastSave, edits>>

\* The console lists, and keeps, only files with an address.
Listable(v) == IF recordForm.client = "web" THEN Smooth(v) ELSE v

\* A file is added to those there are.
AddFile ==
  /\ text.open /\ recordForm.field.type = "json"
  /\ text.value /= <<>> => text.value[1].n < 2
  /\ text' = [text EXCEPT !.value = IF @ = <<>> THEN Of(1) ELSE Listable(Moved(@, 1))]
  /\ UNCHANGED <<recordForm, zone, stored, first, lastSave, edits>>

SaveRecord ==
  LET f == recordForm.field
  IN  /\ text.open
      /\ ~Refused(f, text)
      /\ stored' = [value |-> IF Sent(f, text) THEN Payload(f, text.value) ELSE stored.value,
                    manages |-> text.manages]
      /\ lastSave' = [done |-> TRUE, sent |-> Sent(f, text), text |-> text, touched |-> text /= first, was |-> stored.value]
      /\ text' = NoText /\ first' = NoText
      /\ UNCHANGED <<recordForm, zone, edits>>

DropForm ==
  /\ text.open
  /\ text' = NoText /\ first' = NoText
  /\ UNCHANGED <<recordForm, zone, stored, lastSave, edits>>

FieldsNext ==
  \/ OpenRecord
  \/ \E x \in Values : EnterText(x)
  \/ SwitchKind \/ AddFile \/ SaveRecord \/ DropForm
-----------------------------------------------------------------------------
Times == {v \in Seq([n : Int, rough : BOOLEAN]) : Len(v) <= 1}
Texts == [open : BOOLEAN, value : Times, manages : BOOLEAN]

FieldsTypeOK ==
  /\ recordForm \in RecordForms /\ zone \in Zones
  /\ stored \in [value : Times, manages : BOOLEAN]
  /\ {text, first, lastSave.text} \subseteq Texts
  /\ {lastSave.done, lastSave.sent, lastSave.touched} \subseteq BOOLEAN /\ lastSave.was \in Times
  /\ edits \in 0..MaxEdits

\* What nobody touched stays as it was, but for the default of a field that was
\* empty, and blanks and seconds; and what was typed is there when the row is
\* opened again, but for an empty field with a default. The exception is a time
\* in the console of somebody who is not in Greenwich: it shows a time as it is there
\* and takes it back as one of the user's clock, so that every save of a record
\* moves its time (toDatetimeLocal slices an ISO string, buildPayloadFromForm
\* parses without a zone).
FieldsStay ==
  LET f == recordForm.field
      moves == recordForm.client = "web" /\ f.type = "datetime" /\ zone /= 0
      tidy(v) == IF f.type = "json" THEN v ELSE Smooth(v)
      filled(v) == IF v = <<>> /\ lastSave.sent THEN f.default ELSE v
  IN  lastSave.done /\ ~moves =>
        /\ ~lastSave.touched => tidy(stored.value) = tidy(filled(lastSave.was))
        /\ text.open /\ text = first /\ lastSave.sent =>
             tidy(text.value) = tidy(IF lastSave.text.value = <<>> THEN f.default ELSE lastSave.text.value)

\* A team has the work of those that manage when, and only when, it manages.
ManagementAgrees ==
  recordForm.field.with = "management" => (stored.manages <=> stored.value[1].n = ManagersWork)
=============================================================================

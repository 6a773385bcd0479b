------------------------------- MODULE Forms --------------------------------
(***************************************************************************)
(* The forms of the console's pages and of the mini program, told apart by *)
(* what matters to Editor. Of each page: what its buttons open (creates,   *)
(* edits) and whether the form is filled at once or when its data have     *)
(* come (fills); what its save sends (all its fields, or the changes), how *)
(* it finds the row (at once, or after a wait for the network: the row of  *)
(* then or of now), what it does next, and whether it closes the form;     *)
(* whether the dialog is locked while it saves, and can be closed; and     *)
(* where the result of an upload goes. Fields and layout are left out.     *)
(***************************************************************************)
FormOf(opener, save, dialog, helper) ==
  [creates |-> opener.creates, edits |-> opener.edits, fills |-> opener.fills,
   sends |-> save.sends, next |-> save.next, closes |-> save.closes, row |-> save.row,
   lock |-> dialog.lock, closable |-> dialog.closable, helper |-> helper]

\* Enterprise customers.
CustomerOpener == [creates |-> TRUE, edits |-> TRUE, fills |-> "at once"]
CustomerSave == [sends |-> "all", next |-> "nothing", closes |-> TRUE, row |-> "of now"]
CustomerDialog == [lock |-> TRUE, closable |-> TRUE]

\* Enterprise projects.
EnterpriseProjectOpener == [creates |-> TRUE, edits |-> TRUE, fills |-> "at once"]
EnterpriseProjectSave == [sends |-> "all", next |-> "nothing", closes |-> TRUE, row |-> "of now"]
EnterpriseProjectDialog == [lock |-> TRUE, closable |-> TRUE]

\* The projects of one customer.
CustomerProjectOpener == [creates |-> TRUE, edits |-> FALSE, fills |-> "at once"]
CustomerProjectSave == [sends |-> "all", next |-> "nothing", closes |-> TRUE, row |-> "of then"]
CustomerProjectDialog == [lock |-> TRUE, closable |-> TRUE]

\* The enterprise's own entities.
EntityOpener == [creates |-> TRUE, edits |-> TRUE, fills |-> "at once"]
EntitySave == [sends |-> "all", next |-> "nothing", closes |-> TRUE, row |-> "of now"]
EntityDialog == [lock |-> TRUE, closable |-> TRUE]

\* The records of an enterprise project.
RecordOpener == [creates |-> TRUE, edits |-> TRUE, fills |-> "at once"]
RecordSave == [sends |-> "all", next |-> "nothing", closes |-> TRUE, row |-> "of now"]
RecordDialog == [lock |-> TRUE, closable |-> TRUE]
RecordAttachment == "into the form of then"

\* Contract templates.
TemplateOpener == [creates |-> TRUE, edits |-> TRUE, fills |-> "at once"]
TemplateSave == [sends |-> "all", next |-> "nothing", closes |-> TRUE, row |-> "of then"]
TemplateDialog == [lock |-> TRUE, closable |-> TRUE]
TemplateFile == "into the form of now"

\* Work hours of a project.
WorkHourOpener == [creates |-> TRUE, edits |-> TRUE, fills |-> "at once"]
WorkHourSave == [sends |-> "all", next |-> "nothing", closes |-> TRUE, row |-> "of then"]
WorkHourDialog == [lock |-> TRUE, closable |-> TRUE]

\* Platform configurations.
PlatformOpener == [creates |-> TRUE, edits |-> TRUE, fills |-> "at once"]
PlatformSave == [sends |-> "all", next |-> "nothing", closes |-> TRUE, row |-> "of then"]
PlatformDialog == [lock |-> TRUE, closable |-> TRUE]

\* Platform logs.
PlatformLogOpener == [creates |-> TRUE, edits |-> TRUE, fills |-> "at once"]
PlatformLogSave == [sends |-> "all", next |-> "nothing", closes |-> TRUE, row |-> "of then"]
PlatformLogDialog == [lock |-> FALSE, closable |-> TRUE]

\* Attendance devices.
BindingOpener == [creates |-> TRUE, edits |-> TRUE, fills |-> "at once"]
BindingSave == [sends |-> "all", next |-> "unlocked", closes |-> TRUE, row |-> "of then"]
BindingDialog == [lock |-> TRUE, closable |-> TRUE]

\* Device issue reports.
ReportOpener == [creates |-> TRUE, edits |-> FALSE, fills |-> "at once"]
ReportSave == [sends |-> "all", next |-> "nothing", closes |-> TRUE, row |-> "of then"]
ReportDialog == [lock |-> TRUE, closable |-> TRUE]

\* Attendance alerts.
AlertOpener == [creates |-> TRUE, edits |-> TRUE, fills |-> "at once"]
AlertSave == [sends |-> "all", next |-> "nothing", closes |-> TRUE, row |-> "of then"]
AlertDialog == [lock |-> TRUE, closable |-> TRUE]

\* Projects.
ProjectOpener == [creates |-> TRUE, edits |-> TRUE, fills |-> "at once"]
ProjectSave == [sends |-> "changes", next |-> "nothing", closes |-> TRUE, row |-> "of now"]
ProjectDialog == [lock |-> TRUE, closable |-> TRUE]

\* Persons.
EntryTimeOpener == [creates |-> FALSE, edits |-> TRUE, fills |-> "at once"]
EntryTimeSave == [sends |-> "all", next |-> "nothing", closes |-> TRUE, row |-> "of then"]
EntryTimeDialog == [lock |-> TRUE, closable |-> TRUE]

\* Permissions of a user.
PermissionsOpener == [creates |-> FALSE, edits |-> TRUE, fills |-> "at once"]
PermissionsSave == [sends |-> "all", next |-> "nothing", closes |-> TRUE, row |-> "of then"]
PermissionsDialog == [lock |-> TRUE, closable |-> TRUE]

\* Managed attendance.
ManagedOpener == [creates |-> TRUE, edits |-> TRUE, fills |-> "at once"]
ManagedSave == [sends |-> "all", next |-> "nothing", closes |-> TRUE, row |-> "of then"]
ManagedDialog == [lock |-> TRUE, closable |-> TRUE]
PhotoPair == "into the form of then"

\* Data reporting.
ReportingOpener == [creates |-> TRUE, edits |-> TRUE, fills |-> "later"]
ReportingSave == [sends |-> "all", next |-> "nothing", closes |-> TRUE, row |-> "of then"]
ReportingDialog == [lock |-> TRUE, closable |-> TRUE]

\* A project: its own fields, its rows, its workers.
ProjectEditOpener == [creates |-> FALSE, edits |-> TRUE, fills |-> "at once"]
ProjectEditSave == [sends |-> "changes", next |-> "nothing", closes |-> TRUE, row |-> "of then"]
ProjectEditDialog == [lock |-> TRUE, closable |-> TRUE]
UploadInRecord == "into the form of now"
RowOpenerNew == [creates |-> TRUE]
RowOpenerEdit == [edits |-> TRUE, fills |-> "at once"]
RowSave == [sends |-> "all", next |-> "nothing", closes |-> TRUE, row |-> "of then"]
RowDialog == [lock |-> TRUE, closable |-> TRUE]
ReentryOpener == [creates |-> FALSE, edits |-> TRUE, fills |-> "at once"]
ReentrySave == [sends |-> "all", next |-> "nothing", closes |-> TRUE, row |-> "of then"]
ReentryDialog == [lock |-> TRUE, closable |-> FALSE]
EntryDateOpener == [creates |-> FALSE, edits |-> TRUE, fills |-> "at once"]
EntryDateSave == [sends |-> "all", next |-> "nothing", closes |-> TRUE, row |-> "of then"]
EntryDateDialog == [lock |-> TRUE, closable |-> FALSE]

\* Attendance machines of a project.
MachineOpener == [creates |-> TRUE, edits |-> TRUE, fills |-> "at once"]
MachineSave == [sends |-> "all", next |-> "nothing", closes |-> TRUE, row |-> "of now or new"]
MachineDialog == [lock |-> TRUE, closable |-> TRUE]

\* Attendance areas of a project.
AreaOpener == [creates |-> TRUE, edits |-> TRUE, fills |-> "at once"]
AreaSave == [sends |-> "all", next |-> "nothing", closes |-> TRUE, row |-> "form of now"]
AreaDialog == [lock |-> TRUE, closable |-> TRUE]

\* Mini program: units, teams and devices.
ModuleOpener == [creates |-> TRUE, edits |-> TRUE, fills |-> "at once"]
ModuleSave == [sends |-> "all", next |-> "load", closes |-> TRUE, row |-> "at once"]
ModuleDialog == [lock |-> TRUE, closable |-> TRUE]
ModuleUpload == "into the form of now"

\* Mini program: workers.
WxWorkerOpener == [creates |-> FALSE, edits |-> TRUE, fills |-> "at once"]
WxWorkerSave == [sends |-> "all", next |-> "nothing", closes |-> TRUE, row |-> "at once"]
WxWorkerDialog == [lock |-> TRUE, closable |-> FALSE]
WxWorkerUpload == "into the form of now"
WxReentryOpener == [creates |-> FALSE, edits |-> TRUE, fills |-> "at once"]
WxReentrySave == [sends |-> "all", next |-> "nothing", closes |-> TRUE, row |-> "at once"]
WxReentryDialog == [lock |-> TRUE, closable |-> FALSE]

\* Mini program: onboarding.
OnboardingOpener == [creates |-> TRUE, edits |-> TRUE, fills |-> "at once"]
OnboardingSave == [sends |-> "all", next |-> "nothing", closes |-> FALSE, row |-> "at once"]
OnboardingDialog == [lock |-> TRUE, closable |-> TRUE]
OnboardingUpload == "into the form of now"
-----------------------------------------------------------------------------
Kinds ==
  {FormOf(CustomerOpener, CustomerSave, CustomerDialog, "none"),
   FormOf(EnterpriseProjectOpener, EnterpriseProjectSave, EnterpriseProjectDialog, "none"),
   FormOf(CustomerProjectOpener, CustomerProjectSave, CustomerProjectDialog, "none"),
   FormOf(EntityOpener, EntitySave, EntityDialog, "none"),
   FormOf(RecordOpener, RecordSave, RecordDialog, RecordAttachment),
   FormOf(TemplateOpener, TemplateSave, TemplateDialog, TemplateFile),
   FormOf(WorkHourOpener, WorkHourSave, WorkHourDialog, "none"),
   FormOf(PlatformOpener, PlatformSave, PlatformDialog, "none"),
   FormOf(PlatformLogOpener, PlatformLogSave, PlatformLogDialog, "none"),
   FormOf(BindingOpener, BindingSave, BindingDialog, "none"),
   FormOf(ReportOpener, ReportSave, ReportDialog, "none"),
   FormOf(AlertOpener, AlertSave, AlertDialog, "none"),
   FormOf(ProjectOpener, ProjectSave, ProjectDialog, "none"),
   FormOf(EntryTimeOpener, EntryTimeSave, EntryTimeDialog, "none"),
   FormOf(PermissionsOpener, PermissionsSave, PermissionsDialog, "none"),
   FormOf(ManagedOpener, ManagedSave, ManagedDialog, PhotoPair),
   FormOf(ReportingOpener, ReportingSave, ReportingDialog, "none"),
   FormOf(ProjectEditOpener, ProjectEditSave, ProjectEditDialog, "none"),
   FormOf([creates |-> RowOpenerNew.creates, edits |-> RowOpenerEdit.edits, fills |-> RowOpenerEdit.fills],
          RowSave, RowDialog, UploadInRecord),
   FormOf(ReentryOpener, ReentrySave, ReentryDialog, "none"),
   FormOf(EntryDateOpener, EntryDateSave, EntryDateDialog, "none"),
   FormOf(MachineOpener, MachineSave, MachineDialog, "none"),
   FormOf(AreaOpener, AreaSave, AreaDialog, "none"),
   FormOf(ModuleOpener, ModuleSave, ModuleDialog, ModuleUpload),
   FormOf(WxWorkerOpener, WxWorkerSave, WxWorkerDialog, WxWorkerUpload),
   FormOf(WxReentryOpener, WxReentrySave, WxReentryDialog, "none"),
   FormOf(OnboardingOpener, OnboardingSave, OnboardingDialog, OnboardingUpload)}
=============================================================================

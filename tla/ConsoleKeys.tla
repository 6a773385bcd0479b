---------------------------- MODULE ConsoleKeys ----------------------------
(***************************************************************************)
(* What the pages of the web console read and write through the query      *)
(* cache: for each part of the API the tables its requests read or write   *)
(* (XRequests, from the services), the cache entries the hooks keep of     *)
(* them (XQueries) and the entries a confirmed change marks as out of date *)
(* (XMutations). Keys are paths; marking a path marks every entry below    *)
(* it. One project, one customer and one record stand for all.             *)
(***************************************************************************)
EXTENDS Sequences, SequencesExt

\* A cache entry: its key, the tables whose rows it lists, and whether it is
\* fetched again at an interval while it is shown.
Query(key, rows) == [key |-> key, rows |-> rows, poll |-> FALSE]
Polled(queries) == {[q EXCEPT !.poll = TRUE] : q \in queries}

\* A change: the tables it writes, and the paths its success marks.
Mutation(writes, marks) == [writes |-> writes, marks |-> marks]

Marked(q, m) == \E path \in m.marks : IsPrefix(path, q.key)

-----------------------------------------------------------------------------
(* Construction projects. *)

Projects == <<"construction-projects">>
Project == Projects \o <<"detail", "p">>
UnitsRoot == Project \o <<"units">>
TeamsRoot == Project \o <<"teams">>
WorkersRoot == Project \o <<"workers">>
AttendanceRoot == Project \o <<"attendance">>
WagesRoot == Project \o <<"wage-batches">>
DevicesRoot == Project \o <<"attendance-devices">>
IssueReportsRoot == Projects \o <<"attendance-device-issue-reports">>
AlertConfigsRoot == Projects \o <<"attendance-alert-configs">>
AlertLogsRoot == Projects \o <<"attendance-alert-logs">>
TemplatesRoot == Projects \o <<"contract-templates">>
ContractConfig == Project \o <<"contract-template-config">>
WorkHoursRoot == Projects \o <<"work-hour-configs">>
PlatformConfigsRoot == Projects \o <<"platform-configs">>
PlatformLogsRoot == Projects \o <<"platform-logs">>

ProjectRequests ==
  [list |-> {"projects"}, page |-> {"projects"}, options |-> {"projects"}, get |-> {"projects"},
   create |-> {"projects"}, update |-> {"projects"}, delete |-> {"projects"}]

ProjectQueries ==
  {Query(Projects \o <<"list">>, ProjectRequests.list),
   Query(Projects \o <<"list-page", "filters">>, ProjectRequests.page),
   Query(Projects \o <<"options", "keyword">>, ProjectRequests.options),
   Query(Project, ProjectRequests.get)}

ProjectMutations ==
  {Mutation(ProjectRequests.create, {Projects}),
   Mutation(ProjectRequests.update, {Projects, Project}),
   Mutation(ProjectRequests.delete, {Projects})}

UnitRequests ==
  [page |-> {"units"}, all |-> {"units"}, save |-> {"units"}, delete |-> {"units"},
   repairReporting |-> {"integration_outbox_events"}]

UnitQueries ==
  {Query(UnitsRoot \o <<"filters">>, UnitRequests.page),
   Query(UnitsRoot \o <<"all">>, UnitRequests.all)}

UnitMutations ==
  {Mutation(UnitRequests.save, {UnitsRoot}),
   Mutation(UnitRequests.save, {UnitsRoot, UnitsRoot \o <<"unit">>}),
   Mutation(UnitRequests.delete, {UnitsRoot}),
   Mutation(UnitRequests.repairReporting, {UnitsRoot})}

TeamRequests ==
  [page |-> {"teams"}, all |-> {"teams"}, save |-> {"teams"}, delete |-> {"teams"},
   repairReporting |-> {"integration_outbox_events"}]

TeamQueries ==
  {Query(TeamsRoot \o <<"filters">>, TeamRequests.page),
   Query(TeamsRoot \o <<"all">>, TeamRequests.all)}

TeamMutations ==
  {Mutation(TeamRequests.save, {TeamsRoot}),
   Mutation(TeamRequests.save, {TeamsRoot, TeamsRoot \o <<"team">>}),
   Mutation(TeamRequests.delete, {TeamsRoot}),
   Mutation(TeamRequests.repairReporting, {TeamsRoot})}

\* Retiring somebody also rewrites the reports of the devices.
WorkerRequests ==
  [page |-> {"workers"}, all |-> {"workers"}, personnel |-> {"workers"},
   personnelDetail |-> {"workers"}, create |-> {"workers"}, update |-> {"workers"},
   delete |-> {"workers", "issue_reports"}, repairReporting |-> {"integration_outbox_events"}]

WorkerQueries ==
  {Query(WorkersRoot \o <<"filters">>, WorkerRequests.page),
   Query(WorkersRoot \o <<"all">>, WorkerRequests.all)}

WorkerMutations ==
  {Mutation(WorkerRequests.create, {WorkersRoot}),
   Mutation(WorkerRequests.update, {WorkersRoot, WorkersRoot \o <<"worker">>}),
   Mutation(WorkerRequests.delete, {WorkersRoot}),
   Mutation(WorkerRequests.repairReporting, {WorkersRoot})}

AttendanceRequests ==
  [page |-> {"attendance"}, all |-> {"attendance"}, calendar |-> {"attendance", "workers"},
   save |-> {"attendance"}, delete |-> {"attendance"}, repairYongxin |-> {"integration_jobs"},
   previewRepair |-> {}, commitGenerated |-> {"attendance"}]

AttendanceQueries ==
  {Query(AttendanceRoot \o <<"filters">>, AttendanceRequests.page),
   Query(AttendanceRoot \o <<"calendar", "month">>, AttendanceRequests.calendar),
   Query(AttendanceRoot \o <<"all">>, AttendanceRequests.all)}

\* Repairing the reports of a platform, and previewing it, mark nothing.
AttendanceMutations ==
  {Mutation(AttendanceRequests.save, {AttendanceRoot}),
   Mutation(AttendanceRequests.save, {AttendanceRoot, AttendanceRoot \o <<"record">>}),
   Mutation(AttendanceRequests.delete, {AttendanceRoot}),
   Mutation(AttendanceRequests.repairYongxin, {}),
   Mutation(AttendanceRequests.previewRepair, {})}

WageRequests ==
  [list |-> {"wage_batches"}, save |-> {"wage_batches"}, delete |-> {"wage_batches"},
   import |-> {"wage_batches"}]

WageQueries == {Query(WagesRoot \o <<"filters">>, WageRequests.list)}

\* A wage batch marks everything of its project.
WageMutations ==
  {Mutation(WageRequests.save, {Project}),
   Mutation(WageRequests.save, {Project, WagesRoot \o <<"batch">>}),
   Mutation(WageRequests.delete, {Project}),
   Mutation(WageRequests.import, {Project})}

DeviceRequests ==
  [list |-> {"attendance_devices"}, save |-> {"attendance_devices"},
   delete |-> {"attendance_devices"}, issueWorkers |-> {"attendance_devices", "issue_reports"}]

DeviceQueries == Polled({Query(DevicesRoot \o <<"filters">>, DeviceRequests.list)})

\* Mutant: an issue to a device marks the devices only.
DeviceMutationsNoReports ==
  {Mutation(DeviceRequests.save, {DevicesRoot}),
   Mutation(DeviceRequests.delete, {DevicesRoot}),
   Mutation(DeviceRequests.issueWorkers, {DevicesRoot})}

DeviceMutations ==
  {Mutation(DeviceRequests.save, {DevicesRoot}),
   Mutation(DeviceRequests.save, {DevicesRoot, DevicesRoot \o <<"record", "device">>}),
   Mutation(DeviceRequests.delete, {DevicesRoot}),
   Mutation(DeviceRequests.issueWorkers, {DevicesRoot, IssueReportsRoot})}

IssueReportRequests ==
  [list |-> {"issue_reports"}, get |-> {"issue_reports"}, save |-> {"issue_reports"},
   delete |-> {"issue_reports"}]

IssueReportQueries ==
  {Query(IssueReportsRoot \o <<"filters">>, IssueReportRequests.list),
   Query(IssueReportsRoot \o <<"report">>, IssueReportRequests.get)}

IssueReportMutations ==
  {Mutation(IssueReportRequests.save, {IssueReportsRoot}),
   Mutation(IssueReportRequests.save, {IssueReportsRoot, IssueReportsRoot \o <<"report">>}),
   Mutation(IssueReportRequests.delete, {IssueReportsRoot})}

AlertRequests ==
  [configs |-> {"alert_configs"}, logs |-> {"alert_logs"}, save |-> {"alert_configs"},
   delete |-> {"alert_configs", "alert_logs"}, run |-> {"alert_logs"}]

AlertQueries ==
  {Query(AlertConfigsRoot \o <<"filters">>, AlertRequests.configs),
   Query(AlertLogsRoot \o <<"filters">>, AlertRequests.logs)}

AlertMutations ==
  {Mutation(AlertRequests.save, {AlertConfigsRoot}),
   Mutation(AlertRequests.delete, {AlertConfigsRoot, AlertLogsRoot}),
   Mutation(AlertRequests.run, {AlertLogsRoot})}

ContractRequests ==
  [templates |-> {"contract_templates"}, save |-> {"contract_templates"},
   delete |-> {"contract_templates"}, config |-> {"contract_configs"},
   saveConfig |-> {"contract_configs"}]

ContractQueries ==
  {Query(TemplatesRoot \o <<"filters">>, ContractRequests.templates),
   Query(ContractConfig, ContractRequests.config)}

ContractMutations ==
  {Mutation(ContractRequests.save, {TemplatesRoot}),
   Mutation(ContractRequests.delete, {TemplatesRoot}),
   Mutation(ContractRequests.saveConfig, {ContractConfig})}

WorkHourRequests ==
  [list |-> {"work_hour_configs"}, all |-> {"work_hour_configs"},
   save |-> {"work_hour_configs"}, delete |-> {"work_hour_configs"}]

WorkHourQueries ==
  {Query(WorkHoursRoot \o <<"filters">>, WorkHourRequests.list),
   Query(WorkHoursRoot \o <<"all">>, WorkHourRequests.all)}

WorkHourMutations ==
  {Mutation(WorkHourRequests.save, {WorkHoursRoot}),
   Mutation(WorkHourRequests.delete, {WorkHoursRoot})}

PlatformConfigRequests ==
  [list |-> {"platform_configs"}, save |-> {"platform_configs"},
   delete |-> {"platform_configs", "platform_logs"}]

PlatformConfigQueries ==
  {Query(PlatformConfigsRoot \o <<"filters">>, PlatformConfigRequests.list)}

PlatformConfigMutations ==
  {Mutation(PlatformConfigRequests.save, {PlatformConfigsRoot}),
   Mutation(PlatformConfigRequests.delete, {PlatformConfigsRoot, PlatformLogsRoot})}

\* The log lists the jobs of the platforms, which a retry sets back.
PlatformLogRequests ==
  [list |-> {"platform_logs", "integration_jobs"}, save |-> {"platform_logs"},
   delete |-> {"platform_logs"}, retryJob |-> {"integration_jobs"}]

PlatformLogQueries ==
  {Query(PlatformLogsRoot \o <<"filters">>, PlatformLogRequests.list)}

PlatformLogMutations ==
  {Mutation(PlatformLogRequests.save, {PlatformLogsRoot}),
   Mutation(PlatformLogRequests.delete, {PlatformLogsRoot}),
   Mutation(PlatformLogRequests.retryJob, {PlatformLogsRoot})}

\* Counts over nearly every table; it lists the rows of none.
OverviewQueries == {Query(Projects \o <<"overview">>, {})}
-----------------------------------------------------------------------------
(* Enterprise projects. *)

Enterprise == <<"enterprise-projects">>
CustomersRoot == Enterprise \o <<"customers">>
Customer == CustomersRoot \o <<"detail", "customer">>
OwnEntitiesRoot == Enterprise \o <<"own-entities">>
OwnEntity == OwnEntitiesRoot \o <<"detail", "entity">>
EnterpriseList == Enterprise \o <<"list">>
EnterpriseProject == Enterprise \o <<"detail", "project">>
Summary == EnterpriseProject \o <<"summary">>
RecordsRoot == EnterpriseProject \o <<"collections">>

EnterpriseRequests ==
  [customers |-> {"customers"}, customer |-> {"customers"}, customerSummary |-> {},
   saveCustomer |-> {"customers"}, deleteCustomer |-> {"customers"},
   ownEntities |-> {"own_entities"}, ownEntity |-> {"own_entities"},
   saveOwnEntity |-> {"own_entities"}, deleteOwnEntity |-> {"own_entities"}]

EnterpriseProjectRequests ==
  [projects |-> {"enterprise_projects"}, project |-> {"this_project"},
   createProject |-> {"enterprise_projects"},
   updateProject |-> {"enterprise_projects", "this_project"},
   deleteProject |-> {"enterprise_projects"},
   summary |-> {"financial_records"}, records |-> {"financial_records"},
   saveRecord |-> {"financial_records"}, deleteRecord |-> {"financial_records"}]

CustomerQueries ==
  {Query(CustomersRoot \o <<"filters">>, EnterpriseRequests.customers),
   Query(Customer, EnterpriseRequests.customer),
   Query(Customer \o <<"summary", "year">>, EnterpriseRequests.customerSummary)}

CustomerMutations ==
  {Mutation(EnterpriseRequests.saveCustomer, {CustomersRoot}),
   Mutation(EnterpriseRequests.saveCustomer, {CustomersRoot, Customer, EnterpriseList}),
   Mutation(EnterpriseRequests.deleteCustomer, {CustomersRoot})}

OwnEntityQueries ==
  {Query(OwnEntitiesRoot \o <<"filters">>, EnterpriseRequests.ownEntities),
   Query(OwnEntity, EnterpriseRequests.ownEntity)}

OwnEntityMutations ==
  {Mutation(EnterpriseRequests.saveOwnEntity, {OwnEntitiesRoot}),
   Mutation(EnterpriseRequests.saveOwnEntity, {OwnEntitiesRoot, OwnEntity, EnterpriseList}),
   Mutation(EnterpriseRequests.deleteOwnEntity, {OwnEntitiesRoot})}

EnterpriseProjectQueries ==
  {Query(EnterpriseList \o <<"filters">>, EnterpriseProjectRequests.projects),
   Query(EnterpriseProject, EnterpriseProjectRequests.project),
   Query(Summary, EnterpriseProjectRequests.summary),
   Query(RecordsRoot \o <<"filters">>, EnterpriseProjectRequests.records)}

\* Creating a project marks the customers, whose totals change; deleting one
\* marks neither them nor its own entry.
EnterpriseProjectMutations ==
  {Mutation(EnterpriseProjectRequests.createProject, {EnterpriseList, CustomersRoot}),
   Mutation(EnterpriseProjectRequests.updateProject, {EnterpriseList, EnterpriseProject}),
   Mutation(EnterpriseProjectRequests.deleteProject, {EnterpriseList})}

EnterpriseRecordMutations ==
  {Mutation(EnterpriseProjectRequests.saveRecord, {RecordsRoot, Summary, EnterpriseProject}),
   Mutation(EnterpriseProjectRequests.saveRecord, {RecordsRoot, Summary}),
   Mutation(EnterpriseProjectRequests.deleteRecord, {RecordsRoot, Summary})}
-----------------------------------------------------------------------------
(* Managed and supplemental attendance. *)

ManagedAttendance == <<"managed-attendance">>
PhotoGroupsRoot == ManagedAttendance \o <<"photo-groups">>
ManagedConfigsRoot == ManagedAttendance \o <<"configs">>
ManagedRecordsRoot == ManagedAttendance \o <<"records">>
Supplemental == <<"supplemental-attendance">>

ManagedRequests ==
  [photoGroups |-> {"photo_groups"}, savePhotoGroup |-> {"photo_groups"},
   deletePhotoGroup |-> {"photo_groups"}, configs |-> {"managed_configs"},
   saveConfig |-> {"managed_configs"}, updateConfig |-> {"managed_configs", "managed_records"},
   deleteConfig |-> {"managed_configs", "managed_records"}, generate |-> {"managed_records"},
   resendDay |-> {"managed_records"}, records |-> {"managed_records"}]

PhotoGroupQueries == {Query(PhotoGroupsRoot \o <<"filters">>, ManagedRequests.photoGroups)}

PhotoGroupMutations ==
  {Mutation(ManagedRequests.savePhotoGroup, {PhotoGroupsRoot}),
   Mutation(ManagedRequests.savePhotoGroup, {PhotoGroupsRoot, ManagedConfigsRoot}),
   Mutation(ManagedRequests.deletePhotoGroup, {PhotoGroupsRoot, ManagedConfigsRoot})}

ManagedQueries ==
  Polled({Query(ManagedConfigsRoot \o <<"filters">>, ManagedRequests.configs),
          Query(ManagedRecordsRoot \o <<"filters">>, ManagedRequests.records)})

ManagedConfigMutations ==
  {Mutation(ManagedRequests.saveConfig, {ManagedConfigsRoot}),
   Mutation(ManagedRequests.updateConfig, {ManagedConfigsRoot, ManagedRecordsRoot, Supplemental}),
   Mutation(ManagedRequests.deleteConfig, {ManagedConfigsRoot, ManagedRecordsRoot})}

ManagedRunMutations ==
  {Mutation(ManagedRequests.generate, {ManagedRecordsRoot, ManagedConfigsRoot}),
   Mutation(ManagedRequests.resendDay, {ManagedRecordsRoot, ManagedConfigsRoot, Supplemental})}

SupplementalRequests == [list |-> {"managed_records"}, delete |-> {"managed_records"}]

SupplementalQueries == Polled({Query(Supplemental \o <<"records", "filters">>, SupplementalRequests.list)})
SupplementalMutations == {Mutation(SupplementalRequests.delete, {Supplemental})}
-----------------------------------------------------------------------------
(* The dashboards, the administration of users, roles and keys, personnel, *)
(* and data reporting.                                                     *)

Dashboard == <<"dashboard">>

DashboardQueries ==
  Polled({Query(Dashboard \o <<part>>, {}) :
            part \in {"overview", "projectsMap", "smartSite", "alerts30d", "alertsToday",
                      "attendance30d"}}
         \cup {Query(Dashboard \o <<part, "project">>, {}) :
            part \in {"board", "feed", "projectAttendance30d", "todayHourly"}})

UsersRoot == <<"admin", "users">>
RolesRoot == <<"admin", "roles">>
ApiKeysRoot == <<"admin", "api-keys">>

AdminRequests ==
  [users |-> {"users"}, saveUser |-> {"users"}, deleteUser |-> {"users"}, roles |-> {"roles"},
   currentRole |-> {"roles"}, saveRole |-> {"roles"}, deleteRole |-> {"roles"},
   apiKeys |-> {"api_keys"}, createApiKey |-> {"api_keys"}, endApiKey |-> {"api_keys"}]

AdminQueries ==
  {Query(UsersRoot, AdminRequests.users), Query(RolesRoot, AdminRequests.roles),
   Query(RolesRoot \o <<"current", "role">>, AdminRequests.currentRole),
   Query(ApiKeysRoot, AdminRequests.apiKeys)}

RoleMutations ==
  {Mutation(AdminRequests.saveRole, {RolesRoot}), Mutation(AdminRequests.deleteRole, {RolesRoot})}

AdminMutations ==
  RoleMutations \cup
  {Mutation(AdminRequests.saveUser, {UsersRoot}), Mutation(AdminRequests.deleteUser, {UsersRoot}),
   Mutation(AdminRequests.createApiKey, {ApiKeysRoot}), Mutation(AdminRequests.endApiKey, {ApiKeysRoot})}

PersonnelQueries ==
  {Query(<<"management", "personnel-workers", "filters">>, WorkerRequests.personnel),
   Query(<<"management", "personnel-worker", "worker">>, WorkerRequests.personnelDetail)}

\* Correcting a date of entry marks the list and not the person's own entry.
PersonnelMutations ==
  {Mutation(WorkerRequests.update, {<<"management", "personnel-workers">>})}

\* The entries of one run are kept under keys of their own, which no change marks.
ReportQueries ==
  {Query(<<"report-run", "run">>, {"report_runs"}),
   Query(<<"report-detail-items", "run", "filters">>, {"report_items"}),
   Query(<<"report-items", "run", "filters">>, {"report_items"})} \cup
  Polled({Query(<<"report-configs", "filters">>, {"report_configs"}),
          Query(<<"report-configs", "options">>, {"report_configs"}),
          Query(<<"report-runs", "options">>, {"report_runs"}),
          Query(<<"report-runs", "filters">>, {"report_runs"}),
          Query(<<"report-summary">>, {})})

ReportMutations ==
  {Mutation(writes, {<<"report-summary">>, <<"report-configs">>, <<"report-runs">>}) :
     writes \in {{"report_configs"}, {"report_runs"}}}
-----------------------------------------------------------------------------
Queries ==
  UNION {ProjectQueries, UnitQueries, TeamQueries, WorkerQueries, AttendanceQueries, WageQueries,
         DeviceQueries, IssueReportQueries, AlertQueries, ContractQueries, WorkHourQueries,
         PlatformConfigQueries, PlatformLogQueries, OverviewQueries, CustomerQueries,
         OwnEntityQueries, EnterpriseProjectQueries, PhotoGroupQueries, ManagedQueries,
         SupplementalQueries, DashboardQueries, AdminQueries, PersonnelQueries, ReportQueries}

Mutations ==
  UNION {ProjectMutations, UnitMutations, TeamMutations, WorkerMutations, AttendanceMutations,
         WageMutations, DeviceMutations, IssueReportMutations, AlertMutations, ContractMutations,
         WorkHourMutations, PlatformConfigMutations, PlatformLogMutations, CustomerMutations,
         OwnEntityMutations, EnterpriseProjectMutations, EnterpriseRecordMutations,
         PhotoGroupMutations, ManagedConfigMutations, ManagedRunMutations, SupplementalMutations,
         AdminMutations, PersonnelMutations, ReportMutations}

\* Three pairs the hooks leave out: the calendar also lists the workers and
\* the issue reports also change when somebody is deleted, and the entry of
\* one person is not marked when their date of entry is corrected.
LeftOut(m, q) ==
  \/ m \in WorkerMutations /\ q \in AttendanceQueries \cup IssueReportQueries
  \/ m \in PersonnelMutations /\ q.key[2] = "personnel-worker"

\* A change owes its news to an entry that lists rows it writes when it marks
\* anything of the same feature (the first step of the path).
Owes(m, q) ==
  /\ m.writes \cap q.rows /= {}
  /\ \E path \in m.marks : path[1] = q.key[1]
  /\ ~LeftOut(m, q)
=============================================================================

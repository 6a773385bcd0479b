------------------------------- MODULE Lists --------------------------------
(***************************************************************************)
(* The lists of the console's pages, told apart by what matters to         *)
(* Listing. Of each page: who cuts the list into pages (paging), and       *)
(* whether the rows before are shown until the next have come (keeps);     *)
(* whether another filter begins at its first page (resets); whether a     *)
(* page beyond the rows is left (clamps), and when the pager waits for     *)
(* rows (waits); and what can be removed. Columns and layout are left out. *)
(***************************************************************************)

ListOf(query, filters, table, removal) ==
  [paging |-> query.paging, keeps |-> query.keeps, resets |-> filters.resets,
   clamps |-> table.clamps, waits |-> table.waits, removes |-> removal]

\* A list that is shown whole, unfiltered.
NoFilters == [resets |-> "at once"]

\* Enterprise customers.
CustomersQuery == [paging |-> "server", keeps |-> FALSE]
CustomersFilters == [resets |-> "at once"]
CustomersTable == [clamps |-> "no", waits |-> "no"]
CustomersRemoval == "one"

\* Enterprise projects.
EnterpriseProjectsQuery == [paging |-> "server", keeps |-> FALSE]
EnterpriseProjectsFilters == [resets |-> "at once"]
EnterpriseProjectsTable == [clamps |-> "no", waits |-> "no"]
EnterpriseProjectsRemoval == "one"

\* Enterprise's own entities.
EntitiesQuery == [paging |-> "server", keeps |-> FALSE]
EntitiesFilters == [resets |-> "at once"]
EntitiesTable == [clamps |-> "no", waits |-> "no"]
EntitiesRemoval == "one"

\* Records of an enterprise project.
RecordsQuery == [paging |-> "server", keeps |-> FALSE]
RecordsFilters == [resets |-> "at once"]
RecordsTable == [clamps |-> "no", waits |-> "no"]
RecordsRemoval == "one"

\* Contract templates.
AdminPagerTable == [clamps |-> "no", waits |-> "no"]
TemplatesQuery == [paging |-> "server", keeps |-> FALSE]
TemplatesFilters == [resets |-> "at once"]
TemplatesTable == [clamps |-> "no", waits |-> "no"]
TemplatesRemoval == "one"

\* Platform configurations and logs, which share their filters.
PlatformFilters == [resets |-> "no"]
PlatformsQuery == [paging |-> "server", keeps |-> FALSE]
PlatformsTable == [clamps |-> "no", waits |-> "no"]
PlatformsRemoval == "one"
PlatformLogsQuery == [paging |-> "server", keeps |-> FALSE]
PlatformLogsFilters == [resets |-> "at once"]
PlatformLogsTable == [clamps |-> "no", waits |-> "no"]
PlatformLogsRemoval == "one"

\* Attendance devices.
BindingsQuery == [paging |-> "server", keeps |-> FALSE]
BindingsFilters == [resets |-> "after a request"]
BindingsTable == [clamps |-> "no", waits |-> "first"]
BindingsRemoval == "one"

\* Device issue reports.
ReportsQuery == [paging |-> "server", keeps |-> FALSE]
ReportsFilters == [resets |-> "after a request"]
ReportsTable == [clamps |-> "no", waits |-> "first"]
ReportsRemoval == "one"

\* Attendance alerts: their configurations and their log.
AlertsFilters == [resets |-> "after a request"]
AlertsQuery == [paging |-> "server", keeps |-> FALSE]
AlertsTable == [clamps |-> "no", waits |-> "no"]
AlertsRemoval == "one"
AlertLogsTable == [clamps |-> "no", waits |-> "no"]

\* Projects.
ProjectsQuery == [paging |-> "server", keeps |-> FALSE]
ProjectsFilters == [resets |-> "at once"]
ProjectsTable == [clamps |-> "no", waits |-> "no"]
ProjectsRemoval == "one"

\* Persons.
PersonsQuery == [paging |-> "server", keeps |-> TRUE]
PersonsFilters == [resets |-> "at once"]
PersonsTable == [clamps |-> "last", waits |-> "every"]

\* Supplemental attendance.
SupplementalQuery == [paging |-> "server", keeps |-> TRUE]
SupplementalFilters == [resets |-> "at once"]
SupplementalTable == [clamps |-> "no", waits |-> "every"]
TickedRecords == "ticked"
SupplementalRemoval == TickedRecords

\* Managed attendance.
ManagedQuery == [paging |-> "none", keeps |-> FALSE]
ManagedFilters == [resets |-> "at once"]
ManagedTable == [clamps |-> "no", waits |-> "no"]
ManagedRemoval == "one"

\* Data reporting: configurations, runs, data.
ReportingQuery == [paging |-> "server", keeps |-> FALSE]
ResultPagination == [clamps |-> "no", waits |-> "first"]
ReportingConfigsFilters == [resets |-> "at once"]
ConfigPanelFilters == ReportingConfigsFilters
ReportingConfigsTable == ResultPagination
ReportingRunsFilters == [resets |-> "at once"]
RunsPanelFilters == ReportingRunsFilters
ReportingRunsTable == ResultPagination
ReportingDataFilters == [resets |-> "at once"]
ReportingDataTable == ResultPagination

\* A project: units, teams, workers, attendance, wages.
ResourcesQuery == [paging |-> "server", keeps |-> FALSE]
ResourcesFilters == [resets |-> "at once"]
ResourcesRemoval == "one"
PagedTable == [clamps |-> "last", waits |-> "no"]
UnitsFilters == ResourcesFilters
UnitsTable == PagedTable
TeamsFilters == ResourcesFilters
TeamsTable == PagedTable
WorkersFilters == ResourcesFilters
WorkersTable == PagedTable
AttendanceFilters == ResourcesFilters
AttendanceTable == PagedTable
WagesFilters == [resets |-> "at once"]
WageFiltersBar == WagesFilters
WagesTable == PagedTable

\* A project: the attendance of one worker.
PersonAttendanceQuery == [paging |-> "server", keeps |-> FALSE]
PersonAttendanceFilters == [resets |-> "at once"]
PersonAttendanceTable == [clamps |-> "no", waits |-> "first"]

\* Attendance machines of a project.
MachinesQuery == [paging |-> "none", keeps |-> FALSE]
MachinesTable == [clamps |-> "no", waits |-> "no"]
MachinesRemoval == "one"

\* Attendance areas of a project.
AreasQuery == [paging |-> "none", keeps |-> FALSE]
AreasTable == [clamps |-> "no", waits |-> "no"]
AreasRemoval == "one"

\* Users.
UsersQuery == [paging |-> "here", keeps |-> FALSE]
UsersFilters == [resets |-> "at once"]
UsersTable == [clamps |-> "first", waits |-> "no"]
UsersRemoval == "one"

\* API keys.
ApiKeysQuery == [paging |-> "here", keeps |-> FALSE]
ApiKeysFilters == [resets |-> "at once"]
ApiKeysTable == [clamps |-> "first", waits |-> "no"]
ApiKeysRemoval == "one"

\* Uploads.
UploadsQuery == [paging |-> "none", keeps |-> FALSE]
UploadsFilters == [resets |-> "at once"]
UploadsTable == [clamps |-> "no", waits |-> "no"]

\* Warnings.
WarningsQuery == [paging |-> "server", keeps |-> FALSE]
WarningsFilters == [resets |-> "at once"]
WarningsTable == [clamps |-> "no", waits |-> "no"]

\* Registrations, recognitions, face libraries.
LeadsQuery == [paging |-> "none", keeps |-> FALSE]
LeadsTable == [clamps |-> "no", waits |-> "no"]
RecognitionsQuery == [paging |-> "server", keeps |-> FALSE]
RecognitionsFilters == [resets |-> "at once"]
RecognitionsTable == [clamps |-> "no", waits |-> "no"]
LibrariesQuery == [paging |-> "server", keeps |-> FALSE]
LibrariesFilters == [resets |-> "at once"]
LibrariesTable == [clamps |-> "no", waits |-> "no"]

\* The projects of one customer, and what can be searched in forms: the first rows of a keyword.
CustomerProjectsQuery == [paging |-> "server", keeps |-> FALSE]
CustomerProjectsTable == [clamps |-> "no", waits |-> "no"]
FindCustomerQuery == [paging |-> "none", keeps |-> FALSE]
FindCustomerFilters == [resets |-> "at once"]
FindCustomerTable == [clamps |-> "no", waits |-> "no"]
FindProjectQuery == [paging |-> "none", keeps |-> FALSE]
FindProjectFilters == [resets |-> "at once"]
FindProjectTable == [clamps |-> "no", waits |-> "no"]
FindEntityQuery == [paging |-> "none", keeps |-> FALSE]
FindEntityFilters == [resets |-> "at once"]
FindEntityTable == [clamps |-> "no", waits |-> "no"]
-----------------------------------------------------------------------------
ListKinds ==
  {ListOf(CustomersQuery, CustomersFilters, CustomersTable, CustomersRemoval),
   ListOf(EnterpriseProjectsQuery, EnterpriseProjectsFilters, EnterpriseProjectsTable, EnterpriseProjectsRemoval),
   ListOf(EntitiesQuery, EntitiesFilters, EntitiesTable, EntitiesRemoval),
   ListOf(RecordsQuery, RecordsFilters, RecordsTable, RecordsRemoval),
   ListOf(TemplatesQuery, TemplatesFilters, TemplatesTable, TemplatesRemoval),
   ListOf(PlatformsQuery, PlatformFilters, PlatformsTable, PlatformsRemoval),
   ListOf(PlatformLogsQuery, PlatformLogsFilters, PlatformLogsTable, PlatformLogsRemoval),
   ListOf(BindingsQuery, BindingsFilters, BindingsTable, BindingsRemoval),
   ListOf(ReportsQuery, ReportsFilters, ReportsTable, ReportsRemoval),
   ListOf(AlertsQuery, AlertsFilters, AlertsTable, AlertsRemoval),
   ListOf(AlertsQuery, AlertsFilters, AlertLogsTable, "no"),
   ListOf(ProjectsQuery, ProjectsFilters, ProjectsTable, ProjectsRemoval),
   ListOf(PersonsQuery, PersonsFilters, PersonsTable, "no"),
   ListOf(SupplementalQuery, SupplementalFilters, SupplementalTable, SupplementalRemoval),
   ListOf(ManagedQuery, ManagedFilters, ManagedTable, ManagedRemoval),
   ListOf(ReportingQuery, ConfigPanelFilters, ReportingConfigsTable, "one"),
   ListOf(ReportingQuery, RunsPanelFilters, ReportingRunsTable, "no"),
   ListOf(ReportingQuery, ReportingDataFilters, ReportingDataTable, "no"),
   ListOf(ResourcesQuery, UnitsFilters, UnitsTable, ResourcesRemoval),
   ListOf(ResourcesQuery, TeamsFilters, TeamsTable, ResourcesRemoval),
   ListOf(ResourcesQuery, WorkersFilters, WorkersTable, ResourcesRemoval),
   ListOf(ResourcesQuery, AttendanceFilters, AttendanceTable, ResourcesRemoval),
   ListOf(ResourcesQuery, WageFiltersBar, WagesTable, ResourcesRemoval),
   ListOf(PersonAttendanceQuery, PersonAttendanceFilters, PersonAttendanceTable, "no"),
   ListOf(MachinesQuery, NoFilters, MachinesTable, MachinesRemoval),
   ListOf(AreasQuery, NoFilters, AreasTable, AreasRemoval),
   ListOf(UsersQuery, UsersFilters, UsersTable, UsersRemoval),
   ListOf(ApiKeysQuery, ApiKeysFilters, ApiKeysTable, ApiKeysRemoval),
   ListOf(UploadsQuery, UploadsFilters, UploadsTable, "no"),
   ListOf(WarningsQuery, WarningsFilters, WarningsTable, "no"),
   ListOf(LeadsQuery, NoFilters, LeadsTable, "no"),
   ListOf(RecognitionsQuery, RecognitionsFilters, RecognitionsTable, "no"),
   ListOf(LibrariesQuery, LibrariesFilters, LibrariesTable, "no"),
   ListOf(CustomerProjectsQuery, NoFilters, CustomerProjectsTable, "no"),
   ListOf(FindCustomerQuery, FindCustomerFilters, FindCustomerTable, "no"),
   ListOf(FindProjectQuery, FindProjectFilters, FindProjectTable, "no"),
   ListOf(FindEntityQuery, FindEntityFilters, FindEntityTable, "no")}
=============================================================================

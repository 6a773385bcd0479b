-------------------------------- MODULE Edges --------------------------------
(***************************************************************************)
(* The edges of the system, where state is kept that nothing else sees:    *)
(* the forms, their fields (the one with a map too), the lists, the        *)
(* windows, the previews and the data screen of the console, the home page *)
(* of the mini program with its session, and its pages, the server that    *)
(* stands in for the platforms, and the two workers that leave the system  *)
(* by other doors than the outbox: photos pushed to devices and reports    *)
(* forwarded by a browser. They meet only in the API and in the cache of   *)
(* the console (Console), so that a behaviour moves one of them and the    *)
(* others stay as they began.                                              *)
(***************************************************************************)
EXTENDS Editor, Fields, Listing, Workspace, MiniHome, MiniList, MiniAttendance, MiniCamera,
        MockPlatforms, ManagedDispatch, ReportRuns, ScreenDashboard, ScreenBoard, ScreenPerson,
        PlacePicker, Previews

VARIABLE part

screenVars == <<dashboardVars, boardVars, cardVars>>
edgeVars == <<part, editorVars, fieldVars, listingVars, workspaceVars, homeVars, listVars,
              attendanceVars, cameraVars, mockVars, pushVars, reportVars, screenVars, pickerVars,
              previewsVars>>

Parts == {"form", "fields", "list", "windows", "home", "module page", "attendance", "camera",
          "platforms", "pushes", "reports", "dashboard", "board", "card",
          "place", "preview"}

\* What a part that does not move looks like makes no difference.
Pinned(p, sameEverywhere) == part /= p => sameEverywhere

EdgesInit ==
  /\ part \in Parts
  /\ Pinned("form", page = CHOOSE k \in Kinds : TRUE)
  /\ Pinned("fields", recordForm = (CHOOSE f \in RecordForms : TRUE) /\ zone = CHOOSE z \in Zones : TRUE)
  /\ Pinned("list", listed = (CHOOSE k \in ListKinds : TRUE) /\ there = ListRows)
  /\ Pinned("windows", role = "admin" /\ granted = {})
  /\ Pinned("module page", kind = ModulePage /\ filter = CHOOSE f \in Filters : TRUE)
  /\ Pinned("attendance", active = CHOOSE d \in Dates : TRUE)
  /\ Pinned("platforms", strict = TRUE)
  /\ EditorInit
  /\ FieldsInit /\ Pinned("fields", stored = [value |-> Of(0), manages |-> FALSE])
  /\ ListingInit /\ Pinned("list", view.filter = CHOOSE f \in ListFilters : TRUE)
  /\ WorkspaceInit /\ MiniHomeInit /\ MiniListInit /\ MiniAttendanceInit /\ MiniCameraInit
  /\ MockInit /\ ManagedDispatchInit
  /\ Pinned("reports", byHand = {}) /\ ReportRunsInit
  /\ Pinned("dashboard", panel = "bars") /\ ScreenDashboardInit
  /\ Pinned("board", site = (CHOOSE s \in Sites : TRUE) /\ onServer = {}) /\ ScreenBoardInit
  /\ ScreenPersonInit
  /\ PlacePickerInit /\ Pinned("place", spot = NoSpot)
  /\ Pinned("preview", tool = "generator" /\ yard = CHOOSE y \in Yards : TRUE) /\ PreviewsInit

Moves(p, vars) == part = p /\ UNCHANGED vars

EdgesNext ==
  /\ UNCHANGED part
  /\ \/ Moves("form", <<fieldVars, listingVars, workspaceVars, homeVars, listVars, attendanceVars, cameraVars, mockVars, pushVars, reportVars, screenVars, pickerVars, previewsVars>>) /\ EditorNext
     \/ Moves("fields", <<editorVars, listingVars, workspaceVars, homeVars, listVars, attendanceVars, cameraVars, mockVars, pushVars, reportVars, screenVars, pickerVars, previewsVars>>) /\ FieldsNext
     \/ Moves("list", <<editorVars, fieldVars, workspaceVars, homeVars, listVars, attendanceVars, cameraVars, mockVars, pushVars, reportVars, screenVars, pickerVars, previewsVars>>) /\ ListingNext
     \/ Moves("windows", <<editorVars, fieldVars, listingVars, homeVars, listVars, attendanceVars, cameraVars, mockVars, pushVars, reportVars, screenVars, pickerVars, previewsVars>>) /\ WorkspaceNext
     \/ Moves("home", <<editorVars, fieldVars, listingVars, workspaceVars, listVars, attendanceVars, cameraVars, mockVars, pushVars, reportVars, screenVars, pickerVars, previewsVars>>) /\ MiniHomeNext
     \/ Moves("module page", <<editorVars, fieldVars, listingVars, workspaceVars, homeVars, attendanceVars, cameraVars, mockVars, pushVars, reportVars, screenVars, pickerVars, previewsVars>>) /\ MiniListNext
     \/ Moves("attendance", <<editorVars, fieldVars, listingVars, workspaceVars, homeVars, listVars, cameraVars, mockVars, pushVars, reportVars, screenVars, pickerVars, previewsVars>>) /\ MiniAttendanceNext
     \/ Moves("camera", <<editorVars, fieldVars, listingVars, workspaceVars, homeVars, listVars, attendanceVars, mockVars, pushVars, reportVars, screenVars, pickerVars, previewsVars>>) /\ MiniCameraNext
     \/ Moves("platforms", <<editorVars, fieldVars, listingVars, workspaceVars, homeVars, listVars, attendanceVars, cameraVars, pushVars, reportVars, screenVars, pickerVars, previewsVars>>) /\ MockNext
     \/ Moves("pushes", <<editorVars, fieldVars, listingVars, workspaceVars, homeVars, listVars, attendanceVars, cameraVars, mockVars, reportVars, screenVars, pickerVars, previewsVars>>) /\ ManagedDispatchNext
     \/ Moves("reports", <<editorVars, fieldVars, listingVars, workspaceVars, homeVars, listVars, attendanceVars, cameraVars, mockVars, pushVars, screenVars, pickerVars, previewsVars>>) /\ ReportRunsNext
     \/ Moves("dashboard", <<editorVars, fieldVars, listingVars, workspaceVars, homeVars, listVars, attendanceVars, cameraVars, mockVars, pushVars, reportVars, boardVars, cardVars, pickerVars, previewsVars>>) /\ ScreenDashboardNext
     \/ Moves("board", <<editorVars, fieldVars, listingVars, workspaceVars, homeVars, listVars, attendanceVars, cameraVars, mockVars, pushVars, reportVars, dashboardVars, cardVars, pickerVars, previewsVars>>) /\ ScreenBoardNext
     \/ Moves("card", <<editorVars, fieldVars, listingVars, workspaceVars, homeVars, listVars, attendanceVars, cameraVars, mockVars, pushVars, reportVars, dashboardVars, boardVars, pickerVars, previewsVars>>) /\ ScreenPersonNext
     \/ Moves("place", <<editorVars, fieldVars, listingVars, workspaceVars, homeVars, listVars, attendanceVars, cameraVars, mockVars, pushVars, reportVars, screenVars, previewsVars>>) /\ PlacePickerNext
     \/ Moves("preview", <<editorVars, fieldVars, listingVars, workspaceVars, homeVars, listVars, attendanceVars, cameraVars, mockVars, pushVars, reportVars, screenVars, pickerVars>>) /\ PreviewsNext

EdgesSpec == EdgesInit /\ [][EdgesNext]_edgeVars
-----------------------------------------------------------------------------
\* Each part in the behaviours where it moves: in the others it stays as it began.
TypeOK ==
  /\ part \in Parts
  /\ part = "form" => EditorTypeOK
  /\ part = "fields" => FieldsTypeOK
  /\ part = "list" => ListingTypeOK
  /\ part = "windows" => WorkspaceTypeOK
  /\ part = "home" => MiniHomeTypeOK
  /\ part = "module page" => MiniListTypeOK
  /\ part = "attendance" => MiniAttendanceTypeOK
  /\ part = "camera" => MiniCameraTypeOK
  /\ part = "platforms" => MockTypeOK
  /\ part = "pushes" => ManagedDispatchTypeOK
  /\ part = "reports" => ReportRunsTypeOK
  /\ part = "dashboard" => ScreenDashboardTypeOK
  /\ part = "board" => ScreenBoardTypeOK
  /\ part = "card" => ScreenPersonTypeOK
  /\ part = "place" => PlacePickerTypeOK
  /\ part = "preview" => PreviewsTypeOK

\* What the user of one row typed stays with that row (Editor): it is neither shown nor
\* saved under another, and a form makes at most one row, however it is submitted.
FormsKeepToTheirRow == RowsKeepTheirOwn /\ OneRowPerForm

\* A save changes what its user changed: what others changed meanwhile survives
\* it, each page according to what it sends (Editor), and what nobody touched
\* comes out of a form as it went in, field by field (Fields).
UntouchedStays == OthersChangesSurvive /\ FieldsStay /\ ManagementAgrees

\* A list shows rows of its filter if there are any: the number of its page is
\* not beyond them (Listing), rows that were appended as the user scrolled are
\* its filter's, each once (MiniList), and the markers of a map are those that are
\* searched for (ScreenDashboard). All except what their modules name.
ListsAreTrue == ListShowsRows /\ ListIsOfItsFilter /\ MarkersAreThere

\* The home page of the mini program shows one project of the user whose session it is
\* (MiniHome), and its forms start from rows with the user's own changes (MiniList).
MiniPagesAreCurrent == HomeIsOfOneProject /\ EditsStartFromOwnChanges

\* A device is given a photo again only for a delivery that no row tells of, not after
\* its job was cancelled, and a record is done when all its devices have it, unless
\* its status was written over a settlement not seen (ManagedDispatch).
PushesAreRight == RepeatsAreExplained /\ CancelledIsNotSent /\ SuccessIsOfAll

\* Report runs keep apart: one browser at a time, a manual run once, unless it was put
\* back after its success, a cancelled one never again (ReportRuns).
RunsKeepApart == OneBrowserAtATime /\ ManualRunsOnce /\ CancelledStaysOut

\* What an answer brings is shown as what it is, whenever it comes: records
\* under their date and person, punches with their place and in their list, the
\* numbers, the punches and the attendance on the data screen as the last that
\* came, of the project and the month that are chosen, the name of a point on the
\* map under that point (PlacePicker says when not), a preview under the choice it was
\* made from, and what is written after it, once and where it belongs (Previews), and in
\* the stand-in's log what the platform's client was told.
AnswersAreFiledRight ==
  /\ RecordsAreFiledRight /\ PunchesAreRight /\ LogIsRight
  /\ NumbersArrive /\ PunchesAreTheBoards /\ CardIsOfTheChoice /\ PlacesAreNamedRight
  /\ WhatIsShownIsWritten
=============================================================================

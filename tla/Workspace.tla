------------------------------- MODULE Workspace -------------------------------
(***************************************************************************)
(* The frame around the pages of the web console, for one user in one      *)
(* browser tab: the windows (AdminWindowTabs), which are kept in the       *)
(* browser's storage and drawn from a copy of it, the page that is shown   *)
(* according to the menus of the user's role (admin.tsx, rbac.ts), and the *)
(* page where an administrator gives menus to that role (RolesManagement). *)
(***************************************************************************)
EXTENDS Sequences, SequencesExt, Naturals

(* The menus that can be given to a role, in their order (rbac.ts), and     *)
(* those the sidebar shows of them (AppSidebar.tsx). A menu is known by its *)
(* key, and stands for its page.                                            *)
officeMenus ==
  <<"admin_overview", "system_warnings", "projects", "data_reporting">>
enterpriseMenus ==
  <<"enterprise_customers", "enterprise_own_entities", "enterprise_projects", "enterprise_issued_invoices",
    "enterprise_received_invoices", "enterprise_collections", "enterprise_payments">>
labourMenus ==
  <<"contract_templates", "work_hour_configs", "platform_integrations", "attendance_devices",
    "attendance_device_issue_reports", "face_recognition_logs", "attendance_alerts", "managed_attendance",
    "supplemental_attendance", "environment_monitoring", "video_monitoring">>
siteMenus ==
  <<"quality_safety", "safety_management", "material_management", "construction_site", "party_building",
    "emergency_management">>
personnelMenus ==
  <<"personnel_workers", "personnel_contracts", "personnel_qualifications", "personnel_registrations",
    "personnel_bad_records", "personnel_approvers">>
systemMenus == <<"registration_leads", "face_library_sync", "users", "roles", "uploads">>

menuPermissions == officeMenus \o enterpriseMenus \o labourMenus \o siteMenus \o personnelMenus \o systemMenus
MenuKeys == ToSet(menuPermissions)

\* getMenuKeysForUserRole: what an administrator has, and what a role has of
\* the menus it was given.
adminDefaults == MenuKeys
Configured(keys) == (keys \cap MenuKeys) \ {"face_recognition_logs"}
-----------------------------------------------------------------------------
(* The sidebar. *)

officeSection == {"admin_overview", "data_reporting"}
labourSection ==
  {"system_warnings", "projects", "contract_templates", "work_hour_configs", "platform_integrations",
   "attendance_devices", "attendance_device_issue_reports", "face_recognition_logs", "attendance_alerts",
   "managed_attendance", "supplemental_attendance", "environment_monitoring", "video_monitoring"}
siteSection == ToSet(siteMenus)
personnelSection == ToSet(personnelMenus)
enterpriseSection == ToSet(enterpriseMenus)
\* The library's menu is shown where the feature is released.
systemSection == {"face_library_sync", "registration_leads", "users", "roles", "uploads"}

SidebarMenus ==
  officeSection \cup labourSection \cup siteSection \cup personnelSection \cup enterpriseSection \cup systemSection

\* Pages whose window has a name of its own (staticTitles); of the others the
\* page of a row gets one when the row has come, and is named by its id before.
staticTitles == MenuKeys \ {"attendance_alerts", "face_recognition_logs", "face_library_sync"}
-----------------------------------------------------------------------------
(* The frame. *)

CONSTANTS GivenMenus,  \* the menus that are given and taken
          RowMenus,    \* those with pages for single rows
          MaxChoices   \* bound: pages gone to, menus given or taken

ASSUME WorkspaceAssumption ==
  /\ {"admin_overview", "projects"} \subseteq GivenMenus /\ GivenMenus \subseteq MenuKeys
  /\ RowMenus \subseteq GivenMenus
  /\ MaxChoices \in Nat

\* A page is a menu's own, or that of a row (getMenuPermissionForPath finds the
\* menu of both).
Pages == (GivenMenus \X {"menu"}) \cup (RowMenus \X {"row"})
PageOf(m) == <<m, "menu">>
MenuOf(p) == p[1]
Home == PageOf("admin_overview")             \* /app/admin
Fallback == PageOf("projects")               \* ADMIN_WINDOW_FALLBACK_PATH
NOWHERE == <<>>

VARIABLES
  role,      \* the user's
  granted,   \* the menus of the role, on the server
  answer,    \* the user's copy of them: <<>> before the first answer
  menusDue,  \* they are being asked for
  unread,    \* they were asked for in vain
  at,        \* currentPath
  going,     \* the page that is being gone to
  nameless,  \* the data of the page have not come yet
  windows,   \* the stored windows, known by their pages,
  drawn,     \* and those on the screen (visibleWindows); <<>> where the tabs are not drawn
  closed,    \* history: windows closed and not gone to since
  hurried,   \* history: the windows were touched while a page was being gone to
  roleMenus, \* the menus of the role as the administrator sees them
  roleDue,   \* they are being asked for
  toggle,    \* the menus that are being written: <<>>, or <<set>>
  wanted,    \* history: what the administrator's choices make
  undone,    \* history: a choice was made from a list that was no longer true
  choices

userVars == <<role, answer, menusDue, unread, at, going, nameless, windows, drawn, closed, hurried>>
roleVars == <<granted, roleMenus, roleDue, toggle, wanted, undone>>
workspaceVars == <<userVars, roleVars, choices>>

\* "reporting" is the role that has no warnings (canAccessSystemWarnings).
Roles == {"admin", "other", "reporting"}

\* The home page is everybody's but the reporters'.
Allowed(seen) ==
  LET given == IF seen = <<>> THEN {} ELSE Configured(seen[1])
  IN  CASE role = "admin"     -> adminDefaults
        [] role = "other"     -> given \cup {MenuOf(Home)}
        [] role = "reporting" -> given

DefaultPage(seen) ==
  LET first == SelectInSeq(menuPermissions, LAMBDA m : m \in Allowed(seen))
  IN  IF first = 0 THEN Home ELSE PageOf(menuPermissions[first])

\* The page of a row gives its window a name when the row has come.
Nameless(p) == p[2] = "row"

\* What AdminContent shows of a page: itself, with the tabs; nothing while the
\* menus of the role are asked for; a message; or another page instead.
Layout(p, seen, failed) ==
  LET everybodys == role = "other" /\ p = Home
  IN  IF role /= "admin" /\ ~everybodys /\ failed THEN "unreadable"
      ELSE IF role /= "admin" /\ ~everybodys /\ seen = <<>> THEN "nothing"
      ELSE IF role /= "admin" /\ MenuOf(p) \notin Allowed(seen)
        THEN IF DefaultPage(seen) /= Home THEN "redirect" ELSE "no menu"
      ELSE "page"
LayoutNow == Layout(at, answer, unread)

\* The windows are the stored ones, and the page that is shown.
Merged(stored, p) == IF Contains(stored, p) THEN stored ELSE Append(stored, p)
Without(ws, p) == RemoveFirst(ws, p)         \* a page has one window

\* Drawn from the storage, and at once written back to it.
Draw(stored, p, seen, failed) ==
  IF Layout(p, seen, failed) = "page"
    THEN drawn' = Merged(stored, p) /\ windows' = drawn'
    ELSE drawn' = <<>> /\ windows' = stored

\* After a login the windows are empty (LoginForm).
WorkspaceInit ==
  /\ role \in Roles
  /\ granted \in SUBSET GivenMenus
  /\ answer = <<>> /\ unread = FALSE
  /\ menusDue = (role /= "admin")
  /\ at = IF role = "admin" THEN Fallback ELSE Home
  /\ going = NOWHERE
  /\ nameless = (Nameless(at))
  /\ drawn = IF role = "reporting" THEN <<>> ELSE <<at>>
  /\ windows = drawn
  /\ closed = {} /\ hurried = FALSE
  /\ roleMenus = granted /\ roleDue = FALSE
  /\ toggle = <<>> /\ wanted = granted /\ undone = FALSE
  /\ choices = 0
-----------------------------------------------------------------------------
(* Going from page to page. *)

GoTo(p) ==
  /\ choices < MaxChoices /\ choices' = choices + 1
  /\ going' = p

\* The sidebar has the menus that are allowed; a menu's page links to its rows.
FollowLink(p) ==
  /\ LayoutNow = "page" /\ p /= at
  /\ IF Nameless(p) THEN MenuOf(at) = MenuOf(p) ELSE MenuOf(p) \in Allowed(answer) \cap SidebarMenus
  /\ GoTo(p)
  /\ UNCHANGED <<role, answer, menusDue, unread, at, nameless, windows, drawn, closed, hurried, roleVars>>

\* An address is opened anew: everything but the storage is forgotten.
OpenAddress(p) ==
  /\ choices < MaxChoices /\ choices' = choices + 1
  /\ at' = p /\ going' = NOWHERE /\ nameless' = (Nameless(p))
  /\ answer' = <<>> /\ unread' = FALSE /\ menusDue' = (role /= "admin")
  /\ Draw(windows, p, answer', FALSE)
  /\ closed' = closed \ {p}
  /\ UNCHANGED <<role, hurried, roleVars>>

Arrive ==
  /\ going /= NOWHERE
  /\ at' = going /\ going' = NOWHERE /\ nameless' = (Nameless(going))
  /\ Draw(windows, going, answer, unread)
  /\ closed' = closed \ {going}
  /\ UNCHANGED <<role, answer, menusDue, unread, hurried, roleVars, choices>>

Redirect ==
  /\ LayoutNow = "redirect" /\ going = NOWHERE
  /\ GoTo(DefaultPage(answer))
  /\ UNCHANGED <<role, answer, menusDue, unread, at, nameless, windows, drawn, closed, hurried, roleVars>>

\* updateAdminWindowTitle: the window gets its name, also one that is closed
\* and still shown, and the tabs are drawn again.
NameComes ==
  /\ nameless /\ LayoutNow = "page"
  /\ nameless' = FALSE
  /\ Draw(Merged(windows, at), at, answer, unread)
  /\ hurried' = (hurried \/ going /= NOWHERE)
  /\ UNCHANGED <<role, answer, menusDue, unread, at, going, closed, roleVars, choices>>
-----------------------------------------------------------------------------
(* The menus of the user's role. *)

Redrawn(seen, failed) ==
  IF LayoutNow = "page" /\ Layout(at, seen, failed) = "page" THEN UNCHANGED <<windows, drawn, hurried>>
  ELSE Draw(windows, at, seen, failed) /\ hurried' = (hurried \/ going /= NOWHERE)

TakeMenus ==
  /\ menusDue
  /\ menusDue' = FALSE /\ unread' = FALSE
  /\ answer' = <<granted>>
  /\ Redrawn(answer', FALSE)
  /\ UNCHANGED <<role, at, going, nameless, closed, roleVars, choices>>

\* The page is replaced by a message, also where the last answer is still there.
MenusFail ==
  /\ menusDue
  /\ menusDue' = FALSE /\ unread' = TRUE
  /\ Redrawn(answer, TRUE)
  /\ UNCHANGED <<role, answer, at, going, nameless, closed, roleVars, choices>>

\* staleTime passes, and something asks anew.
AskMenus ==
  /\ role /= "admin" /\ ~menusDue
  /\ answer /= <<granted>> \/ unread
  /\ menusDue' = TRUE
  /\ unread' = (unread /\ answer /= <<>>)
  /\ UNCHANGED <<role, answer, at, going, nameless, windows, drawn, closed, hurried, roleVars, choices>>
-----------------------------------------------------------------------------
(* The tabs. *)

Close(ps, next) ==
  /\ windows' = next
  /\ hurried' = (hurried \/ going /= NOWHERE)
  /\ closed' = closed \cup ps
  /\ UNCHANGED <<role, answer, menusDue, unread, at, nameless, roleVars>>

\* A choice among the windows writes those that are drawn.
OpenWindow(p) ==
  /\ Contains(drawn, p) /\ p /= at
  /\ GoTo(p)
  /\ windows' = drawn
  /\ hurried' = (hurried \/ going /= NOWHERE)
  /\ UNCHANGED <<role, answer, menusDue, unread, at, nameless, drawn, closed, roleVars>>

CloseWindow(p) ==
  /\ Contains(drawn, p) /\ p /= at
  /\ Close({p}, Without(drawn, p))
  /\ drawn' = windows'
  /\ UNCHANGED <<going, choices>>

\* The window before it takes the place of the one that is shown, or the one
\* after it, or the user's first page; where that is the same page nothing moves.
Neighbour(p) ==
  LET rest == Without(drawn, p)
      i == SelectInSeq(drawn, LAMBDA q : q = p)
  IN  IF i > 1 THEN rest[i - 1] ELSE IF rest /= <<>> THEN rest[1] ELSE DefaultPage(answer)

\* Mutant: nothing is written before the tabs are drawn for the next page.
CloseShownUnwritten ==
  LET target == Neighbour(at)
  IN  /\ drawn /= <<>>
      /\ Close({at} \ {target}, windows)
      /\ IF target = at THEN UNCHANGED <<going, choices>> ELSE GoTo(target)
      /\ UNCHANGED drawn

CloseShown ==
  LET target == Neighbour(at)
  IN  /\ drawn /= <<>>
      /\ Close({at} \ {target}, Without(drawn, at))
      /\ IF target = at THEN UNCHANGED <<going, choices>> ELSE GoTo(target)
      /\ UNCHANGED drawn

CloseOthers(p) ==
  /\ Contains(drawn, p) /\ Len(drawn) > 1
  /\ Close(ToSet(drawn) \ {p}, <<p>>)
  /\ IF p = at THEN drawn' = <<p>> /\ UNCHANGED <<going, choices>> ELSE GoTo(p) /\ UNCHANGED drawn

CloseAll ==
  LET first == DefaultPage(answer)
  IN  /\ drawn /= <<>>
      /\ Close(ToSet(drawn) \ {first}, IF first = at THEN <<at>> ELSE <<>>)
      /\ IF first = at THEN drawn' = <<at>> /\ UNCHANGED <<going, choices>> ELSE GoTo(first) /\ UNCHANGED drawn
-----------------------------------------------------------------------------
(* The administrator's page. *)

Flip(ms, m) == IF m \in ms THEN ms \ {m} ELSE ms \cup {m}

\* All the menus of the list are sent, with the one that was chosen turned over.
\* The buttons wait for the write, and not for the list to be read again.
ToggleMenu(m) ==
  /\ toggle = <<>>
  /\ choices < MaxChoices /\ choices' = choices + 1
  /\ toggle' = <<Flip(roleMenus, m)>>
  /\ wanted' = IF m \in roleMenus THEN wanted \ {m} ELSE wanted \cup {m}
  /\ undone' = (undone \/ roleMenus /= granted)
  /\ UNCHANGED <<userVars, granted, roleMenus, roleDue>>

\* The role's menus are replaced; the answer may be lost.
WriteMenus(told) ==
  /\ toggle /= <<>>
  /\ granted' = toggle[1]
  /\ toggle' = <<>>
  /\ roleDue' = (roleDue \/ told)
  /\ UNCHANGED <<userVars, roleMenus, wanted, undone, choices>>

MenuWriteFails ==
  /\ toggle /= <<>>
  /\ toggle' = <<>>
  /\ wanted' = granted
  /\ UNCHANGED <<userVars, granted, roleMenus, roleDue, undone, choices>>

TakeList ==
  /\ roleDue
  /\ roleMenus' = granted /\ roleDue' = FALSE
  /\ UNCHANGED <<userVars, granted, toggle, wanted, undone, choices>>

WorkspaceNext ==
  \/ \E p \in Pages : FollowLink(p) \/ OpenAddress(p) \/ OpenWindow(p) \/ CloseWindow(p) \/ CloseOthers(p)
  \/ Arrive \/ Redirect \/ NameComes
  \/ TakeMenus \/ MenusFail \/ AskMenus
  \/ CloseShown \/ CloseAll
  \/ \E m \in GivenMenus : ToggleMenu(m)
  \/ \E told \in BOOLEAN : WriteMenus(told)
  \/ MenuWriteFails \/ TakeList
-----------------------------------------------------------------------------
WorkspaceTypeOK ==
  /\ role \in Roles
  /\ {granted, roleMenus, wanted} \subseteq SUBSET GivenMenus
  /\ {answer, toggle} \subseteq {<<>>} \cup {<<ms>> : ms \in SUBSET GivenMenus}
  /\ {menusDue, unread, nameless, hurried, roleDue, undone} \subseteq BOOLEAN
  /\ at \in Pages /\ going \in Pages \cup {NOWHERE}
  /\ {windows, drawn} \subseteq Seq(Pages) /\ IsInjective(windows) /\ IsInjective(drawn)
  /\ closed \subseteq Pages
  /\ choices \in 0..MaxChoices

\* What was chosen stays. A window that was closed is not there again until its
\* page is gone to: neither the tabs, which are drawn from a copy, nor the page
\* that is being left, which may still get its name, bring it back. The exception
\* is what touches the tabs while a page is being gone to, for they still have
\* the window then. And the menus of a role are what the administrator's
\* choices make, one at a time, unless one was made before the list was read
\* again.
ChoicesStay ==
  /\ ~hurried /\ going = NOWHERE => closed \cap ToSet(drawn) = {}
  /\ ~undone /\ toggle = <<>> => granted = wanted
=============================================================================

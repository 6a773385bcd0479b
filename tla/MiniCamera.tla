------------------------------- MODULE MiniCamera -------------------------------
(***************************************************************************)
(* The page of the mini program that takes a worker's photo at an          *)
(* attendance point (pages/attendance-machine/camera): the camera, which   *)
(* is mounted anew when the page is come back to, stops or is turned       *)
(* round, with a zoom that is remembered for each of its two sides; the    *)
(* place of the phone; the punch; and the list of the day's punches. A     *)
(* page that is left for good begins anew, and is not followed further.    *)
(***************************************************************************)
EXTENDS Naturals, FiniteSets

CONSTANTS MaxZoom,    \* what the camera of each side can do
          MaxActs     \* bound: times the user does something, or the camera stops

Sides == {"front", "back"}
Zooms == 1..2         \* zoomOptions

ASSUME MiniCameraAssumption == MaxZoom \in [Sides -> Zooms] /\ MaxActs \in Nat

VARIABLES
  camera,     \* alive, blocked, ready, inited (the mounted camera has reported), remounting,
              \* mountDue and stopDue (timers), side, zoom, changing
  saved,      \* the zoom that is remembered for each side
  zoomings,   \* setZoom calls on their way
  visit,      \* onShow's: hidden, remountDue, and the first location version since
  version,    \* _locationVersion
  location,   \* <<>>, or <<the version it was asked for in>>
  locatings,  \* getLocation calls on their way, by their version
  punch,      \* <<>>, or the punch that is being recognised
  punched,    \* the day's punches on the server
  records,    \* those of the list, and whether the first list has been awaited
  listings,   \* requests for them: when asked, and what they found
  picked,     \* history: the zooms chosen for each side
  sent,       \* history: the punch that was sent last
  assured,       \* history: the punches a success was shown for
  unlisted,   \* history: a list was not brought, or overtaken by an older one
  acts

cameraVars == <<camera, saved, zoomings, visit, version, location, locatings, punch, punched, records,
                listings, picked, sent, assured, unlisted, acts>>
zoomVars == <<saved, zoomings, picked>>
placeVars == <<visit, version, location, locatings>>
punchVars == <<punch, punched, sent, assured>>
recordVars == <<records, listings, unlisted>>

Asks(after, n) == [after |-> after, n |-> n, found |-> <<>>]

\* onLoad, and the first onShow; the camera is mounted a little later.
MiniCameraInit ==
  /\ camera = [alive |-> FALSE, blocked |-> FALSE, ready |-> FALSE, inited |-> FALSE, remounting |-> FALSE,
               mountDue |-> TRUE, stopDue |-> FALSE, side |-> "front", zoom |-> 1, changing |-> FALSE]
  /\ saved = [s \in Sides |-> 1]
  /\ zoomings = {}
  /\ visit = [hidden |-> FALSE, remountDue |-> FALSE, since |-> 1]
  /\ version = 1 /\ location = <<>> /\ locatings = {1}
  /\ punch = <<>> /\ punched = 0
  /\ records = [holds |-> 0, loading |-> TRUE]
  /\ listings = {Asks("show", 1)}
  /\ picked = {} /\ sent = <<>> /\ assured = 0 /\ unlisted = FALSE
  /\ acts = 0

Act == acts < MaxActs /\ acts' = acts + 1
-----------------------------------------------------------------------------
(* The camera. *)

MountTimer ==
  /\ camera.mountDue
  /\ camera' = [camera EXCEPT !.mountDue = FALSE, !.alive = TRUE]
  /\ UNCHANGED <<zoomVars, placeVars, punchVars, recordVars, acts>>

\* remountCamera: a zoom that is being set is no longer waited for.
Remounted(c) ==
  IF c.remounting THEN c
  ELSE [c EXCEPT !.remounting = TRUE, !.alive = FALSE, !.ready = FALSE, !.inited = FALSE, !.changing = FALSE]

RemountTimer ==
  /\ camera.remounting
  /\ camera' = [camera EXCEPT !.remounting = FALSE, !.alive = TRUE]
  /\ UNCHANGED <<zoomVars, placeVars, punchVars, recordVars, acts>>

\* applyZoom for the side of now.
ApplyZoom(c, z, persist) ==
  IF ~c.ready \/ punch /= <<>> \/ c.changing
    THEN camera' = c /\ UNCHANGED zoomings
    ELSE /\ camera' = [c EXCEPT !.changing = TRUE]
         /\ zoomings' = zoomings \cup {[zoom |-> z, side |-> c.side, persist |-> persist]}

\* The zoom that is remembered is set again, as far as the camera can.
InitDone ==
  LET zoom == IF saved[camera.side] > MaxZoom[camera.side] THEN MaxZoom[camera.side] ELSE saved[camera.side]
  IN  /\ camera.alive /\ ~camera.blocked /\ ~camera.inited
      /\ ApplyZoom([camera EXCEPT !.ready = TRUE, !.inited = TRUE, !.zoom = 1], zoom, FALSE)
      /\ UNCHANGED <<saved, picked, placeVars, punchVars, recordVars, acts>>

SelectZoom(z) ==
  /\ camera.ready /\ punch = <<>> /\ ~camera.changing
  /\ z <= MaxZoom[camera.side]
  /\ Act
  /\ ApplyZoom(camera, z, TRUE)
  /\ picked' = picked \cup {<<camera.side, z>>}
  /\ UNCHANGED <<saved, placeVars, punchVars, recordVars>>

\* Also for a camera that is no longer mounted.
ZoomSet(c, ok) ==
  /\ zoomings' = zoomings \ {c}
  /\ camera' = [camera EXCEPT !.changing = FALSE, !.zoom = IF ok THEN c.zoom ELSE @]
  /\ saved' = IF ok /\ c.persist THEN [saved EXCEPT ![c.side] = c.zoom] ELSE saved
  /\ UNCHANGED <<picked, placeVars, punchVars, recordVars, acts>>

ToggleCamera ==
  /\ punch = <<>> /\ ~camera.changing
  /\ Act
  /\ camera' = Remounted([camera EXCEPT !.side = IF @ = "front" THEN "back" ELSE "front"])
  /\ UNCHANGED <<zoomVars, placeVars, punchVars, recordVars>>

CameraStops ==
  /\ camera.alive /\ ~camera.blocked /\ ~camera.remounting
  /\ Act
  /\ camera' = [camera EXCEPT !.stopDue = TRUE]
  /\ UNCHANGED <<zoomVars, placeVars, punchVars, recordVars>>

StopTimer ==
  /\ camera.stopDue
  /\ camera' = Remounted([camera EXCEPT !.stopDue = FALSE])
  /\ UNCHANGED <<zoomVars, placeVars, punchVars, recordVars, acts>>

\* onCameraError, or the user does not agree that the camera is used.
CameraBlocked ==
  /\ ~camera.blocked
  /\ Act
  /\ camera' = [camera EXCEPT !.blocked = TRUE, !.inited = FALSE]
  /\ UNCHANGED <<zoomVars, placeVars, punchVars, recordVars>>

OpenSystemSetting ==
  /\ camera.blocked
  /\ camera' = [camera EXCEPT !.blocked = FALSE]
  /\ UNCHANGED <<zoomVars, placeVars, punchVars, recordVars, acts>>
-----------------------------------------------------------------------------
(* The place, and coming back to the page. *)

Locate == version' = version + 1 /\ location' = <<>> /\ locatings' = locatings \cup {version'}

RefreshLocation ==
  /\ ~visit.hidden /\ version \notin locatings /\ punch = <<>>
  /\ Act
  /\ Locate
  /\ UNCHANGED <<camera, zoomVars, visit, punchVars, recordVars>>

\* Mutant: whatever comes is the place.
LocatedUnversioned(v, ok) ==
  /\ locatings' = locatings \ {v}
  /\ location' = IF ok THEN <<v>> ELSE location
  /\ UNCHANGED <<camera, zoomVars, visit, version, punchVars, recordVars, acts>>

\* An answer, or none, or one that is no place.
Located(v, ok) ==
  /\ locatings' = locatings \ {v}
  /\ location' = IF ok /\ v = version THEN <<v>> ELSE location
  /\ UNCHANGED <<camera, zoomVars, visit, version, punchVars, recordVars, acts>>

OnHide ==
  /\ ~visit.hidden
  /\ Act
  /\ visit' = [visit EXCEPT !.hidden = TRUE, !.remountDue = TRUE]
  /\ version' = version + 1 /\ location' = <<>>
  /\ UNCHANGED <<camera, zoomVars, locatings, punchVars, recordVars>>

\* A list is asked for unless the first one is still awaited.
OnShow ==
  /\ visit.hidden
  /\ Locate
  /\ visit' = [hidden |-> FALSE, remountDue |-> FALSE, since |-> version']
  /\ camera' = IF visit.remountDue THEN Remounted(camera) ELSE camera
  /\ listings' = IF records.loading THEN listings ELSE listings \cup {Asks("show", version')}
  /\ UNCHANGED <<zoomVars, punchVars, records, unlisted, acts>>
-----------------------------------------------------------------------------
(* The punch. *)

\* The place is that of the moment the button is pressed.
Capture ==
  /\ ~visit.hidden
  /\ punch = <<>> /\ camera.ready /\ ~camera.blocked /\ ~camera.changing
  /\ Act
  /\ punch' = [stage |-> "photo", location |-> location, since |-> visit.since]
  /\ UNCHANGED <<camera, zoomVars, placeVars, punched, sent, assured, recordVars>>

\* The photo is taken and made small; side and zoom are those of now.
PhotoTaken ==
  /\ punch /= <<>> /\ punch.stage = "photo"
  /\ punch' = [punch EXCEPT !.stage = "sent"]
  /\ sent' = [location |-> punch.location, since |-> punch.since]
  /\ UNCHANGED <<camera, zoomVars, placeVars, punched, assured, recordVars, acts>>

\* The server knows the face and files the punch, whose answer may be lost.
Recognized ==
  /\ punch /= <<>> /\ punch.stage = "sent"
  /\ punch' = [punch EXCEPT !.stage = "punched"]
  /\ punched' = punched + 1
  /\ UNCHANGED <<camera, zoomVars, placeVars, sent, assured, recordVars, acts>>

PunchShown ==
  /\ punch /= <<>> /\ punch.stage = "punched"
  /\ punch' = <<>>
  /\ assured' = punched
  /\ listings' = listings \cup {Asks("punch", punched)}
  /\ UNCHANGED <<camera, zoomVars, placeVars, punched, sent, records, unlisted, acts>>

\* No photo, nobody known, or no answer.
PunchFails ==
  /\ punch /= <<>>
  /\ punch' = <<>>
  /\ UNCHANGED <<camera, zoomVars, placeVars, punched, sent, assured, recordVars, acts>>

Find(c) ==
  /\ c.found = <<>>
  /\ listings' = (listings \ {c}) \cup {[c EXCEPT !.found = <<punched>>]}
  /\ UNCHANGED <<camera, zoomVars, placeVars, punchVars, records, unlisted, acts>>

TakeRecords(c) ==
  /\ c.found /= <<>>
  /\ records' = [holds |-> c.found[1], loading |-> FALSE]
  /\ listings' = listings \ {c}
  /\ unlisted' = (unlisted \/ c.found[1] < records.holds)
  /\ UNCHANGED <<camera, zoomVars, placeVars, punchVars, acts>>

RecordsFail(c) ==
  /\ records' = [records EXCEPT !.loading = FALSE]
  /\ listings' = listings \ {c}
  /\ unlisted' = TRUE
  /\ UNCHANGED <<camera, zoomVars, placeVars, punchVars, acts>>

MiniCameraNext ==
  \/ MountTimer \/ RemountTimer \/ InitDone
  \/ \E z \in Zooms : SelectZoom(z)
  \/ \E c \in zoomings, ok \in BOOLEAN : ZoomSet(c, ok)
  \/ ToggleCamera \/ CameraStops \/ StopTimer \/ CameraBlocked \/ OpenSystemSetting
  \/ RefreshLocation \/ OnHide \/ OnShow
  \/ \E v \in locatings, ok \in BOOLEAN : Located(v, ok)
  \/ Capture \/ PhotoTaken \/ Recognized \/ PunchShown \/ PunchFails
  \/ \E c \in listings : Find(c) \/ TakeRecords(c) \/ RecordsFail(c)
-----------------------------------------------------------------------------
MiniCameraTypeOK ==
  /\ camera \in [alive : BOOLEAN, blocked : BOOLEAN, ready : BOOLEAN, inited : BOOLEAN, remounting : BOOLEAN,
                 mountDue : BOOLEAN, stopDue : BOOLEAN, side : Sides, zoom : Zooms, changing : BOOLEAN]
  /\ saved \in [Sides -> Zooms]
  /\ zoomings \subseteq [zoom : Zooms, side : Sides, persist : BOOLEAN]
  /\ visit \in [hidden : BOOLEAN, remountDue : BOOLEAN, since : 1..version]
  /\ locatings \subseteq 1..version /\ location \in {<<>>} \cup {<<v>> : v \in 1..version}
  /\ punch = <<>> \/ punch.stage \in {"photo", "sent", "punched"}
  /\ {assured, records.holds} \subseteq 0..punched
  /\ \A c \in listings : c.found = <<>> \/ c.found[1] \in 0..punched
  /\ picked \subseteq Sides \X Zooms
  /\ unlisted \in BOOLEAN /\ acts \in 0..MaxActs

\* However slowly the camera, the phone's place and the server answer: a punch
\* says where the phone was since the user had last come to the page, and not
\* before; the zoom remembered for a side was chosen for that side, also where
\* the camera is turned round meanwhile; and the list has every punch that was
\* shown as successful when no list is awaited, unless one was not brought or
\* an older one came after it (loadTodayRecords takes whatever comes).
PunchesAreRight ==
  /\ sent /= <<>> /\ sent.location /= <<>> => sent.location[1] >= sent.since
  /\ \A s \in Sides : saved[s] = 1 \/ <<s, saved[s]>> \in picked
  /\ listings = {} /\ ~unlisted => records.holds >= assured
=============================================================================

----------------------------- MODULE PlacePicker -----------------------------
(***************************************************************************)
(* The field of a project's form that takes a place on the map             *)
(* (AMapPickerField): the place in the form, and the overlay in which it   *)
(* is marked, by a press on the map, by moving the marker, or from what a  *)
(* search finds. The name of a point that was pressed is asked for         *)
(* afterwards, again when that fails, and perhaps with a plugin that is    *)
(* not there yet; a number tells the last request from those before it.    *)
(***************************************************************************)
EXTENDS Naturals

CONSTANTS MapPlaces,    \* points of the map
          NOPLACE,
          MaxPresses    \* bound: what the user does in overlays, and failures of the script

ASSUME PlacePickerAssumption == NOPLACE \notin MapPlaces /\ MaxPresses \in Nat

VARIABLES
  amap,        \* amapPromise, which outlives the overlay: "none", "loading" or "loaded"
  spot,        \* the place in the form: a point, and the point its name is of
  overlay,     \* "closed", "waiting" for the script, "there" with its map, or "failed"
  marked,      \* the place that is marked in the overlay (its state selected)
  nameStatus,
  geocodeSeq,  \* geocodeSeqRef
  namings,     \* requests for names that are on their way or wait to be repeated
  places,      \* searchResults
  searches,    \* how many are on their way
  overnamed,   \* history: a place was chosen from a search while a name was asked for
  presses

pickerVars == <<amap, spot, overlay, marked, nameStatus, geocodeSeq, namings, places, searches,
                overnamed, presses>>

NoSpot == [at |-> NOPLACE, name |-> NOPLACE]
Retries == 2
IsNamedRight(l) == l.name \in {NOPLACE, l.at}

\* The overlay that is closed, with all it has asked for: nobody hears the answers.
Unmounted ==
  /\ marked' = NoSpot /\ nameStatus' = "idle"
  /\ geocodeSeq' = 0 /\ namings' = {}
  /\ places' = {} /\ searches' = 0

PlacePickerInit ==
  /\ amap = "none"
  /\ spot \in {[at |-> p, name |-> n] : p, n \in MapPlaces \cup {NOPLACE}} /\ IsNamedRight(spot)
  /\ overlay = "closed"
  /\ marked = NoSpot /\ nameStatus = "idle"
  /\ geocodeSeq = 0 /\ namings = {}
  /\ places = {} /\ searches = 0
  /\ overnamed = FALSE /\ presses = 0

Press == presses < MaxPresses /\ presses' = presses + 1
-----------------------------------------------------------------------------
(* The overlay and its map. *)

OpenPicker ==
  /\ overlay = "closed"
  /\ Press
  /\ overlay' = "waiting"
  /\ amap' = IF amap = "none" THEN "loading" ELSE amap
  /\ marked' = spot
  /\ UNCHANGED <<spot, nameStatus, geocodeSeq, namings, places, searches, overnamed>>

AMapLoads ==
  /\ amap = "loading"
  /\ amap' = "loaded"
  /\ UNCHANGED <<spot, overlay, marked, nameStatus, geocodeSeq, namings, places, searches, overnamed, presses>>

\* The next overlay asks for the script again.
AMapFails ==
  /\ amap = "loading"
  /\ Press
  /\ amap' = "none"
  /\ overlay' = IF overlay = "waiting" THEN "failed" ELSE overlay
  /\ UNCHANGED <<spot, marked, nameStatus, geocodeSeq, namings, places, searches, overnamed>>

MapIsMade ==
  /\ overlay = "waiting" /\ amap = "loaded"
  /\ overlay' = "there"
  /\ UNCHANGED <<amap, spot, marked, nameStatus, geocodeSeq, namings, places, searches, overnamed, presses>>

\* onConfirm, without waiting for the name.
ConfirmPlace ==
  /\ overlay /= "closed" /\ marked.at /= NOPLACE
  /\ spot' = marked
  /\ overlay' = "closed" /\ Unmounted
  /\ UNCHANGED <<amap, overnamed, presses>>

CancelPicker ==
  /\ overlay /= "closed"
  /\ overlay' = "closed" /\ Unmounted
  /\ UNCHANGED <<amap, spot, overnamed, presses>>

ClearLocation ==
  /\ overlay = "closed" /\ spot.at /= NOPLACE
  /\ spot' = NoSpot
  /\ UNCHANGED <<amap, overlay, marked, nameStatus, geocodeSeq, namings, places, searches, overnamed, presses>>
-----------------------------------------------------------------------------
(* The name of a point. *)

IsCurrent(c) == c.seq = geocodeSeq

\* attempt: the name is asked for, or the plugin first, or there is nothing to ask.
Attempt(calls, c) ==
  \/ namings' = calls \cup {[c EXCEPT !.stage = "asked"]} /\ UNCHANGED nameStatus
  \/ c.left > 0 /\ namings' = calls \cup {[c EXCEPT !.stage = "plugin"]} /\ UNCHANGED nameStatus
  \/ namings' = calls /\ nameStatus' = "failed"

\* fillLocationName. An attempt that fails at once leaves nothing behind.
FillLocationName(p) ==
  LET c == [seq |-> geocodeSeq + 1, at |-> p, left |-> Retries, stage |-> "asked"]
  IN  /\ geocodeSeq' = geocodeSeq + 1
      /\ \/ /\ nameStatus' = "loading"
            /\ namings' \in {namings \cup {c}, namings \cup {[c EXCEPT !.stage = "plugin"]}}
         \/ nameStatus' = "failed" /\ namings' = namings

PressMap(p) ==
  /\ overlay = "there"
  /\ Press
  /\ marked' = [at |-> p, name |-> NOPLACE]
  /\ FillLocationName(p)
  /\ UNCHANGED <<amap, spot, overlay, places, searches, overnamed>>

AskNameAgain ==
  /\ marked.at /= NOPLACE /\ marked.name = NOPLACE /\ nameStatus = "failed"
  /\ Press
  /\ FillLocationName(marked.at)
  /\ UNCHANGED <<amap, spot, overlay, marked, places, searches, overnamed>>

\* Mutant: whatever comes is the name.
AnyNameComes(c, known) ==
  /\ c.stage = "asked"
  /\ namings' = namings \ {c}
  /\ nameStatus' = "idle"
  /\ marked' = IF known /\ marked.at /= NOPLACE THEN [marked EXCEPT !.name = c.at] ELSE marked
  /\ UNCHANGED <<amap, spot, overlay, geocodeSeq, places, searches, overnamed, presses>>

\* The last request is answered, with a name or without one; those before it are dropped.
NameOfPlaceComes(c, known) ==
  /\ c.stage = "asked"
  /\ namings' = namings \ {c}
  /\ nameStatus' = IF IsCurrent(c) THEN "idle" ELSE nameStatus
  /\ marked' = IF IsCurrent(c) /\ known /\ marked.at /= NOPLACE THEN [marked EXCEPT !.name = c.at] ELSE marked
  /\ UNCHANGED <<amap, spot, overlay, geocodeSeq, places, searches, overnamed, presses>>

NameOfPlaceFails(c) ==
  /\ c.stage = "asked"
  /\ IF IsCurrent(c) /\ c.left > 0
       THEN namings' = (namings \ {c}) \cup {[c EXCEPT !.stage = "pause"]} /\ UNCHANGED nameStatus
       ELSE namings' = namings \ {c} /\ nameStatus' = IF IsCurrent(c) THEN "failed" ELSE nameStatus
  /\ UNCHANGED <<amap, spot, overlay, marked, geocodeSeq, places, searches, overnamed, presses>>

\* The plugin has come, or the 600 milliseconds are over.
AttemptAgain(c) ==
  /\ c.stage \in {"plugin", "pause"}
  /\ IF IsCurrent(c) THEN Attempt(namings \ {c}, [c EXCEPT !.left = @ - 1])
     ELSE namings' = namings \ {c} /\ UNCHANGED nameStatus
  /\ UNCHANGED <<amap, spot, overlay, marked, geocodeSeq, places, searches, overnamed, presses>>
-----------------------------------------------------------------------------
(* The search. *)

\* The button waits for the search before, the key does not.
HandleSearch ==
  /\ overlay = "there"
  /\ Press
  /\ searches' = searches + 1
  /\ UNCHANGED <<amap, spot, overlay, marked, nameStatus, geocodeSeq, namings, places, overnamed>>

SearchComes(pois) ==
  /\ searches > 0
  /\ searches' = searches - 1
  /\ places' = pois
  /\ UNCHANGED <<amap, spot, overlay, marked, nameStatus, geocodeSeq, namings, overnamed, presses>>

\* choosePoi: the place comes with its name. A request for another's stays the last one.
ChoosePoi(p) ==
  /\ p \in places
  /\ marked' = [at |-> p, name |-> p]
  /\ nameStatus' = "idle"
  /\ places' = {}
  /\ overnamed' = (overnamed \/ \E c \in namings : IsCurrent(c))
  /\ UNCHANGED <<amap, spot, overlay, geocodeSeq, namings, searches, presses>>

PlacePickerNext ==
  \/ OpenPicker \/ AMapLoads \/ AMapFails \/ MapIsMade
  \/ ConfirmPlace \/ CancelPicker \/ ClearLocation
  \/ (\E p \in MapPlaces : PressMap(p)) \/ AskNameAgain
  \/ \E c \in namings :
       (\E known \in BOOLEAN : NameOfPlaceComes(c, known)) \/ NameOfPlaceFails(c) \/ AttemptAgain(c)
  \/ HandleSearch
  \/ \E pois \in SUBSET MapPlaces : SearchComes(pois)
  \/ \E p \in MapPlaces : ChoosePoi(p)
-----------------------------------------------------------------------------
Locations == [at : MapPlaces \cup {NOPLACE}, name : MapPlaces \cup {NOPLACE}]
Namings == [seq : 1..MaxPresses, at : MapPlaces, left : 0..Retries, stage : {"asked", "plugin", "pause"}]

PlacePickerTypeOK ==
  /\ amap \in {"none", "loading", "loaded"}
  /\ spot \in Locations /\ marked \in Locations
  /\ overlay \in {"closed", "waiting", "there", "failed"}
  /\ nameStatus \in {"idle", "loading", "failed"}
  /\ geocodeSeq \in 0..MaxPresses /\ namings \subseteq Namings
  /\ places \subseteq MapPlaces /\ searches \in 0..MaxPresses
  /\ overnamed \in BOOLEAN /\ presses \in 0..MaxPresses

\* However late names and searches are answered: a place, in the overlay and in
\* the form, has its own name or none yet, but for one chosen from a search while
\* the name of another is asked for, which may get that one's; and a name that is
\* said to be on its way is.
PlacesAreNamedRight ==
  /\ ~overnamed => IsNamedRight(spot) /\ IsNamedRight(marked)
  /\ nameStatus = "loading" => \E c \in namings : IsCurrent(c)
=============================================================================

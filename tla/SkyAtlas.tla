------------------------------ MODULE SkyAtlas ------------------------------
(***************************************************************************)
(* The sky map (components/SkyMap/index.tsx with aladin/useAladinInit.ts,  *)
(* spectrum/surveys.ts, spectrum/SurveySelector.tsx and                    *)
(* lib/useBackendCatalog.ts): the atlas that is loaded once the geometry   *)
(* of the telescope is known, the survey it shows, and the gestures that   *)
(* drag it or pick a target.                                               *)
(*                                                                         *)
(* A gesture is a press of the primary pointer; it drags the map once it   *)
(* moves beyond the tolerance.  The browser sends a click after a release, *)
(* dragged or not.  The page a map is on may go away and come back; only   *)
(* the probe of the local mirror is kept, by its module.                   *)
(***************************************************************************)
EXTENDS Integers

CONSTANT Survey     \* the surveys but the hydrogen line

ASSUME SurveyAssumption == {"hydrogen", "none"} \cap Survey = {}

Surveys == {"hydrogen"} \cup Survey

\* What lies under a click: a satellite marker, or sky in the Milky Way band,
\* outside the hard limits, below the horizon (with the mount connected), in
\* reach, or nothing that can be projected.
SkySpot == {"satellite", "band", "outside", "below", "in reach", "nothing"}

VARIABLES
  atlas,          \* how far the initialisation is: it waits for telescopeConfig, ...
  probe,          \* hydrogenSourcePromise
  survey,
  layerDue,       \* a hydrogen layer waits for the probe
  layer,          \* the survey that is on screen
  selectorOpen,   \* viewSelectorOpen
  marker,         \* where the selector shows the active survey
  picking,        \* galacticExclusionRef.current
  pointer,        \* activePointer
  dragLoop,       \* the loop that keeps the zenith up runs (dragFrame)
  suppress,       \* suppressClickUntil is ahead
  clickDue,       \* the gesture a click is still to come for
  pin             \* the target of the parent, by how it was picked

atlasVars == <<atlas, probe, layerDue, layer>>
surveyVars == <<survey, selectorOpen, marker>>
gestureVars == <<pointer, dragLoop, suppress, clickDue>>
skyVars == <<atlasVars, surveyVars, picking, gestureVars, pin>>

SkyTypeOK ==
  /\ atlas \in {"waiting", "importing", "probing", "ready"}
  /\ probe \in {"none", "pending", "done"}
  /\ survey \in Surveys
  /\ layerDue \in BOOLEAN
  /\ layer \in Surveys \cup {"none"}
  /\ selectorOpen \in BOOLEAN
  /\ marker \in Surveys \cup {"moving"}
  /\ picking \in BOOLEAN
  /\ pointer \in {"up", "down", "dragged"}
  /\ dragLoop \in BOOLEAN
  /\ suppress \in BOOLEAN
  /\ clickDue \in {"none", "tap", "drag"}
  /\ pin \in {"none", "satellite", "sky", "milky way"}

SkyInit ==
  /\ atlas = "waiting"
  /\ probe = "none"
  /\ survey = "hydrogen"
  /\ layerDue = FALSE
  /\ layer = "none"
  /\ selectorOpen = FALSE
  /\ marker = "hydrogen"
  /\ picking = FALSE
  /\ pointer = "up"
  /\ dragLoop = FALSE
  /\ suppress = FALSE
  /\ clickDue = "none"
  /\ pin = "none"

\* What follows a promise that is settled comes before any event.
Events == ~(layerDue /\ probe = "done")
-----------------------------------------------------------------------------
(***************************************************************************)
(* Loading.                                                                *)
(***************************************************************************)
\* The geometry is there: the backend's, or the default if it cannot be had.
GeometryLoads ==
  /\ atlas = "waiting"
  /\ atlas' = "importing"
  /\ UNCHANGED <<probe, layerDue, layer, surveyVars, picking, gestureVars, pin>>

\* aladin-lite is there; the initialisation asks for the probe.
ModuleLoads ==
  /\ atlas = "importing"
  /\ atlas' = "probing"
  /\ probe' = IF probe = "none" THEN "pending" ELSE probe
  /\ UNCHANGED <<layerDue, layer, surveyVars, picking, gestureVars, pin>>

\* The mirror answered, or did not: both give a source.
ProbeEnds ==
  /\ probe = "pending"
  /\ probe' = "done"
  /\ UNCHANGED <<atlas, layerDue, layer, surveyVars, picking, gestureVars, pin>>

\* The atlas is made with the hydrogen survey, and `ready` runs the effect of the
\* selected one.
AtlasStarts ==
  /\ atlas = "probing"
  /\ probe = "done"
  /\ atlas' = "ready"
  /\ layer' = IF survey = "hydrogen" THEN "hydrogen" ELSE survey
  /\ layerDue' = (survey = "hydrogen")
  /\ UNCHANGED <<probe, surveyVars, picking, gestureVars, pin>>

\* The layer of a hydrogen survey that was selected, whatever is selected now.
HydrogenLayer ==
  /\ layerDue
  /\ probe = "done"
  /\ layerDue' = FALSE
  /\ layer' = "hydrogen"
  /\ UNCHANGED <<atlas, probe, surveyVars, picking, gestureVars, pin>>

\* The page goes away with its map, and comes back later.  A map that goes before it
\* is ready stops its initialisation at the next check.
PageLeft ==
  /\ Events
  /\ atlas = "ready"
  /\ atlas' = "waiting"
  /\ survey' = "hydrogen"
  /\ layerDue' = FALSE
  /\ layer' = "none"
  /\ selectorOpen' = FALSE
  /\ marker' = "hydrogen"
  /\ picking' = FALSE
  /\ pointer' = "up"
  /\ dragLoop' = FALSE
  /\ suppress' = FALSE
  /\ clickDue' = "none"
  /\ pin' = "none"
  /\ UNCHANGED probe
-----------------------------------------------------------------------------
(***************************************************************************)
(* The survey.                                                             *)
(***************************************************************************)
ToggleSelector ==
  /\ Events
  /\ selectorOpen' = ~selectorOpen
  /\ marker' = IF selectorOpen' THEN survey ELSE marker
  /\ UNCHANGED <<atlasVars, survey, picking, gestureVars, pin>>

\* resolveHydrogenSurveySource without its cache.
ShowProbed(s) ==
  /\ survey' = s
  /\ marker' = IF selectorOpen' /\ s # survey THEN "moving" ELSE marker
  /\ IF s = "hydrogen"
     THEN layerDue' = (s # survey /\ atlas = "ready") /\ probe' = "pending" /\ UNCHANGED layer
     ELSE layer' = s /\ UNCHANGED <<layerDue, probe>>

\* The effect of a new survey: another one at once, hydrogen when the probe says
\* from where.
Show(s) ==
  /\ survey' = s
  /\ marker' = IF selectorOpen' /\ s # survey THEN "moving" ELSE marker
  /\ UNCHANGED probe
  /\ IF s = "hydrogen"
     THEN layerDue' = (s # survey /\ atlas = "ready") /\ UNCHANGED layer
     ELSE layer' = s /\ UNCHANGED layerDue

\* A click in the chart of the selector, which is disabled until the atlas is ready.
SelectSurvey(s) ==
  /\ Events
  /\ selectorOpen
  /\ atlas = "ready"
  /\ UNCHANGED selectorOpen
  /\ Show(s)
  /\ UNCHANGED <<atlas, picking, gestureVars, pin>>

\* The baseline dialog sends the user to the hydrogen map, and its pick step then
\* sets the class on the body.
ForceHydrogen ==
  /\ Events
  /\ ~picking
  /\ picking' = TRUE
  /\ selectorOpen' = FALSE
  /\ Show("hydrogen")
  /\ UNCHANGED <<atlas, gestureVars, pin>>

PickEnds ==
  /\ Events
  /\ picking
  /\ picking' = FALSE
  /\ UNCHANGED <<atlasVars, surveyVars, gestureVars, pin>>

MarkerArrives ==
  /\ marker = "moving"
  /\ marker' = survey
  /\ UNCHANGED <<atlasVars, survey, selectorOpen, picking, gestureVars, pin>>
-----------------------------------------------------------------------------
(***************************************************************************)
(* Gestures.                                                               *)
(***************************************************************************)
Gestures == Events /\ atlas = "ready" /\ clickDue = "none"

PointerDown ==
  /\ Gestures
  /\ pointer' = "down"
  /\ dragLoop' = TRUE
  /\ UNCHANGED <<atlasVars, surveyVars, picking, suppress, clickDue, pin>>

PointerMoves ==
  /\ Gestures
  /\ pointer = "down"
  /\ pointer' = "dragged"
  /\ UNCHANGED <<atlasVars, surveyVars, picking, dragLoop, suppress, clickDue, pin>>

\* PointerUp that forgets to hold the click of a drag back.
UpPlain ==
  /\ Gestures
  /\ pointer # "up"
  /\ clickDue' = IF pointer = "dragged" THEN "drag" ELSE "tap"
  /\ pointer' = "up"
  /\ dragLoop' = FALSE
  /\ UNCHANGED <<atlasVars, surveyVars, picking, suppress, pin>>

\* The release in the map.
PointerUp ==
  /\ Gestures
  /\ pointer # "up"
  /\ suppress' = (suppress \/ pointer = "dragged")
  /\ clickDue' = IF pointer = "dragged" THEN "drag" ELSE "tap"
  /\ pointer' = "up"
  /\ dragLoop' = FALSE
  /\ UNCHANGED <<atlasVars, surveyVars, picking, pin>>

\* The browser takes the gesture over; no click follows.  After a release outside
\* the map nothing changes at all.
PointerCancelled ==
  /\ Gestures
  /\ pointer # "up"
  /\ suppress' = (suppress \/ pointer = "dragged")
  /\ pointer' = "up"
  /\ dragLoop' = FALSE
  /\ UNCHANGED <<atlasVars, surveyVars, picking, clickDue, pin>>

\* Half a second after a drag.
SuppressionEnds ==
  /\ Gestures
  /\ suppress
  /\ suppress' = FALSE
  /\ UNCHANGED <<atlasVars, surveyVars, picking, pointer, dragLoop, clickDue, pin>>

\* handleClick, for sky at a spot.
SkyClicked(spot) ==
  /\ suppress' = FALSE
  /\ pin' = IF suppress \/ survey # "hydrogen" \/ spot = "nothing" THEN pin
            ELSE IF spot = "outside" \/ (spot = "band" /\ picking) THEN "none"
            ELSE IF spot = "below" THEN pin
            ELSE IF spot = "band" THEN "milky way" ELSE "sky"

\* The click after a release.  The handler of the wrapper comes first and keeps a
\* click on a satellite to itself.
Click(spot) ==
  /\ Events
  /\ clickDue # "none"
  /\ clickDue' = "none"
  /\ IF spot = "satellite" THEN pin' = "satellite" /\ UNCHANGED suppress
     ELSE SkyClicked(spot)
  /\ UNCHANGED <<atlasVars, surveyVars, picking, pointer, dragLoop>>

RightClick ==
  /\ Gestures
  /\ pin # "none"
  /\ pin' = "none"
  /\ UNCHANGED <<atlasVars, surveyVars, picking, gestureVars>>

SkyNext ==
  \/ GeometryLoads \/ ModuleLoads \/ ProbeEnds \/ AtlasStarts
  \/ HydrogenLayer \/ PageLeft
  \/ ToggleSelector \/ ForceHydrogen \/ PickEnds \/ MarkerArrives
  \/ \E s \in Surveys : SelectSurvey(s)
  \/ PointerDown \/ PointerMoves \/ PointerUp \/ PointerCancelled \/ SuppressionEnds
  \/ RightClick \/ \E spot \in SkySpot : Click(spot)

SkySpec == SkyInit /\ [][SkyNext]_skyVars
-----------------------------------------------------------------------------
\* Whatever is selected in whatever order, the atlas shows the selected survey: a
\* hydrogen layer that waits for its source never replaces a later choice.
LayerFollowsSurvey == atlas = "ready" /\ ~layerDue => layer = survey

\* A drag never moves the pin to the sky where it ended.
DragPicksNoSky == [][clickDue = "drag" /\ pin' \in {"sky", "milky way"} => pin' = pin]_skyVars
=============================================================================

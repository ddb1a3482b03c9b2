----------------------------- MODULE SkyCanvas ------------------------------
(***************************************************************************)
(* The canvas over the sky map (components/SkyMap/horizon): what its       *)
(* layers paint, the hover zones they publish for the mouse handlers, and  *)
(* the gate that skips a frame when nothing that its signature names has   *)
(* changed.  The rings that SkyMap/index.tsx hands to the atlas itself     *)
(* follow at once.                                                         *)
(*                                                                         *)
(* Pixels are left out: a view is what can be projected to the screen in   *)
(* it.  App.tsx hands over no overlay until it knows the mode of the       *)
(* hardware, for which it asks once, and then at most that of the target   *)
(* satellite.  A heartbeat that may come at any time stands for the two    *)
(* periods after which a frame is painted although nothing has changed.    *)
(***************************************************************************)
EXTENDS Integers, FiniteSets

CONSTANTS
  View,         \* positions, zooms and sizes of the map
  Spot,         \* places on the sky
  Satellite,    \* overlays of kind "satellite", one of which is the target's
  InView        \* what each view shows of the spots, the satellites and the features

\* The horizon polygon, with the ground inside it or around it; rings, meridians and
\* cardinal points; the hard limits whole, or some part of them; the Milky Way band;
\* the sun, the ring around it, and the moon, if they are up.
Feature == {"horizon", "ground inside", "grid", "cardinals", "whole window", "part window",
            "milky way", "sun", "sun ring", "moon"}

ASSUME InViewAssumption == InView \in [View -> SUBSET (Spot \cup Satellite \cup Feature)]

NoSpot == "no spot"

ASSUME NoSpotAssumption == NoSpot \notin Spot \cup Satellite

VARIABLES
  canvasReady,    \* the atlas is ready and the geometry known
  view,
  dish,           \* telemetryRef: where the dish points, by its altitude and azimuth
                  \* and by the right ascension and declination sent along
  goingTo,        \* pendingRef
  overlays,       \* overlaysRef
  exclusion,      \* galacticExclusionRef
  hydrogenSky,    \* surveyRef is the hydrogen line
  drawnSignature, \* lastSig
  painted,        \* what is on the canvas
  zones           \* what the hover zone refs hold

inputVars == <<view, dish, goingTo, overlays, exclusion, hydrogenSky>>
canvasVars == <<canvasReady, inputVars, drawnSignature, painted, zones>>

\* The hardware sends a right ascension only with the altitude and azimuth it comes
\* from, and not the same place: its corrections are finer than the page's.
SentTelemetry ==
  {t \in [altAz : Spot \cup {NoSpot}, raDec : Spot \cup {NoSpot}] :
     t.altAz = NoSpot => t.raDec = NoSpot}

NoTelemetry == [altAz |-> NoSpot, raDec |-> NoSpot]

NoSignature == <<>>

\* viewSignature without the mode of the baseline dialog.
PlainSignature == <<view, dish.altAz, goingTo, Cardinality(overlays), hydrogenSky>>

\* viewSignature, of whose telemetry it names the altitude and azimuth alone.
Signature == <<view, dish.altAz, goingTo, Cardinality(overlays), exclusion, hydrogenSky>>

Shown(thing) == thing \in InView[view]
-----------------------------------------------------------------------------
(***************************************************************************)
(* The layers.                                                             *)
(***************************************************************************)
\* The hard limits on the screen: one closed loop if all of it can be projected, else
\* the patches that can.
SafeWindow ==
  IF Shown("whole window") THEN "loop" ELSE IF Shown("part window") THEN "patches" ELSE "none"

\* Everything above the horizon but outside the safe window is hatched, unless the
\* survey is one that only explores.
AltitudeLimits == IF hydrogenSky THEN {<<"all but", SafeWindow>>} ELSE {}

\* The ground is the inside of the horizon polygon, or the outside.
Ground == IF Shown("ground inside") THEN "inside" ELSE "outside"

\* Rings of equal altitude and meridians, with labels where they cross the edges.
AltAzGrid == Shown("grid")

\* The horizon is stroked in every frame that has one.
HorizonLine == Shown("horizon")

\* The Milky Way band, clipped to the safe window.
GalacticExclusion ==
  IF exclusion /\ Shown("milky way") /\ SafeWindow # "none" THEN {SafeWindow} ELSE {}

Cardinals == Shown("cardinals")

\* By altitude and azimuth if they are known, else by the other pair.
DishPlace == IF dish.altAz # NoSpot THEN dish.altAz ELSE dish.raDec

\* From the dish to the target, if both can be projected.
SlewPath == IF Shown(DishPlace) /\ Shown(goingTo) THEN {<<DishPlace, goingTo>>} ELSE {}

SunAndMoon == {"sun", "moon"} \cap InView[view]

SatelliteOverlays == overlays \cap InView[view]

Layers ==
  [limits |-> AltitudeLimits, ground |-> {Ground}, grid |-> AltAzGrid, line |-> HorizonLine,
   band |-> GalacticExclusion, cardinals |-> Cardinals, path |-> SlewPath,
   bodies |-> SunAndMoon, satellites |-> SatelliteOverlays]

Blank ==
  [limits |-> {}, ground |-> {}, grid |-> FALSE, line |-> FALSE, band |-> {},
   cardinals |-> FALSE, path |-> {}, bodies |-> {}, satellites |-> {}]

\* The ring the sun is not to be approached in, as drawSunAndMoon publishes it.
SunZone == IF "sun" \in SunAndMoon THEN {"sun ring"} \cap InView[view] ELSE {}

\* The beam at the dish and at the target: nothing is painted.
BeamZone == {dish.altAz} \cap InView[view]
TargetZone == {goingTo} \cap InView[view]

\* The zones of a frame, which drop those of the last one.
FrameZones ==
  [sun |-> SunZone, satellites |-> SatelliteOverlays, beam |-> BeamZone, target |-> TargetZone]

NoZones == [sun |-> {}, satellites |-> {}, beam |-> {}, target |-> {}]

\* The rings SkyMap/index.tsx has the atlas draw around the dish and the target.
BeamRing == {DishPlace} \ {NoSpot}
TargetRing == {goingTo} \ {NoSpot}
-----------------------------------------------------------------------------
CanvasTypeOK ==
  /\ canvasReady \in BOOLEAN
  /\ view \in View
  /\ dish \in SentTelemetry
  /\ goingTo \in Spot \cup {NoSpot}
  /\ overlays \subseteq Satellite
  /\ exclusion \in BOOLEAN
  /\ hydrogenSky \in BOOLEAN
  /\ painted \in [limits : SUBSET ({"all but"} \X {"loop", "patches", "none"}),
                  ground : SUBSET {"inside", "outside"}, grid : BOOLEAN, line : BOOLEAN,
                  band : SUBSET {"loop", "patches"}, cardinals : BOOLEAN,
                  path : SUBSET (Spot \X Spot), bodies : SUBSET {"sun", "moon"},
                  satellites : SUBSET Satellite]
  /\ zones \in [sun : SUBSET {"sun ring"}, satellites : SUBSET Satellite, beam : SUBSET Spot,
                target : SUBSET Spot]

CanvasInit ==
  /\ canvasReady = FALSE
  /\ view \in View
  /\ dish = NoTelemetry
  /\ goingTo = NoSpot
  /\ overlays = {}
  /\ exclusion = FALSE
  /\ hydrogenSky = TRUE
  /\ drawnSignature = NoSignature
  /\ painted = Blank
  /\ zones = NoZones

CanvasStarts ==
  /\ ~canvasReady
  /\ canvasReady' = TRUE
  /\ UNCHANGED <<inputVars, drawnSignature, painted, zones>>

\* A render of SkyMap, or the atlas, changes one of the things the draw loop reads.
ViewMoves ==
  /\ view' \in View
  /\ UNCHANGED <<canvasReady, dish, goingTo, overlays, exclusion, hydrogenSky,
                 drawnSignature, painted, zones>>

DishMoves ==
  /\ dish' \in SentTelemetry
  /\ UNCHANGED <<canvasReady, view, goingTo, overlays, exclusion, hydrogenSky,
                 drawnSignature, painted, zones>>

TargetChanges ==
  /\ goingTo' \in Spot \cup {NoSpot}
  /\ UNCHANGED <<canvasReady, view, dish, overlays, exclusion, hydrogenSky,
                 drawnSignature, painted, zones>>

\* The mode and the geometry are known, and the target is up.
OverlayComes ==
  /\ overlays = {}
  /\ \E target \in Satellite : overlays' = {target}
  /\ UNCHANGED <<canvasReady, view, dish, goingTo, exclusion, hydrogenSky,
                 drawnSignature, painted, zones>>

ModeChanges ==
  /\ exclusion' \in BOOLEAN
  /\ hydrogenSky' \in BOOLEAN
  /\ UNCHANGED <<canvasReady, view, dish, goingTo, overlays, drawnSignature, painted, zones>>

\* A frame: the canvas is cleared, and left so, with the zones as they were, when
\* the horizon cannot be projected.
Paint ==
  /\ drawnSignature' = Signature
  /\ IF Shown("horizon")
     THEN painted' = Layers /\ zones' = FrameZones
     ELSE painted' = Blank /\ UNCHANGED zones

\* The draw loop: at once after a change that the signature tells, else only with
\* the heartbeat.
SignatureChanged == canvasReady /\ Signature # drawnSignature /\ Paint

Heartbeat == canvasReady /\ Signature = drawnSignature /\ Paint

Draw == (SignatureChanged \/ Heartbeat) /\ UNCHANGED <<canvasReady, inputVars>>

CanvasNext ==
  \/ CanvasStarts \/ ViewMoves \/ DishMoves \/ TargetChanges \/ OverlayComes \/ ModeChanges
  \/ Draw

CanvasSpec == CanvasInit /\ [][CanvasNext]_canvasVars
-----------------------------------------------------------------------------
\* What the gate skips needs no painting: as long as the signature is that of the last
\* frame, a frame would paint what is on the canvas, and publish the zones the mouse
\* handlers have.
GateSkipsNothing ==
  drawnSignature = Signature =>
    IF Shown("horizon") THEN painted = Layers /\ zones = FrameZones ELSE painted = Blank
=============================================================================

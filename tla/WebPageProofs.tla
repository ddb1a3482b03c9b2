--------------------------- MODULE WebPageProofs ---------------------------
(***************************************************************************)
(* Theorems about the smaller parts of the web page: the pin of the sky    *)
(* map and the slew that is watched, the survey the atlas shows, the       *)
(* canvas over it, the form that joins the queue, the frame loops of the   *)
(* illustrations and the GOES view.  Each part has an inductive invariant  *)
(* of its own; at the end stands that of the application they make up.     *)
(***************************************************************************)
EXTENDS MCWebApp, SpectrumViewProofs, JogPadProofs, GuidedToursProofs

-----------------------------------------------------------------------------
(***************************************************************************)
(* SlewTarget.                                                             *)
(***************************************************************************)
LEMMA NowhereIsNoPlace == \A p \in Places : p # Nowhere
BY DEF Places, Nowhere

LEMMA SpotsArePlaces == Spots \subseteq Places
BY SpotsAssumption DEF Places

LEMMA NoSlewIsNowhere == \A s : s = NoSlew => s.to = Nowhere
BY DEF NoSlew

\* A pin has a place, and a slew a place to go to.
PinHasPlace == hasMapTarget => target \in Spots

SlewInv == SlewTypeOK /\ PinHasPlace /\ WatchedSlewIsPinned

LEMMA SlewInitInv == SlewInit => SlewInv
BY SpotsAssumption
   DEF SlewInit, SlewInv, SlewTypeOK, PinHasPlace, WatchedSlewIsPinned, Places, Nowhere

LEMMA SlewUserInv ==
  ASSUME SlewInv,
         \/ ConfigLoads
         \/ \E t \in Spots : MapClicked(t) \/ FormCommits(t)
         \/ PinCleared \/ SlewPressed \/ StopPressed
  PROVE  SlewInv'
<1>0. SlewTypeOK /\ PinHasPlace /\ WatchedSlewIsPinned
  BY DEF SlewInv
<1>1. CASE ConfigLoads \/ StopPressed
  <2>1. /\ UNCHANGED <<hasMapTarget, target, submitted, gotos, pos, goal, running, witnessed>>
        /\ mapConfig' \in BOOLEAN /\ stopping' \in BOOLEAN
    BY <1>0, <1>1 DEF mountVars, ConfigLoads, StopPressed, SlewTypeOK
  <2> QED BY <1>0, <2>1 DEF SlewInv, SlewTypeOK, PinHasPlace, WatchedSlewIsPinned
<1>2. ASSUME NEW t \in Spots, MapClicked(t) \/ FormCommits(t) PROVE SlewInv'
  <2>1. /\ hasMapTarget' = TRUE /\ target' = t
        /\ submitted' = IF submitted.to = t THEN submitted ELSE NoSlew
        /\ mapConfig' = mapConfig
        /\ UNCHANGED <<gotos, stopping, pos, goal, running, witnessed>>
    BY <1>2 DEF MapClicked, FormCommits, Pin, mountVars
  <2>2. SlewTypeOK'
    BY <1>0, <2>1 DEF SlewTypeOK
  <2>3. PinHasPlace'
    BY <2>1 DEF PinHasPlace
  <2>4. WatchedSlewIsPinned'
    BY <2>1 DEF WatchedSlewIsPinned
  <2> QED BY <2>2, <2>3, <2>4 DEF SlewInv
<1>3. CASE PinCleared
  BY <1>0, <1>3
     DEF SlewInv, mountVars, PinCleared, SlewTypeOK, PinHasPlace, WatchedSlewIsPinned
<1>4. CASE SlewPressed
  <2>1. /\ target \in Spots
        /\ submitted' = [to |-> target, arrived |-> {}, hasMoved |-> FALSE, last |-> Nowhere]
    BY <1>0, <1>4 DEF SlewPressed, PinHasPlace, NoSlew
  <2>2. submitted' \in [to : Spots, arrived : SUBSET Axis, hasMoved : BOOLEAN,
                        last : Places \cup {Nowhere}]
    BY <2>1
  <2>3. SlewTypeOK'
    BY <1>0, <1>4, <2>1, <2>2 DEF SlewPressed, SlewTypeOK, mountVars
  <2>4. PinHasPlace' /\ WatchedSlewIsPinned'
    BY <1>0, <1>4, <2>1 DEF SlewPressed, PinHasPlace, WatchedSlewIsPinned
  <2> QED BY <2>3, <2>4 DEF SlewInv
<1> QED BY <1>1, <1>2, <1>3, <1>4

LEMMA TelemetryInv ==
  ASSUME SlewInv, Telemetry
  PROVE  SlewInv'
<1> USE DEF SlewInv
<1>0. UNCHANGED <<mapConfig, target, gotos, pos, goal, running>> /\ witnessed' = running
  BY DEF Telemetry
<1>1. CASE ~hasMapTarget \/ submitted = NoSlew
  BY <1>0, <1>1 DEF Telemetry, SlewTypeOK, PinHasPlace, WatchedSlewIsPinned
<1>2. CASE hasMapTarget /\ submitted # NoSlew /\ Arrived
  <2>1. submitted' = NoSlew /\ stopping' = TRUE /\ hasMapTarget' = FALSE
    BY <1>2 DEF Telemetry
  <2> QED BY <1>0, <2>1 DEF SlewTypeOK, PinHasPlace, WatchedSlewIsPinned
<1>3. CASE hasMapTarget /\ submitted # NoSlew /\ ~Arrived
  <2> DEFINE S == {a \in Axis : Reached(a)}
             m == submitted.hasMoved \/ running
  <2>1. /\ submitted' = [submitted EXCEPT !.arrived = S, !.hasMoved = m, !.last = pos]
        /\ UNCHANGED <<hasMapTarget, stopping>>
    BY <1>3 DEF Telemetry
  <2>2. submitted \in [to : Spots, arrived : SUBSET Axis, hasMoved : BOOLEAN,
                       last : Places \cup {Nowhere}]
    BY <1>3 DEF SlewTypeOK
  <2>3. S \in SUBSET Axis /\ m \in BOOLEAN /\ pos \in Places
    BY <2>2 DEF SlewTypeOK
  <2> HIDE DEF S, m
  <2>4. /\ submitted' \in [to : Spots, arrived : SUBSET Axis, hasMoved : BOOLEAN,
                           last : Places \cup {Nowhere}]
        /\ submitted'.to = submitted.to
    BY <2>1, <2>2, <2>3
  <2>5. SlewTypeOK'
    BY <1>0, <2>1, <2>4 DEF SlewTypeOK
  <2>6. PinHasPlace' /\ WatchedSlewIsPinned'
    BY <1>0, <1>3, <2>1, <2>4 DEF PinHasPlace, WatchedSlewIsPinned
  <2> QED BY <2>5, <2>6
<1> QED BY <1>1, <1>2, <1>3

LEMMA MountStepsInv ==
  ASSUME SlewInv,
         \/ \E t \in Spots : GotoArrives(t) \/ GotoFails(t)
         \/ StopArrives \/ StopFails
         \/ MountDrives \/ MountHalts \/ MountJogged
  PROVE  SlewInv'
<1>1. UNCHANGED <<mapConfig, hasMapTarget, target, submitted>>
  BY DEF GotoArrives, GotoFails, StopArrives, StopFails, MountDrives, MountHalts,
         MountJogged
<1>2. /\ gotos' \in SUBSET Spots /\ stopping' \in BOOLEAN /\ pos' \in Places
      /\ goal' \in Spots \cup {Nowhere} /\ running' \in BOOLEAN /\ witnessed' \in BOOLEAN
  <2> USE DEF SlewInv, SlewTypeOK, mountVars
  <2>1. CASE \E t \in Spots : GotoArrives(t) \/ GotoFails(t)
    BY <2>1 DEF GotoArrives, GotoFails
  <2>2. CASE StopArrives \/ StopFails
    BY <2>2 DEF StopArrives, StopFails
  <2>3. CASE MountDrives \/ MountHalts \/ MountJogged
    BY <2>3 DEF MountDrives, MountHalts, MountJogged
  <2> QED BY <2>1, <2>2, <2>3
<1> QED BY <1>1, <1>2 DEF SlewInv, SlewTypeOK, PinHasPlace, WatchedSlewIsPinned

LEMMA SlewNextInv == SlewInv /\ [SlewNext]_slewVars => SlewInv'
<1> SUFFICES ASSUME SlewInv, [SlewNext]_slewVars PROVE SlewInv'
  OBVIOUS
<1>1. CASE UNCHANGED slewVars
  BY <1>1 DEF slewVars, SlewInv, SlewTypeOK, PinHasPlace, WatchedSlewIsPinned
<1>2. CASE SlewNext
  BY <1>2, SlewUserInv, TelemetryInv, MountStepsInv DEF SlewNext
<1> QED BY <1>1, <1>2

LEMMA SlewInvHolds == SlewSpec => []SlewInv
BY SlewInitInv, SlewNextInv, PTL DEF SlewSpec

\* Every variable of the pin and of the mount keeps to its type, for any places.
THEOREM SlewTypes == SlewSpec => []SlewTypeOK
<1>1. SlewInv => SlewTypeOK
  BY DEF SlewInv
<1> QED BY <1>1, SlewInvHolds, PTL

\* The watch for the arrival is always one for the pin on the map: no stop of a mount
\* for a target that was given up, for any places and however messages interleave.
THEOREM WatchIsOfThePin == SlewSpec => []WatchedSlewIsPinned
<1>1. SlewInv => WatchedSlewIsPinned
  BY DEF SlewInv
<1> QED BY <1>1, SlewInvHolds, PTL
-----------------------------------------------------------------------------
(***************************************************************************)
(* SkyAtlas.                                                               *)
(***************************************************************************)
\* A layer waits for its source only while its survey is selected: the probe has ended
\* before the atlas is ready, and nothing is selected between its end and the layer.
LayerIsSelected ==
  /\ atlas = "ready" => probe = "done"
  /\ layerDue => atlas = "ready" /\ survey = "hydrogen"

\* The click of a drag finds the suppression that the release has set.
DragIsSuppressed == clickDue = "drag" => suppress

\* The type, in two parts that no step disturbs at once.
AtlasTypes ==
  /\ atlas \in {"waiting", "importing", "probing", "ready"}
  /\ probe \in {"none", "pending", "done"}
  /\ survey \in Surveys
  /\ layerDue \in BOOLEAN
  /\ layer \in Surveys \cup {"none"}
  /\ selectorOpen \in BOOLEAN
  /\ marker \in Surveys \cup {"moving"}

GestureTypes ==
  /\ picking \in BOOLEAN
  /\ pointer \in {"up", "down", "dragged"}
  /\ dragLoop \in BOOLEAN
  /\ suppress \in BOOLEAN
  /\ clickDue \in {"none", "tap", "drag"}
  /\ pin \in {"none", "satellite", "sky", "milky way"}

SkyInv == AtlasTypes /\ GestureTypes /\ LayerIsSelected /\ LayerFollowsSurvey /\ DragIsSuppressed

LEMMA SkyInitInv == SkyInit => SkyInv
BY DEF SkyInit, SkyInv, AtlasTypes, GestureTypes, Surveys, LayerIsSelected,
       LayerFollowsSurvey, DragIsSuppressed

\* A step that leaves the atlas and its survey alone.
LEMMA AtlasUntouched ==
  ASSUME AtlasTypes, LayerIsSelected, LayerFollowsSurvey,
         UNCHANGED <<atlas, probe, survey, layerDue, layer>>,
         selectorOpen' \in BOOLEAN, marker' \in Surveys \cup {"moving"}
  PROVE  AtlasTypes' /\ LayerIsSelected' /\ LayerFollowsSurvey'
<1>1. AtlasTypes'
  BY DEF AtlasTypes
<1>2. LayerIsSelected' /\ LayerFollowsSurvey'
  BY DEF LayerIsSelected, LayerFollowsSurvey
<1> QED BY <1>1, <1>2

\* A step that leaves the gestures alone.
LEMMA GesturesUntouched ==
  ASSUME GestureTypes, DragIsSuppressed,
         UNCHANGED <<pointer, dragLoop, suppress, clickDue, pin>>, picking' \in BOOLEAN
  PROVE  GestureTypes' /\ DragIsSuppressed'
<1>1. GestureTypes'
  BY DEF GestureTypes
<1>2. DragIsSuppressed'
  BY DEF DragIsSuppressed
<1> QED BY <1>1, <1>2

LEMMA LoadingInv ==
  ASSUME SkyInv,
         \/ GeometryLoads \/ ModuleLoads \/ ProbeEnds \/ AtlasStarts
         \/ HydrogenLayer \/ PageLeft
  PROVE  SkyInv'
<1>0. AtlasTypes /\ GestureTypes /\ LayerIsSelected /\ LayerFollowsSurvey /\ DragIsSuppressed
  BY DEF SkyInv
<1>1. AtlasTypes'
  BY <1>0 DEF AtlasTypes, Surveys, GeometryLoads, ModuleLoads, ProbeEnds, AtlasStarts,
     HydrogenLayer, PageLeft, surveyVars
<1>2. LayerIsSelected'
  <2>1. CASE GeometryLoads \/ ModuleLoads \/ PageLeft
    BY <1>0, <2>1 DEF LayerIsSelected, GeometryLoads, ModuleLoads, PageLeft
  <2>2. CASE ProbeEnds \/ HydrogenLayer
    BY <1>0, <2>2 DEF LayerIsSelected, ProbeEnds, HydrogenLayer, surveyVars
  <2>3. CASE AtlasStarts
    BY <2>3 DEF LayerIsSelected, AtlasStarts, surveyVars
  <2> QED BY <2>1, <2>2, <2>3
<1>3. LayerFollowsSurvey'
  BY <1>0 DEF LayerIsSelected, LayerFollowsSurvey, GeometryLoads, ModuleLoads, ProbeEnds,
     AtlasStarts, HydrogenLayer, PageLeft, surveyVars
<1>4. GestureTypes' /\ DragIsSuppressed'
  <2>1. CASE PageLeft
    BY <2>1 DEF PageLeft, GestureTypes, DragIsSuppressed
  <2>2. CASE GeometryLoads \/ ModuleLoads \/ ProbeEnds \/ AtlasStarts \/ HydrogenLayer
    <3>1. UNCHANGED <<picking, pointer, dragLoop, suppress, clickDue, pin>>
      BY <2>2 DEF GeometryLoads, ModuleLoads, ProbeEnds, AtlasStarts, HydrogenLayer, gestureVars
    <3>2. picking' \in BOOLEAN
      BY <1>0, <3>1 DEF GestureTypes
    <3> QED BY <1>0, <3>1, <3>2, GesturesUntouched
  <2> QED BY <2>1, <2>2
<1> QED BY <1>1, <1>2, <1>3, <1>4 DEF SkyInv

\* Between two events no layer waits for its source.
LEMMA NoLayerDue ==
  ASSUME LayerIsSelected, Events
  PROVE  ~layerDue
BY DEF LayerIsSelected, Events

LEMMA SelectingInv ==
  ASSUME SkyInv,
         \/ ToggleSelector \/ ForceHydrogen \/ PickEnds \/ MarkerArrives
         \/ \E s \in Surveys : SelectSurvey(s)
  PROVE  SkyInv'
<1>0. AtlasTypes /\ GestureTypes /\ LayerIsSelected /\ LayerFollowsSurvey /\ DragIsSuppressed
  BY DEF SkyInv
<1>1. CASE ToggleSelector \/ PickEnds \/ MarkerArrives
  <2>1. /\ UNCHANGED <<atlas, probe, survey, layerDue, layer>>
        /\ UNCHANGED <<pointer, dragLoop, suppress, clickDue, pin>>
    BY <1>1 DEF ToggleSelector, PickEnds, MarkerArrives, atlasVars, surveyVars, gestureVars
  <2>2. selectorOpen' \in BOOLEAN /\ marker' \in Surveys \cup {"moving"}
    BY <1>0, <1>1 DEF AtlasTypes, ToggleSelector, PickEnds, MarkerArrives, surveyVars
  <2>3. picking' \in BOOLEAN
    BY <1>0, <1>1 DEF GestureTypes, ToggleSelector, PickEnds, MarkerArrives
  <2>4. AtlasTypes' /\ LayerIsSelected' /\ LayerFollowsSurvey'
    BY <1>0, <2>1, <2>2, AtlasUntouched
  <2>5. GestureTypes' /\ DragIsSuppressed'
    BY <1>0, <2>1, <2>3, GesturesUntouched
  <2> QED BY <2>4, <2>5 DEF SkyInv
<1>2. ASSUME NEW s \in Surveys, Show(s), Events, UNCHANGED <<atlas, gestureVars, pin>>,
             atlas = "ready" \/ s = "hydrogen",
             selectorOpen' \in BOOLEAN, picking' \in BOOLEAN
      PROVE  SkyInv'
  <2>1. ~layerDue
    BY <1>0, <1>2, NoLayerDue
  <2>2. AtlasTypes'
    <3>1. /\ survey' \in Surveys /\ marker' \in Surveys \cup {"moving"}
          /\ probe' = probe /\ layer' \in Surveys \cup {"none"}
      BY <1>0, <1>2 DEF AtlasTypes, Show
    <3>2. layerDue' \in BOOLEAN
      BY <1>0, <1>2 DEF AtlasTypes, Show
    <3> QED BY <1>0, <1>2, <3>1, <3>2 DEF AtlasTypes
  <2>3. LayerIsSelected' /\ LayerFollowsSurvey'
    BY <1>0, <1>2, <2>1 DEF LayerIsSelected, LayerFollowsSurvey, Show
  <2>4. GestureTypes' /\ DragIsSuppressed'
    BY <1>0, <1>2, GesturesUntouched DEF gestureVars
  <2> QED BY <2>2, <2>3, <2>4 DEF SkyInv
<1>3. CASE ForceHydrogen
  BY <1>0, <1>2, <1>3 DEF ForceHydrogen, Surveys
<1>4. ASSUME NEW s \in Surveys, SelectSurvey(s) PROVE SkyInv'
  BY <1>0, <1>2, <1>4 DEF SelectSurvey, AtlasTypes, GestureTypes
<1> QED BY <1>1, <1>3, <1>4

LEMMA GesturesInv ==
  ASSUME SkyInv,
         \/ PointerDown \/ PointerMoves \/ PointerUp \/ PointerCancelled
         \/ SuppressionEnds \/ RightClick
         \/ \E spot \in SkySpot : Click(spot)
  PROVE  SkyInv'
<1>0. AtlasTypes /\ GestureTypes /\ LayerIsSelected /\ LayerFollowsSurvey /\ DragIsSuppressed
  BY DEF SkyInv
<1>1. UNCHANGED <<atlasVars, surveyVars, picking>>
  BY DEF PointerDown, PointerMoves, PointerUp, PointerCancelled, SuppressionEnds,
         RightClick, Click
<1>2. /\ pointer' \in {"up", "down", "dragged"} /\ dragLoop' \in BOOLEAN
      /\ suppress' \in BOOLEAN /\ clickDue' \in {"none", "tap", "drag"}
      /\ pin' \in {"none", "satellite", "sky", "milky way"}
  BY <1>0 DEF GestureTypes, PointerDown, PointerMoves, PointerUp, PointerCancelled,
     SuppressionEnds, RightClick, Click, SkyClicked, gestureVars
<1>3. DragIsSuppressed'
  BY <1>0 DEF GestureTypes, DragIsSuppressed, Gestures, PointerDown, PointerMoves, PointerUp,
     PointerCancelled, SuppressionEnds, RightClick, Click, gestureVars
<1>4. GestureTypes'
  BY <1>0, <1>1, <1>2 DEF GestureTypes
<1>5. AtlasTypes' /\ LayerIsSelected' /\ LayerFollowsSurvey'
  <2>1. UNCHANGED <<atlas, probe, survey, layerDue, layer, selectorOpen, marker>>
    BY <1>1 DEF atlasVars, surveyVars
  <2>2. selectorOpen' \in BOOLEAN /\ marker' \in Surveys \cup {"moving"}
    BY <1>0, <2>1 DEF AtlasTypes
  <2> QED BY <1>0, <2>1, <2>2, AtlasUntouched
<1> QED BY <1>3, <1>4, <1>5 DEF SkyInv

LEMMA SkyNextInv == SkyInv /\ [SkyNext]_skyVars => SkyInv'
<1> SUFFICES ASSUME SkyInv, [SkyNext]_skyVars PROVE SkyInv'
  OBVIOUS
<1>1. CASE UNCHANGED skyVars
  <2>0. AtlasTypes /\ GestureTypes /\ LayerIsSelected /\ LayerFollowsSurvey /\ DragIsSuppressed
    BY DEF SkyInv
  <2>1. /\ UNCHANGED <<atlas, probe, survey, layerDue, layer, selectorOpen, marker>>
        /\ UNCHANGED <<picking, pointer, dragLoop, suppress, clickDue, pin>>
    BY <1>1 DEF skyVars, atlasVars, surveyVars, gestureVars
  <2>2. selectorOpen' \in BOOLEAN /\ marker' \in Surveys \cup {"moving"}
    BY <2>0, <2>1 DEF AtlasTypes
  <2>3. picking' \in BOOLEAN
    BY <2>0, <2>1 DEF GestureTypes
  <2>4. AtlasTypes' /\ LayerIsSelected' /\ LayerFollowsSurvey'
    BY <2>0, <2>1, <2>2, AtlasUntouched
  <2>5. GestureTypes' /\ DragIsSuppressed'
    BY <2>0, <2>1, <2>3, GesturesUntouched
  <2> QED BY <2>4, <2>5 DEF SkyInv
<1>2. CASE SkyNext
  BY <1>2, LoadingInv, SelectingInv, GesturesInv DEF SkyNext
<1> QED BY <1>1, <1>2

LEMMA SkyInvHolds == SkySpec => []SkyInv
BY SkyInitInv, SkyNextInv, PTL DEF SkySpec

\* Every variable of the sky map keeps to its type, for any surveys.
THEOREM SkyTypes == SkySpec => []SkyTypeOK
<1>1. SkyInv => SkyTypeOK
  BY DEF SkyInv, AtlasTypes, GestureTypes, SkyTypeOK
<1> QED BY <1>1, SkyInvHolds, PTL

\* Whatever surveys are selected in whatever order, the atlas shows the one that is
\* selected as soon as no layer waits, for any set of surveys.
THEOREM AtlasFollowsSurvey == SkySpec => []LayerFollowsSurvey
<1>1. SkyInv => LayerFollowsSurvey
  BY DEF SkyInv
<1> QED BY <1>1, SkyInvHolds, PTL

LEMMA DragStep ==
  ASSUME SkyInv, [SkyNext]_skyVars
  PROVE  [clickDue = "drag" /\ pin' \in {"sky", "milky way"} => pin' = pin]_skyVars
<1> SUFFICES ASSUME clickDue = "drag", pin' \in {"sky", "milky way"} PROVE pin' = pin
  OBVIOUS
<1>1. suppress
  BY DEF SkyInv, DragIsSuppressed
<1>2. CASE UNCHANGED skyVars
  BY <1>2 DEF skyVars
<1>3. ASSUME NEW spot \in SkySpot, Click(spot) PROVE pin' = pin
  BY <1>1, <1>3 DEF Click, SkyClicked
<1>4. CASE RightClick
  BY <1>4 DEF RightClick
<1>5. CASE PageLeft
  BY <1>5 DEF PageLeft
<1>6. CASE \/ GeometryLoads \/ ModuleLoads \/ ProbeEnds \/ AtlasStarts \/ HydrogenLayer
           \/ ToggleSelector \/ ForceHydrogen \/ PickEnds \/ MarkerArrives
           \/ \E s \in Surveys : SelectSurvey(s)
  BY <1>6 DEF GeometryLoads, ModuleLoads, ProbeEnds, AtlasStarts, HydrogenLayer,
     ToggleSelector, ForceHydrogen, PickEnds, MarkerArrives, SelectSurvey
<1>7. CASE PointerDown \/ PointerMoves \/ PointerUp \/ PointerCancelled \/ SuppressionEnds
  BY <1>7 DEF PointerDown, PointerMoves, PointerUp, PointerCancelled, SuppressionEnds
<1> QED BY <1>2, <1>3, <1>4, <1>5, <1>6, <1>7 DEF SkyNext

\* The click that follows a drag never picks a place on the sky.
THEOREM DragsPickNothing == SkySpec => DragPicksNoSky
<1>1. SkyInv /\ [SkyNext]_skyVars
        => [clickDue = "drag" /\ pin' \in {"sky", "milky way"} => pin' = pin]_skyVars
  BY DragStep
<1> QED BY <1>1, SkyInvHolds, PTL DEF SkySpec, DragPicksNoSky
-----------------------------------------------------------------------------
(***************************************************************************)
(* Animations.                                                             *)
(***************************************************************************)
SeenTypes == tabVisible \in BOOLEAN /\ onScreen \subseteq Animated \cup {"stars"} /\ playing \subseteq Animated

FlagTypes == cloudRaf \in BOOLEAN /\ waveOn \in BOOLEAN /\ flip \in BOOLEAN

\* Never more than one frame of a loop is requested.
FrameTypes == frames \in [Loop -> {0, 1}]

\* The cloud, which is not cancelled, has a frame as long as its ref says so.
CloudKnowsItsFrame ==
  /\ cloudRaf <=> frames["cloud"] = 1
  /\ "atom" \in playing => cloudRaf

EffectLoopsFollow == \A w \in EffectLoop : frames[w] = 1 <=> w \in playing

OthersFollow ==
  /\ frames["wave"] = 1 <=> waveOn
  /\ frames["stars"] = 1 <=> tabVisible /\ "stars" \in onScreen

\* The arrow is at rest but from the snap of the flip to the next round.
ArrowFollowsScene ==
  \/ /\ scene \in {"apart", "atom", "spins"} /\ ~flip /\ arrow = 0 /\ arrowRot = 0
  \/ /\ scene = "flipped" /\ flip /\ arrow = 0 /\ arrowRot = 1
  \/ /\ scene = "flipped" /\ ~flip /\ arrow = 1 /\ arrowRot = 1

AnimInv ==
  /\ SeenTypes /\ FlagTypes /\ FrameTypes
  /\ CloudKnowsItsFrame /\ EffectLoopsFollow /\ OthersFollow
  /\ ArrowFollowsScene

LEMMA LoopNames ==
  /\ EffectLoop \subseteq Loop /\ "cloud" \in Loop /\ "wave" \in Loop /\ "stars" \in Loop
  /\ \A w \in EffectLoop : w # "cloud" /\ w # "wave" /\ w # "stars" /\ w # "atom"
  /\ EffectLoop \subseteq Animated /\ "atom" \in Animated
BY EffectLoopAssumption DEF Loop, Animated

LEMMA AnimInitInv == AnimInit => AnimInv
<1> SUFFICES ASSUME AnimInit PROVE AnimInv
  OBVIOUS
<1>1. SeenTypes /\ FlagTypes
  BY DEF AnimInit, SeenTypes, FlagTypes
<1>2. FrameTypes
  BY DEF AnimInit, FrameTypes
<1>3. /\ \A l \in EffectLoop \cup {"cloud"} : frames[l] = 1
      /\ frames["wave"] = 0 /\ frames["stars"] = 0
  BY LoopNames DEF AnimInit
<1>4. EffectLoop \subseteq playing /\ "stars" \notin onScreen
  BY LoopNames DEF AnimInit, Animated
<1>5. CloudKnowsItsFrame /\ EffectLoopsFollow /\ OthersFollow
  BY <1>3, <1>4 DEF AnimInit, CloudKnowsItsFrame, EffectLoopsFollow, OthersFollow
<1>6. ArrowFollowsScene
  BY DEF AnimInit, ArrowFollowsScene
<1> QED BY <1>1, <1>2, <1>5, <1>6 DEF AnimInv

\* The tab and the page turn only the star field on and off.
LEMMA SeenInv ==
  ASSUME AnimInv, TabToggles \/ \E w \in Animated \cup {"stars"} : Scroll(w)
  PROVE  AnimInv'
<1>0. /\ SeenTypes /\ FlagTypes /\ FrameTypes
      /\ CloudKnowsItsFrame /\ EffectLoopsFollow /\ OthersFollow /\ ArrowFollowsScene
  BY DEF AnimInv
<1>1. /\ UNCHANGED <<playing, cloudRaf, waveOn, atomVars>>
      /\ tabVisible' \in BOOLEAN
      /\ onScreen' \subseteq Animated \cup {"stars"}
      /\ frames' = StarsFollow(tabVisible', onScreen')
  BY <1>0 DEF TabToggles, Scroll, SeenTypes
<1>2. frames' = [frames EXCEPT !["stars"] = IF tabVisible' /\ "stars" \in onScreen' THEN 1 ELSE 0]
  BY <1>1 DEF StarsFollow
<1>3. SeenTypes' /\ FlagTypes' /\ ArrowFollowsScene'
  BY <1>0, <1>1 DEF SeenTypes, FlagTypes, ArrowFollowsScene, atomVars
<1>4. FrameTypes'
  BY <1>0, <1>2 DEF FrameTypes
<1>5. /\ \A l \in Loop \ {"stars"} : frames'[l] = frames[l]
      /\ frames'["stars"] = IF tabVisible' /\ "stars" \in onScreen' THEN 1 ELSE 0
  BY <1>0, <1>2, LoopNames DEF FrameTypes
<1>6. CloudKnowsItsFrame' /\ EffectLoopsFollow' /\ OthersFollow'
  BY <1>0, <1>1, <1>5, LoopNames DEF CloudKnowsItsFrame, EffectLoopsFollow, OthersFollow
<1> QED BY <1>3, <1>4, <1>6 DEF AnimInv

LEMMA CommitInv ==
  ASSUME AnimInv, NEW w \in Animated, Commit(w)
  PROVE  AnimInv'
<1>0. /\ SeenTypes /\ FlagTypes /\ FrameTypes
      /\ CloudKnowsItsFrame /\ EffectLoopsFollow /\ OthersFollow /\ ArrowFollowsScene
  BY DEF AnimInv
<1>1. /\ UNCHANGED <<tabVisible, onScreen, waveOn, atomVars>>
      /\ playing' = IF w \in playing THEN playing \ {w} ELSE playing \cup {w}
      /\ IF w = "atom" THEN CommitAtom ELSE CommitLoop(w)
  BY DEF Commit
<1>2. SeenTypes' /\ ArrowFollowsScene' /\ waveOn' \in BOOLEAN /\ flip' \in BOOLEAN
  BY <1>0, <1>1 DEF SeenTypes, FlagTypes, ArrowFollowsScene, atomVars
<1>3. CASE w # "atom"
  <2>1. /\ w \in EffectLoop /\ cloudRaf' = cloudRaf
        /\ frames' = [frames EXCEPT ![w] = IF w \in playing THEN 0 ELSE 1]
    BY <1>1, <1>3 DEF Animated, CommitLoop
  <2>2. FrameTypes'
    BY <1>0, <2>1 DEF FrameTypes
  <2>3. /\ \A l \in Loop \ {w} : frames'[l] = frames[l]
        /\ frames'[w] = IF w \in playing THEN 0 ELSE 1
    BY <1>0, <2>1, LoopNames DEF FrameTypes
  <2>4. CloudKnowsItsFrame' /\ EffectLoopsFollow' /\ OthersFollow'
    BY <1>0, <1>1, <2>1, <2>3, LoopNames
       DEF CloudKnowsItsFrame, EffectLoopsFollow, OthersFollow
  <2> QED BY <1>0, <1>2, <2>1, <2>2, <2>4 DEF AnimInv, FlagTypes
<1>4. CASE w = "atom" /\ (w \in playing \/ cloudRaf)
  <2>1. UNCHANGED <<frames, cloudRaf>>
    BY <1>1, <1>4 DEF CommitAtom, StartCloud
  <2>2. CloudKnowsItsFrame' /\ EffectLoopsFollow' /\ OthersFollow'
    BY <1>0, <1>1, <1>4, <2>1, LoopNames
       DEF CloudKnowsItsFrame, EffectLoopsFollow, OthersFollow
  <2> QED BY <1>0, <1>2, <2>1, <2>2 DEF AnimInv, FlagTypes, FrameTypes
<1>5. CASE w = "atom" /\ w \notin playing /\ ~cloudRaf
  <2>1. frames' = [frames EXCEPT !["cloud"] = @ + 1] /\ cloudRaf' = TRUE
    BY <1>1, <1>5 DEF CommitAtom, StartCloud, StartUnguarded
  <2>2. frames["cloud"] = 0
    BY <1>0, <1>5, LoopNames DEF FrameTypes, CloudKnowsItsFrame
  <2>3. FrameTypes'
    <3>1. frames' = [frames EXCEPT !["cloud"] = 1]
      BY <2>1, <2>2
    <3> QED BY <1>0, <3>1 DEF FrameTypes
  <2>4. frames'["cloud"] = 1 /\ \A l \in Loop \ {"cloud"} : frames'[l] = frames[l]
    BY <1>0, <2>1, <2>2, LoopNames DEF FrameTypes
  <2>5. CloudKnowsItsFrame' /\ EffectLoopsFollow' /\ OthersFollow'
    BY <1>0, <1>1, <1>5, <2>1, <2>4, LoopNames
       DEF CloudKnowsItsFrame, EffectLoopsFollow, OthersFollow
  <2> QED BY <1>2, <2>1, <2>3, <2>5 DEF AnimInv, FlagTypes
<1> QED BY <1>3, <1>4, <1>5

LEMMA FramesInv ==
  ASSUME AnimInv, CloudFrame \/ WaveFades \/ Snap
  PROVE  AnimInv'
<1>0. /\ SeenTypes /\ FlagTypes /\ FrameTypes
      /\ CloudKnowsItsFrame /\ EffectLoopsFollow /\ OthersFollow /\ ArrowFollowsScene
  BY DEF AnimInv
<1>1. UNCHANGED <<tabVisible, onScreen, playing>>
  BY DEF CloudFrame, WaveFades, Snap, seenVars
<1>2. SeenTypes' /\ FlagTypes'
  BY <1>0, <1>1 DEF SeenTypes, FlagTypes, CloudFrame, WaveFades, Snap, atomVars
<1>3. ArrowFollowsScene'
  <2>1. CASE CloudFrame \/ WaveFades
    BY <1>0, <2>1 DEF CloudFrame, WaveFades, ArrowFollowsScene, atomVars
  <2>2. CASE Snap
    BY <1>0, <2>2 DEF Snap, ArrowFollowsScene
  <2> QED BY <2>1, <2>2
<1>4. CASE CloudFrame
  <2>1. /\ frames["cloud"] = 1 /\ "atom" \notin playing /\ cloudRaf' = FALSE
        /\ waveOn' = waveOn /\ frames' = [frames EXCEPT !["cloud"] = 0]
    <3>1. frames["cloud"] \in {0, 1}
      BY <1>0, LoopNames DEF FrameTypes
    <3>2. frames["cloud"] > 0 /\ frames' = [frames EXCEPT !["cloud"] = frames["cloud"] - 1]
      BY <1>4 DEF CloudFrame
    <3>3. frames["cloud"] = 1
      BY <3>1, <3>2
    <3> QED BY <1>4, <3>2, <3>3 DEF CloudFrame
  <2>2. frames'["cloud"] = 0 /\ \A l \in Loop \ {"cloud"} : frames'[l] = frames[l]
    BY <1>0, <2>1, LoopNames DEF FrameTypes
  <2>3. FrameTypes'
    BY <1>0, <2>1 DEF FrameTypes
  <2>4. CloudKnowsItsFrame' /\ EffectLoopsFollow' /\ OthersFollow'
    BY <1>0, <1>1, <2>1, <2>2, LoopNames
       DEF CloudKnowsItsFrame, EffectLoopsFollow, OthersFollow
  <2> QED BY <1>2, <1>3, <2>3, <2>4 DEF AnimInv
<1>5. ASSUME NEW n \in {0, 1}, frames' = [frames EXCEPT !["wave"] = n],
             waveOn' <=> n = 1, cloudRaf' = cloudRaf
      PROVE  FrameTypes' /\ CloudKnowsItsFrame' /\ EffectLoopsFollow' /\ OthersFollow'
  <2>1. frames'["wave"] = n /\ \A l \in Loop \ {"wave"} : frames'[l] = frames[l]
    BY <1>0, <1>5, LoopNames DEF FrameTypes
  <2>2. FrameTypes'
    BY <1>0, <1>5 DEF FrameTypes
  <2>3. CloudKnowsItsFrame' /\ EffectLoopsFollow' /\ OthersFollow'
    BY <1>0, <1>1, <1>5, <2>1, LoopNames
       DEF CloudKnowsItsFrame, EffectLoopsFollow, OthersFollow
  <2> QED BY <2>2, <2>3
<1>6. CASE WaveFades
  <2>1. frames' = [frames EXCEPT !["wave"] = 0] /\ ~waveOn' /\ cloudRaf' = cloudRaf
    BY <1>6 DEF WaveFades
  <2> QED BY <1>2, <1>3, <1>5, <2>1 DEF AnimInv
<1>7. CASE Snap
  <2>1. frames' = [frames EXCEPT !["wave"] = 1] /\ waveOn' /\ cloudRaf' = cloudRaf
    BY <1>7 DEF Snap
  <2> QED BY <1>2, <1>3, <1>5, <2>1 DEF AnimInv
<1> QED BY <1>4, <1>6, <1>7

\* The timeline moves only the scene and the arrow.
LEMMA TimelineInv ==
  ASSUME AnimInv, \/ Combine \/ ShowSpins \/ TriggerFlip \/ LoopAgain \/ UNCHANGED animVars
  PROVE  AnimInv'
<1>0. /\ SeenTypes /\ FlagTypes /\ FrameTypes
      /\ CloudKnowsItsFrame /\ EffectLoopsFollow /\ OthersFollow /\ ArrowFollowsScene
  BY DEF AnimInv
<1>1. UNCHANGED <<tabVisible, onScreen, playing, frames, cloudRaf, waveOn>>
  BY DEF Combine, ShowSpins, TriggerFlip, LoopAgain, animVars, seenVars
<1>2. flip' \in BOOLEAN
  BY <1>0 DEF FlagTypes, Combine, ShowSpins, TriggerFlip, LoopAgain, animVars, atomVars
<1>3. ArrowFollowsScene'
  <2>1. CASE Combine \/ ShowSpins
    BY <1>0, <2>1 DEF Combine, ShowSpins, ArrowFollowsScene
  <2>2. CASE TriggerFlip
    BY <1>0, <2>2 DEF TriggerFlip, ArrowFollowsScene
  <2>3. CASE LoopAgain
    BY <1>0, <2>3 DEF LoopAgain, ArrowFollowsScene
  <2>4. CASE UNCHANGED animVars
    BY <1>0, <2>4 DEF animVars, atomVars, ArrowFollowsScene
  <2> QED BY <2>1, <2>2, <2>3, <2>4
<1>4. SeenTypes' /\ FlagTypes' /\ FrameTypes'
  BY <1>0, <1>1, <1>2 DEF SeenTypes, FlagTypes, FrameTypes
<1>5. CloudKnowsItsFrame' /\ EffectLoopsFollow' /\ OthersFollow'
  BY <1>0, <1>1 DEF CloudKnowsItsFrame, EffectLoopsFollow, OthersFollow
<1> QED BY <1>3, <1>4, <1>5 DEF AnimInv

LEMMA AnimNextInv == AnimInv /\ [AnimNext]_animVars => AnimInv'
BY SeenInv, CommitInv, FramesInv, TimelineInv DEF AnimNext

LEMMA AnimInvHolds == AnimSpec => []AnimInv
BY AnimNextInv, AnimInitInv, PTL DEF AnimSpec

LEMMA AnimFromInv == AnimInv => AnimTypeOK /\ LoopsRunOnce
<1> SUFFICES ASSUME AnimInv PROVE AnimTypeOK /\ LoopsRunOnce
  OBVIOUS
<1>1. frames \in [Loop -> 0 .. 2] /\ \A l \in Loop : frames[l] <= 1
  BY DEF AnimInv, FrameTypes
<1>2. /\ scene \in {"apart", "atom", "spins", "flipped"}
      /\ arrow \in 0 .. 3 /\ arrowRot \in 0 .. 3
  BY DEF AnimInv, ArrowFollowsScene
<1>3. AnimTypeOK
  BY <1>1, <1>2 DEF AnimInv, SeenTypes, FlagTypes, AnimTypeOK
<1>4. EffectLoopsFollow /\ OthersFollow /\ CloudKnowsItsFrame
  BY DEF AnimInv
<1>5. LoopsRunOnce
  BY <1>1, <1>4 DEF LoopsRunOnce, EffectLoopsFollow, OthersFollow, CloudKnowsItsFrame
<1> QED BY <1>3, <1>5

\* Every variable of the illustrations keeps to its type, for any set of drawings.
THEOREM AnimationTypes == AnimSpec => []AnimTypeOK
BY AnimFromInv, AnimInvHolds, PTL

\* No drawing ever has two frame loops and an active one has its one, for any set of
\* drawings and however they leave the view and come back.
THEOREM OneLoopPerDrawing == AnimSpec => []LoopsRunOnce
BY AnimFromInv, AnimInvHolds, PTL

\* In every round, wherever the page paused it, the arrow is turned exactly from the
\* end of the flip to the next round.
THEOREM SpinFollowsFlip == AnimSpec => []FlipTurnsTheSpin
<1>1. ASSUME AnimInv PROVE FlipTurnsTheSpin
  BY <1>1 DEF AnimInv, ArrowFollowsScene, FlipTurnsTheSpin
<1> QED BY <1>1, AnimInvHolds, PTL
-----------------------------------------------------------------------------
(***************************************************************************)
(* SkyCanvas.                                                              *)
(***************************************************************************)
\* The layers as a function of what the signature names, and of the overlays.
WindowIn(v) ==
  IF "whole window" \in InView[v] THEN "loop"
  ELSE IF "part window" \in InView[v] THEN "patches" ELSE "none"

LayersFor(v, d, g, e, h, handed) ==
  [limits |-> IF h THEN {<<"all but", WindowIn(v)>>} ELSE {},
   ground |-> {IF "ground inside" \in InView[v] THEN "inside" ELSE "outside"},
   grid |-> "grid" \in InView[v],
   line |-> "horizon" \in InView[v],
   band |-> IF e /\ "milky way" \in InView[v] /\ WindowIn(v) # "none" THEN {WindowIn(v)} ELSE {},
   cardinals |-> "cardinals" \in InView[v],
   path |-> IF d \in InView[v] /\ g \in InView[v] THEN {<<d, g>>} ELSE {},
   bodies |-> {"sun", "moon"} \cap InView[v],
   satellites |-> handed \cap InView[v]]

ZonesFor(v, d, g, handed) ==
  [sun |-> IF "sun" \in {"sun", "moon"} \cap InView[v] THEN {"sun ring"} \cap InView[v] ELSE {},
   satellites |-> handed \cap InView[v],
   beam |-> {d} \cap InView[v],
   target |-> {g} \cap InView[v]]

\* What a frame with signature s and some overlays leaves on the canvas, and for the
\* mouse handlers.
IsFrameOf(s, handed, canvas, published) ==
  IF "horizon" \in InView[s[1]]
  THEN /\ canvas = LayersFor(s[1], s[2], s[3], s[5], s[6], handed)
       /\ published = ZonesFor(s[1], s[2], s[3], handed)
  ELSE canvas = Blank

\* No overlay, or the one of the target from then on.
OneOverlay == overlays = {} \/ \E sat \in Satellite : overlays = {sat}

\* The canvas is a frame of the signature it was drawn with, of now or of before the
\* overlay came.
PaintedAsDrawn ==
  drawnSignature # NoSignature =>
    \E handed \in {{}, overlays} :
      /\ drawnSignature[4] = Cardinality(handed)
      /\ IsFrameOf(drawnSignature, handed, painted, zones)

CanvasInv == dish \in SentTelemetry /\ OneOverlay /\ PaintedAsDrawn

\* A place that is not known by altitude and azimuth is not known.
LEMMA PlaceIsNamed == dish \in SentTelemetry => DishPlace = dish.altAz
BY DEF SentTelemetry, DishPlace

LEMMA LayersAreThose ==
  ASSUME dish \in SentTelemetry
  PROVE  Layers = LayersFor(view, dish.altAz, goingTo, exclusion, hydrogenSky, overlays)
<1>1. SafeWindow = WindowIn(view)
  BY DEF SafeWindow, WindowIn, Shown
<1>2. /\ AltitudeLimits = IF hydrogenSky THEN {<<"all but", WindowIn(view)>>} ELSE {}
      /\ GalacticExclusion = IF exclusion /\ "milky way" \in InView[view] /\ WindowIn(view) # "none"
                             THEN {WindowIn(view)} ELSE {}
  BY <1>1 DEF AltitudeLimits, GalacticExclusion, Shown
<1>3. /\ Ground = IF "ground inside" \in InView[view] THEN "inside" ELSE "outside"
      /\ SlewPath = IF dish.altAz \in InView[view] /\ goingTo \in InView[view]
                    THEN {<<dish.altAz, goingTo>>} ELSE {}
      /\ SunAndMoon = {"sun", "moon"} \cap InView[view]
      /\ SatelliteOverlays = overlays \cap InView[view]
  BY PlaceIsNamed DEF Ground, SlewPath, SunAndMoon, SatelliteOverlays, Shown
<1> QED BY <1>2, <1>3 DEF Layers, LayersFor, AltAzGrid, HorizonLine, Cardinals, Shown

LEMMA ZonesAreThose == FrameZones = ZonesFor(view, dish.altAz, goingTo, overlays)
BY DEF FrameZones, ZonesFor, SunZone, SunAndMoon, SatelliteOverlays, BeamZone, TargetZone

LEMMA SignatureNames ==
  /\ Signature # NoSignature
  /\ Signature[1] = view /\ Signature[2] = dish.altAz /\ Signature[3] = goingTo
  /\ Signature[4] = Cardinality(overlays)
  /\ Signature[5] = exclusion /\ Signature[6] = hydrogenSky
BY DEF Signature, NoSignature

\* The number of overlays tells them apart.
LEMMA NumberTells ==
  ASSUME OneOverlay, NEW handed \in {{}, overlays}, Cardinality(handed) = Cardinality(overlays)
  PROVE  handed = overlays
<1>1. CASE overlays = {}
  BY <1>1
<1>2. CASE overlays # {}
  <2>1. PICK sat \in Satellite : overlays = {sat}
    BY <1>2 DEF OneOverlay
  <2>2. Cardinality(overlays) = 1 /\ Cardinality({}) = 0
    BY <2>1, FS_EmptySet, FS_Singleton
  <2> QED BY <2>2
<1> QED BY <1>1, <1>2

LEMMA CanvasInitInv == CanvasInit => CanvasInv
BY DEF CanvasInit, CanvasInv, OneOverlay, PaintedAsDrawn, SentTelemetry, NoTelemetry

LEMMA PaintInv ==
  ASSUME CanvasInv, Draw
  PROVE  CanvasInv'
<1>1. UNCHANGED <<view, dish, goingTo, overlays, exclusion, hydrogenSky>>
  BY DEF Draw, inputVars
<1>2. drawnSignature' = Signature
  BY DEF Draw, SignatureChanged, Heartbeat, Paint
<1>3. IF Shown("horizon") THEN painted' = Layers /\ zones' = FrameZones ELSE painted' = Blank
  BY DEF Draw, SignatureChanged, Heartbeat, Paint
<1>4. IsFrameOf(Signature, overlays, painted', zones')
  BY <1>3, LayersAreThose, ZonesAreThose, SignatureNames DEF CanvasInv, IsFrameOf, Shown
<1>5. PaintedAsDrawn'
  <2>1. drawnSignature'[4] = Cardinality(overlays)
    BY <1>2, SignatureNames
  <2> QED BY <1>1, <1>2, <1>4, <2>1 DEF PaintedAsDrawn
<1> QED BY <1>1, <1>5 DEF CanvasInv, OneOverlay, SentTelemetry

LEMMA InputsInv ==
  ASSUME CanvasInv,
         \/ CanvasStarts \/ ViewMoves \/ DishMoves \/ TargetChanges \/ OverlayComes
         \/ ModeChanges \/ UNCHANGED canvasVars
  PROVE  CanvasInv'
<1>1. UNCHANGED <<drawnSignature, painted, zones>>
  BY DEF CanvasStarts, ViewMoves, DishMoves, TargetChanges, OverlayComes, ModeChanges,
         canvasVars
<1>2. dish' \in SentTelemetry
  BY DEF CanvasInv, CanvasStarts, ViewMoves, DishMoves, TargetChanges, OverlayComes,
         ModeChanges, canvasVars, inputVars, SentTelemetry
<1>3. /\ OneOverlay'
      /\ overlays = {} \/ overlays' = overlays
  BY DEF CanvasInv, OneOverlay, CanvasStarts, ViewMoves, DishMoves, TargetChanges,
         OverlayComes, ModeChanges, canvasVars, inputVars
<1>4. PaintedAsDrawn'
  <2> SUFFICES ASSUME drawnSignature' # NoSignature'
               PROVE  \E handed \in {{}, overlays'} :
                        /\ drawnSignature'[4] = Cardinality(handed)
                        /\ IsFrameOf(drawnSignature', handed, painted', zones')
    BY DEF PaintedAsDrawn, IsFrameOf, LayersFor, ZonesFor, WindowIn, Blank
  <2>1. drawnSignature # NoSignature
    BY <1>1 DEF NoSignature
  <2>2. PICK handed \in {{}, overlays} :
               /\ drawnSignature[4] = Cardinality(handed)
               /\ IsFrameOf(drawnSignature, handed, painted, zones)
    BY <2>1 DEF CanvasInv, PaintedAsDrawn
  <2>3. handed \in {{}, overlays'}
    BY <1>3, <2>2
  <2> QED BY <1>1, <2>2, <2>3
<1> QED BY <1>2, <1>3, <1>4 DEF CanvasInv, SentTelemetry

LEMMA CanvasNextInv == CanvasInv /\ [CanvasNext]_canvasVars => CanvasInv'
BY PaintInv, InputsInv DEF CanvasNext

LEMMA CanvasInvHolds == CanvasSpec => []CanvasInv
BY CanvasNextInv, CanvasInitInv, PTL DEF CanvasSpec

LEMMA GateFromInv == CanvasInv => GateSkipsNothing
<1> SUFFICES ASSUME CanvasInv, drawnSignature = Signature
             PROVE  IF Shown("horizon") THEN painted = Layers /\ zones = FrameZones
                    ELSE painted = Blank
  BY DEF GateSkipsNothing
<1>1. PICK handed \in {{}, overlays} :
             /\ Signature[4] = Cardinality(handed)
             /\ IsFrameOf(Signature, handed, painted, zones)
  BY SignatureNames DEF CanvasInv, PaintedAsDrawn
<1>2. handed = overlays
  BY <1>1, NumberTells, SignatureNames DEF CanvasInv
<1> QED BY <1>1, <1>2, LayersAreThose, ZonesAreThose, SignatureNames
        DEF CanvasInv, IsFrameOf, Shown

(***************************************************************************)
(* A frame that the gate skips would paint what is there, and publish the  *)
(* zones that are there: for any views, places and target satellite, and   *)
(* whatever changes and changes back meanwhile.  The signature's number of *)
(* overlays is enough for the one that App.tsx hands over, and its         *)
(* altitude and azimuth for the telemetry that the hardware sends.         *)
(***************************************************************************)
THEOREM GateIsSafe == CanvasSpec => []GateSkipsNothing
BY GateFromInv, CanvasInvHolds, PTL

LayerSets ==
  [limits : SUBSET ({"all but"} \X {"loop", "patches", "none"}),
   ground : SUBSET {"inside", "outside"}, grid : BOOLEAN, line : BOOLEAN,
   band : SUBSET {"loop", "patches"}, cardinals : BOOLEAN,
   path : SUBSET (Spot \X Spot), bodies : SUBSET {"sun", "moon"},
   satellites : SUBSET Satellite]

ZoneSets ==
  [sun : SUBSET {"sun ring"}, satellites : SUBSET Satellite, beam : SUBSET Spot,
   target : SUBSET Spot]

InputTypes ==
  /\ canvasReady \in BOOLEAN
  /\ view \in View
  /\ dish \in SentTelemetry
  /\ goingTo \in Spot \cup {NoSpot}
  /\ overlays \subseteq Satellite
  /\ exclusion \in BOOLEAN
  /\ hydrogenSky \in BOOLEAN

CanvasTypes == InputTypes /\ painted \in LayerSets /\ zones \in ZoneSets

\* Only a place that is one can be in a view.
LEMMA ShownIsSpot ==
  ASSUME InputTypes, NEW p \in Spot \cup {NoSpot}, p \in InView[view]
  PROVE  p \in Spot
<1>1. InView[view] \subseteq Spot \cup Satellite \cup Feature
  BY InViewAssumption DEF InputTypes
<1>2. NoSpot \notin Spot \cup Satellite \cup Feature
  BY NoSpotAssumption DEF NoSpot, Feature
<1> QED BY <1>1, <1>2

LEMMA LayersType == InputTypes => Layers \in LayerSets
<1> SUFFICES ASSUME InputTypes PROVE Layers \in LayerSets
  OBVIOUS
<1>1. SafeWindow \in {"loop", "patches", "none"}
  BY DEF SafeWindow
<1>2. AltitudeLimits \in SUBSET ({"all but"} \X {"loop", "patches", "none"})
  <2>1. <<"all but", SafeWindow>> \in {"all but"} \X {"loop", "patches", "none"}
    BY <1>1
  <2> HIDE DEF SafeWindow
  <2>2. AltitudeLimits = {} \/ AltitudeLimits = {<<"all but", SafeWindow>>}
    BY DEF AltitudeLimits
  <2> QED BY <2>1, <2>2
<1>3. {Ground} \in SUBSET {"inside", "outside"}
  BY DEF Ground
<1>4. AltAzGrid \in BOOLEAN /\ HorizonLine \in BOOLEAN /\ Cardinals \in BOOLEAN
  BY DEF AltAzGrid, HorizonLine, Cardinals, Shown
<1>5. GalacticExclusion \in SUBSET {"loop", "patches"}
  BY <1>1 DEF GalacticExclusion
<1>6. SlewPath \in SUBSET (Spot \X Spot)
  <2>1. CASE Shown(DishPlace) /\ Shown(goingTo)
    <3>1. DishPlace \in Spot /\ goingTo \in Spot
      BY <2>1, ShownIsSpot DEF InputTypes, SentTelemetry, DishPlace, Shown
    <3> QED BY <2>1, <3>1 DEF SlewPath
  <2>2. CASE ~(Shown(DishPlace) /\ Shown(goingTo))
    BY <2>2 DEF SlewPath
  <2> QED BY <2>1, <2>2
<1>7. SunAndMoon \in SUBSET {"sun", "moon"} /\ SatelliteOverlays \in SUBSET Satellite
  BY DEF SunAndMoon, SatelliteOverlays, InputTypes
<1> QED BY <1>2, <1>3, <1>4, <1>5, <1>6, <1>7 DEF Layers, LayerSets

LEMMA ZonesType == InputTypes => FrameZones \in ZoneSets
<1> SUFFICES ASSUME InputTypes PROVE FrameZones \in ZoneSets
  OBVIOUS
<1>1. SunZone \in SUBSET {"sun ring"} /\ SatelliteOverlays \in SUBSET Satellite
  BY DEF SunZone, SatelliteOverlays, InputTypes
<1>2. BeamZone \in SUBSET Spot /\ TargetZone \in SUBSET Spot
  BY ShownIsSpot DEF BeamZone, TargetZone, InputTypes, SentTelemetry
<1> QED BY <1>1, <1>2 DEF FrameZones, ZoneSets

LEMMA CanvasInitTypes == CanvasInit => CanvasTypes
<1>1. Blank \in LayerSets /\ NoZones \in ZoneSets
  BY DEF Blank, LayerSets, NoZones, ZoneSets
<1>2. NoTelemetry \in SentTelemetry
  BY DEF NoTelemetry, SentTelemetry
<1> QED BY <1>1, <1>2 DEF CanvasInit, CanvasTypes, InputTypes

LEMMA CanvasNextTypes == CanvasTypes /\ [CanvasNext]_canvasVars => CanvasTypes'
<1> SUFFICES ASSUME InputTypes, painted \in LayerSets, zones \in ZoneSets,
                    [CanvasNext]_canvasVars
             PROVE  CanvasTypes'
  BY DEF CanvasTypes
<1>1. CASE Draw
  <2>1. UNCHANGED <<canvasReady, view, dish, goingTo, overlays, exclusion, hydrogenSky>>
    BY <1>1 DEF Draw, inputVars
  <2>2. painted' \in {Layers, Blank} /\ zones' \in {FrameZones, zones}
    BY <1>1 DEF Draw, SignatureChanged, Heartbeat, Paint
  <2>3. Blank \in LayerSets
    BY DEF Blank, LayerSets
  <2>4. painted' \in LayerSets /\ zones' \in ZoneSets
    BY <2>2, <2>3, LayersType, ZonesType
  <2>5. InputTypes'
    BY <2>1 DEF InputTypes, SentTelemetry
  <2> QED BY <2>4, <2>5 DEF CanvasTypes
<1>2. CASE CanvasStarts \/ ViewMoves \/ DishMoves \/ TargetChanges
  <2>1. UNCHANGED <<painted, zones, overlays, exclusion, hydrogenSky>>
    BY <1>2 DEF CanvasStarts, ViewMoves, DishMoves, TargetChanges, inputVars
  <2>2. canvasReady' \in BOOLEAN /\ view' \in View
    BY <1>2 DEF CanvasStarts, ViewMoves, DishMoves, TargetChanges, InputTypes, inputVars
  <2>3. dish' \in SentTelemetry /\ goingTo' \in Spot \cup {NoSpot}
    BY <1>2 DEF CanvasStarts, ViewMoves, DishMoves, TargetChanges, InputTypes, inputVars
  <2> QED BY <2>1, <2>2, <2>3 DEF CanvasTypes, InputTypes
<1>3. CASE OverlayComes \/ ModeChanges \/ UNCHANGED canvasVars
  <2>1. UNCHANGED <<painted, zones, canvasReady, view, dish, goingTo>>
    BY <1>3 DEF OverlayComes, ModeChanges, canvasVars, inputVars
  <2>2. overlays' \subseteq Satellite /\ exclusion' \in BOOLEAN /\ hydrogenSky' \in BOOLEAN
    BY <1>3 DEF OverlayComes, ModeChanges, canvasVars, inputVars, InputTypes
  <2> QED BY <2>1, <2>2 DEF CanvasTypes, InputTypes
<1> QED BY <1>1, <1>2, <1>3 DEF CanvasNext

\* Every variable of the canvas keeps to its type: nothing is painted that has no place
\* on the screen, for any views, places and satellites.
THEOREM CanvasVariablesKeepType == CanvasSpec => []CanvasTypeOK
<1>1. CanvasTypes => CanvasTypeOK
  BY DEF CanvasTypes, InputTypes, LayerSets, ZoneSets, CanvasTypeOK
<1> QED BY <1>1, CanvasInitTypes, CanvasNextTypes, PTL DEF CanvasSpec
-----------------------------------------------------------------------------
(***************************************************************************)
(* QueueClient.                                                            *)
(***************************************************************************)
\* The type, in the parts that the steps disturb one at a time.
ServerTypes ==
  /\ site \in Sites
  /\ session \in Place
  /\ config \in {"asked", "known", "failed"}
  /\ boot \in {"asked", "done"} \cup Place
  /\ limited \in 0 .. Cooldown

StatusTypes ==
  /\ queueStatus \in {"null"} \cup Place
  /\ socket \in {"off", "trying", "open"}
  /\ pushed \in {"none"} \cup Place

MemoryTypes ==
  acked \in BOOLEAN /\ wasLow \in BOOLEAN /\ leaving \in BOOLEAN /\ failed \in BOOLEAN

JoinTypes == join \in {NoJoin} \cup Joins

FormTypes ==
  /\ captcha \in {"none", "fresh", "used"}
  /\ widget \in {"none", "shown", "solved", "orphan"}
  /\ autoJoined \in {"none", "current", "older"}
  /\ password \in {"none", "wrong", "right"}

\* There are tokens only where a captcha is asked for, and one that was sent before is
\* the one the page joined with: it starts no join until another has come.
TokensAreMarked ==
  /\ captcha # "none" => Captcha
  /\ widget # "none" => Captcha
  /\ captcha = "used" => autoJoined = "current"

QueueTypes == ServerTypes /\ StatusTypes /\ MemoryTypes /\ JoinTypes /\ FormTypes

QueueInv == QueueTypes /\ TokensAreMarked /\ AutoJoinsAreFresh

LEMMA QueueInvParts ==
  QueueInv <=> /\ ServerTypes /\ StatusTypes /\ MemoryTypes /\ JoinTypes /\ FormTypes
               /\ TokensAreMarked /\ AutoJoinsAreFresh
BY DEF QueueInv, QueueTypes

LEMMA NoJoinFields ==
  NoJoin.by = "nobody" /\ NoJoin.token = "none" /\ NoJoin.answer = "none"
BY DEF NoJoin

LEMMA QueueInitInv == QueueInit => QueueInv
<1> SUFFICES ASSUME QueueInit PROVE QueueInv
  OBVIOUS
<1>1. ServerTypes
  BY CooldownAssumption DEF QueueInit, ServerTypes, Place
<1>2. StatusTypes /\ MemoryTypes /\ JoinTypes /\ FormTypes
  BY DEF QueueInit, StatusTypes, MemoryTypes, JoinTypes, FormTypes
<1>3. TokensAreMarked /\ AutoJoinsAreFresh
  BY NoJoinFields DEF QueueInit, TokensAreMarked, AutoJoinsAreFresh
<1> QED BY <1>1, <1>2, <1>3 DEF QueueInv, QueueTypes

\* What a commit leaves of the page: its form as it was, or nothing.
LEMMA CommitKeepsForm ==
  ASSUME FormTypes, TokensAreMarked, NEW c, NEW s, NEW a, PageCommits(c, s, a),
         Captcha => Captcha'
  PROVE  FormTypes' /\ TokensAreMarked'
<1>1. CASE OnQueuePage(c, s, a)
  <2>1. /\ UNCHANGED <<captcha, autoJoined, password>>
        /\ widget' = IF InLine(s) /\ widget # "none" THEN "orphan" ELSE widget
    BY <1>1 DEF PageCommits
  <2>2. widget' \in {"none", "shown", "solved", "orphan"} /\ (widget' # "none" => widget # "none")
    BY <2>1 DEF FormTypes
  <2> QED BY <2>1, <2>2 DEF FormTypes, TokensAreMarked
<1>2. CASE ~OnQueuePage(c, s, a)
  BY <1>2 DEF PageCommits, FormTypes, TokensAreMarked
<1> QED BY <1>1, <1>2

\* A status that is stored changes the status, what is on its way, and the form.
LEMMA StoreInv ==
  ASSUME QueueInv, NEW s \in Place, NEW rest \in {"none"} \cup Place, Store(s, rest),
         site' = site
  PROVE  /\ StatusTypes' /\ FormTypes' /\ TokensAreMarked'
         /\ UNCHANGED <<config, acked>>
         /\ wasLow' \in BOOLEAN /\ leaving' \in BOOLEAN
<1>1. UNCHANGED <<config, acked>>
  BY DEF Store
<1>2. StatusTypes'
  BY QueueInvParts DEF Store, StatusTypes
<1>3. wasLow' \in BOOLEAN
  BY QueueInvParts DEF Store, MemoryTypes
<1>4. leaving' \in BOOLEAN
  BY QueueInvParts DEF Store, MemoryTypes
<1>5. Captcha' = Captcha
  BY <1>1 DEF Captcha
<1>6. FormTypes' /\ TokensAreMarked'
  BY <1>5, QueueInvParts, CommitKeepsForm DEF Store
<1> QED BY <1>1, <1>2, <1>3, <1>4, <1>6

\* The first answers.
LEMMA BootInv ==
  ASSUME QueueInv, ConfigArrives \/ BootAnswered \/ BootArrives
  PROVE  QueueInv'
<1>0. ServerTypes /\ StatusTypes /\ MemoryTypes /\ JoinTypes /\ FormTypes
      /\ TokensAreMarked /\ AutoJoinsAreFresh
  BY QueueInvParts
<1>1. CASE ConfigArrives
  <2>1. /\ UNCHANGED <<site, session, boot, limited>>
        /\ UNCHANGED <<queueStatus, socket, pushed>>
        /\ UNCHANGED <<acked, wasLow, leaving, failed, join>>
        /\ config' \in {"known", "failed"} /\ config = "asked"
        /\ PageCommits(config', queueStatus, acked)
    BY <1>1 DEF ConfigArrives
  <2>2. Captcha => Captcha'
    BY <2>1 DEF Captcha
  <2>3. FormTypes' /\ TokensAreMarked'
    BY <1>0, <2>1, <2>2, CommitKeepsForm
  <2>4. ServerTypes' /\ StatusTypes'
    BY <1>0, <2>1 DEF ServerTypes, StatusTypes
  <2>5. MemoryTypes' /\ JoinTypes' /\ AutoJoinsAreFresh'
    BY <1>0, <2>1 DEF MemoryTypes, JoinTypes, AutoJoinsAreFresh
  <2> QED BY <2>3, <2>4, <2>5 DEF QueueInv, QueueTypes
<1>2. CASE BootAnswered
  <2>1. /\ UNCHANGED <<site, session, config, limited>>
        /\ UNCHANGED <<queueStatus, socket, pushed>>
        /\ UNCHANGED <<acked, wasLow, leaving, failed, join>>
        /\ UNCHANGED <<captcha, widget, autoJoined, password>>
        /\ boot' \in {session, "done"}
    BY <1>2 DEF BootAnswered, pageVars
  <2>2. ServerTypes' /\ StatusTypes'
    BY <1>0, <2>1 DEF ServerTypes, StatusTypes
  <2>3. MemoryTypes' /\ JoinTypes' /\ AutoJoinsAreFresh'
    BY <1>0, <2>1 DEF MemoryTypes, JoinTypes, AutoJoinsAreFresh
  <2>4. FormTypes' /\ TokensAreMarked'
    BY <1>0, <2>1 DEF FormTypes, TokensAreMarked, Captcha
  <2> QED BY <2>2, <2>3, <2>4 DEF QueueInv, QueueTypes
<1>3. CASE BootArrives
  <2>1. /\ UNCHANGED <<site, session, join, limited, failed>>
        /\ boot \in Place /\ boot' = "done" /\ Store(boot, pushed)
    BY <1>3 DEF BootArrives
  <2>2. /\ StatusTypes' /\ FormTypes' /\ TokensAreMarked'
        /\ UNCHANGED <<config, acked>>
        /\ wasLow' \in BOOLEAN /\ leaving' \in BOOLEAN
    BY <1>0, <2>1, StoreInv DEF StatusTypes
  <2>3. ServerTypes' /\ JoinTypes' /\ AutoJoinsAreFresh'
    BY <1>0, <2>1, <2>2 DEF ServerTypes, JoinTypes, AutoJoinsAreFresh
  <2>4. MemoryTypes'
    BY <1>0, <2>1, <2>2 DEF MemoryTypes
  <2> QED BY <2>2, <2>3, <2>4 DEF QueueInv, QueueTypes
<1> QED BY <1>1, <1>2, <1>3

\* The socket and the server.
LEMMA LeaseSocketInv ==
  ASSUME QueueInv, SocketOpens \/ SocketDrops \/ ServerPushes \/ PushArrives \/ SessionMoves
  PROVE  QueueInv'
<1>0. ServerTypes /\ StatusTypes /\ MemoryTypes /\ JoinTypes /\ FormTypes
      /\ TokensAreMarked /\ AutoJoinsAreFresh
  BY QueueInvParts
<1>1. CASE SocketOpens \/ SocketDrops \/ ServerPushes
  <2>1. /\ UNCHANGED <<site, session, config, boot, limited>>
        /\ UNCHANGED <<acked, wasLow, leaving, failed, join>>
        /\ UNCHANGED <<captcha, widget, autoJoined, password>>
    BY <1>1 DEF SocketOpens, SocketDrops, ServerPushes, pageVars
  <2>2. StatusTypes'
    BY <1>0, <1>1 DEF SocketOpens, SocketDrops, ServerPushes, StatusTypes, ServerTypes
  <2>3. ServerTypes' /\ JoinTypes' /\ AutoJoinsAreFresh' /\ MemoryTypes'
    BY <1>0, <2>1 DEF ServerTypes, JoinTypes, AutoJoinsAreFresh, MemoryTypes
  <2>4. FormTypes' /\ TokensAreMarked'
    BY <1>0, <2>1 DEF FormTypes, TokensAreMarked, Captcha
  <2> QED BY <2>2, <2>3, <2>4 DEF QueueInv, QueueTypes
<1>2. CASE PushArrives
  <2>1. /\ UNCHANGED <<site, session, boot, join, limited, failed>>
        /\ pushed \in Place /\ Store(pushed, "none")
    BY <1>0, <1>2 DEF PushArrives, StatusTypes
  <2>2. /\ StatusTypes' /\ FormTypes' /\ TokensAreMarked'
        /\ UNCHANGED <<config, acked>>
        /\ wasLow' \in BOOLEAN /\ leaving' \in BOOLEAN
    BY <1>0, <2>1, StoreInv
  <2>3. ServerTypes' /\ JoinTypes' /\ AutoJoinsAreFresh'
    BY <1>0, <2>1, <2>2 DEF ServerTypes, JoinTypes, AutoJoinsAreFresh
  <2>4. MemoryTypes'
    BY <1>0, <2>1, <2>2 DEF MemoryTypes
  <2> QED BY <2>2, <2>3, <2>4 DEF QueueInv, QueueTypes
<1>3. CASE SessionMoves
  <2>1. /\ UNCHANGED <<site, config, boot, limited>>
        /\ UNCHANGED <<queueStatus, socket, pushed>>
        /\ UNCHANGED <<acked, wasLow, leaving, failed, join>>
        /\ UNCHANGED <<captcha, widget, autoJoined, password>>
        /\ session' \in Place
    BY <1>3 DEF SessionMoves, leaseVars, pageVars, Place
  <2>2. ServerTypes' /\ StatusTypes'
    BY <1>0, <2>1 DEF ServerTypes, StatusTypes
  <2>3. JoinTypes' /\ AutoJoinsAreFresh' /\ MemoryTypes'
    BY <1>0, <2>1 DEF JoinTypes, AutoJoinsAreFresh, MemoryTypes
  <2>4. FormTypes' /\ TokensAreMarked'
    BY <1>0, <2>1 DEF FormTypes, TokensAreMarked, Captcha
  <2> QED BY <2>2, <2>3, <2>4 DEF QueueInv, QueueTypes
<1> QED BY <1>1, <1>2, <1>3

\* A join that starts: by itself with a token that was never sent, or by the user, who
\* finds the button only when no join by itself is due.
LEMMA StartInv ==
  ASSUME QueueInv, AutoJoin \/ SubmitJoin
  PROVE  QueueInv'
<1>0. ServerTypes /\ StatusTypes /\ MemoryTypes /\ JoinTypes /\ FormTypes
      /\ TokensAreMarked /\ AutoJoinsAreFresh
  BY QueueInvParts
<1>1. PICK who \in {"user", "page"} :
        /\ StartJoin(who)
        /\ who = "page" => JoinDue /\ autoJoined' = "current"
        /\ who = "user" => ~JoinDue /\ FormShown /\ (Password => password # "none")
                           /\ autoJoined' = autoJoined
  BY DEF AutoJoin, SubmitJoin
<1>2. /\ UNCHANGED <<site, session, config, boot>>
      /\ UNCHANGED <<queueStatus, socket, pushed>>
      /\ UNCHANGED <<acked, wasLow, leaving>>
      /\ UNCHANGED <<widget, password>>
      /\ failed' = FALSE /\ limited' = 0
      /\ captcha' = IF captcha = "none" THEN "none" ELSE "used"
      /\ join = NoJoin
      /\ join' = [by |-> who, token |-> captcha, answer |-> "none",
                  password |-> IF Password THEN password ELSE "none"]
  BY <1>1 DEF StartJoin
<1>3. ServerTypes' /\ StatusTypes'
  BY <1>0, <1>2, CooldownAssumption DEF ServerTypes, StatusTypes
<1>4. MemoryTypes'
  BY <1>0, <1>2 DEF MemoryTypes
<1>5. JoinTypes'
  BY <1>0, <1>2 DEF JoinTypes, Joins, FormTypes
<1>6. FormTypes'
  BY <1>0, <1>1, <1>2 DEF FormTypes
<1>7. AutoJoinsAreFresh'
  <2>1. CASE who = "page"
    BY <1>0, <1>1, <1>2, <2>1 DEF AutoJoinsAreFresh, JoinDue, FormTypes, TokensAreMarked
  <2>2. CASE who = "user"
    BY <1>2, <2>2 DEF AutoJoinsAreFresh
  <2> QED BY <2>1, <2>2
<1>8. captcha # "none" => autoJoined' = "current"
  <2>1. CASE who = "page"
    BY <1>1, <2>1
  <2>2. CASE who = "user"
    BY <1>0, <1>1, <1>2, <2>2 DEF JoinDue, TokensAreMarked
  <2> QED BY <2>1, <2>2
<1>9. TokensAreMarked'
  BY <1>0, <1>2, <1>8 DEF TokensAreMarked, Captcha
<1> QED BY <1>3, <1>4, <1>5, <1>6, <1>7, <1>9 DEF QueueInv, QueueTypes

\* The answer to a join.
LEMMA JoinAnswerInv ==
  ASSUME QueueInv, JoinAnswered \/ JoinFails \/ JoinSucceeds \/ CountDown
  PROVE  QueueInv'
<1>0. ServerTypes /\ StatusTypes /\ MemoryTypes /\ JoinTypes /\ FormTypes
      /\ TokensAreMarked /\ AutoJoinsAreFresh
  BY QueueInvParts
<1>1. CASE JoinAnswered
  <2>1. /\ UNCHANGED <<site, config, boot, limited>>
        /\ UNCHANGED <<queueStatus, socket, pushed>>
        /\ UNCHANGED <<acked, wasLow, leaving, failed>>
        /\ UNCHANGED <<captcha, widget, autoJoined, password>>
        /\ join \in Joins
    BY <1>0, <1>1 DEF JoinAnswered, pageVars, JoinTypes
  <2>2. session' \in Place
    BY <1>0, <1>1 DEF JoinAnswered, ServerTypes, Place
  <2>3. \E a \in {"error", "limit"} \cup Place : join' = [join EXCEPT !.answer = a]
    BY <1>1, <2>2 DEF JoinAnswered
  <2>4. join' \in Joins /\ join'.by = join.by /\ join'.token = join.token
    BY <2>1, <2>3 DEF Joins
  <2>5. JoinTypes' /\ AutoJoinsAreFresh'
    BY <1>0, <2>4 DEF JoinTypes, AutoJoinsAreFresh
  <2>6. ServerTypes' /\ StatusTypes' /\ MemoryTypes'
    BY <1>0, <2>1, <2>2 DEF ServerTypes, StatusTypes, MemoryTypes
  <2>7. FormTypes' /\ TokensAreMarked'
    BY <1>0, <2>1 DEF FormTypes, TokensAreMarked, Captcha
  <2> QED BY <2>5, <2>6, <2>7 DEF QueueInv, QueueTypes
<1>2. CASE JoinFails
  <2>1. /\ UNCHANGED <<site, session, config, boot>>
        /\ UNCHANGED <<queueStatus, socket, pushed>>
        /\ UNCHANGED <<acked, wasLow, leaving>>
        /\ failed' = TRUE /\ limited' \in {0, Cooldown} /\ join' = NoJoin
        /\ AfterError \/ UNCHANGED <<captcha, widget, autoJoined, password>>
    BY <1>2 DEF JoinFails, pageVars
  <2>2. ServerTypes' /\ StatusTypes'
    BY <1>0, <2>1, CooldownAssumption DEF ServerTypes, StatusTypes
  <2>3. MemoryTypes' /\ JoinTypes' /\ AutoJoinsAreFresh'
    BY <1>0, <2>1, NoJoinFields DEF MemoryTypes, JoinTypes, AutoJoinsAreFresh
  <2>4. FormTypes'
    BY <1>0, <2>1 DEF FormTypes, AfterError
  <2>5. Captcha' = Captcha
    BY <2>1 DEF Captcha
  <2>6. TokensAreMarked'
    BY <1>0, <2>1, <2>5 DEF TokensAreMarked, AfterError
  <2> QED BY <2>2, <2>3, <2>4, <2>6 DEF QueueInv, QueueTypes
<1>3. CASE JoinSucceeds
  <2>1. /\ UNCHANGED <<site, session, boot, limited, failed>>
        /\ join.answer \in Place /\ join' = NoJoin /\ Store(join.answer, pushed)
    BY <1>3 DEF JoinSucceeds
  <2>2. /\ StatusTypes' /\ FormTypes' /\ TokensAreMarked'
        /\ UNCHANGED <<config, acked>>
        /\ wasLow' \in BOOLEAN /\ leaving' \in BOOLEAN
    BY <1>0, <2>1, StoreInv DEF StatusTypes
  <2>3. ServerTypes' /\ JoinTypes' /\ AutoJoinsAreFresh'
    BY <1>0, <2>1, <2>2, NoJoinFields DEF ServerTypes, JoinTypes, AutoJoinsAreFresh
  <2>4. MemoryTypes'
    BY <1>0, <2>1, <2>2 DEF MemoryTypes
  <2> QED BY <2>2, <2>3, <2>4 DEF QueueInv, QueueTypes
<1>4. CASE CountDown
  <2>1. /\ UNCHANGED <<site, session, config, boot>>
        /\ UNCHANGED <<queueStatus, socket, pushed>>
        /\ UNCHANGED <<acked, wasLow, leaving, failed, join>>
        /\ UNCHANGED <<captcha, widget, autoJoined, password>>
        /\ limited > 0 /\ limited' = limited - 1
    BY <1>4 DEF CountDown, pageVars
  <2>2. limited' \in 0 .. Cooldown
    BY <1>0, <2>1, CooldownAssumption DEF ServerTypes
  <2>3. ServerTypes' /\ StatusTypes'
    BY <1>0, <2>1, <2>2 DEF ServerTypes, StatusTypes
  <2>4. MemoryTypes' /\ JoinTypes' /\ AutoJoinsAreFresh'
    BY <1>0, <2>1 DEF MemoryTypes, JoinTypes, AutoJoinsAreFresh
  <2>5. FormTypes' /\ TokensAreMarked'
    BY <1>0, <2>1 DEF FormTypes, TokensAreMarked, Captcha
  <2> QED BY <2>3, <2>4, <2>5 DEF QueueInv, QueueTypes
<1> QED BY <1>1, <1>2, <1>3, <1>4

\* What the user, the captcha and a reload do to the page.
LEMMA FormInv ==
  ASSUME QueueInv, WidgetRenders \/ TokenArrives \/ TokenExpires \/ TypesPassword
  PROVE  QueueInv'
<1>0. ServerTypes /\ StatusTypes /\ MemoryTypes /\ JoinTypes /\ FormTypes
      /\ TokensAreMarked /\ AutoJoinsAreFresh
  BY QueueInvParts
<1>1. /\ UNCHANGED <<site, session, config, boot, limited>>
      /\ UNCHANGED <<queueStatus, socket, pushed>>
      /\ UNCHANGED <<acked, wasLow, leaving, failed, join>>
  BY DEF WidgetRenders, TokenArrives, TokenExpires, TypesPassword, leaseVars
<1>2. ServerTypes' /\ StatusTypes'
  BY <1>0, <1>1 DEF ServerTypes, StatusTypes
<1>3. MemoryTypes' /\ JoinTypes' /\ AutoJoinsAreFresh'
  BY <1>0, <1>1 DEF MemoryTypes, JoinTypes, AutoJoinsAreFresh
<1>4. FormTypes'
  BY <1>0 DEF FormTypes, WidgetRenders, TokenArrives, TokenExpires, TypesPassword
<1>5. Captcha' = Captcha
  BY <1>1 DEF Captcha
<1>6. TokensAreMarked'
  BY <1>0, <1>5 DEF TokensAreMarked, WidgetRenders, TokenArrives, TokenExpires, TypesPassword
<1> QED BY <1>2, <1>3, <1>4, <1>6 DEF QueueInv, QueueTypes

LEMMA LeavingInv ==
  ASSUME QueueInv, Continue \/ Reload \/ UNCHANGED queueVars
  PROVE  QueueInv'
<1>0. ServerTypes /\ StatusTypes /\ MemoryTypes /\ JoinTypes /\ FormTypes
      /\ TokensAreMarked /\ AutoJoinsAreFresh
  BY QueueInvParts
<1>1. CASE Continue
  <2>1. /\ UNCHANGED <<site, session, config, boot, limited>>
        /\ UNCHANGED <<queueStatus, socket, pushed>>
        /\ UNCHANGED <<wasLow, leaving, failed, join>>
        /\ acked' = TRUE /\ PageCommits(config, queueStatus, TRUE)
    BY <1>1 DEF Continue
  <2>2. FormTypes' /\ TokensAreMarked'
    BY <1>0, <2>1, CommitKeepsForm DEF Captcha
  <2>3. ServerTypes' /\ StatusTypes'
    BY <1>0, <2>1 DEF ServerTypes, StatusTypes
  <2>4. MemoryTypes' /\ JoinTypes' /\ AutoJoinsAreFresh'
    BY <1>0, <2>1 DEF MemoryTypes, JoinTypes, AutoJoinsAreFresh
  <2> QED BY <2>2, <2>3, <2>4 DEF QueueInv, QueueTypes
<1>2. CASE Reload
  <2>1. ServerTypes'
    BY <1>0, <1>2, CooldownAssumption DEF Reload, ServerTypes
  <2>2. StatusTypes' /\ MemoryTypes' /\ JoinTypes' /\ FormTypes'
    BY <1>2 DEF Reload, StatusTypes, MemoryTypes, JoinTypes, FormTypes
  <2>3. TokensAreMarked' /\ AutoJoinsAreFresh'
    BY <1>2, NoJoinFields DEF Reload, TokensAreMarked, AutoJoinsAreFresh
  <2> QED BY <2>1, <2>2, <2>3 DEF QueueInv, QueueTypes
<1>3. CASE UNCHANGED queueVars
  <2>1. /\ UNCHANGED <<site, session, config, boot, limited>>
        /\ UNCHANGED <<queueStatus, socket, pushed>>
        /\ UNCHANGED <<acked, wasLow, leaving, failed, join>>
        /\ UNCHANGED <<captcha, widget, autoJoined, password>>
    BY <1>3 DEF queueVars, leaseVars, pageVars
  <2>2. ServerTypes' /\ StatusTypes'
    BY <1>0, <2>1 DEF ServerTypes, StatusTypes
  <2>3. MemoryTypes' /\ JoinTypes' /\ AutoJoinsAreFresh'
    BY <1>0, <2>1 DEF MemoryTypes, JoinTypes, AutoJoinsAreFresh
  <2>4. FormTypes' /\ TokensAreMarked'
    BY <1>0, <2>1 DEF FormTypes, TokensAreMarked, Captcha
  <2> QED BY <2>2, <2>3, <2>4 DEF QueueInv, QueueTypes
<1> QED BY <1>1, <1>2, <1>3

LEMMA QueueNextInv == QueueInv /\ [QueueNext]_queueVars => QueueInv'
BY BootInv, LeaseSocketInv, StartInv, JoinAnswerInv, FormInv, LeavingInv DEF QueueNext

LEMMA QueueInvHolds == QueueSpec => []QueueInv
BY QueueNextInv, QueueInitInv, PTL DEF QueueSpec

\* Every variable of the queue page keeps to its type, for any sites and cooldown.
THEOREM QueuePageTypes == QueueSpec => []QueueTypeOK
<1>1. QueueInv => QueueTypeOK
  BY DEF QueueInv, QueueTypes, QueueTypeOK, ServerTypes, StatusTypes, MemoryTypes,
         JoinTypes, FormTypes
<1> QED BY <1>1, QueueInvHolds, PTL

\* A token that the server has seen never starts a join by itself, whatever fails,
\* expires, is typed or overtaken meanwhile, for any sites.
THEOREM AutoJoinsUseFreshTokens == QueueSpec => []AutoJoinsAreFresh
<1>1. QueueInv => AutoJoinsAreFresh
  BY DEF QueueInv
<1> QED BY <1>1, QueueInvHolds, PTL

(***************************************************************************)
(* Liveness.  Each line of the hypothesis repeats the guards of an action. *)
(***************************************************************************)
PushIsOpen ==
  /\ socket = "trying" => ENABLED <<SocketOpens>>_queueVars
  /\ socket = "open" /\ pushed # session => ENABLED <<ServerPushes>>_queueVars
  /\ pushed # "none" /\ ~JoinDue => ENABLED <<PushArrives>>_queueVars

\* A page in line has a socket, and what is on its way came over an open one.
SocketOfLine ==
  /\ InLine(queueStatus) => socket # "off"
  /\ pushed # "none" => socket = "open"

LEMMA StoreKeepsSocket ==
  ASSUME NEW s, NEW rest, Store(s, rest), SocketOfLine, rest \in {"none", pushed}
  PROVE  SocketOfLine'
BY DEF Store, SocketOfLine

LEMMA SocketOfLineNext == QueueInv /\ SocketOfLine /\ [QueueNext]_queueVars => SocketOfLine'
<1> SUFFICES ASSUME QueueInv, SocketOfLine, [QueueNext]_queueVars PROVE SocketOfLine'
  OBVIOUS
<1>1. CASE BootArrives \/ PushArrives \/ JoinSucceeds
  BY <1>1, StoreKeepsSocket DEF BootArrives, PushArrives, JoinSucceeds
<1>2. CASE SocketOpens \/ SocketDrops \/ ServerPushes
  BY <1>2 DEF SocketOpens, SocketDrops, ServerPushes, SocketOfLine
<1>3. CASE Reload
  BY <1>3 DEF Reload, SocketOfLine, InLine
<1>4. CASE UNCHANGED <<queueStatus, socket, pushed>>
  BY <1>4 DEF SocketOfLine
<1>5. \/ BootArrives \/ PushArrives \/ JoinSucceeds \/ SocketOpens \/ SocketDrops
      \/ ServerPushes \/ Reload \/ UNCHANGED <<queueStatus, socket, pushed>>
  BY DEF QueueNext, ConfigArrives, BootAnswered, AutoJoin, SubmitJoin, StartJoin, JoinAnswered,
     JoinFails, CountDown, WidgetRenders, TokenArrives, TokenExpires, TypesPassword, Continue,
     SessionMoves, queueVars, leaseVars
<1> QED BY <1>1, <1>2, <1>3, <1>4, <1>5

\* What is on its way over the socket, and when it still says what is no longer so.
SocketTrying == socket = "trying"
SocketIsOpen == socket = "open"
NothingPushed == pushed = "none"
StalePush == Active(pushed)

\* While the controls are overdue no server sends a lease, and no step but its answers
\* changes what is on its way.
LEMMA OverdueStep ==
  ASSUME QueueInv, ControlsOverdue, [QueueNext]_queueVars
  PROVE  /\ ~StalePush => ~StalePush'
         /\ SocketOpens \/ ServerPushes => ~StalePush' /\ ~NothingPushed'
<1> USE DEF StalePush, NothingPushed, ControlsOverdue, Active
<1>1. session # "none"
  BY QueueInvParts DEF ServerTypes, Place
<1>2. CASE SocketOpens \/ ServerPushes
  BY <1>1, <1>2 DEF SocketOpens, ServerPushes
<1>3. CASE pushed' \in {"none", pushed}
  BY <1>1, <1>3 DEF SocketOpens, ServerPushes
<1>4. \/ SocketOpens \/ ServerPushes \/ pushed' \in {"none", pushed}
  BY DEF QueueNext, ConfigArrives, BootAnswered, BootArrives, SocketDrops, PushArrives,
     AutoJoin, SubmitJoin, StartJoin, JoinAnswered, JoinFails, JoinSucceeds, CountDown,
     WidgetRenders, TokenArrives, TokenExpires, TypesPassword, Continue, Reload, SessionMoves,
     Store, queueVars, leaseVars
<1> QED BY <1>2, <1>3, <1>4

(***************************************************************************)
(* Controls that are shown without the lease are taken away                *)
(* (lib/useControlLease.ts): a lease that is still on its way is followed  *)
(* by what the server says a second later, over this socket or the next,   *)
(* and no late answer of the first request or of a join keeps that from    *)
(* the page for good.                                                      *)
(***************************************************************************)
THEOREM ControlsAreTakenAway == QueueSpec /\ []PushIsOpen => ControlsFollowLease
<1>1. QueueSpec => []SocketOfLine
  <2>1. QueueInit => SocketOfLine
    BY DEF QueueInit, SocketOfLine, InLine
  <2> QED BY <2>1, SocketOfLineNext, QueueInvHolds, PTL DEF QueueSpec
<1>2. SocketOfLine /\ QueueInv /\ ControlsOverdue => SocketTrying \/ SocketIsOpen
  BY QueueInvParts DEF SocketOfLine, StatusTypes, ControlsOverdue, ShowsControls, Controller,
     HasControl, Active, InLine, SocketTrying, SocketIsOpen
<1>3. SocketOfLine /\ StalePush => SocketIsOpen /\ ~NothingPushed
  BY DEF SocketOfLine, StalePush, Active, SocketIsOpen, NothingPushed
<1>4. QueueInv /\ ControlsOverdue /\ [QueueNext]_queueVars
        => /\ ~StalePush => ~StalePush'
           /\ <<SocketOpens>>_queueVars \/ <<ServerPushes>>_queueVars
                => ~StalePush' /\ ~NothingPushed'
  BY OverdueStep
<1>5. ~StalePush /\ <<PushArrives>>_queueVars => ~ControlsOverdue'
  BY DEF StalePush, PushArrives, Store, ControlsOverdue, ShowsControls, Controller, HasControl,
     Active
<1>6. QueueInv /\ PushIsOpen
        => /\ SocketTrying => ENABLED <<SocketOpens>>_queueVars
           /\ ControlsOverdue /\ SocketIsOpen /\ (StalePush \/ NothingPushed)
                => ENABLED <<ServerPushes>>_queueVars
           /\ ControlsOverdue /\ ~NothingPushed => ENABLED <<PushArrives>>_queueVars
  <2>1. QueueInv => session # "none"
    BY QueueInvParts DEF ServerTypes, Place
  <2>2. ControlsOverdue /\ StalePush => pushed # session
    BY DEF ControlsOverdue, StalePush
  <2>3. ControlsOverdue => ~JoinDue
    BY DEF ControlsOverdue, ShowsControls, QueueOn, JoinDue, FormShown, OnQueuePage
  <2> QED BY <2>1, <2>2, <2>3 DEF PushIsOpen, SocketTrying, SocketIsOpen, NothingPushed
<1>7. QueueSpec
        => /\ [][QueueNext]_queueVars
           /\ SF_queueVars(SocketOpens) /\ WF_queueVars(ServerPushes)
           /\ SF_queueVars(PushArrives)
  BY PTL DEF QueueSpec, QueueFairness
<1> QED BY <1>1, <1>2, <1>3, <1>4, <1>5, <1>6, <1>7, QueueInvHolds, PTL DEF ControlsFollowLease
-----------------------------------------------------------------------------
(***************************************************************************)
(* GoesView.                                                               *)
(***************************************************************************)
StreamTypes ==
  /\ goesStatus \in {"none", "unreachable", "disabled", "running", "fault"}
  /\ stage \in Stages \cup {"none"}
  /\ aged \in BOOLEAN
  /\ agedSeen \in BOOLEAN
  /\ goesNudging \in BOOLEAN
  /\ nudges \in [running : BOOLEAN, ended : BOOLEAN]
  /\ points \in 0 .. MaxPoints
  /\ plotted \in BOOLEAN

ExplorerTypes ==
  /\ archive \in 0 .. MaxArchive
  /\ listings \in SUBSET (0 .. MaxArchive)
  /\ refreshing \in BOOLEAN
  /\ listed \in 0 .. MaxArchive
  /\ productFilter \in {"all", "image", "text"}
  /\ lightbox \in {"closed", "image", "preview", "text"}

\* The loop of requests runs exactly while what the last render knew was a stall; a
\* poll is the first thing that can say so, and a frame is seen aged only if it is.
LoopFollowsStall ==
  /\ goesNudging <=> Stalled(goesStatus, agedSeen)
  /\ agedSeen => aged

GoesInv == StreamTypes /\ ExplorerTypes /\ LoopFollowsStall

LEMMA GoesInitInv == GoesInit => GoesInv
<1> SUFFICES ASSUME GoesInit PROVE GoesInv
  OBVIOUS
<1>1. StreamTypes
  <2>1. nudges \in [running : BOOLEAN, ended : BOOLEAN]
    BY DEF GoesInit
  <2>2. points \in 0 .. MaxPoints
    BY GoesBoundsAssumption DEF GoesInit
  <2>3. goesStatus = "none" /\ stage = "none" /\ ~aged /\ ~agedSeen /\ ~goesNudging /\ ~plotted
    BY DEF GoesInit
  <2>4. aged \in BOOLEAN /\ agedSeen \in BOOLEAN /\ goesNudging \in BOOLEAN /\ plotted \in BOOLEAN
    BY DEF GoesInit
  <2> QED BY <2>1, <2>2, <2>3, <2>4 DEF StreamTypes
<1>2. LoopFollowsStall
  BY DEF GoesInit, LoopFollowsStall, Stalled, Enabled
<1>3. listings \in SUBSET (0 .. MaxArchive)
  BY DEF GoesInit
<1>4. ExplorerTypes
  BY <1>3, GoesBoundsAssumption DEF GoesInit, ExplorerTypes
<1> QED BY <1>1, <1>2, <1>4 DEF GoesInv

LEMMA PlotType ==
  ASSUME StreamTypes, PlotHistory
  PROVE  points' \in 0 .. MaxPoints /\ plotted' \in BOOLEAN
BY GoesBoundsAssumption DEF StreamTypes, PlotHistory

\* The effect keeps the loop true to the stall: a change of what it depends on decides
\* anew, and without one the stall is what it was.
LEMMA RecoverFollows ==
  ASSUME StreamTypes, LoopFollowsStall,
         NEW s \in {"none", "unreachable", "disabled", "running", "fault"},
         NEW old \in BOOLEAN, Recover(s, old)
  PROVE  /\ goesNudging' \in BOOLEAN
         /\ nudges' \in [running : BOOLEAN, ended : BOOLEAN]
         /\ goesNudging' <=> Stalled(s, old)
<1> DEFINE changed == <<Enabled(s), s, old>> # <<Enabled(goesStatus), goesStatus, agedSeen>>
<1>1. CASE changed
  <2>1. goesNudging' = Stalled(s, old) /\ Stalled(s, old) \in BOOLEAN
    BY <1>1 DEF Recover, Stalled, Enabled
  <2>2. nudges' = [running |-> goesNudging', ended |-> nudges.running \/ nudges.ended]
    BY <1>1 DEF Recover
  <2> QED BY <2>1, <2>2 DEF StreamTypes
<1>2. CASE ~changed
  <2>1. s = goesStatus /\ old = agedSeen
    BY <1>2
  <2>2. UNCHANGED <<goesNudging, nudges>>
    BY <1>2 DEF Recover, StreamTypes
  <2> QED BY <2>1, <2>2 DEF StreamTypes, LoopFollowsStall
<1> QED BY <1>1, <1>2

LEMMA DownlinkInv ==
  ASSUME GoesInv, DownlinkNext
  PROVE  GoesInv'
<1>0. StreamTypes /\ ExplorerTypes /\ LoopFollowsStall
  BY DEF GoesInv
<1>1. ExplorerTypes'
  <2>1. UNCHANGED explorerVars
    BY DEF DownlinkNext, StreamPolled, GoesFrameArrives, FrameAges, Nudge, NudgeAnswered
  <2> QED BY <1>0, <2>1 DEF explorerVars, ExplorerTypes
<1>2. ASSUME NEW s \in {"unreachable", "disabled", "running", "fault"}, StreamPolled(s)
      PROVE  StreamTypes' /\ LoopFollowsStall'
  <2>1. /\ goesStatus' = s /\ agedSeen' = aged /\ Recover(s, aged) /\ PlotHistory
        /\ UNCHANGED <<stage, aged>>
    BY <1>2 DEF StreamPolled
  <2>2. /\ goesNudging' \in BOOLEAN
        /\ nudges' \in [running : BOOLEAN, ended : BOOLEAN]
        /\ goesNudging' <=> Stalled(s, aged)
    BY <1>0, <2>1, RecoverFollows DEF StreamTypes
  <2>3. points' \in 0 .. MaxPoints /\ plotted' \in BOOLEAN
    BY <1>0, <2>1, PlotType
  <2> QED BY <1>0, <2>1, <2>2, <2>3 DEF StreamTypes, LoopFollowsStall
<1>3. ASSUME NEW s \in Stages, GoesFrameArrives(s)
      PROVE  StreamTypes' /\ LoopFollowsStall'
  <2>1. /\ stage' = s /\ aged' = FALSE /\ agedSeen' = FALSE /\ Recover(goesStatus, FALSE)
        /\ points' = IF points = MaxPoints THEN points ELSE points + 1
        /\ plotted' = TRUE /\ goesStatus' = goesStatus
    BY <1>3 DEF GoesFrameArrives
  <2>2. /\ goesNudging' \in BOOLEAN
        /\ nudges' \in [running : BOOLEAN, ended : BOOLEAN]
        /\ goesNudging' <=> Stalled(goesStatus, FALSE)
    BY <1>0, <2>1, RecoverFollows DEF StreamTypes
  <2>3. points' \in 0 .. MaxPoints
    BY <1>0, <2>1, GoesBoundsAssumption DEF StreamTypes
  <2> QED BY <1>0, <2>1, <2>2, <2>3 DEF StreamTypes, LoopFollowsStall
<1>4. ASSUME FrameAges PROVE StreamTypes' /\ LoopFollowsStall'
  BY <1>0, <1>4 DEF FrameAges, StreamTypes, LoopFollowsStall
<1>5. ASSUME Nudge PROVE StreamTypes' /\ LoopFollowsStall'
  BY <1>0, <1>5 DEF Nudge, StreamTypes, LoopFollowsStall
<1>6. ASSUME NEW loop \in {"running", "ended"}, NudgeAnswered(loop)
      PROVE  StreamTypes' /\ LoopFollowsStall'
  BY <1>0, <1>6 DEF NudgeAnswered, StreamTypes, LoopFollowsStall
<1> QED BY <1>1, <1>2, <1>3, <1>4, <1>5, <1>6 DEF DownlinkNext, GoesInv

LEMMA ExplorerInv ==
  ASSUME GoesInv, ExplorerNext
  PROVE  GoesInv'
<1> USE DEF ExplorerTypes
<1>0. StreamTypes /\ ExplorerTypes /\ LoopFollowsStall
  BY DEF GoesInv
<1>1. StreamTypes' /\ LoopFollowsStall'
  <2>1. UNCHANGED streamVars
    BY DEF ExplorerNext, ProductDecoded, Refresh, ListingArrives, ListingFails, PickFilter,
           OpenProduct, TextArrives, CloseProduct
  <2> QED BY <1>0, <2>1 DEF streamVars, StreamTypes, LoopFollowsStall
<1>2. CASE ProductDecoded \/ Refresh
  <2>1. CASE ProductDecoded
    <3>1. archive' \in 0 .. MaxArchive
      BY <1>0, <2>1, GoesBoundsAssumption DEF ProductDecoded
    <3> QED BY <1>0, <1>1, <2>1, <3>1 DEF ProductDecoded, GoesInv
  <2>2. CASE Refresh
    <3>1. listings' \in SUBSET (0 .. MaxArchive)
      BY <1>0, <2>2 DEF Refresh
    <3> QED BY <1>0, <1>1, <2>2, <3>1 DEF Refresh, GoesInv
  <2> QED BY <1>2, <2>1, <2>2
<1>3. ASSUME NEW v \in 0 .. MaxArchive, ListingArrives(v) \/ ListingFails(v)
      PROVE  GoesInv'
  BY <1>0, <1>1, <1>3 DEF ListingArrives, ListingFails, GoesInv
<1>4. CASE \/ \E kind \in {"all", "image", "text"} : PickFilter(kind)
           \/ \E kind \in {"image", "text"} : OpenProduct(kind)
           \/ TextArrives \/ CloseProduct
  BY <1>0, <1>1, <1>4 DEF PickFilter, OpenProduct, TextArrives, CloseProduct, GoesInv
<1> QED BY <1>2, <1>3, <1>4 DEF ExplorerNext

LEMMA GoesNextInv == GoesInv /\ [GoesNext]_goesVars => GoesInv'
<1>1. ASSUME GoesInv, UNCHANGED goesVars PROVE GoesInv'
  BY <1>1 DEF goesVars, streamVars, explorerVars, GoesInv, StreamTypes, ExplorerTypes,
              LoopFollowsStall
<1> QED BY <1>1, DownlinkInv, ExplorerInv DEF GoesNext

LEMMA GoesInvHolds == GoesSpec => []GoesInv
BY GoesInitInv, GoesNextInv, PTL DEF GoesSpec

\* Every variable of the downlink and of the explorer keeps to its type, for any
\* length of the archive and of the history.
THEOREM GoesTypes == GoesSpec => []GoesTypeOK
<1>1. GoesInv => GoesTypeOK
  BY DEF GoesInv, StreamTypes, ExplorerTypes, GoesTypeOK
<1> QED BY <1>1, GoesInvHolds, PTL

(***************************************************************************)
(* Liveness, from the fairness of the module.  tlapm has no rule for       *)
(* ENABLED, so that an action can be taken where its guards hold stands as *)
(* a hypothesis: each line repeats the guards of an action whose other     *)
(* conjuncts only assign, and asks that one of them changes something.     *)
(***************************************************************************)
DownlinkIsOpen ==
  /\ goesStatus # "none" /\ aged # agedSeen => ENABLED <<PolledAgain>>_goesVars
  /\ goesNudging /\ ~nudges.running => ENABLED <<Nudge>>_goesVars

\* The page has not seen yet that the frame is old, or it has, and runs its loop.
Unnoticed == DownlinkUnattended /\ ~agedSeen
Noticed == DownlinkUnattended /\ agedSeen

LEMMA UnattendedStep ==
  ASSUME GoesInv, [GoesNext]_goesVars, Noticed
  PROVE  Noticed' \/ ~DownlinkUnattended'
<1>1. CASE \E s \in {"unreachable", "disabled", "running", "fault"} : StreamPolled(s)
  BY <1>1 DEF StreamPolled, Noticed, DownlinkUnattended
<1>2. CASE \E s \in Stages : GoesFrameArrives(s)
  BY <1>2 DEF GoesFrameArrives, DownlinkUnattended
<1>3. CASE \/ FrameAges \/ Nudge \/ ExplorerNext \/ UNCHANGED goesVars
           \/ \E loop \in {"running", "ended"} : NudgeAnswered(loop)
  BY <1>3 DEF FrameAges, Nudge, NudgeAnswered, ExplorerNext, ProductDecoded, Refresh,
     ListingArrives, ListingFails, PickFilter, OpenProduct, TextArrives, CloseProduct,
     goesVars, streamVars, Noticed, DownlinkUnattended
<1> QED BY <1>1, <1>2, <1>3 DEF GoesNext, DownlinkNext

(***************************************************************************)
(* A downlink whose frames stop is attended to (lib/useGoesStream.ts): the *)
(* next poll renders the page, which sees the age of the last frame and    *)
(* asks for a reconnect at once, or runs its loop already, whose interval  *)
(* asks again.                                                             *)
(***************************************************************************)
THEOREM StoppedDownlinkIsReopened == GoesSpec /\ []DownlinkIsOpen => StoppedDownlinkReopened
<1>1. GoesInv /\ Unnoticed /\ <<PolledAgain>>_goesVars => ~DownlinkUnattended'
  <2> SUFFICES ASSUME StreamTypes, Unnoticed, PolledAgain PROVE nudges'.running
    BY DEF GoesInv, DownlinkUnattended
  <2>1. goesStatus = "running" /\ aged = TRUE /\ agedSeen = FALSE /\ Recover(goesStatus, aged)
    BY DEF StreamTypes, Unnoticed, DownlinkUnattended, PolledAgain, StreamPolled
  <2>2. goesNudging' = TRUE /\ nudges'.running = goesNudging'
    BY <2>1 DEF Recover, Stalled, Enabled
  <2> QED BY <2>2
<1>2. GoesInv /\ <<Nudge>>_goesVars => ~DownlinkUnattended'
  BY DEF Nudge, DownlinkUnattended, GoesInv, StreamTypes
<1>3. GoesInv /\ [GoesNext]_goesVars /\ Noticed => Noticed' \/ ~DownlinkUnattended'
  BY UnattendedStep
<1>4. DownlinkUnattended <=> Unnoticed \/ Noticed
  BY DEF Unnoticed, Noticed
<1>5. GoesInv /\ DownlinkIsOpen
        => /\ Unnoticed => ENABLED <<PolledAgain>>_goesVars
           /\ Noticed => ENABLED <<Nudge>>_goesVars
  BY DEF GoesInv, StreamTypes, LoopFollowsStall, Stalled, Enabled, Unnoticed, Noticed,
         DownlinkUnattended, DownlinkIsOpen
<1>6. GoesSpec => [][GoesNext]_goesVars /\ WF_goesVars(PolledAgain) /\ WF_goesVars(Nudge)
  BY PTL DEF GoesSpec, GoesFairness
<1> QED BY <1>1, <1>2, <1>3, <1>4, <1>5, <1>6, GoesInvHolds, PTL DEF StoppedDownlinkReopened
-----------------------------------------------------------------------------
(***************************************************************************)
(* The application.  A step of it is one of the part that is followed, and *)
(* nothing for every other: the invariants hold side by side.              *)
(***************************************************************************)
LEMMA PartsMove ==
  [WebNext]_webVars
    => /\ [SpectrumNext]_spectrumVars /\ [StatusNext]_statusVars /\ [QueueNext]_queueVars
       /\ [JogNext]_jogVars /\ [SlewNext]_slewVars /\ [GuidedNext]_guidedVars
       /\ [SkyNext]_skyVars /\ [CanvasNext]_canvasVars /\ [GoesNext]_goesVars
       /\ [AnimNext]_animVars
BY DEF WebNext, webVars, SpectrumStep, StatusStep, QueueStep, JogStep, SlewStep, GuidedStep,
       SkyStep, CanvasStep, GoesStep, AnimationStep, GoesNext

WebInv ==
  /\ ViewInv /\ StatusInv /\ QueueInv /\ JogInv /\ SlewInv /\ GuidedInv /\ SkyInv
  /\ CanvasTypes /\ CanvasInv /\ GoesInv /\ AnimInv

LEMMA WebInitInv == WebInit(Part) => WebInv
<1>1. WebInit(Part)
        => /\ SpectrumInit /\ StatusInit /\ QueueInit /\ JogInit /\ SlewInit /\ GuidedInit
           /\ SkyInit /\ CanvasInit /\ GoesInit /\ AnimInit
  BY DEF WebInit
<1> QED BY <1>1, ViewInitInv, StatusInitInv, QueueInitInv, JogInitInv, SlewInitInv,
           GuidedInitInv, SkyInitInv, CanvasInitTypes, CanvasInitInv, GoesInitInv,
           AnimInitInv DEF WebInv

LEMMA WebNextInv == WebInv /\ [WebNext]_webVars => WebInv'
BY PartsMove, ViewNextInv, StatusNextInv, QueueNextInv, JogNextInv, SlewNextInv,
   GuidedNextInv, SkyNextInv, CanvasNextTypes, CanvasNextInv, GoesNextInv, AnimNextInv
   DEF WebInv

LEMMA WebInvHolds == WebSpec => []WebInv
BY WebInitInv, WebNextInv, PTL DEF WebSpec

(***************************************************************************)
(* Every variable of every part keeps to its type, in the application as   *)
(* it is checked and for every value of its constants: any sockets, sites, *)
(* buttons, places, surveys, views and drawings.                           *)
(***************************************************************************)
THEOREM WebTypes == WebSpec => []WebTypeOK
<1>1. WebInv => SocketTypeOK /\ SpectrumTypeOK /\ StatusTypeOK
  BY DEF WebInv, ViewInv, SocketInv, StatusInv
<1>2. WebInv => QueueTypeOK
  BY DEF WebInv, QueueInv, QueueTypes, QueueTypeOK, ServerTypes, StatusTypes, MemoryTypes,
         JoinTypes, FormTypes
<1>3. WebInv => JogTypeOK /\ SlewTypeOK /\ GuidedTypeOK /\ WizardTypeOK
  BY DEF WebInv, JogInv, SlewInv, GuidedInv, GuidedTypeOK
<1>4. WebInv => SkyTypeOK
  BY DEF WebInv, SkyInv, AtlasTypes, GestureTypes, SkyTypeOK
<1>5. WebInv => CanvasTypeOK
  BY DEF WebInv, CanvasTypes, InputTypes, LayerSets, ZoneSets, CanvasTypeOK
<1>6. WebInv => GoesTypeOK
  BY DEF WebInv, GoesInv, StreamTypes, ExplorerTypes, GoesTypeOK
<1>7. WebInv => AnimTypeOK
  BY AnimFromInv DEF WebInv
<1>8. WebInv => WebTypeOK
  BY <1>1, <1>2, <1>3, <1>4, <1>5, <1>6, <1>7 DEF WebTypeOK
<1> QED BY <1>8, WebInvHolds, PTL

\* The promises of the parts, as the application makes them.
WebPromises ==
  /\ OneConnectionLoop /\ NoFrameWithoutStream /\ WaterfallOfOneStream
  /\ AutoJoinsAreFresh
  /\ ReleasedPressStops /\ BoundedBacklog
  /\ WatchedSlewIsPinned
  /\ CloseTellsTheTruth
  /\ LayerFollowsSurvey /\ GateSkipsNothing /\ LoopsRunOnce

(***************************************************************************)
(* The promises of the parts are promises of the application: what TLC     *)
(* checks of one instance in one run holds of every instance, the click    *)
(* after a drag (DragPicksNoSky) included.                                 *)
(***************************************************************************)
THEOREM WebKeepsPromises == WebSpec => []WebPromises /\ DragPicksNoSky
<1>1. WebInv => WebPromises
  <2> SUFFICES ASSUME WebInv PROVE WebPromises
    OBVIOUS
  <2>1. OneConnectionLoop /\ NoFrameWithoutStream /\ WaterfallOfOneStream
    BY DEF WebInv, ViewInv, SocketInv, EmptyWhenDown, NoFrameWithoutStream, OriginalCanvas,
           WaterfallOfOneStream
  <2>2. AutoJoinsAreFresh /\ WatchedSlewIsPinned /\ LayerFollowsSurvey
    BY DEF WebInv, QueueInv, SlewInv, SkyInv
  <2>3. ReleasedPressStops /\ BoundedBacklog
    BY ReleaseFromInv DEF WebInv, JogInv, CallsCounted, BoundedBacklog
  <2>4. CloseTellsTheTruth
    BY DEF WebInv, GuidedInv
  <2>5. GateSkipsNothing /\ LoopsRunOnce
    BY GateFromInv, AnimFromInv DEF WebInv
  <2> QED BY <2>1, <2>2, <2>3, <2>4, <2>5 DEF WebPromises
<1>2. WebInv /\ [WebNext]_webVars
        => [clickDue = "drag" /\ pin' \in {"sky", "milky way"} => pin' = pin]_skyVars
  BY PartsMove, DragStep DEF WebInv
<1> QED BY <1>1, <1>2, WebInvHolds, PTL DEF WebSpec, DragPicksNoSky
=============================================================================

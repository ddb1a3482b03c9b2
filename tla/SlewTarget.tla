----------------------------- MODULE SlewTarget -----------------------------
(***************************************************************************)
(* The target pin of the sky map, the go-to form that can set it, the Slew *)
(* button, and the watch for the arrival of a slew (lib/useMapTarget.ts,   *)
(* lib/useSlewTargetArrivalClear.ts, components/MotionControls.tsx, and    *)
(* ControlUI in App.tsx, which connects them).                             *)
(*                                                                         *)
(* A place is a pair of steps on the two axes: on the same step an axis is *)
(* within ARRIVAL_TOLERANCE_DEG, one step away within SETTLE_TOLERANCE_DEG.*)
(* The mount is the environment: it drives towards the goal of the last    *)
(* goto it was sent, may overshoot or halt a step short of it, and is      *)
(* jogged at other times.                                                  *)
(***************************************************************************)
EXTENDS Integers

CONSTANTS
  Steps,      \* bound: the last step of an axis
  Spots       \* the places a user may pick

ASSUME SpotsAssumption == Steps \in Nat /\ Spots \subseteq (0 .. Steps) \X (0 .. Steps)

Places == (0 .. Steps) \X (0 .. Steps)
Nowhere == <<>>
Axis == {1, 2}      \* altitude and azimuth

VARIABLES
  mapConfig,    \* telescopeConfig has been loaded
  hasMapTarget,
  target,       \* targetAlt and targetAz
  submitted,    \* submittedRef.current
  gotos,        \* goto requests on their way to the mount
  stopping,     \* a stop of everything is on its way
  pos,          \* where the mount is
  goal,         \* where it drives to, if it does
  running,      \* its motors turn
  witnessed     \* a telemetry message told that they do

slewVars == <<mapConfig, hasMapTarget, target, submitted, gotos, stopping, pos,
              goal, running, witnessed>>

NoSlew == [to |-> Nowhere, arrived |-> {}, hasMoved |-> FALSE, last |-> Nowhere]

SlewTypeOK ==
  /\ mapConfig \in BOOLEAN
  /\ hasMapTarget \in BOOLEAN
  /\ target \in Spots \cup {Nowhere}
  /\ submitted \in {NoSlew} \cup [to : Spots, arrived : SUBSET Axis, hasMoved : BOOLEAN,
                                   last : Places \cup {Nowhere}]
  /\ gotos \in SUBSET Spots
  /\ stopping \in BOOLEAN
  /\ pos \in Places
  /\ goal \in Spots \cup {Nowhere}
  /\ running \in BOOLEAN
  /\ witnessed \in BOOLEAN

SlewInit ==
  /\ mapConfig = FALSE
  /\ hasMapTarget = FALSE
  /\ target = Nowhere
  /\ submitted = NoSlew
  /\ gotos = {}
  /\ stopping = FALSE
  /\ pos \in Places
  /\ goal = Nowhere
  /\ running = FALSE
  /\ witnessed = FALSE

mountVars == <<pos, goal, running, witnessed>>
-----------------------------------------------------------------------------
ConfigLoads ==
  /\ ~mapConfig
  /\ mapConfig' = TRUE
  /\ UNCHANGED <<hasMapTarget, target, submitted, gotos, stopping, mountVars>>

\* setTarget without the effect that forgets a slew to another place.
PinOnly(t) ==
  /\ hasMapTarget' = TRUE
  /\ target' = t
  /\ UNCHANGED submitted

\* setTarget, and the effects of the commit: a slew to another place is not
\* watched any longer.
Pin(t) ==
  /\ hasMapTarget' = TRUE
  /\ target' = t
  /\ submitted' = IF submitted.to = t THEN submitted ELSE NoSlew

MapClicked(t) ==
  /\ mapConfig
  /\ Pin(t)
  /\ UNCHANGED <<mapConfig, gotos, stopping, mountVars>>

\* Enter, or leaving a field, with two valid fields: pickTarget.  The fields
\* were typed or mirror the last target, which stays in them when the pin is
\* dropped; the sky has turned since, so the same may be another place.
FormCommits(t) ==
  /\ mapConfig
  /\ Pin(t)
  /\ UNCHANGED <<mapConfig, gotos, stopping, mountVars>>

\* A click on the pin: clearTarget, which leaves the coordinates.
PinCleared ==
  /\ hasMapTarget
  /\ hasMapTarget' = FALSE
  /\ submitted' = NoSlew
  /\ UNCHANGED <<mapConfig, target, gotos, stopping, mountVars>>

SlewPressed ==
  /\ hasMapTarget
  /\ submitted' = [NoSlew EXCEPT !.to = target]
  /\ gotos' = gotos \cup {target}
  /\ UNCHANGED <<mapConfig, hasMapTarget, target, stopping, mountVars>>

StopPressed ==
  /\ stopping' = TRUE
  /\ UNCHANGED <<mapConfig, hasMapTarget, target, submitted, gotos, mountVars>>
-----------------------------------------------------------------------------
Off(a) == pos[a] - submitted.to[a]
Was(a) == submitted.last[a] - submitted.to[a]

\* axisReached, or reached before.
Reached(a) ==
  \/ a \in submitted.arrived
  \/ Off(a) = 0
  \/ submitted.last # Nowhere /\ ((Was(a) < 0 /\ Off(a) > 0) \/ (Was(a) > 0 /\ Off(a) < 0))

\* A test of arrival that wants both axes within the narrow tolerance.
BothReached == \A a \in Axis : Reached(a)

Arrived ==
  \/ \A a \in Axis : Reached(a)
  \/ /\ submitted.hasMoved \/ running
     /\ ~running
     /\ \A a \in Axis : Off(a) \in -1 .. 1

\* A telemetry message: its effect, while there is a slew to watch.  On
\* arrival everything is told to stop and the pin goes.
Telemetry ==
  /\ witnessed' = running
  /\ IF ~hasMapTarget \/ submitted = NoSlew
     THEN UNCHANGED <<hasMapTarget, submitted, stopping>>
     ELSE IF Arrived
     THEN /\ submitted' = NoSlew
          /\ stopping' = TRUE
          /\ hasMapTarget' = FALSE
     ELSE /\ submitted' = [submitted EXCEPT !.arrived = {a \in Axis : Reached(a)},
                                            !.hasMoved = @ \/ running,
                                            !.last = pos]
          /\ UNCHANGED <<hasMapTarget, stopping>>
  /\ UNCHANGED <<mapConfig, target, gotos, pos, goal, running>>
-----------------------------------------------------------------------------
\* From x an axis may come to y, with its goal at g: nearer, or past g by a
\* step if it was further away than that.
Nearer(x, y, g) ==
  IF x = g THEN y = g
  ELSE IF x < g THEN x < y /\ (y <= g \/ (y = g + 1 /\ x < g - 1))
  ELSE y < x /\ (g <= y \/ (y = g - 1 /\ g + 1 < x))

GotoArrives(t) ==
  /\ t \in gotos
  /\ gotos' = gotos \ {t}
  /\ goal' = t
  /\ running' = TRUE
  /\ witnessed' = FALSE
  /\ UNCHANGED <<mapConfig, hasMapTarget, target, submitted, stopping, pos>>

\* The request fails, or is refused at a hard limit.
GotoFails(t) ==
  /\ t \in gotos
  /\ gotos' = gotos \ {t}
  /\ UNCHANGED <<mapConfig, hasMapTarget, target, submitted, stopping, mountVars>>

StopArrives ==
  /\ stopping
  /\ stopping' = FALSE
  /\ goal' = Nowhere
  /\ running' = FALSE
  /\ witnessed' = FALSE
  /\ UNCHANGED <<mapConfig, hasMapTarget, target, submitted, gotos, pos>>

StopFails ==
  /\ stopping
  /\ stopping' = FALSE
  /\ UNCHANGED <<mapConfig, hasMapTarget, target, submitted, gotos, mountVars>>

\* Each axis that is not there comes nearer to the goal, or runs over it.
MountDrives ==
  /\ running /\ goal # Nowhere
  /\ pos # goal
  /\ pos' \in {p \in Places : \A a \in Axis : Nearer(pos[a], p[a], goal[a])}
  /\ UNCHANGED <<mapConfig, hasMapTarget, target, submitted, gotos, stopping,
                 goal, running, witnessed>>

\* It comes to rest at its goal or a step short of it; a motion lasts longer
\* than the time between two telemetry messages.
MountHalts ==
  /\ running /\ witnessed
  /\ goal # Nowhere
  /\ \A a \in Axis : pos[a] - goal[a] \in -1 .. 1
  /\ running' = FALSE
  /\ witnessed' = FALSE
  /\ UNCHANGED <<mapConfig, hasMapTarget, target, submitted, gotos, stopping, pos,
                 goal>>

\* A jog, of any user, takes the mount away from its goal.
MountJogged ==
  /\ goal' = Nowhere
  /\ pos' \in Places
  /\ running' \in BOOLEAN
  /\ witnessed' = FALSE
  /\ UNCHANGED <<mapConfig, hasMapTarget, target, submitted, gotos, stopping>>

SlewNext ==
  \/ ConfigLoads
  \/ \E t \in Spots : MapClicked(t) \/ FormCommits(t)
  \/ PinCleared \/ SlewPressed \/ StopPressed
  \/ Telemetry
  \/ \E t \in Spots : GotoArrives(t) \/ GotoFails(t)
  \/ StopArrives \/ StopFails
  \/ MountDrives \/ MountHalts \/ MountJogged

\* Telemetry keeps coming, and a mount that drives gets there.
SlewFairness ==
  /\ WF_slewVars(Telemetry)
  /\ WF_slewVars(MountDrives)
  /\ SF_slewVars(MountHalts)

SlewSpec == SlewInit /\ [][SlewNext]_slewVars /\ SlewFairness
-----------------------------------------------------------------------------
(***************************************************************************)
(* The slew that is watched is one to the pin on the map: its arrival      *)
(* neither stops the mount for a target that was given up nor drops a pin  *)
(* that was set since.                                                     *)
(***************************************************************************)
WatchedSlewIsPinned == submitted # NoSlew => hasMapTarget /\ target = submitted.to

SeenDriving == submitted.hasMoved /\ goal = submitted.to

(***************************************************************************)
(* "Once the mount has actually moved and then come to rest within this    *)
(* looser band of the target, treat the slew as complete": a slew that the *)
(* mount follows, and was seen to, ends or is submitted anew.  (One that   *)
(* is submitted while the mount rests a little off the target may never    *)
(* be seen to move, and then its pin stays.)                               *)
(***************************************************************************)
SlewEnds == SeenDriving ~> ~SeenDriving
=============================================================================

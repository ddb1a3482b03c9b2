------------------------------ MODULE MCWebApp ------------------------------
(***************************************************************************)
(* The parts of the web application for TLC, on one small instance.  They  *)
(* share no state, so their steps commute and no interleaving of two parts *)
(* shows what the parts do not show alone: a behaviour follows one part,   *)
(* chosen at the start, and leaves the others in their initial states.     *)
(***************************************************************************)
EXTENDS SpectrumView, SpectrumStatus, QueueClient, JogPad, SlewTarget, GuidedTours,
        SkyAtlas, SkyCanvas, GoesView, Animations

VARIABLE part

webVars == <<part, spectrumVars, statusVars, queueVars, jogVars, slewVars, guidedVars,
             skyVars, canvasVars, goesVars, animVars>>

-----------------------------------------------------------------------------
(* Values of the constants.                                                *)

Site(q, c, p, o) == [queue |-> q, captcha |-> c, password |-> p, open |-> o]

\* No queue; a captcha; a captcha and a password; a queue that is closed.
SomeSites == {Site(FALSE, FALSE, FALSE, TRUE), Site(TRUE, TRUE, FALSE, TRUE),
              Site(TRUE, TRUE, TRUE, TRUE), Site(TRUE, FALSE, FALSE, FALSE)}

\* Two targets that differ on both axes, neither of them the parking position.
SomeSpots == {<<1, 1>>, <<2, 0>>}

\* One target: a slew to another takes the pin and the watch with it.
OneSpot == {<<2, 1>>}

\* What two views of the sky have in them: the whole sky, and a part of it over the
\* ground.
SomeInView ==
  [v \in View |->
     CASE v = "wide" -> {"p1", "s1", "s2", "horizon", "grid", "cardinals",
                         "whole window", "milky way", "sun", "sun ring", "moon"}
       [] v = "close" -> {"p1", "s1", "horizon", "grid", "ground inside",
                          "part window", "milky way", "sun", "moon"}]

-----------------------------------------------------------------------------
Part == {"spectrum", "status", "queue", "jog", "slew", "guide", "sky", "canvas",
         "downlink", "explorer", "animation"}

\* The parts with something to do over a network that fails, and their promises.
NetworkPart == {"spectrum", "status", "queue", "slew", "downlink"}

\* One initial state is enough of the parts that are not followed.
WebInit(parts) ==
  /\ part \in parts
  /\ SpectrumInit /\ JogInit /\ SkyInit /\ AnimInit
  /\ StatusInit /\ (part = "status" \/ receiver = "live")
  /\ QueueInit /\ (part = "queue" \/ (session = "out" /\ ~site.queue))
  /\ SlewInit /\ (part = "slew" \/ pos = <<0, 0>>)
  /\ GuidedInit /\ (part = "guide" \/ (~offerDue /\ seen /\ ~baseline))
  /\ CanvasInit /\ (part = "canvas" \/ view = "wide")
  /\ GoesInit /\ (part = "explorer" \/ archive = 0)

SpectrumStep ==
  /\ part = "spectrum" /\ SpectrumNext
  /\ UNCHANGED <<part, statusVars, queueVars, jogVars, slewVars, guidedVars, skyVars,
                 canvasVars, goesVars, animVars>>

StatusStep ==
  /\ part = "status" /\ StatusNext
  /\ UNCHANGED <<part, spectrumVars, queueVars, jogVars, slewVars, guidedVars, skyVars,
                 canvasVars, goesVars, animVars>>

QueueStep ==
  /\ part = "queue" /\ QueueNext
  /\ UNCHANGED <<part, spectrumVars, statusVars, jogVars, slewVars, guidedVars, skyVars,
                 canvasVars, goesVars, animVars>>

JogStep ==
  /\ part = "jog" /\ JogNext
  /\ UNCHANGED <<part, spectrumVars, statusVars, queueVars, slewVars, guidedVars,
                 skyVars, canvasVars, goesVars, animVars>>

SlewStep ==
  /\ part = "slew" /\ SlewNext
  /\ UNCHANGED <<part, spectrumVars, statusVars, queueVars, jogVars, guidedVars, skyVars,
                 canvasVars, goesVars, animVars>>

GuidedStep ==
  /\ part = "guide" /\ GuidedNext
  /\ UNCHANGED <<part, spectrumVars, statusVars, queueVars, jogVars, slewVars, skyVars,
                 canvasVars, goesVars, animVars>>

SkyStep ==
  /\ part = "sky" /\ SkyNext
  /\ UNCHANGED <<part, spectrumVars, statusVars, queueVars, jogVars, slewVars,
                 guidedVars, canvasVars, goesVars, animVars>>

CanvasStep ==
  /\ part = "canvas" /\ CanvasNext
  /\ UNCHANGED <<part, spectrumVars, statusVars, queueVars, jogVars, slewVars,
                 guidedVars, skyVars, goesVars, animVars>>

\* The downlink and the file explorer are two views of the GOES page.
GoesStep ==
  /\ \/ part = "downlink" /\ DownlinkNext
     \/ part = "explorer" /\ ExplorerNext
  /\ UNCHANGED <<part, spectrumVars, statusVars, queueVars, jogVars, slewVars,
                 guidedVars, skyVars, canvasVars, animVars>>

AnimationStep ==
  /\ part = "animation" /\ AnimNext
  /\ UNCHANGED <<part, spectrumVars, statusVars, queueVars, jogVars, slewVars,
                 guidedVars, skyVars, canvasVars, goesVars>>

WebNext ==
  \/ SpectrumStep \/ StatusStep \/ QueueStep \/ JogStep \/ SlewStep \/ GuidedStep
  \/ SkyStep \/ CanvasStep \/ GoesStep \/ AnimationStep

WebSpec == WebInit(Part) /\ [][WebNext]_webVars

(* The fairness of the network's parts, as their modules state it.         *)
WebFairness ==
  /\ WF_spectrumVars(part = "spectrum" /\ SocketStarts)
  /\ WF_spectrumVars(part = "spectrum" /\ SocketStops)
  /\ WF_spectrumVars(part = "spectrum" /\ Reconnects)
  /\ \A s \in Sock :
       WF_spectrumVars(part = "spectrum" /\ sock[s] = "closing" /\ StreamCloses(s))
  /\ SF_spectrumVars(part = "spectrum" /\ \E s \in Sock : StreamOpens(s))
  /\ WF_statusVars(part = "status" /\ StartPolling)
  /\ SF_statusVars(part = "status" /\ PollAnswered)
  /\ \A a \in Answer : WF_statusVars(part = "status" /\ AnswerArrives(a))
  /\ WF_statusVars(part = "status" /\ NudgeAgain)
  /\ WF_statusVars(part = "status" /\ (NudgeRefused \/ NudgeAccepted))
  /\ SF_statusVars(part = "status" /\ NudgeAccepted)
  /\ WF_queueVars(part = "queue" /\ ConfigArrives)
  /\ WF_queueVars(part = "queue" /\ BootAnswered)
  /\ WF_queueVars(part = "queue" /\ BootArrives)
  /\ WF_queueVars(part = "queue" /\ AutoJoin)
  /\ WF_queueVars(part = "queue" /\ JoinAnswered)
  /\ WF_queueVars(part = "queue" /\ (JoinFails \/ JoinSucceeds))
  /\ WF_queueVars(part = "queue" /\ ServerPushes)
  /\ SF_queueVars(part = "queue" /\ SocketOpens)
  /\ SF_queueVars(part = "queue" /\ PushArrives)
  /\ WF_slewVars(part = "slew" /\ Telemetry)
  /\ WF_slewVars(part = "slew" /\ MountDrives)
  /\ SF_slewVars(part = "slew" /\ MountHalts)
  /\ WF_goesVars(part = "downlink" /\ PolledAgain)
  /\ WF_goesVars(part = "downlink" /\ Nudge)

NetworkSpec == WebInit(NetworkPart) /\ [][WebNext]_webVars /\ WebFairness

WebTypeOK ==
  /\ SocketTypeOK /\ SpectrumTypeOK /\ StatusTypeOK /\ QueueTypeOK /\ JogTypeOK
  /\ SlewTypeOK /\ WizardTypeOK /\ GuidedTypeOK /\ SkyTypeOK /\ CanvasTypeOK
  /\ GoesTypeOK /\ AnimTypeOK
=============================================================================

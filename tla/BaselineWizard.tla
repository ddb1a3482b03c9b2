--------------------------- MODULE BaselineWizard ---------------------------
(***************************************************************************)
(* The dialog that captures a cold-sky baseline                            *)
(* (components/BaselineWizard.tsx): a lesson, a quiet patch picked on the  *)
(* sky map in fullscreen (components/SkyMap, lib/useFullscreen.ts), the    *)
(* capture with a preview of the integration as it is rebuilt, the result. *)
(*                                                                         *)
(* The component stays mounted when it is closed, so the answer to a       *)
(* capture may come after its dialog was closed, or opened again; when the *)
(* page leaves it is unmounted, and such an answer finds nobody.           *)
(* `frames_seen` counts up to MaxSeen, which stands for every larger       *)
(* count.  Whether the dish points at a valid spot is left open.           *)
(***************************************************************************)
EXTENDS Integers

CONSTANTS
  MaxAsked,   \* bound: capture requests under way at a time
  MaxSeen     \* bound: frames of an integration that are told apart

ASSUME WizardBoundsAssumption == MaxAsked \in Nat \ {0} /\ MaxSeen \in Nat \ {0}

VARIABLES
  wizardOpen,
  step,
  busy,
  captureError,
  building,
  captureMarker,    \* captureFramesMarkerRef.current; 0: there is none
  captured,         \* capturedRef.current
  asked,            \* captures under way: that this opening asked for, or an earlier one
                    \* of this page, or a page that is gone
  integration,      \* of the receiver: its frames, and whether it is the one that was
                    \* on screen at the last press of Trigger
  baseline,         \* the receiver corrects its frames by a baseline
  wizardFrame,      \* the latest frame the panel handed to the dialog, whether its
                    \* integration goes on, and was on screen at that press
  trace,            \* what the preview shows
  fullscreen        \* the sky map has the screen

dialogVars == <<wizardOpen, step, busy, captureError, building, captureMarker, captured,
                trace>>
receiverVars == <<integration, baseline, wizardFrame>>
wizardVars == <<dialogVars, asked, receiverVars, fullscreen>>

Opening == {"this", "earlier", "gone"}
UnderWay == asked["this"] + asked["earlier"] + asked["gone"]
NoWizardFrame == [seen |-> 0, current |-> FALSE, settled |-> FALSE, corrected |-> FALSE]

WizardTypeOK ==
  /\ wizardOpen \in BOOLEAN
  /\ step \in {"intro", "pick", "capture", "done"}
  /\ busy \in BOOLEAN
  /\ captureError \in BOOLEAN
  /\ building \in BOOLEAN
  /\ captureMarker \in 0 .. MaxSeen
  /\ captured \in BOOLEAN
  /\ asked \in [Opening -> 0 .. MaxAsked]
  /\ integration \in [seen : 0 .. MaxSeen, settled : BOOLEAN]
  /\ baseline \in BOOLEAN
  /\ wizardFrame \in [seen : 0 .. MaxSeen, current : BOOLEAN, settled : BOOLEAN,
                       corrected : BOOLEAN]
  /\ trace \in {"none", "settled", "rebuilt"}
  /\ fullscreen \in BOOLEAN

WizardInit ==
  /\ wizardOpen = FALSE
  /\ step = "intro"
  /\ busy = FALSE
  /\ captureError = FALSE
  /\ building = FALSE
  /\ captureMarker = 0
  /\ captured = FALSE
  /\ asked = [o \in Opening |-> 0]
  /\ integration = [seen |-> 0, settled |-> FALSE]
  /\ baseline \in BOOLEAN
  /\ wizardFrame = NoWizardFrame
  /\ trace = "none"
  /\ fullscreen = FALSE
-----------------------------------------------------------------------------
\* The preview after a commit: mounted in the capture step only, empty until
\* `building`, then redrawn with every frame.
DrawPreview ==
  trace' = IF ~wizardOpen' \/ step' # "capture" \/ ~building' THEN "none"
           ELSE IF wizardFrame' = NoWizardFrame THEN trace
           ELSE IF wizardFrame'.settled THEN "settled" ELSE "rebuilt"

\* The effect that finds the first frame of the rebuilt integration.
NoticeRebuild ==
  building' = \/ building
              \/ /\ busy
                 /\ wizardFrame' # NoWizardFrame
                 /\ captureMarker = 0 \/ wizardFrame'.seen < captureMarker

\* The step changes to s.  The clean-up of the pick step gives the screen back,
\* and its start asks for it, which the browser may refuse.
GoTo(s) ==
  /\ step' = s
  /\ IF s = "pick" THEN fullscreen' \in {fullscreen, TRUE}
     ELSE fullscreen' = (fullscreen /\ step # "pick")

\* OpenWizard that leaves the ref of the last capture as it is.
OpenKeepsCaptured ==
  /\ ~wizardOpen
  /\ wizardOpen' = TRUE
  /\ step' = "intro"
  /\ busy' = FALSE
  /\ captureError' = FALSE
  /\ building' = FALSE
  /\ asked' = [asked EXCEPT !["this"] = 0, !["earlier"] = @ + asked["this"]]
  /\ UNCHANGED <<captureMarker, captured, receiverVars, fullscreen>>
  /\ DrawPreview

OpenWizard ==
  /\ ~wizardOpen
  /\ wizardOpen' = TRUE
  /\ step' = "intro"
  /\ busy' = FALSE
  /\ captureError' = FALSE
  /\ building' = FALSE
  /\ captured' = FALSE
  /\ asked' = [asked EXCEPT !["this"] = 0, !["earlier"] = @ + asked["this"]]
  /\ UNCHANGED <<captureMarker, receiverVars, fullscreen>>
  /\ DrawPreview

\* onOpenChange(false), whatever step it comes from.
Close ==
  /\ wizardOpen' = FALSE
  /\ GoTo("intro")
  /\ UNCHANGED <<busy, captureError, building, captureMarker, captured, asked,
                 receiverVars>>
  /\ DrawPreview

\* A step of the dialog and nothing else.
TurnTo(s) ==
  /\ GoTo(s)
  /\ UNCHANGED <<wizardOpen, busy, captureError, building, captureMarker, captured,
                 asked, receiverVars>>
  /\ DrawPreview

ChooseCapture == wizardOpen /\ step = "intro" /\ TurnTo("pick")

ConfirmPick == wizardOpen /\ step = "pick" /\ TurnTo("capture")

BackToPick == wizardOpen /\ step = "capture" /\ ~busy /\ TurnTo("pick")

\* Cancel, the cross, Escape or Close of the dialog, also during a capture; or
\* Cancel of the banner on the map.
Dismiss == wizardOpen /\ Close

\* The button of the map, where no modal dialog is in the way.
ScreenTaken ==
  /\ ~fullscreen
  /\ ~wizardOpen \/ step = "pick"
  /\ fullscreen' = TRUE
  /\ UNCHANGED <<dialogVars, asked, receiverVars>>

\* Escape or the button of the map outside the pick step ...
ScreenLeft ==
  /\ fullscreen
  /\ ~(wizardOpen /\ step = "pick")
  /\ fullscreen' = FALSE
  /\ UNCHANGED <<dialogVars, asked, receiverVars>>

\* ... and during it, where it means to give up.
PickLeft == fullscreen /\ wizardOpen /\ step = "pick" /\ Close

Trigger ==
  /\ wizardOpen
  /\ step = "capture"
  /\ ~busy
  /\ UnderWay < MaxAsked
  /\ busy' = TRUE
  /\ building' = FALSE
  /\ captureMarker' = wizardFrame.seen
  /\ captureError' = FALSE
  /\ asked' = [asked EXCEPT !["this"] = @ + 1]
  /\ integration' = [integration EXCEPT !.settled = wizardFrame.current]
  /\ wizardFrame' = [wizardFrame EXCEPT !.settled = wizardFrame # NoWizardFrame]
  /\ UNCHANGED <<wizardOpen, step, captured, baseline, fullscreen>>
  /\ DrawPreview

\* A capture that was asked for in opening o of this page has its answer; the dialog
\* may be closed by now, or at any step of a later opening.
Captured(o) ==
  /\ asked[o] > 0
  /\ asked' = [asked EXCEPT ![o] = @ - 1]
  /\ baseline' = TRUE
  /\ captured' = TRUE
  /\ busy' = FALSE
  /\ step' = "done"
  /\ fullscreen' = (fullscreen /\ ~(wizardOpen /\ step = "pick"))
  /\ UNCHANGED <<wizardOpen, captureError, building, captureMarker,
                 integration, wizardFrame>>
  /\ DrawPreview

CaptureFailed(o) ==
  /\ asked[o] > 0
  /\ asked' = [asked EXCEPT ![o] = @ - 1]
  /\ captureError' = TRUE
  /\ busy' = FALSE
  /\ UNCHANGED <<wizardOpen, step, building, captureMarker, captured,
                 receiverVars, fullscreen>>
  /\ DrawPreview

\* The dialog and the panel around it are unmounted: no effect runs for the dialog,
\* and the browser takes the screen from the map that is removed.
WizardUnmounts ==
  /\ wizardOpen' = FALSE
  /\ step' = "intro"
  /\ busy' = FALSE
  /\ captureError' = FALSE
  /\ building' = FALSE
  /\ captureMarker' = 0
  /\ captured' = FALSE
  /\ trace' = "none"
  /\ asked' = [o \in Opening |-> IF o = "gone" THEN UnderWay ELSE 0]
  /\ wizardFrame' = NoWizardFrame
  /\ fullscreen' = FALSE
  /\ UNCHANGED <<integration, baseline>>

\* A capture that a page asked for before it left ends, well or not.
AnsweredToNobody ==
  /\ asked["gone"] > 0
  /\ asked' = [asked EXCEPT !["gone"] = @ - 1]
  /\ baseline' \in {baseline, TRUE}
  /\ UNCHANGED <<dialogVars, integration, wizardFrame, fullscreen>>
-----------------------------------------------------------------------------
(***************************************************************************)
(* The receiver.                                                           *)
(***************************************************************************)
\* A capture restarts the integration.
IntegrationRestarts ==
  /\ UnderWay > 0
  /\ integration' = [seen |-> 0, settled |-> FALSE]
  /\ wizardFrame' = [wizardFrame EXCEPT !.current = FALSE]
  /\ UNCHANGED <<dialogVars, asked, baseline, fullscreen>>

NextSeen == IF integration.seen = MaxSeen THEN MaxSeen ELSE integration.seen + 1

\* A frame while the page has no stream.
FrameUnseen ==
  /\ wizardFrame = NoWizardFrame
  /\ integration' = [integration EXCEPT !.seen = NextSeen]
  /\ UNCHANGED <<dialogVars, asked, baseline, wizardFrame, fullscreen>>

WizardFrameArrives ==
  /\ integration' = [integration EXCEPT !.seen = NextSeen]
  /\ wizardFrame' = [seen |-> NextSeen, current |-> TRUE, settled |-> integration.settled,
                      corrected |-> baseline]
  /\ NoticeRebuild
  /\ UNCHANGED <<wizardOpen, step, busy, captureError, captureMarker, captured,
                 asked, baseline, fullscreen>>
  /\ DrawPreview

WizardStreamDrops ==
  /\ wizardFrame' = NoWizardFrame
  /\ UNCHANGED <<wizardOpen, step, busy, captureError, building, captureMarker, captured,
                 asked, integration, baseline, fullscreen>>
  /\ DrawPreview

BaselineLost ==
  /\ baseline
  /\ baseline' = FALSE
  /\ UNCHANGED <<dialogVars, asked, integration, wizardFrame, fullscreen>>

\* What happens without a page, too.
ReceiverGoesOn == IntegrationRestarts \/ AnsweredToNobody \/ FrameUnseen \/ BaselineLost

\* Every action but the opening, the closing and the unmount of the dialog.
WizardInside ==
  \/ ChooseCapture \/ ConfirmPick \/ BackToPick \/ Trigger
  \/ ScreenTaken \/ ScreenLeft
  \/ \E o \in {"this", "earlier"} : Captured(o) \/ CaptureFailed(o)
  \/ WizardFrameArrives \/ WizardStreamDrops
  \/ ReceiverGoesOn
-----------------------------------------------------------------------------
\* The page that says the baseline is ready is on screen exactly when the close
\* of the dialog will report a capture to the guided observation; whatever
\* answers of earlier openings arrive in between.
CloseTellsTheTruth == wizardOpen => (captured <=> step = "done")

\* The preview never flashes the integration that was on screen when the user
\* pressed Trigger: whatever attempts and openings went before, it starts with
\* one that a capture restarted.
PreviewIsFresh == trace # "settled"
=============================================================================

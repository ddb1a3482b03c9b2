---------------------------- MODULE GuidedTours -----------------------------
(***************************************************************************)
(* The tours of the page (tour.ts, guidedObservation.ts, and the effect of *)
(* App.tsx that offers one at the first visit).  The guided observation    *)
(* hands over to the baseline dialog and goes on when the dialog says that *)
(* a baseline was captured; the two are joined here.                       *)
(*                                                                         *)
(* App.tsx puts the queue's page in the place of the controls when the     *)
(* lease is lost, at any moment.  The controls go without a word: only     *)
(* what hangs on the window, and the tour itself, outlives them.           *)
(*                                                                         *)
(* A tour covers the page, so nothing but itself and what it highlights    *)
(* can be clicked; only the timer of the first visit can still open a tour *)
(* over another.  Of the steps of a tour only the baseline step of the     *)
(* lead-in does anything; of the two keys of localStorage only whether     *)
(* either is set is ever asked.                                            *)
(***************************************************************************)
EXTENDS BaselineWizard

CONSTANTS
  MaxLeft,    \* bound: lead-ins that are given up at their baseline step
  MaxArmed    \* bound: handlers that wait for the dialog to close

ASSUME GuideBoundsAssumption == MaxLeft \in Nat /\ MaxArmed \in Nat

\* The offer of the first visit, the walks through the controls and through the
\* spectrum, the lead-in of the guided observation and its baseline step, and
\* what follows a baseline: its Milky Way leg, or the full pass.
Tours == {"none", "offer", "controls", "spectrum", "lead-in", "baseline step", "observe"}

VARIABLES
  controlled,   \* the controls are on screen, ControlUI, and not the queue's page
  tour,
  offerDue,     \* the timer of the first visit runs (not in GOES mode)
  seen,         \* a key of localStorage: some tour was seen
  onButton,     \* click handlers that lead-ins left on the capture button: of the one
                \* that runs, and how many of others
  armed,        \* handlers that wait for the dialog to close
  handedOver    \* a lead-in that ran opened the dialog

tourVars == <<controlled, tour, offerDue, seen, onButton, armed, handedOver>>
guidedVars == <<wizardVars, tourVars>>

NoHandler == [running |-> FALSE, left |-> 0]

GuidedTypeOK ==
  /\ WizardTypeOK
  /\ controlled \in BOOLEAN
  /\ tour \in Tours
  /\ offerDue \in BOOLEAN
  /\ seen \in BOOLEAN
  /\ onButton \in [running : BOOLEAN, left : 0 .. MaxLeft]
  /\ armed \in 0 .. MaxArmed
  /\ handedOver \in BOOLEAN

\* A browser with or without the keys, in either mode.
GuidedInit ==
  /\ WizardInit
  /\ controlled = TRUE
  /\ tour = "none"
  /\ offerDue \in BOOLEAN
  /\ seen \in BOOLEAN
  /\ onButton = NoHandler
  /\ armed = 0
  /\ handedOver = FALSE

\* The red prompt with the capture button is on screen (!baselineApplies).
PromptShown == controlled /\ ~wizardFrame.corrected

\* startGuidedObservation: the full pass if a baseline is applied.
StartGuided ==
  /\ seen' = TRUE
  /\ tour' = IF PromptShown THEN "lead-in" ELSE "observe"
-----------------------------------------------------------------------------
(***************************************************************************)
(* The offer of the first visit.                                           *)
(***************************************************************************)
\* maybePromptFirstVisit, 600 ms later.
OfferTour ==
  /\ offerDue
  /\ offerDue' = FALSE
  /\ tour' = IF seen THEN tour ELSE "offer"
  /\ UNCHANGED <<wizardVars, controlled, seen, onButton, armed, handedOver>>

\* Later, or Don't show again.
DeclineOffer(forGood) ==
  /\ tour = "offer"
  /\ tour' = "none"
  /\ seen' = (seen \/ forGood)
  /\ UNCHANGED <<wizardVars, controlled, offerDue, onButton, armed, handedOver>>

\* The other two choices, and the buttons of the top bar and of the spectrum
\* panel, which wants a frame.
BeginControls ==
  /\ tour \in {"none", "offer"}
  /\ tour = "none" => controlled /\ (~wizardOpen \/ step = "pick")
  /\ tour' = "controls"
  /\ seen' = TRUE
  /\ UNCHANGED <<wizardVars, controlled, offerDue, onButton, armed, handedOver>>

BeginGuided ==
  /\ \/ tour = "offer"
     \/ tour = "none" /\ controlled /\ ~wizardOpen /\ wizardFrame # NoWizardFrame
  /\ StartGuided
  /\ UNCHANGED <<wizardVars, controlled, offerDue, onButton, armed, handedOver>>

BeginSpectrumTour ==
  /\ tour = "none"
  /\ controlled
  /\ ~wizardOpen
  /\ tour' = "spectrum"
  /\ UNCHANGED <<wizardVars, controlled, offerDue, seen, onButton, armed, handedOver>>
-----------------------------------------------------------------------------
(***************************************************************************)
(* The steps of a tour.                                                    *)
(***************************************************************************)
\* The popover of the baseline step is rendered: its handler goes on the button,
\* if that is there; a second rendering of the same lead-in adds nothing.
ShowBaselineStep ==
  /\ tour = "lead-in"
  /\ tour' = "baseline step"
  /\ onButton' = [onButton EXCEPT !.running = PromptShown]
  /\ UNCHANGED <<wizardVars, controlled, offerDue, seen, armed, handedOver>>

BackToLiveSignal ==
  /\ tour = "baseline step"
  /\ tour' = "lead-in"
  /\ UNCHANGED <<wizardVars, controlled, offerDue, seen, onButton, armed, handedOver>>

\* Close, or Done.  The handler stays on the button.
EndTour ==
  /\ tour \notin {"none", "offer"}
  /\ tour' = "none"
  /\ onButton.running => onButton.left < MaxLeft
  /\ onButton' = IF onButton.running
                 THEN [running |-> FALSE, left |-> onButton.left + 1] ELSE onButton
  /\ UNCHANGED <<wizardVars, controlled, offerDue, seen, armed, handedOver>>
-----------------------------------------------------------------------------
(***************************************************************************)
(* The capture button, and the dialog behind it.                           *)
(***************************************************************************)
\* A click on "Capture baseline": first the handlers of the lead-ins, which arm
\* their resume and close their tour, then the one that opens the dialog.  A
\* baseline step that has lost the prompt it shows covers the next one.
ClickCapture ==
  /\ tour = "none" \/ (tour = "baseline step" /\ onButton.running)
  /\ PromptShown
  /\ OpenWizard
  /\ armed' = armed + onButton.left + (IF onButton.running THEN 1 ELSE 0)
  /\ armed' <= MaxArmed
  /\ onButton' = NoHandler
  /\ handedOver' = onButton.running
  /\ tour' = "none"
  /\ UNCHANGED <<controlled, offerDue, seen>>

\* Recapture, among the readouts of a corrected spectrum.
ClickRecapture ==
  /\ tour = "none"
  /\ controlled /\ ~PromptShown
  /\ OpenWizard
  /\ handedOver' = FALSE
  /\ UNCHANGED <<controlled, tour, offerDue, seen, onButton, armed>>

ReportCaptured ==     \* slip: a handler removes itself when it goes on
  /\ armed' = IF captured THEN 0 ELSE armed
  /\ tour' = IF armed > 0 /\ captured THEN "observe" ELSE tour
  /\ UNCHANGED <<controlled, offerDue, seen, onButton, handedOver>>

\* The dialog closes and tells the handlers, which remove themselves, and run
\* the Milky Way leg if there is a baseline.
ReportClosed ==
  /\ armed' = 0
  /\ tour' = IF armed > 0 /\ captured THEN "observe" ELSE tour
  /\ UNCHANGED <<controlled, offerDue, seen, onButton, handedOver>>

\* The overlay of a tour keeps the user from the dialog.
CloseWizard == (Dismiss \/ PickLeft) /\ ReportClosed

\* Steps of the dialog and of the stream: the capture button, and with it the
\* handlers on it, goes when the prompt does.
WizardMoves ==
  /\ IF controlled THEN WizardInside ELSE ReceiverGoesOn
  /\ onButton' = IF wizardFrame'.corrected THEN NoHandler ELSE onButton
  /\ UNCHANGED <<controlled, tour, offerDue, seen, armed, handedOver>>
-----------------------------------------------------------------------------
(***************************************************************************)
(* The lease.                                                              *)
(***************************************************************************)
\* It is lost: the controls are unmounted, with the timer of the first visit and the
\* capture button.
ControlsLeave ==
  /\ controlled
  /\ controlled' = FALSE
  /\ WizardUnmounts
  /\ offerDue' = FALSE
  /\ onButton' = NoHandler
  /\ UNCHANGED <<tour, seen, armed, handedOver>>

\* It is granted again: new controls, which start the timer unless the mode is GOES.
ControlsReturn ==
  /\ ~controlled
  /\ controlled' = TRUE
  /\ offerDue' \in BOOLEAN
  /\ UNCHANGED <<wizardVars, tour, seen, onButton, armed, handedOver>>

GuidedNext ==
  \/ OfferTour \/ \E forGood \in BOOLEAN : DeclineOffer(forGood)
  \/ BeginControls \/ BeginGuided \/ BeginSpectrumTour
  \/ ShowBaselineStep \/ BackToLiveSignal \/ EndTour
  \/ ClickCapture \/ ClickRecapture \/ CloseWizard \/ WizardMoves
  \/ ControlsLeave \/ ControlsReturn

GuidedSpec == GuidedInit /\ [][GuidedNext]_guidedVars
-----------------------------------------------------------------------------
\* What the comment of armMilkyWayResume says: a guide that waits for a baseline
\* waits for the dialog that is open, and none is left over to fire on a later
\* capture.  A loss of the lease with the dialog open does leave one.
ResumeWaitsForThisDialog == armed > 0 => wizardOpen

\* But nothing else does: by whichever way a dialog goes while the controls stay, and
\* whatever captures of it are still under way, no guide goes on waiting.
OnlyLeaseStrandsGuides ==
  [][ResumeWaitsForThisDialog /\ controlled' => ResumeWaitsForThisDialog']_guidedVars

\* What the comments of the lead-in say: closing it is bailing out, and only a
\* capture that the guide handed over resumes it.
ResumeIsHandedOver == armed > 0 => handedOver
=============================================================================

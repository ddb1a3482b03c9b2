-------------------------- MODULE GuidedToursProofs --------------------------
(***************************************************************************)
(* Theorems about the baseline dialog and the guided observation, for any  *)
(* number of captures under way, frames told apart and lead-ins given up.  *)
(***************************************************************************)
EXTENDS GuidedTours, TLAPS

\* All captures count against one bound, so an opening may inherit them all.
AskedBound == UnderWay <= MaxAsked

\* The frame on screen is the last one of the integration, while that goes on.
ScreenIsCurrent ==
  wizardFrame.current => wizardFrame.seen = integration.seen /\ wizardFrame.seen > 0

\* The integration that was on screen at the press of Trigger stays beyond the
\* marker, so it is not taken for a new one; once the preview is drawn, that
\* integration is gone.
MarkerTells ==
  /\ busy /\ integration.settled => captureMarker > 0 /\ integration.seen >= captureMarker
  /\ building => ~integration.settled /\ ~wizardFrame.settled

GuidedInv ==
  /\ GuidedTypeOK
  /\ AskedBound
  /\ ScreenIsCurrent
  /\ MarkerTells
  /\ PreviewIsFresh
  /\ CloseTellsTheTruth

WizardInv ==
  /\ WizardTypeOK
  /\ AskedBound
  /\ ScreenIsCurrent
  /\ MarkerTells
  /\ PreviewIsFresh
  /\ CloseTellsTheTruth

\* The preview after a step that leaves the frame and does not start to draw.
LEMMA Drawn ==
  ASSUME WizardInv, DrawPreview, building' \in BOOLEAN,
         building' /\ wizardFrame' # NoWizardFrame => ~wizardFrame'.settled
  PROVE  trace' \in {"none", "settled", "rebuilt"} /\ PreviewIsFresh'
BY DEF WizardInv, WizardTypeOK, DrawPreview, PreviewIsFresh

LEMMA ScreenType ==
  ASSUME WizardTypeOK, NEW s, GoTo(s)
  PROVE  fullscreen' \in BOOLEAN
BY DEF WizardTypeOK, GoTo

\* What a step that turns a page, opens or closes the dialog keeps.
LEMMA PageStep ==
  ASSUME WizardInv,
         wizardOpen' \in BOOLEAN, step' \in {"intro", "pick", "capture", "done"},
         fullscreen' \in BOOLEAN, building' \in BOOLEAN, busy' \in BOOLEAN,
         captureError' \in BOOLEAN, captured' \in BOOLEAN,
         building' => building, busy' => busy,
         UNCHANGED <<captureMarker, receiverVars>>,
         asked' \in [Opening -> 0 .. MaxAsked], AskedBound',
         CloseTellsTheTruth', DrawPreview
  PROVE  WizardInv'
<1>1. UNCHANGED <<captureMarker, integration, baseline, wizardFrame>>
  BY DEF receiverVars
<1>2. trace' \in {"none", "settled", "rebuilt"} /\ PreviewIsFresh'
  BY <1>1, Drawn DEF WizardInv, MarkerTells
<1>3. WizardTypeOK'
  BY <1>1, <1>2 DEF WizardInv, WizardTypeOK
<1>4. ScreenIsCurrent' /\ MarkerTells'
  BY <1>1 DEF WizardInv, ScreenIsCurrent, MarkerTells
<1> QED BY <1>2, <1>3, <1>4 DEF WizardInv

LEMMA TurnInv ==
  ASSUME WizardInv, NEW s \in {"pick", "capture"}, TurnTo(s), wizardOpen, step # "done"
  PROVE  WizardInv'
<1>1. /\ GoTo(s) /\ step' = s /\ DrawPreview
      /\ UNCHANGED <<wizardOpen, busy, captureError, building, captureMarker, captured,
                     asked, receiverVars>>
  BY DEF TurnTo, GoTo
<1>2. CloseTellsTheTruth' /\ AskedBound'
  BY <1>1 DEF WizardInv, CloseTellsTheTruth, AskedBound, UnderWay
<1> QED BY <1>1, <1>2, PageStep, ScreenType DEF WizardInv, WizardTypeOK

LEMMA CloseDialogInv == WizardInv /\ Close => WizardInv'
<1> SUFFICES ASSUME WizardInv, Close PROVE WizardInv'
  OBVIOUS
<1>1. /\ wizardOpen' = FALSE /\ GoTo("intro") /\ step' = "intro" /\ DrawPreview
      /\ UNCHANGED <<busy, captureError, building, captureMarker, captured,
                     asked, receiverVars>>
  BY DEF Close, GoTo
<1>2. CloseTellsTheTruth' /\ AskedBound'
  BY <1>1 DEF WizardInv, CloseTellsTheTruth, AskedBound, UnderWay
<1> QED BY <1>1, <1>2, PageStep, ScreenType DEF WizardInv, WizardTypeOK

LEMMA OpenWizardInv == WizardInv /\ OpenWizard => WizardInv'
<1> SUFFICES ASSUME WizardInv, OpenWizard PROVE WizardInv'
  OBVIOUS
<1>1. /\ wizardOpen' = TRUE /\ step' = "intro" /\ busy' = FALSE /\ captureError' = FALSE
      /\ building' = FALSE /\ captured' = FALSE /\ DrawPreview
      /\ asked' = [asked EXCEPT !["this"] = 0, !["earlier"] = @ + asked["this"]]
      /\ UNCHANGED <<captureMarker, receiverVars, fullscreen>>
  BY DEF OpenWizard
<1>2. /\ asked["this"] \in Nat /\ asked["earlier"] \in Nat /\ asked["gone"] \in Nat
      /\ MaxAsked \in Nat
  BY WizardBoundsAssumption DEF WizardInv, WizardTypeOK, Opening
<1>3. asked["this"] + asked["earlier"] \in 0 .. MaxAsked
  BY <1>2 DEF WizardInv, AskedBound, UnderWay
<1>4. asked' \in [Opening -> 0 .. MaxAsked] /\ AskedBound'
  BY <1>1, <1>2, <1>3 DEF WizardInv, WizardTypeOK, Opening, AskedBound, UnderWay
<1>5. CloseTellsTheTruth'
  BY <1>1 DEF CloseTellsTheTruth
<1> QED BY <1>1, <1>4, <1>5, PageStep DEF WizardInv, WizardTypeOK

-----------------------------------------------------------------------------
(***************************************************************************)
(* The capture and its answers.                                            *)
(***************************************************************************)
\* One more, or one less, request of an opening.
LEMMA AskedType ==
  ASSUME WizardInv
  PROVE  /\ asked["this"] \in 0 .. MaxAsked /\ asked["earlier"] \in 0 .. MaxAsked
         /\ asked["gone"] \in 0 .. MaxAsked
         /\ MaxAsked \in Nat /\ MaxSeen \in Nat \ {0}
         /\ integration.seen \in 0 .. MaxSeen /\ integration.settled \in BOOLEAN
         /\ wizardFrame.seen \in 0 .. MaxSeen /\ wizardFrame.current \in BOOLEAN
         /\ wizardFrame.settled \in BOOLEAN /\ wizardFrame.corrected \in BOOLEAN
         /\ captureMarker \in 0 .. MaxSeen
BY WizardBoundsAssumption DEF WizardInv, WizardTypeOK, Opening

LEMMA TriggerInv == WizardInv /\ Trigger => WizardInv'
<1> SUFFICES ASSUME WizardInv, Trigger PROVE WizardInv'
  OBVIOUS
<1>1. /\ wizardOpen /\ step = "capture"
      /\ UnderWay < MaxAsked
      /\ busy' = TRUE /\ building' = FALSE /\ captureMarker' = wizardFrame.seen
      /\ captureError' = FALSE /\ asked' = [asked EXCEPT !["this"] = @ + 1]
      /\ integration' = [integration EXCEPT !.settled = wizardFrame.current]
      /\ wizardFrame' = [wizardFrame EXCEPT !.settled = wizardFrame # NoWizardFrame]
      /\ UNCHANGED <<wizardOpen, step, captured, baseline, fullscreen>>
      /\ DrawPreview
  BY DEF Trigger
<1>2. asked' \in [Opening -> 0 .. MaxAsked] /\ AskedBound'
  BY <1>1, AskedType DEF WizardInv, WizardTypeOK, Opening, AskedBound, UnderWay
<1>3. /\ integration' \in [seen : 0 .. MaxSeen, settled : BOOLEAN]
      /\ integration'.seen = integration.seen
      /\ integration'.settled = wizardFrame.current
  BY <1>1, AskedType DEF WizardInv, WizardTypeOK
<1>4. /\ wizardFrame' \in [seen : 0 .. MaxSeen, current : BOOLEAN, settled : BOOLEAN,
                            corrected : BOOLEAN]
      /\ wizardFrame'.seen = wizardFrame.seen
      /\ wizardFrame'.current = wizardFrame.current
  BY <1>1, AskedType DEF WizardInv, WizardTypeOK
<1>5. trace' \in {"none", "settled", "rebuilt"} /\ PreviewIsFresh'
  BY <1>1, Drawn
<1>6. WizardTypeOK'
  BY <1>1, <1>2, <1>3, <1>4, <1>5, AskedType DEF WizardInv, WizardTypeOK
<1>7. ScreenIsCurrent'
  BY <1>3, <1>4 DEF WizardInv, ScreenIsCurrent
<1>8. MarkerTells'
  BY <1>1, <1>3, AskedType DEF WizardInv, ScreenIsCurrent, MarkerTells
<1>9. CloseTellsTheTruth'
  BY <1>1 DEF WizardInv, CloseTellsTheTruth
<1> QED BY <1>2, <1>5, <1>6, <1>7, <1>8, <1>9 DEF WizardInv

LEMMA CaptureAnsweredInv ==
  ASSUME WizardInv, NEW o \in {"this", "earlier"}, Captured(o) \/ CaptureFailed(o)
  PROVE  WizardInv'
<1>1. /\ asked[o] > 0 /\ asked' = [asked EXCEPT ![o] = @ - 1] /\ busy' = FALSE
      /\ UNCHANGED <<wizardOpen, building, captureMarker, integration, wizardFrame>>
      /\ DrawPreview
  BY DEF Captured, CaptureFailed, receiverVars
<1>2. asked' \in [Opening -> 0 .. MaxAsked] /\ AskedBound'
  BY <1>1, AskedType DEF WizardInv, WizardTypeOK, Opening, AskedBound, UnderWay
<1>3. trace' \in {"none", "settled", "rebuilt"} /\ PreviewIsFresh'
  BY <1>1, Drawn DEF WizardInv, WizardTypeOK, MarkerTells
<1>4. ScreenIsCurrent' /\ MarkerTells'
  BY <1>1 DEF WizardInv, ScreenIsCurrent, MarkerTells
<1>5. CASE Captured(o)
  <2>1. /\ baseline' = TRUE /\ captured' = TRUE /\ step' = "done"
        /\ captureError' = captureError /\ fullscreen' \in BOOLEAN
    BY <1>5 DEF Captured, WizardInv, WizardTypeOK
  <2>2. WizardTypeOK' /\ CloseTellsTheTruth'
    BY <1>1, <1>2, <1>3, <2>1 DEF WizardInv, WizardTypeOK, CloseTellsTheTruth
  <2> QED BY <1>2, <1>3, <1>4, <2>2 DEF WizardInv
<1>6. CASE CaptureFailed(o)
  <2>1. captureError' = TRUE /\ UNCHANGED <<step, captured, baseline, fullscreen>>
    BY <1>6 DEF CaptureFailed, receiverVars
  <2>2. WizardTypeOK' /\ CloseTellsTheTruth'
    BY <1>1, <1>2, <1>3, <2>1 DEF WizardInv, WizardTypeOK, CloseTellsTheTruth
  <2> QED BY <1>2, <1>3, <1>4, <2>2 DEF WizardInv
<1> QED BY <1>5, <1>6

-----------------------------------------------------------------------------
(***************************************************************************)
(* The receiver and the screen.                                            *)
(***************************************************************************)
LEMMA FrameInv == WizardInv /\ WizardFrameArrives => WizardInv'
<1> SUFFICES ASSUME WizardInv, WizardFrameArrives PROVE WizardInv'
  OBVIOUS
<1> DEFINE next == NextSeen
<1>1. /\ integration' = [integration EXCEPT !.seen = next]
      /\ wizardFrame' = [seen |-> next, current |-> TRUE, settled |-> integration.settled,
                          corrected |-> baseline]
      /\ NoticeRebuild /\ DrawPreview
      /\ UNCHANGED <<wizardOpen, step, busy, captureError, captureMarker, captured,
                     asked, baseline, fullscreen>>
  BY DEF WizardFrameArrives
<1>2. next \in 1 .. MaxSeen /\ next >= integration.seen
  BY AskedType DEF NextSeen
<1> HIDE DEF next
<1>3. /\ integration' \in [seen : 0 .. MaxSeen, settled : BOOLEAN]
      /\ integration'.seen = next /\ integration'.settled = integration.settled
  BY <1>1, <1>2, AskedType DEF WizardInv, WizardTypeOK
<1>4. /\ wizardFrame' \in [seen : 0 .. MaxSeen, current : BOOLEAN, settled : BOOLEAN,
                            corrected : BOOLEAN]
      /\ wizardFrame'.seen = next /\ wizardFrame'.settled = integration.settled
  BY <1>1, <1>2, AskedType DEF WizardInv, WizardTypeOK
<1>5. building' \in BOOLEAN /\ (building' => ~integration.settled)
  BY <1>1, <1>2, <1>4, AskedType DEF WizardInv, WizardTypeOK, MarkerTells, NoticeRebuild
<1>6. trace' \in {"none", "settled", "rebuilt"} /\ PreviewIsFresh'
  BY <1>1, <1>4, <1>5, Drawn
<1>7. WizardTypeOK'
  BY <1>1, <1>3, <1>4, <1>5, <1>6 DEF WizardInv, WizardTypeOK
<1>8. ScreenIsCurrent'
  BY <1>2, <1>3, <1>4 DEF ScreenIsCurrent
<1>9. MarkerTells'
  BY <1>1, <1>2, <1>3, <1>4, <1>5, AskedType DEF WizardInv, MarkerTells
<1>10. AskedBound' /\ CloseTellsTheTruth'
  BY <1>1 DEF WizardInv, AskedBound, UnderWay, CloseTellsTheTruth
<1> QED BY <1>6, <1>7, <1>8, <1>9, <1>10 DEF WizardInv

LEMMA DropInv == WizardInv /\ WizardStreamDrops => WizardInv'
<1> SUFFICES ASSUME WizardInv, WizardStreamDrops PROVE WizardInv'
  OBVIOUS
<1>1. /\ wizardFrame' = NoWizardFrame /\ DrawPreview
      /\ UNCHANGED <<wizardOpen, step, busy, captureError, building, captureMarker,
                     captured, asked, integration, baseline, fullscreen>>
  BY DEF WizardStreamDrops
<1>2. /\ wizardFrame' \in [seen : 0 .. MaxSeen, current : BOOLEAN, settled : BOOLEAN,
                            corrected : BOOLEAN]
      /\ ~wizardFrame'.current /\ ~wizardFrame'.settled
  BY <1>1, AskedType DEF NoWizardFrame
<1>3. trace' \in {"none", "settled", "rebuilt"} /\ PreviewIsFresh'
  BY <1>1, Drawn DEF WizardInv, WizardTypeOK
<1>4. WizardTypeOK'
  BY <1>1, <1>2, <1>3 DEF WizardInv, WizardTypeOK
<1> QED BY <1>1, <1>2, <1>3, <1>4
        DEF WizardInv, ScreenIsCurrent, MarkerTells, AskedBound, UnderWay, CloseTellsTheTruth

LEMMA RestartInv == WizardInv /\ IntegrationRestarts => WizardInv'
<1> SUFFICES ASSUME WizardInv, IntegrationRestarts PROVE WizardInv'
  OBVIOUS
<1>1. /\ integration' = [seen |-> 0, settled |-> FALSE]
      /\ wizardFrame' = [wizardFrame EXCEPT !.current = FALSE]
      /\ UNCHANGED <<wizardOpen, step, busy, captureError, building, captureMarker,
                     captured, trace, asked, baseline, fullscreen>>
  BY DEF IntegrationRestarts, dialogVars
<1>2. /\ wizardFrame' \in [seen : 0 .. MaxSeen, current : BOOLEAN, settled : BOOLEAN,
                            corrected : BOOLEAN]
      /\ ~wizardFrame'.current /\ wizardFrame'.settled = wizardFrame.settled
  BY <1>1 DEF WizardInv, WizardTypeOK
<1>3. /\ integration' \in [seen : 0 .. MaxSeen, settled : BOOLEAN]
      /\ ~integration'.settled
  BY <1>1, AskedType
<1>4. WizardTypeOK'
  BY <1>1, <1>2, <1>3 DEF WizardInv, WizardTypeOK
<1> QED BY <1>1, <1>2, <1>3, <1>4
        DEF WizardInv, ScreenIsCurrent, MarkerTells, AskedBound, UnderWay, CloseTellsTheTruth,
            PreviewIsFresh

\* A frame that the page does not get, and the answer to a page that is gone.
LEMMA UnseenInv == WizardInv /\ FrameUnseen => WizardInv'
<1> SUFFICES ASSUME WizardInv, FrameUnseen PROVE WizardInv'
  OBVIOUS
<1>1. /\ wizardFrame = NoWizardFrame
      /\ integration' = [integration EXCEPT !.seen = NextSeen]
      /\ UNCHANGED <<dialogVars, asked, baseline, wizardFrame, fullscreen>>
  BY DEF FrameUnseen
<1>2. NextSeen \in 0 .. MaxSeen /\ NextSeen >= integration.seen
  BY AskedType DEF NextSeen
<1>3. /\ integration' \in [seen : 0 .. MaxSeen, settled : BOOLEAN]
      /\ integration'.seen = NextSeen /\ integration'.settled = integration.settled
  BY <1>1, <1>2, AskedType DEF WizardInv, WizardTypeOK
<1>4. WizardTypeOK'
  BY <1>1, <1>3 DEF dialogVars, WizardInv, WizardTypeOK
<1>5. ScreenIsCurrent' /\ MarkerTells'
  BY <1>1, <1>2, <1>3, AskedType
     DEF dialogVars, NoWizardFrame, WizardInv, WizardTypeOK, ScreenIsCurrent, MarkerTells
<1> QED BY <1>1, <1>4, <1>5
        DEF dialogVars, WizardInv, AskedBound, UnderWay, CloseTellsTheTruth, PreviewIsFresh

LEMMA NobodyInv == WizardInv /\ AnsweredToNobody => WizardInv'
<1> SUFFICES ASSUME WizardInv, AnsweredToNobody PROVE WizardInv'
  OBVIOUS
<1>1. /\ asked["gone"] > 0 /\ asked' = [asked EXCEPT !["gone"] = @ - 1]
      /\ baseline' \in BOOLEAN
      /\ UNCHANGED <<dialogVars, integration, wizardFrame, fullscreen>>
  BY DEF AnsweredToNobody, WizardInv, WizardTypeOK
<1>2. asked' \in [Opening -> 0 .. MaxAsked] /\ AskedBound'
  BY <1>1, AskedType DEF WizardInv, WizardTypeOK, Opening, AskedBound, UnderWay
<1>3. WizardTypeOK'
  BY <1>1, <1>2 DEF dialogVars, WizardInv, WizardTypeOK
<1> QED BY <1>1, <1>2, <1>3
        DEF dialogVars, WizardInv, CloseTellsTheTruth, PreviewIsFresh, ScreenIsCurrent,
            MarkerTells

\* The dialog goes with the page, and leaves its captures to nobody.
LEMMA UnmountInv == WizardInv /\ WizardUnmounts => WizardInv'
<1> SUFFICES ASSUME WizardInv, WizardUnmounts PROVE WizardInv'
  OBVIOUS
<1>1. UnderWay \in 0 .. MaxAsked
  BY AskedType DEF WizardInv, AskedBound, UnderWay
<1>2. asked' = [o \in Opening |-> IF o = "gone" THEN UnderWay ELSE 0]
  BY DEF WizardUnmounts
<1>3. asked' \in [Opening -> 0 .. MaxAsked]
  BY <1>1, <1>2, AskedType
<1>4. UnderWay' = UnderWay
  <2>1. asked'["this"] = 0 /\ asked'["earlier"] = 0 /\ asked'["gone"] = UnderWay
    BY <1>2 DEF Opening
  <2>2. UnderWay' = asked'["this"] + asked'["earlier"] + asked'["gone"]
    BY DEF UnderWay
  <2> QED BY <1>1, <2>1, <2>2
<1>5. NoWizardFrame \in [seen : 0 .. MaxSeen, current : BOOLEAN, settled : BOOLEAN,
                         corrected : BOOLEAN]
  BY AskedType DEF NoWizardFrame
<1>6. WizardTypeOK'
  <2>1. wizardFrame' = NoWizardFrame /\ UNCHANGED <<integration, baseline>>
    BY DEF WizardUnmounts
  <2>2. captureMarker' \in 0 .. MaxSeen
    BY AskedType DEF WizardUnmounts
  <2>3. /\ wizardOpen' \in BOOLEAN /\ step' \in {"intro", "pick", "capture", "done"}
        /\ busy' \in BOOLEAN /\ captureError' \in BOOLEAN /\ building' \in BOOLEAN
        /\ captured' \in BOOLEAN /\ fullscreen' \in BOOLEAN
        /\ trace' \in {"none", "settled", "rebuilt"}
    BY DEF WizardUnmounts
  <2> QED BY <1>3, <1>5, <2>1, <2>2, <2>3 DEF WizardInv, WizardTypeOK
<1>7. AskedBound'
  BY <1>4 DEF WizardInv, AskedBound
<1>8. ScreenIsCurrent' /\ MarkerTells' /\ PreviewIsFresh' /\ CloseTellsTheTruth'
  BY DEF WizardUnmounts, NoWizardFrame, ScreenIsCurrent, MarkerTells, PreviewIsFresh,
         CloseTellsTheTruth
<1> QED BY <1>6, <1>7, <1>8 DEF WizardInv

\* Steps that leave the dialog and the integration alone.
LEMMA AsideInv ==
  ASSUME WizardInv, ScreenTaken \/ ScreenLeft \/ BaselineLost \/ UNCHANGED wizardVars
  PROVE  WizardInv'
<1>1. /\ UNCHANGED <<dialogVars, asked, integration, wizardFrame>>
      /\ baseline' \in BOOLEAN /\ fullscreen' \in BOOLEAN
  BY DEF ScreenTaken, ScreenLeft, BaselineLost, wizardVars, receiverVars, WizardInv,
         WizardTypeOK
<1> QED BY <1>1 DEF dialogVars, WizardInv, WizardTypeOK, ScreenIsCurrent, MarkerTells,
                    AskedBound, UnderWay, CloseTellsTheTruth, PreviewIsFresh

LEMMA ReceiverInv == WizardInv /\ ReceiverGoesOn => WizardInv'
BY RestartInv, NobodyInv, UnseenInv, AsideInv DEF ReceiverGoesOn

LEMMA InsideInv == WizardInv /\ WizardInside => WizardInv'
<1>1. WizardInv /\ (ChooseCapture \/ ConfirmPick \/ BackToPick) => WizardInv'
  BY TurnInv DEF ChooseCapture, ConfirmPick, BackToPick
<1> QED BY <1>1, TriggerInv, CaptureAnsweredInv, FrameInv, DropInv, ReceiverInv, AsideInv
        DEF WizardInside

\* Inside the dialog it stays open or closed.
LEMMA InsideStays == WizardInside \/ ReceiverGoesOn => wizardOpen' = wizardOpen
BY DEF WizardInside, ReceiverGoesOn, AnsweredToNobody, FrameUnseen, ChooseCapture, ConfirmPick, BackToPick, TurnTo, Trigger, ScreenTaken,
       ScreenLeft, Captured, CaptureFailed, IntegrationRestarts, WizardFrameArrives,
       WizardStreamDrops, BaselineLost, dialogVars

-----------------------------------------------------------------------------
(***************************************************************************)
(* The tours.                                                              *)
(***************************************************************************)
TourInv ==
  /\ controlled \in BOOLEAN
  /\ tour \in Tours /\ offerDue \in BOOLEAN /\ seen \in BOOLEAN /\ handedOver \in BOOLEAN
  /\ onButton \in [running : BOOLEAN, left : 0 .. MaxLeft]
  /\ armed \in 0 .. MaxArmed

LEMMA Joined == GuidedInv <=> WizardInv /\ TourInv
BY DEF GuidedInv, WizardInv, TourInv, GuidedTypeOK

LEMMA JoinedNext == WizardInv' /\ TourInv' => GuidedInv'
BY DEF GuidedInv, WizardInv, TourInv, GuidedTypeOK

LEMMA GuidedInitInv == GuidedInit => GuidedInv
<1> SUFFICES ASSUME GuidedInit PROVE WizardInv /\ TourInv
  BY Joined
<1>1. MaxAsked \in Nat /\ MaxSeen \in Nat /\ MaxLeft \in Nat /\ MaxArmed \in Nat
  BY WizardBoundsAssumption, GuideBoundsAssumption
<1>2. NoWizardFrame \in [seen : 0 .. MaxSeen, current : BOOLEAN, settled : BOOLEAN,
                         corrected : BOOLEAN]
  BY <1>1 DEF NoWizardFrame
<1>3. WizardTypeOK
  <2>1. asked = [o \in Opening |-> 0]
    BY DEF GuidedInit, WizardInit
  <2>2. asked \in [Opening -> 0 .. MaxAsked]
    BY <1>1, <2>1
  <2>3. integration \in [seen : 0 .. MaxSeen, settled : BOOLEAN]
    BY <1>1 DEF GuidedInit, WizardInit
  <2>4. captureMarker \in 0 .. MaxSeen
    BY <1>1 DEF GuidedInit, WizardInit
  <2> QED BY <1>2, <2>2, <2>3, <2>4 DEF GuidedInit, WizardInit, WizardTypeOK
<1>4. WizardInv
  <2>1. asked["this"] = 0 /\ asked["earlier"] = 0 /\ asked["gone"] = 0
    BY DEF GuidedInit, WizardInit, Opening
  <2>2. AskedBound
    BY <1>1, <2>1 DEF AskedBound, UnderWay
  <2>3. ScreenIsCurrent /\ MarkerTells /\ PreviewIsFresh /\ CloseTellsTheTruth
    BY DEF GuidedInit, WizardInit, NoWizardFrame, ScreenIsCurrent, MarkerTells,
           PreviewIsFresh, CloseTellsTheTruth
  <2> QED BY <1>3, <2>2, <2>3 DEF WizardInv
<1>5. NoHandler \in [running : BOOLEAN, left : 0 .. MaxLeft]
  BY <1>1 DEF NoHandler
<1>6. armed \in 0 .. MaxArmed
  BY <1>1 DEF GuidedInit
<1>7. TourInv
  BY <1>5, <1>6 DEF GuidedInit, TourInv, Tours
<1> QED BY <1>4, <1>7

\* Steps of a tour that leave the dialog alone.
LEMMA TourStep ==
  ASSUME GuidedInv,
         \/ OfferTour \/ \E forGood \in BOOLEAN : DeclineOffer(forGood)
         \/ BeginControls \/ BeginGuided \/ BeginSpectrumTour
         \/ ShowBaselineStep \/ BackToLiveSignal \/ EndTour
         \/ UNCHANGED guidedVars
  PROVE  GuidedInv'
<1>1. WizardInv /\ TourInv /\ MaxLeft \in Nat
  BY Joined, GuideBoundsAssumption
<1>2. UNCHANGED wizardVars /\ UNCHANGED <<controlled, armed, handedOver>>
  BY DEF OfferTour, DeclineOffer, BeginControls, BeginGuided, BeginSpectrumTour,
         ShowBaselineStep, BackToLiveSignal, EndTour, guidedVars, tourVars
<1>3. WizardInv' /\ wizardOpen' = wizardOpen
  BY <1>1, <1>2, AsideInv DEF wizardVars, dialogVars
<1>4. tour' \in Tours /\ offerDue' \in BOOLEAN /\ seen' \in BOOLEAN
  BY <1>1 DEF TourInv, Tours, OfferTour, DeclineOffer, BeginControls, BeginGuided,
              BeginSpectrumTour, StartGuided, ShowBaselineStep, BackToLiveSignal, EndTour,
              guidedVars, tourVars
<1>5. onButton' \in [running : BOOLEAN, left : 0 .. MaxLeft]
  <2>1. CASE ShowBaselineStep
    BY <1>1, <2>1 DEF ShowBaselineStep, PromptShown, TourInv, GuidedInv, GuidedTypeOK,
                      WizardTypeOK
  <2>2. CASE EndTour
    <3>1. onButton.running => onButton.left + 1 \in 0 .. MaxLeft
      BY <1>1, <2>2 DEF EndTour, TourInv
    <3> QED BY <1>1, <2>2, <3>1 DEF EndTour, TourInv
  <2>3. CASE UNCHANGED onButton
    BY <1>1, <2>3 DEF TourInv
  <2> QED BY <2>1, <2>2, <2>3
          DEF OfferTour, DeclineOffer, BeginControls, BeginGuided, BeginSpectrumTour,
              BackToLiveSignal, guidedVars, tourVars
<1>6. TourInv'
  BY <1>1, <1>2, <1>3, <1>4, <1>5 DEF TourInv
<1> QED BY <1>3, <1>6, JoinedNext

\* The capture button arms the lead-ins that are on it, up to the bound.
LEMMA ClickInv == GuidedInv /\ (ClickCapture \/ ClickRecapture) => GuidedInv'
<1> SUFFICES ASSUME GuidedInv, ClickCapture \/ ClickRecapture PROVE GuidedInv'
  OBVIOUS
<1>1. WizardInv /\ TourInv /\ MaxLeft \in Nat /\ MaxArmed \in Nat
  BY Joined, GuideBoundsAssumption
<1>2. OpenWizard /\ controlled' = controlled
  BY DEF ClickCapture, ClickRecapture
<1>3. armed' \in 0 .. MaxArmed
  <2>1. onButton.left \in 0 .. MaxLeft /\ armed \in 0 .. MaxArmed
    BY <1>1 DEF TourInv
  <2>2. CASE ClickCapture
    <3>1. armed' <= MaxArmed
      BY <2>2 DEF ClickCapture
    <3>2. CASE onButton.running
      <4>1. armed' = armed + onButton.left + 1
        BY <2>2, <3>2 DEF ClickCapture
      <4> QED BY <1>1, <2>1, <3>1, <4>1
    <3>3. CASE ~onButton.running
      <4>1. armed' = armed + onButton.left + 0
        BY <2>2, <3>3 DEF ClickCapture
      <4> QED BY <1>1, <2>1, <3>1, <4>1
    <3> QED BY <3>2, <3>3
  <2>3. CASE ClickRecapture
    BY <2>1, <2>3 DEF ClickRecapture
  <2> QED BY <2>2, <2>3
<1>4. onButton' \in [running : BOOLEAN, left : 0 .. MaxLeft]
  <2>1. NoHandler \in [running : BOOLEAN, left : 0 .. MaxLeft]
    BY <1>1 DEF NoHandler
  <2>2. onButton' \in {NoHandler, onButton}
    BY DEF ClickCapture, ClickRecapture
  <2> QED BY <1>1, <2>1, <2>2 DEF TourInv
<1>5. /\ tour' \in Tours /\ offerDue' \in BOOLEAN /\ seen' \in BOOLEAN
      /\ handedOver' \in BOOLEAN
  BY <1>1 DEF ClickCapture, ClickRecapture, TourInv, Tours
<1>6. TourInv'
  BY <1>1, <1>2, <1>3, <1>4, <1>5 DEF TourInv
<1> QED BY <1>1, <1>2, <1>6, OpenWizardInv, JoinedNext

LEMMA CloseWizardInv == GuidedInv /\ CloseWizard => GuidedInv'
<1> SUFFICES ASSUME GuidedInv, CloseWizard PROVE GuidedInv'
  OBVIOUS
<1>1. WizardInv /\ TourInv /\ MaxArmed \in Nat
  BY Joined, GuideBoundsAssumption
<1>2. WizardInv'
  BY <1>1, CloseDialogInv DEF CloseWizard, Dismiss, PickLeft
<1>3. armed' \in 0 .. MaxArmed
  BY <1>1 DEF CloseWizard, ReportClosed
<1>4. tour' \in Tours /\ UNCHANGED <<controlled, offerDue, seen, onButton, handedOver>>
  BY <1>1 DEF CloseWizard, ReportClosed, TourInv, Tours
<1>5. TourInv'
  BY <1>1, <1>3, <1>4 DEF TourInv
<1> QED BY <1>2, <1>5, JoinedNext

LEMMA MovesInv == GuidedInv /\ WizardMoves => GuidedInv'
<1> SUFFICES ASSUME GuidedInv, WizardMoves PROVE GuidedInv'
  OBVIOUS
<1>1. WizardInv /\ TourInv /\ MaxLeft \in Nat
  BY Joined, GuideBoundsAssumption
<1>2. WizardInv'
  BY <1>1, InsideInv, ReceiverInv DEF WizardMoves
<1>3. onButton' \in [running : BOOLEAN, left : 0 .. MaxLeft]
  BY <1>1 DEF WizardMoves, NoHandler, TourInv
<1>4. TourInv'
  BY <1>1, <1>3 DEF WizardMoves, TourInv
<1> QED BY <1>2, <1>4, JoinedNext

\* The controls go and come: only what hangs on the window stays.
LEMMA LeaseInv == GuidedInv /\ (ControlsLeave \/ ControlsReturn) => GuidedInv'
<1> SUFFICES ASSUME GuidedInv, ControlsLeave \/ ControlsReturn PROVE GuidedInv'
  OBVIOUS
<1>1. WizardInv /\ TourInv /\ MaxLeft \in Nat
  BY Joined, GuideBoundsAssumption
<1>2. WizardInv'
  BY <1>1, UnmountInv, AsideInv DEF ControlsLeave, ControlsReturn
<1>3. NoHandler \in [running : BOOLEAN, left : 0 .. MaxLeft]
  BY <1>1 DEF NoHandler
<1>4. TourInv'
  BY <1>1, <1>3 DEF ControlsLeave, ControlsReturn, TourInv
<1> QED BY <1>2, <1>4, JoinedNext

LEMMA GuidedNextInv == GuidedInv /\ [GuidedNext]_guidedVars => GuidedInv'
BY TourStep, ClickInv, CloseWizardInv, MovesInv, LeaseInv DEF GuidedNext

LEMMA GuidedInvHolds == GuidedSpec => []GuidedInv
BY GuidedInitInv, GuidedNextInv, PTL DEF GuidedSpec

\* The types of the dialog (BaselineWizard) and of the tours around it.
THEOREM GuidedTypes == GuidedSpec => []GuidedTypeOK
<1>1. GuidedInv => GuidedTypeOK
  BY DEF GuidedInv
<1> QED BY <1>1, GuidedInvHolds, PTL

(***************************************************************************)
(* The done page and the capture that the close will report go together,   *)
(* whatever answers come of earlier openings (BaselineWizard, capture).    *)
(***************************************************************************)
THEOREM CloseIsTruthful == GuidedSpec => []CloseTellsTheTruth
<1>1. GuidedInv => CloseTellsTheTruth
  BY DEF GuidedInv
<1> QED BY <1>1, GuidedInvHolds, PTL

\* The preview never draws the integration that was there before the press of
\* Trigger (the freshness effect of BaselineWizard).
THEOREM PreviewStartsAnew == GuidedSpec => []PreviewIsFresh
<1>1. GuidedInv => PreviewIsFresh
  BY DEF GuidedInv
<1> QED BY <1>1, GuidedInvHolds, PTL

-----------------------------------------------------------------------------
(***************************************************************************)
(* A close of the dialog takes every handler of armMilkyWayResume with it, *)
(* so that none waits on for a later capture, unless the dialog goes with  *)
(* the controls (App, ControlUI), when it sends no close.                  *)
(***************************************************************************)
THEOREM GuidesLoseTheirDialogToLeaseOnly == GuidedSpec => OnlyLeaseStrandsGuides
<1>1. ResumeWaitsForThisDialog /\ [GuidedNext /\ controlled']_guidedVars
        => ResumeWaitsForThisDialog'
  <2> SUFFICES ASSUME ResumeWaitsForThisDialog, [GuidedNext /\ controlled']_guidedVars
               PROVE  ResumeWaitsForThisDialog'
    OBVIOUS
  <2>1. CASE ClickCapture \/ ClickRecapture
    BY <2>1 DEF ClickCapture, ClickRecapture, OpenWizard, ResumeWaitsForThisDialog
  <2>2. CASE CloseWizard
    BY <2>2 DEF CloseWizard, ReportClosed, ResumeWaitsForThisDialog
  <2>3. CASE WizardMoves
    <3>1. UNCHANGED <<wizardOpen, armed>>
      BY <2>3, InsideStays DEF WizardMoves
    <3> QED BY <3>1 DEF ResumeWaitsForThisDialog
  <2>4. CASE UNCHANGED <<wizardOpen, armed>>
    BY <2>4 DEF ResumeWaitsForThisDialog
  <2>5. ASSUME \/ OfferTour \/ \E forGood \in BOOLEAN : DeclineOffer(forGood)
               \/ BeginControls \/ BeginGuided \/ BeginSpectrumTour
               \/ ShowBaselineStep \/ BackToLiveSignal \/ EndTour \/ ControlsReturn
               \/ UNCHANGED guidedVars
        PROVE  UNCHANGED <<wizardOpen, armed>>
    <3>1. UNCHANGED wizardVars /\ UNCHANGED armed
      BY <2>5 DEF OfferTour, DeclineOffer, BeginControls, BeginGuided, BeginSpectrumTour,
                  ShowBaselineStep, BackToLiveSignal, EndTour, ControlsReturn, guidedVars,
                  tourVars
    <3> QED BY <3>1 DEF wizardVars, dialogVars
  <2>6. ~(ControlsLeave /\ controlled')
    BY DEF ControlsLeave
  <2>7. \/ ClickCapture \/ ClickRecapture \/ CloseWizard \/ WizardMoves
        \/ UNCHANGED <<wizardOpen, armed>>
    <3>1. CASE GuidedNext /\ controlled'
      BY <2>5, <2>6, <3>1 DEF GuidedNext
    <3>2. CASE UNCHANGED guidedVars
      BY <2>5, <3>2
    <3> QED BY <3>1, <3>2
  <2> QED BY <2>1, <2>2, <2>3, <2>4, <2>7
<1>2. [GuidedNext]_guidedVars
        => [ResumeWaitsForThisDialog /\ controlled' => ResumeWaitsForThisDialog']_guidedVars
  BY <1>1
<1> QED BY <1>2, PTL DEF GuidedSpec, OnlyLeaseStrandsGuides
=============================================================================

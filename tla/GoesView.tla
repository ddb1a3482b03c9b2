------------------------------ MODULE GoesView ------------------------------
(***************************************************************************)
(* The page in GOES mode: the state of the downlink and the nudge that     *)
(* reopens a stalled demodulator (lib/useGoesStream.ts), the panel that    *)
(* leads to the satellite (components/goes/GoesConnectPanel.tsx,           *)
(* lib/goes.ts) and the archive of decoded products                        *)
(* (components/goes/GoesDataExplorer.tsx).                                 *)
(*                                                                         *)
(* The socket below the stream is that of JsonSocket.  The archive is a    *)
(* version that grows to MaxArchive; a listing is the version it was made  *)
(* of, and version 0 is empty.                                             *)
(***************************************************************************)
EXTENDS Integers

CONSTANTS
  MaxArchive,   \* bound: versions of the archive
  MaxPoints     \* SNR_HISTORY_POINTS

ASSUME GoesBoundsAssumption == MaxArchive \in Nat /\ MaxPoints \in Nat \ {0}

Stages == {"searching", "signal", "frames", "data"}

VARIABLES
  goesStatus,     \* of the last poll: the mode, or why there is none
  stage,          \* of the latest frame
  aged,           \* that frame is older than STALE_FRAME_S
  agedSeen,       \* what the last render made of that
  goesNudging,    \* the loop of reconnect requests runs
  nudges,         \* requests under way: of the loop that runs, of ended ones
  points,         \* length of the SNR history
  plotted,        \* it has the latest frame
  archive,        \* the products at the platform
  listings,       \* answers under way to the explorer
  refreshing,
  listed,         \* the listing on screen
  productFilter,
  lightbox        \* the product that is open, and whether its text is there

streamVars == <<goesStatus, stage, aged, agedSeen, goesNudging, nudges, points, plotted>>
explorerVars == <<archive, listings, refreshing, listed, productFilter, lightbox>>
goesVars == <<streamVars, explorerVars>>

GoesTypeOK ==
  /\ goesStatus \in {"none", "unreachable", "disabled", "running", "fault"}
  /\ stage \in Stages \cup {"none"}
  /\ aged \in BOOLEAN
  /\ agedSeen \in BOOLEAN
  /\ goesNudging \in BOOLEAN
  /\ nudges \in [running : BOOLEAN, ended : BOOLEAN]
  /\ points \in 0 .. MaxPoints
  /\ plotted \in BOOLEAN
  /\ archive \in 0 .. MaxArchive
  /\ listings \in SUBSET (0 .. MaxArchive)
  /\ refreshing \in BOOLEAN
  /\ listed \in 0 .. MaxArchive
  /\ productFilter \in {"all", "image", "text"}
  /\ lightbox \in {"closed", "image", "preview", "text"}

\* The explorer asks for a listing as it is mounted.
GoesInit ==
  /\ goesStatus = "none"
  /\ stage = "none"
  /\ aged = FALSE
  /\ agedSeen = FALSE
  /\ goesNudging = FALSE
  /\ nudges = [running |-> FALSE, ended |-> FALSE]
  /\ points = 0
  /\ plotted = FALSE
  /\ archive \in 0 .. MaxArchive
  /\ listings = {archive}
  /\ refreshing = TRUE
  /\ listed = 0
  /\ productFilter = "all"
  /\ lightbox = "closed"

Enabled(s) == s \in {"running", "fault"}

\* Frame sync is achieved; the rank of the acquisition ladder.
Locked == stage \in {"frames", "data"}

\* The condition of the recovery effect.
Stalled(s, old) == Enabled(s) /\ (s = "fault" \/ old)

\* The scope of the signal history takes up a frame it has not seen.
PlotHistory ==
  /\ points' = IF plotted \/ stage = "none" \/ points = MaxPoints THEN points ELSE points + 1
  /\ plotted' = (plotted \/ stage # "none")
-----------------------------------------------------------------------------
(***************************************************************************)
(* The downlink.                                                           *)
(***************************************************************************)
\* The effect with the mode of the status as its only dependency.
RecoverByMode(s, old) ==
  LET changed == <<Enabled(s), s>> # <<Enabled(goesStatus), goesStatus>>
      cancelled == IF changed THEN nudges.running \/ nudges.ended ELSE nudges.ended
  IN  /\ goesNudging' = IF changed THEN Stalled(s, old) ELSE goesNudging
      /\ nudges' = [running |-> IF changed THEN goesNudging' ELSE nudges.running,
                    ended |-> cancelled]

\* The effect after a render with status s and a frame that is old or not: a change
\* of a dependency ends the loop, and starts it anew with a request at once.
Recover(s, old) ==
  LET changed == <<Enabled(s), s, old>> # <<Enabled(goesStatus), goesStatus, agedSeen>>
      cancelled == IF changed THEN nudges.running \/ nudges.ended ELSE nudges.ended
  IN  /\ goesNudging' = IF changed THEN Stalled(s, old) ELSE goesNudging
      /\ nudges' = [running |-> IF changed THEN goesNudging' ELSE nudges.running,
                    ended |-> cancelled]

\* The answer to a poll, or its failure, is stored as a new object: a render.
StreamPolled(s) ==
  /\ goesStatus' = s
  /\ agedSeen' = aged
  /\ Recover(s, aged)
  /\ PlotHistory
  /\ UNCHANGED <<stage, aged, explorerVars>>

\* A frame arrives.
GoesFrameArrives(s) ==
  /\ stage' = s
  /\ aged' = FALSE
  /\ agedSeen' = FALSE
  /\ Recover(goesStatus, FALSE)
  /\ points' = IF points = MaxPoints THEN points ELSE points + 1
  /\ plotted' = TRUE
  /\ UNCHANGED <<goesStatus, explorerVars>>

\* Time goes by without one; nothing renders.
FrameAges ==
  /\ stage # "none"
  /\ ~aged
  /\ aged' = TRUE
  /\ UNCHANGED <<goesStatus, stage, agedSeen, goesNudging, nudges, points, plotted, explorerVars>>

\* The interval of the loop, unless its request is still under way.
Nudge ==
  /\ goesNudging
  /\ ~nudges.running
  /\ nudges' = [nudges EXCEPT !.running = TRUE]
  /\ UNCHANGED <<goesStatus, stage, aged, agedSeen, goesNudging, points, plotted, explorerVars>>

\* The answer to a request, good or bad.
NudgeAnswered(loop) ==
  /\ nudges[loop]
  /\ nudges' = [nudges EXCEPT ![loop] = FALSE]
  /\ UNCHANGED <<goesStatus, stage, aged, agedSeen, goesNudging, points, plotted, explorerVars>>
-----------------------------------------------------------------------------
(***************************************************************************)
(* The explorer.                                                           *)
(***************************************************************************)
ProductDecoded ==
  /\ archive < MaxArchive
  /\ archive' = archive + 1
  /\ UNCHANGED <<streamVars, listings, refreshing, listed, productFilter, lightbox>>

\* The interval asks again whatever is under way, the button only when nothing is.
Refresh ==
  /\ refreshing' = TRUE
  /\ listings' = listings \cup {archive}
  /\ UNCHANGED <<streamVars, archive, listed, productFilter, lightbox>>

\* An answer, in whatever order.
ListingArrives(v) ==
  /\ v \in listings
  /\ listings' = listings \ {v}
  /\ listed' = v
  /\ refreshing' = FALSE
  /\ UNCHANGED <<streamVars, archive, productFilter, lightbox>>

\* A blip: the listing stays.
ListingFails(v) ==
  /\ v \in listings
  /\ listings' = listings \ {v}
  /\ refreshing' = FALSE
  /\ UNCHANGED <<streamVars, archive, listed, productFilter, lightbox>>

\* The explorer is on screen.
ExplorerShown == Locked \/ listed > 0

PickFilter(kind) ==
  /\ ExplorerShown
  /\ lightbox = "closed"
  /\ productFilter' = kind
  /\ UNCHANGED <<streamVars, archive, listings, refreshing, listed, lightbox>>

\* A product of the gallery; a text shows its preview first.
OpenProduct(kind) ==
  /\ listed > 0
  /\ lightbox = "closed"
  /\ productFilter \in {"all", kind}
  /\ lightbox' = IF kind = "image" THEN "image" ELSE "preview"
  /\ UNCHANGED <<streamVars, archive, listings, refreshing, listed, productFilter>>

TextArrives ==
  /\ lightbox = "preview"
  /\ lightbox' = "text"
  /\ UNCHANGED <<streamVars, archive, listings, refreshing, listed, productFilter>>

CloseProduct ==
  /\ lightbox # "closed"
  /\ lightbox' = "closed"
  /\ UNCHANGED <<streamVars, archive, listings, refreshing, listed, productFilter>>

DownlinkNext ==
  \/ \E s \in {"unreachable", "disabled", "running", "fault"} : StreamPolled(s)
  \/ \E s \in Stages : GoesFrameArrives(s)
  \/ FrameAges \/ Nudge \/ \E loop \in {"running", "ended"} : NudgeAnswered(loop)

ExplorerNext ==
  \/ ProductDecoded \/ Refresh
  \/ \E v \in 0 .. MaxArchive : ListingArrives(v) \/ ListingFails(v)
  \/ \E kind \in {"all", "image", "text"} : PickFilter(kind)
  \/ \E kind \in {"image", "text"} : OpenProduct(kind)
  \/ TextArrives \/ CloseProduct

GoesNext == DownlinkNext \/ ExplorerNext

\* Polls are answered, if only with the status the page knows.
PolledAgain == goesStatus # "none" /\ StreamPolled(goesStatus)

GoesFairness ==
  /\ WF_goesVars(PolledAgain)
  /\ WF_goesVars(Nudge)

GoesSpec == GoesInit /\ [][GoesNext]_goesVars /\ GoesFairness
-----------------------------------------------------------------------------
DownlinkUnattended ==
  stage # "none" /\ aged /\ goesStatus = "running" /\ ~nudges.running

\* A downlink whose frames stop is noticed, by the next poll that says the pipeline
\* should run, and a reconnect is asked for; unless frames come again.
StoppedDownlinkReopened == DownlinkUnattended ~> ~DownlinkUnattended
=============================================================================

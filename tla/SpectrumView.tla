---------------------------- MODULE SpectrumView ----------------------------
(***************************************************************************)
(* The live hydrogen spectrum (components/SpectrumPanel): frames of the    *)
(* /ws/spectrum stream, thinned to one per animation frame, drawn by a     *)
(* chart that is made once and by a waterfall that scrolls.                *)
(*                                                                         *)
(* A frame is told apart by the connection it came over (a bit that flips  *)
(* at every open) and by its layout: what the colour scale depends on,     *)
(* such as the baseline correction.  `status` is what SpectrumStatus last  *)
(* stored; here it may change to anything at any time.                     *)
(***************************************************************************)
EXTENDS JsonSocket

CONSTANT Layout     \* FFT layouts and baseline states of frames

NoFrame == [link |-> 0, layout |-> "none"]

ASSUME LayoutAssumption == "none" \notin Layout

\* What a status says to this panel: nothing yet; the SDR is off, or the poll
\* failed; it is on without a first frame; it is on and has frames.
ViewStatus == {"unknown", "off", "no frames", "frames"}

VARIABLES
  panelOn,        \* the `enabled` option of the panel
  viewStatus,     \* the status of useSpectrumStatus
  link,           \* the connection that is open, or was last
  frame,          \* the frame in the state of the component
  pending,        \* pendingFrameRef.current
  raf,            \* an animation frame is requested (flushRafRef)
  chartBox,       \* the element the chart and the waterfall are drawn in
  rows,           \* the frames whose rows the waterfall shows
  waterfallSig    \* waterfallSigRef.current

viewVars ==
  <<panelOn, viewStatus, link, frame, pending, raf, chartBox, rows, waterfallSig>>

spectrumVars == <<socketVars, viewVars>>

Frame == [link : {0, 1}, layout : Layout]

SpectrumTypeOK ==
  /\ SocketTypeOK
  /\ panelOn \in BOOLEAN
  /\ viewStatus \in ViewStatus
  /\ link \in {0, 1}
  /\ frame \in Frame \cup {NoFrame}
  /\ pending \in Frame \cup {NoFrame}
  /\ raf \in BOOLEAN
  /\ chartBox \in {"original", "gone", "replaced"}
  /\ rows \in SUBSET Frame
  /\ waterfallSig \in Layout \cup {"none"}

SpectrumInit ==
  /\ SocketInit
  /\ panelOn = FALSE
  /\ viewStatus = "unknown"
  /\ link = 0
  /\ frame = NoFrame
  /\ pending = NoFrame
  /\ raf = FALSE
  /\ chartBox = "original"
  /\ rows = {}
  /\ waterfallSig = "none"
-----------------------------------------------------------------------------
\* The `enabled` option the panel gives its socket.
Wants == panelOn /\ viewStatus # "off"

\* An effect of the socket hook runs whenever its option has changed.
Settled == wanted = Wants

\* A way of emptying the view that leaves the frame queued for display.
ClearShownOnly ==
  /\ frame' = NoFrame
  /\ waterfallSig' = "none"
  /\ UNCHANGED pending

\* A way of emptying the view without resetWaterfall.
ClearNoWaterfall ==
  /\ frame' = NoFrame
  /\ pending' = NoFrame
  /\ UNCHANGED waterfallSig

\* resetWaterfall: the next row is painted on a wiped canvas.
ClearView ==
  /\ frame' = NoFrame
  /\ pending' = NoFrame
  /\ waterfallSig' = "none"

\* The effect that empties the view, after a commit with `connected` = up and
\* the status `next`: it runs when either has changed, and lets a connected
\* stream with frames be.
AfterCommit(up, next) ==
  IF (up # connected \/ next # viewStatus) /\ ~(up /\ next # "no frames")
  THEN ClearView
  ELSE UNCHANGED <<frame, pending, waterfallSig>>
-----------------------------------------------------------------------------
\* useAfterInitialPaint and useObservationMode let the panel start.
PanelStarts ==
  /\ ~panelOn
  /\ panelOn' = TRUE
  /\ UNCHANGED <<socketVars, viewStatus, link, frame, pending, raf, chartBox, rows,
                 waterfallSig>>

SocketStarts ==
  /\ Wants
  /\ Enable
  /\ UNCHANGED viewVars

SocketStops ==
  /\ ~Wants
  /\ Disable
  /\ UNCHANGED viewVars

Reconnects ==
  /\ Settled
  /\ TimerFires
  /\ UNCHANGED viewVars

StreamOpens(s) ==
  /\ Settled
  /\ OnOpen(s)
  /\ link' = IF s \in mine THEN 1 - link ELSE link
  /\ AfterCommit(connected', viewStatus)
  /\ UNCHANGED <<panelOn, viewStatus, raf, chartBox, rows>>

StreamCloses(s) ==
  /\ Settled \/ s \notin mine
  /\ OnClose(s)
  /\ AfterCommit(connected', viewStatus)
  /\ UNCHANGED <<panelOn, viewStatus, link, raf, chartBox, rows>>

\* ingestFrame: the newest frame waits for the next animation frame.
FrameArrives(s) ==
  /\ Settled
  /\ OnMessage(s)
  /\ \E l \in Layout : pending' = [link |-> link, layout |-> l]
  /\ raf' = TRUE
  /\ UNCHANGED <<socketVars, panelOn, viewStatus, link, frame, chartBox, rows, waterfallSig>>

\* The waterfall's draw effect for a new frame f: a row on top, over a canvas
\* that is wiped first if f has another layout than the rows.
Painted(f) ==
  IF chartBox = "gone" THEN rows
  ELSE IF f.layout = waterfallSig THEN rows \cup {f} ELSE {f}

AnimationFrame ==
  /\ Settled
  /\ raf
  /\ raf' = FALSE
  /\ pending' = NoFrame
  /\ IF pending = NoFrame
     THEN UNCHANGED <<frame, rows, waterfallSig>>
     ELSE /\ frame' = pending
          /\ rows' = Painted(pending)
          /\ waterfallSig' =
               IF chartBox = "gone" THEN waterfallSig ELSE pending.layout
  /\ UNCHANGED <<socketVars, panelOn, viewStatus, link, chartBox>>

\* A status arrives.  "SDR disabled" takes the element with the chart and the
\* canvas off the page; the next good status puts a new one there.
StatusChanges(next) ==
  /\ Settled
  /\ panelOn
  /\ next # "unknown"
  /\ viewStatus' = next
  /\ chartBox' = IF next = "off" THEN "gone"
                 ELSE IF chartBox = "gone" THEN "replaced" ELSE chartBox
  /\ rows' = IF next = "off" THEN {} ELSE rows
  /\ AfterCommit(connected, next)
  /\ UNCHANGED <<socketVars, panelOn, link, raf>>

\* The observer of the first canvas: another size empties it.
CanvasResized ==
  /\ Settled
  /\ chartBox = "original"
  /\ rows' = {}
  /\ waterfallSig' = "none"
  /\ UNCHANGED <<socketVars, panelOn, viewStatus, link, frame, pending, raf, chartBox>>

SpectrumNext ==
  \/ PanelStarts
  \/ SocketStarts
  \/ SocketStops
  \/ Reconnects
  \/ \E s \in Sock : StreamOpens(s) \/ StreamCloses(s) \/ FrameArrives(s)
  \/ AnimationFrame
  \/ \E next \in ViewStatus : StatusChanges(next)
  \/ CanvasResized

ClosingEnds(s) == WF_spectrumVars(sock[s] = "closing" /\ StreamCloses(s))

\* Effects and timers run, a socket that is closing closes, and a server that
\* is tried again and again takes a connection at some point.
SpectrumFairness ==
  /\ WF_spectrumVars(SocketStarts)
  /\ WF_spectrumVars(SocketStops)
  /\ WF_spectrumVars(Reconnects)
  /\ \A s \in Sock : ClosingEnds(s)
  /\ SF_spectrumVars(\E s \in Sock : StreamOpens(s))

SpectrumSpec == SpectrumInit /\ [][SpectrumNext]_spectrumVars /\ SpectrumFairness
-----------------------------------------------------------------------------
(***************************************************************************)
(* "drop any queued frame so it can't restore stale data": once the stream *)
(* is known to be down nothing of it is on display or about to be.         *)
(***************************************************************************)
NoFrameWithoutStream == ~connected => frame = NoFrame /\ pending = NoFrame

(***************************************************************************)
(* "a reconnect can't stitch old rows onto a fresh stream": the rows of    *)
(* the waterfall are of one connection and one colour scale, as long as no *)
(* status took the first canvas away.  (After that a frame that waited for *)
(* its animation frame in a hidden tab can precede those of a new          *)
(* connection, because no close was seen in between.)                      *)
(***************************************************************************)
WaterfallOfOneStream == chartBox = "original" => \A f, g \in rows : f = g

StreamMissing == Wants /\ ~\E s \in Sock : s \in mine /\ sock[s] = "open"

(***************************************************************************)
(* "never give up entirely while the page is open": a panel that goes on   *)
(* wanting the stream is connected again and again, whatever drops.        *)
(***************************************************************************)
StreamReturns == StreamMissing ~> ~StreamMissing

\* What the chart on the page draws: the chart was made on the first element.
VisibleTrace == IF chartBox = "original" THEN frame ELSE NoFrame

(***************************************************************************)
(* "the live view shows the latest spectrum and never falls behind": a     *)
(* frame in the state of the panel is on the chart the user sees, whenever *)
(* there is a place for a chart.                                           *)
(***************************************************************************)
ChartShowsLatest == chartBox # "gone" => VisibleTrace = frame
=============================================================================

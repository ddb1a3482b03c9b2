------------------------- MODULE SpectrumViewProofs -------------------------
(***************************************************************************)
(* Theorems about the stream socket, the live spectrum and the status poll *)
(* beside it, for any number of sockets, delays, frame layouts, answers    *)
(* and requests.                                                           *)
(***************************************************************************)
EXTENDS SpectrumView, SpectrumStatus, TLAPS

-----------------------------------------------------------------------------
(***************************************************************************)
(* The socket.  OneConnectionLoop needs to know that a socket of the       *)
(* current run is never one that was told to close: a run that ends takes  *)
(* its sockets with it.                                                    *)
(***************************************************************************)
SocketInv ==
  /\ SocketTypeOK
  /\ OneConnectionLoop
  /\ \A s \in mine : sock[s] # "closing"
  /\ \A s \in mine : sock[s] = "open" => connected

LEMMA SocketInitInv == SocketInit => SocketInv
<1> SUFFICES ASSUME SocketInit PROVE SocketInv
  OBVIOUS
<1>1. attempt \in 0 .. Backoffs - 1
  BY BackoffsAssumption DEF SocketInit
<1>2. SocketTypeOK
  BY <1>1 DEF SocketInit, SocketTypeOK, SockState
<1> QED BY <1>2 DEF SocketInit, SocketInv, OneConnectionLoop

LEMMA EnableInv == SocketInv /\ Enable => SocketInv'
<1> SUFFICES ASSUME SocketInv, Enable PROVE SocketInv'
  OBVIOUS
<1>1. PICK s \in Sock : /\ sock[s] = "closed"
                        /\ sock' = [sock EXCEPT ![s] = "connecting"]
                        /\ mine' = {s}
                        /\ wsRef' = s
  BY DEF Enable, Connect
<1>2. SocketTypeOK'
  BY <1>1, BackoffsAssumption DEF SocketInv, SocketTypeOK, Enable, SockState
<1>3. sock' \in [Sock -> SockState] /\ sock'[s] = "connecting" /\ wanted' = TRUE
  BY <1>1 DEF SocketInv, SocketTypeOK, Enable, SockState
<1>4. \A t \in Sock : sock'[t] \in {"connecting", "open"} => t = s
  BY <1>1 DEF SocketInv, SocketTypeOK, OneConnectionLoop, Enable
<1>5. OneConnectionLoop'
  <2>1. Live(s)'
    BY <1>1, <1>3 DEF Live
  <2>2. timers' = 0
    BY DEF Enable
  <2> QED BY <1>1, <1>3, <1>4, <2>1, <2>2 DEF OneConnectionLoop
<1> QED BY <1>1, <1>2, <1>3, <1>5 DEF SocketInv

LEMMA DisableInv == SocketInv /\ Disable => SocketInv'
<1> SUFFICES ASSUME SocketInv, Disable PROVE SocketInv'
  OBVIOUS
<1>1. SocketTypeOK'
  BY DEF SocketInv, SocketTypeOK, Disable, Closing, SockState
<1>2. \A t \in Sock : sock'[t] \notin {"connecting", "open"}
  BY DEF SocketInv, SocketTypeOK, OneConnectionLoop, Disable, Closing, SockState
<1>3. OneConnectionLoop'
  BY <1>2 DEF OneConnectionLoop, Disable
<1> QED BY <1>1, <1>3 DEF SocketInv, Disable

\* A timer is pending only while no socket is under way.
LEMMA TimerIdle ==
  SocketInv /\ timers > 0 =>
    /\ wanted
    /\ timers = 1
    /\ \A t \in Sock : sock[t] \notin {"connecting", "open"}
BY DEF SocketInv, SocketTypeOK, OneConnectionLoop, Live

LEMMA TimerInv == SocketInv /\ TimerFires => SocketInv'
<1> SUFFICES ASSUME SocketInv, TimerFires PROVE SocketInv'
  OBVIOUS
<1> DEFINE kept == mine \cap {t \in Sock : sock[t] # "closed"}
<1>1. PICK s \in Sock : /\ sock[s] = "closed"
                        /\ sock' = [sock EXCEPT ![s] = "connecting"]
                        /\ mine' = kept \cup {s}
                        /\ wsRef' = s
  BY DEF TimerFires, Connect
<1>2. /\ wanted /\ timers = 1 /\ timers' = 0 /\ wanted' = wanted
      /\ \A t \in Sock : sock[t] \notin {"connecting", "open"}
  BY TimerIdle DEF TimerFires
<1>3. SocketTypeOK'
  BY <1>1, <1>2 DEF SocketInv, SocketTypeOK, TimerFires, SockState
<1>4. sock'[s] = "connecting" /\ \A t \in Sock \ {s} : sock'[t] = sock[t]
  BY <1>1 DEF SocketInv, SocketTypeOK
<1>5. kept = {}
  BY <1>2 DEF SocketInv, SocketTypeOK, SockState
<1>6. OneConnectionLoop'
  <2>1. Live(s)'
    BY <1>1, <1>4 DEF Live
  <2> QED BY <1>1, <1>2, <1>4, <2>1 DEF OneConnectionLoop
<1> QED BY <1>1, <1>3, <1>4, <1>5, <1>6 DEF SocketInv, TimerFires

LEMMA OpenInv == \A s \in Sock : SocketInv /\ OnOpen(s) => SocketInv'
<1> SUFFICES ASSUME NEW s \in Sock, SocketInv, OnOpen(s) PROVE SocketInv'
  OBVIOUS
<1>1. /\ wanted /\ s = wsRef /\ s \in mine /\ Live(s)
      /\ sock' = [sock EXCEPT ![s] = "open"]
  BY DEF SocketInv, OneConnectionLoop, OnOpen, Live
<1>2. SocketTypeOK'
  <2>1. sock' \in [Sock -> SockState]
    BY <1>1 DEF SocketInv, SocketTypeOK, SockState
  <2>2. attempt' = 0 /\ connected' = TRUE /\ reconnecting' = FALSE
    BY <1>1 DEF OnOpen
  <2>3. UNCHANGED <<wanted, mine, wsRef, timers>>
    BY DEF OnOpen
  <2>4. attempt' \in 0 .. Backoffs - 1
    BY <2>2, BackoffsAssumption
  <2> QED BY <2>1, <2>2, <2>3, <2>4 DEF SocketInv, SocketTypeOK
<1>3. sock'[s] = "open" /\ \A t \in Sock \ {s} : sock'[t] = sock[t]
  BY <1>1 DEF SocketInv, SocketTypeOK
<1>4. timers' = 0 /\ connected'
  BY <1>1 DEF SocketInv, OneConnectionLoop, OnOpen
<1>5. OneConnectionLoop'
  <2>1. Live(s)'
    BY <1>1, <1>3 DEF Live, OnOpen
  <2> QED BY <1>1, <1>3, <1>4, <2>1 DEF SocketInv, OneConnectionLoop, OnOpen
<1> QED BY <1>1, <1>2, <1>3, <1>4, <1>5 DEF SocketInv, SocketTypeOK, OnOpen

LEMMA CloseInv == \A s \in Sock : SocketInv /\ OnClose(s) => SocketInv'
<1> SUFFICES ASSUME NEW s \in Sock, SocketInv, OnClose(s) PROVE SocketInv'
  OBVIOUS
<1>1. sock' = [sock EXCEPT ![s] = "closed"] /\ sock[s] # "closed"
  BY DEF OnClose
<1>2. sock'[s] = "closed" /\ \A t \in Sock \ {s} : sock'[t] = sock[t]
  BY <1>1 DEF SocketInv, SocketTypeOK
<1>3. SocketTypeOK'
  <2>1. sock' \in [Sock -> SockState]
    BY <1>1 DEF SocketInv, SocketTypeOK, SockState
  <2>2. timers' \in Nat /\ attempt' \in 0 .. Backoffs - 1
    BY BackoffsAssumption DEF SocketInv, SocketTypeOK, OnClose, Schedule
  <2>3. connected' \in BOOLEAN /\ reconnecting' \in BOOLEAN
    BY DEF SocketInv, SocketTypeOK, OnClose, Schedule
  <2>4. UNCHANGED <<wanted, mine, wsRef>>
    BY DEF OnClose
  <2> QED BY <2>1, <2>2, <2>3, <2>4 DEF SocketInv, SocketTypeOK
<1>4. mine' = mine /\ wanted' = wanted /\ wsRef' = wsRef
  BY DEF OnClose
<1>5. CASE s \in mine
  <2>1. sock[s] \in {"connecting", "open"} /\ Live(s)
    BY <1>1, <1>5 DEF SocketInv, SocketTypeOK, SockState, Live
  <2>2. wanted /\ s = wsRef /\ timers = 0
    BY <2>1 DEF SocketInv, OneConnectionLoop
  <2>3. timers' = 1 /\ connected' = FALSE
    BY <1>5, <2>2 DEF OnClose, Schedule
  <2>4. \A t \in Sock : sock'[t] \notin {"connecting", "open"}
    BY <1>2, <2>2 DEF SocketInv, OneConnectionLoop
  <2>5. OneConnectionLoop'
    BY <1>4, <2>2, <2>3, <2>4 DEF OneConnectionLoop, Live
  <2> QED BY <1>2, <1>3, <1>4, <2>4, <2>5 DEF SocketInv, SocketTypeOK
<1>6. CASE s \notin mine
  <2>1. UNCHANGED <<timers, connected>>
    BY <1>6 DEF OnClose
  <2>2. \A t \in Sock : Live(t)' <=> Live(t)
    BY <1>2, <1>4, <1>6 DEF Live
  <2>3. OneConnectionLoop'
    BY <1>2, <1>4, <2>1, <2>2 DEF SocketInv, OneConnectionLoop
  <2> QED BY <1>2, <1>3, <1>4, <1>6, <2>1, <2>3 DEF SocketInv, SocketTypeOK
<1> QED BY <1>5, <1>6

LEMMA SocketStutter == SocketInv /\ UNCHANGED socketVars => SocketInv'
BY DEF SocketInv, SocketTypeOK, OneConnectionLoop, Live, socketVars

LEMMA SocketNextInv == SocketInv /\ [SocketNext]_socketVars => SocketInv'
BY EnableInv, DisableInv, TimerInv, OpenInv, CloseInv, SocketStutter DEF SocketNext

(***************************************************************************)
(* The hook on its own, in whatever way its option changes, has one socket *)
(* under way or one timer pending while it is wanted (useJsonSocket).      *)
(***************************************************************************)
THEOREM SocketLoops == SocketSpec => []OneConnectionLoop
<1>1. SocketInv => OneConnectionLoop
  BY DEF SocketInv
<1> QED BY SocketInitInv, SocketNextInv, <1>1, PTL DEF SocketSpec

-----------------------------------------------------------------------------
(***************************************************************************)
(* The view.  While the first canvas is on the page the stream was never   *)
(* given up, so every opening follows a close that emptied the view: that  *)
(* is why the rows, the queued frame and the connection agree.             *)
(***************************************************************************)
EmptyWhenDown ==
  ~connected => frame = NoFrame /\ pending = NoFrame /\ waterfallSig = "none"

OriginalCanvas ==
  /\ viewStatus # "off"
  /\ connected => \E s \in mine : sock[s] = "open"
  /\ pending # NoFrame => pending.link = link
  /\ \A f \in rows : waterfallSig # "none" => f.layout = waterfallSig /\ f.link = link
  /\ \A f, g \in rows : f = g

ViewInv ==
  /\ SpectrumTypeOK
  /\ SocketInv
  /\ EmptyWhenDown
  /\ wanted => panelOn
  /\ chartBox = "original" => OriginalCanvas

\* For the socket a step of the panel is a step of its own, or nothing.
LEMMA PanelDrivesSocket ==
  [SpectrumNext]_spectrumVars => [SocketNext]_socketVars
BY DEF SpectrumNext, spectrumVars, SocketNext, PanelStarts, SocketStarts, SocketStops,
       Reconnects, StreamOpens, StreamCloses, FrameArrives, AnimationFrame,
       StatusChanges, CanvasResized

LEMMA ViewInitInv == SpectrumInit => ViewInv
<1> SUFFICES ASSUME SpectrumInit PROVE ViewInv
  OBVIOUS
<1>1. SocketInv
  BY SocketInitInv DEF SpectrumInit
<1>2. SpectrumTypeOK
  BY <1>1 DEF SpectrumInit, SpectrumTypeOK, SocketInv, ViewStatus
<1>3. EmptyWhenDown
  BY DEF SpectrumInit, EmptyWhenDown
<1>4. OriginalCanvas /\ ~wanted
  BY DEF SpectrumInit, SocketInit, OriginalCanvas
<1> QED BY <1>1, <1>2, <1>3, <1>4 DEF ViewInv

\* What the clearing effect leaves: the view as it was, or nothing of it.
LEMMA Cleared ==
  ASSUME NEW up, NEW next, AfterCommit(up, next), SpectrumTypeOK
  PROVE  /\ \/ UNCHANGED <<frame, pending, waterfallSig>>
            \/ frame' = NoFrame /\ pending' = NoFrame /\ waterfallSig' = "none"
         /\ frame' \in Frame \cup {NoFrame}
         /\ pending' \in Frame \cup {NoFrame}
         /\ waterfallSig' \in Layout \cup {"none"}
         /\ connected /\ ~up => frame' = NoFrame /\ pending' = NoFrame
                                /\ waterfallSig' = "none"
<1>1. \/ UNCHANGED <<frame, pending, waterfallSig>>
      \/ frame' = NoFrame /\ pending' = NoFrame /\ waterfallSig' = "none"
  BY DEF AfterCommit, ClearView
<1>2. connected /\ ~up => frame' = NoFrame /\ pending' = NoFrame
                           /\ waterfallSig' = "none"
  BY DEF AfterCommit, ClearView
<1> QED BY <1>1, <1>2 DEF SpectrumTypeOK

\* A stream that opens was down before, and is up afterwards.
LEMMA OpeningStep ==
  ASSUME ViewInv, NEW s \in Sock, StreamOpens(s)
  PROVE  ViewInv'
<1>1. OnOpen(s) /\ SocketInv'
  BY OpenInv DEF StreamOpens, ViewInv
<1>2. /\ s \in mine /\ sock[s] = "connecting" /\ connected' = TRUE
      /\ \A t \in Sock : sock[t] # "open"
      /\ UNCHANGED <<wanted, mine>>
  BY <1>1 DEF ViewInv, SocketInv, OneConnectionLoop, OnOpen
<1>3. link' = 1 - link /\ UNCHANGED <<panelOn, viewStatus, raf, chartBox, rows>>
  BY <1>2 DEF StreamOpens
<1>4. /\ \/ UNCHANGED <<frame, pending, waterfallSig>>
         \/ frame' = NoFrame /\ pending' = NoFrame /\ waterfallSig' = "none"
      /\ frame' \in Frame \cup {NoFrame}
      /\ pending' \in Frame \cup {NoFrame}
      /\ waterfallSig' \in Layout \cup {"none"}
  BY Cleared DEF StreamOpens, ViewInv
<1>5. SpectrumTypeOK'
  BY <1>1, <1>3, <1>4 DEF ViewInv, SpectrumTypeOK, SocketInv
<1>6. ASSUME chartBox' = "original" PROVE OriginalCanvas'
  <2>1. OriginalCanvas /\ ~connected
    BY <1>2, <1>3, <1>6 DEF ViewInv, OriginalCanvas, SocketInv, SocketTypeOK
  <2>2. pending' = NoFrame /\ waterfallSig' = "none"
    BY <1>4, <2>1 DEF ViewInv, EmptyWhenDown
  <2>3. sock'[s] = "open" /\ s \in mine'
    BY <1>1, <1>2 DEF OnOpen, ViewInv, SocketInv, SocketTypeOK
  <2> QED BY <1>3, <2>1, <2>2, <2>3 DEF OriginalCanvas
<1> QED BY <1>1, <1>2, <1>3, <1>5, <1>6 DEF ViewInv, EmptyWhenDown

LEMMA ClosingStep ==
  ASSUME ViewInv, NEW s \in Sock, StreamCloses(s)
  PROVE  ViewInv'
<1>1. OnClose(s) /\ SocketInv' /\ UNCHANGED <<wanted, mine>>
  BY CloseInv DEF StreamCloses, ViewInv, OnClose
<1>2. UNCHANGED <<panelOn, viewStatus, link, raf, chartBox, rows>>
  BY DEF StreamCloses
<1>3. /\ \/ UNCHANGED <<frame, pending, waterfallSig>>
         \/ frame' = NoFrame /\ pending' = NoFrame /\ waterfallSig' = "none"
      /\ frame' \in Frame \cup {NoFrame}
      /\ pending' \in Frame \cup {NoFrame}
      /\ waterfallSig' \in Layout \cup {"none"}
      /\ connected /\ ~connected' =>
           frame' = NoFrame /\ pending' = NoFrame /\ waterfallSig' = "none"
  BY Cleared DEF StreamCloses, ViewInv
<1>4. SpectrumTypeOK'
  BY <1>1, <1>2, <1>3 DEF ViewInv, SpectrumTypeOK, SocketInv
<1>5. EmptyWhenDown'
  BY <1>3 DEF ViewInv, EmptyWhenDown
<1>6. ASSUME chartBox' = "original" PROVE OriginalCanvas'
  <2>1. OriginalCanvas
    BY <1>2, <1>6 DEF ViewInv
  <2>2. connected' => \E t \in mine' : sock'[t] = "open"
    <3> SUFFICES ASSUME connected' PROVE \E t \in mine' : sock'[t] = "open"
      OBVIOUS
    <3>1. s \notin mine /\ connected
      BY <1>1 DEF OnClose
    <3>2. PICK t \in mine : sock[t] = "open"
      BY <2>1, <3>1 DEF OriginalCanvas
    <3>3. sock'[t] = "open"
      BY <1>1, <3>1, <3>2 DEF OnClose, ViewInv, SocketInv, SocketTypeOK
    <3> QED BY <1>1, <3>2, <3>3
  <2> QED BY <1>2, <1>3, <2>1, <2>2 DEF OriginalCanvas
<1> QED BY <1>1, <1>2, <1>4, <1>5, <1>6 DEF ViewInv

\* A frame comes over a connection that is up, so there is a view to put it in.
LEMMA FrameStep ==
  ASSUME ViewInv, NEW s \in Sock, FrameArrives(s)
  PROVE  ViewInv'
<1>1. SocketInv' /\ UNCHANGED socketVars
  BY SocketStutter DEF FrameArrives, ViewInv
<1>2. PICK l \in Layout : pending' = [link |-> link, layout |-> l]
  BY DEF FrameArrives
<1>3. UNCHANGED <<panelOn, viewStatus, link, frame, chartBox, rows, waterfallSig>>
      /\ raf' = TRUE
  BY DEF FrameArrives
<1>4. pending' \in Frame /\ pending'.link = link
  BY <1>2 DEF Frame, ViewInv, SpectrumTypeOK
<1>5. SpectrumTypeOK'
  BY <1>1, <1>3, <1>4 DEF ViewInv, SpectrumTypeOK, SocketInv
<1>6. connected'
  BY <1>1 DEF FrameArrives, OnMessage, ViewInv, SocketInv, socketVars
<1>7. chartBox' = "original" => OriginalCanvas'
  BY <1>1, <1>3, <1>4 DEF ViewInv, OriginalCanvas, socketVars
<1> QED BY <1>1, <1>3, <1>5, <1>6, <1>7 DEF ViewInv, EmptyWhenDown, socketVars

\* The row of a queued frame joins rows of its own kind, or starts anew.
LEMMA RepaintStep ==
  ASSUME ViewInv, AnimationFrame
  PROVE  ViewInv'
<1>1. SocketInv' /\ UNCHANGED socketVars
  BY SocketStutter DEF AnimationFrame, ViewInv
<1>2. UNCHANGED <<panelOn, viewStatus, link, chartBox>> /\ raf' = FALSE
      /\ pending' = NoFrame
  BY DEF AnimationFrame
<1>3. CASE pending = NoFrame
  <2>1. UNCHANGED <<frame, rows, waterfallSig>>
    BY <1>3 DEF AnimationFrame
  <2>2. SpectrumTypeOK'
    BY <1>1, <1>2, <2>1 DEF ViewInv, SpectrumTypeOK, SocketInv
  <2> QED BY <1>1, <1>2, <2>1, <2>2
          DEF ViewInv, EmptyWhenDown, OriginalCanvas, socketVars
<1>4. CASE pending # NoFrame
  <2>1. /\ frame' = pending
        /\ rows' = Painted(pending)
        /\ waterfallSig' = IF chartBox = "gone" THEN waterfallSig ELSE pending.layout
    BY <1>4 DEF AnimationFrame
  <2>2. pending \in Frame /\ pending.layout \in Layout
    BY <1>4 DEF ViewInv, SpectrumTypeOK, Frame
  <2>3. rows' \in SUBSET Frame
    BY <2>1, <2>2 DEF Painted, ViewInv, SpectrumTypeOK
  <2>4. waterfallSig' \in Layout \cup {"none"}
    BY <2>1, <2>2 DEF ViewInv, SpectrumTypeOK
  <2>5. SpectrumTypeOK'
    BY <1>1, <1>2, <2>1, <2>2, <2>3, <2>4 DEF ViewInv, SpectrumTypeOK, SocketInv
  <2>6. connected'
    BY <1>1, <1>4 DEF ViewInv, EmptyWhenDown, socketVars
  <2>7. ASSUME chartBox' = "original" PROVE OriginalCanvas'
    <3>1. OriginalCanvas /\ chartBox # "gone"
      BY <1>2, <2>7 DEF ViewInv
    <3>2. \A f \in rows' : f = pending
      <4>1. CASE pending.layout = waterfallSig
        <5>1. waterfallSig # "none"
          BY <2>2, <4>1, LayoutAssumption
        <5>2. rows' = rows \cup {pending}
          BY <2>1, <3>1, <4>1 DEF Painted
        <5>3. ASSUME NEW f \in rows PROVE f = pending
          <6>1. f \in Frame /\ f.layout = pending.layout /\ f.link = pending.link
            BY <1>4, <3>1, <4>1, <5>1 DEF OriginalCanvas, ViewInv, SpectrumTypeOK
          <6> QED BY <2>2, <6>1 DEF Frame
        <5> QED BY <5>2, <5>3
      <4>2. CASE pending.layout # waterfallSig
        BY <2>1, <3>1, <4>2 DEF Painted
      <4> QED BY <4>1, <4>2
    <3>3. waterfallSig' = pending.layout /\ pending.link = link
      BY <1>4, <2>1, <3>1 DEF OriginalCanvas
    <3> QED BY <1>1, <1>2, <3>1, <3>2, <3>3 DEF OriginalCanvas, socketVars
  <2> QED BY <1>1, <1>2, <2>5, <2>6, <2>7 DEF ViewInv, EmptyWhenDown, socketVars
<1> QED BY <1>3, <1>4

LEMMA StatusOfPanelStep ==
  ASSUME ViewInv, NEW next \in ViewStatus, StatusChanges(next)
  PROVE  ViewInv'
<1>1. SocketInv' /\ UNCHANGED socketVars
  BY SocketStutter DEF StatusChanges, ViewInv
<1>2. /\ viewStatus' = next
      /\ chartBox' = IF next = "off" THEN "gone"
                     ELSE IF chartBox = "gone" THEN "replaced" ELSE chartBox
      /\ rows' = IF next = "off" THEN {} ELSE rows
      /\ UNCHANGED <<panelOn, link, raf>>
  BY DEF StatusChanges
<1>3. /\ \/ UNCHANGED <<frame, pending, waterfallSig>>
         \/ frame' = NoFrame /\ pending' = NoFrame /\ waterfallSig' = "none"
      /\ frame' \in Frame \cup {NoFrame}
      /\ pending' \in Frame \cup {NoFrame}
      /\ waterfallSig' \in Layout \cup {"none"}
  BY Cleared DEF StatusChanges, ViewInv
<1>4. SpectrumTypeOK'
  BY <1>1, <1>2, <1>3 DEF ViewInv, SpectrumTypeOK, SocketInv
<1>5. ASSUME chartBox' = "original" PROVE OriginalCanvas'
  <2>1. chartBox = "original" /\ next # "off" /\ rows' = rows
    BY <1>2, <1>5
  <2> QED BY <1>1, <1>2, <1>3, <2>1 DEF ViewInv, OriginalCanvas, socketVars
<1> QED BY <1>1, <1>2, <1>3, <1>4, <1>5 DEF ViewInv, EmptyWhenDown, socketVars

\* The effect of the socket hook: the option turned on, or off, which it does not
\* do while the first canvas is on the page.
LEMMA OptionStep ==
  ASSUME ViewInv, SocketStarts \/ SocketStops \/ Reconnects
  PROVE  ViewInv'
<1>1. SocketInv' /\ UNCHANGED <<viewVars, connected>>
  BY EnableInv, DisableInv, TimerInv
     DEF ViewInv, SocketStarts, SocketStops, Reconnects, Enable, Disable, TimerFires
<1>2. SpectrumTypeOK' /\ EmptyWhenDown'
  BY <1>1 DEF ViewInv, SpectrumTypeOK, SocketInv, EmptyWhenDown, viewVars
<1>3. wanted' => panelOn'
  BY <1>1 DEF ViewInv, SocketStarts, SocketStops, Reconnects, Enable, Disable,
              TimerFires, Wants, viewVars
<1>4. ASSUME chartBox' = "original" PROVE OriginalCanvas'
  <2>1. OriginalCanvas
    BY <1>1, <1>4 DEF ViewInv, viewVars
  <2>2. ~connected
    <3>1. CASE SocketStarts
      BY <2>1, <3>1 DEF OriginalCanvas, SocketStarts, Enable, ViewInv, SocketInv,
                        SocketTypeOK, OneConnectionLoop
    <3>2. CASE SocketStops
      BY <2>1, <3>2 DEF OriginalCanvas, SocketStops, Disable, Wants, ViewInv
    <3>3. CASE Reconnects
      BY <2>1, <3>3, TimerIdle DEF OriginalCanvas, Reconnects, TimerFires, ViewInv,
                                   SocketInv, SocketTypeOK
    <3> QED BY <3>1, <3>2, <3>3
  <2> QED BY <1>1, <2>1, <2>2 DEF OriginalCanvas, viewVars
<1> QED BY <1>1, <1>2, <1>3, <1>4 DEF ViewInv

LEMMA ViewNextInv == ViewInv /\ [SpectrumNext]_spectrumVars => ViewInv'
<1> SUFFICES ASSUME ViewInv, [SpectrumNext]_spectrumVars PROVE ViewInv'
  OBVIOUS
<1>1. CASE PanelStarts
  <2>1. SocketInv'
    BY <1>1, SocketStutter DEF PanelStarts, ViewInv
  <2> QED BY <1>1, <2>1 DEF PanelStarts, ViewInv, SpectrumTypeOK, SocketInv,
                           EmptyWhenDown, OriginalCanvas, socketVars
<1>2. CASE CanvasResized
  <2>1. SocketInv'
    BY <1>2, SocketStutter DEF CanvasResized, ViewInv
  <2> QED BY <1>2, <2>1 DEF CanvasResized, ViewInv, SpectrumTypeOK, SocketInv,
                           EmptyWhenDown, OriginalCanvas, socketVars
<1>3. CASE UNCHANGED spectrumVars
  <2>1. SocketInv'
    BY <1>3, SocketStutter DEF spectrumVars, ViewInv
  <2> QED BY <1>3, <2>1 DEF spectrumVars, viewVars, socketVars, ViewInv, SpectrumTypeOK,
                           SocketInv, EmptyWhenDown, OriginalCanvas
<1> QED BY <1>1, <1>2, <1>3, OptionStep, OpeningStep, ClosingStep, FrameStep,
           RepaintStep, StatusOfPanelStep DEF SpectrumNext

LEMMA ViewInvHolds == SpectrumSpec => []ViewInv
BY ViewInitInv, ViewNextInv, PTL DEF SpectrumSpec

\* The types of everything the live spectrum keeps (SpectrumPanel).
THEOREM SpectrumTypes == SpectrumSpec => []SpectrumTypeOK
<1>1. ViewInv => SpectrumTypeOK
  BY DEF ViewInv
<1> QED BY <1>1, ViewInvHolds, PTL

\* The socket of the panel is retried by one loop at a time (useJsonSocket).
THEOREM OneLoopAtATime == SpectrumSpec => []OneConnectionLoop
<1>1. ViewInv => OneConnectionLoop
  BY DEF ViewInv, SocketInv
<1> QED BY <1>1, ViewInvHolds, PTL

\* Nothing of a stream that is down is on display, or queued for it.
THEOREM DownShowsNothing == SpectrumSpec => []NoFrameWithoutStream
<1>1. ViewInv => NoFrameWithoutStream
  BY DEF ViewInv, EmptyWhenDown, NoFrameWithoutStream
<1> QED BY <1>1, ViewInvHolds, PTL

\* The rows of the first waterfall are of one connection and one layout.
THEOREM RowsBelongTogether == SpectrumSpec => []WaterfallOfOneStream
<1>1. ViewInv => WaterfallOfOneStream
  BY DEF ViewInv, OriginalCanvas, WaterfallOfOneStream
<1> QED BY <1>1, ViewInvHolds, PTL
-----------------------------------------------------------------------------
(***************************************************************************)
(* Liveness, from the fairness of the module.  tlapm has no rule for       *)
(* ENABLED, so that an action can be taken where its guards hold stands as *)
(* a hypothesis: each line repeats the guards of an action, and with them  *)
(* the socket its `connect' needs.                                         *)
(***************************************************************************)
SomeClosed == \E s \in Sock : sock[s] = "closed"
SomeConnecting == \E s \in Sock : sock[s] = "connecting"

ClosingIsOpen(s) ==
  sock[s] = "closing" /\ s \notin mine
    => ENABLED <<sock[s] = "closing" /\ StreamCloses(s)>>_spectrumVars

RetryIsOpen ==
  /\ Wants /\ ~wanted /\ SomeClosed => ENABLED <<SocketStarts>>_spectrumVars
  /\ Settled /\ timers > 0 /\ SomeClosed => ENABLED <<Reconnects>>_spectrumVars
  /\ \A s \in Sock : ClosingIsOpen(s)
  /\ Settled /\ SomeConnecting
       => ENABLED <<\E s \in Sock : StreamOpens(s)>>_spectrumVars

\* A run that is over has no sockets, and a timer was set by a socket that closed.
TimerHasSocket ==
  /\ ~wanted => mine = {}
  /\ timers = 1 => SomeClosed

LEMMA TimerHasSocketNext ==
  ViewInv /\ TimerHasSocket /\ [SpectrumNext]_spectrumVars => TimerHasSocket'
<1> SUFFICES ASSUME SocketInv, TimerHasSocket, [SocketNext]_socketVars
             PROVE  TimerHasSocket'
  BY PanelDrivesSocket DEF ViewInv
<1> USE DEF TimerHasSocket, SomeClosed
<1>1. CASE Enable \/ Disable
  BY <1>1 DEF Enable, Disable
<1>2. CASE TimerFires
  BY <1>2, TimerIdle DEF TimerFires, SocketInv, OneConnectionLoop, SocketTypeOK
<1>3. ASSUME NEW s \in Sock, OnOpen(s) PROVE TimerHasSocket'
  BY <1>3 DEF OnOpen, SocketInv, SocketTypeOK
<1>4. ASSUME NEW s \in Sock, OnClose(s) PROVE TimerHasSocket'
  BY <1>4 DEF OnClose, SocketInv, SocketTypeOK
<1>5. CASE UNCHANGED socketVars
  BY <1>5 DEF socketVars
<1> QED BY <1>1, <1>2, <1>3, <1>4, <1>5 DEF SocketNext

\* The stations of a stream that is missing: every socket closes, one of them is free
\* for the new run; or the run waits for its timer, or for its socket to open.
AllClosing == StreamMissing /\ ~wanted /\ ~SomeClosed
ReadyToStart == StreamMissing /\ ~wanted /\ SomeClosed
TimerPending == StreamMissing /\ wanted /\ timers = 1
SocketTried == StreamMissing /\ wanted /\ SomeConnecting

LEMMA Stations ==
  ViewInv /\ TimerHasSocket /\ StreamMissing
    => AllClosing \/ ReadyToStart \/ TimerPending \/ SocketTried
<1> SUFFICES ASSUME SocketInv, TimerHasSocket, StreamMissing, wanted, timers # 1
             PROVE  SomeConnecting
  BY DEF ViewInv, AllClosing, ReadyToStart, TimerPending, SocketTried
<1>1. PICK s \in Sock : Live(s)
  BY DEF SocketInv, OneConnectionLoop
<1> QED BY <1>1 DEF Live, SomeConnecting, StreamMissing

\* A run starts with a socket that connects, and while the stream is missing it goes
\* on; a socket that is free stays so until then.
LEMMA MissingStep ==
  ViewInv /\ TimerHasSocket /\ StreamMissing /\ [SpectrumNext]_spectrumVars
    => /\ ~wanted /\ wanted' => SomeClosed /\ SomeConnecting'
       /\ wanted /\ StreamMissing' => wanted'
       /\ ~wanted /\ SomeClosed /\ ~wanted' => SomeClosed'
<1> SUFFICES ASSUME ViewInv, TimerHasSocket, StreamMissing, [SpectrumNext]_spectrumVars
             PROVE  /\ ~wanted /\ wanted' => SomeClosed /\ SomeConnecting'
                    /\ wanted /\ StreamMissing' => wanted'
                    /\ ~wanted /\ SomeClosed /\ ~wanted' => SomeClosed'
  OBVIOUS
<1>1. CASE SocketStarts
  BY <1>1 DEF SocketStarts, Enable, Connect, SomeClosed, SomeConnecting, ViewInv, SocketInv,
              SocketTypeOK
<1>2. CASE SocketStops
  BY <1>2 DEF SocketStops, StreamMissing
<1>3. CASE Reconnects
  BY <1>3, TimerIdle DEF Reconnects, TimerFires, ViewInv
<1>4. CASE \E s \in Sock : StreamOpens(s) \/ StreamCloses(s)
  BY <1>4 DEF StreamOpens, StreamCloses, OnOpen, OnClose, SomeClosed, ViewInv, SocketInv,
              SocketTypeOK
<1>5. CASE UNCHANGED socketVars
  BY <1>5 DEF socketVars, SomeClosed
<1>6. \/ SocketStarts \/ SocketStops \/ Reconnects
      \/ \E s \in Sock : StreamOpens(s) \/ StreamCloses(s)
      \/ UNCHANGED socketVars
  BY DEF SpectrumNext, spectrumVars, PanelStarts, FrameArrives, AnimationFrame,
         StatusChanges, CanvasResized
<1> QED BY <1>1, <1>2, <1>3, <1>4, <1>5, <1>6

LEMMA ClosingsEnd == SpectrumSpec => \A s \in Sock : ClosingEnds(s)
BY PTL DEF SpectrumSpec, SpectrumFairness

(***************************************************************************)
(* A panel that goes on wanting the stream is connected again, whatever    *)
(* drops (lib/useJsonSocket.ts, components/SpectrumPanel): a new run finds *)
(* a free socket, since those that were told to close do; its timer fires, *)
(* and one of its attempts succeeds.                                       *)
(***************************************************************************)
THEOREM StreamComesBack ==
  ASSUME Sock # {}
  PROVE  SpectrumSpec /\ []RetryIsOpen => StreamReturns
<1> PICK s0 \in Sock : TRUE
  OBVIOUS
<1> DEFINE Inv == ViewInv /\ TimerHasSocket
           Opens == \E s \in Sock : StreamOpens(s)
<1>1. SpectrumSpec => []Inv
  <2>1. SpectrumInit => TimerHasSocket
    BY DEF SpectrumInit, SocketInit, TimerHasSocket
  <2> QED BY <2>1, TimerHasSocketNext, ViewInvHolds, PTL DEF SpectrumSpec
<1>2. Inv /\ StreamMissing /\ [SpectrumNext]_spectrumVars
        => /\ ~wanted /\ wanted' => SomeClosed /\ SomeConnecting'
           /\ wanted /\ StreamMissing' => wanted'
           /\ ~wanted /\ SomeClosed /\ ~wanted' => SomeClosed'
  BY MissingStep
<1>3. Inv /\ StreamMissing => AllClosing \/ ReadyToStart \/ TimerPending \/ SocketTried
  BY Stations
<1>4. <<sock[s0] = "closing" /\ StreamCloses(s0)>>_spectrumVars /\ Inv => SomeClosed'
  BY DEF StreamCloses, OnClose, ViewInv, SocketInv, SocketTypeOK, SomeClosed
<1>5. <<SocketStarts>>_spectrumVars => wanted'
  BY DEF SocketStarts, Enable
<1>6. Inv /\ <<Reconnects>>_spectrumVars => ~(timers = 1)'
  BY TimerIdle DEF Reconnects, TimerFires, ViewInv
<1>7. Inv /\ <<Opens>>_spectrumVars => ~StreamMissing'
  BY DEF StreamOpens, OnOpen, ViewInv, SocketInv, SocketTypeOK, OneConnectionLoop,
         StreamMissing
<1>8. Inv /\ RetryIsOpen
        => /\ AllClosing => ENABLED <<sock[s0] = "closing" /\ StreamCloses(s0)>>_spectrumVars
           /\ ReadyToStart => ENABLED <<SocketStarts>>_spectrumVars
           /\ TimerPending => ENABLED <<Reconnects>>_spectrumVars
           /\ SocketTried => ENABLED <<Opens>>_spectrumVars
  <2> SUFFICES ASSUME Inv, RetryIsOpen
               PROVE  /\ AllClosing
                           => ENABLED <<sock[s0] = "closing" /\ StreamCloses(s0)>>_spectrumVars
                      /\ ReadyToStart => ENABLED <<SocketStarts>>_spectrumVars
                      /\ TimerPending => ENABLED <<Reconnects>>_spectrumVars
                      /\ SocketTried => ENABLED <<Opens>>_spectrumVars
    OBVIOUS
  <2>1. AllClosing => sock[s0] = "closing" /\ s0 \notin mine
    BY DEF AllClosing, SomeClosed, ViewInv, SocketInv, SocketTypeOK, SockState,
           OneConnectionLoop, TimerHasSocket
  <2>2. TimerPending => Settled /\ timers > 0 /\ SomeClosed
    <3>1. TimerPending => timers > 0 /\ SomeClosed
      BY DEF TimerPending, TimerHasSocket
    <3>2. TimerPending => Settled
      BY DEF TimerPending, StreamMissing, Settled, Wants, ViewInv, SocketInv, SocketTypeOK
    <3> QED BY <3>1, <3>2
  <2>3. SocketTried => Settled /\ SomeConnecting
    BY DEF SocketTried, StreamMissing, Settled, Wants, ViewInv, SocketInv, SocketTypeOK
  <2>4. ReadyToStart => Wants /\ ~wanted /\ SomeClosed
    BY DEF ReadyToStart, StreamMissing
  <2>5. ClosingIsOpen(s0)
    BY DEF RetryIsOpen
  <2>6. AllClosing => ENABLED <<sock[s0] = "closing" /\ StreamCloses(s0)>>_spectrumVars
    BY <2>1, <2>5 DEF ClosingIsOpen
  <2>7. SocketTried => ENABLED <<Opens>>_spectrumVars
    BY <2>3 DEF RetryIsOpen
  <2> HIDE DEF Opens
  <2> QED BY <2>2, <2>4, <2>6, <2>7 DEF RetryIsOpen
<1>9. SpectrumSpec
        => /\ [][SpectrumNext]_spectrumVars
           /\ ClosingEnds(s0) /\ WF_spectrumVars(SocketStarts)
           /\ WF_spectrumVars(Reconnects) /\ SF_spectrumVars(Opens)
  <2>1. SpectrumSpec
          => /\ [][SpectrumNext]_spectrumVars
             /\ WF_spectrumVars(SocketStarts)
             /\ WF_spectrumVars(Reconnects) /\ SF_spectrumVars(Opens)
    BY PTL DEF SpectrumSpec, SpectrumFairness
  <2>2. (\A s \in Sock : ClosingEnds(s)) => ClosingEnds(s0)
    BY Zenon
  <2> QED BY <2>1, <2>2, ClosingsEnd, PTL
<1> HIDE DEF Inv, Opens
<1> QED BY <1>1, <1>2, <1>3, <1>4, <1>5, <1>6, <1>7, <1>8, <1>9, PTL
           DEF StreamReturns, AllClosing, ReadyToStart, TimerPending, SocketTried, ClosingEnds
-----------------------------------------------------------------------------
(***************************************************************************)
(* SpectrumStatus.                                                         *)
(***************************************************************************)
\* The interval runs exactly while the status that is shown is a stale one, and a
\* request of its own is under way only then.
IntervalFollowsStatus ==
  /\ nudging <=> Stale(status)
  /\ inFlight => nudging

StatusInv == StatusTypeOK /\ IntervalFollowsStatus

LEMMA StatusInitInv == StatusInit => StatusInv
<1> SUFFICES ASSUME StatusInit PROVE StatusInv
  OBVIOUS
<1>1. /\ polling = FALSE /\ nudging = FALSE /\ inFlight = FALSE /\ strays = 0
      /\ receiver \in Receiver /\ answers = {} /\ status = "unknown" /\ restart = "idle"
  BY DEF StatusInit
<1>2. strays \in 0 .. MaxStrays
  BY <1>1, AnswersAssumption
<1> QED BY <1>1, <1>2 DEF StatusInv, StatusTypeOK, IntervalFollowsStatus, Stale

LEMMA StatusNextInv == StatusInv /\ [StatusNext]_statusVars => StatusInv'
<1> SUFFICES ASSUME StatusTypeOK, IntervalFollowsStatus, [StatusNext]_statusVars
             PROVE  StatusTypeOK' /\ IntervalFollowsStatus'
  BY DEF StatusInv
<1> USE DEF StatusTypeOK, IntervalFollowsStatus
<1>1. CASE StartPolling \/ RestartIntegration \/ RestartOver \/ UNCHANGED statusVars
  <2>1. UNCHANGED <<receiver, answers, status, nudging, inFlight, strays>>
    BY <1>1 DEF StartPolling, RestartIntegration, RestartOver, statusVars
  <2>2. polling' \in BOOLEAN /\ restart' \in {"idle", "busy", "failed"}
    BY <1>1 DEF StartPolling, RestartIntegration, RestartOver, statusVars
  <2> QED BY <2>1, <2>2
<1>2. CASE PollAnswered \/ PollFails
  BY <1>2 DEF PollAnswered, PollFails, Poll, Answer
<1>3. ASSUME NEW a \in Answer, AnswerArrives(a)
      PROVE  StatusTypeOK' /\ IntervalFollowsStatus'
  <2>1. CASE a = status
    BY <1>3, <2>1 DEF AnswerArrives
  <2>2. CASE a # status
    <3>1. /\ nudging' = Stale(a) /\ inFlight' = Stale(a) /\ status' = a
          /\ strays' = IF inFlight THEN strays + 1 ELSE strays
          /\ strays' <= MaxStrays /\ answers' = answers \ {a}
          /\ UNCHANGED <<polling, receiver, restart>>
      BY <1>3, <2>2 DEF AnswerArrives
    <3>2. Stale(a) \in BOOLEAN
      BY DEF Stale
    <3>3. strays' \in 0 .. MaxStrays
      BY <3>1, AnswersAssumption
    <3> QED BY <3>1, <3>2, <3>3
  <2> QED BY <2>1, <2>2
<1>4. CASE NudgeAgain
  BY <1>4 DEF NudgeAgain
<1>5. CASE NudgeRefused \/ NudgeAccepted
  <2>1. RequestOver
    BY <1>5 DEF NudgeRefused, NudgeAccepted
  <2>2. strays' \in 0 .. MaxStrays
    BY <2>1, AnswersAssumption DEF RequestOver
  <2>3. inFlight' \in BOOLEAN /\ (inFlight' => inFlight)
    <3>1. (inFlight' = FALSE) \/ (inFlight' = inFlight)
      BY <2>1 DEF RequestOver
    <3>2. CASE inFlight' = FALSE
      BY <3>2
    <3>3. CASE inFlight' = inFlight
      BY <3>3
    <3> QED BY <3>1, <3>2, <3>3
  <2>4. /\ UNCHANGED <<polling, answers, status, nudging, restart>>
        /\ receiver' \in {receiver, "warming"}
    BY <1>5 DEF NudgeRefused, NudgeAccepted
  <2> QED BY <2>3, <2>4, <2>2 DEF Receiver
<1>6. CASE ReceiverChanges
  BY <1>6 DEF ReceiverChanges, Receiver
<1> QED BY <1>1, <1>2, <1>3, <1>4, <1>5, <1>6 DEF StatusNext

LEMMA StatusInvHolds == StatusSpec => []StatusInv
BY StatusInitInv, StatusNextInv, PTL DEF StatusSpec

\* Every variable of the status poll keeps to its type, however many answers are on
\* their way and requests outstanding.
THEOREM StatusPollTypes == StatusSpec => []StatusTypeOK
<1>1. StatusInv => StatusTypeOK
  BY DEF StatusInv
<1> QED BY <1>1, StatusInvHolds, PTL

(***************************************************************************)
(* Liveness.  Each line of the hypothesis repeats the guards of an action. *)
(***************************************************************************)
AnswerIsOpen(a) ==
  a \in answers /\ ~inFlight => ENABLED <<AnswerArrives(a)>>_statusVars

PollIsOpen ==
  /\ ~polling => ENABLED <<StartPolling>>_statusVars
  /\ polling /\ answers = {} => ENABLED <<PollAnswered>>_statusVars
  /\ nudging /\ ~inFlight => ENABLED <<NudgeAgain>>_statusVars
  /\ inFlight \/ strays > 0 => ENABLED <<NudgeAccepted>>_statusVars
  /\ \A a \in Answer : AnswerIsOpen(a)

\* A receiver that stays as it is, r; no request is under way; nothing but a poll is on.
Stuck(r) == receiver = r
Quiet(r) == Stuck(r) /\ ~inFlight /\ strays = 0
Calm(r) == Quiet(r) /\ ~nudging /\ polling

NobodyAsks(r) == <>[]Stuck(r) => <>[]Quiet(r)
NobodyNudges(r) == <>[]Quiet(r) => <>[]Calm(r)
OnItsWay(a) == a \in answers
Drains(r, a) == <>[]Calm(r) => []<>~OnItsWay(a)
IsGone(r, a) == <>[]Calm(r) => <>[]~OnItsWay(a)
IsReopened(r) == [](Stuck(r) => <>~Stuck(r))

LEMMA RequestsEnd ==
  ASSUME NEW r \in {"silent", "fault"}
  PROVE  StatusSpec /\ []PollIsOpen => NobodyAsks(r)
<1>1. <<NudgeAccepted>>_statusVars => ~Stuck(r)'
  BY DEF NudgeAccepted, Stuck
<1>2. StatusInv /\ Stuck(r) /\ PollIsOpen /\ ~Quiet(r) => ENABLED <<NudgeAccepted>>_statusVars
  BY DEF StatusInv, StatusTypeOK, Quiet, PollIsOpen
<1>3. StatusSpec => SF_statusVars(NudgeAccepted)
  BY PTL DEF StatusSpec, StatusFairness
<1> QED BY <1>1, <1>2, <1>3, StatusInvHolds, PTL DEF NobodyAsks

LEMMA IntervalEnds ==
  ASSUME NEW r \in {"silent", "fault"}
  PROVE  StatusSpec /\ []PollIsOpen => NobodyNudges(r)
<1>1. StatusInv /\ ~nudging /\ Quiet(r)' /\ [StatusNext]_statusVars => ~nudging'
  BY DEF StatusInv, StatusTypeOK, Quiet, StatusNext, StartPolling, PollAnswered, PollFails, Poll,
         AnswerArrives, NudgeAgain, NudgeRefused, NudgeAccepted, RestartIntegration,
         RestartOver, ReceiverChanges, statusVars
<1>2. polling /\ [StatusNext]_statusVars => polling'
  BY DEF StatusNext, StartPolling, PollAnswered, PollFails, Poll, AnswerArrives, NudgeAgain,
         NudgeRefused, NudgeAccepted, RestartIntegration, RestartOver, ReceiverChanges,
         statusVars
<1>3. <<NudgeAgain>>_statusVars => ~Quiet(r)'
  BY DEF NudgeAgain, Quiet
<1>4. <<StartPolling>>_statusVars => polling'
  BY DEF StartPolling
<1>5. PollIsOpen
        => /\ Quiet(r) /\ nudging => ENABLED <<NudgeAgain>>_statusVars
           /\ ~polling => ENABLED <<StartPolling>>_statusVars
  BY DEF PollIsOpen, Quiet
<1>6. StatusSpec
        => /\ [][StatusNext]_statusVars
           /\ WF_statusVars(NudgeAgain) /\ WF_statusVars(StartPolling)
  BY PTL DEF StatusSpec, StatusFairness
<1> QED BY <1>1, <1>2, <1>3, <1>4, <1>5, <1>6, StatusInvHolds, PTL DEF NobodyNudges, Calm

LEMMA AnswersAreDelivered == StatusSpec => \A a \in Answer : AnswerIsDelivered(a)
BY PTL DEF StatusSpec, StatusFairness

LEMMA AnswersDrain ==
  ASSUME NEW r \in {"silent", "fault"}, NEW b \in Answer
  PROVE  StatusSpec /\ []PollIsOpen => Drains(r, b)
<1>1. <<AnswerArrives(b)>>_statusVars => ~OnItsWay(b)'
  BY DEF AnswerArrives, OnItsWay
<1>2. PollIsOpen /\ Calm(r) /\ OnItsWay(b) => ENABLED <<AnswerArrives(b)>>_statusVars
  <2>1. PollIsOpen => AnswerIsOpen(b)
    BY DEF PollIsOpen
  <2> QED BY <2>1 DEF AnswerIsOpen, Calm, Quiet, OnItsWay
<1>3. StatusSpec => AnswerIsDelivered(b)
  <2>1. (\A a \in Answer : AnswerIsDelivered(a)) => AnswerIsDelivered(b)
    BY Zenon
  <2> QED BY <2>1, AnswersAreDelivered, Zenon
<1> QED BY <1>1, <1>2, <1>3, PTL DEF Drains, AnswerIsDelivered

\* The answers of the receiver go, since no poll brings one but of the state it is in,
\* and that answer would start the interval.
LEMMA OldAnswersGo ==
  ASSUME NEW r \in {"silent", "fault"}, NEW a \in Receiver
  PROVE  StatusSpec /\ []PollIsOpen => IsGone(r, a)
<1>1. CASE a # r
  <2>1. Calm(r) /\ ~OnItsWay(a) /\ [StatusNext]_statusVars => ~OnItsWay(a)'
    <3>1. a # "unavailable"
      BY DEF Receiver
    <3>2. [StatusNext]_statusVars
            => \/ PollAnswered \/ PollFails \/ answers' \subseteq answers
      BY DEF StatusNext, StartPolling, AnswerArrives, NudgeAgain, NudgeRefused,
             NudgeAccepted, RestartIntegration, RestartOver, ReceiverChanges, statusVars
    <3>3. Calm(r) /\ (PollAnswered \/ PollFails) => answers' \subseteq answers \cup {r, "unavailable"}
      <4>1. Calm(r) /\ PollAnswered => answers' = answers \cup {r}
        BY DEF Calm, Quiet, Stuck, PollAnswered, Poll
      <4>2. PollFails => answers' = answers \cup {"unavailable"}
        BY DEF PollFails, Poll
      <4> QED BY <4>1, <4>2
    <3>4. Calm(r) /\ [StatusNext]_statusVars => answers' \subseteq answers \cup {r, "unavailable"}
      BY <3>2, <3>3
    <3> QED BY <1>1, <3>1, <3>4 DEF OnItsWay
  <2>2. StatusSpec /\ []PollIsOpen => Drains(r, a)
    BY AnswersDrain DEF Answer
  <2>3. StatusSpec => [][StatusNext]_statusVars
    BY PTL DEF StatusSpec
  <2> QED BY <2>1, <2>2, <2>3, PTL DEF Drains, IsGone
<1>2. CASE a = r
  <2>1. StatusInv /\ Calm(r) /\ Calm(r)' /\ OnItsWay(a) /\ [StatusNext]_statusVars
          => OnItsWay(a)'
    BY <1>2
       DEF StatusInv, IntervalFollowsStatus, Stale,
           Calm, OnItsWay, StatusNext, StartPolling, PollAnswered, PollFails, Poll,
           AnswerArrives, NudgeAgain, NudgeRefused, NudgeAccepted, RestartIntegration,
           RestartOver, ReceiverChanges, statusVars
  <2>2. StatusSpec /\ []PollIsOpen => Drains(r, a)
    BY AnswersDrain DEF Answer
  <2>3. StatusSpec => [][StatusNext]_statusVars
    BY PTL DEF StatusSpec
  <2> QED BY <2>1, <2>2, <2>3, StatusInvHolds, PTL DEF Drains, IsGone
<1> QED BY <1>1, <1>2

LEMMA StuckReceiverIsReopened ==
  ASSUME NEW r \in {"silent", "fault"}
  PROVE  StatusSpec /\ []PollIsOpen => IsReopened(r)
<1>1. StatusTypeOK /\ ~(answers = {})
        => \/ OnItsWay("live") \/ OnItsWay("warming") \/ OnItsWay("silent")
           \/ OnItsWay("fault") \/ OnItsWay("unavailable")
  BY DEF StatusTypeOK, Answer, Receiver, OnItsWay
<1>2. StatusSpec /\ []PollIsOpen => IsGone(r, "live")
  BY OldAnswersGo DEF Receiver
<1>3. StatusSpec /\ []PollIsOpen => IsGone(r, "warming")
  BY OldAnswersGo DEF Receiver
<1>4. StatusSpec /\ []PollIsOpen => IsGone(r, "silent")
  BY OldAnswersGo DEF Receiver
<1>5. StatusSpec /\ []PollIsOpen => IsGone(r, "fault")
  BY OldAnswersGo DEF Receiver
<1>6. StatusSpec /\ []PollIsOpen => Drains(r, "unavailable")
  BY AnswersDrain DEF Answer
<1>7. PollIsOpen /\ Calm(r) /\ answers = {} => ENABLED <<PollAnswered>>_statusVars
  BY DEF PollIsOpen, Calm
<1>8. Calm(r) /\ <<PollAnswered>>_statusVars
        => OnItsWay("silent")' \/ OnItsWay("fault")'
  BY DEF Calm, Quiet, Stuck, OnItsWay, PollAnswered, Poll
<1>9. StatusSpec => SF_statusVars(PollAnswered)
  BY PTL DEF StatusSpec, StatusFairness
<1>10. StatusSpec /\ []PollIsOpen => NobodyAsks(r) /\ NobodyNudges(r)
  BY RequestsEnd, IntervalEnds
<1>11. StatusSpec => []StatusTypeOK
  BY StatusPollTypes
<1> QED BY <1>1, <1>2, <1>3, <1>4, <1>5, <1>6, <1>7, <1>8, <1>9, <1>10, <1>11, PTL
        DEF IsGone, Drains, NobodyAsks, NobodyNudges, IsReopened

(***************************************************************************)
(* A receiver that stopped sending, or broke, is reopened in the end       *)
(* (lib/useSpectrumStatus.ts), whatever answers are late and whatever      *)
(* requests fail: if it stayed as it is and no request went out, the old   *)
(* answers would drain, the poll would bring its state, and the effect     *)
(* would ask.                                                              *)
(***************************************************************************)
THEOREM StalledReceiverIsReopened ==
  StatusSpec /\ []PollIsOpen => StalledReceiverReopened
<1>1. StatusSpec /\ []PollIsOpen => IsReopened("silent") /\ IsReopened("fault")
  <2>1. StatusSpec /\ []PollIsOpen => IsReopened("silent")
    BY StuckReceiverIsReopened
  <2>2. StatusSpec /\ []PollIsOpen => IsReopened("fault")
    BY StuckReceiverIsReopened
  <2> QED BY <2>1, <2>2
<1>2. /\ Stuck("silent") /\ [StatusNext]_statusVars => Stuck("silent")' \/ ~ReceiverStalled'
      /\ Stuck("fault") /\ [StatusNext]_statusVars => Stuck("fault")' \/ ~ReceiverStalled'
  BY DEF Stuck, ReceiverStalled, StatusNext, StartPolling, PollAnswered, PollFails, Poll,
         AnswerArrives, NudgeAgain, NudgeRefused, NudgeAccepted, RestartIntegration,
         RestartOver, ReceiverChanges, statusVars
<1>3. ReceiverStalled <=> Stuck("silent") \/ Stuck("fault")
  BY DEF ReceiverStalled, Stuck
<1>4. StatusSpec => [][StatusNext]_statusVars
  BY PTL DEF StatusSpec
<1> QED BY <1>1, <1>2, <1>3, <1>4, PTL DEF StalledReceiverReopened, IsReopened
=============================================================================

--------------------------- MODULE WsBridgeProofs ---------------------------
(***************************************************************************)
(* Theorems about the frame bridge, for any set of browsers, any size of   *)
(* their queues and any number of frames, opens and outages.               *)
(***************************************************************************)
EXTENDS WsBridge, FiniteSetTheorems, TLAPS

\* What TypeOK says of the connection and of the tasks around it.
LinkTypes ==
  /\ path \in {"spectrum", "goes"} /\ up \in BOOLEAN
  /\ outages \in 0 .. MaxOutages
  /\ task \in {"dial", "open", "sleep", "none", "done"}
  /\ closing \in BOOLEAN /\ abandoned \in BOOLEAN /\ connected \in BOOLEAN
  /\ idle \in {"none", "asleep", "closing"}
  /\ frames \in 0 .. MaxFrames
  /\ service \in {"serving", "stopping", "stopped"}

\* What TypeOK says of the sockets.
TabTypes ==
  /\ tab \in [Tab -> {"away", "reset", "subscribed"}]
  /\ opening \subseteq Subscribers
  /\ waiting \in 0 .. MaxOpens

\* An open upstream loop has said so.
OpenIsConnected == task = "open" => connected

\* A service that is away, or a loop that has returned, is the end of an outage.
OutageIsCounted == ~up \/ task = "done" => outages > 0

\* The frame that is cached is the newest there was.
CacheIsNewest == latest # 0 => latest = frames

\* The _ensure_running tasks are those that have begun and those that have not.
OpensAreFew ==
  /\ IsFiniteSet(opening)
  /\ Cardinality(opening) + waiting <= MaxOpens

LinkInv ==
  /\ LinkTypes
  /\ OneLoop
  /\ OpenIsConnected
  /\ OutageIsCounted
  /\ CacheNeedsLink
  /\ CacheIsNewest

TabInv ==
  /\ TabTypes
  /\ OpensAreFew
  /\ TabsHaveLoop

-----------------------------------------------------------------------------
(* The connection: no invariant of it needs one of the sockets.            *)

LEMMA BridgeBounds ==
  /\ QueueSize \in Nat /\ QueueSize # 0
  /\ MaxFrames \in Nat /\ MaxOpens \in Nat /\ MaxOutages \in Nat
BY WsBridgeAssumption

LEMMA LinkInit == Init => LinkInv
<1> SUFFICES ASSUME Init PROVE LinkInv
  OBVIOUS
<1>1. LinkTypes
  <2>1. outages \in 0 .. MaxOutages /\ frames \in 0 .. MaxFrames
    BY BridgeBounds DEF Init
  <2> QED BY <2>1 DEF Init, LinkTypes
<1>2. OneLoop /\ OpenIsConnected /\ CacheNeedsLink /\ CacheIsNewest
  BY DEF Init, OneLoop, OpenIsConnected, CacheNeedsLink, CacheIsNewest
<1>3. OutageIsCounted
  <2>1. outages \in {0, 1} /\ up = (outages = 0) /\ task = "none"
    BY DEF Init
  <2>2. outages = 0 \/ outages > 0
    BY <2>1
  <2> QED BY <2>1, <2>2 DEF OutageIsCounted
<1> QED BY <1>1, <1>2, <1>3 DEF LinkInv

\* _cancel_task_locked: an open loop is on its way out before the lock goes, and one
\* that has returned takes the cached frame with it.
LEMMA CancelInv ==
  ASSUME LinkInv, ~closing, CancelTask
  PROVE  /\ task' = "none" /\ closing' \in BOOLEAN /\ connected' \in BOOLEAN
         /\ latest' # 0 => connected' /\ latest' = frames
<1>1. CASE task \in Live /\ closing' = TRUE /\ UNCHANGED <<connected, latest>>
  BY <1>1 DEF LinkInv, LinkTypes, CancelTask, CacheNeedsLink, CacheIsNewest
<1>2. CASE task = "done" /\ connected' = FALSE /\ latest' = 0 /\ UNCHANGED closing
  BY <1>2 DEF LinkInv, LinkTypes, CancelTask
<1> QED BY <1>1, <1>2 DEF CancelTask

LEMMA LinkKept ==
  ASSUME LinkInv, UNCHANGED <<task, closing, connected, latest, frames>>, LinkTypes',
         UNCHANGED <<up, outages>> \/ OutageIsCounted'
  PROVE  LinkInv'
<1>1. OneLoop' /\ OpenIsConnected' /\ OutageIsCounted'
  BY DEF LinkInv, OneLoop, OpenIsConnected, OutageIsCounted
<1>2. CacheNeedsLink' /\ CacheIsNewest'
  BY DEF LinkInv, CacheNeedsLink, CacheIsNewest
<1> QED BY <1>1, <1>2 DEF LinkInv

LEMMA LinkNext == LinkInv /\ [Next]_vars => LinkInv'
<1> SUFFICES ASSUME LinkInv, [Next]_vars PROVE LinkInv'
  OBVIOUS
<1> USE DEF LinkInv, LinkTypes, OneLoop, OpenIsConnected, OutageIsCounted, CacheNeedsLink,
           CacheIsNewest
<1>1. ASSUME NEW t \in Tab, Arrive(t) PROVE LinkInv'
  BY <1>1 DEF Arrive, Subscribe, world
<1>2. ASSUME NEW t \in Tab, ResetDone(t) PROVE LinkInv'
  BY <1>2 DEF ResetDone, Subscribe, world
<1>3. ASSUME NEW t \in Tab, Leave(t) PROVE LinkInv'
  <2>1. idle' \in {"none", "asleep", "closing"}
    BY <1>3 DEF Leave
  <2>2. UNCHANGED <<path, up, outages, abandoned, task, closing, connected, latest, frames, service>>
    BY <1>3 DEF Leave, world
  <2>3. LinkTypes'
    BY <2>1, <2>2
  <2> HIDE DEF LinkInv, LinkTypes
  <2> QED BY <2>2, <2>3, LinkKept
<1>4. ASSUME NEW t \in Tab, Send(t) \/ OpenBegins(t) PROVE LinkInv'
  <2>1. idle' \in {"none", "asleep", "closing"} /\ abandoned' \in BOOLEAN
    BY <1>4 DEF Send, OpenBegins, CancelIdleClose, world
  <2>2. UNCHANGED <<path, up, outages, task, closing, connected, latest, frames, service>>
    BY <1>4 DEF Send, OpenBegins, world, feed
  <2>3. LinkTypes'
    BY <2>1, <2>2
  <2> HIDE DEF LinkInv, LinkTypes
  <2> QED BY <2>2, <2>3, LinkKept
<1>5. CASE OpenLocked
  <2>1. task' \in {task, "dial"}
    BY <1>5 DEF OpenLocked
  <2> QED BY <1>5, <2>1 DEF OpenLocked, world, feed
<1>6. CASE IdleFires
  <2>1. CASE CancelTask
    <3>1. ~closing
      BY <1>6 DEF IdleFires
    <3> QED BY <1>6, <2>1, <3>1, CancelInv DEF IdleFires, world, feed
  <2>2. CASE UNCHANGED <<task, closing, connected, latest>>
    BY <1>6, <2>2 DEF IdleFires, world, feed
  <2> QED BY <1>6, <2>1, <2>2 DEF IdleFires
<1>7. CASE Closed
  BY <1>7 DEF Closed, world, feed
<1>8. CASE Stop \/ Forgotten
  <2>1. idle' \in {"none", "asleep", "closing"} /\ abandoned' \in BOOLEAN
        /\ service' \in {"stopping", service}
    BY <1>8 DEF Stop, Forgotten, CancelIdleClose
  <2>2. UNCHANGED <<path, up, outages, task, closing, connected, latest, frames>>
    BY <1>8 DEF Stop, Forgotten, feed
  <2>3. LinkTypes'
    BY <2>1, <2>2
  <2> HIDE DEF LinkInv, LinkTypes
  <2> QED BY <2>2, <2>3, LinkKept
<1>9. CASE StopLocked
  <2>1. CASE CancelTask
    <3>1. ~closing
      BY <1>9 DEF StopLocked
    <3> QED BY <1>9, <2>1, <3>1, CancelInv DEF StopLocked, world, feed
  <2>2. CASE UNCHANGED <<task, closing, connected, latest>>
    BY <1>9, <2>2 DEF StopLocked, world, feed
  <2> QED BY <1>9, <2>1, <2>2 DEF StopLocked
<1>10. CASE Dialled
  BY <1>10 DEF Dialled, world, feed
<1>11. CASE Frame
  BY <1>11, BridgeBounds DEF Frame, world
<1>12. CASE Lost
  <2>1. task' \in {"done", "sleep"}
    BY <1>12 DEF Lost
  <2> QED BY <1>12, <2>1 DEF Lost, world, feed
<1>13. CASE Redial
  <2>1. LinkTypes'
    BY <1>13 DEF Redial, world, feed
  <2>2. OneLoop' /\ OpenIsConnected' /\ OutageIsCounted'
    BY <1>13 DEF Redial, world
  <2>3. CacheNeedsLink' /\ CacheIsNewest'
    BY <1>13 DEF Redial, feed
  <2> HIDE DEF LinkTypes, OneLoop, OpenIsConnected, OutageIsCounted, CacheNeedsLink, CacheIsNewest
  <2> QED BY <2>1, <2>2, <2>3
<1>14. CASE Down
  <2>1. outages' \in 0 .. MaxOutages
    BY <1>14, BridgeBounds DEF Down
  <2>2. UNCHANGED <<path, idle, abandoned, task, closing, connected, latest, frames, service>>
    BY <1>14 DEF Down, feed
  <2>3. LinkTypes'
    BY <1>14, <2>1, <2>2 DEF Down
  <2>4. outages' > 0
    BY <1>14, BridgeBounds DEF Down
  <2>5. OutageIsCounted'
    BY <2>4
  <2> HIDE DEF LinkInv, LinkTypes
  <2> QED BY <2>2, <2>3, <2>5, LinkKept
<1>15. CASE Up
  <2>1. UNCHANGED <<path, outages, idle, abandoned, task, closing, connected, latest, frames, service>>
    BY <1>15 DEF Up, feed
  <2>2. LinkTypes' /\ OutageIsCounted'
    BY <1>15, <2>1 DEF Up
  <2> HIDE DEF LinkInv, LinkTypes
  <2> QED BY <2>1, <2>2, LinkKept
<1>16. CASE UNCHANGED vars
  <2>1. LinkTypes'
    BY <1>16 DEF vars
  <2>2. UNCHANGED <<up, outages, task, closing, connected, latest, frames>>
    BY <1>16 DEF vars
  <2> HIDE DEF LinkInv, LinkTypes
  <2> QED BY <2>1, <2>2, LinkKept
<1> QED
  BY <1>1, <1>2, <1>3, <1>4, <1>5, <1>6, <1>7, <1>8, <1>9, <1>10, <1>11, <1>12, <1>13,
     <1>14, <1>15, <1>16 DEF Next
-----------------------------------------------------------------------------
(* The sockets and the tasks that open the connection for them.            *)

LEMMA TabInit == Init => TabInv
<1> SUFFICES ASSUME Init PROVE TabInv
  OBVIOUS
<1>1. opening = {} /\ waiting = 0 /\ Subscribers = {}
  BY DEF Init, Subscribers
<1>2. TabTypes
  BY <1>1, BridgeBounds DEF Init, TabTypes
<1>3. OpensAreFew
  BY <1>1, BridgeBounds, FS_EmptySet DEF OpensAreFew
<1> QED BY <1>1, <1>2, <1>3 DEF TabInv, TabsHaveLoop

LEMMA OpensAreCounted ==
  ASSUME TabInv
  PROVE  Cardinality(opening) \in Nat /\ waiting \in Nat
BY FS_CardinalityType, BridgeBounds DEF TabInv, OpensAreFew, TabTypes

\* A socket that subscribes brings its own _ensure_running.
LEMMA SubscribeInv ==
  ASSUME TabInv, NEW t \in Tab, NEW cached, Subscribe(t, cached),
         UNCHANGED <<waiting, task, service>>
  PROVE  TabInv'
<1>1. Subscribers' = Subscribers \cup {t}
  BY DEF Subscribe, Subscribers, TabInv, TabTypes
<1>2. TabTypes'
  BY <1>1 DEF Subscribe, TabInv, TabTypes
<1>3. IsFiniteSet(opening') /\ Cardinality(opening') <= Cardinality(opening) + 1
  <2>1. opening' \in {opening, opening \cup {t}}
    BY DEF Subscribe
  <2>2. IsFiniteSet(opening)
    BY DEF TabInv, OpensAreFew
  <2>3. CASE opening' = opening
    BY <2>2, <2>3, OpensAreCounted
  <2>4. CASE opening' = opening \cup {t}
    <3>1. IsFiniteSet(opening \cup {t})
      BY <2>2, FS_AddElement
    <3>2. Cardinality(opening \cup {t}) <= Cardinality(opening) + 1
      BY <2>2, FS_AddElement, OpensAreCounted
    <3> QED BY <2>4, <3>1, <3>2
  <2> QED BY <2>1, <2>3, <2>4
<1>4. OpensAreFew'
  <2>1. Cardinality(opening') \in Nat
    BY <1>3, FS_CardinalityType
  <2>2. Cardinality(opening) + waiting < MaxOpens
    BY DEF Subscribe
  <2> QED BY <1>3, <2>1, <2>2, OpensAreCounted, BridgeBounds DEF OpensAreFew
<1>5. TabsHaveLoop'
  <2>1. CASE ShuttingDown
    BY <2>1 DEF TabsHaveLoop, ShuttingDown
  <2>2. CASE ~ShuttingDown
    BY <2>2 DEF Subscribe, TabsHaveLoop
  <2> QED BY <2>1, <2>2
<1> QED BY <1>2, <1>4, <1>5 DEF TabInv

\* A step that leaves the sockets and their tasks alone, and takes no loop away from
\* browsers.
LEMMA TabKept ==
  ASSUME TabInv, UNCHANGED <<tab, opening, waiting>>,
         ShuttingDown => ShuttingDown',
         \/ UNCHANGED <<task, outages>>
         \/ Subscribers = {} \/ ShuttingDown
         \/ task' \in Live \/ (task' = "done" /\ outages' > 0)
         \/ UNCHANGED task /\ outages' > 0
  PROVE  TabInv'
<1>1. Subscribers' = Subscribers
  BY DEF Subscribers
<1>2. TabTypes' /\ OpensAreFew'
  BY <1>1 DEF TabInv, TabTypes, OpensAreFew
<1>3. TabsHaveLoop'
  BY <1>1 DEF TabInv, TabsHaveLoop, Live
<1> QED BY <1>2, <1>3 DEF TabInv

\* _cancel_task_locked runs only while nobody is subscribed, or on the way out.
LEMMA TabNext == LinkInv /\ TabInv /\ [Next]_vars => TabInv'
<1> SUFFICES ASSUME LinkInv, TabInv, [Next]_vars PROVE TabInv'
  OBVIOUS
<1>1. ASSUME NEW t \in Tab, Arrive(t) PROVE TabInv'
  <2>1. CASE \E cached : Subscribe(t, cached)
    BY <1>1, <2>1, SubscribeInv DEF Arrive
  <2>2. CASE tab' = [tab EXCEPT ![t] = "reset"] /\ UNCHANGED opening
    <3>1. Subscribers' = Subscribers
      BY <1>1, <2>2 DEF Arrive, Subscribers, TabInv, TabTypes
    <3>2. TabTypes' /\ OpensAreFew'
      BY <1>1, <2>2, <3>1 DEF Arrive, TabInv, TabTypes, OpensAreFew
    <3>3. TabsHaveLoop'
      BY <1>1, <2>2, <3>1 DEF Arrive, TabInv, TabsHaveLoop, ShuttingDown, world
    <3> QED BY <3>2, <3>3 DEF TabInv
  <2> QED BY <1>1, <2>1, <2>2 DEF Arrive
<1>2. ASSUME NEW t \in Tab, ResetDone(t) PROVE TabInv'
  <2>1. CASE Subscribe(t, 0)
    BY <1>2, <2>1, SubscribeInv DEF ResetDone
  <2>2. CASE tab' = [tab EXCEPT ![t] = "away"] /\ UNCHANGED opening
    <3>1. Subscribers' = Subscribers
      BY <1>2, <2>2 DEF ResetDone, Subscribers, TabInv, TabTypes
    <3>2. TabTypes' /\ OpensAreFew'
      BY <1>2, <2>2, <3>1 DEF ResetDone, TabInv, TabTypes, OpensAreFew
    <3>3. TabsHaveLoop'
      BY <1>2, <2>2, <3>1 DEF ResetDone, TabInv, TabsHaveLoop, ShuttingDown, world
    <3> QED BY <3>2, <3>3 DEF TabInv
  <2> QED BY <1>2, <2>1, <2>2 DEF ResetDone
<1>3. ASSUME NEW t \in Tab, Leave(t) PROVE TabInv'
  <2>1. Subscribers' = Subscribers \ {t} /\ t \notin opening
    BY <1>3 DEF Leave, Subscribers, TabInv, TabTypes
  <2>2. TabTypes' /\ OpensAreFew'
    BY <1>3, <2>1 DEF Leave, TabInv, TabTypes, OpensAreFew
  <2>3. TabsHaveLoop'
    BY <1>3, <2>1 DEF Leave, TabInv, TabsHaveLoop, ShuttingDown, world
  <2> QED BY <2>2, <2>3 DEF TabInv
<1>4. ASSUME NEW t \in Tab, Send(t) PROVE TabInv'
  BY <1>4, TabKept DEF Send, ShuttingDown, world
<1>5. ASSUME NEW t \in Tab, OpenBegins(t) PROVE TabInv'
  <2>1. Subscribers' = Subscribers
    BY <1>5 DEF OpenBegins, Subscribers
  <2>2. IsFiniteSet(opening') /\ Cardinality(opening') = Cardinality(opening) - 1
    BY <1>5, FS_RemoveElement DEF OpenBegins, TabInv, OpensAreFew
  <2>3. Cardinality(opening') \in Nat /\ waiting' = waiting + 1
    BY <1>5, <2>2, FS_CardinalityType DEF OpenBegins
  <2>4. OpensAreFew'
    BY <2>2, <2>3, OpensAreCounted, BridgeBounds DEF TabInv, OpensAreFew
  <2>5. waiting' \in 1 .. MaxOpens
    BY <2>3, <2>4, OpensAreCounted, BridgeBounds DEF OpensAreFew
  <2>6. TabTypes'
    BY <1>5, <2>1, <2>5 DEF OpenBegins, TabInv, TabTypes
  <2>7. TabsHaveLoop'
    BY <2>5 DEF TabsHaveLoop
  <2> QED BY <2>4, <2>6, <2>7 DEF TabInv
<1>6. CASE OpenLocked
  <2>1. Subscribers' = Subscribers
    BY <1>6 DEF OpenLocked, Subscribers
  <2>2. waiting' \in 0 .. MaxOpens /\ waiting' <= waiting
    BY <1>6, OpensAreCounted, BridgeBounds DEF OpenLocked, TabInv, TabTypes
  <2>3. TabTypes' /\ OpensAreFew'
    BY <1>6, <2>1, <2>2, OpensAreCounted, BridgeBounds
       DEF OpenLocked, TabInv, TabTypes, OpensAreFew
  <2>4. TabsHaveLoop'
    BY <1>6, <2>1 DEF OpenLocked, TabsHaveLoop, ShuttingDown, Live, LinkInv, LinkTypes,
                      OutageIsCounted, world
  <2> QED BY <2>3, <2>4 DEF TabInv
<1>7. CASE IdleFires
  BY <1>7, TabKept DEF IdleFires, ShuttingDown, world
<1>8. CASE StopLocked
  BY <1>8, TabKept DEF StopLocked, ShuttingDown, world
<1>9. CASE Stop \/ Closed \/ Forgotten \/ Frame
  BY <1>9, TabKept DEF Stop, Closed, Forgotten, Frame, ShuttingDown, world
<1>10. CASE Dialled \/ Redial
  BY <1>10, TabKept DEF Dialled, Redial, ShuttingDown, Live
<1>11. CASE Lost
  BY <1>11, TabKept DEF Lost, ShuttingDown, Live
<1>12. CASE Down \/ Up
  <2>1. outages' > 0 \/ UNCHANGED outages
    BY <1>12, BridgeBounds DEF Down, Up, LinkInv, LinkTypes
  <2> QED BY <1>12, <2>1, TabKept DEF Down, Up, ShuttingDown
<1>13. CASE UNCHANGED vars
  BY <1>13, TabKept DEF vars, ShuttingDown
<1> QED
  BY <1>1, <1>2, <1>3, <1>4, <1>5, <1>6, <1>7, <1>8, <1>9, <1>10, <1>11, <1>12, <1>13
     DEF Next
-----------------------------------------------------------------------------
(* The frames.                                                             *)

\* What a browser was sent last, and what waits for it, of n frames published.
Rising(s, q, n) ==
  /\ \A i \in 1 .. Len(q) - 1 : q[i] < q[i + 1]
  /\ \A i \in 1 .. Len(q) : q[i] <= n
  /\ q # << >> => s < q[1] /\ q[Len(q)] = n
  /\ s <= n

FeedInv ==
  /\ queue \in [Tab -> Seq(1 .. MaxFrames)]
  /\ \A t \in Tab : Len(queue[t]) <= QueueSize
  /\ sent \in [Tab -> 0 .. MaxFrames]
  /\ frames \in 0 .. MaxFrames
  /\ latest \in {0, frames}
  /\ \A t \in Subscribers : Rising(sent[t], queue[t], frames)

LEMMA RisingNone == ASSUME NEW n \in Nat PROVE Rising(0, << >>, n)
BY DEF Rising

LEMMA RisingCached == ASSUME NEW n \in Nat, n # 0 PROVE Rising(0, << n >>, n)
BY DEF Rising

LEMMA RisingTail ==
  ASSUME NEW s \in Nat, NEW n \in Nat, NEW q \in Seq(Nat), q # << >>, Rising(s, q, n)
  PROVE  Rising(Head(q), Tail(q), n)
<1>1. Len(Tail(q)) = Len(q) - 1 /\ Len(q) \in Nat \ {0} /\ Head(q) = q[1]
      /\ Head(q) \in Nat
  OBVIOUS
<1>2. \A i \in 1 .. Len(q) - 1 : Tail(q)[i] = q[i + 1]
  BY <1>1
<1>3. \A i \in 1 .. Len(q) : q[i] \in Nat
  OBVIOUS
<1>4. \A i \in 1 .. Len(Tail(q)) - 1 : Tail(q)[i] < Tail(q)[i + 1]
  BY <1>1, <1>2 DEF Rising
<1>5. \A i \in 1 .. Len(Tail(q)) : Tail(q)[i] <= n
  BY <1>1, <1>2 DEF Rising
<1>6. Head(q) <= n
  BY <1>1 DEF Rising
<1>7. Tail(q) # << >> => Head(q) < Tail(q)[1] /\ Tail(q)[Len(Tail(q))] = n
  <2> SUFFICES ASSUME Tail(q) # << >>
               PROVE  Head(q) < Tail(q)[1] /\ Tail(q)[Len(Tail(q))] = n
    OBVIOUS
  <2>1. Len(q) >= 2
    BY <1>1
  <2>2. Tail(q)[1] = q[2] /\ Tail(q)[Len(Tail(q))] = q[Len(q)]
    BY <1>1, <1>2, <2>1
  <2> QED BY <1>1, <2>1, <2>2 DEF Rising
<1> QED BY <1>4, <1>5, <1>6, <1>7 DEF Rising

\* A new frame at the end of a queue that has room.
LEMMA RisingAppend ==
  ASSUME NEW s \in Nat, NEW n \in Nat, NEW q \in Seq(Nat), Rising(s, q, n)
  PROVE  Rising(s, Append(q, n + 1), n + 1)
<1> DEFINE r == Append(q, n + 1)
<1>1. Len(r) = Len(q) + 1 /\ Len(q) \in Nat /\ r[Len(q) + 1] = n + 1
  OBVIOUS
<1>2. \A i \in 1 .. Len(q) : r[i] = q[i] /\ q[i] \in Nat
  OBVIOUS
<1>3. \A i \in 1 .. Len(r) : r[i] <= n + 1
  BY <1>1, <1>2 DEF Rising
<1>4. \A i \in 1 .. Len(r) - 1 : r[i] < r[i + 1]
  <2> TAKE i \in 1 .. Len(r) - 1
  <2>1. CASE i = Len(q)
    BY <1>1, <1>2, <2>1 DEF Rising
  <2>2. CASE i < Len(q)
    BY <1>1, <1>2, <2>2 DEF Rising
  <2> QED BY <1>1, <2>1, <2>2
<1>5. s < r[1]
  <2>1. CASE q = << >>
    BY <1>1, <2>1 DEF Rising
  <2>2. CASE q # << >>
    <3>1. Len(q) >= 1
      BY <2>2
    <3> QED BY <1>2, <2>2, <3>1 DEF Rising
  <2> QED BY <2>1, <2>2
<1> HIDE DEF r
<1>6. Rising(s, r, n + 1)
  BY <1>1, <1>3, <1>4, <1>5 DEF Rising
<1> QED BY <1>6 DEF r

\* put_latest: what a full queue gives up is the oldest of what waits.
LEMMA RisingPut ==
  ASSUME NEW s \in Nat, NEW n \in Nat, NEW q \in Seq(Nat), Rising(s, q, n)
  PROVE  Rising(s, PutLatest(q, n + 1), n + 1)
<1>1. CASE Len(q) < QueueSize
  BY <1>1, RisingAppend DEF PutLatest
<1>2. CASE ~(Len(q) < QueueSize)
  <2>1. q # << >> /\ Tail(q) \in Seq(Nat)
    BY <1>2, BridgeBounds
  <2>2. Rising(Head(q), Tail(q), n)
    BY <2>1, RisingTail
  <2>3. s < Head(q) /\ Head(q) \in Nat
    BY <2>1 DEF Rising
  <2>4. Rising(s, Tail(q), n)
    <3>1. Tail(q) # << >> => Tail(q)[1] \in Nat
      BY <2>1
    <3> QED BY <2>2, <2>3, <3>1 DEF Rising
  <2> QED BY <1>2, <2>1, <2>4, RisingAppend DEF PutLatest
<1> QED BY <1>1, <1>2

LEMMA PutLatestType ==
  ASSUME NEW q \in Seq(1 .. MaxFrames), Len(q) <= QueueSize, NEW f \in 1 .. MaxFrames
  PROVE  PutLatest(q, f) \in Seq(1 .. MaxFrames) /\ Len(PutLatest(q, f)) <= QueueSize
<1>1. CASE Len(q) < QueueSize
  BY <1>1, BridgeBounds DEF PutLatest
<1>2. CASE ~(Len(q) < QueueSize)
  <2>1. q # << >> /\ Tail(q) \in Seq(1 .. MaxFrames) /\ Len(Tail(q)) = Len(q) - 1
    BY <1>2, BridgeBounds
  <2>2. Append(Tail(q), f) \in Seq(1 .. MaxFrames)
        /\ Len(Append(Tail(q), f)) = Len(Tail(q)) + 1
    BY <2>1
  <2> QED BY <1>2, <2>1, <2>2, BridgeBounds DEF PutLatest
<1> QED BY <1>1, <1>2

LEMMA SeqWider ==
  ASSUME NEW S, NEW T, S \subseteq T, NEW q \in Seq(S)
  PROVE  q \in Seq(T)
<1>1. q = [i \in 1 .. Len(q) |-> q[i]] /\ Len(q) \in Nat
  OBVIOUS
<1>2. \A i \in 1 .. Len(q) : q[i] \in T
  BY <1>1
<1>3. q \in [1 .. Len(q) -> T]
  BY <1>1, <1>2
<1> QED BY <1>1, <1>3

LEMMA SeqSplit ==
  ASSUME NEW S, NEW q \in Seq(S), q # << >>
  PROVE  /\ Head(q) \in S /\ Tail(q) \in Seq(S)
         /\ Len(Tail(q)) < Len(q) /\ Len(Tail(q)) \in Nat /\ Len(q) \in Nat
OBVIOUS

\* Frames are numbers, so what is said of Seq(Nat) holds of the queues.
LEMMA FeedNumbers ==
  ASSUME FeedInv, NEW t \in Tab
  PROVE  queue[t] \in Seq(Nat) /\ sent[t] \in Nat /\ frames \in Nat /\ latest \in Nat
<1>1. 1 .. MaxFrames \subseteq Nat /\ 0 .. MaxFrames \subseteq Nat
  BY BridgeBounds
<1>2. queue[t] \in Seq(1 .. MaxFrames) /\ sent[t] \in 0 .. MaxFrames
  BY DEF FeedInv
<1>3. queue[t] \in Seq(Nat)
  BY <1>1, <1>2, SeqWider
<1> QED BY <1>1, <1>2, <1>3 DEF FeedInv

LEMMA FeedInit == Init => FeedInv
<1> SUFFICES ASSUME Init PROVE FeedInv
  OBVIOUS
<1>1. queue \in [Tab -> Seq(1 .. MaxFrames)] /\ \A t \in Tab : Len(queue[t]) <= QueueSize
  BY BridgeBounds DEF Init
<1>2. sent \in [Tab -> 0 .. MaxFrames] /\ frames \in 0 .. MaxFrames /\ latest = 0
  BY BridgeBounds DEF Init
<1>3. Subscribers = {}
  BY DEF Init, Subscribers
<1> QED BY <1>1, <1>2, <1>3 DEF FeedInv

\* A newcomer starts from the cached frame, which is the newest, or from nothing.
LEMMA SubscribeFeed ==
  ASSUME FeedInv, TabInv, NEW t \in Tab, NEW cached \in {0, frames}, Subscribe(t, cached),
         UNCHANGED frames
  PROVE  FeedInv'
<1>1. cached \in Nat /\ cached <= MaxFrames /\ frames \in Nat
  BY BridgeBounds DEF FeedInv
<1> DEFINE q == IF cached = 0 THEN << >> ELSE << cached >>
<1>2. q \in Seq(1 .. MaxFrames) /\ Len(q) <= QueueSize
  <2>1. CASE cached = 0
    BY <2>1, BridgeBounds
  <2>2. CASE cached # 0
    <3>1. cached \in 1 .. MaxFrames
      BY <1>1, <2>2, BridgeBounds
    <3> QED BY <2>2, <3>1, BridgeBounds
  <2> QED BY <2>1, <2>2
<1>3. Rising(0, q, frames)
  BY <1>1, RisingNone, RisingCached
<1>4. queue' = [queue EXCEPT ![t] = q] /\ sent' = [sent EXCEPT ![t] = 0] /\ latest' = cached
  BY DEF Subscribe
<1> HIDE DEF q
<1>5. Subscribers' = Subscribers \cup {t}
  BY DEF Subscribe, Subscribers, TabInv, TabTypes
<1>6. queue' \in [Tab -> Seq(1 .. MaxFrames)] /\ \A u \in Tab : Len(queue'[u]) <= QueueSize
  BY <1>2, <1>4 DEF FeedInv
<1>7. sent' \in [Tab -> 0 .. MaxFrames] /\ frames' \in 0 .. MaxFrames
      /\ latest' \in {0, frames'}
  BY <1>4, BridgeBounds DEF FeedInv
<1>8. ASSUME NEW u \in Subscribers' PROVE Rising(sent'[u], queue'[u], frames')
  <2>1. u \in Tab
    BY DEF Subscribers
  <2>2. CASE u = t
    BY <1>3, <1>4, <2>2 DEF FeedInv
  <2>3. CASE u # t
    <3>1. sent'[u] = sent[u] /\ queue'[u] = queue[u] /\ u \in Subscribers
      BY <1>4, <1>5, <2>1, <2>3 DEF FeedInv
    <3> QED BY <3>1 DEF FeedInv
  <2> QED BY <2>2, <2>3
<1> QED BY <1>6, <1>7, <1>8 DEF FeedInv

\* A step that leaves the queues alone, and brings no subscriber.
LEMMA FeedKept ==
  ASSUME FeedInv, UNCHANGED feed, latest' \in {0, latest}, Subscribers' \subseteq Subscribers
  PROVE  FeedInv'
BY DEF FeedInv, feed

LEMMA FeedNext == FeedInv /\ TabInv /\ [Next]_vars => FeedInv'
<1> SUFFICES ASSUME FeedInv, TabInv, [Next]_vars PROVE FeedInv'
  OBVIOUS
<1>1. ASSUME NEW t \in Tab, Arrive(t) \/ ResetDone(t) PROVE FeedInv'
  <2>1. UNCHANGED frames
    BY <1>1 DEF Arrive, ResetDone
  <2>2. CASE Subscribe(t, latest) \/ Subscribe(t, 0)
    BY <2>1, <2>2, SubscribeFeed DEF FeedInv
  <2>3. CASE /\ tab' \in {[tab EXCEPT ![t] = "reset"], [tab EXCEPT ![t] = "away"]}
             /\ UNCHANGED <<queue, sent>> /\ latest' \in {0, latest}
    <3>1. Subscribers' \subseteq Subscribers
      BY <2>3 DEF Subscribers, TabInv, TabTypes
    <3> QED BY <2>1, <2>3, <3>1, FeedKept DEF feed
  <2> QED BY <1>1, <2>2, <2>3 DEF Arrive, ResetDone
<1>2. ASSUME NEW t \in Tab, Leave(t) PROVE FeedInv'
  <2>1. Subscribers' = Subscribers \ {t}
    BY <1>2 DEF Leave, Subscribers, TabInv, TabTypes
  <2>2. queue' = [queue EXCEPT ![t] = << >>] /\ UNCHANGED <<sent, frames, latest>>
    BY <1>2 DEF Leave
  <2>3. queue' \in [Tab -> Seq(1 .. MaxFrames)] /\ \A u \in Tab : Len(queue'[u]) <= QueueSize
    BY <2>2, BridgeBounds DEF FeedInv
  <2>4. ASSUME NEW u \in Subscribers' PROVE queue'[u] = queue[u] /\ u \in Subscribers
    BY <2>1, <2>2 DEF FeedInv, Subscribers
  <2> QED BY <2>2, <2>3, <2>4 DEF FeedInv
<1>3. ASSUME NEW t \in Tab, Send(t) PROVE FeedInv'
  <2>1. /\ t \in Subscribers /\ queue[t] # << >>
        /\ sent' = [sent EXCEPT ![t] = Head(queue[t])]
        /\ queue' = [queue EXCEPT ![t] = Tail(queue[t])]
        /\ UNCHANGED <<frames, latest>>
    BY <1>3 DEF Send
  <2>2. Subscribers' = Subscribers
    BY <1>3 DEF Send, Subscribers
  <2>3. /\ Head(queue[t]) \in 1 .. MaxFrames
        /\ Tail(queue[t]) \in Seq(1 .. MaxFrames)
        /\ Len(Tail(queue[t])) <= QueueSize
    <3>1. queue[t] \in Seq(1 .. MaxFrames) /\ Len(queue[t]) <= QueueSize
      BY DEF FeedInv
    <3>2. /\ Head(queue[t]) \in 1 .. MaxFrames /\ Tail(queue[t]) \in Seq(1 .. MaxFrames)
          /\ Len(Tail(queue[t])) < Len(queue[t])
          /\ Len(Tail(queue[t])) \in Nat /\ Len(queue[t]) \in Nat
      BY <2>1, <3>1, SeqSplit
    <3> QED BY <3>1, <3>2, BridgeBounds
  <2>4. queue' \in [Tab -> Seq(1 .. MaxFrames)] /\ \A u \in Tab : Len(queue'[u]) <= QueueSize
    BY <2>1, <2>3 DEF FeedInv
  <2>5. sent' \in [Tab -> 0 .. MaxFrames]
    BY <2>1, <2>3, BridgeBounds DEF FeedInv
  <2>6. ASSUME NEW u \in Subscribers PROVE Rising(sent'[u], queue'[u], frames)
    <3>1. u \in Tab /\ Rising(sent[u], queue[u], frames)
      BY DEF FeedInv, Subscribers
    <3>2. CASE u = t
      <4>1. Rising(Head(queue[t]), Tail(queue[t]), frames)
        BY <2>1, <3>1, <3>2, FeedNumbers, RisingTail
      <4> QED BY <2>1, <3>2, <4>1 DEF FeedInv
    <3>3. CASE u # t
      BY <2>1, <3>1, <3>3 DEF FeedInv
    <3> QED BY <3>2, <3>3
  <2> QED BY <2>1, <2>2, <2>4, <2>5, <2>6 DEF FeedInv
<1>4. CASE Frame
  <2>1. /\ frames' = frames + 1 /\ latest' = frames' /\ frames < MaxFrames
        /\ queue' = [t \in Tab |-> IF t \in Subscribers
                                    THEN PutLatest(queue[t], frames') ELSE queue[t]]
        /\ UNCHANGED <<tab, sent>>
    BY <1>4 DEF Frame
  <2>2. Subscribers' = Subscribers
    BY <2>1 DEF Subscribers
  <2>3. frames \in Nat /\ frames' \in 1 .. MaxFrames /\ frames' \in 0 .. MaxFrames
    BY <2>1, BridgeBounds DEF FeedInv
  <2>4. ASSUME NEW t \in Tab
        PROVE  queue'[t] \in Seq(1 .. MaxFrames) /\ Len(queue'[t]) <= QueueSize
    <3>1. queue[t] \in Seq(1 .. MaxFrames) /\ Len(queue[t]) <= QueueSize
      BY DEF FeedInv
    <3>2. CASE t \in Subscribers
      BY <2>1, <2>3, <3>1, <3>2, PutLatestType
    <3>3. CASE t \notin Subscribers
      BY <2>1, <3>1, <3>3
    <3> QED BY <3>2, <3>3
  <2>5. queue' \in [Tab -> Seq(1 .. MaxFrames)]
    BY <2>1, <2>4
  <2>6. ASSUME NEW t \in Subscribers PROVE Rising(sent'[t], queue'[t], frames')
    <3>1. t \in Tab /\ Rising(sent[t], queue[t], frames)
      BY DEF FeedInv, Subscribers
    <3>2. Rising(sent[t], PutLatest(queue[t], frames + 1), frames + 1)
      BY <3>1, FeedNumbers, RisingPut
    <3> QED BY <2>1, <3>1, <3>2
  <2> QED BY <2>1, <2>2, <2>3, <2>4, <2>5, <2>6 DEF FeedInv
<1>5. ASSUME NEW t \in Tab, OpenBegins(t) PROVE FeedInv'
  BY <1>5, FeedKept DEF OpenBegins, Subscribers
<1>6. CASE OpenLocked
  BY <1>6, FeedKept DEF OpenLocked, Subscribers
<1>7. CASE IdleFires \/ StopLocked
  BY <1>7, FeedKept DEF IdleFires, StopLocked, CancelTask, Subscribers
<1>8. CASE Closed \/ Forgotten \/ Stop \/ Dialled \/ Lost \/ Redial \/ Down \/ Up
  BY <1>8, FeedKept
     DEF Closed, Forgotten, Stop, Dialled, Lost, Redial, Down, Up, feed, Subscribers
<1>9. CASE UNCHANGED vars
  BY <1>9, FeedKept DEF vars, feed, Subscribers
<1> QED
  BY <1>1, <1>2, <1>3, <1>4, <1>5, <1>6, <1>7, <1>8, <1>9 DEF Next
-----------------------------------------------------------------------------
(* The theorems.                                                           *)

BridgeInv == LinkInv /\ TabInv /\ FeedInv

LEMMA BridgeInvHolds == Spec => []BridgeInv
<1>1. Init => BridgeInv
  BY LinkInit, TabInit, FeedInit DEF BridgeInv
<1>2. BridgeInv /\ [Next]_vars => BridgeInv'
  BY LinkNext, TabNext, FeedNext DEF BridgeInv
<1> QED BY <1>1, <1>2, PTL DEF Spec

\* The types, and with them the bound of every queue (Broadcaster, maxsize).
THEOREM BridgeTypes == Spec => []TypeOK
<1>1. BridgeInv => TypeOK
  <2> SUFFICES ASSUME BridgeInv PROVE TypeOK
    OBVIOUS
  <2>1. LinkTypes /\ TabTypes /\ FeedInv
    BY DEF BridgeInv, LinkInv, TabInv
  <2>2. latest \in 0 .. frames
    BY <2>1, BridgeBounds DEF FeedInv
  <2>3. task \in Live \cup {"none", "done"} /\ {closing, abandoned, connected} \subseteq BOOLEAN
        /\ idle \in {"none", "asleep", "closing"}
    BY <2>1 DEF LinkTypes, Live
  <2>4. path \in {"spectrum", "goes"} /\ up \in BOOLEAN /\ outages \in 0 .. MaxOutages
        /\ service \in {"serving", "stopping", "stopped"}
    BY <2>1 DEF LinkTypes
  <2> QED BY <2>1, <2>2, <2>3, <2>4 DEF TypeOK, TabTypes, FeedInv
<1> QED BY <1>1, BridgeInvHolds, PTL

(***************************************************************************)
(* A loop is begun only after the one before has ended, also when the wait *)
(* for its socket is interrupted (_lifecycle_lock around                   *)
(* _cancel_task_locked and _ensure_running): what an old loop clears on    *)
(* its way out is never the state of a new one.                            *)
(***************************************************************************)
THEOREM LoopsAreSequential == Spec => []OneLoop
<1>1. BridgeInv => OneLoop
  BY DEF BridgeInv, LinkInv
<1> QED BY <1>1, BridgeInvHolds, PTL

\* No order of arrivals, departures and idle closes leaves browsers without an
\* upstream loop that runs; only an outage can (_ensure_running, _close_after_idle).
THEOREM TabsAreServed == Spec => []TabsHaveLoop
<1>1. BridgeInv => TabsHaveLoop
  BY DEF BridgeInv, TabInv
<1> QED BY <1>1, BridgeInvHolds, PTL

\* The frame that newcomers are shown comes from the connection that is open now
\* (_latest, which _run and _cancel_task_locked clear).
THEOREM CacheFollowsLink == Spec => []CacheNeedsLink
<1>1. BridgeInv => CacheNeedsLink
  BY DEF BridgeInv, LinkInv
<1> QED BY <1>1, BridgeInvHolds, PTL

(***************************************************************************)
(* Each browser gets a rising sequence of frames that ends with the newest *)
(* one, however slow it is and whatever was replayed to it (put_latest).   *)
(***************************************************************************)
THEOREM FramesAreInOrder == Spec => []FramesInOrder
<1>1. BridgeInv => FramesInOrder
  <2> SUFFICES ASSUME FeedInv, NEW t \in Subscribers
               PROVE  LET waits == << sent[t] >> \o queue[t] IN
                      /\ \A i \in 1 .. Len(queue[t]) : waits[i] < waits[i + 1]
                      /\ queue[t] # << >> => queue[t][Len(queue[t])] = frames
    BY DEF BridgeInv, FramesInOrder
  <2>1. t \in Tab /\ Rising(sent[t], queue[t], frames)
    BY DEF FeedInv, Subscribers
  <2>2. queue[t] \in Seq(Nat) /\ sent[t] \in Nat
    BY <2>1, FeedNumbers
  <2>3. ASSUME NEW s \in Nat, NEW q \in Seq(Nat), Rising(s, q, frames)
        PROVE  \A i \in 1 .. Len(q) : (<< s >> \o q)[i] < (<< s >> \o q)[i + 1]
    <3> TAKE i \in 1 .. Len(q)
    <3>1. Len(q) \in Nat /\ (<< s >> \o q)[i + 1] = q[i]
      OBVIOUS
    <3>2. CASE i = 1
      <4>1. (<< s >> \o q)[1] = s /\ q # << >>
        BY <3>2
      <4> QED BY <2>3, <3>1, <3>2, <4>1 DEF Rising
    <3>3. CASE i > 1
      <4>1. (<< s >> \o q)[i] = q[i - 1] /\ i - 1 \in 1 .. Len(q) - 1
        BY <3>1, <3>3
      <4> QED BY <2>3, <3>1, <4>1 DEF Rising
    <3> QED BY <3>2, <3>3
  <2> QED BY <2>1, <2>2, <2>3 DEF Rising
<1> QED BY <1>1, BridgeInvHolds, PTL
-----------------------------------------------------------------------------
(***************************************************************************)
(* Liveness, from the fairness of the module.  tlapm has no rule for       *)
(* ENABLED, so that an action can be taken where its guard holds stands as *)
(* a hypothesis: each line repeats the guard of an action whose other      *)
(* conjuncts only assign.                                                  *)
(***************************************************************************)
ClosingIsOpen ==
  /\ idle = "asleep" /\ ~closing => ENABLED <<IdleFires>>_vars
  /\ service = "stopping" /\ ~closing => ENABLED <<StopLocked>>_vars
  /\ closing => ENABLED <<Closed>>_vars

\* A loop that nobody watches has an idle close ahead of it, or the stop; after the
\* stop there is none.
LoopIsDoomed ==
  /\ Subscribers = {} /\ task # "none" /\ service = "serving"
       => idle = "asleep"
  /\ service = "stopped" => task = "none"
  /\ idle = "closing" => closing

LEMMA DoomNext == BridgeInv /\ LoopIsDoomed /\ [Next]_vars => LoopIsDoomed'
<1> SUFFICES ASSUME LinkTypes, OneLoop, TabTypes, LoopIsDoomed, [Next]_vars
             PROVE  LoopIsDoomed'
  BY DEF BridgeInv, LinkInv, TabInv
<1> USE DEF LoopIsDoomed
<1>1. ASSUME NEW t \in Tab, Arrive(t) \/ ResetDone(t) PROVE LoopIsDoomed'
  <2>1. UNCHANGED <<task, idle, closing, service>>
    BY <1>1 DEF Arrive, ResetDone
  <2>2. Subscribers' = {} => Subscribers = {}
    <3>1. CASE UNCHANGED tab
      BY <3>1 DEF Subscribers
    <3>2. CASE tab' = [tab EXCEPT ![t] = "subscribed"]
      BY <3>2 DEF Subscribers, TabTypes
    <3>3. CASE tab[t] # "subscribed" /\ tab' \in {[tab EXCEPT ![t] = x] : x \in {"reset", "away"}}
      BY <3>3 DEF Subscribers, TabTypes
    <3> QED BY <1>1, <3>1, <3>2, <3>3 DEF Arrive, ResetDone, Subscribe
  <2> QED BY <2>1, <2>2
<1>2. ASSUME NEW t \in Tab, Leave(t) PROVE LoopIsDoomed'
  <2>1. Subscribers' = Subscribers \ {t} /\ t \in Subscribers
    BY <1>2 DEF Leave, Subscribers, TabTypes
  <2>2. Subscribers' = {} => Subscribers = {t}
    BY <2>1
  <2> QED BY <1>2, <2>1, <2>2 DEF Leave, ShuttingDown
<1>3. ASSUME NEW t \in Tab, OpenBegins(t) PROVE LoopIsDoomed'
  <2>1. Subscribers' = Subscribers /\ Subscribers # {}
    BY <1>3 DEF OpenBegins, Subscribers, TabTypes
  <2> QED BY <1>3, <2>1 DEF OpenBegins, CancelIdleClose
<1>4. CASE OpenLocked
  BY <1>4 DEF OpenLocked, Subscribers, ShuttingDown
<1>5. CASE IdleFires
  BY <1>5 DEF IdleFires, CancelTask, Subscribers, ShuttingDown, LinkTypes
<1>6. CASE StopLocked \/ Stop
  BY <1>6 DEF StopLocked, Stop, CancelTask, CancelIdleClose, Subscribers, OneLoop
<1>7. CASE \/ Closed \/ Forgotten \/ Dialled \/ Frame \/ Lost \/ Redial \/ Down \/ Up \/ UNCHANGED vars
           \/ \E t \in Tab : Send(t)
  BY <1>7
     DEF Closed, Forgotten, Dialled, Frame, Lost, Redial, Down, Up, vars, Send, Subscribers
<1> QED BY <1>1, <1>2, <1>3, <1>4, <1>5, <1>6, <1>7 DEF Next

\* The stations on the way out: nobody watches a loop, in service or while the service
\* stops; then the loop is cancelled, and closes.
Unwatched == Subscribers = {} /\ task \in Live /\ service = "serving"
Stopping == Subscribers = {} /\ task \in Live /\ service = "stopping"
Leaving == Subscribers = {} /\ closing
Released == Subscribers # {} \/ (task \notin Live /\ ~closing)

LEMMA ReleaseStep ==
  ASSUME LinkTypes, TabTypes, OneLoop, LoopIsDoomed, [Next]_vars
  PROVE  /\ Unwatched => Unwatched' \/ Stopping' \/ Leaving' \/ Released'
         /\ Stopping => Stopping' \/ Leaving' \/ Released'
         /\ Leaving => Leaving' \/ Released'
<1> SUFFICES ASSUME Subscribers = {}, Subscribers' = {}
             PROVE  /\ Unwatched => Unwatched' \/ Stopping' \/ Leaving' \/ Released'
                    /\ Stopping => Stopping' \/ Leaving' \/ Released'
                    /\ Leaving => Leaving' \/ Released'
  BY DEF Unwatched, Stopping, Leaving, Released
<1> USE DEF Unwatched, Stopping, Leaving, Released, Live
<1>1. ASSUME NEW t \in Tab, Arrive(t) \/ ResetDone(t) \/ Leave(t) \/ Send(t) \/ OpenBegins(t)
      PROVE  UNCHANGED <<task, closing, service>>
  BY <1>1 DEF Arrive, ResetDone, Leave, Send, OpenBegins
<1>2. CASE OpenLocked
  BY <1>2 DEF OpenLocked, OneLoop
<1>3. CASE IdleFires \/ StopLocked
  BY <1>3 DEF IdleFires, StopLocked, CancelTask, OneLoop, LinkTypes
<1>4. CASE \/ Closed \/ Forgotten \/ Stop \/ Dialled \/ Frame \/ Lost \/ Redial \/ Down \/ Up
           \/ UNCHANGED vars
  BY <1>4 DEF Closed, Forgotten, Stop, Dialled, Frame, Lost, Redial, Down, Up, vars, OneLoop
<1> QED BY <1>1, <1>2, <1>3, <1>4 DEF Next

(***************************************************************************)
(* Once nobody watches, the connection to the hardware service is given up *)
(* or somebody watches again: the idle close is armed and fires, or the    *)
(* stop cancels the loop, and the socket of a cancelled loop is closed.    *)
(***************************************************************************)
THEOREM UpstreamIsReleased == FairSpec /\ []ClosingIsOpen => UpstreamReleased
<1> DEFINE Inv == LinkTypes /\ TabTypes /\ OneLoop /\ LoopIsDoomed
<1>1. Spec => []Inv
  <2>1. Init => LoopIsDoomed
    BY DEF Init, LoopIsDoomed
  <2>2. BridgeInv /\ LoopIsDoomed => Inv
    BY DEF BridgeInv, LinkInv, TabInv
  <2> HIDE DEF Inv
  <2> QED BY <2>1, <2>2, DoomNext, BridgeInvHolds, PTL DEF Spec
<1>2. Inv /\ [Next]_vars
        => /\ Unwatched => Unwatched' \/ Stopping' \/ Leaving' \/ Released'
           /\ Stopping => Stopping' \/ Leaving' \/ Released'
           /\ Leaving => Leaving' \/ Released'
  BY ReleaseStep
<1>3. Inv /\ Unwatched /\ <<IdleFires>>_vars => Leaving' \/ Released'
  BY DEF Unwatched, Leaving, Released, IdleFires, CancelTask, Live, ShuttingDown
<1>4. Inv /\ Stopping /\ <<StopLocked>>_vars => Leaving' \/ Released'
  BY DEF Stopping, Leaving, Released, StopLocked, CancelTask, Live
<1>5. Inv /\ Leaving /\ <<Closed>>_vars => Released'
  BY DEF Leaving, Released, Closed, OneLoop, Live
<1>6. Inv /\ ClosingIsOpen
        => /\ Unwatched => ENABLED <<IdleFires>>_vars
           /\ Stopping => ENABLED <<StopLocked>>_vars
           /\ Leaving => ENABLED <<Closed>>_vars
  <2>1. Inv /\ (Unwatched \/ Stopping) => ~closing
    BY DEF Unwatched, Stopping, OneLoop, Live
  <2>2. Inv /\ Unwatched => idle = "asleep"
    BY DEF Unwatched, LoopIsDoomed, Live
  <2> HIDE DEF Inv
  <2> QED BY <2>1, <2>2 DEF ClosingIsOpen, Stopping, Leaving
<1>7. FairSpec => Spec /\ WF_vars(IdleFires) /\ WF_vars(StopLocked) /\ WF_vars(Closed)
  BY PTL DEF FairSpec, Fairness
<1>8. Inv /\ Subscribers = {} => Unwatched \/ Stopping \/ Leaving \/ Released
  BY DEF LinkTypes, Unwatched, Stopping, Leaving, Released, LoopIsDoomed, Live
<1> HIDE DEF Inv
<1>9. FairSpec /\ []ClosingIsOpen => (Subscribers = {} ~> Released)
  BY <1>1, <1>2, <1>3, <1>4, <1>5, <1>6, <1>7, <1>8, PTL DEF Spec
<1> QED BY <1>9 DEF UpstreamReleased, Released
=============================================================================

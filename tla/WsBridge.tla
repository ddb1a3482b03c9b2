------------------------------ MODULE WsBridge ------------------------------
(***************************************************************************)
(* One JsonWsBridge of the platform: it holds a single WebSocket to the    *)
(* hardware service while browsers watch, and hands every frame to each of *)
(* them.  platform/src/rt_platform/services/ws_bridge.py and _pubsub.py,   *)
(* with the handlers of /ws/spectrum and /ws/goes.                         *)
(*                                                                         *)
(* All of it runs on one event loop; an action is what a task does from    *)
(* one await to the next.  _lifecycle_lock is held across an await only    *)
(* while a connection is being closed, so `closing' is the lock.           *)
(***************************************************************************)
EXTENDS Integers, Sequences, FiniteSets

CONSTANTS Tab,          \* browser sockets
          QueueSize,    \* default_maxsize of a Broadcaster
          MaxFrames,    \* bound: frames published
          MaxOpens,     \* bound: _ensure_running tasks at one time
          MaxOutages    \* bound: losses of the hardware service

ASSUME WsBridgeAssumption ==
  /\ QueueSize \in Nat \ {0}
  /\ {MaxFrames, MaxOpens, MaxOutages} \subseteq Nat

VARIABLES path,       \* the stream of this bridge, which never changes
          up, outages,   \* the hardware service answers; how often it did not
          tab,        \* where the handler of each socket is
          queue,      \* the queue of each subscriber
          sent,       \* the last frame each browser got, 0 for none
          opening,    \* sockets whose _ensure_running has not run yet
          waiting,    \* _ensure_running tasks that want the lock
          task,       \* _task: what the upstream loop is at
          closing,    \* a cancelled upstream loop is still to end
          idle,       \* _idle_close_task: none, asleep, or at the end of the loop
          abandoned,  \* a loop has ended whose socket is still closing
          connected,  \* _connected
          latest,     \* _latest: the cached frame, 0 for none
          frames,     \* frames published so far
          service     \* _shutting_down, and whether stop is through

vars == << path, up, outages, tab, queue, sent, opening, waiting, task,
           closing, idle, abandoned, connected, latest, frames, service >>
feed == << queue, sent, frames >>
world == << path, up, outages, abandoned >>

Subscribers == {t \in Tab : tab[t] = "subscribed"}
Live == {"dial", "open", "sleep"}
ShuttingDown == service # "serving"

TypeOK ==
  /\ path \in {"spectrum", "goes"} /\ up \in BOOLEAN
  /\ outages \in 0 .. MaxOutages
  /\ tab \in [Tab -> {"away", "reset", "subscribed"}]
  /\ queue \in [Tab -> Seq(1 .. MaxFrames)]
  /\ \A t \in Tab : Len(queue[t]) <= QueueSize
  /\ sent \in [Tab -> 0 .. MaxFrames]
  /\ opening \subseteq Subscribers
  /\ waiting \in 0 .. MaxOpens
  /\ task \in Live \cup {"none", "done"}
  /\ {closing, abandoned, connected} \subseteq BOOLEAN
  /\ idle \in {"none", "asleep", "closing"}
  /\ latest \in 0 .. frames /\ frames \in 0 .. MaxFrames
  /\ service \in {"serving", "stopping", "stopped"}

Init ==
  /\ path \in {"spectrum", "goes"}
  /\ outages \in {0, 1} \cap 0 .. MaxOutages
  /\ up = (outages = 0)
  /\ tab = [t \in Tab |-> "away"]
  /\ queue = [t \in Tab |-> << >>]
  /\ sent = [t \in Tab |-> 0]
  /\ opening = {}
  /\ waiting = 0
  /\ task = "none"
  /\ closing = FALSE
  /\ idle = "none"
  /\ abandoned = FALSE
  /\ connected = FALSE
  /\ latest = 0
  /\ frames = 0
  /\ service = "serving"

-----------------------------------------------------------------------------
(* The sockets of browsers.                                                *)

\* subscribe: the cached frame, if there is one, is replayed to the newcomer.
Subscribe(t, cached) ==
  /\ Cardinality(opening) + waiting < MaxOpens
  /\ tab' = [tab EXCEPT ![t] = "subscribed"]
  /\ queue' = [queue EXCEPT ![t] = IF cached = 0 THEN << >> ELSE << cached >>]
  /\ sent' = [sent EXCEPT ![t] = 0]
  /\ opening' = IF ShuttingDown THEN opening ELSE opening \cup {t}
  /\ latest' = cached

\* A browser has opened its socket.  /ws/spectrum drops the cached frame and,
\* where the stream may be running, has its integration reset first.
Arrive(t) ==
  /\ tab[t] = "away"
  /\ \/ /\ path = "goes"
        /\ Subscribe(t, latest)
     \/ /\ path = "spectrum"
        /\ ~connected /\ Subscribers = {}
        /\ Subscribe(t, 0)
     \/ /\ path = "spectrum"
        /\ connected \/ Subscribers # {}
        /\ tab' = [tab EXCEPT ![t] = "reset"]
        /\ latest' = 0
        /\ UNCHANGED << queue, sent, opening >>
  /\ UNCHANGED << world, waiting, task, closing, idle, connected, frames,
                  service >>

\* The reset is answered, or has failed and the socket is closed.
ResetDone(t) ==
  /\ tab[t] = "reset"
  /\ \/ Subscribe(t, 0)
     \/ /\ tab' = [tab EXCEPT ![t] = "away"]
        /\ UNCHANGED << queue, sent, opening, latest >>
  /\ UNCHANGED << world, waiting, task, closing, idle, connected, frames,
                  service >>

\* A browser goes.  Its handler's first await comes after the creation of the
\* _ensure_running task, which has therefore begun by now.
Leave_OnlyConnected(t) ==     \* slip: _connected for _task is not None
  /\ t \in Subscribers \ opening
  /\ tab' = [tab EXCEPT ![t] = "away"]
  /\ queue' = [queue EXCEPT ![t] = << >>]
  /\ idle' = IF Subscribers = {t} /\ connected /\ ~ShuttingDown
             THEN "asleep" ELSE idle
  /\ UNCHANGED << world, sent, opening, waiting, task, closing, connected,
                  latest, frames, service >>
Leave(t) ==
  /\ t \in Subscribers \ opening
  /\ tab' = [tab EXCEPT ![t] = "away"]
  /\ queue' = [queue EXCEPT ![t] = << >>]
  /\ idle' = IF Subscribers = {t} /\ task # "none" /\ ~ShuttingDown
             THEN "asleep" ELSE idle
  /\ UNCHANGED << world, sent, opening, waiting, task, closing, connected,
                  latest, frames, service >>

\* The pump takes a frame off the queue and sends it.
Send(t) ==
  /\ t \in Subscribers
  /\ queue[t] # << >>
  /\ sent' = [sent EXCEPT ![t] = Head(queue[t])]
  /\ queue' = [queue EXCEPT ![t] = Tail(@)]
  /\ UNCHANGED << world, tab, opening, waiting, task, closing, idle,
                  connected, latest, frames, service >>

-----------------------------------------------------------------------------
(* The lifecycle of the upstream connection.                               *)

\* _cancel_idle_close.  A task that sleeps, or waits for the lock, is over; one
\* that awaits the cancelled loop passes the cancellation on to it.  Where that
\* loop awaits the end of its socket (connected), the library may then give the
\* socket up before it is closed, or swallow the second cancellation.
CancelIdleClose ==
  /\ idle' = "none"
  /\ \/ UNCHANGED abandoned
     \/ idle = "closing" /\ connected /\ abandoned' = TRUE

\* _ensure_running begins.
OpenBegins(t) ==
  /\ t \in opening
  /\ opening' = opening \ {t}
  /\ waiting' = waiting + 1
  /\ CancelIdleClose
  /\ UNCHANGED << path, up, outages, tab, feed, task, closing, connected,
                  latest, service >>

OpenLocked_Unlocked ==        \* slip: no lock around the check
  /\ waiting > 0
  /\ waiting' = waiting - 1
  /\ task' = IF task = "none" /\ ~ShuttingDown /\ Subscribers # {}
             THEN "dial" ELSE task
  /\ UNCHANGED << world, tab, feed, opening, closing, idle, connected,
                  latest, service >>
OpenLocked_GivesUp ==         \* slip: return if the lock is taken
  /\ waiting > 0
  /\ waiting' = waiting - 1
  /\ task' = IF ~closing /\ task = "none" /\ ~ShuttingDown
                /\ Subscribers # {}
             THEN "dial" ELSE task
  /\ UNCHANGED << world, tab, feed, opening, closing, idle, connected,
                  latest, service >>
\* _ensure_running has the lock; a loop that has returned still counts as one.
OpenLocked ==
  /\ waiting > 0 /\ ~closing
  /\ waiting' = waiting - 1
  /\ task' = IF task = "none" /\ ~ShuttingDown /\ Subscribers # {}
             THEN "dial" ELSE task
  /\ UNCHANGED << world, tab, feed, opening, closing, idle, connected,
                  latest, service >>

\* _cancel_task_locked.  There is nothing to wait for when the loop is over.
CancelTask ==
  /\ task' = "none"
  /\ \/ /\ task \in Live
        /\ closing' = TRUE
        /\ UNCHANGED << connected, latest >>
     \/ /\ task = "done"
        /\ connected' = FALSE
        /\ latest' = 0
        /\ UNCHANGED closing

\* The delay of the idle-close task is over.
IdleFires ==
  /\ idle = "asleep" /\ ~closing
  /\ \/ /\ Subscribers = {} /\ task # "none" /\ ~ShuttingDown
        /\ CancelTask
        /\ idle' = IF closing' THEN "closing" ELSE "none"
     \/ /\ Subscribers # {} \/ task = "none" \/ ShuttingDown
        /\ idle' = "none"
        /\ UNCHANGED << task, closing, connected, latest >>
  /\ UNCHANGED << world, tab, feed, opening, waiting, service >>

\* The cancelled loop has ended, and the lock is let go.
Closed ==
  /\ closing
  /\ closing' = FALSE
  /\ idle' = IF idle = "closing" THEN "none" ELSE idle
  /\ connected' = FALSE
  /\ latest' = 0
  /\ UNCHANGED << world, tab, feed, opening, waiting, task, service >>

\* The hardware service closes the socket that its loop gave up.
Forgotten ==
  /\ abandoned
  /\ abandoned' = FALSE
  /\ UNCHANGED << path, up, outages, tab, feed, opening, waiting, task,
                  closing, idle, connected, latest, service >>

\* stop, up to its wait for the lock, and after it.
Stop ==
  /\ service = "serving"
  /\ service' = "stopping"
  /\ CancelIdleClose
  /\ UNCHANGED << path, up, outages, tab, feed, opening, waiting, task,
                  closing, connected, latest >>
StopLocked ==
  /\ service = "stopping" /\ ~closing
  /\ service' = "stopped"
  /\ CancelTask \/ (task = "none" /\ UNCHANGED << task, closing, connected,
                                                  latest >>)
  /\ UNCHANGED << world, tab, feed, opening, waiting, idle >>

-----------------------------------------------------------------------------
(* The upstream loop, _run.                                                *)

Dialled ==
  /\ task = "dial" /\ up
  /\ task' = "open"
  /\ connected' = TRUE
  /\ UNCHANGED << world, tab, feed, opening, waiting, closing, idle, latest,
                  service >>

PutLatest_Newest(q, f) ==     \* slip: a full queue refuses
  IF Len(q) < QueueSize THEN Append(q, f) ELSE q
PutLatest_Grows(q, f) ==      \* slip: the queue has no maxsize
  Append(q, f)
\* put_latest: a full queue gives up its oldest frame.
PutLatest(q, f) ==
  Append(IF Len(q) < QueueSize THEN q ELSE Tail(q), f)

\* A frame comes in.
Frame ==
  /\ task = "open" /\ up
  /\ frames < MaxFrames
  /\ frames' = frames + 1
  /\ latest' = frames'
  /\ queue' = [t \in Tab |-> IF t \in Subscribers
                             THEN PutLatest(queue[t], frames') ELSE queue[t]]
  /\ UNCHANGED << world, tab, sent, opening, waiting, task, closing, idle,
                  connected, service >>

\* The dial is refused, or the connection breaks.
Lost_KeepsFrame ==            \* slip: the cached frame outlives its link
  /\ task \in {"dial", "open"} /\ ~up
  /\ connected' = FALSE
  /\ task' = IF ShuttingDown \/ Subscribers = {} THEN "done" ELSE "sleep"
  /\ UNCHANGED << world, tab, feed, opening, waiting, closing, idle, latest,
                  service >>
Lost ==
  /\ task \in {"dial", "open"} /\ ~up
  /\ connected' = FALSE
  /\ latest' = 0
  /\ task' = IF ShuttingDown \/ Subscribers = {} THEN "done" ELSE "sleep"
  /\ UNCHANGED << world, tab, feed, opening, waiting, closing, idle,
                  service >>

\* The reconnect delay is over.
Redial ==
  /\ task = "sleep"
  /\ task' = "dial"
  /\ UNCHANGED << world, tab, feed, opening, waiting, closing, idle,
                  connected, latest, service >>

\* The hardware service goes away and comes back.
Down ==
  /\ up /\ outages < MaxOutages
  /\ up' = FALSE
  /\ outages' = outages + 1
  /\ UNCHANGED << path, tab, feed, opening, waiting, task, closing, idle,
                  abandoned, connected, latest, service >>
Up ==
  /\ ~up
  /\ up' = TRUE
  /\ UNCHANGED << path, outages, tab, feed, opening, waiting, task, closing,
                  idle, abandoned, connected, latest, service >>

Next ==
  \/ \E t \in Tab : Arrive(t) \/ ResetDone(t) \/ Leave(t) \/ Send(t)
                      \/ OpenBegins(t)
  \/ OpenLocked \/ IdleFires \/ Closed \/ Forgotten \/ Stop \/ StopLocked
  \/ Dialled \/ Frame \/ Lost \/ Redial
  \/ Down \/ Up

Spec == Init /\ [][Next]_vars

\* Tasks that can run do, timers end, and a cancelled socket closes or times
\* out.
Fairness ==
  /\ \A t \in Tab : WF_vars(OpenBegins(t))
  /\ WF_vars(OpenLocked) /\ WF_vars(IdleFires) /\ WF_vars(Closed)
  /\ WF_vars(StopLocked) /\ WF_vars(Redial)

FairSpec == Spec /\ Fairness

\* The same on a hardware service that comes back, and whose connections are
\* accepted and seen to break.
KindSpec == FairSpec /\ WF_vars(Up) /\ WF_vars(Dialled) /\ WF_vars(Lost)

-----------------------------------------------------------------------------
(* Safety.                                                                 *)

\* No loop is begun before the one before has ended, even when a newcomer
\* interrupts its end: the `finally' of an old loop never clears the flag and
\* the cached frame of the next.
OneLoop == closing => task = "none"

\* What the module says of a bridge: one upstream connection feeds every tab.
\* A newcomer that interrupts an idle close can have the next connection opened
\* while the socket of the one before is still there.
OneUpstream == ~(abandoned /\ task = "open")

\* Once every _ensure_running is through, browsers have an upstream loop that
\* runs: no order of arrivals, departures and idle closes leaves them without.
\* Only a loss of the hardware service can have ended the loop in _task.
TabsHaveLoop ==
  Subscribers # {} /\ opening = {} /\ waiting = 0 /\ ~ShuttingDown
    => task \in Live \/ (task = "done" /\ outages > 0)

\* The frame that is replayed to newcomers comes from the connection that is
\* open now; no frame outlives its link.
CacheNeedsLink == latest # 0 => connected

\* A slow browser misses old frames, never the newest, and sees none twice or
\* out of order, the replayed one included.
FramesInOrder ==
  \A t \in Subscribers :
    LET seen == << sent[t] >> \o queue[t] IN
    /\ \A i \in 1 .. Len(queue[t]) : seen[i] < seen[i + 1]
    /\ queue[t] # << >> => queue[t][Len(queue[t])] = frames

-----------------------------------------------------------------------------
(* Liveness.                                                               *)

\* The standing subscription that would keep the receiver open ends: when no
\* browser comes back the upstream connection is given up.
UpstreamReleased ==
  Subscribers = {} ~> Subscribers # {} \/ (task \notin Live /\ ~closing)

\* What is said of the reconnect delay: after an outage the stream comes back.
\* A loop that has returned while nobody watched is still in _task when the
\* next browser comes, so the code does not keep this.
StreamRecovers ==
  \A t \in Tab : t \in Subscribers ~> t \notin Subscribers \/ connected
                                        \/ ShuttingDown
=============================================================================

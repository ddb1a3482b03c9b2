# Verification of the RadioTelescope control software

TLA+ specifications of the services and of the web page that operate a small
radio telescope, the TLC instances that check them, and TLAPS proofs of what
matters most. Paths below are relative to the root of the repository, with
`platform/` for `src/platform/src/rt_platform/`, `hardware/` for
`src/hardware/src/rt_hardware/` and `web/` for `src/platform/frontend/src/`.

## The system

A browser talks to the **platform** service (FastAPI, on a public host). It owns
the queue of users and forwards the requests of whoever holds the control lease
to the **hardware** service (FastAPI, on a Pi beside the dish), which drives the
two axes of the mount over a serial port, runs the receiver pipelines and reads
the camera. Both services are single asyncio event loops: concurrency is between
tasks, at their awaits, and with the subprocesses, the serial port and the
network they wait for. Nearly nothing is persisted; a restart begins afresh.

The **web page** (React, one bundle the platform serves) is the only client. It
is event-driven too: handlers, effects that run after a commit, promises,
sockets, timers and animation frames, over a network on which answers fail, are
late or overtake each other.

| Component | State | Operations | Interacts with |
|---|---|---|---|
| Control queue `platform/services/queue.py`, `api/routes_queue.py` | sessions by token, the line, the active token, lease start, last command, last join by address | join, rejoin, leave, mark_command, mark_ws_connected, tick | every mutating route asks it; at a handover it calls the hardware service to clear the baseline |
| Mount control `hardware/services/roboclaw.py`, `api/routes_roboclaw.py`, `safety.py` | last encoders, position target, last packet of each press, active jog, watchdog task, the port's lock | jog, jog stop, stop, goto, raw commands, homing, poll, watchdog | the controller over a serial port; telemetry to subscribers |
| Frame bridge `platform/services/ws_bridge.py`, `_pubsub.py` | upstream task, cached frame, connected flag, idle-close task, a queue for each subscriber | subscribe, unsubscribe, ensure running, idle close, run, stop | the hardware service's `/ws/spectrum` and `/ws/goes`; browsers |
| Spectrum pipeline `hardware/services/spectrum.py` | subprocess, consumer task, mode, baseline, capture | subscribe, reconnect, capture, clear, idle close, backoff | GNU Radio subprocess over ZMQ; the queue's handover |
| GOES supervisor `hardware/services/goes.py` | supervisor task, processes, link state, mode | subscribe, reconnect, supervise, idle close | goesrecv and goesproc; the product store |
| Product store `hardware/goes/products.py` | index by id | scan, prune, get, list | a directory goesproc writes to |
| Camera `hardware/services/camera.py` | open device, last use, closer task | acquire, idle close, stop | a video device in worker threads |
| Site authentication `platform/api/auth.py` | attempts and lockout by address | failure, success, prune | login route |
| Rate limits `platform/api/rate_limit.py` | recent hits by address and bucket | allow | every request |
| Telescope status `platform/services/status.py` | a persisted flag | set, read | join |
| Proxies, edge, geometry, signal processing | none | | |

The web page:

| Component | State | Operations | Interacts with |
|---|---|---|---|
| Stream socket `web/lib/useJsonSocket.ts` | sockets of each effect run, retry timer, attempt, connected, reconnecting | effect run and cleanup, open, close, error, message, retry | the spectrum, GOES and telemetry streams use it |
| Spectrum view `web/components/SpectrumPanel/`, `lib/useSpectrumWaterfall.ts` | latest and pending frame, requested animation frame, chart element, waterfall rows and signature | frame, flush, stream up and down, status changes | stream socket, status |
| Spectrum status `web/lib/useSpectrumStatus.ts` | last status, in-flight flag, restart state | poll, throttled reconnect, restart of the integration | platform |
| Queue client `web/lib/useQueueLease.ts`, `components/QueuePage/`, `App.tsx` | lease status, first answer, socket, acknowledgement, join form, captcha token | config and status requests, pushes, join by hand and by itself, expiry, reload | the control queue |
| Jog pad `web/components/MotionControls.tsx`, `lib/useMotionCommands.ts` | press token, sequence, in-flight flag of each button | press, timer, release, blur, answers | mount control |
| Slew target `web/lib/useMapTarget.ts`, `useSlewTargetArrivalClear.ts` | pin, submitted slew with what it has seen of it | click, type, clear, slew, stop, telemetry | mount control through gotos and telemetry |
| Baseline wizard `web/components/BaselineWizard.tsx`, `lib/useFullscreen.ts` | step, busy, marker, captured flag, preview | open, pick, trigger, answers, close | the receiver's integration |
| Guided tours `web/tour.ts`, `guidedObservation.ts` | tour, handlers left on the page | offer, walks, lead-in, baseline step, resume | baseline wizard |
| Sky atlas `web/components/SkyMap/`, `aladin/`, `spectrum/` | initialisation, probe, survey and layer, selector, gesture | load, select, drag, click | slew target |
| Sky canvas `web/components/SkyMap/horizon/` | last signature, canvas, hover zones | frame, gate, heartbeat | sky atlas |
| GOES view `web/lib/useGoesStream.ts`, `components/goes/` | status, stage, age, nudges, listing, open product | poll, frame, nudge, refresh, filter, open | platform |
| Illustrations `web/components/HydrogenAtom.tsx`, `DopplerAnimation.tsx` and others | visibility, requested frames, timeline of the atom | scroll, tab switch, commit, frame, flip | none |
| Page shell, page arithmetic | presentation and floating point | | |

### What is hard, and what makes each part correct

* **Control queue.** Users, sockets, the tick loop and a slow callback
  interleave. Correct means: one controller; nobody twice; no session that is
  neither waiting nor active; no free telescope with users waiting; first come,
  first served; the lease lost only for a stated reason; and everybody's turn
  comes.
* **Mount control.** A request awaits the serial port several times and reads
  shared state before and after. Commands may fail, or take effect and lose
  their acknowledgement. Correct means: a motor never runs unless something is
  going to stop it; an overtaken packet never restarts a jog; a jog ends when its
  packets stop.
* **Frame bridge.** Browsers come and go around an idle timer, a lock that is
  held while a socket closes, and an upstream that drops. Correct means: one
  upstream connection, a loop that runs for it while browsers watch, none left when
  nobody does; no frame older than its connection is replayed; slow browsers lose
  old frames only. Of these the first fails when a newcomer interrupts an idle close,
  and the second after an outage that nobody watched.
* **Spectrum pipeline, GOES supervisor, camera.** The same lazy lifecycle around a
  process, with backoff, several consumers or a worker thread.
* **Product store, authentication, rate limits.** Small sequential state that is
  read and written without an await.
* **Streams of the page.** A hook must keep exactly one connection attempt going
  whatever fails and whichever run of its effect a late event belongs to; data of
  a dead stream must not come back on screen, and a stalled receiver must be
  nudged awake.
* **Queue page.** Answers of requests overtake pushes; the form joins by itself
  and must not send a used captcha token; the controls must not outlive the lease.
* **Motion from the page.** Packets of a press overtake each other and the
  release; a late arrival at a target that was given up must not stop the mount.
* **Baseline and guide.** The answer to a capture outlives its dialog, and a
  guide leaves listeners on a page it no longer runs on.
* **Map and pictures.** A click follows every drag, a hydrogen layer waits for a
  probe while another survey is chosen, a frame is skipped when its signature is
  unchanged, a paused loop still has a frame out.

The `hazards` of `PROJECT.json` list, line by line, what can go wrong in ways
a test would hardly reach, and the properties that cover it.

## Modules

| Module | Role |
|---|---|
| `SeqRemoval` | removing elements from a deque, and the order of elements in a sequence |
| `FifoLease` | abstract: a holder and a line; `Enter`, `Depart` |
| `LeaseQueue` | the control queue and its routes |
| `MountControl` | jogs, gotos, stops, the poll loop and the watchdog over one port |
| `WsBridge` | one bridge with its browsers and its upstream |
| `JsonSocket` | the hook under every live stream: sockets, retry timer, back-off |
| `SpectrumView` | extends it: frames on their way to the chart and the waterfall |
| `SpectrumStatus` | the status poll, the reconnect nudges, the restart |
| `QueueClient` | one browser in front of the control queue |
| `JogPad` | the press-and-hold buttons and their packets |
| `SlewTarget` | the pin, the slew and the watch for its arrival |
| `BaselineWizard` | the capture dialog and its preview |
| `GuidedTours` | extends it: tours, and the guide that waits for the dialog |
| `SkyAtlas` | loading, surveys and gestures of the sky map |
| `SkyCanvas` | layers, hover zones and the gate of the canvas over it |
| `GoesView` | the downlink's status and nudges, and the product explorer |
| `Animations` | frame loops of the illustrations and the timeline of the atom |
| `MCLeaseQueue`, `MCMountControl`, `MCWsBridge`, `MCWebApp` | instances for TLC |
| `SeqRemovalProofs`, `LeaseQueueProofs`, `MountControlProofs`, `WsBridgeProofs` | theorems about the services |
| `SpectrumViewProofs`, `JogPadProofs`, `GuidedToursProofs`, `WebPageProofs` | theorems about the page |

Next to some definitions stands the same one with a plausible mistake (such as
`OnlyInLine` above `PushArrives`, or `Lost_KeepsFrame` above `Lost`). Nothing uses them; each shows that a property
can tell it from the code (`mutants` in `PROJECT.json`).

### LeaseQueue

`sessions`, `queue` and `active` are `_sessions`, `_queue` and `_active`. The
code stores `time.monotonic()` stamps and compares differences with limits; the
model stores the differences (`leaseAge`, `idleAge`, `joinAge`, and `seen` and
`joined` of a session), each stopped one above its limit, where no comparison can
tell more, and `Elapse` advances them. `conns` counts the `/ws/queue` handlers of
a token, of which the code keeps one flag only. `resetting`, `unanswered` and
`tickWaits` are the control-change callbacks in flight, the joins that wait for
them, and whether the tick loop does.

The bodies under `_lock` do not await, so each public operation is one action,
and so is what follows up to the first await inside the callback:
`_promote_if_idle` sets the pending flag, and `_fire_control_handover`, which the
same stretch of code reaches, clears it and starts the callback. `CallbackDone`
ends it. `Tick` is a turn of the tick loop: it releases, prunes, promotes, and
starts a callback it then waits for, during which there is no other turn. A
token is `Fresh` when nothing refers to it any more, which stands for the
freshness of random tokens. The condition `is_open` of `join` is left out: the
platform has no caller that closes the telescope. Snapshots, logs and broadcasts
of status only read.

### MountControl

`io` is the queue of `_io_lock`, an `asyncio.Lock`, which serves its waiters in
order. Each task is at one awaited operation of the port; the action that
completes the operation of the head also runs its task to the next await, so the
reads and writes between two awaits are atomic, and nothing else is. `refresh`
is shared by the poll loop, jogs and gotos, as in the code: a jog that refreshes
may stop another jog at its limit or an arrived goto (`Snap`, `LimitStopped`,
`AxisStopped`), and then returns to its caller (`Return`). `Arm` cancels the old
watchdog wherever it is, its place in the lock's queue included.

Encoders are counts in the sense of degrees along each axis, as the development
configuration has it (there the azimuth runs against its encoder, which
exchanges the names of the motor commands and nothing else). `Move` lets a
commanded axis advance by a count, in any number between two actions of the
service, up to its mechanical range. `Fault` is a port operation that fails:
a motion command that fails may or may not have been obeyed; a snapshot loses
encoders; `stop_all` loses one of its two stops. The 256-token limit of
`_jog_sequences` is an assumption on `Token`.

`Spec` lets any number of gotos overlap. `InTurnSpec` is the same service with a
client that sends a goto only when none is on its way, no target is followed and no
arrival is being stopped (`GotoIsAlone`), which is where `NoRunaway` holds with gotos.
`NewestPacketLeads` relates the active jog to the sequence numbers and to the tasks on
their way: a handler that ends late may not leave an older packet of its press, or a
press that was stopped, as the active jog.

Not modelled: homing, the raw operator commands, gotos on the controller's own
position PID (`goto_software_side = false`), the refresh of stored QPPS, and the
conversions between degrees and counts.

### WsBridge

`task` is `_task` with the place its loop is at; `"done"` is a finished loop
still in `_task`. `closing` is the time between the cancellation of a loop and
its end, the only time `_lifecycle_lock` is held across an await. `opening` and
`waiting` are the `_ensure_running` tasks before their first step and before the
lock. The handler of a socket creates that task before its own first await, so
the task begins before that socket can leave (the guard of `Leave`): without this
fact of the event loop an idle close could be cancelled for nobody. `path` picks
one of the two bridges: `/ws/spectrum` drops the cache and asks for a reset before
subscribing, `/ws/goes` does not. `CancelTask` has nothing to wait for when
the loop is over, as awaiting a finished task does not yield.

`idle` is the idle-close task: asleep (or at the lock), or `"closing"` while it awaits
the loop it has cancelled. A newcomer, or the stop, cancels that task wherever it is
(`CancelIdleClose`). In the second case asyncio passes the cancellation on to the
loop, and interrupts the wait for the end of its socket: the loop ends all the same
(`Closed`), and the lock is let go, but the socket may outlive it. `abandoned` is such
a socket; the hardware service closes it at some time (`Forgotten`), and no property
that holds counts on that. Whether the library gives the socket up or swallows the
second cancellation is left open. A bridge may also start while the hardware service
is away (`Init`).

### The web page

In all of these an action is a handler, an effect or the settling of a promise
with everything it does before it returns, and what React runs after the commit
is part of the action that commits. A request or a message on its way is a value
in a set or a field; answers are taken from it in any order, and most may be
lost. Each module is one component with its environment; names follow the code
where TLA+ allows it.

* **JsonSocket, SpectrumView.** `mine` are the sockets of the current effect run,
  `timers` its pending retries; a handler of an earlier run finds its socket not
  `mine`, which is the `cancelled` flag of the code. The actions of the socket
  leave out what the view does with the same event; `SpectrumView` joins the two
  (`StreamOpens`, `StreamCloses`). Frames are told apart by their connection (a
  bit) and layout. The chart and waterfall exist on the element that was there at
  mount (`chartBox`).
* **SpectrumStatus.** `answers` are the polls on their way, `inFlight` the flag of
  the current run of the recovery effect, `strays` the requests of earlier runs.
* **QueueClient.** `session` is what the server would answer; `boot`, `pushed` and
  `join` hold answers on their way with the value they were sent with.
  `Store` is the setting of `queueStatus` and all effects of it; the gate of `App`
  is `OnQueuePage`. The server is `LeaseQueue` as one browser sees it.
* **JogPad.** A press is `<<button, number>>`. The controller at the other end is
  the sequence rule of `MountControl` alone: `latest` and `moving`.
* **SlewTarget.** Places are steps of the two axes: on the goal's step an axis has
  arrived, next to it it may have settled. `MountDrives` may overshoot by a step.
* **BaselineWizard, GuidedTours.** A capture that is under way was asked for by
  `"this"` opening of the dialog, by an `"earlier"` one, or by a page that is `"gone"`.
  `onButton` and `armed` are the listeners a guide has left on the capture button and
  on the close event. `controlled` says that `App` shows `ControlUI`. When the lease is
  lost the queue page takes its place (`ControlsLeave`): the dialog is unmounted
  without a close event, the capture button goes with its handlers, and the listeners
  on `window` and a running tour stay. `ControlsReturn` mounts new controls.
* **SkyAtlas.** `Events` says that a promise that is settled is served before any
  event; `layerDue` is a hydrogen layer that waits for the probe.
* **SkyCanvas.** A view is what can be projected to the screen in it (`InView`). A
  frame paints `Layers` and publishes `FrameZones`; the gate compares `Signature`.
  Telemetry has a place by altitude and azimuth and one by right ascension, on which
  the slew path falls back; the signature names the first alone, as the code does. The
  hardware sends the second only along with the first (`SentTelemetry`). Overlays are
  those `App` hands over: none, then that of the target satellite, from an answer that
  is asked for once (`OverlayComes`).
* **GoesView.** The downlink (status, stage, age, nudges) and the explorer
  (listings of a growing archive) are two next-state relations over one state.
* **Animations.** `frames` counts the requested frames of each loop; `playing` is
  the committed `active` of a drawing, which lags `tabVisible` and `onScreen`.

`MCWebApp` puts the page together for TLC. The parts share no state, so their
steps commute and an interleaving of two parts shows nothing that one part does
not show: `part`, chosen at the start, says which part a behaviour follows, and the
others stay in one initial state. The parts that do interact are joined in their
modules: the view with the socket, the tours with the dialog.

## Runs

| Run | Checks | Instance |
|---|---|---|
| `lease_queue` | types, `NoLeakedSession`, `OnePlaceEach`, `NoIdleLease`, `FlagNeedsSocket`, `FirstComeFirstServed`, `LostForCause` | 3 users, 2 addresses, 2 sockets per user, limits of 0 or 1; symmetric |
| `lease_queue_live` | `ControlRotates`, `WaiterServed`, `ImplementsFifoLease` | 3 users, 1 address, 1 socket per user |
| `lease_ws_flag` | violated: `DroppedOnlyWhenGone` | 2 users, 2 sockets per user |
| `mount_jog` | types, `ActiveJogHasWatchdog`, `NewestPacketLeads`, `JogsEnd` | 2 requests in flight, 1 press of 2 packets, both axes, limits and beyond, 1 fault, no goto |
| `mount_goto` | `NoRunaway` | 2 requests in flight, 1 press of 2 packets, 2 goals, gotos in turn (`InTurnSpec`), no fault; symmetric |
| `mount_lost_target` | violated: `NoRunaway` | 2 gotos that differ in altitude |
| `mount_lost_ack` | violated: `NoRunaway` | 1 press, 1 fault |
| `mount_overshoot` | violated: `MotionEnds` | 1 goto, tolerance 1 |
| `ws_bridge` | types, `OneLoop`, `TabsHaveLoop`, `CacheNeedsLink`, `FramesInOrder`, `UpstreamReleased` | 2 browsers, queues of 2, 3 frames, 1 outage, shutdown at any time |
| `ws_bridge_recovers` | violated: `StreamRecovers` | 1 browser, 1 outage |
| `web_app` | types, `OneConnectionLoop`, `NoFrameWithoutStream`, `WaterfallOfOneStream`, `AutoJoinsAreFresh`, `ReleasedPressStops`, `BoundedBacklog`, `WatchedSlewIsPinned`, `CloseTellsTheTruth`, `LayerFollowsSurvey`, `GateSkipsNothing`, `LoopsRunOnce`, `DragPicksNoSky`, `OnlyLeaseStrandsGuides` | all parts: 2 sockets, 2 layouts, 4 sites, 1 button with 2 presses of 3 packets, 2 spots on a 3 by 3 grid, 2 captures of a kind, 1 abandoned lead-in, 2 waiting guides, 2 views, 2 satellites, 2 drawings |
| `web_live` | `StreamReturns`, `StalledReceiverReopened`, `ControlsFollowLease`, `SlewEnds`, `StoppedDownlinkReopened` | the five parts with a network promise, 1 spot |

**Why the bounds are enough.** Three users give a controller, a first and a
second in line, the least in which an order can be broken; two sockets of one
user are the least that separate the flag from the sockets; a limit of one unit
has a value below, at and above it. For the mount two requests in flight and the
poll loop and the watchdog make four tasks on the port, enough for one to overtake
between any two awaits of another; two packets of a press are a command and the
one that makes it stale. The mount runs have one press, whose packets already race
each other, their stop and the watchdog; `JogIsWatched`, `NewestIsActive` and
`GotosInTurnLeaveNoMotion` are proved for any number of presses. Positions need one count inside, at and beyond each
limit. For the bridge two browsers give "the last one leaves" and "another is
still there", a queue of two with three frames overflows once, and one outage may
fall in any phase. The counters bounded are `MaxSeq`, `MaxFaults`, `MaxConns`,
`MaxFrames`, `MaxOpens` and `MaxOutages`, each named where it is declared.

For the page: two sockets are one of the current effect run and one of an earlier
run that is still closing; two back-offs are the first and the last of the table;
two layouts are a change of colour scale. Two presses of a button are one that is
over while the other is held, and three packets two jogs, of which one can be
stale, and a stop. The sites are no queue, a captcha, a captcha with a password,
and a closed queue. The spots differ on both axes, so that one axis may be there
while the other is not, and lie inside the grid, so that an overshoot is possible;
`web_live` has one spot, since another one takes pin and watch with it and ends the
premise. Two captures under way are the one of this opening and one of an earlier;
`MaxSeen` tells an integration with no frame, the first and a later one apart. One
lead-in may be left at its baseline step, which leaves its handler behind; two
guides may wait for a close (`MaxArmed`), one of which was left by controls that are
gone. One survey beside hydrogen is enough to be chosen over it. Two satellites are
two possible targets. All buttons, surveys, views
and drawings are alike in the code; the theorems below lift most of these bounds.
Deadlock is not checked in the web runs: a page nobody uses may rest for ever.

**What the runs leave out.** `NoRunaway` is checked where it holds: in `mount_goto`,
with gotos in turn and without faults. With overlapping gotos and with a lost
acknowledgement it is violated, and that a jog whose
own command fails leaves the goto it took over untracked has no run. `JogsEnd`
promises after a fault that the jog ends, not that the motor rests: a stop that failed
is not repeated. `TabsHaveLoop` lets an outage end the loop of browsers that come
after it; that such a loop is replaced is `StreamRecovers`, which fails. `NoFrameWithoutStream` relies on `connected`, which
stays up when the hook is disabled, so a disabled stream is not covered.
`WaterfallOfOneStream` holds as long as the chart has its first element: after "SDR
disabled" has taken that away, a frame that waited in a hidden tab can precede those
of a new connection, since no close was seen to clear the rows in between, although the
comment says that old rows cannot be stitched onto a fresh stream
(`web/lib/useSpectrumWaterfall.ts:86-87`). `DragPicksNoSky` leaves out a drag that ends
on the marker of a satellite. `StalledReceiverReopened` is about a receiver that is
silent or faulty, not one that warms up for ever; `ControlsFollowLease` about controls
that are taken away, not about those that are granted; `StoppedDownlinkReopened` about
a downlink that has sent a frame.

**Fairness.** Clients owe nothing: no fairness on any request, arrival or
departure. `LeaseQueue`: time passes, the tick loop turns (it sleeps a second and
never returns), the callback it awaits ends (its HTTP request has a timeout). `MountControl`:
an operation of the port ends (the serial timeout), the poll loop goes round, the
heartbeat timer ends, a commanded motor turns. The packets of a press are finite,
which is what a released or vanished button means. `WsBridge`: tasks that can run
do, timers end, a cancelled socket closes (the library bounds its close).
Only the violated `StreamRecovers` assumes more (the hardware comes back, dials
are answered, broken connections are noticed): the stream does not come back even
so. Pings are disabled upstream, so a peer that vanishes silently is not noticed;
no property that holds depends on it.

On the page users, servers and receivers owe nothing that a property concludes.
Promised are effects and timers (`SocketStarts`, `SocketStops`, `Reconnects`,
`StartPolling`, `NudgeAgain`, `AutoJoin`, `PolledAgain`, `Nudge`): the browser runs
them, and the intervals are never cleared while the panel is there. A request ends
in some way and an answer on its way arrives (`AnswerArrives`, `JoinFails` or
`JoinSucceeds`, `BootArrives`), since fetch settles. Strong fairness stands where
the network may fail any number of times but not for ever: a socket that is tried
again and again opens once, a poll is answered once, a reconnect that is asked for
again and again is accepted once (the user has control). Each of these is the
premise that the comments of the code make ("never give up entirely while the page
is open"). Telemetry keeps coming, and a mount that drives comes nearer and halts
(`MountDrives`, `MountHalts`). `StoppedDownlinkReopened` relies on the status poll
of 5 s alone, as the code does: the age is computed when the page renders.

### What the violated runs show

* `lease_ws_flag`: the flag of a token is cleared by the close of any of its
  sockets. A user with two tabs who closes one is dropped after the grace period.
* `mount_lost_target`: the poll reads the target, awaits the stops of the axes
  that arrived, then writes its copy back over a newer goto's target. The axis
  the newer goto moves is tracked by nobody.
* `mount_lost_ack`: the motor obeys a jog, the acknowledgement is lost, the
  handler raises before it arms the watchdog; the stop of that press is refused
  since no jog is active.
* `mount_overshoot`: an axis past its target before the first poll has no
  earlier delta, so the crossing is never seen.
* `ws_bridge_recovers`: the loop returns when the upstream drops while nobody
  watches; until the idle close removes it, a newcomer takes it for a running one
  and cancels that idle close. The newcomer waits for ever.

### Five disagreements without a run

Four statements are refuted by TLC when they are added to `ws_bridge.cfg` (the first)
or `web_app.cfg`; they stand in their modules without a run. The fifth no behaviour
shows.

* `OneUpstream` (`WsBridge`): the idle delay is over and the idle-close task awaits the
  loop it has cancelled; a browser comes and cancels that task, which interrupts the
  close of the socket. The lock is let go and the next connection is opened while the
  old one is still there.
* `ResumeWaitsForThisDialog` (`GuidedTours`): the guide has handed over to the dialog
  when the lease is lost. The controls are unmounted, no close event is sent, and the
  listener waits on; after the lease is granted again, a capture of one's own starts
  the Milky Way leg.
* `ResumeIsHandedOver` (`GuidedTours`): a guided observation that is closed at its
  baseline step leaves its click handler on the capture button, so a later capture
  outside any tour starts the Milky Way leg.
* `ChartShowsLatest` (`SpectrumView`): "SDR disabled" takes away the element the
  chart was made on; when the receiver comes back frames arrive and are not drawn.
* The comments of the canvas say that a changed overlay set repaints at once
  (`web/components/SkyMap/horizon/useHorizonCanvas.ts:125`, `172`); the signature names
  their number only. `App` hands over one overlay at most and never another one, so
  `GateSkipsNothing` holds; an application with more satellites would break it.

## Proofs

Eight modules, 60 theorems. None depends on a bound of a run: constants
are arbitrary but for the named assumptions of their modules and what a theorem
says it assumes. Every invariant that the passing runs check is a theorem, and so are the
refinement, the action properties and, under the hypotheses explained below, seven of
the liveness properties.

**Services.**

* `SeqRemovalProofs`: what `Without` keeps (`WithoutRange`), that it repeats
  nothing (`WithoutInjective`) and that it keeps the order (`WithoutKeepsOrder`),
  for every sequence. The recursion is a function over prefix lengths, so the
  proof is an induction over a set of lengths and needs no induction theorem with
  an operator parameter.
* `LeaseQueueProofs`, from `LeaseQueueAssumption` (the limits are naturals, `NoOne`
  is not a token): `Inv` is the conjunction of `TypeOK`, `NoLeakedSession`,
  `OnePlaceEach`, `NoIdleLease` and `FlagNeedsSocket`, and is inductive only as a
  whole: promotion yields a tracked controller because the line is tracked
  (`NoLeakedSession`); the line stays injective under an arrival because a fresh
  token is nowhere; a released lease is taken up because whoever waits is tracked,
  so a candidate exists. `Settled` is the common lemma of every path that ends in
  `_promote_if_idle`; there is one lemma for each action, and `InvHolds` puts them
  together. From `Inv`, each step maps to a step of `FifoLease` or to a stutter
  (`LeaseRefinement`): promotion takes the head of the line, since every entry is
  tracked. `ServedInOrder` follows from the abstract step and the order lemmas;
  `LostOnlyForCause` from the two places that release the lease. `OnePageIsHeard` is
  the other side of the run `lease_ws_flag`: with one socket per user at most
  (`MaxConns <= 1`), whoever is dropped was gone, since then the flag is up exactly
  while a socket is (`SocketRaisesFlag`).
* `MountControlProofs`: `MountInv` is the types, the watchdog of the active jog, and
  that the port's queue holds just the tasks that are at an operation, each once
  (`PortInv`): a watchdog that is cancelled leaves the queue wherever it is, and no
  task completes an operation it is not at. `NewestIsActive`, while no command has failed, needs
  that the active jog is never ahead of its press (`LeadInv`), and follows a handler with
  the newest packet through every await (`LeadKept`): it becomes the active jog, or
  whoever ends it early has ended the active one of its press.
  `NoRunaway` is false with faults and with gotos that overlap, as the violated
  runs show. `GotosInTurnLeaveNoMotion` tells where it holds: `MaxFaults = 0`, and
  each goto sent while none is on its way, no target is followed and no arrival is
  being stopped (`GotoIsAlone`); jogs, stops and polls come as they like.
  `MotionInv` says what a refresh that stops axes has to promise: an axis that runs
  is one it is about to stop, or one its copy of the target still follows;
  `TurnInv`, that a goto under way is alone, which is why writing that copy back
  overwrites no newer target. TLC finds an axis left running when any of the three
  conditions is dropped. `JogsLeaveNoMotion` is the case `Goals = {}`.
* `WsBridgeProofs`: `BridgeInv` has a part about the task and the lock (`LinkInv`),
  one about the browsers and the starts under way (`TabInv`), and one about frames
  (`FeedInv`): the cached frame is the newest of its link, and what each browser was
  sent, followed by its queue, rises. Queues of any length. A loop that nobody
  watches has an idle close or the stop ahead of it (`LoopIsDoomed`), hence
  `UpstreamIsReleased`. `LoopsAreSequential` is about loops, whose `finally` clears
  state that the next one uses; of sockets it fails (`OneUpstream`).
  `TabsAreServed` is about a loop that runs: one that has returned is allowed only
  after an outage.

**Page.**

* `SpectrumViewProofs`: the three sentences of the comments of the hook and the
  panel (`OneLoopAtATime`, `DownShowsNothing`, `RowsBelongTogether`). The invariant
  ties the frames that are shown and pending to the connection that is open and
  the rows to the signature the waterfall was cleared for. A timer that is set has a
  closed socket to reopen (`TimerHasSocket`), from which `StreamComesBack` follows;
  the same module has the status poll (`StatusPollTypes`,
  `StalledReceiverIsReopened`).
* `JogPadProofs`: a stop carries the highest number of its press and nothing is sent
  after it (`StopIsLast`), so what arrives after it is stale (`StoppedIsStale`),
  hence `ReleaseEndsMotion`; the in-flight mark bounds the requests
  (`CallsCounted`, over finite sets), hence `BacklogIsBounded`.
* `GuidedToursProofs`: the dialog with its captures, and the listeners of the
  guide. The integration that was on screen at the press of Trigger stays at or
  beyond the marker, so it is not taken for the rebuilt one (`PreviewStartsAnew`); a
  capture of an earlier opening never counts for this one (`CloseIsTruthful`). Nothing but
  the loss of the lease leaves a guide waiting for a dialog that is gone
  (`GuidesLoseTheirDialogToLeaseOnly`).
* `WebPageProofs`, one invariant each for the other parts: the watched slew and the pin
  (`SlewInv`); no hydrogen layer waits while another survey can be selected, as the
  probe is over before the atlas is ready (`SkyInv`); the canvas and the hover
  zones are a function of the signature they were drawn with (`CanvasInv`), so equal
  signatures mean equal pictures even after inputs changed and changed back; this
  needs that right ascension comes only along with altitude and azimuth, and that the
  overlay, once there, is never another one; a used captcha token is
  marked as joined with (`QueueInv`); the ref of the cloud knows of its frame, and
  the arrow follows the scene (`AnimInv`); a loop of nudges runs exactly while the
  page has seen the downlink stall (`LoopFollowsStall` in `GoesInv`).
  `WebInv` puts them together: each step of the application is a step of one part
  and leaves the others alone, so that what is proved of a part holds of the whole
  (`WebTypes`, `WebKeepsPromises`).

**Liveness, and its hypotheses.** Seven properties about what must happen are proved
from the fairness of their modules and from invariants: `UpstreamIsReleased`,
`StreamComesBack`, `StalledReceiverIsReopened`, `ControlsAreTakenAway`,
`StoppedDownlinkIsReopened`, `LeasesEnd` and, with its fairness, the refinement
`LeaseIsImplemented`; besides, `CapEndsLease` and `FirstIsServed` of any one user.
The argument is always that a state in which the promised step is due persists until
that step is taken.

tlapm has no rule for ENABLED: it takes ENABLED of an action for a proposition it knows
nothing of. So that a step *can* be taken when its guards hold is a hypothesis of
these theorems: `LoopIsOpen`, `ClosingIsOpen`, `RetryIsOpen`, `PollIsOpen`,
`PushIsOpen`, `DownlinkIsOpen`, and for the abstract lease `FreeIsNotHeld`. Each
conjunct repeats the guards of one action, whose other conjuncts only assign, and
asks that something changes. They are state predicates, and TLC finds them
invariant: run a proof module as the root (such as
`tlc -config h.cfg WebPageProofs.tla`) with the constants and the specification of
the run of that part and the hypothesis as the INVARIANT. They hold on the instances
of `web_app`, `ws_bridge`, `ws_bridge_recovers` and, with one socket per user,
`lease_queue`.

`LeasesEnd` has `AgeReachesCap` for a hypothesis as well: a lease that is kept gets as
old as the cap. This is a count of `Elapse` up to an arbitrary limit, which needs an
induction over numbers under a temporal operator; TLC checks it with
`lease_queue_live`. What is proved is what the code could get wrong: past the
cap nothing keeps the lease (`CapEndsLease`), and the callback the loop awaits does not
keep it from coming back. `LeaseIsImplemented` and `FirstIsServed` assume
`[]ControlRotates`, which is `ControlRotates` itself in the form the temporal prover
takes for a fact that holds in every suffix.

**Only model-checked.** That the hypotheses above hold, for the reason given.
`WaiterServed`: `FirstIsServed` is its step for the first in line; for any place it is
an induction over the place. `JogsEnd`: the packets that are left are counted over
all presses, whose number is arbitrary. `SlewEnds`: the distance to the
pin is counted down. tlapm cannot do these inductions, as the library's induction
theorems take an operator as a parameter.

## Not modelled

* **Mount control**: homing, the raw operator commands, the controller's own
  position PID and the refresh of speed limits (see above).
* **Spectrum pipeline, GOES supervisor, camera**: lifecycles of subprocesses, of
  external decoders and of a video device. The page modules have what can be seen of
  them as environment (`SpectrumStatus`, `SpectrumView`, `BaselineWizard`,
  `GoesView`); `WsBridge` is the same lazy lifecycle for sockets. Two hazards of
  theirs are listed in `PROJECT.json` with no property.
* **Product store, site authentication, rate limits, telescope status**: small state
  that is read and written without an await; the last has no caller.
* **The lease with the mount**: a request that was allowed before a handover may
  reach the mount after it. The two are checked apart.
* **Geometry, signal processing, page arithmetic**: floating point.
* **Proxies, edge, shells, page shell**: stateless forwarding, wiring,
  configuration, headers, logging, presentation.
* Of modelled page components: the heartbeat of user activity and the layout of the
  queue page; display options and readouts of the spectrum; tooltips and zoom
  buttons of the map; pixels of the canvas and what the illustrations draw; the
  parts of the connect panel that do not tell stages apart.

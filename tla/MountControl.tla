---------------------------- MODULE MountControl ----------------------------
(***************************************************************************)
(* Who may move the dish: jogs with their dead-man watchdog, gotos that    *)
(* the telemetry poll ends, and the stops.  hardware/src/rt_hardware/      *)
(* services/roboclaw.py with the handlers of api/routes_roboclaw.py.       *)
(*                                                                         *)
(* Every handler, the poll loop and the watchdog share one event loop and  *)
(* one serial port behind _io_lock, an asyncio.Lock, which is fair.  What  *)
(* a task does from one await to the next is one action.  The only awaits  *)
(* are operations on the port, so `io' holds the tasks in the order in     *)
(* which they get the lock, and the action that ends the operation of its  *)
(* head also runs that task up to its next await.                          *)
(***************************************************************************)
EXTENDS Integers, FiniteSets, SeqRemoval

CONSTANTS Req,         \* slots for HTTP requests in flight together
          Poll, Watch, \* the poll loop, and the current watchdog task
          Token,       \* jog tokens, one for each press of a button
          MaxSeq,      \* bound: packets of one press
          MaxPos,      \* bound: the mechanical range of each axis, in counts
          Lo, Hi,      \* the hard safety limits of each axis, in counts
          Starts,      \* bound: where the dish may be at the start
          Tolerance,   \* goto_arrival_tolerance_counts
          Goals,       \* targets of gotos, already inside the limits
          MaxFaults,   \* bound: port operations that go wrong
          None

Axis == {"m1", "m2"}
Pos(a) == 0 .. MaxPos[a]
Reading == (UNION {Pos(a) : a \in Axis}) \cup {None}
Way == {-1, 1}                     \* backward and forward

ASSUME MountAssumption ==
  /\ {MaxSeq, Tolerance, MaxFaults} \subseteq Nat
  /\ {MaxPos, Lo, Hi} \cup Goals \cup Starts \subseteq [Axis -> Nat]
  /\ \A a \in Axis : /\ Lo[a] <= Hi[a] /\ Hi[a] <= MaxPos[a]
                     /\ \A g \in Goals \cup Starts : g[a] \in Lo[a] .. Hi[a]
  /\ Cardinality(Token) <= 256     \* _jog_sequences forgets no token
  /\ Poll # Watch /\ Req \cap {Poll, Watch} = {}
  /\ \A x \in Token \cup Req \cup {Poll, Watch} : x # None
  /\ None \notin Int

VARIABLES pos,      \* where each axis is
          run,      \* the motion each axis has been commanded to make
          latest,   \* _latest: the encoders as last read, None if unread
          target,   \* _position_target
          seqs,     \* _jog_sequences, -1 for a token not yet seen
          jog,      \* _active_jog and _active_jog_direction
          task,     \* what each task is at
          io,       \* the tasks that hold or await _io_lock
          faults    \* port operations that went wrong so far

vars == << pos, run, latest, target, seqs, jog, task, io, faults >>

Task == Req \cup {Poll, Watch}
Jog == [token : Token, seq : 0 .. MaxSeq, axis : Axis, way : Way]
Target == [goal : Goals, stopped : SUBSET Axis,
           last : [Axis -> {-1, 0, 1, None}]]
ASSUME NoneAssumption == None \notin Jog \cup Target
Idle == [at |-> "idle"]

\* A task awaits: the snapshot of a refresh; the stop_all of a refresh that
\* found the jog beyond a limit; the stops of a refresh that found axes at
\* their target; motion commands; a stop_all after which it ends; or, the
\* watchdog only, the heartbeat timeout.
Doing ==
  LET work == {[kind |-> "poll"]} \cup [kind : {"jog"}, jog : Jog]
                \cup [kind : {"goto"}, goal : Goals]
  IN  [at : {"snap", "limit"}, work : work]
        \cup [at : {"arrive"}, work : work, hits : SUBSET Axis,
              aim : Target \cup {None}, bad : BOOLEAN]
        \cup [at : {"drive"}, work : work, moves : SUBSET (Axis \X Way)]
        \cup [at : {"asleep"}, jog : Jog]
        \cup {Idle, [at |-> "halt"]}

TypeOK ==
  /\ pos \in [Axis -> Nat] /\ \A a \in Axis : pos[a] \in Pos(a)
  /\ run \in [Axis -> Way \cup {0}]
  /\ latest \in [Axis -> Reading]
  /\ target \in Target \cup {None}
  /\ seqs \in [Token -> -1 .. MaxSeq]
  /\ jog \in Jog \cup {None}
  /\ task \in [Task -> Doing]
  /\ io \in Seq(Task) /\ IsInjective(io)
  /\ Range(io) = {p \in Task : task[p].at \notin {"idle", "asleep"}}
  /\ faults \in 0 .. MaxFaults

\* The service starts with the dish at rest inside the limits; latest is read
\* before any request.
Init ==
  /\ pos \in Starts
  /\ run = [a \in Axis |-> 0]
  /\ latest = pos
  /\ target = None
  /\ seqs = [t \in Token |-> -1]
  /\ jog = None
  /\ task = [p \in Task |-> Idle]
  /\ io = << >>
  /\ faults = 0

-----------------------------------------------------------------------------
(* Tasks and the port.                                                     *)

Start(p, doing) ==                 \* p asks for the lock
  /\ task' = [task EXCEPT ![p] = doing]
  /\ io' = Append(io, p)
Again(p, doing) ==                 \* p lets the lock go and asks once more
  /\ task' = [task EXCEPT ![p] = doing]
  /\ io' = Append(Tail(io), p)
Finish(p) ==
  /\ task' = [task EXCEPT ![p] = Idle]
  /\ io' = Tail(io)
HasPort(p, at) == io # << >> /\ Head(io) = p /\ task[p].at = at

Halt == [at |-> "halt"]
Drive(work, moves) == [at |-> "drive", work |-> work, moves |-> moves]

Fault == faults < MaxFaults /\ faults' = faults + 1

\* One motion command, 0 to stop.  When no acknowledgement arrives the command
\* counts as failed, whether the controller has obeyed or not.
Command(a, way, ok) ==
  \/ /\ ok
     /\ run' = [run EXCEPT ![a] = way]
     /\ UNCHANGED faults
  \/ /\ ~ok
     /\ Fault
     /\ run' \in {run, [run EXCEPT ![a] = way]}

\* stop_all sends both stops; nobody acts on a failure of one of them.
StopAll ==
  \/ /\ run' = [a \in Axis |-> 0]
     /\ UNCHANGED faults
  \/ /\ Fault
     /\ \E a \in Axis : run' = [b \in Axis |-> IF b = a THEN run[a] ELSE 0]

First(axes) == IF "m1" \in axes THEN "m1" ELSE "m2"

-----------------------------------------------------------------------------
(* Limits and targets, on the encoders as read.                            *)

Read(now) == \A a \in Axis : now[a] # None
Inside(now) == \A a \in Axis : Lo[a] <= now[a] /\ now[a] <= Hi[a]
MovesOutside(j, now) == 
  IF j.way = 1 THEN now[j.axis] >= Hi[j.axis] ELSE now[j.axis] <= Lo[j.axis]

SignOf(d) == IF d > 0 THEN 1 ELSE IF d < 0 THEN -1 ELSE 0
Delta(a, goal, now) == IF now[a] = None THEN None ELSE SignOf(now[a] - goal[a])
Within(a, goal, now) ==
  now[a] - goal[a] \in (-Tolerance) .. Tolerance

\* _axis_target_reached: in tolerance, or crossed since the poll before.
Reached(a, tgt, now) ==
  /\ a \notin tgt.stopped
  /\ now[a] # None
  /\ \/ Within(a, tgt.goal, now)
     \/ /\ tgt.last[a] \in Way
        /\ Delta(a, tgt.goal, now) = -tgt.last[a]
Hits(tgt, now) == {a \in Axis : Reached(a, tgt, now)}

Remember(tgt, now) ==
  [tgt EXCEPT !.last = [a \in Axis |-> IF a \in tgt.stopped THEN tgt.last[a]
                                        ELSE Delta(a, tgt.goal, now)]]
Arrived_Forgets(tgt, now) ==      \* slip: the first arrival ends the goto
  None
Arrived(tgt, now) ==
  LET stopped == tgt.stopped \cup Hits(tgt, now)
  IN  IF stopped = Axis THEN None
      ELSE [tgt EXCEPT !.stopped = stopped,
                       !.last = [a \in Axis |-> Delta(a, tgt.goal, now)]]
NewTarget(goal) ==
  [goal |-> goal, stopped |-> {}, last |-> [a \in Axis |-> None]]

\* _software_goto_commands: an axis without a reading is left out.
Moves(goal, now) ==
  {m \in Axis \X Way :
     /\ now[m[1]] # None
     /\ ~Within(m[1], goal, now)
     /\ m[2] = -Delta(m[1], goal, now)}

-----------------------------------------------------------------------------
(* refresh, called by the poll loop, by every jog and by every goto.       *)

\* clear_jog_watchdog: when no jog is left the watchdog task is cancelled,
\* even if it has fired and waits for the port; q is the queue of the port.
ClearWatchdog(t, s, q, p, doing) ==
  LET cleared == jog # None /\ jog.token = t /\ jog.seq <= s
      left    == IF cleared THEN None ELSE jog
      cancel  == left = None
  IN  /\ jog' = left
      /\ task' = [x \in Task |-> IF x = p THEN doing
                                 ELSE IF x = Watch /\ cancel THEN Idle
                                 ELSE task[x]]
      /\ io' = Append(IF cancel THEN Without(q, {Watch}) ELSE q, p)

\* What the caller of refresh does with the encoders now, and with the
\* target tgt the refresh has left.
Return(p, work, now, tgt) ==
  \/ /\ work.kind = "poll"
     /\ target' = tgt
     /\ Finish(p)
     /\ UNCHANGED jog
  \/ /\ work.kind = "jog"
     /\ Read(now) /\ MovesOutside(work.jog, now)
     /\ target' = tgt
     /\ ClearWatchdog(work.jog.token, work.jog.seq, Tail(io), p, Halt)
  \/ /\ work.kind = "jog"
     /\ ~(Read(now) /\ MovesOutside(work.jog, now))
     /\ target' = None
     /\ Again(p, Drive(work, {<< work.jog.axis, work.jog.way >>}))
     /\ UNCHANGED jog
  \/ /\ work.kind = "goto"
     /\ Moves(work.goal, now) # {}
     /\ target' = tgt
     /\ Again(p, Drive(work, Moves(work.goal, now)))
     /\ UNCHANGED jog
  \/ /\ work.kind = "goto"
     /\ Moves(work.goal, now) = {}
     /\ target' = NewTarget(work.goal)
     /\ Finish(p)
     /\ UNCHANGED jog

\* _stop_if_position_target_reached, up to its first await.
CheckTarget(p, work, now) ==
  \/ /\ target = None
     /\ Return(p, work, now, None)
  \/ /\ target # None
     /\ Hits(target, now) = {}
     /\ Return(p, work, now, Remember(target, now))
  \/ /\ target # None
     /\ Hits(target, now) # {}
     /\ Again(p, [at |-> "arrive", work |-> work, hits |-> Hits(target, now),
                  aim |-> Arrived(target, now), bad |-> FALSE])
     /\ UNCHANGED << target, jog >>

JogBeyond(now) ==
  jog # None /\ Read(now) /\ ~Inside(now) /\ MovesOutside(jog, now)

\* The snapshot has been taken; after a fault some encoder is unread.
Snap(p) ==
  /\ HasPort(p, "snap")
  /\ \/ latest' = pos /\ UNCHANGED faults
     \/ /\ Fault
        /\ \E lost \in (SUBSET Axis) \ {{}} :
             latest' = [a \in Axis |-> IF a \in lost THEN None ELSE pos[a]]
  /\ \/ /\ JogBeyond(latest')
        /\ jog' = None
        /\ Again(p, [at |-> "limit", work |-> task[p].work])
        /\ UNCHANGED target
     \/ /\ ~JogBeyond(latest')
        /\ CheckTarget(p, task[p].work, latest')
  /\ UNCHANGED << pos, run, seqs >>

\* The stop of a jog beyond a limit is done.
LimitStopped(p) ==
  /\ HasPort(p, "limit")
  /\ StopAll
  /\ CheckTarget(p, task[p].work, latest)
  /\ UNCHANGED << pos, latest, seqs >>

\* One axis at its target has been stopped.  After the last one the new value
\* of the target is written over whatever is there by now.
AxisStopped(p) ==
  /\ HasPort(p, "arrive")
  /\ LET a    == First(task[p].hits)
         rest == task[p].hits \ {a}
     IN  \E ok \in BOOLEAN :
           LET bad == task[p].bad \/ ~ok IN
           /\ Command(a, 0, ok)
           /\ \/ /\ rest # {}
                 /\ Again(p, [task[p] EXCEPT !.hits = rest, !.bad = bad])
                 /\ UNCHANGED << target, jog >>
              \/ /\ rest = {}
                 /\ Return(p, task[p].work, latest,
                           IF bad THEN target ELSE task[p].aim)
  /\ UNCHANGED << pos, latest, seqs >>

-----------------------------------------------------------------------------
(* The handlers.                                                           *)

Accepts(t, s) == s > seqs[t]

\* A jog packet that is newer than the ones before.
JogBegin(r, j) ==
  /\ task[r] = Idle
  /\ Accepts(j.token, j.seq)
  /\ seqs' = [seqs EXCEPT ![j.token] = j.seq]
  /\ Start(r, [at |-> "snap", work |-> [kind |-> "jog", jog |-> j]])
  /\ UNCHANGED << pos, run, latest, target, jog, faults >>

Arm_LeavesQueued(p, j) ==         \* slip: the old watchdog is not cancelled
  /\ jog' = j
  /\ task' = [task EXCEPT ![p] = Idle, ![Watch] = [at |-> "asleep", jog |-> j]]
  /\ io' = Tail(io)
Arm_KeepsTimer(p, j) ==            \* slip: a heartbeat leaves a sleeping watchdog
  /\ jog' = j
  /\ task' = [task EXCEPT ![p] = Idle,
                          ![Watch] = IF @.at = "asleep" THEN @
                                     ELSE [at |-> "asleep", jog |-> j]]
  /\ io' = Without(Tail(io), {Watch})
\* arm_jog_watchdog replaces the watchdog task, wherever it is.
Arm(p, j) ==
  /\ jog' = j
  /\ task' = [task EXCEPT ![p] = Idle, ![Watch] = [at |-> "asleep", jog |-> j]]
  /\ io' = Without(Tail(io), {Watch})

JogDriven_AlwaysArms(p, j) ==      \* slip: no is_current_jog_sequence
  /\ Arm(p, j)
JogDriven_Leaves(p, j) ==          \* slip: a stale jog just returns
  \/ /\ seqs[j.token] = j.seq
     /\ Arm(p, j)
  \/ /\ seqs[j.token] # j.seq
     /\ Finish(p)
     /\ UNCHANGED jog
\* The motion command of a jog has succeeded.  If a newer packet of the same
\* press has been accepted meanwhile, the motion is left to the jog that is
\* active, or else undone.
JogDriven(p, j) ==
  \/ /\ seqs[j.token] = j.seq
     /\ Arm(p, j)
  \/ /\ seqs[j.token] # j.seq
     /\ jog # None
     /\ Finish(p)
     /\ UNCHANGED jog
  \/ /\ seqs[j.token] # j.seq
     /\ jog = None
     /\ Again(p, Halt)
     /\ UNCHANGED jog

\* A motion command of a jog or of a goto is done.
Driven(p) ==
  /\ HasPort(p, "drive")
  /\ LET work  == task[p].work
         moves == task[p].moves
         a     == First({m[1] : m \in moves})
         m     == CHOOSE x \in moves : x[1] = a
     IN  \/ /\ Command(a, m[2], TRUE)
            /\ \/ /\ moves # {m}
                  /\ Again(p, Drive(work, moves \ {m}))
                  /\ UNCHANGED << target, jog >>
               \/ /\ moves = {m} /\ work.kind = "goto"
                  /\ target' = NewTarget(work.goal)
                  /\ Finish(p)
                  /\ UNCHANGED jog
               \/ /\ moves = {m} /\ work.kind = "jog"
                  /\ JogDriven(p, work.jog)
                  /\ UNCHANGED target
         \/ /\ Command(a, m[2], FALSE)
            /\ \/ work.kind = "jog" /\ Finish(p)
               \/ work.kind = "goto" /\ Again(p, Halt)
            /\ UNCHANGED << target, jog >>
  /\ UNCHANGED << pos, latest, seqs >>

\* A stop_all is done, and its task with it.
Halted(p) ==
  /\ HasPort(p, "halt")
  /\ StopAll
  /\ Finish(p)
  /\ UNCHANGED << pos, latest, target, seqs, jog >>

\* jog/stop, for a press whose jog is active and for any other.
StopJog(r, t, s) ==
  /\ task[r] = Idle
  /\ Accepts(t, s)
  /\ seqs' = [seqs EXCEPT ![t] = s]
  /\ \/ /\ jog # None /\ jog.token = t /\ jog.seq <= s
        /\ ClearWatchdog(t, s, io, r, Halt)
        /\ target' = None
     \/ /\ ~(jog # None /\ jog.token = t /\ jog.seq <= s)
        /\ UNCHANGED << jog, target, task, io >>
  /\ UNCHANGED << pos, run, latest, faults >>

\* The stop button.
Stop(r) ==
  /\ task[r] = Idle
  /\ target' = None
  /\ Start(r, Halt)
  /\ UNCHANGED << pos, run, latest, seqs, jog, faults >>

\* A goto in software.
Goto(r, goal) ==
  /\ task[r] = Idle
  /\ Start(r, [at |-> "snap", work |-> [kind |-> "goto", goal |-> goal]])
  /\ UNCHANGED << pos, run, latest, target, seqs, jog, faults >>

-----------------------------------------------------------------------------
(* The poll loop, the watchdog, and the motors.                            *)

PollBegin ==
  /\ task[Poll] = Idle
  /\ Start(Poll, [at |-> "snap", work |-> [kind |-> "poll"]])
  /\ UNCHANGED << pos, run, latest, target, seqs, jog, faults >>

\* The heartbeat timeout of the watchdog ends: its jog is stopped, if it is
\* still the active one.
WatchFires ==
  /\ task[Watch].at = "asleep"
  /\ LET j == task[Watch].jog IN
     \/ /\ jog # None /\ jog.token = j.token /\ jog.seq = j.seq
        /\ jog' = None
        /\ Start(Watch, Halt)
     \/ /\ ~(jog # None /\ jog.token = j.token /\ jog.seq = j.seq)
        /\ task' = [task EXCEPT ![Watch] = Idle]
        /\ UNCHANGED << jog, io >>
  /\ UNCHANGED << pos, run, latest, target, seqs, faults >>

\* An axis moves by a count, or is held by its mechanical stop.
Move(a) ==
  /\ run[a] # 0
  /\ pos[a] + run[a] \in Pos(a)
  /\ pos' = [pos EXCEPT ![a] = @ + run[a]]
  /\ UNCHANGED << run, latest, target, seqs, jog, task, io, faults >>

PortStep(p) ==
  Snap(p) \/ LimitStopped(p) \/ AxisStopped(p) \/ Driven(p) \/ Halted(p)

Request(r) ==
  \/ \E j \in Jog : JogBegin(r, j)
  \/ \E t \in Token, s \in 0 .. MaxSeq : StopJog(r, t, s)
  \/ Stop(r)
  \/ \E goal \in Goals : Goto(r, goal)

Next ==
  \/ \E r \in Req : Request(r)
  \/ \E p \in Task : PortStep(p)
  \/ PollBegin
  \/ WatchFires
  \/ \E a \in Axis : Move(a)

Spec == Init /\ [][Next]_vars

\* The port answers or times out, the poll loop goes round, the timeout of the
\* watchdog ends, and a commanded motor turns.
Fairness ==
  /\ \A p \in Task : WF_vars(PortStep(p))
  /\ WF_vars(PollBegin)
  /\ WF_vars(WatchFires)
  /\ \A a \in Axis : WF_vars(Move(a))

FairSpec == Spec /\ Fairness

(* A client that sends each goto only when the one before has ended: no     *)
(* goto is under way, no target is followed, and no arrival being stopped. *)
IsGoto(d) == d.at \in {"snap", "limit", "arrive", "drive"} /\ d.work.kind = "goto"
Going == {p \in Task : IsGoto(task[p])}
GotoIsAlone == Going = {} /\ target = None /\ \A q \in Task : task[q].at # "arrive"
InTurn(r) == \A goal \in Goals : Goto(r, goal) => GotoIsAlone

InTurnNext ==
  \/ \E r \in Req : Request(r) /\ InTurn(r)
  \/ \E p \in Task : PortStep(p)
  \/ PollBegin
  \/ WatchFires
  \/ \E a \in Axis : Move(a)

InTurnSpec == Init /\ [][InTurnNext]_vars

-----------------------------------------------------------------------------
(* Safety.                                                                 *)

\* A jog is active only while its own watchdog sleeps: whatever arming,
\* clearing, limit stops and refusals do to the two, no jog can go on without
\* a timer that will end it.
ActiveJogHasWatchdog ==
  jog # None => /\ task[Watch].at = "asleep"
                /\ task[Watch].jog = jog

Tracked(a) == target # None /\ a \notin target.stopped
StopPending == \E p \in Task : task[p].at \in {"limit", "halt"}
DrivePending == \E p \in Task : task[p].at = "drive"

\* No motor runs that nothing is going to stop: a jog with its watchdog, the
\* position target that the poll loop follows, or a stop on its way to the
\* port.  (A handler between two of its own commands is still at it.)
NoRunaway ==
  \A a \in Axis :
    run[a] # 0 => jog # None \/ Tracked(a) \/ StopPending \/ DrivePending

\* A task that is on its way with packet s, a jog, of press t.
Bears(d, t, s) ==
  /\ d.at \in {"snap", "limit", "arrive", "drive"}
  /\ d.work.kind = "jog"
  /\ d.work.jog.token = t /\ d.work.jog.seq = s
CarriesNewest(p, t) == Bears(task[p], t, seqs[t])

\* The active jog is the newest packet of its press, or the newest is a jog whose
\* handler is about to replace it or to end it: in whatever order the handlers
\* of a press end, a press that was stopped is not active, nor an older packet
\* when the handler of the newest is done.
NewestPacketLeads ==
  jog # None /\ faults = 0
    => \/ jog.seq = seqs[jog.token]
       \/ \E p \in Task : CarriesNewest(p, jog.token)

-----------------------------------------------------------------------------
(* Liveness, under Fairness.                                               *)

\* The dead man's switch: the packets of a press are finite, and without them no
\* jog stays active, whatever handlers are in flight and whichever command
\* fails.  Where the port works and no goto moves the dish, the motors are at
\* rest again, too; after a fault they need not be, as nobody repeats a stop
\* that failed.
JogsEnd ==
  []<>(jog = None /\ (faults = 0 /\ Goals = {} => \A a \in Axis : run[a] = 0))

\* What the comments say of a goto in software: the poll loop stops each axis
\* on its arrival.  The poll loop looks for a crossing between two of its own
\* readings only, so the code does not keep this.
MotionEnds == \A a \in Axis : []<>(run[a] = 0)
=============================================================================

------------------------- MODULE MountControlProofs -------------------------
(***************************************************************************)
(* Theorems about the control of the mount, for any number of requests and *)
(* presses, any range, limits and goals of the axes, and any number of     *)
(* faults on the port.                                                     *)
(***************************************************************************)
EXTENDS MountControl, SeqRemovalProofs

Resting == {"idle", "asleep"}

\* Nobody holds the port to drive nothing.
Active == {d \in Doing : d.at = "drive" => d.moves # {}}
Busy(t) == {p \in Task : t[p].at \notin Resting}

\* The tasks that hold or await the port are the busy ones, each once.
PortInv ==
  /\ task \in [Task -> Active]
  /\ io \in Seq(Task) /\ IsInjective(io)
  /\ Range(io) = Busy(task)

-----------------------------------------------------------------------------
(* The queue of the port.                                                  *)

LEMMA Appended ==
  ASSUME NEW q \in Seq(Task), IsInjective(q), NEW p \in Task, p \notin Range(q)
  PROVE  /\ Append(q, p) \in Seq(Task)
         /\ IsInjective(Append(q, p))
         /\ Range(Append(q, p)) = Range(q) \cup {p}
<1> DEFINE r == Append(q, p)
<1>1. /\ Len(q) \in Nat /\ DOMAIN q = 1 .. Len(q) /\ DOMAIN r = 1 .. Len(q) + 1
      /\ r \in Seq(Task) /\ r[Len(q) + 1] = p
  OBVIOUS
<1>2. \A i \in 1 .. Len(q) : r[i] = q[i]
  OBVIOUS
<1> HIDE DEF r
<1>3. \A i \in 1 .. Len(q) : q[i] # p
  BY <1>1 DEF Range
<1>4. IsInjective(r)
  <2> SUFFICES ASSUME NEW a \in DOMAIN r, NEW b \in DOMAIN r, r[a] = r[b] PROVE a = b
    BY DEF IsInjective
  <2>1. CASE a = Len(q) + 1 \/ b = Len(q) + 1
    BY <1>1, <1>2, <1>3, <2>1
  <2>2. CASE a \in 1 .. Len(q) /\ b \in 1 .. Len(q)
    BY <1>1, <1>2, <2>2 DEF IsInjective
  <2> QED BY <1>1, <2>1, <2>2
<1>5. Range(r) = Range(q) \cup {p}
  <2>1. Range(r) = {r[i] : i \in 1 .. Len(q) + 1} /\ Range(q) = {q[i] : i \in 1 .. Len(q)}
    BY <1>1 DEF Range
  <2>2. 1 .. Len(q) + 1 = (1 .. Len(q)) \cup {Len(q) + 1}
    BY <1>1
  <2> QED BY <1>1, <1>2, <2>1, <2>2
<1> QED BY <1>1, <1>4, <1>5 DEF r

LEMMA Taken ==
  ASSUME NEW q \in Seq(Task), IsInjective(q), q # << >>
  PROVE  /\ Head(q) \in Task /\ Head(q) \in Range(q)
         /\ Tail(q) \in Seq(Task)
         /\ IsInjective(Tail(q))
         /\ Range(Tail(q)) = Range(q) \ {Head(q)}
<1> DEFINE r == Tail(q)
<1>1. /\ Len(q) \in Nat \ {0} /\ DOMAIN q = 1 .. Len(q) /\ DOMAIN r = 1 .. Len(q) - 1
      /\ r \in Seq(Task) /\ Head(q) = q[1] /\ q[1] \in Task
  OBVIOUS
<1>2. \A i \in 1 .. Len(q) - 1 : r[i] = q[i + 1]
  OBVIOUS
<1> HIDE DEF r
<1>3. IsInjective(r)
  <2> SUFFICES ASSUME NEW a \in DOMAIN r, NEW b \in DOMAIN r, r[a] = r[b] PROVE a = b
    BY DEF IsInjective
  <2>1. q[a + 1] = q[b + 1] /\ a + 1 \in DOMAIN q /\ b + 1 \in DOMAIN q
    BY <1>1, <1>2
  <2>2. a + 1 = b + 1
    BY <2>1 DEF IsInjective
  <2> QED BY <1>1, <2>2
<1>4. Range(r) \subseteq Range(q) \ {Head(q)}
  <2> SUFFICES ASSUME NEW a \in DOMAIN r PROVE r[a] \in Range(q) /\ r[a] # Head(q)
    BY DEF Range
  <2>1. r[a] = q[a + 1] /\ a + 1 \in DOMAIN q /\ 1 \in DOMAIN q /\ a + 1 # 1
    BY <1>1, <1>2
  <2> QED BY <1>1, <2>1 DEF Range, IsInjective
<1>5. Range(q) \ {Head(q)} \subseteq Range(r)
  <2> SUFFICES ASSUME NEW a \in DOMAIN q, q[a] # q[1] PROVE q[a] \in Range(r)
    BY <1>1 DEF Range
  <2>1. a - 1 \in DOMAIN r /\ r[a - 1] = q[a]
    BY <1>1, <1>2
  <2> QED BY <2>1 DEF Range
<1>6. Range(r) = Range(q) \ {Head(q)} /\ Head(q) \in Range(q)
  <2>1. Head(q) \in Range(q)
    BY <1>1 DEF Range
  <2> QED BY <1>4, <1>5, <2>1
<1> QED BY <1>1, <1>3, <1>6 DEF r
-----------------------------------------------------------------------------
(* What the ways of asking for the port, and of letting it go, keep.       *)

LEMMA IdleRests == Idle \in Active /\ Idle.at \in Resting
BY DEF Idle, Active, Doing, Resting

LEMMA HaltIsBusy == Halt \in Active /\ Halt.at \notin Resting
BY DEF Halt, Active, Doing, Resting

LEMMA StartPort ==
  ASSUME PortInv, NEW p \in Task, task[p].at \in Resting,
         NEW doing \in Active, doing.at \notin Resting, Start(p, doing)
  PROVE  PortInv'
<1>1. p \notin Range(io)
  BY DEF PortInv, Busy
<1>2. /\ io' \in Seq(Task) /\ IsInjective(io') /\ Range(io') = Range(io) \cup {p}
  BY <1>1, Appended DEF PortInv, Start
<1>3. task' \in [Task -> Active] /\ Busy(task)' = Busy(task) \cup {p}
  BY DEF PortInv, Start, Busy
<1> QED BY <1>2, <1>3 DEF PortInv

LEMMA Served ==
  ASSUME PortInv, NEW p, NEW at, HasPort(p, at)
  PROVE  /\ p \in Task /\ at \notin Resting /\ p \in Busy(task)
         /\ Tail(io) \in Seq(Task) /\ IsInjective(Tail(io))
         /\ Range(Tail(io)) = Busy(task) \ {p}
         /\ p \notin Range(Tail(io))
<1>1. io # << >> /\ Head(io) = p /\ task[p].at = at
  BY DEF HasPort
<1> QED BY <1>1, Taken DEF PortInv, Busy

LEMMA AgainPort ==
  ASSUME PortInv, NEW p, NEW at, HasPort(p, at),
         NEW doing \in Active, doing.at \notin Resting, Again(p, doing)
  PROVE  PortInv'
<1>1. /\ io' \in Seq(Task) /\ IsInjective(io') /\ Range(io') = (Busy(task) \ {p}) \cup {p}
  BY Served, Appended DEF Again
<1>2. p \in Task /\ p \in Busy(task)
  BY Served
<1>3. task' \in [Task -> Active] /\ Busy(task)' = Busy(task)
  BY <1>2 DEF PortInv, Again, Busy
<1> QED BY <1>1, <1>2, <1>3 DEF PortInv

LEMMA FinishPort ==
  ASSUME PortInv, NEW p, NEW at, HasPort(p, at), Finish(p)
  PROVE  PortInv'
<1>1. /\ io' \in Seq(Task) /\ IsInjective(io') /\ Range(io') = Busy(task) \ {p}
  BY Served DEF Finish
<1>2. p \in Task
  BY Served
<1>3. task' \in [Task -> Active] /\ Busy(task)' = Busy(task) \ {p}
  BY <1>2, IdleRests DEF PortInv, Finish, Busy
<1> QED BY <1>1, <1>3 DEF PortInv

\* clear_jog_watchdog takes the watchdog off the queue q, where p asks next.
LEMMA ClearPort ==
  ASSUME PortInv, NEW p \in Task, NEW q \in Seq(Task), IsInjective(q),
         Range(q) = Busy(task) \ {p},
         NEW t, NEW s, NEW doing \in Active, doing.at \notin Resting,
         ClearWatchdog(t, s, q, p, doing)
  PROVE  PortInv'
<1> DEFINE cleared == jog # None /\ jog.token = t /\ jog.seq <= s
           left == IF cleared THEN None ELSE jog
           cancel == left = None
<1>1. /\ task' = [x \in Task |-> IF x = p THEN doing
                                  ELSE IF x = Watch /\ cancel THEN Idle ELSE task[x]]
      /\ io' = Append(IF cancel THEN Without(q, {Watch}) ELSE q, p)
  BY DEF ClearWatchdog
<1> HIDE DEF cancel
<1>2. task' \in [Task -> Active]
  BY <1>1, IdleRests DEF PortInv
<1>3. CASE cancel
  <2> DEFINE w == Without(q, {Watch})
  <2>1. w \in Seq(Task) /\ IsInjective(w) /\ Range(w) = Range(q) \ {Watch}
    BY WithoutRange, WithoutInjective
  <2>2. io' = Append(w, p)
    BY <1>1, <1>3
  <2> HIDE DEF w
  <2>3. io' \in Seq(Task) /\ IsInjective(io') /\ Range(io') = (Range(q) \ {Watch}) \cup {p}
    BY <2>1, <2>2, Appended
  <2>4. Busy(task)' = ((Busy(task) \ {p}) \ {Watch}) \cup {p}
    <3>1. \A x \in Task : task'[x].at \notin Resting
                             <=> x = p \/ (x # Watch /\ task[x].at \notin Resting)
      BY <1>1, <1>3, IdleRests
    <3> QED BY <3>1 DEF Busy
  <2> QED BY <1>2, <2>3, <2>4 DEF PortInv
<1>4. CASE ~cancel
  <2>1. io' \in Seq(Task) /\ IsInjective(io') /\ Range(io') = Range(q) \cup {p}
    BY <1>1, <1>4, Appended
  <2>2. Busy(task)' = (Busy(task) \ {p}) \cup {p}
    <3>1. \A x \in Task : task'[x].at \notin Resting
                             <=> x = p \/ task[x].at \notin Resting
      BY <1>1, <1>4
    <3> QED BY <3>1 DEF Busy
  <2> QED BY <1>2, <2>1, <2>2 DEF PortInv
<1> QED BY <1>3, <1>4

\* arm_jog_watchdog replaces the watchdog, also one that waits for the port.
LEMMA ArmPort ==
  ASSUME PortInv, NEW p, NEW at, HasPort(p, at), NEW j \in Jog, Arm(p, j)
  PROVE  PortInv'
<1> DEFINE w == Without(Tail(io), {Watch})
           sleep == [at |-> "asleep", jog |-> j]
<1>1. sleep \in Active /\ sleep.at \in Resting
  BY DEF Active, Doing, Resting
<1>2. /\ w \in Seq(Task) /\ IsInjective(w) /\ Range(w) = (Busy(task) \ {p}) \ {Watch}
  <2>1. /\ Tail(io) \in Seq(Task) /\ IsInjective(Tail(io))
        /\ Range(Tail(io)) = Busy(task) \ {p}
    BY Served
  <2>2. w \in Seq(Task) /\ Range(w) = Range(Tail(io)) \ {Watch}
    BY <2>1, WithoutRange
  <2>3. IsInjective(w)
    BY <2>1, WithoutInjective
  <2> QED BY <2>1, <2>2, <2>3
<1>3. task' = [task EXCEPT ![p] = Idle, ![Watch] = sleep] /\ io' = w
  BY DEF Arm
<1> HIDE DEF w, sleep
<1>4. task' \in [Task -> Active]
  BY <1>1, <1>3, IdleRests DEF PortInv
<1>5. Busy(task)' = (Busy(task) \ {p}) \ {Watch}
  <2>1. \A x \in Task : task'[x].at \notin Resting
                           <=> x # p /\ x # Watch /\ task[x].at \notin Resting
    BY <1>1, <1>3, IdleRests DEF PortInv
  <2> QED BY <2>1 DEF Busy
<1> QED BY <1>2, <1>3, <1>4, <1>5 DEF PortInv
-----------------------------------------------------------------------------
(* What a task carries with it.                                            *)

Work == {[kind |-> "poll"]} \cup [kind : {"jog"}, jog : Jog]
          \cup [kind : {"goto"}, goal : Goals]

\* The tasks that are at something, by what they are at.
LEMMA DoingIs ==
  Doing = [at : {"snap", "limit"}, work : Work]
        \cup [at : {"arrive"}, work : Work, hits : SUBSET Axis,
              aim : Target \cup {None}, bad : BOOLEAN]
        \cup [at : {"drive"}, work : Work, moves : SUBSET (Axis \X Way)]
        \cup [at : {"asleep"}, jog : Jog]
        \cup {Idle, [at |-> "halt"]}
BY DEF Doing, Work

LEMMA SnapTask ==
  ASSUME NEW w \in Work, NEW at \in {"snap", "limit"}
  PROVE  /\ [at |-> at, work |-> w] \in Active
         /\ [at |-> at, work |-> w].at \notin Resting
BY DoingIs DEF Resting, Active

LEMMA DriveTask ==
  ASSUME NEW w \in Work, NEW moves \in SUBSET (Axis \X Way), moves # {}
  PROVE  Drive(w, moves) \in Active /\ Drive(w, moves).at \notin Resting
BY DoingIs DEF Drive, Resting, Active

LEMMA ArriveTask ==
  ASSUME NEW w \in Work, NEW hits \in SUBSET Axis, NEW aim \in Target \cup {None},
         NEW bad \in BOOLEAN
  PROVE  LET d == [at |-> "arrive", work |-> w, hits |-> hits, aim |-> aim, bad |-> bad]
         IN  d \in Active /\ d.at \notin Resting
BY DoingIs DEF Resting, Active

LEMMA DoingHas ==
  ASSUME NEW d \in Active
  PROVE  /\ d.at \in {"snap", "limit", "arrive", "drive"} => d.work \in Work
         /\ d.at = "arrive" =>
              /\ d.hits \in SUBSET Axis /\ d.aim \in Target \cup {None} /\ d.bad \in BOOLEAN
              /\ d = [at |-> "arrive", work |-> d.work, hits |-> d.hits, aim |-> d.aim,
                      bad |-> d.bad]
         /\ d.at = "drive" => d.moves \in SUBSET (Axis \X Way) /\ d.moves # {}
         /\ d.at = "asleep" => d.jog \in Jog
<1>0. d \in Doing /\ (d.at = "drive" => d.moves # {})
  BY DEF Active
<1>1. CASE d \in [at : {"snap", "limit"}, work : Work]
  BY <1>1
<1>2. CASE d \in [at : {"arrive"}, work : Work, hits : SUBSET Axis,
                   aim : Target \cup {None}, bad : BOOLEAN]
  BY <1>2
<1>3. CASE d \in [at : {"drive"}, work : Work, moves : SUBSET (Axis \X Way)]
  BY <1>3, <1>0
<1>4. CASE d \in [at : {"asleep"}, jog : Jog]
  BY <1>4
<1>5. CASE d \in {Idle, [at |-> "halt"]}
  BY <1>5 DEF Idle
<1> QED BY <1>1, <1>2, <1>3, <1>4, <1>5, <1>0, DoingIs

LEMMA WorkHas ==
  ASSUME NEW w \in Work
  PROVE  /\ w.kind = "jog" => w.jog \in Jog
         /\ w.kind = "goto" => w.goal \in Goals
BY DEF Work
-----------------------------------------------------------------------------
(* Readings and targets.                                                   *)

LEMMA MountBounds ==
  /\ MaxSeq \in Nat /\ Tolerance \in Nat /\ MaxFaults \in Nat
  /\ MaxPos \in [Axis -> Nat] /\ Lo \in [Axis -> Nat] /\ Hi \in [Axis -> Nat]
  /\ Goals \subseteq [Axis -> Nat] /\ Starts \subseteq [Axis -> Nat]
  /\ \A a \in Axis : Hi[a] <= MaxPos[a] /\ \A g \in Goals \cup Starts : g[a] \in Lo[a] .. Hi[a]
  /\ Poll # Watch /\ Poll \notin Req /\ Watch \notin Req
  /\ None \notin Int
BY MountAssumption

Readings == [Axis -> Reading]
Side == {-1, 0, 1, None}

LEMMA ReadingIs == ASSUME NEW x \in Reading, x # None PROVE x \in Nat
<1>1. PICK a \in Axis : x \in Pos(a)
  BY DEF Reading
<1>2. MaxPos[a] \in Nat
  BY MountBounds
<1> QED BY <1>1, <1>2 DEF Pos

LEMMA DeltaType ==
  ASSUME NEW a \in Axis, NEW goal \in Goals, NEW now \in Readings
  PROVE  Delta(a, goal, now) \in Side /\ (now[a] # None => Delta(a, goal, now) \in {-1, 0, 1})
<1>1. now[a] \in Reading /\ goal[a] \in Nat
  BY MountBounds DEF Readings
<1>2. CASE now[a] = None
  BY <1>2 DEF Delta, Side
<1>3. CASE now[a] # None
  <2>1. now[a] - goal[a] \in Int
    BY <1>1, <1>3, ReadingIs
  <2>2. SignOf(now[a] - goal[a]) \in {-1, 0, 1}
    BY <2>1 DEF SignOf
  <2> QED BY <1>3, <2>2 DEF Delta, Side
<1> QED BY <1>2, <1>3

LEMMA RememberType ==
  ASSUME NEW tgt \in Target, NEW now \in Readings
  PROVE  Remember(tgt, now) \in Target
<1>1. tgt.goal \in Goals /\ tgt.stopped \in SUBSET Axis /\ tgt.last \in [Axis -> Side]
      /\ tgt = [goal |-> tgt.goal, stopped |-> tgt.stopped, last |-> tgt.last]
  BY DEF Target, Side
<1> DEFINE l == [a \in Axis |-> IF a \in tgt.stopped THEN tgt.last[a]
                               ELSE Delta(a, tgt.goal, now)]
<1>2. l \in [Axis -> Side]
  BY <1>1, DeltaType
<1>3. Remember(tgt, now) = [goal |-> tgt.goal, stopped |-> tgt.stopped, last |-> l]
  BY <1>1 DEF Remember
<1> HIDE DEF l
<1> QED BY <1>1, <1>2, <1>3 DEF Target, Side

LEMMA ArrivedType ==
  ASSUME NEW tgt \in Target, NEW now \in Readings
  PROVE  Arrived(tgt, now) \in Target \cup {None}
<1>1. tgt.goal \in Goals /\ tgt.stopped \in SUBSET Axis
      /\ tgt = [goal |-> tgt.goal, stopped |-> tgt.stopped, last |-> tgt.last]
  BY DEF Target
<1> DEFINE l == [a \in Axis |-> Delta(a, tgt.goal, now)]
           s == tgt.stopped \cup Hits(tgt, now)
<1>2. l \in [Axis -> Side]
  BY <1>1, DeltaType
<1>3. s \in SUBSET Axis
  BY <1>1 DEF Hits
<1>4. Arrived(tgt, now) \in {None, [goal |-> tgt.goal, stopped |-> s, last |-> l]}
  BY <1>1 DEF Arrived
<1> HIDE DEF l, s
<1> QED BY <1>1, <1>2, <1>3, <1>4 DEF Target, Side

LEMMA NewTargetType == ASSUME NEW goal \in Goals PROVE NewTarget(goal) \in Target
BY DEF NewTarget, Target

LEMMA MovesType ==
  ASSUME NEW goal, NEW now
  PROVE  Moves(goal, now) \in SUBSET (Axis \X Way)
BY DEF Moves

LEMMA HitsType == ASSUME NEW tgt, NEW now PROVE Hits(tgt, now) \in SUBSET Axis
BY DEF Hits
-----------------------------------------------------------------------------
(* refresh and what follows it.                                            *)

MountTypes ==
  /\ pos \in [Axis -> Nat] /\ \A a \in Axis : pos[a] \in Pos(a)
  /\ run \in [Axis -> Way \cup {0}]
  /\ latest \in Readings
  /\ target \in Target \cup {None}
  /\ seqs \in [Token -> -1 .. MaxSeq]
  /\ jog \in Jog \cup {None}
  /\ faults \in 0 .. MaxFaults

MountInv == PortInv /\ MountTypes /\ ActiveJogHasWatchdog

\* The jog that is active stays so, with its watchdog, or ends.
JogKept == jog' # None => jog' = jog /\ task'[Watch] = task[Watch]

\* The watchdog of an active jog sleeps, so it is not the task that is served.
LEMMA ServedIsNotWatch ==
  ASSUME MountInv, NEW p, NEW at, HasPort(p, at), jog # None
  PROVE  p # Watch
<1>1. task[p].at = at /\ at \notin Resting
  BY Served DEF HasPort, MountInv
<1>2. task[Watch].at = "asleep"
  BY DEF MountInv, ActiveJogHasWatchdog
<1> QED BY <1>1, <1>2 DEF Resting

LEMMA KeptInv == ASSUME ActiveJogHasWatchdog, JogKept PROVE ActiveJogHasWatchdog'
BY DEF ActiveJogHasWatchdog, JogKept

LEMMA FinishStep ==
  ASSUME MountInv, NEW p, NEW at, HasPort(p, at), Finish(p), UNCHANGED jog
  PROVE  PortInv' /\ JogKept
<1>1. PortInv'
  BY FinishPort DEF MountInv
<1>2. JogKept
  BY ServedIsNotWatch DEF JogKept, Finish, MountInv, PortInv
<1> QED BY <1>1, <1>2

LEMMA AgainStep ==
  ASSUME MountInv, NEW p, NEW at, HasPort(p, at), NEW doing \in Active, doing.at \notin Resting,
         Again(p, doing), jog' \in {jog, None}
  PROVE  PortInv' /\ JogKept
<1>1. PortInv'
  BY AgainPort DEF MountInv
<1>2. JogKept
  BY ServedIsNotWatch DEF JogKept, Again, MountInv, PortInv
<1> QED BY <1>1, <1>2

LEMMA ClearStep ==
  ASSUME MountInv, NEW p \in Task, NEW q \in Seq(Task), IsInjective(q),
         Range(q) = Busy(task) \ {p}, jog # None => p # Watch,
         NEW t, NEW s, NEW doing \in Active, doing.at \notin Resting,
         ClearWatchdog(t, s, q, p, doing)
  PROVE  PortInv' /\ JogKept
<1>1. PortInv'
  BY ClearPort DEF MountInv
<1>2. JogKept
  BY DEF JogKept, ClearWatchdog, Task
<1> QED BY <1>1, <1>2

LEMMA ReturnStep ==
  ASSUME MountInv, NEW p, NEW at, HasPort(p, at), NEW work \in Work, NEW now \in Readings,
         NEW tgt \in Target \cup {None}, Return(p, work, now, tgt)
  PROVE  PortInv' /\ JogKept /\ target' \in Target \cup {None}
<1>1. CASE work.kind = "poll" /\ target' = tgt /\ Finish(p) /\ UNCHANGED jog
  BY <1>1, FinishStep
<1>2. CASE /\ work.kind = "jog" /\ target' = tgt
           /\ ClearWatchdog(work.jog.token, work.jog.seq, Tail(io), p, Halt)
  <2>1. /\ p \in Task /\ Tail(io) \in Seq(Task) /\ IsInjective(Tail(io))
        /\ Range(Tail(io)) = Busy(task) \ {p}
    BY Served DEF MountInv
  <2> QED BY <1>2, <2>1, HaltIsBusy, ServedIsNotWatch, ClearStep
<1>3. CASE /\ work.kind = "jog" /\ target' = None /\ UNCHANGED jog
           /\ Again(p, Drive(work, {<< work.jog.axis, work.jog.way >>}))
  <2>1. work.jog.axis \in Axis /\ work.jog.way \in Way
    BY <1>3, WorkHas DEF Jog
  <2>2. {<< work.jog.axis, work.jog.way >>} \in SUBSET (Axis \X Way)
    BY <2>1
  <2> QED BY <1>3, <2>2, DriveTask, AgainStep
<1>4. CASE /\ work.kind = "goto" /\ target' = tgt /\ UNCHANGED jog
           /\ Moves(work.goal, now) # {}
           /\ Again(p, Drive(work, Moves(work.goal, now)))
  <2>1. Moves(work.goal, now) # {}
    BY <1>4
  <2> QED BY <1>4, <2>1, MovesType, DriveTask, AgainStep
<1>5. CASE /\ work.kind = "goto" /\ target' = NewTarget(work.goal) /\ UNCHANGED jog
           /\ Finish(p)
  BY <1>5, WorkHas, NewTargetType, FinishStep
<1> QED BY <1>1, <1>2, <1>3, <1>4, <1>5 DEF Return

LEMMA CheckStep ==
  ASSUME MountInv, NEW p, NEW at, HasPort(p, at), NEW work \in Work, NEW now \in Readings,
         CheckTarget(p, work, now)
  PROVE  PortInv' /\ JogKept /\ target' \in Target \cup {None}
<1>0. target \in Target \cup {None}
  BY DEF MountInv, MountTypes
<1>1. CASE Return(p, work, now, None)
  BY <1>1, ReturnStep
<1>2. CASE target # None /\ Return(p, work, now, Remember(target, now))
  BY <1>0, <1>2, RememberType, ReturnStep
<1>3. CASE /\ target # None /\ UNCHANGED << target, jog >>
           /\ Again(p, [at |-> "arrive", work |-> work, hits |-> Hits(target, now),
                        aim |-> Arrived(target, now), bad |-> FALSE])
  BY <1>0, <1>3, HitsType, ArrivedType, ArriveTask, AgainStep
<1> QED BY <1>1, <1>2, <1>3 DEF CheckTarget
-----------------------------------------------------------------------------
(* The commands to the motors.                                             *)

RunTypes == run \in [Axis -> Way \cup {0}] /\ faults \in 0 .. MaxFaults

LEMMA FaultType == ASSUME MountInv, Fault PROVE faults' \in 0 .. MaxFaults
BY MountBounds DEF MountInv, MountTypes, Fault

LEMMA CommandType ==
  ASSUME MountInv, NEW a \in Axis, NEW way \in Way \cup {0}, NEW ok, Command(a, way, ok)
  PROVE  RunTypes'
<1>1. run \in [Axis -> Way \cup {0}] /\ faults \in 0 .. MaxFaults
  BY DEF MountInv, MountTypes
<1>2. run' \in {run, [run EXCEPT ![a] = way]}
  BY DEF Command
<1>3. run' \in [Axis -> Way \cup {0}]
  BY <1>1, <1>2
<1>4. faults' = faults \/ Fault
  BY DEF Command
<1>5. faults' \in 0 .. MaxFaults
  BY <1>1, <1>4, FaultType
<1> QED BY <1>3, <1>5 DEF RunTypes

LEMMA StopAllType == ASSUME MountInv, StopAll PROVE RunTypes'
<1>1. run \in [Axis -> Way \cup {0}] /\ faults \in 0 .. MaxFaults
  BY DEF MountInv, MountTypes
<1>2. run' \in [Axis -> Way \cup {0}]
  BY <1>1 DEF StopAll
<1>3. faults' = faults \/ Fault
  BY DEF StopAll
<1>4. faults' \in 0 .. MaxFaults
  BY <1>1, <1>3, FaultType
<1> QED BY <1>2, <1>4 DEF RunTypes

\* What is left to show of a step that keeps the jog and the port.
LEMMA Joined ==
  ASSUME MountInv, PortInv', JogKept, target' \in Target \cup {None}, RunTypes',
         latest' \in Readings, seqs' \in [Token -> -1 .. MaxSeq], UNCHANGED pos
  PROVE  MountInv'
<1>1. ActiveJogHasWatchdog'
  BY KeptInv DEF MountInv
<1>2. jog' \in Jog \cup {None}
  BY DEF MountInv, MountTypes, JogKept
<1>3. pos' \in [Axis -> Nat] /\ \A a \in Axis : pos'[a] \in Pos(a)
  BY DEF MountInv, MountTypes
<1> QED BY <1>1, <1>2, <1>3 DEF MountInv, MountTypes, RunTypes

-----------------------------------------------------------------------------
(* The tasks on the port.                                                  *)

LEMMA SnapInv == ASSUME MountInv, NEW p \in Task, Snap(p) PROVE MountInv'
<1>1. HasPort(p, "snap") /\ UNCHANGED << pos, run, seqs >>
  BY DEF Snap
<1>2. task[p].at = "snap" /\ task[p].work \in Work
  BY <1>1, DoingHas DEF MountInv, PortInv, HasPort
<1>3. latest' \in Readings /\ faults' \in 0 .. MaxFaults
  <2>1. CASE latest' = pos /\ UNCHANGED faults
    <3>1. \A a \in Axis : pos[a] \in Reading
      BY DEF MountInv, MountTypes, Reading
    <3> QED BY <2>1, <3>1 DEF MountInv, MountTypes, Readings
  <2>2. CASE /\ Fault
             /\ \E lost \in (SUBSET Axis) \ {{}} :
                  latest' = [a \in Axis |-> IF a \in lost THEN None ELSE pos[a]]
    <3>1. \A a \in Axis : pos[a] \in Reading /\ None \in Reading
      BY DEF MountInv, MountTypes, Reading
    <3> QED BY <2>2, <3>1, FaultType DEF Readings
  <2> QED BY <2>1, <2>2 DEF Snap
<1>4. PortInv' /\ JogKept /\ target' \in Target \cup {None}
  <2>1. CASE /\ jog' = None /\ UNCHANGED target
             /\ Again(p, [at |-> "limit", work |-> task[p].work])
    BY <1>1, <1>2, <2>1, SnapTask, AgainStep DEF MountInv, MountTypes
  <2>2. CASE CheckTarget(p, task[p].work, latest')
    BY <1>1, <1>2, <1>3, <2>2, CheckStep
  <2> QED BY <2>1, <2>2 DEF Snap
<1> QED BY <1>1, <1>3, <1>4, Joined DEF MountInv, MountTypes, RunTypes

LEMMA LimitStoppedInv == ASSUME MountInv, NEW p \in Task, LimitStopped(p) PROVE MountInv'
<1>1. /\ HasPort(p, "limit") /\ StopAll /\ CheckTarget(p, task[p].work, latest)
      /\ UNCHANGED << pos, latest, seqs >>
  BY DEF LimitStopped
<1>2. task[p].at = "limit" /\ task[p].work \in Work
  BY <1>1, DoingHas DEF MountInv, PortInv, HasPort
<1>3. PortInv' /\ JogKept /\ target' \in Target \cup {None}
  BY <1>1, <1>2, CheckStep DEF MountInv, MountTypes
<1>4. RunTypes'
  BY <1>1, StopAllType
<1> QED BY <1>1, <1>3, <1>4, Joined DEF MountInv, MountTypes

LEMMA FirstType == ASSUME NEW axes \in SUBSET Axis PROVE First(axes) \in Axis
BY DEF First, Axis

LEMMA ArriveGoesOn ==
  ASSUME NEW d \in Active, d.at = "arrive", NEW rest \in SUBSET Axis, NEW bad \in BOOLEAN
  PROVE  /\ [d EXCEPT !.hits = rest, !.bad = bad] \in Active
         /\ [d EXCEPT !.hits = rest, !.bad = bad].at \notin Resting
<1> DEFINE D == [at : {"arrive"}, work : Work, hits : SUBSET Axis,
                 aim : Target \cup {None}, bad : BOOLEAN]
<1>1. d \in D
  BY DoingIs DEF Idle, Active
<1>2. [d EXCEPT !.hits = rest, !.bad = bad] \in D
  BY <1>1
<1> QED BY <1>1, <1>2, DoingIs DEF Resting, Active

LEMMA AxisStoppedInv == ASSUME MountInv, NEW p \in Task, AxisStopped(p) PROVE MountInv'
<1>1. HasPort(p, "arrive") /\ UNCHANGED << pos, latest, seqs >>
  BY DEF AxisStopped
<1> DEFINE d == task[p]
           a == First(d.hits)
           rest == d.hits \ {a}
<1>2. /\ d.at = "arrive" /\ d.work \in Work /\ d.hits \in SUBSET Axis
      /\ d.aim \in Target \cup {None} /\ d.bad \in BOOLEAN
      /\ d = [at |-> "arrive", work |-> d.work, hits |-> d.hits, aim |-> d.aim, bad |-> d.bad]
  <2>1. d \in Active /\ d.at = "arrive"
    BY <1>1 DEF MountInv, PortInv, HasPort
  <2> HIDE DEF d
  <2> QED BY <2>1, DoingHas
<1>3. a \in Axis /\ rest \in SUBSET Axis
  BY <1>2, FirstType
<1>4. PICK ok \in BOOLEAN :
        LET bad == d.bad \/ ~ok IN
        /\ Command(a, 0, ok)
        /\ \/ /\ rest # {}
              /\ Again(p, [d EXCEPT !.hits = rest, !.bad = bad])
              /\ UNCHANGED << target, jog >>
           \/ /\ rest = {}
              /\ Return(p, d.work, latest, IF bad THEN target ELSE d.aim)
  BY DEF AxisStopped
<1> DEFINE bad == d.bad \/ ~ok
<1>5. RunTypes'
  BY <1>3, <1>4, CommandType
<1>6. PortInv' /\ JogKept /\ target' \in Target \cup {None}
  <2>1. bad \in BOOLEAN
    OBVIOUS
  <2>2. CASE /\ Again(p, [d EXCEPT !.hits = rest, !.bad = bad])
             /\ UNCHANGED << target, jog >>
    <3>1. d \in Active
      BY DEF MountInv, PortInv
    <3> HIDE DEF d, rest, bad, a
    <3>2. /\ [d EXCEPT !.hits = rest, !.bad = bad] \in Active
          /\ [d EXCEPT !.hits = rest, !.bad = bad].at \notin Resting
      BY <1>2, <1>3, <2>1, <3>1, ArriveGoesOn
    <3> QED BY <1>1, <2>2, <3>2, AgainStep DEF MountInv, MountTypes
  <2>3. CASE Return(p, d.work, latest, IF bad THEN target ELSE d.aim)
    <3>1. (IF bad THEN target ELSE d.aim) \in Target \cup {None} /\ latest \in Readings
      BY <1>2 DEF MountInv, MountTypes
    <3> HIDE DEF d, bad
    <3> QED BY <1>1, <1>2, <2>3, <3>1, ReturnStep
  <2> QED BY <1>4, <2>2, <2>3
<1> QED BY <1>1, <1>5, <1>6, Joined DEF MountInv, MountTypes

\* The same of a step that arms the watchdog of a jog.
LEMMA JoinedArmed ==
  ASSUME MountInv, NEW p, NEW at, HasPort(p, at), NEW j \in Jog, Arm(p, j),
         RunTypes', UNCHANGED << pos, latest, target, seqs >>
  PROVE  MountInv'
<1>1. PortInv'
  BY ArmPort DEF MountInv
<1>2. ActiveJogHasWatchdog'
  <2>1. task'[Watch] = [at |-> "asleep", jog |-> j] /\ jog' = j
    BY DEF Arm, MountInv, PortInv, Task
  <2> QED BY <2>1 DEF ActiveJogHasWatchdog
<1>3. jog' \in Jog \cup {None}
  BY DEF Arm
<1>4. pos' \in [Axis -> Nat] /\ \A a \in Axis : pos'[a] \in Pos(a)
  BY DEF MountInv, MountTypes
<1> QED BY <1>1, <1>2, <1>3, <1>4 DEF MountInv, MountTypes, RunTypes

LEMMA DrivenInv == ASSUME MountInv, NEW p \in Task, Driven(p) PROVE MountInv'
<1>1. HasPort(p, "drive") /\ UNCHANGED << pos, latest, seqs >>
  BY DEF Driven
<1> DEFINE work == task[p].work
           moves == task[p].moves
           a == First({x[1] : x \in moves})
           m == CHOOSE x \in moves : x[1] = a
<1>2. work \in Work /\ moves \in SUBSET (Axis \X Way) /\ moves # {}
  <2>1. task[p] \in Active /\ task[p].at = "drive"
    BY <1>1 DEF MountInv, PortInv, HasPort
  <2> QED BY <2>1, DoingHas
<1>3. m \in moves /\ m[1] = a /\ a \in Axis /\ m[2] \in Way
  <2>1. {x[1] : x \in moves} \in SUBSET Axis /\ {x[1] : x \in moves} # {}
    BY <1>2
  <2>2. a \in {x[1] : x \in moves}
    <3> HIDE DEF moves
    <3> QED BY <2>1 DEF First, Axis
  <2>3. \E x \in moves : x[1] = a
    BY <2>2
  <2>4. m \in moves /\ m[1] = a
    BY <2>3
  <2> HIDE DEF m, a
  <2> QED BY <1>2, <2>4
<1>4. \/ /\ Command(a, m[2], TRUE)
         /\ \/ /\ moves # {m}
               /\ Again(p, Drive(work, moves \ {m}))
               /\ UNCHANGED << target, jog >>
            \/ /\ work.kind = "goto"
               /\ target' = NewTarget(work.goal)
               /\ Finish(p)
               /\ UNCHANGED jog
            \/ /\ work.kind = "jog"
               /\ JogDriven(p, work.jog)
               /\ UNCHANGED target
      \/ /\ Command(a, m[2], FALSE)
         /\ Finish(p) \/ Again(p, Halt)
         /\ UNCHANGED << target, jog >>
  BY DEF Driven
<1> HIDE DEF work, moves, a, m
<1>5. RunTypes'
  BY <1>3, <1>4, CommandType
<1>6. CASE moves # {m} /\ Again(p, Drive(work, moves \ {m})) /\ UNCHANGED << target, jog >>
  <2>1. moves \ {m} \in SUBSET (Axis \X Way) /\ moves \ {m} # {}
    BY <1>2, <1>3, <1>6
  <2>2. PortInv' /\ JogKept
    BY <1>1, <1>2, <1>6, <2>1, DriveTask, AgainStep
  <2> QED BY <1>1, <1>5, <1>6, <2>2, Joined DEF MountInv, MountTypes
<1>7. CASE /\ work.kind = "goto" /\ target' = NewTarget(work.goal)
           /\ Finish(p) /\ UNCHANGED jog
  <2>1. PortInv' /\ JogKept
    BY <1>1, <1>7, FinishStep
  <2>2. target' \in Target
    BY <1>2, <1>7, WorkHas, NewTargetType
  <2> QED BY <1>1, <1>5, <2>1, <2>2, Joined DEF MountInv, MountTypes
<1>8. CASE (Finish(p) \/ Again(p, Halt)) /\ UNCHANGED << target, jog >>
  <2>1. PortInv' /\ JogKept
    BY <1>1, <1>8, FinishStep, HaltIsBusy, AgainStep
  <2> QED BY <1>1, <1>5, <1>8, <2>1, Joined DEF MountInv, MountTypes
<1>9. CASE work.kind = "jog" /\ JogDriven(p, work.jog) /\ UNCHANGED target
  <2>1. work.jog \in Jog
    BY <1>2, <1>9, WorkHas
  <2>2. CASE Arm(p, work.jog)
    BY <1>1, <1>5, <1>9, <2>1, <2>2, JoinedArmed
  <2>3. CASE (Finish(p) \/ Again(p, Halt)) /\ UNCHANGED jog
    BY <1>8, <1>9, <2>3
  <2> QED BY <1>9, <2>2, <2>3 DEF JogDriven
<1> QED BY <1>4, <1>6, <1>7, <1>8, <1>9

LEMMA HaltedInv == ASSUME MountInv, NEW p \in Task, Halted(p) PROVE MountInv'
<1>1. HasPort(p, "halt") /\ StopAll /\ Finish(p) /\ UNCHANGED << pos, latest, target, seqs, jog >>
  BY DEF Halted
<1>2. PortInv' /\ JogKept /\ RunTypes'
  BY <1>1, FinishStep, StopAllType
<1> QED BY <1>1, <1>2, Joined DEF MountInv, MountTypes
-----------------------------------------------------------------------------
(* The handlers, the timers and the motors.                                *)

LEMMA Requests == ASSUME NEW r \in Req PROVE r \in Task /\ r # Watch
BY MountBounds DEF Task

\* A task other than the watchdog, or the watchdog of no jog, asks for the port.
LEMMA StartStep ==
  ASSUME MountInv, NEW p \in Task, task[p].at \in Resting, p # Watch \/ jog' = None,
         NEW doing \in Active, doing.at \notin Resting, Start(p, doing), jog' \in {jog, None}
  PROVE  PortInv' /\ JogKept
<1>1. PortInv'
  BY StartPort DEF MountInv
<1>2. JogKept
  BY DEF JogKept, Start, MountInv, PortInv
<1> QED BY <1>1, <1>2

LEMMA JogBeginInv ==
  ASSUME MountInv, NEW r \in Req, NEW j \in Jog, JogBegin(r, j) PROVE MountInv'
<1>1. /\ task[r].at \in Resting
      /\ Start(r, [at |-> "snap", work |-> [kind |-> "jog", jog |-> j]])
      /\ seqs' = [seqs EXCEPT ![j.token] = j.seq]
      /\ UNCHANGED << pos, run, latest, target, jog, faults >>
  BY IdleRests DEF JogBegin
<1>2. [kind |-> "jog", jog |-> j] \in Work
  BY DEF Work
<1>3. seqs' \in [Token -> -1 .. MaxSeq]
  <2>1. j.token \in Token /\ j.seq \in -1 .. MaxSeq
    BY MountBounds DEF Jog
  <2> QED BY <1>1, <2>1 DEF MountInv, MountTypes
<1>4. PortInv' /\ JogKept
  BY <1>1, <1>2, Requests, SnapTask, StartStep
<1> QED BY <1>1, <1>3, <1>4, Joined DEF MountInv, MountTypes, RunTypes

LEMMA StopJogInv ==
  ASSUME MountInv, NEW r \in Req, NEW t \in Token, NEW s \in 0 .. MaxSeq, StopJog(r, t, s)
  PROVE  MountInv'
<1>1. /\ task[r].at \in Resting /\ r \in Task /\ r # Watch
      /\ seqs' = [seqs EXCEPT ![t] = s] /\ UNCHANGED << pos, run, latest, faults >>
  BY IdleRests, Requests DEF StopJog
<1>2. seqs' \in [Token -> -1 .. MaxSeq]
  <2>1. s \in -1 .. MaxSeq
    BY MountBounds
  <2> QED BY <1>1, <2>1 DEF MountInv, MountTypes
<1>3. CASE UNCHANGED << jog, target, task, io >>
  <2>1. PortInv' /\ JogKept
    BY <1>3 DEF MountInv, PortInv, JogKept, Busy
  <2> QED BY <1>1, <1>2, <1>3, <2>1, Joined DEF MountInv, MountTypes, RunTypes
<1>4. CASE ClearWatchdog(t, s, io, r, Halt) /\ target' = None
  <2>1. io \in Seq(Task) /\ IsInjective(io) /\ Range(io) = Busy(task) \ {r}
    BY <1>1 DEF MountInv, PortInv, Busy
  <2>2. PortInv' /\ JogKept
    BY <1>1, <1>4, <2>1, HaltIsBusy, ClearStep
  <2> QED BY <1>1, <1>2, <1>4, <2>2, Joined DEF MountInv, MountTypes, RunTypes
<1> QED BY <1>3, <1>4 DEF StopJog

LEMMA StopInv == ASSUME MountInv, NEW r \in Req, Stop(r) PROVE MountInv'
<1>1. /\ task[r].at \in Resting /\ Start(r, Halt) /\ target' = None
      /\ UNCHANGED << pos, run, latest, seqs, jog, faults >>
  BY IdleRests DEF Stop
<1>2. PortInv' /\ JogKept
  BY <1>1, Requests, HaltIsBusy, StartStep
<1> QED BY <1>1, <1>2, Joined DEF MountInv, MountTypes, RunTypes

LEMMA GotoInv == ASSUME MountInv, NEW r \in Req, NEW goal \in Goals, Goto(r, goal) PROVE MountInv'
<1>1. /\ task[r].at \in Resting
      /\ Start(r, [at |-> "snap", work |-> [kind |-> "goto", goal |-> goal]])
      /\ UNCHANGED << pos, run, latest, target, seqs, jog, faults >>
  BY IdleRests DEF Goto
<1>2. [kind |-> "goto", goal |-> goal] \in Work
  BY DEF Work
<1>3. PortInv' /\ JogKept
  BY <1>1, <1>2, Requests, SnapTask, StartStep
<1> QED BY <1>1, <1>3, Joined DEF MountInv, MountTypes, RunTypes

LEMMA PollBeginInv == ASSUME MountInv, PollBegin PROVE MountInv'
<1>1. /\ task[Poll].at \in Resting /\ Poll \in Task /\ Poll # Watch
      /\ Start(Poll, [at |-> "snap", work |-> [kind |-> "poll"]])
      /\ UNCHANGED << pos, run, latest, target, seqs, jog, faults >>
  BY IdleRests, MountBounds DEF PollBegin, Task
<1>2. [kind |-> "poll"] \in Work
  BY DEF Work
<1>3. PortInv' /\ JogKept
  BY <1>1, <1>2, SnapTask, StartStep
<1> QED BY <1>1, <1>3, Joined DEF MountInv, MountTypes, RunTypes

LEMMA WatchFiresInv == ASSUME MountInv, WatchFires PROVE MountInv'
<1>1. /\ task[Watch].at = "asleep" /\ Watch \in Task
      /\ UNCHANGED << pos, run, latest, target, seqs, faults >>
  BY DEF WatchFires, Task
<1>2. CASE jog' = None /\ Start(Watch, Halt)
  <2>1. PortInv' /\ JogKept
    BY <1>1, <1>2, HaltIsBusy, StartStep DEF Resting
  <2> QED BY <1>1, <2>1, Joined DEF MountInv, MountTypes, RunTypes
<1>3. CASE /\ ~(jog # None /\ jog.token = task[Watch].jog.token /\ jog.seq = task[Watch].jog.seq)
           /\ task' = [task EXCEPT ![Watch] = Idle] /\ UNCHANGED << jog, io >>
  <2>1. jog = None
    BY <1>3 DEF MountInv, ActiveJogHasWatchdog
  <2>2. task' \in [Task -> Active] /\ Busy(task)' = Busy(task)
    BY <1>1, <1>3, IdleRests DEF MountInv, PortInv, Busy, Resting
  <2>3. PortInv' /\ JogKept
    BY <1>3, <2>1, <2>2 DEF MountInv, PortInv, JogKept
  <2> QED BY <1>1, <2>3, Joined DEF MountInv, MountTypes, RunTypes
<1> QED BY <1>2, <1>3 DEF WatchFires

LEMMA MoveInv == ASSUME MountInv, NEW a \in Axis, Move(a) PROVE MountInv'
<1>1. /\ pos[a] + run[a] \in Pos(a) /\ pos' = [pos EXCEPT ![a] = pos[a] + run[a]]
      /\ UNCHANGED << run, latest, target, seqs, jog, task, io, faults >>
  BY DEF Move
<1>2. pos' \in [Axis -> Nat] /\ \A b \in Axis : pos'[b] \in Pos(b)
  BY <1>1 DEF MountInv, MountTypes, Pos
<1>3. PortInv' /\ ActiveJogHasWatchdog'
  BY <1>1 DEF MountInv, PortInv, ActiveJogHasWatchdog, Busy
<1> QED BY <1>1, <1>2, <1>3 DEF MountInv, MountTypes

LEMMA MountInit == Init => MountInv
<1> SUFFICES ASSUME Init PROVE MountInv
  OBVIOUS
<1>1. MountTypes
  <2>1. pos \in [Axis -> Nat] /\ \A a \in Axis : pos[a] \in Pos(a)
    <3>1. pos \in Starts /\ pos \in [Axis -> Nat]
      BY MountBounds DEF Init
    <3>2. ASSUME NEW a \in Axis PROVE pos[a] \in Pos(a)
      <4>1. pos[a] \in Nat /\ pos[a] <= Hi[a] /\ Hi[a] <= MaxPos[a]
            /\ Hi[a] \in Nat /\ MaxPos[a] \in Nat
        BY <3>1, MountBounds
      <4> QED BY <4>1 DEF Pos
    <3> QED BY <3>1, <3>2
  <2>2. latest \in Readings
    BY <2>1 DEF Init, Readings, Reading
  <2>3. seqs \in [Token -> -1 .. MaxSeq] /\ faults \in 0 .. MaxFaults
    BY MountBounds DEF Init
  <2>4. run \in [Axis -> Way \cup {0}] /\ target = None /\ jog = None
    BY DEF Init
  <2> QED BY <2>1, <2>2, <2>3, <2>4 DEF MountTypes
<1>2. PortInv
  <2>1. task \in [Task -> Active] /\ Busy(task) = {}
    BY IdleRests DEF Init, Busy
  <2>2. io \in Seq(Task) /\ IsInjective(io) /\ Range(io) = {}
    BY DEF Init, IsInjective, Range
  <2> QED BY <2>1, <2>2 DEF PortInv
<1>3. ActiveJogHasWatchdog
  BY DEF Init, ActiveJogHasWatchdog
<1> QED BY <1>1, <1>2, <1>3 DEF MountInv

LEMMA MountNext == MountInv /\ [Next]_vars => MountInv'
<1> SUFFICES ASSUME MountInv, [Next]_vars PROVE MountInv'
  OBVIOUS
<1>1. ASSUME NEW r \in Req, Request(r) PROVE MountInv'
  BY <1>1, JogBeginInv, StopJogInv, StopInv, GotoInv DEF Request
<1>2. ASSUME NEW p \in Task, PortStep(p) PROVE MountInv'
  BY <1>2, SnapInv, LimitStoppedInv, AxisStoppedInv, DrivenInv, HaltedInv DEF PortStep
<1>3. CASE PollBegin
  BY <1>3, PollBeginInv
<1>4. CASE WatchFires
  BY <1>4, WatchFiresInv
<1>5. ASSUME NEW a \in Axis, Move(a) PROVE MountInv'
  BY <1>5, MoveInv
<1>6. CASE UNCHANGED vars
  <2>1. PortInv'
    BY <1>6 DEF vars, MountInv, PortInv, Busy
  <2>2. MountTypes'
    BY <1>6 DEF vars, MountInv, MountTypes
  <2>3. ActiveJogHasWatchdog'
    BY <1>6 DEF vars, MountInv, ActiveJogHasWatchdog
  <2> QED BY <2>1, <2>2, <2>3 DEF MountInv
<1> QED BY <1>1, <1>2, <1>3, <1>4, <1>5, <1>6 DEF Next

LEMMA MountInvHolds == Spec => []MountInv
BY MountInit, MountNext, PTL DEF Spec

-----------------------------------------------------------------------------
(* The theorems.                                                           *)

\* The types of the mount; the tasks that hold or await _io_lock queue for it once.
THEOREM MountTypeCorrect == Spec => []TypeOK
<1>1. MountInv => TypeOK
  <2> SUFFICES ASSUME MountInv PROVE TypeOK
    OBVIOUS
  <2>1. PortInv /\ MountTypes
    BY DEF MountInv
  <2>2. task \in [Task -> Doing] /\ io \in Seq(Task) /\ IsInjective(io)
    BY <2>1 DEF PortInv, Active
  <2>3. Range(io) = {p \in Task : task[p].at \notin {"idle", "asleep"}}
    BY <2>1 DEF PortInv, Busy, Resting
  <2> QED BY <2>1, <2>2, <2>3 DEF TypeOK, MountTypes, Readings
<1> QED BY <1>1, MountInvHolds, PTL

(***************************************************************************)
(* Whatever arming, clearing, limit stops and refused commands do to the   *)
(* two, an active jog has its own watchdog asleep (arm_jog_watchdog,       *)
(* clear_jog_watchdog and _jog_watchdog).                                  *)
(***************************************************************************)
THEOREM JogIsWatched == Spec => []ActiveJogHasWatchdog
<1>1. MountInv => ActiveJogHasWatchdog
  BY DEF MountInv
<1> QED BY <1>1, MountInvHolds, PTL

-----------------------------------------------------------------------------
(* The newest packet of a press.                                           *)

\* An accepted packet is never newer than the last one accepted of its press.
LeadInv == NewestPacketLeads /\ (jog # None => jog.seq <= seqs[jog.token])

\* The active jog ends, or stays, and with it whoever brings the newest packet.
LeadKept ==
  jog' # None =>
    /\ jog' = jog
    /\ \A q \in Task : Bears(task[q], jog.token, seqs[jog.token])
                         => Bears(task'[q], jog.token, seqs[jog.token])

LEMMA KeptLeads ==
  ASSUME MountInv, LeadInv, UNCHANGED seqs, faults' = 0 => faults = 0 /\ LeadKept,
         jog' \in {jog, None}
  PROVE  LeadInv'
<1> SUFFICES ASSUME jog' # None
             PROVE  /\ faults' = 0 => \/ jog'.seq = seqs'[jog'.token]
                                      \/ \E q \in Task : Bears(task'[q], jog'.token,
                                                               seqs'[jog'.token])
                    /\ jog'.seq <= seqs'[jog'.token]
  BY DEF LeadInv, NewestPacketLeads, CarriesNewest
<1>1. jog' = jog /\ jog.seq <= seqs[jog.token] /\ seqs' = seqs
  BY DEF LeadInv
<1>2. ASSUME faults' = 0
      PROVE  \/ jog.seq = seqs[jog.token]
             \/ \E q \in Task : Bears(task'[q], jog.token, seqs[jog.token])
  <2>1. faults = 0 /\ LeadKept
    BY <1>2
  <2>2. \/ jog.seq = seqs[jog.token]
        \/ \E q \in Task : Bears(task[q], jog.token, seqs[jog.token])
    BY <1>1, <2>1 DEF LeadInv, NewestPacketLeads, CarriesNewest
  <2> QED BY <2>1, <2>2 DEF LeadKept
<1> QED BY <1>1, <1>2

\* p turns to something that bears the same packet, or bore none.
LEMMA TurnedLeads ==
  ASSUME MountInv, NEW p \in Task, NEW doing, jog' = jog,
         task' = [task EXCEPT ![p] = doing],
         \A t, s : Bears(task[p], t, s) /\ s = seqs[t] => Bears(doing, t, s)
  PROVE  LeadKept
<1>1. task'[p] = doing /\ \A q \in Task \ {p} : task'[q] = task[q]
  BY DEF MountInv, PortInv
<1> QED BY <1>1 DEF LeadKept

LEMMA FinishLeads ==
  ASSUME MountInv, NEW p \in Task, jog' = jog, Finish(p),
         \A t, s : ~(Bears(task[p], t, s) /\ s = seqs[t])
  PROVE  LeadKept
BY TurnedLeads DEF Finish

LEMMA AgainLeads ==
  ASSUME MountInv, NEW p \in Task, NEW doing, jog' = jog, Again(p, doing),
         \A t, s : Bears(task[p], t, s) /\ s = seqs[t] => Bears(doing, t, s)
  PROVE  LeadKept
BY TurnedLeads DEF Again

LEMMA ReturnLeads ==
  ASSUME MountInv, LeadInv, NEW p \in Task, NEW at, HasPort(p, at), NEW now, NEW tgt,
         at \in {"snap", "limit", "arrive"}, Return(p, task[p].work, now, tgt)
  PROVE  LeadKept
<1> DEFINE work == task[p].work
<1>1. CASE work.kind = "poll" /\ Finish(p) /\ UNCHANGED jog
  <2>1. \A t, s : ~Bears(task[p], t, s)
    BY <1>1 DEF Bears
  <2> QED BY <1>1, <2>1, FinishLeads
<1>2. CASE /\ work.kind = "jog"
           /\ ClearWatchdog(work.jog.token, work.jog.seq, Tail(io), p, Halt)
  <2> SUFFICES ASSUME jog' # None PROVE LeadKept
    BY DEF LeadKept
  <2>1. jog' = jog /\ ~(jog.token = work.jog.token /\ jog.seq <= work.jog.seq)
    BY <1>2 DEF ClearWatchdog
  <2>2. jog.seq <= seqs[jog.token]
    BY <2>1 DEF LeadInv
  <2>3. ~Bears(task[p], jog.token, seqs[jog.token])
    BY <2>1, <2>2 DEF Bears
  <2>4. \A q \in Task \ {p} : task'[q] = task[q]
    BY <1>2, <2>1 DEF ClearWatchdog
  <2> QED BY <2>1, <2>3, <2>4 DEF LeadKept
<1>3. ASSUME NEW moves, Again(p, Drive(work, moves)), UNCHANGED jog PROVE LeadKept
  <2>1. ASSUME NEW t, NEW s, Bears(task[p], t, s) PROVE Bears(Drive(work, moves), t, s)
    BY <2>1 DEF Bears, Drive
  <2> QED BY <1>3, <2>1, AgainLeads
<1>4. CASE work.kind = "goto" /\ Finish(p) /\ UNCHANGED jog
  <2>1. \A t, s : ~Bears(task[p], t, s)
    BY <1>4 DEF Bears
  <2> QED BY <1>4, <2>1, FinishLeads
<1> QED BY <1>1, <1>2, <1>3, <1>4 DEF Return

LEMMA CheckLeads ==
  ASSUME MountInv, LeadInv, NEW p \in Task, NEW at, HasPort(p, at), NEW now,
         at \in {"snap", "limit", "arrive"}, CheckTarget(p, task[p].work, now)
  PROVE  LeadKept
<1>1. CASE \E tgt : Return(p, task[p].work, now, tgt)
  BY <1>1, ReturnLeads
<1>2. ASSUME NEW hits, NEW aim, UNCHANGED jog,
             Again(p, [at |-> "arrive", work |-> task[p].work, hits |-> hits, aim |-> aim,
                       bad |-> FALSE])
      PROVE  LeadKept
  <2> DEFINE e == [at |-> "arrive", work |-> task[p].work, hits |-> hits, aim |-> aim,
                   bad |-> FALSE]
  <2>1. ASSUME NEW t, NEW s, Bears(task[p], t, s) PROVE Bears(e, t, s)
    BY <2>1 DEF Bears
  <2> HIDE DEF e
  <2>2. Again(p, e)
    BY <1>2 DEF e
  <2> QED BY <1>2, <2>1, <2>2, AgainLeads
<1> QED BY <1>1, <1>2 DEF CheckTarget

LEMMA ReturnClears ==
  ASSUME NEW p, NEW work, NEW now, NEW tgt, Return(p, work, now, tgt)
  PROVE  jog' \in {jog, None}
BY DEF Return, ClearWatchdog

LEMMA CheckClears ==
  ASSUME NEW p, NEW work, NEW now, CheckTarget(p, work, now)
  PROVE  jog' \in {jog, None}
BY ReturnClears DEF CheckTarget

LEMMA FaultsGrow ==
  ASSUME MountInv, UNCHANGED faults \/ Fault
  PROVE  faults' = 0 => faults = 0 /\ ~Fault
BY MountBounds DEF MountInv, MountTypes, Fault

LEMMA DrivenLeads == ASSUME MountInv, LeadInv, NEW p \in Task, Driven(p) PROVE LeadInv'
<1>1. HasPort(p, "drive") /\ task[p].at = "drive" /\ UNCHANGED << pos, latest, seqs >>
  BY DEF Driven, HasPort
<1> DEFINE work == task[p].work
<1>2. /\ UNCHANGED faults \/ Fault
      /\ \/ UNCHANGED jog /\ \E moves : Again(p, Drive(work, moves))
         \/ UNCHANGED jog /\ work.kind = "goto" /\ Finish(p)
         \/ work.kind = "jog" /\ JogDriven(p, work.jog)
         \/ Fault /\ UNCHANGED jog
  BY DEF Driven, Command
<1>3. CASE UNCHANGED jog /\ \E moves : Again(p, Drive(work, moves))
  <2>1. PICK moves : Again(p, Drive(work, moves))
    BY <1>3
  <2>2. ASSUME NEW t, NEW s, Bears(task[p], t, s) PROVE Bears(Drive(work, moves), t, s)
    BY <2>2 DEF Bears, Drive
  <2>3. LeadKept
    BY <1>3, <2>1, <2>2, AgainLeads
  <2> QED BY <1>1, <1>2, <1>3, <2>3, FaultsGrow, KeptLeads
<1>4. CASE UNCHANGED jog /\ work.kind = "goto" /\ Finish(p)
  <2>0. \A t, s : ~Bears(task[p], t, s)
    BY <1>4 DEF Bears
  <2>1. LeadKept
    BY <1>4, <2>0, FinishLeads
  <2> QED BY <1>1, <1>2, <1>4, <2>1, FaultsGrow, KeptLeads
<1>5. CASE work.kind = "jog" /\ JogDriven(p, work.jog)
  <2>1. CASE seqs[work.jog.token] = work.jog.seq /\ jog' = work.jog
    <3>1. work.jog.seq \in Nat
      BY <1>1, <1>5, DoingHas, WorkHas, MountBounds DEF MountInv, PortInv, Jog
    <3> QED BY <1>1, <2>1, <3>1 DEF LeadInv, NewestPacketLeads
  <2>2. CASE /\ seqs[work.jog.token] # work.jog.seq /\ UNCHANGED jog
             /\ Finish(p) \/ Again(p, Halt)
    <3>1. \A t, s : ~(Bears(task[p], t, s) /\ s = seqs[t])
      BY <2>2 DEF Bears
    <3>2. LeadKept
      BY <2>2, <3>1, FinishLeads, AgainLeads
    <3> QED BY <1>1, <1>2, <2>2, <3>2, FaultsGrow, KeptLeads
  <2> QED BY <1>5, <2>1, <2>2 DEF JogDriven, Arm
<1>6. CASE Fault /\ UNCHANGED jog
  BY <1>1, <1>6, FaultsGrow, KeptLeads
<1> QED BY <1>2, <1>3, <1>4, <1>5, <1>6

LEMMA PortLeads == ASSUME MountInv, LeadInv, NEW p \in Task, PortStep(p) PROVE LeadInv'
<1>1. CASE Snap(p)
  <2>1. /\ HasPort(p, "snap") /\ UNCHANGED seqs /\ (UNCHANGED faults \/ Fault)
        /\ jog' = None \/ CheckTarget(p, task[p].work, latest')
    BY <1>1 DEF Snap
  <2>2. LeadKept /\ jog' \in {jog, None}
    <3>1. CASE jog' = None
      BY <3>1 DEF LeadKept
    <3>2. CASE CheckTarget(p, task[p].work, latest')
      BY <2>1, <3>2, CheckLeads, CheckClears
    <3> QED BY <2>1, <3>1, <3>2
  <2> QED BY <2>1, <2>2, FaultsGrow, KeptLeads
<1>2. CASE LimitStopped(p)
  <2>1. /\ HasPort(p, "limit") /\ UNCHANGED seqs /\ (UNCHANGED faults \/ Fault)
        /\ CheckTarget(p, task[p].work, latest)
    BY <1>2 DEF LimitStopped, StopAll
  <2> QED BY <2>1, CheckLeads, CheckClears, FaultsGrow, KeptLeads
<1>3. CASE AxisStopped(p)
  <2>1. /\ HasPort(p, "arrive") /\ UNCHANGED seqs /\ (UNCHANGED faults \/ Fault)
        /\ \/ /\ \E rest, bad : Again(p, [task[p] EXCEPT !.hits = rest, !.bad = bad])
              /\ UNCHANGED jog
           \/ \E tgt : Return(p, task[p].work, latest, tgt)
    BY <1>3 DEF AxisStopped, Command
  <2>2. LeadKept /\ jog' \in {jog, None}
    <3>1. ASSUME NEW rest, NEW bad, Again(p, [task[p] EXCEPT !.hits = rest, !.bad = bad]),
                 UNCHANGED jog
          PROVE  LeadKept
      <4> DEFINE e == [task[p] EXCEPT !.hits = rest, !.bad = bad]
      <4>1. ASSUME NEW t, NEW s, Bears(task[p], t, s) PROVE Bears(e, t, s)
        <5>1. task[p] \in Active /\ task[p].at = "arrive"
          BY <2>1 DEF HasPort, MountInv, PortInv
        <5>2. task[p] = [at |-> "arrive", work |-> task[p].work, hits |-> task[p].hits,
                         aim |-> task[p].aim, bad |-> task[p].bad]
          BY <5>1, DoingHas
        <5>3. e.at = "arrive" /\ e.work = task[p].work
          BY <5>2
        <5> HIDE DEF e
        <5> QED BY <4>1, <5>3 DEF Bears
      <4> HIDE DEF e
      <4>2. Again(p, e) /\ jog' = jog
        BY <3>1 DEF e
      <4> QED BY <4>1, <4>2, AgainLeads
    <3>2. CASE \E tgt : Return(p, task[p].work, latest, tgt)
      <4>1. PICK tgt : Return(p, task[p].work, latest, tgt)
        BY <3>2
      <4>0. HasPort(p, "arrive") /\ "arrive" \in {"snap", "limit", "arrive"}
        BY <2>1
      <4>2. LeadKept
        BY <4>0, <4>1, ReturnLeads
      <4>3. jog' \in {jog, None}
        BY <4>1, ReturnClears
      <4> QED BY <4>2, <4>3
    <3> QED BY <2>1, <3>1, <3>2
  <2> QED BY <2>1, <2>2, FaultsGrow, KeptLeads
<1>4. CASE Driven(p)
  BY <1>4, DrivenLeads
<1>5. CASE Halted(p)
  <2>1. task[p].at = "halt" /\ Finish(p) /\ UNCHANGED << seqs, jog >>
        /\ (UNCHANGED faults \/ Fault)
    BY <1>5 DEF Halted, HasPort, StopAll
  <2>2. LeadKept
    <3>1. \A t, s : ~Bears(task[p], t, s)
      BY <2>1 DEF Bears
    <3> QED BY <2>1, <3>1, FinishLeads
  <2> QED BY <2>1, <2>2, FaultsGrow, KeptLeads
<1> QED BY <1>1, <1>2, <1>3, <1>4, <1>5 DEF PortStep

\* A request slot at rest bears nothing, so that the others' packets stay.
LEMMA RequestLeads == ASSUME MountInv, LeadInv, NEW r \in Req, Request(r) PROVE LeadInv'
<1>1. r \in Task /\ r # Watch
  BY Requests
<1>2. ASSUME NEW t, NEW s PROVE ~Bears(Idle, t, s)
  BY DEF Bears, Idle
<1>3. ASSUME NEW j \in Jog, JogBegin(r, j) PROVE LeadInv'
  <2> DEFINE d == [at |-> "snap", work |-> [kind |-> "jog", jog |-> j]]
  <2>1. /\ task[r] = Idle /\ j.seq > seqs[j.token] /\ UNCHANGED << jog, faults >>
        /\ seqs' = [seqs EXCEPT ![j.token] = j.seq] /\ task' = [task EXCEPT ![r] = d]
    BY <1>3 DEF JogBegin, Start, Accepts
  <2>2. /\ seqs \in [Token -> -1 .. MaxSeq] /\ task \in [Task -> Active]
        /\ j.token \in Token /\ j.seq \in Nat /\ MaxSeq \in Nat
    BY MountBounds DEF MountInv, MountTypes, PortInv, Jog
  <2> SUFFICES ASSUME jog # None
               PROVE  /\ faults = 0 => \/ jog.seq = seqs'[jog.token]
                                       \/ \E q \in Task : Bears(task'[q], jog.token,
                                                                seqs'[jog.token])
                      /\ jog.seq <= seqs'[jog.token]
    BY <2>1 DEF LeadInv, NewestPacketLeads, CarriesNewest
  <2>3. jog.seq <= seqs[jog.token] /\ jog.token \in Token /\ jog.seq \in Nat
    BY MountBounds DEF LeadInv, MountInv, MountTypes, Jog
  <2>4. CASE jog.token = j.token
    <3>1. seqs'[jog.token] = j.seq /\ task'[r] = d
      BY <1>1, <2>1, <2>2, <2>4
    <3>2. Bears(d, j.token, j.seq)
      BY DEF Bears
    <3>3. jog.seq <= j.seq
      BY <2>1, <2>2, <2>3, <2>4
    <3> QED BY <1>1, <2>4, <3>1, <3>2, <3>3
  <2>5. CASE jog.token # j.token
    <3>1. seqs'[jog.token] = seqs[jog.token]
      BY <2>1, <2>2, <2>3, <2>5
    <3>2. \A q \in Task : Bears(task[q], jog.token, seqs[jog.token])
                            => Bears(task'[q], jog.token, seqs[jog.token])
      BY <1>2, <2>1, <2>2
    <3> QED BY <2>3, <3>1, <3>2 DEF LeadInv, NewestPacketLeads, CarriesNewest
  <2> QED BY <2>4, <2>5
<1>4. ASSUME NEW t \in Token, NEW s \in 0 .. MaxSeq, StopJog(r, t, s) PROVE LeadInv'
  <2>1. /\ task[r] = Idle /\ s > seqs[t] /\ seqs' = [seqs EXCEPT ![t] = s]
        /\ UNCHANGED faults
        /\ \/ jog # None /\ jog.token = t /\ jog.seq <= s
              /\ ClearWatchdog(t, s, io, r, Halt)
           \/ /\ ~(jog # None /\ jog.token = t /\ jog.seq <= s)
              /\ UNCHANGED << jog, task >>
    BY <1>4 DEF StopJog, Accepts
  <2>2. CASE jog' = None
    BY <2>2 DEF LeadInv, NewestPacketLeads
  <2>3. CASE jog' # None
    <3>1. UNCHANGED << jog, task >> /\ ~(jog.token = t /\ jog.seq <= s)
      BY <2>1, <2>3 DEF ClearWatchdog
    <3>2. jog.seq <= seqs[jog.token] /\ jog.token \in Token /\ jog.seq \in Nat
          /\ seqs \in [Token -> -1 .. MaxSeq] /\ MaxSeq \in Nat
      BY <2>3, <3>1, MountBounds DEF LeadInv, MountInv, MountTypes, Jog
    <3>3. jog.token # t
      BY <2>1, <3>1, <3>2
    <3>4. seqs'[jog.token] = seqs[jog.token]
      BY <2>1, <3>2, <3>3
    <3> QED BY <2>1, <3>1, <3>2, <3>4 DEF LeadInv, NewestPacketLeads, CarriesNewest
  <2> QED BY <2>2, <2>3
<1>5. CASE Stop(r) \/ \E goal \in Goals : Goto(r, goal)
  <2>1. /\ task[r] = Idle /\ UNCHANGED << seqs, jog, faults >>
        /\ \E d : task' = [task EXCEPT ![r] = d]
    BY <1>5 DEF Stop, Goto, Start
  <2>2. LeadKept
    BY <1>1, <1>2, <2>1, TurnedLeads
  <2> QED BY <2>1, <2>2, KeptLeads
<1> QED BY <1>3, <1>4, <1>5 DEF Request

LEMMA LeadNext == MountInv /\ LeadInv /\ [Next]_vars => LeadInv'
<1> SUFFICES ASSUME MountInv, LeadInv, [Next]_vars PROVE LeadInv'
  OBVIOUS
<1>1. CASE \E r \in Req : Request(r)
  BY <1>1, RequestLeads
<1>2. CASE \E p \in Task : PortStep(p)
  BY <1>2, PortLeads
<1>3. CASE PollBegin \/ WatchFires
  <2>1. /\ UNCHANGED << seqs, faults >> /\ jog' \in {jog, None}
        /\ \E p \in {Poll, Watch} : \E d :
             task[p].at \in {"idle", "asleep"} /\ task' = [task EXCEPT ![p] = d]
    BY <1>3 DEF PollBegin, WatchFires, Start, Idle
  <2>2. LeadKept
    <3>0. PICK p \in {Poll, Watch} : \E d :
            task[p].at \in {"idle", "asleep"} /\ task' = [task EXCEPT ![p] = d]
      BY <2>1
    <3>1. PICK d :
            task[p].at \in {"idle", "asleep"} /\ task' = [task EXCEPT ![p] = d]
      BY <3>0
    <3>2. p \in Task /\ \A t, s : ~Bears(task[p], t, s)
      BY <3>1 DEF Bears, Task
    <3>3. CASE jog' = jog
      BY <3>1, <3>2, <3>3, TurnedLeads
    <3>4. CASE jog' = None
      BY <3>4 DEF LeadKept
    <3> QED BY <2>1, <3>3, <3>4
  <2> QED BY <2>1, <2>2, KeptLeads
<1>4. CASE (\E a \in Axis : Move(a)) \/ UNCHANGED vars
  <2>1. UNCHANGED << task, seqs, faults, jog >>
    BY <1>4 DEF Move, vars
  <2>2. LeadKept
    BY <2>1 DEF LeadKept
  <2> QED BY <2>1, <2>2, KeptLeads
<1> QED BY <1>1, <1>2, <1>3, <1>4 DEF Next

(***************************************************************************)
(* As long as the port works, the active jog is the newest packet accepted *)
(* of its press, or the newest is a jog whose handler is on its way        *)
(* (accept_jog_sequence, is_current_jog_sequence, clear_jog_watchdog): a   *)
(* press that was stopped is never active again.                           *)
(***************************************************************************)
THEOREM NewestIsActive == Spec => []NewestPacketLeads
<1>1. Init => LeadInv
  BY DEF Init, LeadInv, NewestPacketLeads
<1>2. LeadInv => NewestPacketLeads
  BY DEF LeadInv
<1> QED BY <1>1, <1>2, LeadNext, MountInvHolds, PTL DEF Spec

-----------------------------------------------------------------------------
(* Motion, on a port that works.  With a fault, or with a goto sent while  *)
(* another one is on its way, the code does let a motor run (the runs      *)
(* mount_lost_ack and mount_lost_target).                                  *)

StopOrDrive == {"limit", "halt", "drive"}

\* Somebody is about to stop or to drive, or a watched jog is active.
Attended == jog # None \/ \E p \in Task : task[p].at \in StopOrDrive

Keeps(tgt, a) == tgt # None /\ a \notin tgt.stopped

\* Every axis that runs is followed to its target, and will be by the value that
\* a refresh which stops axes is about to write over it.
Followed ==
  \A a \in Axis : run[a] # 0 =>
    /\ Keeps(target, a)
    /\ \A p \in Task : task[p].at = "arrive" =>
         a \in task[p].hits \/ Keeps(task[p].aim, a)

MotionInv == Attended \/ Followed

\* The goto under way is the only one, and nothing is followed meanwhile.
TurnInv ==
  \A p \in Going : Going = {p} /\ target = None /\ \A q \in Task : task[q].at # "arrive"

-----------------------------------------------------------------------------
(* One goto at a time.                                                     *)

LEMMA NoFault == ASSUME MaxFaults = 0, MountInv PROVE ~Fault
BY DEF MountInv, MountTypes, Fault

LEMMA NoGotoAtRest == ~IsGoto(Idle) /\ ~IsGoto(Halt) /\ \A j : ~IsGoto([at |-> "asleep", jog |-> j])
BY DEF IsGoto, Idle, Halt

LEMMA TurnKept ==
  ASSUME TurnInv, Going' \subseteq Going,
         Going' # {} => target' = None /\ \A q \in Task : task'[q].at # "arrive"
  PROVE  TurnInv'
<1> SUFFICES ASSUME NEW p \in Going'
             PROVE  Going' = {p} /\ target' = None /\ \A q \in Task : task'[q].at # "arrive"
  BY DEF TurnInv
<1>1. Going = {p}
  BY DEF TurnInv
<1> QED BY <1>1

\* A step after which each task is as before, at rest, or stops everything.
LEMMA TurnEnds ==
  ASSUME TurnInv, \A x \in Task : task'[x] = task[x] \/ task'[x] = Idle \/ task'[x] = Halt
                                  \/ \E j : task'[x] = [at |-> "asleep", jog |-> j],
         Going # {} => target' = None
  PROVE  TurnInv'
<1>1. \A x \in Task : /\ IsGoto(task'[x]) => IsGoto(task[x])
                      /\ task'[x].at = "arrive" => task[x].at = "arrive"
  <2> SUFFICES ASSUME NEW x \in Task
               PROVE  /\ IsGoto(task'[x]) => IsGoto(task[x])
                      /\ task'[x].at = "arrive" => task[x].at = "arrive"
    OBVIOUS
  <2>1. Idle.at = "idle" /\ Halt.at = "halt" /\ \A j : [at |-> "asleep", jog |-> j].at = "asleep"
    BY DEF Idle, Halt
  <2> QED BY <2>1, NoGotoAtRest
<1>2. Going' \subseteq Going
  BY <1>1 DEF Going
<1>3. Going # {} => \A q \in Task : task'[q].at # "arrive"
  BY <1>1 DEF TurnInv
<1> QED BY <1>2, <1>3, TurnKept

LEMMA ReturnTurn ==
  ASSUME MountInv, TurnInv, NEW p \in Task, task[p].at \in {"snap", "limit", "arrive"},
         NEW now, NEW tgt, Going # {} => tgt = None,
         Return(p, task[p].work, now, tgt)
  PROVE  TurnInv'
<1> DEFINE work == task[p].work
<1>0. task \in [Task -> Active] /\ work \in Work
  BY DoingHas DEF MountInv, PortInv
<1> HIDE DEF work
<1>1. CASE Finish(p) /\ target' = tgt
  <2>1. \A x \in Task : task'[x] = task[x] \/ task'[x] = Idle
    BY <1>0, <1>1 DEF Finish
  <2> QED BY <1>1, <2>1, TurnEnds
<1>2. CASE ClearWatchdog(work.jog.token, work.jog.seq, Tail(io), p, Halt) /\ target' = tgt
  <2>1. \A x \in Task : task'[x] = task[x] \/ task'[x] = Idle \/ task'[x] = Halt
    BY <1>2 DEF ClearWatchdog
  <2> QED BY <1>2, <2>1, TurnEnds
<1>3. CASE /\ \E moves : Again(p, Drive(work, moves))
           /\ target' = None \/ (work.kind = "goto" /\ target' = tgt)
  <2>1. PICK moves : task' = [task EXCEPT ![p] = Drive(work, moves)]
    BY <1>3 DEF Again
  <2>2. task'[p] = Drive(work, moves) /\ \A x \in Task \ {p} : task'[x] = task[x]
    BY <1>0, <2>1
  <2>3. IsGoto(task'[p]) <=> work.kind = "goto"
    BY <2>2 DEF IsGoto, Drive
  <2>4. IsGoto(task[p]) <=> work.kind = "goto"
    BY DEF IsGoto, work
  <2>5. Going' = Going
    BY <2>2, <2>3, <2>4 DEF Going
  <2>6. task'[p].at = "drive"
    BY <2>2 DEF Drive
  <2>7. Going' # {} => target' = None
    BY <1>3, <2>5
  <2>8. Going' # {} => \A q \in Task : task'[q].at # "arrive"
    BY <2>2, <2>5, <2>6 DEF TurnInv
  <2> QED BY <2>5, <2>7, <2>8, TurnKept
<1>4. CASE work.kind = "goto" /\ Finish(p)
  <2>1. p \in Going
    BY <1>4 DEF Going, IsGoto, work
  <2>2. task'[p] = Idle /\ \A x \in Task \ {p} : task'[x] = task[x]
    BY <1>0, <1>4 DEF Finish
  <2>3. Going = {p}
    BY <2>1 DEF TurnInv
  <2>4. Going' = {}
    BY <2>2, <2>3, NoGotoAtRest DEF Going
  <2> QED BY <2>4, TurnKept
<1> QED BY <1>1, <1>2, <1>3, <1>4 DEF Return, work

LEMMA CheckTurn ==
  ASSUME MountInv, TurnInv, NEW p \in Task, task[p].at \in {"snap", "limit"},
         NEW now, CheckTarget(p, task[p].work, now)
  PROVE  TurnInv'
<1>1. CASE target = None /\ Return(p, task[p].work, now, None)
  BY <1>1, ReturnTurn
<1>2. CASE target # None /\ Return(p, task[p].work, now, Remember(target, now))
  BY <1>2, ReturnTurn DEF TurnInv
<1>3. CASE /\ target # None
           /\ Again(p, [at |-> "arrive", work |-> task[p].work, hits |-> Hits(target, now),
                        aim |-> Arrived(target, now), bad |-> FALSE])
  <2>1. Going = {}
    BY <1>3 DEF TurnInv
  <2>2. task'[p].work = task[p].work /\ \A x \in Task \ {p} : task'[x] = task[x]
    BY <1>3 DEF Again, MountInv, PortInv
  <2>3. ~IsGoto(task'[p])
    BY <2>1, <2>2 DEF Going, IsGoto
  <2>4. Going' = {}
    BY <2>1, <2>2, <2>3 DEF Going
  <2> QED BY <2>4, TurnKept
<1> QED BY <1>1, <1>2, <1>3 DEF CheckTarget
LEMMA RequestTurn ==
  ASSUME MountInv, TurnInv, NEW r \in Req, Request(r), InTurn(r)
  PROVE  TurnInv'
<1>1. task \in [Task -> Active] /\ r \in Task
  BY Requests DEF MountInv, PortInv
<1>2. CASE \E j \in Jog : JogBegin(r, j)
  <2>1. PICK j : task' = [task EXCEPT ![r] = [at |-> "snap", work |-> [kind |-> "jog", jog |-> j]]]
    BY <1>2 DEF JogBegin, Start
  <2>2. /\ ~IsGoto(task'[r]) /\ task'[r].at # "arrive"
        /\ \A x \in Task \ {r} : task'[x] = task[x]
    BY <1>1, <2>1 DEF IsGoto
  <2>3. Going' \subseteq Going
    BY <2>2 DEF Going
  <2>4. UNCHANGED target
    BY <1>2 DEF JogBegin
  <2> QED BY <2>2, <2>3, <2>4, TurnKept DEF TurnInv
<1>3. CASE \E t \in Token, s \in 0 .. MaxSeq : StopJog(r, t, s)
  <2>1. PICK t \in Token, s \in 0 .. MaxSeq : StopJog(r, t, s)
    BY <1>3
  <2>2. CASE UNCHANGED << jog, target, task, io >>
    BY <2>2, TurnEnds DEF TurnInv
  <2>3. CASE ClearWatchdog(t, s, io, r, Halt) /\ target' = None
    <3>1. \A x \in Task : task'[x] = task[x] \/ task'[x] = Idle \/ task'[x] = Halt
      BY <2>3 DEF ClearWatchdog
    <3> QED BY <2>3, <3>1, TurnEnds
  <2> QED BY <2>1, <2>2, <2>3 DEF StopJog
<1>4. CASE Stop(r)
  <2>1. target' = None /\ \A x \in Task : task'[x] = task[x] \/ task'[x] = Halt
    BY <1>1, <1>4 DEF Stop, Start
  <2> QED BY <2>1, TurnEnds
<1>5. CASE \E goal \in Goals : Goto(r, goal)
  <2>1. PICK goal \in Goals : Goto(r, goal)
    BY <1>5
  <2>2. GotoIsAlone
    BY <2>1 DEF InTurn
  <2>3. /\ task'[r] = [at |-> "snap", work |-> [kind |-> "goto", goal |-> goal]]
        /\ \A x \in Task \ {r} : task'[x] = task[x]
        /\ UNCHANGED target
    BY <1>1, <2>1 DEF Goto, Start
  <2>4. Going' \subseteq {r}
    BY <2>2, <2>3 DEF GotoIsAlone, Going
  <2>5. target' = None /\ \A q \in Task : task'[q].at # "arrive"
    BY <2>2, <2>3 DEF GotoIsAlone
  <2> QED BY <2>4, <2>5 DEF TurnInv
<1> QED BY <1>2, <1>3, <1>4, <1>5 DEF Request

LEMMA AxisStoppedTurn ==
  ASSUME MountInv, TurnInv, NEW p \in Task, AxisStopped(p)
  PROVE  TurnInv'
<1>1. task[p].at = "arrive" /\ task \in [Task -> Active]
  BY DEF AxisStopped, HasPort, MountInv, PortInv
<1>2. Going = {}
  BY <1>1 DEF TurnInv
<1>3. CASE \E hits, bad : Again(p, [task[p] EXCEPT !.hits = hits, !.bad = bad])
  <2>1. PICK hits, bad : task' = [task EXCEPT ![p] = [task[p] EXCEPT !.hits = hits, !.bad = bad]]
    BY <1>3 DEF Again
  <2>2. task'[p].at = task[p].at /\ task'[p].work = task[p].work
        /\ \A x \in Task \ {p} : task'[x] = task[x]
    <3> DEFINE d == task[p]
    <3>1. d = [at |-> "arrive", work |-> d.work, hits |-> d.hits, aim |-> d.aim, bad |-> d.bad]
      BY <1>1, DoingHas
    <3>2. task'[p] = [d EXCEPT !.hits = hits, !.bad = bad]
      BY <1>1, <2>1
    <3> HIDE DEF d
    <3>3. [d EXCEPT !.hits = hits, !.bad = bad].at = d.at
          /\ [d EXCEPT !.hits = hits, !.bad = bad].work = d.work
      BY <3>1
    <3> QED BY <1>1, <2>1, <3>2, <3>3 DEF d
  <2>3. IsGoto(task'[p]) <=> IsGoto(task[p])
    BY <2>2 DEF IsGoto
  <2>4. Going' = {}
    BY <1>2, <2>2, <2>3 DEF Going
  <2> QED BY <2>4, TurnKept
<1>4. CASE \E tgt : Return(p, task[p].work, latest, tgt)
  BY <1>1, <1>2, <1>4, ReturnTurn
<1> QED BY <1>3, <1>4 DEF AxisStopped

LEMMA DrivenTurn ==
  ASSUME MaxFaults = 0, MountInv, TurnInv, NEW p \in Task, Driven(p)
  PROVE  TurnInv'
<1> DEFINE work == task[p].work
<1>1. task[p].at = "drive" /\ work \in Work /\ task \in [Task -> Active]
  <2>1. HasPort(p, "drive")
    BY DEF Driven
  <2> QED BY <2>1, DoingHas DEF HasPort, MountInv, PortInv
<1>2. \A a, way : ~Command(a, way, FALSE)
  BY NoFault DEF Command
<1>3. CASE (\E moves : Again(p, Drive(work, moves))) /\ UNCHANGED target
  <2>1. PICK moves : task' = [task EXCEPT ![p] = Drive(work, moves)]
    BY <1>3 DEF Again
  <2>2. task'[p] = Drive(work, moves) /\ \A x \in Task \ {p} : task'[x] = task[x]
    BY <1>1, <2>1
  <2>3. /\ task'[p].at = "drive" /\ (IsGoto(task'[p]) <=> IsGoto(task[p]))
    BY <1>1, <2>2 DEF IsGoto, Drive
  <2>4. Going' = Going
    BY <2>2, <2>3 DEF Going
  <2>5. Going # {} => target = None /\ \A q \in Task : task'[q].at # "arrive"
    BY <2>2, <2>3 DEF TurnInv
  <2> QED BY <1>3, <2>4, <2>5, TurnKept
<1>4. CASE work.kind = "goto" /\ Finish(p)
  <2>1. Going = {p}
    BY <1>1, <1>4 DEF Going, IsGoto, TurnInv
  <2>2. task'[p] = Idle /\ \A x \in Task \ {p} : task'[x] = task[x]
    BY <1>1, <1>4 DEF Finish
  <2>3. Going' = {}
    BY <2>1, <2>2, NoGotoAtRest DEF Going
  <2> QED BY <2>3, TurnKept
<1>5. CASE JogDriven(p, work.jog) /\ UNCHANGED target
  <2>1. \A x \in Task : task'[x] = task[x] \/ task'[x] = Idle \/ task'[x] = Halt
                        \/ \E j : task'[x] = [at |-> "asleep", jog |-> j]
    BY <1>1, <1>5 DEF JogDriven, Arm, Finish, Again
  <2> QED BY <1>5, <2>1, TurnEnds DEF TurnInv
<1> QED BY <1>2, <1>3, <1>4, <1>5 DEF Driven

LEMMA TurnNext ==
  ASSUME MaxFaults = 0, MountInv, TurnInv, InTurnNext
  PROVE  TurnInv'
<1>1. task \in [Task -> Active]
  BY DEF MountInv, PortInv
<1>2. ASSUME NEW p \in Task, PortStep(p) PROVE TurnInv'
  <2>1. CASE Snap(p)
    <3>1. task[p].at = "snap"
      BY <2>1 DEF Snap, HasPort
    <3>2. CASE Again(p, [at |-> "limit", work |-> task[p].work]) /\ UNCHANGED target
      <4>1. task'[p].at = "limit" /\ task'[p].work = task[p].work
            /\ \A x \in Task \ {p} : task'[x] = task[x]
        BY <1>1, <3>2 DEF Again
      <4>2. IsGoto(task'[p]) <=> IsGoto(task[p])
        BY <3>1, <4>1 DEF IsGoto
      <4>3. Going' = Going
        BY <4>1, <4>2 DEF Going
      <4> QED BY <3>2, <4>1, <4>3, TurnKept DEF TurnInv
    <3>3. CASE CheckTarget(p, task[p].work, latest')
      BY <3>1, <3>3, CheckTurn
    <3> QED BY <2>1, <3>2, <3>3 DEF Snap
  <2>2. CASE LimitStopped(p)
    BY <2>2, CheckTurn DEF LimitStopped, HasPort
  <2>3. CASE AxisStopped(p)
    BY <2>3, AxisStoppedTurn
  <2>4. CASE Driven(p)
    BY <2>4, DrivenTurn
  <2>5. CASE Halted(p)
    <3>1. UNCHANGED target /\ \A x \in Task : task'[x] = task[x] \/ task'[x] = Idle
      BY <1>1, <2>5 DEF Halted, Finish
    <3> QED BY <3>1, TurnEnds DEF TurnInv
  <2> QED BY <1>2, <2>1, <2>2, <2>3, <2>4, <2>5 DEF PortStep
<1>3. CASE PollBegin
  <2>1. /\ Poll \in Task /\ UNCHANGED target
        /\ task'[Poll] = [at |-> "snap", work |-> [kind |-> "poll"]]
        /\ \A x \in Task \ {Poll} : task'[x] = task[x]
    BY <1>1, <1>3 DEF PollBegin, Start, Task
  <2>2. ~IsGoto(task'[Poll]) /\ task'[Poll].at # "arrive"
    BY <2>1 DEF IsGoto
  <2>3. Going' \subseteq Going
    BY <2>1, <2>2 DEF Going
  <2> QED BY <2>1, <2>2, <2>3, TurnKept DEF TurnInv
<1>4. CASE WatchFires
  <2>1. UNCHANGED target /\ \A x \in Task : task'[x] = task[x] \/ task'[x] = Idle \/ task'[x] = Halt
    BY <1>1, <1>4 DEF WatchFires, Start
  <2> QED BY <2>1, TurnEnds DEF TurnInv
<1>5. CASE \E a \in Axis : Move(a)
  BY <1>5 DEF Move, TurnInv, Going
<1> QED BY <1>2, <1>3, <1>4, <1>5, RequestTurn DEF InTurnNext
-----------------------------------------------------------------------------
(* What runs is followed.                                                  *)

LEMMA RememberKeeps ==
  ASSUME NEW tgt \in Target, NEW now \in Readings, NEW a, Keeps(tgt, a)
  PROVE  Keeps(Remember(tgt, now), a)
<1>1. Remember(tgt, now) # None
  BY RememberType, NoneAssumption
<1>2. Remember(tgt, now).stopped = tgt.stopped
  BY DEF Remember, Target
<1> QED BY <1>1, <1>2 DEF Keeps

LEMMA ArrivedKeeps ==
  ASSUME NEW tgt \in Target, NEW now \in Readings, NEW a \in Axis, Keeps(tgt, a)
  PROVE  a \in Hits(tgt, now) \/ Keeps(Arrived(tgt, now), a)
<1> DEFINE s == tgt.stopped \cup Hits(tgt, now)
           l == [b \in Axis |-> Delta(b, tgt.goal, now)]
<1>1. tgt.goal \in Goals /\ tgt.stopped \in SUBSET Axis
      /\ tgt = [goal |-> tgt.goal, stopped |-> tgt.stopped, last |-> tgt.last]
  BY DEF Target
<1>2. CASE a \in s
  BY <1>2 DEF Keeps
<1>3. CASE a \notin s
  <2>1. Arrived(tgt, now) = [goal |-> tgt.goal, stopped |-> s, last |-> l]
    BY <1>1, <1>3 DEF Arrived
  <2>2. l \in [Axis -> Side] /\ s \in SUBSET Axis
    BY <1>1, DeltaType DEF Hits
  <2> HIDE DEF s, l
  <2>3. Arrived(tgt, now) \in Target
    BY <1>1, <2>1, <2>2 DEF Target, Side
  <2>4. Arrived(tgt, now).stopped = s
    BY <2>1
  <2> QED BY <1>3, <2>3, <2>4, NoneAssumption DEF Keeps
<1> QED BY <1>2, <1>3

\* A step of p, which neither stopped nor drove, that leaves the jog active.
LEMMA QuietStep ==
  ASSUME MotionInv, NEW p \in Task, task[p].at \notin StopOrDrive,
         \A x \in Task \ {p} : task'[x] = task[x], UNCHANGED jog, Followed => Followed'
  PROVE  MotionInv'
<1>1. CASE jog # None
  BY <1>1 DEF MotionInv, Attended
<1>2. CASE \E x \in Task : task[x].at \in StopOrDrive
  <2>1. PICK x \in Task : task[x].at \in StopOrDrive
    BY <1>2
  <2>2. task'[x] = task[x]
    BY <2>1
  <2> QED BY <2>1, <2>2 DEF MotionInv, Attended
<1> QED BY <1>1, <1>2 DEF MotionInv, Attended

LEMMA FollowedKept ==
  ASSUME Followed, NEW p \in Task, \A x \in Task \ {p} : task'[x] = task[x],
         task'[p].at # "arrive",
         \A a \in Axis : run'[a] # 0 => run[a] # 0 /\ Keeps(target', a)
  PROVE  Followed'
<1> SUFFICES ASSUME NEW a \in Axis, run'[a] # 0
             PROVE  /\ Keeps(target', a)
                    /\ \A x \in Task : task'[x].at = "arrive" =>
                         a \in task'[x].hits \/ Keeps(task'[x].aim, a)
  BY DEF Followed, Keeps
<1>1. ASSUME NEW x \in Task, task'[x].at = "arrive"
      PROVE  a \in task'[x].hits \/ Keeps(task'[x].aim, a)
  <2>1. task'[x] = task[x]
    BY <1>1
  <2> QED BY <1>1, <2>1 DEF Followed
<1> QED BY <1>1

\* A step of p that begins nothing but a refresh or a rest.
LEMMA QuietKeeps ==
  ASSUME MotionInv, NEW p \in Task, task[p].at \notin StopOrDrive,
         \A x \in Task \ {p} : task'[x] = task[x], task'[p].at # "arrive",
         UNCHANGED << run, jog, target >>
  PROVE  MotionInv'
<1>1. Followed => Followed'
  BY FollowedKept DEF Followed
<1> QED BY <1>1, QuietStep

\* Where the port works, a stop of everything leaves no motor running.
LEMMA StopsMotion ==
  ASSUME MaxFaults = 0, MountInv, StopAll
  PROVE  MotionInv'
<1>1. \A a \in Axis : run'[a] = 0
  BY NoFault DEF StopAll
<1> QED BY <1>1 DEF MotionInv, Followed

LEMMA ReturnMotion ==
  ASSUME MountInv, TurnInv, MotionInv, NEW p \in Task, task[p].at \in {"snap", "arrive"},
         NEW now, NEW tgt, Return(p, task[p].work, now, tgt),
         \A a \in Axis : run'[a] # 0 => run[a] # 0,
         Followed => \A a \in Axis : run'[a] # 0 => Keeps(tgt, a)
  PROVE  MotionInv'
<1> DEFINE work == task[p].work
<1>0. task \in [Task -> Active] /\ work \in Work
  BY DoingHas DEF MountInv, PortInv
<1> HIDE DEF work
<1>1. CASE Finish(p) /\ target' = tgt /\ UNCHANGED jog
  <2>1. task'[p].at # "arrive" /\ \A x \in Task \ {p} : task'[x] = task[x]
    BY <1>0, <1>1 DEF Finish, Idle
  <2>2. Followed => Followed'
    BY <1>1, <2>1, FollowedKept
  <2> QED BY <1>1, <2>1, <2>2, QuietStep DEF StopOrDrive
<1>2. CASE ClearWatchdog(work.jog.token, work.jog.seq, Tail(io), p, Halt)
  <2>1. task'[p].at = "halt"
    BY <1>2 DEF ClearWatchdog, Halt
  <2> QED BY <2>1 DEF MotionInv, Attended, StopOrDrive
<1>3. CASE \E moves : Again(p, Drive(work, moves))
  <2>1. task'[p].at = "drive"
    BY <1>0, <1>3 DEF Again, Drive
  <2> QED BY <2>1 DEF MotionInv, Attended, StopOrDrive
<1>4. CASE /\ work.kind = "goto" /\ target' = NewTarget(work.goal) /\ Finish(p)
           /\ UNCHANGED jog
  <2>1. p \in Going
    BY <1>4 DEF Going, IsGoto, work
  <2>2. \A x \in Task : task'[x] = task[x] \/ task'[x].at = "idle"
    BY <1>0, <1>4 DEF Finish, Idle
  <2>3. \A x \in Task : task'[x].at # "arrive"
    BY <2>1, <2>2 DEF TurnInv
  <2>4. target' # None /\ target'.stopped = {}
    BY <1>0, <1>4, WorkHas, NewTargetType, NoneAssumption DEF NewTarget
  <2> QED BY <2>3, <2>4 DEF MotionInv, Followed, Keeps
<1> QED BY <1>1, <1>2, <1>3, <1>4 DEF Return, work

LEMMA SnapMotion ==
  ASSUME MountInv, TurnInv, MotionInv, NEW p \in Task, Snap(p)
  PROVE  MotionInv'
<1>1. /\ task[p].at = "snap" /\ task[p].work \in Work /\ UNCHANGED run
      /\ task \in [Task -> Active]
  <2>1. HasPort(p, "snap") /\ UNCHANGED run
    BY DEF Snap
  <2> QED BY <2>1, DoingHas DEF HasPort, MountInv, PortInv
<1>2. latest' \in Readings /\ target \in Target \cup {None}
  BY SnapInv DEF MountInv, MountTypes
<1>3. CASE Again(p, [at |-> "limit", work |-> task[p].work])
  <2>1. task'[p].at = "limit"
    BY <1>1, <1>3 DEF Again
  <2> QED BY <2>1 DEF MotionInv, Attended, StopOrDrive
<1>4. CASE target = None /\ Return(p, task[p].work, latest', None)
  <2>1. Followed => \A a \in Axis : run'[a] # 0 => Keeps(None, a)
    BY <1>1, <1>4 DEF Followed
  <2> QED BY <1>1, <1>4, <2>1, ReturnMotion
<1>5. CASE target # None /\ Return(p, task[p].work, latest', Remember(target, latest'))
  <2>1. Followed => \A a \in Axis : run'[a] # 0 => Keeps(Remember(target, latest'), a)
    BY <1>1, <1>2, <1>5, RememberKeeps DEF Followed
  <2> QED BY <1>1, <1>5, <2>1, ReturnMotion
<1>6. CASE /\ target # None /\ UNCHANGED << target, jog >>
           /\ Again(p, [at |-> "arrive", work |-> task[p].work, hits |-> Hits(target, latest'),
                        aim |-> Arrived(target, latest'), bad |-> FALSE])
  <2>1. /\ task'[p].hits = Hits(target, latest') /\ task'[p].aim = Arrived(target, latest')
        /\ \A x \in Task \ {p} : task'[x] = task[x]
    BY <1>1, <1>6 DEF Again
  <2>2. ASSUME Followed, NEW a \in Axis, run'[a] # 0
        PROVE  /\ Keeps(target', a)
               /\ \A x \in Task : task'[x].at = "arrive" =>
                    a \in task'[x].hits \/ Keeps(task'[x].aim, a)
    <3>1. Keeps(target, a)
      BY <1>1, <2>2 DEF Followed
    <3>2. a \in task'[p].hits \/ Keeps(task'[p].aim, a)
      BY <1>2, <1>6, <2>1, <3>1, ArrivedKeeps
    <3>3. ASSUME NEW x \in Task \ {p}, task'[x].at = "arrive"
          PROVE  a \in task'[x].hits \/ Keeps(task'[x].aim, a)
      BY <1>1, <2>1, <2>2, <3>3 DEF Followed
    <3> QED BY <1>6, <3>1, <3>2, <3>3
  <2>3. Followed => Followed'
    BY <2>2 DEF Followed, Keeps
  <2> QED BY <1>1, <1>6, <2>1, <2>3, QuietStep DEF StopOrDrive
<1> QED BY <1>3, <1>4, <1>5, <1>6 DEF Snap, CheckTarget

LEMMA AxisStoppedMotion ==
  ASSUME MaxFaults = 0, MountInv, TurnInv, MotionInv, NEW p \in Task, AxisStopped(p)
  PROVE  MotionInv'
<1> DEFINE d == task[p]
           a == First(d.hits)
           rest == d.hits \ {a}
<1>1. /\ d.at = "arrive" /\ d \in Active /\ d.hits \in SUBSET Axis
      /\ d = [at |-> "arrive", work |-> d.work, hits |-> d.hits, aim |-> d.aim, bad |-> d.bad]
      /\ task \in [Task -> Active] /\ run \in [Axis -> Way \cup {0}]
  <2>1. d \in Active /\ d.at = "arrive"
    BY DEF AxisStopped, HasPort, MountInv, PortInv
  <2> HIDE DEF d
  <2> QED BY <2>1, DoingHas DEF MountInv, MountTypes, PortInv
<1>2. a \in Axis
  BY <1>1, FirstType
<1>3. ~\E way : Command(a, way, FALSE)
  BY NoFault DEF Command
<1>4. PICK bad \in BOOLEAN :
        /\ run' = [run EXCEPT ![a] = 0]
        /\ \/ /\ rest # {}
              /\ Again(p, [d EXCEPT !.hits = rest, !.bad = bad])
              /\ UNCHANGED << target, jog >>
           \/ /\ rest = {}
              /\ Return(p, d.work, latest, IF bad THEN target ELSE d.aim)
  <2>1. PICK ok \in BOOLEAN :
          LET bad == d.bad \/ ~ok IN
          /\ Command(a, 0, ok)
          /\ \/ /\ rest # {}
                /\ Again(p, [d EXCEPT !.hits = rest, !.bad = bad])
                /\ UNCHANGED << target, jog >>
             \/ /\ rest = {}
                /\ Return(p, d.work, latest, IF bad THEN target ELSE d.aim)
    BY DEF AxisStopped
  <2>2. run' = [run EXCEPT ![a] = 0]
    BY <1>3, <2>1 DEF Command
  <2>3. (d.bad \/ ~ok) \in BOOLEAN
    OBVIOUS
  <2> QED BY <2>1, <2>2, <2>3
<1>5. \A b \in Axis : run'[b] # 0 => b # a /\ run[b] # 0
  BY <1>1, <1>2, <1>4
<1> HIDE DEF a
<1>6. CASE Again(p, [d EXCEPT !.hits = rest, !.bad = bad]) /\ UNCHANGED << target, jog >>
  <2> DEFINE e == [d EXCEPT !.hits = rest, !.bad = bad]
  <2>1. e.at = "arrive" /\ e.hits = rest /\ e.aim = d.aim
    <3> HIDE DEF d, rest
    <3> QED BY <1>1
  <2>2. task'[p] = e /\ \A x \in Task \ {p} : task'[x] = task[x]
    BY <1>1, <1>6 DEF Again
  <2> HIDE DEF e
  <2>3. ASSUME Followed, NEW b \in Axis, run'[b] # 0
        PROVE  /\ Keeps(target', b)
               /\ \A x \in Task : task'[x].at = "arrive" =>
                    b \in task'[x].hits \/ Keeps(task'[x].aim, b)
    <3>1. b # a /\ run[b] # 0
      BY <1>5, <2>3
    <3>2. b \in task'[p].hits \/ Keeps(task'[p].aim, b)
      BY <1>1, <2>1, <2>2, <2>3, <3>1 DEF Followed
    <3>3. ASSUME NEW x \in Task \ {p}, task'[x].at = "arrive"
          PROVE  b \in task'[x].hits \/ Keeps(task'[x].aim, b)
      BY <2>2, <2>3, <3>1, <3>3 DEF Followed
    <3> QED BY <1>6, <2>3, <3>1, <3>2, <3>3 DEF Followed
  <2>4. Followed => Followed'
    BY <2>3 DEF Followed, Keeps
  <2> QED BY <1>1, <1>6, <2>2, <2>4, QuietStep DEF StopOrDrive
<1>7. CASE rest = {} /\ Return(p, d.work, latest, IF bad THEN target ELSE d.aim)
  <2> DEFINE tgt == IF bad THEN target ELSE d.aim
  <2>1. Followed => \A b \in Axis : run'[b] # 0 => Keeps(tgt, b)
    <3> SUFFICES ASSUME Followed, NEW b \in Axis, run'[b] # 0 PROVE Keeps(tgt, b)
      OBVIOUS
    <3>1. b # a /\ run[b] # 0 /\ b \notin d.hits
      BY <1>5, <1>7
    <3>2. Keeps(target, b) /\ Keeps(d.aim, b)
      BY <1>1, <3>1 DEF Followed
    <3> QED BY <3>2
  <2>2. \A b \in Axis : run'[b] # 0 => run[b] # 0
    BY <1>5
  <2>3. Return(p, task[p].work, latest, tgt)
    BY <1>7
  <2>4. task[p].at \in {"snap", "arrive"}
    BY <1>1
  <2> HIDE DEF tgt, d
  <2> QED BY <2>1, <2>2, <2>3, <2>4, ReturnMotion
<1> QED BY <1>4, <1>6, <1>7
LEMMA DrivenMotion ==
  ASSUME MaxFaults = 0, MountInv, TurnInv, MotionInv, NEW p \in Task, Driven(p)
  PROVE  MotionInv'
<1> DEFINE work == task[p].work
<1>1. task[p].at = "drive" /\ work \in Work /\ task \in [Task -> Active]
  <2>1. HasPort(p, "drive")
    BY DEF Driven
  <2> QED BY <2>1, DoingHas DEF HasPort, MountInv, PortInv
<1>2. \A a, way : ~Command(a, way, FALSE)
  BY NoFault DEF Command
<1>3. CASE \E moves : Again(p, Drive(work, moves))
  <2>1. task'[p].at = "drive"
    BY <1>1, <1>3 DEF Again, Drive
  <2> QED BY <2>1 DEF MotionInv, Attended, StopOrDrive
<1>4. CASE work.kind = "goto" /\ target' = NewTarget(work.goal) /\ Finish(p)
  <2>1. p \in Going
    BY <1>1, <1>4 DEF Going, IsGoto
  <2>2. \A x \in Task : task'[x] = task[x] \/ task'[x].at = "idle"
    BY <1>1, <1>4 DEF Finish, Idle
  <2>3. \A x \in Task : task'[x].at # "arrive"
    BY <2>1, <2>2 DEF TurnInv
  <2>4. target' # None /\ target'.stopped = {}
    BY <1>1, <1>4, WorkHas, NewTargetType, NoneAssumption DEF NewTarget
  <2> QED BY <2>3, <2>4 DEF MotionInv, Followed, Keeps
<1>5. CASE work.kind = "jog" /\ JogDriven(p, work.jog)
  <2>1. work.jog # None
    BY <1>1, <1>5, WorkHas, NoneAssumption
  <2>2. CASE jog' # None
    BY <2>2 DEF MotionInv, Attended
  <2>3. CASE Again(p, Halt)
    <3>1. task'[p].at = "halt"
      BY <1>1, <2>3 DEF Again, Halt
    <3> QED BY <3>1 DEF MotionInv, Attended, StopOrDrive
  <2> QED BY <1>5, <2>1, <2>2, <2>3 DEF JogDriven, Arm
<1> QED BY <1>2, <1>3, <1>4, <1>5 DEF Driven

LEMMA RequestMotion ==
  ASSUME MountInv, MotionInv, NEW r \in Req, Request(r)
  PROVE  MotionInv'
<1>1. task \in [Task -> Active] /\ r \in Task
  BY Requests DEF MountInv, PortInv
<1>2. CASE (\E j \in Jog : JogBegin(r, j)) \/ (\E goal \in Goals : Goto(r, goal))
  <2>1. /\ task[r].at = "idle" /\ task'[r].at = "snap"
        /\ \A x \in Task \ {r} : task'[x] = task[x]
        /\ UNCHANGED << run, jog, target >>
    BY <1>1, <1>2 DEF JogBegin, Goto, Start, Idle
  <2> QED BY <1>1, <2>1, QuietKeeps DEF StopOrDrive
<1>3. CASE \E t \in Token, s \in 0 .. MaxSeq : StopJog(r, t, s)
  <2>1. CASE UNCHANGED << jog, target, task, run >>
    BY <2>1 DEF MotionInv, Attended, Followed
  <2>2. CASE \E t, s : ClearWatchdog(t, s, io, r, Halt)
    <3>1. task'[r].at = "halt"
      BY <1>1, <2>2 DEF ClearWatchdog, Halt
    <3> QED BY <1>1, <3>1 DEF MotionInv, Attended, StopOrDrive
  <2> QED BY <1>3, <2>1, <2>2 DEF StopJog
<1>4. CASE Stop(r)
  <2>1. task'[r].at = "halt"
    BY <1>1, <1>4 DEF Stop, Start, Halt
  <2> QED BY <1>1, <2>1 DEF MotionInv, Attended, StopOrDrive
<1> QED BY <1>2, <1>3, <1>4 DEF Request

LEMMA MotionNext ==
  ASSUME MaxFaults = 0, MountInv, TurnInv, MotionInv, Next
  PROVE  MotionInv'
<1>1. task \in [Task -> Active]
  BY DEF MountInv, PortInv
<1>2. ASSUME NEW p \in Task, PortStep(p) PROVE MotionInv'
  <2>1. CASE LimitStopped(p) \/ Halted(p)
    BY <2>1, StopsMotion DEF LimitStopped, Halted
  <2> QED BY <1>2, <2>1, SnapMotion, AxisStoppedMotion, DrivenMotion DEF PortStep
<1>3. CASE PollBegin
  <2>1. /\ Poll \in Task /\ task[Poll].at = "idle" /\ task'[Poll].at = "snap"
        /\ \A x \in Task \ {Poll} : task'[x] = task[x]
        /\ UNCHANGED << run, jog, target >>
    BY <1>1, <1>3 DEF PollBegin, Start, Task, Idle
  <2> QED BY <2>1, QuietKeeps DEF StopOrDrive
<1>4. CASE WatchFires
  <2>1. /\ Watch \in Task /\ task[Watch].at = "asleep" /\ UNCHANGED << run, target >>
        /\ \A x \in Task \ {Watch} : task'[x] = task[x]
        /\ task'[Watch].at = "halt" \/ (task'[Watch].at = "idle" /\ UNCHANGED jog)
    BY <1>1, <1>4 DEF WatchFires, Start, Task, Halt, Idle
  <2>2. CASE task'[Watch].at = "halt"
    BY <2>1, <2>2 DEF MotionInv, Attended, StopOrDrive
  <2>3. CASE task'[Watch].at = "idle" /\ UNCHANGED jog
    BY <2>1, <2>3, QuietKeeps DEF StopOrDrive
  <2> QED BY <2>1, <2>2, <2>3
<1>5. CASE \E a \in Axis : Move(a)
  BY <1>5 DEF Move, MotionInv, Attended, Followed
<1> QED BY <1>2, <1>3, <1>4, <1>5, RequestMotion DEF Next

(***************************************************************************)
(* As long as the port works and each goto is sent after the one before    *)
(* has ended, no motor runs that neither a watched jog, the target that    *)
(* the poll loop follows, nor a stop on its way accounts for, whatever     *)
(* jogs, stops and polls come between: without a goto under way, a target  *)
(* followed or an arrival being stopped when it is sent.                   *)
(***************************************************************************)
THEOREM GotosInTurnLeaveNoMotion ==
  ASSUME MaxFaults = 0
  PROVE  InTurnSpec => []NoRunaway
<1> DEFINE Moving == TurnInv /\ MotionInv
<1>1. Init => Moving
  <2> SUFFICES ASSUME Init PROVE TurnInv /\ MotionInv
    OBVIOUS
  <2>1. (\A p \in Task : task[p] = Idle) /\ \A a \in Axis : run[a] = 0
    BY DEF Init
  <2>2. Going = {}
    BY <2>1, NoGotoAtRest DEF Going
  <2> QED BY <2>1, <2>2 DEF TurnInv, MotionInv, Followed
<1>2. MountInv /\ Moving /\ [InTurnNext]_vars => Moving'
  <2>1. CASE UNCHANGED vars
    BY <2>1 DEF vars, TurnInv, Going, MotionInv, Attended, Followed
  <2>2. InTurnNext => Next
    BY DEF InTurnNext, Next
  <2> QED BY <2>1, <2>2, TurnNext, MotionNext
<1>3. InTurnSpec => Spec
  <2>1. [InTurnNext]_vars => [Next]_vars
    BY DEF InTurnNext, Next
  <2> QED BY <2>1, PTL DEF InTurnSpec, Spec
<1>4. Moving => NoRunaway
  BY DEF MotionInv, Attended, Followed, Keeps, StopOrDrive, NoRunaway, Tracked,
         StopPending, DrivePending
<1> HIDE DEF Moving
<1> QED BY <1>1, <1>2, <1>3, <1>4, MountInvHolds, PTL DEF InTurnSpec

(***************************************************************************)
(* In particular, without gotos: jogs, their stops, limit stops and the    *)
(* watchdog leave no motor running.                                        *)
(***************************************************************************)
THEOREM JogsLeaveNoMotion ==
  ASSUME MaxFaults = 0, Goals = {}
  PROVE  Spec => []NoRunaway
<1>1. [Next]_vars => [InTurnNext]_vars
  BY DEF Next, InTurnNext, InTurn
<1>2. Spec => InTurnSpec
  BY <1>1, PTL DEF Spec, InTurnSpec
<1> QED BY <1>2, GotosInTurnLeaveNoMotion, PTL
=============================================================================

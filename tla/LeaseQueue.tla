----------------------------- MODULE LeaseQueue -----------------------------
(***************************************************************************)
(* The platform's control queue, platform/src/rt_platform/services/        *)
(* queue.py, with the calls api/routes_queue.py and api/dependencies.py    *)
(* make on it.                                                             *)
(*                                                                         *)
(* asyncio gives the atomicity: every body under `async with self._lock'   *)
(* runs without an await, and so does the stretch from the release of the  *)
(* lock to the first await inside the control-change callback.  One action *)
(* is therefore one such stretch; the callback (a DELETE to the hardware   *)
(* service that may take as long as its 15 s timeout) ends in an action of *)
(* its own, CallbackDone.                                                  *)
(*                                                                         *)
(* The code keeps time.monotonic() stamps and compares differences with    *)
(* limits.  The model keeps the differences themselves, each stopped where *)
(* its comparison no longer changes, and lets Elapse advance them all.     *)
(***************************************************************************)
EXTENDS FiniteSets, SeqRemoval

CONSTANTS Token,          \* session tokens; one that nothing refers to is fresh
          Ip,             \* client addresses
          NoOne,          \* the None of _active
          MaxSession,     \* max_session_seconds
          IdleTimeout,    \* idle_timeout_seconds
          WsGrace,        \* the 10.0 of _tick
          JoinCooldown,   \* join_cooldown_seconds
          MaxQueueSize,   \* max_queue_size
          MaxPerIp,       \* max_sessions_per_ip
          MaxConns        \* bound: open /ws/queue sockets of one token

ASSUME LeaseQueueAssumption ==
  /\ NoOne \notin Token
  /\ {MaxSession, IdleTimeout, WsGrace, JoinCooldown} \subseteq Nat
  /\ {MaxQueueSize, MaxPerIp, MaxConns} \subseteq Nat

VARIABLES sessions,     \* _sessions: token -> [ip, ws_connected, seen, joined]
          queue,        \* _queue
          active,       \* _active
          leaseAge,     \* now - _active_lease_started_at
          idleAge,      \* now - _active_last_command_at
          joinAge,      \* now - _last_join_by_ip[ip]
          conns,        \* /ws/queue handlers that run, for each token
          resetting,    \* tokens whose control-change callback is in flight
          unanswered,   \* tokens whose join waits for that callback
          tickWaits     \* the token whose callback the tick loop awaits

vars == << sessions, queue, active, leaseAge, idleAge, joinAge, conns,
           resetting, unanswered, tickWaits >>

Tracked == DOMAIN sessions

\* The ages a limit tells apart.
AgeUpTo(limit) == 0 .. limit + 1
Older(age, limit) == IF age > limit THEN age ELSE age + 1

Session == [ip : Ip, ws_connected : BOOLEAN,
            seen : AgeUpTo(WsGrace), joined : AgeUpTo(WsGrace)]

TypeOK ==
  /\ Tracked \subseteq Token
  /\ sessions \in [Tracked -> Session]
  /\ queue \in Seq(Token)
  /\ active \in Token \cup {NoOne}
  /\ leaseAge \in AgeUpTo(MaxSession)
  /\ idleAge \in AgeUpTo(IdleTimeout)
  /\ joinAge \in [Ip -> 0 .. JoinCooldown]
  /\ conns \in [Token -> 0 .. MaxConns]
  /\ resetting \subseteq Token
  /\ unanswered \subseteq resetting
  /\ tickWaits \in resetting \cup {NoOne}

Init ==
  /\ sessions = << >>
  /\ queue = << >>
  /\ active = NoOne
  /\ leaseAge = 0
  /\ idleAge = 0
  /\ joinAge = [ip \in Ip |-> JoinCooldown]
  /\ conns = [t \in Token |-> 0]
  /\ resetting = {}
  /\ unanswered = {}
  /\ tickWaits = NoOne

-----------------------------------------------------------------------------
(* The internals that run under the lock.                                  *)

\* Where _promote_if_idle finds a candidate that is still tracked.
Candidates(q, tracked) == {i \in DOMAIN q : q[i] \in tracked}
FirstCandidate_Pop(q, tracked) ==      \* slip: pop() for popleft()
  CHOOSE i \in Candidates(q, tracked) :
    \A j \in Candidates(q, tracked) : j <= i
FirstCandidate(q, tracked) ==
  CHOOSE i \in Candidates(q, tracked) :
    \A j \in Candidates(q, tracked) : i <= j

Promote_Peek(q, a, tracked) ==         \* slip: queue[0] for popleft()
  /\ a = NoOne
  /\ Candidates(q, tracked) # {}
  /\ active' = q[FirstCandidate(q, tracked)]
  /\ queue' = q
  /\ resetting' = resetting \cup {active'}
  /\ leaseAge' = 0
  /\ idleAge' = 0

\* _promote_if_idle takes a candidate; the pending flag it sets makes the
\* same stretch of code start the control-change callback.
Promote(q, a, tracked) ==
  /\ a = NoOne
  /\ Candidates(q, tracked) # {}
  /\ LET i == FirstCandidate(q, tracked) IN
       /\ active' = q[i]
       /\ queue' = SubSeq(q, i + 1, Len(q))
       /\ resetting' = resetting \cup {q[i]}
  /\ leaseAge' = 0
  /\ idleAge' = 0

\* _promote_if_idle changes nothing: somebody holds the lease, or nobody in
\* the queue is tracked and the loop has emptied it.
NoPromotion(q, a, tracked) ==
  \/ /\ a # NoOne
     /\ active' = a
     /\ queue' = q
     /\ UNCHANGED << leaseAge, idleAge, resetting >>
  \/ /\ a = NoOne
     /\ Candidates(q, tracked) = {}
     /\ active' = NoOne
     /\ queue' = << >>
     /\ leaseAge' = 0
     /\ idleAge' = 0
     /\ UNCHANGED resetting

\* What is left of the sessions and of the lease after _drop_locked has
\* taken out every token of D.
Kept_All(D) == sessions                \* slip: no _sessions.pop
Kept(D) == Restrict(sessions, Tracked \ D)
HolderAfter(D) == IF active \in D THEN NoOne ELSE active

-----------------------------------------------------------------------------
(* The public operations.                                                  *)

Fresh(t) ==
  /\ t \notin Tracked
  /\ conns[t] = 0
  /\ t \notin resetting

SessionsFrom(ip) == {t \in Tracked : sessions[t].ip = ip}
Occupied == Len(queue) + (IF active = NoOne THEN 0 ELSE 1)

NewSession(ip) == [ip |-> ip, ws_connected |-> FALSE, seen |-> 0, joined |-> 0]
WithSession(t, ip) ==
  [x \in Tracked \cup {t} |-> IF x = t THEN NewSession(ip) ELSE sessions[x]]

Join_Left(t, ip) ==                    \* slip: appendleft
  /\ Fresh(t)
  /\ joinAge[ip] >= JoinCooldown
  /\ Cardinality(SessionsFrom(ip)) < MaxPerIp
  /\ Occupied < MaxQueueSize
  /\ sessions' = WithSession(t, ip)
  /\ joinAge' = [joinAge EXCEPT ![ip] = 0]
  /\ \/ /\ Promote(<< t >> \o queue, active, Tracked \cup {t})
        /\ unanswered' = unanswered \cup {t}
     \/ /\ NoPromotion(<< t >> \o queue, active, Tracked \cup {t})
        /\ UNCHANGED unanswered
  /\ UNCHANGED << conns, tickWaits >>

\* join: past the cooldown, the limit for the address and the limit for the
\* queue, a new session goes to the end and may be promoted at once; then its
\* caller gets the answer, with the cookie, only when the callback is over.
Join(t, ip) ==
  /\ Fresh(t)
  /\ joinAge[ip] >= JoinCooldown
  /\ Cardinality(SessionsFrom(ip)) < MaxPerIp
  /\ Occupied < MaxQueueSize
  /\ sessions' = WithSession(t, ip)
  /\ joinAge' = [joinAge EXCEPT ![ip] = 0]
  /\ \/ /\ Promote(Append(queue, t), active, Tracked \cup {t})
        /\ unanswered' = unanswered \cup {t}
     \/ /\ NoPromotion(Append(queue, t), active, Tracked \cup {t})
        /\ UNCHANGED unanswered
  /\ UNCHANGED << conns, tickWaits >>

\* A client acts under a token once the join that made it has answered.
Known(t) == t \in Tracked /\ t \notin unanswered

\* rejoin of a tracked session.
Rejoin(t, ip) ==
  /\ Known(t)
  /\ sessions' = [sessions EXCEPT ![t].ip = ip, ![t].seen = 0]
  /\ UNCHANGED << queue, active, leaseAge, idleAge, joinAge, conns, resetting,
                  unanswered, tickWaits >>

Leave_NoPromotion(t) ==                \* slip: no _promote_if_idle
  /\ Known(t)
  /\ sessions' = Kept({t})
  /\ queue' = Without(queue, {t})
  /\ active' = HolderAfter({t})
  /\ UNCHANGED << leaseAge, idleAge, joinAge, conns, resetting, unanswered,
                  tickWaits >>

\* leave.
Leave(t) ==
  /\ Known(t)
  /\ sessions' = Kept({t})
  /\ \/ Promote(Without(queue, {t}), HolderAfter({t}), Tracked \ {t})
     \/ NoPromotion(Without(queue, {t}), HolderAfter({t}), Tracked \ {t})
  /\ UNCHANGED << joinAge, conns, unanswered, tickWaits >>

MarkCommand_Renews(t) ==               \* slip: a command renews the lease
  /\ Known(t)
  /\ active = t
  /\ idleAge' = 0
  /\ leaseAge' = 0
  /\ UNCHANGED << sessions, queue, active, joinAge, conns, resetting,
                  unanswered, tickWaits >>

\* mark_command of the controller: from require_control, or from any message
\* on its /ws/queue.
MarkCommand(t) ==
  /\ Known(t)
  /\ active = t
  /\ idleAge' = 0
  /\ UNCHANGED << sessions, queue, active, leaseAge, joinAge, conns, resetting,
                  unanswered, tickWaits >>

\* mark_ws_connected.
MarkWsConnected(t, connected) ==
  sessions' = IF t \in Tracked
              THEN [sessions EXCEPT ![t].ws_connected = connected, ![t].seen = 0]
              ELSE sessions

\* A /ws/queue handler starts for a token that is still tracked ...
WsOpen(t) ==
  /\ Known(t)
  /\ conns[t] < MaxConns
  /\ conns' = [conns EXCEPT ![t] = @ + 1]
  /\ MarkWsConnected(t, TRUE)
  /\ UNCHANGED << queue, active, leaseAge, idleAge, joinAge, resetting,
                  unanswered, tickWaits >>

WsClose_NoFinally(t) ==                \* slip: an exit that skips finally
  /\ conns[t] > 0
  /\ conns' = [conns EXCEPT ![t] = @ - 1]
  /\ UNCHANGED << sessions, queue, active, leaseAge, idleAge, joinAge,
                  resetting, unanswered, tickWaits >>

\* ... and reaches its finally clause, whoever else has connected since.
WsClose(t) ==
  /\ conns[t] > 0
  /\ conns' = [conns EXCEPT ![t] = @ - 1]
  /\ MarkWsConnected(t, FALSE)
  /\ UNCHANGED << queue, active, leaseAge, idleAge, joinAge, resetting,
                  unanswered, tickWaits >>

-----------------------------------------------------------------------------
(* The tick loop and the callback.                                         *)

Disconnected(t) == ~sessions[t].ws_connected

Expired == leaseAge > MaxSession
Idle == idleAge > IdleTimeout
Gone ==
  /\ active \in Tracked
  /\ Disconnected(active)
  /\ sessions[active].seen > WsGrace

Released_NoGrace ==                    \* slip: last_seen_at is not compared
  IF /\ active \in Tracked
     /\ Expired \/ Idle \/ Disconnected(active)
  THEN {active} ELSE {}

\* Whom _tick releases from the lease, and whom it prunes from the queue.
Released ==
  IF active # NoOne /\ (Expired \/ Idle \/ Gone) THEN {active} ELSE {}
Stale ==
  {t \in Range(queue) :
     t \in Tracked => Disconnected(t) /\ sessions[t].joined > WsGrace}

\* One turn of _tick_loop: _tick, and the start of the callback it awaits.
Tick ==
  /\ tickWaits = NoOne
  /\ LET dropped == Released \cup Stale
         q       == Without(queue, dropped)
         a       == HolderAfter(dropped)
     IN  /\ sessions' = Kept(dropped)
         /\ \/ /\ Promote(q, a, Tracked \ dropped)
               /\ tickWaits' = active'
            \/ /\ NoPromotion(q, a, Tracked \ dropped)
               /\ UNCHANGED tickWaits
  /\ UNCHANGED << joinAge, conns, unanswered >>

CallbackDone_Raises(t) ==              \* slip: a failed call ends the loop
  /\ t \in resetting
  /\ resetting' = resetting \ {t}
  /\ unanswered' = unanswered \ {t}
  /\ UNCHANGED << sessions, queue, active, leaseAge, idleAge, joinAge, conns,
                  tickWaits >>

\* The control-change callback for t returns, or times out: the callers that
\* awaited it go on.
CallbackDone(t) ==
  /\ t \in resetting
  /\ resetting' = resetting \ {t}
  /\ unanswered' = unanswered \ {t}
  /\ tickWaits' = IF tickWaits = t THEN NoOne ELSE tickWaits
  /\ UNCHANGED << sessions, queue, active, leaseAge, idleAge, joinAge, conns >>

\* Time passes.
Elapse ==
  /\ sessions' = [t \in Tracked |->
                    [sessions[t] EXCEPT !.seen = Older(@, WsGrace),
                                        !.joined = Older(@, WsGrace)]]
  /\ leaseAge' = IF active = NoOne THEN leaseAge ELSE Older(leaseAge, MaxSession)
  /\ idleAge' = IF active = NoOne THEN idleAge ELSE Older(idleAge, IdleTimeout)
  /\ joinAge' = [ip \in Ip |-> IF joinAge[ip] < JoinCooldown
                              THEN joinAge[ip] + 1 ELSE joinAge[ip]]
  /\ UNCHANGED << queue, active, conns, resetting, unanswered, tickWaits >>

-----------------------------------------------------------------------------
ClientStep(t) ==
  \/ \E ip \in Ip : Join(t, ip) \/ Rejoin(t, ip)
  \/ Leave(t)
  \/ MarkCommand(t)
  \/ WsOpen(t)
  \/ WsClose(t)

Next ==
  \/ \E t \in Token : ClientStep(t) \/ CallbackDone(t)
  \/ Tick
  \/ Elapse

Spec == Init /\ [][Next]_vars

\* The callback that the tick loop awaits is over.
LoopResumes == \E t \in Token : tickWaits = t /\ CallbackDone(t)

\* Clients owe nothing.  Time passes, the tick loop keeps turning, and the HTTP
\* request of the callback it awaits ends, at its timeout if not before.
Fairness ==
  /\ WF_vars(Elapse)
  /\ WF_vars(Tick)
  /\ WF_vars(LoopResumes)

FairSpec == Spec /\ Fairness

-----------------------------------------------------------------------------
(* Safety.                                                                 *)

\* Every session is in the queue or holds the lease, and nothing else is
\* tracked: a session left behind by one of the paths that drop a token would
\* count against its address in join for ever.
NoLeakedSession == Tracked = Range(queue) \cup ({active} \ {NoOne})

\* Nobody stands in the line twice, and the controller not at all: no path
\* from join, leave and _tick through _drop_locked promotes one user twice.
OnePlaceEach == IsInjective(queue) /\ active \notin Range(queue)

\* The telescope is never left free while somebody waits: every path that
\* releases the lease promotes before it gives up the lock.
NoIdleLease == queue # << >> => active # NoOne

\* The flag _tick trusts is never up for a user whose last /ws/queue is gone:
\* such a session would keep its place until the hard cap, or for ever.
FlagNeedsSocket ==
  \A t \in Tracked : sessions[t].ws_connected => conns[t] > 0

\* First come, first served: those who stay in the line keep their order, and
\* whoever is promoted had nobody left ahead.
FirstComeFirstServed ==
  [][\A x, y \in Token :
       Precedes(queue, x, y) =>
         /\ {x, y} \subseteq Range(queue') => Precedes(queue', x, y)
         /\ active' = y => x \notin Tracked']_vars

\* A controller loses the lease for one of the reasons the head of queue.py
\* gives and no other: the hard cap, idleness, leaving, or a queue WebSocket
\* that has been down for longer than the grace period.
LostForCause ==
  [][\A t \in Tracked :
       (active = t /\ active' # t) =>
         \/ leaseAge > MaxSession
         \/ idleAge > IdleTimeout
         \/ Leave(t)
         \/ ~sessions[t].ws_connected /\ sessions[t].seen > WsGrace]_vars

\* What the comment in _tick says of the third reason: the WebSocket of the
\* controller who is dropped has been gone.  One flag stands for all sockets of
\* a token, so the code does not keep this.
DroppedOnlyWhenGone ==
  [][\A t \in Tracked :
       (active = t /\ active' # t) =>
         \/ leaseAge > MaxSession
         \/ idleAge > IdleTimeout
         \/ Leave(t)
         \/ conns[t] = 0]_vars

-----------------------------------------------------------------------------
(* Liveness, under Fairness.                                               *)

\* Nobody keeps the lease for ever, whatever commands, rejoins and
\* reconnections arrive: the hard cap ends it.
ControlRotates == \A t \in Token : (active = t) ~> (active # t)

\* Whoever waits is served in the end, or is no longer in the line.
WaiterServed ==
  \A t \in Token :
    (t \in Range(queue)) ~> (active = t \/ t \notin Tracked)

-----------------------------------------------------------------------------
(* Refinement.                                                             *)

Abstract == INSTANCE FifoLease
              WITH Party <- Token, holder <- active, line <- queue

\* The queue is a first-come-first-served lease: each operation and each turn
\* of the tick loop is somebody coming, or some users going at once, and the
\* lease changes hands in the same step.
ImplementsFifoLease == Abstract!FSpec
=============================================================================

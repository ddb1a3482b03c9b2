-------------------------- MODULE LeaseQueueProofs --------------------------
(***************************************************************************)
(* Theorems about the control queue, for any number of tokens and          *)
(* addresses and any limits.                                               *)
(***************************************************************************)
EXTENDS LeaseQueue, SeqRemovalProofs

\* The inductive invariant.  None of its conjuncts is inductive alone: a join
\* that is promoted at once waits for its own callback (TypeOK) only because
\* nobody can be waiting when the lease is free (NoIdleLease), which rests in
\* turn on every queued token being tracked (NoLeakedSession), or the loop in
\* _promote_if_idle might discard the whole queue.
Inv ==
  /\ TypeOK
  /\ NoLeakedSession
  /\ OnePlaceEach
  /\ NoIdleLease
  /\ FlagNeedsSocket

\* _promote_if_idle on a queue of tracked tokens takes its first.
LEMMA FirstIsCandidate ==
  ASSUME NEW q \in Seq(Token), NEW tracked, Range(q) \subseteq tracked,
         q # << >>
  PROVE  FirstCandidate(q, tracked) = 1
<1>1. Len(q) \in Nat /\ DOMAIN q = 1 .. Len(q) /\ Len(q) # 0
  OBVIOUS
<1>2. Candidates(q, tracked) = 1 .. Len(q)
  BY <1>1 DEF Candidates, Range
<1>3. 1 \in Candidates(q, tracked)
      /\ \A j \in Candidates(q, tracked) : 1 <= j
  BY <1>1, <1>2
<1>4. \A i \in Candidates(q, tracked) :
        (\A j \in Candidates(q, tracked) : i <= j) => i = 1
  BY <1>1, <1>2, <1>3
<1> QED BY <1>3, <1>4 DEF FirstCandidate

LEMMA NoCandidate ==
  ASSUME NEW q \in Seq(Token), NEW tracked, Range(q) \subseteq tracked,
         Candidates(q, tracked) = {}
  PROVE  q = << >>
<1>1. Len(q) \in Nat /\ DOMAIN q = 1 .. Len(q)
  OBVIOUS
<1>2. \A i \in 1 .. Len(q) : FALSE
  BY <1>1 DEF Candidates, Range
<1> QED BY <1>1, <1>2

\* After the promotion step the same users are there, each once, and the lease
\* is free only if nobody is left.
LEMMA Settled ==
  ASSUME NEW q \in Seq(Token), IsInjective(q),
         NEW a \in Token \cup {NoOne}, a \notin Range(q),
         NEW tracked, Range(q) \subseteq tracked,
         Promote(q, a, tracked) \/ NoPromotion(q, a, tracked)
  PROVE  /\ queue' \in Seq(Token)
         /\ active' \in Token \cup {NoOne}
         /\ IsInjective(queue')
         /\ active' \notin Range(queue')
         /\ Range(queue') \cup ({active'} \ {NoOne})
              = Range(q) \cup ({a} \ {NoOne})
         /\ queue' # << >> => active' # NoOne
         /\ resetting \subseteq resetting'
         /\ resetting' \subseteq resetting \cup Token
         /\ Promote(q, a, tracked) => active' \in resetting'
<1>1. Len(q) \in Nat /\ DOMAIN q = 1 .. Len(q)
  OBVIOUS
<1>2. NoOne \notin Token
  BY LeaseQueueAssumption
<1>3. CASE Promote(q, a, tracked)
  <2>1. q # << >>
    BY <1>3 DEF Promote, Candidates
  <2>2. /\ active' = q[1]
        /\ queue' = SubSeq(q, 2, Len(q))
        /\ resetting' = resetting \cup {q[1]}
        /\ a = NoOne
    BY <1>3, <2>1, FirstIsCandidate DEF Promote
  <2>3. /\ queue' \in Seq(Token)
        /\ Len(queue') = Len(q) - 1
        /\ DOMAIN queue' = 1 .. Len(q) - 1
        /\ \A k \in 1 .. Len(q) - 1 : queue'[k] = q[k + 1]
    BY <1>1, <2>1, <2>2
  <2>4. \A i, j \in 1 .. Len(q) : q[i] = q[j] => i = j
    BY <1>1 DEF IsInjective
  <2>5. IsInjective(queue')
    BY <1>1, <2>3, <2>4 DEF IsInjective
  <2>6. active' \notin Range(queue')
    <3>1. \A k \in 1 .. Len(q) - 1 : queue'[k] # q[1]
      BY <1>1, <2>1, <2>3, <2>4
    <3> QED BY <2>2, <2>3, <3>1 DEF Range
  <2>7. Range(queue') \cup {active'} = Range(q)
    <3>1. ASSUME NEW x \in Range(q) PROVE x \in Range(queue') \cup {active'}
      <4>1. PICK i \in 1 .. Len(q) : x = q[i]
        BY <1>1 DEF Range
      <4>2. CASE i = 1
        BY <2>2, <4>1, <4>2
      <4>3. CASE i # 1
        <5>1. i - 1 \in 1 .. Len(q) - 1 /\ queue'[i - 1] = x
          BY <1>1, <2>3, <4>1, <4>3
        <5> QED BY <2>3, <5>1 DEF Range
      <4> QED BY <4>2, <4>3
    <3>2. ASSUME NEW x \in Range(queue') PROVE x \in Range(q)
      <4>1. PICK k \in 1 .. Len(q) - 1 : x = queue'[k]
        BY <2>3 DEF Range
      <4>2. k + 1 \in 1 .. Len(q) /\ x = q[k + 1]
        BY <1>1, <2>3, <4>1
      <4> QED BY <1>1, <4>2 DEF Range
    <3>3. active' \in Range(q)
      BY <1>1, <2>1, <2>2 DEF Range
    <3> QED BY <3>1, <3>2, <3>3
  <2>8. active' \in Token /\ active' \in resetting'
    BY <1>1, <2>1, <2>2
  <2> QED BY <1>2, <2>2, <2>3, <2>5, <2>6, <2>7, <2>8
<1>4. CASE NoPromotion(q, a, tracked)
  <2>1. CASE a # NoOne
    BY <1>4, <2>1 DEF NoPromotion, Promote
  <2>2. CASE a = NoOne
    <3>1. q = << >> /\ queue' = << >> /\ active' = NoOne /\ resetting' = resetting
      BY <1>4, <2>2, NoCandidate DEF NoPromotion
    <3>2. ~ Promote(q, a, tracked)
      BY <3>1 DEF Promote, Candidates
    <3> QED BY <2>2, <3>1, <3>2
  <2> QED BY <2>1, <2>2
<1> QED BY <1>3, <1>4

\* The ages the promotion step leaves are of their types.
LEMMA SettledAges ==
  ASSUME TypeOK, NEW q, NEW a, NEW tracked,
         Promote(q, a, tracked) \/ NoPromotion(q, a, tracked)
  PROVE  leaseAge' \in AgeUpTo(MaxSession) /\ idleAge' \in AgeUpTo(IdleTimeout)
BY LeaseQueueAssumption DEF TypeOK, AgeUpTo, Promote, NoPromotion

LEMMA OlderType ==
  ASSUME NEW limit \in Nat, NEW age \in AgeUpTo(limit)
  PROVE  Older(age, limit) \in AgeUpTo(limit)
BY DEF Older, AgeUpTo

\* The invariant holds at the start.
LEMMA InitInv == Init => Inv
<1> SUFFICES ASSUME Init PROVE Inv
  OBVIOUS
<1>1. DOMAIN << >> = {} /\ Range(<< >>) = {}
  BY DEF Range
<1>2. TypeOK
  BY <1>1, LeaseQueueAssumption DEF Init, TypeOK, Tracked, AgeUpTo
<1>3. NoLeakedSession /\ OnePlaceEach /\ NoIdleLease
  BY <1>1 DEF Init, NoLeakedSession, OnePlaceEach, NoIdleLease, Tracked,
              IsInjective
<1>4. FlagNeedsSocket
  BY <1>1 DEF Init, FlagNeedsSocket, Tracked
<1> QED BY <1>2, <1>3, <1>4 DEF Inv

\* A token that is not tracked is neither queued nor the controller.
LEMMA UntrackedIsNowhere ==
  ASSUME Inv, NEW t \in Token, t \notin Tracked
  PROVE  t \notin Range(queue) /\ t # active
BY LeaseQueueAssumption DEF Inv, NoLeakedSession

\* Appending a newcomer.
LEMMA Appended ==
  ASSUME Inv, NEW t \in Token, t \notin Tracked
  PROVE  /\ Append(queue, t) \in Seq(Token)
         /\ Append(queue, t) # << >>
         /\ IsInjective(Append(queue, t))
         /\ Range(Append(queue, t)) = Range(queue) \cup {t}
         /\ active \notin Range(Append(queue, t))
<1> DEFINE q == Append(queue, t)
<1>1. queue \in Seq(Token) /\ active \in Token \cup {NoOne}
  BY DEF Inv, TypeOK
<1>2. /\ q \in Seq(Token)
      /\ q # << >>
      /\ Len(queue) \in Nat
      /\ DOMAIN queue = 1 .. Len(queue)
      /\ DOMAIN q = 1 .. Len(queue) + 1
      /\ \A k \in 1 .. Len(queue) : q[k] = queue[k]
      /\ q[Len(queue) + 1] = t
  BY <1>1
<1> HIDE DEF q
<1>3. Range(q) = Range(queue) \cup {t}
  <2>1. \A k \in DOMAIN q : q[k] \in Range(queue) \cup {t}
    <3>1. \A k \in 1 .. Len(queue) : q[k] \in Range(queue)
      BY <1>2 DEF Range
    <3> QED BY <1>2, <3>1
  <2>2. \A x \in Range(queue) : x \in Range(q)
    <3> SUFFICES ASSUME NEW k \in 1 .. Len(queue) PROVE queue[k] \in Range(q)
      BY <1>2 DEF Range
    <3> QED BY <1>2 DEF Range
  <2>3. t \in Range(q)
    BY <1>2 DEF Range
  <2>4. \A x \in Range(q) : \E k \in DOMAIN q : x = q[k]
    BY DEF Range
  <2> QED BY <2>1, <2>2, <2>3, <2>4
<1>4. t \notin Range(queue) /\ t # active
  BY UntrackedIsNowhere
<1>5. IsInjective(q)
  <2>1. \A k \in 1 .. Len(queue) : queue[k] # t
    BY <1>2, <1>4 DEF Range
  <2>2. \A i, j \in 1 .. Len(queue) : queue[i] = queue[j] => i = j
    BY <1>2 DEF Inv, OnePlaceEach, IsInjective
  <2> QED BY <1>2, <2>1, <2>2 DEF IsInjective
<1>6. active \notin Range(q)
  BY <1>3, <1>4 DEF Inv, OnePlaceEach
<1> QED BY <1>2, <1>3, <1>5, <1>6 DEF q

LEMMA JoinInv ==
  ASSUME Inv, NEW t \in Token, NEW ip \in Ip, Join(t, ip)
  PROVE  Inv'
<1>1. t \notin Tracked /\ t \notin resetting
  BY DEF Join, Fresh
<1> DEFINE q == Append(queue, t)
<1>2. /\ q \in Seq(Token)
      /\ q # << >>
      /\ IsInjective(q)
      /\ Range(q) = Range(queue) \cup {t}
      /\ active \notin Range(q)
  BY <1>1, Appended
<1>3. /\ active \in Token \cup {NoOne}
      /\ Tracked \subseteq Token
      /\ Tracked = Range(queue) \cup ({active} \ {NoOne})
      /\ queue # << >> => active # NoOne
      /\ sessions \in [Tracked -> Session]
      /\ resetting \subseteq Token /\ unanswered \subseteq resetting
      /\ tickWaits \in resetting \cup {NoOne}
  BY DEF Inv, TypeOK, NoLeakedSession, NoIdleLease
<1>4. Promote(q, active, Tracked \cup {t})
        \/ NoPromotion(q, active, Tracked \cup {t})
  BY DEF Join
<1> HIDE DEF q
<1>5. Range(q) \subseteq Tracked \cup {t}
  BY <1>2, <1>3
<1>6. /\ queue' \in Seq(Token)
      /\ active' \in Token \cup {NoOne}
      /\ IsInjective(queue')
      /\ active' \notin Range(queue')
      /\ Range(queue') \cup ({active'} \ {NoOne})
           = Range(q) \cup ({active} \ {NoOne})
      /\ queue' # << >> => active' # NoOne
  BY <1>2, <1>3, <1>4, <1>5, Settled
<1>7. Promote(q, active, Tracked \cup {t}) =>
        active' = t /\ resetting' = resetting \cup {t}
  <2> SUFFICES ASSUME Promote(q, active, Tracked \cup {t})
               PROVE  active' = t /\ resetting' = resetting \cup {t}
    OBVIOUS
  <2>1. active = NoOne /\ queue = << >>
    BY <1>3 DEF Promote
  <2>2. q[1] = t
    BY <2>1 DEF q
  <2>3. FirstCandidate(q, Tracked \cup {t}) = 1
    BY <1>2, <1>5, FirstIsCandidate
  <2> QED BY <2>2, <2>3 DEF Promote
<1>8. sessions' = [x \in Tracked \cup {t} |->
                     IF x = t THEN NewSession(ip) ELSE sessions[x]]
  BY DEF Join, WithSession
<1>9. /\ Tracked' = Tracked \cup {t}
      /\ sessions'[t] = NewSession(ip)
      /\ \A x \in Tracked : sessions'[x] = sessions[x]
  BY <1>1, <1>8 DEF Tracked
<1>10. NewSession(ip) \in Session
  BY LeaseQueueAssumption DEF NewSession, Session, AgeUpTo
<1>11. TypeOK'
  <2>1. Tracked' \subseteq Token /\ sessions' \in [Tracked' -> Session]
    BY <1>3, <1>8, <1>9, <1>10
  <2>2. leaseAge' \in AgeUpTo(MaxSession) /\ idleAge' \in AgeUpTo(IdleTimeout)
    BY <1>4, SettledAges DEF Inv
  <2>3. joinAge' \in [Ip -> 0 .. JoinCooldown]
    BY LeaseQueueAssumption DEF Join, Inv, TypeOK
  <2>4. conns' \in [Token -> 0 .. MaxConns]
    BY DEF Join, Inv, TypeOK
  <2>5. /\ resetting' \subseteq Token
        /\ unanswered' \subseteq resetting'
        /\ tickWaits' \in resetting' \cup {NoOne}
    <3>1. CASE Promote(q, active, Tracked \cup {t}) /\ unanswered' = unanswered \cup {t}
      BY <1>3, <1>7, <3>1 DEF Join
    <3>2. CASE NoPromotion(q, active, Tracked \cup {t}) /\ unanswered' = unanswered
      BY <1>3, <3>2 DEF Join, NoPromotion
    <3> QED BY <3>1, <3>2 DEF Join, q
  <2> QED BY <1>6, <2>1, <2>2, <2>3, <2>4, <2>5 DEF TypeOK
<1>12. NoLeakedSession' /\ OnePlaceEach' /\ NoIdleLease'
  BY <1>2, <1>3, <1>6, <1>9 DEF NoLeakedSession, OnePlaceEach, NoIdleLease
<1>13. FlagNeedsSocket'
  <2>1. conns' = conns /\ ~ NewSession(ip).ws_connected
    BY DEF Join, NewSession
  <2> QED BY <1>9, <2>1 DEF Inv, FlagNeedsSocket
<1> QED BY <1>11, <1>12, <1>13 DEF Inv

\* What _drop_locked leaves, and the promotion after it, keep the invariant:
\* leave and _tick differ only in whom they drop.
LEMMA DropInv ==
  ASSUME Inv, NEW D,
         sessions' = Kept(D),
         \/ Promote(Without(queue, D), HolderAfter(D), Tracked \ D)
         \/ NoPromotion(Without(queue, D), HolderAfter(D), Tracked \ D),
         conns' = conns
  PROVE  /\ Tracked' \subseteq Token /\ sessions' \in [Tracked' -> Session]
         /\ queue' \in Seq(Token)
         /\ active' \in Token \cup {NoOne}
         /\ leaseAge' \in AgeUpTo(MaxSession)
         /\ idleAge' \in AgeUpTo(IdleTimeout)
         /\ resetting \subseteq resetting' /\ resetting' \subseteq Token
         /\ Promote(Without(queue, D), HolderAfter(D), Tracked \ D) =>
              active' \in resetting'
         /\ NoLeakedSession' /\ OnePlaceEach' /\ NoIdleLease' /\ FlagNeedsSocket'
<1> DEFINE q == Without(queue, D)
           a == HolderAfter(D)
<1>1. /\ queue \in Seq(Token) /\ IsInjective(queue)
      /\ active \in Token \cup {NoOne} /\ active \notin Range(queue)
      /\ Tracked = Range(queue) \cup ({active} \ {NoOne})
      /\ Tracked \subseteq Token /\ sessions \in [Tracked -> Session]
  BY DEF Inv, TypeOK, OnePlaceEach, NoLeakedSession
<1>2. /\ q \in Seq(Token)
      /\ Range(q) = Range(queue) \ D
      /\ IsInjective(q)
  BY <1>1, WithoutRange, WithoutInjective
<1>3. a \in Token \cup {NoOne} /\ a \notin Range(q)
      /\ {a} \ {NoOne} = ({active} \ {NoOne}) \ D
  BY <1>1, <1>2, LeaseQueueAssumption DEF HolderAfter
<1>4. Range(q) \subseteq Tracked \ D
  BY <1>1, <1>2
<1>5. Promote(q, a, Tracked \ D) \/ NoPromotion(q, a, Tracked \ D)
  OBVIOUS
<1> HIDE DEF q, a
<1>6. /\ queue' \in Seq(Token)
      /\ active' \in Token \cup {NoOne}
      /\ IsInjective(queue')
      /\ active' \notin Range(queue')
      /\ Range(queue') \cup ({active'} \ {NoOne}) = Range(q) \cup ({a} \ {NoOne})
      /\ queue' # << >> => active' # NoOne
      /\ resetting \subseteq resetting'
      /\ resetting' \subseteq resetting \cup Token
      /\ Promote(q, a, Tracked \ D) => active' \in resetting'
  BY <1>2, <1>3, <1>4, <1>5, Settled
<1>7. leaseAge' \in AgeUpTo(MaxSession) /\ idleAge' \in AgeUpTo(IdleTimeout)
  BY <1>5, SettledAges DEF Inv
<1>8. /\ Tracked' = Tracked \ D
      /\ \A x \in Tracked \ D : sessions'[x] = sessions[x]
      /\ sessions' \in [Tracked' -> Session]
  BY <1>1 DEF Kept, Restrict, Tracked
<1>9. NoLeakedSession' /\ OnePlaceEach' /\ NoIdleLease'
  BY <1>1, <1>2, <1>3, <1>6, <1>8 DEF NoLeakedSession, OnePlaceEach, NoIdleLease
<1>10. FlagNeedsSocket'
  BY <1>8 DEF Inv, FlagNeedsSocket
<1>11. resetting \subseteq Token
  BY DEF Inv, TypeOK
<1> QED BY <1>1, <1>6, <1>7, <1>8, <1>9, <1>10, <1>11 DEF q, a

LEMMA LeaveInv ==
  ASSUME Inv, NEW t \in Token, Leave(t)
  PROVE  Inv'
<1>1. /\ sessions' = Kept({t})
      /\ \/ Promote(Without(queue, {t}), HolderAfter({t}), Tracked \ {t})
         \/ NoPromotion(Without(queue, {t}), HolderAfter({t}), Tracked \ {t})
      /\ UNCHANGED << joinAge, conns, unanswered, tickWaits >>
  BY DEF Leave
<1>2. /\ Tracked' \subseteq Token /\ sessions' \in [Tracked' -> Session]
      /\ queue' \in Seq(Token)
      /\ active' \in Token \cup {NoOne}
      /\ leaseAge' \in AgeUpTo(MaxSession)
      /\ idleAge' \in AgeUpTo(IdleTimeout)
      /\ resetting \subseteq resetting' /\ resetting' \subseteq Token
      /\ NoLeakedSession' /\ OnePlaceEach' /\ NoIdleLease' /\ FlagNeedsSocket'
  BY <1>1, DropInv
<1>3. /\ joinAge' \in [Ip -> 0 .. JoinCooldown]
      /\ conns' \in [Token -> 0 .. MaxConns]
      /\ unanswered' \subseteq resetting'
      /\ tickWaits' \in resetting' \cup {NoOne}
  BY <1>1, <1>2 DEF Inv, TypeOK
<1> QED BY <1>2, <1>3 DEF Inv, TypeOK

LEMMA TickInv ==
  ASSUME Inv, Tick
  PROVE  Inv'
<1> DEFINE D == Released \cup Stale
<1>1. /\ sessions' = Kept(D)
      /\ \/ /\ Promote(Without(queue, D), HolderAfter(D), Tracked \ D)
            /\ tickWaits' = active'
         \/ /\ NoPromotion(Without(queue, D), HolderAfter(D), Tracked \ D)
            /\ tickWaits' = tickWaits
      /\ UNCHANGED << joinAge, conns, unanswered >>
  BY DEF Tick
<1> HIDE DEF D
<1>2. /\ Tracked' \subseteq Token /\ sessions' \in [Tracked' -> Session]
      /\ queue' \in Seq(Token)
      /\ active' \in Token \cup {NoOne}
      /\ leaseAge' \in AgeUpTo(MaxSession)
      /\ idleAge' \in AgeUpTo(IdleTimeout)
      /\ resetting \subseteq resetting' /\ resetting' \subseteq Token
      /\ Promote(Without(queue, D), HolderAfter(D), Tracked \ D) =>
           active' \in resetting'
      /\ NoLeakedSession' /\ OnePlaceEach' /\ NoIdleLease' /\ FlagNeedsSocket'
  BY <1>1, DropInv
<1>3. /\ joinAge' \in [Ip -> 0 .. JoinCooldown]
      /\ conns' \in [Token -> 0 .. MaxConns]
      /\ unanswered' \subseteq resetting'
      /\ tickWaits' \in resetting' \cup {NoOne}
  BY <1>1, <1>2 DEF Inv, TypeOK
<1> QED BY <1>2, <1>3 DEF Inv, TypeOK

\* Replacing the sessions of tracked tokens by others leaves the parts of the
\* invariant alone that speak of places and of the lease.
LEMMA SamePlaces ==
  ASSUME Inv, Tracked' = Tracked, queue' = queue, active' = active
  PROVE  /\ NoLeakedSession' /\ OnePlaceEach' /\ NoIdleLease'
         /\ Tracked' \subseteq Token
         /\ queue' \in Seq(Token)
         /\ active' \in Token \cup {NoOne}
BY DEF Inv, TypeOK, NoLeakedSession, OnePlaceEach, NoIdleLease

LEMMA RejoinInv ==
  ASSUME Inv, NEW t \in Token, NEW ip \in Ip, Rejoin(t, ip)
  PROVE  Inv'
<1>1. /\ t \in Tracked
      /\ sessions' = [sessions EXCEPT ![t].ip = ip, ![t].seen = 0]
      /\ UNCHANGED << queue, active, leaseAge, idleAge, joinAge, conns,
                      resetting, unanswered, tickWaits >>
  BY DEF Rejoin, Known
<1>2. sessions \in [Tracked -> Session] /\ 0 \in AgeUpTo(WsGrace)
  BY LeaseQueueAssumption DEF Inv, TypeOK, AgeUpTo
<1>3. Tracked' = Tracked /\ sessions' \in [Tracked -> Session]
  <2>1. sessions[t] \in Session
    BY <1>1, <1>2
  <2>2. [[sessions[t] EXCEPT !.ip = ip] EXCEPT !.seen = 0] \in Session
    BY <1>2, <2>1 DEF Session
  <2> QED BY <1>1, <1>2, <2>2 DEF Tracked
<1>4. \A x \in Tracked : sessions'[x].ws_connected = sessions[x].ws_connected
  BY <1>1, <1>2 DEF Session
<1>5. FlagNeedsSocket'
  BY <1>1, <1>3, <1>4 DEF Inv, FlagNeedsSocket
<1>6. TypeOK'
  BY <1>1, <1>3, SamePlaces DEF Inv, TypeOK
<1> QED BY <1>1, <1>3, <1>5, <1>6, SamePlaces DEF Inv

LEMMA MarkCommandInv ==
  ASSUME Inv, NEW t \in Token, MarkCommand(t)
  PROVE  Inv'
<1>1. /\ idleAge' = 0
      /\ UNCHANGED << sessions, queue, active, leaseAge, joinAge, conns,
                      resetting, unanswered, tickWaits >>
  BY DEF MarkCommand
<1>2. Tracked' = Tracked /\ 0 \in AgeUpTo(IdleTimeout)
  BY <1>1, LeaseQueueAssumption DEF Tracked, AgeUpTo
<1>3. FlagNeedsSocket'
  BY <1>1, <1>2 DEF Inv, FlagNeedsSocket
<1>4. TypeOK'
  BY <1>1, <1>2 DEF Inv, TypeOK
<1> QED BY <1>1, <1>2, <1>3, <1>4, SamePlaces DEF Inv

\* mark_ws_connected moves nothing but one session's flag and stamp.
LEMMA Marked ==
  ASSUME Inv, NEW t \in Token, NEW b \in BOOLEAN, MarkWsConnected(t, b)
  PROVE  /\ Tracked' = Tracked
         /\ sessions' \in [Tracked -> Session]
         /\ \A x \in Tracked : sessions'[x].ws_connected =
              IF x = t THEN b ELSE sessions[x].ws_connected
<1>1. sessions \in [Tracked -> Session] /\ 0 \in AgeUpTo(WsGrace)
  BY LeaseQueueAssumption DEF Inv, TypeOK, AgeUpTo
<1>2. CASE t \in Tracked
  <2>1. sessions' = [sessions EXCEPT ![t].ws_connected = b, ![t].seen = 0]
    BY <1>2 DEF MarkWsConnected
  <2>2. sessions[t] \in Session
    BY <1>1, <1>2
  <2>3. [[sessions[t] EXCEPT !.ws_connected = b] EXCEPT !.seen = 0] \in Session
    BY <1>1, <2>2 DEF Session
  <2>4. Tracked' = Tracked /\ sessions' \in [Tracked -> Session]
    BY <1>1, <1>2, <2>1, <2>3 DEF Tracked
  <2>5. \A x \in Tracked : sessions'[x].ws_connected =
          IF x = t THEN b ELSE sessions[x].ws_connected
    BY <1>1, <1>2, <2>1, <2>2 DEF Session
  <2> QED BY <2>4, <2>5
<1>3. CASE t \notin Tracked
  BY <1>1, <1>3 DEF MarkWsConnected, Tracked
<1> QED BY <1>2, <1>3

LEMMA WsOpenInv ==
  ASSUME Inv, NEW t \in Token, WsOpen(t)
  PROVE  Inv'
<1>1. /\ conns[t] < MaxConns
      /\ conns' = [conns EXCEPT ![t] = conns[t] + 1]
      /\ MarkWsConnected(t, TRUE)
      /\ UNCHANGED << queue, active, leaseAge, idleAge, joinAge, resetting,
                      unanswered, tickWaits >>
  BY DEF WsOpen
<1>2. /\ Tracked' = Tracked
      /\ sessions' \in [Tracked -> Session]
      /\ \A x \in Tracked : sessions'[x].ws_connected =
           IF x = t THEN TRUE ELSE sessions[x].ws_connected
  BY <1>1, Marked
<1>3. conns \in [Token -> 0 .. MaxConns] /\ MaxConns \in Nat
  BY LeaseQueueAssumption DEF Inv, TypeOK
<1>4. conns' \in [Token -> 0 .. MaxConns]
  BY <1>1, <1>3
<1>5. FlagNeedsSocket'
  <2> SUFFICES ASSUME NEW x \in Tracked, sessions'[x].ws_connected
               PROVE  conns'[x] > 0
    BY <1>2 DEF FlagNeedsSocket
  <2>1. x \in Token
    BY DEF Inv, TypeOK
  <2>2. CASE x = t
    BY <1>1, <1>3, <2>2
  <2>3. CASE x # t
    BY <1>1, <1>2, <1>3, <2>1, <2>3 DEF Inv, FlagNeedsSocket
  <2> QED BY <2>2, <2>3
<1>6. TypeOK'
  BY <1>1, <1>2, <1>4, SamePlaces DEF Inv, TypeOK
<1> QED BY <1>1, <1>2, <1>5, <1>6, SamePlaces DEF Inv

\* The finally clause lowers the flag, so it may take the last socket away.
LEMMA WsCloseInv ==
  ASSUME Inv, NEW t \in Token, WsClose(t)
  PROVE  Inv'
<1>1. /\ conns[t] > 0
      /\ conns' = [conns EXCEPT ![t] = conns[t] - 1]
      /\ MarkWsConnected(t, FALSE)
      /\ UNCHANGED << queue, active, leaseAge, idleAge, joinAge, resetting,
                      unanswered, tickWaits >>
  BY DEF WsClose
<1>2. /\ Tracked' = Tracked
      /\ sessions' \in [Tracked -> Session]
      /\ \A x \in Tracked : sessions'[x].ws_connected =
           IF x = t THEN FALSE ELSE sessions[x].ws_connected
  BY <1>1, Marked
<1>3. conns \in [Token -> 0 .. MaxConns] /\ MaxConns \in Nat
  BY LeaseQueueAssumption DEF Inv, TypeOK
<1>4. conns' \in [Token -> 0 .. MaxConns]
  BY <1>1, <1>3
<1>5. FlagNeedsSocket'
  <2> SUFFICES ASSUME NEW x \in Tracked, sessions'[x].ws_connected
               PROVE  conns'[x] > 0
    BY <1>2 DEF FlagNeedsSocket
  <2>1. x \in Token /\ x # t
    BY <1>2 DEF Inv, TypeOK
  <2> QED BY <1>1, <1>2, <1>3, <2>1 DEF Inv, FlagNeedsSocket
<1>6. TypeOK'
  BY <1>1, <1>2, <1>4, SamePlaces DEF Inv, TypeOK
<1> QED BY <1>1, <1>2, <1>5, <1>6, SamePlaces DEF Inv

LEMMA CallbackDoneInv ==
  ASSUME Inv, NEW t \in Token, CallbackDone(t)
  PROVE  Inv'
<1>1. /\ resetting' = resetting \ {t}
      /\ unanswered' = unanswered \ {t}
      /\ tickWaits' = IF tickWaits = t THEN NoOne ELSE tickWaits
      /\ UNCHANGED << sessions, queue, active, leaseAge, idleAge, joinAge, conns >>
  BY DEF CallbackDone
<1>2. Tracked' = Tracked
  BY <1>1 DEF Tracked
<1>3. /\ resetting' \subseteq Token
      /\ unanswered' \subseteq resetting'
      /\ tickWaits' \in resetting' \cup {NoOne}
  BY <1>1 DEF Inv, TypeOK
<1>4. TypeOK'
  BY <1>1, <1>2, <1>3 DEF Inv, TypeOK
<1>5. FlagNeedsSocket'
  BY <1>1, <1>2 DEF Inv, FlagNeedsSocket
<1> QED BY <1>1, <1>2, <1>4, <1>5, SamePlaces DEF Inv

LEMMA ElapseInv ==
  ASSUME Inv, Elapse
  PROVE  Inv'
<1> DEFINE aged(x) == [sessions[x] EXCEPT !.seen = Older(@, WsGrace),
                                          !.joined = Older(@, WsGrace)]
<1>1. /\ sessions' = [x \in Tracked |-> aged(x)]
      /\ UNCHANGED << queue, active, conns, resetting, unanswered, tickWaits >>
  BY DEF Elapse
<1>2. /\ sessions \in [Tracked -> Session] /\ Tracked \subseteq Token
      /\ leaseAge \in AgeUpTo(MaxSession) /\ idleAge \in AgeUpTo(IdleTimeout)
      /\ joinAge \in [Ip -> 0 .. JoinCooldown]
      /\ MaxSession \in Nat /\ IdleTimeout \in Nat /\ WsGrace \in Nat
      /\ JoinCooldown \in Nat
  BY LeaseQueueAssumption DEF Inv, TypeOK
<1>3. \A x \in Tracked : /\ aged(x) \in Session
                         /\ aged(x).ws_connected = sessions[x].ws_connected
  <2> SUFFICES ASSUME NEW x \in Tracked
               PROVE  /\ aged(x) \in Session
                      /\ aged(x).ws_connected = sessions[x].ws_connected
    OBVIOUS
  <2>1. /\ sessions[x] \in Session
        /\ sessions[x].seen \in AgeUpTo(WsGrace)
        /\ sessions[x].joined \in AgeUpTo(WsGrace)
    BY <1>2 DEF Session
  <2>2. /\ Older(sessions[x].seen, WsGrace) \in AgeUpTo(WsGrace)
        /\ Older(sessions[x].joined, WsGrace) \in AgeUpTo(WsGrace)
    BY <1>2, <2>1, OlderType
  <2> QED BY <2>1, <2>2 DEF Session
<1> HIDE DEF aged
<1>4. /\ Tracked' = Tracked
      /\ sessions' \in [Tracked -> Session]
      /\ \A x \in Tracked : sessions'[x].ws_connected = sessions[x].ws_connected
  BY <1>1, <1>3 DEF Tracked
<1>5. leaseAge' \in AgeUpTo(MaxSession) /\ idleAge' \in AgeUpTo(IdleTimeout)
  BY <1>2, OlderType DEF Elapse
<1>6. joinAge' \in [Ip -> 0 .. JoinCooldown]
  <2>1. joinAge' = [ip \in Ip |-> IF joinAge[ip] < JoinCooldown
                                  THEN joinAge[ip] + 1 ELSE joinAge[ip]]
    BY DEF Elapse
  <2>2. \A ip \in Ip : joinAge[ip] \in 0 .. JoinCooldown
    BY <1>2
  <2> QED BY <1>2, <2>1, <2>2
<1>7. FlagNeedsSocket'
  BY <1>1, <1>4 DEF Inv, FlagNeedsSocket
<1>8. TypeOK'
  BY <1>1, <1>4, <1>5, <1>6, SamePlaces DEF Inv, TypeOK
<1> QED BY <1>1, <1>4, <1>7, <1>8, SamePlaces DEF Inv

\* Every step keeps the invariant.
LEMMA NextInv == Inv /\ [Next]_vars => Inv'
<1> SUFFICES ASSUME Inv, [Next]_vars PROVE Inv'
  OBVIOUS
<1>1. ASSUME NEW t \in Token, NEW ip \in Ip, Join(t, ip) PROVE Inv'
  BY <1>1, JoinInv
<1>2. ASSUME NEW t \in Token, NEW ip \in Ip, Rejoin(t, ip) PROVE Inv'
  BY <1>2, RejoinInv
<1>3. ASSUME NEW t \in Token, Leave(t) PROVE Inv'
  BY <1>3, LeaveInv
<1>4. ASSUME NEW t \in Token, MarkCommand(t) PROVE Inv'
  BY <1>4, MarkCommandInv
<1>5. ASSUME NEW t \in Token, WsOpen(t) PROVE Inv'
  BY <1>5, WsOpenInv
<1>6. ASSUME NEW t \in Token, WsClose(t) PROVE Inv'
  BY <1>6, WsCloseInv
<1>7. ASSUME NEW t \in Token, CallbackDone(t) PROVE Inv'
  BY <1>7, CallbackDoneInv
<1>8. CASE Tick
  BY <1>8, TickInv
<1>9. CASE Elapse
  BY <1>9, ElapseInv
<1>10. CASE UNCHANGED vars
  BY <1>10 DEF vars, Inv, TypeOK, NoLeakedSession, OnePlaceEach, NoIdleLease,
               FlagNeedsSocket, Tracked
<1> QED
  BY <1>1, <1>2, <1>3, <1>4, <1>5, <1>6, <1>7, <1>8, <1>9, <1>10
     DEF Next, ClientStep

\* The invariant holds in every reachable state, for any number of users and
\* addresses and any limits.
THEOREM InvHolds == Spec => []Inv
<1>1. Init => Inv
  BY InitInv
<1>2. Inv /\ [Next]_vars => Inv'
  BY NextInv
<1> QED BY <1>1, <1>2, PTL DEF Spec

\* The queue's state keeps its types.
THEOREM TypeCorrect == Spec => []TypeOK
<1>1. Inv => TypeOK
  BY DEF Inv
<1> QED BY <1>1, InvHolds, PTL

\* No session is left behind by a path that drops a token: _sessions is
\* exactly the queue and the controller.
THEOREM NothingLeaks == Spec => []NoLeakedSession
<1>1. Inv => NoLeakedSession
  BY DEF Inv
<1> QED BY <1>1, InvHolds, PTL

\* Nobody is in the queue twice, and the controller is not in it.
THEOREM PlacesAreUnique == Spec => []OnePlaceEach
<1>1. Inv => OnePlaceEach
  BY DEF Inv
<1> QED BY <1>1, InvHolds, PTL

\* The lease is not free while somebody waits.
THEOREM LeaseIsTaken == Spec => []NoIdleLease
<1>1. Inv => NoIdleLease
  BY DEF Inv
<1> QED BY <1>1, InvHolds, PTL

\* ws_connected is never up for a token without an open /ws/queue.
THEOREM FlagIsBacked == Spec => []FlagNeedsSocket
<1>1. Inv => FlagNeedsSocket
  BY DEF Inv
<1> QED BY <1>1, InvHolds, PTL

-----------------------------------------------------------------------------
(* What a step of the control queue may do: every step is one of the       *)
(* abstract lease or leaves it alone, and from that follow the order in    *)
(* which users are served and the reasons for which the lease is lost.     *)

\* INSTANCE gives the abstract module copies of the sequence operators.
LEMMA SameOperators ==
  /\ \A s : Abstract!Range(s) = Range(s)
  /\ \A s, D : Abstract!Without(s, D) = Without(s, D)
BY DEF Abstract!Range, Range, Abstract!Without, Without, Abstract!KeepNext,
       KeepNext

\* A promotion from tracked users takes the head of the queue.
LEMMA PromotesHead ==
  ASSUME NEW q \in Seq(Token), NEW a, NEW tracked, Range(q) \subseteq tracked,
         Promote(q, a, tracked)
  PROVE  a = NoOne /\ q # << >> /\ active' = Head(q) /\ queue' = Tail(q)
<1>1. a = NoOne /\ q # << >>
  BY DEF Promote, Candidates
<1>2. active' = q[1] /\ queue' = SubSeq(q, 2, Len(q))
  BY <1>1, FirstIsCandidate DEF Promote
<1> QED BY <1>1, <1>2

\* A newcomer's join is its entry to the abstract line.
LEMMA JoinEnters ==
  ASSUME Inv, NEW t \in Token, NEW ip \in Ip, Join(t, ip)
  PROVE  Abstract!Enter(t)
<1> DEFINE q == Append(queue, t)
<1>1. t \notin Tracked
  BY DEF Join, Fresh
<1>2. t # active /\ t \notin Range(queue)
  BY <1>1, UntrackedIsNowhere
<1>3. /\ q \in Seq(Token) /\ q # << >>
      /\ Range(q) = Range(queue) \cup {t}
  BY <1>1, Appended
<1>4. /\ Range(q) \subseteq Tracked \cup {t}
      /\ queue # << >> => active # NoOne
      /\ queue \in Seq(Token)
  BY <1>3 DEF Inv, TypeOK, NoLeakedSession, NoIdleLease
<1> HIDE DEF q
<1>5. CASE Promote(q, active, Tracked \cup {t})
  <2>1. active = NoOne /\ active' = Head(q) /\ queue' = Tail(q)
    BY <1>3, <1>4, <1>5, PromotesHead
  <2>2. queue = << >>
    BY <1>4, <2>1
  <2>3. Head(q) = t /\ Tail(q) = << >>
    BY <2>2 DEF q
  <2> QED BY <1>2, <2>1, <2>2, <2>3, SameOperators DEF Abstract!Enter
<1>6. CASE NoPromotion(q, active, Tracked \cup {t})
  <2>1. active # NoOne
    BY <1>3, <1>4, <1>6, NoCandidate DEF NoPromotion
  <2>2. active' = active /\ queue' = Append(queue, t)
    BY <1>6, <2>1 DEF NoPromotion, q
  <2> QED BY <1>2, <2>1, <2>2, SameOperators DEF Abstract!Enter
<1>7. Promote(q, active, Tracked \cup {t})
        \/ NoPromotion(q, active, Tracked \cup {t})
  BY DEF Join, q
<1> QED BY <1>5, <1>6, <1>7

\* Dropping D and promoting is the departure of D from the abstract lease.
LEMMA DropDeparts ==
  ASSUME Inv, NEW D,
         \/ Promote(Without(queue, D), HolderAfter(D), Tracked \ D)
         \/ NoPromotion(Without(queue, D), HolderAfter(D), Tracked \ D)
  PROVE  Abstract!Depart(D)
<1> DEFINE left == Without(queue, D)
           a == HolderAfter(D)
<1>1. /\ queue \in Seq(Token)
      /\ queue # << >> => active # NoOne
      /\ Range(queue) \subseteq Tracked
  BY DEF Inv, TypeOK, NoLeakedSession, NoIdleLease
<1>2. /\ left \in Seq(Token)
      /\ Range(left) = Range(queue) \ D
      /\ Len(left) <= Len(queue)
  BY <1>1, WithoutRange
<1>3. Range(left) \subseteq Tracked \ D
  BY <1>1, <1>2
<1>4. queue = << >> => left = << >>
  BY <1>1, <1>2
<1>5. a = IF active \in D THEN NoOne ELSE active
  BY DEF HolderAfter
<1>6. Promote(left, a, Tracked \ D) \/ NoPromotion(left, a, Tracked \ D)
  OBVIOUS
<1> HIDE DEF left, a
<1>7. CASE Promote(left, a, Tracked \ D)
  <2>1. a = NoOne /\ left # << >> /\ active' = Head(left) /\ queue' = Tail(left)
    BY <1>2, <1>3, <1>7, PromotesHead
  <2>2. active \in D
    BY <1>1, <1>4, <1>5, <2>1
  <2>3. Abstract!Without(queue, D) = left
    BY SameOperators DEF left
  <2> QED BY <2>1, <2>2, <2>3 DEF Abstract!Depart
<1>8. CASE NoPromotion(left, a, Tracked \ D)
  <2>1. CASE a # NoOne
    <3>1. active \notin D /\ active' = active /\ queue' = left
      BY <1>5, <1>8, <2>1 DEF NoPromotion
    <3> QED BY <3>1, SameOperators DEF Abstract!Depart, left
  <2>2. CASE a = NoOne
    <3>1. left = << >> /\ active' = NoOne /\ queue' = << >>
      BY <1>2, <1>3, <1>8, <2>2, NoCandidate DEF NoPromotion
    <3> QED BY <1>5, <2>2, <3>1, SameOperators DEF Abstract!Depart, left
  <2> QED BY <2>1, <2>2
<1> QED BY <1>6, <1>7, <1>8

\* Each step of the queue is a step of the abstract lease or leaves it alone.
LEMMA StepRefines ==
  ASSUME Inv, [Next]_vars
  PROVE  [Abstract!FNext]_(Abstract!fvars)
<1>1. ASSUME NEW t \in Token, NEW ip \in Ip, Join(t, ip)
      PROVE  Abstract!FNext
  BY <1>1, JoinEnters DEF Abstract!FNext
<1>2. ASSUME NEW t \in Token, Leave(t) PROVE Abstract!FNext
  <2>1. Abstract!Depart({t})
    BY <1>2, DropDeparts DEF Leave
  <2> QED BY <2>1 DEF Abstract!FNext
<1>3. CASE Tick
  <2> DEFINE D == Released \cup Stale
  <2>1. D \in SUBSET Token
    BY DEF Released, Stale, Inv, TypeOK, Range
  <2>2. \/ Promote(Without(queue, D), HolderAfter(D), Tracked \ D)
        \/ NoPromotion(Without(queue, D), HolderAfter(D), Tracked \ D)
    BY <1>3 DEF Tick
  <2> HIDE DEF D
  <2>3. Abstract!Depart(D)
    BY <2>2, DropDeparts
  <2> QED BY <2>1, <2>3 DEF Abstract!FNext
<1>4. ASSUME NEW t \in Token, NEW ip \in Ip, Rejoin(t, ip)
      PROVE  UNCHANGED << active, queue >>
  BY <1>4 DEF Rejoin
<1>5. ASSUME NEW t \in Token, \/ MarkCommand(t) \/ WsOpen(t) \/ WsClose(t)
                              \/ CallbackDone(t)
      PROVE  UNCHANGED << active, queue >>
  BY <1>5 DEF MarkCommand, WsOpen, WsClose, CallbackDone
<1>6. CASE Elapse \/ UNCHANGED vars
  BY <1>6 DEF Elapse, vars, Abstract!fvars
<1> QED
  BY <1>1, <1>2, <1>3, <1>4, <1>5, <1>6 DEF Next, ClientStep, Abstract!fvars

\* The queue implements the abstract first-come-first-served lease: it starts
\* as one, and every operation is somebody entering, or some users departing
\* with the lease handed on in the same step, or invisible to it.  (That the
\* holder goes in the end is liveness and is left to TLC.)
THEOREM LeaseRefinement ==
  Spec => Abstract!FInit /\ [][Abstract!FNext]_(Abstract!fvars)
<1>1. Init => Abstract!FInit
  BY DEF Init, Abstract!FInit
<1>2. Inv /\ [Next]_vars => [Abstract!FNext]_(Abstract!fvars)
  BY StepRefines
<1> QED BY <1>1, <1>2, InvHolds, PTL DEF Spec

-----------------------------------------------------------------------------
\* The tail of a queue without duplicates keeps the order of what it keeps ...
LEMMA TailKeepsOrder ==
  ASSUME NEW q \in Seq(Token), IsInjective(q), q # << >>,
         NEW x, NEW y, Precedes(q, x, y)
  PROVE  /\ {x, y} \subseteq Range(Tail(q)) => Precedes(Tail(q), x, y)
         /\ y # Head(q)
<1>1. /\ Len(q) \in Nat /\ Len(q) # 0 /\ DOMAIN q = 1 .. Len(q)
      /\ DOMAIN Tail(q) = 1 .. Len(q) - 1
      /\ \A k \in 1 .. Len(q) - 1 : Tail(q)[k] = q[k + 1]
      /\ Head(q) = q[1]
  OBVIOUS
<1>2. \A i, j \in 1 .. Len(q) : q[i] = q[j] => i = j
  BY <1>1 DEF IsInjective
<1>3. PICK i \in 1 .. Len(q), j \in 1 .. Len(q) : i < j /\ q[i] = x /\ q[j] = y
  BY <1>1 DEF Precedes
<1>4. y # Head(q)
  BY <1>1, <1>2, <1>3
<1>5. ASSUME x \in Range(Tail(q)) PROVE Precedes(Tail(q), x, y)
  <2>1. PICK k \in 1 .. Len(q) - 1 : q[k + 1] = x
    BY <1>1, <1>5 DEF Range
  <2>2. i = k + 1
    BY <1>1, <1>2, <1>3, <2>1
  <2>3. /\ i - 1 \in DOMAIN Tail(q) /\ j - 1 \in DOMAIN Tail(q)
        /\ i - 1 < j - 1
        /\ Tail(q)[i - 1] = x /\ Tail(q)[j - 1] = y
    BY <1>1, <1>3, <2>2
  <2> QED BY <2>3 DEF Precedes
<1> QED BY <1>4, <1>5

\* ... and so does appending.
LEMMA AppendKeepsOrder ==
  ASSUME NEW q \in Seq(Token), NEW t, NEW x, NEW y, Precedes(q, x, y)
  PROVE  Precedes(Append(q, t), x, y)
<1>1. /\ Len(q) \in Nat /\ DOMAIN q = 1 .. Len(q)
      /\ DOMAIN Append(q, t) = 1 .. Len(q) + 1
      /\ \A k \in 1 .. Len(q) : Append(q, t)[k] = q[k]
  OBVIOUS
<1>2. PICK i \in 1 .. Len(q), j \in 1 .. Len(q) : i < j /\ q[i] = x /\ q[j] = y
  BY <1>1 DEF Precedes
<1> QED BY <1>1, <1>2 DEF Precedes

\* In an injective queue nobody stands before themselves, and the pair named by
\* Precedes is in the queue.
LEMMA PrecedesInside ==
  ASSUME NEW q \in Seq(Token), IsInjective(q), NEW x, NEW y, Precedes(q, x, y)
  PROVE  x \in Range(q) /\ y \in Range(q) /\ x # y
<1>1. PICK i \in DOMAIN q, j \in DOMAIN q : i < j /\ q[i] = x /\ q[j] = y
  BY DEF Precedes
<1>2. i \in Nat /\ j \in Nat /\ i # j
  BY <1>1
<1> QED BY <1>1, <1>2 DEF Range, IsInjective

\* A step of the abstract lease serves the line in order.
LEMMA FNextInOrder ==
  ASSUME Inv, Inv', Abstract!FNext, NEW x \in Token, NEW y \in Token,
         Precedes(queue, x, y)
  PROVE  /\ {x, y} \subseteq Range(queue') => Precedes(queue', x, y)
         /\ active' = y => x \notin Tracked'
<1>1. /\ queue \in Seq(Token) /\ IsInjective(queue)
      /\ active \notin Range(queue)
      /\ Tracked' = Range(queue') \cup ({active'} \ {NoOne})
      /\ NoOne \notin Token
  BY LeaseQueueAssumption DEF Inv, TypeOK, OnePlaceEach, NoLeakedSession
<1>2. x \in Range(queue) /\ y \in Range(queue) /\ x # y
  BY <1>1, PrecedesInside
<1>3. ASSUME NEW t \in Token, Abstract!Enter(t)
      PROVE  /\ {x, y} \subseteq Range(queue') => Precedes(queue', x, y)
             /\ active' # y
  <2>1. t \notin Range(queue) /\ active' \in {t, active}
    BY <1>3, SameOperators DEF Abstract!Enter
  <2>2. queue' = queue \/ queue' = Append(queue, t)
    BY <1>3 DEF Abstract!Enter
  <2>3. Precedes(queue', x, y)
    BY <1>1, <2>2, AppendKeepsOrder
  <2> QED BY <1>1, <1>2, <2>1, <2>3
<1>4. ASSUME NEW D, Abstract!Depart(D)
      PROVE  /\ {x, y} \subseteq Range(queue') => Precedes(queue', x, y)
             /\ active' = y => x \notin Tracked'
  <2> DEFINE left == Without(queue, D)
  <2>1. \/ active' = active /\ queue' = left
        \/ active' = NoOne /\ queue' = << >>
        \/ left # << >> /\ active' = Head(left) /\ queue' = Tail(left)
    BY <1>4, SameOperators DEF Abstract!Depart
  <2>2. /\ left \in Seq(Token) /\ IsInjective(left)
        /\ Range(left) = Range(queue) \ D
    BY <1>1, WithoutRange, WithoutInjective
  <2>3. x \notin D /\ y \notin D => Precedes(left, x, y)
    BY <1>1, WithoutKeepsOrder
  <2> HIDE DEF left
  <2>4. CASE active' = active /\ queue' = left
    BY <1>1, <1>2, <2>2, <2>3, <2>4
  <2>5. CASE active' = NoOne /\ queue' = << >>
    BY <1>1, <2>5 DEF Range
  <2>6. CASE left # << >> /\ active' = Head(left) /\ queue' = Tail(left)
    <3>1. Range(Tail(left)) \subseteq Range(left) /\ Head(left) \in Range(left)
      BY <2>2, <2>6 DEF Range
    <3>2. {x, y} \subseteq Range(left) => Precedes(left, x, y)
      BY <2>2, <2>3
    <3>3. {x, y} \subseteq Range(queue') => Precedes(queue', x, y)
      BY <2>2, <2>6, <3>1, <3>2, TailKeepsOrder
    <3>4. active' = y => x \notin Tracked'
      BY <1>1, <1>2, <2>2, <2>6, <3>1, <3>2, TailKeepsOrder
    <3> QED BY <3>3, <3>4
  <2> QED BY <2>1, <2>4, <2>5, <2>6
<1> QED BY <1>2, <1>3, <1>4 DEF Abstract!FNext

\* First come, first served: whatever joins, leaves and turns of the tick loop
\* do, those who stay keep their order and nobody is promoted past another.
THEOREM ServedInOrder == Spec => FirstComeFirstServed
<1> DEFINE InOrder ==
      \A x, y \in Token :
        Precedes(queue, x, y) =>
          /\ {x, y} \subseteq Range(queue') => Precedes(queue', x, y)
          /\ active' = y => x \notin Tracked'
<1>1. Inv /\ Inv' /\ [Next]_vars => [InOrder]_vars
  <2> SUFFICES ASSUME Inv, Inv', [Next]_vars PROVE [InOrder]_vars
    OBVIOUS
  <2>1. [Abstract!FNext]_(Abstract!fvars)
    BY StepRefines
  <2>2. CASE Abstract!FNext
    BY <2>2, FNextInOrder
  <2>3. CASE UNCHANGED << active, queue >>
    <3> SUFFICES ASSUME NEW x \in Token, NEW y \in Token, Precedes(queue, x, y)
                 PROVE  /\ {x, y} \subseteq Range(queue') => Precedes(queue', x, y)
                        /\ active' = y => x \notin Tracked'
      OBVIOUS
    <3>1. y \in Range(queue) /\ active \notin Range(queue)
      BY PrecedesInside DEF Inv, TypeOK, OnePlaceEach
    <3> QED BY <2>3, <3>1
  <2> QED BY <2>1, <2>2, <2>3 DEF Abstract!fvars
<1> HIDE DEF InOrder
<1>2. Spec => [][InOrder]_vars
  BY <1>1, InvHolds, PTL DEF Spec
<1> QED BY <1>2 DEF InOrder, FirstComeFirstServed

-----------------------------------------------------------------------------
\* The promotion step does not touch a lease that is held.
LEMMA HeldIsKept ==
  ASSUME NEW q, NEW a, NEW tracked, a # NoOne,
         Promote(q, a, tracked) \/ NoPromotion(q, a, tracked)
  PROVE  active' = a
BY DEF Promote, NoPromotion

\* A controller loses the lease only to the hard cap, to idleness, by leaving,
\* or after its WebSocket has been marked down for longer than the grace period.
THEOREM LostOnlyForCause == Spec => LostForCause
<1> DEFINE ForCause ==
      \A t \in Tracked :
        (active = t /\ active' # t) =>
          \/ leaseAge > MaxSession
          \/ idleAge > IdleTimeout
          \/ Leave(t)
          \/ ~sessions[t].ws_connected /\ sessions[t].seen > WsGrace
<1>1. Inv /\ [Next]_vars => [ForCause]_vars
  <2> SUFFICES ASSUME Inv, [Next]_vars, NEW t \in Tracked,
                      active = t, active' # t
               PROVE  \/ leaseAge > MaxSession
                      \/ idleAge > IdleTimeout
                      \/ Leave(t)
                      \/ ~sessions[t].ws_connected /\ sessions[t].seen > WsGrace
    OBVIOUS
  <2>1. t \in Token /\ active # NoOne /\ active \notin Range(queue)
    BY LeaseQueueAssumption DEF Inv, TypeOK, OnePlaceEach
  <2>2. ASSUME NEW u \in Token, NEW ip \in Ip, Join(u, ip) PROVE FALSE
    BY <2>1, <2>2, HeldIsKept DEF Join
  <2>3. ASSUME NEW u \in Token, Leave(u) PROVE Leave(t)
    <3>1. CASE u = t
      BY <2>3, <3>1
    <3>2. CASE u # t
      <4>1. HolderAfter({u}) = active
        BY <3>2 DEF HolderAfter
      <4> QED BY <2>1, <2>3, <4>1, HeldIsKept DEF Leave
    <3> QED BY <3>1, <3>2
  <2>4. CASE Tick
    <3> DEFINE D == Released \cup Stale
    <3>1. \/ Promote(Without(queue, D), HolderAfter(D), Tracked \ D)
          \/ NoPromotion(Without(queue, D), HolderAfter(D), Tracked \ D)
      BY <2>4 DEF Tick
    <3>2. active \notin Stale
      BY <2>1 DEF Stale
    <3> HIDE DEF D
    <3>3. active \in D
      BY <2>1, <3>1, HeldIsKept DEF HolderAfter
    <3>4. active \in Released
      BY <3>2, <3>3 DEF D
    <3> QED BY <3>4 DEF Released, Expired, Idle, Gone, Disconnected
  <2>5. CASE \/ \E u \in Token : \/ \E ip \in Ip : Rejoin(u, ip)
                                 \/ MarkCommand(u) \/ WsOpen(u) \/ WsClose(u)
                                 \/ CallbackDone(u)
             \/ Elapse
             \/ UNCHANGED vars
    BY <2>5 DEF Rejoin, MarkCommand, WsOpen, WsClose, CallbackDone, Elapse, vars
  <2> QED BY <2>2, <2>3, <2>4, <2>5 DEF Next, ClientStep
<1> HIDE DEF ForCause
<1>2. Spec => [][ForCause]_vars
  BY <1>1, InvHolds, PTL DEF Spec
<1> QED BY <1>2 DEF ForCause, LostForCause
-----------------------------------------------------------------------------
(***************************************************************************)
(* The comment in _tick on dropping a controller is right of users who     *)
(* have one page open, and of them only (lease_ws_flag.cfg).  MaxConns is  *)
(* the number of pages a user may have open.                               *)
(***************************************************************************)
SocketRaisesFlag ==
  \A t \in Tracked : conns[t] > 0 => sessions[t].ws_connected

\* Nothing but the sockets of a token moves its flag, and a new session has none.
LEMMA FlagIsOfSockets ==
  ASSUME Inv, [Next]_vars, NEW x \in Tracked'
  PROVE  \/ WsOpen(x) \/ WsClose(x)
         \/ x \notin Tracked /\ conns'[x] = 0
         \/ /\ x \in Tracked /\ conns'[x] = conns[x]
            /\ sessions'[x].ws_connected = sessions[x].ws_connected
<1> DEFINE Same == /\ x \in Tracked /\ conns'[x] = conns[x]
                   /\ sessions'[x].ws_connected = sessions[x].ws_connected
<1>0. /\ sessions \in [Tracked -> Session] /\ Tracked \subseteq Token
      /\ conns \in [Token -> 0 .. MaxConns] /\ x \in Token
  BY NextInv DEF Inv, TypeOK
<1>1. ASSUME NEW t \in Token, NEW ip \in Ip, Join(t, ip)
      PROVE  Same \/ (x \notin Tracked /\ conns'[x] = 0)
  BY <1>1 DEF Join, Fresh, WithSession, Tracked
<1>2. ASSUME NEW t \in Token, NEW ip \in Ip, Rejoin(t, ip) PROVE Same
  <2>1. /\ t \in Tracked /\ conns' = conns
        /\ sessions' = [sessions EXCEPT ![t].ip = ip, ![t].seen = 0]
    BY <1>2 DEF Rejoin, Known
  <2>2. x \in Tracked /\ sessions[x] \in Session
    BY <1>0, <2>1 DEF Tracked
  <2> QED BY <1>0, <2>1, <2>2 DEF Tracked, Session
<1>3. ASSUME NEW D, sessions' = Kept(D), conns' = conns PROVE Same
  BY <1>3 DEF Kept, Restrict, Tracked
<1>4. ASSUME NEW t \in Token, Leave(t) PROVE Same
  BY <1>3, <1>4 DEF Leave
<1>5. ASSUME Tick PROVE Same
  BY <1>3, <1>5 DEF Tick
<1>6. ASSUME NEW t \in Token, NEW b \in BOOLEAN, MarkWsConnected(t, b), x # t
      PROVE  x \in Tracked /\ sessions'[x].ws_connected = sessions[x].ws_connected
  BY <1>6, Marked
<1>7. ASSUME NEW t \in Token, WsOpen(t) \/ WsClose(t), x # t PROVE Same
  <2>1. conns'[x] = conns[x]
    BY <1>0, <1>7 DEF WsOpen, WsClose
  <2>2. \E b \in BOOLEAN : MarkWsConnected(t, b)
    BY <1>7 DEF WsOpen, WsClose
  <2> QED BY <1>6, <1>7, <2>1, <2>2
<1>8. ASSUME Elapse PROVE Same
  <2>1. /\ Tracked' = Tracked /\ conns' = conns
        /\ sessions'[x] = [sessions[x] EXCEPT !.seen = Older(@, WsGrace),
                                              !.joined = Older(@, WsGrace)]
    BY <1>8 DEF Elapse, Tracked
  <2>2. sessions[x] \in Session
    BY <1>0, <2>1
  <2> QED BY <2>1, <2>2 DEF Session
<1>9. ASSUME NEW t \in Token, MarkCommand(t) \/ CallbackDone(t) PROVE Same
  BY <1>9 DEF MarkCommand, CallbackDone, Tracked
<1>10. ASSUME UNCHANGED vars PROVE Same
  BY <1>10 DEF vars, Tracked
<1> DEFINE Mine == Same \/ WsOpen(x) \/ WsClose(x) \/ (x \notin Tracked /\ conns'[x] = 0)
<1>11. ASSUME NEW t \in Token, NEW ip \in Ip, Join(t, ip) \/ Rejoin(t, ip) PROVE Mine
  BY <1>1, <1>2, <1>11
<1>12. ASSUME NEW t \in Token, WsOpen(t) \/ WsClose(t) PROVE Mine
  <2>1. CASE x = t
    BY <1>12, <2>1
  <2>2. CASE x # t
    BY <1>7, <1>12, <2>2
  <2> QED BY <2>1, <2>2
<1>13. ASSUME NEW t \in Token, Leave(t) \/ MarkCommand(t) \/ CallbackDone(t) PROVE Mine
  BY <1>4, <1>9, <1>13
<1>14. ASSUME Tick \/ Elapse \/ UNCHANGED vars PROVE Mine
  BY <1>5, <1>8, <1>10, <1>14
<1> HIDE DEF Mine
<1>15. ASSUME NEW t \in Token, ClientStep(t) \/ CallbackDone(t) PROVE Mine
  BY <1>11, <1>12, <1>13, <1>15 DEF ClientStep
<1>16. Mine
  BY <1>14, <1>15 DEF Next
<1> QED BY <1>16 DEF Mine

LEMMA SocketRaisesFlagNext ==
  ASSUME MaxConns <= 1
  PROVE  Inv /\ SocketRaisesFlag /\ [Next]_vars => SocketRaisesFlag'
<1> SUFFICES ASSUME Inv, SocketRaisesFlag, [Next]_vars, NEW x \in Tracked', conns'[x] > 0
             PROVE  sessions'[x].ws_connected
  BY DEF SocketRaisesFlag
<1>1. conns \in [Token -> 0 .. MaxConns] /\ MaxConns \in Nat /\ x \in Token
  BY LeaseQueueAssumption, NextInv DEF Inv, TypeOK
<1>2. CASE WsOpen(x)
  BY <1>2, Marked, <1>1 DEF WsOpen, Known
<1>3. CASE WsClose(x)
  <2>1. conns'[x] = conns[x] - 1
    BY <1>1, <1>3 DEF WsClose
  <2> QED BY <1>1, <2>1
<1>4. ASSUME x \in Tracked, conns'[x] = conns[x],
             sessions'[x].ws_connected = sessions[x].ws_connected
      PROVE  sessions'[x].ws_connected
  BY <1>4 DEF SocketRaisesFlag
<1> QED BY <1>2, <1>3, <1>4, FlagIsOfSockets

\* A user with one page open loses the lease to a lost WebSocket only when that
\* page's is closed: the flag that _tick trusts stands for the one socket.
THEOREM OnePageIsHeard ==
  ASSUME MaxConns <= 1
  PROVE  Spec => DroppedOnlyWhenGone
<1> DEFINE ForCause ==
      \A t \in Tracked :
        (active = t /\ active' # t) =>
          \/ leaseAge > MaxSession
          \/ idleAge > IdleTimeout
          \/ Leave(t)
          \/ ~sessions[t].ws_connected /\ sessions[t].seen > WsGrace
      WhenGone ==
      \A t \in Tracked :
        (active = t /\ active' # t) =>
          \/ leaseAge > MaxSession
          \/ idleAge > IdleTimeout
          \/ Leave(t)
          \/ conns[t] = 0
<1>1. Inv /\ SocketRaisesFlag /\ [ForCause]_vars => [WhenGone]_vars
  <2>1. Inv /\ SocketRaisesFlag
          => \A t \in Tracked : ~sessions[t].ws_connected => conns[t] = 0
    BY LeaseQueueAssumption DEF Inv, TypeOK, SocketRaisesFlag
  <2> QED BY <2>1
<1>2. Init => SocketRaisesFlag
  BY DEF Init, SocketRaisesFlag, Tracked
<1>3. Spec => [][ForCause]_vars
  BY LostOnlyForCause DEF LostForCause
<1> HIDE DEF ForCause, WhenGone
<1>4. Spec => [][WhenGone]_vars
  BY <1>1, <1>2, <1>3, SocketRaisesFlagNext, InvHolds, PTL DEF Spec
<1> QED BY <1>4 DEF WhenGone, DroppedOnlyWhenGone

-----------------------------------------------------------------------------
(***************************************************************************)
(* The hard cap ends a lease.  That the actions of the tick loop can be    *)
(* taken where their guards hold stands as a hypothesis, since tlapm has   *)
(* no rule for ENABLED.                                                    *)
(***************************************************************************)
LoopIsOpen ==
  /\ tickWaits = NoOne /\ active # NoOne /\ Expired => ENABLED <<Tick>>_vars
  /\ tickWaits # NoOne => ENABLED <<LoopResumes>>_vars

HeldPastCap(t) == active = t /\ Expired
LoopIsFree == tickWaits = NoOne

\* A controller who is dropped does not come back in the same step.
LEMMA DroppedIsGone ==
  ASSUME Inv, NEW D, active # NoOne, active \in D,
         \/ Promote(Without(queue, D), HolderAfter(D), Tracked \ D)
         \/ NoPromotion(Without(queue, D), HolderAfter(D), Tracked \ D)
  PROVE  active' # active
<1> DEFINE left == Without(queue, D)
<1>1. left \in Seq(Token) /\ Range(left) = Range(queue) \ D
  BY WithoutRange DEF Inv, TypeOK
<1>2. Abstract!Depart(D)
  BY DropDeparts
<1>3. active' = NoOne \/ (left # << >> /\ active' = Head(left))
  BY <1>2, SameOperators DEF Abstract!Depart
<1>4. left # << >> => Head(left) \in Range(left)
  BY <1>1 DEF Range
<1> HIDE DEF left
<1> QED BY <1>1, <1>3, <1>4

\* The promotion step does not touch the age of a lease that is held.
LEMMA HeldIsNotRenewed ==
  ASSUME NEW q, NEW a, NEW tracked, a # NoOne,
         Promote(q, a, tracked) \/ NoPromotion(q, a, tracked)
  PROVE  leaseAge' = leaseAge
BY DEF Promote, NoPromotion

\* No command, rejoin or reconnection gives a lease more time: only a change of
\* hands does.
LEMMA LeaseIsNotRenewed ==
  ASSUME Inv, [Next]_vars, active # NoOne, active' = active
  PROVE  leaseAge' = leaseAge \/ leaseAge' = Older(leaseAge, MaxSession)
<1>1. ASSUME NEW t \in Token, NEW ip \in Ip, Join(t, ip) PROVE leaseAge' = leaseAge
  BY <1>1, HeldIsNotRenewed DEF Join
<1>2. ASSUME NEW D, \/ Promote(Without(queue, D), HolderAfter(D), Tracked \ D)
                    \/ NoPromotion(Without(queue, D), HolderAfter(D), Tracked \ D)
      PROVE  leaseAge' = leaseAge
  <2>1. active \notin D
    BY <1>2, DroppedIsGone
  <2>2. HolderAfter(D) # NoOne
    BY <2>1 DEF HolderAfter
  <2> QED BY <1>2, <2>2, HeldIsNotRenewed
<1>3. ASSUME NEW t \in Token, Leave(t) PROVE leaseAge' = leaseAge
  BY <1>2, <1>3 DEF Leave
<1>4. ASSUME Tick PROVE leaseAge' = leaseAge
  BY <1>2, <1>4 DEF Tick
<1>5. ASSUME NEW t \in Token,
             \/ \E ip \in Ip : Rejoin(t, ip)
             \/ MarkCommand(t) \/ WsOpen(t) \/ WsClose(t) \/ CallbackDone(t)
      PROVE  leaseAge' = leaseAge
  BY <1>5 DEF Rejoin, MarkCommand, WsOpen, WsClose, CallbackDone
<1>6. ASSUME Elapse PROVE leaseAge' = Older(leaseAge, MaxSession)
  BY <1>6 DEF Elapse
<1>7. ASSUME UNCHANGED vars PROVE leaseAge' = leaseAge
  BY <1>7 DEF vars
<1>8. ASSUME NEW t \in Token, ClientStep(t) \/ CallbackDone(t) PROVE leaseAge' = leaseAge
  BY <1>1, <1>3, <1>5, <1>8 DEF ClientStep
<1> QED BY <1>4, <1>6, <1>7, <1>8 DEF Next

LEMMA PastCapStays ==
  ASSUME NEW t \in Token
  PROVE  Inv /\ [Next]_vars /\ HeldPastCap(t) => HeldPastCap(t)' \/ ~(active = t)'
<1> SUFFICES ASSUME Inv, [Next]_vars, active = t, Expired, active' = t
             PROVE  Expired'
  BY DEF HeldPastCap
<1>1. t # NoOne /\ leaseAge \in AgeUpTo(MaxSession) /\ MaxSession \in Nat
  BY LeaseQueueAssumption DEF Inv, TypeOK
<1>2. leaseAge' = leaseAge \/ leaseAge' = Older(leaseAge, MaxSession)
  BY <1>1, LeaseIsNotRenewed
<1> QED BY <1>1, <1>2 DEF Expired, Older, AgeUpTo

LEMMA TickEndsIt ==
  ASSUME NEW t \in Token
  PROVE  Inv /\ HeldPastCap(t) /\ Tick => ~(active = t)'
<1> SUFFICES ASSUME Inv, active = t, Expired, Tick PROVE active' # t
  BY DEF HeldPastCap
<1>1. t # NoOne
  BY LeaseQueueAssumption
<1>2. active \in Released \cup Stale
  BY <1>1 DEF Released
<1> QED BY <1>1, <1>2, DroppedIsGone DEF Tick

LEMMA LoopWaits ==
  /\ [Next]_vars /\ LoopIsFree => LoopIsFree' \/ Tick
  /\ LoopResumes => LoopIsFree'
<1>1. ASSUME [Next]_vars, LoopIsFree PROVE LoopIsFree' \/ Tick
  <2>1. ASSUME NEW t \in Token, ClientStep(t) \/ CallbackDone(t) PROVE LoopIsFree'
    BY <1>1, <2>1 DEF ClientStep, Join, Rejoin, Leave, MarkCommand, WsOpen, WsClose,
                      CallbackDone, LoopIsFree
  <2>2. ASSUME Elapse \/ UNCHANGED vars PROVE LoopIsFree'
    BY <1>1, <2>2 DEF Elapse, vars, LoopIsFree
  <2> QED BY <1>1, <2>1, <2>2 DEF Next
<1>2. LoopResumes => LoopIsFree'
  BY DEF LoopResumes, CallbackDone, LoopIsFree
<1> QED BY <1>1, <1>2

(***************************************************************************)
(* A lease past the cap is lost in the end, whatever commands, rejoins and *)
(* reconnections arrive and however often: the loop comes back from the    *)
(* callback it awaits, and nobody can make the lease younger meanwhile.    *)
(***************************************************************************)
THEOREM CapEndsLease ==
  ASSUME NEW t \in Token
  PROVE  FairSpec /\ []LoopIsOpen => ((active = t /\ Expired) ~> (active # t))
<1>1. Inv /\ LoopIsOpen /\ HeldPastCap(t) /\ LoopIsFree => ENABLED <<Tick>>_vars
  BY LeaseQueueAssumption DEF LoopIsOpen, HeldPastCap, LoopIsFree
<1>2. LoopIsOpen /\ ~LoopIsFree => ENABLED <<LoopResumes>>_vars
  BY DEF LoopIsOpen, LoopIsFree
<1>3. HeldPastCap(t) <=> active = t /\ Expired
  BY DEF HeldPastCap
<1>4. active # t <=> ~(active = t)
  OBVIOUS
<1>5. /\ [Next]_vars /\ LoopIsFree => LoopIsFree' \/ Tick
      /\ LoopResumes => LoopIsFree'
  BY LoopWaits
<1>6. FairSpec /\ []LoopIsOpen => (HeldPastCap(t) ~> ~(active = t))
  BY <1>1, <1>2, <1>5, PastCapStays, TickEndsIt, InvHolds, PTL DEF FairSpec, Spec, Fairness
<1> QED BY <1>3, <1>4, <1>6, PTL

\* What is left to the count of Elapse: a lease that is kept gets as old as the cap.
AgeReachesCap == \A t \in Token : (active = t) ~> (active # t \/ Expired)

LEMMA LeaseEndsAtCap ==
  ASSUME NEW t \in Token
  PROVE  FairSpec /\ []LoopIsOpen /\ ((active = t) ~> (active # t \/ Expired))
           => ((active = t) ~> (active # t))
<1>1. active # t <=> ~(active = t)
  OBVIOUS
<1> QED BY <1>1, CapEndsLease, PTL

(***************************************************************************)
(* Every lease ends, given that its age reaches the cap.                   *)
(***************************************************************************)
THEOREM LeasesEnd == FairSpec /\ []LoopIsOpen /\ AgeReachesCap => ControlRotates
<1> SUFFICES ASSUME FairSpec /\ []LoopIsOpen, AgeReachesCap, NEW t \in Token
             PROVE  (active = t) ~> (active # t)
  BY DEF ControlRotates
<1>1. (active = t) ~> (active # t \/ Expired)
  BY DEF AgeReachesCap
<1> QED BY <1>1, LeaseEndsAtCap, PTL

-----------------------------------------------------------------------------
(***************************************************************************)
(* The fairness of the abstract lease, given that every lease ends.  That  *)
(* nobody goes from a free lease stands as a hypothesis, ENABLED again.    *)
(***************************************************************************)
FreeIsNotHeld ==
  active = NoOne => ~ENABLED <<Abstract!HolderGoes>>_(Abstract!fvars)

\* Whoever loses the lease goes from the abstract lease in that step.
LEMMA LosingIsGoing ==
  ASSUME Inv, [Next]_vars, NEW t \in Token, active = t, active' # t
  PROVE  <<Abstract!HolderGoes>>_(Abstract!fvars)
<1>1. t # NoOne
  BY LeaseQueueAssumption
<1>2. [Abstract!FNext]_(Abstract!fvars)
  BY StepRefines
<1>3. PICK D \in SUBSET Token : Abstract!Depart(D)
  BY <1>1, <1>2 DEF Abstract!FNext, Abstract!Enter, Abstract!fvars
<1>4. active \in D
  BY <1>3 DEF Abstract!Depart
<1> QED BY <1>3, <1>4 DEF Abstract!HolderGoes, Abstract!fvars

LeaseEnds(t) == (active = t) ~> (active # t)

LEMMA LeaseEndsByGoing ==
  ASSUME NEW t \in Token
  PROVE  []Inv /\ [][Next]_vars /\ LeaseEnds(t)
           => (active = t => <><<Abstract!HolderGoes>>_(Abstract!fvars))
<1>1. Inv /\ [Next]_vars /\ active = t
        => <<Abstract!HolderGoes>>_(Abstract!fvars) \/ (active = t)'
  BY LosingIsGoing
<1>2. active # t => ~(active = t)
  OBVIOUS
<1> QED BY <1>1, <1>2, PTL DEF LeaseEnds

LEMMA HolderGoesInTheEnd ==
  []Inv /\ [][Next]_vars /\ []ControlRotates
    => (active \in Token => <><<Abstract!HolderGoes>>_(Abstract!fvars))
<1> SUFFICES ASSUME []Inv, [][Next]_vars, []ControlRotates, active \in Token
             PROVE  <><<Abstract!HolderGoes>>_(Abstract!fvars)
  OBVIOUS
<1>1. PICK t \in Token : active = t
  OBVIOUS
<1>2. ControlRotates
  BY PTL
<1>3. LeaseEnds(t)
  BY <1>2 DEF ControlRotates, LeaseEnds
<1> QED BY <1>1, <1>3, LeaseEndsByGoing, PTL

(***************************************************************************)
(* The queue implements the abstract lease with its fairness, given that   *)
(* every lease ends: whatever the holder's lease ends by (the cap, idling, *)
(* leaving, a lost socket), he goes from the line and the first who is     *)
(* left takes over, and so for ever.                                       *)
(***************************************************************************)
THEOREM LeaseIsImplemented ==
  Spec /\ []ControlRotates /\ []FreeIsNotHeld => ImplementsFifoLease
<1>1. Inv => active = NoOne \/ active \in Token
  BY DEF Inv, TypeOK
<1> QED
  BY <1>1, InvHolds, LeaseRefinement, HolderGoesInTheEnd, PTL
     DEF Spec, ImplementsFifoLease, FreeIsNotHeld, Abstract!FSpec

-----------------------------------------------------------------------------
(***************************************************************************)
(* Whoever is first in the line is served, or has left it, once the lease  *)
(* ends.  (How many places the others have to come forward until then is a *)
(* count again: WaiterServed is TLC's.)                                    *)
(***************************************************************************)
FirstInLine(t) == queue # << >> /\ Head(queue) = t

\* Taking others out of a line leaves its first where it is.
LEMMA HeadIsKept ==
  ASSUME NEW q \in Seq(Token), IsInjective(q), q # << >>, NEW D, Head(q) \notin D
  PROVE  Without(q, D) # << >> /\ Head(Without(q, D)) = Head(q)
<1> DEFINE left == Without(q, D)
<1>1. /\ left \in Seq(Token) /\ IsInjective(left) /\ Range(left) = Range(q) \ D
  BY WithoutRange, WithoutInjective
<1>2. Head(q) \in Range(q) /\ Head(q) = q[1] /\ 1 \in DOMAIN q
  BY DEF Range
<1>3. left # << >>
  BY <1>1, <1>2 DEF Range
<1>4. Head(left) \in Range(left)
  BY <1>1, <1>3 DEF Range
<1>5. ASSUME Head(left) # Head(q) PROVE FALSE
  <2>1. PICK j \in DOMAIN q : q[j] = Head(left)
    BY <1>1, <1>4 DEF Range
  <2>2. j \in Nat /\ 1 < j
    BY <1>2, <1>5, <2>1
  <2>3. Precedes(q, Head(q), Head(left))
    BY <1>2, <2>1, <2>2 DEF Precedes
  <2>4. Precedes(left, Head(q), Head(left))
    BY <1>1, <1>4, <2>3, WithoutKeepsOrder
  <2> HIDE DEF left
  <2> QED BY <1>1, <1>3, <2>4, TailKeepsOrder
<1> QED BY <1>3, <1>5

LEMMA FirstStays ==
  ASSUME Inv, Inv', Abstract!FNext, NEW t \in Token, FirstInLine(t)
  PROVE  \/ active' = t \/ t \notin Tracked'
         \/ active' = active /\ FirstInLine(t)'
<1>1. /\ queue \in Seq(Token) /\ IsInjective(queue) /\ active # NoOne
      /\ active \notin Range(queue) /\ t \in Range(queue)
      /\ Tracked' = Range(queue') \cup ({active'} \ {NoOne})
  BY DEF Inv, TypeOK, OnePlaceEach, NoIdleLease, NoLeakedSession, FirstInLine, Range
<1>2. ASSUME NEW u \in Token, Abstract!Enter(u)
      PROVE  active' = active /\ FirstInLine(t)'
  BY <1>1, <1>2 DEF Abstract!Enter, FirstInLine
<1>3. ASSUME NEW D, Abstract!Depart(D)
      PROVE  \/ active' = t \/ t \notin Tracked'
             \/ active' = active /\ FirstInLine(t)'
  <2> DEFINE left == Without(queue, D)
  <2>1. \/ active' = active /\ queue' = left
        \/ active' = NoOne /\ queue' = << >>
        \/ left # << >> /\ active' = Head(left) /\ queue' = Tail(left)
    BY <1>3, SameOperators DEF Abstract!Depart
  <2>2. left \in Seq(Token) /\ Range(left) = Range(queue) \ D
    BY <1>1, WithoutRange
  <2>3. t \notin D => left # << >> /\ Head(left) = t
    BY <1>1, HeadIsKept DEF FirstInLine
  <2> HIDE DEF left
  <2>4. CASE active' = active /\ queue' = left
    BY <1>1, <2>2, <2>3, <2>4 DEF FirstInLine
  <2>5. CASE active' = NoOne /\ queue' = << >>
    BY <1>1, <2>5 DEF Range
  <2>6. CASE left # << >> /\ active' = Head(left) /\ queue' = Tail(left)
    <3>1. t \in D => t \notin Range(left)
      BY <2>2
    <3>2. Range(Tail(left)) \subseteq Range(left) /\ Head(left) \in Range(left)
      BY <2>2, <2>6 DEF Range
    <3> QED BY <1>1, <2>3, <2>6, <3>1, <3>2
  <2> QED BY <2>1, <2>4, <2>5, <2>6
<1> QED BY <1>2, <1>3 DEF Abstract!FNext

\* Served, or no longer there.
Attended(t) == active = t \/ t \notin Tracked

LEMMA FirstNext ==
  ASSUME NEW t \in Token
  PROVE  /\ Inv /\ Inv' /\ [Next]_vars /\ FirstInLine(t) => Attended(t)' \/ FirstInLine(t)'
         /\ Inv /\ Inv' /\ FirstInLine(t) /\ <<Abstract!HolderGoes>>_(Abstract!fvars)
              => Attended(t)'
<1>1. ASSUME Inv, Inv', [Next]_vars, FirstInLine(t) PROVE Attended(t)' \/ FirstInLine(t)'
  <2>1. [Abstract!FNext]_(Abstract!fvars)
    BY <1>1, StepRefines
  <2> QED BY <1>1, <2>1, FirstStays DEF Attended, Abstract!fvars, FirstInLine
<1>2. ASSUME Inv, Inv', FirstInLine(t), Abstract!HolderGoes PROVE Attended(t)'
  <2>1. PICK D \in SUBSET Token : active \in D /\ Abstract!Depart(D)
    BY <1>2 DEF Abstract!HolderGoes
  <2>2. Abstract!FNext
    BY <2>1 DEF Abstract!FNext
  <2>3. active' # active
    <3> DEFINE left == Without(queue, D)
    <3>0. /\ queue \in Seq(Token) /\ active \notin Range(queue) /\ active # NoOne
      BY <1>2 DEF Inv, TypeOK, OnePlaceEach, NoIdleLease, FirstInLine
    <3>1. left \in Seq(Token) /\ Range(left) \subseteq Range(queue)
      BY <3>0, WithoutRange
    <3>2. active' = NoOne \/ (left # << >> /\ active' = Head(left))
      BY <2>1, SameOperators DEF Abstract!Depart
    <3>3. left # << >> => Head(left) \in Range(left)
      BY <3>1 DEF Range
    <3> HIDE DEF left
    <3> QED BY <3>0, <3>1, <3>2, <3>3
  <2> QED BY <1>2, <2>2, <2>3, FirstStays DEF Attended
<1> QED BY <1>1, <1>2

(***************************************************************************)
(* The first of the line is promoted or gone, given that every lease ends: *)
(* no arrival, departure or prune ahead of the promotion passes it over.   *)
(***************************************************************************)
THEOREM FirstIsServed ==
  ASSUME NEW t \in Token
  PROVE  Spec /\ []ControlRotates => (FirstInLine(t) ~> Attended(t))
<1>1. Inv /\ FirstInLine(t) => active \in Token
  BY DEF Inv, TypeOK, NoIdleLease, FirstInLine
<1> QED BY <1>1, FirstNext, HolderGoesInTheEnd, InvHolds, PTL DEF Spec
=============================================================================

---------------------------- MODULE JogPadProofs ----------------------------
(***************************************************************************)
(* Theorems about the press-and-hold pad, for any number of buttons,       *)
(* presses and packets.                                                    *)
(***************************************************************************)
EXTENDS JogPad, FiniteSetTheorems, TLAPS

\* A press is over when its button is up, or was pressed again.
Over(b, n) == ~(b \in held /\ presses[b] = n)

StopUnderWay(p) == \E k \in packets : k.press = p /\ k.kind = "stop"

\* A press that has not begun has left no trace.
NoTraceAhead ==
  \A b \in Button : \A n \in 1 .. MaxPresses : n > presses[b] =>
    /\ \A k \in packets : k.press # <<b, n>>
    /\ latest[<<b, n>>] = 0
    /\ moving # <<b, n>>

\* Of a press that is held only jogs were sent, none beyond its number.
HeldOnlyJogs ==
  \A b \in held :
    /\ presses[b] \in 1 .. MaxPresses
    /\ seq[b] \in 1 .. MaxSeq - 1
    /\ \A k \in packets : k.press = Last(b) => k.kind = "jog" /\ k.seq <= seq[b]
    /\ latest[Last(b)] <= seq[b]

\* A stop is above everything else of its press, on its way or arrived.
StopIsLast ==
  \A k \in packets : k.kind = "stop" =>
    /\ latest[k.press] < k.seq
    /\ \A j \in packets : j.press = k.press /\ j # k => j.kind = "jog" /\ j.seq < k.seq

\* Once its stop has arrived a press moves nothing, and whatever is still on its
\* way of it is stale.
StoppedIsStale ==
  \A b \in Button : \A n \in 1 .. MaxPresses :
    (n <= presses[b] /\ Over(b, n) /\ <<b, n>> \notin quiet /\ ~StopUnderWay(<<b, n>>)) =>
      /\ moving # <<b, n>>
      /\ \A k \in packets : k.press = <<b, n>> => k.seq <= latest[<<b, n>>]

\* One request for each press, and one to spare while the mark is down.
CallsCounted ==
  \A b \in Button :
    /\ IsFiniteSet(CallsOf(b))
    /\ Cardinality(CallsOf(b)) <= presses[b]
    /\ b \in held /\ ~jogInFlight[b] => Cardinality(CallsOf(b)) < presses[b]

PacketInv == NoTraceAhead /\ HeldOnlyJogs /\ StopIsLast /\ StoppedIsStale

JogInv == JogTypeOK /\ PacketInv /\ CallsCounted

LEMMA StillIsNoPress == \A p \in Press : p # Still
BY DEF Press, Still

LEMMA LastIsPress ==
  ASSUME JogInv, NEW b \in held
  PROVE  /\ b \in Button
         /\ Last(b) \in Press
         /\ presses[b] \in 1 .. MaxPresses
         /\ seq[b] \in 1 .. MaxSeq - 1
         /\ seq[b] \in Nat /\ MaxSeq \in Nat
BY JogBoundsAssumption DEF JogInv, JogTypeOK, PacketInv, HeldOnlyJogs, Last, Press

LEMMA JogInitInv == JogInit => JogInv
<1> SUFFICES ASSUME JogInit PROVE JogInv
  OBVIOUS
<1>1. JogTypeOK
  BY JogBoundsAssumption DEF JogInit, JogTypeOK, Press, Packet
<1>2. PacketInv
  <2>1. NoTraceAhead
    BY StillIsNoPress DEF JogInit, NoTraceAhead, Press
  <2>2. HeldOnlyJogs /\ StopIsLast
    BY DEF JogInit, HeldOnlyJogs, StopIsLast
  <2>3. StoppedIsStale
    BY DEF JogInit, StoppedIsStale
  <2> QED BY <2>1, <2>2, <2>3 DEF PacketInv
<1>3. CallsCounted
  <2> SUFFICES ASSUME NEW b \in Button
               PROVE  /\ IsFiniteSet(CallsOf(b))
                      /\ Cardinality(CallsOf(b)) <= presses[b]
                      /\ b \notin held
    BY DEF CallsCounted
  <2>1. CallsOf(b) = {}
    BY DEF JogInit, CallsOf
  <2> QED BY <2>1, FS_EmptySet DEF JogInit
<1> QED BY <1>1, <1>2, <1>3 DEF JogInv

-----------------------------------------------------------------------------
(***************************************************************************)
(* Jogs: a first packet of a new press, and the next one of a press that   *)
(* is held.                                                                *)
(***************************************************************************)
LEMMA SentType ==
  ASSUME JogTypeOK, NEW b \in Button, NEW p \in Press, NEW n \in Nat,
         SendJog(b, p, n)
  PROVE  /\ n + 1 \in 1 .. MaxSeq - 1
         /\ n + 1 \in 1 .. MaxSeq
         /\ seq' \in [Button -> 0 .. MaxSeq]
         /\ jogInFlight' \in [Button -> BOOLEAN]
         /\ calls' \in SUBSET (Press \X (1 .. MaxSeq))
         /\ packets' \in SUBSET Packet
         /\ seq'[b] = n + 1 /\ \A c \in Button \ {b} : seq'[c] = seq[c]
         /\ jogInFlight'[b] /\ \A c \in Button \ {b} : jogInFlight'[c] = jogInFlight[c]
<1>1. n + 1 \in 1 .. MaxSeq - 1 /\ n + 1 \in 1 .. MaxSeq /\ n + 1 \in 0 .. MaxSeq
  BY JogBoundsAssumption DEF SendJog
<1>2. packets' \in SUBSET Packet
  BY <1>1 DEF SendJog, Packet, JogTypeOK
<1> QED BY <1>1, <1>2 DEF SendJog, JogTypeOK

\* The requests of the button that sends grow by one at most, and no others do.
LEMMA SentCalls ==
  ASSUME JogTypeOK, CallsCounted, NEW b \in Button, NEW p \in Press, NEW n \in Nat,
         p[1] = b, SendJog(b, p, n)
  PROVE  /\ IsFiniteSet(CallsOf(b)')
         /\ Cardinality(CallsOf(b)') <= Cardinality(CallsOf(b)) + 1
         /\ Cardinality(CallsOf(b)) \in Nat /\ Cardinality(CallsOf(b)') \in Nat
         /\ \A c \in Button \ {b} : CallsOf(c)' = CallsOf(c)
<1>1. calls' = calls \cup {<<p, n + 1>>}
  BY DEF SendJog
<1>2. CallsOf(b)' = CallsOf(b) \cup {<<p, n + 1>>}
  BY <1>1 DEF CallsOf
<1>3. IsFiniteSet(CallsOf(b))
  BY DEF CallsCounted
<1>4. \A c \in Button \ {b} : CallsOf(c)' = CallsOf(c)
  BY <1>1 DEF CallsOf
<1>5. Cardinality(CallsOf(b)) \in Nat
  BY <1>3, FS_CardinalityType
<1>6. /\ IsFiniteSet(CallsOf(b) \cup {<<p, n + 1>>})
      /\ \/ Cardinality(CallsOf(b) \cup {<<p, n + 1>>}) = Cardinality(CallsOf(b))
         \/ Cardinality(CallsOf(b) \cup {<<p, n + 1>>}) = Cardinality(CallsOf(b)) + 1
  BY <1>3, FS_AddElement
<1>7. Cardinality(CallsOf(b)') \in Nat
  BY <1>2, <1>5, <1>6
<1> QED BY <1>2, <1>4, <1>5, <1>6, <1>7

LEMMA BeginInv == \A b \in Button : JogInv /\ Begin(b) => JogInv'
<1> SUFFICES ASSUME NEW b \in Button, JogInv, Begin(b) PROVE JogInv'
  OBVIOUS
<1> DEFINE p == <<b, presses[b] + 1>>
           k0 == [press |-> p, seq |-> 1, kind |-> "jog"]
<1>1. /\ b \notin held /\ presses[b] < MaxPresses /\ presses[b] \in Nat
      /\ presses[b] + 1 \in 1 .. MaxPresses
      /\ MaxPresses \in Nat /\ MaxSeq \in Nat
  BY JogBoundsAssumption DEF Begin, JogInv, JogTypeOK
<1>2. p \in Press
  BY <1>1 DEF Press
<1>3. SendJog(b, p, 0)
  BY DEF Begin
<1>4. /\ presses' = [presses EXCEPT ![b] = @ + 1]
      /\ held' = held \cup {b}
      /\ UNCHANGED <<quiet, latest, moving>>
  BY DEF Begin
<1>5. /\ presses'[b] = presses[b] + 1
      /\ \A c \in Button \ {b} : presses'[c] = presses[c]
      /\ presses' \in [Button -> 0 .. MaxPresses]
  BY <1>1, <1>4 DEF JogInv, JogTypeOK
<1>6. packets' = packets \cup {k0} /\ k0.press = p /\ k0.seq = 1 /\ k0.kind = "jog"
  BY <1>3 DEF SendJog
<1>7. /\ seq'[b] = 1 /\ \A c \in Button \ {b} : seq'[c] = seq[c]
      /\ 1 \in 1 .. MaxSeq - 1
  BY <1>2, <1>3, SentType DEF JogInv
<1>8. JogTypeOK'
  BY <1>2, <1>3, <1>4, <1>5, SentType DEF JogInv, JogTypeOK
<1>9. /\ \A k \in packets : k.press # p
      /\ latest[p] = 0
      /\ moving # p
  BY <1>1 DEF JogInv, PacketInv, NoTraceAhead
<1>10. NoTraceAhead'
  <2> SUFFICES ASSUME NEW c \in Button, NEW n \in 1 .. MaxPresses, n > presses'[c]
               PROVE  /\ \A k \in packets' : k.press # <<c, n>>
                      /\ latest'[<<c, n>>] = 0
                      /\ moving' # <<c, n>>
    BY DEF NoTraceAhead
  <2>1. n > presses[c] /\ p # <<c, n>>
    BY <1>1, <1>5 DEF JogInv, JogTypeOK
  <2> QED BY <1>4, <1>6, <2>1 DEF JogInv, PacketInv, NoTraceAhead
<1>11. HeldOnlyJogs'
  <2> SUFFICES ASSUME NEW c \in held'
               PROVE  /\ presses'[c] \in 1 .. MaxPresses
                      /\ seq'[c] \in 1 .. MaxSeq - 1
                      /\ \A k \in packets' :
                           k.press = Last(c)' => k.kind = "jog" /\ k.seq <= seq'[c]
                      /\ latest'[Last(c)'] <= seq'[c]
    BY DEF HeldOnlyJogs
  <2>1. CASE c = b
    <3>1. Last(c)' = p
      BY <1>5, <2>1 DEF Last
    <3> QED BY <1>1, <1>4, <1>5, <1>6, <1>7, <1>9, <2>1, <3>1
  <2>2. CASE c # b
    <3>1. c \in held /\ c \in Button /\ Last(c)' = Last(c) /\ Last(c) # p
      BY <1>4, <1>5, <2>2 DEF Last, JogInv, JogTypeOK
    <3> QED BY <1>4, <1>5, <1>6, <1>7, <2>2, <3>1 DEF JogInv, PacketInv, HeldOnlyJogs
  <2> QED BY <2>1, <2>2
<1>12. StopIsLast'
  BY <1>4, <1>6, <1>9 DEF JogInv, PacketInv, StopIsLast
<1>13. StoppedIsStale'
  <2> SUFFICES ASSUME NEW c \in Button, NEW n \in 1 .. MaxPresses, n <= presses'[c],
                      Over(c, n)', <<c, n>> \notin quiet', ~StopUnderWay(<<c, n>>)'
               PROVE  /\ moving' # <<c, n>>
                      /\ \A k \in packets' : k.press = <<c, n>> => k.seq <= latest'[<<c, n>>]
    BY DEF StoppedIsStale
  <2>1. <<c, n>> # p /\ n <= presses[c] /\ Over(c, n)
    BY <1>1, <1>4, <1>5 DEF Over, JogInv, JogTypeOK
  <2>2. ~StopUnderWay(<<c, n>>)
    BY <1>6 DEF StopUnderWay
  <2> QED BY <1>4, <1>6, <2>1, <2>2 DEF JogInv, PacketInv, StoppedIsStale
<1>14. CallsCounted'
  <2> SUFFICES ASSUME NEW c \in Button
               PROVE  /\ IsFiniteSet(CallsOf(c)')
                      /\ Cardinality(CallsOf(c)') <= presses'[c]
                      /\ c \in held' /\ ~jogInFlight'[c]
                           => Cardinality(CallsOf(c)') < presses'[c]
    BY DEF CallsCounted
  <2>1. CASE c = b
    <3>1. Cardinality(CallsOf(b)) <= presses[b]
      BY DEF JogInv, CallsCounted
    <3> QED BY <1>1, <1>2, <1>3, <1>5, <2>1, <3>1, SentType, SentCalls DEF JogInv
  <2>2. CASE c # b
    BY <1>2, <1>3, <1>4, <1>5, <2>2, SentType, SentCalls DEF JogInv, CallsCounted
  <2> QED BY <2>1, <2>2
<1> QED BY <1>8, <1>10, <1>11, <1>12, <1>13, <1>14 DEF JogInv, PacketInv

LEMMA TickInv == \A b \in Button : JogInv /\ Tick(b) => JogInv'
<1> SUFFICES ASSUME NEW b \in Button, JogInv, Tick(b) PROVE JogInv'
  OBVIOUS
<1> DEFINE p == Last(b)
           k0 == [press |-> p, seq |-> seq[b] + 1, kind |-> "jog"]
<1>1. b \in held /\ ~jogInFlight[b] /\ SendJog(b, p, seq[b])
      /\ UNCHANGED <<presses, held, quiet, latest, moving>>
  BY DEF Tick
<1>2. /\ p \in Press /\ p[1] = b /\ presses[b] \in 1 .. MaxPresses
      /\ seq[b] \in 1 .. MaxSeq - 1 /\ seq[b] \in Nat /\ MaxSeq \in Nat
  BY <1>1, LastIsPress DEF Last
<1>3. packets' = packets \cup {k0} /\ k0.press = p /\ k0.seq = seq[b] + 1 /\ k0.kind = "jog"
  BY <1>1 DEF SendJog
<1>4. /\ seq'[b] = seq[b] + 1 /\ \A c \in Button \ {b} : seq'[c] = seq[c]
      /\ seq[b] + 1 \in 1 .. MaxSeq - 1
  BY <1>1, <1>2, SentType DEF JogInv
<1>5. JogTypeOK'
  BY <1>1, <1>2, SentType DEF JogInv, JogTypeOK
<1>6. \A k \in packets : k.press = p => k.kind = "jog" /\ k.seq <= seq[b] /\ k.seq \in Nat
  BY <1>1 DEF JogInv, JogTypeOK, Packet, PacketInv, HeldOnlyJogs
<1>7. NoTraceAhead'
  <2> SUFFICES ASSUME NEW c \in Button, NEW n \in 1 .. MaxPresses, n > presses[c]
               PROVE  /\ \A k \in packets' : k.press # <<c, n>>
                      /\ latest[<<c, n>>] = 0
                      /\ moving # <<c, n>>
    BY <1>1 DEF NoTraceAhead
  <2>1. p # <<c, n>>
    BY <1>2 DEF Last
  <2> QED BY <1>3, <2>1 DEF JogInv, PacketInv, NoTraceAhead
<1>8. HeldOnlyJogs'
  <2> SUFFICES ASSUME NEW c \in held
               PROVE  /\ presses[c] \in 1 .. MaxPresses
                      /\ seq'[c] \in 1 .. MaxSeq - 1
                      /\ \A k \in packets' :
                           k.press = Last(c) => k.kind = "jog" /\ k.seq <= seq'[c]
                      /\ latest[Last(c)] <= seq'[c]
    BY <1>1 DEF HeldOnlyJogs, Last
  <2>1. CASE c = b
    <3>1. latest[p] <= seq[b] /\ latest[p] \in Nat
      BY <1>1, <1>2 DEF JogInv, JogTypeOK, PacketInv, HeldOnlyJogs
    <3> QED BY <1>2, <1>3, <1>4, <1>6, <2>1, <3>1
  <2>2. CASE c # b
    <3>1. c \in Button /\ Last(c) # p
      BY <2>2 DEF Last, JogInv, JogTypeOK
    <3> QED BY <1>3, <1>4, <2>2, <3>1 DEF JogInv, PacketInv, HeldOnlyJogs
  <2> QED BY <2>1, <2>2
<1>9. StopIsLast'
  <2>1. \A k \in packets : k.kind = "stop" => k.press # p
    BY <1>6
  <2> QED BY <1>1, <1>3, <2>1 DEF JogInv, PacketInv, StopIsLast
<1>10. StoppedIsStale'
  <2> SUFFICES ASSUME NEW c \in Button, NEW n \in 1 .. MaxPresses, n <= presses[c],
                      Over(c, n), <<c, n>> \notin quiet, ~StopUnderWay(<<c, n>>)'
               PROVE  /\ moving # <<c, n>>
                      /\ \A k \in packets' : k.press = <<c, n>> => k.seq <= latest[<<c, n>>]
    BY <1>1 DEF StoppedIsStale, Over
  <2>1. <<c, n>> # p
    BY <1>1 DEF Over, Last
  <2>2. ~StopUnderWay(<<c, n>>)
    BY <1>3 DEF StopUnderWay
  <2> QED BY <1>3, <2>1, <2>2 DEF JogInv, PacketInv, StoppedIsStale
<1>11. CallsCounted'
  <2> SUFFICES ASSUME NEW c \in Button
               PROVE  /\ IsFiniteSet(CallsOf(c)')
                      /\ Cardinality(CallsOf(c)') <= presses[c]
                      /\ c \in held /\ ~jogInFlight'[c]
                           => Cardinality(CallsOf(c)') < presses[c]
    BY <1>1 DEF CallsCounted
  <2>1. CASE c = b
    <3>1. Cardinality(CallsOf(b)) < presses[b]
      BY <1>1 DEF JogInv, CallsCounted
    <3> QED BY <1>1, <1>2, <2>1, <3>1, SentType, SentCalls DEF JogInv
  <2>2. CASE c # b
    BY <1>1, <1>2, <2>2, SentType, SentCalls DEF JogInv, CallsCounted
  <2> QED BY <2>1, <2>2
<1> QED BY <1>5, <1>7, <1>8, <1>9, <1>10, <1>11 DEF JogInv, PacketInv

-----------------------------------------------------------------------------
(***************************************************************************)
(* Releases.                                                               *)
(***************************************************************************)
\* A stop is sent above everything the press has sent.
LEMMA EndInv == \A b \in Button : JogInv /\ End(b) => JogInv'
<1> SUFFICES ASSUME NEW b \in Button, JogInv, End(b) PROVE JogInv'
  OBVIOUS
<1> DEFINE p == Last(b)
           k0 == [press |-> p, seq |-> seq[b] + 1, kind |-> "stop"]
<1>1. /\ b \in held /\ held' = held \ {b}
      /\ seq' = [seq EXCEPT ![b] = @ + 1]
      /\ packets' = packets \cup {k0}
      /\ UNCHANGED <<presses, jogInFlight, calls, quiet, latest, moving>>
  BY DEF End
<1>2. /\ p \in Press /\ presses[b] \in 1 .. MaxPresses
      /\ seq[b] \in 1 .. MaxSeq - 1 /\ seq[b] \in Nat /\ MaxSeq \in Nat
      /\ seq[b] + 1 \in 1 .. MaxSeq /\ seq[b] + 1 \in 0 .. MaxSeq
  BY <1>1, LastIsPress
<1>3. k0 \in Packet /\ k0.press = p /\ k0.seq = seq[b] + 1 /\ k0.kind = "stop"
  BY <1>2 DEF Packet
<1>4. JogTypeOK'
  BY <1>1, <1>2, <1>3 DEF JogInv, JogTypeOK
<1>5. \A c \in Button \ {b} : seq'[c] = seq[c]
  BY <1>1 DEF JogInv, JogTypeOK
<1>6. /\ \A k \in packets : k.press = p => k.kind = "jog" /\ k.seq <= seq[b] /\ k.seq \in Nat
      /\ latest[p] <= seq[b] /\ latest[p] \in Nat
  BY <1>1, <1>2 DEF JogInv, JogTypeOK, Packet, PacketInv, HeldOnlyJogs
<1>7. NoTraceAhead'
  <2> SUFFICES ASSUME NEW c \in Button, NEW n \in 1 .. MaxPresses, n > presses[c]
               PROVE  /\ \A k \in packets' : k.press # <<c, n>>
                      /\ latest[<<c, n>>] = 0
                      /\ moving # <<c, n>>
    BY <1>1 DEF NoTraceAhead
  <2>1. p # <<c, n>>
    BY <1>2 DEF Last
  <2> QED BY <1>1, <1>3, <2>1 DEF JogInv, PacketInv, NoTraceAhead
<1>8. HeldOnlyJogs'
  <2> SUFFICES ASSUME NEW c \in held'
               PROVE  /\ presses[c] \in 1 .. MaxPresses
                      /\ seq'[c] \in 1 .. MaxSeq - 1
                      /\ \A k \in packets' :
                           k.press = Last(c) => k.kind = "jog" /\ k.seq <= seq'[c]
                      /\ latest[Last(c)] <= seq'[c]
    BY <1>1 DEF HeldOnlyJogs, Last
  <2>1. c \in held /\ c \in Button \ {b} /\ Last(c) # p
    BY <1>1 DEF Last, JogInv, JogTypeOK
  <2> QED BY <1>1, <1>3, <1>5, <2>1 DEF JogInv, PacketInv, HeldOnlyJogs
<1>9. StopIsLast'
  <2> SUFFICES ASSUME NEW k \in packets', k.kind = "stop"
               PROVE  /\ latest[k.press] < k.seq
                      /\ \A j \in packets' : j.press = k.press /\ j # k =>
                           j.kind = "jog" /\ j.seq < k.seq
    BY <1>1 DEF StopIsLast
  <2>1. CASE k = k0
    BY <1>1, <1>2, <1>3, <1>6, <2>1
  <2>2. CASE k # k0
    <3>1. k \in packets /\ k.press # p
      BY <1>1, <1>6, <2>2
    <3> QED BY <1>1, <1>3, <3>1 DEF JogInv, PacketInv, StopIsLast
  <2> QED BY <2>1, <2>2
<1>10. StoppedIsStale'
  <2> SUFFICES ASSUME NEW c \in Button, NEW n \in 1 .. MaxPresses, n <= presses[c],
                      Over(c, n)', <<c, n>> \notin quiet, ~StopUnderWay(<<c, n>>)'
               PROVE  /\ moving # <<c, n>>
                      /\ \A k \in packets' : k.press = <<c, n>> => k.seq <= latest[<<c, n>>]
    BY <1>1 DEF StoppedIsStale
  <2>1. <<c, n>> # p
    BY <1>1, <1>3 DEF StopUnderWay
  <2>2. Over(c, n) /\ ~StopUnderWay(<<c, n>>)
    BY <1>1, <2>1 DEF Over, Last, StopUnderWay
  <2> QED BY <1>1, <1>3, <2>1, <2>2 DEF JogInv, PacketInv, StoppedIsStale
<1>11. CallsCounted'
  BY <1>1 DEF JogInv, CallsCounted, CallsOf
<1> QED BY <1>4, <1>7, <1>8, <1>9, <1>10, <1>11 DEF JogInv, PacketInv

LEMMA CancelInv ==
  \A bs \in SUBSET Button : JogInv /\ CancelHeartbeat(bs) => JogInv'
<1> SUFFICES ASSUME NEW bs \in SUBSET Button, JogInv, CancelHeartbeat(bs) PROVE JogInv'
  OBVIOUS
<1>1. /\ held' = held \ bs
      /\ quiet' = quiet \cup {Last(b) : b \in held \cap bs}
      /\ UNCHANGED <<presses, seq, jogInFlight, calls, packets, latest, moving>>
  BY DEF CancelHeartbeat
<1>2. quiet' \in SUBSET Press
  BY <1>1, LastIsPress DEF JogInv, JogTypeOK
<1>3. JogTypeOK'
  BY <1>1, <1>2 DEF JogInv, JogTypeOK
<1>4. NoTraceAhead' /\ StopIsLast'
  BY <1>1 DEF JogInv, PacketInv, NoTraceAhead, StopIsLast
<1>5. HeldOnlyJogs'
  BY <1>1 DEF JogInv, PacketInv, HeldOnlyJogs, Last
<1>6. StoppedIsStale'
  <2> SUFFICES ASSUME NEW c \in Button, NEW n \in 1 .. MaxPresses, n <= presses[c],
                      Over(c, n)', <<c, n>> \notin quiet', ~StopUnderWay(<<c, n>>)
               PROVE  /\ moving # <<c, n>>
                      /\ \A k \in packets : k.press = <<c, n>> => k.seq <= latest[<<c, n>>]
    BY <1>1 DEF StoppedIsStale, StopUnderWay
  <2>1. Over(c, n) /\ <<c, n>> \notin quiet
    BY <1>1 DEF Over, Last
  <2> QED BY <2>1 DEF JogInv, PacketInv, StoppedIsStale
<1>7. CallsCounted'
  BY <1>1 DEF JogInv, CallsCounted, CallsOf
<1> QED BY <1>3, <1>4, <1>5, <1>6, <1>7 DEF JogInv, PacketInv

-----------------------------------------------------------------------------
(***************************************************************************)
(* Answers, and the packets at the other end.                              *)
(***************************************************************************)
LEMMA SettlesInv == \A c \in calls : JogInv /\ Settles(c) => JogInv'
<1> SUFFICES ASSUME NEW c \in calls, JogInv, Settles(c) PROVE JogInv'
  OBVIOUS
<1>1. /\ calls' = calls \ {c}
      /\ jogInFlight' = [jogInFlight EXCEPT ![c[1][1]] = FALSE]
      /\ UNCHANGED <<presses, held, seq, packets, quiet, latest, moving>>
  BY DEF Settles
<1>2. JogTypeOK'
  BY <1>1 DEF JogInv, JogTypeOK
<1>3. PacketInv'
  BY <1>1 DEF JogInv, PacketInv, NoTraceAhead, HeldOnlyJogs, StopIsLast, StoppedIsStale,
              Over, StopUnderWay, Last
<1>4. CallsCounted'
  <2> SUFFICES ASSUME NEW b \in Button
               PROVE  /\ IsFiniteSet(CallsOf(b)')
                      /\ Cardinality(CallsOf(b)') <= presses[b]
                      /\ b \in held /\ ~jogInFlight'[b]
                           => Cardinality(CallsOf(b)') < presses[b]
    BY <1>1 DEF CallsCounted
  <2>1. CASE c[1][1] = b
    <3>1. c \in CallsOf(b) /\ CallsOf(b)' = CallsOf(b) \ {c}
      BY <1>1, <2>1 DEF CallsOf
    <3>2. IsFiniteSet(CallsOf(b)) /\ Cardinality(CallsOf(b)) <= presses[b]
      BY DEF JogInv, CallsCounted
    <3>3. Cardinality(CallsOf(b)) \in Nat
      BY <3>2, FS_CardinalityType
    <3>4. /\ IsFiniteSet(CallsOf(b) \ {c})
          /\ Cardinality(CallsOf(b) \ {c}) = Cardinality(CallsOf(b)) - 1
      BY <3>1, <3>2, FS_RemoveElement
    <3>5. presses[b] \in Nat
      BY JogBoundsAssumption DEF JogInv, JogTypeOK
    <3> QED BY <3>1, <3>2, <3>3, <3>4, <3>5
  <2>2. CASE c[1][1] # b
    <3>1. CallsOf(b)' = CallsOf(b)
      BY <1>1, <2>2 DEF CallsOf
    <3>2. jogInFlight'[b] = jogInFlight[b]
      BY <1>1, <2>2 DEF JogInv, JogTypeOK
    <3> QED BY <3>1, <3>2 DEF JogInv, CallsCounted
  <2> QED BY <2>1, <2>2
<1> QED BY <1>2, <1>3, <1>4 DEF JogInv

\* A packet that goes, arrived or lost, leaves what was true of the others.
LEMMA FewerPackets ==
  ASSUME JogInv, NEW k \in packets, packets' = packets \ {k},
         UNCHANGED <<presses, held, seq, jogInFlight, calls>>
  PROVE  /\ \A b \in Button : \A n \in 1 .. MaxPresses : n > presses'[b] =>
              \A j \in packets' : j.press # <<b, n>>
         /\ \A b \in held' :
              /\ presses'[b] \in 1 .. MaxPresses
              /\ seq'[b] \in 1 .. MaxSeq - 1
              /\ \A j \in packets' : j.press = Last(b)' => j.kind = "jog" /\ j.seq <= seq'[b]
         /\ CallsCounted'
BY DEF JogInv, PacketInv, NoTraceAhead, HeldOnlyJogs, CallsCounted, CallsOf, Last

LEMMA ArrivesInv == \A k \in packets : JogInv /\ Arrives(k) => JogInv'
<1> SUFFICES ASSUME NEW k \in packets, JogInv, Arrives(k) PROVE JogInv'
  OBVIOUS
<1>1. /\ packets' = packets \ {k}
      /\ UNCHANGED <<presses, held, seq, jogInFlight, calls, quiet>>
  BY DEF Arrives
<1>2. /\ k.press \in Press /\ k.seq \in 1 .. MaxSeq /\ k.kind \in {"jog", "stop"}
      /\ latest \in [Press -> 0 .. MaxSeq] /\ MaxSeq \in Nat
      /\ latest[k.press] \in Nat /\ k.seq \in Nat
  BY JogBoundsAssumption DEF JogInv, JogTypeOK, Packet
<1>3. CASE k.seq <= latest[k.press]
  <2>1. UNCHANGED <<latest, moving>>
    BY <1>3 DEF Arrives
  <2>2. k.kind = "jog"
    BY <1>2, <1>3 DEF JogInv, PacketInv, StopIsLast
  <2>3. JogTypeOK'
    BY <1>1, <2>1 DEF JogInv, JogTypeOK
  <2>4. NoTraceAhead' /\ HeldOnlyJogs' /\ CallsCounted'
    BY <1>1, <2>1, FewerPackets DEF JogInv, PacketInv, NoTraceAhead, HeldOnlyJogs, Last
  <2>5. StopIsLast'
    BY <1>1, <2>1 DEF JogInv, PacketInv, StopIsLast
  <2>6. StoppedIsStale'
    <3>1. \A p : StopUnderWay(p) => StopUnderWay(p)'
      BY <1>1, <2>2 DEF StopUnderWay
    <3> QED BY <1>1, <2>1, <3>1 DEF JogInv, PacketInv, StoppedIsStale, Over
  <2> QED BY <2>3, <2>4, <2>5, <2>6 DEF JogInv, PacketInv
<1>4. CASE k.seq > latest[k.press]
  <2>1. /\ latest' = [latest EXCEPT ![k.press] = k.seq]
        /\ moving' = IF k.kind = "jog" THEN k.press
                     ELSE IF moving = k.press THEN Still ELSE moving
    BY <1>2, <1>4 DEF Arrives
  <2>2. /\ latest'[k.press] = k.seq
        /\ \A p \in Press \ {k.press} : latest'[p] = latest[p]
    BY <1>2, <2>1
  <2>3. moving' \in Press \cup {Still}
    BY <1>2, <2>1 DEF JogInv, JogTypeOK
  <2>4. JogTypeOK'
    BY <1>1, <1>2, <2>1, <2>3 DEF JogInv, JogTypeOK
  <2>5. NoTraceAhead'
    <3> SUFFICES ASSUME NEW b \in Button, NEW n \in 1 .. MaxPresses, n > presses'[b]
                 PROVE  latest'[<<b, n>>] = 0 /\ moving' # <<b, n>>
      BY <1>1, FewerPackets DEF NoTraceAhead
    <3>1. <<b, n>> # k.press /\ <<b, n>> \in Press
      BY <1>1 DEF JogInv, PacketInv, NoTraceAhead, Press
    <3> QED BY <1>1, <2>1, <2>2, <3>1, StillIsNoPress DEF JogInv, PacketInv, NoTraceAhead
  <2>6. HeldOnlyJogs'
    <3> SUFFICES ASSUME NEW b \in held PROVE latest'[Last(b)] <= seq[b]
      BY <1>1, FewerPackets DEF HeldOnlyJogs, Last
    <3>1. Last(b) \in Press
      BY LastIsPress
    <3>2. CASE Last(b) = k.press
      BY <2>2, <3>2 DEF JogInv, PacketInv, HeldOnlyJogs
    <3>3. CASE Last(b) # k.press
      BY <2>2, <3>1, <3>3 DEF JogInv, PacketInv, HeldOnlyJogs
    <3> QED BY <3>2, <3>3
  <2>7. StopIsLast'
    <3> SUFFICES ASSUME NEW s \in packets', s.kind = "stop"
                 PROVE  /\ latest'[s.press] < s.seq
                        /\ \A j \in packets' : j.press = s.press /\ j # s =>
                             j.kind = "jog" /\ j.seq < s.seq
      BY DEF StopIsLast
    <3>1. s \in packets /\ s # k /\ s.press \in Press
      BY <1>1 DEF JogInv, JogTypeOK, Packet
    <3>2. /\ latest[s.press] < s.seq
          /\ \A j \in packets : j.press = s.press /\ j # s => j.kind = "jog" /\ j.seq < s.seq
      BY <3>1 DEF JogInv, PacketInv, StopIsLast
    <3>3. latest'[s.press] < s.seq
      BY <2>2, <3>1, <3>2
    <3> QED BY <1>1, <3>2, <3>3
  <2>8. StoppedIsStale'
    <3> SUFFICES ASSUME NEW b \in Button, NEW n \in 1 .. MaxPresses, n <= presses[b],
                        Over(b, n), <<b, n>> \notin quiet, ~StopUnderWay(<<b, n>>)'
                 PROVE  /\ moving' # <<b, n>>
                        /\ \A j \in packets' :
                             j.press = <<b, n>> => j.seq <= latest'[<<b, n>>]
      BY <1>1 DEF StoppedIsStale, Over
    <3>1. <<b, n>> \in Press
      BY DEF Press
    <3>2. CASE k.press = <<b, n>> /\ k.kind = "stop"
      <4>1. \A j \in packets' : j.press = <<b, n>> => j.seq < k.seq /\ j.seq \in Nat
        BY <1>1, <3>2 DEF JogInv, JogTypeOK, Packet, PacketInv, StopIsLast
      <4>2. moving' # <<b, n>>
        BY <2>1, <3>1, <3>2, StillIsNoPress
      <4> QED BY <1>2, <2>2, <3>2, <4>1, <4>2
    <3>3. CASE ~(k.press = <<b, n>> /\ k.kind = "stop")
      <4>1. ~StopUnderWay(<<b, n>>)
        BY <1>1, <3>3 DEF StopUnderWay
      <4>2. /\ moving # <<b, n>>
            /\ \A j \in packets : j.press = <<b, n>> => j.seq <= latest[<<b, n>>]
        BY <4>1 DEF JogInv, PacketInv, StoppedIsStale
      <4>3. k.press # <<b, n>>
        BY <1>2, <1>4, <4>2
      <4> QED BY <1>1, <2>1, <2>2, <3>1, <4>2, <4>3, StillIsNoPress
    <3> QED BY <3>2, <3>3
  <2>9. CallsCounted'
    BY <1>1, FewerPackets
  <2> QED BY <2>4, <2>5, <2>6, <2>7, <2>8, <2>9 DEF JogInv, PacketInv
<1> QED BY <1>2, <1>3, <1>4

LEMMA LostInv == \A k \in packets : JogInv /\ Lost(k) => JogInv'
<1> SUFFICES ASSUME NEW k \in packets, JogInv, Lost(k) PROVE JogInv'
  OBVIOUS
<1>1. /\ packets' = packets \ {k}
      /\ quiet' = IF k.kind = "stop" THEN quiet \cup {k.press} ELSE quiet
      /\ UNCHANGED <<presses, held, seq, jogInFlight, calls, latest, moving>>
  BY DEF Lost
<1>2. JogTypeOK'
  BY <1>1 DEF JogInv, JogTypeOK, Packet
<1>3. NoTraceAhead' /\ HeldOnlyJogs' /\ CallsCounted'
  BY <1>1, FewerPackets DEF JogInv, PacketInv, NoTraceAhead, HeldOnlyJogs, Last
<1>4. StopIsLast'
  BY <1>1 DEF JogInv, PacketInv, StopIsLast
<1>5. StoppedIsStale'
  <2> SUFFICES ASSUME NEW b \in Button, NEW n \in 1 .. MaxPresses, n <= presses[b],
                      Over(b, n), <<b, n>> \notin quiet', ~StopUnderWay(<<b, n>>)'
               PROVE  /\ moving # <<b, n>>
                      /\ \A j \in packets' : j.press = <<b, n>> => j.seq <= latest[<<b, n>>]
    BY <1>1 DEF StoppedIsStale, Over
  <2>1. ~StopUnderWay(<<b, n>>) /\ <<b, n>> \notin quiet
    BY <1>1 DEF StopUnderWay
  <2> QED BY <1>1, <2>1 DEF JogInv, PacketInv, StoppedIsStale
<1> QED BY <1>2, <1>3, <1>4, <1>5 DEF JogInv, PacketInv

LEMMA MountStopsInv == JogInv /\ MountStops => JogInv'
<1> SUFFICES ASSUME JogInv, MountStops PROVE JogInv'
  OBVIOUS
<1>1. moving' = Still
      /\ UNCHANGED <<presses, held, seq, jogInFlight, calls, packets, quiet, latest>>
  BY DEF MountStops
<1>2. JogTypeOK'
  BY <1>1 DEF JogInv, JogTypeOK
<1>3. \A b \in Button : \A n \in 1 .. MaxPresses : moving' # <<b, n>>
  BY <1>1, StillIsNoPress DEF Press
<1>4. NoTraceAhead' /\ HeldOnlyJogs' /\ StopIsLast' /\ StoppedIsStale'
  BY <1>1, <1>3 DEF JogInv, PacketInv, NoTraceAhead, HeldOnlyJogs, StopIsLast,
                    StoppedIsStale, Over, StopUnderWay, Last
<1>5. CallsCounted'
  BY <1>1 DEF JogInv, CallsCounted, CallsOf
<1> QED BY <1>2, <1>4, <1>5 DEF JogInv, PacketInv

LEMMA JogNextInv == JogInv /\ [JogNext]_jogVars => JogInv'
<1>1. JogInv /\ UNCHANGED jogVars => JogInv'
  BY DEF JogInv, JogTypeOK, PacketInv, NoTraceAhead, HeldOnlyJogs, StopIsLast,
         StoppedIsStale, CallsCounted, CallsOf, Over, StopUnderWay, Last, jogVars
<1>2. \A b \in Button : {b} \in SUBSET Button
  OBVIOUS
<1> QED BY <1>1, <1>2, BeginInv, TickInv, EndInv, CancelInv, SettlesInv, ArrivesInv,
           LostInv, MountStopsInv DEF JogNext

LEMMA JogInvHolds == JogSpec => []JogInv
BY JogInitInv, JogNextInv, PTL DEF JogSpec

\* The types of what the pad and the controller keep (MotionControls).
THEOREM JogTypes == JogSpec => []JogTypeOK
<1>1. JogInv => JogTypeOK
  BY DEF JogInv
<1> QED BY <1>1, JogInvHolds, PTL

LEMMA ReleaseFromInv == JogInv => ReleasedPressStops
<1> SUFFICES ASSUME JogInv, NEW b \in Button, NEW n \in 1 .. MaxPresses,
                    moving = <<b, n>>, ~(b \in held /\ presses[b] = n)
             PROVE  <<b, n>> \in quiet \/ StopUnderWay(<<b, n>>)
  BY DEF ReleasedPressStops, StopUnderWay
<1>1. n <= presses[b]
  BY JogBoundsAssumption DEF JogInv, JogTypeOK, PacketInv, NoTraceAhead
<1> QED BY <1>1 DEF JogInv, PacketInv, StoppedIsStale, Over

(***************************************************************************)
(* However packets overtake each other and get lost, the mount moves for a *)
(* press that is over only while its stop is on its way, or if none was    *)
(* delivered (useJog against accept_jog_sequence).                         *)
(***************************************************************************)
THEOREM ReleaseEndsMotion == JogSpec => []ReleasedPressStops
BY ReleaseFromInv, JogInvHolds, PTL

\* A press adds at most one to the jog requests that are outstanding (sendTick).
THEOREM BacklogIsBounded == JogSpec => []BoundedBacklog
<1>1. JogInv => BoundedBacklog
  BY DEF JogInv, CallsCounted, BoundedBacklog
<1> QED BY <1>1, JogInvHolds, PTL
=============================================================================

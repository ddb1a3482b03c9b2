------------------------------- MODULE JogPad -------------------------------
(***************************************************************************)
(* The press-and-hold pad of the hand controller (MotionControls.tsx and   *)
(* the calls of lib/useMotionCommands.ts).  Each of its four buttons has a *)
(* hook of its own, and several can be held at once.                       *)
(*                                                                         *)
(* A press is a token; its packets carry it with a rising number.  Packets *)
(* arrive in any order or not at all, and a request may fail for the page  *)
(* although the packet arrives.  The controller at the other end is told   *)
(* by MountControl in full; here it is the rule that tells packets apart,  *)
(* and the press it moves for, if any.                                     *)
(***************************************************************************)
EXTENDS Naturals, FiniteSets

CONSTANTS
  Button,       \* the buttons of the pad
  MaxPresses,   \* bound: presses of each button
  MaxSeq        \* bound: packets of a press

ASSUME JogBoundsAssumption == MaxPresses \in Nat \ {0} /\ MaxSeq \in Nat \ {0, 1}

VARIABLES
  presses,      \* presses of each button so far; the last one is its token
  held,         \* buttons with a timer and a token
  seq,          \* seqRef.current of each button
  jogInFlight,  \* inFlightRef.current of each button
  calls,        \* jog requests that have not settled for the page
  packets,      \* packets on their way
  quiet,        \* presses that end by themselves: no stop was sent, or it was lost
  latest,       \* the highest number the controller has seen of each press
  moving        \* the press the mount moves for

jogVars == <<presses, held, seq, jogInFlight, calls, packets, quiet, latest, moving>>

Press == Button \X (1 .. MaxPresses)
Packet == [press : Press, seq : 1 .. MaxSeq, kind : {"jog", "stop"}]
Still == <<>>

Last(b) == <<b, presses[b]>>

JogTypeOK ==
  /\ presses \in [Button -> 0 .. MaxPresses]
  /\ held \in SUBSET Button
  /\ seq \in [Button -> 0 .. MaxSeq]
  /\ jogInFlight \in [Button -> BOOLEAN]
  /\ calls \in SUBSET (Press \X (1 .. MaxSeq))
  /\ packets \in SUBSET Packet
  /\ quiet \in SUBSET Press
  /\ latest \in [Press -> 0 .. MaxSeq]
  /\ moving \in Press \cup {Still}

JogInit ==
  /\ presses = [b \in Button |-> 0]
  /\ held = {}
  /\ seq = [b \in Button |-> 0]
  /\ jogInFlight = [b \in Button |-> FALSE]
  /\ calls = {}
  /\ packets = {}
  /\ quiet = {}
  /\ latest = [p \in Press |-> 0]
  /\ moving = Still
-----------------------------------------------------------------------------
\* The next packet of press p of button b, if its last number was n.
SendJog(b, p, n) ==
  /\ n + 1 < MaxSeq
  /\ jogInFlight' = [jogInFlight EXCEPT ![b] = TRUE]
  /\ seq' = [seq EXCEPT ![b] = n + 1]
  /\ calls' = calls \cup {<<p, n + 1>>}
  /\ packets' = packets \cup {[press |-> p, seq |-> n + 1, kind |-> "jog"]}

\* begin: a new token, a number that starts again, and a packet at once,
\* whatever is outstanding of an earlier press.
Begin(b) ==
  /\ b \notin held
  /\ presses[b] < MaxPresses
  /\ presses' = [presses EXCEPT ![b] = @ + 1]
  /\ held' = held \cup {b}
  /\ SendJog(b, <<b, presses[b] + 1>>, 0)
  /\ UNCHANGED <<quiet, latest, moving>>

\* A timer that does not look whether the last request is over.
TickAlways(b) ==
  /\ b \in held
  /\ SendJog(b, Last(b), seq[b])
  /\ UNCHANGED <<presses, held, quiet, latest, moving>>

\* The interval, which skips its turn while a request is in flight.
Tick(b) ==
  /\ b \in held
  /\ ~jogInFlight[b]
  /\ SendJog(b, Last(b), seq[b])
  /\ UNCHANGED <<presses, held, quiet, latest, moving>>

\* end, with a stop that repeats the number of the last packet.
EndSameSeq(b) ==
  /\ b \in held
  /\ held' = held \ {b}
  /\ packets' = packets \cup {[press |-> Last(b), seq |-> seq[b], kind |-> "stop"]}
  /\ UNCHANGED <<presses, seq, jogInFlight, calls, quiet, latest, moving>>

\* end: the pointer goes up.
End(b) ==
  /\ b \in held
  /\ held' = held \ {b}
  /\ seq' = [seq EXCEPT ![b] = @ + 1]
  /\ packets' = packets \cup {[press |-> Last(b), seq |-> seq[b] + 1, kind |-> "stop"]}
  /\ UNCHANGED <<presses, jogInFlight, calls, quiet, latest, moving>>

\* cancelHeartbeatOnly: the window loses focus or changes visibility, which
\* all hooks hear, the pointer is cancelled, or the pad goes away.
CancelHeartbeat(bs) ==
  /\ held \cap bs # {}
  /\ held' = held \ bs
  /\ quiet' = quiet \cup {Last(b) : b \in held \cap bs}
  /\ UNCHANGED <<presses, seq, jogInFlight, calls, packets, latest, moving>>

\* The promise of a jog settles, with an answer or an error.  A late one of an
\* earlier press clears the mark of the present one.
Settles(c) ==
  /\ c \in calls
  /\ calls' = calls \ {c}
  /\ jogInFlight' = [jogInFlight EXCEPT ![c[1][1]] = FALSE]
  /\ UNCHANGED <<presses, held, seq, packets, quiet, latest, moving>>
-----------------------------------------------------------------------------
\* accept_jog_sequence, then the motion or the end of it.
Arrives(k) ==
  /\ k \in packets
  /\ packets' = packets \ {k}
  /\ IF k.seq <= latest[k.press]
     THEN UNCHANGED <<latest, moving>>
     ELSE /\ latest' = [latest EXCEPT ![k.press] = k.seq]
          /\ moving' = IF k.kind = "jog" THEN k.press
                       ELSE IF moving = k.press THEN Still ELSE moving
  /\ UNCHANGED <<presses, held, seq, jogInFlight, calls, quiet>>

Lost(k) ==
  /\ k \in packets
  /\ packets' = packets \ {k}
  /\ quiet' = IF k.kind = "stop" THEN quiet \cup {k.press} ELSE quiet
  /\ UNCHANGED <<presses, held, seq, jogInFlight, calls, latest, moving>>

\* The watchdog of the controller, or a stop of everything: the button in the
\* middle of the pad, or the end of a slew.  A press that is held moves on
\* with its next packet.
MountStops ==
  /\ moving # Still
  /\ moving' = Still
  /\ UNCHANGED <<presses, held, seq, jogInFlight, calls, packets, quiet, latest>>

JogNext ==
  \/ \E b \in Button : Begin(b) \/ Tick(b) \/ End(b) \/ CancelHeartbeat({b})
  \/ CancelHeartbeat(Button)
  \/ \E c \in calls : Settles(c)
  \/ \E k \in packets : Arrives(k) \/ Lost(k)
  \/ MountStops

JogSpec == JogInit /\ [][JogNext]_jogVars
-----------------------------------------------------------------------------
(***************************************************************************)
(* "The backend ignores stale packets": however the packets of a press     *)
(* overtake each other, once its stop has arrived the mount does not move  *)
(* for it, so a press that is over is the one it moves for only as long as *)
(* the stop is on its way, or if none arrives and the watchdog must end it.*)
(***************************************************************************)
ReleasedPressStops ==
  \A b \in Button : \A n \in 1 .. MaxPresses :
    (moving = <<b, n>> /\ ~(b \in held /\ presses[b] = n)) =>
      \/ <<b, n>> \in quiet
      \/ \E k \in packets : k.press = <<b, n>> /\ k.kind = "stop"

CallsOf(b) == {c \in calls : c[1][1] = b}

(***************************************************************************)
(* "can't queue up a backlog of jogs": a press adds at most one to the     *)
(* requests that are outstanding, however long it lasts on a slow link.    *)
(* (One in all would be too much: a press that follows another at once     *)
(* forgets the request the other left under way.)                          *)
(***************************************************************************)
BoundedBacklog == \A b \in Button : Cardinality(CallsOf(b)) <= presses[b]
=============================================================================

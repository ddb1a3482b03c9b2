----------------------------- MODULE JsonSocket -----------------------------
(***************************************************************************)
(* The hook every live stream of the web page is built on                  *)
(* (lib/useJsonSocket.ts): one WebSocket, kept open by a retry loop while  *)
(* the owning component wants it.                                          *)
(*                                                                         *)
(* An effect run owns its sockets, its timer and its attempt counter.  The *)
(* cleanup of a run sets `cancelled`, which every handler of its sockets   *)
(* reads: a socket of an earlier run is one that is not `mine`.  A frame   *)
(* reaches onMessage only while its socket is open, as browsers drop       *)
(* frames of a socket that is closing.                                     *)
(***************************************************************************)
EXTENDS Naturals

CONSTANTS
  Sock,       \* WebSocket objects; one that is closed is used again
  Backoffs    \* RECONNECT_BACKOFF_MS.length

ASSUME BackoffsAssumption == Backoffs \in Nat \ {0}

NoSock == "no socket"

ASSUME NoSockAssumption == NoSock \notin Sock

VARIABLES
  wanted,         \* the `enabled` option the current effect run was made with
  sock,           \* the state of each WebSocket object, as the browser sees it
  mine,           \* the sockets of the current effect run
  wsRef,          \* wsRef.current
  timers,         \* reconnect timers of the current run that are pending
  attempt,        \* `attempt`, as far as the back-off table tells it apart
  connected,
  reconnecting

socketVars == <<wanted, sock, mine, wsRef, timers, attempt, connected, reconnecting>>

SockState == {"connecting", "open", "closing", "closed"}

Live(s) == s \in mine /\ sock[s] \in {"connecting", "open"}

SocketTypeOK ==
  /\ wanted \in BOOLEAN
  /\ sock \in [Sock -> SockState]
  /\ mine \in SUBSET Sock
  /\ wsRef \in Sock \cup {NoSock}
  /\ timers \in Nat
  /\ attempt \in 0 .. Backoffs - 1
  /\ connected \in BOOLEAN
  /\ reconnecting \in BOOLEAN

SocketInit ==
  /\ wanted = FALSE
  /\ sock = [s \in Sock |-> "closed"]
  /\ mine = {}
  /\ wsRef = NoSock
  /\ timers = 0
  /\ attempt = 0
  /\ connected = FALSE
  /\ reconnecting = FALSE
-----------------------------------------------------------------------------
\* The next delay without a look at the length of the table.
ScheduleOnAndOn ==
  /\ timers' = timers + 1
  /\ attempt' = attempt + 1
  /\ reconnecting' = TRUE

\* scheduleReconnect: one more timer, and the next delay of the table.
Schedule ==
  /\ timers' = timers + 1
  /\ attempt' = IF attempt + 1 < Backoffs THEN attempt + 1 ELSE attempt
  /\ reconnecting' = TRUE

\* connect of the run that has the sockets `kept`.
Connect(kept) ==
  \E s \in Sock :
    /\ sock[s] = "closed"
    /\ s \notin kept
    /\ sock' = [sock EXCEPT ![s] = "connecting"]
    /\ mine' = kept \cup {s}
    /\ wsRef' = s

\* The option turns on: a new effect run starts and connects at once.
Enable ==
  /\ ~wanted
  /\ wanted' = TRUE
  /\ Connect({})
  /\ timers' = 0
  /\ attempt' = 0
  /\ UNCHANGED <<connected, reconnecting>>

\* What ws.close() leaves of the socket wsRef names.
Closing ==
  [s \in Sock |-> IF s = wsRef /\ sock[s] # "closed" THEN "closing" ELSE sock[s]]

\* A cleanup that keeps the socket.
KeepSocket ==
  /\ wanted
  /\ wanted' = FALSE
  /\ mine' = {}
  /\ wsRef' = NoSock
  /\ timers' = 0
  /\ UNCHANGED <<sock, attempt, connected, reconnecting>>

\* The option turns off, or the component goes away: the cleanup.  The two
\* state variables keep what they said.
Disable ==
  /\ wanted
  /\ wanted' = FALSE
  /\ sock' = Closing
  /\ mine' = {}
  /\ wsRef' = NoSock
  /\ timers' = 0
  /\ UNCHANGED <<attempt, connected, reconnecting>>

TimerFires ==
  /\ timers > 0
  /\ timers' = timers - 1
  /\ Connect(mine \cap {s \in Sock : sock[s] # "closed"})
  /\ UNCHANGED <<wanted, attempt, connected, reconnecting>>

OnOpen(s) ==
  /\ sock[s] = "connecting"
  /\ sock' = [sock EXCEPT ![s] = "open"]
  /\ IF s \in mine
     THEN attempt' = 0 /\ connected' = TRUE /\ reconnecting' = FALSE
     ELSE UNCHANGED <<attempt, connected, reconnecting>>
  /\ UNCHANGED <<wanted, mine, wsRef, timers>>

\* A close handler that retries only a connection that had been open.
RetryOpened(s) ==
  /\ sock[s] # "closed"
  /\ sock' = [sock EXCEPT ![s] = "closed"]
  /\ IF s \in mine /\ sock[s] = "open"
     THEN connected' = FALSE /\ Schedule
     ELSE UNCHANGED <<connected, timers, attempt, reconnecting>>
  /\ UNCHANGED <<wanted, mine, wsRef>>

\* onerror, which only reports, and then onclose; or onclose alone.
OnClose(s) ==
  /\ sock[s] # "closed"
  /\ sock' = [sock EXCEPT ![s] = "closed"]
  /\ IF s \in mine
     THEN connected' = FALSE /\ Schedule
     ELSE UNCHANGED <<connected, timers, attempt, reconnecting>>
  /\ UNCHANGED <<wanted, mine, wsRef>>

\* A frame arrives; what onMessage does with it is the owner's.
OnMessage(s) == sock[s] = "open" /\ s \in mine

SocketNext ==
  \/ Enable
  \/ Disable
  \/ TimerFires
  \/ \E s \in Sock : OnOpen(s) \/ OnClose(s)

SocketSpec == SocketInit /\ [][SocketNext]_socketVars
-----------------------------------------------------------------------------
(***************************************************************************)
(* While it is wanted the hook has one socket under way or one timer       *)
(* pending, and never both or two: it does not "give up entirely while the *)
(* page is open" and onerror with onclose does not schedule twice.  When   *)
(* it is not wanted every socket is closing or closed.                     *)
(***************************************************************************)
OneConnectionLoop ==
  /\ wanted =>
       \/ timers = 1 /\ \A s \in Sock : ~Live(s)
       \/ /\ timers = 0
          /\ \E s \in Sock : Live(s)
  /\ ~wanted => timers = 0
  /\ \A s \in Sock : sock[s] \in {"connecting", "open"} => wanted /\ s = wsRef /\ s \in mine
=============================================================================

---------------------------- MODULE QueueClient -----------------------------
(***************************************************************************)
(* One browser in front of the control queue: the hook that knows the      *)
(* place of the user (lib/useQueueLease.ts), the gate between the queue    *)
(* page and the controls (App.tsx) and the form that joins (QueuePage).    *)
(*                                                                         *)
(* The server is LeaseQueue seen from one browser: `session` is what it    *)
(* would answer now.  A status on its way is the value it was sent with,   *)
(* so answers of requests and pushes of the socket can overtake each       *)
(* other.  What React does after a commit (effects, leaving a page) is     *)
(* part of the step that commits, except the automatic join, which is a    *)
(* step that nothing else precedes.                                        *)
(***************************************************************************)
EXTENDS Naturals

CONSTANTS
  Sites,      \* configurations: records [queue, captcha, password, open]
  Cooldown    \* bound: seconds of a rate limit, as the countdown steps

ASSUME CooldownAssumption == Cooldown \in Nat \ {0}

\* Places in the queue: not in it, in line, holding the lease, and holding it
\* with less than 15 s left.
Place == {"out", "waiting", "holder", "expiring"}
Active(p) == p \in {"holder", "expiring"}

VARIABLES
  site,         \* what GET /api/queue/config would answer
  session,      \* the place of this browser at the server
  config,       \* "asked", then "known" or "failed"
  boot,         \* the first GET /api/queue/status: "asked", its answer, "done"
  queueStatus,  \* the queue status of the page, "null" before the first
  socket,       \* the socket of /ws/queue: "off", "trying", "open"
  pushed,       \* the status on its way over that socket
  acked,        \* continueAcked
  wasLow,       \* lastLeaseRemainingRef.current < 15
  leaving,      \* window.location.reload() was called
  join,         \* the join request: none, or how it was made and its answer
  limited,      \* joinRateLimitedSec
  failed,       \* joinError is set
  captcha,      \* captchaToken: none, not yet sent, or sent before
  widget,       \* the captcha widget: none, shown, solved, or its element gone
  autoJoined,   \* autoJoinedTokenRef: no token, the current one, an older one
  password      \* the password as typed so far

pageVars == <<captcha, widget, autoJoined, password>>
leaseVars ==
  <<config, boot, queueStatus, socket, pushed, acked, wasLow, leaving, join, limited, failed>>
queueVars == <<site, session, leaseVars, pageVars>>

NoJoin == [by |-> "nobody", token |-> "none", password |-> "none", answer |-> "none"]
Joins ==
  [by : {"user", "page"}, token : {"none", "fresh", "used"},
   password : {"none", "wrong", "right"}, answer : {"none", "error", "limit"} \cup Place]

QueueTypeOK ==
  /\ site \in Sites
  /\ session \in Place
  /\ config \in {"asked", "known", "failed"}
  /\ boot \in {"asked", "done"} \cup Place
  /\ queueStatus \in {"null"} \cup Place
  /\ socket \in {"off", "trying", "open"}
  /\ pushed \in {"none"} \cup Place
  /\ acked \in BOOLEAN
  /\ wasLow \in BOOLEAN
  /\ leaving \in BOOLEAN
  /\ join \in {NoJoin} \cup Joins
  /\ limited \in 0 .. Cooldown
  /\ failed \in BOOLEAN
  /\ captcha \in {"none", "fresh", "used"}
  /\ widget \in {"none", "shown", "solved", "orphan"}
  /\ autoJoined \in {"none", "current", "older"}
  /\ password \in {"none", "wrong", "right"}

\* A page that was just loaded; the cookie may belong to a session already.
QueueInit ==
  /\ site \in Sites
  /\ session \in {"out", "waiting", "holder"}
  /\ config = "asked" /\ boot = "asked"
  /\ queueStatus = "null" /\ socket = "off" /\ pushed = "none"
  /\ acked = FALSE /\ wasLow = FALSE /\ leaving = FALSE
  /\ join = NoJoin /\ limited = 0 /\ failed = FALSE
  /\ captcha = "none" /\ widget = "none" /\ autoJoined = "none" /\ password = "none"

-----------------------------------------------------------------------------
InLine(s) == s \in {"waiting", "holder", "expiring"}

\* queueEnabled, hasControl and isActiveController.
QueueOn(c) == c = "known" /\ site.queue
HasControl(c, s) == QueueOn(c) => Active(s)
Controller(c, s, a) == HasControl(c, s) /\ (QueueOn(c) => a)

\* The gate of App: the queue page, or the controls.
OnQueuePage(c, s, a) == c = "asked" \/ (QueueOn(c) /\ ~Controller(c, s, a))

\* What the queue page knows of the site; nothing before the answer.
Captcha == config = "known" /\ site.captcha
Password == config = "known" /\ site.password
Open == config = "known" => site.open

FormShown == OnQueuePage(config, queueStatus, acked) /\ ~InLine(queueStatus)

\* The effect that joins by itself, once for each captcha token.
JoinDue ==
  /\ FormShown
  /\ Captcha
  /\ join = NoJoin
  /\ captcha # "none"
  /\ Password => password # "none"
  /\ autoJoined # "current"

\* After a commit with config c, status s and acknowledgement a: the state of
\* the queue page is lost with the page, and a captcha widget with the form.
PageCommits(c, s, a) ==
  IF OnQueuePage(c, s, a)
  THEN /\ widget' = IF InLine(s) /\ widget # "none" THEN "orphan" ELSE widget
       /\ UNCHANGED <<captcha, autoJoined, password>>
  ELSE captcha' = "none" /\ widget' = "none" /\ autoJoined' = "none" /\ password' = "none"

\* queueStatus becomes s, with `rest` still on its way over the socket, which
\* is wanted for users in the queue.  After the hard end of a lease, with
\* nobody in line, the page is about to reload.
Store(s, rest) ==
  /\ queueStatus' = s
  /\ socket' = IF ~InLine(s) THEN "off" ELSE IF socket = "off" THEN "trying" ELSE socket
  /\ pushed' = IF InLine(s) THEN rest ELSE "none"
  /\ wasLow' = IF Active(s) THEN s = "expiring" ELSE wasLow
  /\ \E nobodyInLine \in BOOLEAN :
       leaving' = (leaving \/ (Active(queueStatus) /\ ~Active(s) /\ wasLow /\ nobodyInLine))
  /\ PageCommits(config, s, acked)
  /\ UNCHANGED <<config, acked>>
-----------------------------------------------------------------------------
ConfigArrives ==
  /\ ~JoinDue
  /\ config = "asked"
  /\ config' \in {"known", "failed"}
  /\ PageCommits(config', queueStatus, acked)
  /\ UNCHANGED <<site, session, boot, queueStatus, socket, pushed, acked, wasLow,
                 leaving, join, limited, failed>>

BootAnswered ==
  /\ boot = "asked"
  /\ boot' \in {session, "done"}
  /\ UNCHANGED <<site, session, config, queueStatus, socket, pushed, acked, wasLow,
                 leaving, join, limited, failed, pageVars>>

BootArrives ==
  /\ ~JoinDue
  /\ boot \in Place
  /\ boot' = "done"
  /\ Store(boot, pushed)
  /\ UNCHANGED <<site, session, join, limited, failed>>

SocketOpens ==
  /\ socket = "trying"
  /\ socket' = "open"
  /\ pushed' = session
  /\ UNCHANGED <<site, session, config, boot, queueStatus, acked, wasLow, leaving,
                 join, limited, failed, pageVars>>

SocketDrops ==
  /\ socket = "open"
  /\ socket' = "trying"
  /\ pushed' = "none"
  /\ UNCHANGED <<site, session, config, boot, queueStatus, acked, wasLow, leaving,
                 join, limited, failed, pageVars>>

\* Once a second, and after every change of the queue.
ServerPushes ==
  /\ socket = "open"
  /\ pushed' = session
  /\ UNCHANGED <<site, session, config, boot, queueStatus, socket, acked, wasLow,
                 leaving, join, limited, failed, pageVars>>

\* A message handler that keeps to users in the queue.
OnlyInLine ==
  /\ ~JoinDue
  /\ pushed # "none" /\ InLine(pushed)
  /\ Store(pushed, "none")
  /\ UNCHANGED <<site, session, boot, join, limited, failed>>

PushArrives ==
  /\ ~JoinDue
  /\ pushed # "none"
  /\ Store(pushed, "none")
  /\ UNCHANGED <<site, session, boot, join, limited, failed>>
-----------------------------------------------------------------------------
\* join of the hook: a captcha token that goes out is used up.
StartJoin(who) ==
  /\ join = NoJoin
  /\ join' = [by |-> who, token |-> captcha, answer |-> "none",
              password |-> IF Password THEN password ELSE "none"]
  /\ captcha' = IF captcha = "none" THEN "none" ELSE "used"
  /\ failed' = FALSE /\ limited' = 0
  /\ UNCHANGED <<site, session, config, boot, queueStatus, socket, pushed, acked,
                 wasLow, leaving, widget, password>>

AutoJoin ==
  /\ JoinDue
  /\ autoJoined' = "current"
  /\ StartJoin("page")

\* submitHeaderJoin, of a button that is not disabled.
SubmitJoin ==
  /\ ~JoinDue
  /\ FormShown
  /\ limited = 0
  /\ Password => password # "none"
  /\ Captcha => captcha # "none"
  /\ Open
  /\ StartJoin("user")
  /\ UNCHANGED autoJoined

\* The server answers: the place of the session, a new one if need be, to a
\* token it has not seen and the right password; or an error.
Acceptable ==
  /\ site.open
  /\ site.captcha => join.token = "fresh"
  /\ site.password => join.password = "right"

JoinAnswered ==
  /\ join # NoJoin /\ join.answer = "none"
  /\ \/ /\ Acceptable
        /\ session' \in IF session = "out" THEN {"waiting", "holder"} ELSE {session}
        /\ join' = [join EXCEPT !.answer = session']
     \/ /\ join' \in {[join EXCEPT !.answer = "error"], [join EXCEPT !.answer = "limit"]}
        /\ UNCHANGED session
  /\ UNCHANGED <<site, config, boot, queueStatus, socket, pushed, acked, wasLow,
                 leaving, limited, failed, pageVars>>

\* An error effect of the queue page that keeps the token.
ForgetAutoJoin ==
  /\ autoJoined' = "none"
  /\ UNCHANGED <<captcha, widget, password>>

\* The effect of a join error on the queue page: another token is needed, and
\* the widget is asked for one.
AfterError ==
  /\ autoJoined' = "none"
  /\ captcha' = IF Captcha THEN "none" ELSE captcha
  /\ widget' = IF Captcha /\ widget = "solved" THEN "shown" ELSE widget
  /\ UNCHANGED password

JoinFails ==
  /\ join.answer \in {"error", "limit"}
  /\ join' = NoJoin
  /\ failed' = TRUE
  /\ limited' = IF join.answer = "limit" THEN Cooldown ELSE 0
  /\ IF OnQueuePage(config, queueStatus, acked) THEN AfterError ELSE UNCHANGED pageVars
  /\ UNCHANGED <<site, session, config, boot, queueStatus, socket, pushed, acked,
                 wasLow, leaving>>

JoinSucceeds ==
  /\ join.answer \in Place
  /\ join' = NoJoin
  /\ Store(join.answer, pushed)
  /\ UNCHANGED <<site, session, boot, limited, failed>>

CountDown ==
  /\ limited > 0
  /\ limited' = limited - 1
  /\ UNCHANGED <<site, session, config, boot, queueStatus, socket, pushed, acked,
                 wasLow, leaving, join, failed, pageVars>>
-----------------------------------------------------------------------------
\* The captcha script has loaded and puts a widget into the form, once.
WidgetRenders ==
  /\ FormShown
  /\ Captcha
  /\ widget = "none"
  /\ widget' = "shown"
  /\ UNCHANGED <<site, session, leaseVars, captcha, autoJoined, password>>

TokenArrives ==
  /\ widget = "shown"
  /\ widget' = "solved"
  /\ captcha' = "fresh"
  /\ autoJoined' = IF autoJoined = "current" THEN "older" ELSE autoJoined
  /\ UNCHANGED <<site, session, leaseVars, password>>

TokenExpires ==
  /\ ~JoinDue
  /\ widget = "solved"
  /\ widget' = "shown"
  /\ captcha' = "none"
  /\ autoJoined' = IF autoJoined = "current" THEN "older" ELSE autoJoined
  /\ UNCHANGED <<site, session, leaseVars, password>>

TypesPassword ==
  /\ ~JoinDue
  /\ FormShown
  /\ Password
  /\ password' \in {"none", "wrong", "right"}
  /\ UNCHANGED <<site, session, leaseVars, captcha, widget, autoJoined>>

\* acknowledgeContinue, the button of the welcome card.
Continue ==
  /\ OnQueuePage(config, queueStatus, acked)
  /\ InLine(queueStatus) /\ HasControl(config, queueStatus)
  /\ acked' = TRUE
  /\ PageCommits(config, queueStatus, TRUE)
  /\ UNCHANGED <<site, session, config, boot, queueStatus, socket, pushed, wasLow,
                 leaving, join, limited, failed>>

\* The page loads again, after a hard expiry: only the server remembers.
Reload ==
  /\ leaving
  /\ config' = "asked" /\ boot' = "asked"
  /\ queueStatus' = "null" /\ socket' = "off" /\ pushed' = "none"
  /\ acked' = FALSE /\ wasLow' = FALSE /\ leaving' = FALSE
  /\ join' = NoJoin /\ limited' = 0 /\ failed' = FALSE
  /\ captcha' = "none" /\ widget' = "none" /\ autoJoined' = "none" /\ password' = "none"
  /\ UNCHANGED <<site, session>>

\* The queue moves on, a lease runs down, a session is dropped.
SessionMoves ==
  /\ \/ session = "waiting" /\ session' \in {"holder", "out"}
     \/ session = "holder" /\ session' \in {"expiring", "out"}
     \/ session = "expiring" /\ session' = "out"
  /\ UNCHANGED <<site, leaseVars, pageVars>>

QueueNext ==
  \/ ConfigArrives \/ BootAnswered \/ BootArrives
  \/ SocketOpens \/ SocketDrops \/ ServerPushes \/ PushArrives
  \/ AutoJoin \/ SubmitJoin \/ JoinAnswered \/ JoinFails \/ JoinSucceeds \/ CountDown
  \/ WidgetRenders \/ TokenArrives \/ TokenExpires \/ TypesPassword
  \/ Continue \/ Reload \/ SessionMoves

\* Answers and pushes arrive, and a socket that is tried again opens for good
\* at some point; what users and servers decide is not fair.
QueueFairness ==
  /\ WF_queueVars(ConfigArrives)
  /\ WF_queueVars(BootAnswered)
  /\ WF_queueVars(BootArrives)
  /\ WF_queueVars(AutoJoin)
  /\ WF_queueVars(JoinAnswered)
  /\ WF_queueVars(JoinFails \/ JoinSucceeds)
  /\ WF_queueVars(ServerPushes)
  /\ SF_queueVars(SocketOpens)
  /\ SF_queueVars(PushArrives)

QueueSpec == QueueInit /\ [][QueueNext]_queueVars /\ QueueFairness
-----------------------------------------------------------------------------
(***************************************************************************)
(* The automatic join never sends a captcha token twice: whatever fails,   *)
(* expires or is typed meanwhile, only a token the server has not seen     *)
(* starts it (autoJoinedTokenRef with the error effect).                   *)
(***************************************************************************)
AutoJoinsAreFresh == join.by = "page" => join.token = "fresh"

ShowsControls == QueueOn(config) /\ Controller(config, queueStatus, acked)

ControlsOverdue == ShowsControls /\ ~Active(session)

(***************************************************************************)
(* A page that shows the controls of an enabled queue to a browser without *)
(* the lease takes them away in the end, although late answers of the      *)
(* first request or of a join may overtake what the socket said.           *)
(***************************************************************************)
ControlsFollowLease == ControlsOverdue ~> ~ControlsOverdue
=============================================================================

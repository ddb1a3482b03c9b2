--------------------------- MODULE SpectrumStatus ---------------------------
(***************************************************************************)
(* The status poll of the spectrum panel and what hangs on it              *)
(* (lib/useSpectrumStatus.ts): every 3 s a request for the status, whose   *)
(* answers may come out of order; while the last one shows a receiver      *)
(* without frames, a request to reopen it every 5 s; and the button that   *)
(* restarts the integration.  Intervals are steps that may happen at any   *)
(* time.  The receiver and the network are the environment.                *)
(***************************************************************************)
EXTENDS Naturals, FiniteSets

CONSTANTS
  MaxAnswers,   \* bound: different answers of status polls on their way
  MaxStrays     \* bound: reconnect requests outstanding of earlier effect runs

ASSUME AnswersAssumption == MaxAnswers \in Nat \ {0} /\ MaxStrays \in Nat \ {0}

\* Frames flow; reopened, no frame yet; the last frame is over 6 s old; the
\* mode is one without a receiver.
Receiver == {"live", "warming", "silent", "fault"}
Answer == Receiver \cup {"unavailable"}

VARIABLES
  polling,        \* the `enabled` option of the hook
  receiver,       \* the receiver, as the server would report it now
  answers,        \* answers on their way to the page
  status,         \* the state variable of the hook
  nudging,        \* an effect run with the 5 s interval is on
  inFlight,       \* inFlight of that run
  strays,         \* reconnect requests of earlier runs that are outstanding
  restart         \* integrationRestarting and integrationRestartError

statusVars == <<polling, receiver, answers, status, nudging, inFlight, strays, restart>>

StatusTypeOK ==
  /\ polling \in BOOLEAN
  /\ receiver \in Receiver
  /\ answers \in SUBSET Answer
  /\ status \in Answer \cup {"unknown"}
  /\ nudging \in BOOLEAN
  /\ inFlight \in BOOLEAN
  /\ strays \in 0 .. MaxStrays
  /\ restart \in {"idle", "busy", "failed"}

StatusInit ==
  /\ polling = FALSE
  /\ receiver \in Receiver
  /\ answers = {}
  /\ status = "unknown"
  /\ nudging = FALSE
  /\ inFlight = FALSE
  /\ strays = 0
  /\ restart = "idle"
-----------------------------------------------------------------------------
\* ageStale alone.
AgeStale(s) == s = "silent"

\* ageStale or modeStale, of an enabled receiver.
Stale(s) == s \in {"silent", "fault"}

StartPolling ==
  /\ ~polling
  /\ polling' = TRUE
  /\ UNCHANGED <<receiver, answers, status, nudging, inFlight, strays, restart>>

\* A refresh that gets the answer a.
Poll(a) ==
  /\ polling
  /\ Cardinality(answers \cup {a}) <= MaxAnswers
  /\ answers' = answers \cup {a}
  /\ UNCHANGED <<polling, receiver, status, nudging, inFlight, strays, restart>>

PollAnswered == Poll(receiver)
PollFails == Poll("unavailable")

\* An answer is stored.  When it changes what the recovery effect depends on,
\* the effect runs anew: its request in flight is forgotten, and a stale
\* receiver is asked for at once.
AnswerArrives(a) ==
  /\ a \in answers
  /\ answers' = answers \ {a}
  /\ status' = a
  /\ IF a = status
     THEN UNCHANGED <<nudging, inFlight, strays>>
     ELSE /\ nudging' = Stale(a)
          /\ inFlight' = Stale(a)
          /\ strays' = IF inFlight THEN strays + 1 ELSE strays
          /\ strays' <= MaxStrays
  /\ UNCHANGED <<polling, receiver, restart>>

\* The interval: an attempt, unless the last one is not over.
NudgeAgain ==
  /\ nudging
  /\ ~inFlight
  /\ inFlight' = TRUE
  /\ UNCHANGED <<polling, receiver, answers, status, nudging, strays, restart>>

\* The request of the current run, or a stray one, is over.
RequestOver ==
  \/ inFlight /\ inFlight' = FALSE /\ UNCHANGED strays
  \/ strays > 0 /\ strays' = strays - 1 /\ UNCHANGED inFlight

\* The server refuses (the user has no control) or is not reached.
NudgeRefused ==
  /\ RequestOver
  /\ UNCHANGED <<polling, receiver, answers, status, nudging, restart>>

\* The server closes the receiver and opens it again, whatever it was doing.
NudgeAccepted ==
  /\ RequestOver
  /\ receiver' = "warming"
  /\ UNCHANGED <<polling, answers, status, nudging, restart>>

RestartIntegration ==
  /\ restart # "busy"
  /\ restart' = "busy"
  /\ UNCHANGED <<polling, receiver, answers, status, nudging, inFlight, strays>>

RestartOver ==
  /\ restart = "busy"
  /\ restart' \in {"idle", "failed"}
  /\ UNCHANGED <<polling, receiver, answers, status, nudging, inFlight, strays>>

\* The receiver by itself: frames come, stop coming, or it breaks.
ReceiverChanges ==
  /\ \/ receiver = "warming" /\ receiver' \in {"live", "silent", "fault"}
     \/ receiver = "live" /\ receiver' \in {"silent", "fault"}
  /\ UNCHANGED <<polling, answers, status, nudging, inFlight, strays, restart>>

StatusNext ==
  \/ StartPolling
  \/ PollAnswered
  \/ PollFails
  \/ \E a \in Answer : AnswerArrives(a)
  \/ NudgeAgain
  \/ NudgeRefused
  \/ NudgeAccepted
  \/ RestartIntegration
  \/ RestartOver
  \/ ReceiverChanges

AnswerIsDelivered(a) == WF_statusVars(AnswerArrives(a))

\* Intervals keep firing, answers arrive, requests end, and a server that is
\* asked again and again answers, and accepts, at some point.
StatusFairness ==
  /\ WF_statusVars(StartPolling)
  /\ SF_statusVars(PollAnswered)
  /\ \A a \in Answer : AnswerIsDelivered(a)
  /\ WF_statusVars(NudgeAgain)
  /\ WF_statusVars(NudgeRefused \/ NudgeAccepted)
  /\ SF_statusVars(NudgeAccepted)

StatusSpec == StatusInit /\ [][StatusNext]_statusVars /\ StatusFairness
-----------------------------------------------------------------------------
ReceiverStalled == receiver \in {"silent", "fault"}

(***************************************************************************)
(* A receiver that stopped sending is reopened in the end, although polls  *)
(* and requests may fail, answers may come late and requests overlap.      *)
(***************************************************************************)
StalledReceiverReopened == ReceiverStalled ~> ~ReceiverStalled
=============================================================================

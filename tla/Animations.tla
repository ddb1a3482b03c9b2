------------------------------ MODULE Animations ------------------------------
(***************************************************************************)
(* The illustrations of the queue page: the hydrogen atom whose electron   *)
(* flips its spin and sends out the 21 cm wave, the Doppler and spectrum   *)
(* drawings and the star field.  All of them stop while nobody can see     *)
(* them and go on when they come back into view.  What is drawn is left    *)
(* out; the callbacks that are scheduled, the timeline of the atom and the *)
(* direction of its arrow are kept.                                        *)
(***************************************************************************)
EXTENDS Integers

CONSTANT EffectLoop   \* drawings whose frame loop is one React effect

ASSUME EffectLoopAssumption == EffectLoop \cap {"atom", "cloud", "wave", "stars"} = {}

Animated == EffectLoop \cup {"atom"}            \* watched by the shared hook
Loop     == EffectLoop \cup {"cloud", "wave", "stars"}

VARIABLES
  tabVisible,   \* document.visibilityState
  onScreen,     \* the drawings whose observer last reported them in view
  playing,      \* the watched drawings rendered as active, their effects run
  frames,       \* animation frames requested and not yet called, per loop
  cloudRaf,     \* rafRef of the electron cloud is not 0
  waveOn,       \* startRef of the wave field is not null
  scene,        \* where the timeline of the atom is
  flip,         \* the flip timeline is still vibrating the arrow
  arrow,        \* the rotation of the electron's arrow, in half turns
  arrowRot      \* arrowRotRef, the rotation the flips accumulated

seenVars == <<tabVisible, onScreen, playing>>
atomVars == <<scene, flip, arrow, arrowRot>>
animVars == <<seenVars, frames, cloudRaf, waveOn, atomVars>>

AnimTypeOK ==
  /\ tabVisible \in BOOLEAN
  /\ onScreen \subseteq Animated \cup {"stars"}
  /\ playing \subseteq Animated
  /\ frames \in [Loop -> 0..2]
  /\ cloudRaf \in BOOLEAN /\ waveOn \in BOOLEAN /\ flip \in BOOLEAN
  /\ scene \in {"apart", "atom", "spins", "flipped"}
  /\ arrow \in 0..3 /\ arrowRot \in 0..3

(* The hook takes a drawing for visible until its observer reports; the    *)
(* star field waits for the report.                                        *)
AnimInit ==
  /\ tabVisible = TRUE
  /\ onScreen = Animated
  /\ playing = Animated
  /\ frames = [l \in Loop |-> IF l \in {"wave", "stars"} THEN 0 ELSE 1]
  /\ cloudRaf = TRUE
  /\ waveOn = FALSE
  /\ scene = "apart" /\ flip = FALSE
  /\ arrow = 0 /\ arrowRot = 0

(* The star field is no component state: both listeners start and stop its *)
(* loop at once.                                                           *)
StarsFollow(tab, seen) ==
  [frames EXCEPT !["stars"] = IF tab /\ "stars" \in seen THEN 1 ELSE 0]

TabToggles ==
  /\ tabVisible' = ~tabVisible
  /\ frames' = StarsFollow(~tabVisible, onScreen)
  /\ UNCHANGED <<onScreen, playing, cloudRaf, waveOn, atomVars>>

Scroll(w) ==
  LET seen == IF w \in onScreen THEN onScreen \ {w} ELSE onScreen \cup {w}
  IN  /\ onScreen' = seen
      /\ frames' = StarsFollow(tabVisible, seen)
      /\ UNCHANGED <<tabVisible, playing, cloudRaf, waveOn, atomVars>>

(* The drawing is rendered with its new `active` and its effects run.  An  *)
(* effect loop requests its first frame, its cleanup cancels the last one. *)
CommitLoop(w) ==
  /\ frames' = [frames EXCEPT ![w] = IF w \in playing THEN 0 ELSE 1]
  /\ UNCHANGED cloudRaf

StartUnguarded ==
  /\ frames' = [frames EXCEPT !["cloud"] = @ + 1]
  /\ cloudRaf' = TRUE

(* startRef of the electron cloud: nothing while a frame is outstanding.   *)
StartCloud ==
  \/ /\ cloudRaf
     /\ UNCHANGED <<frames, cloudRaf>>
  \/ ~cloudRaf /\ StartUnguarded

(* A paused cloud is not cancelled: its next frame ends the loop.          *)
CommitAtom ==
  IF "atom" \in playing THEN UNCHANGED <<frames, cloudRaf>> ELSE StartCloud

Commit(w) ==
  /\ (w \in playing) # (tabVisible /\ w \in onScreen)
  /\ playing' = IF w \in playing THEN playing \ {w} ELSE playing \cup {w}
  /\ IF w = "atom" THEN CommitAtom ELSE CommitLoop(w)
  /\ UNCHANGED <<tabVisible, onScreen, waveOn, atomVars>>

(* The browser calls a frame only in a visible tab.  A frame that goes on  *)
(* has requested the next one before it draws.                             *)
CloudFrame ==
  /\ tabVisible /\ frames["cloud"] > 0
  /\ "atom" \notin playing
  /\ frames' = [frames EXCEPT !["cloud"] = @ - 1]
  /\ cloudRaf' = FALSE
  /\ UNCHANGED <<seenVars, waveOn, atomVars>>

(* The wave has crossed the section; paused, it waits frame after frame.   *)
WaveFades ==
  /\ tabVisible /\ frames["wave"] > 0
  /\ "atom" \in playing
  /\ frames' = [frames EXCEPT !["wave"] = 0]
  /\ waveOn' = FALSE
  /\ UNCHANGED <<seenVars, cloudRaf, atomVars>>

-----------------------------------------------------------------------------
(* The timeline of the atom, paused and resumed with it.                   *)

TimelineRuns == tabVisible /\ "atom" \in playing

Combine ==
  /\ TimelineRuns /\ scene = "apart"
  /\ scene' = "atom"
  /\ UNCHANGED <<seenVars, frames, cloudRaf, waveOn, flip, arrow, arrowRot>>

ShowSpins ==
  /\ TimelineRuns /\ scene = "atom"
  /\ scene' = "spins"
  /\ UNCHANGED <<seenVars, frames, cloudRaf, waveOn, flip, arrow, arrowRot>>

(* triggerFlip: a timeline of its own, which no pause reaches.             *)
TriggerFlip ==
  /\ TimelineRuns /\ scene = "spins"
  /\ scene' = "flipped" /\ flip' = TRUE
  /\ arrowRot' = (arrowRot + 1) % 4
  /\ UNCHANGED <<seenVars, frames, cloudRaf, waveOn, arrow>>

(* The arrow snaps over and the wave starts: emit cancels the frame of an  *)
(* earlier wave.                                                           *)
Snap ==
  /\ tabVisible /\ flip
  /\ flip' = FALSE
  /\ arrow' = arrowRot
  /\ waveOn' = TRUE
  /\ frames' = [frames EXCEPT !["wave"] = 1]
  /\ UNCHANGED <<seenVars, cloudRaf, scene, arrowRot>>

(* The particles part and the timeline starts over.  It holds the flipped  *)
(* state for 3.85 s of its own time, five times what the flip needs.       *)
LoopAgain ==
  /\ TimelineRuns /\ scene = "flipped" /\ ~flip
  /\ scene' = "apart"
  /\ arrow' = 0 /\ arrowRot' = 0
  /\ UNCHANGED <<seenVars, frames, cloudRaf, waveOn, flip>>

AnimNext ==
  \/ TabToggles
  \/ \E w \in Animated \cup {"stars"} : Scroll(w)
  \/ \E w \in Animated : Commit(w)
  \/ CloudFrame \/ WaveFades
  \/ Combine \/ ShowSpins \/ TriggerFlip \/ Snap \/ LoopAgain

AnimSpec == AnimInit /\ [][AnimNext]_animVars

-----------------------------------------------------------------------------
(* However often a drawing leaves the view and comes back, and whether or  *)
(* not a frame came in between, an active one has exactly one frame loop   *)
(* and none has two: a second loop would draw, and age the dots, twice a   *)
(* frame for as long as the page is open.                                  *)
LoopsRunOnce ==
  /\ \A l \in Loop : frames[l] <= 1
  /\ \A w \in EffectLoop : frames[w] = 1 <=> w \in playing
  /\ "atom" \in playing => frames["cloud"] = 1
  /\ frames["wave"] = 1 <=> waveOn
  /\ frames["stars"] = 1 <=> tabVisible /\ "stars" \in onScreen

(* The arrow of the electron is parallel to the proton's whenever the atom *)
(* comes together and turned once the flip has ended, in every round and   *)
(* wherever the page paused the sequence.                                  *)
FlipTurnsTheSpin ==
  ~flip => (arrow % 2 = 1 <=> scene = "flipped")
=============================================================================

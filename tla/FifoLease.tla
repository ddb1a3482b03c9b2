------------------------------ MODULE FifoLease ------------------------------
(***************************************************************************)
(* What the control queue promises its users, and nothing of how: one      *)
(* holder at a time, a line in order of arrival, and the first of the line *)
(* takes over in the very step in which the holder goes.                   *)
(***************************************************************************)
EXTENDS SeqRemoval

CONSTANTS Party,    \* whoever may stand in the line
          NoOne     \* the holder of a free lease, not a party

VARIABLES holder,   \* who may command the telescope
          line      \* who waits, first come first

fvars == << holder, line >>

FTypeOK ==
  /\ holder \in Party \cup {NoOne}
  /\ line \in Seq(Party)

FInit ==
  /\ holder = NoOne
  /\ line = << >>

\* t comes: it takes a free lease, or stands at the end of the line.
Enter(t) ==
  /\ t # holder
  /\ t \notin Range(line)
  /\ \/ /\ holder = NoOne
        /\ line = << >>
        /\ holder' = t
        /\ UNCHANGED line
     \/ /\ holder # NoOne
        /\ line' = Append(line, t)
        /\ UNCHANGED holder

\* All of D go at once; if the holder is among them the first who is left
\* holds the lease.
Depart(D) ==
  LET left == Without(line, D) IN
  \/ /\ holder \notin D
     /\ holder' = holder
     /\ line' = left
  \/ /\ holder \in D
     /\ left = << >>
     /\ holder' = NoOne
     /\ line' = << >>
  \/ /\ holder \in D
     /\ left # << >>
     /\ holder' = Head(left)
     /\ line' = Tail(left)

FNext ==
  \/ \E t \in Party : Enter(t)
  \/ \E D \in SUBSET Party : Depart(D)

\* Nobody keeps the lease for ever.
HolderGoes == \E D \in SUBSET Party : holder \in D /\ Depart(D)

FSpec == FInit /\ [][FNext]_fvars /\ WF_fvars(HolderGoes)
=============================================================================

----------------------------- MODULE SeqRemoval -----------------------------
(***************************************************************************)
(* Taking elements out of a Python deque: a filter that keeps the order of *)
(* what stays.  The recursion is a function over the prefix lengths, so    *)
(* that SeqRemovalProofs can reason about it for every sequence.           *)
(***************************************************************************)
EXTENDS Naturals, Sequences, Functions

\* One step of the filter: what the prefix of length i leaves of s, when the
\* prefix of length i - 1 leaves `kept'.
KeepNext(s, D, kept, i) == IF s[i] \in D THEN kept ELSE Append(kept, s[i])

\* s without the members of D.
Without(s, D) ==
  LET left[i \in 0 .. Len(s)] ==
        IF i = 0 THEN << >> ELSE KeepNext(s, D, left[i - 1], i)
  IN  left[Len(s)]

\* x stands somewhere before y in s.
Precedes(s, x, y) ==
  \E i, j \in DOMAIN s : i < j /\ s[i] = x /\ s[j] = y
=============================================================================

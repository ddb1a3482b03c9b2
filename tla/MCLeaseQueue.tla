---------------------------- MODULE MCLeaseQueue ----------------------------
(* Small instances of LeaseQueue for TLC. *)
EXTENDS LeaseQueue, TLC

\* Tokens and addresses are interchangeable; only for the runs without
\* liveness properties.
Symmetric == Permutations(Token) \cup Permutations(Ip)
=============================================================================

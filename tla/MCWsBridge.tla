----------------------------- MODULE MCWsBridge -----------------------------
(* Small instances of WsBridge for TLC; the values are in the .cfg files. *)
EXTENDS WsBridge
=============================================================================

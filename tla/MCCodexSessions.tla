---------------------------- MODULE MCCodexSessions ----------------------------
(* Small instances of CodexSessions for TLC. *)
EXTENDS CodexSessions
CONSTANTS c1, c2
================================================================================

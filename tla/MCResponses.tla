---------------------------- MODULE MCResponses ----------------------------
(* A small instance of ResponseQueries, and of SkippedEntries in it, for TLC. *)
EXTENDS ResponseQueries

MCDays == 1..4
=============================================================================

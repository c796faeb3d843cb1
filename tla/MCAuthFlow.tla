----------------------------- MODULE MCAuthFlow -----------------------------
(* A small instance of AuthFlow for TLC.                                   *)
EXTENDS AuthFlow

CONSTANTS s1, s2

MCSubmitters == {s1, s2}
=============================================================================

---------------------------- MODULE MCEpexPrices ----------------------------
(* A small instance of EpexPrices for TLC.                                 *)
EXTENDS EpexPrices

MCDurations == {1, 2}
=============================================================================

---------------------------- MODULE MCTouSchedule ----------------------------
(* A small instance of TouSchedule for TLC: days of eight ticks, the hour    *)
(* that is repeated or skipped has two of them.                             *)
EXTENDS TouSchedule

MCTimes == {0, 3, 6}
ClockBack == {"back"}
AnyClock == {"steady", "back", "forward"}
=============================================================================

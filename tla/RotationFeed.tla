---------------------------- MODULE RotationFeed ----------------------------
(***************************************************************************)
(* What the token store promises the consumer who passed on_token_refresh. *)
(* Rotations are numbered from 1.  The consumer sees a subsequence of       *)
(* them, in order; a rotation that has been superseded is never offered;    *)
(* and, unless the event loop is torn down, whenever the feed falls behind  *)
(* it catches up with the newest rotation.                                  *)
(*                                                                         *)
(* TokenLifecycle implements this with a lock, a queue and a drain task.   *)
(***************************************************************************)
EXTENDS Naturals

VARIABLES
    rotated,   \* number of the newest rotation, 0 before the first
    offered,   \* number of the rotation the callback was last started with
    halted     \* TRUE once a delivery task was cancelled (loop teardown)

feedVars == <<rotated, offered, halted>>

FeedInit ==
    /\ rotated = 0
    /\ offered = 0
    /\ halted = FALSE

\* A refresh or a login replaces the held pair.
Rotate ==
    /\ rotated' = rotated + 1
    /\ UNCHANGED <<offered, halted>>

\* The callback starts with the newest pair, which it has not seen yet.
Offer ==
    /\ offered < rotated
    /\ offered' = rotated
    /\ UNCHANGED <<rotated, halted>>

\* The event loop cancels the task that runs the callbacks.
Halt ==
    /\ halted' = TRUE
    /\ UNCHANGED <<rotated, offered>>

FeedNext == Rotate \/ Offer \/ Halt

\* An offer that stays due is made, as long as nobody cancels the deliveries.
FeedFairness == WF_feedVars(~halted /\ Offer)

FeedSafety == FeedInit /\ [][FeedNext]_feedVars
FeedSpec == FeedSafety /\ FeedFairness
=============================================================================

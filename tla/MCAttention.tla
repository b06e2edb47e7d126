---------------------------- MODULE MCAttention ----------------------------
(* A small instance of Attention for TLC.                                  *)
EXTENDS Attention

\* Bound: an event is escalated only after one device has dismissed it, so
\* that the alerts of two stages go to one device at most.
Bounded == worst' # worst => dismissed # {}

\* The scheduler runs, and one device's push service may never answer.
FairAttention ==
    AttentionInit /\ [][AttentionNext /\ Bounded]_attentionVars /\ AttentionFairness
=============================================================================

-------------------------- MODULE MCSuperTimeline --------------------------
(* Small instances of SuperTimeline for TLC.                               *)
EXTENDS SuperTimeline, TLC

CONSTANTS j1, t1, b1, b2

\* Builds differ in their name only.
BuildSymmetry == Permutations(Reader)
=============================================================================

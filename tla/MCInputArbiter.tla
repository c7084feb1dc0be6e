--------------------------- MODULE MCInputArbiter ---------------------------
(***************************************************************************)
(* Instances of the input arbiter for TLC.  One unit of time is about the  *)
(* stale limit (250 ms); the takeover time (1500 ms) is one unit more than *)
(* the limit instead of five, which leaves the ages a sample can be told   *)
(* apart by: fresh, stale, and silent for long enough.                     *)
(***************************************************************************)
EXTENDS InputArbiter

AutoOrDs5 == {"auto", "dualsense"}

=============================================================================

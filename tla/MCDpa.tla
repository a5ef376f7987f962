-------------------------------- MODULE MCDpa --------------------------------
(* Two DPAs of one channel each and one grant on the first. *)
EXTENDS Dpa

TwoDpas == {"east", "port"}
OneBandEach == [d \in TwoDpas |-> IF d = "east" THEN {1} ELSE {2}]
OneGrant == {"g"}
OnFirstBand == [g \in OneGrant |-> {1}]
==============================================================================

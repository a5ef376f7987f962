------------------------------ MODULE FadMirror ------------------------------
(***************************************************************************)
(* What the exchange of Full Activity Dumps promises: a SAS holds of its   *)
(* peer exactly one dump that the peer did publish, whole and under its    *)
(* own generation, or nothing.  Module FadExchange implements it.          *)
(***************************************************************************)
CONSTANTS Dumps, Nothing

VARIABLES
    offered,   \* dumps published so far
    mirror     \* what the other SAS stores

Init == offered = {} /\ mirror = Nothing

Offer ==
    /\ \E d \in Dumps : offered' = offered \cup {d}
    /\ UNCHANGED mirror

Take ==
    /\ mirror' \in offered
    /\ UNCHANGED offered

Spec == Init /\ [][Offer \/ Take]_<<offered, mirror>>
=============================================================================

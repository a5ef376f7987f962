------------------------------- MODULE MCCpas -------------------------------
(* Small instances of Cpas for TLC.                                        *)
EXTENDS Cpas, TLC

(* Grants, workers, requests and peers are interchangeable.                *)
MCSymmetry ==
    Permutations(Grants) \cup Permutations(Workers) \cup
    Permutations(Requests) \cup Permutations(Peers)
=============================================================================

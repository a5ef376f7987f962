--------------------------- MODULE MCCbsdGrants -----------------------------
(* Small instances of CbsdGrants for TLC.                                  *)
EXTENDS CbsdGrants, TLC

(* Two ranges that touch: equal ranges overlap, different ones do not.     *)
R(l, h) == [lo |-> l, hi |-> h]
MCRanges    == {R(0, 1), R(1, 2)}
MCPalRanges == {R(1, 2)}
MCSymmetry == Permutations(Grants) \cup Permutations(Sessions)
                 \cup Permutations(Certs)
=============================================================================

----------------------------- MODULE MCSpectrum -----------------------------
(***************************************************************************)
(* Two CBSDs on a line of a dozen places, a band of three channels of two  *)
(* units, and one or two records of every table.                           *)
(***************************************************************************)
EXTENDS Spectrum

R(low, high) == [low |-> low, high |-> high]
Z(from, to) == {[from |-> from, to |-> to]}

MCNtia == Z(0, 2)
MCNrqz == [from |-> 20, to |-> 21]
MCOfficeKm == [A |-> 1, B |-> 2]
MCMountainB == {[limit |-> 2, km |-> 2], [limit |-> 4, km |-> 3]}
MCQuietAreas == {[zone |-> {}, at |-> 11, km |-> 1]}
MCCategoryMax == [A |-> 30, B |-> 47]
MCPathLoss == << 100, 110, 130 >>
MCThreshold == -96

C1 == [id |-> "c1", user |-> "u1", at |-> 3, category |-> "A", faces |-> {},
       capability |-> 28, fccMax |-> 47]
C2 == [id |-> "c2", user |-> "u2", at |-> 6, category |-> "B", faces |-> {"east"},
       capability |-> 28, fccMax |-> 47]
MCCbsds == {C1, C2}

MCExclusionZones == {[zone |-> Z(2, 4), ranges |-> {R(3, 5)}], [zone |-> {}, ranges |-> {}]}
MCExzFeeds == {{}, {[zone |-> Z(5, 9), ranges |-> {}]}}
F1 == [id |-> "f1", at |-> 4, range |-> R(6, 8), ttc |-> "no"]
F2 == [id |-> "f2", at |-> 7, range |-> R(6, 10), ttc |-> "yes"]
F4 == [id |-> "f4", at |-> 11, range |-> R(6, 8), ttc |-> "no"]
MCFss == {F1, F2, F4}
F3 == [id |-> "f3", at |-> 11, range |-> R(6, 8), ttc |-> "no"]
MCInitialFss == {F3}
MCInitialFeed == {F4}
MCFssFeeds == {{}, {F1, F3}}
MCWisp == {[id |-> "w1", zone |-> Z(5, 7), range |-> R(5, 6)],
           [id |-> "w2", zone |-> Z(3, 3), range |-> R(2, 4)]}
G1 == [id |-> "g1", at |-> 5]
MCGwbl == {G1}
MCGwblFeeds == {{}}

MCCounties == [k1 |-> Z(1, 6)]
P1 == [id |-> "p1", user |-> "u1", range |-> R(2, 4), status |-> "VALID",
       county |-> "k1", area |-> {}]
P2 == [id |-> "p2", user |-> "u2", range |-> R(4, 6), status |-> "VALID",
       county |-> "none", area |-> {}]
MCPals == {P1, P2}
MCPalRecords == {[P1 EXCEPT !.user = "u2"]}
MCPalFeeds == {{P2}}
MCPpaZones == {[id |-> "z1", pals |-> << "p2", "p1" >>, cluster |-> {"c2"}, zone |-> Z(2, 4)]}
MCClusterLists == {[user |-> "u1", pal |-> "none", cbsds |-> << "c1" >>]}
MCPpaRequests == {
    [pals |-> << "p1" >>, cbsds |-> << "c1" >>, claimed |-> {}, user |-> "u1"],
    [pals |-> << "p1" >>, cbsds |-> << >>, claimed |-> Z(3, 5), user |-> "u1"]}

MCRequests == {[cbsd |-> "c1", range |-> R(2, 4), eirp |-> 12],
               [cbsd |-> "c1", range |-> R(6, 8), eirp |-> 12],
               [cbsd |-> "c2", range |-> R(4, 6), eirp |-> 18]}
==============================================================================

--------------------------------- MODULE Iap ---------------------------------
(***************************************************************************)
(* The iterative allocation process at one protection point               *)
(* (services/iap/engine.py): grants whose interference is below the fair   *)
(* share of every channel lock in, and when a round locks nobody the       *)
(* others lose one step of EIRP, down to a floor where they are            *)
(* terminated.  Frequencies are numbers, interference a gain times the     *)
(* EIRP level: outside an ESC the path loss does not depend on the channel *)
(* (coupling.py:357-383), and the ESC mask weighs every grant on a channel *)
(* alike.  Evaluation runs the rounds at every point of a snapshot.        *)
(***************************************************************************)
EXTENDS Integers, FiniteSets, FiniteSetsExt

CONSTANTS
    Origin,      \* lower edge of the band
    Width,       \* IAPBW_HZ
    CatAEdge,    \* ESC_CAT_A_HIGH_FREQ_HZ
    NearKm, FarKm,   \* ESC neighbourhood of category A and of the others
    Floor        \* eirp_floor_dbm_mhz

ASSUME IapAssumption ==
    /\ Width \in Nat \ {0}
    /\ NearKm \in Nat /\ FarKm \in Nat /\ NearKm <= FarKm
    /\ {Origin, CatAEdge, Floor} \subseteq Nat

VARIABLES
    point,     \* the ProtectionPoint
    grants,    \* GrantRfInfo of the local and peer grants
    eirp,      \* level of every neighbour
    settled,   \* neighbours locked in
    floored,   \* neighbours that fell below the floor
    residual,  \* iap_threshold_ch
    unsat      \* unsat_count_ch

inputs == <<point, grants>>
iapVars == <<inputs, eirp, settled, floored, residual, unsat>>

-----------------------------------------------------------------------------
Cross(a, b) == a.low < b.high /\ a.high > b.low

(* overlapping_iap_channels: from the aligned channel that holds low on.   *)
IapChannels(p) ==
    LET low == IF p.low > Origin THEN p.low ELSE Origin
        start == Origin + ((low - Origin) \div Width) * Width
        starts == {c \in start .. p.high - 1 : (c - start) % Width = 0}
    IN {[low |-> c, high |-> c + Width] :
            c \in {x \in starts : x + Width > p.low}}

(* grant_overlaps_channel, with the category A rule of an ESC.             *)
GrantOverlapsChannel(g, c, kind) ==
    /\ Cross(g, c)
    /\ ~ /\ kind = "esc"
         /\ g.category = "A"
         /\ g.low >= CatAEdge \/ c.low >= CatAEdge

(* esc_neighborhood_km_for_category: an unknown category counts as B.      *)
EscNeighborhoodKm(category) == IF category = "A" THEN NearKm ELSE FarKm

(* grants_in_neighborhood                                                  *)
Neighbors(p, gs) ==
    {g \in gs :
        /\ Cross(g, p)
        /\ CASE p.kind = "esc" -> g.km <= EscNeighborhoodKm(g.category)
             [] p.radius >= 0 -> g.km <= p.radius
             [] OTHER -> TRUE}

Coupling(g, level) == g.gain * level

(* What a set of grants puts on a channel together, at the given levels    *)
(* and at the levels of the grants themselves.                             *)
TotalCoupling(level, gs) == SumFunctionOnSet([g \in gs |-> Coupling(g, level[g])], gs)
GrantedCoupling(gs) == TotalCoupling([g \in gs |-> g.eirp], gs)

(* The channels that constrain a grant.                                    *)
ChannelsOf(g, p) == {c \in IapChannels(p) : GrantOverlapsChannel(g, c, p.kind)}

-----------------------------------------------------------------------------
Running == Neighbors(point, grants)
Open == Running \ (settled \cup floored)

InitialTables(p, gs) ==
    [eirp |-> [g \in Neighbors(p, gs) |-> g.eirp],
     residual |-> [c \in IapChannels(p) |-> p.threshold],
     unsat |-> [c \in IapChannels(p) |->
          Cardinality({g \in Neighbors(p, gs) : GrantOverlapsChannel(g, c, p.kind)})]]

(* Mutant: one channel with room is enough.                                *)
BelowShareSomewhere(g) ==
    \E c \in ChannelsOf(g, point) : Coupling(g, eirp[g]) * unsat[c] < residual[c]

(* Below the fair share residual / unsat of every channel it overlaps.     *)
WithinFairShare(g) ==
    /\ ChannelsOf(g, point) # {}
    /\ \A c \in ChannelsOf(g, point) :
          Coupling(g, eirp[g]) * unsat[c] < residual[c]

Satisfied == {g \in Open : WithinFairShare(g)}
On(c, gs) == {g \in gs : c \in ChannelsOf(g, point)}

(* Mutant: a grant that is locked still counts.                            *)
LockRoundKeepsCount ==
    /\ Satisfied # {}
    /\ settled' = settled \cup Satisfied
    /\ residual' = [c \in DOMAIN residual |->
          residual[c] - TotalCoupling(eirp, On(c, Satisfied))]
    /\ UNCHANGED <<inputs, eirp, floored, unsat>>

(* A round that locks: the grants take their interference out of the       *)
(* budget and no longer count.                                             *)
LockRound ==
    /\ Satisfied # {}
    /\ settled' = settled \cup Satisfied
    /\ residual' = [c \in DOMAIN residual |->
          residual[c] - TotalCoupling(eirp, On(c, Satisfied))]
    /\ unsat' = [c \in DOMAIN unsat |-> unsat[c] - Cardinality(On(c, Satisfied))]
    /\ UNCHANGED <<inputs, eirp, floored>>

(* Mutant: grants that could lock lose power too.                          *)
LowerEveryRound ==
    LET gone == {g \in Open : eirp[g] - 1 < Floor}
    IN /\ Open # {}
       /\ eirp' = [g \in Running |-> IF g \in Open THEN eirp[g] - 1 ELSE eirp[g]]
       /\ floored' = floored \cup gone
       /\ unsat' = [c \in DOMAIN unsat |-> unsat[c] - Cardinality(On(c, gone))]
       /\ UNCHANGED <<inputs, settled, residual>>

(* Mutant: at the floor a grant stays.                                    *)
LowerToFloor ==
    /\ Open # {}
    /\ Satisfied = {}
    /\ eirp' = [g \in Running |->
          IF g \in Open /\ eirp[g] > Floor THEN eirp[g] - 1 ELSE eirp[g]]
    /\ UNCHANGED <<inputs, settled, floored, residual, unsat>>

(* A round that locks nobody: everyone left gives up one step, and below   *)
(* the floor the grant is removed.                                         *)
LowerRound ==
    LET gone == {g \in Open : eirp[g] - 1 < Floor}
    IN /\ Open # {}
       /\ Satisfied = {}
       /\ eirp' = [g \in Running |-> IF g \in Open THEN eirp[g] - 1 ELSE eirp[g]]
       /\ floored' = floored \cup gone
       /\ unsat' = [c \in DOMAIN unsat |-> unsat[c] - Cardinality(On(c, gone))]
       /\ UNCHANGED <<inputs, settled, residual>>

Done == Open = {}

(* The decision on a grant; without channels or neighbours everything is   *)
(* kept.  Peers get none.                                                  *)
Decision(g) ==
    IF IapChannels(point) = {} \/ g \notin Running THEN "keep"
    ELSE IF g \in floored THEN "terminate"
    ELSE IF eirp[g] < g.eirp THEN "reduce_power"
    ELSE "keep"

Managed == {g \in grants : g.managing}

-----------------------------------------------------------------------------
(* Whatever is locked fits: on every channel the grants that keep a        *)
(* permission, at the power they keep, stay below the threshold, and what  *)
(* they leave is what the engine still deals out (engine.py:185-219).      *)
BudgetKept ==
    \A c \in IapChannels(point) :
        /\ residual[c] >= 0
        /\ residual[c] + TotalCoupling(eirp, On(c, settled)) = point.threshold
        /\ unsat[c] = Cardinality(On(c, Open))

(* A grant below the fair share it starts with is never asked to reduce,   *)
(* however long the others take (engine.py:165-183).                       *)
FairGrantsKeepPower ==
    \A g \in Running :
        LET share(c) == Cardinality(On(c, Running))
        IN /\ ChannelsOf(g, point) # {}
           /\ \A c \in ChannelsOf(g, point) :
                 Coupling(g, g.eirp) * share(c) < point.threshold
           => g \notin floored /\ eirp[g] = g.eirp

(* Where there is room for everybody nobody is cut: a grant that a channel *)
(* constrains keeps its power at a point whose neighbours together stay    *)
(* below the threshold on every channel, however their channels overlap    *)
(* and in whatever rounds they lock.  So where the headroom test of a      *)
(* request (iap/admission.py:331-343) leaves every channel below its       *)
(* threshold, the next run takes nothing back.  (engine.py:156-220)        *)
RoomCutsNobody ==
    (\A c \in IapChannels(point) : GrantedCoupling(On(c, Running)) < point.threshold)
    => \A g \in Running : ChannelsOf(g, point) # {} => g \notin floored /\ eirp[g] = g.eirp
==============================================================================

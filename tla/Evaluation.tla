----------------------------- MODULE Evaluation -----------------------------
(***************************************************************************)
(* The decisions CPAS takes on a frozen snapshot                           *)
(* (services/cpas_service.py:449-718, mcp_protection.py): grants a peer or *)
(* an incumbent forbids end first, the allocation of Iap then runs at      *)
(* every protection point the snapshot yields, the move lists of the       *)
(* active DPAs are built from the power it leaves, and the three groups    *)
(* of decisions are merged into one plan.                                  *)
(*                                                                         *)
(* A snapshot is [locals, peers, exz, wisp, fss, gwbl, pals, ppas,         *)
(* sensors, connectivity, peerPpas, peerSensors, dpas, coupling, loss]; a  *)
(* local grant is [id, cbsd, fad, at, category, range, eirp, indoor,       *)
(* height, ground], a peer CBSD [id, at, category, height, grants].        *)
(***************************************************************************)
EXTENDS Iap, Zones, Sequences

CONSTANTS
    Snapshots,         \* generations to evaluate
    Profile,           \* IapThresholdProfile and neighbourhoods by kind
    PathGain,          \* linear gain by distance, the first at distance 0
    TtcHigh,           \* FSS_TTC_HIGH_HZ
    EscPassband,       \* ESC_PASSBAND_LOW_HZ, ESC_PASSBAND_HIGH_HZ
    PeerEscKm, PeerPpaKm,   \* radius_m and buffer_m of the profile
    HeightSplit        \* HEIGHT_SPLIT_M

ASSUME EvaluationAssumption ==
    /\ {"fss_cochannel", "fss_blocking", "gwpz", "ppa", "esc"} \subseteq DOMAIN Profile
    /\ \A k \in DOMAIN Profile : Profile[k].threshold \in Nat
    /\ PathGain \in Seq(Nat)

(* What the tables guarantee of a generation: grants are finitely many,    *)
(* ids of local grants are unique, the ranges of grants and DPAs are not   *)
(* empty, positions, levels and limits are natural numbers.                *)
LocalFields ==
    {"id", "cbsd", "fad", "at", "category", "range", "eirp", "managing", "indoor", "height", "ground"}
RangeOK(r) == {r.low, r.high} \subseteq Nat /\ r.low < r.high
ZoneOK(zone) == \A a \in zone : {a.from, a.to} \subseteq Nat
LocalOK(g) ==
    /\ DOMAIN g = LocalFields
    /\ {g.id, g.at, g.eirp} \subseteq Nat
    /\ g.height \in Int
    /\ RangeOK(g.range)
    /\ g.managing
PeerOK(p) ==
    /\ p.at \in Nat
    /\ IsFiniteSet(p.grants)
    /\ \A h \in p.grants : {h.id, h.eirp} \subseteq Nat /\ RangeOK(h.range)
DpaOK(d) == d.limit \in Nat /\ RangeOK(d.range) /\ ZoneOK(d.zone)
SnapshotOK(s) ==
    /\ IsFiniteSet(s.locals) /\ IsFiniteSet(s.peers)
    /\ \A g \in s.locals : LocalOK(g)
    /\ \A g, h \in s.locals : g.id = h.id => g = h
    /\ \A p \in s.peers : PeerOK(p)
    /\ \A d \in s.dpas : DpaOK(d)
    /\ \A z \in s.wisp \cup s.ppas : ZoneOK(z.zone)
    /\ \A e \in s.fss \cup s.sensors \cup s.peerSensors : e.at \in Nat
ASSUME SnapshotsAssumption == \A s \in Snapshots : SnapshotOK(s)

VARIABLES
    snap,      \* the snapshot
    stage,     \* "screens", "iap", "dpa", "done" or "failed"
    queue,     \* protection points still to run
    verdicts,  \* merged IAP decisions by grant
    moved      \* ids on the move lists

evalVars == << snap, stage, queue, verdicts, moved >>
vars == << iapVars, evalVars >>

-----------------------------------------------------------------------------
(* Peers: what their full activity dumps claim.                            *)

ActivePeerGrants(peer) == {h \in peer.grants : ~h.terminated}
PeerHasGrant(g) == \E p \in snap.peers : p.id = g.fad /\ ActivePeerGrants(p) # {}

PalRanges(ppa) == {p.range : p \in {q \in snap.pals : q.id \in ppa.pals}}
ConflictsPeerPpa(g) ==
    \E z \in snap.peerPpas :
        /\ ~z.terminated
        /\ Within(g.at, z.zone, PeerPpaKm)
        /\ \E r \in PalRanges(z) : Overlap(g.range, r)
ConflictsPeerEsc(g) ==
    /\ Overlap(g.range, Band)
    /\ \E s \in snap.peerSensors : Distance(g.at, s.at) <= PeerEscKm

PeerGrants ==
    UNION {{[id |-> h.id, cbsd |-> p.id, at |-> p.at, category |-> p.category,
             range |-> h.range, eirp |-> h.eirp, managing |-> FALSE,
             indoor |-> FALSE, height |-> p.height] : h \in ActivePeerGrants(p)} : p \in snap.peers}

(* Peer rules first, then the exclusions of an incumbent.                  *)
EndReason(g) ==
    CASE PeerHasGrant(g) -> "peer_same_cbsd_grant"
      [] ConflictsPeerPpa(g) -> "peer_ppa"
      [] ConflictsPeerEsc(g) -> "peer_esc"
      [] OTHER -> PreIapReason(snap, g, g.range)
Unresolved == {g \in snap.locals : EndReason(g) = "none"}
Unscreenable == \E g \in snap.locals : PreIapFails(snap, g, g.range)

-----------------------------------------------------------------------------
(* Protection points of the snapshot (services/iap/protection_points.py)   *)

ClipToBand(r) == [low |-> Max({r.low, BandLow}), high |-> Min({r.high, BandHigh})]
Representative(zone) ==
    LET ring == CHOOSE a \in zone : \A b \in zone : a.from <= b.from
    IN (ring.from + ring.to) \div 2

PointAt(kind, at, r) ==
    LET clipped == ClipToBand(r)
    IN IF clipped.low >= clipped.high THEN {}
       ELSE {[at |-> at, low |-> clipped.low, high |-> clipped.high, kind |-> kind,
              radius |-> Profile[kind].radius, threshold |-> Profile[kind].threshold]}

(* Co-channel when the passband reaches the top of the band; blocking of   *)
(* what lies below it, unless it is a TT&C-capable band without TT&C.      *)
InTtcBand(f) == f.range.low >= BandHigh /\ f.range.high <= TtcHigh
FssPoints(f) ==
    (IF f.range.high >= BandHigh THEN PointAt("fss_cochannel", f.at, f.range) ELSE {})
    \cup (IF InTtcBand(f) /\ f.ttc # "yes" THEN {}
          ELSE PointAt("fss_blocking", f.at, [low |-> BandLow, high |-> f.range.low]))

WispPoints(w) == IF w.zone = {} THEN {} ELSE PointAt("gwpz", Representative(w.zone), w.range)

(* The envelope of the PAL channels; without one there is no point.        *)
PpaPoints(z) ==
    LET ranges == PalRanges(z)
    IN IF z.terminated \/ z.zone = {} \/ ranges = {} THEN {}
       ELSE PointAt("ppa", Representative(z.zone),
                    [low |-> Min({r.low : r \in ranges}), high |-> Max({r.high : r \in ranges})])

EscPoints(s) == PointAt("esc", s.at, IF s.range = {} THEN EscPassband ELSE CHOOSE r \in s.range : TRUE)

(* Lost or missing ESC connectivity leaves the sensors' points in force.   *)
Buildable ==
    /\ snap.connectivity # "invalid"
    /\ \A f \in snap.fss : ~(InTtcBand(f) /\ f.ttc = "missing")
    /\ \A s \in snap.sensors \cup snap.peerSensors : s.complete

FrozenPoints ==
    UNION ({FssPoints(f) : f \in snap.fss} \cup {WispPoints(w) : w \in snap.wisp}
           \cup {PpaPoints(z) : z \in snap.ppas}
           \cup {EscPoints(s) : s \in snap.sensors \cup snap.peerSensors})

-----------------------------------------------------------------------------
(* The IAP stage                                                           *)

GainAt(d) == IF d < Len(PathGain) THEN PathGain[d + 1] ELSE 0
View(g, p) ==
    [id |-> g.id, cbsd |-> g.cbsd, low |-> g.range.low, high |-> g.range.high,
     category |-> g.category, managing |-> g.managing, eirp |-> g.eirp,
     km |-> Distance(g.at, p.at), gain |-> GainAt(Distance(g.at, p.at))]

StartPoint(p) ==
    LET gs == {View(g, p) : g \in Unresolved \cup PeerGrants}
        tables == InitialTables(p, gs)
    IN /\ point' = p /\ grants' = gs
       /\ eirp' = tables.eirp /\ residual' = tables.residual /\ unsat' = tables.unsat
       /\ settled' = {} /\ floored' = {}

(* Mutant: of two points the later one decides.                            *)
MergeLast(old, new) == new

(* merge_iap_decisions                                                     *)
Rank == [keep |-> 0, reduce_power |-> 1, terminate |-> 2]
MergeIap(old, new) ==
    CASE Rank[old.action] > Rank[new.action] -> old
      [] Rank[old.action] < Rank[new.action] -> new
      [] OTHER -> [old EXCEPT !.eirp = Min({@, new.eirp})]

PointVerdict(g) ==
    [action |-> Decision(g),
     eirp |-> IF g \in floored THEN Floor ELSE IF g \in Running THEN eirp[g] ELSE g.eirp]
MergedVerdicts ==
    [id \in {g.id : g \in Managed} |->
        LET g == CHOOSE h \in Managed : h.id = id
        IN IF id \in DOMAIN verdicts THEN MergeIap(verdicts[id], PointVerdict(g)) ELSE PointVerdict(g)]

-----------------------------------------------------------------------------
(* The DPA stage (services/dpa_protection.py, dpa_neighborhood.py): a DPA  *)
(* is [zone, range, km, limit], km the radius of each class that has one.  *)

(* neighborhood_radius_km_for_cbsd: the class of the height, or else the   *)
(* other one, or else the contour alone.                                   *)
ClassOf(g) == IF g.category = "B" THEN "B" ELSE IF g.indoor THEN "Indoor" ELSE "Outdoor"
RadiusKm(d, g, height) ==
    LET low == << ClassOf(g), TRUE >>
        high == << ClassOf(g), FALSE >>
        preferred == IF height <= HeightSplit THEN low ELSE high
    IN CASE preferred \in DOMAIN d.km -> d.km[preferred]
         [] {low, high} \cap DOMAIN d.km # {} -> d.km[CHOOSE k \in {low, high} : k \in DOMAIN d.km]
         [] OTHER -> 0

(* filter_grants_in_neighborhood: heights as they stand, and a DPA without *)
(* geometry takes everybody in.                                            *)
InNeighborhood(d, gs) == {g \in gs : d.zone = {} \/ Within(g.at, d.zone, RadiusKm(d, g, g.height))}

Overlapping(d, gs) == {g \in gs : Overlap(g.range, d.range)}

(* interference_dbm_at_point, of the part of the grant inside the channel  *)
Interference(d, g) ==
    g.eirp * (Min({g.range.high, d.range.high}) - Max({g.range.low, d.range.low}))
           * GainAt(Distance(g.at, Representative(d.zone)))
Aggregate(d, gs) == SumFunctionOnSet([g \in gs |-> Interference(d, g)], gs)

Stronger(d, g, h) ==
    Interference(d, g) > Interference(d, h) \/ (Interference(d, g) = Interference(d, h) /\ g.id < h.id)

(* Mutant: an aggregate at the limit is over it.                           *)
BuildMovelistAtLimit(d, gs) ==
    {g \in gs : Aggregate(d, {h \in gs : ~Stronger(d, h, g)}) >= d.limit}

(* build_movelist: the strongest go, one after the other, until the rest   *)
(* is within the limit; equals in the order of the input.                  *)
BuildMovelist(d, gs) ==
    {g \in gs : Aggregate(d, {h \in gs : ~Stronger(d, h, g)}) > d.limit}

(* Without geometry or path loss every overlapping grant has to go.        *)
Unevaluable(d) == d.zone = {} \/ ~snap.loss
MoveList(d, gs) ==
    LET near == Overlapping(d, InNeighborhood(d, gs))
    IN IF Unevaluable(d) THEN near ELSE BuildMovelist(d, near)

(* effective_eirp_by_grant_id                                              *)
EffectiveEirp(g) ==
    IF g.id \in DOMAIN verdicts /\ verdicts[g.id].action = "reduce_power" THEN verdicts[g.id].eirp
    ELSE g.eirp
IapTerminated == {id \in DOMAIN verdicts : verdicts[id].action = "terminate"}

(* Peers count as category A whatever they registered.                     *)
DpaLocals ==
    {[g EXCEPT !.eirp = EffectiveEirp(g)] : g \in {h \in Unresolved : h.id \notin IapTerminated}}
DpaPeers == {[g EXCEPT !.category = "A"] : g \in PeerGrants}

(* The screen of a grant request (proposed_grant_violates_dpa): existing   *)
(* local grants but no peers, and the proposal's height above ground.      *)
ViolatesDpa(proposed, existing) ==
    \E d \in snap.dpas :
        /\ Overlap(proposed.range, d.range)
        /\ d.zone = {} \/ Within(proposed.at, d.zone, RadiusKm(d, proposed, proposed.height - proposed.ground))
        /\ LET others == {g \in Overlapping(d, InNeighborhood(d, existing)) :
                             ~(g.cbsd = proposed.cbsd /\ Overlap(g.range, proposed.range))}
           IN Unevaluable(d) \/ Aggregate(d, others \cup {proposed}) > d.limit

-----------------------------------------------------------------------------
NoPoint == [at |-> 0, low |-> Origin, high |-> Origin, kind |-> "none", radius |-> 0, threshold |-> 0]
Init ==
    /\ snap \in Snapshots
    /\ stage = "screens" /\ queue = {} /\ verdicts = << >> /\ moved = {}
    /\ point = NoPoint /\ grants = {} /\ eirp = << >>
    /\ settled = {} /\ floored = {} /\ residual = << >> /\ unsat = << >>

(* CpasRfEvaluationError: nothing is decided.  Points or coupling that are *)
(* not available do not matter when no grant is left to decide.            *)
ScreensFail ==
    /\ stage = "screens"
    /\ \/ Unscreenable
       \/ Unresolved # {} /\ ~Buildable
       \/ Unresolved # {} /\ FrozenPoints # {} /\ ~snap.coupling
    /\ stage' = "failed"
    /\ UNCHANGED << iapVars, snap, queue, verdicts, moved >>

AllResolved ==
    /\ stage = "screens" /\ ~Unscreenable
    /\ Unresolved = {}
    /\ stage' = "done"
    /\ UNCHANGED << iapVars, snap, queue, verdicts, moved >>

SkipIap ==
    /\ stage = "screens" /\ ~Unscreenable
    /\ Unresolved # {} /\ Buildable /\ FrozenPoints = {}
    /\ stage' = "dpa"
    /\ UNCHANGED << iapVars, snap, queue, verdicts, moved >>

StartIap ==
    /\ stage = "screens" /\ ~Unscreenable
    /\ Unresolved # {} /\ Buildable /\ FrozenPoints # {} /\ snap.coupling
    /\ LET p == CHOOSE q \in FrozenPoints : TRUE
       IN StartPoint(p) /\ queue' = FrozenPoints \ {p}
    /\ stage' = "iap"
    /\ UNCHANGED << snap, verdicts, moved >>

Allocate == stage = "iap" /\ (LockRound \/ LowerRound) /\ UNCHANGED evalVars

NextPoint ==
    /\ stage = "iap" /\ Done /\ queue # {}
    /\ verdicts' = MergedVerdicts
    /\ LET p == CHOOSE q \in queue : TRUE
       IN StartPoint(p) /\ queue' = queue \ {p}
    /\ UNCHANGED << snap, stage, moved >>

LastPoint ==
    /\ stage = "iap" /\ Done /\ queue = {}
    /\ verdicts' = MergedVerdicts
    /\ stage' = "dpa"
    /\ UNCHANGED << iapVars, snap, queue, moved >>

(* Only local grants are put on a move list.                               *)
MoveGrants ==
    /\ stage = "dpa"
    /\ moved' = {g.id : g \in {h \in UNION {MoveList(d, DpaLocals \cup DpaPeers) : d \in snap.dpas} :
                                  h.managing}}
    /\ stage' = "done"
    /\ UNCHANGED << iapVars, snap, queue, verdicts >>

Next ==
    \/ ScreensFail \/ AllResolved \/ SkipIap \/ StartIap
    \/ Allocate \/ NextPoint \/ LastPoint
    \/ MoveGrants
Spec == Init /\ [][Next]_vars /\ WF_vars(Next)

-----------------------------------------------------------------------------
(* merge_constraint_decisions: termination by any stage goes before a      *)
(* reduction.                                                              *)
Kept ==
    {[g EXCEPT !.eirp = EffectiveEirp(g)] :
        g \in {h \in Unresolved : h.id \notin IapTerminated \cup moved}}

(* The plan holds every limit at once: what is kept, at the power it is    *)
(* left, fits the budget of every protection point whatever the order of   *)
(* the points, and the limit of every DPA it was moved for.                *)
(* (mcp_protection.py:160-190, engine.py:313-343)                          *)
PlanKeepsLimits ==
    stage = "done" =>
        /\ \A p \in FrozenPoints :
              LET near == Neighbors(p, {View(g, p) : g \in Kept})
              IN \A c \in IapChannels(p) :
                    GrantedCoupling({v \in near : c \in ChannelsOf(v, p)}) <= p.threshold
        /\ \A d \in snap.dpas :
              LET near == Overlapping(d, InNeighborhood(d, Kept))
              IN IF Unevaluable(d) THEN near = {} ELSE Aggregate(d, near) <= d.limit

(* A grant the DPA screen of a request would still admit beside the other  *)
(* grants, at the power the allocation leaves them, is not moved: the two  *)
(* neighbourhood tests and aggregates agree when no peer contributes and   *)
(* heights are above ground.  (dpa_protection.py:650-699,828-998)          *)
AdmittedGrantIsNotMoved ==
    (stage = "done" /\ DpaPeers = {}) =>
        \A g \in DpaLocals :
            /\ g.ground = 0
            /\ ~ \E h \in DpaLocals \ {g} : h.cbsd = g.cbsd /\ Overlap(g.range, h.range)
            /\ ~ViolatesDpa(g, DpaLocals)
            => g.id \notin moved

(* Every evaluation comes to a plan or fails: the rounds at a point end    *)
(* with every neighbour locked or removed.  (engine.py:162)                *)
EvaluationEnds == <>(stage \in {"done", "failed"})
==============================================================================

--------------------------------- MODULE Ppa ---------------------------------
(***************************************************************************)
(* The validation of a PPA (services/ppa_service.py, ppa_geometry.py,      *)
(* ppa_rf_contour.py, county_geometry.py).  A request is [pals, cbsds,     *)
(* claimed, user]: sequences of ids, a zone or {} and the holder; a PAL     *)
(* names its county or "none" and may carry an area of its own.            *)
(***************************************************************************)
EXTENDS Inquiry

CONSTANTS
    Cbsds,            \* registered CBSDs
    CountyFiles,      \* areas of the counties that have a readable file
    Census,           \* census tracts, {} when none is provisioned
    RequireCensus, RequireServiceArea,    \* ppa_creation_config
    RadialMax,        \* RADIAL_MAX_KM in radial steps
    PathLoss,         \* hybrid model: loss after each step
    BackLoss,         \* what a sector antenna loses behind
    Threshold         \* THRESHOLD_PER_10MHZ_DBM

ASSUME PpaAssumption == RadialMax \in Nat \ {0}

-----------------------------------------------------------------------------
(* Shapely on a line: a zone is the set of unit cells it covers.           *)
Cells(zone) == UNION {ring.from .. ring.to - 1 : ring \in zone}
RingsOf(cells) ==
    {[from |-> p[1], to |-> p[2] + 1] : p \in
        {q \in cells \X cells : /\ q[1] .. q[2] \subseteq cells
                                /\ q[1] <= q[2]
                                /\ q[1] - 1 \notin cells
                                /\ q[2] + 1 \notin cells}}

Intersect(z1, z2) == RingsOf(Cells(z1) \cap Cells(z2))
CoveredBy(inner, outer) ==
    Cells(inner) # {} /\ Cells(outer) # {} /\ Cells(inner) \subseteq Cells(outer)
PointCovered(x, zone) == \E ring \in zone : ring.from <= x /\ x <= ring.to
PointsWithin(zone, cbsds) == \A c \in cbsds : PointCovered(c.at, zone)

-----------------------------------------------------------------------------
(* Largest allowable contour: along a radial the steps received above the  *)
(* threshold are counted, wherever they lie, and one step is the least.    *)
Gain(cbsd, side) == IF cbsd.faces = {} \/ side \in cbsd.faces THEN 0 ELSE - BackLoss
Reach(cbsd, side) ==
    Max({1, Cardinality({d \in 1 .. RadialMax :
                            cbsd.capability + Gain(cbsd, side) - PathLoss[d] >= Threshold})})
RfContourRing(cbsd) ==
    [from |-> cbsd.at - Reach(cbsd, "west"), to |-> cbsd.at + Reach(cbsd, "east")]
MaximumRfContour(cbsds) == RingsOf(Cells({RfContourRing(c) : c \in cbsds}))

-----------------------------------------------------------------------------
(* _validate_and_build                                                     *)

(* Without ids in the request the cluster is the first injected list of    *)
(* the user or of one of the PALs.                                         *)
ClusterIds(db, body) ==
    LET list == SelectInSeq(db.clusters, LAMBDA c : c.user = body.user \/ c.pal \in Range(body.pals))
    IN IF body.cbsds # << >> \/ list = 0 THEN body.cbsds ELSE db.clusters[list].cbsds

Selected(db, body) == {p \in db.pals : p.id \in Range(body.pals)}
Cluster(db, body) == {c \in Cbsds : c.id \in Range(ClusterIds(db, body))}
Holders(db, body) == {p.user : p \in Selected(db, body)}

(* The county of a licence goes before an area written on its record.      *)
LicenseArea(pal) == IF pal.county = "none" THEN pal.area ELSE CountyFiles[pal.county]
CountyUnavailable(pal) == pal.county \notin DOMAIN CountyFiles \cup {"none"}
ServiceArea(db, body) == RingsOf(Cells(UNION {LicenseArea(p) : p \in Selected(db, body)}))

(* contour clipped to the census and to the licensed area                  *)
ClippedToCensus(db, body) ==
    LET rf == MaximumRfContour(Cluster(db, body))
    IN IF Census = {} THEN rf ELSE Intersect(rf, Census)
MaximumContour(db, body) ==
    LET area == ServiceArea(db, body)
    IN IF area = {} THEN ClippedToCensus(db, body)
                    ELSE Intersect(ClippedToCensus(db, body), area)
Contour(db, body) == IF body.claimed = {} THEN MaximumContour(db, body) ELSE body.claimed

(* An existing PPA is in the way when it shares a PAL or a channel and its *)
(* interior meets the contour.                                             *)
SharesChannel(db, body, ppa) ==
    \/ Range(ppa.pals) \cap Range(body.pals) # {}
    \/ \E p \in Selected(db, body), q \in db.pals :
          q.id \in Range(ppa.pals) /\ Overlap(p.range, q.range)
OverlapsExistingPpa(db, body) ==
    \E i \in DOMAIN db.ppas :
        SharesChannel(db, body, db.ppas[i])
            /\ AreasOverlap(Contour(db, body), db.ppas[i].zone)

RequestReason(db, body) ==
    LET ids == ClusterIds(db, body)
    IN CASE body.pals = << >> -> "missing_palIds"
         [] ~IsInjective(body.pals) -> "duplicate_palIds"
         [] ids = << >> -> "missing_cbsdIds"
         [] ~IsInjective(ids) -> "duplicate_cbsdIds"
         [] Cardinality(Selected(db, body)) # Len(body.pals) -> "unknown_palId"
         [] \E p \in Selected(db, body) : p.status # "VALID" -> "inactive_pal"
         [] Cardinality(Holders(db, body)) # 1 -> "pal_holder_mismatch"
         [] Cardinality(Cluster(db, body)) # Len(ids) -> "unknown_cbsdId"
         [] \E c \in Cluster(db, body) : c.user \notin Holders(db, body) -> "cbsd_not_pal_holder"
         [] OTHER -> "none"

AreaReason(db, body) ==
    LET area == ServiceArea(db, body)
        cluster == Cluster(db, body)
    IN CASE \E p \in Selected(db, body) : CountyUnavailable(p) -> "service_area_unavailable"
         [] RequireServiceArea /\ area = {} -> "service_area_required"
         [] area # {} /\ ~PointsWithin(area, cluster) -> "cbsd_outside_service_area"
         [] RequireCensus /\ Census = {} -> "census_dataset_missing"
         [] Census # {} /\ ~PointsWithin(Census, cluster) -> "cbsd_outside_census"
         [] Census # {} /\ ~PointsWithin(ClippedToCensus(db, body), cluster) -> "contour_outside_census"
         [] area # {} /\ ~PointsWithin(MaximumContour(db, body), cluster) -> "cbsd_outside_max_contour"
         [] OTHER -> "none"

ClaimReason(db, body) ==
    LET area == ServiceArea(db, body)
    IN CASE body.claimed = {} -> "none"
         [] ~Usable(body.claimed) -> "invalid_providedContour"
         [] area # {} /\ ~CoveredBy(body.claimed, area) -> "claimedBoundary_outside_service_area"
         [] ~CoveredBy(body.claimed, MaximumContour(db, body)) -> "claimedBoundary_exceeds_rf_maximum"
         [] OTHER -> "none"

PpaReason(db, body) ==
    CASE RequestReason(db, body) # "none" -> RequestReason(db, body)
      [] AreaReason(db, body) # "none" -> AreaReason(db, body)
      [] ClaimReason(db, body) # "none" -> ClaimReason(db, body)
      [] OverlapsExistingPpa(db, body) -> "overlaps_existing_ppa"
      [] OTHER -> "none"

PpaRecord(db, body) ==
    [id |-> "created", pals |-> body.pals, cluster |-> Range(ClusterIds(db, body)),
     zone |-> Contour(db, body)]
==============================================================================

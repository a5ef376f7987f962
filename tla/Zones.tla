-------------------------------- MODULE Zones --------------------------------
(***************************************************************************)
(* Geography and the protection screens a grant has to pass                *)
(* (services/geometry.py, exclusion_zone_service.py, gwpz_protection.py,   *)
(* quiet_zone_service.py, border_protection.py, federal_db_service.py,     *)
(* iap/pre_iap_exclusions.py).  The world is a line: a position is a       *)
(* number, a ring an interval [from, to], a GeoJSON zone a set of rings,   *)
(* a frequency range [low, high].  A screen is an operator on the tables   *)
(* it reads, so that the grant handler applies it to the database and      *)
(* CPAS to its snapshot.                                                   *)
(***************************************************************************)
EXTENDS Integers, FiniteSets, FiniteSetsExt

CONSTANTS
    BandLow, BandHigh,    \* CBRS_LOW_HZ, CBRS_HIGH_HZ
    CoexLow,              \* FSS_GWBL_LOW_HZ, also of Arrangement R
    ExzMargin,            \* EXZ_BUFFER_M
    FssKm, TtcKm,         \* FSS_GWBL_KM, FSS_TTC_PURGE_KM
    NtiaContour,          \* the coastal zone of the NTIA file, {} if missing
    NrqzRing,             \* National Radio Quiet Zone
    Offices,              \* FCC field offices, {} if the file is missing
    OfficeKm,             \* radius by category
    Mountain,             \* Table Mountain
    MountainKmA,          \* its radius for category A
    MountainKmB,          \* pairs [limit, km] for category B
    MountainKmMost,       \* and beyond the last limit
    QuietAreas,           \* configurable protected areas
    BorderVertices,       \* US/Canada border, {} if the file is missing
    BorderKm, BorderInnerKm,   \* SHARING_ZONE_MAX_KM and INNER_KM
    PfdLimit              \* PFD_LIMIT_DBM_M2_MHZ

ASSUME ZonesAssumption ==
    /\ {BandLow, CoexLow, BandHigh} \subseteq Nat
    /\ BandLow < CoexLow /\ CoexLow < BandHigh

Band == [low |-> BandLow, high |-> BandHigh]
Coexistence == [low |-> CoexLow, high |-> BandHigh]
NtiaBand == [low |-> BandLow, high |-> CoexLow]

-----------------------------------------------------------------------------
(* services/geometry.py                                                    *)

Overlap(r, s) == r.low < s.high /\ r.high > s.low
Distance(x, y) == IF x < y THEN y - x ELSE x - y

(* The ray test: of the two ends of a ring only the first is inside.       *)
InRing(x, ring) == ring.from <= x /\ x < ring.to
RingDistance(x, ring) ==
    IF InRing(x, ring) THEN 0 ELSE Min({Distance(x, ring.from), Distance(x, ring.to)})
ValidRing(ring) == ring.from < ring.to

Usable(zone) == \E ring \in zone : ValidRing(ring)
PointIn(x, zone) == \E ring \in zone : InRing(x, ring)
Within(x, zone, margin) ==
    \E ring \in zone : ValidRing(ring) /\ RingDistance(x, ring) <= margin

(* Interiors intersect when a corner of one lies strictly inside the       *)
(* other: two equal rings have no such corner.                             *)
StrictlyInside(x, ring) == ring.from < x /\ x < ring.to
RingsOverlap(a, b) ==
    \/ \E x \in {a.from, a.to} : StrictlyInside(x, b)
    \/ \E x \in {b.from, b.to} : StrictlyInside(x, a)
AreasOverlap(z1, z2) ==
    \E a \in z1, b \in z2 : ValidRing(a) /\ ValidRing(b) /\ RingsOverlap(a, b)

-----------------------------------------------------------------------------
(* Exclusion zones: records [zone, ranges], of the exclusion_zone and the  *)
(* ntia_exclusion_zones kinds.                                             *)

WellFormed(exz) == \A rec \in exz : Usable(rec.zone)

(* Without frequency ranges a zone excludes every frequency.  Strict       *)
(* readers raise on a record without a usable zone.                        *)
Hits(rec, x, r) ==
    /\ Within(x, rec.zone, ExzMargin)
    /\ rec.ranges = {} \/ \E s \in rec.ranges : Overlap(r, s)
HitsExclusionZone(exz, x, r) == \E rec \in exz : Hits(rec, x, r)
(* Mutant: the inquiry forgets the margin.                                 *)
ExcludedRangesInside(exz, x) ==
    UNION {rec.ranges : rec \in {e \in exz : PointIn(x, e.zone)}}
ExcludedRangesAt(exz, x) ==
    UNION {rec.ranges : rec \in {e \in exz : Within(x, e.zone, ExzMargin)}}

(* load_active_exclusion_zone_records                                      *)
ActiveZones(db) == db.exz \cup (IF db.ntia THEN {[zone |-> NtiaContour, ranges |-> {NtiaBand}]} ELSE {})

-----------------------------------------------------------------------------
(* GWPZ: records [id, zone, range]; one whose zone is unusable blocks      *)
(* every grant but no evaluation.                                          *)
GwpzBlocks(wisp, x, r) ==
    /\ Usable(wisp.zone)
    /\ Overlap(r, wisp.range)
    /\ Within(x, wisp.zone, 0)
GwpzIndeterminate(wisps) == \E w \in wisps : ~Usable(w.zone)
BlockedByGwpz(wisps, x, r) ==
    GwpzIndeterminate(wisps) \/ \E w \in wisps : GwpzBlocks(w, x, r)

-----------------------------------------------------------------------------
(* Quiet zones                                                             *)
NearOffice(x, category) == \E o \in Offices : Distance(x, o) <= OfficeKm[category]

(* table_mountain_coordination_km; a registration has no bandwidth yet.    *)
MountainKm(category, width) ==
    LET fits == {p \in MountainKmB : width <= p.limit}
    IN IF category # "B" THEN MountainKmA
       ELSE IF fits = {} THEN MountainKmMost
       ELSE (CHOOSE p \in fits : \A q \in fits : p.limit <= q.limit).km

InQuietArea(x) ==
    \E a \in QuietAreas : PointIn(x, a.zone) \/ (a.km > 0 /\ Distance(x, a.at) <= a.km)

(* The order matters: inside the first zone a missing dataset is not       *)
(* noticed.                                                                *)
QuietReason(x, category, width) ==
    CASE NrqzRing.from <= x /\ x <= NrqzRing.to -> "nrqz"
      [] Offices = {} -> "unavailable"
      [] NearOffice(x, category) -> "fcc_field_office"
      [] Distance(x, Mountain) <= MountainKm(category, width) -> "table_mountain"
      [] InQuietArea(x) -> "configurable_protected_area"
      [] OTHER -> "none"

BlockedByQuietZone(x, category, r) == QuietReason(x, category, r.high - r.low) # "none"
RegistrationBlocked(x, category) == QuietReason(x, category, BandHigh) # "none"

-----------------------------------------------------------------------------
(* The Canadian border.  A sector antenna has a set of sides it faces.     *)
ClosestBorder(x) ==
    LET near == {v \in BorderVertices : Distance(x, v) <= BorderKm}
    IN {v \in near : \A w \in near : Distance(x, v) <= Distance(x, w)}

InSharingZone(cbsd, v) ==
    \/ Distance(cbsd.at, v) <= BorderInnerKm
    \/ cbsd.faces = {}
    \/ (IF v < cbsd.at THEN "west" ELSE "east") \in cbsd.faces

BorderOutcome(cbsd, eirp, r) ==
    CASE ~Overlap(r, Coexistence) -> "allow"
      [] BorderVertices = {} -> "unavailable"
      [] \A v \in ClosestBorder(cbsd.at) : ~InSharingZone(cbsd, v) -> "allow"
      [] \E v \in ClosestBorder(cbsd.at) : eirp - Distance(cbsd.at, v) > PfdLimit -> "deny"
      [] OTHER -> "allow"
ViolatesBorderPfd(cbsd, eirp, r) == BorderOutcome(cbsd, eirp, r) # "allow"

-----------------------------------------------------------------------------
(* FSS and GWBL: earth stations [id, at, range, ttc], points [id, at].     *)
FssNear(fss, x) == {f \in fss : Distance(x, f.at) <= FssKm}
HasNeighboringGwbl(f, gwbl) == \E p \in gwbl : Distance(f.at, p.at) <= FssKm
BlockedByFssGwbl(db, x, r) ==
    /\ Overlap(r, Coexistence)
    /\ \E f \in FssNear(db.fss, x) : HasNeighboringGwbl(f, db.gwbl)

PurgedByTtc(fss, x) ==
    \E f \in fss : f.ttc = "yes" /\ f.range.high > BandHigh /\ Distance(x, f.at) <= TtcKm

(* heartbeat_federal_code: 500 when the database changed after the grant   *)
(* was stamped, 501 when the grant was given with that knowledge.          *)
Newest(a, b) == IF a < b THEN b ELSE a
FederalCode(db, grant, x) ==
    LET zones == ActiveZones(db)
        r == grant.range
        near == FssNear(db.fss, x)
        protects == \E f \in near : Overlap(r, Coexistence) \/ Overlap(r, f.range)
        paired == db.gens.gwbl > 0 /\ \E f \in near : HasNeighboringGwbl(f, db.gwbl)
        code(stale) == IF stale THEN 500 ELSE 501
    IN CASE db.gens.exz > 0 /\ (~WellFormed(zones) \/ HitsExclusionZone(zones, x, r)) ->
              code(grant.stamp.exz < db.gens.exz)
         [] db.gens.dpa > 0 /\ Overlap(r, Band) -> code(grant.stamp.dpa < db.gens.dpa)
         [] protects ->
              code(\/ paired /\ Newest(grant.stamp.fss, grant.stamp.gwbl)
                                  < Newest(db.gens.fss, db.gens.gwbl)
                   \/ grant.stamp.fss < db.gens.fss)
         [] OTHER -> 0

-----------------------------------------------------------------------------
(* evaluate_pre_iap_exclusions on a snapshot: why a grant must end before  *)
(* any power is shared out.  An unusable zone or a missing dataset fails   *)
(* the evaluation.                                                         *)
PreIapFails(snap, cbsd, r) ==
    \/ ~WellFormed(snap.exz)
    \/ /\ ~HitsExclusionZone(snap.exz, cbsd.at, r)
       /\ QuietReason(cbsd.at, cbsd.category, r.high - r.low) = "unavailable"

PreIapReason(snap, cbsd, r) ==
    LET x == cbsd.at
        quiet == QuietReason(x, cbsd.category, r.high - r.low)
    IN CASE HitsExclusionZone(snap.exz, x, r) -> "exz_exclusion"
         [] quiet # "none" -> quiet
         [] \E w \in snap.wisp : GwpzBlocks(w, x, r) -> "gwpz_exclusion"
         [] BlockedByFssGwbl(snap, x, r) -> "fss_gwbl_exclusion"
         [] PurgedByTtc(snap.fss, x) -> "fss_ttc_purge"
         [] OTHER -> "none"
==============================================================================

------------------------------- MODULE Inquiry -------------------------------
(***************************************************************************)
(* What a CBSD is offered and what it is then allowed to ask for: the      *)
(* spectrum inquiry (services/spectrum_inquiry_service.py), the PAL/GAA    *)
(* decision and the screens of a grant request that read no lock           *)
(* (services/grant_service.py:280-378).  Both read the same tables by      *)
(* different rules.                                                        *)
(*                                                                         *)
(* db: [exz, ntia, wisp, gwbl, fss, pals, ppas, ...]; a PAL is [id, user,  *)
(* range, area, status], ppas a sequence of [pals, cluster, zone] in row   *)
(* order, its pals a sequence of ids; a CBSD is [id, user, at, category,   *)
(* faces, capability, fccMax].                                             *)
(***************************************************************************)
EXTENDS Zones, Sequences, SequencesExt

CONSTANTS
    Channel,      \* CHANNEL_HZ
    CategoryMax,  \* CAT_A_MAX_EIRP_10MHZ and CAT_B_MAX_EIRP_10MHZ
    TenMHz        \* 10 dB: from dBm/10 MHz to dBm/MHz

ASSUME InquiryAssumption == Channel \in Nat \ {0}

Ordered(r) == r.low < r.high
InBand(r) == BandLow <= r.low /\ r.high <= BandHigh

-----------------------------------------------------------------------------
(* Links from a PPA to the PALs it was made for, in the order of the rows; *)
(* a revoked PAL has no row and its links are dead.                        *)
PalOf(db, id) == CHOOSE p \in db.pals : p.id = id
LinkOf(db, cbsd, ppa, id) ==
    LET pal == PalOf(db, id)
    IN [channel |-> pal.range, owned |-> pal.user = cbsd.user,
        inCluster |-> cbsd.id \in ppa.cluster, inPpa |-> PointIn(cbsd.at, ppa.zone)]
AddLinks(db, cbsd, links, ppa) ==
    FoldLeft(LAMBDA ls, id : IF \E p \in db.pals : p.id = id
                             THEN Append(ls, LinkOf(db, cbsd, ppa, id)) ELSE ls,
             links, ppa.pals)
PpaPalContext(db, cbsd) ==
    FoldLeft(LAMBDA links, ppa : AddLinks(db, cbsd, links, ppa), << >>, db.ppas)

-----------------------------------------------------------------------------
(* process_spectrum_inquiry                                                *)

ValidateInquired(inquired) ==
    LET bad == {i \in DOMAIN inquired : ~Ordered(inquired[i]) \/ ~InBand(inquired[i])}
    IN IF inquired = << >> THEN 102
       ELSE IF bad = {} THEN 0
       ELSE IF Ordered(inquired[Min(bad)]) THEN 300 ELSE 103

Clip(inquired) ==
    {s \in {[low |-> Max({r.low, BandLow}), high |-> Min({r.high, BandHigh})] : r \in Range(inquired)} :
        Ordered(s)}

(* Mutant: the upper part of a cut segment is lost.                        *)
SubtractKeepsHead(segments, ex) ==
    {s \in {IF Overlap(t, ex) THEN [t EXCEPT !.high = Min({@, ex.low})] ELSE t : t \in segments} :
        Ordered(s)}
SubtractRange(segments, ex) ==
    {s \in UNION {IF Overlap(s, ex) THEN {[s EXCEPT !.high = Min({@, ex.low})],
                                          [s EXCEPT !.low = Max({@, ex.high})]}
                                    ELSE {s} : s \in segments} : Ordered(s)}
SubtractAll(segments, ranges) == FoldSet(LAMBDA ex, left : SubtractRange(left, ex), segments, ranges)

(* _split_10mhz: what is left is cut at the channel raster.                *)
Split(r) ==
    LET cuts == {r.low, r.high} \cup {f \in r.low .. r.high : f % Channel = 0}
    IN {[low |-> a, high |-> Min({b \in cuts : a < b})] : a \in cuts \ {r.high}}

(* Location screens: an exclusion zone withholds only the ranges it names, *)
(* any FSS the coexistence band, with or without a GWBL next to it.        *)
WithheldAt(db, x) ==
    ExcludedRangesAt(ActiveZones(db), x)
        \cup {w.range : w \in {v \in db.wisp : PointIn(x, v.zone)}}
        \cup (IF FssNear(db.fss, x) = {} THEN {} ELSE {Coexistence})

(* One PPA link after the other; a cluster member of the licensee is       *)
(* offered the whole PAL channel as soon as any of it is left.             *)
TakeLink(left, link) ==
    IF link.inCluster \/ link.inPpa
    THEN [gaa |-> SubtractRange(left.gaa, link.channel),
          pal |-> left.pal \cup {link.channel : s \in {g \in left.gaa :
                      link.inCluster /\ link.owned /\ Overlap(g, link.channel)}}]
    ELSE left

AvailableChannels(db, cbsd, inquired) ==
    LET free == SubtractAll(Clip(inquired), WithheldAt(db, cbsd.at))
        left == FoldLeft(TakeLink, [gaa |-> free, pal |-> {}], PpaPalContext(db, cbsd))
    IN {[range |-> r, type |-> "PAL"] : r \in left.pal}
         \cup {[range |-> r, type |-> "GAA"] : r \in UNION {Split(s) : s \in left.gaa}}

(* NTIA zones are validated when they are read, injected ones are not.     *)
SpectrumInquiry(db, cbsd, inquired) ==
    LET code == ValidateInquired(inquired)
    IN CASE code # 0 -> [code |-> code, channels |-> {}]
         [] db.ntia /\ ~Usable(NtiaContour) -> [code |-> 0, channels |-> {}]
         [] OTHER -> [code |-> 0, channels |-> AvailableChannels(db, cbsd, inquired)]

-----------------------------------------------------------------------------
(* process_grant, before the IAP lock                                      *)

ParseFreq(r) == CASE ~Ordered(r) -> 103 [] ~InBand(r) -> 300 [] OTHER -> 0

MaxAllowedEirp(cbsd) == Min({CategoryMax[cbsd.category], cbsd.fccMax, cbsd.capability}) - TenMHz

(* _resolve_channel: 400 and 103 are the refusals.                         *)
ResolveChannel(links, r) ==
    LET over == {l \in Range(links) : Overlap(r, l.channel)}
        inside(l) == l.channel.low <= r.low /\ r.high <= l.channel.high
        covering == {l \in over : inside(l)}
    IN CASE \E l \in over : l.inPpa /\ ~l.inCluster -> [code |-> 400, type |-> "none"]
         [] \E l \in over : l.inCluster /\ ~inside(l) -> [code |-> 103, type |-> "none"]
         [] \E l \in covering : l.inCluster /\ l.owned -> [code |-> 0, type |-> "PAL"]
         [] covering # {} -> [code |-> 400, type |-> "none"]
         [] OTHER -> [code |-> 0, type |-> "GAA"]

(* The location screens; dpa is the verdict of the DPA screen (Dpa).       *)
Interferes(db, cbsd, r, eirp, dpa) ==
    \/ ~WellFormed(ActiveZones(db)) \/ HitsExclusionZone(ActiveZones(db), cbsd.at, r)
    \/ BlockedByGwpz(db.wisp, cbsd.at, r)
    \/ BlockedByQuietZone(cbsd.at, cbsd.category, r)
    \/ BlockedByFssGwbl(db, cbsd.at, r)
    \/ dpa
    \/ ViolatesBorderPfd(cbsd, eirp, r)

ScreenGrant(db, cbsd, r, eirp, dpa) ==
    LET channel == ResolveChannel(PpaPalContext(db, cbsd), r)
    IN CASE ParseFreq(r) # 0 -> [code |-> ParseFreq(r), type |-> "none"]
         [] eirp > MaxAllowedEirp(cbsd) -> [code |-> 103, type |-> "none"]
         [] channel.code # 0 -> channel
         [] Interferes(db, cbsd, r, eirp, dpa) -> [code |-> 400, type |-> "none"]
         [] OTHER -> channel
==============================================================================

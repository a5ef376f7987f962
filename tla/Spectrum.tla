------------------------------ MODULE Spectrum ------------------------------
(***************************************************************************)
(* Incumbents, zones, PALs and PPAs that administrators inject, federal    *)
(* feeds replace and PPA creation adds, while CBSDs ask for grants,        *)
(* heartbeat them and CPAS ends those the new data forbids.  Only the last *)
(* step of a grant request, of a PPA creation and of CPAS hold the         *)
(* IAP-admission lock; what they checked before it may be out of date.     *)
(***************************************************************************)
EXTENDS Ppa

CONSTANTS
    ExclusionZones, ExzFeeds,     \* injectable records, feeds of records
    FssRecords, FssFeeds,
    WispRecords, GwblPoints, GwblFeeds,
    PalRecords, PalFeeds,
    PpaZones, ClusterLists, PpaRequests, Creators,
    Requests,                     \* grant requests [cbsd, range, eirp]
    InitialPals, InitialFss,      \* licences and administrators' FSS of earlier days
    InitialFeed,                  \* and what the last FSS feed brought
    MaxEdits,                     \* bound on changes of the tables
    MaxLive                       \* and on grants and requests at a time

(* What is injected or synchronised is finite, a place and a frequency are *)
(* numbers, and the PALs of a PPA a sequence.                              *)
Ranges == [low : Int, high : Int]
Rings == [from : Int, to : Int]
ExzRows == [zone : SUBSET Rings, ranges : SUBSET Ranges]
ExzOK(rows) == IsFiniteSet(rows) /\ \A e \in rows : e \in ExzRows /\ IsFiniteSet(e.ranges)
WispOK(w) == w.zone \subseteq Rings /\ w.range \in Ranges
PalOK(p) == p.range \in Ranges
PpaOK(p) == p.pals \in Seq(Range(p.pals))

ASSUME SpectrumAssumption ==
    /\ \A c \in Cbsds : c.at \in Int
    /\ ExzOK(ExclusionZones) /\ \A feed \in ExzFeeds : ExzOK(feed)
    /\ \A w \in WispRecords : WispOK(w)
    /\ \A p \in InitialPals \cup PalRecords \cup UNION PalFeeds : PalOK(p)
    /\ \A p \in PpaZones \cup PpaRequests : PpaOK(p)
    /\ \A f \in InitialFss, g \in InitialFeed : f.id # g.id

VARIABLES
    db,        \* the tables, sync_meta (gens) and injection_generation (inj)
    draft,     \* requests that passed the screens and wait for the lock
    grants,    \* live grants; a grant that ends is removed
    making,    \* PPA records validated and not yet written
    snap,      \* the CPAS snapshot being evaluated
    syncing,   \* an FSS synchronisation between its reads and its commit
    edits      \* changes of the tables so far

vars == << db, draft, grants, making, snap, syncing, edits >>

Nothing == [none |-> TRUE]
NoGens == [fss |-> 0, gwbl |-> 0, exz |-> 0, dpa |-> 0]
DefaultRange == [low |-> BandLow, high |-> CoexLow]

Init ==
    /\ db = [exz |-> {}, ntia |-> FALSE, wisp |-> {}, gwbl |-> {},
             fss |-> InitialFss \cup InitialFeed, federal |-> {f.id : f \in InitialFeed},
             admin |-> {f.id : f \in InitialFss},
             pals |-> InitialPals, ppas |-> << >>, clusters |-> << >>,
             gens |-> [NoGens EXCEPT !.fss = Cardinality(InitialFss)],
             inj |-> Cardinality(InitialFss)]
    /\ draft = {} /\ grants = {}
    /\ making = [p \in Creators |-> Nothing]
    /\ snap = Nothing /\ syncing = Nothing /\ edits = 0

-----------------------------------------------------------------------------
(* Administration                                                          *)

Upsert(rows, rec) == {r \in rows : r.id # rec.id} \cup {rec}
Bumped(gens, key) == [gens EXCEPT ![key] = @ + 1]

Admin(new) ==
    /\ edits < MaxEdits /\ edits' = edits + 1
    /\ db' = new
    /\ UNCHANGED << draft, grants, making, snap, syncing >>

(* An empty body is stored without validation; no generation is bumped.    *)
InjectExclusionZone(rec) ==
    /\ Usable(rec.zone) \/ rec.zone = {}
    /\ Admin([db EXCEPT !.exz = @ \cup {rec}])
EnableNtia ==
    /\ ~db.ntia /\ Usable(NtiaContour)
    /\ Admin([db EXCEPT !.ntia = TRUE])

(* set_fss_provenance: a record is from one source at a time.              *)
InjectFss(rec) ==
    Admin([db EXCEPT !.fss = Upsert(@, rec), !.gens = Bumped(@, "fss"), !.inj = @ + 1,
                     !.admin = @ \cup {rec.id}, !.federal = @ \ {rec.id}])

InjectGwpz(rec) == Admin([db EXCEPT !.wisp = Upsert(@, rec), !.inj = @ + 1])
InjectGwblPoint(rec) ==
    Admin([db EXCEPT !.gwbl = Upsert(@, rec), !.gens = Bumped(@, "gwbl"), !.inj = @ + 1])

(* persist_zone_data replaces a row in place.                              *)
InjectZone(ppa) ==
    LET row == SelectInSeq(db.ppas, LAMBDA p : p.id = ppa.id)
    IN Admin([db EXCEPT !.ppas = IF row = 0 THEN Append(@, ppa) ELSE [@ EXCEPT ![row] = ppa],
                        !.inj = @ + 1])
InjectClusterList(list) ==
    Admin([db EXCEPT !.clusters = Append(SelectSeq(@, LAMBDA c : c.user # list.user), list),
                     !.inj = @ + 1])

(* inject_pal_database_record neither takes the lock nor bumps.            *)
InjectPal(rec) == Admin([db EXCEPT !.pals = Upsert(@, rec)])

-----------------------------------------------------------------------------
(* Database feeds                                                          *)

(* Placemarks without a polygon are skipped, those without ranges get the  *)
(* default.                                                                *)
SyncExz(feed) ==
    Admin([db EXCEPT
        !.exz = {[e EXCEPT !.ranges = IF @ = {} THEN {DefaultRange} ELSE @] :
                    e \in {f \in feed : f.zone # {}}},
        !.gens = Bumped(@, "exz")])

(* replace_fss_from_federal_payload holds no lock an injection takes.  It  *)
(* first reads who owns which station and the rows an earlier feed brought.*)
ReadFss(feed) ==
    /\ syncing = Nothing
    /\ edits < MaxEdits /\ edits' = edits + 1
    /\ syncing' = [feed |-> feed, admin |-> db.admin,
                   gone |-> {f.id : f \in db.fss} \cap db.federal]
    /\ UNCHANGED << db, draft, grants, making, snap >>
FeedIds == {f.id : f \in syncing.feed}

(* Those rows go, by their row ids, the feed's are updated or added, and   *)
(* the provenance read before is written back with the feed's ids.         *)
Synced ==
    LET kept == {f \in db.fss : f.id \notin syncing.gone \cup FeedIds}
    IN [db EXCEPT !.fss = kept \cup syncing.feed, !.federal = FeedIds,
                  !.admin = syncing.admin \ FeedIds, !.gens = Bumped(@, "fss")]

(* Mutant: a feed replaces every earth station.                            *)
SyncFssDropsAll ==
    /\ syncing # Nothing
    /\ db' = [Synced EXCEPT !.fss = syncing.feed]
    /\ syncing' = Nothing
    /\ UNCHANGED << draft, grants, making, snap, edits >>

SyncFss ==
    /\ syncing # Nothing
    /\ db' = Synced
    /\ syncing' = Nothing
    /\ UNCHANGED << draft, grants, making, snap, edits >>

(* An injection of a station that the synchronisation neither drops nor    *)
(* names has read the provenance and waits for its row until this commit;  *)
(* then it writes back what it read.  Both commits are this one step.      *)
InjectFssAcrossSync(rec) ==
    /\ syncing # Nothing
    /\ rec.id \notin syncing.gone \cup FeedIds
    /\ edits < MaxEdits /\ edits' = edits + 1
    /\ db' = [Synced EXCEPT !.fss = Upsert(@, rec), !.gens = Bumped(@, "fss"), !.inj = @ + 1,
                            !.admin = db.admin \cup {rec.id}, !.federal = db.federal \ {rec.id}]
    /\ syncing' = Nothing
    /\ UNCHANGED << draft, grants, making, snap >>

(* An error rolls the synchronisation of this feed back.                   *)
RollBackFss ==
    /\ syncing # Nothing
    /\ syncing' = Nothing
    /\ UNCHANGED << db, draft, grants, making, snap, edits >>

SyncGwbl(feed) == Admin([db EXCEPT !.gwbl = feed, !.gens = Bumped(@, "gwbl")])
SyncDpa == Admin([db EXCEPT !.gens = Bumped(@, "dpa")])
SyncPal(feed) == Admin([db EXCEPT !.pals = feed, !.inj = @ + 1])

-----------------------------------------------------------------------------
(* create_ppa; of a failed one only the status is left.                    *)

ValidatePpa(p, body) ==
    /\ making[p] = Nothing
    /\ edits < MaxEdits
    /\ PpaReason(db, body) = "none"
    /\ making' = [making EXCEPT ![p] = PpaRecord(db, body)]
    /\ UNCHANGED << db, draft, grants, snap, syncing, edits >>

PersistPpa(p) ==
    /\ making[p] # Nothing
    /\ db' = [db EXCEPT !.ppas = Append(@, making[p]), !.inj = @ + 1]
    /\ making' = [making EXCEPT ![p] = Nothing]
    /\ edits' = edits + 1
    /\ UNCHANGED << draft, grants, snap, syncing >>

-----------------------------------------------------------------------------
(* Grants                                                                  *)

CbsdOf(id) == CHOOSE c \in Cbsds : c.id = id
Key(g) == [cbsd |-> g.cbsd, range |-> g.range]

ScreenRequest(q, dpa) ==
    LET verdict == ScreenGrant(db, CbsdOf(q.cbsd), q.range, q.eirp, dpa)
    IN /\ Cardinality(draft) + Cardinality(grants) < MaxLive
       /\ \A d \in draft : d.cbsd # q.cbsd
       /\ verdict.code = 0
       /\ draft' = draft \cup {[cbsd |-> q.cbsd, range |-> q.range, type |-> verdict.type]}
       /\ UNCHANGED << db, grants, making, snap, syncing, edits >>

(* The conflict checks and the IAP verdict (Iap) are taken, and the grant  *)
(* is stamped, with the tables of this moment.                             *)
Conflicts(d) == \E g \in grants : g.cbsd = d.cbsd /\ Overlap(g.range, d.range)
InsertGrant(d, violates) ==
    /\ d \in draft
    /\ draft' = draft \ {d}
    /\ grants' = IF violates \/ Conflicts(d) THEN grants
                 ELSE grants \cup {[cbsd |-> d.cbsd, range |-> d.range, type |-> d.type,
                                    stamp |-> db.gens, on |-> FALSE]}
    /\ UNCHANGED << db, making, snap, syncing, edits >>

(* A grant that ends is out of the snapshot's reach: a later grant of the  *)
(* same CBSD and range is another row.                                     *)
End(ended) ==
    /\ grants' = grants \ ended
    /\ snap' = IF snap = Nothing THEN snap
               ELSE [snap EXCEPT !.grants = @ \ {Key(g) : g \in ended}]

(* WISP licences end a grant wherever its CBSD is.  A member of an active  *)
(* DPA's move list (Dpa) and a federal 501 go silent and keep the grant.   *)
Heartbeat(g, moved, expired) ==
    LET code == FederalCode(db, g, CbsdOf(g.cbsd).at)
        licensed == \E w \in db.wisp : Overlap(g.range, w.range)
        answer(on) == grants' = (grants \ {g}) \cup {[g EXCEPT !.on = on]} /\ UNCHANGED snap
    IN /\ g \in grants
       /\ CASE moved -> answer(FALSE)
            [] ~moved /\ (code = 500 \/ expired \/ licensed) -> End({g})
            [] OTHER -> answer(code # 501)
       /\ UNCHANGED << db, draft, making, syncing, edits >>

-----------------------------------------------------------------------------
(* CPAS                                                                    *)

(* Mutant: the GWBL rows are not captured.                                 *)
FreezeWithoutGwbl ==
    /\ snap = Nothing
    /\ WellFormed(ActiveZones(db))
    /\ snap' = [exz |-> ActiveZones(db), wisp |-> db.wisp, fss |-> db.fss, gwbl |-> {},
                inj |-> db.inj, grants |-> {Key(g) : g \in grants}]
    /\ UNCHANGED << db, draft, grants, making, syncing, edits >>

Freeze ==
    /\ snap = Nothing
    /\ WellFormed(ActiveZones(db))
    /\ snap' = [exz |-> ActiveZones(db), wisp |-> db.wisp, fss |-> db.fss, gwbl |-> db.gwbl,
                inj |-> db.inj, grants |-> {Key(g) : g \in grants}]
    /\ UNCHANGED << db, draft, grants, making, syncing, edits >>

(* Under the lock: nothing is applied when a generation moved or the       *)
(* evaluation fails.  Later stages (Iap, Dpa, peers) may end others.       *)
Doomed(g) == PreIapReason(snap, CbsdOf(g.cbsd), g.range) # "none"
Fails(g) == PreIapFails(snap, CbsdOf(g.cbsd), g.range)
Apply(others) ==
    LET frozen == {g \in grants : Key(g) \in snap.grants}
    IN /\ snap # Nothing
       /\ others \subseteq frozen
       /\ grants' = IF snap.inj # db.inj \/ \E g \in frozen : Fails(g) THEN grants
                    ELSE grants \ ({g \in frozen : Doomed(g)} \cup others)
       /\ snap' = Nothing
       /\ UNCHANGED << db, draft, making, syncing, edits >>

-----------------------------------------------------------------------------
Next ==
    \/ \E e \in ExclusionZones : InjectExclusionZone(e)
    \/ EnableNtia
    \/ \E f \in FssRecords : InjectFss(f)
    \/ \E w \in WispRecords : InjectGwpz(w)
    \/ \E p \in GwblPoints : InjectGwblPoint(p)
    \/ \E z \in PpaZones : InjectZone(z)
    \/ \E l \in ClusterLists : InjectClusterList(l)
    \/ \E p \in PalRecords : InjectPal(p)
    \/ \E f \in ExzFeeds : SyncExz(f)
    \/ \E f \in FssFeeds : ReadFss(f)
    \/ SyncFss
    \/ \E f \in FssRecords : InjectFssAcrossSync(f)
    \/ RollBackFss
    \/ \E f \in GwblFeeds : SyncGwbl(f)
    \/ SyncDpa
    \/ \E f \in PalFeeds : SyncPal(f)
    \/ \E p \in Creators, b \in PpaRequests : ValidatePpa(p, b)
    \/ \E p \in Creators : PersistPpa(p)
    \/ \E q \in Requests, dpa \in BOOLEAN : ScreenRequest(q, dpa)
    \/ \E d \in draft, violates \in BOOLEAN : InsertGrant(d, violates)
    \/ \E g \in grants, moved, expired \in BOOLEAN : Heartbeat(g, moved, expired)
    \/ Freeze
    \/ \E others \in SUBSET grants : Apply(others)

(* The daily run freezes and applies again and again.                      *)
Fairness == WF_vars(Freeze) /\ WF_vars(\E others \in SUBSET grants : Apply(others))
Spec == Init /\ [][Next]_vars /\ Fairness

-----------------------------------------------------------------------------
(* What a CBSD is offered, inquiring the whole band.                       *)
Offers(cbsd) == SpectrumInquiry(db, cbsd, << Band >>).channels

(* The two readers of a table agree where nothing excuses them: an offer   *)
(* is not refused to its CBSD by exclusion zones that name their ranges,   *)
(* by GWPZ, FSS or GWBL (excused: a CBSD on the edge of a zone, and a      *)
(* range without a frequency, which overlaps a wider one around it).       *)
(* (spectrum_inquiry_service.py:151-215, grant_service.py:307-359)         *)
OnAnEdge(x) ==
    \E zone \in {e.zone : e \in ActiveZones(db)} \cup {w.zone : w \in db.wisp} :
        \E ring \in zone : x = ring.to
OffersAreScreened ==
    (/\ WellFormed(ActiveZones(db)) /\ ~GwpzIndeterminate(db.wisp)
     /\ \A e \in db.exz : e.ranges # {} /\ \A r \in e.ranges : Ordered(r)
     /\ \A w \in db.wisp : Ordered(w.range)) =>
        \A c \in Cbsds : OnAnEdge(c.at) \/ \A o \in Offers(c) : o.type = "GAA" =>
            /\ ~HitsExclusionZone(ActiveZones(db), c.at, o.range)
            /\ ~BlockedByGwpz(db.wisp, c.at, o.range)
            /\ ~BlockedByFssGwbl(db, c.at, o.range)

(* An inquiry withholds what is withheld and nothing else: frequency by    *)
(* frequency, GAA is offered exactly outside the withheld ranges and the   *)
(* protected PAL channels, PAL only to the licensee's cluster, and no GAA  *)
(* offer crosses the channel raster.                                       *)
(* (spectrum_inquiry_service.py:41-81,151-277)                             *)
Has(r, f) == r.low <= f /\ f < r.high
WithheldFrom(c, f) ==
    \/ \E r \in WithheldAt(db, c.at) : Has(r, f)
    \/ \E l \in Range(PpaPalContext(db, c)) : (l.inCluster \/ l.inPpa) /\ Has(l.channel, f)
InquiryIsExact ==
    \A c \in Cbsds :
        /\ \A f \in BandLow .. BandHigh - 1 :
              (\E o \in Offers(c) : o.type = "GAA" /\ Has(o.range, f)) <=> ~WithheldFrom(c, f)
        /\ \A o \in Offers(c) :
              IF o.type = "GAA" THEN o.range.low \div Channel = (o.range.high - 1) \div Channel
              ELSE \E l \in Range(PpaPalContext(db, c)) :
                      l.inCluster /\ l.owned /\ l.channel = o.range

(* An earth station an administrator injected stays, and stays the         *)
(* administrator's until a feed claims it, whatever is synchronised;       *)
(* except one that was not yet the administrator's when a synchronisation  *)
(* in progress read who owns what.                                         *)
(* (fss_provenance.py:156-173, federal_db_service.py:107-132)              *)
Known(id) == syncing = Nothing \/ id \in syncing.admin
AdminFssRetained ==
    [][\A f \in db.fss : (f.id \in db.admin /\ Known(f.id)) =>
          /\ \E g \in db'.fss : g.id = f.id
          /\ f.id \in db'.admin \cup db'.federal]_vars

(* A grant in the way of an incumbent ends, or is not in its way any more, *)
(* once CPAS can evaluate at all; an unusable exclusion zone or a missing  *)
(* quiet-zone file stops every evaluation.                                 *)
(* (pre_iap_exclusions.py:111-229, cpas_service.py:859-948)                *)
Now == [exz |-> ActiveZones(db), wisp |-> db.wisp, fss |-> db.fss, gwbl |-> db.gwbl]
InTheWay(q) ==
    \E g \in grants : /\ Key(g) = [cbsd |-> q.cbsd, range |-> q.range]
                      /\ PreIapReason(Now, CbsdOf(q.cbsd), q.range) # "none"
Evaluable == WellFormed(ActiveZones(db)) /\ Offices # {}
ProtectedGrantsEnd ==
    \A q \in Requests : (InTheWay(q) /\ Evaluable) ~> (~InTheWay(q) \/ ~Evaluable)

(* Two PPAs made for the same PAL have no ground in common.                *)
(* (ppa_service.py:521-534)                                                *)
PpasClear ==
    \A i, j \in DOMAIN db.ppas :
        LET a == db.ppas[i]
            b == db.ppas[j]
        IN (i < j /\ a.id = "created" /\ b.id = "created" /\ Range(a.pals) \cap Range(b.pals) # {})
              => Cells(a.zone) \cap Cells(b.zone) = {}
==============================================================================

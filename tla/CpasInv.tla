------------------------------ MODULE CpasInv ------------------------------
(***************************************************************************)
(* The inductive invariant of Cpas: what the IAP admission lock excludes,  *)
(* stated on the program counters, and what is true of a grant between its *)
(* admission and its insertion.                                            *)
(***************************************************************************)
EXTENDS Cpas

Counters == [Keys -> Nat]
Stamps   == [Peers -> Nat]
Dumps    == [peer : Peers, was : Nat, gen : Nat, rec : Nat]

(* Who may be where.                                                       *)
PcOfActors ==
    /\ pc \in [Actors -> PcLabels]
    /\ \A i \in Writers : pc[i] \in {"idle", "zone", "url"}
    /\ \A r \in Requests : pc[r] \in {"idle", "admitted"}
    /\ \A w \in Workers : pc[w] \notin {"zone", "url", "admitted"}

(* Local variables hold what the program counter says was read into them.  *)
LocalsInv ==
    /\ \A w \in Workers : pc[w] = "apply_peer" => fetched[w] \in Dumps
    /\ \A w \in Workers : pc[w] \in {"enter", "critical", "stamp"} =>
          frozen[w].fp \in [peers : Stamps, inj : Counters]
    /\ \A w \in Workers : pc[w] \in {"pal", "cpi"} => loaded[w] \in Counters
    /\ \A i \in Writers : pc[i] \in {"zone", "url"} => loaded[i] \in Counters
    /\ \A r \in Requests : pc[r] = "admitted" => target[r] \in Grants

SnapshotRecords ==
    [run : Nat, grants : SUBSET Grants, peers : {None} \cup Stamps, zone : Nat, feed : Nat,
     fp : {None} \cup [peers : Stamps, inj : Counters],
     opened : {None} \cup [peers : Stamps, zone : Nat], clean : BOOLEAN,
     stamps : {None} \cup Stamps, counters : {None} \cup Counters]

SnapshotsInv == frozen \in [Workers -> SnapshotRecords]

HistoryInv ==
    /\ vetted \in [Grants -> {None} \cup [peers : {None} \cup Stamps, zone : Nat]]
    /\ screened \in [Grants -> Nat] /\ overtaken \subseteq Grants
    /\ effects \in [{"decided", "published", "stamped"} -> SUBSET Nat]
    /\ spent \in [{"runs", "injections", "failures"} -> Nat]

(* The critical section, an injection of protection records and an         *)
(* admission exclude each other.                                           *)
LockInv ==
    /\ \A w \in Workers : pc[w] = "critical" => iap = w
    /\ \A i \in Writers : pc[i] = "zone" => iap = i
    /\ \A r \in Requests : pc[r] = "admitted" => iap = r

(* An admitted grant is not in the table, is in no snapshot, and was       *)
(* examined against the records that are still stored.                     *)
AdmissionInv ==
    /\ \A w \in Workers : \A g \in frozen[w].grants : grant[g] # "none"
    /\ \A r \in Requests : pc[r] = "admitted" =>
          /\ grant[target[r]] = "none"
          /\ vetted[target[r]] = Content

(* Without a schedule nothing of a run is committed before its marker.     *)
CommitInv ==
    /\ \A w \in Workers : pc[w] # "stamp"
    /\ OneCommitPerRun

TInv == TypeOK /\ PcOfActors /\ LocalsInv /\ SnapshotsInv /\ HistoryInv
IInv ==
    /\ TInv
    /\ LockInv
    /\ AdmissionInv
    /\ ~ScheduleEnabled => CommitInv

(* The records a fingerprint stands for, when stamps and counters follow   *)
(* the records (StampsInv).                                                *)
Recorded(fp) == [peers |-> fp.peers, zone |-> fp.inj["zone"]]

(* Records are replaced by newer ones only.                                *)
Contents == [peers : Stamps, zone : Nat]
NoNewer(a, b) == (\A p \in Peers : a.peers[p] <= b.peers[p]) /\ a.zone <= b.zone

(* One execution of the pipeline, one injection in flight, peers that give *)
(* every dump its own stamp, and databases that move no counter.           *)
Orderly ==
    /\ \A v, w \in Workers : v = w
    /\ \A i, j \in Writers : i = j
    /\ ~ReuseStamps
    /\ Databases \subseteq {"federal"}

(* Stamps and counters follow the records, and a dump that is about to be  *)
(* stored is not older than the one stored.                                *)
StampsInv ==
    /\ \A p \in Peers : /\ remote[p].gen = remote[p].rec
                        /\ peerGen[p] = peerRec[p]
                        /\ peerGen[p] <= remote[p].gen
    /\ \A w \in Workers : pc[w] = "apply_peer" =>
          /\ fetched[w].gen = fetched[w].rec
          /\ fetched[w].was = peerGen[fetched[w].peer]
          /\ peerGen[fetched[w].peer] <= fetched[w].gen
          /\ fetched[w].gen <= remote[fetched[w].peer].gen
    /\ zone = meta["zone"]
    /\ \A i \in Writers : pc[i] \in {"zone", "url"} => loaded[i] = meta
    /\ \A w \in Workers : pc[w] \notin {"pal", "cpi"}

(* How far the freeze has come.                                            *)
ReadAll == {"enter", "critical", "stamp"}
ReadZone == {"freeze_generation"} \cup ReadAll
ReadPeers == {"freeze_zone"} \cup ReadZone
ReadGrants == {"freeze_peers"} \cup ReadPeers

(* The reads of a freeze lie, in their order, between the marker and what  *)
(* is stored now, and so does the examination of a grant admitted since.   *)
Read(w) == [peers |-> frozen[w].peers, zone |-> frozen[w].zone]
FreezeOrder(w) ==
    LET f == frozen[w]
    IN /\ pc[w] \in ReadGrants =>
            /\ f.opened \in Contents
            /\ NoNewer(f.opened, Content)
            /\ marker # None => NoNewer(Recorded(marker), f.opened)
            /\ \A g \in Active \ f.grants : NoNewer(f.opened, vetted[g])
       /\ pc[w] \in ReadPeers =>
            /\ f.peers \in Stamps
            /\ \A p \in Peers : f.opened.peers[p] <= f.peers[p] /\ f.peers[p] <= peerRec[p]
       /\ pc[w] \in ReadZone => f.opened.zone <= f.zone /\ f.zone <= zone
       /\ pc[w] \in ReadAll =>
            /\ NoNewer(Recorded(f.fp), Content)
            /\ f.clean => f.opened = Recorded(f.fp)
       /\ pc[w] = "stamp" => \A g \in f.grants : vetted[g] = Read(w)
FreezeInv == \A w \in Workers : FreezeOrder(w)

(* No active grant was examined against records older than those of the    *)
(* marker, when that comes from a clean freeze.                            *)
VettedInv ==
    /\ marker # None => NoNewer(Recorded(marker), Content)
    /\ \A g \in Active :
          /\ vetted[g] \in Contents
          /\ NoNewer(vetted[g], Content)
          /\ marker # None /\ basis.clean => NoNewer(Recorded(marker), vetted[g])

OrderInv == StampsInv /\ FreezeInv /\ VettedInv

(* One execution of the pipeline, and nothing but database synchronisation *)
(* writes protection records outside the IAP lock.                         *)
SyncsAlone ==
    /\ \A v, w \in Workers : v = w
    /\ ~UncountedWrites

(* The feed stands still from the first read of a run to its commit.  The  *)
(* grants of its snapshot are about to be examined against it, those       *)
(* admitted since were, and without a mark so was every one.               *)
Examined(g) == screened[g] = feed
FeedInv ==
    /\ ~reeval => \A g \in Active \ overtaken : Examined(g)
    /\ \A w \in Workers :
          /\ pc[w] \in ReadGrants => \A g \in Active \ (frozen[w].grants \cup overtaken) : Examined(g)
          /\ pc[w] \in ReadZone => frozen[w].feed = feed
          /\ pc[w] = "stamp" => \A g \in frozen[w].grants : Examined(g)
=============================================================================

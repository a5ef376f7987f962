----------------------------- MODULE Cpas_proof -----------------------------
(***************************************************************************)
(* Proofs about Cpas for every set of peers, grants, workers, requests and *)
(* injections and every bound: its types, the isolation of an admission    *)
(* from the writers of its baseline, one commit per run, the order of      *)
(* records that makes open admission vetted, and the re-examination of     *)
(* grants after a database synchronisation.                                *)
(***************************************************************************)
EXTENDS CpasInv, TLAPS

(* The actors are pairwise different and None is none of them.             *)
LEMMA ActorsDiffer ==
    /\ None \notin Actors
    /\ \A w \in Workers : w \in Actors /\ w \notin Requests /\ w \notin Writers
    /\ \A r \in Requests : r \in Actors /\ r \notin Workers /\ r \notin Writers
    /\ \A i \in Writers : i \in Actors /\ i \notin Workers /\ i \notin Requests
BY ActorsAssumption DEF Actors

(* The configuration is Boolean, and the counters are those of four keys.  *)
LEMMA ConstantTypes ==
    /\ UncountedWrites \in BOOLEAN /\ ScheduleEnabled \in BOOLEAN
    /\ SeparateProcess \in BOOLEAN /\ ReuseStamps \in BOOLEAN
    /\ {"zone", "url", "pal", "cpi"} = Keys
BY BooleansAssumption DEF Keys

(* The empty snapshot is a snapshot.                                       *)
LEMMA NotFrozenType == NotFrozen \in SnapshotRecords
BY DEF NotFrozen, SnapshotRecords

(* A step of one worker that replaces its snapshot by a well-formed one    *)
(* and changes no other row keeps the types.                               *)
LEMMA SnapshotStep ==
    ASSUME TInv, NEW w \in Workers, NEW s \in SnapshotRecords, NEW label \in PcLabels,
           label \notin {"apply_peer", "zone", "url", "pal", "cpi", "admitted"},
           label \in {"enter", "critical", "stamp"} =>
              s.fp \in [peers : Stamps, inj : Counters],
           frozen' = [frozen EXCEPT ![w] = s],
           pc' = [pc EXCEPT ![w] = label],
           spent' \in [{"runs", "injections", "failures"} -> Nat],
           reeval' \in BOOLEAN,
           todo' \in [Workers -> SUBSET Peers],
           fetched' \in [Workers -> Snapshots],
           \A v \in Workers \ {w} : fetched'[v] = fetched[v],
           iap' \in {None} \cup Actors,
           UNCHANGED <<remote, baseline, marker, grant, loaded, target, history>>
    PROVE  TInv'
<1> USE ActorsDiffer DEF TInv, baseline, history, examined
<1>1. SnapshotsInv'
    BY DEF SnapshotsInv
<1>2. frozen'[w] = s /\ \A v \in Workers \ {w} : frozen'[v] = frozen[v]
    BY DEF SnapshotsInv
<1>3. \A v \in Workers : frozen'[v].grants \subseteq Grants /\ frozen'[v].run \in Nat
    BY <1>1 DEF SnapshotsInv, SnapshotRecords
<1>4. TypeOK'
    BY <1>3 DEF TypeOK
<1>5. PcOfActors'
    BY DEF PcOfActors
<1>6. pc'[w] = label /\ \A a \in Actors \ {w} : pc'[a] = pc[a]
    BY DEF PcOfActors
<1>7. LocalsInv'
    BY <1>2, <1>6 DEF LocalsInv
<1>8. HistoryInv'
    BY DEF HistoryInv, examined
<1>9. QED
    BY <1>1, <1>4, <1>5, <1>7, <1>8

(* Each execution holds a snapshot, whichever part of it is frozen.        *)
LEMMA SnapshotOf ==
    ASSUME TInv, NEW w \in Workers
    PROVE  frozen[w] \in SnapshotRecords
BY DEF TInv, SnapshotsInv

(* What the tables read by the freeze hold.                                *)
LEMMA TablesRead ==
    ASSUME TInv
    PROVE  /\ Active \in SUBSET Grants
           /\ peerGen \in Stamps /\ peerRec \in Stamps /\ zone \in Nat /\ feed \in Nat /\ meta \in Counters
           /\ Content \in [peers : Stamps, zone : Nat]
           /\ Fingerprint \in [peers : Stamps, inj : Counters]
BY DEF TInv, TypeOK, Active, Content, Fingerprint, Stamps, Counters

(* freeze_cpas_snapshot, first read: the active grants.                    *)
LEMMA TypeFreezeGrants ==
    ASSUME TInv, NEW w \in Workers, FreezeGrants(w)
    PROVE  TInv'
<1> DEFINE s == [frozen[w] EXCEPT !.grants = Active, !.opened = Content]
<1>1. s \in SnapshotRecords
    BY SnapshotOf, TablesRead DEF SnapshotRecords
<1> HIDE DEF s
<1>2. frozen' = [frozen EXCEPT ![w] = s]
    BY DEF FreezeGrants, s
<1>3. QED
    BY <1>1, <1>2, SnapshotStep
    DEF FreezeGrants, Goto, PcLabels, TInv, TypeOK, HistoryInv, tables, history, examined, baseline

(* freeze_cpas_snapshot, second read: the peers' records.                  *)
LEMMA TypeFreezePeers ==
    ASSUME TInv, NEW w \in Workers, FreezePeers(w)
    PROVE  TInv'
<1> DEFINE s == [frozen[w] EXCEPT !.peers = peerRec, !.stamps = peerGen]
<1>1. s \in SnapshotRecords
    BY SnapshotOf, TablesRead DEF SnapshotRecords
<1> HIDE DEF s
<1>2. frozen' = [frozen EXCEPT ![w] = s]
    BY DEF FreezePeers, s
<1>3. QED
    BY <1>1, <1>2, SnapshotStep
    DEF FreezePeers, Goto, PcLabels, TInv, TypeOK, HistoryInv, tables, history, examined, baseline

(* freeze_cpas_snapshot, third read: the protection records.               *)
LEMMA TypeFreezeProtections ==
    ASSUME TInv, NEW w \in Workers, FreezeProtections(w)
    PROVE  TInv'
<1> DEFINE s == [frozen[w] EXCEPT !.zone = zone, !.feed = feed, !.counters = meta]
<1>1. s \in SnapshotRecords
    BY SnapshotOf, TablesRead DEF SnapshotRecords
<1> HIDE DEF s
<1>2. frozen' = [frozen EXCEPT ![w] = s]
    BY DEF FreezeProtections, s
<1>3. QED
    BY <1>1, <1>2, SnapshotStep
    DEF FreezeProtections, Goto, PcLabels, TInv, TypeOK, HistoryInv, tables, history, examined, baseline

(* freeze_cpas_snapshot, last read: the generations.                       *)
LEMMA TypeFreezeGeneration ==
    ASSUME TInv, NEW w \in Workers, FreezeGeneration(w)
    PROVE  TInv'
<1> DEFINE c == (frozen[w].opened = Content)
           s == [frozen[w] EXCEPT !.fp = Fingerprint, !.clean = c]
<1>1. c \in BOOLEAN
    OBVIOUS
<1> HIDE DEF c
<1>2. s \in SnapshotRecords /\ s.fp \in [peers : Stamps, inj : Counters]
    BY <1>1, SnapshotOf, TablesRead DEF SnapshotRecords
<1> HIDE DEF s
<1>3. frozen' = [frozen EXCEPT ![w] = s]
    BY DEF FreezeGeneration, s, c
<1>4. QED
    BY <1>2, <1>3, SnapshotStep
    DEF FreezeGeneration, Goto, PcLabels, TInv, TypeOK, HistoryInv, tables, history, examined, baseline

(* execute_cpas_pipeline begins a run.                                     *)
LEMMA TypeStartRun ==
    ASSUME TInv, NEW w \in Workers, StartRun(w)
    PROVE  TInv'
<1> DEFINE s == [NotFrozen EXCEPT !.run = spent.runs + 1]
<1>1. s \in SnapshotRecords
    BY NotFrozenType DEF TInv, HistoryInv, SnapshotRecords
<1> HIDE DEF s
<1>2. frozen' = [frozen EXCEPT ![w] = s]
    BY DEF StartRun, s
<1>3. spent' \in [{"runs", "injections", "failures"} -> Nat]
    BY DEF StartRun, Spend, TInv, HistoryInv
<1>4. QED
    BY <1>1, <1>2, <1>3, SnapshotStep
    DEF StartRun, Goto, PcLabels, TInv, TypeOK, tables, history, examined, baseline

(* A run enters exclusive_iap_admission and compares generations.          *)
LEMMA TypeEnterCritical ==
    ASSUME TInv, NEW w \in Workers, EnterCritical(w)
    PROVE  TInv'
<1> USE ActorsDiffer DEF EnterCritical, Goto, PcLabels, TInv, TypeOK, HistoryInv, history, examined, baseline
<1>1. CASE iap' = w /\ UNCHANGED <<reeval, todo, fetched, frozen>> /\ Goto(w, "critical")
    <2>1. frozen' = [frozen EXCEPT ![w] = frozen[w]]
        BY <1>1 DEF SnapshotsInv
    <2>2. frozen[w] \in SnapshotRecords /\ frozen[w].fp \in [peers : Stamps, inj : Counters]
        BY DEF SnapshotsInv, LocalsInv
    <2>3. QED
        BY <1>1, <2>1, <2>2, SnapshotStep
<1>2. CASE reeval' = TRUE /\ Forget(w) /\ Goto(w, "idle") /\ UNCHANGED iap
    BY <1>2, NotFrozenType, SnapshotStep DEF Forget, Snapshots
<1>3. QED
    BY <1>1, <1>2

(* A peer publishes a dump.                                                *)
LEMMA TypePublishDump ==
    ASSUME TInv, NEW p \in Peers, PublishDump(p)
    PROVE  TInv'
BY ActorsDiffer, ConstantTypes
DEF PublishDump, tables, locals, history, examined,
    TInv, TypeOK, PcOfActors, LocalsInv, SnapshotsInv, HistoryInv, Dumps, Stamps, Counters, Snapshots, PcLabels

(* An admitted request inserts its row and leaves the lock.                *)
LEMMA TypeInsertGrant ==
    ASSUME TInv, NEW r \in Requests, InsertGrant(r)
    PROVE  TInv'
<1> USE ActorsDiffer DEF InsertGrant, Goto, baseline, LeaveIap, TInv
<1>1. /\ grant' \in [Grants -> {"none", "active", "terminated"}]
      /\ target' \in [Requests -> {None} \cup Grants]
      /\ pc' \in [Actors -> PcLabels]
    BY DEF TypeOK, PcLabels
<1>2. TypeOK'
    BY <1>1 DEF TypeOK
<1>3. PcOfActors' /\ LocalsInv'
    BY <1>1 DEF PcOfActors, LocalsInv
<1>4. HistoryInv'
    BY DEF HistoryInv, LocalsInv
<1>5. QED
    BY <1>2, <1>3, <1>4 DEF SnapshotsInv

(* A run stores the dump it downloaded from a peer.                        *)
LEMMA TypeApplyPeerDump ==
    ASSUME TInv, NEW w \in Workers, ApplyPeerDump(w)
    PROVE  TInv'
<1> USE ActorsDiffer, ConstantTypes
    DEF ApplyPeerDump, Goto, StorePeerDump, history, examined,
        TInv, TypeOK, PcOfActors, LocalsInv, SnapshotsInv, HistoryInv, Dumps, Stamps, Counters, Snapshots, PcLabels
<1>1. TypeOK'
    OBVIOUS
<1>2. PcOfActors'
    OBVIOUS
<1>3. LocalsInv'
    OBVIOUS
<1>4. SnapshotsInv' /\ HistoryInv'
    OBVIOUS
<1>5. QED
    BY <1>1, <1>2, <1>3, <1>4

(* An injection reads the counters under the lock.                         *)
LEMMA TypeBeginInjection ==
    ASSUME TInv, NEW i \in Writers, NEW key \in {"zone", "url"}, BeginInjection(i, key)
    PROVE  TInv'
BY ActorsDiffer, ConstantTypes
DEF BeginInjection, Goto, Spend, TakeIap, tables, history, examined,
    TInv, TypeOK, PcOfActors, LocalsInv, SnapshotsInv, HistoryInv, Dumps, Stamps, Counters, Snapshots, PcLabels

(* A request passes the admission check under the lock.                    *)
LEMMA TypeAdmitGrant ==
    ASSUME TInv, NEW r \in Requests, NEW g \in Grants, NEW applicable \in BOOLEAN,
           AdmitGrant(r, g, applicable)
    PROVE  TInv'
BY ActorsDiffer, ConstantTypes
DEF AdmitGrant, Goto, TakeIap, tables, Content,
    TInv, TypeOK, PcOfActors, LocalsInv, SnapshotsInv, HistoryInv, Dumps, Stamps, Counters, Snapshots, PcLabels

(* A run downloads a peer's dump, or skips the peer.                       *)
LEMMA TypeFetchPeer ==
    ASSUME TInv, NEW w \in Workers, NEW p \in Peers, FetchPeer(w, p)
    PROVE  TInv'
<1> USE ActorsDiffer DEF FetchPeer, Goto, tables, history, examined
<1>1. [peer |-> p, was |-> peerGen[p], gen |-> remote[p].gen, rec |-> remote[p].rec] \in Dumps
    BY DEF TInv, TypeOK, Dumps
<1>2. fetched' \in [Workers -> Snapshots]
    BY <1>1 DEF TInv, TypeOK, Snapshots, Dumps
<1>3. todo' \in [Workers -> SUBSET Peers]
    <2>1. todo' = todo \/ todo' = [todo EXCEPT ![w] = @ \ {p}]
        OBVIOUS
    <2>2. QED
        BY <2>1 DEF TInv, TypeOK
<1>4. pc' = pc \/ pc' = [pc EXCEPT ![w] = "apply_peer"]
    OBVIOUS
<1>5. pc' \in [Actors -> PcLabels] /\ PcOfActors'
    BY <1>4 DEF TInv, PcOfActors, PcLabels
<1>9. TypeOK'
    BY <1>2, <1>3, <1>5 DEF TInv, TypeOK
<1>6. LocalsInv'
    BY <1>1 DEF TInv, TypeOK, LocalsInv, PcOfActors
<1>7. SnapshotsInv' /\ HistoryInv'
    BY DEF TInv, SnapshotsInv, HistoryInv
<1>8. QED
    BY <1>5, <1>6, <1>7, <1>9 DEF TInv

(* An injection writes its records and counters.                           *)
LEMMA TypeCommitInjection ==
    ASSUME TInv, NEW i \in Writers, CommitInjection(i)
    PROVE  TInv'
<1> USE ActorsDiffer, ConstantTypes DEF CommitInjection, Goto, locals, history, examined, LeaveIap
<1>1. pc[i] \in Keys /\ loaded[i] \in Counters
    BY DEF TInv, LocalsInv
<1>2. meta' \in Counters /\ zone' \in Nat
    BY <1>1 DEF Bump, Counters, TInv, TypeOK
<1>3. iap' \in {None} \cup Actors /\ pc' \in [Actors -> PcLabels]
    BY DEF TInv, TypeOK, PcLabels
<1>4. TypeOK'
    BY <1>2, <1>3 DEF TInv, TypeOK, Counters
<1>5. PcOfActors'
    BY DEF TInv, PcOfActors, PcLabels
<1>6. LocalsInv'
    BY DEF TInv, LocalsInv, PcOfActors
<1>7. SnapshotsInv' /\ HistoryInv'
    BY DEF TInv, SnapshotsInv, HistoryInv
<1>8. QED
    BY <1>4, <1>5, <1>6, <1>7 DEF TInv

(* What the decisions of a run and its history may write.                  *)
LEMMA DecideTypes ==
    ASSUME TInv, NEW w \in Workers, NEW doomed, Decide(w, doomed)
    PROVE  /\ grant' \in [Grants -> {"none", "active", "terminated"}]
           /\ vetted' \in [Grants -> {None} \cup [peers : {None} \cup Stamps, zone : Nat]]
           /\ screened' \in [Grants -> Nat] /\ overtaken' \subseteq Grants
BY SnapshotOf DEF TInv, TypeOK, HistoryInv, Decide, SnapshotRecords

(* What a run leaves in the history of its commits.                        *)
LEMMA EffectsTypes ==
    ASSUME TInv, NEW w \in Workers, NEW kinds, EffectsOf(w, kinds)
    PROVE  effects' \in [{"decided", "published", "stamped"} -> SUBSET Nat]
BY SnapshotOf DEF TInv, HistoryInv, EffectsOf, SnapshotRecords

(* A scheduled run commits its decisions first.                            *)
LEMMA TypeCommitScheduledSuccess ==
    ASSUME TInv, NEW w \in Workers, CommitScheduledSuccess(w)
    PROVE  TInv'
<1> USE ActorsDiffer, ConstantTypes DEF CommitScheduledSuccess, Goto, baseline, locals, LeaveIap
<1>1. /\ grant' \in [Grants -> {"none", "active", "terminated"}]
      /\ vetted' \in [Grants -> {None} \cup [peers : {None} \cup Stamps, zone : Nat]]
      /\ screened' \in [Grants -> Nat] /\ overtaken' \subseteq Grants
    BY DecideTypes
<1>2. effects' \in [{"decided", "published", "stamped"} -> SUBSET Nat]
    BY EffectsTypes
<1>3. iap' \in {None} \cup Actors /\ pc' \in [Actors -> PcLabels]
    BY DEF TInv, TypeOK, PcLabels
<1>4. TypeOK'
    BY <1>1, <1>3 DEF TInv, TypeOK
<1>5. PcOfActors'
    BY DEF TInv, PcOfActors, PcLabels
<1>6. LocalsInv'
    BY DEF TInv, LocalsInv, PcOfActors
<1>7. SnapshotsInv' /\ HistoryInv'
    BY <1>1, <1>2 DEF TInv, SnapshotsInv, HistoryInv
<1>8. QED
    BY <1>4, <1>5, <1>6, <1>7 DEF TInv

(* A worker that leaves the pipeline forgets its local variables.          *)
LEMMA ForgetTypes ==
    ASSUME TInv, NEW w \in Workers, Forget(w), Goto(w, "idle"),
           loaded' \in {loaded, [loaded EXCEPT ![w] = None]}, UNCHANGED target
    PROVE  /\ todo' \in [Workers -> SUBSET Peers]
           /\ fetched' \in [Workers -> Snapshots]
           /\ pc' \in [Actors -> PcLabels]
           /\ loaded' \in [Workers \cup Writers -> {None} \cup [Keys -> Nat]]
           /\ SnapshotsInv'
           /\ \A v \in Workers : frozen'[v].grants \subseteq Grants /\ frozen'[v].run \in Nat
           /\ PcOfActors' /\ LocalsInv'
<1> USE ActorsDiffer DEF Forget, Goto
<1>1. SnapshotsInv' /\ \A v \in Workers \ {w} : frozen'[v] = frozen[v]
    BY NotFrozenType DEF TInv, SnapshotsInv
<1>2. \A v \in Workers : frozen'[v].grants \subseteq Grants /\ frozen'[v].run \in Nat
    BY <1>1 DEF SnapshotsInv, SnapshotRecords
<1>3. todo' \in [Workers -> SUBSET Peers] /\ fetched' \in [Workers -> Snapshots]
    BY DEF TInv, TypeOK, Snapshots
<1>4. pc' \in [Actors -> PcLabels] /\ PcOfActors'
    BY DEF TInv, PcOfActors, PcLabels
<1>5. /\ loaded' \in [Workers \cup Writers -> {None} \cup [Keys -> Nat]]
      /\ \A a \in (Workers \cup Writers) \ {w} : loaded'[a] = loaded[a]
    BY DEF TInv, TypeOK
<1>6. LocalsInv'
    BY <1>1, <1>5 DEF TInv, TypeOK, LocalsInv, PcOfActors
<1>7. QED
    BY <1>1, <1>2, <1>3, <1>4, <1>5, <1>6

(* The marker becomes the fingerprint of the snapshot.                     *)
LEMMA StampTypes ==
    ASSUME TInv, NEW w \in Workers, pc[w] \in {"critical", "stamp"}, StampGeneration(w)
    PROVE  reeval' \in BOOLEAN /\ marker' \in [peers : Stamps, inj : Counters]
BY DEF TInv, LocalsInv, StampGeneration

(* An unscheduled run commits decisions and stamp at once.                 *)
LEMMA TypeCommitRun ==
    ASSUME TInv, NEW w \in Workers, CommitRun(w)
    PROVE  TInv'
<1> USE DEF CommitRun, baseline, LeaveIap
<1>1. /\ grant' \in [Grants -> {"none", "active", "terminated"}]
      /\ vetted' \in [Grants -> {None} \cup [peers : {None} \cup Stamps, zone : Nat]]
      /\ screened' \in [Grants -> Nat] /\ overtaken' \subseteq Grants
    BY DecideTypes
<1>2. effects' \in [{"decided", "published", "stamped"} -> SUBSET Nat]
    BY EffectsTypes
<1>3. reeval' \in BOOLEAN /\ marker' \in [peers : Stamps, inj : Counters]
    BY StampTypes
<1>4. TypeOK'
    BY <1>1, <1>3, ForgetTypes DEF TInv, TypeOK, Stamps, Counters
<1>5. PcOfActors' /\ LocalsInv' /\ SnapshotsInv'
    BY ForgetTypes
<1>6. HistoryInv'
    BY <1>1, <1>2 DEF TInv, HistoryInv
<1>7. QED
    BY <1>4, <1>5, <1>6 DEF TInv

(* A scheduled run commits its stamp afterwards.                           *)
LEMMA TypeCommitStamp ==
    ASSUME TInv, NEW w \in Workers, CommitStamp(w)
    PROVE  TInv'
<1> USE DEF CommitStamp, baseline, examined, LeaveIap
<1>1. effects' \in [{"decided", "published", "stamped"} -> SUBSET Nat]
    BY EffectsTypes
<1>2. reeval' \in BOOLEAN /\ marker' \in [peers : Stamps, inj : Counters]
    BY StampTypes
<1>3. TypeOK'
    BY <1>2, ForgetTypes DEF TInv, TypeOK, Stamps, Counters
<1>4. PcOfActors' /\ LocalsInv' /\ SnapshotsInv'
    BY ForgetTypes
<1>5. HistoryInv'
    BY <1>1 DEF TInv, HistoryInv
<1>6. QED
    BY <1>3, <1>4, <1>5 DEF TInv

(* A run fails and its locks are released.                                 *)
LEMMA TypeFailRun ==
    ASSUME TInv, NEW w \in Workers, FailRun(w)
    PROVE  TInv'
<1> USE DEF FailRun, tables, history, examined, LeaveIap
<1>1. TypeOK'
    BY ForgetTypes DEF TInv, TypeOK
<1>2. PcOfActors' /\ LocalsInv' /\ SnapshotsInv'
    BY ForgetTypes
<1>3. HistoryInv'
    BY DEF TInv, HistoryInv, Spend
<1>4. QED
    BY <1>1, <1>2, <1>3 DEF TInv

(* A run synchronises the external databases.                              *)
LEMMA TypeSyncDatabases ==
    ASSUME TInv, NEW w \in Workers, SyncDatabases(w)
    PROVE  TInv'
<1> USE ActorsDiffer, ConstantTypes
    DEF Goto, history, examined, TInv, TypeOK, PcOfActors, LocalsInv, SnapshotsInv, HistoryInv
<1>1. CASE SyncFederal(w)
    BY <1>1 DEF SyncFederal, Spend, locals
<1>2. ASSUME NEW key \in {"pal", "cpi"}, BeginSync(w, key)
      PROVE  TInv'
    BY <1>2 DEF BeginSync, Spend, tables, PcLabels, Counters
<1>3. CASE CommitSync(w)
    <2>1. pc[w] \in Keys /\ loaded[w] \in Counters
        BY <1>3 DEF CommitSync
    <2>2. meta' \in Counters /\ feed' \in Nat
        BY <1>3, <2>1 DEF CommitSync, Bump, Counters
    <2>3. QED
        BY <1>3, <2>2 DEF CommitSync, locals, PcLabels, Counters
<1>4. CASE EndSync(w)
    BY <1>4 DEF EndSync, tables, PcLabels
<1>5. QED
    BY <1>1, <1>2, <1>3, <1>4 DEF SyncDatabases

(* An administrator writes protection records outside the lock.            *)
LEMMA TypeInjectUncounted ==
    ASSUME TInv, NEW i \in Writers, InjectUncounted(i)
    PROVE  TInv'
BY DEF InjectUncounted, Spend, locals, history, examined,
       TInv, TypeOK, PcOfActors, LocalsInv, SnapshotsInv, HistoryInv

(* Every step keeps the types.                                             *)
LEMMA TypeStep ==
    ASSUME TInv, [Next]_vars
    PROVE  TInv'
<1>1. ASSUME NEW p \in Peers, PublishDump(p)
      PROVE  TInv'
    BY <1>1, TypePublishDump
<1>2. ASSUME NEW w \in Workers, StartRun(w)
      PROVE  TInv'
    BY <1>2, TypeStartRun
<1>3. ASSUME NEW w \in Workers, SyncDatabases(w)
      PROVE  TInv'
    BY <1>3, TypeSyncDatabases
<1>4. ASSUME NEW w \in Workers, NEW p \in Peers, FetchPeer(w, p)
      PROVE  TInv'
    BY <1>4, TypeFetchPeer
<1>5. ASSUME NEW w \in Workers, ApplyPeerDump(w)
      PROVE  TInv'
    BY <1>5, TypeApplyPeerDump
<1>6. ASSUME NEW w \in Workers, FreezeGrants(w)
      PROVE  TInv'
    BY <1>6, TypeFreezeGrants
<1>7. ASSUME NEW w \in Workers, FreezePeers(w)
      PROVE  TInv'
    BY <1>7, TypeFreezePeers
<1>8. ASSUME NEW w \in Workers, FreezeProtections(w)
      PROVE  TInv'
    BY <1>8, TypeFreezeProtections
<1>9. ASSUME NEW w \in Workers, FreezeGeneration(w)
      PROVE  TInv'
    BY <1>9, TypeFreezeGeneration
<1>10. ASSUME NEW w \in Workers, EnterCritical(w)
      PROVE  TInv'
    BY <1>10, TypeEnterCritical
<1>11. ASSUME NEW w \in Workers, CommitRun(w)
      PROVE  TInv'
    BY <1>11, TypeCommitRun
<1>12. ASSUME NEW w \in Workers, CommitScheduledSuccess(w)
      PROVE  TInv'
    BY <1>12, TypeCommitScheduledSuccess
<1>13. ASSUME NEW w \in Workers, CommitStamp(w)
      PROVE  TInv'
    BY <1>13, TypeCommitStamp
<1>14. ASSUME NEW w \in Workers, FailRun(w)
      PROVE  TInv'
    BY <1>14, TypeFailRun
<1>15. ASSUME NEW i \in Writers, CommitInjection(i)
      PROVE  TInv'
    BY <1>15, TypeCommitInjection
<1>16. ASSUME NEW i \in Writers, NEW key \in {"zone", "url"}, BeginInjection(i, key)
      PROVE  TInv'
    BY <1>16, TypeBeginInjection
<1>17. ASSUME NEW r \in Requests, InsertGrant(r)
      PROVE  TInv'
    BY <1>17, TypeInsertGrant
<1>18. ASSUME NEW r \in Requests, NEW g \in Grants, NEW applicable \in BOOLEAN, AdmitGrant(r, g, applicable)
      PROVE  TInv'
    BY <1>18, TypeAdmitGrant
<1>19. CASE UNCHANGED vars
    BY <1>19 DEF vars, tables, locals, history, examined, TInv, TypeOK, PcOfActors, LocalsInv, SnapshotsInv, HistoryInv
<1>20. ASSUME NEW i \in Writers, InjectUncounted(i)
      PROVE  TInv'
    BY <1>20, TypeInjectUncounted
<1>21. QED
    BY <1>1, <1>2, <1>3, <1>4, <1>5, <1>6, <1>7, <1>8, <1>9, <1>10, <1>11,
       <1>12, <1>13, <1>14, <1>15, <1>16, <1>17, <1>18, <1>19, <1>20
    DEF Next, Pipeline

(* The IAP lock: who leaves it held it, who enters found it free.          *)
LEMMA LockStep ==
    ASSUME TInv, LockInv, [Next]_vars
    PROVE  LockInv'
<1> USE ActorsDiffer DEF TInv, PcOfActors, LockInv
<1>1. ASSUME NEW p \in Peers, PublishDump(p)
      PROVE  LockInv'
    BY <1>1 DEF PublishDump
<1>2. ASSUME NEW w \in Workers, StartRun(w)
      PROVE  LockInv'
    BY <1>2 DEF StartRun, Goto
<1>3. ASSUME NEW w \in Workers, SyncDatabases(w)
      PROVE  LockInv'
    BY <1>3 DEF SyncDatabases, SyncFederal, BeginSync, CommitSync, EndSync, Goto, Spend, tables
<1>4. ASSUME NEW w \in Workers, NEW p \in Peers, FetchPeer(w, p)
      PROVE  LockInv'
    BY <1>4 DEF FetchPeer, Goto, tables
<1>5. ASSUME NEW w \in Workers, ApplyPeerDump(w)
      PROVE  LockInv'
    BY <1>5 DEF ApplyPeerDump, Goto
<1>6. ASSUME NEW w \in Workers, FreezeGrants(w)
      PROVE  LockInv'
    BY <1>6 DEF FreezeGrants, Goto, tables
<1>7. ASSUME NEW w \in Workers, FreezePeers(w)
      PROVE  LockInv'
    BY <1>7 DEF FreezePeers, Goto, tables
<1>8. ASSUME NEW w \in Workers, FreezeProtections(w)
      PROVE  LockInv'
    BY <1>8 DEF FreezeProtections, Goto, tables
<1>9. ASSUME NEW w \in Workers, FreezeGeneration(w)
      PROVE  LockInv'
    BY <1>9 DEF FreezeGeneration, Goto, tables
<1>10. ASSUME NEW w \in Workers, EnterCritical(w)
      PROVE  LockInv'
    BY <1>10 DEF EnterCritical, Goto, Forget
<1>11. ASSUME NEW w \in Workers, CommitRun(w)
      PROVE  LockInv'
    BY <1>11 DEF CommitRun, Goto, LeaveIap
<1>12. ASSUME NEW w \in Workers, CommitScheduledSuccess(w)
      PROVE  LockInv'
    BY <1>12 DEF CommitScheduledSuccess, Goto, LeaveIap
<1>13. ASSUME NEW w \in Workers, CommitStamp(w)
      PROVE  LockInv'
    BY <1>13 DEF CommitStamp, Goto, LeaveIap
<1>14. ASSUME NEW w \in Workers, FailRun(w)
      PROVE  LockInv'
    BY <1>14 DEF FailRun, Goto, LeaveIap
<1>15. ASSUME NEW i \in Writers, CommitInjection(i)
      PROVE  LockInv'
    BY <1>15 DEF CommitInjection, Goto, LeaveIap
<1>16. ASSUME NEW i \in Writers, NEW key \in {"zone", "url"}, BeginInjection(i, key)
      PROVE  LockInv'
    BY <1>16 DEF BeginInjection, Goto, TakeIap
<1>17. ASSUME NEW r \in Requests, InsertGrant(r)
      PROVE  LockInv'
    BY <1>17 DEF InsertGrant, Goto, LeaveIap
<1>18. ASSUME NEW r \in Requests, NEW g \in Grants, NEW applicable \in BOOLEAN, AdmitGrant(r, g, applicable)
      PROVE  LockInv'
    BY <1>18 DEF AdmitGrant, Goto, TakeIap
<1>19. CASE UNCHANGED vars
    BY <1>19 DEF vars
<1>20. ASSUME NEW i \in Writers, InjectUncounted(i)
      PROVE  LockInv'
    BY <1>20 DEF InjectUncounted
<1>21. QED
    BY <1>1, <1>2, <1>3, <1>4, <1>5, <1>6, <1>7, <1>8, <1>9, <1>10, <1>11,
       <1>12, <1>13, <1>14, <1>15, <1>16, <1>17, <1>18, <1>19, <1>20
    DEF Next, Pipeline

(* Nothing changes the locked records or the verdict on a grant between    *)
(* its admission and its insertion.                                        *)
LEMMA AdmissionStep ==
    ASSUME TInv, LockInv, AdmissionInv, [Next]_vars
    PROVE  AdmissionInv'
<1> USE ActorsDiffer DEF TInv, PcOfActors, LockInv, AdmissionInv
<1>1. ASSUME NEW p \in Peers, PublishDump(p)
      PROVE  AdmissionInv'
    BY <1>1 DEF PublishDump, tables, locals, history, examined, Content
<1>2. ASSUME NEW w \in Workers, StartRun(w)
      PROVE  AdmissionInv'
    BY <1>2 DEF StartRun, Goto, NotFrozen, tables, history, examined, Content, SnapshotsInv
<1>3. ASSUME NEW w \in Workers, SyncDatabases(w)
      PROVE  AdmissionInv'
    BY <1>3 DEF SyncDatabases, SyncFederal, BeginSync, CommitSync, EndSync, Goto, tables, locals, history, examined, Content
<1>4. ASSUME NEW w \in Workers, NEW p \in Peers, FetchPeer(w, p)
      PROVE  AdmissionInv'
    BY <1>4 DEF FetchPeer, Goto, tables, history, examined, Content
<1>5. ASSUME NEW w \in Workers, ApplyPeerDump(w)
      PROVE  AdmissionInv'
    BY <1>5 DEF ApplyPeerDump, Goto, history, examined
<1>6. ASSUME NEW w \in Workers, FreezeGrants(w)
      PROVE  AdmissionInv'
    BY <1>6 DEF FreezeGrants, Goto, tables, history, examined, Content, Active, SnapshotsInv
<1>7. ASSUME NEW w \in Workers, FreezePeers(w)
      PROVE  AdmissionInv'
    BY <1>7 DEF FreezePeers, Goto, tables, history, examined, Content, SnapshotsInv, SnapshotRecords
<1>8. ASSUME NEW w \in Workers, FreezeProtections(w)
      PROVE  AdmissionInv'
    BY <1>8 DEF FreezeProtections, Goto, tables, history, examined, Content, SnapshotsInv, SnapshotRecords
<1>9. ASSUME NEW w \in Workers, FreezeGeneration(w)
      PROVE  AdmissionInv'
    BY <1>9 DEF FreezeGeneration, Goto, tables, history, examined, Content, SnapshotsInv, SnapshotRecords
<1>10. ASSUME NEW w \in Workers, EnterCritical(w)
      PROVE  AdmissionInv'
    BY <1>10 DEF EnterCritical, Goto, baseline, history, examined, Content, Forget, NotFrozen, SnapshotsInv
<1>11. ASSUME NEW w \in Workers, CommitRun(w)
      PROVE  AdmissionInv'
    BY <1>11 DEF CommitRun, Goto, baseline, Forget, NotFrozen, Decide, SnapshotsInv, SnapshotRecords
<1>12. ASSUME NEW w \in Workers, CommitScheduledSuccess(w)
      PROVE  AdmissionInv'
    BY <1>12 DEF CommitScheduledSuccess, Goto, baseline, locals, Decide, SnapshotsInv, SnapshotRecords
<1>13. ASSUME NEW w \in Workers, CommitStamp(w)
      PROVE  AdmissionInv'
    BY <1>13 DEF CommitStamp, Goto, baseline, examined, Content, Forget, NotFrozen, SnapshotsInv
<1>14. ASSUME NEW w \in Workers, FailRun(w)
      PROVE  AdmissionInv'
    BY <1>14 DEF FailRun, Goto, tables, history, examined, Content, Forget, NotFrozen, SnapshotsInv
<1>15. ASSUME NEW i \in Writers, CommitInjection(i)
      PROVE  AdmissionInv'
    BY <1>15 DEF CommitInjection, Goto, locals, history, examined, Content
<1>16. ASSUME NEW i \in Writers, NEW key \in {"zone", "url"}, BeginInjection(i, key)
      PROVE  AdmissionInv'
    BY <1>16 DEF BeginInjection, Goto, tables, history, examined, Content
<1>17. ASSUME NEW r \in Requests, InsertGrant(r)
      PROVE  AdmissionInv'
    BY <1>17 DEF InsertGrant, Goto, baseline, history, examined, TypeOK, SnapshotsInv, SnapshotRecords
<1>18. ASSUME NEW r \in Requests, NEW g \in Grants, NEW applicable \in BOOLEAN, AdmitGrant(r, g, applicable)
      PROVE  AdmissionInv'
    BY <1>18 DEF AdmitGrant, Goto, tables, Content, TypeOK, HistoryInv
<1>19. CASE UNCHANGED vars
    BY <1>19 DEF vars, tables, locals, history, examined, Content
<1>20. ASSUME NEW i \in Writers, InjectUncounted(i)
      PROVE  AdmissionInv'
    BY <1>20 DEF InjectUncounted, locals, history, examined, Content
<1>21. QED
    BY <1>1, <1>2, <1>3, <1>4, <1>5, <1>6, <1>7, <1>8, <1>9, <1>10, <1>11,
       <1>12, <1>13, <1>14, <1>15, <1>16, <1>17, <1>18, <1>19, <1>20
    DEF Next, Pipeline

(* Without a schedule a run commits once.                                  *)
LEMMA CommitStep ==
    ASSUME TInv, CommitInv, ~ScheduleEnabled, [Next]_vars
    PROVE  CommitInv'
<1> USE ActorsDiffer DEF TInv, PcOfActors, HistoryInv, CommitInv, OneCommitPerRun
<1>1. ASSUME NEW p \in Peers, PublishDump(p)
      PROVE  CommitInv'
    BY <1>1 DEF PublishDump, locals, history, examined
<1>2. ASSUME NEW w \in Workers, StartRun(w)
      PROVE  CommitInv'
    BY <1>2 DEF StartRun, Goto, history, examined
<1>3. ASSUME NEW w \in Workers, SyncDatabases(w)
      PROVE  CommitInv'
    BY <1>3 DEF SyncDatabases, SyncFederal, BeginSync, CommitSync, EndSync, Goto, Spend, locals, history, examined
<1>4. ASSUME NEW w \in Workers, NEW p \in Peers, FetchPeer(w, p)
      PROVE  CommitInv'
    BY <1>4 DEF FetchPeer, Goto, history, examined
<1>5. ASSUME NEW w \in Workers, ApplyPeerDump(w)
      PROVE  CommitInv'
    BY <1>5 DEF ApplyPeerDump, Goto, history, examined
<1>6. ASSUME NEW w \in Workers, FreezeGrants(w)
      PROVE  CommitInv'
    BY <1>6 DEF FreezeGrants, Goto, history, examined
<1>7. ASSUME NEW w \in Workers, FreezePeers(w)
      PROVE  CommitInv'
    BY <1>7 DEF FreezePeers, Goto, history, examined
<1>8. ASSUME NEW w \in Workers, FreezeProtections(w)
      PROVE  CommitInv'
    BY <1>8 DEF FreezeProtections, Goto, history, examined
<1>9. ASSUME NEW w \in Workers, FreezeGeneration(w)
      PROVE  CommitInv'
    BY <1>9 DEF FreezeGeneration, Goto, history, examined
<1>10. ASSUME NEW w \in Workers, EnterCritical(w)
      PROVE  CommitInv'
    BY <1>10 DEF EnterCritical, Goto, history, examined
<1>11. ASSUME NEW w \in Workers, CommitRun(w)
      PROVE  CommitInv'
    BY <1>11 DEF CommitRun, Goto, EffectsOf
<1>12. ASSUME NEW w \in Workers, CommitScheduledSuccess(w)
      PROVE  CommitInv'
    BY <1>12 DEF CommitScheduledSuccess, Goto
<1>13. ASSUME NEW w \in Workers, CommitStamp(w)
      PROVE  CommitInv'
    BY <1>13 DEF CommitStamp, Goto
<1>14. ASSUME NEW w \in Workers, FailRun(w)
      PROVE  CommitInv'
    BY <1>14 DEF FailRun, Goto, history, examined
<1>15. ASSUME NEW i \in Writers, CommitInjection(i)
      PROVE  CommitInv'
    BY <1>15 DEF CommitInjection, Goto, history, examined
<1>16. ASSUME NEW i \in Writers, NEW key \in {"zone", "url"}, BeginInjection(i, key)
      PROVE  CommitInv'
    BY <1>16 DEF BeginInjection, Goto, history, examined
<1>17. ASSUME NEW r \in Requests, InsertGrant(r)
      PROVE  CommitInv'
    BY <1>17 DEF InsertGrant, Goto, history, examined
<1>18. ASSUME NEW r \in Requests, NEW g \in Grants, NEW applicable \in BOOLEAN, AdmitGrant(r, g, applicable)
      PROVE  CommitInv'
    BY <1>18 DEF AdmitGrant, Goto
<1>19. CASE UNCHANGED vars
    BY <1>19 DEF vars, history, examined
<1>20. ASSUME NEW i \in Writers, InjectUncounted(i)
      PROVE  CommitInv'
    BY <1>20 DEF InjectUncounted, locals, history, examined
<1>21. QED
    BY <1>1, <1>2, <1>3, <1>4, <1>5, <1>6, <1>7, <1>8, <1>9, <1>10, <1>11,
       <1>12, <1>13, <1>14, <1>15, <1>16, <1>17, <1>18, <1>19, <1>20
    DEF Next, Pipeline

(* What holds before the first request and the first run.                  *)
LEMMA InitInv == Init => IInv
<1> SUFFICES ASSUME Init PROVE IInv
    OBVIOUS
<1> USE ActorsDiffer DEF Init
<1>1. frozen \in [Workers -> SnapshotRecords] /\ \A w \in Workers : frozen[w].grants = {}
    BY NotFrozenType DEF NotFrozen
<1>2. \A w \in Workers : frozen[w].run = 0
    BY DEF NotFrozen
<1>3. pc \in [Actors -> PcLabels]
    BY DEF PcLabels
<1>4. TypeOK
    <2>1. remote \in [Peers -> [gen : Nat, rec : Nat]] /\ peerGen \in [Peers -> Nat]
          /\ peerRec \in [Peers -> Nat] /\ zone \in Nat /\ meta \in [Keys -> Nat]
        OBVIOUS
    <2>2. /\ todo \in [Workers -> SUBSET Peers] /\ fetched \in [Workers -> Snapshots]
          /\ loaded \in [Workers \cup Writers -> {None} \cup [Keys -> Nat]]
          /\ target \in [Requests -> {None} \cup Grants]
          /\ grant \in [Grants -> {"none", "active", "terminated"}]
        BY DEF Snapshots
    <2>3. \A w \in Workers : frozen[w].grants \subseteq Grants /\ frozen[w].run \in Nat
        BY <1>1, <1>2
    <2>4. QED
        BY <1>3, <2>1, <2>2, <2>3 DEF TypeOK
<1>5. PcOfActors /\ LocalsInv /\ LockInv
    BY DEF PcOfActors, PcLabels, LocalsInv, LockInv
<1>6. SnapshotsInv /\ HistoryInv
    BY <1>1 DEF SnapshotsInv, HistoryInv
<1>7. AdmissionInv
    BY <1>1 DEF AdmissionInv
<1>8. CommitInv
    BY DEF CommitInv, OneCommitPerRun
<1>9. QED
    BY <1>4, <1>5, <1>6, <1>7, <1>8 DEF IInv, TInv

(* The invariant is inductive.                                             *)
THEOREM Invariance == Spec => []IInv
<1>1. Init => IInv
    BY InitInv
<1>2. IInv /\ [Next]_vars => IInv'
    BY TypeStep, LockStep, AdmissionStep, CommitStep DEF IInv
<1>3. QED
    BY <1>1, <1>2, PTL DEF Spec

(* Every row and every local variable keeps its type, whatever runs,       *)
(* injections and admissions interleave.                                   *)
THEOREM TypeCorrectness == Spec => []TypeOK
<1>1. IInv => TypeOK
    BY DEF IInv, TInv
<1>2. QED
    BY <1>1, Invariance, PTL

(* A grant is inserted on the peer and locked protection records its       *)
(* proposal was examined against: proposed_grant_violates_iap and the      *)
(* insert of process_grant share the admission lock with the other writers *)
(* of these.  Database synchronisation, which does not take it, interleaves*)
(* freely and is outside the statement.                                    *)
THEOREM AdmissionIsolation == Spec => AdmittedOnLiveBaseline
<1> DEFINE Step == \A g \in Grants :
                     grant[g] = "none" /\ grant'[g] = "active" => vetted[g] = Content
<1>1. ASSUME IInv, [Next]_vars
      PROVE  Step
    <2> USE <1>1 DEF IInv, TInv, TypeOK
    <2>1. ASSUME NEW r \in Requests, InsertGrant(r)
          PROVE  Step
        BY <2>1 DEF InsertGrant, AdmissionInv
    <2>2. ASSUME NEW w \in Workers, CommitRun(w) \/ CommitScheduledSuccess(w)
          PROVE  Step
        BY <2>2 DEF CommitRun, CommitScheduledSuccess, Decide
    <2>3. CASE UNCHANGED grant
        BY <2>3
    <2>4. CASE Next
        BY <2>1, <2>2, <2>3, <2>4
        DEF Next, Pipeline, PublishDump, StartRun, SyncDatabases, SyncFederal, BeginSync,
            CommitSync, EndSync, InjectUncounted, FetchPeer, ApplyPeerDump,
            FreezeGrants, FreezePeers, FreezeProtections, FreezeGeneration, EnterCritical,
            CommitStamp, FailRun, CommitInjection, BeginInjection, AdmitGrant, tables
    <2>5. QED
        BY <2>3, <2>4 DEF vars, tables
<1>2. IInv /\ [Next]_vars => [Step]_vars
    BY <1>1
<1>3. QED
    BY <1>2, Invariance, PTL DEF Spec, AdmittedOnLiveBaseline

(* Outside the scheduled window a run's decisions, its dump and its        *)
(* admission marker reach the database together or not at all.             *)
THEOREM SingleCommit == ~ScheduleEnabled => (Spec => []OneCommitPerRun)
<1> SUFFICES ASSUME ~ScheduleEnabled PROVE Spec => []OneCommitPerRun
    OBVIOUS
<1>1. IInv => OneCommitPerRun
    BY DEF IInv, CommitInv
<1>2. QED
    BY <1>1, Invariance, PTL

-----------------------------------------------------------------------------
(* Open admission is vetted, with or without the daily schedule, when      *)
(* executions of the pipeline do not overlap (CpasSchedule_proof) and the  *)
(* environment is Orderly.  Records then only grow newer, stamps and       *)
(* counters follow them, and everything a freeze reads lies between the    *)
(* marker and what is stored: a marker that equals the stored generation   *)
(* leaves no room.                                                         *)

(* An order on what is stored.                                             *)
LEMMA NoNewerRefl == \A a \in Contents : NoNewer(a, a)
BY DEF Contents, NoNewer, Stamps

(* The order on stored records is transitive.                              *)
LEMMA NoNewerTrans ==
    ASSUME NEW a \in Contents, NEW b \in Contents, NEW c \in Contents,
           NoNewer(a, b), NoNewer(b, c)
    PROVE  NoNewer(a, c)
BY DEF Contents, NoNewer, Stamps

(* Records no newer than each other are the same: nothing lies strictly    *)
(* between equal stamps.                                                   *)
LEMMA NoNewerAntisym ==
    ASSUME NEW a \in Contents, NEW b \in Contents, NoNewer(a, b), NoNewer(b, a)
    PROVE  a = b
<1>1. a.peers \in Stamps /\ b.peers \in Stamps /\ a.zone \in Nat /\ b.zone \in Nat
    BY DEF Contents
<1>2. \A p \in Peers : a.peers[p] = b.peers[p]
    BY <1>1 DEF NoNewer, Stamps
<1>3. a.peers = b.peers
    BY <1>1, <1>2 DEF Stamps
<1>4. a.zone = b.zone
    BY <1>1 DEF NoNewer
<1>5. QED
    BY <1>3, <1>4 DEF Contents

(* A fingerprint stands for records.                                       *)
LEMMA RecordedType ==
    ASSUME NEW fp \in [peers : Stamps, inj : Counters]
    PROVE  Recorded(fp) \in Contents
BY DEF Recorded, Contents, Counters, Keys

(* After any step, too, what is stored is a content.                       *)
LEMMA NextContent == ASSUME TInv' PROVE Content' \in Contents
BY DEF TInv, TypeOK, Content, Contents, Stamps

(* The stored fingerprint stands for the stored records.                   *)
LEMMA CurrentRecorded ==
    ASSUME TInv, StampsInv
    PROVE  /\ Fingerprint \in [peers : Stamps, inj : Counters]
           /\ Content \in Contents
           /\ Recorded(Fingerprint) = Content
<1>1. peerGen \in Stamps /\ peerRec \in Stamps /\ zone \in Nat /\ meta \in Counters
        /\ Fingerprint \in [peers : Stamps, inj : Counters]
    BY TablesRead
<1>2. peerGen = peerRec
    BY <1>1 DEF StampsInv, Stamps
<1>3. QED
    BY <1>1, <1>2 DEF StampsInv, Recorded, Fingerprint, Content, Contents

-----------------------------------------------------------------------------
(* Stamps follow records, and records grow newer.                          *)
LEMMA StampsStep ==
    ASSUME TInv, Orderly, StampsInv, [Next]_vars
    PROVE  StampsInv' /\ NoNewer(Content, Content')
<1> USE ActorsDiffer DEF TInv, PcOfActors, TypeOK
<1>1. ASSUME UNCHANGED baseline PROVE NoNewer(Content, Content')
    BY <1>1 DEF baseline, Content, NoNewer
<1>2. ASSUME NEW p \in Peers, PublishDump(p)
      PROVE  StampsInv' /\ UNCHANGED baseline
    BY <1>2 DEF PublishDump, tables, locals, baseline, StampsInv, LocalsInv, Dumps, Orderly
<1>3. ASSUME NEW w \in Workers, NEW p \in Peers, FetchPeer(w, p)
      PROVE  StampsInv' /\ UNCHANGED baseline
    BY <1>3 DEF FetchPeer, Goto, tables, baseline, StampsInv
<1>4. ASSUME NEW w \in Workers, ApplyPeerDump(w)
      PROVE  StampsInv' /\ NoNewer(Content, Content')
    <2>1. fetched[w] \in Dumps
        BY <1>4 DEF ApplyPeerDump, LocalsInv
    <2>2. \A v \in Workers : pc'[v] # "apply_peer"
        BY <1>4 DEF ApplyPeerDump, Goto, Orderly
    <2>3. StampsInv'
        BY <1>4, <2>1, <2>2 DEF ApplyPeerDump, StorePeerDump, Goto, StampsInv, Dumps
    <2>4. NoNewer(Content, Content')
        BY <1>4, <2>1 DEF ApplyPeerDump, StorePeerDump, StampsInv, Dumps, Content, NoNewer
    <2>5. QED
        BY <2>3, <2>4
<1>5. ASSUME NEW i \in Writers, NEW key \in {"zone", "url"}, BeginInjection(i, key)
      PROVE  StampsInv' /\ UNCHANGED baseline
    BY <1>5 DEF BeginInjection, Goto, tables, baseline, StampsInv, Orderly
<1>6. ASSUME NEW i \in Writers, CommitInjection(i)
      PROVE  StampsInv' /\ NoNewer(Content, Content')
    <2>1. loaded[i] = meta
        BY <1>6 DEF CommitInjection, StampsInv
    <2>2. \A j \in Writers : pc'[j] = "idle"
        BY <1>6 DEF CommitInjection, Goto, Orderly
    <2>3. zone' = meta'["zone"] /\ zone <= zone'
        BY <1>6, <2>1 DEF CommitInjection, Bump, StampsInv, Keys
    <2>4. StampsInv'
        BY <1>6, <2>2, <2>3 DEF CommitInjection, Goto, locals, StampsInv
    <2>5. NoNewer(Content, Content')
        BY <1>6, <2>3 DEF CommitInjection, Content, NoNewer
    <2>6. QED
        BY <2>4, <2>5
<1>7. ASSUME NEW w \in Workers, SyncDatabases(w)
      PROVE  StampsInv' /\ NoNewer(Content, Content')
    <2>1. SyncFederal(w) \/ EndSync(w)
        BY <1>7 DEF SyncDatabases, BeginSync, CommitSync, StampsInv, Orderly
    <2>2. UNCHANGED <<remote, peerGen, peerRec, zone, meta, fetched, loaded>>
        BY <2>1 DEF SyncFederal, EndSync, tables, locals
    <2>3. StampsInv'
        BY <2>1, <2>2 DEF SyncFederal, EndSync, Goto, StampsInv
    <2>4. QED
        BY <2>2, <2>3 DEF Content, NoNewer
<1>8. ASSUME NEW w \in Workers,
             \/ StartRun(w) \/ FreezeGrants(w) \/ FreezePeers(w) \/ FreezeProtections(w)
             \/ FreezeGeneration(w)
      PROVE  StampsInv' /\ UNCHANGED baseline
    <2>1. CASE StartRun(w)
        BY <2>1 DEF StartRun, Goto, tables, baseline, StampsInv
    <2>2. CASE FreezeGrants(w)
        BY <2>2 DEF FreezeGrants, Goto, tables, baseline, StampsInv
    <2>3. CASE FreezePeers(w)
        BY <2>3 DEF FreezePeers, Goto, tables, baseline, StampsInv
    <2>4. CASE FreezeProtections(w)
        BY <2>4 DEF FreezeProtections, Goto, tables, baseline, StampsInv
    <2>5. CASE FreezeGeneration(w)
        BY <2>5 DEF FreezeGeneration, Goto, tables, baseline, StampsInv
    <2>6. QED
        BY <1>8, <2>1, <2>2, <2>3, <2>4, <2>5
<1>9. ASSUME NEW w \in Workers, EnterCritical(w) \/ FailRun(w)
      PROVE  StampsInv' /\ UNCHANGED baseline
    BY <1>9 DEF EnterCritical, FailRun, Goto, Forget, tables, baseline, StampsInv, Orderly
<1>10. ASSUME NEW w \in Workers, CommitRun(w) \/ CommitScheduledSuccess(w) \/ CommitStamp(w)
       PROVE  StampsInv' /\ UNCHANGED baseline
    BY <1>10 DEF CommitRun, CommitScheduledSuccess, CommitStamp, Goto, Forget, locals, baseline,
                 StampsInv, Orderly
<1>11. ASSUME NEW r \in Requests,
              InsertGrant(r) \/ \E g \in Grants, applicable \in BOOLEAN : AdmitGrant(r, g, applicable)
       PROVE  StampsInv' /\ UNCHANGED baseline
    BY <1>11 DEF InsertGrant, AdmitGrant, Goto, tables, baseline, StampsInv
<1>12. ASSUME NEW i \in Writers, InjectUncounted(i)
       PROVE  StampsInv' /\ NoNewer(Content, Content')
    BY <1>12 DEF InjectUncounted, locals, StampsInv, Content, NoNewer
<1>13. CASE UNCHANGED vars
    BY <1>13 DEF vars, tables, locals, baseline, StampsInv, Content, NoNewer
<1>14. QED
    BY <1>1, <1>2, <1>3, <1>4, <1>5, <1>6, <1>7, <1>8, <1>9, <1>10, <1>11, <1>12, <1>13
    DEF Next, Pipeline

-----------------------------------------------------------------------------
(* What the freeze of a worker has read has the types of Contents.         *)
LEMMA ReadTypes ==
    ASSUME TInv, FreezeInv, NEW w \in Workers
    PROVE  /\ pc[w] \in ReadPeers => Read(w) \in Contents
           /\ pc[w] \in ReadAll => Recorded(frozen[w].fp) \in Contents
<1>1. frozen[w].zone \in Nat
    BY SnapshotOf DEF SnapshotRecords
<1>2. pc[w] \in ReadPeers => frozen[w].peers \in Stamps
    BY DEF FreezeInv, FreezeOrder
<1>3. pc[w] \in ReadAll => frozen[w].fp \in [peers : Stamps, inj : Counters]
    BY DEF TInv, LocalsInv, ReadAll
<1>4. QED
    BY <1>1, <1>2, <1>3, RecordedType DEF Read, Contents

(* An active grant was active before with the same examination, or has     *)
(* just been inserted, examined against what is stored.                    *)
SameGrants ==
    \A g \in Active' : \/ g \in Active /\ vetted'[g] = vetted[g]
                      \/ vetted'[g] = Content

(* A step that leaves snapshots and marker alone.                          *)
LEMMA FreezeKept ==
    ASSUME TInv, StampsInv, FreezeInv, StampsInv', TInv',
           NoNewer(Content, Content'), SameGrants,
           UNCHANGED <<frozen, marker>>,
           \A w \in Workers : \A g \in frozen[w].grants : vetted'[g] = vetted[g],
           \A w \in Workers :
              /\ pc'[w] \in ReadGrants => pc[w] \in ReadGrants
              /\ pc'[w] \in ReadPeers => pc[w] \in ReadPeers
              /\ pc'[w] \in ReadZone => pc[w] \in ReadZone
              /\ pc'[w] \in ReadAll => pc[w] \in ReadAll
              /\ pc'[w] = "stamp" => pc[w] = "stamp"
    PROVE  FreezeInv'
<1> SUFFICES ASSUME NEW w \in Workers PROVE FreezeOrder(w)'
    BY DEF FreezeInv
<1>1. FreezeOrder(w)
    BY DEF FreezeInv
<1>2. Content \in Contents /\ Content' \in Contents
    BY CurrentRecorded, NextContent
<1>3. ASSUME pc'[w] \in ReadGrants
      PROVE  /\ frozen[w].opened \in Contents
             /\ NoNewer(frozen[w].opened, Content')
             /\ marker # None => NoNewer(Recorded(marker), frozen[w].opened)
             /\ \A g \in Active' \ frozen[w].grants : NoNewer(frozen[w].opened, vetted'[g])
    <2>1. /\ frozen[w].opened \in Contents /\ NoNewer(frozen[w].opened, Content)
          /\ marker # None => NoNewer(Recorded(marker), frozen[w].opened)
          /\ \A g \in Active \ frozen[w].grants : NoNewer(frozen[w].opened, vetted[g])
        BY <1>1, <1>3 DEF FreezeOrder
    <2>2. NoNewer(frozen[w].opened, Content')
        BY <1>2, <2>1, NoNewerTrans
    <2>3. QED
        BY <2>1, <2>2 DEF SameGrants
<1>4. ASSUME pc'[w] \in ReadPeers
      PROVE  /\ frozen[w].peers \in Stamps
             /\ \A p \in Peers : /\ frozen[w].opened.peers[p] <= frozen[w].peers[p]
                                 /\ frozen[w].peers[p] <= peerRec'[p]
    <2>1. /\ frozen[w].peers \in Stamps /\ frozen[w].opened \in Contents
          /\ \A p \in Peers : /\ frozen[w].opened.peers[p] <= frozen[w].peers[p]
                              /\ frozen[w].peers[p] <= peerRec[p]
        BY <1>1, <1>4 DEF FreezeOrder, ReadGrants
    <2>2. \A p \in Peers : peerRec[p] <= peerRec'[p] /\ peerRec[p] \in Nat /\ peerRec'[p] \in Nat
        BY DEF NoNewer, Content, TInv, TypeOK
    <2>3. QED
        BY <2>1, <2>2 DEF Stamps
<1>5. ASSUME pc'[w] \in ReadZone
      PROVE  frozen[w].opened.zone <= frozen[w].zone /\ frozen[w].zone <= zone'
    <2>1. frozen[w].opened.zone <= frozen[w].zone /\ frozen[w].zone <= zone
        BY <1>1, <1>5 DEF FreezeOrder
    <2>2. zone <= zone' /\ zone \in Nat /\ zone' \in Nat /\ frozen[w].zone \in Nat
        BY SnapshotOf DEF NoNewer, Content, TInv, TypeOK, SnapshotRecords
    <2>3. QED
        BY <2>1, <2>2
<1>6. ASSUME pc'[w] \in ReadAll
      PROVE  /\ NoNewer(Recorded(frozen[w].fp), Content')
             /\ frozen[w].clean => frozen[w].opened = Recorded(frozen[w].fp)
    <2>1. /\ NoNewer(Recorded(frozen[w].fp), Content)
          /\ frozen[w].clean => frozen[w].opened = Recorded(frozen[w].fp)
        BY <1>1, <1>6 DEF FreezeOrder
    <2>2. Recorded(frozen[w].fp) \in Contents
        BY <1>6, ReadTypes
    <2>3. QED
        BY <1>2, <2>1, <2>2, NoNewerTrans
<1>7. ASSUME pc'[w] = "stamp"
      PROVE  \A g \in frozen[w].grants : vetted'[g] = Read(w)
    BY <1>1, <1>7 DEF FreezeOrder
<1>8. QED
    BY <1>3, <1>4, <1>5, <1>6, <1>7 DEF FreezeOrder, Read

(* A step that leaves the marker alone.                                    *)
LEMMA VettedKept ==
    ASSUME TInv, StampsInv, VettedInv, TInv', StampsInv',
           NoNewer(Content, Content'), SameGrants, UNCHANGED <<marker, basis>>
    PROVE  VettedInv'
<1>1. Content \in Contents /\ Content' \in Contents
    BY CurrentRecorded, NextContent
<1>2. marker # None => Recorded(marker) \in Contents
    BY RecordedType DEF TInv, TypeOK, Stamps, Counters
<1>3. marker # None => NoNewer(Recorded(marker), Content')
    BY <1>1, <1>2, NoNewerTrans DEF VettedInv
<1>4. ASSUME NEW g \in Active'
      PROVE  /\ vetted'[g] \in Contents
             /\ NoNewer(vetted'[g], Content')
             /\ marker # None /\ basis.clean => NoNewer(Recorded(marker), vetted'[g])
    <2>1. CASE g \in Active /\ vetted'[g] = vetted[g]
        BY <1>1, <2>1, NoNewerTrans DEF VettedInv
    <2>2. CASE vetted'[g] = Content
        BY <1>1, <2>2 DEF VettedInv
    <2>3. QED
        BY <2>1, <2>2 DEF SameGrants
<1>5. QED
    BY <1>3, <1>4 DEF VettedInv

(* Where a run stands when it commits: whatever it has examined, or was    *)
(* examined since its freeze, is no older than the records of its own      *)
(* fingerprint, if its freeze was clean, nor than those of the marker.     *)
LEMMA RunVets ==
    ASSUME TInv, StampsInv, FreezeInv, VettedInv, NEW w \in Workers, pc[w] \in ReadAll,
           NEW g \in Active, NEW seen,
           seen = IF g \in frozen[w].grants THEN Read(w) ELSE vetted[g]
    PROVE  /\ seen \in Contents
           /\ NoNewer(seen, Content)
           /\ marker # None /\ basis.clean => NoNewer(Recorded(marker), seen)
           /\ frozen[w].clean => NoNewer(Recorded(frozen[w].fp), seen)
<1>1. FreezeOrder(w) /\ pc[w] \in ReadZone /\ pc[w] \in ReadPeers /\ pc[w] \in ReadGrants
    BY DEF FreezeInv, ReadZone, ReadPeers, ReadGrants
<1>2. frozen[w].opened \in Contents /\ Read(w) \in Contents /\ Content \in Contents
    BY <1>1, ReadTypes, CurrentRecorded DEF FreezeOrder
<1>3. NoNewer(frozen[w].opened, Read(w)) /\ NoNewer(Read(w), Content)
    BY <1>1 DEF FreezeOrder, Read, NoNewer, Content
<1>4. marker # None => Recorded(marker) \in Contents /\ NoNewer(Recorded(marker), frozen[w].opened)
    BY <1>1, RecordedType DEF FreezeOrder, TInv, TypeOK, Stamps, Counters
<1>5. frozen[w].clean => frozen[w].opened = Recorded(frozen[w].fp)
    BY <1>1 DEF FreezeOrder
<1>6. CASE g \in frozen[w].grants
    BY <1>2, <1>3, <1>4, <1>5, <1>6, NoNewerTrans
<1>7. CASE g \notin frozen[w].grants
    BY <1>1, <1>5, <1>7 DEF FreezeOrder, VettedInv
<1>8. QED
    BY <1>6, <1>7

-----------------------------------------------------------------------------
(* A step after which no worker has frozen its grants.                     *)
LEMMA FreezeEnded ==
    ASSUME \A w \in Workers : pc'[w] \notin ReadGrants
    PROVE  FreezeInv'
BY DEF FreezeInv, FreezeOrder, ReadGrants, ReadPeers, ReadZone, ReadAll

(* The grants of a snapshot have been inserted.                            *)
LEMMA FrozenInserted ==
    ASSUME AdmissionInv, NEW w \in Workers, NEW g \in frozen[w].grants
    PROVE  grant[g] # "none"
BY DEF AdmissionInv

(* Steps outside the pipeline.                                             *)
LEMMA OutsideSteps ==
    ASSUME TInv, TInv', AdmissionInv, StampsInv, StampsInv', FreezeInv, VettedInv,
           NoNewer(Content, Content'),
           \/ \E p \in Peers : PublishDump(p)
           \/ \E i \in Writers :
                \/ CommitInjection(i) \/ InjectUncounted(i)
                \/ \E key \in {"zone", "url"} : BeginInjection(i, key)
           \/ \E r \in Requests :
                InsertGrant(r) \/ \E g \in Grants, applicable \in BOOLEAN : AdmitGrant(r, g, applicable)
    PROVE  FreezeInv' /\ VettedInv'
<1> DEFINE KeptPlaces == \A w \in Workers : pc'[w] = pc[w]
           KeptVetted == \A w \in Workers : \A g \in frozen[w].grants : vetted'[g] = vetted[g]
<1>1. ASSUME KeptPlaces, KeptVetted, SameGrants, UNCHANGED <<frozen, marker, basis>>
      PROVE  FreezeInv' /\ VettedInv'
    BY <1>1, FreezeKept, VettedKept
<1>2. ASSUME NEW p \in Peers, PublishDump(p)
      PROVE  FreezeInv' /\ VettedInv'
    BY <1>1, <1>2 DEF PublishDump, tables, locals, history, examined, SameGrants, Active
<1>3. ASSUME NEW i \in Writers,
             \/ CommitInjection(i) \/ InjectUncounted(i)
             \/ \E key \in {"zone", "url"} : BeginInjection(i, key)
      PROVE  FreezeInv' /\ VettedInv'
    <2>1. KeptPlaces
        BY <1>3, ActorsDiffer DEF CommitInjection, InjectUncounted, BeginInjection, Goto, TInv, TypeOK
    <2>2. UNCHANGED <<grant, marker, frozen, vetted, basis>>
        BY <1>3 DEF CommitInjection, InjectUncounted, BeginInjection, tables, locals, history, examined
    <2>3. QED
        BY <1>1, <2>1, <2>2 DEF SameGrants, Active
<1>4. ASSUME NEW r \in Requests, InsertGrant(r)
      PROVE  FreezeInv' /\ VettedInv'
    <2>1. KeptPlaces
        BY <1>4, ActorsDiffer DEF InsertGrant, Goto, TInv, TypeOK
    <2>2. SameGrants
        BY <1>4 DEF InsertGrant, history, examined, SameGrants, Active, AdmissionInv, TInv, TypeOK
    <2>3. UNCHANGED <<frozen, marker, basis, vetted>>
        BY <1>4 DEF InsertGrant, history, examined
    <2>4. QED
        BY <1>1, <2>1, <2>2, <2>3
<1>5. ASSUME NEW r \in Requests, NEW g \in Grants, NEW applicable \in BOOLEAN,
             AdmitGrant(r, g, applicable)
      PROVE  FreezeInv' /\ VettedInv'
    <2>1. KeptPlaces
        BY <1>5, ActorsDiffer DEF AdmitGrant, Goto, TInv, TypeOK
    <2>2. \A h \in Grants : grant[h] # "none" => vetted'[h] = vetted[h]
        BY <1>5 DEF AdmitGrant, TInv, HistoryInv
    <2>3. UNCHANGED <<frozen, marker, basis, grant>>
        BY <1>5 DEF AdmitGrant, tables
    <2>4. SameGrants
        BY <2>2, <2>3 DEF SameGrants, Active
    <2>5. KeptVetted
        BY <2>2, FrozenInserted, SnapshotOf DEF SnapshotRecords
    <2>6. QED
        BY <1>1, <2>1, <2>3, <2>4, <2>5
<1>6. QED
    BY <1>2, <1>3, <1>4, <1>5

(* Steps of the pipeline before its critical section.                      *)
LEMMA SyncSteps ==
    ASSUME TInv, TInv', Orderly, StampsInv, StampsInv', FreezeInv, VettedInv,
           NoNewer(Content, Content'), NEW w \in Workers,
           \/ StartRun(w) \/ SyncDatabases(w) \/ ApplyPeerDump(w) \/ FailRun(w)
           \/ \E p \in Peers : FetchPeer(w, p)
    PROVE  FreezeInv' /\ VettedInv'
<1>1. pc'[w] \notin ReadGrants
    BY DEF StartRun, SyncDatabases, SyncFederal, BeginSync, CommitSync, EndSync, ApplyPeerDump,
           FailRun, FetchPeer, Goto, TInv, TypeOK, Actors, ReadGrants, ReadPeers, ReadZone, ReadAll
<1>2. FreezeInv'
    BY <1>1, FreezeEnded DEF Orderly
<1>3. UNCHANGED <<grant, marker, vetted, basis>>
    BY DEF StartRun, SyncDatabases, SyncFederal, BeginSync, CommitSync, EndSync, ApplyPeerDump,
           FailRun, FetchPeer, tables, history, examined
<1>4. SameGrants
    BY <1>3 DEF SameGrants, Active
<1>5. QED
    BY <1>2, <1>3, <1>4, VettedKept

(* The reads of the freeze.                                                *)
LEMMA FreezeSteps ==
    ASSUME TInv, TInv', Orderly, StampsInv, StampsInv', FreezeInv, VettedInv,
           NEW w \in Workers,
           FreezeGrants(w) \/ FreezePeers(w) \/ FreezeProtections(w) \/ FreezeGeneration(w)
    PROVE  FreezeInv' /\ VettedInv'
<1> USE DEF ReadGrants, ReadPeers, ReadZone, ReadAll
<1>1. UNCHANGED <<tables, history>>
    BY DEF FreezeGrants, FreezePeers, FreezeProtections, FreezeGeneration
<1>2. UNCHANGED <<Content, Active, grant, marker, vetted, basis, peerRec, peerGen, zone, meta>>
    BY <1>1 DEF tables, history, examined, Content, Active
<1>3. Content \in Contents /\ NoNewer(Content, Content)
    BY CurrentRecorded, NoNewerRefl
<1>4. VettedInv'
    BY <1>2 DEF VettedInv
<1>5. frozen \in [Workers -> SnapshotRecords] /\ pc \in [Actors -> PcLabels] /\ w \in Actors
    BY DEF TInv, TypeOK, SnapshotsInv, Actors
<1>6. FreezeOrder(w)
    BY DEF FreezeInv
<1>7. ASSUME FreezeGrants(w) PROVE FreezeOrder(w)'
    <2>1. pc'[w] = "freeze_peers" /\ frozen'[w] = [frozen[w] EXCEPT !.grants = Active, !.opened = Content]
        BY <1>5, <1>7 DEF FreezeGrants, Goto
    <2>2. frozen'[w].opened = Content /\ frozen'[w].grants = Active
        BY <1>5, <2>1 DEF SnapshotRecords
    <2>3. marker # None => NoNewer(Recorded(marker), Content)
        BY DEF VettedInv
    <2>4. QED
        BY <1>2, <1>3, <2>1, <2>2, <2>3 DEF FreezeOrder
<1>8. ASSUME FreezePeers(w) PROVE FreezeOrder(w)'
    <2>1. /\ pc[w] = "freeze_peers" /\ pc'[w] = "freeze_zone"
          /\ frozen'[w] = [frozen[w] EXCEPT !.peers = peerRec, !.stamps = peerGen]
        BY <1>5, <1>8 DEF FreezePeers, Goto
    <2>2. /\ frozen'[w].opened = frozen[w].opened /\ frozen'[w].grants = frozen[w].grants
          /\ frozen'[w].peers = peerRec
        BY <1>5, <2>1 DEF SnapshotRecords
    <2>3. peerRec \in Stamps /\ \A p \in Peers : frozen[w].opened.peers[p] <= peerRec[p]
        BY <1>6, <2>1, TablesRead DEF FreezeOrder, NoNewer, Content
    <2>4. \A p \in Peers : peerRec[p] <= peerRec[p]
        BY <2>3 DEF Stamps
    <2>5. QED
        BY <1>2, <1>6, <2>1, <2>2, <2>3, <2>4 DEF FreezeOrder
<1>9. ASSUME FreezeProtections(w) PROVE FreezeOrder(w)'
    <2>1. /\ pc[w] = "freeze_zone" /\ pc'[w] = "freeze_generation"
          /\ frozen'[w] = [frozen[w] EXCEPT !.zone = zone, !.feed = feed, !.counters = meta]
        BY <1>5, <1>9 DEF FreezeProtections, Goto
    <2>2. /\ frozen'[w].opened = frozen[w].opened /\ frozen'[w].grants = frozen[w].grants
          /\ frozen'[w].peers = frozen[w].peers /\ frozen'[w].zone = zone
        BY <1>5, <2>1 DEF SnapshotRecords
    <2>3. frozen[w].opened.zone <= zone /\ zone <= zone
        BY <1>6, <2>1, TablesRead DEF FreezeOrder, NoNewer, Content
    <2>4. QED
        BY <1>2, <1>6, <2>1, <2>2, <2>3 DEF FreezeOrder
<1>10. ASSUME FreezeGeneration(w) PROVE FreezeOrder(w)'
    <2> DEFINE still == (frozen[w].opened = Content)
    <2>1. /\ pc[w] = "freeze_generation" /\ pc'[w] = "enter"
          /\ frozen'[w] = [frozen[w] EXCEPT !.fp = Fingerprint, !.clean = still]
        BY <1>5, <1>10 DEF FreezeGeneration, Goto
    <2>2. /\ frozen'[w].opened = frozen[w].opened /\ frozen'[w].grants = frozen[w].grants
          /\ frozen'[w].peers = frozen[w].peers /\ frozen'[w].zone = frozen[w].zone
          /\ frozen'[w].fp = Fingerprint /\ frozen'[w].clean = still
        BY <1>5, <2>1 DEF SnapshotRecords
    <2>3. Recorded(frozen'[w].fp) = Content
        BY <2>2, CurrentRecorded
    <2>4. /\ NoNewer(Recorded(frozen'[w].fp), Content')
          /\ frozen'[w].clean => frozen'[w].opened = Recorded(frozen'[w].fp)
        BY <1>2, <1>3, <2>2, <2>3
    <2>5. QED
        BY <1>2, <1>6, <2>1, <2>2, <2>4 DEF FreezeOrder, Recorded
<1>11. \A v \in Workers : FreezeOrder(v)'
    BY <1>7, <1>8, <1>9, <1>10 DEF Orderly
<1>12. QED
    BY <1>4, <1>11 DEF FreezeInv

(* The critical section.                                                   *)
Seen(w, g) == IF g \in frozen[w].grants THEN Read(w) ELSE vetted[g]

(* The drift check and the commits of the critical section (the end of     *)
(* execute_cpas_pipeline) change no record, and a stamp is that of the     *)
(* snapshot.                                                               *)
LEMMA CriticalSteps ==
    ASSUME TInv, TInv', Orderly, StampsInv, StampsInv', FreezeInv, VettedInv,
           NEW w \in Workers,
           EnterCritical(w) \/ CommitRun(w) \/ CommitScheduledSuccess(w) \/ CommitStamp(w)
    PROVE  FreezeInv' /\ VettedInv'
<1>1. UNCHANGED <<peerRec, zone, Content>>
    BY DEF EnterCritical, CommitRun, CommitScheduledSuccess, CommitStamp, baseline, Content
<1>2. Content \in Contents /\ NoNewer(Content, Content')
    BY <1>1, CurrentRecorded, NoNewerRefl
<1>3. /\ frozen[w] \in SnapshotRecords /\ pc \in [Actors -> PcLabels] /\ w \in Actors
      /\ grant \in [Grants -> {"none", "active", "terminated"}]
    BY SnapshotOf DEF TInv, TypeOK, Actors
<1>4. FreezeOrder(w)
    BY DEF FreezeInv
<1>5. ASSUME pc[w] \in ReadAll, NEW g \in Active
      PROVE  /\ Seen(w, g) \in Contents
             /\ NoNewer(Seen(w, g), Content)
             /\ marker # None /\ basis.clean => NoNewer(Recorded(marker), Seen(w, g))
             /\ frozen[w].clean => NoNewer(Recorded(frozen[w].fp), Seen(w, g))
    BY <1>5, RunVets DEF Seen
<1>6. ASSUME NEW doomed, Decide(w, doomed)
      PROVE  /\ Active' \subseteq Active
             /\ \A g \in Grants : vetted'[g] = Seen(w, g)
    BY <1>3, <1>6 DEF Decide, Active, Seen, Read
<1>7. ASSUME pc'[w] = "idle" PROVE FreezeInv'
    BY <1>7, FreezeEnded DEF Orderly, ReadGrants, ReadPeers, ReadZone, ReadAll
<1>8. CASE EnterCritical(w)
    <2>1. UNCHANGED <<grant, marker, vetted, basis>>
        BY <1>8 DEF EnterCritical, baseline, history, examined
    <2>2. SameGrants
        BY <2>1 DEF SameGrants, Active
    <2>3. VettedInv'
        BY <1>2, <2>1, <2>2, VettedKept
    <2>4. CASE pc'[w] = "critical" /\ UNCHANGED frozen
        <3>1. pc[w] = "enter"
            BY <1>8 DEF EnterCritical
        <3>2. \A v \in Workers : pc[v] = "enter" /\ pc'[v] = "critical"
            BY <2>4, <3>1 DEF Orderly
        <3>3. \A v \in Workers :
                 /\ pc'[v] \in ReadGrants => pc[v] \in ReadGrants
                 /\ pc'[v] \in ReadPeers => pc[v] \in ReadPeers
                 /\ pc'[v] \in ReadZone => pc[v] \in ReadZone
                 /\ pc'[v] \in ReadAll => pc[v] \in ReadAll
                 /\ pc'[v] = "stamp" => pc[v] = "stamp"
            BY <3>2 DEF ReadGrants, ReadPeers, ReadZone, ReadAll
        <3>4. FreezeInv'
            BY <1>2, <2>1, <2>2, <2>4, <3>3, FreezeKept
        <3>5. QED
            BY <2>3, <3>4
    <2>5. CASE pc'[w] = "idle"
        BY <1>7, <2>3, <2>5
    <2>6. QED
        BY <1>3, <1>8, <2>3, <2>4, <2>5 DEF EnterCritical, Goto
<1>9. CASE CommitRun(w)
    <2>1. pc[w] \in ReadAll /\ pc'[w] = "idle"
        BY <1>3, <1>9 DEF CommitRun, Goto, ReadAll
    <2>2. Active' \subseteq Active /\ \A g \in Grants : vetted'[g] = Seen(w, g)
        BY <1>6, <1>9 DEF CommitRun
    <2>3. marker' = frozen[w].fp /\ basis'.clean = frozen[w].clean
        BY <1>9 DEF CommitRun, StampGeneration
    <2>4. NoNewer(Recorded(frozen[w].fp), Content)
        BY <1>4, <2>1 DEF FreezeOrder
    <2>5. VettedInv'
        BY <1>1, <1>5, <2>1, <2>2, <2>3, <2>4 DEF VettedInv, Recorded, Active
    <2>6. QED
        BY <1>7, <2>1, <2>5
<1>10. CASE CommitScheduledSuccess(w)
    <2>1. pc[w] = "critical" /\ pc'[w] = "stamp" /\ UNCHANGED <<frozen, marker, basis>>
        BY <1>3, <1>10 DEF CommitScheduledSuccess, Goto, locals
    <2>2. Active' \subseteq Active /\ \A g \in Grants : vetted'[g] = Seen(w, g)
        BY <1>6, <1>10 DEF CommitScheduledSuccess
    <2>3. VettedInv'
        BY <1>1, <1>5, <2>1, <2>2 DEF VettedInv, ReadAll, Recorded, Active
    <2>4. FreezeOrder(w)'
        BY <1>1, <1>3, <1>4, <2>1, <2>2
        DEF FreezeOrder, ReadGrants, ReadPeers, ReadZone, ReadAll, Seen, Read, Recorded, NoNewer,
            Content, Active, SnapshotRecords
    <2>5. QED
        BY <2>3, <2>4 DEF FreezeInv, Orderly
<1>11. CASE CommitStamp(w)
    <2>1. pc[w] \in ReadAll /\ pc[w] = "stamp" /\ pc'[w] = "idle"
        BY <1>3, <1>11 DEF CommitStamp, Goto, ReadAll
    <2>2. /\ UNCHANGED <<grant, vetted>>
          /\ marker' = frozen[w].fp /\ basis'.clean = frozen[w].clean
        BY <1>11 DEF CommitStamp, StampGeneration, examined
    <2>3. NoNewer(Recorded(frozen[w].fp), Content) /\ \A g \in frozen[w].grants : vetted[g] = Read(w)
        BY <1>4, <2>1 DEF FreezeOrder
    <2>4. \A g \in Active : vetted[g] = Seen(w, g)
        BY <2>3 DEF Seen
    <2>5. VettedInv'
        BY <1>1, <1>5, <2>1, <2>2, <2>3, <2>4 DEF VettedInv, Recorded, Active
    <2>6. QED
        BY <1>7, <2>1, <2>5
<1>12. QED
    BY <1>8, <1>9, <1>10, <1>11

-----------------------------------------------------------------------------
(* Before the first run nothing was read, so there is nothing to order.    *)
LEMMA OrderInit == Init => OrderInv
<1> SUFFICES ASSUME Init PROVE OrderInv
    OBVIOUS
<1>1. \A a \in Actors : pc[a] = "idle"
    BY DEF Init
<1>2. StampsInv
    BY <1>1, ActorsDiffer DEF Init, StampsInv, Keys
<1>3. FreezeInv
    BY <1>1, ActorsDiffer DEF FreezeInv, FreezeOrder, ReadGrants, ReadPeers, ReadZone, ReadAll
<1>4. marker = None /\ Active = {}
    BY DEF Init, Active
<1>5. QED
    BY <1>2, <1>3, <1>4 DEF OrderInv, VettedInv

(* Every statement of a run, an injection or an admission keeps what was   *)
(* read between the marker and what is stored.                             *)
LEMMA OrderStep ==
    ASSUME Orderly, IInv, IInv', OrderInv, [Next]_vars
    PROVE  OrderInv'
<1>1. TInv /\ TInv' /\ AdmissionInv /\ StampsInv /\ FreezeInv /\ VettedInv
    BY DEF IInv, OrderInv, Orderly
<1>2. StampsInv' /\ NoNewer(Content, Content')
    BY <1>1, StampsStep
<1>3. ASSUME \/ \E p \in Peers : PublishDump(p)
             \/ \E i \in Writers :
                  \/ CommitInjection(i) \/ InjectUncounted(i)
                  \/ \E key \in {"zone", "url"} : BeginInjection(i, key)
             \/ \E r \in Requests :
                  InsertGrant(r) \/ \E g \in Grants, applicable \in BOOLEAN : AdmitGrant(r, g, applicable)
      PROVE  FreezeInv' /\ VettedInv'
    BY <1>1, <1>2, <1>3, OutsideSteps
<1>4. ASSUME NEW w \in Workers,
             \/ StartRun(w) \/ SyncDatabases(w) \/ ApplyPeerDump(w) \/ FailRun(w)
             \/ \E p \in Peers : FetchPeer(w, p)
      PROVE  FreezeInv' /\ VettedInv'
    BY <1>1, <1>2, <1>4, SyncSteps
<1>5. ASSUME NEW w \in Workers,
             FreezeGrants(w) \/ FreezePeers(w) \/ FreezeProtections(w) \/ FreezeGeneration(w)
      PROVE  FreezeInv' /\ VettedInv'
    BY <1>1, <1>2, <1>5, FreezeSteps
<1>6. ASSUME NEW w \in Workers,
             EnterCritical(w) \/ CommitRun(w) \/ CommitScheduledSuccess(w) \/ CommitStamp(w)
      PROVE  FreezeInv' /\ VettedInv'
    BY <1>1, <1>2, <1>6, CriticalSteps
<1>7. ASSUME UNCHANGED vars
      PROVE  FreezeInv' /\ VettedInv'
    <2>1. UNCHANGED <<pc, frozen, vetted, marker, basis, grant, peerRec, zone>>
        BY <1>7 DEF vars, tables, locals, history, examined
    <2>2. UNCHANGED <<Active, Content>>
        BY <2>1 DEF Active, Content
    <2>3. \A w \in Workers : FreezeOrder(w) => FreezeOrder(w)'
        BY <2>1, <2>2 DEF FreezeOrder, Read, Recorded
    <2>4. VettedInv'
        BY <1>1, <2>1, <2>2 DEF VettedInv, Recorded
    <2>5. QED
        BY <1>1, <2>3, <2>4 DEF FreezeInv
<1>8. FreezeInv' /\ VettedInv'
    <2>1. ASSUME NEW w \in Workers, StartRun(w) \/ Pipeline(w) \/ FailRun(w)
          PROVE  FreezeInv' /\ VettedInv'
        BY <1>4, <1>5, <1>6, <2>1 DEF Pipeline
    <2>2. CASE Next
        BY <1>3, <2>1, <2>2 DEF Next
    <2>3. QED
        BY <1>7, <2>2
<1>9. QED
    BY <1>2, <1>8 DEF OrderInv

(* In an orderly environment the order of the reads holds in every         *)
(* reachable state of the pipeline, with or without a schedule.            *)
THEOREM OrderInvariance == Orderly => (Spec => []OrderInv)
<1> SUFFICES ASSUME Orderly PROVE Spec => []OrderInv
    OBVIOUS
<1>1. Init => OrderInv
    BY OrderInit
<1>2. IInv /\ IInv' /\ OrderInv /\ [Next]_vars => OrderInv'
    BY OrderStep
<1>3. QED
    BY <1>1, <1>2, Invariance, PTL DEF Spec

(* While admission is open on a marker whose freeze saw one generation,    *)
(* every active grant has been examined against the records now stored.    *)
(* Admission compares fingerprints and never records: equal fingerprints   *)
(* mean equal records, and nothing lies between the records of the marker  *)
(* and those stored.                                                       *)
THEOREM OpenAdmissionVetted == Orderly => (Spec => []OpenAdmissionIsVetted)
<1> SUFFICES ASSUME Orderly PROVE Spec => []OpenAdmissionIsVetted
    OBVIOUS
<1>1. ASSUME TInv, OrderInv PROVE OpenAdmissionIsVetted
    <2> SUFFICES ASSUME Coherent, basis.clean, NEW g \in Active
                 PROVE  vetted[g] = Content
        BY DEF OpenAdmissionIsVetted
    <2>1. Recorded(Fingerprint) = Content /\ Content \in Contents
        BY <1>1, CurrentRecorded DEF OrderInv
    <2>2. marker = Fingerprint /\ marker # None
        BY <1>1, NoneAssumption, CurrentRecorded DEF Coherent, OrderInv, Stamps, Counters, Keys
    <2>3. vetted[g] \in Contents /\ NoNewer(vetted[g], Content) /\ NoNewer(Content, vetted[g])
        BY <1>1, <2>1, <2>2 DEF OrderInv, VettedInv
    <2>4. QED
        BY <2>1, <2>3, NoNewerAntisym
<1>2. IInv /\ OrderInv => OpenAdmissionIsVetted
    BY <1>1 DEF IInv
<1>3. QED
    BY <1>2, Invariance, OrderInvariance, PTL

-----------------------------------------------------------------------------
(* What a database synchronisation replaced is examined before admission   *)
(* opens: one execution at a time, no other writer outside the lock.       *)

(* A worker that is nowhere in a freeze or the critical section.           *)
LEMMA FeedEnded ==
    ASSUME FeedInv, SyncsAlone, NEW w \in Workers, pc'[w] \notin ReadGrants,
           UNCHANGED <<grant, examined>>, reeval' = TRUE \/ UNCHANGED <<feed, reeval>>
    PROVE  FeedInv'
<1>1. \A v \in Workers : pc'[v] \notin ReadGrants /\ pc'[v] \notin ReadZone /\ pc'[v] # "stamp"
    BY DEF SyncsAlone, ReadGrants, ReadPeers, ReadZone, ReadAll
<1>2. ~reeval' => \A g \in Active' \ overtaken' : Examined(g)'
    BY DEF FeedInv, Active, Examined, examined
<1>3. QED
    BY <1>1, <1>2 DEF FeedInv

(* A step that moves no worker, no feed and no snapshot, and after which   *)
(* every active grant that was not overtaken either was such before or is  *)
(* examined.                                                               *)
LEMMA FeedKept ==
    ASSUME FeedInv, UNCHANGED <<feed, frozen, reeval>>,
           \A w \in Workers : pc'[w] = pc[w],
           \A g \in Active' \ overtaken' : g \in Active \ overtaken \/ Examined(g)',
           \A g \in Active : screened'[g] = screened[g],
           \A w \in Workers : \A g \in frozen[w].grants : screened'[g] = screened[g]
    PROVE  FeedInv'
<1> USE DEF FeedInv, Examined
<1>1. ~reeval' => \A g \in Active' \ overtaken' : Examined(g)'
    OBVIOUS
<1>2. ASSUME NEW w \in Workers
      PROVE  /\ pc'[w] \in ReadGrants =>
                   \A g \in Active' \ (frozen'[w].grants \cup overtaken') : Examined(g)'
             /\ pc'[w] \in ReadZone => frozen'[w].feed = feed'
             /\ pc'[w] = "stamp" => \A g \in frozen'[w].grants : Examined(g)'
    OBVIOUS
<1>3. QED
    BY <1>1, <1>2

(* Steps outside the pipeline.                                             *)
LEMMA FeedOutside ==
    ASSUME IInv, SyncsAlone, FeedInv,
           \/ \E p \in Peers : PublishDump(p)
           \/ \E i \in Writers :
                \/ CommitInjection(i) \/ InjectUncounted(i)
                \/ \E key \in {"zone", "url"} : BeginInjection(i, key)
           \/ \E r \in Requests :
                InsertGrant(r) \/ \E g \in Grants, applicable \in BOOLEAN : AdmitGrant(r, g, applicable)
    PROVE  FeedInv'
<1>1. \A w \in Workers : pc'[w] = pc[w]
    BY ActorsDiffer DEF IInv, TInv, TypeOK, PublishDump, CommitInjection, InjectUncounted,
       BeginInjection, InsertGrant, AdmitGrant, Goto
<1>2. ASSUME NEW p \in Peers, PublishDump(p)
      PROVE  FeedInv'
    BY <1>1, <1>2, FeedKept DEF PublishDump, tables, locals, history, examined, Active
<1>3. ASSUME NEW i \in Writers,
             \/ CommitInjection(i) \/ InjectUncounted(i)
             \/ \E key \in {"zone", "url"} : BeginInjection(i, key)
      PROVE  FeedInv'
    <2>1. UNCHANGED <<feed, frozen, reeval, grant, examined>>
        BY <1>3 DEF CommitInjection, InjectUncounted, BeginInjection, SyncsAlone, tables, locals,
           history
    <2>2. QED
        BY <1>1, <2>1, FeedKept DEF examined, Active
<1>4. ASSUME NEW r \in Requests, InsertGrant(r)
      PROVE  FeedInv'
    <2>1. UNCHANGED <<feed, frozen, reeval, screened>>
        BY <1>4 DEF InsertGrant, baseline
    <2>2. ASSUME NEW g \in Active' \ overtaken', g \notin Active \ overtaken
          PROVE  Examined(g)'
        <3>1. overtaken \subseteq overtaken' /\ g \notin Active
            BY <1>4, <2>2 DEF InsertGrant
        <3>2. g = target[r]
            BY <1>4, <2>2, <3>1 DEF InsertGrant, Active, IInv, TInv, TypeOK
        <3>3. QED
            BY <1>4, <2>1, <2>2, <3>2 DEF InsertGrant, Examined
    <2>3. QED
        BY <1>1, <2>1, <2>2, FeedKept
<1>5. ASSUME NEW r \in Requests, NEW g \in Grants, NEW applicable \in BOOLEAN,
             AdmitGrant(r, g, applicable)
      PROVE  FeedInv'
    <2>1. UNCHANGED <<feed, frozen, reeval, grant, overtaken>>
        BY <1>5 DEF AdmitGrant, tables
    <2>2. \A h \in Grants : grant[h] # "none" => screened'[h] = screened[h]
        BY <1>5 DEF AdmitGrant, IInv, TInv, HistoryInv
    <2>3. \A w \in Workers : \A h \in frozen[w].grants : h \in Grants /\ grant[h] # "none"
        BY FrozenInserted, SnapshotOf DEF SnapshotRecords, IInv
    <2>4. \A h \in Active : screened'[h] = screened[h]
        BY <2>2 DEF Active
    <2>5. Active' = Active
        BY <2>1 DEF Active
    <2>6. QED
        BY <1>1, <2>1, <2>2, <2>3, <2>4, <2>5, FeedKept
<1>6. QED
    BY <1>2, <1>3, <1>4, <1>5

(* The pipeline before its critical section.                               *)
LEMMA FeedPipeline ==
    ASSUME IInv, SyncsAlone, FeedInv, NEW w \in Workers,
           \/ StartRun(w) \/ SyncDatabases(w) \/ ApplyPeerDump(w) \/ FailRun(w)
           \/ \E p \in Peers : FetchPeer(w, p)
    PROVE  FeedInv'
<1>1. pc'[w] \notin ReadGrants
    BY DEF StartRun, SyncDatabases, SyncFederal, BeginSync, CommitSync, EndSync, ApplyPeerDump,
           FailRun, FetchPeer, Goto, IInv, TInv, TypeOK, Actors, ReadGrants, ReadPeers, ReadZone, ReadAll
<1>2. UNCHANGED <<grant, examined>>
    BY DEF StartRun, SyncDatabases, SyncFederal, BeginSync, CommitSync, EndSync, ApplyPeerDump,
           FailRun, FetchPeer, tables, history
<1>3. reeval' = TRUE \/ UNCHANGED <<feed, reeval>>
    BY DEF StartRun, SyncDatabases, SyncFederal, BeginSync, CommitSync, EndSync, ApplyPeerDump,
           FailRun, FetchPeer, tables
<1>4. QED
    BY <1>1, <1>2, <1>3, FeedEnded

(* The reads of the freeze.                                                *)
LEMMA FeedFreeze ==
    ASSUME IInv, SyncsAlone, FeedInv, NEW w \in Workers,
           FreezeGrants(w) \/ FreezePeers(w) \/ FreezeProtections(w) \/ FreezeGeneration(w)
    PROVE  FeedInv'
<1> USE DEF ReadGrants, ReadPeers, ReadZone, ReadAll
<1>1. UNCHANGED <<feed, reeval, grant, screened, overtaken, Active>>
    BY DEF FreezeGrants, FreezePeers, FreezeProtections, FreezeGeneration, tables, history,
           examined, Active
<1>2. frozen \in [Workers -> SnapshotRecords] /\ pc \in [Actors -> PcLabels] /\ w \in Actors
    BY DEF IInv, TInv, TypeOK, SnapshotsInv, Actors
<1>3. ~reeval' => \A g \in Active' \ overtaken' : Examined(g)'
    BY <1>1 DEF FeedInv, Examined
<1>4. /\ pc'[w] \in ReadGrants =>
            \A g \in Active' \ (frozen'[w].grants \cup overtaken') : Examined(g)'
      /\ pc'[w] \in ReadZone => frozen'[w].feed = feed'
      /\ pc'[w] # "stamp"
    <2>1. CASE FreezeGrants(w)
        <3>1. pc'[w] = "freeze_peers" /\ frozen'[w].grants = Active
            BY <1>2, <2>1 DEF FreezeGrants, Goto, SnapshotRecords
        <3>2. QED
            BY <1>1, <3>1
    <2>2. CASE FreezePeers(w)
        <3>1. /\ pc[w] = "freeze_peers" /\ pc'[w] = "freeze_zone"
              /\ frozen'[w].grants = frozen[w].grants
            BY <1>2, <2>2 DEF FreezePeers, Goto, SnapshotRecords
        <3>2. QED
            BY <1>1, <3>1 DEF FeedInv, Examined
    <2>3. CASE FreezeProtections(w)
        <3>1. /\ pc[w] = "freeze_zone" /\ pc'[w] = "freeze_generation"
              /\ frozen'[w].grants = frozen[w].grants /\ frozen'[w].feed = feed
            BY <1>2, <2>3 DEF FreezeProtections, Goto, SnapshotRecords
        <3>2. QED
            BY <1>1, <3>1 DEF FeedInv, Examined
    <2>4. CASE FreezeGeneration(w)
        <3>1. /\ pc[w] = "freeze_generation" /\ pc'[w] = "enter"
              /\ frozen'[w].grants = frozen[w].grants /\ frozen'[w].feed = frozen[w].feed
            BY <1>2, <2>4 DEF FreezeGeneration, Goto, SnapshotRecords
        <3>2. QED
            BY <1>1, <3>1 DEF FeedInv, Examined
    <2>5. QED
        BY <2>1, <2>2, <2>3, <2>4
<1>5. QED
    BY <1>3, <1>4 DEF FeedInv, SyncsAlone

(* The critical section: the decisions examine the snapshot's grants, the  *)
(* stamp clears the mark.                                                  *)
LEMMA FeedCritical ==
    ASSUME IInv, SyncsAlone, FeedInv, NEW w \in Workers,
           EnterCritical(w) \/ CommitRun(w) \/ CommitScheduledSuccess(w) \/ CommitStamp(w)
    PROVE  FeedInv'
<1> USE DEF ReadGrants, ReadPeers, ReadZone, ReadAll
<1>1. /\ pc \in [Actors -> PcLabels] /\ w \in Actors /\ frozen[w] \in SnapshotRecords
      /\ screened \in [Grants -> Nat]
    BY SnapshotOf DEF IInv, TInv, TypeOK, HistoryInv, Actors
<1>2. ASSUME NEW doomed, Decide(w, doomed), pc[w] = "critical", UNCHANGED feed
      PROVE  /\ \A g \in frozen[w].grants : Examined(g)'
             /\ \A g \in Active' \ overtaken' : Examined(g)'
    <2>1. frozen[w].feed = feed /\ \A g \in Active \ (frozen[w].grants \cup overtaken) : Examined(g)
        BY <1>2 DEF FeedInv
    <2>2. Active' \subseteq Active
        BY <1>2 DEF Decide, Active
    <2>3. frozen[w].grants \subseteq Grants
        BY <1>1 DEF SnapshotRecords
    <2>4. \A g \in frozen[w].grants : Examined(g)'
        BY <1>2, <2>1, <2>3 DEF Decide, Examined
    <2>5. ASSUME NEW g \in Active' \ overtaken', g \notin frozen[w].grants
          PROVE  Examined(g)'
        <3>1. g \in Active \ (frozen[w].grants \cup overtaken)
            BY <1>2, <2>2, <2>5 DEF Decide
        <3>2. screened'[g] = screened[g]
            BY <1>2, <2>5, <3>1 DEF Decide, Active
        <3>3. QED
            BY <1>2, <2>1, <3>1, <3>2 DEF Examined
    <2>6. QED
        BY <2>4, <2>5
<1>3. ASSUME pc'[w] = "idle", \A g \in Active' \ overtaken' : Examined(g)'
      PROVE  FeedInv'
    BY <1>3 DEF FeedInv, SyncsAlone
<1>4. CASE EnterCritical(w)
    <2>1. UNCHANGED <<feed, grant, examined>>
        BY <1>4 DEF EnterCritical, baseline, history
    <2>2. CASE Goto(w, "idle") /\ reeval' = TRUE
        BY <1>1, <2>1, <2>2, FeedEnded DEF Goto
    <2>3. CASE Goto(w, "critical") /\ UNCHANGED <<reeval, frozen>>
        <3>1. pc[w] = "enter" /\ pc'[w] = "critical"
            BY <1>1, <1>4, <2>3 DEF EnterCritical, Goto
        <3>2. UNCHANGED <<Active, screened, overtaken>>
            BY <2>1 DEF examined, Active
        <3>3. QED
            BY <2>1, <2>3, <3>1, <3>2 DEF FeedInv, SyncsAlone, Examined
    <2>4. QED
        BY <1>4, <2>2, <2>3 DEF EnterCritical
<1>5. CASE CommitRun(w)
    <2>1. pc'[w] = "idle" /\ pc[w] = "critical" /\ UNCHANGED feed
        BY <1>1, <1>5 DEF CommitRun, Goto, baseline
    <2>2. \A g \in Active' \ overtaken' : Examined(g)'
        BY <1>2, <1>5, <2>1 DEF CommitRun
    <2>3. QED
        BY <1>3, <2>1, <2>2
<1>6. CASE CommitScheduledSuccess(w)
    <2>1. pc'[w] = "stamp" /\ pc[w] = "critical" /\ UNCHANGED <<feed, frozen>>
        BY <1>1, <1>6 DEF CommitScheduledSuccess, Goto, baseline, locals
    <2>2. /\ \A g \in frozen[w].grants : Examined(g)'
          /\ \A g \in Active' \ overtaken' : Examined(g)'
        BY <1>2, <1>6, <2>1 DEF CommitScheduledSuccess
    <2>3. frozen'[w].feed = feed'
        BY <2>1 DEF FeedInv
    <2>4. QED
        BY <2>1, <2>2, <2>3 DEF FeedInv, SyncsAlone
<1>7. CASE CommitStamp(w)
    <2>1. pc'[w] = "idle" /\ pc[w] = "stamp" /\ UNCHANGED <<feed, grant, examined>>
        BY <1>1, <1>7 DEF CommitStamp, Goto, baseline
    <2>2. \A g \in Active \ overtaken : Examined(g)
        BY <2>1 DEF FeedInv
    <2>3. \A g \in Active' \ overtaken' : Examined(g)'
        BY <2>1, <2>2 DEF Active, Examined, examined
    <2>4. QED
        BY <1>3, <2>1, <2>3
<1>8. QED
    BY <1>4, <1>5, <1>6, <1>7

(* The feed invariant is kept by every step.                               *)
LEMMA FeedStep ==
    ASSUME IInv, SyncsAlone, FeedInv, [Next]_vars
    PROVE  FeedInv'
<1>1. CASE UNCHANGED vars
    BY <1>1 DEF vars, tables, locals, history, examined, FeedInv, Examined, Active
<1>2. CASE Next
    BY <1>2, FeedOutside, FeedPipeline, FeedFreeze, FeedCritical DEF Next, Pipeline
<1>3. QED
    BY <1>1, <1>2

(* While admission is open every active grant, but those a synchronisation *)
(* overtook between their check and their insertion, has been examined     *)
(* against what sync_injected_database_urls stored, whatever databases are *)
(* injected, when executions do not overlap and no administrator writes    *)
(* protection records outside the lock.                                    *)
THEOREM SyncReexamined == SyncsAlone => (Spec => []SyncIsReexamined)
<1> SUFFICES ASSUME SyncsAlone PROVE Spec => []SyncIsReexamined
    OBVIOUS
<1>1. Init => FeedInv
    <2> SUFFICES ASSUME Init PROVE FeedInv
        OBVIOUS
    <2>1. Active = {} /\ \A w \in Workers : pc[w] = "idle"
        BY ActorsDiffer DEF Init, Active
    <2>2. QED
        BY <2>1 DEF FeedInv, ReadGrants, ReadPeers, ReadZone, ReadAll
<1>2. IInv /\ FeedInv /\ [Next]_vars => FeedInv'
    BY FeedStep
<1>3. FeedInv => SyncIsReexamined
    BY DEF FeedInv, SyncIsReexamined, Coherent, Examined
<1>4. QED
    BY <1>1, <1>2, <1>3, Invariance, PTL DEF Spec
=============================================================================

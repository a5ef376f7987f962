-------------------------------- MODULE Cpas --------------------------------
(***************************************************************************)
(* The CPAS pipeline (services/cpas_service.py) against everything it      *)
(* shares the database with: grant requests admitted on the generation     *)
(* marker (services/iap/admission.py), admin injections that replace the   *)
(* protection records (services/data_injection_service.py), and the peer   *)
(* Full Activity Dumps it fetches itself (services/fad_client_service.py). *)
(*                                                                         *)
(* RF data is abstracted to versions: the records of a peer and the        *)
(* protection records are numbers that a replacement changes.  What CPAS   *)
(* decides from them is any set of grants of its snapshot.  What matters   *)
(* here is which version each grant was examined against.  Protection      *)
(* records have two kinds of writers, and a version for each: 'zone' is    *)
(* moved under the IAP lock, with a counter of the fingerprint, 'feed' by  *)
(* those who take no such lock (database synchronisation, injections of    *)
(* exclusion zones, PAL records, ESC and DPA states).                      *)
(*                                                                         *)
(* Every statement reads what is committed (the READ COMMITTED default),   *)
(* so an action is one statement, or a transaction that nothing interleaves*)
(* with.  Uncommitted writes are seen by nobody and appear when committed. *)
(***************************************************************************)
EXTENDS Naturals, FiniteSets

CONSTANTS
    None,             \* no holder, no marker, nothing read yet
    Peers,            \* peer SASs, rows of peer_sas
    Grants,           \* identities of grant rows, each inserted at most once
    Workers,          \* executions of the pipeline that may overlap
    Requests,         \* grant requests in flight
    Writers,          \* admin injections in flight
    ScheduleEnabled,  \* the daily schedule is on, its window may be open
    SeparateProcess,  \* Celery worker beside the API: only the database excludes
    Databases,        \* types of the injected database URLs
    UncountedWrites,  \* administrators also write what no counter covers
    ReuseStamps,      \* peers may change a dump under the same generationDateTime
    MaxDumps,         \* bound: dumps each peer publishes
    MaxInjections,    \* bound: changes of protection records or injected URLs
    MaxRuns,          \* bound: pipeline executions
    MaxFailures       \* bound: executions that crash or raise

ASSUME BooleansAssumption ==
    {ScheduleEnabled, SeparateProcess, UncountedWrites, ReuseStamps} \subseteq BOOLEAN
ASSUME DatabasesAssumption == Databases \subseteq {"federal", "pal", "cpi"}
ASSUME BoundsAssumption == {MaxDumps, MaxInjections, MaxRuns, MaxFailures} \subseteq Nat
ASSUME ActorsAssumption ==
    /\ None \notin Workers \cup Requests \cup Writers
    /\ Workers \cap Requests = {}
    /\ Workers \cap Writers = {}
    /\ Requests \cap Writers = {}
ASSUME NoneAssumption ==
    None \notin [peers : [Peers -> Nat], inj : [{"zone", "url", "pal", "cpi"} -> Nat]]

VARIABLES
    remote,     \* what each peer publishes: generationDateTime and records
    peerGen,    \* peer_sas.last_fad_generation, 0 before the first dump
    peerRec,    \* the peer_fad_record rows of each peer
    zone,       \* protection records, as written under the IAP lock
    feed,       \* protection records, as written without it
    meta,       \* the injection generation counters row
    reeval,     \* the cpas_reevaluation_required row exists
    marker,     \* the IAP admission generation row, or None
    grant,      \* the grant rows: absent, active or terminated
    iap,        \* holder of the IAP admission serialization, or None
    pc,         \* where each worker, request and writer is
    todo,       \* peers a worker has still to synchronise
    fetched,    \* the dump a worker has downloaded and not applied
    frozen,     \* the snapshot of a worker
    loaded,     \* the counters an injection or a synchronisation has read
    target,     \* the grant a request is about to insert
    vetted,     \* history: peer and locked records each grant was examined against
    screened,   \* history: version of the feed each grant was examined against
    overtaken,  \* history: grants inserted on a feed that was no longer stored
    effects,    \* history: runs whose decisions, dump, marker are committed
    basis,      \* history: run and reads behind the marker
    spent       \* bounds used so far

baseline == <<peerGen, peerRec, zone, feed, meta>>
tables   == <<peerGen, peerRec, zone, feed, meta, reeval, marker, grant>>
locals   == <<todo, fetched, frozen, loaded, target>>
examined == <<vetted, screened, overtaken>>
history  == <<examined, effects, basis>>
vars == <<remote, tables, iap, pc, locals, history, spent>>

Keys   == {"zone", "url", "pal", "cpi"}
Actors == Workers \cup Requests \cup Writers

(* The records that are written under the IAP lock only.                   *)
Content == [peers |-> peerRec, zone |-> zone]

(* Mutants, here and below: what the operator after each would be if the   *)
(* code had the bug its name tells.  No behaviour uses them.               *)
FingerprintOfPeersOnly == [peers |-> peerGen, inj |-> [k \in Keys |-> 0]]

(* current_generation_fingerprint: stamps and counters, never the records. *)
Fingerprint == [peers |-> peerGen, inj |-> meta]

Active == {g \in Grants : grant[g] = "active"}

(* not admission_generation_indeterminate: the marker names the generation *)
(* now stored and nobody asked for a re-evaluation.                        *)
Coherent ==
    /\ ~reeval
    /\ marker = Fingerprint

Spend(what) == spent' = [spent EXCEPT ![what] = @ + 1]

BumpDropsOtherKeys(counters, key) == [k \in {key} |-> counters[key] + 1]

(* bump_injection_generation: the row is replaced by the counters read     *)
(* earlier, one of them incremented.                                       *)
Bump(counters, key) == [counters EXCEPT ![key] = @ + 1]

(* exclusive_iap_admission with the advisory transaction lock.             *)
TakeIap(a) == iap = None /\ iap' = a
LeaveIap   == iap' = None
Goto(a, label) == pc' = [pc EXCEPT ![a] = label]

(* A CpasSnapshot.  History fields: run, opened (the records stored when   *)
(* the grants were read), clean (they were still those at the last read),  *)
(* stamps, counters (the generations of the records read).                 *)
NotFrozen == [run |-> 0, grants |-> {}, peers |-> None, zone |-> 0, feed |-> 0, fp |-> None,
              opened |-> None, clean |-> FALSE, stamps |-> None, counters |-> None]

Init ==
    /\ remote = [p \in Peers |-> [gen |-> 1, rec |-> 1]]
    /\ peerGen = [p \in Peers |-> 0]
    /\ peerRec = [p \in Peers |-> 0]
    /\ zone = 0
    /\ feed = 0
    /\ meta = [k \in Keys |-> 0]
    /\ reeval = FALSE
    /\ marker = None
    /\ grant = [g \in Grants |-> "none"]
    /\ iap = None
    /\ pc = [a \in Actors |-> "idle"]
    /\ todo = [w \in Workers |-> {}]
    /\ fetched = [w \in Workers |-> None]
    /\ frozen = [w \in Workers |-> NotFrozen]
    /\ loaded = [a \in Workers \cup Writers |-> None]
    /\ target = [r \in Requests |-> None]
    /\ vetted = [g \in Grants |-> None]
    /\ screened = [g \in Grants |-> 0]
    /\ overtaken = {}
    /\ effects = [decided |-> {}, published |-> {}, stamped |-> {}]
    /\ basis = None
    /\ spent = [runs |-> 0, injections |-> 0, failures |-> 0]

-----------------------------------------------------------------------------
(* The outside world: a peer replaces its dump.  A well-behaved one gives  *)
(* every dump its own generationDateTime.                                  *)
PublishDump(p) ==
    /\ remote[p].rec < MaxDumps
    /\ \E gen \in {remote[p].gen + 1} \cup (IF ReuseStamps THEN {remote[p].gen} ELSE {}) :
          remote' = [remote EXCEPT ![p] = [gen |-> gen, rec |-> @.rec + 1]]
    /\ UNCHANGED <<tables, iap, pc, locals, history, spent>>

-----------------------------------------------------------------------------
(* execute_cpas_pipeline                                                   *)

StartRun(w) ==
    /\ pc[w] = "idle"
    /\ spent.runs < MaxRuns
    /\ Spend("runs")
    /\ frozen' = [frozen EXCEPT ![w] = [NotFrozen EXCEPT !.run = spent.runs + 1]]
    /\ Goto(w, "databases")
    /\ UNCHANGED <<remote, tables, iap, todo, fetched, loaded, target, history>>

SyncFederalUnmarked(w) ==
    /\ pc[w] = "databases"
    /\ "federal" \in Databases
    /\ spent.injections < MaxInjections
    /\ Spend("injections")
    /\ feed' = feed + 1
    /\ UNCHANGED <<remote, peerGen, peerRec, zone, meta, reeval, marker, grant, iap,
                   pc, locals, history>>

(* sync_injected_database_urls: one URL after the other, each committed on *)
(* its own and without the IAP lock; a URL whose download fails leaves     *)
(* nothing.  A federal database (EXCLUSION_ZONE, SCHEDULED_DPA, FSS, GWBL) *)
(* replaces protection records and marks re-evaluation; the generation it  *)
(* bumps is not in the fingerprint.                                        *)
SyncFederal(w) ==
    /\ pc[w] = "databases"
    /\ "federal" \in Databases
    /\ spent.injections < MaxInjections
    /\ Spend("injections")
    /\ feed' = feed + 1
    /\ reeval' = TRUE
    /\ UNCHANGED <<remote, peerGen, peerRec, zone, meta, marker, grant, iap, pc,
                   locals, history>>

(* The PAL and CPI databases move a counter too, read before the commit.   *)
BeginSync(w, key) ==
    /\ pc[w] = "databases"
    /\ key \in Databases \cap {"pal", "cpi"}
    /\ spent.injections < MaxInjections
    /\ Spend("injections")
    /\ loaded' = [loaded EXCEPT ![w] = meta]
    /\ Goto(w, key)
    /\ UNCHANGED <<remote, tables, iap, todo, fetched, frozen, target, history>>

CommitSync(w) ==
    /\ pc[w] \in {"pal", "cpi"}
    /\ meta' = Bump(loaded[w], pc[w])
    /\ feed' = IF pc[w] = "pal" THEN feed + 1 ELSE feed
    /\ reeval' = TRUE
    /\ Goto(w, "databases")
    /\ UNCHANGED <<remote, peerGen, peerRec, zone, marker, grant, iap, locals, history,
                   spent>>

EndSync(w) ==
    /\ pc[w] = "databases"
    /\ Goto(w, "peers")
    /\ todo' = [todo EXCEPT ![w] = Peers]
    /\ UNCHANGED <<remote, tables, iap, fetched, frozen, loaded, target, history, spent>>

SyncDatabases(w) ==
    \/ SyncFederal(w)
    \/ \E key \in {"pal", "cpi"} : BeginSync(w, key)
    \/ CommitSync(w)
    \/ EndSync(w)

(* run_peer_fad_sync loads the peer's row, with its stamp, and             *)
(* fetch_peer_generation downloads, outside every lock; it may fail and    *)
(* the peer keeps its previous records.                                    *)
FetchPeer(w, p) ==
    /\ pc[w] = "peers"
    /\ p \in todo[w]
    /\ \/ /\ fetched' = [fetched EXCEPT ![w] = [peer |-> p, was |-> peerGen[p],
                               gen |-> remote[p].gen, rec |-> remote[p].rec]]
          /\ Goto(w, "apply_peer")
          /\ UNCHANGED todo
       \/ /\ todo' = [todo EXCEPT ![w] = @ \ {p}]
          /\ UNCHANGED <<fetched, pc>>
    /\ UNCHANGED <<remote, tables, iap, frozen, loaded, target, history, spent>>

(* apply_peer_generation.  The locked peer row is the one loaded before    *)
(* the download: a stamp equal to what that held is no change of the       *)
(* object, and nothing is written.  A dump with that stamp and the stored  *)
(* records is skipped, which leaves both as they are, as this does.        *)
StorePeerDump(dump) ==
    /\ peerGen' = [peerGen EXCEPT ![dump.peer] = IF dump.was = dump.gen THEN @ ELSE dump.gen]
    /\ peerRec' = [peerRec EXCEPT ![dump.peer] = dump.rec]

ApplyPeerDumpUnlocked(w) ==
    /\ pc[w] = "apply_peer"
    /\ StorePeerDump(fetched[w])
    /\ todo' = [todo EXCEPT ![w] = @ \ {fetched[w].peer}]
    /\ fetched' = [fetched EXCEPT ![w] = None]
    /\ Goto(w, "peers")
    /\ UNCHANGED <<remote, zone, feed, meta, reeval, marker, grant, iap, frozen, loaded,
                   target, history, spent>>

(* sync_one_peer after the download: one transaction under the IAP lock.   *)
ApplyPeerDump(w) ==
    /\ pc[w] = "apply_peer"
    /\ iap = None
    /\ StorePeerDump(fetched[w])
    /\ todo' = [todo EXCEPT ![w] = @ \ {fetched[w].peer}]
    /\ fetched' = [fetched EXCEPT ![w] = None]
    /\ Goto(w, "peers")
    /\ UNCHANGED <<remote, zone, feed, meta, reeval, marker, grant, iap, frozen, loaded,
                   target, history, spent>>

(* freeze_cpas_snapshot: four reads of the live tables, in this order and  *)
(* without a lock; the generation fingerprint is the last.                 *)
FreezeGrants(w) ==
    /\ pc[w] = "peers"
    /\ todo[w] = {}
    /\ frozen' = [frozen EXCEPT ![w] = [@ EXCEPT !.grants = Active, !.opened = Content]]
    /\ Goto(w, "freeze_peers")
    /\ UNCHANGED <<remote, tables, iap, todo, fetched, loaded, target, history, spent>>

FreezePeers(w) ==
    /\ pc[w] = "freeze_peers"
    /\ frozen' = [frozen EXCEPT ![w] =
                    [@ EXCEPT !.peers = peerRec, !.stamps = peerGen]]
    /\ Goto(w, "freeze_zone")
    /\ UNCHANGED <<remote, tables, iap, todo, fetched, loaded, target, history, spent>>

FreezeProtections(w) ==
    /\ pc[w] = "freeze_zone"
    /\ frozen' = [frozen EXCEPT ![w] =
                    [@ EXCEPT !.zone = zone, !.feed = feed, !.counters = meta]]
    /\ Goto(w, "freeze_generation")
    /\ UNCHANGED <<remote, tables, iap, todo, fetched, loaded, target, history, spent>>

FreezeGeneration(w) ==
    /\ pc[w] = "freeze_generation"
    /\ frozen' = [frozen EXCEPT ![w] =
                    [@ EXCEPT !.fp = Fingerprint, !.clean = (frozen[w].opened = Content)]]
    /\ Goto(w, "enter")
    /\ UNCHANGED <<remote, tables, iap, todo, fetched, loaded, target, history, spent>>

(* The pipeline's local variables go out of scope.                         *)
Forget(w) ==
    /\ todo' = [todo EXCEPT ![w] = {}]
    /\ fetched' = [fetched EXCEPT ![w] = None]
    /\ frozen' = [frozen EXCEPT ![w] = NotFrozen]

(* The head of _run_pipeline_critical_section.  A generation that drifted  *)
(* since the freeze marks re-evaluation, commits and raises.               *)
EnterCritical(w) ==
    /\ pc[w] = "enter"
    /\ iap = None
    /\ \/ /\ Fingerprint = frozen[w].fp
          /\ iap' = w
          /\ Goto(w, "critical")
          /\ UNCHANGED <<reeval, todo, fetched, frozen>>
       \/ /\ Fingerprint # frozen[w].fp
          /\ reeval' = TRUE
          /\ Forget(w)
          /\ Goto(w, "idle")
          /\ UNCHANGED iap
    /\ UNCHANGED <<remote, baseline, marker, grant, loaded, target, history, spent>>

(* evaluate_cpas_protections on the snapshot and apply_cpas_decisions: any *)
(* of its grants is terminated, the others keep a reduced power or none;   *)
(* rows terminated meanwhile are skipped.                                  *)
Decide(w, doomed) ==
    /\ doomed \subseteq frozen[w].grants
    /\ grant' = [g \in Grants |-> IF g \in doomed /\ grant[g] = "active"
                                     THEN "terminated" ELSE grant[g]]
    /\ vetted' = [g \in Grants |->
                     IF g \in frozen[w].grants
                       THEN [peers |-> frozen[w].peers, zone |-> frozen[w].zone]
                       ELSE vetted[g]]
    /\ screened' = [g \in Grants |->
                     IF g \in frozen[w].grants THEN frozen[w].feed ELSE screened[g]]
    /\ overtaken' = overtaken \ frozen[w].grants

StampKeepsReevaluation(w) ==
    /\ marker' = frozen[w].fp
    /\ basis' = [stamps |-> frozen[w].stamps, counters |-> frozen[w].counters,
                 clean |-> frozen[w].clean]
    /\ UNCHANGED reeval

(* clear_cpas_reevaluation_required, then record_iap_admission_generation  *)
(* with the fingerprint of the snapshot.                                   *)
StampGeneration(w) ==
    /\ reeval' = FALSE
    /\ marker' = frozen[w].fp
    /\ basis' = [stamps |-> frozen[w].stamps, counters |-> frozen[w].counters,
                 clean |-> frozen[w].clean]

EffectsOf(w, kinds) ==
    effects' = [k \in DOMAIN effects |->
                  IF k \in kinds THEN effects[k] \cup {frozen[w].run} ELSE effects[k]]

DumpCommitsFirst(w) ==
    /\ pc[w] = "critical"
    /\ \E doomed \in SUBSET frozen[w].grants : Decide(w, doomed)
    /\ EffectsOf(w, {"decided", "published"})
    /\ Goto(w, "stamp")
    /\ UNCHANGED <<remote, baseline, reeval, marker, iap, locals, basis, spent>>

(* The rest of the critical section when no schedule records its success:  *)
(* decisions, dump and marker share one commit.                            *)
CommitRun(w) ==
    /\ pc[w] = "critical"
    /\ \E doomed \in SUBSET frozen[w].grants : Decide(w, doomed)
    /\ StampGeneration(w)
    /\ EffectsOf(w, {"decided", "published", "stamped"})
    /\ LeaveIap
    /\ Forget(w)
    /\ Goto(w, "idle")
    /\ UNCHANGED <<remote, baseline, loaded, target, spent>>

(* mark_scheduled_success_if_applicable inside the window commits what is  *)
(* there: the decisions and the dump.  The commit ends the transaction and *)
(* with it the advisory lock; the lock of the process stays.               *)
CommitScheduledSuccess(w) ==
    /\ ScheduleEnabled
    /\ pc[w] = "critical"
    /\ \E doomed \in SUBSET frozen[w].grants : Decide(w, doomed)
    /\ EffectsOf(w, {"decided", "published"})
    /\ IF SeparateProcess THEN LeaveIap ELSE UNCHANGED iap
    /\ Goto(w, "stamp")
    /\ UNCHANGED <<remote, baseline, reeval, marker, locals, basis, spent>>

CommitStamp(w) ==
    /\ pc[w] = "stamp"
    /\ StampGeneration(w)
    /\ EffectsOf(w, {"stamped"})
    /\ IF iap = w THEN LeaveIap ELSE UNCHANGED iap
    /\ Forget(w)
    /\ Goto(w, "idle")
    /\ UNCHANGED <<remote, baseline, grant, loaded, target, examined, spent>>

(* The process dies, or a stage raises (RF evaluation, FAD publication):   *)
(* what is not committed is rolled back and the locks are released.        *)
FailRun(w) ==
    /\ pc[w] # "idle"
    /\ spent.failures < MaxFailures
    /\ Spend("failures")
    /\ IF iap = w THEN LeaveIap ELSE UNCHANGED iap
    /\ Forget(w)
    /\ loaded' = [loaded EXCEPT ![w] = None]
    /\ Goto(w, "idle")
    /\ UNCHANGED <<remote, tables, target, history>>

-----------------------------------------------------------------------------
(* Admin injections.  A protection record is written under the IAP lock    *)
(* (_iap_admission_write); a database URL or SAS administrator record is   *)
(* not.  The counters are read, then replaced when the request commits.    *)
BeginInjection(i, key) ==
    /\ pc[i] = "idle"
    /\ spent.injections < MaxInjections
    /\ Spend("injections")
    /\ IF key = "zone" THEN TakeIap(i) ELSE UNCHANGED iap
    /\ loaded' = [loaded EXCEPT ![i] = meta]
    /\ Goto(i, key)
    /\ UNCHANGED <<remote, tables, todo, fetched, frozen, target, history>>

CommitInjection(i) ==
    /\ pc[i] \in {"zone", "url"}
    /\ meta' = Bump(loaded[i], pc[i])
    /\ zone' = IF pc[i] = "zone" THEN zone + 1 ELSE zone
    /\ IF iap = i THEN LeaveIap ELSE UNCHANGED iap
    /\ Goto(i, "idle")
    /\ UNCHANGED <<remote, peerGen, peerRec, feed, reeval, marker, grant, locals, history,
                   spent>>

(* Exclusion zones, NTIA zones, single PAL records, ESC connectivity and   *)
(* DPA activations are frozen too; an administrator writes them in one     *)
(* transaction that takes no IAP lock, moves no counter and marks nothing. *)
InjectUncounted(i) ==
    /\ UncountedWrites
    /\ pc[i] = "idle"
    /\ spent.injections < MaxInjections
    /\ Spend("injections")
    /\ feed' = feed + 1
    /\ UNCHANGED <<remote, peerGen, peerRec, zone, meta, reeval, marker, grant, iap, pc,
                   locals, history>>

-----------------------------------------------------------------------------
(* process_grant under the IAP lock: proposed_grant_violates_iap admits a  *)
(* proposal no protection point applies to, and any other only on a        *)
(* coherent generation with headroom left over live grants and peers.      *)
AdmitGrant(r, g, applicable) ==
    /\ pc[r] = "idle"
    /\ TakeIap(r)
    /\ grant[g] = "none"
    /\ g \notin {target[q] : q \in Requests}
    /\ applicable => Coherent
    /\ target' = [target EXCEPT ![r] = g]
    /\ vetted' = [vetted EXCEPT ![g] = Content]
    /\ screened' = [screened EXCEPT ![g] = feed]
    /\ Goto(r, "admitted")
    /\ UNCHANGED <<remote, tables, todo, fetched, frozen, loaded, overtaken, effects,
                   basis, spent>>

InsertGrant(r) ==
    /\ pc[r] = "admitted"
    /\ grant' = [grant EXCEPT ![target[r]] = "active"]
    /\ target' = [target EXCEPT ![r] = None]
    /\ overtaken' = IF screened[target[r]] = feed THEN overtaken ELSE overtaken \cup {target[r]}
    /\ LeaveIap
    /\ Goto(r, "idle")
    /\ UNCHANGED <<remote, baseline, reeval, marker, todo, fetched, frozen, loaded,
                   vetted, screened, effects, basis, spent>>

-----------------------------------------------------------------------------
Pipeline(w) ==
    \/ SyncDatabases(w)
    \/ \E p \in Peers : FetchPeer(w, p)
    \/ ApplyPeerDump(w)
    \/ FreezeGrants(w)
    \/ FreezePeers(w)
    \/ FreezeProtections(w)
    \/ FreezeGeneration(w)
    \/ EnterCritical(w)
    \/ CommitRun(w)
    \/ CommitScheduledSuccess(w)
    \/ CommitStamp(w)

Next ==
    \/ \E p \in Peers : PublishDump(p)
    \/ \E w \in Workers : StartRun(w) \/ Pipeline(w) \/ FailRun(w)
    \/ \E i \in Writers :
          \/ CommitInjection(i)
          \/ InjectUncounted(i)
          \/ \E key \in {"zone", "url"} : BeginInjection(i, key)
    \/ \E r \in Requests :
          \/ InsertGrant(r)
          \/ \E g \in Grants, applicable \in BOOLEAN : AdmitGrant(r, g, applicable)

Spec == Init /\ [][Next]_vars

(* Once triggered the pipeline runs on and an open request commits.  Peers,*)
(* administrators and CBSDs owe nothing.                                   *)
FairSpec ==
    /\ Spec
    /\ \A w \in Workers : WF_vars(Pipeline(w)) /\ WF_vars(StartRun(w))
    /\ \A i \in Writers : WF_vars(CommitInjection(i))
    /\ \A r \in Requests : WF_vars(InsertGrant(r))

-----------------------------------------------------------------------------
PcLabels ==
    {"idle", "databases", "pal", "cpi", "peers", "apply_peer", "freeze_peers", "freeze_zone",
     "freeze_generation", "enter", "critical", "stamp", "zone", "url", "admitted"}

Snapshots ==
    {None} \cup [peer : Peers, was : Nat, gen : Nat, rec : Nat]

(* The shape of every row and local variable, as the columns and the       *)
(* dataclass CpasSnapshot declare them.                                    *)
TypeOK ==
    /\ remote \in [Peers -> [gen : Nat, rec : Nat]]
    /\ peerGen \in [Peers -> Nat]
    /\ peerRec \in [Peers -> Nat]
    /\ zone \in Nat
    /\ feed \in Nat
    /\ meta \in [Keys -> Nat]
    /\ reeval \in BOOLEAN
    /\ marker \in {None} \cup [peers : [Peers -> Nat], inj : [Keys -> Nat]]
    /\ grant \in [Grants -> {"none", "active", "terminated"}]
    /\ iap \in {None} \cup Actors
    /\ pc \in [Actors -> PcLabels]
    /\ todo \in [Workers -> SUBSET Peers]
    /\ fetched \in [Workers -> Snapshots]
    /\ \A w \in Workers : frozen[w].grants \subseteq Grants /\ frozen[w].run \in Nat
    /\ loaded \in [Workers \cup Writers -> {None} \cup [Keys -> Nat]]
    /\ target \in [Requests -> {None} \cup Grants]

(* While admission is open on a marker whose run read a still database,    *)
(* every active grant has been examined, by that run or on admission,      *)
(* against the peer records and the locked protection records now stored.  *)
(* The fingerprint, the drift check and the IAP lock have no other         *)
(* purpose; none of them looks at the records.                             *)
OpenAdmissionIsVetted ==
    (Coherent /\ basis.clean) =>
        \A g \in Active : vetted[g] = Content

(* What a database synchronisation replaced, every active grant has been   *)
(* examined against before admission opens again: the mark written with    *)
(* the records is cleared only by a run that read them.  Not so the grants *)
(* a synchronisation overtook between their check and their insertion; no  *)
(* later mark reports them.                                                *)
SyncIsReexamined ==
    Coherent => \A g \in Active \ overtaken : screened[g] = feed

(* A grant is inserted on the baseline it was admitted on: nobody who      *)
(* writes peer records, or protection records under the IAP lock, does so  *)
(* between the headroom check and the commit, whatever the databases do.   *)
(* Their synchronisation, which takes no lock, may come between: such a    *)
(* grant is one of 'overtaken'.                                            *)
AdmittedOnLiveBaseline ==
    [][\A g \in Grants :
         grant[g] = "none" /\ grant'[g] = "active" => vetted[g] = Content]_vars

(* The decisions of a run, its dump and its admission marker are all in    *)
(* the database or none is, as _run_pipeline_critical_section promises.    *)
OneCommitPerRun ==
    /\ effects.decided = effects.published
    /\ effects.published = effects.stamped

(* record_iap_admission_generation: the marker is the generation whose     *)
(* records were evaluated, never a newer live one.                         *)
MarkerIsEvaluatedGeneration ==
    marker # None =>
        /\ marker.peers = basis.stamps
        /\ marker.inj["zone"] = basis.counters["zone"]

(* Nothing disturbs the database any more.                                 *)
Quiet ==
    /\ spent.injections = MaxInjections
    /\ spent.failures = MaxFailures
    /\ \A p \in Peers : remote[p].rec = MaxDumps
    /\ \A i \in Writers : pc[i] = "idle"

(* Admission fails closed on every disturbance and reopens: a run started  *)
(* after the last one ends with a coherent generation.                     *)
AdmissionReopens == (Quiet /\ spent.runs < MaxRuns) ~> Coherent
=============================================================================

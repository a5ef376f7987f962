# A TLA+ model of sas-core

sas-core is a Spectrum Access System for the CBRS band: CBSDs (base stations)
register, ask for spectrum grants and heartbeat them over HTTPS; peer SASs
exchange Full Activity Dumps (FAD); a daily pipeline (CPAS) re-evaluates every
grant; an administrator injects protection data.  FastAPI workers and Celery
tasks run the handlers concurrently against one SQL database: SQLite by default,
PostgreSQL in production.

Paths below are relative to `src/`; this directory's modules are named by file.

## 1. Inventory

| Component | State it keeps | Operations | Hard behaviour | Correct when |
|---|---|---|---|---|
| Lifecycle table `services/lifecycle.py` | none (pure) | evaluate/apply a CBSD or grant event, heartbeat gate | one state held in three columns; EXPIRED derived from the clock | terminal states are final, the flags follow the state |
| Registration, deregistration `services/registration_service.py`, `deregistration_service.py`, `cbsd_auth.py` | `cbsds` rows with a bound certificate | register, re-register, deregister | races with admissions and heartbeats of the same CBSD | no usable grant outlives the registration it was issued to |
| Grant `services/grant_service.py` | `grants` rows | screen, admit | unlocked screening, stale ORM object under the lock | no overlap within a CBSD, only its owner is admitted |
| Heartbeat, renewal `services/heartbeat_service.py`, `grant_renewal.py`, `dpa_neighborhood.py` | the grant row | authorise, renew, expire, terminate | many early answers, expiry while running, CPAS at the same time | never a permission past expiry or horizon, never one for a dead grant |
| Relinquishment `services/relinquishment_service.py` | the grant row | relinquish | same row as heartbeats and CPAS | final |
| Locks `services/concurrency.py` | process lock registry, advisory locks, row locks | exclusive sections | three kinds of lock, two dialects, fixed order | sections exclude, no deadlock |
| CPAS pipeline `services/cpas_service.py`, `cpas_reevaluation.py` | running flag, audit, re-evaluation mark | sync, freeze, evaluate, apply, publish, stamp | minutes long; injections, peers and admissions move on meanwhile | decisions applied only to the data they were made from; one commit |
| IAP admission `services/iap/admission.py` | admission generation stamp | fingerprint, stamp, admit | generations in several rows | no admission on a baseline that is not the stamped one |
| Admin injection `services/data_injection_service.py` | injected records, generations | upsert, bump | two writers of one counter | every change changes the fingerprint |
| CPAS schedule `services/cpas_schedule_service.py`, `tasks.py` | enable flag, last success, running flag | enable, tick, trigger, dispatch, mark success, clear the flag | tick, administrator and executions in different processes; a crash with the flag set; a message acknowledged for a killed task or delivered again beside a live one | one run at a time, an honest status, every armed window used |
| Peer FAD client `services/fad_client_service.py` | peer records, peer generation | fetch manifest and files, validate, apply | the peer republishes between two files; failures, repeats, reordering; a row locked but not read again | records of one peer come from one dump it published |
| FAD server `services/fad_service.py`, `routes/sas_sas_routes.py` | dumps and files | build, publish, serve | two publications built outside the lock, one of them inside a CPAS transaction | one complete dump is current |
| DPA `services/dpa_service.py`, `dpa_protection.py`, `esc_admin_service.py` | catalogue, activation rows with move lists, ESC flags | load, activate, deactivate, bulk, schedule, refresh, ESC loss | no lock covers the rows; a heartbeat checks and authorises apart | a grant on an active channel falls silent, an uncovered one resumes |
| External databases `services/database_sync_service.py`, `federal_db_service.py`, `fss_provenance.py` | FSS/GWBL/EXZ/DPA/PAL data, generations, provenance | sync, stamp | no lock against admissions or injections; rows of two origins in one table; unrelated counters compared | a feed replaces its own rows only; a changed database reaches every grant it forbids |
| Spectrum inquiry `services/spectrum_inquiry_service.py` | none | subtract what is withheld, offer channels | reads the tables of the screens by other rules | offers exactly what is free, and what a grant request would get |
| PAL and PPA `services/pal_service.py`, `ppa_service.py`, `ppa_geometry.py`, `ppa_rf_contour.py` | PAL, PPA and cluster rows | validate, clip, persist | validated outside the lock it is written under | no PPA overlaps another of its PAL |
| Protection screens `services/geometry.py`, `*_zone_service.py`, `gwpz_protection.py`, `border_protection.py` | none | test a grant against each incumbent | margins, missing data, order of answers | grant time and CPAS time agree |
| IAP allocation `services/iap/*.py`, `mcp_protection.py` | none (one evaluation) | rounds at each protection point, exclusions before, merge after | shared budgets on several channels, rounds that end | every budget and every DPA limit holds at once in the merged plan |
| Propagation, terrain, transport, batch routes, configuration, schema, profiles, tools | see `PROJECT.json` | | computation and I/O without state of their own | |

Handlers interact through rows and locks only.  A request handler owns a
database session; it takes process locks, advisory locks and row locks, loads
rows into ORM objects, changes the objects and commits, which writes the changed
columns and releases the locks.  CPAS runs in a Celery worker or a thread and
reads and writes the same rows.  `PROJECT.json` lists every component with what is
modelled, and under `hazards` each place where this interaction is hard to test.

## 2. Plan

The most important behaviour comes first: what a client may rely on, then what
the nightly pipeline may do to it, then what feeds the pipeline.

1. Done: grants.  `Lifecycle`, `CbsdGrants`, the abstract `GrantPromise`,
   `CbsdGrantsInv`, `CbsdGrants_proof`, `GrantPromise_proof`.
2. Done: the CPAS pipeline.  `Cpas`, `CpasInv`, `Cpas_proof`.
3. Done: who starts the pipeline.  `CpasSchedule`, `CpasSchedule_proof`.
4. Done: dumps between two SASes.  `FadExchange`, the abstract `FadMirror`,
   `FadExchange_proof`.
5. Done: DPAs against heartbeats.  `Dpa`, `Dpa_proof`.
6. Done: incumbents, zones, PALs, PPAs, inquiries and grant screens.  `Zones`,
   `Inquiry`, `Ppa`, `Spectrum`, `Spectrum_proof`.
7. Done: the decisions of the pipeline.  `Iap`, `Evaluation`, `Evaluation_proof`.
8. Left: the order in which row locks are taken, hence deadlock on PostgreSQL.
9. Left, proofs: every safety property of a passing run is proved; what is left is
   liveness, which stays with TLC (section 10).

How the modules compose: `Lifecycle` is the row algebra of `CbsdGrants`;
`Evaluation` extends `Iap` and `Zones`; `Spectrum` extends `Ppa`, which extends
`Inquiry`, which extends `Zones`, so that the grant handler and CPAS share one
definition of each screen where the code does.  `CpasSchedule` decides when the
pipeline of `Cpas` runs and `Evaluation` what it decides; `Cpas` abstracts both to
"some executions" and "any subset".  `Cpas` does not have the running flag: with
several `Workers` its executions overlap.  `CpasSchedule` shows that the flag
prevents this except around a redelivery (`OneRunAtATime`), and what needs it is
stated for one worker.

In several modules an operator defined just before another of a similar name
(`FlushUnlocked` before `FlushDump`, `MergeLast` before `MergeIap`) is the same
step with a plausible mistake in it.  No specification uses it;
`PROJECT.json` lists under `mutants` which property it breaks when it takes the
place of the real one.

## 3. The grant model

### Modules

* `Lifecycle` - `GRANT_TRANSITIONS`, `resolve_grant_state`, `apply_grant_state`,
  `apply_grant_event`, `heartbeat_operation_allowed` as operators on a row.
* `CbsdGrants` - the system.
* `GrantPromise` - what a client may rely on, with every request one instant.
* `CbsdGrantsInv`, `CbsdGrants_proof` - the inductive invariant and the proofs.
* `MCCbsdGrants` - the ranges and the symmetry of the instances TLC checks.

### State and code

| Variable | Code |
|---|---|
| `now` | `utc_now()`, in ticks |
| `cbsd[c]` | the `cbsds` row of a cbsdId: present, primary key, certificate hash; `reg` counts its registrations and stands for `registration_json` |
| `grant[g]` | the `grants` row of a grantId: CBSD, range, lifecycle_state, authorized, terminated, grant_expire_time, transmit_expire_time; `reg` is the registration it was inserted under; `None` not issued yet, `Deleted` removed |
| `sess[s]` | one request handler or CPAS run: what it loaded (`old`), what it will write (`new`, `cbsdRow`), the CBSD object it screened with (`seen`), its answer (`code`) |

A handler is two steps.  The first (`Register`, `Heartbeat`, `Admit`, ...) takes
the handler's locks, loads the rows and computes everything the handler does to
them; the second, `Commit`, is `db.commit()`: it writes the columns whose value
differs from the loaded one (`Merge`, what the ORM's UPDATE does) and releases
the locks.  `Abort` is a crash, an exception of the database or a failed flush.
`process_grant` has a step in front, `Screen`, which reads the CBSD row without a
lock and keeps the object.  When the row is later locked, the ORM returns that
same object if the key is the same (`IdentityMapped`).

Locks are not variables: they are held exactly while a session is open, so
`CbsdFree`, `IapFree` and `RowsFree` say when the next one gets them.  With
`PostgreSQL = FALSE`, row locks do not exist (`_supports_row_lock`) and a deleted
row's key may be reused.

What other components decide in a heartbeat or an admission (blacklist, a peer's
grant, DPA, federal database, WISP, exclusion zones, IAP headroom) is a
nondeterministic outcome; the order of the checks and what each outcome persists
are the code's.

Abstractions: a batch of items is a sequence of sessions; a handler reads the
clock once; ranges are intervals of small numbers; EIRP is not modelled
(`reduce_power` writes a column no handler here reads); every request carries a
certificate (mutual TLS is on) and every row has one.

### Runs

| Run | Instance | Shows |
|---|---|---|
| `grants` | one CBSD, two certificates, two grants, two sessions, two touching ranges one of which is PAL, licence ends 1 and 3, grant duration 2, horizon 1, clock to 2, two registrations; about 1.1 million states | the six invariants, the action property and the refinement of `GrantPromise` |
| `grants_sqlite` | the same, `PostgreSQL = FALSE` | a violation of `FlagsMatchState`: finding 1 |

Two sessions are enough for every pairwise race (the locks and the copies are
pairwise notions), two grants for an overlap, two certificates for a takeover,
two registrations for a stale one; a clock up to 2 with a duration of 2 and a
licence ending at 1 lets a grant expire while a handler runs, be issued expired
and be shortened by a renewal.  One CBSD is enough for TLC because handlers of
different CBSDs share only the CPAS run; the proofs cover any number.  The clock,
the registrations and the grantIds are bounded (`MaxTime`, `MaxReg`, `Grants`), so
the instances come to a stop: deadlock is not checked.

No fairness is assumed: the properties are safety properties.

### Properties

* `FlagsMatchState` - the three columns of one fact agree.
* `NoOverlappingGrants` - no two open grants of one CBSD overlap.
* `UsableGrantsAreCurrent` - a grant row's CBSD is registered and a usable grant
  was issued under the current registration.
* `AdmitsOnlyForOwner` - an insertion is pending only for the bound certificate.
  It holds although the re-check reads a stale object, because on PostgreSQL
  another certificate means another key.
* `PermissionBounded` - transmitExpireTime is within expiry and horizon.
* `TerminatedIsFinal` - no step revives or extends a terminated row.
* `PromiseKept` - the tables behave as `GrantPromise`: with every request one
  instant, grants are issued clear of each other, only current grants are
  renewed, closed is closed, and a registration or deregistration closes
  what was usable.

### Finding

1. On SQLite `FlagsMatchState` fails.  A heartbeat loads a GRANTED row; a CPAS run,
   which takes no CBSD lock, commits TERMINATED; the heartbeat's UPDATE writes
   `lifecycle_state` and `authorized` but not the unchanged `terminated`.
   `apply_grant_state` promises to "keep legacy boolean flags in sync".

An observation beside it: a heartbeat on a relinquished grant is answered 500
when a peer reports a grant for the CBSD (`services/heartbeat_service.py:234` comes
before the lifecycle gate); the comment at `services/lifecycle.py:431` and the test
`test_relinquished_grant_is_not_converted_to_500` say 103.  The row stays closed.

## 4. The CPAS model

### Modules

* `Cpas` - the pipeline and everything it shares the database with.
* `CpasInv`, `Cpas_proof` - the inductive invariants and the proofs.
* `MCCpas` - the symmetry of the instances.

A run of CPAS takes minutes: it synchronises the injected databases, downloads
the dumps of its peers, freezes a snapshot, evaluates it, and then applies its
decisions, publishes a dump and stamps the generation it evaluated.  Grant
requests are admitted between runs on the strength of that stamp, and peers and
administrators replace records all the while.  The code keeps these apart with
the IAP admission lock, a fingerprint of generations, a drift check and a
re-evaluation mark; the model asks whether the four together are enough.

### State and code

| Variable | Code |
|---|---|
| `remote[p]` | what peer `p` serves: generationDateTime and records (external) |
| `peerGen`, `peerRec` | `peer_sas.last_fad_generation`, the `peer_fad_record` rows |
| `zone` | the protection records in `admin_injected_data` that are written under the IAP lock with a counter (`_iap_admission_write`); a replacement changes the number |
| `feed` | the protection records written without that lock: exclusion zones, DPAs, FSS and GWBL of federal databases, PALs, and what administrators write uncounted |
| `meta` | the injection generation row, one counter per key |
| `reeval`, `marker` | the re-evaluation mark and the IAP admission generation row |
| `grant[g]` | the `grants` row: absent, active or terminated |
| `iap` | who is inside `exclusive_iap_admission` |
| `pc`, `todo`, `fetched`, `frozen` | a pipeline execution: its stage, the peers left, the downloaded dump, its `CpasSnapshot` |
| `loaded`, `target` | what an injection, a PAL or CPI synchronisation and a grant request hold between their two statements |
| `vetted`, `screened`, `overtaken` | history: the peer and locked records, and the feed, each grant was last examined against; grants inserted on a feed no longer stored |
| `effects`, `basis` | history: which runs committed what, what the marker was read from |

Each action is one statement against committed data (READ COMMITTED) or one
transaction that nothing can interleave with.  The actions follow
`execute_cpas_pipeline` in its order: `SyncDatabases`, URL after URL, each with a
commit of its own and none with the IAP lock (`SyncFederal`; `BeginSync` and
`CommitSync` for the PAL and CPI databases, which read and write a counter;
`EndSync`), `FetchPeer` and `ApplyPeerDump` per peer, the four reads of
`freeze_cpas_snapshot`, `EnterCritical` with the drift check, then `CommitRun`, or
with a schedule `CommitScheduledSuccess` and `CommitStamp`.  `FailRun` is a crash
or an exception at any stage.  `BeginInjection` and `CommitInjection` are the load
of the counters and the commit of an injection, `InjectUncounted` is one of those
that take no lock and move no counter; `AdmitGrant` and `InsertGrant` the
headroom check and the insertion of a grant request.  A peer's stamp is loaded
before the download and not read again under the lock (`StorePeerDump`), as in
`FadExchange`.

Data is abstracted to versions.  What the RF evaluation decides from a snapshot
is any subset of its grants; whether headroom is left is either way.  `Databases`
(the types of the injected URLs), `UncountedWrites`, `ScheduleEnabled`,
`SeparateProcess` (a Celery worker beside the API, so that only the advisory
transaction lock excludes) and `ReuseStamps` (a peer changes a dump under the same
generationDateTime) name the configurations and the environment.

### Runs

| Run | Instance | Shows |
|---|---|---|
| `cpas` | one execution at a time, three in all, one peer, two grants, one request, one injection in flight, three dumps, two injections or synchronisations, databases of every type, one failure; about 4.8 million states | `TypeOK`, `OpenAdmissionIsVetted`, `SyncIsReexamined`, `OneCommitPerRun`, `AdmittedOnLiveBaseline` |
| `cpas_reopens` | one worker, two executions, schedule, every database, uncounted writes and reused stamps all on, weak fairness | `AdmissionReopens` |
| `cpas_freeze` | one worker, one injection | a violation of `MarkerIsEvaluatedGeneration`: finding 2 |
| `cpas_schedule` | one worker, the schedule on | a violation of `OneCommitPerRun`: finding 3 |

Three executions let one start after another that failed and a third show what
they left behind; three dumps and two injections give a change before, between and
after the reads of a freeze; a second grant is admitted while the first is in a
snapshot.  The counters in `spent` end every behaviour: deadlock is not checked.

`cpas` assumes of the environment what the fingerprint and the mark themselves
assume, and the properties need each of these: with `ReuseStamps` a peer changes
records without changing its stamp, and with three injections in flight one
increment of the counters is lost, and `OpenAdmissionIsVetted` fails; with
`UncountedWrites` records change that nothing reports, and `SyncIsReexamined` fails.
`cpas_reopens` has the first and the last on.  Both properties also need
executions that do not overlap.  `SyncIsReexamined` fails with two because the mark
is a row without a generation: an execution that ends clears the mark that the
synchronisation of another set after the first one's freeze.
`OpenAdmissionIsVetted` fails with two and a third to follow: the first downloads a
dump; the second applies a newer one and stamps it; the first applies the older one
it holds, for `peer_generation_already_applied` compares generations for equality
and not for age (`services/fad_client_service.py:415`); a grant is admitted, examined
against the older records; the third execution applies the newer dump again, the old
marker is coherent once more, and nobody has examined that grant against the
records stored.  The running flag excludes the overlap, but for a redelivery
(section 5).  All of this is listed under the hazards.

Fairness (`FairSpec`): a pipeline execution, once dispatched, runs on, and a
request that is open commits; both are threads that nothing blocks for ever.
`StartRun` is fair because a scheduler tick or the operator triggers CPAS again.
Peers, administrators and CBSDs owe nothing.  Liveness is checked with one worker too:
two executions may stamp in the reverse of their order, and then admission is
closed until a third.

### Properties

* `OpenAdmissionIsVetted` - while admission is open, every active grant was
  examined against the peer records and the locked protection records now stored,
  by the run behind the marker or on admission.  It is conditional on a freeze
  whose reads saw one state (`basis.clean`); finding 2 shows the other case.
* `SyncIsReexamined` - while admission is open, every active grant was also
  examined against what the databases last brought.  These records are not in the
  fingerprint; the mark set with them, and that only a run which read them clears
  it, must do.  Excepted are the grants a synchronisation overtook between their
  check and their insertion (`overtaken`); the observation below is about them.
* `AdmittedOnLiveBaseline` - nobody who writes peer records, or protection records
  under the lock, does so between a headroom check and the insertion it justifies,
  whatever the databases do.
* `OneCommitPerRun` - decisions, dump and marker are durable together.
* `AdmissionReopens` - the first run after the last disturbance opens admission.

### Findings

2. `MarkerIsEvaluatedGeneration` fails.  `freeze_cpas_snapshot` reads the records
   first and the fingerprint last, without the IAP lock; an injection in between
   leaves old records under a new fingerprint, which the drift check accepts.
3. With the daily schedule, `OneCommitPerRun` fails:
   `mark_scheduled_success_if_applicable` commits before the marker is stamped.

An observation beside them: `services/concurrency.py:72` says that writers of the
authorization baseline hold `exclusive_iap_admission` so that an admission cannot
race them.  `sync_injected_database_urls` replaces exclusion zones, DPAs, FSS and
GWBL records without it, and TLC finds grants that it overtakes: a request computes
its headroom, a run synchronises, freezes and reads the table without the row, the
row is inserted, the run commits and clears the mark.  Admission is open and nobody
has examined that grant against the new records, nor will a mark ask for it.  Without
`\ overtaken` `SyncIsReexamined` fails on this.

## 5. The schedule model

`CpasSchedule` has the ticker of the daily schedule, administrators and the
executions they start.  `tick_scheduled_cpas` is three transactions
(`TickLoads`, `TickChecksRunning`, `TickAttempts`); both callers then go through
`trigger_daily_activities` (`Trigger`, `Enqueue`, `EnqueueFails`) under the
process lock `_cpas_dispatch_lock`; an execution is a Celery task or a thread
(`WorkerStarts`, `RunMarks`, `RunEnds`, `ClearRunningFlag`, `Acknowledge`).

What may go wrong, `FaultKinds`: the broker refuses (`EnqueueFails`), a stage raises
(`RunRaises`), the database is away when the flag should be cleared (`ClearFails`,
`EnqueueCleanupFails`), the API restarts (`ApiRestarts`), and three things that
`task_acks_late` without `task_reject_on_worker_lost` (`celery_app.py:24`) makes
different from each other: a child of the prefork pool is killed and its message
*acknowledged* (`ChildKilled`); a whole worker dies and its message goes back to
the queue (`WorkerDies`); a connection is lost and the message is delivered again
*while the task goes on*, or after it has ended (`ConnectionLost`).

| Variable | Code |
|---|---|
| `now` | the clock, in hours of a short day |
| `mode` | `sas_execution_mode` |
| `enabled`, `last`, `loaded` | the `scheduled_daily_activities` row, `lastSuccessfulLocalDate` in `cpas_schedule_meta`, and the copy a tick has loaded |
| `flag` | the `cpas_running` row |
| `pc`, `dispatch` | where the ticker and an administrator's request are; the holder of the dispatch lock |
| `run[e]` | an execution: queued, running, its success marked, in its `finally`, not yet acknowledged |
| `detached` | executions whose message the broker has taken back, so that it is not taken back twice |
| `orphaned` | history: the last owner of the flag was killed or could not reach the database |
| `doubled` | history: a message came back though its task lives or had ended, and the executions around it are not over |

Run `schedule`: days of three hours, a window from hour 2 to hour 1 across
midnight, two days (the end of one window, a whole one across midnight, the
start of a third), three executions, two manual triggers, any two faults of all
seven kinds, both execution modes.  Two faults are what a redelivery needs to be
followed by a crash of either copy; a third execution is the one a trigger starts
beside them.  There is one ticker: several API processes with a ticker each are
not modelled.

* `StatusIsHonest` - completed is answered only when no pipeline is queued,
  running or cleaning up.
* `OneRunAtATime` - two executions are never live at once.  Both except the time
  from a redelivery of a task that did not die until the executions around it
  are over (`doubled`): nothing else makes them false, and not for longer.
* `FlagHasOwner` - a set flag, which blocks every later run, has somebody who
  will clear it, or the last one was killed or could not reach the database.
* `WindowIsUsed` - in an armed window that stays open a success is recorded, unless
  the flag is left without owner.

Fairness: the ticker loop ticks on (`WF(Tick)`), a dispatch that holds the
lock goes on, the broker delivers, and a pipeline that does not fail ends.
Triggers and faults owe nothing.  The last hour is the one that stays open:
within a bounded clock it stands for a window long enough for a retry.

Without their exceptions these fail, and TLC shows what the exceptions stand for.
`tasks.py:24` says that the flag is always cleared in `finally`; a killed child's
`finally` does not run, its message is acknowledged, and the flag stays set for good
(`FlagHasOwner` without `orphaned`).  `services/cpas_service.py:261` says that status is
completed only when CPAS is not running; after a lost connection two copies of one
task run, and the first to end deletes the flag of both at `tasks.py:44`
(`StatusIsHonest` without `doubled`).

## 6. The dump exchange model

`FadExchange` is two SASes that run this code.  On the server, requests and CPAS
runs (`Publishers`) build a dump type by type outside every lock (`BuildType`),
flush it under the FAD advisory lock (`FlushDump`) and commit or roll back; on
the client, synchronisations (`Syncs`) fetch the manifest and then file after
file, each answered from whatever dump is current by then, and replace the
stored records in one transaction (`ApplyGeneration`).

| Variable | Code |
|---|---|
| `records` | ids in the tables behind each record type |
| `dumps`, `published` | `fad_dumps` rows with their `fad_files`, and the ids with `published = TRUE` |
| `draft[p]` | a publication: payload so far; once flushed, the rows it will unpublish |
| `fadLock` | the FAD advisory lock |
| `download[s]` | a synchronisation: the stamp of the peer row as loaded before it (`was`), its manifest and the files so far |
| `local` | `peer_sas.last_fad_generation` and the `peer_fad_record` rows |

A checksum is the body it is computed from; a stamp has the resolution of
`generationDateTime`, so two dumps may carry the same one.

`ApplyGeneration` locks the peer row, but `_lock_peer_row` returns the object that
`run_peer_fad_sync` loaded before the download, with the stamp it had then: the
repetition test compares that one with the records stored now (`AlreadyApplied`), and
assigning a stamp equal to it writes nothing (`Replaced`).

`FadMirror` is what the exchange promises: a peer's copy is nothing or exactly one
dump that was published.

Run `fad_exchange`: two publications and two synchronisations at once, two
record types with up to two ids on pages of one, manifests of at most three
files (so that one is refused), two dumps in one or two seconds, one change of
the records, one failure; about 906 000 states.  Two publications race for the
lock; two synchronisations may hold manifests of different dumps and finish in
either order; a third of each would add no new pair.

* `OneCurrentDump` - from the first commit on exactly one dump is current, and a
  flushed publication replaces just that one, so the unique index never fires.
* `StoresWholeDumps` - the records stored refine `FadMirror`: they are those of one
  published dump, replaced as a whole, however synchronisations overlap.
* `FreshSyncStoresItsDump` - a synchronisation whose loaded stamp is still the stored
  one stores stamp and records of the dump it downloaded, over whatever was there.
* `SyncCatchesUp` - when the server has settled, the client ends with its
  current dump, although a synchronisation that fetched an older one may finish
  last.

Without that condition it fails: one synchronisation downloads the dump whose stamp
is stored; another stores a newer dump; the first finds its stamp unchanged, its
records different, and stores the older records under the newer stamp, where
`apply_peer_generation` promises an atomic replacement.  A later synchronisation sees
that the records differ and replaces them, which is why `SyncCatchesUp` holds.  That
stamp and records are always those of one dump, `StoresOnePublishedDump`, is proved for
synchronisations that follow one another, as those of one execution of the
pipeline do.

Fairness: `WF(Sync(s))`, because CPAS synchronises its peers every day and a
download that is not interrupted goes on.  Publishers, clock and failures owe
nothing; all are bounded, so the server does settle.

## 7. The DPA model

`Dpa` has the catalogue, the activation rows with their move lists, the ESC
flags and the heartbeats.  No lock covers the rows: each operation is a READ
COMMITTED transaction, opened with what it reads (`OpenLoad`, `OpenBulkOn`,
`OpenBulkOff`, `OpenActivate`, `OpenDeactivate`, `OpenScheduleJson`,
`OpenScheduleKml`, `OpenCpas`) and closed by `CommitTxn` or `RollbackTxn`; two may
be open at once, and a row has no unique key.  A heartbeat is sent, passes the
DPA check, and is authorised later.  Which grants a move list names is either
none or all that overlap.

| Variable | Code |
|---|---|
| `catalogue`, `rows` | the `dpa_catalogue` row, the `dpa_active` rows (key, age, move list, source) |
| `esc` | `esc_disconnected`, `esc_absent` |
| `terminated`, `left` | grants CPAS ended; ticks to `transmitExpireTime` |
| `session[s]`, `heartbeat[g]` | open transactions; where a heartbeat is |
| `asked`, `scheduled` | history: channels activated by hand; channels a schedule has named |

Run `dpa`: two DPAs of one channel each, one grant on the first, two sessions,
three operations, a horizon of one tick.  Two sessions give every overlap of two
operations, the third operation shows what they left behind; the second DPA is
the one that must not be touched.

* `UnscheduledActivationsRetained` - no overlap of other operations loses a
  channel an administrator activated.
* `EventuallySilent` - a grant that must be silent from some time on falls
  silent, though a heartbeat may have been checked before and is authorised after.
* `ResumesAfterDeactivation` - when nothing covers it any more, a CBSD that goes
  on sending heartbeats is authorised again, unless CPAS ended its grant.

Fairness: time passes, a handler ends, an open transaction commits or rolls
back.  That a CBSD sends heartbeats is a hypothesis of the property.

## 8. The spectrum model

`Zones` has the geography and every protection screen as operators over tables;
`Inquiry` the spectrum inquiry, with the links of a CBSD to PPAs and PALs built
and taken one after the other as the code's loop does, and the screens of a grant
request; `Ppa` the validation of a PPA; `Spectrum` the system: administrators inject, feeds
synchronise, PPAs are created in two steps (`ValidatePpa`, `PersistPpa`), grants
are requested in two (`ScreenRequest`, `InsertGrant`) and heartbeated, and CPAS
freezes and applies.  The world is a line: a position is a number, a ring an
interval, a zone a set of rings; what the ray test and the distance functions of
`services/geometry.py` do at an edge is kept.  Field strengths are tables.
`SpectrumAssumption` says what is read from outside: finitely many records,
places and frequencies that are numbers, and lists of PALs that are sequences.

| Variable | Code |
|---|---|
| `db` | the tables: exclusion zones, NTIA flag, WISP, GWBL, FSS, PALs, PPAs and cluster lists in row order; provenance of FSS ids (`federal`, `admin`); `sync_meta` (`gens`), the injection generation (`inj`) |
| `draft`, `making` | grant requests past their screens, PPAs past their validation |
| `grants` | live grants with the generations they were stamped with |
| `snap` | the snapshot CPAS is evaluating |
| `syncing` | an FSS synchronisation that has read: its feed, the stations that were the administrator's, the rows it will delete |

A synchronisation of FSS is two steps, for it holds no lock an injection takes:
`ReadFss` reads the provenance map and the rows of earlier feeds, `SyncFss` deletes
those rows, writes the feed's and writes the map back.  `InjectFss` may commit in
between, or wait for the synchronisation's row locks and write the map it read
before over the one just written (`InjectFssAcrossSync`).

Run `spectrum`: two CBSDs on a line of a dozen places, a band of three channels
with the 3650 boundary after the second, one or two records of every table, two
edits beyond what earlier days left, one live grant; 79 727 states.  Every pair of
injections and synchronisations occurs, in both orders; the geometry puts a CBSD
inside, on the edge of and outside each zone.

* `OffersAreScreened` - what an inquiry offers passes the exclusion, GWPZ, FSS and
  GWBL screens of a grant request.  Excused are CBSDs on the edge of a zone, where
  the ray test of the one and the distance of the other differ, and stored ranges
  that end where they begin, which are stored unvalidated: such a range overlaps
  an offer around it but withholds no frequency.
* `InquiryIsExact` - frequency by frequency, nothing free is withheld and nothing
  withheld is offered.
* `AdminFssRetained` - no feed removes, or leaves without owner, an earth station
  that was an administrator's when the synchronisation read who owns what.
* `ProtectedGrantsEnd` - a grant in the way of an incumbent ends.

Fairness: `WF(Freeze)` and `WF(Apply)`, because the daily run repeats; edits are
bounded, so that runs discarded for drift stop.

Without the condition on what was read (`Known`) `AdminFssRetained` fails: a feed brought
a station earlier; a synchronisation has read that; an administrator injects the
station, which makes it the administrator's; the synchronisation deletes its row,
though `services/fss_provenance.py:157` says that only the feed's rows go.

Run `ppa_overlap` is finding 4: `PpasClear` fails.  `geojson_areas_overlap` looks
for edges that cross and corners strictly inside; identical rings have neither,
so `create_ppa` called twice makes two PPAs on one ground.

## 9. The evaluation model

`Iap` is the allocation at one protection point; `Evaluation` is everything CPAS decides on a snapshot: exclusions by
peers and incumbents, the points the snapshot yields, the rounds at each of them
(`StartIap`, `Allocate`, `NextPoint`, `LastPoint`), the DPA move lists
(`MoveGrants`) and the merge.  `ScreensFail` is `CpasRfEvaluationError`.
Interference is a level times a gain by distance.

| Variable | Code |
|---|---|
| `snap` | the frozen snapshot |
| `point`, `grants` | the `ProtectionPoint` and the `GrantRfInfo` of one call of the engine |
| `eirp`, `settled`, `floored`, `residual`, `unsat` | the engine's tables: levels, locked, removed, `iap_threshold_ch`, `unsat_count_ch` |
| `stage`, `queue`, `verdicts`, `moved` | where the evaluation is, the points left, the merged decisions, the move lists |

Run `evaluation`: 3084 snapshots, one per combination of two local grants and a
peer's with an FSS earth station, a WISP zone, a PPA, ESC sensors and a DPA, and
the ones that cannot be evaluated; 32 495 states.  A peer's grant and two local
ones are the least with which a budget is shared between who can be stepped
down and who cannot; channels of two units let one grant span three.  The
inductive invariants of section 10, `EvalInv` and `PlanInv`, hold in all of its
states, as `SpectrumInv` does in those of the run `spectrum`.

`SnapshotsAssumption` says what the tables guarantee of a snapshot: finitely many
grants, primary keys that are unique, ranges that are not empty (every way into
the `grants` table refuses others), positions and levels that are natural numbers.

* `BudgetKept` - settled grants keep every channel of a point within its threshold.
* `FairGrantsKeepPower` - a grant below its fair share from the start loses none.
* `RoomCutsNobody` - at a point whose neighbours together stay below the threshold
  on every channel, no grant that a channel constrains loses power, however their
  channels overlap and in whatever rounds they lock.
* `PlanKeepsLimits` - the merged plan keeps every point and every DPA limit at
  once.
* `AdmittedGrantIsNotMoved` - what the DPA screen of a request would admit is not
  moved the night after.
* `EvaluationEnds` - the rounds end.  `WF(Next)`: the worker is one thread.

Two observations.  A category A grant at or above 3660 MHz, which
`services/iap/aggregate.py:22` calls not considered for an ESC, is a neighbour of the
ESC's point and on none of its channels; it is never satisfied, is stepped down to
the floor and terminated, which is why `RoomCutsNobody` speaks of grants that a
channel constrains.  And `services/iap/admission.py:392` says that the members of a
PPA's cluster are no interferers of it: a request skips the point, but the
allocation counts them and may take their power.

The headroom test of a request (`iap/admission.py:292-450`) is not modelled.  It drops
points of the own cluster's PPA and of federal FSS first (`:482-491`), leaves out
overlapping grants of the own CBSD (`:532`), which is harmless only because the
conflict check under the same locks admits none (`NoOverlappingGrants`), and compares
with a tolerance of 1e-15 mW.

## 10. Proofs

`tlapm` checks eight modules.  Their theorems hold for every value of the
constants that satisfies the assumptions named in the component's module.

`CbsdGrants_proof` proves, for every value of the constants with
`PostgreSQL = TRUE`, that `Spec` implies each invariant of the `grants` run and
`TerminatedIsFinal`.  The assumptions are those of `CbsdGrants`: the types of
the constants, and that `None` and `Deleted` are no rows and no terms.

None of the properties is inductive.  A commit writes what was computed from
copies some steps earlier, so `CbsdGrantsInv!IInv` adds, for every session:

* `UpdateOK` - a loaded copy still equals its row, and the row to be written is in
  order and follows it (same CBSD, range, registration; terminal stays terminal);
* `InsertOK` - an insertion is the only one, for an unused grantId, clear of
  the active grants of its CBSD and under its current registration;
* `RegistrationOK` - a registration or deregistration accounts for every row of
  its CBSD;
* `SeenOK` - a screened object with the row's key has the row's certificate;
* `OwnerOK`, `ShapeOK` - bookkeeping;

and `Exclusion`: two open sessions have different CBSDs, are not both admissions
or CPAS runs, and have no row in common.  The argument runs in three parts:
lemmas on one row (`StateRow`, `EventRow`, `FederalRow`, `AuthorizeRow`,
`HeartbeatRow`: whatever a handler does to a row leaves a `Successor`); opening
a session (`OpenInductive` once for all, then one lemma per handler that its work
is in order and that its locks keep it `Apart`); and `Commit` (`CommitWrites`:
as copies are fresh, merging columns writes the computed row; `CommitTables`;
`CommitOthers`: no other session's assumptions are disturbed).  On SQLite
`Exclusion` fails, and with it the properties, as finding 1 shows.

`GrantPromise_proof` proves the refinement, `Spec => PromiseKept`, under the same
assumptions.  `IInv` says that a copy is in order; the promise must also know
which request it amounts to, so `AnswersInv` adds that a session about to commit
a registration writes the next registration of its CBSD, that an admission
touches no existing row, that a heartbeat touches one, and that only a heartbeat,
of a grant issued under the current registration, moves deadlines.  Only the clock
and commits show to a client (`StepMaps`), and every commit is one request
(`CommitMaps`): `CommitIssues`, `CommitPermits`, or, when no deadline moves, a
set of rows that close (`RowsClosed`) and with them a registration
(`CommitEnrols`), a deregistration (`CommitLeaves`) or neither (`CommitCloses`).

`Cpas_proof` proves, for every set of peers, grants, executions, requests and
injections and every bound, from the assumptions of `Cpas` (Boolean configuration,
natural bounds, actors that differ): `TypeOK` and `AdmittedOnLiveBaseline` in every
configuration, and `OneCommitPerRun` without a schedule.  `CpasInv!IInv` adds to the types

* `PcOfActors`, `LocalsInv`, `SnapshotsInv`, `HistoryInv` - which stage each actor
  can be in and which of its local variables are set there;
* `LockInv` - who is in the critical section, replaces protection records or has
  an admitted proposal holds the admission lock;
* `AdmissionInv` - an admitted grant is not in the table, in no snapshot of an
  execution, and was examined against the peer and locked records still stored;
* `CommitInv` - no execution is between its two commits.

`AdmittedOnLiveBaseline` speaks of one step and is not inductive: that nothing
has moved since the check two steps earlier is `AdmissionInv`, and it is
preserved because every other writer of these records enters with `iap` free or
holding it (`LockInv`).  Database synchronisation does not; what it writes is the
feed, of which the property does not speak, and cannot (section 4).

`Cpas_proof` also proves `OpenAdmissionIsVetted`, with or without the schedule, under
`Orderly`: one worker, one injection in flight, peers that give every dump its own
stamp, no PAL or CPI database.  Section 4 says what goes wrong without the first
three; with PAL and CPI databases the run `cpas` finds nothing wrong, but a counter
may then fall behind the records and the argument below does not apply.  The property
compares what a grant was examined against, which may be long ago, with what is
stored now, and says nothing of the time between.  `OrderInv` does:

* `StampsInv` - stamps and counters are equal to the versions of the records they
  stand for, and a dump in hand is no older than the one stored: so records only
  grow newer, and equal fingerprints are equal records;
* `FreezeInv` - everything a freeze has read lies, in the order of its reads,
  between the records of the marker and those now stored, and so does the
  examination of every grant admitted since;
* `VettedInv` - no active grant was examined against records older than those of
  a marker that comes from a clean freeze.

A coherent marker has the fingerprint of what is stored, so nothing lies strictly
between the two and the examination of every grant is of just those records
(`NoNewerAntisym`).  The proof has one lemma for what a step does to the order of
the records (`StampsStep`), two for the steps that leave snapshots or the marker
alone (`FreezeKept`, `VettedKept`), and one for where a run stands when it commits
(`RunVets`).  It also needs that `None` is no fingerprint (`NoneAssumption`).

`SyncIsReexamined` is proved under `SyncsAlone`: one worker and no uncounted writes,
with any databases.  It speaks of the state with the mark clear only; `FeedInv` says
what a run in between knows: from the first read of its freeze to its commit the
feed stands still, its snapshot has that feed, and whoever is neither in the
snapshot nor overtaken was examined against it.  So the commit, which clears the
mark, examines the others.  Before the freeze nothing is known, and nothing is
needed, since the mark is set.

`CpasSchedule_proof` proves `TypeOK`, `StatusIsHonest`, `OneRunAtATime` and
`FlagHasOwner` for any number of executions, any window, any kinds and number of
faults, without further assumption.  `DispatchInv` adds that whoever is about to
enqueue holds the dispatch lock and, unless `doubled`, has set the flag while
nothing was live: without it, two dispatchers that both saw
the flag clear could both be about to enqueue.

`FadExchange_proof` proves, for any record types, ids, page size, publishers and
synchronisations, `TypeOK`, `OneCurrentDump` and the refinement of `FadMirror` by the
records, `Spec => StoresWholeDumps`; `FreshSyncStoresItsDump`; and, when synchronisations
do not overlap (`OneSync`), the refinement by stamp and records,
`StoresOnePublishedDump`.  `IInv` adds to the types

* `PublicationInv` - the current dump is the last one; a flushed draft belongs to
  the holder of the FAD lock, is complete, and will unpublish exactly what is
  published.  Preserved because only the holder of the lock commits;
* `DownloadInv` - the files of a download are, in order, those of the dump whose
  manifest it fetched.  A file from a later dump is only taken when it is equal.

So a completed download is the dump of its manifest (`ApplyStores`), and every
step is an `Offer`, a `Take` or a stutter of the promise (`Visible`).  For the stamp one
needs that the one loaded before the download is still the one stored
(`FreshStamp`, `FreshStep`), which is what `OneSync` gives.

`Dpa_proof` proves `TypeOK` and `UnscheduledActivationsRetained` for any DPAs,
channels, grants and any number of overlapping transactions.  A transaction
commits deletions and rows it decided on from a table read before, which other
commits have changed since, so nothing can be said of the rows it names.  `IInv`
speaks of their channels instead: a row a schedule owns is on a channel a
schedule has named (`Marked`), and a transaction deletes only on the channels of
its kind (`TxnOK`, `MayDelete`) - a deactivation its own, a schedule those once
named, only a reload any.  Upserts and refreshes never lose a channel
(`OverwriteRows`, `RefreshKeeps`).  It needs that `None` is not the mark of a
schedule.

`Evaluation_proof` proves the five safety properties of the `evaluation` run for
every table of snapshots, every set of thresholds and gains and any channel width.
The engine adds and subtracts sums over sets of grants, which the module writes as
folds.  Its first part therefore proves what sums do (`SumStep`, `SumApart`, `SumPart`,
`SumInto` and others) by taking a smallest set that is a counterexample: well-foundedness
of finite subsets is a library theorem without an operator parameter, so this
works where the induction theorems do not.

* `IapInv`, inside one call of the engine: residuals and counters are exact
  (`BudgetKept`), and the fair share of a channel, residual by counter, never falls
  below the first one (`ShareKept`).  What a round locks is less than a fair share
  for each grant it locks and so fits the residual (`LockChannel`).
  `FairGrantsKeepPower` alone is not inductive: it says nothing of the shares of
  later rounds.  With `ShareKept` a grant that was under the first share is under
  every later one and is locked as it is by the round that could lower it
  (`FairGrantsLock`).
* `PlanInv`, over all points: no merged level is above the granted one, every
  point already evaluated is within its budget at the levels merged by now
  (`MergedHold`; a later point can only lower them), and the move lists are those of
  the levels left (`MovedOK`).
* `RoomCutsNobody` is inductive with the exact residuals of `BudgetKept`.  As long as
  nobody was cut, what is locked and what is open of a channel add up to less than
  its threshold, so the open grants are together below the residual (`RoomLeft`).
  Take an open grant with the least coupling: on each of its channels as many times
  that as there are open grants is at most their sum (`SumAbove`), hence below the
  residual; it is within its share everywhere and the round locks it (`RoomLocks`).
  So a round that lowers power, which needs that nobody can be locked, finds no open
  grant that a channel constrains.
* The two DPA properties rest on the move list's rule that a grant goes if it and
  those not stronger are together over the limit: of the grants kept, the
  strongest and those not stronger are within it (`RestFits`), and the aggregate
  a request was screened with bounds that of any part of it (`ScreenAgrees`).

`Spectrum_proof` proves the three safety properties of the `spectrum` run for any
records, feeds, places, requests, band and channel width.  What an inquiry
computes is three folds: over the withheld ranges, over the PPA links of the
CBSD, and, to build these, over the rows.  Each fold is shown to be a table with one
entry per subset of its index set (`FoldTable`: such a table exists, by counting up
to the size of the set), which unfolds one element at a time (`SubtractUnfolds`,
`TakeUnfolds`), and `Removing` carries a fact from the empty set to the whole: what
is left contains a frequency if and only if it was there before and no range
removed so far has it.  `SplitExact` says that cutting at the raster loses and adds
nothing and that no piece crosses it, `AvailableExact` puts them together.
`OffersAreScreened` follows: a screen that refused an offer would share a frequency
with it, and that frequency would have been withheld.

`SpectrumInv` is the invariant over the tables: they are well formed, also after a
feed whose zones name no ranges and with the PPAs that are validated and not yet
written; an NTIA contour in use is usable; no earth station is both an
administrator's and a feed's; and a synchronisation in progress is about to drop none
that was an administrator's when it read (`OwnersOK`).  `AdminFssRetained` needs the
last part: a synchronisation deletes what an earlier feed brought, and nothing in
the operation itself says that these ids were not the administrator's.

By TLC only: every liveness property (liveness under fairness is out of the
prover's reach): `AdmissionReopens`, `WindowIsUsed`, `SyncCatchesUp`,
`EventuallySilent`, `ResumesAfterDeactivation`, `ProtectedGrantsEnd`, `EvaluationEnds`.
`Ppa` decides which PPAs come into being, for the runs; the theorems hold
whatever it decides.

## 11. Not modelled

`PROJECT.json` gives the reason under each component.  In short:

* Propagation, terrain, antennas, path loss and the spherical geometry are
  floating point computation; the models have distances and tables in their place.
* Certificates, TLS, rate limits, request schemas and the batch routes decide
  before a handler runs and keep no state a property is about.
* Configuration, profiles, schema migrations, backups, metrics, command-line and
  compliance tools are not part of the service's behaviour.
* The order in which one handler's row locks are taken: `CbsdGrants` takes them in
  one step, and a deadlock the database breaks is its `Abort`.
* Of modelled components: blacklists and administrator flags, the status row of a
  PPA creation, the shortened transmit deadline near a DPA
  (`services/dpa_neighborhood.py:226`), DPAs that are always on, the aggregates the
  IAP engine reports, the headroom arithmetic of a request, FSS synchronisations that
  overlap each other, and several API processes with a ticker each.

----------------------------- MODULE FadExchange -----------------------------
(***************************************************************************)
(* Full Activity Dumps between two SASes that run this code: one builds    *)
(* and publishes dumps (services/fad_service.py) and serves them file by   *)
(* file (routes/sas_sas_routes.py), the other downloads, validates and     *)
(* stores them (services/fad_client_service.py).  A checksum is modelled   *)
(* as the body it is computed from.                                        *)
(***************************************************************************)
EXTENDS Integers, Sequences, FiniteSets, Functions

CONSTANTS
    Types,        \* RECORD_TYPES, a sequence
    Ids,          \* record ids of a type, a set of numbers (order_by id)
    InitialRecords,  \* what the tables may hold at the start
    PageSize,     \* SAS_FAD_MAX_RECORDS_PER_FILE
    MaxFiles,     \* MANIFEST_MAX_FILES
    Publishers,   \* requests and CPAS runs that create a dump
    Syncs,        \* sync_one_peer calls in flight
    None,
    MaxTime,      \* bound: seconds that pass
    MaxChanges,   \* bound: changes of the server's records
    MaxDumps,     \* bound: dumps created
    MaxFailures   \* bound: rollbacks and lost downloads, together

ASSUME FadAssumption ==
    /\ Types \in Seq(STRING)
    /\ PageSize \in Nat \ {0}
    /\ MaxFiles \in Nat /\ MaxTime \in Nat
    /\ Ids \subseteq Nat /\ IsFiniteSet(Ids)
    /\ InitialRecords \subseteq [{Types[i] : i \in DOMAIN Types} -> SUBSET Ids]
    /\ None \notin Nat \cup Publishers

VARIABLES
    \* the server
    now,        \* clock, at the resolution of generationDateTime
    records,    \* ids in the tables behind each record type
    dumps,      \* committed FadDump rows with their FadFile rows, by id
    published,  \* ids of the rows with published = TRUE
    draft,      \* per publisher: payload being built, and rows to unpublish
    fadLock,    \* the FAD advisory lock
    \* the client
    download,   \* per sync: the stamp it loaded, manifest, files fetched so far
    local,      \* PeerSas.last_fad_generation and the PeerFadRecord rows
    spent       \* bounds used so far

server == <<now, records, dumps, published, draft, fadLock>>
client == <<download, local>>
vars == <<server, client, spent>>

TypeNames == {Types[i] : i \in DOMAIN Types}

-----------------------------------------------------------------------------
(* _chunk_records: pages in id order, at least one and possibly empty.     *)
Pages(ids) ==
    LET rank(x) == Cardinality({y \in ids : y < x})
        count == (Cardinality(ids) + PageSize - 1) \div PageSize
    IN IF ids = {} THEN <<{}>>
       ELSE [k \in 1 .. count |-> {x \in ids : rank(x) \div PageSize = k - 1}]

(* _make_dump_file for the pages of one type.  The path is the same in     *)
(* every dump.                                                             *)
DumpFiles(type, ids, generation) ==
    LET pages == Pages(ids)
    IN [k \in 1 .. Len(pages) |->
          [path |-> <<type, k>>, time |-> generation, data |-> pages[k]]]

(* verify_ready_dump_integrity of a complete payload.                      *)
Verified(payload) ==
    /\ payload.files # <<>>
    /\ \A f \in Range(payload.files) : f.time = payload.generation
    /\ TypeNames \subseteq {f.path[1] : f \in Range(payload.files)}

(* What a dump says: its stamp and all its records.                        *)
Content(dump) ==
    [generation |-> dump.generation,
     records |-> UNION {{<<f.path[1], x>> : x \in f.data} : f \in Range(dump.files)}]

(* get_published_dump: the newest of the published rows.                   *)
CurrentDump == CHOOSE i \in published : \A j \in published : j <= i

(* get_dump_file_by_path, in the dump that is published now.               *)
Served(path) ==
    IF published = {} THEN {}
    ELSE {f \in Range(dumps[CurrentDump].files) : f.path = path}

Idle == [pc |-> "idle"]

Init ==
    /\ now = 0
    /\ records \in InitialRecords
    /\ dumps = <<>>
    /\ published = {}
    /\ draft = [p \in Publishers |-> Idle]
    /\ fadLock = None
    /\ download = [s \in Syncs |-> Idle]
    /\ local = [generation |-> None, records |-> {}]
    /\ spent = [changes |-> 0, dumps |-> 0, failures |-> 0]

Spend(kind, bound) ==
    /\ spent[kind] < bound
    /\ spent' = [spent EXCEPT ![kind] = @ + 1]

-----------------------------------------------------------------------------
TimePasses ==
    /\ now < MaxTime
    /\ now' = now + 1
    /\ UNCHANGED <<records, dumps, published, draft, fadLock, client, spent>>

(* A registration, a grant, an injection: a row appears or goes.           *)
RecordsChange ==
    /\ Spend("changes", MaxChanges)
    /\ \E t \in TypeNames, x \in Ids :
          records' = [records EXCEPT
              ![t] = IF x \in @ THEN @ \ {x} ELSE @ \cup {x}]
    /\ UNCHANGED <<now, dumps, published, draft, fadLock, client>>

(* create_full_activity_dump, by an administrator or by CPAS.              *)
BeginDump(p) ==
    /\ draft[p] = Idle
    /\ Spend("dumps", MaxDumps)
    /\ draft' = [draft EXCEPT ![p] =
          [pc |-> "build", generation |-> now, files |-> <<>>, built |-> 0]]
    /\ UNCHANGED <<now, records, dumps, published, fadLock, client>>

(* One query per record type, outside every lock.                          *)
BuildType(p) ==
    /\ draft[p].pc = "build"
    /\ draft[p].built < Len(Types)
    /\ LET d == draft[p]
           type == Types[d.built + 1]
       IN draft' = [draft EXCEPT ![p] =
            [pc |-> "build", generation |-> d.generation,
             files |-> d.files \o DumpFiles(type, records[type], d.generation),
             built |-> d.built + 1]]
    /\ UNCHANGED <<now, records, dumps, published, fadLock, client, spent>>

(* More files than a manifest may list: nothing is published.              *)
RefuseDump(p) ==
    /\ draft[p].pc = "build"
    /\ draft[p].built = Len(Types)
    /\ Len(draft[p].files) > MaxFiles
    /\ draft' = [draft EXCEPT ![p] = Idle]
    /\ UNCHANGED <<now, records, dumps, published, fadLock, client, spent>>

FlushUnlocked(p) ==
    /\ draft[p].pc = "build"
    /\ draft[p].built = Len(Types)
    /\ Len(draft[p].files) <= MaxFiles
    /\ draft' = [draft EXCEPT ![p] =
          [pc |-> "flushed", generation |-> draft[p].generation,
           files |-> draft[p].files, retires |-> published]]
    /\ UNCHANGED <<now, records, dumps, published, fadLock, client, spent>>

FlushAnySize(p) ==
    /\ draft[p].pc = "build"
    /\ draft[p].built = Len(Types)
    /\ fadLock = None
    /\ Verified(draft[p])
    /\ fadLock' = p
    /\ draft' = [draft EXCEPT ![p] =
          [pc |-> "flushed", generation |-> draft[p].generation,
           files |-> draft[p].files, retires |-> published]]
    /\ UNCHANGED <<now, records, dumps, published, client, spent>>

(* _publish_snapshot up to its flush: the lock, the rows, the integrity    *)
(* check, published = FALSE on the rows that this transaction sees.        *)
FlushDump(p) ==
    /\ draft[p].pc = "build"
    /\ draft[p].built = Len(Types)
    /\ Len(draft[p].files) <= MaxFiles
    /\ fadLock = None
    /\ Verified(draft[p])
    /\ fadLock' = p
    /\ draft' = [draft EXCEPT ![p] =
          [pc |-> "flushed", generation |-> draft[p].generation,
           files |-> draft[p].files, retires |-> published]]
    /\ UNCHANGED <<now, records, dumps, published, client, spent>>

(* Its commit, or that of the pipeline around it.  The index               *)
(* uq_fad_dumps_one_published admits no second published row.              *)
CommitDump(p) ==
    /\ draft[p].pc = "flushed"
    /\ published \subseteq draft[p].retires
    /\ dumps' = Append(dumps, [generation |-> draft[p].generation, files |-> draft[p].files])
    /\ published' = (published \ draft[p].retires) \cup {Len(dumps) + 1}
    /\ fadLock' = None
    /\ draft' = [draft EXCEPT ![p] = Idle]
    /\ UNCHANGED <<now, records, client, spent>>

(* An error, a crash or a later stage of CPAS rolls the dump back.         *)
RollbackDump(p) ==
    /\ draft[p].pc = "flushed"
    /\ Spend("failures", MaxFailures)
    /\ fadLock' = None
    /\ draft' = [draft EXCEPT ![p] = Idle]
    /\ UNCHANGED <<now, records, dumps, published, client>>

-----------------------------------------------------------------------------
Abandon(s) == download' = [download EXCEPT ![s] = Idle]

(* The peer's row is loaded into the session (run_peer_fad_sync), then GET *)
(* /dump of the manifest published now; 404 without one.                   *)
FetchManifest(s) ==
    /\ download[s] = Idle
    /\ published # {}
    /\ download' = [download EXCEPT ![s] =
          [pc |-> "files", was |-> local.generation,
           manifest |-> dumps[CurrentDump], files |-> <<>>]]
    /\ UNCHANGED <<server, local, spent>>

FetchFileByStamp(s) ==
    /\ download[s].pc = "files"
    /\ Len(download[s].files) < Len(download[s].manifest.files)
    /\ LET d == download[s]
           entry == d.manifest.files[Len(d.files) + 1]
           good == {f \in Served(entry.path) : f.time = d.manifest.generation}
       IN IF good = {} THEN Abandon(s)
          ELSE \E f \in good :
                  download' = [download EXCEPT ![s].files = Append(@, f)]
    /\ UNCHANGED <<server, local, spent>>

(* GET of the next file the manifest lists, served from the dump published *)
(* by then; its checksum and time must be those the manifest gives.        *)
FetchFile(s) ==
    /\ download[s].pc = "files"
    /\ Len(download[s].files) < Len(download[s].manifest.files)
    /\ LET d == download[s]
           entry == d.manifest.files[Len(d.files) + 1]
           good == {f \in Served(entry.path) : f = entry /\ f.time = d.manifest.generation}
       IN IF good = {} THEN Abandon(s)
          ELSE \E f \in good :
                  download' = [download EXCEPT ![s].files = Append(@, f)]
    /\ UNCHANGED <<server, local, spent>>

(* The peer is unreachable, answers an error, or the process dies; what    *)
(* was stored before stays.                                                *)
SyncFails(s) ==
    /\ download[s].pc = "files"
    /\ Spend("failures", MaxFailures)
    /\ Abandon(s)
    /\ UNCHANGED <<server, local>>

(* No record id twice among the files of a generation.                     *)
NoDuplicateIds(files) ==
    \A i, j \in DOMAIN files :
        i # j /\ files[i].path[1] = files[j].path[1] => files[i].data \cap files[j].data = {}

AppliedByStamp(was, snapshot) == was = snapshot.generation

(* peer_generation_already_applied: the stamp of the loaded row, the       *)
(* records that are stored now.                                            *)
AlreadyApplied(was, snapshot) ==
    was = snapshot.generation /\ local.records = snapshot.records

ReplacedWithoutDelete(was, snapshot) ==
    [generation |-> snapshot.generation, records |-> local.records \cup snapshot.records]

(* apply_peer_generation.  _lock_peer_row locks the row and returns the    *)
(* object loaded before the download, whose stamp is not read again; a     *)
(* stamp assigned the value it was loaded with is no UPDATE.               *)
Replaced(was, snapshot) ==
    IF was = snapshot.generation
      THEN [local EXCEPT !.records = snapshot.records]
      ELSE snapshot

(* The end of sync_one_peer, under the IAP lock and the peer row lock, in  *)
(* one commit: nothing, or the replacement of all records.                 *)
ApplyGeneration(s) ==
    /\ download[s].pc = "files"
    /\ Len(download[s].files) = Len(download[s].manifest.files)
    /\ LET d == download[s]
           snapshot == Content([generation |-> d.manifest.generation, files |-> d.files])
       IN local' = IF ~NoDuplicateIds(d.files) \/ AlreadyApplied(d.was, snapshot)
                     THEN local ELSE Replaced(d.was, snapshot)
    /\ Abandon(s)
    /\ UNCHANGED <<server, spent>>

-----------------------------------------------------------------------------
Create(p) == BeginDump(p) \/ BuildType(p) \/ RefuseDump(p) \/ FlushDump(p) \/ CommitDump(p)
Sync(s) == FetchManifest(s) \/ FetchFile(s) \/ ApplyGeneration(s)

Next ==
    \/ TimePasses
    \/ RecordsChange
    \/ \E p \in Publishers : Create(p) \/ RollbackDump(p)
    \/ \E s \in Syncs : Sync(s) \/ SyncFails(s)

Spec == Init /\ [][Next]_vars

(* CPAS synchronises its peers every day and a download goes on.           *)
FairSpec == Spec /\ \A s \in Syncs : WF_vars(Sync(s))

-----------------------------------------------------------------------------
(* The tables, drafts and downloads keep their types.                      *)
TypeOK ==
    /\ now \in 0 .. MaxTime
    /\ records \in [TypeNames -> SUBSET Ids]
    /\ published \subseteq DOMAIN dumps
    /\ fadLock \in Publishers \cup {None}
    /\ \A p \in Publishers : draft[p].pc \in {"idle", "build", "flushed"}
    /\ \A s \in Syncs : download[s].pc \in {"idle", "files"}
    /\ local.generation \in 0 .. MaxTime \cup {None}
    /\ local.records \subseteq TypeNames \X Ids
    /\ \A i \in DOMAIN dumps : Verified(dumps[i]) /\ Len(dumps[i].files) <= MaxFiles

(* "only one dump is published/current", from the first on always one, and *)
(* the publication in progress replaces just that one, so that concurrent  *)
(* publications wait and do not fail on the unique index.                  *)
OneCurrentDump ==
    /\ Cardinality(published) = (IF dumps = <<>> THEN 0 ELSE 1)
    /\ \A p \in Publishers : draft[p].pc = "flushed" => draft[p].retires = published

(* The manifest and the files of a download may come from dumps published  *)
(* one after the other, within one second even; the records stored are     *)
(* always those of one published dump, replaced as a whole, however many   *)
(* synchronisations overlap.                                               *)
RecordMirror ==
    INSTANCE FadMirror WITH
        Dumps <- SUBSET (TypeNames \X Ids),
        Nothing <- {},
        offered <- {Content(d).records : d \in Range(dumps)},
        mirror <- local.records
StoresWholeDumps == RecordMirror!Spec

(* They are stored under the stamp of that same dump, when synchronisations*)
(* follow one another, as those of one pipeline execution do.              *)
Mirror ==
    INSTANCE FadMirror WITH
        Dumps <- [generation : 0 .. MaxTime, records : SUBSET (TypeNames \X Ids)],
        Nothing <- [generation |-> None, records |-> {}],
        offered <- {Content(d) : d \in Range(dumps)},
        mirror <- local
StoresOnePublishedDump == Mirror!Spec

(* However many overlap, one whose stamp, loaded before the download, is   *)
(* still the stored one stores just the dump of its manifest, stamp and    *)
(* records, also over what two others mixed.  One that was overtaken may   *)
(* store older records under a newer stamp (fad_client_service.py:448).    *)
FreshSyncStoresItsDump ==
    [][\A s \in Syncs :
         (/\ local' # local
          /\ download'[s] # download[s]
          /\ download[s].was = local.generation)
         => local' = Content(download[s].manifest)]_vars

(* When the server has settled, what is stored becomes and stays the dump  *)
(* it publishes, also after a dump that reused the stamp of another.       *)
SyncCatchesUp ==
    <>[](published # {} => local = Content(dumps[CurrentDump]))
=============================================================================

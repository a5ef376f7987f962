------------------------- MODULE FadExchange_proof -------------------------
(***************************************************************************)
(* Proofs about FadExchange for any record types, ids, page size,          *)
(* publishers and synchronisations, and every bound: whatever the          *)
(* interleaving, one dump is current, and the records a client stores are  *)
(* those of one dump the server has published; without overlapping         *)
(* synchronisations they are stored under the stamp of that dump.          *)
(***************************************************************************)
EXTENDS FadExchange, FiniteSetTheorems, SequenceTheorems, TLAPS

FileType == [path : TypeNames \X Nat, time : 0 .. MaxTime, data : SUBSET Ids]
DumpType == [generation : 0 .. MaxTime, files : Seq(FileType)]

BuildDraft ==
    [pc : {"build"}, generation : 0 .. MaxTime, files : Seq(FileType), built : Nat]
FlushedDraft ==
    [pc : {"flushed"}, generation : 0 .. MaxTime, files : Seq(FileType), retires : SUBSET Nat]
Fetching ==
    [pc : {"files"}, was : 0 .. MaxTime \cup {None}, manifest : DumpType, files : Seq(FileType)]

(* Types of the server's and the client's state.                           *)
ServerShape ==
    /\ now \in 0 .. MaxTime
    /\ records \in [TypeNames -> SUBSET Ids]
    /\ dumps \in Seq(DumpType)
    /\ draft \in [Publishers -> {Idle} \cup BuildDraft \cup FlushedDraft]
    /\ fadLock \in Publishers \cup {None}
ClientShape ==
    /\ download \in [Syncs -> {Idle} \cup Fetching]
    /\ local \in [generation : 0 .. MaxTime \cup {None}, records : SUBSET (TypeNames \X Ids)]

(* The last dump is the current one, every dump is complete, and a flushed *)
(* draft, complete too, belongs to the holder of the lock and replaces     *)
(* what is current.                                                        *)
Complete(d) == Verified(d) /\ Len(d.files) <= MaxFiles
PublicationInv ==
    /\ published = IF dumps = <<>> THEN {} ELSE {Len(dumps)}
    /\ \A i \in DOMAIN dumps : Complete(dumps[i])
    /\ \A p \in Publishers : draft[p].pc = "flushed" =>
          fadLock = p /\ draft[p].retires = published /\ Complete(draft[p])

(* A download has taken its files, in order, from the dump of its          *)
(* manifest.                                                               *)
FollowsManifest(d) ==
    /\ d.manifest \in Range(dumps)
    /\ Len(d.files) <= Len(d.manifest.files)
    /\ \A k \in 1 .. Len(d.files) : d.files[k] = d.manifest.files[k]
DownloadInv == \A s \in Syncs : download[s].pc = "files" => FollowsManifest(download[s])

IInv == ServerShape /\ ClientShape /\ PublicationInv /\ DownloadInv

-----------------------------------------------------------------------------
(* A page holds ids of the table, and there is at least one                *)
(* (fad_service.py:281).                                                   *)
LEMMA PagesType ==
    ASSUME NEW ids \in SUBSET Ids
    PROVE  Pages(ids) \in Seq(SUBSET Ids)
<1> DEFINE count == (Cardinality(ids) + PageSize - 1) \div PageSize
           rank(x) == Cardinality({y \in ids : y < x})
<1>1. Cardinality(ids) \in Nat
    BY FadAssumption, FS_Subset, FS_CardinalityType
<1>2. count \in Nat
    BY <1>1, FadAssumption
<1>3. CASE ids = {}
    BY <1>3 DEF Pages
<1>4. CASE ids # {}
    <2>1. Pages(ids) = [k \in 1 .. count |-> {x \in ids : rank(x) \div PageSize = k - 1}]
        BY <1>4 DEF Pages
    <2>2. [k \in 1 .. count |-> {x \in ids : rank(x) \div PageSize = k - 1}]
             \in [1 .. count -> SUBSET Ids]
        OBVIOUS
    <2>3. \A n \in Nat : \A f \in [1 .. n -> SUBSET Ids] : f \in Seq(SUBSET Ids)
        OBVIOUS
    <2> HIDE DEF count, rank
    <2>4. QED
        BY <2>1, <2>2, <2>3, <1>2
<1>5. QED
    BY <1>3, <1>4

(* The files of one record type.                                           *)
LEMMA DumpFilesType ==
    ASSUME NEW type \in TypeNames, NEW ids \in SUBSET Ids, NEW generation \in 0 .. MaxTime
    PROVE  DumpFiles(type, ids, generation) \in Seq(FileType)
<1> DEFINE pages == Pages(ids)
<1>1. pages \in Seq(SUBSET Ids)
    BY PagesType
<1>2. Len(pages) \in Nat /\ \A k \in 1 .. Len(pages) : pages[k] \in SUBSET Ids
    BY <1>1
<1> HIDE DEF pages
<1> DEFINE file(k) == [path |-> <<type, k>>, time |-> generation, data |-> pages[k]]
<1>3. \A k \in 1 .. Len(pages) : file(k) \in FileType
    BY <1>2 DEF FileType
<1> HIDE DEF file
<1>4. [k \in 1 .. Len(pages) |-> file(k)] \in Seq(FileType)
    BY <1>2, <1>3
<1>5. QED
    BY <1>4 DEF DumpFiles, file, pages

(* The stamp and the records of a dump (fad_client_service.py:394).        *)
LEMMA ContentType ==
    ASSUME NEW d \in DumpType
    PROVE  Content(d) \in [generation : 0 .. MaxTime, records : SUBSET (TypeNames \X Ids)]
<1>1. d.generation \in 0 .. MaxTime /\ d.files \in Seq(FileType)
    BY DEF DumpType
<1>2. \A f \in Range(d.files) : f \in FileType
    BY <1>1, RangeOfSeq
<1>3. \A f \in Range(d.files) : {<<f.path[1], x>> : x \in f.data} \subseteq TypeNames \X Ids
    BY <1>2 DEF FileType
<1>4. UNION {{<<f.path[1], x>> : x \in f.data} : f \in Range(d.files)} \subseteq TypeNames \X Ids
    BY <1>3
<1>5. QED
    BY <1>1, <1>4 DEF Content

-----------------------------------------------------------------------------
(* The initial states.                                                     *)
LEMMA InitInv == Init => IInv
<1> SUFFICES ASSUME Init PROVE IInv
    OBVIOUS
<1>1. ServerShape
    <2>1. InitialRecords \subseteq [TypeNames -> SUBSET Ids]
        BY FadAssumption DEF TypeNames
    <2>2. QED
        BY <2>1, FadAssumption DEF Init, ServerShape
<1>2. ClientShape
    BY DEF Init, ClientShape
<1>3. PublicationInv
    BY DEF Init, PublicationInv, Idle
<1>4. DownloadInv
    BY DEF Init, DownloadInv, Idle
<1>5. QED
    BY <1>1, <1>2, <1>3, <1>4 DEF IInv

(* The dump that readers are given is the last one.                        *)
LEMMA CurrentIsLast ==
    ASSUME ServerShape, PublicationInv, published # {}
    PROVE  /\ Len(dumps) \in DOMAIN dumps
           /\ CurrentDump = Len(dumps)
<1>1. dumps # <<>> /\ published = {Len(dumps)} /\ dumps \in Seq(DumpType)
    BY DEF PublicationInv, ServerShape
<1>2. Len(dumps) \in DOMAIN dumps
    BY <1>1
<1>3. CurrentDump = Len(dumps)
    BY <1>1, <1>2 DEF CurrentDump
<1>4. QED
    BY <1>2, <1>3

-----------------------------------------------------------------------------
(* Steps of the server.                                                    *)

(* The clock and the tables.                                               *)
LEMMA EnvironmentStep ==
    ASSUME IInv, TimePasses \/ RecordsChange
    PROVE  IInv'
<1> USE DEF IInv, client, server
<1>1. CASE TimePasses
    <2>1. ServerShape'
        BY <1>1, FadAssumption DEF TimePasses, ServerShape
    <2>2. ClientShape' /\ PublicationInv' /\ DownloadInv'
        BY <1>1 DEF TimePasses, ClientShape, PublicationInv, DownloadInv, FollowsManifest
    <2>3. QED
        BY <2>1, <2>2
<1>2. CASE RecordsChange
    <2>1. ServerShape'
        BY <1>2 DEF RecordsChange, ServerShape
    <2>2. ClientShape' /\ PublicationInv' /\ DownloadInv'
        BY <1>2 DEF RecordsChange, ClientShape, PublicationInv, DownloadInv, FollowsManifest
    <2>3. QED
        BY <2>1, <2>2
<1>3. QED
    BY <1>1, <1>2

(* A publication up to its flush.                                          *)
LEMMA DraftStep ==
    ASSUME IInv, NEW p \in Publishers,
           BeginDump(p) \/ BuildType(p) \/ RefuseDump(p) \/ FlushDump(p) \/ RollbackDump(p)
    PROVE  IInv'
<1>0. ServerShape /\ ClientShape /\ PublicationInv /\ DownloadInv
    BY DEF IInv
<1>1. CASE BeginDump(p)
    <2>1. ServerShape'
        BY <1>0, <1>1 DEF BeginDump, ServerShape, BuildDraft
    <2>2. PublicationInv'
        BY <1>0, <1>1 DEF BeginDump, ServerShape, PublicationInv
    <2>3. ClientShape' /\ DownloadInv'
        BY <1>0, <1>1 DEF BeginDump, ClientShape, DownloadInv, FollowsManifest, client
    <2>4. QED
        BY <2>1, <2>2, <2>3 DEF IInv
<1>2. CASE BuildType(p)
    <2> DEFINE d == draft[p]
               type == Types[d.built + 1]
               more == DumpFiles(type, records[type], d.generation)
    <2>1. d \in BuildDraft
        BY <1>0, <1>2 DEF BuildType, ServerShape, Idle, FlushedDraft
    <2>2. d.built \in Nat /\ d.built + 1 \in DOMAIN Types /\ d.generation \in 0 .. MaxTime
            /\ d.files \in Seq(FileType)
        BY <1>2, <2>1, FadAssumption DEF BuildType, BuildDraft
    <2>3. type \in TypeNames /\ records[type] \in SUBSET Ids
        BY <1>0, <2>2 DEF TypeNames, ServerShape
    <2>4. more \in Seq(FileType)
        BY <2>2, <2>3, DumpFilesType
    <2>5. d.files \o more \in Seq(FileType)
        BY <2>2, <2>4
    <2> DEFINE files == d.files \o more
               next == [pc |-> "build", generation |-> d.generation,
                        files |-> files, built |-> d.built + 1]
    <2>6. draft' = [draft EXCEPT ![p] = next]
        BY <1>2 DEF BuildType, more
    <2> HIDE DEF files
    <2>7. next \in BuildDraft /\ next.pc = "build"
        <3>1. files \in Seq(FileType)
            BY <2>5 DEF files
        <3>2. QED
            BY <2>2, <3>1 DEF BuildDraft
    <2> HIDE DEF next
    <2>8. ServerShape'
        BY <1>0, <1>2, <2>6, <2>7 DEF BuildType, ServerShape
    <2>9. PublicationInv'
        BY <1>0, <1>2, <2>6, <2>7 DEF BuildType, ServerShape, PublicationInv
    <2>10. ClientShape' /\ DownloadInv'
        BY <1>0, <1>2 DEF BuildType, ClientShape, DownloadInv, FollowsManifest, client
    <2>11. QED
        BY <2>8, <2>9, <2>10 DEF IInv
<1>3. CASE RefuseDump(p) \/ RollbackDump(p)
    <2>1. ServerShape'
        BY <1>0, <1>3 DEF RefuseDump, RollbackDump, ServerShape
    <2>2. \A q \in Publishers : draft'[q].pc = "flushed" =>
             q # p /\ draft[q].pc = "flushed" /\ draft'[q] = draft[q] /\ fadLock = q
        BY <1>0, <1>3 DEF RefuseDump, RollbackDump, ServerShape, PublicationInv, Idle
    <2>3. ASSUME RefuseDump(p) PROVE PublicationInv'
        <3>1. UNCHANGED <<dumps, published>>
            BY <2>3 DEF RefuseDump
        <3>2. \A q \in Publishers : draft'[q].pc = "flushed" =>
                 draft'[q] = draft[q] /\ fadLock' = q
            BY <2>2, <2>3 DEF RefuseDump
        <3>3. \A q \in Publishers : draft'[q].pc = "flushed" =>
                 draft[q].retires = published /\ Complete(draft[q])
            BY <1>0, <2>2 DEF PublicationInv
        <3>4. \A i \in DOMAIN dumps : Complete(dumps[i])
            BY <1>0 DEF PublicationInv
        <3>5. published = IF dumps = <<>> THEN {} ELSE {Len(dumps)}
            BY <1>0 DEF PublicationInv
        <3>6. QED
            BY <3>1, <3>2, <3>3, <3>4, <3>5 DEF PublicationInv, Complete, Verified
    <2>4. ASSUME RollbackDump(p) PROVE PublicationInv'
        <3>1. \A q \in Publishers : draft'[q].pc # "flushed"
            BY <1>0, <2>2, <2>4 DEF RollbackDump, PublicationInv
        <3>2. UNCHANGED <<dumps, published>>
            BY <2>4 DEF RollbackDump
        <3>3. \A i \in DOMAIN dumps : Complete(dumps[i])
            BY <1>0 DEF PublicationInv
        <3>4. published = IF dumps = <<>> THEN {} ELSE {Len(dumps)}
            BY <1>0 DEF PublicationInv
        <3>5. QED
            BY <3>1, <3>2, <3>3, <3>4 DEF PublicationInv, Complete, Verified
    <2>5. ClientShape' /\ DownloadInv'
        BY <1>0, <1>3 DEF RefuseDump, RollbackDump, ClientShape, DownloadInv, FollowsManifest, client
    <2>6. PublicationInv'
        BY <1>3, <2>3, <2>4
    <2>7. QED
        BY <2>1, <2>5, <2>6 DEF IInv
<1>4. CASE FlushDump(p)
    <2> DEFINE d == draft[p]
    <2>1. d \in BuildDraft
        BY <1>0, <1>4 DEF FlushDump, ServerShape, Idle, FlushedDraft
    <2>2. published \in SUBSET Nat
        BY <1>0 DEF PublicationInv, ServerShape
    <2>3. ServerShape'
        BY <1>0, <1>4, <2>1, <2>2 DEF FlushDump, ServerShape, BuildDraft, FlushedDraft
    <2>4. \A q \in Publishers : draft[q].pc # "flushed"
        BY <1>0, <1>4, FadAssumption DEF FlushDump, PublicationInv
    <2>5. PublicationInv'
        BY <1>0, <1>4, <2>4 DEF FlushDump, ServerShape, PublicationInv, Complete, Verified
    <2>6. ClientShape' /\ DownloadInv'
        BY <1>0, <1>4 DEF FlushDump, ClientShape, DownloadInv, FollowsManifest, client
    <2>7. QED
        BY <2>3, <2>5, <2>6 DEF IInv
<1>5. QED
    BY <1>1, <1>2, <1>3, <1>4

(* The commit of a publication: the rows it replaces and the row it adds.  *)
LEMMA CommitStep ==
    ASSUME IInv, NEW p \in Publishers, CommitDump(p)
    PROVE  IInv'
<1>0. ServerShape /\ ClientShape /\ PublicationInv /\ DownloadInv
    BY DEF IInv
<1> DEFINE d == draft[p]
           row == [generation |-> d.generation, files |-> d.files]
<1>1. d \in FlushedDraft /\ fadLock = p /\ d.retires = published /\ Complete(d)
    <2>1. d.pc = "flushed"
        BY DEF CommitDump
    <2>2. d \in FlushedDraft
        BY <1>0, <2>1 DEF ServerShape, Idle, BuildDraft
    <2> HIDE DEF d
    <2>3. fadLock = p /\ d.retires = published /\ Complete(d)
        BY <1>0, <2>1 DEF PublicationInv, d
    <2>4. QED
        BY <2>2, <2>3
<1>2. row \in DumpType /\ Complete(row)
    BY <1>1 DEF FlushedDraft, DumpType, Complete, Verified
<1>3. dumps' = Append(dumps, row)
    BY DEF CommitDump
<1> HIDE DEF row
<1>4. /\ dumps' \in Seq(DumpType)
      /\ Len(dumps') = Len(dumps) + 1
      /\ dumps' # <<>>
      /\ DOMAIN dumps' = 1 .. Len(dumps) + 1
      /\ \A i \in 1 .. Len(dumps) : dumps'[i] = dumps[i]
      /\ dumps'[Len(dumps) + 1] = row
    BY <1>0, <1>2, <1>3 DEF ServerShape
<1>5. ServerShape'
    BY <1>0, <1>4 DEF CommitDump, ServerShape
<1>6. published' = {Len(dumps')}
    BY <1>1, <1>4 DEF CommitDump
<1>7. \A q \in Publishers : draft'[q].pc # "flushed"
    BY <1>0, <1>1 DEF CommitDump, ServerShape, PublicationInv, Idle
<1>8. \A i \in DOMAIN dumps' : Complete(dumps'[i])
    BY <1>0, <1>2, <1>4 DEF PublicationInv, ServerShape
<1>9. PublicationInv'
    BY <1>4, <1>6, <1>7, <1>8 DEF PublicationInv, Complete, Verified
<1>10. ClientShape'
    BY <1>0 DEF CommitDump, ClientShape, client
<1>11. Range(dumps) \subseteq Range(dumps')
    BY <1>0, <1>4 DEF Range, ServerShape
<1>12. DownloadInv'
    BY <1>0, <1>11 DEF CommitDump, client, DownloadInv, FollowsManifest
<1>13. QED
    BY <1>5, <1>9, <1>10, <1>12 DEF IInv

-----------------------------------------------------------------------------
(* Steps of a synchronisation.                                             *)

(* The manifest of the current dump.                                       *)
LEMMA ManifestStep ==
    ASSUME IInv, NEW s \in Syncs, FetchManifest(s)
    PROVE  IInv'
<1>0. ServerShape /\ ClientShape /\ PublicationInv /\ DownloadInv
    BY DEF IInv
<1> DEFINE new == [pc |-> "files", was |-> local.generation,
                   manifest |-> dumps[CurrentDump], files |-> <<>>]
<1>1. Len(dumps) \in DOMAIN dumps /\ CurrentDump = Len(dumps)
    BY <1>0, CurrentIsLast DEF FetchManifest
<1>2. dumps[CurrentDump] \in Range(dumps) /\ dumps[CurrentDump] \in DumpType
    BY <1>0, <1>1 DEF Range, ServerShape
<1>3. new \in Fetching
    BY <1>0, <1>2 DEF Fetching, ClientShape
<1>4. FollowsManifest(new)
    <2>1. dumps[CurrentDump].files \in Seq(FileType)
        BY <1>2 DEF DumpType
    <2>2. QED
        BY <1>2, <2>1 DEF FollowsManifest
<1>5. download' = [download EXCEPT ![s] = new]
    BY DEF FetchManifest
<1> HIDE DEF new
<1>6. ServerShape' /\ PublicationInv'
    BY <1>0 DEF FetchManifest, server, ServerShape, PublicationInv, Complete, Verified
<1>7. ClientShape'
    BY <1>0, <1>3, <1>5 DEF FetchManifest, ClientShape
<1>8. DownloadInv'
    BY <1>0, <1>4, <1>5 DEF FetchManifest, server, ClientShape, DownloadInv, FollowsManifest
<1>9. QED
    BY <1>6, <1>7, <1>8 DEF IInv

(* The next file, if it is the one that the manifest lists.                *)
LEMMA FileStep ==
    ASSUME IInv, NEW s \in Syncs, FetchFile(s)
    PROVE  IInv'
<1>0. ServerShape /\ ClientShape /\ PublicationInv /\ DownloadInv
    BY DEF IInv
<1> DEFINE d == download[s]
           entry == d.manifest.files[Len(d.files) + 1]
           good == {f \in Served(entry.path) : f = entry /\ f.time = d.manifest.generation}
           new == [d EXCEPT !.files = Append(d.files, entry)]
<1>1. d \in Fetching /\ FollowsManifest(d)
    <2>1. d.pc = "files"
        BY DEF FetchFile
    <2>2. d \in Fetching
        BY <1>0, <2>1 DEF ClientShape, Idle
    <2>3. QED
        BY <1>0, <2>1, <2>2 DEF DownloadInv
<1>2. d.files \in Seq(FileType) /\ d.manifest.files \in Seq(FileType)
        /\ Len(d.files) < Len(d.manifest.files)
    BY <1>1 DEF FetchFile, Fetching, DumpType
<1>3. entry \in FileType
    BY <1>2
<1>4. \/ download' = [download EXCEPT ![s] = Idle]
      \/ download' = [download EXCEPT ![s] = new]
    <2>1. ASSUME NEW f \in good PROVE f = entry
        OBVIOUS
    <2>2. \/ Abandon(s)
          \/ \E f \in good : download' = [download EXCEPT ![s].files = Append(@, f)]
        BY DEF FetchFile
    <2>3. ASSUME NEW f \in good, download' = [download EXCEPT ![s].files = Append(@, f)]
          PROVE  download' = [download EXCEPT ![s] = new]
        BY <2>1, <2>3
    <2>4. QED
        BY <2>2, <2>3 DEF Abandon
<1> HIDE DEF good
<1>5. new \in Fetching /\ FollowsManifest(new)
    <2>1. Append(d.files, entry) \in Seq(FileType)
        BY <1>2, <1>3
    <2>2. new \in Fetching
        BY <1>1, <2>1 DEF Fetching
    <2>3. new.manifest = d.manifest /\ new.files = Append(d.files, entry)
        BY <1>1 DEF Fetching
    <2>4. \A k \in 1 .. Len(new.files) : new.files[k] = d.manifest.files[k]
        <3>1. Len(new.files) = Len(d.files) + 1
            BY <1>2, <1>3, <2>3
        <3>2. \A k \in 1 .. Len(d.files) : new.files[k] = d.files[k]
            BY <1>2, <1>3, <2>3
        <3>3. new.files[Len(d.files) + 1] = entry
            BY <1>2, <1>3, <2>3
        <3>4. \A k \in 1 .. Len(d.files) : d.files[k] = d.manifest.files[k]
            BY <1>1 DEF FollowsManifest
        <3> DEFINE n == Len(d.files)
        <3>5. n \in Nat
            BY <1>2
        <3> HIDE DEF n
        <3>6. \A k \in 1 .. n + 1 : k \in 1 .. n \/ k = n + 1
            BY <3>5
        <3>7. QED
            BY <3>1, <3>2, <3>3, <3>4, <3>6 DEF n
    <2>5. QED
        BY <1>1, <1>2, <2>2, <2>3, <2>4 DEF FollowsManifest
<1> HIDE DEF new
<1>6. ServerShape' /\ PublicationInv'
    BY <1>0 DEF FetchFile, server, ServerShape, PublicationInv, Complete, Verified
<1>7. ClientShape'
    BY <1>0, <1>4, <1>5 DEF FetchFile, ClientShape
<1>8. DownloadInv'
    <2>1. \A t \in Syncs : download'[t].pc = "files" => FollowsManifest(download'[t])
        BY <1>0, <1>4, <1>5 DEF ClientShape, DownloadInv, Idle
    <2>2. dumps' = dumps
        BY DEF FetchFile, server
    <2>3. QED
        BY <2>1, <2>2 DEF DownloadInv, FollowsManifest
<1>9. QED
    BY <1>6, <1>7, <1>8 DEF IInv

(* An abandoned download, whatever for, changes nothing that is stored.    *)
LEMMA AbandonStep ==
    ASSUME IInv, NEW s \in Syncs, Abandon(s), UNCHANGED server, ClientShape'
    PROVE  IInv'
<1>0. ServerShape /\ ClientShape /\ PublicationInv /\ DownloadInv
    BY DEF IInv
<1>1. ServerShape' /\ PublicationInv'
    BY <1>0 DEF server, ServerShape, PublicationInv, Complete, Verified
<1>2. DownloadInv'
    BY <1>0 DEF Abandon, server, ClientShape, DownloadInv, FollowsManifest, Idle
<1>3. QED
    BY <1>1, <1>2 DEF IInv

(* A completed download is the dump of its manifest, so the commit         *)
(* replaces the records by those of a published dump or leaves what was    *)
(* there (fad_client_service.py:432).                                      *)
LEMMA ApplyStores ==
    ASSUME IInv, NEW s \in Syncs, ApplyGeneration(s)
    PROVE  /\ download[s] \in Fetching /\ download[s].manifest \in Range(dumps)
           /\ local' \in {local, Replaced(download[s].was, Content(download[s].manifest))}
<1>0. ServerShape /\ ClientShape /\ PublicationInv /\ DownloadInv
    BY DEF IInv
<1> DEFINE d == download[s]
           copy == [generation |-> d.manifest.generation, files |-> d.files]
<1>1. d.pc = "files" /\ Len(d.files) = Len(d.manifest.files)
    BY DEF ApplyGeneration
<1>2. d \in Fetching /\ FollowsManifest(d)
    <2>1. d \in Fetching
        BY <1>0, <1>1 DEF ClientShape, Idle
    <2>2. QED
        BY <1>0, <1>1, <2>1 DEF DownloadInv
<1>3. d.manifest \in DumpType /\ d.files \in Seq(FileType) /\ d.manifest.files \in Seq(FileType)
    BY <1>2 DEF Fetching, DumpType
<1>4. d.files = d.manifest.files
    BY <1>1, <1>2, <1>3, SeqEqual DEF FollowsManifest
<1>5. copy = d.manifest
    BY <1>3, <1>4 DEF DumpType
<1>6. d.manifest \in Range(dumps)
    BY <1>2 DEF FollowsManifest
<1>7. local' = local \/ local' = Replaced(d.was, Content(copy))
    BY DEF ApplyGeneration
<1>8. QED
    BY <1>2, <1>5, <1>6, <1>7

(* A stamp and records of the right types.                                 *)
LEMMA ReplacedType ==
    ASSUME ClientShape, NEW was, NEW d \in DumpType
    PROVE  /\ Replaced(was, Content(d))
                 \in [generation : 0 .. MaxTime \cup {None}, records : SUBSET (TypeNames \X Ids)]
           /\ Replaced(was, Content(d)).records = Content(d).records
<1>1. Content(d) \in [generation : 0 .. MaxTime, records : SUBSET (TypeNames \X Ids)]
    BY ContentType
<1>2. QED
    BY <1>1 DEF Replaced, ClientShape

(* The end of a synchronisation, well or badly.                            *)
LEMMA EndStep ==
    ASSUME IInv, NEW s \in Syncs, ApplyGeneration(s) \/ SyncFails(s)
    PROVE  IInv'
<1>0. ServerShape /\ ClientShape
    BY DEF IInv
<1>1. Abandon(s) /\ UNCHANGED server
    BY DEF ApplyGeneration, SyncFails
<1>2. download' \in [Syncs -> {Idle} \cup Fetching]
    BY <1>0, <1>1 DEF Abandon, ClientShape
<1>3. local' \in [generation : 0 .. MaxTime \cup {None}, records : SUBSET (TypeNames \X Ids)]
    <2>1. CASE SyncFails(s)
        BY <1>0, <2>1 DEF SyncFails, ClientShape
    <2>2. CASE ApplyGeneration(s)
        <3>1. \A d \in Range(dumps) : d \in DumpType
            BY <1>0 DEF ServerShape, Range
        <3>2. QED
            BY <1>0, <2>2, <3>1, ApplyStores, ReplacedType DEF ClientShape
    <2>3. QED
        BY <2>1, <2>2
<1>4. QED
    BY <1>1, <1>2, <1>3, AbandonStep DEF ClientShape

-----------------------------------------------------------------------------
(* The invariant holds in every reachable state.                           *)
THEOREM Invariance == Spec => []IInv
<1>1. Init => IInv
    BY InitInv
<1>2. IInv /\ [Next]_vars => IInv'
    <2> SUFFICES ASSUME IInv, [Next]_vars PROVE IInv'
        OBVIOUS
    <2>1. CASE TimePasses \/ RecordsChange
        BY <2>1, EnvironmentStep
    <2>2. ASSUME NEW p \in Publishers, Create(p) \/ RollbackDump(p)
          PROVE  IInv'
        BY <2>2, DraftStep, CommitStep DEF Create
    <2>3. ASSUME NEW s \in Syncs, Sync(s) \/ SyncFails(s)
          PROVE  IInv'
        BY <2>3, ManifestStep, FileStep, EndStep DEF Sync
    <2>4. CASE UNCHANGED vars
        BY <2>4 DEF vars, server, client, IInv, ServerShape, ClientShape, PublicationInv,
                    DownloadInv, FollowsManifest, Complete, Verified
    <2>5. QED
        BY <2>1, <2>2, <2>3, <2>4 DEF Next
<1>3. QED
    BY <1>1, <1>2, PTL DEF Spec

(* The tables, drafts and downloads keep their types; every stored dump is *)
(* complete and within MANIFEST_MAX_FILES.                                 *)
THEOREM TypeCorrect == Spec => []TypeOK
<1>1. IInv => TypeOK
    <2> SUFFICES ASSUME IInv PROVE TypeOK
        OBVIOUS
    <2>0. ServerShape /\ ClientShape /\ PublicationInv
        BY DEF IInv
    <2>1. published \subseteq DOMAIN dumps
        BY <2>0 DEF ServerShape, PublicationInv
    <2>2. \A p \in Publishers : draft[p].pc \in {"idle", "build", "flushed"}
        BY <2>0 DEF ServerShape, Idle, BuildDraft, FlushedDraft
    <2>3. \A s \in Syncs : download[s].pc \in {"idle", "files"}
        BY <2>0 DEF ClientShape, Idle, Fetching
    <2>4. QED
        BY <2>0, <2>1, <2>2, <2>3 DEF TypeOK, ServerShape, ClientShape, PublicationInv, Complete
<1>2. QED
    BY <1>1, Invariance, PTL

(* From the first publication on one dump is current, and a publication    *)
(* that is about to commit replaces exactly that one, so that the unique   *)
(* index never refuses it.                                                 *)
THEOREM OneCurrent == Spec => []OneCurrentDump
<1>1. IInv => OneCurrentDump
    <2> SUFFICES ASSUME IInv PROVE OneCurrentDump
        OBVIOUS
    <2>1. PublicationInv
        BY DEF IInv
    <2>2. Cardinality(published) = (IF dumps = <<>> THEN 0 ELSE 1)
        BY <2>1, FS_EmptySet, FS_Singleton DEF PublicationInv
    <2>3. QED
        BY <2>1, <2>2 DEF OneCurrentDump, PublicationInv
<1>2. QED
    BY <1>1, Invariance, PTL

-----------------------------------------------------------------------------
(* A commit offers one dump more.                                          *)
LEMMA CommitOffers ==
    ASSUME IInv, NEW p \in Publishers, CommitDump(p)
    PROVE  Mirror!Offer /\ RecordMirror!Offer
<1>0. ServerShape
    BY DEF IInv
<1> DEFINE row == [generation |-> draft[p].generation, files |-> draft[p].files]
<1>1. dumps' = Append(dumps, row) /\ UNCHANGED local
    BY DEF CommitDump, client
<1>2. row \in DumpType
    <2>1. draft[p] \in FlushedDraft
        BY <1>0 DEF CommitDump, ServerShape, Idle, BuildDraft
    <2>2. QED
        BY <2>1 DEF FlushedDraft, DumpType
<1>3. Content(row) \in [generation : 0 .. MaxTime, records : SUBSET (TypeNames \X Ids)]
    BY <1>2, ContentType
<1> HIDE DEF row
<1>4. Range(dumps') = Range(dumps) \cup {row}
    BY <1>0, <1>1, <1>2, AppendProperties DEF Range, ServerShape
<1>5. {Content(d) : d \in Range(dumps')} = {Content(d) : d \in Range(dumps)} \cup {Content(row)}
    BY <1>4
<1>6. {Content(d).records : d \in Range(dumps')}
        = {Content(d).records : d \in Range(dumps)} \cup {Content(row).records}
    BY <1>4
<1>7. Mirror!Offer
    BY <1>1, <1>3, <1>5 DEF Mirror!Offer
<1>8. RecordMirror!Offer
    BY <1>1, <1>3, <1>6 DEF RecordMirror!Offer
<1>9. QED
    BY <1>7, <1>8

(* Every step but a publication's commit and the end of a synchronisation  *)
(* is invisible to the promise.                                            *)
LEMMA Visible ==
    ASSUME [Next]_vars
    PROVE  \/ UNCHANGED <<dumps, local>>
           \/ \E p \in Publishers : CommitDump(p)
           \/ \E s \in Syncs : ApplyGeneration(s)
<1>1. CASE TimePasses \/ RecordsChange \/ UNCHANGED vars
    BY <1>1 DEF TimePasses, RecordsChange, vars, server, client
<1>2. ASSUME NEW p \in Publishers,
             BeginDump(p) \/ BuildType(p) \/ RefuseDump(p) \/ FlushDump(p) \/ RollbackDump(p)
      PROVE  UNCHANGED <<dumps, local>>
    BY <1>2 DEF BeginDump, BuildType, RefuseDump, FlushDump, RollbackDump, client
<1>3. ASSUME NEW s \in Syncs, FetchManifest(s) \/ FetchFile(s) \/ SyncFails(s)
      PROVE  UNCHANGED <<dumps, local>>
    BY <1>3 DEF FetchManifest, FetchFile, SyncFails, server
<1>4. QED
    BY <1>1, <1>2, <1>3 DEF Next, Create, Sync

(* The records of its peer that a SAS stores are none or, whole, those of  *)
(* one dump that the peer has published, however many synchronisations     *)
(* overlap (fad_client_service.py:432-450).                                *)
THEOREM WholeDumps == Spec => StoresWholeDumps
<1>1. Init => RecordMirror!Init
    BY DEF Init, RecordMirror!Init, Range
<1>2. ASSUME IInv, [Next]_vars
      PROVE  [RecordMirror!Offer \/ RecordMirror!Take]_<<
                 {Content(d).records : d \in Range(dumps)}, local.records>>
    <2>1. CASE UNCHANGED <<dumps, local>>
        BY <2>1
    <2>2. ASSUME NEW s \in Syncs, ApplyGeneration(s)
          PROVE  \/ UNCHANGED <<dumps, local.records>>
                 \/ RecordMirror!Take
        <3>1. UNCHANGED dumps
            BY <2>2 DEF ApplyGeneration, server
        <3>2. \A d \in Range(dumps) :
                 Replaced(download[s].was, Content(d)).records = Content(d).records
            <4>1. ClientShape /\ \A d \in Range(dumps) : d \in DumpType
                BY <1>2 DEF IInv, ServerShape, Range
            <4>2. QED
                BY <4>1, ReplacedType
        <3>3. local'.records \in {local.records} \cup {Content(d).records : d \in Range(dumps)}
            BY <1>2, <2>2, <3>2, ApplyStores
        <3>4. QED
            BY <3>1, <3>3 DEF RecordMirror!Take
    <2>3. QED
        BY <1>2, <2>1, <2>2, CommitOffers, Visible
<1>3. QED
    BY <1>1, <1>2, Invariance, PTL DEF Spec, StoresWholeDumps, RecordMirror!Spec

(* Property FreshSyncStoresItsDump: a synchronisation that nobody overtook *)
(* stores stamp and records of the dump it downloaded, whatever was stored *)
(* (fad_client_service.py:432-458).                                        *)
THEOREM FreshSyncs == Spec => FreshSyncStoresItsDump
<1>1. ASSUME IInv, [Next]_vars
      PROVE  [\A s \in Syncs :
                (/\ local' # local
                 /\ download'[s] # download[s]
                 /\ download[s].was = local.generation)
                => local' = Content(download[s].manifest)]_vars
    <2> SUFFICES ASSUME NEW s \in Syncs, local' # local, download'[s] # download[s],
                        download[s].was = local.generation
                 PROVE  local' = Content(download[s].manifest)
        OBVIOUS
    <2>1. ClientShape /\ \A d \in Range(dumps) : d \in DumpType
        BY <1>1 DEF IInv, ServerShape, Range
    <2>2. ApplyGeneration(s)
        <3>1. PICK t \in Syncs : ApplyGeneration(t)
            BY <1>1, Visible DEF CommitDump, client
        <3>2. Abandon(t)
            BY <3>1 DEF ApplyGeneration
        <3>3. QED
            BY <2>1, <3>1, <3>2 DEF Abandon, ClientShape
    <2>3. Content(download[s].manifest)
             \in [generation : 0 .. MaxTime, records : SUBSET (TypeNames \X Ids)]
        BY <1>1, <2>1, <2>2, ApplyStores, ContentType
    <2>4. local' = Replaced(download[s].was, Content(download[s].manifest))
        BY <1>1, <2>2, ApplyStores
    <2>5. QED
        BY <2>1, <2>3, <2>4 DEF Replaced, ClientShape
<1>2. QED
    BY <1>1, Invariance, PTL DEF Spec, FreshSyncStoresItsDump

-----------------------------------------------------------------------------
(* Synchronisations of one pipeline execution follow one another.          *)
OneSync == \A s, t \in Syncs : s = t

(* Then the stamp a synchronisation has loaded is the stored one.          *)
FreshStamp ==
    \A s \in Syncs : download[s].pc = "files" => download[s].was = local.generation

LEMMA FreshStep ==
    ASSUME OneSync, IInv, FreshStamp, [Next]_vars
    PROVE  FreshStamp'
<1>0. ClientShape
    BY DEF IInv
<1>1. CASE TimePasses \/ RecordsChange \/ UNCHANGED vars
    BY <1>1 DEF TimePasses, RecordsChange, vars, client, FreshStamp
<1>2. ASSUME NEW p \in Publishers, Create(p) \/ RollbackDump(p)
      PROVE  FreshStamp'
    <2>1. UNCHANGED client
        BY <1>2 DEF Create, BeginDump, BuildType, RefuseDump, FlushDump, CommitDump, RollbackDump
    <2>2. QED
        BY <2>1 DEF client, FreshStamp
<1>3. ASSUME NEW s \in Syncs, FetchManifest(s)
      PROVE  FreshStamp'
    BY <1>0, <1>3 DEF FetchManifest, ClientShape, FreshStamp
<1>4. ASSUME NEW s \in Syncs, FetchFile(s)
      PROVE  FreshStamp'
    <2>1. UNCHANGED local
        BY <1>4 DEF FetchFile
    <2>2. \/ Abandon(s)
          \/ \E f : download' = [download EXCEPT ![s].files = Append(@, f)]
        BY <1>4 DEF FetchFile
    <2>3. CASE Abandon(s)
        BY <1>0, <2>1, <2>3 DEF Abandon, ClientShape, FreshStamp, Idle
    <2>4. ASSUME NEW f, download' = [download EXCEPT ![s].files = Append(@, f)]
          PROVE  FreshStamp'
        <3>1. download[s] \in Fetching
            BY <1>0, <1>4 DEF FetchFile, ClientShape, Idle
        <3>2. download'[s].was = download[s].was /\ download[s].pc = "files"
            BY <1>0, <2>4, <3>1 DEF ClientShape, Fetching
        <3>3. \A t \in Syncs : t # s => download'[t] = download[t]
            BY <1>0, <2>4 DEF ClientShape
        <3>4. QED
            BY <2>1, <3>2, <3>3 DEF FreshStamp
    <2>5. QED
        BY <2>2, <2>3, <2>4
<1>5. ASSUME NEW s \in Syncs, ApplyGeneration(s) \/ SyncFails(s)
      PROVE  FreshStamp'
    <2>1. Abandon(s)
        BY <1>5 DEF ApplyGeneration, SyncFails
    <2>2. \A t \in Syncs : t = s
        BY DEF OneSync
    <2>3. QED
        BY <1>0, <2>1, <2>2 DEF Abandon, ClientShape, FreshStamp, Idle
<1>6. QED
    BY <1>1, <1>2, <1>3, <1>4, <1>5 DEF Next, Sync

(* One synchronisation after the other: what a SAS stores of its peer is   *)
(* nothing or, whole and under its own stamp, one dump that the peer has   *)
(* published.  Two that overlap may store an older dump under a newer      *)
(* stamp (fad_client_service.py:446-458).                                  *)
THEOREM Refinement == OneSync => (Spec => StoresOnePublishedDump)
<1> SUFFICES ASSUME OneSync PROVE Spec => StoresOnePublishedDump
    OBVIOUS
<1>1. Init => Mirror!Init
    BY DEF Init, Mirror!Init, Range
<1>2. Init => FreshStamp
    BY DEF Init, FreshStamp, Idle
<1>3. IInv /\ FreshStamp /\ [Next]_vars => FreshStamp'
    BY FreshStep
<1>4. ASSUME IInv, FreshStamp, [Next]_vars
      PROVE  [Mirror!Offer \/ Mirror!Take]_<<{Content(d) : d \in Range(dumps)}, local>>
    <2>1. CASE UNCHANGED <<dumps, local>>
        BY <2>1
    <2>2. ASSUME NEW s \in Syncs, ApplyGeneration(s)
          PROVE  UNCHANGED <<dumps, local>> \/ Mirror!Take
        <3>1. UNCHANGED dumps
            BY <2>2 DEF ApplyGeneration, server
        <3>2. download[s].was = local.generation
            BY <1>4, <2>2 DEF ApplyGeneration, FreshStamp
        <3>3. \A d \in Range(dumps) : Replaced(download[s].was, Content(d)) = Content(d)
            <4>1. ClientShape /\ \A d \in Range(dumps) : d \in DumpType
                BY <1>4 DEF IInv, ServerShape, Range
            <4>2. \A d \in Range(dumps) : Content(d)
                     \in [generation : 0 .. MaxTime, records : SUBSET (TypeNames \X Ids)]
                BY <4>1, ContentType
            <4>3. QED
                BY <3>2, <4>1, <4>2 DEF Replaced, ClientShape
        <3>4. QED
            BY <1>4, <2>2, <3>1, <3>3, ApplyStores DEF Mirror!Take
    <2>3. QED
        BY <1>4, <2>1, <2>2, CommitOffers, Visible
<1>5. QED
    BY <1>1, <1>2, <1>3, <1>4, Invariance, PTL DEF Spec, StoresOnePublishedDump, Mirror!Spec
=============================================================================

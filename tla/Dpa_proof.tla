------------------------------ MODULE Dpa_proof -----------------------------
(***************************************************************************)
(* Proofs about Dpa: for any DPAs, channels, grants and any number of      *)
(* overlapping transactions, rows stay well formed and an activation made  *)
(* by hand is lost only to a deactivation, a reload or a schedule that     *)
(* once named it.                                                          *)
(***************************************************************************)
EXTENDS Dpa, WellFoundedInduction, TLAPS

(***************************************************************************)
(* The inductive invariant.  A commit applies what was decided from a      *)
(* table read some steps earlier; what stays true of it, whatever commits  *)
(* in between, is said of the keys it names and not of the rows.           *)
(***************************************************************************)
(* Rows that a schedule owns are on channels a schedule has named.         *)
Marked(table, keys) == \A r \in table : r.source = "scheduled_dpa" => r.key \in keys

(* Well formed rows move only grants that overlap their channel.           *)
RowsOK(table) ==
    /\ table \subseteq RowType
    /\ \A r \in table : \A g \in r.movelist : OverlapsKey(g, r.key)

EvaluationOK(evaluated) ==
    /\ DOMAIN evaluated \subseteq AllKeys
    /\ \A key \in DOMAIN evaluated : evaluated[key] \subseteq OverlappedBy(key, Grants)

(* The channels a transaction will have named in a schedule.               *)
Schedules(t) == scheduled \cup (IF t.kind = "schedule" THEN t.keys ELSE {})

(* The channels of rows a transaction may delete.                          *)
MayDelete(t) ==
    {key \in AllKeys : \/ t.kind \in {"load", "clear"}
                       \/ t.kind = "deactivate" /\ key \in t.keys
                       \/ t.kind = "schedule" /\ key \in scheduled}

TxnOK(t) ==
    t.open =>
       /\ t.op \in 1 .. MaxOps
       /\ t.catalogue = None \/ t.catalogue \subseteq DpaIds
       /\ RowsOK(t.puts) /\ Marked(t.puts, Schedules(t))
       /\ EvaluationOK(t.evaluated)
       /\ \A id \in t.doomed : id[1] \in MayDelete(t)
       /\ t.kind = "activate" => t.keys \subseteq KeysIn(t.puts)

IInv ==
    /\ TypeOK
    /\ UnscheduledActivationsRetained
    /\ Marked(rows, scheduled)
    /\ DOMAIN session = Sessions
    /\ \A s \in Sessions : TxnOK(session[s])

(***************************************************************************)
(* The table operators.                                                    *)
(***************************************************************************)
LEMMA KeysOfDpas ==
    ASSUME NEW dpas \in SUBSET DpaIds
    PROVE  Keys(dpas) \subseteq AllKeys
  BY DEF Keys, AllKeys

(* The scan meets a row whenever there is one.                             *)
LEMMA FirstRowExists ==
    ASSUME NEW table, table \subseteq RowType, NEW key \in KeysIn(table)
    PROVE  FirstRow(table, key) \in table /\ FirstRow(table, key).key = key
<1> DEFINE births == {r.born : r \in {q \in table : q.key = key}}
<1>1. births # {} /\ births \subseteq Nat
  BY DEF KeysIn, RowType
<1>2. PICK n \in births : \A m \in births : n <= m
  <2> HIDE DEF births
  <2>1. PICK k \in births : \A m \in births : <<m, k>> \notin OpToRel(<, Nat)
    BY <1>1, WFMin, NatLessThanWellFounded, Zenon
  <2>2. \A m \in births : ~(m < k)
    BY <1>1, <2>1, Zenon DEF OpToRel
  <2>3. \A m \in births : k <= m
    BY <1>1, <2>2
  <2> QED BY <2>3
<1>3. PICK r \in table : r.key = key /\ r.born = n
  BY <1>2
<1>4. \A q \in table : q.key = key => r.born <= q.born
  BY <1>2, <1>3
<1> QED BY <1>3, <1>4 DEF FirstRow

(* An upsert yields a row of its key, which is a schedule's only if the    *)
(* schedule writes it or owned a row of that key.                          *)
LEMMA UpsertedRow ==
    ASSUME NEW table, table \subseteq RowType, NEW key \in AllKeys, NEW op \in 1 .. MaxOps,
           NEW movelist \in SUBSET Grants, NEW source \in {None, "scheduled_dpa"}
    PROVE  LET r == Upserted(table, key, op, movelist, source)
           IN  /\ r \in RowType /\ r.key = key /\ r.movelist = movelist
               /\ r.source = "scheduled_dpa" =>
                     \/ source = "scheduled_dpa"
                     \/ \E q \in table : q.key = key /\ q.source = "scheduled_dpa"
<1>1. CASE key \notin KeysIn(table)
  BY <1>1 DEF Upserted, Row, RowType
<1>2. CASE key \in KeysIn(table)
  <2> DEFINE f == FirstRow(table, key)
  <2>1. f \in table /\ f.key = key /\ f \in RowType
    BY <1>2, FirstRowExists
  <2> HIDE DEF f
  <2>2. Upserted(table, key, op, movelist, source)
           = Row(key, f.born, movelist, IF source = None THEN f.source ELSE source)
    BY <1>2 DEF Upserted, f
  <2> QED BY <2>1, <2>2 DEF Row, RowType
<1> QED BY <1>1, <1>2

(* An overwritten table has the rows and the channels of both.             *)
LEMMA OverwriteRows ==
    ASSUME NEW table, NEW written
    PROVE  /\ Overwrite(table, written) \subseteq table \cup written
           /\ KeysIn(Overwrite(table, written)) = KeysIn(table) \cup KeysIn(written)
<1>1. Overwrite(table, written) \subseteq table \cup written
  BY DEF Overwrite
<1>2. ASSUME NEW r \in table, r \notin Overwrite(table, written)
      PROVE  r.key \in KeysIn(written)
  <2>1. PICK w \in written : RowId(w) = RowId(r)
    BY <1>2 DEF Overwrite
  <2> QED BY <2>1 DEF RowId, KeysIn
<1>3. written \subseteq Overwrite(table, written)
  BY DEF Overwrite
<1> QED BY <1>1, <1>2, <1>3 DEF KeysIn

(* Refreshing move lists keeps the table in order and every channel in it. *)
LEMMA RefreshKeeps ==
    ASSUME NEW table, RowsOK(table), NEW keys, Marked(table, keys),
           NEW evaluated, EvaluationOK(evaluated), NEW op \in 1 .. MaxOps
    PROVE  LET after == RefreshRows(table, evaluated, op)
           IN  RowsOK(after) /\ Marked(after, keys) /\ KeysIn(table) \subseteq KeysIn(after)
<1> DEFINE written == {Upserted(table, key, op, evaluated[key], None) : key \in DOMAIN evaluated}
<1>1. ASSUME NEW w \in written
      PROVE  /\ w \in RowType /\ \A g \in w.movelist : OverlapsKey(g, w.key)
             /\ w.source = "scheduled_dpa" => w.key \in keys
  <2>1. PICK key \in DOMAIN evaluated : w = Upserted(table, key, op, evaluated[key], None)
    OBVIOUS
  <2>2. /\ key \in AllKeys /\ evaluated[key] \in SUBSET Grants
        /\ \A g \in evaluated[key] : OverlapsKey(g, key)
    BY DEF EvaluationOK, OverlappedBy
  <2>3. table \subseteq RowType /\ None # "scheduled_dpa"
    BY DpaAssumption DEF RowsOK
  <2>4. /\ w \in RowType /\ w.key = key /\ w.movelist = evaluated[key]
        /\ w.source = "scheduled_dpa" => \E q \in table : q.key = key /\ q.source = "scheduled_dpa"
    BY <2>1, <2>2, <2>3, UpsertedRow
  <2> QED BY <2>2, <2>4 DEF Marked
<1>2. RefreshRows(table, evaluated, op) = Overwrite(table, written)
  BY DEF RefreshRows
<1> HIDE DEF written
<1> QED BY <1>1, <1>2, OverwriteRows DEF RowsOK, Marked

(* What a refresh may have evaluated.                                      *)
LEMMA EvaluationsOK ==
    ASSUME NEW keys \in SUBSET AllKeys, NEW evaluated \in Evaluations(keys, Active)
    PROVE  EvaluationOK(evaluated)
  BY DEF Evaluations, EvaluationOK, OverlappedBy, Active

(* What a refresh of the move lists may compute is an evaluation.          *)
LEMMA RefreshesOK ==
    ASSUME NEW dpas \in SUBSET DpaIds, NEW table, NEW keys \in SUBSET AllKeys,
           NEW evaluated \in Refreshes(dpas, table, keys)
    PROVE  EvaluationOK(evaluated)
<1>1. Evaluable(dpas, table) \in SUBSET AllKeys
  BY KeysOfDpas DEF Evaluable
<1>2. CASE evaluated \in Evaluations(Evaluable(dpas, table), Active)
  BY <1>1, <1>2, EvaluationsOK
<1>3. CASE evaluated = [key \in keys |-> OverlappedBy(key, Active)]
  BY <1>3 DEF EvaluationOK, OverlappedBy, Active
<1> QED BY <1>2, <1>3 DEF Refreshes

(***************************************************************************)
(* Operations open transactions in good order.                             *)
(***************************************************************************)
LEMMA OpenKeeps ==
    ASSUME IInv, NEW s \in Sessions, NEW txn, txn.open, Open(s, txn),
           ops < MaxOps => TxnOK(txn)
    PROVE  IInv'
<1>1. /\ ops < MaxOps /\ ops' = ops + 1 /\ session' = [session EXCEPT ![s] = txn]
      /\ UNCHANGED <<tables, esc, grantState, history>>
  BY DEF Open
<1>2. UNCHANGED <<catalogue, rows, esc, terminated, heartbeat, left, asked, scheduled>>
  BY <1>1 DEF tables, grantState, history
<1>3. /\ DOMAIN session' = Sessions /\ session'[s] = txn
      /\ \A q \in Sessions \ {s} : session'[q] = session[q]
  BY <1>1 DEF IInv
<1>4. ops' \in 0 .. MaxOps
  BY <1>1, DpaAssumption DEF IInv, TypeOK
<1>5. TxnOK(txn) /\ txn.puts \subseteq RowType
  BY <1>1 DEF TxnOK, RowsOK
<1>6. \A q \in Sessions : session'[q].open => session'[q].puts \subseteq RowType
  BY <1>3, <1>5 DEF IInv, TypeOK
<1>7. TypeOK'
  BY <1>2, <1>4, <1>6 DEF IInv, TypeOK
<1>8. UnscheduledActivationsRetained' /\ Marked(rows, scheduled)'
  BY <1>2 DEF IInv, UnscheduledActivationsRetained, Marked
<1>9. \A q \in Sessions : TxnOK(session[q])'
  BY <1>2, <1>3, <1>5 DEF IInv, TxnOK, Schedules, MayDelete, Marked
<1> QED BY <1>3, <1>7, <1>8, <1>9 DEF IInv

(* The fields of a new transaction; its operation number is in range.      *)
LEMMA NewTxn ==
    ASSUME IInv, ops < MaxOps, NEW kind, NEW doomed, NEW puts, NEW dpas, NEW evaluated,
           NEW keys
    PROVE  LET t == Txn(kind, doomed, puts, dpas, evaluated, keys)
           IN  /\ t.open /\ t.op = ops + 1 /\ t.op \in 1 .. MaxOps
               /\ t.kind = kind /\ t.doomed = doomed /\ t.puts = puts
               /\ t.catalogue = dpas /\ t.evaluated = evaluated /\ t.keys = keys
  BY DpaAssumption DEF IInv, TypeOK, Txn

(* Not refreshing is an evaluation, too.                                   *)
LEMMA NoRefreshOK == EvaluationOK(NoRefresh)
  BY DEF EvaluationOK, NoRefresh
(* No rows are in order and on marked channels only.                       *)
LEMMA NoRowsOK == RowsOK({}) /\ \A keys : Marked({}, keys)
  BY DEF RowsOK, Marked

(* The new rows of a load.                                                 *)
LEMMA FreshRowsOK ==
    ASSUME IInv, ops < MaxOps, NEW dpas \in SUBSET DpaIds
    PROVE  LET puts == {Row(key, ops + 1, {}, None) : key \in Keys(dpas)}
           IN  RowsOK(puts) /\ \A keys : Marked(puts, keys)
<1>1. ops + 1 \in 1 .. MaxOps /\ None # "scheduled_dpa"
  BY DpaAssumption DEF IInv, TypeOK
<1> QED BY <1>1, KeysOfDpas DEF Row, RowsOK, RowType, Marked

(* Opening a reload of the catalogue or a bulk activation or deactivation  *)
(* keeps the invariant.                                                    *)
LEMMA LoadKeeps ==
    ASSUME IInv, NEW s \in Sessions, OpenLoad(s) \/ OpenBulkOn(s) \/ OpenBulkOff(s)
    PROVE  IInv'
<1>1. rows \subseteq RowType /\ catalogue \subseteq DpaIds
  BY DEF IInv, TypeOK
<1>2. \A id \in {RowId(r) : r \in rows} : id[1] \in AllKeys
  BY <1>1 DEF RowId, RowType
<1>3. ASSUME NEW kind \in {"load", "clear"}, NEW puts, NEW dpas,
             dpas = None \/ dpas \subseteq DpaIds, RowsOK(puts), \A keys : Marked(puts, keys),
             ops < MaxOps
      PROVE  /\ TxnOK(Txn(kind, {RowId(r) : r \in rows}, puts, dpas, NoRefresh, {}))
             /\ Txn(kind, {RowId(r) : r \in rows}, puts, dpas, NoRefresh, {}).open
  BY <1>2, <1>3, NewTxn, NoRefreshOK DEF TxnOK, MayDelete
<1>4. CASE OpenLoad(s)
  <2>1. PICK dpas \in SUBSET DpaIds \ {{}} :
           Open(s, Txn("load", {RowId(r) : r \in rows},
                       {Row(key, ops + 1, {}, None) : key \in Keys(dpas)},
                       dpas, NoRefresh, {}))
    BY <1>4 DEF OpenLoad
  <2>2. ops < MaxOps
    BY <2>1 DEF Open
  <2> QED BY <1>3, <2>1, <2>2, FreshRowsOK, OpenKeeps
<1>5. CASE OpenBulkOn(s)
  <2>1. Open(s, Txn("load", {RowId(r) : r \in rows},
                    {Row(key, ops + 1, {}, None) : key \in Keys(catalogue)},
                    None, NoRefresh, {}))
    BY <1>5 DEF OpenBulkOn
  <2>2. ops < MaxOps
    BY <2>1 DEF Open
  <2> QED BY <1>1, <1>3, <2>1, <2>2, FreshRowsOK, OpenKeeps
<1>6. CASE OpenBulkOff(s)
  <2>1. Open(s, Txn("clear", {RowId(r) : r \in rows}, {}, None, NoRefresh, {}))
    BY <1>6 DEF OpenBulkOff
  <2>2. ops < MaxOps
    BY <2>1 DEF Open
  <2> QED BY <1>3, <2>1, <2>2, NoRowsOK, OpenKeeps
<1> QED BY <1>4, <1>5, <1>6

(* A channel activated by hand: its row, and the refresh of all rows.      *)
LEMMA ActivateKeeps ==
    ASSUME IInv, NEW s \in Sessions, OpenActivate(s)
    PROVE  IInv'
<1>1. rows \subseteq RowType /\ catalogue \in SUBSET DpaIds /\ Marked(rows, scheduled)
  BY DEF IInv, TypeOK
<1>2. PICK key \in Keys(catalogue) :
         LET put == Upserted(rows, key, ops + 1, {}, None)
             table == Overwrite(rows, {put})
         IN \E evaluated \in Refreshes(catalogue, table, {key}) :
               Open(s, Txn("activate", {}, {put}, None, evaluated, {key}))
  BY DEF OpenActivate
<1> DEFINE put == Upserted(rows, key, ops + 1, {}, None)
           table == Overwrite(rows, {put})
<1>3. PICK evaluated \in Refreshes(catalogue, table, {key}) :
         Open(s, Txn("activate", {}, {put}, None, evaluated, {key}))
  BY <1>2
<1>4. ops < MaxOps /\ ops + 1 \in 1 .. MaxOps /\ key \in AllKeys /\ None # "scheduled_dpa"
  BY <1>1, <1>3, KeysOfDpas, DpaAssumption DEF Open, IInv, TypeOK
<1>5. /\ put \in RowType /\ put.key = key /\ put.movelist = {}
      /\ put.source = "scheduled_dpa" =>
            \E q \in rows : q.key = key /\ q.source = "scheduled_dpa"
  BY <1>1, <1>4, UpsertedRow
<1>6. EvaluationOK(evaluated)
  BY <1>1, <1>4, RefreshesOK
<1> HIDE DEF put, table
<1>7. RowsOK({put}) /\ Marked({put}, scheduled) /\ KeysIn({put}) = {key}
  BY <1>1, <1>5 DEF RowsOK, Marked, KeysIn
<1> DEFINE txn == Txn("activate", {}, {put}, None, evaluated, {key})
<1>8. /\ txn.op \in 1 .. MaxOps /\ txn.kind = "activate" /\ txn.doomed = {}
      /\ txn.puts = {put} /\ txn.catalogue = None /\ txn.evaluated = evaluated
      /\ txn.keys = {key} /\ txn.open
  BY <1>4, NewTxn
<1> HIDE DEF txn
<1>9. TxnOK(txn)
  BY <1>6, <1>7, <1>8 DEF TxnOK, Schedules
<1> QED BY <1>3, <1>8, <1>9, OpenKeeps DEF txn

(* Opening a deactivation keeps it: it deletes on its own channel.         *)
LEMMA DeactivateKeeps ==
    ASSUME IInv, NEW s \in Sessions, OpenDeactivate(s)
    PROVE  IInv'
<1>1. PICK key \in AllKeys :
         Open(s, Txn("deactivate", {RowId(r) : r \in {q \in rows : q.key = key}}, {}, None,
                     NoRefresh, {key}))
  BY DEF OpenDeactivate
<1> DEFINE doomed == {RowId(r) : r \in {q \in rows : q.key = key}}
<1>2. ops < MaxOps
  BY <1>1 DEF Open
<1>3. \A id \in doomed : id[1] = key
  BY DEF RowId
<1> HIDE DEF doomed
<1>4. TxnOK(Txn("deactivate", doomed, {}, None, NoRefresh, {key}))
  BY <1>2, <1>3, NewTxn, NoRefreshOK, NoRowsOK DEF TxnOK, MayDelete
<1> QED BY <1>1, <1>2, <1>4, NewTxn, OpenKeeps DEF doomed

(* A schedule deletes the rows a schedule owns, and those only.            *)
LEMMA ScheduleKeeps ==
    ASSUME IInv, NEW s \in Sessions, NEW dpas \in SUBSET DpaIds, NEW keys \in SUBSET AllKeys,
           OpenSchedule(s, keys, dpas)
    PROVE  IInv'
<1> DEFINE doomed == {r \in rows : DropsScheduled(r)}
           kept == rows \ doomed
           puts == {Upserted(kept, key, ops + 1, {}, "scheduled_dpa") : key \in keys}
           ids == {RowId(r) : r \in doomed}
           stored == IF dpas = catalogue THEN None ELSE dpas
<1>1. PICK evaluated \in Refreshes(dpas, Overwrite(kept, puts), keys) :
         Open(s, Txn("schedule", ids, puts, stored, evaluated, keys))
  BY DEF OpenSchedule
<1>2. ops < MaxOps /\ ops + 1 \in 1 .. MaxOps /\ rows \subseteq RowType /\ Marked(rows, scheduled)
  BY <1>1, DpaAssumption DEF Open, IInv, TypeOK
<1>3. EvaluationOK(evaluated)
  BY RefreshesOK
<1>4. \A id \in ids : id[1] \in AllKeys /\ id[1] \in scheduled
  <2>1. \A r \in doomed : r.key \in AllKeys /\ r.key \in scheduled
    BY <1>2 DEF DropsScheduled, Marked, RowType
  <2> QED BY <2>1 DEF RowId
<1>5. ASSUME NEW p \in puts
      PROVE  p \in RowType /\ p.key \in keys /\ p.movelist = {}
  <2>1. PICK key \in keys : p = Upserted(kept, key, ops + 1, {}, "scheduled_dpa")
    OBVIOUS
  <2>2. kept \subseteq RowType /\ key \in AllKeys
    BY <1>2
  <2> HIDE DEF kept
  <2> QED BY <1>2, <2>1, <2>2, UpsertedRow
<1>6. stored = None \/ stored \subseteq DpaIds
  OBVIOUS
<1> HIDE DEF ids, puts, stored
<1>7. RowsOK(puts) /\ Marked(puts, keys)
  BY <1>5 DEF RowsOK, Marked
<1> DEFINE txn == Txn("schedule", ids, puts, stored, evaluated, keys)
<1>8. /\ txn.op \in 1 .. MaxOps /\ txn.kind = "schedule" /\ txn.doomed = ids
      /\ txn.puts = puts /\ txn.catalogue = stored /\ txn.evaluated = evaluated
      /\ txn.keys = keys /\ txn.open
  BY <1>2, NewTxn
<1> HIDE DEF txn
<1>9. TxnOK(txn)
  BY <1>3, <1>4, <1>6, <1>7, <1>8 DEF TxnOK, MayDelete, Schedules, Marked
<1> QED BY <1>1, <1>8, <1>9, OpenKeeps DEF txn

(* Opening the refresh of a CPAS run keeps it: it deletes nothing.         *)
LEMMA CpasKeeps ==
    ASSUME IInv, NEW s \in Sessions, OpenCpas(s)
    PROVE  IInv'
<1>1. PICK evaluated \in Evaluations(Evaluable(catalogue, rows), Active) :
         Open(s, Txn("cpas", {}, {}, None, evaluated, {}))
  BY DEF OpenCpas
<1>2. ops < MaxOps
  BY <1>1 DEF Open
<1>3. Evaluable(catalogue, rows) \in SUBSET AllKeys
  BY KeysOfDpas DEF Evaluable, IInv, TypeOK
<1>4. EvaluationOK(evaluated)
  BY <1>3, EvaluationsOK
<1>5. TxnOK(Txn("cpas", {}, {}, None, evaluated, {}))
  BY <1>2, <1>4, NewTxn, NoRowsOK DEF TxnOK
<1> QED BY <1>1, <1>2, <1>5, NewTxn, OpenKeeps

(* Opening any of the operations on DPAs keeps the invariant.              *)
LEMMA BeginKeeps ==
    ASSUME IInv, NEW s \in Sessions, Begin(s)
    PROVE  IInv'
<1>1. catalogue \in SUBSET DpaIds
  BY DEF IInv, TypeOK
<1>2. CASE OpenScheduleJson(s)
  <2>1. PICK keys \in SUBSET Keys(catalogue) : OpenSchedule(s, keys, catalogue)
    BY <1>2 DEF OpenScheduleJson
  <2> QED BY <1>1, <2>1, KeysOfDpas, ScheduleKeeps
<1>3. CASE OpenScheduleKml(s)
  <2>1. PICK dpas \in SUBSET DpaIds : OpenSchedule(s, Keys(dpas), catalogue \cup dpas)
    BY <1>3 DEF OpenScheduleKml
  <2>2. catalogue \cup dpas \in SUBSET DpaIds /\ Keys(dpas) \in SUBSET AllKeys
    BY <1>1, KeysOfDpas
  <2> QED BY <2>1, <2>2, ScheduleKeeps
<1> QED BY <1>2, <1>3, LoadKeeps, ActivateKeeps, DeactivateKeeps, CpasKeeps DEF Begin

(***************************************************************************)
(* A commit.                                                               *)
(***************************************************************************)
LEMMA CommitKeeps ==
    ASSUME IInv, NEW s \in Sessions, CommitTxn(s)
    PROVE  IInv'
<1> DEFINE t == session[s]
           left0 == {r \in rows : RowId(r) \notin t.doomed}
           table == Overwrite(left0, t.puts)
<1>1. /\ t.open /\ TxnOK(t) /\ rows' = RefreshRows(table, t.evaluated, t.op)
      /\ catalogue' = (IF t.catalogue = None THEN catalogue ELSE t.catalogue)
      /\ terminated' = terminated \cup Moved(t)
      /\ asked' = AskedAfter(t)
      /\ scheduled' = Schedules(t) \cup scheduled
      /\ session' = [session EXCEPT ![s] = Idle]
      /\ UNCHANGED <<esc, heartbeat, left, ops>>
  BY DEF CommitTxn, Written, IInv, Schedules
<1>2. /\ RowsOK(rows) /\ Marked(rows, scheduled) /\ asked \ scheduled \subseteq KeysIn(rows)
      /\ scheduled' = Schedules(t) /\ scheduled \subseteq scheduled'
  BY <1>1 DEF IInv, TypeOK, RowsOK, UnscheduledActivationsRetained, Schedules
<1>3. RowsOK(t.puts) /\ Marked(t.puts, scheduled') /\ EvaluationOK(t.evaluated) /\ t.op \in 1 .. MaxOps
  BY <1>1, <1>2 DEF TxnOK
<1>4. /\ table \subseteq rows \cup t.puts
      /\ KeysIn(table) = KeysIn(left0) \cup KeysIn(t.puts)
  BY OverwriteRows
<1> HIDE DEF table
<1>5. RowsOK(table) /\ Marked(table, scheduled')
  BY <1>2, <1>3, <1>4 DEF RowsOK, Marked
<1>6. RowsOK(rows)' /\ Marked(rows, scheduled)' /\ KeysIn(table) \subseteq KeysIn(rows)'
  <2>1. LET after == RefreshRows(table, t.evaluated, t.op)
        IN  RowsOK(after) /\ Marked(after, scheduled') /\ KeysIn(table) \subseteq KeysIn(after)
    BY <1>3, <1>5, RefreshKeeps
  <2> QED BY <1>1, <2>1 DEF RowsOK, Marked, KeysIn
<1>7. KeysIn(rows) \ MayDelete(t) \subseteq KeysIn(table)
  <2>1. \A r \in rows : r.key \notin MayDelete(t) => r \in left0
    BY <1>1 DEF TxnOK, RowId
  <2> QED BY <1>4, <2>1 DEF KeysIn
<1>8. UnscheduledActivationsRetained'
  <2>1. CASE t.kind \in {"load", "clear"}
    BY <1>1, <2>1 DEF AskedAfter, UnscheduledActivationsRetained
  <2>2. CASE t.kind = "activate"
    <3>1. asked' = asked \cup t.keys /\ t.keys \subseteq KeysIn(t.puts) /\ MayDelete(t) = {}
      BY <1>1, <2>2 DEF AskedAfter, TxnOK, MayDelete
    <3> QED BY <1>2, <1>4, <1>6, <1>7, <3>1 DEF UnscheduledActivationsRetained
  <2>3. CASE t.kind = "deactivate"
    <3>1. asked' = asked \ t.keys /\ MayDelete(t) \subseteq t.keys
      BY <1>1, <2>3 DEF AskedAfter, MayDelete
    <3> QED BY <1>2, <1>6, <1>7, <3>1 DEF UnscheduledActivationsRetained
  <2>4. CASE t.kind \notin {"load", "clear", "activate", "deactivate"}
    <3>1. asked' = asked /\ MayDelete(t) \subseteq scheduled
      BY <1>1, <2>4 DEF AskedAfter, MayDelete
    <3> QED BY <1>2, <1>6, <1>7, <3>1 DEF UnscheduledActivationsRetained
  <2> QED BY <2>1, <2>2, <2>3, <2>4
<1>9. ~Idle.open
  BY DEF Idle
<1>10. /\ DOMAIN session' = Sessions /\ session'[s] = Idle
       /\ \A q \in Sessions \ {s} : session'[q] = session[q]
  BY <1>1 DEF IInv
<1>11. \A q \in Sessions : TxnOK(session[q])'
  BY <1>2, <1>9, <1>10 DEF IInv, TxnOK, Schedules, MayDelete, Marked
<1>12. TypeOK'
  <2>1. catalogue' \subseteq DpaIds
    BY <1>1 DEF TxnOK, IInv, TypeOK
  <2>2. terminated' \subseteq Grants
    BY <1>1 DEF Moved, Active, IInv, TypeOK
  <2>3. \A q \in Sessions : session'[q].open => session'[q].puts \subseteq RowType
    BY <1>9, <1>10 DEF IInv, TypeOK
  <2> QED BY <1>1, <1>6, <2>1, <2>2, <2>3 DEF IInv, TypeOK, RowsOK
<1> QED BY <1>6, <1>8, <1>10, <1>11, <1>12 DEF IInv

(***************************************************************************)
(* Everything else leaves the tables and the transactions alone.           *)
(***************************************************************************)
LEMMA TablesSame ==
    ASSUME IInv, UNCHANGED <<tables, terminated, session, history>>, TypeOK'
    PROVE  IInv'
<1>1. UNCHANGED <<catalogue, rows, asked, scheduled, session>>
  BY DEF tables, history
<1> QED BY <1>1 DEF IInv, UnscheduledActivationsRetained, Marked, TxnOK, Schedules, MayDelete

(* Every step of the DPA handlers and of heartbeats keeps it.              *)
LEMMA NextKeeps ==
    ASSUME IInv, [Next]_vars
    PROVE  IInv'
<1> USE DpaAssumption
<1>1. ASSUME NEW s \in Sessions, RollbackTxn(s)
      PROVE  IInv'
  <2>1. /\ DOMAIN session' = Sessions /\ session'[s] = Idle /\ ~Idle.open
        /\ \A q \in Sessions \ {s} : session'[q] = session[q]
    BY <1>1 DEF RollbackTxn, IInv, Idle
  <2>2. UNCHANGED <<catalogue, rows, esc, terminated, heartbeat, left, asked, scheduled, ops>>
    BY <1>1 DEF RollbackTxn, tables, grantState, history
  <2>3. TypeOK'
    BY <2>1, <2>2 DEF IInv, TypeOK
  <2>4. \A q \in Sessions : TxnOK(session[q])'
    BY <2>1, <2>2 DEF IInv, TxnOK, Schedules, MayDelete, Marked
  <2> QED BY <2>1, <2>2, <2>3, <2>4 DEF IInv, UnscheduledActivationsRetained, Marked
<1>2. CASE DisconnectEsc \/ SetEscAbsent
  <2>1. PICK flag \in {"disconnected", "absent"}, value \in BOOLEAN : SetEsc(flag, value)
    BY <1>2 DEF DisconnectEsc, SetEscAbsent
  <2>2. /\ esc' \in [disconnected : BOOLEAN, absent : BOOLEAN] /\ ops' \in 0 .. MaxOps
        /\ UNCHANGED <<catalogue, rows, terminated, heartbeat, left, session, asked, scheduled>>
    BY <2>1 DEF SetEsc, IInv, TypeOK, tables, grantState, history
  <2>3. TypeOK'
    BY <2>2 DEF IInv, TypeOK
  <2> QED BY <2>2, <2>3, TablesSame DEF tables, history
<1>3. ASSUME NEW g \in Grants, CbsdHeartbeats(g) \/ HeartbeatChecks(g) \/ HeartbeatAuthorizes(g)
      PROVE  IInv'
  <2>1. /\ heartbeat' \in [Grants -> {"idle", "sent", "passed"}] /\ left' \in [Grants -> 0 .. Horizon]
        /\ UNCHANGED <<catalogue, rows, esc, terminated, session, asked, scheduled, ops>>
    BY <1>3 DEF CbsdHeartbeats, HeartbeatChecks, HeartbeatAuthorizes, IInv, TypeOK, tables, history
  <2>2. TypeOK'
    BY <2>1 DEF IInv, TypeOK
  <2> QED BY <2>1, <2>2, TablesSame DEF tables, history
<1>4. CASE TimePasses
  <2>1. /\ left' \in [Grants -> 0 .. Horizon]
        /\ UNCHANGED <<catalogue, rows, esc, terminated, heartbeat, session, asked, scheduled, ops>>
    BY <1>4 DEF TimePasses, IInv, TypeOK, tables, history
  <2>2. TypeOK'
    BY <2>1 DEF IInv, TypeOK
  <2> QED BY <2>1, <2>2, TablesSame DEF tables, history
<1>5. CASE UNCHANGED vars
  <2>1. /\ UNCHANGED <<catalogue, rows, esc, terminated, heartbeat, left, session>>
        /\ UNCHANGED <<asked, scheduled, ops>>
    BY <1>5 DEF vars, tables, grantState, history
  <2>2. TypeOK'
    BY <2>1 DEF IInv, TypeOK
  <2> QED BY <2>1, <2>2, TablesSame DEF tables, history
<1> QED BY <1>1, <1>2, <1>3, <1>4, <1>5, BeginKeeps, CommitKeeps DEF Next

(* Without activations and transactions the invariant holds.               *)
LEMMA InitInv == Init => IInv
<1> SUFFICES ASSUME Init PROVE IInv
  OBVIOUS
<1>1. TypeOK
  BY DpaAssumption DEF Init, TypeOK, Idle
<1>2. \A s \in Sessions : TxnOK(session[s])
  BY DEF Init, TxnOK, Idle
<1> QED BY <1>1, <1>2 DEF Init, IInv, UnscheduledActivationsRetained, Marked

(* So it holds however the transactions overlap.                           *)
LEMMA Inductive == Spec => []IInv
  BY InitInv, NextKeeps, PTL DEF Spec

(* No interleaving of transactions stores a row that moves a grant which   *)
(* does not overlap its channel (heartbeat_service.py:130).                *)
THEOREM TypeCorrect == Spec => []TypeOK
<1>1. IInv => TypeOK
  BY DEF IInv
<1> QED BY <1>1, Inductive, PTL

(* An activation made by hand on a channel no schedule ever named is lost  *)
(* only to its deactivation or a reload, although no lock is taken and a   *)
(* transaction deletes rows it read some time before.                      *)
THEOREM ActivationsRetained == Spec => []UnscheduledActivationsRetained
<1>1. IInv => UnscheduledActivationsRetained
  BY DEF IInv
<1> QED BY <1>1, Inductive, PTL
=============================================================================

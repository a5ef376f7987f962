--------------------------------- MODULE Dpa ---------------------------------
(***************************************************************************)
(* Dynamic Protection Areas: the catalogue, the activation rows with their *)
(* move lists, the ESC flags (services/dpa_service.py, dpa_protection.py,  *)
(* esc_admin_service.py), the scheduled DPA database                       *)
(* (database_sync_service.py), the DPA stage of CPAS, and the heartbeats   *)
(* that must fall silent (heartbeat_service.py).  No lock covers any of    *)
(* the rows: every operation is a READ COMMITTED transaction, opened with  *)
(* what it reads and closed with what it writes.  Which grants a move list *)
(* names is data: none or all of those that overlap.                       *)
(***************************************************************************)
EXTENDS Integers, FiniteSets

CONSTANTS
    DpaIds,      \* DPAs of the KML files
    BandsOf,     \* the 10 MHz channels of each DPA
    Grants,
    GrantBands,  \* the channels each grant overlaps
    Sessions,    \* transactions that may be open at once
    Horizon,     \* transmit_expire_horizon_sec, in ticks
    None,
    MaxOps       \* bound: operations started

ASSUME DpaAssumption ==
    /\ Horizon \in Nat \ {0}
    /\ MaxOps \in Nat
    /\ \A d \in DpaIds : BandsOf[d] # {}
    /\ None # "scheduled_dpa"

VARIABLES
    catalogue,   \* dpaIds of the dpa_catalogue row
    rows,        \* dpa_active rows
    esc,         \* flags esc_disconnected and esc_absent
    terminated,  \* grants CPAS has terminated
    session,     \* per session: the transaction it has open
    heartbeat,   \* per grant: whether a heartbeat has passed the DPA check
    left,        \* per grant: ticks until its transmitExpireTime
    asked,       \* channels activated by hand, not deactivated or reloaded since
    scheduled,   \* channels a schedule has ever named
    ops

tables == <<catalogue, rows>>
grantState == <<terminated, heartbeat, left>>
history == <<asked, scheduled>>
vars == <<tables, esc, grantState, session, history, ops>>

-----------------------------------------------------------------------------
Keys(dpas) == UNION {{<<d, b>> : b \in BandsOf[d]} : d \in dpas}
AllKeys == Keys(DpaIds)
OverlapsKey(g, key) == key[2] \in GrantBands[g]

EveryGrant(key, grants) == grants

OverlappedBy(key, grants) == {g \in grants : OverlapsKey(g, key)}

Active == Grants \ terminated

(* A row is identified by its key and the operation that inserted it:      *)
(* nothing makes the key unique.                                           *)
Row(key, op, movelist, source) ==
    [key |-> key, born |-> op, movelist |-> movelist, source |-> source]
RowId(r) == <<r.key, r.born>>
KeysIn(table) == {r.key : r \in table}

(* The row an unordered scan meets first: the oldest of its key.           *)
FirstRow(table, key) ==
    CHOOSE r \in table :
        r.key = key /\ \A q \in table : q.key = key => r.born <= q.born

(* _upsert_activation: the row as it is written.                           *)
Upserted(table, key, op, movelist, source) ==
    IF key \notin KeysIn(table)
    THEN Row(key, op, movelist, source)
    ELSE LET r == FirstRow(table, key)
         IN Row(key, r.born, movelist,
                IF source = None THEN r.source ELSE source)

Overwrite(table, written) ==
    {r \in table : RowId(r) \notin {RowId(w) : w \in written}} \cup written

(* refresh_activation_movelists: the channels it evaluates ...             *)
Evaluable(dpas, table) == KeysIn(table) \cap Keys(dpas)

(* ... and what it may find: nothing to move, or everything that overlaps. *)
Evaluations(keys, grants) ==
    {[key \in keys |-> IF key \in moved THEN OverlappedBy(key, grants) ELSE {}] :
        moved \in SUBSET keys}

(* refresh_or_fail_closed_movelists: an evaluation that raises leaves the  *)
(* conservative move list on the channels of this operation only.          *)
Refreshes(dpas, table, keys) ==
    Evaluations(Evaluable(dpas, table), Active)
        \cup {[key \in keys |-> OverlappedBy(key, Active)]}

(* The pending upserts of a refresh, scanned when they are made.           *)
RefreshRows(table, evaluated, op) ==
    Overwrite(table,
        {Upserted(table, key, op, evaluated[key], None) : key \in DOMAIN evaluated})

-----------------------------------------------------------------------------
Idle == [open |-> FALSE]

Init ==
    /\ catalogue = {}
    /\ rows = {}
    /\ esc = [disconnected |-> FALSE, absent |-> FALSE]
    /\ terminated = {}
    /\ session = [s \in Sessions |-> Idle]
    /\ heartbeat = [g \in Grants |-> "idle"]
    /\ left = [g \in Grants |-> 0]
    /\ asked = {}
    /\ scheduled = {}
    /\ ops = 0

(* A transaction: rows it deletes, rows it writes, the catalogue it will   *)
(* store, the evaluation of its refresh.                                   *)
NoRefresh == [key \in {} |-> {}]
Txn(kind, doomed, puts, dpas, evaluated, keys) ==
    [open |-> TRUE, kind |-> kind, op |-> ops + 1, doomed |-> doomed,
     puts |-> puts, catalogue |-> dpas, evaluated |-> evaluated, keys |-> keys]

Open(s, txn) ==
    /\ ~session[s].open
    /\ ops < MaxOps
    /\ ops' = ops + 1
    /\ session' = [session EXCEPT ![s] = txn]
    /\ UNCHANGED <<tables, esc, grantState, history>>

(* load_dpas: replace the catalogue, drop every row, activate every        *)
(* channel with an empty move list.                                        *)
OpenLoad(s) ==
    \E dpas \in SUBSET DpaIds \ {{}} :
        Open(s, Txn("load", {RowId(r) : r \in rows},
                    {Row(key, ops + 1, {}, None) : key \in Keys(dpas)},
                    dpas, NoRefresh, {}))

(* bulk_dpa_activation(activate=True) of a loaded catalogue; an empty one  *)
(* is loaded first.                                                        *)
OpenBulkOn(s) ==
    /\ catalogue # {}
    /\ Open(s, Txn("load", {RowId(r) : r \in rows},
                   {Row(key, ops + 1, {}, None) : key \in Keys(catalogue)},
                   None, NoRefresh, {}))

OpenBulkOff(s) ==
    Open(s, Txn("clear", {RowId(r) : r \in rows}, {}, None, NoRefresh, {}))

(* activate_dpa: a channel of the catalogue is upserted with an empty move *)
(* list, then every move list is evaluated.                                *)
OpenActivate(s) ==
    \E key \in Keys(catalogue) :
        LET put == Upserted(rows, key, ops + 1, {}, None)
            table == Overwrite(rows, {put})
        IN \E evaluated \in Refreshes(catalogue, table, {key}) :
              Open(s, Txn("activate", {}, {put}, None, evaluated, {key}))

OpenDeactivate(s) ==
    \E key \in AllKeys :
        Open(s, Txn("deactivate", {RowId(r) : r \in {q \in rows : q.key = key}},
                    {}, None, NoRefresh, {key}))

(* _apply_scheduled_dpa: JSON names channels of the catalogue, a KML body  *)
(* brings its DPAs into the catalogue and activates all their channels.    *)
DropsEverything(r) == TRUE

DropsScheduled(r) == r.source = "scheduled_dpa"

OpenSchedule(s, keys, dpas) ==
    LET doomed == {r \in rows : DropsScheduled(r)}
        kept == rows \ doomed
        puts == {Upserted(kept, key, ops + 1, {}, "scheduled_dpa") : key \in keys}
    IN \E evaluated \in Refreshes(dpas, Overwrite(kept, puts), keys) :
          Open(s, Txn("schedule", {RowId(r) : r \in doomed}, puts,
                      IF dpas = catalogue THEN None ELSE dpas, evaluated, keys))

OpenScheduleJson(s) ==
    \E keys \in SUBSET Keys(catalogue) \ {{}} : OpenSchedule(s, keys, catalogue)

OpenScheduleKml(s) ==
    \E dpas \in SUBSET DpaIds \ {{}} :
        OpenSchedule(s, Keys(dpas), catalogue \cup dpas)

(* The DPA stage of a CPAS run, on the grants it froze.  One run at a time *)
(* holds the IAP lock; an evaluation that raises fails the run.            *)
OpenCpas(s) ==
    /\ \A q \in Sessions : session[q].open => session[q].kind # "cpas"
    /\ \E evaluated \in Evaluations(Evaluable(catalogue, rows), Active) :
          Open(s, Txn("cpas", {}, {}, None, evaluated, {}))

-----------------------------------------------------------------------------
(* An UPDATE of a row somebody else has deleted raises StaleDataError.     *)
LostRow(t) == \E p \in t.puts : p.born # t.op /\ RowId(p) \notin {RowId(r) : r \in rows}

Written(t) ==
    RefreshRows(
        Overwrite({r \in rows : RowId(r) \notin t.doomed}, t.puts), t.evaluated, t.op)

(* grant_on_any_movelist of the frozen grants, then apply_cpas_decisions.  *)
Moved(t) ==
    IF t.kind # "cpas" THEN {}
    ELSE Active \cap UNION {r.movelist : r \in Written(t)}

AskedAfter(t) ==
    CASE t.kind \in {"load", "clear"} -> {}
      [] t.kind = "activate" -> asked \cup t.keys
      [] t.kind = "deactivate" -> asked \ t.keys
      [] OTHER -> asked

CommitTxn(s) ==
    LET t == session[s]
    IN /\ t.open
       /\ ~LostRow(t)
       /\ \A g \in Moved(t) : heartbeat[g] = "idle"   \* its row lock
       /\ rows' = Written(t)
       /\ catalogue' = IF t.catalogue = None THEN catalogue ELSE t.catalogue
       /\ terminated' = terminated \cup Moved(t)
       /\ asked' = AskedAfter(t)
       /\ scheduled' = IF t.kind = "schedule" THEN scheduled \cup t.keys ELSE scheduled
       /\ session' = [session EXCEPT ![s] = Idle]
       /\ UNCHANGED <<esc, heartbeat, left, ops>>

RollbackTxn(s) ==
    /\ session[s].open
    /\ session' = [session EXCEPT ![s] = Idle]
    /\ UNCHANGED <<tables, esc, grantState, history, ops>>

(* disconnect_esc, set_esc_absent: nothing in the code reconnects an ESC.  *)
SetEsc(flag, value) ==
    /\ esc[flag] # value
    /\ ops < MaxOps
    /\ ops' = ops + 1
    /\ esc' = [esc EXCEPT ![flag] = value]
    /\ UNCHANGED <<tables, grantState, session, history>>

DisconnectEsc == SetEsc("disconnected", TRUE)
SetEscAbsent == \E absent \in BOOLEAN : SetEsc("absent", absent)

-----------------------------------------------------------------------------
EscLost == esc.disconnected \/ esc.absent

OnMovelist(g) == \E r \in rows : g \in r.movelist
OverlapsActive(g) == \E key \in KeysIn(rows) : OverlapsKey(g, key)
OverlapsCatalogue(g) == \E key \in Keys(catalogue) : OverlapsKey(g, key)

SuspendedByRowsOnly(g) == OnMovelist(g) \/ OverlapsActive(g)

SuspendedByCatalogue(g) == OverlapsCatalogue(g)

(* _grant_overlaps_active_dpa of the heartbeat handler.                    *)
SuspendedByDpa(g) ==
    OnMovelist(g) \/ OverlapsActive(g) \/ (EscLost /\ OverlapsCatalogue(g))

CbsdHeartbeats(g) ==
    /\ heartbeat[g] = "idle"
    /\ heartbeat' = [heartbeat EXCEPT ![g] = "sent"]
    /\ UNCHANGED <<tables, esc, terminated, left, session, history, ops>>

(* The DPA check.  A suspended heartbeat is answered 501 and one of a      *)
(* terminated grant 500: neither changes the grant.                        *)
HeartbeatChecks(g) ==
    /\ heartbeat[g] = "sent"
    /\ heartbeat' = [heartbeat EXCEPT
          ![g] = IF g \in terminated \/ SuspendedByDpa(g) THEN "idle" ELSE "passed"]
    /\ UNCHANGED <<tables, esc, terminated, left, session, history, ops>>

(* One that passed is authorised later, its deadline counted from then.    *)
HeartbeatAuthorizes(g) ==
    /\ heartbeat[g] = "passed"
    /\ heartbeat' = [heartbeat EXCEPT ![g] = "idle"]
    /\ left' = [left EXCEPT ![g] = Horizon]
    /\ UNCHANGED <<tables, esc, terminated, session, history, ops>>

TimePasses ==
    /\ \E g \in Grants : left[g] > 0
    /\ left' = [g \in Grants |-> IF left[g] > 0 THEN left[g] - 1 ELSE 0]
    /\ UNCHANGED <<tables, esc, terminated, heartbeat, session, history, ops>>

Begin(s) ==
    \/ OpenLoad(s) \/ OpenBulkOn(s) \/ OpenBulkOff(s)
    \/ OpenActivate(s) \/ OpenDeactivate(s)
    \/ OpenScheduleJson(s) \/ OpenScheduleKml(s) \/ OpenCpas(s)

Next ==
    \/ \E s \in Sessions : Begin(s) \/ CommitTxn(s) \/ RollbackTxn(s)
    \/ DisconnectEsc \/ SetEscAbsent
    \/ \E g \in Grants :
          CbsdHeartbeats(g) \/ HeartbeatChecks(g) \/ HeartbeatAuthorizes(g)
    \/ TimePasses

Spec == Init /\ [][Next]_vars

(* Time passes, and a handler ends.                                        *)
Fairness ==
    /\ WF_vars(TimePasses)
    /\ \A g \in Grants : WF_vars(HeartbeatChecks(g) \/ HeartbeatAuthorizes(g))
    /\ \A s \in Sessions : WF_vars(CommitTxn(s) \/ RollbackTxn(s))

FairSpec == Spec /\ Fairness

-----------------------------------------------------------------------------
RowType ==
    [key : AllKeys, born : 1 .. MaxOps, movelist : SUBSET Grants,
     source : {None, "scheduled_dpa"}]

(* Types.  Two transactions may leave two rows of one channel, but never   *)
(* one that moves a grant which does not overlap it, the only reason for   *)
(* which the three checks of a heartbeat agree                             *)
(* (heartbeat_service.py:130).                                             *)
TypeOK ==
    /\ catalogue \subseteq DpaIds
    /\ rows \subseteq RowType
    /\ \A r \in rows : \A g \in r.movelist : OverlapsKey(g, r.key)
    /\ esc \in [disconnected : BOOLEAN, absent : BOOLEAN]
    /\ terminated \subseteq Grants
    /\ heartbeat \in [Grants -> {"idle", "sent", "passed"}]
    /\ left \in [Grants -> 0 .. Horizon]
    /\ ops \in 0 .. MaxOps
    /\ \A s \in Sessions : session[s].open => session[s].puts \subseteq RowType

(* An activation made by hand on a channel no schedule ever named stays    *)
(* until it is deactivated or everything is reloaded, whatever             *)
(* transactions of other operations overlap with it                        *)
(* (database_sync_service.py:399, dpa_service.py:355).                     *)
UnscheduledActivationsRetained == asked \ scheduled \subseteq KeysIn(rows)

(* The duty of the SAS: a grant on an active channel, or on any catalogue  *)
(* channel once the ESC is lost, may not transmit.                         *)
MustBeSilent(g) ==
    \/ \E r \in rows : OverlapsKey(g, r.key)
    \/ (EscLost /\ \E d \in catalogue : GrantBands[g] \cap BandsOf[d] # {})

(* A grant that must be silent from some time on does fall silent: a       *)
(* heartbeat checked before and authorised after the activation cannot     *)
(* keep it on the air (heartbeat_service.py:264, 383).                     *)
EventuallySilent ==
    \A g \in Grants : <>[]MustBeSilent(g) => <>[](left[g] = 0)

(* The suspension is transient (heartbeat_service.py:262): once nothing    *)
(* obliges a grant to be silent, a CBSD that goes on sending heartbeats is *)
(* authorised again and again, unless CPAS has terminated the grant.       *)
ResumesAfterDeactivation ==
    \A g \in Grants :
        <>[](~MustBeSilent(g)) /\ []<>(heartbeat[g] = "sent")
            => []<>(left[g] > 0) \/ <>(g \in terminated)
==============================================================================

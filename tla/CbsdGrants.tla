---------------------------- MODULE CbsdGrants ------------------------------
(***************************************************************************)
(* The CBSD and grant tables and the handlers that write them: register,   *)
(* deregister, grant, heartbeat, relinquish, and the apply stage of CPAS.  *)
(*                                                                         *)
(* A handler is two steps of a session.  The first takes the handler's     *)
(* locks, loads rows and computes its whole effect on the loaded copies;   *)
(* the second is db.commit(): the ORM writes the columns whose value the   *)
(* handler changed, and only those, and the locks are released.  Time and  *)
(* every other session may move between the two.  process_grant has a      *)
(* third step in front, the screening it does before it takes any lock.    *)
(*                                                                         *)
(* PostgreSQL = TRUE is the production dialect: SELECT ... FOR UPDATE and  *)
(* advisory locks, primary keys never reused.  FALSE is the SQLite default *)
(* of config.py: the process locks remain, row locks do not exist, and the *)
(* key of a deleted row may be given to the next one.                      *)
(***************************************************************************)
EXTENDS Lifecycle, FiniteSets

CONSTANTS
    Cbsds,          \* cbsdIds
    Grants,         \* grantIds the SAS may ever issue (uuid4: never reused)
    Certs,          \* client certificate fingerprints
    Sessions,       \* concurrent request handlers
    Ranges,         \* frequency ranges a grant may ask for: [lo, hi]
    PalRanges,      \* those inside a PAL channel the CBSD may use
    LicenceEnds,    \* licenceExpiration instants the PAL record may carry
    GrantDuration,  \* DEFAULT_GRANT_DURATION_SEC, in ticks
    Horizons,       \* the transmitExpireTime horizons (in/out of a DPA area)
    CpasActions,    \* actions a CPAS decision may carry
    PostgreSQL,     \* TRUE: row locks and fresh keys; FALSE: SQLite
    MaxTime,        \* bound on the clock
    MaxReg,         \* bound on the registrations of one CBSD
    None, Deleted   \* no row yet / nothing loaded; a row that was removed

ASSUME ConstantsAssumption ==
    /\ Ranges \subseteq [lo : Nat, hi : Nat]
    /\ PalRanges \subseteq Ranges
    /\ LicenceEnds \subseteq Nat
    /\ GrantDuration \in Nat \ {0}
    /\ Horizons \subseteq Nat \ {0}
    /\ CpasActions \subseteq {"keep", "reduce_power", "suspend", "terminate"}
    /\ PostgreSQL \in BOOLEAN
    /\ MaxTime \in Nat
    /\ MaxReg \in Nat
    /\ None \notin Cbsds \cup Certs \cup Ranges

VARIABLES
    now,    \* the wall clock (services/clock.py), in ticks
    cbsd,   \* the cbsds table: registration of every cbsdId
    grant,  \* the grants table: a row, None (never issued) or Deleted
    sess    \* what every session has loaded, locked and is about to write

vars == <<now, cbsd, grant, sess>>

(* A CBSD row.  present: the row exists; pk: its primary key; cert: the    *)
(* bound certificate_hash; reg counts registrations (the contents of       *)
(* registration_json, abstracted to which registration wrote them).        *)
CbsdRow == [present : BOOLEAN, pk : Nat, reg : Nat, cert : Certs \cup {None}]

(* A grant row.  reg is the registration its cbsd row carried at insert.   *)
GrantRow == [cbsd : Cbsds, range : Ranges, reg : Nat, ls : GrantStates,
             auth : BOOLEAN, term : BOOLEAN, exp : Nat, tx : Nat]

Ops == {"none", "register", "deregister", "grant", "heartbeat",
        "relinquish", "cpas"}

(* None and Deleted stand for rows that do not exist.                      *)
ASSUME NoRowAssumption ==
    /\ None \notin GrantRow \cup CbsdRow
    /\ Deleted \notin GrantRow \cup {None}

(* A session.  old: rows as loaded; new: rows as the handler leaves them   *)
(* (None = not touched); cbsdRow: the CBSD row to write, or None; code:    *)
(* the responseCode of a heartbeat; seen: the CBSD object process_grant    *)
(* loaded while screening.                                                 *)
Session == [pc : {"idle", "screened", "open"}, op : Ops,
            cbsd : Cbsds \cup {None}, cert : Certs \cup {None},
            range : Ranges \cup {None}, seen : CbsdRow \cup {None},
            old : [Grants -> GrantRow \cup {None}],
            new : [Grants -> GrantRow \cup {None, Deleted}],
            cbsdRow : CbsdRow \cup {None}, code : Nat]

Untouched == [g \in Grants |-> None]

Idle == [pc |-> "idle", op |-> "none", cbsd |-> None, cert |-> None,
         range |-> None, seen |-> None, old |-> Untouched, new |-> Untouched,
         cbsdRow |-> None, code |-> SUCCESS]

IsRow(x) == x \notin {None, Deleted}

Overlaps(a, b) == a.lo < b.hi /\ a.hi > b.lo

Min2(a, b) == IF a < b THEN a ELSE b

(***************************************************************************)
(* Locks.  They are held exactly while a session is open.                  *)
(***************************************************************************)
(* Mutants, here and below: what the operator after each would be if the   *)
(* code had the bug its name tells.  No behaviour uses them.               *)
CbsdLockForgotten(c) == TRUE

(* exclusive_cbsd + acquire_cbsd_xact_lock: one open session per cbsdId.   *)
CbsdFree(c) == \A s \in Sessions : sess[s].pc = "open" => sess[s].cbsd # c

(* exclusive_iap_admission: admissions and the CPAS apply, one at a time.  *)
IapFree == \A s \in Sessions :
              sess[s].pc = "open" => sess[s].op \notin {"grant", "cpas"}

RowLocksForgotten(G) == TRUE

(* lock_grant_row and lock_grants_for_cbsd: no-ops on SQLite.              *)
RowsFree(G) == PostgreSQL =>
                  \A s \in Sessions, g \in G : sess[s].old[g] = None

(* The copies of the rows L as they were loaded, and as they are left.     *)
Loaded(L) == [g \in Grants |-> IF g \in L THEN grant[g] ELSE None]
Left(rows) == [g \in Grants |-> IF g \in DOMAIN rows THEN rows[g] ELSE None]

Work(op, c, cert, old, new, cbsdRow, code) ==
    [pc |-> "open", op |-> op, cbsd |-> c, cert |-> cert, range |-> None,
     seen |-> None, old |-> old, new |-> new, cbsdRow |-> cbsdRow,
     code |-> code]

Open(s, work) == /\ sess' = [sess EXCEPT ![s] = work]
                 /\ UNCHANGED <<now, cbsd, grant>>

(* cbsd_certificate_mismatch is FALSE: the row exists and is bound to cert *)
Owns(row, cert) == row.present /\ row.cert = cert

RowsOf(c) == {g \in Grants : IsRow(grant[g]) /\ grant[g].cbsd = c}

(* _active_grants: the filter is terminated = FALSE, not the lifecycle.    *)
ActiveGrants(c) == {g \in RowsOf(c) : ~grant[g].term}

(***************************************************************************)
(* process_registration.                                                   *)
(***************************************************************************)
TerminateOnlyAuthorized(row) ==
    IF row.term \/ ~row.auth THEN row ELSE ApplyGrantEvent(row, "terminate", now)

(* _terminate_grants, on one row: a wall-clock expired row refuses the     *)
(* event and keeps terminated = FALSE.                                     *)
TerminateUnlessTerminated(row) ==
    IF row.term THEN row ELSE ApplyGrantEvent(row, "terminate", now)

Register(s, c, cert) ==
    /\ sess[s].pc = "idle"
    /\ CbsdFree(c)
    /\ CbsdTransitionAllowed("register", cbsd[c].present)
    /\ cbsd[c].reg < MaxReg
    /\ \E pk \in IF PostgreSQL THEN {cbsd[c].pk + 1}
                               ELSE {cbsd[c].pk, cbsd[c].pk + 1} :
          Open(s, Work("register", c, cert, Untouched, Untouched,
                       [present |-> TRUE, pk |-> pk, reg |-> cbsd[c].reg + 1,
                        cert |-> cert], SUCCESS))

Reregister(s, c, cert) ==
    /\ sess[s].pc = "idle"
    /\ CbsdFree(c)
    /\ RowsFree(RowsOf(c))
    /\ CbsdTransitionAllowed("reregister", cbsd[c].present)
    /\ Owns(cbsd[c], cert)
    /\ cbsd[c].reg < MaxReg
    /\ Open(s, Work("register", c, cert, Loaded(RowsOf(c)),
                    Left([g \in RowsOf(c) |-> TerminateUnlessTerminated(grant[g])]),
                    [cbsd[c] EXCEPT !.reg = @ + 1], SUCCESS))

(***************************************************************************)
(* process_deregistration: every grant row goes with the CBSD row.         *)
(***************************************************************************)
Deregister(s, c, cert) ==
    /\ sess[s].pc = "idle"
    /\ CbsdFree(c)
    /\ RowsFree(RowsOf(c))
    /\ CbsdTransitionAllowed("deregister", cbsd[c].present)
    /\ Owns(cbsd[c], cert)
    /\ Open(s, Work("deregister", c, cert, Loaded(RowsOf(c)),
                    Left([g \in RowsOf(c) |-> Deleted]),
                    [cbsd[c] EXCEPT !.present = FALSE], SUCCESS))

(***************************************************************************)
(* process_grant.                                                          *)
(***************************************************************************)
(* Before any lock: the CBSD row is read, the certificate checked and the  *)
(* request screened against the registration it carries.  A request that   *)
(* fails a screen changes nothing.                                         *)
Screen(s, c, cert, range) ==
    /\ sess[s].pc = "idle"
    /\ Owns(cbsd[c], cert)
    /\ sess' = [sess EXCEPT ![s] =
                  [Idle EXCEPT !.pc = "screened", !.op = "grant", !.cbsd = c,
                               !.cert = cert, !.range = range,
                               !.seen = cbsd[c]]]
    /\ UNCHANGED <<now, cbsd, grant>>

ScreenedRowTrusted(seen, row) == seen

(* lock_cbsd_row returns the object already in the session when the row    *)
(* has the same key, with the attributes it was loaded with.               *)
IdentityMapped(seen, row) ==
    IF row.present /\ row.pk = seen.pk THEN seen ELSE row

(* _grant_expire_time: a PAL grant ends with its licence, which may        *)
(* already have ended.                                                     *)
ExpireTimes(range) ==
    IF range \in PalRanges
      THEN {Min2(now + GrantDuration, l) : l \in LicenceEnds}
      ELSE {now + GrantDuration}

TransmitExpireUncapped(horizon, expire) == now + horizon

(* compute_transmit_expire_time.                                           *)
TransmitExpireTime(horizon, expire) == Min2(now + horizon, expire)

NewGrant(c, range, expire, horizon) ==
    [cbsd |-> c, range |-> range, reg |-> cbsd[c].reg, ls |-> "GRANTED",
     auth |-> FALSE, term |-> FALSE, exp |-> expire,
     tx |-> TransmitExpireTime(horizon, expire)]

ConflictWithAuthorizedOnly(c, range) ==
    \E g \in ActiveGrants(c) : grant[g].auth /\ Overlaps(grant[g].range, range)

HasFreqConflict(c, range) ==
    \E g \in ActiveGrants(c) : Overlaps(grant[g].range, range)

(* Under the IAP and CBSD locks: existence and certificate again, conflict *)
(* with the CBSD's own active grants, then a peer's grant or the IAP       *)
(* headroom may refuse (nothing changes), else the row is inserted.        *)
Admit(s) ==
    LET c == sess[s].cbsd
        range == sess[s].range
    IN  /\ sess[s].pc = "screened"
        /\ IapFree
        /\ CbsdFree(c)
        /\ cbsd[c].present
        /\ Owns(IdentityMapped(sess[s].seen, cbsd[c]), sess[s].cert)
        /\ ~HasFreqConflict(c, range)
        /\ \E g \in {x \in Grants : grant[x] = None},
              e \in ExpireTimes(range), h \in Horizons :
              Open(s, Work("grant", c, sess[s].cert, Untouched,
                           [Untouched EXCEPT ![g] = NewGrant(c, range, e, h)],
                           None, SUCCESS))

(* Every refusal under the locks, and every one for a peer's grant or for  *)
(* lack of headroom, ends the request with no row written.                 *)
RefuseAdmission(s) ==
    /\ sess[s].pc = "screened"
    /\ IapFree
    /\ CbsdFree(sess[s].cbsd)
    /\ sess' = [sess EXCEPT ![s] = Idle]
    /\ UNCHANGED <<now, cbsd, grant>>

(***************************************************************************)
(* process_heartbeat.                                                      *)
(***************************************************************************)
Answer(code, row) == [code |-> code, row |-> row]

(* compute_renewal: a PAL grant is extended to its licence's end at most,  *)
(* which may be earlier than the expiry it had.                            *)
RenewalTimes(range) ==
    IF range \in PalRanges
      THEN {Min2(now + GrantDuration, l) : l \in {x \in LicenceEnds : x > now}}
      ELSE {now + GrantDuration}

(* _persist_federal_termination: TERMINATE, forced when it is refused.     *)
FederalTermination(row) ==
    IF TransitionAllowed("terminate", ResolveGrantState(row, now))
      THEN ApplyGrantEvent(row, "terminate", now)
      ELSE ApplyGrantState(row, "TERMINATED")

Authorize(row, expire, horizon) ==
    ApplyGrantEvent([row EXCEPT !.exp = expire,
                                !.tx  = TransmitExpireTime(horizon, expire)],
                    "authorize", now)

(* The answers past the expiry check: a WISP overlap terminates; a federal *)
(* 501, a measurement report or a PAL renewal may be refused; else the     *)
(* grant is renewed if asked and authorised.                               *)
ServedAnswers(row) ==
    {Answer(TERMINATED_GRANT, ApplyGrantEvent(row, "terminate", now)),
     Answer(SUSPENDED_GRANT, row), Answer(MISSING_PARAM, row)}
    \cup (IF row.range \in PalRanges THEN {Answer(INVALID_PARAM, row)} ELSE {})
    \cup {Answer(SUCCESS, Authorize(row, e, h)) :
             e \in {row.exp} \cup RenewalTimes(row.range), h \in Horizons}

(* All answers to a heartbeat on a stored row.  What other components      *)
(* decide (blacklist, peer's grant, DPA, federal database, WISP) may go    *)
(* either way; the order of the checks is the code's.                      *)
HeartbeatAnswers(row, opState) ==
    {Answer(BLACKLISTED, row),
     Answer(TERMINATED_GRANT, ApplyGrantEvent(row, "terminate", now))}
    \cup (IF HeartbeatGate(row, opState, now) # SUCCESS
            THEN {Answer(HeartbeatGate(row, opState, now), row)}
            ELSE {Answer(SUSPENDED_GRANT, row),
                  Answer(TERMINATED_GRANT, FederalTermination(row))}
                 \cup (IF GrantExpired(row, now)
                         THEN {Answer(INVALID_PARAM,
                                      ApplyGrantEvent(row, "expire", now))}
                         ELSE ServedAnswers(row)))

Heartbeat(s, c, g, cert, opState) ==
    /\ sess[s].pc = "idle"
    /\ CbsdFree(c)
    /\ Owns(cbsd[c], cert)
    /\ g \in RowsOf(c)
    /\ RowsFree({g})
    /\ \E a \in HeartbeatAnswers(grant[g], opState) :
          Open(s, Work("heartbeat", c, cert, Loaded({g}),
                       Left([x \in {g} |-> a.row]), None, a.code))

(***************************************************************************)
(* process_relinquishment.                                                 *)
(***************************************************************************)
Relinquish(s, c, g, cert) ==
    /\ sess[s].pc = "idle"
    /\ CbsdFree(c)
    /\ Owns(cbsd[c], cert)
    /\ g \in ActiveGrants(c)
    /\ RowsFree({g})
    /\ Open(s, Work("relinquish", c, cert, Loaded({g}),
                    Left([x \in {g} |-> ApplyGrantEvent(grant[x], "relinquish", now)]),
                    None, SUCCESS))

(***************************************************************************)
(* apply_cpas_decisions, inside the CPAS critical section: the IAP lock    *)
(* and row locks, but no CBSD lock.                                        *)
(***************************************************************************)
(* reduce_power lowers max_eirp, a column no handler here reads.           *)
ApplyDecision(row, action) ==
    IF row.term \/ action \notin {"terminate", "suspend"}
      THEN row
      ELSE ApplyGrantEvent(row, action, now)

ApplyCpasDecisions(s) ==
    /\ sess[s].pc = "idle"
    /\ IapFree
    /\ \E decided \in SUBSET {g \in Grants : IsRow(grant[g])} :
         /\ RowsFree(decided)
         /\ \E action \in [decided -> CpasActions] :
              Open(s, Work("cpas", None, None, Loaded(decided),
                           Left([g \in decided |-> ApplyDecision(grant[g], action[g])]),
                           None, SUCCESS))

(***************************************************************************)
(* The end of a handler.                                                   *)
(***************************************************************************)
(* The UPDATE names the columns whose value the handler changed.           *)
Merge(row, old, new) ==
    [row EXCEPT !.ls   = IF new.ls   # old.ls   THEN new.ls   ELSE row.ls,
                !.auth = IF new.auth # old.auth THEN new.auth ELSE row.auth,
                !.term = IF new.term # old.term THEN new.term ELSE row.term,
                !.exp  = IF new.exp  # old.exp  THEN new.exp  ELSE row.exp,
                !.tx   = IF new.tx   # old.tx   THEN new.tx   ELSE row.tx]

(* An UPDATE that matches no row fails the flush (StaleDataError).         *)
UpdatesDeletedRow(w) ==
    \E g \in Grants : /\ w.new[g] \notin {w.old[g], Deleted}
                      /\ w.old[g] # None
                      /\ grant[g] = Deleted

Stored(row, old, new) ==
    IF new = old THEN row
    ELSE IF old = None \/ new = Deleted THEN new
    ELSE Merge(row, old, new)

Commit(s) ==
    /\ sess[s].pc = "open"
    /\ ~UpdatesDeletedRow(sess[s])
    /\ grant' = [g \in Grants |->
                    Stored(grant[g], sess[s].old[g], sess[s].new[g])]
    /\ cbsd' = IF sess[s].cbsdRow = None
                 THEN cbsd
                 ELSE [cbsd EXCEPT ![sess[s].cbsd] = sess[s].cbsdRow]
    /\ sess' = [sess EXCEPT ![s] = Idle]
    /\ UNCHANGED now

(* The worker dies, the database refuses the statement or the flush fails: *)
(* the transaction is rolled back and the locks are released.              *)
Abort(s) ==
    /\ sess[s].pc # "idle"
    /\ sess' = [sess EXCEPT ![s] = Idle]
    /\ UNCHANGED <<now, cbsd, grant>>

Tick ==
    /\ now < MaxTime
    /\ now' = now + 1
    /\ UNCHANGED <<cbsd, grant, sess>>

Init ==
    /\ now = 0
    /\ cbsd = [c \in Cbsds |-> [present |-> FALSE, pk |-> 0, reg |-> 0, cert |-> None]]
    /\ grant = [g \in Grants |-> None]
    /\ sess = [s \in Sessions |-> Idle]

CbsdRequest(s) ==
    \E c \in Cbsds, cert \in Certs :
       \/ Register(s, c, cert)
       \/ Reregister(s, c, cert)
       \/ Deregister(s, c, cert)
       \/ \E range \in Ranges : Screen(s, c, cert, range)
       \/ \E g \in Grants, opState \in {"GRANTED", "AUTHORIZED"} :
             Heartbeat(s, c, g, cert, opState)
       \/ \E g \in Grants : Relinquish(s, c, g, cert)

SessionStep(s) ==
    \/ CbsdRequest(s)
    \/ Admit(s)
    \/ RefuseAdmission(s)
    \/ ApplyCpasDecisions(s)
    \/ Commit(s)
    \/ Abort(s)

Next == Tick \/ \E s \in Sessions : SessionStep(s)

Spec == Init /\ [][Next]_vars

(***************************************************************************)
(* Properties.                                                             *)
(***************************************************************************)
(* Types of the tables and of every session.                               *)
TypeOK ==
    /\ now \in Nat
    /\ cbsd \in [Cbsds -> CbsdRow]
    /\ grant \in [Grants -> GrantRow \cup {None, Deleted}]
    /\ sess \in [Sessions -> Session]

(* apply_grant_state keeps the legacy flags in sync with lifecycle_state:  *)
(* admission, CPAS and the FAD read terminated, heartbeats read the        *)
(* column, so a row on which the two disagree transmits unseen.            *)
FlagsInSync(row) ==
    /\ row.term <=> row.ls \in TERMINAL_GRANT_STATES
    /\ row.ls = "GRANTED" => ~row.auth
    /\ row.ls = "AUTHORIZED" => row.auth

FlagsMatchState == \A g \in Grants : IsRow(grant[g]) => FlagsInSync(grant[g])

(* Two grants of one CBSD that are both not terminated never overlap in    *)
(* frequency (401 GRANT_CONFLICT), whatever the interleaving of requests.  *)
NoOverlappingGrants ==
    \A g, h \in Grants :
       /\ g # h
       /\ IsRow(grant[g]) /\ IsRow(grant[h])
       /\ grant[g].cbsd = grant[h].cbsd
       /\ ~grant[g].term /\ ~grant[h].term
       => ~Overlaps(grant[g].range, grant[h].range)

(* A grant that can still be operated belongs to a registered CBSD and was *)
(* issued under its current registration: neither a deregistration nor a   *)
(* re-registration leaves a usable grant behind, nor does an admission     *)
(* that raced with it create one.                                          *)
UsableGrantsAreCurrent ==
    \A g \in Grants :
       IsRow(grant[g]) =>
          /\ cbsd[grant[g].cbsd].present
          /\ ResolveGrantState(grant[g], now) \in OperableStates
                => grant[g].reg = cbsd[grant[g].cbsd].reg

(* A grant is inserted only for a request that presented the certificate   *)
(* its CBSD is bound to at that moment, although the request was screened  *)
(* before the locks (the re-check of process_grant under the locks).       *)
AdmitsOnlyForOwner ==
    \A s \in Sessions :
       sess[s].pc = "open" /\ sess[s].op = "grant" =>
          Owns(cbsd[sess[s].cbsd], sess[s].cert)

(* The device is never told it may transmit past the grant's own expiry,   *)
(* nor further ahead than the longest horizon: silence from the SAS stops  *)
(* it within that horizon.                                                 *)
PermissionBounded ==
    \A g \in Grants :
       IsRow(grant[g]) =>
          /\ grant[g].tx <= grant[g].exp
          /\ \E h \in Horizons : grant[g].tx <= now + h

(* Once a grant is terminated, relinquished or expired in the table, no    *)
(* step of any session makes it usable, extends it or gives it a new       *)
(* transmission deadline; it can only be removed with its CBSD.            *)
TerminatedIsFinal ==
    [][\A g \in Grants :
          IsRow(grant[g]) /\ grant[g].term =>
             \/ grant'[g] = Deleted
             \/ /\ IsRow(grant'[g])
                /\ grant'[g].term
                /\ grant'[g].exp = grant[g].exp
                /\ grant'[g].tx = grant[g].tx]_vars

(***************************************************************************)
(* The tables, seen by a client: the promise they implement.               *)
(***************************************************************************)
OpenTerms(row) ==
    IF row = None THEN None
    ELSE IF row = Deleted \/ row.term THEN Deleted
    ELSE [cbsd |-> row.cbsd, range |-> row.range, epoch |-> row.reg,
          ends |-> row.exp, until |-> row.tx]

Promise == INSTANCE GrantPromise WITH
    Closed <- Deleted,
    clock <- now,
    epoch <- [c \in Cbsds |-> IF cbsd[c].present THEN cbsd[c].reg ELSE 0],
    last  <- [c \in Cbsds |-> cbsd[c].reg],
    open  <- [g \in Grants |-> OpenTerms(grant[g])]

(* None and Deleted stand for no terms either.                             *)
ASSUME NoTermsAssumption == {None, Deleted} \cap Promise!Terms = {}

(* The handlers, with their unlocked screening, stale copies, commits and  *)
(* aborted transactions, do to the tables only what single-instant         *)
(* requests would: the locks make every request atomic.                    *)
PromiseKept == Promise!Spec
=============================================================================

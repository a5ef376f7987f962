-------------------------- MODULE CbsdGrants_proof --------------------------
(***************************************************************************)
(* Proofs about CbsdGrants on PostgreSQL, for every value of the constants.*)
(***************************************************************************)
EXTENDS CbsdGrantsInv, TLAPS

(***************************************************************************)
(* What the lifecycle operators do to one row.                             *)
(***************************************************************************)
Operable(row) == ResolveGrantState(row, now) \in OperableStates

(* A row as a handler may leave it, given the row it loaded.               *)
Successor(row, new) ==
    /\ new \in GrantRow
    /\ RowOK(new)
    /\ Follows(row, new)
    /\ Operable(new) => Operable(row)

(* apply_grant_state returns a row with its flags in sync.                 *)
LEMMA StateRow ==
    ASSUME NEW row \in GrantRow, NEW state \in GrantStates, FlagsInSync(row)
    PROVE  LET r == ApplyGrantState(row, state)
           IN  /\ r \in GrantRow
               /\ FlagsInSync(r)
               /\ r.ls = state
               /\ r.term = (state \in TERMINAL_GRANT_STATES)
               /\ r.cbsd = row.cbsd /\ r.range = row.range /\ r.reg = row.reg
               /\ r.exp = row.exp /\ r.tx = row.tx
<1> DEFINE a == IF state = "AUTHORIZED" THEN TRUE
                ELSE IF state = "GRANTED" THEN FALSE ELSE row.auth
           t == state \in TERMINAL_GRANT_STATES
           r == ApplyGrantState(row, state)
<1>0. row.auth \in BOOLEAN
  BY DEF GrantRow
<1>1. a \in BOOLEAN /\ t \in BOOLEAN
  <2>1. a \in BOOLEAN
    BY <1>0, Zenon
  <2>2. t \in BOOLEAN
    <3>1. CASE t
      BY <3>1
    <3>2. CASE ~t
      BY <3>2
    <3> QED BY <3>1, <3>2
  <2> QED BY <2>1, <2>2
<1> HIDE DEF a, t
<1>2. r = [row EXCEPT !.ls = state, !.auth = a, !.term = t]
  BY DEF ApplyGrantState, a, t
<1>3. /\ r \in GrantRow /\ r.ls = state /\ r.auth = a /\ r.term = t
      /\ r.cbsd = row.cbsd /\ r.range = row.range /\ r.reg = row.reg
      /\ r.exp = row.exp /\ r.tx = row.tx
  BY <1>1, <1>2 DEF GrantRow
<1>4. FlagsInSync(r)
  BY <1>3 DEF FlagsInSync, a, t
<1> QED BY <1>3, <1>4 DEF t

(* A row left alone is a successor of itself.                              *)
LEMMA SameRow ==
    ASSUME NEW row \in GrantRow, RowOK(row)
    PROVE  Successor(row, row)
  BY DEF Successor, Follows

(* apply_grant_event leaves a successor, whether it accepts or refuses.    *)
LEMMA EventRow ==
    ASSUME NEW row \in GrantRow, NEW event \in GrantEvents, RowOK(row),
           event = "expire" => GrantExpired(row, now)
    PROVE  Successor(row, ApplyGrantEvent(row, event, now))
<1> DEFINE r == ApplyGrantState(row, Target(event))
<1>1. CASE ~TransitionAllowed(event, ResolveGrantState(row, now))
  BY <1>1, SameRow DEF ApplyGrantEvent
<1>2. CASE TransitionAllowed(event, ResolveGrantState(row, now))
  <2>1. Target(event) \in GrantStates
    BY DEF Target, GrantEvents, GrantStates, OperableStates, TERMINAL_GRANT_STATES
  <2>2. /\ r \in GrantRow /\ FlagsInSync(r) /\ r.ls = Target(event)
        /\ r.term = (Target(event) \in TERMINAL_GRANT_STATES)
        /\ r.cbsd = row.cbsd /\ r.range = row.range /\ r.reg = row.reg
        /\ r.exp = row.exp /\ r.tx = row.tx
    BY <2>1, StateRow DEF RowOK
  <2>3. RowOK(r)
    <3>1. r.ls = "EXPIRED" => event = "expire"
      BY <2>2 DEF Target, GrantEvents
    <3> QED BY <2>2, <3>1 DEF RowOK, GrantExpired
  <2>4. row.term => r.term
    BY <1>2, <2>2 DEF RowOK, FlagsInSync, TransitionAllowed, ResolveGrantState,
       GrantEvents, IdempotentEvents, Target, OperableStates, TERMINAL_GRANT_STATES,
       GrantRow, GrantStates
  <2>5. Operable(r) => Operable(row)
    BY <1>2, <2>2 DEF Operable, ResolveGrantState, TransitionAllowed, GrantEvents,
       IdempotentEvents, Target, OperableStates, TERMINAL_GRANT_STATES, GrantExpired,
       GrantRow, GrantStates
  <2> QED BY <1>2, <2>2, <2>3, <2>4, <2>5 DEF Successor, Follows, ApplyGrantEvent
<1> QED BY <1>1, <1>2

(* The federal termination forces TERMINATED on an expired row; a row that *)
(* is terminated stays so.                                                 *)
LEMMA FederalRow ==
    ASSUME NEW row \in GrantRow, RowOK(row)
    PROVE  Successor(row, FederalTermination(row))
<1>1. Successor(row, ApplyGrantEvent(row, "terminate", now))
  BY EventRow DEF GrantEvents
<1>2. Successor(row, ApplyGrantState(row, "TERMINATED"))
  <2>1. "TERMINATED" \in GrantStates /\ "TERMINATED" \in TERMINAL_GRANT_STATES
    BY DEF GrantStates, TERMINAL_GRANT_STATES
  <2> QED BY <2>1, StateRow DEF RowOK, Successor, Follows, Operable,
          ResolveGrantState, OperableStates, TERMINAL_GRANT_STATES
<1> QED BY <1>1, <1>2 DEF FederalTermination

(* The deadlines a heartbeat sets stay within the expiry and a horizon.    *)
LEMMA DeadlineBounded ==
    ASSUME NEW expire \in Nat, NEW horizon \in Horizons, now \in Nat
    PROVE  /\ TransmitExpireTime(horizon, expire) \in Nat
           /\ TransmitExpireTime(horizon, expire) <= expire
           /\ TransmitExpireTime(horizon, expire) <= now + horizon
  BY ConstantsAssumption DEF TransmitExpireTime, Min2

(* The deadlines of a new or renewed grant.                                *)
LEMMA ExpireTimesNat ==
    ASSUME NEW range \in Ranges, now \in Nat
    PROVE  /\ ExpireTimes(range) \subseteq Nat
           /\ \A e \in RenewalTimes(range) : e \in Nat /\ e > now
  BY ConstantsAssumption DEF ExpireTimes, RenewalTimes, Min2

(* A served heartbeat: only an operable, unexpired row gets a permission.  *)
LEMMA AuthorizeRow ==
    ASSUME NEW row \in GrantRow, RowOK(row), now \in Nat, Operable(row),
           NEW e \in Nat, NEW h \in Horizons
    PROVE  Successor(row, Authorize(row, e, h))
<1> DEFINE tx == TransmitExpireTime(h, e)
           r  == [row EXCEPT !.exp = e, !.tx = tx]
<1>1. tx \in Nat /\ tx <= e /\ tx <= now + h
  BY DeadlineBounded
<1> HIDE DEF tx
<1>2. /\ r \in GrantRow
      /\ r.cbsd = row.cbsd /\ r.range = row.range /\ r.reg = row.reg
      /\ r.ls = row.ls /\ r.auth = row.auth /\ r.term = row.term
      /\ r.exp = e /\ r.tx = tx
  BY <1>1 DEF GrantRow
<1>3. row.ls \in OperableStates /\ row.ls # "EXPIRED" /\ ~row.term
  BY DEF Operable, ResolveGrantState, RowOK, FlagsInSync, OperableStates,
         TERMINAL_GRANT_STATES
<1>4. RowOK(r)
  BY <1>1, <1>2, <1>3 DEF RowOK, FlagsInSync
<1> HIDE DEF r
<1>5. Successor(r, ApplyGrantEvent(r, "authorize", now))
  BY <1>2, <1>4, EventRow DEF GrantEvents
<1>6. Authorize(row, e, h) = ApplyGrantEvent(r, "authorize", now)
  BY DEF Authorize, r, tx
<1> QED BY <1>2, <1>3, <1>5, <1>6 DEF Successor, Follows

(* Every answer to a heartbeat leaves a successor of the row.              *)
LEMMA HeartbeatRow ==
    ASSUME NEW row \in GrantRow, RowOK(row), now \in Nat,
           NEW opState \in {"GRANTED", "AUTHORIZED"},
           NEW a \in HeartbeatAnswers(row, opState)
    PROVE  Successor(row, a.row) /\ a.code \in Nat
<1>1. /\ Successor(row, row)
      /\ Successor(row, ApplyGrantEvent(row, "terminate", now))
      /\ Successor(row, FederalTermination(row))
      /\ GrantExpired(row, now) => Successor(row, ApplyGrantEvent(row, "expire", now))
  BY SameRow, EventRow, FederalRow DEF GrantEvents
<1>2. HeartbeatGate(row, opState, now) \in Nat
  BY DEF HeartbeatGate, TERMINATED_GRANT, INVALID_PARAM, UNSYNC_OP_PARAM,
         SUSPENDED_GRANT, SUCCESS
<1>3. ASSUME HeartbeatGate(row, opState, now) = SUCCESS, ~GrantExpired(row, now)
      PROVE  Operable(row)
  BY <1>3 DEF HeartbeatGate, Operable, ResolveGrantState, RowOK, GrantRow, GrantExpired,
     GrantStates, OperableStates, TERMINAL_GRANT_STATES, SUCCESS, TERMINATED_GRANT,
     INVALID_PARAM, UNSYNC_OP_PARAM, SUSPENDED_GRANT
<1>4. ASSUME Operable(row), a \in ServedAnswers(row)
      PROVE  Successor(row, a.row) /\ a.code \in Nat
  <2>1. row.range \in Ranges /\ row.exp \in Nat
    BY DEF GrantRow
  <2>2. CASE a \in {Answer(SUCCESS, Authorize(row, e, h)) :
                       e \in {row.exp} \cup RenewalTimes(row.range), h \in Horizons}
    <3>1. PICK e \in {row.exp} \cup RenewalTimes(row.range), h \in Horizons :
             a = Answer(SUCCESS, Authorize(row, e, h))
      BY <2>2
    <3>2. e \in Nat
      BY <2>1, ExpireTimesNat
    <3>3. Successor(row, Authorize(row, e, h))
      BY <1>4, <3>2, AuthorizeRow
    <3> QED BY <3>1, <3>3 DEF Answer, SUCCESS
  <2>3. CASE a \in {Answer(TERMINATED_GRANT, ApplyGrantEvent(row, "terminate", now)),
                    Answer(SUSPENDED_GRANT, row), Answer(MISSING_PARAM, row),
                    Answer(INVALID_PARAM, row)}
    BY <1>1, <2>3 DEF Answer, TERMINATED_GRANT, SUSPENDED_GRANT, MISSING_PARAM,
       INVALID_PARAM
  <2> QED BY <1>4, <2>2, <2>3 DEF ServedAnswers
<1>5. CASE a = Answer(BLACKLISTED, row)
  BY <1>1, <1>5 DEF Answer, BLACKLISTED
<1>6. CASE a = Answer(TERMINATED_GRANT, ApplyGrantEvent(row, "terminate", now))
  BY <1>1, <1>6 DEF Answer, TERMINATED_GRANT
<1>7. CASE a = Answer(HeartbeatGate(row, opState, now), row)
  BY <1>1, <1>2, <1>7 DEF Answer
<1>8. CASE /\ HeartbeatGate(row, opState, now) = SUCCESS
           /\ a \in {Answer(SUSPENDED_GRANT, row),
                     Answer(TERMINATED_GRANT, FederalTermination(row))}
  BY <1>1, <1>8 DEF Answer, SUSPENDED_GRANT, TERMINATED_GRANT
<1>9. CASE /\ GrantExpired(row, now)
           /\ a = Answer(INVALID_PARAM, ApplyGrantEvent(row, "expire", now))
  BY <1>1, <1>9 DEF Answer, INVALID_PARAM
<1>10. CASE /\ HeartbeatGate(row, opState, now) = SUCCESS
            /\ ~GrantExpired(row, now)
            /\ a \in ServedAnswers(row)
  BY <1>3, <1>4, <1>10
<1> QED BY <1>5, <1>6, <1>7, <1>8, <1>9, <1>10 DEF HeartbeatAnswers

(***************************************************************************)
(* A handler's first step: it opens a session and writes no table.         *)
(***************************************************************************)
LEMMA ApartSymmetric ==
    ASSUME NEW v, NEW w, Apart(v, w)
    PROVE  Apart(w, v)
  BY DEF Apart

(* Locks found free keep the new session apart from every open one.        *)
LEMMA LocksApart ==
    ASSUME NEW w, NEW G, PostgreSQL, RowsFree(G),
           \A g \in Grants : Touches(w, g) => g \in G,
           w.cbsd = None \/ CbsdFree(w.cbsd),
           w.op \in {"grant", "cpas"} => IapFree,
           NEW t \in Sessions
    PROVE  Apart(w, sess[t])
  BY DEF Apart, RowsFree, Touches, CbsdFree, IapFree, IsOpen

(* Opening a good session, apart from the others, keeps the invariant.     *)
LEMMA OpenInductive ==
    ASSUME IInv, NEW s \in Sessions, NEW w \in Session, WorkOK(w),
           \A t \in Sessions \ {s} : Apart(w, sess[t]),
           sess' = [sess EXCEPT ![s] = w], UNCHANGED <<now, cbsd, grant>>
    PROVE  IInv'
<1>1. TypeOK'
  BY DEF IInv, TypeOK
<1>2. sess'[s] = w /\ \A t \in Sessions \ {s} : sess'[t] = sess[t]
  BY DEF IInv, TypeOK
<1>3. SessionsOK'
  <2> SUFFICES ASSUME NEW t \in Sessions PROVE WorkOK(sess[t])'
    BY DEF SessionsOK
  <2>1. PICK v \in Session : v = sess'[t]
    BY <1>1 DEF TypeOK
  <2>2. WorkOK(v)
    BY <1>2, <2>1 DEF IInv, SessionsOK
  <2>3. ShapeOK(v)'
    BY <2>2 DEF WorkOK, ShapeOK, IsOpen
  <2>4. UpdateOK(v)'
    BY <2>2 DEF WorkOK, UpdateOK, Touches, Writes, RowOK, RowCurrent
  <2>5. InsertOK(v)'
    BY <2>2 DEF WorkOK, InsertOK, Inserts, Writes, Touches, RowOK, ActiveGrants, RowsOf
  <2>6. RegistrationOK(v)'
    BY <2>2 DEF WorkOK, RegistrationOK, IsOpen, Touches, RowsOf
  <2>7. SeenOK(v)' /\ OwnerOK(v)'
    BY <2>2 DEF WorkOK, SeenOK, OwnerOK
  <2> QED BY <2>1, <2>3, <2>4, <2>5, <2>6, <2>7 DEF WorkOK
<1>4. Exclusion'
  <2> SUFFICES ASSUME NEW t \in Sessions, NEW u \in Sessions, t # u
               PROVE  Apart(sess'[t], sess'[u])
    BY DEF Exclusion, Apart, IsOpen, Touches
  <2> QED BY <1>2, ApartSymmetric DEF IInv, Exclusion
<1>5. RowsOK' /\ NoOverlappingGrants' /\ UsableGrantsAreCurrent'
  BY DEF IInv, RowsOK, RowOK, NoOverlappingGrants, UsableGrantsAreCurrent, IsRow
<1> QED BY <1>1, <1>3, <1>4, <1>5 DEF IInv

(* A session that loads the rows L and leaves successors of them.          *)
LEMMA SuccessorsOK ==
    ASSUME IInv, NEW L \in SUBSET {g \in Grants : IsRow(grant[g])},
           NEW rows, DOMAIN rows = L, \A g \in L : Successor(grant[g], rows[g]),
           NEW w, w.old = Loaded(L), w.new = Left(rows),
           w.op # "cpas" => \A g \in L : grant[g].cbsd = w.cbsd
    PROVE  /\ UpdateOK(w) /\ InsertOK(w)
           /\ w.old \in [Grants -> GrantRow \cup {None}]
           /\ w.new \in [Grants -> GrantRow \cup {None, Deleted}]
           /\ \A g \in Grants : Touches(w, g) => g \in L
<1>1. \A g \in Grants :
         /\ g \in L => w.old[g] = grant[g] /\ w.new[g] = rows[g]
         /\ g \notin L => w.old[g] = None /\ w.new[g] = None
  BY DEF Loaded, Left
<1>2. \A g \in L : /\ grant[g] \in GrantRow /\ grant[g] # None
                   /\ rows[g] \in GrantRow /\ rows[g] \notin {None, Deleted}
  BY NoRowAssumption DEF IInv, TypeOK, IsRow, Successor
<1>3. \A g \in L : RowCurrent(rows[g])
  BY DEF IInv, UsableGrantsAreCurrent, RowCurrent, Successor, Follows, Operable, IsRow
<1>4. UpdateOK(w)
  BY <1>1, <1>2, <1>3 DEF UpdateOK, Touches, Writes, Successor
<1>5. InsertOK(w)
  BY <1>1, <1>2 DEF InsertOK, Inserts, Touches, Writes
<1>6. w.old \in [Grants -> GrantRow \cup {None}]
  BY <1>2 DEF Loaded
<1>7. w.new \in [Grants -> GrantRow \cup {None, Deleted}]
  BY <1>2 DEF Left
<1> QED BY <1>1, <1>4, <1>5, <1>6, <1>7 DEF Touches

(* Idle rows of a session: nothing loaded and nothing written.             *)
LEMMA NothingTouched ==
    ASSUME NEW w, w.old = Untouched, w.new = Untouched
    PROVE  /\ UpdateOK(w) /\ InsertOK(w)
           /\ w.old \in [Grants -> GrantRow \cup {None}]
           /\ w.new \in [Grants -> GrantRow \cup {None, Deleted}]
           /\ \A g \in Grants : ~Touches(w, g) /\ ~Writes(w, g)
  BY DEF UpdateOK, InsertOK, Inserts, Touches, Writes, Untouched

(* The grant rows of a CBSD are stored rows that name it.                  *)
LEMMA RowsOfRows ==
    ASSUME NEW c \in Cbsds
    PROVE  /\ RowsOf(c) \in SUBSET {g \in Grants : IsRow(grant[g])}
           /\ \A g \in RowsOf(c) : grant[g].cbsd = c
  BY DEF RowsOf

(* process_registration, first registration: the new row has a fresh key,  *)
(* and there are no grant rows to account for.                             *)
LEMMA RegisterInductive ==
    ASSUME IInv, PostgreSQL, NEW s \in Sessions, NEW c \in Cbsds, NEW cert \in Certs,
           Register(s, c, cert)
    PROVE  IInv'
<1> DEFINE row == [present |-> TRUE, pk |-> cbsd[c].pk + 1, reg |-> cbsd[c].reg + 1,
                   cert |-> cert]
           w == Work("register", c, cert, Untouched, Untouched, row, SUCCESS)
<1>1. Open(s, w)
  BY DEF Register
<1>2. cbsd[c] \in CbsdRow /\ c # None /\ cert # None
  BY ConstantsAssumption DEF IInv, TypeOK
<1>3. row \in CbsdRow /\ row # None /\ row.pk > cbsd[c].pk /\ row.present
  <2>1. cbsd[c].pk \in Nat /\ cbsd[c].reg \in Nat
    BY <1>2 DEF CbsdRow
  <2>2. row \in CbsdRow
    BY <2>1 DEF CbsdRow
  <2>3. row.pk > cbsd[c].pk /\ row.present
    BY <2>1
  <2> HIDE DEF row
  <2>4. row # None
    BY <2>2, NoRowAssumption
  <2> QED BY <2>2, <2>3, <2>4
<1> HIDE DEF row
<1>4. /\ w.pc = "open" /\ w.op = "register" /\ w.cbsd = c /\ w.old = Untouched
      /\ w.new = Untouched /\ w.cbsdRow = row /\ w.code = SUCCESS
  BY DEF Work
<1>5. /\ UpdateOK(w) /\ InsertOK(w) /\ \A g \in Grants : ~Touches(w, g)
      /\ w.old \in [Grants -> GrantRow \cup {None}]
      /\ w.new \in [Grants -> GrantRow \cup {None, Deleted}]
  BY <1>4, NothingTouched
<1>6. RowsOf(c) = {}
  BY DEF Register, CbsdTransitionAllowed, IInv, UsableGrantsAreCurrent, RowsOf
<1>7. w \in Session
  BY <1>3, <1>5 DEF Work, Session, Ops, SUCCESS
<1>8. WorkOK(w)
  <2>1. ShapeOK(w) /\ SeenOK(w) /\ OwnerOK(w)
    BY <1>4 DEF ShapeOK, SeenOK, OwnerOK, IsOpen
  <2>2. RegistrationOK(w)
    BY <1>2, <1>3, <1>4, <1>6 DEF RegistrationOK, CbsdRow
  <2> QED BY <1>5, <2>1, <2>2 DEF WorkOK
<1>9. \A t \in Sessions \ {s} : Apart(w, sess[t])
  <2>1. CbsdFree(c) /\ RowsFree({})
    BY DEF Register, RowsFree
  <2> QED BY <1>4, <1>5, <2>1, LocksApart
<1>10. ~IsOpen(sess[s])
  BY DEF Register, IsOpen
<1> QED BY <1>1, <1>7, <1>8, <1>9, OpenInductive DEF Open

(* process_registration, re-registration: _terminate_grants leaves no row  *)
(* of the old registration operable.                                       *)
LEMMA ReregisterInductive ==
    ASSUME IInv, PostgreSQL, NEW s \in Sessions, NEW c \in Cbsds, NEW cert \in Certs,
           Reregister(s, c, cert)
    PROVE  IInv'
<1> DEFINE L == RowsOf(c)
           rows == [g \in L |-> TerminateUnlessTerminated(grant[g])]
           row == [cbsd[c] EXCEPT !.reg = @ + 1]
           w == Work("register", c, cert, Loaded(L), Left(rows), row, SUCCESS)
<1>1. Open(s, w) /\ CbsdFree(c) /\ RowsFree(L) /\ Owns(cbsd[c], cert)
  BY DEF Reregister
<1>2. cbsd[c] \in CbsdRow /\ c # None /\ now \in Nat
  BY ConstantsAssumption DEF IInv, TypeOK
<1>3. /\ row \in CbsdRow /\ row.pk = cbsd[c].pk /\ row.cert = cbsd[c].cert
      /\ row.present
  BY <1>1, <1>2 DEF CbsdRow, Owns
<1> HIDE DEF row
<1>4. row # None
  BY <1>3, NoRowAssumption
<1>5. \A g \in L : /\ Successor(grant[g], rows[g])
                   /\ ResolveGrantState(rows[g], now) \notin OperableStates
  <2> SUFFICES ASSUME NEW g \in L
               PROVE  LET r == TerminateUnlessTerminated(grant[g])
                      IN  /\ Successor(grant[g], r)
                          /\ ResolveGrantState(r, now) \notin OperableStates
    OBVIOUS
  <2>1. grant[g] \in GrantRow /\ RowOK(grant[g])
    BY DEF IInv, TypeOK, RowsOK, RowsOf, IsRow
  <2>2. CASE grant[g].term
    BY <2>1, <2>2, SameRow DEF TerminateUnlessTerminated, RowOK, FlagsInSync,
       ResolveGrantState, OperableStates, TERMINAL_GRANT_STATES
  <2>3. CASE ~grant[g].term
    <3>1. Successor(grant[g], ApplyGrantEvent(grant[g], "terminate", now))
      BY <2>1, EventRow DEF GrantEvents
    <3>2. ResolveGrantState(ApplyGrantEvent(grant[g], "terminate", now), now)
             \notin OperableStates
      <4>1. CASE TransitionAllowed("terminate", ResolveGrantState(grant[g], now))
        BY <2>1, <4>1, StateRow DEF ApplyGrantEvent, Target, GrantStates,
           TERMINAL_GRANT_STATES, OperableStates, ResolveGrantState, RowOK
      <4>2. CASE ~TransitionAllowed("terminate", ResolveGrantState(grant[g], now))
        BY <4>2 DEF ApplyGrantEvent, TransitionAllowed
      <4> QED BY <4>1, <4>2
    <3> QED BY <2>3, <3>1, <3>2 DEF TerminateUnlessTerminated
  <2> QED BY <2>2, <2>3
<1>6. L \in SUBSET {g \in Grants : IsRow(grant[g])} /\ \A g \in L : grant[g].cbsd = c
  BY RowsOfRows
<1>7. DOMAIN rows = L
  OBVIOUS
<1> HIDE DEF rows, L
<1>8. /\ w.pc = "open" /\ w.op = "register" /\ w.cbsd = c /\ w.old = Loaded(L)
      /\ w.new = Left(rows) /\ w.cbsdRow = row /\ w.code = SUCCESS
  BY DEF Work
<1>9. /\ UpdateOK(w) /\ InsertOK(w) /\ \A g \in Grants : Touches(w, g) => g \in L
      /\ w.old \in [Grants -> GrantRow \cup {None}]
      /\ w.new \in [Grants -> GrantRow \cup {None, Deleted}]
  BY <1>5, <1>6, <1>7, <1>8, SuccessorsOK
<1>10. w \in Session
  BY <1>3, <1>9 DEF Work, Session, Ops, SUCCESS
<1>11. WorkOK(w)
  <2>1. ShapeOK(w) /\ SeenOK(w) /\ OwnerOK(w)
    BY <1>8 DEF ShapeOK, SeenOK, OwnerOK, IsOpen
  <2>2. \A g \in L : Touches(w, g) /\ w.new[g] = rows[g]
    BY <1>6, <1>7, <1>8 DEF Touches, Loaded, Left, IsRow
  <2>3. RegistrationOK(w)
    BY <1>2, <1>3, <1>4, <1>5, <1>8, <2>2 DEF RegistrationOK, CbsdRow, L
  <2> QED BY <1>9, <2>1, <2>3 DEF WorkOK
<1>12. \A t \in Sessions \ {s} : Apart(w, sess[t])
  BY <1>1, <1>8, <1>9, LocksApart
<1> QED BY <1>1, <1>10, <1>11, <1>12, OpenInductive DEF Open

(* process_deregistration: every grant row goes with the CBSD row.         *)
LEMMA DeregisterInductive ==
    ASSUME IInv, PostgreSQL, NEW s \in Sessions, NEW c \in Cbsds, NEW cert \in Certs,
           Deregister(s, c, cert)
    PROVE  IInv'
<1> DEFINE L == RowsOf(c)
           rows == [g \in L |-> Deleted]
           row == [cbsd[c] EXCEPT !.present = FALSE]
           w == Work("deregister", c, cert, Loaded(L), Left(rows), row, SUCCESS)
<1>1. Open(s, w) /\ CbsdFree(c) /\ RowsFree(L)
  BY DEF Deregister
<1>2. cbsd[c] \in CbsdRow /\ c # None
  BY ConstantsAssumption DEF IInv, TypeOK
<1>3. row \in CbsdRow /\ row.pk = cbsd[c].pk /\ row.cert = cbsd[c].cert
  BY <1>2 DEF CbsdRow
<1> HIDE DEF row
<1>4. row # None
  BY <1>3, NoRowAssumption
<1>5. L \in SUBSET {g \in Grants : IsRow(grant[g])} /\ \A g \in L : grant[g].cbsd = c
  BY RowsOfRows
<1> HIDE DEF L
<1>6. /\ w.pc = "open" /\ w.op = "deregister" /\ w.cbsd = c /\ w.old = Loaded(L)
      /\ w.new = Left(rows) /\ w.cbsdRow = row /\ w.code = SUCCESS
  BY DEF Work
<1>7. \A g \in Grants : /\ g \in L => w.old[g] = grant[g] /\ w.new[g] = Deleted
                        /\ g \notin L => w.old[g] = None /\ w.new[g] = None
  BY <1>6 DEF Loaded, Left
<1>8. /\ w.old \in [Grants -> GrantRow \cup {None}]
      /\ w.new \in [Grants -> GrantRow \cup {None, Deleted}]
  BY <1>5, <1>6 DEF Loaded, Left, IInv, TypeOK, IsRow
<1>9. UpdateOK(w) /\ InsertOK(w)
  BY <1>5, <1>6, <1>7, NoRowAssumption DEF UpdateOK, InsertOK, Inserts, Touches, Writes,
     IsRow
<1>10. w \in Session
  BY <1>3, <1>8 DEF Work, Session, Ops, SUCCESS
<1>11. WorkOK(w)
  <2>1. ShapeOK(w) /\ SeenOK(w) /\ OwnerOK(w)
    BY <1>6 DEF ShapeOK, SeenOK, OwnerOK, IsOpen
  <2>2. RegistrationOK(w)
    BY <1>3, <1>4, <1>6, <1>7 DEF RegistrationOK, L, RowsOf
  <2> QED BY <1>9, <2>1, <2>2 DEF WorkOK
<1>12. \A t \in Sessions \ {s} : Apart(w, sess[t])
  BY <1>1, <1>6, <1>7, LocksApart DEF Touches
<1> QED BY <1>1, <1>10, <1>11, <1>12, OpenInductive DEF Open

(* process_heartbeat: whatever the answer, the row is left a successor.    *)
LEMMA HeartbeatInductive ==
    ASSUME IInv, PostgreSQL, NEW s \in Sessions, NEW c \in Cbsds, NEW cert \in Certs,
           NEW g \in Grants, NEW opState \in {"GRANTED", "AUTHORIZED"},
           Heartbeat(s, c, g, cert, opState)
    PROVE  IInv'
<1>1. PICK a \in HeartbeatAnswers(grant[g], opState) :
         Open(s, Work("heartbeat", c, cert, Loaded({g}), Left([x \in {g} |-> a.row]),
                      None, a.code))
  BY DEF Heartbeat
<1> DEFINE rows == [x \in {g} |-> a.row]
           w == Work("heartbeat", c, cert, Loaded({g}), Left(rows), None, a.code)
<1>2. CbsdFree(c) /\ RowsFree({g}) /\ g \in RowsOf(c) /\ now \in Nat
  BY DEF Heartbeat, IInv, TypeOK
<1>3. grant[g] \in GrantRow /\ RowOK(grant[g]) /\ IsRow(grant[g]) /\ grant[g].cbsd = c
  BY <1>2 DEF IInv, TypeOK, RowsOK, RowsOf, IsRow
<1>4. Successor(grant[g], a.row) /\ a.code \in Nat
  BY <1>2, <1>3, HeartbeatRow
<1>5. DOMAIN rows = {g} /\ \A x \in {g} : Successor(grant[x], rows[x])
  BY <1>4
<1> HIDE DEF rows
<1>6. /\ w.pc = "open" /\ w.op = "heartbeat" /\ w.cbsd = c /\ w.old = Loaded({g})
      /\ w.new = Left(rows) /\ w.cbsdRow = None /\ w.code = a.code
  BY DEF Work
<1>7. /\ UpdateOK(w) /\ InsertOK(w) /\ \A x \in Grants : Touches(w, x) => x \in {g}
      /\ w.old \in [Grants -> GrantRow \cup {None}]
      /\ w.new \in [Grants -> GrantRow \cup {None, Deleted}]
  <2>1. /\ {g} \in SUBSET {x \in Grants : IsRow(grant[x])}
        /\ \A x \in {g} : grant[x].cbsd = w.cbsd
    BY <1>3, <1>6
  <2> QED BY <1>5, <1>6, <2>1, SuccessorsOK
<1>8. w \in Session
  BY <1>4, <1>7 DEF Work, Session, Ops
<1>9. WorkOK(w)
  <2>1. ShapeOK(w) /\ SeenOK(w) /\ OwnerOK(w) /\ RegistrationOK(w)
    BY <1>6 DEF ShapeOK, SeenOK, OwnerOK, RegistrationOK, IsOpen
  <2> QED BY <1>7, <2>1 DEF WorkOK
<1>10. \A t \in Sessions \ {s} : Apart(w, sess[t])
  BY <1>2, <1>6, <1>7, LocksApart
<1> QED BY <1>1, <1>8, <1>9, <1>10, OpenInductive DEF Open, rows

(* process_relinquishment: the row is left RELINQUISHED, or alone.         *)
LEMMA RelinquishInductive ==
    ASSUME IInv, PostgreSQL, NEW s \in Sessions, NEW c \in Cbsds, NEW cert \in Certs,
           NEW g \in Grants, Relinquish(s, c, g, cert)
    PROVE  IInv'
<1> DEFINE rows == [x \in {g} |-> ApplyGrantEvent(grant[x], "relinquish", now)]
           w == Work("relinquish", c, cert, Loaded({g}), Left(rows), None, SUCCESS)
<1>1. /\ Open(s, w) /\ CbsdFree(c) /\ RowsFree({g})
      /\ g \in RowsOf(c) /\ now \in Nat
  BY DEF Relinquish, ActiveGrants, IInv, TypeOK
<1>2. grant[g] \in GrantRow /\ RowOK(grant[g]) /\ IsRow(grant[g]) /\ grant[g].cbsd = c
  BY <1>1 DEF IInv, TypeOK, RowsOK, RowsOf, IsRow
<1>3. DOMAIN rows = {g} /\ \A x \in {g} : Successor(grant[x], rows[x])
  BY <1>2, EventRow DEF GrantEvents
<1> HIDE DEF rows
<1>4. /\ w.pc = "open" /\ w.op = "relinquish" /\ w.cbsd = c /\ w.old = Loaded({g})
      /\ w.new = Left(rows) /\ w.cbsdRow = None /\ w.code = SUCCESS
  BY DEF Work
<1>5. /\ UpdateOK(w) /\ InsertOK(w) /\ \A x \in Grants : Touches(w, x) => x \in {g}
      /\ w.old \in [Grants -> GrantRow \cup {None}]
      /\ w.new \in [Grants -> GrantRow \cup {None, Deleted}]
  <2>1. /\ {g} \in SUBSET {x \in Grants : IsRow(grant[x])}
        /\ \A x \in {g} : grant[x].cbsd = w.cbsd
    BY <1>2, <1>4
  <2> QED BY <1>3, <1>4, <2>1, SuccessorsOK
<1>6. w \in Session
  BY <1>5 DEF Work, Session, Ops, SUCCESS
<1>7. WorkOK(w)
  <2>1. ShapeOK(w) /\ SeenOK(w) /\ OwnerOK(w) /\ RegistrationOK(w)
    BY <1>4 DEF ShapeOK, SeenOK, OwnerOK, RegistrationOK, IsOpen
  <2> QED BY <1>5, <2>1 DEF WorkOK
<1>8. \A t \in Sessions \ {s} : Apart(w, sess[t])
  BY <1>1, <1>4, <1>5, LocksApart
<1> QED BY <1>1, <1>6, <1>7, <1>8, OpenInductive DEF Open

(* apply_cpas_decisions: each decided row is left a successor; the row     *)
(* locks, not a CBSD lock, keep the handlers away.                         *)
LEMMA CpasInductive ==
    ASSUME IInv, PostgreSQL, NEW s \in Sessions, ApplyCpasDecisions(s)
    PROVE  IInv'
<1>1. PICK L \in SUBSET {g \in Grants : IsRow(grant[g])} :
         /\ RowsFree(L)
         /\ \E action \in [L -> CpasActions] :
               Open(s, Work("cpas", None, None, Loaded(L),
                            Left([g \in L |-> ApplyDecision(grant[g], action[g])]),
                            None, SUCCESS))
  BY DEF ApplyCpasDecisions
<1>2. PICK action \in [L -> CpasActions] :
         Open(s, Work("cpas", None, None, Loaded(L),
                      Left([g \in L |-> ApplyDecision(grant[g], action[g])]),
                      None, SUCCESS))
  BY <1>1
<1> DEFINE rows == [g \in L |-> ApplyDecision(grant[g], action[g])]
           w == Work("cpas", None, None, Loaded(L), Left(rows), None, SUCCESS)
<1>3. \A g \in L : Successor(grant[g], rows[g])
  <2> SUFFICES ASSUME NEW g \in L
               PROVE  Successor(grant[g], ApplyDecision(grant[g], action[g]))
    OBVIOUS
  <2>1. grant[g] \in GrantRow /\ RowOK(grant[g])
    BY DEF IInv, TypeOK, RowsOK, IsRow
  <2>2. /\ Successor(grant[g], grant[g])
        /\ Successor(grant[g], ApplyGrantEvent(grant[g], "terminate", now))
        /\ Successor(grant[g], ApplyGrantEvent(grant[g], "suspend", now))
    BY <2>1, SameRow, EventRow DEF GrantEvents
  <2> QED BY <2>2 DEF ApplyDecision
<1>4. DOMAIN rows = L
  OBVIOUS
<1> HIDE DEF rows
<1>5. /\ w.pc = "open" /\ w.op = "cpas" /\ w.cbsd = None /\ w.old = Loaded(L)
      /\ w.new = Left(rows) /\ w.cbsdRow = None /\ w.code = SUCCESS
  BY DEF Work
<1>6. /\ UpdateOK(w) /\ InsertOK(w) /\ \A g \in Grants : Touches(w, g) => g \in L
      /\ w.old \in [Grants -> GrantRow \cup {None}]
      /\ w.new \in [Grants -> GrantRow \cup {None, Deleted}]
  BY <1>3, <1>4, <1>5, SuccessorsOK
<1>7. w \in Session
  BY <1>6 DEF Work, Session, Ops, SUCCESS
<1>8. WorkOK(w)
  <2>1. ShapeOK(w) /\ SeenOK(w) /\ OwnerOK(w) /\ RegistrationOK(w)
    BY <1>5 DEF ShapeOK, SeenOK, OwnerOK, RegistrationOK, IsOpen
  <2> QED BY <1>6, <2>1 DEF WorkOK
<1>9. \A t \in Sessions \ {s} : Apart(w, sess[t])
  BY <1>1, <1>5, <1>6, LocksApart DEF ApplyCpasDecisions
<1> QED BY <1>2, <1>7, <1>8, <1>9, OpenInductive DEF Open, rows

(* An admission opens with the conflict check and the certificate re-check *)
(* made under the locks.                                                   *)
LEMMA AdmitInductive ==
    ASSUME IInv, PostgreSQL, NEW s \in Sessions, Admit(s)
    PROVE  IInv'
<1> DEFINE c == sess[s].cbsd
           range == sess[s].range
           cert == sess[s].cert
<1>1. PICK g \in {x \in Grants : grant[x] = None}, e \in ExpireTimes(range),
           h \in Horizons :
         Open(s, Work("grant", c, cert, Untouched,
                      [Untouched EXCEPT ![g] = NewGrant(c, range, e, h)],
                      None, SUCCESS))
  BY DEF Admit
<1> DEFINE row == NewGrant(c, range, e, h)
           w == Work("grant", c, cert, Untouched, [Untouched EXCEPT ![g] = row],
                     None, SUCCESS)
<1>2. /\ IapFree /\ CbsdFree(c) /\ cbsd[c].present /\ ~HasFreqConflict(c, range)
      /\ Owns(IdentityMapped(sess[s].seen, cbsd[c]), cert)
      /\ sess[s].pc = "screened"
  BY DEF Admit
<1>3. /\ c \in Cbsds /\ cert \in Certs /\ range \in Ranges
      /\ cbsd[c] \in CbsdRow /\ now \in Nat
      /\ SeenOK(sess[s])
  BY <1>2 DEF IInv, TypeOK, SessionsOK, WorkOK, ShapeOK
<1> HIDE DEF c, range, cert
<1>4. /\ row \in GrantRow /\ RowOK(row) /\ row.cbsd = c /\ row.range = range
      /\ row.reg = cbsd[c].reg /\ ~row.term
  <2>1. e \in Nat
    BY <1>3, ExpireTimesNat
  <2>2. /\ TransmitExpireTime(h, e) \in Nat /\ TransmitExpireTime(h, e) <= e
        /\ TransmitExpireTime(h, e) <= now + h
    BY <1>3, <2>1, DeadlineBounded
  <2> QED BY <1>3, <2>1, <2>2 DEF NewGrant, GrantRow, CbsdRow, RowOK, FlagsInSync,
          GrantStates, OperableStates, TERMINAL_GRANT_STATES
<1> HIDE DEF row
<1>5. row \notin {None, Deleted}
  BY <1>4, NoRowAssumption
<1>6. /\ w.pc = "open" /\ w.op = "grant" /\ w.cbsd = c /\ w.cert = cert
      /\ w.old = Untouched /\ w.new = [Untouched EXCEPT ![g] = row]
      /\ w.cbsdRow = None /\ w.code = SUCCESS
  BY DEF Work
<1>7. /\ w.old \in [Grants -> GrantRow \cup {None}]
      /\ w.new \in [Grants -> GrantRow \cup {None, Deleted}]
      /\ \A x \in Grants : w.old[x] = None /\ w.new[x] = IF x = g THEN row ELSE None
  BY <1>4, <1>6 DEF Untouched
<1>8. w \in Session
  BY <1>3, <1>7 DEF Work, Session, Ops, SUCCESS
<1>9. WorkOK(w)
  <2>1. ShapeOK(w) /\ SeenOK(w) /\ RegistrationOK(w)
    BY <1>3, <1>6 DEF ShapeOK, SeenOK, RegistrationOK, IsOpen
  <2>2. OwnerOK(w)
    BY <1>2, <1>3, <1>6 DEF OwnerOK, Owns, IdentityMapped, SeenOK, c
  <2>3. UpdateOK(w)
    BY <1>7 DEF UpdateOK, Touches
  <2>4. InsertOK(w)
    <3>1. \A x \in Grants : Inserts(w, x) => x = g
      BY <1>7 DEF Inserts, Writes
    <3>2. \A x \in ActiveGrants(c) : ~Overlaps(grant[x].range, row.range)
      BY <1>2, <1>4 DEF HasFreqConflict
    <3>3. w.new[g] = row /\ grant[g] = None
      BY <1>1, <1>7
    <3> QED BY <1>4, <1>6, <3>1, <3>2, <3>3 DEF InsertOK
  <2> QED BY <2>1, <2>2, <2>3, <2>4 DEF WorkOK
<1>10. \A t \in Sessions \ {s} : Apart(w, sess[t])
  <2>1. RowsFree({}) /\ \A x \in Grants : Touches(w, x) => x \in {}
    BY <1>7 DEF RowsFree, Touches
  <2> QED BY <1>2, <1>6, <2>1, LocksApart
<1> QED BY <1>1, <1>8, <1>9, <1>10, OpenInductive DEF Open, c, row, range, cert

(* process_grant before its locks: what was read is remembered, not held.  *)
LEMMA ScreenInductive ==
    ASSUME IInv, NEW s \in Sessions, NEW c \in Cbsds, NEW cert \in Certs,
           NEW range \in Ranges, Screen(s, c, cert, range)
    PROVE  IInv'
<1> DEFINE w == [Idle EXCEPT !.pc = "screened", !.op = "grant", !.cbsd = c,
                             !.cert = cert, !.range = range, !.seen = cbsd[c]]
<1>1. cbsd[c] \in CbsdRow /\ cbsd[c].cert = cert
  BY DEF Screen, Owns, IInv, TypeOK
<1>2. /\ w.pc = "screened" /\ w.op = "grant" /\ w.cbsd = c /\ w.cert = cert
      /\ w.range = range /\ w.seen = cbsd[c] /\ w.old = Untouched
      /\ w.new = Untouched
  BY DEF Idle
<1>3. /\ UpdateOK(w) /\ InsertOK(w)
      /\ w.old \in [Grants -> GrantRow \cup {None}]
      /\ w.new \in [Grants -> GrantRow \cup {None, Deleted}]
  BY <1>2, NothingTouched
<1>4. w \in Session
  BY <1>1, <1>3 DEF Idle, Session, Ops, SUCCESS
<1>5. WorkOK(w)
  BY <1>1, <1>2, <1>3 DEF WorkOK, ShapeOK, RegistrationOK, SeenOK, OwnerOK, IsOpen,
     CbsdRow
<1>6. \A t \in Sessions \ {s} : Apart(w, sess[t])
  BY <1>2 DEF Apart, IsOpen
<1> QED BY <1>4, <1>5, <1>6, OpenInductive DEF Screen

(* A refused or aborted request leaves its session idle.                   *)
LEMMA CloseInductive ==
    ASSUME IInv, NEW s \in Sessions, sess' = [sess EXCEPT ![s] = Idle],
           UNCHANGED <<now, cbsd, grant>>
    PROVE  IInv'
<1>1. /\ Idle.pc = "idle" /\ Idle.old = Untouched /\ Idle.new = Untouched
  BY DEF Idle
<1>2. /\ UpdateOK(Idle) /\ InsertOK(Idle)
      /\ Idle.old \in [Grants -> GrantRow \cup {None}]
      /\ Idle.new \in [Grants -> GrantRow \cup {None, Deleted}]
  BY <1>1, NothingTouched
<1>3. Idle \in Session
  BY <1>2 DEF Idle, Session, Ops, SUCCESS
<1>4. WorkOK(Idle)
  BY <1>1, <1>2 DEF WorkOK, ShapeOK, RegistrationOK, SeenOK, OwnerOK, IsOpen
<1>5. \A t \in Sessions \ {s} : Apart(Idle, sess[t])
  BY <1>1 DEF Apart, IsOpen
<1> QED BY <1>3, <1>4, <1>5, OpenInductive

(***************************************************************************)
(* Time passes: expiries come closer and horizons move on.                 *)
(***************************************************************************)
LEMMA TickInductive ==
    ASSUME IInv, Tick
    PROVE  IInv'
<1>1. now \in Nat /\ now' = now + 1 /\ UNCHANGED <<cbsd, grant, sess>>
  BY DEF Tick, IInv, TypeOK
<1>2. TypeOK'
  BY <1>1 DEF IInv, TypeOK
<1>3. \A row \in GrantRow : /\ RowOK(row) => RowOK(row)'
                            /\ Operable(row)' => Operable(row)
  <2> SUFFICES ASSUME NEW row \in GrantRow
               PROVE  /\ RowOK(row) => RowOK(row)'
                      /\ Operable(row)' => Operable(row)
    OBVIOUS
  <2>1. row.exp \in Nat /\ row.tx \in Nat
    BY DEF GrantRow
  <2>2. \A h \in Horizons : row.tx <= now + h => row.tx <= now' + h
    BY <1>1, <2>1, ConstantsAssumption
  <2> QED BY <1>1, <2>1, <2>2 DEF RowOK, FlagsInSync, Operable, ResolveGrantState,
          GrantExpired
<1>4. \A row \in GrantRow : RowCurrent(row) => RowCurrent(row)'
  BY <1>1, <1>3 DEF RowCurrent, Operable
<1>5. SessionsOK'
  <2> SUFFICES ASSUME NEW s \in Sessions PROVE WorkOK(sess[s])'
    BY DEF SessionsOK
  <2> DEFINE w == sess[s]
  <2>1. w \in Session /\ WorkOK(w)
    BY DEF IInv, TypeOK, SessionsOK
  <2>2. w' = w
    BY <1>1
  <2>3. \A g \in Grants : w.new[g] \in GrantRow \cup {None, Deleted}
    BY <2>1 DEF Session
  <2> HIDE DEF w
  <2>4. UpdateOK(w)'
    BY <1>1, <1>3, <1>4, <2>1, <2>2, <2>3 DEF WorkOK, UpdateOK, Touches, Writes, Follows
  <2>5. InsertOK(w)'
    BY <1>1, <1>3, <2>1, <2>2 DEF WorkOK, InsertOK, Inserts, Touches, Writes,
       ActiveGrants, RowsOf
  <2>6. RegistrationOK(w)'
    BY <1>1, <1>3, <2>1, <2>2, <2>3 DEF WorkOK, RegistrationOK, UpdateOK, IsOpen,
       Touches, Writes, RowsOf, Operable
  <2>7. ShapeOK(w)' /\ SeenOK(w)' /\ OwnerOK(w)'
    BY <1>1, <2>1, <2>2 DEF WorkOK, ShapeOK, SeenOK, OwnerOK, IsOpen
  <2> QED BY <2>4, <2>5, <2>6, <2>7 DEF WorkOK, w
<1>6. Exclusion'
  BY <1>1 DEF IInv, Exclusion, Apart, IsOpen, Touches
<1>7. RowsOK' /\ NoOverlappingGrants' /\ UsableGrantsAreCurrent'
  <2>1. \A g \in Grants : IsRow(grant[g]) => grant[g] \in GrantRow
    BY DEF IInv, TypeOK, IsRow
  <2> QED BY <1>1, <1>3, <2>1 DEF IInv, RowsOK, NoOverlappingGrants,
          UsableGrantsAreCurrent, Operable, IsRow
<1> QED BY <1>2, <1>5, <1>6, <1>7 DEF IInv

(***************************************************************************)
(* db.commit().  Because a loaded copy is still the row, writing only the  *)
(* changed columns writes the row the handler computed.                    *)
(***************************************************************************)
LEMMA MergeFresh ==
    ASSUME NEW row \in GrantRow, NEW new \in GrantRow,
           new.cbsd = row.cbsd, new.range = row.range, new.reg = row.reg
    PROVE  Merge(row, row, new) = new
  BY DEF Merge, GrantRow

(* What db.commit() leaves in the tables: just what the handler computed.  *)
LEMMA CommitWrites ==
    ASSUME IInv, NEW s \in Sessions, Commit(s)
    PROVE  /\ \A g \in Grants :
                 grant'[g] = IF Writes(sess[s], g) THEN sess[s].new[g] ELSE grant[g]
           /\ DOMAIN grant' = Grants
           /\ \A c \in Cbsds :
                 cbsd'[c] = IF sess[s].cbsdRow # None /\ c = sess[s].cbsd
                              THEN sess[s].cbsdRow ELSE cbsd[c]
           /\ cbsd' \in [Cbsds -> CbsdRow]
           /\ sess' = [sess EXCEPT ![s] = Idle]
           /\ now' = now
<1> DEFINE w == sess[s]
<1>1. w \in Session /\ UpdateOK(w) /\ InsertOK(w)
  BY DEF IInv, TypeOK, SessionsOK, WorkOK
<1>2. /\ grant' = [g \in Grants |-> Stored(grant[g], w.old[g], w.new[g])]
      /\ cbsd' = IF w.cbsdRow = None THEN cbsd ELSE [cbsd EXCEPT ![w.cbsd] = w.cbsdRow]
      /\ sess' = [sess EXCEPT ![s] = Idle] /\ now' = now
  BY DEF Commit
<1>3. w.old \in [Grants -> GrantRow \cup {None}]
      /\ w.new \in [Grants -> GrantRow \cup {None, Deleted}]
      /\ w.cbsdRow \in CbsdRow \cup {None}
  BY <1>1 DEF Session
<1> HIDE DEF w
<1>4. ASSUME NEW g \in Grants
      PROVE  Stored(grant[g], w.old[g], w.new[g])
                = IF Writes(w, g) THEN w.new[g] ELSE grant[g]
  <2>1. CASE ~Touches(w, g)
    <3>1. w.new[g] # Deleted
      BY <1>1, <2>1, NoRowAssumption DEF InsertOK, Inserts, Writes
    <3>2. w.old[g] = None
      BY <2>1 DEF Touches
    <3>3. CASE w.new[g] = None
      BY <3>2, <3>3 DEF Writes, Stored
    <3>4. CASE w.new[g] # None
      BY <3>1, <3>2, <3>4 DEF Writes, Stored
    <3> QED BY <3>3, <3>4
  <2>2. CASE Touches(w, g)
    <3>1. w.old[g] = grant[g] /\ w.new[g] # None /\ grant[g] \in GrantRow
      BY <1>1, <1>3, <2>2 DEF UpdateOK, Touches, Writes
    <3>2. CASE w.new[g] = Deleted
      BY <3>1, <3>2, NoRowAssumption DEF Stored, Writes
    <3>3. CASE w.new[g] # Deleted
      <4>1. w.new[g] \in GrantRow
        BY <1>3, <3>1, <3>3
      <4>2. Follows(grant[g], w.new[g])
        BY <1>1, <2>2, <3>1, <3>3 DEF UpdateOK
      <4>3. Merge(grant[g], w.old[g], w.new[g]) = w.new[g]
        BY <3>1, <4>1, <4>2, MergeFresh DEF Follows
      <4> QED BY <2>2, <3>1, <3>3, <4>3 DEF Stored, Writes, Touches
    <3> QED BY <3>2, <3>3
  <2> QED BY <2>1, <2>2
<1>5. cbsd \in [Cbsds -> CbsdRow]
  BY DEF IInv, TypeOK
<1>6. /\ \A c \in Cbsds : cbsd'[c] = IF w.cbsdRow # None /\ c = w.cbsd
                                       THEN w.cbsdRow ELSE cbsd[c]
      /\ cbsd' \in [Cbsds -> CbsdRow]
  BY <1>2, <1>3, <1>5
<1>7. DOMAIN grant' = Grants /\ \A g \in Grants :
         grant'[g] = IF Writes(w, g) THEN w.new[g] ELSE grant[g]
  BY <1>2, <1>4
<1> QED BY <1>2, <1>6, <1>7 DEF w

(* _overlaps does not depend on the order of its arguments.                *)
LEMMA OverlapsSymmetric ==
    ASSUME NEW a \in Ranges, NEW b \in Ranges
    PROVE  Overlaps(a, b) <=> Overlaps(b, a)
  BY ConstantsAssumption DEF Overlaps

(* The tables after a commit.                                              *)
LEMMA CommitTables ==
    ASSUME IInv, NEW s \in Sessions, Commit(s)
    PROVE  /\ TypeOK' /\ RowsOK' /\ NoOverlappingGrants' /\ UsableGrantsAreCurrent'
<1> DEFINE w == sess[s]
<1>1. /\ w \in Session /\ WorkOK(w) /\ IsOpen(w)
      /\ \A g \in Grants : w.new[g] \in GrantRow \cup {None, Deleted}
  BY DEF IInv, TypeOK, SessionsOK, Session, Commit, IsOpen
<1>2. /\ \A g \in Grants : grant'[g] = IF Writes(w, g) THEN w.new[g] ELSE grant[g]
      /\ DOMAIN grant' = Grants
      /\ \A c \in Cbsds : cbsd'[c] = IF w.cbsdRow # None /\ c = w.cbsd
                                       THEN w.cbsdRow ELSE cbsd[c]
      /\ cbsd' \in [Cbsds -> CbsdRow]
      /\ sess' = [sess EXCEPT ![s] = Idle] /\ now' = now
  BY CommitWrites
<1>3. \A g \in Grants : grant[g] \in GrantRow \cup {None, Deleted}
  BY DEF IInv, TypeOK
<1> HIDE DEF w
<1>4. TypeOK'
  <2>1. grant' \in [Grants -> GrantRow \cup {None, Deleted}]
    <3>1. \A g \in Grants : grant'[g] \in GrantRow \cup {None, Deleted}
      BY <1>1, <1>2, <1>3
    <3>2. grant' = [g \in Grants |-> grant'[g]]
      BY DEF Commit
    <3> QED BY <3>1, <3>2
  <2>2. Idle \in Session
    BY DEF Idle, Untouched, Session, Ops, SUCCESS
  <2> QED BY <1>2, <2>1, <2>2 DEF IInv, TypeOK
<1>5. RowsOK'
  <2> SUFFICES ASSUME NEW g \in Grants, IsRow(grant'[g])
               PROVE  RowOK(grant[g])'
    BY DEF RowsOK, IsRow
  <2>1. RowOK(grant'[g])
    BY <1>1, <1>2 DEF IInv, RowsOK, WorkOK, UpdateOK, InsertOK, Inserts, Writes, IsRow
  <2> QED BY <1>2, <2>1 DEF RowOK
<1>6. ASSUME NEW g \in Grants, IsRow(grant'[g]), ~Inserts(w, g)
      PROVE  /\ IsRow(grant[g])
             /\ grant'[g].cbsd = grant[g].cbsd
             /\ grant'[g].range = grant[g].range
             /\ ~grant'[g].term => ~grant[g].term
             /\ Writes(w, g) => Touches(w, g)
  <2>1. CASE Writes(w, g)
    <3>1. Touches(w, g) /\ w.old[g] = grant[g] /\ w.new[g] = grant'[g]
      BY <1>1, <1>2, <1>6, <2>1 DEF WorkOK, UpdateOK, Inserts
    <3>2. grant[g] # Deleted
      BY <1>1, <3>1, NoRowAssumption DEF Session, Touches
    <3>3. Follows(grant[g], grant'[g])
      BY <1>1, <1>6, <3>1 DEF WorkOK, UpdateOK, IsRow
    <3> QED BY <3>1, <3>2, <3>3 DEF Follows, Touches, IsRow
  <2>2. CASE ~Writes(w, g)
    BY <1>2, <1>6, <2>2
  <2> QED BY <2>1, <2>2
<1>7. NoOverlappingGrants'
  <2> SUFFICES ASSUME NEW g \in Grants, NEW h \in Grants, g # h,
                      IsRow(grant'[g]), IsRow(grant'[h]),
                      grant'[g].cbsd = grant'[h].cbsd,
                      ~grant'[g].term, ~grant'[h].term
               PROVE  ~Overlaps(grant'[g].range, grant'[h].range)
    BY DEF NoOverlappingGrants, IsRow
  <2>1. CASE ~Inserts(w, g) /\ ~Inserts(w, h)
    BY <1>6, <2>1 DEF IInv, NoOverlappingGrants
  <2>2. ASSUME NEW x \in Grants, NEW y \in Grants, x # y, Inserts(w, x),
               IsRow(grant'[y]), grant'[y].cbsd = grant'[x].cbsd, ~grant'[y].term
        PROVE  ~Overlaps(grant'[y].range, grant'[x].range)
    <3>1. ~Inserts(w, y)
      BY <1>1, <2>2 DEF WorkOK, InsertOK
    <3>2. /\ IsRow(grant[y]) /\ ~grant[y].term /\ grant[y].cbsd = grant'[x].cbsd
          /\ grant'[y].range = grant[y].range
      BY <1>6, <2>2, <3>1
    <3>3. grant'[x] = w.new[x] /\ grant'[x].cbsd = w.cbsd
      BY <1>1, <1>2, <2>2 DEF WorkOK, InsertOK, Inserts
    <3>4. y \in ActiveGrants(w.cbsd)
      BY <3>2, <3>3 DEF ActiveGrants, RowsOf
    <3> QED BY <1>1, <2>2, <3>2, <3>3, <3>4 DEF WorkOK, InsertOK
  <2>3. CASE Inserts(w, h)
    BY <2>2, <2>3
  <2>4. CASE Inserts(w, g)
    <3>1. ~Overlaps(grant'[h].range, grant'[g].range)
      BY <2>2, <2>4
    <3>2. grant'[g].range \in Ranges /\ grant'[h].range \in Ranges
      BY <1>4 DEF TypeOK, GrantRow, IsRow
    <3> QED BY <3>1, <3>2, OverlapsSymmetric
  <2> QED BY <2>1, <2>3, <2>4
<1>8. UsableGrantsAreCurrent'
  <2> SUFFICES ASSUME NEW g \in Grants, IsRow(grant'[g])
               PROVE  /\ cbsd'[grant'[g].cbsd].present
                      /\ Operable(grant'[g])
                            => grant'[g].reg = cbsd'[grant'[g].cbsd].reg
    BY <1>2 DEF UsableGrantsAreCurrent, IsRow, Operable, ResolveGrantState, GrantExpired
  <2> DEFINE c == grant'[g].cbsd
  <2>1. c \in Cbsds
    BY <1>4 DEF TypeOK, GrantRow, IsRow
  <2>2. CASE w.cbsdRow # None /\ c = w.cbsd
    <3>1. w.op \in {"register", "deregister"} /\ cbsd'[c] = w.cbsdRow
      BY <1>1, <1>2, <2>1, <2>2 DEF WorkOK, RegistrationOK
    <3>2. ~Inserts(w, g)
      BY <1>1, <3>1 DEF WorkOK, InsertOK
    <3>3. g \in RowsOf(c)
      BY <1>6, <3>2 DEF RowsOf
    <3>4. CASE w.op = "register"
      <4>1. Touches(w, g) /\ ~Operable(w.new[g]) /\ w.cbsdRow.present
        BY <1>1, <2>2, <3>3, <3>4 DEF WorkOK, RegistrationOK, Operable
      <4>2. grant'[g] = w.new[g]
        BY <1>1, <1>2, <4>1 DEF WorkOK, UpdateOK
      <4> QED BY <3>1, <4>1, <4>2
    <3>5. CASE w.op = "deregister"
      <4>1. w.new[g] = Deleted
        BY <1>1, <2>2, <3>3, <3>5 DEF WorkOK, RegistrationOK
      <4>2. grant'[g] = Deleted
        BY <1>2, <4>1, NoRowAssumption DEF Writes
      <4> QED BY <4>2 DEF IsRow
    <3> QED BY <3>1, <3>4, <3>5
  <2>3. CASE ~(w.cbsdRow # None /\ c = w.cbsd)
    <3>1. cbsd'[c] = cbsd[c]
      BY <1>2, <2>1, <2>3
    <3>2. CASE Inserts(w, g)
      <4>1. grant'[g] = w.new[g] /\ w.op = "grant" /\ c = w.cbsd
            /\ w.new[g].reg = cbsd[w.cbsd].reg
        BY <1>1, <1>2, <3>2 DEF WorkOK, InsertOK, Inserts
      <4>2. cbsd[w.cbsd].present
        BY <1>1, <4>1 DEF WorkOK, OwnerOK, Owns, IsOpen
      <4> QED BY <3>1, <4>1, <4>2
    <3>3. CASE ~Inserts(w, g)
      <4>1. IsRow(grant[g]) /\ c = grant[g].cbsd /\ cbsd[c].present
        BY <1>6, <3>3 DEF IInv, UsableGrantsAreCurrent
      <4>2. CASE Writes(w, g)
        <5>1. Touches(w, g) /\ grant'[g] = w.new[g]
          BY <1>2, <1>6, <3>3, <4>2
        <5>2. RowCurrent(w.new[g])
          BY <1>1, <5>1 DEF WorkOK, UpdateOK, IsRow
        <5> QED BY <3>1, <4>1, <5>1, <5>2 DEF RowCurrent, Operable
      <4>3. CASE ~Writes(w, g)
        BY <1>2, <3>1, <4>1, <4>3 DEF IInv, UsableGrantsAreCurrent, Operable
      <4> QED BY <4>2, <4>3
    <3> QED BY <3>2, <3>3
  <2> QED BY <2>2, <2>3
<1> QED BY <1>4, <1>5, <1>7, <1>8

(* The locks at work: a commit disturbs nothing another session relies on. *)
LEMMA CommitOthers ==
    ASSUME IInv, NEW s \in Sessions, NEW t \in Sessions, t # s, Commit(s)
    PROVE  WorkOK(sess[t])'
<1> DEFINE w == sess[s]
           v == sess[t]
<1>1. /\ w \in Session /\ WorkOK(w) /\ IsOpen(w)
      /\ v \in Session /\ WorkOK(v) /\ Apart(w, v)
  BY DEF IInv, TypeOK, SessionsOK, Exclusion, Commit, IsOpen
<1>2. /\ \A g \in Grants : grant'[g] = IF Writes(w, g) THEN w.new[g] ELSE grant[g]
      /\ \A c \in Cbsds : cbsd'[c] = IF w.cbsdRow # None /\ c = w.cbsd
                                       THEN w.cbsdRow ELSE cbsd[c]
      /\ now' = now
  BY CommitWrites
<1>3. v' = v
  BY DEF Commit, IInv, TypeOK
<1>4. /\ cbsd \in [Cbsds -> CbsdRow]
      /\ \A g \in Grants : grant[g] \in GrantRow \cup {None, Deleted}
  BY DEF IInv, TypeOK
<1> HIDE DEF w, v
<1>5. w.cbsdRow # None => /\ w.op \in {"register", "deregister"}
                          /\ w.cbsd \in Cbsds
                          /\ w.cbsdRow \in CbsdRow
                          /\ w.cbsdRow.pk >= cbsd[w.cbsd].pk
                          /\ w.cbsdRow.pk = cbsd[w.cbsd].pk
                                => w.cbsdRow.cert = cbsd[w.cbsd].cert
  <2>1. w.cbsdRow # None => w.op \in {"register", "deregister"} /\ w.cbsd \in Cbsds
    BY <1>1 DEF WorkOK, RegistrationOK, ShapeOK
  <2>2. w.cbsdRow # None => w.cbsdRow \in CbsdRow
    BY <1>1 DEF Session
  <2>3. w.cbsd \in Cbsds => cbsd[w.cbsd].pk \in Nat
    BY <1>4 DEF CbsdRow
  <2> QED BY <1>1, <2>1, <2>2, <2>3 DEF WorkOK, RegistrationOK
<1>6. ASSUME NEW g \in Grants, Writes(w, g), IsRow(grant'[g])
      PROVE  /\ w.op # "cpas" => grant'[g].cbsd = w.cbsd
             /\ w.op # "grant" => /\ Touches(w, g) /\ IsRow(grant[g])
                                  /\ grant'[g].cbsd = grant[g].cbsd
  <2>1. CASE Inserts(w, g)
    BY <1>1, <1>2, <1>6, <2>1 DEF WorkOK, InsertOK
  <2>2. CASE ~Inserts(w, g)
    <3>1. /\ Touches(w, g) /\ w.old[g] = grant[g] /\ w.new[g] = grant'[g]
          /\ w.op # "cpas" => grant[g].cbsd = w.cbsd
      BY <1>1, <1>2, <1>6, <2>2 DEF WorkOK, UpdateOK, Inserts
    <3>2. grant[g] # None /\ grant[g] # Deleted
      BY <1>1, <3>1, NoRowAssumption DEF Session, Touches
    <3>3. grant'[g].cbsd = grant[g].cbsd
      BY <1>1, <1>6, <3>1 DEF WorkOK, UpdateOK, Follows, IsRow
    <3> QED BY <3>1, <3>2, <3>3 DEF IsRow
  <2> QED BY <2>1, <2>2
<1>7. CASE ~IsOpen(v)
  <2>1. v.old = Untouched /\ v.new = Untouched
    BY <1>1, <1>7 DEF WorkOK, ShapeOK
  <2>2. UpdateOK(v)' /\ InsertOK(v)'
    BY <1>3, <2>1 DEF UpdateOK, InsertOK, Inserts, Touches, Writes, Untouched
  <2>3. ShapeOK(v)' /\ RegistrationOK(v)' /\ OwnerOK(v)'
    BY <1>1, <1>3, <1>7 DEF WorkOK, ShapeOK, RegistrationOK, OwnerOK, IsOpen
  <2>4. SeenOK(v)'
    <3> SUFFICES ASSUME v.pc = "screened"
                 PROVE  /\ v.seen.pk <= cbsd'[v.cbsd].pk
                        /\ v.seen.pk = cbsd'[v.cbsd].pk
                              => v.seen.cert = cbsd'[v.cbsd].cert
      BY <1>3 DEF SeenOK
    <3>1. /\ v.cbsd \in Cbsds
          /\ v.seen.pk <= cbsd[v.cbsd].pk
          /\ v.seen.pk = cbsd[v.cbsd].pk => v.seen.cert = cbsd[v.cbsd].cert
      BY <1>1 DEF WorkOK, ShapeOK, SeenOK
    <3>2. v.seen.pk \in Nat /\ cbsd[v.cbsd].pk \in Nat
      BY <1>1, <1>4, <3>1 DEF WorkOK, ShapeOK, CbsdRow
    <3>3. CASE w.cbsdRow # None /\ v.cbsd = w.cbsd
      <4>1. cbsd'[v.cbsd] = w.cbsdRow /\ w.cbsdRow.pk \in Nat
        BY <1>2, <1>5, <3>1, <3>3 DEF CbsdRow
      <4> QED BY <1>5, <3>1, <3>2, <3>3, <4>1
    <3>4. CASE ~(w.cbsdRow # None /\ v.cbsd = w.cbsd)
      BY <1>2, <3>1, <3>4
    <3> QED BY <3>3, <3>4
  <2> QED BY <2>2, <2>3, <2>4 DEF WorkOK, v
<1>8. CASE IsOpen(v)
  <2>1. v.cbsd \in Cbsds => v.cbsd # w.cbsd /\ cbsd'[v.cbsd] = cbsd[v.cbsd]
    BY <1>1, <1>2, <1>5, <1>8, ConstantsAssumption DEF Apart
  <2>2. v.op # "cpas" => v.cbsd \in Cbsds
    BY <1>1, <1>8 DEF WorkOK, ShapeOK
  <2>3. RowsOf(v.cbsd)' \subseteq RowsOf(v.cbsd) \/ v.cbsd \notin Cbsds
    <3> SUFFICES ASSUME v.cbsd \in Cbsds, NEW g \in Grants, IsRow(grant'[g]),
                        grant'[g].cbsd = v.cbsd
                 PROVE  g \in RowsOf(v.cbsd)
      BY <1>3 DEF RowsOf, IsRow
    <3>1. CASE Writes(w, g)
      <4>1. w.op = "cpas"
        BY <1>6, <2>1, <3>1
      <4> QED BY <1>6, <3>1, <4>1 DEF RowsOf
    <3>2. CASE ~Writes(w, g)
      BY <1>2, <3>2 DEF RowsOf
    <3> QED BY <3>1, <3>2
  <2>4. UpdateOK(v)'
    <3> SUFFICES ASSUME NEW g \in Grants, Touches(v, g)
                 PROVE  grant'[g] = grant[g]
                        /\ (v.new[g] # Deleted => RowCurrent(v.new[g])')
      BY <1>1, <1>2, <1>3 DEF WorkOK, UpdateOK, Touches, Writes, RowOK, Follows
    <3>1. v.old[g] = grant[g] /\ grant[g] # None /\ grant[g] \in GrantRow
      BY <1>1, NoRowAssumption DEF WorkOK, UpdateOK, Touches, Session
    <3>2. ~Writes(w, g)
      BY <1>1, <1>8, <3>1 DEF Apart, WorkOK, InsertOK, Inserts
    <3>3. grant'[g] = grant[g]
      BY <1>2, <3>2
    <3>4. ASSUME v.new[g] # Deleted
          PROVE  RowCurrent(v.new[g])'
      <4>1. RowCurrent(v.new[g]) /\ v.new[g].cbsd = grant[g].cbsd
        BY <1>1, <3>1, <3>4 DEF WorkOK, UpdateOK, Follows
      <4>2. grant[g].cbsd \in Cbsds /\ g \in RowsOf(grant[g].cbsd)
        BY <3>1, NoRowAssumption DEF GrantRow, RowsOf, IsRow
      <4>3. ~(w.cbsdRow # None /\ grant[g].cbsd = w.cbsd)
        <5> SUFFICES ASSUME w.cbsdRow # None, grant[g].cbsd = w.cbsd PROVE FALSE
          OBVIOUS
        <5>1. CASE w.op = "register"
          <6>1. Touches(w, g)
            BY <1>1, <4>2, <5>1 DEF WorkOK, RegistrationOK
          <6> QED BY <1>1, <1>8, <6>1 DEF Apart
        <5>2. CASE w.op = "deregister"
          <6>1. w.new[g] = Deleted
            BY <1>1, <4>2, <5>2 DEF WorkOK, RegistrationOK
          <6> QED BY <3>2, <6>1, NoRowAssumption DEF Writes
        <5> QED BY <1>5, <5>1, <5>2
      <4>4. cbsd'[grant[g].cbsd] = cbsd[grant[g].cbsd]
        BY <1>2, <4>2, <4>3
      <4> QED BY <1>2, <1>3, <4>1, <4>4 DEF RowCurrent, ResolveGrantState, GrantExpired
    <3> QED BY <3>3, <3>4
  <2>5. InsertOK(v)'
    <3> SUFFICES ASSUME NEW g \in Grants, Inserts(v, g)
                 PROVE  /\ grant'[g] = None
                        /\ cbsd'[v.cbsd] = cbsd[v.cbsd]
                        /\ ActiveGrants(v.cbsd)' \subseteq ActiveGrants(v.cbsd)
                        /\ \A h \in ActiveGrants(v.cbsd)' : grant'[h] = grant[h]
      BY <1>1, <1>2, <1>3 DEF WorkOK, InsertOK, Inserts, Touches, Writes, RowOK
    <3>1. v.op = "grant" /\ grant[g] = None /\ w.op \notin {"grant", "cpas"}
      BY <1>1, <1>8 DEF WorkOK, InsertOK, Apart
    <3>2. ~Writes(w, g)
      BY <1>1, <3>1 DEF WorkOK, UpdateOK, InsertOK, Inserts, Touches
    <3>3. grant'[g] = None
      BY <1>2, <3>1, <3>2
    <3>4. v.cbsd \in Cbsds /\ v.cbsd # w.cbsd /\ cbsd'[v.cbsd] = cbsd[v.cbsd]
      BY <2>1, <2>2, <3>1
    <3>5. ASSUME NEW h \in ActiveGrants(v.cbsd)'
          PROVE  h \in ActiveGrants(v.cbsd) /\ grant'[h] = grant[h]
      <4>1. h \in Grants /\ IsRow(grant'[h]) /\ grant'[h].cbsd = v.cbsd
            /\ ~grant'[h].term
        BY <1>3 DEF ActiveGrants, RowsOf, IsRow
      <4>2. ~Writes(w, h)
        BY <1>6, <3>1, <3>4, <4>1
      <4>3. grant'[h] = grant[h]
        BY <1>2, <4>1, <4>2
      <4> QED BY <4>1, <4>3 DEF ActiveGrants, RowsOf
    <3> QED BY <3>3, <3>4, <3>5
  <2>6. RegistrationOK(v)'
    BY <1>1, <1>2, <1>3, <1>8, <2>1, <2>2, <2>3 DEF WorkOK, RegistrationOK, IsOpen,
       Touches, ResolveGrantState, GrantExpired
  <2>7. ShapeOK(v)' /\ SeenOK(v)'
    BY <1>1, <1>3, <1>8 DEF WorkOK, ShapeOK, SeenOK, IsOpen
  <2>8. OwnerOK(v)'
    BY <1>1, <1>3, <2>1, <2>2 DEF WorkOK, OwnerOK, Owns
  <2> QED BY <2>4, <2>5, <2>6, <2>7, <2>8 DEF WorkOK, v
<1> QED BY <1>7, <1>8

(* db.commit() as a whole.                                                 *)
LEMMA CommitInductive ==
    ASSUME IInv, NEW s \in Sessions, Commit(s)
    PROVE  IInv'
<1>1. sess'[s] = Idle /\ \A t \in Sessions \ {s} : sess'[t] = sess[t]
  BY DEF Commit, IInv, TypeOK
<1>2. /\ Idle.pc = "idle" /\ Idle.old = Untouched /\ Idle.new = Untouched
  BY DEF Idle
<1>3. WorkOK(sess[s])'
  BY <1>1, <1>2 DEF WorkOK, ShapeOK, UpdateOK, InsertOK, RegistrationOK, SeenOK,
     OwnerOK, IsOpen, Inserts, Touches, Writes, Untouched
<1>4. SessionsOK'
  BY <1>3, CommitOthers DEF SessionsOK
<1>5. Exclusion'
  <2> SUFFICES ASSUME NEW t \in Sessions, NEW u \in Sessions, t # u
               PROVE  Apart(sess'[t], sess'[u])
    BY DEF Exclusion, Apart, IsOpen, Touches
  <2> QED BY <1>1, <1>2 DEF IInv, Exclusion, Apart, IsOpen
<1> QED BY <1>4, <1>5, CommitTables DEF IInv

(***************************************************************************)
(* The invariant, and what follows from it.                                *)
(***************************************************************************)
(* An empty database has no rows and no sessions at work.                  *)
LEMMA InitInv ==
    ASSUME Init
    PROVE  IInv
<1>1. /\ Idle.pc = "idle" /\ Idle.old = Untouched /\ Idle.new = Untouched
      /\ Idle \in Session
  BY DEF Idle, Untouched, Session, Ops, SUCCESS
<1>2. TypeOK
  BY <1>1 DEF Init, TypeOK, CbsdRow
<1>3. SessionsOK
  BY <1>1 DEF Init, SessionsOK, WorkOK, ShapeOK, UpdateOK, InsertOK, RegistrationOK,
     SeenOK, OwnerOK, IsOpen, Inserts, Touches, Writes, Untouched
<1>4. Exclusion
  BY <1>1 DEF Init, Exclusion, Apart, IsOpen
<1>5. RowsOK /\ NoOverlappingGrants /\ UsableGrantsAreCurrent
  BY DEF Init, RowsOK, NoOverlappingGrants, UsableGrantsAreCurrent, IsRow
<1> QED BY <1>2, <1>3, <1>4, <1>5 DEF IInv

(* One step of anybody.                                                    *)
LEMMA NextInv ==
    ASSUME PostgreSQL, IInv, [Next]_vars
    PROVE  IInv'
<1>1. CASE Tick
  BY <1>1, TickInductive
<1>2. ASSUME NEW s \in Sessions, CbsdRequest(s)
      PROVE  IInv'
  <2>1. PICK c \in Cbsds, cert \in Certs :
           \/ Register(s, c, cert)
           \/ Reregister(s, c, cert)
           \/ Deregister(s, c, cert)
           \/ \E range \in Ranges : Screen(s, c, cert, range)
           \/ \E g \in Grants, opState \in {"GRANTED", "AUTHORIZED"} :
                 Heartbeat(s, c, g, cert, opState)
           \/ \E g \in Grants : Relinquish(s, c, g, cert)
    BY <1>2 DEF CbsdRequest
  <2>2. CASE Register(s, c, cert)
    BY <2>2, RegisterInductive
  <2>3. CASE Reregister(s, c, cert)
    BY <2>3, ReregisterInductive
  <2>4. CASE Deregister(s, c, cert)
    BY <2>4, DeregisterInductive
  <2>5. CASE \E range \in Ranges : Screen(s, c, cert, range)
    BY <2>5, ScreenInductive
  <2>6. CASE \E g \in Grants, opState \in {"GRANTED", "AUTHORIZED"} :
                 Heartbeat(s, c, g, cert, opState)
    BY <2>6, HeartbeatInductive
  <2>7. CASE \E g \in Grants : Relinquish(s, c, g, cert)
    BY <2>7, RelinquishInductive
  <2> QED BY <2>1, <2>2, <2>3, <2>4, <2>5, <2>6, <2>7
<1>3. ASSUME NEW s \in Sessions, SessionStep(s)
      PROVE  IInv'
  <2>1. CASE CbsdRequest(s)
    BY <1>2, <2>1
  <2>2. CASE Admit(s)
    BY <2>2, AdmitInductive
  <2>3. CASE RefuseAdmission(s)
    BY <2>3, CloseInductive DEF RefuseAdmission
  <2>4. CASE ApplyCpasDecisions(s)
    BY <2>4, CpasInductive
  <2>5. CASE Commit(s)
    BY <2>5, CommitInductive
  <2>6. CASE Abort(s)
    BY <2>6, CloseInductive DEF Abort
  <2> QED BY <1>3, <2>1, <2>2, <2>3, <2>4, <2>5, <2>6 DEF SessionStep
<1>4. CASE UNCHANGED vars
  <2>1. UNCHANGED <<now, cbsd, grant, sess>>
    BY <1>4 DEF vars
  <2>2. TypeOK' /\ Exclusion'
    BY <2>1 DEF IInv, TypeOK, Exclusion, Apart, IsOpen, Touches
  <2>3. RowsOK' /\ NoOverlappingGrants' /\ UsableGrantsAreCurrent'
    BY <2>1 DEF IInv, RowsOK, RowOK, NoOverlappingGrants, UsableGrantsAreCurrent
  <2>4. SessionsOK'
    <3> SUFFICES ASSUME NEW t \in Sessions PROVE WorkOK(sess[t])'
      BY DEF SessionsOK
    <3>1. PICK v \in Session : v = sess[t] /\ v = sess'[t]
      BY <2>1 DEF IInv, TypeOK
    <3>2. WorkOK(v)
      BY <3>1 DEF IInv, SessionsOK
    <3>3. ShapeOK(v)' /\ SeenOK(v)' /\ OwnerOK(v)'
      BY <2>1, <3>2 DEF WorkOK, ShapeOK, SeenOK, OwnerOK, IsOpen
    <3>4. UpdateOK(v)'
      BY <2>1, <3>2 DEF WorkOK, UpdateOK, Touches, Writes, RowOK, RowCurrent
    <3>5. InsertOK(v)'
      BY <2>1, <3>2 DEF WorkOK, InsertOK, Inserts, Writes, Touches, RowOK, ActiveGrants,
         RowsOf
    <3>6. RegistrationOK(v)'
      BY <2>1, <3>2 DEF WorkOK, RegistrationOK, IsOpen, Touches, RowsOf
    <3> QED BY <3>1, <3>3, <3>4, <3>5, <3>6 DEF WorkOK
  <2> QED BY <2>2, <2>3, <2>4 DEF IInv
<1> QED BY <1>1, <1>3, <1>4 DEF Next

(* On PostgreSQL every reachable state satisfies the inductive invariant:  *)
(* the three kinds of lock keep every loaded copy equal to its row.        *)
THEOREM Inductive ==
    ASSUME PostgreSQL
    PROVE  Spec => []IInv
<1>1. Init => IInv
  BY InitInv
<1>2. IInv /\ [Next]_vars => IInv'
  BY NextInv
<1> QED BY <1>1, <1>2, PTL DEF Spec

(* The tables and the sessions keep their types.                           *)
THEOREM TypeCorrect ==
    ASSUME PostgreSQL
    PROVE  Spec => []TypeOK
<1>1. IInv => TypeOK
  BY DEF IInv
<1> QED BY <1>1, Inductive, PTL

(* apply_grant_state's promise: the flags and the lifecycle column of      *)
(* every row agree, whatever handlers and CPAS runs interleave.            *)
THEOREM FlagsStayInSync ==
    ASSUME PostgreSQL
    PROVE  Spec => []FlagsMatchState
<1>1. IInv => FlagsMatchState
  BY DEF IInv, RowsOK, RowOK, FlagsMatchState
<1> QED BY <1>1, Inductive, PTL

(* 401 GRANT_CONFLICT: no two open grants of one CBSD overlap, although    *)
(* requests are screened before any lock is taken.                         *)
THEOREM GrantsNeverOverlap ==
    ASSUME PostgreSQL
    PROVE  Spec => []NoOverlappingGrants
<1>1. IInv => NoOverlappingGrants
  BY DEF IInv
<1> QED BY <1>1, Inductive, PTL

(* No deregistration or re-registration leaves a usable grant behind, and  *)
(* no admission that raced with one creates it.                            *)
THEOREM UsableGrantsStayCurrent ==
    ASSUME PostgreSQL
    PROVE  Spec => []UsableGrantsAreCurrent
<1>1. IInv => UsableGrantsAreCurrent
  BY DEF IInv
<1> QED BY <1>1, Inductive, PTL

(* process_grant's re-check under the locks: an insertion is only pending  *)
(* for the certificate the CBSD is bound to.                               *)
THEOREM OnlyOwnersAreAdmitted ==
    ASSUME PostgreSQL
    PROVE  Spec => []AdmitsOnlyForOwner
<1>1. IInv => AdmitsOnlyForOwner
  BY DEF IInv, SessionsOK, WorkOK, OwnerOK, AdmitsOnlyForOwner
<1> QED BY <1>1, Inductive, PTL

(* transmitExpireTime never passes the grant's expiry nor the horizon.     *)
THEOREM PermissionStaysBounded ==
    ASSUME PostgreSQL
    PROVE  Spec => []PermissionBounded
<1>1. IInv => PermissionBounded
  BY DEF IInv, RowsOK, RowOK, PermissionBounded
<1> QED BY <1>1, Inductive, PTL

(* A request of a CBSD writes no grant before its transaction commits.     *)
LEMMA RequestKeepsGrants ==
    ASSUME NEW s \in Sessions, CbsdRequest(s)
    PROVE  UNCHANGED grant
<1>1. PICK c \in Cbsds, cert \in Certs :
         \/ Register(s, c, cert)
         \/ Reregister(s, c, cert)
         \/ Deregister(s, c, cert)
         \/ \E range \in Ranges : Screen(s, c, cert, range)
         \/ \E g \in Grants, opState \in {"GRANTED", "AUTHORIZED"} :
               Heartbeat(s, c, g, cert, opState)
         \/ \E g \in Grants : Relinquish(s, c, g, cert)
  BY DEF CbsdRequest
<1>2. CASE Register(s, c, cert)
  BY <1>2 DEF Register, Open
<1>3. CASE Reregister(s, c, cert)
  BY <1>3 DEF Reregister, Open
<1>4. CASE Deregister(s, c, cert)
  BY <1>4 DEF Deregister, Open
<1>5. ASSUME NEW range \in Ranges, Screen(s, c, cert, range)
      PROVE  UNCHANGED grant
  BY <1>5 DEF Screen
<1>6. ASSUME NEW g \in Grants, NEW opState \in {"GRANTED", "AUTHORIZED"},
             Heartbeat(s, c, g, cert, opState)
      PROVE  UNCHANGED grant
  BY <1>6 DEF Heartbeat, Open
<1>7. ASSUME NEW g \in Grants, Relinquish(s, c, g, cert)
      PROVE  UNCHANGED grant
  BY <1>7 DEF Relinquish, Open
<1> QED BY <1>1, <1>2, <1>3, <1>4, <1>5, <1>6, <1>7

(* No commit revives a terminated grant: the copy a handler decided on is  *)
(* the row, and no lifecycle event leaves a terminal state.                *)
THEOREM TerminationIsFinal ==
    ASSUME PostgreSQL
    PROVE  Spec => TerminatedIsFinal
<1> DEFINE Final(g) == IsRow(grant[g]) /\ grant[g].term =>
                          \/ grant'[g] = Deleted
                          \/ /\ IsRow(grant'[g])
                             /\ grant'[g].term
                             /\ grant'[g].exp = grant[g].exp
                             /\ grant'[g].tx = grant[g].tx
<1>1. IInv /\ [Next]_vars => [\A g \in Grants : Final(g)]_vars
  <2> SUFFICES ASSUME IInv, Next, NEW g \in Grants, IsRow(grant[g]), grant[g].term
               PROVE  \/ grant'[g] = Deleted
                      \/ /\ IsRow(grant'[g])
                         /\ grant'[g].term
                         /\ grant'[g].exp = grant[g].exp
                         /\ grant'[g].tx = grant[g].tx
    OBVIOUS
  <2>1. CASE UNCHANGED grant
    BY <2>1
  <2>2. ASSUME NEW s \in Sessions, Commit(s)
        PROVE  \/ grant'[g] = Deleted
               \/ /\ IsRow(grant'[g])
                  /\ grant'[g].term
                  /\ grant'[g].exp = grant[g].exp
                  /\ grant'[g].tx = grant[g].tx
    <3> DEFINE w == sess[s]
    <3>1. grant'[g] = IF Writes(w, g) THEN w.new[g] ELSE grant[g]
      BY <2>2, CommitWrites
    <3>2. WorkOK(w)
      BY DEF IInv, SessionsOK
    <3> HIDE DEF w
    <3>3. CASE ~Writes(w, g)
      BY <3>1, <3>3
    <3>4. CASE Writes(w, g) /\ w.new[g] # Deleted
      <4>1. Touches(w, g)
        BY <3>2, <3>4 DEF WorkOK, InsertOK, Inserts, IsRow
      <4>2. Follows(grant[g], w.new[g])
        BY <3>2, <3>4, <4>1 DEF WorkOK, UpdateOK
      <4> QED BY <3>1, <3>4, <4>2 DEF Follows, Writes, IsRow
    <3> QED BY <3>1, <3>3, <3>4
  <2>3. CASE Tick
    BY <2>1, <2>3 DEF Tick
  <2>4. ASSUME NEW s \in Sessions, SessionStep(s)
        PROVE  UNCHANGED grant \/ Commit(s)
    <3>1. CASE CbsdRequest(s)
      BY <3>1, RequestKeepsGrants
    <3>2. CASE Admit(s)
      BY <3>2 DEF Admit, Open
    <3>3. CASE RefuseAdmission(s) \/ Abort(s)
      BY <3>3 DEF RefuseAdmission, Abort
    <3>4. CASE ApplyCpasDecisions(s)
      BY <3>4 DEF ApplyCpasDecisions, Open
    <3> QED BY <2>4, <3>1, <3>2, <3>3, <3>4 DEF SessionStep
  <2> QED BY <2>1, <2>2, <2>3, <2>4 DEF Next
<1> QED BY <1>1, Inductive, PTL DEF Spec, TerminatedIsFinal
=============================================================================

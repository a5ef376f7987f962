------------------------- MODULE GrantPromise_proof -------------------------
(***************************************************************************)
(* Proof that CbsdGrants on PostgreSQL implements GrantPromise, for every  *)
(* value of the constants: handlers that screen without a lock, work on    *)
(* copies and commit later, or never, do to the tables what requests of a  *)
(* single instant would.                                                   *)
(***************************************************************************)
EXTENDS CbsdGrants_proof

(***************************************************************************)
(* What a handler may do to the terms of a grant.                          *)
(***************************************************************************)
(* No lifecycle event moves a deadline.                                    *)
LEMMA EventKeepsDeadlines ==
    ASSUME NEW row \in GrantRow, NEW event
    PROVE  SameDeadlines(row, ApplyGrantEvent(row, event, now))
  BY DEF SameDeadlines, ApplyGrantEvent, ApplyGrantState, GrantRow

(* What a federal database does to a row in a heartbeat moves no deadline. *)
LEMMA FederalKeepsDeadlines ==
    ASSUME NEW row \in GrantRow
    PROVE  SameDeadlines(row, FederalTermination(row))
  BY DEF SameDeadlines, FederalTermination, ApplyGrantEvent, ApplyGrantState, GrantRow

(* A heartbeat moves the deadlines of an operable grant only.              *)
LEMMA HeartbeatDeadlines ==
    ASSUME NEW row \in GrantRow, RowOK(row), now \in Nat,
           NEW opState \in {"GRANTED", "AUTHORIZED"},
           NEW a \in HeartbeatAnswers(row, opState)
    PROVE  SameDeadlines(row, a.row) \/ Operable(row)
<1>1. /\ SameDeadlines(row, row)
      /\ SameDeadlines(row, ApplyGrantEvent(row, "terminate", now))
      /\ SameDeadlines(row, ApplyGrantEvent(row, "expire", now))
      /\ SameDeadlines(row, FederalTermination(row))
  BY EventKeepsDeadlines, FederalKeepsDeadlines DEF SameDeadlines
<1>2. ASSUME HeartbeatGate(row, opState, now) = SUCCESS, ~GrantExpired(row, now)
      PROVE  Operable(row)
  BY <1>2 DEF HeartbeatGate, Operable, ResolveGrantState, RowOK, GrantRow, GrantExpired,
     GrantStates, OperableStates, TERMINAL_GRANT_STATES, SUCCESS, TERMINATED_GRANT,
     INVALID_PARAM, UNSYNC_OP_PARAM, SUSPENDED_GRANT
<1>3. ASSUME ~(HeartbeatGate(row, opState, now) = SUCCESS /\ ~GrantExpired(row, now))
      PROVE  a.row \in {row, ApplyGrantEvent(row, "terminate", now),
                        ApplyGrantEvent(row, "expire", now), FederalTermination(row)}
  BY <1>3 DEF HeartbeatAnswers, Answer
<1> QED BY <1>1, <1>2, <1>3

(***************************************************************************)
(* AnswersInv is preserved.                                                *)
(***************************************************************************)
(* A new session that answers one request disturbs no other.               *)
LEMMA OpenAnswers ==
    ASSUME IInv, AnswersInv, NEW s \in Sessions, NEW w, Answers(w),
           sess' = [sess EXCEPT ![s] = w], UNCHANGED cbsd
    PROVE  AnswersInv'
<1>1. \A t \in Sessions : Answers(sess'[t])
  BY DEF AnswersInv, IInv, TypeOK
<1>2. \A t \in Sessions : Answers(sess[t])'
  BY <1>1 DEF Answers, IsOpen, Touches
<1> QED BY <1>2 DEF AnswersInv

(* A session that is not open answers nothing.                             *)
LEMMA NotOpenAnswers ==
    ASSUME NEW w, w.pc # "open"
    PROVE  Answers(w)
  BY DEF Answers, IsOpen

(* A session that loads the rows L, leaves rows and writes no CBSD row.    *)
LEMMA RowsAnswers ==
    ASSUME IInv, NEW L \in SUBSET {g \in Grants : IsRow(grant[g])}, NEW rows, DOMAIN rows = L,
           NEW w, w.old = Loaded(L), w.new = Left(rows),
           w.op \notin {"register", "deregister", "grant"},
           w.op = "heartbeat" => \A g, h \in L : g = h,
           \A g \in L : \/ SameDeadlines(grant[g], rows[g])
                        \/ w.op = "heartbeat" /\ rows[g].reg = cbsd[w.cbsd].reg
    PROVE  Answers(w)
<1>1. \A g \in Grants : /\ Touches(w, g) => g \in L
                        /\ g \in L => w.old[g] = grant[g] /\ w.new[g] = rows[g]
  BY DEF Touches, Loaded, Left
<1> QED BY <1>1 DEF Answers

(* A first registration answers as one request.                            *)
LEMMA RegisterAnswers ==
    ASSUME IInv, AnswersInv, PostgreSQL, NEW s \in Sessions, NEW c \in Cbsds, NEW cert \in Certs,
           Register(s, c, cert)
    PROVE  AnswersInv'
<1> DEFINE row == [present |-> TRUE, pk |-> cbsd[c].pk + 1, reg |-> cbsd[c].reg + 1,
                   cert |-> cert]
           w == Work("register", c, cert, Untouched, Untouched, row, SUCCESS)
<1>1. sess' = [sess EXCEPT ![s] = w] /\ UNCHANGED cbsd
  BY DEF Register, Open
<1>2. row.reg = cbsd[c].reg + 1
  OBVIOUS
<1> HIDE DEF row
<1>3. /\ w.op = "register" /\ w.cbsd = c /\ w.old = Untouched /\ w.cbsdRow = row
  BY DEF Work
<1>4. Answers(w)
  BY <1>2, <1>3 DEF Answers, Touches, Untouched
<1> QED BY <1>1, <1>4, OpenAnswers

(* A registration over a live one answers as one request.                  *)
LEMMA ReregisterAnswers ==
    ASSUME IInv, AnswersInv, NEW s \in Sessions, NEW c \in Cbsds, NEW cert \in Certs,
           Reregister(s, c, cert)
    PROVE  AnswersInv'
<1> DEFINE row == [cbsd[c] EXCEPT !.reg = @ + 1]
           rows == [g \in RowsOf(c) |-> TerminateUnlessTerminated(grant[g])]
           w == Work("register", c, cert, Loaded(RowsOf(c)), Left(rows), row, SUCCESS)
<1>1. sess' = [sess EXCEPT ![s] = w] /\ UNCHANGED cbsd
  BY DEF Reregister, Open
<1>2. row.reg = cbsd[c].reg + 1
  BY DEF IInv, TypeOK, CbsdRow
<1>3. \A g \in RowsOf(c) : SameDeadlines(grant[g], rows[g])
  BY EventKeepsDeadlines
  DEF TerminateUnlessTerminated, SameDeadlines, RowsOf, IInv, TypeOK, IsRow
<1>4. DOMAIN rows = RowsOf(c)
  OBVIOUS
<1> HIDE DEF row, rows
<1>5. /\ w.op = "register" /\ w.cbsd = c /\ w.old = Loaded(RowsOf(c)) /\ w.new = Left(rows)
      /\ w.cbsdRow = row
  BY DEF Work
<1>6. \A g \in Grants : Touches(w, g) => SameDeadlines(w.old[g], w.new[g])
  BY <1>3, <1>4, <1>5 DEF Touches, Loaded, Left
<1>7. Answers(w)
  BY <1>2, <1>5, <1>6 DEF Answers
<1> QED BY <1>1, <1>7, OpenAnswers DEF row, rows

(* A deregistration answers as one request.                                *)
LEMMA DeregisterAnswers ==
    ASSUME IInv, AnswersInv, NEW s \in Sessions, NEW c \in Cbsds, NEW cert \in Certs,
           Deregister(s, c, cert)
    PROVE  AnswersInv'
<1> DEFINE row == [cbsd[c] EXCEPT !.present = FALSE]
           rows == [g \in RowsOf(c) |-> Deleted]
           w == Work("deregister", c, cert, Loaded(RowsOf(c)), Left(rows), row, SUCCESS)
<1>1. sess' = [sess EXCEPT ![s] = w] /\ UNCHANGED cbsd /\ cbsd[c].present
  BY DEF Deregister, Open, Owns
<1>2. row.reg = cbsd[c].reg /\ ~row.present
  BY DEF IInv, TypeOK, CbsdRow
<1> HIDE DEF row
<1>3. /\ w.op = "deregister" /\ w.cbsd = c /\ w.old = Loaded(RowsOf(c)) /\ w.new = Left(rows)
      /\ w.cbsdRow = row
  BY DEF Work
<1>4. \A g \in Grants : Touches(w, g) => w.new[g] = Deleted
  BY <1>3 DEF Touches, Loaded, Left
<1>5. Answers(w)
  BY <1>1, <1>2, <1>3, <1>4 DEF Answers
<1> QED BY <1>1, <1>5, OpenAnswers DEF row

(* A heartbeat touches one grant, of the current registration if it moves  *)
(* a deadline.                                                             *)
LEMMA HeartbeatAnswersOne ==
    ASSUME IInv, AnswersInv, NEW s \in Sessions, NEW c \in Cbsds, NEW cert \in Certs,
           NEW g \in Grants, NEW opState \in {"GRANTED", "AUTHORIZED"},
           Heartbeat(s, c, g, cert, opState)
    PROVE  AnswersInv'
<1>1. PICK a \in HeartbeatAnswers(grant[g], opState) :
         Open(s, Work("heartbeat", c, cert, Loaded({g}), Left([x \in {g} |-> a.row]),
                      None, a.code))
  BY DEF Heartbeat
<1> DEFINE rows == [x \in {g} |-> a.row]
           w == Work("heartbeat", c, cert, Loaded({g}), Left(rows), None, a.code)
<1>2. g \in RowsOf(c) /\ now \in Nat
  BY DEF Heartbeat, IInv, TypeOK
<1>3. grant[g] \in GrantRow /\ RowOK(grant[g]) /\ IsRow(grant[g]) /\ grant[g].cbsd = c
  BY <1>2 DEF IInv, TypeOK, RowsOK, RowsOf, IsRow
<1>4. SameDeadlines(grant[g], a.row) \/ Operable(grant[g])
  BY <1>2, <1>3, HeartbeatDeadlines
<1>5. Operable(grant[g]) => grant[g].reg = cbsd[c].reg
  BY <1>3 DEF IInv, UsableGrantsAreCurrent, Operable
<1>6. a.row.reg = grant[g].reg
  BY <1>2, <1>3, HeartbeatRow DEF Successor, Follows
<1>7. DOMAIN rows = {g} /\ rows[g] = a.row
  OBVIOUS
<1> HIDE DEF rows
<1>8. /\ w.op = "heartbeat" /\ w.cbsd = c /\ w.old = Loaded({g}) /\ w.new = Left(rows)
  BY DEF Work
<1>9. {g} \in SUBSET {x \in Grants : IsRow(grant[x])}
  BY <1>3
<1>10. \A x \in {g} : \/ SameDeadlines(grant[x], rows[x])
                      \/ w.op = "heartbeat" /\ rows[x].reg = cbsd[w.cbsd].reg
  BY <1>4, <1>5, <1>6, <1>7, <1>8
<1>11. Answers(w)
  BY <1>7, <1>8, <1>9, <1>10, RowsAnswers
<1> QED BY <1>1, <1>11, OpenAnswers DEF Open, rows

(* A relinquishment only closes.                                           *)
LEMMA RelinquishAnswers ==
    ASSUME IInv, AnswersInv, NEW s \in Sessions, NEW c \in Cbsds, NEW cert \in Certs,
           NEW g \in Grants, Relinquish(s, c, g, cert)
    PROVE  AnswersInv'
<1> DEFINE rows == [x \in {g} |-> ApplyGrantEvent(grant[x], "relinquish", now)]
           w == Work("relinquish", c, cert, Loaded({g}), Left(rows), None, SUCCESS)
<1>1. sess' = [sess EXCEPT ![s] = w] /\ UNCHANGED cbsd /\ IsRow(grant[g])
  BY DEF Relinquish, Open, ActiveGrants, RowsOf
<1>2. \A x \in {g} : SameDeadlines(grant[x], rows[x])
  BY <1>1, EventKeepsDeadlines DEF IInv, TypeOK, IsRow
<1>3. DOMAIN rows = {g}
  OBVIOUS
<1> HIDE DEF rows
<1>4. w.op = "relinquish" /\ w.old = Loaded({g}) /\ w.new = Left(rows)
  BY DEF Work
<1>5. Answers(w)
  BY <1>1, <1>2, <1>3, <1>4, RowsAnswers
<1> QED BY <1>1, <1>5, OpenAnswers DEF rows

(* A CPAS run closes or leaves deadlines alone.                            *)
LEMMA CpasAnswers ==
    ASSUME IInv, AnswersInv, NEW s \in Sessions, ApplyCpasDecisions(s)
    PROVE  AnswersInv'
<1>1. PICK L \in SUBSET {g \in Grants : IsRow(grant[g])} :
         \E action \in [L -> CpasActions] :
            Open(s, Work("cpas", None, None, Loaded(L),
                         Left([g \in L |-> ApplyDecision(grant[g], action[g])]),
                         None, SUCCESS))
  BY DEF ApplyCpasDecisions
<1>2. PICK action \in [L -> CpasActions] :
         Open(s, Work("cpas", None, None, Loaded(L),
                      Left([g \in L |-> ApplyDecision(grant[g], action[g])]),
                      None, SUCCESS))
  BY <1>1
<1> DEFINE rows == [g \in L |-> ApplyDecision(grant[g], action[g])]
           w == Work("cpas", None, None, Loaded(L), Left(rows), None, SUCCESS)
<1>3. \A g \in L : SameDeadlines(grant[g], rows[g])
  BY EventKeepsDeadlines DEF ApplyDecision, SameDeadlines, IInv, TypeOK, IsRow
<1>4. DOMAIN rows = L
  OBVIOUS
<1> HIDE DEF rows
<1>5. w.op = "cpas" /\ w.old = Loaded(L) /\ w.new = Left(rows)
  BY DEF Work
<1>6. Answers(w)
  BY <1>3, <1>4, <1>5, RowsAnswers
<1> QED BY <1>2, <1>6, OpenAnswers DEF Open, rows

(* An admission touches no existing row.                                   *)
LEMMA AdmitAnswers ==
    ASSUME IInv, AnswersInv, NEW s \in Sessions, Admit(s)
    PROVE  AnswersInv'
<1>1. PICK new : Open(s, Work("grant", sess[s].cbsd, sess[s].cert, Untouched, new, None, SUCCESS))
  BY DEF Admit
<1> DEFINE w == Work("grant", sess[s].cbsd, sess[s].cert, Untouched, new, None, SUCCESS)
<1>2. w.op = "grant" /\ w.old = Untouched
  BY DEF Work
<1>3. Answers(w)
  BY <1>2 DEF Answers, Touches, Untouched
<1> QED BY <1>1, <1>3, OpenAnswers DEF Open

(* Other sessions than the one that commits are about other CBSDs.         *)
LEMMA CommitAnswers ==
    ASSUME IInv, AnswersInv, NEW s \in Sessions, Commit(s)
    PROVE  AnswersInv'
<1> DEFINE w == sess[s]
<1>1. /\ w \in Session /\ WorkOK(w) /\ IsOpen(w) /\ Answers(w)
      /\ \A t \in Sessions \ {s} : sess[t] \in Session /\ Apart(w, sess[t]) /\ Answers(sess[t])
  BY DEF IInv, TypeOK, SessionsOK, Exclusion, Commit, IsOpen, AnswersInv
<1>2. /\ \A c \in Cbsds : cbsd'[c] = IF w.cbsdRow # None /\ c = w.cbsd
                                       THEN w.cbsdRow ELSE cbsd[c]
      /\ sess'[s] = Idle /\ \A t \in Sessions \ {s} : sess'[t] = sess[t]
  BY CommitWrites DEF IInv, TypeOK
<1>3. cbsd \in [Cbsds -> CbsdRow]
  BY DEF IInv, TypeOK
<1> HIDE DEF w
<1>4. ASSUME NEW t \in Sessions
      PROVE  Answers(sess[t])'
  <2>1. CASE t = s
    <3>1. Idle.pc # "open"
      BY DEF Idle
    <3> QED BY <1>2, <2>1, <3>1 DEF Answers, IsOpen
  <2>2. CASE t # s
    <3> DEFINE v == sess[t]
    <3>1. v' = v /\ v \in Session /\ Answers(v) /\ Apart(w, v)
      BY <1>1, <1>2, <2>2
    <3>2. IsOpen(v) /\ v.cbsd \in Cbsds => cbsd'[v.cbsd] = cbsd[v.cbsd]
      BY <1>1, <1>2, <3>1, ConstantsAssumption DEF Apart
    <3>3. WorkOK(v)
      BY DEF IInv, SessionsOK
    <3> HIDE DEF v
    <3>4. IsOpen(v) /\ v.op # "cpas" => v.cbsd \in Cbsds
      BY <3>3 DEF WorkOK, ShapeOK
    <3>5. Answers(v)'
      BY <3>1, <3>2, <3>4 DEF Answers, IsOpen, Touches
    <3> QED BY <3>5 DEF v
  <2> QED BY <2>1, <2>2
<1>5. ASSUME NEW c \in Cbsds, cbsd'[c].present
      PROVE  cbsd'[c].reg # 0
  <2>1. CASE w.cbsdRow # None /\ c = w.cbsd
    <3>1. w.op = "register" \/ w.op = "deregister"
      BY <1>1, <2>1 DEF WorkOK, RegistrationOK
    <3>2. w.op = "register" /\ w.cbsdRow.reg = cbsd[c].reg + 1
      BY <1>1, <1>2, <1>5, <2>1, <3>1 DEF Answers
    <3> QED BY <1>2, <1>3, <2>1, <3>2 DEF CbsdRow
  <2>2. CASE ~(w.cbsdRow # None /\ c = w.cbsd)
    BY <1>2, <1>5, <2>2 DEF AnswersInv
  <2> QED BY <2>1, <2>2
<1> QED BY <1>4, <1>5 DEF AnswersInv

(* Without sessions there is nothing to answer.                            *)
LEMMA InitAnswers == Init => AnswersInv
  BY NotOpenAnswers DEF Init, AnswersInv, Idle

(* Every handler keeps its answer a request of the promise.                *)
LEMMA NextAnswers ==
    ASSUME PostgreSQL, IInv, AnswersInv, [Next]_vars
    PROVE  AnswersInv'
<1>1. CASE UNCHANGED <<cbsd, sess>>
  BY <1>1 DEF AnswersInv, Answers, IsOpen, Touches
<1>2. ASSUME NEW s \in Sessions, NEW w, w.pc # "open", sess' = [sess EXCEPT ![s] = w],
             UNCHANGED cbsd
      PROVE  AnswersInv'
  BY <1>2, NotOpenAnswers, OpenAnswers
<1>3. ASSUME NEW s \in Sessions, CbsdRequest(s)
      PROVE  AnswersInv'
  <2>1. PICK c \in Cbsds, cert \in Certs :
           \/ Register(s, c, cert)
           \/ Reregister(s, c, cert)
           \/ Deregister(s, c, cert)
           \/ \E range \in Ranges : Screen(s, c, cert, range)
           \/ \E g \in Grants, opState \in {"GRANTED", "AUTHORIZED"} :
                 Heartbeat(s, c, g, cert, opState)
           \/ \E g \in Grants : Relinquish(s, c, g, cert)
    BY <1>3 DEF CbsdRequest
  <2>2. CASE Register(s, c, cert)
    BY <2>2, RegisterAnswers
  <2>3. CASE Reregister(s, c, cert)
    BY <2>3, ReregisterAnswers
  <2>4. CASE Deregister(s, c, cert)
    BY <2>4, DeregisterAnswers
  <2>5. ASSUME NEW range \in Ranges, Screen(s, c, cert, range)
        PROVE  AnswersInv'
    <3> DEFINE w == [Idle EXCEPT !.pc = "screened", !.op = "grant", !.cbsd = c,
                                 !.cert = cert, !.range = range, !.seen = cbsd[c]]
    <3>1. w.pc # "open"
      BY DEF Idle
    <3>2. sess' = [sess EXCEPT ![s] = w] /\ UNCHANGED cbsd
      BY <2>5 DEF Screen
    <3> HIDE DEF w
    <3> QED BY <1>2, <3>1, <3>2
  <2>6. CASE \E g \in Grants, opState \in {"GRANTED", "AUTHORIZED"} :
                 Heartbeat(s, c, g, cert, opState)
    BY <2>6, HeartbeatAnswersOne
  <2>7. CASE \E g \in Grants : Relinquish(s, c, g, cert)
    BY <2>7, RelinquishAnswers
  <2> QED BY <2>1, <2>2, <2>3, <2>4, <2>5, <2>6, <2>7
<1>4. ASSUME NEW s \in Sessions, RefuseAdmission(s) \/ Abort(s)
      PROVE  AnswersInv'
  <2>1. Idle.pc # "open"
    BY DEF Idle
  <2>2. sess' = [sess EXCEPT ![s] = Idle] /\ UNCHANGED cbsd
    BY <1>4 DEF RefuseAdmission, Abort
  <2> QED BY <1>2, <2>1, <2>2
<1>5. ASSUME NEW s \in Sessions, SessionStep(s)
      PROVE  AnswersInv'
  BY <1>3, <1>4, <1>5, AdmitAnswers, CpasAnswers, CommitAnswers DEF SessionStep
<1>6. CASE Tick
  BY <1>1, <1>6 DEF Tick
<1>7. CASE UNCHANGED vars
  BY <1>1, <1>7 DEF vars
<1> QED BY <1>5, <1>6, <1>7 DEF Next

(***************************************************************************)
(* The rows as a client sees them.                                         *)
(***************************************************************************)
TermsOf(row) ==
    [cbsd |-> row.cbsd, range |-> row.range, epoch |-> row.reg, ends |-> row.exp,
     until |-> row.tx]

(* An open row shows its terms, any other row shows none.                  *)
LEMMA RowTerms ==
    ASSUME NEW row \in GrantRow \cup {None, Deleted}
    PROVE  /\ IsRow(row) /\ ~row.term =>
                /\ OpenTerms(row) = TermsOf(row)
                /\ OpenTerms(row) \in Promise!Terms
                /\ OpenTerms(row) \notin {None, Deleted}
           /\ IsRow(row) /\ row.term => OpenTerms(row) = Deleted
           /\ OpenTerms(None) = None /\ OpenTerms(Deleted) = Deleted
<1>1. OpenTerms(None) = None /\ OpenTerms(Deleted) = Deleted
  BY NoRowAssumption DEF OpenTerms
<1>2. IsRow(row) /\ row.term => OpenTerms(row) = Deleted
  BY DEF OpenTerms, IsRow
<1>3. IsRow(row) => row \in GrantRow /\ TermsOf(row) \in Promise!Terms
  BY DEF TermsOf, Promise!Terms, GrantRow, IsRow
<1>4. IsRow(row) /\ ~row.term => OpenTerms(row) = TermsOf(row)
  BY DEF OpenTerms, IsRow, TermsOf
<1> QED BY <1>1, <1>2, <1>3, <1>4, NoTermsAssumption

(* What is open to the client are the rows not terminated, at their terms. *)
LEMMA OpenRows ==
    ASSUME IInv, NEW g \in Grants
    PROVE  /\ Promise!IsOpen(g) <=> IsRow(grant[g]) /\ ~grant[g].term
           /\ Promise!IsOpen(g) => OpenTerms(grant[g]) = TermsOf(grant[g])
           /\ OpenTerms(grant[g]) = None <=> grant[g] = None
<1>1. grant[g] \in GrantRow \cup {None, Deleted} /\ Deleted # None
  BY NoRowAssumption DEF IInv, TypeOK
<1>2. Promise!IsOpen(g) <=> OpenTerms(grant[g]) \notin {None, Deleted}
  BY DEF Promise!IsOpen
<1> QED BY <1>1, <1>2, RowTerms DEF IsRow

(* What an open row shows, field by field.                                 *)
LEMMA OpenFields ==
    ASSUME IInv, NEW g \in Grants, Promise!IsOpen(g)
    PROVE  /\ grant[g] \in GrantRow /\ IsRow(grant[g]) /\ ~grant[g].term
           /\ OpenTerms(grant[g]).cbsd = grant[g].cbsd
           /\ OpenTerms(grant[g]).range = grant[g].range
           /\ OpenTerms(grant[g]).epoch = grant[g].reg
           /\ OpenTerms(grant[g]).ends = grant[g].exp
           /\ OpenTerms(grant[g]).until = grant[g].tx
<1>1. IsRow(grant[g]) /\ ~grant[g].term /\ OpenTerms(grant[g]) = TermsOf(grant[g])
  BY OpenRows
<1>2. grant[g] \in GrantRow
  BY <1>1 DEF IInv, TypeOK, IsRow
<1>3. /\ TermsOf(grant[g]).cbsd = grant[g].cbsd
      /\ TermsOf(grant[g]).range = grant[g].range
      /\ TermsOf(grant[g]).epoch = grant[g].reg
      /\ TermsOf(grant[g]).ends = grant[g].exp
      /\ TermsOf(grant[g]).until = grant[g].tx
  BY DEF TermsOf
<1> QED BY <1>1, <1>2, <1>3

(* Rows that were closed and nothing else: the promise's Closing.          *)
Closed(s) == {g \in Grants : Promise!IsOpen(g) /\ OpenTerms(grant'[g]) = Deleted}

(* A commit that moves no deadline closes a set of rows and leaves the     *)
(* terms of all others alone.                                              *)
LEMMA RowsClosed ==
    ASSUME IInv, NEW s \in Sessions, Commit(s),
           \A g \in Grants : ~Inserts(sess[s], g),
           \A g \in Grants :
              Touches(sess[s], g) =>
                 \/ sess[s].new[g] = Deleted
                 \/ sess[s].new[g].term
                 \/ SameDeadlines(sess[s].old[g], sess[s].new[g])
    PROVE  /\ [g \in Grants |-> OpenTerms(grant[g])]' = Promise!Closing(Closed(s))
           /\ \A g \in Closed(s) : Touches(sess[s], g)
<1> DEFINE w == sess[s]
<1>1. \A g \in Grants : grant'[g] = IF Writes(w, g) THEN w.new[g] ELSE grant[g]
  BY CommitWrites
<1>2. /\ UpdateOK(w)
      /\ \A g \in Grants : /\ w.new[g] \in GrantRow \cup {None, Deleted}
                            /\ w.old[g] \in GrantRow \cup {None}
                            /\ grant[g] \in GrantRow \cup {None, Deleted}
  BY DEF IInv, TypeOK, SessionsOK, WorkOK, Session
<1> HIDE DEF w
<1>3. ASSUME NEW g \in Grants, Touches(w, g)
      PROVE  OpenTerms(w.new[g]) \in {OpenTerms(grant[g]), Deleted}
  <2>1. grant[g] \in GrantRow /\ w.old[g] = grant[g] /\ w.new[g] # None
    BY <1>2, <1>3 DEF UpdateOK, Touches, Writes
  <2>2. CASE w.new[g] = Deleted
    BY <2>2, RowTerms
  <2>3. CASE w.new[g] # Deleted /\ w.new[g].term
    BY <1>2, <2>1, <2>3, RowTerms DEF IsRow
  <2>4. CASE w.new[g] # Deleted /\ ~w.new[g].term /\ SameDeadlines(w.old[g], w.new[g])
    <3>1. Follows(grant[g], w.new[g])
      BY <1>2, <1>3, <2>1, <2>4 DEF UpdateOK
    <3>2. ~grant[g].term /\ TermsOf(w.new[g]) = TermsOf(grant[g])
      BY <2>1, <2>4, <3>1 DEF Follows, SameDeadlines, TermsOf
    <3>3. IsRow(w.new[g]) /\ IsRow(grant[g])
      BY <2>1, <2>4, NoRowAssumption DEF IsRow
    <3> QED BY <1>2, <2>4, <3>2, <3>3, RowTerms
  <2> QED BY <1>3, <2>2, <2>3, <2>4 DEF w
<1>4. ASSUME NEW g \in Grants
      PROVE  /\ OpenTerms(grant'[g]) = IF g \in Closed(s) THEN Deleted ELSE OpenTerms(grant[g])
             /\ g \in Closed(s) => Touches(w, g)
  <2>1. Promise!IsOpen(g) <=> OpenTerms(grant[g]) \notin {None, Deleted}
    BY DEF Promise!IsOpen
  <2>2. CASE Writes(w, g)
    <3>1. Touches(w, g)
      BY <2>2 DEF Inserts, w
    <3>2. grant[g] # None
      BY <1>2, <3>1 DEF UpdateOK, Touches
    <3>3. OpenTerms(grant'[g]) \in {OpenTerms(grant[g]), Deleted}
      BY <1>1, <1>3, <2>2, <3>1
    <3>4. OpenTerms(grant[g]) # None
      BY <3>2, OpenRows
    <3> QED BY <2>1, <3>1, <3>3, <3>4 DEF Closed
  <2>3. CASE ~Writes(w, g)
    BY <1>1, <2>1, <2>3 DEF Closed
  <2> QED BY <2>2, <2>3
<1>5. Closed(s) \subseteq Grants
  BY DEF Closed
<1> HIDE DEF Closed
<1> QED BY <1>4, <1>5 DEF Promise!Closing, w

(***************************************************************************)
(* What each commit is to a client.                                        *)
(***************************************************************************)
Epochs == [c \in Cbsds |-> IF cbsd[c].present THEN cbsd[c].reg ELSE 0]

(* The CBSD table is written by registrations and deregistrations only.    *)
LEMMA SameCbsds ==
    ASSUME IInv, NEW s \in Sessions, Commit(s),
           sess[s].op \notin {"register", "deregister"}
    PROVE  UNCHANGED <<now, cbsd>>
<1>1. sess[s].cbsdRow = None
  BY DEF IInv, SessionsOK, WorkOK, RegistrationOK, Commit, IsOpen
<1> QED BY <1>1 DEF Commit

(* A relinquishment, a CPAS run, a heartbeat that refuses or terminates.   *)
LEMMA CommitCloses ==
    ASSUME IInv, NEW s \in Sessions, Commit(s),
           sess[s].op \notin {"register", "deregister"},
           [g \in Grants |-> OpenTerms(grant[g])]' = Promise!Closing(Closed(s))
    PROVE  Promise!Next
<1>1. UNCHANGED <<now, cbsd>>
  BY SameCbsds
<1>2. Closed(s) \in SUBSET {g \in Grants : Promise!IsOpen(g)}
  BY DEF Closed
<1>3. Promise!Close(Closed(s))
  BY <1>1 DEF Promise!Close
<1> QED BY <1>2, <1>3 DEF Promise!Next

(* A registration closes whatever could still be used.                     *)
LEMMA CommitEnrols ==
    ASSUME IInv, AnswersInv, NEW s \in Sessions, Commit(s), sess[s].op = "register",
           [g \in Grants |-> OpenTerms(grant[g])]' = Promise!Closing(Closed(s)),
           \A g \in Closed(s) : Touches(sess[s], g)
    PROVE  Promise!Next
<1> DEFINE w == sess[s]
<1>0. PICK c \in Cbsds : c = sess[s].cbsd
  BY DEF IInv, SessionsOK, WorkOK, ShapeOK, Commit, IsOpen
<1>1. /\ w \in Session /\ IsOpen(w) /\ WorkOK(w) /\ Answers(w)
      /\ now \in Nat /\ cbsd \in [Cbsds -> CbsdRow]
      /\ \A g \in Grants : grant[g] \in GrantRow \cup {None, Deleted}
  BY DEF IInv, TypeOK, SessionsOK, AnswersInv, Commit, IsOpen
<1>2. w.cbsdRow # None /\ w.cbsdRow.present /\ w.cbsdRow.reg = cbsd[c].reg + 1
  BY <1>0, <1>1 DEF WorkOK, ShapeOK, RegistrationOK, Answers
<1>3. \A d \in Cbsds : cbsd'[d] = IF d = c THEN w.cbsdRow ELSE cbsd[d]
  BY <1>0, <1>2, CommitWrites
<1>4. \A g \in Grants : grant'[g] = IF Writes(w, g) THEN w.new[g] ELSE grant[g]
  BY CommitWrites
<1>5. [d \in Cbsds |-> cbsd[d].reg]' = [[d \in Cbsds |-> cbsd[d].reg] EXCEPT ![c] = @ + 1]
  BY <1>0, <1>2, <1>3
<1>6. Epochs' = [Epochs EXCEPT ![c] = [d \in Cbsds |-> cbsd[d].reg][c] + 1]
  <2>1. \A d \in Cbsds : (IF cbsd[d].present THEN cbsd[d].reg ELSE 0)'
                           = IF d = c THEN cbsd[c].reg + 1 ELSE Epochs[d]
    BY <1>0, <1>2, <1>3 DEF Epochs
  <2>2. [d \in Cbsds |-> cbsd[d].reg][c] = cbsd[c].reg
    OBVIOUS
  <2>3. Epochs' = [d \in Cbsds |-> IF d = c THEN cbsd[c].reg + 1 ELSE Epochs[d]]
    BY <2>1 DEF Epochs
  <2>4. Epochs = [d \in Cbsds |-> Epochs[d]]
    BY DEF Epochs
  <2> QED BY <2>2, <2>3, <2>4
<1>7. Closed(s) \in SUBSET Promise!OpenOf(c)
  <2> SUFFICES ASSUME NEW g \in Closed(s) PROVE g \in Promise!OpenOf(c)
    OBVIOUS
  <2>1. g \in Grants /\ Promise!IsOpen(g) /\ Touches(w, g)
    BY DEF Closed
  <2>2. grant[g].cbsd = c
    BY <1>0, <1>1, <2>1 DEF WorkOK, UpdateOK
  <2>3. OpenTerms(grant[g]).cbsd = c
    BY <2>1, <2>2, OpenFields
  <2> QED BY <2>1, <2>3 DEF Promise!OpenOf
<1>8. Promise!Usable(c) \subseteq Closed(s)
  <2> SUFFICES ASSUME NEW g \in Promise!Usable(c) PROVE g \in Closed(s)
    OBVIOUS
  <2>1. /\ g \in Grants /\ Promise!IsOpen(g) /\ OpenTerms(grant[g]).cbsd = c
        /\ now < OpenTerms(grant[g]).ends
    BY DEF Promise!Usable, Promise!OpenOf
  <2>2. IsRow(grant[g]) /\ ~grant[g].term /\ grant[g].cbsd = c /\ now < grant[g].exp
    BY <2>1, OpenFields
  <2>3. Touches(w, g) /\ ResolveGrantState(w.new[g], now) \notin OperableStates
    BY <1>0, <1>1, <2>1, <2>2 DEF WorkOK, RegistrationOK, RowsOf
  <2>4. /\ w.old[g] = grant[g] /\ Writes(w, g) /\ w.new[g] # Deleted
        /\ w.new[g] \in GrantRow \cup {None, Deleted} /\ RowOK(w.new[g])
    BY <1>0, <1>1, <2>1, <2>3 DEF WorkOK, UpdateOK, Session
  <2>5. w.new[g] \in GrantRow
    BY <2>4 DEF Writes
  <2>6. w.new[g].term \/ w.new[g].exp = grant[g].exp
    BY <1>0, <1>1, <2>1, <2>3, <2>4 DEF Answers, SameDeadlines
  <2>7. w.new[g].term
    <3> SUFFICES ASSUME ~w.new[g].term PROVE FALSE
      OBVIOUS
    <3>1. w.new[g].ls \in OperableStates
      BY <2>4, <2>5 DEF RowOK, FlagsInSync, GrantRow, GrantStates
    <3>2. w.new[g].ls = ResolveGrantState(w.new[g], now)
      BY <1>0, <1>1, <2>2, <2>5, <2>6 DEF ResolveGrantState, GrantExpired, GrantRow
    <3> QED BY <2>3, <3>1, <3>2
  <2>8. OpenTerms(grant'[g]) = Deleted
    BY <1>4, <2>1, <2>4, <2>5, <2>7, NoRowAssumption, RowTerms DEF IsRow
  <2> QED BY <2>1, <2>8 DEF Closed
<1>9. Promise!Enrol(c)
  BY <1>5, <1>6, <1>7, <1>8, CommitWrites DEF Promise!Enrol, Epochs
<1>10. \E d \in Cbsds : Promise!Enrol(d)
  BY <1>0, <1>2, <1>9
<1> QED BY <1>10 DEF Promise!Next

(* A deregistration closes everything.                                     *)
LEMMA CommitLeaves ==
    ASSUME IInv, AnswersInv, NEW s \in Sessions, Commit(s), sess[s].op = "deregister",
           [g \in Grants |-> OpenTerms(grant[g])]' = Promise!Closing(Closed(s)),
           \A g \in Closed(s) : Touches(sess[s], g)
    PROVE  Promise!Next
<1> DEFINE w == sess[s]
<1>0. PICK c \in Cbsds : c = sess[s].cbsd
  BY DEF IInv, SessionsOK, WorkOK, ShapeOK, Commit, IsOpen
<1>1. IsOpen(w) /\ WorkOK(w) /\ Answers(w) /\ cbsd \in [Cbsds -> CbsdRow]
  BY DEF IInv, TypeOK, SessionsOK, AnswersInv, Commit, IsOpen
<1>2. /\ w.cbsdRow # None /\ ~w.cbsdRow.present /\ w.cbsdRow.reg = cbsd[c].reg
      /\ cbsd[c].present /\ cbsd[c].reg # 0
  BY <1>0, <1>1 DEF WorkOK, ShapeOK, RegistrationOK, Answers, AnswersInv
<1>3. \A d \in Cbsds : cbsd'[d] = IF d = c THEN w.cbsdRow ELSE cbsd[d]
  BY <1>0, <1>2, CommitWrites
<1>4. \A g \in Grants : grant'[g] = IF Writes(w, g) THEN w.new[g] ELSE grant[g]
  BY CommitWrites
<1>5. UNCHANGED [d \in Cbsds |-> cbsd[d].reg]
  BY <1>0, <1>2, <1>3
<1>6. Epochs[c] # 0 /\ Epochs' = [Epochs EXCEPT ![c] = 0]
  BY <1>0, <1>2, <1>3 DEF Epochs
<1>7. ASSUME NEW g \in Grants, Promise!IsOpen(g)
      PROVE  g \in Closed(s) <=> OpenTerms(grant[g]).cbsd = c
  <2>1. IsRow(grant[g]) /\ OpenTerms(grant[g]).cbsd = grant[g].cbsd
    BY <1>7, OpenFields
  <2>2. ASSUME grant[g].cbsd = c PROVE g \in Closed(s)
    <3>1. w.new[g] = Deleted
      BY <1>0, <1>1, <2>1, <2>2 DEF WorkOK, RegistrationOK, RowsOf
    <3>2. OpenTerms(grant'[g]) = Deleted
      BY <1>4, <3>1, NoRowAssumption, RowTerms DEF Writes
    <3> QED BY <1>7, <3>2 DEF Closed
  <2>3. ASSUME g \in Closed(s) PROVE grant[g].cbsd = c
    BY <1>0, <1>1, <2>3 DEF WorkOK, UpdateOK
  <2> QED BY <2>1, <2>2, <2>3
<1>8. Closed(s) = Promise!OpenOf(c)
  BY <1>7 DEF Promise!OpenOf, Closed
<1>9. Promise!Leave(c)
  BY <1>5, <1>6, <1>8, CommitWrites DEF Promise!Leave, Epochs
<1>10. \E d \in Cbsds : Promise!Leave(d)
  BY <1>0, <1>2, <1>9
<1> QED BY <1>10 DEF Promise!Next

(* The client's view after a commit that leaves every row but g's alone.   *)
LEMMA OneRow ==
    ASSUME IInv, NEW s \in Sessions, Commit(s), NEW g \in Grants, Writes(sess[s], g),
           \A h \in Grants \ {g} : ~Writes(sess[s], h)
    PROVE  [h \in Grants |-> OpenTerms(grant[h])]'
              = [[h \in Grants |-> OpenTerms(grant[h])] EXCEPT ![g] = OpenTerms(sess[s].new[g])]
  BY CommitWrites

(* A row in good order shows terms within their bounds.                    *)
LEMMA RowBounded ==
    ASSUME NEW row \in GrantRow, RowOK(row)
    PROVE  Promise!Bounded(TermsOf(row))
  BY DEF RowOK, TermsOf, Promise!Bounded

(* An admission issues one grant, clear of the CBSD's open ones.           *)
LEMMA CommitIssues ==
    ASSUME IInv, AnswersInv, NEW s \in Sessions, Commit(s),
           NEW g \in Grants, Inserts(sess[s], g)
    PROVE  Promise!Next
<1> DEFINE w == sess[s]
           row == sess[s].new[g]
<1>0. PICK c \in Cbsds : c = sess[s].cbsd
  BY DEF IInv, SessionsOK, WorkOK, ShapeOK, InsertOK, Commit, IsOpen
<1>1. /\ IsOpen(w) /\ WorkOK(w) /\ Answers(w) /\ cbsd \in [Cbsds -> CbsdRow]
      /\ \A h \in Grants : grant[h] \in GrantRow \cup {None, Deleted}
  BY DEF IInv, TypeOK, SessionsOK, AnswersInv, Commit, IsOpen
<1>2. /\ w.op = "grant" /\ grant[g] = None /\ row \in GrantRow /\ RowOK(row)
      /\ row.cbsd = c /\ row.reg = cbsd[c].reg /\ ~row.term
      /\ \A h \in ActiveGrants(c) : ~Overlaps(grant[h].range, row.range)
      /\ \A h \in Grants : Inserts(w, h) => h = g
  BY <1>0, <1>1 DEF WorkOK, InsertOK
<1>3. cbsd[c].present /\ cbsd[c].reg # 0
  BY <1>0, <1>1, <1>2 DEF WorkOK, OwnerOK, Owns, AnswersInv, IsOpen
<1>4. Writes(w, g) /\ \A h \in Grants \ {g} : ~Writes(w, h)
  BY <1>1, <1>2 DEF Answers, Inserts
<1>5. [h \in Grants |-> OpenTerms(grant[h])]'
         = [[h \in Grants |-> OpenTerms(grant[h])] EXCEPT ![g] = OpenTerms(row)]
  BY <1>4, OneRow
<1>6. OpenTerms(grant'[g]) = OpenTerms(row)
  BY <1>4, CommitWrites
<1>7. OpenTerms(row) = TermsOf(row) /\ OpenTerms(row) \in Promise!Terms
  BY <1>2, NoRowAssumption, RowTerms DEF IsRow
<1>8. TermsOf(row).cbsd = c /\ TermsOf(row).epoch = cbsd[c].reg /\ TermsOf(row).range = row.range
  BY <1>2 DEF TermsOf
<1>9. \A h \in Promise!OpenOf(c) :
         h \in Grants /\ ~Overlaps(OpenTerms(grant[h]).range, row.range)
  <2> SUFFICES ASSUME NEW h \in Promise!OpenOf(c)
               PROVE  h \in Grants /\ ~Overlaps(OpenTerms(grant[h]).range, row.range)
    OBVIOUS
  <2>1. h \in Grants /\ Promise!IsOpen(h) /\ OpenTerms(grant[h]).cbsd = c
    BY DEF Promise!OpenOf
  <2>2. h \in ActiveGrants(c) /\ OpenTerms(grant[h]).range = grant[h].range
    BY <2>1, OpenFields DEF ActiveGrants, RowsOf
  <2> QED BY <1>2, <2>1, <2>2
<1>10. Promise!Bounded(OpenTerms(row))
  BY <1>2, <1>7, RowBounded
<1>11. UNCHANGED <<now, cbsd>>
  BY <1>2, SameCbsds
<1>12. OpenTerms(grant[g]) = None
  BY <1>2, OpenRows
<1> HIDE DEF row
<1>13. Promise!Issue(g)
  BY <1>3, <1>5, <1>6, <1>7, <1>8, <1>9, <1>10, <1>11, <1>12 DEF Promise!Issue
<1> QED BY <1>13 DEF Promise!Next

(* A heartbeat that moves the deadlines of its grant permits transmission. *)
LEMMA CommitPermits ==
    ASSUME IInv, AnswersInv, NEW s \in Sessions, Commit(s),
           NEW g \in Grants, Touches(sess[s], g), sess[s].new[g] # Deleted,
           ~sess[s].new[g].term, ~SameDeadlines(sess[s].old[g], sess[s].new[g])
    PROVE  Promise!Next
<1> DEFINE w == sess[s]
           row == sess[s].new[g]
<1>1. /\ w \in Session /\ IsOpen(w) /\ WorkOK(w) /\ Answers(w)
      /\ \A h \in Grants : grant[h] \in GrantRow \cup {None, Deleted}
  BY DEF IInv, TypeOK, SessionsOK, AnswersInv, Commit, IsOpen
<1>2. /\ w.op = "heartbeat" /\ row.reg = cbsd[w.cbsd].reg
      /\ \A h \in Grants : Touches(w, h) => h = g
  BY <1>1 DEF Answers
<1>3. /\ w.old[g] = grant[g] /\ Writes(w, g) /\ RowOK(row) /\ Follows(grant[g], row)
      /\ grant[g].cbsd = w.cbsd
  BY <1>1, <1>2 DEF WorkOK, UpdateOK
<1>4. row \in GrantRow /\ grant[g] \in GrantRow /\ ~grant[g].term
  <2>1. row \in GrantRow \cup {None, Deleted} /\ w.old[g] \in GrantRow \cup {None}
    BY <1>1 DEF Session
  <2> QED BY <1>3, <2>1 DEF Writes, Touches, Follows, SameDeadlines
<1>5. \A h \in Grants \ {g} : ~Writes(w, h)
  BY <1>1, <1>2 DEF WorkOK, InsertOK, Inserts
<1>6. [h \in Grants |-> OpenTerms(grant[h])]'
         = [[h \in Grants |-> OpenTerms(grant[h])] EXCEPT ![g] = OpenTerms(row)]
  BY <1>3, <1>5, OneRow
<1>7. OpenTerms(grant'[g]) = OpenTerms(row)
  BY <1>3, CommitWrites
<1>8. OpenTerms(row) = TermsOf(row) /\ OpenTerms(row) \in Promise!Terms
  BY <1>4, NoRowAssumption, RowTerms DEF IsRow
<1>9. Promise!IsOpen(g) /\ OpenTerms(grant[g]) = TermsOf(grant[g])
  BY <1>4, NoRowAssumption, OpenRows DEF IsRow
<1>10. TermsOf(row) = [TermsOf(grant[g]) EXCEPT !.ends = TermsOf(row).ends,
                                                !.until = TermsOf(row).until]
  <2>1. row.cbsd = grant[g].cbsd /\ row.range = grant[g].range /\ row.reg = grant[g].reg
    BY <1>3 DEF Follows
  <2> DEFINE a == TermsOf(grant[g])
             b == TermsOf(row)
  <2>2. a \in Promise!Terms /\ b \in Promise!Terms
    BY <1>8, <1>9, <1>4, NoRowAssumption, RowTerms DEF IsRow
  <2>3. a.cbsd = b.cbsd /\ a.range = b.range /\ a.epoch = b.epoch
    BY <2>1 DEF TermsOf
  <2> HIDE DEF a, b
  <2>4. b = [a EXCEPT !.ends = b.ends, !.until = b.until]
    BY <2>2, <2>3 DEF Promise!Terms
  <2> QED BY <2>4 DEF a, b
<1>11. Promise!Bounded(OpenTerms(row))
  BY <1>3, <1>4, <1>8, RowBounded
<1>12. UNCHANGED <<now, cbsd>>
  BY <1>2, SameCbsds
<1>13. OpenTerms(grant[g]).cbsd = w.cbsd /\ OpenTerms(grant[g]).epoch = cbsd[w.cbsd].reg
  BY <1>2, <1>3, <1>9, OpenFields DEF Follows
<1>14. w.cbsd \in Cbsds /\ cbsd[w.cbsd].present
  BY <1>3, <1>4, NoRowAssumption DEF IInv, UsableGrantsAreCurrent, GrantRow, IsRow
<1> HIDE DEF row
<1> DEFINE terms == OpenTerms(row)
           before == [h \in Grants |-> OpenTerms(grant[h])]
<1>15. before[g] = TermsOf(grant[g]) /\ before'[g] = terms
  BY <1>6, <1>9
<1>16. terms = [before[g] EXCEPT !.ends = terms.ends, !.until = terms.until]
  BY <1>8, <1>10, <1>15
<1>17. before' = [before EXCEPT ![g].ends = terms.ends, ![g].until = terms.until]
  <2>1. before' = [before EXCEPT ![g] = terms]
    BY <1>6
  <2> HIDE DEF before, terms
  <2> QED BY <1>16, <2>1
<1>18. before[g].epoch = Epochs[before[g].cbsd]
  BY <1>13, <1>14 DEF Epochs
<1>19. Epochs' = Epochs /\ UNCHANGED <<now, cbsd>>
  BY <1>12 DEF Epochs
<1>20. terms \in Promise!Terms /\ Promise!Bounded(terms) /\ Promise!IsOpen(g)
  BY <1>8, <1>9, <1>11
<1>21. Promise!Permit(g)
  BY <1>15, <1>17, <1>18, <1>19, <1>20 DEF Promise!Permit, Epochs
<1> QED BY <1>21 DEF Promise!Next

(* Every commit is one step of the promise.                                *)
LEMMA CommitMaps ==
    ASSUME IInv, AnswersInv, NEW s \in Sessions, Commit(s)
    PROVE  Promise!Next
<1> DEFINE w == sess[s]
           Moves(g) == /\ Touches(w, g) /\ w.new[g] # Deleted /\ ~w.new[g].term
                       /\ ~SameDeadlines(w.old[g], w.new[g])
<1>1. CASE \E g \in Grants : Inserts(w, g)
  BY <1>1, CommitIssues
<1>2. CASE \E g \in Grants : Moves(g)
  BY <1>2, CommitPermits
<1>3. ASSUME ~\E g \in Grants : Inserts(w, g), ~\E g \in Grants : Moves(g)
      PROVE  Promise!Next
  <2>1. /\ [g \in Grants |-> OpenTerms(grant[g])]' = Promise!Closing(Closed(s))
        /\ \A g \in Closed(s) : Touches(w, g)
    BY <1>3, RowsClosed
  <2> QED BY <2>1, CommitEnrols, CommitLeaves, CommitCloses
<1> QED BY <1>1, <1>2, <1>3

(* The tables start as the promise does.                                   *)
LEMMA InitMaps == Init => Promise!Init
  BY NoRowAssumption DEF Init, Promise!Init, OpenTerms

(* Every step is a step of the promise or leaves the client's view alone:  *)
(* only commits and the clock show.                                        *)
LEMMA StepMaps ==
    ASSUME IInv, AnswersInv, [Next]_vars
    PROVE  [Promise!Next]_Promise!vars
<1>1. ASSUME UNCHANGED <<now, cbsd, grant>>
      PROVE  UNCHANGED Promise!vars
  BY <1>1 DEF Promise!vars
<1>2. CASE Tick
  <2>1. Promise!Advance
    BY <1>2 DEF Tick, Promise!Advance
  <2> QED BY <2>1 DEF Promise!Next
<1>3. ASSUME NEW s \in Sessions, SessionStep(s)
      PROVE  [Promise!Next]_Promise!vars
  <2>1. CASE Commit(s)
    BY <2>1, CommitMaps
  <2>2. CASE CbsdRequest(s)
    <3>1. PICK c \in Cbsds, cert \in Certs :
             \/ Register(s, c, cert)
             \/ Reregister(s, c, cert)
             \/ Deregister(s, c, cert)
             \/ \E range \in Ranges : Screen(s, c, cert, range)
             \/ \E g \in Grants, opState \in {"GRANTED", "AUTHORIZED"} :
                   Heartbeat(s, c, g, cert, opState)
             \/ \E g \in Grants : Relinquish(s, c, g, cert)
      BY <2>2 DEF CbsdRequest
    <3>2. CASE Register(s, c, cert) \/ Reregister(s, c, cert) \/ Deregister(s, c, cert)
      BY <1>1, <3>2 DEF Register, Reregister, Deregister, Open
    <3>3. CASE \E range \in Ranges : Screen(s, c, cert, range)
      BY <1>1, <3>3 DEF Screen
    <3>4. CASE \E g \in Grants, opState \in {"GRANTED", "AUTHORIZED"} :
                  Heartbeat(s, c, g, cert, opState)
      BY <1>1, <3>4 DEF Heartbeat, Open
    <3>5. CASE \E g \in Grants : Relinquish(s, c, g, cert)
      BY <1>1, <3>5 DEF Relinquish, Open
    <3> QED BY <3>1, <3>2, <3>3, <3>4, <3>5
  <2>3. CASE Admit(s)
    BY <1>1, <2>3 DEF Admit, Open
  <2>4. CASE RefuseAdmission(s) \/ Abort(s)
    BY <1>1, <2>4 DEF RefuseAdmission, Abort
  <2>5. CASE ApplyCpasDecisions(s)
    BY <1>1, <2>5 DEF ApplyCpasDecisions, Open
  <2> QED BY <1>3, <2>1, <2>2, <2>3, <2>4, <2>5 DEF SessionStep
<1>4. CASE UNCHANGED vars
  <2>1. UNCHANGED <<now, cbsd, grant>>
    BY <1>4 DEF vars
  <2> QED BY <1>1, <2>1
<1> QED BY <1>2, <1>3, <1>4 DEF Next

(* On PostgreSQL the handlers, with their stale copies, two-step           *)
(* transactions and concurrent sessions, do to the tables only what the    *)
(* single-instant requests of GrantPromise do: the locks make every        *)
(* request of the CBSD interface atomic.                                   *)
THEOREM PromiseIsKept ==
    ASSUME PostgreSQL
    PROVE  Spec => PromiseKept
<1>1. Init => AnswersInv /\ Promise!Init
  BY InitAnswers, InitMaps
<1>2. IInv /\ AnswersInv /\ [Next]_vars => AnswersInv' /\ [Promise!Next]_Promise!vars
  BY NextAnswers, StepMaps
<1> QED BY <1>1, <1>2, Inductive, PTL DEF Spec, Promise!Spec, PromiseKept
=============================================================================

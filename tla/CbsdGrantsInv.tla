--------------------------- MODULE CbsdGrantsInv ----------------------------
(***************************************************************************)
(* The inductive invariant behind the safety properties of CbsdGrants on   *)
(* PostgreSQL.  None of them is inductive by itself: what a commit writes  *)
(* was computed from copies, so the invariant says that the locks keep the *)
(* copies equal to the tables, and what every handler may have put in the  *)
(* copies it is about to write.  A session's part of it is a predicate of  *)
(* the session record w, so that a handler is shown to open a good session *)
(* once and for all.                                                       *)
(***************************************************************************)
EXTENDS CbsdGrants

IsOpen(w) == w.pc = "open"
Touches(w, g) == w.old[g] # None
Writes(w, g)  == w.new[g] # None
Inserts(w, g) == Writes(w, g) /\ ~Touches(w, g)

(* What holds of every row, stored or about to be.                         *)
RowOK(row) ==
    /\ FlagsInSync(row)
    /\ row.ls = "EXPIRED" => row.exp <= now
    /\ row.tx <= row.exp
    /\ \E h \in Horizons : row.tx <= now + h

(* A row that can still be operated carries its CBSD's registration.       *)
RowCurrent(row) ==
    ResolveGrantState(row, now) \in OperableStates
       => row.reg = cbsd[row.cbsd].reg

(* How a handler may leave a row it loaded.                                *)
Follows(old, new) ==
    /\ new.cbsd = old.cbsd /\ new.range = old.range /\ new.reg = old.reg
    /\ old.term => new.term /\ new.exp = old.exp /\ new.tx = old.tx

(* Sessions that are not open hold nothing; screened ones know the request.*)
ShapeOK(w) ==
    /\ ~IsOpen(w) => w.old = Untouched /\ w.new = Untouched
    /\ w.pc = "screened" =>
          /\ w.op = "grant"
          /\ w.cbsd \in Cbsds
          /\ w.cert \in Certs
          /\ w.range \in Ranges
          /\ w.seen \in CbsdRow
          /\ w.seen.cert = w.cert
    /\ IsOpen(w) => IF w.op = "cpas" THEN w.cbsd = None ELSE w.cbsd \in Cbsds

(* A loaded copy is still the row of the table, and is left in good order. *)
UpdateOK(w) ==
    \A g \in Grants :
       Touches(w, g) =>
          /\ w.old[g] = grant[g]
          /\ Writes(w, g)
          /\ w.op # "cpas" => w.old[g].cbsd = w.cbsd
          /\ w.new[g] = Deleted => w.op = "deregister"
          /\ w.new[g] # Deleted =>
                /\ RowOK(w.new[g])
                /\ Follows(w.old[g], w.new[g])
                /\ RowCurrent(w.new[g])

InsertOK(w) ==
    \A g \in Grants :
       Inserts(w, g) =>
          /\ w.op = "grant"
          /\ grant[g] = None
          /\ w.new[g] \in GrantRow
          /\ RowOK(w.new[g])
          /\ w.new[g].cbsd = w.cbsd
          /\ w.new[g].reg = cbsd[w.cbsd].reg
          /\ ~w.new[g].term
          /\ \A h \in ActiveGrants(w.cbsd) :
                ~Overlaps(grant[h].range, w.new[g].range)
          /\ \A h \in Grants : Inserts(w, h) => h = g

(* A registration or deregistration accounts for every row of its CBSD.    *)
RegistrationOK(w) ==
    IsOpen(w) =>
       /\ w.cbsdRow # None <=> w.op \in {"register", "deregister"}
       /\ w.op = "register" =>
             /\ w.cbsdRow.present
             /\ w.cbsdRow.pk >= cbsd[w.cbsd].pk
             /\ w.cbsdRow.pk = cbsd[w.cbsd].pk
                   => w.cbsdRow.cert = cbsd[w.cbsd].cert
             /\ \A g \in RowsOf(w.cbsd) :
                   /\ Touches(w, g)
                   /\ ResolveGrantState(w.new[g], now) \notin OperableStates
       /\ w.op = "deregister" =>
             /\ w.cbsdRow.pk = cbsd[w.cbsd].pk
             /\ w.cbsdRow.cert = cbsd[w.cbsd].cert
             /\ \A g \in RowsOf(w.cbsd) : w.new[g] = Deleted

(* What a screened admission still knows of its CBSD's certificate: with   *)
(* the same primary key it is the same certificate.                        *)
SeenOK(w) ==
    w.pc = "screened" =>
       /\ w.seen.pk <= cbsd[w.cbsd].pk
       /\ w.seen.pk = cbsd[w.cbsd].pk => w.seen.cert = cbsd[w.cbsd].cert

OwnerOK(w) ==
    w.pc = "open" /\ w.op = "grant" => Owns(cbsd[w.cbsd], w.cert)

WorkOK(w) ==
    /\ ShapeOK(w)
    /\ UpdateOK(w)
    /\ InsertOK(w)
    /\ RegistrationOK(w)
    /\ SeenOK(w)
    /\ OwnerOK(w)

(* The three kinds of lock keep two open sessions apart.                   *)
Apart(v, w) ==
    IsOpen(v) /\ IsOpen(w) =>
       /\ v.cbsd = w.cbsd => v.cbsd = None
       /\ ~(v.op \in {"grant", "cpas"} /\ w.op \in {"grant", "cpas"})
       /\ \A g \in Grants : ~(Touches(v, g) /\ Touches(w, g))

SessionsOK == \A s \in Sessions : WorkOK(sess[s])
Exclusion == \A s, t \in Sessions : s # t => Apart(sess[s], sess[t])
RowsOK == \A g \in Grants : IsRow(grant[g]) => RowOK(grant[g])

IInv ==
    /\ TypeOK
    /\ SessionsOK
    /\ Exclusion
    /\ RowsOK
    /\ NoOverlappingGrants
    /\ UsableGrantsAreCurrent

(***************************************************************************)
(* What the refinement of GrantPromise needs besides: which requests the   *)
(* copies of a session amount to.                                          *)
(***************************************************************************)
SameDeadlines(old, new) == new.exp = old.exp /\ new.tx = old.tx

(* Only a heartbeat moves deadlines, of one grant, issued under the        *)
(* current registration.                                                   *)
Answers(w) ==
    IsOpen(w) =>
       /\ w.op = "register" => w.cbsdRow.reg = cbsd[w.cbsd].reg + 1
       /\ w.op = "deregister" => /\ cbsd[w.cbsd].present
                                 /\ ~w.cbsdRow.present
                                 /\ w.cbsdRow.reg = cbsd[w.cbsd].reg
       /\ w.op = "heartbeat" =>
             \A g, h \in Grants : Touches(w, g) /\ Touches(w, h) => g = h
       /\ w.op = "grant" => \A g \in Grants : ~Touches(w, g)
       /\ \A g \in Grants :
             Touches(w, g) =>
                \/ w.new[g] = Deleted
                \/ w.new[g].term
                \/ SameDeadlines(w.old[g], w.new[g])
                \/ w.op = "heartbeat" /\ w.new[g].reg = cbsd[w.cbsd].reg

AnswersInv ==
    /\ \A s \in Sessions : Answers(sess[s])
    /\ \A c \in Cbsds : cbsd[c].present => cbsd[c].reg # 0
=============================================================================

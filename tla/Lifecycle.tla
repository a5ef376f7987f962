----------------------------- MODULE Lifecycle -----------------------------
(***************************************************************************)
(* The grant and CBSD lifecycle tables of services/lifecycle.py, as pure   *)
(* operators: which events a state accepts, what an accepted event writes  *)
(* into the grant row, and the gate every heartbeat passes first.          *)
(*                                                                         *)
(* A grant row is any record with at least the columns                     *)
(*     ls (lifecycle_state), auth, term, exp (grant_expire_time)           *)
(* so that the modules using these operators may add columns of their own. *)
(***************************************************************************)
EXTENDS Naturals

(* Response codes of the CBSD-SAS protocol the handlers answer with.       *)
SUCCESS          == 0
BLACKLISTED      == 101
MISSING_PARAM    == 102
INVALID_PARAM    == 103
TERMINATED_GRANT == 500
SUSPENDED_GRANT  == 501
UNSYNC_OP_PARAM  == 502

OperableStates == {"GRANTED", "AUTHORIZED", "SUSPENDED"}
TERMINAL_GRANT_STATES == {"TERMINATED", "EXPIRED", "RELINQUISHED"}
GrantStates == OperableStates \cup TERMINAL_GRANT_STATES

(* The events a stored row can meet.  APPROVE (REQUESTED -> GRANTED) is in *)
(* the source's table but process_grant inserts rows as GRANTED directly.  *)
GrantEvents == {"authorize", "suspend", "terminate", "expire", "relinquish"}

(* Mutants, here and below: what the operator after each would be if the   *)
(* code had the bug its name tells.  No behaviour uses them.               *)
TargetUnknownState(event) ==
    CASE event = "authorize"  -> "AUTHORIZED"
      [] event = "suspend"    -> "SUSPENDED"
      [] event = "terminate"  -> "TERMINATED"
      [] event = "expire"     -> "EXPIRED"
      [] event = "relinquish" -> "RELEASED"

(* GRANT_TRANSITIONS: all five events share the sources OperableStates.    *)
Target(event) ==
    CASE event = "authorize"  -> "AUTHORIZED"
      [] event = "suspend"    -> "SUSPENDED"
      [] event = "terminate"  -> "TERMINATED"
      [] event = "expire"     -> "EXPIRED"
      [] event = "relinquish" -> "RELINQUISHED"

IdempotentEvents == {"authorize", "suspend", "expire"}

GrantExpired(row, t) == row.exp <= t

(* resolve_grant_state: an operable column past its expiry reads EXPIRED.  *)
ResolveGrantState(row, t) ==
    IF row.ls \in OperableStates /\ GrantExpired(row, t)
      THEN "EXPIRED"
      ELSE row.ls

(* evaluate_grant_transition: outcome.ok for an event in a resolved state. *)
TransitionAllowed(event, current) ==
    \/ current \in OperableStates
    \/ /\ event \in IdempotentEvents
       /\ current = Target(event)

(* apply_grant_state: the column and the two flags older code still reads. *)
ApplyGrantState(row, state) ==
    [row EXCEPT !.ls   = state,
                !.auth = IF state = "AUTHORIZED" THEN TRUE
                         ELSE IF state = "GRANTED" THEN FALSE
                         ELSE row.auth,
                !.term = state \in TERMINAL_GRANT_STATES]

ApplyGrantEvent(row, event, t) ==
    IF TransitionAllowed(event, ResolveGrantState(row, t))
      THEN ApplyGrantState(row, Target(event))
      ELSE row

GateOpenToTerminated(row, opState, t) ==
    LET current == ResolveGrantState(row, t)
    IN  CASE current = "RELINQUISHED" -> INVALID_PARAM
          [] current = "GRANTED" /\ opState = "AUTHORIZED" -> UNSYNC_OP_PARAM
          [] current = "SUSPENDED"    -> SUSPENDED_GRANT
          [] OTHER                    -> SUCCESS

(* heartbeat_operation_allowed: SUCCESS opens the gate, EXPIRED included.  *)
HeartbeatGate(row, opState, t) ==
    LET current == ResolveGrantState(row, t)
    IN  CASE current = "TERMINATED"   -> TERMINATED_GRANT
          [] current = "RELINQUISHED" -> INVALID_PARAM
          [] current = "GRANTED" /\ opState = "AUTHORIZED" -> UNSYNC_OP_PARAM
          [] current = "SUSPENDED"    -> SUSPENDED_GRANT
          [] OTHER                    -> SUCCESS

(* CBSD_TRANSITIONS: a row that exists is REGISTERED (a deregistered CBSD  *)
(* has no row), so the source state is the presence of the row.            *)
CbsdTransitionAllowed(event, present) ==
    CASE event = "register"   -> ~present
      [] event = "reregister" -> present
      [] event = "deregister" -> present
=============================================================================

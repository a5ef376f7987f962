--------------------------- MODULE GrantPromise -----------------------------
(***************************************************************************)
(* What the CBSD interface of the SAS promises about grants, with every    *)
(* request a single instant: no sessions, locks, rows, flags or lifecycle  *)
(* columns.  A grant is issued once, to a registered CBSD, clear of the    *)
(* CBSD's other open grants; only while it is open, and under the          *)
(* registration it was issued to, can its deadlines move; once closed it   *)
(* stays closed; a new registration leaves no usable grant of the old one. *)
(* CbsdGrants implements this specification.                               *)
(***************************************************************************)
EXTENDS Naturals

CONSTANTS Cbsds, Grants, Ranges, Horizons, Overlaps(_, _),
          None, Closed   \* never issued; closed for good

VARIABLES
    clock,      \* the wall clock
    epoch,      \* epoch[c]: the current registration of c, 0 if there is none
    last,       \* last[c]: the last registration c had
    open        \* open[g]: the terms of an open grant, None before, Closed after

vars == <<clock, epoch, last, open>>

IsOpen(g) == open[g] \notin {None, Closed}

Terms == [cbsd : Cbsds, range : Ranges, epoch : Nat, ends : Nat, until : Nat]

OpenOf(c) == {g \in Grants : IsOpen(g) /\ open[g].cbsd = c}
Usable(c) == {g \in OpenOf(c) : clock < open[g].ends}

Bounded(terms) ==
    /\ terms.until <= terms.ends
    /\ \E h \in Horizons : terms.until <= clock + h

Closing(S) == [g \in Grants |-> IF g \in S THEN Closed ELSE open[g]]

Init ==
    /\ clock = 0
    /\ epoch = [c \in Cbsds |-> 0]
    /\ last = [c \in Cbsds |-> 0]
    /\ open = [g \in Grants |-> None]

Advance == /\ clock' = clock + 1
           /\ UNCHANGED <<epoch, last, open>>

(* A registration, first or repeated: whatever was usable is closed.       *)
Enrol(c) ==
    /\ last' = [last EXCEPT ![c] = @ + 1]
    /\ epoch' = [epoch EXCEPT ![c] = last[c] + 1]
    /\ \E S \in SUBSET OpenOf(c) :
          /\ Usable(c) \subseteq S
          /\ open' = Closing(S)
    /\ UNCHANGED clock

Leave(c) ==
    /\ epoch[c] # 0
    /\ epoch' = [epoch EXCEPT ![c] = 0]
    /\ open' = Closing(OpenOf(c))
    /\ UNCHANGED <<clock, last>>

(* The new terms are open'[g]: any that satisfy the conditions.            *)
Issue(g) ==
    LET terms == open'[g]
    IN  /\ open[g] = None
        /\ terms \in Terms
        /\ epoch[terms.cbsd] # 0
        /\ terms.epoch = epoch[terms.cbsd]
        /\ \A h \in OpenOf(terms.cbsd) : ~Overlaps(open[h].range, terms.range)
        /\ Bounded(terms)
        /\ open' = [open EXCEPT ![g] = terms]
        /\ UNCHANGED <<clock, epoch, last>>

(* A heartbeat's permission, with or without a renewal.                    *)
Permit(g) ==
    LET terms == open'[g]
    IN  /\ IsOpen(g)
        /\ terms \in Terms
        /\ open[g].epoch = epoch[open[g].cbsd]
        /\ Bounded(terms)
        /\ open' = [open EXCEPT ![g].ends = terms.ends, ![g].until = terms.until]
        /\ UNCHANGED <<clock, epoch, last>>

(* A relinquishment, an expiry, a termination, a CPAS run.                 *)
Close(S) ==
    /\ open' = Closing(S)
    /\ UNCHANGED <<clock, epoch, last>>

Next ==
    \/ Advance
    \/ \E c \in Cbsds : Enrol(c) \/ Leave(c)
    \/ \E g \in Grants : Issue(g) \/ Permit(g)
    \/ \E S \in SUBSET {g \in Grants : IsOpen(g)} : Close(S)

Spec == Init /\ [][Next]_vars
=============================================================================

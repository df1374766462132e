------------------------------ MODULE GrantView ------------------------------
(***************************************************************************)
(* What the gateway promises about authorization, free of the mechanism:   *)
(* permission writers commit a sequence of versions of the grant table,    *)
(* and the gateway decides every request either by one committed version,  *)
(* whole, or by the empty table (deny all).  The version it decides by     *)
(* never goes back in time.  internal/authz implements this with a polled  *)
(* revision number and an in-memory snapshot (module Authz).               *)
(***************************************************************************)
EXTENDS Integers

CONSTANT
    Grant       \* the (user, table FQN) pairs a grant table may hold

VARIABLES
    version,    \* number of the newest committed version
    hist,       \* hist[v]: the grant table as version v committed it
    allowed,    \* the pairs the gateway allows now
    floor       \* newest version the gateway has ever decided by

viewVars == <<version, hist, allowed, floor>>

ViewTypeOK ==
    /\ version \in Nat
    /\ hist \in [0 .. version -> SUBSET Grant]
    /\ allowed \in SUBSET Grant
    /\ floor \in 0 .. version

\* An empty grant table, and a gateway that has loaded nothing.
ViewInit ==
    /\ version = 0
    /\ hist = [v \in {0} |-> {}]
    /\ allowed = {}
    /\ floor = 0

\* A permission writer commits the next version of the table.
Commit ==
    /\ version' = version + 1
    /\ \E G \in SUBSET Grant :
          hist' = [v \in 0 .. version + 1 |-> IF v <= version THEN hist[v] ELSE G]
    /\ UNCHANGED <<allowed, floor>>

\* The gateway adopts a whole committed version, no older than any before.
Adopt ==
    /\ floor' \in floor .. version
    /\ allowed' = hist[floor']
    /\ UNCHANGED <<version, hist>>

\* The gateway falls back to deny-all (not loaded, failed load, not running).
DenyAll ==
    /\ allowed' = {}
    /\ UNCHANGED <<version, hist, floor>>

ViewNext == Commit \/ Adopt \/ DenyAll

ViewSpec == ViewInit /\ [][ViewNext]_viewVars
=============================================================================

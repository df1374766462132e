------------------------------- MODULE Gateway -------------------------------
(***************************************************************************)
(* Tool calls in the serving daemon.  Every HTTP request verifies its key  *)
(* against the credential table; execute_sql then takes a slot of the load *)
(* gate, validates the statement, checks its tables one by one against the *)
(* authorization view (which other goroutines and processes move all the   *)
(* while), runs the query, frees the slot, and the wrapper `logged` writes *)
(* the execution record.  The view moves as GrantView allows, which module *)
(* Authz implements.                                                       *)
(***************************************************************************)
EXTENDS LoadGate, FiniteSets

CONSTANTS
    User,
    Table,        \* tables of the routed databases, by FQN
    Grant,        \* the (user, table) pairs the grant table may hold
    Owner,        \* Owner[k]: the user credential k is bound to
    Call,         \* tool calls that may arrive
    MaxVersion,   \* bound: permission writes
    MaxFaults,    \* bound: failed reads of the store and failed record writes
    MaxCrashes    \* bound: daemon crashes

ASSUME CallAssumption == IsFiniteSet(Call) /\ Key # {}
ASSUME OwnerAssumption == Owner \in [Key -> User] /\ Grant \subseteq User \X Table
ASSUME GatewayBounds == MaxVersion \in Nat /\ MaxFaults \in Nat /\ MaxCrashes \in Nat

VARIABLES
    cred,         \* dgw_credentials: "absent", "active" or "revoked" for each key
    version, hist, allowed, floor,   \* the authorization view, see GrantView
    call,         \* the calls, see CallState
    records,      \* lines of the raw execution record file
    serving,      \* the daemon runs
    faults,       \* faults so far
    crashes       \* crashes so far

view == <<version, hist, allowed, floor>>
daemon == <<serving, faults, crashes>>
vars == <<gate, cred, view, call, records, daemon>>

View == INSTANCE GrantView

-----------------------------------------------------------------------------
(* What a call carries and where it stands                                 *)

Statement ==
    {"semantic",   \* not execute_sql: one of the five semantic tools
     "blank",      \* refused before the gate: not configured, or no SQL text
     "refused",    \* routing, statement count, classification or a table that
                   \* maps to no FQN refuses it
     "syntax",     \* does not parse
     "query"}      \* one SELECT over the tables of the call

Status == {"success", "rejected", "timeout", "parse_error"}
Outcome == Status \cup {"none", "unauthorized", "fault"}
CredState == {"absent", "active", "revoked"}
SlotHeld == {"validate", "authorize", "query", "release"}

CallState ==
    [pc : {"new", "verify", "handler", "record", "done", "lost"} \cup SlotHeld,
     presented : Key,          \* the bearer key of this HTTP request
     key : Key,                \* KeyFromContext: the key that opened the session
     sql : Statement,
     tables : SUBSET Table,    \* ExtractTables
     todo : SUBSET Table,      \* tables AuthorizeTables has not compared yet
     since : Nat,              \* history: floor when the request arrived
     was : CredState,          \* history: what presented was then
     ran : {"no", "part", "whole"},  \* history: the query ran (to its last row)
     outcome : Outcome]        \* the result handed back

Record == [kind : {"tool_call", "auth_failure"}, call : Call, status : Status]

TypeOK ==
    /\ keyCur \in [Key -> Nat]
    /\ totalCur \in Nat
    /\ cred \in [Key -> CredState]
    /\ View!ViewTypeOK
    /\ call \in [Call -> CallState]
    /\ records \in SUBSET Record
    /\ serving \in BOOLEAN
    /\ faults \in 0 .. MaxFaults
    /\ crashes \in 0 .. MaxCrashes

\* A call that has not arrived; the key it names is of no account.
NoCall ==
    [pc |-> "new", presented |-> CHOOSE k \in Key : TRUE, key |-> CHOOSE k \in Key : TRUE,
     sql |-> "blank", tables |-> {}, todo |-> {}, since |-> 0,
     was |-> "absent", ran |-> "no", outcome |-> "none"]

Init ==
    /\ EmptyGate
    /\ cred = [k \in Key |-> "absent"]
    /\ View!ViewInit
    /\ call = [c \in Call |-> NoCall]
    /\ records = {}
    /\ serving = TRUE
    /\ faults = 0
    /\ crashes = 0

Holders(k) == {c \in Call : call[c].pc \in SlotHeld /\ call[c].key = k}
AllHolders == {c \in Call : call[c].pc \in SlotHeld}

Goto(c, pc) == call' = [call EXCEPT ![c].pc = pc]
Finish(c, pc, outcome) == call' = [call EXCEPT ![c].pc = pc, ![c].outcome = outcome]

-----------------------------------------------------------------------------
(* Other processes and goroutines                                          *)

\* key-create and key-revoke; a revoked key stays revoked.
IssueKey(k) ==
    /\ cred[k] = "absent"
    /\ cred' = [cred EXCEPT ![k] = "active"]
    /\ UNCHANGED <<gate, view, call, records, daemon>>

RevokeKey(k) ==
    /\ cred[k] = "active"
    /\ cred' = [cred EXCEPT ![k] = "revoked"]
    /\ UNCHANGED <<gate, view, call, records, daemon>>

\* A permission command commits.
ChangeGrants ==
    /\ version < MaxVersion
    /\ View!Commit
    /\ UNCHANGED <<gate, cred, call, records, daemon>>

\* The reload goroutine swaps the snapshot, or fails closed, under any call.
Reload ==
    /\ serving
    /\ View!Adopt \/ View!DenyAll
    /\ view' # view
    /\ UNCHANGED <<gate, cred, call, records, daemon>>

-----------------------------------------------------------------------------
(* One call                                                                *)

\* A call as it arrives.
Request(presented, key, sql, tables) ==
    [pc |-> "verify", presented |-> presented, key |-> key, sql |-> sql, tables |-> tables,
     todo |-> tables, since |-> floor, was |-> cred[presented], ran |-> "no", outcome |-> "none"]

\* A request on some session.  The session keeps the identity of the request
\* that opened it, whatever key this request presents.
Arrive(c) ==
    /\ serving
    /\ call[c].pc = "new"
    /\ \E presented \in Key, key \in {k \in Key : cred[k] # "absent"}, sql \in Statement,
          tables \in SUBSET Table :
          /\ sql # "query" => tables = {}
          /\ call' = [call EXCEPT ![c] = Request(presented, key, sql, tables)]
    /\ UNCHANGED <<gate, cred, view, records, daemon>>

\* Seeded fault: the lookup forgets revoked_at.
Verify_IgnoresRevocation(c) ==
    /\ call[c].pc = "verify"
    /\ cred[call[c].presented] # "absent"
    /\ Owner[call[c].presented] = Owner[call[c].key]
    /\ Goto(c, "handler")
    /\ UNCHANGED <<gate, cred, view, records, daemon>>

\* verifyToken and the session's user check pass.
Verify(c) ==
    /\ call[c].pc = "verify"
    /\ cred[call[c].presented] = "active"
    /\ Owner[call[c].presented] = Owner[call[c].key]
    /\ Goto(c, "handler")
    /\ UNCHANGED <<gate, cred, view, records, daemon>>

\* 401 (unknown or revoked key) or 403 (another user's session): recorded
\* without identity, answered, never dispatched.  A record that cannot be
\* written leaves the answer as it is.
Deny(c) ==
    /\ call[c].pc = "verify"
    /\ \/ cred[call[c].presented] # "active"
       \/ Owner[call[c].presented] # Owner[call[c].key]
    /\ Finish(c, "done", "unauthorized")
    /\ \/ /\ records' = records \cup {[kind |-> "auth_failure", call |-> c, status |-> "rejected"]}
          /\ UNCHANGED faults
       \/ /\ faults < MaxFaults
          /\ faults' = faults + 1
          /\ UNCHANGED records
    /\ UNCHANGED <<gate, cred, view, serving, crashes>>

\* The credential table cannot be read: 500, nothing recorded.
VerifyFails(c) ==
    /\ call[c].pc = "verify"
    /\ faults < MaxFaults
    /\ faults' = faults + 1
    /\ Finish(c, "done", "fault")
    /\ UNCHANGED <<gate, cred, view, records, serving, crashes>>

\* Semantic tools read without the gate and without a grant ...
Semantic(c) ==
    /\ call[c].pc = "handler"
    /\ call[c].sql = "semantic"
    /\ \E outcome \in {"success", "rejected"} : Finish(c, "record", outcome)
    /\ UNCHANGED <<gate, cred, view, records, daemon>>

\* ... and execute_sql returns early before it touches the gate, or at it.
Refuse(c) ==
    /\ call[c].pc = "handler"
    /\ call[c].sql # "semantic"
    /\ call[c].sql = "blank" \/ Full(call[c].key)
    /\ Finish(c, "record", "rejected")
    /\ UNCHANGED <<gate, cred, view, records, daemon>>

Admit(c) ==
    /\ call[c].pc = "handler"
    /\ call[c].sql \notin {"semantic", "blank"}
    /\ Acquire(call[c].key)
    /\ Goto(c, "validate")
    /\ UNCHANGED <<cred, view, records, daemon>>

\* Routing, Parse, the statement count and Check up to AuthorizeTables.
Validate(c) ==
    /\ call[c].pc = "validate"
    /\ CASE call[c].sql = "syntax"  -> Finish(c, "release", "parse_error")
         [] call[c].sql = "query"   -> Goto(c, "authorize")
         [] OTHER                   -> Finish(c, "release", "rejected")
    /\ UNCHANGED <<gate, cred, view, records, daemon>>

\* Seeded fault: the loop returns at the first granted table.
CheckTable_FirstDecides(c) ==
    /\ call[c].pc = "authorize"
    /\ \E t \in call[c].todo :
          IF <<Owner[call[c].key], t>> \in allowed
          THEN call' = [call EXCEPT ![c].todo = {}]
          ELSE Finish(c, "release", "rejected")
    /\ UNCHANGED <<gate, cred, view, records, daemon>>

\* Seeded fault: a refused table is asked again until it is granted.
CheckTable_Retries(c) ==
    /\ call[c].pc = "authorize"
    /\ \E t \in call[c].todo :
          /\ <<Owner[call[c].key], t>> \in allowed
          /\ call' = [call EXCEPT ![c].todo = @ \ {t}]
    /\ UNCHANGED <<gate, cred, view, records, daemon>>

\* AuthorizeTables compares one table (AuthorizeBusinessTable, under the
\* snapshot of this moment) and stops at the first refusal.
CheckTable(c) ==
    /\ call[c].pc = "authorize"
    /\ \E t \in call[c].todo :
          IF <<Owner[call[c].key], t>> \in allowed
          THEN call' = [call EXCEPT ![c].todo = @ \ {t}]
          ELSE Finish(c, "release", "rejected")
    /\ UNCHANGED <<gate, cred, view, records, daemon>>

\* pool.Query, once every table has passed.
Execute(c) ==
    /\ call[c].pc = "authorize"
    /\ call[c].todo = {}
    /\ Goto(c, "query")
    /\ UNCHANGED <<gate, cred, view, records, daemon>>

\* Seeded fault: a connection error falls through pgError without a kind.
QueryEnds_NoKind(c) ==
    /\ call[c].pc = "query"
    /\ \E outcome \in {"success", "timeout", "none"} :
          call' = [call EXCEPT ![c].pc = "release", ![c].outcome = outcome,
                               ![c].ran = IF outcome = "success" THEN "whole" ELSE "part"]
    /\ UNCHANGED <<gate, cred, view, records, daemon>>

\* The rows are encoded, or pgError classifies what PostgreSQL or the
\* connection reported (57014 is the timeout; the rest is a rejection).
QueryEnds(c) ==
    /\ call[c].pc = "query"
    /\ \E outcome \in {"success", "timeout", "rejected"} :
          call' = [call EXCEPT ![c].pc = "release", ![c].outcome = outcome,
                               ![c].ran = IF outcome = "success" THEN "whole" ELSE "part"]
    /\ UNCHANGED <<gate, cred, view, records, daemon>>

\* Seeded fault: the slot goes back under the key of the request, not of the session.
FreeSlot_Presented(c) ==
    /\ call[c].pc = "release"
    /\ Release(call[c].presented)
    /\ Goto(c, "record")
    /\ UNCHANGED <<cred, view, records, daemon>>

\* The deferred Release, on every return after the gate.
FreeSlot(c) ==
    /\ call[c].pc = "release"
    /\ Release(call[c].key)
    /\ Goto(c, "record")
    /\ UNCHANGED <<cred, view, records, daemon>>

\* Seeded fault: the record is built from the Go error alone (always nil), not
\* from the result's error flag.
WriteRecord_NilErrorIsSuccess(c) ==
    /\ call[c].pc = "record"
    /\ Goto(c, "done")
    /\ records' = records \cup {[kind |-> "tool_call", call |-> c, status |-> "success"]}
    /\ UNCHANGED <<gate, cred, view, daemon>>

\* buildToolRecord and LogToolCall, after the handler returned.
WriteRecord(c) ==
    /\ call[c].pc = "record"
    /\ Goto(c, "done")
    /\ records' = records \cup {[kind |-> "tool_call", call |-> c, status |-> call[c].outcome]}
    /\ UNCHANGED <<gate, cred, view, daemon>>

\* The record cannot be written: the caller gets its result all the same.
RecordFails(c) ==
    /\ call[c].pc = "record"
    /\ faults < MaxFaults
    /\ faults' = faults + 1
    /\ Goto(c, "done")
    /\ UNCHANGED <<gate, cred, view, records, serving, crashes>>

-----------------------------------------------------------------------------
(* The daemon's process                                                    *)

\* Calls in flight, the gate and the snapshot live in memory only.
Crash ==
    /\ serving
    /\ crashes < MaxCrashes
    /\ crashes' = crashes + 1
    /\ serving' = FALSE
    /\ call' = [c \in Call |-> IF call[c].pc \in {"new", "done", "lost"} THEN call[c]
                               ELSE [call[c] EXCEPT !.pc = "lost"]]
    /\ keyCur' = [k \in Key |-> 0]
    /\ totalCur' = 0
    /\ View!DenyAll
    /\ UNCHANGED <<cred, records, faults>>

\* gateway.New builds a fresh gate and serves only after a load.
Restart ==
    /\ ~serving
    /\ serving' = TRUE
    /\ View!Adopt
    /\ UNCHANGED <<gate, cred, call, records, faults, crashes>>

CallStep(c) ==
    \/ Verify(c) \/ Deny(c) \/ VerifyFails(c)
    \/ Semantic(c) \/ Refuse(c) \/ Admit(c) \/ Validate(c) \/ CheckTable(c)
    \/ Execute(c) \/ QueryEnds(c) \/ FreeSlot(c) \/ WriteRecord(c) \/ RecordFails(c)

Next ==
    \/ \E k \in Key : IssueKey(k) \/ RevokeKey(k)
    \/ ChangeGrants
    \/ Reload
    \/ \E c \in Call : Arrive(c) \/ CallStep(c)
    \/ Crash
    \/ Restart

Spec == Init /\ [][Next]_vars

\* The scheduler runs every goroutine, and statement_timeout ends every query.
FairSpec == Spec /\ \A c \in Call : WF_vars(CallStep(c))

-----------------------------------------------------------------------------
(* Properties                                                              *)

\* The two counters are exact: each key counts the calls that hold a slot in its
\* name, the process counts them all, and neither passes its limit, whatever
\* early return, timeout or crash ends a call (TryAcquire, deferred Release).
SlotsAccounted ==
    /\ \A k \in Key : keyCur[k] = Cardinality(Holders(k)) /\ keyCur[k] <= PerKey
    /\ totalCur = Cardinality(AllHolders) /\ totalCur <= Total

\* A query in PostgreSQL reads only tables that some version of the grant table
\* gave its user while the call was under way: the snapshot may be swapped
\* between two tables of one statement, but never lets in a pair that no version
\* from the arrival of the request on held (AuthorizeTables over Allow).
QueryWasGranted ==
    \A c \in Call : call[c].pc = "query" =>
        \A t \in call[c].tables : \E v \in call[c].since .. floor :
            <<Owner[call[c].key], t>> \in hist[v]

\* The execution record tells what happened: a line says success for execute_sql
\* exactly when the query gave its last row, no call has both a tool line and an
\* authentication failure or two different lines, and a call that ended without
\* a line met a fault (logged, buildToolRecord, recordAuthFailure).
RecordsAreTrue ==
    /\ \A r \in records :
          /\ r.kind = "auth_failure" => call[r.call].outcome = "unauthorized"
          /\ call[r.call].sql # "semantic" => (r.status = "success" <=> call[r.call].ran = "whole")
    /\ \A r, s \in records : r.call = s.call => r = s
    /\ Cardinality({c \in Call : call[c].pc = "done" /\ ~\E r \in records : r.call = c}) <= faults

\* Revocation is immediate over HTTP: a request whose key was revoked before it
\* arrived reaches no handler, on any session of its user (VerifyKey reads the
\* table for every request).
RevokedKeyRefused ==
    \A c \in Call : call[c].was = "revoked" => call[c].pc \in {"verify", "done", "lost"}
                                       /\ call[c].outcome \in {"none", "unauthorized", "fault"}

\* Every call that arrived ends: with a result, or with the daemon.
CallsEnd == \A c \in Call : call[c].pc # "new" ~> call[c].pc \in {"done", "lost"}
=============================================================================

-------------------------------- MODULE Authz --------------------------------
(***************************************************************************)
(* Table authorization across processes.  Permission commands (grant-add,  *)
(* grant-remove, grants-apply: package grants) write the grant table and   *)
(* bump a revision in one SQLite transaction; the daemon (package authz)   *)
(* keeps an in-memory snapshot that a polling loop reloads when the        *)
(* revision differs.  SQLite is the only channel between them.             *)
(***************************************************************************)
EXTENDS Integers

CONSTANTS
    Grant,        \* the (user, table FQN) pairs a grant table may hold
    Pattern,      \* the wildcard declarations a grants file may carry
    Apply,        \* the grants-apply processes that may run
    MaxRevision,  \* bound: permission writes
    MaxFaults,    \* bound: failed store reads of the daemon
    MaxCrashes    \* bound: daemon crashes

ASSUME BoundsAssumption == MaxRevision \in Nat /\ MaxFaults \in Nat /\ MaxCrashes \in Nat

VARIABLES
    grants,       \* dgw_table_grants
    patterns,     \* dgw_grant_patterns
    revision,     \* dgw_permission_meta.revision
    hist,         \* history variable: hist[r] = the grant table revision r committed
    apply,        \* grants-apply processes, see ApplyState
    daemon,       \* "down", "starting" (inside gateway.New) or "serving"
    snap,         \* authz.Service: grants, loaded, revision
    load,         \* the goroutine that polls and loads, see LoadState
    floor,        \* history variable: revision at which snap.grants was read
    faults,       \* reads that have failed so far
    crashes       \* crashes so far

store == <<grants, patterns, revision, hist>>
gateway == <<daemon, snap, load, floor, faults, crashes>>
vars == <<store, apply, gateway>>

NoSnapshot == [grants |-> {}, loaded |-> FALSE, revision |-> 0]
NotLoading == [pc |-> "idle", rev |-> -1, rows |-> {}, at |-> 0]
NotApplying == [pc |-> "idle", want |-> {}, wantPatterns |-> {}, same |-> FALSE,
                held |-> FALSE, committed |-> 0, reported |-> 0]

SnapState == [grants : SUBSET Grant, loaded : BOOLEAN, revision : Int]
LoadState == [pc : {"idle", "revision", "grants", "swap"}, rev : Int,
              rows : SUBSET Grant,     \* rows read from dgw_table_grants
              at : Nat]                \* history: revision they were read at
ApplyState ==
    [pc : {"idle", "list", "compare", "write", "report", "done"},
     want : SUBSET Grant,              \* the file's expanded grants ...
     wantPatterns : SUBSET Pattern,    \* ... and its wildcard declarations
     same : BOOLEAN,                   \* Added = 0 and Removed = 0
     held : BOOLEAN,                   \* history: the table has equalled want meanwhile
     committed : Nat,                  \* history: revision of the own transaction, or 0
     reported : Nat]                   \* SyncResult.Revision

TypeOK ==
    /\ grants \in SUBSET Grant
    /\ patterns \in SUBSET Pattern
    /\ revision \in Nat
    /\ hist \in [0 .. revision -> SUBSET Grant]
    /\ apply \in [Apply -> ApplyState]
    /\ daemon \in {"down", "starting", "serving"}
    /\ snap \in SnapState
    /\ load \in LoadState
    /\ floor \in Nat
    /\ faults \in 0 .. MaxFaults
    /\ crashes \in 0 .. MaxCrashes

Init ==
    /\ grants = {}
    /\ patterns = {}
    /\ revision = 0
    /\ hist = [r \in {0} |-> {}]
    /\ apply = [p \in Apply |-> NotApplying]
    /\ daemon = "down"
    /\ snap = NoSnapshot
    /\ load = NotLoading
    /\ floor = 0
    /\ faults = 0
    /\ crashes = 0

-----------------------------------------------------------------------------
(* Package grants: the permission commands                                 *)

\* History: an apply process that still compares has now had its table T in the store.
Witness(T) ==
    [p \in Apply |->
        [apply[p] EXCEPT !.held = @ \/ (apply[p].pc \in {"list", "compare"} /\ apply[p].want = T)]]

\* Seeded fault: the history records a version the store never numbered (the
\* bump left out of the transaction).
CommitTable_NoBump(T) ==
    /\ revision < MaxRevision
    /\ grants' = T
    /\ revision' = revision
    /\ hist' = [r \in 0 .. revision + 1 |-> IF r <= revision THEN hist[r] ELSE T]

\* One transaction: write the table and bump the revision (mutate's tail and
\* BumpPermissionRevisionTx).
CommitTable(T) ==
    /\ revision < MaxRevision
    /\ grants' = T
    /\ revision' = revision + 1
    /\ hist' = [r \in 0 .. revision + 1 |-> IF r <= revision THEN hist[r] ELSE T]

\* grant-add.  A grant already there affects no row: no write and no bump.
AddGrant(g) ==
    /\ g \notin grants
    /\ CommitTable(grants \cup {g})
    /\ apply' = Witness(grants')
    /\ UNCHANGED <<patterns, gateway>>

\* grant-remove.  A grant not there affects no row: no write and no bump.
RemoveGrant(g) ==
    /\ g \in grants
    /\ CommitTable(grants \ {g})
    /\ apply' = Witness(grants')
    /\ UNCHANGED <<patterns, gateway>>

\* grants-apply expands its file (expandAll): any failing target rejects the
\* file whole, so a process gets here with a complete wanted table only.
ApplyExpand(p) ==
    /\ apply[p].pc \in {"idle", "done"}
    /\ \E want \in SUBSET Grant, wantPatterns \in SUBSET Pattern :
          /\ wantPatterns # {} => want # {}      \* a wildcard expands to some table
          /\ apply' = [apply EXCEPT ![p] =
                [NotApplying EXCEPT !.pc = "list", !.want = want,
                    !.wantPatterns = wantPatterns, !.held = (want = grants)]]
    /\ UNCHANGED <<store, gateway>>

\* Seeded fault: only Added is counted, grants the file dropped go unnoticed.
ApplyList_AddedOnly(p) ==
    /\ apply[p].pc = "list"
    /\ apply' = [apply EXCEPT ![p].pc = "compare", ![p].same = (apply[p].want \subseteq grants)]
    /\ UNCHANGED <<store, gateway>>

\* Sync reads the current grants (Snapshot) and counts Added and Removed.
ApplyList(p) ==
    /\ apply[p].pc = "list"
    /\ apply' = [apply EXCEPT ![p].pc = "compare", ![p].same = (grants = apply[p].want)]
    /\ UNCHANGED <<store, gateway>>

\* Sync then reads the current patterns (SyncPatterns), in another statement.
\* With nothing to change it writes nothing and only reports.
ApplyCompare(p) ==
    /\ apply[p].pc = "compare"
    /\ LET unchanged == apply[p].same /\ patterns = apply[p].wantPatterns
       IN  apply' = [apply EXCEPT ![p].pc = IF unchanged THEN "report" ELSE "write"]
    /\ UNCHANGED <<store, gateway>>

\* One transaction: clear both tables, insert the wanted rows, bump, commit.
ApplyWrite(p) ==
    /\ apply[p].pc = "write"
    /\ CommitTable(apply[p].want)
    /\ patterns' = apply[p].wantPatterns
    /\ apply' = [Witness(grants') EXCEPT ![p].pc = "report", ![p].committed = revision']
    /\ UNCHANGED gateway

\* Either way Sync reads the revision it reports in a statement of its own.
ApplyReport(p) ==
    /\ apply[p].pc = "report"
    /\ apply' = [apply EXCEPT ![p].pc = "done", ![p].reported = revision]
    /\ UNCHANGED <<store, gateway>>

\* The command dies, or a store call fails and it exits: SQLite rolls back an
\* open transaction, and a committed one stays.
ApplyAbort(p) ==
    /\ apply[p].pc \in {"list", "compare", "write", "report"}
    /\ apply' = [apply EXCEPT ![p] = NotApplying]
    /\ UNCHANGED <<store, gateway>>

-----------------------------------------------------------------------------
(* Package authz: the daemon's snapshot and its reload loop                *)

\* Allow: deny by default, and deny everything while nothing is loaded.
Allow(g) == snap.loaded /\ g \in snap.grants

\* A read of the store by the daemon fails; the budget is the model's.
ReadFails ==
    /\ faults < MaxFaults
    /\ faults' = faults + 1

ReadSucceeds == UNCHANGED faults

\* failClosed, and what Load's caller does with the error: gateway.New fails
\* (the process exits), ReloadLoop goes on to its next tick.
FailClosed ==
    /\ load' = NotLoading
    /\ IF daemon = "starting"
       THEN daemon' = "down" /\ snap' = NoSnapshot
       ELSE UNCHANGED daemon /\ snap' = [snap EXCEPT !.loaded = FALSE, !.revision = -1]

\* The process starts: gateway.New makes a fresh Service and calls Load.
StartDaemon ==
    /\ daemon = "down"
    /\ daemon' = "starting"
    /\ load' = [NotLoading EXCEPT !.pc = "revision"]
    /\ UNCHANGED <<store, apply, snap, floor, faults, crashes>>

\* The process dies and its memory is gone.
CrashDaemon ==
    /\ daemon # "down"
    /\ crashes < MaxCrashes
    /\ crashes' = crashes + 1
    /\ daemon' = "down"
    /\ snap' = NoSnapshot
    /\ load' = NotLoading
    /\ UNCHANGED <<store, apply, floor, faults>>

\* Seeded fault: the tick reloads only a snapshot that is not loaded.
PollTick_LoadedIsEnough ==
    /\ daemon = "serving"
    /\ load.pc = "idle"
    /\ ReadSucceeds
    /\ load' = [load EXCEPT !.pc = IF snap.loaded THEN "idle" ELSE "revision"]
    /\ UNCHANGED <<store, apply, daemon, snap, floor, crashes>>

\* A tick of ReloadLoop reads the revision and compares it with the
\* snapshot's: equal, it waits for the next tick; different, it loads.
PollTick ==
    /\ daemon = "serving"
    /\ load.pc = "idle"
    /\ ReadSucceeds
    /\ load' = [load EXCEPT !.pc = IF revision = snap.revision THEN "idle" ELSE "revision"]
    /\ UNCHANGED <<store, apply, daemon, snap, floor, crashes>>

\* A tick that cannot read the revision logs a warning and waits.
PollFails ==
    /\ daemon = "serving"
    /\ load.pc = "idle"
    /\ ReadFails
    /\ UNCHANGED <<store, apply, daemon, snap, load, floor, crashes>>

\* Load's first statement reads the revision ...
LoadRevision ==
    /\ load.pc = "revision"
    /\ ReadSucceeds
    /\ load' = [load EXCEPT !.pc = "grants", !.rev = revision]
    /\ UNCHANGED <<store, apply, daemon, snap, floor, crashes>>

\* Seeded fault: rows.Err() is not looked at, a broken read keeps what it got.
LoadGrants_Truncated ==
    /\ load.pc = "grants"
    /\ ReadSucceeds
    /\ \E got \in SUBSET grants :
          load' = [load EXCEPT !.pc = "swap", !.rows = got, !.at = revision]
    /\ UNCHANGED <<store, apply, daemon, snap, floor, crashes>>

\* ... its second the rows, all from one SQLite read snapshot ...
LoadGrants ==
    /\ load.pc = "grants"
    /\ ReadSucceeds
    /\ load' = [load EXCEPT !.pc = "swap", !.rows = grants, !.at = revision]
    /\ UNCHANGED <<store, apply, daemon, snap, floor, crashes>>

\* ... either may fail ...
LoadFails ==
    /\ load.pc \in {"revision", "grants"}
    /\ ReadFails
    /\ FailClosed
    /\ UNCHANGED <<store, apply, floor, crashes>>

\* Seeded fault: the revision is read after the rows instead of before them.
LoadSwap_LateRevision ==
    /\ load.pc = "swap"
    /\ snap' = [grants |-> load.rows, loaded |-> TRUE, revision |-> revision]
    /\ floor' = load.at
    /\ daemon' = "serving"
    /\ load' = NotLoading
    /\ UNCHANGED <<store, apply, faults, crashes>>

\* ... and the new snapshot replaces the old one under the lock.
LoadSwap ==
    /\ load.pc = "swap"
    /\ snap' = [grants |-> load.rows, loaded |-> TRUE, revision |-> load.rev]
    /\ floor' = load.at
    /\ daemon' = "serving"
    /\ load' = NotLoading
    /\ UNCHANGED <<store, apply, faults, crashes>>

-----------------------------------------------------------------------------
PermissionCommand ==
    \/ \E g \in Grant : AddGrant(g) \/ RemoveGrant(g)
    \/ \E p \in Apply :
          \/ ApplyExpand(p) \/ ApplyList(p) \/ ApplyCompare(p)
          \/ ApplyWrite(p) \/ ApplyReport(p) \/ ApplyAbort(p)

DaemonStep ==
    \/ StartDaemon \/ CrashDaemon
    \/ PollTick \/ PollFails
    \/ LoadRevision \/ LoadGrants \/ LoadFails \/ LoadSwap

Next == PermissionCommand \/ DaemonStep

Spec == Init /\ [][Next]_vars

\* The supervisor restarts the daemon, the ticker keeps firing, and a load
\* that has begun runs to its end.  Operators need not do anything.
Fairness ==
    /\ WF_vars(StartDaemon)
    /\ WF_vars(PollTick)
    /\ WF_vars(LoadRevision)
    /\ WF_vars(LoadGrants)
    /\ WF_vars(LoadSwap)

FairSpec == Spec /\ Fairness

-----------------------------------------------------------------------------
(* Properties                                                              *)

\* A snapshot whose revision is the store's holds exactly the store's grants.
\* ReloadLoop skips the reload on equal revisions, so a snapshot breaking this
\* would be served for ever.
NoStuckSnapshot ==
    snap.loaded /\ snap.revision = revision => snap.grants = grants

\* grants-apply tells the truth, whatever other commands do meanwhile: one that
\* ends without writing had its file's grants in the store at some instant of
\* its run, and once the daemon serves a revision at least as new as the one it
\* reported, the daemon serves rows read after that apply committed.
ReportsAreTrue ==
    \A p \in Apply : apply[p].pc = "done" =>
        /\ apply[p].committed = 0 => apply[p].held
        /\ snap.loaded /\ snap.revision >= apply[p].reported
              => floor >= apply[p].committed

\* The daemon decides by whole committed versions of the grant table, never
\* going back to an older one, or denies everything (module GrantView).
View == INSTANCE GrantView WITH
            version <- revision, hist <- hist, floor <- floor,
            allowed <- {g \in Grant : Allow(g)}
ImplementsView == View!ViewSpec

\* Every committed permission change is enforced in the end and stays so; and
\* when the faults are over the daemon has recovered from deny-all and agrees
\* with the store, without a restart and without a new permission write
\* (ReloadLoop, failClosed).
CatchesUp ==
    /\ \A r \in 0 .. MaxRevision :
          revision >= r ~> [](snap.loaded => floor >= r)
    /\ <>[](snap.loaded /\ snap.grants = grants)
=============================================================================

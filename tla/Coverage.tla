------------------------------- MODULE Coverage -------------------------------
(***************************************************************************)
(* Grants that name more than a table.  `dgw grants-apply` expands metrics,*)
(* concepts, services and databases to tables, statement by statement      *)
(* (internal/grants/expand.go, internal/semantic/grants_expander.go,       *)
(* query.go), and commits the result; the expansion is a snapshot.         *)
(* `dgw semantic-sync` then compares, again statement by statement, what   *)
(* is granted with what there is now, and warns (cmd/dgw/main.go).         *)
(*                                                                         *)
(* How the commit compares and replaces the rows is module Authz.          *)
(***************************************************************************)
EXTENDS Catalogue

CONSTANTS
    User,
    Files         \* grants files: sets of [user, form, name]

Form == {"table", "metric", "concept", "prefix"}

ASSUME CoverageAssumption ==
    \A file \in Files :
        /\ file \subseteq [user : User, form : Form, name : Fqn \cup DOMAIN Under]
        /\ \A t \in file : t.name \in IF t.form = "prefix" THEN DOMAIN Under ELSE Fqn

VARIABLES
    granted,      \* dgw_table_grants: [user, table]
    patterns,     \* dgw_grant_patterns: [user, prefix]
    apply,        \* a grants-apply command
    check         \* the warnings of a semantic-sync command

NoApply == [pc |-> "idle", file |-> {}, todo |-> {}, target |-> {}, work |-> {},
            tables |-> {}, want |-> {}, seen |-> {}]
NoCheck == [pc |-> "idle", have |-> {}, rows |-> {}, todo |-> {},
            stale |-> {}, uncovered |-> {}, quiet |-> FALSE, skipped |-> FALSE]

CoverageInit ==
    /\ granted = {} /\ patterns = {}
    /\ apply = NoApply /\ check = NoCheck

-----------------------------------------------------------------------------
(* Expansion.  "work" holds the statements left for the current target.    *)

Of(user, tables) == {[user |-> user, table |-> t] : t \in tables}
PatternsIn(file) ==
    {[user |-> t.user, prefix |-> t.name] : t \in {x \in file : x.form = "prefix"}}

ApplyBusy(pc) == apply.pc = pc /\ UNCHANGED <<catalogue, granted, patterns, check>>
ApplyReads(next) == apply' = [next EXCEPT !.seen = @ \cup {store}]
Abort == [apply EXCEPT !.pc = "failed"]

BeginApply ==
    /\ apply.pc \in {"idle", "done", "failed"}
    /\ \E file \in Files : apply' = [NoApply EXCEPT !.pc = "next", !.file = file, !.todo = file]
    /\ UNCHANGED <<catalogue, granted, patterns, check>>

\* A table is taken as it is, unread.
NextTarget ==
    /\ ApplyBusy("next")
    /\ \E t \in apply.todo :
        apply' = IF t.form = "table"
                 THEN [apply EXCEPT !.todo = @ \ {t}, !.want = @ \cup Of(t.user, {t.name})]
                 ELSE [apply EXCEPT !.pc = "expand", !.todo = @ \ {t}, !.target = {t},
                                    !.tables = {}, !.work = {<<t.form, t.name>>}]

\* The first statement for a target: the tables of a prefix; or whether the
\* metric or the concept is there.
ExpandTarget ==
    /\ ApplyBusy("expand")
    /\ \E t \in apply.target :
        /\ <<t.form, t.name>> \in apply.work
        /\ \/ /\ t.form = "prefix"
              /\ ApplyReads([apply EXCEPT !.work = {}, !.tables = TablesUnder(store, t.name)])
           \/ /\ t.form # "prefix" /\ IsA(store, t.name, t.form)
              /\ ApplyReads([apply EXCEPT !.work =
                    {<<IF t.form = "metric" THEN "tables" ELSE "described", t.name>>}])
           \/ /\ t.form # "prefix" /\ ~IsA(store, t.name, t.form)
              /\ ApplyReads(Abort)

\* MetricTables.
ExpandTables ==
    /\ ApplyBusy("expand")
    /\ \E f \in Fqn :
        /\ <<"tables", f>> \in apply.work
        /\ ApplyReads([apply EXCEPT !.work = @ \ {<<"tables", f>>},
                                    !.tables = @ \cup MetricTables(store, f)])

ExpandDescribed ==
    /\ ApplyBusy("expand")
    /\ \E f \in Fqn :
        /\ <<"described", f>> \in apply.work
        /\ ApplyReads([apply EXCEPT
              !.work = {<<"look", g>> : g \in RelationTargets(store, "describes", f)}])

\* Seeded fault: a described column counts as a table.
ExpandLook_ColumnAsTable ==
    /\ ApplyBusy("expand")
    /\ \E g \in Fqn :
        /\ <<"look", g>> \in apply.work
        /\ ApplyReads([apply EXCEPT
              !.work = (@ \ {<<"look", g>>}) \cup
                       IF IsA(store, g, "metric") THEN {<<"tables", g>>} ELSE {},
              !.tables = @ \cup IF IsA(store, g, "table") \/ IsA(store, g, "column")
                                THEN {g} ELSE {}])

\* What a concept describes: a table, a column of one, a metric over some;
\* what is no longer there is passed over.
ExpandLook ==
    /\ ApplyBusy("expand")
    /\ \E g \in Fqn :
        /\ <<"look", g>> \in apply.work
        /\ ApplyReads([apply EXCEPT
              !.work = (@ \ {<<"look", g>>}) \cup
                       IF IsA(store, g, "metric") THEN {<<"tables", g>>} ELSE {},
              !.tables = @ \cup CASE IsA(store, g, "table") -> {g}
                                  [] IsA(store, g, "column") -> {TableOf[g]}
                                  [] OTHER -> {}])

\* A target without tables rejects the whole file.
EndTarget ==
    /\ ApplyBusy("expand")
    /\ apply.work = {}
    /\ apply' = IF apply.tables = {} THEN Abort
                ELSE [apply EXCEPT !.pc = "next",
                        !.want = @ \cup UNION {Of(t.user, apply.tables) : t \in apply.target}]

ExpandFails == ApplyBusy("expand") /\ apply.work # {} /\ apply' = Abort

CommitApply ==
    /\ apply.pc = "next" /\ apply.todo = {}
    /\ apply' = [apply EXCEPT !.pc = "done"]
    /\ granted' = apply.want
    /\ patterns' = PatternsIn(apply.file)
    /\ check' = [check EXCEPT !.quiet = FALSE]
    /\ UNCHANGED store
    /\ IF granted' = granted /\ patterns' = patterns THEN UNCHANGED commits ELSE Write

-----------------------------------------------------------------------------
(* A sync and its warnings.                                                *)

SyncCommit ==
    /\ check.pc = "idle"
    /\ Commit \/ UNCHANGED catalogue
    /\ check' = [NoCheck EXCEPT !.pc = "grants", !.quiet = TRUE]
    /\ UNCHANGED <<granted, patterns, apply>>

\* A sync whose warnings do not interest us here.
OtherCommit ==
    /\ Commit
    /\ check' = [check EXCEPT !.quiet = FALSE]
    /\ UNCHANGED <<granted, patterns, apply>>

CheckBusy(pc) == check.pc = pc /\ UNCHANGED <<catalogue, granted, patterns, apply>>

ReadGrants ==
    /\ CheckBusy("grants")
    /\ check' = [check EXCEPT !.pc = "stale", !.have = granted, !.rows = granted]

\* A grant for something that is no longer there.
CheckGrant ==
    /\ CheckBusy("stale")
    /\ \E g \in check.rows :
        check' = [check EXCEPT !.rows = @ \ {g},
                    !.stale = IF g.table \in Live(store) THEN @ ELSE @ \cup {g}]

ReadPatterns ==
    /\ CheckBusy("stale")
    /\ check.rows = {}
    /\ check' = [check EXCEPT !.pc = "patterns", !.todo = patterns]

\* Seeded fault: a table anybody may read counts as covered.
CheckPattern_AnyUser ==
    /\ CheckBusy("patterns")
    /\ \E p \in check.todo :
        check' = [check EXCEPT !.todo = @ \ {p},
            !.uncovered = @ \cup Of(p.user,
                {t \in TablesUnder(store, p.prefix) : \A g \in check.have : g.table # t})]

\* A table under a declared prefix that this user has no grant for.
CheckPattern ==
    /\ CheckBusy("patterns")
    /\ \E p \in check.todo :
        check' = [check EXCEPT !.todo = @ \ {p},
            !.uncovered = @ \cup (Of(p.user, TablesUnder(store, p.prefix)) \ check.have)]

EndCheck ==
    /\ CheckBusy("patterns")
    /\ check.todo = {}
    /\ check' = [check EXCEPT !.pc = "done"]

\* A statement that fails is logged and what depends on it passed over.
CheckFails ==
    \/ /\ CheckBusy("grants")
       /\ check' = [check EXCEPT !.pc = "done", !.skipped = TRUE]
    \/ /\ CheckBusy("stale")
       /\ \/ \E g \in check.rows : check' = [check EXCEPT !.rows = @ \ {g}, !.skipped = TRUE]
          \/ check.rows = {} /\ check' = [check EXCEPT !.pc = "done", !.skipped = TRUE]
    \/ /\ CheckBusy("patterns")
       /\ \E p \in check.todo : check' = [check EXCEPT !.todo = @ \ {p}, !.skipped = TRUE]

CloseSync ==
    /\ CheckBusy("done")
    /\ check' = NoCheck

CommandNext ==
    \/ BeginApply \/ NextTarget \/ ExpandTarget \/ ExpandTables \/ ExpandDescribed
    \/ ExpandLook \/ EndTarget \/ ExpandFails \/ CommitApply
    \/ SyncCommit \/ ReadGrants \/ CheckGrant \/ ReadPatterns
    \/ CheckPattern \/ EndCheck \/ CheckFails \/ CloseSync

-----------------------------------------------------------------------------
(* Properties.                                                             *)

\* The tables a target stands for in one version.
Meaning(c, t) ==
    CASE t.form = "table"   -> {t.name}
      [] t.form = "prefix"  -> TablesUnder(c, t.name)
      [] t.form = "metric"  -> MetricTables(c, t.name)
      [] t.form = "concept" ->
            LET described == RelationTargets(c, "describes", t.name) IN
            {g \in described : IsA(c, g, "table")}
                \cup {TableOf[g] : g \in {h \in described : IsA(c, h, "column")}}
                \cup UNION {MetricTables(c, g) : g \in {h \in described : IsA(c, h, "metric")}}

\* A file read from one version grants exactly what its targets mean in it,
\* and every target means something.
GrantsOfOneVersion ==
    apply.pc = "done" =>
        \A c \in Catalogues : apply.seen = {c} =>
            /\ apply.want = UNION {Of(t.user, Meaning(c, t)) : t \in apply.file}
            /\ \A t \in apply.file : Meaning(c, t) # {}

\* A sync made a concept of a metric between two statements that read it.
Converted ==
    \E c, d \in apply.seen, f \in Fqn : IsA(c, f, "metric") /\ IsA(d, f, "concept")

\* Read across syncs, it grants nothing but tables it names or that were
\* live in a version it read; when a metric became a concept meanwhile, what
\* the concept describes passes for a table, a column too.
GrantsOfAnyVersions ==
    apply.pc = "done" =>
        \A g \in apply.want :
            \/ [user |-> g.user, form |-> "table", name |-> g.table] \in apply.file
            \/ \E c \in apply.seen : IsA(c, g.table, "table")
            \/ Converted /\ \E c \in apply.seen : g.table \in Live(c)

\* A file that is applied grants what its targets mean: read from one
\* version, exactly that; read across a sync, nothing but tables named in
\* the file or live in a version it read, but for a metric that turned into a
\* concept under it (expand.go, grants_expander.go).
GrantsAreMeant == GrantsOfOneVersion /\ GrantsOfAnyVersions

\* When a sync ends that nobody wrote beside, it has warned of every gap
\* (ADR-0004: new tables are refused until the patterns are expanded again)
\* and of every grant left without a table, user by user, and of no other.
GapsAreWarned ==
    check.pc = "done" /\ check.quiet /\ ~check.skipped =>
        /\ check.stale = {g \in granted : g.table \notin Live(store)}
        /\ check.uncovered =
              (UNION {Of(p.user, TablesUnder(store, p.prefix)) : p \in patterns}) \ granted
=============================================================================

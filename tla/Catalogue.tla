------------------------------ MODULE Catalogue ------------------------------
(***************************************************************************)
(* The runtime tables of the semantic layer as their readers see them      *)
(* (internal/semantic/query.go): every statement reads one committed       *)
(* version, and the live rows only.  A sync commits a whole new version in *)
(* one transaction between any two statements (SemanticSync models how).   *)
(***************************************************************************)
EXTENDS Integers, Sequences, FiniteSets

CONSTANTS
    Fqn,          \* the names entities may have
    Catalogues,   \* the versions a sync may commit
    TableOf,      \* [column names -> the table named by their first segments]
    Under,        \* [services and databases -> the names with that prefix]
    MaxCommits    \* bound: transactions that commit

Type == {"connects_to", "contains", "references", "describes"}
Kind == {"service", "database", "table", "column", "metric", "concept"}

\* "kind" has the live entities for its domain; "time" the is_time columns.
\* What one sync alone commits is closed: an edge, an enum value and a time
\* column belong to entities that are there (SemanticSync!ClosedWhenSettled),
\* a column to its table (compile.go: compileTable).
ASSUME CatalogueAssumption ==
    /\ MaxCommits \in Nat
    /\ \A c \in Catalogues :
          LET live == DOMAIN c.kind IN
          /\ live \subseteq Fqn /\ IsFiniteSet(live)
          /\ \A f \in live : c.kind[f] \in Kind
          /\ c.edges \subseteq [type : Type, src : live, dst : live]
          /\ IsFiniteSet(c.edges) /\ IsFiniteSet(c.enums)
          /\ \A e \in c.edges : e.type = "describes" =>
                c.kind[e.dst] \in IF c.kind[e.src] = "concept"
                                  THEN {"table", "column", "metric"} ELSE {"table"}
          /\ \A v \in c.enums : v.column \in live /\ c.kind[v.column] = "column"
          /\ \A f \in c.time : f \in live /\ c.kind[f] = "column"
          /\ \A f \in live : c.kind[f] = "column" =>
                f \in DOMAIN TableOf /\ TableOf[f] \in live /\ c.kind[TableOf[f]] = "table"

VARIABLES
    store,        \* the committed version
    commits       \* transactions committed so far: the version of the file

catalogue == <<store, commits>>

CatalogueTypeOK == store \in Catalogues /\ commits \in 0..MaxCommits

CatalogueInit == store \in Catalogues /\ commits = 0

Write == commits < MaxCommits /\ commits' = commits + 1

\* A sync commits another version.
Commit == Write /\ store' \in Catalogues \ {store}

-----------------------------------------------------------------------------
(* Statements.                                                             *)

Live(c) == DOMAIN c.kind
IsA(c, f, kind) == f \in Live(c) /\ c.kind[f] = kind

RelationTargets(c, type, f) ==
    {e.dst : e \in {d \in c.edges : d.type = type /\ d.src = f}}

RelationEdges(c, type, f, direction) ==
    {e \in c.edges : /\ e.type = type
                     /\ \/ e.src = f /\ direction # "in"
                        \/ e.dst = f /\ direction # "out"}

MetricTables(c, f) == RelationTargets(c, "describes", f)

\* A prefix is compared literally, never as a LIKE pattern.
TablesUnder(c, prefix) == {f \in Under[prefix] : IsA(c, f, "table")}

TimeColumns(c, table) == {f \in c.time : TableOf[f] = table}

EnumValuesFor(c, f) == {v.value : v \in {w \in c.enums : w.column = f}}
=============================================================================

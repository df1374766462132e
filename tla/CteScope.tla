------------------------------- MODULE CteScope -------------------------------
(***************************************************************************)
(* The static part of SQL validation (internal/validate/walk.go and        *)
(* validate.go): one traversal of the syntax tree of every statement looks *)
(* for what a read-only gateway refuses and collects the tables the        *)
(* statement names, leaving out the names of CTEs in scope; then every     *)
(* table is resolved and looked up in the caller's grants.                 *)
(*                                                                         *)
(* A tree is cut down to what decides this.  A "select" has the entries of *)
(* its WITH in order, and as "items" everything else that holds a tree:    *)
(* FROM, subqueries wherever they stand, the operands of UNION.  A "write" *)
(* is an INSERT, UPDATE, DELETE or MERGE.  What PostgreSQL makes of a      *)
(* statement is external.                                                  *)
(***************************************************************************)
EXTENDS Naturals, Sequences, FiniteSets, Functions

CONSTANTS
    Sqls,         \* the inputs: sequences of statements
    MaxDepth,     \* bound on the depth of a statement, as the parser has one
    Resolve,      \* [table references -> the FQNs they may mean]
    Allowed       \* the FQNs granted to the caller

Ref(schema, table) == [kind |-> "ref", schema |-> schema, table |-> table]
NoSchema == ""
NamesOf(t) == {t.with[i].name : i \in DOMAIN t.with}

\* The CTEs that entry i of a WITH can name: all of a WITH RECURSIVE, those
\* before it otherwise.  "wide": every WITH counts as recursive.
Visible(t, i, wide) ==
    {t.with[j].name : j \in IF t.recursive \/ wide THEN DOMAIN t.with ELSE 1..(i - 1)}

\* The trees a tree is made of, with the CTEs each can name.
Inside(t, scope, wide) ==
    IF t.kind = "ref" THEN {}
    ELSE {<<x, scope \cup NamesOf(t)>> : x \in Range(t.items)} \cup
         {<<t.with[i].body, scope \cup Visible(t, i, wide)>> : i \in DOMAIN t.with}

\* A tree and all it is made of, by depth.
Layers(t, scope, wide) ==
    LET layer[n \in 0..MaxDepth] ==
            IF n = 0 THEN {<<t, scope>>}
            ELSE UNION {Inside(p[1], p[2], wide) : p \in layer[n - 1]}
    IN  layer
Within(t, scope, wide) == UNION {Layers(t, scope, wide)[n] : n \in 0..MaxDepth}

\* In what the parser lets through a write is a statement or the body of a CTE
\* (every statement that is no SELECT counts as one), and nothing is nested too
\* deeply.
IsTree(t) ==
    \/ t.kind = "ref"
    \/ /\ t.kind \in {"select", "write"}
       /\ t.items \in Seq(Range(t.items)) /\ t.with \in Seq(Range(t.with))
       /\ \A x \in Range(t.items) : x.kind # "write"

IsStatement(s) ==
    /\ s.kind # "ref"
    /\ \A p \in Within(s, {}, FALSE) : IsTree(p[1])
    /\ \A p \in Layers(s, {}, FALSE)[MaxDepth] : Inside(p[1], p[2], FALSE) = {}

ASSUME DepthAssumption == MaxDepth \in Nat
ASSUME StatementAssumption ==
    \A q \in Sqls : q \in Seq(Range(q)) /\ \A s \in Range(q) : IsStatement(s)

VARIABLES
    sql,          \* the statements not yet walked
    phase,        \* "walk", "authorize", "accepted" or "refused"
    ahead,        \* what the traversal has before it, in order
    ctes,         \* the stack of scopes: sets of CTE names
    refs,         \* the tables of this statement, in order, none twice
    tables,       \* Report.Tables: those of the statements before it
    violations,   \* what ClassifyStmt reads afterwards
    reason,       \* why it was refused
    input         \* history: the whole input

walkVars == <<sql, phase, ahead, ctes, refs, tables, violations, reason, input>>

WalkInit ==
    /\ input \in Sqls
    /\ sql = input
    /\ phase = "walk" /\ ahead = <<>> /\ ctes = <<>>
    /\ refs = <<>> /\ tables = <<>> /\ violations = {} /\ reason = "none"

Refused(why) == phase' = "refused" /\ reason' = why

-----------------------------------------------------------------------------
(* Check: the statements one after the other.                              *)

RefuseStatement ==
    /\ phase = "walk" /\ ahead = <<>> /\ sql # <<>> /\ Head(sql).kind # "select"
    /\ Refused("non_select")
    /\ UNCHANGED <<sql, ahead, ctes, refs, tables, violations, input>>

BeginStatement ==
    /\ phase = "walk" /\ ahead = <<>> /\ sql # <<>> /\ Head(sql).kind = "select"
    /\ ahead' = <<Head(sql), [kind |-> "end"]>>
    /\ UNCHANGED <<sql, phase, tables, ctes, refs, violations, reason, input>>

\* The node at hand, and what is walked before the rest.
Visits(kind) == phase = "walk" /\ ahead # <<>> /\ Head(ahead).kind = kind

Entries(t) == [i \in DOMAIN t.with |-> [kind |-> "cte", body |-> t.with[i].body]]
Walked(before) == ahead' = before \o Tail(ahead)

\* Seeded fault: the scope stays open after its statement.
VisitSelect_NoPop ==
    /\ Visits("select")
    /\ LET s == Head(ahead) IN
       /\ Walked(s.items \o Entries(s))
       /\ ctes' = IF s.with = <<>> THEN ctes ELSE Append(ctes, NamesOf(s))
       /\ violations' = violations \cup s.clauses
    /\ UNCHANGED <<sql, phase, tables, refs, reason, input>>

\* walkSelect: the scope holds for the WITH itself and all of the statement,
\* with or without RECURSIVE.
VisitSelect ==
    /\ Visits("select")
    /\ LET s == Head(ahead) IN
       /\ violations' = violations \cup s.clauses
       /\ IF s.with = <<>> THEN Walked(s.items) /\ UNCHANGED ctes
          ELSE /\ Walked(s.items \o Entries(s) \o <<[kind |-> "pop"]>>)
               /\ ctes' = Append(ctes, NamesOf(s))
    /\ UNCHANGED <<sql, phase, tables, refs, reason, input>>

PopScope ==
    /\ Visits("pop")
    /\ Walked(<<>>)
    /\ ctes' = SubSeq(ctes, 1, Len(ctes) - 1)
    /\ UNCHANGED <<sql, phase, tables, refs, violations, reason, input>>

VisitCte ==
    /\ Visits("cte")
    /\ Walked(<<Head(ahead).body>>)
    /\ violations' = violations \cup
            IF Head(ahead).body.kind = "write" THEN {"data_modifying_cte"} ELSE {}
    /\ UNCHANGED <<sql, phase, tables, ctes, refs, reason, input>>

\* Every other node is descended into; only a select opens a scope.
VisitWrite ==
    /\ Visits("write")
    /\ Walked(Head(ahead).items \o Entries(Head(ahead)))
    /\ UNCHANGED <<sql, phase, tables, ctes, refs, violations, reason, input>>

InScope(name) == \E i \in DOMAIN ctes : name \in ctes[i]

\* Seeded fault: a name with a schema is taken for a CTE.
VisitRef_AnySchema ==
    /\ Visits("ref")
    /\ Walked(<<>>)
    /\ refs' = IF InScope(Head(ahead).table) \/ Head(ahead) \in Range(refs)
               THEN refs ELSE Append(refs, Head(ahead))
    /\ UNCHANGED <<sql, phase, tables, ctes, violations, reason, input>>

\* A RangeVar: a CTE in scope, if it has no schema, or a table.
VisitRef ==
    /\ Visits("ref")
    /\ Walked(<<>>)
    /\ LET r == Head(ahead) IN
       refs' = IF (r.schema = NoSchema /\ InScope(r.table)) \/ r \in Range(refs)
               THEN refs ELSE Append(refs, r)
    /\ UNCHANGED <<sql, phase, tables, ctes, violations, reason, input>>

\* ClassifyStmt's verdict; what was collected is kept if it passes.
EndStatement ==
    /\ Visits("end")
    /\ Walked(<<>>)
    /\ IF violations # {}
       THEN Refused("write_side_effect") /\ UNCHANGED <<sql, tables, refs>>
       ELSE /\ sql' = Tail(sql) /\ tables' = tables \o refs /\ refs' = <<>>
            /\ UNCHANGED <<phase, reason>>
    /\ UNCHANGED <<ctes, violations, input>>

EndWalk ==
    /\ phase = "walk" /\ sql = <<>> /\ ahead = <<>>
    /\ phase' = "authorize" /\ ahead' = tables
    /\ UNCHANGED <<sql, ctes, refs, tables, violations, reason, input>>

\* AuthorizeTables: an unknown table, or one no meaning of which is granted,
\* refuses the whole input.
AuthorizeTable ==
    /\ phase = "authorize"
    /\ \/ ahead = <<>> /\ phase' = "accepted" /\ UNCHANGED <<ahead, reason>>
       \/ /\ ahead # <<>> /\ Resolve[Head(ahead)] \cap Allowed # {}
          /\ ahead' = Tail(ahead) /\ UNCHANGED <<phase, reason>>
       \/ /\ ahead # <<>> /\ Resolve[Head(ahead)] \cap Allowed = {}
          /\ Refused(IF Resolve[Head(ahead)] = {} THEN "unknown_table" ELSE "not_granted")
          /\ UNCHANGED ahead
    /\ UNCHANGED <<sql, ctes, refs, tables, violations, input>>

WalkNext ==
    \/ RefuseStatement \/ BeginStatement \/ EndStatement \/ EndWalk
    \/ VisitSelect \/ PopScope \/ VisitCte \/ VisitWrite \/ VisitRef
    \/ AuthorizeTable

WalkSpec == WalkInit /\ [][WalkNext]_walkVars

-----------------------------------------------------------------------------
(* PostgreSQL.                                                             *)

Writes(t) == \E p \in Within(t, {}, FALSE) :
    p[1].kind = "write" \/ (p[1].kind = "select" /\ p[1].clauses # {})

\* The tables a tree reads where the names "scope" are CTEs.
TablesIn(t, scope, wide) ==
    {p[1] : p \in {p \in Within(t, scope, wide) :
                p[1].kind = "ref" /\ ~(p[1].schema = NoSchema /\ p[1].table \in p[2])}}

Reads(s) == TablesIn(s, {}, FALSE)

\* The tables an entry of a plain WITH reads by its own name or a later one's:
\* such a name is a CTE only to the walker.
EarlyHere(t) ==
    UNION {TablesIn(t.with[i].body, Visible(t, i, FALSE), FALSE) \
               TablesIn(t.with[i].body, NamesOf(t), FALSE) : i \in DOMAIN t.with}

Early(s) ==
    UNION {EarlyHere(t) : t \in {p[1] : p \in {p \in Within(s, {}, FALSE) : p[1].kind # "ref"}}}

-----------------------------------------------------------------------------
(* Properties.                                                             *)

\* The scopes nest as the statements do.
WalkTypeOK ==
    /\ phase \in {"walk", "authorize", "accepted", "refused"}
    /\ IsInjective(refs)
    /\ phase \in {"walk", "authorize"} /\ ahead = <<>> => ctes = <<>>

\* When the walk is over, every table collected is one PostgreSQL would read, no
\* CTE being taken for one; and every table it would read is collected, no name
\* of a CTE that has gone out of scope hiding one (walk.go:18), but for those an
\* entry of a plain WITH reads by its own or a later entry's name, which the
\* walk hides as if the WITH were RECURSIVE (walk.go:83, 111).  What is accepted
\* only reads, wherever in it a write could stand, and every table collected is
\* granted; what is refused writes somewhere or reads a table that is not
\* granted, in any statement of the input (validate.go: Check).
VerdictIsRight ==
    LET statements == Range(input)
        read == UNION {Reads(s) : s \in statements}
        early == UNION {Early(s) : s \in statements}
        writes == \E s \in statements : Writes(s)
        missing == \E r \in Range(tables) : Resolve[r] \cap Allowed = {}
    IN /\ phase \in {"authorize", "accepted"} =>
              Range(tables) \subseteq read /\ read \ early \subseteq Range(tables)
       /\ phase = "accepted" => ~writes /\ ~missing
       /\ phase = "refused" => IF reason \in {"unknown_table", "not_granted"}
                               THEN missing /\ ~writes ELSE writes

\* What a test says of it: hiding the names of a WITH is a safe approximation,
\* because PostgreSQL rejects an entry of a plain WITH that uses its own name
\* (validate_test.go:173).  Then every table an accepted statement reads is
\* granted.
AcceptedReadsAreGranted ==
    phase = "accepted" =>
        \A s \in Range(input) : \A r \in Reads(s) : Resolve[r] \cap Allowed # {}
=============================================================================

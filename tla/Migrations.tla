----------------------------- MODULE Migrations -----------------------------
(***************************************************************************)
(* How dgw-collect reads the schema of a service out of its migrations     *)
(* (internal/collector/migrate.go, structure.go), next to the schema       *)
(* PostgreSQL has after running the same statements.  `st` is the          *)
(* collector's structure, `pg` the production database.  Every scan parses *)
(* all files from the start; a fold over a growing list of statements is   *)
(* the fold so far plus the last statement, so both grow together here.    *)
(*                                                                         *)
(* A statement is a record with an `op` and a `table` in a `schema`; an    *)
(* ALTER TABLE is a sequence `cmds` of commands.  A type is [family, mods]:*)
(* timestamp(3) has the mods "(3)".  A constraint is [name, kind, col,     *)
(* values, target, pk]: kind "enum" is CHECK (col IN (values)), "fk" a     *)
(* foreign key from col to target.pk, and "other" everything else.  Names  *)
(* are tuples: <<>> for an anonymous constraint, <<table, col, kind>> for  *)
(* the name PostgreSQL gives one.  PostgreSQL numbers such a name when it  *)
(* is taken; statements that come to that are left out.                    *)
(***************************************************************************)
EXTENDS Integers, SequencesExt

CONSTANTS
    Statement,      \* the statements the migrations are made of
    Empty,          \* the value '' of a CHECK list
    Truncated,      \* [<<table, column>> -> the name]: where <table>_<column>_fkey
                    \* is longer than a name may be, what is left of it at 63 bytes
    PgLike,         \* the names of tables that are LIKE 'pg_%'
    MaxStatements,  \* bound on the statements run
    MaxUnseen       \* bound on those the collector does not see

VARIABLES
    st,         \* Structure.Tables: table name -> collected table
    findings,   \* which severities were reported: "warn" stands for the
                \* warnings that say the structure may be incomplete
    pg,         \* production: <<schema, table>> -> its columns and constraints
    blind,      \* tables with a construct whose enums and references the
                \* collector does not follow (BlindSpots below)
    astray,     \* names of tables with a statement that PostgreSQL takes
                \* otherwise than the collector does (Astray below)
    ran,        \* statements run so far
    unseen      \* how many of them the collector did not see

vars == <<st, findings, pg, blind, astray, ran, unseen>>

Nothing == [x \in {} |-> x]      \* the empty map
Put(f, x, v) == [y \in DOMAIN f \cup {x} |-> IF y = x THEN v ELSE f[y]]
Over(f, g) == [y \in DOMAIN f \cup DOMAIN g |-> IF y \in DOMAIN f THEN f[y] ELSE g[y]]

Anonymous == <<>>
AutoName(table, con) == <<table, con.col, con.kind>>
\* The collector cuts the whole of a long name off at 63 bytes; PostgreSQL
\* shortens the table and the column in it and keeps _fkey.
CutName(table, con) == IF <<table, con.col>> \in DOMAIN Truncated
                       THEN Truncated[<<table, con.col>>] ELSE AutoName(table, con)
Key(s) == <<s.schema, s.table>>
RefOf(con) == [target |-> con.target, col |-> con.col, pk |-> con.pk]

IsConstraint(c) ==
    /\ c = [name |-> c.name, kind |-> c.kind, col |-> c.col, values |-> c.values,
            target |-> c.target, pk |-> c.pk]
    /\ c.kind \in {"enum", "fk", "other"}

IsColumn(e) ==
    /\ e.inline \in Seq(Range(e.inline))
    /\ \A c \in Range(e.inline) : IsConstraint(c) /\ c.col = e.name

\* What the parser lets through, without the statements PostgreSQL refuses in
\* every state: a column named twice, a constraint on a column that is not there.
IsTable(elements) ==
    /\ elements \in Seq(Range(elements))
    /\ \A e \in Range(elements) :
        \/ e.el = "column" /\ IsColumn(e)
        \/ /\ e.el = "constraint" /\ IsConstraint(e.con)
           /\ \E d \in Range(elements) : d.el = "column" /\ d.name = e.con.col
    /\ \A i, j \in DOMAIN elements :
        /\ elements[i].el = "column" /\ elements[j].el = "column"
        /\ elements[i].name = elements[j].name
        => i = j

IsCommand(c) ==
    /\ c.op \in {"addColumn", "dropColumn", "alterType", "addConstraint", "dropConstraint"}
    /\ c.op = "addColumn" => IsColumn(c)
    /\ c.op = "addConstraint" => IsConstraint(c.con)

ASSUME StatementAssumption ==
    \A s \in Statement :
        /\ s.op = "create" => IsTable(s.elements)
        /\ s.op = "alter" => s.cmds \in Seq(Range(s.cmds)) /\ \A c \in Range(s.cmds) : IsCommand(c)

\* DROP TABLE schema.t also forgets a table called like the schema
\* (migrate.go: applyStmt); none is.
ASSUME SchemaAssumption == \A s, r \in Statement : s.schema # r.table

ASSUME MigrationBounds == MaxStatements \in Nat /\ MaxUnseen \in Nat

-----------------------------------------------------------------------------
(* The collector.  A collected table is [schema, cols, enum, refs, reg]:   *)
(* reg is the registry of constraints DROP CONSTRAINT looks names up in.   *)

Blank(schema) == [schema |-> schema, cols |-> Nothing, enum |-> Nothing,
                  refs |-> {}, reg |-> Nothing]

\* enumExpr: only a CHECK IN on a column the table already has.
Enumerable(t, con) == con.kind = "enum" /\ con.col \in DOMAIN t.cols

\* attachEnum drops '' and does not look at the values already there.
Listed(bag, values) == [v \in DOMAIN bag \cup values |->
    (IF v \in DOMAIN bag THEN bag[v] ELSE 0) + (IF v \in values THEN 1 ELSE 0)]
Attach(t, con) == [t EXCEPT !.enum[con.col] = Listed(@, con.values \ {Empty})]
Register(t, name, con) == [t EXCEPT !.reg = Put(@, name, con)]
Refer(t, con) == [t EXCEPT !.refs = @ \cup {RefOf(con)}]

AddConstraint(t, con) ==
    CASE Enumerable(t, con) -> Attach(Register(t, con.name, con), con)
      [] con.kind = "fk"    -> Refer(Register(t, con.name, con), con)
      [] OTHER              -> Register(t, con.name, [con EXCEPT !.kind = "other"])

\* The parser leaves the column out of a foreign key written with it; one that
\* has a name never gets it back.
NoColumn == ""
Columnless(con) == IF con.kind = "fk" THEN [con EXCEPT !.col = NoColumn] ELSE con

\* Seeded fault: an anonymous foreign key gives an edge and is not registered.
AddInline_Unregistered(t, table, con) ==
    CASE con.name # Anonymous -> AddConstraint(t, Columnless(con))
      [] con.name = Anonymous /\ Enumerable(t, con) -> Attach(t, con)
      [] con.name = Anonymous /\ con.kind = "fk" -> Refer(t, con)
      [] OTHER -> t

\* Constraints written with a column are applied before the column is added.
AddInline(t, table, con) ==
    CASE con.name # Anonymous -> AddConstraint(t, Columnless(con))
      [] con.name = Anonymous /\ Enumerable(t, con) -> Attach(t, con)
      [] con.name = Anonymous /\ con.kind = "fk" ->
            Refer(Register(t, CutName(table, con), con), con)
      [] OTHER -> t

Inlined(t, table, inline) ==
    LET after[i \in 0..Len(inline)] ==
            IF i = 0 THEN t ELSE AddInline(after[i - 1], table, inline[i])
    IN  after[Len(inline)]

AddColumn(t, table, column) ==
    [Inlined(t, table, column.inline) EXCEPT
        !.cols = Put(@, column.name, column.type),
        !.enum = Put(@, column.name, EmptyBag)]

AddElement(t, table, e) == IF e.el = "column" THEN AddColumn(t, table, e)
                                              ELSE AddConstraint(t, e.con)

Build(s) ==
    LET after[i \in 0..Len(s.elements)] ==
            IF i = 0 THEN Blank(s.schema)
                     ELSE AddElement(after[i - 1], s.table, s.elements[i])
    IN  after[Len(s.elements)]

\* Seeded fault: dropping one enum constraint clears the values of the others.
DropConstraint_Clear(t, name) ==
    IF name \notin DOMAIN t.reg THEN t ELSE
    LET con == t.reg[name]
        rest == Restrict(t.reg, DOMAIN t.reg \ {name})
    IN  CASE con.kind = "enum" /\ con.col \in DOMAIN t.enum ->
                [t EXCEPT !.reg = rest, !.enum[con.col] = EmptyBag]
          [] con.kind = "fk" -> [t EXCEPT !.reg = rest, !.refs = @ \ {RefOf(con)}]
          [] OTHER -> [t EXCEPT !.reg = rest]

\* dropConstraint: an enum column is rebuilt from the constraints that remain.
DropConstraint(t, name) ==
    IF name \notin DOMAIN t.reg THEN t ELSE
    LET con  == t.reg[name]
        rest == Restrict(t.reg, DOMAIN t.reg \ {name})
        left == {rest[n] : n \in {n \in DOMAIN rest :
                            rest[n].kind = "enum" /\ rest[n].col = con.col}}
        values == (UNION {c.values : c \in left}) \ {Empty}
    IN  CASE con.kind = "enum" /\ con.col \in DOMAIN t.enum ->
                [t EXCEPT !.reg = rest, !.enum[con.col] = SetToBag(values)]
          [] con.kind = "fk" -> [t EXCEPT !.reg = rest, !.refs = @ \ {RefOf(con)}]
          [] OTHER -> [t EXCEPT !.reg = rest]

\* Seeded fault: the column goes and the values collected for it stay.
DropColumn_Values(t, c) == [t EXCEPT !.cols = Restrict(@, DOMAIN @ \ {c})]

DropColumn(t, c) == [t EXCEPT !.cols = Restrict(@, DOMAIN @ \ {c}),
                              !.enum = Restrict(@, DOMAIN @ \ {c})]

\* One command of an ALTER TABLE, and the table after each of them in turn.
AlterBy(t, table, c) ==
    CASE c.op = "addColumn" /\ c.name \notin DOMAIN t.cols -> AddColumn(t, table, c)
      [] c.op = "dropColumn" -> DropColumn(t, c.name)
      [] c.op = "alterType" /\ c.name \in DOMAIN t.cols -> [t EXCEPT !.cols[c.name] = c.type]
      [] c.op = "addConstraint" -> AddConstraint(t, c.con)
      [] c.op = "dropConstraint" -> DropConstraint(t, c.constraint)
      [] OTHER -> t

Altering(t, s) ==
    LET after[i \in 0..Len(s.cmds)] ==
            IF i = 0 THEN t ELSE AlterBy(after[i - 1], s.table, s.cmds[i])
    IN  after
Alter(t, s) == Altering(t, s)[Len(s.cmds)]

Known(s) == s.table \in DOMAIN st

\* applyStmt, which looks at no IF EXISTS and at no schema.  DROP TABLE removes
\* a table for every part of the name it is given, the schema's too; a rename
\* changes nothing.
Collect(s) ==
    CASE s.op = "create" /\ ~(Known(s) /\ s.ifNotExists) -> Put(st, s.table, Build(s))
      [] s.op = "dropTable" -> Restrict(st, DOMAIN st \ {s.table, s.schema})
      [] s.op = "alter" /\ Known(s) -> [st EXCEPT ![s.table] = Alter(@, s)]
      [] OTHER -> st

\* The warnings that say the structure may not be production's.
Warns(s) ==
    \/ s.op = "create" /\ Known(s) /\ st[s.table].schema # s.schema
    \/ s.op = "alter" /\ ~Known(s)
    \/ /\ s.op = "alter" /\ Known(s)
       /\ \E i \in DOMAIN s.cmds :
            /\ s.cmds[i].op = "alterType"
            /\ s.cmds[i].name \notin DOMAIN Altering(st[s.table], s)[i - 1].cols
    \/ s.op = "rename"

-----------------------------------------------------------------------------
(* PostgreSQL, as far as the statements above can be told apart: what it   *)
(* accepts and what it then holds.  A table is [cols, cons], cons mapping  *)
(* the name of every constraint to it.                                     *)

Columns(elements) == {e \in Range(elements) : e.el = "column"}
Written(elements) ==        \* every constraint of a CREATE TABLE
    UNION {IF e.el = "column" THEN Range(e.inline) ELSE {e.con} : e \in Range(elements)}
PgName(table, con) == IF con.name = Anonymous THEN AutoName(table, con) ELSE con.name
PgNames(table, cons) == {PgName(table, c) : c \in cons}
PgConstraints(table, cons) ==
    [n \in PgNames(table, cons) |-> CHOOSE c \in cons : PgName(table, c) = n]

PgTable(s) ==
    LET columns == Columns(s.elements)
    IN  [cols |-> [n \in {c.name : c \in columns} |->
                        (CHOOSE c \in columns : c.name = n).type],
         cons |-> PgConstraints(s.table, Written(s.elements))]

Foreign(p) == {p.cons[n] : n \in {n \in DOMAIN p.cons : p.cons[n].kind = "fk"}}
PgTables(t) == {k \in DOMAIN pg : k[2] = t}
\* The other tables with a foreign key to table t.
Pointing(t) == {k \in DOMAIN pg : k[2] # t /\ \E f \in Foreign(pg[k]) : f.target = t}
\* What has a foreign key to column c of table k, which now is p.
PointingAt(k, p, c) ==
    {f \in UNION {Foreign(IF j = k THEN p ELSE pg[j]) : j \in DOMAIN pg} :
        f.target = k[2] /\ f.pk = c}

\* A foreign key needs its target; two constraints of a table need two names.
PgAccepts(k, cons, taken) ==
    /\ \A c \in cons : c.kind = "fk" => \E j \in DOMAIN pg \cup {k} : j[2] = c.target
    /\ PgNames(k[2], cons) \cap taken = {}
    /\ \A c, d \in cons : PgName(k[2], c) = PgName(k[2], d) => c = d

Without(cons, Gone(_)) == RestrictValues(cons, LAMBDA c : ~Gone(c))

\* One command of an ALTER TABLE: whether it is accepted, and the table after it.
LegalBy(k, p, c) ==
    CASE c.op = "addColumn" ->
            IF c.name \in DOMAIN p.cols THEN c.ifNotExists
            ELSE PgAccepts(k, Range(c.inline), DOMAIN p.cons)
      [] c.op = "dropColumn" ->
            IF c.name \in DOMAIN p.cols THEN PointingAt(k, p, c.name) = {} ELSE c.ifExists
      [] c.op = "alterType" -> c.name \in DOMAIN p.cols
      [] c.op = "addConstraint" ->
            c.con.col \in DOMAIN p.cols /\ PgAccepts(k, {c.con}, DOMAIN p.cons)
      [] c.op = "dropConstraint" -> c.constraint \in DOMAIN p.cons \/ c.ifExists

PgAlterBy(p, table, c) ==
    CASE c.op = "addColumn" /\ c.name \notin DOMAIN p.cols ->
            [cols |-> Put(p.cols, c.name, c.type),
             cons |-> Over(PgConstraints(table, Range(c.inline)), p.cons)]
      [] c.op = "dropColumn" ->
            [cols |-> Restrict(p.cols, DOMAIN p.cols \ {c.name}),
             cons |-> Without(p.cons, LAMBDA d : d.col = c.name)]
      [] c.op = "alterType" -> [p EXCEPT !.cols[c.name] = c.type]
      [] c.op = "addConstraint" ->
            [p EXCEPT !.cons = Over(PgConstraints(table, {c.con}), @)]
      [] c.op = "dropConstraint" ->
            [p EXCEPT !.cons = Restrict(@, DOMAIN @ \ {c.constraint})]
      [] OTHER -> p

\* Table p after each command, those alone that are one of ops.
PgAltering(p, s, ops) ==
    LET after[i \in 0..Len(s.cmds)] ==
            IF i = 0 THEN p
            ELSE IF s.cmds[i].op \in ops THEN PgAlterBy(after[i - 1], s.table, s.cmds[i])
            ELSE after[i - 1]
    IN  after
PgAltered(p, s, ops) == PgAltering(p, s, ops)[Len(s.cmds)]
LegalIn(p, s, ops) ==
    \A i \in DOMAIN s.cmds :
        s.cmds[i].op \in ops => LegalBy(Key(s), PgAltering(p, s, ops)[i - 1], s.cmds[i])

\* An ALTER TABLE runs in passes: what it drops, types, columns, constraints.
Pass == <<{"dropColumn", "dropConstraint"}, {"alterType"}, {"addColumn"}, {"addConstraint"}>>
Passing(p, s) ==
    LET after[n \in 0..4] == IF n = 0 THEN p ELSE PgAltered(after[n - 1], s, Pass[n])
    IN  after
PgAlter(p, s) == Passing(p, s)[4]

\* The same commands one after the other, as they are written, come to the same.
Alterations == UNION {Pass[n] : n \in 1..4}
InTurn(p, s) == LegalIn(p, s, Alterations) /\ PgAltered(p, s, Alterations) = PgAlter(p, s)

Legal(s) ==
    LET there == Key(s) \in DOMAIN pg
        p == pg[Key(s)]
    IN  CASE s.op = "create" ->
                /\ there => s.ifNotExists
                /\ PgAccepts(Key(s), Written(s.elements), {})
          [] s.op = "dropTable" ->
                IF there THEN s.cascade \/ Pointing(s.table) = {} ELSE s.ifExists
          [] s.op = "alter" ->
                IF there THEN \A n \in 1..4 : LegalIn(Passing(p, s)[n - 1], s, Pass[n])
                ELSE s.ifExists
          [] s.op = "rename" ->
                there /\ s.name \in DOMAIN p.cols /\ s.to \notin DOMAIN p.cols
          [] s.op = "setSchema" -> there /\ <<s.to, s.table>> \notin DOMAIN pg

PgRename(p, s) ==
    [cols |-> Put(Restrict(p.cols, DOMAIN p.cols \ {s.name}), s.to, p.cols[s.name]),
     cons |-> [n \in DOMAIN p.cons |->
        IF p.cons[n].col = s.name THEN [p.cons[n] EXCEPT !.col = s.to] ELSE p.cons[n]]]

Replay(s) ==
    CASE s.op = "create" /\ Key(s) \notin DOMAIN pg -> Put(pg, Key(s), PgTable(s))
      [] s.op = "dropTable" /\ Key(s) \in DOMAIN pg ->
            [k \in DOMAIN pg \ {Key(s)} |-> [pg[k] EXCEPT !.cons =
                Without(@, LAMBDA c : c.kind = "fk" /\ c.target = s.table)]]
      [] s.op = "alter" /\ Key(s) \in DOMAIN pg -> [pg EXCEPT ![Key(s)] = PgAlter(@, s)]
      [] s.op = "rename" -> [pg EXCEPT ![Key(s)] = PgRename(@, s)]
      [] s.op = "setSchema" ->
            Put(Restrict(pg, DOMAIN pg \ {Key(s)}), <<s.to, s.table>>, pg[Key(s)])
      [] OTHER -> pg

-----------------------------------------------------------------------------
(* What the collector is known not to follow.  The tables a statement      *)
(* makes blind: a CHECK IN written before or with its column is not        *)
(* collected, nor is the column of a named foreign key written with it;    *)
(* one whose own name is too long is registered by another name than       *)
(* PostgreSQL's; anonymous table constraints share one entry of the        *)
(* registry; a dropped column or target leaves its constraints behind; of  *)
(* two equal foreign keys, dropping one takes the edge of both.            *)

Missed(table, c) ==
    \/ c.kind = "enum"
    \/ c.kind = "fk" /\ (c.name # Anonymous \/ <<table, c.col>> \in DOMAIN Truncated)
Early(table, elements) ==
    \E i \in DOMAIN elements :
        \/ elements[i].el = "column" /\ \E c \in Range(elements[i].inline) : Missed(table, c)
        \/ /\ elements[i].el = "constraint"
           /\ elements[i].con.kind = "enum"
           /\ \A j \in 1..(i - 1) : elements[j].el = "column"
                                    => elements[j].name # elements[i].con.col
Nameless(cons) == \E c \in cons : c.name = Anonymous /\ c.kind # "other"
Twice(cons) == \E c, d \in cons : c # d /\ c.kind = "fk" /\ d.kind = "fk" /\ RefOf(c) = RefOf(d)

BlindBy(p, table, c) ==
    CASE c.op = "addColumn" ->
            c.name \notin DOMAIN p.cols /\ \E d \in Range(c.inline) : Missed(table, d)
      [] c.op = "addConstraint" -> Nameless({c.con}) \/ Twice({c.con} \cup Foreign(p))
      [] c.op = "dropColumn" -> \E d \in Range(p.cons) : d.col = c.name /\ d.kind # "other"
      [] OTHER -> FALSE

BlindSpots(s) ==
    CASE s.op = "create" /\ Key(s) \notin DOMAIN pg ->
            IF \/ Early(s.table, s.elements)
               \/ Nameless({e.con : e \in Range(s.elements) \ Columns(s.elements)})
               \/ Twice(Written(s.elements))
            THEN {s.table} ELSE {}
      [] s.op = "alter" /\ Key(s) \in DOMAIN pg ->
            IF \E i \in DOMAIN s.cmds :
                BlindBy(PgAltering(pg[Key(s)], s, Alterations)[i - 1], s.table, s.cmds[i])
            THEN {s.table} ELSE {}
      [] s.op = "dropTable" /\ Key(s) \in DOMAIN pg -> {k[2] : k \in Pointing(s.table)}
      [] OTHER -> {}

\* What goes astray: an IF EXISTS that finds no table, while there is one of that
\* name in another schema, and an ALTER TABLE that is not its commands in turn.
Astray(s) ==
    IF \/ s.op \in {"dropTable", "alter"} /\ Key(s) \notin DOMAIN pg /\ PgTables(s.table) # {}
       \/ s.op = "alter" /\ Key(s) \in DOMAIN pg /\ ~InTurn(pg[Key(s)], s)
    THEN {s.table} ELSE {}

-----------------------------------------------------------------------------

Init ==
    /\ st = Nothing
    /\ findings = {}
    /\ pg = Nothing
    /\ blind = {} /\ astray = {}
    /\ ran = 0
    /\ unseen = 0

Run(s) ==
    /\ ran < MaxStatements
    /\ Legal(s)
    /\ pg' = Replay(s)
    /\ ran' = ran + 1

\* A statement of a migration: production ran it, the collector parses it.
Migrate(s) ==
    /\ s.op # "setSchema"
    /\ Run(s)
    /\ st' = Collect(s)
    /\ findings' = IF Warns(s) THEN findings \cup {"warn"} ELSE findings
    /\ blind' = (IF s.op = "dropTable" THEN blind \ {s.table} ELSE blind) \cup BlindSpots(s)
    /\ astray' = astray \cup Astray(s)
    /\ UNCHANGED unseen

\* A file that cannot be read or parsed: an error is reported and the files
\* after it are collected as usual.
Unparsed(s) ==
    /\ Run(s)
    /\ findings' = findings \cup {"error"}
    /\ UNCHANGED <<st, blind, astray, unseen>>

\* A change to production that applyStmt has no case for: manual DDL, DDL
\* inside a DO block, and SET SCHEMA, which is not an ALTER TABLE command to
\* the parser.
Unseen(s) ==
    /\ Run(s)
    /\ unseen < MaxUnseen
    /\ unseen' = unseen + 1
    /\ UNCHANGED <<st, findings, blind, astray>>

Next == \E s \in Statement : Migrate(s) \/ Unparsed(s) \/ Unseen(s)

Spec == Init /\ [][Next]_vars

-----------------------------------------------------------------------------
(* calibrate: the findings of comparing the structure with production.     *)

\* information_schema.columns lists no table without columns, and the query
\* leaves out what is LIKE 'pg_%', where _ is any character.
Introspected == {k \in DOMAIN pg : DOMAIN pg[k].cols # {} /\ k[2] \notin PgLike}

\* The mods that are part of what the query returns for a type.
Shown == {"character varying", "character", "numeric"}
LiveForm(type) == [family |-> type.family,
                   mods |-> IF type.family \in Shown THEN type.mods ELSE ""]
\* The draft's type as it is written, its family spelled as the query does.
DraftForm(type) == type

\* Seeded fault: types are the same when their families are.
Drifted_Family(cols, live) ==
    \E c \in DOMAIN cols \cap DOMAIN live : DraftForm(cols[c]).family # LiveForm(live[c]).family

Drifted(cols, live) ==
    \E c \in DOMAIN cols \cap DOMAIN live : DraftForm(cols[c]) # LiveForm(live[c])

Place(t) == <<st[t].schema, t>>

\* Seeded fault: tables are matched by name alone, whatever their schema.
Calibrate_ByName ==
    LET names == {k[2] : k \in Introspected}
        found == {t \in DOMAIN st : t \in names}
        live(t) == pg[CHOOSE k \in Introspected : k[2] = t].cols
    IN  {<<"missing", t>> : t \in DOMAIN st \ found}
        \cup {<<"column", t>> : t \in {t \in found : DOMAIN st[t].cols # DOMAIN live(t)}}
        \cup {<<"type", t>> : t \in {t \in found : Drifted(st[t].cols, live(t))}}
        \cup {<<"undrafted", t>> : t \in names \ DOMAIN st}

Calibrate ==
    LET found == {t \in DOMAIN st : Place(t) \in Introspected}
        live(t) == pg[Place(t)].cols
    IN  {<<"missing", t>> : t \in DOMAIN st \ found}
        \cup {<<"column", t>> : t \in {t \in found : DOMAIN st[t].cols # DOMAIN live(t)}}
        \cup {<<"type", t>> : t \in {t \in found : Drifted(st[t].cols, live(t))}}
        \cup {<<"undrafted", k>> : k \in Introspected \ {Place(t) : t \in DOMAIN st}}

-----------------------------------------------------------------------------
(* Properties.                                                             *)

\* Every collected table keeps values for exactly the columns it has, and a
\* constraint of production is on a column its table has.
TypeOK ==
    /\ findings \subseteq {"warn", "error"}
    /\ ran \in 0..MaxStatements /\ unseen \in 0..MaxUnseen
    /\ \A t \in DOMAIN st :
        /\ DOMAIN st[t].cols = DOMAIN st[t].enum
        /\ \A c \in DOMAIN st[t].enum : IsABag(st[t].enum[c])
        /\ \A n \in DOMAIN st[t].reg : st[t].reg[n].kind \in {"enum", "fk", "other"}
    /\ \A k \in DOMAIN pg, n \in UNION {DOMAIN pg[j].cons : j \in DOMAIN pg} :
        n \in DOMAIN pg[k].cons => pg[k].cons[n].col \in DOMAIN pg[k].cols

Quiet == findings = {} /\ unseen = 0
PgOf(t) == pg[CHOOSE k \in DOMAIN pg : k[2] = t]

\* With nothing reported and every statement seen, what is collected is what
\* production has, whatever the order of CREATE, IF NOT EXISTS, ADD, DROP and
\* ALTER TYPE: a difference the collector makes is one it warns of (migrate.go:
\* applyStmt, applyAlterTable), but for the tables astray.  That is the tables,
\* columns and types; then, blind tables excepted as well, the values of a
\* column are those its CHECK IN constraints list, '' aside, also after one
\* constraint has replaced another (structure.go: dropConstraint); and the edges
\* of a draft are the foreign keys, one dropped by the name PostgreSQL chose for
\* it gone as well, if that name fits (applyColumnConstraint).
DraftIsReplayed ==
    Quiet =>
        /\ DOMAIN st \ astray = {k[2] : k \in DOMAIN pg} \ astray
        /\ \A t \in DOMAIN st \ astray : st[t].cols = PgOf(t).cols
        /\ \A t \in DOMAIN st \ (astray \cup blind) :
            /\ \A c \in DOMAIN st[t].cols :
                BagToSet(st[t].enum[c]) =
                    (UNION {d.values : d \in {d \in Range(PgOf(t).cons) :
                                                d.kind = "enum" /\ d.col = c}}) \ {Empty}
            /\ {r \in st[t].refs : r.target \in DOMAIN st \ astray} =
                    {RefOf(d) : d \in {d \in Range(PgOf(t).cons) :
                                        d.kind = "fk" /\ d.target \notin astray}}

\* What calibrate sees of drift (calibrate.go: Calibrate).  A table of
\* production it does not call undrafted is collected, in its schema and not in
\* another that has one of that name, or the query leaves it out; a collected
\* table nothing is said of is in production, with the same columns of the same
\* types, but for mods the query does not return.
DriftIsReported ==
    /\ \A k \in DOMAIN pg :
        \/ <<"undrafted", k>> \in Calibrate
        \/ \E t \in DOMAIN st : Place(t) = k
        \/ DOMAIN pg[k].cols = {} \/ k[2] \in PgLike
    /\ \A t \in DOMAIN st :
        LET live == pg[Place(t)].cols IN
        \/ \E kind \in {"missing", "column", "type"} : <<kind, t>> \in Calibrate
        \/ /\ Place(t) \in DOMAIN pg
           /\ DOMAIN st[t].cols = DOMAIN live
           /\ \A c \in DOMAIN live :
                /\ st[t].cols[c].family = live[c].family
                /\ live[c].family \in Shown => st[t].cols[c].mods = live[c].mods
=============================================================================

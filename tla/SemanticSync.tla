---------------------------- MODULE SemanticSync ----------------------------
(***************************************************************************)
(* The semantic sync pipeline (internal/semantic: yaml.go, compile.go,     *)
(* diff.go, apply.go, sync.go): `dgw semantic-sync` compiles the author    *)
(* directory, takes a snapshot of the runtime tables in three statements,  *)
(* compares the two and applies the difference in one transaction. Several *)
(* of these commands may run at once on one store: nothing locks it.       *)
(*                                                                         *)
(* The three runtime tables (entities, relations, enum values) have one    *)
(* shape here: a set of rows [key, val, tombstone], where "key" is the     *)
(* UNIQUE key of the table and "val" the columns that Compare looks at.    *)
(* What a target or a snapshot holds are items [key, val].                 *)
(***************************************************************************)
EXTENDS Naturals, Sequences, Functions

CONSTANTS
    Process,     \* semantic-sync commands
    Directory    \* the contents the author directory may have

(* A directory is the sequence of its entity definitions in compile order  *)
(* (services, databases, tables, columns, metrics, concepts).  A           *)
(* definition has a name, a kind, a text (every other column), the         *)
(* definition it is nested in, the entities it refers to, the enum values  *)
(* of a column, and whether its names and SQL fragments are well formed.   *)
Kind == {"service", "database", "table", "column", "metric", "concept"}
NoParent == "none"

Definition ==
    [fqn : STRING, kind : Kind, text : STRING, parent : STRING,
     refs : SUBSET [to : STRING, on : STRING],
     enums : Seq([value : STRING, label : STRING]), wellFormed : BOOLEAN]

\* The nesting of the files: what a definition is nested in is defined too.
ASSUME DirectoryAssumption ==
    \A d \in Directory :
        /\ d \in Seq(Definition)
        /\ \A c \in Range(d) :
              c.parent = NoParent \/ \E e \in Range(d) : e.fqn = c.parent

-----------------------------------------------------------------------------
(* Compile: all or nothing.                                                *)

\* What a definition may refer to: `references` and the tables of a metric
\* name tables, a concept describes tables, columns and metrics.
ReferableBy(kind) ==
    IF kind = "concept" THEN {"table", "column", "metric"} ELSE {"table"}

\* Seeded fault: what the tables and metrics refer to is not resolved.
RefsResolve_ConceptsOnly(dir) ==
    \A d \in Range(dir) : \A ref \in d.refs : d.kind = "concept" =>
        \E e \in Range(dir) : e.fqn = ref.to /\ e.kind \in ReferableBy(d.kind)

RefsResolve(dir) ==
    \A d \in Range(dir) : \A ref \in d.refs :
        \E e \in Range(dir) : e.fqn = ref.to /\ e.kind \in ReferableBy(d.kind)

\* A value is listed once, even with the same label.
EnumsLegal(d) ==
    \A i, j \in DOMAIN d.enums :
        d.enums[i].value # "" /\ (d.enums[i].value = d.enums[j].value => i = j)

FqnsDiffer(dir) ==
    \A i, j \in DOMAIN dir : dir[i].fqn = dir[j].fqn => i = j

Compiles(dir) ==
    /\ \A d \in Range(dir) : d.wellFormed /\ EnumsLegal(d)
    /\ FqnsDiffer(dir)
    /\ RefsResolve(dir)

EntityItems(dir) ==
    {[key |-> d.fqn, val |-> <<d.kind, d.text>>] : d \in Range(dir)}

\* A table nested in a database, a column in a table: "contains"; a database
\* in a service: "connects_to".
NestingType(d) == IF d.kind = "database" THEN "connects_to" ELSE "contains"
RefType(d) == IF d.kind = "table" THEN "references" ELSE "describes"

\* One item for every reference of the file: two `references` of a table to
\* the same target have one key and, when they join differently, two items.
RelationItems(dir) ==
    {[key |-> <<NestingType(d), d.parent, d.fqn>>, val |-> ""] :
        d \in {c \in Range(dir) : c.parent # NoParent}}
    \cup UNION {{[key |-> <<RefType(d), d.fqn, ref.to>>, val |-> ref.on] :
                    ref \in d.refs} : d \in Range(dir)}

EnumItems(dir) ==
    UNION {{[key |-> <<d.fqn, v.value>>, val |-> v.label] : v \in Range(d.enums)} :
              d \in Range(dir)}

Compile(dir) == [entities  |-> EntityItems(dir),
                 relations |-> RelationItems(dir),
                 enums     |-> EnumItems(dir)]

-----------------------------------------------------------------------------
(* Items and rows.                                                         *)

Keys(items) == {i.key : i \in items}
NotIn(items, keys) == {i \in items : i.key \notin keys}

UniqueKeys(items) == \A i, j \in items : i.key = j.key => i = j

\* Seeded fault: a row that is there already is never compared.
Changed_NewKeysOnly(target, cur) == NotIn(target, Keys(cur))

\* What Compare finds added or changed, and what it finds gone.
Changed(target, cur) == {i \in target : i \notin cur}
Gone(target, cur) == NotIn(cur, Keys(target))

\* The rows a snapshot query returns.
Live(rows) == {[key |-> r.key, val |-> r.val] : r \in {q \in rows : q.tombstone = 0}}

LiveRows(items) == {[key |-> i.key, val |-> i.val, tombstone |-> 0] : i \in items}

\* Seeded fault: a plain INSERT.
Upserted_NoConflict(rows, items) == rows \cup LiveRows(items)

\* Seeded fault: the update leaves tombstone as it was.
Upserted_StaysBuried(rows, items) ==
    NotIn(rows, Keys(items)) \cup
    {[key |-> i.key, val |-> i.val,
      tombstone |-> IF \E r \in rows : r.key = i.key /\ r.tombstone = 1 THEN 1 ELSE 0] :
        i \in items}

\* INSERT ... ON CONFLICT DO UPDATE, which also lifts a tombstone.
Upserted(rows, items) ==
    NotIn(rows, Keys(items)) \cup LiveRows(items)

\* UPDATE ... SET tombstone = 1.
Buried(rows, keys) ==
    {[key |-> r.key, val |-> r.val, tombstone |-> IF r.key \in keys THEN 1 ELSE r.tombstone] :
        r \in rows}

\* Items with one key are upserted one after the other and the last stays.
\* Which one is last is left open by sort.Slice, which is not stable.
LastOfEachKey(items) ==
    {last \in SUBSET items : Keys(last) = Keys(items) /\ UniqueKeys(last)}

Nothing == [entities |-> {}, relations |-> {}, enums |-> {}]

-----------------------------------------------------------------------------
VARIABLES
    entities,    \* dgw_sem_entities
    relations,   \* dgw_sem_relations
    enums,       \* dgw_sem_enum_values
    fts,         \* dgw_sem_fts: a set of items
    pc,          \* [Process -> program counter]
    dir,         \* [Process -> the directory it compiled]
    cur,         \* [Process -> its snapshot]
    \* History, read by the properties only:
    alone,       \* [Process -> nobody else committed since it began]
    settled,     \* the last commit was by a command that was alone
    lastDir      \* the directory of the last commit, when it was settled

db == <<entities, relations, enums, fts, settled, lastDir>>
vars == <<entities, relations, enums, fts, pc, dir, cur, alone, settled, lastDir>>

\* A store from before the keyword index: rows of two earlier syncs, no index.
LegacyRows(old, new) ==
    LiveRows(new) \cup Buried(LiveRows(NotIn(old, Keys(new))), Keys(old))

Init ==
    /\ \E old, new \in {d \in Directory : Compiles(d)} :
          /\ entities = LegacyRows(EntityItems(old), EntityItems(new))
          /\ enums = LegacyRows(EnumItems(old), EnumItems(new))
          /\ \E last \in LastOfEachKey(RelationItems(new)) : relations = LiveRows(last)
    /\ fts = {}
    /\ settled = FALSE
    /\ lastDir = << >>
    /\ pc = [p \in Process |-> "idle"]
    /\ dir = [p \in Process |-> << >>]
    /\ cur = [p \in Process |-> Nothing]
    /\ alone = [p \in Process |-> FALSE]

-----------------------------------------------------------------------------
(* A command.                                                              *)

\* Load and Compile.  A directory that does not compile ends the command
\* before it reads the store.
Start(p) ==
    /\ pc[p] = "idle"
    /\ \E d \in Directory :
          /\ Compiles(d)
          /\ dir' = [dir EXCEPT ![p] = d]
    /\ pc' = [pc EXCEPT ![p] = "entities"]
    /\ alone' = [alone EXCEPT ![p] = TRUE]
    /\ UNCHANGED <<db, cur>>

\* Snapshot: three statements, each on the store as it then is.
SnapshotEntities(p) ==
    /\ pc[p] = "entities"
    /\ cur' = [cur EXCEPT ![p].entities = Live(entities)]
    /\ pc' = [pc EXCEPT ![p] = "relations"]
    /\ UNCHANGED <<db, dir, alone>>

SnapshotRelations(p) ==
    /\ pc[p] = "relations"
    /\ cur' = [cur EXCEPT ![p].relations = Live(relations)]
    /\ pc' = [pc EXCEPT ![p] = "enums"]
    /\ UNCHANGED <<db, dir, alone>>

SnapshotEnums(p) ==
    /\ pc[p] = "enums"
    /\ cur' = [cur EXCEPT ![p].enums = Live(enums)]
    /\ pc' = [pc EXCEPT ![p] = "apply"]
    /\ UNCHANGED <<db, dir, alone>>

End(p) ==
    /\ pc' = [pc EXCEPT ![p] = "idle"]
    /\ dir' = [dir EXCEPT ![p] = << >>]
    /\ cur' = [cur EXCEPT ![p] = Nothing]

\* Seeded fault: the index of an old store is left to the incremental updates.
Backfilled_Never == fts

\* backfillFTSIfEmpty: an empty index is filled with the live entities.
Backfilled == IF fts = {} THEN Live(entities) ELSE fts

\* upsertFTS of the changed entities, DELETE of the tombstoned ones.
Reindexed(index, changed, gone) == NotIn(index, Keys(changed) \cup gone) \cup changed

\* Apply: one transaction, driven by the difference to the snapshot.
Apply(p) ==
    /\ pc[p] = "apply"
    /\ LET target == Compile(dir[p])
           changed == Changed(target.entities, cur[p].entities)
           gone == Keys(Gone(target.entities, cur[p].entities))
       IN  /\ fts' = Reindexed(Backfilled, changed, gone)
           /\ entities' = Buried(Upserted(entities, changed), gone)
           /\ \E last \in LastOfEachKey(Changed(target.relations, cur[p].relations)) :
                 relations' = Buried(Upserted(relations, last),
                                     Keys(Gone(target.relations, cur[p].relations)))
           /\ enums' = Buried(Upserted(enums, Changed(target.enums, cur[p].enums)),
                              Keys(Gone(target.enums, cur[p].enums)))
    /\ settled' = alone[p]
    /\ lastDir' = IF alone[p] THEN dir[p] ELSE << >>
    /\ alone' = [q \in Process |-> FALSE]
    /\ End(p)

\* The end of a dry run, an error of any statement (the transaction is rolled
\* back) or a crash.
Stop(p) ==
    /\ pc[p] # "idle"
    /\ alone' = [alone EXCEPT ![p] = FALSE]
    /\ End(p)
    /\ UNCHANGED db

Next == \E p \in Process :
    \/ Start(p)
    \/ SnapshotEntities(p)
    \/ SnapshotRelations(p)
    \/ SnapshotEnums(p)
    \/ Apply(p)
    \/ Stop(p)

Spec == Init /\ [][Next]_vars

-----------------------------------------------------------------------------
Item == [key : STRING, val : Kind \X STRING]

TypeOK ==
    /\ Live(entities) \subseteq Item
    /\ fts \subseteq Item
    /\ UniqueKeys(entities) /\ UniqueKeys(relations) /\ UniqueKeys(enums)
    /\ pc \in [Process -> {"idle", "entities", "relations", "enums", "apply"}]
    /\ \A p \in Process : dir[p] \in Directory \cup {<< >>}
    /\ alone \in [Process -> BOOLEAN]
    /\ settled \in BOOLEAN

\* The keyword index holds exactly the live entities with their current text,
\* once it has been filled at all: whatever two commands do to each other's
\* snapshots, searching by keyword sees the entity table as it is
\* (apply.go: entities and index in one transaction, backfill of an old store).
IndexIsActive == fts = {} \/ fts = Live(entities)

\* A command nobody interfered with leaves exactly what its directory says,
\* from whatever the store held before, overlapping commands' leftovers
\* included: the same entities, the same enum values, one edge for each key,
\* joined as the directory says in one of the places it says so
\* (diff.go Compare, apply.go applyInTx).
AloneMeansTarget ==
    [][\A p \in Process : Apply(p) /\ alone[p] =>
          LET target == Compile(dir[p])
          IN  /\ Live(entities)' = target.entities
              /\ Live(enums)' = target.enums
              /\ Live(relations)' \in LastOfEachKey(target.relations)]_vars

\* A live edge joins two live entities and a live enum value belongs to a
\* live column, unless two commands overlapped: burying an entity buries what
\* hangs on it (apply.go:16, compile.go resolveRefs).
ClosedWhenSettled ==
    settled =>
        /\ \A i \in Live(relations) : {i.key[2], i.key[3]} \subseteq Keys(Live(entities))
        /\ \A i \in Live(enums) : i.key[1] \in Keys(Live(entities))

\* p is about to apply, alone, the directory that was applied last.
Rerun(p) == pc[p] = "apply" /\ alone[p] /\ settled /\ dir[p] = lastDir

\* Running the same input again finds no difference, but for edges that the
\* input itself gives twice with different join conditions (diff.go Compare).
RerunFindsOnlyDoubles ==
    \A p \in Process : Rerun(p) =>
        LET target == Compile(dir[p])
        IN  /\ target.entities = cur[p].entities
            /\ target.enums = cur[p].enums
            /\ Gone(target.relations, cur[p].relations) = {}
            /\ \A i \in Changed(target.relations, cur[p].relations) :
                  \E j \in target.relations : j.key = i.key /\ j # i
=============================================================================

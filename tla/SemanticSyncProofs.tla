------------------------- MODULE SemanticSyncProofs -------------------------
(***************************************************************************)
(* Proofs about SemanticSync for every set of commands and of directories: *)
(* the keyword index, the effect of a command nobody interfered with, and  *)
(* the closure of what it leaves.                                          *)
(***************************************************************************)
EXTENDS SemanticSync, TLAPS

Items(s) == \A i \in s : i = [key |-> i.key, val |-> i.val]

Rows(s) == \A r \in s : /\ r = [key |-> r.key, val |-> r.val, tombstone |-> r.tombstone]
                        /\ r.tombstone \in {0, 1}

-----------------------------------------------------------------------------
(* Items and rows.                                                         *)

\* An update of a table seen through its live rows: upserts and tombstones
\* touch the keys they name and nothing else.
LEMMA LiveAfterUpdate ==
    ASSUME NEW rows, NEW items, NEW keys,
           Rows(rows), Items(items), Keys(items) \cap keys = {}
    PROVE  Live(Buried(Upserted(rows, items), keys))
              = NotIn(Live(rows), Keys(items) \cup keys) \cup items
<1> DEFINE up == Upserted(rows, items)
           left == Live(Buried(up, keys))
           right == NotIn(Live(rows), Keys(items) \cup keys) \cup items
<1>1. ASSUME NEW x \in left  PROVE x \in right
  <2>1. PICK r \in up : /\ r.tombstone = 0 /\ r.key \notin keys
                        /\ x = [key |-> r.key, val |-> r.val]
    BY <1>1 DEF Live, Buried
  <2>2. CASE r \in NotIn(rows, Keys(items))
    BY <2>1, <2>2 DEF NotIn, Live, Rows
  <2>3. CASE r \in LiveRows(items)
    BY <2>1, <2>3 DEF LiveRows, Items
  <2> QED BY <2>2, <2>3 DEF Upserted
<1>2. ASSUME NEW x \in items  PROVE x \in left
  <2> DEFINE r == [key |-> x.key, val |-> x.val, tombstone |-> 0]
             b == [key |-> r.key, val |-> r.val, tombstone |-> IF r.key \in keys THEN 1 ELSE r.tombstone]
  <2>1. r \in up
    BY DEF Upserted, LiveRows
  <2>2. b \in Buried(up, keys)
    BY <2>1 DEF Buried
  <2>3. x.key \notin keys
    BY DEF Keys
  <2>4. b.tombstone = 0 /\ b.key = x.key /\ b.val = x.val
    BY <2>3
  <2>5. [key |-> b.key, val |-> b.val] \in left
    BY <2>2, <2>4 DEF Live
  <2> QED BY <2>4, <2>5 DEF Items
<1>3. ASSUME NEW x \in NotIn(Live(rows), Keys(items) \cup keys)  PROVE x \in left
  <2>1. PICK r \in rows : r.tombstone = 0 /\ x = [key |-> r.key, val |-> r.val]
    BY DEF NotIn, Live
  <2>2. r.key \notin Keys(items) /\ r.key \notin keys
    BY <2>1 DEF NotIn
  <2>3. r \in up
    BY <2>2 DEF Upserted, NotIn
  <2> DEFINE b == [key |-> r.key, val |-> r.val, tombstone |-> IF r.key \in keys THEN 1 ELSE r.tombstone]
  <2>4. b \in Buried(up, keys)
    BY <2>3 DEF Buried
  <2>5. b.tombstone = 0 /\ b.key = x.key /\ b.val = x.val
    BY <2>1, <2>2
  <2>6. [key |-> b.key, val |-> b.val] \in left
    BY <2>4, <2>5 DEF Live
  <2> QED BY <2>1, <2>5, <2>6
<1> QED BY <1>1, <1>2, <1>3

\* The rows stay rows, and one for each key.
LEMMA UpdateKeepsRows ==
    ASSUME NEW rows, NEW items, NEW keys,
           Rows(rows), UniqueKeys(rows), UniqueKeys(items)
    PROVE  /\ Rows(Buried(Upserted(rows, items), keys))
           /\ UniqueKeys(Buried(Upserted(rows, items), keys))
<1> DEFINE up == Upserted(rows, items)
<1>1. Rows(up)
  BY DEF Rows, Upserted, NotIn, LiveRows
<1>2. UniqueKeys(up)
  <2> SUFFICES ASSUME NEW r \in up, NEW q \in up, r.key = q.key  PROVE r = q
    BY DEF UniqueKeys
  <2>1. CASE r \in NotIn(rows, Keys(items)) /\ q \in NotIn(rows, Keys(items))
    BY <2>1 DEF NotIn, UniqueKeys
  <2>2. CASE r \in LiveRows(items) /\ q \in LiveRows(items)
    BY <2>2 DEF LiveRows, UniqueKeys
  <2>3. CASE r \in NotIn(rows, Keys(items)) /\ q \in LiveRows(items)
    BY <2>3 DEF NotIn, LiveRows, Keys
  <2>4. CASE r \in LiveRows(items) /\ q \in NotIn(rows, Keys(items))
    BY <2>4 DEF NotIn, LiveRows, Keys
  <2> QED BY <2>1, <2>2, <2>3, <2>4 DEF Upserted
<1>3. Rows(Buried(up, keys))
  BY <1>1 DEF Rows, Buried
<1>4. UniqueKeys(Buried(up, keys))
  <2> SUFFICES ASSUME NEW b \in Buried(up, keys), NEW c \in Buried(up, keys), b.key = c.key
               PROVE  b = c
    BY DEF UniqueKeys
  <2>1. PICK r \in up : b = [key |-> r.key, val |-> r.val, tombstone |-> IF r.key \in keys THEN 1 ELSE r.tombstone]
    BY DEF Buried
  <2>2. PICK q \in up : c = [key |-> q.key, val |-> q.val, tombstone |-> IF q.key \in keys THEN 1 ELSE q.tombstone]
    BY DEF Buried
  <2> QED BY <2>1, <2>2, <1>2 DEF UniqueKeys
<1> QED BY <1>3, <1>4

LEMMA LiveUnique ==
    ASSUME NEW rows, UniqueKeys(rows)
    PROVE  Items(Live(rows)) /\ UniqueKeys(Live(rows))
BY DEF Items, Live, UniqueKeys

\* The difference to a true snapshot, applied, is the target.
LEMMA DifferenceReachesTarget ==
    ASSUME NEW target, NEW seen, UniqueKeys(seen),
           NEW last \in LastOfEachKey(Changed(target, seen))
    PROVE  /\ Keys(last) \cap Keys(Gone(target, seen)) = {}
           /\ NotIn(seen, Keys(last) \cup Keys(Gone(target, seen))) \cup last
                 \in LastOfEachKey(target)
<1> DEFINE kept == NotIn(seen, Keys(last) \cup Keys(Gone(target, seen)))
<1>1. last \subseteq target /\ UniqueKeys(last) /\ Keys(last) = Keys(Changed(target, seen))
  BY DEF LastOfEachKey, Changed
<1>2. Keys(last) \cap Keys(Gone(target, seen)) = {}
  BY <1>1 DEF Keys, Gone, NotIn
<1>3. ASSUME NEW x \in kept  PROVE x \in target
  <2>1. x \in seen /\ x.key \notin Keys(last) /\ x \notin Gone(target, seen)
    BY DEF NotIn, Keys
  <2>2. PICK t \in target : t.key = x.key
    BY <2>1 DEF Gone, NotIn, Keys
  <2>3. t \in seen
    BY <2>1, <2>2, <1>1 DEF Changed, Keys
  <2> QED BY <2>1, <2>2, <2>3 DEF UniqueKeys
<1>4. ASSUME NEW t \in target  PROVE t.key \in Keys(kept \cup last)
  <2>1. CASE t.key \in Keys(last)
    BY <2>1 DEF Keys
  <2>2. CASE t.key \notin Keys(last)
    <3>1. t \in seen
      BY <2>2, <1>1 DEF Changed, Keys
    <3>2. t.key \notin Keys(Gone(target, seen))
      BY DEF Gone, NotIn, Keys
    <3> QED BY <2>2, <3>1, <3>2 DEF NotIn, Keys
  <2> QED BY <2>1, <2>2
<1>5. UniqueKeys(kept \cup last)
  <2>1. UniqueKeys(kept)
    BY DEF UniqueKeys, NotIn
  <2>2. \A x \in kept : \A y \in last : x.key # y.key
    BY DEF NotIn, Keys
  <2> QED BY <2>1, <2>2, <1>1 DEF UniqueKeys
<1>6. kept \cup last \subseteq target
  BY <1>1, <1>3
<1>7. Keys(kept \cup last) = Keys(target)
  BY <1>4, <1>6 DEF Keys
<1> QED BY <1>2, <1>5, <1>6, <1>7 DEF LastOfEachKey

\* With one item for each key there is nothing to choose.
LEMMA NothingToChoose ==
    ASSUME NEW items, UniqueKeys(items)
    PROVE  LastOfEachKey(items) = {items}
<1>1. items \in LastOfEachKey(items)
  BY DEF LastOfEachKey
<1>2. ASSUME NEW last \in LastOfEachKey(items)  PROVE last = items
  <2>1. last \subseteq items /\ Keys(last) = Keys(items)
    BY DEF LastOfEachKey
  <2>2. ASSUME NEW i \in items  PROVE i \in last
    <3>1. PICK j \in last : j.key = i.key
      BY <2>1 DEF Keys
    <3> QED BY <2>1, <3>1 DEF UniqueKeys
  <2> QED BY <2>1, <2>2
<1> QED BY <1>1, <1>2

\* One table of the transaction: the rows stay well formed, exactly the named
\* keys change, and over a true snapshot the live rows become the target.
LEMMA ApplyToTable ==
    ASSUME NEW rows, NEW target, NEW snap, Rows(rows), UniqueKeys(rows), Items(target),
           NEW last \in LastOfEachKey(Changed(target, snap)),
           NEW new, new = Buried(Upserted(rows, last), Keys(Gone(target, snap)))
    PROVE  /\ Rows(new) /\ UniqueKeys(new)
           /\ Live(new) = NotIn(Live(rows), Keys(last) \cup Keys(Gone(target, snap))) \cup last
           /\ snap = Live(rows) => Live(new) \in LastOfEachKey(target)
<1>1. last \subseteq target /\ UniqueKeys(last)
  BY DEF LastOfEachKey, Changed
<1>2. Keys(last) \cap Keys(Gone(target, snap)) = {}
  BY <1>1 DEF Keys, Gone, NotIn
<1>3. Items(last)
  BY <1>1 DEF Items
<1>4. Live(new) = NotIn(Live(rows), Keys(last) \cup Keys(Gone(target, snap))) \cup last
  BY <1>2, <1>3, LiveAfterUpdate
<1>5. Rows(new) /\ UniqueKeys(new)
  BY <1>1, UpdateKeepsRows
<1>6. ASSUME snap = Live(rows)  PROVE Live(new) \in LastOfEachKey(target)
  <2>1. UniqueKeys(snap)
    BY <1>6, LiveUnique
  <2>2. NotIn(snap, Keys(last) \cup Keys(Gone(target, snap))) \cup last
           \in LastOfEachKey(target)
    BY <2>1, DifferenceReachesTarget
  <2> QED BY <1>4, <1>6, <2>2
<1> QED BY <1>4, <1>5, <1>6

-----------------------------------------------------------------------------
(* What compiles.                                                          *)

LEMMA RangeIsDefinitions ==
    ASSUME NEW d \in Directory
    PROVE  Range(d) \subseteq Definition
BY DirectoryAssumption DEF Range

\* A compiled directory has one entity for each name and one enum value for
\* each column and value.
LEMMA CompiledUnique ==
    ASSUME NEW d \in Directory, Compiles(d)
    PROVE  /\ UniqueKeys(EntityItems(d)) /\ UniqueKeys(EnumItems(d))
           /\ Items(EntityItems(d)) /\ Items(EnumItems(d)) /\ Items(RelationItems(d))
<1>1. ASSUME NEW c \in Range(d), NEW e \in Range(d), c.fqn = e.fqn  PROVE c = e
  <2>1. PICK i \in DOMAIN d : c = d[i]
    BY DEF Range
  <2>2. PICK j \in DOMAIN d : e = d[j]
    BY DEF Range
  <2> QED BY <1>1, <2>1, <2>2 DEF Compiles, FqnsDiffer
<1>2. UniqueKeys(EntityItems(d))
  BY <1>1 DEF UniqueKeys, EntityItems
<1>3. UniqueKeys(EnumItems(d))
  <2> SUFFICES ASSUME NEW i \in EnumItems(d), NEW j \in EnumItems(d), i.key = j.key
               PROVE  i = j
    BY DEF UniqueKeys
  <2>1. PICK c \in Range(d) : \E v \in Range(c.enums) :
                i = [key |-> <<c.fqn, v.value>>, val |-> v.label]
    BY DEF EnumItems
  <2>2. PICK e \in Range(d) : \E w \in Range(e.enums) :
                j = [key |-> <<e.fqn, w.value>>, val |-> w.label]
    BY DEF EnumItems
  <2>3. PICK v \in Range(c.enums) : i = [key |-> <<c.fqn, v.value>>, val |-> v.label]
    BY <2>1
  <2>4. PICK w \in Range(e.enums) : j = [key |-> <<e.fqn, w.value>>, val |-> w.label]
    BY <2>2
  <2>5. c.fqn = e.fqn /\ v.value = w.value
    BY <2>3, <2>4
  <2>6. c = e
    BY <2>5, <1>1
  <2>7. v = w
    <3>1. EnumsLegal(c)
      BY DEF Compiles
    <3>2. PICK k \in DOMAIN c.enums : v = c.enums[k]
      BY DEF Range
    <3>3. PICK l \in DOMAIN c.enums : w = c.enums[l]
      BY <2>6 DEF Range
    <3> QED BY <2>5, <3>1, <3>2, <3>3 DEF EnumsLegal
  <2> QED BY <2>3, <2>4, <2>6, <2>7
<1>4. Items(EntityItems(d))
  BY DEF Items, EntityItems
<1>5. Items(EnumItems(d))
  BY DEF Items, EnumItems
<1>6. Items(RelationItems(d))
  <2> SUFFICES ASSUME NEW i \in RelationItems(d)  PROVE i = [key |-> i.key, val |-> i.val]
    BY DEF Items
  <2>1. CASE \E c \in Range(d) :
                i = [key |-> <<NestingType(c), c.parent, c.fqn>>, val |-> ""]
    BY <2>1
  <2>2. CASE \E c \in Range(d) : \E ref \in c.refs :
                i = [key |-> <<RefType(c), c.fqn, ref.to>>, val |-> ref.on]
    BY <2>2
  <2> QED BY <2>1, <2>2 DEF RelationItems
<1> QED BY <1>2, <1>3, <1>4, <1>5, <1>6

\* Every edge of a compiled directory joins two of its entities, every enum
\* value hangs on one.
LEMMA CompiledClosed ==
    ASSUME NEW d \in Directory, Compiles(d)
    PROVE  /\ \A i \in RelationItems(d) : {i.key[2], i.key[3]} \subseteq Keys(EntityItems(d))
           /\ \A i \in EnumItems(d) : i.key[1] \in Keys(EntityItems(d))
<1>1. ASSUME NEW c \in Range(d)  PROVE c.fqn \in Keys(EntityItems(d))
  <2> DEFINE i == [key |-> c.fqn, val |-> <<c.kind, c.text>>]
  <2>1. i \in EntityItems(d)
    BY DEF EntityItems
  <2>2. i.key = c.fqn
    OBVIOUS
  <2> QED BY <2>1, <2>2 DEF Keys
<1>2. ASSUME NEW i \in RelationItems(d)
      PROVE  {i.key[2], i.key[3]} \subseteq Keys(EntityItems(d))
  <2>1. CASE \E c \in Range(d) : /\ c.parent # NoParent
                                 /\ i = [key |-> <<NestingType(c), c.parent, c.fqn>>, val |-> ""]
    <3>1. PICK c \in Range(d) : /\ c.parent # NoParent
                                /\ i = [key |-> <<NestingType(c), c.parent, c.fqn>>, val |-> ""]
      BY <2>1
    <3>2. PICK e \in Range(d) : e.fqn = c.parent
      BY <3>1, DirectoryAssumption
    <3>3. i.key[2] = e.fqn /\ i.key[3] = c.fqn
      BY <3>1, <3>2
    <3> QED BY <1>1, <3>3
  <2>2. CASE \E c \in Range(d) : \E ref \in c.refs :
                i = [key |-> <<RefType(c), c.fqn, ref.to>>, val |-> ref.on]
    <3>1. PICK c \in Range(d) : \E ref \in c.refs :
                i = [key |-> <<RefType(c), c.fqn, ref.to>>, val |-> ref.on]
      BY <2>2
    <3>2. PICK ref \in c.refs : i = [key |-> <<RefType(c), c.fqn, ref.to>>, val |-> ref.on]
      BY <3>1
    <3>3. PICK e \in Range(d) : e.fqn = ref.to
      BY DEF Compiles, RefsResolve
    <3>4. i.key[2] = c.fqn /\ i.key[3] = e.fqn
      BY <3>2, <3>3
    <3> QED BY <1>1, <3>4
  <2> QED BY <2>1, <2>2 DEF RelationItems
<1>3. ASSUME NEW i \in EnumItems(d)  PROVE i.key[1] \in Keys(EntityItems(d))
  <2>1. PICK c \in Range(d) : \E v \in Range(c.enums) :
                i = [key |-> <<c.fqn, v.value>>, val |-> v.label]
    BY DEF EnumItems
  <2> QED BY <1>1, <2>1
<1> QED BY <1>2, <1>3

-----------------------------------------------------------------------------
(* The inductive invariant.                                                *)

Tables ==
    /\ Rows(entities) /\ Rows(relations) /\ Rows(enums)
    /\ UniqueKeys(entities) /\ UniqueKeys(relations) /\ UniqueKeys(enums)

\* A snapshot part that p has read is the table as it is, while p is alone.
SnapshotHolds(p) ==
    alone[p] =>
        /\ pc[p] \in {"relations", "enums", "apply"} => cur[p].entities = Live(entities)
        /\ pc[p] \in {"enums", "apply"} => cur[p].relations = Live(relations)
        /\ pc[p] = "apply" => cur[p].enums = Live(enums)

CommandKnows(p) ==
    /\ cur[p] = [entities  |-> cur[p].entities,
                 relations |-> cur[p].relations,
                 enums     |-> cur[p].enums]
    /\ pc[p] # "idle" => dir[p] \in Directory /\ Compiles(dir[p])
    /\ SnapshotHolds(p)

IInv ==
    /\ TypeOK
    /\ Tables
    /\ IndexIsActive
    /\ ClosedWhenSettled
    /\ dir = [p \in Process |-> dir[p]] /\ cur = [p \in Process |-> cur[p]]
    /\ \A p \in Process : CommandKnows(p)

LEMMA InitRows ==
    ASSUME NEW old, NEW items, UniqueKeys(old), UniqueKeys(items)
    PROVE  /\ Rows(LiveRows(items)) /\ UniqueKeys(LiveRows(items))
           /\ Rows(LegacyRows(old, items)) /\ UniqueKeys(LegacyRows(old, items))
           /\ Items(items) => Live(LegacyRows(old, items)) = items
<1> DEFINE buried == Buried(LiveRows(NotIn(old, Keys(items))), Keys(old))
<1>1. Rows(LiveRows(items)) /\ UniqueKeys(LiveRows(items))
  BY DEF Rows, LiveRows, UniqueKeys
<1>2. \A r \in buried : /\ r = [key |-> r.key, val |-> r.val, tombstone |-> r.tombstone]
                        /\ r.tombstone = 1 /\ r.key \notin Keys(items)
  BY DEF Buried, LiveRows, NotIn, Keys
<1>3. UniqueKeys(buried)
  BY DEF Buried, LiveRows, NotIn, UniqueKeys
<1>4. \A r \in LiveRows(items) : r.tombstone = 0 /\ r.key \in Keys(items)
  BY DEF LiveRows, Keys
<1>5. Rows(LegacyRows(old, items))
  BY <1>1, <1>2 DEF LegacyRows, Rows
<1>6. UniqueKeys(LegacyRows(old, items))
  BY <1>1, <1>2, <1>3, <1>4 DEF LegacyRows, UniqueKeys
<1>7. ASSUME Items(items)  PROVE Live(LegacyRows(old, items)) = items
  <2>1. Live(LegacyRows(old, items)) = Live(LiveRows(items))
    BY <1>2, <1>4 DEF LegacyRows, Live
  <2>2. Live(LiveRows(items)) = items
    <3>1. ASSUME NEW x \in Live(LiveRows(items))  PROVE x \in items
      BY <1>7 DEF Live, LiveRows, Items
    <3>2. ASSUME NEW x \in items  PROVE x \in Live(LiveRows(items))
      <4> DEFINE r == [key |-> x.key, val |-> x.val, tombstone |-> 0]
      <4>1. r \in LiveRows(items)
        BY DEF LiveRows
      <4>2. [key |-> r.key, val |-> r.val] \in Live(LiveRows(items))
        BY <4>1 DEF Live
      <4> QED BY <1>7, <4>2 DEF Items
    <3> QED BY <3>1, <3>2
  <2> QED BY <2>1, <2>2
<1> QED BY <1>1, <1>5, <1>6, <1>7

LEMMA EntityItemsTyped ==
    ASSUME NEW d \in Directory
    PROVE  EntityItems(d) \subseteq Item
<1>1. Range(d) \subseteq Definition
  BY RangeIsDefinitions
<1> QED BY <1>1 DEF EntityItems, Item, Definition

LEMMA InitIInv == Init => IInv
<1> SUFFICES ASSUME Init  PROVE IInv
  OBVIOUS
<1>1. PICK old \in Directory, new \in Directory :
          /\ Compiles(old) /\ Compiles(new)
          /\ entities = LegacyRows(EntityItems(old), EntityItems(new))
          /\ enums = LegacyRows(EnumItems(old), EnumItems(new))
          /\ \E last \in LastOfEachKey(RelationItems(new)) : relations = LiveRows(last)
  BY DEF Init
<1>2. PICK last \in LastOfEachKey(RelationItems(new)) : relations = LiveRows(last)
  BY <1>1
<1>3. UniqueKeys(last)
  BY DEF LastOfEachKey
<1>4. Tables
  BY <1>1, <1>2, <1>3, CompiledUnique, InitRows DEF Tables
<1>5. Live(entities) = EntityItems(new)
  BY <1>1, CompiledUnique, InitRows
<1>6. Live(entities) \subseteq Item
  BY <1>5, EntityItemsTyped
<1>7. TypeOK
  BY <1>4, <1>6 DEF Init, TypeOK, Tables
<1>8. IndexIsActive /\ ClosedWhenSettled
  BY DEF Init, IndexIsActive, ClosedWhenSettled
<1>9. \A p \in Process : CommandKnows(p)
  BY DEF Init, CommandKnows, SnapshotHolds, Nothing
<1> QED BY <1>4, <1>7, <1>8, <1>9 DEF IInv, Init

\* What a commit makes of the three tables.
LEMMA ApplyTables ==
    ASSUME IInv, NEW p \in Process, Apply(p)
    PROVE  /\ Tables'
           /\ fts' = Live(entities)' /\ Live(entities)' \subseteq Item
           /\ alone[p] => /\ Live(entities)' = Compile(dir[p]).entities
                          /\ Live(enums)' = Compile(dir[p]).enums
                          /\ Live(relations)' \in LastOfEachKey(Compile(dir[p]).relations)
<1> DEFINE d == dir[p]
           changed == Changed(EntityItems(d), cur[p].entities)
           gone == Keys(Gone(EntityItems(d), cur[p].entities))
           values == Changed(EnumItems(d), cur[p].enums)
<1>1. pc[p] = "apply" /\ d \in Directory /\ Compiles(d)
  BY DEF Apply, IInv, CommandKnows
<1>2. /\ UniqueKeys(EntityItems(d)) /\ UniqueKeys(EnumItems(d))
      /\ Items(EntityItems(d)) /\ Items(EnumItems(d)) /\ Items(RelationItems(d))
  BY <1>1, CompiledUnique
<1>3. /\ Compile(d).entities = EntityItems(d) /\ Compile(d).enums = EnumItems(d)
      /\ Compile(d).relations = RelationItems(d)
  BY DEF Compile
<1>4. UniqueKeys(changed) /\ UniqueKeys(values)
  BY <1>2 DEF UniqueKeys, Changed
<1>5. changed \in LastOfEachKey(changed) /\ values \in LastOfEachKey(values)
  BY <1>4, NothingToChoose
<1>6. /\ entities' = Buried(Upserted(entities, changed), gone)
      /\ fts' = Reindexed(Backfilled, changed, gone)
      /\ enums' = Buried(Upserted(enums, values), Keys(Gone(EnumItems(d), cur[p].enums)))
  BY <1>3 DEF Apply
<1>7. PICK last \in LastOfEachKey(Changed(RelationItems(d), cur[p].relations)) :
          relations' = Buried(Upserted(relations, last),
                              Keys(Gone(RelationItems(d), cur[p].relations)))
  BY <1>3 DEF Apply
<1>8. Rows(entities) /\ UniqueKeys(entities) /\ Rows(relations) /\ UniqueKeys(relations)
      /\ Rows(enums) /\ UniqueKeys(enums)
  BY DEF IInv, Tables
<1>9. /\ Rows(entities') /\ UniqueKeys(entities')
      /\ Live(entities') = NotIn(Live(entities), Keys(changed) \cup gone) \cup changed
      /\ cur[p].entities = Live(entities) => Live(entities') \in LastOfEachKey(EntityItems(d))
  <2>1. changed \in LastOfEachKey(Changed(EntityItems(d), cur[p].entities))
    BY <1>5
  <2>2. entities' = Buried(Upserted(entities, changed),
                           Keys(Gone(EntityItems(d), cur[p].entities)))
    BY <1>6
  <2> DEFINE snap == cur[p].entities
             target == EntityItems(d)
  <2>3. Rows(entities) /\ UniqueKeys(entities) /\ Items(target)
    BY <1>2, <1>8
  <2>4. changed \in LastOfEachKey(Changed(target, snap))
    BY <2>1
  <2>5. entities' = Buried(Upserted(entities, changed), Keys(Gone(target, snap)))
    BY <2>2
  <2>6. gone = Keys(Gone(target, snap))
    OBVIOUS
  <2> HIDE DEF changed, gone, snap, target
  <2>7. /\ Rows(entities') /\ UniqueKeys(entities')
        /\ Live(entities') = NotIn(Live(entities), Keys(changed) \cup Keys(Gone(target, snap)))
                                \cup changed
        /\ snap = Live(entities) => Live(entities') \in LastOfEachKey(target)
    BY <2>3, <2>4, <2>5, ApplyToTable
  <2> QED BY <2>6, <2>7 DEF snap, target
<1>10. /\ Rows(enums') /\ UniqueKeys(enums')
       /\ cur[p].enums = Live(enums) => Live(enums') \in LastOfEachKey(EnumItems(d))
  BY <1>2, <1>5, <1>6, <1>8, ApplyToTable
<1>11. /\ Rows(relations') /\ UniqueKeys(relations')
       /\ cur[p].relations = Live(relations)
             => Live(relations') \in LastOfEachKey(RelationItems(d))
  BY <1>2, <1>7, <1>8, ApplyToTable
<1>12. Tables'
  BY <1>9, <1>10, <1>11 DEF Tables
<1>13. fts' = Live(entities')
  <2>1. Backfilled = Live(entities)
    BY DEF Backfilled, IInv, IndexIsActive
  <2> QED BY <2>1, <1>6, <1>9 DEF Reindexed
<1>14. Live(entities') \subseteq Item
  <2>1. EntityItems(d) \subseteq Item
    BY <1>1, EntityItemsTyped
  <2>2. Live(entities) \subseteq Item
    BY DEF IInv, TypeOK
  <2> QED BY <2>1, <2>2, <1>9 DEF NotIn, Changed
<1>15. ASSUME alone[p]
       PROVE  /\ Live(entities') = EntityItems(d) /\ Live(enums') = EnumItems(d)
              /\ Live(relations') \in LastOfEachKey(RelationItems(d))
  <2>1. /\ cur[p].entities = Live(entities) /\ cur[p].enums = Live(enums)
        /\ cur[p].relations = Live(relations)
    BY <1>1, <1>15 DEF IInv, CommandKnows, SnapshotHolds
  <2> QED BY <2>1, <1>2, <1>9, <1>10, <1>11, NothingToChoose
<1> QED BY <1>3, <1>12, <1>13, <1>14, <1>15

\* A step that writes no table and leaves the other commands as they are.
LEMMA QuietStep ==
    ASSUME IInv, NEW p \in Process, UNCHANGED db,
           \/ dir' = dir
           \/ \E d \in Directory \cup {<< >>} : dir' = [dir EXCEPT ![p] = d],
           cur' = cur \/ \E c : cur' = [cur EXCEPT ![p] = c],
           alone' = alone \/ \E b \in BOOLEAN : alone' = [alone EXCEPT ![p] = b],
           \E l \in {"idle", "entities", "relations", "enums", "apply"} :
              pc' = [pc EXCEPT ![p] = l],
           CommandKnows(p)'
    PROVE  IInv'
<1>1. TypeOK'
  <2>1. pc' \in [Process -> {"idle", "entities", "relations", "enums", "apply"}]
    BY DEF IInv, TypeOK
  <2>2. \A q \in Process : dir'[q] \in Directory \cup {<< >>}
    BY DEF IInv, TypeOK
  <2>3. alone' \in [Process -> BOOLEAN]
    BY DEF IInv, TypeOK
  <2> QED BY <2>1, <2>2, <2>3 DEF IInv, TypeOK, db
<1>2. Tables' /\ IndexIsActive' /\ ClosedWhenSettled'
  BY DEF IInv, Tables, IndexIsActive, ClosedWhenSettled, db
<1>3. ASSUME NEW q \in Process, q # p  PROVE CommandKnows(q)'
  <2>1. /\ pc'[q] = pc[q] /\ dir'[q] = dir[q]
        /\ cur'[q] = cur[q] /\ alone'[q] = alone[q]
    BY <1>3 DEF IInv, TypeOK
  <2>2. CommandKnows(q)
    BY DEF IInv
  <2> QED BY <2>1, <2>2 DEF CommandKnows, SnapshotHolds, db
<1>4. dir' = [q \in Process |-> dir'[q]] /\ cur' = [q \in Process |-> cur'[q]]
  BY DEF IInv
<1>5. \A q \in Process : CommandKnows(q)'
  BY <1>3
<1> QED BY <1>1, <1>2, <1>4, <1>5 DEF IInv

LEMMA ApplyStep ==
    ASSUME IInv, NEW p \in Process, Apply(p)
    PROVE  IInv'
<1>1. /\ Tables' /\ fts' = Live(entities)' /\ Live(entities)' \subseteq Item
      /\ alone[p] => /\ Live(entities)' = Compile(dir[p]).entities
                     /\ Live(enums)' = Compile(dir[p]).enums
                     /\ Live(relations)' \in LastOfEachKey(Compile(dir[p]).relations)
  BY ApplyTables
<1>2. /\ settled' = alone[p] /\ alone' = [q \in Process |-> FALSE]
      /\ pc' = [pc EXCEPT ![p] = "idle"] /\ dir' = [dir EXCEPT ![p] = << >>]
      /\ cur' = [cur EXCEPT ![p] = Nothing]
  BY DEF Apply, End
<1>3. TypeOK'
  BY <1>1, <1>2 DEF IInv, TypeOK, Tables
<1>4. IndexIsActive'
  BY <1>1 DEF IndexIsActive
<1>5. ClosedWhenSettled'
  <2> SUFFICES ASSUME alone[p]  PROVE ClosedWhenSettled'
    BY <1>2 DEF ClosedWhenSettled
  <2> DEFINE d == dir[p]
  <2>1. d \in Directory /\ Compiles(d)
    BY DEF Apply, IInv, CommandKnows
  <2>2. /\ Live(entities)' = EntityItems(d) /\ Live(enums)' = EnumItems(d)
        /\ Live(relations)' \subseteq RelationItems(d)
    BY <1>1 DEF Compile, LastOfEachKey
  <2> QED BY <2>1, <2>2, CompiledClosed DEF ClosedWhenSettled
<1>6. ASSUME NEW q \in Process  PROVE CommandKnows(q)'
  <2>1. CASE q = p
    BY <1>2, <2>1 DEF IInv, TypeOK, CommandKnows, SnapshotHolds, Nothing
  <2>2. CASE q # p
    BY <1>2, <2>2 DEF IInv, TypeOK, CommandKnows, SnapshotHolds
  <2> QED BY <2>1, <2>2
<1>7. dir' = [q \in Process |-> dir'[q]] /\ cur' = [q \in Process |-> cur'[q]]
  BY <1>2 DEF IInv
<1> QED BY <1>1, <1>3, <1>4, <1>5, <1>6, <1>7 DEF IInv

LEMMA Inductive == IInv /\ [Next]_vars => IInv'
<1> SUFFICES ASSUME IInv, [Next]_vars  PROVE IInv'
  OBVIOUS
<1>1. CASE UNCHANGED vars
  BY <1>1 DEF IInv, TypeOK, Tables, IndexIsActive, ClosedWhenSettled, CommandKnows,
              SnapshotHolds, vars
<1>2. ASSUME NEW p \in Process, Start(p)  PROVE IInv'
  <2>1. CommandKnows(p)'
    BY <1>2 DEF Start, IInv, TypeOK, CommandKnows, SnapshotHolds
  <2>2. /\ pc' = [pc EXCEPT ![p] = "entities"] /\ alone' = [alone EXCEPT ![p] = TRUE]
        /\ \E d \in Directory : dir' = [dir EXCEPT ![p] = d]
        /\ UNCHANGED <<db, cur>>
    BY <1>2 DEF Start
  <2> QED BY <2>1, <2>2, QuietStep
<1>3. ASSUME NEW p \in Process, SnapshotEntities(p)  PROVE IInv'
  <2>1. CommandKnows(p)'
    BY <1>3 DEF SnapshotEntities, IInv, TypeOK, CommandKnows, SnapshotHolds, db
  <2>2. \E c : cur' = [cur EXCEPT ![p] = c]
    BY <1>3 DEF SnapshotEntities
  <2>3. pc' = [pc EXCEPT ![p] = "relations"] /\ UNCHANGED <<db, dir, alone>>
    BY <1>3 DEF SnapshotEntities
  <2> QED BY <2>1, <2>2, <2>3, QuietStep
<1>4. ASSUME NEW p \in Process, SnapshotRelations(p)  PROVE IInv'
  <2>1. CommandKnows(p)'
    BY <1>4 DEF SnapshotRelations, IInv, TypeOK, CommandKnows, SnapshotHolds, db
  <2>2. \E c : cur' = [cur EXCEPT ![p] = c]
    BY <1>4 DEF SnapshotRelations
  <2>3. pc' = [pc EXCEPT ![p] = "enums"] /\ UNCHANGED <<db, dir, alone>>
    BY <1>4 DEF SnapshotRelations
  <2> QED BY <2>1, <2>2, <2>3, QuietStep
<1>5. ASSUME NEW p \in Process, SnapshotEnums(p)  PROVE IInv'
  <2>1. CommandKnows(p)'
    BY <1>5 DEF SnapshotEnums, IInv, TypeOK, CommandKnows, SnapshotHolds, db
  <2>2. \E c : cur' = [cur EXCEPT ![p] = c]
    BY <1>5 DEF SnapshotEnums
  <2>3. pc' = [pc EXCEPT ![p] = "apply"] /\ UNCHANGED <<db, dir, alone>>
    BY <1>5 DEF SnapshotEnums
  <2> QED BY <2>1, <2>2, <2>3, QuietStep
<1>6. ASSUME NEW p \in Process, Stop(p)  PROVE IInv'
  <2>1. CommandKnows(p)'
    BY <1>6 DEF Stop, End, IInv, TypeOK, CommandKnows, SnapshotHolds, Nothing
  <2>2. /\ pc' = [pc EXCEPT ![p] = "idle"] /\ alone' = [alone EXCEPT ![p] = FALSE]
        /\ dir' = [dir EXCEPT ![p] = << >>]
        /\ cur' = [cur EXCEPT ![p] = Nothing] /\ UNCHANGED db
    BY <1>6 DEF Stop, End
  <2> QED BY <2>1, <2>2, QuietStep
<1> QED BY <1>1, <1>2, <1>3, <1>4, <1>5, <1>6, ApplyStep DEF Next

\* The types, one row for each key in every table, and the three invariants
\* below, all inductive together.
THEOREM Invariance == Spec => []IInv
BY InitIInv, Inductive, PTL DEF Spec

-----------------------------------------------------------------------------
\* Type correctness: the tables never hold two rows for one key.
THEOREM TypeCorrect == Spec => []TypeOK
<1>1. IInv => TypeOK
  BY DEF IInv
<1> QED BY <1>1, Invariance, PTL

\* The keyword index is empty or holds exactly the live entities, for any
\* number of overlapping commands (apply.go).
THEOREM IndexFollowsEntities == Spec => []IndexIsActive
<1>1. IInv => IndexIsActive
  BY DEF IInv
<1> QED BY <1>1, Invariance, PTL

\* No live edge or enum value hangs in the air after a command that was alone
\* (compile.go resolveRefs, apply.go applyInTx).
THEOREM SettledIsClosed == Spec => []ClosedWhenSettled
<1>1. IInv => ClosedWhenSettled
  BY DEF IInv
<1> QED BY <1>1, Invariance, PTL

\* A command nobody interfered with reaches its target from any store
\* (diff.go Compare, apply.go applyInTx).
THEOREM AloneReachesTarget == Spec => AloneMeansTarget
<1> DEFINE A == \A p \in Process : Apply(p) /\ alone[p] =>
                   LET target == Compile(dir[p])
                   IN  /\ Live(entities)' = target.entities
                       /\ Live(enums)' = target.enums
                       /\ Live(relations)' \in LastOfEachKey(target.relations)
<1>1. IInv /\ [Next]_vars => [A]_vars
  BY ApplyTables
<1> QED BY <1>1, Invariance, PTL DEF Spec, AloneMeansTarget

-----------------------------------------------------------------------------
(* Running the same input again.                                           *)

\* What a commit by a command that was alone leaves until the next commit.
AsLastApplied ==
    settled =>
        /\ lastDir \in Directory /\ Compiles(lastDir)
        /\ Live(entities) = EntityItems(lastDir)
        /\ Live(enums) = EnumItems(lastDir)
        /\ Live(relations) \in LastOfEachKey(RelationItems(lastDir))

LEMMA AppliedStays == IInv /\ AsLastApplied /\ [Next]_vars => AsLastApplied'
<1> SUFFICES ASSUME IInv, AsLastApplied, [Next]_vars  PROVE AsLastApplied'
  OBVIOUS
<1>1. CASE UNCHANGED db
  BY <1>1 DEF AsLastApplied, db
<1>2. ASSUME NEW p \in Process, Apply(p)  PROVE AsLastApplied'
  <2>1. settled' = alone[p] /\ lastDir' = IF alone[p] THEN dir[p] ELSE << >>
    BY <1>2 DEF Apply
  <2>2. CASE alone[p]
    <3>1. /\ Live(entities)' = EntityItems(dir[p]) /\ Live(enums)' = EnumItems(dir[p])
          /\ Live(relations)' \in LastOfEachKey(RelationItems(dir[p]))
      BY <1>2, <2>2, ApplyTables DEF Compile
    <3>2. dir[p] \in Directory /\ Compiles(dir[p])
      BY <1>2 DEF Apply, IInv, CommandKnows
    <3>3. lastDir' = dir[p]
      BY <2>1, <2>2
    <3> QED BY <3>1, <3>2, <3>3 DEF AsLastApplied
  <2>3. CASE ~alone[p]
    BY <2>1, <2>3 DEF AsLastApplied
  <2> QED BY <2>2, <2>3
<1>3. CASE UNCHANGED vars
  BY <1>1, <1>3 DEF vars, db
<1> QED BY <1>1, <1>2, <1>3
      DEF Next, Start, SnapshotEntities, SnapshotRelations, SnapshotEnums, Stop

\* The difference between a target and what applying it left is what the target
\* itself says twice.
LEMMA DifferenceToOwnEffect ==
    ASSUME NEW target, NEW last \in LastOfEachKey(target)
    PROVE  /\ Gone(target, last) = {}
           /\ \A i \in Changed(target, last) : \E j \in target : j.key = i.key /\ j # i
<1>1. last \subseteq target /\ Keys(last) = Keys(target)
  BY DEF LastOfEachKey
<1>2. Gone(target, last) = {}
  BY <1>1 DEF Gone, NotIn, Keys
<1>3. ASSUME NEW i \in Changed(target, last)
      PROVE  \E j \in target : j.key = i.key /\ j # i
  <2>1. i \in target /\ i \notin last
    BY DEF Changed
  <2>2. PICK j \in last : j.key = i.key
    BY <1>1, <2>1 DEF Keys
  <2> QED BY <1>1, <2>1, <2>2
<1> QED BY <1>2, <1>3

\* A second run of the same input finds nothing to do, except edges the input
\* gives twice with different joins: for every directory and any number of
\* commands that read, stopped or crashed in between (diff.go Compare).
THEOREM RerunIsQuiet == Spec => []RerunFindsOnlyDoubles
<1>1. ASSUME IInv, AsLastApplied  PROVE RerunFindsOnlyDoubles
  <2> SUFFICES ASSUME NEW p \in Process, Rerun(p)
               PROVE  /\ EntityItems(dir[p]) = cur[p].entities
                      /\ EnumItems(dir[p]) = cur[p].enums
                      /\ Gone(RelationItems(dir[p]), cur[p].relations) = {}
                      /\ \A i \in Changed(RelationItems(dir[p]), cur[p].relations) :
                            \E j \in RelationItems(dir[p]) : j.key = i.key /\ j # i
    BY DEF RerunFindsOnlyDoubles, Compile
  <2>1. /\ cur[p].entities = Live(entities) /\ cur[p].enums = Live(enums)
        /\ cur[p].relations = Live(relations)
    BY <1>1 DEF Rerun, IInv, CommandKnows, SnapshotHolds
  <2>2. /\ Live(entities) = EntityItems(dir[p]) /\ Live(enums) = EnumItems(dir[p])
        /\ Live(relations) \in LastOfEachKey(RelationItems(dir[p]))
    BY <1>1 DEF Rerun, AsLastApplied
  <2> QED BY <2>1, <2>2, DifferenceToOwnEffect
<1>2. Init => AsLastApplied
  BY DEF Init, AsLastApplied
<1> QED BY <1>1, <1>2, AppliedStays, Invariance, PTL DEF Spec
=============================================================================

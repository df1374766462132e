--------------------------- MODULE MigrationsProofs ---------------------------
(***************************************************************************)
(* Proofs about Migrations for any statements, of any number of columns    *)
(* and constraints, and for migrations of any length: what the collector   *)
(* keeps of them, what calibration finds, and that the collector's fold of *)
(* the statements is production's schema wherever it reports nothing.      *)
(***************************************************************************)
EXTENDS Migrations, WellFoundedInduction, TLAPS

IsMap(f) == f = [x \in DOMAIN f |-> f[x]]

\* A collected table.
Collected(t) ==
    /\ t = [schema |-> t.schema, cols |-> t.cols, enum |-> t.enum, refs |-> t.refs,
            reg |-> t.reg]
    /\ IsMap(t.cols) /\ IsMap(t.enum) /\ IsMap(t.reg)
    /\ DOMAIN t.cols = DOMAIN t.enum
    /\ \A c \in DOMAIN t.enum : IsABag(t.enum[c])
    /\ \A n \in DOMAIN t.reg : IsConstraint(t.reg[n])

\* A table of production.
Produced(p) ==
    /\ p = [cols |-> p.cols, cons |-> p.cons]
    /\ IsMap(p.cols) /\ IsMap(p.cons)
    /\ \A n \in DOMAIN p.cons : IsConstraint(p.cons[n]) /\ p.cons[n].col \in DOMAIN p.cols

Types ==
    /\ findings \subseteq {"warn", "error"}
    /\ ran \in 0..MaxStatements /\ unseen \in 0..MaxUnseen
    /\ IsMap(st) /\ \A t \in DOMAIN st : Collected(st[t])
    /\ DOMAIN st \subseteq {s.table : s \in Statement}
    /\ IsMap(pg) /\ \A k \in DOMAIN pg : Produced(pg[k])

Named(reg, kind) == {n \in DOMAIN reg : reg[n].kind = kind}

\* The values and the edges of a table are those of its registered constraints.
Agrees(cols, enum, refs, reg) ==
    /\ \A n \in Named(reg, "enum") : reg[n].col \in DOMAIN cols
    /\ \A c \in DOMAIN cols :
        DOMAIN enum[c] =
            (UNION {reg[n].values : n \in {n \in Named(reg, "enum") : reg[n].col = c}}) \ {Empty}
    /\ refs = {RefOf(reg[n]) : n \in Named(reg, "fk")}

\* Of the constraints that count, those of C are registered, by the names
\* PostgreSQL knows them by.
Has(reg, table, C) ==
    /\ \A c \in C : c.kind # "other" =>
        PgName(table, c) \in DOMAIN reg /\ reg[PgName(table, c)] = c
    /\ \A n \in DOMAIN reg : reg[n].kind # "other" =>
        reg[n] \in C /\ PgName(table, reg[n]) = n

Follows(t, table, C) == Agrees(t.cols, t.enum, t.refs, t.reg) /\ Has(t.reg, table, C)

\* What the collector keeps of the table k of production: t is the collected
\* table, p production's, next to the tables collected and the blind ones.
Followed(k, t, p, tables, dark) ==
    /\ k = <<t.schema, k[2]>>
    /\ t.cols = p.cols
    /\ \A n \in DOMAIN p.cons :
        /\ n = PgName(k[2], p.cons[n])
        /\ p.cons[n].kind = "fk" => p.cons[n].target \in tables
    /\ k[2] \notin dark => Follows(t, k[2], Range(p.cons)) /\ ~Twice(Range(p.cons))

\* The tables collected and production's are the same and followed, but for
\* those gone astray.
Matching(tables, live, stray, dark) ==
    /\ DOMAIN tables \ stray = {k[2] : k \in DOMAIN live} \ stray
    /\ \A k \in DOMAIN live : k[2] \notin stray =>
        Followed(k, tables[k[2]], live[k], DOMAIN tables \cup stray, dark)

Following == Quiet => Matching(st, pg, astray, blind)

-----------------------------------------------------------------------------
(* Folds over the elements of a statement.                                 *)

\* Of the numbers that are not in S there would be a least one.
LEMMA Induct ==
    ASSUME NEW S \in SUBSET Nat, 0 \in S, \A n \in S : n + 1 \in S
    PROVE  S = Nat
<1> DEFINE R == OpToRel(<, Nat)
           T == Nat \ S
<1> SUFFICES ASSUME T # {} PROVE FALSE
  OBVIOUS
<1>1. IsWellFoundedOn(R, Nat)
  BY NatLessThanWellFounded
<1>2. T \subseteq Nat
  OBVIOUS
<1> HIDE DEF R
<1>3. PICK n \in T : \A m \in T : ~ (<<m, n>> \in R)
  <2> HIDE DEF T
  <2> QED BY <1>1, <1>2, WFMin, Zenon
<1>4. n \in Nat /\ n # 0 /\ n - 1 \in Nat
  OBVIOUS
<1>5. <<n - 1, n>> \in R
  BY <1>4 DEF R, OpToRel
<1>6. n - 1 \in S
  BY <1>3, <1>4, <1>5
<1> QED BY <1>3, <1>4, <1>6

\* Inlined applies one constraint after the other.
LEMMA InlinedIs ==
    ASSUME NEW t, NEW table, NEW inline, Len(inline) \in Nat
    PROVE  \E after :
              /\ after[0] = t
              /\ \A i \in 1..Len(inline) : after[i] = AddInline(after[i - 1], table, inline[i])
              /\ Inlined(t, table, inline) = after[Len(inline)]
<1> DEFINE N == Len(inline)
           Upto(f, n) == /\ f[0] = t
                         /\ \A i \in 1..n : f[i] = AddInline(f[i - 1], table, inline[i])
           S == {n \in Nat : \E f : Upto(f, n)}
<1>1. S = Nat
  <2>1. 0 \in S
    <3>1. Upto([i \in 0..0 |-> t], 0)
      OBVIOUS
    <3> QED BY <3>1
  <2>2. ASSUME NEW n \in S PROVE n + 1 \in S
    <3>1. PICK f : Upto(f, n)
      BY <2>2
    <3> DEFINE last == AddInline(f[n], table, inline[n + 1])
               g == [i \in 0..(n + 1) |-> IF i = n + 1 THEN last ELSE f[i]]
    <3>2. g[0] = t
      BY <3>1
    <3>3. ASSUME NEW i \in 1..(n + 1) PROVE g[i] = AddInline(g[i - 1], table, inline[i])
      <4>1. i \in Nat /\ i - 1 \in 0..n /\ g[i - 1] = f[i - 1]
        BY <3>3
      <4>2. CASE i = n + 1
        <5>1. g[i] = last /\ i - 1 = n
          BY <4>2
        <5> HIDE DEF g
        <5> QED BY <4>1, <4>2, <5>1
      <4>3. CASE i # n + 1
        <5>1. i \in 1..n /\ g[i] = f[i]
          BY <3>3, <4>3
        <5> HIDE DEF g
        <5> QED BY <3>1, <4>1, <5>1
      <4> QED BY <4>2, <4>3
    <3>4. Upto(g, n + 1)
      <4> HIDE DEF g
      <4> QED BY <3>2, <3>3
    <3> HIDE DEF g, Upto
    <3>5. (\E h : Upto(h, n + 1)) /\ n + 1 \in Nat
      BY <3>4
    <3> QED BY <3>5
  <2> HIDE DEF S
  <2>3. S \in SUBSET Nat
    BY DEF S
  <2> QED BY <2>1, <2>2, <2>3, Induct
<1>2. PICK f : Upto(f, N)
  BY <1>1
<1> DEFINE after == CHOOSE h : h = [i \in 0..N |-> IF i = 0 THEN t
                                      ELSE AddInline(h[i - 1], table, inline[i])]
<1>3. after = [i \in 0..N |-> IF i = 0 THEN t ELSE AddInline(after[i - 1], table, inline[i])]
  <2> DEFINE h == [i \in 0..N |-> f[i]]
  <2>1. ASSUME NEW i \in 0..N
        PROVE  f[i] = IF i = 0 THEN t ELSE AddInline(h[i - 1], table, inline[i])
    <3>1. CASE i = 0
      BY <1>2, <3>1
    <3>2. CASE i # 0
      <4>1. i \in 1..N /\ i - 1 \in 0..N
        BY <2>1, <3>2
      <4>2. h[i - 1] = f[i - 1]
        BY <4>1
      <4> HIDE DEF h
      <4> QED BY <1>2, <3>2, <4>1, <4>2
    <3> QED BY <3>1, <3>2
  <2>2. h = [i \in 0..N |-> IF i = 0 THEN t ELSE AddInline(h[i - 1], table, inline[i])]
    BY <2>1
  <2> HIDE DEF h
  <2> QED BY <2>2
<1>4. Inlined(t, table, inline) = after[N]
  BY DEF Inlined
<1> HIDE DEF after
<1>5. after[0] = t
  BY <1>3
<1>6. ASSUME NEW i \in 1..N PROVE after[i] = AddInline(after[i - 1], table, inline[i])
  <2>1. i \in 0..N /\ i # 0
    BY <1>6
  <2> QED BY <1>3, <2>1
<1> QED BY <1>4, <1>5, <1>6

\* Build applies one element after the other.
LEMMA BuildIs ==
    ASSUME NEW s, Len(s.elements) \in Nat
    PROVE  \E after :
              /\ after[0] = Blank(s.schema)
              /\ \A i \in 1..Len(s.elements) :
                    after[i] = AddElement(after[i - 1], s.table, s.elements[i])
              /\ Build(s) = after[Len(s.elements)]
<1> DEFINE N == Len(s.elements)
           t == Blank(s.schema)
           Upto(f, n) == /\ f[0] = t
                         /\ \A i \in 1..n : f[i] = AddElement(f[i - 1], s.table, s.elements[i])
           S == {n \in Nat : \E f : Upto(f, n)}
<1>1. S = Nat
  <2>1. 0 \in S
    <3>1. Upto([i \in 0..0 |-> t], 0)
      OBVIOUS
    <3> QED BY <3>1
  <2>2. ASSUME NEW n \in S PROVE n + 1 \in S
    <3>1. PICK f : Upto(f, n)
      BY <2>2
    <3> DEFINE last == AddElement(f[n], s.table, s.elements[n + 1])
               g == [i \in 0..(n + 1) |-> IF i = n + 1 THEN last ELSE f[i]]
    <3>2. g[0] = t
      BY <3>1
    <3>3. ASSUME NEW i \in 1..(n + 1) PROVE g[i] = AddElement(g[i - 1], s.table, s.elements[i])
      <4>1. i \in Nat /\ i - 1 \in 0..n /\ g[i - 1] = f[i - 1]
        BY <3>3
      <4>2. CASE i = n + 1
        <5>1. g[i] = last /\ i - 1 = n
          BY <4>2
        <5> HIDE DEF g
        <5> QED BY <4>1, <4>2, <5>1
      <4>3. CASE i # n + 1
        <5>1. i \in 1..n /\ g[i] = f[i]
          BY <3>3, <4>3
        <5> HIDE DEF g
        <5> QED BY <3>1, <4>1, <5>1
      <4> QED BY <4>2, <4>3
    <3>4. Upto(g, n + 1)
      <4> HIDE DEF g
      <4> QED BY <3>2, <3>3
    <3> HIDE DEF g, Upto
    <3>5. (\E h : Upto(h, n + 1)) /\ n + 1 \in Nat
      BY <3>4
    <3> QED BY <3>5
  <2> HIDE DEF S
  <2>3. S \in SUBSET Nat
    BY DEF S
  <2> QED BY <2>1, <2>2, <2>3, Induct
<1>2. PICK f : Upto(f, N)
  BY <1>1
<1> DEFINE after == CHOOSE h : h = [i \in 0..N |-> IF i = 0 THEN t
                                      ELSE AddElement(h[i - 1], s.table, s.elements[i])]
<1>3. after = [i \in 0..N |-> IF i = 0 THEN t ELSE AddElement(after[i - 1], s.table, s.elements[i])]
  <2> DEFINE h == [i \in 0..N |-> f[i]]
  <2>1. ASSUME NEW i \in 0..N
        PROVE  f[i] = IF i = 0 THEN t ELSE AddElement(h[i - 1], s.table, s.elements[i])
    <3>1. CASE i = 0
      BY <1>2, <3>1
    <3>2. CASE i # 0
      <4>1. i \in 1..N /\ i - 1 \in 0..N
        BY <2>1, <3>2
      <4>2. h[i - 1] = f[i - 1]
        BY <4>1
      <4> HIDE DEF h
      <4> QED BY <1>2, <3>2, <4>1, <4>2
    <3> QED BY <3>1, <3>2
  <2>2. h = [i \in 0..N |-> IF i = 0 THEN t ELSE AddElement(h[i - 1], s.table, s.elements[i])]
    BY <2>1
  <2> HIDE DEF h
  <2> QED BY <2>2
<1>4. Build(s) = after[N]
  BY DEF Build
<1> HIDE DEF after
<1>5. after[0] = t
  BY <1>3
<1>6. ASSUME NEW i \in 1..N PROVE after[i] = AddElement(after[i - 1], s.table, s.elements[i])
  <2>1. i \in 0..N /\ i # 0
    BY <1>6
  <2> QED BY <1>3, <2>1
<1> QED BY <1>4, <1>5, <1>6

\* ALTER TABLE runs one command after the other.
LEMMA AlteringIs ==
    ASSUME NEW t, NEW s, Len(s.cmds) \in Nat
    PROVE  LET after == Altering(t, s)
           IN  /\ after[0] = t
               /\ \A i \in 1..Len(s.cmds) : after[i] = AlterBy(after[i - 1], s.table, s.cmds[i])
<1> DEFINE N == Len(s.cmds)
           Upto(f, n) == /\ f[0] = t
                         /\ \A i \in 1..n : f[i] = AlterBy(f[i - 1], s.table, s.cmds[i])
           S == {n \in Nat : \E f : Upto(f, n)}
<1>1. S = Nat
  <2>1. 0 \in S
    <3>1. Upto([i \in 0..0 |-> t], 0)
      OBVIOUS
    <3> QED BY <3>1
  <2>2. ASSUME NEW n \in S PROVE n + 1 \in S
    <3>1. PICK f : Upto(f, n)
      BY <2>2
    <3> DEFINE last == AlterBy(f[n], s.table, s.cmds[n + 1])
               g == [i \in 0..(n + 1) |-> IF i = n + 1 THEN last ELSE f[i]]
    <3>2. g[0] = t
      BY <3>1
    <3>3. ASSUME NEW i \in 1..(n + 1) PROVE g[i] = AlterBy(g[i - 1], s.table, s.cmds[i])
      <4>1. i \in Nat /\ i - 1 \in 0..n /\ g[i - 1] = f[i - 1]
        BY <3>3
      <4>2. CASE i = n + 1
        <5>1. g[i] = last /\ i - 1 = n
          BY <4>2
        <5> HIDE DEF g
        <5> QED BY <4>1, <4>2, <5>1
      <4>3. CASE i # n + 1
        <5>1. i \in 1..n /\ g[i] = f[i]
          BY <3>3, <4>3
        <5> HIDE DEF g
        <5> QED BY <3>1, <4>1, <5>1
      <4> QED BY <4>2, <4>3
    <3>4. Upto(g, n + 1)
      <4> HIDE DEF g
      <4> QED BY <3>2, <3>3
    <3> HIDE DEF g, Upto
    <3>5. (\E h : Upto(h, n + 1)) /\ n + 1 \in Nat
      BY <3>4
    <3> QED BY <3>5
  <2> HIDE DEF S
  <2>3. S \in SUBSET Nat
    BY DEF S
  <2> QED BY <2>1, <2>2, <2>3, Induct
<1>2. PICK f : Upto(f, N)
  BY <1>1
<1> DEFINE after == CHOOSE h : h = [i \in 0..N |-> IF i = 0 THEN t
                                      ELSE AlterBy(h[i - 1], s.table, s.cmds[i])]
<1>3. after = [i \in 0..N |-> IF i = 0 THEN t ELSE AlterBy(after[i - 1], s.table, s.cmds[i])]
  <2> DEFINE h == [i \in 0..N |-> f[i]]
  <2>1. ASSUME NEW i \in 0..N
        PROVE  f[i] = IF i = 0 THEN t ELSE AlterBy(h[i - 1], s.table, s.cmds[i])
    <3>1. CASE i = 0
      BY <1>2, <3>1
    <3>2. CASE i # 0
      <4>1. i \in 1..N /\ i - 1 \in 0..N
        BY <2>1, <3>2
      <4>2. h[i - 1] = f[i - 1]
        BY <4>1
      <4> HIDE DEF h
      <4> QED BY <1>2, <3>2, <4>1, <4>2
    <3> QED BY <3>1, <3>2
  <2>2. h = [i \in 0..N |-> IF i = 0 THEN t ELSE AlterBy(h[i - 1], s.table, s.cmds[i])]
    BY <2>1
  <2> HIDE DEF h
  <2> QED BY <2>2
<1>4. Altering(t, s) = after
  BY DEF Altering
<1> HIDE DEF after
<1>5. after[0] = t
  BY <1>3
<1>6. ASSUME NEW i \in 1..N PROVE after[i] = AlterBy(after[i - 1], s.table, s.cmds[i])
  <2>1. i \in 0..N /\ i # 0
    BY <1>6
  <2> QED BY <1>3, <2>1
<1> QED BY <1>4, <1>5, <1>6

\* A pass of PostgreSQL runs its commands one after the other.
RunOf(p, table, c, ops) == IF c.op \in ops THEN PgAlterBy(p, table, c) ELSE p

LEMMA PgAlteringIs ==
    ASSUME NEW t, NEW s, NEW ops, Len(s.cmds) \in Nat
    PROVE  LET after == PgAltering(t, s, ops)
           IN  /\ after[0] = t
               /\ \A i \in 1..Len(s.cmds) : after[i] = RunOf(after[i - 1], s.table, s.cmds[i], ops)
<1> DEFINE N == Len(s.cmds)
           Upto(f, n) == /\ f[0] = t
                         /\ \A i \in 1..n : f[i] = RunOf(f[i - 1], s.table, s.cmds[i], ops)
           S == {n \in Nat : \E f : Upto(f, n)}
<1>1. S = Nat
  <2>1. 0 \in S
    <3>1. Upto([i \in 0..0 |-> t], 0)
      OBVIOUS
    <3> QED BY <3>1
  <2>2. ASSUME NEW n \in S PROVE n + 1 \in S
    <3>1. PICK f : Upto(f, n)
      BY <2>2
    <3> DEFINE last == RunOf(f[n], s.table, s.cmds[n + 1], ops)
               g == [i \in 0..(n + 1) |-> IF i = n + 1 THEN last ELSE f[i]]
    <3>2. g[0] = t
      BY <3>1
    <3>3. ASSUME NEW i \in 1..(n + 1) PROVE g[i] = RunOf(g[i - 1], s.table, s.cmds[i], ops)
      <4>1. i \in Nat /\ i - 1 \in 0..n /\ g[i - 1] = f[i - 1]
        BY <3>3
      <4>2. CASE i = n + 1
        <5>1. g[i] = last /\ i - 1 = n
          BY <4>2
        <5> HIDE DEF g
        <5> QED BY <4>1, <4>2, <5>1
      <4>3. CASE i # n + 1
        <5>1. i \in 1..n /\ g[i] = f[i]
          BY <3>3, <4>3
        <5> HIDE DEF g
        <5> QED BY <3>1, <4>1, <5>1
      <4> QED BY <4>2, <4>3
    <3>4. Upto(g, n + 1)
      <4> HIDE DEF g
      <4> QED BY <3>2, <3>3
    <3> HIDE DEF g, Upto
    <3>5. (\E h : Upto(h, n + 1)) /\ n + 1 \in Nat
      BY <3>4
    <3> QED BY <3>5
  <2> HIDE DEF S
  <2>3. S \in SUBSET Nat
    BY DEF S
  <2> QED BY <2>1, <2>2, <2>3, Induct
<1>2. PICK f : Upto(f, N)
  BY <1>1
<1> DEFINE after == CHOOSE h : h = [i \in 0..N |-> IF i = 0 THEN t
                                      ELSE RunOf(h[i - 1], s.table, s.cmds[i], ops)]
<1>3. after = [i \in 0..N |-> IF i = 0 THEN t ELSE RunOf(after[i - 1], s.table, s.cmds[i], ops)]
  <2> DEFINE h == [i \in 0..N |-> f[i]]
  <2>1. ASSUME NEW i \in 0..N
        PROVE  f[i] = IF i = 0 THEN t ELSE RunOf(h[i - 1], s.table, s.cmds[i], ops)
    <3>1. CASE i = 0
      BY <1>2, <3>1
    <3>2. CASE i # 0
      <4>1. i \in 1..N /\ i - 1 \in 0..N
        BY <2>1, <3>2
      <4>2. h[i - 1] = f[i - 1]
        BY <4>1
      <4> HIDE DEF h
      <4> QED BY <1>2, <3>2, <4>1, <4>2
    <3> QED BY <3>1, <3>2
  <2>2. h = [i \in 0..N |-> IF i = 0 THEN t ELSE RunOf(h[i - 1], s.table, s.cmds[i], ops)]
    BY <2>1
  <2> HIDE DEF h
  <2> QED BY <2>2
<1>4. PgAltering(t, s, ops) = after
  BY DEF PgAltering, RunOf
<1> HIDE DEF after
<1>5. after[0] = t
  BY <1>3
<1>6. ASSUME NEW i \in 1..N PROVE after[i] = RunOf(after[i - 1], s.table, s.cmds[i], ops)
  <2>1. i \in 0..N /\ i # 0
    BY <1>6
  <2> QED BY <1>3, <2>1
<1> QED BY <1>4, <1>5, <1>6

-----------------------------------------------------------------------------
(* What a collected table is, and stays.                                   *)

LEMMA PutIs ==
    ASSUME NEW f, NEW x, NEW v
    PROVE  /\ IsMap(Put(f, x, v)) /\ DOMAIN Put(f, x, v) = DOMAIN f \cup {x}
           /\ Put(f, x, v)[x] = v
           /\ \A y \in DOMAIN f : y # x => Put(f, x, v)[y] = f[y]
BY DEF Put, IsMap

LEMMA OverIs ==
    ASSUME NEW f, NEW g
    PROVE  /\ IsMap(Over(f, g)) /\ DOMAIN Over(f, g) = DOMAIN f \cup DOMAIN g
           /\ \A y \in DOMAIN f : Over(f, g)[y] = f[y]
           /\ \A y \in DOMAIN g : y \notin DOMAIN f => Over(f, g)[y] = g[y]
BY DEF Over, IsMap

LEMMA RestrictIs ==
    ASSUME NEW f, NEW S
    PROVE  IsMap(Restrict(f, S)) /\ DOMAIN Restrict(f, S) = S /\ \A y \in S : Restrict(f, S)[y] = f[y]
BY DEF Restrict, IsMap

Tab(schema, cols, enum, refs, reg) ==
    [schema |-> schema, cols |-> cols, enum |-> enum, refs |-> refs, reg |-> reg]

LEMMA RegisterIs ==
    ASSUME NEW t, Collected(t), NEW name, NEW con
    PROVE  Register(t, name, con) = Tab(t.schema, t.cols, t.enum, t.refs, Put(t.reg, name, con))
BY DEF Collected, Register, Tab

LEMMA ReferIs ==
    ASSUME NEW t, Collected(t), NEW con
    PROVE  Refer(t, con) = Tab(t.schema, t.cols, t.enum, t.refs \cup {RefOf(con)}, t.reg)
BY DEF Collected, Refer, Tab

LEMMA AttachIs ==
    ASSUME NEW t, Collected(t), NEW con
    PROVE  Attach(t, con) = Tab(t.schema, t.cols,
                [t.enum EXCEPT ![con.col] = Listed(@, con.values \ {Empty})], t.refs, t.reg)
BY DEF Collected, Attach, Tab

LEMMA TabIs ==
    ASSUME NEW schema, NEW cols, NEW enum, NEW refs, NEW reg,
           IsMap(cols), IsMap(enum), IsMap(reg), DOMAIN cols = DOMAIN enum,
           \A c \in DOMAIN enum : IsABag(enum[c]), \A n \in DOMAIN reg : IsConstraint(reg[n])
    PROVE  Collected(Tab(schema, cols, enum, refs, reg))
BY DEF Collected, Tab

LEMMA TabFields ==
    ASSUME NEW schema, NEW cols, NEW enum, NEW refs, NEW reg, NEW t,
           t = Tab(schema, cols, enum, refs, reg)
    PROVE  /\ t.schema = schema /\ t.cols = cols /\ t.enum = enum /\ t.refs = refs
           /\ t.reg = reg
BY DEF Tab

LEMMA CollectedIs ==
    ASSUME NEW t, Collected(t)
    PROVE  /\ IsMap(t.cols) /\ IsMap(t.enum) /\ IsMap(t.reg) /\ DOMAIN t.cols = DOMAIN t.enum
           /\ \A c \in DOMAIN t.enum : IsABag(t.enum[c])
           /\ \A n \in DOMAIN t.reg : IsConstraint(t.reg[n])
BY DEF Collected

LEMMA Bags ==
    /\ IsABag(EmptyBag) /\ \A S : IsABag(SetToBag(S)) /\ DOMAIN SetToBag(S) = S
    /\ DOMAIN EmptyBag = {}
    /\ \A B : BagToSet(B) = DOMAIN B
    /\ \A B, S : IsABag(B) => IsABag(Listed(B, S)) /\ DOMAIN Listed(B, S) = DOMAIN B \cup S
<1>1. ASSUME NEW B, NEW S, IsABag(B) PROVE IsABag(Listed(B, S))
  <2>1. \A v \in DOMAIN B : B[v] \in Nat /\ B[v] > 0
    BY <1>1 DEF IsABag
  <2>2. ASSUME NEW v \in DOMAIN B \cup S
        PROVE  (IF v \in DOMAIN B THEN B[v] ELSE 0) + (IF v \in S THEN 1 ELSE 0)
                  \in {n \in Nat : n > 0}
    BY <2>1, <2>2
  <2> QED BY <2>2 DEF IsABag, Listed
<1>2. \A B, S : DOMAIN Listed(B, S) = DOMAIN B \cup S
  BY DEF Listed
<1>3. \A S : IsABag(SetToBag(S)) /\ DOMAIN SetToBag(S) = S
  BY DEF IsABag, SetToBag
<1>4. EmptyBag = SetToBag({})
  BY DEF EmptyBag
<1>5. \A B : BagToSet(B) = DOMAIN B
  BY DEF BagToSet
<1> QED BY <1>1, <1>2, <1>3, <1>4, <1>5

LEMMA BlankCollected == ASSUME NEW schema PROVE Collected(Blank(schema))
<1>1. IsMap(Nothing) /\ DOMAIN Nothing = {}
  BY DEF IsMap, Nothing
<1>2. Blank(schema) = Tab(schema, Nothing, Nothing, {}, Nothing)
  BY DEF Blank, Tab
<1> QED BY <1>1, <1>2, TabIs

\* Registering, referring and attaching keep the columns and the shape.
LEMMA StepsCollected ==
    ASSUME NEW t, Collected(t), NEW con, IsConstraint(con)
    PROVE  /\ \A name : /\ Collected(Register(t, name, con))
                        /\ Register(t, name, con).cols = t.cols
                        /\ Register(t, name, con).schema = t.schema
           /\ Collected(Refer(t, con)) /\ Refer(t, con).cols = t.cols
           /\ Refer(t, con).schema = t.schema
           /\ Enumerable(t, con) => /\ Collected(Attach(t, con)) /\ Attach(t, con).cols = t.cols
                                    /\ Attach(t, con).schema = t.schema
<1>1. ASSUME NEW name
      PROVE  /\ Collected(Register(t, name, con)) /\ Register(t, name, con).cols = t.cols
             /\ Register(t, name, con).schema = t.schema
  <2> DEFINE reg == Put(t.reg, name, con)
  <2>1. /\ IsMap(reg) /\ DOMAIN reg = DOMAIN t.reg \cup {name} /\ reg[name] = con
        /\ \A n \in DOMAIN t.reg : n # name => reg[n] = t.reg[n]
    BY DEF Put, IsMap
  <2>2. Register(t, name, con) = Tab(t.schema, t.cols, t.enum, t.refs, reg)
    BY RegisterIs
  <2> HIDE DEF reg
  <2>3. \A n \in DOMAIN reg : IsConstraint(reg[n])
    BY <2>1, CollectedIs
  <2>4. Collected(Tab(t.schema, t.cols, t.enum, t.refs, reg))
    BY <2>1, <2>3, CollectedIs, TabIs
  <2> QED BY <2>2, <2>4, TabFields
<1>2. /\ Collected(Refer(t, con)) /\ Refer(t, con).cols = t.cols
      /\ Refer(t, con).schema = t.schema
  <2> DEFINE refs == t.refs \cup {RefOf(con)}
  <2>1. Refer(t, con) = Tab(t.schema, t.cols, t.enum, refs, t.reg)
    BY ReferIs
  <2> HIDE DEF refs
  <2>2. Collected(Tab(t.schema, t.cols, t.enum, refs, t.reg))
    BY CollectedIs, TabIs
  <2> QED BY <2>1, <2>2, TabFields
<1>3. ASSUME Enumerable(t, con)
      PROVE  /\ Collected(Attach(t, con)) /\ Attach(t, con).cols = t.cols
             /\ Attach(t, con).schema = t.schema
  <2> DEFINE enum == [t.enum EXCEPT ![con.col] = Listed(@, con.values \ {Empty})]
  <2>1. /\ IsMap(enum) /\ DOMAIN enum = DOMAIN t.enum
        /\ \A c \in DOMAIN enum : enum[c] = t.enum[c] \/ enum[c] = Listed(t.enum[c], con.values \ {Empty})
    BY DEF IsMap
  <2>2. Attach(t, con) = Tab(t.schema, t.cols, enum, t.refs, t.reg)
    BY AttachIs
  <2> HIDE DEF enum
  <2>3. \A c \in DOMAIN t.enum : IsABag(t.enum[c])
    BY CollectedIs
  <2>4. \A c \in DOMAIN t.enum : IsABag(Listed(t.enum[c], con.values \ {Empty}))
    BY <2>3, Bags
  <2>5. \A c \in DOMAIN enum : IsABag(enum[c])
    BY <2>1, <2>3, <2>4
  <2>6. Collected(Tab(t.schema, t.cols, enum, t.refs, t.reg))
    BY <2>1, <2>5, CollectedIs, TabIs
  <2> QED BY <2>2, <2>6, TabFields
<1> QED BY <1>1, <1>2, <1>3

LEMMA AddConstraintCollected ==
    ASSUME NEW t, Collected(t), NEW con, IsConstraint(con)
    PROVE  /\ Collected(AddConstraint(t, con)) /\ AddConstraint(t, con).cols = t.cols
           /\ AddConstraint(t, con).schema = t.schema
<1> DEFINE u == Register(t, con.name, con)
<1>1. Collected(u) /\ u.cols = t.cols /\ u.schema = t.schema
  BY StepsCollected
<1>2. IsConstraint([con EXCEPT !.kind = "other"])
  BY DEF IsConstraint
<1> HIDE DEF u
<1>3. CASE Enumerable(t, con)
  <2>1. AddConstraint(t, con) =
          CASE Enumerable(t, con) -> Attach(u, con)
            [] con.kind = "fk" -> Refer(u, con)
            [] OTHER -> Register(t, con.name, [con EXCEPT !.kind = "other"])
    BY DEF AddConstraint, u
  <2>3. con.kind # "fk"
    BY <1>3 DEF Enumerable
  <2>4. AddConstraint(t, con) = Attach(u, con)
    BY <1>3, <2>1, <2>3
  <2>2. Enumerable(u, con)
    BY <1>1, <1>3 DEF Enumerable
  <2> QED BY <1>1, <2>2, <2>4, StepsCollected
<1>4. CASE ~Enumerable(t, con) /\ con.kind = "fk"
  <2>1. AddConstraint(t, con) = Refer(u, con)
    BY <1>4 DEF AddConstraint, u
  <2> QED BY <1>1, <2>1, StepsCollected
<1>5. CASE ~Enumerable(t, con) /\ con.kind # "fk"
  <2>1. AddConstraint(t, con) = Register(t, con.name, [con EXCEPT !.kind = "other"])
    BY <1>5 DEF AddConstraint
  <2> QED BY <1>2, <2>1, StepsCollected
<1> QED BY <1>3, <1>4, <1>5

LEMMA AddInlineCollected ==
    ASSUME NEW t, Collected(t), NEW con, IsConstraint(con), NEW table
    PROVE  /\ Collected(AddInline(t, table, con)) /\ AddInline(t, table, con).cols = t.cols
           /\ AddInline(t, table, con).schema = t.schema
<1>1. CASE con.name # Anonymous
  <2> DEFINE c == Columnless(con)
  <2>1. IsConstraint(c)
    BY DEF Columnless, IsConstraint
  <2>2. AddInline(t, table, con) = AddConstraint(t, c)
    BY <1>1 DEF AddInline
  <2> HIDE DEF c
  <2> QED BY <2>1, <2>2, AddConstraintCollected
<1>2. CASE con.name = Anonymous /\ Enumerable(t, con)
  <2>1. AddInline(t, table, con) = Attach(t, con)
    <3>1. con.kind # "fk"
      BY <1>2 DEF Enumerable
    <3> QED BY <1>2, <3>1 DEF AddInline
  <2> QED BY <1>2, <2>1, StepsCollected
<1>3. CASE con.name = Anonymous /\ ~Enumerable(t, con) /\ con.kind = "fk"
  <2> DEFINE u == Register(t, CutName(table, con), con)
  <2>1. AddInline(t, table, con) = Refer(u, con)
    BY <1>3 DEF AddInline
  <2>2. Collected(u) /\ u.cols = t.cols /\ u.schema = t.schema
    BY StepsCollected
  <2> HIDE DEF u
  <2> QED BY <2>1, <2>2, StepsCollected
<1>4. CASE con.name = Anonymous /\ ~Enumerable(t, con) /\ con.kind # "fk"
  <2>1. AddInline(t, table, con) = t
    BY <1>4 DEF AddInline
  <2> QED BY <2>1
<1> QED BY <1>1, <1>2, <1>3, <1>4

\* The elements of a sequence are its range.
LEMMA RangeIs ==
    ASSUME NEW q, q \in Seq(Range(q))
    PROVE  /\ Len(q) \in Nat /\ DOMAIN q = 1..Len(q)
           /\ \A i \in 1..Len(q) : q[i] \in Range(q)
           /\ \A x \in Range(q) : \E i \in 1..Len(q) : x = q[i]
<1>1. Len(q) \in Nat /\ DOMAIN q = 1..Len(q)
  OBVIOUS
<1> QED BY <1>1 DEF Range

LEMMA InlinedCollected ==
    ASSUME NEW t, Collected(t), NEW e, IsColumn(e), NEW table
    PROVE  LET u == Inlined(t, table, e.inline)
           IN  Collected(u) /\ u.cols = t.cols /\ u.schema = t.schema
<1>1. /\ Len(e.inline) \in Nat
      /\ \A i \in 1..Len(e.inline) : IsConstraint(e.inline[i])
  BY RangeIs DEF IsColumn
<1>2. PICK after :
         /\ after[0] = t
         /\ \A i \in 1..Len(e.inline) : after[i] = AddInline(after[i - 1], table, e.inline[i])
         /\ Inlined(t, table, e.inline) = after[Len(e.inline)]
  BY <1>1, InlinedIs
<1> DEFINE Good(u) == Collected(u) /\ u.cols = t.cols /\ u.schema = t.schema
           S == {n \in Nat : n <= Len(e.inline) => Good(after[n])}
<1>3. 0 \in S
  BY <1>2
<1>4. ASSUME NEW n \in S PROVE n + 1 \in S
  <2> SUFFICES ASSUME n + 1 <= Len(e.inline) PROVE Good(after[n + 1])
    OBVIOUS
  <2>1. n \in Nat /\ n + 1 \in 1..Len(e.inline) /\ n + 1 - 1 = n
    BY <1>1
  <2>2. Good(after[n])
    BY <1>1, <1>4, <2>1
  <2>3. after[n + 1] = AddInline(after[n], table, e.inline[n + 1])
    BY <1>2, <2>1
  <2>4. IsConstraint(e.inline[n + 1])
    BY <1>1, <2>1
  <2> QED BY <2>2, <2>3, <2>4, AddInlineCollected
<1>5. S = Nat
  <2> HIDE DEF S
  <2>1. S \in SUBSET Nat
    BY DEF S
  <2> QED BY <1>3, <1>4, <2>1, Induct
<1>6. Good(after[Len(e.inline)])
  BY <1>1, <1>5
<1> QED BY <1>2, <1>6

\* A new column has no values yet.
LEMMA AddColumnIs ==
    ASSUME NEW t, Collected(t), NEW e, IsColumn(e), NEW table
    PROVE  LET u == Inlined(t, table, e.inline)
           IN  AddColumn(t, table, e) =
                  Tab(u.schema, Put(u.cols, e.name, e.type), Put(u.enum, e.name, EmptyBag),
                      u.refs, u.reg)
<1> DEFINE u == Inlined(t, table, e.inline)
<1>1. Collected(u)
  BY InlinedCollected
<1>2. AddColumn(t, table, e) = [u EXCEPT !.cols = Put(@, e.name, e.type),
                                         !.enum = Put(@, e.name, EmptyBag)]
  BY DEF AddColumn
<1> HIDE DEF u
<1>3. AddColumn(t, table, e) = Tab(u.schema, Put(u.cols, e.name, e.type),
                                   Put(u.enum, e.name, EmptyBag), u.refs, u.reg)
  BY <1>1, <1>2 DEF Collected, Tab
<1> QED BY <1>3 DEF u

LEMMA AddColumnCollected ==
    ASSUME NEW t, Collected(t), NEW e, IsColumn(e), NEW table
    PROVE  /\ Collected(AddColumn(t, table, e))
           /\ AddColumn(t, table, e).cols = Put(t.cols, e.name, e.type)
           /\ AddColumn(t, table, e).schema = t.schema
<1> DEFINE u == Inlined(t, table, e.inline)
<1>1. Collected(u) /\ u.cols = t.cols /\ u.schema = t.schema
  BY InlinedCollected
<1>2. AddColumn(t, table, e) = Tab(u.schema, Put(u.cols, e.name, e.type),
                                   Put(u.enum, e.name, EmptyBag), u.refs, u.reg)
  BY AddColumnIs
<1> DEFINE cols == Put(u.cols, e.name, e.type)
           enum == Put(u.enum, e.name, EmptyBag)
<1>3. IsMap(cols) /\ DOMAIN cols = DOMAIN u.cols \cup {e.name}
  BY DEF Put, IsMap
<1>4. /\ IsMap(enum) /\ DOMAIN enum = DOMAIN u.enum \cup {e.name} /\ enum[e.name] = EmptyBag
      /\ \A c \in DOMAIN u.enum : c # e.name => enum[c] = u.enum[c]
  BY DEF Put, IsMap
<1>5. cols = Put(t.cols, e.name, e.type)
  BY <1>1
<1> HIDE DEF u, cols, enum
<1>6. \A c \in DOMAIN enum : IsABag(enum[c])
  BY <1>1, <1>4, CollectedIs, Bags
<1>7. Collected(Tab(u.schema, cols, enum, u.refs, u.reg))
  BY <1>1, <1>3, <1>4, <1>6, CollectedIs, TabIs
<1>8. AddColumn(t, table, e) = Tab(u.schema, cols, enum, u.refs, u.reg)
  BY <1>2 DEF cols, enum
<1> QED BY <1>1, <1>5, <1>7, <1>8, TabFields

LEMMA AddElementCollected ==
    ASSUME NEW t, Collected(t), NEW table, NEW e,
           \/ e.el = "column" /\ IsColumn(e)
           \/ e.el = "constraint" /\ IsConstraint(e.con)
    PROVE  LET u == AddElement(t, table, e)
           IN  /\ Collected(u) /\ u.schema = t.schema
               /\ u.cols = IF e.el = "column" THEN Put(t.cols, e.name, e.type) ELSE t.cols
<1>3. CASE e.el = "column" /\ IsColumn(e)
  <2>1. AddElement(t, table, e) = AddColumn(t, table, e)
    BY <1>3 DEF AddElement
  <2> QED BY <1>3, <2>1, AddColumnCollected
<1>4. CASE e.el = "constraint" /\ IsConstraint(e.con)
  <2>1. AddElement(t, table, e) = AddConstraint(t, e.con)
    BY <1>4 DEF AddElement
  <2> QED BY <1>4, <2>1, AddConstraintCollected
<1> QED BY <1>3, <1>4

\* CREATE TABLE: the columns and the types are the ones PostgreSQL gives it.
LEMMA BuildCollected ==
    ASSUME NEW s, IsTable(s.elements)
    PROVE  /\ Collected(Build(s)) /\ Build(s).schema = s.schema
           /\ Build(s).cols = PgTable(s).cols
<1> DEFINE q == s.elements
<1>1. /\ Len(q) \in Nat /\ DOMAIN q = 1..Len(q)
      /\ \A i \in 1..Len(q) : q[i] \in Range(q)
      /\ \A x \in Range(q) : \E i \in 1..Len(q) : x = q[i]
  BY RangeIs DEF IsTable
<1>2. PICK after :
         /\ after[0] = Blank(s.schema)
         /\ \A i \in 1..Len(q) : after[i] = AddElement(after[i - 1], s.table, q[i])
         /\ Build(s) = after[Len(q)]
  BY <1>1, BuildIs
<1>3. \A i, j \in 1..Len(q) : q[i].el = "column" /\ q[j].el = "column" /\ q[i].name = q[j].name => i = j
  BY <1>1 DEF IsTable
<1>0. \A i \in 1..Len(q) : \/ q[i].el = "column" /\ IsColumn(q[i])
                           \/ q[i].el = "constraint" /\ IsConstraint(q[i].con)
  <2>1. \A e \in Range(q) : \/ e.el = "column" /\ IsColumn(e)
                            \/ e.el = "constraint" /\ IsConstraint(e.con)
    BY DEF IsTable
  <2>2. ASSUME NEW i \in 1..Len(q)
        PROVE  \/ q[i].el = "column" /\ IsColumn(q[i])
               \/ q[i].el = "constraint" /\ IsConstraint(q[i].con)
    <3> HIDE DEF q
    <3>1. q[i] \in Range(q)
      BY <1>1
    <3> QED BY <2>1, <3>1
  <2> HIDE DEF q
  <2> QED BY <2>2, Zenon
<1> HIDE DEF q
<1> DEFINE Good(u, n) ==
             /\ Collected(u) /\ u.schema = s.schema
             /\ \A x : x \in DOMAIN u.cols <=> \E i \in 1..n : q[i].el = "column" /\ q[i].name = x
             /\ \A i \in 1..n : q[i].el = "column" => u.cols[q[i].name] = q[i].type
           S == {n \in Nat : n <= Len(q) => Good(after[n], n)}
<1>4. 0 \in S
  <2>1. Collected(Blank(s.schema))
    BY BlankCollected
  <2>2. Blank(s.schema).schema = s.schema /\ DOMAIN Blank(s.schema).cols = {}
    BY DEF Blank, Nothing
  <2>3. Good(after[0], 0)
    BY <1>2, <2>1, <2>2
  <2> QED BY <2>3
<1>5. ASSUME NEW n \in S PROVE n + 1 \in S
  <2>0. n \in Nat /\ n + 1 \in Nat
    BY <1>5
  <2> SUFFICES ASSUME n + 1 <= Len(q) PROVE Good(after[n + 1], n + 1)
    <3> HIDE DEF Good
    <3> QED BY <2>0
  <2>1. n \in Nat /\ n + 1 \in 1..Len(q) /\ n + 1 - 1 = n /\ n <= Len(q)
    BY <1>1
  <2> DEFINE t == after[n]
             u == after[n + 1]
             e == q[n + 1]
  <2>2. Good(t, n)
    BY <1>5, <2>1
  <2>3. u = AddElement(t, s.table, e)
    BY <1>2, <2>1
  <2> HIDE DEF t, u
  <2>4. /\ Collected(u) /\ u.schema = t.schema
        /\ u.cols = IF e.el = "column" THEN Put(t.cols, e.name, e.type) ELSE t.cols
    BY <1>0, <2>1, <2>2, <2>3, AddElementCollected
  <2> HIDE DEF e
  <2>5. \A i \in 1..(n + 1) : i \in 1..n \/ (i = n + 1 /\ q[i] = e)
    BY <2>1 DEF e
  <2>6. 1..n \subseteq 1..(n + 1) /\ n + 1 \in 1..(n + 1) /\ q[n + 1] = e
    BY <2>1 DEF e
  <2>7. CASE e.el # "column"
    <3>1. u.cols = t.cols
      BY <2>4, <2>7
    <3>2. \A i \in 1..(n + 1) : q[i].el = "column" => u.cols[q[i].name] = q[i].type
      BY <2>2, <2>5, <2>7, <3>1
    <3>3. \A x : x \in DOMAIN u.cols <=> \E i \in 1..(n + 1) : q[i].el = "column" /\ q[i].name = x
      BY <2>2, <2>5, <2>6, <2>7, <3>1
    <3>4. Collected(u) /\ u.schema = s.schema
      BY <2>2, <2>4
    <3> QED BY <3>2, <3>3, <3>4 DEF u
  <2>8. CASE e.el = "column"
    <3>1. u.cols = Put(t.cols, e.name, e.type)
      BY <2>4, <2>8
    <3>2. DOMAIN u.cols = DOMAIN t.cols \cup {e.name}
      BY <3>1 DEF Put
    <3>3. u.cols[e.name] = e.type /\ \A y \in DOMAIN t.cols : y # e.name => u.cols[y] = t.cols[y]
      BY <3>1 DEF Put
    <3>4. ASSUME NEW i \in 1..n, q[i].el = "column"
          PROVE  q[i].name \in DOMAIN t.cols /\ q[i].name # e.name
      <4>1. i \in 1..Len(q) /\ i # n + 1
        BY <2>1
      <4> QED BY <1>3, <2>1, <2>2, <2>6, <2>8, <3>4, <4>1
    <3>5. \A i \in 1..(n + 1) : q[i].el = "column" => u.cols[q[i].name] = q[i].type
      BY <2>2, <2>5, <3>3, <3>4
    <3>6. \A x : x \in DOMAIN u.cols <=> \E i \in 1..(n + 1) : q[i].el = "column" /\ q[i].name = x
      BY <2>2, <2>5, <2>6, <2>8, <3>2
    <3>7. Collected(u) /\ u.schema = s.schema
      BY <2>2, <2>4
    <3> QED BY <3>5, <3>6, <3>7 DEF u
  <2> QED BY <2>7, <2>8
<1>6. S = Nat
  <2> HIDE DEF S
  <2>1. S \in SUBSET Nat
    BY DEF S
  <2> QED BY <1>4, <1>5, <2>1, Induct
<1>7. Good(Build(s), Len(q))
  <2>1. \A n \in Nat : n <= Len(q) => Good(after[n], n)
    <3> HIDE DEF Good
    <3> QED BY <1>6
  <2>2. Len(q) \in Nat /\ Len(q) <= Len(q)
    BY <1>1
  <2> HIDE DEF Good, S
  <2> QED BY <1>2, <2>1, <2>2
<1> DEFINE cols == Build(s).cols
           columns == Columns(q)
           pgcols == PgTable(s).cols
<1>8. pgcols = [n \in {c.name : c \in columns} |-> (CHOOSE c \in columns : c.name = n).type]
  BY DEF PgTable, q
<1>9. IsMap(cols)
  BY <1>7, CollectedIs
<1> HIDE DEF pgcols, S
<1>10. \A c : c \in columns <=> \E i \in 1..Len(q) : q[i].el = "column" /\ c = q[i]
  BY <1>1 DEF Columns
<1> HIDE DEF columns
<1>11. DOMAIN cols = {c.name : c \in columns}
  BY <1>7, <1>10
<1>12. ASSUME NEW n \in {c.name : c \in columns}
       PROVE  cols[n] = (CHOOSE c \in columns : c.name = n).type
  <2> DEFINE d == CHOOSE c \in columns : c.name = n
  <2>1. d \in columns /\ d.name = n
    BY <1>12
  <2> HIDE DEF d
  <2>2. PICK i \in 1..Len(q) : q[i].el = "column" /\ d = q[i]
    BY <1>10, <2>1
  <2>3. cols[n] = d.type
    BY <1>7, <2>1, <2>2
  <2> QED BY <2>3 DEF d
<1> HIDE DEF cols
<1>13. cols = pgcols
  BY <1>8, <1>9, <1>11, <1>12 DEF IsMap
<1> QED BY <1>7, <1>13 DEF cols, pgcols

LEMMA DropConstraintCollected ==
    ASSUME NEW t, Collected(t), NEW name
    PROVE  /\ Collected(DropConstraint(t, name)) /\ DropConstraint(t, name).cols = t.cols
           /\ DropConstraint(t, name).schema = t.schema
<1>1. CASE name \notin DOMAIN t.reg
  BY <1>1 DEF DropConstraint
<1>2. CASE name \in DOMAIN t.reg
  <2> DEFINE con == t.reg[name]
             rest == Restrict(t.reg, DOMAIN t.reg \ {name})
             left == {rest[n] : n \in {n \in DOMAIN rest : rest[n].kind = "enum" /\ rest[n].col = con.col}}
             bag == SetToBag((UNION {c.values : c \in left}) \ {Empty})
             enum == [t.enum EXCEPT ![con.col] = bag]
             refs == t.refs \ {RefOf(con)}
  <2>1. /\ IsMap(rest) /\ DOMAIN rest \subseteq DOMAIN t.reg
        /\ \A n \in DOMAIN rest : rest[n] = t.reg[n]
    BY DEF Restrict, IsMap
  <2>2. IsABag(bag)
    BY Bags
  <2>3. LET u == DropConstraint(t, name)
        IN  \/ u = [t EXCEPT !.reg = rest, !.enum[con.col] = bag]
            \/ u = [t EXCEPT !.reg = rest, !.refs = refs]
            \/ u = [t EXCEPT !.reg = rest]
    BY <1>2 DEF DropConstraint
  <2> HIDE DEF con, rest, left, bag, refs
  <2>4. /\ IsMap(enum) /\ DOMAIN enum = DOMAIN t.enum
        /\ \A c \in DOMAIN enum : enum[c] = t.enum[c] \/ enum[c] = bag
    BY DEF IsMap
  <2> HIDE DEF enum
  <2>6. /\ IsMap(t.cols) /\ IsMap(t.enum) /\ DOMAIN t.cols = DOMAIN t.enum
        /\ \A c \in DOMAIN t.enum : IsABag(t.enum[c])
    BY CollectedIs
  <2>7. \A n \in DOMAIN rest : IsConstraint(rest[n])
    BY <2>1, CollectedIs
  <2>8. \A c \in DOMAIN enum : IsABag(enum[c])
    BY <2>2, <2>4, <2>6
  <2>9. /\ Collected(Tab(t.schema, t.cols, enum, t.refs, rest))
        /\ Collected(Tab(t.schema, t.cols, t.enum, refs, rest))
        /\ Collected(Tab(t.schema, t.cols, t.enum, t.refs, rest))
    BY <2>1, <2>4, <2>6, <2>7, <2>8, TabIs
  <2>10. \/ DropConstraint(t, name) = Tab(t.schema, t.cols, enum, t.refs, rest)
         \/ DropConstraint(t, name) = Tab(t.schema, t.cols, t.enum, refs, rest)
         \/ DropConstraint(t, name) = Tab(t.schema, t.cols, t.enum, t.refs, rest)
    <3> DEFINE u == DropConstraint(t, name)
    <3>0. t = [schema |-> t.schema, cols |-> t.cols, enum |-> t.enum, refs |-> t.refs, reg |-> t.reg]
      BY DEF Collected
    <3> HIDE DEF u
    <3>1. CASE u = [t EXCEPT !.reg = rest, !.enum[con.col] = bag]
      BY <3>0, <3>1 DEF Tab, enum, u
    <3>2. CASE u = [t EXCEPT !.reg = rest, !.refs = refs]
      BY <3>0, <3>2 DEF Tab, u
    <3>3. CASE u = [t EXCEPT !.reg = rest]
      BY <3>0, <3>3 DEF Tab, u
    <3> QED BY <2>3, <3>1, <3>2, <3>3 DEF u
  <2> QED BY <2>9, <2>10, TabFields
<1> QED BY <1>1, <1>2

LEMMA DropColumnCollected ==
    ASSUME NEW t, Collected(t), NEW c
    PROVE  LET cols == Restrict(t.cols, DOMAIN t.cols \ {c})
               enum == Restrict(t.enum, DOMAIN t.enum \ {c})
           IN  /\ DropColumn(t, c) = Tab(t.schema, cols, enum, t.refs, t.reg)
               /\ Collected(DropColumn(t, c)) /\ DropColumn(t, c).cols = cols
               /\ DropColumn(t, c).schema = t.schema
<1> DEFINE cols == Restrict(t.cols, DOMAIN t.cols \ {c})
           enum == Restrict(t.enum, DOMAIN t.enum \ {c})
<1>1. DropColumn(t, c) = Tab(t.schema, cols, enum, t.refs, t.reg)
  <2>1. t = Tab(t.schema, t.cols, t.enum, t.refs, t.reg)
    BY DEF Collected, Tab
  <2>2. DropColumn(t, c) = [t EXCEPT !.cols = cols, !.enum = enum]
    BY DEF DropColumn
  <2> HIDE DEF cols, enum
  <2> QED BY <2>1, <2>2 DEF Tab
<1>2. /\ IsMap(cols) /\ IsMap(enum) /\ DOMAIN cols = DOMAIN t.cols \ {c}
      /\ DOMAIN enum = DOMAIN t.enum \ {c} /\ \A x \in DOMAIN enum : enum[x] = t.enum[x]
  BY DEF Restrict, IsMap
<1> HIDE DEF cols, enum
<1>3. DOMAIN cols = DOMAIN enum /\ \A x \in DOMAIN enum : IsABag(enum[x])
  BY <1>2, CollectedIs
<1>4. Collected(Tab(t.schema, cols, enum, t.refs, t.reg))
  BY <1>2, <1>3, CollectedIs, TabIs
<1>5. /\ Tab(t.schema, cols, enum, t.refs, t.reg).cols = cols
      /\ Tab(t.schema, cols, enum, t.refs, t.reg).schema = t.schema
  BY DEF Tab
<1> QED BY <1>1, <1>4, <1>5 DEF cols, enum

Retyped(t, c, type) == [t EXCEPT !.cols[c] = type]

LEMMA RetypeIs ==
    ASSUME NEW t, Collected(t), NEW c, NEW type
    PROVE  Retyped(t, c, type) = Tab(t.schema, [t.cols EXCEPT ![c] = type], t.enum, t.refs, t.reg)
<1> DEFINE u == Retyped(t, c, type)
<1>1. u = [t EXCEPT !.cols[c] = type]
  BY DEF Retyped
<1> HIDE DEF u
<1>2. u = Tab(t.schema, [t.cols EXCEPT ![c] = type], t.enum, t.refs, t.reg)
  BY <1>1 DEF Collected, Tab
<1> QED BY <1>2 DEF u

LEMMA RetypeCollected ==
    ASSUME NEW t, Collected(t), NEW c, NEW type
    PROVE  Collected(Retyped(t, c, type)) /\ Retyped(t, c, type).schema = t.schema
<1> DEFINE u == Retyped(t, c, type)
           cols == [t.cols EXCEPT ![c] = type]
<1>2. IsMap(cols) /\ DOMAIN cols = DOMAIN t.cols
  BY DEF IsMap
<1> HIDE DEF u
<1>3. u = Tab(t.schema, cols, t.enum, t.refs, t.reg)
  BY RetypeIs DEF u
<1> HIDE DEF cols
<1>4. Collected(u)
  BY <1>2, <1>3, CollectedIs, TabIs
<1> QED BY <1>3, <1>4, TabFields DEF u, cols

\* A command of an ALTER TABLE keeps a collected table one, in its schema.
LEMMA CommandCollected ==
    ASSUME NEW t, Collected(t), NEW table, NEW c, IsCommand(c)
    PROVE  Collected(AlterBy(t, table, c)) /\ AlterBy(t, table, c).schema = t.schema
<1>0. /\ c.op = "addColumn" => IsColumn(c)
      /\ c.op = "addConstraint" => IsConstraint(c.con)
  BY DEF IsCommand
<1>1. CASE c.op = "addColumn" /\ c.name \notin DOMAIN t.cols
  <2>1. AlterBy(t, table, c) = AddColumn(t, table, c)
    BY <1>1 DEF AlterBy
  <2> QED BY <1>0, <1>1, <2>1, AddColumnCollected
<1>2. CASE c.op = "dropColumn"
  <2>1. AlterBy(t, table, c) = DropColumn(t, c.name)
    BY <1>2 DEF AlterBy
  <2> QED BY <2>1, DropColumnCollected
<1>3. CASE c.op = "alterType" /\ c.name \in DOMAIN t.cols
  <2>1. AlterBy(t, table, c) = Retyped(t, c.name, c.type)
    BY <1>3 DEF AlterBy, Retyped
  <2> QED BY <2>1, RetypeCollected
<1>4. CASE c.op = "addConstraint"
  <2>1. AlterBy(t, table, c) = AddConstraint(t, c.con)
    BY <1>4 DEF AlterBy
  <2> QED BY <1>0, <1>4, <2>1, AddConstraintCollected
<1>5. CASE c.op = "dropConstraint"
  <2>1. AlterBy(t, table, c) = DropConstraint(t, c.constraint)
    BY <1>5 DEF AlterBy
  <2> QED BY <2>1, DropConstraintCollected
<1>6. CASE /\ ~(c.op = "addColumn" /\ c.name \notin DOMAIN t.cols)
           /\ ~(c.op = "alterType" /\ c.name \in DOMAIN t.cols)
           /\ c.op \notin {"dropColumn", "addConstraint", "dropConstraint"}
  <2>1. AlterBy(t, table, c) = t
    BY <1>6 DEF AlterBy
  <2> QED BY <2>1
<1> QED BY <1>1, <1>2, <1>3, <1>4, <1>5, <1>6

\* The commands of an ALTER TABLE.
LEMMA CommandsAre ==
    ASSUME NEW s \in Statement, s.op = "alter"
    PROVE  /\ Len(s.cmds) \in Nat /\ DOMAIN s.cmds = 1..Len(s.cmds)
           /\ \A i \in 1..Len(s.cmds) : IsCommand(s.cmds[i])
<1>1. s.cmds \in Seq(Range(s.cmds)) /\ \A c \in Range(s.cmds) : IsCommand(c)
  BY StatementAssumption
<1> DEFINE q == s.cmds
<1>2. /\ Len(q) \in Nat /\ DOMAIN q = 1..Len(q)
      /\ \A i \in 1..Len(q) : q[i] \in Range(q)
  BY <1>1, RangeIs
<1> QED BY <1>1, <1>2

LEMMA AlterCollected ==
    ASSUME NEW t, Collected(t), NEW s \in Statement, s.op = "alter"
    PROVE  Collected(Alter(t, s)) /\ Alter(t, s).schema = t.schema
<1> DEFINE after == Altering(t, s)
           N == Len(s.cmds)
           Good(u) == Collected(u) /\ u.schema = t.schema
           S == {n \in Nat : n <= N => Good(after[n])}
<1>1. N \in Nat /\ \A i \in 1..N : IsCommand(s.cmds[i])
  BY CommandsAre
<1>2. /\ after[0] = t
      /\ \A i \in 1..N : after[i] = AlterBy(after[i - 1], s.table, s.cmds[i])
  BY <1>1, AlteringIs
<1>7. Alter(t, s) = after[N]
  BY DEF Alter
<1> HIDE DEF after, N
<1>3. 0 \in S
  BY <1>2
<1>4. ASSUME NEW n \in S PROVE n + 1 \in S
  <2> SUFFICES ASSUME n + 1 <= N PROVE Good(after[n + 1])
    OBVIOUS
  <2>1. n \in Nat /\ n + 1 \in 1..N /\ n + 1 - 1 = n
    BY <1>1
  <2>2. Good(after[n])
    BY <1>1, <1>4, <2>1
  <2>3. after[n + 1] = AlterBy(after[n], s.table, s.cmds[n + 1])
    BY <1>2, <2>1
  <2>4. IsCommand(s.cmds[n + 1])
    BY <1>1, <2>1
  <2> QED BY <2>2, <2>3, <2>4, CommandCollected
<1>5. S = Nat
  <2> HIDE DEF S
  <2>1. S \in SUBSET Nat
    BY DEF S
  <2> QED BY <1>3, <1>4, <2>1, Induct
<1>6. Good(after[N])
  BY <1>1, <1>5
<1> QED BY <1>6, <1>7

-----------------------------------------------------------------------------
(* What a table of production is, and stays.                               *)

LEMMA PgConstraintsIs ==
    ASSUME NEW table, NEW cons
    PROVE  LET p == PgConstraints(table, cons)
           IN  /\ IsMap(p) /\ DOMAIN p = PgNames(table, cons)
               /\ \A n \in DOMAIN p : p[n] \in cons /\ PgName(table, p[n]) = n
<1> DEFINE p == PgConstraints(table, cons)
<1>1. IsMap(p) /\ DOMAIN p = PgNames(table, cons)
  BY DEF PgConstraints, IsMap
<1>2. ASSUME NEW n \in DOMAIN p PROVE p[n] \in cons /\ PgName(table, p[n]) = n
  <2> DEFINE d == CHOOSE c \in cons : PgName(table, c) = n
  <2>1. p[n] = d
    BY <1>1, <1>2 DEF PgConstraints
  <2>2. PICK c \in cons : n = PgName(table, c)
    BY <1>1, <1>2 DEF PgNames
  <2>3. d \in cons /\ PgName(table, d) = n
    BY <2>2
  <2> HIDE DEF p, d
  <2> QED BY <2>1, <2>3
<1> QED BY <1>1, <1>2

PgTab(cols, cons) == [cols |-> cols, cons |-> cons]

LEMMA PgTabIs ==
    ASSUME NEW cols, NEW cons, IsMap(cols), IsMap(cons),
           \A n \in DOMAIN cons : IsConstraint(cons[n]) /\ cons[n].col \in DOMAIN cols
    PROVE  /\ Produced(PgTab(cols, cons)) /\ PgTab(cols, cons).cols = cols
           /\ PgTab(cols, cons).cons = cons
BY DEF Produced, PgTab

LEMMA ProducedIs ==
    ASSUME NEW p, Produced(p)
    PROVE  /\ p = PgTab(p.cols, p.cons) /\ IsMap(p.cols) /\ IsMap(p.cons)
           /\ \A n \in DOMAIN p.cons : IsConstraint(p.cons[n]) /\ p.cons[n].col \in DOMAIN p.cols
BY DEF Produced, PgTab

\* Every constraint of a CREATE TABLE is on one of its columns.
LEMMA WrittenIs ==
    ASSUME NEW elements, IsTable(elements), NEW c \in Written(elements)
    PROVE  IsConstraint(c) /\ \E d \in Columns(elements) : d.name = c.col
<1>1. PICK e \in Range(elements) : c \in (IF e.el = "column" THEN Range(e.inline) ELSE {e.con})
  BY DEF Written
<1>2. CASE e.el = "column"
  <2>1. IsColumn(e) /\ c \in Range(e.inline)
    BY <1>1, <1>2 DEF IsTable
  <2>2. IsConstraint(c) /\ c.col = e.name
    BY <2>1 DEF IsColumn
  <2>3. e \in Columns(elements)
    BY <1>2 DEF Columns
  <2> QED BY <2>2, <2>3
<1>3. CASE e.el # "column"
  <2>1. e.el = "constraint" /\ IsConstraint(e.con) /\ c = e.con
    BY <1>1, <1>3 DEF IsTable
  <2>2. PICK d \in Range(elements) : d.el = "column" /\ d.name = e.con.col
    BY <1>3 DEF IsTable
  <2>3. d \in Columns(elements)
    BY <2>2 DEF Columns
  <2> QED BY <2>1, <2>2, <2>3
<1> QED BY <1>2, <1>3

LEMMA PgTableIs ==
    ASSUME NEW s, IsTable(s.elements)
    PROVE  /\ Produced(PgTable(s))
           /\ PgTable(s).cons = PgConstraints(s.table, Written(s.elements))
           /\ DOMAIN PgTable(s).cols = {c.name : c \in Columns(s.elements)}
<1> DEFINE columns == Columns(s.elements)
           cols == [n \in {c.name : c \in columns} |-> (CHOOSE c \in columns : c.name = n).type]
           cons == PgConstraints(s.table, Written(s.elements))
<1>1. PgTable(s) = PgTab(cols, cons)
  BY DEF PgTable, PgTab
<1>2. IsMap(cols) /\ DOMAIN cols = {c.name : c \in columns}
  BY DEF IsMap
<1>3. IsMap(cons) /\ \A n \in DOMAIN cons : cons[n] \in Written(s.elements)
  BY PgConstraintsIs
<1> HIDE DEF columns, cols, cons
<1>4. \A n \in DOMAIN cons : IsConstraint(cons[n]) /\ cons[n].col \in DOMAIN cols
  BY <1>2, <1>3, WrittenIs DEF columns
<1>5. /\ Produced(PgTab(cols, cons)) /\ PgTab(cols, cons).cols = cols
      /\ PgTab(cols, cons).cons = cons
  BY <1>2, <1>3, <1>4, PgTabIs
<1> QED BY <1>1, <1>2, <1>5 DEF columns, cons

\* The constraints of a table that are not `Gone` when it loses one.
LEMMA Kept ==
    ASSUME NEW f, NEW S
    PROVE  /\ IsMap(Restrict(f, DOMAIN f \ S)) /\ DOMAIN Restrict(f, DOMAIN f \ S) = DOMAIN f \ S
           /\ \A x \in DOMAIN f \ S : Restrict(f, DOMAIN f \ S)[x] = f[x]
BY DEF Restrict, IsMap

\* The table a command makes, one operator for each.
LEMMA PgAlterByIs ==
    ASSUME NEW t, Produced(t), NEW table, NEW c
    PROVE  LET u == PgAlterBy(t, table, c)
           IN  \/ /\ c.op = "addColumn" /\ c.name \notin DOMAIN t.cols
                  /\ u = PgTab(Put(t.cols, c.name, c.type),
                               Over(PgConstraints(table, Range(c.inline)), t.cons))
               \/ /\ c.op = "dropColumn"
                  /\ u = PgTab(Restrict(t.cols, DOMAIN t.cols \ {c.name}),
                               Restrict(t.cons, {n \in DOMAIN t.cons : t.cons[n].col # c.name}))
               \/ /\ c.op = "alterType"
                  /\ u = PgTab([t.cols EXCEPT ![c.name] = c.type], t.cons)
               \/ /\ c.op = "addConstraint"
                  /\ u = PgTab(t.cols, Over(PgConstraints(table, {c.con}), t.cons))
               \/ /\ c.op = "dropConstraint"
                  /\ u = PgTab(t.cols, Restrict(t.cons, DOMAIN t.cons \ {c.constraint}))
               \/ /\ c.op = "addColumn" => c.name \in DOMAIN t.cols
                  /\ c.op \notin {"dropColumn", "alterType", "addConstraint", "dropConstraint"}
                  /\ u = t
<1> DEFINE u == PgAlterBy(t, table, c)
<1>0. t = [cols |-> t.cols, cons |-> t.cons]
  BY DEF Produced
<1>1. CASE c.op = "addColumn" /\ c.name \notin DOMAIN t.cols
  BY <1>1 DEF PgAlterBy, PgTab
<1>2. CASE c.op = "dropColumn"
  <2>1. u = [cols |-> Restrict(t.cols, DOMAIN t.cols \ {c.name}),
             cons |-> Without(t.cons, LAMBDA d : d.col = c.name)]
    BY <1>2 DEF PgAlterBy
  <2>2. Without(t.cons, LAMBDA d : d.col = c.name)
            = Restrict(t.cons, {n \in DOMAIN t.cons : t.cons[n].col # c.name})
    BY DEF Without, RestrictValues
  <2> QED BY <1>2, <2>1, <2>2 DEF PgTab
<1>3. CASE c.op = "alterType"
  <2>1. u = [t EXCEPT !.cols[c.name] = c.type]
    BY <1>3 DEF PgAlterBy
  <2> HIDE DEF u
  <2>2. u = PgTab([t.cols EXCEPT ![c.name] = c.type], t.cons)
    BY <1>0, <2>1 DEF PgTab
  <2> QED BY <1>3, <2>2 DEF u
<1>4. CASE c.op = "addConstraint"
  <2> DEFINE over == Over(PgConstraints(table, {c.con}), t.cons)
  <2>1. u = [t EXCEPT !.cons = over]
    BY <1>4 DEF PgAlterBy
  <2> HIDE DEF u, over
  <2>2. u = PgTab(t.cols, over)
    BY <1>0, <2>1 DEF PgTab
  <2> QED BY <1>4, <2>2 DEF u, over
<1>5. CASE c.op = "dropConstraint"
  <2> DEFINE rest == Restrict(t.cons, DOMAIN t.cons \ {c.constraint})
  <2>1. u = [t EXCEPT !.cons = rest]
    BY <1>5 DEF PgAlterBy
  <2> HIDE DEF u, rest
  <2>2. u = PgTab(t.cols, rest)
    BY <1>0, <2>1 DEF PgTab
  <2> QED BY <1>5, <2>2 DEF u, rest
<1>7. CASE /\ c.op = "addColumn" => c.name \in DOMAIN t.cols
           /\ c.op \notin {"dropColumn", "alterType", "addConstraint", "dropConstraint"}
  <2>1. u = t
    BY <1>7 DEF PgAlterBy
  <2> HIDE DEF u
  <2> QED BY <1>7, <2>1 DEF u
<1> HIDE DEF u
<1> QED BY <1>1, <1>2, <1>3, <1>4, <1>5, <1>7 DEF u

\* A command, where PostgreSQL accepts it, keeps the constraints on columns
\* the table has.
LEMMA PgAlterByProduced ==
    ASSUME NEW t, Produced(t), NEW table, NEW k, NEW c, IsCommand(c), LegalBy(k, t, c)
    PROVE  Produced(PgAlterBy(t, table, c))
<1> DEFINE u == PgAlterBy(t, table, c)
<1>0. /\ c.op = "addColumn" => IsColumn(c)
      /\ c.op = "addConstraint" => IsConstraint(c.con) /\ c.con.col \in DOMAIN t.cols
  <2>1. c.op = "addConstraint" => c.con.col \in DOMAIN t.cols
    BY DEF LegalBy
  <2> QED BY <2>1 DEF IsCommand
<1>1. Produced(t)
  OBVIOUS
<1> SUFFICES Produced(u)
  OBVIOUS
<1> HIDE DEF u
<1>2. /\ t = PgTab(t.cols, t.cons) /\ IsMap(t.cols) /\ IsMap(t.cons)
      /\ \A n \in DOMAIN t.cons : IsConstraint(t.cons[n]) /\ t.cons[n].col \in DOMAIN t.cols
  BY <1>1, ProducedIs
<1>3. CASE /\ c.op = "addColumn" /\ c.name \notin DOMAIN t.cols
           /\ u = PgTab(Put(t.cols, c.name, c.type),
                        Over(PgConstraints(table, Range(c.inline)), t.cons))
  <2> DEFINE cols == Put(t.cols, c.name, c.type)
             new == PgConstraints(table, Range(c.inline))
             cons == Over(new, t.cons)
  <2>1. IsMap(cols) /\ DOMAIN cols = DOMAIN t.cols \cup {c.name}
    BY DEF Put, IsMap
  <2>2. \A n \in DOMAIN new : new[n] \in Range(c.inline)
    BY PgConstraintsIs
  <2>3. \A n \in DOMAIN new : IsConstraint(new[n]) /\ new[n].col = c.name
    <3> HIDE DEF new
    <3> QED BY <1>0, <1>3, <2>2 DEF IsColumn
  <2> HIDE DEF cols, new
  <2>4. /\ IsMap(cons) /\ DOMAIN cons = DOMAIN new \cup DOMAIN t.cons
        /\ \A n \in DOMAIN cons :
            \/ n \in DOMAIN new /\ cons[n] = new[n]
            \/ n \in DOMAIN t.cons /\ cons[n] = t.cons[n]
    BY DEF Over, IsMap
  <2> HIDE DEF cons
  <2>5. \A n \in DOMAIN cons : IsConstraint(cons[n]) /\ cons[n].col \in DOMAIN cols
    BY <1>2, <2>1, <2>3, <2>4
  <2>6. Produced(PgTab(cols, cons))
    BY <2>1, <2>4, <2>5, PgTabIs
  <2> QED BY <1>3, <2>6 DEF cols, cons, new
<1>4. CASE /\ c.op = "dropColumn"
           /\ u = PgTab(Restrict(t.cols, DOMAIN t.cols \ {c.name}),
                        Restrict(t.cons, {n \in DOMAIN t.cons : t.cons[n].col # c.name}))
  <2> DEFINE cols == Restrict(t.cols, DOMAIN t.cols \ {c.name})
             cons == Restrict(t.cons, {n \in DOMAIN t.cons : t.cons[n].col # c.name})
  <2>1. IsMap(cols) /\ DOMAIN cols = DOMAIN t.cols \ {c.name}
    BY DEF Restrict, IsMap
  <2>2. IsMap(cons) /\ \A n \in DOMAIN cons : /\ n \in DOMAIN t.cons /\ cons[n] = t.cons[n]
                                              /\ t.cons[n].col # c.name
    BY DEF Restrict, IsMap
  <2> HIDE DEF cols, cons
  <2>3. \A n \in DOMAIN cons : IsConstraint(cons[n]) /\ cons[n].col \in DOMAIN cols
    BY <1>2, <2>1, <2>2
  <2>4. Produced(PgTab(cols, cons))
    BY <2>1, <2>2, <2>3, PgTabIs
  <2> QED BY <1>4, <2>4 DEF cols, cons
<1>5. CASE c.op = "alterType" /\ u = PgTab([t.cols EXCEPT ![c.name] = c.type], t.cons)
  <2> DEFINE cols == [t.cols EXCEPT ![c.name] = c.type]
  <2>1. IsMap(cols) /\ DOMAIN cols = DOMAIN t.cols
    BY DEF IsMap
  <2> HIDE DEF cols
  <2>2. Produced(PgTab(cols, t.cons))
    BY <1>2, <2>1, PgTabIs
  <2> QED BY <1>5, <2>2 DEF cols
<1>6. CASE c.op = "addConstraint" /\ u = PgTab(t.cols, Over(PgConstraints(table, {c.con}), t.cons))
  <2> DEFINE new == PgConstraints(table, {c.con})
             cons == Over(new, t.cons)
  <2>1. \A n \in DOMAIN new : new[n] = c.con
    BY PgConstraintsIs
  <2>2. \A n \in DOMAIN new : IsConstraint(new[n]) /\ new[n].col \in DOMAIN t.cols
    <3> HIDE DEF new
    <3> QED BY <1>0, <1>6, <2>1
  <2> HIDE DEF new
  <2>4. /\ IsMap(cons) /\ DOMAIN cons = DOMAIN new \cup DOMAIN t.cons
        /\ \A n \in DOMAIN cons :
            \/ n \in DOMAIN new /\ cons[n] = new[n]
            \/ n \in DOMAIN t.cons /\ cons[n] = t.cons[n]
    BY DEF Over, IsMap
  <2> HIDE DEF cons
  <2>5. \A n \in DOMAIN cons : IsConstraint(cons[n]) /\ cons[n].col \in DOMAIN t.cols
    BY <1>2, <2>2, <2>4
  <2>6. Produced(PgTab(t.cols, cons))
    BY <1>2, <2>4, <2>5, PgTabIs
  <2> QED BY <1>6, <2>6 DEF cons, new
<1>7. CASE /\ c.op = "dropConstraint"
           /\ u = PgTab(t.cols, Restrict(t.cons, DOMAIN t.cons \ {c.constraint}))
  <2> DEFINE cons == Restrict(t.cons, DOMAIN t.cons \ {c.constraint})
  <2>1. IsMap(cons) /\ \A n \in DOMAIN cons : n \in DOMAIN t.cons /\ cons[n] = t.cons[n]
    BY DEF Restrict, IsMap
  <2> HIDE DEF cons
  <2>2. \A n \in DOMAIN cons : IsConstraint(cons[n]) /\ cons[n].col \in DOMAIN t.cols
    BY <1>2, <2>1
  <2>3. Produced(PgTab(t.cols, cons))
    BY <1>2, <2>1, <2>2, PgTabIs
  <2> QED BY <1>7, <2>3 DEF cons
<1>9. CASE u = t
  BY <1>1, <1>9
<1> QED BY <1>1, <1>3, <1>4, <1>5, <1>6, <1>7, <1>9, PgAlterByIs DEF u

\* Renaming a column renames it in the constraints on it.
LEMMA PgRenameProduced ==
    ASSUME NEW t, Produced(t), NEW s
    PROVE  Produced(PgRename(t, s))
<1>1. /\ t = PgTab(t.cols, t.cons) /\ IsMap(t.cols) /\ IsMap(t.cons)
      /\ \A n \in DOMAIN t.cons : IsConstraint(t.cons[n]) /\ t.cons[n].col \in DOMAIN t.cols
  BY ProducedIs
<1> DEFINE cols == Put(Restrict(t.cols, DOMAIN t.cols \ {s.name}), s.to, t.cols[s.name])
           cons == [n \in DOMAIN t.cons |-> IF t.cons[n].col = s.name
                        THEN [t.cons[n] EXCEPT !.col = s.to] ELSE t.cons[n]]
<1>3. IsMap(cols) /\ DOMAIN cols = (DOMAIN t.cols \ {s.name}) \cup {s.to}
  BY DEF Put, Restrict, IsMap
<1>4. IsMap(cons) /\ DOMAIN cons = DOMAIN t.cons
  BY DEF IsMap
<1>5. ASSUME NEW n \in DOMAIN t.cons
      PROVE  IsConstraint(cons[n]) /\ cons[n].col \in DOMAIN cols
  <2> DEFINE c == t.cons[n]
             d == cons[n]
  <2>1. d = IF c.col = s.name THEN [c EXCEPT !.col = s.to] ELSE c
    OBVIOUS
  <2>2. IsConstraint(c) /\ c.col \in DOMAIN t.cols
    BY <1>1
  <2> HIDE DEF c, d, cols, cons
  <2>3. CASE c.col = s.name
    <3>1. d = [c EXCEPT !.col = s.to]
      BY <2>1, <2>3
    <3>2. c = [name |-> c.name, kind |-> c.kind, col |-> c.col, values |-> c.values,
               target |-> c.target, pk |-> c.pk]
      BY <2>2 DEF IsConstraint
    <3>3. d = [name |-> c.name, kind |-> c.kind, col |-> s.to, values |-> c.values,
               target |-> c.target, pk |-> c.pk]
      BY <3>1, <3>2
    <3>4. IsConstraint(d) /\ d.col = s.to
      BY <2>2, <3>3 DEF IsConstraint
    <3> QED BY <1>3, <3>4 DEF d
  <2>4. CASE c.col # s.name
    BY <1>3, <2>1, <2>2, <2>4 DEF d
  <2> QED BY <2>3, <2>4
<1>7. PgRename(t, s) = PgTab(cols, cons)
  BY DEF PgRename, PgTab
<1> HIDE DEF cols, cons
<1>6. Produced(PgTab(cols, cons))
  BY <1>3, <1>4, <1>5, PgTabIs
<1> QED BY <1>6, <1>7

\* So do the commands of one pass, and the passes.
LEMMA PgAlteredProduced ==
    ASSUME NEW p, Produced(p), NEW s \in Statement, s.op = "alter", NEW ops, LegalIn(p, s, ops)
    PROVE  /\ Produced(PgAltered(p, s, ops))
           /\ \A i \in 0..Len(s.cmds) : Produced(PgAltering(p, s, ops)[i])
<1> DEFINE after == PgAltering(p, s, ops)
           N == Len(s.cmds)
           S == {n \in Nat : n <= N => Produced(after[n])}
<1>1. N \in Nat /\ DOMAIN s.cmds = 1..N /\ \A i \in 1..N : IsCommand(s.cmds[i])
  BY CommandsAre
<1>2. /\ after[0] = p
      /\ \A i \in 1..N : after[i] = RunOf(after[i - 1], s.table, s.cmds[i], ops)
  BY <1>1, PgAlteringIs
<1>3. \A i \in 1..N : s.cmds[i].op \in ops => LegalBy(Key(s), after[i - 1], s.cmds[i])
  BY <1>1 DEF LegalIn
<1>7. PgAltered(p, s, ops) = after[N]
  BY DEF PgAltered
<1> HIDE DEF after, N
<1>4. 0 \in S
  BY <1>2
<1>5. ASSUME NEW n \in S PROVE n + 1 \in S
  <2> SUFFICES ASSUME n + 1 <= N PROVE Produced(after[n + 1])
    OBVIOUS
  <2>1. n \in Nat /\ n + 1 \in 1..N /\ n + 1 - 1 = n
    BY <1>1
  <2>2. Produced(after[n])
    BY <1>1, <1>5, <2>1
  <2>3. after[n + 1] = RunOf(after[n], s.table, s.cmds[n + 1], ops)
    BY <1>2, <2>1
  <2>4. IsCommand(s.cmds[n + 1])
    BY <1>1, <2>1
  <2>5. s.cmds[n + 1].op \in ops => LegalBy(Key(s), after[n], s.cmds[n + 1])
    BY <1>3, <2>1
  <2>6. s.cmds[n + 1].op \in ops => Produced(PgAlterBy(after[n], s.table, s.cmds[n + 1]))
    BY <2>2, <2>4, <2>5, PgAlterByProduced
  <2> QED BY <2>2, <2>3, <2>6 DEF RunOf
<1>6. S = Nat
  <2> HIDE DEF S
  <2>1. S \in SUBSET Nat
    BY DEF S
  <2> QED BY <1>4, <1>5, <2>1, Induct
<1>8. \A i \in 0..N : Produced(after[i])
  BY <1>1, <1>6
<1>9. N \in 0..N
  BY <1>1
<1> QED BY <1>7, <1>8, <1>9 DEF after, N

LEMMA PassingIs ==
    ASSUME NEW p, NEW s
    PROVE  LET after == Passing(p, s)
           IN  after[0] = p /\ \A n \in 1..4 : after[n] = PgAltered(after[n - 1], s, Pass[n])
<1> DEFINE one == PgAltered(p, s, Pass[1])
           two == PgAltered(one, s, Pass[2])
           three == PgAltered(two, s, Pass[3])
           four == PgAltered(three, s, Pass[4])
           h == [n \in 0..4 |-> CASE n = 0 -> p [] n = 1 -> one [] n = 2 -> two
                                  [] n = 3 -> three [] n = 4 -> four]
           after == CHOOSE g : g = [n \in 0..4 |-> IF n = 0 THEN p
                                        ELSE PgAltered(g[n - 1], s, Pass[n])]
<1>1. h[0] = p /\ h[1] = one /\ h[2] = two /\ h[3] = three /\ h[4] = four
  <2> HIDE DEF one, two, three, four
  <2> QED OBVIOUS
<1>2. \A n \in 0..4 : n = 0 \/ (n \in {1, 2, 3, 4} /\ n - 1 \in {0, 1, 2, 3})
  OBVIOUS
<1>3. \A n \in 0..4 : h[n] = IF n = 0 THEN p ELSE PgAltered(h[n - 1], s, Pass[n])
  <2>1. /\ h[1] = PgAltered(h[0], s, Pass[1]) /\ h[2] = PgAltered(h[1], s, Pass[2])
        /\ h[3] = PgAltered(h[2], s, Pass[3]) /\ h[4] = PgAltered(h[3], s, Pass[4])
    BY <1>1
  <2>2. h[0] = p
    BY <1>1
  <2> HIDE DEF h
  <2> QED BY <1>2, <2>1, <2>2
<1>4. h = [n \in 0..4 |-> h[n]]
  OBVIOUS
<1> HIDE DEF h
<1>5. h = [n \in 0..4 |-> IF n = 0 THEN p ELSE PgAltered(h[n - 1], s, Pass[n])]
  BY <1>3, <1>4
<1>6. after = [n \in 0..4 |-> IF n = 0 THEN p ELSE PgAltered(after[n - 1], s, Pass[n])]
  BY <1>5
<1>7. Passing(p, s) = after
  BY DEF Passing
<1> HIDE DEF after
<1>8. after[0] = p /\ \A n \in 1..4 : after[n] = PgAltered(after[n - 1], s, Pass[n])
  BY <1>6
<1> QED BY <1>7, <1>8

LEMMA PgAlterProduced ==
    ASSUME NEW s \in Statement, s.op = "alter", Legal(s), Key(s) \in DOMAIN pg,
           Produced(pg[Key(s)])
    PROVE  Produced(PgAlter(pg[Key(s)], s))
<1> DEFINE after == Passing(pg[Key(s)], s)
<1>1. after[0] = pg[Key(s)] /\ \A n \in 1..4 : after[n] = PgAltered(after[n - 1], s, Pass[n])
  BY PassingIs
<1>2. \A n \in 1..4 : LegalIn(after[n - 1], s, Pass[n])
  BY DEF Legal
<1>3. PgAlter(pg[Key(s)], s) = after[4]
  BY DEF PgAlter
<1> HIDE DEF after
<1>4. ASSUME NEW n \in 1..4, Produced(after[n - 1]) PROVE Produced(after[n])
  <2>1. Produced(PgAltered(after[n - 1], s, Pass[n]))
    BY <1>2, <1>4, PgAlteredProduced
  <2> QED BY <1>1, <2>1
<1>5. Produced(after[0])
  BY <1>1
<1>6. Produced(after[1])
  BY <1>4, <1>5
<1>7. Produced(after[2])
  BY <1>4, <1>6
<1>8. Produced(after[3])
  BY <1>4, <1>7
<1>9. Produced(after[4])
  BY <1>4, <1>8
<1> QED BY <1>3, <1>9

\* The tables another one leaves behind, their foreign keys to it gone.
Unpointed(k, table) ==
    Restrict(pg[k].cons,
             {n \in DOMAIN pg[k].cons :
                ~(pg[k].cons[n].kind = "fk" /\ pg[k].cons[n].target = table)})

LEMMA ReplayIs ==
    ASSUME NEW s \in Statement, IsMap(pg), \A k \in DOMAIN pg : Produced(pg[k])
    PROVE  LET new == Replay(s)
           IN  /\ IsMap(new)
               /\ s.op = "create" => new = IF Key(s) \in DOMAIN pg THEN pg ELSE Put(pg, Key(s), PgTable(s))
               /\ s.op = "dropTable" /\ Key(s) \in DOMAIN pg =>
                    /\ DOMAIN new = DOMAIN pg \ {Key(s)}
                    /\ \A k \in DOMAIN new : new[k] = PgTab(pg[k].cols, Unpointed(k, s.table))
               /\ s.op = "setSchema" =>
                    new = Put(Restrict(pg, DOMAIN pg \ {Key(s)}), <<s.to, s.table>>, pg[Key(s)])
               /\ s.op = "alter" /\ Key(s) \in DOMAIN pg =>
                    /\ DOMAIN new = DOMAIN pg
                    /\ \A k \in DOMAIN pg : new[k] = IF k = Key(s) THEN PgAlter(pg[k], s) ELSE pg[k]
               /\ s.op = "rename" =>
                    /\ DOMAIN new = DOMAIN pg
                    /\ \A k \in DOMAIN pg : new[k] = IF k = Key(s) THEN PgRename(pg[k], s) ELSE pg[k]
               /\ s.op \in {"dropTable", "alter"} /\ Key(s) \notin DOMAIN pg => new = pg
               /\ s.op \notin {"create", "dropTable", "setSchema", "alter", "rename"} => new = pg
<1> DEFINE new == Replay(s)
<1>1. CASE s.op = "create"
  <2>1. new = IF Key(s) \in DOMAIN pg THEN pg ELSE Put(pg, Key(s), PgTable(s))
    BY <1>1 DEF Replay
  <2>2. IsMap(Put(pg, Key(s), PgTable(s)))
    BY DEF IsMap, Put
  <2> HIDE DEF new
  <2>3. IsMap(new)
    BY <2>1, <2>2
  <2> QED BY <1>1, <2>1, <2>3 DEF new
<1>2. CASE s.op = "dropTable" /\ Key(s) \in DOMAIN pg
  <2> DEFINE kept(k) == [pg[k] EXCEPT !.cons = Without(@, LAMBDA c : c.kind = "fk" /\ c.target = s.table)]
  <2>1. new = [k \in DOMAIN pg \ {Key(s)} |-> kept(k)]
    BY <1>2 DEF Replay
  <2>2. ASSUME NEW k \in DOMAIN pg PROVE kept(k) = PgTab(pg[k].cols, Unpointed(k, s.table))
    <3> DEFINE p == pg[k]
               cons == Without(p.cons, LAMBDA c : c.kind = "fk" /\ c.target = s.table)
               u == kept(k)
    <3>1. cons = Unpointed(k, s.table)
      BY DEF Without, RestrictValues, Unpointed
    <3>2. u = [p EXCEPT !.cons = cons]
      OBVIOUS
    <3>3. p = [cols |-> p.cols, cons |-> p.cons]
      BY DEF Produced
    <3> HIDE DEF p, cons, u
    <3>4. u = PgTab(p.cols, cons)
      BY <3>2, <3>3 DEF PgTab
    <3> QED BY <3>1, <3>4 DEF u, p
  <2> HIDE DEF kept
  <2>3. IsMap(new) /\ DOMAIN new = DOMAIN pg \ {Key(s)} /\ \A k \in DOMAIN new : new[k] = kept(k)
    BY <2>1 DEF IsMap
  <2> QED BY <1>2, <2>2, <2>3
<1>3. CASE s.op = "setSchema"
  <2>1. new = Put(Restrict(pg, DOMAIN pg \ {Key(s)}), <<s.to, s.table>>, pg[Key(s)])
    BY <1>3 DEF Replay
  <2>2. IsMap(new)
    BY <2>1 DEF IsMap, Put
  <2> QED BY <1>3, <2>1, <2>2
<1>4. CASE s.op = "alter" /\ Key(s) \in DOMAIN pg
  <2>1. new = [pg EXCEPT ![Key(s)] = PgAlter(pg[Key(s)], s)]
    BY <1>4 DEF Replay
  <2>2. /\ IsMap(new) /\ DOMAIN new = DOMAIN pg
        /\ \A k \in DOMAIN pg : new[k] = IF k = Key(s) THEN PgAlter(pg[k], s) ELSE pg[k]
    BY <2>1 DEF IsMap
  <2> QED BY <1>4, <2>2
<1>5. CASE s.op = "rename"
  <2>1. new = [pg EXCEPT ![Key(s)] = PgRename(pg[Key(s)], s)]
    BY <1>5 DEF Replay
  <2>2. /\ IsMap(new) /\ DOMAIN new = DOMAIN pg
        /\ \A k \in DOMAIN pg : new[k] = IF k = Key(s) THEN PgRename(pg[k], s) ELSE pg[k]
    BY <2>1 DEF IsMap
  <2> QED BY <1>5, <2>2
<1>6. CASE \/ s.op \in {"dropTable", "alter"} /\ Key(s) \notin DOMAIN pg
           \/ s.op \notin {"create", "dropTable", "setSchema", "alter", "rename"}
  <2>1. new = pg
    BY <1>6 DEF Replay
  <2> HIDE DEF new
  <2> QED BY <1>6, <2>1 DEF new
<1> QED BY <1>1, <1>2, <1>3, <1>4, <1>5, <1>6

LEMMA ReplayProduced ==
    ASSUME NEW s \in Statement, Legal(s), IsMap(pg), \A k \in DOMAIN pg : Produced(pg[k])
    PROVE  IsMap(Replay(s)) /\ \A k \in DOMAIN Replay(s) : Produced(Replay(s)[k])
<1> DEFINE new == Replay(s)
<1> SUFFICES IsMap(new) /\ \A k \in DOMAIN new : Produced(new[k])
  OBVIOUS
<1>0. IsMap(new)
  BY ReplayIs
<1>1. CASE s.op = "create"
  <2>1. new = IF Key(s) \in DOMAIN pg THEN pg ELSE Put(pg, Key(s), PgTable(s))
    BY <1>1, ReplayIs
  <2>2. Produced(PgTable(s))
    BY <1>1, StatementAssumption, PgTableIs
  <2>3. LET put == Put(pg, Key(s), PgTable(s)) IN \A k \in DOMAIN put : Produced(put[k])
    BY <2>2 DEF Put
  <2> HIDE DEF new
  <2> QED BY <1>0, <2>1, <2>3
<1>2. CASE s.op = "dropTable" /\ Key(s) \in DOMAIN pg
  <2>1. /\ DOMAIN new = DOMAIN pg \ {Key(s)}
        /\ \A k \in DOMAIN new : new[k] = PgTab(pg[k].cols, Unpointed(k, s.table))
    BY <1>2, ReplayIs
  <2>2. ASSUME NEW k \in DOMAIN pg PROVE Produced(PgTab(pg[k].cols, Unpointed(k, s.table)))
    <3> DEFINE cons == Unpointed(k, s.table)
    <3>1. IsMap(cons) /\ \A n \in DOMAIN cons : n \in DOMAIN pg[k].cons /\ cons[n] = pg[k].cons[n]
      BY DEF Unpointed, Restrict, IsMap
    <3> HIDE DEF cons
    <3>2. /\ IsMap(pg[k].cols)
          /\ \A n \in DOMAIN pg[k].cons :
                IsConstraint(pg[k].cons[n]) /\ pg[k].cons[n].col \in DOMAIN pg[k].cols
      BY ProducedIs
    <3>3. Produced(PgTab(pg[k].cols, cons))
      BY <3>1, <3>2, PgTabIs
    <3> QED BY <3>3 DEF cons
  <2> HIDE DEF new
  <2> QED BY <1>0, <2>1, <2>2
<1>3. CASE s.op = "setSchema"
  <2>1. new = Put(Restrict(pg, DOMAIN pg \ {Key(s)}), <<s.to, s.table>>, pg[Key(s)])
    BY <1>3, ReplayIs
  <2>2. Key(s) \in DOMAIN pg
    BY <1>3 DEF Legal
  <2>3. \A k \in DOMAIN new : \E j \in DOMAIN pg : new[k] = pg[j]
    BY <2>1, <2>2 DEF Put, Restrict
  <2> HIDE DEF new
  <2> QED BY <1>0, <2>3
<1>4. CASE s.op = "alter" /\ Key(s) \in DOMAIN pg
  <2>1. /\ DOMAIN new = DOMAIN pg
        /\ \A k \in DOMAIN pg : new[k] = IF k = Key(s) THEN PgAlter(pg[k], s) ELSE pg[k]
    BY <1>4, ReplayIs
  <2>2. Produced(PgAlter(pg[Key(s)], s))
    BY <1>4, PgAlterProduced
  <2> HIDE DEF new
  <2> QED BY <1>0, <2>1, <2>2
<1>5. CASE s.op = "rename"
  <2>1. /\ DOMAIN new = DOMAIN pg
        /\ \A k \in DOMAIN pg : new[k] = IF k = Key(s) THEN PgRename(pg[k], s) ELSE pg[k]
    BY <1>5, ReplayIs
  <2>2. \A k \in DOMAIN pg : Produced(PgRename(pg[k], s))
    BY PgRenameProduced
  <2> HIDE DEF new
  <2> QED BY <1>0, <2>1, <2>2
<1>6. CASE \/ s.op \in {"dropTable", "alter"} /\ Key(s) \notin DOMAIN pg
           \/ s.op \notin {"create", "dropTable", "setSchema", "alter", "rename"}
  <2>1. new = pg
    BY <1>6, ReplayIs
  <2> HIDE DEF new
  <2> QED BY <1>0, <2>1
<1> QED BY <1>1, <1>2, <1>3, <1>4, <1>5, <1>6

LEMMA CollectIs ==
    ASSUME NEW s \in Statement, IsMap(st)
    PROVE  LET new == Collect(s)
           IN  /\ IsMap(new)
               /\ \/ s.op = "create" /\ ~(Known(s) /\ s.ifNotExists) /\ new = Put(st, s.table, Build(s))
                  \/ s.op = "dropTable" /\ new = Restrict(st, DOMAIN st \ {s.table, s.schema})
                  \/ /\ s.op = "alter" /\ Known(s)
                     /\ DOMAIN new = DOMAIN st
                     /\ \A t \in DOMAIN st : new[t] = IF t = s.table THEN Alter(st[t], s) ELSE st[t]
                  \/ /\ s.op = "create" => Known(s) /\ s.ifNotExists
                     /\ s.op # "dropTable"
                     /\ s.op = "alter" => ~Known(s)
                     /\ new = st
<1> DEFINE new == Collect(s)
<1>1. CASE s.op = "create" /\ ~(Known(s) /\ s.ifNotExists)
  <2>1. new = Put(st, s.table, Build(s))
    BY <1>1 DEF Collect
  <2>2. IsMap(new)
    BY <2>1 DEF IsMap, Put
  <2> HIDE DEF new
  <2> QED BY <1>1, <2>1, <2>2 DEF new
<1>2. CASE s.op = "dropTable"
  <2>1. new = Restrict(st, DOMAIN st \ {s.table, s.schema})
    BY <1>2 DEF Collect
  <2>2. IsMap(new)
    BY <2>1 DEF IsMap, Restrict
  <2> HIDE DEF new
  <2> QED BY <1>2, <2>1, <2>2 DEF new
<1>3. CASE s.op = "alter" /\ Known(s)
  <2>1. new = [st EXCEPT ![s.table] = Alter(st[s.table], s)]
    BY <1>3 DEF Collect
  <2>2. /\ IsMap(new) /\ DOMAIN new = DOMAIN st
        /\ \A t \in DOMAIN st : new[t] = IF t = s.table THEN Alter(st[t], s) ELSE st[t]
    BY <2>1 DEF IsMap
  <2> HIDE DEF new
  <2> QED BY <1>3, <2>2 DEF new
<1>4. CASE /\ s.op = "create" => Known(s) /\ s.ifNotExists
           /\ s.op # "dropTable"
           /\ s.op = "alter" => ~Known(s)
  <2>1. new = st
    BY <1>4 DEF Collect
  <2> HIDE DEF new
  <2> QED BY <1>4, <2>1 DEF new
<1> QED BY <1>1, <1>2, <1>3, <1>4

LEMMA CollectCollected ==
    ASSUME NEW s \in Statement, IsMap(st), \A t \in DOMAIN st : Collected(st[t])
    PROVE  IsMap(Collect(s)) /\ \A t \in DOMAIN Collect(s) : Collected(Collect(s)[t])
<1> DEFINE new == Collect(s)
<1>0. IsMap(new)
  BY CollectIs
<1> SUFFICES \A t \in DOMAIN new : Collected(new[t])
  BY <1>0
<1>1. CASE s.op = "create" /\ ~(Known(s) /\ s.ifNotExists) /\ new = Put(st, s.table, Build(s))
  <2>1. Collected(Build(s))
    BY <1>1, StatementAssumption, BuildCollected
  <2> HIDE DEF new
  <2> QED BY <1>1, <2>1 DEF Put
<1>2. CASE s.op = "dropTable" /\ new = Restrict(st, DOMAIN st \ {s.table, s.schema})
  <2> HIDE DEF new
  <2> QED BY <1>2 DEF Restrict
<1>3. CASE /\ s.op = "alter" /\ Known(s)
           /\ DOMAIN new = DOMAIN st
           /\ \A t \in DOMAIN st : new[t] = IF t = s.table THEN Alter(st[t], s) ELSE st[t]
  <2>1. \A t \in DOMAIN st : Collected(Alter(st[t], s))
    BY <1>3, AlterCollected
  <2> HIDE DEF new
  <2> QED BY <1>3, <2>1
<1>4. CASE new = st
  <2> HIDE DEF new
  <2> QED BY <1>4
<1> QED BY <1>1, <1>2, <1>3, <1>4, CollectIs

-----------------------------------------------------------------------------
(* The types, and what a calibration without findings says.                *)

LEMMA RunTypes ==
    ASSUME Types, NEW s \in Statement, Run(s)
    PROVE  (IsMap(pg) /\ \A k \in DOMAIN pg : Produced(pg[k]))' /\ ran' \in 0..MaxStatements
<1>1. pg' = Replay(s) /\ Legal(s) /\ ran' = ran + 1 /\ ran < MaxStatements
  BY DEF Run
<1>2. IsMap(Replay(s)) /\ \A k \in DOMAIN Replay(s) : Produced(Replay(s)[k])
  BY <1>1, ReplayProduced DEF Types
<1>3. IsMap(pg') /\ \A k \in DOMAIN pg' : Produced(pg'[k])
  BY <1>1, <1>2
<1>4. ran' \in 0..MaxStatements
  BY <1>1, MigrationBounds DEF Types
<1> QED BY <1>3, <1>4

LEMMA TypesStep == Types /\ [Next]_vars => Types'
<1> SUFFICES ASSUME Types, [Next]_vars PROVE Types'
  OBVIOUS
<1>1. ASSUME NEW s \in Statement, Migrate(s) PROVE Types'
  <2>1. /\ Run(s) /\ st' = Collect(s) /\ unseen' = unseen
        /\ findings' \subseteq findings \cup {"warn"}
    BY <1>1 DEF Migrate
  <2>2. IsMap(Collect(s)) /\ \A t \in DOMAIN Collect(s) : Collected(Collect(s)[t])
    BY CollectCollected DEF Types
  <2>3. IsMap(st') /\ \A t \in DOMAIN st' : Collected(st'[t])
    BY <2>1, <2>2
  <2>4. findings' \subseteq {"warn", "error"} /\ unseen' \in 0..MaxUnseen
    BY <2>1 DEF Types
  <2>5. DOMAIN Collect(s) \subseteq DOMAIN st \cup {s.table}
    BY CollectIs DEF Types, Put, Restrict
  <2>6. DOMAIN st' \subseteq {r.table : r \in Statement}
    BY <2>1, <2>5 DEF Types
  <2> QED BY <2>1, <2>3, <2>4, <2>6, RunTypes DEF Types
<1>2. ASSUME NEW s \in Statement, Unparsed(s) PROVE Types'
  <2>1. /\ Run(s) /\ st' = st /\ unseen' = unseen /\ findings' = findings \cup {"error"}
    BY <1>2 DEF Unparsed
  <2>2. /\ IsMap(st') /\ \A t \in DOMAIN st' : Collected(st'[t])
        /\ DOMAIN st' \subseteq {r.table : r \in Statement}
    BY <2>1 DEF Types
  <2>3. findings' \subseteq {"warn", "error"} /\ unseen' \in 0..MaxUnseen
    BY <2>1 DEF Types
  <2> QED BY <2>1, <2>2, <2>3, RunTypes DEF Types
<1>3. ASSUME NEW s \in Statement, Unseen(s) PROVE Types'
  <2>1. /\ Run(s) /\ st' = st /\ findings' = findings /\ unseen < MaxUnseen /\ unseen' = unseen + 1
    BY <1>3 DEF Unseen
  <2>2. /\ IsMap(st') /\ \A t \in DOMAIN st' : Collected(st'[t])
        /\ DOMAIN st' \subseteq {r.table : r \in Statement}
    BY <2>1 DEF Types
  <2>3. findings' \subseteq {"warn", "error"} /\ unseen' \in 0..MaxUnseen
    BY <2>1, MigrationBounds DEF Types
  <2> QED BY <2>1, <2>2, <2>3, RunTypes DEF Types
<1>4. CASE UNCHANGED vars
  BY <1>4 DEF Types, vars
<1> QED BY <1>1, <1>2, <1>3, <1>4 DEF Next

LEMMA TypesInit == Init => Types
<1>1. IsMap(Nothing) /\ DOMAIN Nothing = {}
  BY DEF IsMap, Nothing
<1> QED BY <1>1, MigrationBounds DEF Init, Types

LEMMA TypesAlways == Spec => []Types
BY TypesInit, TypesStep, PTL DEF Spec

\* A collected table keeps values for exactly the columns it has, and a
\* constraint of production is on a column its table has, whatever migrations
\* ran (migrate.go: applyStmt, applyAlterTable).
THEOREM TypeCorrect == Spec => []TypeOK
<1>1. Types => TypeOK
  <2> SUFFICES ASSUME Types PROVE TypeOK
    OBVIOUS
  <2>1. ASSUME NEW t \in DOMAIN st
        PROVE  /\ DOMAIN st[t].cols = DOMAIN st[t].enum
               /\ \A c \in DOMAIN st[t].enum : IsABag(st[t].enum[c])
               /\ \A n \in DOMAIN st[t].reg : st[t].reg[n].kind \in {"enum", "fk", "other"}
    BY CollectedIs DEF Types, IsConstraint
  <2>2. \A k \in DOMAIN pg, n \in UNION {DOMAIN pg[j].cons : j \in DOMAIN pg} :
            n \in DOMAIN pg[k].cons => pg[k].cons[n].col \in DOMAIN pg[k].cols
    BY ProducedIs DEF Types
  <2> QED BY <2>1, <2>2 DEF Types, TypeOK
<1> QED BY <1>1, TypesAlways, PTL

\* Whatever migrations and whatever changes by hand production has seen, a table
\* calibrate says nothing of is as it was collected, but for what its query
\* leaves out: tables LIKE 'pg_%', and mods of types (calibrate.go: Calibrate,
\* introspect, normalizeInfoSchemaType).
THEOREM CalibrationIsComplete == Spec => []DriftIsReported
<1>1. DriftIsReported
  <2> DEFINE found == {t \in DOMAIN st : Place(t) \in Introspected}
             live(t) == pg[Place(t)].cols
             placed == {Place(t) : t \in DOMAIN st}
             missing == {<<"missing", t>> : t \in DOMAIN st \ found}
             column == {<<"column", t>> : t \in {t \in found : DOMAIN st[t].cols # DOMAIN live(t)}}
             type == {<<"type", t>> : t \in {t \in found : Drifted(st[t].cols, live(t))}}
             undrafted == {<<"undrafted", k>> : k \in Introspected \ placed}
  <2>1. Calibrate = ((missing \cup column) \cup type) \cup undrafted
    BY DEF Calibrate
  <2>2. \A k \in Introspected : k \in placed \/ <<"undrafted", k>> \in undrafted
    OBVIOUS
  <2>3. \A t \in DOMAIN st : t \in found \/ <<"missing", t>> \in missing
    OBVIOUS
  <2>4. \A t \in found : DOMAIN st[t].cols = DOMAIN live(t) \/ <<"column", t>> \in column
    OBVIOUS
  <2>5. \A t \in found : ~Drifted(st[t].cols, live(t)) \/ <<"type", t>> \in type
    OBVIOUS
  <2> HIDE DEF missing, column, type, undrafted
  <2>6. ASSUME NEW k \in DOMAIN pg
        PROVE  \/ <<"undrafted", k>> \in Calibrate
               \/ \E t \in DOMAIN st : Place(t) = k
               \/ DOMAIN pg[k].cols = {} \/ k[2] \in PgLike
    BY <2>1, <2>2 DEF Introspected
  <2>7. ASSUME NEW t \in DOMAIN st,
               ~ \E kind \in {"missing", "column", "type"} : <<kind, t>> \in Calibrate
        PROVE  /\ Place(t) \in DOMAIN pg
               /\ DOMAIN st[t].cols = DOMAIN pg[Place(t)].cols
               /\ \A c \in DOMAIN pg[Place(t)].cols :
                    /\ st[t].cols[c].family = pg[Place(t)].cols[c].family
                    /\ pg[Place(t)].cols[c].family \in Shown
                            => st[t].cols[c].mods = pg[Place(t)].cols[c].mods
    <3>1. t \in found /\ DOMAIN st[t].cols = DOMAIN live(t) /\ ~Drifted(st[t].cols, live(t))
      BY <2>1, <2>3, <2>4, <2>5, <2>7
    <3>2. Place(t) \in DOMAIN pg
      BY <3>1 DEF Introspected
    <3>3. ASSUME NEW c \in DOMAIN live(t)
          PROVE  /\ st[t].cols[c].family = live(t)[c].family
                 /\ live(t)[c].family \in Shown => st[t].cols[c].mods = live(t)[c].mods
      <4>1. st[t].cols[c] = LiveForm(live(t)[c])
        BY <3>1, <3>3 DEF Drifted, DraftForm
      <4> DEFINE x == st[t].cols[c]
                 y == live(t)[c]
      <4>2. x = [family |-> y.family, mods |-> IF y.family \in Shown THEN y.mods ELSE ""]
        BY <4>1 DEF LiveForm
      <4> HIDE DEF x, y
      <4>3. x.family = y.family /\ (y.family \in Shown => x.mods = y.mods)
        BY <4>2
      <4> QED BY <4>3 DEF x, y
    <3> QED BY <3>1, <3>2, <3>3
  <2>8. ASSUME NEW t \in DOMAIN st
        PROVE  LET shown == pg[Place(t)].cols IN
               \/ \E kind \in {"missing", "column", "type"} : <<kind, t>> \in Calibrate
               \/ /\ Place(t) \in DOMAIN pg
                  /\ DOMAIN st[t].cols = DOMAIN shown
                  /\ \A c \in DOMAIN shown :
                       /\ st[t].cols[c].family = shown[c].family
                       /\ shown[c].family \in Shown => st[t].cols[c].mods = shown[c].mods
    BY <2>7
  <2> QED BY <2>6, <2>8 DEF DriftIsReported
<1> QED BY <1>1, PTL

-----------------------------------------------------------------------------
(* One constraint more, by a name no other one has.                        *)

Fresh(table, C, c) == \A d \in C : PgName(table, d) = PgName(table, c) => d = c

LEMMA NameIs ==
    ASSUME NEW table, NEW c
    PROVE  /\ PgName(table, c) # Anonymous
           /\ c.name # Anonymous => PgName(table, c) = c.name
           /\ c.name = Anonymous => PgName(table, c) = AutoName(table, c)
<1>1. AutoName(table, c) # Anonymous
  BY DEF AutoName, Anonymous
<1> QED BY <1>1 DEF PgName

\* Registering c by a name makes r of the registry reg and forgets nothing.
Registers(reg, r, name, c) ==
    /\ r[name] = c
    /\ Named(r, "enum") = Named(reg, "enum") \cup (IF c.kind = "enum" THEN {name} ELSE {})
    /\ Named(r, "fk") = Named(reg, "fk") \cup (IF c.kind = "fk" THEN {name} ELSE {})
    /\ \A n \in Named(reg, "enum") \cup Named(reg, "fk") : r[n] = reg[n]

\* A constraint is registered by its name, an anonymous one that does not
\* count by none.
LEMMA RegisterHas ==
    ASSUME NEW reg, NEW table, NEW C, NEW c, Has(reg, table, C), Fresh(table, C, c),
           NEW name, name = PgName(table, c) \/ (name = Anonymous /\ c.kind = "other"),
           NEW r, r = Put(reg, name, c)
    PROVE  Has(r, table, C \cup {c}) /\ Registers(reg, r, name, c)
<1>1. /\ DOMAIN r = DOMAIN reg \cup {name} /\ r[name] = c
      /\ \A n \in DOMAIN reg : n # name => r[n] = reg[n]
  BY DEF Put
<1>2. ASSUME name \in DOMAIN reg, reg[name].kind # "other" PROVE reg[name] = c /\ name # Anonymous
  <2>1. reg[name] \in C /\ PgName(table, reg[name]) = name
    BY <1>2 DEF Has
  <2>2. name # Anonymous
    BY <2>1, NameIs
  <2> QED BY <2>1, <2>2 DEF Fresh
<1>3. ASSUME NEW d \in C \cup {c}, d.kind # "other"
      PROVE  PgName(table, d) \in DOMAIN r /\ r[PgName(table, d)] = d
  <2>1. CASE d = c
    BY <1>1, <1>3, <2>1
  <2>2. CASE d # c
    <3>1. PgName(table, d) \in DOMAIN reg /\ reg[PgName(table, d)] = d
      BY <1>3, <2>2 DEF Has
    <3>2. PgName(table, d) # name
      BY <1>3, <2>2, NameIs DEF Fresh
    <3> QED BY <1>1, <3>1, <3>2
  <2> QED BY <2>1, <2>2
<1>4. ASSUME NEW n \in DOMAIN r, r[n].kind # "other"
      PROVE  r[n] \in C \cup {c} /\ PgName(table, r[n]) = n
  <2>1. CASE n = name
    BY <1>1, <1>4, <2>1
  <2>2. CASE n # name
    BY <1>1, <1>4, <2>2 DEF Has
  <2> QED BY <2>1, <2>2
<1>5. Has(r, table, C \cup {c})
  BY <1>3, <1>4 DEF Has
<1>6. ASSUME NEW kind \in {"enum", "fk"}
      PROVE  /\ Named(r, kind) = Named(reg, kind) \cup (IF c.kind = kind THEN {name} ELSE {})
             /\ \A n \in Named(reg, kind) : r[n] = reg[n]
  <2>1. ASSUME NEW n \in Named(reg, kind) PROVE n \in Named(r, kind) /\ r[n] = reg[n]
    <3>1. n \in DOMAIN reg /\ reg[n].kind = kind /\ kind # "other"
      BY <2>1 DEF Named
    <3>2. CASE n = name
      BY <1>1, <1>2, <3>1, <3>2 DEF Named
    <3>3. CASE n # name
      BY <1>1, <3>1, <3>3 DEF Named
    <3> QED BY <3>2, <3>3
  <2>2. ASSUME NEW n \in Named(r, kind)
        PROVE  n \in Named(reg, kind) \/ (n = name /\ c.kind = kind)
    BY <1>1 DEF Named
  <2>3. c.kind = kind => name \in Named(r, kind)
    BY <1>1 DEF Named
  <2> QED BY <2>1, <2>2, <2>3
<1> QED BY <1>1, <1>5, <1>6 DEF Registers

\* The constraints of one kind and column, and of one kind, after a step of
\* the registry.
LEMMA OtherAgrees ==
    ASSUME NEW cols, NEW enum, NEW refs, NEW reg, NEW r, Agrees(cols, enum, refs, reg),
           \A kind \in {"enum", "fk"} : Named(r, kind) = Named(reg, kind),
           \A n \in Named(reg, "enum") \cup Named(reg, "fk") : r[n] = reg[n]
    PROVE  Agrees(cols, enum, refs, r)
<1>1. Named(r, "enum") = Named(reg, "enum") /\ Named(r, "fk") = Named(reg, "fk")
  OBVIOUS
<1>2. \A n \in Named(r, "enum") : r[n].col \in DOMAIN cols
  BY <1>1 DEF Agrees
<1>3. ASSUME NEW c \in DOMAIN cols
      PROVE  DOMAIN enum[c] = (UNION {r[n].values : n \in {n \in Named(r, "enum") : r[n].col = c}}) \ {Empty}
  <2>1. {n \in Named(r, "enum") : r[n].col = c} = {n \in Named(reg, "enum") : reg[n].col = c}
    BY <1>1
  <2>2. {r[n].values : n \in {n \in Named(r, "enum") : r[n].col = c}}
            = {reg[n].values : n \in {n \in Named(reg, "enum") : reg[n].col = c}}
    BY <2>1
  <2> QED BY <2>2 DEF Agrees
<1>4. {RefOf(r[n]) : n \in Named(r, "fk")} = {RefOf(reg[n]) : n \in Named(reg, "fk")}
  BY <1>1
<1>5. refs = {RefOf(r[n]) : n \in Named(r, "fk")}
  BY <1>4 DEF Agrees
<1> QED BY <1>2, <1>3, <1>5 DEF Agrees

LEMMA ForeignAgrees ==
    ASSUME NEW cols, NEW enum, NEW refs, NEW reg, NEW r, Agrees(cols, enum, refs, reg),
           NEW name, NEW c, r[name] = c,
           Named(r, "enum") = Named(reg, "enum"), Named(r, "fk") = Named(reg, "fk") \cup {name},
           \A n \in Named(reg, "enum") \cup Named(reg, "fk") : r[n] = reg[n]
    PROVE  Agrees(cols, enum, refs \cup {RefOf(c)}, r)
<1>2. \A n \in Named(r, "enum") : r[n].col \in DOMAIN cols
  BY DEF Agrees
<1>3. ASSUME NEW x \in DOMAIN cols
      PROVE  DOMAIN enum[x] = (UNION {r[n].values : n \in {n \in Named(r, "enum") : r[n].col = x}}) \ {Empty}
  <2>1. {n \in Named(r, "enum") : r[n].col = x} = {n \in Named(reg, "enum") : reg[n].col = x}
    OBVIOUS
  <2>2. {r[n].values : n \in {n \in Named(r, "enum") : r[n].col = x}}
            = {reg[n].values : n \in {n \in Named(reg, "enum") : reg[n].col = x}}
    BY <2>1
  <2> QED BY <2>2 DEF Agrees
<1>4. {RefOf(r[n]) : n \in Named(r, "fk")} = {RefOf(reg[n]) : n \in Named(reg, "fk")} \cup {RefOf(c)}
  OBVIOUS
<1>5. refs \cup {RefOf(c)} = {RefOf(r[n]) : n \in Named(r, "fk")}
  BY <1>4 DEF Agrees
<1> QED BY <1>2, <1>3, <1>5 DEF Agrees

\* The values of the column of c, and of it alone, grow by the ones c lists.
Grows(cols, enum, after, c) == \A x \in DOMAIN cols : DOMAIN after[x] =
    IF x = c.col THEN DOMAIN enum[x] \cup (c.values \ {Empty}) ELSE DOMAIN enum[x]

LEMMA EnumAgrees ==
    ASSUME NEW cols, NEW enum, NEW refs, NEW reg, NEW r, Agrees(cols, enum, refs, reg),
           NEW name, NEW c, r[name] = c, c.col \in DOMAIN cols,
           Named(r, "enum") = Named(reg, "enum") \cup {name}, Named(r, "fk") = Named(reg, "fk"),
           \A n \in Named(reg, "enum") \cup Named(reg, "fk") : r[n] = reg[n],
           NEW after, Grows(cols, enum, after, c)
    PROVE  Agrees(cols, after, refs, r)
<1>2. \A n \in Named(r, "enum") : r[n].col \in DOMAIN cols
  BY DEF Agrees
<1>3. ASSUME NEW x \in DOMAIN cols
      PROVE  DOMAIN after[x] = (UNION {r[n].values : n \in {n \in Named(r, "enum") : r[n].col = x}}) \ {Empty}
  <2> DEFINE old == {reg[n].values : n \in {n \in Named(reg, "enum") : reg[n].col = x}}
             new == {r[n].values : n \in {n \in Named(r, "enum") : r[n].col = x}}
  <2>1. DOMAIN enum[x] = (UNION old) \ {Empty}
    BY DEF Agrees
  <2>2. CASE x = c.col
    <3>1. new = old \cup {c.values}
      BY <2>2
    <3> HIDE DEF new, old
    <3>2. DOMAIN after[x] = DOMAIN enum[x] \cup (c.values \ {Empty})
      BY <2>2 DEF Grows
    <3>3. DOMAIN after[x] = (UNION new) \ {Empty}
      BY <2>1, <3>1, <3>2
    <3> QED BY <3>3 DEF new
  <2>3. CASE x # c.col
    <3>1. new = old
      BY <2>3
    <3> HIDE DEF new, old
    <3>2. DOMAIN after[x] = DOMAIN enum[x]
      BY <2>3 DEF Grows
    <3>3. DOMAIN after[x] = (UNION new) \ {Empty}
      BY <2>1, <3>1, <3>2
    <3> QED BY <3>3 DEF new
  <2> QED BY <2>2, <2>3
<1>4. {RefOf(r[n]) : n \in Named(r, "fk")} = {RefOf(reg[n]) : n \in Named(reg, "fk")}
  OBVIOUS
<1>5. refs = {RefOf(r[n]) : n \in Named(r, "fk")}
  BY <1>4 DEF Agrees
<1> QED BY <1>2, <1>3, <1>5 DEF Agrees

\* ADD CONSTRAINT: one with a name, or one that does not count.
LEMMA ConstraintStep ==
    ASSUME NEW t, Collected(t), NEW table, NEW C, Follows(t, table, C),
           NEW c, IsConstraint(c), Fresh(table, C, c),
           c.name # Anonymous \/ c.kind = "other",
           c.kind = "enum" => c.col \in DOMAIN t.cols
    PROVE  Follows(AddConstraint(t, c), table, C \cup {c})
<1> DEFINE u == AddConstraint(t, c)
           r == Put(t.reg, c.name, c)
<1>0. Agrees(t.cols, t.enum, t.refs, t.reg) /\ Has(t.reg, table, C)
  BY DEF Follows
<1>1. c.name = PgName(table, c) \/ (c.name = Anonymous /\ c.kind = "other")
  BY NameIs
<1>2. r = Put(t.reg, c.name, c)
  OBVIOUS
<1> HIDE DEF r
<1>3. Has(r, table, C \cup {c}) /\ Registers(t.reg, r, c.name, c)
  BY <1>0, <1>1, <1>2, RegisterHas
<1>4. /\ r[c.name] = c
      /\ Named(r, "enum") = Named(t.reg, "enum") \cup (IF c.kind = "enum" THEN {c.name} ELSE {})
      /\ Named(r, "fk") = Named(t.reg, "fk") \cup (IF c.kind = "fk" THEN {c.name} ELSE {})
      /\ \A n \in Named(t.reg, "enum") \cup Named(t.reg, "fk") : r[n] = t.reg[n]
  BY <1>3 DEF Registers
<1>5. Register(t, c.name, c) = Tab(t.schema, t.cols, t.enum, t.refs, r)
  BY <1>2, RegisterIs
<1>6. Collected(Register(t, c.name, c))
  BY StepsCollected
<1> DEFINE v == Register(t, c.name, c)
<1>7. /\ v.schema = t.schema /\ v.cols = t.cols /\ v.enum = t.enum /\ v.refs = t.refs
      /\ v.reg = r
  BY <1>5, TabFields
<1> HIDE DEF v
<1>8. CASE c.kind = "enum"
  <2> DEFINE enum == [t.enum EXCEPT ![c.col] = Listed(@, c.values \ {Empty})]
  <2>1. Enumerable(t, c)
    BY <1>8 DEF Enumerable
  <2>2. u = Attach(v, c)
    <3>1. u = CASE Enumerable(t, c) -> Attach(v, c)
                [] c.kind = "fk" -> Refer(v, c)
                [] OTHER -> Register(t, c.name, [c EXCEPT !.kind = "other"])
      BY DEF AddConstraint, v
    <3> HIDE DEF u
    <3> QED BY <1>8, <2>1, <3>1
  <2>3. Attach(v, c) = Tab(v.schema, v.cols, [v.enum EXCEPT ![c.col] = Listed(@, c.values \ {Empty})],
                           v.refs, v.reg)
    BY <1>6, AttachIs DEF v
  <2>4. Attach(v, c) = Tab(t.schema, t.cols, enum, t.refs, r)
    BY <1>7, <2>3
  <2>5. DOMAIN t.cols = DOMAIN t.enum /\ \A x \in DOMAIN t.enum : IsABag(t.enum[x])
    BY CollectedIs
  <2>6. Grows(t.cols, t.enum, enum, c)
    <3>1. \A x \in DOMAIN t.enum :
              DOMAIN Listed(t.enum[x], c.values \ {Empty}) = DOMAIN t.enum[x] \cup (c.values \ {Empty})
      BY <2>5, Bags
    <3>2. \A x \in DOMAIN t.enum :
              enum[x] = IF x = c.col THEN Listed(t.enum[x], c.values \ {Empty}) ELSE t.enum[x]
      OBVIOUS
    <3> HIDE DEF enum
    <3> QED BY <2>5, <3>1, <3>2 DEF Grows
  <2> HIDE DEF enum
  <2>7. Agrees(t.cols, enum, t.refs, r)
    <3>1. Named(r, "enum") = Named(t.reg, "enum") \cup {c.name} /\ Named(r, "fk") = Named(t.reg, "fk")
      BY <1>4, <1>8
    <3>2. c.col \in DOMAIN t.cols
      BY <1>8
    <3> QED BY <1>0, <1>4, <2>6, <3>1, <3>2, EnumAgrees
  <2>8. /\ u.cols = t.cols /\ u.enum = enum /\ u.refs = t.refs /\ u.reg = r
    <3> HIDE DEF u
    <3> QED BY <2>2, <2>4, TabFields
  <2> QED BY <1>3, <2>7, <2>8 DEF Follows
<1>9. CASE c.kind = "fk"
  <2>1. ~Enumerable(t, c)
    BY <1>9 DEF Enumerable
  <2>2. u = Refer(v, c)
    BY <1>9, <2>1 DEF AddConstraint, v
  <2>3. Refer(v, c) = Tab(v.schema, v.cols, v.enum, v.refs \cup {RefOf(c)}, v.reg)
    BY <1>6, ReferIs DEF v
  <2> HIDE DEF u
  <2>4. u.cols = t.cols /\ u.enum = t.enum /\ u.refs = t.refs \cup {RefOf(c)} /\ u.reg = r
    BY <1>7, <2>2, <2>3, TabFields
  <2>5. Agrees(t.cols, t.enum, t.refs \cup {RefOf(c)}, r)
    BY <1>0, <1>4, <1>9, ForeignAgrees
  <2> QED BY <1>3, <2>4, <2>5 DEF Follows, u
<1>10. CASE c.kind = "other"
  <2>1. ~Enumerable(t, c)
    BY <1>10 DEF Enumerable
  <2>2. u = Register(t, c.name, [c EXCEPT !.kind = "other"])
    BY <1>10, <2>1 DEF AddConstraint
  <2>3. [c EXCEPT !.kind = "other"] = c
    BY <1>10 DEF IsConstraint
  <2> HIDE DEF u
  <2>4. u = v
    BY <2>2, <2>3 DEF v
  <2>5. Agrees(t.cols, t.enum, t.refs, r)
    BY <1>0, <1>4, <1>10, OtherAgrees
  <2> QED BY <1>3, <1>7, <2>4, <2>5 DEF Follows, u
<1> QED BY <1>8, <1>9, <1>10 DEF IsConstraint

\* A constraint written with a column: an anonymous foreign key gets the name
\* PostgreSQL gives it.
LEMMA InlineStep ==
    ASSUME NEW t, Collected(t), NEW table, NEW C, Follows(t, table, C),
           NEW c, IsConstraint(c), Fresh(table, C, c), ~Missed(table, c)
    PROVE  Follows(AddInline(t, table, c), table, C \cup {c})
<1> DEFINE u == AddInline(t, table, c)
<1>0. ~Enumerable(t, c)
  BY DEF Enumerable, Missed
<1>1. CASE c.name # Anonymous
  <2>1. Columnless(c) = c /\ c.kind = "other"
    BY <1>1 DEF Columnless, Missed, IsConstraint
  <2>2. u = AddConstraint(t, c)
    BY <1>1, <2>1 DEF AddInline
  <2> HIDE DEF u
  <2>3. Follows(AddConstraint(t, c), table, C \cup {c})
    BY <2>1, ConstraintStep
  <2>4. Follows(u, table, C \cup {c})
    BY <2>2, <2>3
  <2> QED BY <2>4 DEF u
<1>2. CASE c.name = Anonymous /\ c.kind = "fk"
  <2> DEFINE name == AutoName(table, c)
             r == Put(t.reg, name, c)
             v == Register(t, name, c)
  <2>0. Agrees(t.cols, t.enum, t.refs, t.reg) /\ Has(t.reg, table, C)
    BY DEF Follows
  <2>1. name = PgName(table, c) /\ r = Put(t.reg, name, c)
    BY <1>2, NameIs
  <2>2. Collected(v)
    BY StepsCollected
  <2>3. v = Tab(t.schema, t.cols, t.enum, t.refs, r)
    BY RegisterIs
  <2>4. u = Refer(v, c)
    <3>1. CutName(table, c) = name
      BY <1>2 DEF CutName, Missed
    <3> QED BY <1>0, <1>2, <3>1 DEF AddInline
  <2> HIDE DEF u, v, r, name
  <2>5. Has(r, table, C \cup {c}) /\ Registers(t.reg, r, name, c)
    BY <2>0, <2>1, RegisterHas
  <2>6. /\ Named(r, "enum") = Named(t.reg, "enum") /\ Named(r, "fk") = Named(t.reg, "fk") \cup {name}
        /\ \A n \in Named(t.reg, "enum") \cup Named(t.reg, "fk") : r[n] = t.reg[n]
        /\ r[name] = c
    BY <1>2, <2>5 DEF Registers
  <2>7. Agrees(t.cols, t.enum, t.refs \cup {RefOf(c)}, r)
    BY <2>0, <2>6, ForeignAgrees
  <2>8. u = Tab(v.schema, v.cols, v.enum, v.refs \cup {RefOf(c)}, v.reg)
    BY <2>2, <2>4, ReferIs
  <2>9. u.cols = t.cols /\ u.enum = t.enum /\ u.refs = t.refs \cup {RefOf(c)} /\ u.reg = r
    BY <2>3, <2>8, TabFields
  <2> QED BY <2>5, <2>7, <2>9 DEF Follows, u
<1>3. CASE c.name = Anonymous /\ c.kind = "other"
  <2>1. u = t
    BY <1>0, <1>3 DEF AddInline
  <2> HIDE DEF u
  <2>2. Has(t.reg, table, C \cup {c})
    BY <1>3 DEF Follows, Has
  <2> QED BY <2>1, <2>2 DEF Follows, u
<1> QED BY <1>1, <1>2, <1>3 DEF IsConstraint, Missed

Clash(table, C) == \E c, d \in C : PgName(table, c) = PgName(table, d) /\ c # d

LEMMA InlinedStep ==
    ASSUME NEW t, Collected(t), NEW table, NEW C, Follows(t, table, C),
           NEW e, IsColumn(e), \A c \in Range(e.inline) : ~Missed(table, c),
           ~Clash(table, C \cup Range(e.inline))
    PROVE  Follows(Inlined(t, table, e.inline), table, C \cup Range(e.inline))
<1> DEFINE q == e.inline
           First(n) == {q[i] : i \in 1..n}
<1>1. /\ Len(q) \in Nat
      /\ \A i \in 1..Len(q) : q[i] \in Range(q) /\ IsConstraint(q[i]) /\ ~Missed(table, q[i])
      /\ Range(q) = First(Len(q))
  <2>1. /\ Len(q) \in Nat
        /\ \A i \in 1..Len(q) : q[i] \in Range(q)
        /\ \A x \in Range(q) : \E i \in 1..Len(q) : x = q[i]
    BY RangeIs DEF IsColumn
  <2>2. \A i \in 1..Len(q) : IsConstraint(q[i]) /\ ~Missed(table, q[i])
    BY <2>1 DEF IsColumn
  <2>3. Range(q) = First(Len(q))
    <3> HIDE DEF q
    <3> QED BY <2>1
  <2> QED BY <2>1, <2>2, <2>3
<1>2. PICK after :
         /\ after[0] = t
         /\ \A i \in 1..Len(q) : after[i] = AddInline(after[i - 1], table, q[i])
         /\ Inlined(t, table, q) = after[Len(q)]
  <2>1. Len(e.inline) \in Nat
    BY <1>1
  <2> QED BY <2>1, InlinedIs
<1>3. ~Clash(table, C \cup Range(q))
  OBVIOUS
<1> HIDE DEF q
<1> DEFINE Good(n) == Collected(after[n]) /\ Follows(after[n], table, C \cup First(n))
           S == {n \in Nat : n <= Len(q) => Good(n)}
<1>4. 0 \in S
  <2>1. C \cup First(0) = C
    OBVIOUS
  <2>2. Good(0)
    BY <1>2, <2>1
  <2> HIDE DEF Good
  <2> QED BY <2>2
<1>5. ASSUME NEW n \in S PROVE n + 1 \in S
  <2>0. n \in Nat /\ n + 1 \in Nat
    BY <1>5
  <2> SUFFICES ASSUME n + 1 <= Len(q) PROVE Good(n + 1)
    <3> HIDE DEF Good
    <3> QED BY <2>0
  <2>1. n + 1 \in 1..Len(q) /\ n + 1 - 1 = n /\ n <= Len(q) /\ 1..n \subseteq 1..Len(q)
    BY <1>1, <2>0
  <2> DEFINE v == after[n]
             u == after[n + 1]
             c == q[n + 1]
             D == C \cup First(n)
  <2>2. Collected(v) /\ Follows(v, table, D)
    <3>1. Good(n)
      <4> HIDE DEF Good
      <4> QED BY <1>5, <2>1
    <3> QED BY <3>1
  <2>3. u = AddInline(v, table, c)
    BY <1>2, <2>1
  <2>4. IsConstraint(c) /\ ~Missed(table, c) /\ c \in Range(q)
    BY <1>1, <2>1
  <2>5. D \cup {c} = C \cup First(n + 1)
    BY <2>0
  <2>6. D \subseteq C \cup Range(q)
    BY <1>1, <2>1
  <2> HIDE DEF u, v, c, D
  <2>7. Fresh(table, D, c)
    BY <1>3, <2>4, <2>6 DEF Fresh, Clash
  <2>8. Collected(u)
    BY <2>2, <2>3, <2>4, AddInlineCollected
  <2>9. Follows(u, table, D \cup {c})
    BY <2>2, <2>3, <2>4, <2>7, InlineStep
  <2> QED BY <2>5, <2>8, <2>9 DEF u
<1>6. S = Nat
  <2> HIDE DEF S
  <2>1. S \in SUBSET Nat
    BY DEF S
  <2> QED BY <1>4, <1>5, <2>1, Induct
<1>7. Good(Len(q))
  <2>1. \A n \in Nat : n <= Len(q) => Good(n)
    <3> HIDE DEF Good
    <3> QED BY <1>6
  <2>2. Len(q) \in Nat /\ Len(q) <= Len(q)
    BY <1>1
  <2> HIDE DEF Good, S
  <2> QED BY <2>1, <2>2
<1>8. Follows(after[Len(q)], table, C \cup Range(q))
  <2> HIDE DEF First
  <2> QED BY <1>1, <1>7
<1> QED BY <1>2, <1>8 DEF q

\* ADD COLUMN: a new column has no values, and none of the constraints is on it.
LEMMA AddColumnStep ==
    ASSUME NEW t, Collected(t), NEW table, NEW C, Follows(t, table, C),
           NEW e, IsColumn(e), e.name \notin DOMAIN t.cols,
           \A c \in Range(e.inline) : ~Missed(table, c),
           ~Clash(table, C \cup Range(e.inline))
    PROVE  Follows(AddColumn(t, table, e), table, C \cup Range(e.inline))
<1> DEFINE v == Inlined(t, table, e.inline)
           u == AddColumn(t, table, e)
           D == C \cup Range(e.inline)
           cols == Put(v.cols, e.name, e.type)
           enum == Put(v.enum, e.name, EmptyBag)
<1>1. Collected(v) /\ v.cols = t.cols
  BY InlinedCollected
<1>2. Follows(v, table, D)
  BY InlinedStep
<1>3. u = Tab(v.schema, cols, enum, v.refs, v.reg)
  BY AddColumnIs
<1>4. DOMAIN cols = DOMAIN v.cols \cup {e.name} /\ enum[e.name] = EmptyBag
  BY DEF Put
<1>5. \A x \in DOMAIN v.cols : x # e.name /\ enum[x] = v.enum[x]
  <2>1. DOMAIN v.cols = DOMAIN v.enum
    BY <1>1, CollectedIs
  <2>2. \A x \in DOMAIN v.enum : x # e.name => enum[x] = v.enum[x]
    BY DEF Put
  <2> HIDE DEF enum, v
  <2> QED BY <1>1, <2>1, <2>2
<1> HIDE DEF v, u, D, cols, enum
<1>6. Agrees(v.cols, v.enum, v.refs, v.reg) /\ Has(v.reg, table, D)
  BY <1>2 DEF Follows
<1>7. Agrees(cols, enum, v.refs, v.reg)
  <2>1. \A n \in Named(v.reg, "enum") : v.reg[n].col \in DOMAIN v.cols
    BY <1>6 DEF Agrees
  <2>2. ASSUME NEW c \in DOMAIN cols
        PROVE  DOMAIN enum[c] = (UNION {v.reg[n].values :
                        n \in {n \in Named(v.reg, "enum") : v.reg[n].col = c}}) \ {Empty}
    <3>1. CASE c = e.name
      <4>1. {n \in Named(v.reg, "enum") : v.reg[n].col = c} = {}
        BY <1>5, <2>1, <3>1
      <4>2. DOMAIN enum[c] = {}
        BY <1>4, <3>1, Bags
      <4> QED BY <4>1, <4>2
    <3>2. CASE c # e.name
      <4>1. c \in DOMAIN v.cols /\ enum[c] = v.enum[c]
        BY <1>4, <1>5, <3>2
      <4> QED BY <1>6, <4>1 DEF Agrees
    <3> QED BY <3>1, <3>2
  <2>3. \A n \in Named(v.reg, "enum") : v.reg[n].col \in DOMAIN cols
    BY <1>4, <2>1
  <2>4. v.refs = {RefOf(v.reg[n]) : n \in Named(v.reg, "fk")}
    BY <1>6 DEF Agrees
  <2> QED BY <2>2, <2>3, <2>4 DEF Agrees
<1>8. u.cols = cols /\ u.enum = enum /\ u.refs = v.refs /\ u.reg = v.reg
  BY <1>3, TabFields
<1>9. Follows(u, table, D)
  BY <1>6, <1>7, <1>8 DEF Follows
<1> QED BY <1>9 DEF u, D

LEMMA BlankFollows == ASSUME NEW schema, NEW table PROVE Follows(Blank(schema), table, {})
<1>1. DOMAIN Nothing = {}
  BY DEF Nothing
<1>2. /\ Blank(schema).cols = Nothing /\ Blank(schema).enum = Nothing
      /\ Blank(schema).refs = {} /\ Blank(schema).reg = Nothing
  BY DEF Blank
<1>3. \A kind : Named(Nothing, kind) = {}
  BY <1>1 DEF Named
<1>4. Agrees(Nothing, Nothing, {}, Nothing)
  BY <1>1, <1>3 DEF Agrees
<1>5. Has(Nothing, table, {})
  BY <1>1 DEF Has
<1> QED BY <1>2, <1>4, <1>5 DEF Follows

\* The constraints one element of a CREATE TABLE adds.
Adds(e) == IF e.el = "column" THEN Range(e.inline) ELSE {e.con}

LEMMA ElementStep ==
    ASSUME NEW t, Collected(t), NEW table, NEW C, Follows(t, table, C), NEW e,
           \/ e.el = "column" /\ IsColumn(e)
           \/ e.el = "constraint" /\ IsConstraint(e.con),
           e.el = "column" => /\ e.name \notin DOMAIN t.cols
                              /\ \A c \in Range(e.inline) : ~Missed(table, c),
           e.el = "constraint" => /\ e.con.name # Anonymous \/ e.con.kind = "other"
                                  /\ e.con.kind = "enum" => e.con.col \in DOMAIN t.cols,
           ~Clash(table, C \cup Adds(e))
    PROVE  Follows(AddElement(t, table, e), table, C \cup Adds(e))
<1>1. CASE e.el = "column" /\ IsColumn(e)
  <2>1. AddElement(t, table, e) = AddColumn(t, table, e) /\ Adds(e) = Range(e.inline)
    BY <1>1 DEF AddElement, Adds
  <2>2. ~Clash(table, C \cup Range(e.inline))
    BY <2>1
  <2>3. Follows(AddColumn(t, table, e), table, C \cup Range(e.inline))
    BY <1>1, <2>2, AddColumnStep
  <2> QED BY <2>1, <2>3
<1>2. CASE e.el = "constraint" /\ IsConstraint(e.con)
  <2> DEFINE c == e.con
  <2>1. AddElement(t, table, e) = AddConstraint(t, c) /\ Adds(e) = {c}
    BY <1>2 DEF AddElement, Adds
  <2>2. c.name # Anonymous \/ c.kind = "other"
    BY <1>2
  <2>3. c.kind = "enum" => c.col \in DOMAIN t.cols
    BY <1>2
  <2>4. IsConstraint(c)
    BY <1>2
  <2> HIDE DEF c
  <2>5. Fresh(table, C, c)
    BY <2>1 DEF Clash, Fresh
  <2>6. Follows(AddConstraint(t, c), table, C \cup {c})
    BY <2>2, <2>3, <2>4, <2>5, ConstraintStep
  <2> QED BY <2>1, <2>6
<1> QED BY <1>1, <1>2

\* CREATE TABLE, of constraints the collector follows.
LEMMA BuildFollows ==
    ASSUME NEW s, IsTable(s.elements), ~Early(s.table, s.elements),
           ~Nameless({e.con : e \in Range(s.elements) \ Columns(s.elements)}),
           ~Clash(s.table, Written(s.elements))
    PROVE  Follows(Build(s), s.table, Written(s.elements))
<1> DEFINE q == s.elements
           First(n) == UNION {Adds(q[i]) : i \in 1..n}
<1>1. /\ Len(q) \in Nat /\ DOMAIN q = 1..Len(q)
      /\ \A i \in 1..Len(q) : q[i] \in Range(q)
      /\ \A x \in Range(q) : \E i \in 1..Len(q) : x = q[i]
  BY RangeIs DEF IsTable
<1>2. PICK after :
         /\ after[0] = Blank(s.schema)
         /\ \A i \in 1..Len(q) : after[i] = AddElement(after[i - 1], s.table, q[i])
         /\ Build(s) = after[Len(q)]
  BY <1>1, BuildIs
<1>3. \A i, j \in 1..Len(q) : q[i].el = "column" /\ q[j].el = "column" /\ q[i].name = q[j].name => i = j
  BY <1>1 DEF IsTable
<1>4. ASSUME NEW i \in 1..Len(q)
      PROVE  \/ q[i].el = "column" /\ IsColumn(q[i])
             \/ q[i].el = "constraint" /\ IsConstraint(q[i].con)
  <2>1. \A e \in Range(q) : \/ e.el = "column" /\ IsColumn(e)
                            \/ e.el = "constraint" /\ IsConstraint(e.con)
    BY DEF IsTable
  <2> HIDE DEF q
  <2>2. q[i] \in Range(q)
    BY <1>1
  <2> QED BY <2>1, <2>2
<1>5. /\ \A i \in 1..Len(q) : q[i].el = "column" => \A c \in Range(q[i].inline) : ~Missed(s.table, c)
      /\ \A i \in 1..Len(q) : q[i].el = "constraint" /\ q[i].con.kind = "enum" =>
            \E j \in 1..(i - 1) : q[j].el = "column" /\ q[j].name = q[i].con.col
  BY <1>1 DEF Early
<1>6. ASSUME NEW i \in 1..Len(q), q[i].el = "constraint"
      PROVE  q[i].con.name # Anonymous \/ q[i].con.kind = "other"
  <2>1. q[i] \in Range(q) \ Columns(q)
    BY <1>1, <1>6 DEF Columns
  <2> HIDE DEF q
  <2>2. q[i].con \in {e.con : e \in Range(q) \ Columns(q)}
    BY <2>1
  <2> QED BY <2>2 DEF Nameless, q
<1>7. ~Clash(s.table, Written(q))
  OBVIOUS
<1>8. Written(q) = First(Len(q))
  <2>1. Written(q) = UNION {Adds(e) : e \in Range(q)}
    BY DEF Written, Adds
  <2> HIDE DEF q
  <2>2. {Adds(e) : e \in Range(q)} = {Adds(q[i]) : i \in 1..Len(q)}
    BY <1>1
  <2> QED BY <2>1, <2>2
<1> HIDE DEF q
<1> DEFINE Good(u, n) ==
             /\ Collected(u) /\ Follows(u, s.table, First(n))
             /\ \A x : x \in DOMAIN u.cols <=> \E i \in 1..n : q[i].el = "column" /\ q[i].name = x
           S == {n \in Nat : n <= Len(q) => Good(after[n], n)}
<1>9. 0 \in S
  <2>1. Collected(Blank(s.schema)) /\ DOMAIN Blank(s.schema).cols = {}
    BY BlankCollected DEF Blank, Nothing
  <2>2. First(0) = {}
    OBVIOUS
  <2> HIDE DEF First
  <2>3. Good(after[0], 0)
    BY <1>2, <2>1, <2>2, BlankFollows
  <2> HIDE DEF Good
  <2> QED BY <2>3
<1>10. ASSUME NEW n \in S PROVE n + 1 \in S
  <2>0. n \in Nat /\ n + 1 \in Nat
    BY <1>10
  <2> SUFFICES ASSUME n + 1 <= Len(q) PROVE Good(after[n + 1], n + 1)
    <3> HIDE DEF Good
    <3> QED BY <2>0
  <2>1. n + 1 \in 1..Len(q) /\ n + 1 - 1 = n /\ n <= Len(q) /\ 1..n \subseteq 1..Len(q)
    BY <1>1, <2>0
  <2> DEFINE t == after[n]
             u == after[n + 1]
             e == q[n + 1]
             C == First(n)
  <2>2. Good(t, n)
    <3> HIDE DEF Good
    <3> QED BY <1>10, <2>1
  <2>3. u = AddElement(t, s.table, e)
    BY <1>2, <2>1
  <2>4. C \cup Adds(e) = First(n + 1)
    BY <2>0
  <2>5. First(n + 1) \subseteq Written(q)
    BY <1>8, <2>0, <2>1
  <2>6. /\ Collected(t) /\ Follows(t, s.table, C)
        /\ \A x : x \in DOMAIN t.cols <=> \E i \in 1..n : q[i].el = "column" /\ q[i].name = x
    BY <2>2
  <2>7. \/ e.el = "column" /\ IsColumn(e)
        \/ e.el = "constraint" /\ IsConstraint(e.con)
    BY <1>4, <2>1
  <2> HIDE DEF t, u, C, First
  <2>8. e.el = "column" => e.name \notin DOMAIN t.cols /\ \A c \in Range(e.inline) : ~Missed(s.table, c)
    <3>1. e.el = "column" => \A c \in Range(e.inline) : ~Missed(s.table, c)
      BY <1>5, <2>1
    <3>2. ASSUME e.el = "column", NEW i \in 1..n, q[i].el = "column" PROVE q[i].name # e.name
      <4>1. i \in 1..Len(q) /\ i # n + 1
        BY <2>0, <2>1
      <4> QED BY <1>3, <2>1, <3>2, <4>1
    <3> QED BY <2>6, <3>1, <3>2
  <2>9. e.el = "constraint" => /\ e.con.name # Anonymous \/ e.con.kind = "other"
                               /\ e.con.kind = "enum" => e.con.col \in DOMAIN t.cols
    <3>1. e.el = "constraint" => e.con.name # Anonymous \/ e.con.kind = "other"
      BY <1>6, <2>1
    <3>2. ASSUME e.el = "constraint", e.con.kind = "enum" PROVE e.con.col \in DOMAIN t.cols
      <4>1. PICK j \in 1..(n + 1 - 1) : q[j].el = "column" /\ q[j].name = e.con.col
        BY <1>5, <2>1, <3>2
      <4> QED BY <2>1, <2>6, <4>1
    <3> QED BY <3>1, <3>2
  <2>10. ~Clash(s.table, C \cup Adds(e))
    BY <1>7, <2>4, <2>5 DEF Clash
  <2>11. /\ Collected(u)
         /\ u.cols = IF e.el = "column" THEN Put(t.cols, e.name, e.type) ELSE t.cols
    BY <2>3, <2>6, <2>7, AddElementCollected
  <2>13. \A i \in 1..(n + 1) : i \in 1..n \/ i = n + 1
    BY <2>0
  <2>14. 1..n \subseteq 1..(n + 1) /\ n + 1 \in 1..(n + 1) /\ q[n + 1] = e
    BY <2>0
  <2> HIDE DEF e
  <2>12. Follows(u, s.table, First(n + 1))
    <3>1. Collected(t) /\ Follows(t, s.table, C)
      BY <2>6
    <3>2. Follows(AddElement(t, s.table, e), s.table, C \cup Adds(e))
      BY <2>7, <2>8, <2>9, <2>10, <3>1, ElementStep
    <3> QED BY <2>3, <2>4, <3>2
  <2>15. \A x : x \in DOMAIN u.cols <=> \E i \in 1..(n + 1) : q[i].el = "column" /\ q[i].name = x
    <3>1. CASE e.el = "column"
      <4>1. DOMAIN u.cols = DOMAIN t.cols \cup {e.name}
        BY <2>11, <3>1 DEF Put
      <4> QED BY <2>6, <2>13, <2>14, <3>1, <4>1
    <3>2. CASE e.el # "column"
      <4>1. u.cols = t.cols
        BY <2>11, <3>2
      <4> QED BY <2>6, <2>13, <2>14, <3>2, <4>1
    <3> QED BY <3>1, <3>2
  <2> QED BY <2>11, <2>12, <2>15 DEF u
<1>11. S = Nat
  <2> HIDE DEF S
  <2>1. S \in SUBSET Nat
    BY DEF S
  <2> QED BY <1>9, <1>10, <2>1, Induct
<1>12. Good(Build(s), Len(q))
  <2>1. \A n \in Nat : n <= Len(q) => Good(after[n], n)
    <3> HIDE DEF Good
    <3> QED BY <1>11
  <2>2. Len(q) \in Nat /\ Len(q) <= Len(q)
    BY <1>1
  <2> HIDE DEF Good, S
  <2> QED BY <1>2, <2>1, <2>2
<1>13. Follows(Build(s), s.table, First(Len(q)))
  BY <1>12
<1> QED BY <1>8, <1>13 DEF q

\* DROP COLUMN: a column without constraints that count.
LEMMA DropColumnStep ==
    ASSUME NEW t, Collected(t), NEW table, NEW C, Follows(t, table, C),
           NEW x, \A c \in C : c.col = x => c.kind = "other"
    PROVE  Follows(DropColumn(t, x), table, {c \in C : c.col # x})
<1> DEFINE u == DropColumn(t, x)
           cols == Restrict(t.cols, DOMAIN t.cols \ {x})
           enum == Restrict(t.enum, DOMAIN t.enum \ {x})
<1>1. u.cols = cols /\ u.enum = enum /\ u.refs = t.refs /\ u.reg = t.reg
  <2>1. u = Tab(t.schema, cols, enum, t.refs, t.reg)
    BY DropColumnCollected
  <2> HIDE DEF u, cols, enum
  <2> QED BY <2>1, TabFields
<1>2. /\ DOMAIN cols = DOMAIN t.cols \ {x}
      /\ \A y \in DOMAIN cols : enum[y] = t.enum[y]
  <2>1. DOMAIN t.cols = DOMAIN t.enum
    BY CollectedIs
  <2> QED BY <2>1 DEF Restrict
<1> HIDE DEF u, cols, enum
<1>3. Agrees(t.cols, t.enum, t.refs, t.reg) /\ Has(t.reg, table, C)
  BY DEF Follows
<1>4. \A n \in Named(t.reg, "enum") : t.reg[n].col # x
  BY <1>3 DEF Has, Named
<1>5. Agrees(cols, enum, t.refs, t.reg)
  <2>1. \A n \in Named(t.reg, "enum") : t.reg[n].col \in DOMAIN cols
    BY <1>2, <1>3, <1>4 DEF Agrees
  <2>2. ASSUME NEW c \in DOMAIN cols
        PROVE  DOMAIN enum[c] = (UNION {t.reg[n].values :
                        n \in {n \in Named(t.reg, "enum") : t.reg[n].col = c}}) \ {Empty}
    <3>1. c \in DOMAIN t.cols /\ enum[c] = t.enum[c]
      BY <1>2
    <3> QED BY <1>3, <3>1 DEF Agrees
  <2>3. t.refs = {RefOf(t.reg[n]) : n \in Named(t.reg, "fk")}
    BY <1>3 DEF Agrees
  <2> QED BY <2>1, <2>2, <2>3 DEF Agrees
<1>6. Has(t.reg, table, {c \in C : c.col # x})
  BY <1>3 DEF Has
<1> QED BY <1>1, <1>5, <1>6 DEF Follows, u

\* ALTER COLUMN TYPE changes nothing else.
LEMMA RetypeStep ==
    ASSUME NEW t, Collected(t), NEW table, NEW C, Follows(t, table, C), NEW x, NEW type
    PROVE  Follows(Retyped(t, x, type), table, C)
<1> DEFINE u == Retyped(t, x, type)
           cols == [t.cols EXCEPT ![x] = type]
<1>1. u = Tab(t.schema, cols, t.enum, t.refs, t.reg)
  BY RetypeIs
<1>2. DOMAIN cols = DOMAIN t.cols
  OBVIOUS
<1> HIDE DEF u, cols
<1>3. u.cols = cols /\ u.enum = t.enum /\ u.refs = t.refs /\ u.reg = t.reg
  BY <1>1, TabFields
<1>4. Agrees(cols, t.enum, t.refs, t.reg)
  BY <1>2 DEF Follows, Agrees
<1> QED BY <1>3, <1>4 DEF Follows, u

\* The registry without one of its names.
Forgets(reg, r, name) ==
    /\ \A n \in DOMAIN r : n \in DOMAIN reg /\ n # name /\ r[n] = reg[n]
    /\ Named(r, "enum") = Named(reg, "enum") \ {name}
    /\ Named(r, "fk") = Named(reg, "fk") \ {name}

LEMMA ForgetHas ==
    ASSUME NEW reg, NEW table, NEW C, NEW c \in C, Has(reg, table, C), Fresh(table, C, c),
           NEW name, name = PgName(table, c), NEW r, r = Restrict(reg, DOMAIN reg \ {name})
    PROVE  Has(r, table, C \ {c}) /\ Forgets(reg, r, name)
<1>1. DOMAIN r = DOMAIN reg \ {name} /\ \A n \in DOMAIN r : r[n] = reg[n]
  BY DEF Restrict
<1>2. \A n \in DOMAIN reg : reg[n].kind # "other" => reg[n] \in C /\ PgName(table, reg[n]) = n
  BY DEF Has
<1>3. ASSUME NEW d \in C \ {c}, d.kind # "other"
      PROVE  PgName(table, d) \in DOMAIN r /\ r[PgName(table, d)] = d
  <2>1. PgName(table, d) # name
    BY <1>3 DEF Fresh
  <2>2. PgName(table, d) \in DOMAIN reg /\ reg[PgName(table, d)] = d
    BY <1>3 DEF Has
  <2> QED BY <1>1, <2>1, <2>2
<1>4. ASSUME NEW n \in DOMAIN r, r[n].kind # "other"
      PROVE  r[n] \in C \ {c} /\ PgName(table, r[n]) = n
  <2>1. n \in DOMAIN reg /\ n # name /\ r[n] = reg[n]
    BY <1>1
  <2>2. reg[n] \in C /\ PgName(table, reg[n]) = n
    BY <1>2, <1>4, <2>1
  <2> QED BY <2>1, <2>2
<1>5. Has(r, table, C \ {c})
  BY <1>3, <1>4 DEF Has
<1>6. Named(r, "enum") = Named(reg, "enum") \ {name} /\ Named(r, "fk") = Named(reg, "fk") \ {name}
  BY <1>1 DEF Named
<1> QED BY <1>1, <1>5, <1>6 DEF Forgets

\* DROP CONSTRAINT: an enum column keeps the values of the constraints that
\* remain, and no other foreign key has the edge of the one that goes.
LEMMA DropConstraintStep ==
    ASSUME NEW t, Collected(t), NEW table, NEW C, Follows(t, table, C), ~Twice(C),
           NEW c \in C, IsConstraint(c), Fresh(table, C, c),
           NEW name, name = PgName(table, c)
    PROVE  Follows(DropConstraint(t, name), table, C \ {c})
<1> DEFINE u == DropConstraint(t, name)
           rest == Restrict(t.reg, DOMAIN t.reg \ {name})
<1>0. Agrees(t.cols, t.enum, t.refs, t.reg) /\ Has(t.reg, table, C)
  BY DEF Follows
<1>1. /\ Has(rest, table, C \ {c})
      /\ \A n \in DOMAIN rest : n \in DOMAIN t.reg /\ n # name /\ rest[n] = t.reg[n]
      /\ Named(rest, "enum") = Named(t.reg, "enum") \ {name}
      /\ Named(rest, "fk") = Named(t.reg, "fk") \ {name}
  <2>1. rest = Restrict(t.reg, DOMAIN t.reg \ {name})
    OBVIOUS
  <2> HIDE DEF rest
  <2>2. Has(rest, table, C \ {c}) /\ Forgets(t.reg, rest, name)
    BY <1>0, <2>1, ForgetHas
  <2> QED BY <2>2 DEF Forgets
<1>2. t = [schema |-> t.schema, cols |-> t.cols, enum |-> t.enum, refs |-> t.refs, reg |-> t.reg]
  BY DEF Collected
<1>3. CASE name \notin DOMAIN t.reg
  <2>1. u = t
    BY <1>3 DEF DropConstraint
  <2>2. c.kind = "other"
    BY <1>0, <1>3 DEF Has
  <2>3. Has(t.reg, table, C \ {c})
    BY <1>0, <2>2 DEF Has
  <2> HIDE DEF u
  <2> QED BY <1>0, <2>1, <2>3 DEF Follows, u
<1>4. CASE name \in DOMAIN t.reg /\ c.kind = "other"
  <2> DEFINE con == t.reg[name]
  <2>1. con.kind = "other"
    BY <1>0, <1>4 DEF Has, Fresh
  <2>2. u = [t EXCEPT !.reg = rest]
    BY <1>4, <2>1 DEF DropConstraint
  <2> HIDE DEF u, rest
  <2>3. u.cols = t.cols /\ u.enum = t.enum /\ u.refs = t.refs /\ u.reg = rest
    BY <1>2, <2>2
  <2>4. name \notin Named(t.reg, "enum") /\ name \notin Named(t.reg, "fk")
    BY <2>1 DEF Named
  <2>5. /\ \A kind \in {"enum", "fk"} : Named(rest, kind) = Named(t.reg, kind)
        /\ \A n \in Named(t.reg, "enum") \cup Named(t.reg, "fk") : rest[n] = t.reg[n]
    BY <1>1, <2>4 DEF Named
  <2>6. Agrees(t.cols, t.enum, t.refs, rest)
    BY <1>0, <2>5, OtherAgrees
  <2> QED BY <1>1, <2>3, <2>6 DEF Follows, u
<1>5. c.kind # "other" => t.reg[name] = c
  BY <1>0 DEF Has
<1>6. \A n \in Named(rest, "enum") \cup Named(rest, "fk") : rest[n] = t.reg[n]
  BY <1>1 DEF Named
<1>7. CASE name \in DOMAIN t.reg /\ c.kind = "enum"
  <2> DEFINE left == {rest[n] : n \in {n \in DOMAIN rest : rest[n].kind = "enum" /\ rest[n].col = c.col}}
             bag == SetToBag((UNION {d.values : d \in left}) \ {Empty})
             enum == [t.enum EXCEPT ![c.col] = bag]
  <2>0. name \in Named(t.reg, "enum")
    BY <1>5, <1>7 DEF Named
  <2>1. c.col \in DOMAIN t.cols /\ DOMAIN t.cols = DOMAIN t.enum
    BY <1>0, <1>5, <1>7, <2>0, CollectedIs DEF Agrees
  <2>2. u = [t EXCEPT !.reg = rest, !.enum[c.col] = bag]
    BY <1>5, <1>7, <2>1 DEF DropConstraint
  <2>3. DOMAIN bag = (UNION {d.values : d \in left}) \ {Empty}
    BY Bags
  <2>4. {d.values : d \in left} =
            {rest[n].values : n \in {n \in Named(rest, "enum") : rest[n].col = c.col}}
    BY DEF Named
  <2> HIDE DEF u, rest, left, bag
  <2>5. u.cols = t.cols /\ u.enum = enum /\ u.refs = t.refs /\ u.reg = rest
    BY <1>2, <2>2
  <2>6. enum[c.col] = bag /\ \A x \in DOMAIN t.cols : x # c.col => enum[x] = t.enum[x]
    BY <2>1
  <2> HIDE DEF enum
  <2>7. ASSUME NEW x \in DOMAIN t.cols
        PROVE  DOMAIN enum[x] = (UNION {rest[n].values :
                        n \in {n \in Named(rest, "enum") : rest[n].col = x}}) \ {Empty}
    <3>1. CASE x = c.col
      BY <2>3, <2>4, <2>6, <3>1
    <3>2. CASE x # c.col
      <4>1. {n \in Named(rest, "enum") : rest[n].col = x} = {n \in Named(t.reg, "enum") : t.reg[n].col = x}
        BY <1>1, <1>5, <1>6, <1>7, <3>2
      <4>2. {rest[n].values : n \in {n \in Named(rest, "enum") : rest[n].col = x}}
                = {t.reg[n].values : n \in {n \in Named(t.reg, "enum") : t.reg[n].col = x}}
        BY <1>6, <4>1
      <4>3. enum[x] = t.enum[x]
        BY <2>6, <3>2
      <4> QED BY <1>0, <4>2, <4>3 DEF Agrees
    <3> QED BY <3>1, <3>2
  <2>8. \A n \in Named(rest, "enum") : rest[n].col \in DOMAIN t.cols
    BY <1>0, <1>1, <1>6 DEF Agrees
  <2>9. Named(rest, "fk") = Named(t.reg, "fk")
    BY <1>1, <1>5, <1>7 DEF Named
  <2>10. {RefOf(rest[n]) : n \in Named(rest, "fk")} = {RefOf(t.reg[n]) : n \in Named(t.reg, "fk")}
    BY <1>6, <2>9
  <2>11. t.refs = {RefOf(rest[n]) : n \in Named(rest, "fk")}
    BY <1>0, <2>10 DEF Agrees
  <2>12. Agrees(t.cols, enum, t.refs, rest)
    BY <2>7, <2>8, <2>11 DEF Agrees
  <2> QED BY <1>1, <2>5, <2>12 DEF Follows, u
<1>8. CASE name \in DOMAIN t.reg /\ c.kind = "fk"
  <2> DEFINE refs == t.refs \ {RefOf(c)}
  <2>1. u = [t EXCEPT !.reg = rest, !.refs = refs]
    BY <1>5, <1>8 DEF DropConstraint
  <2> HIDE DEF u, rest, refs
  <2>2. u.cols = t.cols /\ u.enum = t.enum /\ u.refs = refs /\ u.reg = rest
    BY <1>2, <2>1
  <2>3. Named(rest, "enum") = Named(t.reg, "enum")
    BY <1>1, <1>5, <1>8 DEF Named
  <2>4. ASSUME NEW x \in DOMAIN t.cols
        PROVE  DOMAIN t.enum[x] = (UNION {rest[n].values :
                        n \in {n \in Named(rest, "enum") : rest[n].col = x}}) \ {Empty}
    <3>1. {n \in Named(rest, "enum") : rest[n].col = x} = {n \in Named(t.reg, "enum") : t.reg[n].col = x}
      BY <1>6, <2>3
    <3>2. {rest[n].values : n \in {n \in Named(rest, "enum") : rest[n].col = x}}
              = {t.reg[n].values : n \in {n \in Named(t.reg, "enum") : t.reg[n].col = x}}
      BY <1>6, <3>1
    <3> QED BY <1>0, <3>2 DEF Agrees
  <2>5. \A n \in Named(rest, "enum") : rest[n].col \in DOMAIN t.cols
    BY <1>0, <1>6, <2>3 DEF Agrees
  <2>6. t.refs = {RefOf(t.reg[n]) : n \in Named(t.reg, "fk")}
    BY <1>0 DEF Agrees
  <2>7. ASSUME NEW n \in Named(rest, "fk") PROVE RefOf(rest[n]) # RefOf(c)
    <3>1. n \in DOMAIN rest /\ rest[n].kind = "fk"
      BY <2>7 DEF Named
    <3>2. rest[n] \in C \ {c}
      BY <1>1, <3>1 DEF Has
    <3> QED BY <1>8, <3>1, <3>2 DEF Twice
  <2>8. refs = {RefOf(rest[n]) : n \in Named(rest, "fk")}
    <3>1. \A n \in Named(t.reg, "fk") : n # name => n \in Named(rest, "fk") /\ rest[n] = t.reg[n]
      BY <1>1, <1>6
    <3>2. \A n \in Named(rest, "fk") : n \in Named(t.reg, "fk") /\ rest[n] = t.reg[n]
      BY <1>1, <1>6
    <3>3. refs \subseteq {RefOf(rest[n]) : n \in Named(rest, "fk")}
      <4>1. ASSUME NEW r \in refs PROVE r \in {RefOf(rest[n]) : n \in Named(rest, "fk")}
        <5>1. PICK n \in Named(t.reg, "fk") : r = RefOf(t.reg[n])
          BY <2>6 DEF refs
        <5>2. n # name
          BY <1>5, <1>8, <5>1 DEF refs
        <5> QED BY <3>1, <5>1, <5>2
      <4> QED BY <4>1
    <3>4. {RefOf(rest[n]) : n \in Named(rest, "fk")} \subseteq refs
      BY <2>6, <2>7, <3>2 DEF refs
    <3> QED BY <3>3, <3>4
  <2>9. Agrees(t.cols, t.enum, refs, rest)
    BY <2>4, <2>5, <2>8 DEF Agrees
  <2> QED BY <1>1, <2>2, <2>9 DEF Follows, u
<1> QED BY <1>3, <1>4, <1>7, <1>8 DEF IsConstraint

-----------------------------------------------------------------------------
(* Production's table and the collected one, statement by statement.       *)

LEMMA MapRange ==
    ASSUME NEW f
    PROVE  /\ \A n \in DOMAIN f : f[n] \in Range(f)
           /\ \A x \in Range(f) : \E n \in DOMAIN f : x = f[n]
BY DEF Range

LEMMA Tables ==
    ASSUME NEW s
    PROVE  Key(s) = <<s.schema, s.table>> /\ Key(s)[1] = s.schema /\ Key(s)[2] = s.table
BY DEF Key

\* PostgreSQL gives every constraint a name of its own.
SelfNamed(table, cons) == \A n \in DOMAIN cons : n = PgName(table, cons[n])
Apart(table, new, cons) == PgNames(table, new) \cap DOMAIN cons = {} /\ ~Clash(table, new)
Joined(table, new, cons, after) ==
    /\ Range(after) = Range(cons) \cup new
    /\ ~Clash(table, Range(cons) \cup new)
    /\ \A n \in DOMAIN after :
         /\ n = PgName(table, after[n])
         /\ after[n] \in new \/ (n \in DOMAIN cons /\ after[n] = cons[n])

LEMMA NewConstraints ==
    ASSUME NEW table, NEW new, NEW cons, IsMap(cons), SelfNamed(table, cons),
           Apart(table, new, cons), NEW after, after = Over(PgConstraints(table, new), cons)
    PROVE  Joined(table, new, cons, after)
<1>0. /\ \A n \in DOMAIN cons : n = PgName(table, cons[n])
      /\ PgNames(table, new) \cap DOMAIN cons = {}
      /\ \A c, d \in new : PgName(table, c) = PgName(table, d) => c = d
  BY DEF SelfNamed, Apart, Clash
<1> DEFINE p == PgConstraints(table, new)
<1>1. /\ DOMAIN p = PgNames(table, new)
      /\ \A n \in DOMAIN p : p[n] \in new /\ PgName(table, p[n]) = n
  BY PgConstraintsIs
<1>2. \A c \in new : PgName(table, c) \in PgNames(table, new)
  BY DEF PgNames
<1>3. after = Over(p, cons)
  OBVIOUS
<1> HIDE DEF p
<1>4. /\ DOMAIN after = DOMAIN p \cup DOMAIN cons
      /\ \A n \in DOMAIN p : after[n] = p[n]
      /\ \A n \in DOMAIN cons : after[n] = cons[n] /\ n \notin DOMAIN p
  BY <1>0, <1>1, <1>3 DEF Over
<1>5. \A n \in DOMAIN after :
            /\ n = PgName(table, after[n])
            /\ after[n] \in new \/ (n \in DOMAIN cons /\ after[n] = cons[n])
  BY <1>0, <1>1, <1>4
<1>6. ASSUME NEW c \in new PROVE c \in Range(after)
  <2>1. p[PgName(table, c)] = c /\ PgName(table, c) \in DOMAIN p
    BY <1>0, <1>1, <1>2
  <2> QED BY <1>4, <2>1, MapRange
<1>7. ASSUME NEW c \in Range(cons) PROVE c \in Range(after)
  BY <1>4, MapRange
<1>8. Range(after) = Range(cons) \cup new
  <2>1. Range(after) \subseteq Range(cons) \cup new
    BY <1>5, MapRange
  <2> QED BY <1>6, <1>7, <2>1
<1>9. ~Clash(table, Range(cons) \cup new)
  <2> SUFFICES ASSUME NEW c \in Range(cons) \cup new, NEW d \in Range(cons) \cup new,
                      PgName(table, c) = PgName(table, d)
               PROVE  c = d
    BY DEF Clash
  <2>1. \A x \in Range(cons) : PgName(table, x) \in DOMAIN cons /\ cons[PgName(table, x)] = x
    BY <1>0, MapRange
  <2> QED BY <1>0, <1>2, <2>1
<1> QED BY <1>5, <1>8, <1>9 DEF Joined

LEMMA AddColumnFollowed ==
    ASSUME NEW k, NEW t, Collected(t), NEW p, Produced(p), NEW tables, NEW dark, NEW darker,
           dark \subseteq darker, Followed(k, t, p, tables, dark),
           NEW e, IsColumn(e), e.name \notin DOMAIN t.cols,
           \A c \in Range(e.inline) : c.kind = "fk" => c.target \in tables,
           PgNames(k[2], Range(e.inline)) \cap DOMAIN p.cons = {},
           \A c, d \in Range(e.inline) : PgName(k[2], c) = PgName(k[2], d) => c = d,
           k[2] \notin darker => \A c \in Range(e.inline) : ~Missed(k[2], c)
    PROVE  Followed(k, AddColumn(t, k[2], e),
                    PgTab(Put(p.cols, e.name, e.type),
                          Over(PgConstraints(k[2], Range(e.inline)), p.cons)), tables, darker)
<1> DEFINE table == k[2]
           new == Range(e.inline)
           cols == Put(p.cols, e.name, e.type)
           cons == Over(PgConstraints(table, new), p.cons)
           u == AddColumn(t, table, e)
           q == PgTab(cols, cons)
<1>1. /\ k = <<t.schema, table>> /\ t.cols = p.cols
      /\ \A n \in DOMAIN p.cons : /\ n = PgName(table, p.cons[n])
                                  /\ p.cons[n].kind = "fk" => p.cons[n].target \in tables
      /\ table \notin dark => Follows(t, table, Range(p.cons)) /\ ~Twice(Range(p.cons))
  BY DEF Followed
<1>2. IsMap(p.cons) /\ \A n \in DOMAIN p.cons : p.cons[n].col \in DOMAIN p.cols
  BY ProducedIs
<1>3. u.cols = cols /\ u.schema = t.schema
  <2>1. u.cols = Put(t.cols, e.name, e.type) /\ u.schema = t.schema
    BY AddColumnCollected
  <2> QED BY <1>1, <2>1
<1>4. cons = Over(PgConstraints(table, new), p.cons)
  OBVIOUS
<1>5. \A c \in new : c.col = e.name
  BY DEF IsColumn
<1>6. q.cols = cols /\ q.cons = cons
  BY DEF PgTab
<1>7. /\ PgNames(table, new) \cap DOMAIN p.cons = {}
      /\ \A c, d \in new : PgName(table, c) = PgName(table, d) => c = d
      /\ \A c \in new : c.kind = "fk" => c.target \in tables
      /\ table \notin darker => \A c \in new : ~Missed(table, c)
  OBVIOUS
<1> SUFFICES Followed(k, u, q, tables, darker)
  OBVIOUS
<1> HIDE DEF cols, cons, q
<1>8. /\ Range(cons) = Range(p.cons) \cup new
      /\ ~Clash(table, Range(p.cons) \cup new)
      /\ \A n \in DOMAIN cons :
            /\ n = PgName(table, cons[n])
            /\ cons[n] \in new \/ (n \in DOMAIN p.cons /\ cons[n] = p.cons[n])
  <2>1. SelfNamed(table, p.cons) /\ Apart(table, new, p.cons)
    BY <1>1, <1>7 DEF SelfNamed, Apart, Clash
  <2> HIDE DEF table, new
  <2>2. Joined(table, new, p.cons, cons)
    BY <1>2, <1>4, <2>1, NewConstraints
  <2> QED BY <2>2 DEF Joined
<1>9. table \notin darker => Follows(u, table, Range(cons)) /\ ~Twice(Range(cons))
  <2> SUFFICES ASSUME table \notin darker PROVE Follows(u, table, Range(cons)) /\ ~Twice(Range(cons))
    OBVIOUS
  <2>1. Follows(t, table, Range(p.cons)) /\ ~Twice(Range(p.cons))
    BY <1>1
  <2>2. Follows(u, table, Range(p.cons) \cup new)
    BY <1>7, <1>8, <2>1, AddColumnStep
  <2>3. ~Twice(Range(p.cons) \cup new)
    <3> SUFFICES ASSUME NEW c \in Range(p.cons) \cup new, NEW d \in Range(p.cons) \cup new,
                        c # d, c.kind = "fk", d.kind = "fk", RefOf(c) = RefOf(d)
                 PROVE  FALSE
      BY DEF Twice
    <3>1. c.col = d.col
      BY DEF RefOf
    <3>2. \A x \in Range(p.cons) : x.col # e.name
      BY <1>1, <1>2, MapRange
    <3> HIDE DEF new
    <3>3. \/ c \in new /\ d \in new
          \/ c \in Range(p.cons) /\ d \in Range(p.cons)
      BY <1>5, <3>1, <3>2
    <3>4. CASE c \in new /\ d \in new
      <4>1. c.name = Anonymous /\ d.name = Anonymous
        BY <1>7, <3>4 DEF Missed
      <4>2. PgName(table, c) = PgName(table, d)
        BY <3>1, <4>1 DEF PgName, AutoName
      <4> QED BY <1>7, <3>4, <4>2
    <3>5. CASE c \in Range(p.cons) /\ d \in Range(p.cons)
      BY <2>1, <3>5 DEF Twice
    <3> QED BY <3>3, <3>4, <3>5
  <2> QED BY <1>8, <2>2, <2>3
<1> HIDE DEF u
<1>10. \A n \in DOMAIN cons : cons[n].kind = "fk" => cons[n].target \in tables
  <2> HIDE DEF new
  <2> QED BY <1>1, <1>7, <1>8
<1> QED BY <1>1, <1>3, <1>6, <1>8, <1>9, <1>10 DEF Followed

LEMMA AddConstraintFollowed ==
    ASSUME NEW k, NEW t, Collected(t), NEW p, Produced(p), NEW tables, NEW dark, NEW darker,
           dark \subseteq darker, Followed(k, t, p, tables, dark),
           NEW c, IsConstraint(c), c.col \in DOMAIN p.cols,
           c.kind = "fk" => c.target \in tables,
           PgNames(k[2], {c}) \cap DOMAIN p.cons = {},
           k[2] \notin darker => c.name # Anonymous \/ c.kind = "other",
           k[2] \notin darker => ~Twice(Range(p.cons) \cup {c})
    PROVE  Followed(k, AddConstraint(t, c),
                    PgTab(p.cols, Over(PgConstraints(k[2], {c}), p.cons)), tables, darker)
<1> DEFINE table == k[2]
           cons == Over(PgConstraints(table, {c}), p.cons)
           u == AddConstraint(t, c)
           q == PgTab(p.cols, cons)
<1>1. /\ k = <<t.schema, table>> /\ t.cols = p.cols
      /\ \A n \in DOMAIN p.cons : /\ n = PgName(table, p.cons[n])
                                  /\ p.cons[n].kind = "fk" => p.cons[n].target \in tables
      /\ table \notin dark => Follows(t, table, Range(p.cons)) /\ ~Twice(Range(p.cons))
  BY DEF Followed
<1>2. IsMap(p.cons)
  BY ProducedIs
<1>3. u.cols = t.cols /\ u.schema = t.schema
  BY AddConstraintCollected
<1>4. cons = Over(PgConstraints(table, {c}), p.cons)
  OBVIOUS
<1>6. q.cols = p.cols /\ q.cons = cons
  BY DEF PgTab
<1> SUFFICES Followed(k, u, q, tables, darker)
  OBVIOUS
<1> HIDE DEF cons, q
<1>8. /\ Range(cons) = Range(p.cons) \cup {c}
      /\ ~Clash(table, Range(p.cons) \cup {c})
      /\ \A n \in DOMAIN cons :
            /\ n = PgName(table, cons[n])
            /\ cons[n] \in {c} \/ (n \in DOMAIN p.cons /\ cons[n] = p.cons[n])
  <2> DEFINE new == {c}
  <2>1. SelfNamed(table, p.cons) /\ Apart(table, new, p.cons)
    BY <1>1 DEF SelfNamed, Apart, Clash
  <2>2. cons = Over(PgConstraints(table, new), p.cons)
    BY <1>4
  <2> HIDE DEF table, new
  <2>3. Joined(table, new, p.cons, cons)
    BY <1>2, <2>1, <2>2, NewConstraints
  <2> QED BY <2>3 DEF Joined, new
<1>9. table \notin darker => Follows(u, table, Range(cons)) /\ ~Twice(Range(cons))
  <2> SUFFICES ASSUME table \notin darker PROVE Follows(u, table, Range(cons)) /\ ~Twice(Range(cons))
    OBVIOUS
  <2>1. Follows(t, table, Range(p.cons))
    BY <1>1
  <2>2. Fresh(table, Range(p.cons), c)
    BY <1>8 DEF Clash, Fresh
  <2>3. Follows(u, table, Range(p.cons) \cup {c})
    BY <1>1, <2>1, <2>2, ConstraintStep
  <2> QED BY <1>8, <2>3
<1> HIDE DEF u
<1>10. \A n \in DOMAIN cons : cons[n].kind = "fk" => cons[n].target \in tables
  BY <1>1, <1>8
<1> QED BY <1>1, <1>3, <1>6, <1>8, <1>9, <1>10 DEF Followed

LEMMA DropColumnFollowed ==
    ASSUME NEW k, NEW t, Collected(t), NEW p, Produced(p), NEW tables, NEW dark, NEW darker,
           dark \subseteq darker, Followed(k, t, p, tables, dark), NEW x,
           k[2] \notin darker => \A c \in Range(p.cons) : c.col = x => c.kind = "other"
    PROVE  Followed(k, DropColumn(t, x),
                    PgTab(Restrict(p.cols, DOMAIN p.cols \ {x}),
                          Restrict(p.cons, {n \in DOMAIN p.cons : p.cons[n].col # x})), tables, darker)
<1> DEFINE table == k[2]
           cols == Restrict(p.cols, DOMAIN p.cols \ {x})
           cons == Restrict(p.cons, {n \in DOMAIN p.cons : p.cons[n].col # x})
           u == DropColumn(t, x)
           q == PgTab(cols, cons)
<1>1. /\ k = <<t.schema, table>> /\ t.cols = p.cols
      /\ \A n \in DOMAIN p.cons : /\ n = PgName(table, p.cons[n])
                                  /\ p.cons[n].kind = "fk" => p.cons[n].target \in tables
      /\ table \notin dark => Follows(t, table, Range(p.cons)) /\ ~Twice(Range(p.cons))
  BY DEF Followed
<1>2. u.cols = cols /\ u.schema = t.schema
  BY <1>1, DropColumnCollected
<1>3. /\ \A n \in DOMAIN cons : n \in DOMAIN p.cons /\ cons[n] = p.cons[n] /\ p.cons[n].col # x
      /\ \A n \in DOMAIN p.cons : p.cons[n].col # x => n \in DOMAIN cons
  BY DEF Restrict
<1>4. q.cols = cols /\ q.cons = cons
  BY DEF PgTab
<1> SUFFICES Followed(k, u, q, tables, darker)
  OBVIOUS
<1> HIDE DEF cols, cons, q
<1>5. Range(cons) = {c \in Range(p.cons) : c.col # x}
  <2>1. ASSUME NEW c \in Range(cons) PROVE c \in Range(p.cons) /\ c.col # x
    <3>1. PICK n \in DOMAIN cons : c = cons[n]
      BY MapRange
    <3> QED BY <1>3, <3>1, MapRange
  <2>2. ASSUME NEW c \in Range(p.cons), c.col # x PROVE c \in Range(cons)
    <3>1. PICK n \in DOMAIN p.cons : c = p.cons[n]
      BY MapRange
    <3>2. n \in DOMAIN cons /\ c = cons[n]
      BY <1>3, <2>2, <3>1
    <3> QED BY <3>2, MapRange
  <2> QED BY <2>1, <2>2
<1>6. table \notin darker => Follows(u, table, Range(cons)) /\ ~Twice(Range(cons))
  <2> SUFFICES ASSUME table \notin darker PROVE Follows(u, table, Range(cons)) /\ ~Twice(Range(cons))
    OBVIOUS
  <2>1. Follows(t, table, Range(p.cons)) /\ ~Twice(Range(p.cons))
    BY <1>1
  <2>2. Follows(u, table, {c \in Range(p.cons) : c.col # x})
    BY <2>1, DropColumnStep
  <2>3. ~Twice(Range(cons))
    BY <1>5, <2>1 DEF Twice
  <2> QED BY <1>5, <2>2, <2>3
<1> HIDE DEF u
<1> QED BY <1>1, <1>2, <1>3, <1>4, <1>6 DEF Followed

LEMMA RetypeFollowed ==
    ASSUME NEW k, NEW t, Collected(t), NEW p, Produced(p), NEW tables, NEW dark, NEW darker,
           dark \subseteq darker, Followed(k, t, p, tables, dark), NEW x, NEW type
    PROVE  Followed(k, Retyped(t, x, type), PgTab([p.cols EXCEPT ![x] = type], p.cons), tables, darker)
<1> DEFINE table == k[2]
           cols == [p.cols EXCEPT ![x] = type]
           u == Retyped(t, x, type)
           q == PgTab(cols, p.cons)
<1>1. /\ k = <<t.schema, table>> /\ t.cols = p.cols
      /\ \A n \in DOMAIN p.cons : /\ n = PgName(table, p.cons[n])
                                  /\ p.cons[n].kind = "fk" => p.cons[n].target \in tables
      /\ table \notin dark => Follows(t, table, Range(p.cons)) /\ ~Twice(Range(p.cons))
  BY DEF Followed
<1>2. u = Tab(t.schema, [t.cols EXCEPT ![x] = type], t.enum, t.refs, t.reg)
  BY RetypeIs
<1>3. u = Tab(t.schema, cols, t.enum, t.refs, t.reg)
  BY <1>1, <1>2
<1>4. q.cols = cols /\ q.cons = p.cons
  BY DEF PgTab
<1>5. table \notin darker => Follows(u, table, Range(p.cons)) /\ ~Twice(Range(p.cons))
  BY <1>1, RetypeStep
<1> SUFFICES Followed(k, u, q, tables, darker)
  OBVIOUS
<1> HIDE DEF cols, q, u
<1>6. u.cols = cols /\ u.schema = t.schema
  BY <1>3, TabFields
<1> QED BY <1>1, <1>4, <1>5, <1>6 DEF Followed

LEMMA DropConstraintFollowed ==
    ASSUME NEW k, NEW t, Collected(t), NEW p, Produced(p), NEW tables, NEW dark, NEW darker,
           dark \subseteq darker, Followed(k, t, p, tables, dark), NEW name \in DOMAIN p.cons
    PROVE  Followed(k, DropConstraint(t, name),
                    PgTab(p.cols, Restrict(p.cons, DOMAIN p.cons \ {name})), tables, darker)
<1> DEFINE table == k[2]
           c == p.cons[name]
           cons == Restrict(p.cons, DOMAIN p.cons \ {name})
           u == DropConstraint(t, name)
           q == PgTab(p.cols, cons)
<1>1. /\ k = <<t.schema, table>> /\ t.cols = p.cols
      /\ \A n \in DOMAIN p.cons : /\ n = PgName(table, p.cons[n])
                                  /\ p.cons[n].kind = "fk" => p.cons[n].target \in tables
      /\ table \notin dark => Follows(t, table, Range(p.cons)) /\ ~Twice(Range(p.cons))
  BY DEF Followed
<1>2. u.cols = t.cols /\ u.schema = t.schema
  BY DropConstraintCollected
<1>3. /\ \A n \in DOMAIN cons : n \in DOMAIN p.cons /\ cons[n] = p.cons[n] /\ n # name
      /\ \A n \in DOMAIN p.cons : n # name => n \in DOMAIN cons
  BY DEF Restrict
<1>4. q.cols = p.cols /\ q.cons = cons
  BY DEF PgTab
<1>5. c \in Range(p.cons) /\ name = PgName(table, c) /\ IsConstraint(c)
  BY <1>1, MapRange, ProducedIs
<1> SUFFICES Followed(k, u, q, tables, darker)
  OBVIOUS
<1> HIDE DEF cons, q
<1>6. Fresh(table, Range(p.cons), c)
  <2> SUFFICES ASSUME NEW d \in Range(p.cons), PgName(table, d) = PgName(table, c) PROVE d = c
    BY DEF Fresh
  <2>1. PICK n \in DOMAIN p.cons : d = p.cons[n]
    BY MapRange
  <2> QED BY <1>1, <2>1
<1>7. Range(cons) = Range(p.cons) \ {c}
  <2>1. ASSUME NEW d \in Range(cons) PROVE d \in Range(p.cons) /\ d # c
    <3>1. PICK n \in DOMAIN cons : d = cons[n]
      BY MapRange
    <3>2. n \in DOMAIN p.cons /\ n # name /\ d = p.cons[n]
      BY <1>3, <3>1
    <3> QED BY <1>1, <1>5, <3>2, MapRange
  <2>2. ASSUME NEW d \in Range(p.cons), d # c PROVE d \in Range(cons)
    <3>1. PICK n \in DOMAIN p.cons : d = p.cons[n]
      BY MapRange
    <3>2. n \in DOMAIN cons /\ d = cons[n]
      BY <1>3, <2>2, <3>1
    <3> QED BY <3>2, MapRange
  <2> QED BY <2>1, <2>2
<1>8. table \notin darker => Follows(u, table, Range(cons)) /\ ~Twice(Range(cons))
  <2> SUFFICES ASSUME table \notin darker PROVE Follows(u, table, Range(cons)) /\ ~Twice(Range(cons))
    OBVIOUS
  <2>1. Follows(t, table, Range(p.cons)) /\ ~Twice(Range(p.cons))
    BY <1>1
  <2> HIDE DEF c
  <2>2. Follows(u, table, Range(p.cons) \ {c})
    BY <1>5, <1>6, <2>1, DropConstraintStep
  <2>3. ~Twice(Range(cons))
    BY <1>7, <2>1 DEF Twice
  <2> QED BY <1>7, <2>2, <2>3
<1> HIDE DEF u
<1> QED BY <1>1, <1>2, <1>3, <1>4, <1>8 DEF Followed

\* DROP CONSTRAINT IF EXISTS of a name PostgreSQL does not know: what the
\* collector may have by it does not count.
LEMMA DropNothingStep ==
    ASSUME NEW t, Collected(t), NEW table, NEW C, Follows(t, table, C),
           NEW name, \A c \in C : PgName(table, c) # name
    PROVE  Follows(DropConstraint(t, name), table, C)
<1> DEFINE u == DropConstraint(t, name)
           rest == Restrict(t.reg, DOMAIN t.reg \ {name})
<1>0. Agrees(t.cols, t.enum, t.refs, t.reg) /\ Has(t.reg, table, C)
  BY DEF Follows
<1>1. DOMAIN rest = DOMAIN t.reg \ {name} /\ \A n \in DOMAIN rest : rest[n] = t.reg[n]
  BY DEF Restrict
<1>2. t = [schema |-> t.schema, cols |-> t.cols, enum |-> t.enum, refs |-> t.refs, reg |-> t.reg]
  BY DEF Collected
<1>3. CASE name \notin DOMAIN t.reg
  <2>1. u = t
    BY <1>3 DEF DropConstraint
  <2> QED BY <2>1
<1>4. CASE name \in DOMAIN t.reg
  <2>1. t.reg[name].kind = "other"
    BY <1>0, <1>4 DEF Has
  <2>2. u = [t EXCEPT !.reg = rest]
    BY <1>4, <2>1 DEF DropConstraint
  <2> HIDE DEF u, rest
  <2>3. u.cols = t.cols /\ u.enum = t.enum /\ u.refs = t.refs /\ u.reg = rest
    BY <1>2, <2>2
  <2>4. /\ \A kind \in {"enum", "fk"} : Named(rest, kind) = Named(t.reg, kind)
        /\ \A n \in Named(t.reg, "enum") \cup Named(t.reg, "fk") : rest[n] = t.reg[n]
    BY <1>1, <2>1 DEF Named
  <2>5. Agrees(t.cols, t.enum, t.refs, rest)
    BY <1>0, <2>4, OtherAgrees
  <2>6. Has(rest, table, C)
    BY <1>0, <1>1 DEF Has
  <2> QED BY <2>3, <2>5, <2>6 DEF Follows, u
<1> QED BY <1>3, <1>4

LEMMA DropNothingFollowed ==
    ASSUME NEW k, NEW t, Collected(t), NEW p, Produced(p), NEW tables, NEW dark,
           Followed(k, t, p, tables, dark), NEW name, name \notin DOMAIN p.cons
    PROVE  Followed(k, DropConstraint(t, name),
                    PgTab(p.cols, Restrict(p.cons, DOMAIN p.cons \ {name})), tables, dark)
<1> DEFINE table == k[2]
           C == Range(p.cons)
           cons == Restrict(p.cons, DOMAIN p.cons \ {name})
           u == DropConstraint(t, name)
           q == PgTab(p.cols, cons)
<1>1. /\ k = <<t.schema, table>> /\ t.cols = p.cols
      /\ \A n \in DOMAIN p.cons : /\ n = PgName(table, p.cons[n])
                                  /\ p.cons[n].kind = "fk" => p.cons[n].target \in tables
      /\ table \notin dark => Follows(t, table, C) /\ ~Twice(C)
  BY DEF Followed
<1>2. u.cols = t.cols /\ u.schema = t.schema
  BY DropConstraintCollected
<1>3. cons = p.cons
  <2>1. DOMAIN p.cons \ {name} = DOMAIN p.cons
    OBVIOUS
  <2>2. IsMap(p.cons)
    BY ProducedIs
  <2> QED BY <2>1, <2>2 DEF Restrict, IsMap
<1>4. q.cols = p.cols /\ q.cons = cons
  BY DEF PgTab
<1>5. \A c \in C : PgName(table, c) # name
  BY <1>1, MapRange
<1> SUFFICES Followed(k, u, q, tables, dark)
  OBVIOUS
<1> HIDE DEF cons, q, C
<1>6. table \notin dark => Follows(u, table, C) /\ ~Twice(C)
  BY <1>1, <1>5, DropNothingStep
<1> HIDE DEF u
<1>7. /\ q.cols = p.cols /\ q.cons = p.cons /\ u.cols = t.cols /\ u.schema = t.schema
      /\ C = Range(q.cons)
  BY <1>2, <1>3, <1>4 DEF C
<1> QED BY <1>1, <1>6, <1>7 DEF Followed

LEMMA CreateFollowed ==
    ASSUME NEW s, IsTable(s.elements), NEW tables, NEW darker,
           \A c \in Written(s.elements) : c.kind = "fk" => c.target \in tables,
           ~Clash(s.table, Written(s.elements)),
           s.table \notin darker =>
                /\ ~Early(s.table, s.elements)
                /\ ~Nameless({e.con : e \in Range(s.elements) \ Columns(s.elements)})
                /\ ~Twice(Written(s.elements))
    PROVE  Followed(Key(s), Build(s), PgTable(s), tables, darker)
<1> DEFINE written == Written(s.elements)
           u == Build(s)
           q == PgTable(s)
           cons == q.cons
<1>1. u.schema = s.schema /\ u.cols = q.cols
  BY BuildCollected
<1>2. cons = PgConstraints(s.table, written)
  BY PgTableIs
<1>3. /\ \A n \in DOMAIN cons : cons[n] \in written /\ PgName(s.table, cons[n]) = n
      /\ DOMAIN cons = PgNames(s.table, written)
  BY <1>2, PgConstraintsIs
<1>4. s.table \notin darker => Follows(u, s.table, written) /\ ~Twice(written)
  BY BuildFollows
<1>5. ~Clash(s.table, written) /\ \A c \in written : c.kind = "fk" => c.target \in tables
  OBVIOUS
<1>6. Key(s) = <<s.schema, s.table>> /\ Key(s)[2] = s.table
  BY Tables
<1> HIDE DEF written, u, cons
<1>7. Range(cons) = written
  <2>1. ASSUME NEW c \in written PROVE c \in Range(cons)
    <3>1. PgName(s.table, c) \in DOMAIN cons
      BY <1>3 DEF PgNames
    <3>2. cons[PgName(s.table, c)] = c
      BY <1>3, <1>5, <3>1 DEF Clash
    <3> QED BY <3>1, <3>2, MapRange
  <2>2. ASSUME NEW c \in Range(cons) PROVE c \in written
    BY <1>3, MapRange
  <2> QED BY <2>1, <2>2
<1> HIDE DEF q
<1>8. q.cons = cons
  BY DEF cons
<1>9. Followed(Key(s), u, q, tables, darker)
  BY <1>1, <1>3, <1>4, <1>5, <1>6, <1>7, <1>8 DEF Followed
<1> QED BY <1>9 DEF u, q

LEMMA FollowedStays ==
    ASSUME NEW k, NEW t, NEW p, NEW tables, NEW dark, Followed(k, t, p, tables, dark),
           NEW more, tables \subseteq more, NEW darker, k[2] \in dark => k[2] \in darker
    PROVE  Followed(k, t, p, more, darker)
BY DEF Followed

\* A command PostgreSQL accepts, that leaves the table followed.
LEMMA CommandFollowed ==
    ASSUME NEW k, NEW t, Collected(t), NEW p, Produced(p), NEW tables, NEW dark,
           Followed(k, t, p, tables, dark), {j[2] : j \in DOMAIN pg \cup {k}} \subseteq tables,
           NEW c, IsCommand(c), LegalBy(k, p, c), k[2] \notin dark => ~BlindBy(p, k[2], c)
    PROVE  Followed(k, AlterBy(t, k[2], c), PgAlterBy(p, k[2], c), tables, dark)
<1> DEFINE table == k[2]
<1>3. Followed(k, t, p, tables, dark) /\ dark \subseteq dark
  OBVIOUS
<1>4. t.cols = p.cols
  BY <1>3 DEF Followed
<1>5. /\ c.op = "addColumn" => IsColumn(c)
      /\ c.op = "addConstraint" => IsConstraint(c.con)
  BY DEF IsCommand
<1>6. \A d : (\E j \in DOMAIN pg \cup {k} : j[2] = d.target) => d.target \in tables
  OBVIOUS
<1>7. CASE c.op = "addColumn" /\ c.name \in DOMAIN t.cols
  <2>1. AlterBy(t, table, c) = t
    BY <1>7 DEF AlterBy
  <2>2. PgAlterBy(p, table, c) = p
    BY <1>4, <1>7 DEF PgAlterBy
  <2> QED BY <1>3, <2>1, <2>2
<1>8. CASE c.op = "addColumn" /\ c.name \notin DOMAIN t.cols
  <2>1. /\ \A d \in Range(c.inline) : d.kind = "fk" => d.target \in tables
        /\ PgNames(table, Range(c.inline)) \cap DOMAIN p.cons = {}
        /\ \A d, e \in Range(c.inline) : PgName(table, d) = PgName(table, e) => d = e
    <3>1. PgAccepts(k, Range(c.inline), DOMAIN p.cons)
      BY <1>4, <1>8 DEF LegalBy
    <3> QED BY <1>6, <3>1 DEF PgAccepts
  <2>2. table \notin dark => \A d \in Range(c.inline) : ~Missed(table, d)
    BY <1>4, <1>8 DEF BlindBy
  <2>3. AlterBy(t, table, c) = AddColumn(t, table, c)
    BY <1>8 DEF AlterBy
  <2>4. PgAlterBy(p, table, c) = PgTab(Put(p.cols, c.name, c.type),
                                       Over(PgConstraints(table, Range(c.inline)), p.cons))
    BY <1>4, <1>8 DEF PgAlterBy, PgTab
  <2>5. Followed(k, AddColumn(t, k[2], c),
                 PgTab(Put(p.cols, c.name, c.type),
                       Over(PgConstraints(k[2], Range(c.inline)), p.cons)), tables, dark)
    BY <1>3, <1>5, <1>8, <2>1, <2>2, AddColumnFollowed
  <2> QED BY <2>3, <2>4, <2>5
<1>9. CASE c.op = "dropColumn"
  <2>1. table \notin dark => \A d \in Range(p.cons) : d.col = c.name => d.kind = "other"
    BY <1>9 DEF BlindBy
  <2>2. AlterBy(t, table, c) = DropColumn(t, c.name)
    BY <1>9 DEF AlterBy
  <2>3. PgAlterBy(p, table, c) =
            PgTab(Restrict(p.cols, DOMAIN p.cols \ {c.name}),
                  Restrict(p.cons, {n \in DOMAIN p.cons : p.cons[n].col # c.name}))
    <3>1. PgAlterBy(p, table, c) = [cols |-> Restrict(p.cols, DOMAIN p.cols \ {c.name}),
                                    cons |-> Without(p.cons, LAMBDA d : d.col = c.name)]
      BY <1>9 DEF PgAlterBy
    <3>2. Without(p.cons, LAMBDA d : d.col = c.name)
              = Restrict(p.cons, {n \in DOMAIN p.cons : p.cons[n].col # c.name})
      BY DEF Without, RestrictValues
    <3> QED BY <3>1, <3>2 DEF PgTab
  <2>4. Followed(k, DropColumn(t, c.name),
                 PgTab(Restrict(p.cols, DOMAIN p.cols \ {c.name}),
                       Restrict(p.cons, {n \in DOMAIN p.cons : p.cons[n].col # c.name})), tables, dark)
    BY <1>3, <2>1, DropColumnFollowed
  <2> QED BY <2>2, <2>3, <2>4
<1>10. CASE c.op = "alterType"
  <2>1. c.name \in DOMAIN t.cols
    BY <1>4, <1>10 DEF LegalBy
  <2>2. AlterBy(t, table, c) = Retyped(t, c.name, c.type)
    BY <1>10, <2>1 DEF AlterBy, Retyped
  <2>3. PgAlterBy(p, table, c) = PgTab([p.cols EXCEPT ![c.name] = c.type], p.cons)
    <3> DEFINE v == PgAlterBy(p, table, c)
    <3>1. v = [p EXCEPT !.cols[c.name] = c.type]
      BY <1>10 DEF PgAlterBy
    <3>2. p = [cols |-> p.cols, cons |-> p.cons]
      BY DEF Produced
    <3> HIDE DEF v, table
    <3> QED BY <3>1, <3>2 DEF v, PgTab
  <2>4. Followed(k, Retyped(t, c.name, c.type), PgTab([p.cols EXCEPT ![c.name] = c.type], p.cons),
                 tables, dark)
    BY <1>3, RetypeFollowed
  <2> QED BY <2>2, <2>3, <2>4
<1>11. CASE c.op = "addConstraint"
  <2> DEFINE d == c.con
  <2>1. /\ d.col \in DOMAIN p.cols
        /\ d.kind = "fk" => d.target \in tables
        /\ PgNames(table, {d}) \cap DOMAIN p.cons = {}
    <3>1. PgAccepts(k, {d}, DOMAIN p.cons) /\ d.col \in DOMAIN p.cols
      BY <1>11 DEF LegalBy
    <3> QED BY <1>6, <3>1 DEF PgAccepts
  <2>2. table \notin dark => ~Nameless({d}) /\ ~Twice({d} \cup Foreign(p))
    BY <1>11 DEF BlindBy
  <2>3. table \notin dark => d.name # Anonymous \/ d.kind = "other"
    BY <2>2 DEF Nameless
  <2>4. table \notin dark => ~Twice(Range(p.cons) \cup {d})
    <3>1. \A e \in Range(p.cons) : e.kind = "fk" => e \in Foreign(p)
      BY DEF Foreign, Range
    <3> HIDE DEF d
    <3> QED BY <2>2, <3>1 DEF Twice
  <2>5. AlterBy(t, table, c) = AddConstraint(t, d)
    BY <1>11 DEF AlterBy
  <2>6. PgAlterBy(p, table, c) = PgTab(p.cols, Over(PgConstraints(table, {d}), p.cons))
    <3> DEFINE v == PgAlterBy(p, table, c)
               over == Over(PgConstraints(table, {d}), p.cons)
    <3>1. v = [p EXCEPT !.cons = over]
      BY <1>11 DEF PgAlterBy
    <3>2. p = [cols |-> p.cols, cons |-> p.cons]
      BY DEF Produced
    <3> HIDE DEF v, table, over
    <3> QED BY <3>1, <3>2 DEF v, PgTab, over
  <2>7. IsConstraint(d)
    BY <1>5, <1>11
  <2> HIDE DEF d
  <2>8. Followed(k, AddConstraint(t, d), PgTab(p.cols, Over(PgConstraints(k[2], {d}), p.cons)),
                 tables, dark)
    BY <1>3, <2>1, <2>3, <2>4, <2>7, AddConstraintFollowed
  <2> QED BY <2>5, <2>6, <2>8
<1>12. CASE c.op = "dropConstraint"
  <2> DEFINE name == c.constraint
  <2>2. AlterBy(t, table, c) = DropConstraint(t, name)
    BY <1>12 DEF AlterBy
  <2>3. PgAlterBy(p, table, c) = PgTab(p.cols, Restrict(p.cons, DOMAIN p.cons \ {name}))
    <3> DEFINE v == PgAlterBy(p, table, c)
               rest == Restrict(p.cons, DOMAIN p.cons \ {name})
    <3>1. v = [p EXCEPT !.cons = rest]
      BY <1>12 DEF PgAlterBy
    <3>2. p = [cols |-> p.cols, cons |-> p.cons]
      BY DEF Produced
    <3> HIDE DEF v, table, rest
    <3> QED BY <3>1, <3>2 DEF v, PgTab, rest
  <2> HIDE DEF name
  <2>4. Followed(k, DropConstraint(t, name),
                 PgTab(p.cols, Restrict(p.cons, DOMAIN p.cons \ {name})), tables, dark)
    BY <1>3, DropConstraintFollowed, DropNothingFollowed
  <2> QED BY <2>2, <2>3, <2>4
<1> QED BY <1>7, <1>8, <1>9, <1>10, <1>11, <1>12 DEF IsCommand

LEMMA AlterationsAre ==
    Alterations = {"dropColumn", "dropConstraint", "alterType", "addColumn", "addConstraint"}
<1>1. /\ Pass[1] = {"dropColumn", "dropConstraint"} /\ Pass[2] = {"alterType"}
      /\ Pass[3] = {"addColumn"} /\ Pass[4] = {"addConstraint"}
  BY DEF Pass
<1>2. Alterations = ((Pass[1] \cup Pass[2]) \cup Pass[3]) \cup Pass[4]
  <2>1. 1..4 = {1, 2, 3, 4}
    OBVIOUS
  <2> QED BY <2>1 DEF Alterations
<1> QED BY <1>1, <1>2

\* An ALTER TABLE PostgreSQL accepts, whose commands in turn come to what its
\* passes do.
LEMMA AlterFollowed ==
    ASSUME Types, NEW s \in Statement, s.op = "alter", Key(s) \in DOMAIN pg, s.table \in DOMAIN st,
           InTurn(pg[Key(s)], s), NEW tables, {k[2] : k \in DOMAIN pg} \subseteq tables,
           NEW dark, Followed(Key(s), st[s.table], pg[Key(s)], tables, dark),
           BlindSpots(s) \subseteq dark
    PROVE  Followed(Key(s), Alter(st[s.table], s), PgAlter(pg[Key(s)], s), tables, dark)
<1> DEFINE k == Key(s)
           t == st[s.table]
           p == pg[k]
           N == Len(s.cmds)
           mine == Altering(t, s)
           theirs == PgAltering(p, s, Alterations)
           Good(u, v) == Collected(u) /\ Produced(v) /\ Followed(k, u, v, tables, dark)
           S == {n \in Nat : n <= N => Good(mine[n], theirs[n])}
<1>1. N \in Nat /\ DOMAIN s.cmds = 1..N /\ \A i \in 1..N : IsCommand(s.cmds[i])
  BY CommandsAre
<1>2. /\ mine[0] = t
      /\ \A i \in 1..N : mine[i] = AlterBy(mine[i - 1], s.table, s.cmds[i])
  BY <1>1, AlteringIs
<1>3. /\ theirs[0] = p
      /\ \A i \in 1..N : theirs[i] = RunOf(theirs[i - 1], s.table, s.cmds[i], Alterations)
  BY <1>1, PgAlteringIs
<1>4. LegalIn(p, s, Alterations) /\ PgAltered(p, s, Alterations) = PgAlter(p, s)
  BY DEF InTurn
<1>5. \A i \in 1..N : s.cmds[i].op \in Alterations
  BY <1>1, AlterationsAre DEF IsCommand
<1>6. \A i \in 1..N : LegalBy(k, theirs[i - 1], s.cmds[i])
  BY <1>1, <1>4, <1>5 DEF LegalIn
<1>7. s.table \notin dark => \A i \in 1..N : ~BlindBy(theirs[i - 1], s.table, s.cmds[i])
  BY <1>1 DEF BlindSpots
<1>8. k[2] = s.table /\ {j[2] : j \in DOMAIN pg \cup {k}} \subseteq tables
  <2>1. k[2] = s.table /\ k \in DOMAIN pg
    BY Tables
  <2> HIDE DEF k
  <2> QED BY <2>1
<1>9. Collected(t) /\ Produced(p) /\ Followed(k, t, p, tables, dark)
  BY DEF Types
<1>10. Alter(t, s) = mine[N] /\ PgAlter(p, s) = theirs[N]
  BY <1>4 DEF Alter, PgAltered
<1> HIDE DEF k, t, p, N, mine, theirs
<1>11. 0 \in S
  BY <1>2, <1>3, <1>9
<1>12. ASSUME NEW n \in S PROVE n + 1 \in S
  <2>0. n \in Nat /\ n + 1 \in Nat
    BY <1>12
  <2> SUFFICES ASSUME n + 1 <= N PROVE Good(mine[n + 1], theirs[n + 1])
    <3> HIDE DEF Good
    <3> QED BY <2>0
  <2>1. n + 1 \in 1..N /\ n + 1 - 1 = n /\ n <= N
    BY <1>1, <2>0
  <2> DEFINE u == mine[n]
             v == theirs[n]
             c == s.cmds[n + 1]
  <2>2. Good(u, v)
    <3> HIDE DEF Good
    <3> QED BY <1>12, <2>1
  <2>3. mine[n + 1] = AlterBy(u, s.table, c)
    BY <1>2, <2>1
  <2>4. theirs[n + 1] = PgAlterBy(v, s.table, c)
    <3>1. theirs[n + 1] = RunOf(v, s.table, c, Alterations)
      BY <1>3, <2>1
    <3>2. c.op \in Alterations
      BY <1>5, <2>1
    <3> QED BY <3>1, <3>2 DEF RunOf
  <2>5. IsCommand(c) /\ LegalBy(k, v, c) /\ (s.table \notin dark => ~BlindBy(v, s.table, c))
    BY <1>1, <1>6, <1>7, <2>1
  <2> HIDE DEF u, v, c
  <2>6. Collected(AlterBy(u, s.table, c))
    BY <2>2, <2>5, CommandCollected
  <2>7. Produced(PgAlterBy(v, s.table, c))
    BY <2>2, <2>5, PgAlterByProduced
  <2>8. Followed(k, AlterBy(u, k[2], c), PgAlterBy(v, k[2], c), tables, dark)
    BY <1>8, <2>2, <2>5, CommandFollowed
  <2>9. Followed(k, AlterBy(u, s.table, c), PgAlterBy(v, s.table, c), tables, dark)
    BY <1>8, <2>8
  <2> QED BY <2>3, <2>4, <2>6, <2>7, <2>9
<1>13. S = Nat
  <2> HIDE DEF S
  <2>1. S \in SUBSET Nat
    BY DEF S
  <2> QED BY <1>11, <1>12, <2>1, Induct
<1>14. Good(mine[N], theirs[N])
  <2>1. \A n \in Nat : n <= N => Good(mine[n], theirs[n])
    <3> HIDE DEF Good
    <3> QED BY <1>13
  <2> HIDE DEF Good, S
  <2> QED BY <1>1, <2>1
<1>15. Followed(k, Alter(t, s), PgAlter(p, s), tables, dark)
  BY <1>10, <1>14
<1> QED BY <1>15 DEF k, t, p

\* A statement that touches nothing but tables of one name leaves the others
\* as they are.
LEMMA Matched ==
    ASSUME Matching(st, pg, astray, blind), NEW name, NEW tables, NEW live,
           NEW stray, astray \subseteq stray, NEW dark, blind \ {name} \subseteq dark,
           DOMAIN st \ {name} = DOMAIN tables \ {name},
           \A t \in DOMAIN st : t # name => tables[t] = st[t],
           \A k : k[2] # name => (k \in DOMAIN live <=> k \in DOMAIN pg),
           \A k \in DOMAIN pg : k[2] # name => live[k] = pg[k],
           name \in DOMAIN st => name \in DOMAIN tables \cup stray,
           name \notin stray =>
              /\ name \in DOMAIN tables <=> \E k \in DOMAIN live : k[2] = name
              /\ \A k \in DOMAIN live : k[2] = name =>
                    Followed(k, tables[name], live[k], DOMAIN tables \cup stray, dark)
    PROVE  Matching(tables, live, stray, dark)
<1> DEFINE all == DOMAIN tables \cup stray
<1>1. /\ \A t : t \notin astray => (t \in DOMAIN st <=> \E k \in DOMAIN pg : k[2] = t)
      /\ \A k \in DOMAIN pg : k[2] \notin astray =>
            Followed(k, st[k[2]], pg[k], DOMAIN st \cup astray, blind)
  <2>1. DOMAIN st \ astray = {k[2] : k \in DOMAIN pg} \ astray
    BY DEF Matching
  <2>2. \A t : t \notin astray => (t \in DOMAIN st <=> t \in {k[2] : k \in DOMAIN pg})
    BY <2>1
  <2>3. \A t : t \in {k[2] : k \in DOMAIN pg} <=> \E k \in DOMAIN pg : k[2] = t
    OBVIOUS
  <2>4. \A t : t \notin astray => (t \in DOMAIN st <=> \E k \in DOMAIN pg : k[2] = t)
    BY <2>2, <2>3
  <2>5. \A k \in DOMAIN pg : k[2] \notin astray =>
            Followed(k, st[k[2]], pg[k], DOMAIN st \cup astray, blind)
    BY DEF Matching
  <2> QED BY <2>4, <2>5
<1>2. \A t : t # name => (t \in DOMAIN tables <=> t \in DOMAIN st)
  OBVIOUS
<1>3. DOMAIN st \cup astray \subseteq all
  BY <1>2
<1>4. ASSUME NEW t, t \notin stray
      PROVE  t \in DOMAIN tables <=> \E k \in DOMAIN live : k[2] = t
  <2>1. CASE t = name
    BY <1>4, <2>1
  <2>2. CASE t # name
    <3>1. t \in DOMAIN st <=> \E k \in DOMAIN pg : k[2] = t
      BY <1>1, <1>4
    <3>2. (\E k \in DOMAIN pg : k[2] = t) <=> \E k \in DOMAIN live : k[2] = t
      BY <2>2
    <3> QED BY <1>2, <2>2, <3>1, <3>2
  <2> QED BY <2>1, <2>2
<1>5. ASSUME NEW k \in DOMAIN live, k[2] \notin stray
      PROVE  Followed(k, tables[k[2]], live[k], all, dark)
  <2>1. CASE k[2] = name
    BY <1>5, <2>1
  <2>2. CASE k[2] # name
    <3>1. k \in DOMAIN pg /\ k[2] \notin astray
      BY <1>5, <2>2
    <3>2. Followed(k, st[k[2]], pg[k], DOMAIN st \cup astray, blind) /\ k[2] \in DOMAIN st
      BY <1>1, <3>1
    <3>3. tables[k[2]] = st[k[2]] /\ live[k] = pg[k]
      BY <2>2, <3>1, <3>2
    <3>4. k[2] \in blind => k[2] \in dark
      BY <2>2
    <3> HIDE DEF all
    <3>5. Followed(k, st[k[2]], pg[k], all, dark)
      BY <1>3, <3>2, <3>4, FollowedStays
    <3> QED BY <3>3, <3>5
  <2> QED BY <2>1, <2>2
<1>6. DOMAIN tables \ stray = {k[2] : k \in DOMAIN live} \ stray
  <2> DEFINE names == {k[2] : k \in DOMAIN live}
  <2>1. \A t : t \in names <=> \E k \in DOMAIN live : k[2] = t
    OBVIOUS
  <2> HIDE DEF names
  <2>2. \A t : t \in DOMAIN tables \ stray <=> t \in names \ stray
    BY <1>4, <2>1
  <2> QED BY <2>2 DEF names
<1> QED BY <1>5, <1>6 DEF Matching

\* What one statement of a migration, seen and not warned of, leaves.
LEMMA MigrateFollows ==
    ASSUME Types, Following, Quiet, NEW s \in Statement, s.op # "setSchema", Legal(s), ~Warns(s),
           NEW tables, tables = Collect(s), NEW live, live = Replay(s),
           NEW stray, stray = astray \cup Astray(s),
           NEW dark, dark = (IF s.op = "dropTable" THEN blind \ {s.table} ELSE blind) \cup BlindSpots(s)
    PROVE  Matching(tables, live, stray, dark)
<1> DEFINE name == s.table
           key == Key(s)
<1>1. Matching(st, pg, astray, blind) /\ astray \subseteq stray /\ blind \ {name} \subseteq dark
  BY DEF Following
<1>2. /\ \A t : t \notin astray => (t \in DOMAIN st <=> \E k \in DOMAIN pg : k[2] = t)
      /\ \A k \in DOMAIN pg : k[2] \notin astray =>
            /\ Followed(k, st[k[2]], pg[k], DOMAIN st \cup astray, blind)
            /\ k[2] \in DOMAIN st /\ k = <<st[k[2]].schema, k[2]>>
  <2>1. DOMAIN st \ astray = {k[2] : k \in DOMAIN pg} \ astray
    BY <1>1 DEF Matching
  <2>2. \A t : t \notin astray => (t \in DOMAIN st <=> t \in {k[2] : k \in DOMAIN pg})
    BY <2>1
  <2>3. \A k \in DOMAIN pg : k[2] \notin astray =>
            Followed(k, st[k[2]], pg[k], DOMAIN st \cup astray, blind)
    BY <1>1 DEF Matching
  <2>4. \A k \in DOMAIN pg : k[2] \notin astray => k = <<st[k[2]].schema, k[2]>>
    BY <2>3 DEF Followed
  <2> QED BY <2>2, <2>3, <2>4
<1>3. name \notin astray => \A j, k \in DOMAIN pg : j[2] = name /\ k[2] = name => j = k
  BY <1>2
<1>4. key = <<s.schema, name>> /\ key[2] = name
  BY Tables
<1>5. IsMap(st) /\ IsMap(pg) /\ \A k \in DOMAIN pg : Produced(pg[k])
  BY DEF Types
<1>6. \A j \in DOMAIN pg \cup {key} : j[2] \in DOMAIN st \cup astray \cup {name}
  BY <1>2, <1>4
<1>7. CASE s.op = "create" /\ key \in DOMAIN pg
  <2>1. s.ifNotExists
    BY <1>7 DEF Legal
  <2>2. live = pg
    BY <1>5, <1>7, ReplayIs
  <2>3. CASE Known(s)
    <3>1. tables = st
      BY <1>7, <2>1, <2>3 DEF Collect
    <3>2. name \notin stray =>
              /\ name \in DOMAIN tables <=> \E k \in DOMAIN live : k[2] = name
              /\ \A k \in DOMAIN live : k[2] = name =>
                    Followed(k, tables[name], live[k], DOMAIN tables \cup stray, dark)
      <4> SUFFICES ASSUME name \notin stray, NEW k \in DOMAIN pg, k[2] = name
                   PROVE  Followed(k, tables[name], live[k], DOMAIN tables \cup stray, dark)
        BY <1>1, <1>2, <2>2, <3>1
      <4>1. Followed(k, st[name], pg[k], DOMAIN st \cup astray, blind)
        BY <1>1, <1>2
      <4>2. blind \subseteq dark /\ DOMAIN st \cup astray \subseteq DOMAIN st \cup stray
        BY <1>1, <1>7
      <4>3. Followed(k, st[name], pg[k], DOMAIN st \cup stray, dark)
        BY <4>1, <4>2, FollowedStays
      <4> QED BY <2>2, <3>1, <4>3
    <3> HIDE DEF name, key
    <3> QED BY <1>1, <2>2, <3>1, <3>2, Matched
  <2>4. CASE ~Known(s)
    <3>1. name \in astray
      BY <1>2, <1>4, <1>7, <2>4 DEF Known
    <3>2. tables = Put(st, name, Build(s))
      BY <1>7, <2>4 DEF Collect
    <3>3. /\ DOMAIN tables = DOMAIN st \cup {name}
          /\ \A t \in DOMAIN st : t # name => tables[t] = st[t]
      BY <3>2 DEF Put
    <3> HIDE DEF name, key
    <3> QED BY <1>1, <2>2, <3>1, <3>3, Matched
  <2> QED BY <2>3, <2>4
<1>8. CASE s.op = "create" /\ key \notin DOMAIN pg
  <2>1. live = Put(pg, key, PgTable(s))
    BY <1>8 DEF Replay
  <2>2. /\ DOMAIN live = DOMAIN pg \cup {key} /\ live[key] = PgTable(s)
        /\ \A k \in DOMAIN pg : live[k] = pg[k]
    <3> HIDE DEF key
    <3> QED BY <1>8, <2>1 DEF Put
  <2>3. /\ \A k : k[2] # name => (k \in DOMAIN live <=> k \in DOMAIN pg)
        /\ \A k \in DOMAIN pg : k[2] # name => live[k] = pg[k]
    BY <1>4, <2>2
  <2>4. /\ DOMAIN st \ {name} = DOMAIN tables \ {name} /\ DOMAIN st \subseteq DOMAIN tables
        /\ \A t \in DOMAIN st : t # name => tables[t] = st[t]
    <3>1. tables = st \/ tables = Put(st, name, Build(s))
      BY <1>8 DEF Collect
    <3> HIDE DEF name
    <3> QED BY <3>1 DEF Put
  <2>5. name \notin stray =>
              /\ name \in DOMAIN tables <=> \E k \in DOMAIN live : k[2] = name
              /\ \A k \in DOMAIN live : k[2] = name =>
                    Followed(k, tables[name], live[k], DOMAIN tables \cup stray, dark)
    <3> SUFFICES ASSUME name \notin stray
                 PROVE  /\ name \in DOMAIN tables <=> \E k \in DOMAIN live : k[2] = name
                        /\ \A k \in DOMAIN live : k[2] = name =>
                              Followed(k, tables[name], live[k], DOMAIN tables \cup stray, dark)
      OBVIOUS
    <3>1. ~Known(s)
      <4> SUFFICES ASSUME Known(s) PROVE FALSE
        OBVIOUS
      <4>1. st[name].schema = s.schema
        BY <1>8 DEF Warns
      <4>2. PICK k \in DOMAIN pg : k[2] = name
        BY <1>1, <1>2 DEF Known
      <4> QED BY <1>1, <1>2, <1>4, <1>8, <4>1, <4>2
    <3>2. tables = Put(st, name, Build(s))
      BY <1>8, <3>1 DEF Collect
    <3>3. name \in DOMAIN tables /\ tables[name] = Build(s)
      <4> HIDE DEF name
      <4> QED BY <3>2 DEF Put
    <3>4. \A k \in DOMAIN live : k[2] = name => k = key
      BY <1>1, <1>2, <2>2, <3>1 DEF Known
    <3>5. BlindSpots(s) \subseteq dark /\ IsTable(s.elements)
      BY <1>8, StatementAssumption
    <3>6. PgAccepts(key, Written(s.elements), {})
      BY <1>8 DEF Legal
    <3>7. \A c \in Written(s.elements) : c.kind = "fk" => c.target \in DOMAIN tables \cup stray
      <4>1. \A c \in Written(s.elements) : c.kind = "fk" => \E j \in DOMAIN pg \cup {key} : j[2] = c.target
        BY <3>6 DEF PgAccepts
      <4> HIDE DEF name, key
      <4> QED BY <1>1, <1>6, <2>4, <3>3, <4>1
    <3>8. ~Clash(name, Written(s.elements))
      BY <1>4, <3>6 DEF PgAccepts, Clash
    <3>9. name \notin dark =>
              /\ ~Early(name, s.elements)
              /\ ~Nameless({e.con : e \in Range(s.elements) \ Columns(s.elements)})
              /\ ~Twice(Written(s.elements))
      BY <1>8, <3>5 DEF BlindSpots
    <3>10. Followed(key, Build(s), PgTable(s), DOMAIN tables \cup stray, dark)
      BY <3>5, <3>7, <3>8, <3>9, CreateFollowed
    <3>11. key \in DOMAIN live /\ key[2] = name /\ live[key] = PgTable(s)
      BY <1>4, <2>2
    <3> HIDE DEF name, key
    <3> QED BY <3>3, <3>4, <3>10, <3>11
  <2> HIDE DEF name, key
  <2> QED BY <1>1, <2>3, <2>4, <2>5, Matched
<1>9. CASE s.op = "dropTable"
  <2>1. tables = Restrict(st, DOMAIN st \ {name, s.schema})
    BY <1>9 DEF Collect
  <2>2. s.schema \notin DOMAIN st
    BY SchemaAssumption DEF Types
  <2>3. DOMAIN tables = DOMAIN st \ {name} /\ \A t \in DOMAIN tables : tables[t] = st[t]
    BY <2>1, <2>2 DEF Restrict
  <2>4. CASE key \notin DOMAIN pg
    <3>1. live = pg
      BY <1>5, <1>9, <2>4, ReplayIs
    <3>2. name \notin stray => ~\E k \in DOMAIN pg : k[2] = name
      BY <1>9, <2>4 DEF Astray, PgTables
    <3>3. name \in DOMAIN st => name \in stray
      BY <1>1, <1>2, <3>2
    <3> HIDE DEF name, key
    <3>4. /\ DOMAIN st \ {name} = DOMAIN tables \ {name}
          /\ \A t \in DOMAIN st : t # name => tables[t] = st[t]
          /\ name \notin DOMAIN tables
      BY <2>3
    <3> QED BY <1>1, <3>1, <3>2, <3>3, <3>4, Matched
  <2>5. CASE key \in DOMAIN pg
    <3>1. /\ DOMAIN live = DOMAIN pg \ {key}
          /\ \A k \in DOMAIN live : live[k] = PgTab(pg[k].cols, Unpointed(k, name))
      BY <1>5, <1>9, <2>5, ReplayIs
    <3>2. ASSUME NEW k \in DOMAIN live, k[2] \notin stray
          PROVE  k \in DOMAIN pg /\ k[2] # name
      BY <1>1, <1>3, <1>4, <2>5, <3>1, <3>2
    <3>3. \A k \in Pointing(name) : k[2] \in dark
      BY <1>9, <2>5 DEF BlindSpots
    <3>4. DOMAIN tables \ stray = {k[2] : k \in DOMAIN live} \ stray
      <4> DEFINE names == {k[2] : k \in DOMAIN live}
      <4>1. \A t : t \in names <=> \E k \in DOMAIN live : k[2] = t
        OBVIOUS
      <4>2. ASSUME NEW t, t \in DOMAIN tables, t \notin stray PROVE t \in names
        <5>1. t \in DOMAIN st /\ t # name /\ t \notin astray
          BY <1>1, <2>3, <4>2
        <5>2. PICK k \in DOMAIN pg : k[2] = t
          BY <1>2, <5>1
        <5>3. k # key
          BY <1>4, <5>1, <5>2
        <5> QED BY <3>1, <4>1, <5>2, <5>3
      <4>3. ASSUME NEW t, t \in names, t \notin stray PROVE t \in DOMAIN tables
        <5>1. PICK k \in DOMAIN live : k[2] = t
          BY <4>1, <4>3
        <5>2. k \in DOMAIN pg /\ k[2] # name
          BY <3>2, <4>3, <5>1
        <5> QED BY <1>1, <1>2, <2>3, <4>3, <5>1, <5>2
      <4> HIDE DEF names
      <4>4. \A t : t \in DOMAIN tables \ stray <=> t \in names \ stray
        BY <4>2, <4>3
      <4> QED BY <4>4 DEF names
    <3>5. ASSUME NEW k \in DOMAIN live, k[2] \notin stray
          PROVE  Followed(k, tables[k[2]], live[k], DOMAIN tables \cup stray, dark)
      <4> DEFINE t == st[k[2]]
                 p == pg[k]
                 table == k[2]
                 cons == Unpointed(k, name)
                 q == PgTab(p.cols, cons)
                 all == DOMAIN tables \cup stray
      <4>1. k \in DOMAIN pg /\ table # name /\ table \notin astray
        BY <1>1, <3>2, <3>5
      <4>2. Followed(k, t, p, DOMAIN st \cup astray, blind) /\ table \in DOMAIN st
        BY <1>2, <4>1
      <4>3. tables[table] = t /\ live[k] = q
        BY <2>3, <3>1, <4>1, <4>2
      <4>4. \A n \in DOMAIN cons : /\ n \in DOMAIN p.cons /\ cons[n] = p.cons[n]
                                   /\ ~(p.cons[n].kind = "fk" /\ p.cons[n].target = name)
        BY DEF Unpointed, Restrict
      <4>5. q.cols = p.cols /\ q.cons = cons
        BY DEF PgTab
      <4>6. table \notin dark => cons = p.cons
        <5> SUFFICES ASSUME table \notin dark PROVE cons = p.cons
          OBVIOUS
        <5>1. k \notin Pointing(name)
          BY <3>3
        <5>2. \A f \in Foreign(p) : f.target # name
          BY <4>1, <5>1 DEF Pointing
        <5>3. \A n \in DOMAIN p.cons : ~(p.cons[n].kind = "fk" /\ p.cons[n].target = name)
          BY <5>2 DEF Foreign
        <5>4. IsMap(p.cons)
          BY <1>5, <4>1, ProducedIs
        <5>5. {n \in DOMAIN p.cons : ~(p.cons[n].kind = "fk" /\ p.cons[n].target = name)} = DOMAIN p.cons
          BY <5>3
        <5>6. cons = Restrict(p.cons, DOMAIN p.cons)
          BY <5>5 DEF Unpointed
        <5> HIDE DEF cons, p
        <5> QED BY <5>4, <5>6 DEF Restrict, IsMap
      <4>7. table \notin dark => table \notin blind
        BY <1>1, <4>1
      <4>8. DOMAIN st \cup astray \subseteq all \cup {name}
        BY <1>1, <2>3
      <4> HIDE DEF t, p, cons, q, all
      <4>9. Followed(k, t, q, all, dark)
        <5>1. /\ k = <<t.schema, table>> /\ t.cols = p.cols
              /\ \A n \in DOMAIN p.cons :
                    /\ n = PgName(table, p.cons[n])
                    /\ p.cons[n].kind = "fk" => p.cons[n].target \in DOMAIN st \cup astray
              /\ table \notin blind => Follows(t, table, Range(p.cons)) /\ ~Twice(Range(p.cons))
          BY <4>2 DEF Followed
        <5>2. \A n \in DOMAIN cons : /\ n = PgName(table, cons[n])
                                     /\ cons[n].kind = "fk" => cons[n].target \in all
          BY <4>4, <4>8, <5>1
        <5>3. table \notin dark => Follows(t, table, Range(cons)) /\ ~Twice(Range(cons))
          BY <4>6, <4>7, <5>1
        <5> QED BY <4>5, <5>1, <5>2, <5>3 DEF Followed
      <4> QED BY <4>3, <4>9 DEF all
    <3> QED BY <3>4, <3>5 DEF Matching
  <2> QED BY <2>4, <2>5
<1>10. CASE s.op = "alter"
  <2>1. Known(s)
    BY <1>10 DEF Warns
  <2>2. /\ DOMAIN tables = DOMAIN st
        /\ \A t \in DOMAIN st : tables[t] = IF t = name THEN Alter(st[t], s) ELSE st[t]
    <3>1. tables = [st EXCEPT ![name] = Alter(st[name], s)]
      BY <1>10, <2>1 DEF Collect
    <3> HIDE DEF name
    <3> QED BY <3>1
  <2>3. /\ DOMAIN live = DOMAIN pg
        /\ \A k \in DOMAIN pg : k[2] # name => live[k] = pg[k]
        /\ key \in DOMAIN pg => live[key] = PgAlter(pg[key], s)
    <3>1. CASE key \in DOMAIN pg
      BY <1>4, <1>5, <1>10, <3>1, ReplayIs
    <3>2. CASE key \notin DOMAIN pg
      <4>1. live = pg
        BY <1>5, <1>10, <3>2, ReplayIs
      <4> QED BY <3>2, <4>1
    <3> QED BY <3>1, <3>2
  <2>4. blind \subseteq dark /\ BlindSpots(s) \subseteq dark
    BY <1>10
  <2>5. name \notin stray =>
              /\ name \in DOMAIN tables <=> \E k \in DOMAIN live : k[2] = name
              /\ \A k \in DOMAIN live : k[2] = name =>
                    Followed(k, tables[name], live[k], DOMAIN tables \cup stray, dark)
    <3> SUFFICES ASSUME name \notin stray
                 PROVE  /\ name \in DOMAIN tables <=> \E k \in DOMAIN live : k[2] = name
                        /\ \A k \in DOMAIN live : k[2] = name =>
                              Followed(k, tables[name], live[k], DOMAIN tables \cup stray, dark)
      OBVIOUS
    <3>1. name \in DOMAIN st /\ name \notin astray
      BY <1>1, <2>1 DEF Known
    <3>2. PICK j \in DOMAIN pg : j[2] = name
      BY <1>2, <3>1
    <3>3. key \in DOMAIN pg
      BY <1>10, <3>2 DEF Astray, PgTables
    <3>4. InTurn(pg[key], s)
      BY <1>10, <3>3 DEF Astray
    <3>5. \A k \in DOMAIN live : k[2] = name => k = key
      BY <1>3, <1>4, <2>3, <3>1, <3>3
    <3> DEFINE all == DOMAIN st \cup stray
    <3>6. Followed(key, st[name], pg[key], all, dark)
      <4>1. Followed(key, st[name], pg[key], DOMAIN st \cup astray, blind)
        BY <1>2, <1>4, <3>1, <3>3
      <4>2. DOMAIN st \cup astray \subseteq all
        BY <1>1
      <4> HIDE DEF all, name, key
      <4> QED BY <2>4, <4>1, <4>2, FollowedStays
    <3>7. {k[2] : k \in DOMAIN pg} \subseteq all
      BY <1>1, <1>2
    <3>8. Followed(key, Alter(st[name], s), PgAlter(pg[key], s), all, dark)
      <4> HIDE DEF all
      <4> QED BY <1>10, <2>4, <3>1, <3>3, <3>4, <3>6, <3>7, AlterFollowed
    <3>9. tables[name] = Alter(st[name], s) /\ live[key] = PgAlter(pg[key], s)
      BY <2>2, <2>3, <3>1, <3>3
    <3>10. name \in DOMAIN tables /\ key \in DOMAIN live /\ key[2] = name /\ all = DOMAIN tables \cup stray
      BY <1>4, <2>2, <2>3, <3>1, <3>3
    <3> HIDE DEF name, key, all
    <3> QED BY <3>5, <3>8, <3>9, <3>10
  <2>6. /\ DOMAIN st \ {name} = DOMAIN tables \ {name}
        /\ \A t \in DOMAIN st : t # name => tables[t] = st[t]
        /\ name \in DOMAIN st => name \in DOMAIN tables \cup stray
    BY <2>2
  <2> HIDE DEF name, key
  <2> QED BY <1>1, <2>3, <2>5, <2>6, Matched
<1>11. CASE s.op \notin {"create", "dropTable", "alter"}
  <2>1. s.op # "rename"
    BY DEF Warns
  <2>2. tables = st
    BY <1>11 DEF Collect
  <2>3. live = pg
    BY <1>5, <1>11, <2>1, ReplayIs
  <2>4. blind \subseteq dark
    BY <1>11
  <2>5. ASSUME NEW k \in DOMAIN live, k[2] = name, name \notin stray
        PROVE  Followed(k, tables[name], live[k], DOMAIN tables \cup stray, dark)
    <3> DEFINE all == DOMAIN tables \cup stray
    <3>1. Followed(k, st[name], pg[k], DOMAIN st \cup astray, blind)
      BY <1>1, <1>2, <2>3, <2>5
    <3>2. DOMAIN st \cup astray \subseteq all
      BY <1>1, <2>2
    <3> HIDE DEF all, name
    <3>3. Followed(k, st[name], pg[k], all, dark)
      BY <2>4, <3>1, <3>2, FollowedStays
    <3> QED BY <2>2, <2>3, <3>3 DEF all
  <2>6. name \notin stray => (name \in DOMAIN tables <=> \E k \in DOMAIN live : k[2] = name)
    BY <1>1, <1>2, <2>2, <2>3
  <2> HIDE DEF name, key
  <2> QED BY <1>1, <2>2, <2>3, <2>5, <2>6, Matched
<1> QED BY <1>7, <1>8, <1>9, <1>10, <1>11

LEMMA FollowingStep == Types /\ Following /\ [Next]_vars => Following'
<1> SUFFICES ASSUME Types, Following, [Next]_vars, Quiet'
             PROVE  Matching(st', pg', astray', blind')
  BY DEF Following
<1>1. findings' = {} /\ unseen' = 0
  BY DEF Quiet
<1>2. ASSUME NEW s \in Statement, Migrate(s) PROVE Matching(st', pg', astray', blind')
  <2>1. /\ s.op # "setSchema" /\ Legal(s) /\ pg' = Replay(s) /\ st' = Collect(s)
        /\ findings' = IF Warns(s) THEN findings \cup {"warn"} ELSE findings
        /\ blind' = (IF s.op = "dropTable" THEN blind \ {s.table} ELSE blind) \cup BlindSpots(s)
        /\ astray' = astray \cup Astray(s)
        /\ unseen' = unseen
    BY <1>2 DEF Migrate, Run
  <2>2. ~Warns(s) /\ findings = {}
    BY <1>1, <2>1
  <2>3. Quiet
    BY <1>1, <2>1, <2>2 DEF Quiet
  <2> QED BY <2>1, <2>2, <2>3, MigrateFollows
<1>3. ASSUME NEW s \in Statement, Unparsed(s) PROVE FALSE
  BY <1>1, <1>3 DEF Unparsed
<1>4. ASSUME NEW s \in Statement, Unseen(s) PROVE FALSE
  BY <1>1, <1>4 DEF Unseen, Types
<1>5. CASE UNCHANGED vars
  <2>1. /\ st' = st /\ pg' = pg /\ findings' = findings /\ unseen' = unseen
        /\ blind' = blind /\ astray' = astray
    BY <1>5 DEF vars
  <2>2. Quiet
    BY <1>1, <2>1 DEF Quiet
  <2> QED BY <2>1, <2>2 DEF Following
<1> QED BY <1>2, <1>3, <1>4, <1>5 DEF Next

LEMMA FollowingInit == Init => Following
<1>1. DOMAIN Nothing = {}
  BY DEF Nothing
<1> QED BY <1>1 DEF Init, Following, Matching

LEMMA FollowingAlways == Spec => []Following
<1>1. Spec => [](Types /\ Following)
  BY TypesInit, TypesStep, FollowingInit, FollowingStep, PTL DEF Spec
<1> QED BY <1>1, PTL

\* The values of the columns and the edges of a draft are those of production.
ValuesAre(t, p) == \A c \in DOMAIN t.cols :
    BagToSet(t.enum[c]) =
        (UNION {d.values : d \in {d \in Range(p.cons) : d.kind = "enum" /\ d.col = c}}) \ {Empty}
EdgesAre(t, p, tables, stray) ==
    {r \in t.refs : r.target \in tables \ stray} =
        {RefOf(d) : d \in {d \in Range(p.cons) : d.kind = "fk" /\ d.target \notin stray}}

\* The draft of a table is what production has.
LEMMA DraftIs ==
    ASSUME NEW k, NEW t, Collected(t), NEW p, Produced(p), NEW tables, NEW stray, NEW dark,
           Followed(k, t, p, tables \cup stray, dark), k[2] \notin dark
    PROVE  ValuesAre(t, p) /\ EdgesAre(t, p, tables, stray)
<1> DEFINE table == k[2]
           reg == t.reg
           C == Range(p.cons)
<1>1. Agrees(t.cols, t.enum, t.refs, reg) /\ Has(reg, table, C)
  BY DEF Followed, Follows
<1>2. \A d \in C : d.kind = "fk" => d.target \in tables \cup stray
  BY MapRange DEF Followed
<1>3. ASSUME NEW d \in C, d.kind # "other"
      PROVE  \E n \in DOMAIN reg : reg[n] = d
  BY <1>1, <1>3 DEF Has
<1>4. \A n \in DOMAIN reg : reg[n].kind # "other" => reg[n] \in C
  BY <1>1 DEF Has
<1> HIDE DEF table, reg, C
<1>5. ASSUME NEW c \in DOMAIN t.cols
      PROVE  BagToSet(t.enum[c]) =
                (UNION {d.values : d \in {d \in C : d.kind = "enum" /\ d.col = c}}) \ {Empty}
  <2>1. {reg[n].values : n \in {n \in Named(reg, "enum") : reg[n].col = c}}
            = {d.values : d \in {d \in C : d.kind = "enum" /\ d.col = c}}
    <3>1. ASSUME NEW n \in Named(reg, "enum"), reg[n].col = c
          PROVE  reg[n] \in {d \in C : d.kind = "enum" /\ d.col = c}
      BY <1>4, <3>1 DEF Named
    <3>2. ASSUME NEW d \in C, d.kind = "enum", d.col = c
          PROVE  \E n \in {n \in Named(reg, "enum") : reg[n].col = c} : d = reg[n]
      BY <1>3, <3>2 DEF Named
    <3> QED BY <3>1, <3>2
  <2>2. DOMAIN t.enum[c] =
            (UNION {reg[n].values : n \in {n \in Named(reg, "enum") : reg[n].col = c}}) \ {Empty}
    BY <1>1 DEF Agrees
  <2>3. BagToSet(t.enum[c]) = DOMAIN t.enum[c]
    BY Bags
  <2> QED BY <2>1, <2>2, <2>3
<1>6. {r \in t.refs : r.target \in tables \ stray} =
        {RefOf(d) : d \in {d \in C : d.kind = "fk" /\ d.target \notin stray}}
  <2>1. t.refs = {RefOf(reg[n]) : n \in Named(reg, "fk")}
    BY <1>1 DEF Agrees
  <2>2. t.refs = {RefOf(d) : d \in {d \in C : d.kind = "fk"}}
    <3>1. ASSUME NEW n \in Named(reg, "fk") PROVE reg[n] \in {d \in C : d.kind = "fk"}
      BY <1>4 DEF Named
    <3>2. ASSUME NEW d \in C, d.kind = "fk" PROVE \E n \in Named(reg, "fk") : d = reg[n]
      BY <1>3, <3>2 DEF Named
    <3> QED BY <2>1, <3>1, <3>2
  <2>3. \A d : RefOf(d).target = d.target
    BY DEF RefOf
  <2> DEFINE L == {r \in t.refs : r.target \in tables \ stray}
             R == {RefOf(d) : d \in {d \in C : d.kind = "fk" /\ d.target \notin stray}}
  <2>4. ASSUME NEW r \in L PROVE r \in R
    <3>1. PICK d \in {d \in C : d.kind = "fk"} : r = RefOf(d)
      BY <2>2
    <3> QED BY <2>3, <3>1
  <2>5. ASSUME NEW r \in R PROVE r \in L
    <3>1. PICK d \in {d \in C : d.kind = "fk" /\ d.target \notin stray} : r = RefOf(d)
      OBVIOUS
    <3>2. r \in t.refs /\ r.target = d.target
      BY <2>2, <2>3, <3>1
    <3> QED BY <1>2, <3>1, <3>2
  <2> HIDE DEF L, R
  <2>6. \A r : r \in L <=> r \in R
    BY <2>4, <2>5
  <2> QED BY <2>6 DEF L, R
<1> QED BY <1>5, <1>6 DEF C, ValuesAre, EdgesAre

\* With nothing reported and every statement seen, what is collected is what
\* production has, however many statements ran and in whatever order, for every
\* table not astray: tables, columns and types, and, blind tables excepted, the
\* values of every column and the edges of every table (migrate.go: applyStmt,
\* applyAlterTable; structure.go: dropConstraint).
THEOREM DraftIsProduction == Spec => []DraftIsReplayed
<1>1. Types /\ Following => DraftIsReplayed
  <2> SUFFICES ASSUME Types, Following, Quiet
               PROVE  /\ DOMAIN st \ astray = {k[2] : k \in DOMAIN pg} \ astray
                      /\ \A t \in DOMAIN st \ astray : st[t].cols = PgOf(t).cols
                      /\ \A t \in DOMAIN st \ (astray \cup blind) :
                          /\ \A c \in DOMAIN st[t].cols :
                              BagToSet(st[t].enum[c]) =
                                  (UNION {d.values : d \in {d \in Range(PgOf(t).cons) :
                                                              d.kind = "enum" /\ d.col = c}}) \ {Empty}
                          /\ {r \in st[t].refs : r.target \in DOMAIN st \ astray} =
                                  {RefOf(d) : d \in {d \in Range(PgOf(t).cons) :
                                                      d.kind = "fk" /\ d.target \notin astray}}
    BY DEF DraftIsReplayed
  <2>1. /\ DOMAIN st \ astray = {k[2] : k \in DOMAIN pg} \ astray
        /\ \A k \in DOMAIN pg : k[2] \notin astray =>
              Followed(k, st[k[2]], pg[k], DOMAIN st \cup astray, blind)
    BY DEF Following, Matching
  <2>2. ASSUME NEW t \in DOMAIN st, t \notin astray
        PROVE  \E k \in DOMAIN pg : k[2] = t /\ PgOf(t) = pg[k]
    <3> DEFINE k == CHOOSE k \in DOMAIN pg : k[2] = t
    <3>1. t \in {j[2] : j \in DOMAIN pg}
      BY <2>1, <2>2
    <3>2. k \in DOMAIN pg /\ k[2] = t
      BY <3>1
    <3>3. PgOf(t) = pg[k]
      BY DEF PgOf
    <3> HIDE DEF k
    <3> QED BY <3>2, <3>3
  <2>3. ASSUME NEW t \in DOMAIN st \ astray PROVE st[t].cols = PgOf(t).cols
    <3>1. PICK k \in DOMAIN pg : k[2] = t /\ PgOf(t) = pg[k]
      BY <2>2
    <3>2. Followed(k, st[t], PgOf(t), DOMAIN st \cup astray, blind)
      BY <2>1, <3>1
    <3> QED BY <3>2 DEF Followed
  <2>4. ASSUME NEW t \in DOMAIN st \ (astray \cup blind)
        PROVE  /\ \A c \in DOMAIN st[t].cols :
                    BagToSet(st[t].enum[c]) =
                        (UNION {d.values : d \in {d \in Range(PgOf(t).cons) :
                                                    d.kind = "enum" /\ d.col = c}}) \ {Empty}
               /\ {r \in st[t].refs : r.target \in DOMAIN st \ astray} =
                        {RefOf(d) : d \in {d \in Range(PgOf(t).cons) :
                                            d.kind = "fk" /\ d.target \notin astray}}
    <3>1. PICK k \in DOMAIN pg : k[2] = t /\ PgOf(t) = pg[k]
      BY <2>2
    <3>2. Collected(st[t]) /\ Produced(PgOf(t))
      BY <3>1 DEF Types
    <3>3. Followed(k, st[t], PgOf(t), DOMAIN st \cup astray, blind) /\ k[2] \notin blind
      BY <2>1, <3>1
    <3>4. ValuesAre(st[t], PgOf(t)) /\ EdgesAre(st[t], PgOf(t), DOMAIN st, astray)
      BY <3>2, <3>3, DraftIs
    <3> QED BY <3>4 DEF ValuesAre, EdgesAre
  <2> QED BY <2>1, <2>3, <2>4
<1> QED BY <1>1, TypesAlways, FollowingAlways, PTL
=============================================================================

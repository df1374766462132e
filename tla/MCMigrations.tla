--------------------------- MODULE MCMigrations ---------------------------
(* Statements for TLC: a table t in two schemas, a table u it refers to.   *)
EXTENDS Migrations

VARIABLE vocabulary     \* which of the two sets of statements a behaviour is about

Check(name, values) ==
    [name |-> name, kind |-> "enum", col |-> "b", values |-> values, target |-> "", pk |-> ""]
ForeignKey(name) ==
    [name |-> name, kind |-> "fk", col |-> "b", values |-> {}, target |-> "u", pk |-> "a"]
Type(family, mods) == [family |-> family, mods |-> mods]
Number == Type("integer", "")
Text == Type("text", "")
Time == Type("timestamp", "")
Time3 == Type("timestamp", "(3)")

Col(name, type, inline) == [el |-> "column", name |-> name, type |-> type, inline |-> inline]
Con(con) == [el |-> "constraint", con |-> con]
Create(schema, table, ifNotExists, elements) ==
    [op |-> "create", schema |-> schema, table |-> table, ifNotExists |-> ifNotExists,
     elements |-> elements]
On(op, rest) == [op |-> op, schema |-> "public", table |-> "t"] @@ rest
AlterTable(ifExists, cmds) == On("alter", [ifExists |-> ifExists, cmds |-> cmds])
Alter1(cmd) == AlterTable(FALSE, <<cmd>>)

Add(name, type, ifNotExists, inline) ==
    [op |-> "addColumn", name |-> name, type |-> type, ifNotExists |-> ifNotExists,
     inline |-> inline]
Drop(name, ifExists) == [op |-> "dropColumn", name |-> name, ifExists |-> ifExists]
Retype(name, type) == [op |-> "alterType", name |-> name, type |-> type]
AddCon(con) == [op |-> "addConstraint", con |-> con]
DropCon(constraint, ifExists) ==
    [op |-> "dropConstraint", constraint |-> constraint, ifExists |-> ifExists]

Ck1 == Check(<<"ck1">>, {"x", "y"})
Ck1New == Check(<<"ck1">>, {"x"})
Ck2 == Check(<<"ck2">>, {"y", ""})
Fk1 == ForeignKey(<<"fk1">>)

\* t_wide_fkey is longer than a name may be.
Wide == [ForeignKey(Anonymous) EXCEPT !.col = "wide"]
Cut == [x \in {<<"t", "wide">>} |-> <<"t_wide_fk">>]
Pgs == {"pgw"}

Statements ==
    {Create("public", "t", FALSE, <<Col("a", Number, <<>>), Col("b", Number, <<>>), Con(Ck1)>>),
     Create("public", "t", TRUE, <<Col("b", Number, <<ForeignKey(Anonymous)>>)>>),
     Create("public", "t", FALSE, <<Con(Ck1), Col("b", Number, <<>>)>>),
     Create("audit", "t", FALSE, <<Col("a", Number, <<>>)>>),
     Create("public", "u", FALSE, <<Col("a", Number, <<>>)>>),
     Alter1(Add("b", Number, FALSE, <<ForeignKey(Anonymous)>>)),
     Alter1(Add("b", Text, TRUE, <<Check(Anonymous, {"x"})>>)),
     Alter1(Add("b", Number, FALSE, <<Fk1>>)),
     Alter1(Drop("b", TRUE)),
     AlterTable(TRUE, <<Retype("b", Text)>>),
     Alter1(AddCon(Ck1)),
     Alter1(AddCon(Ck2)),
     Alter1(AddCon(Fk1)),
     Alter1(AddCon(Check(Anonymous, {"x"}))),
     Alter1(DropCon(<<"ck1">>, TRUE)),
     Alter1(DropCon(<<"ck2">>, FALSE)),
     Alter1(DropCon(<<"fk1">>, FALSE)),
     Alter1(DropCon(<<"t", "b", "fk">>, FALSE)),
     Alter1(DropCon(<<"t", "b", "enum">>, FALSE)),
     AlterTable(FALSE, <<DropCon(<<"ck1">>, FALSE), AddCon(Ck1New)>>),
     AlterTable(FALSE, <<AddCon(Ck1New), DropCon(<<"ck1">>, FALSE)>>),
     AlterTable(FALSE, <<AddCon(Ck2), DropCon(<<"ck1">>, FALSE)>>),
     On("dropTable", [cascade |-> FALSE, ifExists |-> TRUE]),
     [op |-> "dropTable", schema |-> "public", table |-> "u", cascade |-> TRUE,
      ifExists |-> FALSE],
     On("rename", [name |-> "b", to |-> "c"]),
     On("setSchema", [to |-> "audit"])}

\* Statements about names and types: foreign keys whose names are too long,
\* tables LIKE 'pg_%', precisions.
Spellings ==
    {Create("public", "t", FALSE, <<Col("b", Time, <<>>)>>),
     Create("public", "u", FALSE, <<Col("a", Number, <<>>)>>),
     Create("public", "pgw", FALSE, <<Col("a", Number, <<>>)>>),
     Alter1(Add("wide", Number, FALSE, <<Wide>>)),
     Alter1(DropCon(<<"t", "wide", "fk">>, FALSE)),
     Alter1(Add("c", Number, FALSE, <<[ForeignKey(Anonymous) EXCEPT !.col = "c"]>>)),
     Alter1(DropCon(<<"t", "c", "fk">>, FALSE)),
     Alter1(Retype("b", Time3)),
     Alter1(Retype("b", Type("numeric", "(8,2)"))),
     Alter1(Retype("b", Type("numeric", "(8,3)"))),
     AlterTable(FALSE, <<Add("a", Number, FALSE, <<>>), Drop("b", FALSE)>>),
     AlterTable(FALSE, <<Add("b", Number, FALSE, <<>>), Drop("b", FALSE)>>),
     On("dropTable", [cascade |-> FALSE, ifExists |-> FALSE])}

Vocabulary == [structure |-> Statements, spelling |-> Spellings]
AllStatements == Statements \cup Spellings

MCInit == Init /\ vocabulary \in DOMAIN Vocabulary
MCNext == /\ \E s \in Vocabulary[vocabulary] : Migrate(s) \/ Unparsed(s) \/ Unseen(s)
          /\ UNCHANGED vocabulary
MCSpec == MCInit /\ [][MCNext]_<<vars, vocabulary>>
===========================================================================

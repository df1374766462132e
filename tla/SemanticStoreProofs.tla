------------------------- MODULE SemanticStoreProofs -------------------------
(***************************************************************************)
(* Proofs about SemanticStore for every catalogue, every grants file, any  *)
(* number of pages and commits, and any number of clients at work at once: *)
(* what the backup copies, what a sync warns of, what a grants file that   *)
(* names more than tables is applied as, how the two channels of a search  *)
(* are fused, and what the semantic tools answer.                          *)
(***************************************************************************)
EXTENDS SemanticStore, FiniteSetTheorems, WellFoundedInduction, TLAPS

-----------------------------------------------------------------------------
(* The file and its backup.                                                *)

Whole(v) == [p \in Page |-> v]

\* The file is one version; its latest commits may be in the WAL only.
FileInv ==
    /\ commits \in Nat
    /\ wal \in {NoWal, commits}
    /\ wal = NoWal => file = Whole(commits)
    /\ \E v \in 0..commits : file = Whole(v)

\* What has been copied is of the version the file has had ever since.
CopyInv ==
    /\ backup = [pc |-> backup.pc, same |-> backup.same, page |-> backup.page,
                 began |-> backup.began, disturbed |-> backup.disturbed]
    /\ backup.page \in Page /\ backup.began \in 0..commits
    /\ copy = [p \in Page |-> copy[p]]
    /\ backup.pc \in {"checkpoint", "copy"} => backup.page = 1
    /\ backup.pc \in {"copy", "pages"} /\ ~backup.disturbed =>
          \E v \in backup.began..commits :
              /\ file = Whole(v)
              /\ \A p \in 1..(backup.page - 1) : copy[p] = v
    /\ BackupIsSnapshot

StoreInv == FileInv /\ CopyInv

LEMMA InitStore == Init => StoreInv
<1> SUFFICES ASSUME Init PROVE StoreInv
  OBVIOUS
<1>1. 1 \in Page
  BY PagesAssumption DEF PagesAssumption, Page
<1>2. FileInv
  BY DEF Init, CatalogueInit, BackupInit, FileInv, Whole, NoWal
<1>3. CopyInv
  BY <1>1 DEF Init, CatalogueInit, BackupInit, CopyInv, NoBackup, BackupIsSnapshot
<1> QED BY <1>2, <1>3 DEF StoreInv

\* A version is committed, or nothing.
LEMMA CommitStep ==
    ASSUME StoreInv, commits' \in {commits, commits + 1}, LogCommit
    PROVE  StoreInv'
<1>1. UNCHANGED <<file, copy, backup>> /\ commits' \in Nat /\ commits <= commits'
  BY DEF StoreInv, FileInv, LogCommit
<1>2. FileInv'
  BY <1>1 DEF StoreInv, FileInv, LogCommit, NoWal, Whole
<1>3. CopyInv'
  <2>1. \A v \in Nat : v \in backup.began..commits => v \in backup.began..commits'
    BY <1>1 DEF StoreInv, FileInv, CopyInv
  <2>2. backup.began..commits \subseteq Nat
    BY DEF StoreInv, FileInv, CopyInv
  <2>3. BackupIsSnapshot'
    BY <1>1, <2>1, <2>2 DEF StoreInv, CopyInv, BackupIsSnapshot
  <2>4. backup.pc \in {"copy", "pages"} /\ ~backup.disturbed =>
            \E v \in backup.began..commits' :
                /\ file = Whole(v)
                /\ \A p \in 1..(backup.page - 1) : copy[p] = v
    BY <2>1, <2>2 DEF StoreInv, CopyInv
  <2>5. backup.began \in 0..commits'
    BY <1>1 DEF StoreInv, FileInv, CopyInv
  <2> QED BY <1>1, <2>3, <2>4, <2>5 DEF StoreInv, CopyInv, Whole
<1> QED BY <1>2, <1>3 DEF StoreInv

\* Only these transactions change the tables.
LEMMA CommandCommits ==
    ASSUME StoreInv, CommandNext \/ OtherCommit
    PROVE  commits' \in {commits, commits + 1}
<1>1. commits \in Nat
  BY DEF StoreInv, FileInv
<1>2. CASE BeginApply \/ NextTarget \/ ExpandTarget \/ ExpandTables \/ ExpandDescribed
           \/ ExpandLook \/ EndTarget \/ ExpandFails
  BY <1>1, <1>2 DEF BeginApply, NextTarget, ExpandTarget, ExpandTables, ExpandDescribed,
        ExpandLook, EndTarget, ExpandFails, ApplyBusy, catalogue
<1>3. CASE CommitApply \/ SyncCommit \/ OtherCommit
  BY <1>1, <1>3 DEF CommitApply, SyncCommit, OtherCommit, Commit, Write, catalogue
<1>4. CASE ReadGrants \/ CheckGrant \/ ReadPatterns \/ CheckPattern \/ EndCheck
           \/ CheckFails \/ CloseSync
  BY <1>1, <1>4 DEF ReadGrants, CheckGrant, ReadPatterns, CheckPattern, EndCheck,
        CheckFails, CloseSync, CheckBusy, catalogue
<1> QED BY <1>2, <1>3, <1>4 DEF CommandNext

LEMMA StoredIs == ASSUME StoreInv PROVE Stored = Whole(commits)
BY DEF StoreInv, FileInv, Stored, Whole, NoWal

LEMMA BackupStep == ASSUME StoreInv, BackupNext PROVE StoreInv'
<1>0. UNCHANGED commits
  BY DEF BackupNext, OtherCheckpoint, BeginBackup, CheckpointBusy, CheckpointDone, OpenFiles,
         CopyPage, BackupFails, BackupBusy, catalogue
<1>1. CASE OtherCheckpoint
  <2>1. /\ file' = Whole(commits) /\ wal' = NoWal /\ copy' = copy
        /\ backup' = [pc |-> backup.pc, same |-> backup.same, page |-> backup.page,
                      began |-> backup.began, disturbed |-> TRUE]
    BY <1>1, StoredIs DEF OtherCheckpoint, StoreInv, CopyInv
  <2>2. FileInv'
    BY <1>0, <2>1 DEF StoreInv, FileInv, Whole
  <2>3. CopyInv'
    BY <1>0, <2>1 DEF StoreInv, CopyInv, BackupIsSnapshot
  <2> QED BY <2>2, <2>3 DEF StoreInv
<1>2. CASE BeginBackup
  <2>1. PICK same \in BOOLEAN :
          backup' = [NoBackup EXCEPT !.pc = "checkpoint", !.same = same, !.began = commits]
    BY <1>2 DEF BeginBackup
  <2>2. backup' = [pc |-> "checkpoint", same |-> same, page |-> 1, began |-> commits,
                   disturbed |-> FALSE]
    BY <2>1 DEF NoBackup
  <2>3. UNCHANGED <<file, wal, copy>>
    BY <1>2 DEF BeginBackup
  <2>4. 1 \in Page
    BY PagesAssumption DEF PagesAssumption, Page
  <2>5. FileInv'
    BY <1>0, <2>3 DEF StoreInv, FileInv, Whole
  <2>6. CopyInv'
    BY <1>0, <2>2, <2>3, <2>4 DEF StoreInv, FileInv, CopyInv, BackupIsSnapshot
  <2> QED BY <2>5, <2>6 DEF StoreInv
<1>3. CASE CheckpointBusy \/ BackupFails
  <2>1. /\ UNCHANGED <<file, wal, copy>>
        /\ backup' = [pc |-> "failed", same |-> backup.same, page |-> backup.page,
                      began |-> backup.began, disturbed |-> backup.disturbed]
    BY <1>3 DEF CheckpointBusy, BackupFails, StoreInv, CopyInv
  <2>2. FileInv'
    BY <1>0, <2>1 DEF StoreInv, FileInv, Whole
  <2>3. CopyInv'
    BY <1>0, <2>1 DEF StoreInv, CopyInv, BackupIsSnapshot
  <2> QED BY <2>2, <2>3 DEF StoreInv
<1>4. CASE CheckpointDone
  <2>1. /\ file' = Whole(commits) /\ wal' = NoWal /\ copy' = copy
        /\ backup.pc = "checkpoint"
        /\ backup' = [pc |-> "copy", same |-> backup.same, page |-> backup.page,
                      began |-> backup.began, disturbed |-> FALSE]
    BY <1>4, StoredIs DEF CheckpointDone, BackupBusy, StoreInv, CopyInv
  <2>2. FileInv'
    BY <1>0, <2>1 DEF StoreInv, FileInv, Whole
  <2>3. commits \in backup.began..commits
    BY DEF StoreInv, FileInv, CopyInv
  <2>4. CopyInv'
    BY <1>0, <2>1, <2>3 DEF StoreInv, CopyInv, BackupIsSnapshot, Whole
  <2> QED BY <2>2, <2>4 DEF StoreInv
<1>5. CASE OpenFiles
  <2>1. /\ backup.pc = "copy" /\ UNCHANGED <<file, wal>>
        /\ copy' = copy \/ copy' = [p \in Page |-> Missing]
    BY <1>5 DEF OpenFiles, BackupBusy
  <2>2. \E pc \in {"failed", "pages"} :
          backup' = [pc |-> pc, same |-> backup.same, page |-> backup.page,
                     began |-> backup.began, disturbed |-> backup.disturbed]
    BY <1>5 DEF OpenFiles, StoreInv, CopyInv
  <2>3. FileInv'
    BY <1>0, <2>1 DEF StoreInv, FileInv, Whole
  <2>4. backup.page = 1 /\ 1..(1 - 1) = {}
    BY <2>1 DEF StoreInv, CopyInv
  <2>5. CopyInv'
    BY <1>0, <2>1, <2>2, <2>4 DEF StoreInv, CopyInv, BackupIsSnapshot, Whole
  <2> QED BY <2>3, <2>5 DEF StoreInv
<1>6. CASE CopyPage
  <2> DEFINE n == backup.page
  <2>1. /\ backup.pc = "pages" /\ UNCHANGED <<file, wal>>
        /\ copy' = [copy EXCEPT ![n] = file[n]]
    BY <1>6 DEF CopyPage, BackupBusy
  <2>2. n \in Page /\ Pages \in Nat /\ Page = 1..Pages
    BY PagesAssumption DEF PagesAssumption, StoreInv, CopyInv, Page
  <2>3. /\ copy' = [p \in Page |-> copy'[p]]
        /\ copy'[n] = file[n]
        /\ \A p \in Page \ {n} : copy'[p] = copy[p]
    BY <2>1, <2>2 DEF StoreInv, CopyInv
  <2>4. FileInv'
    BY <1>0, <2>1 DEF StoreInv, FileInv, Whole
  <2>5. ASSUME ~backup.disturbed
        PROVE  \E v \in backup.began..commits :
                  file = Whole(v) /\ \A p \in 1..n : copy'[p] = v
    <3>1. PICK v \in backup.began..commits :
              file = Whole(v) /\ \A p \in 1..(n - 1) : copy[p] = v
      BY <2>1, <2>5 DEF StoreInv, CopyInv
    <3>2. copy'[n] = v
      BY <2>2, <2>3, <3>1 DEF Whole
    <3>3. \A p \in 1..n : p = n \/ (p \in 1..(n - 1) /\ p \in Page \ {n})
      BY <2>2
    <3> QED BY <2>3, <3>1, <3>2, <3>3
  <2>6. CASE n = Pages
    <3>1. backup' = [pc |-> "done", same |-> backup.same, page |-> n,
                     began |-> backup.began, disturbed |-> backup.disturbed]
      BY <1>6, <2>6 DEF CopyPage, StoreInv, CopyInv
    <3>2. BackupIsSnapshot'
      <4> SUFFICES ASSUME ~backup.disturbed
                   PROVE  \E v \in backup.began..commits : copy' = [p \in Page |-> v]
        BY <1>0, <3>1 DEF BackupIsSnapshot
      <4>1. PICK v \in backup.began..commits : \A p \in 1..n : copy'[p] = v
        BY <2>5
      <4>2. copy' = [p \in Page |-> v]
        BY <2>2, <2>3, <2>6, <4>1
      <4> QED BY <4>2
    <3>3. CopyInv'
      BY <1>0, <2>2, <2>3, <3>1, <3>2 DEF StoreInv, CopyInv
    <3> QED BY <2>4, <3>3 DEF StoreInv
  <2>7. CASE n # Pages
    <3>1. backup' = [pc |-> "pages", same |-> backup.same, page |-> n + 1,
                     began |-> backup.began, disturbed |-> backup.disturbed]
      BY <1>6, <2>1, <2>7 DEF CopyPage, StoreInv, CopyInv
    <3>2. n + 1 \in Page /\ (n + 1) - 1 = n
      BY <2>2, <2>7
    <3>3. BackupIsSnapshot'
      BY <3>1 DEF BackupIsSnapshot
    <3>4. ~backup.disturbed =>
              \E v \in backup.began..commits :
                  file' = Whole(v) /\ \A p \in 1..((n + 1) - 1) : copy'[p] = v
      BY <2>1, <2>5, <3>2
    <3>5. CopyInv'
      BY <1>0, <2>3, <3>1, <3>2, <3>3, <3>4 DEF StoreInv, CopyInv, Whole
    <3> QED BY <2>4, <3>5 DEF StoreInv
  <2> QED BY <2>6, <2>7
<1> QED BY <1>1, <1>2, <1>3, <1>4, <1>5, <1>6 DEF BackupNext

LEMMA StoreNext == StoreInv /\ [Next]_vars => StoreInv'
<1> SUFFICES ASSUME StoreInv, [Next]_vars PROVE StoreInv'
  OBVIOUS
<1>1. CASE UNCHANGED <<copying, commits>>
  BY <1>1 DEF copying, StoreInv, FileInv, CopyInv, BackupIsSnapshot, Whole
<1>2. CASE CallNext /\ UNCHANGED <<writers, copying>>
  <2>1. UNCHANGED commits
    BY <1>2 DEF CallNext, Start, Return, ReadEntity, StatementFails, WalkNode, ListNodes,
        ReadValues, CountValues, ReadEdges, ReadTables, ReadTime, ReadKeywords, ReadVectors,
        ReadHits, Busy, catalogue
  <2> QED BY <1>1, <1>2, <2>1
<1>3. CASE (CommandNext \/ OtherCommit) /\ LogCommit
  BY <1>3, CommandCommits, CommitStep
<1>4. CASE BackupNext
  BY <1>4, BackupStep
<1>5. CASE UNCHANGED vars
  BY <1>1, <1>5 DEF vars, catalogue
<1> QED BY <1>2, <1>3, <1>4, <1>5 DEF Next

LEMMA StoreInvariance == Spec => []StoreInv
BY InitStore, StoreNext, PTL DEF Spec

\* However many pages the file has, whatever is committed meanwhile and
\* whichever path is given: no commit is taken from the store, and an
\* undisturbed backup that succeeds is one version (backup.go: Backup).
THEOREM BackupHoldsOneVersion == Spec => []BackupIsSound
<1>1. StoreInv => StoreKeepsCommits
  BY StoredIs DEF StoreKeepsCommits, Whole
<1>2. StoreInv => BackupIsSnapshot
  BY DEF StoreInv, CopyInv
<1>3. StoreInv => BackupIsSound
  BY <1>1, <1>2 DEF BackupIsSound
<1> QED BY <1>3, StoreInvariance, PTL

-----------------------------------------------------------------------------
(* The warnings of a sync.                                                 *)

Uncovered(ps) == (UNION {Of(p.user, TablesUnder(store, p.prefix)) : p \in ps}) \ granted
Stale(gs) == {g \in gs : g.table \notin Live(store)}

\* What a sync that nobody wrote beside has found so far.
Found ==
    /\ check.pc \in {"idle", "grants"} => check.stale = {} /\ check.uncovered = {}
    /\ check.pc \in {"stale", "patterns", "done"} => check.have = granted
    /\ check.pc = "stale" => /\ check.rows \subseteq granted
                             /\ check.stale = Stale(granted \ check.rows)
                             /\ check.uncovered = {}
    /\ check.pc \in {"patterns", "done"} => check.stale = Stale(granted)
    /\ check.pc = "patterns" => /\ check.todo \subseteq patterns
                                /\ check.uncovered = Uncovered(patterns \ check.todo)
    /\ check.pc = "done" => check.uncovered = Uncovered(patterns)

WarnInv ==
    /\ check = [pc |-> check.pc, have |-> check.have, rows |-> check.rows,
                todo |-> check.todo, stale |-> check.stale, uncovered |-> check.uncovered,
                quiet |-> check.quiet, skipped |-> check.skipped]
    /\ check.pc \in {"idle", "grants", "stale", "patterns", "done"}
    /\ check.quiet /\ ~check.skipped => Found

LEMMA InitWarn == Init => WarnInv
BY DEF Init, CoverageInit, NoCheck, WarnInv, Found

LEMMA WarnQuiet ==
    ASSUME WarnInv, UNCHANGED <<check, store, granted, patterns>>
    PROVE  WarnInv'
BY DEF WarnInv, Found, Uncovered, Stale, Of, TablesUnder, IsA, Live

\* A write beside it: this sync's warnings are no longer held to anything.
LEMMA WarnLoud ==
    ASSUME WarnInv, check' = [check EXCEPT !.quiet = FALSE]
    PROVE  WarnInv'
<1>1. check' = [pc |-> check.pc, have |-> check.have, rows |-> check.rows,
                todo |-> check.todo, stale |-> check.stale, uncovered |-> check.uncovered,
                quiet |-> FALSE, skipped |-> check.skipped]
  BY DEF WarnInv
<1>2. ~check'.quiet
  BY <1>1
<1> QED BY <1>1, <1>2 DEF WarnInv

\* Something could not be read.
LEMMA WarnSkipped ==
    ASSUME WarnInv, CheckFails
    PROVE  WarnInv'
<1>1. CASE check' = [check EXCEPT !.pc = "done", !.skipped = TRUE]
  <2>1. check' = [pc |-> "done", have |-> check.have, rows |-> check.rows,
                  todo |-> check.todo, stale |-> check.stale,
                  uncovered |-> check.uncovered, quiet |-> check.quiet, skipped |-> TRUE]
    BY <1>1 DEF WarnInv
  <2>2. check'.skipped
    BY <2>1
  <2> QED BY <2>1, <2>2 DEF WarnInv
<1>2. CASE \E g : check' = [check EXCEPT !.rows = @ \ {g}, !.skipped = TRUE]
  <2>1. PICK g : check' = [check EXCEPT !.rows = @ \ {g}, !.skipped = TRUE]
    BY <1>2
  <2>2. check' = [pc |-> check.pc, have |-> check.have, rows |-> check.rows \ {g},
                  todo |-> check.todo, stale |-> check.stale,
                  uncovered |-> check.uncovered, quiet |-> check.quiet, skipped |-> TRUE]
    BY <2>1 DEF WarnInv
  <2>3. check'.skipped
    BY <2>2
  <2> QED BY <2>2, <2>3 DEF WarnInv
<1>3. CASE \E p : check' = [check EXCEPT !.todo = @ \ {p}, !.skipped = TRUE]
  <2>1. PICK p : check' = [check EXCEPT !.todo = @ \ {p}, !.skipped = TRUE]
    BY <1>3
  <2>2. check' = [pc |-> check.pc, have |-> check.have, rows |-> check.rows,
                  todo |-> check.todo \ {p}, stale |-> check.stale,
                  uncovered |-> check.uncovered, quiet |-> check.quiet, skipped |-> TRUE]
    BY <2>1 DEF WarnInv
  <2>3. check'.skipped
    BY <2>2
  <2> QED BY <2>2, <2>3 DEF WarnInv
<1> QED BY <1>1, <1>2, <1>3 DEF CheckFails

LEMMA UncoveredGrows ==
    ASSUME NEW ps, NEW p
    PROVE  Uncovered(ps \cup {p}) =
              Uncovered(ps) \cup (Of(p.user, TablesUnder(store, p.prefix)) \ granted)
BY DEF Uncovered

LEMMA WarnReads ==
    ASSUME WarnInv, ReadGrants \/ CheckGrant \/ ReadPatterns \/ CheckPattern \/ EndCheck
    PROVE  WarnInv'
<1>1. UNCHANGED <<store, granted, patterns>>
  BY DEF ReadGrants, CheckGrant, ReadPatterns, CheckPattern, EndCheck, CheckBusy, catalogue
<1>2. \A gs : Stale(gs)' = Stale(gs)
  BY <1>1 DEF Stale, Live
<1>3. \A ps : Uncovered(ps)' = Uncovered(ps)
  BY <1>1 DEF Uncovered, Of, TablesUnder, IsA, Live
<1>4. CASE ReadGrants
  <2>1. /\ check.pc = "grants"
        /\ check' = [pc |-> "stale", have |-> granted, rows |-> granted,
                     todo |-> check.todo, stale |-> check.stale,
                     uncovered |-> check.uncovered,
                     quiet |-> check.quiet, skipped |-> check.skipped]
    BY <1>4 DEF ReadGrants, CheckBusy, WarnInv
  <2>2. Stale(granted \ granted) = {}
    BY DEF Stale
  <2> QED BY <1>1, <1>2, <2>1, <2>2 DEF WarnInv, Found
<1>5. CASE CheckGrant
  <2>1. PICK g \in check.rows :
          check' = [check EXCEPT !.rows = @ \ {g},
                      !.stale = IF g.table \in Live(store) THEN @ ELSE @ \cup {g}]
    BY <1>5 DEF CheckGrant
  <2>2. /\ check.pc = "stale"
        /\ check' = [pc |-> "stale", have |-> check.have, rows |-> check.rows \ {g},
                     todo |-> check.todo,
                     stale |-> IF g.table \in Live(store) THEN check.stale
                               ELSE check.stale \cup {g},
                     uncovered |-> check.uncovered,
                     quiet |-> check.quiet, skipped |-> check.skipped]
    BY <1>5, <2>1 DEF CheckGrant, CheckBusy, WarnInv
  <2>3. ASSUME check.rows \subseteq granted
        PROVE  Stale(granted \ (check.rows \ {g})) =
                  IF g.table \in Live(store) THEN Stale(granted \ check.rows)
                  ELSE Stale(granted \ check.rows) \cup {g}
    BY <2>3 DEF Stale
  <2> QED BY <1>1, <1>2, <2>2, <2>3 DEF WarnInv, Found
<1>6. CASE ReadPatterns
  <2>1. /\ check.pc = "stale" /\ check.rows = {}
        /\ check' = [pc |-> "patterns", have |-> check.have, rows |-> check.rows,
                     todo |-> patterns, stale |-> check.stale,
                     uncovered |-> check.uncovered,
                     quiet |-> check.quiet, skipped |-> check.skipped]
    BY <1>6 DEF ReadPatterns, CheckBusy, WarnInv
  <2>2. granted \ {} = granted /\ Uncovered(patterns \ patterns) = {}
    BY Zenon DEF Uncovered
  <2> QED BY <1>1, <1>2, <1>3, <2>1, <2>2 DEF WarnInv, Found
<1>7. CASE CheckPattern
  <2>1. PICK p \in check.todo :
          check' = [check EXCEPT !.todo = @ \ {p},
            !.uncovered = @ \cup (Of(p.user, TablesUnder(store, p.prefix)) \ check.have)]
    BY <1>7 DEF CheckPattern
  <2>2. /\ check.pc = "patterns"
        /\ check' = [pc |-> "patterns", have |-> check.have, rows |-> check.rows,
                     todo |-> check.todo \ {p}, stale |-> check.stale,
                     uncovered |-> check.uncovered
                        \cup (Of(p.user, TablesUnder(store, p.prefix)) \ check.have),
                     quiet |-> check.quiet, skipped |-> check.skipped]
    BY <1>7, <2>1 DEF CheckPattern, CheckBusy, WarnInv
  <2>3. ASSUME check.todo \subseteq patterns
        PROVE  Uncovered(patterns \ (check.todo \ {p})) =
                  Uncovered(patterns \ check.todo)
                    \cup (Of(p.user, TablesUnder(store, p.prefix)) \ granted)
    <3>1. patterns \ (check.todo \ {p}) = (patterns \ check.todo) \cup {p}
      BY <2>3
    <3> QED BY <3>1, UncoveredGrows
  <2> QED BY <1>1, <1>2, <1>3, <2>2, <2>3 DEF WarnInv, Found
<1>8. CASE EndCheck
  <2>1. /\ check.pc = "patterns" /\ check.todo = {}
        /\ check' = [pc |-> "done", have |-> check.have, rows |-> check.rows,
                     todo |-> check.todo, stale |-> check.stale,
                     uncovered |-> check.uncovered,
                     quiet |-> check.quiet, skipped |-> check.skipped]
    BY <1>8 DEF EndCheck, CheckBusy, WarnInv
  <2>2. patterns \ {} = patterns
    OBVIOUS
  <2> QED BY <1>1, <1>2, <1>3, <2>1, <2>2 DEF WarnInv, Found
<1> QED BY <1>4, <1>5, <1>6, <1>7, <1>8

LEMMA WarnFresh ==
    ASSUME WarnInv, SyncCommit \/ CloseSync
    PROVE  WarnInv'
<1>1. \E pc \in {"idle", "grants"}, quiet \in BOOLEAN :
        check' = [pc |-> pc, have |-> {}, rows |-> {}, todo |-> {}, stale |-> {},
                  uncovered |-> {}, quiet |-> quiet, skipped |-> FALSE]
  BY DEF SyncCommit, CloseSync, NoCheck
<1> QED BY <1>1 DEF WarnInv, Found

LEMMA WarnNext == WarnInv /\ [Next]_vars => WarnInv'
<1> SUFFICES ASSUME WarnInv, [Next]_vars PROVE WarnInv'
  OBVIOUS
<1>1. CASE CallNext /\ UNCHANGED <<writers, copying>>
  <2>1. UNCHANGED catalogue
    BY <1>1 DEF CallNext, Start, Return, ReadEntity, StatementFails, WalkNode, ListNodes,
        ReadValues, CountValues, ReadEdges, ReadTables, ReadTime, ReadKeywords, ReadVectors,
        ReadHits, Busy
  <2> QED BY <1>1, <2>1, WarnQuiet DEF catalogue, writers
<1>2. CASE BackupNext /\ UNCHANGED <<readers, writers>>
  <2>1. UNCHANGED catalogue
    BY <1>2 DEF BackupNext, OtherCheckpoint, BeginBackup, CheckpointBusy, CheckpointDone,
        OpenFiles, CopyPage, BackupFails, BackupBusy
  <2> QED BY <1>2, <2>1, WarnQuiet DEF catalogue, writers
<1>3. CASE BeginApply \/ NextTarget \/ ExpandTarget \/ ExpandTables \/ ExpandDescribed
           \/ ExpandLook \/ EndTarget \/ ExpandFails
  <2>1. UNCHANGED <<check, store, granted, patterns>>
    BY <1>3 DEF BeginApply, NextTarget, ExpandTarget, ExpandTables, ExpandDescribed,
        ExpandLook, EndTarget, ExpandFails, ApplyBusy, catalogue
  <2> QED BY <2>1, WarnQuiet
<1>4. CASE CommitApply \/ OtherCommit
  BY <1>4, WarnLoud DEF CommitApply, OtherCommit
<1>5. CASE SyncCommit \/ CloseSync
  BY <1>5, WarnFresh
<1>6. CASE ReadGrants \/ CheckGrant \/ ReadPatterns \/ CheckPattern \/ EndCheck
  BY <1>6, WarnReads
<1>7. CASE CheckFails
  BY <1>7, WarnSkipped
<1>8. CASE UNCHANGED vars
  BY <1>8, WarnQuiet DEF vars, catalogue, writers
<1> QED BY <1>1, <1>2, <1>3, <1>4, <1>5, <1>6, <1>7, <1>8 DEF Next, CommandNext

\* Whatever the patterns and the grants are, a sync nobody wrote beside warns
\* of every gap and of nothing else (cmd/dgw: warnPatternCoverage,
\* warnStaleGrants).
THEOREM EveryGapIsWarned == Spec => []GapsAreWarned
<1>1. WarnInv => GapsAreWarned
  BY DEF WarnInv, Found, GapsAreWarned, Stale, Uncovered
<1>2. Spec => []WarnInv
  BY InitWarn, WarnNext, PTL DEF Spec
<1> QED BY <1>1, <1>2, PTL

-----------------------------------------------------------------------------
(* What a grants file stands for.                                          *)

\* What looking at one described entity adds.
Looked(c, g) ==
    (IF IsA(c, g, "table") THEN {g} ELSE {})
        \cup (IF IsA(c, g, "column") THEN {TableOf[g]} ELSE {})
        \cup (IF IsA(c, g, "metric") THEN MetricTables(c, g) ELSE {})

ConceptTables(c, f) == UNION {Looked(c, g) : g \in RelationTargets(c, "describes", f)}

\* What the statements still to be run would read in one version.
StandsFor(c, w) ==
    CASE w[1] = "prefix" -> TablesUnder(c, w[2])
      [] w[1] \in {"metric", "tables"} -> MetricTables(c, w[2])
      [] w[1] \in {"concept", "described"} -> ConceptTables(c, w[2])
      [] w[1] = "look" -> Looked(c, w[2])
Left(c, work) == UNION {StandsFor(c, w) : w \in work}

Current == IF apply.pc = "expand" THEN apply.target ELSE {}
Finished == apply.file \ (apply.todo \cup Current)

\* The statements of one target are at one of three stages.
Follow == {<<kind, f>> : kind \in {"tables", "look"}, f \in Fqn}
AtStage(t) ==
    \/ apply.work \subseteq {<<t.form, t.name>>}
    \/ \E f \in Fqn : apply.work \subseteq {<<"described", f>>}
    \/ apply.work \subseteq Follow

ApplyShape ==
    /\ apply = [pc |-> apply.pc, file |-> apply.file, todo |-> apply.todo,
                target |-> apply.target, work |-> apply.work, tables |-> apply.tables,
                want |-> apply.want, seen |-> apply.seen]
    /\ apply.pc \in {"idle", "next", "expand", "done", "failed"}
    /\ apply.file \in Files \cup {{}}
    /\ apply.todo \subseteq apply.file
    /\ apply.seen \subseteq Catalogues
    /\ apply.pc = "expand" =>
          \E t \in apply.file \ apply.todo :
              apply.target = {t} /\ t.form # "table" /\ AtStage(t)
    /\ apply.pc = "done" => apply.todo = {}

\* Of one version: the finished targets are granted what they mean, and the
\* current one will be, once its statements are run.
MeansOf(c) ==
    /\ apply.want = UNION {Of(t.user, Meaning(c, t)) : t \in Finished}
    /\ \A t \in Finished : Meaning(c, t) # {}
    /\ \A t \in Current : apply.tables \cup Left(c, apply.work) = Meaning(c, t)

ApplyMeans ==
    apply.pc \in {"next", "expand", "done"} =>
        \A c \in Catalogues : apply.seen \subseteq {c} => MeansOf(c)

\* Of any versions: what has been found was there.
WasThere(f) ==
    \/ \E c \in apply.seen : IsA(c, f, "table")
    \/ Converted /\ \E c \in apply.seen : f \in Live(c)

Named(user, f) == [user |-> user, form |-> "table", name |-> f] \in apply.file

ApplyLives ==
    /\ \A g \in apply.want : Named(g.user, g.table) \/ WasThere(g.table)
    /\ apply.pc = "expand" =>
          /\ \A f \in apply.tables : WasThere(f)
          /\ \A f \in Fqn : <<"tables", f>> \in apply.work =>
                \E c \in apply.seen : IsA(c, f, "metric")

ApplyInv == store \in Catalogues /\ ApplyShape /\ ApplyMeans /\ ApplyLives

LEMMA InitApply == Init => ApplyInv
BY DEF Init, CatalogueInit, CoverageInit, NoApply, ApplyInv, ApplyShape, ApplyMeans, ApplyLives

LEMMA TargetIs ==
    ASSUME ApplyShape, NEW t \in apply.file
    PROVE  /\ t = [user |-> t.user, form |-> t.form, name |-> t.name]
           /\ t.user \in User /\ t.form \in Form
           /\ t.name \in IF t.form = "prefix" THEN DOMAIN Under ELSE Fqn
<1>1. apply.file \in Files
  BY DEF ApplyShape
<1>2. t \in [user : User, form : Form, name : Fqn \cup DOMAIN Under]
  BY <1>1, CoverageAssumption DEF CoverageAssumption
<1> QED BY <1>1, <1>2, CoverageAssumption DEF CoverageAssumption

LEMMA LeftNone == ASSUME NEW c PROVE Left(c, {}) = {}
BY DEF Left

LEMMA LeftOne == ASSUME NEW c, NEW w PROVE Left(c, {w}) = StandsFor(c, w)
BY DEF Left

LEMMA LeftWithout ==
    ASSUME NEW c, NEW A, NEW w \in A
    PROVE  Left(c, A) = Left(c, A \ {w}) \cup StandsFor(c, w)
<1>1. A = (A \ {w}) \cup {w}
  OBVIOUS
<1>2. Left(c, (A \ {w}) \cup {w}) = Left(c, A \ {w}) \cup Left(c, {w})
  BY DEF Left
<1>3. Left(c, {w}) = StandsFor(c, w)
  BY LeftOne
<1> QED BY <1>1, <1>2, <1>3

LEMMA StandsIs ==
    ASSUME NEW c, NEW f
    PROVE  /\ StandsFor(c, <<"prefix", f>>) = TablesUnder(c, f)
           /\ StandsFor(c, <<"metric", f>>) = MetricTables(c, f)
           /\ StandsFor(c, <<"tables", f>>) = MetricTables(c, f)
           /\ StandsFor(c, <<"concept", f>>) = ConceptTables(c, f)
           /\ StandsFor(c, <<"described", f>>) = ConceptTables(c, f)
           /\ StandsFor(c, <<"look", f>>) = Looked(c, f)
BY DEF StandsFor

\* The three kinds of described entities, apart or together.
LEMMA ConceptMeans ==
    ASSUME NEW c, NEW t, t.form = "concept"
    PROVE  Meaning(c, t) = ConceptTables(c, t.name)
<1> DEFINE D == RelationTargets(c, "describes", t.name)
<1>1. Meaning(c, t) =
        {g \in D : IsA(c, g, "table")}
            \cup {TableOf[g] : g \in {h \in D : IsA(c, h, "column")}}
            \cup UNION {MetricTables(c, g) : g \in {h \in D : IsA(c, h, "metric")}}
  BY DEF Meaning
<1>2. ConceptTables(c, t.name) = UNION {Looked(c, g) : g \in D}
  BY DEF ConceptTables
<1> HIDE DEF D
<1>3. ASSUME NEW x
      PROVE  x \in Meaning(c, t) <=> \E g \in D : x \in Looked(c, g)
  <2>1. x \in Meaning(c, t) <=>
            \/ x \in D /\ IsA(c, x, "table")
            \/ \E g \in D : IsA(c, g, "column") /\ x = TableOf[g]
            \/ \E g \in D : IsA(c, g, "metric") /\ x \in MetricTables(c, g)
    BY <1>1
  <2>2. \A g \in D : x \in Looked(c, g) <=>
            \/ IsA(c, g, "table") /\ x = g
            \/ IsA(c, g, "column") /\ x = TableOf[g]
            \/ IsA(c, g, "metric") /\ x \in MetricTables(c, g)
    BY DEF Looked
  <2> QED BY <2>1, <2>2
<1>4. \A x : x \in Meaning(c, t) <=> x \in ConceptTables(c, t.name)
  BY <1>2, <1>3
<1> QED BY <1>4

\* Before anything is read, the one statement stands for the target.
LEMMA TargetStands ==
    ASSUME ApplyShape, NEW c, NEW t \in apply.file, t.form # "table"
    PROVE  StandsFor(c, <<t.form, t.name>>) = Meaning(c, t)
<1>1. t.form \in {"metric", "concept", "prefix"}
  BY TargetIs DEF Form
<1>2. CASE t.form = "prefix"
  BY <1>2, StandsIs DEF Meaning
<1>3. CASE t.form = "metric"
  BY <1>3, StandsIs DEF Meaning
<1>4. CASE t.form = "concept"
  BY <1>4, StandsIs, ConceptMeans
<1> QED BY <1>1, <1>2, <1>3, <1>4

\* A further version read does not take back what was found.
LEMMA FoundStays ==
    ASSUME apply.seen \subseteq apply'.seen
    PROVE  /\ \A f : WasThere(f) => WasThere(f)'
           /\ \A f, kind : (\E c \in apply.seen : IsA(c, f, kind)) =>
                            \E c \in apply'.seen : IsA(c, f, kind)
BY DEF WasThere, Converted

\* A statement for the current target has been run.
LEMMA StillMeans ==
    ASSUME ApplyInv, apply.pc = "expand", apply'.pc = "expand",
           apply'.file = apply.file, apply'.todo = apply.todo,
           apply'.target = apply.target, apply'.want = apply.want,
           apply'.seen = apply.seen \cup {store},
           \A t \in apply.target :
              apply.tables \cup Left(store, apply.work) = Meaning(store, t) =>
                apply'.tables \cup Left(store, apply'.work) = Meaning(store, t)
    PROVE  ApplyMeans'
<1> SUFFICES ASSUME NEW c \in Catalogues, apply'.seen \subseteq {c} PROVE MeansOf(c)'
  BY DEF ApplyMeans
<1>1. c = store /\ apply.seen \subseteq {c}
  OBVIOUS
<1>2. MeansOf(c)
  BY <1>1 DEF ApplyInv, ApplyMeans
<1>3. Current' = Current /\ Current = apply.target /\ Finished' = Finished
  BY DEF Current, Finished
<1> QED BY <1>1, <1>2, <1>3 DEF MeansOf

LEMMA ApplyQuiet == ASSUME ApplyInv, UNCHANGED apply, store' \in Catalogues PROVE ApplyInv'
BY DEF ApplyInv, ApplyShape, AtStage, ApplyMeans, MeansOf, Finished, Current, ApplyLives,
    WasThere, Converted, Named

\* The file is rejected.
LEMMA ApplyAborts ==
    ASSUME ApplyInv, store' = store,
           apply' = Abort \/ apply' = [Abort EXCEPT !.seen = @ \cup {store}]
    PROVE  ApplyInv'
<1>1. PICK seen :
        /\ seen = apply.seen \/ seen = apply.seen \cup {store}
        /\ apply' = [pc |-> "failed", file |-> apply.file, todo |-> apply.todo,
                     target |-> apply.target, work |-> apply.work, tables |-> apply.tables,
                     want |-> apply.want, seen |-> seen]
  BY DEF Abort, ApplyInv, ApplyShape
<1>2. \A f : WasThere(f) => WasThere(f)'
  BY <1>1, FoundStays
<1>3. ApplyLives'
  BY <1>1, <1>2 DEF ApplyInv, ApplyLives, Named
<1> QED BY <1>1, <1>3 DEF ApplyInv, ApplyShape, ApplyMeans

LEMMA BeginStep == ASSUME ApplyInv, BeginApply PROVE ApplyInv'
<1>1. PICK chosen \in Files :
        apply' = [NoApply EXCEPT !.pc = "next", !.file = chosen, !.todo = chosen]
  BY DEF BeginApply
<1>2. apply' = [pc |-> "next", file |-> chosen, todo |-> chosen, target |-> {}, work |-> {},
                tables |-> {}, want |-> {}, seen |-> {}]
  BY <1>1 DEF NoApply
<1>3. store' = store
  BY DEF BeginApply, catalogue
<1>4. ApplyShape' /\ ApplyLives'
  BY <1>2 DEF ApplyShape, ApplyLives
<1>5. Finished' = {} /\ Current' = {}
  BY <1>2 DEF Finished, Current
<1>6. ApplyMeans'
  BY <1>2, <1>5 DEF ApplyMeans, MeansOf
<1> QED BY <1>3, <1>4, <1>6 DEF ApplyInv


LEMMA NextTargetStep == ASSUME ApplyInv, NextTarget PROVE ApplyInv'
<1>1. apply.pc = "next" /\ store' = store
  BY DEF NextTarget, ApplyBusy, catalogue
<1>2. PICK t \in apply.todo :
        apply' = IF t.form = "table"
                 THEN [apply EXCEPT !.todo = @ \ {t}, !.want = @ \cup Of(t.user, {t.name})]
                 ELSE [apply EXCEPT !.pc = "expand", !.todo = @ \ {t}, !.target = {t},
                                    !.tables = {}, !.work = {<<t.form, t.name>>}]
  BY DEF NextTarget
<1>3. t \in apply.file /\ Current = {}
  BY <1>1 DEF ApplyInv, ApplyShape, Current
<1>4. CASE t.form = "table"
  <2>1. apply' = [pc |-> "next", file |-> apply.file, todo |-> apply.todo \ {t},
                  target |-> apply.target, work |-> apply.work, tables |-> apply.tables,
                  want |-> apply.want \cup Of(t.user, {t.name}), seen |-> apply.seen]
    BY <1>1, <1>2, <1>4 DEF ApplyInv, ApplyShape
  <2>2. ApplyShape'
    BY <2>1 DEF ApplyInv, ApplyShape
  <2>3. Current' = {} /\ Finished' = Finished \cup {t}
    BY <1>3, <2>1 DEF Finished, Current
  <2>4. ASSUME NEW c \in Catalogues, apply'.seen \subseteq {c} PROVE MeansOf(c)'
    <3>1. MeansOf(c)
      BY <1>1, <2>1, <2>4 DEF ApplyInv, ApplyMeans
    <3>2. Meaning(c, t) = {t.name}
      BY <1>4 DEF Meaning
    <3>3. apply'.want = apply.want \cup Of(t.user, Meaning(c, t))
      BY <2>1, <3>2
    <3>4. UNION {Of(s.user, Meaning(c, s)) : s \in Finished \cup {t}}
            = (UNION {Of(s.user, Meaning(c, s)) : s \in Finished}) \cup Of(t.user, Meaning(c, t))
      OBVIOUS
    <3> QED BY <2>3, <3>1, <3>2, <3>3, <3>4 DEF MeansOf
  <2>5. ApplyMeans'
    BY <2>4 DEF ApplyMeans
  <2>6. Named(t.user, t.name)
    BY <1>3, <1>4, TargetIs DEF Named, ApplyInv
  <2>7. ApplyLives'
    <3>1. \A f : WasThere(f) => WasThere(f)'
      BY <2>1, FoundStays
    <3>2. \A g \in Of(t.user, {t.name}) : g.user = t.user /\ g.table = t.name
      BY DEF Of
    <3>3. \A user, f : Named(user, f)' <=> Named(user, f)
      BY <2>1 DEF Named
    <3> QED BY <2>1, <2>6, <3>1, <3>2, <3>3 DEF ApplyInv, ApplyLives
  <2> QED BY <1>1, <2>2, <2>5, <2>7 DEF ApplyInv
<1>5. CASE t.form # "table"
  <2>1. apply' = [pc |-> "expand", file |-> apply.file, todo |-> apply.todo \ {t},
                  target |-> {t}, work |-> {<<t.form, t.name>>}, tables |-> {},
                  want |-> apply.want, seen |-> apply.seen]
    BY <1>2, <1>5 DEF ApplyInv, ApplyShape
  <2>2. ApplyShape'
    <3>1. apply'.target = {t} /\ t \in apply'.file \ apply'.todo /\ AtStage(t)'
      BY <1>3, <2>1 DEF AtStage
    <3> QED BY <1>5, <2>1, <3>1 DEF ApplyInv, ApplyShape
  <2>3. Current' = {t} /\ Finished' = Finished
    BY <1>3, <2>1 DEF Finished, Current
  <2>4. ASSUME NEW c \in Catalogues, apply'.seen \subseteq {c} PROVE MeansOf(c)'
    <3>1. MeansOf(c)
      BY <1>1, <2>1, <2>4 DEF ApplyInv, ApplyMeans
    <3>2. apply'.tables \cup Left(c, apply'.work) = Meaning(c, t)
      <4>1. Left(c, {<<t.form, t.name>>}) = StandsFor(c, <<t.form, t.name>>)
        BY LeftOne
      <4>2. StandsFor(c, <<t.form, t.name>>) = Meaning(c, t)
        BY <1>3, <1>5, TargetStands DEF ApplyInv
      <4>3. apply'.tables = {} /\ apply'.work = {<<t.form, t.name>>}
        BY <2>1
      <4> QED BY <4>1, <4>2, <4>3
    <3> QED BY <2>1, <2>3, <3>1, <3>2 DEF MeansOf
  <2>5. ApplyMeans'
    BY <2>4 DEF ApplyMeans
  <2>6. ApplyLives'
    <3>1. \A f : WasThere(f) => WasThere(f)'
      BY <2>1, FoundStays
    <3>2. \A user, f : Named(user, f)' <=> Named(user, f)
      BY <2>1 DEF Named
    <3>3. t.form # "tables"
      BY <1>3, TargetIs DEF Form, ApplyInv
    <3> QED BY <2>1, <3>1, <3>2, <3>3 DEF ApplyInv, ApplyLives
  <2> QED BY <1>1, <2>2, <2>5, <2>6 DEF ApplyInv
<1> QED BY <1>4, <1>5

LEMMA StageIs ==
    ASSUME ApplyInv, apply.pc = "expand"
    PROVE  \E t \in apply.file \ apply.todo :
              /\ apply.target = {t} /\ t.form \in {"metric", "concept", "prefix"}
              /\ <<t.form, t.name>> \in apply.work => apply.work = {<<t.form, t.name>>}
              /\ \A f : <<"described", f>> \in apply.work => apply.work = {<<"described", f>>}
              /\ (\E f : <<"tables", f>> \in apply.work \/ <<"look", f>> \in apply.work) =>
                    apply.work \subseteq Follow
<1>1. PICK t \in apply.file \ apply.todo :
        apply.target = {t} /\ t.form # "table" /\ AtStage(t)
  BY DEF ApplyInv, ApplyShape
<1>2. t.form \in {"metric", "concept", "prefix"}
  BY <1>1, TargetIs DEF ApplyInv, Form
<1>3. <<t.form, t.name>> \in apply.work => apply.work = {<<t.form, t.name>>}
  BY <1>1, <1>2 DEF AtStage, Follow
<1>4. \A f : <<"described", f>> \in apply.work => apply.work = {<<"described", f>>}
  BY <1>1, <1>2 DEF AtStage, Follow
<1>5. (\E f : <<"tables", f>> \in apply.work \/ <<"look", f>> \in apply.work) =>
          apply.work \subseteq Follow
  BY <1>1, <1>2 DEF AtStage
<1> QED BY <1>1, <1>2, <1>3, <1>4, <1>5, Zenon

\* A statement of the current target: it keeps the invariant when what it
\* found was there, and when found and left to do still stand for the target.
LEMMA ExpandKeeps ==
    ASSUME ApplyInv, apply.pc = "expand", store' = store, NEW tables, NEW work,
           apply' = [[apply EXCEPT !.tables = tables, !.work = work]
                        EXCEPT !.seen = @ \cup {store}],
           \/ work = {}
           \/ \E f \in Fqn : work = {<<"described", f>>}
           \/ work \subseteq Follow,
           \A t \in apply.target :
              apply.tables \cup Left(store, apply.work) = Meaning(store, t) =>
                tables \cup Left(store, work) = Meaning(store, t),
           \A f \in tables : WasThere(f)',
           \A f \in Fqn : <<"tables", f>> \in work =>
              <<"tables", f>> \in apply.work \/ IsA(store, f, "metric")
    PROVE  ApplyInv'
<1>1. apply' = [pc |-> "expand", file |-> apply.file, todo |-> apply.todo,
                target |-> apply.target, work |-> work, tables |-> tables,
                want |-> apply.want, seen |-> apply.seen \cup {store}]
  BY DEF ApplyInv, ApplyShape
<1>2. ApplyShape'
  <2>1. PICK t \in apply.file \ apply.todo : apply.target = {t} /\ t.form # "table"
    BY DEF ApplyInv, ApplyShape
  <2>2. AtStage(t)'
    BY <1>1 DEF AtStage
  <2>3. apply'.target = {t} /\ t.form # "table" /\ t \in apply'.file \ apply'.todo
    BY <1>1, <2>1
  <2>4. apply'.seen \subseteq Catalogues
    BY <1>1 DEF ApplyInv, ApplyShape
  <2> QED BY <1>1, <2>2, <2>3, <2>4 DEF ApplyInv, ApplyShape
<1>3. ApplyMeans'
  <2>1. /\ apply'.pc = "expand" /\ apply'.file = apply.file /\ apply'.todo = apply.todo
        /\ apply'.target = apply.target /\ apply'.want = apply.want
        /\ apply'.seen = apply.seen \cup {store}
        /\ apply'.tables = tables /\ apply'.work = work
    BY <1>1
  <2> QED BY <2>1, StillMeans
<1>4. ApplyLives'
  <2>1. /\ \A f : WasThere(f) => WasThere(f)'
        /\ \A f, kind : (\E c \in apply.seen : IsA(c, f, kind)) =>
                            \E c \in apply'.seen : IsA(c, f, kind)
    BY <1>1, FoundStays
  <2>2. \A user, f : Named(user, f)' <=> Named(user, f)
    BY <1>1 DEF Named
  <2>3. \A g \in apply'.want : Named(g.user, g.table)' \/ WasThere(g.table)'
    BY <1>1, <2>1, <2>2 DEF ApplyInv, ApplyLives
  <2>4. store \in apply'.seen /\ apply'.tables = tables /\ apply'.work = work
    BY <1>1
  <2>5. \A f \in Fqn : <<"tables", f>> \in work => \E c \in apply'.seen : IsA(c, f, "metric")
    BY <2>1, <2>4 DEF ApplyInv, ApplyLives
  <2> QED BY <2>3, <2>4, <2>5 DEF ApplyLives
<1> QED BY <1>2, <1>3, <1>4 DEF ApplyInv

LEMMA MetricTablesAre ==
    ASSUME NEW c \in Catalogues, NEW f, NEW g \in MetricTables(c, f)
    PROVE  /\ f \in Live(c) /\ g \in Live(c) /\ g \in Fqn
           /\ ~IsA(c, f, "concept") => IsA(c, g, "table")
<1>1. PICK e \in c.edges : e.type = "describes" /\ e.src = f /\ e.dst = g
  BY DEF MetricTables, RelationTargets
<1>2. /\ c.edges \subseteq [type : Type, src : Live(c), dst : Live(c)]
      /\ Live(c) \subseteq Fqn
      /\ c.kind[e.dst] \in IF c.kind[e.src] = "concept"
                           THEN {"table", "column", "metric"} ELSE {"table"}
  BY <1>1, CatalogueAssumption DEF CatalogueAssumption, Live
<1> QED BY <1>1, <1>2 DEF IsA

\* What is found in the version read now.
LEMMA FoundNow ==
    ASSUME apply'.seen = apply.seen \cup {store}
    PROVE  \A f : IsA(store, f, "table") => WasThere(f)'
BY DEF WasThere

LEMMA ExpandTablesStep == ASSUME ApplyInv, ExpandTables PROVE ApplyInv'
<1>1. apply.pc = "expand" /\ store' = store
  BY DEF ExpandTables, ApplyBusy, catalogue
<1>2. PICK f \in Fqn :
        /\ <<"tables", f>> \in apply.work
        /\ apply' = [[apply EXCEPT !.work = @ \ {<<"tables", f>>},
                                   !.tables = @ \cup MetricTables(store, f)]
                        EXCEPT !.seen = @ \cup {store}]
  BY DEF ExpandTables, ApplyReads
<1> DEFINE tables == apply.tables \cup MetricTables(store, f)
           work == apply.work \ {<<"tables", f>>}
<1>3. apply' = [[apply EXCEPT !.tables = tables, !.work = work] EXCEPT !.seen = @ \cup {store}]
  BY <1>2 DEF ApplyInv, ApplyShape
<1>4. apply'.seen = apply.seen \cup {store}
  BY <1>2 DEF ApplyInv, ApplyShape
<1>5. work \subseteq Follow
  <2>1. apply.work \subseteq Follow
    BY <1>1, <1>2, StageIs
  <2> QED BY <2>1
<1>6. Left(store, apply.work) = Left(store, work) \cup MetricTables(store, f)
  <2>1. Left(store, apply.work) = Left(store, work) \cup StandsFor(store, <<"tables", f>>)
    BY <1>2, LeftWithout
  <2> QED BY <2>1, StandsIs
<1>7. \A h \in tables : WasThere(h)'
  <2>1. \A h \in apply.tables : WasThere(h)'
    BY <1>1, <1>4, FoundStays DEF ApplyInv, ApplyLives
  <2>2. ASSUME NEW h \in MetricTables(store, f) PROVE WasThere(h)'
    <3>1. h \in Live(store) /\ (~IsA(store, f, "concept") => IsA(store, h, "table"))
      BY MetricTablesAre DEF ApplyInv
    <3>2. CASE IsA(store, f, "concept")
      <4>1. \E c \in apply.seen : IsA(c, f, "metric")
        BY <1>1, <1>2 DEF ApplyInv, ApplyLives
      <4>2. Converted'
        BY <1>4, <3>2, <4>1 DEF Converted
      <4> QED BY <1>4, <3>1, <4>2 DEF WasThere
    <3>3. CASE ~IsA(store, f, "concept")
      BY <1>4, <3>1, <3>3, FoundNow
    <3> QED BY <3>2, <3>3
  <2> QED BY <2>1, <2>2
<1> HIDE DEF tables
<1>8. tables = apply.tables \cup MetricTables(store, f)
  BY DEF tables
<1>9. apply.tables \cup Left(store, apply.work) = tables \cup Left(store, work)
  BY <1>6, <1>8
<1>10. \A h \in Fqn : <<"tables", h>> \in work => <<"tables", h>> \in apply.work
  OBVIOUS
<1> HIDE DEF work
<1> QED BY <1>1, <1>3, <1>5, <1>7, <1>9, <1>10, ExpandKeeps, Zenon

LEMMA ExpandDescribedStep == ASSUME ApplyInv, ExpandDescribed PROVE ApplyInv'
<1>1. apply.pc = "expand" /\ store' = store
  BY DEF ExpandDescribed, ApplyBusy, catalogue
<1>2. PICK f \in Fqn :
        /\ <<"described", f>> \in apply.work
        /\ apply' = [[apply EXCEPT !.work =
                        {<<"look", g>> : g \in RelationTargets(store, "describes", f)}]
                        EXCEPT !.seen = @ \cup {store}]
  BY DEF ExpandDescribed, ApplyReads
<1> DEFINE D == RelationTargets(store, "describes", f)
           work == {<<"look", g>> : g \in D}
<1>3. apply' = [[apply EXCEPT !.tables = apply.tables, !.work = work]
                    EXCEPT !.seen = @ \cup {store}]
  BY <1>2 DEF ApplyInv, ApplyShape
<1>4. apply'.seen = apply.seen \cup {store}
  BY <1>2 DEF ApplyInv, ApplyShape
<1>5. D \subseteq Fqn
  BY MetricTablesAre DEF ApplyInv, MetricTables
<1>6. Left(store, apply.work) = Left(store, work)
  <2>1. apply.work = {<<"described", f>>}
    BY <1>1, <1>2, StageIs
  <2>2. Left(store, {<<"described", f>>}) = StandsFor(store, <<"described", f>>)
    BY LeftOne
  <2>3. Left(store, apply.work) = UNION {Looked(store, g) : g \in D}
    BY <2>1, <2>2, StandsIs DEF ConceptTables
  <2> HIDE DEF D
  <2>4. Left(store, work) = UNION {StandsFor(store, <<"look", g>>) : g \in D}
    BY DEF Left
  <2>5. \A g \in D : StandsFor(store, <<"look", g>>) = Looked(store, g)
    BY StandsIs
  <2> QED BY <2>3, <2>4, <2>5
<1> HIDE DEF D
<1>7. work \subseteq Follow
  BY <1>5 DEF Follow
<1>8. \A h \in apply.tables : WasThere(h)'
  BY <1>1, <1>4, FoundStays DEF ApplyInv, ApplyLives
<1>9. \A h \in Fqn : <<"tables", h>> \notin work
  OBVIOUS
<1> HIDE DEF work
<1> QED BY <1>1, <1>3, <1>6, <1>7, <1>8, <1>9, ExpandKeeps, Zenon

LEMMA ExpandLookStep == ASSUME ApplyInv, ExpandLook PROVE ApplyInv'
<1>1. apply.pc = "expand" /\ store' = store
  BY DEF ExpandLook, ApplyBusy, catalogue
<1>2. PICK g \in Fqn :
        /\ <<"look", g>> \in apply.work
        /\ apply' = [[apply EXCEPT
              !.work = (@ \ {<<"look", g>>}) \cup
                       IF IsA(store, g, "metric") THEN {<<"tables", g>>} ELSE {},
              !.tables = @ \cup CASE IsA(store, g, "table") -> {g}
                                  [] IsA(store, g, "column") -> {TableOf[g]}
                                  [] OTHER -> {}]
                        EXCEPT !.seen = @ \cup {store}]
  BY DEF ExpandLook, ApplyReads
<1> DEFINE rest == apply.work \ {<<"look", g>>}
           more == IF IsA(store, g, "metric") THEN {<<"tables", g>>} ELSE {}
           found == CASE IsA(store, g, "table") -> {g}
                      [] IsA(store, g, "column") -> {TableOf[g]}
                      [] OTHER -> {}
           tables == apply.tables \cup found
           work == rest \cup more
<1>3. apply' = [[apply EXCEPT !.tables = tables, !.work = work] EXCEPT !.seen = @ \cup {store}]
  BY <1>2 DEF ApplyInv, ApplyShape
<1>4. apply'.seen = apply.seen \cup {store}
  BY <1>2 DEF ApplyInv, ApplyShape
<1>5. work \subseteq Follow
  <2>1. apply.work \subseteq Follow
    BY <1>1, <1>2, StageIs
  <2>2. more \subseteq Follow
    BY DEF Follow
  <2> QED BY <2>1, <2>2
<1>6. found \cup Left(store, more) = Looked(store, g)
  <2>1. Left(store, {}) = {}
    BY LeftNone
  <2>2. Left(store, {<<"tables", g>>}) = MetricTables(store, g)
    <3>1. Left(store, {<<"tables", g>>}) = StandsFor(store, <<"tables", g>>)
      BY LeftOne
    <3> QED BY <3>1, StandsIs
  <2>3. CASE IsA(store, g, "metric")
    BY <2>2, <2>3 DEF Looked, IsA
  <2>4. CASE IsA(store, g, "column")
    BY <2>1, <2>4 DEF Looked, IsA
  <2>5. CASE IsA(store, g, "table")
    BY <2>1, <2>5 DEF Looked, IsA
  <2>6. CASE ~IsA(store, g, "metric") /\ ~IsA(store, g, "column") /\ ~IsA(store, g, "table")
    BY <2>1, <2>6 DEF Looked
  <2> QED BY <2>3, <2>4, <2>5, <2>6
<1>7. \A h \in found : IsA(store, h, "table")
  <2>1. IsA(store, g, "column") => IsA(store, TableOf[g], "table")
    BY CatalogueAssumption DEF ApplyInv, CatalogueAssumption, IsA, Live
  <2> QED BY <2>1
<1>8. \A h \in Fqn : <<"tables", h>> \in work =>
          <<"tables", h>> \in apply.work \/ IsA(store, h, "metric")
  OBVIOUS
<1> HIDE DEF more, found
<1>9. \A h \in tables : WasThere(h)'
  BY <1>1, <1>4, <1>7, FoundStays, FoundNow DEF ApplyInv, ApplyLives
<1>10. apply.tables \cup Left(store, apply.work) = tables \cup Left(store, work)
  <2>1. Left(store, apply.work) = Left(store, rest) \cup StandsFor(store, <<"look", g>>)
    BY <1>2, LeftWithout
  <2>2. StandsFor(store, <<"look", g>>) = Looked(store, g)
    BY StandsIs
  <2> HIDE DEF rest
  <2>3. Left(store, rest \cup more) = Left(store, rest) \cup Left(store, more)
    BY DEF Left
  <2> QED BY <1>6, <2>1, <2>2, <2>3
<1> HIDE DEF tables, work
<1> QED BY <1>1, <1>3, <1>5, <1>8, <1>9, <1>10, ExpandKeeps, Zenon

\* The first statement of a target.
LEMMA ExpandTargetStep == ASSUME ApplyInv, ExpandTarget PROVE ApplyInv'
<1>1. apply.pc = "expand" /\ store' = store
  BY DEF ExpandTarget, ApplyBusy, catalogue
<1>2. PICK t \in apply.target :
        /\ <<t.form, t.name>> \in apply.work
        /\ \/ /\ t.form = "prefix"
              /\ ApplyReads([apply EXCEPT !.work = {}, !.tables = TablesUnder(store, t.name)])
           \/ /\ t.form # "prefix" /\ IsA(store, t.name, t.form)
              /\ ApplyReads([apply EXCEPT !.work =
                    {<<IF t.form = "metric" THEN "tables" ELSE "described", t.name>>}])
           \/ /\ t.form # "prefix" /\ ~IsA(store, t.name, t.form)
              /\ ApplyReads(Abort)
  BY DEF ExpandTarget
<1>3. /\ t \in apply.file /\ apply.target = {t}
      /\ t.form \in {"metric", "concept", "prefix"}
      /\ apply.work = {<<t.form, t.name>>}
  BY <1>1, <1>2, StageIs
<1>4. Left(store, apply.work) = StandsFor(store, <<t.form, t.name>>)
  BY <1>3, LeftOne
<1>5. CASE /\ t.form = "prefix"
           /\ ApplyReads([apply EXCEPT !.work = {}, !.tables = TablesUnder(store, t.name)])
  <2> DEFINE tables == TablesUnder(store, t.name)
             work == {}
  <2>1. apply' = [[apply EXCEPT !.tables = tables, !.work = work]
                        EXCEPT !.seen = @ \cup {store}]
    BY <1>5 DEF ApplyReads, ApplyInv, ApplyShape
  <2>2. apply'.seen = apply.seen \cup {store}
    BY <2>1 DEF ApplyInv, ApplyShape
  <2>3. \A h \in tables : WasThere(h)'
    BY <2>2, FoundNow DEF TablesUnder
  <2>4. tables \cup Left(store, work) = Meaning(store, t)
    BY <1>5, LeftNone DEF Meaning
  <2>5. work = {} /\ \A h \in Fqn : <<"tables", h>> \notin work
    OBVIOUS
  <2> HIDE DEF tables, work
  <2> QED BY <1>1, <1>3, <2>1, <2>3, <2>4, <2>5, ExpandKeeps, Zenon
<1>6. CASE /\ t.form # "prefix" /\ IsA(store, t.name, t.form)
           /\ ApplyReads([apply EXCEPT !.work =
                    {<<IF t.form = "metric" THEN "tables" ELSE "described", t.name>>}])
  <2> DEFINE w == <<IF t.form = "metric" THEN "tables" ELSE "described", t.name>>
             work == {w}
  <2>1. apply' = [[apply EXCEPT !.tables = apply.tables, !.work = work]
                        EXCEPT !.seen = @ \cup {store}]
    BY <1>6 DEF ApplyReads, ApplyInv, ApplyShape
  <2>2. apply'.seen = apply.seen \cup {store}
    BY <2>1 DEF ApplyInv, ApplyShape
  <2>3. \A h \in apply.tables : WasThere(h)'
    BY <1>1, <2>2, FoundStays DEF ApplyInv, ApplyLives
  <2>4. t.name \in Fqn
    BY <1>3, <1>6, TargetIs DEF ApplyInv
  <2>5. StandsFor(store, w) = StandsFor(store, <<t.form, t.name>>)
    <3>1. CASE t.form = "metric"
      BY <3>1, StandsIs
    <3>2. CASE t.form = "concept"
      BY <3>2, StandsIs
    <3> QED BY <1>3, <1>6, <3>1, <3>2
  <2>6. (\E f \in Fqn : work = {<<"described", f>>}) \/ work \subseteq Follow
    <3>1. CASE t.form = "metric"
      BY <2>4, <3>1 DEF Follow
    <3>2. CASE t.form = "concept"
      BY <2>4, <3>2
    <3> QED BY <1>3, <1>6, <3>1, <3>2
  <2>7. \A h \in Fqn : <<"tables", h>> \in work => IsA(store, h, "metric")
    BY <1>3, <1>6
  <2> HIDE DEF w
  <2>8. Left(store, work) = Left(store, apply.work)
    BY <1>4, <2>5, LeftOne
  <2> HIDE DEF work
  <2> QED BY <1>1, <2>1, <2>3, <2>6, <2>7, <2>8, ExpandKeeps, Zenon
<1>7. CASE ApplyReads(Abort)
  BY <1>1, <1>7, ApplyAborts DEF ApplyReads
<1> QED BY <1>2, <1>5, <1>6, <1>7

LEMMA EndTargetStep == ASSUME ApplyInv, EndTarget PROVE ApplyInv'
<1>1. apply.pc = "expand" /\ store' = store /\ apply.work = {}
  BY DEF EndTarget, ApplyBusy, catalogue
<1>2. PICK t \in apply.file \ apply.todo : apply.target = {t}
  BY <1>1 DEF ApplyInv, ApplyShape
<1>3. CASE apply.tables = {}
  BY <1>1, <1>3, ApplyAborts DEF EndTarget
<1>4. CASE apply.tables # {}
  <2>1. UNION {Of(s.user, apply.tables) : s \in apply.target} = Of(t.user, apply.tables)
    BY <1>2
  <2>2. apply' = [pc |-> "next", file |-> apply.file, todo |-> apply.todo,
                  target |-> apply.target, work |-> apply.work, tables |-> apply.tables,
                  want |-> apply.want \cup Of(t.user, apply.tables), seen |-> apply.seen]
    BY <1>4, <2>1 DEF EndTarget, ApplyInv, ApplyShape
  <2>3. ApplyShape'
    BY <2>2 DEF ApplyInv, ApplyShape
  <2>4. Current = {t} /\ Current' = {} /\ Finished' = Finished \cup {t}
    BY <1>1, <1>2, <2>2 DEF Finished, Current
  <2>5. ASSUME NEW c \in Catalogues, apply'.seen \subseteq {c} PROVE MeansOf(c)'
    <3>1. MeansOf(c)
      BY <1>1, <2>2, <2>5 DEF ApplyInv, ApplyMeans
    <3>2. Left(c, {}) = {}
      BY LeftNone
    <3>3. apply.tables = Meaning(c, t)
      BY <1>1, <2>4, <3>1, <3>2 DEF MeansOf
    <3>4. UNION {Of(s.user, Meaning(c, s)) : s \in Finished \cup {t}}
            = (UNION {Of(s.user, Meaning(c, s)) : s \in Finished}) \cup Of(t.user, Meaning(c, t))
      OBVIOUS
    <3>5. apply'.want = apply.want \cup Of(t.user, Meaning(c, t))
      BY <2>2, <3>3
    <3> QED BY <1>4, <2>4, <3>1, <3>3, <3>4, <3>5 DEF MeansOf
  <2>6. ApplyMeans'
    BY <2>5 DEF ApplyMeans
  <2>7. ApplyLives'
    <3>1. \A f : WasThere(f) => WasThere(f)'
      BY <2>2, FoundStays
    <3>2. \A user, f : Named(user, f)' <=> Named(user, f)
      BY <2>2 DEF Named
    <3>3. \A g \in Of(t.user, apply.tables) : g.table \in apply.tables
      BY DEF Of
    <3> QED BY <1>1, <2>2, <3>1, <3>2, <3>3 DEF ApplyInv, ApplyLives
  <2> QED BY <1>1, <2>3, <2>6, <2>7 DEF ApplyInv
<1> QED BY <1>3, <1>4

LEMMA CommitApplyStep == ASSUME ApplyInv, CommitApply PROVE ApplyInv'
<1>1. apply.pc = "next" /\ apply.todo = {} /\ store' = store
  BY DEF CommitApply
<1>2. apply' = [pc |-> "done", file |-> apply.file, todo |-> apply.todo,
                target |-> apply.target, work |-> apply.work, tables |-> apply.tables,
                want |-> apply.want, seen |-> apply.seen]
  BY DEF CommitApply, ApplyInv, ApplyShape
<1>3. Current = {} /\ Current' = {} /\ Finished' = Finished
  BY <1>1, <1>2 DEF Finished, Current
<1>4. ApplyShape'
  BY <1>1, <1>2 DEF ApplyInv, ApplyShape
<1>5. ApplyMeans'
  BY <1>1, <1>2, <1>3 DEF ApplyInv, ApplyMeans, MeansOf
<1>6. ApplyLives'
  BY <1>2 DEF ApplyInv, ApplyLives, Named, WasThere, Converted
<1> QED BY <1>1, <1>4, <1>5, <1>6 DEF ApplyInv

LEMMA ApplyNext == ApplyInv /\ [Next]_vars => ApplyInv'
<1> SUFFICES ASSUME ApplyInv, [Next]_vars PROVE ApplyInv'
  OBVIOUS
<1>1. CASE CallNext /\ UNCHANGED <<writers, copying>>
  <2>1. UNCHANGED catalogue
    BY <1>1 DEF CallNext, Start, Return, ReadEntity, StatementFails, WalkNode, ListNodes,
        ReadValues, CountValues, ReadEdges, ReadTables, ReadTime, ReadKeywords, ReadVectors,
        ReadHits, Busy
  <2> QED BY <1>1, <2>1, ApplyQuiet DEF catalogue, writers, ApplyInv
<1>2. CASE BackupNext /\ UNCHANGED <<readers, writers>>
  <2>1. UNCHANGED catalogue
    BY <1>2 DEF BackupNext, OtherCheckpoint, BeginBackup, CheckpointBusy, CheckpointDone,
        OpenFiles, CopyPage, BackupFails, BackupBusy
  <2> QED BY <1>2, <2>1, ApplyQuiet DEF catalogue, writers, ApplyInv
<1>3. CASE SyncCommit \/ OtherCommit
  <2>1. store' \in Catalogues /\ UNCHANGED apply
    BY <1>3 DEF SyncCommit, OtherCommit, Commit, catalogue, ApplyInv
  <2> QED BY <2>1, ApplyQuiet
<1>4. CASE ReadGrants \/ CheckGrant \/ ReadPatterns \/ CheckPattern \/ EndCheck
           \/ CheckFails \/ CloseSync
  <2>1. store' = store /\ UNCHANGED apply
    BY <1>4 DEF ReadGrants, CheckGrant, ReadPatterns, CheckPattern, EndCheck, CheckFails,
        CloseSync, CheckBusy, catalogue
  <2> QED BY <2>1, ApplyQuiet DEF ApplyInv
<1>5. CASE ExpandFails
  <2>1. store' = store /\ apply' = Abort
    BY <1>5 DEF ExpandFails, ApplyBusy, catalogue
  <2> QED BY <2>1, ApplyAborts
<1>6. CASE UNCHANGED vars
  BY <1>6, ApplyQuiet DEF vars, catalogue, writers, ApplyInv
<1> QED BY <1>1, <1>2, <1>3, <1>4, <1>5, <1>6, BeginStep, NextTargetStep, ExpandTargetStep,
        ExpandTablesStep, ExpandDescribedStep, ExpandLookStep, EndTargetStep, CommitApplyStep
        DEF Next, CommandNext

LEMMA ApplyInvariance == Spec => []ApplyInv
BY InitApply, ApplyNext, PTL DEF Spec

\* Whatever the versions and the files are and however syncs fall between the
\* statements: a file that is applied grants what its targets mean in the
\* version it read, or else nothing that was not there (grants.Sync with
\* GrantExpander).
THEOREM FilesGrantWhatTheyMean == Spec => []GrantsAreMeant
<1>1. ApplyInv => GrantsOfOneVersion
  <2> SUFFICES ASSUME ApplyInv, apply.pc = "done", NEW c \in Catalogues, apply.seen = {c}
               PROVE  /\ apply.want = UNION {Of(t.user, Meaning(c, t)) : t \in apply.file}
                      /\ \A t \in apply.file : Meaning(c, t) # {}
    BY DEF GrantsOfOneVersion
  <2>1. Finished = apply.file
    BY DEF ApplyInv, ApplyShape, Finished, Current
  <2>2. MeansOf(c)
    BY DEF ApplyInv, ApplyMeans
  <2> QED BY <2>1, <2>2 DEF MeansOf
<1>2. ApplyInv => GrantsOfAnyVersions
  BY DEF ApplyInv, ApplyLives, GrantsOfAnyVersions, Named, WasThere
<1>3. ApplyInv => GrantsAreMeant
  BY <1>1, <1>2 DEF GrantsAreMeant
<1> QED BY <1>3, ApplyInvariance, PTL

-----------------------------------------------------------------------------
(* The fusion of a search.                                                 *)

LEMMA Params ==
    /\ KeywordWeight \in Nat /\ KeywordWeight > 0
    /\ VectorWeight \in Nat /\ VectorWeight > 0
    /\ RrfK \in Nat /\ RrfK > 0
    /\ CandidateCap \in Nat /\ CandidateCap > 0
    /\ KeywordWeight * (RrfK + 1) > VectorWeight * (RrfK + CandidateCap)
BY ReadsAssumption DEF ReadsAssumption

\* A list of candidates.
IsList(list) == \E n \in 0..CandidateCap : DOMAIN list = 1..n

LEMMA RankedIsList ==
    ASSUME NEW S, IsFiniteSet(S), NEW list \in Rankings(S, CandidateCap)
    PROVE  IsList(list)
<1>1. Cardinality(S) \in Nat
  BY FS_CardinalityType
<1>2. Capped(Cardinality(S), CandidateCap) \in 0..CandidateCap
  BY <1>1, Params DEF Capped
<1>3. PICK n \in 0..Capped(Cardinality(S), CandidateCap) : list \in [1..n -> S]
  BY DEF Rankings
<1>4. n \in 0..CandidateCap
  BY <1>2, <1>3, Params
<1> QED BY <1>3, <1>4 DEF IsList

LEMMA RankIs ==
    ASSUME NEW list, IsList(list), NEW f
    PROVE  IF f \in Range(list) THEN Rank(list, f) \in 1..CandidateCap
                                ELSE Rank(list, f) = 0
<1>1. PICK n \in 0..CandidateCap : DOMAIN list = 1..n
  BY DEF IsList
<1>2. CASE f \in Range(list)
  <2>1. \E i \in DOMAIN list : list[i] = f
    BY <1>2 DEF Range
  <2>2. Rank(list, f) \in DOMAIN list
    BY <1>2, <2>1 DEF Rank
  <2> QED BY <1>1, <1>2, <2>2, Params
<1> QED BY <1>2 DEF Rank

\* What the weights are chosen for: the worst keyword rank counts more than
\* the best rank of the vector channel alone.
LEMMA WorstKeyword ==
    ASSUME NEW k \in 1..CandidateCap, NEW r \in 1..CandidateCap
    PROVE  KeywordWeight * (RrfK + r) > VectorWeight * (RrfK + k)
<1>1. KeywordWeight * (RrfK + r) >= KeywordWeight * (RrfK + 1)
  BY Params
<1>2. VectorWeight * (RrfK + k) <= VectorWeight * (RrfK + CandidateCap)
  BY Params
<1> QED BY <1>1, <1>2, Params

\* The scores of a hit of the vector channel alone, at rank r, and of a
\* keyword hit at rank k, which the vector channel has at rank q or not.
LEMMA KeywordScoresMore ==
    ASSUME NEW k \in 1..CandidateCap, NEW r \in 1..CandidateCap, NEW q \in 0..CandidateCap
    PROVE  LET a == Score(0, r)
               b == Score(k, q)
           IN a[1] * b[2] - b[1] * a[2] \in Int /\ a[1] * b[2] - b[1] * a[2] < 0
<1> DEFINE A == VectorWeight
           B == KeywordWeight
           R == RrfK + r
           K == RrfK + k
           Q == RrfK + q
<1>1. A \in Nat /\ B \in Nat /\ R \in Nat /\ K \in Nat /\ Q \in Nat
      /\ A > 0 /\ R > 0 /\ K > 0 /\ Q > 0
  BY Params
<1>2. B * R > A * K
  BY WorstKeyword
<1>3. Score(0, r) = <<0 * R + A * 1, 1 * R>>
  BY Params DEF Score, Sum, Part
<1> HIDE DEF R, K, Q
<1>4. Score(0, r)[1] = A /\ Score(0, r)[2] = R
  BY <1>1, <1>3, Params
<1>5. CASE q = 0
  <2>1. Score(k, q) = <<B * 1 + 0 * K, K * 1>>
    BY <1>5, Params DEF Score, Sum, Part, K
  <2>2. Score(k, q)[1] = B /\ Score(k, q)[2] = K
    BY <1>1, <2>1, Params
  <2> QED BY <1>1, <1>2, <1>4, <2>2, Params
<1>6. CASE q # 0
  <2>1. Score(k, q) = <<B * Q + A * K, K * Q>>
    BY <1>6, Params DEF Score, Sum, Part, K, Q
  <2>2. A * (K * Q) - (B * Q + A * K) * R = Q * (A * K - B * R) - (A * K) * R
    BY <1>1, Params
  <2>3. Q * (A * K - B * R) < 0
    BY <1>1, <1>2, Params
  <2>4. (A * K) * R >= 0
    BY <1>1, Params
  <2>5. A * (K * Q) - (B * Q + A * K) * R < 0
    <3>1. Q * (A * K - B * R) \in Int /\ (A * K) * R \in Int
      BY <1>1, Params
    <3> QED BY <2>2, <2>3, <2>4, <3>1
  <2>6. A * (K * Q) - (B * Q + A * K) * R \in Int
    BY <1>1, Params
  <2> QED BY <1>4, <2>1, <2>5, <2>6
<1> QED BY <1>5, <1>6

LEMMA FusedLeads ==
    ASSUME NEW kw, NEW vec, NEW ranked, IsList(kw), IsList(vec), IsFused(kw, vec, ranked),
           NEW i \in DOMAIN ranked, NEW j \in DOMAIN ranked, i < j,
           ranked[j] \in Range(kw)
    PROVE  ranked[i] \in Range(kw)
<1> SUFFICES ASSUME ranked[i] \notin Range(kw) PROVE FALSE
  OBVIOUS
<1> DEFINE f == ranked[i]
           g == ranked[j]
<1>1. f \in Range(vec)
  BY DEF IsFused, Range
<1>2. Rank(kw, f) = 0 /\ Rank(vec, f) \in 1..CandidateCap
  BY <1>1, RankIs
<1>3. Rank(kw, g) \in 1..CandidateCap /\ Rank(vec, g) \in 0..CandidateCap
  <2>1. Rank(vec, g) \in 1..CandidateCap \/ Rank(vec, g) = 0
    BY RankIs
  <2> QED BY <2>1, RankIs, Params
<1>4. LET a == Score(Rank(kw, f), Rank(vec, f))
          b == Score(Rank(kw, g), Rank(vec, g))
      IN a[1] * b[2] - b[1] * a[2] \in Int /\ a[1] * b[2] - b[1] * a[2] < 0
  BY <1>2, <1>3, KeywordScoresMore
<1>5. Above(kw, vec, f, g)
  BY DEF IsFused
<1>6. LET a == Score(Rank(kw, f), Rank(vec, f))
          b == Score(Rank(kw, g), Rank(vec, g))
          ahead == a[1] * b[2] - b[1] * a[2]
      IN ahead > 0 \/ ahead = 0
  BY <1>5 DEF Above
<1> DEFINE d == Score(Rank(kw, f), Rank(vec, f))[1] * Score(Rank(kw, g), Rank(vec, g))[2]
                - Score(Rank(kw, g), Rank(vec, g))[1] * Score(Rank(kw, f), Rank(vec, f))[2]
<1>7. d \in Int /\ d < 0 /\ (d > 0 \/ d = 0)
  BY <1>4, <1>6
<1> HIDE DEF d
<1> QED BY <1>7

SearchInv ==
    /\ store \in Catalogues
    /\ {"op", "pc", "seen", "error"} \subseteq DOMAIN call
    /\ call.op = "search" =>
          /\ {"kw", "vec", "ranked", "hits"} \subseteq DOMAIN call
          /\ call.pc \in {"keyword", "vector", "hits", "done"}
          /\ call.pc \in {"keyword", "vector"} => DOMAIN call.ranked = {}
          /\ call.pc = "vector" => IsList(call.kw)
    /\ KeywordsLead

LEMMA NoCallIs == NoCall.op = "none" /\ DOMAIN NoCall = {"op", "pc", "seen", "error"}
BY DEF NoCall

LEMMA InitSearch == Init => SearchInv
BY NoCallIs DEF Init, CatalogueInit, SearchInv, KeywordsLead

LEMMA OtherCall ==
    ASSUME SearchInv, call.op # "search", call'.op = call.op, DOMAIN call' = DOMAIN call,
           UNCHANGED store
    PROVE  SearchInv'
BY DEF SearchInv, KeywordsLead

LEMMA CandidatesFinite ==
    ASSUME store \in Catalogues, NEW kinds
    PROVE  IsFiniteSet(Entries(store, kinds))
<1>1. IsFiniteSet(Live(store))
  BY CatalogueAssumption DEF CatalogueAssumption, Live
<1>2. Entries(store, kinds) \in SUBSET Live(store)
  BY DEF Entries
<1> QED BY <1>1, <1>2, FS_Subset

LEMMA KeywordsStep == ASSUME SearchInv, call.op = "search", ReadKeywords PROVE SearchInv'
<1>1. call.pc = "keyword" /\ UNCHANGED store
  BY DEF ReadKeywords, Busy, catalogue
<1>2. PICK kw \in Rankings(Entries(store, call.on), CandidateCap) :
        call' = [[call EXCEPT !.kw = kw, !.pc = "vector"] EXCEPT !.seen = @ \cup {store}]
  BY DEF ReadKeywords, Reads
<1>3. IsList(kw)
  BY CandidatesFinite, RankedIsList DEF SearchInv
<1>4. /\ DOMAIN call' = DOMAIN call /\ call'.op = call.op
      /\ call'.pc = "vector" /\ call'.kw = kw /\ call'.ranked = call.ranked
  BY <1>2 DEF SearchInv
<1> QED BY <1>1, <1>3, <1>4 DEF SearchInv, KeywordsLead

LEMMA VectorsStep == ASSUME SearchInv, call.op = "search", ReadVectors PROVE SearchInv'
<1>1. call.pc = "vector" /\ UNCHANGED store
  BY DEF ReadVectors, Busy, catalogue
<1>2. PICK vec, ranked :
        /\ vec \in Rankings(Entries(store, call.on), CandidateCap)
        /\ IsFused(call.kw, vec, ranked)
        /\ call' = [[call EXCEPT !.vec = vec, !.ranked = ranked, !.pc = "hits"]
                        EXCEPT !.seen = @ \cup {store}]
  BY DEF ReadVectors, Reads
<1>3. IsList(vec) /\ IsList(call.kw)
  BY <1>1, <1>2, CandidatesFinite, RankedIsList DEF SearchInv
<1>4. /\ DOMAIN call' = DOMAIN call /\ call'.op = call.op
      /\ call'.pc = "hits" /\ call'.kw = call.kw /\ call'.ranked = ranked
  BY <1>2 DEF SearchInv
<1>5. KeywordsLead'
  <2> SUFFICES ASSUME NEW i \in DOMAIN ranked, NEW j \in DOMAIN ranked, i < j,
                      ranked[j] \in Range(call.kw)
               PROVE  ranked[i] \in Range(call.kw)
    BY <1>4 DEF KeywordsLead
  <2> QED BY <1>2, <1>3, FusedLeads
<1> QED BY <1>1, <1>4, <1>5 DEF SearchInv

\* The rest of a search leaves the ranking alone.
LEMMA RankedStays ==
    ASSUME SearchInv, call.op = "search", DOMAIN call' = DOMAIN call, call'.op = call.op,
           call'.pc = "done", call'.kw = call.kw, call'.ranked = call.ranked, UNCHANGED store
    PROVE  SearchInv'
BY DEF SearchInv, KeywordsLead

LEMMA CallStep == ASSUME SearchInv, CallNext PROVE SearchInv'
<1>0. UNCHANGED store
  BY DEF CallNext, Start, Return, ReadEntity, StatementFails, WalkNode, ListNodes,
      ReadValues, CountValues, ReadEdges, ReadTables, ReadTime, ReadKeywords, ReadVectors,
      ReadHits, Busy, catalogue
<1>1. CASE Start
  <2>1. CASE StartSearch
    <3>1. PICK kinds :
            call' = [op |-> "search", on |-> kinds, pc |-> "keyword", seen |-> {},
                     error |-> "none", kw |-> <<>>, vec |-> <<>>, ranked |-> <<>>,
                     hits |-> {}]
      BY <2>1 DEF StartSearch
    <3>2. DOMAIN <<>> = {}
      OBVIOUS
    <3> QED BY <1>0, <3>1, <3>2 DEF SearchInv, KeywordsLead
  <2>2. CASE ~StartSearch
    <3>1. call'.op # "search" /\ {"op", "pc", "seen", "error"} \subseteq DOMAIN call'
      <4>1. CASE StartTraverse
        BY <4>1 DEF StartTraverse
      <4>2. CASE StartLookup
        BY <4>2 DEF StartLookup
      <4>3. CASE call' = [NoCall EXCEPT !.error = "invalid_request"]
        BY <4>3, NoCallIs
      <4> QED BY <1>1, <2>2, <4>1, <4>2, <4>3 DEF Start
    <3> QED BY <1>0, <3>1 DEF SearchInv, KeywordsLead
  <2> QED BY <2>1, <2>2
<1>2. CASE Return
  BY <1>0, <1>2, NoCallIs DEF Return, SearchInv, KeywordsLead
<1>3. CASE StatementFails
  <2>1. /\ DOMAIN call' = DOMAIN call /\ call'.op = call.op /\ call'.pc = "done"
        /\ call.op = "search" => call'.kw = call.kw /\ call'.ranked = call.ranked
    BY <1>3 DEF StatementFails, Fail, SearchInv
  <2> QED BY <1>0, <2>1, OtherCall, RankedStays
<1>4. CASE ReadKeywords
  <2>1. CASE call.op = "search"
    BY <1>4, <2>1, KeywordsStep
  <2>2. CASE call.op # "search"
    <3>1. call'.op = call.op /\ DOMAIN call' = DOMAIN call
      BY <1>4 DEF ReadKeywords, Reads, SearchInv
    <3> QED BY <1>0, <2>2, <3>1, OtherCall
  <2> QED BY <2>1, <2>2
<1>5. CASE ReadVectors
  <2>1. CASE call.op = "search"
    BY <1>5, <2>1, VectorsStep
  <2>2. CASE call.op # "search"
    <3>1. call'.op = call.op /\ DOMAIN call' = DOMAIN call
      BY <1>5 DEF ReadVectors, Reads, SearchInv
    <3> QED BY <1>0, <2>2, <3>1, OtherCall
  <2> QED BY <2>1, <2>2
<1>6. CASE ReadHits
  <2>1. /\ DOMAIN call' = DOMAIN call /\ call'.op = call.op /\ call'.pc = "done"
        /\ call.op = "search" => call'.kw = call.kw /\ call'.ranked = call.ranked
    BY <1>6 DEF ReadHits, Reads, SearchInv
  <2> QED BY <1>0, <2>1, OtherCall, RankedStays
<1>7. CASE ReadEntity
  <2>1. call.op # "search"
    BY <1>7 DEF ReadEntity, Busy, SearchInv
  <2>2. call'.op = call.op /\ DOMAIN call' = DOMAIN call
    BY <1>7 DEF ReadEntity, Reads, Fail, SearchInv
  <2> QED BY <1>0, <2>1, <2>2, OtherCall
<1>8. CASE WalkNode \/ ListNodes
  <2>1. call.op # "search"
    BY <1>8 DEF WalkNode, ListNodes, Busy, SearchInv
  <2>2. call'.op = call.op /\ DOMAIN call' = DOMAIN call
    BY <1>8 DEF WalkNode, ListNodes, Reads, SearchInv
  <2> QED BY <1>0, <2>1, <2>2, OtherCall
<1>9. CASE ReadValues \/ CountValues \/ ReadEdges \/ ReadTables \/ ReadTime
  <2>1. call.op # "search"
    BY <1>9 DEF ReadValues, CountValues, ReadEdges, ReadTables, ReadTime, Busy, SearchInv
  <2>2. call'.op = call.op /\ DOMAIN call' = DOMAIN call
    BY <1>9 DEF ReadValues, CountValues, ReadEdges, ReadTables, ReadTime, Reads, SearchInv
  <2> QED BY <1>0, <2>1, <2>2, OtherCall
<1> QED BY <1>1, <1>2, <1>3, <1>4, <1>5, <1>6, <1>7, <1>8, <1>9 DEF CallNext

LEMMA SearchNext == SearchInv /\ [Next]_vars => SearchInv'
<1> SUFFICES ASSUME SearchInv, [Next]_vars PROVE SearchInv'
  OBVIOUS
<1>1. CASE CallNext
  BY <1>1, CallStep
<1>2. CASE UNCHANGED readers /\ store' \in Catalogues
  BY <1>2 DEF readers, SearchInv, KeywordsLead
<1>3. CASE CommandNext /\ UNCHANGED readers
  <2>1. store' \in Catalogues
    BY <1>3 DEF SearchInv, CommandNext, BeginApply, NextTarget, ExpandTarget, ExpandTables,
        ExpandDescribed, ExpandLook, EndTarget, ExpandFails, CommitApply, SyncCommit, Commit,
        ReadGrants, CheckGrant, ReadPatterns, CheckPattern, EndCheck, CheckFails, CloseSync,
        ApplyBusy, CheckBusy, catalogue
  <2> QED BY <1>2, <1>3, <2>1
<1>4. CASE OtherCommit /\ UNCHANGED readers
  BY <1>2, <1>4 DEF OtherCommit, Commit
<1>5. CASE BackupNext /\ UNCHANGED <<readers, writers>>
  <2>1. store' \in Catalogues
    BY <1>5 DEF SearchInv, BackupNext, OtherCheckpoint, BeginBackup, CheckpointBusy,
        CheckpointDone, OpenFiles, CopyPage, BackupFails, BackupBusy, catalogue
  <2> QED BY <1>2, <1>5, <2>1
<1>6. CASE UNCHANGED vars
  BY <1>2, <1>6 DEF vars, catalogue, SearchInv
<1> QED BY <1>1, <1>3, <1>4, <1>5, <1>6 DEF Next

\* For all weights, caps and rankings that satisfy the inequality the
\* comment on the parameters counts on, a keyword hit is ranked before every
\* hit of the vector channel alone (search.go: rrfK).
THEOREM KeywordsComeFirst == Spec => []KeywordsLead
<1>1. SearchInv => KeywordsLead
  BY DEF SearchInv
<1>2. Spec => []SearchInv
  BY InitSearch, SearchNext, PTL DEF Spec
<1> QED BY <1>1, <1>2, PTL

-----------------------------------------------------------------------------
(* Types.                                                                  *)

Errors == {"none", "invalid_request", "not_found", "wrong_kind", "internal"}
TraverseFields ==
    {"on", "type", "direction", "asked", "nodes", "edges", "queue", "truncated", "listed"}

CallTyped ==
    /\ {"op", "pc", "seen", "error"} \subseteq DOMAIN call
    /\ call.seen \subseteq Catalogues
    /\ call.error \in Errors
    /\ call.op = "traverse" =>
          /\ call.pc \in {"entity", "walk", "done"}
          /\ TraverseFields \subseteq DOMAIN call
          /\ call.asked \in Nat
          /\ call.nodes \subseteq Fqn /\ call.listed \subseteq call.nodes
          /\ \A item \in call.queue : item.depth \in 0..MaxDepth - 1
    /\ call.pc = "walk" => call.op = "traverse"

LEMMA InitCall == Init => CallTyped
BY NoCallIs DEF Init, NoCall, CallTyped, Errors

\* A statement of another tool, or the end of a traversal.
LEMMA CallGoesOn ==
    ASSUME CallTyped, store \in Catalogues, DOMAIN call' = DOMAIN call, call'.op = call.op,
           call'.seen \subseteq call.seen \cup {store}, call'.error \in Errors,
           call'.pc # "walk",
           \/ call.op # "traverse"
           \/ /\ call'.pc = "done" /\ call'.asked = call.asked /\ call'.nodes = call.nodes
              /\ call'.queue = call.queue /\ call'.listed \subseteq call.nodes
    PROVE  CallTyped'
BY DEF CallTyped

LEMMA DepthLimitIs == ASSUME NEW asked \in Nat PROVE DepthLimit(asked) \in 1..MaxDepth
<1>1. MaxDepth \in Nat \ {0}
  BY ReadsAssumption DEF ReadsAssumption
<1> QED BY <1>1 DEF DepthLimit, Capped

LEMMA WalkStep == ASSUME CallTyped, store \in Catalogues, WalkNode PROVE CallTyped'
<1>1. call.pc = "walk" /\ call.op = "traverse"
  BY DEF WalkNode, Busy, CallTyped
<1> DEFINE Edges(item) == RelationEdges(store, call.type, item.fqn, call.direction)
           Ends(item) == {Far(e, item.fqn) : e \in Edges(item)} \ call.nodes
           Walked(item, kept) ==
              [call EXCEPT
                    !.nodes = @ \cup kept,
                    !.edges = @ \cup {e \in Edges(item) :
                                        Far(e, item.fqn) \in call.nodes \cup kept},
                    !.queue = (@ \ {item}) \cup
                        {[fqn |-> f, depth |-> item.depth + 1] :
                            f \in IF item.depth + 1 < DepthLimit(call.asked) THEN kept ELSE {}},
                    !.truncated = @ \/ kept # Ends(item)]
<1>0. PICK item \in call.queue :
        \E kept \in Kept(Ends(item), MaxNodes - Cardinality(call.nodes)) :
            Reads(Walked(item, kept))
  BY Zenon DEF WalkNode
<1>2. PICK kept \in SUBSET Ends(item) :
        call' = [Walked(item, kept) EXCEPT !.seen = @ \cup {store}]
  BY <1>0, Zenon DEF Kept, Reads
<1> DEFINE further == {[fqn |-> f, depth |-> item.depth + 1] :
                        f \in IF item.depth + 1 < DepthLimit(call.asked) THEN kept ELSE {}}
<1>3. /\ DOMAIN call' = DOMAIN call /\ call'.op = "traverse" /\ call'.pc = "walk"
      /\ call'.seen = call.seen \cup {store} /\ call'.error = call.error
      /\ call'.asked = call.asked /\ call'.listed = call.listed
      /\ call'.nodes = call.nodes \cup kept
      /\ call'.queue = (call.queue \ {item}) \cup further
  BY <1>1, <1>2 DEF CallTyped, TraverseFields
<1>4. kept \subseteq Fqn
  <2>1. store.edges \subseteq [type : Type, src : Live(store), dst : Live(store)]
        /\ Live(store) \subseteq Fqn
    BY CatalogueAssumption DEF CatalogueAssumption, Live
  <2>2. \A e \in Edges(item) : e.src \in Fqn /\ e.dst \in Fqn
    BY <2>1 DEF RelationEdges
  <2>3. Ends(item) \subseteq Fqn
    BY <2>2 DEF Far
  <2> QED BY <2>3
<1>5. \A next \in further : next.depth \in 0..MaxDepth - 1
  <2>1. item.depth \in 0..MaxDepth - 1 /\ DepthLimit(call.asked) \in 0..MaxDepth
    BY <1>1, <1>2, DepthLimitIs DEF CallTyped
  <2>2. MaxDepth \in Nat
    BY ReadsAssumption DEF ReadsAssumption
  <2>3. item.depth + 1 < DepthLimit(call.asked) => item.depth + 1 \in 0..MaxDepth - 1
    BY <2>1, <2>2
  <2> QED BY <2>3
<1> HIDE DEF further
<1>6. /\ call'.nodes \subseteq Fqn /\ call'.listed \subseteq call'.nodes
      /\ \A next \in call'.queue : next.depth \in 0..MaxDepth - 1
  BY <1>1, <1>3, <1>4, <1>5 DEF CallTyped
<1> QED BY <1>1, <1>3, <1>6 DEF CallTyped

LEMMA StartStep == ASSUME Start PROVE CallTyped'
<1>1. MaxDepth \in Nat \ {0} /\ Depths \subseteq Nat
  BY ReadsAssumption DEF ReadsAssumption
<1>2. CASE StartTraverse
  <2>1. PICK f \in Fqn, type \in Type, direction \in {"out", "in", "both"}, asked \in Depths :
        call' = [op |-> "traverse", on |-> f, pc |-> "entity", seen |-> {}, error |-> "none",
                 type |-> type, direction |-> direction, asked |-> asked,
                 nodes |-> {f}, edges |-> {}, queue |-> {[fqn |-> f, depth |-> 0]},
                 truncated |-> asked > MaxDepth, listed |-> {}]
    BY <1>2 DEF StartTraverse
  <2>2. asked \in Nat /\ 0 \in 0..MaxDepth - 1
    BY <1>1
  <2> QED BY <2>1, <2>2 DEF CallTyped, Errors, TraverseFields
<1>3. CASE StartSearch
  BY <1>3 DEF StartSearch, CallTyped, Errors
<1>4. CASE StartLookup
  BY <1>4 DEF StartLookup, CallTyped, Errors
<1>5. CASE call' = [NoCall EXCEPT !.error = "invalid_request"]
  BY <1>5 DEF NoCall, CallTyped, Errors
<1> QED BY <1>2, <1>3, <1>4, <1>5 DEF Start

LEMMA CallTypes == ASSUME CallTyped, store \in Catalogues, CallNext PROVE CallTyped'
<1>1. CASE Start
  BY <1>1, StartStep
<1>2. CASE Return
  BY <1>2 DEF Return, NoCall, CallTyped, Errors
<1>3. CASE WalkNode
  BY <1>3, WalkStep
<1>4. CASE StatementFails
  <2>1. /\ DOMAIN call' = DOMAIN call /\ call'.op = call.op /\ call'.seen = call.seen
        /\ call'.error = "internal" /\ call'.pc = "done"
        /\ call.op = "traverse" =>
              /\ call'.asked = call.asked /\ call'.nodes = call.nodes
              /\ call'.queue = call.queue /\ call'.listed = call.listed
    BY <1>4 DEF StatementFails, Fail, CallTyped
  <2> QED BY <2>1, CallGoesOn DEF CallTyped, Errors
<1>5. CASE ListNodes
  <2>1. call.op = "traverse"
    BY <1>5 DEF ListNodes, Busy, CallTyped
  <2>2. /\ DOMAIN call' = DOMAIN call /\ call'.op = call.op
        /\ call'.seen = call.seen \cup {store}
        /\ call'.error = call.error /\ call'.pc = "done"
        /\ call'.asked = call.asked /\ call'.nodes = call.nodes
        /\ call'.queue = call.queue /\ call'.listed = call.nodes \cap Live(store)
    BY <1>5, <2>1 DEF ListNodes, Reads, CallTyped, TraverseFields
  <2> QED BY <2>1, <2>2, CallGoesOn DEF CallTyped
<1>6. CASE ReadEntity
  <2>1. CASE call.op = "traverse"
    <3>1. call.pc = "entity"
      BY <1>6 DEF ReadEntity, Busy
    <3>2. /\ DOMAIN call' = DOMAIN call /\ call'.op = call.op
          /\ call'.seen = call.seen \cup {store} /\ call'.error \in Errors
          /\ call'.pc \in {"walk", "done"}
          /\ call'.asked = call.asked /\ call'.nodes = call.nodes
          /\ call'.queue = call.queue /\ call'.listed = call.listed
      BY <1>6, <2>1 DEF ReadEntity, Reads, Fail, CallTyped, Errors, TraverseFields
    <3> QED BY <2>1, <3>2 DEF CallTyped
  <2>2. CASE call.op # "traverse"
    <3>1. /\ DOMAIN call' = DOMAIN call /\ call'.op = call.op
          /\ call'.seen = call.seen \cup {store} /\ call'.error \in Errors
          /\ call'.pc # "walk"
      BY <1>6, <2>2 DEF ReadEntity, Reads, Fail, CallTyped, Errors
    <3> QED BY <2>2, <3>1, CallGoesOn
  <2> QED BY <2>1, <2>2
<1>7. CASE ReadValues \/ CountValues \/ ReadEdges \/ ReadTables \/ ReadTime
           \/ ReadKeywords \/ ReadVectors \/ ReadHits
  <2>1. call.op # "traverse" /\ call.pc # "walk"
    BY <1>7 DEF ReadValues, CountValues, ReadEdges, ReadTables, ReadTime, ReadKeywords,
        ReadVectors, ReadHits, Busy, CallTyped
  <2>2. /\ DOMAIN call' = DOMAIN call /\ call'.op = call.op
        /\ call'.seen = call.seen \cup {store} /\ call'.error = call.error
        /\ call'.pc # "walk"
    <3>1. CASE ReadValues \/ CountValues
      BY <3>1, <2>1 DEF ReadValues, CountValues, Reads, CallTyped
    <3>2. CASE ReadEdges \/ ReadTables
      BY <3>2, <2>1 DEF ReadEdges, ReadTables, Reads, CallTyped
    <3>3. CASE ReadTime
      BY <3>3, <2>1 DEF ReadTime, Reads, CallTyped
    <3>4. CASE ReadKeywords \/ ReadVectors
      BY <3>4, <2>1 DEF ReadKeywords, ReadVectors, Reads, CallTyped
    <3>5. CASE ReadHits
      BY <3>5, <2>1 DEF ReadHits, Reads, CallTyped
    <3> QED BY <1>7, <3>1, <3>2, <3>3, <3>4, <3>5
  <2> QED BY <2>1, <2>2, CallGoesOn DEF CallTyped
<1> QED BY <1>1, <1>2, <1>3, <1>4, <1>5, <1>6, <1>7 DEF CallNext

Grant == [user : User, table : Fqn]
Pattern == [user : User, prefix : DOMAIN Under]

GrantsTyped ==
    /\ granted \subseteq Grant /\ patterns \subseteq Pattern
    /\ apply.want \subseteq Grant /\ apply.tables \subseteq Fqn
    /\ check.todo \subseteq Pattern /\ check.uncovered \subseteq Grant

LEMMA InitGrants == Init => GrantsTyped
BY DEF Init, CoverageInit, NoApply, NoCheck, GrantsTyped

LEMMA OfIs ==
    ASSUME NEW user \in User, NEW tables \in SUBSET Fqn
    PROVE  Of(user, tables) \subseteq Grant
BY DEF Of, Grant

LEMMA LiveTables ==
    ASSUME store \in Catalogues
    PROVE  /\ \A p : TablesUnder(store, p) \subseteq Fqn
           /\ \A f : MetricTables(store, f) \subseteq Fqn
           /\ \A f : IsA(store, f, "column") => TableOf[f] \in Fqn
<1>1. Live(store) \subseteq Fqn /\ \A f : IsA(store, f, "column") => TableOf[f] \in Fqn
  BY CatalogueAssumption DEF CatalogueAssumption, Live, IsA
<1>2. \A p : TablesUnder(store, p) \subseteq Fqn
  BY <1>1 DEF TablesUnder, IsA
<1>3. \A f : MetricTables(store, f) \subseteq Fqn
  BY MetricTablesAre
<1> QED BY <1>1, <1>2, <1>3

\* A file is expanded and committed.
LEMMA ApplyTypes ==
    ASSUME ApplyInv, GrantsTyped,
           \/ BeginApply \/ NextTarget \/ ExpandTarget \/ ExpandTables \/ ExpandDescribed
           \/ ExpandLook \/ EndTarget \/ ExpandFails \/ CommitApply
    PROVE  GrantsTyped'
<1>0. /\ apply = [pc |-> apply.pc, file |-> apply.file, todo |-> apply.todo,
                  target |-> apply.target, work |-> apply.work, tables |-> apply.tables,
                  want |-> apply.want, seen |-> apply.seen]
      /\ apply.todo \subseteq apply.file /\ store \in Catalogues
  BY DEF ApplyInv, ApplyShape
<1>1. ASSUME apply'.want \subseteq Grant, apply'.tables \subseteq Fqn,
             UNCHANGED <<granted, patterns, check>>
      PROVE  GrantsTyped'
  BY <1>1 DEF GrantsTyped
<1>2. CASE BeginApply
  <2>1. apply'.want = {} /\ apply'.tables = {}
    BY <1>2 DEF BeginApply, NoApply
  <2> QED BY <1>1, <1>2, <2>1 DEF BeginApply
<1>3. CASE NextTarget
  <2>1. PICK t \in apply.todo :
          apply' = IF t.form = "table"
                   THEN [apply EXCEPT !.todo = @ \ {t}, !.want = @ \cup Of(t.user, {t.name})]
                   ELSE [apply EXCEPT !.pc = "expand", !.todo = @ \ {t}, !.target = {t},
                                      !.tables = {}, !.work = {<<t.form, t.name>>}]
    BY <1>3 DEF NextTarget
  <2>2. t.user \in User /\ (t.form = "table" => t.name \in Fqn)
    BY <1>0, TargetIs DEF ApplyInv
  <2>3. t.form = "table" => Of(t.user, {t.name}) \subseteq Grant
    BY <2>2, OfIs
  <2>4. apply'.want \subseteq Grant /\ apply'.tables \subseteq Fqn
    BY <1>0, <2>1, <2>3 DEF GrantsTyped
  <2> QED BY <1>1, <1>3, <2>4 DEF NextTarget, ApplyBusy
<1>4. CASE ExpandTarget
  <2>1. PICK t \in apply.target :
          \/ ApplyReads([apply EXCEPT !.work = {}, !.tables = TablesUnder(store, t.name)])
          \/ ApplyReads([apply EXCEPT !.work =
                {<<IF t.form = "metric" THEN "tables" ELSE "described", t.name>>}])
          \/ ApplyReads(Abort)
    BY <1>4, Zenon DEF ExpandTarget
  <2>2. /\ apply'.want = apply.want
        /\ apply'.tables \in {apply.tables, TablesUnder(store, t.name)}
    BY <1>0, <2>1 DEF ApplyReads, Abort
  <2>3. apply'.want \subseteq Grant /\ apply'.tables \subseteq Fqn
    BY <1>0, <2>2, LiveTables DEF GrantsTyped
  <2> QED BY <1>1, <1>4, <2>3 DEF ExpandTarget, ApplyBusy
<1>5. CASE ExpandTables
  <2>1. apply'.want = apply.want /\ apply'.tables \subseteq Fqn
    BY <1>0, <1>5, LiveTables DEF ExpandTables, ApplyReads, GrantsTyped
  <2> QED BY <1>1, <1>5, <2>1 DEF ExpandTables, ApplyBusy, GrantsTyped
<1>6. CASE ExpandDescribed
  <2>1. apply'.want = apply.want /\ apply'.tables = apply.tables
    BY <1>0, <1>6 DEF ExpandDescribed, ApplyReads
  <2> QED BY <1>1, <1>6, <2>1 DEF ExpandDescribed, ApplyBusy, GrantsTyped
<1>7. CASE ExpandLook
  <2>1. PICK g \in Fqn :
          ApplyReads([apply EXCEPT
              !.work = (@ \ {<<"look", g>>}) \cup
                       IF IsA(store, g, "metric") THEN {<<"tables", g>>} ELSE {},
              !.tables = @ \cup CASE IsA(store, g, "table") -> {g}
                                  [] IsA(store, g, "column") -> {TableOf[g]}
                                  [] OTHER -> {}])
    BY <1>7 DEF ExpandLook
  <2> DEFINE found == CASE IsA(store, g, "table") -> {g}
                        [] IsA(store, g, "column") -> {TableOf[g]}
                        [] OTHER -> {}
  <2>2. found \subseteq Fqn
    BY <1>0, LiveTables
  <2>3. apply'.want = apply.want /\ apply'.tables = apply.tables \cup found
    BY <1>0, <2>1 DEF ApplyReads
  <2> HIDE DEF found
  <2> QED BY <1>1, <1>7, <2>2, <2>3 DEF ExpandLook, ApplyBusy, GrantsTyped
<1>8. CASE EndTarget
  <2>1. \A t \in apply.target : Of(t.user, apply.tables) \subseteq Grant
    <3>1. \A t \in apply.target : t \in apply.file
      BY <1>8 DEF EndTarget, ApplyBusy, ApplyInv, ApplyShape
    <3>2. \A t \in apply.target : t.user \in User
      BY <3>1, TargetIs DEF ApplyInv
    <3> QED BY <3>2, OfIs DEF GrantsTyped
  <2>2. apply'.want \subseteq Grant /\ apply'.tables = apply.tables
    BY <1>0, <1>8, <2>1 DEF EndTarget, Abort, GrantsTyped
  <2> QED BY <1>1, <1>8, <2>2 DEF EndTarget, ApplyBusy, GrantsTyped
<1>9. CASE ExpandFails
  <2>1. apply'.want = apply.want /\ apply'.tables = apply.tables
    BY <1>0, <1>9 DEF ExpandFails, Abort
  <2> QED BY <1>1, <1>9, <2>1 DEF ExpandFails, ApplyBusy, GrantsTyped
<1>10. CASE CommitApply
  <2>1. PatternsIn(apply.file) \subseteq Pattern
    <3>1. \A t \in apply.file : t.form = "prefix" =>
                [user |-> t.user, prefix |-> t.name] \in Pattern
      BY TargetIs DEF ApplyInv, Pattern
    <3> QED BY <3>1 DEF PatternsIn
  <2>2. /\ apply'.want = apply.want /\ apply'.tables = apply.tables
        /\ granted' = apply.want /\ patterns' = PatternsIn(apply.file)
    BY <1>0, <1>10 DEF CommitApply
  <2>3. check' = [check EXCEPT !.quiet = FALSE]
    BY <1>10 DEF CommitApply
  <2>4. check'.todo = check.todo /\ check'.uncovered = check.uncovered
    BY <2>3
  <2> QED BY <2>1, <2>2, <2>4 DEF GrantsTyped
<1> QED BY <1>2, <1>3, <1>4, <1>5, <1>6, <1>7, <1>8, <1>9, <1>10

\* A sync and its warnings.
LEMMA CheckTypes ==
    ASSUME ApplyInv, WarnInv, GrantsTyped,
           \/ SyncCommit \/ OtherCommit \/ ReadGrants \/ CheckGrant \/ ReadPatterns
           \/ CheckPattern \/ EndCheck \/ CheckFails \/ CloseSync
    PROVE  GrantsTyped'
<1>0. /\ check = [pc |-> check.pc, have |-> check.have, rows |-> check.rows,
                  todo |-> check.todo, stale |-> check.stale,
                  uncovered |-> check.uncovered, quiet |-> check.quiet,
                  skipped |-> check.skipped]
      /\ store \in Catalogues
  BY DEF ApplyInv, WarnInv
<1>1. UNCHANGED <<granted, patterns, apply>>
  BY DEF SyncCommit, OtherCommit, ReadGrants, CheckGrant, ReadPatterns, CheckPattern,
      EndCheck, CheckFails, CloseSync, CheckBusy
<1>2. ASSUME check'.todo \subseteq Pattern, check'.uncovered \subseteq Grant
      PROVE  GrantsTyped'
  BY <1>1, <1>2 DEF GrantsTyped
<1>3. CASE SyncCommit \/ CloseSync
  <2>1. check'.todo = {} /\ check'.uncovered = {}
    <3>1. \E pc, quiet :
            check' = [pc |-> pc, have |-> {}, rows |-> {}, todo |-> {}, stale |-> {},
                      uncovered |-> {}, quiet |-> quiet, skipped |-> FALSE]
      BY <1>3 DEF SyncCommit, CloseSync, NoCheck
    <3> QED BY <3>1
  <2> QED BY <1>2, <2>1
<1>4. CASE OtherCommit \/ ReadGrants \/ CheckGrant \/ EndCheck
  <2>1. check'.todo = check.todo /\ check'.uncovered = check.uncovered
    BY <1>0, <1>4 DEF OtherCommit, ReadGrants, CheckGrant, EndCheck
  <2> QED BY <1>2, <2>1 DEF GrantsTyped
<1>5. CASE ReadPatterns
  <2>1. check'.todo = patterns /\ check'.uncovered = check.uncovered
    BY <1>0, <1>5 DEF ReadPatterns
  <2> QED BY <1>2, <2>1 DEF GrantsTyped
<1>6. CASE CheckPattern
  <2>1. PICK p \in check.todo : check' = [check EXCEPT !.todo = @ \ {p},
            !.uncovered = @ \cup (Of(p.user, TablesUnder(store, p.prefix)) \ check.have)]
    BY <1>6 DEF CheckPattern
  <2>2. p.user \in User /\ TablesUnder(store, p.prefix) \subseteq Fqn
    BY <1>0, LiveTables DEF GrantsTyped, Pattern
  <2>3. Of(p.user, TablesUnder(store, p.prefix)) \subseteq Grant
    BY <2>2, OfIs
  <2>4. check'.todo \subseteq Pattern /\ check'.uncovered \subseteq Grant
    BY <1>0, <2>1, <2>3 DEF GrantsTyped
  <2> QED BY <1>2, <2>4
<1>7. CASE CheckFails
  <2>1. check'.todo \subseteq check.todo /\ check'.uncovered = check.uncovered
    BY <1>0, <1>7 DEF CheckFails
  <2> QED BY <1>2, <2>1 DEF GrantsTyped
<1> QED BY <1>3, <1>4, <1>5, <1>6, <1>7

\* The file's part.
CopyTyped ==
    commits \in 0..MaxCommits /\ copy \in [Page -> {Missing} \cup 0..MaxCommits]

Typed == CallTyped /\ GrantsTyped /\ CopyTyped

LEMMA InitTyped == Init => Typed
<1>1. MaxCommits \in Nat
  BY CatalogueAssumption DEF CatalogueAssumption
<1> QED BY <1>1, InitCall, InitGrants DEF Init, CatalogueInit, BackupInit, Typed, CopyTyped

LEMMA CommitsBounded ==
    ASSUME CopyTyped, CommandNext \/ OtherCommit, LogCommit
    PROVE  CopyTyped'
<1>1. MaxCommits \in Nat
  BY CatalogueAssumption DEF CatalogueAssumption
<1>2. copy' = copy
  BY DEF LogCommit
<1>3. commits' = commits \/ Write
  BY DEF CommandNext, BeginApply, NextTarget, ExpandTarget, ExpandTables, ExpandDescribed,
      ExpandLook, EndTarget, ExpandFails, CommitApply, SyncCommit, OtherCommit, Commit,
      ReadGrants, CheckGrant, ReadPatterns, CheckPattern, EndCheck, CheckFails, CloseSync,
      ApplyBusy, CheckBusy, catalogue
<1> QED BY <1>1, <1>2, <1>3 DEF CopyTyped, Write

LEMMA CopyTypes == ASSUME StoreInv, CopyTyped, BackupNext PROVE CopyTyped'
<1>1. commits' = commits /\ commits \in 0..MaxCommits /\ MaxCommits \in Nat
  BY CatalogueAssumption DEF CatalogueAssumption, CopyTyped, BackupNext, OtherCheckpoint,
      BeginBackup, CheckpointBusy, CheckpointDone, OpenFiles, CopyPage, BackupFails,
      BackupBusy, catalogue
<1>2. \A p \in Page : file[p] \in 0..MaxCommits
  BY <1>1 DEF StoreInv, FileInv, Whole
<1>3. CASE CopyPage
  <2>1. backup.page \in Page
    BY DEF StoreInv, CopyInv
  <2> QED BY <1>1, <1>2, <1>3, <2>1 DEF CopyPage, CopyTyped
<1>4. CASE OpenFiles
  BY <1>1, <1>4 DEF OpenFiles, CopyTyped
<1>5. CASE OtherCheckpoint \/ BeginBackup \/ CheckpointBusy \/ CheckpointDone \/ BackupFails
  BY <1>1, <1>5 DEF OtherCheckpoint, BeginBackup, CheckpointBusy, CheckpointDone, BackupFails,
      CopyTyped
<1> QED BY <1>3, <1>4, <1>5 DEF BackupNext

LEMMA TypedNext ==
    (StoreInv /\ WarnInv /\ ApplyInv) /\ Typed /\ [Next]_vars => Typed'
<1> SUFFICES ASSUME StoreInv, WarnInv, ApplyInv, Typed, [Next]_vars PROVE Typed'
  OBVIOUS
<1>1. CASE CallNext /\ UNCHANGED <<writers, copying>>
  <2>1. CallTyped'
    BY <1>1, CallTypes DEF Typed, ApplyInv
  <2>2. UNCHANGED catalogue
    BY <1>1 DEF CallNext, Start, Return, ReadEntity, StatementFails, WalkNode, ListNodes,
        ReadValues, CountValues, ReadEdges, ReadTables, ReadTime, ReadKeywords, ReadVectors,
        ReadHits, Busy
  <2> QED BY <1>1, <2>1, <2>2 DEF writers, copying, catalogue, Typed, GrantsTyped, CopyTyped
<1>2. CASE (CommandNext \/ OtherCommit) /\ LogCommit /\ UNCHANGED readers
  <2>1. GrantsTyped'
    BY <1>2, ApplyTypes, CheckTypes DEF Typed, CommandNext
  <2>2. CopyTyped'
    BY <1>2, CommitsBounded DEF Typed
  <2> QED BY <1>2, <2>1, <2>2 DEF readers, Typed, CallTyped
<1>3. CASE BackupNext /\ UNCHANGED <<readers, writers>>
  BY <1>3, CopyTypes DEF readers, writers, Typed, CallTyped, GrantsTyped
<1>4. CASE UNCHANGED vars
  BY <1>4 DEF vars, catalogue, readers, writers, copying, Typed, CallTyped, GrantsTyped,
      CopyTyped
<1> QED BY <1>1, <1>2, <1>3, <1>4 DEF Next

LEMMA WarnInvariance == Spec => []WarnInv
BY InitWarn, WarnNext, PTL DEF Spec

LEMMA TypedInvariance == Spec => []Typed
BY InitTyped, TypedNext, StoreInvariance, WarnInvariance, ApplyInvariance, PTL DEF Spec

\* Every variable keeps its type, for any catalogues, files, searches and
\* traversals, pages and commits: a depth never passes MaxDepth, a listed node
\* was reached, and only names a sync may commit are granted.
THEOREM TypeCorrect == Spec => []TypeOK
<1>1. StoreInv /\ ApplyInv /\ Typed => TypeOK
  <2> SUFFICES ASSUME StoreInv, ApplyInv, Typed PROVE TypeOK
    OBVIOUS
  <2>1. commits \in 0..MaxCommits /\ MaxCommits \in Nat
    BY CatalogueAssumption DEF Typed, CopyTyped, CatalogueAssumption
  <2>2. CatalogueTypeOK
    BY <2>1 DEF CatalogueTypeOK, ApplyInv
  <2>3. ReadsTypeOK
    BY DEF ReadsTypeOK, Typed, CallTyped, Errors
  <2>4. file \in [Page -> {Missing} \cup 0..MaxCommits]
    BY <2>1 DEF StoreInv, FileInv, Whole
  <2>5. wal \in {NoWal} \cup 0..MaxCommits
    BY <2>1 DEF StoreInv, FileInv
  <2>6. backup.page \in Page /\ backup.began \in 0..MaxCommits
    BY <2>1 DEF StoreInv, CopyInv
  <2> QED BY <2>2, <2>3, <2>4, <2>5, <2>6
          DEF TypeOK, Typed, GrantsTyped, CopyTyped, Grant, Pattern
<1> QED BY <1>1, TypedInvariance, StoreInvariance, ApplyInvariance, PTL

-----------------------------------------------------------------------------
(* What lies within some steps of a node.                                  *)

\* Induction on sets of numbers, from the least number outside of the set.
LEMMA LeastNat ==
    ASSUME NEW T \in SUBSET Nat, T # {}
    PROVE  \E m \in T : \A k \in T : m <= k
<1> DEFINE R == OpToRel(<, Nat)
<1>1. IsWellFoundedOn(R, Nat)
  BY NatLessThanWellFounded
<1>2. \A y, x \in Nat : y < x => <<y, x>> \in R
  BY DEF OpToRel
<1> HIDE DEF R
<1>3. PICK m \in T : \A y \in T : ~ (<<y, m>> \in R)
  BY <1>1, WFMin, Zenon
<1>4. \A k \in T : ~ (k < m)
  BY <1>2, <1>3, Zenon
<1>5. \A k \in T : k \in Nat /\ m \in Nat
  OBVIOUS
<1> QED BY <1>4, <1>5

LEMMA Induct ==
    ASSUME NEW S, 0 \in S, \A n \in Nat : n \in S => n + 1 \in S
    PROVE  \A n \in Nat : n \in S
<1> SUFFICES ASSUME Nat \ S # {} PROVE FALSE
  OBVIOUS
<1>1. PICK m \in Nat \ S : \A k \in Nat \ S : m <= k
  BY LeastNat
<1>2. m # 0 /\ m - 1 \in Nat
  OBVIOUS
<1>3. m - 1 \in S
  BY <1>1, <1>2
<1> QED BY <1>1, <1>2, <1>3

\* The recursive function in Ball is one function, whatever its domain.
IsReach(c, walk, n, f) ==
    f = [k \in 0..n |-> IF k = 0 THEN {walk.on} ELSE Wider(c, walk, f[k - 1])]

LEMMA ReachExists == ASSUME NEW c, NEW walk PROVE \A n \in Nat : \E f : IsReach(c, walk, n, f)
<1> DEFINE S == {n \in Nat : \E f : IsReach(c, walk, n, f)}
<1>1. 0 \in S
  <2> DEFINE f == [k \in 0..0 |-> {walk.on}]
  <2>1. IsReach(c, walk, 0, f)
    BY DEF IsReach
  <2> QED BY <2>1
<1>2. ASSUME NEW n \in Nat, n \in S PROVE n + 1 \in S
  <2>1. PICK f : IsReach(c, walk, n, f)
    BY <1>2
  <2> DEFINE g == [k \in 0..(n + 1) |-> IF k = n + 1 THEN Wider(c, walk, f[n]) ELSE f[k]]
  <2>2. \A k \in 0..n : f[k] = IF k = 0 THEN {walk.on} ELSE Wider(c, walk, f[k - 1])
    BY <2>1 DEF IsReach
  <2>3. /\ \A k \in 0..n : g[k] = f[k]
        /\ g[n + 1] = Wider(c, walk, f[n])
    OBVIOUS
  <2>4. ASSUME NEW k \in 0..(n + 1)
        PROVE  g[k] = IF k = 0 THEN {walk.on} ELSE Wider(c, walk, g[k - 1])
    <3>1. CASE k = n + 1
      BY <2>3, <3>1
    <3>2. CASE k # n + 1
      <4>1. k \in 0..n /\ (k # 0 => k - 1 \in 0..n)
        BY <3>2
      <4> HIDE DEF g
      <4> QED BY <2>2, <2>3, <4>1
    <3> QED BY <3>1, <3>2
  <2>5. g = [k \in 0..(n + 1) |-> g[k]]
    OBVIOUS
  <2> HIDE DEF g
  <2>6. IsReach(c, walk, n + 1, g)
    BY <2>4, <2>5 DEF IsReach
  <2> QED BY <2>6
<1> HIDE DEF S
<1>3. \A n \in Nat : n \in S
  BY <1>1, <1>2, Induct
<1> QED BY <1>3 DEF S

LEMMA ReachUnique ==
    ASSUME NEW c, NEW walk, NEW v, v.on = walk.on, v.type = walk.type,
           v.direction = walk.direction,
           NEW n \in Nat, NEW m \in Nat, NEW f, NEW g,
           IsReach(c, walk, n, f), IsReach(c, v, m, g)
    PROVE  \A k \in Nat : k <= n /\ k <= m => f[k] = g[k]
<1>1. /\ \A k \in 0..n : f[k] = IF k = 0 THEN {walk.on} ELSE Wider(c, walk, f[k - 1])
      /\ \A k \in 0..m : g[k] = IF k = 0 THEN {v.on} ELSE Wider(c, v, g[k - 1])
  BY DEF IsReach
<1>2. \A S : Wider(c, walk, S) = Wider(c, v, S)
  BY DEF Wider
<1> DEFINE S == {k \in Nat : k <= n /\ k <= m => f[k] = g[k]}
<1>3. 0 \in S
  BY <1>1
<1>4. ASSUME NEW k \in Nat, k \in S PROVE k + 1 \in S
  <2> SUFFICES ASSUME k + 1 <= n, k + 1 <= m PROVE f[k + 1] = g[k + 1]
    OBVIOUS
  <2>1. k <= n /\ k <= m /\ k + 1 \in 0..n /\ k + 1 \in 0..m /\ k + 1 # 0 /\ (k + 1) - 1 = k
    OBVIOUS
  <2>2. f[k] = g[k]
    BY <1>4, <2>1
  <2> QED BY <1>1, <1>2, <2>1, <2>2
<1> HIDE DEF S
<1>5. \A k \in Nat : k \in S
  BY <1>3, <1>4, Induct
<1> QED BY <1>5 DEF S

LEMMA BallReach ==
    ASSUME NEW c, NEW walk, NEW n \in Nat
    PROVE  \E f : IsReach(c, walk, n, f) /\ Ball(c, walk, n) = f[n]
<1> DEFINE f == CHOOSE reach : IsReach(c, walk, n, reach)
<1>1. IsReach(c, walk, n, f)
  BY ReachExists
<1>2. Ball(c, walk, n) = f[n]
  BY DEF Ball, IsReach
<1> QED BY <1>1, <1>2

LEMMA BallIs ==
    ASSUME NEW c, NEW walk
    PROVE  /\ Ball(c, walk, 0) = {walk.on}
           /\ \A n \in Nat : Ball(c, walk, n + 1) = Wider(c, walk, Ball(c, walk, n))
<1>1. Ball(c, walk, 0) = {walk.on}
  <2>1. PICK f : IsReach(c, walk, 0, f) /\ Ball(c, walk, 0) = f[0]
    BY BallReach
  <2> QED BY <2>1 DEF IsReach
<1>2. ASSUME NEW n \in Nat
      PROVE  Ball(c, walk, n + 1) = Wider(c, walk, Ball(c, walk, n))
  <2>1. PICK f : IsReach(c, walk, n, f) /\ Ball(c, walk, n) = f[n]
    BY BallReach
  <2>2. PICK g : IsReach(c, walk, n + 1, g) /\ Ball(c, walk, n + 1) = g[n + 1]
    BY BallReach
  <2>3. f[n] = g[n]
    BY <2>1, <2>2, ReachUnique
  <2>4. g[n + 1] = Wider(c, walk, g[n])
    <3>1. n + 1 \in 0..(n + 1) /\ n + 1 # 0 /\ (n + 1) - 1 = n
      OBVIOUS
    <3> QED BY <2>2, <3>1 DEF IsReach
  <2> QED BY <2>1, <2>2, <2>3, <2>4
<1> QED BY <1>1, <1>2

\* Only where a walk starts and which edges it follows counts.
LEMMA BallSame ==
    ASSUME NEW c, NEW walk, NEW v, v.on = walk.on, v.type = walk.type,
           v.direction = walk.direction
    PROVE  \A n \in Nat : Ball(c, walk, n) = Ball(c, v, n)
<1> SUFFICES ASSUME NEW n \in Nat PROVE Ball(c, walk, n) = Ball(c, v, n)
  OBVIOUS
<1>1. PICK f : IsReach(c, walk, n, f) /\ Ball(c, walk, n) = f[n]
  BY BallReach
<1>2. PICK g : IsReach(c, v, n, g) /\ Ball(c, v, n) = g[n]
  BY BallReach
<1> QED BY <1>1, <1>2, ReachUnique

LEMMA BallGrows ==
    ASSUME NEW c, NEW walk, NEW m \in Nat, NEW n \in Nat, m <= n
    PROVE  Ball(c, walk, m) \subseteq Ball(c, walk, n)
<1> DEFINE S == {d \in Nat : Ball(c, walk, m) \subseteq Ball(c, walk, m + d)}
<1>1. 0 \in S
  OBVIOUS
<1>2. ASSUME NEW d \in Nat, d \in S PROVE d + 1 \in S
  <2>1. m + d \in Nat /\ m + (d + 1) = (m + d) + 1
    OBVIOUS
  <2>2. Ball(c, walk, (m + d) + 1) = Wider(c, walk, Ball(c, walk, m + d))
    BY <2>1, BallIs
  <2>3. Ball(c, walk, m + d) \subseteq Ball(c, walk, m + (d + 1))
    BY <2>1, <2>2 DEF Wider
  <2> QED BY <1>2, <2>3
<1> HIDE DEF S
<1>3. \A d \in Nat : d \in S
  BY <1>1, <1>2, Induct
<1>4. n - m \in Nat /\ m + (n - m) = n
  OBVIOUS
<1> QED BY <1>3, <1>4 DEF S

\* A walk that found nothing new has found everything.
LEMMA BallStays ==
    ASSUME NEW c, NEW walk, NEW m \in Nat, NEW n \in Nat, m <= n,
           Ball(c, walk, m + 1) = Ball(c, walk, m)
    PROVE  Ball(c, walk, n) = Ball(c, walk, m)
<1> DEFINE S == {d \in Nat : Ball(c, walk, m + d) = Ball(c, walk, m)}
<1>1. 0 \in S
  OBVIOUS
<1>2. ASSUME NEW d \in Nat, d \in S PROVE d + 1 \in S
  <2>1. m + d \in Nat /\ m + (d + 1) = (m + d) + 1
    OBVIOUS
  <2>2. Ball(c, walk, (m + d) + 1) = Wider(c, walk, Ball(c, walk, m + d))
    BY <2>1, BallIs
  <2>3. Ball(c, walk, m + 1) = Wider(c, walk, Ball(c, walk, m))
    BY BallIs
  <2>4. Ball(c, walk, m + d) = Ball(c, walk, m)
    BY <1>2
  <2>5. Ball(c, walk, m + (d + 1)) = Ball(c, walk, m)
    BY <2>1, <2>2, <2>3, <2>4
  <2> QED BY <2>5
<1> HIDE DEF S
<1>3. \A d \in Nat : d \in S
  BY <1>1, <1>2, Induct
<1>4. n - m \in Nat /\ m + (n - m) = n
  OBVIOUS
<1> QED BY <1>3, <1>4 DEF S

-----------------------------------------------------------------------------
(* A traversal.                                                            *)

Limit == DepthLimit(call.asked)

\* What is queued at a depth.
At(d) == {item.fqn : item \in {other \in call.queue : other.depth = d}}

Expanded(c, m) == Ball(c, call, m) \ At(m)

\* The walk of one version is at depth m: the nodes within m steps are found,
\* those not queued are expanded, and what that found is queued next.
Level(c, m) ==
    /\ \A item \in call.queue : item.depth \in {m, m + 1}
    /\ At(m) \subseteq Ball(c, call, m)
    /\ Ball(c, call, m) \subseteq call.nodes /\ call.nodes \subseteq Ball(c, call, m + 1)
    /\ Wider(c, call, Expanded(c, m)) \subseteq call.nodes
    /\ call.edges = EdgesFrom(c, call, Expanded(c, m))
    /\ At(m + 1) = IF m + 1 < Limit THEN call.nodes \ Ball(c, call, m) ELSE {}

\* Either nothing was cut off, or there was no more room.
WholeOrFull(c) ==
    \/ call.truncated = (call.asked > MaxDepth) /\ \E m \in 0..Limit - 1 : Level(c, m)
    \/ call.truncated /\ Cardinality(call.nodes) = MaxNodes

WalkOf(c) ==
    /\ \A item \in call.queue : item.fqn \in Ball(c, call, item.depth)
    /\ call.nodes \subseteq Ball(c, call, Limit)
    /\ WholeOrFull(c)

Walking ==
    /\ call.truncated \in BOOLEAN
    /\ \A item \in call.queue : /\ item = [fqn |-> item.fqn, depth |-> item.depth]
                                /\ item.depth \in 0..Limit - 1
                                /\ item.fqn \in call.nodes
    /\ IsFiniteSet(call.nodes) /\ Cardinality(call.nodes) <= MaxNodes
    /\ \A e \in call.edges : /\ {e.src, e.dst} \subseteq call.nodes
                             /\ \E c \in call.seen : e \in c.edges
    /\ call.pc = "entity" => call.seen = {} /\ call.nodes = {call.on}
    /\ \A c \in Catalogues : call.seen \subseteq {c} =>
          /\ WalkOf(c)
          /\ call.pc = "walk" => call.nodes \subseteq Live(c)

TraverseInv ==
    call.op = "traverse" =>
        /\ call.pc \in {"entity", "walk"} => Walking /\ call.error = "none"
        /\ TraversalIsSubgraph

LEMMA KeptIs ==
    ASSUME NEW S, IsFiniteSet(S), NEW n \in Nat, NEW kept \in Kept(S, n)
    PROVE  /\ kept \subseteq S /\ IsFiniteSet(kept)
           /\ Cardinality(kept) \in Nat /\ Cardinality(kept) <= n
           /\ kept = S \/ Cardinality(kept) = n
           /\ Cardinality(kept) = Capped(Cardinality(S), n)
<1>1. kept \in SUBSET S /\ Cardinality(kept) = Capped(Cardinality(S), n)
  BY DEF Kept
<1>2. /\ IsFiniteSet(kept) /\ Cardinality(kept) \in Nat /\ Cardinality(S) \in Nat
      /\ Cardinality(S) = Cardinality(kept) => kept = S
  BY <1>1, FS_Subset, FS_CardinalityType
<1> QED BY <1>1, <1>2 DEF Capped

\* The nodes next to some node, in a version.
LEMMA EndsAre ==
    ASSUME NEW c \in Catalogues, NEW type, NEW direction, NEW f,
           NEW e \in RelationEdges(c, type, f, direction)
    PROVE  /\ e \in c.edges /\ Far(e, f) \in Live(c) /\ {e.src, e.dst} = {f, Far(e, f)}
           /\ IsFiniteSet(Live(c))
<1>1. /\ c.edges \subseteq [type : Type, src : Live(c), dst : Live(c)]
      /\ IsFiniteSet(Live(c))
  BY CatalogueAssumption DEF CatalogueAssumption, Live
<1>2. e \in c.edges /\ (e.src = f \/ e.dst = f)
  BY DEF RelationEdges
<1> QED BY <1>1, <1>2 DEF Far

\* The next level, when nothing of this one is queued any more.
LEMMA NextLevel ==
    ASSUME CallTyped, call.op = "traverse", NEW c \in Catalogues,
           NEW m \in 0..Limit - 1, Level(c, m), At(m) = {}
    PROVE  /\ call.nodes = Ball(c, call, m + 1)
           /\ call.edges = EdgesFrom(c, call, Ball(c, call, m))
           /\ m + 1 < Limit => Level(c, m + 1)
           /\ \A item \in call.queue : item.depth = m + 1
<1>1. m \in Nat /\ Limit \in 1..MaxDepth
  BY DepthLimitIs, ReadsAssumption DEF CallTyped, Limit, ReadsAssumption
<1>2. Expanded(c, m) = Ball(c, call, m)
  BY DEF Expanded
<1>3. Ball(c, call, m + 1) = Wider(c, call, Ball(c, call, m))
  BY <1>1, BallIs
<1>4. call.nodes = Ball(c, call, m + 1) /\ call.edges = EdgesFrom(c, call, Ball(c, call, m))
  BY <1>2, <1>3 DEF Level
<1>5. \A item \in call.queue : item.depth = m + 1
  <2>1. \A item \in call.queue : item.depth # m
    BY DEF At
  <2> QED BY <2>1 DEF Level
<1>6. ASSUME m + 1 < Limit PROVE Level(c, m + 1)
  <2>1. At(m + 1) = Ball(c, call, m + 1) \ Ball(c, call, m)
    BY <1>4, <1>6 DEF Level
  <2>2. Ball(c, call, m) \subseteq Ball(c, call, m + 1)
    BY <1>1, BallGrows
  <2>3. Expanded(c, m + 1) = Ball(c, call, m)
    BY <2>1, <2>2 DEF Expanded
  <2>4. Ball(c, call, m + 1) \subseteq Ball(c, call, (m + 1) + 1)
    BY <1>1, BallGrows
  <2>5. At((m + 1) + 1) = {}
    <3>1. (m + 1) + 1 # m + 1
      BY <1>1
    <3> QED BY <1>5, <3>1 DEF At
  <2>6. \A item \in call.queue : item.depth \in {m + 1, (m + 1) + 1}
    BY <1>5
  <2> QED BY <1>3, <1>4, <2>1, <2>3, <2>4, <2>5, <2>6 DEF Level
<1> QED BY <1>4, <1>5, <1>6

\* The walk is over and nothing was cut off.
LEMMA LevelEnds ==
    ASSUME CallTyped, call.op = "traverse", NEW c \in Catalogues,
           NEW m \in 0..Limit - 1, Level(c, m), call.queue = {}
    PROVE  /\ call.nodes = Ball(c, call, Limit)
           /\ call.edges = EdgesFrom(c, call, Ball(c, call, Limit - 1))
<1>1. m \in Nat /\ Limit \in 1..MaxDepth /\ Limit \in Nat /\ Limit - 1 \in Nat
  BY DepthLimitIs, ReadsAssumption DEF CallTyped, Limit, ReadsAssumption
<1>2. At(m) = {} /\ At(m + 1) = {}
  BY DEF At
<1>3. /\ call.nodes = Ball(c, call, m + 1)
      /\ call.edges = EdgesFrom(c, call, Ball(c, call, m))
  BY <1>2, NextLevel
<1>4. CASE m + 1 < Limit
  <2>1. call.nodes \subseteq Ball(c, call, m)
    BY <1>2, <1>4 DEF Level
  <2>2. Ball(c, call, m) \subseteq Ball(c, call, m + 1)
    BY <1>1, BallGrows
  <2>3. Ball(c, call, m + 1) = Ball(c, call, m)
    BY <1>3, <2>1, <2>2
  <2>4. m <= Limit /\ m <= Limit - 1
    BY <1>1, <1>4
  <2>5. Ball(c, call, Limit) = Ball(c, call, m) /\ Ball(c, call, Limit - 1) = Ball(c, call, m)
    BY <1>1, <2>3, <2>4, BallStays
  <2> QED BY <1>3, <2>3, <2>5
<1>5. CASE ~(m + 1 < Limit)
  <2>1. m + 1 = Limit /\ m = Limit - 1
    BY <1>1, <1>5
  <2> QED BY <1>3, <2>1
<1> QED BY <1>4, <1>5

\* The step of a traversal, field by field.
FoundAt(item) == RelationEdges(store, call.type, item.fqn, call.direction)
NewAt(item) == {Far(e, item.fqn) : e \in FoundAt(item)} \ call.nodes
Queued(item, kept) ==
    {[fqn |-> f, depth |-> item.depth + 1] : f \in IF item.depth + 1 < Limit THEN kept ELSE {}}

\* "item" is walked and "kept" of what is new there fits.
Walked(item, kept) ==
    /\ item \in call.queue /\ \A other \in call.queue : item.depth <= other.depth
    /\ kept \in Kept(NewAt(item), MaxNodes - Cardinality(call.nodes))
    /\ call'.op = "traverse" /\ call'.pc = "walk" /\ call'.error = call.error
    /\ call'.seen = call.seen \cup {store}
    /\ call'.on = call.on /\ call'.type = call.type /\ call'.direction = call.direction
    /\ call'.asked = call.asked
    /\ call'.nodes = call.nodes \cup kept
    /\ call'.edges = call.edges \cup {e \in FoundAt(item) : Far(e, item.fqn) \in call'.nodes}
    /\ call'.queue = (call.queue \ {item}) \cup Queued(item, kept)
    /\ call'.truncated = (call.truncated \/ kept # NewAt(item))

LEMMA WalkFields ==
    ASSUME CallTyped, WalkNode
    PROVE  /\ call.op = "traverse" /\ call.pc = "walk"
           /\ \E item, kept : Walked(item, kept)
<1>1. call.pc = "walk" /\ call.op = "traverse" /\ TraverseFields \subseteq DOMAIN call
      /\ {"op", "pc", "seen", "error"} \subseteq DOMAIN call
  BY DEF WalkNode, Busy, CallTyped
<1> DEFINE After(item, kept) ==
              [call EXCEPT
                    !.nodes = @ \cup kept,
                    !.edges = @ \cup {e \in FoundAt(item) :
                                        Far(e, item.fqn) \in call.nodes \cup kept},
                    !.queue = (@ \ {item}) \cup Queued(item, kept),
                    !.truncated = @ \/ kept # NewAt(item)]
<1>2. \E item \in call.queue :
        /\ \A other \in call.queue : item.depth <= other.depth
        /\ \E kept \in Kept(NewAt(item), MaxNodes - Cardinality(call.nodes)) :
              Reads(After(item, kept))
  BY Zenon DEF WalkNode, FoundAt, NewAt, Queued, Limit
<1>3. PICK item \in call.queue :
        /\ \A other \in call.queue : item.depth <= other.depth
        /\ \E kept \in Kept(NewAt(item), MaxNodes - Cardinality(call.nodes)) :
              Reads(After(item, kept))
  BY <1>2
<1>4. PICK kept \in Kept(NewAt(item), MaxNodes - Cardinality(call.nodes)) :
        call' = [After(item, kept) EXCEPT !.seen = @ \cup {store}]
  BY <1>3, Zenon DEF Reads
<1> DEFINE edges == {e \in FoundAt(item) : Far(e, item.fqn) \in call.nodes \cup kept}
           cut   == kept # NewAt(item)
<1>5. call' = [[call EXCEPT !.nodes = @ \cup kept, !.edges = @ \cup edges,
                    !.queue = (@ \ {item}) \cup Queued(item, kept), !.truncated = @ \/ cut]
                        EXCEPT !.seen = @ \cup {store}]
  BY <1>4
<1> HIDE DEF edges, cut
<1>6. /\ call'.op = "traverse" /\ call'.pc = "walk" /\ call'.error = call.error
      /\ call'.seen = call.seen \cup {store}
      /\ call'.on = call.on /\ call'.type = call.type /\ call'.direction = call.direction
      /\ call'.asked = call.asked
      /\ call'.nodes = call.nodes \cup kept
      /\ call'.edges = call.edges \cup edges
      /\ call'.queue = (call.queue \ {item}) \cup Queued(item, kept)
      /\ call'.truncated = (call.truncated \/ cut)
  BY <1>1, <1>5 DEF TraverseFields
<1>7. call'.edges = call.edges \cup {e \in FoundAt(item) : Far(e, item.fqn) \in call'.nodes}
  BY <1>6 DEF edges
<1>8. Walked(item, kept)
  BY <1>3, <1>6, <1>7 DEF Walked, cut
<1> QED BY <1>1, <1>8

\* What a step finds and keeps.
LEMMA KeptAt ==
    ASSUME store \in Catalogues, Walking, NEW item, NEW kept, Walked(item, kept)
    PROVE  /\ kept \subseteq NewAt(item) /\ IsFiniteSet(call.nodes \cup kept)
           /\ Cardinality(call.nodes \cup kept) <= MaxNodes
           /\ kept # NewAt(item) => Cardinality(call.nodes \cup kept) = MaxNodes
           /\ Cardinality(call.nodes) = MaxNodes => kept = {}
<1>1. /\ IsFiniteSet(call.nodes) /\ Cardinality(call.nodes) \in Nat
      /\ Cardinality(call.nodes) <= MaxNodes /\ MaxNodes \in Nat
  BY FS_CardinalityType, ReadsAssumption DEF Walking, ReadsAssumption
<1>2. IsFiniteSet(NewAt(item))
  <2>1. \A e \in FoundAt(item) : Far(e, item.fqn) \in Live(store) /\ IsFiniteSet(Live(store))
    BY EndsAre DEF FoundAt
  <2>2. CASE FoundAt(item) = {}
    <3>1. NewAt(item) = {}
      BY <2>2 DEF NewAt
    <3> QED BY <3>1, FS_EmptySet
  <2>3. CASE FoundAt(item) # {}
    <3>1. NewAt(item) \in SUBSET Live(store) /\ IsFiniteSet(Live(store))
      BY <2>1, <2>3 DEF NewAt
    <3> QED BY <3>1, FS_Subset
  <2> QED BY <2>2, <2>3
<1>3. MaxNodes - Cardinality(call.nodes) \in Nat
  BY <1>1
<1>4. kept \in Kept(NewAt(item), MaxNodes - Cardinality(call.nodes))
  BY DEF Walked
<1>5. /\ kept \subseteq NewAt(item) /\ IsFiniteSet(kept)
      /\ Cardinality(kept) \in Nat /\ Cardinality(kept) <= MaxNodes - Cardinality(call.nodes)
      /\ kept = NewAt(item) \/ Cardinality(kept) = MaxNodes - Cardinality(call.nodes)
  BY <1>2, <1>3, <1>4, KeptIs
<1>6. call.nodes \cap kept = {} /\ Cardinality({}) = 0
  BY <1>5, FS_EmptySet DEF NewAt
<1>7. /\ IsFiniteSet(call.nodes \cup kept)
      /\ Cardinality(call.nodes \cup kept) =
            Cardinality(call.nodes) + Cardinality(kept)
  <2>1. /\ IsFiniteSet(call.nodes \cup kept)
        /\ Cardinality(call.nodes \cup kept) =
              Cardinality(call.nodes) + Cardinality(kept) - Cardinality(call.nodes \cap kept)
    BY <1>1, <1>5, FS_Union
  <2> QED BY <1>1, <1>5, <1>6, <2>1
<1>8. Cardinality(call.nodes) = MaxNodes => kept = {}
  <2>1. Cardinality(call.nodes) = MaxNodes => Cardinality(kept) = 0
    BY <1>1, <1>5
  <2>2. Cardinality(kept) = 0 <=> kept = {}
    BY <1>5, FS_EmptySet, Zenon
  <2> QED BY <2>1, <2>2, Zenon
<1> QED BY <1>1, <1>5, <1>7, <1>8

\* A level stays one while an item of it is walked and nothing is cut off.
LEMMA LevelStays ==
    ASSUME CallTyped, call.op = "traverse", Walking, NEW c, c = store,
           NEW item, NEW kept, Walked(item, kept),
           NEW m \in 0..Limit - 1, Level(c, m), item.depth = m, kept = NewAt(item)
    PROVE  Level(c, m)'
<1> DEFINE f == item.fqn
           S == Expanded(c, m)
<1>1. /\ m \in Nat /\ Limit \in 1..MaxDepth /\ Limit \in Nat /\ m + 1 \in Nat
      /\ MaxDepth \in Nat
  BY DepthLimitIs, ReadsAssumption DEF CallTyped, Limit, ReadsAssumption
<1>2. Limit' = Limit
  BY DEF Limit, Walked
<1>3. \A n \in Nat : Ball(c, call', n) = Ball(c, call, n)
  BY BallSame DEF Walked
<1>4. /\ f \in At(m) /\ f \in Ball(c, call, m) /\ f \in call.nodes
      /\ item \in call.queue /\ item = [fqn |-> f, depth |-> m]
  BY DEF Walked, At, Level, Walking
<1>5. /\ call'.queue = (call.queue \ {item}) \cup Queued(item, kept)
      /\ call'.nodes = call.nodes \cup kept
  BY DEF Walked
<1>6. \A next \in Queued(item, kept) : next.depth = m + 1 /\ next.fqn \in kept /\ m + 1 < Limit
  BY DEF Queued
<1>7. At(m)' = At(m) \ {f}
  <2>1. At(m)' = {next.fqn : next \in {other \in call'.queue : other.depth = m}}
    BY DEF At
  <2>2. \A next \in call'.queue : next.depth = m => next \in call.queue /\ next # item
    BY <1>1, <1>4, <1>5, <1>6
  <2>3. \A next \in call.queue : next.depth = m /\ next.fqn # f => next \in call'.queue
    BY <1>5
  <2>4. \A next \in call.queue : next.depth = m /\ next # item => next.fqn # f
    BY <1>4 DEF Walking
  <2> QED BY <2>1, <2>2, <2>3, <2>4 DEF At
<1>8. At(m + 1)' = At(m + 1) \cup (IF m + 1 < Limit THEN kept ELSE {})
  <2>1. At(m + 1)' = {next.fqn : next \in {other \in call'.queue : other.depth = m + 1}}
    BY DEF At
  <2>2. \A next \in call.queue : next.depth = m + 1 => next \in call'.queue
    BY <1>1, <1>5
  <2>3. \A next \in call'.queue : next \in call.queue \/ next \in Queued(item, kept)
    BY <1>5
  <2>4. \A g \in kept : m + 1 < Limit =>
            [fqn |-> g, depth |-> m + 1] \in Queued(item, kept)
    BY DEF Queued
  <2>5. At(m + 1)' \subseteq At(m + 1) \cup (IF m + 1 < Limit THEN kept ELSE {})
    BY <1>6, <2>1, <2>3 DEF At
  <2>6. At(m + 1) \subseteq At(m + 1)'
    BY <2>1, <2>2 DEF At
  <2>7. m + 1 < Limit => kept \subseteq At(m + 1)'
    <3> SUFFICES ASSUME m + 1 < Limit, NEW g \in kept PROVE g \in At(m + 1)'
      OBVIOUS
    <3>1. [fqn |-> g, depth |-> m + 1] \in call'.queue
      BY <1>5, <2>4
    <3> QED BY <2>1, <3>1
  <2> QED BY <2>5, <2>6, <2>7
<1>9. Expanded(c, m)' = S \cup {f}
  <2>1. Expanded(c, m)' = Ball(c, call', m) \ At(m)'
    BY DEF Expanded
  <2> QED BY <1>1, <1>3, <1>4, <1>7, <2>1 DEF Expanded
<1> DEFINE found == RelationEdges(c, call.type, f, call.direction)
           ends  == {Far(e, f) : e \in found}
<1>10. /\ FoundAt(item) = found /\ kept = ends \ call.nodes
       /\ call'.edges = call.edges \cup {e \in found : Far(e, f) \in call'.nodes}
  BY DEF Walked, FoundAt, NewAt
<1>11. ends \subseteq call'.nodes /\ call'.edges = call.edges \cup found
  BY <1>5, <1>10
<1>12. /\ Wider(c, call, S \cup {f}) = Wider(c, call, S) \cup {f} \cup ends
       /\ EdgesFrom(c, call, S \cup {f}) = EdgesFrom(c, call, S) \cup found
  <2> HIDE DEF S
  <2>1. EdgesFrom(c, call, S \cup {f}) = EdgesFrom(c, call, S) \cup found
    BY DEF EdgesFrom
  <2>2. Wider(c, call, S \cup {f}) = Wider(c, call, S) \cup {f} \cup ends
    BY DEF Wider
  <2> QED BY <2>1, <2>2
<1>13. \A T : /\ Wider(c, call', T) = Wider(c, call, T)
             /\ EdgesFrom(c, call', T) = EdgesFrom(c, call, T)
  BY DEF Walked, Wider, EdgesFrom
<1>14. ends \subseteq Ball(c, call, m + 1) /\ Ball(c, call, m) \subseteq Ball(c, call, m + 1)
  <2>1. Ball(c, call, m + 1) = Wider(c, call, Ball(c, call, m))
    BY <1>1, BallIs
  <2> QED BY <1>4, <2>1 DEF Wider
<1> HIDE DEF found, ends, S
<1>15. \A next \in call'.queue : next.depth \in {m, m + 1}
  BY <1>5, <1>6 DEF Level
<1>16. At(m)' \subseteq Ball(c, call', m)
  BY <1>1, <1>3, <1>7 DEF Level
<1>17. Ball(c, call', m) \subseteq call'.nodes /\ call'.nodes \subseteq Ball(c, call', m + 1)
  BY <1>1, <1>3, <1>5, <1>10, <1>14 DEF Level
<1>18. Wider(c, call', Expanded(c, m)') \subseteq call'.nodes
  BY <1>4, <1>5, <1>9, <1>11, <1>12, <1>13 DEF Level, S
<1>19. call'.edges = EdgesFrom(c, call', Expanded(c, m)')
  BY <1>9, <1>11, <1>12, <1>13 DEF Level, S
<1>20. At(m + 1)' = IF m + 1 < Limit' THEN call'.nodes \ Ball(c, call', m) ELSE {}
  <2>1. kept \cap Ball(c, call, m) = {}
    BY <1>10 DEF Level
  <2> QED BY <1>1, <1>2, <1>3, <1>5, <1>8, <2>1 DEF Level
<1> QED BY <1>15, <1>16, <1>17, <1>18, <1>19, <1>20 DEF Level

\* An item of least depth stands on a level of its own depth.
LEMMA LevelOf ==
    ASSUME CallTyped, call.op = "traverse", Walking, NEW c \in Catalogues,
           NEW m \in 0..Limit - 1, Level(c, m),
           NEW item \in call.queue, \A other \in call.queue : item.depth <= other.depth
    PROVE  item.depth \in 0..Limit - 1 /\ Level(c, item.depth)
<1>1. /\ m \in Nat /\ Limit \in 1..MaxDepth /\ Limit \in Nat /\ MaxDepth \in Nat
      /\ item.depth \in 0..Limit - 1 /\ item.depth \in Nat
  BY DepthLimitIs, ReadsAssumption DEF CallTyped, Limit, ReadsAssumption, Walking
<1>2. CASE item.depth = m
  BY <1>1, <1>2
<1>3. CASE item.depth # m
  <2>1. item.depth = m + 1 /\ m + 1 < Limit
    BY <1>1, <1>3 DEF Level
  <2>2. At(m) = {}
    <3>1. \A other \in call.queue : other.depth # m
      BY <1>1, <2>1
    <3> QED BY <3>1 DEF At
  <2> QED BY <1>1, <2>1, <2>2, NextLevel
<1> QED BY <1>2, <1>3

LEMMA WalkedOf ==
    ASSUME CallTyped, call.op = "traverse", Walking, store \in Catalogues,
           NEW c, c = store, WalkOf(c), NEW item, NEW kept, Walked(item, kept)
    PROVE  WalkOf(c)'
<1>1. /\ Limit \in 1..MaxDepth /\ Limit \in Nat /\ MaxDepth \in Nat
      /\ item \in call.queue /\ item.depth \in 0..Limit - 1
      /\ item.depth \in Nat /\ item.depth + 1 \in Nat
  BY DepthLimitIs, ReadsAssumption DEF CallTyped, Limit, ReadsAssumption, Walking, Walked
<1>2. Limit' = Limit
  BY DEF Limit, Walked
<1>3. \A n \in Nat : Ball(c, call', n) = Ball(c, call, n)
  BY BallSame DEF Walked
<1>4. /\ kept \subseteq NewAt(item)
      /\ kept # NewAt(item) => Cardinality(call.nodes \cup kept) = MaxNodes
      /\ Cardinality(call.nodes) = MaxNodes => kept = {}
  BY KeptAt
<1>5. kept \subseteq Ball(c, call, item.depth + 1)
  <2>1. Ball(c, call, item.depth + 1) = Wider(c, call, Ball(c, call, item.depth))
    BY <1>1, BallIs
  <2>2. item.fqn \in Ball(c, call, item.depth)
    BY <1>1 DEF WalkOf
  <2>3. {Far(e, item.fqn) : e \in RelationEdges(c, call.type, item.fqn, call.direction)}
            \subseteq Ball(c, call, item.depth + 1)
    BY <2>1, <2>2 DEF Wider
  <2>4. NewAt(item) \subseteq Ball(c, call, item.depth + 1)
    BY <2>3 DEF NewAt, FoundAt
  <2> QED BY <1>4, <2>4
<1>6. Ball(c, call, item.depth + 1) \subseteq Ball(c, call, Limit)
  BY <1>1, BallGrows
<1>7. call'.nodes \subseteq Ball(c, call', Limit')
  BY <1>1, <1>2, <1>3, <1>5, <1>6 DEF WalkOf, Walked
<1>8. \A next \in call'.queue : next.fqn \in Ball(c, call', next.depth)
  <2> SUFFICES ASSUME NEW next \in call'.queue PROVE next.fqn \in Ball(c, call', next.depth)
    OBVIOUS
  <2>1. CASE next \in call.queue
    <3>1. next.depth \in Nat
      BY <1>1, <2>1 DEF Walking
    <3> QED BY <1>3, <2>1, <3>1 DEF WalkOf
  <2>2. CASE next \in Queued(item, kept)
    <3>1. next.fqn \in kept /\ next.depth = item.depth + 1
      BY <2>2 DEF Queued
    <3> QED BY <1>1, <1>3, <1>5, <3>1
  <2> QED BY <2>1, <2>2 DEF Walked
<1>9. WholeOrFull(c)'
  <2>0. /\ call'.nodes = call.nodes \cup kept
        /\ call'.truncated = (call.truncated \/ kept # NewAt(item))
    BY DEF Walked
  <2>1. CASE kept # NewAt(item)
    <3>1. Cardinality(call'.nodes) = MaxNodes
      BY <1>4, <2>0, <2>1
    <3>2. call'.truncated
      BY <2>0, <2>1
    <3> QED BY <3>1, <3>2 DEF WholeOrFull
  <2>2. CASE kept = NewAt(item) /\ \E m \in 0..Limit - 1 : Level(c, m) /\
                call.truncated = (call.asked > MaxDepth)
    <3>1. PICK m \in 0..Limit - 1 : Level(c, m)
      BY <2>2
    <3>2. Level(c, item.depth)
      BY <3>1, LevelOf DEF Walked
    <3>3. Level(c, item.depth)'
      BY <1>1, <2>2, <3>2, LevelStays
    <3>4. call'.truncated = (call'.asked > MaxDepth)
      BY <2>2 DEF Walked, Walking
    <3>5. item.depth \in 0..Limit' - 1
      BY <1>1, <1>2
    <3> QED BY <3>3, <3>4, <3>5 DEF WholeOrFull
  <2>3. CASE call.truncated /\ Cardinality(call.nodes) = MaxNodes
    <3>1. call'.nodes = call.nodes
      BY <1>4, <2>0, <2>3
    <3>2. call'.truncated
      BY <2>0, <2>3
    <3> QED BY <2>3, <3>1, <3>2 DEF WholeOrFull
  <2> QED BY <2>1, <2>2, <2>3 DEF WalkOf, WholeOrFull
<1> QED BY <1>7, <1>8, <1>9 DEF WalkOf

LEMMA WalkInv ==
    ASSUME CallTyped, TraverseInv, store \in Catalogues, WalkNode
    PROVE  TraverseInv'
<1>1. call.op = "traverse" /\ call.pc = "walk"
  BY WalkFields
<1>2. Walking /\ call.error = "none"
  BY <1>1 DEF TraverseInv
<1>3. PICK item, kept : Walked(item, kept)
  BY WalkFields
<1>4. /\ Limit \in 1..MaxDepth /\ Limit \in Nat /\ MaxDepth \in Nat /\ Limit' = Limit
      /\ item \in call.queue /\ item.depth \in 0..Limit - 1 /\ item.fqn \in call.nodes
  BY <1>1, <1>2, <1>3, DepthLimitIs, ReadsAssumption
  DEF CallTyped, Limit, ReadsAssumption, Walking, Walked
<1>5. /\ call'.op = "traverse" /\ call'.pc = "walk" /\ call'.error = "none"
      /\ call'.seen = call.seen \cup {store} /\ call'.nodes = call.nodes \cup kept
      /\ call'.edges = call.edges \cup {e \in FoundAt(item) : Far(e, item.fqn) \in call'.nodes}
      /\ call'.queue = (call.queue \ {item}) \cup Queued(item, kept)
      /\ call'.truncated = (call.truncated \/ kept # NewAt(item))
  BY <1>2, <1>3 DEF Walked
<1>6. \A next \in Queued(item, kept) :
        /\ next = [fqn |-> next.fqn, depth |-> next.depth]
        /\ next.depth = item.depth + 1 /\ item.depth + 1 < Limit /\ next.fqn \in kept
  BY DEF Queued
<1>7. \A next \in call'.queue : /\ next = [fqn |-> next.fqn, depth |-> next.depth]
                                /\ next.depth \in 0..Limit - 1 /\ next.fqn \in call'.nodes
  <2> SUFFICES ASSUME NEW next \in call'.queue
               PROVE  /\ next = [fqn |-> next.fqn, depth |-> next.depth]
                      /\ next.depth \in 0..Limit - 1 /\ next.fqn \in call'.nodes
    OBVIOUS
  <2>1. CASE next \in call.queue
    BY <1>2, <1>5, <2>1 DEF Walking
  <2>2. CASE next \in Queued(item, kept)
    BY <1>4, <1>5, <1>6, <2>2
  <2> QED BY <1>5, <2>1, <2>2
<1>8. IsFiniteSet(call'.nodes) /\ Cardinality(call'.nodes) <= MaxNodes
  BY <1>2, <1>3, <1>5, KeptAt
<1>9. \A e \in FoundAt(item) : /\ {e.src, e.dst} = {item.fqn, Far(e, item.fqn)}
                               /\ e \in store.edges /\ Far(e, item.fqn) \in Live(store)
  BY EndsAre DEF FoundAt
<1>10. \A e \in call'.edges : /\ {e.src, e.dst} \subseteq call'.nodes
                              /\ \E c \in call'.seen : e \in c.edges
  <2> SUFFICES ASSUME NEW e \in call'.edges
               PROVE  /\ {e.src, e.dst} \subseteq call'.nodes
                      /\ \E c \in call'.seen : e \in c.edges
    OBVIOUS
  <2>1. CASE e \in call.edges
    BY <1>2, <1>5, <2>1 DEF Walking
  <2>2. CASE e \in FoundAt(item) /\ Far(e, item.fqn) \in call'.nodes
    BY <1>4, <1>5, <1>9, <2>2
  <2> QED BY <1>5, <2>1, <2>2
<1>11. ASSUME NEW c \in Catalogues, call'.seen \subseteq {c}
       PROVE  WalkOf(c)' /\ call'.nodes \subseteq Live(c)
  <2>1. c = store /\ call.seen \subseteq {c}
    BY <1>5, <1>11
  <2>2. WalkOf(c) /\ call.nodes \subseteq Live(c)
    BY <1>1, <1>2, <2>1 DEF Walking
  <2>3. WalkOf(c)'
    BY <1>1, <1>2, <1>3, <2>1, <2>2, WalkedOf
  <2>4. NewAt(item) \subseteq Live(c)
    BY <1>9, <2>1 DEF NewAt
  <2>5. kept \subseteq NewAt(item)
    BY <1>2, <1>3, KeptAt
  <2> QED BY <1>5, <2>2, <2>3, <2>4, <2>5
<1>12. call'.truncated \in BOOLEAN
  BY <1>2, <1>5 DEF Walking
<1>13. Walking'
  BY <1>4, <1>5, <1>7, <1>8, <1>10, <1>11, <1>12 DEF Walking
<1> QED BY <1>5, <1>13 DEF TraverseInv, TraversalIsSubgraph, Done

\* A traversal begins at one node.
LEMMA BeginInv == ASSUME StartTraverse PROVE TraverseInv'
<1>1. PICK f \in Fqn, type \in Type, direction \in {"out", "in", "both"}, asked \in Depths :
        call' = [op |-> "traverse", on |-> f, pc |-> "entity", seen |-> {}, error |-> "none",
                 type |-> type, direction |-> direction, asked |-> asked,
                 nodes |-> {f}, edges |-> {}, queue |-> {[fqn |-> f, depth |-> 0]},
                 truncated |-> asked > MaxDepth, listed |-> {}]
  BY DEF StartTraverse
<1>2. asked \in Nat /\ MaxDepth \in Nat /\ MaxNodes \in Nat \ {0}
  BY ReadsAssumption DEF ReadsAssumption
<1>3. /\ call'.op = "traverse" /\ call'.pc = "entity" /\ call'.error = "none"
      /\ call'.seen = {} /\ call'.on = f /\ call'.nodes = {f} /\ call'.edges = {}
      /\ call'.queue = {[fqn |-> f, depth |-> 0]} /\ call'.asked = asked
      /\ call'.truncated = (asked > MaxDepth)
  BY <1>1
<1>4. Limit' \in 1..MaxDepth
  BY <1>2, <1>3, DepthLimitIs DEF Limit
<1>5. IsFiniteSet(call'.nodes) /\ Cardinality(call'.nodes) <= MaxNodes
  <2>1. IsFiniteSet({f}) /\ Cardinality({f}) = 1
    BY FS_Singleton, Zenon
  <2> QED BY <1>2, <1>3, <2>1
<1>6. ASSUME NEW c \in Catalogues PROVE WalkOf(c)'
  <2>1. /\ Ball(c, call', 0) = {f}
        /\ Ball(c, call', 0) \subseteq Ball(c, call', 1)
        /\ Ball(c, call', 0) \subseteq Ball(c, call', Limit')
    BY <1>2, <1>3, <1>4, BallIs, BallGrows
  <2>2. At(0)' = {f} /\ At(1)' = {}
    <3>1. \A item \in call'.queue : item.fqn = f /\ item.depth = 0
      BY <1>3
    <3>2. \E item \in call'.queue : item.fqn = f /\ item.depth = 0
      BY <1>3
    <3> QED BY <3>1, <3>2 DEF At
  <2>3. Expanded(c, 0)' = {}
    BY <2>1, <2>2 DEF Expanded
  <2>4. Wider(c, call', {}) = {} /\ EdgesFrom(c, call', {}) = {}
    BY DEF Wider, EdgesFrom
  <2>5. Level(c, 0)'
    BY <1>3, <2>1, <2>2, <2>3, <2>4 DEF Level
  <2>6. WholeOrFull(c)'
    <3>1. 0 \in 0..Limit' - 1
      <4>1. \A l \in 1..MaxDepth : 0 \in 0..l - 1
        BY <1>2
      <4> QED BY <1>4, <4>1, Zenon
    <3>2. call'.truncated = (call'.asked > MaxDepth)
      BY <1>3
    <3> QED BY <2>5, <3>1, <3>2, Zenon DEF WholeOrFull
  <2> QED BY <1>3, <2>1, <2>6 DEF WalkOf
<1>7. Walking'
  BY <1>2, <1>3, <1>4, <1>5, <1>6 DEF Walking
<1> QED BY <1>3, <1>7 DEF TraverseInv, TraversalIsSubgraph, Done

\* Its start is an entity that is live.
LEMMA EntityInv ==
    ASSUME CallTyped, TraverseInv, store \in Catalogues, ReadEntity
    PROVE  TraverseInv'
<1>1. CASE call.op # "traverse"
  <2>1. call'.op # "traverse"
    BY <1>1 DEF ReadEntity, Reads, Fail, CallTyped
  <2> QED BY <2>1 DEF TraverseInv, TraversalIsSubgraph, Done
<1>2. CASE call.op = "traverse"
  <2>1. call.pc = "entity" /\ Walking /\ call.error = "none"
    BY <1>2 DEF ReadEntity, Busy, TraverseInv
  <2>2. CASE call'.pc = "done" /\ call'.error # "none"
    BY <2>2 DEF TraverseInv, TraversalIsSubgraph, Done
  <2>3. CASE call.on \in Live(store) /\ Reads([call EXCEPT !.pc = "walk"])
    <3>1. /\ call'.op = "traverse" /\ call'.pc = "walk" /\ call'.error = "none"
          /\ call'.seen = call.seen \cup {store}
          /\ call'.on = call.on /\ call'.type = call.type
          /\ call'.direction = call.direction /\ call'.asked = call.asked
          /\ call'.nodes = call.nodes /\ call'.edges = call.edges
          /\ call'.queue = call.queue /\ call'.truncated = call.truncated
      BY <1>2, <2>1, <2>3 DEF Reads, CallTyped, TraverseFields
    <3>2. ASSUME NEW c \in Catalogues, call'.seen \subseteq {c}
          PROVE  WalkOf(c)' /\ call'.nodes \subseteq Live(c)
      <4>1. WalkOf(c) /\ call.nodes = {call.on} /\ c = store
        BY <2>1, <3>1, <3>2 DEF Walking
      <4>2. \A n \in Nat : Ball(c, call', n) = Ball(c, call, n)
        BY <3>1, BallSame
      <4>3. /\ Limit' = Limit /\ Limit \in 1..MaxDepth /\ Limit \in Nat /\ MaxDepth \in Nat
        BY <1>2, <3>1, DepthLimitIs, ReadsAssumption DEF CallTyped, Limit, ReadsAssumption
      <4>4. \A S : /\ Wider(c, call', S) = Wider(c, call, S)
                   /\ EdgesFrom(c, call', S) = EdgesFrom(c, call, S)
        BY <3>1 DEF Wider, EdgesFrom
      <4>5. \A d : At(d)' = At(d)
        BY <3>1 DEF At
      <4>6. ASSUME NEW m \in 0..Limit - 1, Level(c, m) PROVE Level(c, m)'
        <5>1. m \in Nat /\ m + 1 \in Nat
          BY <4>3
        <5>2. Expanded(c, m)' = Expanded(c, m)
          BY <4>2, <4>5, <5>1 DEF Expanded
        <5> QED BY <3>1, <4>2, <4>3, <4>4, <4>5, <4>6, <5>1, <5>2 DEF Level
      <4>7. WholeOrFull(c)'
        BY <3>1, <4>1, <4>3, <4>6 DEF WalkOf, WholeOrFull
      <4>8. \A item \in call.queue : item.depth \in Nat
        BY <2>1, <4>3 DEF Walking
      <4> QED BY <2>3, <3>1, <4>1, <4>2, <4>3, <4>7, <4>8 DEF WalkOf
    <3>3. Limit' = Limit
      BY <3>1 DEF Limit
    <3>4. Walking'
      BY <2>1, <3>1, <3>2, <3>3 DEF Walking
    <3> QED BY <3>1, <3>4 DEF TraverseInv, TraversalIsSubgraph, Done
  <2> QED BY <1>2, <2>2, <2>3 DEF ReadEntity, Reads, Fail, CallTyped
<1> QED BY <1>1, <1>2

\* The walk is over.
LEMMA ListInv ==
    ASSUME CallTyped, TraverseInv, store \in Catalogues, ListNodes
    PROVE  TraverseInv'
<1>1. /\ call.op = "traverse" /\ call.pc = "walk" /\ call.queue = {}
      /\ Walking /\ call.error = "none"
  BY DEF ListNodes, Busy, CallTyped, TraverseInv
<1>2. /\ call'.op = "traverse" /\ call'.pc = "done" /\ call'.error = "none"
      /\ call'.seen = call.seen \cup {store}
      /\ call'.on = call.on /\ call'.type = call.type
      /\ call'.direction = call.direction /\ call'.asked = call.asked
      /\ call'.nodes = call.nodes /\ call'.edges = call.edges
      /\ call'.truncated = call.truncated
      /\ call'.listed = call.nodes \cap Live(store)
  BY <1>1 DEF ListNodes, Reads, CallTyped, TraverseFields
<1>3. ASSUME NEW c \in Catalogues, Undisturbed(c)'
      PROVE  LET depth == Limit IN
             /\ call'.listed = call'.nodes
             /\ call'.nodes \subseteq Ball(c, call', depth)
             /\ \/ /\ call'.nodes = Ball(c, call', depth)
                   /\ call'.edges = EdgesFrom(c, call', Ball(c, call', depth - 1))
                   /\ call'.truncated = (call'.asked > MaxDepth)
                \/ call'.truncated /\ Cardinality(call'.nodes) = MaxNodes
  <2>1. c = store /\ call.seen \subseteq {c}
    BY <1>2, <1>3 DEF Undisturbed
  <2>2. WalkOf(c) /\ call.nodes \subseteq Live(c)
    BY <1>1, <2>1 DEF Walking
  <2>3. \A n \in Nat : Ball(c, call', n) = Ball(c, call, n)
    BY <1>2, BallSame
  <2>4. Limit \in Nat /\ Limit - 1 \in Nat
    BY <1>1, DepthLimitIs, ReadsAssumption DEF CallTyped, Limit, ReadsAssumption
  <2>5. \A S : EdgesFrom(c, call', S) = EdgesFrom(c, call, S)
    BY <1>2 DEF EdgesFrom
  <2>6. ASSUME NEW m \in 0..Limit - 1, Level(c, m)
        PROVE  /\ call.nodes = Ball(c, call, Limit)
               /\ call.edges = EdgesFrom(c, call, Ball(c, call, Limit - 1))
    BY <1>1, <2>6, LevelEnds
  <2> QED BY <1>2, <2>1, <2>2, <2>3, <2>4, <2>5, <2>6 DEF WalkOf, WholeOrFull
<1>4. DepthLimit(call'.asked) = Limit
  BY <1>2 DEF Limit
<1>5. TraversalIsSubgraph'
  BY <1>1, <1>2, <1>3, <1>4 DEF TraversalIsSubgraph, Walking
<1> QED BY <1>2, <1>5 DEF TraverseInv

-----------------------------------------------------------------------------
(* The answers of the other tools.                                         *)

\* Which tool takes which steps, and what its call keeps.
ToolShape ==
    /\ call.pc \in {"keyword", "vector", "hits"} => call.op = "search"
    /\ call.pc = "values" => call.op \in {"enums", "detail"}
    /\ call.pc = "count" => call.op = "enums"
    /\ call.pc = "edges" => call.op = "detail"
    /\ call.pc \in {"tables", "times"} => call.op = "metric"
    /\ call.op = "search" =>
          /\ call.pc \in {"keyword", "vector", "hits", "done"}
          /\ {"on", "kw", "vec", "ranked", "hits"} \subseteq DOMAIN call
    /\ call.op = "enums" =>
          /\ call.pc \in {"entity", "values", "count", "done"}
          /\ {"on", "values", "truncated", "total"} \subseteq DOMAIN call
    /\ call.op = "detail" =>
          /\ call.pc \in {"entity", "values", "edges", "done"}
          /\ {"on", "values", "truncated", "edges", "relTruncated"} \subseteq DOMAIN call
    /\ call.op = "metric" =>
          /\ call.pc \in {"entity", "tables", "times", "done"}
          /\ {"on", "ranged", "tables", "todo", "timed", "notes"} \subseteq DOMAIN call
          /\ call.pc \in {"entity", "tables"} => call.timed = {}

\* What a tool holds before its last statement, when it read one version.
Halfway ==
    /\ call.pc = "times" => call.todo \subseteq call.tables /\ call.todo # {}
    /\ call.pc = "hits" => /\ call.ranked \in Seq(Range(call.ranked))
                           /\ IsInjective(call.ranked)
    /\ \A c \in Catalogues : call.seen \subseteq {c} =>
          /\ call.pc = "count" =>
                LET all == Cardinality(EnumValuesFor(c, call.on)) IN
                /\ call.truncated = (all > EnumLimit)
                /\ Cardinality(call.values) = Capped(all, EnumLimit)
          /\ call.pc = "times" =>
                LET read == call.tables \ call.todo IN
                /\ call.timed = {t \in read : TimeColumns(c, t) # {}}
                /\ ("untimed" \in call.notes) <=> (call.timed # read)
          /\ call.pc = "vector" => Range(call.kw) \subseteq Live(c)
          /\ call.pc = "hits" => Range(call.ranked) \subseteq Live(c)

AnswersInv == ToolShape /\ Halfway /\ AnswersAgree

\* What a version holds of a name is finite.
LEMMA HeldFinite ==
    ASSUME NEW c \in Catalogues, NEW f
    PROVE  /\ IsFiniteSet(EnumValuesFor(c, f))
           /\ IsFiniteSet({e \in c.edges : f \in {e.src, e.dst}})
           /\ IsFiniteSet(TimeColumns(c, f))
<1>1. /\ IsFiniteSet(c.enums) /\ IsFiniteSet(c.edges) /\ IsFiniteSet(Live(c))
      /\ c.time \subseteq Live(c)
  BY CatalogueAssumption DEF CatalogueAssumption, Live
<1>2. IsFiniteSet({e \in c.edges : f \in {e.src, e.dst}})
  <2>1. {e \in c.edges : f \in {e.src, e.dst}} \in SUBSET c.edges
    OBVIOUS
  <2> QED BY <1>1, <2>1, FS_Subset
<1>3. IsFiniteSet(TimeColumns(c, f))
  <2>1. TimeColumns(c, f) \in SUBSET Live(c)
    BY <1>1 DEF TimeColumns
  <2> QED BY <1>1, <2>1, FS_Subset
<1>4. IsFiniteSet(EnumValuesFor(c, f))
  <2> DEFINE rows == {w \in c.enums : w.column = f}
             value == [w \in rows |-> w.value]
  <2>1. IsFiniteSet(rows)
    <3>1. rows \in SUBSET c.enums
      OBVIOUS
    <3> QED BY <1>1, <3>1, FS_Subset
  <2>2. value \in Surjection(rows, EnumValuesFor(c, f))
    BY DEF Surjection, EnumValuesFor
  <2> HIDE DEF rows, value
  <2> QED BY <2>1, <2>2, FS_Surjection
<1> QED BY <1>2, <1>3, <1>4

LEMMA ValuesAnswer ==
    ASSUME CallTyped, AnswersInv, store \in Catalogues, ReadValues PROVE AnswersInv'
<1> DEFINE all == EnumValuesFor(store, call.on)
<1>1. call.pc = "values" /\ call.op \in {"enums", "detail"}
  BY DEF ReadValues, Busy, AnswersInv, ToolShape
<1>2. PICK shown \in Kept(all, EnumLimit) :
        call' = [[call EXCEPT !.values = shown, !.truncated = Cardinality(all) > EnumLimit,
                     !.pc = IF call.op = "enums" THEN "count" ELSE "edges"]
                        EXCEPT !.seen = @ \cup {store}]
  BY DEF ReadValues, Reads
<1>3. Cardinality(shown) = Capped(Cardinality(all), EnumLimit)
  BY <1>2 DEF Kept
<1>4. /\ call'.op = call.op /\ DOMAIN call' = DOMAIN call
      /\ call'.seen = call.seen \cup {store}
      /\ call'.pc = IF call.op = "enums" THEN "count" ELSE "edges"
  BY <1>2 DEF CallTyped
<1>5. call.op = "enums" =>
        /\ call'.on = call.on
        /\ call'.values = shown /\ call'.truncated = (Cardinality(all) > EnumLimit)
  BY <1>2 DEF AnswersInv, ToolShape
<1>6. ToolShape'
  BY <1>1, <1>4 DEF AnswersInv, ToolShape
<1>7. Halfway'
  <2>1. call'.pc \notin {"times", "hits", "vector"}
    BY <1>4
  <2>2. ASSUME NEW c \in Catalogues, call'.seen \subseteq {c}, call'.pc = "count"
        PROVE  LET every == Cardinality(EnumValuesFor(c, call'.on)) IN
               /\ call'.truncated = (every > EnumLimit)
               /\ Cardinality(call'.values) = Capped(every, EnumLimit)
    <3>1. c = store /\ call.op = "enums"
      BY <1>1, <1>4, <2>2
    <3> QED BY <1>3, <1>5, <3>1
  <2> HIDE DEF all
  <2> QED BY <2>1, <2>2 DEF Halfway
<1>8. AnswersAgree'
  <2>1. call'.pc # "done"
    BY <1>4
  <2> QED BY <2>1 DEF AnswersAgree, Done
<1> QED BY <1>6, <1>7, <1>8 DEF AnswersInv

LEMMA CountAnswer ==
    ASSUME CallTyped, AnswersInv, store \in Catalogues, CountValues PROVE AnswersInv'
<1> DEFINE all == Cardinality(EnumValuesFor(store, call.on))
<1>1. call.pc = "count" /\ call.op = "enums"
  BY DEF CountValues, Busy, AnswersInv, ToolShape
<1>2. /\ call'.op = "enums" /\ DOMAIN call' = DOMAIN call
      /\ call'.seen = call.seen \cup {store} /\ call'.pc = "done"
      /\ call'.total = all /\ call'.values = call.values /\ call'.truncated = call.truncated
  BY <1>1 DEF CountValues, Reads, CallTyped, AnswersInv, ToolShape
<1>3. ToolShape'
  BY <1>1, <1>2 DEF AnswersInv, ToolShape
<1>4. Halfway'
  BY <1>2 DEF Halfway
<1>5. AnswersAgree'
  <2> SUFFICES ASSUME NEW c \in Catalogues, Undisturbed(c)'
               PROVE  /\ call'.truncated = (call'.total > Cardinality(call'.values))
                      /\ Cardinality(call'.values) = Capped(call'.total, EnumLimit)
    BY <1>2 DEF AnswersAgree, Done
  <2>1. c = store /\ call.seen \subseteq {c}
    BY <1>2 DEF Undisturbed
  <2>2. /\ call.truncated = (all > EnumLimit)
        /\ Cardinality(call.values) = Capped(all, EnumLimit)
    BY <1>1, <2>1 DEF AnswersInv, Halfway
  <2>3. all \in Nat /\ EnumLimit \in Nat
    BY HeldFinite, FS_CardinalityType, ReadsAssumption DEF ReadsAssumption
  <2> HIDE DEF all
  <2>4. (all > EnumLimit) = (all > Capped(all, EnumLimit))
    BY <2>3 DEF Capped
  <2> QED BY <1>2, <2>2, <2>4
<1> QED BY <1>3, <1>4, <1>5 DEF AnswersInv

LEMMA EdgesAnswer ==
    ASSUME CallTyped, AnswersInv, store \in Catalogues, ReadEdges PROVE AnswersInv'
<1> DEFINE all == {e \in store.edges : call.on \in {e.src, e.dst}}
<1>1. call.pc = "edges" /\ call.op = "detail"
  BY DEF ReadEdges, Busy, AnswersInv, ToolShape
<1>2. PICK shown \in Kept(all, EdgeLimit) :
        call' = [[call EXCEPT !.edges = shown, !.relTruncated = Cardinality(all) > EdgeLimit,
                              !.pc = "done"] EXCEPT !.seen = @ \cup {store}]
  BY DEF ReadEdges, Reads
<1>3. /\ call'.op = "detail" /\ DOMAIN call' = DOMAIN call
      /\ call'.seen = call.seen \cup {store} /\ call'.pc = "done"
      /\ call'.on = call.on
      /\ call'.edges = shown /\ call'.relTruncated = (Cardinality(all) > EdgeLimit)
  BY <1>1, <1>2 DEF CallTyped, AnswersInv, ToolShape
<1>4. ToolShape'
  BY <1>1, <1>3 DEF AnswersInv, ToolShape
<1>5. Halfway'
  BY <1>3 DEF Halfway
<1>6. AnswersAgree'
  <2> SUFFICES ASSUME NEW c \in Catalogues, Undisturbed(c)'
               PROVE  IF call'.relTruncated THEN Cardinality(call'.edges) = EdgeLimit
                      ELSE call'.edges = {e \in c.edges : call'.on \in {e.src, e.dst}}
    BY <1>3 DEF AnswersAgree, Done
  <2>1. c = store
    BY <1>3 DEF Undisturbed
  <2>2. IsFiniteSet(all) /\ Cardinality(all) \in Nat /\ EdgeLimit \in Nat
    BY HeldFinite, FS_CardinalityType, ReadsAssumption DEF ReadsAssumption
  <2>3. all = {e \in c.edges : call'.on \in {e.src, e.dst}}
    BY <1>3, <2>1
  <2> HIDE DEF all
  <2>4. Cardinality(shown) = Capped(Cardinality(all), EdgeLimit)
        /\ (shown = all \/ Cardinality(shown) = EdgeLimit)
    BY <1>2, <2>2, KeptIs
  <2>5. CASE Cardinality(all) > EdgeLimit
    <3>1. Cardinality(shown) = EdgeLimit
      BY <2>2, <2>4, <2>5 DEF Capped
    <3>2. call'.relTruncated
      BY <1>3, <2>5
    <3> QED BY <1>3, <3>1, <3>2
  <2>6. CASE ~(Cardinality(all) > EdgeLimit)
    <3>1. Cardinality(shown) = Cardinality(all)
      BY <2>2, <2>4, <2>6 DEF Capped
    <3>2. shown \in SUBSET all
      BY <1>2 DEF Kept
    <3>3. shown = all
      BY <2>2, <3>1, <3>2, FS_Subset
    <3> QED BY <1>3, <2>3, <2>6, <3>3
  <2> QED BY <2>5, <2>6
<1> QED BY <1>4, <1>5, <1>6 DEF AnswersInv

LEMMA TablesAnswer ==
    ASSUME CallTyped, AnswersInv, store \in Catalogues, ReadTables PROVE AnswersInv'
<1> DEFINE tables == MetricTables(store, call.on)
<1>1. call.pc = "tables" /\ call.op = "metric"
  BY DEF ReadTables, Busy, AnswersInv, ToolShape
<1>2. PICK notes :
        /\ "untimed" \notin notes
        /\ call' = [[call EXCEPT !.tables = tables, !.todo = tables, !.notes = notes,
                        !.pc = IF tables # {} /\ call.ranged THEN "times" ELSE "done"]
                            EXCEPT !.seen = @ \cup {store}]
  <2> DEFINE said == IF tables = {} THEN {"no tables"}
                     ELSE IF Cardinality(tables) > 1 THEN {"join"} ELSE {}
  <2>1. "untimed" \notin said
    BY Zenon
  <2>2. call' = [[call EXCEPT !.tables = tables, !.todo = tables, !.notes = said,
                     !.pc = IF tables # {} /\ call.ranged THEN "times" ELSE "done"]
                        EXCEPT !.seen = @ \cup {store}]
    BY Zenon DEF ReadTables, Reads
  <2> HIDE DEF said
  <2> QED BY <2>1, <2>2
<1> HIDE DEF tables
<1>3. /\ call'.op = "metric" /\ DOMAIN call' = DOMAIN call
      /\ call'.seen = call.seen \cup {store}
      /\ call'.pc = IF tables # {} /\ call.ranged THEN "times" ELSE "done"
      /\ call'.tables = tables /\ call'.todo = tables /\ call'.notes = notes
      /\ call'.timed = {} /\ call'.ranged = call.ranged
  BY <1>1, <1>2 DEF CallTyped, AnswersInv, ToolShape
<1>4. ToolShape'
  BY <1>1, <1>3 DEF AnswersInv, ToolShape
<1>5. Halfway'
  <2>1. call'.pc \in {"times", "done"}
    BY <1>3
  <2>2. call'.pc = "times" => call'.todo \subseteq call'.tables /\ call'.todo # {}
    BY <1>3
  <2>3. ASSUME NEW c \in Catalogues
        PROVE  LET read == call'.tables \ call'.todo IN
               /\ call'.timed = {t \in read : TimeColumns(c, t) # {}}
               /\ ("untimed" \in call'.notes) <=> (call'.timed # read)
    <3>1. call'.tables \ call'.todo = {} /\ call'.timed = {}
      BY <1>3
    <3> QED BY <1>2, <1>3, <3>1
  <2> QED BY <2>1, <2>2, <2>3 DEF Halfway
<1>6. ASSUME tables = {}, NEW c
      PROVE  /\ call'.timed = {t \in call'.tables : TimeColumns(c, t) # {}}
             /\ ("untimed" \in call'.notes) = (call'.timed # call'.tables)
  <2>1. call'.tables = {} /\ call'.timed = {} /\ "untimed" \notin call'.notes
    BY <1>2, <1>3, <1>6
  <2> QED BY <2>1
<1>7. tables # {} /\ call'.ranged => call'.pc # "done"
  <2>1. tables # {} /\ call.ranged => call'.pc = "times"
    BY <1>3, Zenon
  <2>2. call'.pc = "times" => call'.pc # "done"
    OBVIOUS
  <2> QED BY <1>3, <2>1, <2>2, Zenon
<1>8. AnswersAgree'
  <2>1. \A op : Done(op)' => call'.op = op /\ call'.pc = "done"
    BY DEF Done
  <2>2. ~Done("enums")' /\ ~Done("detail")' /\ ~Done("search")'
    BY <1>3, <2>1
  <2>3. Done("metric")' /\ call'.ranged => tables = {}
    BY <1>7, <2>1, Zenon
  <2> QED BY <1>6, <2>2, <2>3, Zenon DEF AnswersAgree
<1> QED BY <1>4, <1>5, <1>8 DEF AnswersInv

LEMMA TimeAnswer ==
    ASSUME CallTyped, AnswersInv, store \in Catalogues, ReadTime PROVE AnswersInv'
<1>1. call.pc = "times" /\ call.op = "metric" /\ call.todo \subseteq call.tables
  BY DEF ReadTime, Busy, AnswersInv, ToolShape, Halfway
<1>2. PICK table \in call.todo :
        LET columns == Cardinality(TimeColumns(store, table)) IN
        call' = [[call EXCEPT
            !.todo = @ \ {table},
            !.timed = IF columns > 0 THEN @ \cup {table} ELSE @,
            !.notes = IF columns = 0 THEN (@ \ {"join"}) \cup {"untimed"}
                      ELSE IF columns > 1 THEN (@ \ {"join"}) \cup {"several"} ELSE @,
            !.pc = IF call.todo = {table} THEN "done" ELSE @] EXCEPT !.seen = @ \cup {store}]
  BY DEF ReadTime, Reads
<1> DEFINE columns == Cardinality(TimeColumns(store, table))
           has == columns > 0
<1>3. columns \in Nat /\ (columns = 0 <=> TimeColumns(store, table) = {})
  <2>1. IsFiniteSet(TimeColumns(store, table))
    BY HeldFinite
  <2> QED BY <2>1, FS_CardinalityType, FS_EmptySet
<1>4. /\ call'.op = "metric" /\ DOMAIN call' = DOMAIN call
      /\ call'.seen = call.seen \cup {store}
      /\ call'.pc = (IF call.todo = {table} THEN "done" ELSE "times")
      /\ call'.tables = call.tables /\ call'.todo = call.todo \ {table}
      /\ call'.timed = (IF columns > 0 THEN call.timed \cup {table} ELSE call.timed)
      /\ call'.notes = (IF columns = 0 THEN (call.notes \ {"join"}) \cup {"untimed"}
                        ELSE IF columns > 1 THEN (call.notes \ {"join"}) \cup {"several"}
                        ELSE call.notes)
  BY <1>1, <1>2 DEF CallTyped, AnswersInv, ToolShape
<1>5. ToolShape'
  BY <1>1, <1>4 DEF AnswersInv, ToolShape
<1>6. ASSUME NEW c \in Catalogues, call'.seen \subseteq {c}
      PROVE  LET read == call'.tables \ call'.todo IN
             /\ call'.timed = {t \in read : TimeColumns(c, t) # {}}
             /\ ("untimed" \in call'.notes) <=> (call'.timed # read)
  <2> DEFINE read == call.tables \ call.todo
  <2>1. c = store /\ call.seen \subseteq {c}
    BY <1>4, <1>6
  <2>2. /\ call.timed = {t \in read : TimeColumns(c, t) # {}}
        /\ ("untimed" \in call.notes) <=> (call.timed # read)
    BY <1>1, <2>1 DEF AnswersInv, Halfway
  <2>3. call'.tables \ call'.todo = read \cup {table} /\ table \notin read
    BY <1>1, <1>2, <1>4
  <2> HIDE DEF read, columns
  <2>4. CASE columns = 0
    <3>1. /\ call'.timed = call.timed /\ "untimed" \in call'.notes
          /\ TimeColumns(c, table) = {}
      BY <1>3, <1>4, <2>1, <2>4
    <3>2. call'.timed = {t \in read \cup {table} : TimeColumns(c, t) # {}}
      BY <2>2, <3>1
    <3>3. call'.timed # read \cup {table}
      BY <3>1, <3>2
    <3> QED BY <2>3, <3>1, <3>2, <3>3
  <2>5. CASE columns # 0
    <3>1. /\ call'.timed = call.timed \cup {table} /\ TimeColumns(c, table) # {}
          /\ "untimed" \in call'.notes <=> "untimed" \in call.notes
      BY <1>3, <1>4, <2>1, <2>5
    <3>2. call'.timed = {t \in read \cup {table} : TimeColumns(c, t) # {}}
      BY <2>2, <3>1
    <3>3. call'.timed # read \cup {table} <=> call.timed # read
      <4>1. table \notin call.timed /\ call.timed \subseteq read
        BY <2>2, <2>3
      <4> QED BY <2>3, <3>1, <4>1
    <3> QED BY <2>2, <2>3, <3>1, <3>2, <3>3
  <2> QED BY <2>4, <2>5
<1> HIDE DEF columns
<1>7. Halfway'
  <2>1. call'.pc \in {"times", "done"}
    BY <1>4
  <2>2. call'.pc = "times" => call'.todo \subseteq call'.tables /\ call'.todo # {}
    BY <1>1, <1>2, <1>4
  <2> QED BY <1>6, <2>1, <2>2 DEF Halfway
<1>8. AnswersAgree'
  <2> SUFFICES ASSUME NEW c \in Catalogues, Undisturbed(c)', call'.pc = "done"
               PROVE  /\ call'.timed = {t \in call'.tables : TimeColumns(c, t) # {}}
                      /\ ("untimed" \in call'.notes) = (call'.timed # call'.tables)
    BY <1>4 DEF AnswersAgree, Done
  <2>1. call'.tables \ call'.todo = call'.tables
    BY <1>4
  <2>2. call'.seen \subseteq {c}
    BY DEF Undisturbed
  <2>3. /\ call'.timed = {t \in call'.tables : TimeColumns(c, t) # {}}
        /\ ("untimed" \in call'.notes) <=> (call'.timed # call'.tables)
    BY <1>6, <2>1, <2>2, Zenon
  <2> QED BY <2>3
<1> QED BY <1>5, <1>7, <1>8 DEF AnswersInv

LEMMA RankedFrom ==
    ASSUME NEW S, NEW limit, NEW list \in Rankings(S, limit)
    PROVE  Range(list) \subseteq S
<1>1. PICK n : list \in [1..n -> S]
  BY DEF Rankings
<1> QED BY <1>1 DEF Range

\* The keyword channel.
LEMMA KeywordsAnswer ==
    ASSUME CallTyped, AnswersInv, store \in Catalogues, ReadKeywords PROVE AnswersInv'
<1>1. call.pc = "keyword" /\ call.op = "search"
  BY DEF ReadKeywords, Busy, AnswersInv, ToolShape
<1>2. PICK kw \in Rankings(Entries(store, call.on), CandidateCap) :
        call' = [[call EXCEPT !.kw = kw, !.pc = "vector"] EXCEPT !.seen = @ \cup {store}]
  BY DEF ReadKeywords, Reads
<1>3. /\ call'.op = "search" /\ DOMAIN call' = DOMAIN call
      /\ call'.seen = call.seen \cup {store} /\ call'.pc = "vector" /\ call'.kw = kw
  BY <1>1, <1>2 DEF CallTyped, AnswersInv, ToolShape
<1>4. Range(kw) \subseteq Live(store)
  <2>1. Range(kw) \subseteq Entries(store, call.on)
    BY <1>2, RankedFrom
  <2> QED BY <2>1 DEF Entries
<1>5. ToolShape'
  BY <1>1, <1>3 DEF AnswersInv, ToolShape
<1>6. Halfway'
  <2>1. ASSUME NEW c \in Catalogues, call'.seen \subseteq {c}
        PROVE  Range(call'.kw) \subseteq Live(c)
    <3>1. c = store
      BY <1>3, <2>1
    <3> QED BY <1>3, <1>4, <3>1
  <2> QED BY <1>3, <2>1 DEF Halfway
<1>7. AnswersAgree'
  BY <1>3 DEF AnswersAgree, Done
<1> QED BY <1>5, <1>6, <1>7 DEF AnswersInv

\* The vector channel, and the fused ranking.
LEMMA VectorsAnswer ==
    ASSUME CallTyped, AnswersInv, store \in Catalogues, ReadVectors PROVE AnswersInv'
<1>1. call.pc = "vector" /\ call.op = "search"
  BY DEF ReadVectors, Busy, AnswersInv, ToolShape
<1>2. PICK vec \in Rankings(Entries(store, call.on), CandidateCap) :
        \E ranked \in Rankings(Range(call.kw) \cup Range(vec),
                               Cardinality(Range(call.kw) \cup Range(vec))) :
            /\ IsFused(call.kw, vec, ranked)
            /\ Reads([call EXCEPT !.vec = vec, !.ranked = ranked, !.pc = "hits"])
  BY DEF ReadVectors
<1>3. PICK ranked \in Rankings(Range(call.kw) \cup Range(vec),
                               Cardinality(Range(call.kw) \cup Range(vec))) :
            /\ IsFused(call.kw, vec, ranked)
            /\ call' = [[call EXCEPT !.vec = vec, !.ranked = ranked, !.pc = "hits"]
                            EXCEPT !.seen = @ \cup {store}]
  BY <1>2 DEF Reads
<1>4. /\ call'.op = "search" /\ DOMAIN call' = DOMAIN call
      /\ call'.seen = call.seen \cup {store} /\ call'.pc = "hits" /\ call'.ranked = ranked
  BY <1>1, <1>3 DEF CallTyped, AnswersInv, ToolShape
<1>5. ranked \in Seq(Range(ranked)) /\ IsInjective(ranked)
  <2> DEFINE most == Capped(Cardinality(Range(call.kw) \cup Range(vec)),
                            Cardinality(Range(call.kw) \cup Range(vec)))
  <2>1. PICK n \in 0..most : ranked \in [1..n -> Range(call.kw) \cup Range(vec)]
                             /\ IsInjective(ranked)
    BY <1>3 DEF Rankings
  <2>2. n \in Nat
    BY <2>1
  <2>3. ranked \in [1..n -> Range(ranked)]
    BY <2>1 DEF Range
  <2> QED BY <2>1, <2>2, <2>3
<1>6. Range(vec) \subseteq Live(store)
  <2>1. Range(vec) \subseteq Entries(store, call.on)
    BY <1>2, RankedFrom
  <2> QED BY <2>1 DEF Entries
<1>7. Range(ranked) = Range(call.kw) \cup Range(vec)
  BY <1>3 DEF IsFused
<1>8. ToolShape'
  BY <1>1, <1>4 DEF AnswersInv, ToolShape
<1>9. Halfway'
  <2>1. ASSUME NEW c \in Catalogues, call'.seen \subseteq {c}
        PROVE  Range(call'.ranked) \subseteq Live(c)
    <3>1. c = store /\ call.seen \subseteq {c}
      BY <1>4, <2>1
    <3>2. Range(call.kw) \subseteq Live(c)
      BY <1>1, <3>1 DEF AnswersInv, Halfway
    <3> QED BY <1>4, <1>6, <1>7, <3>1, <3>2
  <2> QED BY <1>4, <1>5, <2>1 DEF Halfway
<1>10. AnswersAgree'
  BY <1>4 DEF AnswersAgree, Done
<1> QED BY <1>8, <1>9, <1>10 DEF AnswersInv

\* A prefix of an injective list has as many members as places.
LEMMA PrefixSize ==
    ASSUME NEW S, NEW list \in Seq(S), IsInjective(list), NEW k \in 0..Len(list)
    PROVE  Cardinality({list[i] : i \in 1..k}) = k
<1> DEFINE place == [i \in 1..k |-> list[i]]
           T == {list[i] : i \in 1..k}
<1>1. k \in Nat /\ Len(list) \in Nat /\ DOMAIN list = 1..Len(list)
  OBVIOUS
<1>2. \A i \in 1..k : i \in DOMAIN list
  BY <1>1
<1>3. place \in [1..k -> T] /\ \A t \in T : \E i \in 1..k : place[i] = t
  OBVIOUS
<1>4. \A i, j \in 1..k : place[i] = place[j] => i = j
  BY <1>2 DEF IsInjective
<1> HIDE DEF place, T
<1>5. ExistsBijection(1..k, T)
  BY <1>3, <1>4 DEF ExistsBijection, Bijection, Injection, Surjection, IsInjective
<1>6. IsFiniteSet(1..k) /\ Cardinality(1..k) = k
  <2>1. /\ IsFiniteSet(1..k)
        /\ Cardinality(1..k) = IF 1 > k THEN 0 ELSE k - 1 + 1
    BY <1>1, FS_Interval
  <2> QED BY <1>1, <2>1
<1>7. Cardinality(T) = Cardinality(1..k)
  BY <1>5, <1>6, FS_Bijection
<1> QED BY <1>6, <1>7 DEF T

LEMMA HitsAnswer ==
    ASSUME CallTyped, AnswersInv, store \in Catalogues, ReadHits PROVE AnswersInv'
<1> DEFINE most  == Capped(Len(call.ranked), SearchLimit)
           first == {call.ranked[i] : i \in 1..most}
<1>1. /\ call.pc = "hits" /\ call.op = "search"
      /\ call.ranked \in Seq(Range(call.ranked)) /\ IsInjective(call.ranked)
  BY DEF ReadHits, Busy, AnswersInv, ToolShape, Halfway
<1>2. /\ call'.op = "search" /\ DOMAIN call' = DOMAIN call
      /\ call'.seen = call.seen \cup {store} /\ call'.pc = "done"
      /\ call'.ranked = call.ranked /\ call'.hits = first \cap Live(store)
  BY <1>1 DEF ReadHits, Reads, CallTyped, AnswersInv, ToolShape
<1>3. most \in 0..Len(call.ranked)
  <2>1. Len(call.ranked) \in Nat /\ SearchLimit \in Nat
    BY <1>1, ReadsAssumption DEF ReadsAssumption
  <2> QED BY <2>1 DEF Capped
<1>4. Cardinality(first) = most
  BY <1>1, <1>3, PrefixSize
<1>5. first \subseteq Range(call.ranked)
  <2>1. \A i \in 1..most : i \in DOMAIN call.ranked
    BY <1>1, <1>3
  <2> QED BY <2>1 DEF Range
<1> HIDE DEF first
<1>6. ToolShape'
  BY <1>1, <1>2 DEF AnswersInv, ToolShape
<1>7. Halfway'
  BY <1>2 DEF Halfway
<1>8. AnswersAgree'
  <2> SUFFICES ASSUME NEW c \in Catalogues, Undisturbed(c)'
               PROVE  Cardinality(call'.hits) = Capped(Len(call'.ranked), SearchLimit)
    BY <1>2 DEF AnswersAgree, Done
  <2>1. c = store /\ call.seen \subseteq {c}
    BY <1>2 DEF Undisturbed
  <2>2. Range(call.ranked) \subseteq Live(c)
    BY <1>1, <2>1 DEF AnswersInv, Halfway
  <2>3. call'.hits = first
    BY <1>2, <1>5, <2>1, <2>2
  <2> QED BY <1>2, <1>4, <2>3
<1> QED BY <1>6, <1>7, <1>8 DEF AnswersInv

\* The first statement.
LEMMA EntityAnswer ==
    ASSUME CallTyped, AnswersInv, ReadEntity PROVE AnswersInv'
<1>1. call.pc = "entity" /\ call.op # "search"
  BY DEF ReadEntity, Busy, AnswersInv, ToolShape
<1>2. \/ /\ call'.op = call.op /\ DOMAIN call' = DOMAIN call /\ call'.pc = "done"
         /\ call'.error # "none"
      \/ /\ call'.op = call.op /\ DOMAIN call' = DOMAIN call
         /\ call'.pc \in {"walk", "tables", "values", "edges"}
         /\ call'.pc = "walk" => call.op = "traverse"
         /\ call'.pc = "tables" => call.op = "metric"
         /\ call'.pc = "values" => call.op \in {"enums", "detail"}
         /\ call'.pc = "edges" => call.op = "detail"
         /\ call.op = "metric" => call'.timed = call.timed
  BY DEF ReadEntity, Reads, Fail, CallTyped, AnswersInv, ToolShape
<1>3. ToolShape'
  BY <1>1, <1>2 DEF AnswersInv, ToolShape
<1>4. Halfway'
  BY <1>2 DEF Halfway
<1>5. AnswersAgree'
  BY <1>2 DEF AnswersAgree, Done
<1> QED BY <1>3, <1>4, <1>5 DEF AnswersInv

LEMMA StartAnswer == ASSUME Start PROVE AnswersInv'
<1>1. CASE StartTraverse
  BY <1>1 DEF StartTraverse, AnswersInv, ToolShape, Halfway, AnswersAgree, Done
<1>2. CASE StartSearch
  BY <1>2 DEF StartSearch, AnswersInv, ToolShape, Halfway, AnswersAgree, Done
<1>3. CASE StartLookup
  BY <1>3 DEF StartLookup, AnswersInv, ToolShape, Halfway, AnswersAgree, Done
<1>4. CASE call' = [NoCall EXCEPT !.error = "invalid_request"]
  BY <1>4 DEF NoCall, AnswersInv, ToolShape, Halfway, AnswersAgree, Done
<1> QED BY <1>1, <1>2, <1>3, <1>4 DEF Start

LEMMA InitAnswers == Init => AnswersInv /\ TraverseInv
BY DEF Init, NoCall, AnswersInv, ToolShape, Halfway, AnswersAgree, Done, TraverseInv

LEMMA CallAnswers ==
    ASSUME CallTyped, AnswersInv, TraverseInv, store \in Catalogues, CallNext
    PROVE  AnswersInv' /\ TraverseInv'
<1>1. CASE Start
  <2>1. StartTraverse \/ call'.op # "traverse"
    BY <1>1 DEF Start, StartSearch, StartLookup, NoCall
  <2>2. call'.op # "traverse" => TraverseInv'
    BY DEF TraverseInv, TraversalIsSubgraph, Done
  <2> QED BY <1>1, <2>1, <2>2, StartAnswer, BeginInv
<1>2. CASE Return
  BY <1>2 DEF Return, NoCall, AnswersInv, ToolShape, Halfway, AnswersAgree, Done, TraverseInv
<1>3. CASE ReadEntity
  BY <1>3, EntityAnswer, EntityInv
<1>4. CASE StatementFails
  <2>1. /\ call'.op = call.op /\ DOMAIN call' = DOMAIN call /\ call'.pc = "done"
        /\ call'.error = "internal"
    BY <1>4 DEF StatementFails, Fail, CallTyped
  <2>2. AnswersInv'
    BY <2>1 DEF AnswersInv, ToolShape, Halfway, AnswersAgree, Done
  <2>3. TraverseInv'
    BY <2>1 DEF TraverseInv, TraversalIsSubgraph, Done
  <2> QED BY <2>2, <2>3
<1>5. CASE WalkNode \/ ListNodes
  <2>1. TraverseInv'
    BY <1>5, WalkInv, ListInv
  <2>2. call.pc = "walk" /\ call.op = "traverse"
    BY <1>5 DEF WalkNode, ListNodes, Busy, CallTyped
  <2>3. call'.op = "traverse" /\ DOMAIN call' = DOMAIN call /\ call'.pc \in {"walk", "done"}
    BY <1>5, <2>2 DEF WalkNode, ListNodes, Reads, CallTyped
  <2>4. AnswersInv'
    BY <2>3 DEF AnswersInv, ToolShape, Halfway, AnswersAgree, Done
  <2> QED BY <2>1, <2>4
<1>6. CASE ReadValues \/ CountValues \/ ReadEdges \/ ReadTables \/ ReadTime
           \/ ReadKeywords \/ ReadVectors \/ ReadHits
  <2>1. call.op # "traverse"
    BY <1>6 DEF ReadValues, CountValues, ReadEdges, ReadTables, ReadTime, ReadKeywords,
        ReadVectors, ReadHits, Busy, AnswersInv, ToolShape
  <2>2. call'.op = call.op
    BY <1>6 DEF ReadValues, CountValues, ReadEdges, ReadTables, ReadTime, ReadKeywords,
        ReadVectors, ReadHits, Reads, CallTyped
  <2>3. TraverseInv'
    BY <2>1, <2>2 DEF TraverseInv, TraversalIsSubgraph, Done
  <2> QED BY <1>6, <2>3, ValuesAnswer, CountAnswer, EdgesAnswer, TablesAnswer, TimeAnswer,
             KeywordsAnswer, VectorsAnswer, HitsAnswer
<1> QED BY <1>1, <1>2, <1>3, <1>4, <1>5, <1>6 DEF CallNext

LEMMA AnswersNext ==
    (ApplyInv /\ CallTyped) /\ (AnswersInv /\ TraverseInv) /\ [Next]_vars
        => (AnswersInv /\ TraverseInv)'
<1> SUFFICES ASSUME ApplyInv, CallTyped, AnswersInv, TraverseInv, [Next]_vars
             PROVE  (AnswersInv /\ TraverseInv)'
  OBVIOUS
<1>1. CASE CallNext
  BY <1>1, CallAnswers DEF ApplyInv
<1>2. CASE UNCHANGED call
  <2>1. AnswersInv'
    BY <1>2 DEF AnswersInv, ToolShape, Halfway, AnswersAgree, Done, Undisturbed
  <2>2. TraverseInv'
    BY <1>2 DEF TraverseInv, Walking, WalkOf, WholeOrFull, Level, Expanded, At, Limit,
       TraversalIsSubgraph, Undisturbed, Done
  <2> QED BY <2>1, <2>2
<1> QED BY <1>1, <1>2 DEF Next, vars, readers

\* Whatever versions a call reads and however often the store changes under
\* it, its answer is right for them: a traversal is a subgraph whose edges were
\* committed, of one version all that lies within its depth or a full cut of
\* it, and an answer of one version agrees with itself (semantic_tools.go).
THEOREM AnswersHold == Spec => []AnswersAreRight
<1>1. AnswersInv /\ TraverseInv => AnswersAreRight
  BY DEF AnswersInv, TraverseInv, AnswersAreRight, TraversalIsSubgraph, Done
<1>2. Spec => []Typed
  BY TypedInvariance
<1>3. Typed => CallTyped
  BY DEF Typed
<1>4. Spec => [](AnswersInv /\ TraverseInv)
  BY <1>2, <1>3, InitAnswers, AnswersNext, ApplyInvariance, PTL DEF Spec
<1> QED BY <1>1, <1>4, PTL
=============================================================================

-------------------------------- MODULE Backup --------------------------------
(***************************************************************************)
(* `dgw semantic-backup` (internal/semantic/backup.go): checkpoint the WAL *)
(* into the database file, then copy the file, page after page and without *)
(* a lock, while other processes go on writing.                            *)
(*                                                                         *)
(* The file maps its pages to the version they belong to; a transaction    *)
(* leaves its version in the WAL.  SQLite's part is external: a checkpoint *)
(* succeeds when no reader or writer is in its way, and any connection     *)
(* may run one of its own when the WAL grows or it closes.                 *)
(***************************************************************************)
EXTENDS Catalogue

CONSTANT Pages    \* the file has the pages 1..Pages
ASSUME PagesAssumption == Pages \in Nat \ {0}

Page == 1..Pages
Missing == -1     \* a page that has been cut off
NoWal == -1

VARIABLES
    file,         \* [Page -> version]
    wal,          \* version of the last commit in the WAL, or NoWal
    copy,         \* the file at --out, which may be an older backup
    backup        \* the command

NoBackup == [pc |-> "idle", same |-> FALSE, page |-> 1, began |-> 0, disturbed |-> FALSE]

BackupInit ==
    /\ file = [p \in Page |-> 0] /\ wal = NoWal
    /\ copy = [p \in Page |-> Missing]
    /\ backup = NoBackup

\* What is read through SQLite.
Stored == IF wal = NoWal THEN file ELSE [p \in Page |-> wal]

LogCommit ==
    /\ wal' = IF commits' = commits THEN wal ELSE commits'
    /\ UNCHANGED <<file, copy, backup>>

\* Another connection checkpoints.
OtherCheckpoint ==
    /\ wal # NoWal
    /\ file' = Stored /\ wal' = NoWal
    /\ backup' = [backup EXCEPT !.disturbed = TRUE]
    /\ UNCHANGED <<catalogue, copy>>

BackupBusy(pc) == backup.pc = pc /\ UNCHANGED catalogue

\* --out may name any path, also one of the database file.
BeginBackup ==
    /\ backup.pc \in {"idle", "done", "failed"} /\ UNCHANGED catalogue
    /\ \E same \in BOOLEAN :
        backup' = [NoBackup EXCEPT !.pc = "checkpoint", !.same = same, !.began = commits]
    /\ UNCHANGED <<file, wal, copy>>

\* Seeded fault: a checkpoint that was not complete is taken for one.
CheckpointBusy_Ignored ==
    /\ BackupBusy("checkpoint")
    /\ backup' = [backup EXCEPT !.pc = "copy"]
    /\ UNCHANGED <<file, wal, copy>>

\* busy # 0: somebody reads or writes.
CheckpointBusy ==
    /\ BackupBusy("checkpoint")
    /\ backup' = [backup EXCEPT !.pc = "failed"]
    /\ UNCHANGED <<file, wal, copy>>

CheckpointDone ==
    /\ BackupBusy("checkpoint")
    /\ file' = Stored /\ wal' = NoWal
    /\ backup' = [backup EXCEPT !.pc = "copy", !.disturbed = FALSE]
    /\ UNCHANGED copy

\* samePath, then os.Create, which truncates what is there.
OpenFiles ==
    /\ BackupBusy("copy")
    /\ IF backup.same
       THEN backup' = [backup EXCEPT !.pc = "failed"] /\ UNCHANGED copy
       ELSE /\ backup' = [backup EXCEPT !.pc = "pages"]
            /\ copy' = [p \in Page |-> Missing]
    /\ UNCHANGED <<file, wal>>

\* Seeded fault: the copy ends one page late.
CopyPage_Late ==
    /\ BackupBusy("pages")
    /\ copy' = [copy EXCEPT ![backup.page] = file[backup.page]]
    /\ backup' = IF backup.page > Pages
                 THEN [backup EXCEPT !.pc = "done"]
                 ELSE [backup EXCEPT !.page = @ + 1]
    /\ UNCHANGED <<file, wal>>

CopyPage ==
    /\ BackupBusy("pages")
    /\ copy' = [copy EXCEPT ![backup.page] = file[backup.page]]
    /\ backup' = IF backup.page = Pages
                 THEN [backup EXCEPT !.pc = "done"]
                 ELSE [backup EXCEPT !.page = @ + 1]
    /\ UNCHANGED <<file, wal>>

\* An I/O error, or the command is killed.
BackupFails ==
    /\ \E pc \in {"checkpoint", "copy", "pages"} : BackupBusy(pc)
    /\ backup' = [backup EXCEPT !.pc = "failed"]
    /\ UNCHANGED <<file, wal, copy>>

BackupNext ==
    \/ OtherCheckpoint
    \/ BeginBackup \/ CheckpointBusy \/ CheckpointDone \/ OpenFiles \/ CopyPage \/ BackupFails

-----------------------------------------------------------------------------
(* Properties.                                                             *)

\* Whatever the command is told and wherever it stops, the store keeps
\* every commit: a backup never harms what it backs up (backup.go:25).
StoreKeepsCommits == Stored = [p \in Page |-> commits]

\* A backup that reports success holds one committed version, not older
\* than the commits there were when it began, provided that no other
\* connection checkpointed into the file while it was copied.
BackupIsSnapshot ==
    backup.pc = "done" /\ ~backup.disturbed =>
        \E v \in backup.began..commits : copy = [p \in Page |-> v]

\* A backup does no harm and is good for a rollback: whatever path it is given
\* and wherever it stops the store keeps every commit, and an undisturbed copy
\* that reports success is one recent version (backup.go: Backup).
BackupIsSound == StoreKeepsCommits /\ BackupIsSnapshot
=============================================================================

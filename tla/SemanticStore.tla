---------------------------- MODULE SemanticStore ----------------------------
(***************************************************************************)
(* One SQLite file and everything that shares it without sharing a lock:   *)
(* the tools of the daemon that read it (SemanticReads), the commands that *)
(* write its semantic and its grant tables (Coverage), and the backup that *)
(* copies the file beneath them (Backup).  Every committed transaction is  *)
(* a new version of the file and goes to the WAL.                          *)
(***************************************************************************)
EXTENDS SemanticReads, Coverage, Backup

CONSTANT MaxClients    \* bound: kinds of clients at work at one time
ASSUME ClientsAssumption == MaxClients \in Nat

readers == <<call>>
writers == <<granted, patterns, apply, check>>
copying == <<file, wal, copy, backup>>
vars == <<catalogue, readers, writers, copying>>

Init ==
    /\ CatalogueInit
    /\ call = NoCall
    /\ CoverageInit
    /\ BackupInit

\* They meet through the store only, so one of them beside the syncs of
\* others shows what the store can do to it.
ToolsIdle  == call = NoCall
GrantsIdle == apply = NoApply /\ check = NoCheck
BackupIdle == backup = NoBackup
Room == Cardinality({k \in 1..3 : ~ <<ToolsIdle, GrantsIdle, BackupIdle>>[k]}) < MaxClients

Next ==
    \/ (ToolsIdle => Room) /\ CallNext /\ UNCHANGED <<writers, copying>>
    \/ (GrantsIdle => Room) /\ CommandNext /\ LogCommit /\ UNCHANGED readers
    \/ OtherCommit /\ LogCommit /\ UNCHANGED readers
    \/ (BackupIdle => Room) /\ BackupNext /\ UNCHANGED <<readers, writers>>

Spec == Init /\ [][Next]_vars

\* The state of each of the parts.
TypeOK ==
    /\ CatalogueTypeOK
    /\ ReadsTypeOK
    /\ granted \subseteq [user : User, table : Fqn]
    /\ patterns \subseteq [user : User, prefix : DOMAIN Under]
    /\ apply.want \subseteq [user : User, table : Fqn]
    /\ check.uncovered \subseteq [user : User, table : Fqn]
    /\ file \in [Page -> {Missing} \cup 0..MaxCommits]
    /\ copy \in [Page -> {Missing} \cup 0..MaxCommits]
    /\ wal \in {NoWal} \cup 0..MaxCommits
    /\ backup.page \in Page /\ backup.began \in 0..MaxCommits
=============================================================================

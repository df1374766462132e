------------------------------ MODULE ExecRecord ------------------------------
(***************************************************************************)
(* internal/execrecord: execution records in one raw file per day, a       *)
(* summary per day, and retention.  Every process has its own Logger (a    *)
(* mutex serialises its writes) and all Loggers share one directory, which *)
(* nothing locks: a daemon stays for weeks, a key-create or key-revoke     *)
(* command opens the directory, writes a line and exits.  A step is one    *)
(* file-system call; time passes in days.                                  *)
(***************************************************************************)
EXTENDS Integers, FiniteSets

CONSTANTS
    Gateway,       \* serve and serve-stdio processes
    Command,       \* key-create and key-revoke processes
    Call,          \* tool calls that may be recorded
    AuthFailure,   \* rejected HTTP requests that may be recorded
    KeyEvent,      \* key events that may be recorded
    RawRetention,  \* Config.RawRetentionDays
    SumRetention,  \* Config.SummaryRetentionDays
    MaxLate,       \* days a call may run past the midnight after its start
    MaxDay,        \* bound: the last day
    MaxFaults,     \* bound: failing file-system calls
    MaxCrashes     \* bound: processes that die

\* New rejects shorter retentions.
ASSUME RetentionAssumption == RawRetention \in Nat \ {0} /\ SumRetention \in Nat \ {0}
ASSUME RecordBounds == MaxLate \in Nat /\ MaxDay \in Nat \ {0} /\ MaxFaults \in Nat /\ MaxCrashes \in Nat
\* A line is of one kind: the writer of a key event never writes it as a call.
ASSUME KindsAssumption == KeyEvent \cap (Call \cup AuthFailure) = {}

Proc == Gateway \cup Command
Record == Call \cup AuthFailure \cup KeyEvent
Day == 1 .. MaxDay
NoDay == 0
Kinds(p) == IF p \in Gateway THEN Call \cup AuthFailure ELSE KeyEvent

VARIABLES
    today,
    raw,       \* raw[d]: raw-<d>.jsonl, whether it exists and its lines
    summary,   \* summary[d]: summary-<d>.jsonl, whether it exists, raw_size, what it counts
    ts,        \* ts[r]: the day record r starts, NoDay before that
    w,         \* the Loggers, see WriterState
    acked,     \* history: records whose Log call returned nil
    skipped,   \* history: days whose unreadable summary let a summarize pass
    faults,
    crashes

files == <<raw, summary>>
bounds == <<faults, crashes>>
vars == <<today, files, ts, w, acked, skipped, bounds>>

NoFile == [on |-> FALSE, lines |-> {}]
NoSummary == [on |-> FALSE, size |-> 0, counts |-> {}]

\* A process without a Logger.
NoLogger ==
    [state |-> "down", day |-> NoDay, open |-> FALSE, linked |-> FALSE, pc |-> "idle",
     pending |-> {}, rec |-> {}, target |-> NoDay, sum |-> NoDay, size |-> 0, agg |-> {},
     tmp |-> FALSE, then |-> "open", list |-> {}, began |-> NoDay, pruned |-> FALSE,
     err |-> "none"]

WriterState ==
    [state : {"down", "opening", "up"},     \* opening: inside New
     day : 0 .. MaxDay,                     \* Logger.day
     open : BOOLEAN,                        \* Logger.rawFile is not nil ...
     linked : BOOLEAN,                      \* ... and its file is still in the directory
     pc : {"idle", "roll", "stat", "read", "aggregate", "rename", "open", "list", "prune",
           "remove", "append"},
     pending : SUBSET Record,               \* started, not yet handed to the Logger
     rec : SUBSET Record,                   \* the record being written; none in New
     target : 0 .. MaxDay,                  \* the day rollover opens
     sum : 0 .. MaxDay,                     \* summarize: the day ...
     size : Nat,                            \* ... rawSize ...
     agg : SUBSET Record,                   \* ... and what aggregateFile counted
     tmp : BOOLEAN,                         \* its temporary file is in the directory
     then : {"open", "remove"},             \* what summarize returns to
     list : SUBSET ({"raw", "summary"} \X Day),   \* prune: expired entries left
     began : 0 .. MaxDay,                   \* history: the day this write began
     pruned : BOOLEAN,                      \* history: the last rollover's prune finished
     err : {"none", "fault", "missing", "race"}]  \* history: why the last write failed

TypeOK ==
    /\ today \in Day
    /\ raw \in [Day -> [on : BOOLEAN, lines : SUBSET Record]]
    /\ summary \in [Day -> [on : BOOLEAN, size : Nat, counts : SUBSET Record]]
    /\ ts \in [Record -> 0 .. MaxDay]
    /\ w \in [Proc -> WriterState]
    /\ \A p \in Proc : w[p].pc = "append" => w[p].open /\ w[p].day = w[p].target
    /\ acked \in SUBSET Record
    /\ skipped \in SUBSET Day
    /\ faults \in 0 .. MaxFaults
    /\ crashes \in 0 .. MaxCrashes

Init ==
    /\ today = 1
    /\ raw = [d \in Day |-> NoFile]
    /\ summary = [d \in Day |-> NoSummary]
    /\ ts = [r \in Record |-> NoDay]
    /\ w = [p \in Proc |-> NoLogger]
    /\ acked = {}
    /\ skipped = {}
    /\ faults = 0
    /\ crashes = 0

-----------------------------------------------------------------------------
(* Time and the processes                                                  *)

InFlight(p) == w[p].pending \cup w[p].rec

\* A call outlasts its day by at most MaxLate midnights (statement_timeout ends
\* it), and a write, a few file-system calls, by at most one.
Tick ==
    /\ today < MaxDay
    /\ \A p \in Proc : /\ \A r \in InFlight(p) : today + 1 - ts[r] <= MaxLate
                       /\ w[p].pc # "idle" => w[p].began = today
    /\ today' = today + 1
    /\ UNCHANGED <<files, ts, w, acked, skipped, bounds>>

\* New opens today's file before the process does anything else.
Start(p) ==
    /\ w[p].state = "down"
    /\ w' = [w EXCEPT ![p] = [NoLogger EXCEPT !.state = "opening", !.pc = "roll",
                                              !.target = today, !.began = today]]
    /\ UNCHANGED <<today, files, ts, acked, skipped, bounds>>

\* Something to record begins; its record carries this moment.
StartRecord(p, r) ==
    /\ w[p].state = "up"
    /\ r \in Kinds(p)
    /\ ts[r] = NoDay
    /\ ts' = [ts EXCEPT ![r] = today]
    /\ w' = [w EXCEPT ![p].pending = @ \cup {r}]
    /\ UNCHANGED <<today, files, acked, skipped, bounds>>

\* A process ends between two writes: a command is done, serve-stdio loses its client.
Exit(p) ==
    /\ w[p].state = "up" /\ w[p].pc = "idle" /\ w[p].pending = {}
    /\ w' = [w EXCEPT ![p] = NoLogger]
    /\ UNCHANGED <<today, files, ts, acked, skipped, bounds>>

\* A record that is not written is gone; its name serves for a later one.
Forget(R) == ts' = [r \in Record |-> IF r \in R THEN NoDay ELSE ts[r]]

Crash(p) ==
    /\ w[p].state # "down"
    /\ crashes < MaxCrashes
    /\ crashes' = crashes + 1
    /\ Forget(InFlight(p))
    /\ w' = [w EXCEPT ![p] = NoLogger]
    /\ UNCHANGED <<today, files, acked, skipped, faults>>

-----------------------------------------------------------------------------
(* Ends of a write                                                         *)

At(p, pc) == w[p].pc = pc

\* The write returns an error; New's error leaves the process without a Logger.
Drop(p, log, why) ==
    /\ Forget(w[p].rec)
    /\ w' = [w EXCEPT ![p] = IF w[p].state = "opening" THEN NoLogger
                             ELSE [log EXCEPT !.pc = "idle", !.rec = {}, !.tmp = FALSE, !.err = why]]

\* ... because a file-system call failed.
DropOnFault(p, log) ==
    /\ faults < MaxFaults
    /\ faults' = faults + 1
    /\ Drop(p, log, "fault")
    /\ UNCHANGED <<today, files, acked, skipped, crashes>>

\* Seeded fault: a nil file is no reason to roll over, and writing to it fails.
BeginWrite_DayOnly(p, r) ==
    /\ w[p].state = "up" /\ At(p, "idle")
    /\ r \in w[p].pending
    /\ LET log == [w[p] EXCEPT !.rec = {r}, !.pending = @ \ {r}, !.target = ts[r], !.began = today]
       IN IF ts[r] = w[p].day /\ ~w[p].open
          THEN /\ w' = [w EXCEPT ![p] = [log EXCEPT !.rec = {}, !.err = "fault"]]
               /\ Forget({r})
          ELSE /\ w' = [w EXCEPT ![p] = [log EXCEPT !.pc =
                            IF ts[r] # w[p].day THEN "roll" ELSE "append"]]
               /\ UNCHANGED ts
    /\ UNCHANGED <<today, files, acked, skipped, bounds>>

\* Seeded fault: the same, but the write is taken to succeed.
BeginWrite_NilFile(p, r) ==
    /\ w[p].state = "up" /\ At(p, "idle")
    /\ r \in w[p].pending
    /\ w' = [w EXCEPT ![p].rec = {r}, ![p].pending = @ \ {r}, ![p].target = ts[r], ![p].began = today,
                      ![p].pc = IF ts[r] # w[p].day THEN "roll" ELSE "append"]
    /\ UNCHANGED <<today, files, ts, acked, skipped, bounds>>

\* write takes the mutex and decides whether to roll over.
BeginWrite(p, r) ==
    /\ w[p].state = "up" /\ At(p, "idle")
    /\ r \in w[p].pending
    /\ w' = [w EXCEPT ![p].rec = {r}, ![p].pending = @ \ {r}, ![p].target = ts[r], ![p].began = today,
                      ![p].pc = IF ts[r] # w[p].day \/ ~w[p].open THEN "roll" ELSE "append"]
    /\ UNCHANGED <<today, files, ts, acked, skipped, bounds>>

\* The line is appended through the open handle, wherever that file now is.
Append(p) ==
    /\ At(p, "append")
    /\ \/ /\ raw' = IF w[p].linked THEN [raw EXCEPT ![w[p].day].lines = @ \cup w[p].rec] ELSE raw
          /\ acked' = acked \cup w[p].rec
          /\ w' = [w EXCEPT ![p].pc = "idle", ![p].rec = {}, ![p].err = "none"]
          /\ UNCHANGED <<today, summary, ts, skipped, bounds>>
       \/ DropOnFault(p, w[p])

-----------------------------------------------------------------------------
(* rollover: close and summarize the old day, open the new one, prune      *)

Roll(p) ==
    /\ At(p, "roll")
    /\ \/ /\ w' = [w EXCEPT ![p].open = FALSE, ![p].sum = w[p].day, ![p].then = "open",
                             ![p].pc = IF w[p].day = NoDay THEN "open" ELSE "stat"]
          /\ UNCHANGED <<today, files, ts, acked, skipped, bounds>>
       \/ /\ w[p].open
          /\ DropOnFault(p, [w[p] EXCEPT !.open = FALSE])    \* Close fails

\* summarize returns nil: rollover forgets the old day and opens the new file,
\* or prune goes on to remove the raw file.
Summarized(p) ==
    w' = [w EXCEPT ![p].pc = w[p].then, ![p].tmp = FALSE, ![p].size = 0, ![p].agg = {},
                   ![p].day = IF w[p].then = "open" THEN NoDay ELSE @]

\* fileSize.  It wraps the error of Stat, so os.IsNotExist does not know it and
\* a missing raw file is an error like any other.
Stat(p) ==
    /\ At(p, "stat")
    /\ \/ /\ raw[w[p].sum].on
          /\ w' = [w EXCEPT ![p].size = Cardinality(raw[w[p].sum].lines), ![p].pc = "read"]
          /\ UNCHANGED <<today, files, ts, acked, skipped, bounds>>
       \/ /\ ~raw[w[p].sum].on
          /\ Drop(p, w[p], "missing")
          /\ UNCHANGED <<today, files, acked, skipped, bounds>>
       \/ DropOnFault(p, w[p])

\* An existing summary of the same raw_size is kept; one that cannot be read is
\* left alone.
ReadSummary(p) ==
    /\ At(p, "read")
    /\ \/ /\ IF summary[w[p].sum].on /\ summary[w[p].sum].size = w[p].size
             THEN Summarized(p)
             ELSE w' = [w EXCEPT ![p].pc = "aggregate"]
          /\ UNCHANGED <<today, files, ts, acked, skipped, bounds>>
       \/ /\ summary[w[p].sum].on
          /\ faults < MaxFaults
          /\ faults' = faults + 1
          /\ skipped' = skipped \cup {w[p].sum}
          /\ Summarized(p)
          /\ UNCHANGED <<today, files, ts, acked, crashes>>

\* Seeded fault: the summary carries the size of the file after it was read.
Rename_SizeLast(p) ==
    /\ At(p, "rename")
    /\ \/ /\ w[p].tmp
          /\ summary' = [summary EXCEPT ![w[p].sum] =
                [on |-> TRUE, size |-> Cardinality(raw[w[p].sum].lines), counts |-> w[p].agg]]
          /\ Summarized(p)
          /\ UNCHANGED <<today, raw, ts, acked, skipped, bounds>>
       \/ /\ ~w[p].tmp
          /\ Drop(p, w[p], "race")
          /\ UNCHANGED <<today, files, acked, skipped, bounds>>

\* aggregateFile: tool calls and rejections are counted, key events are not, and
\* only a tool call gives the summary its date.
Aggregated(lines) == lines \ KeyEvent
Dated(lines) == lines \cap Call # {}

\* aggregateFile, and the temporary file.  An aggregate without a date is not
\* written.
Aggregate(p) ==
    /\ At(p, "aggregate")
    /\ LET lines == raw[w[p].sum].lines IN
       \/ /\ raw[w[p].sum].on
          /\ IF Dated(lines)
             THEN w' = [w EXCEPT ![p].agg = Aggregated(lines), ![p].tmp = TRUE, ![p].pc = "rename"]
             ELSE Summarized(p)
          /\ UNCHANGED <<today, files, ts, acked, skipped, bounds>>
       \/ /\ ~raw[w[p].sum].on
          /\ Drop(p, w[p], "race")
          /\ UNCHANGED <<today, files, acked, skipped, bounds>>
       \/ DropOnFault(p, w[p])

\* The rename publishes the summary, if the temporary file is still there.
Rename(p) ==
    /\ At(p, "rename")
    /\ \/ /\ w[p].tmp
          /\ summary' = [summary EXCEPT ![w[p].sum] =
                            [on |-> TRUE, size |-> w[p].size, counts |-> w[p].agg]]
          /\ Summarized(p)
          /\ UNCHANGED <<today, raw, ts, acked, skipped, bounds>>
       \/ /\ ~w[p].tmp
          /\ Drop(p, w[p], "race")
          /\ UNCHANGED <<today, files, acked, skipped, bounds>>
       \/ /\ w[p].tmp
          /\ DropOnFault(p, w[p])

Open(p) ==
    /\ At(p, "open")
    /\ \/ /\ raw' = [raw EXCEPT ![w[p].target].on = TRUE]
          /\ w' = [w EXCEPT ![p].day = w[p].target, ![p].open = TRUE, ![p].linked = TRUE,
                            ![p].pc = "list", ![p].pruned = FALSE]
          /\ UNCHANGED <<today, summary, ts, acked, skipped, bounds>>
       \/ DropOnFault(p, w[p])

\* Seeded fault: a day is kept one day longer than configured.
Expired_StrictCutoff ==
    [raw |-> {d \in Day : raw[d].on /\ d < today - RawRetention},
     summary |-> {d \in Day : summary[d].on /\ d < today - SumRetention}]

\* The files on or before the cutoffs, of each kind.
Expired ==
    [raw |-> {d \in Day : raw[d].on /\ d <= today - RawRetention},
     summary |-> {d \in Day : summary[d].on /\ d <= today - SumRetention}]

\* prune reads the directory.  Temporary files count as left over by a crash,
\* also those that another process is about to rename.
List(p) ==
    /\ At(p, "list")
    /\ \/ /\ w' = [q \in Proc |-> IF q = p
                     THEN [w[p] EXCEPT !.pc = "prune", !.list =
                             {e \in {"raw", "summary"} \X Day :
                                e[2] \in Expired[e[1]] /\ e[2] # w[p].day}]
                     ELSE [w[q] EXCEPT !.tmp = FALSE]]
          /\ UNCHANGED <<today, files, ts, acked, skipped, bounds>>
       \/ DropOnFault(p, w[p])

RawLeft(p) == {e \in w[p].list : e[1] = "raw"}

\* Seeded fault: an expired raw file is removed without its summary.
Prune_NoSummary(p) ==
    /\ At(p, "prune")
    /\ \/ \E e \in RawLeft(p) :
             /\ w' = [w EXCEPT ![p].pc = "remove", ![p].sum = e[2]]
             /\ UNCHANGED <<today, files, ts, acked, skipped, bounds>>
       \/ /\ w[p].list = {}
          /\ w' = [w EXCEPT ![p].pruned = TRUE, ![p].state = "up",
                            ![p].pc = IF w[p].rec = {} THEN "idle" ELSE "append"]
          /\ UNCHANGED <<today, files, ts, acked, skipped, bounds>>

\* The loop over the entries, in name order: raw files first.
Prune(p) ==
    /\ At(p, "prune")
    /\ \/ \E e \in RawLeft(p) :
             /\ \A f \in RawLeft(p) : e[2] <= f[2]
             /\ w' = [w EXCEPT ![p].pc = "stat", ![p].sum = e[2], ![p].then = "remove"]
             /\ UNCHANGED <<today, files, ts, acked, skipped, bounds>>
       \/ /\ RawLeft(p) = {}
          /\ \E e \in w[p].list :
                /\ summary' = [summary EXCEPT ![e[2]] = NoSummary]
                /\ w' = [w EXCEPT ![p].list = @ \ {e}]
          /\ UNCHANGED <<today, raw, ts, acked, skipped, bounds>>
       \/ /\ RawLeft(p) = {} /\ w[p].list # {}
          /\ DropOnFault(p, w[p])
       \/ /\ w[p].list = {}
          /\ w' = [w EXCEPT ![p].pruned = TRUE, ![p].state = "up",
                            ![p].pc = IF w[p].rec = {} THEN "idle" ELSE "append"]
          /\ UNCHANGED <<today, files, ts, acked, skipped, bounds>>

\* The raw file goes; who has it open keeps writing to a file without a name.
Remove(p) ==
    /\ At(p, "remove")
    /\ \/ /\ raw' = [raw EXCEPT ![w[p].sum] = NoFile]
          /\ w' = [q \in Proc |-> IF q = p
                     THEN [w[p] EXCEPT !.pc = "prune", !.list = @ \ {<<"raw", w[p].sum>>}]
                     ELSE [w[q] EXCEPT !.linked = @ /\ w[q].day # w[p].sum]]
          /\ UNCHANGED <<today, summary, ts, acked, skipped, bounds>>
       \/ DropOnFault(p, w[p])

WriterStep(p) ==
    \/ \E r \in Record : BeginWrite(p, r)
    \/ Append(p) \/ Roll(p) \/ Stat(p) \/ ReadSummary(p) \/ Aggregate(p) \/ Rename(p)
    \/ Open(p) \/ List(p) \/ Prune(p) \/ Remove(p)

Next ==
    \/ Tick
    \/ \E p \in Proc :
          \/ Start(p) \/ Exit(p) \/ Crash(p) \/ WriterStep(p)
          \/ \E r \in Record : StartRecord(p, r)

Spec == Init /\ [][Next]_vars

\* The scheduler runs a write that has begun, and requests keep coming.
FairSpec ==
    /\ Spec
    /\ \A p \in Gateway : WF_vars(WriterStep(p)) /\ WF_vars(\E r \in Record : StartRecord(p, r))

-----------------------------------------------------------------------------
(* Properties                                                              *)

\* Within its retention, or when its summary could not be read.
Excused(r) == ts[r] <= today - SumRetention \/ ts[r] \in skipped

\* Stored: a line of the raw file of its day, or counted in that day's summary.
Stored(r) == r \in raw[ts[r]].lines \/ r \in summary[ts[r]].counts

\* No record is lost to retention: whatever processes roll over, prune, fail or
\* die, a recorded call is in the raw file of its day or counted in its summary
\* until the summary expires ("summarize first, then remove"), and so is a
\* recorded authentication failure of a day that has a call: summarize writes
\* nothing for a day without one.
RecordsSurvive ==
    \A r \in acked \cap (Call \cup AuthFailure) :
        \/ Stored(r) \/ Excused(r)
        \/ r \in AuthFailure /\ \A c \in acked \cap Call : ts[c] # ts[r]

\* The idempotence key of summarize is sound: a summary whose raw_size is that of
\* the raw file counts every line of it, so skipping the day never freezes an old
\* aggregate (lines appended while it was computed, two processes at once).
SummaryKeyIsSound ==
    \A d \in Day :
        raw[d].on /\ summary[d].on /\ summary[d].size = Cardinality(raw[d].lines)
            => Aggregated(raw[d].lines) \subseteq summary[d].counts

\* Retention holds: once a Logger has rolled over to today and its prune finished,
\* no raw file on or before the cutoff is left.
RetentionHolds ==
    \A p \in Proc :
        w[p].state = "up" /\ w[p].pc = "idle" /\ w[p].pruned /\ w[p].day = today
            => \A d \in Day : raw[d].on => d > today - RawRetention

\* A Logger heals: after a failed write, if requests keep coming, a later one
\* is written (or the process is gone).
LoggerHeals ==
    \A p \in Gateway : w[p].err # "none" ~> w[p].err = "none"
=============================================================================

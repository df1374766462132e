--------------------------- MODULE ExecRecordProofs ---------------------------
(***************************************************************************)
(* Proofs about ExecRecord for any number of processes, records, days,     *)
(* faults and crashes: types; and, when raw files are kept for longer than *)
(* a record can be late, that the summary key is sound, that no record is  *)
(* lost to retention, and that retention holds.                            *)
(***************************************************************************)
EXTENDS ExecRecord, FiniteSetTheorems, TLAPS

\* Raw files outlive the last write that can still reach them (the default
\* keeps them for seven days, and a call ends within hours).
Roomy == RawRetention > MaxLate + 1

\* One process has the directory for itself.
Alone == \A p, q \in Proc : p = q

\* What was recorded for a day.
Of(d) == {r \in acked : ts[r] = d}

Summarizing(p) == w[p].pc \in {"stat", "read", "aggregate", "rename"}

\* On the way to removing the raw file of w[p].sum.
Removing(p) == w[p].pc = "remove" \/ (Summarizing(p) /\ w[p].then = "remove")

\* The rollover to w[p].target has opened its file.
Rolled(p) == w[p].pc \in {"list", "prune"} \/ Removing(p)

\* What a Logger's place says about its handle and its list.
Placed(p) ==
    /\ w[p].open => w[p].day \in Day
    /\ w[p].pc = "append" \/ Rolled(p) => w[p].open /\ w[p].day = w[p].target
    /\ w[p].pc = "open" \/ (Summarizing(p) /\ w[p].then = "open") => ~w[p].open
    /\ w[p].pc = "prune" \/ Removing(p) => \A e \in w[p].list : e[2] # w[p].day
    /\ Summarizing(p) \/ w[p].pc = "remove" => w[p].sum \in Day
    /\ Removing(p) => <<"raw", w[p].sum>> \in w[p].list
    /\ w[p].open /\ w[p].linked => raw[w[p].day].on

\* No write lasts beyond the next midnight, no record is more than MaxLate late.
InTime(p) ==
    /\ w[p].day <= today
    /\ w[p].pc # "idle" =>
          /\ w[p].began \in Day /\ w[p].began <= today /\ today <= w[p].began + 1
          /\ w[p].target \in Day /\ w[p].target <= w[p].began
          /\ w[p].rec = {} => w[p].target = w[p].began
    /\ \A r \in w[p].rec : w[p].target = ts[r]
    /\ \A r \in InFlight(p) : ts[r] \in Day /\ ts[r] <= today /\ today - ts[r] <= MaxLate

\* A record is written once, by one process.
Owned(p) ==
    /\ InFlight(p) \cap acked = {}
    /\ w[p].rec \cap w[p].pending = {}
    /\ w[p].rec = {} \/ \E r \in Record : w[p].rec = {r}
    /\ \A q \in Proc \ {p} : InFlight(p) \cap InFlight(q) = {}

Recorded ==
    /\ \A r \in acked : ts[r] \in Day /\ ts[r] <= today
    /\ IsFiniteSet(acked)
    /\ \A d \in Day : IsFiniteSet(raw[d].lines)

Orderly ==
    /\ TypeOK
    /\ \A p \in Proc : Placed(p) /\ InTime(p) /\ Owned(p)
    /\ Recorded

-----------------------------------------------------------------------------
(* What each step does to the Loggers                                      *)

SameWrite(p) ==
    /\ w'[p].pending = w[p].pending /\ w'[p].rec = w[p].rec
    /\ w'[p].target = w[p].target /\ w'[p].began = w[p].began

SameHandle(p) ==
    /\ w'[p].day = w[p].day /\ w'[p].open = w[p].open /\ w'[p].linked = w[p].linked
    /\ w'[p].pruned = w[p].pruned

SameSum(p) ==
    /\ w'[p].sum = w[p].sum /\ w'[p].size = w[p].size /\ w'[p].agg = w[p].agg
    /\ w'[p].then = w[p].then

SameList(p) == w'[p].list = w[p].list

Untouched(p) ==
    SameWrite(p) /\ SameHandle(p) /\ SameSum(p) /\ SameList(p) /\ w'[p].pc = w[p].pc

Alters(p) == w' \in [Proc -> WriterState] /\ \A q \in Proc \ {p} : Untouched(q)

\* The write of p ends without success, or p ends; what it forgets is its own.
Stops(p) ==
    /\ Alters(p)
    /\ w'[p].pc = "idle" /\ w'[p].rec = {}
    /\ w'[p].pending \subseteq w[p].pending
    /\ w'[p].list \subseteq w[p].list
    /\ \/ /\ w'[p].day = w[p].day /\ w'[p].linked = w[p].linked
          /\ w'[p].pruned = w[p].pruned /\ w'[p].open \in {FALSE, w[p].open}
       \/ w'[p].day = NoDay /\ ~w'[p].open /\ ~w'[p].pruned
    /\ \E R \in SUBSET InFlight(p) : Forget(R) /\ R \cap w'[p].pending = {}
    /\ UNCHANGED <<today, files, acked, skipped>>

Starts(p) ==
    /\ Alters(p)
    /\ w'[p].pc = "roll" /\ w'[p].target = today /\ w'[p].began = today
    /\ w'[p].pending = {} /\ w'[p].rec = {} /\ w'[p].list = {}
    /\ w'[p].day = NoDay /\ ~w'[p].open /\ ~w'[p].pruned
    /\ UNCHANGED <<today, files, ts, acked, skipped>>

Begins(p, r) ==
    /\ Alters(p) /\ SameHandle(p) /\ SameSum(p) /\ SameList(p)
    /\ w'[p].rec = {r} /\ w'[p].pending = w[p].pending \ {r}
    /\ w'[p].target = ts[r] /\ w'[p].began = today
    /\ \/ w'[p].pc = "roll"
       \/ w'[p].pc = "append" /\ w[p].open /\ w[p].day = ts[r]
    /\ UNCHANGED <<today, files, ts, acked, skipped>>

LEMMA Becomes ==
    ASSUME w \in [Proc -> WriterState], NEW p \in Proc, NEW l \in WriterState,
           w' = [w EXCEPT ![p] = l]
    PROVE  Alters(p) /\ w'[p] = l
BY DEF Alters, Untouched, SameWrite, SameHandle, SameSum, SameList

LEMMA NoLoggerTyped == NoLogger \in WriterState
BY RecordBounds DEF NoLogger, WriterState, NoDay

\* A process that ends leaves no Logger.
LEMMA GoneStops ==
    ASSUME TypeOK, NEW p \in Proc, w' = [w EXCEPT ![p] = NoLogger],
           NEW R \in SUBSET InFlight(p), Forget(R), UNCHANGED <<today, files, acked, skipped>>
    PROVE  Stops(p)
<1>1. Alters(p) /\ w'[p] = NoLogger
  BY Becomes, NoLoggerTyped DEF TypeOK
<1>2. /\ NoLogger.pc = "idle" /\ NoLogger.rec = {} /\ NoLogger.pending = {} /\ NoLogger.list = {}
      /\ NoLogger.day = NoDay /\ ~NoLogger.open /\ ~NoLogger.pruned
  BY DEF NoLogger
<1>3. Forget(R) /\ R \cap w'[p].pending = {}
  BY <1>1, <1>2
<1>4. \E S \in SUBSET InFlight(p) : Forget(S) /\ S \cap w'[p].pending = {}
  BY <1>3
<1> QED BY <1>1, <1>2, <1>4 DEF Stops

LEMMA NothingForgotten ==
    ASSUME TypeOK, UNCHANGED ts  PROVE  Forget({})
BY DEF TypeOK, Forget

\* A write that fails, with the handle possibly closed.
LEMMA DropStops ==
    ASSUME TypeOK, NEW p \in Proc, NEW log, NEW why \in {"none", "fault", "missing", "race"},
           log = w[p] \/ log = [w[p] EXCEPT !.open = FALSE],
           w[p].rec \cap w[p].pending = {},
           Drop(p, log, why), UNCHANGED <<today, files, acked, skipped>>
    PROVE  Stops(p)
<1>1. w[p] \in WriterState /\ w \in [Proc -> WriterState]
  BY DEF TypeOK
<1>2. Forget(w[p].rec) /\ w[p].rec \in SUBSET InFlight(p)
  BY DEF Drop, InFlight
<1>3. CASE w[p].state = "opening"
  <2>1. w' = [w EXCEPT ![p] = NoLogger]
    BY <1>3 DEF Drop
  <2> QED BY <1>2, <2>1, GoneStops
<1>4. CASE w[p].state # "opening"
  <2> DEFINE m == [log EXCEPT !.pc = "idle", !.rec = {}, !.tmp = FALSE, !.err = why]
  <2>1. log \in WriterState
    BY <1>1 DEF WriterState
  <2>2. m \in WriterState
    BY <2>1 DEF WriterState
  <2>3. w' = [w EXCEPT ![p] = m]
    BY <1>4 DEF Drop
  <2>4. /\ log.day = w[p].day /\ log.linked = w[p].linked /\ log.pruned = w[p].pruned
        /\ log.pending = w[p].pending /\ log.list = w[p].list /\ log.open \in {FALSE, w[p].open}
    BY <1>1 DEF WriterState
  <2>5. /\ m.pc = "idle" /\ m.rec = {} /\ m.pending = log.pending /\ m.list = log.list
        /\ m.day = log.day /\ m.linked = log.linked /\ m.pruned = log.pruned
        /\ m.open = log.open
    BY <2>1 DEF WriterState
  <2> HIDE DEF m
  <2>6. Alters(p) /\ w'[p] = m
    BY <1>1, <2>2, <2>3, Becomes
  <2> QED BY <1>2, <2>4, <2>5, <2>6 DEF Stops
<1> QED BY <1>3, <1>4

LEMMA DropOnFaultStops ==
    ASSUME TypeOK, NEW p \in Proc, NEW log,
           log = w[p] \/ log = [w[p] EXCEPT !.open = FALSE],
           w[p].rec \cap w[p].pending = {}, DropOnFault(p, log)
    PROVE  Stops(p)
BY DropStops DEF DropOnFault

LEMMA ExitStops ==
    ASSUME TypeOK, NEW p \in Proc, Exit(p)
    PROVE  Stops(p)
<1>1. Forget({}) /\ {} \in SUBSET InFlight(p)
  BY NothingForgotten DEF Exit
<1> QED BY <1>1, GoneStops DEF Exit

LEMMA CrashStops ==
    ASSUME TypeOK, NEW p \in Proc, Crash(p)
    PROVE  Stops(p)
<1>1. InFlight(p) \in SUBSET InFlight(p)
  OBVIOUS
<1> QED BY <1>1, GoneStops DEF Crash

LEMMA StartStarts ==
    ASSUME TypeOK, NEW p \in Proc, Start(p)
    PROVE  Starts(p)
<1> DEFINE m == [NoLogger EXCEPT !.state = "opening", !.pc = "roll", !.target = today, !.began = today]
<1>1. today \in 0 .. MaxDay
  BY RecordBounds DEF TypeOK, Day
<1>2. m \in WriterState
  BY <1>1, NoLoggerTyped DEF WriterState
<1>3. /\ m.pc = "roll" /\ m.target = today /\ m.began = today
      /\ m.pending = {} /\ m.rec = {} /\ m.list = {}
      /\ m.day = NoDay /\ m.open = FALSE /\ m.pruned = FALSE
  BY DEF NoLogger
<1>4. w' = [w EXCEPT ![p] = m]
  BY DEF Start
<1> HIDE DEF m
<1>5. Alters(p) /\ w'[p] = m
  BY <1>2, <1>4, Becomes DEF TypeOK
<1> QED BY <1>3, <1>5 DEF Start, Starts

LEMMA BeginWriteBegins ==
    ASSUME TypeOK, NEW p \in Proc, NEW r \in Record, BeginWrite(p, r)
    PROVE  Begins(p, r)
<1> DEFINE m == [w[p] EXCEPT !.rec = {r}, !.pending = @ \ {r}, !.target = ts[r], !.began = today,
                             !.pc = IF ts[r] # w[p].day \/ ~w[p].open THEN "roll" ELSE "append"]
<1>1. w[p] \in WriterState /\ today \in 0 .. MaxDay /\ ts[r] \in 0 .. MaxDay
  BY RecordBounds DEF TypeOK, Day
<1>2. m \in WriterState
  BY <1>1 DEF WriterState
<1>3. w' = [w EXCEPT ![p] = m]
  BY DEF BeginWrite
<1>4. SameHandle(p) /\ SameSum(p) /\ SameList(p)
  BY <1>1, <1>3 DEF SameHandle, SameSum, SameList, WriterState, TypeOK
<1>5. /\ m.rec = {r} /\ m.pending = w[p].pending \ {r} /\ m.target = ts[r] /\ m.began = today
      /\ m.pc = "roll" \/ (m.pc = "append" /\ w[p].open /\ w[p].day = ts[r])
  BY <1>1 DEF WriterState
<1> HIDE DEF m
<1>6. Alters(p) /\ w'[p] = m
  BY <1>2, <1>3, Becomes DEF TypeOK
<1> QED BY <1>4, <1>5, <1>6 DEF BeginWrite, Begins

-----------------------------------------------------------------------------
(* ... the steps of a rollover                                             *)

Appends(p) ==
    /\ w[p].pc = "append"
    /\ Alters(p) /\ SameHandle(p) /\ SameSum(p) /\ SameList(p)
    /\ w'[p].pc = "idle" /\ w'[p].rec = {} /\ w'[p].pending = w[p].pending
    /\ raw' = IF w[p].linked THEN [raw EXCEPT ![w[p].day].lines = @ \cup w[p].rec] ELSE raw
    /\ acked' = acked \cup w[p].rec
    /\ UNCHANGED <<today, summary, ts, skipped>>

RollsOff(p) ==
    /\ w[p].pc = "roll"
    /\ Alters(p) /\ SameWrite(p) /\ SameList(p)
    /\ w'[p].day = w[p].day /\ ~w'[p].open /\ w'[p].pruned = w[p].pruned
    /\ w'[p].sum = w[p].day /\ w'[p].then = "open"
    /\ \/ w'[p].pc = "open"
       \/ w'[p].pc = "stat" /\ w[p].day # NoDay
    /\ UNCHANGED <<today, files, ts, acked, skipped>>

Sizes(p) ==
    /\ w[p].pc = "stat" /\ raw[w[p].sum].on
    /\ Alters(p) /\ SameWrite(p) /\ SameHandle(p) /\ SameList(p)
    /\ w'[p].pc = "read" /\ w'[p].sum = w[p].sum /\ w'[p].then = w[p].then
    /\ w'[p].size = Cardinality(raw[w[p].sum].lines)
    /\ UNCHANGED <<today, files, ts, acked, skipped>>

FindsOld(p) ==
    /\ w[p].pc = "read"
    /\ Alters(p) /\ SameWrite(p) /\ SameHandle(p) /\ SameSum(p) /\ SameList(p)
    /\ w'[p].pc = "aggregate"
    /\ UNCHANGED <<today, files, ts, acked, skipped>>

Computes(p) ==
    /\ w[p].pc = "aggregate" /\ raw[w[p].sum].on
    /\ Alters(p) /\ SameWrite(p) /\ SameHandle(p) /\ SameList(p)
    /\ w'[p].pc = "rename" /\ w'[p].sum = w[p].sum /\ w'[p].then = w[p].then
    /\ w'[p].size = w[p].size /\ w'[p].agg = Aggregated(raw[w[p].sum].lines)
    /\ UNCHANGED <<today, files, ts, acked, skipped>>

\* summarize returns: an equal summary is there, it could not be read, the day
\* has no call, or the new one is published.
Passes(p) ==
    /\ Alters(p) /\ SameWrite(p) /\ SameList(p)
    /\ w'[p].pc = w[p].then /\ w'[p].sum = w[p].sum /\ w'[p].then = w[p].then
    /\ w'[p].open = w[p].open /\ w'[p].linked = w[p].linked /\ w'[p].pruned = w[p].pruned
    /\ w'[p].day = IF w[p].then = "open" THEN NoDay ELSE w[p].day
    /\ UNCHANGED <<today, raw, ts, acked>>

KeepsSummary(p) ==
    /\ w[p].pc = "read" /\ summary[w[p].sum].on /\ summary[w[p].sum].size = w[p].size
    /\ Passes(p) /\ UNCHANGED <<summary, skipped>>

SkipsSummary(p) ==
    /\ w[p].pc = "read"
    /\ Passes(p) /\ UNCHANGED summary /\ skipped' = skipped \cup {w[p].sum}

NeedsNoSummary(p) ==
    /\ w[p].pc = "aggregate" /\ raw[w[p].sum].on /\ ~Dated(raw[w[p].sum].lines)
    /\ Passes(p) /\ UNCHANGED <<summary, skipped>>

Publishes(p) ==
    /\ w[p].pc = "rename"
    /\ Passes(p) /\ UNCHANGED skipped
    /\ summary' = [summary EXCEPT ![w[p].sum] =
                      [on |-> TRUE, size |-> w[p].size, counts |-> w[p].agg]]

Opens(p) ==
    /\ w[p].pc = "open"
    /\ Alters(p) /\ SameWrite(p) /\ SameSum(p) /\ SameList(p)
    /\ w'[p].pc = "list" /\ w'[p].day = w[p].target
    /\ w'[p].open /\ w'[p].linked /\ ~w'[p].pruned
    /\ raw' = [raw EXCEPT ![w[p].target].on = TRUE]
    /\ UNCHANGED <<today, summary, ts, acked, skipped>>

Lists(p) ==
    /\ w[p].pc = "list"
    /\ Alters(p) /\ SameWrite(p) /\ SameHandle(p) /\ SameSum(p)
    /\ w'[p].pc = "prune"
    /\ w'[p].list = {e \in {"raw", "summary"} \X Day : e[2] \in Expired[e[1]] /\ e[2] # w[p].day}
    /\ UNCHANGED <<today, files, ts, acked, skipped>>

TurnsTo(p, e) ==
    /\ w[p].pc = "prune" /\ e \in w[p].list /\ e[1] = "raw"
    /\ Alters(p) /\ SameWrite(p) /\ SameHandle(p) /\ SameList(p)
    /\ w'[p].pc = "stat" /\ w'[p].sum = e[2] /\ w'[p].then = "remove"
    /\ UNCHANGED <<today, files, ts, acked, skipped>>

Expires(p, e) ==
    /\ w[p].pc = "prune" /\ e \in w[p].list /\ e[1] = "summary"
    /\ Alters(p) /\ SameWrite(p) /\ SameHandle(p) /\ SameSum(p)
    /\ w'[p].pc = "prune" /\ w'[p].list = w[p].list \ {e}
    /\ summary' = [summary EXCEPT ![e[2]] = NoSummary]
    /\ UNCHANGED <<today, raw, ts, acked, skipped>>

Finishes(p) ==
    /\ w[p].pc = "prune" /\ w[p].list = {}
    /\ Alters(p) /\ SameWrite(p) /\ SameSum(p) /\ SameList(p)
    /\ w'[p].day = w[p].day /\ w'[p].open = w[p].open /\ w'[p].linked = w[p].linked
    /\ w'[p].pruned
    /\ w'[p].pc \in {"idle", "append"}
    /\ UNCHANGED <<today, files, ts, acked, skipped>>

Removes(p) ==
    /\ w[p].pc = "remove"
    /\ w' \in [Proc -> WriterState]
    /\ \A q \in Proc : /\ SameWrite(q) /\ SameSum(q)
                       /\ w'[q].day = w[q].day /\ w'[q].open = w[q].open
                       /\ w'[q].pruned = w[q].pruned
    /\ \A q \in Proc \ {p} : /\ SameList(q) /\ w'[q].pc = w[q].pc
                             /\ w'[q].linked <=> w[q].linked /\ w[q].day # w[p].sum
    /\ w'[p].pc = "prune" /\ w'[p].list = w[p].list \ {<<"raw", w[p].sum>>}
    /\ w'[p].linked = w[p].linked
    /\ raw' = [raw EXCEPT ![w[p].sum] = NoFile]
    /\ UNCHANGED <<today, summary, ts, acked, skipped>>

LEMMA AppendEffect ==
    ASSUME TypeOK, NEW p \in Proc, w[p].rec \cap w[p].pending = {}, Append(p)
    PROVE  Appends(p) \/ Stops(p)
<1>1. CASE DropOnFault(p, w[p])
  BY <1>1, DropOnFaultStops
<1>2. CASE ~DropOnFault(p, w[p])
  <2> DEFINE m == [w[p] EXCEPT !.pc = "idle", !.rec = {}, !.err = "none"]
  <2>1. w[p] \in WriterState
    BY DEF TypeOK
  <2>2. m \in WriterState
    BY <2>1 DEF WriterState
  <2>3. w' = [w EXCEPT ![p] = m]
    BY <1>2 DEF Append
  <2>4. SameHandle(p) /\ SameSum(p) /\ SameList(p)
    BY <2>1, <2>3 DEF SameHandle, SameSum, SameList, WriterState, TypeOK
  <2>5. m.pc = "idle" /\ m.rec = {} /\ m.pending = w[p].pending
    BY <2>1 DEF WriterState
  <2> HIDE DEF m
  <2>6. Alters(p) /\ w'[p] = m
    BY <2>2, <2>3, Becomes DEF TypeOK
  <2> QED BY <1>2, <2>4, <2>5, <2>6 DEF Append, Appends, At
<1> QED BY <1>1, <1>2

LEMMA RollEffect ==
    ASSUME TypeOK, NEW p \in Proc, w[p].rec \cap w[p].pending = {}, Roll(p)
    PROVE  RollsOff(p) \/ Stops(p)
<1>1. CASE DropOnFault(p, [w[p] EXCEPT !.open = FALSE])
  BY <1>1, DropOnFaultStops
<1>2. CASE ~DropOnFault(p, [w[p] EXCEPT !.open = FALSE])
  <2> DEFINE m == [w[p] EXCEPT !.open = FALSE, !.sum = w[p].day, !.then = "open",
                               !.pc = IF w[p].day = NoDay THEN "open" ELSE "stat"]
  <2>1. w[p] \in WriterState
    BY DEF TypeOK
  <2>2. m \in WriterState
    BY <2>1 DEF WriterState
  <2>3. w' = [w EXCEPT ![p] = m]
    BY <1>2 DEF Roll
  <2>4. SameWrite(p) /\ SameList(p)
    BY <2>1, <2>3 DEF SameWrite, SameList, WriterState, TypeOK
  <2>5. /\ m.day = w[p].day /\ m.open = FALSE /\ m.pruned = w[p].pruned
        /\ m.sum = w[p].day /\ m.then = "open"
        /\ m.pc = "open" \/ (m.pc = "stat" /\ w[p].day # NoDay)
    BY <2>1 DEF WriterState
  <2> HIDE DEF m
  <2>6. Alters(p) /\ w'[p] = m
    BY <2>2, <2>3, Becomes DEF TypeOK
  <2> QED BY <1>2, <2>4, <2>5, <2>6 DEF Roll, RollsOff, At
<1> QED BY <1>1, <1>2

LEMMA StatEffect ==
    ASSUME TypeOK, NEW p \in Proc, w[p].rec \cap w[p].pending = {}, Stat(p),
           IsFiniteSet(raw[w[p].sum].lines)
    PROVE  Sizes(p) \/ Stops(p)
<1>1. CASE DropOnFault(p, w[p])
  BY <1>1, DropOnFaultStops
<1>2. CASE ~raw[w[p].sum].on /\ ~DropOnFault(p, w[p])
  <2>1. Drop(p, w[p], "missing") /\ UNCHANGED <<today, files, acked, skipped>>
    BY <1>2 DEF Stat
  <2> QED BY <2>1, DropStops
<1>3. CASE raw[w[p].sum].on /\ ~DropOnFault(p, w[p])
  <2> DEFINE size == Cardinality(raw[w[p].sum].lines)
             m == [w[p] EXCEPT !.size = size, !.pc = "read"]
  <2>1. w[p] \in WriterState /\ size \in Nat
    BY FS_CardinalityType DEF TypeOK
  <2>2. w' = [w EXCEPT ![p] = m]
    BY <1>3 DEF Stat
  <2> HIDE DEF size
  <2>3. m \in WriterState
    BY <2>1 DEF WriterState
  <2>4. SameWrite(p) /\ SameHandle(p) /\ SameList(p)
    BY <2>1, <2>2 DEF SameWrite, SameHandle, SameList, WriterState, TypeOK
  <2>5. m.pc = "read" /\ m.size = size /\ m.sum = w[p].sum /\ m.then = w[p].then
    BY <2>1 DEF WriterState
  <2> HIDE DEF m
  <2>6. Alters(p) /\ w'[p] = m
    BY <2>2, <2>3, Becomes DEF TypeOK
  <2> QED BY <1>3, <2>4, <2>5, <2>6 DEF Stat, Sizes, At, size
<1> QED BY <1>1, <1>2, <1>3

LEMMA SummarizedPasses ==
    ASSUME TypeOK, NEW p \in Proc, Summarized(p), UNCHANGED <<today, raw, ts, acked>>
    PROVE  Passes(p)
<1> DEFINE day == IF w[p].then = "open" THEN NoDay ELSE w[p].day
           m == [w[p] EXCEPT !.pc = w[p].then, !.tmp = FALSE, !.size = 0, !.agg = {}, !.day = day]
<1>1. w[p] \in WriterState /\ day \in 0 .. MaxDay
  BY RecordBounds DEF TypeOK, NoDay, WriterState
<1>2. w' = [w EXCEPT ![p] = m]
  BY DEF Summarized
<1> HIDE DEF day
<1>3. m \in WriterState
  BY <1>1 DEF WriterState
<1>4. SameWrite(p) /\ SameList(p)
  BY <1>1, <1>2 DEF SameWrite, SameList, WriterState, TypeOK
<1>5. /\ m.pc = w[p].then /\ m.sum = w[p].sum /\ m.then = w[p].then
      /\ m.open = w[p].open /\ m.linked = w[p].linked /\ m.pruned = w[p].pruned
      /\ m.day = day
  BY <1>1 DEF WriterState
<1> HIDE DEF m
<1>6. Alters(p) /\ w'[p] = m
  BY <1>3, <1>2, Becomes DEF TypeOK
<1> QED BY <1>4, <1>5, <1>6 DEF Passes, day

LEMMA ReadSummaryEffect ==
    ASSUME TypeOK, NEW p \in Proc, ReadSummary(p)
    PROVE  FindsOld(p) \/ KeepsSummary(p) \/ SkipsSummary(p)
<1>1. CASE /\ summary[w[p].sum].on /\ summary[w[p].sum].size = w[p].size
           /\ Summarized(p) /\ UNCHANGED <<today, files, ts, acked, skipped, bounds>>
  BY <1>1, SummarizedPasses DEF ReadSummary, KeepsSummary, At, files
<1>2. CASE Summarized(p) /\ skipped' = skipped \cup {w[p].sum} /\ UNCHANGED <<today, files, ts, acked>>
  BY <1>2, SummarizedPasses DEF ReadSummary, SkipsSummary, At, files
<1>3. CASE /\ w' = [w EXCEPT ![p].pc = "aggregate"]
           /\ UNCHANGED <<today, files, ts, acked, skipped, bounds>>
  <2> DEFINE m == [w[p] EXCEPT !.pc = "aggregate"]
  <2>1. w[p] \in WriterState
    BY DEF TypeOK
  <2>2. m \in WriterState
    BY <2>1 DEF WriterState
  <2>3. w' = [w EXCEPT ![p] = m]
    BY <1>3
  <2>4. SameWrite(p) /\ SameHandle(p) /\ SameSum(p) /\ SameList(p)
    BY <2>1, <2>3 DEF SameWrite, SameHandle, SameSum, SameList, WriterState, TypeOK
  <2>5. m.pc = "aggregate"
    BY <2>1 DEF WriterState
  <2> HIDE DEF m
  <2>6. Alters(p) /\ w'[p] = m
    BY <2>2, <2>3, Becomes DEF TypeOK
  <2> QED BY <1>3, <2>4, <2>5, <2>6 DEF ReadSummary, FindsOld, At
<1> QED BY <1>1, <1>2, <1>3 DEF ReadSummary

LEMMA AggregateEffect ==
    ASSUME TypeOK, NEW p \in Proc, w[p].rec \cap w[p].pending = {}, Aggregate(p), w[p].sum \in Day
    PROVE  Computes(p) \/ NeedsNoSummary(p) \/ Stops(p)
<1> DEFINE lines == raw[w[p].sum].lines
<1>1. CASE DropOnFault(p, w[p])
  BY <1>1, DropOnFaultStops
<1>2. CASE ~raw[w[p].sum].on /\ ~DropOnFault(p, w[p])
  <2>1. Drop(p, w[p], "race") /\ UNCHANGED <<today, files, acked, skipped>>
    BY <1>2 DEF Aggregate
  <2> QED BY <2>1, DropStops
<1>3. CASE raw[w[p].sum].on /\ ~DropOnFault(p, w[p]) /\ ~Dated(lines)
  <2>1. Summarized(p) /\ UNCHANGED <<today, files, ts, acked, skipped>>
    BY <1>3 DEF Aggregate
  <2>2. Passes(p)
    BY <2>1, SummarizedPasses DEF files
  <2> QED BY <1>3, <2>1, <2>2 DEF Aggregate, NeedsNoSummary, At, files
<1>4. CASE raw[w[p].sum].on /\ ~DropOnFault(p, w[p]) /\ Dated(lines)
  <2> DEFINE agg == Aggregated(lines)
             m == [w[p] EXCEPT !.agg = agg, !.tmp = TRUE, !.pc = "rename"]
  <2>1. w[p] \in WriterState /\ agg \in SUBSET Record
    BY DEF TypeOK, Aggregated
  <2>2. w' = [w EXCEPT ![p] = m]
    BY <1>4 DEF Aggregate
  <2>3. UNCHANGED <<today, files, ts, acked, skipped>>
    BY <1>4 DEF Aggregate
  <2> HIDE DEF agg
  <2>4. m \in WriterState
    BY <2>1 DEF WriterState
  <2>5. SameWrite(p) /\ SameHandle(p) /\ SameList(p)
    BY <2>1, <2>2 DEF SameWrite, SameHandle, SameList, WriterState, TypeOK
  <2>6. /\ m.pc = "rename" /\ m.size = w[p].size /\ m.sum = w[p].sum /\ m.then = w[p].then
        /\ m.agg = agg
    BY <2>1 DEF WriterState
  <2> HIDE DEF m
  <2>7. Alters(p) /\ w'[p] = m
    BY <2>2, <2>4, Becomes DEF TypeOK
  <2> QED BY <1>4, <2>3, <2>5, <2>6, <2>7 DEF Aggregate, Computes, At, agg
<1> QED BY <1>1, <1>2, <1>3, <1>4

LEMMA RenameEffect ==
    ASSUME TypeOK, NEW p \in Proc, w[p].rec \cap w[p].pending = {}, Rename(p)
    PROVE  Publishes(p) \/ Stops(p)
<1>1. CASE DropOnFault(p, w[p])
  BY <1>1, DropOnFaultStops
<1>2. CASE Drop(p, w[p], "race") /\ UNCHANGED <<today, files, acked, skipped, bounds>>
  BY <1>2, DropStops
<1>3. CASE ~DropOnFault(p, w[p]) /\ ~(Drop(p, w[p], "race") /\ UNCHANGED <<today, files, acked, skipped, bounds>>)
  BY <1>3, SummarizedPasses DEF Rename, Publishes, At
<1> QED BY <1>1, <1>2, <1>3

LEMMA OpenEffect ==
    ASSUME TypeOK, NEW p \in Proc, w[p].rec \cap w[p].pending = {}, Open(p)
    PROVE  Opens(p) \/ Stops(p)
<1>1. CASE DropOnFault(p, w[p])
  BY <1>1, DropOnFaultStops
<1>2. CASE ~DropOnFault(p, w[p])
  <2> DEFINE m == [w[p] EXCEPT !.day = w[p].target, !.open = TRUE, !.linked = TRUE,
                               !.pc = "list", !.pruned = FALSE]
  <2>1. w[p] \in WriterState
    BY DEF TypeOK
  <2>2. m \in WriterState
    BY <2>1 DEF WriterState
  <2>3. w' = [w EXCEPT ![p] = m]
    BY <1>2 DEF Open
  <2>4. SameWrite(p) /\ SameSum(p) /\ SameList(p)
    BY <2>1, <2>3 DEF SameWrite, SameSum, SameList, WriterState, TypeOK
  <2>5. m.pc = "list" /\ m.day = w[p].target /\ m.open /\ m.linked /\ ~m.pruned
    BY <2>1 DEF WriterState
  <2> HIDE DEF m
  <2>6. Alters(p) /\ w'[p] = m
    BY <2>2, <2>3, Becomes DEF TypeOK
  <2> QED BY <1>2, <2>4, <2>5, <2>6 DEF Open, Opens, At
<1> QED BY <1>1, <1>2

LEMMA ListEffect ==
    ASSUME TypeOK, NEW p \in Proc, w[p].rec \cap w[p].pending = {}, List(p)
    PROVE  Lists(p) \/ Stops(p)
<1>1. CASE DropOnFault(p, w[p])
  BY <1>1, DropOnFaultStops
<1>2. CASE ~DropOnFault(p, w[p])
  <2> DEFINE found == {e \in {"raw", "summary"} \X Day : e[2] \in Expired[e[1]] /\ e[2] # w[p].day}
             m == [w[p] EXCEPT !.pc = "prune", !.list = found]
  <2>1. w[p] \in WriterState
    BY DEF TypeOK
  <2>2. found \in SUBSET ({"raw", "summary"} \X Day)
    OBVIOUS
  <2>3. w' = [q \in Proc |-> IF q = p THEN m ELSE [w[q] EXCEPT !.tmp = FALSE]]
    BY <1>2 DEF List
  <2>4. UNCHANGED <<today, files, ts, acked, skipped>> /\ w[p].pc = "list"
    BY <1>2 DEF List, At
  <2> HIDE DEF found
  <2>5. m \in WriterState
    BY <2>1, <2>2 DEF WriterState
  <2>6. /\ m.pending = w[p].pending /\ m.rec = w[p].rec /\ m.target = w[p].target
        /\ m.began = w[p].began /\ m.day = w[p].day /\ m.open = w[p].open
        /\ m.linked = w[p].linked /\ m.pruned = w[p].pruned /\ m.sum = w[p].sum
        /\ m.size = w[p].size /\ m.agg = w[p].agg /\ m.then = w[p].then
        /\ m.pc = "prune" /\ m.list = found
    BY <2>1 DEF WriterState
  <2> HIDE DEF m
  <2>7. ASSUME NEW q \in Proc \ {p}  PROVE w'[q] \in WriterState /\ Untouched(q)
    <3>1. w[q] \in WriterState
      BY DEF TypeOK
    <3>2. w'[q] = [w[q] EXCEPT !.tmp = FALSE]
      BY <2>3
    <3>3. [w[q] EXCEPT !.tmp = FALSE] \in WriterState
      BY <3>1 DEF WriterState
    <3>4. Untouched(q)
      BY <3>1, <3>2 DEF Untouched, SameWrite, SameHandle, SameSum, SameList, WriterState
    <3> QED BY <3>2, <3>3, <3>4
  <2>8. w'[p] = m
    BY <2>3
  <2>9. Alters(p)
    BY <2>3, <2>5, <2>7, <2>8 DEF Alters
  <2> QED BY <2>4, <2>6, <2>8, <2>9 DEF Lists, SameWrite, SameHandle, SameSum, found
<1> QED BY <1>1, <1>2

LEMMA PruneEffect ==
    ASSUME TypeOK, NEW p \in Proc, w[p].rec \cap w[p].pending = {}, Prune(p)
    PROVE  (\E e \in w[p].list : TurnsTo(p, e) \/ Expires(p, e)) \/ Finishes(p) \/ Stops(p)
<1>1. w[p] \in WriterState /\ w[p].pc = "prune"
  BY DEF TypeOK, Prune, At
<1>2. \A e \in w[p].list : e[1] \in {"raw", "summary"} /\ e[2] \in Day
  BY <1>1 DEF WriterState
<1>3. CASE DropOnFault(p, w[p])
  BY <1>3, DropOnFaultStops
<1>4. ASSUME NEW e \in RawLeft(p),
             w' = [w EXCEPT ![p].pc = "stat", ![p].sum = e[2], ![p].then = "remove"],
             UNCHANGED <<today, files, ts, acked, skipped>>
      PROVE  TurnsTo(p, e) /\ e \in w[p].list
  <2> DEFINE d == e[2]
             m == [w[p] EXCEPT !.pc = "stat", !.sum = d, !.then = "remove"]
  <2>1. e \in w[p].list /\ e[1] = "raw"
    BY DEF RawLeft
  <2>2. d \in 0 .. MaxDay
    BY <1>2, <2>1, RecordBounds DEF Day
  <2>3. w' = [w EXCEPT ![p] = m]
    BY <1>4
  <2> HIDE DEF d
  <2>4. m \in WriterState
    BY <1>1, <2>2 DEF WriterState
  <2>5. SameWrite(p) /\ SameHandle(p) /\ SameList(p)
    BY <1>1, <2>3 DEF SameWrite, SameHandle, SameList, WriterState, TypeOK
  <2>6. m.pc = "stat" /\ m.sum = d /\ m.then = "remove"
    BY <1>1 DEF WriterState
  <2> HIDE DEF m
  <2>7. Alters(p) /\ w'[p] = m
    BY <2>3, <2>4, Becomes DEF TypeOK
  <2> QED BY <1>1, <1>4, <2>1, <2>5, <2>6, <2>7 DEF TurnsTo, d
<1>5. ASSUME NEW e \in w[p].list, RawLeft(p) = {},
             w' = [w EXCEPT ![p].list = @ \ {e}],
             summary' = [summary EXCEPT ![e[2]] = NoSummary],
             UNCHANGED <<today, raw, ts, acked, skipped>>
      PROVE  Expires(p, e)
  <2> DEFINE m == [w[p] EXCEPT !.list = @ \ {e}]
  <2>1. m \in WriterState
    BY <1>1 DEF WriterState
  <2>2. w' = [w EXCEPT ![p] = m]
    BY <1>5
  <2>3. SameWrite(p) /\ SameHandle(p) /\ SameSum(p)
    BY <1>1, <2>2 DEF SameWrite, SameHandle, SameSum, WriterState, TypeOK
  <2>4. m.pc = "prune" /\ m.list = w[p].list \ {e}
    BY <1>1 DEF WriterState
  <2>5. e[1] = "summary"
    BY <1>2, <1>5 DEF RawLeft
  <2> HIDE DEF m
  <2>6. Alters(p) /\ w'[p] = m
    BY <2>1, <2>2, Becomes DEF TypeOK
  <2> QED BY <1>1, <1>5, <2>3, <2>4, <2>5, <2>6 DEF Expires
<1>6. ASSUME w[p].list = {}, UNCHANGED <<today, files, ts, acked, skipped>>,
             w' = [w EXCEPT ![p].pruned = TRUE, ![p].state = "up",
                            ![p].pc = IF w[p].rec = {} THEN "idle" ELSE "append"]
      PROVE  Finishes(p)
  <2> DEFINE m == [w[p] EXCEPT !.pruned = TRUE, !.state = "up",
                               !.pc = IF w[p].rec = {} THEN "idle" ELSE "append"]
  <2>1. m \in WriterState
    BY <1>1 DEF WriterState
  <2>2. w' = [w EXCEPT ![p] = m]
    BY <1>6
  <2>3. SameWrite(p) /\ SameSum(p) /\ SameList(p)
    BY <1>1, <2>2 DEF SameWrite, SameSum, SameList, WriterState, TypeOK
  <2>4. /\ m.pruned /\ m.day = w[p].day /\ m.open = w[p].open /\ m.linked = w[p].linked
        /\ m.pc \in {"idle", "append"}
    BY <1>1 DEF WriterState
  <2> HIDE DEF m
  <2>5. Alters(p) /\ w'[p] = m
    BY <2>1, <2>2, Becomes DEF TypeOK
  <2> QED BY <1>1, <1>6, <2>3, <2>4, <2>5 DEF Finishes
<1>7. RawLeft(p) \subseteq w[p].list
  BY DEF RawLeft
<1> QED BY <1>3, <1>4, <1>5, <1>6, <1>7 DEF Prune

LEMMA RemoveEffect ==
    ASSUME TypeOK, NEW p \in Proc, w[p].rec \cap w[p].pending = {}, Remove(p)
    PROVE  Removes(p) \/ Stops(p)
<1>1. CASE DropOnFault(p, w[p])
  BY <1>1, DropOnFaultStops
<1>2. CASE ~DropOnFault(p, w[p])
  <2> DEFINE d == w[p].sum
             m == [w[p] EXCEPT !.pc = "prune", !.list = @ \ {<<"raw", d>>}]
             other(q) == [w[q] EXCEPT !.linked = @ /\ w[q].day # d]
  <2>1. w[p] \in WriterState
    BY DEF TypeOK
  <2>2. w' = [q \in Proc |-> IF q = p THEN m ELSE other(q)]
    BY <1>2 DEF Remove
  <2>3. /\ w[p].pc = "remove" /\ raw' = [raw EXCEPT ![d] = NoFile]
        /\ UNCHANGED <<today, summary, ts, acked, skipped>>
    BY <1>2 DEF Remove, At
  <2> HIDE DEF d
  <2>4. m \in WriterState
    BY <2>1 DEF WriterState
  <2>5. /\ m.pending = w[p].pending /\ m.rec = w[p].rec /\ m.target = w[p].target
        /\ m.began = w[p].began /\ m.day = w[p].day /\ m.open = w[p].open
        /\ m.linked = w[p].linked /\ m.pruned = w[p].pruned /\ m.sum = w[p].sum
        /\ m.size = w[p].size /\ m.agg = w[p].agg /\ m.then = w[p].then
        /\ m.pc = "prune" /\ m.list = w[p].list \ {<<"raw", d>>}
    BY <2>1 DEF WriterState
  <2>6. ASSUME NEW q \in Proc \ {p}
        PROVE  /\ w'[q] \in WriterState
               /\ SameWrite(q) /\ SameSum(q) /\ SameList(q) /\ w'[q].pc = w[q].pc
               /\ w'[q].day = w[q].day /\ w'[q].open = w[q].open /\ w'[q].pruned = w[q].pruned
               /\ w'[q].linked <=> w[q].linked /\ w[q].day # d
    <3>1. w[q] \in WriterState
      BY DEF TypeOK
    <3>2. w'[q] = other(q)
      BY <2>2
    <3>3. other(q) \in WriterState
      BY <3>1 DEF WriterState
    <3>4. /\ SameWrite(q) /\ SameSum(q) /\ SameList(q) /\ w'[q].pc = w[q].pc
          /\ w'[q].day = w[q].day /\ w'[q].open = w[q].open /\ w'[q].pruned = w[q].pruned
          /\ w'[q].linked <=> w[q].linked /\ w[q].day # d
      BY <3>1, <3>2 DEF SameWrite, SameSum, SameList, WriterState
    <3> QED BY <3>2, <3>3, <3>4
  <2>7. w'[p] = m
    BY <2>2
  <2> HIDE DEF m, other
  <2>8. w' \in [Proc -> WriterState]
    BY <2>2, <2>4, <2>6, <2>7
  <2> QED BY <2>3, <2>5, <2>6, <2>7, <2>8 DEF Removes, SameWrite, SameSum, SameList, d
<1> QED BY <1>1, <1>2

\* A new record is pending.
LEMMA StartRecordEffect ==
    ASSUME TypeOK, NEW p \in Proc, NEW r \in Record, StartRecord(p, r)
    PROVE  /\ Alters(p) /\ SameHandle(p) /\ SameSum(p) /\ SameList(p)
           /\ w'[p].pc = w[p].pc /\ w'[p].rec = w[p].rec
           /\ w'[p].target = w[p].target /\ w'[p].began = w[p].began
           /\ w'[p].pending = w[p].pending \cup {r}
<1> DEFINE m == [w[p] EXCEPT !.pending = @ \cup {r}]
<1>1. w[p] \in WriterState
  BY DEF TypeOK
<1>2. m \in WriterState
  BY <1>1 DEF WriterState
<1>3. w' = [w EXCEPT ![p] = m]
  BY DEF StartRecord
<1>4. SameHandle(p) /\ SameSum(p) /\ SameList(p)
  BY <1>1, <1>3 DEF SameHandle, SameSum, SameList, WriterState, TypeOK
<1>5. /\ m.pc = w[p].pc /\ m.rec = w[p].rec /\ m.target = w[p].target
      /\ m.began = w[p].began /\ m.pending = w[p].pending \cup {r}
  BY <1>1 DEF WriterState
<1> HIDE DEF m
<1>6. Alters(p) /\ w'[p] = m
  BY <1>2, <1>3, Becomes DEF TypeOK
<1> QED BY <1>4, <1>5, <1>6

-----------------------------------------------------------------------------
(* Every step is one of these                                              *)

\* A step of p inside a rollover or a prune.
Rolls(p) ==
    \/ RollsOff(p) \/ Sizes(p) \/ FindsOld(p) \/ Computes(p)
    \/ KeepsSummary(p) \/ SkipsSummary(p) \/ NeedsNoSummary(p) \/ Publishes(p)
    \/ Opens(p) \/ Lists(p) \/ Finishes(p) \/ Removes(p)
    \/ \E e \in w[p].list : TurnsTo(p, e) \/ Expires(p, e)

Steps(p) ==
    \/ Stops(p) \/ Starts(p) \/ Appends(p) \/ Rolls(p)
    \/ \E r \in Record : StartRecord(p, r)
    \/ \E r \in w[p].pending : Begins(p, r)

LEMMA NextSteps ==
    ASSUME Orderly, Next
    PROVE  Tick \/ \E p \in Proc : Steps(p)
<1>1. TypeOK
  BY DEF Orderly
<1>2. ASSUME NEW p \in Proc, WriterStep(p)  PROVE Steps(p)
  <2>1. w[p].rec \cap w[p].pending = {}
    BY DEF Orderly, Owned
  <2>2. ASSUME NEW r \in Record, BeginWrite(p, r)  PROVE Steps(p)
    <3>1. r \in w[p].pending
      BY <2>2 DEF BeginWrite
    <3> QED BY <1>1, <2>2, <3>1, BeginWriteBegins DEF Steps
  <2>3. CASE Append(p)
    BY <1>1, <2>1, <2>3, AppendEffect DEF Steps
  <2>4. CASE Roll(p)
    BY <1>1, <2>1, <2>4, RollEffect DEF Steps, Rolls
  <2>5. CASE Stat(p)
    <3>1. w[p].sum \in Day
      BY <2>5 DEF Stat, At, Orderly, Placed, Summarizing
    <3>2. IsFiniteSet(raw[w[p].sum].lines)
      BY <3>1 DEF Orderly, Recorded
    <3> QED BY <1>1, <2>1, <2>5, <3>2, StatEffect DEF Steps, Rolls
  <2>6. CASE ReadSummary(p)
    BY <1>1, <2>6, ReadSummaryEffect DEF Steps, Rolls
  <2>7. CASE Aggregate(p)
    <3>1. w[p].sum \in Day
      BY <2>7 DEF Aggregate, At, Orderly, Placed, Summarizing
    <3> QED BY <1>1, <2>1, <2>7, <3>1, AggregateEffect DEF Steps, Rolls
  <2>8. CASE Rename(p)
    BY <1>1, <2>1, <2>8, RenameEffect DEF Steps, Rolls
  <2>9. CASE Open(p)
    BY <1>1, <2>1, <2>9, OpenEffect DEF Steps, Rolls
  <2>10. CASE List(p)
    BY <1>1, <2>1, <2>10, ListEffect DEF Steps, Rolls
  <2>11. CASE Prune(p)
    BY <1>1, <2>1, <2>11, PruneEffect DEF Steps, Rolls
  <2>12. CASE Remove(p)
    BY <1>1, <2>1, <2>12, RemoveEffect DEF Steps, Rolls
  <2> QED BY <1>2, <2>2, <2>3, <2>4, <2>5, <2>6, <2>7, <2>8, <2>9, <2>10, <2>11, <2>12
          DEF WriterStep
<1> QED BY <1>1, <1>2, StartStarts, ExitStops, CrashStops DEF Next, Steps

LEMMA BoundsKept ==
    ASSUME TypeOK, [Next]_vars  PROVE  faults' \in 0 .. MaxFaults /\ crashes' \in 0 .. MaxCrashes
<1>1. ASSUME NEW p \in Proc, NEW log, DropOnFault(p, log)  PROVE faults' \in 0 .. MaxFaults /\ crashes' = crashes
  BY <1>1, RecordBounds DEF DropOnFault, TypeOK
<1>2. CASE Tick \/ UNCHANGED vars
  BY <1>2 DEF Tick, vars, bounds, TypeOK
<1>3. ASSUME NEW p \in Proc, Start(p) \/ Exit(p)  PROVE UNCHANGED bounds
  BY <1>3 DEF Start, Exit
<1>4. ASSUME NEW p \in Proc, NEW r \in Record, StartRecord(p, r) \/ BeginWrite(p, r)
      PROVE  UNCHANGED bounds
  BY <1>4 DEF StartRecord, BeginWrite
<1>5. ASSUME NEW p \in Proc, Crash(p)  PROVE faults' = faults /\ crashes' \in 0 .. MaxCrashes
  BY <1>5, RecordBounds DEF Crash, TypeOK
<1>6. ASSUME NEW p \in Proc, Append(p) \/ Roll(p) \/ Stat(p) \/ Open(p) \/ List(p) \/ Remove(p)
      PROVE  faults' \in 0 .. MaxFaults /\ crashes' \in 0 .. MaxCrashes
  BY <1>1, <1>6 DEF Append, Roll, Stat, Open, List, Remove, bounds, TypeOK
<1>7. ASSUME NEW p \in Proc, ReadSummary(p)
      PROVE  faults' \in 0 .. MaxFaults /\ crashes' = crashes
  BY <1>7, RecordBounds DEF ReadSummary, bounds, TypeOK
<1>8. ASSUME NEW p \in Proc, Aggregate(p) \/ Rename(p) \/ Prune(p)
      PROVE  faults' \in 0 .. MaxFaults /\ crashes' = crashes
  BY <1>1, <1>8 DEF Aggregate, Rename, Prune, bounds, TypeOK
<1>9. faults \in 0 .. MaxFaults /\ crashes \in 0 .. MaxCrashes
  BY DEF TypeOK
<1> QED BY <1>2, <1>3, <1>4, <1>5, <1>6, <1>7, <1>8, <1>9 DEF Next, WriterStep, bounds

-----------------------------------------------------------------------------
(* Types, places, times and names                                          *)

LEMMA OthersPlaced ==
    ASSUME Orderly, NEW q \in Proc, Untouched(q), \A d \in Day : raw[d].on => raw'[d].on
    PROVE  Placed(q)'
<1>1. Placed(q)
  BY DEF Orderly
<1> QED BY <1>1 DEF Placed, Rolled, Removing, Summarizing, Untouched, SameWrite, SameHandle,
                    SameSum, SameList

\* Within a rollover times and names stay.
LEMMA QuietKeeps ==
    ASSUME Orderly, UNCHANGED <<today, ts, acked>>,
           \A q \in Proc : /\ SameWrite(q)
                           /\ w'[q].pc # "idle" => w[q].pc # "idle"
                           /\ \/ w'[q].day = w[q].day
                              \/ w'[q].day = NoDay
                              \/ w[q].pc # "idle" /\ w'[q].day = w[q].target
    PROVE  \A q \in Proc : InTime(q)' /\ Owned(q)'
<1> SUFFICES ASSUME NEW q \in Proc  PROVE InTime(q)' /\ Owned(q)'
  OBVIOUS
<1>1. InTime(q) /\ Owned(q) /\ today \in Day
  BY DEF Orderly, TypeOK
<1>2. \A x \in Proc : InFlight(x)' = InFlight(x)
  BY DEF InFlight, SameWrite
<1>3. Owned(q)'
  BY <1>1, <1>2 DEF Owned, SameWrite
<1>4. w'[q].day <= today
  BY <1>1 DEF InTime, NoDay, Day
<1>5. InTime(q)'
  BY <1>1, <1>2, <1>4 DEF InTime, SameWrite
<1> QED BY <1>3, <1>5

LEMMA RollsQuiet ==
    ASSUME Orderly, NEW p \in Proc, Rolls(p)
    PROVE  /\ UNCHANGED <<today, ts, acked>>
           /\ w' \in [Proc -> WriterState]
           /\ \A q \in Proc : /\ SameWrite(q)
                              /\ w'[q].pc # "idle" => w[q].pc # "idle"
                              /\ \/ w'[q].day = w[q].day
                                 \/ w'[q].day = NoDay
                                 \/ w[q].pc # "idle" /\ w'[q].day = w[q].target
<1>1. CASE RollsOff(p)
  BY <1>1 DEF RollsOff, Alters, Untouched, SameHandle
<1>2. CASE Sizes(p) \/ FindsOld(p) \/ Computes(p)
  BY <1>2 DEF Sizes, FindsOld, Computes, Alters, Untouched, SameHandle
<1>3. CASE KeepsSummary(p) \/ SkipsSummary(p) \/ NeedsNoSummary(p) \/ Publishes(p)
  BY <1>3 DEF KeepsSummary, SkipsSummary, NeedsNoSummary, Publishes, Passes, Alters, Untouched,
              SameHandle
<1>4. CASE Opens(p)
  BY <1>4 DEF Opens, Alters, Untouched, SameHandle
<1>5. CASE Lists(p) \/ Finishes(p)
  BY <1>5 DEF Lists, Finishes, Alters, Untouched, SameHandle
<1>6. CASE Removes(p)
  BY <1>6 DEF Removes
<1>7. ASSUME NEW e \in w[p].list, TurnsTo(p, e) \/ Expires(p, e)
      PROVE  /\ UNCHANGED <<today, ts, acked>>
             /\ w' \in [Proc -> WriterState]
             /\ \A q \in Proc : /\ SameWrite(q)
                                /\ w'[q].pc # "idle" => w[q].pc # "idle"
                                /\ w'[q].day = w[q].day
  BY <1>7 DEF TurnsTo, Expires, Alters, Untouched, SameHandle
<1> QED BY <1>1, <1>2, <1>3, <1>4, <1>5, <1>6, <1>7 DEF Rolls

\* ... and the Loggers are where they should be.
LEMMA RollsPlaced ==
    ASSUME Orderly, NEW p \in Proc, Rolls(p)
    PROVE  \A q \in Proc : Placed(q)'
<1>1. \A q \in Proc : Placed(q) /\ w[q] \in WriterState
  BY DEF Orderly, TypeOK
<1>2. /\ raw \in [Day -> [on : BOOLEAN, lines : SUBSET Record]]
      /\ w[p].pc # "idle" => w[p].target \in Day
  BY DEF Orderly, TypeOK, InTime
<1>3. CASE RollsOff(p)
  <2>1. \A q \in Proc \ {p} : Placed(q)'
    BY <1>3, OthersPlaced DEF RollsOff, Alters, files
  <2>2. w[p].day # NoDay => w[p].day \in Day
    BY <1>1, RecordBounds DEF WriterState, Day, NoDay
  <2>3. Placed(p)'
    BY <1>1, <1>3, <2>2 DEF RollsOff, Placed, Rolled, Removing, Summarizing
  <2> QED BY <2>1, <2>3
<1>4. CASE Sizes(p) \/ FindsOld(p) \/ Computes(p)
  <2>1. \A q \in Proc \ {p} : Placed(q)'
    BY <1>4, OthersPlaced DEF Sizes, FindsOld, Computes, Alters, files
  <2>2. Placed(p)'
    BY <1>1, <1>4 DEF Sizes, FindsOld, Computes, Placed, Rolled, Removing, Summarizing,
                      SameWrite, SameHandle, SameSum, SameList, files
  <2> QED BY <2>1, <2>2
<1>5. CASE KeepsSummary(p) \/ SkipsSummary(p) \/ NeedsNoSummary(p) \/ Publishes(p)
  <2>1. Passes(p) /\ Summarizing(p)
    BY <1>5 DEF KeepsSummary, SkipsSummary, NeedsNoSummary, Publishes, Summarizing
  <2>2. \A q \in Proc \ {p} : Placed(q)'
    BY <2>1, OthersPlaced DEF Passes, Alters
  <2>3. w[p].then \in {"open", "remove"}
    BY <1>1 DEF WriterState
  <2>4. Placed(p)'
    BY <1>1, <2>1, <2>3 DEF Passes, Placed, Rolled, Removing, Summarizing, SameWrite, SameList
  <2> QED BY <2>2, <2>4
<1>6. CASE Opens(p)
  <2>1. \A d \in Day : raw[d].on => raw'[d].on
    BY <1>2, <1>6 DEF Opens
  <2>2. \A q \in Proc \ {p} : Placed(q)'
    BY <1>6, <2>1, OthersPlaced DEF Opens, Alters
  <2>3. w[p].target \in Day /\ raw'[w[p].target].on
    BY <1>2, <1>6 DEF Opens
  <2>4. Placed(p)'
    BY <1>6, <2>3 DEF Opens, Placed, Rolled, Removing, Summarizing, SameWrite
  <2> QED BY <2>2, <2>4
<1>7. CASE Lists(p) \/ Finishes(p)
  <2>1. \A q \in Proc \ {p} : Placed(q)'
    BY <1>7, OthersPlaced DEF Lists, Finishes, Alters, files
  <2>2. Placed(p)'
    BY <1>1, <1>7 DEF Lists, Finishes, Placed, Rolled, Removing, Summarizing,
                      SameWrite, SameHandle, SameSum, SameList, files
  <2> QED BY <2>1, <2>2
<1>8. CASE Removes(p)
  <2>1. w[p].sum \in Day /\ w[p].day # w[p].sum /\ w[p].open
    <3>1. <<"raw", w[p].sum>> \in w[p].list /\ w[p].sum \in Day /\ w[p].open
      BY <1>1, <1>8 DEF Removes, Placed, Removing, Rolled
    <3>2. \A e \in w[p].list : e[2] # w[p].day
      BY <1>1, <1>8 DEF Removes, Placed, Removing
    <3> QED BY <3>1, <3>2
  <2>2. \A d \in Day \ {w[p].sum} : raw'[d].on = raw[d].on
    BY <1>2, <1>8 DEF Removes
  <2>3. ASSUME NEW q \in Proc \ {p}  PROVE Placed(q)'
    <3>1. Placed(q)
      BY <1>1
    <3>2. /\ w'[q].open = w[q].open /\ w'[q].day = w[q].day /\ w'[q].pc = w[q].pc
          /\ w'[q].target = w[q].target /\ w'[q].list = w[q].list /\ w'[q].sum = w[q].sum
          /\ w'[q].then = w[q].then
          /\ w'[q].linked => w[q].linked /\ w[q].day # w[p].sum
      BY <1>8 DEF Removes, SameWrite, SameSum, SameList
    <3>3. w'[q].open /\ w'[q].linked => raw'[w'[q].day].on
      BY <2>2, <3>1, <3>2 DEF Placed
    <3> QED BY <3>1, <3>2, <3>3 DEF Placed, Rolled, Removing, Summarizing
  <2>4. Placed(p)'
    <3>1. Placed(p)
      BY <1>1
    <3>2. /\ w'[p].open = w[p].open /\ w'[p].day = w[p].day /\ w'[p].pc = "prune"
          /\ w'[p].target = w[p].target /\ w'[p].list \subseteq w[p].list
          /\ w'[p].linked = w[p].linked
      BY <1>8 DEF Removes, SameWrite
    <3>3. w'[p].open /\ w'[p].linked => raw'[w'[p].day].on
      BY <2>1, <2>2, <3>1, <3>2 DEF Placed
    <3>4. w[p].open /\ w[p].day = w[p].target /\ \A e \in w[p].list : e[2] # w[p].day
      BY <1>8, <3>1 DEF Removes, Placed, Rolled, Removing
    <3> QED BY <3>1, <3>2, <3>3, <3>4 DEF Placed, Rolled, Removing, Summarizing
  <2> QED BY <2>3, <2>4
<1>9. ASSUME NEW e \in w[p].list, TurnsTo(p, e)  PROVE \A q \in Proc : Placed(q)'
  <2>1. \A q \in Proc \ {p} : Placed(q)'
    BY <1>9, OthersPlaced DEF TurnsTo, Alters, files
  <2>2. e = <<"raw", e[2]>> /\ e[2] \in Day
    BY <1>1, <1>9 DEF TurnsTo, WriterState
  <2>3. Placed(p)'
    BY <1>1, <1>9, <2>2 DEF TurnsTo, Placed, Rolled, Removing, Summarizing, SameWrite, SameHandle,
                            SameList, files
  <2> QED BY <2>1, <2>3
<1>10. ASSUME NEW e \in w[p].list, Expires(p, e)  PROVE \A q \in Proc : Placed(q)'
  <2>1. \A q \in Proc \ {p} : Placed(q)'
    BY <1>10, OthersPlaced DEF Expires, Alters
  <2>2. Placed(p)'
    BY <1>1, <1>10 DEF Expires, Placed, Rolled, Removing, Summarizing, SameWrite, SameHandle, SameSum
  <2> QED BY <2>1, <2>2
<1> QED BY <1>3, <1>4, <1>5, <1>6, <1>7, <1>8, <1>9, <1>10 DEF Rolls

\* The files and the records.
LEMMA RollsTyped ==
    ASSUME Orderly, NEW p \in Proc, Rolls(p)
    PROVE  /\ raw' \in [Day -> [on : BOOLEAN, lines : SUBSET Record]]
           /\ summary' \in [Day -> [on : BOOLEAN, size : Nat, counts : SUBSET Record]]
           /\ skipped' \in SUBSET Day
           /\ \A d \in Day : raw'[d].lines \in {{}, raw[d].lines}
<1>1. /\ raw \in [Day -> [on : BOOLEAN, lines : SUBSET Record]]
      /\ summary \in [Day -> [on : BOOLEAN, size : Nat, counts : SUBSET Record]]
      /\ skipped \in SUBSET Day
      /\ w[p] \in WriterState
  BY DEF Orderly, TypeOK
<1>2. CASE UNCHANGED <<raw, summary, skipped>>
  BY <1>1, <1>2
<1>3. CASE SkipsSummary(p)
  <2>1. w[p].sum \in Day
    BY <1>3 DEF SkipsSummary, Orderly, Placed, Summarizing
  <2> QED BY <1>1, <1>3, <2>1 DEF SkipsSummary, Passes
<1>4. CASE Publishes(p)
  <2>1. [on |-> TRUE, size |-> w[p].size, counts |-> w[p].agg]
           \in [on : BOOLEAN, size : Nat, counts : SUBSET Record]
    BY <1>1 DEF WriterState
  <2> QED BY <1>1, <1>4, <2>1 DEF Publishes, Passes
<1>5. CASE Opens(p)
  <2> DEFINE opened == [raw[w[p].target] EXCEPT !.on = TRUE]
  <2>1. w[p].target \in Day
    BY <1>5 DEF Opens, Orderly, InTime
  <2>2. /\ opened \in [on : BOOLEAN, lines : SUBSET Record]
        /\ opened.lines = raw[w[p].target].lines
    BY <1>1, <2>1
  <2>3. raw' = [raw EXCEPT ![w[p].target] = opened]
    BY <1>5 DEF Opens
  <2> HIDE DEF opened
  <2> QED BY <1>1, <1>5, <2>1, <2>2, <2>3 DEF Opens
<1>6. CASE Removes(p)
  <2>1. NoFile \in [on : BOOLEAN, lines : SUBSET Record] /\ NoFile.lines = {}
    BY DEF NoFile
  <2> QED BY <1>1, <1>6, <2>1 DEF Removes
<1>7. ASSUME NEW e \in w[p].list, Expires(p, e)
      PROVE  /\ summary' \in [Day -> [on : BOOLEAN, size : Nat, counts : SUBSET Record]]
             /\ UNCHANGED <<raw, skipped>>
  <2>1. NoSummary \in [on : BOOLEAN, size : Nat, counts : SUBSET Record]
    BY DEF NoSummary
  <2> QED BY <1>1, <1>7, <2>1 DEF Expires
<1>8. ASSUME NEW e \in w[p].list, TurnsTo(p, e)  PROVE UNCHANGED <<raw, summary, skipped>>
  BY <1>8 DEF TurnsTo, files
<1>9. CASE RollsOff(p) \/ Sizes(p) \/ FindsOld(p) \/ Computes(p) \/ Lists(p) \/ Finishes(p)
           \/ KeepsSummary(p) \/ NeedsNoSummary(p)
  <2>1. UNCHANGED <<raw, summary, skipped>>
    BY <1>9 DEF RollsOff, Sizes, FindsOld, Computes, Lists, Finishes, KeepsSummary,
                NeedsNoSummary, Passes, files
  <2> QED BY <1>2, <2>1
<1> QED BY <1>1, <1>2, <1>3, <1>4, <1>5, <1>6, <1>7, <1>8, <1>9 DEF Rolls

LEMMA RollsOrderly ==
    ASSUME Orderly, NEW p \in Proc, Rolls(p),
           faults' \in 0 .. MaxFaults /\ crashes' \in 0 .. MaxCrashes
    PROVE  Orderly'
<1>1. /\ UNCHANGED <<today, ts, acked>> /\ w' \in [Proc -> WriterState]
      /\ \A q \in Proc : InTime(q)' /\ Owned(q)' /\ Placed(q)'
  BY RollsQuiet, QuietKeeps, RollsPlaced
<1>2. /\ raw' \in [Day -> [on : BOOLEAN, lines : SUBSET Record]]
      /\ summary' \in [Day -> [on : BOOLEAN, size : Nat, counts : SUBSET Record]]
      /\ skipped' \in SUBSET Day
      /\ \A d \in Day : raw'[d].lines \in {{}, raw[d].lines}
  BY RollsTyped
<1>3. TypeOK'
  BY <1>1, <1>2 DEF Orderly, TypeOK, Placed
<1>4. Recorded'
  <2>1. \A d \in Day : IsFiniteSet(raw'[d].lines)
    BY <1>2, FS_EmptySet DEF Orderly, Recorded
  <2> QED BY <1>1, <2>1 DEF Orderly, Recorded
<1> QED BY <1>1, <1>3, <1>4 DEF Orderly

LEMMA InFlightTyped ==
    ASSUME TypeOK  PROVE \A p \in Proc : InFlight(p) \subseteq Record
BY DEF TypeOK, InFlight, WriterState

\* A record that is given up was in flight here alone.
LEMMA StopsOrderly ==
    ASSUME Orderly, NEW p \in Proc, Stops(p),
           faults' \in 0 .. MaxFaults /\ crashes' \in 0 .. MaxCrashes
    PROVE  Orderly'
<1>1. PICK R \in SUBSET InFlight(p) : Forget(R) /\ R \cap w'[p].pending = {}
  BY DEF Stops
<1>2. \A q \in Proc : Placed(q) /\ InTime(q) /\ Owned(q)
  BY DEF Orderly
<1>3. R \subseteq Record /\ \A r \in Record : ts'[r] = IF r \in R THEN NoDay ELSE ts[r]
  BY <1>1, InFlightTyped DEF Orderly, Forget
<1>4. \A q \in Proc \ {p} : Untouched(q) /\ InFlight(q)' = InFlight(q)
  BY DEF Stops, Alters, Untouched, SameWrite, InFlight
<1>5. InFlight(p)' \subseteq InFlight(p) \ R
  <2>1. InFlight(p)' = w'[p].pending
    BY DEF Stops, InFlight
  <2> QED BY <1>1, <2>1 DEF Stops, InFlight
<1>6. \A q \in Proc : \A r \in InFlight(q)' : r \in InFlight(q) /\ ts'[r] = ts[r]
  BY <1>2, <1>3, <1>4, <1>5, InFlightTyped DEF Orderly, Owned
<1>7. \A r \in acked : r \in Record /\ ts'[r] = ts[r]
  BY <1>2, <1>3 DEF Owned, Orderly, TypeOK
<1>8. ASSUME NEW q \in Proc  PROVE Placed(q)'
  <2>1. CASE q # p
    BY <1>4, <2>1, OthersPlaced DEF Stops, files
  <2>2. CASE q = p
    BY <1>2, <2>2 DEF Stops, Placed, Rolled, Removing, Summarizing, files, NoDay
  <2> QED BY <2>1, <2>2
<1>9. ASSUME NEW q \in Proc  PROVE InTime(q)'
  <2>1. w'[q].day <= today
    <3>1. w'[q].day = w[q].day \/ w'[q].day = NoDay
      BY <1>4 DEF Stops, Untouched, SameHandle
    <3>2. w[q].day <= today /\ NoDay <= today
      BY <1>2 DEF InTime, NoDay, Orderly, TypeOK, Day
    <3> QED BY <3>1, <3>2
  <2>2. CASE q # p
    <3>1. \A r \in w'[q].rec : r \in InFlight(q)'
      BY DEF InFlight
    <3> QED BY <1>2, <1>4, <1>6, <2>1, <2>2, <3>1 DEF Stops, InTime, Untouched, SameWrite
  <2>3. CASE q = p
    BY <1>2, <1>6, <2>1, <2>3 DEF Stops, InTime
  <2> QED BY <2>2, <2>3
<1>10. ASSUME NEW q \in Proc  PROVE Owned(q)'
  <2>1. w'[q].rec \subseteq w[q].rec /\ w'[q].pending \subseteq w[q].pending
        /\ (w'[q].rec = {} \/ w'[q].rec = w[q].rec)
    BY <1>4 DEF Stops, Untouched, SameWrite
  <2> QED BY <1>2, <1>6, <2>1 DEF Owned, Stops
<1>11. TypeOK'
  <2>1. ts' \in [Record -> 0 .. MaxDay]
    <3>1. \A r \in Record : ts'[r] \in 0 .. MaxDay
      BY <1>3, RecordBounds DEF NoDay, Orderly, TypeOK
    <3>2. ts' = [r \in Record |-> ts'[r]]
      BY <1>1 DEF Forget
    <3> QED BY <3>1, <3>2
  <2> QED BY <1>8, <2>1 DEF Stops, Alters, files, Orderly, TypeOK, Placed
<1>12. Recorded'
  BY <1>7 DEF Stops, files, Orderly, Recorded
<1> QED BY <1>8, <1>9, <1>10, <1>11, <1>12 DEF Orderly

LEMMA StartsOrderly ==
    ASSUME Orderly, NEW p \in Proc, Starts(p),
           faults' \in 0 .. MaxFaults /\ crashes' \in 0 .. MaxCrashes
    PROVE  Orderly'
<1>1. \A q \in Proc : Placed(q) /\ InTime(q) /\ Owned(q)
  BY DEF Orderly
<1>2. \A q \in Proc \ {p} : Untouched(q) /\ InFlight(q)' = InFlight(q)
  BY DEF Starts, Alters, Untouched, SameWrite, InFlight
<1>3. InFlight(p)' = {}
  BY DEF Starts, InFlight
<1>4. today \in Day /\ UNCHANGED <<today, raw, summary, ts, acked, skipped>>
  BY DEF Starts, files, Orderly, TypeOK
<1>5. ASSUME NEW q \in Proc \ {p}  PROVE Placed(q)' /\ InTime(q)' /\ Owned(q)'
  <2>1. Placed(q)'
    BY <1>2, <1>4, OthersPlaced
  <2>2. InTime(q)'
    BY <1>1, <1>2, <1>4 DEF InTime, Untouched, SameWrite, SameHandle
  <2>3. Owned(q)'
    BY <1>1, <1>2, <1>3, <1>4 DEF Owned, Untouched, SameWrite
  <2> QED BY <2>1, <2>2, <2>3
<1>6. Placed(p)'
  BY DEF Starts, Placed, Rolled, Removing, Summarizing
<1>7. InTime(p)'
  BY <1>3, <1>4 DEF Starts, InTime, Day, NoDay
<1>8. Owned(p)'
  BY <1>3 DEF Starts, Owned
<1>9. TypeOK'
  BY <1>4, <1>5, <1>6 DEF Starts, Alters, Orderly, TypeOK, Placed
<1>10. Recorded'
  BY <1>4 DEF Orderly, Recorded
<1> QED BY <1>5, <1>6, <1>7, <1>8, <1>9, <1>10 DEF Orderly

\* A new record has no owner yet.
LEMMA StartRecordOrderly ==
    ASSUME Orderly, NEW p \in Proc, NEW r \in Record, StartRecord(p, r)
    PROVE  Orderly'
<1>1. \A q \in Proc : Placed(q) /\ InTime(q) /\ Owned(q)
  BY DEF Orderly
<1>2. /\ Alters(p) /\ SameHandle(p) /\ SameSum(p) /\ SameList(p)
      /\ w'[p].pc = w[p].pc /\ w'[p].rec = w[p].rec
      /\ w'[p].target = w[p].target /\ w'[p].began = w[p].began
      /\ w'[p].pending = w[p].pending \cup {r}
  BY StartRecordEffect DEF Orderly
<1>3. \A q \in Proc \ {p} : Untouched(q) /\ InFlight(q)' = InFlight(q)
  BY <1>2 DEF Alters, Untouched, SameWrite, InFlight
<1>4. InFlight(p)' = InFlight(p) \cup {r}
  BY <1>2 DEF InFlight
<1>5. /\ today \in Day /\ UNCHANGED <<today, raw, summary, acked, skipped, faults, crashes>>
      /\ ts[r] = NoDay /\ ts' = [ts EXCEPT ![r] = today]
  BY DEF StartRecord, files, bounds, Orderly, TypeOK
<1>6. r \notin acked /\ \A q \in Proc : r \notin InFlight(q)
  BY <1>1, <1>5 DEF InTime, Orderly, Recorded, NoDay, Day
<1>7. \A x \in Record \ {r} : ts'[x] = ts[x]
  BY <1>5
<1>8. ts'[r] = today /\ ts' \in [Record -> 0 .. MaxDay]
  BY <1>5, RecordBounds DEF Orderly, TypeOK, Day
<1>9. ASSUME NEW q \in Proc  PROVE Placed(q)'
  <2>1. CASE q # p
    BY <1>3, <1>5, <2>1, OthersPlaced
  <2>2. CASE q = p
    BY <1>1, <1>2, <1>5, <2>2 DEF Placed, Rolled, Removing, Summarizing, SameHandle, SameSum, SameList
  <2> QED BY <2>1, <2>2
<1>10. \A q \in Proc : InFlight(q) \subseteq Record \ {r}
  BY <1>6, InFlightTyped DEF Orderly
<1>11. ASSUME NEW q \in Proc  PROVE InTime(q)'
  <2>1. /\ w'[q].day = w[q].day /\ w'[q].pc = w[q].pc /\ w'[q].began = w[q].began
        /\ w'[q].target = w[q].target /\ w'[q].rec = w[q].rec
    BY <1>2, <1>3 DEF Untouched, SameWrite, SameHandle
  <2>2. \A x \in w[q].rec : x \in InFlight(q)
    BY DEF InFlight
  <2>3. \A x \in InFlight(q)' : ts'[x] \in Day /\ ts'[x] <= today /\ today - ts'[x] <= MaxLate
    <3>1. \A x \in InFlight(q) : ts'[x] \in Day /\ ts'[x] <= today /\ today - ts'[x] <= MaxLate
      BY <1>1, <1>7, <1>10 DEF InTime
    <3>2. ts'[r] \in Day /\ ts'[r] <= today /\ today - ts'[r] <= MaxLate
      BY <1>5, <1>8, RecordBounds DEF Day
    <3> QED BY <1>3, <1>4, <3>1, <3>2
  <2> QED BY <1>1, <1>5, <1>7, <1>10, <2>1, <2>2, <2>3 DEF InTime
<1>12. ASSUME NEW q \in Proc  PROVE Owned(q)'
  <2>1. w'[q].rec = w[q].rec /\ (q # p => w'[q].pending = w[q].pending)
    BY <1>2, <1>3 DEF Untouched, SameWrite
  <2>2. w[q].rec \subseteq InFlight(q)
    BY DEF InFlight
  <2>3. w'[q].rec \cap w'[q].pending = {}
    BY <1>1, <1>2, <1>6, <2>1, <2>2 DEF Owned
  <2>4. InFlight(q)' \cap acked' = {}
    BY <1>1, <1>3, <1>4, <1>5, <1>6 DEF Owned
  <2>5. \A x \in Proc \ {q} : InFlight(q)' \cap InFlight(x)' = {}
    BY <1>1, <1>3, <1>4, <1>6 DEF Owned
  <2> QED BY <1>1, <2>1, <2>3, <2>4, <2>5 DEF Owned
<1>13. TypeOK'
  BY <1>2, <1>5, <1>8, <1>9 DEF Alters, Orderly, TypeOK, Placed
<1>14. Recorded'
  BY <1>5, <1>6, <1>7 DEF Orderly, Recorded, TypeOK
<1> QED BY <1>9, <1>11, <1>12, <1>13, <1>14 DEF Orderly

LEMMA BeginsOrderly ==
    ASSUME Orderly, NEW p \in Proc, NEW r \in w[p].pending, Begins(p, r),
           faults' \in 0 .. MaxFaults /\ crashes' \in 0 .. MaxCrashes
    PROVE  Orderly'
<1>1. \A q \in Proc : Placed(q) /\ InTime(q) /\ Owned(q)
  BY DEF Orderly
<1>2. \A q \in Proc \ {p} : Untouched(q) /\ InFlight(q)' = InFlight(q)
  BY DEF Begins, Alters, Untouched, SameWrite, InFlight
<1>3. InFlight(p)' \subseteq InFlight(p) /\ r \in InFlight(p) /\ r \in Record
  BY InFlightTyped DEF Begins, InFlight, Orderly
<1>4. today \in Day /\ UNCHANGED <<today, raw, summary, ts, acked, skipped>>
  BY DEF Begins, files, Orderly, TypeOK
<1>5. ASSUME NEW q \in Proc \ {p}  PROVE Placed(q)' /\ InTime(q)' /\ Owned(q)'
  <2>1. Placed(q)'
    BY <1>2, <1>4, OthersPlaced
  <2>2. InTime(q)'
    BY <1>1, <1>2, <1>4 DEF InTime, Untouched, SameWrite, SameHandle
  <2>3. Owned(q)'
    BY <1>1, <1>2, <1>3, <1>4 DEF Owned, Untouched, SameWrite
  <2> QED BY <2>1, <2>2, <2>3
<1>6. Placed(p)'
  BY <1>1, <1>4 DEF Begins, Placed, Rolled, Removing, Summarizing, SameHandle
<1>7. InTime(p)'
  <2>1. ts[r] \in Day /\ ts[r] <= today
    BY <1>1, <1>3 DEF InTime
  <2> QED BY <1>1, <1>3, <1>4, <2>1 DEF Begins, InTime, SameHandle, Day
<1>8. Owned(p)'
  <2>1. w'[p].rec = {r} /\ w'[p].rec \cap w'[p].pending = {}
    BY DEF Begins
  <2>2. InFlight(p)' \cap acked' = {} /\ \A q \in Proc \ {p} : InFlight(p)' \cap InFlight(q)' = {}
    BY <1>1, <1>2, <1>3, <1>4 DEF Owned
  <2> QED BY <1>3, <2>1, <2>2 DEF Owned
<1>9. TypeOK'
  BY <1>4, <1>5, <1>6 DEF Begins, Alters, Orderly, TypeOK, Placed
<1>10. Recorded'
  BY <1>4 DEF Orderly, Recorded
<1> QED BY <1>5, <1>6, <1>7, <1>8, <1>9, <1>10 DEF Orderly

\* The line reaches the file of its day, if that has a name.
LEMMA AppendsOrderly ==
    ASSUME Orderly, NEW p \in Proc, Appends(p),
           faults' \in 0 .. MaxFaults /\ crashes' \in 0 .. MaxCrashes
    PROVE  Orderly'
<1>1. \A q \in Proc : Placed(q) /\ InTime(q) /\ Owned(q)
  BY DEF Orderly
<1>2. /\ raw \in [Day -> [on : BOOLEAN, lines : SUBSET Record]]
      /\ w[p].rec \in SUBSET Record /\ w[p].day \in Day
  BY <1>1 DEF Appends, Placed, Orderly, TypeOK, WriterState
<1>3. \A q \in Proc \ {p} : Untouched(q) /\ InFlight(q)' = InFlight(q)
  BY DEF Appends, Alters, Untouched, SameWrite, InFlight
<1>4. InFlight(p)' \subseteq InFlight(p) \ w[p].rec /\ w[p].rec \subseteq InFlight(p)
  BY <1>1 DEF Appends, InFlight, Owned
<1>5. today \in Day /\ UNCHANGED <<today, summary, ts, skipped>> /\ acked' = acked \cup w[p].rec
  BY DEF Appends, Orderly, TypeOK
<1>6. IsFiniteSet(w[p].rec)
  BY <1>1, FS_EmptySet, FS_Singleton DEF Owned
<1>7. /\ raw' \in [Day -> [on : BOOLEAN, lines : SUBSET Record]]
      /\ \A d \in Day : /\ raw'[d].on = raw[d].on
                        /\ raw'[d].lines \in {raw[d].lines, raw[d].lines \cup w[p].rec}
  <2> DEFINE more == [raw[w[p].day] EXCEPT !.lines = @ \cup w[p].rec]
  <2>1. more \in [on : BOOLEAN, lines : SUBSET Record]
    BY <1>2
  <2>2. more.on = raw[w[p].day].on /\ more.lines = raw[w[p].day].lines \cup w[p].rec
    BY <1>2
  <2>3. raw' = IF w[p].linked THEN [raw EXCEPT ![w[p].day] = more] ELSE raw
    BY DEF Appends
  <2> HIDE DEF more
  <2> QED BY <1>2, <2>1, <2>2, <2>3
<1>8. ASSUME NEW q \in Proc \ {p}  PROVE Placed(q)' /\ InTime(q)' /\ Owned(q)'
  <2>1. Placed(q)'
    BY <1>3, <1>7, OthersPlaced
  <2>2. InTime(q)'
    BY <1>1, <1>3, <1>5 DEF InTime, Untouched, SameWrite, SameHandle
  <2>3. Owned(q)'
    BY <1>1, <1>3, <1>4, <1>5 DEF Owned, Untouched, SameWrite
  <2> QED BY <2>1, <2>2, <2>3
<1>9. Placed(p)'
  <2>1. /\ w'[p].open = w[p].open /\ w'[p].linked = w[p].linked /\ w'[p].day = w[p].day
        /\ w'[p].pc = "idle"
    BY DEF Appends, SameHandle
  <2>2. raw'[w[p].day].on = raw[w[p].day].on
    BY <1>2, <1>7
  <2> QED BY <1>1, <1>2, <2>1, <2>2 DEF Placed, Rolled, Removing, Summarizing
<1>10. InTime(p)'
  BY <1>1, <1>4, <1>5 DEF Appends, InTime, SameHandle
<1>11. Owned(p)'
  <2>1. w'[p].rec = {} /\ w'[p].pending = w[p].pending
    BY DEF Appends
  <2>2. InFlight(p)' \cap acked' = {}
    BY <1>1, <1>4, <1>5 DEF Owned
  <2>3. \A q \in Proc \ {p} : InFlight(p)' \cap InFlight(q)' = {}
    BY <1>1, <1>3, <1>4 DEF Owned
  <2> QED BY <2>1, <2>2, <2>3 DEF Owned
<1>12. TypeOK'
  BY <1>2, <1>5, <1>7, <1>8, <1>9 DEF Appends, Alters, Orderly, TypeOK, Placed
<1>13. Recorded'
  <2>1. \A r \in acked' : ts'[r] \in Day /\ ts'[r] <= today'
    BY <1>1, <1>4, <1>5 DEF Orderly, Recorded, InTime
  <2>2. IsFiniteSet(acked') /\ \A d \in Day : IsFiniteSet(raw'[d].lines)
    <3>1. IsFiniteSet(acked) /\ \A d \in Day : IsFiniteSet(raw[d].lines)
      BY DEF Orderly, Recorded
    <3>2. IsFiniteSet(acked \cup w[p].rec) /\ \A d \in Day : IsFiniteSet(raw[d].lines \cup w[p].rec)
      BY <1>6, <3>1, FS_Union
    <3> QED BY <1>5, <1>7, <3>1, <3>2
  <2> QED BY <2>1, <2>2 DEF Recorded
<1> QED BY <1>8, <1>9, <1>10, <1>11, <1>12, <1>13 DEF Orderly

\* Midnight, when nothing is so late that it must end first.
LEMMA TickOrderly ==
    ASSUME Orderly, Tick  PROVE Orderly'
<1>1. /\ today \in Day /\ today' = today + 1 /\ today' \in Day
      /\ UNCHANGED <<raw, summary, ts, w, acked, skipped, faults, crashes>>
  BY RecordBounds DEF Tick, Day, files, bounds, Orderly, TypeOK
<1>2. ASSUME NEW q \in Proc  PROVE Placed(q)' /\ InTime(q)' /\ Owned(q)'
  <2>1. Placed(q) /\ InTime(q) /\ Owned(q) /\ w[q] \in WriterState
    BY DEF Orderly, TypeOK
  <2>2. Placed(q)'
    BY <1>1, <2>1 DEF Placed, Rolled, Removing, Summarizing
  <2>3. Owned(q)'
    BY <1>1, <2>1 DEF Owned, InFlight
  <2>4. w'[q].day <= today'
    BY <1>1, <2>1 DEF InTime, WriterState, Day
  <2>5. \A r \in InFlight(q)' : ts'[r] \in Day /\ ts'[r] <= today' /\ today' - ts'[r] <= MaxLate
    BY <1>1, <2>1 DEF Tick, InTime, InFlight, Day
  <2>6. w[q].pc # "idle" => w[q].began = today
    BY DEF Tick
  <2> QED BY <1>1, <2>1, <2>2, <2>3, <2>4, <2>5, <2>6 DEF InTime, Day
<1>3. TypeOK'
  BY <1>1 DEF Orderly, TypeOK
<1>4. Recorded'
  BY <1>1 DEF Orderly, Recorded, Day
<1> QED BY <1>2, <1>3, <1>4 DEF Orderly

LEMMA InitOrderly == Init => Orderly
<1> SUFFICES ASSUME Init  PROVE Orderly
  OBVIOUS
<1>1. NoFile \in [on : BOOLEAN, lines : SUBSET Record] /\ NoFile.lines = {}
  BY DEF NoFile
<1>2. NoSummary \in [on : BOOLEAN, size : Nat, counts : SUBSET Record]
  BY DEF NoSummary
<1>3. /\ NoLogger \in WriterState /\ NoLogger.pc = "idle" /\ NoLogger.rec = {} /\ ~NoLogger.open
      /\ NoLogger.pending = {} /\ NoLogger.day = 0
  BY NoLoggerTyped DEF NoLogger, NoDay
<1>4. 1 \in Day /\ 0 \in 0 .. MaxDay /\ 0 \in 0 .. MaxFaults /\ 0 \in 0 .. MaxCrashes
  BY RecordBounds DEF Day
<1>5. \A p \in Proc : w[p] = NoLogger
  BY DEF Init
<1>6. TypeOK
  BY <1>1, <1>2, <1>3, <1>4, <1>5 DEF Init, TypeOK, NoDay
<1>7. ASSUME NEW p \in Proc  PROVE Placed(p) /\ InTime(p) /\ Owned(p)
  BY <1>3, <1>5 DEF Placed, InTime, Owned, Rolled, Removing, Summarizing, InFlight, Init
<1>8. Recorded
  BY <1>1, FS_EmptySet DEF Init, Recorded
<1> QED BY <1>6, <1>7, <1>8 DEF Orderly

LEMMA NextOrderly == Orderly /\ [Next]_vars => Orderly'
<1> SUFFICES ASSUME Orderly, [Next]_vars  PROVE Orderly'
  OBVIOUS
<1>1. faults' \in 0 .. MaxFaults /\ crashes' \in 0 .. MaxCrashes
  BY BoundsKept DEF Orderly
<1>2. CASE UNCHANGED vars
  <2>1. UNCHANGED <<today, raw, summary, ts, w, acked, skipped, faults, crashes>>
    BY <1>2 DEF vars, files, bounds
  <2>2. TypeOK' /\ Recorded'
    BY <2>1 DEF Orderly, TypeOK, Recorded
  <2>3. ASSUME NEW p \in Proc  PROVE Placed(p)' /\ InTime(p)' /\ Owned(p)'
    <3>1. Placed(p) /\ InTime(p) /\ Owned(p)
      BY DEF Orderly
    <3>2. Placed(p)'
      BY <2>1, <3>1 DEF Placed, Rolled, Removing, Summarizing
    <3> QED BY <2>1, <3>1, <3>2 DEF InTime, Owned, InFlight
  <2> QED BY <2>2, <2>3 DEF Orderly
<1>3. ASSUME NEW p \in Proc, Steps(p)  PROVE Orderly'
  BY <1>1, <1>3, StopsOrderly, StartsOrderly, AppendsOrderly, RollsOrderly, StartRecordOrderly,
     BeginsOrderly DEF Steps
<1> QED BY <1>2, <1>3, NextSteps, TickOrderly

LEMMA OrderlyHolds == Spec => []Orderly
BY InitOrderly, NextOrderly, PTL DEF Spec

\* Types: the files, the records and the Loggers stay what they are declared
\* to be, and a line is only ever appended to an open file of its own day.
THEOREM RecordTypes == Spec => []TypeOK
<1>1. Orderly => TypeOK
  BY DEF Orderly
<1> QED BY <1>1, OrderlyHolds, PTL

-----------------------------------------------------------------------------
(* Retention                                                               *)

\* What a prune found stays expired.
ListsExpired ==
    \A p \in Proc, d \in Day :
        /\ <<"raw", d>> \in w[p].list => d <= today - RawRetention
        /\ <<"summary", d>> \in w[p].list => d <= today - SumRetention

NoneExpired == \A d \in Day : raw[d].on => d > today - RawRetention

Cleaning(p) == w[p].pc = "prune" \/ Removing(p)

\* While p prunes for today, every expired file is on its list; afterwards
\* none is left.
Swept(p) ==
    /\ Cleaning(p) /\ w[p].day = today =>
          \A d \in Day : raw[d].on /\ d <= today - RawRetention => <<"raw", d>> \in w[p].list
    /\ w[p].pruned /\ w[p].day = today => NoneExpired

\* A list changes when its owner prunes.
LEMMA ListSteps ==
    ASSUME Orderly, NEW p \in Proc, Steps(p), NEW q \in Proc
    PROVE  \/ w'[q].list \subseteq w[q].list
           \/ Lists(p) /\ q = p
<1>1. CASE Stops(p)
  BY <1>1 DEF Stops, Alters, Untouched, SameList
<1>2. CASE Starts(p)
  BY <1>2 DEF Starts, Alters, Untouched, SameList
<1>3. CASE Appends(p)
  BY <1>3 DEF Appends, Alters, Untouched, SameList
<1>4. ASSUME NEW r \in Record, StartRecord(p, r)  PROVE w'[q].list \subseteq w[q].list
  BY <1>4, StartRecordEffect DEF Orderly, Alters, Untouched, SameList
<1>5. ASSUME NEW r \in w[p].pending, Begins(p, r)  PROVE w'[q].list \subseteq w[q].list
  BY <1>5 DEF Begins, Alters, Untouched, SameList
<1>6. CASE RollsOff(p) \/ Sizes(p) \/ FindsOld(p) \/ Computes(p) \/ Opens(p) \/ Finishes(p)
  BY <1>6 DEF RollsOff, Sizes, FindsOld, Computes, Opens, Finishes, Alters, Untouched, SameList
<1>7. CASE KeepsSummary(p) \/ SkipsSummary(p) \/ NeedsNoSummary(p) \/ Publishes(p)
  BY <1>7 DEF KeepsSummary, SkipsSummary, NeedsNoSummary, Publishes, Passes, Alters, Untouched,
              SameList
<1>8. CASE Lists(p)
  BY <1>8 DEF Lists, Alters, Untouched, SameList
<1>9. CASE Removes(p)
  BY <1>9 DEF Removes, SameList
<1>10. ASSUME NEW e \in w[p].list, TurnsTo(p, e) \/ Expires(p, e)
       PROVE  w'[q].list \subseteq w[q].list
  BY <1>10 DEF TurnsTo, Expires, Alters, Untouched, SameList
<1> QED BY <1>1, <1>2, <1>3, <1>4, <1>5, <1>6, <1>7, <1>8, <1>9, <1>10 DEF Steps, Rolls

LEMMA TodayRises ==
    ASSUME Orderly, [Next]_vars  PROVE today \in Nat /\ today' \in {today, today + 1}
<1>1. today \in Nat
  BY DEF Orderly, TypeOK, Day
<1>2. CASE UNCHANGED vars \/ Tick
  BY <1>1, <1>2 DEF vars, Tick
<1>3. ASSUME NEW p \in Proc, Steps(p)  PROVE today' = today
  BY <1>3, RollsQuiet DEF Steps, Stops, Starts, Appends, StartRecord, Begins
<1> QED BY <1>1, <1>2, <1>3, NextSteps

\* A cutoff only moves on.
LEMMA CutoffRises ==
    ASSUME NEW x \in Nat, NEW y \in Nat, NEW keep \in Nat, x <= y, NEW d \in Nat, d <= x - keep
    PROVE  d <= y - keep
OBVIOUS

LEMMA NextListsExpired ==
    ASSUME Orderly, ListsExpired, [Next]_vars  PROVE ListsExpired'
<1>1. RawRetention \in Nat /\ SumRetention \in Nat /\ today \in Nat /\ today' \in Nat /\ today <= today'
  BY RetentionAssumption, TodayRises
<1>2. ASSUME NEW p \in Proc, w'[p].list \subseteq w[p].list, NEW d \in Day
      PROVE  /\ <<"raw", d>> \in w'[p].list => d <= today' - RawRetention
             /\ <<"summary", d>> \in w'[p].list => d <= today' - SumRetention
  <2>1. d \in Nat
    BY DEF Day
  <2>2. /\ <<"raw", d>> \in w'[p].list => d <= today - RawRetention
        /\ <<"summary", d>> \in w'[p].list => d <= today - SumRetention
    BY <1>2 DEF ListsExpired
  <2> QED BY <1>1, <2>1, <2>2, CutoffRises
<1>3. ASSUME NEW p \in Proc, Lists(p), NEW d \in Day
      PROVE  /\ <<"raw", d>> \in w'[p].list => d <= today' - RawRetention
             /\ <<"summary", d>> \in w'[p].list => d <= today' - SumRetention
  BY <1>3 DEF Lists, Expired
<1>4. CASE Tick \/ UNCHANGED vars
  <2>1. \A p \in Proc : w'[p].list \subseteq w[p].list
    BY <1>4 DEF Tick, vars
  <2> QED BY <1>2, <2>1 DEF ListsExpired
<1>5. CASE \E p \in Proc : Steps(p)
  BY <1>2, <1>3, <1>5, ListSteps DEF ListsExpired
<1> QED BY <1>4, <1>5, NextSteps

\* The day a rollover opens is never an expired one, nor a day whose file may
\* already be gone.
LEMMA TargetIsFresh ==
    ASSUME Orderly, NEW p \in Proc, w[p].pc # "idle"
    PROVE  /\ w[p].target \in Day
           /\ today - w[p].target <= MaxLate + 1
           /\ w[p].rec # {} => today - w[p].target <= MaxLate
           /\ Roomy => w[p].target > today - RawRetention
<1>1. InTime(p) /\ today \in Nat /\ MaxLate \in Nat /\ RawRetention \in Nat
  BY RecordBounds, RetentionAssumption DEF Orderly, TypeOK, Day
<1>2. w[p].target \in Nat /\ w[p].target \in Day /\ w[p].began \in Nat
  BY <1>1 DEF InTime, Day
<1>3. w[p].rec # {} => today - w[p].target <= MaxLate
  <2>1. \A r \in w[p].rec : w[p].target = ts[r] /\ today - ts[r] <= MaxLate
    BY <1>1 DEF InTime, InFlight
  <2> QED BY <2>1
<1>4. today - w[p].target <= MaxLate + 1
  BY <1>1, <1>2, <1>3 DEF InTime
<1>5. Roomy => w[p].target > today - RawRetention
  BY <1>1, <1>2, <1>4 DEF Roomy
<1> QED BY <1>2, <1>3, <1>4, <1>5

LEMMA SweptRest ==
    ASSUME Orderly, NEW q \in Proc, Swept(q), today' = today,
           w'[q].day = w[q].day, w[q].list \subseteq w'[q].list,
           Cleaning(q)' => Cleaning(q), w'[q].pruned => w[q].pruned,
           \A d \in Day : raw'[d].on /\ d <= today - RawRetention => raw[d].on
    PROVE  Swept(q)'
<1>1. (w'[q].pruned /\ w'[q].day = today') => NoneExpired'
  <2> SUFFICES ASSUME w'[q].pruned, w'[q].day = today', NEW d \in Day, raw'[d].on
               PROVE  d > today' - RawRetention
    BY DEF NoneExpired
  <2>1. d \in Nat /\ today \in Nat /\ RawRetention \in Nat
    BY RetentionAssumption DEF Day, Orderly, TypeOK
  <2>2. raw[d].on => d > today - RawRetention
    BY DEF Swept, NoneExpired
  <2> QED BY <2>1, <2>2
<1> QED BY <1>1 DEF Swept

LEMMA StepsSwept ==
    ASSUME Orderly, NEW p \in Proc, Steps(p), Roomy \/ Alone, \A q \in Proc : Swept(q)
    PROVE  \A q \in Proc : Swept(q)'
<1> SUFFICES ASSUME NEW q \in Proc  PROVE Swept(q)'
  OBVIOUS
<1>1. /\ Swept(q) /\ today \in Day /\ today # NoDay
      /\ raw \in [Day -> [on : BOOLEAN, lines : SUBSET Record]]
  BY DEF Orderly, TypeOK, Day, NoDay
<1>2. CASE Stops(p)
  <2>1. CASE q = p
    <3>1. w'[p].pc = "idle" /\ UNCHANGED <<today, raw>>
      BY <1>2 DEF Stops, files
    <3>2. w'[p].pruned /\ w'[p].day = today => w[p].pruned /\ w[p].day = today
      BY <1>1, <1>2 DEF Stops
    <3> QED BY <1>1, <2>1, <3>1, <3>2 DEF Swept, Cleaning, Removing, Summarizing, NoneExpired
  <2>2. CASE q # p
    BY <1>1, <1>2, <2>2, SweptRest DEF Stops, Alters, Untouched, SameHandle, SameSum, SameList, files,
                               Cleaning, Removing, Summarizing
  <2> QED BY <2>1, <2>2
<1>3. CASE Starts(p)
  BY <1>1, <1>3, SweptRest DEF Starts, Alters, Untouched, SameHandle, SameSum, SameList, files,
                               Cleaning, Removing, Summarizing, Swept
<1>4. CASE Appends(p)
  <2>1. \A d \in Day : raw'[d].on = raw[d].on
    BY <1>1, <1>4 DEF Appends
  <2> QED BY <1>1, <1>4, <2>1, SweptRest DEF Appends, Alters, Untouched, SameHandle, SameSum,
                               SameList, Cleaning, Removing, Summarizing
<1>5. ASSUME NEW r \in Record, StartRecord(p, r)  PROVE Swept(q)'
  <2>1. UNCHANGED <<today, raw>>
    BY <1>5 DEF StartRecord, files
  <2> QED BY <1>1, <1>5, <2>1, StartRecordEffect, SweptRest DEF Orderly, Alters, Untouched, SameHandle,
                               SameSum, SameList, Cleaning, Removing, Summarizing
<1>6. ASSUME NEW r \in w[p].pending, Begins(p, r)  PROVE Swept(q)'
  BY <1>1, <1>6, SweptRest DEF Begins, Alters, Untouched, SameHandle, SameSum, SameList, files,
                               Cleaning, Removing, Summarizing
<1>7. CASE RollsOff(p)
  BY <1>1, <1>7, SweptRest DEF RollsOff, Alters, Untouched, SameHandle, SameSum, SameList, files,
                               Cleaning, Removing, Summarizing
<1>8. CASE Sizes(p) \/ FindsOld(p) \/ Computes(p)
  BY <1>1, <1>8, SweptRest DEF Sizes, FindsOld, Computes, Alters, Untouched, SameHandle, SameSum,
                               SameList, files, Cleaning, Removing, Summarizing
<1>9. CASE KeepsSummary(p) \/ SkipsSummary(p) \/ NeedsNoSummary(p) \/ Publishes(p)
  <2>1. Passes(p) /\ Summarizing(p) /\ w[p].then \in {"open", "remove"}
    BY <1>9 DEF KeepsSummary, SkipsSummary, NeedsNoSummary, Publishes, Summarizing, Orderly, TypeOK,
                WriterState
  <2>2. CASE q = p /\ w[p].then = "open"
    BY <1>1, <2>1, <2>2 DEF Passes, Swept, Cleaning, Removing, Summarizing
  <2>3. CASE q # p \/ w[p].then = "remove"
    BY <1>1, <2>1, <2>3, SweptRest DEF Passes, Alters, Untouched, SameHandle, SameSum, SameList,
                               Cleaning, Removing, Summarizing
  <2> QED BY <2>1, <2>2, <2>3
<1>10. CASE Opens(p)
  <2>1. CASE q = p
    BY <1>10, <2>1 DEF Opens, Swept, Cleaning, Removing, Summarizing
  <2>2. CASE q # p
    <3>1. Roomy
      BY <2>2 DEF Alone
    <3>2. w[p].target > today - RawRetention /\ w[p].target \in Nat /\ today \in Nat /\ RawRetention \in Nat
      BY <1>10, <3>1, TargetIsFresh, RetentionAssumption DEF Opens, Day, Orderly, TypeOK
    <3>3. \A d \in Day : raw'[d].on /\ d <= today - RawRetention => raw[d].on
      BY <1>1, <1>10, <3>2 DEF Opens
    <3> QED BY <1>1, <1>10, <2>2, <3>3, SweptRest DEF Opens, Alters, Untouched, SameHandle, SameSum,
                               SameList, Cleaning, Removing, Summarizing
  <2> QED BY <2>1, <2>2
<1>11. CASE Lists(p)
  <2>1. CASE q = p
    <3>1. ASSUME w'[p].day = today, NEW d \in Day, raw[d].on, d <= today - RawRetention
          PROVE  <<"raw", d>> \in w'[p].list
      <4>1. d # w[p].day
        BY <1>1, <1>11, <3>1, RetentionAssumption DEF Lists, SameHandle, Day
      <4>2. d \in Expired["raw"]
        BY <3>1 DEF Expired
      <4> QED BY <1>11, <4>1, <4>2 DEF Lists
    <3>2. w'[p].pruned /\ w'[p].day = today' => NoneExpired'
      BY <1>1, <1>11, <2>1 DEF Lists, SameHandle, files, Swept, NoneExpired
    <3> QED BY <1>11, <2>1, <3>1, <3>2 DEF Lists, Swept, files
  <2>2. CASE q # p
    BY <1>1, <1>11, <2>2, SweptRest DEF Lists, Alters, Untouched, SameHandle, SameSum, SameList, files,
                               Cleaning, Removing, Summarizing
  <2> QED BY <2>1, <2>2
<1>12. CASE Finishes(p)
  <2>1. CASE q = p
    <3>1. w[p].day = today => NoneExpired
      <4>1. SUFFICES ASSUME w[p].day = today, NEW d \in Day, raw[d].on  PROVE d > today - RawRetention
        BY DEF NoneExpired
      <4>2. ~(d <= today - RawRetention)
        BY <1>1, <1>12, <2>1, <4>1 DEF Finishes, Swept, Cleaning
      <4>3. d \in Nat /\ today \in Nat /\ RawRetention \in Nat
        BY <1>1, RetentionAssumption DEF Day
      <4> QED BY <4>2, <4>3
    <3>2. UNCHANGED <<today, raw>>
      BY <1>12 DEF Finishes, files
    <3>3. w'[p].day = w[p].day /\ w'[p].pc \in {"idle", "append"}
      BY <1>12 DEF Finishes
    <3> QED BY <2>1, <3>1, <3>2, <3>3 DEF Swept, Cleaning, Removing, Summarizing, NoneExpired
  <2>2. CASE q # p
    BY <1>1, <1>12, <2>2, SweptRest DEF Finishes, Alters, Untouched, SameHandle, SameSum, SameList, files,
                               Cleaning, Removing, Summarizing
  <2> QED BY <2>1, <2>2
<1>13. CASE Removes(p)
  <2>1. today' = today /\ \A d \in Day : raw'[d].on => raw[d].on /\ d # w[p].sum
    BY <1>1, <1>13 DEF Removes, NoFile
  <2>2. CASE q = p
    <3>1. Cleaning(p)
      BY <1>13 DEF Removes, Cleaning, Removing
    <3>2. /\ w'[p].day = w[p].day /\ w'[p].pruned = w[p].pruned
          /\ w'[p].list = w[p].list \ {<<"raw", w[p].sum>>}
      BY <1>13 DEF Removes
    <3> QED BY <1>1, <2>1, <2>2, <3>1, <3>2 DEF Swept, NoneExpired
  <2>3. CASE q # p
    BY <1>1, <1>13, <2>1, <2>3, SweptRest DEF Removes, SameSum, SameList, Cleaning, Removing, Summarizing
  <2> QED BY <2>2, <2>3
<1>14. ASSUME NEW e \in w[p].list, TurnsTo(p, e)  PROVE Swept(q)'
  BY <1>1, <1>14, SweptRest DEF TurnsTo, Alters, Untouched, SameHandle, SameSum, SameList, files,
                               Cleaning, Removing, Summarizing
<1>15. ASSUME NEW e \in w[p].list, Expires(p, e)  PROVE Swept(q)'
  <2>1. CASE q = p
    <3>1. Cleaning(p)
      BY <1>15 DEF Expires, Cleaning
    <3>2. /\ w'[p].day = w[p].day /\ w'[p].pruned = w[p].pruned /\ e[1] = "summary"
          /\ w'[p].list = w[p].list \ {e} /\ UNCHANGED <<today, raw>>
      BY <1>15 DEF Expires, SameHandle
    <3>3. \A d \in Day : <<"raw", d>> # e
      BY <3>2
    <3> QED BY <1>1, <2>1, <3>1, <3>2, <3>3 DEF Swept, NoneExpired
  <2>2. CASE q # p
    BY <1>1, <1>15, <2>2, SweptRest DEF Expires, Alters, Untouched, SameHandle, SameSum, SameList,
                               Cleaning, Removing, Summarizing
  <2> QED BY <2>1, <2>2
<1> QED BY <1>2, <1>3, <1>4, <1>5, <1>6, <1>7, <1>8, <1>9, <1>10, <1>11, <1>12, <1>13, <1>14, <1>15
        DEF Steps, Rolls

LEMMA NextSwept ==
    ASSUME Orderly, [Next]_vars, Roomy \/ Alone, \A q \in Proc : Swept(q)
    PROVE  \A q \in Proc : Swept(q)'
<1>1. CASE UNCHANGED vars
  BY <1>1 DEF vars, files, Swept, Cleaning, Removing, Summarizing, NoneExpired
<1>2. CASE Tick
  <2>1. \A q \in Proc : w'[q].day # today'
    <3>1. today \in Nat /\ today' = today + 1 /\ w' = w
      BY <1>2 DEF Tick, Orderly, TypeOK, Day
    <3>2. \A q \in Proc : w[q].day \in Nat /\ w[q].day <= today
      BY DEF Orderly, TypeOK, InTime, WriterState
    <3> QED BY <3>1, <3>2
  <2> QED BY <2>1 DEF Swept
<1> QED BY <1>1, <1>2, NextSteps, StepsSwept

\* Retention holds for a Logger that has the directory for itself, and for any
\* number of them when raw files outlive late records.
THEOREM RetentionIsKept ==
    ASSUME Roomy \/ Alone  PROVE Spec => []RetentionHolds
<1> DEFINE IInv == Orderly /\ \A q \in Proc : Swept(q)
<1>1. Init => IInv
  <2> SUFFICES ASSUME Init, NEW q \in Proc  PROVE Swept(q)
    BY InitOrderly
  <2>1. w[q] = NoLogger
    BY DEF Init
  <2> QED BY <2>1 DEF Swept, Cleaning, Removing, Summarizing, NoLogger
<1>2. IInv /\ [Next]_vars => IInv'
  BY NextOrderly, NextSwept
<1>3. IInv => RetentionHolds
  BY DEF RetentionHolds, Swept, NoneExpired
<1> QED BY <1>1, <1>2, <1>3, PTL DEF Spec

-----------------------------------------------------------------------------
(* The raw files hold what was recorded                                    *)

\* A file that exists holds all of its day, a day without a file is expired or
\* has no record, and only an expired file is written after it was removed.
Kept ==
    /\ \A d \in Day : /\ raw[d].lines = IF raw[d].on THEN Of(d) ELSE {}
                      /\ ~raw[d].on /\ d > today - RawRetention => Of(d) = {}
    /\ \A p \in Proc : w[p].open /\ ~w[p].linked => w[p].day <= today - RawRetention

\* Only an append adds to a day.
LEMMA StepsOf ==
    ASSUME Orderly, NEW p \in Proc, Steps(p)
    PROVE  (\A d \in Day : Of(d)' = Of(d)) \/ Appends(p)
<1>1. \A q \in Proc : Owned(q)
  BY DEF Orderly
<1>2. ASSUME acked' = acked, \A r \in acked : ts'[r] = ts[r]  PROVE \A d \in Day : Of(d)' = Of(d)
  BY <1>2 DEF Of
<1>3. CASE Stops(p)
  <2>1. PICK R \in SUBSET InFlight(p) : Forget(R)
    BY <1>3 DEF Stops
  <2>2. \A r \in acked : ts'[r] = ts[r]
    BY <1>1, <2>1 DEF Forget, Owned, Orderly, TypeOK
  <2> QED BY <1>2, <1>3, <2>2 DEF Stops
<1>4. ASSUME NEW r \in Record, StartRecord(p, r)  PROVE \A d \in Day : Of(d)' = Of(d)
  <2>1. ts[r] = NoDay /\ ts' = [ts EXCEPT ![r] = today] /\ acked' = acked
    BY <1>4 DEF StartRecord
  <2>2. r \notin acked
    BY <2>1 DEF Orderly, Recorded, Day, NoDay
  <2> QED BY <1>2, <2>1, <2>2 DEF Orderly, TypeOK
<1>5. CASE Starts(p) \/ Rolls(p) \/ \E r \in w[p].pending : Begins(p, r)
  BY <1>2, <1>5, RollsQuiet DEF Starts, Begins
<1> QED BY <1>3, <1>4, <1>5 DEF Steps

LEMMA AppendsOf ==
    ASSUME Orderly, NEW p \in Proc, Appends(p)
    PROVE  \A d \in Day : Of(d)' = IF d = w[p].target THEN Of(d) \cup w[p].rec ELSE Of(d)
<1>1. \A r \in w[p].rec : ts[r] = w[p].target
  BY DEF Orderly, InTime
<1> QED BY <1>1 DEF Appends, Of

LEMMA KeptRest ==
    ASSUME Kept, UNCHANGED <<raw, today>>, \A d \in Day : Of(d)' = Of(d),
           \A q \in Proc : w'[q].open /\ ~w'[q].linked =>
                               w[q].open /\ ~w[q].linked /\ w'[q].day = w[q].day
    PROVE  Kept'
BY DEF Kept

LEMMA OpensKept ==
    ASSUME Orderly, Kept, Roomy, NEW p \in Proc, Opens(p)
    PROVE  Kept'
<1> DEFINE t == w[p].target
<1>1. t \in Day /\ t > today - RawRetention
  BY TargetIsFresh DEF Opens
<1>2. /\ raw \in [Day -> [on : BOOLEAN, lines : SUBSET Record]]
      /\ \A d \in Day : Of(d)' = Of(d)
  BY DEF Opens, Orderly, TypeOK, Of
<1>3. /\ \A d \in Day \ {t} : raw'[d] = raw[d]
      /\ raw'[t].on /\ raw'[t].lines = raw[t].lines
  BY <1>1, <1>2 DEF Opens
<1>4. raw[t].lines = Of(t)
  BY <1>1 DEF Kept
<1>5. ASSUME NEW q \in Proc, w'[q].open, ~w'[q].linked
      PROVE  w'[q].day <= today' - RawRetention
  BY <1>5 DEF Opens, Alters, Untouched, SameHandle, Kept
<1>6. today' = today
  BY DEF Opens
<1> HIDE DEF t
<1>7. ASSUME NEW d \in Day
      PROVE  /\ raw'[d].lines = IF raw'[d].on THEN Of(d)' ELSE {}
             /\ ~raw'[d].on /\ d > today' - RawRetention => Of(d)' = {}
  <2>1. CASE d = t
    BY <1>1, <1>2, <1>3, <1>4, <2>1
  <2>2. CASE d # t
    BY <1>2, <1>3, <1>6, <2>2 DEF Kept
  <2> QED BY <2>1, <2>2
<1> QED BY <1>5, <1>7 DEF Kept

LEMMA RemovesKept ==
    ASSUME Orderly, ListsExpired, Kept, NEW p \in Proc, Removes(p)
    PROVE  Kept'
<1> DEFINE gone == w[p].sum
<1>1. Placed(p) /\ Removing(p) /\ w[p].pc = "remove"
  BY DEF Orderly, Removes, Removing
<1>2. gone \in Day /\ gone <= today - RawRetention
  BY <1>1 DEF Placed, ListsExpired
<1>3. today \in Nat /\ RawRetention \in Nat /\ gone \in Nat /\ today' = today
  BY <1>2, RetentionAssumption DEF Orderly, TypeOK, Day, Removes
<1>4. /\ \A d \in Day \ {gone} : raw'[d] = raw[d]
      /\ raw'[gone].on = FALSE /\ raw'[gone].lines = {}
      /\ \A d \in Day : Of(d)' = Of(d)
  BY <1>2 DEF Removes, Of, NoFile, Orderly, TypeOK
<1>5. ASSUME NEW q \in Proc, w'[q].open, ~w'[q].linked
      PROVE  w'[q].day <= today - RawRetention
  <2>1. /\ w'[q].day = w[q].day /\ w[q].open
        /\ ~w[q].linked \/ w[q].day = gone
    BY <1>5 DEF Removes
  <2> QED BY <1>2, <2>1 DEF Kept
<1> HIDE DEF gone
<1>6. ASSUME NEW d \in Day
      PROVE  /\ raw'[d].lines = IF raw'[d].on THEN Of(d)' ELSE {}
             /\ ~raw'[d].on /\ d > today' - RawRetention => Of(d)' = {}
  <2>1. CASE d = gone
    BY <1>2, <1>3, <1>4, <2>1
  <2>2. CASE d # gone
    BY <1>3, <1>4, <2>2 DEF Kept
  <2> QED BY <2>1, <2>2
<1> QED BY <1>3, <1>5, <1>6 DEF Kept

LEMMA AppendsKept ==
    ASSUME Orderly, Kept, Roomy, NEW p \in Proc, Appends(p)
    PROVE  Kept'
<1> DEFINE t == w[p].target
<1>1. w[p].open /\ w[p].day = t /\ (w[p].linked => raw[t].on)
  BY DEF Appends, Orderly, Placed
<1>2. t \in Day /\ t \in Nat /\ t > today - RawRetention /\ today \in Nat /\ RawRetention \in Nat
  BY TargetIsFresh, RetentionAssumption DEF Appends, Day, Orderly, TypeOK
<1>3. w[p].linked
  BY <1>1, <1>2 DEF Kept
<1>4. \A d \in Day : Of(d)' = IF d = t THEN Of(d) \cup w[p].rec ELSE Of(d)
  BY AppendsOf
<1>5. /\ \A d \in Day \ {t} : raw'[d] = raw[d]
      /\ raw'[t].on = raw[t].on /\ raw'[t].lines = raw[t].lines \cup w[p].rec
  <2>1. raw' = [raw EXCEPT ![t].lines = @ \cup w[p].rec]
    BY <1>1, <1>3 DEF Appends
  <2>2. raw \in [Day -> [on : BOOLEAN, lines : SUBSET Record]]
    BY DEF Orderly, TypeOK
  <2> HIDE DEF t
  <2> QED BY <1>2, <2>1, <2>2
<1>6. today' = today /\ \A q \in Proc : /\ w'[q].open = w[q].open /\ w'[q].linked = w[q].linked
                                        /\ w'[q].day = w[q].day
  BY DEF Appends, Alters, Untouched, SameHandle
<1> HIDE DEF t
<1>7. ASSUME NEW d \in Day
      PROVE  /\ raw'[d].lines = IF raw'[d].on THEN Of(d)' ELSE {}
             /\ ~raw'[d].on /\ d > today' - RawRetention => Of(d)' = {}
  <2>1. CASE d = t
    BY <1>1, <1>3, <1>4, <1>5, <2>1 DEF Kept
  <2>2. CASE d # t
    BY <1>4, <1>5, <1>6, <2>2 DEF Kept
  <2> QED BY <2>1, <2>2
<1> QED BY <1>6, <1>7 DEF Kept

LEMMA NextKept ==
    ASSUME Orderly, ListsExpired, Kept, Roomy, [Next]_vars
    PROVE  Kept'
<1>1. CASE UNCHANGED vars
  BY <1>1, KeptRest DEF vars, files, Of
<1>2. CASE Tick
  <2>1. today \in Nat /\ today + 1 \in Nat /\ today' = today + 1 /\ RawRetention \in Nat
    BY <1>2, RetentionAssumption DEF Tick, Orderly, TypeOK, Day
  <2>2. UNCHANGED <<raw, w>> /\ \A d \in Day : Of(d)' = Of(d)
    BY <1>2 DEF Tick, files, Of
  <2>3. \A p \in Proc : w[p].day \in Nat
    BY DEF Orderly, TypeOK, WriterState
  <2>4. \A d \in Nat : d <= today - RawRetention => d <= today' - RawRetention
    BY <2>1
  <2>5. \A d \in Nat : d > today' - RawRetention => d > today - RawRetention
    BY <2>1
  <2>6. Day \subseteq Nat
    BY DEF Day
  <2> QED BY <2>2, <2>3, <2>4, <2>5, <2>6 DEF Kept
<1>3. ASSUME NEW p \in Proc, Steps(p)  PROVE Kept'
  <2>1. CASE Appends(p)
    BY <2>1, AppendsKept
  <2>2. CASE Opens(p)
    BY <2>2, OpensKept
  <2>3. CASE Removes(p)
    BY <2>3, RemovesKept
  <2>4. CASE ~Appends(p) /\ ~Opens(p) /\ ~Removes(p)
    <3>1. \A d \in Day : Of(d)' = Of(d)
      BY <1>3, <2>4, StepsOf
    <3>2. ASSUME Stops(p) \/ Starts(p)  PROVE Kept'
      BY <3>1, <3>2, KeptRest DEF Stops, Starts, files, Alters, Untouched, SameHandle
    <3>3. ASSUME NEW r \in Record, StartRecord(p, r)  PROVE Kept'
      <4>1. UNCHANGED <<today, raw>>
        BY <3>3 DEF StartRecord, files
      <4> QED BY <3>1, <3>3, <4>1, StartRecordEffect, KeptRest DEF Orderly, Alters, Untouched, SameHandle
    <3>4. ASSUME NEW r \in w[p].pending, Begins(p, r)  PROVE Kept'
      BY <3>1, <3>4, KeptRest DEF Begins, files, Alters, Untouched, SameHandle
    <3>5. ASSUME RollsOff(p) \/ Sizes(p) \/ FindsOld(p) \/ Computes(p) \/ Lists(p) \/ Finishes(p)
          PROVE  Kept'
      BY <3>1, <3>5, KeptRest DEF RollsOff, Sizes, FindsOld, Computes, Lists, Finishes, files, Alters,
                                  Untouched, SameHandle
    <3>6. ASSUME KeepsSummary(p) \/ SkipsSummary(p) \/ NeedsNoSummary(p) \/ Publishes(p)
          PROVE  Kept'
      <4>1. Passes(p) /\ Summarizing(p)
        BY <3>6 DEF KeepsSummary, SkipsSummary, NeedsNoSummary, Publishes, Summarizing
      <4>2. w[p].then = "open" => ~w[p].open
        BY <4>1 DEF Orderly, Placed
      <4> QED BY <3>1, <4>1, <4>2, KeptRest DEF Passes, Alters, Untouched, SameHandle
    <3>7. ASSUME NEW e \in w[p].list, TurnsTo(p, e) \/ Expires(p, e)  PROVE Kept'
      BY <3>1, <3>7, KeptRest DEF TurnsTo, Expires, files, Alters, Untouched, SameHandle
    <3> QED BY <1>3, <2>4, <3>2, <3>3, <3>4, <3>5, <3>6, <3>7 DEF Steps, Rolls
  <2> QED BY <2>1, <2>2, <2>3, <2>4
<1> QED BY <1>1, <1>2, <1>3, NextSteps

-----------------------------------------------------------------------------
(* Summaries count what their size says                                    *)

\* An aggregate over some lines of S, at least size of them, counts them all.
Covered(counts, size, S) ==
    \E L \in SUBSET S : Aggregated(L) \subseteq counts /\ size <= Cardinality(L)

LEMMA CoveredGrows ==
    ASSUME NEW counts, NEW size, NEW S, NEW T, S \subseteq T, Covered(counts, size, S)
    PROVE  Covered(counts, size, T)
BY DEF Covered

\* One that has the size of S left nothing of S out.
LEMMA CoveredAll ==
    ASSUME NEW counts, NEW S, IsFiniteSet(S), Covered(counts, Cardinality(S), S)
    PROVE  Aggregated(S) \subseteq counts
<1>1. PICK L \in SUBSET S : Aggregated(L) \subseteq counts /\ Cardinality(S) <= Cardinality(L)
  BY DEF Covered
<1>2. Cardinality(L) <= Cardinality(S) /\ (Cardinality(L) = Cardinality(S) => L = S)
  BY FS_Subset
<1>3. Cardinality(L) \in Nat /\ Cardinality(S) \in Nat
  BY FS_Subset, FS_CardinalityType
<1>4. L = S
  BY <1>1, <1>2, <1>3
<1> QED BY <1>1, <1>4

LEMMA OfFinite ==
    ASSUME Orderly, NEW d  PROVE IsFiniteSet(Of(d)) /\ Cardinality(Of(d)) \in Nat
<1>1. Of(d) \subseteq acked /\ IsFiniteSet(acked)
  BY DEF Of, Orderly, Recorded
<1> QED BY <1>1, FS_Subset, FS_CardinalityType

LEMMA OfGrows ==
    ASSUME Orderly, [Next]_vars, NEW d \in Day
    PROVE  /\ Of(d) \subseteq Of(d)' /\ IsFiniteSet(Of(d)')
           /\ Cardinality(Of(d)) \in Nat /\ Cardinality(Of(d)') \in Nat
           /\ Cardinality(Of(d)) <= Cardinality(Of(d)')
<1>1. Of(d) \subseteq Of(d)'
  <2>1. CASE UNCHANGED vars \/ Tick
    BY <2>1 DEF vars, Tick, Of
  <2>2. ASSUME NEW p \in Proc, Steps(p)  PROVE Of(d) \subseteq Of(d)'
    BY <2>2, StepsOf, AppendsOf
  <2> QED BY <2>1, <2>2, NextSteps
<1>2. IsFiniteSet(Of(d)')
  <2>1. Orderly'
    BY NextOrderly
  <2>2. IsFiniteSet(acked') /\ Of(d)' \subseteq acked'
    BY <2>1 DEF Orderly, Recorded, Of
  <2> QED BY <2>2, FS_Subset
<1> QED BY <1>1, <1>2, OfFinite, FS_Subset, FS_CardinalityType

\* The size taken before the file is read is no more than what is read.
Sums(p) ==
    /\ w[p].pc \in {"read", "aggregate"} => w[p].size <= Cardinality(Of(w[p].sum))
    /\ w[p].pc = "rename" => Covered(w[p].agg, w[p].size, Of(w[p].sum))

SummariesTrue ==
    /\ \A d \in Day : summary[d].on => Covered(summary[d].counts, summary[d].size, Of(d))
    /\ \A p \in Proc : Sums(p)

LEMMA SumsRest ==
    ASSUME Orderly, [Next]_vars, NEW q \in Proc, Sums(q),
           w'[q].pc \in {"read", "aggregate", "rename"} =>
               /\ w'[q].pc = w[q].pc \/ (w[q].pc = "read" /\ w'[q].pc = "aggregate")
               /\ w'[q].sum = w[q].sum /\ w'[q].size = w[q].size /\ w'[q].agg = w[q].agg
    PROVE  Sums(q)'
<1> SUFFICES ASSUME w'[q].pc \in {"read", "aggregate", "rename"}  PROVE Sums(q)'
  BY DEF Sums
<1>1. PICK d \in Day : w[q].sum = d /\ w'[q].sum = d
  BY DEF Orderly, Placed, Summarizing
<1>2. /\ Of(d) \subseteq Of(d)'
      /\ Cardinality(Of(d)) <= Cardinality(Of(d)')
      /\ Cardinality(Of(d)) \in Nat /\ Cardinality(Of(d)') \in Nat
  BY OfGrows
<1>3. w[q].size \in Nat
  BY DEF Orderly, TypeOK, WriterState
<1>4. Of(w[q].sum) = Of(d) /\ Of(w[q].sum)' = Of(d)'
  BY <1>1 DEF Of
<1>5. w'[q].pc \in {"read", "aggregate"} => w'[q].size <= Cardinality(Of(w[q].sum)')
  BY <1>2, <1>3, <1>4 DEF Sums
<1>6. w'[q].pc = "rename" => Covered(w'[q].agg, w'[q].size, Of(w[q].sum)')
  BY <1>2, <1>4, CoveredGrows DEF Sums
<1> QED BY <1>5, <1>6 DEF Sums

LEMMA StepsSums ==
    ASSUME Orderly, Kept, NEW p \in Proc, Steps(p), [Next]_vars, \A q \in Proc : Sums(q)
    PROVE  \A q \in Proc : Sums(q)'
<1> SUFFICES ASSUME NEW q \in Proc  PROVE Sums(q)'
  OBVIOUS
<1>1. CASE Stops(p)
  BY <1>1, SumsRest DEF Stops, Alters, Untouched, SameSum
<1>2. CASE Starts(p)
  BY <1>2, SumsRest DEF Starts, Alters, Untouched, SameSum
<1>3. CASE Appends(p)
  BY <1>3, SumsRest DEF Appends, Alters, Untouched, SameSum
<1>4. ASSUME NEW r \in Record, StartRecord(p, r)  PROVE Sums(q)'
  BY <1>4, StartRecordEffect, SumsRest DEF Orderly, Alters, Untouched, SameSum
<1>5. ASSUME NEW r \in w[p].pending, Begins(p, r)  PROVE Sums(q)'
  BY <1>5, SumsRest DEF Begins, Alters, Untouched, SameSum
<1>6. CASE RollsOff(p) \/ Opens(p) \/ Finishes(p) \/ Lists(p)
  BY <1>6, SumsRest DEF RollsOff, Opens, Finishes, Lists, Alters, Untouched, SameSum
<1>7. CASE FindsOld(p)
  BY <1>7, SumsRest DEF FindsOld, Alters, Untouched, SameSum
<1>8. CASE KeepsSummary(p) \/ SkipsSummary(p) \/ NeedsNoSummary(p) \/ Publishes(p)
  <2>1. Passes(p) /\ w[p].then \in {"open", "remove"}
    BY <1>8 DEF KeepsSummary, SkipsSummary, NeedsNoSummary, Publishes, Orderly, TypeOK, WriterState
  <2> QED BY <2>1, SumsRest DEF Passes, Alters, Untouched, SameSum
<1>9. CASE Removes(p)
  BY <1>9, SumsRest DEF Removes, SameSum
<1>10. ASSUME NEW e \in w[p].list, TurnsTo(p, e) \/ Expires(p, e)  PROVE Sums(q)'
  BY <1>10, SumsRest DEF TurnsTo, Expires, Alters, Untouched, SameSum
<1>11. CASE Sizes(p)
  <2>1. CASE q # p
    BY <1>11, <2>1, SumsRest DEF Sizes, Alters, Untouched, SameSum
  <2>2. CASE q = p
    <3>1. PICK d \in Day : w[p].sum = d
      BY <1>11 DEF Sizes, Orderly, Placed, Summarizing
    <3>2. w'[p].pc = "read" /\ w'[p].sum = d /\ w'[p].size = Cardinality(Of(d))
      BY <1>11, <3>1 DEF Sizes, Kept
    <3>3. Of(w[p].sum)' = Of(d)'
      BY <3>2 DEF Of
    <3> QED BY <2>2, <3>2, <3>3, OfGrows DEF Sums
  <2> QED BY <2>1, <2>2
<1>12. CASE Computes(p)
  <2>1. CASE q # p
    BY <1>12, <2>1, SumsRest DEF Computes, Alters, Untouched, SameSum
  <2>2. CASE q = p
    <3>1. PICK d \in Day : w[p].sum = d
      BY <1>12 DEF Computes, Orderly, Placed, Summarizing
    <3>2. /\ w'[p].pc = "rename" /\ w'[p].sum = d /\ w'[p].size = w[p].size
          /\ w'[p].agg = Aggregated(Of(d))
      BY <1>12, <3>1 DEF Computes, Kept
    <3>3. w[p].size <= Cardinality(Of(d))
      BY <1>12, <3>1 DEF Computes, Sums
    <3>4. Covered(w'[p].agg, w'[p].size, Of(d))
      BY <3>2, <3>3 DEF Covered
    <3>5. Covered(w'[p].agg, w'[p].size, Of(d)')
      BY <3>4, OfGrows, CoveredGrows
    <3>6. Of(w[p].sum)' = Of(d)'
      BY <3>2 DEF Of
    <3> QED BY <2>2, <3>2, <3>5, <3>6 DEF Sums
  <2> QED BY <2>1, <2>2
<1> QED BY <1>1, <1>2, <1>3, <1>4, <1>5, <1>6, <1>7, <1>8, <1>9, <1>10, <1>11, <1>12 DEF Steps, Rolls

\* Only a rename publishes a summary, and only a prune removes one.
LEMMA SummarySteps ==
    ASSUME Orderly, NEW p \in Proc, Steps(p)
    PROVE  \/ summary' = summary
           \/ Publishes(p)
           \/ \E e \in w[p].list : Expires(p, e)
<1>1. CASE Stops(p) \/ Starts(p) \/ Appends(p) \/ \E r \in w[p].pending : Begins(p, r)
  BY <1>1 DEF Stops, Starts, Appends, Begins, files
<1>2. CASE \E r \in Record : StartRecord(p, r)
  BY <1>2 DEF StartRecord, files
<1>3. CASE RollsOff(p) \/ Sizes(p) \/ FindsOld(p) \/ Computes(p) \/ KeepsSummary(p) \/ SkipsSummary(p)
           \/ NeedsNoSummary(p) \/ Opens(p) \/ Lists(p) \/ Finishes(p) \/ Removes(p)
  BY <1>3 DEF RollsOff, Sizes, FindsOld, Computes, KeepsSummary, SkipsSummary, NeedsNoSummary, Opens,
              Lists, Finishes, Removes, files
<1>4. CASE \E e \in w[p].list : TurnsTo(p, e)
  BY <1>4 DEF TurnsTo, files
<1> QED BY <1>1, <1>2, <1>3, <1>4 DEF Steps, Rolls

LEMMA NextSummaries ==
    ASSUME Orderly, Kept, [Next]_vars, SummariesTrue
    PROVE  SummariesTrue'
<1>1. summary \in [Day -> [on : BOOLEAN, size : Nat, counts : SUBSET Record]]
  BY DEF Orderly, TypeOK
<1>2. ASSUME NEW d \in Day, summary'[d] = summary[d], summary[d].on
      PROVE  Covered(summary'[d].counts, summary'[d].size, Of(d)')
  BY <1>2, OfGrows, CoveredGrows DEF SummariesTrue
<1>3. CASE Tick \/ UNCHANGED vars
  <2>1. UNCHANGED <<summary, w>>
    BY <1>3 DEF Tick, vars, files
  <2>2. \A q \in Proc : Sums(q)'
    BY <2>1, SumsRest DEF SummariesTrue
  <2> QED BY <1>2, <2>1, <2>2 DEF SummariesTrue
<1>4. ASSUME NEW p \in Proc, Steps(p)  PROVE SummariesTrue'
  <2>1. \A q \in Proc : Sums(q)'
    BY <1>4, StepsSums DEF SummariesTrue
  <2>2. ASSUME NEW d \in Day, summary'[d].on
        PROVE  Covered(summary'[d].counts, summary'[d].size, Of(d)')
    <3>1. CASE summary' = summary
      BY <1>2, <2>2, <3>1
    <3>2. CASE Publishes(p)
      <4>1. CASE d = w[p].sum
        <5>1. summary'[d].size = w[p].size /\ summary'[d].counts = w[p].agg
          BY <1>1, <3>2, <4>1 DEF Publishes
        <5>2. Covered(w[p].agg, w[p].size, Of(d))
          BY <3>2, <4>1 DEF Publishes, SummariesTrue, Sums
        <5> QED BY <5>1, <5>2, OfGrows, CoveredGrows
      <4>2. CASE d # w[p].sum
        <5>1. summary'[d] = summary[d]
          BY <1>1, <3>2, <4>2 DEF Publishes
        <5> QED BY <1>2, <2>2, <5>1
      <4> QED BY <4>1, <4>2
    <3>3. ASSUME NEW e \in w[p].list, Expires(p, e)
          PROVE  summary'[d] = summary[d]
      BY <1>1, <2>2, <3>3 DEF Expires, NoSummary
    <3> QED BY <1>2, <1>4, <2>2, <3>1, <3>2, <3>3, SummarySteps
  <2> QED BY <2>1, <2>2 DEF SummariesTrue
<1> QED BY <1>3, <1>4, NextSteps

\* What holds of the directory when raw files outlive late records.
RoomyInv == Orderly /\ ListsExpired /\ Kept /\ SummariesTrue

LEMMA InitRoomy == Init => RoomyInv
<1> SUFFICES ASSUME Init  PROVE ListsExpired /\ Kept /\ SummariesTrue
  BY InitOrderly DEF RoomyInv
<1>1. /\ NoLogger.list = {} /\ ~NoLogger.open /\ NoLogger.pc = "idle"
      /\ \A p \in Proc : w[p] = NoLogger
      /\ \A d \in Day : raw[d] = NoFile /\ summary[d] = NoSummary /\ Of(d) = {}
  BY DEF Init, NoLogger, Of
<1>2. NoFile.lines = {} /\ ~NoFile.on /\ ~NoSummary.on
  BY DEF NoFile, NoSummary
<1> QED BY <1>1, <1>2 DEF ListsExpired, Kept, SummariesTrue, Sums

LEMMA NextRoomy ==
    ASSUME Roomy  PROVE RoomyInv /\ [Next]_vars => RoomyInv'
BY NextOrderly, NextListsExpired, NextKept, NextSummaries DEF RoomyInv

\* The idempotence key of summarize is sound for any number of processes, any
\* interleaving of their rollovers, faults and crashes: a summary of the size of
\* its raw file counts every line of it.
THEOREM SummaryKey ==
    ASSUME Roomy  PROVE Spec => []SummaryKeyIsSound
<1>1. ASSUME RoomyInv  PROVE SummaryKeyIsSound
  <2> SUFFICES ASSUME NEW d \in Day, raw[d].on, summary[d].on,
                      summary[d].size = Cardinality(raw[d].lines)
               PROVE  Aggregated(raw[d].lines) \subseteq summary[d].counts
    BY DEF SummaryKeyIsSound
  <2>1. raw[d].lines = Of(d)
    BY <1>1 DEF RoomyInv, Kept
  <2>2. Covered(summary[d].counts, Cardinality(Of(d)), Of(d))
    BY <1>1, <2>1 DEF RoomyInv, SummariesTrue
  <2>3. IsFiniteSet(Of(d))
    BY <1>1, OfFinite DEF RoomyInv
  <2> QED BY <2>1, <2>2, <2>3, CoveredAll
<1> QED BY <1>1, InitRoomy, NextRoomy, PTL DEF Spec

-----------------------------------------------------------------------------
(* What retention leaves behind                                            *)

\* The day is over for every write that may still come: nothing is appended to
\* it after this write began.
Settled(p) == w[p].sum + MaxLate < w[p].began

\* The summary of a day makes up for its raw file.
Counted(d) ==
    d \in skipped \/ d <= today - SumRetention \/ Aggregated(Of(d)) \subseteq summary[d].counts

Safe(d) == Of(d) \cap Call = {} \/ Counted(d)

Preserving(p) ==
    /\ w[p].pc = "read" /\ Settled(p) => w[p].size = Cardinality(Of(w[p].sum))
    /\ w[p].pc = "rename" /\ Settled(p) => Aggregated(Of(w[p].sum)) \subseteq w[p].agg
    /\ w[p].pc = "remove" => Safe(w[p].sum)

Preserved ==
    /\ \A p \in Proc : Preserving(p)
    /\ \A d \in Day : ~raw[d].on => Safe(d)

\* An expired day is over for whoever writes now.
LEMMA ExpiredIsOver ==
    ASSUME Orderly, Roomy, NEW p \in Proc, w[p].pc # "idle", NEW d \in Day, d <= today - RawRetention
    PROVE  d + MaxLate < w[p].began
<1>1. w[p].began \in Nat /\ today \in Nat /\ today <= w[p].began + 1
  BY DEF Orderly, TypeOK, InTime, Day
<1>2. MaxLate \in Nat /\ RawRetention \in Nat /\ d \in Nat /\ RawRetention > MaxLate + 1
  BY RecordBounds, RetentionAssumption DEF Day, Roomy
<1> QED BY <1>1, <1>2

LEMMA RemovedIsExpired ==
    ASSUME Orderly, ListsExpired, NEW p \in Proc, Removing(p)
    PROVE  w[p].sum \in Day /\ w[p].sum <= today - RawRetention /\ w[p].pc # "idle"
BY DEF Orderly, Placed, ListsExpired, Removing, Summarizing

\* Nothing is added to a day that is over for some writer.
LEMMA OverStays ==
    ASSUME Orderly, NEW p \in Proc, Steps(p), NEW q \in Proc, w[q].pc # "idle",
           NEW d \in Day, d + MaxLate < w[q].began
    PROVE  Of(d)' = Of(d)
<1>1. CASE ~Appends(p)
  BY <1>1, StepsOf
<1>2. CASE Appends(p)
  <2>1. w[q].began \in Nat /\ w[q].began <= today /\ today \in Nat /\ d \in Nat /\ MaxLate \in Nat
    BY RecordBounds DEF Orderly, TypeOK, InTime, Day
  <2>2. w[p].target \in Nat /\ (w[p].rec # {} => today - w[p].target <= MaxLate)
    BY <1>2, TargetIsFresh DEF Appends, Day
  <2>3. w[p].rec # {} => d # w[p].target
    BY <2>1, <2>2
  <2> QED BY <1>2, <2>3, AppendsOf
<1> QED BY <1>1, <1>2

LEMMA SkippedGrows ==
    ASSUME Orderly, NEW p \in Proc, Steps(p)
    PROVE  skipped \subseteq skipped' /\ today' = today
<1>1. CASE Stops(p) \/ Starts(p) \/ Appends(p) \/ \E r \in w[p].pending : Begins(p, r)
  BY <1>1 DEF Stops, Starts, Appends, Begins
<1>2. CASE \E r \in Record : StartRecord(p, r)
  BY <1>2 DEF StartRecord
<1>3. CASE RollsOff(p) \/ Sizes(p) \/ FindsOld(p) \/ Computes(p) \/ Opens(p) \/ Lists(p) \/ Finishes(p)
           \/ Removes(p) \/ \E e \in w[p].list : TurnsTo(p, e) \/ Expires(p, e)
  BY <1>3 DEF RollsOff, Sizes, FindsOld, Computes, Opens, Lists, Finishes, Removes, TurnsTo, Expires
<1>4. CASE KeepsSummary(p) \/ SkipsSummary(p) \/ NeedsNoSummary(p) \/ Publishes(p)
  BY <1>4 DEF KeepsSummary, SkipsSummary, NeedsNoSummary, Publishes, Passes
<1> QED BY <1>1, <1>2, <1>3, <1>4 DEF Steps, Rolls

\* A day whose raw file may go stays made up for.
LEMMA SafeStays ==
    ASSUME RoomyInv, Roomy, Preserved, NEW p \in Proc, Steps(p),
           NEW d \in Day, d <= today - RawRetention, Safe(d)
    PROVE  Safe(d)'
<1>1. Orderly /\ ListsExpired /\ Preserving(p)
  BY DEF RoomyInv, Preserved
<1>2. skipped \subseteq skipped' /\ today' = today
  BY <1>1, SkippedGrows
<1>3. Of(d)' = Of(d)
  <2>1. CASE Appends(p)
    BY <1>1, <2>1, ExpiredIsOver, OverStays DEF Appends
  <2>2. CASE ~Appends(p)
    BY <1>1, <2>2, StepsOf
  <2> QED BY <2>1, <2>2
<1>4. summary \in [Day -> [on : BOOLEAN, size : Nat, counts : SUBSET Record]]
  BY <1>1 DEF Orderly, TypeOK
<1>5. CASE summary'[d] = summary[d]
  BY <1>2, <1>3, <1>5 DEF Safe, Counted
<1>6. CASE Publishes(p) /\ w[p].sum = d
  <2>1. Settled(p)
    BY <1>1, <1>6, ExpiredIsOver DEF Publishes, Settled
  <2>2. Aggregated(Of(d)) \subseteq w[p].agg
    BY <1>1, <1>6, <2>1 DEF Publishes, Preserving
  <2>3. summary'[d].counts = w[p].agg
    BY <1>4, <1>6 DEF Publishes
  <2> QED BY <1>3, <2>2, <2>3 DEF Safe, Counted
<1>7. CASE Publishes(p) /\ w[p].sum # d
  <2>1. summary'[d] = summary[d]
    BY <1>4, <1>7 DEF Publishes
  <2> QED BY <1>5, <2>1
<1>8. ASSUME NEW e \in w[p].list, Expires(p, e)  PROVE Safe(d)'
  <2>1. CASE e[2] # d
    <3>1. summary'[d] = summary[d]
      BY <1>4, <1>8, <2>1 DEF Expires
    <3> QED BY <1>5, <3>1
  <2>2. CASE e[2] = d
    <3>1. e = <<"summary", d>>
      BY <1>1, <1>8, <2>2 DEF Expires, Orderly, TypeOK, WriterState
    <3>2. d <= today - SumRetention
      BY <1>1, <1>8, <3>1 DEF ListsExpired
    <3> QED BY <1>2, <3>2 DEF Safe, Counted
  <2> QED BY <2>1, <2>2
<1> QED BY <1>1, <1>5, <1>6, <1>7, <1>8, SummarySteps

LEMMA PreservingRest ==
    ASSUME RoomyInv, Roomy, Preserved, NEW p \in Proc, Steps(p), NEW q \in Proc,
           w'[q].pc \in {"read", "rename", "remove"} =>
               /\ w'[q].pc = w[q].pc /\ w'[q].sum = w[q].sum /\ w'[q].size = w[q].size
               /\ w'[q].agg = w[q].agg /\ w'[q].began = w[q].began
    PROVE  Preserving(q)'
<1> SUFFICES ASSUME w'[q].pc \in {"read", "rename", "remove"}  PROVE Preserving(q)'
  BY DEF Preserving
<1>1. Orderly /\ ListsExpired /\ Preserving(q)
  BY DEF RoomyInv, Preserved
<1>2. PICK d \in Day : w[q].sum = d /\ w'[q].sum = d
  BY <1>1 DEF Orderly, Placed, Summarizing
<1>3. Of(w[q].sum) = Of(d) /\ Of(w[q].sum)' = Of(d)'
  BY <1>2 DEF Of
<1>4. Settled(q)' => Settled(q) /\ Of(d)' = Of(d)
  <2>1. Settled(q)' => Settled(q) /\ d + MaxLate < w[q].began
    BY <1>2 DEF Settled
  <2> QED BY <1>1, <2>1, OverStays
<1>5. w'[q].pc = "remove" => Safe(w[q].sum)'
  <2>1. w'[q].pc = "remove" => d <= today - RawRetention /\ Safe(d)
    BY <1>1, <1>2, RemovedIsExpired DEF Removing, Preserving
  <2>2. w'[q].pc = "remove" => Safe(d)'
    BY <2>1, SafeStays
  <2>3. Safe(w[q].sum)' = Safe(d)'
    BY <1>2, <1>3 DEF Safe, Counted
  <2> QED BY <2>2, <2>3
<1> QED BY <1>1, <1>2, <1>3, <1>4, <1>5 DEF Preserving

LEMMA SizesPreserving ==
    ASSUME RoomyInv, Roomy, Preserved, NEW p \in Proc, Steps(p), Sizes(p)
    PROVE  Preserving(p)'
<1>1. Orderly /\ Kept
  BY DEF RoomyInv
<1>2. PICK d \in Day : w[p].sum = d
  BY <1>1 DEF Sizes, Orderly, Placed, Summarizing
<1>3. w'[p].pc = "read" /\ w'[p].sum = d /\ w'[p].size = Cardinality(Of(d))
  BY <1>1, <1>2 DEF Sizes, Kept
<1>4. Of(w[p].sum)' = Of(d)
  BY <1>3 DEF Of, Sizes
<1> QED BY <1>3, <1>4 DEF Preserving

LEMMA ComputesPreserving ==
    ASSUME RoomyInv, Roomy, Preserved, NEW p \in Proc, Steps(p), Computes(p)
    PROVE  Preserving(p)'
<1>1. Orderly /\ Kept
  BY DEF RoomyInv
<1>2. PICK d \in Day : w[p].sum = d
  BY <1>1 DEF Computes, Orderly, Placed, Summarizing
<1>3. w'[p].pc = "rename" /\ w'[p].sum = d /\ w'[p].agg = Aggregated(Of(d))
  BY <1>1, <1>2 DEF Computes, Kept
<1>4. Of(w[p].sum)' = Of(d)
  BY <1>3 DEF Of, Computes
<1> QED BY <1>3, <1>4 DEF Preserving

\* summarize lets a prune go on: the day is made up for.
LEMMA PassesPreserving ==
    ASSUME RoomyInv, Roomy, Preserved, NEW p \in Proc, Steps(p),
           KeepsSummary(p) \/ SkipsSummary(p) \/ NeedsNoSummary(p) \/ Publishes(p)
    PROVE  Preserving(p)'
<1>1. Orderly /\ ListsExpired /\ Kept /\ SummariesTrue /\ Preserving(p)
  BY DEF RoomyInv, Preserved
<1>2. Passes(p) /\ Summarizing(p) /\ w[p].then \in {"open", "remove"}
  BY <1>1 DEF KeepsSummary, SkipsSummary, NeedsNoSummary, Publishes, Summarizing, Orderly, TypeOK,
              WriterState
<1>3. CASE w[p].then = "open"
  BY <1>2, <1>3 DEF Passes, Preserving
<1>4. CASE w[p].then = "remove"
  <2>1. Removing(p)
    BY <1>2, <1>4 DEF Removing
  <2>2. PICK d \in Day : w[p].sum = d /\ d <= today - RawRetention /\ w[p].pc # "idle"
    BY <1>1, <2>1, RemovedIsExpired
  <2>3. Settled(p)
    BY <1>1, <2>2, ExpiredIsOver DEF Settled
  <2>4. w'[p].pc = "remove" /\ w'[p].sum = d /\ UNCHANGED <<today, raw, ts, acked>>
    BY <1>2, <1>4, <2>2 DEF Passes
  <2>5. Of(d)' = Of(d)
    BY <2>4 DEF Of
  <2>6. summary \in [Day -> [on : BOOLEAN, size : Nat, counts : SUBSET Record]]
    BY <1>1 DEF Orderly, TypeOK
  <2>7. CASE KeepsSummary(p)
    <3>1. Covered(summary[d].counts, Cardinality(Of(d)), Of(d))
      BY <1>1, <2>2, <2>3, <2>7 DEF KeepsSummary, Preserving, SummariesTrue
    <3>2. Aggregated(Of(d)) \subseteq summary[d].counts
      BY <1>1, <3>1, OfFinite, CoveredAll
    <3>3. Safe(d)'
      BY <2>5, <2>7, <3>2 DEF KeepsSummary, Safe, Counted
    <3> QED BY <2>4, <3>3 DEF Preserving, Safe, Counted, Of
  <2>8. CASE SkipsSummary(p)
    BY <2>2, <2>4, <2>8 DEF SkipsSummary, Preserving, Safe, Counted
  <2>9. CASE NeedsNoSummary(p)
    <3>1. raw[d].lines = Of(d) /\ Of(d) \cap Call = {}
      BY <1>1, <2>2, <2>9 DEF NeedsNoSummary, Kept, Dated
    <3>2. Of(w[p].sum)' = Of(d)
      BY <2>4 DEF Of
    <3> QED BY <2>4, <3>1, <3>2 DEF Preserving, Safe
  <2>10. CASE Publishes(p)
    <3>1. Aggregated(Of(d)) \subseteq w[p].agg
      BY <1>1, <2>2, <2>3, <2>10 DEF Publishes, Preserving
    <3>2. summary'[d].counts = w[p].agg
      BY <2>2, <2>6, <2>10 DEF Publishes
    <3>3. Of(w[p].sum)' = Of(d)
      BY <2>4 DEF Of
    <3> QED BY <2>4, <3>1, <3>2, <3>3 DEF Preserving, Safe, Counted
  <2> QED BY <2>7, <2>8, <2>9, <2>10
<1> QED BY <1>2, <1>3, <1>4

LEMMA StepsPreserving ==
    ASSUME RoomyInv, Roomy, Preserved, NEW p \in Proc, Steps(p), NEW q \in Proc
    PROVE  Preserving(q)'
<1>1. CASE Stops(p)
  BY <1>1, PreservingRest DEF Stops, Alters, Untouched, SameSum, SameWrite
<1>2. CASE Starts(p)
  BY <1>2, PreservingRest DEF Starts, Alters, Untouched, SameSum, SameWrite
<1>3. CASE Appends(p)
  BY <1>3, PreservingRest DEF Appends, Alters, Untouched, SameSum, SameWrite
<1>4. ASSUME NEW r \in Record, StartRecord(p, r)  PROVE Preserving(q)'
  BY <1>4, StartRecordEffect, PreservingRest DEF RoomyInv, Orderly, Alters, Untouched, SameSum, SameWrite
<1>5. ASSUME NEW r \in w[p].pending, Begins(p, r)  PROVE Preserving(q)'
  BY <1>5, PreservingRest DEF Begins, Alters, Untouched, SameSum, SameWrite
<1>6. CASE RollsOff(p) \/ Opens(p) \/ Finishes(p) \/ Lists(p) \/ FindsOld(p)
  BY <1>6, PreservingRest DEF RollsOff, Opens, Finishes, Lists, FindsOld, Alters, Untouched, SameSum,
                              SameWrite
<1>7. CASE KeepsSummary(p) \/ SkipsSummary(p) \/ NeedsNoSummary(p) \/ Publishes(p)
  <2>1. CASE q = p
    BY <1>7, <2>1, PassesPreserving
  <2>2. CASE q # p
    <3>1. Passes(p)
      BY <1>7 DEF KeepsSummary, SkipsSummary, NeedsNoSummary, Publishes
    <3> QED BY <2>2, <3>1, PreservingRest DEF Passes, Alters, Untouched, SameSum, SameWrite
  <2> QED BY <2>1, <2>2
<1>8. CASE Sizes(p)
  BY <1>8, SizesPreserving, PreservingRest DEF Sizes, Alters, Untouched, SameSum, SameWrite
<1>9. CASE Computes(p)
  BY <1>9, ComputesPreserving, PreservingRest DEF Computes, Alters, Untouched, SameSum, SameWrite
<1>10. CASE Removes(p)
  BY <1>10, PreservingRest DEF Removes, SameSum, SameWrite
<1>11. ASSUME NEW e \in w[p].list, TurnsTo(p, e) \/ Expires(p, e)  PROVE Preserving(q)'
  BY <1>11, PreservingRest DEF TurnsTo, Expires, Alters, Untouched, SameSum, SameWrite
<1> QED BY <1>1, <1>2, <1>3, <1>4, <1>5, <1>6, <1>7, <1>8, <1>9, <1>10, <1>11 DEF Steps, Rolls

\* A file disappears only at Remove.
LEMMA RawSteps ==
    ASSUME Orderly, NEW p \in Proc, Steps(p), NEW d \in Day, ~raw'[d].on
    PROVE  ~raw[d].on \/ (Removes(p) /\ w[p].sum = d)
<1>1. raw \in [Day -> [on : BOOLEAN, lines : SUBSET Record]]
  BY DEF Orderly, TypeOK
<1>2. CASE Stops(p) \/ Starts(p) \/ \E r \in w[p].pending : Begins(p, r)
  BY <1>2 DEF Stops, Starts, Begins, files
<1>3. CASE Appends(p)
  BY <1>1, <1>3 DEF Appends
<1>4. CASE \E r \in Record : StartRecord(p, r)
  BY <1>4 DEF StartRecord, files
<1>5. CASE Opens(p)
  BY <1>1, <1>5 DEF Opens
<1>6. CASE Removes(p)
  BY <1>1, <1>6 DEF Removes
<1>7. CASE RollsOff(p) \/ Sizes(p) \/ FindsOld(p) \/ Computes(p) \/ Lists(p) \/ Finishes(p)
           \/ KeepsSummary(p) \/ SkipsSummary(p) \/ NeedsNoSummary(p) \/ Publishes(p)
           \/ \E e \in w[p].list : TurnsTo(p, e) \/ Expires(p, e)
  BY <1>7 DEF RollsOff, Sizes, FindsOld, Computes, Lists, Finishes, KeepsSummary, SkipsSummary,
              NeedsNoSummary, Publishes, Passes, TurnsTo, Expires, files
<1> QED BY <1>2, <1>3, <1>4, <1>5, <1>6, <1>7 DEF Steps, Rolls

LEMMA NextPreserved ==
    ASSUME RoomyInv, Roomy, Preserved, [Next]_vars
    PROVE  Preserved'
<1>1. Orderly /\ ListsExpired /\ Kept /\ RoomyInv'
  BY NextRoomy DEF RoomyInv
<1>2. CASE UNCHANGED vars \/ Tick
  <2>1. UNCHANGED <<raw, summary, ts, w, acked, skipped>> /\ \A d : Of(d)' = Of(d)
    BY <1>2 DEF vars, Tick, files, Of
  <2>2. today \in Nat /\ today' \in Nat /\ today <= today' /\ SumRetention \in Nat
    BY <1>1, TodayRises, RetentionAssumption
  <2>3. \A d \in Day : Safe(d) => Safe(d)'
    <3>1. ASSUME NEW d \in Day, d <= today - SumRetention  PROVE d <= today' - SumRetention
      <4>1. d \in Nat
        BY DEF Day
      <4> QED BY <2>2, <3>1, <4>1, CutoffRises
    <3> QED BY <2>1, <3>1 DEF Safe, Counted
  <2>4. ASSUME NEW p \in Proc  PROVE Preserving(p)'
    <3>1. Preserving(p)
      BY DEF Preserved
    <3>2. Of(w[p].sum)' = Of(w[p].sum)
      BY <2>1 DEF Of
    <3>3. ASSUME w[p].pc = "remove"  PROVE Safe(w[p].sum)'
      <4>1. PICK d \in Day : w[p].sum = d
        BY <1>1, <3>3 DEF Orderly, Placed
      <4>2. Safe(d)'
        BY <2>3, <3>1, <3>3, <4>1 DEF Preserving
      <4> QED BY <2>1, <4>1, <4>2 DEF Safe, Counted, Of
    <3> QED BY <2>1, <3>1, <3>2, <3>3 DEF Preserving, Settled
  <2> QED BY <2>1, <2>3, <2>4 DEF Preserved
<1>3. ASSUME NEW p \in Proc, Steps(p)  PROVE Preserved'
  <2>1. \A q \in Proc : Preserving(q)'
    BY <1>3, StepsPreserving
  <2>2. ASSUME NEW d \in Day, ~raw'[d].on  PROVE Safe(d)'
    <3>1. d \in Nat /\ today \in Nat /\ RawRetention \in Nat /\ today' = today
      BY <1>1, <1>3, SkippedGrows, RetentionAssumption DEF Orderly, TypeOK, Day
    <3>2. CASE d > today - RawRetention
      <4>1. Of(d)' = {}
        BY <1>1, <2>2, <3>1, <3>2 DEF RoomyInv, Kept
      <4> QED BY <4>1 DEF Safe
    <3>3. CASE d <= today - RawRetention
      <4>1. Safe(d)
        BY <1>1, <1>3, <2>2, RawSteps DEF Preserved, Preserving, Removes
      <4> QED BY <1>3, <3>3, <4>1, SafeStays
    <3> QED BY <3>1, <3>2, <3>3
  <2> QED BY <2>1, <2>2 DEF Preserved
<1> QED BY <1>1, <1>2, <1>3, NextSteps

\* No record is lost to retention, for any number of processes and days,
\* whatever rolls over, fails or dies in between.
THEOREM NoRecordLost ==
    ASSUME Roomy  PROVE Spec => []RecordsSurvive
<1> DEFINE IInv == RoomyInv /\ Preserved
<1>1. Init => IInv
  <2> SUFFICES ASSUME Init  PROVE Preserved
    BY InitRoomy
  <2>1. \A p \in Proc : w[p].pc = "idle"
    BY DEF Init, NoLogger
  <2>2. \A d \in Day : Of(d) = {}
    BY DEF Init, Of
  <2> QED BY <2>1, <2>2 DEF Preserved, Preserving, Safe
<1>2. IInv /\ [Next]_vars => IInv'
  BY NextRoomy, NextPreserved
<1>3. ASSUME IInv  PROVE RecordsSurvive
  <2> SUFFICES ASSUME NEW r \in acked \cap (Call \cup AuthFailure)
               PROVE  \/ Stored(r) \/ Excused(r)
                      \/ r \in AuthFailure /\ \A c \in acked \cap Call : ts[c] # ts[r]
    BY DEF RecordsSurvive
  <2>1. PICK d \in Day : ts[r] = d
    BY <1>3 DEF RoomyInv, Orderly, Recorded
  <2>2. r \in Of(d) /\ r \notin KeyEvent
    BY <2>1, KindsAssumption DEF Of
  <2>3. CASE raw[d].on
    BY <1>3, <2>1, <2>2, <2>3 DEF RoomyInv, Kept, Stored
  <2>4. CASE Counted(d)
    BY <2>1, <2>2, <2>4 DEF Counted, Stored, Excused, Aggregated
  <2>5. CASE Of(d) \cap Call = {}
    <3>1. r \in AuthFailure
      BY <2>2, <2>5
    <3>2. \A c \in acked \cap Call : ts[c] # ts[r]
      BY <2>1, <2>5 DEF Of
    <3> QED BY <3>1, <3>2
  <2> QED BY <1>3, <2>3, <2>4, <2>5 DEF Preserved, Safe
<1> QED BY <1>1, <1>2, <1>3, PTL DEF Spec
=============================================================================

------------------------------- MODULE Drafts -------------------------------
(***************************************************************************)
(* `dgw-collect scan` (cmd/dgw-collect/main.go, internal/collector/        *)
(* collect.go, draft.go): the services of the manifest one after the       *)
(* other, each one's structure merged into the draft people have been      *)
(* writing in, then the drafts of services no longer listed removed, then  *)
(* everything compiled.  People work on the drafts between scans and       *)
(* during them; a scan may be killed at any point.                         *)
(*                                                                         *)
(* A structure maps the elements of a service (tables, columns, values,    *)
(* edges) to their types; what migrations make of it is module Migrations. *)
(* An element includes the database it is in, one of a renamed database is *)
(* another.  A draft adds to every element what people say of it: words (a *)
(* description, a label, the join condition of an edge) and, for a column, *)
(* whether it is a time axis.                                              *)
(***************************************************************************)
EXTENDS Integers, SequencesExt

CONSTANTS
    Service, Element,
    Edge,           \* the elements that are edges (references)
    Model,          \* service -> the elements its GORM models use
    Structure,      \* the structures a service may have
    Uncompilable,   \* the elements the compiler rejects (a value listed twice)
    Words,          \* what people may write
    NoWords, Broken, NoType,
    Stranger,       \* a name no service has
    MaxEdits, MaxScans, MaxFaults      \* bounds

ASSUME DraftsAssumption ==
    /\ IsFiniteSet(Service)
    /\ Edge \subseteq Element
    /\ NoWords \notin Words
    /\ Stranger \notin Service
    /\ Broken \notin Structure
    /\ \A f \in Structure : /\ f = [e \in DOMAIN f |-> f[e]]
                           /\ DOMAIN f \subseteq Element /\ NoType \notin Range(f)

VARIABLES
    repo,       \* service -> its structure, or Broken: no readable migrations
    manifest,   \* the services listed -> whether with a database
    disk,       \* service -> services/<service>.yaml
    scan,       \* the scan under way
    exit,       \* how the last one ended: "0", "1", "2" or "killed"
    words,      \* what people last wrote of an element a scan has not dropped since
    lost,       \* the elements whose words a write that was cut off has taken
    confirmed,  \* the type a column had when people last called it a time axis
    edits, scans, faults

people == <<words, lost, confirmed>>
counters == <<edits, scans, faults>>
vars == <<repo, manifest, disk, scan, exit, words, lost, confirmed, edits, scans, faults>>

Put(f, x, v) == [y \in DOMAIN f \cup {x} |-> IF y = x THEN v ELSE f[y]]

\* A file says which service it is of, has fields the collector does not know
\* or not, and entries.
NoFile == [kind |-> "none", service |-> Stranger, foreign |-> FALSE, entries |-> <<>>]
Torn   == [kind |-> "torn", service |-> Stranger, foreign |-> FALSE, entries |-> <<>>]
Draft(s, entries) ==
    [kind |-> "draft", service |-> s, foreign |-> FALSE, entries |-> entries]
Files == {s \in Service : disk[s].kind # "none"}

Idle == [stage |-> "idle", todo |-> <<>>, read |-> <<>>, listed |-> <<>>, full |-> FALSE,
         gorm |-> FALSE, errors |-> FALSE, data |-> <<>>]

-----------------------------------------------------------------------------
(* Rendering and merging.                                                  *)

RenderDraft(structure) ==
    [e \in DOMAIN structure |->
        [type |-> structure[e], words |-> NoWords, time |-> FALSE]]

\* Seeded fault: a time axis stays one when the type of its column changes.
MergeSemantics_StaleTime(new, old) ==
    [e \in DOMAIN new |->
        IF e \in DOMAIN old \ Edge
        THEN [new[e] EXCEPT !.words = old[e].words, !.time = old[e].time]
        ELSE new[e]]

\* Seeded fault: what is said of a column goes with its time axis when the
\* type changes.
MergeSemantics_Retype(new, old) ==
    [e \in DOMAIN new |->
        IF e \in DOMAIN old \ Edge /\ old[e].type = new[e].type THEN old[e] ELSE new[e]]

\* People's words go with every element that is still there; a time axis
\* only with an unchanged type; of an edge nothing is kept.
MergeSemantics(new, old) ==
    [e \in DOMAIN new |->
        IF e \in DOMAIN old \ Edge
        THEN [new[e] EXCEPT !.words = old[e].words,
                            !.time = old[e].time /\ old[e].type = new[e].type]
        ELSE new[e]]

\* Seeded fault: fields the collector has no place for are ignored.
Mergeable_Lenient(s) ==
    disk[s].kind = "none" \/ (disk[s].kind = "draft" /\ disk[s].service = s)

\* parseDraftStrict, and the name of the service: an empty or cut file, one with
\* unknown fields and one that says it is another service's are refused.
Mergeable(s) ==
    \/ disk[s].kind = "none"
    \/ disk[s].kind = "draft" /\ ~disk[s].foreign /\ disk[s].service = s

\* What a service is taken to consist of: a service listed without a database
\* has no elements, and its migrations are not looked at.
Readable(s) == scan.listed[s] => repo[s] # Broken
StructureFor(s) == IF scan.listed[s] THEN repo[s] ELSE <<>>

\* CrossCheck: an error for every model element the migrations do not have.
CrossCheckFails(s) == scan.listed[s] /\ ~(Model[s] \subseteq DOMAIN repo[s])

\* Seeded fault: files that cannot be read are skipped.
CheckCompile_Skip ==
    /\ \A s \in Files : disk[s].kind = "draft" => DOMAIN disk[s].entries \cap Uncompilable = {}
    /\ \A s, t \in Files : disk[s].service = disk[t].service => s = t

\* CheckCompile: semantic.Load and Compile over every draft in the directory; no
\* two may be of one service, whatever their files are called.
CheckCompile ==
    /\ \A s \in Files :
        /\ disk[s].kind = "draft" /\ ~disk[s].foreign
        /\ DOMAIN disk[s].entries \cap Uncompilable = {}
    /\ \A s, t \in Files : disk[s].service = disk[t].service => s = t

-----------------------------------------------------------------------------

Init ==
    /\ repo \in [Service -> Structure]
    /\ manifest = [s \in Service |-> TRUE]
    /\ disk = [s \in Service |-> NoFile]
    /\ scan = Idle
    /\ exit = "none"
    /\ words = [s \in Service |-> [e \in Element |-> NoWords]]
    /\ confirmed = [s \in Service |-> [e \in Element |-> NoType]]
    /\ lost = [s \in Service |-> {}]
    /\ edits = 0 /\ scans = 0 /\ faults = 0

-----------------------------------------------------------------------------
(* People.                                                                 *)

Act == edits < MaxEdits /\ edits' = edits + 1 /\ UNCHANGED <<scan, exit, scans, faults>>

\* The service's repository changes: other migrations, or none to be read.
Develop(s) ==
    /\ Act
    /\ \E f \in (Structure \cup {Broken}) \ {repo[s]} : repo' = [repo EXCEPT ![s] = f]
    /\ UNCHANGED <<manifest, disk, people>>

\* A service is taken off the manifest, or put on it with a database or without.
List(s) ==
    /\ Act
    /\ \/ manifest' = Restrict(manifest, DOMAIN manifest \ {s})
       \/ \E db \in BOOLEAN : manifest' = Put(manifest, s, db)
    /\ manifest' # manifest
    /\ UNCHANGED <<repo, disk, people>>

\* Edits are of whole drafts, and none falls between the moment a scan reads
\* a draft and the moment it has written it: that edit would be lost.
Editable(s) ==
    /\ disk[s].kind = "draft"
    /\ ~(scan.stage \in {"truncate", "fill"} /\ Head(scan.todo) = s)

Describe(s, e, w) ==
    /\ Act
    /\ Editable(s) /\ e \in DOMAIN disk[s].entries
    /\ disk[s].entries[e].words # w
    /\ disk' = [disk EXCEPT ![s].entries[e].words = w]
    /\ words' = [words EXCEPT ![s][e] = w]
    /\ lost' = [lost EXCEPT ![s] = @ \ {e}]
    /\ UNCHANGED <<repo, manifest, confirmed>>

MarkTime(s, e) ==
    /\ Act
    /\ Editable(s) /\ e \in DOMAIN disk[s].entries \ Edge
    /\ ~disk[s].entries[e].time
    /\ disk' = [disk EXCEPT ![s].entries[e].time = TRUE]
    /\ confirmed' = [confirmed EXCEPT ![s][e] = disk[s].entries[e].type]
    /\ UNCHANGED <<repo, manifest, words, lost>>

\* A field is added that the collector's draft type does not have.
Annotate(s) ==
    /\ Act
    /\ Editable(s) /\ ~disk[s].foreign
    /\ disk' = [disk EXCEPT ![s].foreign = TRUE]
    /\ UNCHANGED <<repo, manifest, people>>

\* The draft is made another service's, in all of its lines.
Rename(s, name) ==
    /\ Act
    /\ Editable(s) /\ disk[s].service # name
    /\ disk' = [disk EXCEPT ![s].service = name]
    /\ UNCHANGED <<repo, manifest, people>>

\* A draft goes with what people said in it; what a cut write took from it they
\* still have said.
Forget(s) ==
    /\ disk' = [disk EXCEPT ![s] = NoFile]
    /\ words' = [words EXCEPT ![s] =
            [e \in Element |-> IF e \in lost[s] THEN @[e] ELSE NoWords]]
    /\ UNCHANGED <<lost, confirmed>>

\* A draft no scan accepts is thrown away.
Discard(s) ==
    /\ Act
    /\ scan.stage = "idle"
    /\ ~Mergeable(s)
    /\ Forget(s)
    /\ UNCHANGED <<repo, manifest>>

-----------------------------------------------------------------------------
(* The scan.                                                               *)

Silent == UNCHANGED <<repo, manifest, edits>>
Steady == Silent /\ UNCHANGED people

Begin(targets, full, gorm) ==
    /\ scan.stage = "idle" /\ scans < MaxScans
    /\ scans' = scans + 1
    /\ IF targets = {}
       THEN exit' = "1" /\ UNCHANGED scan
       ELSE /\ exit' = "none"
            /\ \E todo \in SetToSeqs(targets) :
                scan' = [Idle EXCEPT !.stage = "collect", !.todo = todo, !.listed = manifest,
                                     !.full = full, !.gorm = gorm]
    /\ UNCHANGED <<disk, faults>>
    /\ Steady

ScanAll(gorm) == Begin(DOMAIN manifest, TRUE, gorm)
ScanOne(s, gorm) == Begin({s} \cap DOMAIN manifest, FALSE, gorm)

\* The scan ends; what it has written stays.
Leave(code) ==
    /\ scan' = Idle
    /\ exit' = code
    /\ UNCHANGED <<disk, scans>>
    /\ Steady

\* collectService up to the write: the structure is read and cross-checked,
\* the draft on disk read and merged.  A migration file that does not parse
\* is a finding of error level and what the others say is the structure.
Collect ==
    LET s == Head(scan.todo)
        new == RenderDraft(StructureFor(s))
    IN  /\ scan.stage = "collect" /\ scan.todo # <<>>
        /\ Readable(s) /\ Mergeable(s)
        /\ \E parsed \in BOOLEAN :
            /\ scan.listed[s] \/ parsed
            /\ scan' = [scan EXCEPT
                !.stage = "truncate",
                !.read = Put(@, s, StructureFor(s)),
                !.errors = @ \/ ~parsed \/ (scan.gorm /\ CrossCheckFails(s)),
                !.data = IF disk[s].kind = "none" THEN new
                         ELSE MergeSemantics(new, disk[s].entries)]
        /\ UNCHANGED <<disk, exit, scans, faults>>
        /\ Steady

\* A service that cannot be collected ends the scan, before those after it.
Refuse ==
    LET s == Head(scan.todo)
    IN  /\ scan.stage = "collect" /\ scan.todo # <<>>
        /\ ~Readable(s) \/ ~Mergeable(s)
        /\ Leave("1")
        /\ UNCHANGED faults

\* What people said of elements the new structure does not have is given up
\* with the old draft.
GiveUp ==
    LET s == Head(scan.todo)
        stays == DOMAIN scan.data \ Edge
    IN  /\ words' = [words EXCEPT ![s] = [e \in Element |-> IF e \in stays THEN @[e] ELSE NoWords]]
        /\ lost' = [lost EXCEPT ![s] = @ \cap stays]
        /\ UNCHANGED confirmed

\* Seeded fault: the old content is written over in place.
Truncate_InPlace ==
    /\ scan.stage = "truncate"
    /\ disk' = [disk EXCEPT ![Head(scan.todo)].kind = "torn"]
    /\ scan' = [scan EXCEPT !.stage = "fill"]
    /\ GiveUp
    /\ UNCHANGED <<exit, scans, faults>>
    /\ Silent

\* os.WriteFile: the file is emptied, then written.
Truncate ==
    /\ scan.stage = "truncate"
    /\ disk' = [disk EXCEPT ![Head(scan.todo)] = Torn]
    /\ scan' = [scan EXCEPT !.stage = "fill"]
    /\ GiveUp
    /\ UNCHANGED <<exit, scans, faults>>
    /\ Silent

Fill ==
    LET s == Head(scan.todo)
    IN  /\ scan.stage = "fill"
        /\ disk' = [disk EXCEPT ![s] = Draft(s, scan.data)]
        /\ scan' = [scan EXCEPT !.stage = "collect", !.todo = Tail(@), !.data = <<>>]
        /\ UNCHANGED <<exit, scans, faults>>
        /\ Steady

Fault == faults < MaxFaults /\ faults' = faults + 1

\* What a file says of an element.
Said(file, e) == IF e \in DOMAIN file.entries THEN file.entries[e].words ELSE NoWords

\* The write stops half-way: what is there is cut, or happens to be a draft of
\* the first elements.
CutOff(code) ==
    LET s == Head(scan.todo)
    IN  /\ scan.stage = "fill"
        /\ Fault
        /\ scan' = Idle
        /\ exit' = code
        /\ \/ UNCHANGED disk
           \/ \E kept \in SUBSET DOMAIN scan.data :
                disk' = [disk EXCEPT ![s] = Draft(s, Restrict(scan.data, kept))]
        /\ lost' = [lost EXCEPT ![s] = {e \in Element \ Edge : Said(disk'[s], e) # words[s][e]}]
        /\ UNCHANGED <<scans, words, confirmed>>
        /\ Silent

FillFails == CutOff("1")

\* Any other file operation fails (log.Fatalf).
Fails ==
    /\ scan.stage \in {"collect", "truncate"}
    /\ Fault
    /\ Leave("1")

\* The process is killed.
Crash ==
    \/ /\ scan.stage \in {"collect", "truncate"}
       /\ Fault
       /\ Leave("killed")
    \/ CutOff("killed")

Unlisted == Files \ DOMAIN scan.listed

\* reconcileDrafts: after a full scan, one file after the other.
Reconcile ==
    /\ scan.stage = "collect" /\ scan.todo = <<>>
    /\ scan.full
    /\ \E s \in Unlisted : Forget(s)
    /\ UNCHANGED <<scan, exit, scans, faults>>
    /\ Silent

\* The third gate, and the exit code of the three together.
Finish ==
    /\ scan.stage = "collect" /\ scan.todo = <<>>
    /\ ~scan.full \/ Unlisted = {}
    /\ Leave(IF scan.errors \/ ~CheckCompile THEN "2" ELSE "0")
    /\ UNCHANGED faults

Next ==
    \/ \E s \in Service :
        \/ Develop(s) \/ List(s) \/ Annotate(s) \/ Discard(s)
        \/ \E name \in Service \cup {Stranger} : Rename(s, name)
    \/ \E s \in Service, e \in Element : MarkTime(s, e) \/ \E w \in Words : Describe(s, e, w)
    \/ \E gorm \in BOOLEAN : ScanAll(gorm) \/ \E s \in Service : ScanOne(s, gorm)
    \/ Collect \/ Refuse \/ Truncate \/ Fill \/ FillFails \/ Fails \/ Crash
    \/ Reconcile \/ Finish

Spec == Init /\ [][Next]_vars

-----------------------------------------------------------------------------
(* Properties.                                                             *)

TypeOK ==
    /\ repo \in [Service -> Structure \cup {Broken}]
    /\ DOMAIN manifest \subseteq Service /\ \A s \in DOMAIN manifest : manifest[s] \in BOOLEAN
    /\ \A s \in Service :
        /\ disk[s].kind \in {"none", "torn", "draft"} /\ disk[s].foreign \in BOOLEAN
        /\ disk[s].service \in Service \cup {Stranger}
        /\ disk[s].kind # "draft" => disk[s] \in {NoFile, Torn}
        /\ DOMAIN disk[s].entries \subseteq Element
        /\ \A e \in DOMAIN disk[s].entries :
            disk[s].entries[e].words \in Words \cup {NoWords}
    /\ scan.stage \in {"idle", "collect", "truncate", "fill"}
    /\ scan.stage \in {"truncate", "fill"} => scan.todo # <<>>
    /\ exit \in {"none", "0", "1", "2", "killed"}
    /\ words \in [Service -> [Element -> Words \cup {NoWords}]]
    /\ lost \in [Service -> SUBSET Element]

Filling(s) == scan.stage = "fill" /\ Head(scan.todo) = s

\* However often a service is scanned and whatever became of its structure, what
\* people last said of an element that stayed is in the draft: also after scans
\* that failed or were killed, after drafts were refused, removed or thrown away
\* and collected anew (draft.go: MergeSemantics, WriteDraft).  Excepted are edges,
\* a draft while it is written, and words a write that was cut off has taken,
\* until people write them again: os.WriteFile keeps no copy of what it empties.
WordsKept ==
    \A s \in Service : ~Filling(s) =>
        \A e \in Element \ (Edge \cup lost[s]) : Said(disk[s], e) = words[s][e]

\* A time axis is one people confirmed for the type the column has now: none
\* survives a change of type, not even over several scans and back (draft.go:
\* is_time is dropped so that a stale one does not reach the dry run).
TimeIsConfirmed ==
    \A s \in Service : \A e \in DOMAIN disk[s].entries :
        disk[s].entries[e].time => confirmed[s][e] = disk[s].entries[e].type

\* What a scan must not touch it leaves alone.  A file that is cut, that has
\* fields the collector does not know or that says it is another service's is
\* never written over: it stays, or goes with its service when a full scan finds
\* it unlisted (draft.go: parseDraftStrict, MergeSemantics; collect.go:
\* reconcileDrafts).  A scan of one service leaves the drafts of the others as
\* they are, those of services no longer listed too (Collect).
UntouchedStays ==
    [][/\ \A s \in Service :
            /\ \/ disk[s].kind = "torn" /\ ~Filling(s)
               \/ disk[s].kind = "draft" /\ (disk[s].foreign \/ disk[s].service # s)
            /\ disk'[s] # disk[s]
            => \/ edits' # edits
               \/ scan.full /\ s \notin DOMAIN scan.listed /\ disk'[s] = NoFile
       /\ scan.stage # "idle" /\ ~scan.full =>
            \A s \in Files \ DOMAIN scan.read :
                /\ disk'[s].kind = disk[s].kind
                /\ DOMAIN disk'[s].entries = DOMAIN disk[s].entries]_vars

\* Exit code 0 says that every draft of this scan holds the structure read in
\* it, and nothing if its service is listed without a database, that every model
\* element is in it, that the files in the directory compile together, and after
\* a full scan that there is a draft for exactly the services listed
\* (cmd/dgw-collect: cmdScan).
CleanExitMeansCurrent ==
    [][exit' = "0" /\ exit # "0" =>
        /\ \A s \in DOMAIN scan.read :
            /\ [e \in DOMAIN disk[s].entries |-> disk[s].entries[e].type] = scan.read[s]
            /\ ~scan.listed[s] => scan.read[s] = <<>>
            /\ scan.listed[s] /\ scan.gorm => Model[s] \subseteq DOMAIN scan.read[s]
        /\ \A s \in Files :
            /\ disk[s].kind = "draft" /\ ~disk[s].foreign
            /\ DOMAIN disk[s].entries \cap Uncompilable = {}
            /\ \A t \in Files \ {s} : disk[t].service # disk[s].service
        /\ scan.full => Files = DOMAIN scan.listed]_vars
=============================================================================

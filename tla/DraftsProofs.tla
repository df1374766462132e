---------------------------- MODULE DraftsProofs ----------------------------
(***************************************************************************)
(* Proofs about Drafts for all services, structures and words, and for any *)
(* number of edits, scans and faults: what people write into a draft stays *)
(* with its element unless a write that was cut off has taken it, a time   *)
(* axis never outlives the type it was confirmed for, a scan touches       *)
(* nothing it must not, and a clean exit means that the drafts are         *)
(* current.                                                                *)
(***************************************************************************)
EXTENDS Drafts, FiniteSetTheorems, TLAPS

Types == UNION {Range(f) : f \in Structure}
Entry == [type : Types, words : Words \cup {NoWords}, time : BOOLEAN]
Entries == UNION {[D -> Entry] : D \in SUBSET Element}
File == [kind : {"none", "torn", "draft"}, service : Service \cup {Stranger},
         foreign : BOOLEAN, entries : Entries]

Writing == scan.stage \in {"truncate", "fill"}

\* The type invariant with the shapes of the records EXCEPT is applied to.
Shapes ==
    /\ repo \in [Service -> Structure \cup {Broken}]
    /\ manifest \in [DOMAIN manifest -> BOOLEAN] /\ DOMAIN manifest \subseteq Service
    /\ disk \in [Service -> File]
    /\ \A s \in Service : disk[s].kind # "draft" => disk[s] \in {NoFile, Torn}
    /\ scan = [stage |-> scan.stage, todo |-> scan.todo, read |-> scan.read,
               listed |-> scan.listed, full |-> scan.full, gorm |-> scan.gorm,
               errors |-> scan.errors, data |-> scan.data]
    /\ scan.stage \in {"idle", "collect", "truncate", "fill"}
    /\ scan.todo \in Seq(Service)
    /\ Writing => scan.todo # <<>> /\ scan.data \in Entries
    /\ exit \in {"none", "0", "1", "2", "killed"}
    /\ words \in [Service -> [Element -> Words \cup {NoWords}]]
    /\ confirmed \in [Service -> [Element -> Types \cup {NoType}]]
    /\ lost \in [Service -> SUBSET Element]

\* What is about to be written agrees with what people said of the draft it
\* replaces: nobody edits that one in the meantime.  Once the old draft is gone
\* nothing is said of what is not about to be written.
Held ==
    Writing => LET s == Head(scan.todo) IN
        /\ \A e \in DOMAIN scan.data \ (Edge \cup lost[s]) : scan.data[e].words = words[s][e]
        /\ scan.stage = "fill" =>
              \A e \in Element \ (Edge \cup DOMAIN scan.data) : words[s][e] = NoWords
        /\ \A e \in DOMAIN scan.data :
              scan.data[e].time => confirmed[s][e] = scan.data[e].type

IInv == Shapes /\ WordsKept /\ Held /\ TimeIsConfirmed

-----------------------------------------------------------------------------
(* Rendering, merging, and the two files without entries.                  *)

LEMMA Constant == /\ NoFile \in File /\ Torn \in File
                  /\ NoFile.kind = "none" /\ Torn.kind = "torn"
                  /\ DOMAIN NoFile.entries = {} /\ DOMAIN Torn.entries = {}
<1>1. DOMAIN <<>> = {} /\ <<>> \in [{} -> Entry]
  OBVIOUS
<1>2. <<>> \in Entries
  BY <1>1 DEF Entries
<1>3. NoFile = [kind |-> "none", service |-> Stranger, foreign |-> FALSE, entries |-> <<>>]
  BY DEF NoFile
<1>4. Torn = [kind |-> "torn", service |-> Stranger, foreign |-> FALSE, entries |-> <<>>]
  BY DEF Torn
<1>5. NoFile \in File /\ Torn \in File
  BY <1>2, <1>3, <1>4 DEF File
<1>6. NoFile.entries = <<>> /\ Torn.entries = <<>>
  BY <1>3, <1>4
<1> QED BY <1>1, <1>3, <1>4, <1>5, <1>6

LEMMA EntriesAre ==
    ASSUME NEW f \in Entries
    PROVE  /\ DOMAIN f \subseteq Element
           /\ f \in [DOMAIN f -> Entry]
           /\ f = [e \in DOMAIN f |-> f[e]]
           /\ \A e \in DOMAIN f :
                /\ f[e] = [type |-> f[e].type, words |-> f[e].words, time |-> f[e].time]
                /\ f[e].type \in Types /\ f[e].words \in Words \cup {NoWords}
                /\ f[e].time \in BOOLEAN
BY DEF Entries, Entry

LEMMA AreEntries ==
    ASSUME NEW D \in SUBSET Element, NEW f, f = [e \in D |-> f[e]],
           \A e \in D : f[e] \in Entry
    PROVE  f \in Entries
BY DEF Entries

\* What a scan takes a service to consist of.
LEMMA StructureIs ==
    ASSUME NEW f \in Structure \cup {<<>>}
    PROVE  /\ DOMAIN f \subseteq Element
           /\ f = [e \in DOMAIN f |-> f[e]]
           /\ \A e \in DOMAIN f : f[e] \in Types
<1>1. DOMAIN <<>> = {} /\ <<>> = [e \in DOMAIN <<>> |-> <<>>[e]]
  OBVIOUS
<1>2. CASE f \in Structure
  <2>1. DOMAIN f \subseteq Element /\ f = [e \in DOMAIN f |-> f[e]]
    BY <1>2, DraftsAssumption DEF DraftsAssumption
  <2> QED BY <1>2, <2>1 DEF Types, Range
<1> QED BY <1>1, <1>2

LEMMA Rendered ==
    ASSUME NEW f \in Structure \cup {<<>>}
    PROVE  /\ RenderDraft(f) \in Entries
           /\ DOMAIN RenderDraft(f) = DOMAIN f
           /\ \A e \in DOMAIN f :
                RenderDraft(f)[e].words = NoWords /\ ~RenderDraft(f)[e].time
           /\ \A e \in DOMAIN f : RenderDraft(f)[e].type = f[e]
BY StructureIs DEF RenderDraft, Entries, Entry

LEMMA Merged ==
    ASSUME NEW new \in Entries, NEW old \in Entries
    PROVE  LET m == MergeSemantics(new, old) IN
           /\ m \in Entries
           /\ DOMAIN m = DOMAIN new
           /\ \A e \in DOMAIN new :
                IF e \in DOMAIN old \ Edge
                THEN m[e] = [type |-> new[e].type, words |-> old[e].words,
                             time |-> old[e].time /\ old[e].type = new[e].type]
                ELSE m[e] = new[e]
<1> DEFINE m == MergeSemantics(new, old)
<1>1. DOMAIN m = DOMAIN new /\ m = [e \in DOMAIN new |-> m[e]]
  BY DEF MergeSemantics
<1>2. ASSUME NEW e \in DOMAIN new
      PROVE  /\ m[e] \in Entry
             /\ IF e \in DOMAIN old \ Edge
                THEN m[e] = [type |-> new[e].type, words |-> old[e].words,
                             time |-> old[e].time /\ old[e].type = new[e].type]
                ELSE m[e] = new[e]
  <2>1. new[e] = [type |-> new[e].type, words |-> new[e].words, time |-> new[e].time]
        /\ new[e] \in Entry
    BY EntriesAre DEF Entry, Entries
  <2>2. CASE e \in DOMAIN old \ Edge
    <3>1. m[e] = [new[e] EXCEPT !.words = old[e].words,
                                !.time = old[e].time /\ old[e].type = new[e].type]
      BY <2>2 DEF MergeSemantics
    <3>2. m[e] = [type |-> new[e].type, words |-> old[e].words,
                  time |-> old[e].time /\ old[e].type = new[e].type]
      BY <2>1, <3>1
    <3>3. new[e].type \in Types /\ old[e].words \in Words \cup {NoWords}
      BY <2>2, EntriesAre
    <3> QED BY <2>2, <3>2, <3>3 DEF Entry
  <2>3. CASE e \notin DOMAIN old \ Edge
    BY <2>1, <2>3 DEF MergeSemantics
  <2> QED BY <2>2, <2>3
<1>3. DOMAIN new \in SUBSET Element
  BY EntriesAre
<1>4. m \in Entries
  BY <1>1, <1>2, <1>3, AreEntries
<1> QED BY <1>1, <1>2, <1>4

-----------------------------------------------------------------------------
(* The initial state, and what people do.                                  *)

LEMMA InitIInv == Init => IInv
<1> SUFFICES ASSUME Init PROVE IInv
  OBVIOUS
<1>1. /\ scan = [stage |-> "idle", todo |-> <<>>, read |-> <<>>, listed |-> <<>>, full |-> FALSE,
                 gorm |-> FALSE, errors |-> FALSE, data |-> <<>>]
      /\ <<>> \in Seq(Service)
  BY DEF Init, Idle
<1>2. \A s \in Service : disk[s] = NoFile /\ disk[s] \in File /\ disk[s].kind = "none"
                         /\ DOMAIN disk[s].entries = {}
  BY Constant DEF Init
<1>3. disk \in [Service -> File]
  BY <1>2 DEF Init
<1>4. Shapes
  BY <1>1, <1>2, <1>3 DEF Init, Shapes, Writing
<1>5. WordsKept
  BY <1>2 DEF Init, WordsKept, Said
<1>6. Held
  BY <1>1 DEF Held, Writing
<1>7. TimeIsConfirmed
  BY <1>2 DEF TimeIsConfirmed
<1> QED BY <1>4, <1>5, <1>6, <1>7 DEF IInv

\* Whatever leaves the drafts and what people said alone.
LEMMA QuietStep ==
    ASSUME IInv, UNCHANGED <<disk, people>>, Shapes', Writing' => Held',
           \A s \in Service : Filling(s) => Filling(s)'
    PROVE  IInv'
<1>1. WordsKept'
  BY DEF IInv, WordsKept, Said, people
<1>2. TimeIsConfirmed'
  BY DEF IInv, TimeIsConfirmed, people
<1>3. Held'
  BY DEF Held
<1> QED BY <1>1, <1>2, <1>3 DEF IInv

LEMMA DevelopStep == ASSUME IInv, NEW s \in Service, Develop(s) \/ List(s) PROVE IInv'
<1>1. UNCHANGED <<disk, people, scan, exit>>
  BY DEF Develop, List, Act
<1>2. Shapes'
  <2>1. repo' \in [Service -> Structure \cup {Broken}]
    BY DEF Develop, List, IInv, Shapes
  <2>2. manifest' \in [DOMAIN manifest' -> BOOLEAN] /\ DOMAIN manifest' \subseteq Service
    BY DEF Develop, List, Put, Restrict, IInv, Shapes
  <2> QED BY <1>1, <2>1, <2>2 DEF IInv, Shapes, Writing, people
<1>3. Held'
  BY <1>1 DEF IInv, Held, Writing, people
<1> QED BY <1>1, <1>2, <1>3, QuietStep DEF Filling

\* The draft that is edited is not the one being written.
LEMMA EditedIsNotWritten ==
    ASSUME IInv, NEW s \in Service, Editable(s)
    PROVE  Writing => s # Head(scan.todo)
BY DEF Editable, Writing

\* An edit of a draft.
LEMMA EditStep ==
    ASSUME IInv, NEW s \in Service, Editable(s),
           NEW new \in Entries, DOMAIN new = DOMAIN disk[s].entries,
           NEW file \in File, file.kind = "draft", file.entries = new,
           disk' = [disk EXCEPT ![s] = file],
           words' \in [Service -> [Element -> Words \cup {NoWords}]],
           confirmed' \in [Service -> [Element -> Types \cup {NoType}]],
           lost' \in [Service -> SUBSET Element],
           \A t \in Service \ {s} :
              words'[t] = words[t] /\ lost'[t] = lost[t] /\ confirmed'[t] = confirmed[t],
           \A e \in Element :
              \/ e \in DOMAIN new /\ new[e].words = words'[s][e]
              \/ /\ words'[s][e] = words[s][e]
                 /\ e \in lost[s] => e \in lost'[s]
                 /\ e \in DOMAIN new => new[e].words = disk[s].entries[e].words,
           \A e \in DOMAIN new :
              (disk[s].entries[e].time => confirmed[s][e] = disk[s].entries[e].type)
                    => (new[e].time => confirmed'[s][e] = new[e].type),
           UNCHANGED <<repo, manifest, scan, exit>>
    PROVE  IInv'
<1>1. /\ disk[s].kind = "draft"
      /\ disk' \in [Service -> File]
      /\ disk'[s].kind = "draft" /\ disk'[s].entries = new
      /\ \A t \in Service \ {s} : disk'[t] = disk[t]
  BY DEF IInv, Shapes, Editable
<1>2. Shapes'
  <2>1. ASSUME NEW t \in Service, disk'[t].kind # "draft" PROVE disk'[t] \in {NoFile, Torn}
    <3>1. t # s
      BY <1>1, <2>1
    <3>2. disk'[t] = disk[t]
      BY <1>1, <3>1
    <3> QED BY <2>1, <3>2 DEF IInv, Shapes
  <2> QED BY <1>1, <2>1 DEF IInv, Shapes, Writing
<1>3. WordsKept'
  <2> SUFFICES ASSUME NEW t \in Service, ~Filling(t), NEW e \in Element \ (Edge \cup lost'[t])
               PROVE  Said(disk'[t], e) = words'[t][e]
    BY DEF WordsKept, Filling
  <2>1. CASE t = s
    <3>1. CASE e \in DOMAIN new /\ new[e].words = words'[s][e]
      BY <1>1, <2>1, <3>1 DEF Said
    <3>2. CASE /\ words'[s][e] = words[s][e] /\ e \notin lost[s]
               /\ e \in DOMAIN new => new[e].words = disk[s].entries[e].words
      <4>1. Said(disk[s], e) = words[s][e]
        BY <2>1, <3>2 DEF IInv, WordsKept
      <4> QED BY <1>1, <2>1, <3>2, <4>1 DEF Said
    <3> QED BY <2>1, <3>1, <3>2
  <2>2. CASE t # s
    <3>1. disk'[t] = disk[t] /\ words'[t] = words[t] /\ lost'[t] = lost[t]
      BY <1>1, <2>2
    <3> QED BY <3>1 DEF IInv, WordsKept
  <2> QED BY <2>1, <2>2
<1>4. Held'
  <2> SUFFICES ASSUME Writing PROVE Held'
    BY DEF Held, Writing
  <2>1. Head(scan.todo) \in Service /\ Head(scan.todo) # s
    BY EditedIsNotWritten DEF IInv, Shapes
  <2>2. /\ words'[Head(scan.todo)] = words[Head(scan.todo)]
        /\ lost'[Head(scan.todo)] = lost[Head(scan.todo)]
        /\ confirmed'[Head(scan.todo)] = confirmed[Head(scan.todo)]
    BY <2>1
  <2> QED BY <2>2 DEF IInv, Held, Writing
<1>5. TimeIsConfirmed'
  <2> SUFFICES ASSUME NEW t \in Service, NEW e \in DOMAIN disk'[t].entries
               PROVE  disk'[t].entries[e].time => confirmed'[t][e] = disk'[t].entries[e].type
    BY DEF TimeIsConfirmed
  <2>1. CASE t = s
    BY <1>1, <2>1 DEF IInv, TimeIsConfirmed
  <2>2. CASE t # s
    <3>1. disk'[t] = disk[t] /\ confirmed'[t] = confirmed[t]
      BY <1>1, <2>2
    <3> QED BY <3>1 DEF IInv, TimeIsConfirmed
  <2> QED BY <2>1, <2>2
<1> QED BY <1>2, <1>3, <1>4, <1>5 DEF IInv

\* A field that is set to a truth value.
LEMMA Timed ==
    ASSUME NEW r \in Entry, NEW v
    PROVE  [r EXCEPT !.time = v] = [type |-> r.type, words |-> r.words, time |-> v]
BY DEF Entry

LEMMA Refilled ==
    ASSUME NEW f \in File, NEW v \in Entries
    PROVE  /\ [f EXCEPT !.entries = v] \in File
           /\ [f EXCEPT !.entries = v].kind = f.kind
           /\ [f EXCEPT !.entries = v].entries = v
BY DEF File

LEMMA Marked ==
    ASSUME NEW f \in File, NEW v \in BOOLEAN, NEW name \in Service \cup {Stranger}
    PROVE  /\ [f EXCEPT !.foreign = v] \in File /\ [f EXCEPT !.service = name] \in File
           /\ [f EXCEPT !.foreign = v].kind = f.kind
           /\ [f EXCEPT !.service = name].kind = f.kind
           /\ [f EXCEPT !.foreign = v].entries = f.entries
           /\ [f EXCEPT !.service = name].entries = f.entries
BY DEF File

\* What a draft is made of.
LEMMA DraftIs ==
    ASSUME IInv, NEW s \in Service
    PROVE  /\ disk[s] \in File
           /\ disk[s].entries \in Entries /\ disk[s].foreign \in BOOLEAN
BY DEF IInv, Shapes, File

LEMMA DescribeStep ==
    ASSUME IInv, NEW s \in Service, NEW e \in Element, NEW w \in Words, Describe(s, e, w)
    PROVE  IInv'
<1> DEFINE old == disk[s].entries
           new == [old EXCEPT ![e] = [old[e] EXCEPT !.words = w]]
<1>1. /\ Editable(s) /\ disk[s].kind = "draft" /\ e \in DOMAIN old
      /\ disk' = [disk EXCEPT ![s] = [disk[s] EXCEPT !.entries = new]]
      /\ words' = [words EXCEPT ![s] = [words[s] EXCEPT ![e] = w]]
      /\ lost' = [lost EXCEPT ![s] = lost[s] \ {e}]
      /\ UNCHANGED <<repo, manifest, confirmed, scan, exit>>
  BY DEF Describe, Act, Editable
<1>2. old \in Entries
  BY DraftIs
<1>3. disk[s] \in File
  BY DraftIs
<1>4. [old[e] EXCEPT !.words = w] = [type |-> old[e].type, words |-> w, time |-> old[e].time]
      /\ [old[e] EXCEPT !.words = w] \in Entry
  BY <1>1, <1>2, EntriesAre DEF Entry
<1>5. /\ new \in [DOMAIN old -> Entry]
      /\ new[e] = [type |-> old[e].type, words |-> w, time |-> old[e].time]
      /\ \A d \in DOMAIN old \ {e} : new[d] = old[d]
  BY <1>1, <1>2, <1>4, EntriesAre
<1>6. new \in Entries /\ DOMAIN new = DOMAIN old
  BY <1>2, <1>5, EntriesAre DEF Entries
<1>7. /\ words' \in [Service -> [Element -> Words \cup {NoWords}]]
      /\ lost' \in [Service -> SUBSET Element]
      /\ confirmed' \in [Service -> [Element -> Types \cup {NoType}]]
  BY <1>1 DEF IInv, Shapes
<1>8. \A t \in Service \ {s} :
          words'[t] = words[t] /\ lost'[t] = lost[t] /\ confirmed'[t] = confirmed[t]
  BY <1>1 DEF IInv, Shapes
<1>9. /\ words'[s][e] = w /\ confirmed' = confirmed /\ lost'[s] = lost[s] \ {e}
      /\ \A d \in Element \ {e} : words'[s][d] = words[s][d]
  BY <1>1 DEF IInv, Shapes
<1>10. ASSUME NEW d \in Element
       PROVE  \/ d \in DOMAIN new /\ new[d].words = words'[s][d]
              \/ /\ words'[s][d] = words[s][d]
                 /\ d \in lost[s] => d \in lost'[s]
                 /\ d \in DOMAIN new => new[d].words = disk[s].entries[d].words
  BY <1>1, <1>5, <1>6, <1>9
<1>11. ASSUME NEW d \in DOMAIN new
       PROVE  (disk[s].entries[d].time => confirmed[s][d] = disk[s].entries[d].type)
                    => (new[d].time => confirmed'[s][d] = new[d].type)
  BY <1>5, <1>6, <1>9
<1> DEFINE file == [disk[s] EXCEPT !.entries = new]
<1> HIDE DEF new
<1>12. file \in File /\ file.kind = "draft" /\ file.entries = new
  BY <1>1, <1>3, <1>6, Refilled
<1>13. disk' = [disk EXCEPT ![s] = file]
  BY <1>1
<1> HIDE DEF file
<1>14. UNCHANGED <<repo, manifest, scan, exit>> /\ Editable(s)
  BY <1>1
<1> QED BY <1>6, <1>7, <1>8, <1>10, <1>11, <1>12, <1>13, <1>14, EditStep, ZenonT(30)

LEMMA MarkTimeStep ==
    ASSUME IInv, NEW s \in Service, NEW e \in Element, MarkTime(s, e)
    PROVE  IInv'
<1> DEFINE old == disk[s].entries
           new == [old EXCEPT ![e] = [old[e] EXCEPT !.time = TRUE]]
<1>1. /\ Editable(s) /\ disk[s].kind = "draft" /\ e \in DOMAIN old
      /\ disk' = [disk EXCEPT ![s] = [disk[s] EXCEPT !.entries = new]]
      /\ confirmed' = [confirmed EXCEPT ![s] = [confirmed[s] EXCEPT ![e] = old[e].type]]
      /\ UNCHANGED <<repo, manifest, words, lost, scan, exit>>
  BY DEF MarkTime, Act, Editable
<1>2. old \in Entries
  BY DraftIs
<1>3. disk[s] \in File
  BY DraftIs
<1>4. /\ [old[e] EXCEPT !.time = TRUE]
            = [type |-> old[e].type, words |-> old[e].words, time |-> TRUE]
      /\ [old[e] EXCEPT !.time = TRUE] \in Entry /\ old[e].type \in Types
  <2>1. old[e] \in Entry
    BY <1>1, <1>2, EntriesAre
  <2> QED BY <2>1, Timed DEF Entry
<1>5. /\ new \in [DOMAIN old -> Entry]
      /\ new[e] = [type |-> old[e].type, words |-> old[e].words, time |-> TRUE]
      /\ \A d \in DOMAIN old \ {e} : new[d] = old[d]
  BY <1>1, <1>2, <1>4, EntriesAre
<1>6. new \in Entries /\ DOMAIN new = DOMAIN old
  BY <1>2, <1>5, EntriesAre DEF Entries
<1>7. /\ words' \in [Service -> [Element -> Words \cup {NoWords}]]
      /\ lost' \in [Service -> SUBSET Element]
      /\ confirmed' \in [Service -> [Element -> Types \cup {NoType}]]
  BY <1>1, <1>4 DEF IInv, Shapes
<1>8. \A t \in Service \ {s} :
          words'[t] = words[t] /\ lost'[t] = lost[t] /\ confirmed'[t] = confirmed[t]
  BY <1>1 DEF IInv, Shapes
<1>9. /\ words' = words /\ lost' = lost /\ confirmed'[s][e] = old[e].type
      /\ \A d \in Element \ {e} : confirmed'[s][d] = confirmed[s][d]
  BY <1>1 DEF IInv, Shapes
<1>10. ASSUME NEW d \in Element
       PROVE  \/ d \in DOMAIN new /\ new[d].words = words'[s][d]
              \/ /\ words'[s][d] = words[s][d]
                 /\ d \in lost[s] => d \in lost'[s]
                 /\ d \in DOMAIN new => new[d].words = disk[s].entries[d].words
  BY <1>1, <1>5, <1>6, <1>9
<1>11. ASSUME NEW d \in DOMAIN new
       PROVE  (disk[s].entries[d].time => confirmed[s][d] = disk[s].entries[d].type)
                    => (new[d].time => confirmed'[s][d] = new[d].type)
  <2>1. d \in Element /\ d \in DOMAIN old
    BY <1>2, <1>6, EntriesAre
  <2> QED BY <1>5, <1>9, <2>1
<1> DEFINE file == [disk[s] EXCEPT !.entries = new]
<1> HIDE DEF new
<1>12. file \in File /\ file.kind = "draft" /\ file.entries = new
  BY <1>1, <1>3, <1>6, Refilled
<1>13. disk' = [disk EXCEPT ![s] = file]
  BY <1>1
<1> HIDE DEF file
<1>14. UNCHANGED <<repo, manifest, scan, exit>> /\ Editable(s)
  BY <1>1
<1> QED BY <1>6, <1>7, <1>8, <1>10, <1>11, <1>12, <1>13, <1>14, EditStep, ZenonT(30)

\* An edit of what a draft says besides its entries.
LEMMA HeaderStep ==
    ASSUME IInv, NEW s \in Service,
           Annotate(s) \/ \E name \in Service \cup {Stranger} : Rename(s, name)
    PROVE  IInv'
<1>1. PICK file \in File :
          /\ file.kind = "draft" /\ file.entries = disk[s].entries
          /\ disk' = [disk EXCEPT ![s] = file]
  <2>1. CASE Annotate(s)
    BY <2>1, DraftIs, Marked, Stranger \in Service \cup {Stranger} DEF Annotate, Editable
  <2>2. ASSUME NEW name \in Service \cup {Stranger}, Rename(s, name)
        PROVE  disk' = [disk EXCEPT ![s] = [disk[s] EXCEPT !.service = name]]
               /\ [disk[s] EXCEPT !.service = name] \in File
               /\ [disk[s] EXCEPT !.service = name].kind = "draft"
               /\ [disk[s] EXCEPT !.service = name].entries = disk[s].entries
    BY <2>2, DraftIs, Marked DEF Rename, Editable
  <2> QED BY <2>1, <2>2
<1>2. Editable(s) /\ UNCHANGED <<repo, manifest, words, lost, confirmed, scan, exit>>
  BY DEF Annotate, Rename, Act, people
<1>3. disk[s].entries \in Entries
  BY DraftIs
<1>4. /\ words' \in [Service -> [Element -> Words \cup {NoWords}]]
      /\ lost' \in [Service -> SUBSET Element]
      /\ confirmed' \in [Service -> [Element -> Types \cup {NoType}]]
  BY <1>2 DEF IInv, Shapes
<1> QED BY <1>1, <1>2, <1>3, <1>4, EditStep

\* A draft that is removed takes what was said of it along.
LEMMA ForgetStep ==
    ASSUME IInv, NEW s \in Service, Forget(s), ~Writing, UNCHANGED <<repo, manifest, scan, exit>>
    PROVE  IInv'
<1>1. /\ disk' \in [Service -> File]
      /\ disk'[s] = NoFile /\ disk'[s].kind = "none" /\ DOMAIN disk'[s].entries = {}
      /\ \A t \in Service \ {s} : disk'[t] = disk[t]
  BY Constant DEF IInv, Shapes, Forget
<1>2. /\ words' \in [Service -> [Element -> Words \cup {NoWords}]]
      /\ \A e \in Element \ lost[s] : words'[s][e] = NoWords
      /\ \A t \in Service \ {s} : words'[t] = words[t]
      /\ UNCHANGED <<lost, confirmed>>
  BY DEF IInv, Shapes, Forget
<1>3. Shapes'
  BY <1>1, <1>2 DEF IInv, Shapes, Writing
<1>4. WordsKept'
  BY <1>1, <1>2 DEF IInv, WordsKept, Said, Filling
<1>5. TimeIsConfirmed'
  BY <1>1, <1>2 DEF IInv, TimeIsConfirmed
<1>6. Held'
  BY DEF Held, Writing
<1> QED BY <1>3, <1>4, <1>5, <1>6 DEF IInv

LEMMA DiscardStep == ASSUME IInv, NEW s \in Service, Discard(s) PROVE IInv'
BY ForgetStep DEF Discard, Act, Writing

-----------------------------------------------------------------------------
(* The scan.                                                               *)

LEMMA IdleIs == /\ Idle.stage = "idle" /\ Idle.todo = <<>> /\ <<>> \in Seq(Service)
                /\ Idle = [stage |-> Idle.stage, todo |-> Idle.todo, read |-> Idle.read,
                           listed |-> Idle.listed, full |-> Idle.full, gorm |-> Idle.gorm,
                           errors |-> Idle.errors, data |-> Idle.data]
BY DEF Idle

LEMMA LeaveStep ==
    ASSUME IInv, NEW code \in {"0", "1", "2", "killed"}, Leave(code), scan.stage # "fill"
    PROVE  IInv'
<1>1. UNCHANGED <<disk, people, repo, manifest>> /\ scan' = Idle /\ exit' = code
  BY DEF Leave, Steady, Silent
<1>2. ~Writing'
  BY <1>1, IdleIs DEF Writing
<1>3. Shapes'
  BY <1>1, <1>2, IdleIs DEF IInv, Shapes, people
<1> QED BY <1>1, <1>2, <1>3, QuietStep DEF Filling

LEMMA BeginStep ==
    ASSUME IInv, NEW targets \in SUBSET Service, NEW full, NEW gorm,
           Begin(targets, full, gorm)
    PROVE  IInv'
<1>1. UNCHANGED <<disk, people, repo, manifest>> /\ scan.stage = "idle"
  BY DEF Begin, Steady, Silent
<1>2. CASE targets = {}
  <2>1. scan' = scan /\ exit' = "1"
    BY <1>2 DEF Begin
  <2>2. ~Writing'
    BY <1>1, <2>1 DEF Writing
  <2>3. Shapes'
    BY <1>1, <2>1, <2>2 DEF IInv, Shapes, people
  <2> QED BY <1>1, <2>2, <2>3, QuietStep DEF Filling
<1>3. CASE targets # {}
  <2>1. PICK todo \in SetToSeqs(targets) :
            scan' = [Idle EXCEPT !.stage = "collect", !.todo = todo, !.listed = manifest,
                                 !.full = full, !.gorm = gorm]
    BY <1>3 DEF Begin
  <2>2. exit' = "none"
    BY <1>3 DEF Begin
  <2>3. todo \in Seq(Service)
    <3>1. Cardinality(targets) \in Nat
      BY FS_Subset, FS_CardinalityType, DraftsAssumption DEF DraftsAssumption
    <3>2. todo \in [1..Cardinality(targets) -> Service]
      BY DEF SetToSeqs
    <3> QED BY <3>1, <3>2
  <2>4. scan' = [stage |-> "collect", todo |-> todo, read |-> <<>>, listed |-> manifest,
                 full |-> full, gorm |-> gorm, errors |-> FALSE, data |-> <<>>]
    BY <2>1 DEF Idle
  <2>5. ~Writing'
    BY <2>4 DEF Writing
  <2>6. Shapes'
    BY <1>1, <2>2, <2>3, <2>4, <2>5 DEF IInv, Shapes, people
  <2> QED BY <1>1, <2>5, <2>6, QuietStep DEF Filling
<1> QED BY <1>2, <1>3

\* The service at the head of a scan.
LEMMA HeadIs ==
    ASSUME IInv, scan.todo # <<>>
    PROVE  Head(scan.todo) \in Service /\ Tail(scan.todo) \in Seq(Service)
BY DEF IInv, Shapes

\* What a scan takes a service to consist of is a structure or empty.
LEMMA TakenIs ==
    ASSUME IInv, NEW s \in Service, Readable(s)
    PROVE  StructureFor(s) \in Structure \cup {<<>>}
BY DEF IInv, Shapes, Readable, StructureFor

\* What is about to be written agrees with what people said.
LEMMA CollectHeld ==
    ASSUME IInv, Collect
    PROVE  LET s == Head(scan.todo) IN
           /\ scan'.data \in Entries
           /\ \A e \in DOMAIN scan'.data \ (Edge \cup lost[s]) : scan'.data[e].words = words[s][e]
           /\ \A e \in DOMAIN scan'.data :
                 scan'.data[e].time => confirmed[s][e] = scan'.data[e].type
<1> DEFINE s == Head(scan.todo)
           new == RenderDraft(StructureFor(s))
           old == disk[s].entries
<1>1. s \in Service /\ ~Filling(s)
  BY HeadIs DEF Collect, Filling
<1>2. StructureFor(s) \in Structure \cup {<<>>}
  BY <1>1, TakenIs DEF Collect
<1>3. /\ new \in Entries /\ DOMAIN new \subseteq Element
      /\ \A e \in DOMAIN new : new[e].words = NoWords /\ ~new[e].time
  <2>1. new \in Entries
    BY <1>2, Rendered
  <2>2. \A e \in DOMAIN new : new[e].words = NoWords /\ ~new[e].time
    BY <1>2, Rendered
  <2> QED BY <2>1, <2>2, EntriesAre
<1>4. scan'.data = IF disk[s].kind = "none" THEN new ELSE MergeSemantics(new, old)
  BY DEF Collect, IInv, Shapes
<1>5. \A e \in Element \ (Edge \cup lost[s]) :
          words[s][e] = IF e \in DOMAIN old THEN old[e].words ELSE NoWords
  BY <1>1 DEF IInv, WordsKept, Said
<1> HIDE DEF new
<1>6. CASE disk[s].kind = "none"
  <2>1. scan'.data = new
    BY <1>4, <1>6
  <2>2. DOMAIN old = {}
    BY <1>1, <1>6, Constant DEF IInv, Shapes
  <2> QED BY <1>3, <1>5, <2>1, <2>2
<1>7. CASE disk[s].kind # "none"
  <2>1. disk[s].kind = "draft" /\ old \in Entries
    BY <1>1, <1>7, DraftIs DEF Collect, Mergeable
  <2> DEFINE m == MergeSemantics(new, old)
  <2>2. /\ scan'.data = m /\ m \in Entries /\ DOMAIN m = DOMAIN new
        /\ \A e \in DOMAIN new :
                IF e \in DOMAIN old \ Edge
                THEN m[e] = [type |-> new[e].type, words |-> old[e].words,
                             time |-> old[e].time /\ old[e].type = new[e].type]
                ELSE m[e] = new[e]
    BY <1>3, <1>4, <1>7, <2>1, Merged
  <2> HIDE DEF m
  <2>3. ASSUME NEW e \in DOMAIN m \ (Edge \cup lost[s])
        PROVE  m[e].words = words[s][e]
    BY <1>3, <1>5, <2>2
  <2>4. ASSUME NEW e \in DOMAIN m, m[e].time
        PROVE  confirmed[s][e] = m[e].type
    <3>1. e \in DOMAIN old \ Edge /\ m[e] # new[e]
      BY <1>3, <2>2, <2>4
    <3>2. m[e].time = (old[e].time /\ old[e].type = new[e].type) /\ m[e].type = new[e].type
      BY <2>2, <3>1
    <3>3. old[e].time => confirmed[s][e] = old[e].type
      BY <1>1, <3>1 DEF IInv, TimeIsConfirmed
    <3> QED BY <2>4, <3>2, <3>3
  <2> QED BY <2>2, <2>3, <2>4
<1> QED BY <1>6, <1>7

LEMMA CollectStep == ASSUME IInv, Collect PROVE IInv'
<1>1. /\ UNCHANGED <<disk, people, repo, manifest, exit>>
      /\ scan.todo # <<>> /\ scan.stage = "collect"
  BY DEF Collect, Steady, Silent
<1>2. /\ scan'.stage = "truncate" /\ scan'.todo = scan.todo
      /\ scan' = [stage |-> scan'.stage, todo |-> scan'.todo, read |-> scan'.read,
                  listed |-> scan'.listed, full |-> scan'.full, gorm |-> scan'.gorm,
                  errors |-> scan'.errors, data |-> scan'.data]
  BY DEF Collect, IInv, Shapes
<1>3. Shapes'
  BY <1>1, <1>2, CollectHeld DEF IInv, Shapes, people
<1>4. Held'
  BY <1>1, <1>2, CollectHeld DEF Held, people
<1> QED BY <1>1, <1>3, <1>4, QuietStep DEF Filling

LEMMA TruncateStep == ASSUME IInv, Truncate PROVE IInv'
<1> DEFINE s == Head(scan.todo)
           stays == DOMAIN scan.data \ Edge
<1>1. /\ UNCHANGED <<repo, manifest, confirmed, exit>>
      /\ disk' = [disk EXCEPT ![s] = Torn]
      /\ words' = [words EXCEPT ![s] =
            [e \in Element |-> IF e \in stays THEN words[s][e] ELSE NoWords]]
      /\ lost' = [lost EXCEPT ![s] = lost[s] \cap stays]
      /\ Writing /\ scan.stage = "truncate"
  BY DEF Truncate, GiveUp, Silent, Writing
<1>2. /\ scan'.stage = "fill" /\ scan'.todo = scan.todo /\ scan'.data = scan.data
      /\ scan' = [stage |-> scan'.stage, todo |-> scan'.todo, read |-> scan'.read,
                  listed |-> scan'.listed, full |-> scan'.full, gorm |-> scan'.gorm,
                  errors |-> scan'.errors, data |-> scan'.data]
  BY DEF Truncate, IInv, Shapes
<1>3. s \in Service
  BY <1>1, HeadIs DEF IInv, Shapes
<1>4. /\ disk' \in [Service -> File]
      /\ disk'[s] = Torn /\ disk'[s].kind = "torn" /\ DOMAIN disk'[s].entries = {}
      /\ \A t \in Service \ {s} : disk'[t] = disk[t]
  BY <1>1, <1>3, Constant DEF IInv, Shapes
<1>5. /\ words' \in [Service -> [Element -> Words \cup {NoWords}]]
      /\ lost' \in [Service -> SUBSET Element]
      /\ \A e \in Element : words'[s][e] = IF e \in stays THEN words[s][e] ELSE NoWords
      /\ lost'[s] = lost[s] \cap stays
      /\ \A t \in Service \ {s} : words'[t] = words[t] /\ lost'[t] = lost[t]
  BY <1>1, <1>3 DEF IInv, Shapes
<1>6. Shapes'
  <2>1. \A t \in Service : disk'[t].kind # "draft" => disk'[t] \in {NoFile, Torn}
    BY <1>4 DEF IInv, Shapes
  <2> QED BY <1>1, <1>2, <1>4, <1>5, <2>1 DEF IInv, Shapes, Writing
<1>7. WordsKept'
  <2> SUFFICES ASSUME NEW t \in Service, ~Filling(t)', NEW e \in Element \ (Edge \cup lost'[t])
               PROVE  Said(disk'[t], e) = words'[t][e]
    BY DEF WordsKept
  <2>1. t # s /\ ~Filling(t)
    BY <1>1, <1>2 DEF Filling
  <2>2. disk'[t] = disk[t] /\ words'[t] = words[t] /\ lost'[t] = lost[t]
    BY <1>4, <1>5, <2>1
  <2> QED BY <2>1, <2>2 DEF IInv, WordsKept
<1>8. Held'
  <2>1. scan.data \in Entries /\ DOMAIN scan.data \subseteq Element
    BY <1>1, EntriesAre DEF IInv, Shapes
  <2>2. ASSUME NEW e \in DOMAIN scan.data \ (Edge \cup lost'[s])
        PROVE  scan.data[e].words = words'[s][e]
    <3>1. e \notin lost[s] /\ words'[s][e] = words[s][e]
      BY <1>5, <2>1
    <3> QED BY <1>1, <3>1 DEF IInv, Held
  <2>3. \A e \in Element \ (Edge \cup DOMAIN scan.data) : words'[s][e] = NoWords
    BY <1>5
  <2>4. \A e \in DOMAIN scan.data : scan.data[e].time => confirmed'[s][e] = scan.data[e].type
    BY <1>1 DEF IInv, Held
  <2> QED BY <1>2, <2>2, <2>3, <2>4 DEF Held
<1>9. TimeIsConfirmed'
  BY <1>1, <1>4 DEF IInv, TimeIsConfirmed
<1> QED BY <1>6, <1>7, <1>8, <1>9 DEF IInv

\* A draft as it is written.
LEMMA DraftOf ==
    ASSUME NEW s \in Service, NEW f \in Entries
    PROVE  Draft(s, f) \in File /\ Draft(s, f).kind = "draft" /\ Draft(s, f).entries = f
BY DEF Draft, File

LEMMA FillStep == ASSUME IInv, Fill PROVE IInv'
<1> DEFINE s == Head(scan.todo)
           data == scan.data
<1>1. /\ UNCHANGED <<repo, manifest, words, lost, confirmed, exit>>
      /\ disk' = [disk EXCEPT ![s] = Draft(s, data)]
      /\ Writing /\ scan.stage = "fill"
  BY DEF Fill, Steady, Silent, people, Writing
<1>2. /\ scan'.stage = "collect" /\ scan'.todo = Tail(scan.todo)
      /\ scan' = [stage |-> scan'.stage, todo |-> scan'.todo, read |-> scan'.read,
                  listed |-> scan'.listed, full |-> scan'.full, gorm |-> scan'.gorm,
                  errors |-> scan'.errors, data |-> scan'.data]
  BY DEF Fill, IInv, Shapes
<1>3. s \in Service /\ data \in Entries /\ scan'.todo \in Seq(Service)
  BY <1>1, <1>2, HeadIs DEF IInv, Shapes
<1>4. DOMAIN data \subseteq Element
  BY <1>3, EntriesAre
<1>5. /\ disk' \in [Service -> File]
      /\ disk'[s].kind = "draft" /\ disk'[s].entries = data
      /\ \A t \in Service \ {s} : disk'[t] = disk[t]
  BY <1>1, <1>3, DraftOf DEF IInv, Shapes
<1>6. Shapes'
  <2>1. \A t \in Service : disk'[t].kind # "draft" => disk'[t] \in {NoFile, Torn}
    BY <1>5 DEF IInv, Shapes
  <2> QED BY <1>1, <1>2, <1>3, <1>5, <2>1 DEF IInv, Shapes, Writing
<1>7. WordsKept'
  <2> SUFFICES ASSUME NEW t \in Service, NEW e \in Element \ (Edge \cup lost[t])
               PROVE  Said(disk'[t], e) = words[t][e]
    BY <1>1 DEF WordsKept
  <2>1. CASE t = s
    <3>1. \A d \in DOMAIN data \ (Edge \cup lost[s]) : data[d].words = words[s][d]
      BY <1>1 DEF IInv, Held
    <3>2. \A d \in Element \ (Edge \cup DOMAIN data) : words[s][d] = NoWords
      BY <1>1 DEF IInv, Held
    <3> QED BY <1>5, <2>1, <3>1, <3>2 DEF Said
  <2>2. CASE t # s
    <3>1. disk'[t] = disk[t] /\ ~Filling(t)
      BY <1>5, <2>2 DEF Filling
    <3> QED BY <3>1 DEF IInv, WordsKept
  <2> QED BY <2>1, <2>2
<1>8. TimeIsConfirmed'
  <2> SUFFICES ASSUME NEW t \in Service, NEW e \in DOMAIN disk'[t].entries
               PROVE  disk'[t].entries[e].time => confirmed[t][e] = disk'[t].entries[e].type
    BY <1>1 DEF TimeIsConfirmed
  <2>1. CASE t = s
    BY <1>1, <1>5, <2>1 DEF IInv, Held
  <2>2. CASE t # s
    <3>1. disk'[t] = disk[t]
      BY <1>5, <2>2
    <3> QED BY <3>1 DEF IInv, TimeIsConfirmed
  <2> QED BY <2>1, <2>2
<1>9. Held'
  BY <1>2 DEF Held, Writing
<1> QED BY <1>6, <1>7, <1>8, <1>9 DEF IInv

\* A write that is cut off leaves a file of some of the entries, and takes the
\* words that are not in it.
LEMMA CutOffStep ==
    ASSUME IInv, NEW code \in {"1", "killed"}, CutOff(code)
    PROVE  IInv'
<1> DEFINE s == Head(scan.todo)
           data == scan.data
           gone == {e \in Element \ Edge : Said(disk'[s], e) # words[s][e]}
<1>1. /\ UNCHANGED <<repo, manifest, words, confirmed>>
      /\ scan' = Idle /\ exit' = code /\ Writing
      /\ lost' = [lost EXCEPT ![s] = gone]
  BY DEF CutOff, Silent, Writing
<1>2. s \in Service /\ data \in Entries
  BY <1>1, HeadIs DEF IInv, Shapes
<1>3. ~Writing'
  BY <1>1, IdleIs DEF Writing
<1>4. /\ disk' \in [Service -> File]
      /\ \A t \in Service \ {s} : disk'[t] = disk[t]
      /\ \/ disk'[s] = disk[s]
         \/ /\ disk'[s].kind = "draft"
            /\ \A e \in DOMAIN disk'[s].entries :
                  e \in DOMAIN data /\ disk'[s].entries[e] = data[e]
  <2>1. CASE UNCHANGED disk
    BY <2>1 DEF IInv, Shapes
  <2>2. ASSUME NEW kept \in SUBSET DOMAIN data,
               disk' = [disk EXCEPT ![s] = Draft(s, Restrict(data, kept))]
        PROVE  /\ disk' \in [Service -> File] /\ disk'[s].kind = "draft"
               /\ \A t \in Service \ {s} : disk'[t] = disk[t]
               /\ \A e \in DOMAIN disk'[s].entries :
                     e \in DOMAIN data /\ disk'[s].entries[e] = data[e]
    <3> DEFINE part == Restrict(data, kept)
    <3>1. /\ part \in Entries /\ DOMAIN part = kept
          /\ \A e \in kept : part[e] = data[e]
      <4>1. kept \in SUBSET Element /\ \A e \in kept : data[e] \in Entry
        BY <1>2, EntriesAre
      <4> QED BY <4>1, AreEntries DEF Restrict
    <3>2. disk' = [disk EXCEPT ![s] = Draft(s, part)]
      BY <2>2
    <3> HIDE DEF part
    <3>3. disk'[s].entries = part /\ disk'[s].kind = "draft" /\ disk' \in [Service -> File]
          /\ \A t \in Service \ {s} : disk'[t] = disk[t]
      BY <1>2, <3>1, <3>2, DraftOf DEF IInv, Shapes
    <3> QED BY <3>1, <3>3
  <2> QED BY <2>1, <2>2 DEF CutOff
<1>5. lost' \in [Service -> SUBSET Element] /\ lost'[s] = gone
      /\ \A t \in Service \ {s} : lost'[t] = lost[t]
  BY <1>1, <1>2 DEF IInv, Shapes
<1>6. Shapes'
  <2>1. \A t \in Service : disk'[t].kind # "draft" => disk'[t] \in {NoFile, Torn}
    BY <1>4 DEF IInv, Shapes
  <2> QED BY <1>1, <1>3, <1>4, <1>5, <2>1, IdleIs DEF IInv, Shapes
<1>7. WordsKept'
  <2> SUFFICES ASSUME NEW t \in Service, NEW e \in Element \ (Edge \cup lost'[t])
               PROVE  Said(disk'[t], e) = words[t][e]
    BY <1>1 DEF WordsKept
  <2>1. CASE t = s
    BY <1>5, <2>1
  <2>2. CASE t # s
    <3>1. disk'[t] = disk[t] /\ lost'[t] = lost[t] /\ ~Filling(t)
      BY <1>4, <1>5, <2>2 DEF Filling
    <3> QED BY <3>1 DEF IInv, WordsKept
  <2> QED BY <2>1, <2>2
<1>8. TimeIsConfirmed'
  <2> SUFFICES ASSUME NEW t \in Service, NEW e \in DOMAIN disk'[t].entries
               PROVE  disk'[t].entries[e].time => confirmed[t][e] = disk'[t].entries[e].type
    BY <1>1 DEF TimeIsConfirmed
  <2>1. CASE t = s /\ disk'[s] # disk[s]
    <3>1. e \in DOMAIN data /\ disk'[s].entries[e] = data[e]
      BY <1>4, <2>1
    <3> QED BY <1>1, <2>1, <3>1 DEF IInv, Held
  <2>2. CASE ~(t = s /\ disk'[s] # disk[s])
    <3>1. disk'[t] = disk[t]
      BY <1>4, <2>2
    <3> QED BY <3>1 DEF IInv, TimeIsConfirmed
  <2> QED BY <2>1, <2>2
<1>9. Held'
  BY <1>3 DEF Held
<1> QED BY <1>6, <1>7, <1>8, <1>9 DEF IInv

LEMMA ReconcileStep == ASSUME IInv, Reconcile PROVE IInv'
<1>1. PICK s \in Unlisted : Forget(s)
  BY DEF Reconcile
<1>2. s \in Service
  BY DEF Unlisted, Files
<1> QED BY <1>1, <1>2, ForgetStep DEF Reconcile, Silent, Writing

-----------------------------------------------------------------------------
(* The theorems.                                                           *)

LEMMA NextStep == IInv /\ [Next]_vars => IInv'
<1> SUFFICES ASSUME IInv, [Next]_vars PROVE IInv'
  OBVIOUS
<1>1. ASSUME NEW s \in Service, Develop(s) \/ List(s) PROVE IInv'
  BY <1>1, DevelopStep
<1>2. ASSUME NEW s \in Service,
             Annotate(s) \/ \E name \in Service \cup {Stranger} : Rename(s, name)
      PROVE  IInv'
  BY <1>2, HeaderStep
<1>3. ASSUME NEW s \in Service, Discard(s) PROVE IInv'
  BY <1>3, DiscardStep
<1>4. ASSUME NEW s \in Service, NEW e \in Element, MarkTime(s, e) PROVE IInv'
  BY <1>4, MarkTimeStep
<1>5. ASSUME NEW s \in Service, NEW e \in Element, NEW w \in Words, Describe(s, e, w)
      PROVE  IInv'
  BY <1>5, DescribeStep
<1>6. ASSUME NEW gorm \in BOOLEAN, ScanAll(gorm) PROVE IInv'
  BY <1>6, BeginStep DEF ScanAll, IInv, Shapes
<1>7. ASSUME NEW gorm \in BOOLEAN, NEW s \in Service, ScanOne(s, gorm) PROVE IInv'
  BY <1>7, BeginStep DEF ScanOne
<1>8. ASSUME Refuse \/ Fails \/ Crash \/ Finish PROVE IInv'
  <2>1. CASE Refuse
    BY <2>1, LeaveStep DEF Refuse
  <2>2. CASE Fails
    BY <2>2, LeaveStep DEF Fails
  <2>3. CASE Crash
    BY <2>3, LeaveStep, CutOffStep DEF Crash
  <2>4. CASE Finish
    BY <2>4, LeaveStep DEF Finish
  <2> QED BY <1>8, <2>1, <2>2, <2>3, <2>4
<1>9. CASE FillFails
  BY <1>9, CutOffStep DEF FillFails
<1>10. CASE UNCHANGED vars
  <2>1. UNCHANGED <<disk, people, repo, manifest, scan, exit>>
    BY <1>10 DEF vars, people
  <2>2. Shapes' /\ Held'
    BY <2>1 DEF IInv, Shapes, Held, Writing, people
  <2> QED BY <2>1, <2>2, QuietStep DEF Filling
<1> QED BY <1>1, <1>2, <1>3, <1>4, <1>5, <1>6, <1>7, <1>8, <1>9, <1>10,
           CollectStep, TruncateStep, FillStep, ReconcileStep DEF Next

LEMMA Invariance == Spec => []IInv
BY InitIInv, NextStep, PTL DEF Spec

\* Every variable keeps its type, and a file that is not a draft has no
\* entries, through scans cut off anywhere (draft.go: WriteDraft).
THEOREM TypeCorrect == Spec => []TypeOK
<1>1. IInv => TypeOK
  <2> SUFFICES ASSUME IInv PROVE TypeOK
    OBVIOUS
  <2>1. ASSUME NEW s \in Service
        PROVE  /\ disk[s].kind \in {"none", "torn", "draft"} /\ disk[s].foreign \in BOOLEAN
               /\ disk[s].service \in Service \cup {Stranger}
               /\ DOMAIN disk[s].entries \subseteq Element
               /\ \A e \in DOMAIN disk[s].entries :
                    disk[s].entries[e].words \in Words \cup {NoWords}
    <3>1. disk[s] \in File /\ disk[s].entries \in Entries
      BY DraftIs
    <3> QED BY <3>1, EntriesAre DEF File
  <2> QED BY <2>1 DEF TypeOK, IInv, Shapes, Writing
<1> QED BY <1>1, Invariance, PTL

\* What people say of an element stays in its draft as long as the element is
\* there, through any number of scans and whatever fails or is killed, excepting
\* the words a write that was cut off has taken (draft.go: MergeSemantics,
\* WriteDraft).
THEOREM PeopleKeepTheirWords == Spec => []WordsKept
<1>1. IInv => WordsKept
  BY DEF IInv
<1> QED BY <1>1, Invariance, PTL

\* No time axis outlives the type it was confirmed for (draft.go:
\* MergeSemantics).
THEOREM TimeNeedsConfirming == Spec => []TimeIsConfirmed
<1>1. IInv => TimeIsConfirmed
  BY DEF IInv
<1> QED BY <1>1, Invariance, PTL

-----------------------------------------------------------------------------
(* What a scan keeps track of: its list, what it has read, what it wrote.   *)

TypesOf(entries) == [e \in DOMAIN entries |-> entries[e].type]

\* Every listed service is behind the scan or ahead of it.
Planned ==
    /\ DOMAIN scan.listed \subseteq Service
    /\ Range(scan.todo) \subseteq DOMAIN scan.listed
    /\ DOMAIN scan.read \subseteq DOMAIN scan.listed
    /\ scan.full => DOMAIN scan.listed \subseteq DOMAIN scan.read \cup Range(scan.todo)

\* Of a service without a database nothing is read; no error yet means that
\* every cross-check passed.
Checked ==
    /\ scan.errors \in BOOLEAN
    /\ \A s \in DOMAIN scan.read : ~scan.listed[s] => scan.read[s] = <<>>
    /\ scan.gorm /\ ~scan.errors =>
          \A s \in DOMAIN scan.read : scan.listed[s] => Model[s] \subseteq DOMAIN scan.read[s]

\* The draft being replaced is one that may be, and is gone once it is emptied.
Merging ==
    Writing => LET s == Head(scan.todo) IN
        /\ s \in DOMAIN scan.read /\ TypesOf(scan.data) = scan.read[s]
        /\ scan.stage = "truncate" => Mergeable(s)
        /\ scan.stage = "fill" => disk[s].kind = "torn"

\* Every other draft of this scan holds the structure that was read.
Written ==
    \A s \in DOMAIN scan.read : (Writing => s # Head(scan.todo)) =>
        disk[s].kind = "draft" /\ TypesOf(disk[s].entries) = scan.read[s]

Tracked == scan.stage # "idle" => Planned /\ Checked /\ Merging /\ Written

LEMMA RangeOfTail ==
    ASSUME NEW S, NEW q \in Seq(S), q # <<>>
    PROVE  Range(q) = {Head(q)} \cup Range(Tail(q))
<1>1. /\ Tail(q) \in Seq(S) /\ Len(Tail(q)) = Len(q) - 1 /\ Len(q) \in Nat \ {0}
      /\ \A i \in 1 .. Len(q) - 1 : Tail(q)[i] = q[i + 1]
      /\ Head(q) = q[1] /\ DOMAIN q = 1 .. Len(q) /\ DOMAIN Tail(q) = 1 .. Len(q) - 1
  OBVIOUS
<1>2. ASSUME NEW x \in Range(q) PROVE x \in {Head(q)} \cup Range(Tail(q))
  <2>1. PICK i \in 1 .. Len(q) : x = q[i]
    BY <1>1, <1>2 DEF Range
  <2>2. CASE i = 1
    BY <1>1, <2>1, <2>2
  <2>3. CASE i # 1
    <3>1. i - 1 \in 1 .. Len(q) - 1 /\ Tail(q)[i - 1] = q[i]
      BY <1>1, <2>3
    <3> QED BY <1>1, <2>1, <3>1 DEF Range
  <2> QED BY <2>2, <2>3
<1>3. Head(q) \in Range(q)
  BY <1>1 DEF Range
<1>4. ASSUME NEW x \in Range(Tail(q)) PROVE x \in Range(q)
  <2>1. PICK i \in 1 .. Len(q) - 1 : x = Tail(q)[i]
    BY <1>1, <1>4 DEF Range
  <2>2. i + 1 \in 1 .. Len(q) /\ x = q[i + 1]
    BY <1>1, <2>1
  <2> QED BY <1>1, <2>2 DEF Range
<1> QED BY <1>2, <1>3, <1>4

\* The order a scan goes in leaves no service out.
LEMMA SeqHasAll ==
    ASSUME NEW S, IsFiniteSet(S), NEW q \in SetToSeqs(S)
    PROVE  Range(q) = S
<1> DEFINE D == 1 .. Cardinality(S)
<1>1. q \in [D -> S] /\ \A i, j \in D : i # j => q[i] # q[j]
  BY DEF SetToSeqs
<1>2. q \in Injection(D, S)
  BY <1>1 DEF Injection, IsInjective
<1>3. Cardinality(S) \in Nat
  BY FS_CardinalityType
<1>4. Cardinality(D) = Cardinality(S)
  BY <1>3, FS_Interval
<1>5. q \in Surjection(D, S)
  BY <1>2, <1>4, FS_Injection
<1> QED BY <1>5 DEF Surjection, Range

-----------------------------------------------------------------------------
(* Steps, as Tracked sees them.                                             *)

\* The edits of a draft.
Edits(s) ==
    \/ Annotate(s)
    \/ \E name \in Service \cup {Stranger} : Rename(s, name)
    \/ \E e \in Element : MarkTime(s, e) \/ \E w \in Words : Describe(s, e, w)

\* What an edit leaves: kind, elements and types of the draft, and the others.
EditLeavesAll(s) ==
    /\ disk'[s].kind = disk[s].kind
    /\ DOMAIN disk'[s].entries = DOMAIN disk[s].entries
    /\ TypesOf(disk'[s].entries) = TypesOf(disk[s].entries)
    /\ \A t \in Service \ {s} : disk'[t] = disk[t]

LEMMA OneEntry ==
    ASSUME IInv, NEW s \in Service, NEW new, NEW e \in DOMAIN disk[s].entries, NEW r,
           disk' = [disk EXCEPT ![s] = [disk[s] EXCEPT !.entries = new]],
           new = [disk[s].entries EXCEPT ![e] = r], r.type = disk[s].entries[e].type
    PROVE  EditLeavesAll(s)
<1> DEFINE old == disk[s].entries
<1>1. disk[s] \in File /\ disk \in [Service -> File]
  BY DraftIs DEF IInv, Shapes
<1>2. disk'[s] = [disk[s] EXCEPT !.entries = new] /\ \A t \in Service \ {s} : disk'[t] = disk[t]
  BY <1>1
<1>3. disk'[s].kind = disk[s].kind /\ disk'[s].entries = new
  BY <1>1, <1>2 DEF File
<1>4. DOMAIN new = DOMAIN old /\ \A d \in DOMAIN old : new[d].type = old[d].type
  OBVIOUS
<1> QED BY <1>2, <1>3, <1>4 DEF TypesOf, EditLeavesAll

LEMMA EditLeaves ==
    ASSUME IInv, NEW s \in Service, Edits(s)
    PROVE  /\ Editable(s) /\ UNCHANGED <<scan, exit>> /\ edits' = edits + 1
           /\ disk[s].kind = "draft" /\ EditLeavesAll(s)
<1> DEFINE old == disk[s].entries
<1>1. disk[s] \in File /\ old \in Entries /\ disk \in [Service -> File]
  BY DraftIs DEF IInv, Shapes
<1>2. Editable(s) /\ UNCHANGED <<scan, exit>> /\ edits' = edits + 1 /\ disk[s].kind = "draft"
  BY DEF Edits, Annotate, Rename, MarkTime, Describe, Act, Editable
<1>3. ASSUME Annotate(s) \/ \E name \in Service \cup {Stranger} : Rename(s, name)
      PROVE  EditLeavesAll(s)
  <2>1. PICK file : /\ file.kind = "draft" /\ file.entries = old
                    /\ disk' = [disk EXCEPT ![s] = file]
    <3>1. CASE Annotate(s)
      BY <1>1, <3>1, Marked, Stranger \in Service \cup {Stranger} DEF Annotate, Editable
    <3>2. ASSUME NEW name \in Service \cup {Stranger}, Rename(s, name)
          PROVE  disk' = [disk EXCEPT ![s] = [disk[s] EXCEPT !.service = name]]
                 /\ [disk[s] EXCEPT !.service = name].kind = "draft"
                 /\ [disk[s] EXCEPT !.service = name].entries = old
      BY <1>1, <3>2, Marked DEF Rename, Editable
    <3> QED BY <1>3, <3>1, <3>2
  <2>2. disk'[s] = file /\ \A t \in Service \ {s} : disk'[t] = disk[t]
    BY <1>1, <2>1
  <2> QED BY <1>2, <2>1, <2>2 DEF EditLeavesAll
<1>4. ASSUME NEW e \in Element, MarkTime(s, e) PROVE EditLeavesAll(s)
  <2> DEFINE r == [old[e] EXCEPT !.time = TRUE]
             new == [old EXCEPT ![e] = r]
  <2>1. e \in DOMAIN old /\ disk' = [disk EXCEPT ![s] = [disk[s] EXCEPT !.entries = new]]
    BY <1>4 DEF MarkTime
  <2>2. old[e] \in Entry
    BY <1>1, <2>1, EntriesAre DEF Entry
  <2>3. r.type = old[e].type
    BY <2>2 DEF Entry
  <2>4. new = [old EXCEPT ![e] = r]
    OBVIOUS
  <2> HIDE DEF r, new
  <2> QED BY <2>1, <2>3, <2>4, OneEntry
<1>5. ASSUME NEW e \in Element, NEW w \in Words, Describe(s, e, w) PROVE EditLeavesAll(s)
  <2> DEFINE r == [old[e] EXCEPT !.words = w]
             new == [old EXCEPT ![e] = r]
  <2>1. e \in DOMAIN old /\ disk' = [disk EXCEPT ![s] = [disk[s] EXCEPT !.entries = new]]
    BY <1>5 DEF Describe
  <2>2. old[e] \in Entry
    BY <1>1, <2>1, EntriesAre DEF Entry
  <2>3. r.type = old[e].type
    BY <2>2 DEF Entry
  <2>4. new = [old EXCEPT ![e] = r]
    OBVIOUS
  <2> HIDE DEF r, new
  <2> QED BY <2>1, <2>3, <2>4, OneEntry
<1> QED BY <1>2, <1>3, <1>4, <1>5 DEF Edits

\* The steps that write the draft at the head of a scan.
Writes == Truncate \/ Fill \/ CutOff("1") \/ CutOff("killed")

\* What they do to the file at its head, and to no other.
LEMMA HeadLeaves ==
    ASSUME IInv, Tracked, Writes
    PROVE  LET s == Head(scan.todo) IN
           /\ s \in Service /\ s \in DOMAIN scan.read
           /\ scan.stage # "idle" /\ Writing /\ (Mergeable(s) \/ Filling(s))
           /\ \A t \in Service \ {s} : disk'[t] = disk[t]
<1>1. Writing /\ scan.stage # "idle"
  BY DEF Writes, Truncate, Fill, CutOff, Writing
<1>2. Head(scan.todo) \in Service
  BY <1>1, HeadIs DEF IInv, Shapes
<1>3. \/ UNCHANGED disk
      \/ \E f : disk' = [disk EXCEPT ![Head(scan.todo)] = f]
  BY DEF Writes, Truncate, Fill, CutOff
<1>4. disk \in [Service -> File]
  BY DEF IInv, Shapes
<1>5. Mergeable(Head(scan.todo)) \/ Filling(Head(scan.todo))
  BY <1>1 DEF Tracked, Merging, Writing, Filling
<1> QED BY <1>1, <1>2, <1>3, <1>4, <1>5 DEF Tracked, Merging

\* The steps that end a scan.
LEMMA EndTracked == ASSUME scan' = Idle PROVE Tracked'
BY IdleIs DEF Tracked

\* The steps that leave the scan and its files alone.
LEMMA StillTracked == ASSUME Tracked, UNCHANGED <<scan, disk>> PROVE Tracked'
BY DEF Tracked, Planned, Checked, Merging, Mergeable, Written, Writing

LEMMA EditTracked ==
    ASSUME IInv, Tracked, NEW s \in Service, Edits(s)
    PROVE  Tracked'
<1> SUFFICES ASSUME scan.stage # "idle" PROVE Planned' /\ Checked' /\ Merging' /\ Written'
  BY EditLeaves DEF Tracked
<1>1. /\ scan' = scan /\ Editable(s) /\ disk'[s].kind = "draft"
      /\ TypesOf(disk'[s].entries) = TypesOf(disk[s].entries)
      /\ \A t \in Service \ {s} : disk'[t] = disk[t]
  BY EditLeaves DEF EditLeavesAll
<1>2. Planned' /\ Checked'
  BY <1>1 DEF Tracked, Planned, Checked
<1>3. Merging'
  <2> SUFFICES ASSUME Writing PROVE disk'[Head(scan.todo)] = disk[Head(scan.todo)]
    BY <1>1 DEF Tracked, Merging, Mergeable, Writing
  <2>1. Head(scan.todo) \in Service /\ Head(scan.todo) # s
    BY <1>1, EditedIsNotWritten DEF IInv, Shapes
  <2> QED BY <1>1, <2>1
<1>4. Written'
  <2> SUFFICES ASSUME NEW t \in DOMAIN scan.read, Writing => t # Head(scan.todo)
               PROVE  disk'[t].kind = "draft" /\ TypesOf(disk'[t].entries) = scan.read[t]
    BY <1>1 DEF Written, Writing
  <2>1. disk[t].kind = "draft" /\ TypesOf(disk[t].entries) = scan.read[t]
    BY DEF Tracked, Written
  <2>2. CASE t = s
    BY <1>1, <2>1, <2>2
  <2>3. CASE t # s
    <3>1. t \in Service
      BY DEF Tracked, Planned
    <3> QED BY <1>1, <2>1, <2>3, <3>1
  <2> QED BY <2>2, <2>3
<1> QED BY <1>2, <1>3, <1>4

LEMMA BeginTracked ==
    ASSUME IInv, Tracked, NEW gorm \in BOOLEAN,
           ScanAll(gorm) \/ \E s \in Service : ScanOne(s, gorm)
    PROVE  Tracked'
<1>1. PICK targets \in SUBSET DOMAIN manifest, full \in BOOLEAN :
          Begin(targets, full, gorm) /\ (full => targets = DOMAIN manifest)
  <2>1. CASE ScanAll(gorm)
    BY <2>1 DEF ScanAll
  <2>2. ASSUME NEW s \in Service, ScanOne(s, gorm)
        PROVE  Begin({s} \cap DOMAIN manifest, FALSE, gorm)
    BY <2>2 DEF ScanOne
  <2> QED BY <2>1, <2>2
<1>2. DOMAIN manifest \subseteq Service
  BY DEF IInv, Shapes
<1>3. CASE targets = {}
  BY <1>1, <1>3 DEF Begin, Tracked
<1>4. CASE targets # {}
  <2>1. PICK todo \in SetToSeqs(targets) :
            scan' = [Idle EXCEPT !.stage = "collect", !.todo = todo, !.listed = manifest,
                                 !.full = full, !.gorm = gorm]
    BY <1>1, <1>4, Zenon DEF Begin
  <2>2. scan' = [stage |-> "collect", todo |-> todo, read |-> <<>>, listed |-> manifest,
                 full |-> full, gorm |-> gorm, errors |-> FALSE, data |-> <<>>]
    BY <2>1 DEF Idle
  <2>3. IsFiniteSet(targets)
    BY <1>2, FS_Subset, DraftsAssumption DEF DraftsAssumption
  <2>4. Range(todo) = targets
    BY <2>3, SeqHasAll
  <2>5. DOMAIN scan'.read = {}
    BY <2>2
  <2>6. Planned'
    BY <1>1, <1>2, <2>2, <2>4, <2>5 DEF Planned
  <2>7. Checked' /\ Merging' /\ Written'
    BY <2>2, <2>5 DEF Checked, Merging, Written, Writing
  <2> QED BY <2>6, <2>7 DEF Tracked
<1> QED BY <1>3, <1>4

\* The draft to be written has the types that were read.
LEMMA CollectTypes ==
    ASSUME IInv, Collect
    PROVE  TypesOf(scan'.data) = StructureFor(Head(scan.todo))
<1> DEFINE s == Head(scan.todo)
           f == StructureFor(s)
           new == RenderDraft(f)
           old == disk[s].entries
<1>1. s \in Service
  BY HeadIs DEF Collect
<1>2. f \in Structure \cup {<<>>}
  BY <1>1, TakenIs DEF Collect
<1>3. scan'.data = IF disk[s].kind = "none" THEN new ELSE MergeSemantics(new, old)
  BY DEF Collect, IInv, Shapes
<1> HIDE DEF f
<1>4. new \in Entries /\ DOMAIN new = DOMAIN f /\ \A e \in DOMAIN f : new[e].type = f[e]
  BY <1>2, Rendered
<1>5. TypesOf(new) = f
  <2>1. f = [e \in DOMAIN f |-> f[e]]
    BY <1>2, StructureIs
  <2> HIDE DEF new
  <2> QED BY <1>4, <2>1 DEF TypesOf
<1> HIDE DEF new
<1>6. CASE disk[s].kind = "none"
  BY <1>3, <1>5, <1>6 DEF f
<1>7. CASE disk[s].kind # "none"
  <2> DEFINE m == MergeSemantics(new, old)
  <2>1. old \in Entries
    BY <1>1, DraftIs
  <2>2. DOMAIN m = DOMAIN new /\ \A e \in DOMAIN new : m[e].type = new[e].type
    <3>1. /\ DOMAIN m = DOMAIN new
          /\ \A e \in DOMAIN new :
                IF e \in DOMAIN old \ Edge
                THEN m[e] = [type |-> new[e].type, words |-> old[e].words,
                             time |-> old[e].time /\ old[e].type = new[e].type]
                ELSE m[e] = new[e]
      BY <1>4, <2>1, Merged
    <3> HIDE DEF m
    <3> QED BY <3>1
  <2>3. scan'.data = m
    BY <1>3, <1>7
  <2> HIDE DEF m
  <2>4. TypesOf(m) = TypesOf(new)
    BY <2>2 DEF TypesOf
  <2> QED BY <1>5, <2>3, <2>4 DEF f
<1> QED BY <1>6, <1>7

LEMMA CollectTracked == ASSUME IInv, Tracked, Collect PROVE Tracked'
<1> DEFINE s == Head(scan.todo)
<1>1. /\ scan.stage = "collect" /\ scan.todo # <<>> /\ UNCHANGED disk
      /\ Planned /\ Checked /\ Written /\ ~Writing /\ Mergeable(s)
  BY DEF Collect, Tracked, Writing
<1>. DEFINE f == StructureFor(s)
             read == Put(scan.read, s, f)
             data == IF disk[s].kind = "none" THEN RenderDraft(f)
                     ELSE MergeSemantics(RenderDraft(f), disk[s].entries)
             failed(parsed) == scan.errors \/ ~parsed \/ (scan.gorm /\ CrossCheckFails(s))
<1>2. PICK parsed \in BOOLEAN :
         scan' = [scan EXCEPT !.stage = "truncate", !.read = read, !.errors = failed(parsed),
                              !.data = data]
  BY Zenon DEF Collect
<1>. DEFINE bad == failed(parsed)
<1>10. bad \in BOOLEAN /\ (~bad => ~scan.errors /\ (scan.gorm => ~CrossCheckFails(s)))
  <2>1. scan.errors \in BOOLEAN
    BY <1>1 DEF Checked
  <2>. QED  BY <2>1, Zenon
<1>11. scan' = [scan EXCEPT !.stage = "truncate", !.read = read, !.errors = bad, !.data = data]
  BY <1>2
<1>12. /\ DOMAIN read = {s} \cup DOMAIN scan.read /\ read[s] = f
       /\ \A t \in DOMAIN scan.read \ {s} : read[t] = scan.read[t]
  BY DEF Put
<1>. HIDE DEF f, read, data, failed, bad
<1>3. /\ scan'.stage = "truncate" /\ scan'.todo = scan.todo /\ scan'.listed = scan.listed
      /\ scan'.full = scan.full /\ scan'.gorm = scan.gorm
      /\ scan'.read = read /\ scan'.errors = bad
  BY <1>11 DEF IInv, Shapes
<1>4. /\ DOMAIN scan'.read = {s} \cup DOMAIN scan.read
      /\ scan'.read[s] = f
      /\ \A t \in DOMAIN scan.read \ {s} : scan'.read[t] = scan.read[t]
  BY <1>3, <1>12
<1>5. s \in Range(scan.todo)
  BY <1>1, RangeOfTail DEF IInv, Shapes
<1>6. Planned'
  BY <1>1, <1>3, <1>4, <1>5 DEF Planned
<1>7. Checked'
  <2>1. scan'.errors \in BOOLEAN
    BY <1>3, <1>10
  <2>2. ASSUME NEW t \in DOMAIN scan'.read, ~scan'.listed[t] PROVE scan'.read[t] = <<>>
    <3>1. CASE t = s
      BY <1>3, <1>4, <2>2, <3>1 DEF f, StructureFor
    <3>2. CASE t # s
      BY <1>1, <1>3, <1>4, <2>2, <3>2 DEF Checked
    <3> QED BY <3>1, <3>2
  <2>3. ASSUME scan'.gorm, ~scan'.errors, NEW t \in DOMAIN scan'.read, scan'.listed[t]
        PROVE  Model[t] \subseteq DOMAIN scan'.read[t]
    <3>1. ~scan.errors /\ scan.gorm /\ ~CrossCheckFails(s)
      BY <1>3, <1>10, <2>3
    <3>2. CASE t = s
      BY <1>3, <1>4, <2>3, <3>1, <3>2 DEF CrossCheckFails, f, StructureFor
    <3>3. CASE t # s
      BY <1>1, <1>3, <1>4, <2>3, <3>1, <3>3 DEF Checked
    <3> QED BY <3>2, <3>3
  <2> QED BY <2>1, <2>2, <2>3 DEF Checked
<1>8. Merging'
  BY <1>1, <1>3, <1>4, CollectTypes DEF Merging, Mergeable, f
<1>9. Written'
  BY <1>1, <1>3, <1>4 DEF Written, Writing
<1> QED BY <1>6, <1>7, <1>8, <1>9 DEF Tracked

LEMMA TruncateTracked == ASSUME IInv, Tracked, Truncate PROVE Tracked'
<1> DEFINE s == Head(scan.todo)
<1>1. /\ s \in Service /\ s \in DOMAIN scan.read /\ scan.stage # "idle" /\ Writing
      /\ \A t \in Service \ {s} : disk'[t] = disk[t]
  BY HeadLeaves DEF Writes
<1>2. Planned /\ Checked /\ Merging /\ Written
  BY <1>1 DEF Tracked
<1>3. /\ scan'.stage = "fill" /\ scan'.todo = scan.todo /\ scan'.listed = scan.listed
      /\ scan'.full = scan.full /\ scan'.gorm = scan.gorm /\ scan'.read = scan.read
      /\ scan'.errors = scan.errors /\ scan'.data = scan.data
  BY DEF Truncate, IInv, Shapes
<1>5. Planned' /\ Checked'
  BY <1>2, <1>3 DEF Planned, Checked
<1>4. disk'[s].kind = "torn"
  <2>1. disk' = [disk EXCEPT ![s] = Torn] /\ disk \in [Service -> File]
    BY DEF Truncate, IInv, Shapes
  <2> QED BY <1>1, <2>1, Constant
<1>6. Merging'
  BY <1>1, <1>2, <1>3, <1>4 DEF Merging, Writing
<1>7. Written'
  <2> SUFFICES ASSUME NEW t \in DOMAIN scan.read, t # s
               PROVE  disk'[t].kind = "draft" /\ TypesOf(disk'[t].entries) = scan.read[t]
    BY <1>3 DEF Written, Writing
  <2>1. t \in Service
    BY <1>2 DEF Planned
  <2> QED BY <1>1, <1>2, <2>1 DEF Written
<1> QED BY <1>5, <1>6, <1>7 DEF Tracked

LEMMA FillTracked == ASSUME IInv, Tracked, Fill PROVE Tracked'
<1> DEFINE s == Head(scan.todo)
<1>1. /\ s \in Service /\ s \in DOMAIN scan.read /\ scan.stage # "idle" /\ Writing
      /\ \A t \in Service \ {s} : disk'[t] = disk[t]
  BY HeadLeaves DEF Writes
<1>2. Planned /\ Checked /\ Merging /\ Written
  BY <1>1 DEF Tracked
<1>3. /\ scan'.stage = "collect" /\ scan'.todo = Tail(scan.todo) /\ scan'.listed = scan.listed
      /\ scan'.full = scan.full /\ scan'.gorm = scan.gorm /\ scan'.read = scan.read
      /\ scan'.errors = scan.errors
  BY DEF Fill, IInv, Shapes
<1>4. disk'[s].kind = "draft" /\ disk'[s].entries = scan.data
  <2>1. disk' = [disk EXCEPT ![s] = Draft(s, scan.data)] /\ disk \in [Service -> File]
    BY DEF Fill, IInv, Shapes
  <2>2. disk'[s] = Draft(s, scan.data)
    BY <1>1, <2>1
  <2> QED BY <2>2 DEF Draft
<1>5. Range(scan.todo) = {s} \cup Range(Tail(scan.todo))
  BY <1>1, RangeOfTail DEF IInv, Shapes
<1>6. Planned' /\ Checked'
  BY <1>1, <1>2, <1>3, <1>5 DEF Planned, Checked
<1>7. Merging'
  BY <1>3 DEF Merging, Writing
<1>8. Written'
  <2> SUFFICES ASSUME NEW t \in DOMAIN scan.read
               PROVE  disk'[t].kind = "draft" /\ TypesOf(disk'[t].entries) = scan.read[t]
    BY <1>3 DEF Written
  <2>1. t \in Service
    BY <1>2 DEF Planned
  <2>2. CASE t = s
    BY <1>1, <1>2, <1>4, <2>2 DEF Merging
  <2>3. CASE t # s
    BY <1>1, <1>2, <2>1, <2>3 DEF Written
  <2> QED BY <2>2, <2>3
<1> QED BY <1>6, <1>7, <1>8 DEF Tracked

LEMMA ReconcileTracked == ASSUME IInv, Tracked, Reconcile PROVE Tracked'
<1>1. PICK s \in Unlisted : disk' = [disk EXCEPT ![s] = NoFile]
  BY DEF Reconcile, Forget
<1>2. s \in Service /\ s \notin DOMAIN scan.listed /\ disk \in [Service -> File]
  BY DEF Unlisted, Files, IInv, Shapes
<1>3. /\ scan' = scan /\ scan.stage = "collect" /\ ~Writing
      /\ Planned /\ Checked /\ Written
  BY DEF Reconcile, Tracked, Writing
<1>4. Planned' /\ Checked' /\ Merging'
  BY <1>3 DEF Planned, Checked, Merging, Writing
<1>5. Written'
  <2>1. \A t \in DOMAIN scan.read : t \in Service /\ disk'[t] = disk[t]
    BY <1>1, <1>2, <1>3 DEF Planned
  <2> QED BY <1>3, <2>1 DEF Written
<1> QED BY <1>4, <1>5 DEF Tracked

LEMMA NextTracked == IInv /\ Tracked /\ [Next]_vars => Tracked'
<1> SUFFICES ASSUME IInv, Tracked, [Next]_vars PROVE Tracked'
  OBVIOUS
<1>1. ASSUME NEW s \in Service, Develop(s) \/ List(s) PROVE Tracked'
  BY <1>1, StillTracked DEF Develop, List, Act
<1>2. ASSUME NEW s \in Service, Discard(s) PROVE Tracked'
  BY <1>2 DEF Discard, Act, Tracked
<1>3. CASE Refuse \/ FillFails \/ Fails \/ Crash \/ Finish
  BY <1>3, EndTracked DEF Refuse, FillFails, CutOff, Fails, Crash, Finish, Leave
<1>4. CASE UNCHANGED vars
  BY <1>4, StillTracked DEF vars
<1>5. ASSUME NEW gorm \in BOOLEAN, ScanAll(gorm) PROVE Tracked'
  BY <1>5, BeginTracked
<1>6. ASSUME NEW gorm \in BOOLEAN, NEW s \in Service, ScanOne(s, gorm) PROVE Tracked'
  BY <1>6, BeginTracked
<1>7. ASSUME NEW s \in Service, Edits(s) PROVE Tracked'
  BY <1>7, EditTracked
<1> QED BY <1>1, <1>2, <1>3, <1>4, <1>5, <1>6, <1>7,
           CollectTracked, TruncateTracked, FillTracked, ReconcileTracked DEF Next, Edits

\* Edits are counted, so that an edit is a step a scan does not take.
Counted == edits \in Nat

LEMMA NextCounted == Counted /\ [Next]_vars => Counted'
<1> SUFFICES ASSUME Counted, [Next]_vars PROVE edits' = edits \/ edits' = edits + 1
  BY DEF Counted
<1>1. ASSUME NEW gorm \in BOOLEAN, ScanAll(gorm) \/ \E s \in Service : ScanOne(s, gorm)
      PROVE  edits' = edits
  BY <1>1, Zenon DEF ScanAll, ScanOne, Begin, Steady, Silent
<1>2. CASE Collect \/ Refuse \/ Truncate \/ Fill \/ FillFails \/ Fails \/ Crash \/ Reconcile \/ Finish
  BY <1>2, Zenon DEF Collect, Refuse, Truncate, Fill, FillFails, CutOff, Fails, Crash, Reconcile,
                     Finish, Leave, Steady, Silent
<1>3. ASSUME NEW s \in Service, Develop(s) \/ List(s) \/ Discard(s) \/ Edits(s)
      PROVE  edits' = edits + 1
  BY <1>3, Zenon DEF Develop, List, Discard, Edits, Annotate, Rename, MarkTime, Describe, Act
<1>4. CASE UNCHANGED vars
  BY <1>4 DEF vars
<1> QED BY <1>1, <1>2, <1>3, <1>4 DEF Next, Edits

LEMMA Tracking == Spec => [](IInv /\ Tracked /\ Counted)
<1>1. Init => Tracked /\ Counted
  BY IdleIs DEF Init, Tracked, Counted
<1> QED BY <1>1, InitIInv, NextStep, NextTracked, NextCounted, PTL DEF Spec

-----------------------------------------------------------------------------
(* What a step may do to the drafts.                                        *)

LEMMA DiskSteps ==
    ASSUME Next
    PROVE  \/ UNCHANGED disk
           \/ \E s \in Service : Edits(s)
           \/ scan.stage = "idle" /\ edits' = edits + 1
           \/ Writes
           \/ Reconcile
<1>1. ASSUME NEW s \in Service, Develop(s) \/ List(s) PROVE UNCHANGED disk
  BY <1>1 DEF Develop, List
<1>2. ASSUME NEW s \in Service, Discard(s) PROVE scan.stage = "idle" /\ edits' = edits + 1
  BY <1>2 DEF Discard, Act
<1>3. ASSUME NEW gorm \in BOOLEAN, ScanAll(gorm) \/ \E s \in Service : ScanOne(s, gorm)
      PROVE  UNCHANGED disk
  BY <1>3, Zenon DEF ScanAll, ScanOne, Begin
<1>4. CASE Collect \/ Refuse \/ Fails \/ Finish
  BY <1>4, Zenon DEF Collect, Refuse, Fails, Finish, Leave
<1>5. CASE FillFails \/ Crash
  BY <1>5, Zenon DEF FillFails, Crash, Leave, Writes
<1> QED BY <1>1, <1>2, <1>3, <1>4, <1>5 DEF Next, Edits, Writes

\* A file no scan may write over.
Kept(s) ==
    \/ disk[s].kind = "torn" /\ ~Filling(s)
    \/ disk[s].kind = "draft" /\ (disk[s].foreign \/ disk[s].service # s)

LEMMA KeptStays ==
    ASSUME IInv, Tracked, Counted, Next, NEW s \in Service, Kept(s), disk'[s] # disk[s]
    PROVE  \/ edits' # edits
           \/ scan.full /\ s \notin DOMAIN scan.listed /\ disk'[s] = NoFile
<1>1. ASSUME NEW t \in Service, Edits(t) PROVE edits' # edits
  BY <1>1, EditLeaves DEF Counted
<1>2. ASSUME scan.stage = "idle", edits' = edits + 1 PROVE edits' # edits
  BY <1>2 DEF Counted
<1>3. CASE Writes
  <2>1. s = Head(scan.todo) /\ (Mergeable(s) \/ Filling(s))
    BY <1>3, HeadLeaves
  <2>2. Filling(s) => disk[s].kind = "torn"
    BY <2>1 DEF Tracked, Merging, Writing, Filling
  <2> QED BY <2>1, <2>2 DEF Kept, Mergeable
<1>4. CASE Reconcile
  <2>1. PICK t \in Unlisted : disk' = [disk EXCEPT ![t] = NoFile]
    BY <1>4 DEF Reconcile, Forget
  <2>2. scan.full /\ disk \in [Service -> File] /\ t \in Service /\ t \notin DOMAIN scan.listed
    BY <1>4 DEF Reconcile, IInv, Shapes, Unlisted, Files
  <2>3. disk'[t] = NoFile /\ \A u \in Service \ {t} : disk'[u] = disk[u]
    BY <2>1, <2>2
  <2> QED BY <2>2, <2>3
<1> QED BY <1>1, <1>2, <1>3, <1>4, DiskSteps

LEMMA OthersStay ==
    ASSUME IInv, Tracked, Next, scan.stage # "idle", ~scan.full,
           NEW s \in Files \ DOMAIN scan.read
    PROVE  disk'[s].kind = disk[s].kind /\ DOMAIN disk'[s].entries = DOMAIN disk[s].entries
<1>1. s \in Service
  BY DEF Files
<1>2. ASSUME NEW t \in Service, Edits(t)
      PROVE  disk'[s].kind = disk[s].kind /\ DOMAIN disk'[s].entries = DOMAIN disk[s].entries
  BY <1>1, <1>2, EditLeaves DEF EditLeavesAll
<1>3. CASE Writes
  <2>1. disk'[s] = disk[s]
    BY <1>1, <1>3, HeadLeaves
  <2> QED BY <2>1
<1>4. ~Reconcile
  BY DEF Reconcile
<1> QED BY <1>2, <1>3, <1>4, DiskSteps

\* Exit code 0 comes from Finish, with all three gates passed.
LEMMA CleanExit ==
    ASSUME IInv, Next, exit' = "0", exit # "0"
    PROVE  Finish /\ ~scan.errors /\ CheckCompile
<1>1. ASSUME NEW s \in Service, Develop(s) \/ List(s) \/ Discard(s) \/ Edits(s)
      PROVE  FALSE
  BY <1>1, EditLeaves DEF Develop, List, Discard, Act
<1>2. ASSUME NEW gorm \in BOOLEAN, ScanAll(gorm) \/ \E s \in Service : ScanOne(s, gorm)
      PROVE  FALSE
  <2>1. \E targets, full : Begin(targets, full, gorm)
    BY <1>2, Zenon DEF ScanAll, ScanOne
  <2>2. exit' \in {"1", "none"}
    BY <2>1, Zenon DEF Begin
  <2> QED BY <2>2
<1>3. CASE Collect \/ Truncate \/ Fill \/ Reconcile
  BY <1>3, Zenon DEF Collect, Truncate, Fill, Reconcile
<1>4. CASE Refuse \/ FillFails \/ Fails \/ Crash
  BY <1>4 DEF Refuse, FillFails, CutOff, Fails, Crash, Leave
<1>5. ASSUME Finish PROVE ~scan.errors /\ CheckCompile
  BY <1>5 DEF Finish, Leave
<1> QED BY <1>1, <1>2, <1>3, <1>4, <1>5 DEF Next, Edits

\* What a clean exit says of the drafts this scan wrote, and of the directory.
CurrentDrafts ==
    \A s \in DOMAIN scan.read :
        /\ [e \in DOMAIN disk[s].entries |-> disk[s].entries[e].type] = scan.read[s]
        /\ ~scan.listed[s] => scan.read[s] = <<>>
        /\ scan.listed[s] /\ scan.gorm => Model[s] \subseteq DOMAIN scan.read[s]

CompilesTogether ==
    \A s \in Files :
        /\ disk[s].kind = "draft" /\ ~disk[s].foreign
        /\ DOMAIN disk[s].entries \cap Uncompilable = {}
        /\ \A t \in Files \ {s} : disk[t].service # disk[s].service

LEMMA CleanIsCurrent ==
    ASSUME IInv, Tracked, Finish, ~scan.errors, CheckCompile
    PROVE  CurrentDrafts /\ CompilesTogether /\ (scan.full => Files = DOMAIN scan.listed)
<1>1. /\ scan.stage = "collect" /\ scan.todo = <<>> /\ (scan.full => Unlisted = {})
      /\ ~Writing /\ Planned /\ Checked /\ Written
  BY DEF Finish, Tracked, Writing
<1>2. CurrentDrafts
  <2> SUFFICES ASSUME NEW s \in DOMAIN scan.read
               PROVE  /\ TypesOf(disk[s].entries) = scan.read[s]
                      /\ ~scan.listed[s] => scan.read[s] = <<>>
                      /\ scan.listed[s] /\ scan.gorm => Model[s] \subseteq DOMAIN scan.read[s]
    BY DEF CurrentDrafts, TypesOf
  <2>1. TypesOf(disk[s].entries) = scan.read[s]
    BY <1>1 DEF Written
  <2> QED BY <1>1, <2>1 DEF Checked
<1>3. CompilesTogether
  BY DEF CompilesTogether, CheckCompile
<1>4. ASSUME scan.full PROVE Files = DOMAIN scan.listed
  <2>1. Files \subseteq DOMAIN scan.listed
    BY <1>1, <1>4 DEF Unlisted
  <2>2. Range(scan.todo) = {}
    BY <1>1 DEF Range
  <2>3. ASSUME NEW s \in DOMAIN scan.listed PROVE s \in Files
    <3>1. s \in DOMAIN scan.read /\ s \in Service
      BY <1>1, <1>4, <2>2 DEF Planned
    <3>2. disk[s].kind = "draft"
      BY <1>1, <3>1 DEF Written
    <3> QED BY <3>1, <3>2 DEF Files
  <2> QED BY <2>1, <2>3
<1> QED BY <1>2, <1>3, <1>4

\* A file that is cut, that has fields the collector does not know or that says it
\* is another service's is never written over, and a scan of one service leaves
\* the drafts of the others alone, for any number of services, edits and faults
\* (draft.go: parseDraftStrict, MergeSemantics; collect.go: Collect).
THEOREM ScansStayInTheirLane == Spec => UntouchedStays
<1>1. IInv /\ Tracked /\ Counted /\ [Next]_vars =>
        [/\ \A s \in Service :
              /\ \/ disk[s].kind = "torn" /\ ~Filling(s)
                 \/ disk[s].kind = "draft" /\ (disk[s].foreign \/ disk[s].service # s)
              /\ disk'[s] # disk[s]
              => \/ edits' # edits
                 \/ scan.full /\ s \notin DOMAIN scan.listed /\ disk'[s] = NoFile
         /\ scan.stage # "idle" /\ ~scan.full =>
              \A s \in Files \ DOMAIN scan.read :
                  /\ disk'[s].kind = disk[s].kind
                  /\ DOMAIN disk'[s].entries = DOMAIN disk[s].entries]_vars
  BY KeptStays, OthersStay DEF Kept
<1> QED BY <1>1, Tracking, PTL DEF Spec, UntouchedStays

\* A clean exit means current drafts: the structure each service had when it was
\* read, every model element, files that compile together, and after a full scan
\* a draft for exactly the services listed (cmd/dgw-collect: cmdScan).
THEOREM CleanExitIsTrue == Spec => CleanExitMeansCurrent
<1>1. IInv /\ Tracked /\ Counted /\ [Next]_vars =>
        [exit' = "0" /\ exit # "0" =>
          /\ CurrentDrafts
          /\ CompilesTogether
          /\ scan.full => Files = DOMAIN scan.listed]_vars
  BY CleanExit, CleanIsCurrent
<1> QED BY <1>1, Tracking, PTL DEF Spec, CleanExitMeansCurrent, CurrentDrafts, CompilesTogether
=============================================================================

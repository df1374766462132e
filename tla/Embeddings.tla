----------------------------- MODULE Embeddings -----------------------------
(***************************************************************************)
(* Vectors beside the semantic tables (internal/semantic/embed.go,         *)
(* internal/store/store.go, cmd/dgw/main.go cmdSemanticSync): after its    *)
(* commit a semantic-sync command asks an embedding service for vectors,   *)
(* stores them in dgw_sem_embeddings and in the search index dgw_sem_vec,  *)
(* and rebuilds the index when its dimension is another.  None of this may *)
(* fail the command: every error is logged and passed over.                *)
(*                                                                         *)
(* One semantic-sync runs at a time (ADR-0005, one writer); a gateway may  *)
(* open the store, and so fill the index, at any moment.                   *)
(***************************************************************************)
EXTENDS Naturals, FiniteSets, FiniteSetsExt

CONSTANTS
    Fqn,          \* entities
    Text,         \* what an entity's vector is computed from
    Model,        \* embedding models
    Dim,          \* [Model -> the length of its vectors]
    DefaultDim    \* DefaultVectorDim, the length the schema creates

ASSUME DimAssumption ==
    Dim \in [Model -> Nat \ {0}] /\ DefaultDim \in Nat \ {0}

\* The commands count rows.
ASSUME FqnAssumption == IsFiniteSet(Fqn)

Gone == "gone"      \* the text of an entity that is not live
NoKey == "no key"   \* the model of a command without DGW_OPENAI_API_KEY

Vector == [fqn : Fqn, model : Model, text : Text]
Opener == {"sync", "gateway"}

VARIABLES
    text,      \* dgw_sem_entities: [Fqn -> Text \cup {Gone}]
    emb,       \* dgw_sem_embeddings: a set of vectors
    vec,       \* dgw_sem_vec: [dim, rows]; dim = 0 when the table is missing
    open,      \* [Opener -> how far it is in Open]
    sync,      \* the semantic-sync command
    perfect    \* history: every command so far had a key and met no error

vars == <<text, emb, vec, open, sync, perfect>>

Live == {f \in Fqn : text[f] # Gone}
Embedded == {e.fqn : e \in emb}
OfDim(dim) == {e \in emb : Dim[e.model] = dim}
Indexed == {r.fqn : r \in vec.rows}
VectorOf(f, model) == [fqn |-> f, model |-> model, text |-> text[f]]

NoTable == [dim |-> 0, rows |-> {}]
Closed == [pc |-> "closed", dim |-> 0]

Idle == [pc |-> "idle", model |-> NoKey, changed |-> {}, deleted |-> {},
         goal |-> 0, next |-> "idle", clean |-> FALSE]

\* A new store, or one from before the index whose live entities all have
\* vectors of one model.
Init ==
    /\ \E model \in Model :
          /\ text \in [Fqn -> Text \cup {Gone}]
          /\ emb = {VectorOf(f, model) : f \in Live}
    /\ vec = NoTable
    /\ open = [p \in Opener |-> Closed]
    /\ sync = Idle
    /\ perfect = TRUE

-----------------------------------------------------------------------------
(* Open: ensureSchema creates a missing index and fills in what it lacks,  *)
(* in statements of their own.                                             *)

StartSync ==
    /\ sync.pc = "idle"
    /\ sync' = [Idle EXCEPT !.pc = "open", !.clean = TRUE]
    /\ open' = [open EXCEPT !["sync"].pc = "create"]
    /\ UNCHANGED <<text, emb, vec, perfect>>

StartGateway ==
    /\ open["gateway"] = Closed
    /\ open' = [open EXCEPT !["gateway"].pc = "create"]
    /\ UNCHANGED <<text, emb, vec, sync, perfect>>

CreateIfMissing(p) ==
    /\ open[p].pc = "create"
    /\ vec' = IF vec.dim = 0 THEN [dim |-> DefaultDim, rows |-> {}] ELSE vec
    /\ open' = [open EXCEPT ![p].pc = "dim"]
    /\ UNCHANGED <<text, emb, sync, perfect>>

\* Opening has ended: the command goes on, or exits.
Opened(p, pc) ==
    /\ open' = [open EXCEPT ![p] = Closed]
    /\ sync' = IF p = "sync" THEN [sync EXCEPT !.pc = pc, !.clean = @ /\ pc # "idle"]
                             ELSE sync

ReadDim(p) ==
    /\ open[p].pc = "dim"
    /\ IF vec.dim = 0
       THEN Opened(p, "idle")
       ELSE /\ open' = [open EXCEPT ![p] = [pc |-> "fill", dim |-> vec.dim]]
            /\ UNCHANGED sync
    /\ UNCHANGED <<text, emb, vec, perfect>>

\* Seeded fault: a store that has vectors already is not backfilled.
FillMissing_Never(p) ==
    /\ open[p].pc = "fill"
    /\ Opened(p, "commit")
    /\ UNCHANGED <<text, emb, vec, perfect>>

\* INSERT ... SELECT of the vectors of the length read before that have no
\* row; the table takes rows of its own length only.
FillMissing(p) ==
    /\ open[p].pc = "fill"
    /\ LET lacking == {e \in OfDim(open[p].dim) : e.fqn \notin Indexed}
       IN  IF vec.dim = 0 \/ (vec.dim # open[p].dim /\ lacking # {})
           THEN Opened(p, "idle") /\ UNCHANGED vec
           ELSE Opened(p, "commit") /\ vec' = [vec EXCEPT !.rows = @ \cup lacking]
    /\ UNCHANGED <<text, emb, perfect>>

-----------------------------------------------------------------------------
(* cmdSemanticSync after the commit.                                       *)

\* The transaction of SemanticSync, as far as vectors are concerned.
Commit ==
    /\ sync.pc = "commit"
    /\ \E new \in [Fqn -> Text \cup {Gone}], model \in Model \cup {NoKey} :
          /\ text' = new
          /\ perfect' = (perfect /\ model # NoKey)
          /\ sync' = [sync EXCEPT
                !.pc = IF model = NoKey THEN "index" ELSE "coverage",
                !.model = model,
                !.changed = {f \in Fqn : new[f] # Gone /\ new[f] # text[f]},
                !.deleted = {f \in Live : new[f] = Gone}]
    /\ UNCHANGED <<emb, vec, open>>

\* EmbeddingCoverage: two counts.
Missing == IF Cardinality(Live) > Cardinality(emb)
           THEN Cardinality(Live) - Cardinality(emb) ELSE 0
Mismatch == Cardinality({e \in emb : e.model # sync.model})

\* embeddingTarget: everything when vectors are missing or of another model
\* (or the counts fail), else what the commit changed; nothing when the
\* snapshot for everything fails.
Coverage ==
    /\ sync.pc = "coverage"
    /\ \/ /\ sync' = [sync EXCEPT !.pc = "embed",
                !.changed = IF Missing > 0 \/ Mismatch > 0 THEN Live ELSE @]
          /\ UNCHANGED perfect
       \/ /\ sync' = [sync EXCEPT !.pc = "embed", !.changed = Live, !.clean = FALSE]
          /\ perfect' = FALSE
       \/ /\ sync' = [sync EXCEPT !.pc = "embed", !.changed = {}, !.clean = FALSE]
          /\ perfect' = FALSE
    /\ UNCHANGED <<text, emb, vec, open>>

\* EnsureVecIndex: nothing to do at the right length, else DROP, CREATE and a
\* fill, each committed by itself.
Ensure(dim, next) ==
    sync' = IF vec.dim = dim THEN [sync EXCEPT !.pc = next]
            ELSE [sync EXCEPT !.pc = "drop", !.goal = dim, !.next = next]

\* EmbedEntityTexts, the service answering; SaveEmbeddings begins.
Embed ==
    /\ sync.pc = "embed"
    /\ IF sync.changed = {} THEN sync' = [sync EXCEPT !.pc = "remove"]
                            ELSE Ensure(Dim[sync.model], "save")
    /\ UNCHANGED <<text, emb, vec, open, perfect>>

\* Where the command goes on after an error in a statement of this pc.
AfterError ==
    CASE sync.pc \in {"embed", "save"} -> "remove"
      [] sync.pc \in {"drop", "create", "fill"} /\ sync.next = "save" -> "remove"
      [] sync.pc = "remove" -> "index"
      [] OTHER -> "idle"

Failed == /\ sync' = [sync EXCEPT !.pc = AfterError, !.clean = FALSE]
          /\ perfect' = FALSE
          /\ UNCHANGED <<text, emb, vec, open>>

Drop ==
    /\ sync.pc = "drop"
    /\ vec' = NoTable
    /\ sync' = [sync EXCEPT !.pc = "create"]
    /\ UNCHANGED <<text, emb, open, perfect>>

\* CREATE without IF NOT EXISTS.
Create ==
    /\ sync.pc = "create"
    /\ IF vec.dim # 0
       THEN Failed
       ELSE /\ vec' = [dim |-> sync.goal, rows |-> {}]
            /\ sync' = [sync EXCEPT !.pc = "fill"]
            /\ UNCHANGED <<text, emb, open, perfect>>

\* Plain INSERT ... SELECT: a row that is there already refuses the statement.
Fill ==
    /\ sync.pc = "fill"
    /\ IF \E e \in OfDim(sync.goal) : e.fqn \in Indexed
       THEN Failed
       ELSE /\ vec' = [vec EXCEPT !.rows = @ \cup OfDim(sync.goal)]
            /\ sync' = [sync EXCEPT !.pc = sync.next]
            /\ UNCHANGED <<text, emb, open, perfect>>

Without(vectors, fqns) == {e \in vectors : e.fqn \notin fqns}

\* Seeded fault: the old vector of the entity stays beside the new one.
Save_InsertOnly ==
    /\ sync.pc = "save"
    /\ IF vec.dim # Dim[sync.model]
       THEN Failed
       ELSE LET new == {VectorOf(f, sync.model) : f \in sync.changed}
            IN  /\ emb' = emb \cup new
                /\ vec' = [vec EXCEPT !.rows = Without(@, sync.changed) \cup new]
                /\ sync' = [sync EXCEPT !.pc = "remove"]
                /\ UNCHANGED <<text, open, perfect>>

\* The transaction of SaveEmbeddings: both tables, or neither.
Save ==
    /\ sync.pc = "save"
    /\ IF vec.dim # Dim[sync.model]
       THEN Failed
       ELSE LET new == {VectorOf(f, sync.model) : f \in sync.changed}
            IN  /\ emb' = Without(emb, sync.changed) \cup new
                /\ vec' = [vec EXCEPT !.rows = Without(@, sync.changed) \cup new]
                /\ sync' = [sync EXCEPT !.pc = "remove"]
                /\ UNCHANGED <<text, open, perfect>>

\* Seeded fault: the index keeps the vectors of buried entities.
Remove_TableOnly ==
    /\ sync.pc = "remove"
    /\ emb' = Without(emb, sync.deleted)
    /\ sync' = [sync EXCEPT !.pc = "index"]
    /\ UNCHANGED <<text, vec, open, perfect>>

\* RemoveEmbeddings of what the commit buried: both tables, or neither.
Remove ==
    /\ sync.pc = "remove"
    /\ IF sync.deleted # {} /\ vec.dim = 0
       THEN Failed
       ELSE /\ emb' = Without(emb, sync.deleted)
            /\ vec' = [vec EXCEPT !.rows = Without(@, sync.deleted)]
            /\ sync' = [sync EXCEPT !.pc = "index"]
            /\ UNCHANGED <<text, open, perfect>>

\* EnsureVecIndex(0): the length of the longest vector.
LongestDim == IF emb = {} THEN DefaultDim ELSE Max({Dim[e.model] : e \in emb})

EnsureIndex ==
    /\ sync.pc = "index"
    /\ Ensure(LongestDim, "idle")
    /\ UNCHANGED <<text, emb, vec, open, perfect>>

\* Any statement of the command, or the embedding service, fails.
Fault ==
    /\ sync.pc \in {"embed", "drop", "create", "fill", "save", "remove", "index"}
    /\ Failed

\* The command is killed, or fails before its commit.
Crash ==
    /\ sync.pc # "idle"
    /\ sync' = [sync EXCEPT !.pc = "idle", !.clean = FALSE]
    /\ perfect' = (perfect /\ sync.pc \in {"open", "commit"})
    /\ open' = [open EXCEPT !["sync"] = Closed]
    /\ UNCHANGED <<text, emb, vec>>

Next ==
    \/ StartSync
    \/ StartGateway
    \/ \E p \in Opener : CreateIfMissing(p) \/ ReadDim(p) \/ FillMissing(p)
    \/ Commit
    \/ Coverage
    \/ Embed
    \/ Drop
    \/ Create
    \/ Fill
    \/ Save
    \/ Remove
    \/ EnsureIndex
    \/ Fault
    \/ Crash

Spec == Init /\ [][Next]_vars

-----------------------------------------------------------------------------
Pc == {"idle", "open", "commit", "coverage", "embed", "drop", "create", "fill",
       "save", "remove", "index"}

TypeOK ==
    /\ text \in [Fqn -> Text \cup {Gone}]
    /\ emb \subseteq Vector
    /\ \A e, g \in emb : e.fqn = g.fqn => e = g
    /\ vec.rows \subseteq Vector
    /\ \A p \in Opener : open[p].pc \in {"closed", "create", "dim", "fill"}
    /\ sync.pc \in Pc
    /\ sync.model \in Model \cup {NoKey}
    /\ sync.changed \subseteq Fqn /\ sync.deleted \subseteq Fqn
    /\ sync.next \in {"idle", "save"}
    /\ sync.clean \in BOOLEAN /\ perfect \in BOOLEAN

\* Every row of the index is the stored vector of its entity, of the length
\* the index was made for: whatever fails or is killed in between, a search
\* never ranks by an outdated vector of the index, and never meets vectors of
\* two lengths (SaveEmbeddings, RemoveEmbeddings, ensureSchema).
IndexIsTrue ==
    vec.rows \subseteq emb /\ \A r \in vec.rows : Dim[r.model] = vec.dim

\* A command that met no error leaves every stored vector of the index's
\* length in the index, whatever earlier commands left undone and whoever
\* opened the store meanwhile (ensureSchema, EnsureVecIndex).  And while every
\* command had a key and met no error, exactly the live entities have vectors,
\* of their present text and the last command's model, and all of them are in
\* the index: through additions, changes, deletions and switches of the model
\* (embeddingTarget, main.go:529).
IndexIsWhole ==
    sync.pc = "idle" /\ sync.clean =>
        /\ vec.dim = LongestDim
        /\ vec.rows = OfDim(vec.dim)
        /\ perfect /\ sync.model # NoKey =>
              /\ emb = {VectorOf(f, sync.model) : f \in Live}
              /\ vec.rows = emb
              /\ emb # {} => vec.dim = Dim[sync.model]
=============================================================================

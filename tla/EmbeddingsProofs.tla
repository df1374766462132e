-------------------------- MODULE EmbeddingsProofs --------------------------
(***************************************************************************)
(* Proofs about Embeddings for every finite set of entities and every set  *)
(* of texts and models: the search index never holds a vector that is not  *)
(* the stored one, nor vectors of two lengths; and a command that met no   *)
(* error leaves it whole.                                                  *)
(***************************************************************************)
EXTENDS Embeddings, FiniteSetTheorems, WellFoundedInduction, TLAPS

\* The values are records: what EXCEPT needs to know.
Shapes ==
    /\ vec = [dim |-> vec.dim, rows |-> vec.rows]
    /\ open = [p \in Opener |-> [pc |-> open[p].pc, dim |-> open[p].dim]]
    /\ sync = [pc |-> sync.pc, model |-> sync.model, changed |-> sync.changed,
               deleted |-> sync.deleted, goal |-> sync.goal, next |-> sync.next,
               clean |-> sync.clean]

\* Vectors are only asked for with a key, and of live entities.
SavesVectors ==
    \/ sync.pc \in {"coverage", "embed", "save"}
    \/ sync.pc \in {"drop", "create", "fill"} /\ sync.next = "save"
    => sync.model \in Model /\ sync.changed \subseteq Live

\* Between CREATE and its fill nobody else changes the length of the index.
FillsItsOwn == sync.pc = "fill" => vec.dim = sync.goal \/ sync.goal = 0

IInv ==
    /\ TypeOK
    /\ Shapes
    /\ IndexIsTrue
    /\ SavesVectors
    /\ FillsItsOwn

\* A stored vector of a new text keeps its shape.
LEMMA NewVectors ==
    ASSUME IInv, sync.model \in Model, sync.changed \subseteq Live
    PROVE  \A f \in sync.changed : VectorOf(f, sync.model) \in Vector
BY DEF IInv, TypeOK, Live, VectorOf, Vector

LEMMA InitIInv == Init => IInv
<1> SUFFICES ASSUME Init  PROVE IInv
  OBVIOUS
<1>1. PICK model \in Model : /\ text \in [Fqn -> Text \cup {Gone}]
                            /\ emb = {VectorOf(f, model) : f \in Live}
  BY DEF Init
<1>2. emb \subseteq Vector /\ \A e, g \in emb : e.fqn = g.fqn => e = g
  BY <1>1 DEF VectorOf, Vector, Live
<1>3. vec = NoTable /\ sync = Idle /\ open = [p \in Opener |-> Closed] /\ perfect = TRUE
  BY DEF Init
<1>4. TypeOK
  BY <1>1, <1>2, <1>3 DEF TypeOK, NoTable, Idle, Closed, Pc
<1> QED BY <1>3, <1>4 DEF IInv, Shapes, IndexIsTrue, SavesVectors, FillsItsOwn, NoTable,
                         Idle, Closed

\* A failed statement changes nothing but the command's place.
LEMMA FailedStep ==
    ASSUME IInv, Failed, sync.pc \in {"embed", "drop", "create", "fill", "save", "remove", "index"}
    PROVE  IInv'
<1>1. AfterError \in {"remove", "index", "idle"}
  BY DEF AfterError
<1>2. sync' = [sync EXCEPT !.pc = AfterError, !.clean = FALSE]
      /\ perfect' = FALSE /\ UNCHANGED <<text, emb, vec, open>>
  BY DEF Failed
<1>3. /\ sync'.pc = AfterError /\ sync'.clean = FALSE
      /\ sync'.model = sync.model /\ sync'.changed = sync.changed
      /\ sync'.deleted = sync.deleted /\ sync'.next = sync.next
  BY <1>2 DEF IInv, Shapes
<1>4. TypeOK'
  BY <1>1, <1>2, <1>3 DEF IInv, TypeOK, Pc
<1>5. Shapes'
  BY <1>2 DEF IInv, Shapes
<1> QED BY <1>1, <1>2, <1>3, <1>4, <1>5 DEF IInv, IndexIsTrue, SavesVectors, FillsItsOwn

\* Only an opener's place in Open moves.
LEMMA OpenStep ==
    ASSUME IInv, NEW p \in Opener, NEW place \in {"closed", "create", "dim", "fill"}, NEW dim,
           open' = [open EXCEPT ![p] = [pc |-> place, dim |-> dim]]
    PROVE  /\ \A q \in Opener : open'[q].pc \in {"closed", "create", "dim", "fill"}
           /\ open' = [q \in Opener |-> [pc |-> open'[q].pc, dim |-> open'[q].dim]]
<1>1. open' = [q \in Opener |-> IF q = p THEN [pc |-> place, dim |-> dim] ELSE open[q]]
  BY DEF IInv, Shapes
<1>2. \A q \in Opener : open[q] = [pc |-> open[q].pc, dim |-> open[q].dim]
  BY DEF IInv, Shapes
<1>3. \A q \in Opener : open[q].pc \in {"closed", "create", "dim", "fill"}
  BY DEF IInv, TypeOK
<1>4. \A q \in Opener : open'[q] = IF q = p THEN [pc |-> place, dim |-> dim] ELSE open[q]
  BY <1>1
<1>5. \A q \in Opener : open'[q] = [pc |-> open'[q].pc, dim |-> open'[q].dim]
  BY <1>2, <1>4
<1>6. \A q \in Opener : open'[q].pc \in {"closed", "create", "dim", "fill"}
  BY <1>3, <1>4
<1> QED BY <1>1, <1>4, <1>5, <1>6

\* An EXCEPT of the place is an EXCEPT of the record.
LEMMA PlaceStep ==
    ASSUME IInv, NEW p \in Opener, NEW place, open' = [open EXCEPT ![p].pc = place]
    PROVE  open' = [open EXCEPT ![p] = [pc |-> place, dim |-> open[p].dim]]
<1>1. open[p] = [pc |-> open[p].pc, dim |-> open[p].dim]
  BY DEF IInv, Shapes
<1>2. [open[p] EXCEPT !.pc = place] = [pc |-> place, dim |-> open[p].dim]
  BY <1>1
<1>3. open' = [open EXCEPT ![p] = [open[p] EXCEPT !.pc = place]]
  OBVIOUS
<1> QED BY <1>2, <1>3

\* The command at most leaves Open: no vector is asked for yet.
LEMMA OpenedStep ==
    ASSUME IInv, NEW p \in Opener, NEW pc \in {"idle", "commit"}, Opened(p, pc),
           UNCHANGED <<text, emb, perfect>>,
           vec' = [dim |-> vec'.dim, rows |-> vec'.rows], vec'.dim = vec.dim,
           vec'.rows \subseteq Vector, IndexIsTrue'
    PROVE  IInv'
<1>1. open' = [open EXCEPT ![p] = [pc |-> "closed", dim |-> 0]]
  BY DEF Opened, Closed
<1>2. /\ \A q \in Opener : open'[q].pc \in {"closed", "create", "dim", "fill"}
      /\ open' = [q \in Opener |-> [pc |-> open'[q].pc, dim |-> open'[q].dim]]
  BY <1>1, OpenStep
<1>3. CASE p = "sync"
  <2>1. sync' = [sync EXCEPT !.pc = pc, !.clean = @ /\ pc # "idle"]
    BY <1>3 DEF Opened
  <2>2. /\ sync'.pc = pc /\ sync'.clean \in BOOLEAN
        /\ sync'.model = sync.model /\ sync'.changed = sync.changed
        /\ sync'.deleted = sync.deleted /\ sync'.next = sync.next
    BY <2>1 DEF IInv, Shapes, TypeOK
  <2>3. TypeOK'
    BY <1>2, <2>2 DEF IInv, TypeOK, Pc
  <2>4. Shapes'
    BY <1>2, <2>1 DEF IInv, Shapes
  <2> QED BY <2>2, <2>3, <2>4 DEF IInv, SavesVectors, FillsItsOwn
<1>4. CASE p # "sync"
  <2>1. sync' = sync
    BY <1>4 DEF Opened
  <2>2. TypeOK'
    BY <1>2, <2>1 DEF IInv, TypeOK
  <2>3. Shapes'
    BY <1>2, <2>1 DEF IInv, Shapes
  <2> QED BY <2>1, <2>2, <2>3 DEF IInv, SavesVectors, FillsItsOwn, Live
<1> QED BY <1>3, <1>4

\* Create a missing index while opening: only an empty one appears.
LEMMA CreateIfMissingStep ==
    ASSUME IInv, NEW p \in Opener, CreateIfMissing(p)
    PROVE  IInv'
<1>1. /\ open' = [open EXCEPT ![p].pc = "dim"]
      /\ vec' = IF vec.dim = 0 THEN [dim |-> DefaultDim, rows |-> {}] ELSE vec
      /\ UNCHANGED <<text, emb, sync, perfect>>
  BY DEF CreateIfMissing
<1>2. open' = [open EXCEPT ![p] = [pc |-> "dim", dim |-> open[p].dim]]
  BY <1>1, PlaceStep
<1>3. /\ \A q \in Opener : open'[q].pc \in {"closed", "create", "dim", "fill"}
      /\ open' = [q \in Opener |-> [pc |-> open'[q].pc, dim |-> open'[q].dim]]
  BY <1>2, OpenStep
<1>4. vec' = [dim |-> vec'.dim, rows |-> vec'.rows] /\ vec'.rows \subseteq vec.rows
  <2>1. CASE vec.dim = 0
    BY <1>1, <2>1
  <2>2. CASE vec.dim # 0
    BY <1>1, <2>2 DEF IInv, Shapes
  <2> QED BY <2>1, <2>2
<1>5. vec.dim # 0 => vec' = vec
  BY <1>1
<1>6. vec.dim = 0 => vec'.rows = {}
  BY <1>1
<1>7. TypeOK'
  BY <1>1, <1>3, <1>4 DEF IInv, TypeOK
<1>8. Shapes'
  BY <1>1, <1>3, <1>4 DEF IInv, Shapes
<1>9. IndexIsTrue'
  BY <1>1, <1>5, <1>6 DEF IInv, IndexIsTrue
<1>10. FillsItsOwn'
  BY <1>1, <1>5 DEF IInv, FillsItsOwn
<1> QED BY <1>1, <1>7, <1>8, <1>9, <1>10 DEF IInv, SavesVectors, Live

\* The length is read apart from what is done with it.
LEMMA ReadDimStep ==
    ASSUME IInv, NEW p \in Opener, ReadDim(p)
    PROVE  IInv'
<1>1. UNCHANGED <<text, emb, vec, perfect>>
  BY DEF ReadDim
<1>2. CASE vec.dim = 0
  <2>1. Opened(p, "idle")
    BY <1>2 DEF ReadDim
  <2>2. IndexIsTrue' /\ vec'.rows \subseteq Vector
    BY <1>1 DEF IInv, IndexIsTrue, TypeOK
  <2>3. vec' = [dim |-> vec'.dim, rows |-> vec'.rows] /\ vec'.dim = vec.dim
    BY <1>1 DEF IInv, Shapes
  <2> QED BY <1>1, <2>1, <2>2, <2>3, OpenedStep
<1>3. CASE vec.dim # 0
  <2>1. open' = [open EXCEPT ![p] = [pc |-> "fill", dim |-> vec.dim]] /\ sync' = sync
    BY <1>3 DEF ReadDim
  <2>2. /\ \A q \in Opener : open'[q].pc \in {"closed", "create", "dim", "fill"}
        /\ open' = [q \in Opener |-> [pc |-> open'[q].pc, dim |-> open'[q].dim]]
    BY <2>1, OpenStep
  <2>3. TypeOK'
    BY <1>1, <2>1, <2>2 DEF IInv, TypeOK
  <2>4. Shapes'
    BY <1>1, <2>1, <2>2 DEF IInv, Shapes
  <2> QED BY <1>1, <2>1, <2>3, <2>4 DEF IInv, IndexIsTrue, SavesVectors, FillsItsOwn, Live
<1> QED BY <1>2, <1>3

\* The rows that are added have the length the table has now.
LEMMA FillMissingStep ==
    ASSUME IInv, NEW p \in Opener, FillMissing(p)
    PROVE  IInv'
<1> DEFINE lacking == {e \in OfDim(open[p].dim) : e.fqn \notin Indexed}
<1>1. UNCHANGED <<text, emb, perfect>>
  BY DEF FillMissing
<1>2. CASE vec.dim = 0 \/ (vec.dim # open[p].dim /\ lacking # {})
  <2>1. Opened(p, "idle") /\ vec' = vec
    BY <1>2 DEF FillMissing
  <2>2. IndexIsTrue' /\ vec'.rows \subseteq Vector
    BY <1>1, <2>1 DEF IInv, IndexIsTrue, TypeOK
  <2>3. vec' = [dim |-> vec'.dim, rows |-> vec'.rows] /\ vec'.dim = vec.dim
    BY <2>1 DEF IInv, Shapes
  <2> QED BY <1>1, <2>1, <2>2, <2>3, OpenedStep
<1>3. CASE ~(vec.dim = 0 \/ (vec.dim # open[p].dim /\ lacking # {}))
  <2>1. Opened(p, "commit") /\ vec' = [vec EXCEPT !.rows = @ \cup lacking]
    BY <1>3 DEF FillMissing
  <2>2. vec' = [dim |-> vec.dim, rows |-> vec.rows \cup lacking]
    BY <2>1 DEF IInv, Shapes
  <2>3. lacking \subseteq emb /\ \A e \in lacking : Dim[e.model] = vec.dim
    BY <1>3 DEF OfDim
  <2>4. IndexIsTrue' /\ vec'.rows \subseteq Vector
    BY <1>1, <2>2, <2>3 DEF IInv, IndexIsTrue, TypeOK
  <2>5. vec' = [dim |-> vec'.dim, rows |-> vec'.rows] /\ vec'.dim = vec.dim
    BY <2>2
  <2> QED BY <1>1, <2>1, <2>4, <2>5, OpenedStep
<1> QED BY <1>2, <1>3

\* What a commit leaves to embed is live in the new entities.
LEMMA CommitStep == IInv /\ Commit => IInv'
<1> SUFFICES ASSUME IInv, Commit  PROVE IInv'
  OBVIOUS
<1>1. PICK new \in [Fqn -> Text \cup {Gone}], model \in Model \cup {NoKey} :
          /\ text' = new
          /\ perfect' = (perfect /\ model # NoKey)
          /\ sync' = [sync EXCEPT
                !.pc = IF model = NoKey THEN "index" ELSE "coverage",
                !.model = model,
                !.changed = {f \in Fqn : new[f] # Gone /\ new[f] # text[f]},
                !.deleted = {f \in Live : new[f] = Gone}]
  BY DEF Commit
<1>2. UNCHANGED <<emb, vec, open>>
  BY DEF Commit
<1>3. /\ sync'.pc = IF model = NoKey THEN "index" ELSE "coverage"
      /\ sync'.model = model /\ sync'.next = sync.next /\ sync'.clean = sync.clean
      /\ sync'.changed = {f \in Fqn : new[f] # Gone /\ new[f] # text[f]}
      /\ sync'.deleted = {f \in Live : new[f] = Gone}
  BY <1>1 DEF IInv, Shapes
<1>4. sync'.changed \subseteq Fqn /\ sync'.deleted \subseteq Fqn
  BY <1>3 DEF Live
<1>5. perfect' \in BOOLEAN
  BY <1>1
<1>6. TypeOK'
  BY <1>1, <1>2, <1>3, <1>4, <1>5 DEF IInv, TypeOK, Pc
<1>7. Shapes'
  BY <1>1, <1>2 DEF IInv, Shapes
<1>8. SavesVectors'
  BY <1>1, <1>3 DEF SavesVectors, Live
<1> QED BY <1>2, <1>3, <1>6, <1>7, <1>8 DEF IInv, IndexIsTrue, FillsItsOwn

\* The other steps of the command leave the tables alone: it moves on.
LEMMA CommandStep ==
    ASSUME IInv, UNCHANGED <<text, emb, vec, open>>, perfect' \in BOOLEAN,
           sync' = [pc |-> sync'.pc, model |-> sync'.model, changed |-> sync'.changed,
                    deleted |-> sync'.deleted, goal |-> sync'.goal, next |-> sync'.next,
                    clean |-> sync'.clean],
           sync'.pc \in Pc \ {"fill"}, sync'.model = sync.model,
           sync'.changed \subseteq Fqn, sync'.deleted = sync.deleted,
           sync'.next \in {"idle", "save"}, sync'.clean \in BOOLEAN, SavesVectors'
    PROVE  IInv'
<1>1. TypeOK'
  BY DEF IInv, TypeOK
<1>2. Shapes'
  BY DEF IInv, Shapes
<1>3. FillsItsOwn'
  BY DEF FillsItsOwn
<1> QED BY <1>1, <1>2, <1>3 DEF IInv, IndexIsTrue

\* EnsureVecIndex only looks at the length before it drops the table.
LEMMA EnsureStep ==
    ASSUME IInv, NEW dim, NEW next \in {"idle", "save"}, Ensure(dim, next),
           UNCHANGED <<text, emb, vec, open, perfect>>,
           next = "save" => sync.model \in Model /\ sync.changed \subseteq Live
    PROVE  IInv'
<1>1. /\ perfect \in BOOLEAN /\ sync.clean \in BOOLEAN /\ sync.changed \subseteq Fqn
      /\ sync.next \in {"idle", "save"}
  BY DEF IInv, TypeOK
<1>2. /\ sync' = [pc |-> sync'.pc, model |-> sync'.model, changed |-> sync'.changed,
                  deleted |-> sync'.deleted, goal |-> sync'.goal, next |-> sync'.next,
                  clean |-> sync'.clean]
      /\ sync'.model = sync.model /\ sync'.changed = sync.changed
      /\ sync'.deleted = sync.deleted /\ sync'.clean = sync.clean
      /\ \/ sync'.pc = next /\ sync'.next = sync.next
         \/ sync'.pc = "drop" /\ sync'.next = next
  <2>1. CASE vec.dim = dim
    BY <2>1 DEF Ensure, IInv, Shapes
  <2>2. CASE vec.dim # dim
    BY <2>2 DEF Ensure, IInv, Shapes
  <2> QED BY <2>1, <2>2
<1>3. sync'.pc \in Pc \ {"fill"} /\ sync'.next \in {"idle", "save"}
  BY <1>1, <1>2 DEF Pc
<1>4. SavesVectors'
  BY <1>2 DEF SavesVectors, Live
<1> QED BY <1>1, <1>2, <1>3, <1>4, CommandStep

\* What is to be embedded is live and, here, has a model.
LEMMA CoverageStep == IInv /\ Coverage => IInv'
<1> SUFFICES ASSUME IInv, Coverage  PROVE IInv'
  OBVIOUS
<1>1. sync.model \in Model /\ sync.changed \subseteq Live
  BY DEF Coverage, IInv, SavesVectors
<1>2. /\ sync.clean \in BOOLEAN /\ sync.next \in {"idle", "save"} /\ perfect' \in BOOLEAN
      /\ UNCHANGED <<text, emb, vec, open>>
  BY DEF Coverage, IInv, TypeOK
<1>3. /\ sync' = [pc |-> sync'.pc, model |-> sync'.model, changed |-> sync'.changed,
                  deleted |-> sync'.deleted, goal |-> sync'.goal, next |-> sync'.next,
                  clean |-> sync'.clean]
      /\ sync'.pc = "embed" /\ sync'.model = sync.model /\ sync'.deleted = sync.deleted
      /\ sync'.next = sync.next /\ sync'.clean \in {sync.clean, FALSE}
      /\ sync'.changed \subseteq Live
  <2>1. CASE sync' = [sync EXCEPT !.pc = "embed",
                !.changed = IF Missing > 0 \/ Mismatch > 0 THEN Live ELSE @]
    <3>1. PICK c \in SUBSET Live : c = IF Missing > 0 \/ Mismatch > 0 THEN Live ELSE sync.changed
      BY <1>1
    <3>2. sync' = [sync EXCEPT !.pc = "embed", !.changed = c]
      BY <2>1, <3>1
    <3> QED BY <3>2 DEF IInv, Shapes
  <2>2. CASE sync' = [sync EXCEPT !.pc = "embed", !.changed = Live, !.clean = FALSE]
    BY <2>2 DEF IInv, Shapes
  <2>3. CASE sync' = [sync EXCEPT !.pc = "embed", !.changed = {}, !.clean = FALSE]
    BY <2>3 DEF IInv, Shapes
  <2> QED BY <2>1, <2>2, <2>3 DEF Coverage
<1>4. /\ sync'.changed \subseteq Fqn /\ sync'.clean \in BOOLEAN
      /\ sync'.next \in {"idle", "save"} /\ sync'.pc \in Pc \ {"fill"}
  BY <1>2, <1>3 DEF Live, Pc
<1>5. SavesVectors'
  BY <1>1, <1>2, <1>3 DEF SavesVectors, Live
<1> QED BY <1>2, <1>3, <1>4, <1>5, CommandStep

LEMMA EmbedStep == IInv /\ Embed => IInv'
<1> SUFFICES ASSUME IInv, Embed  PROVE IInv'
  OBVIOUS
<1>1. /\ sync.model \in Model /\ sync.changed \subseteq Live
      /\ UNCHANGED <<text, emb, vec, open, perfect>>
  BY DEF Embed, IInv, SavesVectors
<1>2. CASE sync.changed = {}
  <2>1. sync' = [sync EXCEPT !.pc = "remove"]
    BY <1>2 DEF Embed
  <2>2. /\ sync' = [pc |-> sync'.pc, model |-> sync'.model, changed |-> sync'.changed,
                    deleted |-> sync'.deleted, goal |-> sync'.goal, next |-> sync'.next,
                    clean |-> sync'.clean]
        /\ sync'.pc = "remove" /\ sync'.model = sync.model /\ sync'.deleted = sync.deleted
        /\ sync'.next = sync.next /\ sync'.clean = sync.clean /\ sync'.changed = sync.changed
    BY <2>1 DEF IInv, Shapes
  <2>3. /\ sync'.changed \subseteq Fqn /\ sync'.clean \in BOOLEAN /\ perfect' \in BOOLEAN
        /\ sync'.next \in {"idle", "save"} /\ sync'.pc \in Pc \ {"fill"}
    BY <1>1, <2>2 DEF IInv, TypeOK, Pc
  <2>4. SavesVectors'
    BY <2>2 DEF SavesVectors
  <2> QED BY <1>1, <2>2, <2>3, <2>4, CommandStep
<1>3. CASE sync.changed # {}
  <2>1. Ensure(Dim[sync.model], "save")
    BY <1>3 DEF Embed
  <2> QED BY <1>1, <2>1, EnsureStep
<1> QED BY <1>2, <1>3

\* The two ways to begin opening.
LEMMA StartStep == IInv /\ (StartSync \/ StartGateway) => IInv'
<1> SUFFICES ASSUME IInv, StartSync \/ StartGateway  PROVE IInv'
  OBVIOUS
<1>1. PICK p \in Opener : open' = [open EXCEPT ![p].pc = "create"]
  BY DEF StartSync, StartGateway, Opener
<1>2. UNCHANGED <<text, emb, vec, perfect>>
  BY DEF StartSync, StartGateway
<1>3. open' = [open EXCEPT ![p] = [pc |-> "create", dim |-> open[p].dim]]
  BY <1>1, PlaceStep
<1>4. /\ \A q \in Opener : open'[q].pc \in {"closed", "create", "dim", "fill"}
      /\ open' = [q \in Opener |-> [pc |-> open'[q].pc, dim |-> open'[q].dim]]
  BY <1>3, OpenStep
<1>5. \/ sync' = sync
      \/ sync' = [Idle EXCEPT !.pc = "open", !.clean = TRUE]
  BY DEF StartSync, StartGateway
<1>6. CASE sync' = sync
  <2>1. TypeOK' /\ SavesVectors' /\ FillsItsOwn' /\ IndexIsTrue'
    BY <1>2, <1>4, <1>6 DEF IInv, TypeOK, SavesVectors, FillsItsOwn, IndexIsTrue, Live
  <2>2. Shapes'
    BY <1>2, <1>4, <1>6 DEF IInv, Shapes
  <2> QED BY <2>1, <2>2 DEF IInv
<1>7. CASE sync' = [Idle EXCEPT !.pc = "open", !.clean = TRUE]
  <2>1. sync' = [pc |-> "open", model |-> NoKey, changed |-> {}, deleted |-> {},
                 goal |-> 0, next |-> "idle", clean |-> TRUE]
    BY <1>7 DEF Idle
  <2>2. TypeOK' /\ SavesVectors' /\ FillsItsOwn' /\ IndexIsTrue'
    BY <1>2, <1>4, <2>1 DEF IInv, TypeOK, Pc, SavesVectors, FillsItsOwn, IndexIsTrue
  <2>3. Shapes'
    BY <1>2, <1>4, <2>1 DEF IInv, Shapes
  <2> QED BY <2>2, <2>3 DEF IInv
<1> QED BY <1>5, <1>6, <1>7

\* Of a refused statement nothing remains; an accepted one adds vectors of the
\* length it was made for.
LEMMA FillStep == IInv /\ Fill => IInv'
<1> SUFFICES ASSUME IInv, Fill  PROVE IInv'
  OBVIOUS
<1>1. sync.pc = "fill"
  BY DEF Fill
<1>2. CASE \E e \in OfDim(sync.goal) : e.fqn \in Indexed
  <2>1. Failed
    BY <1>2 DEF Fill
  <2> QED BY <1>1, <2>1, FailedStep
<1>3. CASE ~(\E e \in OfDim(sync.goal) : e.fqn \in Indexed)
  <2>1. /\ vec' = [vec EXCEPT !.rows = @ \cup OfDim(sync.goal)]
        /\ sync' = [sync EXCEPT !.pc = sync.next]
        /\ UNCHANGED <<text, emb, open, perfect>>
    BY <1>3 DEF Fill
  <2>2. vec' = [dim |-> vec.dim, rows |-> vec.rows \cup OfDim(sync.goal)]
    BY <2>1 DEF IInv, Shapes
  <2>3. /\ sync'.pc = sync.next /\ sync'.changed = sync.changed /\ sync'.model = sync.model
        /\ sync'.deleted = sync.deleted /\ sync'.next = sync.next /\ sync'.clean = sync.clean
    BY <2>1 DEF IInv, Shapes
  <2>4. OfDim(sync.goal) \subseteq emb /\ \A e \in OfDim(sync.goal) : Dim[e.model] = vec.dim
    <3>1. vec.dim = sync.goal \/ sync.goal = 0
      BY <1>1 DEF IInv, FillsItsOwn
    <3>2. \A e \in emb : Dim[e.model] # 0
      BY DimAssumption DEF IInv, TypeOK, Vector
    <3> QED BY <3>1, <3>2 DEF OfDim
  <2>5. TypeOK'
    BY <2>1, <2>2, <2>3, <2>4 DEF IInv, TypeOK, Pc
  <2>6. Shapes'
    BY <2>1, <2>2 DEF IInv, Shapes
  <2>7. IndexIsTrue'
    BY <2>1, <2>2, <2>4 DEF IInv, IndexIsTrue
  <2>8. SavesVectors' /\ FillsItsOwn'
    BY <1>1, <2>1, <2>3 DEF IInv, TypeOK, SavesVectors, FillsItsOwn, Live
  <2> QED BY <2>5, <2>6, <2>7, <2>8 DEF IInv
<1> QED BY <1>2, <1>3

LEMMA Inductive == IInv /\ [Next]_vars => IInv'
<1> SUFFICES ASSUME IInv, [Next]_vars  PROVE IInv'
  OBVIOUS
<1>1. CASE UNCHANGED vars
  BY <1>1 DEF vars, Live, IInv, TypeOK, Shapes, IndexIsTrue, SavesVectors, FillsItsOwn
<1>2. ASSUME NEW p \in Opener, CreateIfMissing(p) \/ ReadDim(p) \/ FillMissing(p)  PROVE IInv'
  BY <1>2, CreateIfMissingStep, ReadDimStep, FillMissingStep
<1>3. CASE Coverage \/ Embed \/ Commit \/ Fill
  BY <1>3, CoverageStep, EmbedStep, CommitStep, FillStep
<1>4. CASE EnsureIndex
  BY <1>4, EnsureStep DEF EnsureIndex
<1>5. CASE StartSync \/ StartGateway
  BY <1>5, StartStep
<1>6. CASE Fault
  BY <1>6, FailedStep DEF Fault
<1> USE DEF IInv, TypeOK, Shapes, IndexIsTrue, SavesVectors, FillsItsOwn, Pc, Opener
<1>7. CASE Drop
  BY <1>7 DEF Drop, NoTable, Live
<1>8. CASE Create
  BY <1>8, FailedStep DEF Create, Live
<1>9. CASE Save
  BY <1>9, FailedStep, NewVectors DEF Save, Without, VectorOf, Live
<1>10. CASE Remove
  BY <1>10, FailedStep DEF Remove, Without, Live
<1>11. CASE Crash
  BY <1>11 DEF Crash, Closed, Live
<1> QED BY <1>1, <1>2, <1>3, <1>4, <1>5, <1>6, <1>7, <1>8, <1>9, <1>10, <1>11 DEF Next

\* The types, one stored vector for each entity, and IndexIsTrue together.
THEOREM Invariance == Spec => []IInv
BY InitIInv, Inductive, PTL DEF Spec

\* Type correctness: no entity ever has two stored vectors.
THEOREM TypeCorrect == Spec => []TypeOK
<1>1. IInv => TypeOK
  BY DEF IInv
<1> QED BY <1>1, Invariance, PTL

\* Whatever fails or is killed, the index holds stored vectors of its own
\* length only (SaveEmbeddings, RemoveEmbeddings, EnsureVecIndex, ensureSchema).
THEOREM IndexHoldsStored == Spec => []IndexIsTrue
<1>1. IInv => IndexIsTrue
  BY DEF IInv
<1> QED BY <1>1, Invariance, PTL

-----------------------------------------------------------------------------
(* What a command leaves behind that met no error.                         *)

\* The vectors of the live entities, all of one model.
Fresh(model) == {VectorOf(f, model) : f \in Live}

Ensuring(next) == sync.pc \in {"drop", "create", "fill"} /\ sync.next = next

\* A clean command meets a whole index, and leaves none that is not.
Filled == vec.dim # 0 /\ vec.rows = OfDim(vec.dim)

IndexKept ==
    /\ open["sync"].pc # "closed" <=> sync.pc = "open"
    /\ open["sync"].pc = "fill" => vec.dim = open["sync"].dim /\ vec.dim # 0
    /\ Ensuring("save") => sync.goal = Dim[sync.model]
    /\ Ensuring("idle") => sync.goal = LongestDim
    /\ sync.clean /\ sync.pc \notin {"open", "create", "fill"} => Filled
    /\ sync.clean /\ sync.pc = "idle" => vec.dim = LongestDim

\* What is stored while all entities but those in "todo" have their vectors
\* and the buried ones still have theirs.
AllBut(todo, model) ==
    /\ sync.deleted \cap Live = {}
    /\ \A f \in Live \ todo : VectorOf(f, model) \in emb
    /\ \A e \in emb : e.fqn \in todo \cup sync.deleted \/ e \in Fresh(model)

VectorsKept ==
    perfect =>
        /\ sync.pc \in {"idle", "open", "commit"} => \E m \in Model : emb = Fresh(m)
        /\ sync.pc = "coverage" =>
              \E m \in Model : AllBut(sync.changed, m) /\ \A e \in emb : e.model = m
        /\ sync.pc \in {"embed", "save"} \/ Ensuring("save") =>
              sync.model \in Model /\ AllBut(sync.changed, sync.model)
        /\ sync.pc = "remove" => sync.model \in Model /\ AllBut({}, sync.model)
        /\ sync.pc = "index" \/ Ensuring("idle") \/ (sync.pc = "idle" /\ sync.clean) =>
              sync.model \in Model /\ emb = Fresh(sync.model)

WholeInv == IndexKept /\ VectorsKept

\* A finite set of numbers that is not empty has a greatest one: of a smallest
\* set without one, leave any number out.
LEMMA MaxIs ==
    ASSUME NEW S \in SUBSET Nat, IsFiniteSet(S), S # {}
    PROVE  Max(S) \in S /\ \A n \in S : Max(S) >= n
<1> DEFINE Top(T) == \E x \in T : \A y \in T : x >= y
           R == StrictSubsetOrdering(Nat)
           Bad == {T \in FiniteSubsetsOf(Nat) : T # {} /\ ~Top(T)}
<1>1. Bad = {}
  <2> SUFFICES ASSUME Bad # {} PROVE FALSE
    OBVIOUS
  <2>1. IsWellFoundedOn(R, FiniteSubsetsOf(Nat))
    BY FS_StrictSubsetOrderingWellFounded
  <2>2. Bad \subseteq FiniteSubsetsOf(Nat)
    OBVIOUS
  <2> HIDE DEF R
  <2>3. PICK T \in Bad : \A U \in Bad : ~ (<<U, T>> \in R)
    <3> HIDE DEF Bad
    <3> QED BY <2>1, <2>2, WFMin, Zenon
  <2>4. T \in SUBSET Nat /\ IsFiniteSet(T) /\ T # {} /\ ~Top(T)
    BY <2>3 DEF FiniteSubsetsOf
  <2>5. PICK x \in T : TRUE
    BY <2>4
  <2> DEFINE U == T \ {x}
  <2>6. U \in SUBSET Nat /\ IsFiniteSet(U) /\ U \subseteq T /\ U # T
    BY <2>4, <2>5, FS_RemoveElement
  <2>7. <<U, T>> \in R
    BY <2>4, <2>6 DEF R, StrictSubsetOrdering, OpToRel
  <2>8. U \notin Bad
    BY <2>3, <2>7
  <2>9. U = {} \/ Top(U)
    BY <2>6, <2>8 DEF FiniteSubsetsOf
  <2>10. CASE U = {}
    <3>1. T = {x} /\ x \in Nat
      BY <2>4, <2>5, <2>10
    <3> QED BY <2>4, <3>1
  <2>11. CASE Top(U)
    <3>1. PICK m \in U : \A y \in U : m >= y
      BY <2>11
    <3>2. x \in Nat /\ m \in Nat /\ m \in T /\ \A y \in T : y \in Nat /\ (y = x \/ y \in U)
      BY <2>4, <2>5, <2>6, <3>1
    <3>3. CASE m >= x
      <4>1. \A y \in T : m >= y
        BY <3>1, <3>2, <3>3
      <4> QED BY <2>4, <3>2, <4>1
    <3>4. CASE ~ (m >= x)
      <4>1. \A y \in T : x >= y
        BY <3>1, <3>2, <3>4
      <4> QED BY <2>4, <2>5, <4>1
    <3> QED BY <3>3, <3>4
  <2> QED BY <2>9, <2>10, <2>11
<1>2. S \in FiniteSubsetsOf(Nat)
  BY DEF FiniteSubsetsOf
<1>3. Top(S)
  BY <1>1, <1>2
<1> QED BY <1>3 DEF Max

\* There is one vector of an entity, so there are finitely many.
LEMMA VectorsFinite == ASSUME IInv PROVE IsFiniteSet(emb)
<1>1. /\ emb \subseteq Vector /\ \A e, g \in emb : e.fqn = g.fqn => e = g
      /\ \A e \in emb : e.fqn \in Fqn
  BY DEF IInv, TypeOK, Vector
<1>2. [e \in emb |-> e.fqn] \in Injection(emb, Fqn)
  BY <1>1 DEF Injection, IsInjective
<1> QED BY <1>2, FqnAssumption, FS_Injection

LEMMA DimIs == ASSUME IInv, NEW e \in emb PROVE Dim[e.model] \in Nat \ {0}
BY DimAssumption DEF IInv, TypeOK, Vector

LEMMA LongestIs ==
    ASSUME IInv
    PROVE  /\ LongestDim \in Nat \ {0}
           /\ \A model : emb # {} /\ (\A e \in emb : e.model = model) => LongestDim = Dim[model]
<1> DEFINE dims == {Dim[e.model] : e \in emb}
<1>1. CASE emb = {}
  BY <1>1, DimAssumption DEF LongestDim
<1>2. CASE emb # {}
  <2>1. IsFiniteSet(dims)
    <3>1. [e \in emb |-> Dim[e.model]] \in Surjection(emb, dims)
      BY DEF Surjection
    <3> HIDE DEF dims
    <3> QED BY <3>1, VectorsFinite, FS_Surjection
  <2>2. dims \in SUBSET Nat /\ dims # {} /\ \A d \in dims : d # 0
    BY <1>2, DimIs
  <2>3. Max(dims) \in dims
    <3> HIDE DEF dims
    <3> QED BY <2>1, <2>2, MaxIs
  <2>4. LongestDim = Max(dims)
    BY <1>2 DEF LongestDim
  <2> QED BY <2>2, <2>3, <2>4
<1> QED BY <1>1, <1>2

\* What the index lacks, put in, makes it whole.
LEMMA FillsUp ==
    ASSUME IInv
    PROVE  vec.rows \cup {e \in OfDim(vec.dim) : e.fqn \notin Indexed} = OfDim(vec.dim)
<1>1. vec.rows \subseteq OfDim(vec.dim)
  BY DEF IInv, IndexIsTrue, OfDim
<1>2. \A e \in OfDim(vec.dim) : e.fqn \in Indexed => e \in vec.rows
  BY DEF IInv, IndexIsTrue, TypeOK, OfDim, Indexed
<1> QED BY <1>1, <1>2

LEMMA InitWhole == Init => WholeInv
<1> SUFFICES ASSUME Init PROVE WholeInv
  OBVIOUS
<1>1. sync = Idle /\ open["sync"] = Closed
  BY DEF Init, Opener
<1>2. \E m \in Model : emb = Fresh(m)
  BY DEF Init, Fresh
<1> QED
  BY <1>1, <1>2 DEF WholeInv, IndexKept, VectorsKept, Ensuring, Filled, Idle, Closed

\* A step that leaves the command and the tables it filled alone.
LEMMA StartSyncWhole == IInv /\ WholeInv /\ StartSync => WholeInv'
<1> SUFFICES ASSUME IInv, WholeInv, StartSync PROVE WholeInv'
  OBVIOUS
<1>1. /\ sync' = [Idle EXCEPT !.pc = "open", !.clean = TRUE] /\ sync.pc = "idle"
      /\ open' = [open EXCEPT !["sync"].pc = "create"]
      /\ UNCHANGED <<text, emb, vec, perfect>>
  BY DEF StartSync
<1>2. sync'.pc = "open"
  BY <1>1 DEF Idle
<1>3. open'["sync"].pc = "create"
  BY <1>1 DEF IInv, Shapes, Opener
<1>4. IndexKept'
  BY <1>2, <1>3 DEF IndexKept, Ensuring
<1>5. VectorsKept'
  BY <1>1, <1>2 DEF VectorsKept, WholeInv, Ensuring, Fresh, Live, VectorOf
<1> QED BY <1>4, <1>5 DEF WholeInv

LEMMA StartGatewayWhole == IInv /\ WholeInv /\ StartGateway => WholeInv'
<1> SUFFICES ASSUME IInv, WholeInv, StartGateway PROVE WholeInv'
  OBVIOUS
<1>1. open' = [open EXCEPT !["gateway"].pc = "create"] /\ UNCHANGED <<text, emb, vec, sync, perfect>>
  BY DEF StartGateway
<1>2. open'["sync"] = open["sync"]
  BY <1>1 DEF IInv, Shapes, Opener
<1>3. IndexKept'
  BY <1>1, <1>2 DEF IndexKept, WholeInv, Ensuring, Filled, OfDim, LongestDim
<1>4. VectorsKept'
  BY <1>1 DEF VectorsKept, WholeInv, Ensuring, Fresh, Live, VectorOf, AllBut
<1> QED BY <1>3, <1>4 DEF WholeInv

LEMMA CreateIfMissingWhole ==
    ASSUME IInv, WholeInv, NEW p \in Opener, CreateIfMissing(p)
    PROVE  WholeInv'
<1>1. /\ open' = [open EXCEPT ![p].pc = "dim"] /\ open[p].pc = "create"
      /\ vec' = IF vec.dim = 0 THEN [dim |-> DefaultDim, rows |-> {}] ELSE vec
      /\ UNCHANGED <<text, emb, sync, perfect>>
  BY DEF CreateIfMissing
<1>2. open' = [open EXCEPT ![p] = [pc |-> "dim", dim |-> open[p].dim]]
  BY <1>1, PlaceStep
<1>3. "sync" \in Opener /\ \A q \in Opener : open'[q] = IF q = p THEN [pc |-> "dim", dim |-> open[p].dim] ELSE open[q]
  BY <1>2 DEF IInv, Shapes, Opener
<1>4. /\ (open'["sync"].pc = "closed" <=> open["sync"].pc = "closed")
      /\ open'["sync"].pc = "fill" => open'["sync"] = open["sync"]
  BY <1>1, <1>3
<1>5. IndexKept'
  <2>1. CASE vec.dim = 0
    BY <1>1, <1>4, <2>1 DEF IndexKept, WholeInv, Ensuring, Filled, OfDim, LongestDim
  <2>2. CASE vec.dim # 0
    BY <1>1, <1>4, <2>2 DEF IndexKept, WholeInv, Ensuring, Filled, OfDim, LongestDim
  <2> QED BY <2>1, <2>2
<1>6. VectorsKept'
  BY <1>1 DEF VectorsKept, WholeInv, Ensuring, Fresh, Live, VectorOf, AllBut
<1> QED BY <1>5, <1>6 DEF WholeInv

\* The end of an opening, the index as whole as the command that goes on needs it.
LEMMA OpenedWhole ==
    ASSUME IInv, WholeInv, NEW p \in Opener, NEW pc \in {"idle", "commit"}, Opened(p, pc),
           open[p].pc # "closed", UNCHANGED <<text, emb, perfect>>, vec'.dim = vec.dim,
           Filled => Filled', p = "sync" /\ pc = "commit" => Filled'
    PROVE  WholeInv'
<1>1. open' = [open EXCEPT ![p] = Closed]
  BY DEF Opened
<1>2. "sync" \in Opener /\ \A q \in Opener : open'[q] = IF q = p THEN Closed ELSE open[q]
  BY <1>1 DEF IInv, Shapes, Opener
<1>3. CASE p = "sync"
  <2>1. sync' = [sync EXCEPT !.pc = pc, !.clean = @ /\ pc # "idle"]
    BY <1>3 DEF Opened
  <2>2. sync'.pc = pc /\ sync'.clean = (sync.clean /\ pc # "idle") /\ sync'.model = sync.model
    BY <2>1 DEF IInv, Shapes, TypeOK
  <2>3. sync.pc = "open"
    BY <1>3 DEF WholeInv, IndexKept
  <2>4. open'["sync"].pc = "closed"
    BY <1>2, <1>3 DEF Closed
  <2>5. IndexKept'
    BY <1>3, <2>2, <2>4 DEF IndexKept, Ensuring
  <2>6. VectorsKept'
    BY <2>2, <2>3 DEF VectorsKept, WholeInv, Ensuring, Fresh, Live, VectorOf, AllBut
  <2> QED BY <2>5, <2>6 DEF WholeInv
<1>4. CASE p # "sync"
  <2>1. sync' = sync /\ open'["sync"] = open["sync"]
    BY <1>2, <1>4 DEF Opened
  <2>2. IndexKept'
    BY <2>1 DEF IndexKept, WholeInv, Ensuring, LongestDim
  <2>3. VectorsKept'
    BY <2>1 DEF VectorsKept, WholeInv, Ensuring, Fresh, Live, VectorOf, AllBut
  <2> QED BY <2>2, <2>3 DEF WholeInv
<1> QED BY <1>3, <1>4

LEMMA ReadDimWhole ==
    ASSUME IInv, WholeInv, NEW p \in Opener, ReadDim(p)
    PROVE  WholeInv'
<1>1. UNCHANGED <<text, emb, vec, perfect>> /\ open[p].pc = "dim"
  BY DEF ReadDim
<1>2. CASE vec.dim = 0
  <2>1. Opened(p, "idle")
    BY <1>2 DEF ReadDim
  <2>2. Filled => Filled'
    BY <1>1 DEF Filled, OfDim
  <2> QED BY <1>1, <2>1, <2>2, OpenedWhole
<1>3. CASE vec.dim # 0
  <2>1. open' = [open EXCEPT ![p] = [pc |-> "fill", dim |-> vec.dim]] /\ sync' = sync
    BY <1>3 DEF ReadDim
  <2>2. "sync" \in Opener /\ \A q \in Opener : open'[q] = IF q = p THEN [pc |-> "fill", dim |-> vec.dim] ELSE open[q]
    BY <2>1 DEF IInv, Shapes, Opener
  <2>3. /\ (open'["sync"].pc = "closed" <=> open["sync"].pc = "closed")
        /\ open'["sync"].pc = "fill" => open'["sync"].dim = vec.dim \/ open'["sync"] = open["sync"]
    BY <1>1, <2>2
  <2>4. IndexKept'
    BY <1>1, <1>3, <2>1, <2>3 DEF IndexKept, WholeInv, Ensuring, Filled, OfDim, LongestDim
  <2>5. VectorsKept'
    BY <1>1, <2>1 DEF VectorsKept, WholeInv, Ensuring, Fresh, Live, VectorOf, AllBut
  <2> QED BY <2>4, <2>5 DEF WholeInv
<1> QED BY <1>2, <1>3

\* The command's own backfill ends with nothing lacking: the length it read is
\* still the table's.  A gateway's finds nothing lacking in a whole index.
LEMMA FillMissingWhole ==
    ASSUME IInv, WholeInv, NEW p \in Opener, FillMissing(p)
    PROVE  WholeInv'
<1> DEFINE lacking == {e \in OfDim(open[p].dim) : e.fqn \notin Indexed}
<1>1. UNCHANGED <<text, emb, perfect>> /\ open[p].pc = "fill"
  BY DEF FillMissing
<1>2. CASE vec.dim = 0 \/ (vec.dim # open[p].dim /\ lacking # {})
  <2>1. Opened(p, "idle") /\ vec' = vec
    BY <1>2 DEF FillMissing
  <2>2. Filled => Filled'
    BY <1>1, <2>1 DEF Filled, OfDim
  <2> QED BY <1>1, <2>1, <2>2, OpenedWhole
<1>3. CASE ~(vec.dim = 0 \/ (vec.dim # open[p].dim /\ lacking # {}))
  <2>1. Opened(p, "commit") /\ vec' = [vec EXCEPT !.rows = @ \cup lacking]
    BY <1>3 DEF FillMissing
  <2>2. vec'.dim = vec.dim /\ vec'.rows = vec.rows \cup lacking
    BY <2>1 DEF IInv, Shapes
  <2>3. vec.dim = open[p].dim => vec'.rows = OfDim(vec.dim)
    BY <2>2, FillsUp
  <2>4. p = "sync" => vec.dim = open[p].dim
    BY <1>1 DEF WholeInv, IndexKept
  <2>5. Filled => Filled'
    BY <1>1, <1>3, <2>2, <2>3 DEF Filled, OfDim
  <2>6. p = "sync" => Filled'
    BY <1>1, <1>3, <2>2, <2>3, <2>4 DEF Filled, OfDim
  <2> QED BY <1>1, <2>1, <2>2, <2>5, <2>6, OpenedWhole
<1> QED BY <1>2, <1>3

LEMMA FailedWhole ==
    ASSUME IInv, WholeInv, Failed,
           sync.pc \in {"embed", "drop", "create", "fill", "save", "remove", "index"}
    PROVE  WholeInv'
<1>1. sync' = [sync EXCEPT !.pc = AfterError, !.clean = FALSE]
      /\ perfect' = FALSE /\ UNCHANGED <<text, emb, vec, open>>
  BY DEF Failed
<1>2. AfterError \in {"remove", "index", "idle"}
  BY DEF AfterError
<1>3. sync'.pc = AfterError /\ sync'.clean = FALSE
  BY <1>1 DEF IInv, Shapes
<1>4. open'["sync"].pc = "closed"
  BY <1>1 DEF WholeInv, IndexKept
<1> QED BY <1>1, <1>2, <1>3, <1>4 DEF WholeInv, IndexKept, VectorsKept, Ensuring

\* What is stored is what was stored: the commit leaves to do what it changed
\* and what it buried.
LEMMA CommitWhole == IInv /\ WholeInv /\ Commit => WholeInv'
<1> SUFFICES ASSUME IInv, WholeInv, Commit PROVE WholeInv'
  OBVIOUS
<1>1. PICK new \in [Fqn -> Text \cup {Gone}], model \in Model \cup {NoKey} :
          /\ text' = new
          /\ perfect' = (perfect /\ model # NoKey)
          /\ sync' = [sync EXCEPT
                !.pc = IF model = NoKey THEN "index" ELSE "coverage",
                !.model = model,
                !.changed = {f \in Fqn : new[f] # Gone /\ new[f] # text[f]},
                !.deleted = {f \in Live : new[f] = Gone}]
  BY DEF Commit
<1>2. UNCHANGED <<emb, vec, open>> /\ sync.pc = "commit"
  BY DEF Commit
<1>3. /\ sync'.pc = IF model = NoKey THEN "index" ELSE "coverage"
      /\ sync'.model = model /\ sync'.clean = sync.clean
      /\ sync'.changed = {f \in Fqn : new[f] # Gone /\ new[f] # text[f]}
      /\ sync'.deleted = {f \in Live : new[f] = Gone}
  BY <1>1 DEF IInv, Shapes
<1>4. open["sync"].pc = "closed"
  BY <1>2 DEF WholeInv, IndexKept
<1>5. Filled => Filled'
  BY <1>2 DEF Filled, OfDim
<1>6. IndexKept'
  BY <1>2, <1>3, <1>4, <1>5 DEF WholeInv, IndexKept, Ensuring
<1>7. VectorsKept'
  <2> SUFFICES ASSUME perfect' PROVE VectorsKept'
    BY DEF VectorsKept
  <2>1. perfect /\ model # NoKey /\ sync'.pc = "coverage"
    BY <1>1, <1>3
  <2>2. PICK m \in Model : emb = Fresh(m)
    BY <1>2, <2>1 DEF WholeInv, VectorsKept
  <2>3. /\ Live' = {f \in Fqn : new[f] # Gone}
        /\ \A f : VectorOf(f, m)' = [fqn |-> f, model |-> m, text |-> new[f]]
    BY <1>1 DEF Live, VectorOf
  <2>4. sync'.deleted \cap Live' = {}
    BY <1>3, <2>3
  <2>5. \A f \in Live' \ sync'.changed : f \in Live /\ VectorOf(f, m)' = VectorOf(f, m)
    BY <1>3, <2>3 DEF Live, VectorOf
  <2>6. \A f \in Live' \ sync'.changed : VectorOf(f, m)' \in emb'
    BY <1>2, <2>2, <2>5 DEF Fresh
  <2>7. ASSUME NEW e \in emb'
        PROVE  e.model = m /\ (e.fqn \in sync'.changed \cup sync'.deleted \/ e \in Fresh(m)')
    <3>1. PICK f \in Live : e = VectorOf(f, m)
      BY <1>2, <2>2, <2>7 DEF Fresh
    <3>2. e.fqn = f /\ e.model = m
      BY <3>1 DEF VectorOf
    <3>3. CASE f \in Live'
      <4>1. f \in sync'.changed \/ e = VectorOf(f, m)'
        BY <2>5, <3>1, <3>3
      <4> QED BY <3>2, <3>3, <4>1 DEF Fresh
    <3>4. CASE f \notin Live'
      <4>1. f \in sync'.deleted
        BY <1>3, <2>3, <3>4 DEF Live
      <4> QED BY <3>2, <4>1
    <3> QED BY <3>3, <3>4
  <2>8. AllBut(sync.changed, m)' /\ \A e \in emb' : e.model = m
    BY <2>4, <2>6, <2>7 DEF AllBut
  <2> QED BY <2>1, <2>8 DEF VectorsKept, Ensuring
<1> QED BY <1>6, <1>7 DEF WholeInv

\* No vector missing and none of another model: the stored ones, if any, are
\* the command's model's.
LEMMA CoverageWhole == IInv /\ WholeInv /\ Coverage => WholeInv'
<1> SUFFICES ASSUME IInv, WholeInv, Coverage PROVE WholeInv'
  OBVIOUS
<1>1. UNCHANGED <<text, emb, vec, open>> /\ sync.pc = "coverage"
  BY DEF Coverage
<1>2. open["sync"].pc = "closed"
  BY <1>1 DEF WholeInv, IndexKept
<1>3. Filled => Filled'
  BY <1>1 DEF Filled, OfDim
<1>4. sync.model \in Model /\ sync.changed \subseteq Live
  BY <1>1 DEF IInv, SavesVectors
<1>5. CASE /\ sync' = [sync EXCEPT !.pc = "embed",
                !.changed = IF Missing > 0 \/ Mismatch > 0 THEN Live ELSE @]
           /\ UNCHANGED perfect
  <2>1. PICK c : c = IF Missing > 0 \/ Mismatch > 0 THEN Live ELSE sync.changed
    OBVIOUS
  <2>2. sync' = [sync EXCEPT !.pc = "embed", !.changed = c]
    BY <1>5, <2>1
  <2>3. /\ sync'.pc = "embed" /\ sync'.model = sync.model /\ sync'.clean = sync.clean
        /\ sync'.deleted = sync.deleted /\ sync'.changed = c
    BY <2>2 DEF IInv, Shapes
  <2>4. IndexKept'
    BY <1>1, <1>2, <1>3, <2>3 DEF WholeInv, IndexKept, Ensuring
  <2>5. VectorsKept'
    <3> SUFFICES ASSUME perfect PROVE AllBut(c, sync.model)
      BY <1>1, <1>4, <1>5, <2>3 DEF VectorsKept, Ensuring, AllBut, Live, Fresh, VectorOf
    <3>1. PICK m \in Model : AllBut(sync.changed, m) /\ \A e \in emb : e.model = m
      BY <1>1 DEF WholeInv, VectorsKept
    <3>2. CASE c = Live
      <4>1. \A e \in emb : e.fqn \in Live \cup sync.deleted
        BY <1>4, <3>1 DEF AllBut, Fresh, VectorOf
      <4> QED BY <3>1, <3>2, <4>1 DEF AllBut
    <3>3. CASE c # Live
      <4>1. c = sync.changed /\ ~(Mismatch > 0)
        BY <2>1, <3>3
      <4> DEFINE others == {e \in emb : e.model # sync.model}
      <4>2. IsFiniteSet(others)
        BY VectorsFinite, FS_Subset
      <4>3. Cardinality(others) = 0
        <5>1. Cardinality(others) \in Nat
          BY <4>2, FS_CardinalityType
        <5> QED BY <4>1, <5>1 DEF Mismatch
      <4>4. others = {}
        <5> HIDE DEF others
        <5> QED BY <4>2, <4>3, FS_EmptySet
      <4>5. CASE emb = {}
        BY <3>1, <4>1, <4>5 DEF AllBut
      <4>6. CASE emb # {}
        <5>1. m = sync.model
          BY <3>1, <4>4, <4>6
        <5> QED BY <3>1, <4>1, <5>1
      <4> QED BY <4>5, <4>6
    <3> QED BY <3>2, <3>3
  <2> QED BY <2>4, <2>5 DEF WholeInv
<1>6. CASE /\ sync' = [sync EXCEPT !.pc = "embed", !.changed = Live, !.clean = FALSE]
           /\ perfect' = FALSE
  <2>1. sync'.pc = "embed" /\ sync'.clean = FALSE
    BY <1>6 DEF IInv, Shapes
  <2> QED BY <1>1, <1>2, <1>6, <2>1 DEF WholeInv, IndexKept, VectorsKept, Ensuring
<1>7. CASE /\ sync' = [sync EXCEPT !.pc = "embed", !.changed = {}, !.clean = FALSE]
           /\ perfect' = FALSE
  <2>1. sync'.pc = "embed" /\ sync'.clean = FALSE
    BY <1>7 DEF IInv, Shapes
  <2> QED BY <1>1, <1>2, <1>7, <2>1 DEF WholeInv, IndexKept, VectorsKept, Ensuring
<1> QED BY <1>5, <1>6, <1>7 DEF Coverage

\* EnsureVecIndex, for what follows it.
LEMMA EnsureFields ==
    ASSUME IInv, NEW dim, NEW next, Ensure(dim, next)
    PROVE  /\ sync'.model = sync.model /\ sync'.clean = sync.clean
           /\ sync'.changed = sync.changed /\ sync'.deleted = sync.deleted
           /\ \/ sync'.pc = next /\ vec.dim = dim
              \/ sync'.pc = "drop" /\ sync'.goal = dim /\ sync'.next = next
<1>1. CASE vec.dim = dim
  BY <1>1 DEF Ensure, IInv, Shapes
<1>2. CASE vec.dim # dim
  BY <1>2 DEF Ensure, IInv, Shapes
<1> QED BY <1>1, <1>2

LEMMA EmbedWhole == IInv /\ WholeInv /\ Embed => WholeInv'
<1> SUFFICES ASSUME IInv, WholeInv, Embed PROVE WholeInv'
  OBVIOUS
<1>1. UNCHANGED <<text, emb, vec, open, perfect>> /\ sync.pc = "embed"
  BY DEF Embed
<1>2. open["sync"].pc = "closed" /\ (Filled => Filled')
  BY <1>1 DEF WholeInv, IndexKept, Filled, OfDim
<1>3. perfect => sync.model \in Model /\ AllBut(sync.changed, sync.model)
  BY <1>1 DEF WholeInv, VectorsKept
<1>4. \A c, m : sync'.deleted = sync.deleted => (AllBut(c, m) => AllBut(c, m)')
  BY <1>1 DEF AllBut, Live, Fresh, VectorOf
<1>5. CASE sync.changed = {}
  <2>1. sync' = [sync EXCEPT !.pc = "remove"]
    BY <1>5 DEF Embed
  <2>2. /\ sync'.pc = "remove" /\ sync'.model = sync.model /\ sync'.clean = sync.clean
        /\ sync'.deleted = sync.deleted /\ sync'.changed = sync.changed
    BY <2>1 DEF IInv, Shapes
  <2>3. perfect => sync.model \in Model /\ AllBut({}, sync.model)'
    BY <1>3, <1>4, <1>5, <2>2
  <2>4. IndexKept'
    BY <1>1, <1>2, <2>2 DEF WholeInv, IndexKept, Ensuring
  <2>5. VectorsKept'
    BY <1>1, <2>2, <2>3 DEF VectorsKept, Ensuring, AllBut
  <2> QED BY <2>4, <2>5 DEF WholeInv
<1>6. CASE sync.changed # {}
  <2>1. Ensure(Dim[sync.model], "save")
    BY <1>6 DEF Embed
  <2>2. /\ sync'.model = sync.model /\ sync'.clean = sync.clean
        /\ sync'.changed = sync.changed /\ sync'.deleted = sync.deleted
        /\ \/ sync'.pc = "save"
           \/ sync'.pc = "drop" /\ sync'.goal = Dim[sync.model] /\ sync'.next = "save"
    BY <2>1, EnsureFields
  <2>3. perfect => sync.model \in Model /\ AllBut(sync.changed, sync.model)'
    BY <1>3, <1>4, <2>2
  <2>4. IndexKept'
    BY <1>1, <1>2, <2>2 DEF WholeInv, IndexKept, Ensuring
  <2>5. VectorsKept'
    BY <1>1, <2>2, <2>3 DEF VectorsKept, Ensuring, AllBut
  <2> QED BY <2>4, <2>5 DEF WholeInv
<1> QED BY <1>5, <1>6

LEMMA EnsureIndexWhole == IInv /\ WholeInv /\ EnsureIndex => WholeInv'
<1> SUFFICES ASSUME IInv, WholeInv, EnsureIndex PROVE WholeInv'
  OBVIOUS
<1>1. UNCHANGED <<text, emb, vec, open, perfect>> /\ sync.pc = "index" /\ Ensure(LongestDim, "idle")
  BY DEF EnsureIndex
<1>2. open["sync"].pc = "closed" /\ (Filled => Filled') /\ LongestDim' = LongestDim
  BY <1>1 DEF WholeInv, IndexKept, Filled, OfDim, LongestDim
<1>3. /\ sync'.model = sync.model /\ sync'.clean = sync.clean
      /\ \/ sync'.pc = "idle" /\ vec.dim = LongestDim
         \/ sync'.pc = "drop" /\ sync'.goal = LongestDim /\ sync'.next = "idle"
  BY <1>1, EnsureFields
<1>4. perfect => sync.model \in Model /\ emb = Fresh(sync.model)
  BY <1>1 DEF WholeInv, VectorsKept
<1>5. \A m : Fresh(m)' = Fresh(m)
  BY <1>1 DEF Fresh, Live, VectorOf
<1>6. IndexKept'
  BY <1>1, <1>2, <1>3 DEF WholeInv, IndexKept, Ensuring
<1>7. VectorsKept'
  BY <1>1, <1>3, <1>4, <1>5 DEF VectorsKept, Ensuring
<1> QED BY <1>6, <1>7 DEF WholeInv

\* What was said of the vectors while the index was rebuilt still holds.
LEMMA RebuildWhole ==
    ASSUME IInv, WholeInv, UNCHANGED <<text, emb, open, perfect>>,
           sync.pc \in {"drop", "create", "fill"},
           sync'.pc \in {"create", "fill"}, sync'.model = sync.model,
           sync'.changed = sync.changed, sync'.deleted = sync.deleted,
           sync'.goal = sync.goal, sync'.next = sync.next
    PROVE  WholeInv'
<1>1. open["sync"].pc = "closed"
  BY DEF WholeInv, IndexKept
<1>2. Ensuring("save")' = Ensuring("save") /\ Ensuring("idle")' = Ensuring("idle")
  BY DEF Ensuring
<1>3. IndexKept'
  <2>1. LongestDim' = LongestDim
    BY DEF LongestDim
  <2> QED BY <1>1, <1>2, <2>1 DEF WholeInv, IndexKept
<1>4. VectorsKept'
  <2>1. /\ \A m : Fresh(m)' = Fresh(m)
        /\ \A m : AllBut(sync.changed, m) => AllBut(sync.changed, m)'
    BY DEF Fresh, Live, VectorOf, AllBut
  <2> QED BY <1>2, <2>1 DEF WholeInv, VectorsKept
<1> QED BY <1>3, <1>4 DEF WholeInv

LEMMA DropWhole == IInv /\ WholeInv /\ Drop => WholeInv'
<1> SUFFICES ASSUME IInv, WholeInv, Drop PROVE WholeInv'
  OBVIOUS
<1>1. /\ sync' = [sync EXCEPT !.pc = "create"] /\ sync.pc = "drop"
      /\ UNCHANGED <<text, emb, open, perfect>>
  BY DEF Drop
<1>2. /\ sync'.pc = "create" /\ sync'.model = sync.model
      /\ sync'.changed = sync.changed /\ sync'.deleted = sync.deleted
      /\ sync'.goal = sync.goal /\ sync'.next = sync.next
  BY <1>1 DEF IInv, Shapes
<1> QED BY <1>1, <1>2, RebuildWhole

LEMMA CreateWhole == IInv /\ WholeInv /\ Create => WholeInv'
<1> SUFFICES ASSUME IInv, WholeInv, Create PROVE WholeInv'
  OBVIOUS
<1>1. sync.pc = "create"
  BY DEF Create
<1>2. CASE vec.dim # 0
  BY <1>1, <1>2, FailedWhole DEF Create
<1>3. CASE vec.dim = 0
  <2>1. sync' = [sync EXCEPT !.pc = "fill"] /\ UNCHANGED <<text, emb, open, perfect>>
    BY <1>3 DEF Create
  <2>2. /\ sync'.pc = "fill" /\ sync'.model = sync.model
        /\ sync'.changed = sync.changed /\ sync'.deleted = sync.deleted
        /\ sync'.goal = sync.goal /\ sync'.next = sync.next
    BY <2>1 DEF IInv, Shapes
  <2> QED BY <1>1, <2>1, <2>2, RebuildWhole
<1> QED BY <1>2, <1>3

\* Nothing of the length is indexed, and the table has rows of it only.
LEMMA FillWhole == IInv /\ WholeInv /\ Fill => WholeInv'
<1> SUFFICES ASSUME IInv, WholeInv, Fill PROVE WholeInv'
  OBVIOUS
<1>1. sync.pc = "fill"
  BY DEF Fill
<1>2. CASE \E e \in OfDim(sync.goal) : e.fqn \in Indexed
  BY <1>1, <1>2, FailedWhole DEF Fill
<1>3. CASE ~ \E e \in OfDim(sync.goal) : e.fqn \in Indexed
  <2>1. /\ vec' = [vec EXCEPT !.rows = @ \cup OfDim(sync.goal)]
        /\ sync' = [sync EXCEPT !.pc = sync.next]
        /\ UNCHANGED <<text, emb, open, perfect>>
    BY <1>3 DEF Fill
  <2>2. /\ sync'.pc = sync.next /\ sync'.model = sync.model /\ sync'.clean = sync.clean
        /\ sync'.changed = sync.changed /\ sync'.deleted = sync.deleted
        /\ sync'.goal = sync.goal /\ sync'.next = sync.next
    BY <2>1 DEF IInv, Shapes
  <2>3. vec'.dim = vec.dim /\ vec'.rows = vec.rows \cup OfDim(sync.goal)
    BY <2>1 DEF IInv, Shapes
  <2>4. sync.next \in {"idle", "save"}
    BY DEF IInv, TypeOK
  <2>5. sync.next = "save" => sync.goal = Dim[sync.model] /\ sync.model \in Model
    BY <1>1 DEF WholeInv, IndexKept, Ensuring, IInv, SavesVectors
  <2>6. sync.next = "idle" => sync.goal = LongestDim
    BY <1>1 DEF WholeInv, IndexKept, Ensuring
  <2>7. sync.goal # 0
    BY <2>4, <2>5, <2>6, LongestIs, DimAssumption
  <2>8. vec.dim = sync.goal
    BY <1>1, <2>7 DEF IInv, FillsItsOwn
  <2>9. vec.rows \subseteq OfDim(vec.dim)
    BY DEF IInv, IndexIsTrue, OfDim
  <2>10. Filled'
    BY <2>1, <2>3, <2>7, <2>8, <2>9 DEF Filled, OfDim
  <2>11. LongestDim' = LongestDim
    BY <2>1 DEF LongestDim
  <2>12. open'["sync"].pc = "closed"
    BY <1>1, <2>1 DEF WholeInv, IndexKept
  <2>13. IndexKept'
    BY <2>2, <2>3, <2>4, <2>6, <2>8, <2>10, <2>11, <2>12 DEF IndexKept, Ensuring
  <2>14. VectorsKept'
    <3>1. /\ \A m : Fresh(m)' = Fresh(m)
          /\ \A m : AllBut(sync.changed, m) => AllBut(sync.changed, m)'
      BY <2>1, <2>2 DEF Fresh, Live, VectorOf, AllBut
    <3>2. CASE sync.next = "save"
      <4>1. perfect => sync.model \in Model /\ AllBut(sync.changed, sync.model)
        BY <1>1, <3>2 DEF WholeInv, VectorsKept, Ensuring
      <4> QED BY <2>1, <2>2, <3>1, <3>2, <4>1 DEF VectorsKept, Ensuring
    <3>3. CASE sync.next = "idle"
      <4>1. perfect => sync.model \in Model /\ emb = Fresh(sync.model)
        BY <1>1, <3>3 DEF WholeInv, VectorsKept, Ensuring
      <4> QED BY <2>1, <2>2, <3>1, <3>3, <4>1 DEF VectorsKept, Ensuring
    <3> QED BY <2>4, <3>2, <3>3
  <2> QED BY <2>13, <2>14 DEF WholeInv
<1> QED BY <1>2, <1>3

\* The same vectors are put into both tables, and taken out of both.
LEMMA SaveWhole == IInv /\ WholeInv /\ Save => WholeInv'
<1> SUFFICES ASSUME IInv, WholeInv, Save PROVE WholeInv'
  OBVIOUS
<1>1. sync.pc = "save"
  BY DEF Save
<1>2. CASE vec.dim # Dim[sync.model]
  BY <1>1, <1>2, FailedWhole DEF Save
<1>3. CASE vec.dim = Dim[sync.model]
  <2> DEFINE new == {VectorOf(f, sync.model) : f \in sync.changed}
  <2>1. /\ emb' = Without(emb, sync.changed) \cup new
        /\ vec' = [vec EXCEPT !.rows = Without(@, sync.changed) \cup new]
        /\ sync' = [sync EXCEPT !.pc = "remove"]
        /\ UNCHANGED <<text, open, perfect>>
    BY <1>3 DEF Save
  <2>2. /\ sync'.pc = "remove" /\ sync'.model = sync.model /\ sync'.clean = sync.clean
        /\ sync'.changed = sync.changed /\ sync'.deleted = sync.deleted
    BY <2>1 DEF IInv, Shapes
  <2>3. vec'.dim = vec.dim /\ vec'.rows = Without(vec.rows, sync.changed) \cup new
    BY <2>1 DEF IInv, Shapes
  <2>4. sync.changed \subseteq Live
    BY <1>1 DEF IInv, SavesVectors
  <2>5. \A e \in new : Dim[e.model] = vec.dim
    BY <1>3 DEF VectorOf
  <2>6. Filled => Filled'
    BY <2>1, <2>3, <2>5 DEF Filled, OfDim, Without
  <2>7. open'["sync"].pc = "closed"
    BY <1>1, <2>1 DEF WholeInv, IndexKept
  <2>8. IndexKept'
    BY <1>1, <2>2, <2>6, <2>7 DEF WholeInv, IndexKept, Ensuring
  <2>9. VectorsKept'
    <3> SUFFICES ASSUME perfect PROVE sync.model \in Model /\ AllBut({}, sync.model)'
      BY <2>1, <2>2 DEF VectorsKept, Ensuring, AllBut
    <3>1. sync.model \in Model /\ AllBut(sync.changed, sync.model)
      BY <1>1 DEF WholeInv, VectorsKept
    <3>2. Live' = Live /\ \A f, m : VectorOf(f, m)' = VectorOf(f, m)
      BY <2>1 DEF Live, VectorOf
    <3>3. Fresh(sync.model)' = Fresh(sync.model)
      BY <2>2, <3>2 DEF Fresh
    <3>4. \A f \in Live : VectorOf(f, sync.model) \in emb'
      <4>1. \A f \in Live \ sync.changed : VectorOf(f, sync.model) \in Without(emb, sync.changed)
        BY <3>1 DEF AllBut, Without, VectorOf
      <4> QED BY <2>1, <4>1
    <3>5. \A e \in emb' : e.fqn \in sync.deleted \/ e \in Fresh(sync.model)
      <4>1. \A e \in new : e \in Fresh(sync.model)
        BY <2>4 DEF Fresh
      <4>2. \A e \in Without(emb, sync.changed) : e.fqn \in sync.deleted \/ e \in Fresh(sync.model)
        BY <3>1 DEF AllBut, Without
      <4> QED BY <2>1, <4>1, <4>2
    <3>6. sync.deleted \cap Live = {}
      BY <3>1 DEF AllBut
    <3> HIDE DEF new
    <3> QED BY <2>2, <3>1, <3>2, <3>3, <3>4, <3>5, <3>6 DEF AllBut
  <2> QED BY <2>8, <2>9 DEF WholeInv
<1> QED BY <1>2, <1>3

LEMMA RemoveWhole == IInv /\ WholeInv /\ Remove => WholeInv'
<1> SUFFICES ASSUME IInv, WholeInv, Remove PROVE WholeInv'
  OBVIOUS
<1>1. sync.pc = "remove"
  BY DEF Remove
<1>2. CASE sync.deleted # {} /\ vec.dim = 0
  BY <1>1, <1>2, FailedWhole DEF Remove
<1>3. CASE ~(sync.deleted # {} /\ vec.dim = 0)
  <2>1. /\ emb' = Without(emb, sync.deleted)
        /\ vec' = [vec EXCEPT !.rows = Without(@, sync.deleted)]
        /\ sync' = [sync EXCEPT !.pc = "index"]
        /\ UNCHANGED <<text, open, perfect>>
    BY <1>3 DEF Remove
  <2>2. /\ sync'.pc = "index" /\ sync'.model = sync.model /\ sync'.clean = sync.clean
    BY <2>1 DEF IInv, Shapes
  <2>3. vec'.dim = vec.dim /\ vec'.rows = Without(vec.rows, sync.deleted)
    BY <2>1 DEF IInv, Shapes
  <2>4. Filled => Filled'
    BY <2>1, <2>3 DEF Filled, OfDim, Without
  <2>5. open'["sync"].pc = "closed"
    BY <1>1, <2>1 DEF WholeInv, IndexKept
  <2>6. IndexKept'
    BY <1>1, <2>2, <2>4, <2>5 DEF WholeInv, IndexKept, Ensuring
  <2>7. VectorsKept'
    <3> SUFFICES ASSUME perfect PROVE sync.model \in Model /\ emb' = Fresh(sync.model)'
      BY <2>1, <2>2 DEF VectorsKept, Ensuring
    <3>1. sync.model \in Model /\ AllBut({}, sync.model)
      BY <1>1 DEF WholeInv, VectorsKept
    <3>2. Fresh(sync.model)' = Fresh(sync.model)
      BY <2>1, <2>2 DEF Fresh, Live, VectorOf
    <3>3. \A e \in emb' : e \in Fresh(sync.model)
      BY <2>1, <3>1 DEF AllBut, Without
    <3>4. \A e \in Fresh(sync.model) : e \in emb'
      BY <2>1, <3>1 DEF AllBut, Without, Fresh, VectorOf
    <3> QED BY <3>1, <3>2, <3>3, <3>4
  <2> QED BY <2>6, <2>7 DEF WholeInv
<1> QED BY <1>2, <1>3

LEMMA CrashWhole == IInv /\ WholeInv /\ Crash => WholeInv'
<1> SUFFICES ASSUME IInv, WholeInv, Crash PROVE WholeInv'
  OBVIOUS
<1>1. /\ sync' = [sync EXCEPT !.pc = "idle", !.clean = FALSE]
      /\ perfect' = (perfect /\ sync.pc \in {"open", "commit"})
      /\ open' = [open EXCEPT !["sync"] = Closed]
      /\ UNCHANGED <<text, emb, vec>>
  BY DEF Crash
<1>2. sync'.pc = "idle" /\ sync'.clean = FALSE
  BY <1>1 DEF IInv, Shapes
<1>3. open'["sync"].pc = "closed"
  BY <1>1 DEF IInv, Shapes, Opener, Closed
<1>4. IndexKept'
  BY <1>2, <1>3 DEF IndexKept, Ensuring
<1>5. VectorsKept'
  BY <1>1, <1>2 DEF VectorsKept, WholeInv, Ensuring, Fresh, Live, VectorOf
<1> QED BY <1>4, <1>5 DEF WholeInv

LEMMA WholeInductive == IInv /\ WholeInv /\ [Next]_vars => WholeInv'
<1> SUFFICES ASSUME IInv, WholeInv, [Next]_vars PROVE WholeInv'
  OBVIOUS
<1>1. CASE StartSync
  BY <1>1, StartSyncWhole
<1>2. CASE StartGateway
  BY <1>2, StartGatewayWhole
<1>3. ASSUME NEW p \in Opener, CreateIfMissing(p) \/ ReadDim(p) \/ FillMissing(p)
      PROVE  WholeInv'
  BY <1>3, CreateIfMissingWhole, ReadDimWhole, FillMissingWhole
<1>4. CASE Commit
  BY <1>4, CommitWhole
<1>5. CASE Coverage
  BY <1>5, CoverageWhole
<1>6. CASE Embed
  BY <1>6, EmbedWhole
<1>7. CASE Drop
  BY <1>7, DropWhole
<1>8. CASE Create
  BY <1>8, CreateWhole
<1>9. CASE Fill
  BY <1>9, FillWhole
<1>10. CASE Save
  BY <1>10, SaveWhole
<1>11. CASE Remove
  BY <1>11, RemoveWhole
<1>12. CASE EnsureIndex
  BY <1>12, EnsureIndexWhole
<1>13. CASE Fault
  BY <1>13, FailedWhole DEF Fault
<1>14. CASE Crash
  BY <1>14, CrashWhole
<1>15. CASE UNCHANGED vars
  <2>1. UNCHANGED <<text, emb, vec, open, sync, perfect>>
    BY <1>15 DEF vars
  <2>2. IndexKept'
    BY <2>1 DEF WholeInv, IndexKept, Ensuring, Filled, OfDim, LongestDim
  <2>3. VectorsKept'
    BY <2>1 DEF WholeInv, VectorsKept, Ensuring, AllBut, Fresh, Live, VectorOf
  <2> QED BY <2>2, <2>3 DEF WholeInv
<1> QED BY <1>1, <1>2, <1>3, <1>4, <1>5, <1>6, <1>7, <1>8, <1>9, <1>10, <1>11, <1>12,
           <1>13, <1>14, <1>15 DEF Next

LEMMA WholeMeans == IInv /\ WholeInv => IndexIsWhole
<1> SUFFICES ASSUME IInv, WholeInv, sync.pc = "idle", sync.clean
             PROVE  /\ vec.dim = LongestDim
                    /\ vec.rows = OfDim(vec.dim)
                    /\ perfect /\ sync.model # NoKey =>
                          /\ emb = {VectorOf(f, sync.model) : f \in Live}
                          /\ vec.rows = emb
                          /\ emb # {} => vec.dim = Dim[sync.model]
  BY DEF IndexIsWhole
<1>1. vec.dim = LongestDim /\ vec.rows = OfDim(vec.dim)
  BY DEF WholeInv, IndexKept, Filled
<1>2. ASSUME perfect
      PROVE  /\ emb = {VectorOf(f, sync.model) : f \in Live}
             /\ vec.rows = emb
             /\ emb # {} => vec.dim = Dim[sync.model]
  <2>1. emb = Fresh(sync.model)
    BY <1>2 DEF WholeInv, VectorsKept
  <2>2. \A e \in emb : e.model = sync.model
    BY <2>1 DEF Fresh, VectorOf
  <2>3. emb # {} => vec.dim = Dim[sync.model]
    BY <1>1, <2>2, LongestIs
  <2>4. vec.rows = emb
    BY <1>1, <2>2, <2>3 DEF OfDim
  <2> QED BY <2>1, <2>3, <2>4 DEF Fresh
<1> QED BY <1>1, <1>2

\* A command that met no error leaves the index whole, whatever commands and
\* openings came before, and the vectors of the live entities while every
\* command had a key and met no error.
THEOREM IndexIsLeftWhole == Spec => []IndexIsWhole
<1>1. Init => IInv /\ WholeInv
  BY InitIInv, InitWhole
<1>2. IInv /\ WholeInv /\ [Next]_vars => (IInv /\ WholeInv)'
  BY Inductive, WholeInductive
<1> QED BY <1>1, <1>2, WholeMeans, PTL DEF Spec
=============================================================================

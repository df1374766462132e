---------------------------- MODULE SemanticReads ----------------------------
(***************************************************************************)
(* The five semantic tools (internal/gateway/semantic_tools.go) and the    *)
(* searches they run (internal/semantic/search.go): search_entities,       *)
(* get_entity, traverse_relations, get_metric_definition and               *)
(* list_enum_values.  A call reads with several statements and no          *)
(* transaction around them, so a sync may commit between any two.          *)
(*                                                                         *)
(* The order of the rows of one statement decides which of them a limit    *)
(* keeps; it is left open here, so what is shown holds for every order.    *)
(***************************************************************************)
EXTENDS Catalogue, Functions

CONSTANTS
    KeywordWeight, VectorWeight, RrfK,    \* reciprocal rank fusion
    CandidateCap,                         \* SearchCandidateCap
    SearchLimit, EnumLimit, EdgeLimit,    \* rows shown
    MaxDepth, MaxNodes,                   \* of a traversal
    Depths                                \* what max_depth may ask for

\* The last conjunct is what the comment on the parameters counts on.
ASSUME ReadsAssumption ==
    /\ {CandidateCap, SearchLimit, EnumLimit, EdgeLimit, MaxDepth, MaxNodes} \subseteq Nat \ {0}
    /\ {KeywordWeight, VectorWeight, RrfK} \subseteq Nat \ {0}
    /\ Depths \subseteq Nat
    /\ KeywordWeight * (RrfK + 1) > VectorWeight * (RrfK + CandidateCap)

VARIABLE call     \* the tool call under way, or the last one

NoCall == [op |-> "none", pc |-> "done", seen |-> {}, error |-> "none"]

Capped(n, limit) == IF n < limit THEN n ELSE limit
\* What a LIMIT may keep of some rows.
Kept(rows, limit) ==
    {part \in SUBSET rows : Cardinality(part) = Capped(Cardinality(rows), limit)}

\* The sequences of at most "limit" members of a set, none of them twice.
Rankings(S, limit) ==
    UNION {{s \in [1..n -> S] : IsInjective(s)} : n \in 0..Capped(Cardinality(S), limit)}

-----------------------------------------------------------------------------
(* A call ends with an error or a result; "seen" is a history of the       *)
(* versions its statements read.                                           *)

Busy(pc) == call.pc = pc /\ UNCHANGED catalogue

Reads(next) == call' = [next EXCEPT !.seen = @ \cup {store}]

\* semToolErr: invalid_request (not_found, wrong_kind) or internal.
Fail(error) == [call EXCEPT !.pc = "done", !.error = error]

StartSearch ==
    \E kinds \in {{"concept"}, {"metric"}, {"concept", "metric"}} :
        call' = [op |-> "search", on |-> kinds, pc |-> "keyword", seen |-> {}, error |-> "none",
                 kw |-> <<>>, vec |-> <<>>, ranked |-> <<>>, hits |-> {}]

StartTraverse ==
    \E f \in Fqn, type \in Type, direction \in {"out", "in", "both"}, asked \in Depths :
        call' = [op |-> "traverse", on |-> f, pc |-> "entity", seen |-> {}, error |-> "none",
                 type |-> type, direction |-> direction, asked |-> asked,
                 nodes |-> {f}, edges |-> {}, queue |-> {[fqn |-> f, depth |-> 0]},
                 truncated |-> asked > MaxDepth, listed |-> {}]

StartLookup ==
    \E f \in Fqn, ranged \in BOOLEAN :
        \/ call' = [op |-> "detail", on |-> f, pc |-> "entity", seen |-> {}, error |-> "none",
                    values |-> {}, truncated |-> FALSE, edges |-> {}, relTruncated |-> FALSE]
        \/ call' = [op |-> "enums", on |-> f, pc |-> "entity", seen |-> {}, error |-> "none",
                    values |-> {}, truncated |-> FALSE, total |-> 0]
        \/ call' = [op |-> "metric", on |-> f, pc |-> "entity", seen |-> {}, error |-> "none",
                    ranged |-> ranged, tables |-> {}, todo |-> {}, timed |-> {}, notes |-> {}]

\* What the guards of the handlers (empty or long input, an unknown type,
\* direction or relation, a bad time range) refuse is refused unread.
Start ==
    /\ Busy("done") /\ call.op = "none" /\ call.error = "none"
    /\ \/ StartSearch \/ StartTraverse \/ StartLookup
       \/ call' = [NoCall EXCEPT !.error = "invalid_request"]

Return == Busy("done") /\ call # NoCall /\ call' = NoCall

\* GetEntity, the first statement of all but search_entities.
ReadEntity ==
    /\ Busy("entity")
    /\ LET f == call.on IN
       \/ f \notin Live(store) /\ Reads(Fail("not_found"))
       \/ /\ f \in Live(store)
          /\ \/ call.op = "metric" /\ ~IsA(store, f, "metric")
             \/ call.op = "enums" /\ ~IsA(store, f, "column")
          /\ Reads(Fail("wrong_kind"))
       \/ call.op = "traverse" /\ f \in Live(store) /\ Reads([call EXCEPT !.pc = "walk"])
       \/ call.op = "metric" /\ IsA(store, f, "metric") /\ Reads([call EXCEPT !.pc = "tables"])
       \/ call.op = "enums" /\ IsA(store, f, "column") /\ Reads([call EXCEPT !.pc = "values"])
       \/ /\ call.op = "detail" /\ f \in Live(store)
          /\ Reads([call EXCEPT !.pc = IF IsA(store, f, "column") THEN "values" ELSE "edges"])

\* A statement that fails ends the call; the vector channel only degrades.
StatementFails ==
    /\ call.pc \notin {"done", "vector"}
    /\ call' = Fail("internal")
    /\ UNCHANGED catalogue

-----------------------------------------------------------------------------
(* traverse_relations: breadth first, one statement for every node.        *)

DepthLimit(asked) == Capped(IF asked = 0 THEN 1 ELSE asked, MaxDepth)

Far(e, f) == IF e.dst = f THEN e.src ELSE e.dst

\* Seeded fault: the edge of a node that no longer fits is listed.
WalkNode_KeepsEdges ==
    /\ Busy("walk")
    /\ \E item \in call.queue :
        /\ \A other \in call.queue : item.depth <= other.depth
        /\ LET found == RelationEdges(store, call.type, item.fqn, call.direction)
               new   == {Far(e, item.fqn) : e \in found} \ call.nodes
           IN \E kept \in Kept(new, MaxNodes - Cardinality(call.nodes)) :
                Reads([call EXCEPT
                    !.nodes = @ \cup kept,
                    !.edges = @ \cup found,
                    !.queue = (@ \ {item}) \cup
                        {[fqn |-> f, depth |-> item.depth + 1] :
                            f \in IF item.depth + 1 < DepthLimit(call.asked) THEN kept ELSE {}},
                    !.truncated = @ \/ kept # new])

\* A new node beyond MaxNodes is dropped with its edges.  Nodes as deep as
\* the limit are not expanded, so they are not queued here.
WalkNode ==
    /\ Busy("walk")
    /\ \E item \in call.queue :
        /\ \A other \in call.queue : item.depth <= other.depth
        /\ LET found == RelationEdges(store, call.type, item.fqn, call.direction)
               new   == {Far(e, item.fqn) : e \in found} \ call.nodes
           IN \E kept \in Kept(new, MaxNodes - Cardinality(call.nodes)) :
                Reads([call EXCEPT
                    !.nodes = @ \cup kept,
                    !.edges = @ \cup {e \in found : Far(e, item.fqn) \in call.nodes \cup kept},
                    !.queue = (@ \ {item}) \cup
                        {[fqn |-> f, depth |-> item.depth + 1] :
                            f \in IF item.depth + 1 < DepthLimit(call.asked) THEN kept ELSE {}},
                    !.truncated = @ \/ kept # new])

\* entitiesByFQNs returns the nodes that are still live.
ListNodes ==
    /\ Busy("walk")
    /\ call.queue = {}
    /\ Reads([call EXCEPT !.pc = "done", !.listed = call.nodes \cap Live(store)])

-----------------------------------------------------------------------------
(* get_entity, list_enum_values, get_metric_definition.                    *)

\* One row more than is shown tells whether there are more.
ReadValues ==
    /\ Busy("values")
    /\ LET all == EnumValuesFor(store, call.on) IN
       \E shown \in Kept(all, EnumLimit) :
           Reads([call EXCEPT !.values = shown, !.truncated = Cardinality(all) > EnumLimit,
                              !.pc = IF call.op = "enums" THEN "count" ELSE "edges"])

CountValues ==
    /\ Busy("count")
    /\ Reads([call EXCEPT !.total = Cardinality(EnumValuesFor(store, call.on)), !.pc = "done"])

ReadEdges ==
    /\ Busy("edges")
    /\ LET all == {e \in store.edges : call.on \in {e.src, e.dst}} IN
       \E shown \in Kept(all, EdgeLimit) :
           Reads([call EXCEPT !.edges = shown, !.relTruncated = Cardinality(all) > EdgeLimit,
                              !.pc = "done"])

ReadTables ==
    /\ Busy("tables")
    /\ LET tables == MetricTables(store, call.on) IN
       Reads([call EXCEPT
            !.tables = tables, !.todo = tables,
            !.notes = IF tables = {} THEN {"no tables"}
                      ELSE IF Cardinality(tables) > 1 THEN {"join"} ELSE {},
            !.pc = IF tables # {} /\ call.ranged THEN "times" ELSE "done"])

\* The predicate goes to the first time column of each table.  A first note
\* on time replaces the note on the join.
ReadTime ==
    /\ Busy("times")
    /\ \E table \in call.todo :
        LET columns == Cardinality(TimeColumns(store, table)) IN
        Reads([call EXCEPT
            !.todo = @ \ {table},
            !.timed = IF columns > 0 THEN @ \cup {table} ELSE @,
            !.notes = IF columns = 0 THEN (@ \ {"join"}) \cup {"untimed"}
                      ELSE IF columns > 1 THEN (@ \ {"join"}) \cup {"several"} ELSE @,
            !.pc = IF call.todo = {table} THEN "done" ELSE @])

-----------------------------------------------------------------------------
(* search_entities: two ranked lists, fused by reciprocal rank.            *)

Entries(c, kinds) == {f \in Live(c) : c.kind[f] \in kinds}

\* FTS5, or LIKE when no word is long enough: the best matches, in order.
ReadKeywords ==
    /\ Busy("keyword")
    /\ \E kw \in Rankings(Entries(store, call.on), CandidateCap) :
        Reads([call EXCEPT !.kw = kw, !.pc = "vector"])

\* No rank is 0.
Rank(list, f) == IF f \in Range(list) THEN CHOOSE i \in DOMAIN list : list[i] = f ELSE 0

\* weight / (RrfK + rank) as a fraction, and the sum of two.
Part(weight, rank) == IF rank = 0 THEN <<0, 1>> ELSE <<weight, RrfK + rank>>
Sum(p, q) == <<p[1] * q[2] + q[1] * p[2], p[2] * q[2]>>

\* Seeded fault: both channels weigh the same.
Score_Even(kwRank, vecRank) == Sum(Part(VectorWeight, kwRank), Part(VectorWeight, vecRank))

Score(kwRank, vecRank) == Sum(Part(KeywordWeight, kwRank), Part(VectorWeight, vecRank))

\* The higher score first, then the better keyword rank, then the vector's.
Above(kw, vec, f, g) ==
    LET a == Score(Rank(kw, f), Rank(vec, f))
        b == Score(Rank(kw, g), Rank(vec, g))
        ahead == a[1] * b[2] - b[1] * a[2]
    IN \/ ahead > 0
       \/ ahead = 0 /\ Rank(kw, f) < Rank(kw, g)
       \/ ahead = 0 /\ Rank(kw, f) = Rank(kw, g) /\ Rank(vec, f) < Rank(vec, g)

IsFused(kw, vec, ranked) ==
    /\ Range(ranked) = Range(kw) \cup Range(vec)
    /\ \A i, j \in DOMAIN ranked : i < j => Above(kw, vec, ranked[i], ranked[j])

\* A failed or missing vector channel is an empty list.
ReadVectors ==
    /\ Busy("vector")
    /\ \E vec \in Rankings(Entries(store, call.on), CandidateCap) :
        LET union == Range(call.kw) \cup Range(vec) IN
        \E ranked \in Rankings(union, Cardinality(union)) :
            /\ IsFused(call.kw, vec, ranked)
            /\ Reads([call EXCEPT !.vec = vec, !.ranked = ranked, !.pc = "hits"])

\* The first SearchLimit that are still live; the total counts the others.
ReadHits ==
    /\ Busy("hits")
    /\ LET first == {call.ranked[i] : i \in 1..Capped(Len(call.ranked), SearchLimit)} IN
       Reads([call EXCEPT !.hits = first \cap Live(store), !.pc = "done"])

CallNext ==
    \/ Start \/ Return \/ ReadEntity \/ StatementFails
    \/ WalkNode \/ ListNodes
    \/ ReadValues \/ CountValues \/ ReadEdges \/ ReadTables \/ ReadTime
    \/ ReadKeywords \/ ReadVectors \/ ReadHits

-----------------------------------------------------------------------------
(* Properties.                                                             *)

\* The fields of a call that outlive its steps.
ReadsTypeOK ==
    /\ call.seen \subseteq Catalogues
    /\ call.error \in {"none", "invalid_request", "not_found", "wrong_kind", "internal"}
    /\ call.op = "traverse" => /\ call.nodes \subseteq Fqn /\ call.listed \subseteq call.nodes
                               /\ \A item \in call.queue : item.depth \in 0..MaxDepth - 1

Done(op) == call.op = op /\ call.pc = "done" /\ call.error = "none"

\* No sync committed between the statements of the call.
Undisturbed(c) == call.seen = {c}

\* The nodes and those next to them along the edges a walk follows; what is
\* within n steps of its start; the edges that leave some nodes.
Wider(c, walk, nodes) ==
    nodes \cup UNION {{Far(e, f) : e \in RelationEdges(c, walk.type, f, walk.direction)} :
                        f \in nodes}

Ball(c, walk, n) ==
    LET reach[k \in 0..n] == IF k = 0 THEN {walk.on} ELSE Wider(c, walk, reach[k - 1])
    IN  reach[n]

EdgesFrom(c, walk, nodes) ==
    UNION {RelationEdges(c, walk.type, f, walk.direction) : f \in nodes}

\* A traversal returns a subgraph: every edge joins two of its nodes and was
\* committed when the call read it.  Of one version it is all that lies within
\* the depth, or says that it was cut and is then full or shallower than
\* asked; only a sync in between loses a node it reached.
TraversalIsSubgraph ==
    Done("traverse") =>
        /\ Cardinality(call.nodes) <= MaxNodes
        /\ \A e \in call.edges : /\ {e.src, e.dst} \subseteq call.nodes
                                 /\ \E c \in call.seen : e \in c.edges
        /\ \A c \in Catalogues : Undisturbed(c) =>
              LET depth == DepthLimit(call.asked) IN
              /\ call.listed = call.nodes
              /\ call.nodes \subseteq Ball(c, call, depth)
              /\ \/ /\ call.nodes = Ball(c, call, depth)
                    /\ call.edges = EdgesFrom(c, call, Ball(c, call, depth - 1))
                    /\ call.truncated = (call.asked > MaxDepth)
                 \/ call.truncated /\ Cardinality(call.nodes) = MaxNodes

\* An answer read from one version agrees with itself: the total, the rows
\* and the mark of a cut answer, the time predicates and the notes on them,
\* the hits and the number of candidates.
AnswersAgree ==
    \A c \in Catalogues : Undisturbed(c) =>
        /\ Done("enums") =>
              /\ call.truncated = (call.total > Cardinality(call.values))
              /\ Cardinality(call.values) = Capped(call.total, EnumLimit)
        /\ Done("detail") =>
              IF call.relTruncated
              THEN Cardinality(call.edges) = EdgeLimit
              ELSE call.edges = {e \in c.edges : call.on \in {e.src, e.dst}}
        /\ Done("metric") /\ call.ranged =>
              /\ call.timed = {t \in call.tables : TimeColumns(c, t) # {}}
              /\ ("untimed" \in call.notes) = (call.timed # call.tables)
        /\ Done("search") =>
              Cardinality(call.hits) = Capped(Len(call.ranked), SearchLimit)

\* What a tool answers is right for the versions it read, though it reads in
\* several statements with syncs between them: a traversal is a subgraph
\* (search.go:457), and an answer of one version does not contradict itself.
AnswersAreRight == TraversalIsSubgraph /\ AnswersAgree

\* Every keyword hit is ranked before every hit of the vector channel alone
\* (ADR-0002), whatever the ranks in the two lists are.
KeywordsLead ==
    call.op = "search" =>
        \A i, j \in DOMAIN call.ranked :
            i < j /\ call.ranked[j] \in Range(call.kw) => call.ranked[i] \in Range(call.kw)
=============================================================================

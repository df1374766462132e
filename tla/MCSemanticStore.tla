--------------------------- MODULE MCSemanticStore ---------------------------
(* A finite instance of SemanticStore for TLC.                             *)
EXTENDS SemanticStore

Entity == [shop |-> "service", s_orders |-> "table", s_pays |-> "table", o_state |-> "column",
           churn |-> "metric", refunds |-> "concept",
           losses |-> "concept"]
Names == DOMAIN Entity
Tables == [o_state |-> "s_orders", o_at |-> "s_orders"]
Prefixes == [shop |-> {"s_orders", "s_pays"}]

Edge(type, src, dst) == [type |-> type, src |-> src, dst |-> dst]
Value(v) == [column |-> "o_state", value |-> v]

Version(live, edges, values, time) ==
    [kind |-> [f \in live |-> Entity[f]], edges |-> edges, enums |-> values, time |-> time]

Orders == {"shop", "s_orders", "o_state", "churn"}
Small == Version(Orders,
    {Edge("contains", "s_orders", "o_state"), Edge("describes", "churn", "s_orders")},
    {Value("open"), Value("shut")}, {"o_state"})
\* Everything there is; the two tables refer to each other.
Large == Version(Names,
    {Edge("contains", "s_orders", "o_state"),
     Edge("references", "s_orders", "s_pays"), Edge("references", "s_pays", "s_orders"),
     Edge("describes", "churn", "s_orders"), Edge("describes", "churn", "s_pays"),
     Edge("describes", "refunds", "churn"), Edge("describes", "refunds", "o_state")},
    {Value("open")}, {})
Bare == Version({"shop", "refunds", "losses"}, {}, {}, {})
\* "churn" is a concept now, of a column.
Turned == [Version(Orders, {Edge("contains", "s_orders", "o_state"),
                            Edge("describes", "churn", "o_state")}, {}, {})
            EXCEPT !.kind["churn"] = "concept"]
MCCatalogues == {Small, Large, Bare, Turned}

Target(user, form, name) == [user |-> user, form |-> form, name |-> name]
MCFiles == {{Target("ann", "prefix", "shop"), Target("bob", "table", "s_orders")},
            {Target("ann", "prefix", "shop"), Target("bob", "prefix", "shop")},
            {Target("ann", "concept", "refunds"), Target("bob", "metric", "churn")},
            {Target("bob", "metric", "churn")}}
MCUsers == {"ann", "bob"}
=============================================================================

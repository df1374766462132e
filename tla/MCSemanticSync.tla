--------------------------- MODULE MCSemanticSync ---------------------------
(* Finite instances of SemanticSync for TLC.                               *)
EXTENDS SemanticSync, TLC

CONSTANTS p1, p2

Def(fqn, kind, text, parent) ==
    [fqn |-> fqn, kind |-> kind, text |-> text, parent |-> parent,
     refs |-> {}, enums |-> << >>, wellFormed |-> TRUE]
Ref(to, on) == [to |-> to, on |-> on]
Enum(value, label) == [value |-> value, label |-> label]

orders == Def("orders", "table", "Orders", NoParent)
payments == [Def("payments", "table", "Payments", NoParent)
                EXCEPT !.refs = {Ref("orders", "order_id")}]
status == [Def("status", "column", "Status", "orders")
                EXCEPT !.enums = <<Enum("f", "failed")>>]
\* The same name as a metric over a table and as a concept about a column.
metric == [Def("churn", "metric", "Churn", NoParent) EXCEPT !.refs = {Ref("orders", "")}]
concept == [Def("churn", "concept", "Churn", NoParent) EXCEPT !.refs = {Ref("status", "")}]

Empty == << >>
\* Two foreign keys of one table to the same table.
Double == <<orders, status, [payments EXCEPT !.refs = {Ref("orders", "order_id"),
                                                       Ref("orders", "refund_id")}],
            metric>>
\* One foreign key, another text and label, the metric has become a concept.
Revised == <<[orders EXCEPT !.text = "All orders"],
             [status EXCEPT !.enums = <<Enum("f", "declined")>>], payments, concept>>
\* None of these compiles.
Dangling == <<payments>>
WrongKind == <<orders, status, [metric EXCEPT !.refs = {Ref("status", "")}]>>
Twice == <<orders, [metric EXCEPT !.fqn = "orders"]>>
DoubleEnum == <<orders, [status EXCEPT !.enums = <<Enum("f", "failed"), Enum("f", "failed")>>]>>
Malformed == <<orders, [metric EXCEPT !.wellFormed = FALSE]>>

Rejected == {Dangling, WrongKind, Twice, DoubleEnum, Malformed}
Directories == {Empty, Double, Revised} \cup Rejected
Processes == {p1, p2}

Symmetry == Permutations(Processes)
=============================================================================

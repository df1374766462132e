------------------------------ MODULE MCCteScope ------------------------------
(* Small syntax trees for CteScope.                                        *)
EXTENDS CteScope

a == Ref(NoSchema, "a")
b == Ref(NoSchema, "b")
qa == Ref("public", "a")
\* A table nobody knows.
q == Ref("public", "q")
Names == {a, b, qa}

Meanings == [r \in {a, b, qa, q} |->
    CASE r = a -> {"s.d.a", "s.e.a"} [] r = b -> {"s.d.b"} [] r = qa -> {"s.d.a"} [] OTHER -> {}]
Granted == {"s.d.a"}

Select(with, recursive, items) ==
    [kind |-> "select", with |-> with, recursive |-> recursive, items |-> items, clauses |-> {}]
From(items) == Select(<<>>, FALSE, items)
Write(items) ==
    [kind |-> "write", with |-> <<>>, recursive |-> FALSE, items |-> items, clauses |-> {}]

Flat == {From(<<x>>) : x \in Names}
Entry(name, body) == [name |-> name, body |-> body]
\* One or two entries, in either order.
Withs(bodies) ==
    {<<Entry(n, x)>> : n \in {"a", "b"}, x \in bodies} \cup
    {<<Entry("a", x), Entry("b", y)>> : x, y \in bodies} \cup
    {<<Entry("b", x), Entry("a", y)>> : x, y \in bodies}

\* A subquery with a WITH of its own, so that scopes nest and end.
Subqueries ==
    {Select(<<Entry(n, From(<<x>>))>>, FALSE, <<y>>) : n \in {"a", "b"}, x \in Names, y \in {a, b}}

Trees ==
    {Select(w, r, items) :
        w \in Withs(Flat \cup {Write(<<b>>)}), r \in BOOLEAN,
        items \in {<<x>> : x \in Names} \cup {<<a, qa>>}}
    \cup {Select(w, r, <<s, x>>) :
        w \in Withs({From(<<a>>), From(<<qa>>)}), r \in BOOLEAN, s \in Subqueries, x \in {a, b}}
    \cup {Select(<<Entry("a", s)>>, FALSE, <<x>>) : s \in Subqueries, x \in {a, b}}
    \cup {From(<<s, x>>) : s \in Subqueries, x \in {a, b}}

Into == [From(<<a>>) EXCEPT !.clauses = {"into"}]
Lock == [From(<<a>>) EXCEPT !.clauses = {"lock"}]

Inputs ==
    {<<t>> : t \in Trees}
    \cup {<<Write(<<a>>)>>, <<>>, <<From(<<q>>)>>, <<Into>>, <<From(<<b, Lock>>)>>}
    \cup {<<s, From(<<x>>)>> : s \in Subqueries, x \in {a, b, q}}
    \cup {<<From(<<b>>), Into>>, <<From(<<a>>), Write(<<a>>)>>}
=============================================================================

------------------------------ MODULE MCGateway ------------------------------
(* A small daemon for TLC: two users, one with two keys and all the grants. *)
EXTENDS Gateway, TLC

CONSTANTS k1, k2, k3, u1, u2, t1, t2, c1, c2

Keys == {k1, k2, k3}
Users == {u1, u2}
Tables == {t1}
Grants == {<<u1, t1>>}
Calls == {c1, c2}
OwnerOf == [k \in Keys |-> IF k = k3 THEN u2 ELSE u1]

\* Permissions change in the behaviours that use one key and lose no process.
OneKeyWrites ==
    version > 0 => crashes = 0 /\ Cardinality({k \in Key : cred[k] # "absent"}) <= 1

Symmetry == Permutations(Calls) \cup Permutations({k1, k2})

\* One key, two tables: the snapshot moves under a statement.
OneKey == {k1}
OneUser == {u1}
TwoTables == {t1, t2}
BothGrants == OneUser \X TwoTables
OneOwner == [k \in OneKey |-> u1]
=============================================================================

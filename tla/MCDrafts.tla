----------------------------- MODULE MCDrafts -----------------------------
(* Structures for TLC: a column whose type changes, an edge that comes and *)
(* goes, a value listed twice.                                             *)
EXTENDS Drafts

CONSTANTS a, b

Structures ==
    {"col" :> "int" @@ "edge" :> "ref",
     "col" :> "text" @@ "twice" :> "value",
     "edge" :> "ref"}
Symmetry == Permutations(Service)
Models == [s \in Service |-> {"col"}]

\* Two ways to spend the bounds: a few steps about both services, or many about
\* one when the other is neither listed nor changed.
Short == edits + faults <= 3 /\ scans <= 2 /\ faults <= 1
Long == \E s \in Service :
    /\ s \notin DOMAIN manifest
    /\ repo[s] = "edge" :> "ref"
    /\ disk[s].kind = "none"
    /\ \A t \in Service : disk[t].service # s

MCSpec == Init /\ [][Next /\ (Short' \/ Long')]_vars
===========================================================================

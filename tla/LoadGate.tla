------------------------------ MODULE LoadGate ------------------------------
(***************************************************************************)
(* internal/loadgate: two counting semaphores with a try-acquire and no    *)
(* queue, under one mutex.  Each method is one atomic step.                *)
(***************************************************************************)
EXTENDS Integers

CONSTANTS
    Key,        \* credential rows (their ids)
    PerKey,     \* Gate.perKey: queries one key may run at a time
    Total       \* Gate.total: queries the process may run at a time

\* loadgate.New rejects every other pair of limits.
ASSUME LimitsAssumption == PerKey \in Nat \ {0} /\ Total \in Nat /\ Total >= PerKey

VARIABLES
    keyCur,     \* Gate.keyCur; a key the Go map does not hold counts 0
    totalCur    \* Gate.totalCur

gate == <<keyCur, totalCur>>

EmptyGate == keyCur = [k \in Key |-> 0] /\ totalCur = 0

\* Either limit reached: the two refusals of TryAcquire.
Full(k) == keyCur[k] >= PerKey \/ totalCur >= Total

\* TryAcquire that returns nil.
Acquire(k) ==
    /\ ~Full(k)
    /\ keyCur' = [keyCur EXCEPT ![k] = @ + 1]
    /\ totalCur' = totalCur + 1

\* Release: a key that holds no slot changes nothing, so the process counter
\* stays the sum of the key counters.
Release(k) ==
    IF keyCur[k] <= 0
    THEN UNCHANGED gate
    ELSE /\ keyCur' = [keyCur EXCEPT ![k] = @ - 1]
         /\ totalCur' = totalCur - 1
=============================================================================

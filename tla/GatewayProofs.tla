---------------------------- MODULE GatewayProofs ----------------------------
(***************************************************************************)
(* Proofs about Gateway for every finite set of calls, every key, user and *)
(* table, every pair of limits the load gate accepts and every bound: type *)
(* correctness, the exactness of the load gate, what a query may read, the *)
(* effect of a revocation, and the truth of the execution record.  Below,  *)
(* about CteScope, the SQL validation every call goes through: its verdict *)
(* is right for every input of statements of a bounded depth.              *)
(***************************************************************************)
EXTENDS Gateway, CteScope, FiniteSetTheorems, WellFoundedInduction, SequenceTheorems, TLAPS

\* The snapshot is empty or the whole version floor.
ViewIsWhole == allowed = {} \/ allowed = hist[floor]

\* Every table the loop has passed was granted by a version served since the
\* call arrived.
PassedWasGranted(c) ==
    \A t \in call[c].tables \ call[c].todo : \E v \in call[c].since .. floor :
        <<Owner[call[c].key], t>> \in hist[v]

\* What a call's place in the chain says about it.
CallKnows(c) ==
    /\ call[c].since <= floor
    /\ call[c].pc \in {"release", "record"} => call[c].outcome \in Status
    /\ call[c].pc \in {"verify", "handler", "validate"} => call[c].todo = call[c].tables
    /\ call[c].pc = "query" => call[c].todo = {}
    /\ call[c].pc \in {"authorize", "query"} => PassedWasGranted(c)
    /\ call[c].was = "revoked" =>
          /\ cred[call[c].presented] = "revoked"
          /\ call[c].pc \in {"verify", "done", "lost"}
          /\ call[c].outcome \in {"none", "unauthorized", "fault"}

IInv ==
    /\ TypeOK
    /\ ViewIsWhole
    /\ \A c \in Call : CallKnows(c)
    /\ SlotsAccounted

-----------------------------------------------------------------------------
(* Updates of one call                                                     *)

\* One step of call c in the chain.
Updated(c, pc, todo, ran, o) ==
    call' = [call EXCEPT ![c] = [call[c] EXCEPT !.pc = pc, !.todo = todo, !.ran = ran, !.outcome = o]]

\* Goto and Finish are such updates.
LEMMA GotoUpdates ==
    ASSUME call \in [Call -> CallState], NEW c \in Call, NEW pc, Goto(c, pc)
    PROVE  Updated(c, pc, call[c].todo, call[c].ran, call[c].outcome)
<1>1. call[c] \in CallState
  OBVIOUS
<1>2. [call[c] EXCEPT !.pc = pc]
        = [call[c] EXCEPT !.pc = pc, !.todo = call[c].todo, !.ran = call[c].ran, !.outcome = call[c].outcome]
  BY <1>1 DEF CallState
<1>. QED  BY <1>2 DEF Goto, Updated

LEMMA FinishUpdates ==
    ASSUME call \in [Call -> CallState], NEW c \in Call, NEW pc, NEW o, Finish(c, pc, o)
    PROVE  Updated(c, pc, call[c].todo, call[c].ran, o)
<1>1. call[c] \in CallState
  OBVIOUS
<1>2. [call[c] EXCEPT !.pc = pc, !.outcome = o]
        = [call[c] EXCEPT !.pc = pc, !.todo = call[c].todo, !.ran = call[c].ran, !.outcome = o]
  BY <1>1 DEF CallState
<1>3. call' = [call EXCEPT ![c] = [call[c] EXCEPT !.pc = pc, !.outcome = o]]
  BY DEF Finish
<1>. QED  BY <1>2, <1>3 DEF Updated

\* What an update leaves: the other calls, and the identity of this one.
LEMMA UpdateEffect ==
    ASSUME call \in [Call -> CallState], NEW c \in Call,
           NEW pc \in {"new", "verify", "handler", "record", "done", "lost"} \cup SlotHeld,
           NEW o \in Outcome, NEW todo \in SUBSET Table, NEW ran \in {"no", "part", "whole"},
           Updated(c, pc, todo, ran, o)
    PROVE  /\ call' \in [Call -> CallState]
           /\ \A d \in Call \ {c} : call'[d] = call[d]
           /\ call'[c].pc = pc /\ call'[c].todo = todo /\ call'[c].outcome = o
           /\ call'[c].presented = call[c].presented /\ call'[c].key = call[c].key
           /\ call'[c].tables = call[c].tables /\ call'[c].since = call[c].since
           /\ call'[c].was = call[c].was
<1>1. call[c] \in CallState
  OBVIOUS
<1>2. call'[c] = [call[c] EXCEPT !.pc = pc, !.todo = todo, !.ran = ran, !.outcome = o]
  BY DEF Updated
<1>3. call'[c] \in CallState
  BY <1>1, <1>2 DEF CallState
<1>4. call' \in [Call -> CallState] /\ \A d \in Call \ {c} : call'[d] = call[d]
  BY <1>2, <1>3 DEF Updated
<1>5. /\ call'[c].pc = pc /\ call'[c].todo = todo /\ call'[c].outcome = o
      /\ call'[c].presented = call[c].presented /\ call'[c].key = call[c].key
      /\ call'[c].tables = call[c].tables /\ call'[c].since = call[c].since
      /\ call'[c].was = call[c].was
  BY <1>1, <1>2 DEF CallState
<1>. QED  BY <1>4, <1>5

\* What CallKnows asks of the new place, under an unchanged view.
NewPlaceFits(c, pc, todo, o) ==
    /\ pc \in {"release", "record"} => o \in Status
    /\ pc \in {"verify", "handler", "validate"} => todo = call[c].tables
    /\ pc = "query" => todo = {}
    /\ pc \in {"authorize", "query"} =>
          \A t \in call[c].tables \ todo : \E v \in call[c].since .. floor :
              <<Owner[call[c].key], t>> \in hist[v]
    /\ call[c].was = "revoked" =>
          /\ pc \in {"verify", "done", "lost"}
          /\ o \in {"none", "unauthorized", "fault"}

LEMMA UpdateKeepsCalls ==
    ASSUME IInv, NEW c \in Call,
           NEW pc \in {"new", "verify", "handler", "record", "done", "lost"} \cup SlotHeld,
           NEW o \in Outcome, NEW todo \in SUBSET Table, NEW ran \in {"no", "part", "whole"},
           Updated(c, pc, todo, ran, o), NewPlaceFits(c, pc, todo, o), UNCHANGED <<view, cred>>
    PROVE  /\ call' \in [Call -> CallState]
           /\ \A d \in Call : CallKnows(d)'
           /\ ViewIsWhole'
<1>1. /\ call' \in [Call -> CallState]
      /\ \A d \in Call \ {c} : call'[d] = call[d]
      /\ call'[c].pc = pc /\ call'[c].todo = todo /\ call'[c].outcome = o
      /\ call'[c].presented = call[c].presented /\ call'[c].key = call[c].key
      /\ call'[c].tables = call[c].tables /\ call'[c].since = call[c].since
      /\ call'[c].was = call[c].was
  BY UpdateEffect DEF IInv, TypeOK
<1>2. UNCHANGED <<version, hist, allowed, floor, cred>>
  BY DEF view
<1>3. CallKnows(c)
  BY DEF IInv
<1>4. CallKnows(c)'
  BY <1>1, <1>2, <1>3 DEF CallKnows, NewPlaceFits, PassedWasGranted
<1>5. ASSUME NEW d \in Call \ {c} PROVE CallKnows(d)'
  <2>1. CallKnows(d) /\ call'[d] = call[d]
    BY <1>1 DEF IInv
  <2>. QED  BY <1>2, <2>1 DEF CallKnows, PassedWasGranted
<1>6. ViewIsWhole'
  BY <1>2 DEF IInv, ViewIsWhole
<1>. QED  BY <1>1, <1>4, <1>5, <1>6

-----------------------------------------------------------------------------
(* The load gate                                                           *)

LEMMA HoldersFinite ==
    IsFiniteSet(AllHolders) /\ \A k \in Key : IsFiniteSet(Holders(k))
<1>1. AllHolders \in SUBSET Call /\ \A k \in Key : Holders(k) \in SUBSET Call
  BY DEF AllHolders, Holders
<1>. QED  BY <1>1, CallAssumption, FS_Subset

\* A step that leaves every call on its side of the gate.
LEMMA SlotsStay ==
    ASSUME SlotsAccounted, UNCHANGED gate,
           \A d \in Call : /\ call'[d].pc \in SlotHeld <=> call[d].pc \in SlotHeld
                           /\ call[d].pc \in SlotHeld => call'[d].key = call[d].key
    PROVE  SlotsAccounted'
<1>1. AllHolders' = AllHolders /\ \A k \in Key : Holders(k)' = Holders(k)
  BY DEF AllHolders, Holders
<1>. QED  BY <1>1 DEF SlotsAccounted, gate

\* Call c passes the gate: one more holder, counted once by its key and once by
\* the process, under limits that were not reached.
LEMMA SlotTaken ==
    ASSUME TypeOK, SlotsAccounted, NEW c \in Call, call[c].key \in Key,
           call[c].pc \notin SlotHeld, Acquire(call[c].key),
           call'[c].pc \in SlotHeld, call'[c].key = call[c].key,
           \A d \in Call \ {c} : call'[d] = call[d]
    PROVE  SlotsAccounted'
<1>. DEFINE key == call[c].key
<1>1. AllHolders' = AllHolders \cup {c} /\ c \notin AllHolders
  BY DEF AllHolders
<1>2. Holders(key)' = Holders(key) \cup {c} /\ c \notin Holders(key)
  BY DEF Holders
<1>3. \A k \in Key \ {key} : Holders(k)' = Holders(k)
  BY DEF Holders
<1>4. /\ Cardinality(AllHolders') = Cardinality(AllHolders) + 1
      /\ Cardinality(Holders(key)') = Cardinality(Holders(key)) + 1
  BY <1>1, <1>2, HoldersFinite, FS_AddElement
<1>5. /\ keyCur' = [keyCur EXCEPT ![key] = @ + 1] /\ totalCur' = totalCur + 1
      /\ ~(keyCur[key] >= PerKey) /\ ~(totalCur >= Total)
  BY DEF Acquire, Full
<1>6. keyCur \in [Key -> Nat] /\ totalCur \in Nat
  BY DEF TypeOK
<1>7. totalCur' = Cardinality(AllHolders)' /\ totalCur' <= Total
  BY <1>4, <1>5, <1>6, LimitsAssumption DEF SlotsAccounted
<1>8. ASSUME NEW k \in Key
      PROVE  keyCur'[k] = Cardinality(Holders(k))' /\ keyCur'[k] <= PerKey
  <2>1. CASE k = key
    BY <1>4, <1>5, <1>6, <2>1, LimitsAssumption DEF SlotsAccounted
  <2>2. CASE k # key
    BY <1>3, <1>5, <1>6, <2>2 DEF SlotsAccounted
  <2>. QED  BY <2>1, <2>2
<1>. QED  BY <1>7, <1>8 DEF SlotsAccounted

\* Call c leaves: the guard of Release lets it through, because c is counted.
LEMMA SlotFreed ==
    ASSUME TypeOK, SlotsAccounted, NEW c \in Call, call[c].key \in Key,
           call[c].pc \in SlotHeld, Release(call[c].key),
           call'[c].pc \notin SlotHeld, call'[c].key = call[c].key,
           \A d \in Call \ {c} : call'[d] = call[d]
    PROVE  SlotsAccounted'
<1>. DEFINE key == call[c].key
<1>1. AllHolders' = AllHolders \ {c} /\ c \in AllHolders
  BY DEF AllHolders
<1>2. Holders(key)' = Holders(key) \ {c} /\ c \in Holders(key)
  BY DEF Holders
<1>3. \A k \in Key \ {key} : Holders(k)' = Holders(k)
  BY DEF Holders
<1>4. /\ Cardinality(AllHolders') = Cardinality(AllHolders) - 1
      /\ Cardinality(Holders(key)') = Cardinality(Holders(key)) - 1
  BY <1>1, <1>2, HoldersFinite, FS_RemoveElement
<1>5. Cardinality(Holders(key)) # 0 /\ Cardinality(Holders(key)) \in Nat
  BY <1>2, HoldersFinite, FS_EmptySet, FS_CardinalityType
<1>6. keyCur \in [Key -> Nat] /\ totalCur \in Nat
  BY DEF TypeOK
<1>7. keyCur' = [keyCur EXCEPT ![key] = @ - 1] /\ totalCur' = totalCur - 1
  BY <1>5, <1>6 DEF Release, SlotsAccounted
<1>8. totalCur' = Cardinality(AllHolders)' /\ totalCur' <= Total
  BY <1>4, <1>6, <1>7, LimitsAssumption DEF SlotsAccounted
<1>9. ASSUME NEW k \in Key
      PROVE  keyCur'[k] = Cardinality(Holders(k))' /\ keyCur'[k] <= PerKey
  <2>1. CASE k = key
    BY <1>4, <1>6, <1>7, <2>1, LimitsAssumption DEF SlotsAccounted
  <2>2. CASE k # key
    BY <1>3, <1>6, <1>7, <2>2 DEF SlotsAccounted
  <2>. QED  BY <2>1, <2>2
<1>. QED  BY <1>8, <1>9 DEF SlotsAccounted

-----------------------------------------------------------------------------
(* Steps of a call                                                         *)

PCs == {"new", "verify", "handler", "record", "done", "lost"} \cup SlotHeld

\* A step of the chain that keeps the call on its side of the gate.
LEMMA SameSide ==
    ASSUME IInv, NEW c \in Call, NEW pc \in PCs, NEW o \in Outcome,
           NEW todo \in SUBSET Table, NEW ran \in {"no", "part", "whole"},
           Updated(c, pc, todo, ran, o), NewPlaceFits(c, pc, todo, o),
           UNCHANGED <<view, cred, gate>>, pc \in SlotHeld <=> call[c].pc \in SlotHeld
    PROVE  /\ call' \in [Call -> CallState]
           /\ \A d \in Call : CallKnows(d)'
           /\ ViewIsWhole'
           /\ SlotsAccounted'
<1>1. /\ call' \in [Call -> CallState]
      /\ \A d \in Call : CallKnows(d)'
      /\ ViewIsWhole'
  BY UpdateKeepsCalls DEF PCs
<1>2. /\ \A d \in Call \ {c} : call'[d] = call[d]
      /\ call'[c].pc = pc /\ call'[c].key = call[c].key
  BY UpdateEffect DEF PCs, IInv, TypeOK
<1>3. SlotsAccounted'
  BY <1>2, SlotsStay DEF IInv
<1>. QED  BY <1>1, <1>3

\* What every step of a call preserves; the rest of TypeOK is about variables
\* that few steps touch.
CallsKept ==
    /\ call' \in [Call -> CallState]
    /\ \A d \in Call : CallKnows(d)'
    /\ ViewIsWhole'
    /\ SlotsAccounted'

LEMMA CallFields ==
    ASSUME IInv, NEW c \in Call
    PROVE  /\ call[c].pc \in PCs /\ call[c].outcome \in Outcome /\ call[c].key \in Key
           /\ call[c].todo \in SUBSET Table /\ call[c].tables \in SUBSET Table
           /\ call[c].ran \in {"no", "part", "whole"}
           /\ CallKnows(c)
  BY DEF IInv, TypeOK, CallState, PCs

LEMMA BeforeGate ==
    ASSUME IInv, NEW c \in Call,
           Verify(c) \/ Deny(c) \/ VerifyFails(c) \/ Semantic(c) \/ Refuse(c)
    PROVE  CallsKept
<1>. USE DEF Outcome, Status, SlotHeld
<1>1. CASE Verify(c)
  <2>1. NewPlaceFits(c, "handler", call[c].todo, call[c].outcome)
    BY <1>1, CallFields DEF Verify, NewPlaceFits, CallKnows
  <2>2. Updated(c, "handler", call[c].todo, call[c].ran, call[c].outcome)
    BY <1>1, GotoUpdates DEF Verify, IInv, TypeOK
  <2>. QED  BY <1>1, <2>1, <2>2, CallFields, SameSide DEF Verify, CallsKept, PCs
<1>2. CASE Deny(c)
  <2>1. NewPlaceFits(c, "done", call[c].todo, "unauthorized")
    BY DEF NewPlaceFits
  <2>2. Updated(c, "done", call[c].todo, call[c].ran, "unauthorized")
    BY <1>2, FinishUpdates DEF Deny, IInv, TypeOK
  <2>. QED  BY <1>2, <2>1, <2>2, CallFields, SameSide DEF Deny, CallsKept, PCs
<1>3. CASE VerifyFails(c)
  <2>1. NewPlaceFits(c, "done", call[c].todo, "fault")
    BY DEF NewPlaceFits
  <2>2. Updated(c, "done", call[c].todo, call[c].ran, "fault")
    BY <1>3, FinishUpdates DEF VerifyFails, IInv, TypeOK
  <2>. QED  BY <1>3, <2>1, <2>2, CallFields, SameSide DEF VerifyFails, CallsKept, PCs
<1>4. CASE Semantic(c)
  <2>1. PICK o \in {"success", "rejected"} : Finish(c, "record", o)
    BY <1>4 DEF Semantic
  <2>2. NewPlaceFits(c, "record", call[c].todo, o)
    BY <1>4, CallFields DEF Semantic, NewPlaceFits, CallKnows
  <2>3. Updated(c, "record", call[c].todo, call[c].ran, o)
    BY <2>1, FinishUpdates DEF IInv, TypeOK
  <2>. QED  BY <1>4, <2>2, <2>3, CallFields, SameSide DEF Semantic, CallsKept, PCs
<1>5. CASE Refuse(c)
  <2>1. NewPlaceFits(c, "record", call[c].todo, "rejected")
    BY <1>5, CallFields DEF Refuse, NewPlaceFits, CallKnows
  <2>2. Updated(c, "record", call[c].todo, call[c].ran, "rejected")
    BY <1>5, FinishUpdates DEF Refuse, IInv, TypeOK
  <2>. QED  BY <1>5, <2>1, <2>2, CallFields, SameSide DEF Refuse, CallsKept, PCs
<1>. QED  BY <1>1, <1>2, <1>3, <1>4, <1>5

LEMMA ThroughGate ==
    ASSUME IInv, NEW c \in Call, Admit(c) \/ FreeSlot(c)
    PROVE  CallsKept
<1>. USE DEF Outcome, Status, SlotHeld
<1>1. CASE Admit(c)
  <2>1. NewPlaceFits(c, "validate", call[c].todo, call[c].outcome)
    BY <1>1, CallFields DEF Admit, NewPlaceFits, CallKnows
  <2>2. Updated(c, "validate", call[c].todo, call[c].ran, call[c].outcome)
    BY <1>1, GotoUpdates DEF Admit, IInv, TypeOK
  <2>3. /\ call' \in [Call -> CallState] /\ \A d \in Call : CallKnows(d)'
        /\ ViewIsWhole'
    BY <1>1, <2>1, <2>2, CallFields, UpdateKeepsCalls DEF Admit
  <2>4. /\ \A d \in Call \ {c} : call'[d] = call[d]
        /\ call'[c].pc = "validate" /\ call'[c].key = call[c].key
    BY <2>2, CallFields, UpdateEffect DEF IInv, TypeOK
  <2>5. SlotsAccounted'
    BY <1>1, <2>4, CallFields, SlotTaken DEF Admit, IInv
  <2>. QED  BY <2>3, <2>5 DEF CallsKept
<1>2. CASE FreeSlot(c)
  <2>1. NewPlaceFits(c, "record", call[c].todo, call[c].outcome)
    BY <1>2, CallFields DEF FreeSlot, NewPlaceFits, CallKnows
  <2>2. Updated(c, "record", call[c].todo, call[c].ran, call[c].outcome)
    BY <1>2, GotoUpdates DEF FreeSlot, IInv, TypeOK
  <2>3. /\ call' \in [Call -> CallState] /\ \A d \in Call : CallKnows(d)'
        /\ ViewIsWhole'
    BY <1>2, <2>1, <2>2, CallFields, UpdateKeepsCalls DEF FreeSlot
  <2>4. /\ \A d \in Call \ {c} : call'[d] = call[d]
        /\ call'[c].pc = "record" /\ call'[c].key = call[c].key
    BY <2>2, CallFields, UpdateEffect DEF IInv, TypeOK
  <2>5. SlotsAccounted'
    BY <1>2, <2>4, CallFields, SlotFreed DEF FreeSlot, IInv
  <2>. QED  BY <2>3, <2>5 DEF CallsKept
<1>. QED  BY <1>1, <1>2

LEMMA BehindGate ==
    ASSUME IInv, NEW c \in Call, Validate(c) \/ CheckTable(c) \/ Execute(c) \/ QueryEnds(c)
    PROVE  CallsKept
<1>. USE DEF Outcome, Status, SlotHeld
<1>1. CASE Validate(c)
  <2>1. CASE call[c].sql = "syntax"
    <3>1. Finish(c, "release", "parse_error")
      BY <1>1, <2>1 DEF Validate
    <3>2. NewPlaceFits(c, "release", call[c].todo, "parse_error")
      BY <1>1, CallFields DEF Validate, NewPlaceFits, CallKnows
    <3>3. Updated(c, "release", call[c].todo, call[c].ran, "parse_error")
      BY <3>1, FinishUpdates DEF IInv, TypeOK
    <3>. QED  BY <1>1, <3>2, <3>3, CallFields, SameSide DEF Validate, CallsKept, PCs
  <2>2. CASE call[c].sql = "query"
    <3>1. Goto(c, "authorize")
      BY <1>1, <2>2 DEF Validate
    <3>2. NewPlaceFits(c, "authorize", call[c].todo, call[c].outcome)
      BY <1>1, CallFields DEF Validate, NewPlaceFits, CallKnows
    <3>3. Updated(c, "authorize", call[c].todo, call[c].ran, call[c].outcome)
      BY <3>1, GotoUpdates DEF IInv, TypeOK
    <3>. QED  BY <1>1, <3>2, <3>3, CallFields, SameSide DEF Validate, CallsKept, PCs
  <2>3. CASE call[c].sql \notin {"syntax", "query"}
    <3>1. Finish(c, "release", "rejected")
      BY <1>1, <2>3 DEF Validate
    <3>2. NewPlaceFits(c, "release", call[c].todo, "rejected")
      BY <1>1, CallFields DEF Validate, NewPlaceFits, CallKnows
    <3>3. Updated(c, "release", call[c].todo, call[c].ran, "rejected")
      BY <3>1, FinishUpdates DEF IInv, TypeOK
    <3>. QED  BY <1>1, <3>2, <3>3, CallFields, SameSide DEF Validate, CallsKept, PCs
  <2>. QED  BY <2>1, <2>2, <2>3
<1>2. CASE CheckTable(c)
  <2>1. PICK t \in call[c].todo :
            IF <<Owner[call[c].key], t>> \in allowed
            THEN call' = [call EXCEPT ![c].todo = @ \ {t}]
            ELSE Finish(c, "release", "rejected")
    BY <1>2 DEF CheckTable
  <2>2. CASE <<Owner[call[c].key], t>> \in allowed
    \* The snapshot holds the pair: then it is the version floor, which is no
    \* older than the call's arrival.
    <3>. DEFINE left == call[c].todo \ {t}
    <3>1. <<Owner[call[c].key], t>> \in hist[floor] /\ floor \in call[c].since .. floor
      <4>1. floor \in Nat /\ call[c].since \in Nat
        BY DEF IInv, TypeOK, CallState, View!ViewTypeOK
      <4>. QED  BY <2>2, <4>1, CallFields DEF IInv, ViewIsWhole, CallKnows
    <3>2. NewPlaceFits(c, "authorize", left, call[c].outcome)
      BY <1>2, <3>1, CallFields DEF CheckTable, NewPlaceFits, CallKnows, PassedWasGranted
    <3>3. Updated(c, "authorize", left, call[c].ran, call[c].outcome)
      <4>1. call[c] \in CallState /\ call[c].pc = "authorize"
        BY <1>2 DEF CheckTable, IInv, TypeOK
      <4>2. [call[c] EXCEPT !.todo = left]
              = [call[c] EXCEPT !.pc = "authorize", !.todo = left, !.ran = call[c].ran,
                                !.outcome = call[c].outcome]
        BY <4>1 DEF CallState
      <4>. QED  BY <2>1, <2>2, <4>2 DEF Updated
    <3>. QED  BY <1>2, <3>2, <3>3, CallFields, SameSide DEF CheckTable, CallsKept, PCs
  <2>3. CASE <<Owner[call[c].key], t>> \notin allowed
    <3>1. Finish(c, "release", "rejected")
      BY <2>1, <2>3
    <3>2. NewPlaceFits(c, "release", call[c].todo, "rejected")
      BY <1>2, CallFields DEF CheckTable, NewPlaceFits, CallKnows
    <3>3. Updated(c, "release", call[c].todo, call[c].ran, "rejected")
      BY <3>1, FinishUpdates DEF IInv, TypeOK
    <3>. QED  BY <1>2, <3>2, <3>3, CallFields, SameSide DEF CheckTable, CallsKept, PCs
  <2>. QED  BY <2>2, <2>3
<1>3. CASE Execute(c)
  <2>1. NewPlaceFits(c, "query", call[c].todo, call[c].outcome)
    BY <1>3, CallFields DEF Execute, NewPlaceFits, CallKnows, PassedWasGranted
  <2>2. Updated(c, "query", call[c].todo, call[c].ran, call[c].outcome)
    BY <1>3, GotoUpdates DEF Execute, IInv, TypeOK
  <2>. QED  BY <1>3, <2>1, <2>2, CallFields, SameSide DEF Execute, CallsKept, PCs
<1>4. CASE QueryEnds(c)
  <2>1. PICK o \in {"success", "timeout", "rejected"} :
            call' = [call EXCEPT ![c].pc = "release", ![c].outcome = o,
                                 ![c].ran = IF o = "success" THEN "whole" ELSE "part"]
    BY <1>4 DEF QueryEnds
  <2>. DEFINE ran == IF o = "success" THEN "whole" ELSE "part"
  <2>2. NewPlaceFits(c, "release", call[c].todo, o)
    BY <1>4, CallFields DEF QueryEnds, NewPlaceFits, CallKnows
  <2>3. Updated(c, "release", call[c].todo, ran, o)
    <3>. HIDE DEF ran
    <3>1. call[c] \in CallState
      BY DEF IInv, TypeOK
    <3>2. call' = [call EXCEPT ![c] = [call[c] EXCEPT !.pc = "release", !.outcome = o, !.ran = ran]]
      BY <2>1 DEF ran
    <3>3. [call[c] EXCEPT !.pc = "release", !.outcome = o, !.ran = ran]
            = [call[c] EXCEPT !.pc = "release", !.todo = call[c].todo, !.ran = ran, !.outcome = o]
      BY <3>1 DEF CallState
    <3>. QED  BY <3>2, <3>3 DEF Updated
  <2>. QED  BY <1>4, <2>2, <2>3, CallFields, SameSide DEF QueryEnds, CallsKept, PCs
<1>. QED  BY <1>1, <1>2, <1>3, <1>4

LEMMA AfterGate ==
    ASSUME IInv, NEW c \in Call, WriteRecord(c) \/ RecordFails(c)
    PROVE  CallsKept
<1>. USE DEF Outcome, Status, SlotHeld
<1>1. call[c].pc = "record" /\ Goto(c, "done") /\ UNCHANGED <<view, cred, gate>>
  BY DEF WriteRecord, RecordFails
<1>2. NewPlaceFits(c, "done", call[c].todo, call[c].outcome)
  BY <1>1, CallFields DEF NewPlaceFits, CallKnows
<1>3. Updated(c, "done", call[c].todo, call[c].ran, call[c].outcome)
  BY <1>1, GotoUpdates DEF IInv, TypeOK
<1>. QED  BY <1>1, <1>2, <1>3, CallFields, SameSide DEF CallsKept, PCs

LEMMA ArriveKeeps ==
    ASSUME IInv, NEW c \in Call, Arrive(c)
    PROVE  CallsKept
<1>1. PICK presented \in Key, key \in Key, stmt \in Statement, wanted \in SUBSET Table :
        call' = [call EXCEPT ![c] = Request(presented, key, stmt, wanted)]
  BY DEF Arrive
<1>. DEFINE r == [pc |-> "verify", presented |-> presented, key |-> key, sql |-> stmt,
                  tables |-> wanted, todo |-> wanted, since |-> floor,
                  was |-> cred[presented], ran |-> "no", outcome |-> "none"]
<1>2. call' = [call EXCEPT ![c] = r]
  BY <1>1 DEF Request
<1>3. r \in CallState
  BY DEF CallState, Outcome, IInv, TypeOK, View!ViewTypeOK
<1>4. /\ call' \in [Call -> CallState] /\ call'[c] = r
      /\ \A d \in Call \ {c} : call'[d] = call[d]
  BY <1>2, <1>3 DEF IInv, TypeOK
<1>5. UNCHANGED <<version, hist, allowed, floor, cred, keyCur, totalCur>> /\ call[c].pc = "new"
  BY DEF Arrive, view, gate
<1>6. CallKnows(c)'
  BY <1>4, <1>5 DEF CallKnows, PassedWasGranted, IInv, TypeOK, View!ViewTypeOK
<1>7. ASSUME NEW d \in Call \ {c} PROVE CallKnows(d)'
  <2>1. CallKnows(d) /\ call'[d] = call[d]
    BY <1>4 DEF IInv
  <2>. QED  BY <1>5, <2>1 DEF CallKnows, PassedWasGranted
<1>8. ViewIsWhole'
  BY <1>5 DEF IInv, ViewIsWhole
<1>9. SlotsAccounted'
  BY <1>4, <1>5, SlotsStay DEF IInv, SlotHeld, gate
<1>. QED  BY <1>4, <1>6, <1>7, <1>8, <1>9 DEF CallsKept

LEMMA CallKeeps ==
    ASSUME IInv, NEW c \in Call, Arrive(c) \/ CallStep(c)
    PROVE  CallsKept
  BY BeforeGate, ThroughGate, BehindGate, AfterGate, ArriveKeeps DEF CallStep

\* The variables a call touches besides its own record keep their types.
LEMMA CallKeepsRest ==
    ASSUME IInv, NEW c \in Call, Arrive(c) \/ CallStep(c)
    PROVE  /\ keyCur' \in [Key -> Nat] /\ totalCur' \in Nat
           /\ cred' \in [Key -> CredState]
           /\ View!ViewTypeOK'
           /\ records' \in SUBSET Record
           /\ serving' \in BOOLEAN /\ faults' \in 0 .. MaxFaults /\ crashes' \in 0 .. MaxCrashes
<1>1. TypeOK /\ call[c].key \in Key
  BY CallFields DEF IInv
<1>2. keyCur' \in [Key -> Nat] /\ totalCur' \in Nat
  <2>1. CASE Admit(c)
    BY <1>1, <2>1 DEF Admit, Acquire, TypeOK
  <2>2. CASE FreeSlot(c)
    <3>1. CASE keyCur[call[c].key] <= 0
      BY <1>1, <2>2, <3>1 DEF FreeSlot, Release, TypeOK, gate
    <3>2. CASE ~(keyCur[call[c].key] <= 0)
      <4>1. keyCur' = [keyCur EXCEPT ![call[c].key] = @ - 1] /\ totalCur' = totalCur - 1
        BY <2>2, <3>2 DEF FreeSlot, Release
      <4>2. call[c].pc = "release"
        BY <2>2 DEF FreeSlot
      <4>3. c \in AllHolders
        BY <4>2 DEF AllHolders, SlotHeld
      <4>4. totalCur # 0
        BY <4>3, HoldersFinite, FS_EmptySet DEF IInv, SlotsAccounted
      <4>. QED  BY <1>1, <3>2, <4>1, <4>4 DEF TypeOK
    <3>. QED  BY <3>1, <3>2
  <2>3. CASE ~Admit(c) /\ ~FreeSlot(c)
    <3>1. UNCHANGED gate
      BY <2>3 DEF Arrive, CallStep, Verify, Deny, VerifyFails, Semantic, Refuse, Validate,
                  CheckTable, Execute, QueryEnds, WriteRecord, RecordFails
    <3>. QED  BY <1>1, <3>1 DEF gate, TypeOK
  <2>. QED  BY <2>1, <2>2, <2>3
<1>3. UNCHANGED <<cred, view, serving, crashes>>
  BY DEF Arrive, CallStep, Verify, Deny, VerifyFails, Semantic, Refuse, Admit, Validate,
         CheckTable, Execute, QueryEnds, FreeSlot, WriteRecord, RecordFails, daemon
<1>4. cred' \in [Key -> CredState] /\ serving' \in BOOLEAN /\ crashes' \in 0 .. MaxCrashes
  BY <1>1, <1>3 DEF TypeOK
<1>5. View!ViewTypeOK'
  BY <1>1, <1>3 DEF TypeOK, view, View!ViewTypeOK
<1>6. faults' = faults \/ (faults < MaxFaults /\ faults' = faults + 1)
  BY DEF Arrive, CallStep, Verify, Deny, VerifyFails, Semantic, Refuse, Admit, Validate,
         CheckTable, Execute, QueryEnds, FreeSlot, WriteRecord, RecordFails, daemon
<1>7. faults' \in 0 .. MaxFaults
  BY <1>1, <1>6, GatewayBounds DEF TypeOK
<1>8. records' \in SUBSET Record
  <2>1. CASE Deny(c)
    BY <1>1, <2>1 DEF Deny, TypeOK, Record, Status
  <2>2. CASE WriteRecord(c)
    <3>1. call[c].outcome \in Status
      BY <2>2, CallFields DEF WriteRecord, CallKnows
    <3>. QED  BY <1>1, <2>2, <3>1 DEF WriteRecord, TypeOK, Record
  <2>3. CASE ~Deny(c) /\ ~WriteRecord(c)
    <3>1. records' = records
      BY <2>3 DEF Arrive, CallStep, Verify, VerifyFails, Semantic, Refuse, Admit, Validate,
                  CheckTable, Execute, QueryEnds, FreeSlot, RecordFails
    <3>. QED  BY <1>1, <3>1 DEF TypeOK
  <2>. QED  BY <2>1, <2>2, <2>3
<1>. QED  BY <1>2, <1>4, <1>5, <1>7, <1>8

-----------------------------------------------------------------------------
(* Steps of other processes and goroutines                                 *)

\* Under a step that leaves the calls alone, versions only accumulate and a
\* revoked key stays revoked, what is known of a call stays known.
LEMMA KnownStaysKnown ==
    ASSUME IInv, NEW c \in Call, UNCHANGED call, floor' \in Nat, floor <= floor',
           \A v \in 0 .. floor : hist'[v] = hist[v],
           \A k \in Key : cred[k] = "revoked" => cred'[k] = "revoked"
    PROVE  CallKnows(c)'
<1>1. call[c] \in CallState /\ CallKnows(c) /\ floor \in Nat
  BY DEF IInv, TypeOK, View!ViewTypeOK
<1>2. call[c].since \in Nat /\ call[c].presented \in Key
  BY <1>1 DEF CallState
<1>3. PassedWasGranted(c) => PassedWasGranted(c)'
  BY <1>1, <1>2 DEF PassedWasGranted
<1>. QED  BY <1>1, <1>2, <1>3 DEF CallKnows

LEMMA CredentialKeepsIInv ==
    ASSUME IInv, NEW k \in Key, IssueKey(k) \/ RevokeKey(k)
    PROVE  IInv'
<1>1. UNCHANGED <<keyCur, totalCur, version, hist, allowed, floor, call, records, serving, faults, crashes>>
  BY DEF IssueKey, RevokeKey, gate, view, daemon
<1>2. cred' \in [Key -> CredState]
  BY DEF IssueKey, RevokeKey, IInv, TypeOK, CredState
<1>3. \A j \in Key : cred[j] = "revoked" => cred'[j] = "revoked"
  BY DEF IssueKey, RevokeKey, IInv, TypeOK
<1>4. TypeOK'
  BY <1>1, <1>2 DEF IInv, TypeOK, View!ViewTypeOK
<1>5. ViewIsWhole'
  BY <1>1 DEF IInv, ViewIsWhole
<1>6. \A c \in Call : CallKnows(c)'
  <2>1. floor \in Nat
    BY DEF IInv, TypeOK, View!ViewTypeOK
  <2>. QED  BY <1>1, <1>3, <2>1, KnownStaysKnown
<1>7. SlotsAccounted'
  BY <1>1, SlotsStay DEF IInv, gate
<1>. QED  BY <1>4, <1>5, <1>6, <1>7 DEF IInv

LEMMA ViewStepKeepsIInv ==
    ASSUME IInv, ChangeGrants \/ Reload
    PROVE  IInv'
<1>1. UNCHANGED <<keyCur, totalCur, cred, call, records, serving, faults, crashes>>
  BY DEF ChangeGrants, Reload, gate, daemon
<1>2. View!ViewTypeOK
  BY DEF IInv, TypeOK
<1>3. View!Commit \/ View!Adopt \/ View!DenyAll
  BY DEF ChangeGrants, Reload
<1>4. View!ViewTypeOK'
  <2>1. CASE View!Commit
    <3>1. PICK G \in SUBSET Grant :
              hist' = [v \in 0 .. version + 1 |-> IF v <= version THEN hist[v] ELSE G]
      BY <2>1 DEF View!Commit
    <3>2. version' = version + 1 /\ UNCHANGED <<allowed, floor>>
      BY <2>1 DEF View!Commit
    <3>3. hist' \in [0 .. version' -> SUBSET Grant]
      BY <1>2, <3>1, <3>2 DEF View!ViewTypeOK
    <3>. QED  BY <1>2, <3>2, <3>3 DEF View!ViewTypeOK
  <2>2. CASE View!Adopt
    BY <1>2, <2>2 DEF View!ViewTypeOK, View!Adopt
  <2>3. CASE View!DenyAll
    BY <1>2, <2>3 DEF View!ViewTypeOK, View!DenyAll
  <2>. QED  BY <1>3, <2>1, <2>2, <2>3
<1>5. /\ floor' \in Nat /\ floor <= floor'
      /\ \A v \in 0 .. floor : hist'[v] = hist[v]
  BY <1>2, <1>3, <1>4 DEF View!ViewTypeOK, View!Commit, View!Adopt, View!DenyAll
<1>6. ViewIsWhole'
  BY <1>2, <1>3, <1>5 DEF IInv, ViewIsWhole, View!ViewTypeOK, View!Commit, View!Adopt, View!DenyAll
<1>7. TypeOK'
  BY <1>1, <1>4 DEF IInv, TypeOK
<1>8. \A c \in Call : CallKnows(c)'
  BY <1>1, <1>5, KnownStaysKnown
<1>9. SlotsAccounted'
  BY <1>1, SlotsStay DEF IInv, gate
<1>. QED  BY <1>6, <1>7, <1>8, <1>9 DEF IInv

\* A crash empties the gate and loses every call that held a slot.
LEMMA CrashKeepsIInv ==
    ASSUME IInv, Crash
    PROVE  IInv'
<1>1. /\ call' = [c \in Call |-> IF call[c].pc \in {"new", "done", "lost"} THEN call[c]
                                ELSE [call[c] EXCEPT !.pc = "lost"]]
      /\ keyCur' = [k \in Key |-> 0] /\ totalCur' = 0 /\ allowed' = {}
      /\ UNCHANGED <<version, hist, floor, cred, records, faults>>
      /\ serving' = FALSE /\ crashes' = crashes + 1 /\ crashes < MaxCrashes
  BY DEF Crash, View!DenyAll
<1>2. TypeOK
  BY DEF IInv
<1>3. ASSUME NEW c \in Call
      PROVE  /\ call'[c] \in CallState
             /\ call'[c].pc \notin SlotHeld
             /\ CallKnows(c)'
  <2>1. call[c] \in CallState /\ CallKnows(c)
    BY <1>2 DEF TypeOK, IInv
  <2>2. CASE call[c].pc \in {"new", "done", "lost"}
    <3>1. call'[c] = call[c]
      BY <1>1, <2>2
    <3>. QED  BY <1>1, <2>1, <2>2, <3>1 DEF CallKnows, SlotHeld
  <2>3. CASE call[c].pc \notin {"new", "done", "lost"}
    <3>1. call'[c] = [call[c] EXCEPT !.pc = "lost"]
      BY <1>1, <2>3
    <3>2. /\ call'[c] \in CallState /\ call'[c].pc = "lost"
          /\ call'[c].since = call[c].since /\ call'[c].was = call[c].was
          /\ call'[c].presented = call[c].presented /\ call'[c].outcome = call[c].outcome
      BY <2>1, <3>1 DEF CallState
    <3>. QED  BY <1>1, <2>1, <3>2 DEF CallKnows, SlotHeld
  <2>. QED  BY <2>2, <2>3
<1>4. TypeOK'
  <2>1. call' \in [Call -> CallState]
    BY <1>1, <1>3
  <2>2. crashes' \in 0 .. MaxCrashes
    BY <1>1, <1>2, GatewayBounds DEF TypeOK
  <2>3. View!ViewTypeOK'
    BY <1>1, <1>2 DEF TypeOK, View!ViewTypeOK
  <2>. QED  BY <1>1, <1>2, <2>1, <2>2, <2>3 DEF TypeOK
<1>5. ViewIsWhole'
  BY <1>1 DEF ViewIsWhole
<1>6. SlotsAccounted'
  <2>1. AllHolders' = {} /\ \A k \in Key : Holders(k)' = {}
    BY <1>3 DEF AllHolders, Holders
  <2>. QED  BY <1>1, <2>1, FS_EmptySet, LimitsAssumption DEF SlotsAccounted
<1>. QED  BY <1>3, <1>4, <1>5, <1>6 DEF IInv

LEMMA RestartKeepsIInv ==
    ASSUME IInv, Restart
    PROVE  IInv'
<1>1. /\ UNCHANGED <<keyCur, totalCur, cred, call, records, faults, crashes, version, hist>>
      /\ serving' = TRUE /\ floor' \in floor .. version /\ allowed' = hist[floor']
  BY DEF Restart, gate, View!Adopt
<1>2. View!ViewTypeOK
  BY DEF IInv, TypeOK
<1>3. View!ViewTypeOK'
  BY <1>1, <1>2 DEF View!ViewTypeOK
<1>4. TypeOK'
  BY <1>1, <1>3 DEF IInv, TypeOK
<1>5. ViewIsWhole'
  BY <1>1 DEF ViewIsWhole
<1>6. \A c \in Call : CallKnows(c)'
  <2>1. floor' \in Nat /\ floor <= floor'
    BY <1>1, <1>2 DEF View!ViewTypeOK
  <2>. QED  BY <1>1, <2>1, KnownStaysKnown
<1>7. SlotsAccounted'
  BY <1>1, SlotsStay DEF IInv, gate
<1>. QED  BY <1>4, <1>5, <1>6, <1>7 DEF IInv

-----------------------------------------------------------------------------
(* The invariant, and the theorems                                         *)

LEMMA InitIInv == Init => IInv
<1>. SUFFICES ASSUME Init PROVE IInv
  OBVIOUS
<1>1. NoCall \in CallState
  <2>1. (CHOOSE k \in Key : TRUE) \in Key
    BY CallAssumption
  <2>. QED  BY <2>1 DEF NoCall, CallState, Statement, CredState, Outcome
<1>2. \A c \in Call : call[c].pc = "new" /\ call[c].since = 0 /\ call[c].was = "absent"
  <2>1. \A c \in Call : call[c] = NoCall
    BY DEF Init
  <2>2. NoCall.pc = "new" /\ NoCall.since = 0 /\ NoCall.was = "absent"
    BY DEF NoCall
  <2>. QED  BY <2>1, <2>2
<1>3. TypeOK
  <2>1. View!ViewTypeOK
    BY DEF Init, View!ViewInit, View!ViewTypeOK
  <2>2. call \in [Call -> CallState]
    BY <1>1 DEF Init
  <2>. QED  BY <2>1, <2>2, GatewayBounds DEF Init, EmptyGate, TypeOK, CredState
<1>4. ViewIsWhole
  BY DEF Init, View!ViewInit, ViewIsWhole
<1>5. \A c \in Call : CallKnows(c)
  <2>1. floor = 0
    BY DEF Init, View!ViewInit
  <2>. QED  BY <1>2, <2>1 DEF CallKnows
<1>6. SlotsAccounted
  <2>1. AllHolders = {} /\ \A k \in Key : Holders(k) = {}
    BY <1>2 DEF AllHolders, Holders, SlotHeld
  <2>. QED  BY <2>1, FS_EmptySet, LimitsAssumption DEF Init, EmptyGate, SlotsAccounted
<1>. QED  BY <1>3, <1>4, <1>5, <1>6 DEF IInv

LEMMA NextKeepsIInv == IInv /\ [Next]_vars => IInv'
<1>. SUFFICES ASSUME IInv, [Next]_vars PROVE IInv'
  OBVIOUS
<1>1. ASSUME NEW c \in Call, Arrive(c) \/ CallStep(c) PROVE IInv'
  <2>1. CallsKept
    BY <1>1, CallKeeps
  <2>2. TypeOK'
    BY <1>1, <2>1, CallKeepsRest DEF CallsKept, TypeOK
  <2>. QED  BY <2>1, <2>2 DEF CallsKept, IInv
<1>2. CASE UNCHANGED vars
  <2>1. UNCHANGED <<keyCur, totalCur, cred, version, hist, allowed, floor, call, records,
                    serving, faults, crashes>>
    BY <1>2 DEF vars, gate, view, daemon
  <2>2. floor \in Nat
    BY DEF IInv, TypeOK, View!ViewTypeOK
  <2>3. \A c \in Call : CallKnows(c)'
    BY <2>1, <2>2, KnownStaysKnown
  <2>4. SlotsAccounted'
    BY <2>1, SlotsStay DEF IInv, gate
  <2>5. TypeOK' /\ ViewIsWhole'
    BY <2>1 DEF IInv, TypeOK, View!ViewTypeOK, ViewIsWhole
  <2>. QED  BY <2>3, <2>4, <2>5 DEF IInv
<1>. QED  BY <1>1, <1>2, CredentialKeepsIInv, ViewStepKeepsIInv, CrashKeepsIInv,
             RestartKeepsIInv DEF Next

LEMMA InductiveInvariant == Spec => []IInv
  BY InitIInv, NextKeepsIInv, PTL DEF Spec

\* Type correctness of the daemon: counters never negative, views whole, every
\* record with one of the four statuses of the record contract.
THEOREM TypeCorrect == Spec => []TypeOK
<1>1. IInv => TypeOK
  BY DEF IInv
<1>. QED  BY <1>1, InductiveInvariant, PTL

\* The load gate neither leaks nor loses a slot and never exceeds a limit, for any
\* number of calls and keys (TryAcquire and the deferred Release).
THEOREM GateIsExact == Spec => []SlotsAccounted
<1>1. IInv => SlotsAccounted
  BY DEF IInv
<1>. QED  BY <1>1, InductiveInvariant, PTL

\* A query reads only tables granted by a version served since the call arrived,
\* for any statement and any interleaving with reloads (AuthorizeTables).
THEOREM QueriesAreGranted == Spec => []QueryWasGranted
<1>1. IInv => QueryWasGranted
  BY DEF IInv, CallKnows, PassedWasGranted, QueryWasGranted
<1>. QED  BY <1>1, InductiveInvariant, PTL

\* A key revoked before a request arrives gets that request nowhere (VerifyKey).
THEOREM RevocationIsImmediate == Spec => []RevokedKeyRefused
<1>1. IInv => RevokedKeyRefused
  BY DEF IInv, CallKnows, RevokedKeyRefused
<1>. QED  BY <1>1, InductiveInvariant, PTL
-----------------------------------------------------------------------------
(* The execution record                                                    *)

\* What a call's place says about the query it ran: nothing ran before the query
\* ended, and from then on the outcome says whether its last row was read.
CallTells(c) ==
    /\ call[c].pc \in {"new", "verify", "handler", "validate", "authorize", "query"} =>
          call[c].ran = "no"
    /\ call[c].pc \in {"release", "record"} /\ call[c].sql # "semantic" =>
          (call[c].outcome = "success" <=> call[c].ran = "whole")

\* A line is about a call that has ended, and agrees with it.
RecordTells(r) ==
    /\ call[r.call].pc = "done"
    /\ r.kind = "auth_failure" => call[r.call].outcome = "unauthorized"
    /\ call[r.call].sql # "semantic" => (r.status = "success" <=> call[r.call].ran = "whole")

OneEach == \A r, s \in records : r.call = s.call => r = s

Unrecorded == {c \in Call : call[c].pc = "done" /\ ~\E r \in records : r.call = c}

RInv ==
    /\ \A c \in Call : CallTells(c)
    /\ \A r \in records : RecordTells(r)
    /\ OneEach
    /\ Cardinality(Unrecorded) <= faults

LEMMA UpdateTells ==
    ASSUME call \in [Call -> CallState], NEW c \in Call, NEW pc, NEW o, NEW todo, NEW ran,
           Updated(c, pc, todo, ran, o)
    PROVE  /\ \A d \in Call \ {c} : call'[d] = call[d]
           /\ call'[c].pc = pc /\ call'[c].ran = ran /\ call'[c].outcome = o
           /\ call'[c].sql = call[c].sql
<1>1. call[c] \in CallState
  OBVIOUS
<1>2. call'[c] = [call[c] EXCEPT !.pc = pc, !.todo = todo, !.ran = ran, !.outcome = o]
  BY DEF Updated
<1>3. \A d \in Call \ {c} : call'[d] = call[d]
  BY DEF Updated
<1>. QED  BY <1>1, <1>2, <1>3 DEF CallState

\* Goto and Finish, as RInv sees them.
LEMMA GotoTells ==
    ASSUME IInv, NEW c \in Call, NEW pc, Goto(c, pc)
    PROVE  /\ \A d \in Call \ {c} : call'[d] = call[d]
           /\ call'[c].pc = pc /\ call'[c].ran = call[c].ran
           /\ call'[c].outcome = call[c].outcome /\ call'[c].sql = call[c].sql
<1>1. call \in [Call -> CallState]
  BY DEF IInv, TypeOK
<1>2. Updated(c, pc, call[c].todo, call[c].ran, call[c].outcome)
  BY <1>1, GotoUpdates
<1>. QED  BY <1>1, <1>2, UpdateTells

LEMMA FinishTells ==
    ASSUME IInv, NEW c \in Call, NEW pc, NEW o, Finish(c, pc, o)
    PROVE  /\ \A d \in Call \ {c} : call'[d] = call[d]
           /\ call'[c].pc = pc /\ call'[c].ran = call[c].ran
           /\ call'[c].outcome = o /\ call'[c].sql = call[c].sql
<1>1. call \in [Call -> CallState]
  BY DEF IInv, TypeOK
<1>2. Updated(c, pc, call[c].todo, call[c].ran, o)
  BY <1>1, FinishUpdates
<1>. QED  BY <1>1, <1>2, UpdateTells

LEMMA UnrecordedFinite == IsFiniteSet(Unrecorded) /\ Cardinality(Unrecorded) \in Nat
<1>1. Unrecorded \in SUBSET Call
  BY DEF Unrecorded
<1>2. IsFiniteSet(Unrecorded)
  BY <1>1, CallAssumption, FS_Subset
<1>. QED  BY <1>2, FS_CardinalityType

\* A step that leaves call c unended and writes nothing.
LEMMA QuietStep ==
    ASSUME IInv, RInv, NEW c \in Call, call[c].pc # "done", call'[c].pc # "done",
           \A d \in Call \ {c} : call'[d] = call[d], CallTells(c)', UNCHANGED <<records, faults>>
    PROVE  RInv'
<1>1. \A d \in Call : CallTells(d)'
  BY DEF RInv, CallTells
<1>2. ASSUME NEW r \in records PROVE RecordTells(r)'
  <2>1. r.call \in Call /\ RecordTells(r)
    BY DEF IInv, TypeOK, Record, RInv
  <2>2. call'[r.call] = call[r.call]
    BY <2>1 DEF RecordTells
  <2>. QED  BY <2>1, <2>2 DEF RecordTells
<1>3. Unrecorded' = Unrecorded
  BY DEF Unrecorded
<1>. QED  BY <1>1, <1>2, <1>3 DEF RInv, OneEach

\* A step that ends call c and writes its line.
LEMMA RecordedStep ==
    ASSUME IInv, RInv, NEW c \in Call, call[c].pc # "done", call'[c].pc = "done",
           \A d \in Call \ {c} : call'[d] = call[d],
           NEW s \in Record, s.call = c, RecordTells(s)', records' = records \cup {s},
           UNCHANGED faults
    PROVE  RInv'
<1>1. \A d \in Call : CallTells(d)'
  BY DEF RInv, CallTells
<1>2. ASSUME NEW r \in records PROVE r.call \in Call \ {c} /\ RecordTells(r)'
  <2>1. r.call \in Call /\ RecordTells(r)
    BY DEF IInv, TypeOK, Record, RInv
  <2>2. r.call # c /\ call'[r.call] = call[r.call]
    BY <2>1 DEF RecordTells
  <2>. QED  BY <2>1, <2>2 DEF RecordTells
<1>3. \A r \in records' : RecordTells(r)'
  BY <1>2
<1>4. OneEach'
  BY <1>2 DEF RInv, OneEach
<1>5. Unrecorded' = Unrecorded
  <2>1. ASSUME NEW d \in Call \ {c} PROVE d \in Unrecorded' <=> d \in Unrecorded
    BY <2>1 DEF Unrecorded
  <2>2. c \notin Unrecorded' /\ c \notin Unrecorded
    BY DEF Unrecorded
  <2>3. Unrecorded' \in SUBSET Call /\ Unrecorded \in SUBSET Call
    BY DEF Unrecorded
  <2>. QED  BY <2>1, <2>2, <2>3
<1>. QED  BY <1>1, <1>3, <1>4, <1>5 DEF RInv

\* A step that ends call c without a line met a fault.
LEMMA FaultStep ==
    ASSUME IInv, RInv, NEW c \in Call, call[c].pc # "done", call'[c].pc = "done",
           \A d \in Call \ {c} : call'[d] = call[d],
           UNCHANGED records, faults' = faults + 1
    PROVE  RInv'
<1>1. \A d \in Call : CallTells(d)'
  BY DEF RInv, CallTells
<1>2. ASSUME NEW r \in records PROVE r.call \in Call \ {c} /\ RecordTells(r)'
  <2>1. r.call \in Call /\ RecordTells(r)
    BY DEF IInv, TypeOK, Record, RInv
  <2>2. r.call # c /\ call'[r.call] = call[r.call]
    BY <2>1 DEF RecordTells
  <2>. QED  BY <2>1, <2>2 DEF RecordTells
<1>3. Unrecorded' = Unrecorded \cup {c}
  <2>1. ASSUME NEW d \in Call \ {c} PROVE d \in Unrecorded' <=> d \in Unrecorded
    BY <2>1 DEF Unrecorded
  <2>2. c \in Unrecorded'
    BY <1>2 DEF Unrecorded
  <2>3. Unrecorded' \in SUBSET Call /\ Unrecorded \in SUBSET Call
    BY DEF Unrecorded
  <2>. QED  BY <2>1, <2>2, <2>3
<1>4. c \notin Unrecorded
  BY DEF Unrecorded
<1>5. Cardinality(Unrecorded') = Cardinality(Unrecorded) + 1
  BY <1>3, <1>4, UnrecordedFinite, FS_AddElement
<1>6. Cardinality(Unrecorded)' <= faults'
  <2>1. faults \in Nat /\ Cardinality(Unrecorded) <= faults
    BY GatewayBounds DEF IInv, TypeOK, RInv
  <2>. QED  BY <1>5, <2>1, UnrecordedFinite
<1>. QED  BY <1>1, <1>2, <1>6 DEF RInv, OneEach

LEMMA ArriveKeepsRInv ==
    ASSUME IInv, RInv, NEW c \in Call, Arrive(c)
    PROVE  RInv'
<1>1. PICK presented \in Key, key \in Key, stmt \in Statement, wanted \in SUBSET Table :
        call' = [call EXCEPT ![c] = Request(presented, key, stmt, wanted)]
  BY DEF Arrive
<1>2. call \in [Call -> CallState] /\ call[c].pc = "new" /\ UNCHANGED <<records, faults>>
  BY DEF Arrive, IInv, TypeOK, daemon
<1>3. /\ \A d \in Call \ {c} : call'[d] = call[d]
      /\ call'[c] = Request(presented, key, stmt, wanted)
  BY <1>1, <1>2
<1>4. call'[c].pc = "verify" /\ call'[c].ran = "no"
  BY <1>3 DEF Request
<1>5. CallTells(c)'
  BY <1>4 DEF CallTells
<1>. QED  BY <1>2, <1>3, <1>4, <1>5, QuietStep

\* The steps from the key check to the gate that end nothing.
LEMMA EarlyKeepsRInv ==
    ASSUME IInv, RInv, NEW c \in Call,
           Verify(c) \/ Semantic(c) \/ Refuse(c) \/ Admit(c) \/ Validate(c)
    PROVE  RInv'
<1>1. UNCHANGED <<records, faults>>
  BY DEF Verify, Semantic, Refuse, Admit, Validate, daemon
<1>2. CallTells(c)
  BY DEF RInv
<1>3. CASE Verify(c)
  <2>1. /\ call[c].pc = "verify" /\ Goto(c, "handler")
    BY <1>3 DEF Verify
  <2>2. CallTells(c)'
    BY <1>2, <2>1, GotoTells DEF CallTells
  <2>. QED  BY <1>1, <2>1, <2>2, GotoTells, QuietStep
<1>4. CASE Semantic(c)
  <2>1. PICK o \in {"success", "rejected"} : Finish(c, "record", o)
    BY <1>4 DEF Semantic
  <2>2. call[c].pc = "handler" /\ call[c].sql = "semantic"
    BY <1>4 DEF Semantic
  <2>3. CallTells(c)'
    BY <2>1, <2>2, FinishTells DEF CallTells
  <2>. QED  BY <1>1, <2>1, <2>2, <2>3, FinishTells, QuietStep
<1>5. CASE Refuse(c)
  <2>1. call[c].pc = "handler" /\ Finish(c, "record", "rejected")
    BY <1>5 DEF Refuse
  <2>2. CallTells(c)'
    BY <1>2, <2>1, FinishTells DEF CallTells
  <2>. QED  BY <1>1, <2>1, <2>2, FinishTells, QuietStep
<1>6. CASE Admit(c)
  <2>1. call[c].pc = "handler" /\ Goto(c, "validate")
    BY <1>6 DEF Admit
  <2>2. CallTells(c)'
    BY <1>2, <2>1, GotoTells DEF CallTells
  <2>. QED  BY <1>1, <2>1, <2>2, GotoTells, QuietStep
<1>7. CASE Validate(c)
  <2>1. call[c].pc = "validate"
    BY <1>7 DEF Validate
  <2>2. CASE Goto(c, "authorize")
    <3>1. CallTells(c)'
      BY <1>2, <2>1, <2>2, GotoTells DEF CallTells
    <3>. QED  BY <1>1, <2>1, <2>2, <3>1, GotoTells, QuietStep
  <2>3. ASSUME NEW o \in {"parse_error", "rejected"}, Finish(c, "release", o) PROVE RInv'
    <3>1. CallTells(c)'
      BY <1>2, <2>1, <2>3, FinishTells DEF CallTells
    <3>. QED  BY <1>1, <2>1, <2>3, <3>1, FinishTells, QuietStep
  <2>. QED  BY <1>7, <2>2, <2>3 DEF Validate
<1>. QED  BY <1>3, <1>4, <1>5, <1>6, <1>7

\* The table checks and the query; its end is where the outcome and the rows are
\* set together.
LEMMA LateKeepsRInv ==
    ASSUME IInv, RInv, NEW c \in Call,
           CheckTable(c) \/ Execute(c) \/ QueryEnds(c) \/ FreeSlot(c)
    PROVE  RInv'
<1>1. UNCHANGED <<records, faults>>
  BY DEF CheckTable, Execute, QueryEnds, FreeSlot, daemon
<1>2. CallTells(c) /\ call \in [Call -> CallState] /\ call[c] \in CallState
  BY DEF RInv, IInv, TypeOK
<1>3. CASE CheckTable(c)
  <2>1. call[c].pc = "authorize"
    BY <1>3 DEF CheckTable
  <2>2. PICK t \in call[c].todo : \/ call' = [call EXCEPT ![c].todo = @ \ {t}]
                                  \/ Finish(c, "release", "rejected")
    BY <1>3 DEF CheckTable
  <2>3. CASE call' = [call EXCEPT ![c].todo = @ \ {t}]
    <3>1. /\ \A d \in Call \ {c} : call'[d] = call[d]
          /\ call'[c].pc = call[c].pc /\ call'[c].ran = call[c].ran
      BY <1>2, <2>3 DEF CallState
    <3>2. CallTells(c)'
      BY <1>2, <2>1, <3>1 DEF CallTells
    <3>. QED  BY <1>1, <2>1, <3>1, <3>2, QuietStep
  <2>4. CASE Finish(c, "release", "rejected")
    <3>1. CallTells(c)'
      BY <1>2, <2>1, <2>4, FinishTells DEF CallTells
    <3>. QED  BY <1>1, <2>1, <2>4, <3>1, FinishTells, QuietStep
  <2>. QED  BY <2>2, <2>3, <2>4
<1>4. CASE Execute(c)
  <2>1. call[c].pc = "authorize" /\ Goto(c, "query")
    BY <1>4 DEF Execute
  <2>2. CallTells(c)'
    BY <1>2, <2>1, GotoTells DEF CallTells
  <2>. QED  BY <1>1, <2>1, <2>2, GotoTells, QuietStep
<1>5. CASE QueryEnds(c)
  <2>1. PICK o \in {"success", "timeout", "rejected"} :
          call' = [call EXCEPT ![c].pc = "release", ![c].outcome = o,
                               ![c].ran = IF o = "success" THEN "whole" ELSE "part"]
    BY <1>5 DEF QueryEnds
  <2>2. call[c].pc = "query"
    BY <1>5 DEF QueryEnds
  <2>3. /\ \A d \in Call \ {c} : call'[d] = call[d]
        /\ call'[c].pc = "release" /\ call'[c].outcome = o
        /\ call'[c].ran = IF o = "success" THEN "whole" ELSE "part"
    BY <1>2, <2>1 DEF CallState
  <2>4. CallTells(c)'
    BY <2>3 DEF CallTells
  <2>. QED  BY <1>1, <2>2, <2>3, <2>4, QuietStep
<1>6. CASE FreeSlot(c)
  <2>1. call[c].pc = "release" /\ Goto(c, "record")
    BY <1>6 DEF FreeSlot
  <2>2. CallTells(c)'
    BY <1>2, <2>1, GotoTells DEF CallTells
  <2>. QED  BY <1>1, <2>1, <2>2, GotoTells, QuietStep
<1>. QED  BY <1>3, <1>4, <1>5, <1>6

\* The steps that end a call: a line that agrees with it, or a fault.
LEMMA EndKeepsRInv ==
    ASSUME IInv, RInv, NEW c \in Call,
           Deny(c) \/ VerifyFails(c) \/ WriteRecord(c) \/ RecordFails(c)
    PROVE  RInv'
<1>1. CallTells(c) /\ CallKnows(c) /\ call[c].outcome \in Outcome
  BY CallFields DEF RInv
<1>2. CASE Deny(c)
  <2>. DEFINE s == [kind |-> "auth_failure", call |-> c, status |-> "rejected"]
  <2>1. call[c].pc = "verify" /\ Finish(c, "done", "unauthorized")
    BY <1>2 DEF Deny
  <2>2. s \in Record /\ s.call = c /\ s.status = "rejected"
    BY DEF Record, Status
  <2>3. RecordTells(s)'
    BY <1>1, <2>1, FinishTells DEF RecordTells, CallTells
  <2>4. CASE records' = records \cup {s} /\ UNCHANGED faults
    BY <2>1, <2>2, <2>3, <2>4, FinishTells, RecordedStep
  <2>5. CASE faults' = faults + 1 /\ UNCHANGED records
    BY <2>1, <2>5, FinishTells, FaultStep
  <2>. QED  BY <1>2, <2>4, <2>5 DEF Deny
<1>3. CASE VerifyFails(c)
  BY <1>3, FinishTells, FaultStep DEF VerifyFails
<1>4. CASE WriteRecord(c)
  <2>. DEFINE s == [kind |-> "tool_call", call |-> c, status |-> call[c].outcome]
  <2>1. /\ call[c].pc = "record" /\ Goto(c, "done")
        /\ records' = records \cup {s} /\ UNCHANGED faults
    BY <1>4 DEF WriteRecord, daemon
  <2>2. call[c].outcome \in Status
    BY <1>1, <2>1 DEF CallKnows
  <2>3. s \in Record /\ s.call = c
    BY <2>2 DEF Record
  <2>4. RecordTells(s)'
    BY <1>1, <2>1, GotoTells DEF RecordTells, CallTells
  <2>. QED  BY <2>1, <2>3, <2>4, GotoTells, RecordedStep
<1>5. CASE RecordFails(c)
  BY <1>5, GotoTells, FaultStep DEF RecordFails
<1>. QED  BY <1>2, <1>3, <1>4, <1>5

\* A step that ends no call and keeps every ended one as it was.
LEMMA EndedStay ==
    ASSUME IInv, RInv, UNCHANGED <<records, faults>>,
           \A c \in Call : /\ call'[c].pc = "done" <=> call[c].pc = "done"
                           /\ call[c].pc = "done" => call'[c] = call[c]
                           /\ CallTells(c)'
    PROVE  RInv'
<1>1. ASSUME NEW r \in records PROVE RecordTells(r)'
  <2>1. r.call \in Call /\ RecordTells(r)
    BY DEF IInv, TypeOK, Record, RInv
  <2>. QED  BY <2>1 DEF RecordTells
<1>2. Unrecorded' = Unrecorded
  BY DEF Unrecorded
<1>. QED  BY <1>1, <1>2 DEF RInv, OneEach

LEMMA CrashKeepsRInv ==
    ASSUME IInv, RInv, Crash
    PROVE  RInv'
<1>1. /\ call' = [c \in Call |-> IF call[c].pc \in {"new", "done", "lost"} THEN call[c]
                                ELSE [call[c] EXCEPT !.pc = "lost"]]
      /\ UNCHANGED <<records, faults>>
  BY DEF Crash
<1>2. ASSUME NEW c \in Call
      PROVE  /\ call'[c].pc = "done" <=> call[c].pc = "done"
             /\ call[c].pc = "done" => call'[c] = call[c]
             /\ CallTells(c)'
  <2>1. CallTells(c) /\ call[c] \in CallState
    BY DEF RInv, IInv, TypeOK
  <2>2. CASE call[c].pc \in {"new", "done", "lost"}
    <3>1. call'[c] = call[c]
      BY <1>1, <2>2
    <3>. QED  BY <2>1, <3>1 DEF CallTells
  <2>3. CASE call[c].pc \notin {"new", "done", "lost"}
    <3>1. call'[c] = [call[c] EXCEPT !.pc = "lost"]
      BY <1>1, <2>3
    <3>2. call'[c].pc = "lost"
      BY <2>1, <3>1 DEF CallState
    <3>. QED  BY <2>3, <3>2 DEF CallTells
  <2>. QED  BY <2>2, <2>3
<1>. QED  BY <1>1, <1>2, EndedStay

LEMMA OthersKeepRInv ==
    ASSUME IInv, RInv, UNCHANGED <<call, records, faults>>
    PROVE  RInv'
<1>1. \A c \in Call : CallTells(c)'
  BY DEF RInv, CallTells
<1>. QED  BY <1>1, EndedStay

LEMMA InitRInv == Init => RInv
<1>. SUFFICES ASSUME Init PROVE RInv
  OBVIOUS
<1>1. \A c \in Call : call[c].pc = "new" /\ call[c].ran = "no"
  <2>1. NoCall.pc = "new" /\ NoCall.ran = "no"
    BY DEF NoCall
  <2>. QED  BY <2>1 DEF Init
<1>2. \A c \in Call : CallTells(c)
  BY <1>1 DEF CallTells
<1>3. Unrecorded = {}
  BY <1>1 DEF Unrecorded
<1>. QED  BY <1>2, <1>3, FS_EmptySet DEF Init, RInv, OneEach

LEMMA NextKeepsRInv == IInv /\ RInv /\ [Next]_vars => RInv'
<1>. SUFFICES ASSUME IInv, RInv, [Next]_vars PROVE RInv'
  OBVIOUS
<1>1. ASSUME NEW k \in Key, IssueKey(k) \/ RevokeKey(k) PROVE RInv'
  BY <1>1, OthersKeepRInv DEF IssueKey, RevokeKey, daemon
<1>2. CASE ChangeGrants \/ Reload
  BY <1>2, OthersKeepRInv DEF ChangeGrants, Reload, daemon
<1>3. ASSUME NEW c \in Call, Arrive(c) \/ CallStep(c) PROVE RInv'
  BY <1>3, ArriveKeepsRInv, EarlyKeepsRInv, LateKeepsRInv, EndKeepsRInv DEF CallStep
<1>4. CASE Restart
  BY <1>4, OthersKeepRInv DEF Restart
<1>5. CASE UNCHANGED vars
  BY <1>5, OthersKeepRInv DEF vars, daemon
<1>. QED  BY <1>1, <1>2, <1>3, <1>4, <1>5, CrashKeepsRInv DEF Next

\* The execution record tells what happened, for any number of calls, faults and
\* crashes: success is written exactly for a query that gave its last row, no call
\* has two lines, and a call that ended without a line met a fault (logged,
\* buildToolRecord, recordAuthFailure).
THEOREM RecordsTellTheTruth == Spec => []RecordsAreTrue
<1>1. RInv => RecordsAreTrue
  BY DEF RInv, RecordTells, OneEach, Unrecorded, RecordsAreTrue
<1>. QED  BY <1>1, InductiveInvariant, InitRInv, NextKeepsRInv, PTL DEF Spec

-----------------------------------------------------------------------------
(* Syntax trees                                                            *)

\* Of the numbers that are not in S there would be a least one.
LEMMA Induct ==
    ASSUME NEW S \in SUBSET Nat, 0 \in S, \A n \in S : n + 1 \in S
    PROVE  S = Nat
<1> DEFINE R == OpToRel(<, Nat)
           T == Nat \ S
<1> SUFFICES ASSUME T # {} PROVE FALSE
  OBVIOUS
<1>1. IsWellFoundedOn(R, Nat)
  BY NatLessThanWellFounded
<1>2. T \subseteq Nat
  OBVIOUS
<1> HIDE DEF R
<1>3. PICK n \in T : \A m \in T : ~ (<<m, n>> \in R)
  <2> HIDE DEF T
  <2> QED BY <1>1, <1>2, WFMin, Zenon
<1>4. n \in Nat /\ n # 0 /\ n - 1 \in Nat
  OBVIOUS
<1>5. <<n - 1, n>> \in R
  BY <1>4 DEF R, OpToRel
<1>6. n - 1 \in S
  BY <1>3, <1>4, <1>5
<1> QED BY <1>3, <1>4, <1>6

\* The trees inside a set of trees.
Children(S, wide) == UNION {Inside(p[1], p[2], wide) : p \in S}

\* What the first n layers are.
Layered(f, t, scope, wide, n) ==
    /\ f[0] = {<<t, scope>>}
    /\ \A i \in 1..n : f[i] = Children(f[i - 1], wide)

\* There are such layers for every depth.
LEMMA LayersExist ==
    ASSUME NEW t, NEW scope, NEW wide, NEW n \in Nat
    PROVE  \E f : Layered(f, t, scope, wide, n)
<1> DEFINE S == {k \in Nat : \E f : Layered(f, t, scope, wide, k)}
<1>1. 0 \in S
  <2>1. Layered([i \in 0..0 |-> {<<t, scope>>}], t, scope, wide, 0)
    BY DEF Layered
  <2> QED BY <2>1
<1>2. ASSUME NEW k \in S PROVE k + 1 \in S
  <2>1. PICK f : Layered(f, t, scope, wide, k)
    BY <1>2
  <2> DEFINE last == Children(f[k], wide)
             g == [i \in 0..(k + 1) |-> IF i = k + 1 THEN last ELSE f[i]]
  <2>2. k \in Nat
    BY <1>2
  <2>3. g[0] = {<<t, scope>>}
    BY <2>1, <2>2 DEF Layered
  <2>4. ASSUME NEW i \in 1..(k + 1) PROVE g[i] = Children(g[i - 1], wide)
    <3>1. i \in Nat /\ i - 1 \in 0..k /\ g[i - 1] = f[i - 1]
      BY <2>2, <2>4
    <3>2. CASE i = k + 1
      <4>1. g[i] = last /\ i - 1 = k
        BY <2>2, <3>2
      <4> HIDE DEF g
      <4> QED BY <3>1, <3>2, <4>1
    <3>3. CASE i # k + 1
      <4>1. i \in 1..k /\ g[i] = f[i]
        BY <2>2, <2>4, <3>3
      <4> HIDE DEF g
      <4> QED BY <2>1, <3>1, <4>1 DEF Layered
    <3> QED BY <3>2, <3>3
  <2>5. Layered(g, t, scope, wide, k + 1)
    <3> HIDE DEF g
    <3> QED BY <2>3, <2>4 DEF Layered
  <2> HIDE DEF g
  <2> QED BY <2>2, <2>5
<1> HIDE DEF S
<1>3. S = Nat
  <2>1. S \in SUBSET Nat
    BY DEF S
  <2> QED BY <1>1, <1>2, <2>1, Induct
<1>4. n \in S
  BY <1>3
<1> QED BY <1>4 DEF S

\* A tree's layers are such layers.
LEMMA LayersAre ==
    ASSUME NEW t, NEW scope, NEW wide
    PROVE  Layered(Layers(t, scope, wide), t, scope, wide, MaxDepth)
<1>0. MaxDepth \in Nat
  BY DepthAssumption
<1>1. PICK f : Layered(f, t, scope, wide, MaxDepth)
  BY <1>0, LayersExist
<1> DEFINE Step(h) == [n \in 0..MaxDepth |->
                          IF n = 0 THEN {<<t, scope>>}
                          ELSE UNION {Inside(p[1], p[2], wide) : p \in h[n - 1]}]
           layer == CHOOSE h : h = Step(h)
<1>2. layer = Step(layer)
  <2> DEFINE h == [n \in 0..MaxDepth |-> f[n]]
  <2>1. ASSUME NEW n \in 0..MaxDepth
        PROVE  f[n] = IF n = 0 THEN {<<t, scope>>}
                      ELSE UNION {Inside(p[1], p[2], wide) : p \in h[n - 1]}
    <3>1. CASE n = 0
      BY <1>1, <3>1 DEF Layered
    <3>2. CASE n # 0
      <4>1. n \in 1..MaxDepth /\ h[n - 1] = f[n - 1]
        BY <1>0, <2>1, <3>2
      <4>2. f[n] = Children(f[n - 1], wide)
        BY <1>1, <4>1 DEF Layered
      <4> HIDE DEF h
      <4> QED BY <3>2, <4>1, <4>2 DEF Children
    <3> QED BY <3>1, <3>2
  <2>2. h = Step(h)
    <3> DEFINE Rhs(n) == IF n = 0 THEN {<<t, scope>>}
                         ELSE UNION {Inside(p[1], p[2], wide) : p \in h[n - 1]}
    <3>1. \A n \in 0..MaxDepth : f[n] = Rhs(n)
      BY <2>1
    <3>2. Step(h) = [n \in 0..MaxDepth |-> Rhs(n)]
      OBVIOUS
    <3> HIDE DEF Rhs, Step
    <3> QED BY <3>1, <3>2
  <2> HIDE DEF h, Step
  <2>3. \E k : k = Step(k)
    BY <2>2
  <2> QED BY <2>3
<1>3. Layers(t, scope, wide) = layer
  BY DEF Layers
<1> HIDE DEF layer
<1>4. layer[0] = {<<t, scope>>}
  BY <1>0, <1>2
<1>5. ASSUME NEW i \in 1..MaxDepth PROVE layer[i] = Children(layer[i - 1], wide)
  <2>1. i \in 0..MaxDepth /\ i # 0
    BY <1>0
  <2>2. layer[i] = UNION {Inside(p[1], p[2], wide) : p \in layer[i - 1]}
    BY <1>2, <2>1
  <2> QED BY <2>2 DEF Children
<1> QED BY <1>3, <1>4, <1>5 DEF Layered

\* The first layer, and each of the others.
LEMMA LayerZero ==
    ASSUME NEW t, NEW scope, NEW wide
    PROVE  Layers(t, scope, wide)[0] = {<<t, scope>>}
BY LayersAre DEF Layered

LEMMA LayerNext ==
    ASSUME NEW t, NEW scope, NEW wide, NEW n \in Nat, n < MaxDepth
    PROVE  Layers(t, scope, wide)[n + 1] = Children(Layers(t, scope, wide)[n], wide)
<1>1. n + 1 \in 1..MaxDepth /\ (n + 1) - 1 = n
  BY DepthAssumption
<1> QED BY <1>1, LayersAre DEF Layered

\* p is inside a set of trees, or at a depth, if it is inside one of them.
LEMMA ChildOf ==
    ASSUME NEW S, NEW wide, NEW p
    PROVE  p \in Children(S, wide) <=> \E q \in S : p \in Inside(q[1], q[2], wide)
BY DEF Children

LEMMA WithinAt ==
    ASSUME NEW t, NEW scope, NEW wide, NEW p
    PROVE  p \in Within(t, scope, wide) <=>
              \E n \in 0..MaxDepth : p \in Layers(t, scope, wide)[n]
BY DEF Within

\* What is inside a tree: an item or the body of an entry.
LEMMA InsideIs ==
    ASSUME NEW t, NEW scope, NEW wide, NEW p
    PROVE  p \in Inside(t, scope, wide) <=>
              /\ t.kind # "ref"
              /\ \/ \E x \in Range(t.items) : p = <<x, scope \cup NamesOf(t)>>
                 \/ \E i \in DOMAIN t.with : p = <<t.with[i].body, scope \cup Visible(t, i, wide)>>
BY DEF Inside

\* Names that are in scope around a tree are in scope in all of it.
Added(S, c) == {<<p[1], p[2] \cup c>> : p \in S}

LEMMA AddedIs ==
    ASSUME NEW S, NEW c, NEW p
    PROVE  p \in Added(S, c) <=> \E q \in S : p = <<q[1], q[2] \cup c>>
BY DEF Added

LEMMA InsideAdded ==
    ASSUME NEW t, NEW scope, NEW wide, NEW c
    PROVE  Inside(t, scope \cup c, wide) = Added(Inside(t, scope, wide), c)
<1>1. ASSUME NEW p \in Inside(t, scope \cup c, wide)
      PROVE  p \in Added(Inside(t, scope, wide), c)
  <2>0. t.kind # "ref"
    BY <1>1, InsideIs
  <2>1. CASE \E x \in Range(t.items) : p = <<x, (scope \cup c) \cup NamesOf(t)>>
    <3>1. PICK x \in Range(t.items) : p = <<x, (scope \cup c) \cup NamesOf(t)>>
      BY <2>1
    <3> DEFINE q == <<x, scope \cup NamesOf(t)>>
    <3>2. q \in Inside(t, scope, wide)
      BY <2>0, InsideIs
    <3>3. p = <<q[1], q[2] \cup c>>
      <4>1. (scope \cup c) \cup NamesOf(t) = (scope \cup NamesOf(t)) \cup c
        OBVIOUS
      <4> QED BY <3>1, <4>1
    <3> QED BY <3>2, <3>3, AddedIs
  <2>2. CASE \E i \in DOMAIN t.with : p = <<t.with[i].body, (scope \cup c) \cup Visible(t, i, wide)>>
    <3>1. PICK i \in DOMAIN t.with : p = <<t.with[i].body, (scope \cup c) \cup Visible(t, i, wide)>>
      BY <2>2
    <3> DEFINE q == <<t.with[i].body, scope \cup Visible(t, i, wide)>>
    <3>2. q \in Inside(t, scope, wide)
      BY <2>0, InsideIs
    <3>3. p = <<q[1], q[2] \cup c>>
      <4>1. (scope \cup c) \cup Visible(t, i, wide) = (scope \cup Visible(t, i, wide)) \cup c
        OBVIOUS
      <4> QED BY <3>1, <4>1
    <3> QED BY <3>2, <3>3, AddedIs
  <2> QED BY <1>1, <2>1, <2>2, InsideIs
<1>2. ASSUME NEW p \in Added(Inside(t, scope, wide), c)
      PROVE  p \in Inside(t, scope \cup c, wide)
  <2>1. PICK q \in Inside(t, scope, wide) : p = <<q[1], q[2] \cup c>>
    BY <1>2, AddedIs
  <2>0. t.kind # "ref"
    BY <2>1, InsideIs
  <2>2. CASE \E x \in Range(t.items) : q = <<x, scope \cup NamesOf(t)>>
    <3>1. PICK x \in Range(t.items) : q = <<x, scope \cup NamesOf(t)>>
      BY <2>2
    <3>2. (scope \cup NamesOf(t)) \cup c = (scope \cup c) \cup NamesOf(t)
      OBVIOUS
    <3>3. p = <<x, (scope \cup c) \cup NamesOf(t)>>
      BY <2>1, <3>1, <3>2
    <3> QED BY <2>0, <3>3, InsideIs
  <2>3. CASE \E i \in DOMAIN t.with : q = <<t.with[i].body, scope \cup Visible(t, i, wide)>>
    <3>1. PICK i \in DOMAIN t.with : q = <<t.with[i].body, scope \cup Visible(t, i, wide)>>
      BY <2>3
    <3>2. (scope \cup Visible(t, i, wide)) \cup c = (scope \cup c) \cup Visible(t, i, wide)
      OBVIOUS
    <3>3. p = <<t.with[i].body, (scope \cup c) \cup Visible(t, i, wide)>>
      BY <2>1, <3>1, <3>2
    <3> QED BY <2>0, <3>3, InsideIs
  <2> QED BY <2>1, <2>2, <2>3, InsideIs
<1> QED BY <1>1, <1>2

LEMMA ChildrenAdded ==
    ASSUME NEW S, NEW wide, NEW c
    PROVE  Children(Added(S, c), wide) = Added(Children(S, wide), c)
<1>1. ASSUME NEW p \in Children(Added(S, c), wide) PROVE p \in Added(Children(S, wide), c)
  <2>1. PICK q \in Added(S, c) : p \in Inside(q[1], q[2], wide)
    BY <1>1, ChildOf
  <2>2. PICK r \in S : q = <<r[1], r[2] \cup c>>
    BY <2>1, AddedIs
  <2>3. p \in Added(Inside(r[1], r[2], wide), c)
    BY <2>1, <2>2, InsideAdded
  <2>4. PICK u \in Inside(r[1], r[2], wide) : p = <<u[1], u[2] \cup c>>
    BY <2>3, AddedIs
  <2>5. u \in Children(S, wide)
    BY <2>2, <2>4, ChildOf
  <2> QED BY <2>4, <2>5, AddedIs
<1>2. ASSUME NEW p \in Added(Children(S, wide), c) PROVE p \in Children(Added(S, c), wide)
  <2>1. PICK u \in Children(S, wide) : p = <<u[1], u[2] \cup c>>
    BY <1>2, AddedIs
  <2>2. PICK r \in S : u \in Inside(r[1], r[2], wide)
    BY <2>1, ChildOf
  <2> DEFINE q == <<r[1], r[2] \cup c>>
  <2>3. q \in Added(S, c)
    BY <2>2, AddedIs
  <2>4. p \in Added(Inside(r[1], r[2], wide), c)
    BY <2>1, <2>2, AddedIs
  <2>5. p \in Inside(q[1], q[2], wide)
    BY <2>4, InsideAdded
  <2> HIDE DEF q
  <2> QED BY <2>3, <2>5, ChildOf
<1> QED BY <1>1, <1>2

LayersTakeOn(t, scope, wide, c) ==
    \A n \in 0..MaxDepth :
        Layers(t, scope \cup c, wide)[n] = Added(Layers(t, scope, wide)[n], c)

LEMMA LayersAdded ==
    ASSUME NEW t, NEW scope, NEW wide, NEW c
    PROVE  LayersTakeOn(t, scope, wide, c)
<1> DEFINE S == {k \in Nat : k <= MaxDepth =>
                    Layers(t, scope \cup c, wide)[k] = Added(Layers(t, scope, wide)[k], c)}
<1>1. 0 \in S
  <2>1. Added({<<t, scope>>}, c) = {<<t, scope \cup c>>}
    BY DEF Added
  <2> QED BY <2>1, LayerZero
<1>2. ASSUME NEW k \in S PROVE k + 1 \in S
  <2>1. k \in Nat /\ k + 1 \in Nat
    BY <1>2
  <2> SUFFICES ASSUME k + 1 <= MaxDepth
               PROVE  Layers(t, scope \cup c, wide)[k + 1] = Added(Layers(t, scope, wide)[k + 1], c)
    BY <2>1
  <2>2. k < MaxDepth /\ k <= MaxDepth
    BY <2>1, DepthAssumption
  <2>3. Layers(t, scope \cup c, wide)[k] = Added(Layers(t, scope, wide)[k], c)
    BY <1>2, <2>2
  <2> HIDE DEF S
  <2>4. Layers(t, scope \cup c, wide)[k + 1] = Children(Layers(t, scope \cup c, wide)[k], wide)
    BY <2>1, <2>2, LayerNext
  <2>5. Layers(t, scope, wide)[k + 1] = Children(Layers(t, scope, wide)[k], wide)
    BY <2>1, <2>2, LayerNext
  <2> QED BY <2>3, <2>4, <2>5, ChildrenAdded
<1> HIDE DEF S
<1>3. S = Nat
  <2>1. S \in SUBSET Nat
    BY DEF S
  <2> QED BY <1>1, <1>2, <2>1, Induct
<1>4. \A n \in 0..MaxDepth : n \in S /\ n <= MaxDepth
  BY <1>3, DepthAssumption
<1> QED BY <1>4 DEF S, LayersTakeOn

LEMMA WithinAdded ==
    ASSUME NEW t, NEW scope, NEW wide, NEW c
    PROVE  Within(t, scope \cup c, wide) = Added(Within(t, scope, wide), c)
<1>0. LayersTakeOn(t, scope, wide, c)
  BY LayersAdded
<1>1. ASSUME NEW p \in Within(t, scope \cup c, wide) PROVE p \in Added(Within(t, scope, wide), c)
  <2>1. PICK n \in 0..MaxDepth : p \in Layers(t, scope \cup c, wide)[n]
    BY <1>1, WithinAt
  <2>2. PICK q \in Layers(t, scope, wide)[n] : p = <<q[1], q[2] \cup c>>
    <3>0. Layers(t, scope \cup c, wide)[n] = Added(Layers(t, scope, wide)[n], c)
      BY <1>0 DEF LayersTakeOn
    <3>1. p \in Added(Layers(t, scope, wide)[n], c)
      BY <2>1, <3>0
    <3> QED BY <3>1, AddedIs
  <2>3. q \in Within(t, scope, wide)
    BY <2>2, WithinAt
  <2> QED BY <2>2, <2>3, AddedIs
<1>2. ASSUME NEW p \in Added(Within(t, scope, wide), c) PROVE p \in Within(t, scope \cup c, wide)
  <2>1. PICK q \in Within(t, scope, wide) : p = <<q[1], q[2] \cup c>>
    BY <1>2, AddedIs
  <2>2. PICK n \in 0..MaxDepth : q \in Layers(t, scope, wide)[n]
    BY <2>1, WithinAt
  <2>3. p \in Layers(t, scope \cup c, wide)[n]
    <3>0. Layers(t, scope \cup c, wide)[n] = Added(Layers(t, scope, wide)[n], c)
      BY <1>0 DEF LayersTakeOn
    <3>1. p \in Added(Layers(t, scope, wide)[n], c)
      BY <2>1, <2>2, AddedIs
    <3> QED BY <3>0, <3>1
  <2> QED BY <2>3, WithinAt
<1> QED BY <1>1, <1>2

\* A name in scope around a tree hides the tables of that name in it.
LEMMA OuterHides ==
    ASSUME NEW t, NEW scope, NEW wide, NEW c, NEW r
    PROVE  r \in TablesIn(t, scope \cup c, wide) <=>
              r \in TablesIn(t, scope, wide) /\ ~(r.schema = NoSchema /\ r.table \in c)
<1>1. ASSUME r \in TablesIn(t, scope \cup c, wide)
      PROVE  r \in TablesIn(t, scope, wide) /\ ~(r.schema = NoSchema /\ r.table \in c)
  <2>1. PICK p \in Within(t, scope \cup c, wide) :
            /\ r = p[1] /\ p[1].kind = "ref"
            /\ ~(p[1].schema = NoSchema /\ p[1].table \in p[2])
    BY <1>1 DEF TablesIn
  <2>2. PICK q \in Within(t, scope, wide) : p = <<q[1], q[2] \cup c>>
    <3>1. p \in Added(Within(t, scope, wide), c)
      BY WithinAdded
    <3> QED BY <3>1, AddedIs
  <2>3. p[1] = q[1] /\ p[2] = q[2] \cup c
    BY <2>2
  <2> QED BY <2>1, <2>2, <2>3 DEF TablesIn
<1>2. ASSUME r \in TablesIn(t, scope, wide), ~(r.schema = NoSchema /\ r.table \in c)
      PROVE  r \in TablesIn(t, scope \cup c, wide)
  <2>1. PICK q \in Within(t, scope, wide) :
            /\ r = q[1] /\ q[1].kind = "ref"
            /\ ~(q[1].schema = NoSchema /\ q[1].table \in q[2])
    BY <1>2 DEF TablesIn
  <2> DEFINE p == <<q[1], q[2] \cup c>>
  <2>2. p \in Within(t, scope \cup c, wide)
    <3>1. p \in Added(Within(t, scope, wide), c)
      BY AddedIs
    <3> QED BY <3>1, WithinAdded
  <2>3. p[1] = q[1] /\ p[2] = q[2] \cup c
    OBVIOUS
  <2>4. ~(p[1].schema = NoSchema /\ p[1].table \in p[2])
    BY <1>2, <2>1, <2>3
  <2> HIDE DEF p
  <2> QED BY <2>1, <2>2, <2>3, <2>4 DEF TablesIn
<1> QED BY <1>1, <1>2

\* The trees of a layer are the same whatever is in scope.
Alike(S, T) == \A p \in S : \E q \in T : q[1] = p[1]

LEMMA InsideAlike ==
    ASSUME NEW t, NEW c, NEW w, NEW d, NEW v
    PROVE  Alike(Inside(t, c, w), Inside(t, d, v))
<1> SUFFICES ASSUME NEW p \in Inside(t, c, w) PROVE \E q \in Inside(t, d, v) : q[1] = p[1]
  BY DEF Alike
<1>0. t.kind # "ref"
  BY InsideIs
<1>1. CASE \E x \in Range(t.items) : p = <<x, c \cup NamesOf(t)>>
  <2>1. PICK x \in Range(t.items) : p = <<x, c \cup NamesOf(t)>>
    BY <1>1
  <2>2. <<x, d \cup NamesOf(t)>> \in Inside(t, d, v)
    BY <1>0, InsideIs
  <2> QED BY <2>1, <2>2
<1>2. CASE \E i \in DOMAIN t.with : p = <<t.with[i].body, c \cup Visible(t, i, w)>>
  <2>1. PICK i \in DOMAIN t.with : p = <<t.with[i].body, c \cup Visible(t, i, w)>>
    BY <1>2
  <2>2. <<t.with[i].body, d \cup Visible(t, i, v)>> \in Inside(t, d, v)
    BY <1>0, InsideIs
  <2> QED BY <2>1, <2>2
<1> QED BY <1>1, <1>2, InsideIs

LEMMA ChildrenAlike ==
    ASSUME NEW S, NEW w, NEW T, NEW v, Alike(S, T)
    PROVE  Alike(Children(S, w), Children(T, v))
<1> SUFFICES ASSUME NEW p \in Children(S, w) PROVE \E q \in Children(T, v) : q[1] = p[1]
  BY DEF Alike
<1>1. PICK r \in S : p \in Inside(r[1], r[2], w)
  BY ChildOf
<1>2. PICK u \in T : u[1] = r[1]
  BY <1>1 DEF Alike
<1>3. Alike(Inside(r[1], r[2], w), Inside(r[1], u[2], v))
  BY InsideAlike
<1>4. PICK q \in Inside(r[1], u[2], v) : q[1] = p[1]
  BY <1>1, <1>3 DEF Alike
<1>5. q \in Children(T, v)
  BY <1>2, <1>4, ChildOf
<1> QED BY <1>4, <1>5

LayersLook(t, c, w, d, v) ==
    \A n \in 0..MaxDepth : Alike(Layers(t, c, w)[n], Layers(t, d, v)[n])

LEMMA LayersAlike ==
    ASSUME NEW t, NEW c, NEW w, NEW d, NEW v
    PROVE  LayersLook(t, c, w, d, v)
<1> DEFINE L == Layers(t, c, w)
           M == Layers(t, d, v)
           S == {k \in Nat : k <= MaxDepth => Alike(L[k], M[k])}
<1>1. 0 \in S
  <2>1. Alike({<<t, c>>}, {<<t, d>>})
    BY DEF Alike
  <2> QED BY <2>1, LayerZero
<1>2. ASSUME NEW k \in S PROVE k + 1 \in S
  <2>1. k \in Nat /\ k + 1 \in Nat
    BY <1>2
  <2> SUFFICES ASSUME k + 1 <= MaxDepth PROVE Alike(L[k + 1], M[k + 1])
    BY <2>1
  <2>2. k < MaxDepth /\ k <= MaxDepth
    BY <2>1, DepthAssumption
  <2>3. Alike(L[k], M[k])
    BY <1>2, <2>2
  <2>4. L[k + 1] = Children(L[k], w) /\ M[k + 1] = Children(M[k], v)
    BY <2>1, <2>2, LayerNext
  <2> HIDE DEF L, M
  <2>5. Alike(Children(L[k], w), Children(M[k], v))
    BY <2>3, ChildrenAlike
  <2> QED BY <2>4, <2>5
<1> HIDE DEF S
<1>3. S = Nat
  <2>1. S \in SUBSET Nat
    BY DEF S
  <2> QED BY <1>1, <1>2, <2>1, Induct
<1>4. \A n \in 0..MaxDepth : n \in S /\ n <= MaxDepth
  BY <1>3, DepthAssumption
<1>5. \A n \in 0..MaxDepth : Alike(L[n], M[n])
  BY <1>4 DEF S
<1> QED BY <1>5 DEF LayersLook

\* What is at a depth of a tree is a layer higher in what is inside it.
Below(S, wide, n) == UNION {Layers(p[1], p[2], wide)[n] : p \in S}

LEMMA BelowIs ==
    ASSUME NEW S, NEW wide, NEW n, NEW p
    PROVE  p \in Below(S, wide, n) <=> \E q \in S : p \in Layers(q[1], q[2], wide)[n]
BY DEF Below

LEMMA BelowNext ==
    ASSUME NEW S, NEW wide, NEW n \in Nat, n < MaxDepth
    PROVE  Below(S, wide, n + 1) = Children(Below(S, wide, n), wide)
<1>0. \A q : Layers(q[1], q[2], wide)[n + 1] = Children(Layers(q[1], q[2], wide)[n], wide)
  BY LayerNext
<1>1. ASSUME NEW p \in Below(S, wide, n + 1) PROVE p \in Children(Below(S, wide, n), wide)
  <2>1. PICK q \in S : p \in Layers(q[1], q[2], wide)[n + 1]
    BY <1>1, BelowIs
  <2>2. PICK r \in Layers(q[1], q[2], wide)[n] : p \in Inside(r[1], r[2], wide)
    BY <1>0, <2>1, ChildOf
  <2>3. r \in Below(S, wide, n)
    BY <2>2, BelowIs
  <2> QED BY <2>2, <2>3, ChildOf
<1>2. ASSUME NEW p \in Children(Below(S, wide, n), wide) PROVE p \in Below(S, wide, n + 1)
  <2>1. PICK r \in Below(S, wide, n) : p \in Inside(r[1], r[2], wide)
    BY <1>2, ChildOf
  <2>2. PICK q \in S : r \in Layers(q[1], q[2], wide)[n]
    BY <2>1, BelowIs
  <2>3. p \in Children(Layers(q[1], q[2], wide)[n], wide)
    BY <2>1, <2>2, ChildOf
  <2>4. p \in Layers(q[1], q[2], wide)[n + 1]
    BY <1>0, <2>3
  <2> QED BY <2>2, <2>4, BelowIs
<1> QED BY <1>1, <1>2

LayersShift(t, c, w) ==
    \A n \in 0..(MaxDepth - 1) : Layers(t, c, w)[n + 1] = Below(Inside(t, c, w), w, n)

LEMMA LayersShifted ==
    ASSUME NEW t, NEW c, NEW w
    PROVE  LayersShift(t, c, w)
<1> DEFINE L == Layers(t, c, w)
           B(k) == Below(Inside(t, c, w), w, k)
           S == {k \in Nat : k < MaxDepth => L[k + 1] = B(k)}
<1>1. 0 \in S
  <2> SUFFICES ASSUME 0 < MaxDepth PROVE L[0 + 1] = B(0)
    OBVIOUS
  <2>1. L[0 + 1] = Children({<<t, c>>}, w)
    BY LayerZero, LayerNext
  <2>2. \A p : p \in Children({<<t, c>>}, w) <=> p \in Inside(t, c, w)
    <3>1. <<t, c>>[1] = t /\ <<t, c>>[2] = c
      OBVIOUS
    <3> QED BY <3>1 DEF Children
  <2>3. \A p : p \in B(0) <=> \E q \in Inside(t, c, w) : p = <<q[1], q[2]>>
    BY BelowIs, LayerZero
  <2>4. \A q \in Inside(t, c, w) : q = <<q[1], q[2]>>
    BY InsideIs
  <2> HIDE DEF L, B
  <2>5. \A p : p \in B(0) <=> p \in Inside(t, c, w)
    BY <2>3, <2>4
  <2>6. B(0) = Children({<<t, c>>}, w)
    <3>1. \A p : p \in B(0) <=> p \in Children({<<t, c>>}, w)
      BY <2>2, <2>5
    <3>2. B(0) = Below(Inside(t, c, w), w, 0)
      BY DEF B
    <3>3. \A p : p \in Below(Inside(t, c, w), w, 0) <=> p \in Children({<<t, c>>}, w)
      BY <3>1, <3>2
    <3>4. Below(Inside(t, c, w), w, 0) = Children({<<t, c>>}, w)
      BY <3>3 DEF Below, Children
    <3> QED BY <3>2, <3>4
  <2> QED BY <2>1, <2>6
<1>2. ASSUME NEW k \in S PROVE k + 1 \in S
  <2>1. k \in Nat /\ k + 1 \in Nat
    BY <1>2
  <2> SUFFICES ASSUME k + 1 < MaxDepth PROVE L[(k + 1) + 1] = B(k + 1)
    BY <2>1
  <2>2. k < MaxDepth
    BY <2>1, DepthAssumption
  <2>3. L[k + 1] = B(k)
    BY <1>2, <2>2
  <2>4. L[(k + 1) + 1] = Children(L[k + 1], w)
    BY <2>1, LayerNext
  <2>5. B(k + 1) = Children(B(k), w)
    BY <2>1, <2>2, BelowNext
  <2> HIDE DEF L, B
  <2> QED BY <2>3, <2>4, <2>5
<1> HIDE DEF S
<1>3. S = Nat
  <2>1. S \in SUBSET Nat
    BY DEF S
  <2> QED BY <1>1, <1>2, <2>1, Induct
<1>4. \A n \in 0..(MaxDepth - 1) : n \in S /\ n < MaxDepth
  BY <1>3, DepthAssumption
<1>5. \A n \in 0..(MaxDepth - 1) : L[n + 1] = B(n)
  BY <1>4 DEF S
<1> QED BY <1>5 DEF LayersShift

\* A tree as the parser makes them, down to its leaves.
Good(t) ==
    /\ \A p \in Within(t, {}, FALSE) : IsTree(p[1])
    /\ \A p \in Layers(t, {}, FALSE)[MaxDepth] : Inside(p[1], p[2], FALSE) = {}

LEMMA StatementsAreGood ==
    ASSUME NEW s
    PROVE  IsStatement(s) <=> s.kind # "ref" /\ Good(s)
BY DEF IsStatement, Good

\* Then it is one whatever is in scope around it.
LEMMA GoodWhereverItStands ==
    ASSUME NEW t, Good(t), NEW c, NEW w
    PROVE  /\ \A p \in Within(t, c, w) : IsTree(p[1])
           /\ Children(Layers(t, c, w)[MaxDepth], w) = {}
<1>0. MaxDepth \in 0..MaxDepth
  BY DepthAssumption
<1>1. LayersLook(t, c, w, {}, FALSE)
  BY LayersAlike
<1>2. ASSUME NEW p \in Within(t, c, w) PROVE IsTree(p[1])
  <2>1. PICK n \in 0..MaxDepth : p \in Layers(t, c, w)[n]
    BY WithinAt
  <2>2. PICK q \in Layers(t, {}, FALSE)[n] : q[1] = p[1]
    BY <1>1, <2>1 DEF LayersLook, Alike
  <2>3. q \in Within(t, {}, FALSE)
    BY <2>2, WithinAt
  <2> QED BY <2>2, <2>3 DEF Good
<1>3. ASSUME NEW p \in Children(Layers(t, c, w)[MaxDepth], w) PROVE FALSE
  <2>1. PICK q \in Layers(t, c, w)[MaxDepth] : p \in Inside(q[1], q[2], w)
    BY ChildOf
  <2>2. PICK r \in Layers(t, {}, FALSE)[MaxDepth] : r[1] = q[1]
    BY <1>0, <1>1, <2>1 DEF LayersLook, Alike
  <2>3. Alike(Inside(q[1], q[2], w), Inside(q[1], r[2], FALSE))
    BY InsideAlike
  <2>4. \E u : u \in Inside(r[1], r[2], FALSE)
    BY <2>1, <2>2, <2>3 DEF Alike
  <2> QED BY <2>2, <2>4 DEF Good
<1> QED BY <1>2, <1>3

\* What is inside a tree has no layer as deep as the deepest.
LEMMA NothingDeeper ==
    ASSUME NEW t, Good(t), NEW c, NEW w, NEW q \in Inside(t, c, w)
    PROVE  Layers(q[1], q[2], w)[MaxDepth] = {}
<1>0. MaxDepth \in Nat
  BY DepthAssumption
<1>1. LayersShift(t, c, w)
  BY LayersShifted
<1>2. Children(Layers(t, c, w)[MaxDepth], w) = {}
  BY GoodWhereverItStands
<1>3. CASE MaxDepth = 0
  <2>1. <<t, c>> \in Layers(t, c, w)[MaxDepth] /\ <<t, c>>[1] = t /\ <<t, c>>[2] = c
    BY <1>3, LayerZero
  <2>2. q \in Children(Layers(t, c, w)[MaxDepth], w)
    <3>1. q \in Inside(<<t, c>>[1], <<t, c>>[2], w)
      BY <2>1
    <3> QED BY <2>1, <3>1, ChildOf
  <2> QED BY <1>2, <2>2
<1>4. CASE MaxDepth # 0
  <2> DEFINE n == MaxDepth - 1
  <2>1. n \in Nat /\ n < MaxDepth /\ n + 1 = MaxDepth /\ n \in 0..(MaxDepth - 1)
    BY <1>0, <1>4
  <2> HIDE DEF n
  <2>2. Layers(q[1], q[2], w)[MaxDepth] = Children(Layers(q[1], q[2], w)[n], w)
    BY <2>1, LayerNext
  <2>3. Layers(t, c, w)[MaxDepth] = Below(Inside(t, c, w), w, n)
    BY <1>1, <2>1 DEF LayersShift
  <2> SUFFICES ASSUME NEW p \in Children(Layers(q[1], q[2], w)[n], w) PROVE FALSE
    BY <2>2
  <2>4. PICK r \in Layers(q[1], q[2], w)[n] : p \in Inside(r[1], r[2], w)
    BY ChildOf
  <2>5. r \in Layers(t, c, w)[MaxDepth]
    BY <2>3, <2>4, BelowIs
  <2>6. p \in Children(Layers(t, c, w)[MaxDepth], w)
    BY <2>4, <2>5, ChildOf
  <2> QED BY <1>2, <2>6
<1> QED BY <1>3, <1>4

\* A tree is itself and all that is within what is inside it.
LEMMA WithinIs ==
    ASSUME NEW t, Good(t), NEW c, NEW w, NEW p
    PROVE  p \in Within(t, c, w) <=>
              \/ p = <<t, c>>
              \/ \E q \in Inside(t, c, w) : p \in Within(q[1], q[2], w)
<1>0. MaxDepth \in Nat
  BY DepthAssumption
<1>1. LayersShift(t, c, w)
  BY LayersShifted
<1>2. p \in Layers(t, c, w)[0] <=> p = <<t, c>>
  BY LayerZero
<1>3. ASSUME p \in Within(t, c, w), p # <<t, c>>
      PROVE  \E q \in Inside(t, c, w) : p \in Within(q[1], q[2], w)
  <2>1. PICK n \in 0..MaxDepth : p \in Layers(t, c, w)[n]
    BY <1>3, WithinAt
  <2>2. n # 0
    BY <1>2, <1>3, <2>1
  <2> DEFINE m == n - 1
  <2>3. m \in 0..(MaxDepth - 1) /\ m + 1 = n /\ m \in 0..MaxDepth
    BY <1>0, <2>2
  <2> HIDE DEF m
  <2>4. p \in Below(Inside(t, c, w), w, m)
    BY <1>1, <2>1, <2>3 DEF LayersShift
  <2>5. PICK q \in Inside(t, c, w) : p \in Layers(q[1], q[2], w)[m]
    BY <2>4, BelowIs
  <2>6. p \in Within(q[1], q[2], w)
    BY <2>3, <2>5, WithinAt
  <2> QED BY <2>5, <2>6
<1>4. ASSUME NEW q \in Inside(t, c, w), p \in Within(q[1], q[2], w)
      PROVE  p \in Within(t, c, w)
  <2>1. PICK n \in 0..MaxDepth : p \in Layers(q[1], q[2], w)[n]
    BY <1>4, WithinAt
  <2>2. n # MaxDepth
    BY <2>1, NothingDeeper
  <2>3. n \in 0..(MaxDepth - 1) /\ n + 1 \in 0..MaxDepth
    BY <1>0, <2>2
  <2>4. p \in Below(Inside(t, c, w), w, n)
    BY <2>1, BelowIs
  <2>5. p \in Layers(t, c, w)[n + 1]
    BY <1>1, <2>3, <2>4 DEF LayersShift
  <2> QED BY <2>3, <2>5, WithinAt
<1>5. p = <<t, c>> => p \in Within(t, c, w)
  <2>1. 0 \in 0..MaxDepth
    BY <1>0
  <2> QED BY <1>2, <2>1, WithinAt
<1> QED BY <1>3, <1>4, <1>5

LEMMA GoodIsATree ==
    ASSUME NEW t, Good(t)
    PROVE  IsTree(t)
<1>1. <<t, {}>> \in Within(t, {}, FALSE) /\ <<t, {}>>[1] = t
  BY WithinIs
<1> QED BY <1>1 DEF Good

\* What is inside such a tree is such a tree.
LEMMA GoodInside ==
    ASSUME NEW t, Good(t), NEW c, NEW w, NEW q \in Inside(t, c, w)
    PROVE  Good(q[1])
<1>1. Alike(Inside(t, c, w), Inside(t, {}, FALSE))
  BY InsideAlike
<1>2. PICK r \in Inside(t, {}, FALSE) : r[1] = q[1]
  BY <1>1 DEF Alike
<1>3. LayersLook(r[1], {}, FALSE, r[2], FALSE)
  BY LayersAlike
<1>4. ASSUME NEW p \in Within(r[1], {}, FALSE) PROVE IsTree(p[1])
  <2>1. PICK n \in 0..MaxDepth : p \in Layers(r[1], {}, FALSE)[n]
    BY WithinAt
  <2>2. PICK u \in Layers(r[1], r[2], FALSE)[n] : u[1] = p[1]
    BY <1>3, <2>1 DEF LayersLook, Alike
  <2>3. u \in Within(r[1], r[2], FALSE)
    BY <2>2, WithinAt
  <2>4. u \in Within(t, {}, FALSE)
    BY <1>2, <2>3, WithinIs
  <2> QED BY <2>2, <2>4 DEF Good
<1>5. ASSUME NEW p \in Layers(r[1], {}, FALSE)[MaxDepth] PROVE FALSE
  <2>1. MaxDepth \in 0..MaxDepth
    BY DepthAssumption
  <2>2. PICK u \in Layers(r[1], r[2], FALSE)[MaxDepth] : u[1] = p[1]
    BY <1>3, <1>5, <2>1 DEF LayersLook, Alike
  <2> QED BY <2>2, NothingDeeper
<1>6. Good(r[1])
  BY <1>4, <1>5 DEF Good
<1> QED BY <1>2, <1>6

LEMMA GoodLayers ==
    ASSUME NEW t, Good(t), NEW c, NEW w
    PROVE  \A n \in 0..MaxDepth : \A p \in Layers(t, c, w)[n] : Good(p[1])
<1> DEFINE L == Layers(t, c, w)
           S == {k \in Nat : k <= MaxDepth => \A p \in L[k] : Good(p[1])}
<1>1. 0 \in S
  BY LayerZero
<1>2. ASSUME NEW k \in S PROVE k + 1 \in S
  <2>1. k \in Nat /\ k + 1 \in Nat
    BY <1>2
  <2> SUFFICES ASSUME k + 1 <= MaxDepth, NEW p \in L[k + 1] PROVE Good(p[1])
    BY <2>1
  <2>2. k < MaxDepth /\ k <= MaxDepth
    BY <2>1, DepthAssumption
  <2>3. \A q \in L[k] : Good(q[1])
    BY <1>2, <2>2
  <2>4. L[k + 1] = Children(L[k], w)
    BY <2>1, <2>2, LayerNext
  <2> HIDE DEF L
  <2>5. PICK q \in L[k] : p \in Inside(q[1], q[2], w)
    BY <2>4, ChildOf
  <2> QED BY <2>3, <2>5, GoodInside
<1> HIDE DEF S
<1>3. S = Nat
  <2>1. S \in SUBSET Nat
    BY DEF S
  <2> QED BY <1>1, <1>2, <2>1, Induct
<1>4. \A n \in 0..MaxDepth : n \in S /\ n <= MaxDepth
  BY <1>3, DepthAssumption
<1> QED BY <1>4 DEF S

\* The tables in a tree are its own and those in what is inside it.
Names(t, c) == t.kind = "ref" /\ ~(t.schema = NoSchema /\ t.table \in c)

LEMMA TablesInAre ==
    ASSUME NEW t, NEW c, NEW w, NEW r
    PROVE  r \in TablesIn(t, c, w) <=> \E p \in Within(t, c, w) : r = p[1] /\ Names(p[1], p[2])
BY DEF TablesIn, Names

LEMMA TablesInIs ==
    ASSUME NEW t, Good(t), NEW c, NEW w, NEW r
    PROVE  r \in TablesIn(t, c, w) <=>
              \/ r = t /\ Names(t, c)
              \/ \E q \in Inside(t, c, w) : r \in TablesIn(q[1], q[2], w)
<1>0. <<t, c>>[1] = t /\ <<t, c>>[2] = c
  OBVIOUS
<1>1. ASSUME r \in TablesIn(t, c, w)
      PROVE  \/ r = t /\ Names(t, c)
             \/ \E q \in Inside(t, c, w) : r \in TablesIn(q[1], q[2], w)
  <2>1. PICK p \in Within(t, c, w) : r = p[1] /\ Names(p[1], p[2])
    BY <1>1, TablesInAre
  <2>2. CASE p = <<t, c>>
    BY <1>0, <2>1, <2>2
  <2>3. CASE p # <<t, c>>
    <3>1. PICK q \in Inside(t, c, w) : p \in Within(q[1], q[2], w)
      BY <2>3, WithinIs
    <3>2. r \in TablesIn(q[1], q[2], w)
      BY <2>1, <3>1, TablesInAre
    <3> QED BY <3>2
  <2> QED BY <2>2, <2>3
<1>2. ASSUME r = t, Names(t, c) PROVE r \in TablesIn(t, c, w)
  <2>1. <<t, c>> \in Within(t, c, w)
    BY WithinIs
  <2> QED BY <1>0, <1>2, <2>1, TablesInAre
<1>3. ASSUME NEW q \in Inside(t, c, w), r \in TablesIn(q[1], q[2], w)
      PROVE  r \in TablesIn(t, c, w)
  <2>1. PICK p \in Within(q[1], q[2], w) : r = p[1] /\ Names(p[1], p[2])
    BY <1>3, TablesInAre
  <2>2. p \in Within(t, c, w)
    BY <2>1, WithinIs
  <2> QED BY <2>1, <2>2, TablesInAre
<1> QED BY <1>1, <1>2, <1>3

\* A tree writes if it does so itself or something inside it does.
WritesHere(t) == t.kind = "write" \/ (t.kind = "select" /\ t.clauses # {})

LEMMA WritesAnywhere ==
    ASSUME NEW t, NEW c, NEW w
    PROVE  Writes(t) <=> \E p \in Within(t, c, w) : WritesHere(p[1])
<1>1. LayersLook(t, c, w, {}, FALSE) /\ LayersLook(t, {}, FALSE, c, w)
  BY LayersAlike
<1>2. Writes(t) <=> \E p \in Within(t, {}, FALSE) : WritesHere(p[1])
  BY DEF Writes, WritesHere
<1>3. ASSUME NEW p \in Within(t, {}, FALSE), WritesHere(p[1])
      PROVE  \E q \in Within(t, c, w) : WritesHere(q[1])
  <2>1. PICK n \in 0..MaxDepth : p \in Layers(t, {}, FALSE)[n]
    BY WithinAt
  <2>2. PICK q \in Layers(t, c, w)[n] : q[1] = p[1]
    BY <1>1, <2>1 DEF LayersLook, Alike
  <2>3. q \in Within(t, c, w)
    BY <2>2, WithinAt
  <2> QED BY <1>3, <2>2, <2>3
<1>4. ASSUME NEW p \in Within(t, c, w), WritesHere(p[1])
      PROVE  \E q \in Within(t, {}, FALSE) : WritesHere(q[1])
  <2>1. PICK n \in 0..MaxDepth : p \in Layers(t, c, w)[n]
    BY WithinAt
  <2>2. PICK q \in Layers(t, {}, FALSE)[n] : q[1] = p[1]
    BY <1>1, <2>1 DEF LayersLook, Alike
  <2>3. q \in Within(t, {}, FALSE)
    BY <2>2, WithinAt
  <2> QED BY <1>4, <2>2, <2>3
<1> QED BY <1>2, <1>3, <1>4

WritesInside(t, c, w) == \E q \in Inside(t, c, w) : Writes(q[1])

LEMMA WritesIs ==
    ASSUME NEW t, Good(t), NEW c, NEW w
    PROVE  Writes(t) <=> WritesHere(t) \/ WritesInside(t, c, w)
<1>0. <<t, c>>[1] = t /\ <<t, c>>[2] = c
  OBVIOUS
<1>1. Writes(t) <=> \E p \in Within(t, c, w) : WritesHere(p[1])
  BY WritesAnywhere
<1>2. \A q : Writes(q[1]) <=> \E p \in Within(q[1], q[2], w) : WritesHere(p[1])
  BY WritesAnywhere
<1>3. ASSUME Writes(t) PROVE WritesHere(t) \/ \E q \in Inside(t, c, w) : Writes(q[1])
  <2>1. PICK p \in Within(t, c, w) : WritesHere(p[1])
    BY <1>1, <1>3
  <2>2. CASE p = <<t, c>>
    BY <1>0, <2>1, <2>2
  <2>3. CASE p # <<t, c>>
    <3>1. PICK q \in Inside(t, c, w) : p \in Within(q[1], q[2], w)
      BY <2>3, WithinIs
    <3> QED BY <1>2, <2>1, <3>1
  <2> QED BY <2>2, <2>3
<1>4. ASSUME WritesHere(t) PROVE Writes(t)
  <2>1. <<t, c>> \in Within(t, c, w)
    BY WithinIs
  <2> QED BY <1>0, <1>1, <1>4, <2>1
<1>5. ASSUME NEW q \in Inside(t, c, w), Writes(q[1]) PROVE Writes(t)
  <2>1. PICK p \in Within(q[1], q[2], w) : WritesHere(p[1])
    BY <1>2, <1>5
  <2>2. p \in Within(t, c, w)
    BY <2>1, WithinIs
  <2> QED BY <1>1, <2>1, <2>2
<1> QED BY <1>3, <1>4, <1>5 DEF WritesInside

\* A tree with every WITH counted as recursive has no table it would not have
\* otherwise, and lacks none but those of E.
Same(t, E) == \A c, r :
    /\ r \in TablesIn(t, c, TRUE) => r \in TablesIn(t, c, FALSE)
    /\ r \in TablesIn(t, c, FALSE) /\ r \notin E => r \in TablesIn(t, c, TRUE)

EarlyIn(t, E) == t.kind # "ref" => \A r \in EarlyHere(t) : r \in E

LEMMA EarlyHereIs ==
    ASSUME NEW t, NEW i \in DOMAIN t.with, NEW r
    PROVE  r \in TablesIn(t.with[i].body, Visible(t, i, FALSE), FALSE) /\
           r \notin TablesIn(t.with[i].body, NamesOf(t), FALSE) => r \in EarlyHere(t)
<1> DEFINE A(j) == TablesIn(t.with[j].body, Visible(t, j, FALSE), FALSE)
           B(j) == TablesIn(t.with[j].body, NamesOf(t), FALSE)
<1>1. EarlyHere(t) = UNION {A(j) \ B(j) : j \in DOMAIN t.with}
  BY DEF EarlyHere
<1> HIDE DEF A, B
<1>2. r \in A(i) /\ r \notin B(i) => r \in EarlyHere(t)
  BY <1>1
<1> QED BY <1>2 DEF A, B

LEMMA EarlyIs ==
    ASSUME NEW s, NEW p \in Within(s, {}, FALSE)
    PROVE  EarlyIn(p[1], Early(s))
BY DEF Early, EarlyIn

LEMMA AllVisible ==
    ASSUME NEW t, NEW i
    PROVE  Visible(t, i, TRUE) = NamesOf(t)
BY DEF Visible, NamesOf

InNarrow(t, i, c, r) == r \in TablesIn(t.with[i].body, c \cup Visible(t, i, FALSE), FALSE)
InWide(t, i, c, r) == r \in TablesIn(t.with[i].body, c \cup Visible(t, i, TRUE), TRUE)

LEMMA SameInEntries ==
    ASSUME NEW t, Good(t), NEW E, NEW i \in DOMAIN t.with, t.kind # "ref", EarlyIn(t, E),
           Same(t.with[i].body, E), NEW c, NEW r
    PROVE  /\ InWide(t, i, c, r) => InNarrow(t, i, c, r)
           /\ InNarrow(t, i, c, r) /\ r \notin E => InWide(t, i, c, r)
<1> DEFINE b == t.with[i].body
           V == Visible(t, i, FALSE)
           N == NamesOf(t)
           Hidden == r.schema = NoSchema /\ r.table \in c
<1>1. r \in TablesIn(b, V, FALSE) /\ r \notin E => r \in TablesIn(b, N, FALSE)
  BY EarlyHereIs DEF EarlyIn
<1>2. Visible(t, i, TRUE) = N
  BY AllVisible
<1>3. Same(b, E)
  OBVIOUS
<1>4. c \cup V = V \cup c /\ c \cup N = N \cup c /\ V \cup N = N
  <2>1. t.with \in Seq(Range(t.with))
    BY GoodIsATree DEF IsTree
  <2>2. DOMAIN t.with = 1..Len(t.with) /\ Len(t.with) \in Nat
    BY <2>1
  <2>3. \A j \in 1..(i - 1) : j \in DOMAIN t.with
    BY <2>2
  <2>4. \A n \in V : n \in N
    BY <2>3 DEF Visible, NamesOf
  <2> HIDE DEF V, N
  <2> QED BY <2>4
<1> HIDE DEF b, V, N
<1>5. r \in TablesIn(b, c \cup V, FALSE) <=> r \in TablesIn(b, V, FALSE) /\ ~Hidden
  BY <1>4, OuterHides
<1>6. r \in TablesIn(b, c \cup N, FALSE) <=> r \in TablesIn(b, N, FALSE) /\ ~Hidden
  BY <1>4, OuterHides
<1>7. r \in TablesIn(b, N, FALSE) => r \in TablesIn(b, V, FALSE)
  <2>1. r \in TablesIn(b, V \cup N, FALSE) => r \in TablesIn(b, V, FALSE)
    BY OuterHides
  <2> QED BY <1>4, <2>1
<1>8. /\ r \in TablesIn(b, c \cup N, TRUE) => r \in TablesIn(b, c \cup N, FALSE)
      /\ r \in TablesIn(b, c \cup N, FALSE) /\ r \notin E => r \in TablesIn(b, c \cup N, TRUE)
  BY <1>3 DEF Same
<1>9. InNarrow(t, i, c, r) <=> r \in TablesIn(b, c \cup V, FALSE)
  BY DEF InNarrow, b, V
<1>10. InWide(t, i, c, r) <=> r \in TablesIn(b, c \cup N, TRUE)
  BY <1>2 DEF InWide, b
<1> QED BY <1>1, <1>5, <1>6, <1>7, <1>8, <1>9, <1>10

LEMMA SameStep ==
    ASSUME NEW t, NEW E, Good(t), EarlyIn(t, E),
           \A q \in Inside(t, {}, FALSE) : Same(q[1], E)
    PROVE  Same(t, E)
<1> SUFFICES ASSUME NEW c, NEW r
             PROVE  /\ r \in TablesIn(t, c, TRUE) => r \in TablesIn(t, c, FALSE)
                    /\ r \in TablesIn(t, c, FALSE) /\ r \notin E => r \in TablesIn(t, c, TRUE)
  BY DEF Same
<1>1. ASSUME NEW x \in Range(t.items), t.kind # "ref" PROVE Same(x, E)
  <2>1. <<x, {} \cup NamesOf(t)>> \in Inside(t, {}, FALSE)
    BY <1>1, InsideIs
  <2> QED BY <2>1
<1>2. ASSUME NEW i \in DOMAIN t.with, t.kind # "ref" PROVE Same(t.with[i].body, E)
  <2>1. <<t.with[i].body, {} \cup Visible(t, i, FALSE)>> \in Inside(t, {}, FALSE)
    BY <1>2, InsideIs
  <2> QED BY <2>1
<1> DEFINE InItems(w) == \E x \in Range(t.items) : r \in TablesIn(x, c \cup NamesOf(t), w)
           InWith(w) == \E i \in DOMAIN t.with :
                            r \in TablesIn(t.with[i].body, c \cup Visible(t, i, w), w)
<1>3. ASSUME NEW w
      PROVE  r \in TablesIn(t, c, w) <=>
                \/ r = t /\ Names(t, c)
                \/ t.kind # "ref" /\ (InItems(w) \/ InWith(w))
  <2>1. ASSUME t.kind # "ref", InItems(w) PROVE \E q \in Inside(t, c, w) : r \in TablesIn(q[1], q[2], w)
    <3>1. PICK x \in Range(t.items) : r \in TablesIn(x, c \cup NamesOf(t), w)
      BY <2>1
    <3> DEFINE q == <<x, c \cup NamesOf(t)>>
    <3>2. q \in Inside(t, c, w)
      BY <2>1, InsideIs
    <3>3. q[1] = x /\ q[2] = c \cup NamesOf(t)
      OBVIOUS
    <3> HIDE DEF q
    <3> QED BY <3>1, <3>2, <3>3
  <2>2. ASSUME t.kind # "ref", InWith(w) PROVE \E q \in Inside(t, c, w) : r \in TablesIn(q[1], q[2], w)
    <3>1. PICK i \in DOMAIN t.with : r \in TablesIn(t.with[i].body, c \cup Visible(t, i, w), w)
      BY <2>2
    <3> DEFINE q == <<t.with[i].body, c \cup Visible(t, i, w)>>
    <3>2. q \in Inside(t, c, w)
      BY <2>2, InsideIs
    <3>3. q[1] = t.with[i].body /\ q[2] = c \cup Visible(t, i, w)
      OBVIOUS
    <3> HIDE DEF q
    <3> QED BY <3>1, <3>2, <3>3
  <2>3. ASSUME NEW q \in Inside(t, c, w), r \in TablesIn(q[1], q[2], w)
        PROVE  t.kind # "ref" /\ (InItems(w) \/ InWith(w))
    <3>0. t.kind # "ref"
      BY InsideIs
    <3>1. CASE \E x \in Range(t.items) : q = <<x, c \cup NamesOf(t)>>
      BY <2>3, <3>0, <3>1
    <3>2. CASE \E i \in DOMAIN t.with : q = <<t.with[i].body, c \cup Visible(t, i, w)>>
      <4>1. PICK i \in DOMAIN t.with : q = <<t.with[i].body, c \cup Visible(t, i, w)>>
        BY <3>2
      <4>2. q[1] = t.with[i].body /\ q[2] = c \cup Visible(t, i, w)
        BY <4>1
      <4>3. r \in TablesIn(t.with[i].body, c \cup Visible(t, i, w), w)
        BY <2>3, <4>2
      <4> QED BY <3>0, <4>3
    <3>3. \/ \E x \in Range(t.items) : q = <<x, c \cup NamesOf(t)>>
          \/ \E i \in DOMAIN t.with : q = <<t.with[i].body, c \cup Visible(t, i, w)>>
      BY InsideIs
    <3> HIDE DEF InItems, InWith
    <3> QED BY <3>1, <3>2, <3>3
  <2> HIDE DEF InItems, InWith
  <2> QED BY <2>1, <2>2, <2>3, TablesInIs
<1>4. t.kind # "ref" => /\ InItems(TRUE) => InItems(FALSE)
                        /\ InItems(FALSE) /\ r \notin E => InItems(TRUE)
  BY <1>1 DEF Same
<1>5. t.kind # "ref" => /\ InWith(TRUE) => InWith(FALSE)
                        /\ InWith(FALSE) /\ r \notin E => InWith(TRUE)
  <2> SUFFICES ASSUME t.kind # "ref"
               PROVE  /\ InWith(TRUE) => InWith(FALSE)
                      /\ InWith(FALSE) /\ r \notin E => InWith(TRUE)
    OBVIOUS
  <2>1. \A i \in DOMAIN t.with :
            /\ InWide(t, i, c, r) => InNarrow(t, i, c, r)
            /\ InNarrow(t, i, c, r) /\ r \notin E => InWide(t, i, c, r)
    BY <1>2, SameInEntries
  <2> QED BY <2>1 DEF InWide, InNarrow
<1> HIDE DEF InItems, InWith
<1> QED BY <1>3, <1>4, <1>5

\* So the walker finds no table PostgreSQL does not read, and misses none but
\* those read early.
LEMMA WideReads ==
    ASSUME NEW s, Good(s)
    PROVE  Same(s, Early(s))
<1> DEFINE E == Early(s)
           L == Layers(s, {}, FALSE)
           S == {k \in Nat : k <= MaxDepth => \A p \in L[MaxDepth - k] : Same(p[1], E)}
<1>0. MaxDepth \in Nat
  BY DepthAssumption
<1>1. ASSUME NEW n \in 0..MaxDepth, NEW p \in L[n] PROVE Good(p[1]) /\ EarlyIn(p[1], E)
  <2>1. p \in Within(s, {}, FALSE)
    BY <1>1, WithinAt
  <2>2. EarlyIn(p[1], E)
    BY <2>1, EarlyIs
  <2> QED BY <1>1, <2>2, GoodLayers
<1> HIDE DEF E
<1>2. 0 \in S
  <2>0. MaxDepth - 0 = MaxDepth /\ MaxDepth \in 0..MaxDepth
    BY <1>0
  <2> SUFFICES ASSUME NEW p \in L[MaxDepth] PROVE Same(p[1], E)
    BY <2>0
  <2>1. Inside(p[1], p[2], FALSE) = {}
    BY DEF Good
  <2>2. Alike(Inside(p[1], {}, FALSE), Inside(p[1], p[2], FALSE))
    BY InsideAlike
  <2>3. \A q \in Inside(p[1], {}, FALSE) : FALSE
    BY <2>1, <2>2 DEF Alike
  <2>4. Good(p[1]) /\ EarlyIn(p[1], E)
    BY <1>1, <2>0
  <2> HIDE DEF L, S
  <2> QED BY <2>3, <2>4, SameStep
<1>3. ASSUME NEW k \in S PROVE k + 1 \in S
  <2>1. k \in Nat /\ k + 1 \in Nat
    BY <1>3
  <2> SUFFICES ASSUME k + 1 <= MaxDepth, NEW p \in L[MaxDepth - (k + 1)] PROVE Same(p[1], E)
    BY <2>1
  <2> DEFINE n == MaxDepth - (k + 1)
  <2>2. n \in Nat /\ n < MaxDepth /\ n \in 0..MaxDepth /\ n + 1 = MaxDepth - k /\ k <= MaxDepth
    BY <1>0, <2>1
  <2>3. \A q \in L[n + 1] : Same(q[1], E)
    BY <1>3, <2>2
  <2>4. p \in L[n]
    OBVIOUS
  <2> HIDE DEF n
  <2>5. L[n + 1] = Children(L[n], FALSE)
    BY <2>2, LayerNext
  <2> HIDE DEF L, S
  <2>6. ASSUME NEW q \in Inside(p[1], p[2], FALSE) PROVE Same(q[1], E)
    <3>1. q \in Children(L[n], FALSE)
      BY <2>4, ChildOf
    <3> QED BY <2>3, <2>5, <3>1
  <2>7. Alike(Inside(p[1], {}, FALSE), Inside(p[1], p[2], FALSE))
    BY InsideAlike
  <2>8. \A q \in Inside(p[1], {}, FALSE) : Same(q[1], E)
    BY <2>6, <2>7 DEF Alike
  <2> QED BY <1>1, <2>2, <2>4, <2>8, SameStep
<1> HIDE DEF S
<1>4. S = Nat
  <2>1. S \in SUBSET Nat
    BY DEF S
  <2> QED BY <1>2, <1>3, <2>1, Induct
<1>5. MaxDepth \in S
  BY <1>0, <1>4
<1>6. MaxDepth - MaxDepth = 0 /\ MaxDepth <= MaxDepth
  BY <1>0
<1>7. <<s, {}>> \in L[0] /\ <<s, {}>>[1] = s
  BY LayerZero
<1>8. Same(s, E)
  BY <1>5, <1>6, <1>7 DEF S
<1> QED BY <1>8 DEF E

-----------------------------------------------------------------------------
(* Sequences                                                               *)

IsSeq(s) == s \in Seq(Range(s))

LEMMA SeqOf ==
    ASSUME NEW S, NEW s \in Seq(S)
    PROVE  /\ IsSeq(s) /\ Len(s) \in Nat /\ DOMAIN s = 1..Len(s)
           /\ \A x : x \in Range(s) <=> \E i \in 1..Len(s) : x = s[i]
           /\ s = <<>> <=> Len(s) = 0
<1>1. \A x : x \in Range(s) <=> \E i \in 1..Len(s) : x = s[i]
  BY DEF Range
<1>2. IsSeq(s)
  BY <1>1 DEF IsSeq
<1> QED BY <1>1, <1>2

LEMMA SeqIs ==
    ASSUME NEW s, IsSeq(s)
    PROVE  /\ Len(s) \in Nat /\ DOMAIN s = 1..Len(s)
           /\ \A x : x \in Range(s) <=> \E i \in 1..Len(s) : x = s[i]
           /\ s = <<>> <=> Len(s) = 0
BY SeqOf DEF IsSeq

\* What is left of a sequence after its head.
LEMMA RestOf ==
    ASSUME NEW s, IsSeq(s), s # <<>>
    PROVE  /\ IsSeq(Tail(s)) /\ Len(Tail(s)) = Len(s) - 1 /\ Head(s) = s[1]
           /\ \A i \in 1..(Len(s) - 1) : Tail(s)[i] = s[i + 1]
           /\ Range(s) = {Head(s)} \cup Range(Tail(s))
<1>1. Tail(s) \in Seq(Range(s)) /\ Len(Tail(s)) = Len(s) - 1 /\ Head(s) = s[1]
  BY DEF IsSeq
<1>2. \A i \in 1..(Len(s) - 1) : Tail(s)[i] = s[i + 1]
  BY DEF IsSeq
<1>3. IsSeq(Tail(s))
  BY <1>1, SeqOf
<1>4. ASSUME NEW x PROVE x \in Range(s) <=> x \in {Head(s)} \cup Range(Tail(s))
  <2>1. \A y : y \in Range(s) <=> \E i \in 1..Len(s) : y = s[i]
    BY SeqIs
  <2>2. \A y : y \in Range(Tail(s)) <=> \E i \in 1..(Len(s) - 1) : y = s[i + 1]
    <3>1. \A y : y \in Range(Tail(s)) <=> \E i \in 1..Len(Tail(s)) : y = Tail(s)[i]
      BY <1>3, SeqIs
    <3> QED BY <1>1, <1>2, <3>1
  <2>3. Len(s) \in Nat /\ Len(s) > 0
    BY SeqIs
  <2>4. ASSUME x \in Range(s), x # s[1] PROVE x \in Range(Tail(s))
    <3>1. PICK i \in 1..Len(s) : x = s[i]
      BY <2>1, <2>4
    <3>2. i - 1 \in 1..(Len(s) - 1) /\ (i - 1) + 1 = i
      BY <2>3, <2>4, <3>1
    <3> QED BY <2>2, <3>1, <3>2
  <2>5. ASSUME x \in Range(Tail(s)) PROVE x \in Range(s)
    <3>1. PICK i \in 1..(Len(s) - 1) : x = s[i + 1]
      BY <2>2, <2>5
    <3>2. i + 1 \in 1..Len(s)
      BY <2>3
    <3> QED BY <2>1, <3>1, <3>2
  <2>6. s[1] \in Range(s)
    BY <2>1, <2>3
  <2> QED BY <1>1, <2>4, <2>5, <2>6
<1> QED BY <1>1, <1>2, <1>3, <1>4

\* One sequence after another.
LEMMA JoinOf ==
    ASSUME NEW s, IsSeq(s), NEW t, IsSeq(t)
    PROVE  /\ IsSeq(s \o t) /\ Len(s \o t) = Len(s) + Len(t)
           /\ \A i \in 1..Len(s) : (s \o t)[i] = s[i]
           /\ \A i \in (Len(s) + 1)..(Len(s) + Len(t)) : (s \o t)[i] = t[i - Len(s)]
           /\ Range(s \o t) = Range(s) \cup Range(t)
<1> DEFINE S == Range(s) \cup Range(t)
           u == s \o t
<1>1. s \in Seq(S) /\ t \in Seq(S)
  <2>1. s \in Seq(Range(s)) /\ t \in Seq(Range(t))
    BY DEF IsSeq
  <2> HIDE DEF S
  <2>2. Range(s) \subseteq S /\ Range(t) \subseteq S
    BY DEF S
  <2> QED BY <2>1, <2>2
<1> HIDE DEF S
<1>2. u \in Seq(S) /\ Len(u) = Len(s) + Len(t)
  BY <1>1
<1>3. \A i \in 1..Len(s) : u[i] = s[i]
  BY <1>1
<1>4. \A i \in (Len(s) + 1)..(Len(s) + Len(t)) : u[i] = t[i - Len(s)]
  BY <1>1
<1>5. Len(s) \in Nat /\ Len(t) \in Nat
  BY SeqIs
<1> HIDE DEF u
<1>6. IsSeq(u)
  BY <1>2, SeqOf
<1>7. ASSUME NEW x PROVE x \in Range(u) <=> x \in Range(s) \cup Range(t)
  <2>1. x \in Range(u) <=> \E i \in 1..Len(u) : x = u[i]
    BY <1>6, SeqIs
  <2>2. x \in Range(s) <=> \E i \in 1..Len(s) : x = s[i]
    BY SeqIs
  <2>3. x \in Range(t) <=> \E i \in 1..Len(t) : x = t[i]
    BY SeqIs
  <2>4. ASSUME NEW i \in 1..Len(u), x = u[i] PROVE x \in Range(s) \cup Range(t)
    <3>1. CASE i <= Len(s)
      BY <1>3, <1>5, <2>2, <2>4, <3>1
    <3>2. CASE ~(i <= Len(s))
      <4>1. i - Len(s) \in 1..Len(t) /\ i \in (Len(s) + 1)..(Len(s) + Len(t))
        BY <1>2, <1>5, <3>2
      <4> QED BY <1>4, <2>3, <2>4, <4>1
    <3> QED BY <3>1, <3>2
  <2>5. ASSUME NEW i \in 1..Len(s), x = s[i] PROVE x \in Range(u)
    <3>1. i \in 1..Len(u)
      BY <1>2, <1>5
    <3> QED BY <1>3, <2>1, <2>5, <3>1
  <2>6. ASSUME NEW i \in 1..Len(t), x = t[i] PROVE x \in Range(u)
    <3>1. i + Len(s) \in 1..Len(u) /\ i + Len(s) \in (Len(s) + 1)..(Len(s) + Len(t))
          /\ (i + Len(s)) - Len(s) = i
      BY <1>2, <1>5
    <3> QED BY <1>4, <2>1, <2>6, <3>1
  <2> QED BY <2>1, <2>2, <2>3, <2>4, <2>5, <2>6
<1> QED BY <1>2, <1>3, <1>4, <1>6, <1>7 DEF u

LEMMA AppendOf ==
    ASSUME NEW s, IsSeq(s), NEW x
    PROVE  /\ IsSeq(Append(s, x)) /\ Len(Append(s, x)) = Len(s) + 1
           /\ \A i \in 1..Len(s) : Append(s, x)[i] = s[i]
           /\ Append(s, x)[Len(s) + 1] = x
           /\ Range(Append(s, x)) = Range(s) \cup {x}
<1> DEFINE S == Range(s) \cup {x}
           u == Append(s, x)
<1>1. s \in Seq(S) /\ x \in S
  <2>1. s \in Seq(Range(s))
    BY DEF IsSeq
  <2> HIDE DEF S
  <2>2. Range(s) \subseteq S /\ x \in S
    BY DEF S
  <2> QED BY <2>1, <2>2
<1> HIDE DEF S
<1>2. u \in Seq(S) /\ Len(u) = Len(s) + 1 /\ u[Len(s) + 1] = x
  BY <1>1
<1>3. \A i \in 1..Len(s) : u[i] = s[i]
  BY <1>1
<1>5. Len(s) \in Nat
  BY SeqIs
<1> HIDE DEF u
<1>6. IsSeq(u)
  BY <1>2, SeqOf
<1>7. ASSUME NEW y PROVE y \in Range(u) <=> y \in Range(s) \cup {x}
  <2>1. y \in Range(u) <=> \E i \in 1..Len(u) : y = u[i]
    BY <1>6, SeqIs
  <2>2. y \in Range(s) <=> \E i \in 1..Len(s) : y = s[i]
    BY SeqIs
  <2> QED BY <1>2, <1>3, <1>5, <2>1, <2>2
<1> QED BY <1>2, <1>3, <1>6, <1>7 DEF u

\* b in place of the first of a sequence T.
IsSplice(u, b, T) ==
    /\ IsSeq(u) /\ Len(u) = Len(b) + (Len(T) - 1)
    /\ \A i \in 1..Len(b) : u[i] = b[i]
    /\ \A i \in (Len(b) + 1)..Len(u) : u[i] = T[i - Len(b) + 1]

LEMMA Spliced ==
    ASSUME NEW b, IsSeq(b), NEW T, IsSeq(T), T # <<>>
    PROVE  IsSplice(b \o Tail(T), b, T)
<1> DEFINE u == b \o Tail(T)
<1>1. IsSeq(Tail(T)) /\ Len(Tail(T)) = Len(T) - 1
  BY RestOf
<1>2. \A i \in 1..(Len(T) - 1) : Tail(T)[i] = T[i + 1]
  BY RestOf
<1>3. Len(b) \in Nat /\ Len(T) \in Nat
  BY SeqIs
<1>4. /\ IsSeq(u) /\ Len(u) = Len(b) + (Len(T) - 1)
      /\ \A i \in 1..Len(b) : u[i] = b[i]
  BY <1>1, JoinOf
<1> HIDE DEF u
<1>5. \A i \in (Len(b) + 1)..(Len(b) + Len(Tail(T))) : u[i] = Tail(T)[i - Len(b)]
  BY <1>1, JoinOf DEF u
<1>6. ASSUME NEW i \in (Len(b) + 1)..Len(u) PROVE u[i] = T[i - Len(b) + 1]
  <2>1. i \in (Len(b) + 1)..(Len(b) + Len(Tail(T))) /\ i - Len(b) \in 1..(Len(T) - 1)
    BY <1>1, <1>3, <1>4
  <2> QED BY <1>2, <1>5, <2>1
<1>7. IsSplice(u, b, T)
  BY <1>4, <1>6 DEF IsSplice
<1> QED BY <1>7 DEF u

-----------------------------------------------------------------------------
(* The traversal                                                           *)

\* The names in scope under the first n of the scopes c.
Scope(c, n) == UNION {c[j] : j \in 1..n}

\* The trees before the traversal, and what each stands for.
IsFrame(f) == f.kind \in {"ref", "select", "write", "cte"}
Under(f) == IF f.kind = "cte" THEN f.body ELSE f

\* d gives the number of scopes that will be open at each frame of T, of which
\* n are open now: as many as frames that close one are still to come.
Nested(T, d, n) ==
    /\ IsSeq(T) /\ n \in Nat
    /\ d \in [1..Len(T) -> Nat]
    /\ T # <<>> => d[1] = n /\ d[Len(T)] = 0
    /\ \A i, j \in 1..Len(T) : i <= j => d[j] <= d[i]
    /\ \A i \in 1..Len(T) : T[i].kind = "end" <=> i = Len(T)
    /\ \A i \in 1..(Len(T) - 1) : d[i + 1] = IF T[i].kind = "pop" THEN d[i] - 1 ELSE d[i]

\* The trees that T still holds, with the names in scope at each.
Left(T, d, c) == {<<Under(T[i]), Scope(c, d[i])>> : i \in {j \in 1..Len(T) : IsFrame(T[j])}}
Rest(T, d, c) == {<<Under(T[i]), Scope(c, d[i])>> : i \in {j \in 2..Len(T) : IsFrame(T[j])}}

\* Frames b under m scopes take the place of the first frame of T.
Depths(b, T, d, m) ==
    [i \in 1..(Len(b) + (Len(T) - 1)) |-> IF i <= Len(b) THEN m ELSE d[i - Len(b) + 1]]
Closes(b) == IF Len(b) > 0 /\ b[Len(b)].kind = "pop" THEN 1 ELSE 0
Fits(b, T, d, m) ==
    /\ IsSeq(b) /\ m \in Nat
    /\ \A i \in 1..Len(b) : b[i].kind # "end" /\ (b[i].kind = "pop" => i = Len(b))
    /\ m = d[2] + Closes(b)

LEMMA NestedSpliced ==
    ASSUME NEW T, NEW d, NEW n, Nested(T, d, n), T # <<>>, T[1].kind # "end",
           NEW b, NEW m, Fits(b, T, d, m), NEW u, u = b \o Tail(T)
    PROVE  Nested(u, Depths(b, T, d, m), m)
<1> DEFINE k == Len(b)
           N == Len(T)
           M == k + (N - 1)
           e == Depths(b, T, d, m)
<1>1. k \in Nat /\ N \in Nat /\ N >= 2
  <2>1. IsSeq(b) /\ IsSeq(T)
    BY DEF Fits, Nested
  <2>2. k \in Nat /\ N \in Nat /\ N > 0
    BY <2>1, SeqIs
  <2>3. N # 1
    BY <2>2 DEF Nested
  <2> HIDE DEF k, N
  <2> QED BY <2>2, <2>3
<1>2. /\ IsSeq(u) /\ Len(u) = M
      /\ \A i \in 1..k : u[i] = b[i]
      /\ \A i \in (k + 1)..M : u[i] = T[i - k + 1]
  <2>1. IsSeq(b) /\ IsSeq(T)
    BY DEF Fits, Nested
  <2>2. IsSplice(u, b, T)
    BY <2>1, Spliced
  <2> QED BY <2>2 DEF IsSplice
<1>3. /\ M \in Nat /\ M >= k + 1
      /\ \A i \in (k + 1)..M : i - k + 1 \in 2..N
  BY <1>1
<1>4. /\ DOMAIN e = 1..M
      /\ \A i \in 1..M : i <= k => e[i] = m
      /\ \A i \in 1..M : ~(i <= k) => e[i] = d[i - k + 1]
  BY DEF Depths
<1>5. m \in Nat /\ n \in Nat /\ Closes(b) \in {0, 1} /\ m = d[2] + Closes(b)
  BY DEF Fits, Nested, Closes
<1>6. \A i \in 1..N : d[i] \in Nat
  BY DEF Nested
<1>7. \A i, j \in 1..N : i <= j => d[j] <= d[i]
  BY DEF Nested
<1>8. e = [i \in 1..M |-> e[i]]
  BY DEF Depths
<1> HIDE DEF e, M, k, N
<1>9. e \in [1..M -> Nat]
  <2>1. ASSUME NEW i \in 1..M PROVE e[i] \in Nat
    <3>1. CASE i <= k
      BY <1>4, <1>5, <3>1
    <3>2. CASE ~(i <= k)
      <4>1. i - k + 1 \in 1..N
        BY <1>1, <1>3, <3>2 DEF M
      <4> QED BY <1>4, <1>6, <3>2, <4>1
    <3> QED BY <3>1, <3>2
  <2> QED BY <1>8, <2>1
<1>10. e[1] = m
  <2>1. CASE k = 0
    <3>1. Closes(b) = 0
      BY <2>1 DEF Closes, k
    <3>2. e[1] = d[2]
      BY <1>1, <1>3, <1>4, <2>1
    <3>3. d[2] \in Nat
      BY <1>1, <1>6
    <3> QED BY <1>5, <3>1, <3>2, <3>3
  <2>2. CASE k # 0
    BY <1>1, <1>3, <1>4, <2>2
  <2> QED BY <2>1, <2>2
<1>11. e[M] = 0
  <2>1. ~(M <= k) /\ M \in 1..M /\ M - k + 1 = N
    BY <1>1, <1>3 DEF M
  <2>2. d[N] = 0
    BY DEF Nested, N
  <2> QED BY <1>4, <2>1, <2>2
<1>12. ASSUME NEW i \in 1..M, NEW j \in 1..M, i <= j PROVE e[j] <= e[i]
  <2>1. CASE j <= k
    BY <1>1, <1>3, <1>4, <1>5, <1>12, <2>1
  <2>2. CASE i <= k /\ ~(j <= k)
    <3>1. j - k + 1 \in 1..N /\ 2 <= j - k + 1 /\ 2 \in 1..N
      BY <1>1, <1>3, <2>2 DEF M
    <3>2. d[j - k + 1] <= d[2] /\ d[j - k + 1] \in Nat /\ d[2] \in Nat
      BY <1>6, <1>7, <3>1
    <3> QED BY <1>4, <1>5, <2>2, <3>2
  <2>3. CASE ~(i <= k) /\ ~(j <= k)
    <3>1. j - k + 1 \in 1..N /\ i - k + 1 \in 1..N /\ i - k + 1 <= j - k + 1
      BY <1>1, <1>3, <1>12, <2>3 DEF M
    <3> QED BY <1>4, <1>7, <2>3, <3>1
  <2> QED BY <1>1, <1>3, <1>12, <2>1, <2>2, <2>3
<1>13. ASSUME NEW i \in 1..M PROVE u[i].kind = "end" <=> i = M
  <2>1. CASE i <= k
    <3>1. i \in 1..k /\ i # M
      BY <1>1, <1>3, <2>1
    <3>2. b[i].kind # "end"
      BY <3>1 DEF Fits, k
    <3> QED BY <1>2, <3>1, <3>2
  <2>2. CASE ~(i <= k)
    <3>1. i - k + 1 \in 1..N /\ i \in (k + 1)..M /\ (i - k + 1 = N <=> i = M)
      BY <1>1, <1>3, <2>2 DEF M
    <3>2. T[i - k + 1].kind = "end" <=> i - k + 1 = N
      BY <3>1 DEF Nested, N
    <3> QED BY <1>2, <3>1, <3>2
  <2> QED BY <2>1, <2>2
<1>14. ASSUME NEW i \in 1..(M - 1)
       PROVE  e[i + 1] = IF u[i].kind = "pop" THEN e[i] - 1 ELSE e[i]
  <2>0. i \in 1..M /\ i + 1 \in 1..M /\ i \in Nat
    BY <1>1, <1>3
  <2>1. CASE i < k
    <3>1. i \in 1..k /\ i # k /\ i <= k /\ i + 1 <= k
      BY <1>1, <2>0, <2>1
    <3>2. u[i].kind # "pop"
      BY <1>2, <3>1 DEF Fits, k
    <3> QED BY <1>4, <2>0, <3>1, <3>2
  <2>2. CASE i = k
    <3>1. i \in 1..k /\ i <= k /\ ~(i + 1 <= k) /\ (i + 1) - k + 1 = 2 /\ k > 0
      BY <1>1, <2>0, <2>2
    <3>2. e[i + 1] = d[2] /\ e[i] = m /\ u[i] = b[k]
      BY <1>2, <1>4, <2>0, <2>2, <3>1
    <3>3. Closes(b) = IF u[i].kind = "pop" THEN 1 ELSE 0
      BY <3>1, <3>2 DEF Closes, k
    <3>4. d[2] \in Nat
      BY <1>1, <1>6
    <3>5. CASE u[i].kind = "pop"
      BY <1>5, <3>2, <3>3, <3>4, <3>5
    <3>6. CASE u[i].kind # "pop"
      <4>1. Closes(b) = 0
        BY <3>3, <3>6
      <4>2. m = d[2]
        BY <1>5, <3>4, <4>1
      <4> QED BY <3>2, <3>6, <4>2
    <3> QED BY <3>5, <3>6
  <2>3. CASE i > k
    <3> DEFINE j == i - k + 1
    <3>1. j \in 1..(N - 1) /\ (i + 1) - k + 1 = j + 1 /\ ~(i <= k) /\ ~(i + 1 <= k) /\ i \in (k + 1)..M
      BY <1>1, <2>0, <2>3 DEF M
    <3>2. e[i + 1] = d[j + 1] /\ e[i] = d[j] /\ u[i] = T[j]
      BY <1>2, <1>4, <2>0, <3>1
    <3>3. d[j + 1] = IF T[j].kind = "pop" THEN d[j] - 1 ELSE d[j]
      <4> HIDE DEF j
      <4> QED BY <3>1 DEF Nested, N
    <3> QED BY <3>2, <3>3
  <2>4. i < k \/ i = k \/ i > k
    BY <1>1, <2>0
  <2> QED BY <2>1, <2>2, <2>3, <2>4, Zenon
<1> QED BY <1>2, <1>5, <1>9, <1>10, <1>11, <1>12, <1>13, <1>14 DEF Nested, e

LEMMA ScopesAgree ==
    ASSUME NEW a, NEW c, NEW n \in Nat, \A j \in 1..n : a[j] = c[j]
    PROVE  Scope(a, n) = Scope(c, n)
BY DEF Scope

LEMMA LeftIs ==
    ASSUME NEW T, NEW d, NEW c, NEW p
    PROVE  p \in Left(T, d, c) <=>
              \E i \in 1..Len(T) : IsFrame(T[i]) /\ p = <<Under(T[i]), Scope(c, d[i])>>
BY DEF Left

LEMMA RestIs ==
    ASSUME NEW T, NEW d, NEW c, NEW p
    PROVE  p \in Rest(T, d, c) <=>
              \E i \in 2..Len(T) : IsFrame(T[i]) /\ p = <<Under(T[i]), Scope(c, d[i])>>
BY DEF Rest

\* The first frame and the rest.
LEMMA LeftSplit ==
    ASSUME NEW T, NEW d, NEW n, Nested(T, d, n), T # <<>>, NEW c
    PROVE  Left(T, d, c) = (IF IsFrame(T[1]) THEN {<<Under(T[1]), Scope(c, n)>>} ELSE {})
                               \cup Rest(T, d, c)
<1>1. Len(T) \in Nat /\ Len(T) > 0
  BY SeqIs DEF Nested
<1>2. d[1] = n
  BY DEF Nested
<1>3. ASSUME NEW p \in Left(T, d, c), p \notin Rest(T, d, c)
      PROVE  IsFrame(T[1]) /\ p = <<Under(T[1]), Scope(c, n)>>
  <2>1. PICK i \in 1..Len(T) : IsFrame(T[i]) /\ p = <<Under(T[i]), Scope(c, d[i])>>
    BY <1>3, LeftIs
  <2>2. i \notin 2..Len(T)
    BY <1>3, <2>1, RestIs
  <2>3. i = 1
    BY <1>1, <2>2
  <2> QED BY <1>2, <2>1, <2>3
<1>4. IsFrame(T[1]) => <<Under(T[1]), Scope(c, n)>> \in Left(T, d, c)
  <2>1. 1 \in 1..Len(T)
    BY <1>1
  <2> QED BY <1>2, <2>1, LeftIs
<1>5. ASSUME NEW p \in Rest(T, d, c) PROVE p \in Left(T, d, c)
  <2>1. PICK i \in 2..Len(T) : IsFrame(T[i]) /\ p = <<Under(T[i]), Scope(c, d[i])>>
    BY <1>5, RestIs
  <2>2. i \in 1..Len(T)
    BY <1>1
  <2> QED BY <2>1, <2>2, LeftIs
<1> QED BY <1>3, <1>4, <1>5

\* The trees of the frames that replace the first, and the rest.
Fresh(b, c, m) == {<<Under(b[i]), Scope(c, m)>> : i \in {j \in 1..Len(b) : IsFrame(b[j])}}

LEMMA FreshIs ==
    ASSUME NEW b, NEW c, NEW m, NEW p
    PROVE  p \in Fresh(b, c, m) <=>
              \E i \in 1..Len(b) : IsFrame(b[i]) /\ p = <<Under(b[i]), Scope(c, m)>>
BY DEF Fresh

LEMMA LeftSpliced ==
    ASSUME NEW T, NEW d, NEW n, Nested(T, d, n), T # <<>>, T[1].kind # "end",
           NEW b, NEW m, Fits(b, T, d, m), NEW c, NEW a, \A j \in 1..d[2] : a[j] = c[j]
    PROVE  Left(b \o Tail(T), Depths(b, T, d, m), a) = Fresh(b, a, m) \cup Rest(T, d, c)
<1> DEFINE k == Len(b)
           N == Len(T)
           M == k + (N - 1)
           e == Depths(b, T, d, m)
           u == b \o Tail(T)
<1>1. k \in Nat /\ N \in Nat /\ N >= 2
  <2>1. IsSeq(b) /\ IsSeq(T)
    BY DEF Fits, Nested
  <2>2. k \in Nat /\ N \in Nat /\ N > 0
    BY <2>1, SeqIs
  <2>3. N # 1
    BY <2>2 DEF Nested
  <2> HIDE DEF k, N
  <2> QED BY <2>2, <2>3
<1>2. /\ IsSeq(u) /\ Len(u) = M
      /\ \A i \in 1..k : u[i] = b[i]
      /\ \A i \in (k + 1)..M : u[i] = T[i - k + 1]
  <2>1. IsSeq(b) /\ IsSeq(T)
    BY DEF Fits, Nested
  <2>2. IsSplice(u, b, T)
    BY <2>1, Spliced
  <2> QED BY <2>2 DEF IsSplice
<1>3. /\ \A i \in 1..M : i <= k => e[i] = m
      /\ \A i \in 1..M : ~(i <= k) => e[i] = d[i - k + 1]
  BY DEF Depths
<1>4. ASSUME NEW i \in 2..N PROVE Scope(a, d[i]) = Scope(c, d[i])
  <2>1. i \in 1..N /\ 2 \in 1..N /\ 2 <= i
    BY <1>1
  <2>2. d[i] \in Nat /\ d[2] \in Nat /\ d[i] <= d[2]
    BY <2>1 DEF Nested
  <2>3. \A j \in 1..d[i] : a[j] = c[j]
    BY <2>2
  <2> QED BY <2>2, <2>3, ScopesAgree
<1> HIDE DEF e, u, k, N
<1>5. ASSUME NEW p \in Left(u, e, a) PROVE p \in Fresh(b, a, m) \cup Rest(T, d, c)
  <2>1. PICK i \in 1..Len(u) : IsFrame(u[i]) /\ p = <<Under(u[i]), Scope(a, e[i])>>
    BY <1>5, LeftIs
  <2>2. CASE i <= k
    <3>1. i \in 1..k /\ i \in 1..M
      BY <1>1, <1>2, <2>2
    <3>2. u[i] = b[i] /\ e[i] = m
      BY <1>2, <1>3, <2>2, <3>1
    <3> QED BY <2>1, <3>1, <3>2, FreshIs DEF k
  <2>3. CASE ~(i <= k)
    <3> DEFINE j == i - k + 1
    <3>1. i \in 1..M /\ i \in (k + 1)..M /\ j \in 2..N
      BY <1>1, <1>2, <2>3
    <3>2. u[i] = T[j] /\ e[i] = d[j]
      BY <1>2, <1>3, <2>3, <3>1
    <3> HIDE DEF j
    <3>3. p = <<Under(T[j]), Scope(c, d[j])>> /\ IsFrame(T[j])
      BY <1>4, <2>1, <3>1, <3>2
    <3> QED BY <3>1, <3>3, RestIs DEF N
  <2> QED BY <2>2, <2>3
<1>6. ASSUME NEW p \in Fresh(b, a, m) PROVE p \in Left(u, e, a)
  <2>1. PICK i \in 1..k : IsFrame(b[i]) /\ p = <<Under(b[i]), Scope(a, m)>>
    BY <1>6, FreshIs DEF k
  <2>2. i \in 1..M /\ i \in 1..Len(u) /\ i <= k
    BY <1>1, <1>2
  <2>3. u[i] = b[i] /\ e[i] = m
    BY <1>2, <1>3, <2>2
  <2> QED BY <2>1, <2>2, <2>3, LeftIs
<1>7. ASSUME NEW p \in Rest(T, d, c) PROVE p \in Left(u, e, a)
  <2>1. PICK j \in 2..N : IsFrame(T[j]) /\ p = <<Under(T[j]), Scope(c, d[j])>>
    BY <1>7, RestIs DEF N
  <2> DEFINE i == j + k - 1
  <2>2. i \in 1..M /\ i \in (k + 1)..M /\ ~(i <= k) /\ i - k + 1 = j /\ i \in 1..Len(u)
    BY <1>1, <1>2
  <2> HIDE DEF i
  <2>3. u[i] = T[j] /\ e[i] = d[j]
    BY <1>2, <1>3, <2>2
  <2>4. p = <<Under(u[i]), Scope(a, e[i])>> /\ IsFrame(u[i])
    BY <1>4, <2>1, <2>3
  <2> QED BY <2>2, <2>4, LeftIs
<1>8. Left(u, e, a) = Fresh(b, a, m) \cup Rest(T, d, c)
  BY <1>5, <1>6, <1>7
<1> QED BY <1>8 DEF u, e

\* What has been found in statement s, and what is still before the traversal,
\* make up the statement.
Halves(s, L, found, R) ==
    /\ \A p \in L : Good(p[1])
    /\ Writes(s) <=> found # {} \/ \E p \in L : Writes(p[1])
    /\ found = {} => \A r : r \in TablesIn(s, {}, TRUE) <=>
                                r \in R \/ \E p \in L : r \in TablesIn(p[1], p[2], TRUE)

\* A select gives way to what is inside it.
LEMMA Opened ==
    ASSUME NEW s, NEW t, NEW C, NEW Q, NEW found, NEW R,
           Halves(s, {<<t, C>>} \cup Q, found, R), t.kind = "select"
    PROVE  Halves(s, Inside(t, C, TRUE) \cup Q, found \cup t.clauses, R)
<1> DEFINE I == Inside(t, C, TRUE)
           h == <<t, C>>
           v == found \cup t.clauses
<1>0. h[1] = t /\ h[2] = C
  OBVIOUS
<1> HIDE DEF h
<1>1. Good(t) /\ \A p \in Q : Good(p[1])
  BY <1>0 DEF Halves, h
<1>2. \A q \in I : Good(q[1])
  BY <1>1, GoodInside
<1>3. Writes(t) <=> t.clauses # {} \/ \E q \in I : Writes(q[1])
  <2>0. Good(t)
    BY <1>1
  <2> HIDE DEF I
  <2>1. Writes(t) <=> WritesHere(t) \/ WritesInside(t, C, TRUE)
    BY <2>0, WritesIs
  <2>2. Writes(t) <=> WritesHere(t) \/ \E q \in I : Writes(q[1])
    BY <2>1 DEF I, WritesInside
  <2> QED BY <2>2 DEF WritesHere
<1>4. Writes(s) <=> found # {} \/ Writes(t) \/ \E p \in Q : Writes(p[1])
  BY <1>0 DEF Halves, h
<1>5. \A r : r \in TablesIn(t, C, TRUE) <=> \E q \in I : r \in TablesIn(q[1], q[2], TRUE)
  BY <1>1, TablesInIs DEF Names
<1>6. found = {} => \A r : r \in TablesIn(s, {}, TRUE) <=>
          \/ r \in R \/ r \in TablesIn(t, C, TRUE)
          \/ \E p \in Q : r \in TablesIn(p[1], p[2], TRUE)
  BY <1>0 DEF Halves, h
<1>7. v # {} <=> found # {} \/ t.clauses # {}
  OBVIOUS
<1> HIDE DEF I, v
<1>8. Writes(s) <=> v # {} \/ \E p \in I \cup Q : Writes(p[1])
  BY <1>3, <1>4, <1>7
<1>9. ASSUME v = {}, NEW r
      PROVE  r \in TablesIn(s, {}, TRUE) <=>
                r \in R \/ \E p \in I \cup Q : r \in TablesIn(p[1], p[2], TRUE)
  BY <1>5, <1>6, <1>7, <1>9
<1>10. Halves(s, I \cup Q, v, R)
  BY <1>1, <1>2, <1>8, <1>9 DEF Halves
<1> QED BY <1>10 DEF I, v

\* A write that has been noted gives way to the trees inside it.
LEMMA Entered ==
    ASSUME NEW s, NEW t, NEW C, NEW Q, NEW found, NEW R, NEW I,
           Halves(s, {<<t, C>>} \cup Q, found, R), found # {},
           Alike(I, Inside(t, C, TRUE))
    PROVE  Halves(s, I \cup Q, found, R)
<1>0. <<t, C>>[1] = t
  OBVIOUS
<1>1. Good(t) /\ \A p \in Q : Good(p[1])
  BY <1>0 DEF Halves
<1>2. ASSUME NEW p \in I PROVE Good(p[1])
  <2>1. PICK q \in Inside(t, C, TRUE) : q[1] = p[1]
    BY DEF Alike
  <2> QED BY <1>1, <2>1, GoodInside
<1>3. Writes(s)
  BY DEF Halves
<1> QED BY <1>1, <1>2, <1>3 DEF Halves

\* The body of a CTE is noted if it is a write.
LEMMA Noted ==
    ASSUME NEW s, NEW t, NEW C, NEW Q, NEW found, NEW R,
           Halves(s, {<<t, C>>} \cup Q, found, R), NEW why,
           why # {} => t.kind = "write"
    PROVE  Halves(s, {<<t, C>>} \cup Q, found \cup why, R)
<1> DEFINE L == {<<t, C>>} \cup Q
           v == found \cup why
<1>0. <<t, C>>[1] = t /\ <<t, C>> \in L
  OBVIOUS
<1> HIDE DEF L
<1>1. Halves(s, L, found, R)
  BY DEF L
<1>2. t.kind = "write" => Writes(t)
  BY <1>0, <1>1, WritesIs DEF Halves, WritesHere
<1>3. v # {} <=> found # {} \/ why # {}
  OBVIOUS
<1> HIDE DEF v
<1>4. Writes(s) <=> v # {} \/ \E p \in L : Writes(p[1])
  BY <1>0, <1>1, <1>2, <1>3 DEF Halves
<1>5. Halves(s, L, v, R)
  BY <1>1, <1>3, <1>4 DEF Halves
<1> QED BY <1>5 DEF L, v

\* A name is a table unless a scope has it.
LEMMA Found ==
    ASSUME NEW s, NEW t, NEW C, NEW Q, NEW found, NEW R, NEW A,
           Halves(s, {<<t, C>>} \cup Q, found, R), t.kind = "ref",
           \A r : r \in A <=> r \in R \/ (r = t /\ Names(t, C))
    PROVE  Halves(s, Q, found, A)
<1>0. <<t, C>>[1] = t /\ <<t, C>>[2] = C
  OBVIOUS
<1>1. Good(t) /\ \A p \in Q : Good(p[1])
  BY <1>0 DEF Halves
<1>2. Inside(t, C, TRUE) = {}
  BY DEF Inside
<1>3. ~Writes(t)
  <2>1. Writes(t) <=> WritesHere(t) \/ WritesInside(t, C, TRUE)
    BY <1>1, WritesIs
  <2> QED BY <1>2, <2>1 DEF WritesHere, WritesInside
<1>4. \A r : r \in TablesIn(t, C, TRUE) <=> r = t /\ Names(t, C)
  BY <1>1, <1>2, TablesInIs
<1>5. Writes(s) <=> found # {} \/ \E p \in Q : Writes(p[1])
  BY <1>0, <1>3 DEF Halves
<1>6. found = {} => \A r : r \in TablesIn(s, {}, TRUE) <=>
          \/ r \in R \/ r \in TablesIn(t, C, TRUE)
          \/ \E p \in Q : r \in TablesIn(p[1], p[2], TRUE)
  BY <1>0 DEF Halves
<1>7. ASSUME found = {}, NEW r
      PROVE  r \in TablesIn(s, {}, TRUE) <=>
                r \in A \/ \E p \in Q : r \in TablesIn(p[1], p[2], TRUE)
  BY <1>4, <1>6, <1>7
<1> QED BY <1>1, <1>5, <1>7 DEF Halves

-----------------------------------------------------------------------------
(* One step of the traversal                                               *)

\* Where the traversal of statement s is: T is before it, with the scopes c
\* open, v and R are the violations and the tables it has found.
Midway(s, T, d, c, v, R) ==
    /\ Nested(T, d, Len(c)) /\ IsSeq(c)
    /\ \A i \in 1..Len(T) : T[i].kind = "write" => v # {}
    /\ Halves(s, Left(T, d, c), v, R)

Amid(s, T, c, v, R) == T # <<>> /\ \E d : Midway(s, T, d, c, v, R)

\* Frames b can take the place of the first, with the scopes a open.
Replaces(b, T, d, c, a, v, w) ==
    /\ T # <<>> /\ T[1].kind # "end"
    /\ IsSeq(a) /\ Fits(b, T, d, Len(a))
    /\ \A j \in 1..d[2] : a[j] = c[j]
    /\ v # {} => w # {}
    /\ \A i \in 1..Len(b) : b[i].kind = "write" => w # {}

LEMMA Advance ==
    ASSUME NEW s, NEW T, NEW d, NEW c, NEW v, NEW R, Midway(s, T, d, c, v, R),
           NEW b, NEW a, NEW w, Replaces(b, T, d, c, a, v, w),
           NEW P, Halves(s, Fresh(b, a, Len(a)) \cup Rest(T, d, c), w, P)
    PROVE  Amid(s, b \o Tail(T), a, w, P)
<1> DEFINE u == b \o Tail(T)
           e == Depths(b, T, d, Len(a))
<1>0. /\ T # <<>> /\ T[1].kind # "end"
      /\ IsSeq(a) /\ Fits(b, T, d, Len(a))
      /\ \A j \in 1..d[2] : a[j] = c[j]
      /\ v # {} => w # {}
      /\ \A i \in 1..Len(b) : b[i].kind = "write" => w # {}
  BY DEF Replaces
<1>1. Nested(T, d, Len(c)) /\ IsSeq(T) /\ IsSeq(b)
  BY <1>0 DEF Midway, Nested, Fits
<1>2. Nested(u, e, Len(a))
  BY <1>0, <1>1, NestedSpliced
<1>3. Left(u, e, a) = Fresh(b, a, Len(a)) \cup Rest(T, d, c)
  <2> DEFINE m == Len(a)
             n == Len(c)
  <2>1. /\ Nested(T, d, n) /\ T # <<>> /\ T[1].kind # "end"
        /\ Fits(b, T, d, m) /\ \A j \in 1..d[2] : a[j] = c[j]
    BY <1>0, <1>1
  <2> HIDE DEF m, n
  <2>2. Left(b \o Tail(T), Depths(b, T, d, m), a) = Fresh(b, a, m) \cup Rest(T, d, c)
    BY <2>1, LeftSpliced
  <2> QED BY <2>2 DEF m
<1>4. IsSplice(u, b, T)
  BY <1>0, <1>1, Spliced
<1>5. Len(b) \in Nat /\ Len(T) \in Nat /\ Len(T) > 0
  BY <1>0, <1>1, SeqIs
<1>6. Len(T) # 1
  BY <1>0, <1>1, <1>5 DEF Nested
<1> HIDE DEF u, e
<1>7. ASSUME NEW i \in 1..Len(u), u[i].kind = "write" PROVE w # {}
  <2>1. CASE i <= Len(b)
    <3>1. i \in 1..Len(b)
      BY <1>5, <2>1
    <3> QED BY <1>0, <1>4, <1>7, <3>1 DEF IsSplice
  <2>2. CASE ~(i <= Len(b))
    <3>1. i \in (Len(b) + 1)..Len(u) /\ i - Len(b) + 1 \in 1..Len(T)
      BY <1>4, <1>5, <2>2 DEF IsSplice
    <3>2. T[i - Len(b) + 1].kind = "write"
      BY <1>4, <1>7, <3>1 DEF IsSplice
    <3> QED BY <1>0, <3>1, <3>2 DEF Midway
  <2> QED BY <2>1, <2>2
<1>8. u # <<>>
  <2>1. IsSeq(u) /\ Len(u) = Len(b) + (Len(T) - 1)
    BY <1>4 DEF IsSplice
  <2> DEFINE k == Len(b)
             N == Len(T)
             M == Len(u)
  <2>2. M # 0
    <3>1. k \in Nat /\ N \in Nat /\ N > 0 /\ N # 1 /\ M = k + (N - 1)
      BY <1>5, <1>6, <2>1
    <3> HIDE DEF k, N, M
    <3> QED BY <3>1
  <2> QED BY <2>1, <2>2, SeqIs
<1>9. Halves(s, Left(u, e, a), w, P)
  BY <1>3
<1>10. Midway(s, u, e, a, w, P)
  BY <1>0, <1>2, <1>7, <1>9 DEF Midway
<1> QED BY <1>8, <1>10 DEF Amid, u

\* What Advance needs to know of the traversal.
LEMMA AtHead ==
    ASSUME NEW s, NEW T, NEW d, NEW c, NEW v, NEW R, Midway(s, T, d, c, v, R),
           T # <<>>, T[1].kind # "end"
    PROVE  /\ Len(c) \in Nat /\ d[2] \in Nat /\ d[1] = Len(c)
           /\ d[2] = IF T[1].kind = "pop" THEN d[1] - 1 ELSE d[1]
           /\ IsFrame(T[1]) =>
                 Halves(s, {<<Under(T[1]), Scope(c, Len(c))>>} \cup Rest(T, d, c), v, R)
           /\ IsFrame(T[1]) => Good(Under(T[1])) /\ IsTree(Under(T[1]))
           /\ ~IsFrame(T[1]) => Halves(s, Rest(T, d, c), v, R)
           /\ T[1].kind = "write" => v # {}
<1>1. Nested(T, d, Len(c)) /\ IsSeq(T) /\ IsSeq(c)
  BY DEF Midway, Nested
<1>2. Len(T) \in Nat /\ Len(T) > 0 /\ Len(c) \in Nat
  BY <1>1, SeqIs
<1>3. Len(T) # 1
  BY <1>1, <1>2 DEF Nested
<1>4. 1 \in 1..Len(T) /\ 2 \in 1..Len(T) /\ 1 \in 1..(Len(T) - 1) /\ 1 + 1 = 2
  <2> DEFINE N == Len(T)
  <2>1. N \in Nat /\ N > 0 /\ N # 1
    BY <1>2, <1>3
  <2> HIDE DEF N
  <2>2. 1 \in 1..N /\ 2 \in 1..N /\ 1 \in 1..(N - 1) /\ 1 + 1 = 2
    BY <2>1
  <2> QED BY <2>2 DEF N
<1>5. d[2] \in Nat /\ d[1] = Len(c)
  BY <1>1, <1>4 DEF Nested
<1>6. d[2] = IF T[1].kind = "pop" THEN d[1] - 1 ELSE d[1]
  BY <1>1, <1>4 DEF Nested
<1>7. Left(T, d, c) = (IF IsFrame(T[1]) THEN {<<Under(T[1]), Scope(c, Len(c))>>} ELSE {})
                          \cup Rest(T, d, c)
  BY <1>1, LeftSplit
<1>8. Halves(s, Left(T, d, c), v, R)
  BY DEF Midway
<1>9. IsFrame(T[1]) => Halves(s, {<<Under(T[1]), Scope(c, Len(c))>>} \cup Rest(T, d, c), v, R)
  BY <1>7, <1>8
<1>10. ~IsFrame(T[1]) => Halves(s, Rest(T, d, c), v, R)
  BY <1>7, <1>8
<1>11. IsFrame(T[1]) => Good(Under(T[1]))
  <2>1. <<Under(T[1]), Scope(c, Len(c))>>[1] = Under(T[1])
    OBVIOUS
  <2> QED BY <1>9, <2>1 DEF Halves
<1>12. T[1].kind = "write" => v # {}
  BY <1>4 DEF Midway
<1> QED BY <1>2, <1>5, <1>6, <1>9, <1>10, <1>11, <1>12, GoodIsATree

\* The trees that frames hold, and those a tree is made of.
Held(F) == {Under(f) : f \in {g \in F : IsFrame(g)}}
Parts(t) == Range(t.items) \cup {t.with[i].body : i \in DOMAIN t.with}

WithNames(S, C) == {<<x, C>> : x \in S}

LEMMA FreshHeld ==
    ASSUME NEW b, IsSeq(b), NEW c, NEW m
    PROVE  Fresh(b, c, m) = WithNames(Held(Range(b)), Scope(c, m))
<1>1. \A f : f \in Range(b) <=> \E i \in 1..Len(b) : f = b[i]
  BY SeqIs
<1> QED BY <1>1 DEF Fresh, Held, WithNames

LEMMA InsideParts ==
    ASSUME NEW t, t.kind # "ref", NEW C
    PROVE  Inside(t, C, TRUE) = WithNames(Parts(t), C \cup NamesOf(t))
<1>1. \A i : Visible(t, i, TRUE) = NamesOf(t)
  BY AllVisible
<1> DEFINE S == {<<x, C \cup NamesOf(t)>> : x \in Parts(t)}
<1>2. \A p : p \in S <=> \E x \in Parts(t) : p = <<x, C \cup NamesOf(t)>>
  OBVIOUS
<1>3. \A x : x \in Parts(t) <=> x \in Range(t.items) \/ \E i \in DOMAIN t.with : x = t.with[i].body
  BY DEF Parts
<1>4. \A p : p \in Inside(t, C, TRUE) <=>
              \/ \E x \in Range(t.items) : p = <<x, C \cup NamesOf(t)>>
              \/ \E i \in DOMAIN t.with : p = <<t.with[i].body, C \cup NamesOf(t)>>
  <2>1. Inside(t, C, TRUE) = {<<x, C \cup NamesOf(t)>> : x \in Range(t.items)} \cup
            {<<t.with[i].body, C \cup Visible(t, i, TRUE)>> : i \in DOMAIN t.with}
    BY DEF Inside
  <2>2. \A i : <<t.with[i].body, C \cup Visible(t, i, TRUE)>> = <<t.with[i].body, C \cup NamesOf(t)>>
    BY <1>1
  <2>3. {<<t.with[i].body, C \cup Visible(t, i, TRUE)>> : i \in DOMAIN t.with} =
            {<<t.with[i].body, C \cup NamesOf(t)>> : i \in DOMAIN t.with}
    BY <2>2
  <2>4. Inside(t, C, TRUE) = {<<x, C \cup NamesOf(t)>> : x \in Range(t.items)} \cup
            {<<t.with[i].body, C \cup NamesOf(t)>> : i \in DOMAIN t.with}
    BY <2>1, <2>3
  <2> QED BY <2>4
<1> HIDE DEF S
<1>5. \A p : p \in Inside(t, C, TRUE) <=> p \in S
  BY <1>2, <1>3, <1>4
<1>6. Inside(t, C, TRUE) = S
  <2>1. \A A, B : (\A p : p \in A <=> p \in B) => A = B
    OBVIOUS
  <2> QED BY <1>5, <2>1
<1> QED BY <1>6 DEF S, WithNames

\* What the traversal puts before it for a select or a write: its items, as
\* they are, and its entries.
LEMMA FramesOfTree ==
    ASSUME NEW t, Good(t), t.kind # "ref"
    PROVE  /\ IsSeq(t.items) /\ IsSeq(t.with) /\ IsSeq(t.items \o Entries(t))
           /\ \A f \in Range(t.items) : f.kind \in {"ref", "select"} /\ IsFrame(f) /\ Under(f) = f
           /\ \A f \in Range(t.items \o Entries(t)) : f.kind \in {"ref", "select", "cte"}
           /\ Held(Range(t.items \o Entries(t))) = Parts(t)
<1>1. IsTree(t)
  BY GoodIsATree
<1>2. IsSeq(t.items) /\ IsSeq(t.with) /\ \A x \in Range(t.items) : x.kind # "write"
  BY <1>1 DEF IsTree, IsSeq
<1>3. ASSUME NEW x \in Range(t.items) PROVE x.kind \in {"ref", "select"}
  <2>1. <<x, {} \cup NamesOf(t)>> \in Inside(t, {}, TRUE) /\ <<x, {} \cup NamesOf(t)>>[1] = x
    BY InsideIs
  <2>2. Good(x)
    BY <2>1, GoodInside
  <2>3. IsTree(x)
    BY <2>2, GoodIsATree
  <2> QED BY <1>2, <2>3 DEF IsTree
<1>4. \A f \in Range(t.items) : f.kind \in {"ref", "select"} /\ IsFrame(f) /\ Under(f) = f
  BY <1>3 DEF IsFrame, Under
<1> DEFINE E == Entries(t)
           F(i) == [kind |-> "cte", body |-> t.with[i].body]
<1>5. DOMAIN t.with = 1..Len(t.with) /\ Len(t.with) \in Nat
  BY <1>2, SeqIs
<1>6. E = [i \in 1..Len(t.with) |-> F(i)]
  BY <1>5 DEF Entries
<1>7. E \in Seq({F(i) : i \in 1..Len(t.with)}) /\ Len(E) = Len(t.with)
  <2> DEFINE A == {F(i) : i \in 1..Len(t.with)}
             n == Len(t.with)
  <2>1. \A i \in 1..n : F(i) \in A
    OBVIOUS
  <2>2. E = [i \in 1..n |-> F(i)] /\ n \in Nat
    BY <1>5, <1>6
  <2> HIDE DEF A, E, F, n
  <2>3. E \in [1..n -> A]
    BY <2>1, <2>2
  <2>4. E \in Seq(A) /\ Len(E) = n
    BY <2>2, <2>3
  <2> QED BY <2>4 DEF A, n
<1>8. IsSeq(E)
  BY <1>7, SeqOf
<1>9. \A f : f \in Range(E) <=> \E i \in DOMAIN t.with : f = F(i)
  <2>1. \A f : f \in Range(E) <=> \E i \in 1..Len(E) : f = E[i]
    BY <1>8, SeqIs
  <2>2. \A i \in 1..Len(E) : E[i] = F(i)
    BY <1>6, <1>7
  <2> HIDE DEF E, F
  <2> QED BY <1>5, <1>7, <2>1, <2>2
<1> HIDE DEF E
<1>10. IsSeq(t.items \o E) /\ Range(t.items \o E) = Range(t.items) \cup Range(E)
  BY <1>2, <1>8, JoinOf
<1>11. \A i \in DOMAIN t.with : /\ F(i).kind = "cte" /\ IsFrame(F(i))
                                /\ Under(F(i)) = t.with[i].body
  BY DEF IsFrame, Under
<1> HIDE DEF F
<1>12. \A f \in Range(t.items \o E) : f.kind \in {"ref", "select", "cte"}
  BY <1>4, <1>9, <1>10, <1>11
<1>13. ASSUME NEW x PROVE x \in Held(Range(t.items \o E)) <=> x \in Parts(t)
  <2>1. x \in Held(Range(t.items \o E)) <=>
           \E f \in Range(t.items) \cup Range(E) : IsFrame(f) /\ x = Under(f)
    BY <1>10 DEF Held
  <2>2. x \in Parts(t) <=> x \in Range(t.items) \/ \E i \in DOMAIN t.with : x = t.with[i].body
    BY DEF Parts
  <2> QED BY <1>4, <1>9, <1>11, <2>1, <2>2
<1>14. Held(Range(t.items \o E)) = Parts(t)
  <2>1. \A A, B : (\A x : x \in A <=> x \in B) => A = B
    OBVIOUS
  <2> QED BY <1>13, <2>1
<1> QED BY <1>2, <1>4, <1>10, <1>12, <1>14 DEF E

LEMMA One ==
    ASSUME NEW x
    PROVE  IsSeq(<<x>>) /\ Len(<<x>>) = 1 /\ <<x>>[1] = x /\ Range(<<x>>) = {x}
<1>1. <<x>> \in Seq({x}) /\ Len(<<x>>) = 1 /\ <<x>>[1] = x
  OBVIOUS
<1>2. IsSeq(<<x>>) /\ \A y : y \in Range(<<x>>) <=> \E i \in 1..Len(<<x>>) : y = <<x>>[i]
  BY <1>1, SeqOf
<1>3. \A y : y \in Range(<<x>>) <=> y = x
  BY <1>1, <1>2
<1> QED BY <1>1, <1>2, <1>3

LEMMA None == IsSeq(<<>>) /\ Len(<<>>) = 0 /\ Range(<<>>) = {}
<1>1. <<>> \in Seq({}) /\ Len(<<>>) = 0
  OBVIOUS
<1>2. IsSeq(<<>>) /\ \A y : y \in Range(<<>>) <=> \E i \in 1..Len(<<>>) : y = <<>>[i]
  BY <1>1, SeqOf
<1> QED BY <1>1, <1>2

\* Frames that close no scope fit where the first frame closes none.
LEMMA PlainFits ==
    ASSUME NEW b, IsSeq(b), NEW T, NEW d, NEW n \in Nat, d[2] = n,
           \A f \in Range(b) : f.kind \notin {"end", "pop"}
    PROVE  Fits(b, T, d, n)
<1>1. Len(b) \in Nat /\ \A f : f \in Range(b) <=> \E i \in 1..Len(b) : f = b[i]
  BY SeqIs
<1>2. \A i \in 1..Len(b) : b[i].kind # "end" /\ b[i].kind # "pop"
  BY <1>1
<1>3. Closes(b) = 0
  <2>1. Len(b) > 0 => Len(b) \in 1..Len(b)
    BY <1>1
  <2> QED BY <1>1, <1>2, <2>1 DEF Closes
<1> QED BY <1>2, <1>3 DEF Fits

\* So do frames with a last one that closes the scope they open.
LEMMA ClosedFits ==
    ASSUME NEW g, IsSeq(g), NEW f, f.kind = "pop", NEW T, NEW d, NEW n \in Nat, d[2] = n,
           \A x \in Range(g) : x.kind \notin {"end", "pop"}
    PROVE  Fits(g \o <<f>>, T, d, n + 1)
<1> DEFINE b == g \o <<f>>
           k == Len(g)
<1>0. IsSeq(<<f>>) /\ Len(<<f>>) = 1 /\ <<f>>[1] = f
  BY One
<1>1. k \in Nat /\ \A x : x \in Range(g) <=> \E i \in 1..k : x = g[i]
  BY SeqIs
<1>2. /\ IsSeq(b) /\ Len(b) = k + 1
      /\ \A i \in 1..k : b[i] = g[i]
      /\ \A i \in (k + 1)..(k + 1) : b[i] = <<f>>[i - k]
  BY <1>0, JoinOf
<1> HIDE DEF b, k
<1>3. b[k + 1] = f
  <2>1. k + 1 \in (k + 1)..(k + 1) /\ (k + 1) - k = 1
    BY <1>1
  <2> QED BY <1>0, <1>2, <2>1
<1>4. ASSUME NEW i \in 1..Len(b) PROVE b[i].kind # "end" /\ (b[i].kind = "pop" => i = Len(b))
  <2>1. i = k + 1 \/ i \in 1..k
    BY <1>1, <1>2
  <2>2. CASE i = k + 1
    BY <1>2, <1>3, <2>2
  <2>3. CASE i \in 1..k
    BY <1>1, <1>2, <2>3
  <2> QED BY <2>1, <2>2, <2>3
<1>5. Closes(b) = 1
  <2>1. k + 1 > 0
    BY <1>1
  <2> QED BY <1>2, <1>3, <2>1 DEF Closes
<1>6. Fits(b, T, d, n + 1)
  BY <1>2, <1>4, <1>5 DEF Fits
<1> QED BY <1>6 DEF b

\* What is before a select's scope has that scope open.
LEMMA ScopePushed ==
    ASSUME NEW c, IsSeq(c), NEW N
    PROVE  Scope(Append(c, N), Len(c) + 1) = Scope(c, Len(c)) \cup N
<1> DEFINE a == Append(c, N)
           n == Len(c)
<1>1. n \in Nat /\ (\A i \in 1..n : a[i] = c[i]) /\ a[n + 1] = N
  BY AppendOf, SeqIs
<1> HIDE DEF a, n
<1>2. \A i : i \in 1..(n + 1) <=> i \in 1..n \/ i = n + 1
  BY <1>1
<1>3. Scope(a, n + 1) = Scope(c, n) \cup N
  BY <1>1, <1>2 DEF Scope
<1> QED BY <1>3 DEF a, n

\* walkSelect, without a WITH and with one.
LEMMA SelectStep ==
    ASSUME NEW s, NEW T, NEW c, NEW v, NEW R, Amid(s, T, c, v, R), NEW t, t = T[1],
           t.kind = "select"
    PROVE  /\ t.with = <<>> => Amid(s, t.items \o Tail(T), c, v \cup t.clauses, R)
           /\ t.with # <<>> =>
                 Amid(s, (t.items \o Entries(t) \o <<[kind |-> "pop"]>>) \o Tail(T),
                      Append(c, NamesOf(t)), v \cup t.clauses, R)
<1>1. PICK d : Midway(s, T, d, c, v, R)
  BY DEF Amid
<1> DEFINE n == Len(c)
           C == Scope(c, n)
           Q == Rest(T, d, c)
           w == v \cup t.clauses
<1>2. T # <<>> /\ T[1].kind # "end" /\ T[1].kind # "pop" /\ IsFrame(T[1]) /\ Under(T[1]) = t
  BY DEF Amid, IsFrame, Under
<1>3. /\ n \in Nat /\ d[2] = n
      /\ Halves(s, {<<t, C>>} \cup Q, v, R)
      /\ Good(t)
  BY <1>1, <1>2, AtHead
<1>4. Halves(s, Inside(t, C, TRUE) \cup Q, w, R)
  BY <1>3, Opened
<1>5. /\ IsSeq(t.items) /\ IsSeq(t.with) /\ IsSeq(t.items \o Entries(t))
      /\ \A f \in Range(t.items) : f.kind \in {"ref", "select"} /\ IsFrame(f) /\ Under(f) = f
      /\ \A f \in Range(t.items \o Entries(t)) : f.kind \in {"ref", "select", "cte"}
      /\ Held(Range(t.items \o Entries(t))) = Parts(t)
  BY <1>3, FramesOfTree
<1>6. IsSeq(c)
  BY <1>1 DEF Midway
<1>7. v # {} => w # {}
  OBVIOUS
<1>8. Inside(t, C, TRUE) = WithNames(Parts(t), C \cup NamesOf(t))
  <2>1. t.kind # "ref"
    OBVIOUS
  <2> HIDE DEF C
  <2> QED BY <2>1, InsideParts
<1> HIDE DEF w
<1>9. CASE t.with = <<>>
  <2> DEFINE b == t.items
  <2>1. Held(Range(b)) = Range(b) /\ Parts(t) = Range(b) /\ NamesOf(t) = {}
    <3>1. Held(Range(b)) = Range(b)
      BY <1>5 DEF Held
    <3>2. DOMAIN t.with = {}
      BY <1>9
    <3> QED BY <3>1, <3>2 DEF Parts, NamesOf
  <2>2. Fresh(b, c, n) = WithNames(Parts(t), C)
    BY <1>5, <2>1, FreshHeld
  <2>3. C \cup NamesOf(t) = C
    BY <2>1
  <2>4. Fresh(b, c, n) = Inside(t, C, TRUE)
    BY <1>8, <2>2, <2>3
  <2>5. Fits(b, T, d, n)
    BY <1>3, <1>5, PlainFits
  <2>6. \A i \in 1..Len(b) : b[i].kind = "write" => w # {}
    <3>1. \A f : f \in Range(b) <=> \E i \in 1..Len(b) : f = b[i]
      BY <1>5, SeqIs
    <3> QED BY <1>5, <3>1
  <2>7. Halves(s, Fresh(b, c, Len(c)) \cup Rest(T, d, c), w, R)
    BY <1>4, <2>4
  <2>8. Replaces(b, T, d, c, c, v, w)
    BY <1>2, <1>6, <1>7, <2>5, <2>6 DEF Replaces
  <2> HIDE DEF b, Q, C
  <2>9. Amid(s, b \o Tail(T), c, w, R)
    BY <1>1, <2>7, <2>8, Advance
  <2> QED BY <1>9, <2>9 DEF b, w
<1>10. CASE t.with # <<>>
  <2> DEFINE g == t.items \o Entries(t)
             f == [kind |-> "pop"]
             b == g \o <<f>>
             N == NamesOf(t)
             a == Append(c, N)
  <2>1. f.kind = "pop" /\ ~IsFrame(f)
    BY DEF IsFrame
  <2>2. IsSeq(g) /\ Held(Range(g)) = Parts(t) /\ \A x \in Range(g) : x.kind \in {"ref", "select", "cte"}
    BY <1>5
  <2> HIDE DEF f, g, N
  <2>3. IsSeq(b) /\ Range(b) = Range(g) \cup {f}
    BY <2>2, One, JoinOf
  <2>4. IsSeq(a) /\ Len(a) = n + 1 /\ \A i \in 1..n : a[i] = c[i]
    BY <1>6, AppendOf
  <2>5. Held(Range(b)) = Parts(t)
    BY <2>1, <2>2, <2>3 DEF Held
  <2>6. Scope(a, n + 1) = C \cup N
    BY <1>6, ScopePushed
  <2>7. Fresh(b, a, n + 1) = Inside(t, C, TRUE)
    <3>1. Fresh(b, a, n + 1) = WithNames(Held(Range(b)), Scope(a, n + 1))
      BY <2>3, FreshHeld
    <3>2. Fresh(b, a, n + 1) = WithNames(Parts(t), C \cup NamesOf(t))
      <4> HIDE DEF C, a, b
      <4> QED BY <2>5, <2>6, <3>1 DEF N
    <3> QED BY <1>8, <3>2
  <2>8. Fits(b, T, d, n + 1)
    BY <1>3, <2>1, <2>2, ClosedFits
  <2>9. \A i \in 1..Len(b) : b[i].kind = "write" => w # {}
    <3>1. \A x : x \in Range(b) <=> \E i \in 1..Len(b) : x = b[i]
      BY <2>3, SeqIs
    <3> QED BY <2>1, <2>2, <2>3, <3>1
  <2>10. Halves(s, Fresh(b, a, Len(a)) \cup Rest(T, d, c), w, R)
    BY <1>4, <2>4, <2>7
  <2>11. Fits(b, T, d, Len(a)) /\ \A j \in 1..d[2] : a[j] = c[j]
    BY <1>3, <2>4, <2>8
  <2> HIDE DEF a, b, n, C, Q
  <2>12. Replaces(b, T, d, c, a, v, w)
    BY <1>2, <1>7, <2>4, <2>9, <2>11 DEF Replaces
  <2>13. Amid(s, b \o Tail(T), a, w, R)
    BY <1>1, <2>10, <2>12, Advance
  <2> QED BY <1>10, <2>13 DEF w, a, b, g, f, N
<1> QED BY <1>9, <1>10

\* The body of an entry takes its place.
LEMMA CteStep ==
    ASSUME NEW s, NEW T, NEW c, NEW v, NEW R, Amid(s, T, c, v, R),
           T[1].kind = "cte", NEW why, why # {} <=> T[1].body.kind = "write"
    PROVE  Amid(s, <<T[1].body>> \o Tail(T), c, v \cup why, R)
<1>1. PICK d : Midway(s, T, d, c, v, R)
  BY DEF Amid
<1> DEFINE x == T[1].body
           n == Len(c)
           C == Scope(c, n)
           b == <<x>>
           w == v \cup why
<1>2. T # <<>> /\ T[1].kind # "end" /\ T[1].kind # "pop" /\ IsFrame(T[1]) /\ Under(T[1]) = x
  BY DEF Amid, IsFrame, Under
<1> HIDE DEF x
<1>3. /\ n \in Nat /\ d[2] = n
      /\ Halves(s, {<<x, C>>} \cup Rest(T, d, c), v, R)
      /\ IsTree(x)
  BY <1>1, <1>2, AtHead
<1>4. Halves(s, {<<x, C>>} \cup Rest(T, d, c), w, R)
  <2>1. why # {} => x.kind = "write"
    BY DEF x
  <2> QED BY <1>3, <2>1, Noted
<1>5. x.kind \in {"ref", "select", "write"} /\ IsFrame(x) /\ Under(x) = x
  BY <1>3 DEF IsTree, IsFrame, Under
<1>6. IsSeq(b) /\ Range(b) = {x} /\ Len(b) = 1 /\ b[1] = x
  BY One
<1>7. Fits(b, T, d, n)
  BY <1>3, <1>5, <1>6, PlainFits
<1>8. Fresh(b, c, n) = {<<x, C>>}
  <2>1. Held(Range(b)) = {x}
    BY <1>5, <1>6 DEF Held
  <2>2. Fresh(b, c, n) = WithNames({x}, C)
    BY <1>6, <2>1, FreshHeld
  <2> HIDE DEF C
  <2>3. WithNames({x}, C) = {<<x, C>>}
    BY DEF WithNames
  <2> QED BY <2>2, <2>3
<1>9. Replaces(b, T, d, c, c, v, w)
  <2>1. IsSeq(c)
    BY <1>1 DEF Midway
  <2>2. \A i \in 1..Len(b) : b[i].kind = "write" => w # {}
    BY <1>6 DEF x
  <2>3. v # {} => w # {}
    OBVIOUS
  <2> QED BY <1>2, <1>7, <2>1, <2>2, <2>3 DEF Replaces
<1>10. Halves(s, Fresh(b, c, Len(c)) \cup Rest(T, d, c), w, R)
  BY <1>4, <1>8
<1> HIDE DEF b, w
<1>11. Amid(s, b \o Tail(T), c, w, R)
  BY <1>1, <1>9, <1>10, Advance
<1> QED BY <1>11 DEF b, w, x

\* A write, noted before, is entered: its own WITH opens no scope.
LEMMA WriteStep ==
    ASSUME NEW s, NEW T, NEW c, NEW v, NEW R, Amid(s, T, c, v, R), NEW t, t = T[1],
           t.kind = "write"
    PROVE  Amid(s, (t.items \o Entries(t)) \o Tail(T), c, v, R)
<1>1. PICK d : Midway(s, T, d, c, v, R)
  BY DEF Amid
<1> DEFINE n == Len(c)
           C == Scope(c, n)
           b == t.items \o Entries(t)
<1>2. T # <<>> /\ T[1].kind # "end" /\ T[1].kind # "pop" /\ IsFrame(T[1]) /\ Under(T[1]) = t
  BY DEF Amid, IsFrame, Under
<1>3. /\ n \in Nat /\ d[2] = n /\ v # {}
      /\ Halves(s, {<<t, C>>} \cup Rest(T, d, c), v, R)
      /\ Good(t)
  <2>1. T[1].kind = "write"
    OBVIOUS
  <2>2. /\ n \in Nat /\ d[2] = n
        /\ Halves(s, {<<t, C>>} \cup Rest(T, d, c), v, R)
        /\ Good(t)
    BY <1>1, <1>2, AtHead
  <2>3. v # {}
    BY <1>1, <1>2, <2>1, AtHead
  <2> QED BY <2>2, <2>3
<1>4. t.kind # "ref"
  OBVIOUS
<1>5. /\ IsSeq(b)
      /\ \A f \in Range(b) : f.kind \in {"ref", "select", "cte"}
      /\ Held(Range(b)) = Parts(t)
  BY <1>3, <1>4, FramesOfTree
<1>6. Fresh(b, c, n) = WithNames(Parts(t), C)
  <2> HIDE DEF b, n
  <2> QED BY <1>5, FreshHeld
<1>7. Inside(t, C, TRUE) = WithNames(Parts(t), C \cup NamesOf(t))
  <2> HIDE DEF C
  <2> QED BY <1>4, InsideParts
<1>8. Alike(Fresh(b, c, n), Inside(t, C, TRUE))
  <2> HIDE DEF b, n, C
  <2> SUFFICES ASSUME NEW p \in WithNames(Parts(t), C)
               PROVE  \E q \in WithNames(Parts(t), C \cup NamesOf(t)) : q[1] = p[1]
    BY <1>6, <1>7 DEF Alike
  <2>1. PICK x \in Parts(t) : p = <<x, C>>
    BY DEF WithNames
  <2>2. <<x, C \cup NamesOf(t)>> \in WithNames(Parts(t), C \cup NamesOf(t))
    BY DEF WithNames
  <2> QED BY <2>1, <2>2
<1>9. Halves(s, Fresh(b, c, Len(c)) \cup Rest(T, d, c), v, R)
  <2> HIDE DEF b, C
  <2> QED BY <1>3, <1>8, Entered
<1>10. Fits(b, T, d, n)
  <2> HIDE DEF b
  <2> QED BY <1>3, <1>5, PlainFits
<1>11. Replaces(b, T, d, c, c, v, v)
  <2>1. IsSeq(c)
    BY <1>1 DEF Midway
  <2> HIDE DEF b
  <2> QED BY <1>2, <1>3, <1>10, <2>1 DEF Replaces
<1> HIDE DEF b
<1>12. Amid(s, b \o Tail(T), c, v, R)
  BY <1>1, <1>9, <1>11, Advance
<1> QED BY <1>12 DEF b

\* The scope that was opened last is closed.
LEMMA PopStep ==
    ASSUME NEW s, NEW T, NEW c, NEW v, NEW R, Amid(s, T, c, v, R), T[1].kind = "pop"
    PROVE  Amid(s, <<>> \o Tail(T), SubSeq(c, 1, Len(c) - 1), v, R)
<1>1. PICK d : Midway(s, T, d, c, v, R)
  BY DEF Amid
<1> DEFINE n == Len(c)
           a == SubSeq(c, 1, n - 1)
           b == <<>>
<1>2. T # <<>> /\ T[1].kind # "end" /\ ~IsFrame(T[1])
  BY DEF Amid, IsFrame
<1>3. /\ n \in Nat /\ d[2] \in Nat /\ d[2] = n - 1
      /\ Halves(s, Rest(T, d, c), v, R)
  BY <1>1, <1>2, AtHead
<1>4. IsSeq(c)
  BY <1>1 DEF Midway
<1>5. a \in Seq(Range(c)) /\ Len(a) = n - 1 /\ \A i \in 1..(n - 1) : a[i] = c[i]
  <2>1. c \in Seq(Range(c)) /\ Len(c) \in Nat /\ Len(c) - 1 \in Nat
    BY <1>3, <1>4 DEF IsSeq
  <2> DEFINE m == n - 1
  <2>2. m \in Nat /\ m \in Int /\ 1 \in Int /\ \A i \in 1..m : c[i] \in Range(c)
    BY <2>1
  <2> HIDE DEF m
  <2>3. m - 1 + 1 = m /\ (1 <= m \/ m = 0)
    BY <2>2
  <2>4. /\ SubSeq(c, 1, m) \in Seq(Range(c))
        /\ Len(SubSeq(c, 1, m)) = IF 1 <= m THEN m - 1 + 1 ELSE 0
        /\ \A i \in 1 .. m - 1 + 1 : SubSeq(c, 1, m)[i] = c[1 + i - 1]
    BY <2>2, SubSeqProperties
  <2>5. \A i \in 1..m : 1 + i - 1 = i
    BY <2>2
  <2>6. SubSeq(c, 1, m) \in Seq(Range(c)) /\ Len(SubSeq(c, 1, m)) = m
        /\ \A i \in 1..m : SubSeq(c, 1, m)[i] = c[i]
    BY <2>2, <2>3, <2>4, <2>5
  <2> QED BY <2>6 DEF m
<1> HIDE DEF a, n
<1>6. IsSeq(a) /\ Len(a) = d[2] /\ \A j \in 1..d[2] : a[j] = c[j]
  BY <1>3, <1>5, SeqOf
<1>7. IsSeq(b) /\ Len(b) = 0 /\ Range(b) = {}
  BY None
<1> HIDE DEF b
<1>8. Fits(b, T, d, Len(a))
  BY <1>3, <1>6, <1>7, PlainFits
<1>9. Fresh(b, a, Len(a)) = {}
  BY <1>7 DEF Fresh
<1>10. Replaces(b, T, d, c, a, v, v)
  BY <1>2, <1>6, <1>7, <1>8 DEF Replaces
<1>11. Halves(s, Fresh(b, a, Len(a)) \cup Rest(T, d, c), v, R)
  BY <1>3, <1>9
<1>12. Amid(s, b \o Tail(T), a, v, R)
  BY <1>1, <1>10, <1>11, Advance
<1> QED BY <1>12 DEF a, b, n

\* A name is a table of the statement unless an open scope has it.
LEMMA RefStep ==
    ASSUME NEW s, NEW T, NEW c, NEW v, NEW R, Amid(s, T, c, v, R), NEW t, t = T[1],
           t.kind = "ref", NEW P, NEW H, H <=> \E i \in DOMAIN c : t.table \in c[i],
           P = IF t.schema = NoSchema /\ H THEN R ELSE R \cup {t}
    PROVE  Amid(s, <<>> \o Tail(T), c, v, P)
<1>1. PICK d : Midway(s, T, d, c, v, R)
  BY DEF Amid
<1> DEFINE n == Len(c)
           C == Scope(c, n)
           b == <<>>
<1>2. T # <<>> /\ T[1].kind # "end" /\ T[1].kind # "pop" /\ IsFrame(T[1]) /\ Under(T[1]) = t
  BY DEF Amid, IsFrame, Under
<1>3. /\ n \in Nat /\ d[2] = n
      /\ Halves(s, {<<t, C>>} \cup Rest(T, d, c), v, R)
  BY <1>1, <1>2, AtHead
<1>4. IsSeq(c)
  BY <1>1 DEF Midway
<1>5. t.table \in C <=> H
  <2>1. DOMAIN c = 1..n
    BY <1>4, SeqIs
  <2> QED BY <2>1 DEF Scope
<1> HIDE DEF C, b
<1>6. \A r : r \in P <=> r \in R \/ (r = t /\ Names(t, C))
  BY <1>5 DEF Names
<1>7. Halves(s, Rest(T, d, c), v, P)
  <2>1. t.kind = "ref"
    OBVIOUS
  <2> QED BY <1>3, <1>6, <2>1, Found
<1>8. IsSeq(b) /\ Len(b) = 0 /\ Range(b) = {}
  BY None DEF b
<1>9. Fits(b, T, d, n)
  BY <1>3, <1>8, PlainFits
<1>10. Fresh(b, c, n) = {}
  BY <1>8 DEF Fresh
<1>11. Replaces(b, T, d, c, c, v, v)
  BY <1>2, <1>4, <1>8, <1>9 DEF Replaces
<1>12. Halves(s, Fresh(b, c, Len(c)) \cup Rest(T, d, c), v, P)
  BY <1>7, <1>10
<1>13. Amid(s, b \o Tail(T), c, v, P)
  BY <1>1, <1>11, <1>12, Advance
<1> QED BY <1>13 DEF b

\* A statement at its beginning, and at its end.
LEMMA BeginStep ==
    ASSUME NEW s, Good(s), s.kind = "select", NEW f, f.kind = "end"
    PROVE  Amid(s, <<s, f>>, <<>>, {}, {})
<1> DEFINE T == <<s, f>>
           d == [i \in 1..2 |-> 0]
           C == Scope(<<>>, 0)
           L == {<<s, {}>>}
<1>1. T \in Seq({s, f}) /\ Len(T) = 2 /\ T[1] = s /\ T[2] = f /\ T # <<>>
  OBVIOUS
<1>2. IsSeq(T)
  BY <1>1, SeqOf
<1>3. C = {}
  BY DEF Scope
<1>4. \A i : i \in 1..2 <=> i = 1 \/ i = 2
  OBVIOUS
<1>5. d \in [1..2 -> Nat] /\ \A i \in 1..2 : d[i] = 0
  OBVIOUS
<1> HIDE DEF T, d
<1>6. Nested(T, d, 0)
  <2>1. \A i \in 1..2 : T[i].kind = "end" <=> i = 2
    BY <1>1, <1>4
  <2>2. \A i \in 1..(2 - 1) : d[i + 1] = IF T[i].kind = "pop" THEN d[i] - 1 ELSE d[i]
    BY <1>1, <1>5
  <2>3. d[1] = 0 /\ d[2] = 0 /\ \A i, j \in 1..2 : i <= j => d[j] <= d[i]
    BY <1>5
  <2> QED BY <1>1, <1>2, <1>5, <2>1, <2>2, <2>3 DEF Nested
<1>7. Left(T, d, <<>>) = L
  <2>1. IsFrame(s) /\ Under(s) = s /\ ~IsFrame(f)
    BY DEF IsFrame, Under
  <2>2. d[1] = 0 /\ 1 \in 1..Len(T)
    BY <1>1, <1>5
  <2>3. \A p : p \in Left(T, d, <<>>) <=> p = <<s, {}>>
    <3>1. \A p : p \in Left(T, d, <<>>) <=>
              \E i \in 1..2 : IsFrame(T[i]) /\ p = <<Under(T[i]), Scope(<<>>, d[i])>>
      BY <1>1, LeftIs
    <3> QED BY <1>1, <1>3, <1>4, <2>1, <2>2, <3>1
  <2>4. \A A, B : (\A x : x \in A <=> x \in B) => A = B
    OBVIOUS
  <2> QED BY <2>3, <2>4
<1>8. Halves(s, L, {}, {})
  <2>1. <<s, {}>>[1] = s /\ <<s, {}>>[2] = {}
    OBVIOUS
  <2>2. \A p \in L : p[1] = s /\ p[2] = {}
    BY <2>1
  <2>3. <<s, {}>> \in L
    OBVIOUS
  <2> HIDE DEF L
  <2> QED BY <2>1, <2>2, <2>3 DEF Halves
<1>9. \A i \in 1..Len(T) : T[i].kind = "write" => {} # {}
  BY <1>1, <1>4
<1>10. Len(<<>>) = 0 /\ IsSeq(<<>>)
  BY None
<1>11. Midway(s, T, d, <<>>, {}, {})
  BY <1>6, <1>7, <1>8, <1>9, <1>10 DEF Midway
<1> QED BY <1>1, <1>11 DEF Amid, T

LEMMA EndStep ==
    ASSUME NEW s, NEW T, NEW c, NEW v, NEW R, Amid(s, T, c, v, R), T[1].kind = "end"
    PROVE  /\ <<>> \o Tail(T) = <<>> /\ c = <<>>
           /\ Writes(s) <=> v # {}
           /\ v = {} => TablesIn(s, {}, TRUE) = R
<1>1. PICK d : Midway(s, T, d, c, v, R)
  BY DEF Amid
<1>2. Nested(T, d, Len(c)) /\ IsSeq(T) /\ IsSeq(c) /\ T # <<>>
  BY <1>1 DEF Midway, Nested, Amid
<1>3. Len(T) \in Nat /\ Len(T) > 0 /\ Len(c) \in Nat
  BY <1>2, SeqIs
<1>4. Len(T) = 1
  <2>1. 1 \in 1..Len(T)
    BY <1>3
  <2>2. T[1].kind = "end" <=> 1 = Len(T)
    BY <1>2, <2>1 DEF Nested
  <2> QED BY <2>2
<1>5. Len(c) = 0
  BY <1>2, <1>4 DEF Nested
<1>6. c = <<>>
  BY <1>2, <1>5, SeqIs
<1>7. <<>> \o Tail(T) = <<>>
  <2>1. IsSeq(Tail(T)) /\ Len(Tail(T)) = 0
    BY <1>2, <1>4, RestOf
  <2>2. Tail(T) = <<>>
    BY <2>1, SeqIs
  <2> QED BY <2>2
<1>8. Left(T, d, c) = {}
  <2>1. ~IsFrame(T[1])
    BY DEF IsFrame
  <2>2. Rest(T, d, c) = {}
    BY <1>4 DEF Rest
  <2> QED BY <1>2, <2>1, <2>2, LeftSplit
<1>9. Halves(s, {}, v, R)
  BY <1>1, <1>8 DEF Midway
<1>10. Writes(s) <=> v # {}
  BY <1>9 DEF Halves
<1>11. v = {} => TablesIn(s, {}, TRUE) = R
  <2>1. v = {} => \A r : r \in TablesIn(s, {}, TRUE) <=> r \in R
    BY <1>9 DEF Halves
  <2>2. \A A, B : (\A x : x \in A <=> x \in B) => A = B
    OBVIOUS
  <2> QED BY <2>1, <2>2
<1> QED BY <1>6, <1>7, <1>10, <1>11

-----------------------------------------------------------------------------
(* The walk and the verdict                                                *)

\* D has been read: nothing in it writes, and its tables are known.
Collected(T, D) ==
    /\ \A s \in D : ~Writes(s)
    /\ \A r : r \in Range(T) <=> \E s \in D : r \in TablesIn(s, {}, TRUE)

HasGrant(r) == Resolve[r] \cap Allowed # {}

Progress == \E D : Range(input) = D \cup Range(sql) /\ Collected(tables, D)

WalkHolds ==
    /\ Progress
    /\ ahead = <<>> => ctes = <<>> /\ refs = <<>> /\ violations = {}
    /\ ahead # <<>> => sql # <<>> /\ Amid(Head(sql), ahead, ctes, violations, Range(refs))

AuthorizeHolds ==
    /\ ctes = <<>> /\ IsSeq(ahead)
    /\ Collected(tables, Range(input))
    /\ \A r \in Range(tables) : r \in Range(ahead) \/ HasGrant(r)
    /\ Range(ahead) \subseteq Range(tables)

AcceptedHolds ==
    /\ Collected(tables, Range(input))
    /\ \A r \in Range(tables) : HasGrant(r)

RefusedHolds ==
    IF reason \in {"unknown_table", "not_granted"}
    THEN Collected(tables, Range(input)) /\ \E r \in Range(tables) : ~HasGrant(r)
    ELSE \E s \in Range(input) : Writes(s)

WalkInv ==
    /\ input \in Sqls
    /\ IsSeq(sql) /\ Range(sql) \subseteq Range(input)
    /\ IsSeq(refs) /\ IsInjective(refs) /\ IsSeq(tables)
    /\ phase \in {"walk", "authorize", "accepted", "refused"}
    /\ phase = "walk" => WalkHolds
    /\ phase = "authorize" => AuthorizeHolds
    /\ phase = "accepted" => AcceptedHolds
    /\ phase = "refused" => RefusedHolds

\* Every statement of the input is one the parser makes.
LEMMA InputIsParsed ==
    ASSUME input \in Sqls
    PROVE  IsSeq(input) /\ \A s \in Range(input) : Good(s) /\ s.kind \in {"select", "write"}
<1>1. input \in Seq(Range(input)) /\ \A s \in Range(input) : IsStatement(s)
  BY StatementAssumption
<1>2. \A s \in Range(input) : Good(s) /\ s.kind # "ref"
  BY <1>1, StatementsAreGood
<1>3. \A s \in Range(input) : IsTree(s)
  BY <1>2, GoodIsATree
<1> QED BY <1>1, <1>2, <1>3 DEF IsSeq, IsTree

LEMMA WriteWrites ==
    ASSUME NEW s, Good(s), s.kind = "write"
    PROVE  Writes(s)
<1>1. Writes(s) <=> WritesHere(s) \/ WritesInside(s, {}, FALSE)
  BY WritesIs
<1> QED BY <1>1 DEF WritesHere

\* A step within a statement.
LEMMA VisitKeeps ==
    ASSUME WalkInv, phase = "walk", ahead # <<>>, UNCHANGED <<sql, phase, tables, input>>,
           IsSeq(refs'), IsInjective(refs'),
           Amid(Head(sql), ahead', ctes', violations', Range(refs'))
    PROVE  WalkInv'
<1>1. WalkHolds
  BY DEF WalkInv
<1>2. Progress'
  BY <1>1 DEF WalkHolds, Progress
<1>3. sql' # <<>> /\ ahead' # <<>> /\ Amid(Head(sql'), ahead', ctes', violations', Range(refs'))
  BY <1>1 DEF WalkHolds, Amid
<1>4. WalkHolds'
  BY <1>2, <1>3 DEF WalkHolds
<1> QED BY <1>4 DEF WalkInv

LEMMA HeadAhead ==
    ASSUME WalkInv, phase = "walk", ahead # <<>>
    PROVE  /\ sql # <<>> /\ Amid(Head(sql), ahead, ctes, violations, Range(refs))
           /\ IsSeq(ahead) /\ Head(ahead) = ahead[1]
           /\ IsSeq(refs) /\ IsInjective(refs)
<1>1. sql # <<>> /\ Amid(Head(sql), ahead, ctes, violations, Range(refs))
  BY DEF WalkInv, WalkHolds
<1>2. IsSeq(ahead)
  BY <1>1 DEF Amid, Midway, Nested
<1> QED BY <1>1, <1>2, RestOf DEF WalkInv

LEMMA SelectKeeps ==
    ASSUME WalkInv, VisitSelect
    PROVE  WalkInv'
<1>0. phase = "walk" /\ ahead # <<>> /\ Head(ahead).kind = "select"
  BY DEF VisitSelect, Visits
<1>1. /\ Amid(Head(sql), ahead, ctes, violations, Range(refs)) /\ Head(ahead) = ahead[1]
      /\ IsSeq(refs) /\ IsInjective(refs)
  BY <1>0, HeadAhead
<1> DEFINE t == Head(ahead)
           pop == [kind |-> "pop"]
<1>2. /\ t.with = <<>> =>
             Amid(Head(sql), t.items \o Tail(ahead), ctes, violations \cup t.clauses, Range(refs))
      /\ t.with # <<>> =>
             Amid(Head(sql), (t.items \o Entries(t) \o <<pop>>) \o Tail(ahead),
                  Append(ctes, NamesOf(t)), violations \cup t.clauses, Range(refs))
  <2>1. t = ahead[1] /\ t.kind = "select"
    BY <1>0, <1>1
  <2> HIDE DEF t
  <2> QED BY <1>1, <2>1, SelectStep
<1>3. /\ violations' = violations \cup t.clauses
      /\ UNCHANGED <<sql, phase, tables, refs, reason, input>>
      /\ t.with = <<>> => ahead' = t.items \o Tail(ahead) /\ ctes' = ctes
      /\ t.with # <<>> => /\ ahead' = (t.items \o Entries(t) \o <<pop>>) \o Tail(ahead)
                          /\ ctes' = Append(ctes, NamesOf(t))
  BY DEF VisitSelect, Walked
<1> HIDE DEF t, pop
<1>4. Amid(Head(sql), ahead', ctes', violations', Range(refs'))
  BY <1>2, <1>3
<1>5. IsSeq(refs') /\ IsInjective(refs')
  BY <1>1, <1>3
<1> QED BY <1>0, <1>3, <1>4, <1>5, VisitKeeps

LEMMA PopKeeps ==
    ASSUME WalkInv, PopScope
    PROVE  WalkInv'
<1>0. phase = "walk" /\ ahead # <<>> /\ Head(ahead).kind = "pop"
  BY DEF PopScope, Visits
<1>1. /\ Amid(Head(sql), ahead, ctes, violations, Range(refs)) /\ Head(ahead) = ahead[1]
      /\ IsSeq(refs) /\ IsInjective(refs)
  BY <1>0, HeadAhead
<1>2. Amid(Head(sql), <<>> \o Tail(ahead), SubSeq(ctes, 1, Len(ctes) - 1), violations, Range(refs))
  BY <1>0, <1>1, PopStep
<1>3. /\ UNCHANGED <<sql, phase, tables, refs, violations, reason, input>>
      /\ ahead' = <<>> \o Tail(ahead) /\ ctes' = SubSeq(ctes, 1, Len(ctes) - 1)
  BY DEF PopScope, Walked
<1>4. Amid(Head(sql), ahead', ctes', violations', Range(refs'))
  BY <1>2, <1>3
<1>5. IsSeq(refs') /\ IsInjective(refs')
  BY <1>1, <1>3
<1> QED BY <1>0, <1>3, <1>4, <1>5, VisitKeeps

LEMMA CteKeeps ==
    ASSUME WalkInv, VisitCte
    PROVE  WalkInv'
<1>0. phase = "walk" /\ ahead # <<>> /\ Head(ahead).kind = "cte"
  BY DEF VisitCte, Visits
<1>1. /\ Amid(Head(sql), ahead, ctes, violations, Range(refs)) /\ Head(ahead) = ahead[1]
      /\ IsSeq(refs) /\ IsInjective(refs)
  BY <1>0, HeadAhead
<1> DEFINE why == IF ahead[1].body.kind = "write" THEN {"data_modifying_cte"} ELSE {}
<1>2. Amid(Head(sql), <<ahead[1].body>> \o Tail(ahead), ctes, violations \cup why, Range(refs))
  <2>1. why # {} <=> ahead[1].body.kind = "write"
    OBVIOUS
  <2> HIDE DEF why
  <2> QED BY <1>0, <1>1, <2>1, CteStep
<1>3. /\ UNCHANGED <<sql, phase, tables, ctes, refs, reason, input>>
      /\ ahead' = <<ahead[1].body>> \o Tail(ahead) /\ violations' = violations \cup why
  BY <1>1 DEF VisitCte, Walked
<1> HIDE DEF why
<1>4. Amid(Head(sql), ahead', ctes', violations', Range(refs'))
  BY <1>2, <1>3
<1>5. IsSeq(refs') /\ IsInjective(refs')
  BY <1>1, <1>3
<1> QED BY <1>0, <1>3, <1>4, <1>5, VisitKeeps

LEMMA WriteKeeps ==
    ASSUME WalkInv, VisitWrite
    PROVE  WalkInv'
<1>0. phase = "walk" /\ ahead # <<>> /\ Head(ahead).kind = "write"
  BY DEF VisitWrite, Visits
<1>1. /\ Amid(Head(sql), ahead, ctes, violations, Range(refs)) /\ Head(ahead) = ahead[1]
      /\ IsSeq(refs) /\ IsInjective(refs)
  BY <1>0, HeadAhead
<1> DEFINE t == Head(ahead)
<1>2. Amid(Head(sql), (t.items \o Entries(t)) \o Tail(ahead), ctes, violations, Range(refs))
  <2>1. t = ahead[1] /\ t.kind = "write"
    BY <1>0, <1>1
  <2> HIDE DEF t
  <2> QED BY <1>1, <2>1, WriteStep
<1>3. /\ UNCHANGED <<sql, phase, tables, ctes, refs, violations, reason, input>>
      /\ ahead' = (t.items \o Entries(t)) \o Tail(ahead)
  BY DEF VisitWrite, Walked
<1> HIDE DEF t
<1>4. Amid(Head(sql), ahead', ctes', violations', Range(refs'))
  BY <1>2, <1>3
<1>5. IsSeq(refs') /\ IsInjective(refs')
  BY <1>1, <1>3
<1> QED BY <1>0, <1>3, <1>4, <1>5, VisitKeeps

\* A table that is not among them can be added to different tables.
Distinct(s) == IsInjective(s)

LEMMA AppendDistinct ==
    ASSUME NEW s, IsSeq(s), Distinct(s), NEW x, x \notin Range(s), NEW u, u = Append(s, x)
    PROVE  Distinct(u)
<1> DEFINE n == Len(s)
<1>1. /\ IsSeq(u) /\ Len(u) = n + 1 /\ u[n + 1] = x /\ \A i \in 1..n : u[i] = s[i]
  BY AppendOf
<1>2. n \in Nat /\ DOMAIN s = 1..n /\ \A i \in 1..n : s[i] # x
  BY SeqIs
<1>3. DOMAIN u = 1..(n + 1)
  BY <1>1, SeqIs
<1> HIDE DEF n
<1>4. ASSUME NEW i \in 1..(n + 1), NEW j \in 1..(n + 1), u[i] = u[j] PROVE i = j
  <2>1. CASE i = n + 1 /\ j # n + 1
    BY <1>1, <1>2, <1>4, <2>1
  <2>2. CASE i # n + 1 /\ j = n + 1
    BY <1>1, <1>2, <1>4, <2>2
  <2>3. CASE i # n + 1 /\ j # n + 1
    <3>1. i \in 1..n /\ j \in 1..n
      BY <1>2, <2>3
    <3>2. s[i] = s[j]
      BY <1>1, <1>4, <3>1
    <3> QED BY <1>2, <3>1, <3>2 DEF Distinct, IsInjective
  <2> QED BY <2>1, <2>2, <2>3
<1> QED BY <1>3, <1>4 DEF Distinct, IsInjective

LEMMA RefKeeps ==
    ASSUME WalkInv, VisitRef
    PROVE  WalkInv'
<1>0. phase = "walk" /\ ahead # <<>> /\ Head(ahead).kind = "ref"
  BY DEF VisitRef, Visits
<1>1. /\ Amid(Head(sql), ahead, ctes, violations, Range(refs)) /\ Head(ahead) = ahead[1]
      /\ IsSeq(refs) /\ IsInjective(refs)
  BY <1>0, HeadAhead
<1> DEFINE t == Head(ahead)
           H == InScope(t.table)
           P == IF t.schema = NoSchema /\ H THEN Range(refs) ELSE Range(refs) \cup {t}
<1>2. /\ UNCHANGED <<sql, phase, tables, ctes, violations, reason, input>>
      /\ ahead' = <<>> \o Tail(ahead)
      /\ refs' = IF (t.schema = NoSchema /\ H) \/ t \in Range(refs) THEN refs ELSE Append(refs, t)
  BY DEF VisitRef, Walked
<1>3. H <=> \E i \in DOMAIN ctes : t.table \in ctes[i]
  BY DEF InScope
<1>4. t = ahead[1] /\ t.kind = "ref"
  BY <1>0, <1>1
<1> HIDE DEF t, H
<1>5. Range(refs') = P /\ IsSeq(refs') /\ IsInjective(refs')
  <2>1. CASE t.schema = NoSchema /\ H
    BY <1>1, <1>2, <2>1
  <2>2. CASE ~(t.schema = NoSchema /\ H) /\ t \in Range(refs)
    BY <1>1, <1>2, <2>2
  <2>3. CASE ~(t.schema = NoSchema /\ H) /\ t \notin Range(refs)
    <3>1. refs' = Append(refs, t)
      BY <1>2, <2>3
    <3>2. Range(Append(refs, t)) = Range(refs) \cup {t} /\ IsSeq(Append(refs, t))
      BY <1>1, AppendOf
    <3>3. IsInjective(Append(refs, t))
      <4>1. Distinct(refs) /\ t \notin Range(refs)
        BY <1>1, <2>3 DEF Distinct
      <4>2. Distinct(refs')
        BY <1>1, <3>1, <4>1, AppendDistinct
      <4> QED BY <3>1, <4>2 DEF Distinct
    <3> QED BY <2>3, <3>1, <3>2, <3>3
  <2> QED BY <2>1, <2>2, <2>3
<1>6. Amid(Head(sql), <<>> \o Tail(ahead), ctes, violations, P)
  <2>1. P = IF t.schema = NoSchema /\ H THEN Range(refs) ELSE Range(refs) \cup {t}
    OBVIOUS
  <2> HIDE DEF P
  <2> QED BY <1>1, <1>3, <1>4, <2>1, RefStep
<1> HIDE DEF P
<1>7. Amid(Head(sql), ahead', ctes', violations', Range(refs'))
  BY <1>2, <1>5, <1>6
<1> QED BY <1>0, <1>2, <1>5, <1>7, VisitKeeps

\* A statement that is not a SELECT is refused: it writes.
LEMMA RefuseKeeps ==
    ASSUME WalkInv, RefuseStatement
    PROVE  WalkInv'
<1>1. sql # <<>> /\ IsSeq(sql) /\ Range(sql) \subseteq Range(input) /\ input \in Sqls
  BY DEF WalkInv, RefuseStatement
<1>2. Head(sql) = sql[1] /\ sql[1] \in Range(sql)
  BY <1>1, RestOf
<1>3. Head(sql) \in Range(input) /\ Head(sql).kind = "write" /\ Good(Head(sql))
  BY <1>1, <1>2, InputIsParsed DEF RefuseStatement
<1>4. Writes(Head(sql))
  BY <1>3, WriteWrites
<1>5. /\ phase' = "refused" /\ reason' = "non_select"
      /\ UNCHANGED <<sql, ahead, ctes, refs, tables, violations, input>>
  BY DEF RefuseStatement, Refused
<1>6. RefusedHolds'
  BY <1>3, <1>4, <1>5 DEF RefusedHolds
<1> QED BY <1>5, <1>6 DEF WalkInv

LEMMA BeginKeeps ==
    ASSUME WalkInv, BeginStatement
    PROVE  WalkInv'
<1>1. sql # <<>> /\ IsSeq(sql) /\ Range(sql) \subseteq Range(input) /\ input \in Sqls
  BY DEF WalkInv, BeginStatement
<1>2. WalkHolds /\ ahead = <<>> /\ phase = "walk"
  BY DEF WalkInv, BeginStatement
<1>3. Head(sql) = sql[1] /\ sql[1] \in Range(sql)
  BY <1>1, RestOf
<1>4. Head(sql).kind = "select" /\ Good(Head(sql))
  BY <1>1, <1>3, InputIsParsed DEF BeginStatement
<1> DEFINE f == [kind |-> "end"]
<1>5. Amid(Head(sql), <<Head(sql), f>>, <<>>, {}, {})
  <2>1. f.kind = "end"
    OBVIOUS
  <2> HIDE DEF f
  <2> QED BY <1>4, <2>1, BeginStep
<1>6. /\ ahead' = <<Head(sql), f>>
      /\ UNCHANGED <<sql, phase, tables, ctes, refs, violations, reason, input>>
  BY DEF BeginStatement
<1>7. ctes = <<>> /\ refs = <<>> /\ violations = {} /\ Progress
  BY <1>2 DEF WalkHolds
<1>8. Range(<<>>) = {}
  BY None
<1> HIDE DEF f
<1>9. sql' # <<>> /\ Amid(Head(sql'), ahead', ctes', violations', Range(refs'))
  BY <1>1, <1>5, <1>6, <1>7, <1>8
<1>10. ahead' # <<>>
  BY <1>9 DEF Amid
<1>11. Progress'
  BY <1>6, <1>7 DEF Progress
<1>12. WalkHolds'
  BY <1>9, <1>10, <1>11 DEF WalkHolds
<1> QED BY <1>2, <1>6, <1>12 DEF WalkInv

\* A statement that only reads is one more that has been read.
LEMMA CollectedMore ==
    ASSUME NEW T, IsSeq(T), NEW D, Collected(T, D), NEW s, ~Writes(s), NEW Q, IsSeq(Q),
           TablesIn(s, {}, TRUE) = Range(Q)
    PROVE  Collected(T \o Q, D \cup {s})
<1>1. Range(T \o Q) = Range(T) \cup Range(Q)
  BY JoinOf
<1>2. \A x \in D \cup {s} : x \in D \/ x = s
  OBVIOUS
<1>3. \A x \in D \cup {s} : ~Writes(x)
  BY <1>2 DEF Collected
<1>4. ASSUME NEW r
      PROVE  r \in Range(T \o Q) <=> \E x \in D \cup {s} : r \in TablesIn(x, {}, TRUE)
  <2>1. r \in Range(T) <=> \E x \in D : r \in TablesIn(x, {}, TRUE)
    BY DEF Collected
  <2>2. r \in Range(Q) <=> r \in TablesIn(s, {}, TRUE)
    OBVIOUS
  <2> QED BY <1>1, <2>1, <2>2
<1> QED BY <1>3, <1>4 DEF Collected

LEMMA EndKeeps ==
    ASSUME WalkInv, EndStatement
    PROVE  WalkInv'
<1>0. phase = "walk" /\ ahead # <<>> /\ Head(ahead).kind = "end"
  BY DEF EndStatement, Visits
<1>1. /\ Amid(Head(sql), ahead, ctes, violations, Range(refs)) /\ Head(ahead) = ahead[1]
      /\ IsSeq(refs) /\ sql # <<>>
  BY <1>0, HeadAhead
<1>2. /\ <<>> \o Tail(ahead) = <<>> /\ ctes = <<>>
      /\ Writes(Head(sql)) <=> violations # {}
      /\ violations = {} => TablesIn(Head(sql), {}, TRUE) = Range(refs)
  BY <1>0, <1>1, EndStep
<1>3. /\ IsSeq(sql) /\ Range(sql) \subseteq Range(input) /\ input \in Sqls
      /\ IsInjective(refs) /\ IsSeq(tables) /\ Progress
  BY <1>0 DEF WalkInv, WalkHolds
<1>4. /\ Head(sql) \in Range(sql) /\ Range(sql) = {Head(sql)} \cup Range(Tail(sql))
      /\ IsSeq(Tail(sql))
  BY <1>1, <1>3, RestOf
<1>5. ahead' = <<>> /\ UNCHANGED <<ctes, violations, input>>
  BY <1>2 DEF EndStatement, Walked
<1>6. CASE violations # {}
  <2>1. /\ phase' = "refused" /\ reason' = "write_side_effect"
        /\ UNCHANGED <<sql, tables, refs>>
    BY <1>6 DEF EndStatement, Refused
  <2>2. Head(sql) \in Range(input) /\ Writes(Head(sql))
    BY <1>2, <1>3, <1>4, <1>6
  <2>3. RefusedHolds'
    BY <1>5, <2>1, <2>2 DEF RefusedHolds
  <2> QED BY <1>1, <1>3, <1>5, <2>1, <2>3 DEF WalkInv
<1>7. CASE violations = {}
  <2>1. /\ sql' = Tail(sql) /\ tables' = tables \o refs /\ refs' = <<>>
        /\ UNCHANGED <<phase, reason>>
    BY <1>7 DEF EndStatement
  <2>2. PICK D : Range(input) = D \cup Range(sql) /\ Collected(tables, D)
    BY <1>3 DEF Progress
  <2>3. Collected(tables \o refs, D \cup {Head(sql)})
    BY <1>1, <1>2, <1>3, <1>7, <2>2, CollectedMore
  <2>4. Range(input) = (D \cup {Head(sql)}) \cup Range(Tail(sql))
    BY <1>4, <2>2
  <2>5. Progress'
    <3>1. Range(input') = (D \cup {Head(sql)}) \cup Range(sql') /\ Collected(tables', D \cup {Head(sql)})
      BY <1>5, <2>1, <2>3, <2>4 DEF Collected
    <3> QED BY <3>1 DEF Progress
  <2>6. IsSeq(sql') /\ Range(sql') \subseteq Range(input') /\ IsSeq(tables')
    BY <1>1, <1>3, <1>4, <1>5, <2>1, JoinOf
  <2>7. IsSeq(refs') /\ IsInjective(refs')
    BY <2>1, None DEF IsInjective
  <2>8. WalkHolds'
    BY <1>2, <1>5, <1>7, <2>1, <2>5 DEF WalkHolds
  <2> QED BY <1>0, <1>3, <1>5, <2>1, <2>6, <2>7, <2>8 DEF WalkInv
<1> QED BY <1>6, <1>7

LEMMA EndWalkKeeps ==
    ASSUME WalkInv, EndWalk
    PROVE  WalkInv'
<1>1. phase = "walk" /\ sql = <<>> /\ ahead = <<>>
  BY DEF EndWalk
<1>2. /\ phase' = "authorize" /\ ahead' = tables
      /\ UNCHANGED <<sql, ctes, refs, tables, violations, reason, input>>
  BY DEF EndWalk
<1>3. WalkHolds /\ IsSeq(tables)
  BY <1>1 DEF WalkInv
<1>4. ctes = <<>> /\ Progress
  BY <1>1, <1>3 DEF WalkHolds
<1>5. PICK D : Range(input) = D \cup Range(sql) /\ Collected(tables, D)
  BY <1>4 DEF Progress
<1>6. Range(sql) = {}
  BY <1>1, None
<1>7. D = Range(input)
  BY <1>5, <1>6
<1>8. Collected(tables', Range(input'))
  BY <1>2, <1>5, <1>7 DEF Collected
<1>9. AuthorizeHolds'
  BY <1>2, <1>3, <1>4, <1>8 DEF AuthorizeHolds
<1> QED BY <1>2, <1>9 DEF WalkInv

LEMMA AuthorizeKeeps ==
    ASSUME WalkInv, AuthorizeTable
    PROVE  WalkInv'
<1>1. phase = "authorize" /\ UNCHANGED <<sql, ctes, refs, tables, violations, input>>
  BY DEF AuthorizeTable
<1>2. AuthorizeHolds
  BY <1>1 DEF WalkInv
<1>3. /\ ctes = <<>> /\ IsSeq(ahead) /\ Collected(tables, Range(input))
      /\ \A r \in Range(tables) : r \in Range(ahead) \/ HasGrant(r)
      /\ Range(ahead) \subseteq Range(tables)
  BY <1>2 DEF AuthorizeHolds
<1>4. Collected(tables', Range(input')) /\ \A r : HasGrant(r)' <=> HasGrant(r)
  BY <1>1, <1>3 DEF Collected, HasGrant
<1>5. CASE ahead = <<>> /\ phase' = "accepted" /\ UNCHANGED <<ahead, reason>>
  <2>1. Range(ahead) = {}
    BY <1>5, None
  <2>2. AcceptedHolds'
    BY <1>1, <1>3, <1>4, <2>1 DEF AcceptedHolds, HasGrant
  <2> QED BY <1>1, <1>5, <2>2 DEF WalkInv
<1>6. CASE /\ ahead # <<>> /\ Resolve[Head(ahead)] \cap Allowed # {}
           /\ ahead' = Tail(ahead) /\ UNCHANGED <<phase, reason>>
  <2>1. IsSeq(Tail(ahead)) /\ Range(ahead) = {Head(ahead)} \cup Range(Tail(ahead))
    BY <1>3, <1>6, RestOf
  <2>2. HasGrant(Head(ahead))
    BY <1>6 DEF HasGrant
  <2>3. \A r \in Range(tables) : r \in Range(Tail(ahead)) \/ HasGrant(r)
    BY <1>3, <2>1, <2>2
  <2>4. AuthorizeHolds'
    BY <1>1, <1>3, <1>4, <1>6, <2>1, <2>3 DEF AuthorizeHolds, HasGrant
  <2> QED BY <1>1, <1>6, <2>4 DEF WalkInv
<1>7. CASE /\ ahead # <<>> /\ Resolve[Head(ahead)] \cap Allowed = {}
           /\ Refused(IF Resolve[Head(ahead)] = {} THEN "unknown_table" ELSE "not_granted")
  <2>1. Head(ahead) \in Range(tables)
    BY <1>3, <1>7, RestOf
  <2>2. ~HasGrant(Head(ahead))
    BY <1>7 DEF HasGrant
  <2>3. phase' = "refused" /\ reason' \in {"unknown_table", "not_granted"}
    BY <1>7 DEF Refused
  <2>4. RefusedHolds'
    BY <1>1, <1>4, <2>1, <2>2, <2>3 DEF RefusedHolds, HasGrant
  <2> QED BY <1>1, <2>3, <2>4 DEF WalkInv
<1> QED BY <1>5, <1>6, <1>7 DEF AuthorizeTable

LEMMA WalkInvInit == WalkInit => WalkInv
<1> SUFFICES ASSUME WalkInit PROVE WalkInv
  OBVIOUS
<1>1. /\ input \in Sqls /\ sql = input /\ phase = "walk" /\ ahead = <<>> /\ ctes = <<>>
      /\ refs = <<>> /\ tables = <<>> /\ violations = {}
  BY DEF WalkInit
<1>2. IsSeq(input) /\ IsSeq(<<>>) /\ Range(<<>>) = {} /\ IsInjective(<<>>)
  BY <1>1, InputIsParsed, None DEF IsInjective
<1>3. Collected(tables, {})
  BY <1>1, <1>2 DEF Collected
<1>4. Range(input) = {} \cup Range(sql)
  BY <1>1
<1>5. Progress
  BY <1>3, <1>4 DEF Progress
<1>6. WalkHolds
  BY <1>1, <1>5 DEF WalkHolds
<1> QED BY <1>1, <1>2, <1>6 DEF WalkInv

LEMMA WalkInvNext == WalkInv /\ [WalkNext]_walkVars => WalkInv'
<1> SUFFICES ASSUME WalkInv, [WalkNext]_walkVars PROVE WalkInv'
  OBVIOUS
<1>1. CASE UNCHANGED walkVars
  <2>1. UNCHANGED <<sql, phase, ahead, ctes, refs, tables, violations, reason, input>>
    BY <1>1 DEF walkVars
  <2> QED BY <2>1 DEF WalkInv, WalkHolds, AuthorizeHolds, AcceptedHolds, RefusedHolds,
                      Progress, Collected, HasGrant
<1>2. CASE WalkNext
  BY <1>2, RefuseKeeps, BeginKeeps, EndKeeps, EndWalkKeeps, SelectKeeps, PopKeeps, CteKeeps,
     WriteKeeps, RefKeeps, AuthorizeKeeps DEF WalkNext
<1> QED BY <1>1, <1>2

LEMMA WalkInvHolds == WalkSpec => []WalkInv
<1> QED BY WalkInvInit, WalkInvNext, PTL DEF WalkSpec

\* The scopes the walker opens nest as the statement does: when nothing is
\* left of a statement, and while its tables are looked up, none is open, so
\* no name of one statement is taken for a CTE of another (walk.go: pushCTE,
\* popCTE); and no table of a statement is listed twice.
THEOREM ScopesNest == WalkSpec => []WalkTypeOK
<1>1. WalkInv => WalkTypeOK
  BY DEF WalkInv, WalkHolds, AuthorizeHolds, WalkTypeOK
<1> QED BY <1>1, WalkInvHolds, PTL

\* What was collected is what PostgreSQL reads, but for what it reads early.
LEMMA CollectedIsRead ==
    ASSUME NEW T, NEW D, Collected(T, D), \A s \in D : Good(s)
    PROVE  /\ Range(T) \subseteq UNION {Reads(s) : s \in D}
           /\ (UNION {Reads(s) : s \in D}) \ (UNION {Early(s) : s \in D}) \subseteq Range(T)
<1>1. ASSUME NEW s \in D, NEW r
      PROVE  /\ r \in TablesIn(s, {}, TRUE) => r \in Reads(s)
             /\ r \in Reads(s) /\ r \notin Early(s) => r \in TablesIn(s, {}, TRUE)
  <2>1. Same(s, Early(s))
    BY WideReads
  <2> QED BY <2>1 DEF Same, Reads
<1>2. \A r : r \in Range(T) <=> \E s \in D : r \in TablesIn(s, {}, TRUE)
  BY DEF Collected
<1>3. ASSUME NEW r \in Range(T) PROVE \E s \in D : r \in Reads(s)
  BY <1>1, <1>2
<1>4. ASSUME NEW s \in D, NEW r \in Reads(s), \A u \in D : r \notin Early(u)
      PROVE  r \in Range(T)
  BY <1>1, <1>2, <1>4
<1> DEFINE R == UNION {Reads(s) : s \in D}
           E == UNION {Early(s) : s \in D}
<1>5. /\ \A r : r \in R <=> \E s \in D : r \in Reads(s)
      /\ \A r : r \in E <=> \E s \in D : r \in Early(s)
  OBVIOUS
<1> HIDE DEF R, E
<1>6. Range(T) \subseteq R
  BY <1>3, <1>5
<1>7. R \ E \subseteq Range(T)
  BY <1>4, <1>5
<1> QED BY <1>6, <1>7 DEF R, E

\* For every input: what the validator accepts only reads and is granted in
\* every table it looks up, and what it refuses writes or names a table that is
\* not granted; the tables it looks up are read by PostgreSQL, and are all it
\* reads but those an entry of a plain WITH reads by its own or a later entry's
\* name (validate.go: Check, walk.go: walkSelect).
THEOREM VerdictHolds == WalkSpec => []VerdictIsRight
<1>1. ASSUME WalkInv PROVE VerdictIsRight
  <2> DEFINE statements == Range(input)
             read == UNION {Reads(s) : s \in statements}
             early == UNION {Early(s) : s \in statements}
             writes == \E s \in statements : Writes(s)
             missing == \E r \in Range(tables) : Resolve[r] \cap Allowed = {}
  <2>1. \A s \in statements : Good(s)
    BY <1>1, InputIsParsed DEF WalkInv
  <2>2. phase \in {"authorize", "accepted"} => Collected(tables, statements)
    BY <1>1 DEF WalkInv, AuthorizeHolds, AcceptedHolds
  <2>3. phase \in {"authorize", "accepted"} =>
            Range(tables) \subseteq read /\ read \ early \subseteq Range(tables)
    <3> HIDE DEF statements
    <3> QED BY <2>1, <2>2, CollectedIsRead
  <2>4. phase = "accepted" => ~writes /\ ~missing
    BY <1>1 DEF WalkInv, AcceptedHolds, Collected, HasGrant
  <2>5. phase = "refused" => IF reason \in {"unknown_table", "not_granted"}
                             THEN missing /\ ~writes ELSE writes
    BY <1>1 DEF WalkInv, RefusedHolds, Collected, HasGrant
  <2> QED BY <2>3, <2>4, <2>5 DEF VerdictIsRight
<1> QED BY <1>1, WalkInvHolds, PTL
=============================================================================

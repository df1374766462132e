----------------------------- MODULE AuthzProofs -----------------------------
(***************************************************************************)
(* Proofs about Authz for every set of grants, patterns and grants-apply   *)
(* processes and for every bound: type correctness, the agreement of the   *)
(* snapshot with the store, what grants-apply reports, and that the daemon *)
(* implements GrantView.                                                   *)
(***************************************************************************)
EXTENDS Authz, TLAPS

\* The newest version of the history is the table in the store.
HistIsCurrent == hist[revision] = grants

\* A load in progress holds rows of one committed version, no older than the
\* revision it read first and no older than any version served before.
LoadIsCommitted ==
    /\ floor \in 0 .. revision
    /\ load.pc \in {"grants", "swap"} => load.rev \in 0 .. revision
    /\ load.pc = "swap" =>
          /\ load.at \in 0 .. revision
          /\ load.rev <= load.at
          /\ floor <= load.at
          /\ load.rows = hist[load.at]

\* A loaded snapshot is the whole version floor, its revision not ahead of it.
SnapIsCommitted ==
    snap.loaded => snap.grants = hist[floor] /\ snap.revision <= floor

\* What a grants-apply process knows about the store.
ApplyKnows(p) ==
    /\ apply[p].committed <= revision
    /\ apply[p].pc = "list" /\ apply[p].want = grants => apply[p].held
    /\ apply[p].pc = "compare" /\ apply[p].same => apply[p].held
    /\ apply[p].pc \in {"report", "done"} /\ apply[p].committed = 0 => apply[p].held
    /\ apply[p].pc = "done" => apply[p].committed <= apply[p].reported

ApplyIsHonest == \A p \in Apply : ApplyKnows(p)

IInv ==
    /\ TypeOK
    /\ HistIsCurrent
    /\ LoadIsCommitted
    /\ SnapIsCommitted
    /\ ApplyIsHonest

-----------------------------------------------------------------------------
LEMMA InitIInv == Init => IInv
<1> SUFFICES ASSUME Init PROVE IInv
  OBVIOUS
<1> USE DEF Init
<1>1. TypeOK
  <2>1. apply \in [Apply -> ApplyState]
    BY DEF NotApplying, ApplyState
  <2>2. snap \in SnapState /\ load \in LoadState
    BY DEF NoSnapshot, SnapState, NotLoading, LoadState
  <2>3. faults \in 0 .. MaxFaults /\ crashes \in 0 .. MaxCrashes
    BY BoundsAssumption
  <2>4. hist \in [0 .. revision -> SUBSET Grant]
    OBVIOUS
  <2> QED
    BY <2>1, <2>2, <2>3, <2>4 DEF TypeOK
<1>2. HistIsCurrent
  BY DEF HistIsCurrent
<1>3. LoadIsCommitted /\ SnapIsCommitted
  BY DEF LoadIsCommitted, SnapIsCommitted, NotLoading, NoSnapshot
<1>4. ApplyIsHonest
  BY DEF ApplyIsHonest, ApplyKnows, NotApplying
<1> QED
  BY <1>1, <1>2, <1>3, <1>4 DEF IInv

-----------------------------------------------------------------------------
(* Permission commands: each write extends the history by the new table    *)

\* A committed table is the next version of the history, which keeps the old
\* ones; what a load, a snapshot or a process knows of them stays true.
LEMMA CommitKeepsVersions ==
    ASSUME TypeOK, NEW T \in SUBSET Grant, CommitTable(T)
    PROVE  /\ grants' \in SUBSET Grant
           /\ revision' \in Nat
           /\ revision' = revision + 1
           /\ hist' \in [0 .. revision' -> SUBSET Grant]
           /\ \A r \in 0 .. revision : hist'[r] = hist[r]
           /\ hist'[revision'] = grants'
BY DEF TypeOK, CommitTable

\* The part of the invariant about the gateway survives a commit.
LEMMA CommitKeepsGateway ==
    ASSUME IInv, NEW T \in SUBSET Grant, CommitTable(T), UNCHANGED gateway
    PROVE  HistIsCurrent' /\ LoadIsCommitted' /\ SnapIsCommitted'
<1> USE CommitKeepsVersions DEF IInv
<1>1. HistIsCurrent'
  BY DEF HistIsCurrent
<1>2. LoadIsCommitted'
  BY DEF LoadIsCommitted, gateway, TypeOK
<1>3. SnapIsCommitted'
  BY DEF SnapIsCommitted, LoadIsCommitted, gateway, TypeOK
<1> QED
  BY <1>1, <1>2, <1>3

\* Witness only ever sets held, and sets it for the processes that need it.
LEMMA WitnessKeepsApply ==
    ASSUME IInv, NEW T \in SUBSET Grant, CommitTable(T)
    PROVE  /\ Witness(T) \in [Apply -> ApplyState]
           /\ \A p \in Apply :
                 /\ Witness(T)[p].pc = apply[p].pc
                 /\ Witness(T)[p].want = apply[p].want
                 /\ Witness(T)[p].wantPatterns = apply[p].wantPatterns
                 /\ Witness(T)[p].same = apply[p].same
                 /\ Witness(T)[p].committed = apply[p].committed
                 /\ Witness(T)[p].reported = apply[p].reported
                 /\ apply[p].held => Witness(T)[p].held
                 /\ apply[p].pc = "list" /\ apply[p].want = T => Witness(T)[p].held
<1>1. TypeOK
  BY DEF IInv
<1>2. ASSUME NEW p \in Apply
      PROVE  /\ Witness(T)[p] \in ApplyState
             /\ Witness(T)[p].pc = apply[p].pc
             /\ Witness(T)[p].want = apply[p].want
             /\ Witness(T)[p].wantPatterns = apply[p].wantPatterns
             /\ Witness(T)[p].same = apply[p].same
             /\ Witness(T)[p].committed = apply[p].committed
             /\ Witness(T)[p].reported = apply[p].reported
             /\ apply[p].held => Witness(T)[p].held
             /\ apply[p].pc = "list" /\ apply[p].want = T => Witness(T)[p].held
  <2>1. apply[p] \in ApplyState
    BY <1>1 DEF TypeOK
  <2> QED
    BY <2>1 DEF Witness, ApplyState
<1>3. Witness(T) \in [Apply -> ApplyState]
  BY <1>2 DEF Witness
<1> QED
  BY <1>2, <1>3

\* grant-add and grant-remove: a commit of some table, patterns untouched.
LEMMA GrantCommandKeepsIInv ==
    ASSUME IInv, NEW T \in SUBSET Grant, CommitTable(T),
           apply' = Witness(T), UNCHANGED <<patterns, gateway>>
    PROVE  IInv'
<1>1. TypeOK'
  BY CommitKeepsVersions, WitnessKeepsApply DEF IInv, TypeOK, gateway
<1>2. HistIsCurrent' /\ LoadIsCommitted' /\ SnapIsCommitted'
  BY CommitKeepsGateway
<1>3. ApplyIsHonest'
  <2> SUFFICES ASSUME NEW p \in Apply PROVE ApplyKnows(p)'
    BY DEF ApplyIsHonest
  <2>1. ApplyKnows(p)
    BY DEF IInv, ApplyIsHonest
  <2>2. grants' = T /\ revision' = revision + 1
    BY DEF CommitTable
  <2>3. apply[p] \in ApplyState /\ revision \in Nat
    BY DEF IInv, TypeOK
  <2> QED
    BY <2>1, <2>2, <2>3, WitnessKeepsApply DEF ApplyKnows, ApplyState
<1> QED
  BY <1>1, <1>2, <1>3 DEF IInv

\* The transaction of grants-apply commits the table it wants.
LEMMA ApplyWriteKeepsIInv ==
    ASSUME IInv, NEW q \in Apply, ApplyWrite(q)
    PROVE  IInv'
<1> DEFINE T == apply[q].want
<1>0. /\ TypeOK
      /\ apply \in [Apply -> ApplyState]
      /\ T \in SUBSET Grant
      /\ apply[q].wantPatterns \in SUBSET Pattern
      /\ CommitTable(T)
      /\ grants' = T
      /\ revision' = revision + 1
      /\ revision \in Nat
      /\ patterns' = apply[q].wantPatterns
      /\ UNCHANGED gateway
  BY DEF IInv, TypeOK, ApplyState, ApplyWrite, CommitTable
<1>1. \A p \in Apply :
         /\ p # q => apply'[p] = Witness(T)[p]
         /\ p = q => apply'[p] = [Witness(T)[p] EXCEPT !.pc = "report", !.committed = revision']
  <2>1. Witness(T) \in [Apply -> ApplyState]
    BY <1>0, WitnessKeepsApply
  <2> QED
    BY <1>0, <2>1 DEF ApplyWrite
<1>2. apply' \in [Apply -> ApplyState]
  <2>1. Witness(T) \in [Apply -> ApplyState]
    BY <1>0, WitnessKeepsApply
  <2>2. apply' = [Witness(T) EXCEPT ![q].pc = "report", ![q].committed = revision']
    BY <1>0 DEF ApplyWrite
  <2> QED
    BY <1>0, <2>1, <2>2 DEF ApplyState
<1>3. TypeOK'
  BY <1>0, <1>2, CommitKeepsVersions DEF TypeOK, gateway
<1>4. HistIsCurrent' /\ LoadIsCommitted' /\ SnapIsCommitted'
  BY <1>0, CommitKeepsGateway
<1>5. ApplyIsHonest'
  <2> SUFFICES ASSUME NEW p \in Apply PROVE ApplyKnows(p)'
    BY DEF ApplyIsHonest
  <2>1. ApplyKnows(p) /\ apply[p] \in ApplyState
    BY <1>0 DEF IInv, ApplyIsHonest
  <2>2. CASE p = q
    <3> DEFINE w == Witness(T)[q]
    <3>0. w \in ApplyState
      BY <1>0, WitnessKeepsApply
    <3>1. apply'[p].pc = "report" /\ apply'[p].committed = revision + 1
      <4>1. apply'[p] = [w EXCEPT !.pc = "report", !.committed = revision + 1]
        BY <1>0, <1>1, <2>2
      <4> HIDE DEF w
      <4> QED
        BY <3>0, <4>1 DEF ApplyState
    <3> QED
      BY <3>1, <1>0 DEF ApplyKnows
  <2>3. CASE p # q
    <3>1. apply'[p] = Witness(T)[p]
      BY <1>1, <2>3
    <3> QED
      BY <3>1, <2>1, <1>0, WitnessKeepsApply DEF ApplyKnows, ApplyState
  <2> QED
    BY <2>2, <2>3
<1> QED
  BY <1>3, <1>4, <1>5 DEF IInv

\* The steps of grants-apply that leave the store alone change one process.
LEMMA ApplyStepKeepsIInv ==
    ASSUME IInv, NEW q \in Apply, UNCHANGED <<store, gateway>>,
           NEW s \in ApplyState, apply' = [apply EXCEPT ![q] = s],
           ApplyKnows(q)'
    PROVE  IInv'
<1>1. TypeOK'
  BY DEF IInv, TypeOK, store, gateway
<1>2. HistIsCurrent' /\ LoadIsCommitted' /\ SnapIsCommitted'
  BY DEF IInv, HistIsCurrent, LoadIsCommitted, SnapIsCommitted, store, gateway
<1>3. ApplyIsHonest'
  <2> SUFFICES ASSUME NEW p \in Apply, p # q PROVE ApplyKnows(p)'
    BY DEF ApplyIsHonest
  <2>1. ApplyKnows(p)
    BY DEF IInv, ApplyIsHonest
  <2>2. apply'[p] = apply[p]
    BY DEF IInv, TypeOK
  <2> QED
    BY <2>1, <2>2 DEF ApplyKnows, store
<1> QED
  BY <1>1, <1>2, <1>3 DEF IInv

LEMMA ApplyKeepsIInv ==
    ASSUME IInv, NEW q \in Apply,
           \/ ApplyExpand(q) \/ ApplyList(q) \/ ApplyCompare(q)
           \/ ApplyReport(q) \/ ApplyAbort(q)
    PROVE  IInv'
<1>0. /\ apply \in [Apply -> ApplyState]
      /\ apply[q] \in ApplyState
      /\ ApplyKnows(q)
      /\ revision \in Nat
  BY DEF IInv, TypeOK, ApplyIsHonest
<1>1. CASE ApplyExpand(q)
  <2>1. PICK want \in SUBSET Grant, wantPatterns \in SUBSET Pattern :
           apply' = [apply EXCEPT ![q] =
                       [NotApplying EXCEPT !.pc = "list", !.want = want,
                           !.wantPatterns = wantPatterns, !.held = (want = grants)]]
    BY <1>1 DEF ApplyExpand
  <2> DEFINE s == [NotApplying EXCEPT !.pc = "list", !.want = want,
                      !.wantPatterns = wantPatterns, !.held = (want = grants)]
  <2>2. /\ s \in ApplyState
        /\ s.pc = "list" /\ s.want = want /\ s.held = (want = grants) /\ s.committed = 0
    BY DEF ApplyState, NotApplying
  <2>3. apply'[q] = s /\ UNCHANGED <<store, gateway>>
    BY <1>0, <1>1, <2>1 DEF ApplyExpand
  <2>4. /\ apply'[q].pc = "list" /\ apply'[q].committed = 0
        /\ apply'[q].want = grants' => apply'[q].held
    <3>1. want = grants => s.held
      BY <2>2
    <3>2. grants' = grants
      BY <2>3 DEF store
    <3> HIDE DEF s
    <3> QED
      BY <2>2, <2>3, <3>1, <3>2
  <2>5. ApplyKnows(q)'
    BY <1>0, <2>3, <2>4 DEF ApplyKnows, store
  <2> QED
    BY <2>1, <2>2, <2>3, <2>5, ApplyStepKeepsIInv
<1>2. CASE ApplyList(q)
  <2> DEFINE s == [apply[q] EXCEPT !.pc = "compare", !.same = (grants = apply[q].want)]
  <2>1. s \in ApplyState
    BY <1>0 DEF ApplyState
  <2>2. apply' = [apply EXCEPT ![q] = s] /\ UNCHANGED <<store, gateway>>
    BY <1>0, <1>2 DEF ApplyList
  <2>3. ApplyKnows(q)'
    BY <1>0, <1>2, <2>2 DEF ApplyKnows, ApplyList, ApplyState, store
  <2> QED
    BY <2>1, <2>2, <2>3, ApplyStepKeepsIInv
<1>3. CASE ApplyCompare(q)
  <2> DEFINE pc == IF apply[q].same /\ patterns = apply[q].wantPatterns THEN "report" ELSE "write"
             s == [apply[q] EXCEPT !.pc = pc]
  <2>1. s \in ApplyState
    BY <1>0 DEF ApplyState
  <2>2. apply' = [apply EXCEPT ![q] = s] /\ UNCHANGED <<store, gateway>>
    BY <1>0, <1>3 DEF ApplyCompare
  <2>3. ApplyKnows(q)'
    BY <1>0, <1>3, <2>2 DEF ApplyKnows, ApplyCompare, ApplyState, store
  <2> QED
    BY <2>1, <2>2, <2>3, ApplyStepKeepsIInv
<1>4. CASE ApplyReport(q)
  <2> DEFINE s == [apply[q] EXCEPT !.pc = "done", !.reported = revision]
  <2>1. s \in ApplyState
    BY <1>0 DEF ApplyState
  <2>2. apply' = [apply EXCEPT ![q] = s] /\ UNCHANGED <<store, gateway>>
    BY <1>0, <1>4 DEF ApplyReport
  <2>3. ApplyKnows(q)'
    BY <1>0, <1>4, <2>2 DEF ApplyKnows, ApplyReport, ApplyState, store
  <2> QED
    BY <2>1, <2>2, <2>3, ApplyStepKeepsIInv
<1>5. CASE ApplyAbort(q)
  <2>1. NotApplying \in ApplyState /\ NotApplying.pc = "idle" /\ NotApplying.committed = 0
    BY DEF NotApplying, ApplyState
  <2>2. apply' = [apply EXCEPT ![q] = NotApplying] /\ UNCHANGED <<store, gateway>>
    BY <1>5 DEF ApplyAbort
  <2>3. apply'[q] = NotApplying
    BY <1>0, <2>2
  <2>4. ApplyKnows(q)'
    BY <1>0, <2>1, <2>2, <2>3 DEF ApplyKnows, store
  <2> QED
    BY <2>1, <2>2, <2>4, ApplyStepKeepsIInv
<1> QED
  BY <1>1, <1>2, <1>3, <1>4, <1>5

-----------------------------------------------------------------------------
(* The daemon: its steps leave the store and the commands alone            *)

\* After failClosed nothing is loaded and no load is running.
LEMMA FailClosedDenies ==
    ASSUME TypeOK, FailClosed
    PROVE  /\ snap' \in SnapState /\ ~ snap'.loaded
           /\ load' = NotLoading /\ load' \in LoadState
           /\ daemon' \in {"down", "starting", "serving"}
<1>1. load' = NotLoading /\ NotLoading \in LoadState
  BY DEF FailClosed, NotLoading, LoadState
<1>2. snap \in SnapState /\ daemon \in {"down", "starting", "serving"}
  BY DEF TypeOK
<1>3. CASE daemon = "starting"
  <2>1. NoSnapshot \in SnapState /\ ~ NoSnapshot.loaded
    BY DEF NoSnapshot, SnapState
  <2> QED
    BY <1>1, <1>3, <2>1 DEF FailClosed
<1>4. CASE daemon # "starting"
  <2>1. snap' = [snap EXCEPT !.loaded = FALSE, !.revision = -1] /\ daemon' = daemon
    BY <1>4 DEF FailClosed
  <2>2. snap' \in SnapState /\ snap'.loaded = FALSE
    <3>1. snap' = [grants |-> snap.grants, loaded |-> FALSE, revision |-> -1]
      BY <1>2, <2>1 DEF SnapState
    <3> QED
      BY <1>2, <3>1 DEF SnapState
  <2> QED
    BY <1>1, <1>2, <2>1, <2>2
<1> QED
  BY <1>3, <1>4

LEMMA DaemonKeepsIInv ==
    ASSUME IInv, DaemonStep
    PROVE  IInv'
<1>0. /\ TypeOK /\ HistIsCurrent /\ LoadIsCommitted /\ SnapIsCommitted
      /\ UNCHANGED <<store, apply>>
  BY DEF IInv, DaemonStep, StartDaemon, CrashDaemon, PollTick, PollFails,
      LoadRevision, LoadGrants, LoadFails, LoadSwap, ReadFails, FailClosed
<1>1. HistIsCurrent' /\ ApplyIsHonest'
  BY <1>0 DEF IInv, HistIsCurrent, ApplyIsHonest, ApplyKnows, store
<1>2. TypeOK'
  <2>1. grants' = grants /\ patterns' = patterns /\ revision' = revision /\ hist' = hist /\ apply' = apply
    BY <1>0 DEF store
  <2>2. floor \in Nat
    BY <1>0 DEF TypeOK
  <2> USE <1>0, <2>1 DEF TypeOK, SnapState, LoadState, NoSnapshot, NotLoading
  <2>3. CASE StartDaemon
    BY <2>3 DEF StartDaemon
  <2>4. CASE CrashDaemon
    <3>1. NoSnapshot \in SnapState /\ NotLoading \in LoadState
      OBVIOUS
    <3>2. crashes' \in 0 .. MaxCrashes
      BY <2>4, BoundsAssumption DEF CrashDaemon
    <3> QED
      BY <2>4, <3>1, <3>2 DEF CrashDaemon
  <2>5. CASE PollTick
    BY <2>5 DEF PollTick, ReadSucceeds
  <2>6. CASE PollFails
    BY <2>6, BoundsAssumption DEF PollFails, ReadFails
  <2>7. CASE LoadRevision
    <3>1. load' = [load EXCEPT !.pc = "grants", !.rev = revision]
      BY <2>7 DEF LoadRevision
    <3>2. load' = [pc |-> "grants", rev |-> revision, rows |-> load.rows, at |-> load.at]
      BY <3>1
    <3>3. load' \in LoadState
      BY <3>2
    <3> QED
      BY <2>7, <3>3 DEF LoadRevision, ReadSucceeds
  <2>8. CASE LoadGrants
    BY <2>8 DEF LoadGrants, ReadSucceeds
  <2>9. CASE LoadFails
    <3>1. faults' \in 0 .. MaxFaults
      BY <2>9, BoundsAssumption DEF LoadFails, ReadFails
    <3> QED
      BY <2>9, <3>1, FailClosedDenies DEF LoadFails
  <2>10. CASE LoadSwap
    BY <2>10 DEF LoadSwap
  <2> QED
    BY <2>3, <2>4, <2>5, <2>6, <2>7, <2>8, <2>9, <2>10 DEF DaemonStep
<1>3. LoadIsCommitted' /\ SnapIsCommitted'
  <2>1. grants' = grants /\ revision' = revision /\ hist' = hist
    BY <1>0 DEF store
  <2>2. /\ snap \in SnapState /\ load \in LoadState
        /\ revision \in Nat /\ hist[revision] = grants
    BY <1>0 DEF TypeOK, HistIsCurrent
  <2> USE <1>0, <2>1, <2>2 DEF LoadIsCommitted, SnapIsCommitted
  <2>3. CASE StartDaemon
    BY <2>3 DEF StartDaemon, NotLoading
  <2>4. CASE CrashDaemon
    BY <2>4 DEF CrashDaemon, NotLoading, NoSnapshot
  <2>5. CASE PollTick
    BY <2>5 DEF PollTick, LoadState
  <2>6. CASE PollFails
    BY <2>6 DEF PollFails
  <2>7. CASE LoadRevision
    BY <2>7 DEF LoadRevision, LoadState
  <2>8. CASE LoadGrants
    BY <2>8 DEF LoadGrants, LoadState
  <2>9. CASE LoadFails
    BY <2>9, FailClosedDenies DEF LoadFails, NotLoading
  <2>10. CASE LoadSwap
    BY <2>10 DEF LoadSwap, NotLoading
  <2> QED
    BY <2>3, <2>4, <2>5, <2>6, <2>7, <2>8, <2>9, <2>10 DEF DaemonStep
<1> QED
  BY <1>1, <1>2, <1>3 DEF IInv

-----------------------------------------------------------------------------
LEMMA NextKeepsIInv == IInv /\ [Next]_vars => IInv'
<1> SUFFICES ASSUME IInv, [Next]_vars PROVE IInv'
  OBVIOUS
<1>1. ASSUME NEW g \in Grant, AddGrant(g)
      PROVE  IInv'
  <2>1. grants \cup {g} \in SUBSET Grant /\ grants' = grants \cup {g}
    BY <1>1 DEF IInv, TypeOK, AddGrant, CommitTable
  <2> QED
    BY <1>1, <2>1, GrantCommandKeepsIInv DEF AddGrant
<1>2. ASSUME NEW g \in Grant, RemoveGrant(g)
      PROVE  IInv'
  <2>1. grants \ {g} \in SUBSET Grant /\ grants' = grants \ {g}
    BY <1>2 DEF IInv, TypeOK, RemoveGrant, CommitTable
  <2> QED
    BY <1>2, <2>1, GrantCommandKeepsIInv DEF RemoveGrant
<1>3. ASSUME NEW q \in Apply, ApplyWrite(q)
      PROVE  IInv'
  BY <1>3, ApplyWriteKeepsIInv
<1>4. ASSUME NEW q \in Apply,
             \/ ApplyExpand(q) \/ ApplyList(q) \/ ApplyCompare(q)
             \/ ApplyReport(q) \/ ApplyAbort(q)
      PROVE  IInv'
  BY <1>4, ApplyKeepsIInv
<1>5. CASE DaemonStep
  BY <1>5, DaemonKeepsIInv
<1>6. CASE UNCHANGED vars
  BY <1>6 DEF IInv, TypeOK, HistIsCurrent, LoadIsCommitted, SnapIsCommitted,
      ApplyIsHonest, ApplyKnows, vars, store, gateway
<1> QED
  BY <1>1, <1>2, <1>3, <1>4, <1>5, <1>6 DEF Next, PermissionCommand

LEMMA InductiveInvariant == Spec => []IInv
BY InitIInv, NextKeepsIInv, PTL DEF Spec

\* Every variable keeps its type in every reachable state.
THEOREM TypeCorrect == Spec => []TypeOK
<1>1. IInv => TypeOK
  BY DEF IInv
<1> QED
  BY <1>1, InductiveInvariant, PTL

\* Equal revisions mean equal grants: the loop never skips a reload it needs.
THEOREM SnapshotNeverStuck == Spec => []NoStuckSnapshot
<1>1. IInv => NoStuckSnapshot
  <2> SUFFICES ASSUME IInv, snap.loaded, snap.revision = revision
               PROVE  snap.grants = grants
    BY DEF NoStuckSnapshot
  <2>1. floor = revision
    BY DEF IInv, SnapIsCommitted, LoadIsCommitted, TypeOK
  <2> QED
    BY <2>1 DEF IInv, SnapIsCommitted, HistIsCurrent
<1> QED
  BY <1>1, InductiveInvariant, PTL

\* grants-apply skips its write only if the table was the wanted one meanwhile,
\* and a daemon at the revision it reported serves its rows, or newer ones.
THEOREM ReportsHold == Spec => []ReportsAreTrue
<1>1. IInv => ReportsAreTrue
  <2> SUFFICES ASSUME IInv, NEW p \in Apply, apply[p].pc = "done"
               PROVE  /\ apply[p].committed = 0 => apply[p].held
                      /\ snap.loaded /\ snap.revision >= apply[p].reported
                            => floor >= apply[p].committed
    BY DEF ReportsAreTrue
  <2>1. apply[p].committed = 0 => apply[p].held
    BY DEF IInv, ApplyIsHonest, ApplyKnows
  <2>2. ASSUME snap.loaded, snap.revision >= apply[p].reported
        PROVE  floor >= apply[p].committed
    <3>1. /\ apply[p] \in ApplyState /\ snap \in SnapState
          /\ apply[p].committed <= apply[p].reported
          /\ snap.revision <= floor /\ floor \in Nat
      BY <2>2 DEF IInv, TypeOK, ApplyIsHonest, ApplyKnows, SnapIsCommitted
    <3> QED
      BY <2>2, <3>1 DEF ApplyState, SnapState
  <2> QED
    BY <2>1, <2>2
<1> QED
  BY <1>1, InductiveInvariant, PTL

-----------------------------------------------------------------------------
(* Refinement: every step of the processes is a step of GrantView          *)

LEMMA CommitIsViewCommit ==
    ASSUME IInv, NEW T \in SUBSET Grant, CommitTable(T), UNCHANGED gateway
    PROVE  View!Commit
<1>1. {g \in Grant : Allow(g)}' = {g \in Grant : Allow(g)}
  BY DEF Allow, gateway
<1> QED
  BY <1>1 DEF View!Commit, CommitTable, gateway

LEMMA SwapIsViewAdopt ==
    ASSUME IInv, LoadSwap
    PROVE  View!Adopt
<1>1. load.at \in floor .. revision /\ load.rows = hist[load.at]
  BY DEF IInv, LoadIsCommitted, LoadSwap, TypeOK
<1>2. hist[load.at] \in SUBSET Grant
  BY <1>1 DEF IInv, TypeOK, LoadIsCommitted
<1>3. {g \in Grant : Allow(g)}' = load.rows
  BY <1>1, <1>2 DEF Allow, LoadSwap
<1> QED
  BY <1>1, <1>3 DEF View!Adopt, LoadSwap, store

LEMMA NextIsViewNext == IInv /\ [Next]_vars => [View!ViewNext]_View!viewVars
<1> SUFFICES ASSUME IInv, [Next]_vars PROVE [View!ViewNext]_View!viewVars
  OBVIOUS
<1> USE DEF View!ViewNext, View!viewVars
<1>1. ASSUME NEW g \in Grant, AddGrant(g) \/ RemoveGrant(g)
      PROVE  View!Commit
  <2>1. grants \cup {g} \in SUBSET Grant /\ grants \ {g} \in SUBSET Grant
    BY DEF IInv, TypeOK
  <2> QED
    BY <1>1, <2>1, CommitIsViewCommit DEF AddGrant, RemoveGrant
<1>2. ASSUME NEW q \in Apply, ApplyWrite(q)
      PROVE  View!Commit
  <2>1. apply[q].want \in SUBSET Grant
    BY DEF IInv, TypeOK, ApplyState
  <2> QED
    BY <1>2, <2>1, CommitIsViewCommit DEF ApplyWrite
<1>3. ASSUME NEW q \in Apply,
             \/ ApplyExpand(q) \/ ApplyList(q) \/ ApplyCompare(q)
             \/ ApplyReport(q) \/ ApplyAbort(q)
      PROVE  UNCHANGED View!viewVars
  BY <1>3 DEF ApplyExpand, ApplyList, ApplyCompare, ApplyReport, ApplyAbort,
      store, gateway, Allow
<1>4. CASE LoadSwap
  BY <1>4, SwapIsViewAdopt
<1>5. ASSUME StartDaemon \/ PollTick \/ PollFails \/ LoadRevision \/ LoadGrants
      PROVE  UNCHANGED View!viewVars
  BY <1>5 DEF StartDaemon, PollTick, PollFails, LoadRevision, LoadGrants, store, Allow
<1>6. ASSUME CrashDaemon \/ LoadFails
      PROVE  View!DenyAll
  <2>1. ~ snap'.loaded
    BY <1>6, FailClosedDenies DEF CrashDaemon, LoadFails, NoSnapshot, IInv
  <2>2. {g \in Grant : Allow(g)}' = {}
    BY <2>1 DEF Allow
  <2> QED
    BY <1>6, <2>2 DEF View!DenyAll, CrashDaemon, LoadFails, store
<1>7. CASE UNCHANGED vars
  BY <1>7 DEF vars, store, gateway, Allow
<1> QED
  BY <1>1, <1>2, <1>3, <1>4, <1>5, <1>6, <1>7 DEF Next, PermissionCommand, DaemonStep

\* The daemon decides by whole committed versions, never an older one than
\* before, or denies everything.
THEOREM AuthzImplementsView == Spec => ImplementsView
<1>1. Init => View!ViewInit
  BY DEF Init, View!ViewInit, Allow, NoSnapshot
<1> QED
  BY <1>1, InductiveInvariant, NextIsViewNext, PTL DEF Spec, ImplementsView, View!ViewSpec
=============================================================================

-------------------------- MODULE Controller_proofs --------------------------
(***************************************************************************)
(* Theorems about Controller, for any number of environments and commits.  *)
(***************************************************************************)
EXTENDS Controller, FiniteSetTheorems, WellFoundedInduction, TLAPS

\* A kick is taken out of the channel only by a cycle that begins then; the
\* two versions are those of files that have been.
Inv ==
    /\ TypeOK
    /\ loop \in {"envs", "apply"} => left # {}
    /\ asked <= files.version /\ began <= files.version
    /\ KickPending

\* A finite set of numbers has a least one: of the sets of those that are less
\* than a given one, a smallest is empty.
LEMMA MinExists ==
    ASSUME NEW S \in SUBSET Nat, IsFiniteSet(S), S # {}
    PROVE  Min(S) \in S
<1> DEFINE Below(x) == {y \in S : y < x}
           T == {Below(x) : x \in S}
<1>1. IsWellFoundedOn(StrictSubsetOrdering(S), FiniteSubsetsOf(S))
  BY FS_StrictSubsetOrderingWellFounded
<1>2. FiniteSubsetsOf(S) = SUBSET S
  BY FS_FiniteSubsetsOfFinite
<1>3. T \subseteq SUBSET S /\ T # {}
  OBVIOUS
<1>4. PICK U \in T : \A V \in T : ~ (<<V, U>> \in StrictSubsetOrdering(S))
  <2>1. IsWellFoundedOn(StrictSubsetOrdering(S), SUBSET S)
    BY <1>1, <1>2
  <2> HIDE DEF T
  <2>2. QED
    BY <2>1, <1>3, WFMin, Zenon
<1>5. PICK x \in S : U = Below(x)
  BY <1>4
<1>6. ASSUME NEW y \in S, y < x
      PROVE  FALSE
  <2>1. x \in Nat /\ y \in Nat
    BY <1>6
  <2>2. y \in Below(x) /\ y \notin Below(y)
    BY <2>1, <1>6
  <2>3. ASSUME NEW z \in S, z < y
        PROVE  z < x
    <3>1. z \in Nat
      OBVIOUS
    <3>2. QED
      BY <3>1, <2>1, <2>3, <1>6
  <2>4. Below(y) \subseteq Below(x) /\ Below(y) # Below(x)
    BY <2>2, <2>3
  <2>5. <<Below(y), Below(x)>> \in StrictSubsetOrdering(S)
    BY <2>4 DEF StrictSubsetOrdering
  <2>6. QED
    BY <1>4, <1>5, <2>5
<1>7. \A y \in S : y >= x
  BY <1>6
<1>8. QED
  BY <1>7 DEF Min

\* The next environment is one of those that are left.
LEMMA NextLeft ==
    ASSUME Inv, loop \in {"envs", "apply"}
    PROVE  Min(left) \in left /\ Min(left) \in Envs
<1>1. left \subseteq Nat /\ left # {} /\ left \subseteq Envs
  BY EnvsAssumption DEF Inv, TypeOK
<1>2. Min(left) \in left
  <2>1. IsFiniteSet(left)
    BY <1>1, EnvsAssumption, FS_Subset
  <2>2. QED
    BY <1>1, <2>1, MinExists
<1>3. QED
  BY <1>1, <1>2

\* A step of a cycle leaves the channels, the files and the two versions
\* alone: only the cycle's own variables and the environments matter.
LEMMA CycleStep ==
    ASSUME Inv, UNCHANGED <<files, ticking, signals, asked, began>>,
           deployed' \in [Envs -> Version \cup {None}],
           loop' \in {"select", "load", "envs", "apply", "stopped"},
           left' \subseteq Envs, read' \in Version,
           loop' \in {"envs", "apply"} => left' # {}
    PROVE  Inv'
BY DEF Inv, TypeOK, KickPending, signals

\* What an apply leaves behind.
LEMMA ApplyStep ==
    ASSUME Inv, loop = "apply", EndCycle \/ Continue,
           NEW effect \in {read, deployed[Min(left)]},
           deployed' = [deployed EXCEPT ![Min(left)] = effect],
           UNCHANGED <<files, ticking, signals, asked, began>>
    PROVE  Inv'
<1>1. Min(left) \in left /\ Min(left) \in Envs
  BY NextLeft
<1>2. left # {Min(left)} => left \ {Min(left)} # {}
  BY <1>1
<1>3. /\ left \subseteq Envs /\ read \in Version
      /\ deployed \in [Envs -> Version \cup {None}]
  BY DEF Inv, TypeOK
<1>4. deployed' \in [Envs -> Version \cup {None}]
  BY <1>1, <1>3
<1>5. /\ loop' \in {"select", "envs"} /\ left' \subseteq Envs /\ read' = read
      /\ loop' = "envs" => left' # {}
  BY <1>2, <1>3 DEF EndCycle, Continue
<1>6. QED
  BY <1>3, <1>4, <1>5, CycleStep

\* A cycle that begins has seen all that was asked for.
LEMMA ReconcileStep ==
    ASSUME Inv, Reconcile, {tick', kick'} \subseteq BOOLEAN
    PROVE  Inv'
BY DEF Inv, TypeOK, Reconcile, KickPending, Version, Files

LEMMA CommitStep ==
    ASSUME Inv, Commit
    PROVE  Inv'
<1>1. PICK auto \in SUBSET Envs, changed \in SUBSET Envs, valid \in BOOLEAN :
        files' = [version |-> files.version + 1,
                  auto |-> auto,
                  desired |-> [e \in Envs |-> IF e \in changed THEN files.version + 1
                                              ELSE files.desired[e]],
                  valid |-> valid]
  BY DEF Commit
<1>2. files \in Files /\ files.version \in Nat /\ MaxVersion \in Nat
  BY VersionAssumption DEF Inv, TypeOK, Files, Version
<1>3. files.version + 1 \in Version
  BY <1>2 DEF Commit, Version
<1>4. [e \in Envs |-> IF e \in changed THEN files.version + 1 ELSE files.desired[e]]
        \in [Envs -> Version]
  BY <1>2, <1>3 DEF Files
<1>5. files' \in Files /\ files'.version = files.version + 1
  BY <1>1, <1>3, <1>4 DEF Files
<1>6. UNCHANGED <<deployed, ticking, tick, kick, cancelled, loop, left, read, asked, began>>
  BY DEF Commit, signals, cycle
<1>7. asked \in Nat /\ began \in Nat
  BY <1>2 DEF Inv, TypeOK, Version
<1>8. asked <= files'.version /\ began <= files'.version
  BY <1>2, <1>5, <1>7 DEF Inv
<1>9. QED
  BY <1>5, <1>6, <1>8 DEF Inv, TypeOK, KickPending

LEMMA InitInv == Init => Inv
<1> SUFFICES ASSUME Init PROVE Inv
  OBVIOUS
<1>1. PICK auto \in SUBSET Envs :
        files = [version |-> 0, auto |-> auto, desired |-> [e \in Envs |-> 0], valid |-> TRUE]
  BY DEF Init
<1>2. 0 \in Version
  BY VersionAssumption DEF Version
<1>3. files \in Files /\ files.version = 0
  BY <1>1, <1>2 DEF Files
<1>4. deployed \in [Envs -> Version \cup {None}]
  BY DEF Init
<1>5. TypeOK
  BY <1>2, <1>3, <1>4 DEF Init, TypeOK
<1>6. asked = 0 /\ began = 0 /\ loop = "start" /\ ~ (asked > began)
  BY DEF Init
<1>7. QED
  BY <1>3, <1>5, <1>6 DEF Inv, KickPending

LEMMA NextInv == Inv /\ [Next]_vars => Inv'
<1> SUFFICES ASSUME Inv, [Next]_vars PROVE Inv'
  OBVIOUS
<1>0. /\ TypeOK /\ files \in Files /\ left \subseteq Envs /\ read \in Version
      /\ deployed \in [Envs -> Version \cup {None}]
  BY DEF Inv, TypeOK
<1>1. CASE Startup \/ TakeTick \/ TakeKick
  <2>1. Reconcile /\ {tick', kick'} \subseteq BOOLEAN
    BY <1>0, <1>1 DEF Startup, TakeTick, TakeKick, TypeOK
  <2>2. QED
    BY <2>1, ReconcileStep
<1>2. CASE Stop
  BY <1>0, <1>2, CycleStep DEF Stop
<1>3. CASE \E ok \in BOOLEAN : Refresh(ok)
  <2>1. /\ UNCHANGED <<files, deployed, ticking, signals, read, asked, began>>
        /\ \/ loop' = "select" /\ left' = {}
           \/ loop' = "load" /\ left' = left
    BY <1>3 DEF Refresh, EndCycle
  <2>2. QED
    BY <1>0, <2>1, CycleStep
<1>4. CASE Load
  <2>1. /\ UNCHANGED <<files, deployed, ticking, signals, read, asked, began>>
        /\ \/ loop' = "envs" /\ left' = files.auto /\ files.auto # {}
           \/ loop' = "select" /\ left' = {}
    BY <1>4 DEF Load, EndCycle
  <2>2. files.auto \subseteq Envs
    BY <1>0 DEF Files
  <2>3. QED
    BY <1>0, <2>1, <2>2, CycleStep
<1>5. CASE StartApply
  <2>1. Min(left) \in Envs /\ left # {}
    BY <1>5, NextLeft DEF StartApply, Inv
  <2>2. files.desired[Min(left)] \in Version
    BY <1>0, <2>1 DEF Files
  <2>3. /\ UNCHANGED <<files, deployed, ticking, signals, asked, began>>
        /\ \/ loop' = "apply" /\ left' = left /\ read' = files.desired[Min(left)]
           \/ loop' = "select" /\ left' = {} /\ read' = read
    BY <1>5 DEF StartApply, EndCycle
  <2>4. QED
    BY <1>0, <2>1, <2>2, <2>3, CycleStep
<1>6. CASE ApplyOK \/ ApplyFail
  <2>1. /\ loop = "apply" /\ Continue
        /\ UNCHANGED <<files, ticking, signals, asked, began>>
    BY <1>6 DEF ApplyOK, ApplyFail
  <2>2. PICK effect \in {read, deployed[Min(left)]} :
          deployed' = [deployed EXCEPT ![Min(left)] = effect]
    BY <1>6 DEF ApplyOK, ApplyFail
  <2>3. QED
    BY <2>1, <2>2, ApplyStep
<1>7. CASE Commit
  BY <1>7, CommitStep
<1>8. CASE Trigger
  BY <1>0, <1>8 DEF Trigger, Inv, TypeOK, KickPending, cycle, Files, Version
<1>9. CASE Tick \/ Cancel
  BY <1>0, <1>9 DEF Tick, Cancel, Inv, TypeOK, KickPending, cycle
<1>10. CASE \E e \in Envs : Drift(e)
  <2>1. PICK e \in Envs : Drift(e)
    BY <1>10
  <2>2. deployed' \in [Envs -> Version \cup {None}]
    BY <1>0, <2>1 DEF Drift
  <2>3. UNCHANGED <<files, ticking, tick, kick, cancelled, loop, left, read, asked, began>>
    BY <2>1 DEF Drift, signals, cycle
  <2>4. QED
    BY <2>2, <2>3 DEF Inv, TypeOK, KickPending
<1>11. CASE UNCHANGED vars
  BY <1>11 DEF vars, Inv, TypeOK, KickPending
<1>12. QED
  BY <1>1, <1>2, <1>3, <1>4, <1>5, <1>6, <1>7, <1>8, <1>9, <1>10, <1>11
     DEF Next, LoopStep

LEMMA Invariance == Spec => []Inv
BY InitInv, NextInv, PTL DEF Spec

\* The variables of the loop keep their types.
THEOREM TypeCorrect == Spec => []TypeOK
BY Invariance, PTL DEF Inv

\* No request for a reconcile is lost, however triggers, ticks and cycles
\* interleave and whatever fails: it is in the channel until a cycle begins
\* that sees the files it was made for.
THEOREM NoRequestLost == Spec => []KickPending
BY Invariance, PTL DEF Inv
=============================================================================

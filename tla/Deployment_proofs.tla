-------------------------- MODULE Deployment_proofs --------------------------
(***************************************************************************)
(* Theorems about Deployment, for any number of services, images, settings *)
(* and callers.                                                            *)
(***************************************************************************)
EXTENDS Deployment, FiniteSetTheorems, WellFoundedInduction, TLAPS

ApplyStages == {"idle", "get", "unmanaged", "fetch", "send", "wait", "observe", "record"}
RollbackStages == {"idle", "traffic", "revisions", "planned", "fetch", "send", "record"}

\* What a call has in hand at each of its stages.
CallOK(c) ==
    /\ c \in Applies => /\ pc[c] \in ApplyStages
                        /\ pc[c] # "idle" => request[c] \in Request
    /\ c \in Rollbacks =>
          /\ pc[c] \in RollbackStages
          /\ pc[c] \in {"planned", "fetch", "send", "record"} =>
                \A s \in todo[c] : plan[c][s] # None
          /\ pc[c] \in {"fetch", "send", "record"} => plan[c][cur[c]] # None
    /\ pc[c] \in {"unmanaged", "fetch", "send", "wait", "observe", "record", "revisions"} =>
          cur[c] \in Services
    /\ pc[c] = "send" => snap[c] \in Service

\* A read is older than the service, or it is the service: an update whose
\* etag is accepted was built from what the service is.
SnapOK(c) ==
    pc[c] = "send" =>
        /\ snap[c].etag <= service[cur[c]].etag
        /\ snap[c].etag = service[cur[c]].etag => snap[c] = service[cur[c]]

\* Revisions stay ready, so the target of a plan of any age is ready.
PlanOK(c) ==
    c \in Rollbacks =>
        \A s \in Services : plan[c][s] # None => plan[c][s].to \in Ready(s)

\* A service that exists runs an image.
ExistsOK == \A s \in Services : Exists(s) => service[s].image \in Images

Inv ==
    /\ TypeOK
    /\ ExistsOK
    /\ TrafficServesReady
    /\ \A c \in Calls : CallOK(c) /\ SnapOK(c) /\ PlanOK(c)

-----------------------------------------------------------------------------
(* What a step does to Cloud Run *)

\* Services change under a new etag, and ready revisions stay ready.
CloudStep ==
    /\ service' \in [Services -> Service]
    /\ revisions' \in [Services -> Seq(Revision)]
    /\ ExistsOK'
    /\ \A s \in Services : Ready(s) \subseteq Ready(s)'
    /\ \A s \in Services :
          service'[s] = service[s] \/ service'[s].etag > service[s].etag

LEMMA NoCloudStep ==
    ASSUME TypeOK, ExistsOK, UNCHANGED cloud
    PROVE  CloudStep
BY DEF TypeOK, ExistsOK, Exists, CloudStep, cloud, Ready

\* A revision appended to a service's revisions leaves its ready ones ready.
LEMMA AppendReady ==
    ASSUME TypeOK, NEW s \in Services, NEW r \in Revision,
           revisions' = [revisions EXCEPT ![s] = Append(@, r)]
    PROVE  /\ revisions' \in [Services -> Seq(Revision)]
           /\ \A t \in Services : Ready(t) \subseteq Ready(t)'
<1>1. revisions \in [Services -> Seq(Revision)]
  BY DEF TypeOK
<1>2. revisions' \in [Services -> Seq(Revision)]
  BY <1>1
<1>3. ASSUME NEW t \in Services, NEW n \in Ready(t)
      PROVE  n \in Ready(t)'
  <2>1. CASE t = s
    <3>1. revisions'[t] = Append(revisions[t], r) /\ revisions[t] \in Seq(Revision)
      BY <2>1, <1>1
    <3>2. n \in 1 .. Len(revisions[t]) /\ revisions[t][n].state = "ready"
      BY <1>3 DEF Ready
    <3>3. n \in 1 .. Len(revisions'[t]) /\ revisions'[t][n] = revisions[t][n]
      BY <3>1, <3>2
    <3>4. QED
      BY <3>2, <3>3 DEF Ready
  <2>2. CASE t # s
    BY <2>2, <1>1, <1>3 DEF Ready
  <2>3. QED
    BY <2>1, <2>2
<1>4. QED
  BY <1>2, <1>3

\* What Cloud Run makes of an accepted configuration.
LEMMA WriteStep ==
    ASSUME TypeOK, ExistsOK, NEW s \in Services, NEW new \in Service,
           new.image \in Images, Write(s, new)
    PROVE  /\ CloudStep
           /\ service' = [service EXCEPT ![s] = [new EXCEPT !.etag = service[s].etag + 1]]
<1>1. service' = [service EXCEPT ![s] = [new EXCEPT !.etag = service[s].etag + 1]]
  BY DEF Write
<1>2. service \in [Services -> Service] /\ service[s].etag \in Nat
  BY DEF TypeOK, Service
<1>3. [new EXCEPT !.etag = service[s].etag + 1] \in Service
  BY <1>2 DEF Service
<1>4. service' \in [Services -> Service]
  BY <1>1, <1>2, <1>3
<1>5. ASSUME NEW t \in Services
      PROVE  service'[t] = service[t] \/ service'[t].etag > service[t].etag
  <2>1. CASE t = s
    <3>1. service'[t] = [new EXCEPT !.etag = service[s].etag + 1]
      BY <2>1, <1>1, <1>2
    <3>2. service'[t].etag = service[s].etag + 1
      BY <3>1 DEF Service
    <3>3. QED
      BY <3>2, <1>2, <2>1
  <2>2. CASE t # s
    BY <2>2, <1>1, <1>2
  <2>3. QED
    BY <2>1, <2>2
<1>6. /\ revisions' \in [Services -> Seq(Revision)]
      /\ \A t \in Services : Ready(t) \subseteq Ready(t)'
  <2>1. CASE revisions' = revisions
    BY <2>1 DEF TypeOK, Ready
  <2>2. CASE revisions' = [revisions EXCEPT ![s] =
                              Append(@, [image |-> new.image, state |-> "pending"])]
    <3>1. [image |-> new.image, state |-> "pending"] \in Revision
      BY DEF Revision
    <3>2. QED
      BY <2>2, <3>1, AppendReady
  <2>3. QED
    BY <2>1, <2>2 DEF Write
<1>7. ExistsOK'
  <2> SUFFICES ASSUME NEW t \in Services, revisions'[t] # <<>>
               PROVE  service'[t].image \in Images
    BY DEF ExistsOK, Exists
  <2>1. CASE t = s
    <3>1. service'[t] = [new EXCEPT !.etag = service[s].etag + 1]
      BY <2>1, <1>1, <1>2
    <3>2. QED
      BY <3>1 DEF Service
  <2>2. CASE t # s
    <3>1. service'[t] = service[t] /\ revisions'[t] = revisions[t]
      BY <2>2, <1>1, <1>2 DEF Write, TypeOK
    <3>2. QED
      BY <3>1 DEF ExistsOK, Exists
  <2>3. QED
    BY <2>1, <2>2
<1>8. QED
  BY <1>1, <1>4, <1>5, <1>6, <1>7 DEF CloudStep

\* Startup settles a pending revision and touches no other.
LEMMA StartUpStep ==
    ASSUME TypeOK, ExistsOK, NEW s \in Services, StartUp(s)
    PROVE  CloudStep
<1>1. PICK r \in 1 .. Len(revisions[s]), state \in {"ready", "failed"} :
        /\ revisions[s][r].state = "pending"
        /\ revisions' = [revisions EXCEPT ![s][r].state = state]
  BY DEF StartUp
<1>2. revisions \in [Services -> Seq(Revision)] /\ revisions[s] \in Seq(Revision)
  BY DEF TypeOK
<1>3. revisions[s][r] \in Revision
  BY <1>1, <1>2
<1> DEFINE new == [revisions[s][r] EXCEPT !.state = state]
<1>4. new \in Revision
  BY <1>1, <1>3 DEF Revision
<1>5. revisions' = [revisions EXCEPT ![s] = [@ EXCEPT ![r] = new]]
  BY <1>1
<1> HIDE DEF new
<1>6. [revisions[s] EXCEPT ![r] = new] \in Seq(Revision)
  BY <1>1, <1>2, <1>4
<1>7. revisions' \in [Services -> Seq(Revision)]
  BY <1>2, <1>5, <1>6
<1>8. ASSUME NEW t \in Services, NEW n \in Ready(t)
      PROVE  n \in Ready(t)'
  <2>1. CASE t = s
    <3>1. revisions'[t] = [revisions[s] EXCEPT ![r] = new]
      BY <2>1, <1>5, <1>2
    <3>2. n \in 1 .. Len(revisions[s]) /\ revisions[s][n].state = "ready"
      BY <1>8, <2>1 DEF Ready
    <3>3. n # r
      BY <3>2, <1>1
    <3>4. Len(revisions'[t]) = Len(revisions[s]) /\ revisions'[t][n] = revisions[s][n]
      BY <3>1, <3>2, <3>3, <1>2
    <3>5. QED
      BY <3>2, <3>4 DEF Ready
  <2>2. CASE t # s
    BY <2>2, <1>2, <1>5, <1>8 DEF Ready
  <2>3. QED
    BY <2>1, <2>2
<1>9. service' = service
  BY DEF StartUp
<1>10. ExistsOK'
  <2>1. revisions[s] # <<>>
    BY <1>1, <1>2
  <2>2. \A t \in Services : t # s => revisions'[t] = revisions[t]
    BY <1>2, <1>5
  <2>3. QED
    BY <1>9, <2>1, <2>2 DEF ExistsOK, Exists
<1>11. QED
  BY <1>7, <1>8, <1>9, <1>10 DEF CloudStep, TypeOK

-----------------------------------------------------------------------------
(* The invariant *)

\* The variables of the calls are well typed.
CallTypes ==
    /\ pc \in [Calls -> Stages]
    /\ request \in [Applies -> Request \cup {None}]
    /\ plan \in [Rollbacks -> [Services -> RollbackItem \cup {None}]]
    /\ todo \in [Calls -> SUBSET Services]
    /\ cur \in [Calls -> Services \cup {None}]
    /\ snap \in [Calls -> Service \cup {None}]
    /\ rev \in [Calls -> Nat]

\* A step of call c touches the variables of no other call.
OnlyCall(c) ==
    \A d \in Calls \ {c} :
        /\ pc'[d] = pc[d] /\ todo'[d] = todo[d] /\ cur'[d] = cur[d] /\ snap'[d] = snap[d]
        /\ d \in Applies => request'[d] = request[d]
        /\ d \in Rollbacks => plan'[d] = plan[d]

\* What the other calls have in hand survives any step.
LEMMA OtherCall ==
    ASSUME Inv, CloudStep, NEW d \in Calls,
           pc'[d] = pc[d], todo'[d] = todo[d], cur'[d] = cur[d], snap'[d] = snap[d],
           d \in Applies => request'[d] = request[d],
           d \in Rollbacks => plan'[d] = plan[d]
    PROVE  CallOK(d)' /\ SnapOK(d)' /\ PlanOK(d)'
<1>1. CallOK(d) /\ SnapOK(d) /\ PlanOK(d)
  BY DEF Inv
<1>2. CallOK(d)'
  BY <1>1 DEF CallOK
<1>3. SnapOK(d)'
  <2> SUFFICES ASSUME pc[d] = "send"
               PROVE  /\ snap[d].etag <= service'[cur[d]].etag
                      /\ snap[d].etag = service'[cur[d]].etag => snap[d] = service'[cur[d]]
    BY DEF SnapOK
  <2>1. cur[d] \in Services /\ snap[d] \in Service
    BY <1>1 DEF CallOK
  <2>2. /\ snap[d].etag \in Nat
        /\ service[cur[d]].etag \in Nat
        /\ service'[cur[d]].etag \in Nat
    BY <2>1 DEF CloudStep, Inv, TypeOK, Service
  <2>3. /\ snap[d].etag <= service[cur[d]].etag
        /\ snap[d].etag = service[cur[d]].etag => snap[d] = service[cur[d]]
    BY <1>1 DEF SnapOK
  <2>4. service'[cur[d]] = service[cur[d]] \/ service'[cur[d]].etag > service[cur[d]].etag
    BY <2>1 DEF CloudStep
  <2>5. QED
    BY <2>2, <2>3, <2>4
<1>4. PlanOK(d)'
  BY <1>1 DEF PlanOK, CloudStep
<1>5. QED
  BY <1>2, <1>3, <1>4

\* A step keeps the invariant when it keeps that of its own call.
LEMMA CallStep ==
    ASSUME Inv, CloudStep, NEW c \in Calls, OnlyCall(c), CallTypes',
           history' \subseteq Entry, TrafficServesReady',
           CallOK(c)', SnapOK(c)', PlanOK(c)'
    PROVE  Inv'
<1>1. TypeOK' /\ ExistsOK'
  BY DEF CloudStep, CallTypes, TypeOK
<1>2. ASSUME NEW d \in Calls
      PROVE  CallOK(d)' /\ SnapOK(d)' /\ PlanOK(d)'
  <2>1. CASE d = c
    BY <2>1
  <2>2. CASE d # c
    BY <2>2, OtherCall DEF OnlyCall
  <2>3. QED
    BY <2>1, <2>2
<1>3. QED
  BY <1>1, <1>2 DEF Inv

\* A step of the platform or of Terraform touches no call.
LEMMA PlatformStep ==
    ASSUME Inv, CloudStep, TrafficServesReady',
           UNCHANGED <<history, pc, request, plan, todo, cur, snap, rev>>
    PROVE  Inv'
<1>1. TypeOK' /\ ExistsOK'
  BY DEF CloudStep, Inv, TypeOK
<1>2. ASSUME NEW d \in Calls
      PROVE  CallOK(d)' /\ SnapOK(d)' /\ PlanOK(d)'
  BY OtherCall
<1>3. QED
  BY <1>1, <1>2 DEF Inv

\* While the services stay as they are, what the traffic is pinned to stays
\* ready.
LEMMA SameTraffic ==
    ASSUME Inv, CloudStep, \A s \in Services : service'[s].traffic = service[s].traffic
    PROVE  TrafficServesReady'
BY DEF Inv, TrafficServesReady, CloudStep

\* A call that returns has nothing in hand.
LEMMA ReturnStep ==
    ASSUME Inv, NEW c \in Calls, Return(c), UNCHANGED cloud, history' \subseteq Entry
    PROVE  Inv'
<1>1. CloudStep
  BY NoCloudStep DEF Inv
<1>2. TrafficServesReady'
  BY <1>1, SameTraffic DEF cloud
<1>3. CallTypes'
  BY DEF Return, Goto, CallTypes, Inv, TypeOK, NoPlan, Stages, Calls
<1>4. OnlyCall(c)
  BY DEF Return, Goto, OnlyCall, Inv, TypeOK, Calls
<1>5. pc'[c] = "idle"
  BY DEF Return, Goto, Inv, TypeOK
<1>6. CallOK(c)' /\ SnapOK(c)'
  BY <1>5 DEF CallOK, SnapOK, ApplyStages, RollbackStages
<1>7. PlanOK(c)'
  BY DEF Return, PlanOK, NoPlan
<1>8. QED
  BY <1>1, <1>2, <1>3, <1>4, <1>6, <1>7, CallStep

\* The next service of a loop.
LEMMA NextServiceStep ==
    ASSUME Inv, NEW c \in Calls, NEW stage \in Stages, NextService(c, stage),
           UNCHANGED cloud, history' \subseteq Entry,
           c \in Applies => pc[c] \in ApplyStages \ {"idle"} /\ stage = "get",
           c \in Rollbacks => pc[c] = "record" /\ stage = "planned"
    PROVE  Inv'
<1>1. CloudStep
  BY NoCloudStep DEF Inv
<1>2. TrafficServesReady'
  BY <1>1, SameTraffic DEF cloud
<1>3. CallTypes'
  BY DEF NextService, Goto, CallTypes, Inv, TypeOK
<1>4. OnlyCall(c)
  BY DEF NextService, Goto, OnlyCall, Inv, TypeOK
<1>5. CallOK(c)
  BY DEF Inv
<1>6. CallOK(c)'
  BY <1>5, CallAssumption DEF NextService, Goto, CallOK, Inv, TypeOK, ApplyStages, RollbackStages, Calls
<1>7. SnapOK(c)'
  BY CallAssumption DEF NextService, Goto, SnapOK, Inv, TypeOK, Calls
<1>8. PlanOK(c)'
  <2>1. PlanOK(c) /\ plan' = plan
    BY DEF Inv, NextService
  <2>2. QED
    BY <1>1, <2>1 DEF PlanOK, CloudStep
<1>9. QED
  BY <1>1, <1>2, <1>3, <1>4, <1>6, <1>7, <1>8, CallStep

-----------------------------------------------------------------------------
(* The steps of an apply *)

\* A set of numbers up to n has a greatest one: among the sets of those that
\* are greater than a given one, a smallest is empty.
LEMMA MaxExists ==
    ASSUME NEW n \in Nat, NEW S \in SUBSET (1 .. n), S # {}
    PROVE  Max(S) \in S /\ \A y \in S : Max(S) >= y
<1> DEFINE Above(x) == {y \in S : y > x}
           T == {Above(x) : x \in S}
<1>1. IsFiniteSet(S) /\ S \subseteq Nat
  <2>1. IsFiniteSet(1 .. n)
    BY 1 \in Int, n \in Int, FS_Interval
  <2>2. IsFiniteSet(S)
    BY <2>1, FS_Subset
  <2>3. QED
    BY <2>2
<1>2. IsWellFoundedOn(StrictSubsetOrdering(S), FiniteSubsetsOf(S))
  BY FS_StrictSubsetOrderingWellFounded
<1>3. FiniteSubsetsOf(S) = SUBSET S
  BY <1>1, FS_FiniteSubsetsOfFinite
<1>4. T \subseteq SUBSET S /\ T # {}
  OBVIOUS
<1>5. PICK U \in T : \A V \in T : ~ (<<V, U>> \in StrictSubsetOrdering(S))
  <2> HIDE DEF T
  <2> QED
    BY <1>2, <1>3, <1>4, WFMin
<1>6. PICK x \in S : U = Above(x)
  BY <1>5
<1>7. ASSUME NEW y \in S, y > x
      PROVE  FALSE
  <2>1. Above(y) \in T
    BY <1>7
  <2>2. Above(y) \subseteq Above(x) /\ Above(y) # Above(x)
    <3>1. x \in Nat /\ y \in Nat /\ S \subseteq Nat
      BY <1>1, <1>6, <1>7
    <3>2. y \in Above(x) /\ y \notin Above(y)
      BY <3>1, <1>7
    <3>3. ASSUME NEW z \in S, z > y
          PROVE  z > x
      <4>1. z \in Nat
        BY <3>1
      <4>2. QED
        BY <3>1, <3>3, <4>1, <1>7
    <3>4. QED
      BY <3>2, <3>3
  <2>3. <<Above(y), Above(x)>> \in StrictSubsetOrdering(S)
    BY <2>2 DEF StrictSubsetOrdering
  <2>4. QED
    BY <1>5, <1>6, <2>1, <2>3
<1>8. \A y \in S : x >= y
  BY <1>1, <1>7
<1>9. QED
  BY <1>8 DEF Max

\* The serving revision has a number: 0 for none.
LEMMA ServingType ==
    ASSUME TypeOK, NEW s \in Services
    PROVE  Serving(s) \in Nat
<1>1. service[s].traffic \in Nat /\ revisions[s] \in Seq(Revision)
  BY DEF TypeOK, Service
<1>2. Ready(s) \in SUBSET (1 .. Len(revisions[s])) /\ Len(revisions[s]) \in Nat
  BY <1>1 DEF Ready
<1>3. ASSUME Ready(s) # {}
      PROVE  Max(Ready(s)) \in Nat
  <2>1. Max(Ready(s)) \in Ready(s)
    BY <1>2, <1>3, MaxExists
  <2>2. QED
    BY <1>2, <2>1
<1>4. LatestReady(s) \in Nat
  BY <1>3 DEF LatestReady
<1>5. QED
  BY <1>1, <1>4 DEF Serving

\* A stage of a call that writes nothing to Cloud Run leaves every service as
\* it is.
LEMMA QuietStep ==
    ASSUME Inv, NEW c \in Calls, UNCHANGED cloud, history' \subseteq Entry,
           OnlyCall(c), CallTypes', CallOK(c)', SnapOK(c)', PlanOK(c)'
    PROVE  Inv'
<1>1. CloudStep
  BY NoCloudStep DEF Inv
<1>2. TrafficServesReady'
  BY <1>1, SameTraffic DEF cloud
<1>3. QED
  BY <1>1, <1>2, CallStep

\* The steps of an apply keep the invariant.
LEMMA ApplyStep ==
    ASSUME Inv, NEW c \in Applies, ApplyNext(c)
    PROVE  Inv'
<1> USE CallAssumption
<1>0. c \in Calls /\ c \notin Rollbacks /\ CallOK(c) /\ SnapOK(c) /\ TypeOK /\ ExistsOK
  BY DEF Inv, Calls
<1>1. CASE BeginApply(c)
  <2>1. PICK images \in [Services -> Images], force \in BOOLEAN :
          request' = [request EXCEPT ![c] = [images |-> images, force |-> force]]
    BY <1>1 DEF BeginApply
  <2>2. [images |-> images, force |-> force] \in Request
    BY DEF Request
  <2>3. PICK chosen \in SUBSET Services : todo' = [todo EXCEPT ![c] = chosen]
    BY <1>1 DEF BeginApply, Selections
  <2>4. pc' = [pc EXCEPT ![c] = "get"] /\ UNCHANGED <<cloud, history, plan, cur, snap, rev>>
    BY <1>1 DEF BeginApply, Goto
  <2>5. CallTypes'
    BY <1>0, <2>1, <2>2, <2>3, <2>4 DEF CallTypes, TypeOK, Stages
  <2>6. OnlyCall(c)
    BY <1>0, <2>1, <2>3, <2>4 DEF OnlyCall, TypeOK
  <2>7. CallOK(c)' /\ SnapOK(c)' /\ PlanOK(c)'
    BY <1>0, <2>1, <2>2, <2>4 DEF CallOK, SnapOK, PlanOK, TypeOK, ApplyStages
  <2>8. QED
    BY <1>0, <2>4, <2>5, <2>6, <2>7, QuietStep DEF TypeOK
<1>2. CASE GetActual(c)
  <2>1. UNCHANGED <<cloud, history>>
    BY <1>2 DEF GetActual
  <2>2. CASE Return(c)
    BY <1>0, <2>1, <2>2, ReturnStep DEF TypeOK
  <2>3. CASE ~ Return(c)
    <3>1. PICK s \in todo[c], stage \in {"fetch", "unmanaged"} :
            /\ cur' = [cur EXCEPT ![c] = s]
            /\ pc' = [pc EXCEPT ![c] = stage]
            /\ UNCHANGED <<request, plan, todo, snap, rev>>
      BY <1>2, <2>3 DEF GetActual, Goto
    <3>2. s \in Services /\ pc[c] = "get"
      BY <1>0, <1>2 DEF TypeOK, GetActual
    <3>3. CallTypes'
      BY <1>0, <3>1, <3>2 DEF CallTypes, TypeOK, Stages
    <3>4. OnlyCall(c)
      BY <1>0, <3>1 DEF OnlyCall, TypeOK
    <3>5. CallOK(c)' /\ SnapOK(c)' /\ PlanOK(c)'
      BY <1>0, <3>1, <3>2 DEF CallOK, SnapOK, PlanOK, TypeOK, ApplyStages
    <3>6. QED
      BY <1>0, <2>1, <3>3, <3>4, <3>5, QuietStep DEF TypeOK
  <2>4. QED
    BY <2>2, <2>3
<1>3. CASE CheckUnmanaged(c)
  <2>1. UNCHANGED <<cloud, history>> /\ pc[c] = "unmanaged"
    BY <1>3 DEF CheckUnmanaged
  <2>2. CASE Return(c)
    BY <1>0, <2>1, <2>2, ReturnStep DEF TypeOK
  <2>3. CASE ~ Return(c)
    <3>1. /\ pc' = [pc EXCEPT ![c] = "fetch"]
          /\ UNCHANGED <<request, plan, todo, cur, snap, rev>>
      BY <1>3, <2>3 DEF CheckUnmanaged, Goto
    <3>2. CallTypes' /\ OnlyCall(c)
      BY <1>0, <3>1 DEF CallTypes, TypeOK, Stages, OnlyCall
    <3>3. CallOK(c)' /\ SnapOK(c)' /\ PlanOK(c)'
      BY <1>0, <2>1, <3>1 DEF CallOK, SnapOK, PlanOK, TypeOK, ApplyStages
    <3>4. QED
      BY <1>0, <2>1, <3>2, <3>3, QuietStep DEF TypeOK
  <2>4. QED
    BY <2>2, <2>3
<1>4. CASE SendImage(c) \/ SendManifest(c)
  <2> DEFINE s == cur[c]
             i == request[c].images[cur[c]]
  <2>1. pc[c] = "send" /\ s \in Services /\ i \in Images /\ snap[c] \in Service
    BY <1>0, <1>4 DEF SendImage, SendManifest, CallOK, Request
  <2>2. service[s] \in Service
    BY <1>0, <2>1 DEF TypeOK
  <2>3. PICK new \in Service :
          /\ new.image \in Images
          /\ new.traffic \in {0, service[s].traffic}
          /\ Write(s, new)
    <3>1. CASE SendImage(c)
      <4> DEFINE b == TakeContainers(s, BuildImageOnlyUpdate(snap[c], i))
      <4>1. b \in Service /\ b.image = i /\ b.traffic = service[s].traffic
        BY <2>1, <2>2 DEF TakeContainers, BuildImageOnlyUpdate, Service
      <4>2. Write(s, b)
        BY <3>1 DEF SendImage
      <4>3. QED
        BY <4>1, <4>2, <2>1
    <3>2. CASE SendManifest(c)
      <4> DEFINE b == BuildService(s, i)
      <4>1. b \in Service /\ b.image = i /\ b.traffic = 0
        BY <2>1 DEF BuildService, Service
      <4>2. Write(s, b)
        BY <3>2 DEF SendManifest
      <4>3. QED
        BY <4>1, <4>2, <2>1
    <3>3. QED
      BY <1>4, <3>1, <3>2
  <2>4. /\ CloudStep
        /\ service' = [service EXCEPT ![s] = [new EXCEPT !.etag = service[s].etag + 1]]
    BY <1>0, <2>1, <2>3, WriteStep
  <2>5. /\ pc' = [pc EXCEPT ![c] = "wait"]
        /\ rev' = [rev EXCEPT ![c] = Len(revisions'[s])]
        /\ UNCHANGED <<history, request, plan, todo, cur, snap>>
    BY <1>4 DEF SendImage, SendManifest, Goto
  <2> HIDE DEF s, i
  <2>6. Len(revisions'[s]) \in Nat
    BY <2>1, <2>4 DEF CloudStep
  <2>7. TrafficServesReady'
    <3> SUFFICES ASSUME NEW t \in Services, service'[t].traffic # 0
                 PROVE  service'[t].traffic \in Ready(t)'
      BY DEF TrafficServesReady
    <3>1. service'[t].traffic = service[t].traffic
      <4>1. CASE t = s
        <5>1. service'[t] = [new EXCEPT !.etag = service[s].etag + 1]
          BY <1>0, <2>4, <4>1 DEF TypeOK
        <5>2. service'[t].traffic = new.traffic
          BY <5>1 DEF Service
        <5>3. QED
          BY <2>3, <4>1, <5>2
      <4>2. CASE t # s
        BY <1>0, <2>4, <4>2 DEF TypeOK
      <4>3. QED
        BY <4>1, <4>2
    <3>2. QED
      BY <2>4, <3>1 DEF Inv, TrafficServesReady, CloudStep
  <2>8. CallTypes' /\ OnlyCall(c)
    BY <1>0, <2>5, <2>6 DEF CallTypes, TypeOK, Stages, OnlyCall
  <2>9. CallOK(c)' /\ SnapOK(c)' /\ PlanOK(c)'
    BY <1>0, <2>1, <2>5 DEF CallOK, SnapOK, PlanOK, TypeOK, ApplyStages, s
  <2>10. QED
    BY <1>0, <2>4, <2>5, <2>7, <2>8, <2>9, CallStep DEF TypeOK
<1>5. CASE Wait(c)
  <2>1. UNCHANGED <<cloud, history>> /\ pc[c] = "wait"
    BY <1>5 DEF Wait
  <2>2. CASE Return(c)
    BY <1>0, <2>1, <2>2, ReturnStep DEF TypeOK
  <2>3. CASE ~ Return(c)
    <3>1. /\ pc' = [pc EXCEPT ![c] = "observe"]
          /\ UNCHANGED <<request, plan, todo, cur, snap, rev>>
      BY <1>5, <2>3 DEF Wait, Goto
    <3>2. CallTypes' /\ OnlyCall(c)
      BY <1>0, <3>1 DEF CallTypes, TypeOK, Stages, OnlyCall
    <3>3. CallOK(c)' /\ SnapOK(c)' /\ PlanOK(c)'
      BY <1>0, <2>1, <3>1 DEF CallOK, SnapOK, PlanOK, TypeOK, ApplyStages
    <3>4. QED
      BY <1>0, <2>1, <3>2, <3>3, QuietStep DEF TypeOK
  <2>4. QED
    BY <2>2, <2>3
<1>6. CASE Observe(c)
  <2>1. /\ pc[c] = "observe" /\ pc' = [pc EXCEPT ![c] = "record"]
        /\ rev' = [rev EXCEPT ![c] = Serving(cur[c])]
        /\ UNCHANGED <<cloud, history, request, plan, todo, cur, snap>>
    BY <1>6 DEF Observe, Goto
  <2>2. cur[c] \in Services
    BY <1>0, <2>1 DEF CallOK
  <2>3. Serving(cur[c]) \in Nat
    BY <1>0, <2>2, ServingType
  <2>4. CallTypes' /\ OnlyCall(c)
    BY <1>0, <2>1, <2>3 DEF CallTypes, TypeOK, Stages, OnlyCall
  <2>5. CallOK(c)' /\ SnapOK(c)' /\ PlanOK(c)'
    BY <1>0, <2>1 DEF CallOK, SnapOK, PlanOK, TypeOK, ApplyStages
  <2>6. QED
    BY <1>0, <2>1, <2>4, <2>5, QuietStep DEF TypeOK
<1>7. CASE RecordApply(c)
  <2>1. pc[c] = "record" /\ UNCHANGED cloud
    BY <1>7 DEF RecordApply
  <2>2. cur[c] \in Services /\ request[c] \in Request /\ rev[c] \in Nat
    BY <1>0, <2>1 DEF CallOK, TypeOK
  <2>3. [action |-> "apply", service |-> cur[c],
         image |-> request[c].images[cur[c]], revision |-> rev[c]] \in Entry
    BY <2>2 DEF Entry, Request
  <2>4. history' \subseteq Entry
    BY <1>0, <1>7, <2>3 DEF RecordApply, TypeOK
  <2>5. Return(c) \/ NextService(c, "get")
    BY <1>7 DEF RecordApply
  <2>6. CASE Return(c)
    BY <1>0, <2>1, <2>4, <2>6, ReturnStep
  <2>7. CASE NextService(c, "get")
    BY <1>0, <2>1, <2>4, <2>7, NextServiceStep DEF Stages, ApplyStages
  <2>8. QED
    BY <2>5, <2>6, <2>7
<1>8. QED
  BY <1>1, <1>2, <1>3, <1>4, <1>5, <1>6, <1>7 DEF ApplyNext

-----------------------------------------------------------------------------
(* The steps of a rollback *)

\* Every target there is to choose from is ready.
LEMMA RollbackTargetReady ==
    ASSUME TypeOK, NEW s \in Services, NEW current \in Nat,
           NEW item \in RollbackTarget(s, current)
    PROVE  item \in RollbackItem /\ item.to \in Ready(s)
<1>1. Ready(s) \subseteq Nat
  BY DEF Ready, TypeOK
<1>2. item.from = current /\ item.to \in Ready(s) /\ item.explicit \in BOOLEAN
      /\ item = [from |-> item.from, to |-> item.to, explicit |-> item.explicit]
  BY DEF RollbackTarget
<1>3. QED
  BY <1>1, <1>2 DEF RollbackItem

\* The steps of a rollback keep the invariant.
LEMMA RollbackStep ==
    ASSUME Inv, NEW c \in Rollbacks, RollbackNext(c)
    PROVE  Inv'
<1> USE CallAssumption
<1>0. /\ c \in Calls /\ c \notin Applies /\ CallOK(c) /\ SnapOK(c) /\ PlanOK(c)
      /\ TypeOK /\ ExistsOK /\ history \subseteq Entry
  BY DEF Inv, Calls, TypeOK
<1>1. CASE BeginRollback(c)
  <2>1. PICK chosen \in SUBSET Services : todo' = [todo EXCEPT ![c] = chosen]
    BY <1>1 DEF BeginRollback, Selections
  <2>2. pc' = [pc EXCEPT ![c] = "traffic"]
        /\ UNCHANGED <<cloud, history, request, plan, cur, snap, rev>>
    BY <1>1 DEF BeginRollback, Goto
  <2>3. CallTypes' /\ OnlyCall(c)
    BY <1>0, <2>1, <2>2 DEF CallTypes, TypeOK, Stages, OnlyCall
  <2>4. CallOK(c)' /\ SnapOK(c)'
    BY <1>0, <2>1, <2>2 DEF CallOK, SnapOK, TypeOK, RollbackStages
  <2>5. PlanOK(c)'
    BY <1>0, <2>2 DEF PlanOK, Ready, cloud
  <2>6. QED
    BY <1>0, <2>2, <2>3, <2>4, <2>5, QuietStep
<1>2. CASE ListTraffic(c)
  <2>1. PICK s \in todo[c] :
          /\ cur' = [cur EXCEPT ![c] = s]
          /\ rev' = [rev EXCEPT ![c] = Serving(s)]
    BY <1>2 DEF ListTraffic
  <2>2. pc' = [pc EXCEPT ![c] = "revisions"]
        /\ UNCHANGED <<cloud, history, request, plan, todo, snap>>
    BY <1>2 DEF ListTraffic, Goto
  <2>3. s \in Services
    BY <1>0 DEF TypeOK
  <2>4. Serving(s) \in Nat
    BY <1>0, <2>3, ServingType
  <2>5. CallTypes' /\ OnlyCall(c)
    BY <1>0, <2>1, <2>2, <2>3, <2>4 DEF CallTypes, TypeOK, Stages, OnlyCall
  <2>6. CallOK(c)' /\ SnapOK(c)'
    BY <1>0, <2>1, <2>2, <2>3 DEF CallOK, SnapOK, TypeOK, RollbackStages
  <2>7. PlanOK(c)'
    BY <1>0, <2>2 DEF PlanOK, Ready, cloud
  <2>8. QED
    BY <1>0, <2>2, <2>5, <2>6, <2>7, QuietStep
<1>3. CASE ListRevisions(c)
  <2> DEFINE s == cur[c]
  <2>1. pc[c] = "revisions" /\ s \in Services /\ rev[c] \in Nat
    BY <1>0, <1>3 DEF ListRevisions, CallOK, TypeOK
  <2>2. PICK item \in RollbackTarget(s, rev[c]) : plan' = [plan EXCEPT ![c][s] = item]
    BY <1>3 DEF ListRevisions
  <2>3. item \in RollbackItem /\ item.to \in Ready(s)
    BY <1>0, <2>1, RollbackTargetReady
  <2> HIDE DEF s
  <2>5. PICK stage \in {"planned", "traffic"} :
          /\ pc' = [pc EXCEPT ![c] = stage]
          /\ stage = "planned" => todo[c] = {s}
    BY <1>3 DEF ListRevisions, Goto, s
  <2>6. /\ todo' = [todo EXCEPT ![c] = @ \ {s}]
        /\ cur' = [cur EXCEPT ![c] = None]
        /\ rev' = [rev EXCEPT ![c] = 0]
        /\ UNCHANGED <<cloud, history, request, snap>>
    BY <1>3 DEF ListRevisions, s
  <2>7. CallTypes' /\ OnlyCall(c)
    BY <1>0, <2>1, <2>2, <2>3, <2>5, <2>6 DEF CallTypes, TypeOK, Stages, OnlyCall
  <2>8. CallOK(c)' /\ SnapOK(c)'
    BY <1>0, <2>5, <2>6 DEF CallOK, SnapOK, TypeOK, RollbackStages
  <2>9. PlanOK(c)'
    <3>1. plan'[c] = [plan[c] EXCEPT ![s] = item] /\ plan[c] \in [Services -> RollbackItem \cup {None}]
      BY <1>0, <2>2 DEF TypeOK
    <3>2. ASSUME NEW t \in Services, plan'[c][t] # None
          PROVE  plan'[c][t].to \in Ready(t)
      BY <1>0, <2>3, <3>1, <3>2 DEF PlanOK
    <3>3. QED
      BY <2>6, <3>2 DEF PlanOK, Ready, cloud
  <2>10. QED
    BY <1>0, <2>6, <2>7, <2>8, <2>9, QuietStep
<1>4. CASE StartItem(c)
  <2> DEFINE left == IF todo[c] = {} THEN Planned(c) ELSE todo[c]
  <2>1. PICK s \in left :
          /\ cur' = [cur EXCEPT ![c] = s]
          /\ todo' = [todo EXCEPT ![c] = left]
    BY <1>4 DEF StartItem
  <2>2. /\ pc[c] = "planned" /\ pc' = [pc EXCEPT ![c] = "fetch"]
        /\ UNCHANGED <<cloud, history, request, plan, snap, rev>>
    BY <1>4 DEF StartItem, Goto
  <2>3. left \subseteq Services /\ \A t \in left : plan[c][t] # None
    BY <1>0, <2>2 DEF Planned, CallOK, TypeOK
  <2> HIDE DEF left
  <2>4. CallTypes' /\ OnlyCall(c)
    BY <1>0, <2>1, <2>2, <2>3 DEF CallTypes, TypeOK, Stages, OnlyCall
  <2>5. CallOK(c)' /\ SnapOK(c)'
    BY <1>0, <2>1, <2>2, <2>3 DEF CallOK, SnapOK, TypeOK, RollbackStages
  <2>6. PlanOK(c)'
    BY <1>0, <2>2 DEF PlanOK, Ready, cloud
  <2>7. QED
    BY <1>0, <2>2, <2>4, <2>5, <2>6, QuietStep
<1>5. CASE SendTraffic(c)
  <2> DEFINE s == cur[c]
             r == plan[c][s].to
             new == TakeTraffic(s, BuildTrafficUpdate(snap[c], r))
  <2>1. pc[c] = "send" /\ s \in Services /\ plan[c][s] # None /\ snap[c] \in Service
    BY <1>0, <1>5 DEF SendTraffic, CallOK
  <2>2. r \in Ready(s) /\ service[s] \in Service
    BY <1>0, <2>1 DEF PlanOK, TypeOK
  <2>3. r \in Nat
    BY <1>0, <2>2 DEF Ready, TypeOK
  <2>4. Write(s, new)
    BY <1>5 DEF SendTraffic
  <2>5. new \in Service /\ new.traffic = r /\ new.image = service[s].image
        /\ new.settings = service[s].settings
    BY <2>1, <2>2, <2>3 DEF TakeTraffic, BuildTrafficUpdate, Service
  <2>6. Exists(s)
    BY <2>2 DEF Ready, Exists
  <2>7. /\ pc' = [pc EXCEPT ![c] = "record"]
        /\ UNCHANGED <<history, request, plan, todo, cur, snap, rev>>
    BY <1>5 DEF SendTraffic, Goto
  <2> HIDE DEF r, new
  <2>8. revisions' = revisions
        /\ service' = [service EXCEPT ![s] = [new EXCEPT !.etag = service[s].etag + 1]]
    BY <2>4, <2>5, <2>6 DEF Write
  <2> HIDE DEF s
  <2>9. service[s].etag \in Nat
    BY <2>2 DEF Service
  <2>10. [new EXCEPT !.etag = service[s].etag + 1] \in Service
         /\ [new EXCEPT !.etag = service[s].etag + 1].traffic = r
         /\ [new EXCEPT !.etag = service[s].etag + 1].etag > service[s].etag
    BY <2>5, <2>9 DEF Service
  <2>11. CloudStep
    <3>1. \A t \in Services : service'[t].image = service[t].image
      BY <1>0, <2>1, <2>5, <2>8, <2>9, <2>10 DEF TypeOK, Service
    <3>2. ExistsOK'
      BY <1>0, <2>8, <3>1 DEF ExistsOK, Exists
    <3>3. QED
      BY <1>0, <2>1, <2>8, <2>10, <3>2 DEF CloudStep, TypeOK, Ready
  <2>12. TrafficServesReady'
    BY <1>0, <2>1, <2>2, <2>8, <2>10 DEF Inv, TrafficServesReady, TypeOK, Ready
  <2>13. CallTypes' /\ OnlyCall(c)
    BY <1>0, <2>7 DEF CallTypes, TypeOK, Stages, OnlyCall
  <2>14. CallOK(c)' /\ SnapOK(c)'
    BY <1>0, <2>1, <2>7 DEF CallOK, SnapOK, TypeOK, RollbackStages, s
  <2>15. PlanOK(c)'
    BY <1>0, <2>7, <2>8 DEF PlanOK, Ready
  <2>16. QED
    BY <1>0, <2>7, <2>11, <2>12, <2>13, <2>14, <2>15, CallStep
<1>6. CASE RecordRollback(c)
  <2> DEFINE s == cur[c]
             r == plan[c][s].to
  <2>1. pc[c] = "record" /\ UNCHANGED cloud
    BY <1>6 DEF RecordRollback
  <2>2. s \in Services /\ plan[c][s] # None
    BY <1>0, <2>1 DEF CallOK
  <2>3. r \in Ready(s)
    BY <1>0, <2>2 DEF PlanOK
  <2>4. revisions[s] \in Seq(Revision) /\ r \in 1 .. Len(revisions[s])
    BY <1>0, <2>2, <2>3 DEF Ready, TypeOK
  <2> HIDE DEF r, s
  <2>5. r \in Nat /\ revisions[s][r].image \in Images
    <3>1. revisions[s][r] \in Revision /\ r \in Nat
      BY <2>4
    <3>2. QED
      BY <3>1 DEF Revision
  <2>6. [action |-> "rollback", service |-> s,
         image |-> revisions[s][r].image, revision |-> r] \in Entry
    BY <2>2, <2>5 DEF Entry
  <2>7. history' \subseteq Entry
    BY <1>0, <1>6, <2>6 DEF RecordRollback, r, s
  <2>8. Return(c) \/ NextService(c, "planned")
    BY <1>6 DEF RecordRollback
  <2>9. CASE Return(c)
    BY <1>0, <2>1, <2>7, <2>9, ReturnStep
  <2>10. CASE NextService(c, "planned")
    BY <1>0, <2>1, <2>7, <2>10, NextServiceStep DEF Stages
  <2>11. QED
    BY <2>8, <2>9, <2>10
<1>7. QED
  BY <1>1, <1>2, <1>3, <1>4, <1>5, <1>6 DEF RollbackNext

-----------------------------------------------------------------------------
(* The invariant holds *)

\* In the initial states no call has anything in hand.
LEMMA InitInv == Init => Inv
<1> SUFFICES ASSUME Init PROVE Inv
  OBVIOUS
<1> DEFINE first == [image |-> InitialImage, state |-> "ready"]
<1>1. first \in Revision
  BY ImageAssumption DEF Revision
<1>2. <<first>> \in Seq(Revision) /\ <<>> \in Seq(Revision)
  BY <1>1
<1> HIDE DEF first
<1>3. revisions \in [Services -> Seq(Revision)]
  BY <1>2 DEF Init, first
<1>4. service \in [Services -> Service] /\ \A s \in Services : service[s].traffic = 0
  BY ImageAssumption DEF Init, Service
<1>5. /\ history \subseteq Entry /\ pc = [c \in Calls |-> "idle"]
      /\ plan = [c \in Rollbacks |-> NoPlan]
      /\ CallTypes
  BY DEF Init, CallTypes, Stages, NoPlan
<1>6. TypeOK
  BY <1>3, <1>4, <1>5 DEF TypeOK, CallTypes
<1>7. TrafficServesReady
  BY <1>4 DEF TrafficServesReady
<1>8. ASSUME NEW c \in Calls
      PROVE  CallOK(c) /\ SnapOK(c) /\ PlanOK(c)
  BY <1>5 DEF CallOK, SnapOK, PlanOK, ApplyStages, RollbackStages, NoPlan
<1>9. ExistsOK
  BY ImageAssumption DEF Init, ExistsOK, Exists
<1>10. QED
  BY <1>6, <1>7, <1>8, <1>9 DEF Inv

\* Every read is of the service as it is at that moment.
LEMMA FetchStep ==
    ASSUME Inv, NEW c \in Calls, Fetch(c)
    PROVE  Inv'
<1>0. CallOK(c) /\ SnapOK(c) /\ PlanOK(c) /\ TypeOK /\ history \subseteq Entry
  BY DEF Inv, TypeOK
<1> DEFINE s == cur[c]
<1>1. /\ pc[c] = "fetch" /\ pc' = [pc EXCEPT ![c] = "send"]
      /\ snap' = [snap EXCEPT ![c] = service[s]]
      /\ UNCHANGED <<cloud, history, request, plan, todo, cur, rev>>
  BY DEF Fetch, Goto
<1>2. s \in Services
  BY <1>0, <1>1 DEF CallOK
<1>3. service[s] \in Service /\ service[s].etag \in Nat
  BY <1>0, <1>2 DEF TypeOK, Service
<1>4. CallTypes' /\ OnlyCall(c)
  BY <1>0, <1>1, <1>3 DEF CallTypes, TypeOK, Stages, OnlyCall
<1>5. CallOK(c)'
  BY <1>0, <1>1, <1>2, <1>3 DEF CallOK, TypeOK, ApplyStages, RollbackStages
<1>6. SnapOK(c)'
  BY <1>0, <1>1, <1>3 DEF SnapOK, TypeOK, cloud
<1>7. PlanOK(c)'
  BY <1>0, <1>1 DEF PlanOK, Ready, cloud
<1>8. QED
  BY <1>0, <1>1, <1>4, <1>5, <1>6, <1>7, QuietStep

\* The settings of a service change, its traffic does not.
LEMMA ConfigureStep ==
    ASSUME Inv, NEW s \in Services, Configure(s)
    PROVE  Inv'
<1>1. PICK own \in SUBSET Settings : Write(s, [service[s] EXCEPT !.settings = own])
  BY DEF Configure
<1> DEFINE new == [service[s] EXCEPT !.settings = own]
<1>2. service[s] \in Service /\ Exists(s)
  BY DEF Inv, TypeOK, Configure
<1>3. new \in Service /\ new.traffic = service[s].traffic
  BY <1>2 DEF Service
<1>4. new.image \in Images
  BY <1>2 DEF Inv, ExistsOK, Service
<1>5. /\ CloudStep
      /\ service' = [service EXCEPT ![s] = [new EXCEPT !.etag = service[s].etag + 1]]
  BY <1>1, <1>3, <1>4, WriteStep DEF Inv
<1> HIDE DEF new
<1>6. [new EXCEPT !.etag = service[s].etag + 1].traffic = new.traffic
  BY <1>3 DEF Service
<1>7. \A t \in Services : service'[t].traffic = service[t].traffic
  BY <1>3, <1>5, <1>6 DEF Inv, TypeOK
<1>8. TrafficServesReady'
  BY <1>5, <1>7, SameTraffic
<1>9. QED
  BY <1>5, <1>8, PlatformStep DEF Configure

\* Every step keeps the invariant.
LEMMA NextInv == Inv /\ [Next]_vars => Inv'
<1> SUFFICES ASSUME Inv, [Next]_vars PROVE Inv'
  OBVIOUS
<1>1. CASE \E c \in Applies : ApplyNext(c)
  BY <1>1, ApplyStep
<1>2. CASE \E c \in Rollbacks : RollbackNext(c)
  BY <1>2, RollbackStep
<1>3. CASE \E c \in Calls : Fetch(c)
  BY <1>3, FetchStep
<1>4. CASE \E c \in Calls : Abandon(c)
  <2>1. PICK c \in Calls : Return(c) /\ UNCHANGED <<cloud, history>>
    BY <1>4 DEF Abandon
  <2>2. QED
    BY <2>1, ReturnStep DEF Inv, TypeOK
<1>5. CASE \E s \in Services : StartUp(s)
  <2>1. PICK s \in Services : StartUp(s)
    BY <1>5
  <2>2. CloudStep
    BY <2>1, StartUpStep DEF Inv
  <2>3. TrafficServesReady'
    BY <2>1, <2>2, SameTraffic DEF StartUp
  <2>4. QED
    BY <2>1, <2>2, <2>3, PlatformStep DEF StartUp
<1>6. CASE \E s \in Services : Configure(s)
  BY <1>6, ConfigureStep
<1>7. CASE UNCHANGED vars
  <2>1. CloudStep
    BY <1>7, NoCloudStep DEF Inv, vars, cloud
  <2>2. TrafficServesReady'
    BY <1>7, <2>1, SameTraffic DEF vars
  <2>3. QED
    BY <1>7, <2>1, <2>2, PlatformStep DEF vars
<1>8. QED
  BY <1>1, <1>2, <1>3, <1>4, <1>5, <1>6, <1>7 DEF Next

\* The inductive invariant, of every reachable state.
THEOREM Invariance == Spec => []Inv
<1>1. Init => Inv
  BY InitInv
<1>2. Inv /\ [Next]_vars => Inv'
  BY NextInv
<1>3. QED
  BY <1>1, <1>2, PTL DEF Spec

\* Every variable of apply and rollback holds what its declaration says, with
\* any number of callers interleaved at every request to Cloud Run.
THEOREM TypeCorrect == Spec => []TypeOK
BY Invariance, PTL DEF Inv

\* Traffic is pinned only to revisions that are ready, however old the plan of
\* the rollback and whatever was deployed since.
THEOREM PinnedTraffic == Spec => []TrafficServesReady
BY Invariance, PTL DEF Inv

-----------------------------------------------------------------------------
(* What an update changes *)

\* What Cloud Run makes of the update of a service that exists, or of its
\* creation, on the fields and on the ready revisions.
LEMMA WriteFields ==
    ASSUME TypeOK, NEW s \in Services, NEW new \in Service, Write(s, new)
    PROVE  /\ service'[s].image = new.image
           /\ service'[s].settings = new.settings
           /\ service'[s].traffic = new.traffic
           /\ \A t \in Services \ {s} : service'[t] = service[t]
<1>1. service' = [service EXCEPT ![s] = [new EXCEPT !.etag = service[s].etag + 1]]
  BY DEF Write
<1>2. service'[s] = [new EXCEPT !.etag = service[s].etag + 1]
  BY <1>1 DEF TypeOK
<1>3. QED
  BY <1>1, <1>2 DEF TypeOK, Service

\* An accepted image-only update was built from the service it updates.
LEMMA SendImageFields ==
    ASSUME Inv, NEW c \in Applies, SendImage(c)
    PROVE  /\ cur[c] \in Services
           /\ request[c].images[cur[c]] \in Images
           /\ TakeContainers(cur[c], BuildImageOnlyUpdate(snap[c], request[c].images[cur[c]]))
                \in Service
           /\ service'[cur[c]].image = request[c].images[cur[c]]
           /\ service'[cur[c]].settings = service[cur[c]].settings
           /\ service'[cur[c]].traffic = service[cur[c]].traffic
           /\ \A t \in Services \ {cur[c]} : service'[t] = service[t]
<1>0. c \in Calls
  BY DEF Calls
<1>1. CallOK(c) /\ SnapOK(c) /\ TypeOK
  BY <1>0 DEF Inv
<1> DEFINE s == cur[c]
           i == request[c].images[s]
           new == TakeContainers(s, BuildImageOnlyUpdate(snap[c], i))
<1>2. pc[c] = "send" /\ Fresh(c) /\ Write(s, new)
  BY DEF SendImage
<1>3. s \in Services /\ i \in Images /\ service[s] \in Service
  BY <1>1, <1>2 DEF CallOK, Request, TypeOK
<1>4. snap[c] = service[s]
  BY <1>1, <1>2 DEF SnapOK, Fresh
<1>5. /\ new \in Service /\ new.image = i
      /\ new.settings = service[s].settings /\ new.traffic = service[s].traffic
  BY <1>3, <1>4 DEF TakeContainers, BuildImageOnlyUpdate, Service
<1> HIDE DEF new
<1>6. QED
  BY <1>1, <1>2, <1>3, <1>5, WriteFields DEF new

\* A traffic update is that of a service that exists.
LEMMA SendTrafficFields ==
    ASSUME Inv, NEW c \in Rollbacks, SendTraffic(c)
    PROVE  /\ cur[c] \in Services
           /\ plan[c][cur[c]].to \in Ready(cur[c])
           /\ service'[cur[c]].image = service[cur[c]].image
           /\ service'[cur[c]].settings = service[cur[c]].settings
           /\ service'[cur[c]].traffic = plan[c][cur[c]].to
           /\ \A t \in Services \ {cur[c]} : service'[t] = service[t]
           /\ revisions' = revisions
<1>0. c \in Calls
  BY DEF Calls
<1>1. CallOK(c) /\ PlanOK(c) /\ TypeOK
  BY <1>0 DEF Inv
<1> DEFINE s == cur[c]
           r == plan[c][s].to
           new == TakeTraffic(s, BuildTrafficUpdate(snap[c], r))
<1>2. pc[c] = "send" /\ Write(s, new)
  BY DEF SendTraffic
<1>3. s \in Services /\ plan[c][s] # None /\ snap[c] \in Service
  BY <1>1, <1>2 DEF CallOK
<1>4. r \in Ready(s) /\ service[s] \in Service
  BY <1>1, <1>3 DEF PlanOK, TypeOK
<1>5. r \in Nat /\ Exists(s)
  BY <1>4 DEF Ready, Exists
<1>6. /\ new \in Service /\ new.image = service[s].image
      /\ new.settings = service[s].settings /\ new.traffic = r
  BY <1>3, <1>4, <1>5 DEF TakeTraffic, BuildTrafficUpdate, Service
<1> HIDE DEF new
<1>7. revisions' = revisions
  BY <1>2, <1>5, <1>6 DEF Write
<1>8. QED
  BY <1>1, <1>2, <1>3, <1>4, <1>6, <1>7, WriteFields

\* A full update makes the service what the manifest says.
LEMMA SendManifestFields ==
    ASSUME Inv, NEW c \in Applies, SendManifest(c)
    PROVE  /\ cur[c] \in Services \ ImageOnly
           /\ request[c] \in Request
           /\ request[c].images[cur[c]] \in Images
           /\ BuildService(cur[c], request[c].images[cur[c]]) \in Service
           /\ service'[cur[c]].image = request[c].images[cur[c]]
           /\ service'[cur[c]].settings = {}
           /\ service'[cur[c]].traffic = 0
           /\ \A t \in Services \ {cur[c]} : service'[t] = service[t]
<1>0. c \in Calls
  BY DEF Calls
<1>1. CallOK(c) /\ TypeOK
  BY <1>0 DEF Inv
<1> DEFINE s == cur[c]
           i == request[c].images[s]
           new == BuildService(s, i)
<1>2. pc[c] = "send" /\ s \notin ImageOnly /\ Write(s, new)
  BY DEF SendManifest
<1>3. s \in Services /\ i \in Images /\ request[c] \in Request
  BY <1>1, <1>2 DEF CallOK, Request
<1>4. new \in Service /\ new.image = i /\ new.settings = {} /\ new.traffic = 0
  BY <1>3 DEF BuildService, Service
<1> HIDE DEF new
<1>5. QED
  BY <1>1, <1>2, <1>3, <1>4, WriteFields DEF new

\* No image-only apply changes a setting or the traffic of a service, whatever
\* Terraform, other applies and rollbacks do between its requests: an update
\* that Cloud Run accepts was built from the service as it is.
THEOREM NoLostUpdate == Spec => ImageOnlyKeepsRest
<1>1. ASSUME Inv, [Next]_vars, NEW c \in Applies, SendImage(c)
      PROVE  /\ service'[cur[c]].settings = service[cur[c]].settings
             /\ service'[cur[c]].traffic = service[cur[c]].traffic
  BY <1>1, SendImageFields
<1>2. Inv /\ [Next]_vars =>
        [\A c \in Applies : SendImage(c) =>
           /\ service'[cur[c]].settings = service[cur[c]].settings
           /\ service'[cur[c]].traffic = service[cur[c]].traffic]_vars
  BY <1>1
<1>3. QED
  BY <1>2, Invariance, PTL DEF Spec, ImageOnlyKeepsRest

-----------------------------------------------------------------------------
(* What a full apply takes away *)

\* What UnmanagedSettings finds is all there is to lose, and nobody adds to it
\* while calls run; or no service is in full mode.
Guarded ==
    \/ ~ OutsideAnytime /\ UnlistedSettings = {}
    \/ Services \subseteq ImageOnly

\* Between the check and the update of an unforced full apply there is nothing
\* to lose.
StripOK(c) ==
    /\ pc[c] # "idle" /\ request[c].force => MayForce
    /\ (/\ pc[c] \in {"fetch", "send"}
        /\ cur[c] \notin ImageOnly
        /\ ~ request[c].force) => service[cur[c]].settings = {}

StripInv == Inv /\ \A c \in Applies : StripOK(c)

\* Calls take settings away from a service in full mode, and add none.
OnlyLess ==
    \A s \in Services \ ImageOnly :
        service'[s].settings = service[s].settings \/ service'[s].settings = {}

\* A call that is not the acting one keeps what it knows.
LEMMA OtherStrip ==
    ASSUME StripInv, OnlyLess, NEW d \in Applies,
           pc'[d] = pc[d], cur'[d] = cur[d], request'[d] = request[d]
    PROVE  StripOK(d)'
<1>1. StripOK(d) /\ CallOK(d) /\ d \in Calls
  BY DEF StripInv, Inv, Calls
<1>2. QED
  BY <1>1 DEF StripOK, CallOK, OnlyLess

\* A call that returns or goes on to its next service knows nothing.
LEMMA FreshStrip ==
    ASSUME StripInv, NEW c \in Calls, NEW a \in Applies, service' = service,
           pc[c] # "idle",
           Return(c) \/ NextService(c, "get") \/ NextService(c, "planned")
    PROVE  StripOK(a)'
<1>1. OnlyLess /\ StripOK(a) /\ a \in Calls /\ TypeOK
  BY DEF OnlyLess, StripInv, Inv, Calls
<1>2. CASE a # c
  BY <1>1, <1>2, OtherStrip DEF Return, NextService, Goto, Inv, TypeOK
<1>3. CASE a = c /\ Return(c)
  BY <1>1, <1>3 DEF StripOK, Return, Goto, TypeOK
<1>4. CASE a = c /\ ~ Return(c)
  <2>1. pc'[c] \in {"get", "planned"} /\ request' = request
    BY <1>1, <1>4 DEF NextService, Goto, TypeOK
  <2>2. QED
    BY <1>1, <1>4, <2>1 DEF StripOK
<1>5. QED
  BY <1>2, <1>3, <1>4

\* The steps of applies.
LEMMA ApplyStrip ==
    ASSUME Guarded, StripInv, NEW c \in Applies, ApplyNext(c), NEW a \in Applies
    PROVE  StripOK(a)'
<1>0. /\ c \in Calls /\ a \in Calls /\ TypeOK /\ Inv
      /\ StripOK(a) /\ StripOK(c) /\ CallOK(a) /\ CallOK(c)
  BY DEF StripInv, Inv, Calls
<1>1. CASE BeginApply(c)
  <2>1. PICK images \in [Services -> Images], force \in BOOLEAN :
          /\ force => MayForce
          /\ request' = [request EXCEPT ![c] = [images |-> images, force |-> force]]
    BY <1>1 DEF BeginApply
  <2>2. pc' = [pc EXCEPT ![c] = "get"] /\ UNCHANGED <<service, cur>>
    BY <1>1 DEF BeginApply, Goto, cloud
  <2>3. CASE a = c
    BY <1>0, <2>1, <2>2, <2>3 DEF StripOK, TypeOK
  <2>4. CASE a # c
    BY <1>0, <2>1, <2>2, <2>4 DEF StripOK, TypeOK
  <2>5. QED
    BY <2>3, <2>4
<1>2. CASE GetActual(c)
  <2>1. pc[c] = "get" /\ service' = service
    BY <1>2 DEF GetActual, cloud
  <2>2. CASE Return(c)
    BY <1>0, <2>1, <2>2, FreshStrip
  <2>3. CASE ~ Return(c)
    <3>1. PICK s \in todo[c], stage \in {"fetch", "unmanaged"} :
            /\ cur' = [cur EXCEPT ![c] = s]
            /\ pc' = [pc EXCEPT ![c] = stage]
            /\ stage = "fetch" => s \in ImageOnly
            /\ request' = request
      BY <1>2, <2>3 DEF GetActual, Goto
    <3>2. CASE a = c
      BY <1>0, <2>1, <3>1, <3>2 DEF StripOK, TypeOK
    <3>3. CASE a # c
      BY <1>0, <2>1, <3>1, <3>3 DEF StripOK, TypeOK
    <3>4. QED
      BY <3>2, <3>3
  <2>4. QED
    BY <2>2, <2>3
<1>3. CASE CheckUnmanaged(c)
  <2>1. pc[c] = "unmanaged" /\ service' = service
    BY <1>3 DEF CheckUnmanaged, cloud
  <2>2. CASE Return(c)
    BY <1>0, <2>1, <2>2, FreshStrip
  <2>3. CASE ~ Return(c)
    <3>1. /\ pc' = [pc EXCEPT ![c] = "fetch"]
          /\ UnmanagedSettings(cur[c]) = {} \/ request[c].force
          /\ UNCHANGED <<request, cur>>
      BY <1>3, <2>3 DEF CheckUnmanaged, Goto
    <3>2. cur[c] \in Services
      BY <1>0, <2>1 DEF CallOK
    <3>3. CASE a = c
      BY <1>0, <2>1, <3>1, <3>2, <3>3 DEF StripOK, TypeOK, Guarded, UnmanagedSettings
    <3>4. CASE a # c
      BY <1>0, <2>1, <3>1, <3>4 DEF StripOK, TypeOK
    <3>5. QED
      BY <3>3, <3>4
  <2>4. QED
    BY <2>2, <2>3
<1>4. CASE SendImage(c) \/ SendManifest(c)
  <2>1. OnlyLess
    BY <1>0, <1>4, SendImageFields, SendManifestFields DEF OnlyLess, SendImage
  <2>2. /\ pc[c] = "send" /\ pc' = [pc EXCEPT ![c] = "wait"]
        /\ UNCHANGED <<request, cur>>
    BY <1>4 DEF SendImage, SendManifest, Goto
  <2>3. CASE a = c
    BY <1>0, <2>2, <2>3 DEF StripOK, TypeOK
  <2>4. CASE a # c
    BY <1>0, <2>1, <2>2, <2>4, OtherStrip DEF TypeOK
  <2>5. QED
    BY <2>3, <2>4
<1>5. CASE Wait(c) \/ Observe(c)
  <2>1. pc[c] # "idle" /\ service' = service
    BY <1>5 DEF Wait, Observe, cloud
  <2>2. CASE Return(c)
    BY <1>0, <2>1, <2>2, FreshStrip
  <2>3. CASE ~ Return(c)
    <3>1. PICK stage \in {"observe", "record"} :
            pc' = [pc EXCEPT ![c] = stage] /\ UNCHANGED <<request, cur>>
      BY <1>5, <2>3 DEF Wait, Observe, Goto
    <3>2. QED
      BY <1>0, <2>1, <3>1 DEF StripOK, TypeOK
  <2>4. QED
    BY <2>2, <2>3
<1>6. CASE RecordApply(c)
  <2>1. /\ pc[c] # "idle" /\ service' = service
        /\ Return(c) \/ NextService(c, "get")
    BY <1>6 DEF RecordApply, cloud
  <2>2. QED
    BY <1>0, <2>1, FreshStrip
<1>7. QED
  BY <1>1, <1>2, <1>3, <1>4, <1>5, <1>6 DEF ApplyNext

\* All other steps.
LEMMA NextStrip == Guarded /\ StripInv /\ [Next]_vars => StripInv'
<1> SUFFICES ASSUME Guarded, StripInv, [Next]_vars PROVE StripInv'
  OBVIOUS
<1>1. Inv' /\ Inv
  BY NextInv DEF StripInv
<1> SUFFICES ASSUME NEW a \in Applies PROVE StripOK(a)'
  BY <1>1 DEF StripInv
<1>0. a \in Calls /\ TypeOK /\ StripOK(a) /\ CallOK(a)
  BY <1>1 DEF Inv, Calls, StripInv
<1>2. CASE \E c \in Applies : ApplyNext(c)
  BY <1>2, ApplyStrip
<1>3. CASE \E c \in Rollbacks : RollbackNext(c)
  <2>1. PICK c \in Rollbacks : RollbackNext(c)
    BY <1>3
  <2>2. c \in Calls /\ a # c
    BY CallAssumption DEF Calls
  <2>3. CASE RecordRollback(c)
    <3>1. /\ pc[c] # "idle" /\ service' = service
          /\ Return(c) \/ NextService(c, "planned")
      BY <2>3 DEF RecordRollback, cloud
    <3>2. QED
      BY <2>2, <3>1, FreshStrip
  <2>4. CASE SendTraffic(c)
    <3>1. OnlyLess
      BY <1>1, <2>4, SendTrafficFields DEF OnlyLess
    <3>2. pc'[a] = pc[a] /\ cur'[a] = cur[a] /\ request'[a] = request[a]
      BY <1>0, <2>2, <2>4 DEF SendTraffic, Goto, TypeOK
    <3>3. QED
      BY <3>1, <3>2, OtherStrip
  <2>5. CASE BeginRollback(c) \/ ListTraffic(c) \/ ListRevisions(c) \/ StartItem(c)
    <3>1. service' = service
      BY <2>5 DEF BeginRollback, ListTraffic, ListRevisions, StartItem, cloud
    <3>2. pc'[a] = pc[a] /\ cur'[a] = cur[a] /\ request'[a] = request[a]
      BY <1>0, <2>2, <2>5 DEF BeginRollback, ListTraffic, ListRevisions, StartItem, Goto, TypeOK
    <3>3. QED
      BY <3>1, <3>2, OtherStrip DEF OnlyLess
  <2>6. QED
    BY <2>1, <2>3, <2>4, <2>5 DEF RollbackNext
<1>4. CASE \E c \in Calls : Fetch(c)
  <2>1. PICK c \in Calls : Fetch(c)
    BY <1>4
  <2>2. /\ pc[c] = "fetch" /\ pc' = [pc EXCEPT ![c] = "send"]
        /\ UNCHANGED <<service, request, cur>>
    BY <2>1 DEF Fetch, Goto, cloud
  <2>3. QED
    BY <1>0, <2>2 DEF StripOK, TypeOK
<1>5. CASE \E c \in Calls : Abandon(c)
  <2>1. PICK c \in Calls : pc[c] # "idle" /\ Return(c) /\ service' = service
    BY <1>5 DEF Abandon, cloud
  <2>2. QED
    BY <2>1, FreshStrip
<1>6. CASE \E s \in Services : StartUp(s)
  <2>1. UNCHANGED <<service, pc, cur, request>>
    BY <1>6 DEF StartUp
  <2>2. QED
    BY <2>1, OtherStrip DEF OnlyLess
<1>7. CASE \E s \in Services : Configure(s)
  <2>1. UNCHANGED <<pc, cur, request>>
    BY <1>7 DEF Configure
  <2>2. CASE pc[a] = "idle"
    BY <2>1, <2>2 DEF StripOK
  <2>3. CASE Services \subseteq ImageOnly
    BY <2>1, <2>3, OtherStrip DEF OnlyLess
  <2>4. QED
    BY <1>0, <1>7, <2>2, <2>3 DEF Configure, Guarded
<1>8. CASE UNCHANGED vars
  BY <1>8, OtherStrip DEF OnlyLess, vars
<1>9. QED
  BY <1>2, <1>3, <1>4, <1>5, <1>6, <1>7, <1>8 DEF Next

-----------------------------------------------------------------------------
(* ServiceContract *)

\* What the contract sees of the services.
ImageOf == [s \in Services |-> service[s].image]
SettingsOf == [s \in Services |-> service[s].settings]
TrafficOf == [s \in Services |-> service[s].traffic]
ReadyOf == [s \in Services |-> Ready(s)]

\* A write makes a revision that is not ready yet.
LEMMA WriteReady ==
    ASSUME TypeOK, NEW s \in Services, NEW new \in Service, Write(s, new)
    PROVE  ReadyOf' = ReadyOf
<1>1. revisions \in [Services -> Seq(Revision)]
  BY DEF TypeOK
<1>2. CASE revisions' = revisions
  BY <1>2 DEF ReadyOf, Ready
<1>3. CASE revisions' = [revisions EXCEPT ![s] =
                            Append(@, [image |-> new.image, state |-> "pending"])]
  <2>1. ASSUME NEW t \in Services
        PROVE  Ready(t)' = Ready(t)
    <3>1. CASE t = s
      <4> DEFINE r == [image |-> new.image, state |-> "pending"]
                 old == revisions[t]
      <4>1. old \in Seq(Revision) /\ Len(old) \in Nat /\ r.state = "pending"
        BY <1>1
      <4>2. revisions'[t] = Append(old, r)
        BY <1>1, <1>3, <3>1
      <4> HIDE DEF r, old
      <4>3. /\ Len(Append(old, r)) = Len(old) + 1
            /\ Append(old, r)[Len(old) + 1] = r
            /\ \A n \in 1 .. Len(old) : Append(old, r)[n] = old[n]
        BY <4>1
      <4>4. ASSUME NEW n \in 1 .. Len(old) + 1
            PROVE  Append(old, r)[n].state = "ready"
                      <=> n \in 1 .. Len(old) /\ old[n].state = "ready"
        <5>1. CASE n = Len(old) + 1
          <6>1. Append(old, r)[n] = r /\ n \notin 1 .. Len(old)
            BY <4>1, <4>3, <5>1
          <6>2. QED
            BY <4>1, <6>1
        <5>2. CASE n \in 1 .. Len(old)
          BY <4>3, <5>2
        <5>3. QED
          BY <4>1, <5>1, <5>2
      <4>5. {n \in 1 .. Len(Append(old, r)) : Append(old, r)[n].state = "ready"}
              = {n \in 1 .. Len(old) : old[n].state = "ready"}
        BY <4>1, <4>3, <4>4
      <4>6. QED
        BY <4>2, <4>5 DEF Ready, old
    <3>2. CASE t # s
      BY <1>1, <1>3, <3>2 DEF Ready
    <3>3. QED
      BY <3>1, <3>2
  <2>2. QED
    BY <2>1 DEF ReadyOf
<1>4. QED
  BY <1>2, <1>3 DEF Write

\* A change of one service, field by field.
LEMMA OneService ==
    ASSUME NEW s \in Services, \A t \in Services \ {s} : service'[t] = service[t]
    PROVE  /\ ImageOf' = [ImageOf EXCEPT ![s] = service'[s].image]
           /\ SettingsOf' = [SettingsOf EXCEPT ![s] = service'[s].settings]
           /\ TrafficOf' = [TrafficOf EXCEPT ![s] = service'[s].traffic]
           /\ service'[s].image = service[s].image => ImageOf' = ImageOf
           /\ service'[s].settings = service[s].settings => SettingsOf' = SettingsOf
           /\ service'[s].traffic = service[s].traffic => TrafficOf' = TrafficOf
BY DEF ImageOf, SettingsOf, TrafficOf

\* An image-only update is the contract's deployment of an image.
LEMMA SendImageDeploys ==
    ASSUME Inv, NEW c \in Applies, SendImage(c)
    PROVE  Contract!Next
<1>0. PICK s \in Services : s = cur[c]
  BY SendImageFields
<1> DEFINE i == request[c].images[s]
           new == TakeContainers(s, BuildImageOnlyUpdate(snap[c], i))
<1>1. s \in Services /\ i \in Images /\ new \in Service
  BY <1>0, SendImageFields
<1>2. s \in ImageOnly /\ Write(s, new)
  BY <1>0 DEF SendImage
<1>3. /\ service'[s].image = i
      /\ service'[s].settings = service[s].settings
      /\ service'[s].traffic = service[s].traffic
      /\ \A t \in Services \ {s} : service'[t] = service[t]
  BY <1>0, SendImageFields
<1> HIDE DEF i, new
<1>4. /\ ImageOf' = [ImageOf EXCEPT ![s] = i]
      /\ SettingsOf' = SettingsOf /\ TrafficOf' = TrafficOf
  BY <1>1, <1>3, OneService
<1>5. ReadyOf' = ReadyOf
  BY <1>1, <1>2, WriteReady DEF Inv
<1>6. Contract!DeployImage(s)
  BY <1>1, <1>2, <1>4, <1>5
     DEF Contract!DeployImage, ImageOf, SettingsOf, TrafficOf, ReadyOf
<1>7. QED
  BY <1>1, <1>6 DEF Contract!Next

\* A full update is the contract's deployment of a manifest.
LEMMA SendManifestDeploys ==
    ASSUME StripInv, NEW c \in Applies, SendManifest(c)
    PROVE  Contract!Next
<1>0. Inv /\ StripOK(c)
  BY DEF StripInv
<1>s. PICK s \in Services : s = cur[c]
  BY <1>0, SendManifestFields
<1> DEFINE i == request[c].images[s]
           new == BuildService(s, i)
<1>1. s \in Services \ ImageOnly /\ i \in Images /\ new \in Service /\ request[c] \in Request
  BY <1>0, <1>s, SendManifestFields
<1>2. pc[c] = "send" /\ Write(s, new)
  BY <1>s DEF SendManifest
<1>3. /\ service'[s].image = i
      /\ service'[s].settings = {}
      /\ service'[s].traffic = 0
      /\ \A t \in Services \ {s} : service'[t] = service[t]
  BY <1>0, <1>s, SendManifestFields
<1>4. service[s].settings = {} \/ MayForce
  BY <1>0, <1>s, <1>1, <1>2 DEF StripOK, Request
<1> HIDE DEF i, new
<1>5. /\ ImageOf' = [ImageOf EXCEPT ![s] = i]
      /\ SettingsOf' = [SettingsOf EXCEPT ![s] = {}]
      /\ TrafficOf' = [TrafficOf EXCEPT ![s] = 0]
  BY <1>1, <1>3, OneService
<1>6. ReadyOf' = ReadyOf
  BY <1>0, <1>1, <1>2, WriteReady DEF Inv
<1>7. SettingsOf[s] = {} \/ MayForce
  BY <1>1, <1>4 DEF SettingsOf
<1>8. Contract!DeployManifest(s)
  BY <1>1, <1>5, <1>6, <1>7
     DEF Contract!DeployManifest, ImageOf, SettingsOf, TrafficOf, ReadyOf
<1>9. QED
  BY <1>1, <1>8 DEF Contract!Next

\* A traffic update is the contract's rollback.
LEMMA SendTrafficRollsBack ==
    ASSUME Inv, NEW c \in Rollbacks, SendTraffic(c)
    PROVE  Contract!Next
<1>0. PICK s \in Services : s = cur[c]
  BY SendTrafficFields
<1> DEFINE r == plan[c][s].to
<1>1. s \in Services /\ r \in Ready(s) /\ revisions' = revisions
  BY <1>0, SendTrafficFields
<1>2. /\ service'[s].image = service[s].image
      /\ service'[s].settings = service[s].settings
      /\ service'[s].traffic = r
      /\ \A t \in Services \ {s} : service'[t] = service[t]
  BY <1>0, SendTrafficFields
<1> HIDE DEF r
<1>3. /\ TrafficOf' = [TrafficOf EXCEPT ![s] = r]
      /\ ImageOf' = ImageOf /\ SettingsOf' = SettingsOf
  BY <1>1, <1>2, OneService
<1>4. ReadyOf' = ReadyOf /\ r \in ReadyOf[s]
  BY <1>1 DEF ReadyOf, Ready
<1>5. Contract!RollBack(s)
  BY <1>3, <1>4 DEF Contract!RollBack, ImageOf, SettingsOf, TrafficOf, ReadyOf
<1>6. QED
  BY <1>1, <1>5 DEF Contract!Next

\* The steps of the platform and of Terraform are the contract's.
LEMMA StartUpStarts ==
    ASSUME Inv, NEW s \in Services, StartUp(s)
    PROVE  Contract!Next
<1>1. CloudStep /\ service' = service
  BY StartUpStep DEF Inv, StartUp
<1>2. \A t \in Services \ {s} : revisions'[t] = revisions[t]
  BY DEF StartUp, Inv, TypeOK
<1>3. Ready(s) \subseteq Ready(s)'
  BY <1>1 DEF CloudStep
<1>4. ReadyOf' = [ReadyOf EXCEPT ![s] = ReadyOf'[s]]
  BY <1>2 DEF ReadyOf, Ready
<1>5. ReadyOf[s] \subseteq ReadyOf'[s]
  BY <1>3 DEF ReadyOf
<1>6. ImageOf' = ImageOf /\ SettingsOf' = SettingsOf /\ TrafficOf' = TrafficOf
  BY <1>1 DEF ImageOf, SettingsOf, TrafficOf
<1>7. Contract!StartUp(s)
  BY <1>4, <1>5, <1>6 DEF Contract!StartUp, ImageOf, SettingsOf, TrafficOf, ReadyOf
<1>8. QED
  BY <1>7 DEF Contract!Next

LEMMA ConfigureConfigures ==
    ASSUME Inv, NEW s \in Services, Configure(s)
    PROVE  Contract!Next
<1>1. PICK own \in SUBSET Settings : Write(s, [service[s] EXCEPT !.settings = own])
  BY DEF Configure
<1> DEFINE new == [service[s] EXCEPT !.settings = own]
<1>2. /\ new \in Service /\ new.image = service[s].image
      /\ new.settings = own /\ new.traffic = service[s].traffic
  BY DEF Inv, TypeOK, Service
<1> HIDE DEF new
<1>3. Write(s, new)
  BY <1>1 DEF new
<1>4. /\ service'[s].image = service[s].image
      /\ service'[s].settings = own
      /\ service'[s].traffic = service[s].traffic
      /\ \A t \in Services \ {s} : service'[t] = service[t]
  BY <1>2, <1>3, WriteFields DEF Inv
<1>5. /\ SettingsOf' = [SettingsOf EXCEPT ![s] = own]
      /\ ImageOf' = ImageOf /\ TrafficOf' = TrafficOf
  BY <1>4, OneService
<1>6. ReadyOf' = ReadyOf
  BY <1>2, <1>3, WriteReady DEF Inv
<1>7. Contract!Configure(s)
  BY <1>5, <1>6 DEF Contract!Configure, ImageOf, SettingsOf, TrafficOf, ReadyOf, Settings
<1>8. QED
  BY <1>7 DEF Contract!Next

\* All other steps are the calls' own business.
LEMMA QuietStutters ==
    ASSUME UNCHANGED cloud
    PROVE  UNCHANGED Contract!vars
BY DEF cloud, Contract!vars, Ready

LEMMA NextContract ==
    ASSUME StripInv, [Next]_vars
    PROVE  Contract!Next \/ UNCHANGED Contract!vars
<1>0. Inv
  BY DEF StripInv
<1>1. ASSUME NEW c \in Applies, ApplyNext(c)
      PROVE  Contract!Next \/ UNCHANGED Contract!vars
  <2>1. CASE SendImage(c)
    BY <1>0, <2>1, SendImageDeploys
  <2>2. CASE SendManifest(c)
    BY <2>2, SendManifestDeploys
  <2>3. CASE BeginApply(c) \/ GetActual(c) \/ CheckUnmanaged(c)
               \/ Wait(c) \/ Observe(c) \/ RecordApply(c)
    BY <2>3, QuietStutters
       DEF BeginApply, GetActual, CheckUnmanaged, Wait, Observe, RecordApply
  <2>4. QED
    BY <1>1, <2>1, <2>2, <2>3 DEF ApplyNext
<1>2. ASSUME NEW c \in Rollbacks, RollbackNext(c)
      PROVE  Contract!Next \/ UNCHANGED Contract!vars
  <2>1. CASE SendTraffic(c)
    BY <1>0, <2>1, SendTrafficRollsBack
  <2>2. CASE BeginRollback(c) \/ ListTraffic(c) \/ ListRevisions(c)
               \/ StartItem(c) \/ RecordRollback(c)
    BY <2>2, QuietStutters
       DEF BeginRollback, ListTraffic, ListRevisions, StartItem, RecordRollback
  <2>3. QED
    BY <1>2, <2>1, <2>2 DEF RollbackNext
<1>3. CASE \E c \in Calls : Fetch(c) \/ Abandon(c)
  BY <1>3, QuietStutters DEF Fetch, Abandon
<1>4. CASE \E s \in Services : StartUp(s) \/ Configure(s)
  BY <1>0, <1>4, StartUpStarts, ConfigureConfigures
<1>5. CASE UNCHANGED vars
  BY <1>5, QuietStutters DEF vars, cloud
<1>6. QED
  BY <1>1, <1>2, <1>3, <1>4, <1>5 DEF Next

\* However their requests interleave, applies, rollbacks, Terraform and the
\* platform change a service only in the single steps of the contract.
THEOREM KeepsContract == ASSUME Guarded PROVE Spec => ImplementsContract
<1>1. Init => StripInv
  BY InitInv DEF Init, StripInv, StripOK, Calls
<1>2. StripInv /\ [Next]_vars => StripInv'
  BY NextStrip
<1>3. Init => Contract!Init
  BY DEF Init, Contract!Init, Settings
<1>4. StripInv /\ [Next]_vars => [Contract!Next]_(Contract!vars)
  BY NextContract
<1>5. QED
  BY <1>1, <1>2, <1>3, <1>4, PTL DEF Spec, ImplementsContract, Contract!Spec
-----------------------------------------------------------------------------
(* Rollbacks go back *)

\* One rollback at a time; applies and Terraform interleave with it freely.
OneRollback == \A c, d \in Rollbacks : c = d

\* What a rollback saw serving, and the target it chose below that, is behind
\* what serves now.
BackOK(c) ==
    \A s \in Services :
        /\ pc[c] = "revisions" /\ cur[c] = s => rev[c] <= Serving(s)
        /\ plan[c][s] # None /\ ~ plan[c][s].explicit => plan[c][s].to <= Serving(s)

BackInv == Inv /\ \A c \in Rollbacks : BackOK(c)

Newer(s) == /\ {Serving(s), Serving(s)'} \subseteq Nat
            /\ Serving(s) <= Serving(s)'

\* Where the traffic stays or goes to the latest revision, what serves never
\* gets older: ready revisions stay ready.
LEMMA ServesNewer ==
    ASSUME Inv, Inv', CloudStep, NEW s \in Services,
           service'[s].traffic \in {0, service[s].traffic}
    PROVE  Newer(s)
<1>1. /\ revisions[s] \in Seq(Revision) /\ revisions'[s] \in Seq(Revision)
      /\ service[s].traffic \in Nat
  BY DEF Inv, TypeOK, Service
<1> DEFINE now == Ready(s)
           next == Ready(s)'
<1>2. /\ Len(revisions[s]) \in Nat /\ now \in SUBSET (1 .. Len(revisions[s]))
      /\ Len(revisions'[s]) \in Nat /\ next \in SUBSET (1 .. Len(revisions'[s]))
  BY <1>1 DEF Ready
<1>3. now \subseteq next
  BY DEF CloudStep
<1>4. now # {} => Max(now) \in now
  BY <1>2, MaxExists
<1>5. ASSUME NEW r \in now
      PROVE  r \in Nat /\ Max(next) \in Nat /\ r <= Max(next)
  <2>1. next # {} /\ r \in next
    BY <1>3, <1>5
  <2>2. Max(next) \in next /\ Max(next) >= r
    BY <1>2, <2>1, MaxExists
  <2>3. QED
    BY <1>2, <2>1, <2>2
<1>6. service[s].traffic # 0 => service[s].traffic \in now
  BY DEF Inv, TrafficServesReady
<1>7. Serving(s) \in Nat /\ Serving(s)' \in Nat
  <2>1. Serving(s) \in Nat
    BY ServingType DEF Inv
  <2>2. LatestReady(s)' \in Nat
    <3>1. next # {} => Max(next) \in next
      BY <1>2, MaxExists
    <3>2. QED
      BY <1>2, <3>1 DEF LatestReady
  <2>3. QED
    BY <1>1, <2>1, <2>2 DEF Serving
<1> HIDE DEF now, next
<1> SUFFICES Serving(s) <= Serving(s)'
  BY <1>7 DEF Newer
<1>8. CASE service[s].traffic # 0 /\ service'[s].traffic # 0
  BY <1>7, <1>8 DEF Serving
<1>9. CASE service[s].traffic # 0 /\ service'[s].traffic = 0
  <2>1. Serving(s) \in now
    BY <1>6, <1>9 DEF Serving
  <2>2. next # {}
    BY <1>3, <2>1
  <2>3. Serving(s)' = Max(next)
    BY <1>9, <2>2 DEF Serving, LatestReady, next
  <2>4. QED
    BY <1>5, <2>1, <2>3
<1>10. CASE service[s].traffic = 0
  <2>1. CASE now = {}
    BY <1>7, <1>10, <2>1 DEF Serving, LatestReady, now
  <2>2. CASE now # {}
    <3>1. Serving(s) = Max(now) /\ Max(now) \in now
      BY <1>4, <1>10, <2>2 DEF Serving, LatestReady, now
    <3>2. next # {} /\ service'[s].traffic = 0
      BY <1>3, <1>10, <2>2
    <3>3. Serving(s)' = Max(next)
      BY <3>2 DEF Serving, LatestReady, next
    <3>4. QED
      BY <1>5, <3>1, <3>3
  <2>3. QED
    BY <2>1, <2>2
<1>11. QED
  BY <1>8, <1>9, <1>10

\* A target that nobody named is older than what serves.
LEMMA RollbackTargetBehind ==
    ASSUME TypeOK, NEW s \in Services, NEW current \in Nat,
           NEW item \in RollbackTarget(s, current)
    PROVE  item.explicit \/ item.to < current
<1> DEFINE older == {r \in Ready(s) : r < current}
<1>1. item.explicit \/ item.to \in older
  BY DEF RollbackTarget
<1>2. QED
  BY <1>1

\* What a rollback has in hand stays behind what serves, unless it acts itself.
LEMMA OtherBack ==
    ASSUME BackInv, NEW d \in Rollbacks, \A s \in Services : Newer(s),
           pc'[d] = pc[d], cur'[d] = cur[d], rev'[d] = rev[d], plan'[d] = plan[d]
    PROVE  BackOK(d)'
<1>1. BackOK(d) /\ TypeOK /\ PlanOK(d) /\ d \in Calls
  BY DEF BackInv, Inv, Calls
<1> SUFFICES ASSUME NEW s \in Services
             PROVE  /\ pc[d] = "revisions" /\ cur[d] = s => rev[d] <= Serving(s)'
                    /\ plan[d][s] # None /\ ~ plan[d][s].explicit =>
                          plan[d][s].to <= Serving(s)'
  BY DEF BackOK
<1>2. /\ rev[d] \in Nat
      /\ plan[d][s] # None => plan[d][s].to \in Nat
  BY <1>1 DEF TypeOK, PlanOK, Ready
<1>3. Serving(s) \in Nat /\ Serving(s)' \in Nat /\ Serving(s) <= Serving(s)'
  BY DEF Newer
<1>4. QED
  BY <1>1, <1>2, <1>3 DEF BackOK

\* All steps but a rollback's request make nothing older serve.
LEMMA StepServesNewer ==
    ASSUME Inv, [Next]_vars, ~ (\E c \in Rollbacks : SendTraffic(c)), NEW s \in Services
    PROVE  Newer(s)
<1>1. Inv'
  BY NextInv
<1>2. CASE \E t \in Services : StartUp(t)
  <2>1. CloudStep /\ service' = service
    BY <1>2, StartUpStep DEF StartUp, Inv
  <2>2. QED
    BY <1>1, <2>1, ServesNewer
<1>3. CASE \E t \in Services : Configure(t)
  <2>1. PICK t \in Services, own \in SUBSET Settings :
          Exists(t) /\ Write(t, [service[t] EXCEPT !.settings = own])
    BY <1>3 DEF Configure
  <2> DEFINE new == [service[t] EXCEPT !.settings = own]
  <2>2. service[t] \in Service /\ service[t].image \in Images
    BY <2>1 DEF Inv, TypeOK, ExistsOK
  <2>3. new \in Service /\ new.image \in Images /\ new.traffic = service[t].traffic
    BY <2>2 DEF Service
  <2> HIDE DEF new
  <2>4. CloudStep
    BY <2>1, <2>3, WriteStep DEF Inv, new
  <2>5. service'[s].traffic = service[s].traffic
    BY <2>1, <2>3, WriteFields DEF Inv, new
  <2>6. QED
    BY <1>1, <2>4, <2>5, ServesNewer
<1>4. CASE \E c \in Applies : SendImage(c)
  <2>1. PICK c \in Applies : SendImage(c)
    BY <1>4
  <2> DEFINE new == TakeContainers(cur[c],
                      BuildImageOnlyUpdate(snap[c], request[c].images[cur[c]]))
  <2>2. CloudStep
    <3>1. cur[c] \in Services /\ new \in Service /\ Write(cur[c], new)
      BY <2>1, SendImageFields DEF SendImage
    <3>2. new.image \in Images
      <4>1. request[c].images[cur[c]] \in Images /\ service[cur[c]] \in Service
        BY <2>1, SendImageFields DEF Inv, TypeOK
      <4>2. QED
        BY <4>1 DEF TakeContainers, BuildImageOnlyUpdate, Service
    <3> HIDE DEF new
    <3>3. QED
      BY <3>1, <3>2, WriteStep DEF Inv
  <2>3. service'[s].traffic = service[s].traffic
    BY <2>1, SendImageFields
  <2>4. QED
    BY <1>1, <2>2, <2>3, ServesNewer
<1>5. CASE \E c \in Applies : SendManifest(c)
  <2>1. PICK c \in Applies : SendManifest(c)
    BY <1>5
  <2>2. CloudStep
    BY <2>1, SendManifestFields, WriteStep DEF SendManifest, Inv, BuildService
  <2>3. service'[s].traffic \in {0, service[s].traffic}
    BY <2>1, SendManifestFields
  <2>4. QED
    BY <1>1, <2>2, <2>3, ServesNewer
<1>6. CASE UNCHANGED cloud
  <2>1. CloudStep /\ service' = service
    BY <1>6, NoCloudStep DEF Inv, cloud
  <2>2. QED
    BY <1>1, <2>1, ServesNewer
<1>7. QED
  <2>1. ASSUME NEW c \in Applies, ApplyNext(c)
        PROVE  SendImage(c) \/ SendManifest(c) \/ UNCHANGED cloud
    BY <2>1 DEF ApplyNext, BeginApply, GetActual, CheckUnmanaged, Wait, Observe, RecordApply
  <2>2. ASSUME NEW c \in Rollbacks, RollbackNext(c)
        PROVE  UNCHANGED cloud
    BY <2>2 DEF RollbackNext, BeginRollback, ListTraffic, ListRevisions, StartItem,
                RecordRollback
  <2>3. ASSUME NEW c \in Calls, Fetch(c) \/ Abandon(c)
        PROVE  UNCHANGED cloud
    BY <2>3 DEF Fetch, Abandon
  <2>4. UNCHANGED vars => UNCHANGED cloud
    BY DEF vars, cloud
  <2>5. QED
    BY <1>2, <1>3, <1>4, <1>5, <1>6, <2>1, <2>2, <2>3, <2>4 DEF Next

\* The steps of a rollback itself: the target it chooses is behind what it saw
\* serving, and what it forgets binds it no longer.
LEMMA RollbackBack ==
    ASSUME BackInv, OneRollback, NEW c \in Rollbacks, RollbackNext(c)
    PROVE  BackOK(c)'
<1>0. /\ c \in Calls /\ BackOK(c) /\ Inv /\ TypeOK /\ CallOK(c) /\ PlanOK(c)
  BY DEF BackInv, Inv, Calls
<1>1. CASE BeginRollback(c) \/ StartItem(c)
  <2>1. pc'[c] \in {"traffic", "fetch"} /\ plan' = plan /\ UNCHANGED cloud
    BY <1>0, <1>1 DEF BeginRollback, StartItem, Goto, TypeOK
  <2>2. QED
    BY <1>0, <2>1 DEF BackOK, Serving, LatestReady, Ready, cloud
<1>2. CASE ListTraffic(c)
  <2>1. PICK s \in todo[c] :
          /\ cur' = [cur EXCEPT ![c] = s]
          /\ rev' = [rev EXCEPT ![c] = Serving(s)]
    BY <1>2 DEF ListTraffic
  <2>2. /\ plan' = plan /\ service' = service /\ revisions' = revisions
        /\ s \in Services
    BY <1>0, <1>2 DEF ListTraffic, cloud, TypeOK
  <2>3. cur'[c] = s /\ rev'[c] = Serving(s) /\ Serving(s) \in Nat
    BY <1>0, <2>1, <2>2, ServingType DEF TypeOK
  <2>4. \A t \in Services : Serving(t)' = Serving(t)
    BY <2>2 DEF Serving, LatestReady, Ready
  <2>5. QED
    BY <1>0, <2>2, <2>3, <2>4 DEF BackOK
<1>3. CASE ListRevisions(c)
  <2> DEFINE s == cur[c]
  <2>1. pc[c] = "revisions" /\ s \in Services /\ rev[c] \in Nat
    BY <1>0, <1>3 DEF ListRevisions, CallOK, TypeOK
  <2>2. PICK item \in RollbackTarget(s, rev[c]) : plan' = [plan EXCEPT ![c][s] = item]
    BY <1>3 DEF ListRevisions
  <2>3. rev[c] <= Serving(s) /\ Serving(s) \in Nat
    BY <1>0, <2>1, ServingType DEF BackOK
  <2>4. item.explicit \/ item.to < rev[c]
    BY <1>0, <2>1, RollbackTargetBehind
  <2>5. item.to \in Nat
    BY <1>0, <2>1, RollbackTargetReady DEF RollbackItem
  <2>6. plan'[c] = [plan[c] EXCEPT ![s] = item] /\ plan[c] \in [Services -> RollbackItem \cup {None}]
    BY <1>0, <2>2 DEF TypeOK
  <2>7. pc'[c] # "revisions" /\ service' = service /\ revisions' = revisions
    BY <1>0, <1>3 DEF ListRevisions, Goto, cloud, TypeOK
  <2>8. \A t \in Services : Serving(t)' = Serving(t)
    BY <2>7 DEF Serving, LatestReady, Ready
  <2> HIDE DEF s
  <2>9. item.explicit \/ item.to <= Serving(s)
    BY <2>1, <2>3, <2>4, <2>5
  <2>10. QED
    BY <1>0, <2>6, <2>7, <2>8, <2>9 DEF BackOK
<1>4. CASE SendTraffic(c)
  <2>1. /\ cur[c] \in Services /\ plan[c][cur[c]].to \in Ready(cur[c])
        /\ service'[cur[c]].traffic = plan[c][cur[c]].to
        /\ \A t \in Services \ {cur[c]} : service'[t] = service[t]
        /\ revisions' = revisions
    BY <1>0, <1>4, SendTrafficFields
  <2>2. pc'[c] # "revisions" /\ plan' = plan
    BY <1>0, <1>4 DEF SendTraffic, Goto, TypeOK
  <2>3. plan[c][cur[c]].to \in Nat \ {0}
    BY <1>0, <2>1 DEF Ready, TypeOK
  <2>4. ASSUME NEW s \in Services
        PROVE  plan[c][s] # None /\ ~ plan[c][s].explicit => plan[c][s].to <= Serving(s)'
    <3>1. CASE s = cur[c]
      BY <2>1, <2>3, <3>1 DEF Serving
    <3>2. CASE s # cur[c]
      <4>1. Serving(s)' = Serving(s)
        BY <2>1, <3>2 DEF Serving, LatestReady, Ready
      <4>2. QED
        BY <1>0, <4>1 DEF BackOK
    <3>3. QED
      BY <3>1, <3>2
  <2>5. QED
    BY <2>2, <2>4 DEF BackOK
<1>5. CASE RecordRollback(c)
  <2>1. UNCHANGED cloud /\ pc'[c] # "revisions" /\ (plan'[c] = NoPlan \/ plan'[c] = plan[c])
    BY <1>0, <1>5 DEF RecordRollback, Return, NextService, Goto, TypeOK
  <2>2. QED
    BY <1>0, <2>1 DEF BackOK, Serving, LatestReady, Ready, cloud, NoPlan
<1>6. QED
  BY <1>1, <1>2, <1>3, <1>4, <1>5 DEF RollbackNext

LEMMA NextBack == OneRollback /\ BackInv /\ [Next]_vars => BackInv'
<1> SUFFICES ASSUME OneRollback, BackInv, [Next]_vars, NEW d \in Rollbacks
             PROVE  BackOK(d)'
  BY NextInv DEF BackInv
<1>0. d \in Calls /\ Inv /\ TypeOK /\ BackOK(d)
  BY DEF BackInv, Inv, Calls
<1>1. CASE \E c \in Rollbacks : RollbackNext(c)
  BY <1>1, RollbackBack DEF OneRollback
<1>2. CASE ~ \E c \in Rollbacks : RollbackNext(c)
  <2>1. \A s \in Services : Newer(s)
    BY <1>0, <1>2, StepServesNewer DEF RollbackNext
  <2>2. CASE \E c \in Applies : ApplyNext(c)
    <3>1. PICK c \in Applies : ApplyNext(c)
      BY <2>2
    <3>2. d # c
      BY CallAssumption
    <3>3. /\ pc'[d] = pc[d] /\ cur'[d] = cur[d] /\ rev'[d] = rev[d]
          /\ plan'[d] = plan[d]
      <4>1. ASSUME Return(c) \/ NextService(c, "get")
            PROVE  /\ pc'[d] = pc[d] /\ cur'[d] = cur[d] /\ rev'[d] = rev[d]
                   /\ plan'[d] = plan[d]
        BY <1>0, <3>2, <4>1 DEF Return, NextService, Goto, TypeOK
      <4>2. QED
        BY <1>0, <3>1, <3>2, <4>1 DEF ApplyNext, BeginApply, GetActual, CheckUnmanaged,
             SendImage, SendManifest, Wait, Observe, RecordApply, Goto, TypeOK
    <3>4. QED
      BY <2>1, <3>3, OtherBack
  <2>3. CASE \E c \in Calls : Fetch(c)
    <3>1. PICK c \in Calls : Fetch(c)
      BY <2>3
    <3>2. pc[c] = "fetch" /\ pc' = [pc EXCEPT ![c] = "send"] /\ UNCHANGED <<plan, cur, rev, cloud>>
      BY <3>1 DEF Fetch, Goto
    <3>3. QED
      BY <1>0, <3>2 DEF BackOK, TypeOK, Serving, LatestReady, Ready, cloud
  <2>4. CASE \E c \in Calls : Abandon(c)
    <3>1. PICK c \in Calls : Return(c) /\ UNCHANGED cloud
      BY <2>4 DEF Abandon
    <3>2. CASE d = c
      BY <1>0, <3>1, <3>2 DEF Return, Goto, TypeOK, BackOK, NoPlan
    <3>3. CASE d # c
      BY <1>0, <2>1, <3>1, <3>3, OtherBack DEF Return, Goto, TypeOK
    <3>4. QED
      BY <3>2, <3>3
  <2>5. CASE \E s \in Services : StartUp(s) \/ Configure(s)
    BY <2>1, <2>5, OtherBack DEF StartUp, Configure
  <2>6. CASE UNCHANGED vars
    BY <2>1, <2>6, OtherBack DEF vars
  <2>7. QED
    BY <1>2, <2>2, <2>3, <2>4, <2>5, <2>6 DEF Next
<1>3. QED
  BY <1>1, <1>2

\* A single rollback, however long its confirm prompt is open, never moves
\* the traffic forward to a target it chose itself, whatever applies and Terraform
\* do meanwhile: they only make newer revisions serve.
THEOREM GoesBack == ASSUME OneRollback PROVE Spec => RollbackGoesBack
<1>1. Init => BackInv
  BY InitInv DEF Init, BackInv, BackOK, NoPlan, Calls
<1>2. BackInv /\ [Next]_vars => BackInv'
  BY NextBack
<1>3. BackInv /\ [Next]_vars =>
        [\A c \in Rollbacks :
           (SendTraffic(c) /\ ~ plan[c][cur[c]].explicit) =>
              plan[c][cur[c]].to <= Serving(cur[c])]_vars
  <2> SUFFICES ASSUME BackInv, NEW c \in Rollbacks, SendTraffic(c),
                      ~ plan[c][cur[c]].explicit
               PROVE  plan[c][cur[c]].to <= Serving(cur[c])
    OBVIOUS
  <2>1. c \in Calls /\ CallOK(c) /\ BackOK(c) /\ pc[c] = "send"
    BY DEF BackInv, Inv, Calls, SendTraffic
  <2>2. cur[c] \in Services /\ plan[c][cur[c]] # None
    BY <2>1 DEF CallOK
  <2>3. QED
    BY <2>1, <2>2 DEF BackOK
<1>4. QED
  BY <1>1, <1>2, <1>3, PTL DEF Spec, RollbackGoesBack

-----------------------------------------------------------------------------
(* In sync is what serves *)

\* Calls run one after the other.
SerialOK == \A c, d \in Calls : pc[c] # "idle" /\ pc[d] # "idle" => c = d

\* The newest revision runs the image the service is configured with.
LastOK ==
    \A s \in Services : Exists(s) =>
        revisions[s][Len(revisions[s])].image = service[s].image

\* From the revision an apply waits for onward there is only its image, and the
\* traffic goes to the latest of them that is ready.
WaitOK(c) ==
    \A s \in Services : cur[c] = s =>
        /\ pc[c] \in {"wait", "observe"} =>
              /\ service[s].traffic = 0
              /\ rev[c] \in 1 .. Len(revisions[s])
              /\ \A r \in rev[c] .. Len(revisions[s]) :
                    revisions[s][r].image = request[c].images[s]
        /\ pc[c] = "observe" => rev[c] \in Ready(s)
        /\ pc[c] = "record" =>
              /\ rev[c] \in 1 .. Len(revisions[s])
              /\ revisions[s][rev[c]].image = request[c].images[s]

SyncInv == Inv /\ SerialOK /\ LastOK /\ \A c \in Applies : WaitOK(c)

\* The revisions a service has stay what they are, and what is added to them
\* runs its new image.
LEMMA WriteRevisions ==
    ASSUME TypeOK, LastOK, NEW s \in Services, NEW new \in Service, Write(s, new)
    PROVE  /\ LastOK'
           /\ Len(revisions'[s]) \in Nat \ {0}
           /\ revisions'[s][Len(revisions'[s])].image = new.image
           /\ \A t \in Services \ {s} : revisions'[t] = revisions[t]
           /\ Len(revisions[s]) \in Nat
           /\ \/ revisions'[s] = revisions[s]
              \/ /\ Len(revisions'[s]) = Len(revisions[s]) + 1
                 /\ \A r \in 1 .. Len(revisions[s]) : revisions'[s][r] = revisions[s][r]
<1>1. revisions \in [Services -> Seq(Revision)] /\ Len(revisions[s]) \in Nat
  BY DEF TypeOK
<1>2. /\ service'[s].image = new.image
      /\ \A t \in Services \ {s} : service'[t] = service[t]
  BY WriteFields
<1>3. /\ Len(revisions'[s]) \in Nat \ {0}
      /\ revisions'[s][Len(revisions'[s])].image = new.image
      /\ \A t \in Services \ {s} : revisions'[t] = revisions[t]
      /\ \/ revisions'[s] = revisions[s]
         \/ /\ Len(revisions'[s]) = Len(revisions[s]) + 1
            /\ \A r \in 1 .. Len(revisions[s]) : revisions'[s][r] = revisions[s][r]
  <2>1. CASE Exists(s) /\ revisions' = revisions /\ new.image = service[s].image
    <3>1. revisions[s] \in Seq(Revision) /\ revisions[s] # <<>>
      BY <1>1, <2>1 DEF Exists
    <3>2. Len(revisions[s]) # 0
      BY <3>1
    <3>3. QED
      BY <1>1, <2>1, <3>2 DEF LastOK
  <2>2. CASE revisions' = [revisions EXCEPT ![s] =
                              Append(@, [image |-> new.image, state |-> "pending"])]
    <3> DEFINE added == [image |-> new.image, state |-> "pending"]
    <3>1. revisions'[s] = Append(revisions[s], added) /\ revisions[s] \in Seq(Revision)
      BY <1>1, <2>2
    <3>2. added.image = new.image
      OBVIOUS
    <3> HIDE DEF added
    <3>3. /\ Len(revisions'[s]) = Len(revisions[s]) + 1
          /\ revisions'[s][Len(revisions[s]) + 1] = added
          /\ \A r \in 1 .. Len(revisions[s]) : revisions'[s][r] = revisions[s][r]
      BY <3>1
    <3>4. QED
      BY <1>1, <2>2, <3>2, <3>3
  <2>3. QED
    BY <2>1, <2>2 DEF Write
<1>4. LastOK'
  <2> SUFFICES ASSUME NEW t \in Services, revisions'[t] # <<>>
               PROVE  revisions'[t][Len(revisions'[t])].image = service'[t].image
    BY DEF LastOK, Exists
  <2>1. CASE t = s
    BY <1>2, <1>3, <2>1
  <2>2. CASE t # s
    BY <1>2, <1>3, <2>2 DEF LastOK, Exists
  <2>3. QED
    BY <2>1, <2>2
<1>5. QED
  BY <1>1, <1>3, <1>4

\* Startup changes the state of one revision, and no image.
LEMMA StartUpRevisions ==
    ASSUME TypeOK, NEW s \in Services, StartUp(s), NEW t \in Services
    PROVE  /\ Len(revisions'[t]) = Len(revisions[t])
           /\ \A r \in 1 .. Len(revisions[t]) :
                 revisions'[t][r].image = revisions[t][r].image
<1>1. PICK n \in 1 .. Len(revisions[s]), state \in {"ready", "failed"} :
        revisions' = [revisions EXCEPT ![s][n].state = state]
  BY DEF StartUp
<1>2. revisions \in [Services -> Seq(Revision)] /\ revisions[s] \in Seq(Revision)
  BY DEF TypeOK
<1>3. CASE t = s
  <2>1. revisions'[t] = [revisions[s] EXCEPT ![n] = [@ EXCEPT !.state = state]]
    BY <1>1, <1>2, <1>3
  <2>2. \A r \in 1 .. Len(revisions[s]) : revisions[s][r] \in Revision
    BY <1>2
  <2>3. Len(revisions'[t]) = Len(revisions[s])
    BY <1>2, <2>1
  <2>4. ASSUME NEW r \in 1 .. Len(revisions[s])
        PROVE  revisions'[t][r].image = revisions[s][r].image
    <3>1. CASE r = n
      BY <1>2, <2>1, <2>2, <3>1 DEF Revision
    <3>2. CASE r # n
      BY <1>2, <2>1, <3>2
    <3>3. QED
      BY <3>1, <3>2
  <2>5. QED
    BY <1>3, <2>3, <2>4
<1>4. CASE t # s
  BY <1>1, <1>2, <1>4
<1>5. QED
  BY <1>3, <1>4

\* A step is one call's, or the surroundings'.
ActsCall(c) ==
    \/ c \in Applies /\ ApplyNext(c)
    \/ c \in Rollbacks /\ RollbackNext(c)
    \/ Fetch(c) \/ Abandon(c)

\* While one call acts the others are idle.
LEMMA OthersIdle ==
    ASSUME Inv, SerialOK, ~ Overlap, NEW c \in Calls, ActsCall(c), NEW d \in Calls, d # c
    PROVE  pc[d] = "idle" /\ pc'[d] = "idle"
<1>1. pc \in [Calls -> Stages]
  BY DEF Inv, TypeOK
<1>2. ASSUME Return(c) \/ NextService(c, "get") \/ NextService(c, "planned")
      PROVE  pc'[d] = pc[d]
  BY <1>1, <1>2 DEF Return, NextService, Goto
<1>3. CASE c \in Applies /\ ApplyNext(c)
  <2>1. pc'[d] = pc[d]
    BY <1>1, <1>2, <1>3 DEF ApplyNext, BeginApply, GetActual, CheckUnmanaged,
       SendImage, SendManifest, Wait, Observe, RecordApply, Goto
  <2>2. pc[c] # "idle" \/ \A e \in Calls : pc[e] = "idle"
    BY <1>3 DEF ApplyNext, BeginApply, MayBegin, GetActual, CheckUnmanaged,
       SendImage, SendManifest, Wait, Observe, RecordApply
  <2>3. QED
    BY <2>1, <2>2 DEF SerialOK
<1>4. CASE c \in Rollbacks /\ RollbackNext(c)
  <2>1. pc'[d] = pc[d]
    BY <1>1, <1>2, <1>4 DEF RollbackNext, BeginRollback, ListTraffic, ListRevisions,
       StartItem, SendTraffic, RecordRollback, Goto
  <2>2. pc[c] # "idle" \/ \A e \in Calls : pc[e] = "idle"
    BY <1>4 DEF RollbackNext, BeginRollback, MayBegin, ListTraffic, ListRevisions,
       StartItem, SendTraffic, RecordRollback
  <2>3. QED
    BY <2>1, <2>2 DEF SerialOK
<1>5. CASE Fetch(c) \/ Abandon(c)
  <2>1. pc'[d] = pc[d] /\ pc[c] # "idle"
    BY <1>1, <1>2, <1>5 DEF Fetch, Abandon, Goto
  <2>2. QED
    BY <2>1 DEF SerialOK
<1>6. QED
  BY <1>3, <1>4, <1>5 DEF ActsCall

\* No step lets the newest revision and the configuration differ.
LEMMA NextLast == Inv /\ LastOK /\ [Next]_vars => LastOK'
<1> SUFFICES ASSUME Inv, LastOK, [Next]_vars PROVE LastOK'
  OBVIOUS
<1>0. TypeOK
  BY DEF Inv
<1>1. CASE \E c \in Applies : SendImage(c)
  BY <1>0, <1>1, SendImageFields, WriteRevisions DEF SendImage
<1>2. CASE \E c \in Applies : SendManifest(c)
  BY <1>0, <1>2, SendManifestFields, WriteRevisions DEF SendManifest
<1>3. CASE \E c \in Rollbacks : SendTraffic(c)
  <2>1. PICK c \in Rollbacks : SendTraffic(c)
    BY <1>3
  <2>2. /\ service'[cur[c]].image = service[cur[c]].image
        /\ \A t \in Services \ {cur[c]} : service'[t] = service[t]
        /\ revisions' = revisions
    BY <2>1, SendTrafficFields
  <2>3. QED
    BY <2>2 DEF LastOK, Exists
<1>4. CASE \E s \in Services : StartUp(s)
  <2>1. PICK s \in Services : StartUp(s)
    BY <1>4
  <2>2. ASSUME NEW t \in Services, revisions'[t] # <<>>
        PROVE  revisions'[t][Len(revisions'[t])].image = service'[t].image
    <3>1. CloudStep
      BY <2>1, StartUpStep DEF Inv
    <3>2. Len(revisions'[t]) = Len(revisions[t]) /\ service' = service
      BY <1>0, <2>1, StartUpRevisions DEF StartUp
    <3>3. revisions[t] \in Seq(Revision) /\ revisions'[t] \in Seq(Revision)
      BY <1>0, <3>1 DEF TypeOK, CloudStep
    <3>4. Len(revisions[t]) \in 1 .. Len(revisions[t]) /\ revisions[t] # <<>>
      BY <2>2, <3>2, <3>3
    <3>5. QED
      BY <1>0, <2>1, <3>2, <3>4, StartUpRevisions DEF LastOK, Exists
  <2>3. QED
    BY <2>2 DEF LastOK, Exists
<1>5. CASE \E s \in Services : Configure(s)
  <2>1. PICK s \in Services, own \in SUBSET Settings :
          Write(s, [service[s] EXCEPT !.settings = own])
    BY <1>5 DEF Configure
  <2>2. service[s] \in Service
    BY <1>0 DEF TypeOK
  <2>3. [service[s] EXCEPT !.settings = own] \in Service
    BY <2>2 DEF Service
  <2>4. QED
    BY <1>0, <2>1, <2>3, WriteRevisions
<1>6. CASE UNCHANGED cloud
  BY <1>6 DEF LastOK, Exists, cloud
<1>7. QED
  <2>1. ASSUME NEW c \in Applies, ApplyNext(c)
        PROVE  SendImage(c) \/ SendManifest(c) \/ UNCHANGED cloud
    BY <2>1 DEF ApplyNext, BeginApply, GetActual, CheckUnmanaged, Wait, Observe, RecordApply
  <2>2. ASSUME NEW c \in Rollbacks, RollbackNext(c)
        PROVE  SendTraffic(c) \/ UNCHANGED cloud
    BY <2>2 DEF RollbackNext, BeginRollback, ListTraffic, ListRevisions, StartItem,
                RecordRollback
  <2>3. ASSUME NEW c \in Calls, Fetch(c) \/ Abandon(c)
        PROVE  UNCHANGED cloud
    BY <2>3 DEF Fetch, Abandon
  <2>4. UNCHANGED vars => UNCHANGED cloud
    BY DEF vars, cloud
  <2>5. QED
    BY <1>1, <1>2, <1>3, <1>4, <1>5, <1>6, <2>1, <2>2, <2>3, <2>4 DEF Next

\* The steps of an apply in full mode.
LEMMA ApplySync ==
    ASSUME SyncInv, ImageOnly = {}, NEW c \in Applies, ActsCall(c)
    PROVE  WaitOK(c)'
<1> USE CallAssumption
<1>0. /\ c \in Calls /\ c \notin Rollbacks /\ Inv /\ TypeOK /\ LastOK
      /\ CallOK(c) /\ WaitOK(c)
  BY DEF SyncInv, Inv, Calls
<1>1. CASE pc'[c] \notin {"wait", "observe", "record"}
  BY <1>1 DEF WaitOK
<1>2. CASE SendManifest(c)
  <2> DEFINE s == cur[c]
             i == request[c].images[s]
             new == BuildService(s, i)
             last == Len(revisions'[s])
  <2>1. s \in Services /\ new \in Service /\ Write(s, new) /\ service'[s].traffic = 0
    BY <1>0, <1>2, SendManifestFields DEF SendManifest
  <2>2. new.image = i
    BY DEF BuildService
  <2>3. rev' = [rev EXCEPT ![c] = last] /\ pc' = [pc EXCEPT ![c] = "wait"]
        /\ UNCHANGED <<cur, request>>
    BY <1>2 DEF SendManifest, Goto
  <2> HIDE DEF new, i
  <2>4. last \in Nat \ {0} /\ revisions'[s][last].image = i
    BY <1>0, <2>1, <2>2, WriteRevisions
  <2>5. pc'[c] = "wait" /\ rev'[c] = last /\ cur'[c] = s
    BY <1>0, <2>3 DEF TypeOK
  <2> HIDE DEF last, s
  <2>6. \A r \in last .. last : r = last
    BY <2>4
  <2>7. QED
    BY <2>1, <2>3, <2>4, <2>5, <2>6 DEF WaitOK, last, i, s
<1>3. CASE Wait(c) /\ pc'[c] = "observe"
  <2>1. /\ pc[c] = "wait" /\ revisions[cur[c]][rev[c]].state = "ready"
        /\ UNCHANGED <<cloud, request, cur, rev>>
    BY <1>0, <1>3 DEF Wait, Return, Goto, TypeOK
  <2>2. cur[c] \in Services
    BY <1>0, <2>1 DEF CallOK
  <2>3. rev[c] \in Ready(cur[c])
    BY <1>0, <2>1, <2>2 DEF WaitOK, Ready
  <2>4. QED
    BY <1>0, <1>3, <2>1, <2>2, <2>3 DEF WaitOK, Ready, cloud
<1>4. CASE Observe(c)
  <2> DEFINE s == cur[c]
             i == request[c].images[s]
  <2>1. /\ pc[c] = "observe" /\ rev' = [rev EXCEPT ![c] = Serving(s)]
        /\ pc' = [pc EXCEPT ![c] = "record"]
        /\ UNCHANGED <<cloud, request, cur>>
    BY <1>4 DEF Observe, Goto
  <2>2. s \in Services
    BY <1>0, <2>1 DEF CallOK
  <2>3. /\ service[s].traffic = 0 /\ rev[c] \in Ready(s)
        /\ rev[c] \in 1 .. Len(revisions[s])
        /\ \A r \in rev[c] .. Len(revisions[s]) : revisions[s][r].image = i
    BY <1>0, <2>1, <2>2 DEF WaitOK
  <2>4. Ready(s) \in SUBSET (1 .. Len(revisions[s])) /\ Len(revisions[s]) \in Nat
    BY <1>0, <2>2 DEF Ready, TypeOK
  <2>5. Max(Ready(s)) \in Ready(s) /\ Max(Ready(s)) >= rev[c]
    BY <2>3, <2>4, MaxExists
  <2>6. Serving(s) = Max(Ready(s))
    BY <2>3 DEF Serving, LatestReady
  <2>7. /\ Serving(s) \in 1 .. Len(revisions[s])
        /\ revisions[s][Serving(s)].image = i
    BY <2>3, <2>4, <2>5, <2>6
  <2>8. pc'[c] = "record" /\ rev'[c] = Serving(s) /\ cur'[c] = s
    BY <1>0, <2>1 DEF TypeOK
  <2> HIDE DEF s
  <2>9. QED
    BY <2>1, <2>7, <2>8 DEF WaitOK, cloud, s
<1>5. QED
  <2>1. ~ SendImage(c)
    BY DEF SendImage
  <2>2. ASSUME Return(c) \/ NextService(c, "get") \/ Fetch(c)
        PROVE  pc'[c] \notin {"wait", "observe", "record"}
    BY <1>0, <2>2 DEF Return, NextService, Fetch, Goto, TypeOK
  <2>3. ASSUME ApplyNext(c), ~ SendManifest(c), ~ Observe(c), ~ Wait(c)
        PROVE  pc'[c] \notin {"wait", "observe", "record"}
    BY <1>0, <2>1, <2>2, <2>3 DEF ApplyNext, BeginApply, GetActual, CheckUnmanaged,
       RecordApply, Goto, TypeOK
  <2>4. ASSUME Wait(c)
        PROVE  pc'[c] \in {"observe", "idle"}
    BY <1>0, <2>4 DEF Wait, Return, Goto, TypeOK
  <2>5. CASE ApplyNext(c)
    BY <1>1, <1>2, <1>3, <1>4, <2>3, <2>4, <2>5
  <2>6. CASE Fetch(c) \/ Abandon(c)
    BY <1>1, <2>2, <2>6 DEF Abandon
  <2>7. QED
    BY <1>0, <2>5, <2>6 DEF ActsCall

\* The surroundings change neither the calls nor the images of the revisions an
\* apply waits for.
LEMMA PlatformSync ==
    ASSUME SyncInv, NEW s \in Services, StartUp(s) \/ Configure(s), NEW a \in Applies
    PROVE  WaitOK(a)'
<1>0. a \in Calls /\ Inv /\ TypeOK /\ LastOK /\ CallOK(a) /\ WaitOK(a)
  BY DEF SyncInv, Inv, Calls
<1>1. UNCHANGED <<pc, cur, rev, request>>
  BY DEF StartUp, Configure
<1> SUFFICES ASSUME NEW t \in Services, cur[a] = t
             PROVE  /\ pc[a] \in {"wait", "observe"} =>
                          /\ service'[t].traffic = 0
                          /\ rev[a] \in 1 .. Len(revisions'[t])
                          /\ \A r \in rev[a] .. Len(revisions'[t]) :
                                revisions'[t][r].image = request[a].images[t]
                    /\ pc[a] = "observe" => rev[a] \in Ready(t)'
                    /\ pc[a] = "record" =>
                          /\ rev[a] \in 1 .. Len(revisions'[t])
                          /\ revisions'[t][rev[a]].image = request[a].images[t]
  BY <1>1 DEF WaitOK
<1>2. Len(revisions[t]) \in Nat /\ rev[a] \in Nat
  BY <1>0 DEF TypeOK
<1>3. CASE StartUp(s)
  <2>1. CloudStep /\ service' = service
    BY <1>0, <1>3, StartUpStep DEF StartUp, Inv
  <2>2. /\ Len(revisions'[t]) = Len(revisions[t])
        /\ \A r \in 1 .. Len(revisions[t]) :
              revisions'[t][r].image = revisions[t][r].image
    BY <1>0, <1>3, StartUpRevisions
  <2>3. Ready(t) \subseteq Ready(t)'
    BY <2>1 DEF CloudStep
  <2>4. QED
    BY <1>0, <1>2, <2>1, <2>2, <2>3 DEF WaitOK
<1>4. CASE Configure(s)
  <2>1. PICK own \in SUBSET Settings :
          Exists(s) /\ Write(s, [service[s] EXCEPT !.settings = own])
    BY <1>4 DEF Configure
  <2> DEFINE new == [service[s] EXCEPT !.settings = own]
  <2>2. service[s] \in Service /\ service[s].image \in Images
    BY <1>0, <2>1 DEF TypeOK, ExistsOK, Inv
  <2>3. new \in Service /\ new.image = service[s].image /\ new.traffic = service[s].traffic
    BY <2>2 DEF Service
  <2>0. Write(s, new) /\ new.image \in Images
    BY <2>1, <2>2, <2>3
  <2> HIDE DEF new
  <2>4. Ready(t) \subseteq Ready(t)'
    <3>1. CloudStep
      BY <1>0, <2>0, <2>3, WriteStep DEF Inv
    <3>2. QED
      BY <3>1 DEF CloudStep
  <2>5. /\ service'[t].traffic = service[t].traffic
        /\ t # s => revisions'[t] = revisions[t]
    BY <1>0, <2>0, <2>3, WriteFields, WriteRevisions
  <2>6. CASE t # s
    BY <1>0, <2>4, <2>5, <2>6 DEF WaitOK
  <2>7. CASE t = s
    <3>1. \/ revisions'[t] = revisions[t]
          \/ /\ Len(revisions'[t]) = Len(revisions[t]) + 1
             /\ revisions'[t][Len(revisions'[t])].image = service[t].image
             /\ \A r \in 1 .. Len(revisions[t]) : revisions'[t][r] = revisions[t][r]
      BY <1>0, <2>0, <2>3, <2>7, WriteRevisions
    <3>2. service[t].image = revisions[t][Len(revisions[t])].image
      BY <1>0, <2>1, <2>7 DEF LastOK
    <3>3. pc[a] \in {"wait", "observe"} =>
             /\ rev[a] \in 1 .. Len(revisions[t])
             /\ service[t].image = request[a].images[t]
             /\ \A r \in rev[a] .. Len(revisions[t]) :
                   revisions[t][r].image = request[a].images[t]
      BY <1>0, <1>2, <3>2 DEF WaitOK
    <3>4. CASE revisions'[t] = revisions[t]
      BY <1>0, <2>4, <2>5, <3>4 DEF WaitOK
    <3>5. CASE revisions'[t] # revisions[t]
      <4>1. ASSUME pc[a] \in {"wait", "observe"}, NEW r \in rev[a] .. Len(revisions'[t])
            PROVE  revisions'[t][r].image = request[a].images[t]
        BY <1>2, <3>1, <3>3, <3>5, <4>1
      <4>2. QED
        BY <1>0, <1>2, <2>4, <2>5, <3>1, <3>3, <3>5, <4>1 DEF WaitOK
    <3>6. QED
      BY <3>4, <3>5
  <2>8. QED
    BY <2>6, <2>7
<1>5. QED
  BY <1>3, <1>4

\* All steps, one call after the other.
LEMMA NextSync ==
    ASSUME ~ Overlap, ImageOnly = {}
    PROVE  SyncInv /\ [Next]_vars => SyncInv'
<1> SUFFICES ASSUME SyncInv, [Next]_vars PROVE SyncInv'
  OBVIOUS
<1>1. Inv /\ Inv' /\ SerialOK /\ LastOK'
  BY NextInv, NextLast DEF SyncInv
<1> SUFFICES SerialOK' /\ \A a \in Applies : WaitOK(a)'
  BY <1>1 DEF SyncInv
<1>2. CASE \E c \in Calls : ActsCall(c)
  <2>1. PICK c \in Calls : ActsCall(c)
    BY <1>2
  <2>2. \A d \in Calls : d # c => pc'[d] = "idle"
    BY <1>1, <2>1, OthersIdle
  <2>3. ASSUME NEW a \in Applies
        PROVE  WaitOK(a)'
    <3>1. CASE a = c
      BY <2>1, <3>1, ApplySync
    <3>2. CASE a # c
      BY <2>2, <3>2 DEF WaitOK, Calls
    <3>3. QED
      BY <3>1, <3>2
  <2>4. QED
    BY <2>2, <2>3 DEF SerialOK
<1>3. CASE \E s \in Services : StartUp(s) \/ Configure(s)
  BY <1>1, <1>3, PlatformSync DEF StartUp, Configure, SerialOK
<1>4. CASE UNCHANGED vars
  BY <1>1, <1>4 DEF SyncInv, SerialOK, WaitOK, Ready, vars
<1>5. QED
  BY <1>2, <1>3, <1>4 DEF Next, ActsCall, Calls

\* In full mode, with calls one after the other, an apply that reports a service
\* in sync found the desired image serving, though Terraform makes revisions
\* while it waits: a full update takes the traffic off every older revision, and
\* what is added meanwhile runs the same image.
THEOREM InSyncServes ==
    ASSUME ~ Overlap, ImageOnly = {}
    PROVE  Spec => InSyncMeansServing
<1>1. Init => SyncInv
  <2> SUFFICES ASSUME Init PROVE SyncInv
    OBVIOUS
  <2>1. Inv /\ \A c \in Calls : pc[c] = "idle"
    BY InitInv DEF Init
  <2>2. LastOK
    <3> SUFFICES ASSUME NEW s \in Services, revisions[s] # <<>>
                 PROVE  revisions[s][Len(revisions[s])].image = service[s].image
      BY DEF LastOK, Exists
    <3>1. revisions[s] = <<[image |-> InitialImage, state |-> "ready"]>>
      BY DEF Init
    <3>2. service[s].image = InitialImage
      BY DEF Init
    <3>3. QED
      BY <3>1, <3>2
  <2>3. QED
    BY <2>1, <2>2 DEF SyncInv, SerialOK, WaitOK, Calls
<1>2. SyncInv /\ [Next]_vars => SyncInv'
  BY NextSync
<1>3. SyncInv /\ [Next]_vars =>
        [\A c \in Applies : RecordApply(c) =>
           revisions[cur[c]][rev[c]].image = request[c].images[cur[c]]]_vars
  <2> SUFFICES ASSUME SyncInv, NEW c \in Applies, RecordApply(c)
               PROVE  revisions[cur[c]][rev[c]].image = request[c].images[cur[c]]
    OBVIOUS
  <2>1. pc[c] = "record" /\ CallOK(c) /\ WaitOK(c)
    BY DEF RecordApply, SyncInv, Inv, Calls
  <2>2. QED
    BY <2>1 DEF CallOK, WaitOK
<1>4. QED
  BY <1>1, <1>2, <1>3, PTL DEF Spec, InSyncMeansServing

=============================================================================

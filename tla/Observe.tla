------------------------------ MODULE Observe ------------------------------
(***************************************************************************)
(* What the Connect server tells its clients: Status, Inventory, Timeline, *)
(* Activity and the previews of rollbacks (internal/server; status.go,     *)
(* inventory.go, timeline.go, rollback.go and history.go of internal/core),*)
(* computed from the manifests, from Cloud Run and from the history store, *)
(* while others deploy, split traffic and edit manifests.                  *)
(*                                                                         *)
(* Every answer is computed from one state here; Deployment has the        *)
(* interleavings within a call.  Images, revisions and shares stand for    *)
(* the fields the views compare; texts, links and times are left out.      *)
(***************************************************************************)
EXTENDS Naturals, Sequences, FiniteSets, FiniteSetsExt

CONSTANTS
    Envs,
    Services,       \* manifest identities
    Project,        \* environment -> GCP project
    RunName,        \* environment -> service -> Cloud Run name
    Others,         \* names of Cloud Run services that have no manifest
    Images,
    InitialImage,
    Digest,         \* image -> its digest, None for a tag
    Calls,          \* clients of the server that change Cloud Run
    Shares,         \* the ways a console divides traffic, as shares
    DefaultLimit,   \* the entries of a timeline without a limit
    Busy,           \* bound: the environments in which things happen
    Running,        \* the names of the services that run elsewhere
    MaxRevisions,   \* bound: revisions of a service
    MaxRows,        \* bound: rows of the history store
    None

Pinned == {i \in Images : Digest[i] # None}
Names == {RunName[e][s] : e \in Envs, s \in Services} \cup Others
Places == {Project[e] : e \in Envs} \X Names
Place(e, s) == <<Project[e], RunName[e][s]>>

ASSUME NamesAssumption ==
    /\ Busy \subseteq Envs
    /\ \A e \in Envs, s, t \in Services : RunName[e][s] = RunName[e][t] => s = t
    /\ \A e \in Envs, s \in Services : RunName[e][s] \notin Others
ASSUME BoundAssumption ==
    MaxRevisions \in Nat \ {0} /\ MaxRows \in Nat /\ DefaultLimit \in Nat \ {0}

Total(share) ==
    LET sum[i \in 0 .. Len(share)] == IF i = 0 THEN 0 ELSE sum[i - 1] + share[i]
    IN sum[Len(share)]

\* Cloud Run takes no division of traffic that is not one of all of it.
ASSUME SharesAssumption ==
    Shares \subseteq {share \in Seq(1 .. 100) : Total(share) = 100}

ASSUME ImageAssumption == InitialImage \in Pinned /\ None \notin Images

\* Revisions are numbered as they are created; 0 stands for none, and as the
\* target of traffic for the latest ready revision.
Revision == [image : Images, state : {"pending", "ready", "failed"}]
Target == [revision : 0 .. MaxRevisions, percent : 1 .. 100]
Row == [action : {"apply", "rollback"}, env : Envs, service : Services,
        digest : {Digest[i] : i \in Images}, revision : 0 .. MaxRevisions]
Call == [kind : {"apply", "preview", "route", "record"},
         env : Envs, service : Services,
         to : 1 .. MaxRevisions, shown : 0 .. MaxRevisions, fresh : BOOLEAN]

ASSUME NoneAssumption == None \notin Call \cup Services

VARIABLES
    desired,    \* environment -> service -> the image in the manifest
    revisions,  \* place -> its revisions, oldest first; none: no service
    traffic,    \* place -> its traffic targets
    history,    \* the rows of the history store, oldest first
    call        \* what each client asks the server to do, or None

cloud == <<revisions, traffic>>
vars == <<desired, cloud, history, call>>

-----------------------------------------------------------------------------
(* Cloud Run as the client reads it *)

Exists(p) == revisions[p] # <<>>

Ready(p) == {r \in DOMAIN revisions[p] : revisions[p][r].state = "ready"}

LatestReady(p) == IF Ready(p) = {} THEN 0 ELSE Max(Ready(p))

Resolve(p, r) == IF r = 0 THEN LatestReady(p) ELSE r

\* The target with the largest share, the last one of equals: what
\* Client.deployed looks at target by target.
Serving(p) ==
    LET split == traffic[p]
        largest == {i \in DOMAIN split :
                        \A j \in DOMAIN split : split[j].percent <= split[i].percent}
    IN IF split = <<>> THEN LatestReady(p) ELSE Resolve(p, split[Max(largest)].revision)

ImageOf(p, r) == IF r = 0 THEN None ELSE revisions[p][r].image

DigestOf(image) == IF image = None THEN None ELSE Digest[image]

\* The service is ready when its newest revision is.
Deployed(p) ==
    LET r == Serving(p)
    IN [revision |-> r, image |-> ImageOf(p, r),
        ready |-> revisions[p][Len(revisions[p])].state = "ready"]

\* Shares add up by revision.
TrafficByRevision(p, r) ==
    Total([i \in DOMAIN traffic[p] |->
              IF Resolve(p, traffic[p][i].revision) = r THEN traffic[p][i].percent ELSE 0])

\* ListRevisions, newest first.
Listed(p) ==
    [k \in DOMAIN revisions[p] |->
        LET r == Len(revisions[p]) + 1 - k
        IN [revision |-> r, image |-> revisions[p][r].image,
            ready |-> revisions[p][r].state = "ready",
            percent |-> TrafficByRevision(p, r)]]

-----------------------------------------------------------------------------
(* The views *)

Digests == {Digest[i] : i \in Images}

ServiceStatus == [
    service : Services, runName : Names, desired : Digests,
    actual : Digests \cup {None}, revision : 0 .. MaxRevisions, ready : BOOLEAN,
    state : {"SYNC_STATE_IN_SYNC", "SYNC_STATE_DRIFT", "SYNC_STATE_NOT_DEPLOYED"}]

InventoryItem == [
    env : Envs, service : Names, managed : BOOLEAN, manifest : Services \cup {None},
    desired : Digests \cup {None}, actual : Digests \cup {None},
    revision : 0 .. MaxRevisions, ready : BOOLEAN,
    state : {"INVENTORY_STATE_IN_SYNC", "INVENTORY_STATE_DRIFT",
             "INVENTORY_STATE_NOT_DEPLOYED", "INVENTORY_STATE_UNMANAGED"}]

TimelineEntry == [
    revision : 1 .. MaxRevisions, digest : Digests \cup {None}, ready : BOOLEAN,
    percent : 0 .. 100, current : BOOLEAN, desired : BOOLEAN]

HistoryEntry == [
    action : {"ACTION_APPLY", "ACTION_ROLLBACK"}, env : Envs, service : Services,
    digest : Digests \cup {None}, revision : 0 .. MaxRevisions]

Comparison(actual, wanted) == IF actual = wanted THEN "InSync" ELSE "Drift"

\* Engine.Status, one row per manifest.
Status(e, s) ==
    IF Exists(Place(e, s))
    THEN LET d == Deployed(Place(e, s)) IN
         [service |-> s, runName |-> RunName[e][s],
          desired |-> Digest[desired[e][s]], actual |-> DigestOf(d.image),
          revision |-> d.revision, ready |-> d.ready,
          state |-> Comparison(DigestOf(d.image), Digest[desired[e][s]])]
    ELSE [service |-> s, runName |-> RunName[e][s],
          desired |-> Digest[desired[e][s]], actual |-> None,
          revision |-> 0, ready |-> FALSE, state |-> "NotDeployed"]

SyncStates == [state \in {"InSync", "Drift", "NotDeployed"} |->
    CASE state = "InSync" -> "SYNC_STATE_IN_SYNC"
      [] state = "Drift" -> "SYNC_STATE_DRIFT"
      [] state = "NotDeployed" -> "SYNC_STATE_NOT_DEPLOYED"]

StatusMessage(e, s) == [Status(e, s) EXCEPT !.state = SyncStates[@]]

\* Mutant of Managed: the manifests are keyed by their own names.
ManagedByService(e) == [name \in Services |-> name]

\* Cloud Run name -> the service whose manifest names it.
Managed(e) ==
    [name \in {RunName[e][s] : s \in Services} |->
        CHOOSE s \in Services : RunName[e][s] = name]

ActualItem(e, name) ==
    LET d == Deployed(<<Project[e], name>>)
    IN [env |-> e, service |-> name, managed |-> FALSE, manifest |-> None,
        desired |-> None, actual |-> DigestOf(d.image), revision |-> d.revision,
        ready |-> d.ready, state |-> "Unmanaged"]

Joined(item, s, wanted) ==
    [item EXCEPT !.managed = TRUE, !.manifest = s, !.desired = wanted,
                 !.state = Comparison(item.actual, wanted)]

MissingItem(e, name, s, wanted) ==
    [env |-> e, service |-> name, managed |-> TRUE, manifest |-> s,
     desired |-> wanted, actual |-> None, revision |-> 0, ready |-> FALSE,
     state |-> "NotDeployed"]

\* Client.ListServices: what runs in the environment's project.
ListServices(e) == {name \in Names : Exists(<<Project[e], name>>)}

\* Engine.Inventory: what runs in the environment's project, joined with the
\* manifests, and the manifests of what does not run.
Inventory(e) ==
    LET managed == Managed(e)
        running == ListServices(e)
        wanted(name) == Digest[desired[e][managed[name]]]
    IN {Joined(ActualItem(e, name), managed[name], wanted(name)) :
            name \in running \cap DOMAIN managed}
       \cup {ActualItem(e, name) : name \in running \ DOMAIN managed}
       \cup {MissingItem(e, name, managed[name], wanted(name)) :
            name \in DOMAIN managed \ running}

InventoryStates == [state \in {"InSync", "Drift", "NotDeployed", "Unmanaged"} |->
    CASE state = "InSync" -> "INVENTORY_STATE_IN_SYNC"
      [] state = "Drift" -> "INVENTORY_STATE_DRIFT"
      [] state = "NotDeployed" -> "INVENTORY_STATE_NOT_DEPLOYED"
      [] state = "Unmanaged" -> "INVENTORY_STATE_UNMANAGED"]

InventoryMessage(e) ==
    {[item EXCEPT !.state = InventoryStates[@]] : item \in Inventory(e)}

\* Mutant of CurrentRevision: the newest revision with any traffic.
NewestWithTraffic(rows) ==
    LET served == {k \in DOMAIN rows : rows[k].percent > 0}
    IN IF served = {} THEN 0 ELSE rows[Min(served)].revision

\* The first of the largest, or none.
CurrentRevision(rows) ==
    LET served == {k \in DOMAIN rows : rows[k].percent > 0}
        largest == {k \in served : \A j \in served : rows[j].percent <= rows[k].percent}
    IN IF served = {} THEN 0 ELSE rows[Min(largest)].revision

\* The entries of one service in the timeline: the newest revisions up to
\* the limit, marked.  A service that does not exist is an error.
ServiceTimeline(e, s, limit) ==
    LET p == Place(e, s)
        rows == SubSeq(Listed(p), 1, Min({limit, Len(revisions[p])}))
        current == CurrentRevision(rows)
    IN [k \in DOMAIN rows |->
          [revision |-> rows[k].revision, digest |-> DigestOf(rows[k].image),
           ready |-> rows[k].ready, percent |-> rows[k].percent,
           current |-> rows[k].revision = current,
           desired |-> DigestOf(rows[k].image) = Digest[desired[e][s]]]]

\* The answer to a request for one service, whose limit may be left out.
Timeline(e, s, limit) == ServiceTimeline(e, s, IF limit = 0 THEN DefaultLimit ELSE limit)

\* The whole answer is an error when the service does not exist.
TimelineMessage(e, s, limit) ==
    IF Exists(Place(e, s)) THEN Timeline(e, s, limit) ELSE None

\* rollbackTarget without --revision, which the web UI does not send: the
\* newest ready revision older than the newest that has traffic, or none.
RollbackTarget(p) ==
    LET rows == Listed(p)
        served == {k \in DOMAIN rows : rows[k].percent > 0}
        older == {k \in DOMAIN rows : rows[k].ready /\ k > Min(served)}
    IN IF served = {} \/ older = {} THEN None
       ELSE [from |-> rows[Min(served)].revision, to |-> rows[Min(older)].revision]

\* What the dialog shows of a plan.
RollbackMessage(p) ==
    LET plan == RollbackTarget(p)
    IN [current |-> plan.from, currentImage |-> ImageOf(p, plan.from),
        target |-> plan.to, targetImage |-> ImageOf(p, plan.to)]

\* The rows of an environment, newest first.
NewestFirst(rows, e) ==
    LET listed[n \in 0 .. Len(rows)] ==
          IF n = 0 THEN <<>>
          ELSE IF rows[n].env = e THEN <<rows[n]>> \o listed[n - 1] ELSE listed[n - 1]
    IN listed[Len(rows)]

\* At most limit of them.
Activity(e, limit) ==
    LET mine == NewestFirst(history, e)
    IN SubSeq(mine, 1, Min({limit, Len(mine)}))

Actions == [action \in {"apply", "rollback"} |->
    IF action = "apply" THEN "ACTION_APPLY" ELSE "ACTION_ROLLBACK"]

ActivityMessage(e, limit) ==
    LET rows == Activity(e, limit)
    IN [k \in DOMAIN rows |-> [rows[k] EXCEPT !.action = Actions[@]]]

-----------------------------------------------------------------------------
(* What happens *)

TypeOK ==
    /\ desired \in [Envs -> [Services -> Pinned]]
    /\ revisions \in [Places -> Seq(Revision)]
    /\ traffic \in [Places -> Seq(Target)]
    /\ history \in Seq(Row)
    /\ call \in [Calls -> Call \cup {None}]
    /\ \A e \in Envs :
         /\ InventoryMessage(e) \subseteq InventoryItem
         /\ ActivityMessage(e, MaxRows) \in Seq(HistoryEntry)
         /\ \A s \in Services :
              /\ StatusMessage(e, s) \in ServiceStatus
              /\ TimelineMessage(e, s, 0) \in Seq(TimelineEntry) \cup {None}

Init ==
    /\ desired = [e \in Envs |-> [s \in Services |-> InitialImage]]
    /\ revisions \in [Places -> {<<>>, <<[image |-> InitialImage, state |-> "ready"]>>}]
    /\ \A p \in Places \ {Place(e, s) : e \in Busy, s \in Services} :
         Exists(p) <=> p[2] \in Running
    /\ traffic = [p \in Places |->
                    IF revisions[p] = <<>> THEN <<>>
                    ELSE <<[revision |-> 0, percent |-> 100]>>]
    /\ history = <<>>
    /\ call = [c \in Calls |-> None]

\* A change of a service outdates what was previewed for it.
Touch(p, stale) ==
    call' = [c \in Calls |->
               IF stale[c] # None /\ Place(stale[c].env, stale[c].service) = p
               THEN [stale[c] EXCEPT !.fresh = FALSE] ELSE stale[c]]

\* A commit changes a manifest.
EditManifest(e, s) ==
    /\ \E i \in Pinned \ {desired[e][s]} :
         desired' = [desired EXCEPT ![e][s] = i]
    /\ UNCHANGED <<cloud, history, call>>

NewRevision(p, i) ==
    /\ Len(revisions[p]) < MaxRevisions
    /\ revisions' = [revisions EXCEPT ![p] = Append(@, [image |-> i, state |-> "pending"])]

\* Another tool deploys; traffic stays as it is divided.
DeployOutside(p) ==
    /\ \E i \in Images : NewRevision(p, i)
    /\ traffic' = IF Exists(p) THEN traffic
                  ELSE [traffic EXCEPT ![p] = <<[revision |-> 0, percent |-> 100]>>]
    /\ Touch(p, call)
    /\ UNCHANGED <<desired, history>>

\* Someone divides the traffic among ready revisions in the console.
DivideTraffic(p) ==
    /\ Ready(p) # {}
    /\ \E split \in Shares : \E to \in [DOMAIN split -> {0} \cup Ready(p)] :
         /\ \A i, j \in DOMAIN split : to[i] = to[j] => i = j
         /\ traffic' = [traffic EXCEPT ![p] =
                [i \in DOMAIN split |-> [revision |-> to[i], percent |-> split[i]]]]
    /\ traffic' # traffic
    /\ UNCHANGED <<desired, revisions, history>>
    /\ Touch(p, call)

\* A revision becomes ready or fails.
Settle(p) ==
    /\ \E r \in DOMAIN revisions[p], state \in {"ready", "failed"} :
         /\ revisions[p][r].state = "pending"
         /\ revisions' = [revisions EXCEPT ![p][r].state = state]
    /\ UNCHANGED <<desired, traffic, history>>
    /\ Touch(p, call)

\* Apply in full mode: a new revision of the manifest's image, and all
\* traffic to the latest.
Apply(c, e, s) ==
    LET p == Place(e, s)
        request == [kind |-> "apply", env |-> e, service |-> s,
                    to |-> Len(revisions[p]) + 1, shown |-> 0, fresh |-> FALSE]
    IN
    /\ call[c] = None
    /\ NewRevision(p, desired[e][s])
    /\ traffic' = [traffic EXCEPT ![p] = <<[revision |-> 0, percent |-> 100]>>]
    /\ Touch(p, [call EXCEPT ![c] = request])
    /\ UNCHANGED <<desired, history>>

Record(row) == history' = Append(history, row)

\* The new revision is ready: the operation is recorded with what serves.
FinishApply(c) ==
    LET q == call[c]
        p == Place(q.env, q.service)
    IN
    /\ q # None /\ q.kind = "apply"
    /\ revisions[p][q.to].state = "ready"
    /\ Len(history) < MaxRows
    /\ Record([action |-> "apply", env |-> q.env, service |-> q.service,
               digest |-> Digest[revisions[p][q.to].image],
               revision |-> Deployed(p).revision])
    /\ call' = [call EXCEPT ![c] = None]
    /\ UNCHANGED <<desired, cloud>>

\* The new revision has failed: the call ends without a record.
FailApply(c) ==
    LET q == call[c] IN
    /\ q # None /\ q.kind = "apply"
    /\ revisions[Place(q.env, q.service)][q.to].state = "failed"
    /\ call' = [call EXCEPT ![c] = None]
    /\ UNCHANGED <<desired, cloud, history>>

\* PlanRollback, for the confirmation in the web UI.
PreviewRollback(c, e, s) ==
    LET p == Place(e, s) IN
    /\ call[c] = None
    /\ Exists(p) /\ RollbackTarget(p) # None
    /\ call' = [call EXCEPT ![c] =
         [kind |-> "preview", env |-> e, service |-> s, to |-> RollbackTarget(p).to,
          shown |-> RollbackMessage(p).target, fresh |-> TRUE]]
    /\ UNCHANGED <<desired, cloud, history>>

\* Mutant of ConfirmRollback: a plan that fails is executed.
ConfirmUnplanned(c) ==
    LET q == call[c]
        plan == RollbackTarget(Place(q.env, q.service))
    IN
    /\ q # None /\ q.kind = "preview"
    /\ call' = [call EXCEPT ![c] = [q EXCEPT
         !.kind = "route", !.to = IF plan = None THEN 0 ELSE plan.to]]
    /\ UNCHANGED <<desired, cloud, history>>

\* ExecuteRollback plans again from the request; no plan is an error.
ConfirmRollback(c) ==
    LET q == call[c]
        plan == RollbackTarget(Place(q.env, q.service))
    IN
    /\ q # None /\ q.kind = "preview"
    /\ call' = [call EXCEPT ![c] =
         IF plan = None THEN None ELSE [q EXCEPT !.kind = "route", !.to = plan.to]]
    /\ UNCHANGED <<desired, cloud, history>>

\* Mutant of Route: the latest revision is served instead of the target.
RouteLatest(c) ==
    /\ call[c] # None /\ call[c].kind = "route"
    /\ \E p \in {Place(call[c].env, call[c].service)} :
         /\ traffic' = [traffic EXCEPT ![p] = <<[revision |-> 0, percent |-> 100]>>]
         /\ Touch(p, [call EXCEPT ![c].kind = "record"])
    /\ UNCHANGED <<desired, revisions, history>>

\* SetTraffic: everything to the target.
Route(c) ==
    /\ call[c] # None /\ call[c].kind = "route"
    /\ \E p \in {Place(call[c].env, call[c].service)} :
         /\ traffic' = [traffic EXCEPT ![p] =
                          <<[revision |-> call[c].to, percent |-> 100]>>]
         /\ Touch(p, [call EXCEPT ![c].kind = "record"])
    /\ UNCHANGED <<desired, revisions, history>>

RecordRollback(c) ==
    LET q == call[c]
        p == Place(q.env, q.service)
    IN
    /\ q # None /\ q.kind = "record"
    /\ Len(history) < MaxRows
    /\ Record([action |-> "rollback", env |-> q.env, service |-> q.service,
               digest |-> DigestOf(ImageOf(p, q.to)), revision |-> q.to])
    /\ call' = [call EXCEPT ![c] = None]
    /\ UNCHANGED <<desired, cloud>>

\* A client cancels, or a request ends early: its connection or the server is
\* gone.
Abandon(c) ==
    /\ call[c] # None
    /\ call' = [call EXCEPT ![c] = None]
    /\ UNCHANGED <<desired, cloud, history>>

Next ==
    \/ \E e \in Busy, s \in Services :
         \/ EditManifest(e, s)
         \/ DeployOutside(Place(e, s))
         \/ DivideTraffic(Place(e, s))
         \/ Settle(Place(e, s))
         \/ \E c \in Calls : Apply(c, e, s) \/ PreviewRollback(c, e, s)
    \/ \E c \in Calls :
         \/ FinishApply(c) \/ FailApply(c)
         \/ ConfirmRollback(c) \/ Route(c) \/ RecordRollback(c)
         \/ Abandon(c)

Spec == Init /\ [][Next]_vars

(***************************************************************************)
(* Properties                                                              *)
(***************************************************************************)
\* Status asks Cloud Run service by service, Inventory lists a project and
\* joins it by Cloud Run name (status.go:53, inventory.go:54): every manifest
\* has one item there, which says what its Status row says, and what is listed
\* without a manifest is nothing the environment's manifests name.
ViewsAgree ==
    \A e \in Envs : LET items == InventoryMessage(e) IN
      /\ \A s \in Services :
           LET row == StatusMessage(e, s)
               mine == {item \in items : item.service = row.runName}
           IN /\ Cardinality(mine) = 1
              /\ \A item \in mine :
                   /\ item.managed /\ item.manifest = s
                   /\ item.desired = row.desired /\ item.actual = row.actual
                   /\ item.revision = row.revision /\ item.ready = row.ready
                   /\ item.state = "INVENTORY_STATE_IN_SYNC"
                        <=> row.state = "SYNC_STATE_IN_SYNC"
                   /\ item.state = "INVENTORY_STATE_NOT_DEPLOYED"
                        <=> row.state = "SYNC_STATE_NOT_DEPLOYED"
      /\ \A item \in items :
           item.managed <=> \E s \in Services : RunName[e][s] = item.service

\* One revision serves more than any other, and no revision twice.
ClearlyServes(p, r) ==
    /\ TrafficByRevision(p, r) > 0
    /\ \A q \in DOMAIN revisions[p] \ {r} :
         TrafficByRevision(p, q) < TrafficByRevision(p, r)
    /\ \A i, j \in DOMAIN traffic[p] :
         Resolve(p, traffic[p][i].revision) = Resolve(p, traffic[p][j].revision)
           => i = j

\* Current and desired on different entries of the timeline is what drift means
\* (timeline.go:46): the revision that clearly serves is the one Status names,
\* and unless the limit has cut it off it is the one entry marked current, which
\* is marked desired exactly when Status says in sync.
DriftExplained ==
    \A e \in Envs, s \in Services :
      LET p == Place(e, s)
          row == StatusMessage(e, s)
      IN \A r \in DOMAIN revisions[p] : ClearlyServes(p, r) =>
           /\ row.revision = r
           /\ \A limit \in 0 .. MaxRevisions :
                LET entries == TimelineMessage(e, s, limit)
                    reached == Len(entries) > Len(revisions[p]) - r
                IN reached =>
                \A k \in DOMAIN entries :
                  /\ entries[k].current <=> entries[k].revision = r
                  /\ entries[k].current =>
                       (entries[k].desired <=> row.state = "SYNC_STATE_IN_SYNC")

\* The preview shown before a confirm prompt (rollback.go:21) and the plan the
\* server derives again (server.go:180) are the same unless the service has
\* changed: what serves then is what was confirmed, it is ready, and it is older
\* than something that was serving.
RollsBackAsPreviewed ==
    [][\A c \in Calls :
         call[c] # None /\ call[c].kind = "route" /\ call[c].fresh
           /\ call'[c] # None /\ call'[c].kind = "record"
         => \A p \in {Place(call[c].env, call[c].service)}, r \in {call[c].shown} :
              /\ Serving(p)' = r
              /\ revisions[p][r].state = "ready"
              /\ \E q \in DOMAIN revisions[p] :
                   q > r /\ TrafficByRevision(p, q) > 0]_vars

\* Status reports the revision currently serving the largest share of traffic
\* (cloudrun/client.go:23).
StatusNamesLargest ==
    \A e \in Envs, s \in Services :
      LET p == Place(e, s)
      IN Exists(p) /\ Serving(p) # 0 =>
           \A q \in DOMAIN revisions[p] :
             TrafficByRevision(p, q) <= TrafficByRevision(p, Status(e, s).revision)
=============================================================================

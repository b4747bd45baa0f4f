----------------------------- MODULE Deployment -----------------------------
(***************************************************************************)
(* wataridori apply and wataridori rollback against the Cloud Run services *)
(* of one environment (core/apply.go, core/rollback.go, cloudrun/*.go).    *)
(*                                                                         *)
(* Every request to Cloud Run is a step of its own: between a call's       *)
(* requests other calls, the platform and Terraform take steps.  Cloud Run *)
(* is external: it is modelled from the requests the client builds and     *)
(* what it reads back (revisions that become ready or fail, an etag that   *)
(* refuses an update made from a stale read, field masks).                 *)
(*                                                                         *)
(* Dry runs only read and are left out.  Every write raises the etag;      *)
(* MaxWrites bounds the writes of each service.                            *)
(***************************************************************************)
EXTENDS Naturals, Sequences, FiniteSetsExt

CONSTANTS
    Services,           \* the services of the environment
    Images,             \* digest-pinned images
    ContainerSettings,  \* settings in template.containers no manifest expresses
    TemplateSettings,   \* such settings elsewhere in the template
    UnlistedSettings,   \* such settings UnmanagedSettings does not look for
    ImageOnly,          \* the services whose applyMode is image-only
    Applies,            \* the callers of apply
    Rollbacks,          \* the callers of rollback
    InitialImage,
    Overlap,            \* calls run concurrently (else one after the other)
    OutsideAnytime,     \* others configure services while calls run
    MayForce,           \* apply is given --force at times
    MaxWrites,
    None

Calls == Applies \cup Rollbacks
Settings == ContainerSettings \cup TemplateSettings \cup UnlistedSettings

ASSUME ServiceAssumption == ImageOnly \subseteq Services
ASSUME ImageAssumption == InitialImage \in Images
ASSUME CallAssumption == Applies \cap Rollbacks = {}
ASSUME FlagAssumption == {Overlap, OutsideAnytime, MayForce} \subseteq BOOLEAN
ASSUME WritesAssumption == MaxWrites \in Nat
ASSUME NoneAssumption == None \notin Services \cup Images

VARIABLES
    service,    \* each service's configuration in Cloud Run
    revisions,  \* each service's revisions, oldest first; none: no service
    history,    \* the entries of the history store
    pc,         \* where each call stands
    request,    \* what each apply deploys: the manifests it loaded, --force
    plan,       \* the items of each rollback
    todo,       \* the services a call's loop has not finished
    cur,        \* the service its current iteration works on
    snap,       \* the service as the call read it last
    rev         \* the revision it waits for, then the one it saw serving

cloud == <<service, revisions>>
vars == <<service, revisions, history, pc, request, plan, todo, cur, snap, rev>>

\* traffic 0 follows the latest ready revision, another number pins one.
Service == [image : Images \cup {None}, settings : SUBSET Settings,
            traffic : Nat, etag : Nat]
Revision == [image : Images, state : {"pending", "ready", "failed"}]
Request == [images : [Services -> Images], force : BOOLEAN]
RollbackItem == [from : Nat, to : Nat, explicit : BOOLEAN]
Entry == [action : {"apply", "rollback"}, service : Services,
          image : Images, revision : Nat]

Stages == {"idle", "get", "unmanaged", "fetch", "send", "wait", "observe",
           "record", "traffic", "revisions", "planned"}

TypeOK ==
    /\ service \in [Services -> Service]
    /\ revisions \in [Services -> Seq(Revision)]
    /\ history \subseteq Entry
    /\ pc \in [Calls -> Stages]
    /\ request \in [Applies -> Request \cup {None}]
    /\ plan \in [Rollbacks -> [Services -> RollbackItem \cup {None}]]
    /\ todo \in [Calls -> SUBSET Services]
    /\ cur \in [Calls -> Services \cup {None}]
    /\ snap \in [Calls -> Service \cup {None}]
    /\ rev \in [Calls -> Nat]

NoPlan == [s \in Services |-> None]

\* A service exists and serves, with settings someone else gave it, or is yet
\* to be created.
Init ==
    /\ revisions \in [Services -> {<<>>, <<[image |-> InitialImage, state |-> "ready"]>>}]
    /\ service \in [Services -> [image : {InitialImage, None},
                                 settings : SUBSET Settings,
                                 traffic : {0}, etag : {0}]]
    /\ \A s \in Services :
        IF revisions[s] = <<>>
        THEN service[s].image = None /\ service[s].settings = {}
        ELSE service[s].image = InitialImage
    /\ history = {}
    /\ pc = [c \in Calls |-> "idle"]
    /\ request = [c \in Applies |-> None]
    /\ plan = [c \in Rollbacks |-> NoPlan]
    /\ todo = [c \in Calls |-> {}]
    /\ cur = [c \in Calls |-> None]
    /\ snap = [c \in Calls |-> None]
    /\ rev = [c \in Calls |-> 0]

-----------------------------------------------------------------------------
(* Cloud Run *)

Exists(s) == revisions[s] # <<>>

Ready(s) == {r \in 1 .. Len(revisions[s]) : revisions[s][r].state = "ready"}

LatestReady(s) == IF Ready(s) = {} THEN 0 ELSE Max(Ready(s))

\* The revision that serves: the pinned one, or else the latest ready one.
Serving(s) == IF service[s].traffic # 0 THEN service[s].traffic ELSE LatestReady(s)

\* Cloud Run takes a new configuration: a template that differs from the
\* latest one makes a revision.
Write(s, new) ==
    /\ service[s].etag < MaxWrites
    /\ service' = [service EXCEPT ![s] = [new EXCEPT !.etag = service[s].etag + 1]]
    /\ revisions' =
        IF Exists(s) /\ new.image = service[s].image /\ new.settings = service[s].settings
        THEN revisions
        ELSE [revisions EXCEPT ![s] = Append(@, [image |-> new.image, state |-> "pending"])]

\* An update that carries the etag of an earlier read is refused when the
\* service has been written since.
Fresh(c) == snap[c].etag = service[cur[c]].etag

\* A revision passes its startup check, or fails it.
StartUp(s) ==
    /\ \E r \in 1 .. Len(revisions[s]), state \in {"ready", "failed"} :
        /\ revisions[s][r].state = "pending"
        /\ revisions' = [revisions EXCEPT ![s][r].state = state]
    /\ UNCHANGED <<service, history, pc, request, plan, todo, cur, snap, rev>>

\* Terraform, gcloud or the console changes the settings it owns.
Configure(s) ==
    /\ Exists(s)
    /\ OutsideAnytime \/ \A c \in Calls : pc[c] = "idle"
    /\ \E own \in SUBSET Settings \ {service[s].settings} :
        Write(s, [service[s] EXCEPT !.settings = own])
    /\ UNCHANGED <<history, pc, request, plan, todo, cur, snap, rev>>

-----------------------------------------------------------------------------
(* The requests the client builds *)

\* Mutant: the traffic of the running service is left as it is.
BuildServiceKeepingTraffic(s, i) ==
    [image |-> i, settings |-> {}, traffic |-> service[s].traffic, etag |-> 0]

\* The manifest and nothing else, all traffic to the latest revision; no etag.
BuildService(s, i) == [image |-> i, settings |-> {}, traffic |-> 0, etag |-> 0]

\* A clone of the service as it was read, with another image or with another
\* traffic.  Each goes out with a mask.
BuildImageOnlyUpdate(read, i) == [read EXCEPT !.image = i]

BuildTrafficUpdate(read, r) == [read EXCEPT !.traffic = r]

\* What Cloud Run takes of an update with the mask template.containers, and
\* with the mask traffic: the rest stays what it is.
TakeContainers(s, update) ==
    [service[s] EXCEPT
        !.image = update.image,
        !.settings = (update.settings \cap ContainerSettings) \cup (@ \ ContainerSettings)]

TakeTraffic(s, update) == [service[s] EXCEPT !.traffic = update.traffic]

\* What UnmanagedSettings finds.
UnmanagedSettings(s) == service[s].settings \ UnlistedSettings

-----------------------------------------------------------------------------
(* Calls *)

MayBegin(c) ==
    /\ pc[c] = "idle"
    /\ Overlap \/ \A d \in Calls : pc[d] = "idle"

\* --service picks one service, its absence picks all of them.
Selections == {Services} \cup {{s} : s \in Services}

Goto(c, stage) == pc' = [pc EXCEPT ![c] = stage]

\* A call that returns, with or without an error, keeps nothing.
Return(c) ==
    /\ Goto(c, "idle")
    /\ request' = [a \in Applies |-> IF a = c THEN None ELSE request[a]]
    /\ plan' = [b \in Rollbacks |-> IF b = c THEN NoPlan ELSE plan[b]]
    /\ todo' = [todo EXCEPT ![c] = {}]
    /\ cur' = [cur EXCEPT ![c] = None]
    /\ snap' = [snap EXCEPT ![c] = None]
    /\ rev' = [rev EXCEPT ![c] = 0]

\* The iteration of a loop ends: the next service is at stage again, or the
\* loop is over.
NextService(c, stage) ==
    /\ todo' = [todo EXCEPT ![c] = @ \ {cur[c]}]
    /\ cur' = [cur EXCEPT ![c] = None]
    /\ snap' = [snap EXCEPT ![c] = None]
    /\ rev' = [rev EXCEPT ![c] = 0]
    /\ Goto(c, stage)
    /\ UNCHANGED <<request, plan>>

\* The request fails (the etag is stale, the API is down), the timeout
\* expires, the user declines, the history store fails or the process dies:
\* the call ends where it stands and undoes nothing.
Abandon(c) ==
    /\ pc[c] # "idle"
    /\ Return(c)
    /\ UNCHANGED <<cloud, history>>

-----------------------------------------------------------------------------
(* Apply *)

\* The manifests are loaded when the call starts.
BeginApply(c) ==
    /\ MayBegin(c)
    /\ \E images \in [Services -> Images], force \in BOOLEAN :
        /\ force => MayForce
        /\ request' = [request EXCEPT ![c] = [images |-> images, force |-> force]]
    /\ \E chosen \in Selections : todo' = [todo EXCEPT ![c] = chosen]
    /\ Goto(c, "get")
    /\ UNCHANGED <<cloud, history, plan, cur, snap, rev>>

\* The first read of the service: in image-only mode a missing one is an
\* error.  Whether the images are the same already is reported, and changes
\* nothing about what follows.
GetActual(c) ==
    /\ pc[c] = "get"
    /\ \E s \in todo[c] :
        IF s \in ImageOnly
        THEN IF Exists(s)
             THEN /\ cur' = [cur EXCEPT ![c] = s]
                  /\ Goto(c, "fetch")
                  /\ UNCHANGED <<request, plan, todo, snap, rev>>
             ELSE Return(c)
        ELSE /\ cur' = [cur EXCEPT ![c] = s]
             /\ Goto(c, "unmanaged")
             /\ UNCHANGED <<request, plan, todo, snap, rev>>
    /\ UNCHANGED <<cloud, history>>

\* The second read, in full mode: an apply without --force that would remove
\* settings is refused.
CheckUnmanaged(c) ==
    /\ pc[c] = "unmanaged"
    /\ IF UnmanagedSettings(cur[c]) # {} /\ ~ request[c].force
       THEN Return(c)
       ELSE /\ Goto(c, "fetch")
            /\ UNCHANGED <<request, plan, todo, cur, snap, rev>>
    /\ UNCHANGED <<cloud, history>>

\* The read from which the client builds its request.  A full apply asks it
\* only whether to create or to update.
Fetch(c) ==
    /\ pc[c] = "fetch"
    /\ c \in Rollbacks \/ cur[c] \in ImageOnly => Exists(cur[c])
    /\ snap' = [snap EXCEPT ![c] = service[cur[c]]]
    /\ Goto(c, "send")
    /\ UNCHANGED <<cloud, history, request, plan, todo, cur, rev>>

\* Mutant: the update is sent without the etag of the read.
SendImageUnconditionally(c) ==
    /\ pc[c] = "send"
    /\ c \in Applies
    /\ cur[c] \in ImageOnly
    /\ Write(cur[c], TakeContainers(cur[c],
           BuildImageOnlyUpdate(snap[c], request[c].images[cur[c]])))
    /\ rev' = [rev EXCEPT ![c] = Len(revisions'[cur[c]])]
    /\ Goto(c, "wait")
    /\ UNCHANGED <<history, request, plan, todo, cur, snap>>

SendImage(c) ==
    /\ pc[c] = "send"
    /\ c \in Applies
    /\ cur[c] \in ImageOnly
    /\ Fresh(c)
    /\ Write(cur[c], TakeContainers(cur[c],
           BuildImageOnlyUpdate(snap[c], request[c].images[cur[c]])))
    /\ rev' = [rev EXCEPT ![c] = Len(revisions'[cur[c]])]
    /\ Goto(c, "wait")
    /\ UNCHANGED <<history, request, plan, todo, cur, snap>>

\* Creating a service that has come into being since the read is an error.
SendManifest(c) ==
    /\ pc[c] = "send"
    /\ c \in Applies
    /\ cur[c] \notin ImageOnly
    /\ snap[c].image = None => ~ Exists(cur[c])
    /\ Write(cur[c], BuildService(cur[c], request[c].images[cur[c]]))
    /\ rev' = [rev EXCEPT ![c] = Len(revisions'[cur[c]])]
    /\ Goto(c, "wait")
    /\ UNCHANGED <<history, request, plan, todo, cur, snap>>

\* The operation ends with its revision: an error if that failed.
Wait(c) ==
    /\ pc[c] = "wait"
    /\ LET state == revisions[cur[c]][rev[c]].state
       IN  \/ /\ state = "ready"
              /\ Goto(c, "observe")
              /\ UNCHANGED <<request, plan, todo, cur, snap, rev>>
           \/ state = "failed" /\ Return(c)
    /\ UNCHANGED <<cloud, history>>

\* The last read: the revision that serves now, by whoever's doing.
Observe(c) ==
    /\ pc[c] = "observe"
    /\ rev' = [rev EXCEPT ![c] = Serving(cur[c])]
    /\ Goto(c, "record")
    /\ UNCHANGED <<cloud, history, request, plan, todo, cur, snap>>

\* The result says in sync, and the history says what the manifest said and
\* the revision that was seen.
RecordApply(c) ==
    /\ pc[c] = "record"
    /\ c \in Applies
    /\ history' = history \cup
          {[action |-> "apply", service |-> cur[c],
            image |-> request[c].images[cur[c]], revision |-> rev[c]]}
    /\ IF todo[c] = {cur[c]} THEN Return(c) ELSE NextService(c, "get")
    /\ UNCHANGED cloud

-----------------------------------------------------------------------------
(* PlanRollback and ExecuteRollback *)

BeginRollback(c) ==
    /\ MayBegin(c)
    /\ \E chosen \in Selections : todo' = [todo EXCEPT ![c] = chosen]
    /\ Goto(c, "traffic")
    /\ UNCHANGED <<cloud, history, request, plan, cur, snap, rev>>

\* ListRevisions reads the traffic with the service ...
ListTraffic(c) ==
    /\ pc[c] = "traffic"
    /\ \E s \in todo[c] :
        /\ Serving(s) # 0
        /\ cur' = [cur EXCEPT ![c] = s]
        /\ rev' = [rev EXCEPT ![c] = Serving(s)]
    /\ Goto(c, "revisions")
    /\ UNCHANGED <<cloud, history, request, plan, todo, snap>>

\* Mutant: without an older ready revision the target is left empty.
RollbackTargetOrNone(s, current) ==
    LET older == {r \in Ready(s) : r < current}
    IN  [from : {current}, explicit : {FALSE},
         to : IF older = {} THEN {None} ELSE {Max(older)}]

\* Mutant: an explicit revision is not asked whether it is ready.
RollbackTargetOfAnyState(s, current) ==
    [from : {current}, to : 1 .. Len(revisions[s]), explicit : {TRUE}]
        \cup
    [from : {current}, to : {current - 1} \cap Ready(s), explicit : {FALSE}]

\* Mutant: any other ready revision will do, the newest first.
RollbackTargetOther(s, current) ==
    LET other == Ready(s) \ {current}
    IN  [from : {current}, to : Ready(s), explicit : {TRUE}]
            \cup
        [from : {current}, to : {r \in other : r = Max(other)}, explicit : {FALSE}]

\* An explicit target must be ready, whatever its place; the default is the
\* newest ready revision older than the serving one.
RollbackTarget(s, current) ==
    LET older == {r \in Ready(s) : r < current}
    IN  [from : {current}, to : Ready(s), explicit : {TRUE}]
            \cup
        [from : {current}, to : {r \in older : r = Max(older)}, explicit : {FALSE}]

\* ... and the revisions after it.  --revision needs a single service.
ListRevisions(c) ==
    /\ pc[c] = "revisions"
    /\ \E item \in RollbackTarget(cur[c], rev[c]) :
        /\ item.explicit =>
              todo[c] = {cur[c]} /\ \A s \in Services : plan[c][s] = None
        /\ plan' = [plan EXCEPT ![c][cur[c]] = item]
    /\ todo' = [todo EXCEPT ![c] = @ \ {cur[c]}]
    /\ cur' = [cur EXCEPT ![c] = None]
    /\ rev' = [rev EXCEPT ![c] = 0]
    /\ Goto(c, IF todo[c] = {cur[c]} THEN "planned" ELSE "traffic")
    /\ UNCHANGED <<cloud, history, request, snap>>

Planned(c) == {s \in Services : plan[c][s] # None}

\* The confirm prompt was answered yes, or an item is done and the next one
\* starts.
StartItem(c) ==
    /\ pc[c] = "planned"
    /\ LET left == IF todo[c] = {} THEN Planned(c) ELSE todo[c]
       IN  \E s \in left :
            /\ cur' = [cur EXCEPT ![c] = s]
            /\ todo' = [todo EXCEPT ![c] = left]
    /\ Goto(c, "fetch")
    /\ UNCHANGED <<cloud, history, request, plan, snap, rev>>

\* Mutant: the clone goes out without a mask and without its etag.
SendWholeService(c) ==
    /\ pc[c] = "send"
    /\ c \in Rollbacks
    /\ Write(cur[c], BuildTrafficUpdate(snap[c], plan[c][cur[c]].to))
    /\ Goto(c, "record")
    /\ UNCHANGED <<history, request, plan, todo, cur, snap, rev>>

SendTraffic(c) ==
    /\ pc[c] = "send"
    /\ c \in Rollbacks
    /\ Fresh(c)
    /\ Write(cur[c], TakeTraffic(cur[c], BuildTrafficUpdate(snap[c], plan[c][cur[c]].to)))
    /\ Goto(c, "record")
    /\ UNCHANGED <<history, request, plan, todo, cur, snap, rev>>

RecordRollback(c) ==
    /\ pc[c] = "record"
    /\ c \in Rollbacks
    /\ history' = history \cup
          {[action |-> "rollback", service |-> cur[c],
            image |-> revisions[cur[c]][plan[c][cur[c]].to].image,
            revision |-> plan[c][cur[c]].to]}
    /\ IF todo[c] = {cur[c]} THEN Return(c) ELSE NextService(c, "planned")
    /\ UNCHANGED cloud

-----------------------------------------------------------------------------

ApplyNext(c) ==
    \/ BeginApply(c) \/ GetActual(c) \/ CheckUnmanaged(c)
    \/ SendImage(c) \/ SendManifest(c) \/ Wait(c) \/ Observe(c) \/ RecordApply(c)

RollbackNext(c) ==
    \/ BeginRollback(c) \/ ListTraffic(c) \/ ListRevisions(c) \/ StartItem(c)
    \/ SendTraffic(c) \/ RecordRollback(c)

Next ==
    \/ \E c \in Applies : ApplyNext(c)
    \/ \E c \in Rollbacks : RollbackNext(c)
    \/ \E c \in Calls : Fetch(c) \/ Abandon(c)
    \/ \E s \in Services : StartUp(s) \/ Configure(s)

Spec == Init /\ [][Next]_vars

-----------------------------------------------------------------------------
(* Properties *)

\* "image-only apply ... changes only the primary container image"
\* (phase1-cli.md:99), whatever Terraform or other calls do between the read
\* the update is built from and the update (client.go:151-191).
ImageOnlyKeepsRest ==
    [][\A c \in Applies : SendImage(c) =>
          /\ service'[cur[c]].settings = service[cur[c]].settings
          /\ service'[cur[c]].traffic = service[cur[c]].traffic]_vars

\* Whoever pinned the traffic, and however long ago the target was chosen, it
\* is pinned to a revision that is ready (rollback.go:77-117).
TrafficServesReady ==
    \A s \in Services : service[s].traffic # 0 => service[s].traffic \in Ready(s)

\* "apply refuses to remove settings the manifest cannot express unless
\* --force is set" (phase1-cli.md:338); the code does so only for the settings
\* it knows of (preserve.go:41) and that were there when it looked.
ApplyRefusesToStrip ==
    [][\A c \in Applies :
          (SendManifest(c) /\ ~ request[c].force) => service[cur[c]].settings = {}]_vars

\* "InSync means desired == actual" (apply.go:63): the revision an apply found
\* serving, when it reports the service in sync, runs the desired image.
InSyncMeansServing ==
    [][\A c \in Applies : RecordApply(c) =>
          revisions[cur[c]][rev[c]].image = request[c].images[cur[c]]]_vars

\* Without --revision a rollback never moves the traffic forward, to a newer
\* revision than the one that serves when it is carried out ("rollback
\* restores a previous ready revision", phase1-cli.md:333).
RollbackGoesBack ==
    [][\A c \in Rollbacks :
          (SendTraffic(c) /\ ~ plan[c][cur[c]].explicit) =>
              plan[c][cur[c]].to <= Serving(cur[c])]_vars

-----------------------------------------------------------------------------
(* ServiceContract, with every deployment a single step *)

Contract == INSTANCE ServiceContract WITH
    image <- [s \in Services |-> service[s].image],
    settings <- [s \in Services |-> service[s].settings],
    traffic <- [s \in Services |-> service[s].traffic],
    ready <- [s \in Services |-> Ready(s)]

ImplementsContract == Contract!Spec
=============================================================================

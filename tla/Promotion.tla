------------------------------ MODULE Promotion ------------------------------
(***************************************************************************)
(* The promote use case: PlanPromote and ExecutePromote of                 *)
(* internal/core/promote.go over one shared Git checkout, one registry and *)
(* one history store.                                                      *)
(*                                                                         *)
(* A manifest is a file named by its environment and service; the only     *)
(* part of it that promotion moves is the digest, so a file is a digest.   *)
(* Git keeps three versions of every file (working tree, index, HEAD).     *)
(* Nothing in the code takes a lock: the command line and each Connect     *)
(* request run the same steps over the same checkout, so every call is a   *)
(* process of its own and its steps interleave with all the others.        *)
(***************************************************************************)
EXTENDS Integers, Sequences, FiniteSets

CONSTANTS
    Calls,        \* promote calls that may run at the same time
    Services,     \* logical service names, declared in every environment
    Digests,      \* image digests
    AutoEnv,      \* the environment with policy auto
    ManualEnvs,   \* the environments with policy manual
    CopyEnvs,     \* the environments that configure imageCopy
    Repository,   \* the artifact repository of each environment's images
    InitialDigest,\* what every manifest pins at first
    ByHand,       \* manifests of manual environments are set by hand too
    MaxCommits,   \* bound: commits made by the modelled actors
    None          \* no item

Envs  == {AutoEnv} \cup ManualEnvs
Files == Envs \X Services

ASSUME EnvAssumption ==
    /\ AutoEnv \notin ManualEnvs
    /\ CopyEnvs \subseteq ManualEnvs
ASSUME DigestAssumption == InitialDigest \in Digests
ASSUME ByHandAssumption == ByHand \in BOOLEAN
ASSUME BoundAssumption == MaxCommits \in Nat
ASSUME RepositoryAssumption == DOMAIN Repository = Envs

VARIABLES
    worktree,  \* the manifests on disk
    index,     \* the staged manifests
    head,      \* the committed manifests
    images,    \* the digests each artifact repository holds
    log,       \* the tree of every commit made, oldest first
    history,   \* the entries of the history store
    landed,    \* the commit each call made, 0 before it made one
    pc,        \* where each call stands
    plan,      \* the plan each call executes
    todo,      \* the items (or files) its current loop has not reached
    cur        \* the item its current iteration works on

git  == <<worktree, index, head, log>>
call == <<pc, plan, todo, cur, landed>>
vars == <<worktree, index, head, images, log, history, pc, plan, todo, cur,
          landed>>

Item == [service : Services, old : Digests, new : Digests]
Plan == [from : Envs, to : Envs, items : SUBSET Item]
NoPlan == [from |-> AutoEnv, to |-> AutoEnv, items |-> {}]

Entry == [env : Envs, service : Services, digest : Digests, commit : Nat]

Stages == {"idle", "planned", "copy", "check", "write",
           "status", "add", "commit", "record"}

TypeOK ==
    /\ worktree \in [Files -> Digests]
    /\ index \in [Files -> Digests]
    /\ head \in [Files -> Digests]
    /\ images \in [{Repository[e] : e \in Envs} -> SUBSET Digests]
    /\ log \in Seq([Files -> Digests])
    /\ history \subseteq Entry
    /\ pc \in [Calls -> Stages]
    /\ plan \in [Calls -> Plan]
    /\ todo \in [Calls -> SUBSET Item]
    /\ cur \in [Calls -> Item \cup {None}]
    /\ landed \in [Calls -> Nat]

Init ==
    /\ worktree = [f \in Files |-> InitialDigest]
    /\ index = worktree
    /\ head = worktree
    /\ images = [r \in {Repository[e] : e \in Envs} |->
                    IF r = Repository[AutoEnv] THEN Digests ELSE {InitialDigest}]
    /\ log = <<>>
    /\ history = {}
    /\ pc = [c \in Calls |-> "idle"]
    /\ plan = [c \in Calls |-> NoPlan]
    /\ todo = [c \in Calls |-> {}]
    /\ cur = [c \in Calls |-> None]
    /\ landed = [c \in Calls |-> 0]

-----------------------------------------------------------------------------
(* Helpers *)

\* The file an item of a call's plan rewrites.
FileOf(c, item) == <<plan[c].to, item.service>>

\* The absolute paths ExecutePromote hands to Commit.
Targets(c) == {FileOf(c, item) : item \in plan[c].items}

\* The tracked files whose status is not unmodified.
Changed == {f \in Files : worktree[f] # index[f] \/ index[f] # head[f]}

\* --service picks one service, its absence picks all of them.
Selections == {Services} \cup {{s} : s \in Services}

\* A call that returns, with or without an error, forgets its plan.
Return(c) ==
    /\ pc' = [pc EXCEPT ![c] = "idle"]
    /\ plan' = [plan EXCEPT ![c] = NoPlan]
    /\ todo' = [todo EXCEPT ![c] = {}]
    /\ cur' = [cur EXCEPT ![c] = None]
    /\ landed' = [landed EXCEPT ![c] = 0]

Goto(c, stage) == pc' = [pc EXCEPT ![c] = stage]

-----------------------------------------------------------------------------
(* PlanPromote *)

\* Mutant: a source image that is not digest-pinned is promoted all the same.
DiffUnpinned(from, to, chosen) ==
    {[service |-> s, old |-> worktree[<<to, s>>], new |-> None] :
        s \in {t \in chosen : worktree[<<from, t>>] # worktree[<<to, t>>]}}

\* The digest differences between the two environments' manifests, read from
\* the working tree. Only the digest moves; equal digests make no item.
Diff(from, to, chosen) ==
    {[service |-> s, old |-> worktree[<<to, s>>], new |-> worktree[<<from, s>>]] :
        s \in {t \in chosen : worktree[<<from, t>>] # worktree[<<to, t>>]}}

PlanPromote(c) ==
    /\ pc[c] = "idle"
    /\ Len(log) < MaxCommits
    /\ \E to \in ManualEnvs, from \in Envs, chosen \in Selections :
        /\ from # to
        /\ LET items == Diff(from, to, chosen)
           IN  /\ plan' = [plan EXCEPT ![c] =
                              [from |-> from, to |-> to, items |-> items]]
               /\ todo' = [todo EXCEPT ![c] = items]
    /\ Goto(c, "planned")
    /\ UNCHANGED <<worktree, index, head, log, images, history, cur, landed>>

\* The confirm prompt was answered yes (or --yes was given).
Confirm(c) ==
    /\ pc[c] = "planned"
    /\ plan[c].items # {}
    /\ Goto(c, "copy")
    /\ UNCHANGED <<worktree, index, head, log, images, history, plan, todo, cur, landed>>

\* An empty plan: nothing to promote.
NoOp(c) ==
    /\ pc[c] = "planned"
    /\ plan[c].items = {}
    /\ Return(c)
    /\ UNCHANGED <<worktree, index, head, log, images, history>>

-----------------------------------------------------------------------------
(* ExecutePromote, the loop over the items *)

\* Mutant: the copy is left to a later step.
CopyImageLater(c) ==
    /\ pc[c] = "copy"
    /\ \E item \in todo[c] : cur' = [cur EXCEPT ![c] = item]
    /\ Goto(c, "check")
    /\ UNCHANGED <<worktree, index, head, log, images, history, plan, todo, landed>>

\* Copier.Copy does nothing when the digest is in the target's repository and
\* copies it from the source's otherwise; an environment without imageCopy
\* does not look at the registry at all. The file order of the services is
\* left open.
CopyImage(c) ==
    /\ pc[c] = "copy"
    /\ \E item \in todo[c] :
        /\ cur' = [cur EXCEPT ![c] = item]
        /\ LET src == Repository[plan[c].from]
               dst == Repository[plan[c].to]
           IN  IF plan[c].to \in CopyEnvs /\ item.new \notin images[dst]
               THEN /\ item.new \in images[src]
                    /\ images' = [images EXCEPT ![dst] = @ \cup {item.new}]
               ELSE UNCHANGED images
    /\ Goto(c, "check")
    /\ UNCHANGED <<worktree, index, head, log, history, plan, todo, landed>>

\* UpdateServiceImage reads the file and looks for exactly one occurrence of
\* the image the plan was made from ...
CheckManifest(c) ==
    /\ pc[c] = "check"
    /\ worktree[FileOf(c, cur[c])] = cur[c].old
    /\ Goto(c, "write")
    /\ UNCHANGED <<worktree, index, head, log, images, history, plan, todo, cur, landed>>

\* ... and fails when the file has moved on since then, leaving the files of
\* earlier items rewritten.
ManifestMoved(c) ==
    /\ pc[c] = "check"
    /\ worktree[FileOf(c, cur[c])] # cur[c].old
    /\ Return(c)
    /\ UNCHANGED <<worktree, index, head, log, images, history>>

\* Mutant: the loop ends after its first item.
WriteFirstManifest(c) ==
    /\ pc[c] = "write"
    /\ worktree' = [worktree EXCEPT ![FileOf(c, cur[c])] = cur[c].new]
    /\ todo' = [todo EXCEPT ![c] = @ \ {cur[c]}]
    /\ cur' = [cur EXCEPT ![c] = None]
    /\ Goto(c, "status")
    /\ UNCHANGED <<index, head, log, images, history, plan, landed>>

\* The file is written back with the new digest.
WriteManifest(c) ==
    /\ pc[c] = "write"
    /\ worktree' = [worktree EXCEPT ![FileOf(c, cur[c])] = cur[c].new]
    /\ todo' = [todo EXCEPT ![c] = @ \ {cur[c]}]
    /\ cur' = [cur EXCEPT ![c] = None]
    /\ Goto(c, IF todo[c] = {cur[c]} THEN "status" ELSE "copy")
    /\ UNCHANGED <<index, head, log, images, history, plan, landed>>

-----------------------------------------------------------------------------
(* gitops.Commit *)

\* Mutant: unrelated changes are not looked for.
CheckStatusOfTargets(c) ==
    /\ pc[c] = "status"
    /\ Changed \cap Targets(c) # {}
    /\ todo' = [todo EXCEPT ![c] =
                   {item \in plan[c].items : FileOf(c, item) \in Changed}]
    /\ Goto(c, "add")
    /\ UNCHANGED <<worktree, index, head, log, images, history, plan, cur, landed>>

\* The snapshot of the status decides everything that follows: unrelated
\* changes refuse the commit, and only the targets it shows as changed are
\* staged.
CheckStatus(c) ==
    /\ pc[c] = "status"
    /\ Changed \subseteq Targets(c)
    /\ Changed # {}
    /\ todo' = [todo EXCEPT ![c] =
                   {item \in plan[c].items : FileOf(c, item) \in Changed}]
    /\ Goto(c, "add")
    /\ UNCHANGED <<worktree, index, head, log, images, history, plan, cur, landed>>

\* "worktree has unrelated changes" or "nothing to commit".
RefuseCommit(c) ==
    /\ pc[c] = "status"
    /\ ~ (Changed \subseteq Targets(c)) \/ Changed = {}
    /\ Return(c)
    /\ UNCHANGED <<worktree, index, head, log, images, history>>

\* Mutant: only the first changed target is staged.
StageFirstManifest(c) ==
    /\ pc[c] = "add"
    /\ \E item \in todo[c] :
        index' = [index EXCEPT ![FileOf(c, item)] = worktree[FileOf(c, item)]]
    /\ Goto(c, "commit")
    /\ UNCHANGED <<worktree, head, log, images, history, plan, todo, cur, landed>>

\* wt.Add stages whatever the file holds by now.
StageManifest(c) ==
    /\ pc[c] = "add"
    /\ \E item \in todo[c] :
        /\ index' = [index EXCEPT ![FileOf(c, item)] = worktree[FileOf(c, item)]]
        /\ todo' = [todo EXCEPT ![c] = @ \ {item}]
        /\ Goto(c, IF todo[c] = {item} THEN "commit" ELSE "add")
    /\ UNCHANGED <<worktree, head, log, images, history, plan, cur, landed>>

\* wt.Commit makes a commit of the whole index, whoever staged it.
CommitIndex(c) ==
    /\ pc[c] = "commit"
    /\ Len(log) < MaxCommits
    /\ index # head
    /\ head' = index
    /\ log' = Append(log, index)
    /\ landed' = [landed EXCEPT ![c] = Len(log) + 1]
    /\ todo' = [todo EXCEPT ![c] = plan[c].items]
    /\ Goto(c, "record")
    /\ UNCHANGED <<worktree, index, images, history, plan, cur>>

\* go-git refuses a commit whose tree is its parent's.
EmptyCommit(c) ==
    /\ pc[c] = "commit"
    /\ index = head
    /\ Return(c)
    /\ UNCHANGED <<worktree, index, head, log, images, history>>

-----------------------------------------------------------------------------
(* ExecutePromote, the loop over the history entries, and how a call ends *)

\* One entry per item, with the digest of the plan and the commit's id.
RecordItem(c) ==
    /\ pc[c] = "record"
    /\ \E item \in todo[c] :
        /\ history' = history \cup
              {[env |-> plan[c].to, service |-> item.service,
                digest |-> item.new, commit |-> landed[c]]}
        /\ IF todo[c] = {item}
           THEN Return(c)
           ELSE /\ todo' = [todo EXCEPT ![c] = @ \ {item}]
                /\ UNCHANGED <<pc, plan, cur, landed>>
    /\ UNCHANGED <<worktree, index, head, log, images>>

\* The user declines, the registry, the file system, Git (no user.name) or
\* the history store fails, the request is cancelled or the process dies: the
\* call ends where it stands and undoes nothing.
Abandon(c) ==
    /\ pc[c] # "idle"
    /\ Return(c)
    /\ UNCHANGED <<worktree, index, head, log, images, history>>

-----------------------------------------------------------------------------
(* What else happens to the checkout *)

\* People leave the manifests of manual environments, and the working tree as a
\* whole, alone while a promote is past its confirm prompt.
Resting == \A c \in Calls : pc[c] \in {"idle", "planned"}

\* SetManifestImage rewrites the one manifest if it differs.  Without
\* --require-policy it takes any environment.
SetManifestImage(e, s, d) ==
    /\ worktree[<<e, s>>] # d
    /\ worktree' = [worktree EXCEPT ![<<e, s>>] = d]
    /\ UNCHANGED <<index, head, log, images, history, call>>

\* RecordImageEvent accepts only the auto environment and verifies the digest
\* in its registry.
RecordImageEvent(s, d) ==
    /\ d \in images[Repository[AutoEnv]]
    /\ SetManifestImage(AutoEnv, s, d)

\* `manifest set-image` does not look at the registry: whoever calls it for a
\* manual environment names an image that is there.
SetImageByHand(e, s, d) ==
    /\ ByHand /\ Resting
    /\ d \in images[Repository[e]]
    /\ SetManifestImage(e, s, d)

\* Committing that change is the caller's: "git commit" of that file alone.
CallerCommit(e, s) ==
    /\ e = AutoEnv \/ (ByHand /\ Resting)
    /\ Len(log) < MaxCommits
    /\ worktree[<<e, s>>] # head[<<e, s>>]
    /\ index' = [index EXCEPT ![<<e, s>>] = worktree[<<e, s>>]]
    /\ head' = [head EXCEPT ![<<e, s>>] = worktree[<<e, s>>]]
    /\ log' = Append(log, head')
    /\ UNCHANGED <<worktree, images, history, call>>

\* The operator discards what a failed promote left behind in the checkout.
DiscardChanges ==
    /\ Resting
    /\ Changed # {}
    /\ worktree' = head
    /\ index' = head
    /\ UNCHANGED <<head, log, images, history, call>>

-----------------------------------------------------------------------------

CallNext(c) ==
    \/ PlanPromote(c) \/ Confirm(c) \/ NoOp(c)
    \/ CopyImage(c) \/ CheckManifest(c) \/ ManifestMoved(c) \/ WriteManifest(c)
    \/ CheckStatus(c) \/ RefuseCommit(c) \/ StageManifest(c)
    \/ CommitIndex(c) \/ EmptyCommit(c)
    \/ RecordItem(c) \/ Abandon(c)

CheckoutNext ==
    \/ \E s \in Services, d \in Digests : RecordImageEvent(s, d)
    \/ \E e \in ManualEnvs, s \in Services, d \in Digests : SetImageByHand(e, s, d)
    \/ \E e \in Envs, s \in Services : CallerCommit(e, s)
    \/ DiscardChanges

Next == (\E c \in Calls : CallNext(c)) \/ CheckoutNext

Spec == Init /\ [][Next]_vars

-----------------------------------------------------------------------------
(* Properties *)

\* A digest that HEAD pins for an environment with imageCopy is in that
\* environment's repository, however many promotes run and wherever one of
\* them fails: the copy comes before the manifest is written, and the write
\* before the commit (promote.go:138-159).
PromotedImagesExist ==
    \A e \in CopyEnvs, s \in Services :
        head[<<e, s>>] \in images[Repository[e]]

\* A promote's commit changes the manifests of its own plan and no other file:
\* "so a promote never sweeps up unrelated edits" (commit.go:15-18).
CommitsOnlyTargets ==
    [][\A c \in Calls : CommitIndex(c) =>
          \A f \in Files : head'[f] # head[f] => f \in Targets(c)]_vars

\* The commit a history entry names pins the digest the entry names: what the
\* audit trail says was promoted is what Git holds (promote.go:161-170).
HistoryMatchesCommit ==
    \A h \in history : log[h.commit][<<h.env, h.service>>] = h.digest

\* "An empty Items slice means everything is already promoted" (promote.go:57):
\* a plan for all services is empty only when the commit already pins the
\* digests of the source.
EmptyPlanMeansPromoted ==
    (\A c \in Calls : pc[c] = "idle") =>
      \A to \in ManualEnvs, from \in Envs :
        (from # to /\ Diff(from, to, Services) = {}) =>
            \A s \in Services : head[<<to, s>>] = worktree[<<from, s>>]

-----------------------------------------------------------------------------
(* The promise of promotion: AtomicPromotion over the committed manifests *)

\* What a call still means to land: nothing before its plan, nothing after
\* its commit.
Intent(c) ==
    IF pc[c] \in {"idle", "record"} THEN {}
    ELSE {<<FileOf(c, item), item.new>> : item \in plan[c].items}

Promise == INSTANCE AtomicPromotion
    WITH desired <- head, intent <- [c \in Calls |-> Intent(c)]

ImplementsPromise == Promise!Spec
=============================================================================

# A formal model of wataridori

wataridori is a GitOps tool for Cloud Run. A Git repository of service
manifests, one directory per environment, says which image digest every
service should run; `apply` and the reconcile controller bring Cloud Run to
that state; `promote` moves a digest from one environment's manifests to the
next one's and commits; `rollback` moves traffic without touching Git. This
directory holds TLA+ models of those parts, the TLC runs that check them on
small instances and the theorems TLAPS proves about them.

## The system

| Component | Source | State it keeps | Operations |
|---|---|---|---|
| promotion | `internal/core/promote.go` | none of its own: the checkout, the registry, the history | PlanPromote, ExecutePromote |
| git commit | `internal/gitops/commit.go` | working tree, index, HEAD | Commit |
| git sync | `internal/gitops/sync.go` | clone, remote branch | Sync, Push |
| image copy | `internal/registry/copy.go` | digests per repository | Copy, Verify |
| history | `internal/store/store.go` | SQLite rows | Record, List |
| manifests | `internal/manifest/*` | YAML files | Load, LoadServices, UpdateServiceImage, validate |
| artifact events | `internal/core/event.go`, `manifest.go` | manifests of the auto environment | RecordImageEvent, SetManifestImage |
| apply | `internal/core/apply.go` | Cloud Run services, history | Apply |
| rollback | `internal/core/rollback.go` | Cloud Run traffic, history | PlanRollback, ExecuteRollback |
| Cloud Run client | `internal/cloudrun/*` | service template, traffic, revisions, etag | Apply, ApplyImage, SetTraffic, ListRevisions, UnmanagedSettings |
| views | `internal/core/status.go`, `timeline.go`, `inventory.go`, `environments.go` | none | Status, Timeline, Inventory, Environments |
| checks | `internal/core/verify.go`, `promotion_check.go` | none | VerifyDeployment, CheckPromotion |
| controller | `internal/controller/controller.go`, `internal/cli/serve.go` | pending trigger | Run, Trigger, reconcile |
| server | `internal/server/*` | none: an engine per request | Connect handlers |
| recovery agent | `internal/agent/*` | recovery run with a version | Transition, guarded update |
| merge-approved delivery | `actions/delivery/*.mjs`, `reusable-prod-merge.yml` | PR comment, check run, deployment | select, prepare, admit, report |
| pull-request workflows | `.github/workflows/reusable-*.yml` | branches and pull requests | artifact event, promotion PR, rollback PR |
| web UI, generated API | `web`, `gen`, `proto` | none | presentation, not modelled |

The parts meet through shared state, not through calls of their own: the
checkout (promotion, events, sync, the controller and every server request
read or write the same files), the Cloud Run services (apply, rollback, the
controller and Terraform), and the history store. No part takes a lock. The
server builds an engine per request, so two requests, or a request and a
command line, interleave at every file or API operation.

## What is hard here

- Promotion is a sequence of effects on three stores with no undo: images are
  copied, files rewritten, a commit made, history written. It can stop at
  every point, be retried, and interleave with another.
- Cloud Run is read, compared and then written; the write is a full
  replacement without a precondition in one mode and guarded in the other.
- Rollback pins traffic, after which a deployed template is not what serves.
- The controller coalesces triggers into one pending slot and reads manifests
  lazily, after it has chosen which environments are its own.
- Delivery is at-least-once, with re-checks of freshness between its steps:
  a job can be lost, repeated, superseded or half reported at each of them.
- The views ask the same question of Cloud Run in different ways, and a
  confirmation is of a plan that the server derives a second time.
- A recovery run is written by workers that know it from copies of any age.

## The models

A call of wataridori, be it a command line, a Connect request or a cycle of the
controller, is a process that goes through stages. Every file, Git, Cloud Run or
history operation whose result or effect another process can see is a step of
its own; the computation between two of them belongs to the step before.
Dry runs and reads that lead to no effect are left out.

### Promotion (`Promotion`, abstract: `AtomicPromotion`)

`core/promote.go`, `gitops/commit.go`, `registry/copy.go`, the update of a
manifest in `manifest/load.go`, and as environment `core/event.go`.

| State | In the code |
|---|---|
| `worktree`, `index`, `head`, `log` | the checkout: manifests on disk, staged, committed; all commits |
| `images` | the digests in each artifact repository |
| `history` | the rows of the store |
| `pc`, `plan`, `todo`, `cur`, `landed` | stage, plan, loop position and commit of each call |

| Action | In the code |
|---|---|
| `PlanPromote`, `NoOp`, `Confirm` | PlanPromote; an empty plan; the prompt or `--yes` |
| `CopyImage` | Copier.Copy, only with `imageCopy`, only if the digest is not there |
| `CheckManifest`, `ManifestMoved`, `WriteManifest` | UpdateServiceImage: read and match, the mismatch, the write |
| `CheckStatus`, `RefuseCommit`, `StageManifest`, `CommitIndex`, `EmptyCommit` | Commit: one status snapshot, one `Add` per target, one commit of the index |
| `RecordItem` | the history loop |
| `Abandon` | every error, a declined prompt, cancellation, the death of the process, at every stage |
| `SetManifestImage` in `RecordImageEvent` and `SetImageByHand`, `CallerCommit` | an image event, which asks for the policy auto and an image in the registry; `manifest set-image` without `--require-policy`, which takes any environment and asks no registry; and the commit of whoever called |
| `DiscardChanges` | an operator who cleans up |

A manifest is its digest: promotion moves nothing else. Services are those
both environments declare. Image events and the commits that follow them
interleave with every step of a promote. What a person does to the checkout
waits until no promote is past its prompt (`Resting`): `DiscardChanges`, and the
setting and committing of a manual environment's manifest, which `ByHand` turns
on. A person sets an image that exists; `set-image` itself does not look.

`AtomicPromotion` says what a promote promises to somebody who sees only
commits: a call has an intent, and lands all of it at once or none of it. Apart
from that a manifest moves alone, by a delivery or by hand.
`Promotion` maps `desired` to `head` and a call's intent to the items of its
plan until it has committed.

### Deployment (`Deployment`, abstract: `ServiceContract`)

`core/apply.go`, `core/rollback.go`, `cloudrun/*.go`. Cloud Run is external:
it is modelled from the requests the client builds and what it reads back.

| State | In the code |
|---|---|
| `service` | per service: image, the settings no manifest expresses, traffic (0 is latest), etag |
| `revisions` | the revisions with their state, oldest first; none: the service does not exist |
| `history` | the rows of the store |
| `pc`, `request`, `plan`, `todo`, `cur`, `snap`, `rev` | stage, manifests and flag, rollback plan, loop position, last read, revision of each call |

Settings are split by what the code can do with them: in `template.containers`
(an image-only update writes them back as read), elsewhere in the template, and
those `UnmanagedSettings` does not look for.

| Action | In the code |
|---|---|
| `BeginApply`, `GetActual`, `CheckUnmanaged` | Apply: load, Get, the unmanaged settings check in full mode |
| `Fetch` | the read inside Apply, ApplyImage and SetTraffic |
| `SendManifest` | the full update: no etag, traffic to latest, nothing but the manifest |
| `SendImage`, `SendTraffic` | the service as it was read, with another image or another traffic, and the etag of the read; of this Cloud Run takes what the mask names (`TakeContainers`, `TakeTraffic`) |
| `Wait`, `Observe`, `RecordApply` | the operation, the read of what serves, the result and history entry |
| `BeginRollback`, `ListTraffic`, `ListRevisions` | PlanRollback, service by service |
| `StartItem`, `RecordRollback` | ExecuteRollback |
| `Abandon` | any error, timeout or death of the process |
| `StartUp`, `Configure` | a revision becomes ready or fails; Terraform or the console |

Four constants describe the surroundings, so that each property is checked and
proved under the weakest that make it true: `Overlap` (calls run concurrently),
`OutsideAnytime` (others configure services while calls run), `MayForce`
(`--force` is used) and `UnlistedSettings`.

An accepted update takes effect in the step that sends it. An update that takes
effect only after its call timed out is listed as a hazard and not modelled.

### Controller (`Controller`)

`controller/controller.go`, wired in `cli/serve.go`. `tick` and `kick` are the
two channels, each with room for one; `loop` is where the goroutine stands;
`left` is the snapshot of automatic environments in the order of their names.
A commit may change policies and manifests and may leave a configuration that
does not load. A deployment is one step here, which a failing apply may or may
not have taken; `Deployment` has its requests. `asked` and `began` are history
variables: the version of the files at the last trigger and at the start of the
last cycle. They restrict nothing.

### Serve (`Serve`)

The process of `wataridori serve`: the main goroutine, the goroutine that shuts
the HTTP server down and the handlers. `net/http` is modelled from its documented
behaviour: ListenAndServe returns as soon as Shutdown has closed the listener.

### GitSync (`GitSync`)

`gitops/sync.go`. A commit is the set of the commits of its history, so that
"ancestor of" is inclusion and a fork is a pair of incomparable sets. Sync is
one action per read or write of the working copy: `Open`, `Fetch`, `ReadHead`,
`CheckClean`, `CheckFastForward`, `HardReset`. Around it the remote moves on or
is rewritten, promotions write and commit or give up, an operator restores
files, Push is refused or succeeds, and the instance is restarted without its
working copy. Sync and Push have no caller in the source yet; sync.go describes
them as the Refresh of the controller, and so they are modelled. That Sync is
called, and its fetches are answered, is therefore no fairness of the model but
the hypothesis of `Follows`.

`Follows` is about clean copies whose commits are all on the remote branch. A tip
that a copy has fetched may be rewritten without harm; a copy whose own HEAD is
rewritten away may not: `checkFastForward` cannot tell it from one with unpushed
commits and refuses it from then on (`sync.go:194`). It takes an operator to get
out of that, as the hazard at that line says.

### Configuration (`Configuration`)

`manifest/validate.go` and the loads of `manifest/load.go`, `core/manifest.go`
(ValidateManifests) and `core/environments.go` (ListEnvironments). A request is
a behaviour: it starts with any configuration and any manifests on disk, loads,
and then validates or lists, one step per environment.

| State | In the code |
|---|---|
| `entry`, `directory` | wataridori.yaml and the services directories, fixed for a request |
| `byEnv` | the services loaded so far |
| `pending`, `ready`, `ordered` | `indegree`, `queue` and `ordered` of ListEnvironments |

| Action | In the code |
|---|---|
| `Load` | LoadConfig: policies, branches, promoteFrom and where services live |
| `BeginValidate`, `LoadNext`, `AllLoaded`, `CheckRelations` | ValidateManifests |
| `BeginList`, `PlaceNext`, `QueueEmpty`, `AppendCycled` | the sorted queue, and the loop over the environments of a cycle |

An entry is its policy, its source and whether branch and directory are given; a
manifest is its name, its Cloud Run name and whether its image is pinned: what
the checks tell apart. Environments are numbered in the order of their names.

### RecoveryRun (`RecoveryRun`)

`agent/domain/state.go`, `agent/domain/recovery.go` and the contract of the
repository in `agent/application/ports.go`. `Allowed` is the table of
transitions as it stands in the source. The orchestrator is not written yet, so
a worker may take any transition the aggregate accepts, several before it stores,
with a clock that lags behind others, and stop anywhere; the store is external
and does what its port promises.

| State | In the code |
|---|---|
| `run` | the stored run: state, version, time of its last update |
| `copy` | the run each worker holds, with the version it loaded |
| `authorized`, `verified` | history variables: what has happened since the last investigation, and since the last action |

`Create`, `Get`, `Transition` and `Update` are the operations; `Refused` is an
update under a version that has passed; an `Update` whose reply is lost leaves
the worker with its old copy; `Crash` is a worker that stops.

### Observe (`Observe`)

What the Connect server answers: `core/status.go`, `inventory.go`, `timeline.go`,
`rollback.go` and `history.go` with the conversions of `server/convert.go`, over
what `cloudrun/client.go` and `helpers.go` read. Traffic is divided among
targets here, by share; `Deployment` only pins it or leaves it to the latest
revision.

| State | In the code |
|---|---|
| `desired` | the manifests |
| `revisions`, `traffic` | per project and Cloud Run name: revisions and traffic targets |
| `history` | the rows of the store, in order |
| `call` | the request of each client: an apply, a rollback shown, confirmed, routed |

The views are operators (`Status`, `Inventory`, `Timeline`, `Activity`,
`RollbackTarget`) and the messages clients see are operators over these
(`StatusMessage` and so on). Each answer is computed from one state: the
interleavings within a call are those of `Deployment`. The actions are what makes
the answers change: `EditManifest`, `DeployOutside`, `DivideTraffic`, `Settle`,
an apply (`Apply`, `FinishApply`, `FailApply`), a rollback from the dialog of the
web UI (`PreviewRollback`, `ConfirmRollback`, which plans again, `Route`,
`RecordRollback`) and `Abandon`.

A project may hold the services of several environments: the service of another
environment is listed as unmanaged in this one, as the code does. Two manifests of
different environments may name one service.

Nothing is claimed of the order of Activity: rows are listed by their insertion,
and two calls that overlap may insert them in the other order than they changed
Cloud Run.

Shares and rows are added up and listed by recursive functions (`Total`,
`NewestFirst`), which the proofs unfold. The constants are assumed to be what the
surroundings allow: Cloud Run takes a division of traffic only if it is one of 100
(`SharesAssumption`), a manifest starts with a pinned image (`ImageAssumption`), and
in one environment no two manifests name one Cloud Run service (`NamesAssumption`,
which LoadServices enforces). A revision *clearly serves* if it has traffic, more
than any other, by one target; `DriftExplained` then ties Status to Timeline for
every limit. For other divisions the two may differ, which is what
`MCObserve_split.cfg` shows.

### Delivery (`Delivery`)

`actions/delivery/run.mjs` and the modules it uses, `reusable-prod-merge.yml`,
`reusable-promotion-pr.yml` up to the merge, `core/promotion_check.go` and
`core/verify.go`. GitHub, its reviews and Cloud Run are external. A number stands
for a release: its merge commit, its plan, its pull request and its Actions run.

| State | In the code |
|---|---|
| `dev`, `prod`, `revisions` | what Dev's manifest says and Dev serves; what Prod serves and has revisions of |
| `desired`, `merged`, `plan` | Prod's manifest on the default branch, the releases and their plans |
| `current` | the release whose plan file the default branch holds |
| `proposal` | the proposal in preparation or open, per kind |
| `job` | the job that holds the concurrency group: its step, whether the admission file exists, the state it reports |
| `runOK`, `check`, `marks` | the conclusion of the run, of the delivery check, the marker in the comment |
| `devServed`, `applied`, `seen`, `marked` | history variables: images Dev has served, the release last deployed, the ones verified, the marks ever set |
| `turn`, `placed`, `deployed` | history variables: how often a plan was put on the default branch, when each release's was put there last, and that number for what was last deployed |

| Action | In the code |
|---|---|
| `BeginCheck`, `Inspect`, `Prepare`, `Push`, `Merge`, `Close` | `promotion check`, `run.mjs prepare`, the branch, the pull request and a person's decision |
| `PrepareRollback` | a rollback proposal; validateRollback asks for a successful delivery check and run |
| `Start` | a push, or a person who starts a run again |
| `Admit`, `RefuseAdmission` | `run.mjs admit`, before and after the wait for the environment |
| `VerifyDev`, `Preflight`, `Precheck`, `Apply`, `ApplyFails`, `VerifyProd` | the job's steps up to the verification |
| `WriteComment`, `WriteCheck`, `Notify`, `MarkNotified`, `ReportFails` | `run.mjs report`, one request after the other |
| `LoseRunner` | the job ends anywhere, without its final report |
| `MergeDev`, `RollOutDev`, `EditBranch`, `Emergency`, `Expire` | what happens around it |

`Fresh` is what `freshness` compares (`run.mjs:33`): the contents of the plan and
the manifest at the tip of the default branch and at the commit of the job. Plans
differ at least in their creation time, so the plan at the tip says which release
is there; it need not be the last one. `EditBranch` merges a pull request without a plan
of its own, a revert included, which brings the plan of an earlier release back.
A run of that release that is started again is then fresh, and it deploys what the
default branch says once more. Releases are for that reason not ordered by their
number: `NeverBack` is about the order in which plans were put on the default
branch, by a merge or by a revert.

Simplifications: the run that the push of a revert starts for its own commit is not
modelled; it is refused unless the plan it restores replaces the image the revert
took away, and is then like the old run started again. What GitHub answers about
reviews, checks and selection is a refusal that may come at any admission.
Readiness, health paths and the registry may fail any verification. An open pull
request that is replaced by a newer candidate is a `Close` and a `BeginCheck`. A run
that is started again has no conclusion until it ends again.

## The runs

| Run | Shows | Bounds and why they are enough |
|---|---|---|
| `promotion_one` | One promote at a time, failing anywhere: a plan lands whole or not at all, takes nothing else along, pins only images that exist, and its history is true | two services, so that a plan can be half done; two digests; two repositories, so that a copy is needed; two commits by any actor, so that a promote follows a failed or a landed one; manifests also set by hand. 191 344 states |
| `promotion_empty` (violated) | A failed promote leaves manifests rewritten, and the retry plans nothing | as above |
| `deployment_image` | Image-only: an apply, a rollback, Terraform and failing revisions interleave and keep out of each other's part; the contract holds | one service, one caller of each kind (services do not interact), two images, one setting inside and one outside the containers, three writes: one of each actor between another's read and write. 1 513 174 states |
| `deployment_serial` | Full mode, calls one after the other, with and without `--force`, while others configure the services: what an apply calls in sync serves | two services, so that a call can fail half way; two writes of each. 4 290 271 states, up to the symmetry of the services |
| `controller_loop` | No trigger is lost, a healthy environment converges though the one before it fails every time, the loop stops when cancelled | two environments, the first broken; one commit after the first; ticker on and off. 60 392 states |
| `serve_shutdown` (violated) | The process ends under a request that is being drained | two handlers |
| `gitsync_serial` | With promotions between syncs only, no local work is discarded, and a clean copy whose commits are on the remote branch gets to its tip as long as Sync is called and answered | five commits: the first, and two on either side of a fork. 7 283 states |
| `configuration_all` | Every configuration: each environment is listed once, sources before targets, ties by name; what is validated can be planned | three environments with every promoteFrom, unknown names and cycles of one, two and three included (three is the least with an environment behind a cycle); directories that are empty, unpinned, or name a service or a target twice. 924 032 states |
| `recovery_workers` | Neither retries nor stale copies let a run act unauthorized, recover unverified or go back | two workers, one of them stale; eleven versions: the shortest way through a second investigation to an action and a recovery fits; two transitions between stores; two times. 342 783 states, up to the symmetry of the workers |
| `observe_views` | Status, Inventory, Timeline and rollback previews agree while others deploy, divide traffic and edit | two environments in one project, with one service each and one service of nobody; three revisions, so that a rollback has a choice and a limit of two cuts; traffic whole or 90/10; two rows of history. 195 250 states |
| `delivery_jobs` | A job deploys nothing that was on the default branch earlier than what was deployed before it, rollbacks go to verified releases, Prod runs only what Dev has served, a result is sent once it is not marked | two releases, the second possibly a rollback to the first; three jobs: each release's and one that is started again; two events around them, a move of Dev and a revert or an emergency, Dev being ahead of Prod at the start or not; two images. 3 141 211 states |
| `delivery_retry` (violated) | A report that says blocked erases the successful check of a verified release | one release, two jobs |

The runs marked violated check one sentence each of the source or its documents
that the code does not keep; PROJECT.json quotes it and the line that breaks it.

`InSyncMeansServing` holds in `deployment_serial` because a full update resets
the traffic and the calls do not overlap; the two ways in which it fails are an
image-only update and an overlapping rollback.

The deadlock check is off in the runs of `Controller`, `Serve`, `Configuration`,
`RecoveryRun`, `Observe` and `Delivery`: there a process ends, a request is
answered, a run reaches a final state, or a bound is reached. In the other models
no call is ever stuck in a way that stops the system, since every call may be
abandoned; that is not claimed as a liveness result.

### Further configurations

Six more configurations show where a property stops to hold when the
surroundings are less kind. TLC finds each of them violated.

| Configuration | Property | What happens |
|---|---|---|
| `MCPromotion_sweep.cfg` | `CommitsOnlyTargets` | two promotes at once: one commits what the other has staged, because the commit takes the whole index (`commit.go:34`; `commit.go:17` says it commits the given paths) |
| `MCDeployment_pinned.cfg` | `InSyncMeansServing` | an image-only apply after a rollback reports in sync what does not serve (`apply.go:131`, `apply.go:63`) |
| `MCDeployment_strip.cfg` | `ApplyRefusesToStrip` | a setting that is added after the check is removed (`client.go:134`, `docs/spec/phase1-cli.md:338`) |
| `MCController_manual.cfg` | `ManualUntouched` | a cycle that has listed its environments applies manifests committed with a change to manual (`controller.go:132`, `docs/requirements.md:21`) |
| `MCGitSync_overlap.cfg` | `NeverDiscards` | a promotion that starts after the checks of a sync is reset away (`sync.go:92`, `sync.go:52`) |
| `MCObserve_split.cfg` | `StatusNamesLargest` | traffic 40/30/30 where LATEST and the latest revision by name are the same: Status names the one with 40 (`client.go:276`, `client.go:22`; the timeline adds shares up by revision) |

Three of these properties hold under an assumption, which is what the theorems
below state: `CommitsOnlyTargets` for one caller, `InSyncMeansServing` in full mode
with calls one after the other, `NeverDiscards` without promotions during a sync.
`ApplyRefusesToStrip` is not among them: without changes by others between the check
and the update it says no more than the check does.

## Fairness

Only `Controller` and `GitSync` state any; the calls of `Promotion`,
`Deployment` and `Observe`, the requests of `Configuration`, the jobs of `Delivery`
and the workers of `RecoveryRun` may stop anywhere, as command lines, runners and
processes do.

- `WF(LoopStep)`: the goroutine is scheduled, and an apply ends by its timeout.
- `WF(Tick)`: the clock goes on.
- `SF` of each case of the select: Go picks uniformly among the cases that are
  ready, so one that is ready again and again is picked. Weak fairness would be
  too little: while the loop is in a cycle no case is enabled. It is this
  assumption, and not the code's order of cases, that ends a cancelled loop.
- `SF(Refresh(TRUE))` and `SF(ApplyOK)` per environment that is not broken: an
  outage ends. It is an assumption about the surroundings, and the property is
  stated for the environments it is made for; broken ones get none.
- `GitSync`, `WF(SyncStep)`: a Sync whose fetch was answered goes on. That somebody
  calls Sync again and again and that the remote answers again and again are
  hypotheses of `Follows`.

`Converges` further supposes an interval (`ticking`) and no cancellation;
without an interval a cycle that fails consumes its trigger, which is listed as
a hazard.

## The proofs

The `_proofs` modules extend the models. They assume the named ASSUMEs of the
models and nothing else, except where a theorem says so.

| Theorem | States | Argument |
|---|---|---|
| `Promotion_proofs!TypeCorrect` | `TypeOK` | not inductive alone: between its check and its write an iteration must have an item (`CurOK`) |
| `Promotion_proofs!PromotedImages` | no commit pins a digest its repository lacks, whatever interleaves | HEAD is filled from the index and the index from the working tree, so the invariant speaks of all three trees (`Pinned`), and of the item a call has copied and not yet written (`Copied`). Repositories only grow |
| `!HistoryIsTrue` | rows of the history tell of commits that were made, with the digest they pinned | for one caller (`OneCaller`); commits are only added, and a call that records has its commit in hand |
| `!CommitsNothingElse` | a promote commits its targets and nothing else | for one caller: from its status check to its commit the index holds HEAD everywhere but in its targets; others write in its targets only while no plan is being executed (`TargetsApart`) |
| `!KeepsPromise` | `Promotion` implements `AtomicPromotion` | for one caller: the commit maps to the one landing step, every other step of a call to the beginning or the giving up of an intent or to a stutter |
| `Deployment_proofs!TypeCorrect` | `TypeOK` | `Inv`, with what a call has in hand at each stage (`CallOK`) |
| `!PinnedTraffic` | traffic is pinned to ready revisions only | a plan may be of any age: its target was ready (`PlanOK`) and revisions stay ready |
| `!NoLostUpdate` | an image-only apply changes no setting and no traffic | an etag that still matches means the read is the service as it is (`SnapOK`) |
| `!GoesBack` | a rollback to a target it chose never moves the traffic forward | for one rollback at a time (`OneRollback`), any applies and Terraform; `ServesNewer`: all other steps let only newer revisions serve |
| `!InSyncServes` | an apply that reports in sync saw the desired image serving | in full mode, without overlap; `WaitOK`: from the revision an apply waits for onward there is only its image, whatever Terraform adds meanwhile |
| `!KeepsContract` | `Deployment` implements `ServiceContract` | under `Guarded`: each action maps to one step of the contract or to a stutter; an unforced full update has nothing to remove (`StripInv`) |
| `Controller_proofs!TypeCorrect`, `!NoRequestLost` | `TypeOK`; a trigger no cycle began after is in the channel | versions seen are versions that have been, and a cycle in progress has an environment left |
| `GitSync_proofs!TypeCorrect`, `!NothingDiscarded` | `TypeOK`; Sync discards no local work | under `~ Overlap`; `CheckedOK`: what a stage has checked still holds at the next |
| `Configuration_proofs!TypeCorrect`, `!EachListedOnce`, `!SourcesListedFirst` | `TypeOK`; every environment listed once; sources before targets | for any number of environments: `Counted` ties `pending` and `ready` to what is placed; when the queue is empty, what is left is a set in which each waits for another of the set, which is what `Endless` says |
| `!TiesByName` | an environment is listed behind one of a larger name only if it had to wait for that one or for one listed since, or it alone is on or behind a cycle | `Tied` says the same of what is in the queue: one with a smaller name than a listed one waited for a source listed since, and the queue gives its smallest name |
| `!ValidatedCanBePlanned` | what `manifest validate` accepts can be planned | what each stage of the request has established, one environment after the other (`Established`) |
| `RecoveryRun_proofs!TypeCorrect`, `!AuthorizedBeforeActing`, `!NewerStateSurvives` | `TypeOK`; no action without authorization and no recovery without verification; no newer state overwritten | for any number of workers: the same is true of every copy that may still be stored, in terms of what its steps will do to the history variables (`CopyInv`). `LegalStepSound` is about the table of transitions alone |
| `Delivery_proofs!TypeCorrect`, `!RollbackTargetsVerified`, `!ProdOnlyFromDev`, `!NeverTakenBack`, `!MarkedNotSentAgain` | `TypeOK` and the four properties of `delivery_jobs` | for any number of releases, jobs and events: plans, proposals and records (`PlanInv`, `ProposalInv`, `RecordInv`), and of a job what it has established at each step (`JobOK`) |
| `Observe_proofs!TypeCorrect` | `TypeOK`: the state and every answer | `IInv`: targets name revisions that are ready, and shares add up to no more than 100, so that the part of each revision is a percentage (`TotalMonotone`) |
| `!RollsBackAsPlanned` | `RollsBackAsPreviewed` | `IInv` carries the plan that was shown: as long as the call is fresh, planning again gives the same (`CallOK`); what is planned is ready and older than something with traffic (`Planned`) |
| `!OneItemPerManifest` | `ViewsAgree` | the items of the inventory are those of the names that run or are managed, one each (`Items`), and item and Status row are computed from the same place (`RowsAgree`) |
| `!DriftIsExplained` | `DriftExplained` | what clearly serves is the only largest target (`ClearServes`) and the only largest row of the listing, cut or not |

The proof about delivery also says what each property rests on.
`RollsBackToVerified` and `ProdFromDev` come from the proposals alone, so they
survive any fault of the job; `NeverBack` needs the second admission, right before
the update, and no other check.

`Guarded` is: nobody else configures services while calls run and
`UnmanagedSettings` sees every setting, or every service is image-only. It is what
the contract asks of the surroundings, and nothing the code provides: the list in
`preserve.go:41` is a fixed one, and nothing holds others off between the check and
the update.

The least and the greatest element of a finite set of numbers (`MinExists`,
`MaxExists`) are proved from the well-foundedness of the subset order, since the
induction theorems of the library take an operator as a parameter. From a least
element follows induction over an interval in the form the proofs about `Observe`
need it: a set that holds 0 and with every number below n its successor holds all
of `0 .. n` (`Upward`). With it the recursive functions of `Observe` are shown to
exist, a sum to be bounded, monotone and unchanged by zeros (`TotalBounds`,
`TotalMonotone`, `TotalOfOne`), and a listing to consist of rows of the store
(`ListedRows`).

Checked by TLC only: the liveness properties (`TriggerStartsCycle`, `Converges`,
`StopsWhenCancelled`, `Follows`), which are out of the prover's
reach, as is everything that needs ENABLED. Every invariant and every action
property of a passing run is a theorem, under the assumption its row names; the
runs satisfy these assumptions.

## Not modelled

- The command line: flags, wiring, prompts and output. It keeps no state, and the
  use cases it calls are modelled; a prompt is the step that may never come.
- The web UI and the generated API: presentation, and code that is derived from
  the proto files. Of the conversions in `server/convert.go`, the ones that choose
  what a client is told are in `Observe` and `Configuration`.
- Parsing: YAML, image references, plans, markers and fingerprints. A manifest is
  what it says, and a number stands for a release.
- SQLite: an insert is one step that happens or does not, a query one read.
- The agent beyond its recovery run: the assembly and validation of inputs and of
  verdicts are pure checks of single values, and the orchestrator, the store and
  the connectors behind the ports are not written yet.
- The branch and pull request of an artifact event, and the order of candidates
  when several repositories propose at once (`reusable-promotion-pr.yml:301`):
  a lease on a branch, held by Git.
- The merge of several services' timelines by creation time.
- An update of Cloud Run that takes effect only after the call that sent it timed
  out: the models let it take effect when it is sent. What would differ is that no
  history entry follows, which an abandoned call shows as well.
- A promote requested through the server plans again before it executes; in
  `Promotion` that is a call whose plan is made at that moment.

What would come next: `Controller` over `GitSync`, once the source calls Sync;
and the branches of artifact events with their lease.

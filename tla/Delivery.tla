------------------------------ MODULE Delivery ------------------------------
(***************************************************************************)
(* Merge-approved delivery of one service from Dev to Prod: the proposal   *)
(* workflow (reusable-promotion-pr.yml with core/promotion_check.go and    *)
(* run.mjs prepare), rollback proposals, and the production job of         *)
(* reusable-prod-merge.yml (run.mjs admit, verify-dev, verify-prod and     *)
(* report around core/verify.go and an apply).                             *)
(*                                                                         *)
(* A release is a merged pull request with its plan; releases are numbered *)
(* in the order of their merges, and a number stands for the merge commit, *)
(* the plan's fingerprint, the pull request and the Actions run alike: a   *)
(* run that is started again keeps its commit and its run ID.  A later     *)
(* pull request may bring the plan of an old release back.  GitHub, its    *)
(* reviews and Cloud Run are external.                                     *)
(***************************************************************************)
EXTENDS Naturals

CONSTANTS
    None,
    Images,
    Initial,        \* the image Prod serves before any release
    MaxReleases,    \* bound: releases that are merged
    MaxRuns,        \* bound: times a job is started
    MaxEvents       \* bound: events around the workflows

ASSUME ImageAssumption == Initial \in Images
ASSUME BoundAssumption == {MaxReleases, MaxRuns, MaxEvents} \subseteq Nat

Release == 1..MaxReleases
Turn == 0..(MaxReleases + MaxEvents)
Kind == {"promotion", "rollback"}
Pending == {"merged_waiting_apply", "deploying"}
Result == {"verified", "failed", "blocked", "superseded"}

\* old: the image the plan replaces; before: what the merge replaced;
\* origin: the release a rollback goes back to; devDesired: Dev's manifest at
\* the merge; expired: the evidence has outlived maxAgeSeconds.
Plan == [kind : Kind, image : Images, old : Images, before : Images,
         origin : 0..MaxReleases, devDesired : Images, expired : BOOLEAN]

\* current: the default branch has not moved since the checkout.
Proposal == [step : {"inspect", "prepare", "push", "open"}, image : Images,
             old : Images, origin : 0..MaxReleases, current : BOOLEAN]

Steps == {"admit", "verifyDev", "preflight", "readmit", "apply", "precheck",
          "update", "verify", "report", "check", "notify", "mark"}

\* admitted: the admission file exists; asked: DELIVERY_STATE; state: what
\* the report says; had: the delivery check was successful at the start.
Job == [release : Release, step : Steps, admitted : BOOLEAN,
        asked : Pending \cup Result, state : Pending \cup Result,
        had : BOOLEAN]

CheckState == {"none", "in_progress", "success", "neutral", "failure"}

ASSUME NoneAssumption == None \notin Plan \cup Proposal \cup Job

VARIABLES
    dev,        \* Dev: the image of its manifest and the one it serves
    prod,       \* the image Prod serves
    revisions,  \* the images Prod has revisions of
    desired,    \* Prod's manifest on the default branch
    merged,     \* number of releases
    plan,       \* release -> its plan
    current,    \* the release whose plan the default branch holds, or 0
    proposal,   \* kind -> the proposal in preparation or open, or None
    job,        \* the job that holds the concurrency group, or None
    runs,       \* jobs started so far
    events,     \* events around the workflows so far
    runOK,      \* release -> its run concluded with success
    check,      \* release -> conclusion of its delivery check
    marks,      \* release -> results its comment marks as notified
    devServed,  \* history: images Dev has served
    applied,    \* history: the release last deployed
    turn,       \* history: times a plan was put on the default branch
    placed,     \* history: release -> the turn that last put its plan there
    deployed,   \* history: the turn of the release last deployed
    seen,       \* history: releases whose job has verified Prod
    marked      \* history: release -> results ever marked as notified

branch == <<desired, merged, plan, current, turn, placed>>
records == <<runs, runOK, check, marks>>
history == <<devServed, applied, deployed, seen, marked>>
vars == <<dev, prod, revisions, branch, proposal, job, records, events, history>>

TypeOK ==
    /\ dev \in [desired : Images, serving : Images]
    /\ prod \in Images
    /\ revisions \in SUBSET Images
    /\ desired \in Images
    /\ merged \in 0..MaxReleases
    /\ plan \in [Release -> Plan \cup {None}]
    /\ \A c \in Release : c <= merged <=> plan[c] # None
    /\ current \in 0..merged
    /\ placed \in [Release -> Turn] /\ {turn, deployed} \subseteq Turn
    /\ proposal \in [Kind -> Proposal \cup {None}]
    /\ job \in Job \cup {None}
    /\ job # None => job.release <= merged
    /\ runs \in 0..MaxRuns /\ events \in 0..MaxEvents
    /\ runOK \in [Release -> BOOLEAN]
    /\ check \in [Release -> CheckState]
    /\ marks \in [Release -> SUBSET Result]
    /\ devServed \in SUBSET Images
    /\ applied \in 0..MaxReleases
    /\ seen \in SUBSET Release
    /\ marked \in [Release -> SUBSET Result]

\* A build may have been merged into Dev's manifest and not be rolled out yet.
Init ==
    /\ dev \in [desired : Images, serving : {Initial}]
    /\ prod = Initial /\ revisions = {Initial} /\ desired = Initial
    /\ merged = 0 /\ current = 0
    /\ plan = [c \in Release |-> None]
    /\ turn = 0 /\ placed = [c \in Release |-> 0] /\ deployed = 0
    /\ proposal = [k \in Kind |-> None]
    /\ job = None
    /\ runs = 0 /\ events = 0
    /\ runOK = [c \in Release |-> FALSE]
    /\ check = [c \in Release |-> "none"]
    /\ marks = [c \in Release |-> {}]
    /\ devServed = {Initial} /\ applied = 0 /\ seen = {}
    /\ marked = [c \in Release |-> {}]

\* Every commit on the default branch moves the base of what is prepared.
BaseMoved(p) == [k \in Kind |->
    IF p[k] = None THEN None ELSE [p[k] EXCEPT !.current = FALSE]]

(***************************************************************************)
(* Around the workflows                                                    *)
(***************************************************************************)
Event == events < MaxEvents /\ events' = events + 1

\* A Dev build is merged into Dev's manifest, and later rolled out.
MergeDev(image) ==
    /\ Event
    /\ image # dev.desired
    /\ dev' = [dev EXCEPT !.desired = image]
    /\ proposal' = BaseMoved(proposal)
    /\ UNCHANGED <<prod, revisions, branch, job, records, history>>

RollOutDev ==
    /\ dev.serving # dev.desired
    /\ dev' = [dev EXCEPT !.serving = dev.desired]
    /\ devServed' = devServed \cup {dev.desired}
    /\ UNCHANGED <<prod, revisions, branch, proposal, job, records, events, applied,
                   deployed, seen, marked>>

\* The plan of c is what the default branch holds from now on.
Place(c) ==
    /\ current' = c
    /\ turn' = turn + 1
    /\ placed' = [placed EXCEPT ![c] = turn + 1]

\* A pull request without a plan of its own edits Prod's manifest; it may be
\* a revert that brings the plan of an earlier release back, or leaves none.
EditBranch(c, image) ==
    /\ Event
    /\ c <= merged /\ <<c, image>> # <<current, desired>>
    /\ desired' = image
    /\ IF c \in {0, current}
         THEN current' = c /\ UNCHANGED <<turn, placed>>
         ELSE Place(c)
    /\ proposal' = BaseMoved(proposal)
    /\ UNCHANGED <<dev, prod, revisions, merged, plan, job, records, history>>

\* An emergency rollback moves Prod's traffic, outside the concurrency group.
Emergency(image) ==
    /\ Event
    /\ image \in revisions /\ image # prod
    /\ prod' = image
    /\ UNCHANGED <<dev, revisions, branch, proposal, job, records, history>>

Expire(c) ==
    /\ Event
    /\ c <= merged /\ ~plan[c].expired
    /\ plan' = [plan EXCEPT ![c].expired = TRUE]
    /\ UNCHANGED <<dev, prod, revisions, desired, merged, current, turn, placed,
                   proposal, job, records, history>>

(***************************************************************************)
(* VerifyDeployment and CheckPromotion compare digests; whether the        *)
(* revision is Ready with all traffic, the digest is in the registry and   *)
(* the health paths answer is up to the services.                          *)
(***************************************************************************)
\* checkHTTP: one of the attempts gets the expected status, or none does.
CheckHTTP == BOOLEAN

\* (Bug) The digests are not compared.
AnyDigest(serving, image) == image \in Images

SameDigest(serving, image) == serving = image

\* What `delivery verify` may answer about a service that serves an image.
Verify(serving, image) ==
    {SameDigest(serving, image) /\ healthy : healthy \in CheckHTTP}

\* What `delivery preflight` may answer; no answer of the APIs is "unknown".
DeployPermissions == {"passed", "blocked", "unknown"}

(***************************************************************************)
(* Proposals                                                               *)
(***************************************************************************)
Proposed(k, p) == proposal' = [proposal EXCEPT ![k] = p]

\* CheckPromotion plans from Dev to Prod; equal digests are a no-op.
BeginCheck ==
    /\ proposal["promotion"] = None /\ merged < MaxReleases
    /\ dev.desired # desired
    /\ Proposed("promotion", [step |-> "inspect", image |-> dev.desired,
                    old |-> desired, origin |-> 0, current |-> TRUE])
    /\ UNCHANGED <<dev, prod, revisions, branch, job, records, events, history>>

\* CheckPromotion looks at what Dev serves: the promotion is eligible or not.
Inspect ==
    /\ proposal["promotion"] # None /\ proposal["promotion"].step = "inspect"
    /\ LET p == proposal["promotion"] IN
         \E healthy \in CheckHTTP :
           Proposed("promotion", IF SameDigest(dev.serving, p.image) /\ healthy
                                   THEN [p EXCEPT !.step = "prepare"] ELSE None)
    /\ UNCHANGED <<dev, prod, revisions, branch, job, records, events, history>>

\* prepare verifies Dev once more, the manifest being written by now.
Prepare ==
    /\ proposal["promotion"] # None /\ proposal["promotion"].step = "prepare"
    /\ LET p == proposal["promotion"] IN
         \E verified \in Verify(dev.serving, p.image) :
           Proposed("promotion", IF verified THEN [p EXCEPT !.step = "push"] ELSE None)
    /\ UNCHANGED <<dev, prod, revisions, branch, job, records, events, history>>

\* (Bug) Any merged release will do.
TargetMerged(c) == c <= merged

\* validateRollback: the release has a successful delivery check, and the
\* run it links to concluded with success.
RollbackTarget(c) == c <= merged /\ check[c] = "success" /\ runOK[c]

PrepareRollback(c) ==
    /\ proposal["rollback"] = None /\ merged < MaxReleases
    /\ RollbackTarget(c) /\ plan[c].image # desired
    /\ Proposed("rollback", [step |-> "push", image |-> plan[c].image,
                    old |-> desired, origin |-> c, current |-> TRUE])
    /\ UNCHANGED <<dev, prod, revisions, branch, job, records, events, history>>

\* The branch is pushed, and a pull request opened, only from an unmoved base.
Push(k) ==
    /\ proposal[k] # None /\ proposal[k].step = "push"
    /\ Proposed(k, IF proposal[k].current THEN [proposal[k] EXCEPT !.step = "open"]
                                          ELSE None)
    /\ UNCHANGED <<dev, prod, revisions, branch, job, records, events, history>>

\* A person merges the pull request, or closes it.
Merge(k) ==
    /\ proposal[k] # None /\ proposal[k].step = "open" /\ merged < MaxReleases
    /\ LET p == proposal[k] IN
         /\ plan' = [plan EXCEPT ![merged + 1] =
              [kind |-> k, image |-> p.image, old |-> p.old, before |-> desired,
               origin |-> p.origin, devDesired |-> dev.desired,
               expired |-> FALSE]]
         /\ desired' = p.image
    /\ merged' = merged + 1
    /\ Place(merged + 1)
    /\ proposal' = [BaseMoved(proposal) EXCEPT ![k] = None]
    /\ UNCHANGED <<dev, prod, revisions, job, records, events, history>>

Close(k) ==
    /\ proposal[k] # None /\ proposal[k].step = "open"
    /\ Proposed(k, None)
    /\ UNCHANGED <<dev, prod, revisions, branch, job, records, events, history>>

(***************************************************************************)
(* The production job                                                      *)
(***************************************************************************)
\* (Bug) Only the manifest is compared.
FreshManifest(c) == desired = plan[c].image

\* freshness: neither the plan nor the manifest (for which the two
\* configuration files are compared, too) differs on the default branch.
\* Plans of two releases differ at least in their createdAt.
Fresh(c) == current = c /\ desired = plan[c].image

\* A push starts the job of the merge commit, once an earlier one is done or
\* lost; a person may start it again at any time.
Start(c) ==
    /\ job = None
    /\ c <= merged /\ runs < MaxRuns
    /\ job' = [release |-> c, step |-> "admit", admitted |-> FALSE,
               asked |-> "blocked", state |-> "blocked",
               had |-> check[c] = "success"]
    /\ runs' = runs + 1
    /\ runOK' = [runOK EXCEPT ![c] = FALSE]
    /\ UNCHANGED <<dev, prod, revisions, branch, proposal, check, marks, events, history>>

\* The job's own steps change the job, and what they name.
At(step) == job # None /\ job.step = step
Goto(step) == job' = [job EXCEPT !.step = step]
Report(j, state) == [j EXCEPT !.step = "report", !.asked = state, !.state = state]
JobOnly == UNCHANGED <<dev, prod, revisions, branch, proposal, records, events, history>>

\* admit, apart from what GitHub answers: selection, freshness, the reviewed
\* change, and the quality of a rollback's target.
Admissible(c) ==
    /\ ~plan[c].expired
    /\ Fresh(c)
    /\ plan[c].old = plan[c].before
    /\ plan[c].kind = "rollback" => RollbackTarget(plan[c].origin)

Admit ==
    /\ At("admit") \/ At("readmit")
    /\ Admissible(job.release)
    /\ IF job.step = "admit"
         THEN job' = Report([job EXCEPT !.admitted = TRUE], "merged_waiting_apply")
         ELSE Goto("apply")
    /\ JobOnly

\* A step of the job fails: a job without an admission file ends, any other
\* goes to its final report.
FailsAs(j, state) == IF j.admitted THEN Report(j, state) ELSE None

\* The admission file is written before most of the checks.
RefuseAdmission ==
    /\ At("admit") \/ At("readmit")
    /\ \E early \in BOOLEAN :
         LET j == [job EXCEPT !.admitted =
                       @ \/ (early /\ ~plan[job.release].expired)]
         IN job' = FailsAs(j, "blocked")
    /\ JobOnly

\* verify-dev, before the plan and again right before the update; Dev's
\* manifest is the one of the merge commit.
DevVerified(p) ==
    {~p.expired /\ (p.kind = "rollback" \/ (p.devDesired = p.image /\ verified)) :
        verified \in Verify(dev.serving, p.image)}

VerifyDev ==
    /\ At("verifyDev") \/ At("apply")
    /\ \E ok \in DevVerified(plan[job.release]) \cup {FALSE} :
         IF ok
           THEN Goto(IF job.step = "verifyDev" THEN "preflight" ELSE "precheck")
           ELSE job' = FailsAs(job, IF job.step = "verifyDev" THEN "blocked"
                                                              ELSE "failed")
    /\ JobOnly

\* The permission probe and the dry run of the apply, which may fail too.
Preflight ==
    /\ At("preflight")
    /\ \E permissions \in DeployPermissions, planned \in BOOLEAN :
         job' = IF permissions = "passed" /\ planned THEN Report(job, "deploying")
                                                     ELSE FailsAs(job, "blocked")
    /\ JobOnly

\* A release that is already verified is not applied again.
Precheck ==
    /\ At("precheck")
    /\ \E verified \in Verify(prod, plan[job.release].image) :
         Goto(IF verified THEN "verify" ELSE "update")
    /\ JobOnly

\* wataridori apply: it fails before the update, or after it, or succeeds.
Apply ==
    /\ At("update")
    /\ prod' = plan[job.release].image
    /\ revisions' = revisions \cup {prod'}
    /\ applied' = job.release /\ deployed' = placed[job.release]
    /\ \/ Goto("verify")
       \/ job' = Report(job, "failed")
    /\ UNCHANGED <<dev, branch, proposal, records, events, devServed, seen, marked>>

ApplyFails ==
    /\ At("update")
    /\ job' = Report(job, "failed")
    /\ JobOnly

VerifyProd ==
    /\ At("verify")
    /\ \E verified \in Verify(prod, plan[job.release].image) :
         /\ job' = Report(job, IF verified THEN "verified" ELSE "failed")
         /\ seen' = IF verified THEN seen \cup {job.release} ELSE seen
    /\ UNCHANGED <<dev, prod, revisions, branch, proposal, records, events,
                   devServed, applied, deployed, marked>>

(***************************************************************************)
(* Reports                                                                 *)
(***************************************************************************)
\* (Bug) The comment is written anew.
NoMarks(c) == {}

KeptMarks(c) == marks[c]

\* The state to report is looked at once more, and the comment written.
WriteComment ==
    /\ At("report")
    /\ \E state \in {IF Fresh(job.release) THEN job.asked ELSE "superseded",
                     "blocked"} :
         job' = [job EXCEPT !.step = "check", !.state = state]
    /\ marks' = [marks EXCEPT ![job.release] = KeptMarks(job.release)]
    /\ UNCHANGED <<dev, prod, revisions, branch, proposal, runs, runOK, check,
                   events, history>>

\* (Bug) The delivery state is sent for a conclusion, which it is not.
StateSent(state) == IF state \in Pending THEN "in_progress" ELSE state

Conclusion(state) ==
    CASE state \in Pending       -> "in_progress"
      [] state = "verified"      -> "success"
      [] state = "superseded"    -> "neutral"
      [] OTHER                   -> "failure"

\* After a report the job goes on; after the final one it ends.
Continue ==
    IF job.asked \in Pending
      THEN /\ Goto(IF job.asked = "deploying" THEN "readmit" ELSE "verifyDev")
           /\ UNCHANGED runOK
      ELSE /\ job' = None
           /\ runOK' = [runOK EXCEPT ![job.release] = job.asked = "verified"]

\* A superseded retry leaves a successful check; the webhook is configured
\* for the final report only.
WriteCheck ==
    /\ At("check")
    /\ check' = IF check[job.release] = "success" /\ job.state = "superseded"
                  THEN check
                  ELSE [check EXCEPT ![job.release] = Conclusion(job.state)]
    /\ IF job.asked \notin Pending /\ job.state \notin marks[job.release]
         THEN Goto("notify") /\ UNCHANGED runOK
         ELSE Continue
    /\ UNCHANGED <<dev, prod, revisions, branch, proposal, runs, marks, events, history>>

Notify ==
    /\ At("notify")
    /\ Goto("mark")
    /\ JobOnly

MarkNotified ==
    /\ At("mark")
    /\ marks' = [marks EXCEPT ![job.release] = @ \cup {job.state}]
    /\ marked' = [marked EXCEPT ![job.release] = @ \cup {job.state}]
    /\ Continue
    /\ UNCHANGED <<dev, prod, revisions, branch, proposal, runs, check,
                   devServed, applied, deployed, seen, events>>

\* A request of a report fails, the webhook's included; the job goes on.
ReportFails ==
    /\ \E step \in {"report", "check", "notify", "mark"} : At(step)
    /\ Continue
    /\ UNCHANGED <<dev, prod, revisions, branch, proposal, runs, check, marks,
                   events, history>>

LoseRunner ==
    /\ job # None
    /\ job' = None
    /\ JobOnly

Next ==
    \/ \E image \in Images : MergeDev(image) \/ Emergency(image)
    \/ \E c \in 0..MaxReleases, image \in Images : EditBranch(c, image)
    \/ RollOutDev \/ BeginCheck \/ Inspect \/ Prepare
    \/ \E c \in Release : Expire(c) \/ PrepareRollback(c) \/ Start(c)
    \/ \E k \in Kind : Push(k) \/ Merge(k) \/ Close(k)
    \/ Admit \/ RefuseAdmission \/ VerifyDev \/ Preflight
    \/ Precheck \/ Apply \/ ApplyFails \/ VerifyProd
    \/ WriteComment \/ WriteCheck \/ Notify \/ MarkNotified \/ ReportFails
    \/ LoseRunner

Spec == Init /\ [][Next]_vars

(***************************************************************************)
(* Properties                                                              *)
(***************************************************************************)
\* Newer plans supersede old runs (merge-approved-delivery.md): what a job
\* deploys was put on the default branch, by its own merge or by a reviewed
\* change that brought it back, no earlier than what was deployed before it,
\* although a run may have waited, or be started again much later.
NeverBack == [][deployed' >= deployed]_deployed

\* Rollback proposals reference a previous verified release: what a rollback
\* deploys is the image that the job of its origin has found Prod serving.
RollsBackToVerified ==
    applied # 0 /\ plan[applied].kind = "rollback" =>
      /\ plan[applied].origin \in seen
      /\ plan[applied].image = plan[plan[applied].origin].image

\* Prod has no revision of an image Dev has not served: not by a promotion
\* proposed while Dev moved on, and not by a rollback over several releases.
ProdFromDev == revisions \subseteq devServed

\* Ordinary retries are suppressed via the marker of the comment: a result
\* once marked as notified is not sent again, whatever was reported since.
MarkedIsSilent ==
    [][job # None /\ job' # None =>
         ~ (job.step = "notify" /\ job'.step = "mark"
              /\ job.state \in marked[job.release])]_job

\* run.mjs:191: a stale retry must not erase the historical verified release
\* used by rollback.
RetryKeepsSuccess ==
    [][job # None => (job.step = "check" /\ job.state = "superseded" /\ job.had
                        => check'[job.release] = "success")]_check
=============================================================================

----------------------------- MODULE Controller -----------------------------
(***************************************************************************)
(* The reconcile loop of wataridori serve --reconcile                      *)
(* (controller/controller.go, wired up in cli/serve.go): one goroutine     *)
(* that applies every environment with policy auto at startup, at every    *)
(* tick of its interval and whenever it is triggered, until its context is *)
(* cancelled.                                                              *)
(*                                                                         *)
(* The manifests are the files of a checkout that others commit to at any  *)
(* time.  An environment's state is the version of the manifests it runs:  *)
(* a deployment, which the module Deployment models request by request, is *)
(* here a step that takes effect or not.                                   *)
(***************************************************************************)
EXTENDS Naturals, FiniteSetsExt

CONSTANTS
    Envs,        \* the environments, numbered in the order of their names
    Broken,      \* the environments whose applies fail every time
    MaxVersion,  \* the number of commits
    None

ASSUME EnvsAssumption == Envs \subseteq Nat /\ IsFiniteSet(Envs) /\ Broken \subseteq Envs
ASSUME VersionAssumption == MaxVersion \in Nat
ASSUME NoneAssumption == None \notin Nat

VARIABLES
    files,      \* the checkout: policies and manifests
    deployed,   \* the manifests each environment runs; None: something else
    ticking,    \* the interval is positive
    tick,       \* the ticker's channel holds a tick
    kick,       \* the trigger channel holds a kick
    cancelled,  \* the context is cancelled
    loop,       \* where the loop stands
    left,       \* the environments of the snapshot the cycle has not applied
    read,       \* the manifests the current apply loaded
    asked,      \* the version of the files at the last Trigger
    began       \* the version of the files when the last cycle began

signals == <<tick, kick, cancelled>>
cycle == <<loop, left, read>>
vars == <<files, deployed, ticking, tick, kick, cancelled, loop, left, read, asked, began>>

Version == 0 .. MaxVersion

Files == [version : Version, auto : SUBSET Envs, desired : [Envs -> Version],
          valid : BOOLEAN]

TypeOK ==
    /\ files \in Files
    /\ deployed \in [Envs -> Version \cup {None}]
    /\ {ticking, tick, kick, cancelled} \subseteq BOOLEAN
    /\ loop \in {"start", "select", "refresh", "load", "envs", "apply", "stopped"}
    /\ left \subseteq Envs
    /\ read \in Version
    /\ asked \in Version /\ began \in Version

Init ==
    /\ \E auto \in SUBSET Envs :
        files = [version |-> 0, auto |-> auto, desired |-> [e \in Envs |-> 0], valid |-> TRUE]
    /\ deployed = [e \in Envs |-> None]
    /\ ticking \in BOOLEAN
    /\ tick = FALSE /\ kick = FALSE /\ cancelled = FALSE
    /\ loop = "start"
    /\ left = {}
    /\ read = 0
    /\ asked = 0 /\ began = 0

-----------------------------------------------------------------------------
(* Others *)

\* A commit changes policies and manifests, and may leave a wataridori.yaml
\* that does not load.
Commit ==
    /\ files.version < MaxVersion
    /\ \E auto \in SUBSET Envs, changed \in SUBSET Envs, valid \in BOOLEAN :
        files' = [version |-> files.version + 1,
                  auto |-> auto,
                  desired |-> [e \in Envs |-> IF e \in changed THEN files.version + 1
                                              ELSE files.desired[e]],
                  valid |-> valid]
    /\ UNCHANGED <<deployed, ticking, signals, cycle, asked, began>>

\* A rollback, an apply from another checkout, the console.
Drift(e) ==
    /\ deployed' = [deployed EXCEPT ![e] = None]
    /\ UNCHANGED <<files, ticking, signals, cycle, asked, began>>

\* Mutant: the channel has no buffer, so a kick is lost unless the loop waits.
TriggerUnbuffered ==
    /\ kick' = (loop = "select" \/ kick)
    /\ asked' = files.version
    /\ UNCHANGED <<files, deployed, ticking, tick, cancelled, cycle, began>>

\* POST /-/reconcile: a send that never blocks, into a channel with room for
\* one kick.
Trigger ==
    /\ kick' = TRUE
    /\ asked' = files.version
    /\ UNCHANGED <<files, deployed, ticking, tick, cancelled, cycle, began>>

\* A ticker drops the ticks its channel has no room for.
Tick ==
    /\ ticking
    /\ tick' = TRUE
    /\ UNCHANGED <<files, deployed, ticking, kick, cancelled, cycle, asked, began>>

Cancel ==
    /\ ~ cancelled
    /\ cancelled' = TRUE
    /\ UNCHANGED <<files, deployed, ticking, tick, kick, cycle, asked, began>>

-----------------------------------------------------------------------------
(* Run *)

Reconcile ==
    /\ loop' = "refresh"
    /\ began' = files.version
    /\ UNCHANGED <<files, deployed, ticking, cancelled, left, read, asked>>

\* Run reconciles once before it waits for anything.
Startup ==
    /\ loop = "start"
    /\ Reconcile
    /\ UNCHANGED <<tick, kick>>

\* The three cases of the select; of those that are ready Go picks any one.
TakeTick ==
    /\ loop = "select"
    /\ tick
    /\ tick' = FALSE
    /\ Reconcile
    /\ UNCHANGED kick

TakeKick ==
    /\ loop = "select"
    /\ kick
    /\ kick' = FALSE
    /\ Reconcile
    /\ UNCHANGED tick

\* Mutant: a cancelled context is looked at when there is nothing to do.
StopWhenIdle ==
    /\ loop = "select"
    /\ cancelled /\ ~ tick /\ ~ kick
    /\ loop' = "stopped"
    /\ UNCHANGED <<files, deployed, ticking, signals, left, read, asked, began>>

Stop ==
    /\ loop = "select"
    /\ cancelled
    /\ loop' = "stopped"
    /\ UNCHANGED <<files, deployed, ticking, signals, left, read, asked, began>>

-----------------------------------------------------------------------------
(* reconcile *)

\* A cycle that ends waits for the next signal.
EndCycle ==
    /\ loop' = "select"
    /\ left' = {}
    /\ UNCHANGED read

\* Mutant: a refresh that fails ends the loop.
RefreshOrStop(ok) ==
    /\ loop = "refresh"
    /\ loop' = IF ok THEN "load" ELSE "stopped"
    /\ UNCHANGED <<files, deployed, ticking, signals, left, read, asked, began>>

\* A refresh that fails skips the cycle.
Refresh(ok) ==
    /\ loop = "refresh"
    /\ IF ok THEN loop' = "load" /\ UNCHANGED <<left, read>> ELSE EndCycle
    /\ UNCHANGED <<files, deployed, ticking, signals, asked, began>>

\* So does a wataridori.yaml that does not load.  Only the environments with
\* policy auto are in the snapshot.
Load ==
    /\ loop = "load"
    /\ IF files.valid /\ files.auto # {}
       THEN loop' = "envs" /\ left' = files.auto /\ UNCHANGED read
       ELSE EndCycle
    /\ UNCHANGED <<files, deployed, ticking, signals, asked, began>>

\* Mutant: manifests that do not load are taken for none.
StartApplyOfNone ==
    /\ loop = "envs"
    /\ IF cancelled
       THEN EndCycle
       ELSE /\ loop' = "apply"
            /\ read' = IF files.valid THEN files.desired[Min(left)] ELSE None
            /\ UNCHANGED left
    /\ UNCHANGED <<files, deployed, ticking, signals, asked, began>>

\* The next environment by name.  Apply loads its manifests now: the snapshot
\* holds the policies only.
StartApply ==
    /\ loop = "envs"
    /\ IF cancelled
       THEN EndCycle
       ELSE loop' = "apply" /\ read' = files.desired[Min(left)] /\ UNCHANGED left
    /\ UNCHANGED <<files, deployed, ticking, signals, asked, began>>

Continue ==
    IF left = {Min(left)}
    THEN EndCycle
    ELSE loop' = "envs" /\ left' = left \ {Min(left)} /\ UNCHANGED read

ApplyOK ==
    /\ loop = "apply"
    /\ Min(left) \notin Broken
    /\ deployed' = [deployed EXCEPT ![Min(left)] = read]
    /\ Continue
    /\ UNCHANGED <<files, ticking, signals, asked, began>>

\* Mutant: the first error ends the cycle.
ApplyFailStops ==
    /\ loop = "apply"
    /\ \E effect \in {read, deployed[Min(left)]} :
        deployed' = [deployed EXCEPT ![Min(left)] = effect]
    /\ EndCycle
    /\ UNCHANGED <<files, ticking, signals, asked, began>>

\* An apply that fails, or that runs into its timeout or the end of its
\* context, may have taken effect nevertheless.
ApplyFail ==
    /\ loop = "apply"
    /\ \E effect \in {read, deployed[Min(left)]} :
        deployed' = [deployed EXCEPT ![Min(left)] = effect]
    /\ Continue
    /\ UNCHANGED <<files, ticking, signals, asked, began>>

-----------------------------------------------------------------------------

\* What the goroutine does by itself.
LoopStep ==
    \/ Startup \/ Load \/ StartApply \/ ApplyOK \/ ApplyFail
    \/ \E ok \in BOOLEAN : Refresh(ok)

Next ==
    \/ LoopStep \/ TakeTick \/ TakeKick \/ Stop
    \/ Commit \/ Trigger \/ Tick \/ Cancel
    \/ \E e \in Envs : Drift(e)

\* The goroutine goes on, and every apply ends by its timeout.  The clock
\* ticks.  The select picks uniformly among what is ready, so that what is
\* ready again and again is picked.  A refresh, and an apply of an environment
\* that is not broken, succeed again and again.
Fairness ==
    /\ WF_vars(LoopStep)
    /\ WF_vars(Tick)
    /\ SF_vars(TakeTick) /\ SF_vars(TakeKick) /\ SF_vars(Stop)
    /\ SF_vars(Refresh(TRUE))
    /\ \A e \in Envs : SF_vars(ApplyOK /\ e = Min(left))

Spec == Init /\ [][Next]_vars /\ Fairness

-----------------------------------------------------------------------------
(* Properties *)

\* "a kick already pending is coalesced" (controller.go:54): no request is
\* lost by that.  One that no cycle has begun after is still in the channel.
KickPending == asked > began => kick

\* A commit that is pushed and announced is followed by a cycle that sees it,
\* however the trigger races with a cycle that is under way.
TriggerStartsCycle ==
    \A v \in 1 .. MaxVersion : asked = v ~> (began >= v \/ cancelled)

\* "a failure in one environment must not stop the loop or skip the others"
\* (controller.go:105): the loop brings every automatic environment that can be
\* deployed back to its manifests, though others fail every time.
Converges ==
    (ticking /\ []~ cancelled) =>
        \A e \in Envs \ Broken :
            <>[](e \in files.auto /\ files.valid) => []<>(deployed[e] = files.desired[e])

\* The loop ends when its context is cancelled, whatever else is ready.
StopsWhenCancelled == cancelled ~> loop = "stopped"

\* "manual: only an explicit promotion or apply may update the environment"
\* (requirements.md:21): the loop applies no manifests of an environment whose
\* policy, in the files they are read from, is manual.
ManualUntouched ==
    [][(StartApply /\ ~ cancelled) => Min(left) \in files.auto]_vars
=============================================================================

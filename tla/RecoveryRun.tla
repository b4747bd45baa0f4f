---------------------------- MODULE RecoveryRun ----------------------------
(***************************************************************************)
(* One recovery run of the SRE agent: the states of agent/domain/state.go, *)
(* the aggregate of agent/domain/recovery.go, and workers that load it,    *)
(* take transitions on their copy and store it under the version they      *)
(* loaded (agent/application/ports.go).                                    *)
(*                                                                         *)
(* The repository has the aggregate and the ports; the orchestrator and    *)
(* the store behind RecoveryRepository are not written yet.  A worker may  *)
(* therefore take any transition the aggregate accepts, at any time, and   *)
(* stop anywhere; the store is external and does what its port promises.   *)
(***************************************************************************)
EXTENDS Naturals

CONSTANTS
    None,
    Workers,
    MaxVersion,     \* bound: versions of the run
    MaxSteps,       \* bound: transitions a worker takes between two stores
    Times           \* the times the workers' clocks show

ASSUME BoundAssumption ==
    MaxVersion \in Nat \ {0} /\ MaxSteps \in Nat /\ Times \subseteq Nat

\* CanTransition; a state without successors is final.
Allowed == [
    detected            |-> {"frozen", "superseded", "escalated"},
    frozen              |-> {"investigating", "superseded", "escalated"},
    investigating       |-> {"recovery_planned", "recovery_failed", "superseded",
                             "escalated"},
    recovery_planned    |-> {"policy_authorized", "recovery_failed", "superseded",
                             "escalated"},
    policy_authorized   |-> {"retrying", "mitigating", "quarantining",
                             "recovery_failed", "superseded"},
    retrying            |-> {"investigating", "final_verification",
                             "recovery_failed", "circuit_open", "superseded"},
    mitigating          |-> {"mitigation_verified", "recovery_failed",
                             "circuit_open", "superseded"},
    mitigation_verified |-> {"quarantining", "reconciling_git",
                             "final_verification", "recovery_failed"},
    quarantining        |-> {"reconciling_git", "final_verification",
                             "recovery_failed"},
    reconciling_git     |-> {"applying_recovery", "mitigated_with_drift",
                             "recovery_failed"},
    applying_recovery   |-> {"final_verification", "mitigated_with_drift",
                             "recovery_failed"},
    final_verification  |-> {"recovered", "investigating", "mitigated_with_drift",
                             "recovery_failed", "circuit_open"},
    mitigated_with_drift |-> {"reconciling_git", "recovery_failed", "escalated"},
    recovered           |-> {},
    superseded          |-> {},
    circuit_open        |-> {},
    recovery_failed     |-> {},
    escalated           |-> {}]

State == DOMAIN Allowed
Final == {"recovered", "superseded", "circuit_open", "recovery_failed", "escalated"}

\* States in which the run changes production, a registry or Git.
Acting == {"retrying", "mitigating", "quarantining", "reconciling_git",
           "applying_recovery"}

Version == 1..MaxVersion
Run == [state : State, version : Version, updated : Times]

\* What the steps of a copy did to a history variable below.
Effect == {"same", "yes", "no"}
Copy == [state : State, version : Version, updated : Times,
         expected : Version, grant : Effect, check : Effect]

ASSUME NoneAssumption == None \notin Run \cup Copy

VARIABLES
    run,        \* the stored run, or None
    copy,       \* worker -> the run it holds in memory, or None
    authorized, \* history: authorized since it was last investigated
    verified    \* history: verified since it last acted

vars == <<run, copy, authorized, verified>>

TypeOK ==
    /\ run \in Run \cup {None}
    /\ copy \in [Workers -> Copy \cup {None}]
    /\ authorized \in BOOLEAN
    /\ verified \in BOOLEAN

Init ==
    /\ run = None
    /\ copy = [w \in Workers |-> None]
    /\ authorized = FALSE
    /\ verified = FALSE

Loaded(r) == [state |-> r.state, version |-> r.version, updated |-> r.updated,
              expected |-> r.version, grant |-> "same", check |-> "same"]

\* Mutant of Create: the version is left at zero.
CreateUnversioned(w) ==
    /\ run = None /\ copy[w] = None
    /\ \E now \in Times : run' = [state |-> "detected", version |-> 0, updated |-> now]
    /\ copy' = [copy EXCEPT ![w] = Loaded(run')]
    /\ UNCHANGED <<authorized, verified>>

\* NewRecoveryRun, stored under an ID that is still free.
Create(w) ==
    /\ run = None /\ copy[w] = None
    /\ \E now \in Times : run' = [state |-> "detected", version |-> 1, updated |-> now]
    /\ copy' = [copy EXCEPT ![w] = Loaded(run')]
    /\ UNCHANGED <<authorized, verified>>

\* A worker loads the run; a worker that was restarted loads it again.
Get(w) ==
    /\ run # None /\ copy[w] = None
    /\ copy' = [copy EXCEPT ![w] = Loaded(run)]
    /\ UNCHANGED <<run, authorized, verified>>

Granted(next, effect) ==
    IF next = "policy_authorized" THEN "yes"
    ELSE IF next = "investigating" THEN "no" ELSE effect

Checked(next, effect) ==
    IF next = "final_verification" THEN "yes"
    ELSE IF next \in Acting THEN "no" ELSE effect

Moved(c, next, now) ==
    [state |-> next, version |-> c.version + 1, updated |-> now,
     expected |-> c.expected, grant |-> Granted(next, c.grant),
     check |-> Checked(next, c.check)]

\* Mutant of Transition: a clock that is behind is not refused.
TransitionAnyTime(w) ==
    LET c == copy[w] IN
    /\ c # None
    /\ c.version < MaxVersion /\ c.version < c.expected + MaxSteps
    /\ \E next \in Allowed[c.state], now \in Times :
         copy' = [copy EXCEPT ![w] = Moved(c, next, now)]
    /\ UNCHANGED <<run, authorized, verified>>

\* Mutant of Transition: what was mitigated counts as recovered.
TransitionUnverified(w) ==
    LET c == copy[w] IN
    /\ c # None
    /\ c.version < MaxVersion /\ c.version < c.expected + MaxSteps
    /\ \E next \in Allowed[c.state], now \in Times :
         /\ now >= c.updated
         /\ copy' = [copy EXCEPT ![w] = Moved(c,
                IF c.state = "mitigation_verified" THEN "recovered" ELSE next, now)]
    /\ UNCHANGED <<run, authorized, verified>>

\* RecoveryRun.Transition, on the worker's copy and with the worker's clock.
Transition(w) ==
    LET c == copy[w] IN
    /\ c # None
    /\ c.version < MaxVersion /\ c.version < c.expected + MaxSteps
    /\ \E next \in Allowed[c.state], now \in Times :
         /\ now >= c.updated
         /\ copy' = [copy EXCEPT ![w] = Moved(c, next, now)]
    /\ UNCHANGED <<run, authorized, verified>>

After(effect, before) ==
    IF effect = "same" THEN before ELSE effect = "yes"

Store(c) ==
    /\ run' = [state |-> c.state, version |-> c.version, updated |-> c.updated]
    /\ authorized' = After(c.grant, authorized)
    /\ verified' = After(c.check, verified)

\* Update under the version the worker loaded; its reply may be lost, and the
\* worker then asks again.
Update(w) ==
    LET c == copy[w] IN
    /\ c # None
    /\ c.version > c.expected
    /\ run.version = c.expected
    /\ Store(c)
    /\ \/ copy' = [copy EXCEPT ![w] = Loaded(run')]
       \/ UNCHANGED copy

\* The run has moved on: the guarded update fails.
Refused(w) ==
    LET c == copy[w] IN
    /\ c # None
    /\ c.version > c.expected
    /\ run.version # c.expected
    /\ copy' = [copy EXCEPT ![w] = None]
    /\ UNCHANGED <<run, authorized, verified>>

\* A worker stops, or gives the run up.
Crash(w) ==
    /\ copy[w] # None
    /\ copy' = [copy EXCEPT ![w] = None]
    /\ UNCHANGED <<run, authorized, verified>>

Next == \E w \in Workers :
    Create(w) \/ Get(w) \/ Transition(w) \/ Update(w) \/ Refused(w) \/ Crash(w)

Spec == Init /\ [][Next]_vars

(***************************************************************************)
(* Properties                                                              *)
(***************************************************************************)
\* Retries and restarts cannot skip policy authorization or final
\* verification (state.go:3): whatever workers hold stale copies, a run acts
\* only if it was authorized after its last investigation, and has recovered
\* only if it was verified after its last action.
NothingSkipped ==
    run # None =>
      /\ run.state \in Acting => authorized
      /\ run.state = "recovered" => authorized /\ verified

\* Duplicate or out-of-order workers never overwrite a newer state
\* (ports.go:74): what is stored moves on by whole transitions, never back in
\* time, and what has ended stays as it ended.
NeverOverwritten ==
    [][run # None => /\ run'.version > run.version
                     /\ run'.updated >= run.updated
                     /\ run.state \notin Final]_run

=============================================================================

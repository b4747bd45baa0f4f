--------------------------- MODULE Configuration ---------------------------
(***************************************************************************)
(* The environments of wataridori.yaml and the manifests next to it: what  *)
(* Load accepts (manifest/validate.go), what `manifest validate` promises  *)
(* about it (core/manifest.go), and the order in which ListEnvironments    *)
(* returns the environments (core/environments.go).                        *)
(*                                                                         *)
(* Environments are numbered in the order of their names.  0 is an empty   *)
(* promoteFrom and N + 1 the name of an environment nobody configured.     *)
(***************************************************************************)
EXTENDS Naturals, Sequences

CONSTANTS
    N,              \* number of configured environments
    ServiceNames,   \* manifest identities
    RunNames,       \* names of Cloud Run services
    Entries,        \* the environment entries a file may hold
    Directories     \* the manifests a services directory may hold

Env == 1..N
Source == 0..(N + 1)
Entry == [policy: {"auto", "manual", "none"}, branch: BOOLEAN,
          promoteFrom: Source, located: BOOLEAN]
Manifest == [name: ServiceNames, run: RunNames, pinned: BOOLEAN]

ASSUME NAssumption == N \in Nat \ {0}
ASSUME InputAssumption == /\ Entries \subseteq Entry
                          /\ Directories \subseteq SUBSET Manifest

VARIABLES
    entry,      \* environment -> its entry in wataridori.yaml
    directory,  \* environment -> the manifests of its services directory
    pc,         \* what the request is doing
    byEnv,      \* environment -> names of its services, as far as loaded
    pending,    \* environment -> sources it still waits for
    ready,      \* environments that wait for nothing and are not placed
    ordered     \* the listing so far

vars == <<entry, directory, pc, byEnv, pending, ready, ordered>>

Stages == {"start", "loaded", "loading", "relations", "validated",
           "placing", "cycled", "listed", "refused"}

TypeOK ==
    /\ entry \in [Env -> Entry]
    /\ directory \in [Env -> SUBSET Manifest]
    /\ pc \in Stages
    /\ byEnv \in [Env -> SUBSET ServiceNames]
    /\ pending \in [Env -> 0..1]
    /\ ready \in SUBSET Env
    /\ ordered \in Seq(Env)

(***************************************************************************)
(* Loading                                                                 *)
(***************************************************************************)
\* promoteFrom is looked at for policy "manual" only.
EntryValid(e) ==
    /\ \/ entry[e].policy = "auto" /\ entry[e].branch
       \/ /\ entry[e].policy = "manual"
          /\ entry[e].promoteFrom # 0 => entry[e].promoteFrom \in Env \ {e}
    /\ entry[e].located

\* LoadServices succeeds: pinned images, no name and no target twice.
ServicesLoad(e) ==
    /\ directory[e] # {}
    /\ \A s \in directory[e] : s.pinned
    /\ \A s, t \in directory[e] : s # t => s.name # t.name /\ s.run # t.run

NamesIn(e) == {s.name : s \in directory[e]}

Placed == {ordered[i] : i \in DOMAIN ordered}

Init ==
    /\ entry \in [Env -> Entries]
    /\ directory \in [Env -> Directories]
    /\ pc = "start"
    /\ byEnv = [e \in Env |-> {}]
    /\ pending = [e \in Env |-> 0]
    /\ ready = {}
    /\ ordered = <<>>

Load ==
    /\ pc = "start"
    /\ pc' = IF \A e \in Env : EntryValid(e) THEN "loaded" ELSE "refused"
    /\ UNCHANGED <<entry, directory, byEnv, pending, ready, ordered>>

(***************************************************************************)
(* ValidateManifests                                                       *)
(***************************************************************************)
BeginValidate ==
    /\ pc = "loaded"
    /\ pc' = "loading"
    /\ UNCHANGED <<entry, directory, byEnv, pending, ready, ordered>>

\* Environments are loaded in the order of their names; loaded ones have
\* services, because a directory without a manifest is an error.
LoadNext ==
    /\ pc = "loading"
    /\ \E e \in Env :
         /\ byEnv[e] = {}
         /\ \A other \in 1..(e - 1) : byEnv[other] # {}
         /\ IF ServicesLoad(e)
              THEN byEnv' = [byEnv EXCEPT ![e] = NamesIn(e)] /\ UNCHANGED pc
              ELSE pc' = "refused" /\ UNCHANGED byEnv
    /\ UNCHANGED <<entry, directory, pending, ready, ordered>>

AllLoaded ==
    /\ pc = "loading"
    /\ \A e \in Env : byEnv[e] # {}
    /\ pc' = "relations"
    /\ UNCHANGED <<entry, directory, byEnv, pending, ready, ordered>>

\* A name that is not configured has no services in the map.
LoadedNames(e) == IF e \in Env THEN byEnv[e] ELSE {}

\* (Bug) Looks for the source's services in the target.
RelationsReversed ==
    \A e \in Env : entry[e].promoteFrom # 0
                     => LoadedNames(entry[e].promoteFrom) \subseteq byEnv[e]

RelationsHold ==
    \A e \in Env : entry[e].promoteFrom # 0
                     => byEnv[e] \subseteq LoadedNames(entry[e].promoteFrom)

CheckRelations ==
    /\ pc = "relations"
    /\ pc' = IF RelationsHold THEN "validated" ELSE "refused"
    /\ UNCHANGED <<entry, directory, byEnv, pending, ready, ordered>>

(***************************************************************************)
(* ListEnvironments                                                        *)
(***************************************************************************)
\* Only an edge from another configured environment counts.
Waits(e) == entry[e].promoteFrom \in Env \ {e}

BeginList ==
    /\ pc = "loaded"
    /\ pc' = "placing"
    /\ pending' = [e \in Env |-> IF Waits(e) THEN 1 ELSE 0]
    /\ ready' = {e \in Env : ~Waits(e)}
    /\ UNCHANGED <<entry, directory, byEnv, ordered>>

\* (Bug) An environment that promotes from itself is its own target.
TargetsWithSelf(src) == {e \in Env : entry[e].promoteFrom = src}

Targets(src) == {e \in Env : Waits(e) /\ entry[e].promoteFrom = src}

\* (Bug) New entries of the queue are not sorted in.
PlaceAny ==
    /\ pc = "placing"
    /\ \E e \in ready :
         /\ ordered' = Append(ordered, e)
         /\ pending' = [t \in Env |-> IF t \in Targets(e) THEN pending[t] - 1
                                                          ELSE pending[t]]
         /\ ready' = (ready \ {e}) \cup {t \in Targets(e) : pending[t] = 1}
    /\ UNCHANGED <<entry, directory, pc, byEnv>>

\* The queue is kept sorted: its head is the least name.
PlaceNext ==
    /\ pc = "placing"
    /\ \E e \in ready :
         /\ \A other \in ready : e <= other
         /\ ordered' = Append(ordered, e)
         /\ pending' = [t \in Env |-> IF t \in Targets(e) THEN pending[t] - 1
                                                          ELSE pending[t]]
         /\ ready' = (ready \ {e}) \cup {t \in Targets(e) : pending[t] = 1}
    /\ UNCHANGED <<entry, directory, pc, byEnv>>

\* (Bug) The listing ends with the queue.
QueueEmptyStops ==
    /\ pc = "placing"
    /\ ready = {}
    /\ pc' = "listed"
    /\ UNCHANGED <<entry, directory, byEnv, pending, ready, ordered>>

\* (Bug) The queue's last environment is left to the loop behind it.
QueueShort ==
    /\ pc = "placing"
    /\ \A e, other \in ready : e = other
    /\ pc' = IF Placed = Env THEN "listed" ELSE "cycled"
    /\ UNCHANGED <<entry, directory, byEnv, pending, ready, ordered>>

QueueEmpty ==
    /\ pc = "placing"
    /\ ready = {}
    /\ pc' = IF Placed = Env THEN "listed" ELSE "cycled"
    /\ UNCHANGED <<entry, directory, byEnv, pending, ready, ordered>>

\* What the queue never reached is appended by name.
AppendCycled ==
    /\ pc = "cycled"
    /\ \E e \in Env \ Placed :
         /\ \A other \in Env \ Placed : e <= other
         /\ ordered' = Append(ordered, e)
         /\ pc' = IF Env \ Placed = {e} THEN "listed" ELSE pc
    /\ UNCHANGED <<entry, directory, byEnv, pending, ready>>

Policies == [policy \in {"auto", "manual", "none"} |->
    CASE policy = "auto" -> "POLICY_AUTO"
      [] policy = "manual" -> "POLICY_MANUAL"
      [] OTHER -> "POLICY_UNSPECIFIED"]

\* The answer, of what the properties tell apart of an environment.
ListEnvironments ==
    [i \in DOMAIN ordered |-> LET e == ordered[i]
        IN [name |-> e, policy |-> entry[e].policy,
            promoteFrom |-> entry[e].promoteFrom]]

EnvironmentsMessage ==
    [i \in DOMAIN ordered |-> [ListEnvironments[i] EXCEPT !.policy = Policies[@]]]

Next ==
    \/ Load \/ BeginValidate \/ LoadNext \/ AllLoaded \/ CheckRelations
    \/ BeginList \/ PlaceNext \/ QueueEmpty \/ AppendCycled

Spec == Init /\ [][Next]_vars

(***************************************************************************)
(* Properties                                                              *)
(***************************************************************************)
\* A chain of sources that does not end: e is on a cycle or behind one.
Endless(e) ==
    \E S \in SUBSET Env :
        e \in S /\ \A x \in S : Waits(x) /\ entry[x].promoteFrom \in S

\* The listing is total (environments.go:60): however promoteFrom points,
\* every configured environment is placed, and none is placed twice, although
\* one is placed by the queue and another by the loop over what is left.
ListedOnce ==
    /\ \A i, j \in DOMAIN ordered : ordered[i] = ordered[j] => i = j
    /\ pc = "listed" => Placed = Env

\* In the listing a source precedes its targets (environments.go:31), with
\* the exception only of environments on a cycle and those behind one.
SourcesFirst ==
    pc = "listed" =>
      \A i \in DOMAIN ordered :
        \/ ~Waits(ordered[i])
        \/ Endless(ordered[i])
        \/ \E j \in 1..(i - 1) : ordered[j] = entry[ordered[i]].promoteFrom

\* Ties are broken by name (environments.go:55), in the answer the web UI lays
\* its columns out by: an environment is listed after one of a greater name
\* only if it had to wait for it, or for one listed later still; those on
\* cycles come last, by name.
NamesBreakTies ==
    pc = "listed" => LET column == EnvironmentsMessage IN
      \A i, j \in DOMAIN column :
        i < j /\ column[j].name < column[i].name =>
          \/ ~Endless(column[i].name) /\ Endless(column[j].name)
          \/ /\ Waits(column[j].name)
             /\ \E k \in i..(j - 1) : column[k].name = column[j].promoteFrom

\* What PlanPromote needs before it compares digests (promote.go:59-100).
CanPlan(from, to) ==
    /\ entry[to].policy # "auto"
    /\ from \in Env \ {to}
    /\ ServicesLoad(from) /\ ServicesLoad(to)
    /\ NamesIn(to) \subseteq NamesIn(from)

\* What ValidateManifests accepts can be promoted along: a plan from the
\* configured source of a manual environment finds its source environment
\* and a source for each of its services.
ValidatedPlans ==
    pc = "validated" =>
      \A e \in Env : entry[e].policy = "manual" /\ entry[e].promoteFrom # 0
                       => CanPlan(entry[e].promoteFrom, e)
=============================================================================

------------------------ MODULE RecoveryRun_proofs ------------------------
(***************************************************************************)
(* Proofs about RecoveryRun: for any number of workers, versions and       *)
(* clock times.  The inductive invariant says of each copy what storing it *)
(* now would do to the run; a copy that is behind is not constrained,      *)
(* since the guarded update refuses it.                                    *)
(***************************************************************************)
EXTENDS RecoveryRun, TLAPS

\* States that lie behind an authorization with no investigation since.
Cleared == {"policy_authorized", "retrying", "mitigating", "mitigation_verified",
            "quarantining", "reconciling_git", "applying_recovery",
            "final_verification", "mitigated_with_drift", "recovered"}

Sound(state, granted, checked) ==
    /\ state \in Cleared => granted
    /\ state \in {"final_verification", "recovered"} => checked

\* What holds of a copy that still has the stored version.
Current(c) ==
    /\ Sound(c.state, After(c.grant, authorized), After(c.check, verified))
    /\ c.updated >= run.updated
    /\ c.version = c.expected => c.state = run.state
    /\ c.version > c.expected => run.state \notin Final

CopyInv(w) ==
    copy[w] # None =>
      /\ run # None
      /\ copy[w].expected <= copy[w].version
      /\ copy[w].expected <= run.version
      /\ copy[w].expected = run.version => Current(copy[w])

RunInv == run # None => Sound(run.state, authorized, verified)

IInv == TypeOK /\ RunInv /\ \A w \in Workers : CopyInv(w)

\* A legal transition keeps a copy sound: what acts was authorized before, and
\* what ends as recovered was verified before.
LEMMA LegalStepSound ==
    ASSUME NEW s \in State, NEW next \in Allowed[s],
           NEW g \in Effect, NEW k \in Effect,
           NEW a \in BOOLEAN, NEW v \in BOOLEAN,
           Sound(s, After(g, a), After(k, v))
    PROVE  /\ next \in State
           /\ s \notin Final
           /\ Granted(next, g) \in Effect
           /\ Checked(next, k) \in Effect
           /\ Sound(next, After(Granted(next, g), a), After(Checked(next, k), v))
<1>1. next \in State /\ s \notin Final
  BY DEF State, Allowed, Final
<1>2. Granted(next, g) \in Effect /\ Checked(next, k) \in Effect
  BY DEF Granted, Checked, Effect
<1>3. ASSUME next \in Cleared PROVE After(Granted(next, g), a)
  <2>1. next # "investigating"
    BY <1>3 DEF Cleared
  <2>2. CASE next = "policy_authorized"
    BY <2>2 DEF Granted, After
  <2>3. CASE next # "policy_authorized"
    <3>1. s \in Cleared
      BY <1>3, <2>3 DEF Cleared, State, Allowed
    <3>2. Granted(next, g) = g
      BY <2>1, <2>3 DEF Granted
    <3> QED BY <3>1, <3>2 DEF Sound
  <2> QED BY <2>2, <2>3
<1>4. ASSUME next \in {"final_verification", "recovered"}
      PROVE  After(Checked(next, k), v)
  <2>1. CASE next = "final_verification"
    BY <2>1 DEF Checked, After
  <2>2. CASE next = "recovered"
    <3>1. s = "final_verification"
      BY <2>2 DEF State, Allowed
    <3>2. Checked(next, k) = k
      BY <2>2 DEF Checked, Acting
    <3> QED BY <3>1, <3>2 DEF Sound
  <2> QED BY <1>4, <2>1, <2>2
<1> QED BY <1>1, <1>2, <1>3, <1>4 DEF Sound

LEMMA NumbersNat ==
    /\ \A v \in Version : v \in Nat /\ v > 0
    /\ \A t \in Times : t \in Nat
  BY BoundAssumption DEF Version

LEMMA RunFields ==
    ASSUME NEW r \in Run
    PROVE  /\ r.state \in State /\ r.version \in Version /\ r.updated \in Times
           /\ r.version \in Nat /\ r.version > 0 /\ r.updated \in Nat
<1>1. r.state \in State /\ r.version \in Version /\ r.updated \in Times
  BY DEF Run
<1> QED BY <1>1, NumbersNat

LEMMA CopyFields ==
    ASSUME NEW c \in Copy
    PROVE  /\ c.state \in State /\ c.version \in Version /\ c.updated \in Times
           /\ c.expected \in Version /\ c.grant \in Effect /\ c.check \in Effect
           /\ c.version \in Nat /\ c.version > 0 /\ c.updated \in Nat
           /\ c.expected \in Nat
<1>1. /\ c.state \in State /\ c.version \in Version /\ c.updated \in Times
      /\ c.expected \in Version /\ c.grant \in Effect /\ c.check \in Effect
  BY DEF Copy
<1> QED BY <1>1, NumbersNat

LEMMA LoadedCopy ==
    ASSUME NEW r \in Run
    PROVE  Loaded(r) \in Copy /\ Loaded(r) # None
  BY NoneAssumption DEF Loaded, Run, Copy, Effect

LEMMA InitInv == Init => IInv
  BY DEF Init, IInv, TypeOK, RunInv, CopyInv

LEMMA CreateInv ==
    ASSUME IInv, NEW w \in Workers, Create(w)
    PROVE  IInv'
<1> USE DEF IInv
<1>1. PICK now \in Times :
        run' = [state |-> "detected", version |-> 1, updated |-> now]
  BY DEF Create
<1>2. run' \in Run
  BY <1>1, BoundAssumption DEF Run, State, Allowed, Version
<1>3. run' # None
  BY <1>2, NoneAssumption
<1>4. copy' = [copy EXCEPT ![w] = Loaded(run')]
  BY DEF Create
<1>5. UNCHANGED <<authorized, verified>> /\ run = None
  BY DEF Create
<1>6. TypeOK'
  BY <1>2, <1>4, <1>5, LoadedCopy DEF TypeOK
<1>7. RunInv'
  BY <1>1 DEF RunInv, Sound, Cleared
<1>8. ASSUME NEW u \in Workers PROVE CopyInv(u)'
  <2>1. CASE u = w
    <3>1. copy'[u] = Loaded(run')
      BY <2>1, <1>4 DEF TypeOK
    <3>2. copy'[u].expected = 1 /\ copy'[u].version = 1 /\ run'.version = 1
      BY <3>1, <1>1 DEF Loaded
    <3>3. Current(copy[u])'
      BY <3>1, <3>2, <1>1, <1>2, RunFields
      DEF Current, Loaded, Sound, Cleared, Run
    <3> QED BY <3>2, <3>3, <1>3 DEF CopyInv
  <2>2. CASE u # w
    <3>1. copy'[u] = copy[u] /\ copy[u] = None
      BY <2>2, <1>4, <1>5 DEF TypeOK, CopyInv
    <3> QED BY <3>1 DEF CopyInv
  <2> QED BY <2>1, <2>2
<1> QED BY <1>6, <1>7, <1>8

LEMMA GetInv ==
    ASSUME IInv, NEW w \in Workers, Get(w)
    PROVE  IInv'
<1> USE DEF IInv
<1>1. run \in Run /\ run # None
  BY DEF Get, TypeOK
<1>2. copy' = [copy EXCEPT ![w] = Loaded(run)]
  BY DEF Get
<1>3. UNCHANGED <<run, authorized, verified>>
  BY DEF Get
<1>4. TypeOK'
  BY <1>1, <1>2, <1>3, LoadedCopy DEF TypeOK
<1>5. RunInv'
  BY <1>3 DEF RunInv
<1>6. ASSUME NEW u \in Workers PROVE CopyInv(u)'
  <2>1. CASE u = w
    <3>1. copy'[u] = Loaded(run)
      BY <2>1, <1>2 DEF TypeOK
    <3>2. run.version \in Nat /\ run.updated \in Nat
      BY <1>1, RunFields
    <3>3. copy'[u].expected = run.version /\ copy'[u].version = run.version
      BY <3>1 DEF Loaded
    <3>4. Current(copy[u])'
      BY <3>1, <3>2, <1>1, <1>3 DEF Current, Loaded, After, RunInv
    <3> QED BY <3>2, <3>3, <3>4, <1>1, <1>3 DEF CopyInv
  <2>2. CASE u # w
    BY <2>2, <1>2, <1>3 DEF TypeOK, CopyInv, Current
  <2> QED BY <2>1, <2>2
<1> QED BY <1>4, <1>5, <1>6

LEMMA TransitionInv ==
    ASSUME IInv, NEW w \in Workers, Transition(w)
    PROVE  IInv'
<1> USE DEF IInv
<1> DEFINE c == copy[w]
<1>1. /\ c \in Copy /\ c # None
      /\ c.version < MaxVersion
      /\ UNCHANGED <<run, authorized, verified>>
  BY DEF Transition, TypeOK
<1>2. PICK next \in Allowed[c.state], now \in Times :
        /\ now >= c.updated
        /\ copy' = [copy EXCEPT ![w] = Moved(c, next, now)]
  BY DEF Transition
<1> DEFINE d == Moved(c, next, now)
<1>3. /\ c.state \in State /\ c.version \in Version /\ c.expected \in Version
      /\ c.updated \in Nat /\ c.grant \in Effect /\ c.check \in Effect
      /\ c.version \in Nat /\ c.version > 0 /\ c.expected \in Nat
  BY <1>1, CopyFields
<1>4. next \in State
  BY <1>3 DEF State, Allowed
<1>5. Granted(next, c.grant) \in Effect /\ Checked(next, c.check) \in Effect
  BY <1>3 DEF Granted, Checked, Effect
<1>6. /\ d \in Copy
      /\ d.state = next /\ d.version = c.version + 1 /\ d.updated = now
      /\ d.expected = c.expected
      /\ d.grant = Granted(next, c.grant) /\ d.check = Checked(next, c.check)
  <2>1. c.version + 1 \in Version
    BY <1>1, <1>3, BoundAssumption DEF Version
  <2>2. now \in Times
    OBVIOUS
  <2> QED BY <2>1, <2>2, <1>3, <1>4, <1>5 DEF Moved, Copy
<1>7. copy' = [copy EXCEPT ![w] = d]
  BY <1>2
<1>8. TypeOK'
  BY <1>1, <1>6, <1>7 DEF TypeOK
<1>9. RunInv'
  BY <1>1 DEF RunInv
<1>10. ASSUME NEW u \in Workers PROVE CopyInv(u)'
  <2>1. CASE u # w
    BY <2>1, <1>1, <1>7 DEF TypeOK, CopyInv, Current
  <2>2. CASE u = w
    <3>1. copy'[u] = d
      BY <2>2, <1>7 DEF TypeOK
    <3>2. /\ run # None /\ run \in Run
          /\ c.expected <= c.version /\ c.expected <= run.version
      BY <1>1 DEF CopyInv, TypeOK
    <3>3. d.expected <= d.version /\ d.expected <= run.version
      BY <3>2, <1>3, <1>6
    <3>4. ASSUME d.expected = run.version PROVE Current(d)
      <4>1. Current(c)
        BY <3>4, <1>1, <1>6 DEF CopyInv
      <4>2. /\ c.state \notin Final
            /\ Sound(next, After(Granted(next, c.grant), authorized),
                           After(Checked(next, c.check), verified))
        BY <4>1, <1>3, LegalStepSound DEF Current, TypeOK
      <4>3. d.updated >= run.updated
        BY <4>1, <1>2, <1>3, <1>6, <3>2, RunFields, NumbersNat DEF Current
      <4>4. d.version > d.expected
        BY <3>2, <1>3, <1>6
      <4>5. run.state \notin Final
        BY <4>1, <4>2, <3>2, <1>3 DEF Current
      <4>6. Sound(d.state, After(d.grant, authorized), After(d.check, verified))
        BY <4>2, <1>6
      <4>7. d.version # d.expected
        BY <4>4, <1>6, <1>3
      <4> HIDE DEF d
      <4> QED BY <4>3, <4>4, <4>5, <4>6, <4>7 DEF Current
    <3> HIDE DEF d
    <3>5. Current(copy[u])' <=> Current(d)
      BY <3>1, <1>1 DEF Current
    <3> QED BY <3>1, <3>2, <3>3, <3>4, <3>5, <1>1 DEF CopyInv
  <2> QED BY <2>1, <2>2
<1> QED BY <1>8, <1>9, <1>10

LEMMA UpdateInv ==
    ASSUME IInv, NEW w \in Workers, Update(w)
    PROVE  /\ IInv'
           /\ run # None
           /\ run'.version > run.version
           /\ run'.updated >= run.updated
           /\ run.state \notin Final
<1> USE DEF IInv
<1> DEFINE c == copy[w]
<1>1. /\ c \in Copy /\ c # None
      /\ c.version > c.expected
      /\ run.version = c.expected
      /\ Store(c)
  BY DEF Update, TypeOK
<1>2. run # None /\ run \in Run /\ Current(c)
  BY <1>1 DEF CopyInv, TypeOK
<1>3. run' = [state |-> c.state, version |-> c.version, updated |-> c.updated]
  BY <1>1 DEF Store
<1>4. run' \in Run /\ run' # None
  BY <1>1, <1>3, NoneAssumption DEF Run, Copy
<1>5. /\ authorized' = After(c.grant, authorized)
      /\ verified' = After(c.check, verified)
  BY <1>1 DEF Store
<1>6. authorized' \in BOOLEAN /\ verified' \in BOOLEAN
  BY <1>5 DEF After, TypeOK
<1>7. \/ copy' = [copy EXCEPT ![w] = Loaded(run')]
      \/ copy' = copy
  BY DEF Update
<1>8. run.version \in Nat /\ run'.version \in Nat /\ run'.version > run.version
  BY <1>1, <1>2, <1>3, <1>4, RunFields
<1>9. run'.updated >= run.updated /\ run.state \notin Final
  BY <1>1, <1>2, <1>3 DEF Current
<1>10. TypeOK'
  BY <1>4, <1>6, <1>7, LoadedCopy DEF TypeOK
<1>11. RunInv'
  BY <1>2, <1>3, <1>5 DEF RunInv, Current
<1>12. ASSUME NEW u \in Workers PROVE CopyInv(u)'
  <2>1. CASE copy'[u] = copy[u]
    <3>1. SUFFICES ASSUME copy[u] # None PROVE CopyInv(u)'
      BY <2>1 DEF CopyInv
    <3>2. /\ copy[u].expected \in Nat
          /\ copy[u].expected <= copy[u].version
          /\ copy[u].expected <= run.version
      BY <3>1, CopyFields DEF CopyInv, TypeOK
    <3>3. copy[u].expected <= run'.version /\ copy[u].expected # run'.version
      BY <3>2, <1>8
    <3> QED BY <2>1, <3>2, <3>3, <1>4 DEF CopyInv
  <2>2. CASE copy'[u] = Loaded(run')
    <3>1. /\ copy'[u].state = run'.state /\ copy'[u].updated = run'.updated
          /\ copy'[u].version = run'.version /\ copy'[u].expected = run'.version
          /\ copy'[u].grant = "same" /\ copy'[u].check = "same"
      BY <2>2 DEF Loaded
    <3>2. run'.updated \in Nat
      BY <1>4, RunFields
    <3>3. Sound(run'.state, authorized', verified')
      BY <1>4, <1>11 DEF RunInv
    <3>4. Current(copy[u])'
      BY <3>1, <3>2, <3>3, <1>8 DEF Current, After
    <3> QED BY <3>1, <3>4, <1>4, <1>8 DEF CopyInv
  <2> QED BY <1>7, <2>1, <2>2 DEF TypeOK
<1> QED BY <1>2, <1>8, <1>9, <1>10, <1>11, <1>12

LEMMA DropInv ==
    ASSUME IInv, NEW w \in Workers, Refused(w) \/ Crash(w)
    PROVE  IInv'
<1> USE DEF IInv
<1>1. /\ copy' = [copy EXCEPT ![w] = None]
      /\ UNCHANGED <<run, authorized, verified>>
  BY DEF Refused, Crash
<1>2. TypeOK' /\ RunInv'
  BY <1>1 DEF TypeOK, RunInv
<1>3. ASSUME NEW u \in Workers PROVE CopyInv(u)'
  BY <1>1 DEF TypeOK, CopyInv, Current
<1> QED BY <1>2, <1>3

LEMMA StepInv == IInv /\ [Next]_vars => IInv'
<1> SUFFICES ASSUME IInv, [Next]_vars PROVE IInv'
  OBVIOUS
<1>1. CASE UNCHANGED vars
  BY <1>1 DEF vars, IInv, TypeOK, RunInv, CopyInv, Current
<1>2. CASE Next
  BY <1>2, CreateInv, GetInv, TransitionInv, UpdateInv, DropInv DEF Next
<1> QED BY <1>1, <1>2

\* The stored run and the workers' copies keep their types.
THEOREM TypeCorrect == Spec => []TypeOK
<1>1. IInv => TypeOK
  BY DEF IInv
<1> QED BY <1>1, InitInv, StepInv, PTL DEF Spec

\* Stale workers cannot bring a run to act without an authorization given since
\* its last investigation, or to recover without a verification since it acted.
THEOREM AuthorizedBeforeActing == Spec => []NothingSkipped
<1>1. IInv => NothingSkipped
  BY DEF IInv, RunInv, NothingSkipped, Sound, Cleared, Acting
<1> QED BY <1>1, InitInv, StepInv, PTL DEF Spec

\* A stored run is only replaced by a later version of it that is not older in
\* time, and one that has ended is not replaced.
THEOREM NewerStateSurvives == Spec => NeverOverwritten
<1> DEFINE Moves == run # None => /\ run'.version > run.version
                                  /\ run'.updated >= run.updated
                                  /\ run.state \notin Final
<1>1. IInv /\ [Next]_vars => [Moves]_run
  <2> SUFFICES ASSUME IInv, [Next]_vars, run # None, run' # run PROVE Moves
    OBVIOUS
  <2>1. PICK w \in Workers : Update(w)
    BY DEF Next, vars, Create, Get, Transition, Refused, Crash
  <2> QED BY <2>1, UpdateInv
<1> QED BY <1>1, InitInv, StepInv, PTL DEF Spec, NeverOverwritten
=============================================================================

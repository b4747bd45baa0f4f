------------------------ MODULE Configuration_proofs ------------------------
(***************************************************************************)
(* Proofs about Configuration, for any number of environments.             *)
(***************************************************************************)
EXTENDS Configuration, TLAPS

USE NAssumption, InputAssumption DEF Env, Source

(***************************************************************************)
(* Type correctness.  That no count of pending sources falls below zero    *)
(* needs Counted: an environment that waits is counted until its source    *)
(* has been placed, and its source is placed only once.                    *)
(***************************************************************************)
Src(e) == entry[e].promoteFrom

\* The state of the loop over the queue.
Counted ==
    pc = "placing" =>
      /\ \A e \in Env : pending[e] = IF Waits(e) /\ Src(e) \notin Placed THEN 1 ELSE 0
      /\ \A e \in Env : e \in ready <=> pending[e] = 0 /\ e \notin Placed

\* Before the listing begins nothing is placed.
Unlisted == pc \in {"start", "loaded", "loading", "relations", "validated", "refused"}
              => ordered = <<>> /\ ready = {} /\ pending = [e \in Env |-> 0]

\* No environment is placed twice.
Distinct == \A i, j \in DOMAIN ordered : ordered[i] = ordered[j] => i = j

\* What the queue has placed follows its source; what it has not placed waits
\* for another environment it has not placed.
Ordered ==
    /\ \A i \in DOMAIN ordered :
         \/ ~Waits(ordered[i])
         \/ pc \in {"cycled", "listed"} /\ Endless(ordered[i])
         \/ \E j \in 1..(i - 1) : ordered[j] = Src(ordered[i])
    /\ pc = "cycled" => \A e \in Env \ Placed : Endless(e)
    /\ pc = "listed" => Placed = Env

IInv == TypeOK /\ Counted /\ Unlisted /\ Distinct /\ Ordered

(***************************************************************************)
(* Lemmas                                                                  *)
(***************************************************************************)
LEMMA AppendFacts ==
    ASSUME NEW s \in Seq(Env), NEW e \in Env
    PROVE  /\ Append(s, e) \in Seq(Env)
           /\ DOMAIN s = 1..Len(s) /\ Len(s) \in Nat
           /\ DOMAIN Append(s, e) = 1..(Len(s) + 1)
           /\ \A i \in 1..Len(s) : Append(s, e)[i] = s[i]
           /\ Append(s, e)[Len(s) + 1] = e
OBVIOUS

\* One more environment is placed, at the end of the listing.
LEMMA PlacedAppend ==
    ASSUME TypeOK, NEW e \in Env, ordered' = Append(ordered, e)
    PROVE  Placed' = Placed \cup {e}
<1>1. /\ DOMAIN ordered = 1..Len(ordered) /\ Len(ordered) \in Nat
      /\ DOMAIN ordered' = 1..(Len(ordered) + 1)
      /\ \A i \in 1..Len(ordered) : ordered'[i] = ordered[i]
      /\ ordered'[Len(ordered) + 1] = e
  BY AppendFacts DEF TypeOK
<1>2. 1..(Len(ordered) + 1) = 1..Len(ordered) \cup {Len(ordered) + 1}
  BY <1>1
<1>3. \A x : x \in Placed' <=> \E i \in 1..(Len(ordered) + 1) : x = ordered'[i]
  BY <1>1 DEF Placed
<1>4. \A x : x \in Placed <=> \E i \in 1..Len(ordered) : x = ordered[i]
  BY <1>1 DEF Placed
<1>5. \A x : x \in Placed' <=> x \in Placed \/ x = e
  BY <1>1, <1>2, <1>3, <1>4
<1>6. QED
  BY <1>5

LEMMA DistinctAppend ==
    ASSUME TypeOK, Distinct, NEW e \in Env \ Placed, ordered' = Append(ordered, e)
    PROVE  Distinct'
<1>1. /\ DOMAIN ordered = 1..Len(ordered) /\ Len(ordered) \in Nat
      /\ DOMAIN ordered' = 1..(Len(ordered) + 1)
      /\ \A i \in 1..Len(ordered) : ordered'[i] = ordered[i]
      /\ ordered'[Len(ordered) + 1] = e
  BY AppendFacts DEF TypeOK
<1>2. \A i \in 1..Len(ordered) : ordered[i] # e
  BY <1>1 DEF Placed
<1>3. QED
  BY <1>1, <1>2 DEF Distinct

LEMMA InitInv == Init => IInv
<1> SUFFICES ASSUME Init PROVE IInv
  OBVIOUS
<1>1. DOMAIN ordered = {}
  BY DEF Init
<1>2. TypeOK
  BY DEF Init, TypeOK, Stages
<1>3. QED
  BY <1>1, <1>2 DEF Init, IInv, Counted, Unlisted, Distinct, Ordered

\* Actions before a listing, and those of a validation, place nothing.
LEMMA UnlistedSteps ==
    ASSUME IInv, Load \/ BeginValidate \/ LoadNext \/ AllLoaded \/ CheckRelations
    PROVE  IInv'
<1>1. UNCHANGED <<entry, directory, pending, ready, ordered>>
  BY DEF Load, BeginValidate, LoadNext, AllLoaded, CheckRelations
<1>2. /\ pc \in {"start", "loaded", "loading", "relations"}
      /\ pc' \in {"loaded", "loading", "relations", "validated", "refused"}
  BY DEF Load, BeginValidate, LoadNext, AllLoaded, CheckRelations
<1>3. byEnv' \in [Env -> SUBSET ServiceNames]
  <2>1. \A e \in Env : NamesIn(e) \subseteq ServiceNames
    BY DEF IInv, TypeOK, NamesIn, Manifest
  <2>2. QED
    BY <2>1 DEF IInv, TypeOK, Load, BeginValidate, LoadNext, AllLoaded, CheckRelations
<1>4. TypeOK'
  BY <1>1, <1>2, <1>3 DEF IInv, TypeOK, Stages
<1>5. ordered = <<>> /\ ready = {} /\ pending = [e \in Env |-> 0]
  BY <1>2 DEF IInv, Unlisted
<1>6. DOMAIN ordered' = {}
  BY <1>1, <1>5
<1>7. QED
  BY <1>1, <1>2, <1>4, <1>5, <1>6 DEF IInv, Counted, Unlisted, Distinct, Ordered

LEMMA BeginListStep ==
    ASSUME IInv, BeginList
    PROVE  IInv'
<1>1. /\ UNCHANGED <<entry, directory, byEnv, ordered>> /\ pc' = "placing"
      /\ pending' = [e \in Env |-> IF Waits(e) THEN 1 ELSE 0]
      /\ ready' = {e \in Env : ~Waits(e)}
  BY DEF BeginList
<1>2. ordered = <<>> /\ ordered' = <<>>
  BY <1>1 DEF BeginList, IInv, Unlisted
<1>3. DOMAIN ordered' = {} /\ Placed' = {}
  BY <1>2 DEF Placed
<1>4. TypeOK'
  BY <1>1 DEF IInv, TypeOK, Stages
<1>5. Counted'
  BY <1>1, <1>3 DEF Counted, Waits, Src
<1>6. QED
  BY <1>1, <1>3, <1>4, <1>5 DEF IInv, Unlisted, Distinct, Ordered

LEMMA PlaceNextStep ==
    ASSUME IInv, PlaceNext
    PROVE  IInv'
<1>1. PICK e \in ready :
        /\ ordered' = Append(ordered, e)
        /\ pending' = [t \in Env |-> IF t \in Targets(e) THEN pending[t] - 1
                                                         ELSE pending[t]]
        /\ ready' = (ready \ {e}) \cup {t \in Targets(e) : pending[t] = 1}
  BY DEF PlaceNext
<1>2. pc = "placing" /\ UNCHANGED <<entry, directory, pc, byEnv>>
  BY DEF PlaceNext
<1>3. e \in Env /\ e \notin Placed /\ pending[e] = 0
  BY <1>2 DEF IInv, TypeOK, Counted
<1>4. Placed' = Placed \cup {e}
  BY <1>1, <1>3, PlacedAppend DEF IInv
<1>5. \A t \in Env : t \in Targets(e) <=> Waits(t) /\ Src(t) = e
  BY DEF Targets, Src
<1>6. \A t \in Env : t \in Targets(e) => pending[t] = 1
  BY <1>2, <1>3, <1>5 DEF IInv, Counted
<1>7. \A t \in Env : pending'[t] = IF Waits(t) /\ Src(t) \notin Placed' THEN 1 ELSE 0
  BY <1>1, <1>2, <1>4, <1>5, <1>6 DEF IInv, Counted
<1>8. pending' \in [Env -> 0..1]
  <2>1. \A t \in Env : pending'[t] \in 0..1
    BY <1>7
  <2>2. pending' = [t \in Env |-> pending'[t]]
    BY <1>1
  <2>3. QED
    BY <2>1, <2>2
<1>9. TypeOK'
  <2>1. ready' \in SUBSET Env
    BY <1>1 DEF Targets, IInv, TypeOK
  <2>2. ordered' \in Seq(Env)
    BY <1>1, <1>3, AppendFacts DEF IInv, TypeOK
  <2>3. QED
    BY <1>2, <1>8, <2>1, <2>2 DEF IInv, TypeOK
<1>10. Counted'
  <2>1. \A t \in Env : pending'[t] = IF t \in Targets(e) THEN 0 ELSE pending[t]
    BY <1>1, <1>6
  <2>2. \A t \in Env : t \in Targets(e) => t \notin Placed
    <3> SUFFICES ASSUME NEW t \in Env, t \in Targets(e), t \in Placed PROVE FALSE
      OBVIOUS
    <3>1. Waits(t) /\ Src(t) = e
      BY <1>5
    <3>2. PICK i \in DOMAIN ordered : ordered[i] = t
      BY DEF Placed
    <3>3. PICK j \in 1..(i - 1) : ordered[j] = e
      BY <1>2, <3>1, <3>2 DEF IInv, Ordered
    <3>4. j \in DOMAIN ordered
      <4>1. DOMAIN ordered = 1..Len(ordered) /\ Len(ordered) \in Nat
        BY DEF IInv, TypeOK
      <4> QED BY <4>1, <3>2, <3>3
    <3> QED BY <1>3, <3>3, <3>4 DEF Placed
  <2>3. e \notin Targets(e)
    BY <1>3, <1>6
  <2>4. \A t \in Env : t \in ready' <=> pending'[t] = 0 /\ t \notin Placed'
    BY <1>1, <1>2, <1>3, <1>4, <1>6, <2>1, <2>2, <2>3 DEF IInv, Counted
  <2>5. \A t \in Env : Waits(t)' = Waits(t) /\ Src(t)' = Src(t)
    BY <1>2 DEF Waits, Src
  <2>6. QED
    BY <1>7, <2>4, <2>5 DEF Counted
<1>11. Distinct'
  BY <1>1, <1>3, DistinctAppend DEF IInv
<1>12. Ordered'
  <2>1. /\ DOMAIN ordered = 1..Len(ordered) /\ Len(ordered) \in Nat
        /\ DOMAIN ordered' = 1..(Len(ordered) + 1)
        /\ \A i \in 1..Len(ordered) : ordered'[i] = ordered[i]
        /\ ordered'[Len(ordered) + 1] = e
    BY <1>1, <1>3, AppendFacts DEF IInv, TypeOK
  <2>2. \A i \in 1..Len(ordered) :
          ~Waits(ordered[i]) \/ \E j \in 1..(i - 1) : ordered[j] = Src(ordered[i])
    BY <1>2, <2>1 DEF IInv, Ordered
  <2>3. ~Waits(e) \/ \E j \in 1..Len(ordered) : ordered[j] = Src(e)
    BY <1>2, <1>3, <2>1 DEF IInv, Counted, Placed
  <2>4. \A i \in 1..Len(ordered) :
          ~Waits(ordered'[i]) \/ \E j \in 1..(i - 1) : ordered'[j] = Src(ordered'[i])
    BY <2>1, <2>2
  <2>5. \A i \in DOMAIN ordered' :
          ~Waits(ordered'[i]) \/ \E j \in 1..(i - 1) : ordered'[j] = Src(ordered'[i])
    <3> SUFFICES ASSUME NEW i \in DOMAIN ordered'
                 PROVE  ~Waits(ordered'[i]) \/ \E j \in 1..(i - 1) : ordered'[j] = Src(ordered'[i])
      OBVIOUS
    <3>1. CASE i = Len(ordered) + 1
      BY <2>1, <2>3, <3>1
    <3>2. CASE i \in 1..Len(ordered)
      BY <2>4, <3>2
    <3>3. QED
      BY <2>1, <3>1, <3>2
  <2>6. QED
    BY <1>2, <2>5 DEF Ordered, Waits, Src
<1>13. QED
  BY <1>2, <1>9, <1>10, <1>11, <1>12 DEF IInv, Unlisted

\* What the queue has not reached waits for what it has not reached.
LEMMA LeftOver ==
    ASSUME IInv, pc = "placing", ready = {}, NEW e \in Env \ Placed
    PROVE  Endless(e)
<1>1. \A x \in Env \ Placed : Waits(x) /\ Src(x) \in Env \ Placed
  BY DEF IInv, Counted, Waits, Src
<1>2. QED
  BY <1>1 DEF Endless, Src

LEMMA QueueEmptyStep ==
    ASSUME IInv, QueueEmpty
    PROVE  IInv'
<1>1. /\ pc = "placing" /\ ready = {} /\ UNCHANGED <<entry, directory, byEnv, pending, ready, ordered>>
      /\ pc' \in {"listed", "cycled"}
      /\ pc' = "listed" => Placed = Env
  BY DEF QueueEmpty
<1>2. \A e \in Env \ Placed : Endless(e)
  BY <1>1, LeftOver
<1>3. Placed' = Placed
  BY <1>1 DEF Placed
<1>4. \A e : Endless(e)' = Endless(e) /\ Waits(e)' = Waits(e) /\ Src(e)' = Src(e)
  BY <1>1 DEF Endless, Waits, Src
<1>5. TypeOK'
  BY <1>1 DEF IInv, TypeOK, Stages
<1>6. Ordered'
  <2>1. \A i \in DOMAIN ordered :
          ~Waits(ordered[i]) \/ \E j \in 1..(i - 1) : ordered[j] = Src(ordered[i])
    BY <1>1 DEF IInv, Ordered
  <2>2. QED
    BY <1>1, <1>2, <1>3, <1>4, <2>1 DEF Ordered
<1>7. QED
  BY <1>1, <1>5, <1>6 DEF IInv, Counted, Unlisted, Distinct

LEMMA AppendCycledStep ==
    ASSUME IInv, AppendCycled
    PROVE  IInv'
<1>1. PICK e \in Env \ Placed :
        ordered' = Append(ordered, e) /\ pc' = IF Env \ Placed = {e} THEN "listed" ELSE pc
  BY DEF AppendCycled
<1>2. pc = "cycled" /\ UNCHANGED <<entry, directory, byEnv, pending, ready>>
  BY DEF AppendCycled
<1>3. Placed' = Placed \cup {e}
  BY <1>1, PlacedAppend DEF IInv
<1>4. Distinct'
  BY <1>1, DistinctAppend DEF IInv
<1>5. \A x : Endless(x)' = Endless(x) /\ Waits(x)' = Waits(x) /\ Src(x)' = Src(x)
  BY <1>2 DEF Endless, Waits, Src
<1>6. TypeOK'
  <2>1. ordered' \in Seq(Env)
    BY <1>1, AppendFacts DEF IInv, TypeOK
  <2>2. pc' \in Stages
    BY <1>1, <1>2 DEF Stages
  <2>3. QED
    BY <1>2, <2>1, <2>2 DEF IInv, TypeOK
<1>7. Ordered'
  <2>1. /\ DOMAIN ordered = 1..Len(ordered) /\ Len(ordered) \in Nat
        /\ DOMAIN ordered' = 1..(Len(ordered) + 1)
        /\ \A i \in 1..Len(ordered) : ordered'[i] = ordered[i]
        /\ ordered'[Len(ordered) + 1] = e
    BY <1>1, AppendFacts DEF IInv, TypeOK
  <2>2. Endless(e)
    BY <1>2 DEF IInv, Ordered
  <2>3. \A i \in 1..Len(ordered) :
          \/ ~Waits(ordered'[i]) \/ Endless(ordered'[i])
          \/ \E j \in 1..(i - 1) : ordered'[j] = Src(ordered'[i])
    BY <2>1 DEF IInv, Ordered
  <2>4. \A i \in DOMAIN ordered' :
          \/ ~Waits(ordered'[i]) \/ Endless(ordered'[i])
          \/ \E j \in 1..(i - 1) : ordered'[j] = Src(ordered'[i])
    <3> SUFFICES ASSUME NEW i \in DOMAIN ordered'
                 PROVE  \/ ~Waits(ordered'[i]) \/ Endless(ordered'[i])
                        \/ \E j \in 1..(i - 1) : ordered'[j] = Src(ordered'[i])
      OBVIOUS
    <3>1. CASE i = Len(ordered) + 1
      BY <2>1, <2>2, <3>1
    <3>2. CASE i \in 1..Len(ordered)
      BY <2>3, <3>2
    <3>3. QED
      BY <2>1, <3>1, <3>2
  <2>5. pc' \in {"cycled", "listed"}
    BY <1>1, <1>2
  <2>6. pc' = "cycled" => \A x \in Env \ Placed' : Endless(x)
    BY <1>2, <1>3 DEF IInv, Ordered
  <2>7. pc' = "listed" => Placed' = Env
    <3>1. pc' = "listed" => Env \ Placed = {e}
      BY <1>1, <1>2
    <3>2. Placed \subseteq Env
      BY DEF IInv, TypeOK, Placed
    <3>3. QED
      BY <1>3, <3>1, <3>2
  <2>8. QED
    BY <1>5, <2>4, <2>5, <2>6, <2>7 DEF Ordered
<1>8. QED
  BY <1>1, <1>2, <1>4, <1>6, <1>7 DEF IInv, Counted, Unlisted

LEMMA NextInv == IInv /\ [Next]_vars => IInv'
<1> SUFFICES ASSUME IInv, [Next]_vars PROVE IInv'
  OBVIOUS
<1>1. CASE UNCHANGED vars
  <2>1. UNCHANGED <<entry, directory, pc, byEnv, pending, ready, ordered>>
    BY <1>1 DEF vars
  <2>2. \A x : Endless(x)' = Endless(x) /\ Waits(x)' = Waits(x) /\ Src(x)' = Src(x)
    BY <2>1 DEF Endless, Waits, Src
  <2>3. Placed' = Placed /\ TypeOK'
    BY <2>1 DEF Placed, IInv, TypeOK
  <2>4. Counted' /\ Unlisted' /\ Distinct'
    BY <2>1, <2>2, <2>3 DEF IInv, Counted, Unlisted, Distinct
  <2>5. Ordered'
    BY <2>1, <2>2, <2>3 DEF IInv, Ordered
  <2>6. QED
    BY <2>3, <2>4, <2>5 DEF IInv
<1>2. QED
  BY <1>1, UnlistedSteps, BeginListStep, PlaceNextStep, QueueEmptyStep, AppendCycledStep
     DEF Next

LEMMA Invariance == Spec => []IInv
BY InitInv, NextInv, PTL DEF Spec

(***************************************************************************)
(* Theorems                                                                *)
(***************************************************************************)
\* The listing keeps its types; no count of pending sources underflows.
THEOREM TypeCorrect == Spec => []TypeOK
<1>1. IInv => TypeOK
  BY DEF IInv
<1>2. QED
  BY <1>1, Invariance, PTL

\* Every configured environment is listed exactly once (environments.go:60).
THEOREM EachListedOnce == Spec => []ListedOnce
<1>1. IInv => ListedOnce
  BY DEF IInv, Distinct, Ordered, ListedOnce
<1>2. QED
  BY <1>1, Invariance, PTL

\* A source is listed before its targets, unless it has no first source
\* itself (environments.go:31, :57).
THEOREM SourcesListedFirst == Spec => []SourcesFirst
<1>1. IInv => SourcesFirst
  BY DEF IInv, Ordered, SourcesFirst, Src
<1>2. QED
  BY <1>1, Invariance, PTL

(***************************************************************************)
(* Ties.  An environment that is placed after one of a greater name was    *)
(* not in the queue when that one was taken from it: its source came no    *)
(* earlier.  Of what is still in the queue the same must be true, and what *)
(* the queue places is on no cycle, so that what it leaves over is beyond  *)
(* all of it.                                                              *)
(***************************************************************************)
\* The source of e is placed i-th or later.
SourceSince(i, e) == Waits(e) /\ \E k \in i .. Len(ordered) : ordered[k] = Src(e)

Tied ==
    /\ \A i, j \in DOMAIN ordered : i < j /\ ordered[j] < ordered[i] =>
         \/ ~Endless(ordered[i]) /\ Endless(ordered[j])
         \/ Waits(ordered[j]) /\ \E k \in i .. (j - 1) : ordered[k] = Src(ordered[j])
    /\ pc = "placing" =>
         /\ \A i \in DOMAIN ordered : ~Endless(ordered[i])
         /\ \A i \in DOMAIN ordered, e \in ready : e < ordered[i] => SourceSince(i, e)
    /\ pc = "cycled" => \A i \in DOMAIN ordered, e \in Env \ Placed :
         e < ordered[i] => ~Endless(ordered[i])

\* What follows an endless chain waits for a source on it.
LEMMA EndlessSource ==
    ASSUME NEW e, Endless(e)
    PROVE  Waits(e) /\ Endless(Src(e))
BY DEF Endless, Src

\* Where nothing that is ordered changes, the ties stay as they are.
LEMMA TiedStays ==
    ASSUME Tied, UNCHANGED <<entry, ordered>>, pc' \notin {"placing", "cycled"}
    PROVE  Tied'
<1>1. \A x : Endless(x)' = Endless(x) /\ Waits(x)' = Waits(x) /\ Src(x)' = Src(x)
  BY DEF Endless, Waits, Src
<1>2. QED
  BY <1>1 DEF Tied

LEMMA TiedPlaceNext ==
    ASSUME IInv, Tied, PlaceNext
    PROVE  Tied'
<1>1. PICK e \in ready :
        /\ \A other \in ready : e <= other
        /\ ordered' = Append(ordered, e)
        /\ ready' = (ready \ {e}) \cup {t \in Targets(e) : pending[t] = 1}
  BY DEF PlaceNext
<1>2. pc = "placing" /\ UNCHANGED <<entry, pc>>
  BY DEF PlaceNext
<1>3. e \in Env /\ e \notin Placed /\ pending[e] = 0 /\ ready \subseteq Env
  BY <1>2 DEF IInv, TypeOK, Counted
<1> DEFINE n == Len(ordered)
<1>4. /\ DOMAIN ordered = 1..n /\ n \in Nat
      /\ DOMAIN ordered' = 1..(n + 1) /\ Len(ordered') = n + 1
      /\ \A i \in 1..n : ordered'[i] = ordered[i] /\ ordered[i] \in Env
      /\ ordered'[n + 1] = e
  BY <1>1, <1>3, AppendFacts DEF IInv, TypeOK
<1>5. \A x : Endless(x)' = Endless(x) /\ Waits(x)' = Waits(x) /\ Src(x)' = Src(x)
  BY <1>2 DEF Endless, Waits, Src
<1> HIDE DEF n
<1>6. ~Endless(e)
  <2> SUFFICES ASSUME Endless(e) PROVE FALSE
    OBVIOUS
  <2>1. Waits(e) /\ Endless(Src(e))
    BY EndlessSource
  <2>2. Src(e) \in Placed
    BY <1>2, <1>3, <2>1 DEF IInv, Counted
  <2>3. PICK i \in DOMAIN ordered : ordered[i] = Src(e)
    BY <2>2 DEF Placed
  <2>4. QED
    BY <1>2, <2>1, <2>3 DEF Tied
<1>7. \A i \in DOMAIN ordered' : ~Endless(ordered'[i])
  BY <1>2, <1>4, <1>6 DEF Tied
<1>8. \A i \in 1..n : e < ordered[i] =>
        Waits(e) /\ \E k \in i..n : ordered[k] = Src(e)
  BY <1>2, <1>4 DEF Tied, SourceSince, n
<1>9. ASSUME NEW i \in 1..(n + 1), NEW j \in 1..(n + 1), i < j, ordered'[j] < ordered'[i]
      PROVE  \/ ~Endless(ordered'[i]) /\ Endless(ordered'[j])
             \/ Waits(ordered'[j]) /\ \E k \in i .. (j - 1) : ordered'[k] = Src(ordered'[j])
  <2>1. CASE j = n + 1
    <3>1. i \in 1..n /\ e < ordered[i]
      BY <1>4, <1>9, <2>1
    <3>2. Waits(e) /\ \E k \in i..n : ordered[k] = Src(e)
      BY <1>8, <3>1
    <3>3. \A k \in i..n : ordered'[k] = ordered[k]
      BY <1>4, <3>1
    <3>4. (n + 1) - 1 = n
      BY <1>4
    <3>5. QED
      BY <1>4, <2>1, <3>2, <3>3, <3>4
  <2>2. CASE j # n + 1
    <3>1. i \in 1..n /\ j \in 1..n
      BY <1>4, <1>9, <2>2
    <3>2. \A k \in i .. (j - 1) : k \in 1..n
      BY <1>4, <3>1
    <3>3. \/ ~Endless(ordered[i]) /\ Endless(ordered[j])
          \/ Waits(ordered[j]) /\ \E k \in i .. (j - 1) : ordered[k] = Src(ordered[j])
      BY <1>4, <1>9, <3>1 DEF Tied
    <3>4. QED
      BY <1>4, <3>1, <3>2, <3>3
  <2>3. QED
    BY <2>1, <2>2
<1>10. ASSUME NEW i \in 1..(n + 1), NEW f \in ready', f < ordered'[i]
       PROVE  Waits(f) /\ \E k \in i..(n + 1) : ordered'[k] = Src(f)
  <2>1. CASE f \in Targets(e)
    <3>1. Waits(f) /\ Src(f) = e
      BY <2>1 DEF Targets, Src
    <3>2. QED
      BY <1>4, <3>1
  <2>2. CASE f \in ready \ {e}
    <3>1. e <= f /\ f \in Env
      BY <1>1, <1>3, <2>2
    <3>2. i \in 1..n
      BY <1>3, <1>4, <1>10, <3>1
    <3>3. f < ordered[i]
      BY <1>4, <1>10, <3>2
    <3>4. Waits(f) /\ \E k \in i..n : ordered[k] = Src(f)
      BY <1>2, <1>4, <2>2, <3>2, <3>3 DEF Tied, SourceSince, n
    <3>5. QED
      BY <1>4, <3>2, <3>4
  <2>3. QED
    BY <1>1, <2>1, <2>2
<1>11. \A i \in DOMAIN ordered', f \in ready' :
         f < ordered'[i] => SourceSince(i, f)'
  BY <1>4, <1>5, <1>10 DEF SourceSince
<1>12. \A i, j \in DOMAIN ordered' : i < j /\ ordered'[j] < ordered'[i] =>
         \/ ~Endless(ordered'[i]) /\ Endless(ordered'[j])
         \/ Waits(ordered'[j]) /\ \E k \in i .. (j - 1) : ordered'[k] = Src(ordered'[j])
  BY <1>4, <1>9
<1>13. QED
  BY <1>2, <1>5, <1>7, <1>11, <1>12 DEF Tied

LEMMA TiedQueueEmpty ==
    ASSUME IInv, Tied, QueueEmpty
    PROVE  Tied'
<1>1. pc = "placing" /\ UNCHANGED <<entry, ordered>> /\ pc' # "placing"
  BY DEF QueueEmpty
<1>2. \A x : Endless(x)' = Endless(x) /\ Waits(x)' = Waits(x) /\ Src(x)' = Src(x)
  BY <1>1 DEF Endless, Waits, Src
<1>3. QED
  BY <1>1, <1>2 DEF Tied

LEMMA TiedAppendCycled ==
    ASSUME IInv, Tied, AppendCycled
    PROVE  Tied'
<1>1. PICK e \in Env \ Placed :
        /\ \A other \in Env \ Placed : e <= other
        /\ ordered' = Append(ordered, e)
        /\ pc' = IF Env \ Placed = {e} THEN "listed" ELSE pc
  BY DEF AppendCycled
<1>2. pc = "cycled" /\ pc' # "placing" /\ UNCHANGED entry
  BY <1>1 DEF AppendCycled
<1> DEFINE n == Len(ordered)
<1>3. /\ DOMAIN ordered = 1..n /\ n \in Nat
      /\ DOMAIN ordered' = 1..(n + 1)
      /\ \A i \in 1..n : ordered'[i] = ordered[i] /\ ordered[i] \in Env
      /\ ordered'[n + 1] = e
  BY <1>1, AppendFacts DEF IInv, TypeOK
<1>4. \A x : Endless(x)' = Endless(x) /\ Waits(x)' = Waits(x) /\ Src(x)' = Src(x)
  BY <1>2 DEF Endless, Waits, Src
<1>5. Placed' = Placed \cup {e}
  BY <1>1, PlacedAppend DEF IInv
<1> HIDE DEF n
<1>6. Endless(e)
  BY <1>1, <1>2 DEF IInv, Ordered
<1>7. ASSUME NEW i \in 1..(n + 1), NEW j \in 1..(n + 1), i < j, ordered'[j] < ordered'[i]
      PROVE  \/ ~Endless(ordered'[i]) /\ Endless(ordered'[j])
             \/ Waits(ordered'[j]) /\ \E k \in i .. (j - 1) : ordered'[k] = Src(ordered'[j])
  <2>1. CASE j = n + 1
    <3>1. i \in 1..n /\ e < ordered[i]
      BY <1>3, <1>7, <2>1
    <3>2. ~Endless(ordered[i])
      BY <1>1, <1>2, <1>3, <3>1 DEF Tied
    <3>3. QED
      BY <1>3, <1>6, <2>1, <3>1, <3>2
  <2>2. CASE j # n + 1
    <3>1. i \in 1..n /\ j \in 1..n
      BY <1>3, <1>7, <2>2
    <3>2. \A k \in i .. (j - 1) : k \in 1..n
      BY <1>3, <3>1
    <3>3. \/ ~Endless(ordered[i]) /\ Endless(ordered[j])
          \/ Waits(ordered[j]) /\ \E k \in i .. (j - 1) : ordered[k] = Src(ordered[j])
      BY <1>3, <1>7, <3>1 DEF Tied
    <3>4. QED
      BY <1>3, <3>1, <3>2, <3>3
  <2>3. QED
    BY <2>1, <2>2
<1>8. ASSUME NEW i \in 1..(n + 1), NEW f \in Env \ Placed', f < ordered'[i]
      PROVE  ~Endless(ordered'[i])
  <2>1. e <= f /\ f \in Env \ Placed
    BY <1>1, <1>5
  <2>2. i \in 1..n
    BY <1>1, <1>3, <1>8, <2>1
  <2>3. QED
    BY <1>2, <1>3, <1>8, <2>1, <2>2 DEF Tied
<1>9. QED
  BY <1>2, <1>3, <1>4, <1>7, <1>8 DEF Tied

LEMMA NextTied == IInv /\ Tied /\ [Next]_vars => Tied'
<1> SUFFICES ASSUME IInv, Tied, [Next]_vars PROVE Tied'
  OBVIOUS
<1>1. CASE UNCHANGED vars
  <2>1. UNCHANGED <<entry, pc, ready, ordered>>
    BY <1>1 DEF vars
  <2>2. \A x : Endless(x)' = Endless(x) /\ Waits(x)' = Waits(x) /\ Src(x)' = Src(x)
    BY <2>1 DEF Endless, Waits, Src
  <2>3. Placed' = Placed
    BY <2>1 DEF Placed
  <2>4. QED
    BY <2>1, <2>2, <2>3 DEF Tied, SourceSince
<1>2. CASE Load \/ BeginValidate \/ LoadNext \/ AllLoaded \/ CheckRelations
  <2>1. UNCHANGED <<entry, ordered>> /\ pc' \notin {"placing", "cycled"}
    BY <1>2 DEF Load, BeginValidate, LoadNext, AllLoaded, CheckRelations
  <2>2. QED
    BY <2>1, TiedStays
<1>3. CASE BeginList
  <2>1. ordered = <<>> /\ ordered' = <<>> /\ pc' = "placing"
    BY <1>3 DEF BeginList, IInv, Unlisted
  <2>2. DOMAIN ordered' = {}
    BY <2>1
  <2>3. QED
    BY <2>1, <2>2 DEF Tied
<1>4. QED
  BY <1>1, <1>2, <1>3, TiedPlaceNext, TiedQueueEmpty, TiedAppendCycled DEF Next

\* Ties of the listing are broken by name (environments.go:55): one of a
\* smaller name comes later only if it had to wait for the other or for one
\* listed since; what is on or behind a cycle comes last, by name.
THEOREM TiesByName == Spec => []NamesBreakTies
<1>1. Init => Tied
  <2> SUFFICES ASSUME Init PROVE Tied
    OBVIOUS
  <2>1. DOMAIN ordered = {}
    BY DEF Init
  <2>2. QED
    BY <2>1 DEF Init, Tied
<1>2. IInv /\ Tied => NamesBreakTies
  <2> SUFFICES ASSUME IInv, Tied PROVE NamesBreakTies
    OBVIOUS
  <2>1. /\ DOMAIN EnvironmentsMessage = DOMAIN ordered
        /\ \A i \in DOMAIN ordered :
             /\ EnvironmentsMessage[i].name = ordered[i]
             /\ EnvironmentsMessage[i].promoteFrom = Src(ordered[i])
    BY DEF EnvironmentsMessage, ListEnvironments, Src
  <2>2. DOMAIN ordered = 1..Len(ordered) /\ Len(ordered) \in Nat
    BY DEF IInv, TypeOK
  <2>3. \A i, j \in DOMAIN ordered : \A k \in i .. (j - 1) : k \in DOMAIN ordered
    BY <2>2
  <2>4. QED
    BY <2>1, <2>3 DEF NamesBreakTies, Tied
<1>3. QED
  BY <1>1, <1>2, NextTied, Invariance, InitInv, PTL DEF Spec

\* What a validation has established so far.
Established ==
    /\ pc \notin {"start", "refused"} => \A e \in Env : EntryValid(e)
    /\ \A e \in Env : byEnv[e] # {} => ServicesLoad(e) /\ byEnv[e] = NamesIn(e)
    /\ pc \in {"relations", "validated"} => \A e \in Env : byEnv[e] # {}
    /\ pc = "validated" => RelationsHold

LEMMA NextEstablished == TypeOK /\ Established /\ [Next]_vars => Established'
<1> SUFFICES ASSUME TypeOK, Established, [Next]_vars PROVE Established'
  OBVIOUS
<1>1. UNCHANGED <<entry, directory>>
  BY DEF Next, Load, BeginValidate, LoadNext, AllLoaded, CheckRelations, BeginList,
         PlaceNext, QueueEmpty, AppendCycled, vars
<1>2. \A e : /\ EntryValid(e)' = EntryValid(e)
             /\ ServicesLoad(e)' = ServicesLoad(e)
             /\ NamesIn(e)' = NamesIn(e)
  BY <1>1 DEF EntryValid, ServicesLoad, NamesIn
<1>3. CASE UNCHANGED <<pc, byEnv>>
  BY <1>1, <1>2, <1>3 DEF Established, RelationsHold, LoadedNames
<1>4. CASE Load \/ BeginValidate \/ AllLoaded \/ CheckRelations
  <2>1. UNCHANGED byEnv
    BY <1>4 DEF Load, BeginValidate, AllLoaded, CheckRelations
  <2>2. RelationsHold' = RelationsHold
    BY <1>1, <2>1 DEF RelationsHold, LoadedNames
  <2>3. QED
    BY <1>2, <1>4, <2>1, <2>2
       DEF Established, Load, BeginValidate, AllLoaded, CheckRelations
<1>5. CASE LoadNext
  <2>1. PICK e \in Env :
          IF ServicesLoad(e)
            THEN byEnv' = [byEnv EXCEPT ![e] = NamesIn(e)] /\ UNCHANGED pc
            ELSE pc' = "refused" /\ UNCHANGED byEnv
    BY <1>5 DEF LoadNext
  <2>2. pc = "loading" /\ pc' \in {"loading", "refused"}
    BY <1>5, <2>1 DEF LoadNext
  <2>3. \A f \in Env : byEnv'[f] # {} => ServicesLoad(f) /\ byEnv'[f] = NamesIn(f)
    BY <2>1 DEF Established, TypeOK
  <2>4. QED
    BY <1>2, <2>2, <2>3 DEF Established
<1>6. CASE BeginList \/ PlaceNext \/ QueueEmpty \/ AppendCycled
  <2>1. /\ UNCHANGED byEnv
        /\ pc \in {"loaded", "placing", "cycled"}
        /\ pc' \in {"placing", "cycled", "listed"}
    BY <1>6 DEF BeginList, PlaceNext, QueueEmpty, AppendCycled
  <2>2. QED
    BY <1>2, <2>1 DEF Established
<1>7. QED
  BY <1>3, <1>4, <1>5, <1>6 DEF Next, vars

LEMMA EstablishedPlans == Established => ValidatedPlans
<1> SUFFICES ASSUME Established, pc = "validated", NEW e \in Env,
                    entry[e].policy = "manual", entry[e].promoteFrom # 0
             PROVE  CanPlan(entry[e].promoteFrom, e)
  BY DEF ValidatedPlans
<1> DEFINE from == entry[e].promoteFrom
<1>1. from \in Env \ {e}
  BY DEF Established, EntryValid
<1>2. ServicesLoad(from) /\ ServicesLoad(e)
  BY <1>1 DEF Established
<1>3. byEnv[e] \subseteq byEnv[from]
  BY <1>1 DEF Established, RelationsHold, LoadedNames
<1>4. NamesIn(e) \subseteq NamesIn(from)
  BY <1>1, <1>3 DEF Established
<1>5. QED
  BY <1>1, <1>2, <1>4 DEF CanPlan

\* What `manifest validate` accepts can be promoted along (manifest.go:19),
\* for every configuration and every set of manifests.
THEOREM ValidatedCanBePlanned == Spec => []ValidatedPlans
<1>1. Init => Established
  BY DEF Init, Established
<1>2. QED
  BY <1>1, NextEstablished, EstablishedPlans, TypeCorrect, PTL DEF Spec
=============================================================================

--------------------------- MODULE GitSync_proofs ---------------------------
(***************************************************************************)
(* Theorems about GitSync, for any number of commits.                      *)
(***************************************************************************)
EXTENDS GitSync, TLAPS

\* What Sync has checked still holds when it acts on it, as long as nobody else
\* works on the copy meanwhile.
CheckedOK ==
    /\ sync # "idle" => ~ promoting
    /\ sync \in {"clean", "forward", "reset"} => base = head
    /\ sync \in {"forward", "reset"} => ~ dirty
    /\ sync = "reset" => base \subseteq target

LEMMA NewCommitType ==
    ASSUME TypeOK, commits < MaxCommits, NEW parent \in Commits
    PROVE  NewCommit(parent) \in Commits /\ commits + 1 \in 0 .. MaxCommits
BY CommitsAssumption DEF TypeOK, Commits, NewCommit

LEMMA InitType == Init => TypeOK
<1>1. {} \in Commits /\ {1} \in Commits /\ 1 \in 0 .. MaxCommits
  BY CommitsAssumption DEF Commits
<1>2. QED
  BY <1>1 DEF Init, TypeOK

LEMMA NextType == TypeOK /\ [Next]_vars => TypeOK'
<1> SUFFICES ASSUME TypeOK, [Next]_vars PROVE TypeOK'
  OBVIOUS
<1>1. CASE RemoteCommit
  BY <1>1, NewCommitType DEF RemoteCommit, TypeOK, copy, call
<1>2. CASE ForcePush
  <2>1. PICK last \in remote : remote' = NewCommit(remote \ {last})
    BY <1>2 DEF ForcePush
  <2>2. remote \ {last} \in Commits
    BY DEF TypeOK, Commits
  <2>3. remote' \in Commits /\ commits' \in 0 .. MaxCommits
    BY <1>2, <2>1, <2>2, NewCommitType DEF ForcePush
  <2>4. QED
    BY <1>2, <2>3 DEF ForcePush, TypeOK, copy, call
<1>3. CASE CommitPromotion
  BY <1>3, NewCommitType DEF CommitPromotion, TypeOK, call
<1>4. CASE Promote \/ AbandonPromotion \/ Restore \/ Push
  BY <1>4 DEF Promote, AbandonPromotion, Restore, Push, TypeOK, copy, call
<1>5. CASE Restart
  BY <1>5 DEF Restart, TypeOK, Commits
<1>6. CASE Open \/ Fetch \/ Fail
  BY <1>6 DEF Open, Fetch, Fail, Return, TypeOK, copy, Commits
<1>7. CASE SyncStep
  BY <1>7 DEF SyncStep, ReadHead, CheckClean, CheckFastForward, HardReset, Return,
              TypeOK, copy, Commits
<1>8. CASE UNCHANGED vars
  BY <1>8 DEF vars, TypeOK
<1>9. QED
  BY <1>1, <1>2, <1>3, <1>4, <1>5, <1>6, <1>7, <1>8 DEF Next

\* Commits, references and the stages of Sync keep their types.
THEOREM TypeCorrect == Spec => []TypeOK
BY InitType, NextType, PTL DEF Spec

LEMMA NextChecked == ~ Overlap /\ CheckedOK /\ [Next]_vars => CheckedOK'
<1> SUFFICES ASSUME ~ Overlap, CheckedOK, [Next]_vars PROVE CheckedOK'
  OBVIOUS
<1>1. CASE RemoteCommit \/ ForcePush
  BY <1>1 DEF RemoteCommit, ForcePush, CheckedOK, copy, call
<1>2. CASE Promote \/ Restore
  BY <1>2 DEF Promote, Restore, CheckedOK, call
<1>3. CASE CommitPromotion \/ AbandonPromotion
  BY <1>3 DEF CommitPromotion, AbandonPromotion, CheckedOK, copy, call
<1>4. CASE Push
  BY <1>4 DEF Push, CheckedOK, call
<1>5. CASE Restart
  BY <1>5 DEF Restart, CheckedOK
<1>6. CASE Open \/ Fetch \/ Fail
  BY <1>6 DEF Open, Fetch, Fail, Return, CheckedOK, copy
<1>7. CASE SyncStep
  BY <1>7 DEF SyncStep, ReadHead, CheckClean, CheckFastForward, HardReset, Return,
              CheckedOK, copy
<1>8. CASE UNCHANGED vars
  BY <1>8 DEF vars, CheckedOK
<1>9. QED
  BY <1>1, <1>2, <1>3, <1>4, <1>5, <1>6, <1>7, <1>8 DEF Next

\* While no promotion, and no edit, runs during a sync, Sync discards no local
\* work, whatever happens to the remote.
THEOREM NothingDiscarded == ASSUME ~ Overlap PROVE Spec => NeverDiscards
<1>1. Init => CheckedOK
  BY DEF Init, CheckedOK
<1>2. CheckedOK /\ [Next]_vars => CheckedOK'
  BY NextChecked
<1>3. CheckedOK /\ [Next]_vars =>
        [SyncStep \/ Fetch \/ Open => head \subseteq head' /\ (dirty => dirty')]_vars
  BY DEF CheckedOK, SyncStep, Fetch, Open, ReadHead, CheckClean, CheckFastForward,
         HardReset, copy
<1>4. QED
  BY <1>1, <1>2, <1>3, PTL DEF Spec, NeverDiscards
=============================================================================

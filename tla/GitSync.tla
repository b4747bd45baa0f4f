------------------------------- MODULE GitSync -------------------------------
(***************************************************************************)
(* Sync and Push (gitops/sync.go): the working copy of a server that       *)
(* follows a branch of a remote repository, into which promotions commit.  *)
(*                                                                         *)
(* A commit is the set of the commits in its history, itself included: one *)
(* is an ancestor of another when it is a subset of it.  A working copy    *)
(* that does not exist is {}.  Promotion models how a promotion writes and *)
(* commits manifests; here it writes, and commits or gives up.             *)
(***************************************************************************)
EXTENDS Naturals

CONSTANTS
    MaxCommits,  \* the commits anybody makes
    Overlap      \* promotions run while the working copy is synced

ASSUME CommitsAssumption == MaxCommits \in Nat \ {0}
ASSUME OverlapAssumption == Overlap \in BOOLEAN

VARIABLES
    commits,   \* the number of commits made
    remote,    \* the tip of the branch in the remote repository
    tracking,  \* refs/remotes/origin/<branch> of the working copy
    head,      \* HEAD of the working copy
    dirty,     \* tracked files differ from HEAD
    sync,      \* where Sync stands
    base,      \* the head that it read
    target,    \* the remote reference that it fetched
    promoting  \* a promotion is under way

copy == <<tracking, head, dirty>>
call == <<sync, base, target>>
vars == <<commits, remote, tracking, head, dirty, sync, base, target, promoting>>

Commits == SUBSET (1 .. MaxCommits)

TypeOK ==
    /\ commits \in 0 .. MaxCommits
    /\ {remote, tracking, head, base, target} \subseteq Commits
    /\ {dirty, promoting} \subseteq BOOLEAN
    /\ sync \in {"idle", "fetch", "head", "clean", "forward", "reset"}

\* The remote branch has a commit; a fresh instance has no working copy.
Init ==
    /\ commits = 1
    /\ remote = {1}
    /\ tracking = {} /\ head = {} /\ dirty = FALSE
    /\ sync = "idle" /\ base = {} /\ target = {}
    /\ promoting = FALSE

NewCommit(parent) == parent \cup {commits + 1}

-----------------------------------------------------------------------------
(* The remote repository *)

RemoteCommit ==
    /\ commits < MaxCommits
    /\ commits' = commits + 1
    /\ remote' = NewCommit(remote)
    /\ UNCHANGED <<copy, call, promoting>>

\* Somebody rewrites the last commit.
ForcePush ==
    /\ commits < MaxCommits
    /\ \E last \in remote :
        /\ \A c \in remote : c <= last
        /\ remote' = NewCommit(remote \ {last})
    /\ commits' = commits + 1
    /\ UNCHANGED <<copy, call, promoting>>

-----------------------------------------------------------------------------
(* The working copy, apart from Sync *)

Promote ==
    /\ head # {} /\ ~ promoting
    /\ Overlap \/ sync = "idle"
    /\ promoting' = TRUE
    /\ dirty' = TRUE
    /\ UNCHANGED <<commits, remote, tracking, head, call>>

\* What it wrote may be gone by now: then there is nothing to commit.
CommitPromotion ==
    /\ promoting
    /\ promoting' = FALSE
    /\ IF dirty /\ commits < MaxCommits
       THEN commits' = commits + 1 /\ head' = NewCommit(head) /\ dirty' = FALSE
       ELSE UNCHANGED <<commits, head, dirty>>
    /\ UNCHANGED <<remote, tracking, call>>

\* A promotion that fails leaves its files; somebody may discard them.
AbandonPromotion ==
    /\ promoting
    /\ promoting' = FALSE
    /\ UNCHANGED <<commits, remote, copy, call>>

Restore ==
    /\ dirty /\ ~ promoting
    /\ Overlap \/ sync = "idle"
    /\ dirty' = FALSE
    /\ UNCHANGED <<commits, remote, tracking, head, call, promoting>>

\* The remote takes what its tip is an ancestor of, and the tracking reference
\* follows.
Push ==
    /\ head # {} /\ remote \subseteq head
    /\ remote' = head
    /\ tracking' = head
    /\ UNCHANGED <<commits, head, dirty, call, promoting>>

\* A new instance starts without the working copy, and what was not pushed is
\* gone with the old one.
Restart ==
    /\ tracking' = {} /\ head' = {} /\ dirty' = FALSE
    /\ sync' = "idle" /\ base' = {} /\ target' = {}
    /\ promoting' = FALSE
    /\ UNCHANGED <<commits, remote>>

-----------------------------------------------------------------------------
(* Sync *)

Return == sync' = "idle" /\ base' = {} /\ target' = {}

\* The remote does not answer.
Fail ==
    /\ sync = "fetch"
    /\ Return
    /\ UNCHANGED <<commits, remote, copy, promoting>>

\* A working copy that does not exist is cloned.
Open ==
    /\ sync = "idle"
    /\ Overlap \/ ~ promoting
    /\ sync' = "fetch"
    /\ IF head = {}
       THEN tracking' = remote /\ head' = remote
       ELSE UNCHANGED <<tracking, head>>
    /\ UNCHANGED <<commits, remote, dirty, base, target, promoting>>

\* Mutant: a fetch that is not forced refuses a branch that was rewritten.
FetchFastForward ==
    /\ sync = "fetch"
    /\ IF tracking \subseteq remote
       THEN sync' = "head" /\ tracking' = remote /\ target' = remote /\ UNCHANGED base
       ELSE Return /\ UNCHANGED tracking
    /\ UNCHANGED <<commits, remote, head, dirty, promoting>>

Fetch ==
    /\ sync = "fetch"
    /\ tracking' = remote
    /\ target' = remote
    /\ sync' = "head"
    /\ UNCHANGED <<commits, remote, head, dirty, base, promoting>>

\* A working copy at the remote's tip is left as it is.
ReadHead ==
    /\ sync = "head"
    /\ IF head = target
       THEN Return
       ELSE sync' = "clean" /\ base' = head /\ UNCHANGED target
    /\ UNCHANGED <<commits, remote, copy, promoting>>

\* Mutant: the working copy is not checked for changes.
NoCheckClean ==
    /\ sync = "clean"
    /\ sync' = "forward"
    /\ UNCHANGED <<commits, remote, copy, base, target, promoting>>

CheckClean ==
    /\ sync = "clean"
    /\ IF dirty THEN Return ELSE sync' = "forward" /\ UNCHANGED <<base, target>>
    /\ UNCHANGED <<commits, remote, copy, promoting>>

CheckFastForward ==
    /\ sync = "forward"
    /\ IF base \subseteq target THEN sync' = "reset" /\ UNCHANGED <<base, target>> ELSE Return
    /\ UNCHANGED <<commits, remote, copy, promoting>>

\* The branch, the index and the tracked files become those of the target.
HardReset ==
    /\ sync = "reset"
    /\ head' = target
    /\ dirty' = FALSE
    /\ Return
    /\ UNCHANGED <<commits, remote, tracking, promoting>>

-----------------------------------------------------------------------------

SyncStep == ReadHead \/ CheckClean \/ CheckFastForward \/ HardReset

Next ==
    \/ SyncStep \/ Open \/ Fetch \/ Fail
    \/ RemoteCommit \/ ForcePush
    \/ Promote \/ CommitPromotion \/ AbandonPromotion \/ Restore \/ Push \/ Restart

\* A Sync whose fetch was answered goes on.
Fairness == WF_vars(SyncStep)

Spec == Init /\ [][Next]_vars /\ Fairness

-----------------------------------------------------------------------------
(* Properties *)

\* "Sync never discards local work" (sync.go:52): no step of Sync takes a commit
\* out of the history of the working copy, or a change out of its files.
NeverDiscards ==
    [][SyncStep \/ Fetch \/ Open => head \subseteq head' /\ (dirty => dirty')]_vars

\* "fetches and fast-forwards" (sync.go:50): as long as Sync is called and its
\* fetches are answered again and again, a clean working copy whose commits are
\* all on the remote branch gets to its tip, also when a tip it had fetched
\* before was rewritten.  A copy whose own HEAD was rewritten away is not among
\* them: checkFastForward refuses it like one with unpushed commits, and only
\* somebody's push or reset gets it out of that (sync.go:194).
Follows ==
    []<><<Open>>_vars /\ []<><<Fetch>>_vars
      => []<>(head = remote \/ dirty \/ ~ (head \subseteq remote))
=============================================================================

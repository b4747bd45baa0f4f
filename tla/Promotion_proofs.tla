--------------------------- MODULE Promotion_proofs ---------------------------
(***************************************************************************)
(* Theorems about Promotion, for any number of calls, services,            *)
(* environments, repositories and digests.                                 *)
(***************************************************************************)
EXTENDS Promotion, TLAPS

Repositories == {Repository[e] : e \in Envs}

\* Between its copy and its write an iteration has an item to work on.
CurOK == \A c \in Calls : pc[c] \in {"check", "write"} => cur[c] \in Item

TypeInv == TypeOK /\ CurOK

\* A call that returns keeps its variables well typed.
LEMMA ReturnType ==
    ASSUME TypeInv, NEW c \in Calls, Return(c),
           UNCHANGED <<worktree, index, head, log, images, history>>
    PROVE  TypeInv'
<1>1. NoPlan \in Plan
  BY DEF NoPlan, Plan, Envs
<1>2. TypeOK'
  BY <1>1 DEF TypeInv, TypeOK, Return, Stages
<1>3. CurOK'
  BY DEF TypeInv, TypeOK, CurOK, Return
<1>4. QED
  BY <1>2, <1>3 DEF TypeInv

\* A difference between two environments is a set of items.
LEMMA DiffType ==
    ASSUME TypeOK, NEW from \in Envs, NEW to \in Envs, NEW chosen \in Selections
    PROVE  Diff(from, to, chosen) \subseteq Item
<1>1. chosen \subseteq Services
  BY DEF Selections
<1>2. ASSUME NEW s \in Services
      PROVE  worktree[<<to, s>>] \in Digests /\ worktree[<<from, s>>] \in Digests
  BY DEF TypeOK, Files
<1>3. ASSUME NEW item \in Diff(from, to, chosen)
      PROVE  item \in Item
  <2>1. PICK s \in chosen :
          item = [service |-> s, old |-> worktree[<<to, s>>],
                  new |-> worktree[<<from, s>>]]
    BY <1>3 DEF Diff
  <2>2. s \in Services
    BY <1>1
  <2>3. QED
    BY <2>1, <2>2, <1>2 DEF Item
<1>4. QED
  BY <1>3

\* The file an item rewrites is a file of the checkout.
LEMMA FileOfType ==
    ASSUME TypeOK, NEW c \in Calls, NEW item \in Item
    PROVE  FileOf(c, item) \in Files
BY DEF TypeOK, FileOf, Files, Item, Plan

\* The actions of a call keep the types.
LEMMA CallType ==
    ASSUME TypeInv, NEW c \in Calls, CallNext(c)
    PROVE  TypeInv'
<1> USE DEF TypeInv
<1>1. CASE PlanPromote(c)
  <2>1. PICK to \in ManualEnvs, from \in Envs, chosen \in Selections :
          /\ plan' = [plan EXCEPT ![c] =
                        [from |-> from, to |-> to,
                         items |-> Diff(from, to, chosen)]]
          /\ todo' = [todo EXCEPT ![c] = Diff(from, to, chosen)]
    BY <1>1 DEF PlanPromote
  <2>2. to \in Envs
    BY DEF Envs
  <2>3. Diff(from, to, chosen) \subseteq Item
    BY <2>2, DiffType
  <2>4. plan' \in [Calls -> Plan] /\ todo' \in [Calls -> SUBSET Item]
    BY <2>1, <2>2, <2>3 DEF TypeOK, Plan
  <2>5. pc' = [pc EXCEPT ![c] = "planned"]
        /\ UNCHANGED <<worktree, index, head, log, images, history, cur, landed>>
    BY <1>1 DEF PlanPromote, Goto
  <2>6. TypeOK'
    BY <2>4, <2>5 DEF TypeOK, Stages
  <2>7. CurOK'
    BY <2>5 DEF TypeOK, CurOK
  <2>8. QED
    BY <2>6, <2>7
<1>2. CASE Confirm(c)
  BY <1>2 DEF Confirm, TypeOK, CurOK, Goto, Stages
<1>3. CASE NoOp(c) \/ ManifestMoved(c) \/ RefuseCommit(c)
             \/ EmptyCommit(c) \/ Abandon(c)
  <2>1. Return(c) /\ UNCHANGED <<worktree, index, head, log, images, history>>
    BY <1>3 DEF NoOp, ManifestMoved, RefuseCommit, EmptyCommit, Abandon
  <2>2. QED
    BY <2>1, ReturnType
<1>4. CASE CopyImage(c)
  <2>1. PICK item \in todo[c] :
          /\ cur' = [cur EXCEPT ![c] = item]
          /\ \/ images' = [images EXCEPT ![Repository[plan[c].to]] =
                              @ \cup {item.new}]
             \/ images' = images
    BY <1>4 DEF CopyImage
  <2>2. item \in Item
    BY DEF TypeOK
  <2>3. item.new \in Digests /\ plan[c].to \in Envs
    BY <2>2 DEF Item, TypeOK, Plan
  <2>4. images' \in [Repositories -> SUBSET Digests]
    <3>1. Repository[plan[c].to] \in Repositories
      BY <2>3 DEF Repositories
    <3>2. images \in [Repositories -> SUBSET Digests]
      BY DEF TypeOK, Repositories
    <3>3. QED
      BY <2>1, <2>3, <3>1, <3>2
  <2>5. pc' = [pc EXCEPT ![c] = "check"]
        /\ UNCHANGED <<worktree, index, head, log, history, plan, todo, landed>>
    BY <1>4 DEF CopyImage, Goto
  <2>6. TypeOK'
    BY <2>1, <2>2, <2>4, <2>5 DEF TypeOK, Stages, Repositories
  <2>7. CurOK'
    BY <2>1, <2>2, <2>5 DEF TypeOK, CurOK
  <2>8. QED
    BY <2>6, <2>7
<1>5. CASE CheckManifest(c)
  BY <1>5 DEF CheckManifest, TypeOK, CurOK, Goto, Stages
<1>6. CASE WriteManifest(c)
  <2>1. cur[c] \in Item /\ cur[c].new \in Digests
    BY <1>6 DEF WriteManifest, CurOK, Item
  <2>2. /\ pc' = [pc EXCEPT ![c] = "status"] \/ pc' = [pc EXCEPT ![c] = "copy"]
        /\ worktree' = [worktree EXCEPT ![FileOf(c, cur[c])] = cur[c].new]
        /\ todo' = [todo EXCEPT ![c] = @ \ {cur[c]}]
        /\ cur' = [cur EXCEPT ![c] = None]
        /\ UNCHANGED <<index, head, log, images, history, plan, landed>>
    BY <1>6 DEF WriteManifest, Goto
  <2>3. TypeOK'
    BY <2>1, <2>2 DEF TypeOK, Stages
  <2>4. CurOK'
    BY <2>2 DEF TypeOK, CurOK
  <2>5. QED
    BY <2>3, <2>4
<1>7. CASE CheckStatus(c)
  <2>1. {item \in plan[c].items : FileOf(c, item) \in Changed} \subseteq Item
    BY DEF TypeOK, Plan
  <2>2. QED
    BY <1>7, <2>1 DEF CheckStatus, TypeOK, CurOK, Goto, Stages
<1>8. CASE StageManifest(c)
  <2>1. PICK item \in todo[c] :
          /\ index' = [index EXCEPT ![FileOf(c, item)] = worktree[FileOf(c, item)]]
          /\ todo' = [todo EXCEPT ![c] = @ \ {item}]
          /\ pc' = [pc EXCEPT ![c] = "commit"] \/ pc' = [pc EXCEPT ![c] = "add"]
          /\ UNCHANGED <<worktree, head, log, images, history, plan, cur, landed>>
    BY <1>8 DEF StageManifest, Goto
  <2>2. item \in Item
    BY DEF TypeOK
  <2>3. worktree[FileOf(c, item)] \in Digests
    BY <2>2, FileOfType DEF TypeOK
  <2>4. TypeOK'
    BY <2>1, <2>3 DEF TypeOK, Stages
  <2>5. CurOK'
    BY <2>1 DEF TypeOK, CurOK
  <2>6. QED
    BY <2>4, <2>5
<1>9. CASE CommitIndex(c)
  <2>1. /\ head' = index
        /\ log' = Append(log, index)
        /\ landed' = [landed EXCEPT ![c] = Len(log) + 1]
        /\ todo' = [todo EXCEPT ![c] = plan[c].items]
        /\ pc' = [pc EXCEPT ![c] = "record"]
        /\ UNCHANGED <<worktree, index, images, history, plan, cur>>
    BY <1>9 DEF CommitIndex, Goto
  <2>2. plan[c].items \subseteq Item
    BY DEF TypeOK, Plan
  <2>3. log' \in Seq([Files -> Digests]) /\ Len(log) + 1 \in Nat
    BY <2>1 DEF TypeOK
  <2>4. TypeOK'
    BY <2>1, <2>2, <2>3 DEF TypeOK, Stages
  <2>5. CurOK'
    BY <2>1 DEF TypeOK, CurOK
  <2>6. QED
    BY <2>4, <2>5
<1>10. CASE RecordItem(c)
  <2>1. PICK item \in todo[c] :
          /\ history' = history \cup
               {[env |-> plan[c].to, service |-> item.service,
                 digest |-> item.new, commit |-> landed[c]]}
          /\ \/ Return(c)
             \/ /\ todo' = [todo EXCEPT ![c] = @ \ {item}]
                /\ UNCHANGED <<pc, plan, cur, landed>>
    BY <1>10 DEF RecordItem
  <2>2. UNCHANGED <<worktree, index, head, log, images>>
    BY <1>10 DEF RecordItem
  <2>3. item \in Item /\ plan[c].to \in Envs /\ landed[c] \in Nat
    BY DEF TypeOK, Plan
  <2>4. history' \subseteq Entry
    BY <2>1, <2>3 DEF TypeOK, Entry, Item
  <2>5. CASE Return(c)
    <3>1. NoPlan \in Plan
      BY DEF NoPlan, Plan, Envs
    <3>2. TypeOK'
      BY <2>2, <2>4, <2>5, <3>1 DEF TypeOK, Return, Stages
    <3>3. CurOK'
      BY <2>5 DEF TypeOK, CurOK, Return
    <3>4. QED
      BY <3>2, <3>3
  <2>6. CASE /\ todo' = [todo EXCEPT ![c] = @ \ {item}]
             /\ UNCHANGED <<pc, plan, cur, landed>>
    BY <2>2, <2>4, <2>6 DEF TypeOK, CurOK
  <2>7. QED
    BY <2>1, <2>5, <2>6
<1>11. QED
  BY <1>1, <1>2, <1>3, <1>4, <1>5, <1>6, <1>7, <1>8, <1>9, <1>10 DEF CallNext

\* The rest of the world keeps them too.
LEMMA CheckoutType ==
    ASSUME TypeInv, CheckoutNext
    PROVE  TypeInv'
<1> USE DEF TypeInv
<1>1. CurOK'
  BY DEF CheckoutNext, RecordImageEvent, SetImageByHand, SetManifestImage, CallerCommit,
         DiscardChanges, call, CurOK
<1>2. ASSUME NEW e \in Envs, NEW s \in Services, NEW d \in Digests,
             SetManifestImage(e, s, d)
      PROVE  TypeOK'
  BY <1>2 DEF SetManifestImage, call, TypeOK
<1>3. ASSUME NEW e \in Envs, NEW s \in Services, CallerCommit(e, s)
      PROVE  TypeOK'
  <2>1. worktree[<<e, s>>] \in Digests
    <3>1. <<e, s>> \in Files
      BY DEF Files
    <3>2. QED
      BY <3>1 DEF TypeOK
  <2>2. head' \in [Files -> Digests] /\ index' \in [Files -> Digests]
    BY <1>3, <2>1 DEF CallerCommit, TypeOK
  <2>3. log' \in Seq([Files -> Digests])
    BY <1>3, <2>2 DEF CallerCommit, TypeOK
  <2>4. QED
    BY <1>3, <2>2, <2>3 DEF CallerCommit, call, TypeOK
<1>4. CASE DiscardChanges
  BY <1>1, <1>4 DEF DiscardChanges, call, TypeOK
<1>5. QED
  <2>1. AutoEnv \in Envs /\ ManualEnvs \subseteq Envs
    BY DEF Envs
  <2>2. QED
    BY <1>1, <1>2, <1>3, <1>4, <2>1 DEF CheckoutNext, RecordImageEvent, SetImageByHand

LEMMA TypeInvariant == Spec => []TypeInv
<1>1. Init => TypeInv
  <2> SUFFICES ASSUME Init PROVE TypeInv
    OBVIOUS
  <2>1. NoPlan \in Plan
    BY DEF NoPlan, Plan, Envs
  <2>2. worktree \in [Files -> Digests]
    BY DigestAssumption DEF Init
  <2>3. images \in [Repositories -> SUBSET Digests]
    BY DigestAssumption DEF Init, Repositories
  <2>4. log \in Seq([Files -> Digests])
    BY DEF Init
  <2>5. QED
    BY <2>1, <2>2, <2>3, <2>4
    DEF Init, TypeInv, TypeOK, CurOK, Stages, Repositories
<1>2. TypeInv /\ [Next]_vars => TypeInv'
  <2> SUFFICES ASSUME TypeInv, [Next]_vars PROVE TypeInv'
    OBVIOUS
  <2>1. CASE UNCHANGED vars
    BY <2>1 DEF vars, TypeInv, TypeOK, CurOK
  <2>2. QED
    BY <2>1, CallType, CheckoutType DEF Next
<1>3. QED
  BY <1>1, <1>2, PTL DEF Spec

\* Every variable keeps its type through every step of every call and of the
\* checkout around them (promote.go:58-172, commit.go:19-80, load.go:150-169).
THEOREM TypeCorrect == Spec => []TypeOK
BY TypeInvariant, PTL DEF TypeInv

-----------------------------------------------------------------------------
(* Images *)

\* Every manifest of a tree pins, where imageCopy is configured, a digest its
\* repository holds.
Pinned(tree) ==
    \A e \in CopyEnvs, s \in Services : tree[<<e, s>>] \in images[Repository[e]]

\* The image an iteration is about to write has been copied.
Copied ==
    \A c \in Calls :
        pc[c] \in {"check", "write"} /\ plan[c].to \in CopyEnvs =>
            cur[c].new \in images[Repository[plan[c].to]]

\* HEAD is filled from the index and the index from the working tree, so all
\* three trees are needed for the invariant to be inductive.
ImagesInv == Pinned(worktree) /\ Pinned(index) /\ Pinned(head) /\ Copied

\* Repositories only grow, so what they hold stays.
LEMMA ImagesGrow ==
    ASSUME TypeInv, TypeInv', ImagesInv,
           \A r \in Repositories : images[r] \subseteq images'[r],
           UNCHANGED <<worktree, index, head>>
    PROVE  Pinned(worktree)' /\ Pinned(index)' /\ Pinned(head)'
<1>1. \A e \in CopyEnvs : Repository[e] \in Repositories
  BY EnvAssumption DEF Repositories, Envs
<1>2. QED
  BY <1>1 DEF ImagesInv, Pinned

\* A call that returns works on no item any more.
LEMMA ReturnImages ==
    ASSUME TypeInv, ImagesInv, NEW c \in Calls, Return(c),
           UNCHANGED <<worktree, index, head, images>>
    PROVE  ImagesInv'
<1>1. Pinned(worktree)' /\ Pinned(index)' /\ Pinned(head)'
  BY DEF ImagesInv, Pinned
<1>2. Copied'
  BY DEF ImagesInv, Copied, Return, TypeInv, TypeOK
<1>3. QED
  BY <1>1, <1>2 DEF ImagesInv

\* Adding a digest to one repository takes nothing from any.
LEMMA AddImage ==
    ASSUME NEW R, NEW D, NEW f \in [R -> SUBSET D], NEW r \in R, NEW d \in D,
           NEW g, g = [f EXCEPT ![r] = @ \cup {d}]
    PROVE  d \in g[r] /\ \A q \in R : f[q] \subseteq g[q]
<1>1. g[r] = f[r] \cup {d}
  OBVIOUS
<1>2. \A q \in R \ {r} : g[q] = f[q]
  OBVIOUS
<1>3. QED
  BY <1>1, <1>2

LEMMA CallImages ==
    ASSUME TypeInv, TypeInv', ImagesInv, NEW c \in Calls, CallNext(c)
    PROVE  ImagesInv'
<1> USE DEF TypeInv, TypeOK
<1>1. CASE PlanPromote(c) \/ Confirm(c) \/ CheckStatus(c)
  <2>1. /\ UNCHANGED <<worktree, index, head, images, cur>>
        /\ pc' = [pc EXCEPT ![c] = "planned"] \/ pc' = [pc EXCEPT ![c] = "copy"]
             \/ pc' = [pc EXCEPT ![c] = "add"]
        /\ \A d \in Calls \ {c} : plan'[d] = plan[d]
    BY <1>1 DEF PlanPromote, Confirm, CheckStatus, Goto
  <2>2. Copied'
    BY <2>1 DEF ImagesInv, Copied
  <2>3. Pinned(worktree)' /\ Pinned(index)' /\ Pinned(head)'
    BY <2>1 DEF ImagesInv, Pinned
  <2>4. QED
    BY <2>2, <2>3 DEF ImagesInv
<1>2. CASE NoOp(c) \/ ManifestMoved(c) \/ RefuseCommit(c)
             \/ EmptyCommit(c) \/ Abandon(c)
  BY <1>2, ReturnImages
  DEF NoOp, ManifestMoved, RefuseCommit, EmptyCommit, Abandon
<1>3. CASE CopyImage(c)
  <2>1. PICK item \in todo[c] :
          /\ cur' = [cur EXCEPT ![c] = item]
          /\ IF plan[c].to \in CopyEnvs /\ item.new \notin images[Repository[plan[c].to]]
             THEN images' = [images EXCEPT ![Repository[plan[c].to]] =
                                @ \cup {item.new}]
             ELSE images' = images
    BY <1>3 DEF CopyImage
  <2>2. /\ UNCHANGED <<worktree, index, head, plan>>
        /\ pc' = [pc EXCEPT ![c] = "check"]
    BY <1>3 DEF CopyImage, Goto
  <2>3. Repository[plan[c].to] \in Repositories
    BY DEF Plan, Repositories
  <2>4. images \in [Repositories -> SUBSET Digests]
    BY DEF Repositories
  <2>a. ASSUME images' = [images EXCEPT ![Repository[plan[c].to]] = @ \cup {item.new}]
        PROVE  /\ item.new \in images'[Repository[plan[c].to]]
               /\ \A r \in Repositories : images[r] \subseteq images'[r]
    <3>1. item.new \in Digests
      BY DEF Item
    <3> HIDE DEF TypeInv, TypeOK
    <3>2. QED
      BY <2>3, <2>4, <2>a, <3>1, AddImage
  <2>5. \A r \in Repositories : images[r] \subseteq images'[r]
    <3> HIDE DEF TypeInv, TypeOK
    <3> QED
      BY <2>1, <2>a
  <2>6. plan[c].to \in CopyEnvs => item.new \in images'[Repository[plan[c].to]]
    BY <2>1, <2>a
  <2>7. Copied'
    <3> SUFFICES ASSUME NEW d \in Calls, pc'[d] \in {"check", "write"},
                        plan'[d].to \in CopyEnvs
                 PROVE  cur'[d].new \in images'[Repository[plan'[d].to]]
      BY DEF Copied
    <3>1. CASE d = c
      BY <2>1, <2>2, <2>6, <3>1
    <3>2. CASE d # c
      <4>1. cur[d].new \in images[Repository[plan[d].to]] /\ cur'[d] = cur[d]
        BY <2>1, <2>2, <3>2 DEF ImagesInv, Copied
      <4>2. Repository[plan[d].to] \in Repositories
        BY DEF Plan, Repositories
      <4>3. QED
        BY <2>2, <2>5, <4>1, <4>2
    <3>3. QED
      BY <3>1, <3>2
  <2>8. QED
    BY <2>2, <2>5, <2>7, ImagesGrow DEF ImagesInv
<1>4. CASE CheckManifest(c)
  <2>1. /\ UNCHANGED <<worktree, index, head, images, plan, cur>>
        /\ pc[c] = "check" /\ pc' = [pc EXCEPT ![c] = "write"]
    BY <1>4 DEF CheckManifest, Goto
  <2>2. QED
    BY <2>1 DEF ImagesInv, Copied, Pinned
<1>5. CASE WriteManifest(c)
  <2>1. /\ pc[c] = "write"
        /\ worktree' = [worktree EXCEPT ![FileOf(c, cur[c])] = cur[c].new]
        /\ UNCHANGED <<index, head, images, plan>>
        /\ pc' = [pc EXCEPT ![c] = "status"] \/ pc' = [pc EXCEPT ![c] = "copy"]
        /\ cur' = [cur EXCEPT ![c] = None]
    BY <1>5 DEF WriteManifest, Goto
  <2>2. Copied'
    BY <2>1 DEF ImagesInv, Copied
  <2>3. Pinned(worktree)'
    <3> SUFFICES ASSUME NEW e \in CopyEnvs, NEW s \in Services
                 PROVE  worktree'[<<e, s>>] \in images[Repository[e]]
      BY <2>1 DEF Pinned
    <3>1. <<e, s>> \in Files
      BY EnvAssumption DEF Files, Envs
    <3>2. CASE FileOf(c, cur[c]) = <<e, s>>
      <4>1. plan[c].to = e
        BY <3>2 DEF FileOf
      <4>2. QED
        BY <2>1, <3>1, <3>2, <4>1 DEF ImagesInv, Copied
    <3>3. CASE FileOf(c, cur[c]) # <<e, s>>
      BY <2>1, <3>1, <3>3 DEF ImagesInv, Pinned
    <3>4. QED
      BY <3>2, <3>3
  <2>4. QED
    BY <2>1, <2>2, <2>3 DEF ImagesInv, Pinned
<1>6. CASE StageManifest(c)
  <2>1. PICK item \in todo[c] :
          /\ index' = [index EXCEPT ![FileOf(c, item)] = worktree[FileOf(c, item)]]
          /\ UNCHANGED <<worktree, head, images, plan, cur>>
          /\ pc' = [pc EXCEPT ![c] = "commit"] \/ pc' = [pc EXCEPT ![c] = "add"]
    BY <1>6 DEF StageManifest, Goto
  <2>2. \A e \in CopyEnvs, s \in Services :
          index'[<<e, s>>] \in {index[<<e, s>>], worktree[<<e, s>>]}
    <3>1. \A e \in CopyEnvs, s \in Services : <<e, s>> \in Files
      BY EnvAssumption DEF Files, Envs
    <3>2. QED
      BY <2>1, <3>1
  <2>3. Pinned(index)'
    BY <2>1, <2>2 DEF ImagesInv, Pinned
  <2>4. Copied'
    BY <2>1 DEF ImagesInv, Copied
  <2>5. QED
    BY <2>1, <2>3, <2>4 DEF ImagesInv, Pinned
<1>7. CASE CommitIndex(c)
  <2>1. /\ head' = index /\ UNCHANGED <<worktree, index, images, plan, cur>>
        /\ pc' = [pc EXCEPT ![c] = "record"]
    BY <1>7 DEF CommitIndex, Goto
  <2>2. QED
    BY <2>1 DEF ImagesInv, Copied, Pinned
<1>8. CASE RecordItem(c)
  <2>1. UNCHANGED <<worktree, index, head, images>>
    BY <1>8 DEF RecordItem
  <2>2. Return(c) \/ UNCHANGED <<pc, plan, cur>>
    BY <1>8 DEF RecordItem
  <2>3. CASE UNCHANGED <<pc, plan, cur>>
    BY <2>1, <2>3 DEF ImagesInv, Copied, Pinned
  <2>4. QED
    BY <2>1, <2>2, <2>3, ReturnImages
<1>9. QED
  BY <1>1, <1>2, <1>3, <1>4, <1>5, <1>6, <1>7, <1>8 DEF CallNext

LEMMA CheckoutImages ==
    ASSUME TypeInv, ImagesInv, CheckoutNext
    PROVE  ImagesInv'
<1> USE DEF TypeInv, TypeOK
<1>1. UNCHANGED <<images, pc, plan, cur>>
  BY DEF CheckoutNext, RecordImageEvent, SetImageByHand, SetManifestImage, CallerCommit,
         DiscardChanges, call
<1>2. Copied'
  BY <1>1 DEF ImagesInv, Copied
<1>3. CASE DiscardChanges
  BY <1>1, <1>2, <1>3 DEF DiscardChanges, ImagesInv, Pinned
<1>4. ASSUME NEW e \in Envs, NEW s \in Services, NEW d \in images[Repository[e]],
             SetManifestImage(e, s, d)
      PROVE  ImagesInv'
  <2>1. \A x \in CopyEnvs, t \in Services :
          worktree'[<<x, t>>] \in images[Repository[x]]
    <3> SUFFICES ASSUME NEW x \in CopyEnvs, NEW t \in Services
                 PROVE  worktree'[<<x, t>>] \in images[Repository[x]]
      OBVIOUS
    <3>1. <<x, t>> \in Files /\ worktree[<<x, t>>] \in images[Repository[x]]
      BY EnvAssumption DEF Files, Envs, ImagesInv, Pinned
    <3>2. worktree' = [worktree EXCEPT ![<<e, s>>] = d] /\ worktree \in [Files -> Digests]
      BY <1>4 DEF SetManifestImage
    <3>3. CASE <<x, t>> = <<e, s>>
      BY <3>1, <3>2, <3>3
    <3>4. CASE <<x, t>> # <<e, s>>
      BY <3>1, <3>2, <3>4
    <3> QED BY <3>3, <3>4
  <2>2. UNCHANGED <<index, head>>
    BY <1>4 DEF SetManifestImage
  <2>3. QED
    BY <1>1, <1>2, <2>1, <2>2 DEF ImagesInv, Pinned
<1>5. ASSUME NEW e \in Envs, NEW s \in Services, CallerCommit(e, s)
      PROVE  ImagesInv'
  <2>1. \A x \in CopyEnvs, t \in Services :
          /\ index'[<<x, t>>] \in {index[<<x, t>>], worktree[<<x, t>>]}
          /\ head'[<<x, t>>] \in {head[<<x, t>>], worktree[<<x, t>>]}
    <3>1. \A x \in CopyEnvs, t \in Services : <<x, t>> \in Files
      BY EnvAssumption DEF Files, Envs
    <3> QED BY <1>5, <3>1 DEF CallerCommit
  <2>2. UNCHANGED worktree
    BY <1>5 DEF CallerCommit
  <2>3. QED
    BY <1>1, <1>2, <2>1, <2>2 DEF ImagesInv, Pinned
<1>6. QED
  <2>1. AutoEnv \in Envs /\ ManualEnvs \subseteq Envs
    BY DEF Envs
  <2>2. QED
    BY <1>3, <1>4, <1>5, <2>1 DEF CheckoutNext, RecordImageEvent, SetImageByHand

\* No promote, alone or beside others, failing wherever it may, commits a
\* digest that the target's own repository does not hold (promote.go:138-159).
THEOREM PromotedImages == Spec => []PromotedImagesExist
<1>1. Init => ImagesInv
  <2> SUFFICES ASSUME Init PROVE ImagesInv
    OBVIOUS
  <2>1. \A e \in CopyEnvs, s \in Services :
          <<e, s>> \in Files /\ Repository[e] \in Repositories
    BY EnvAssumption DEF Files, Envs, Repositories
  <2>2. \A r \in Repositories : InitialDigest \in images[r]
    BY DigestAssumption DEF Init, Repositories
  <2>3. QED
    BY <2>1, <2>2 DEF Init, ImagesInv, Pinned, Copied
<1>2. TypeInv /\ TypeInv' /\ ImagesInv /\ [Next]_vars => ImagesInv'
  <2>1. CASE UNCHANGED vars
    BY <2>1 DEF vars, ImagesInv, Pinned, Copied
  <2>2. QED
    BY <2>1, CallImages, CheckoutImages DEF Next
<1>3. ImagesInv => PromotedImagesExist
  BY DEF ImagesInv, Pinned, PromotedImagesExist
<1>4. QED
  BY <1>1, <1>2, <1>3, TypeInvariant, PTL DEF Spec
-----------------------------------------------------------------------------
(***************************************************************************)
(* What a promote does when no other promote runs in the checkout, failing *)
(* or not, with image events, manifests set by hand, their commits and an   *)
(* operator around it: what its commit and its history entries hold, and   *)
(* that it implements AtomicPromotion.  With two promotes at a time none   *)
(* of this is true (MCPromotion_sweep.cfg).                                *)
(***************************************************************************)
OneCaller == \A c, d \in Calls : c = d

\* What is in place at each stage of a call: the files its loops have passed
\* hold its digests, and beside them nothing is staged.
CallOK(c) ==
    /\ pc[c] # "idle" => plan[c].to \in ManualEnvs
    /\ pc[c] \notin {"idle", "planned"} => plan[c].items # {}
    /\ \A i, j \in plan[c].items : i.service = j.service => i = j
    /\ todo[c] \subseteq plan[c].items
    /\ pc[c] = "planned" => todo[c] = plan[c].items
    /\ pc[c] \in {"check", "write"} => cur[c] \in todo[c]
    /\ pc[c] \in {"copy", "check", "write"} =>
         \A i \in plan[c].items \ todo[c] : worktree[FileOf(c, i)] = i.new
    /\ pc[c] \in {"status", "add", "commit"} =>
         \A i \in plan[c].items : worktree[FileOf(c, i)] = i.new
    /\ pc[c] = "add" =>
         \A i \in plan[c].items \ todo[c] : index[FileOf(c, i)] = i.new
    /\ pc[c] = "commit" => \A i \in plan[c].items : index[FileOf(c, i)] = i.new
    /\ pc[c] \in {"add", "commit"} => \A f \in Files \ Targets(c) : index[f] = head[f]
    /\ pc[c] = "record" =>
         /\ landed[c] \in DOMAIN log
         /\ \A i \in plan[c].items : log[landed[c]][FileOf(c, i)] = i.new

HistoryOK ==
    \A h \in history : /\ h.commit \in DOMAIN log
                       /\ log[h.commit][<<h.env, h.service>>] = h.digest

AloneInv == TypeInv /\ HistoryOK /\ \A c \in Calls : CallOK(c)

\* A commit leaves the commits before it where they are.
LEMMA AppendKeeps ==
    ASSUME NEW S, NEW s \in Seq(S), NEW e \in S
    PROVE  /\ DOMAIN s \subseteq DOMAIN Append(s, e)
           /\ \A i \in DOMAIN s : Append(s, e)[i] = s[i]
           /\ Len(s) + 1 \in DOMAIN Append(s, e)
           /\ Append(s, e)[Len(s) + 1] = e
OBVIOUS

\* Where only the log changes, and only grows, history stays true.
LEMMA HistoryStays ==
    ASSUME AloneInv, UNCHANGED history,
           \/ UNCHANGED log
           \/ \E tree \in [Files -> Digests] : log' = Append(log, tree)
    PROVE  HistoryOK'
<1>1. CASE UNCHANGED log
  BY <1>1 DEF AloneInv, HistoryOK
<1>2. ASSUME NEW tree \in [Files -> Digests], log' = Append(log, tree)
      PROVE  HistoryOK'
  <2>1. log \in Seq([Files -> Digests])
    BY DEF AloneInv, TypeInv, TypeOK
  <2>2. DOMAIN log \subseteq DOMAIN log' /\ \A i \in DOMAIN log : log'[i] = log[i]
    BY <1>2, <2>1, AppendKeeps
  <2> QED BY <2>2 DEF AloneInv, HistoryOK
<1> QED BY <1>1, <1>2

LEMMA ReturnOK ==
    ASSUME AloneInv, NEW c \in Calls, Return(c)
    PROVE  CallOK(c)'
<1>1. pc'[c] = "idle" /\ plan'[c] = NoPlan /\ todo'[c] = {}
  BY DEF Return, AloneInv, TypeInv, TypeOK
<1> QED BY <1>1 DEF CallOK, NoPlan

\* Items of different services are different files.
LEMMA FilesDiffer ==
    ASSUME NEW c, NEW i, NEW j, i.service # j.service
    PROVE  FileOf(c, i) # FileOf(c, j)
BY DEF FileOf

LEMMA PlanOK ==
    ASSUME AloneInv, NEW c \in Calls, PlanPromote(c)
    PROVE  CallOK(c)'
<1>1. PICK to \in ManualEnvs, from \in Envs, chosen \in Selections :
        /\ plan' = [plan EXCEPT ![c] = [from |-> from, to |-> to,
                                        items |-> Diff(from, to, chosen)]]
        /\ todo' = [todo EXCEPT ![c] = Diff(from, to, chosen)]
  BY DEF PlanPromote
<1>2. \A i, j \in Diff(from, to, chosen) : i.service = j.service => i = j
  <2> SUFFICES ASSUME NEW i \in Diff(from, to, chosen), NEW j \in Diff(from, to, chosen),
                      i.service = j.service
               PROVE  i = j
    OBVIOUS
  <2>1. PICK s \in chosen : i = [service |-> s, old |-> worktree[<<to, s>>],
                                 new |-> worktree[<<from, s>>]]
    BY DEF Diff
  <2>2. PICK t \in chosen : j = [service |-> t, old |-> worktree[<<to, t>>],
                                 new |-> worktree[<<from, t>>]]
    BY DEF Diff
  <2> QED BY <2>1, <2>2
<1>3. /\ plan'[c].to = to /\ plan'[c].items = Diff(from, to, chosen)
      /\ todo'[c] = Diff(from, to, chosen)
      /\ pc'[c] = "planned"
  BY <1>1 DEF PlanPromote, Goto, AloneInv, TypeInv, TypeOK
<1> QED BY <1>2, <1>3 DEF CallOK

LEMMA CopyLoopOK ==
    ASSUME AloneInv, NEW c \in Calls, Confirm(c) \/ CopyImage(c) \/ CheckManifest(c)
    PROVE  CallOK(c)'
<1> USE DEF AloneInv, TypeInv, TypeOK, Goto
<1>1. CASE Confirm(c)
  BY <1>1 DEF Confirm, CallOK, FileOf
<1>2. CASE CopyImage(c)
  <2>1. PICK item \in todo[c] : cur' = [cur EXCEPT ![c] = item]
    BY <1>2 DEF CopyImage
  <2>2. /\ pc[c] = "copy" /\ pc'[c] = "check" /\ cur'[c] = item
        /\ UNCHANGED <<worktree, plan, todo>>
    BY <1>2, <2>1 DEF CopyImage
  <2> QED BY <2>2 DEF CallOK, FileOf
<1>3. CASE CheckManifest(c)
  BY <1>3 DEF CheckManifest, CallOK, FileOf
<1> QED BY <1>1, <1>2, <1>3

LEMMA WriteOK ==
    ASSUME AloneInv, NEW c \in Calls, WriteManifest(c)
    PROVE  CallOK(c)'
<1> DEFINE item == cur[c]
<1>1. /\ pc[c] = "write"
      /\ worktree' = [worktree EXCEPT ![FileOf(c, item)] = item.new]
      /\ todo' = [todo EXCEPT ![c] = @ \ {item}]
      /\ pc' = [pc EXCEPT ![c] = IF todo[c] = {item} THEN "status" ELSE "copy"]
      /\ plan' = plan
  BY DEF WriteManifest, Goto
<1>2. /\ CallOK(c) /\ item \in todo[c] /\ item \in plan[c].items /\ item \in Item
  BY <1>1 DEF AloneInv, CallOK, TypeInv, TypeOK
<1>3. FileOf(c, item) \in Files
  BY <1>2, FileOfType DEF AloneInv, TypeInv
<1>4. /\ pc'[c] = (IF todo[c] = {item} THEN "status" ELSE "copy")
      /\ todo'[c] = todo[c] \ {item}
  BY <1>1 DEF AloneInv, TypeInv, TypeOK
<1>5. \A i \in plan[c].items \ todo'[c] : worktree'[FileOf(c, i)] = i.new
  <2> SUFFICES ASSUME NEW i \in plan[c].items, i \notin todo'[c]
               PROVE  worktree'[FileOf(c, i)] = i.new
    OBVIOUS
  <2>1. worktree \in [Files -> Digests] /\ FileOf(c, i) \in Files
    <3>1. i \in Item
      BY DEF AloneInv, TypeInv, TypeOK, Plan
    <3> QED BY <3>1, FileOfType DEF AloneInv, TypeInv, TypeOK
  <2>2. CASE i = item
    BY <1>1, <1>3, <2>1, <2>2
  <2>3. CASE i # item
    <3>1. i \notin todo[c] /\ i.service # item.service
      BY <1>2, <1>4, <2>3 DEF CallOK
    <3>2. worktree[FileOf(c, i)] = i.new
      BY <1>1, <1>2, <3>1 DEF CallOK
    <3> QED BY <1>1, <2>1, <3>1, <3>2, FilesDiffer
  <2> QED BY <2>2, <2>3
<1>6. \A i : FileOf(c, i)' = FileOf(c, i)
  BY <1>1 DEF FileOf
<1> HIDE DEF item
<1> QED BY <1>1, <1>2, <1>4, <1>5, <1>6 DEF CallOK

LEMMA StatusOK ==
    ASSUME AloneInv, NEW c \in Calls, CheckStatus(c)
    PROVE  CallOK(c)'
<1>1. /\ pc[c] = "status" /\ pc'[c] = "add"
      /\ Changed \subseteq Targets(c)
      /\ todo'[c] = {i \in plan[c].items : FileOf(c, i) \in Changed}
      /\ UNCHANGED <<worktree, index, head, plan>>
  BY DEF CheckStatus, Goto, AloneInv, TypeInv, TypeOK
<1>2. CallOK(c)
  BY DEF AloneInv
<1>3. \A f \in Files \ Targets(c) : index[f] = head[f]
  BY <1>1 DEF Changed
<1>4. \A i \in plan[c].items \ todo'[c] : index[FileOf(c, i)] = i.new
  <2> SUFFICES ASSUME NEW i \in plan[c].items, FileOf(c, i) \notin Changed
               PROVE  index[FileOf(c, i)] = i.new
    BY <1>1
  <2>1. i \in Item
    BY DEF AloneInv, TypeInv, TypeOK, Plan
  <2>2. FileOf(c, i) \in Files
    BY <2>1, FileOfType DEF AloneInv, TypeInv
  <2> QED BY <1>1, <1>2, <2>2 DEF CallOK, Changed
<1>5. Targets(c)' = Targets(c) /\ \A i : FileOf(c, i)' = FileOf(c, i)
  BY <1>1 DEF Targets, FileOf
<1> QED BY <1>1, <1>2, <1>3, <1>4, <1>5 DEF CallOK

LEMMA StageOK ==
    ASSUME AloneInv, NEW c \in Calls, StageManifest(c)
    PROVE  CallOK(c)'
<1>1. PICK item \in todo[c] :
        /\ index' = [index EXCEPT ![FileOf(c, item)] = worktree[FileOf(c, item)]]
        /\ todo' = [todo EXCEPT ![c] = @ \ {item}]
        /\ pc' = [pc EXCEPT ![c] = IF todo[c] = {item} THEN "commit" ELSE "add"]
  BY DEF StageManifest, Goto
<1>2. pc[c] = "add" /\ CallOK(c) /\ UNCHANGED <<worktree, head, plan>>
  BY DEF StageManifest, AloneInv
<1>3. item \in plan[c].items /\ item \in Item
  BY <1>2 DEF CallOK, AloneInv, TypeInv, TypeOK
<1>4. /\ pc'[c] = (IF todo[c] = {item} THEN "commit" ELSE "add")
      /\ todo'[c] = todo[c] \ {item}
  BY <1>1 DEF AloneInv, TypeInv, TypeOK
<1>5. index \in [Files -> Digests] /\ \A i \in plan[c].items : FileOf(c, i) \in Files
  BY FileOfType DEF AloneInv, TypeInv, TypeOK, Plan
<1>6. \A i \in plan[c].items \ todo'[c] : index'[FileOf(c, i)] = i.new
  <2> SUFFICES ASSUME NEW i \in plan[c].items, i \notin todo'[c]
               PROVE  index'[FileOf(c, i)] = i.new
    OBVIOUS
  <2>1. worktree[FileOf(c, i)] = i.new
    BY <1>2 DEF CallOK
  <2>2. CASE i = item
    BY <1>1, <1>5, <2>1, <2>2
  <2>3. CASE i # item
    <3>1. index[FileOf(c, i)] = i.new
      BY <1>2, <1>4, <2>3 DEF CallOK
    <3>2. FileOf(c, i) # FileOf(c, item)
      BY <1>2, <1>3, <2>3, FilesDiffer DEF CallOK
    <3> QED BY <1>1, <1>5, <3>1, <3>2
  <2> QED BY <2>2, <2>3
<1>7. \A f \in Files \ Targets(c) : index'[f] = head[f]
  <2>1. FileOf(c, item) \in Targets(c)
    BY <1>3 DEF Targets
  <2> QED BY <1>1, <1>2, <1>5, <2>1 DEF CallOK
<1>8. Targets(c)' = Targets(c) /\ \A i : FileOf(c, i)' = FileOf(c, i)
  BY <1>2 DEF Targets, FileOf
<1> QED BY <1>2, <1>4, <1>6, <1>7, <1>8 DEF CallOK

LEMMA CommitOK ==
    ASSUME AloneInv, NEW c \in Calls, CommitIndex(c)
    PROVE  CallOK(c)'
<1>1. /\ pc[c] = "commit" /\ pc'[c] = "record"
      /\ log' = Append(log, index)
      /\ landed'[c] = Len(log) + 1
      /\ todo'[c] = plan[c].items
      /\ plan' = plan
  BY DEF CommitIndex, Goto, AloneInv, TypeInv, TypeOK
<1>2. CallOK(c) /\ index \in [Files -> Digests] /\ log \in Seq([Files -> Digests])
  BY DEF AloneInv, TypeInv, TypeOK
<1>3. landed'[c] \in DOMAIN log' /\ log'[landed'[c]] = index
  BY <1>1, <1>2, AppendKeeps
<1>4. \A i : FileOf(c, i)' = FileOf(c, i)
  BY <1>1 DEF FileOf
<1> QED BY <1>1, <1>2, <1>3, <1>4 DEF CallOK

LEMMA RecordOK ==
    ASSUME AloneInv, NEW c \in Calls, RecordItem(c)
    PROVE  CallOK(c)' /\ HistoryOK'
<1>1. PICK item \in todo[c] :
        /\ history' = history \cup
             {[env |-> plan[c].to, service |-> item.service,
               digest |-> item.new, commit |-> landed[c]]}
        /\ \/ Return(c)
           \/ /\ todo' = [todo EXCEPT ![c] = @ \ {item}]
              /\ UNCHANGED <<pc, plan, cur, landed>>
  BY DEF RecordItem
<1>2. pc[c] = "record" /\ CallOK(c) /\ UNCHANGED <<worktree, index, head, log>>
  BY DEF RecordItem, AloneInv
<1>3. HistoryOK'
  <2>1. landed[c] \in DOMAIN log /\ log[landed[c]][<<plan[c].to, item.service>>] = item.new
    BY <1>2 DEF CallOK, FileOf
  <2> DEFINE row == [env |-> plan[c].to, service |-> item.service,
                     digest |-> item.new, commit |-> landed[c]]
  <2>2. row.commit \in DOMAIN log /\ log[row.commit][<<row.env, row.service>>] = row.digest
    BY <2>1
  <2>3. history' = history \cup {row}
    BY <1>1
  <2> HIDE DEF row
  <2> QED BY <1>2, <2>2, <2>3 DEF AloneInv, HistoryOK
<1>4. CallOK(c)'
  <2>1. CASE Return(c)
    BY <2>1, ReturnOK
  <2>2. CASE /\ todo' = [todo EXCEPT ![c] = @ \ {item}]
             /\ UNCHANGED <<pc, plan, cur, landed>>
    <3>1. todo'[c] = todo[c] \ {item}
      BY <2>2 DEF AloneInv, TypeInv, TypeOK
    <3> QED BY <1>2, <2>2, <3>1 DEF CallOK, FileOf
  <2> QED BY <1>1, <2>1, <2>2
<1> QED BY <1>3, <1>4

LEMMA CallStep ==
    ASSUME OneCaller, AloneInv, NEW c \in Calls, CallNext(c)
    PROVE  AloneInv'
<1>1. TypeInv'
  BY CallType DEF AloneInv
<1>2. CallOK(c)' /\ HistoryOK'
  <2>1. CASE PlanPromote(c)
    BY <2>1, PlanOK, HistoryStays DEF PlanPromote
  <2>2. CASE Confirm(c) \/ CopyImage(c) \/ CheckManifest(c)
    BY <2>2, CopyLoopOK, HistoryStays DEF Confirm, CopyImage, CheckManifest
  <2>3. CASE WriteManifest(c)
    BY <2>3, WriteOK, HistoryStays DEF WriteManifest
  <2>4. CASE CheckStatus(c)
    BY <2>4, StatusOK, HistoryStays DEF CheckStatus
  <2>5. CASE StageManifest(c)
    BY <2>5, StageOK, HistoryStays DEF StageManifest
  <2>6. CASE CommitIndex(c)
    <3>1. index \in [Files -> Digests]
      BY DEF AloneInv, TypeInv, TypeOK
    <3> QED BY <2>6, <3>1, CommitOK, HistoryStays DEF CommitIndex
  <2>7. CASE RecordItem(c)
    BY <2>7, RecordOK
  <2>8. CASE NoOp(c) \/ ManifestMoved(c) \/ RefuseCommit(c) \/ EmptyCommit(c) \/ Abandon(c)
    BY <2>8, ReturnOK, HistoryStays
       DEF NoOp, ManifestMoved, RefuseCommit, EmptyCommit, Abandon
  <2> QED BY <2>1, <2>2, <2>3, <2>4, <2>5, <2>6, <2>7, <2>8 DEF CallNext
<1>3. \A d \in Calls : CallOK(d)'
  BY <1>2 DEF OneCaller
<1> QED BY <1>1, <1>2, <1>3 DEF AloneInv

\* While a call executes its plan, only the automatic environment is touched by
\* others, and no plan leads there.
LEMMA TargetsApart ==
    ASSUME AloneInv, NEW c \in Calls, pc[c] \notin {"idle", "planned"},
           NEW e \in Envs, e = AutoEnv \/ Resting
    PROVE  \A s \in Services : \A i : <<e, s>> # FileOf(c, i)
BY EnvAssumption DEF AloneInv, CallOK, FileOf, Resting

LEMMA CheckoutStep ==
    ASSUME AloneInv, CheckoutNext
    PROVE  AloneInv'
<1>1. TypeInv'
  BY CheckoutType DEF AloneInv
<1>2. UNCHANGED <<history, pc, plan, todo, cur, landed>>
  BY DEF CheckoutNext, RecordImageEvent, SetImageByHand, SetManifestImage, CallerCommit,
         DiscardChanges, call
<1>3. \A c, i : FileOf(c, i)' = FileOf(c, i) /\ Targets(c)' = Targets(c)
  BY <1>2 DEF FileOf, Targets
<1>4. ASSUME NEW e \in Envs, NEW s \in Services, NEW d \in Digests,
             e = AutoEnv \/ Resting, SetManifestImage(e, s, d)
      PROVE  HistoryOK' /\ \A c \in Calls : CallOK(c)'
  <2>1. HistoryOK'
    BY <1>2, <1>4, HistoryStays DEF SetManifestImage
  <2>2. ASSUME NEW c \in Calls PROVE CallOK(c)'
    <3>1. pc[c] \notin {"idle", "planned"} => \A i \in plan[c].items :
            worktree'[FileOf(c, i)] = worktree[FileOf(c, i)]
      <4>1. \A i \in plan[c].items : FileOf(c, i) \in Files
        BY FileOfType DEF AloneInv, TypeInv, TypeOK, Plan
      <4>2. /\ worktree' = [worktree EXCEPT ![<<e, s>>] = d]
            /\ worktree \in [Files -> Digests]
        BY <1>4 DEF SetManifestImage, AloneInv, TypeInv, TypeOK
      <4> QED BY <1>4, <4>1, <4>2, TargetsApart
    <3>2. CallOK(c) /\ UNCHANGED <<index, head, log>>
      BY <1>4 DEF SetManifestImage, AloneInv
    <3> QED BY <1>2, <1>3, <3>1, <3>2 DEF CallOK
  <2> QED BY <2>1, <2>2
<1>5. ASSUME NEW e \in Envs, NEW s \in Services, CallerCommit(e, s)
      PROVE  HistoryOK' /\ \A c \in Calls : CallOK(c)'
  <2> DEFINE f == <<e, s>>
  <2>0. e = AutoEnv \/ Resting
    BY <1>5 DEF CallerCommit
  <2>1. /\ index' = [index EXCEPT ![f] = worktree[f]]
        /\ head' = [head EXCEPT ![f] = worktree[f]]
        /\ log' = Append(log, head')
        /\ worktree' = worktree
    BY <1>5 DEF CallerCommit
  <2>2. /\ index \in [Files -> Digests] /\ head \in [Files -> Digests]
        /\ head' \in [Files -> Digests] /\ log \in Seq([Files -> Digests])
    BY <1>1 DEF AloneInv, TypeInv, TypeOK
  <2>3. HistoryOK'
    BY <1>2, <2>1, <2>2, HistoryStays
  <2>4. DOMAIN log \subseteq DOMAIN log' /\ \A k \in DOMAIN log : log'[k] = log[k]
    BY <2>1, <2>2, AppendKeeps
  <2>5. ASSUME NEW c \in Calls PROVE CallOK(c)'
    <3>1. pc[c] \notin {"idle", "planned"} => \A i \in plan[c].items :
            index'[FileOf(c, i)] = index[FileOf(c, i)]
      <4>1. \A i \in plan[c].items : FileOf(c, i) \in Files
        BY FileOfType DEF AloneInv, TypeInv, TypeOK, Plan
      <4> QED BY <2>0, <2>1, <2>2, <4>1, TargetsApart
    <3>2. \A g \in Files : index[g] = head[g] => index'[g] = head'[g]
      BY <2>1, <2>2
    <3>3. CallOK(c)
      BY DEF AloneInv
    <3> HIDE DEF f
    <3> QED BY <1>2, <1>3, <2>1, <2>4, <3>1, <3>2, <3>3 DEF CallOK
  <2> QED BY <2>3, <2>5
<1>6. CASE DiscardChanges
  <2>1. HistoryOK'
    BY <1>2, <1>6, HistoryStays DEF DiscardChanges
  <2>2. \A c \in Calls : pc[c] \in {"idle", "planned"}
    BY <1>6 DEF DiscardChanges, Resting
  <2>3. \A c \in Calls : CallOK(c)'
    BY <1>2, <2>2 DEF AloneInv, CallOK
  <2> QED BY <1>1, <2>1, <2>3 DEF AloneInv
<1>7. AutoEnv \in Envs /\ ManualEnvs \subseteq Envs
  BY DEF Envs
<1> QED BY <1>1, <1>4, <1>5, <1>6, <1>7
        DEF CheckoutNext, RecordImageEvent, SetImageByHand, AloneInv

LEMMA AloneInvariant == ASSUME OneCaller PROVE Spec => []AloneInv
<1>1. Init /\ TypeInv => AloneInv
  BY DEF Init, AloneInv, HistoryOK, CallOK, NoPlan
<1>2. AloneInv /\ [Next]_vars => AloneInv'
  <2> SUFFICES ASSUME AloneInv, [Next]_vars PROVE AloneInv'
    OBVIOUS
  <2>1. CASE UNCHANGED vars
    <3>1. \A c, i : FileOf(c, i)' = FileOf(c, i) /\ Targets(c)' = Targets(c)
      BY <2>1 DEF vars, FileOf, Targets
    <3>2. TypeInv' /\ HistoryOK'
      BY <2>1 DEF vars, AloneInv, TypeInv, TypeOK, CurOK, HistoryOK
    <3>3. \A c \in Calls : CallOK(c)'
      BY <2>1, <3>1 DEF vars, AloneInv, CallOK
    <3> QED BY <3>2, <3>3 DEF AloneInv
  <2>2. CASE Next
    BY <2>2, CallStep, CheckoutStep DEF Next
  <2> QED BY <2>1, <2>2
<1> QED BY <1>1, <1>2, TypeInvariant, PTL DEF Spec

(***************************************************************************)
(* Theorems                                                                *)
(***************************************************************************)
\* The commit a history entry names pins the digest the entry names.
THEOREM HistoryIsTrue == ASSUME OneCaller PROVE Spec => []HistoryMatchesCommit
<1>1. AloneInv => HistoryMatchesCommit
  BY DEF AloneInv, HistoryOK, HistoryMatchesCommit
<1> QED BY <1>1, AloneInvariant, PTL

\* A promote's commit changes the manifests of its plan and no other file,
\* whatever lies in the working tree.
THEOREM CommitsNothingElse == ASSUME OneCaller PROVE Spec => CommitsOnlyTargets
<1> DEFINE Only == \A c \in Calls : CommitIndex(c) =>
                     \A f \in Files : head'[f] # head[f] => f \in Targets(c)
<1>1. AloneInv => Only
  BY DEF AloneInv, CallOK, CommitIndex
<1>2. AloneInv /\ [Next]_vars => [Only]_vars
  BY <1>1
<1> QED BY <1>2, AloneInvariant, PTL DEF Spec, CommitsOnlyTargets

(***************************************************************************)
(* Promotion implements AtomicPromotion                                    *)
(***************************************************************************)
Intents == [c \in Calls |-> Intent(c)]

\* What a call means to land is one move per service, in one environment.
IntentsOK == \A c \in Calls : Intent(c) \in Promise!Moves

LEMMA IntentMoves == AloneInv => IntentsOK
<1> SUFFICES ASSUME AloneInv, NEW c \in Calls
             PROVE  Intent(c) \in Promise!Moves
  BY DEF IntentsOK
<1>1. CASE pc[c] \in {"idle", "record"}
  BY <1>1 DEF Intent, Promise!Moves
<1>2. CASE pc[c] \notin {"idle", "record"}
  <2>1. CallOK(c) /\ plan[c].to \in ManualEnvs /\ plan[c].items \subseteq Item
    BY <1>2 DEF AloneInv, CallOK, TypeInv, TypeOK, Plan
  <2>2. Intent(c) = {<<FileOf(c, i), i.new>> : i \in plan[c].items}
    BY <1>2 DEF Intent
  <2>3. ASSUME NEW i \in plan[c].items
        PROVE  <<FileOf(c, i), i.new>> \in (ManualEnvs \X Services) \X Digests
    BY <2>1 DEF FileOf, Item
  <2>4. ASSUME NEW i \in plan[c].items, NEW j \in plan[c].items
        PROVE  /\ FileOf(c, i)[1] = FileOf(c, j)[1]
               /\ FileOf(c, i) = FileOf(c, j) => i.new = j.new
    BY <2>1 DEF FileOf, CallOK
  <2> QED BY <2>2, <2>3, <2>4 DEF Promise!Moves
<1> QED BY <1>1, <1>2

\* A call whose stage is idle or record means nothing.
LEMMA ReturnGivesUp ==
    ASSUME OneCaller, AloneInv, NEW c \in Calls, Return(c), UNCHANGED head
    PROVE  Promise!GiveUp(c)
<1>1. pc'[c] = "idle"
  BY DEF Return, AloneInv, TypeInv, TypeOK
<1>2. Intents' = [Intents EXCEPT ![c] = {}]
  <2>1. \A d \in Calls : Intent(d)' = {}
    BY <1>1 DEF OneCaller, Intent
  <2>2. \A d \in Calls : d = c
    BY DEF OneCaller
  <2> QED BY <2>1, <2>2 DEF Intents
<1> QED BY <1>2 DEF Promise!GiveUp, Intents

\* Whatever leaves a call's plan, and its stage this side of the commit, leaves
\* what it means.
LEMMA IntentStays ==
    ASSUME OneCaller, NEW c \in Calls, UNCHANGED plan,
           pc[c] \in {"idle", "record"} <=> pc'[c] \in {"idle", "record"}
    PROVE  Intents' = Intents
<1>1. Intent(c)' = Intent(c)
  BY DEF Intent, FileOf
<1>2. \A d \in Calls : d = c
  BY DEF OneCaller
<1> QED BY <1>1, <1>2 DEF Intents

LEMMA PlanBegins ==
    ASSUME OneCaller, IntentsOK', NEW c \in Calls, PlanPromote(c)
    PROVE  Promise!Begin(c)
<1>1. pc[c] = "idle" /\ head' = head
  BY DEF PlanPromote
<1>2. Intents[c] = {}
  BY <1>1 DEF Intents, Intent
<1>4. Intents' \in [Calls -> Promise!Moves]
  <2>1. \A d \in Calls : Intent(d)' \in Promise!Moves
    BY DEF IntentsOK, Promise!Moves, Promise!Files
  <2> QED BY <2>1 DEF Intents
<1>5. \A d \in Calls \ {c} : Intents'[d] = Intents[d]
  BY DEF OneCaller
<1> QED BY <1>1, <1>2, <1>4, <1>5 DEF Promise!Begin, Intents

LEMMA CommitLands ==
    ASSUME OneCaller, AloneInv, NEW c \in Calls, CommitIndex(c)
    PROVE  Promise!Land(c)
<1>1. /\ pc[c] = "commit" /\ pc'[c] = "record" /\ plan' = plan /\ head' = index
      /\ CallOK(c) /\ plan[c].items \subseteq Item
  BY DEF CommitIndex, Goto, AloneInv, TypeInv, TypeOK, Plan
<1>2. Intents[c] = {<<FileOf(c, i), i.new>> : i \in plan[c].items}
  BY <1>1 DEF Intents, Intent
<1>3. Intents[c] # {}
  <2>1. PICK i \in plan[c].items : TRUE
    BY <1>1 DEF CallOK
  <2>2. <<FileOf(c, i), i.new>> \in Intents[c]
    BY <1>2, <2>1
  <2> QED BY <2>2
<1>4. Intents' = [Intents EXCEPT ![c] = {}]
  <2>1. Intent(c)' = {}
    BY <1>1 DEF Intent
  <2>2. \A d \in Calls : d = c
    BY DEF OneCaller
  <2> QED BY <2>1, <2>2 DEF Intents
<1>5. ASSUME NEW f \in Files
      PROVE  index[f] = IF \E d \in Digests : <<f, d>> \in Intents[c]
                        THEN CHOOSE d \in Digests : <<f, d>> \in Intents[c]
                        ELSE head[f]
  <2>1. CASE \E d \in Digests : <<f, d>> \in Intents[c]
    <3>1. \A d \in Digests : <<f, d>> \in Intents[c] => index[f] = d
      BY <1>1, <1>2 DEF CallOK
    <3> QED BY <2>1, <3>1
  <2>2. CASE ~ \E d \in Digests : <<f, d>> \in Intents[c]
    <3>1. ASSUME NEW i \in plan[c].items PROVE f # FileOf(c, i)
      BY <1>1, <1>2, <2>2 DEF Item
    <3>2. f \notin Targets(c)
      BY <3>1 DEF Targets
    <3> QED BY <1>1, <2>2, <3>2 DEF CallOK
  <2> QED BY <2>1, <2>2
<1>6. index \in [Files -> Digests] /\ Files = Promise!Files
  BY DEF AloneInv, TypeInv, TypeOK, Files, Envs, Promise!Files
<1>7. head' = [f \in Promise!Files |->
                 IF \E d \in Digests : <<f, d>> \in Intents[c]
                 THEN CHOOSE d \in Digests : <<f, d>> \in Intents[c]
                 ELSE head[f]]
  BY <1>1, <1>5, <1>6
<1> QED BY <1>3, <1>4, <1>7 DEF Promise!Land, Intents

LEMMA CallKeepsPromise ==
    ASSUME OneCaller, AloneInv, IntentsOK', NEW c \in Calls, CallNext(c)
    PROVE  Promise!Next \/ UNCHANGED <<head, Intents>>
<1>1. CASE PlanPromote(c)
  BY <1>1, PlanBegins DEF Promise!Next
<1>2. CASE NoOp(c) \/ ManifestMoved(c) \/ RefuseCommit(c) \/ EmptyCommit(c) \/ Abandon(c)
  BY <1>2, ReturnGivesUp
     DEF NoOp, ManifestMoved, RefuseCommit, EmptyCommit, Abandon, Promise!Next
<1>3. CASE CommitIndex(c)
  BY <1>3, CommitLands DEF Promise!Next
<1>4. CASE Confirm(c) \/ CopyImage(c) \/ CheckManifest(c) \/ WriteManifest(c)
           \/ CheckStatus(c) \/ StageManifest(c)
  <2>1. /\ UNCHANGED <<plan, head>>
        /\ pc[c] \notin {"idle", "record"} /\ pc'[c] \notin {"idle", "record"}
    BY <1>4 DEF Confirm, CopyImage, CheckManifest, WriteManifest, CheckStatus,
                StageManifest, Goto, AloneInv, TypeInv, TypeOK
  <2> QED BY <2>1, IntentStays
<1>5. CASE RecordItem(c)
  <2>1. pc[c] = "record" /\ head' = head /\ pc'[c] \in {"idle", "record"}
    BY <1>5 DEF RecordItem, Return, AloneInv, TypeInv, TypeOK
  <2>2. Intent(c) = {} /\ Intent(c)' = {}
    BY <2>1 DEF Intent
  <2>3. \A d \in Calls : d = c
    BY DEF OneCaller
  <2> QED BY <2>1, <2>2, <2>3 DEF Intents
<1> QED BY <1>1, <1>2, <1>3, <1>4, <1>5 DEF CallNext

LEMMA CheckoutKeepsPromise ==
    ASSUME AloneInv, CheckoutNext
    PROVE  Promise!Next \/ UNCHANGED <<head, Intents>>
<1>1. Intents' = Intents
  BY DEF CheckoutNext, RecordImageEvent, SetImageByHand, SetManifestImage, CallerCommit,
         DiscardChanges, call, Intents, Intent, FileOf
<1>2. ASSUME NEW e \in Envs, NEW s \in Services, CallerCommit(e, s)
      PROVE  Promise!Next
  <2>1. worktree[<<e, s>>] \in Digests
    BY DEF AloneInv, TypeInv, TypeOK, Files
  <2>2. Promise!Deliver(e, s, worktree[<<e, s>>])
    BY <1>1, <1>2 DEF CallerCommit, Promise!Deliver, Intents
  <2> QED BY <2>1, <2>2 DEF Promise!Next, Envs
<1>3. CASE \A e \in Envs, s \in Services : ~ CallerCommit(e, s)
  BY <1>1, <1>3 DEF CheckoutNext, RecordImageEvent, SetImageByHand, SetManifestImage,
                    DiscardChanges
<1> QED BY <1>2, <1>3

\* A promote that is alone lands the whole of its plan in one commit or
\* nothing, whatever others set by hand before and after:
\* Promotion implements AtomicPromotion.
THEOREM KeepsPromise == ASSUME OneCaller PROVE Spec => ImplementsPromise
<1>1. Init => Promise!Init
  BY DEF Init, Promise!Init, Files, Envs, Promise!Files, Intent
<1>2. AloneInv /\ IntentsOK' /\ [Next]_vars => [Promise!Next]_<<head, Intents>>
  <2> SUFFICES ASSUME AloneInv, IntentsOK', [Next]_vars
               PROVE  Promise!Next \/ UNCHANGED <<head, Intents>>
    OBVIOUS
  <2>1. CASE UNCHANGED vars
    BY <2>1 DEF vars, Intents, Intent, FileOf
  <2>2. CASE Next
    BY <2>2, CallKeepsPromise, CheckoutKeepsPromise DEF Next
  <2> QED BY <2>1, <2>2
<1> QED BY <1>1, <1>2, IntentMoves, AloneInvariant, PTL
        DEF Spec, ImplementsPromise, Promise!Spec, Intents
=============================================================================
